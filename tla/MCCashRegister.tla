--------------------------- MODULE MCCashRegister ---------------------------
(* What people of the shop decide, for TLC: the drawer of a seller          *)
(* (CashRegister), the answers to the questions of the chatbot              *)
(* (HumanDecisions), the cap of a promotion (PromotionCapacity), and the    *)
(* receipts of transfers (Receipts).  They share nothing: the run checks    *)
(* each of them beside the others at rest, the receipts without their       *)
(* purge.  Their sets share model values, and so their permutations.        *)
EXTENDS CashRegister, HumanDecisions, PromotionCapacity, Receipts, TLC

CONSTANTS u1, u2, r1, r2, s1, s2, h1, h2, m1, p1, x1, f1, k3, z1

Symmetric ==
  Permutations(Users) \cup Permutations(Registers) \cup Permutations(Sessions)
    \cup Permutations(Handovers)

(* A second drawer is followed if a FLOAT connects it with the first one    *)
(* and no money is posted to either.  Otherwise the two have a register in *)
(* common or nothing at all, and the second is opened (or refused) and not *)
(* followed.                                                               *)
Connected ==
  \A s, t \in Sessions :
    \/ s = t
    \/ None \in {session[s].register, session[t].register}
    \/ {session[s].float, session[t].float} # {None} /\ movements = {}

-----------------------------------------------------------------------------
(* Two decisions that may replace one another, a third that may replace    *)
(* either, and the same postal code for whoever asks.                      *)
Ask(type, zip, key) == [type |-> type, about |-> zip, after |-> key]
SomeQuestions ==
  { Ask("RESTOCK", Absent, Absent), Ask("RESTOCK", Absent, r1), Ask("RESTOCK", Absent, r2),
    Ask("ZONE", z1, Absent) }

Proof(outcome, at) == [attempt |-> 1, outcome |-> outcome, at |-> at, seen |-> at]
SomeEvidences == {Proof("ACCEPTED", 0), Proof("STALE", 1)}

OneTick == [type \in {"RESTOCK", "EXPIRATION", "ZONE"} |-> 1]

(* The clock strikes early.                                                *)
EarlyTick == clock' # clock => begun <= 1

-----------------------------------------------------------------------------
(* One promotion has a cap, is edited or deleted, and gives two units to a *)
(* sale; the other one is there for the sales that take units of both.     *)
OneInFocus ==
  Cardinality({p \in Promos : \/ ~promo[p].exists \/ promo[p].cap # NoCap
                              \/ p \in recapped \cup revived
                              \/ \E e \in Editors : edit[e][p].busy
                              \/ \E s \in PromoSales : usage[s][p].units > 1}) <= 1

(* Decisions and postal codes share only the handlers.                     *)
OfZones(cmd) ==
  CASE cmd.do = "intake" -> cmd.body.type = "ZONE"
    [] cmd.do = "ack" -> cmd.id[1] = "zone"
    [] OTHER -> cmd.do \in {"settle", "edit"}

OneKind(zonesOnly) ==
  \A h \in Handlers : work'[h].phase = "read" => (OfZones(work'[h].cmd) <=> zonesOnly)

-----------------------------------------------------------------------------
VARIABLE watched  \* the component that runs

watchedVars == <<watched, vars, decisionVars, capacityVars, receiptVars>>

WatchedInit ==
  /\ watched \in {"cash", "decisions", "zones", "units", "receipts"}
  /\ Init /\ DecisionsInit /\ CapacityInit /\ ReceiptsInit
  /\ watched # "units" => \A p \in Promos : promo[p].cap = NoCap
  /\ OneInFocus

WatchedNext ==
  /\ \/ watched = "cash" /\ Next /\ UNCHANGED <<decisionVars, capacityVars, receiptVars>>
     \/ watched \in {"decisions", "zones"} /\ DecisionsNext /\ EarlyTick /\ OneKind(watched = "zones")
        /\ UNCHANGED <<vars, capacityVars, receiptVars>>
     \/ watched = "units" /\ CapacityNext /\ OneInFocus' /\ UNCHANGED <<vars, decisionVars, receiptVars>>
     \/ watched = "receipts" /\ ReceiptsNext
        /\ UNCHANGED <<vars, decisionVars, capacityVars, purgeVars>>
  /\ UNCHANGED watched

WatchedSpec == WatchedInit /\ [][WatchedNext]_watchedVars
=============================================================================
