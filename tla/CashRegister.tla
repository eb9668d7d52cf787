---------------------------- MODULE CashRegister ----------------------------
(***************************************************************************)
(* Cash sessions of shared registers: a cashier opens a drawer, posts      *)
(* money to it, freezes and counts it blindly, hands all that was counted  *)
(* to named recipients and releases it; somebody else verifies and closes  *)
(* the cut.  A FLOAT that was handed over may fund another session.  Every *)
(* command holds the row of its session (or register) locked from its      *)
(* first read to its commit, so each is one step here.  The actors are     *)
(* active members with the permission; replays of a command are answered   *)
(* from the log and change nothing; a register is activated whenever it    *)
(* is to be opened.  Only the channel CASH is modelled.                    *)
(***************************************************************************)
EXTENDS Integers, FiniteSets, FiniteSetsExt, Functions

CONSTANTS
  Users, Registers,
  Sessions, Handovers,                \* ids of rows
  Manuals, Payments, Sales, Refunds,  \* ids of the sources of movements
  MaxCents,                           \* CENTS_STORAGE_MAX
  MaxMovements,                       \* bound on the movements that are followed by others
  None

ASSUME CashAssumption ==
  /\ MaxCents \in Nat /\ MaxMovements \in Nat
  /\ \A S \in {Users, Registers, Sessions, Handovers} : None \notin S
  /\ None \notin Int

VARIABLES
  session,    \* CashSession with its counts and its closing
  movements,  \* CashMovement rows
  handover    \* CashHandover rows

vars == <<session, movements, handover>>

-----------------------------------------------------------------------------
Cents == 0..MaxCents
Storable == -MaxCents..MaxCents  \* assertStorageRangeCents, assertArithmeticRange

Session ==
  [status : {"NONE", "OPEN", "COUNTING", "SUBMITTED", "CLOSED"},
   register : Registers \cup {None}, cashier : Users \cup {None},
   opening : Cents, float : Handovers \cup {None}, released : BOOLEAN,
   expected : Storable \cup {None},
   declared : Cents \cup {None}, noted : BOOLEAN,
   verifier : Users \cup {None},
   closer : Users \cup {None}]

NoSession ==
  [status |-> "NONE", register |-> None, cashier |-> None, opening |-> 0,
   float |-> None, released |-> FALSE, expected |-> None, declared |-> None,
   noted |-> FALSE, verifier |-> None, closer |-> None]

Handover ==
  [source : Sessions, kind : {"WITHDRAWAL", "FLOAT"}, recipient : Users,
   declared : Cents, received : Cents \cup {None}]

ASSUME HandoverAssumption == None \notin Handover

Movement ==
  [source : {"MANUAL"}, id : Manuals, session : Sessions, delta : Storable] \cup
  [source : {"PAYMENT"}, id : Payments, session : Sessions, delta : Storable] \cup
  [source : {"SALE"}, id : Sales, session : Sessions, delta : Storable] \cup
  [source : {"REFUND"}, id : Refunds, session : Sessions, delta : Storable]

Init ==
  /\ session = [s \in Sessions |-> NoSession]
  /\ movements = {}
  /\ handover = [h \in Handovers |-> None]

-----------------------------------------------------------------------------
MovementsOf(s) == {m \in movements : m.session = s}
TotalDelta(rows) == MapThenSumSet(LAMBDA m : m.delta, rows)
Net(s) == TotalDelta(MovementsOf(s))

(* expectedCashCents: the net of the movements, and the opening fund once. *)
Balance(s) == session[s].opening + Net(s)

(* No sum leaves the range: not the net, nor the balance, nor the balance  *)
(* at its furthest.                                                        *)
Bounded(s, more) ==
  {Net(s), Balance(s), Balance(s) + more} \subseteq Storable

HandoversOf(s) == {h \in Handovers : handover[h] # None /\ handover[h].source = s}
Allocated(s) == SumFunction([h \in HandoversOf(s) |-> handover[h].declared])
Received(s) == \A h \in HandoversOf(s) : handover[h].received # None

Unreleased(r) ==
  {s \in Sessions : session[s].register = r /\ ~session[s].released}

DrawerFree(r) == Unreleased(r) = {}

FundsDeclared(h, u, r, cents) ==
  LET f == handover[h]
  IN /\ f # None
     /\ f.kind = "FLOAT" /\ f.recipient = u
     /\ f.received # None /\ f.declared = cents
     /\ session[f.source].register = r => session[f.source].released
     /\ \A s \in Sessions : session[s].float # h

(* A FLOAT funds a session of its recipient, with what was received; on    *)
(* the register it came from, only once that drawer was released.          *)
Funds(h, u, r, cents) ==
  LET f == handover[h]
  IN /\ f # None
     /\ f.kind = "FLOAT" /\ f.recipient = u /\ f.received = cents
     /\ session[f.source].register = r => session[f.source].released
     /\ \A s \in Sessions : session[s].float # h

OpenSession(s, u, r, cents, h) ==
  /\ session[s].status = "NONE"
  /\ DrawerFree(r)
  /\ h # None => Funds(h, u, r, cents)
  /\ session' = [session EXCEPT ![s] =
       [NoSession EXCEPT !.status = "OPEN", !.register = r, !.cashier = u,
                         !.opening = cents, !.float = h]]
  /\ UNCHANGED <<movements, handover>>

-----------------------------------------------------------------------------
(* Movements of one transaction, bounded before any is written; peak is    *)
(* the furthest the balance goes.  A source is recorded once.              *)
PostableOnceFrozen(s) == session[s].status \in {"OPEN", "COUNTING"}

Postable(s) == session[s].status = "OPEN"

Post(s, rows, peak) ==
  /\ Postable(s)
  /\ Cardinality(movements) < MaxMovements
  /\ Bounded(s, peak)
  /\ \A m \in movements, row \in rows : <<m.source, m.id>> # <<row.source, row.id>>
  /\ movements' = movements \cup rows
  /\ UNCHANGED <<session, handover>>

Row(source, id, s, delta) ==
  [source |-> source, id |-> id, session |-> s, delta |-> delta]

(* CASH_IN and CASH_OUT; the source id is a fresh UUID.                    *)
ManualMovement(s, id, delta) ==
  /\ delta # 0
  /\ Post(s, {Row("MANUAL", id, s, delta)}, delta)

(* A tender of a sale and its change, which is recorded once per sale.     *)
RecordPayments(s, p, sale, tender, change) ==
  /\ tender > 0 /\ change <= tender
  /\ Post(s, {Row("PAYMENT", p, s, tender)} \cup
             (IF change > 0 THEN {Row("SALE", sale, s, -change)} ELSE {}), tender)

RecordRefund(s, id, cents) ==
  /\ cents > 0
  /\ Post(s, {Row("REFUND", id, s, -cents)}, -cents)

-----------------------------------------------------------------------------
StartCount(s) ==
  /\ session[s].status = "OPEN"
  /\ Bounded(s, 0)
  /\ session' = [session EXCEPT ![s].status = "COUNTING", ![s].expected = Balance(s)]
  /\ UNCHANGED <<movements, handover>>

Declare(s, cents, noted) ==
  /\ session[s].status = "COUNTING"
  /\ session' = [session EXCEPT ![s].status = "SUBMITTED",
                                ![s].declared = cents, ![s].noted = noted]
  /\ UNCHANGED <<movements, handover>>

(* A revision keeps the amounts and adds an explanation.                   *)
AnnotateDeclaration(s) ==
  /\ session[s].declared # None
  /\ session[s].verifier = None /\ session[s].status # "CLOSED"
  /\ session' = [session EXCEPT ![s].noted = TRUE]
  /\ UNCHANGED <<movements, handover>>

(* compareCashCounts, the verifier having explained his own difference.    *)
(* The amount verified is not kept: closing compares the same three again. *)
Comparable(s, verified) ==
  LET expected == session[s].expected
      declared == session[s].declared
  IN /\ declared # expected => session[s].noted
     /\ {declared - expected, verified - declared, verified - expected} \subseteq Storable

Verify(s, u, cents) ==
  /\ session[s].status = "SUBMITTED"
  /\ u # session[s].cashier
  /\ session[s].verifier = None
  /\ Comparable(s, cents)
  /\ session' = [session EXCEPT ![s].verifier = u]
  /\ UNCHANGED <<movements, handover>>

-----------------------------------------------------------------------------
Allocatable(s) == session[s].status = "SUBMITTED"

CreateHandover(s, h, kind, u, cents) ==
  /\ Allocatable(s)
  /\ handover[h] = None
  /\ kind = "WITHDRAWAL" => u # session[s].cashier
  /\ handover' = [handover EXCEPT ![h] =
       [source |-> s, kind |-> kind, recipient |-> u,
        declared |-> cents, received |-> None]]
  /\ Allocated(s)' <= session[s].declared
  /\ UNCHANGED <<session, movements>>

(* The recipient confirms what he received, be it another amount.          *)
ReceiveHandover(h, cents) ==
  /\ handover[h] # None /\ handover[h].received = None
  /\ handover' = [handover EXCEPT ![h].received = cents]
  /\ UNCHANGED <<session, movements>>

AllocatedInPart(s) == Received(s) /\ Allocated(s) <= session[s].declared

FullyAllocated(s) == Received(s) /\ Allocated(s) = session[s].declared

ReleaseDrawer(s) ==
  /\ session[s].declared # None /\ ~session[s].released
  /\ FullyAllocated(s)
  /\ session' = [session EXCEPT ![s].released = TRUE]
  /\ UNCHANGED <<movements, handover>>

ClosableOnceReleased(s) ==
  /\ session[s].status = "SUBMITTED"
  /\ session[s].released
  /\ session[s].verifier # None

Closable(s) ==
  /\ session[s].status = "SUBMITTED"
  /\ session[s].released
  /\ session[s].verifier # None
  /\ FullyAllocated(s)

Close(s, u) ==
  /\ Closable(s)
  /\ u # session[s].cashier
  /\ session' = [session EXCEPT ![s].status = "CLOSED", ![s].closer = u]
  /\ UNCHANGED <<movements, handover>>

-----------------------------------------------------------------------------
Next ==
  \/ \E s \in Sessions :
       \/ \E u \in Users, r \in Registers, cents \in Cents, h \in Handovers \cup {None} :
            OpenSession(s, u, r, cents, h)
       \/ \E id \in Manuals, delta \in Storable : ManualMovement(s, id, delta)
       \/ \E p \in Payments, sale \in Sales, tender, change \in Cents :
            RecordPayments(s, p, sale, tender, change)
       \/ \E id \in Refunds, cents \in Cents : RecordRefund(s, id, cents)
       \/ StartCount(s)
       \/ \E cents \in Cents, noted \in BOOLEAN : Declare(s, cents, noted)
       \/ AnnotateDeclaration(s)
       \/ \E u \in Users, cents \in Cents : Verify(s, u, cents)
       \/ \E h \in Handovers, kind \in {"WITHDRAWAL", "FLOAT"}, u \in Users, cents \in Cents :
            CreateHandover(s, h, kind, u, cents)
       \/ ReleaseDrawer(s)
       \/ \E u \in Users : Close(s, u)
  \/ \E h \in Handovers, cents \in Cents : ReceiveHandover(h, cents)

Spec == Init /\ [][Next]_vars
-----------------------------------------------------------------------------
TypeOK ==
  /\ session \in [Sessions -> Session]
  /\ movements \subseteq Movement
  /\ handover \in [Handovers -> Handover \cup {None}]

(* A shared drawer has one custodian: a register has one session whose     *)
(* drawer was not released (openSession, releaseDrawer).                   *)
OneDrawer ==
  \A r \in Registers : \A s, t \in Unreleased(r) : s = t

(* Money that was handed over once opens one drawer: the fund of a session *)
(* is what its own cashier received as a FLOAT, no other session has it,   *)
(* and on the same register the drawer it came from was released           *)
(* (resolveOpeningHandover).                                               *)
FloatFundsOnce ==
  \A s \in Sessions :
    session[s].float # None =>
      LET f == handover[session[s].float]
      IN /\ f # None
         /\ f.kind = "FLOAT" /\ f.recipient = session[s].cashier
         /\ f.received = session[s].opening
         /\ session[f.source].register = session[s].register =>
              session[f.source].released
         /\ \A t \in Sessions : session[t].float = session[s].float => t = s

(* No drawer is in two hands, and no money opens two drawers.              *)
DrawersAreExclusive == OneDrawer /\ FloatFundsOnce

(* What a count is compared with is what the ledger of the session says,   *)
(* for ever: no payment, change, refund or manual movement is posted after *)
(* the freeze (startCount, recordPayments, recordRefund).                  *)
ExpectedIsLedger ==
  \A s \in Sessions :
    session[s].status \notin {"NONE", "OPEN"} => session[s].expected = Balance(s)

(* Every cent that was counted has left a released drawer in exactly one   *)
(* handover, and no drawer gives more than was counted (createHandover,    *)
(* releaseDrawer).                                                         *)
CountedIsHandedOver ==
  \A s \in Sessions :
    /\ HandoversOf(s) # {} => session[s].declared # None
    /\ session[s].declared # None => Allocated(s) <= session[s].declared
    /\ session[s].released => Allocated(s) = session[s].declared

(* A closed cut stands on custody that others confirmed: everything was    *)
(* received, and neither the verifier nor the closer is the cashier        *)
(* (verify, close).                                                        *)
CutIsBacked ==
  \A s \in Sessions :
    session[s].status = "CLOSED" =>
      /\ session[s].released
      /\ FullyAllocated(s)
      /\ {session[s].verifier, session[s].closer} \subseteq Users \ {session[s].cashier}
      /\ session[s].declared # session[s].expected => session[s].noted

(* A cut that was closed never changes: neither its session, nor the money *)
(* posted to it, nor the handovers it names (close).                       *)
ClosedIsFinal ==
  [][\A s \in Sessions :
       session[s].status = "CLOSED" =>
         /\ session'[s] = session[s]
         /\ MovementsOf(s)' = MovementsOf(s)
         /\ HandoversOf(s)' = HandoversOf(s)
         /\ \A h \in HandoversOf(s) : handover'[h] = handover[h]]_vars
=============================================================================
