--------------------------- MODULE CounterProofs ---------------------------
(***************************************************************************)
(* Proofs about the counter: the drawer of a seller (CashRegister) and his *)
(* draft (DraftPricing).                                                   *)
(*                                                                         *)
(* CashRegister, for any number of users, registers, sessions, handovers   *)
(* and movements.  Inv adds to the invariants of the run that a handover   *)
(* comes from a session that exists (so opening a session takes no source  *)
(* away from a FLOAT), that the handovers at any time are finitely many    *)
(* (so there is a sum of them), and what a session holds before it is      *)
(* counted and before it is verified.                                      *)
(*                                                                         *)
(* DraftPricing, for any wares, lists, customers, catalogues, promotions   *)
(* and limits.  PricingInv adds to what the seller decided that a fresh    *)
(* draft is a fixed point: its prices are settled, so a reprice leaves     *)
(* them, and its promotions, evaluated again, give the draft back.  What   *)
(* others do in between is shown to leave that so, pass by pass.           *)
(***************************************************************************)
EXTENDS CashRegister, DraftPricing, SumProofs, TLAPS

-----------------------------------------------------------------------------
(* The drawer. *)

HandedOver == {h \in Handovers : handover[h] # None}

Sourced ==
  \A h \in Handovers :
    handover[h] # None => session[handover[h].source].status # "NONE"

CheckedAt(s) ==
  /\ session[s].status \in {"NONE", "OPEN", "COUNTING"} =>
       session[s].declared = None /\ session[s].verifier = None
  /\ session[s].status \in {"SUBMITTED", "CLOSED"} => session[s].declared # None
  /\ session[s].verifier # None =>
       /\ session[s].verifier \in Users \ {session[s].cashier}
       /\ session[s].declared # session[s].expected => session[s].noted

LedgerAt(s) ==
  session[s].status \notin {"NONE", "OPEN"} => session[s].expected = Balance(s)

BackedAt(s) ==
  session[s].status = "CLOSED" =>
    /\ session[s].released
    /\ FullyAllocated(s)
    /\ {session[s].verifier, session[s].closer} \subseteq Users \ {session[s].cashier}
    /\ session[s].declared # session[s].expected => session[s].noted

HandedAt(s) ==
  /\ HandoversOf(s) # {} => session[s].declared # None
  /\ session[s].declared # None => Allocated(s) <= session[s].declared
  /\ session[s].released =>
       session[s].declared # None /\ Allocated(s) = session[s].declared

FundedAt(s) ==
  session[s].float # None =>
    LET f == handover[session[s].float]
    IN /\ f # None
       /\ f.kind = "FLOAT" /\ f.recipient = session[s].cashier
       /\ f.received = session[s].opening
       /\ session[f.source].register = session[s].register =>
            session[f.source].released
       /\ \A t \in Sessions : session[t].float = session[s].float => t = s

Sound(s) == CheckedAt(s) /\ LedgerAt(s) /\ BackedAt(s) /\ FundedAt(s) /\ HandedAt(s)

Inv ==
  /\ TypeOK /\ OneDrawer /\ Sourced
  /\ IsFiniteSet(HandedOver)
  /\ \A s \in Sessions : Sound(s)

FinalAt(s) ==
  session[s].status = "CLOSED" =>
    /\ session'[s] = session[s]
    /\ MovementsOf(s)' = MovementsOf(s)
    /\ HandoversOf(s)' = HandoversOf(s)
    /\ \A h \in HandoversOf(s) : handover'[h] = handover[h]

(* What a step from an inductive state does.                               *)
Kept == Inv' /\ \A s \in Sessions : FinalAt(s)

-----------------------------------------------------------------------------
(* The invariant holds before the first command.                           *)
LEMMA InvAtFirst == Init => Inv
<1> SUFFICES ASSUME Init PROVE Inv
  OBVIOUS
<1>1. NoSession \in Session
  BY CashAssumption DEF NoSession, Session, Cents
<1>2. TypeOK
  BY <1>1 DEF Init, TypeOK
<1>3. OneDrawer
  BY CashAssumption DEF Init, OneDrawer, Unreleased, NoSession
<1>4. Sourced
  BY DEF Init, Sourced
<1>5. \A s \in Sessions : Sound(s)
  BY DEF Init, Sound, CheckedAt, LedgerAt, BackedAt, FundedAt, HandedAt, HandoversOf, NoSession
<1>6. HandedOver = {}
  BY DEF Init, HandedOver
<1> QED
  BY <1>2, <1>3, <1>4, <1>5, <1>6, FS_EmptySet DEF Inv

-----------------------------------------------------------------------------
(* A command on a session t that is open or under review: it touches no    *)
(* other row, and neither who holds the session nor what funded it.        *)
Advanced(t) ==
  /\ session' \in [Sessions -> Session]
  /\ session[t].status \notin {"NONE", "CLOSED"} /\ session'[t].status # "NONE"
  /\ session'[t].register = session[t].register
  /\ session'[t].cashier = session[t].cashier
  /\ session'[t].opening = session[t].opening
  /\ session'[t].float = session[t].float
  /\ session[t].released => session'[t].released
  /\ \A s \in Sessions \ {t} : session'[s] = session[s]
  /\ UNCHANGED <<movements, handover>>

(* Rows that such a command leaves alone leave these sums as they are.     *)
LEMMA SumsKept ==
  ASSUME UNCHANGED <<movements, handover>>, NEW s
  PROVE  /\ Net(s)' = Net(s)
         /\ MovementsOf(s)' = MovementsOf(s)
         /\ HandoversOf(s)' = HandoversOf(s)
         /\ Allocated(s)' = Allocated(s)
         /\ Received(s)' <=> Received(s)
<1>1. MovementsOf(s)' = MovementsOf(s) /\ HandoversOf(s)' = HandoversOf(s)
  BY DEF MovementsOf, HandoversOf
<1>2. Net(s)' = Net(s)
  BY <1>1 DEF Net
<1>3. Allocated(s)' = Allocated(s)
  BY <1>1 DEF Allocated
<1>4. Received(s)' <=> Received(s)
  BY <1>1 DEF Received
<1> QED
  BY <1>1, <1>2, <1>3, <1>4

(* What was given out of a drawer stays what it is, so does the drawer's    *)
(* account of it.                                                          *)
LEMMA HandedKept ==
  ASSUME UNCHANGED <<movements, handover>>, NEW s, HandedAt(s),
         session'[s].declared = session[s].declared,
         session'[s].released = session[s].released
  PROVE  HandedAt(s)'
BY SumsKept DEF HandedAt

(* The handovers of a session are finitely many, and their sum is a        *)
(* natural number, none at all for none.                                   *)
LEMMA SumOfHandovers ==
  ASSUME Inv, NEW s \in Sessions
  PROVE  /\ IsFiniteSet(HandoversOf(s))
         /\ \A h \in HandoversOf(s) : handover[h].declared \in Nat
         /\ Allocated(s) \in Nat
         /\ HandoversOf(s) = {} => Allocated(s) = 0
<1> DEFINE given == [h \in HandoversOf(s) |-> handover[h].declared]
<1>1. IsFiniteSet(HandoversOf(s))
  <2>1. HandoversOf(s) \subseteq HandedOver
    BY DEF HandoversOf, HandedOver
  <2> QED
    BY <2>1, FS_Subset DEF Inv
<1>2. \A h \in HandoversOf(s) : handover[h].declared \in Nat
  BY CashAssumption DEF Inv, TypeOK, Handover, HandoversOf, Cents
<1>3. Allocated(s) = SumFunctionOnSet(given, HandoversOf(s))
  BY DEF Allocated, SumFunction
<1>4. \A h \in HandoversOf(s) : given[h] \in Nat
  BY <1>2
<1> HIDE DEF given
<1> QED
  BY <1>1, <1>2, <1>3, <1>4, SumNatural, SumOfNone

(* So it is enough to look at t itself, and there at four facts.           *)
LEMMA AdvanceKeeps ==
  ASSUME Inv, NEW t \in Sessions, Advanced(t),
         CheckedAt(t)', LedgerAt(t)', BackedAt(t)', HandedAt(t)'
  PROVE  Kept
<1> USE DEF Inv, Sound
<1>1. TypeOK'
  BY DEF TypeOK, Advanced
<1>2. OneDrawer'
  <2> SUFFICES ASSUME NEW r \in Registers, NEW a \in Unreleased(r)', NEW b \in Unreleased(r)'
               PROVE  a = b
    BY DEF OneDrawer
  <2>1. a \in Unreleased(r) /\ b \in Unreleased(r)
    BY DEF Unreleased, Advanced
  <2> QED
    BY <2>1 DEF OneDrawer
<1>3. Sourced'
  BY DEF Sourced, Advanced, TypeOK, Handover
<1>4. \A s \in Sessions : FundedAt(s)'
  <2> SUFFICES ASSUME NEW s \in Sessions, session'[s].float # None PROVE FundedAt(s)'
    BY DEF FundedAt
  <2>1. /\ session[s].float = session'[s].float
        /\ session[s].cashier = session'[s].cashier
        /\ session[s].opening = session'[s].opening
        /\ session[s].register = session'[s].register
    BY DEF Advanced
  <2>2. session[s].float \in Handovers
    BY <2>1 DEF TypeOK, Session
  <2> DEFINE f == handover[session[s].float]
  <2>3. FundedAt(s) /\ f # None
    BY <2>1 DEF FundedAt
  <2>4. f.source \in Sessions
    BY <2>2, <2>3 DEF TypeOK, Handover
  <2>5. /\ session'[f.source].register = session[f.source].register
        /\ session[f.source].released => session'[f.source].released
    BY <2>4 DEF Advanced
  <2>6. \A x \in Sessions : session'[x].float = session[x].float
    BY DEF Advanced
  <2>7. handover' = handover
    BY DEF Advanced
  <2> QED
    BY ZenonT(60), <2>1, <2>3, <2>5, <2>6, <2>7 DEF FundedAt
<1>5. \A s \in Sessions : s # t =>
        CheckedAt(s)' /\ LedgerAt(s)' /\ BackedAt(s)' /\ HandedAt(s)'
  <2> SUFFICES ASSUME NEW s \in Sessions, s # t
               PROVE  CheckedAt(s)' /\ LedgerAt(s)' /\ BackedAt(s)' /\ HandedAt(s)'
    OBVIOUS
  <2>1. session'[s] = session[s] /\ UNCHANGED <<movements, handover>>
    BY DEF Advanced
  <2>2. CheckedAt(s)'
    BY <2>1 DEF CheckedAt
  <2>3. LedgerAt(s)'
    BY <2>1, SumsKept DEF LedgerAt, Balance
  <2>4. BackedAt(s)'
    BY <2>1, SumsKept DEF BackedAt, FullyAllocated
  <2>5. HandedAt(s)'
    BY <2>1, HandedKept
  <2> QED
    BY <2>2, <2>3, <2>4, <2>5
<1>6. \A s \in Sessions : FinalAt(s)
  BY SumsKept DEF Advanced, FinalAt
<1>7. HandedOver' = HandedOver
  BY DEF Advanced, HandedOver
<1> QED
  BY <1>1, <1>2, <1>3, <1>4, <1>5, <1>6, <1>7 DEF Kept

(* The freeze takes the expected amount from the ledger of that moment.    *)
LEMMA StartCountKeeps ==
  ASSUME Inv, NEW t \in Sessions, StartCount(t) PROVE Kept
<1> DEFINE n == [session[t] EXCEPT !.status = "COUNTING", !.expected = Balance(t)]
<1>1. session[t] \in Session /\ session[t].status = "OPEN"
      /\ CheckedAt(t) /\ session[t].verifier = None
  BY DEF Inv, Sound, TypeOK, StartCount, CheckedAt
<1>2. Balance(t) \in Storable
  BY DEF StartCount, Bounded
<1>3. n \in Session
  BY ZenonT(120), <1>1, <1>2 DEF Session
<1>4. session' = [session EXCEPT ![t] = n] /\ UNCHANGED <<movements, handover>>
  BY DEF StartCount, Inv, TypeOK
<1>5. Advanced(t)
  BY <1>1, <1>3, <1>4 DEF Advanced, Inv, TypeOK, Session
<1>6. session'[t] = n
  BY <1>4 DEF Inv, TypeOK
<1>7. CheckedAt(t)' /\ BackedAt(t)'
  BY <1>1, <1>6 DEF CheckedAt, BackedAt, Session
<1>8. LedgerAt(t)'
  BY <1>1, <1>4, <1>6, SumsKept DEF LedgerAt, Balance, Session
<1>9. HandedAt(t)'
  BY <1>1, <1>4, <1>6, HandedKept DEF Inv, Sound, Session
<1> QED
  BY <1>5, <1>7, <1>8, <1>9, AdvanceKeeps

(* Every later command leaves the expected amount and the opening alone.   *)
LEMMA ReviewKeeps ==
  ASSUME Inv, NEW t \in Sessions, NEW n \in Session,
         session' = [session EXCEPT ![t] = n], UNCHANGED <<movements, handover>>,
         session[t].status \in {"COUNTING", "SUBMITTED"},
         n.status \in {"COUNTING", "SUBMITTED", "CLOSED"},
         n.register = session[t].register, n.cashier = session[t].cashier,
         n.opening = session[t].opening, n.float = session[t].float,
         n.expected = session[t].expected,
         session[t].released => n.released,
         CheckedAt(t)', BackedAt(t)', HandedAt(t)'
  PROVE  Kept
<1>1. session'[t] = n /\ session' \in [Sessions -> Session]
      /\ \A s \in Sessions \ {t} : session'[s] = session[s]
  BY DEF Inv, TypeOK
<1>2. Advanced(t)
  BY <1>1 DEF Advanced
<1>3. LedgerAt(t)'
  BY <1>1, SumsKept DEF LedgerAt, Balance, Inv, Sound
<1> QED
  BY <1>2, <1>3, AdvanceKeeps

(* A declaration is the first count.                                       *)
LEMMA DeclareKeeps ==
  ASSUME Inv, NEW t \in Sessions, NEW cents \in Cents, NEW noted \in BOOLEAN,
         Declare(t, cents, noted)
  PROVE  Kept
<1> DEFINE n == [session[t] EXCEPT !.status = "SUBMITTED", !.declared = cents, !.noted = noted]
<1>1. session[t] \in Session /\ session[t].status = "COUNTING" /\ session[t].verifier = None
  BY DEF Inv, Sound, TypeOK, Declare, CheckedAt
<1>2. n \in Session
  <2> PICK x : x = session[t]
    OBVIOUS
  <2>1. x \in Session
    BY <1>1
  <2> PICK b \in BOOLEAN : b = noted
    OBVIOUS
  <2>2. [x EXCEPT !.status = "SUBMITTED", !.declared = cents, !.noted = b] \in Session
    BY ONLY <2>1, cents \in Cents, b \in BOOLEAN DEF Session
  <2>3. x = session[t] /\ b = noted
    OBVIOUS
  <2> QED
    BY ONLY <2>2, <2>3 DEF n
<1>3. session' = [session EXCEPT ![t] = n] /\ UNCHANGED <<movements, handover>>
  BY DEF Declare, Inv, TypeOK
<1>4. session'[t] = n /\ cents # None
  BY <1>3, CashAssumption DEF Inv, TypeOK, Cents
<1>5. CheckedAt(t)' /\ BackedAt(t)'
  BY <1>1, <1>4 DEF CheckedAt, BackedAt, Session
<1>6. HandedAt(t)'
  <2>1. HandedAt(t) /\ session[t].declared = None
    BY <1>1 DEF Inv, Sound, CheckedAt
  <2>2. HandoversOf(t) = {} /\ ~session[t].released
    BY <2>1 DEF HandedAt
  <2>3. HandoversOf(t)' = {} /\ Allocated(t)' = 0
    BY <1>3, <2>2, SumsKept, SumOfHandovers
  <2>4. n.declared = cents /\ n.released = session[t].released
    BY <1>1 DEF Session
  <2>5. 0 <= cents
    BY CashAssumption DEF Cents
  <2> QED
    BY <1>4, <2>2, <2>3, <2>4, <2>5 DEF HandedAt
<1> QED
  BY ZenonT(60), <1>1, <1>2, <1>3, <1>5, <1>6, ReviewKeeps DEF Session

(* A note never takes an explanation away.                                 *)
LEMMA AnnotateKeeps ==
  ASSUME Inv, NEW t \in Sessions, AnnotateDeclaration(t) PROVE Kept
<1> DEFINE n == [session[t] EXCEPT !.noted = TRUE]
<1>1. /\ session[t] \in Session /\ session[t].status = "SUBMITTED"
      /\ session[t].verifier = None /\ session[t].declared # None
  BY DEF Inv, Sound, TypeOK, AnnotateDeclaration, CheckedAt, Session
<1>2. n \in Session
  BY ZenonT(60), <1>1 DEF Session
<1>3. session' = [session EXCEPT ![t] = n] /\ UNCHANGED <<movements, handover>>
  BY DEF AnnotateDeclaration, Inv, TypeOK
<1>4. session'[t] = n
  BY <1>3 DEF Inv, TypeOK
<1>5. CheckedAt(t)' /\ BackedAt(t)'
  BY <1>1, <1>4 DEF CheckedAt, BackedAt, Session
<1>6. HandedAt(t)'
  BY <1>1, <1>3, <1>4, HandedKept DEF Inv, Sound, Session
<1> QED
  BY ZenonT(60), <1>1, <1>2, <1>3, <1>5, <1>6, ReviewKeeps DEF Session

(* The verifier is somebody else, and the difference is explained.         *)
LEMMA VerifyKeeps ==
  ASSUME Inv, NEW t \in Sessions, NEW u \in Users, NEW cents \in Cents, Verify(t, u, cents)
  PROVE  Kept
<1> DEFINE n == [session[t] EXCEPT !.verifier = u]
<1>1. session[t] \in Session /\ session[t].status = "SUBMITTED"
      /\ u # session[t].cashier
      /\ (session[t].declared # session[t].expected => session[t].noted)
      /\ session[t].declared # None
  BY DEF Inv, Sound, CheckedAt, TypeOK, Verify, Comparable
<1>2. n \in Session
  BY <1>1 DEF Session
<1>3. session' = [session EXCEPT ![t] = n] /\ UNCHANGED <<movements, handover>>
  BY DEF Verify, Inv, TypeOK
<1>4. session'[t] = n
  BY <1>3 DEF Inv, TypeOK
<1>5. CheckedAt(t)' /\ BackedAt(t)'
  BY <1>1, <1>4 DEF CheckedAt, BackedAt, Session
<1>6. HandedAt(t)'
  BY <1>1, <1>3, <1>4, HandedKept DEF Inv, Sound, Session
<1> QED
  BY <1>1, <1>2, <1>3, <1>5, <1>6, ReviewKeeps DEF Session

(* Only a counted session is released.                                     *)
LEMMA ReleaseKeeps ==
  ASSUME Inv, NEW t \in Sessions, ReleaseDrawer(t) PROVE Kept
<1> DEFINE n == [session[t] EXCEPT !.released = TRUE]
<1>1. session[t] \in Session /\ session[t].status = "SUBMITTED" /\ CheckedAt(t)
  BY DEF Inv, Sound, TypeOK, ReleaseDrawer, CheckedAt, BackedAt, Session
<1>2. n \in Session
  BY <1>1 DEF Session
<1>3. session' = [session EXCEPT ![t] = n] /\ UNCHANGED <<movements, handover>>
  BY DEF ReleaseDrawer, Inv, TypeOK
<1>4. session'[t] = n
  BY <1>3 DEF Inv, TypeOK
<1>5. CheckedAt(t)' /\ BackedAt(t)'
  BY <1>1, <1>4 DEF CheckedAt, BackedAt, Session
<1>6. HandedAt(t)'
  BY <1>1, <1>3, <1>4, SumsKept
     DEF ReleaseDrawer, FullyAllocated, Inv, Sound, HandedAt, Session
<1> QED
  BY <1>1, <1>2, <1>3, <1>5, <1>6, ReviewKeeps DEF Session

(* Closing finds everything received and allocated.                        *)
LEMMA CloseKeeps ==
  ASSUME Inv, NEW t \in Sessions, NEW u \in Users, Close(t, u) PROVE Kept
<1> DEFINE n == [session[t] EXCEPT !.status = "CLOSED", !.closer = u]
<1>1. /\ session[t] \in Session /\ session[t].status = "SUBMITTED"
      /\ session[t].released /\ session[t].verifier # None
      /\ FullyAllocated(t) /\ CheckedAt(t) /\ u # session[t].cashier
  BY DEF Inv, Sound, TypeOK, Close, Closable
<1>2. n \in Session
  BY <1>1 DEF Session
<1>3. session' = [session EXCEPT ![t] = n] /\ UNCHANGED <<movements, handover>>
  BY DEF Close, Inv, TypeOK
<1>4. session'[t] = n
  BY <1>3 DEF Inv, TypeOK
<1>5. FullyAllocated(t)'
  BY <1>1, <1>3, <1>4, SumsKept DEF FullyAllocated, Session
<1>6. CheckedAt(t)' /\ BackedAt(t)'
  BY <1>1, <1>4, <1>5 DEF CheckedAt, BackedAt, Session
<1>7. HandedAt(t)'
  BY <1>1, <1>3, <1>4, HandedKept DEF Inv, Sound, Session
<1> QED
  BY <1>1, <1>2, <1>3, <1>6, <1>7, ReviewKeeps DEF Session

-----------------------------------------------------------------------------
(* A new session takes an id that nothing names yet.                       *)
LEMMA OpenKeeps ==
  ASSUME Inv, NEW t \in Sessions, NEW u \in Users, NEW r \in Registers,
         NEW cents \in Cents, NEW h \in Handovers \cup {None},
         OpenSession(t, u, r, cents, h)
  PROVE  Kept
<1> DEFINE n == [NoSession EXCEPT !.status = "OPEN", !.register = r, !.cashier = u,
                                  !.opening = cents, !.float = h]
<1>1. /\ session' = [session EXCEPT ![t] = n]
      /\ UNCHANGED <<movements, handover>>
      /\ session[t].status = "NONE"
      /\ Unreleased(r) = {}
      /\ h # None => Funds(h, u, r, cents)
  BY DEF OpenSession, DrawerFree
<1>2. /\ n \in Session
      /\ n.status = "OPEN" /\ n.register = r /\ n.cashier = u /\ n.opening = cents
      /\ n.float = h /\ n.released = FALSE /\ n.declared = None /\ n.verifier = None
  BY DEF NoSession, Session
<1> HIDE DEF n
<1>3. /\ TypeOK'
      /\ session'[t] = n /\ \A s \in Sessions \ {t} : session'[s] = session[s]
  BY <1>1, <1>2 DEF Inv, TypeOK
<1>4. OneDrawer'
  <2> SUFFICES ASSUME NEW q \in Registers, NEW a \in Unreleased(q)', NEW b \in Unreleased(q)'
               PROVE  a = b
    BY DEF OneDrawer
  <2>1. \A s \in Unreleased(q)' : s # t => s \in Unreleased(q)
    BY <1>3 DEF Unreleased
  <2>2. t \in Unreleased(q)' => q = r
    BY <1>2, <1>3 DEF Unreleased
  <2> QED
    BY <1>1, <2>1, <2>2 DEF OneDrawer, Inv
<1>5. Sourced'
  BY <1>1, <1>2, <1>3 DEF Inv, Sourced, TypeOK, Handover
<1>6. \A g \in Handovers : handover[g] # None =>
        handover[g].source \in Sessions /\ handover[g].source # t
  BY <1>1 DEF Inv, Sourced, TypeOK, Handover
<1>7. FundedAt(t)'
  <2> SUFFICES ASSUME h # None PROVE FundedAt(t)'
    BY <1>2, <1>3 DEF FundedAt
  <2>1. h \in Handovers /\ Funds(h, u, r, cents)
    BY <1>1
  <2>2. /\ handover[h] # None
        /\ handover[h].kind = "FLOAT" /\ handover[h].recipient = u
        /\ handover[h].received = cents
        /\ session[handover[h].source].register = r => session[handover[h].source].released
        /\ \A s \in Sessions : session[s].float # h
    BY <2>1 DEF Funds
  <2>3. session'[handover[h].source] = session[handover[h].source]
    BY <1>3, <1>6, <2>1, <2>2
  <2>4. \A s \in Sessions : session'[s].float = h => s = t
    BY <1>3, <2>2
  <2> QED
    BY <1>1, <1>2, <1>3, <2>2, <2>3, <2>4 DEF FundedAt
<1>8. ASSUME NEW s \in Sessions, s # t PROVE Sound(s)' /\ FinalAt(s)
  <2>1. session'[s] = session[s] /\ Sound(s)
    BY <1>3, <1>8 DEF Inv
  <2>2. CheckedAt(s)'
    BY <2>1 DEF CheckedAt, Sound
  <2>3. LedgerAt(s)'
    BY <1>1, <2>1, SumsKept DEF LedgerAt, Balance, Sound
  <2>4. BackedAt(s)'
    BY <1>1, <2>1, SumsKept DEF BackedAt, FullyAllocated, Sound
  <2>5. ASSUME session[s].float # None PROVE FundedAt(s)'
    <3> DEFINE g == session[s].float
    <3>1. /\ g \in Handovers /\ handover[g] # None
          /\ handover[g].kind = "FLOAT" /\ handover[g].recipient = session[s].cashier
          /\ handover[g].received = session[s].opening
          /\ session[handover[g].source].register = session[s].register =>
               session[handover[g].source].released
          /\ \A x \in Sessions : session[x].float = g => x = s
      BY <2>1, <2>5 DEF Sound, FundedAt, Inv, TypeOK, Session
    <3>2. session'[handover[g].source] = session[handover[g].source]
      BY <1>3, <1>6, <3>1
    <3>3. g # h
      <4>1. CASE h = None
        BY <4>1, <2>5
      <4>2. CASE h # None
        BY <4>2, <1>1 DEF Funds
      <4> QED
        BY <4>1, <4>2
    <3>4. \A x \in Sessions : session'[x].float = g => x = s
      BY <1>2, <1>3, <3>1, <3>3
    <3> QED
      BY <1>1, <2>1, <3>1, <3>2, <3>4 DEF FundedAt
  <2>6. FundedAt(s)'
    BY <2>1, <2>5 DEF FundedAt
  <2>7. FinalAt(s)
    BY <1>1, <2>1, SumsKept DEF FinalAt
  <2>8. HandedAt(s)'
    BY <1>1, <2>1, HandedKept DEF Sound
  <2> QED
    BY <2>2, <2>3, <2>4, <2>6, <2>7, <2>8 DEF Sound
<1>9. HandedAt(t)'
  BY <1>1, <1>2, <1>3, <1>6 DEF HandedAt, HandoversOf
<1>10. Sound(t)' /\ FinalAt(t)
  BY <1>1, <1>2, <1>3, <1>7, <1>9 DEF Sound, CheckedAt, LedgerAt, BackedAt, FinalAt
<1>11. HandedOver' = HandedOver
  BY <1>1 DEF HandedOver
<1> QED
  BY <1>3, <1>4, <1>5, <1>8, <1>10, <1>11 DEF Kept, Inv

-----------------------------------------------------------------------------
(* Money goes to an open session only, so no count is affected.            *)
LEMMA PostKeeps ==
  ASSUME Inv, NEW t \in Sessions, NEW rows, NEW peak,
         rows \subseteq Movement, \A row \in rows : row.session = t,
         Post(t, rows, peak)
  PROVE  Kept
<1>1. /\ movements' = movements \cup rows
      /\ UNCHANGED <<session, handover>>
      /\ session[t].status = "OPEN"
  BY DEF Post, Postable
<1>2. TypeOK' /\ OneDrawer' /\ Sourced' /\ HandedOver' = HandedOver
  BY <1>1 DEF Inv, TypeOK, OneDrawer, Unreleased, Sourced, HandedOver
<1>3. ASSUME NEW s \in Sessions PROVE Sound(s)' /\ FinalAt(s)
  <2>1. Sound(s)
    BY DEF Inv
  <2>2. s # t => MovementsOf(s)' = MovementsOf(s)
    BY <1>1 DEF MovementsOf
  <2>3. HandoversOf(s)' = HandoversOf(s)
    BY <1>1 DEF HandoversOf
  <2>4. Allocated(s)' = Allocated(s) /\ (Received(s)' <=> Received(s))
    BY <1>1, <2>3 DEF Allocated, Received
  <2>5. LedgerAt(s)'
    BY <1>1, <2>1, <2>2 DEF Sound, LedgerAt, Balance, Net
  <2>6. BackedAt(s)'
    BY <1>1, <2>1, <2>4 DEF Sound, BackedAt, FullyAllocated
  <2>7. CheckedAt(s)' /\ FundedAt(s)' /\ HandedAt(s)'
    BY <1>1, <2>1, <2>3, <2>4 DEF Sound, CheckedAt, FundedAt, HandedAt
  <2>8. FinalAt(s)
    BY <1>1, <2>2, <2>3 DEF FinalAt
  <2> QED
    BY <2>5, <2>6, <2>7, <2>8 DEF Sound
<1> QED
  BY <1>2, <1>3 DEF Kept, Inv

(* The rows that the three kinds of posting write.                         *)
LEMMA RowsAreMovements ==
  /\ \A s \in Sessions, id \in Manuals, delta \in Storable :
       Row("MANUAL", id, s, delta) \in Movement
  /\ \A s \in Sessions, id \in Payments, cents \in Cents :
       Row("PAYMENT", id, s, cents) \in Movement
  /\ \A s \in Sessions, id \in Sales, cents \in Cents :
       Row("SALE", id, s, -cents) \in Movement
  /\ \A s \in Sessions, id \in Refunds, cents \in Cents :
       Row("REFUND", id, s, -cents) \in Movement
  /\ \A source, id, s, delta : Row(source, id, s, delta).session = s
<1>1. \A cents \in Cents : cents \in Storable /\ -cents \in Storable
  BY CashAssumption DEF Cents, Storable
<1> QED
  BY <1>1 DEF Row, Movement

(* Money is posted to an open session only, so no frozen sum moves.        *)
LEMMA PostingsKeep ==
  ASSUME Inv, NEW t \in Sessions,
         \/ \E id \in Manuals, delta \in Storable : ManualMovement(t, id, delta)
         \/ \E p \in Payments, sale \in Sales, tender, change \in Cents :
              RecordPayments(t, p, sale, tender, change)
         \/ \E id \in Refunds, cents \in Cents : RecordRefund(t, id, cents)
  PROVE  Kept
<1>1. CASE \E id \in Manuals, delta \in Storable : ManualMovement(t, id, delta)
  <2>1. PICK id \in Manuals, delta \in Storable : ManualMovement(t, id, delta)
    BY <1>1
  <2> DEFINE rows == {Row("MANUAL", id, t, delta)}
  <2>2. rows \subseteq Movement /\ \A row \in rows : row.session = t
    BY RowsAreMovements
  <2>3. Post(t, rows, delta)
    BY <2>1 DEF ManualMovement
  <2> HIDE DEF rows
  <2> QED
    BY <2>2, <2>3, PostKeeps
<1>2. CASE \E p \in Payments, sale \in Sales, tender, change \in Cents :
              RecordPayments(t, p, sale, tender, change)
  <2>1. PICK p \in Payments, sale \in Sales, tender \in Cents, change \in Cents :
               RecordPayments(t, p, sale, tender, change)
    BY <1>2
  <2> DEFINE rows == {Row("PAYMENT", p, t, tender)} \cup
                     (IF change > 0 THEN {Row("SALE", sale, t, -change)} ELSE {})
  <2>2. rows \subseteq Movement /\ \A row \in rows : row.session = t
    BY RowsAreMovements
  <2>3. Post(t, rows, tender)
    BY <2>1 DEF RecordPayments
  <2> HIDE DEF rows
  <2> QED
    BY <2>2, <2>3, PostKeeps
<1>3. CASE \E id \in Refunds, cents \in Cents : RecordRefund(t, id, cents)
  <2>1. PICK id \in Refunds, cents \in Cents : RecordRefund(t, id, cents)
    BY <1>3
  <2> DEFINE rows == {Row("REFUND", id, t, -cents)}
  <2>2. rows \subseteq Movement /\ \A row \in rows : row.session = t
    BY RowsAreMovements
  <2>3. Post(t, rows, -cents)
    BY <2>1 DEF RecordRefund
  <2> HIDE DEF rows
  <2> QED
    BY <2>2, <2>3, PostKeeps
<1> QED
  BY <1>1, <1>2, <1>3

-----------------------------------------------------------------------------
(* A change of one handover that no closed cut names and no session was    *)
(* funded by.                                                              *)
LEMMA HandoverKeeps ==
  ASSUME Inv, NEW h \in Handovers, NEW row \in Handover,
         handover' = [handover EXCEPT ![h] = row], UNCHANGED <<session, movements>>,
         \A s \in Sessions : session[s].float # h,
         session[row.source].status \notin {"NONE", "CLOSED"},
         handover[h] # None => handover[h].source = row.source,
         HandedAt(row.source)'
  PROVE  Kept
<1>1. /\ TypeOK' /\ handover'[h] = row
      /\ \A g \in Handovers \ {h} : handover'[g] = handover[g]
  BY DEF Inv, TypeOK
<1>2. OneDrawer' /\ Sourced'
  BY <1>1 DEF Inv, OneDrawer, Unreleased, Sourced
<1>3. ASSUME NEW s \in Sessions PROVE Sound(s)' /\ FinalAt(s)
  <2>1. Sound(s)
    BY DEF Inv
  <2>2. s # row.source =>
          /\ HandoversOf(s)' = HandoversOf(s)
          /\ h \notin HandoversOf(s)
    BY <1>1, CashAssumption DEF HandoversOf, Inv, TypeOK, Handover
  <2>3. s # row.source =>
          Allocated(s)' = Allocated(s) /\ (Received(s)' <=> Received(s))
    <3> SUFFICES ASSUME s # row.source
                 PROVE  Allocated(s)' = Allocated(s) /\ (Received(s)' <=> Received(s))
      OBVIOUS
    <3>1. \A g \in HandoversOf(s) : handover'[g] = handover[g]
      BY <1>1, <2>2 DEF HandoversOf
    <3> QED
      BY <2>2, <3>1 DEF Allocated, Received
  <2>4. MovementsOf(s)' = MovementsOf(s)
    BY DEF MovementsOf
  <2>5. LedgerAt(s)'
    BY <2>1, <2>4 DEF Sound, LedgerAt, Balance, Net
  <2>6. BackedAt(s)'
    BY <2>1, <2>3 DEF Sound, BackedAt, FullyAllocated
  <2>7. FundedAt(s)'
    <3> SUFFICES ASSUME session[s].float # None PROVE FundedAt(s)'
      BY DEF FundedAt
    <3>1. session[s].float \in Handovers \ {h}
      BY DEF Inv, TypeOK, Session
    <3>2. handover'[session[s].float] = handover[session[s].float]
      BY <1>1, <3>1
    <3> QED
      BY <2>1, <3>2 DEF Sound, FundedAt
  <2>8. CheckedAt(s)'
    BY <2>1 DEF Sound, CheckedAt
  <2>9. FinalAt(s)
    BY <1>1, <2>2, <2>4 DEF FinalAt, HandoversOf
  <2>10. HandedAt(s)'
    BY <2>1, <2>2, <2>3 DEF Sound, HandedAt
  <2> QED
    BY <2>5, <2>6, <2>7, <2>8, <2>9, <2>10 DEF Sound
<1>4. IsFiniteSet(HandedOver')
  <2>1. HandedOver' \subseteq HandedOver \cup {h}
    BY <1>1 DEF HandedOver
  <2> QED
    BY <2>1, FS_AddElement, FS_Subset DEF Inv
<1> QED
  BY <1>1, <1>2, <1>3, <1>4 DEF Kept, Inv

(* A new handover adds its amount to what its session gave.                *)
LEMMA CreateHandoverAdds ==
  ASSUME Inv, NEW t \in Sessions, NEW h \in Handovers, NEW row \in Handover,
         handover[h] = None, row.source = t,
         handover' = [handover EXCEPT ![h] = row]
  PROVE  Allocated(t)' = row.declared + Allocated(t)
<1> DEFINE S == HandoversOf(t)
           f == [g \in S |-> handover[g].declared]
           k == [g \in S \cup {h} |-> IF g = h THEN row.declared ELSE handover[g].declared]
<1>1. h \notin S
  BY DEF HandoversOf
<1>2. HandoversOf(t)' = S \cup {h}
  BY HandoverAssumption DEF HandoversOf, Inv, TypeOK
<1>3. \A g \in S : handover'[g] = handover[g]
  BY <1>1 DEF HandoversOf, Inv, TypeOK
<1>4. [g \in HandoversOf(t)' |-> handover'[g].declared] = k
  BY <1>2, <1>3 DEF Inv, TypeOK
<1>5. Allocated(t)' = SumFunctionOnSet(k, S \cup {h})
  BY <1>4 DEF Allocated, SumFunction
<1>6. Allocated(t) = SumFunctionOnSet(f, S)
  BY DEF Allocated, SumFunction
<1>7. IsFiniteSet(S) /\ \A g \in S : handover[g].declared \in Nat
  BY SumOfHandovers
<1>8. row.declared \in Nat
  BY CashAssumption DEF Handover, Cents
<1>9. /\ k[h] = row.declared
      /\ Integral(k, S \cup {h})
      /\ \A g \in S : f[g] = k[g]
  BY <1>1, <1>7, <1>8 DEF Integral
<1> HIDE DEF S, f, k
<1>10. SumFunctionOnSet(k, S \cup {h}) = k[h] + SumFunctionOnSet(k, S)
  BY <1>1, <1>7, <1>9, SumAdd
<1>11. SumFunctionOnSet(f, S) = SumFunctionOnSet(k, S)
  BY <1>7, <1>9, SumSame
<1> QED
  BY <1>5, <1>6, <1>9, <1>10, <1>11

(* A new handover is of a session under review, and funds nothing yet.     *)
LEMMA CreateHandoverKeeps ==
  ASSUME Inv, NEW t \in Sessions, NEW h \in Handovers, NEW kind \in {"WITHDRAWAL", "FLOAT"},
         NEW u \in Users, NEW cents \in Cents, CreateHandover(t, h, kind, u, cents)
  PROVE  Kept
<1> DEFINE row == [source |-> t, kind |-> kind, recipient |-> u,
                   declared |-> cents, received |-> None]
<1>1. /\ handover' = [handover EXCEPT ![h] = row] /\ UNCHANGED <<session, movements>>
      /\ session[t].status = "SUBMITTED" /\ handover[h] = None
  BY DEF CreateHandover, Allocatable
<1>2. row \in Handover /\ row.source = t
  BY DEF Handover
<1>3. \A s \in Sessions : session[s].float # h
  BY <1>1, CashAssumption DEF Inv, Sound, FundedAt
<1>4. /\ session[t].declared \in Nat
      /\ session[t].released => Allocated(t) = session[t].declared
      /\ Allocated(t) \in Nat /\ row.declared = cents /\ cents \in Nat
  BY <1>1, SumOfHandovers, CashAssumption
     DEF Inv, TypeOK, Session, Sound, CheckedAt, HandedAt, Cents
<1>5. HandedAt(t)'
  <2>1. Allocated(t)' = row.declared + Allocated(t)
    BY <1>1, <1>2, CreateHandoverAdds
  <2>2. Allocated(t)' <= session[t].declared
    BY DEF CreateHandover
  <2>3. session' = session /\ session[t].declared # None
    BY <1>1 DEF Inv, Sound, CheckedAt
  <2> QED
    BY <1>4, <2>1, <2>2, <2>3 DEF HandedAt
<1> HIDE DEF row
<1> QED
  BY <1>1, <1>2, <1>3, <1>5, HandoverKeeps

(* What is received now was not received before, so it is in no closed cut *)
(* and no session was funded by it.                                        *)
LEMMA ReceiveKeeps ==
  ASSUME Inv, NEW h \in Handovers, NEW cents \in Cents, ReceiveHandover(h, cents)
  PROVE  Kept
<1> PICK row : row = [handover[h] EXCEPT !.received = cents]
  OBVIOUS
<1>1. handover[h] \in Handover /\ handover[h] # None /\ handover[h].received = None
  BY DEF Inv, TypeOK, ReceiveHandover
<1>2. row \in Handover /\ row.source = handover[h].source /\ row.source \in Sessions
  BY <1>1 DEF Handover
<1>3. handover' = [handover EXCEPT ![h] = row] /\ UNCHANGED <<session, movements>>
  BY DEF ReceiveHandover, Inv, TypeOK
<1>4. \A s \in Sessions : session[s].float # h
  <2> SUFFICES ASSUME NEW s \in Sessions, session[s].float = h PROVE FALSE
    OBVIOUS
  <2>1. FundedAt(s) /\ h # None
    BY CashAssumption DEF Inv, Sound
  <2>2. handover[h].received = session[s].opening
    BY <2>1 DEF FundedAt
  <2>3. session[s].opening \in Int
    BY CashAssumption DEF Inv, TypeOK, Session, Cents
  <2> QED
    BY <1>1, <2>2, <2>3, CashAssumption
<1>5. session[row.source].status \notin {"NONE", "CLOSED"}
  <2>1. h \in HandoversOf(row.source)
    BY <1>1, <1>2 DEF HandoversOf
  <2>2. session[row.source].status = "CLOSED" => Received(row.source)
    BY <1>2 DEF Inv, Sound, BackedAt, FullyAllocated
  <2> QED
    BY <1>1, <1>2, <2>1, <2>2 DEF Received, Inv, Sourced
<1>6. row.declared = handover[h].declared
  BY <1>1 DEF Handover
<1>7. HandedAt(row.source)'
  <2> DEFINE t == row.source
  <2>1. \A g \in Handovers : /\ handover'[g] = None <=> handover[g] = None
                             /\ handover'[g].source = handover[g].source
    <3>1. /\ handover'[h] = row
          /\ \A g \in Handovers \ {h} : handover'[g] = handover[g]
      BY <1>3 DEF Inv, TypeOK
    <3> QED
      BY <3>1, <1>1, <1>2, HandoverAssumption
  <2>2. HandoversOf(t)' = HandoversOf(t)
    BY <2>1 DEF HandoversOf
  <2>3. \A g \in HandoversOf(t) : handover'[g].declared = handover[g].declared
    BY <1>3, <1>6 DEF HandoversOf, Inv, TypeOK
  <2>4. Allocated(t)' = Allocated(t)
    BY <2>2, <2>3 DEF Allocated
  <2> QED
    BY <1>2, <1>3, <2>2, <2>4 DEF HandedAt, Inv, Sound
<1> QED
  BY <1>1, <1>2, <1>3, <1>4, <1>5, <1>7, HandoverKeeps

-----------------------------------------------------------------------------
(* Every step keeps the invariant and the closed cuts.                     *)
LEMMA NextKeeps == Inv /\ [Next]_vars => Kept
<1> SUFFICES ASSUME Inv, [Next]_vars PROVE Kept
  OBVIOUS
<1>1. CASE UNCHANGED vars
  <2>1. \A s \in Sessions : Sound(s)' /\ FinalAt(s)
    BY <1>1, SumsKept DEF vars, Inv, Sound, CheckedAt, LedgerAt, Balance, BackedAt,
                          FullyAllocated, FundedAt, HandedAt, FinalAt
  <2>2. TypeOK' /\ OneDrawer' /\ Sourced' /\ HandedOver' = HandedOver
    BY <1>1 DEF vars, Inv, TypeOK, OneDrawer, Unreleased, Sourced, HandedOver
  <2> QED
    BY <2>1, <2>2 DEF Kept, Inv
<1>2. ASSUME NEW t \in Sessions,
             \/ \E u \in Users, r \in Registers, cents \in Cents, h \in Handovers \cup {None} :
                  OpenSession(t, u, r, cents, h)
             \/ StartCount(t)
             \/ \E cents \in Cents, noted \in BOOLEAN : Declare(t, cents, noted)
             \/ AnnotateDeclaration(t)
             \/ \E u \in Users, cents \in Cents : Verify(t, u, cents)
             \/ ReleaseDrawer(t)
             \/ \E u \in Users : Close(t, u)
      PROVE  Kept
  BY <1>2, OpenKeeps, StartCountKeeps, DeclareKeeps, AnnotateKeeps, VerifyKeeps,
     ReleaseKeeps, CloseKeeps
<1>3. ASSUME NEW t \in Sessions,
             \E h \in Handovers, kind \in {"WITHDRAWAL", "FLOAT"}, u \in Users, cents \in Cents :
               CreateHandover(t, h, kind, u, cents)
      PROVE  Kept
  BY <1>3, CreateHandoverKeeps
<1>4. ASSUME \E h \in Handovers, cents \in Cents : ReceiveHandover(h, cents) PROVE Kept
  BY <1>4, ReceiveKeeps
<1> QED
  BY <1>1, <1>2, <1>3, <1>4, PostingsKeep DEF Next

(* So the invariant always holds.                                          *)
LEMMA InvAlways == Spec => []Inv
<1>1. Init => Inv
  BY InvAtFirst
<1>2. Inv /\ [Next]_vars => Inv'
  BY NextKeeps DEF Kept
<1> QED
  BY <1>1, <1>2, PTL DEF Spec

(* A register never has two custodians, and money handed over funds one    *)
(* drawer, with what its cashier received (openSession, releaseDrawer,     *)
(* resolveOpeningHandover).                                                *)
THEOREM ExclusiveDrawers == Spec => []DrawersAreExclusive
<1>1. Inv => DrawersAreExclusive
  BY DEF Inv, Sound, FundedAt, FloatFundsOnce, DrawersAreExclusive
<1> QED
  BY <1>1, InvAlways, PTL

(* The frozen amount is the ledger's for ever (startCount, persistLedger-  *)
(* Movements).                                                             *)
THEOREM FrozenIsLedger == Spec => []ExpectedIsLedger
<1>1. Inv => ExpectedIsLedger
  BY DEF Inv, Sound, LedgerAt, ExpectedIsLedger
<1> QED
  BY <1>1, InvAlways, PTL

(* Whatever the amounts and the recipients, no drawer gives more than was   *)
(* counted, and a released one has given all of it (createHandover,        *)
(* releaseDrawer).                                                         *)
THEOREM CountedLeavesOnce == Spec => []CountedIsHandedOver
<1>1. Inv => CountedIsHandedOver
  BY DEF Inv, Sound, HandedAt, CountedIsHandedOver
<1> QED
  BY <1>1, InvAlways, PTL

(* A closed cut was verified, received and allocated (close).              *)
THEOREM ClosedIsBacked == Spec => []CutIsBacked
<1>1. Inv => CutIsBacked
  BY DEF Inv, Sound, BackedAt, CutIsBacked
<1> QED
  BY <1>1, InvAlways, PTL

(* A closed cut never changes (close).                                     *)
THEOREM CutIsImmutable == Spec => ClosedIsFinal
<1>1. Inv /\ [Next]_vars =>
        [\A s \in Sessions :
           session[s].status = "CLOSED" =>
             /\ session'[s] = session[s]
             /\ MovementsOf(s)' = MovementsOf(s)
             /\ HandoversOf(s)' = HandoversOf(s)
             /\ \A h \in HandoversOf(s) : handover'[h] = handover[h]]_vars
  BY NextKeeps DEF Kept, FinalAt
<1> QED
  BY <1>1, InvAlways, PTL DEF Spec, ClosedIsFinal

-----------------------------------------------------------------------------
(* The draft: what the engine is built from. *)

(* Of a finite set that a relation orders, some member is the greatest.    *)
LEMMA Greatest ==
  ASSUME NEW S, IsFiniteSet(S), S # {}, NEW R,
         \A x, y \in S : <<x, y>> \in R \/ <<y, x>> \in R,
         \A x, y, z \in S : <<x, y>> \in R /\ <<y, z>> \in R => <<x, z>> \in R
  PROVE  \E m \in S : \A x \in S : <<x, m>> \in R
<1> DEFINE Top(T) == \E m \in T : \A x \in T : <<x, m>> \in R
           B == {T \in SUBSET S : T # {} /\ ~Top(T)}
<1>1. SUFFICES ASSUME B # {} PROVE FALSE
  OBVIOUS
<1>2. PICK T \in B : \A U \in SUBSET T : U \in B => U = T
  <2>1. B \subseteq SUBSET S
    OBVIOUS
  <2> HIDE DEF B
  <2> QED
    BY <1>1, <2>1, Smallest
<1>3. T \subseteq S /\ T # {} /\ ~Top(T)
  OBVIOUS
<1> DEFINE x == First(T)
           U == T \ {x}
<1>4. x \in T
  BY <1>3, FirstIn
<1>5. CASE U = {}
  <2>1. \A y \in T : y = x
    BY <1>4, <1>5
  <2> QED
    BY <1>3, <1>4, <2>1
<1>6. CASE U # {}
  <2>1. U \in SUBSET T /\ U # T /\ U \in SUBSET S
    BY <1>3, <1>4
  <2>2. Top(U)
    <3>1. U \notin B
      <4> HIDE DEF B, U
      <4> QED
        BY <1>2, <2>1
    <3> HIDE DEF U, Top
    <3> QED
      BY <1>6, <2>1, <3>1
  <2>3. PICK m \in U : \A y \in U : <<y, m>> \in R
    BY <2>2
  <2>4. CASE <<x, m>> \in R
    BY <1>3, <2>3, <2>4
  <2>5. CASE <<m, x>> \in R
    <3>1. \A y \in T : <<y, x>> \in R
      BY <1>3, <1>4, <2>3, <2>5
    <3> QED
      BY <1>3, <1>4, <3>1
  <2> QED
    BY <1>3, <1>4, <2>1, <2>3, <2>4, <2>5
<1> QED
  BY <1>5, <1>6

(* The largest of finitely many numbers.                                   *)
LEMMA MaxIsMember ==
  ASSUME NEW S, IsFiniteSet(S), S # {}, S \subseteq Int
  PROVE  Max(S) \in S /\ \A x \in S : Max(S) >= x
<1> DEFINE R == {z \in S \X S : z[1] <= z[2]}
<1>1. \A x, y \in S : <<x, y>> \in R <=> x <= y
  OBVIOUS
<1>2. \E m \in S : \A x \in S : <<x, m>> \in R
  <2>1. /\ \A x, y \in S : <<x, y>> \in R \/ <<y, x>> \in R
        /\ \A x, y, z \in S : <<x, y>> \in R /\ <<y, z>> \in R => <<x, z>> \in R
    BY <1>1
  <2> HIDE DEF R
  <2> QED
    BY <2>1, Greatest
<1>3. \E m \in S : \A x \in S : m >= x
  BY <1>1, <1>2
<1> QED
  BY <1>3 DEF Max

(* A non-empty set of numbers has a least one.                             *)
LEMMA LeastNatural ==
  ASSUME NEW B, B \subseteq Nat, B # {}
  PROVE  \E m \in B : \A n \in B : m <= n
<1>1. PICK b \in B : TRUE
  OBVIOUS
<1> DEFINE S == {n \in B : n <= b}
           R == {z \in S \X S : z[2] <= z[1]}
<1>2. IsFiniteSet(S) /\ S # {} /\ S \subseteq Nat
  <2>1. b \in Nat
    BY <1>1
  <2>2. S \in SUBSET Nat /\ b \in S
    <3>1. b <= b
      BY <2>1
    <3>2. b \in S
      BY <1>1, <3>1, Zenon
    <3> QED
      BY <3>2
  <2>3. \A s \in S : s <= b
    OBVIOUS
  <2> HIDE DEF S
  <2> QED
    BY <2>1, <2>2, <2>3, FS_BoundedSetOfNaturals
<1>3. \A x, y \in S : <<x, y>> \in R <=> y <= x
  OBVIOUS
<1>4. \E m \in S : \A x \in S : <<x, m>> \in R
  <2>1. /\ \A x, y \in S : <<x, y>> \in R \/ <<y, x>> \in R
        /\ \A x, y, z \in S : <<x, y>> \in R /\ <<y, z>> \in R => <<x, z>> \in R
    BY <1>2, <1>3
  <2> HIDE DEF R, S
  <2> QED
    BY <1>2, <2>1, Greatest
<1>5. PICK m \in S : \A x \in S : m <= x
  BY <1>3, <1>4
<1>6. \A n \in B : m <= n
  BY <1>2, <1>5
<1> QED
  BY <1>6

(* What a function makes of finitely many values is finitely many values.  *)
LEMMA FiniteImage ==
  ASSUME NEW S, IsFiniteSet(S), NEW f
  PROVE  IsFiniteSet({f[x] : x \in S})
<1> DEFINE g == [x \in S |-> f[x]]
           T == {f[x] : x \in S}
<1>1. g \in Surjection(S, T)
  BY DEF Surjection
<1> QED
  BY <1>1, FS_Surjection

(* The best of finitely many results is one of them.                       *)
LEMMA BestIsResult ==
  ASSUME NEW Q, IsFiniteSet(Q), Q # {}, \A r \in Q : r.saving \in Int /\ r.promo \in Int
  PROVE  BestOf(Q) \in Q
<1> DEFINE R == {z \in Q \X Q : \/ z[2].saving > z[1].saving
                                \/ z[2].saving = z[1].saving /\ z[2].promo <= z[1].promo}
<1>1. \A x, y \in Q : <<x, y>> \in R <=> \/ y.saving > x.saving
                                         \/ y.saving = x.saving /\ y.promo <= x.promo
  OBVIOUS
<1>2. \E m \in Q : \A x \in Q : <<x, m>> \in R
  <2>1. /\ \A x, y \in Q : <<x, y>> \in R \/ <<y, x>> \in R
        /\ \A x, y, z \in Q : <<x, y>> \in R /\ <<y, z>> \in R => <<x, z>> \in R
    BY <1>1
  <2> HIDE DEF R
  <2> QED
    BY <2>1, Greatest
<1>3. \E m \in Q : \A x \in Q : m.saving > x.saving \/ (m.saving = x.saving /\ m.promo <= x.promo)
  <2>1. PICK m \in Q : \A x \in Q : <<x, m>> \in R
    BY <1>2
  <2>2. \A x \in Q : m.saving > x.saving \/ (m.saving = x.saving /\ m.promo <= x.promo)
    <3> HIDE DEF R
    <3> QED
      BY <1>1, <2>1
  <2> QED
    BY <2>2
<1> QED
  BY <1>3 DEF BestOf

-----------------------------------------------------------------------------
(* Lines, carts and the candidates of a pass. *)

Line ==
  [qty : Nat \ {0}, price : Nat, source : {"default", "price_list", "custom"},
   list : Lists \cup {NoList}, pre : Nat \cup {Unset}, cut : Int, promo : Nat]

LineType == {line \in Line : line.pre = Unset => line.cut = 0}

IsCart(d) ==
  /\ DOMAIN d.lines \subseteq Wares
  /\ \A w \in DOMAIN d.lines : d.lines[w] \in LineType

AreCandidates(c) ==
  /\ IsFiniteSet(DOMAIN c) /\ DOMAIN c \subseteq Nat \ {NoPromotion}
  /\ \A p \in DOMAIN c : c[p] \in Offers

(* The greater and the smaller of two numbers, as the model writes them.   *)
LEMMA OfTwo ==
  ASSUME NEW m \in Int, NEW n \in Int
  PROVE  /\ Max({m, n}) \in {m, n} /\ Max({m, n}) >= m /\ Max({m, n}) >= n
         /\ Min({m, n}) \in {m, n} /\ Min({m, n}) <= m /\ Min({m, n}) <= n
<1>1. \E x \in {m, n} : \A y \in {m, n} : x >= y
  <2>1. CASE m >= n
    BY <2>1
  <2>2. CASE n >= m
    BY <2>2
  <2> QED
    BY <2>1, <2>2
<1>2. \E x \in {m, n} : \A y \in {m, n} : x <= y
  <2>1. CASE m >= n
    BY <2>1
  <2>2. CASE n >= m
    BY <2>2
  <2> QED
    BY <2>1, <2>2
<1>3. Max({m, n}) \in {m, n} /\ \A y \in {m, n} : Max({m, n}) >= y
  BY <1>1 DEF Max
<1>4. Min({m, n}) \in {m, n} /\ \A y \in {m, n} : Min({m, n}) <= y
  BY <1>2 DEF Min
<1> QED
  BY <1>3, <1>4

(* Cents stay whole numbers through Percent, CutOf and UnitCut.            *)
LEMMA PercentIsInt ==
  ASSUME NEW cents \in Int, NEW n \in Int PROVE Percent(cents, n) \in Int
<1>1. cents * n \in Int
  OBVIOUS
<1> QED
  BY <1>1 DEF Percent

LEMMA CutIsInt ==
  ASSUME NEW x, x.percent \in Nat, x.off \in Nat, NEW cents \in Int
  PROVE  CutOf(x, cents) \in Int
<1> DEFINE m == Min({x.percent, 99})
<1>1. m \in Int
  <2>1. x.percent \in Int /\ 99 \in Int
    OBVIOUS
  <2>2. m \in {x.percent, 99}
    BY <2>1, OfTwo, Zenon
  <2> QED
    BY <2>1, <2>2
<1>2. Max({1, m}) \in Int
  <2> HIDE DEF m
  <2>1. 1 \in Int
    OBVIOUS
  <2>2. Max({1, m}) \in {1, m}
    BY <1>1, <2>1, OfTwo, Zenon
  <2> QED
    BY <1>1, <2>1, <2>2
<1>3. ClampedPercent(x.percent) \in Int
  BY <1>2 DEF ClampedPercent
<1>4. Percent(cents, ClampedPercent(x.percent)) \in Int
  BY <1>3, PercentIsInt, Zenon
<1>5. x.off \in Int
  OBVIOUS
<1> QED
  BY <1>4, <1>5 DEF CutOf

LEMMA UnitCutIsInt ==
  ASSUME NEW x \in Offers, NEW cents \in Int PROVE UnitCut(x, cents) \in Int
<1> DEFINE m == CutOf(x, cents)
<1>1. m \in Int
  BY CutIsInt DEF Offers
<1>2. Min({m, cents}) \in Int
  <2> HIDE DEF m
  <2> QED
    BY <1>1, OfTwo
<1> QED
  BY <1>2 DEF UnitCut

LEMMA BaseIsNatural == ASSUME NEW line \in LineType PROVE Base(line) \in Nat
BY DEF LineType, Line, Base, Unset

(* The units of some lines are a number.                                   *)
LEMMA QuantityIsNatural ==
  ASSUME NEW d, IsCart(d), PricingAssumption, NEW S, S \subseteq DOMAIN d.lines
  PROVE  Quantity(d, S) \in Nat
<1> DEFINE f == [w \in S |-> d.lines[w].qty]
<1>1. IsFiniteSet(S)
  BY FS_Subset DEF IsCart, PricingAssumption
<1>2. \A w \in S : f[w] \in Nat
  BY DEF IsCart, LineType, Line
<1>3. SumFunctionOnSet(f, S) \in Nat
  <2> HIDE DEF f
  <2> QED
    BY <1>1, <1>2, SumNatural
<1> QED
  BY <1>3 DEF Quantity

-----------------------------------------------------------------------------
(* What the engine may grant. *)

(* What a line wins is admitted, and it is aimed at the line or wanted by  *)
(* nobody.                                                                 *)
Aims(offer, w) ==
  offer.manual => offer.type \in {"PRODUCT_DISCOUNT", "BUY_X_GET_Y"} /\ offer.tier[w] > 0

Grants(c, d, w, r) ==
  /\ r.promo \in Admitted(c, d) /\ r.promo \in Int /\ r.saving \in Int /\ r.units \in Int
  /\ Aims(c[r.promo], w)

(* The engine looks at finitely many promotions.                           *)
LEMMA AdmittedAreFinite ==
  ASSUME NEW c, AreCandidates(c), NEW d
  PROVE  IsFiniteSet(Admitted(c, d)) /\ Admitted(c, d) \subseteq Nat \ {NoPromotion}
BY FS_Subset DEF Admitted, AreCandidates

(* What a product discount grants to a line it may grant.                  *)
LEMMA ProductResultsGrant ==
  ASSUME NEW c, AreCandidates(c), NEW d, IsCart(d), NEW w \in DOMAIN d.lines
  PROVE  /\ IsFiniteSet(ProductResults(c, d, w))
         /\ \A r \in ProductResults(c, d, w) : Grants(c, d, w, r)
<1> DEFINE line == d.lines[w]
           eligible == {p \in Admitted(c, d) :
                          /\ c[p].type = "PRODUCT_DISCOUNT"
                          /\ c[p].tier[w] > 0
                          /\ OnList(c[p], line)
                          /\ UnitCut(c[p], Base(line)) > 0}
           best == {q \in eligible : \A r \in eligible : c[r].tier[w] <= c[q].tier[w]}
           f == [p \in best |-> Winner(p, line.qty, UnitCut(c[p], Base(line)) * line.qty)]
<1>1. ProductResults(c, d, w) = {f[p] : p \in best}
  BY DEF ProductResults
<1>2. IsFiniteSet(best)
  BY AdmittedAreFinite, FS_Subset
<1>3. IsFiniteSet({f[p] : p \in best})
  <2> HIDE DEF best, f
  <2> QED
    BY <1>2, FiniteImage
<1>4. ASSUME NEW p \in best PROVE Grants(c, d, w, f[p])
  <2>1. /\ p \in Admitted(c, d) /\ p \in Int /\ c[p] \in Offers
        /\ c[p].type = "PRODUCT_DISCOUNT" /\ c[p].tier[w] > 0
    BY AdmittedAreFinite DEF AreCandidates, Admitted
  <2>2. line \in LineType
    BY DEF IsCart
  <2>3. Base(line) \in Int /\ line.qty \in Int
    BY <2>2, BaseIsNatural DEF LineType, Line
  <2> DEFINE cut == UnitCut(c[p], Base(line))
  <2>4. cut \in Int
    BY <2>1, <2>3, UnitCutIsInt
  <2>5. cut * line.qty \in Int
    BY <2>3, <2>4
  <2>6. f[p] = Winner(p, line.qty, cut * line.qty)
    OBVIOUS
  <2> HIDE DEF f, cut
  <2> QED
    BY <2>1, <2>3, <2>5, <2>6 DEF Grants, Winner, Aims
<1> QED
  <2> HIDE DEF best, f
  <2> QED
    BY <1>1, <1>3, <1>4

(* What a buy-x-get-y promotion grants to a line it may grant.             *)
LEMMA BuyXGetYResultsGrant ==
  ASSUME NEW c, AreCandidates(c), NEW d, IsCart(d), NEW w \in DOMAIN d.lines
  PROVE  /\ IsFiniteSet(BuyXGetYResults(c, d, w))
         /\ \A r \in BuyXGetYResults(c, d, w) : Grants(c, d, w, r)
<1> DEFINE line == d.lines[w]
           aimed == {q \in Admitted(c, d) : /\ c[q].type = "BUY_X_GET_Y"
                                            /\ c[q].tier[w] > 0
                                            /\ OnList(c[q], line)}
           f == [p \in aimed |->
                   Winner(p, GroupUnits(c[p], line.qty),
                          GroupUnits(c[p], line.qty) * Percent(Base(line), c[p].percent))]
<1>1. BuyXGetYResults(c, d, w) = {f[p] : p \in aimed}
  BY DEF BuyXGetYResults
<1>2. IsFiniteSet(aimed)
  BY AdmittedAreFinite, FS_Subset
<1>3. IsFiniteSet({f[p] : p \in aimed})
  <2> HIDE DEF aimed, f
  <2> QED
    BY <1>2, FiniteImage
<1>4. ASSUME NEW p \in aimed PROVE Grants(c, d, w, f[p])
  <2>1. /\ p \in Admitted(c, d) /\ p \in Int /\ c[p] \in Offers
        /\ c[p].type = "BUY_X_GET_Y" /\ c[p].tier[w] > 0
    BY AdmittedAreFinite DEF AreCandidates, Admitted
  <2>2. line \in LineType
    BY DEF IsCart
  <2>3. Base(line) \in Int /\ line.qty \in Int
    BY <2>2, BaseIsNatural DEF LineType, Line
  <2> DEFINE units == GroupUnits(c[p], line.qty)
             cents == Percent(Base(line), c[p].percent)
  <2>4. units \in Int
    <3>1. c[p].buy + c[p].get \in Nat \ {0} /\ c[p].get \in Int
      BY <2>1 DEF Offers
    <3>2. line.qty \div (c[p].buy + c[p].get) \in Int
      BY <2>3, <3>1
    <3> QED
      BY <3>1, <3>2 DEF GroupUnits
  <2>5. cents \in Int
    <3>1. c[p].percent \in Int
      BY <2>1 DEF Offers
    <3> QED
      BY <2>3, <3>1, PercentIsInt
  <2>6. units * cents \in Int
    <3> HIDE DEF units, cents
    <3> QED
      BY <2>4, <2>5
  <2>7. f[p] = Winner(p, units, units * cents)
    OBVIOUS
  <2> HIDE DEF f, units, cents
  <2> QED
    BY <2>1, <2>4, <2>6, <2>7 DEF Grants, Winner, Aims
<1> QED
  <2> HIDE DEF aimed, f
  <2> QED
    BY <1>1, <1>3, <1>4

(* The units that an advanced promotion gives of a line are a number.      *)
LEMMA AdvancedUnitsAreInt ==
  ASSUME NEW d, IsCart(d), PricingAssumption, NEW w \in DOMAIN d.lines, NEW x \in Offers
  PROVE  AdvancedUnits(d, x, w) \in Int
<1> DEFINE buying == Counted(d, x, x.buys)
           getting == Counted(d, x, x.gets) \ buying
           earlier == {v \in getting : v < w}
           bought == Quantity(d, buying)
           before == Quantity(d, earlier)
           pool == (bought \div x.buy) * x.get
           rest == Max({0, pool - before})
           units == Min({d.lines[w].qty, rest})
<1>1. bought \in Nat /\ before \in Nat
  <2>1. buying \subseteq DOMAIN d.lines /\ earlier \subseteq DOMAIN d.lines
    BY DEF Counted
  <2> HIDE DEF buying, earlier
  <2> QED
    BY <2>1, QuantityIsNatural
<1>2. pool - before \in Int
  <2>1. x.buy \in Nat \ {0} /\ x.get \in Nat
    BY DEF Offers
  <2> HIDE DEF bought, before
  <2>2. bought \div x.buy \in Int
    BY <1>1, <2>1
  <2>3. pool \in Int
    BY <2>1, <2>2
  <2> HIDE DEF pool
  <2> QED
    BY <1>1, <2>3
<1>3. rest \in Int
  <2> DEFINE n == pool - before
  <2>1. n \in Int /\ 0 \in Int
    BY <1>2
  <2>2. rest = Max({0, n})
    OBVIOUS
  <2> HIDE DEF n, rest
  <2>3. Max({0, n}) \in {0, n}
    BY <2>1, OfTwo, Zenon
  <2> QED
    BY <2>1, <2>2, <2>3
<1>4. units \in Int
  <2> DEFINE n == d.lines[w].qty
  <2>1. n \in Int
    BY DEF IsCart, LineType, Line
  <2> HIDE DEF n, rest
  <2>2. Min({n, rest}) \in {n, rest}
    BY <1>3, <2>1, OfTwo, Zenon
  <2>3. Min({n, rest}) \in Int
    BY <1>3, <2>1, <2>2
  <2> QED
    BY <2>3 DEF n
<1> QED
  BY <1>4 DEF AdvancedUnits

(* What an advanced promotion grants to a line it may grant.               *)
LEMMA AdvancedResultsGrant ==
  ASSUME NEW c, AreCandidates(c), NEW d, IsCart(d), PricingAssumption, NEW w \in DOMAIN d.lines
  PROVE  /\ IsFiniteSet(AdvancedResults(c, d, w))
         /\ \A r \in AdvancedResults(c, d, w) : Grants(c, d, w, r)
<1> DEFINE aimed == {q \in Admitted(c, d) : c[q].type = "ADVANCED" /\ ~c[q].manual}
           f == [p \in aimed |->
                   Winner(p, AdvancedUnits(d, c[p], w),
                          AdvancedUnits(d, c[p], w) * Percent(Base(d.lines[w]), c[p].percent))]
<1>1. AdvancedResults(c, d, w) = {f[p] : p \in aimed}
  BY DEF AdvancedResults
<1>2. IsFiniteSet(aimed)
  BY AdmittedAreFinite, FS_Subset
<1>3. IsFiniteSet({f[p] : p \in aimed})
  <2> HIDE DEF aimed, f
  <2> QED
    BY <1>2, FiniteImage
<1>4. ASSUME NEW p \in aimed PROVE Grants(c, d, w, f[p])
  <2>1. p \in Admitted(c, d) /\ p \in Int /\ c[p] \in Offers /\ ~c[p].manual
    BY AdmittedAreFinite DEF AreCandidates, Admitted
  <2>2. Base(d.lines[w]) \in Int
    BY BaseIsNatural DEF IsCart
  <2> DEFINE units == AdvancedUnits(d, c[p], w)
             cents == Percent(Base(d.lines[w]), c[p].percent)
  <2>3. units \in Int
    BY <2>1, AdvancedUnitsAreInt
  <2>4. cents \in Int
    <3>1. c[p].percent \in Int
      BY <2>1 DEF Offers
    <3> QED
      BY <2>2, <3>1, PercentIsInt
  <2>5. units * cents \in Int
    <3> HIDE DEF units, cents
    <3> QED
      BY <2>3, <2>4
  <2>6. f[p] = Winner(p, units, units * cents)
    OBVIOUS
  <2> HIDE DEF f, units, cents
  <2> QED
    BY <2>1, <2>3, <2>5, <2>6 DEF Grants, Winner, Aims
<1> QED
  <2> HIDE DEF aimed, f
  <2> QED
    BY <1>1, <1>3, <1>4

(* A line wins nothing, or what one of its candidates grants; nothing when  *)
(* the seller discounted it.                                               *)
LEMMA LineResultGrants ==
  ASSUME NEW c, AreCandidates(c), NEW d, IsCart(d), PricingAssumption, NEW w \in DOMAIN d.lines
  PROVE  \/ LineResult(c, d, w) = Nothing
         \/ Grants(c, d, w, LineResult(c, d, w)) /\ ~ByHand(d.lines[w])
<1> DEFINE products == ProductResults(c, d, w)
           others == BuyXGetYResults(c, d, w) \cup AdvancedResults(c, d, w)
           all == {r \in {BestOf(products)} \cup others : r.saving > 0}
<1>1. SUFFICES ASSUME ~ByHand(d.lines[w])
               PROVE  BestOf(all) = Nothing \/ Grants(c, d, w, BestOf(all))
  BY DEF LineResult
<1>2. IsFiniteSet(products) /\ \A r \in products : Grants(c, d, w, r)
  BY ProductResultsGrant
<1>3. IsFiniteSet(others) /\ \A r \in others : Grants(c, d, w, r)
  BY BuyXGetYResultsGrant, AdvancedResultsGrant, FS_Union
<1> DEFINE best == BestOf(products)
<1>4. best = Nothing \/ Grants(c, d, w, best)
  <2>1. CASE products = {}
    BY <2>1 DEF BestOf
  <2>2. CASE products # {}
    <3>1. \A r \in products : r.saving \in Int /\ r.promo \in Int
      BY <1>2 DEF Grants
    <3> HIDE DEF products
    <3> QED
      BY <1>2, <2>2, <3>1, BestIsResult
  <2> QED
    BY <2>1, <2>2
<1>5. IsFiniteSet(all)
  <2>1. IsFiniteSet({best} \cup others)
    <3> HIDE DEF best, others
    <3>1. IsFiniteSet(others \cup {best}) /\ others \cup {best} = {best} \cup others
      BY <1>3, FS_AddElement
    <3> QED
      BY <3>1
  <2> QED
    BY <2>1, FS_Subset
<1>6. \A r \in all : Grants(c, d, w, r)
  <2>1. ASSUME NEW r \in all PROVE Grants(c, d, w, r)
    <3>1. r \in {best} \cup others /\ r.saving > 0
      OBVIOUS
    <3>2. r # Nothing
      BY <3>1 DEF Nothing, Winner
    <3> HIDE DEF best, others
    <3> QED
      BY <1>3, <1>4, <3>1, <3>2
  <2> QED
    BY <2>1
<1>7. CASE all = {}
  <2> HIDE DEF all
  <2> QED
    BY <1>7 DEF BestOf
<1>8. CASE all # {}
  <2>1. \A r \in all : r.saving \in Int /\ r.promo \in Int
    <3> HIDE DEF all
    <3> QED
      BY <1>6 DEF Grants
  <2> HIDE DEF all
  <2>2. BestOf(all) \in all
    BY <1>5, <1>8, <2>1, BestIsResult
  <2> QED
    BY <1>6, <2>2
<1> QED
  BY <1>7, <1>8

(* The order wins nothing, or what one of its candidates grants.           *)
LEMMA OrderResultGrants ==
  ASSUME NEW c, AreCandidates(c), NEW d, IsCart(d), PricingAssumption
  PROVE  LET r == Evaluation(c, d).order
         IN  \/ r = Nothing
             \/ /\ r.promo \in Admitted(c, d)
                /\ c[r.promo].type = "ORDER_DISCOUNT"
                /\ r.units \in Int
<1> DEFINE carted == DOMAIN d.lines
           results == [w \in carted |-> LineResult(c, d, w)]
           worth == [w \in carted |-> Base(d.lines[w]) * d.lines[w].qty]
           rest == [w \in carted |-> worth[w] - TakenOff(c, d.lines[w], results[w])]
           before == SumFunctionOnSet(worth, carted)
           after == SumFunctionOnSet(rest, carted)
           aimed == {q \in Admitted(c, d) : /\ c[q].type = "ORDER_DISCOUNT"
                                            /\ \A w \in carted : OnList(c[q], d.lines[w])
                                            /\ before >= c[q].min
                                            /\ after > 0}
           f == [p \in aimed |-> Winner(p, Quantity(d, carted), UnitCut(c[p], after))]
           offered == {f[p] : p \in aimed}
           wins == {r \in offered : r.saving > 0}
<1>1. Evaluation(c, d).order = BestOf(wins)
  BY DEF Evaluation, OrderResult
<1>2. after \in Int
  <2>1. ASSUME NEW w \in carted PROVE rest[w] \in Int
    <3>1. Base(d.lines[w]) \in Int /\ d.lines[w].qty \in Nat \ {0}
      BY BaseIsNatural DEF IsCart, LineType, Line
    <3>2. worth[w] \in Int
      BY <3>1
    <3>3. results[w] = Nothing \/ results[w].saving \in Int
      BY LineResultGrants DEF Grants
    <3>4. TakenOff(c, d.lines[w], results[w]) \in Int
      <4>1. CASE results[w] = Nothing
        BY <4>1 DEF TakenOff, Nothing, Winner
      <4>2. CASE results[w].saving \in Int
        <5>1. results[w].saving \div d.lines[w].qty \in Int
          <6> HIDE DEF results
          <6> QED
            BY <3>1, <4>2
        <5> HIDE DEF results
        <5> QED
          BY <4>2, <5>1 DEF TakenOff
      <4> QED
        BY <3>3, <4>1, <4>2
    <3>5. rest[w] = worth[w] - TakenOff(c, d.lines[w], results[w])
      OBVIOUS
    <3> HIDE DEF rest, worth, results
    <3> QED
      BY <3>2, <3>4, <3>5
  <2>2. IsFiniteSet(carted)
    BY FS_Subset DEF IsCart, PricingAssumption
  <2>3. Integral(rest, carted)
    <3> HIDE DEF rest
    <3> QED
      BY <2>1 DEF Integral
  <2> HIDE DEF rest
  <2> QED
    BY <2>2, <2>3, SumType
<1>3. IsFiniteSet(wins)
  <2>1. IsFiniteSet(aimed)
    BY AdmittedAreFinite, FS_Subset
  <2>2. IsFiniteSet(offered)
    <3> HIDE DEF aimed, f
    <3> QED
      BY <2>1, FiniteImage
  <2> HIDE DEF offered
  <2> QED
    BY <2>2, FS_Subset
<1>4. ASSUME NEW p \in aimed
      PROVE  /\ f[p].promo = p /\ p \in Int /\ f[p].saving \in Int /\ f[p].units \in Int
             /\ p \in Admitted(c, d) /\ c[p].type = "ORDER_DISCOUNT"
  <2>1. /\ p \in Admitted(c, d) /\ p \in Int /\ c[p] \in Offers
        /\ c[p].type = "ORDER_DISCOUNT"
    BY AdmittedAreFinite DEF AreCandidates, Admitted
  <2>2. UnitCut(c[p], after) \in Int
    <3> HIDE DEF after
    <3> QED
      BY <1>2, <2>1, UnitCutIsInt
  <2>3. f[p] = Winner(p, Quantity(d, carted), UnitCut(c[p], after))
    OBVIOUS
  <2>4. Quantity(d, carted) \in Nat
    BY QuantityIsNatural
  <2> HIDE DEF f, after
  <2> QED
    BY <2>1, <2>2, <2>3, <2>4 DEF Winner
<1>5. CASE wins = {}
  <2> HIDE DEF wins
  <2> QED
    BY <1>1, <1>5 DEF BestOf
<1>6. CASE wins # {}
  <2>1. \A r \in wins : \E p \in aimed : r = f[p]
    <3> HIDE DEF aimed, f
    <3> QED
      OBVIOUS
  <2> HIDE DEF wins, aimed, f
  <2>2. \A r \in wins : r.saving \in Int /\ r.promo \in Int
    BY <1>4, <2>1
  <2>3. BestOf(wins) \in wins
    BY <1>3, <1>6, <2>2, BestIsResult
  <2> QED
    BY <1>1, <1>4, <2>1, <2>3
<1> QED
  BY <1>5, <1>6

-----------------------------------------------------------------------------
(* The state, and what a recompute makes of a sale. *)

(* A draft that the program can hold: its lines are of wares on sale, and  *)
(* its list is one of the lists or none.                                   *)
IsSale(d) ==
  /\ d = [lines |-> d.lines, list |-> d.list, explicit |-> d.explicit,
          customer |-> d.customer, order |-> d.order,
          vetoed |-> d.vetoed, optedIn |-> d.optedIn]
  /\ IsCart(d)
  /\ d.list \in Lists \cup {NoList}

(* The types of the variables, over any finite set of promotions.          *)
PricingTyped ==
  /\ IsSale(draft)
  /\ IsCatalogue(prices)
  /\ AreCandidates(promotions)
  /\ live \subseteq DOMAIN promotions
  /\ DOMAIN left = DOMAIN promotions
  /\ \A p \in DOMAIN left : left[p] \in Nat \cup {Unlimited}

(* What is left of the promotions are promotions.                          *)
LEMMA CandidatesAre ==
  ASSUME PricingTyped, NEW out PROVE AreCandidates(Candidates(out))
<1>1. IsFiniteSet(live \ out)
  BY FS_Subset DEF PricingTyped, AreCandidates
<1> QED
  BY <1>1 DEF PricingTyped, AreCandidates, Candidates

(* The price for a quantity is that of one of the tiers.                   *)
LEMMA EffectivePriceIsListed ==
  ASSUME NEW tiers, IsFiniteSet(DOMAIN tiers), 1 \in DOMAIN tiers,
         \A k \in DOMAIN tiers : k \in Nat /\ tiers[k] \in Nat, NEW n
  PROVE  /\ TierFor(tiers, n) \in DOMAIN tiers
         /\ EffectivePrice(tiers, n) \in Nat
<1> DEFINE met == {k \in DOMAIN tiers : k = 1 \/ (k <= n /\ tiers[k] > 0)}
<1>1. IsFiniteSet(met)
  BY FS_Subset
<1>2. met # {} /\ met \subseteq Int /\ met \subseteq DOMAIN tiers
  OBVIOUS
<1>3. Max(met) \in met
  <2> HIDE DEF met
  <2> QED
    BY <1>1, <1>2, MaxIsMember
<1> QED
  BY <1>2, <1>3 DEF TierFor, EffectivePrice

(* Taking the promotion off a line leaves what the seller decided of it.   *)
LEMMA ClearedIs ==
  ASSUME NEW line \in LineType
  PROVE  /\ Cleared(line) \in LineType /\ Cleared(line).promo = NoPromotion
         /\ Cleared(line).qty = line.qty /\ Cleared(line).source = line.source
         /\ Cleared(line).list = line.list /\ Base(Cleared(line)) = Base(line)
         /\ ByHand(Cleared(line)) <=> ByHand(line)
         /\ OwnPrice(Cleared(line)) = OwnPrice(line)
<1>1. CASE line.promo = NoPromotion
  BY <1>1 DEF Cleared
<1>2. CASE line.promo # NoPromotion
  <2>1. Base(line) \in Nat
    BY BaseIsNatural
  <2> DEFINE new == WithoutDiscount(line)
  <2>2. Cleared(line) = new
    BY <1>2 DEF Cleared
  <2>3. new = [qty |-> line.qty, price |-> Base(line), source |-> line.source,
               list |-> line.list, pre |-> Unset, cut |-> 0, promo |-> NoPromotion]
    <3>1. line = [qty |-> line.qty, price |-> line.price, source |-> line.source,
                  list |-> line.list, pre |-> line.pre, cut |-> line.cut, promo |-> line.promo]
      BY DEF LineType, Line
    <3> DEFINE base == Base(line)
    <3>2. new = [line EXCEPT !.price = base, !.pre = Unset, !.cut = 0, !.promo = NoPromotion]
      BY DEF WithoutDiscount
    <3> HIDE DEF new, base
    <3>3. new = [qty |-> line.qty, price |-> base, source |-> line.source,
                 list |-> line.list, pre |-> Unset, cut |-> 0, promo |-> NoPromotion]
      BY <3>1, <3>2
    <3> QED
      BY <3>3 DEF base
  <2> HIDE DEF new
  <2>4. new \in LineType
    BY <2>1, <2>3 DEF LineType, Line, NoPromotion
  <2>5. ~ByHand(line) /\ ~ByHand(new) /\ Base(new) = Base(line)
    BY <1>2, <2>3 DEF ByHand, Base
  <2> QED
    BY <2>2, <2>3, <2>4, <2>5 DEF OwnPrice
<1> QED
  BY <1>1, <1>2

(* The list that a line is priced from.                                    *)
ListFor(d, line) == IF line.list # NoList THEN line.list ELSE SaleList(d)

(* A line is priced from a list that exists.                               *)
LEMMA ListForIsList ==
  ASSUME PricingAssumption, NEW d, IsSale(d), NEW line \in LineType
  PROVE  ListFor(d, line) \in Lists
BY DEF PricingAssumption, IsSale, LineType, Line, ListFor, SaleList

(* The lines that a reprice leaves alone: made by hand, discounted by hand,*)
(* or without a price in the list.                                         *)
Keeps(d, w, line) ==
  line.source = "custom" \/ ByHand(line) \/ w \notin DOMAIN prices[ListFor(d, line)]

(* A reprice keeps the quantity and whatever price the seller made.        *)
LEMMA RepricedIs ==
  ASSUME PricingAssumption, PricingTyped, NEW d, IsSale(d), NEW w, NEW line \in LineType,
         line.promo = NoPromotion
  PROVE  /\ Repriced(d, w, line) \in LineType
         /\ Repriced(d, w, line).promo = NoPromotion
         /\ Repriced(d, w, line).qty = line.qty /\ Repriced(d, w, line).list = line.list
         /\ OwnPrice(line) # Unset => Repriced(d, w, line) = line
         /\ Keeps(d, w, line) => Repriced(d, w, line) = line
         /\ ~Keeps(d, w, line) =>
              Repriced(d, w, line) =
                [qty |-> line.qty,
                 price |-> EffectivePrice(prices[ListFor(d, line)][w], line.qty),
                 source |-> "price_list", list |-> line.list, pre |-> Unset,
                 cut |-> line.cut, promo |-> NoPromotion]
<1>1. Keeps(d, w, line) => Repriced(d, w, line) = line
  BY DEF Keeps, Repriced, ListFor
<1>2. OwnPrice(line) # Unset => Keeps(d, w, line)
  BY DEF Keeps, OwnPrice
<1>3. ASSUME ~Keeps(d, w, line)
      PROVE  /\ Repriced(d, w, line) =
                  [qty |-> line.qty,
                   price |-> EffectivePrice(prices[ListFor(d, line)][w], line.qty),
                   source |-> "price_list", list |-> line.list, pre |-> Unset,
                   cut |-> line.cut, promo |-> NoPromotion]
             /\ EffectivePrice(prices[ListFor(d, line)][w], line.qty) \in Nat
  <2> DEFINE cents == EffectivePrice(prices[ListFor(d, line)][w], line.qty)
  <2>1. line.pre = Unset
    BY <1>3 DEF Keeps, ByHand
  <2>2. cents \in Nat
    <3>1. ListFor(d, line) \in Lists
      BY ListForIsList
    <3> DEFINE tiers == prices[ListFor(d, line)][w]
    <3>2. /\ IsFiniteSet(DOMAIN tiers) /\ 1 \in DOMAIN tiers
          /\ \A k \in DOMAIN tiers : k \in Nat /\ tiers[k] \in Nat
      BY <1>3, <3>1 DEF Keeps, PricingTyped, IsCatalogue
    <3> HIDE DEF tiers
    <3>3. EffectivePrice(tiers, line.qty) \in Nat
      BY <3>2, EffectivePriceIsListed
    <3> QED
      BY <3>3 DEF tiers
  <2>3. Repriced(d, w, line) = [line EXCEPT !.price = cents, !.source = "price_list"]
    BY <1>3 DEF Keeps, Repriced, ListFor
  <2> HIDE DEF cents
  <2>4. Repriced(d, w, line) =
          [qty |-> line.qty, price |-> cents, source |-> "price_list", list |-> line.list,
           pre |-> Unset, cut |-> line.cut, promo |-> NoPromotion]
    BY <2>1, <2>3 DEF LineType, Line
  <2> QED
    BY <2>2, <2>4 DEF cents
<1>4. CASE Keeps(d, w, line)
  BY <1>1, <1>4
<1>5. CASE ~Keeps(d, w, line)
  <2> DEFINE cents == EffectivePrice(prices[ListFor(d, line)][w], line.qty)
             new == [qty |-> line.qty, price |-> cents, source |-> "price_list",
                     list |-> line.list, pre |-> Unset, cut |-> line.cut,
                     promo |-> NoPromotion]
  <2>1. Repriced(d, w, line) = new /\ cents \in Nat
    BY <1>3, <1>5
  <2> HIDE DEF cents
  <2>2. new \in LineType
    <3>1. line.pre = Unset
      BY <1>5 DEF Keeps, ByHand
    <3>2. line.cut = 0
      BY <3>1 DEF LineType
    <3> QED
      BY <2>1, <3>2 DEF LineType, Line
  <2>3. /\ Repriced(d, w, line) \in LineType
        /\ Repriced(d, w, line).promo = NoPromotion
        /\ Repriced(d, w, line).qty = line.qty /\ Repriced(d, w, line).list = line.list
    BY <2>1, <2>2
  <2> QED
    BY <1>2, <1>3, <1>5, <2>3
<1> QED
  BY <1>4, <1>5

(* A discount changes what a line costs and not what it is.                *)
LEMMA DiscountedIs ==
  ASSUME NEW line \in LineType, NEW x, x.percent \in Nat, x.off \in Nat, Grantable(line, x),
         NEW p \in Nat
  PROVE  LET new == Discounted(line, x, p)
         IN  /\ new \in LineType /\ new.promo = p
             /\ new.qty = line.qty /\ new.source = line.source /\ new.list = line.list
             /\ new.pre # Unset /\ Base(new) = Base(line)
<1> DEFINE base == Base(line)
           cut == CutOf(x, base)
           new == Discounted(line, x, p)
<1>1. base \in Nat
  BY BaseIsNatural
<1>2. cut \in Int
  <2> HIDE DEF base
  <2> QED
    BY <1>1, CutIsInt
<1>3. base - cut \in Nat
  <2>1. base - cut >= 1
    BY DEF Grantable
  <2> HIDE DEF base, cut
  <2> QED
    BY <1>1, <1>2, <2>1
<1>4. line = [qty |-> line.qty, price |-> line.price, source |-> line.source,
              list |-> line.list, pre |-> line.pre, cut |-> line.cut, promo |-> line.promo]
  BY DEF LineType, Line
<1>5. new = [line EXCEPT !.pre = base, !.cut = cut, !.price = base - cut, !.promo = p]
  BY DEF Discounted
<1> HIDE DEF base, cut, new
<1>6. new = [qty |-> line.qty, price |-> base - cut, source |-> line.source,
             list |-> line.list, pre |-> base, cut |-> cut, promo |-> p]
  BY <1>4, <1>5
<1>8. base # Unset
  BY <1>1 DEF Unset
<1>7. new \in LineType
  <2>1. new \in Line
    BY <1>1, <1>2, <1>3, <1>6 DEF LineType, Line
  <2> QED
    BY <1>6, <1>8, <2>1 DEF LineType
<1>9. Base(new) = base
  BY <1>6, <1>8 DEF Base
<1> QED
  BY <1>6, <1>7, <1>8, <1>9 DEF base, new

(* What a line without a promotion becomes by its result.                  *)
Wins(line, r) ==
  \/ r = Nothing
  \/ /\ r.promo \in DOMAIN promotions /\ r.saving \in Int /\ ~ByHand(line)
     /\ promotions[r.promo].type = "PRODUCT_DISCOUNT" => Grantable(line, promotions[r.promo])

(* What the promotions give a line changes neither its base price nor what *)
(* the seller decided of it.                                               *)
LEMMA AppliedIs ==
  ASSUME AreCandidates(promotions), NEW line \in LineType, line.promo = NoPromotion,
         NEW r, Wins(line, r)
  PROVE  LET new == Applied(line, r)
         IN  /\ new \in LineType /\ new.promo = r.promo
             /\ r = Nothing => new = line
             /\ new.qty = line.qty /\ new.source = line.source /\ new.list = line.list
             /\ r # Nothing => new.promo # NoPromotion /\ new.pre # Unset
             /\ Base(new) = Base(line)
             /\ ByHand(new) <=> ByHand(line)
             /\ OwnPrice(line) # Unset => OwnPrice(new) = OwnPrice(line)
<1> DEFINE new == Applied(line, r)
<1>1. CASE r = Nothing
  <2>1. new = line
    BY <1>1 DEF Applied, Nothing, Winner
  <2> QED
    BY <1>1, <2>1 DEF Nothing, Winner
<1>2. CASE r # Nothing
  <2>1. /\ r.promo \in DOMAIN promotions /\ r.saving \in Int /\ ~ByHand(line)
        /\ promotions[r.promo].type = "PRODUCT_DISCOUNT" => Grantable(line, promotions[r.promo])
    BY <1>2 DEF Wins
  <2>2. r.promo \in Nat /\ r.promo # NoPromotion /\ promotions[r.promo] \in Offers
    BY <2>1 DEF AreCandidates
  <2>3. line.pre = Unset /\ Base(line) = line.price
    BY <2>1 DEF ByHand, Base
  <2>4. /\ new \in LineType /\ new.promo = r.promo
        /\ new.qty = line.qty /\ new.source = line.source /\ new.list = line.list
        /\ new.pre # Unset /\ Base(new) = Base(line)
    <3>1. CASE promotions[r.promo].type = "PRODUCT_DISCOUNT"
      <4>1. new = Discounted(line, promotions[r.promo], r.promo)
        BY <2>2, <3>1 DEF Applied
      <4>2. promotions[r.promo].percent \in Nat /\ promotions[r.promo].off \in Nat
        BY <2>2 DEF Offers
      <4> HIDE DEF new
      <4> QED
        BY <2>1, <2>2, <3>1, <4>1, <4>2, DiscountedIs
    <3>2. CASE promotions[r.promo].type # "PRODUCT_DISCOUNT"
      <4>1. new = [line EXCEPT !.pre = line.price, !.cut = r.saving, !.promo = r.promo]
        BY <2>2, <3>2 DEF Applied
      <4>2. line = [qty |-> line.qty, price |-> line.price, source |-> line.source,
                    list |-> line.list, pre |-> line.pre, cut |-> line.cut, promo |-> line.promo]
        BY DEF LineType, Line
      <4> HIDE DEF new
      <4>3. new = [qty |-> line.qty, price |-> line.price, source |-> line.source,
                   list |-> line.list, pre |-> line.price, cut |-> r.saving, promo |-> r.promo]
        BY <4>1, <4>2
      <4>4. line.price \in Nat /\ line.price # Unset
        BY DEF LineType, Line, Unset
      <4>5. new \in LineType
        BY <2>1, <2>2, <4>3, <4>4 DEF LineType, Line
      <4>6. Base(new) = line.price
        BY <4>3, <4>4 DEF Base
      <4> QED
        BY <2>3, <4>3, <4>4, <4>5, <4>6
    <3> QED
      BY <3>1, <3>2
  <2> HIDE DEF new
  <2>5. ~ByHand(new)
    BY <2>2, <2>4 DEF ByHand
  <2>6. OwnPrice(line) # Unset => OwnPrice(new) = OwnPrice(line)
    BY <2>1, <2>4, <2>5 DEF OwnPrice
  <2> QED
    BY <1>2, <2>1, <2>2, <2>4, <2>5, <2>6 DEF new
<1> QED
  BY <1>1, <1>2

(* The sale before its promotions are evaluated.                           *)
LEMMA CleanIs ==
  ASSUME PricingAssumption, PricingTyped, NEW d, IsSale(d)
  PROVE  LET new == ClearedAndRepriced(d)
         IN  /\ IsSale(new)
             /\ new = [lines |-> new.lines, list |-> d.list, explicit |-> d.explicit,
                       customer |-> d.customer, order |-> d.order,
                       vetoed |-> d.vetoed, optedIn |-> d.optedIn]
             /\ new.lines = [w \in DOMAIN d.lines |-> Repriced(d, w, Cleared(d.lines[w]))]
             /\ \A w \in DOMAIN d.lines :
                  /\ new.lines[w].promo = NoPromotion
                  /\ new.lines[w].qty = d.lines[w].qty /\ new.lines[w].list = d.lines[w].list
                  /\ OwnPrice(d.lines[w]) # Unset => OwnPrice(new.lines[w]) = OwnPrice(d.lines[w])
<1> DEFINE lines == [w \in DOMAIN d.lines |-> Repriced(d, w, Cleared(d.lines[w]))]
           new == ClearedAndRepriced(d)
<1>1. new = [lines |-> lines, list |-> d.list, explicit |-> d.explicit,
             customer |-> d.customer, order |-> d.order,
             vetoed |-> d.vetoed, optedIn |-> d.optedIn]
  <2>1. new = [d EXCEPT !.lines = lines]
    BY DEF ClearedAndRepriced
  <2> HIDE DEF lines, new
  <2> QED
    BY <2>1 DEF IsSale
<1>2. ASSUME NEW w \in DOMAIN d.lines
      PROVE  /\ lines[w] \in LineType /\ lines[w].promo = NoPromotion
             /\ lines[w].qty = d.lines[w].qty /\ lines[w].list = d.lines[w].list
             /\ OwnPrice(d.lines[w]) # Unset => OwnPrice(lines[w]) = OwnPrice(d.lines[w])
  <2>1. d.lines[w] \in LineType
    BY DEF IsSale, IsCart
  <2> DEFINE cleared == Cleared(d.lines[w])
  <2>2. /\ cleared \in LineType /\ cleared.promo = NoPromotion
        /\ cleared.qty = d.lines[w].qty /\ cleared.list = d.lines[w].list
        /\ OwnPrice(cleared) = OwnPrice(d.lines[w])
    BY <2>1, ClearedIs
  <2>3. lines[w] = Repriced(d, w, cleared)
    OBVIOUS
  <2> HIDE DEF cleared, lines
  <2>4. /\ Repriced(d, w, cleared) \in LineType
        /\ Repriced(d, w, cleared).promo = NoPromotion
        /\ Repriced(d, w, cleared).qty = cleared.qty
        /\ Repriced(d, w, cleared).list = cleared.list
        /\ OwnPrice(cleared) # Unset => Repriced(d, w, cleared) = cleared
    BY <2>2, RepricedIs
  <2> QED
    BY <2>2, <2>3, <2>4
<1>3. DOMAIN lines = DOMAIN d.lines
  OBVIOUS
<1> HIDE DEF lines, new
<1>4. /\ new.lines = lines /\ new.list = d.list
      /\ new = [lines |-> new.lines, list |-> new.list, explicit |-> new.explicit,
                customer |-> new.customer, order |-> new.order,
                vetoed |-> new.vetoed, optedIn |-> new.optedIn]
  BY <1>1
<1>5. IsSale(new)
  <2>1. IsCart(new)
    BY <1>2, <1>3, <1>4 DEF IsSale, IsCart
  <2> QED
    BY <1>4, <2>1 DEF IsSale
<1> QED
  BY <1>1, <1>2, <1>4, <1>5 DEF lines, new

(* A recomputed sale is one, field by field; its promotions are none that  *)
(* the seller vetoed, and the manual ones are those he opted in.           *)
LEMMA RecomputedIs ==
  ASSUME PricingAssumption, PricingTyped, NEW d, IsSale(d), Applicable(Evaluated(d))
  PROVE  LET e == Evaluated(d)
             new == Recomputed(e)
         IN  /\ IsSale(new)
             /\ new = [lines |-> [w \in DOMAIN d.lines |->
                                    Applied(e.clean.lines[w], e.result.lines[w])],
                       list |-> d.list, explicit |-> d.explicit, customer |-> d.customer,
                       order |-> [promo |-> e.result.order.promo,
                                  cents |-> e.result.order.saving],
                       vetoed |-> d.vetoed, optedIn |-> Targetable(e.clean)]
             /\ \A w \in DOMAIN d.lines : Wins(e.clean.lines[w], e.result.lines[w])
             /\ AppliedPromotions(new) \cap d.vetoed = {}
             /\ \A p \in AppliedPromotions(new) : promotions[p].manual => p \in new.optedIn
<1> DEFINE e == Evaluated(d)
           clean == ClearedAndRepriced(d)
           out == CapacityExcluded(clean)
           c == Candidates(out)
           lines == [w \in DOMAIN d.lines |-> Applied(e.clean.lines[w], e.result.lines[w])]
           order == [promo |-> e.result.order.promo, cents |-> e.result.order.saving]
           new == Recomputed(e)
<1>1. e = [clean |-> clean, out |-> out, result |-> Evaluation(c, clean)]
  BY DEF Evaluated, EvaluatedClean, Outcome
<1>2. /\ IsSale(clean) /\ DOMAIN clean.lines = DOMAIN d.lines
      /\ clean = [lines |-> clean.lines, list |-> d.list, explicit |-> d.explicit,
                  customer |-> d.customer, order |-> d.order,
                  vetoed |-> d.vetoed, optedIn |-> d.optedIn]
      /\ \A w \in DOMAIN d.lines : clean.lines[w].promo = NoPromotion
  BY CleanIs
<1>3. AreCandidates(c) /\ DOMAIN c \subseteq live /\ \A p \in DOMAIN c : c[p] = promotions[p]
  <2> HIDE DEF out
  <2>1. AreCandidates(c)
    BY CandidatesAre
  <2> QED
    BY <2>1 DEF Candidates
<1>4. IsCart(clean)
  BY <1>2 DEF IsSale
<1> HIDE DEF e, clean, out, c
<1>5. ASSUME NEW w \in DOMAIN d.lines
      PROVE  /\ e.result.lines[w] = LineResult(c, clean, w)
             /\ \/ e.result.lines[w] = Nothing
                \/ Grants(c, clean, w, e.result.lines[w]) /\ ~ByHand(clean.lines[w])
             /\ Wins(clean.lines[w], e.result.lines[w])
  <2>1. e.result.lines[w] = LineResult(c, clean, w)
    BY <1>1, <1>2 DEF Evaluation
  <2>2. \/ e.result.lines[w] = Nothing
        \/ Grants(c, clean, w, e.result.lines[w]) /\ ~ByHand(clean.lines[w])
    BY <1>2, <1>3, <1>4, <2>1, LineResultGrants
  <2>3. CASE e.result.lines[w] = Nothing
    BY <2>1, <2>3 DEF Wins
  <2>4. CASE Grants(c, clean, w, e.result.lines[w]) /\ ~ByHand(clean.lines[w])
    <3> DEFINE p == e.result.lines[w].promo
    <3>1. p \in DOMAIN c /\ e.result.lines[w].saving \in Int
      BY <2>4 DEF Grants, Admitted
    <3>2. p \in DOMAIN promotions /\ p # NoPromotion
      BY <1>3, <3>1 DEF PricingTyped, AreCandidates
    <3>3. promotions[p].type = "PRODUCT_DISCOUNT" => Grantable(clean.lines[w], promotions[p])
      BY <1>1, <1>2, <3>2 DEF Applicable, e
    <3> QED
      BY <2>1, <2>2, <2>4, <3>1, <3>2, <3>3 DEF Wins
  <2> QED
    BY <2>1, <2>2, <2>3, <2>4
<1>6. ASSUME NEW w \in DOMAIN d.lines
      PROVE  lines[w] \in LineType /\ lines[w].promo = e.result.lines[w].promo
  <2>1. clean.lines[w] \in LineType /\ clean.lines[w].promo = NoPromotion
    BY <1>2 DEF IsSale, IsCart
  <2>2. lines[w] = Applied(clean.lines[w], e.result.lines[w])
    BY <1>1
  <2>3. AreCandidates(promotions)
    BY DEF PricingTyped
  <2> HIDE DEF lines
  <2> QED
    BY <1>5, <2>1, <2>2, <2>3, AppliedIs
<1>7. new = [lines |-> lines, list |-> d.list, explicit |-> d.explicit,
             customer |-> d.customer, order |-> order,
             vetoed |-> d.vetoed, optedIn |-> Targetable(clean)]
  <2>1. new = [clean EXCEPT !.lines = lines, !.order = order, !.optedIn = Targetable(clean)]
    BY <1>1, <1>2 DEF Recomputed
  <2> DEFINE opted == Targetable(clean)
             cleanLines == clean.lines
  <2>2. clean = [lines |-> cleanLines, list |-> d.list, explicit |-> d.explicit,
                 customer |-> d.customer, order |-> d.order,
                 vetoed |-> d.vetoed, optedIn |-> d.optedIn]
    BY <1>2
  <2> HIDE DEF new, lines, order, opted, cleanLines
  <2>3. new = [lines |-> lines, list |-> d.list, explicit |-> d.explicit,
               customer |-> d.customer, order |-> order,
               vetoed |-> d.vetoed, optedIn |-> opted]
    BY <2>1, <2>2 DEF opted
  <2> QED
    BY <2>3 DEF opted
<1>8. DOMAIN lines = DOMAIN d.lines
  OBVIOUS
<1>9. e.clean = clean
  BY <1>1
<1>10. new.order.promo = e.result.order.promo
  BY <1>7
<1>11. /\ new.lines = lines /\ new.list = d.list /\ new.optedIn = Targetable(clean)
       /\ new = [lines |-> new.lines, list |-> new.list, explicit |-> new.explicit,
                 customer |-> new.customer, order |-> new.order,
                 vetoed |-> new.vetoed, optedIn |-> new.optedIn]
  <2> HIDE DEF new, lines, order
  <2> QED
    BY <1>7
<1> HIDE DEF new, lines
<1>12. IsSale(new)
  <2>1. IsCart(new)
    BY <1>2, <1>4, <1>6, <1>8, <1>11 DEF IsCart
  <2> QED
    BY <1>11, <2>1 DEF IsSale
<1>13. ASSUME NEW p \in AppliedPromotions(new)
       PROVE  p \notin d.vetoed /\ (promotions[p].manual => p \in Targetable(clean))
  <2>1. ASSUME NEW w \in DOMAIN d.lines, p = lines[w].promo
        PROVE  p \notin d.vetoed /\ (promotions[p].manual => p \in Targetable(clean))
    <3>1. p # NoPromotion
      BY DEF AppliedPromotions
    <3>2. Grants(c, clean, w, e.result.lines[w]) /\ p = e.result.lines[w].promo
      BY <1>5, <1>6, <2>1, <3>1 DEF Nothing, Winner
    <3>3. p \in Admitted(c, clean) /\ Aims(c[p], w) /\ p \in live /\ c[p] = promotions[p]
      BY <1>3, <3>2 DEF Grants, Admitted
    <3> QED
      BY <1>2, <3>3 DEF Admitted, Aims, Targetable
  <2>2. ASSUME p = new.order.promo
        PROVE  p \notin d.vetoed /\ (promotions[p].manual => p \in Targetable(clean))
    <3>1. p # NoPromotion
      BY DEF AppliedPromotions
    <3>2. e.result.order = Nothing \/ /\ e.result.order.promo \in Admitted(c, clean)
                                      /\ c[e.result.order.promo].type = "ORDER_DISCOUNT"
      BY <1>1, <1>3, <1>4, OrderResultGrants
    <3>3. p \in Admitted(c, clean) /\ c[p].type = "ORDER_DISCOUNT"
      BY <1>10, <2>2, <3>1, <3>2 DEF Nothing, Winner
    <3>4. p \in live /\ c[p] = promotions[p]
      BY <1>3, <3>3 DEF Admitted
    <3> QED
      BY <1>2, <3>3, <3>4 DEF Admitted, Targetable
  <2>3. p = new.order.promo \/ \E w \in DOMAIN d.lines : p = lines[w].promo
    BY <1>8, <1>11 DEF AppliedPromotions
  <2> QED
    BY <2>1, <2>2, <2>3
<1> QED
  BY <1>5, <1>7, <1>9, <1>11, <1>12, <1>13 DEF e, clean, new, lines

-----------------------------------------------------------------------------
(* Edits. *)

(* A sale with a line written is a sale, whose other lines are as before.  *)
LEMMA WithLineIs ==
  ASSUME NEW d, IsSale(d), NEW w \in Wares, NEW line \in LineType
  PROVE  LET new == WithLine(d, w, line)
         IN  /\ IsSale(new) /\ new.optedIn = d.optedIn /\ new.vetoed = d.vetoed
             /\ new.order = d.order
             /\ DOMAIN new.lines = DOMAIN d.lines \cup {w}
             /\ new.lines[w] = line
             /\ \A v \in DOMAIN d.lines \ {w} : new.lines[v] = d.lines[v]
<1> DEFINE lines == [v \in DOMAIN d.lines \cup {w} |-> IF v = w THEN line ELSE d.lines[v]]
           new == WithLine(d, w, line)
<1>1. new = [lines |-> lines, list |-> d.list, explicit |-> d.explicit,
             customer |-> d.customer, order |-> d.order,
             vetoed |-> d.vetoed, optedIn |-> d.optedIn]
  <2>1. new = [d EXCEPT !.lines = lines]
    BY DEF WithLine
  <2> HIDE DEF new, lines
  <2> QED
    BY <2>1 DEF IsSale
<1>2. /\ DOMAIN lines = DOMAIN d.lines \cup {w} /\ lines[w] = line
      /\ \A v \in DOMAIN d.lines \ {w} : lines[v] = d.lines[v]
  OBVIOUS
<1> HIDE DEF new, lines
<1>3. IsCart(new)
  BY <1>1, <1>2 DEF IsSale, IsCart
<1> QED
  BY <1>1, <1>2, <1>3 DEF IsSale, new

(* A sale with its lines replaced is a sale, with the same decisions.      *)
LEMMA WithLinesIs ==
  ASSUME NEW d, IsSale(d), NEW lines,
         DOMAIN lines \subseteq Wares, \A w \in DOMAIN lines : lines[w] \in LineType
  PROVE  LET new == [d EXCEPT !.lines = lines]
         IN  /\ IsSale(new) /\ new.optedIn = d.optedIn /\ new.vetoed = d.vetoed
             /\ new.order = d.order /\ new.lines = lines
<1> DEFINE new == [d EXCEPT !.lines = lines]
<1>1. new = [lines |-> lines, list |-> d.list, explicit |-> d.explicit,
             customer |-> d.customer, order |-> d.order,
             vetoed |-> d.vetoed, optedIn |-> d.optedIn]
  BY DEF IsSale
<1> HIDE DEF new
<1>2. IsCart(new)
  BY <1>1 DEF IsCart
<1> QED
  BY <1>1, <1>2 DEF IsSale, new

(* A sale without a line is a sale, whose other lines are as before.       *)
LEMMA WithoutLineIs ==
  ASSUME NEW d, IsSale(d), NEW w
  PROVE  LET new == WithoutLine(d, w)
         IN  /\ IsSale(new) /\ new.optedIn = d.optedIn /\ new.vetoed = d.vetoed
             /\ DOMAIN new.lines = DOMAIN d.lines \ {w}
             /\ \A v \in DOMAIN new.lines : new.lines[v] = d.lines[v]
<1> DEFINE lines == [v \in DOMAIN d.lines \ {w} |-> d.lines[v]]
<1>1. DOMAIN lines = DOMAIN d.lines \ {w} /\ \A v \in DOMAIN lines : lines[v] = d.lines[v]
  OBVIOUS
<1>2. WithoutLine(d, w) = [d EXCEPT !.lines = lines]
  BY DEF WithoutLine
<1> HIDE DEF lines
<1>3. DOMAIN lines \subseteq Wares /\ \A v \in DOMAIN lines : lines[v] \in LineType
  BY <1>1 DEF IsSale, IsCart
<1> QED
  BY <1>1, <1>2, <1>3, WithLinesIs

(* A sale with the seller's decisions replaced.                            *)
Flagged(d, v, o) ==
  [lines |-> d.lines, list |-> d.list, explicit |-> d.explicit,
   customer |-> d.customer, order |-> d.order, vetoed |-> v, optedIn |-> o]

(* Deciding otherwise about the promotions leaves the lines alone.         *)
LEMMA FlaggedIs ==
  ASSUME NEW d, IsSale(d), NEW v, NEW o
  PROVE  /\ IsSale(Flagged(d, v, o)) /\ Flagged(d, v, o).lines = d.lines
         /\ Flagged(d, v, o).optedIn = o /\ Flagged(d, v, o).vetoed = v
BY DEF IsSale, IsCart, Flagged

(* Wanting and refusing leave the lines alone.                             *)
LEMMA FlagsAre ==
  ASSUME NEW d, IsSale(d), d.optedIn \cap d.vetoed = {}, NEW p,
         NEW new \in {OptedOut(d, p), OptedIn(d, p), Vetoed(d, p), OptedOutWithLine(d, p)}
  PROVE  IsSale(new) /\ new.lines = d.lines /\ new.optedIn \cap new.vetoed = {}
<1>3. OptedOut(d, p) = Flagged(d, d.vetoed, d.optedIn \ {p})
  BY DEF IsSale, OptedOut, Flagged
<1>4. OptedIn(d, p) = Flagged(d, d.vetoed \ {p}, d.optedIn \cup {p})
  <2> DEFINE v == d.vetoed \ {p}
             o == d.optedIn \cup {p}
  <2>1. OptedIn(d, p) = [d EXCEPT !.optedIn = o, !.vetoed = v]
    BY DEF OptedIn
  <2>2. [d EXCEPT !.optedIn = o, !.vetoed = v] = [[d EXCEPT !.optedIn = o] EXCEPT !.vetoed = v]
    OBVIOUS
  <2>3. [d EXCEPT !.optedIn = o] = Flagged(d, d.vetoed, o)
    BY DEF IsSale, Flagged
  <2>4. [Flagged(d, d.vetoed, o) EXCEPT !.vetoed = v] = Flagged(d, v, o)
    BY DEF Flagged
  <2> HIDE DEF v, o
  <2>5. OptedIn(d, p) = Flagged(d, v, o)
    BY <2>1, <2>2, <2>3, <2>4
  <2> QED
    BY <2>5 DEF v, o
<1>5. Vetoed(d, p) = Flagged(d, d.vetoed \cup {p}, d.optedIn \ {p})
  <2>1. Vetoed(d, p) = [Flagged(d, d.vetoed, d.optedIn \ {p}) EXCEPT !.vetoed = @ \cup {p}]
    BY <1>3 DEF Vetoed
  <2> QED
    BY <2>1 DEF Flagged
<1>6. OptedOutWithLine(d, p) \in {d, OptedOut(d, p)}
  BY DEF OptedOutWithLine
<1>7. \/ new = d
      \/ \E v, o : new = Flagged(d, v, o) /\ v \cap o = {}
  <2>1. /\ d.vetoed \cap (d.optedIn \ {p}) = {}
        /\ (d.vetoed \ {p}) \cap (d.optedIn \cup {p}) = {}
        /\ (d.vetoed \cup {p}) \cap (d.optedIn \ {p}) = {}
    OBVIOUS
  <2>2. \/ new = d \/ new = OptedOut(d, p) \/ new = OptedIn(d, p) \/ new = Vetoed(d, p)
    BY <1>6
  <2> QED
    BY <1>3, <1>4, <1>5, <2>1, <2>2
<1>8. CASE new = d
  BY <1>8
<1>9. CASE \E v, o : new = Flagged(d, v, o) /\ v \cap o = {}
  <2>1. PICK v, o : new = Flagged(d, v, o) /\ v \cap o = {}
    BY <1>9
  <2>2. IsSale(new) /\ new.lines = d.lines /\ new.optedIn = o /\ new.vetoed = v
    BY <2>1, FlaggedIs
  <2> QED
    BY <2>1, <2>2
<1> QED
  BY <1>7, <1>8, <1>9

-----------------------------------------------------------------------------
(* The passes of the engine. *)

(* The passes f of a rule, and a rule that only excludes more.             *)
ArePasses(next, n, f) == f[0] = {} /\ \A k \in 1..n : f[k] = next[f[k - 1]]

Excluding(L, next) == \A X \in SUBSET L : X \subseteq next[X] /\ next[X] \subseteq L

(* The passes exist.                                                       *)
LEMMA PassesAre ==
  ASSUME NEW next, NEW n \in Nat
  PROVE  \E f : /\ f[0] = {}
                /\ \A k \in 1..n : f[k] = next[f[k - 1]]
                /\ AfterPasses(next, n) = f[n]
<1> DEFINE Good(m, f) == f = [k \in 0..m |-> IF k = 0 THEN {} ELSE next[f[k - 1]]]
           B == {m \in Nat : ~\E f : Good(m, f)}
<1>1. B = {}
  <2>1. SUFFICES ASSUME B # {} PROVE FALSE
    OBVIOUS
  <2>2. PICK m \in B : \A j \in B : m <= j
    <3>1. B \subseteq Nat
      OBVIOUS
    <3> HIDE DEF B
    <3> QED
      BY <2>1, <3>1, LeastNatural
  <2>3. m \in Nat /\ ~\E f : Good(m, f)
    OBVIOUS
  <2>4. CASE m = 0
    <3> DEFINE f == [k \in 0..0 |-> {}]
    <3>1. f = [k \in 0..0 |-> IF k = 0 THEN {} ELSE next[f[k - 1]]]
      <4>1. \A k \in 0..0 : k = 0
        OBVIOUS
      <4> QED
        BY <4>1
    <3>2. Good(0, f)
      BY <3>1
    <3> HIDE DEF Good, f
    <3> QED
      BY <2>3, <2>4, <3>2
  <2>5. CASE m # 0
    <3>1. m - 1 \in Nat /\ ~(m <= m - 1)
      BY <2>3, <2>5
    <3>2. m - 1 \notin B
      <4> HIDE DEF B
      <4> QED
        BY <2>2, <3>1
    <3>3. PICK f : Good(m - 1, f)
      BY <3>1, <3>2
    <3> DEFINE g == [k \in 0..m |-> IF k = m THEN next[f[m - 1]] ELSE f[k]]
    <3>4. ASSUME NEW k \in 0..m
          PROVE  g[k] = IF k = 0 THEN {} ELSE next[g[k - 1]]
      <4>1. CASE k = m
        <5>1. m - 1 \in 0..m /\ m - 1 # m /\ k # 0
          BY <2>3, <2>5, <3>1, <4>1
        <5>2. g[m - 1] = f[m - 1]
          BY <5>1
        <5>3. g[k] = next[f[m - 1]]
          BY <4>1
        <5> HIDE DEF g
        <5> QED
          BY <4>1, <5>1, <5>2, <5>3
      <4>2. CASE k # m
        <5>1. k \in 0..(m - 1)
          BY <2>3, <3>1, <4>2
        <5>2. f[k] = IF k = 0 THEN {} ELSE next[f[k - 1]]
          BY <3>3, <5>1
        <5>3. g[k] = f[k]
          BY <4>2
        <5>4. k # 0 => g[k - 1] = f[k - 1]
          <6>1. k # 0 => k - 1 \in 0..m /\ k - 1 # m
            BY <2>3, <5>1
          <6> QED
            BY <6>1
        <5> HIDE DEF g, Good
        <5> QED
          BY <5>2, <5>3, <5>4
      <4> QED
        BY <4>1, <4>2
    <3>5. g = [k \in 0..m |-> g[k]]
      OBVIOUS
    <3>6. g = [k \in 0..m |-> IF k = 0 THEN {} ELSE next[g[k - 1]]]
      <4> HIDE DEF g
      <4> QED
        BY <3>4, <3>5
    <3>7. Good(m, g)
      BY <3>6
    <3> HIDE DEF Good, g
    <3> QED
      BY <2>3, <3>7
  <2> QED
    BY <2>4, <2>5
<1>2. \E f : Good(n, f)
  BY <1>1
<1> DEFINE out == CHOOSE f : Good(n, f)
<1>3. Good(n, out)
  <2> HIDE DEF Good
  <2> QED
    BY <1>2
<1>4. AfterPasses(next, n) = out[n]
  BY DEF AfterPasses
<1> HIDE DEF out
<1>5. out[0] = {}
  BY <1>3
<1>6. \A k \in 1..n : out[k] = next[out[k - 1]]
  <2>1. ASSUME NEW k \in 1..n PROVE out[k] = next[out[k - 1]]
    <3>1. k \in 0..n /\ k # 0
      OBVIOUS
    <3> QED
      BY <1>3, <3>1
  <2> QED
    BY <2>1
<1> QED
  BY <1>4, <1>5, <1>6

(* Two series of passes that continue alike end alike.                     *)
LEMMA PassesAgree ==
  ASSUME NEW n \in Nat, NEW f, NEW g, f[0] = g[0],
         \A k \in 1..n : f[k - 1] = g[k - 1] => f[k] = g[k]
  PROVE  f[n] = g[n]
<1> DEFINE B == {k \in 0..n : f[k] # g[k]}
<1>1. SUFFICES ASSUME B # {} PROVE FALSE
  OBVIOUS
<1>2. PICK m \in B : \A j \in B : m <= j
  <2>1. B \subseteq Nat
    OBVIOUS
  <2> HIDE DEF B
  <2> QED
    BY <1>1, <2>1, LeastNatural
<1>3. m \in 0..n /\ m # 0
  OBVIOUS
<1>4. m \in 1..n /\ m - 1 \in 0..n /\ ~(m <= m - 1)
  BY <1>3
<1>5. m - 1 \notin B
  <2> HIDE DEF B
  <2> QED
    BY <1>2, <1>4
<1> QED
  BY <1>4, <1>5

(* Passes that only exclude more never take an exclusion back.             *)
LEMMA PassesGrow ==
  ASSUME NEW L, NEW next, Excluding(L, next), NEW n \in Nat, NEW f, ArePasses(next, n, f)
  PROVE  \A k \in 0..n : f[k] \subseteq L /\ f[k] \subseteq f[n]
<1> USE DEF ArePasses, Excluding
<1>1. \A k \in 0..n : f[k] \subseteq L
  <2> DEFINE B == {k \in 0..n : ~(f[k] \subseteq L)}
  <2>1. SUFFICES ASSUME B # {} PROVE FALSE
    OBVIOUS
  <2>2. PICK m \in B : \A j \in B : m <= j
    <3>1. B \subseteq Nat
      OBVIOUS
    <3> HIDE DEF B
    <3> QED
      BY <2>1, <3>1, LeastNatural
  <2>3. m \in 0..n /\ m # 0
    OBVIOUS
  <2>4. m \in 1..n /\ m - 1 \in 0..n /\ ~(m <= m - 1)
    BY <2>3
  <2>5. m - 1 \notin B
    <3> HIDE DEF B
    <3> QED
      BY <2>2, <2>4
  <2>6. f[m - 1] \in SUBSET L /\ f[m] = next[f[m - 1]]
    BY <2>4, <2>5
  <2>7. f[m] \subseteq L
    BY <2>6
  <2> QED
    BY <2>7
<1>2. \A j \in 0..n : f[n - j] \subseteq f[n]
  <2> DEFINE B == {j \in 0..n : ~(f[n - j] \subseteq f[n])}
  <2>1. SUFFICES ASSUME B # {} PROVE FALSE
    OBVIOUS
  <2>2. PICK m \in B : \A j \in B : m <= j
    <3>1. B \subseteq Nat
      OBVIOUS
    <3> HIDE DEF B
    <3> QED
      BY <2>1, <3>1, LeastNatural
  <2>3. m \in 0..n /\ m # 0
    <3>1. n - 0 = n
      OBVIOUS
    <3> QED
      BY <3>1
  <2>4. /\ m - 1 \in 0..n /\ ~(m <= m - 1)
        /\ n - (m - 1) \in 1..n /\ n - m \in 0..n /\ (n - (m - 1)) - 1 = n - m
    BY <2>3
  <2>5. m - 1 \notin B
    <3> HIDE DEF B
    <3> QED
      BY <2>2, <2>4
  <2>6. f[n - (m - 1)] \subseteq f[n]
    BY <2>4, <2>5
  <2>7. f[n - (m - 1)] = next[f[n - m]]
    BY <2>4
  <2>8. f[n - m] \in SUBSET L
    BY <1>1, <2>4
  <2>9. f[n - m] \subseteq f[n]
    BY <2>6, <2>7, <2>8
  <2> QED
    BY <2>9
<1>3. ASSUME NEW k \in 0..n PROVE f[k] \subseteq f[n]
  <2>1. n - k \in 0..n /\ n - (n - k) = k
    OBVIOUS
  <2>2. f[n - (n - k)] \subseteq f[n]
    BY <1>2, <2>1, Zenon
  <2> QED
    BY <2>1, <2>2
<1> QED
  BY <1>1, <1>3

(* Two kinds of passes that differ only in what excludes p end alike when  *)
(* p is not excluded.                                                      *)
LEMMA PassesWithout ==
  ASSUME NEW L, NEW n \in Nat, NEW a, NEW b, NEW p,
         Excluding(L, b),
         \A X \in SUBSET L : p \notin b[X] => a[X] = b[X],
         p \notin AfterPasses(b, n)
  PROVE  AfterPasses(a, n) = AfterPasses(b, n)
<1>1. PICK f : /\ f[0] = {}
               /\ \A k \in 1..n : f[k] = a[f[k - 1]]
               /\ AfterPasses(a, n) = f[n]
  BY PassesAre
<1>2. PICK g : /\ g[0] = {}
               /\ \A k \in 1..n : g[k] = b[g[k - 1]]
               /\ AfterPasses(b, n) = g[n]
  BY PassesAre
<1>3. \A k \in 0..n : g[k] \subseteq L /\ g[k] \subseteq g[n]
  <2>1. ArePasses(b, n, g)
    BY <1>2 DEF ArePasses
  <2> QED
    BY <2>1, PassesGrow, Zenon
<1>4. ASSUME NEW k \in 1..n, f[k - 1] = g[k - 1] PROVE f[k] = g[k]
  <2>1. k \in 0..n /\ k - 1 \in 0..n
    OBVIOUS
  <2>2. p \notin g[k] /\ g[k] = b[g[k - 1]] /\ g[k - 1] \in SUBSET L
    BY <1>2, <1>3, <2>1
  <2>3. a[g[k - 1]] = b[g[k - 1]]
    BY <2>2
  <2>4. f[k] = a[f[k - 1]]
    BY <1>1
  <2> QED
    BY <1>4, <2>2, <2>3, <2>4
<1>5. f[n] = g[n]
  <2>1. \A k \in 1..n : f[k - 1] = g[k - 1] => f[k] = g[k]
    BY <1>4
  <2>2. f[0] = g[0]
    BY <1>1, <1>2
  <2> QED
    BY <2>1, <2>2, PassesAgree, Zenon
<1> QED
  BY <1>1, <1>2, <1>5

(* If the first pass excludes nothing, none does.                          *)
LEMMA PassesStay ==
  ASSUME NEW n \in Nat, NEW a, a[{}] = {}
  PROVE  AfterPasses(a, n) = {}
<1>1. PICK f : /\ f[0] = {}
               /\ \A k \in 1..n : f[k] = a[f[k - 1]]
               /\ AfterPasses(a, n) = f[n]
  BY SMTT(30), PassesAre
<1> DEFINE g == [k \in 0..n |-> {}]
<1>2. g[0] = {} /\ g[n] = {}
  OBVIOUS
<1>3. ASSUME NEW k \in 1..n, f[k - 1] = g[k - 1] PROVE f[k] = g[k]
  <2>1. k - 1 \in 0..n /\ k \in 0..n
    OBVIOUS
  <2>2. g[k - 1] = {} /\ g[k] = {}
    BY <2>1
  <2>3. f[k] = a[f[k - 1]]
    BY <1>1
  <2> HIDE DEF g
  <2> QED
    BY <1>3, <2>2, <2>3
<1> HIDE DEF g
<1>4. f[n] = g[n]
  BY SMTT(30), <1>1, <1>2, <1>3, PassesAgree
<1> QED
  BY <1>1, <1>2, <1>4

-----------------------------------------------------------------------------
(* Sales that the engine cannot tell apart. *)

(* A manual promotion that grants nothing, wanted or not.                  *)
Idle(offer, d) ==
  /\ offer.manual
  /\ \/ offer.type = "ADVANCED"
     \/ /\ offer.type \in {"PRODUCT_DISCOUNT", "BUY_X_GET_Y"}
        /\ \A w \in DOMAIN d.lines : ~(offer.tier[w] > 0)

(* Two sales of the same lines that the engine cannot tell apart.          *)
Alike(c, x, y) ==
  /\ x.lines = y.lines
  /\ \A p \in DOMAIN c : Idle(c[p], x) \/ (p \in Admitted(c, x) <=> p \in Admitted(c, y))

(* Such sales get the same for each line.                                  *)
LEMMA AlikeLineResults ==
  ASSUME NEW c, NEW x, NEW y, Alike(c, x, y), NEW w \in DOMAIN x.lines
  PROVE  LineResult(c, x, w) = LineResult(c, y, w)
<1> PICK lines : lines = x.lines
  OBVIOUS
<1>1. x.lines = lines /\ y.lines = lines /\ w \in DOMAIN lines
  BY DEF Alike
<1> PICK line : line = lines[w]
  OBVIOUS
<1>2. \A p \in DOMAIN c : Idle(c[p], x) \/ (p \in Admitted(c, x) <=> p \in Admitted(c, y))
  BY DEF Alike
<1>3. Admitted(c, x) \subseteq DOMAIN c /\ Admitted(c, y) \subseteq DOMAIN c
  BY DEF Admitted
<1>4. ProductResults(c, x, w) = ProductResults(c, y, w)
  <2> DEFINE eligible(d) == {p \in Admitted(c, d) : /\ c[p].type = "PRODUCT_DISCOUNT"
                                                   /\ c[p].tier[w] > 0
                                                   /\ OnList(c[p], line)
                                                   /\ UnitCut(c[p], Base(line)) > 0}
             results(S) == {Winner(p, line.qty, UnitCut(c[p], Base(line)) * line.qty) :
                              p \in {q \in S : \A r \in S : c[r].tier[w] <= c[q].tier[w]}}
  <2>1. ProductResults(c, x, w) = results(eligible(x))
    BY <1>1 DEF ProductResults
  <2>2. ProductResults(c, y, w) = results(eligible(y))
    BY <1>1 DEF ProductResults
  <2>3. eligible(x) = eligible(y)
    BY <1>1, <1>2, <1>3 DEF Idle
  <2> HIDE DEF eligible, results
  <2> QED
    BY <2>1, <2>2, <2>3
<1>5. BuyXGetYResults(c, x, w) = BuyXGetYResults(c, y, w)
  <2> DEFINE aimed(d) == {q \in Admitted(c, d) : /\ c[q].type = "BUY_X_GET_Y"
                                                /\ c[q].tier[w] > 0
                                                /\ OnList(c[q], line)}
             results(S) == {Winner(p, GroupUnits(c[p], line.qty),
                                   GroupUnits(c[p], line.qty) * Percent(Base(line), c[p].percent)) :
                              p \in S}
  <2>1. BuyXGetYResults(c, x, w) = results(aimed(x))
    BY <1>1 DEF BuyXGetYResults
  <2>2. BuyXGetYResults(c, y, w) = results(aimed(y))
    BY <1>1 DEF BuyXGetYResults
  <2>3. aimed(x) = aimed(y)
    BY <1>1, <1>2, <1>3 DEF Idle
  <2> HIDE DEF aimed, results
  <2> QED
    BY <2>1, <2>2, <2>3
<1>6. \A promo : AdvancedUnits(x, promo, w) = AdvancedUnits(y, promo, w)
  <2> TAKE promo
  <2>1. \A S : Counted(x, promo, S) = Counted(y, promo, S)
    BY <1>1 DEF Counted
  <2>2. \A S : Quantity(x, S) = Quantity(y, S)
    BY <1>1 DEF Quantity
  <2> DEFINE getting(d) == Counted(d, promo, promo.gets) \ Counted(d, promo, promo.buys)
             bought(d) == Quantity(d, Counted(d, promo, promo.buys))
             before(d) == Quantity(d, {v \in getting(d) : v < w})
             units(S, n, b, q) == IF w \notin S THEN 0
                                  ELSE Min({q, Max({0, (n \div promo.buy) * promo.get - b})})
  <2>3. AdvancedUnits(x, promo, w) = units(getting(x), bought(x), before(x), x.lines[w].qty)
    BY DEF AdvancedUnits
  <2>4. AdvancedUnits(y, promo, w) = units(getting(y), bought(y), before(y), y.lines[w].qty)
    BY DEF AdvancedUnits
  <2>5. getting(x) = getting(y) /\ bought(x) = bought(y)
    BY <2>1, <2>2
  <2>6. before(x) = before(y)
    BY <2>2, <2>5
  <2> HIDE DEF getting, bought, before, units
  <2> QED
    BY <1>1, <2>3, <2>4, <2>5, <2>6
<1>7. AdvancedResults(c, x, w) = AdvancedResults(c, y, w)
  <2> DEFINE aimed(d) == {q \in Admitted(c, d) : c[q].type = "ADVANCED" /\ ~c[q].manual}
             results(S) == {Winner(p, AdvancedUnits(x, c[p], w),
                                   AdvancedUnits(x, c[p], w) * Percent(Base(line), c[p].percent)) :
                              p \in S}
  <2>1. AdvancedResults(c, x, w) = results(aimed(x))
    BY <1>1 DEF AdvancedResults
  <2>2. AdvancedResults(c, y, w) = results(aimed(y))
    BY <1>1, <1>6 DEF AdvancedResults
  <2>3. aimed(x) = aimed(y)
    BY <1>2, <1>3 DEF Idle
  <2> HIDE DEF aimed, results
  <2> QED
    BY <2>1, <2>2, <2>3
<1> QED
  BY <1>1, <1>4, <1>5, <1>7 DEF LineResult

(* Such sales are evaluated alike.                                         *)
LEMMA AlikeEvaluations ==
  ASSUME NEW c, NEW x, NEW y, Alike(c, x, y)
  PROVE  Evaluation(c, x) = Evaluation(c, y)
<1> DEFINE results(d) == [w \in DOMAIN d.lines |-> LineResult(c, d, w)]
<1>1. x.lines = y.lines
  BY DEF Alike
<1>2. results(x) = results(y)
  BY <1>1, AlikeLineResults
<1>3. \A S : Quantity(x, S) = Quantity(y, S)
  BY <1>1 DEF Quantity
<1> HIDE DEF results
<1> PICK won : won = results(x)
  OBVIOUS
<1>4. OrderResult(c, x, won) = OrderResult(c, y, won)
  <2> DEFINE inCartX == DOMAIN x.lines
             worthX == [w \in inCartX |-> Base(x.lines[w]) * x.lines[w].qty]
             restX == [w \in inCartX |-> worthX[w] - TakenOff(c, x.lines[w], won[w])]
             beforeX == SumFunctionOnSet(worthX, inCartX)
             afterX == SumFunctionOnSet(restX, inCartX)
             aimedX == {q \in Admitted(c, x) : /\ c[q].type = "ORDER_DISCOUNT"
                                               /\ \A w \in inCartX : OnList(c[q], x.lines[w])
                                               /\ beforeX >= c[q].min
                                               /\ afterX > 0}
             grantsX == [p \in aimedX |-> Winner(p, Quantity(x, inCartX), UnitCut(c[p], afterX))]
             winsX == {r \in {grantsX[p] : p \in aimedX} : r.saving > 0}
             cartedY == DOMAIN y.lines
             worthY == [w \in cartedY |-> Base(y.lines[w]) * y.lines[w].qty]
             restY == [w \in cartedY |-> worthY[w] - TakenOff(c, y.lines[w], won[w])]
             beforeY == SumFunctionOnSet(worthY, cartedY)
             afterY == SumFunctionOnSet(restY, cartedY)
             aimedY == {q \in Admitted(c, y) : /\ c[q].type = "ORDER_DISCOUNT"
                                               /\ \A w \in cartedY : OnList(c[q], y.lines[w])
                                               /\ beforeY >= c[q].min
                                               /\ afterY > 0}
             grantsY == [p \in aimedY |-> Winner(p, Quantity(y, cartedY), UnitCut(c[p], afterY))]
             winsY == {r \in {grantsY[p] : p \in aimedY} : r.saving > 0}
  <2>1. OrderResult(c, x, won) = BestOf(winsX)
    BY Zenon DEF OrderResult
  <2>2. OrderResult(c, y, won) = BestOf(winsY)
    BY Zenon DEF OrderResult
  <2>3. worthX = worthY
    BY <1>1
  <2>4. restX = restY
    <3> HIDE DEF worthX, worthY
    <3> QED
      BY <1>1, <2>3
  <2>5. beforeX = beforeY /\ afterX = afterY
    <3> HIDE DEF worthX, worthY, restX, restY
    <3> QED
      BY <1>1, <2>3, <2>4
  <2>6. aimedX = aimedY
    <3>1. \A p \in DOMAIN c : Idle(c[p], x) \/ (p \in Admitted(c, x) <=> p \in Admitted(c, y))
      BY DEF Alike
    <3>2. Admitted(c, x) \subseteq DOMAIN c /\ Admitted(c, y) \subseteq DOMAIN c
      BY DEF Admitted
    <3> HIDE DEF beforeX, beforeY, afterX, afterY
    <3>3. \A q \in DOMAIN c : c[q].type = "ORDER_DISCOUNT"
                               => (q \in Admitted(c, x) <=> q \in Admitted(c, y))
      BY <3>1 DEF Idle
    <3>4. ASSUME NEW q PROVE q \in aimedX <=> q \in aimedY
      <4>1. q \in aimedX => q \in aimedY
        BY <1>1, <2>5, <3>2, <3>3
      <4>2. q \in aimedY => q \in aimedX
        BY <1>1, <2>5, <3>2, <3>3
      <4> QED
        BY <4>1, <4>2
    <3> HIDE DEF aimedX, aimedY
    <3> QED
      BY <3>4
  <2> HIDE DEF aimedX, aimedY, beforeX, beforeY, afterX, afterY
  <2>7. grantsX = grantsY
    BY <1>1, <1>3, <2>5, <2>6
  <2> HIDE DEF grantsX, grantsY
  <2> QED
    BY <2>1, <2>2, <2>6, <2>7
<1> QED
  BY <1>2, <1>4 DEF Evaluation, results

-----------------------------------------------------------------------------
(* A sale that is recomputed again. *)

(* A line without its discount.                                            *)
LEMMA UndiscountedIs ==
  ASSUME NEW old \in LineType
  PROVE  /\ WithoutDiscount(old) \in LineType
         /\ WithoutDiscount(old) =
              [qty |-> old.qty, price |-> Base(old), source |-> old.source, list |-> old.list,
               pre |-> Unset, cut |-> 0, promo |-> NoPromotion]
<1> PICK base : base = Base(old)
  OBVIOUS
<1>1. base \in Nat
  BY BaseIsNatural
<1>2. WithoutDiscount(old) =
        [qty |-> old.qty, price |-> base, source |-> old.source, list |-> old.list,
         pre |-> Unset, cut |-> 0, promo |-> NoPromotion]
  <2>1. WithoutDiscount(old) = [old EXCEPT !.price = base, !.pre = Unset, !.cut = 0, !.promo = NoPromotion]
    BY DEF WithoutDiscount
  <2>2. old = [qty |-> old.qty, price |-> old.price, source |-> old.source,
                list |-> old.list, pre |-> old.pre, cut |-> old.cut, promo |-> old.promo]
    BY DEF LineType, Line
  <2> QED
    BY <2>1, <2>2
<1>3. WithoutDiscount(old) \in LineType
  BY <1>1, <1>2 DEF LineType, Line, NoPromotion
<1> QED
  BY <1>2, <1>3

(* Clearing a line gives back what its result was applied to.              *)
LEMMA AppliedClears ==
  ASSUME AreCandidates(promotions), NEW line \in LineType, line.promo = NoPromotion,
         NEW r, Wins(line, r)
  PROVE  Cleared(Applied(line, r)) = line
<1> PICK new : new = Applied(line, r)
  OBVIOUS
<1>1. /\ new \in LineType /\ new.promo = r.promo
      /\ r = Nothing => new = line
      /\ new.qty = line.qty /\ new.source = line.source /\ new.list = line.list
      /\ r # Nothing => new.promo # NoPromotion
      /\ Base(new) = Base(line)
  BY AppliedIs
<1>2. CASE r = Nothing
  BY <1>1, <1>2 DEF Cleared
<1>3. CASE r # Nothing
  <2>1. ~ByHand(line)
    BY <1>3 DEF Wins
  <2>2. line.pre = Unset
    BY <2>1 DEF ByHand
  <2>3. line.cut = 0 /\ Base(line) = line.price
    BY <2>2 DEF LineType, Base
  <2>4. WithoutDiscount(new) =
          [qty |-> new.qty, price |-> Base(new), source |-> new.source, list |-> new.list,
           pre |-> Unset, cut |-> 0, promo |-> NoPromotion]
    BY <1>1, UndiscountedIs
  <2>5. line = [qty |-> line.qty, price |-> line.price, source |-> line.source,
                list |-> line.list, pre |-> line.pre, cut |-> line.cut, promo |-> line.promo]
    BY DEF LineType, Line
  <2>6. WithoutDiscount(new) = line
    BY <1>1, <2>2, <2>3, <2>4, <2>5
  <2> QED
    BY <1>1, <1>3, <2>6 DEF Cleared
<1> QED
  BY <1>2, <1>3

(* A line that was repriced needs no other price: at the tier that it is   *)
(* charged at, or for the whole quantity of one.                           *)
SettledAt(d, w) ==
  LET line == Cleared(d.lines[w])
      tiers == prices[DefaultList][w]
  IN ~Keeps(d, w, line) =>
       /\ line.source = "price_list"
       /\ line.list = NoList /\ d.list = NoList /\ TierFor(tiers, line.qty) # 1
            => line.price = EffectivePrice(tiers, line.qty)

(* The evaluation of a draft at the prices it has.                         *)
Again(d) == EvaluatedClean(Unpromoted(d))

(* The lines of a draft are settled.                                       *)
Settled(d) == \A w \in DOMAIN d.lines : SettledAt(d, w)

(* What its promotions are evaluated to is what it has, if none of them is *)
(* left out.                                                               *)
Repeats(d) ==
  AppliedPromotions(d) \cap Again(d).out = {} => Recomputed(Again(d)) = d

(* While no handler has left the preview behind, the prices are settled and*)
(* a recompute repeats the draft.  (The draft is named so that the formula *)
(* can be used of a constant.)                                             *)
FreshInv == ~charged /\ fresh => \A d : d = draft => Settled(d) /\ Repeats(d)

(* A sale without its promotions, field by field.                          *)
LEMMA UnpromotedIs ==
  ASSUME NEW d, IsSale(d)
  PROVE  Unpromoted(d) =
           [lines |-> [w \in DOMAIN d.lines |-> Cleared(d.lines[w])], list |-> d.list,
            explicit |-> d.explicit, customer |-> d.customer, order |-> d.order,
            vetoed |-> d.vetoed, optedIn |-> d.optedIn]
<1> DEFINE lines == [w \in DOMAIN d.lines |-> Cleared(d.lines[w])]
<1>1. Unpromoted(d) = [d EXCEPT !.lines = lines]
  BY DEF Unpromoted
<1> HIDE DEF lines
<1>2. Unpromoted(d) = [lines |-> lines, list |-> d.list,
            explicit |-> d.explicit, customer |-> d.customer, order |-> d.order,
            vetoed |-> d.vetoed, optedIn |-> d.optedIn]
  BY <1>1 DEF IsSale
<1> QED
  BY <1>2 DEF lines

(* What is opted in and kept, and what is opted in and dropped, are alike  *)
(* to the engine.                                                          *)
LEMMA PrunedAlike ==
  ASSUME NEW x, NEW y, x.lines = y.lines, x.customer = y.customer, x.vetoed = y.vetoed,
         y.optedIn = Targetable(x), NEW out, AreCandidates(promotions), live \subseteq DOMAIN promotions
  PROVE  Alike(Candidates(out), x, y)
<1>1. ASSUME NEW p \in live \ out
      PROVE  \/ Idle(Candidates(out)[p], x)
             \/ (p \in Admitted(Candidates(out), x) <=> p \in Admitted(Candidates(out), y))
  <2> PICK offer : offer = promotions[p]
    OBVIOUS
  <2>1. p \in DOMAIN Candidates(out) /\ Candidates(out)[p] = offer /\ offer \in Offers
    BY DEF Candidates, AreCandidates
  <2>2. p \in Targetable(x) => p \in x.optedIn
    BY DEF Targetable
  <2>3. CASE offer.manual /\ p \in x.optedIn /\ p \notin x.vetoed /\ p \notin Targetable(x)
    <3>1. /\ offer.type # "ORDER_DISCOUNT"
          /\ offer.type \in {"PRODUCT_DISCOUNT", "BUY_X_GET_Y"} =>
               \A w \in DOMAIN x.lines : ~(offer.tier[w] > 0)
      BY <2>3 DEF Targetable
    <3>2. offer.type \in {"PRODUCT_DISCOUNT", "BUY_X_GET_Y", "ADVANCED", "ORDER_DISCOUNT"}
      BY <2>1 DEF Offers
    <3>3. Idle(offer, x)
      BY <2>3, <3>1, <3>2 DEF Idle
    <3> QED
      BY <2>1, <3>3
  <2>4. CASE ~(offer.manual /\ p \in x.optedIn /\ p \notin x.vetoed /\ p \notin Targetable(x))
    BY <2>1, <2>2, <2>4 DEF Admitted
  <2> QED
    BY <2>3, <2>4
<1>2. DOMAIN Candidates(out) = live \ out
  BY DEF Candidates
<1> QED
  BY <1>1, <1>2 DEF Alike

(* The limits leave the same promotions out of sales that the engine cannot*)
(* tell apart.                                                             *)
LEMMA PrunedExclusions ==
  ASSUME NEW x, NEW y, \A out : Alike(Candidates(out), x, y)
  PROVE  CapacityExcluded(x) = CapacityExcluded(y)
<1> DEFINE next(d) == [out \in SUBSET live |-> out \cup Overruns(Evaluation(Candidates(out), d))]
<1>1. \A out : Evaluation(Candidates(out), x) = Evaluation(Candidates(out), y)
  BY AlikeEvaluations
<1>2. next(x) = next(y)
  BY <1>1
<1>3. \A d : CapacityExcluded(d) = AfterPasses(next(d), Cardinality(DOMAIN promotions))
  BY DEF CapacityExcluded
<1> HIDE DEF next
<1> QED
  BY <1>2, <1>3

(* A sale that was recomputed would be recomputed to itself.               *)
LEMMA RecomputedRepeats ==
  ASSUME PricingAssumption, PricingTyped, NEW d, IsSale(d), Applicable(Evaluated(d)),
         NEW new, new = Recomputed(Evaluated(d))
  PROVE  Settled(new) /\ Repeats(new)
<1> PICK clean : clean = ClearedAndRepriced(d)
  OBVIOUS
<1> PICK out : out = CapacityExcluded(clean)
  OBVIOUS
<1> PICK result : result = Evaluation(Candidates(out), clean)
  OBVIOUS
<1> PICK again : again = Unpromoted(new)
  OBVIOUS
<1> PICK opted : opted = Targetable(clean)
  OBVIOUS
<1> PICK order : order = [promo |-> result.order.promo, cents |-> result.order.saving]
  OBVIOUS
<1> PICK lines : lines = [w \in DOMAIN d.lines |-> Applied(clean.lines[w], result.lines[w])]
  OBVIOUS
<1>1. Evaluated(d) = [clean |-> clean, out |-> out, result |-> result]
  BY DEF Evaluated, EvaluatedClean, Outcome
<1>2. /\ IsSale(clean)
      /\ clean = [lines |-> clean.lines, list |-> d.list, explicit |-> d.explicit,
                  customer |-> d.customer, order |-> d.order,
                  vetoed |-> d.vetoed, optedIn |-> d.optedIn]
      /\ clean.lines = [w \in DOMAIN d.lines |-> Repriced(d, w, Cleared(d.lines[w]))]
      /\ \A w \in DOMAIN d.lines : clean.lines[w].promo = NoPromotion
  BY CleanIs
<1>3. /\ IsSale(new)
      /\ new = [lines |-> lines, list |-> d.list, explicit |-> d.explicit,
                customer |-> d.customer, order |-> order,
                vetoed |-> d.vetoed, optedIn |-> opted]
      /\ \A w \in DOMAIN d.lines : Wins(clean.lines[w], result.lines[w])
  <2> PICK e : e = Evaluated(d)
    OBVIOUS
  <2>1. e.clean = clean /\ e.result = result
    BY <1>1
  <2>2. /\ IsSale(new)
        /\ new = [lines |-> [w \in DOMAIN d.lines |-> Applied(e.clean.lines[w], e.result.lines[w])],
                  list |-> d.list, explicit |-> d.explicit, customer |-> d.customer,
                  order |-> [promo |-> e.result.order.promo, cents |-> e.result.order.saving],
                  vetoed |-> d.vetoed, optedIn |-> Targetable(e.clean)]
        /\ \A w \in DOMAIN d.lines : Wins(e.clean.lines[w], e.result.lines[w])
    BY RecomputedIs
  <2> QED
    BY <2>1, <2>2
<1>4. new.lines = lines /\ new.list = d.list /\ DOMAIN lines = DOMAIN d.lines
  BY <1>3
<1>5. DOMAIN clean.lines = DOMAIN d.lines
  BY <1>2
<1>6. \A w \in DOMAIN d.lines : Cleared(lines[w]) = clean.lines[w]
  <2>1. ASSUME NEW w \in DOMAIN d.lines PROVE Cleared(lines[w]) = clean.lines[w]
    <3>1. /\ clean.lines[w] \in LineType /\ clean.lines[w].promo = NoPromotion
          /\ AreCandidates(promotions)
      BY <1>2, <1>5 DEF IsSale, IsCart, PricingTyped
    <3>2. Cleared(Applied(clean.lines[w], result.lines[w])) = clean.lines[w]
      BY <1>3, <3>1, AppliedClears
    <3> QED
      BY <3>2
  <2> QED
    BY <2>1
<1>7. again = [lines |-> clean.lines, list |-> d.list, explicit |-> d.explicit,
               customer |-> d.customer, order |-> order,
               vetoed |-> d.vetoed, optedIn |-> opted]
  <2> DEFINE cleared == [w \in DOMAIN new.lines |-> Cleared(new.lines[w])]
  <2>1. cleared = clean.lines
    <3>1. DOMAIN cleared = DOMAIN clean.lines
      BY <1>4, <1>5
    <3>2. \A w \in DOMAIN cleared : cleared[w] = clean.lines[w]
      BY <1>4, <1>6
    <3>3. clean.lines = [w \in DOMAIN clean.lines |-> clean.lines[w]]
      BY <1>2, <1>5
    <3>4. cleared = [w \in DOMAIN cleared |-> cleared[w]]
      OBVIOUS
    <3> HIDE DEF cleared
    <3> QED
      BY <3>1, <3>2, <3>3, <3>4
  <2>2. again = [lines |-> cleared, list |-> new.list, explicit |-> new.explicit,
                 customer |-> new.customer, order |-> new.order,
                 vetoed |-> new.vetoed, optedIn |-> new.optedIn]
    BY <1>3, UnpromotedIs
  <2>3. /\ new.list = d.list /\ new.explicit = d.explicit /\ new.customer = d.customer
        /\ new.order = order /\ new.vetoed = d.vetoed /\ new.optedIn = opted
    BY <1>3
  <2> HIDE DEF cleared
  <2> QED
    BY <2>1, <2>2, <2>3
<1>8. \A o : Alike(Candidates(o), clean, again)
  <2>1. /\ clean.lines = again.lines /\ clean.customer = again.customer
        /\ clean.vetoed = again.vetoed /\ again.optedIn = Targetable(clean)
    <3>1. clean.customer = d.customer /\ clean.vetoed = d.vetoed
      BY <1>2
    <3> QED
      BY <1>7, <3>1
  <2> QED
    BY <2>1, PrunedAlike DEF PricingTyped
<1>9. CapacityExcluded(again) = out /\ Evaluation(Candidates(out), again) = result
  BY <1>8, PrunedExclusions, AlikeEvaluations
<1>10. Again(new) = [clean |-> again, out |-> out, result |-> result]
  BY <1>9 DEF Again, EvaluatedClean, Outcome
<1>11. Targetable(again) = opted
  <2>1. again.lines = clean.lines /\ again.vetoed = d.vetoed /\ again.optedIn = Targetable(clean)
    BY <1>7
  <2>2. clean.vetoed = d.vetoed
    BY <1>2
  <2> QED
    BY <2>1, <2>2 DEF Targetable
<1>12. Recomputed(Again(new)) = new
  <2> PICK e : e = Again(new)
    OBVIOUS
  <2>1. e.clean = again /\ e.result = result
    BY <1>10
  <2> DEFINE applied == [w \in DOMAIN again.lines |-> Applied(again.lines[w], result.lines[w])]
  <2>2. applied = lines
    <3>1. again.lines = clean.lines
      BY <1>7
    <3> QED
      BY <1>5, <3>1
  <2>3. Recomputed(e) = [again EXCEPT !.lines = applied, !.order = order, !.optedIn = opted]
    BY <1>11, <2>1 DEF Recomputed
  <2> HIDE DEF applied
  <2> PICK bare : bare = clean.lines
    OBVIOUS
  <2>5. again = [lines |-> bare, list |-> d.list, explicit |-> d.explicit,
                 customer |-> d.customer, order |-> order,
                 vetoed |-> d.vetoed, optedIn |-> opted]
    BY <1>7
  <2> DEFINE sale(l, o) == [lines |-> l, list |-> d.list, explicit |-> d.explicit,
                            customer |-> d.customer, order |-> order,
                            vetoed |-> d.vetoed, optedIn |-> o]
             Over(x, y) == y = [x EXCEPT !.lines = applied, !.order = order, !.optedIn = opted]
  <2>6. ASSUME NEW l, NEW o, NEW x, x = sale(l, o), NEW y, Over(x, y)
        PROVE  y = sale(applied, opted)
    BY <2>6
  <2>7. Over(again, Recomputed(e))
    BY <2>3
  <2>8. again = sale(bare, opted)
    BY <2>5
  <2>9. Recomputed(e) = sale(applied, opted)
    <3> HIDE DEF Over, sale
    <3> QED
      BY <2>6, <2>7, <2>8
  <2>4. Recomputed(e) = [lines |-> lines, list |-> d.list, explicit |-> d.explicit,
                         customer |-> d.customer, order |-> order,
                         vetoed |-> d.vetoed, optedIn |-> opted]
    BY <2>2, <2>9
  <2> QED
    BY <1>3, <2>4
<1>13. ASSUME NEW w \in DOMAIN new.lines PROVE SettledAt(new, w)
  <2> PICK old : old = Cleared(d.lines[w])
    OBVIOUS
  <2> PICK line : line = Cleared(new.lines[w])
    OBVIOUS
  <2>1. w \in DOMAIN d.lines /\ line = Repriced(d, w, old)
    <3>1. w \in DOMAIN d.lines
      BY <1>4
    <3>2. line = clean.lines[w]
      BY <1>4, <1>6, <3>1
    <3>3. clean.lines[w] = Repriced(d, w, old)
      BY <1>2, <3>1
    <3> QED
      BY <3>1, <3>2, <3>3
  <2>2. old \in LineType /\ old.promo = NoPromotion
    <3>1. d.lines[w] \in LineType
      BY <2>1 DEF IsSale, IsCart
    <3> QED
      BY <3>1, ClearedIs
  <2>3. ASSUME ~Keeps(new, w, line)
        PROVE  /\ line.source = "price_list"
               /\ line.list = NoList /\ new.list = NoList
                    => line.price = EffectivePrice(prices[DefaultList][w], line.qty)
    <3>1. ~Keeps(d, w, old)
      <4>1. SUFFICES ASSUME Keeps(d, w, old) PROVE FALSE
        OBVIOUS
      <4>2. line = old
        BY <2>1, <2>2, <4>1, RepricedIs
      <4> QED
        BY <1>4, <2>3, <4>1, <4>2 DEF Keeps, ListFor, SaleList
    <3> PICK cents : cents = EffectivePrice(prices[ListFor(d, old)][w], old.qty)
      OBVIOUS
    <3>2. line = [qty |-> old.qty, price |-> cents, source |-> "price_list", list |-> old.list,
                  pre |-> Unset, cut |-> old.cut, promo |-> NoPromotion]
      BY <2>1, <2>2, <3>1, RepricedIs
    <3>3. old.list = NoList /\ d.list = NoList => ListFor(d, old) = DefaultList
      BY DEF ListFor, SaleList
    <3>4. line.source = "price_list" /\ line.list = old.list /\ line.qty = old.qty /\ line.price = cents
      BY <3>2
    <3> QED
      BY <1>4, <3>3, <3>4
  <2> QED
    BY <2>3 DEF SettledAt
<1> QED
  BY <1>12, <1>13 DEF Settled, Repeats

-----------------------------------------------------------------------------
(* Units that others take. *)

(* What is asked of a promotion is a number.                               *)
LEMMA DemandIsInt ==
  ASSUME NEW c, AreCandidates(c), NEW d, IsCart(d), PricingAssumption, NEW p
  PROVE  Demand(Evaluation(c, d), p) \in Int
<1> PICK e : e = Evaluation(c, d)
  OBVIOUS
<1> DEFINE won == {w \in DOMAIN e.lines : e.lines[w].promo = p}
           units == [w \in won |-> e.lines[w].units]
           sum == SumFunctionOnSet(units, won)
<1>1. DOMAIN e.lines = DOMAIN d.lines /\ \A w \in DOMAIN d.lines : e.lines[w] = LineResult(c, d, w)
  BY DEF Evaluation
<1>2. \A w \in won : units[w] \in Int
  <2>1. ASSUME NEW w \in won PROVE units[w] \in Int
    <3>1. w \in DOMAIN d.lines /\ units[w] = LineResult(c, d, w).units
      BY <1>1
    <3> HIDE DEF won, units
    <3> QED
      BY <3>1, LineResultGrants DEF Grants, Nothing, Winner
  <2> QED
    BY <2>1
<1>3. IsFiniteSet(won)
  <2>1. won \subseteq Wares
    BY <1>1 DEF IsCart
  <2> QED
    BY <2>1, FS_Subset DEF PricingAssumption
<1>4. sum \in Int
  <2> HIDE DEF won, units
  <2>1. Integral(units, won)
    BY <1>2 DEF Integral
  <2> QED
    BY <1>3, <2>1, SumType
<1>5. e.order.units \in Int
  BY OrderResultGrants DEF Nothing, Winner
<1>6. Demand(e, p) = sum + (IF e.order.promo = p THEN e.order.units ELSE 0)
  BY DEF Demand
<1> HIDE DEF sum
<1> QED
  BY <1>4, <1>5, <1>6

(* What is left out, and a draft evaluated again, with l units left.       *)
OverrunsOf(l, e) == {p \in live : l[p] # Unlimited /\ Demand(e, p) > l[p]}

PassOf(l, d) ==
  [out \in SUBSET live |-> out \cup OverrunsOf(l, Evaluation(Candidates(out), d))]

ExcludedWith(l, d) == AfterPasses(PassOf(l, d), Cardinality(DOMAIN promotions))

AgainWith(l, d) == Outcome(Unpromoted(d), ExcludedWith(l, Unpromoted(d)))

RepeatsWith(l, d) ==
  AppliedPromotions(d) \cap AgainWith(l, d).out = {} => Recomputed(AgainWith(l, d)) = d

(* Of p one unit was taken, and of the others nothing.                     *)
Taken(l, p) ==
  left[p] > 0 /\ l[p] = left[p] - 1 /\ \A q \in live \ {p} : l[q] = left[q]

(* A unit taken of p changes what exceeds the limits by p at most, and only*)
(* if p was asked for.                                                     *)
LEMMA UnitTakenOverruns ==
  ASSUME PricingTyped, NEW p \in DOMAIN promotions, NEW l, Taken(l, p),
         NEW e, \A q : Demand(e, q) \in Int
  PROVE  /\ OverrunsOf(l, e) \ {p} = OverrunsOf(left, e) \ {p}
         /\ OverrunsOf(left, e) \subseteq OverrunsOf(l, e)
         /\ Demand(e, p) = 0 => p \notin OverrunsOf(l, e)
<1>1. /\ left[p] \in Nat \ {0} /\ l[p] = left[p] - 1
      /\ \A q \in live \ {p} : l[q] = left[q]
  BY DEF PricingTyped, Unlimited, Taken
<1>2. l[p] # Unlimited /\ left[p] # Unlimited /\ ~(0 > l[p])
  BY <1>1 DEF Unlimited
<1>3. Demand(e, p) > left[p] => Demand(e, p) > l[p]
  <2>1. Demand(e, p) \in Int
    OBVIOUS
  <2> QED
    BY <1>1, <2>1
<1> QED
  BY <1>1, <1>2, <1>3 DEF OverrunsOf

(* A unit that others take of a promotion that the draft has only lets it  *)
(* keep that promotion or be refused; of one that it does not have, it     *)
(* changes nothing while no promotion is short of units.                   *)
LEMMA UnitTakenRepeats ==
  ASSUME PricingAssumption, PricingTyped, NEW p \in DOMAIN promotions, NEW l, Taken(l, p),
         NEW d, IsSale(d), RepeatsWith(left, d),
         \/ p \in AppliedPromotions(d)
         \/ OverrunsOf(left, Evaluation(Candidates({}), Unpromoted(d))) = {}
  PROVE  RepeatsWith(l, d)
<1> PICK clean : clean = Unpromoted(d)
  OBVIOUS
<1> PICK n : n = Cardinality(DOMAIN promotions)
  OBVIOUS
<1> PICK a : a = PassOf(left, clean)
  OBVIOUS
<1> PICK b : b = PassOf(l, clean)
  OBVIOUS
<1>1. n \in Nat
  BY FS_CardinalityType DEF PricingTyped, AreCandidates
<1>2. /\ clean.lines = [w \in DOMAIN d.lines |-> Cleared(d.lines[w])]
      /\ IsCart(clean)
      /\ clean = [lines |-> clean.lines, list |-> clean.list, explicit |-> clean.explicit,
                  customer |-> clean.customer, order |-> clean.order,
                  vetoed |-> clean.vetoed, optedIn |-> clean.optedIn]
  <2> DEFINE lines == [w \in DOMAIN d.lines |-> Cleared(d.lines[w])]
  <2>1. clean = [lines |-> lines, list |-> d.list, explicit |-> d.explicit,
                 customer |-> d.customer, order |-> d.order,
                 vetoed |-> d.vetoed, optedIn |-> d.optedIn]
    BY UnpromotedIs
  <2>2. \A w \in DOMAIN d.lines : lines[w] \in LineType
    <3>1. ASSUME NEW w \in DOMAIN d.lines PROVE lines[w] \in LineType
      <4>1. d.lines[w] \in LineType
        BY DEF IsSale, IsCart
      <4> QED
        BY <4>1, ClearedIs
    <3> QED
      BY <3>1
  <2>3. DOMAIN lines = DOMAIN d.lines /\ DOMAIN d.lines \subseteq Wares
    BY DEF IsSale, IsCart
  <2> HIDE DEF lines
  <2>4. clean.lines = lines
    BY <2>1
  <2>5. IsCart(clean)
    BY <2>2, <2>3, <2>4 DEF IsCart
  <2> QED
    BY <2>1, <2>4, <2>5 DEF lines
<1>3. \A out, q : Demand(Evaluation(Candidates(out), clean), q) \in Int
  BY <1>2, CandidatesAre, DemandIsInt
<1>4. \A X \in SUBSET live : \A e : e = Evaluation(Candidates(X), clean) =>
        /\ a[X] = X \cup OverrunsOf(left, e) /\ b[X] = X \cup OverrunsOf(l, e)
        /\ OverrunsOf(l, e) \ {p} = OverrunsOf(left, e) \ {p}
        /\ OverrunsOf(left, e) \subseteq OverrunsOf(l, e)
        /\ Demand(e, p) = 0 => p \notin OverrunsOf(l, e)
  <2>1. SUFFICES ASSUME NEW X \in SUBSET live, NEW e, e = Evaluation(Candidates(X), clean)
                 PROVE  /\ a[X] = X \cup OverrunsOf(left, e) /\ b[X] = X \cup OverrunsOf(l, e)
                        /\ OverrunsOf(l, e) \ {p} = OverrunsOf(left, e) \ {p}
                        /\ OverrunsOf(left, e) \subseteq OverrunsOf(l, e)
                        /\ Demand(e, p) = 0 => p \notin OverrunsOf(l, e)
    OBVIOUS
  <2>2. \A q : Demand(e, q) \in Int
    BY <1>3, <2>1
  <2>3. a[X] = X \cup OverrunsOf(left, e) /\ b[X] = X \cup OverrunsOf(l, e)
    BY <2>1 DEF PassOf
  <2>4. /\ OverrunsOf(l, e) \ {p} = OverrunsOf(left, e) \ {p}
        /\ OverrunsOf(left, e) \subseteq OverrunsOf(l, e)
        /\ Demand(e, p) = 0 => p \notin OverrunsOf(l, e)
    BY <2>2, UnitTakenOverruns
  <2> QED
    BY <2>3, <2>4
<1>5. ASSUME AfterPasses(a, n) = AfterPasses(b, n) PROVE RepeatsWith(l, d)
  <2>1. AgainWith(l, d) = AgainWith(left, d)
    BY <1>5 DEF AgainWith, Outcome, ExcludedWith
  <2> QED
    BY <2>1 DEF RepeatsWith
<1>6. CASE p \in AppliedPromotions(d)
  <2>1. SUFFICES ASSUME p \notin AfterPasses(b, n) PROVE AfterPasses(a, n) = AfterPasses(b, n)
    <3>1. AgainWith(l, d).out = AfterPasses(b, n)
      BY DEF AgainWith, Outcome, ExcludedWith
    <3>2. CASE p \in AfterPasses(b, n)
      BY <1>6, <3>1, <3>2 DEF RepeatsWith
    <3> QED
      BY <1>5, <3>2
  <2>2. Excluding(live, b)
    <3>1. \A X \in SUBSET live : X \subseteq b[X] /\ b[X] \subseteq live
      <4> TAKE X \in SUBSET live
      <4> PICK e : e = Evaluation(Candidates(X), clean)
        OBVIOUS
      <4>1. b[X] = X \cup OverrunsOf(l, e)
        BY <1>4
      <4>2. OverrunsOf(l, e) \subseteq live
        BY DEF OverrunsOf
      <4> QED
        BY <4>1, <4>2
    <3> QED
      BY <3>1 DEF Excluding
  <2>3. \A X \in SUBSET live : p \notin b[X] => a[X] = b[X]
    <3> TAKE X \in SUBSET live
    <3> PICK e : e = Evaluation(Candidates(X), clean)
      OBVIOUS
    <3>1. /\ a[X] = X \cup OverrunsOf(left, e) /\ b[X] = X \cup OverrunsOf(l, e)
          /\ OverrunsOf(l, e) \ {p} = OverrunsOf(left, e) \ {p}
          /\ OverrunsOf(left, e) \subseteq OverrunsOf(l, e)
      BY <1>4
    <3> QED
      BY <3>1
  <2> QED
    BY <1>1, <2>1, <2>2, <2>3, PassesWithout
<1>7. CASE /\ p \notin AppliedPromotions(d)
           /\ OverrunsOf(left, Evaluation(Candidates({}), clean)) = {}
  <2> PICK e : e = Evaluation(Candidates({}), clean)
    OBVIOUS
  <2>1. /\ a[{}] = OverrunsOf(left, e) /\ b[{}] = OverrunsOf(l, e)
        /\ OverrunsOf(l, e) \ {p} = OverrunsOf(left, e) \ {p}
        /\ Demand(e, p) = 0 => p \notin OverrunsOf(l, e)
    <3>1. {} \in SUBSET live
      OBVIOUS
    <3>2. /\ a[{}] = {} \cup OverrunsOf(left, e) /\ b[{}] = {} \cup OverrunsOf(l, e)
          /\ OverrunsOf(l, e) \ {p} = OverrunsOf(left, e) \ {p}
          /\ Demand(e, p) = 0 => p \notin OverrunsOf(l, e)
      BY <1>4, <3>1
    <3> QED
      BY <3>2
  <2>2. AfterPasses(a, n) = {}
    BY <1>1, <1>7, <2>1, PassesStay
  <2>3. AgainWith(left, d) = [clean |-> clean, out |-> {}, result |-> e]
    BY <2>2 DEF AgainWith, Outcome, ExcludedWith
  <2>4. Recomputed(AgainWith(left, d)) = d
    BY <2>3 DEF RepeatsWith
  <2>5. /\ d.lines = [w \in DOMAIN clean.lines |-> Applied(clean.lines[w], e.lines[w])]
        /\ d.order.promo = e.order.promo
    <3> PICK x : x = AgainWith(left, d)
      OBVIOUS
    <3> PICK lines : lines = [w \in DOMAIN clean.lines |-> Applied(clean.lines[w], e.lines[w])]
      OBVIOUS
    <3> PICK order : order = [promo |-> e.order.promo, cents |-> e.order.saving]
      OBVIOUS
    <3> PICK opted : opted = Targetable(clean)
      OBVIOUS
    <3>1. x.clean = clean /\ x.result = e
      BY <2>3
    <3>2. Recomputed(x) = [clean EXCEPT !.lines = lines, !.order = order, !.optedIn = opted]
      BY <3>1 DEF Recomputed
    <3>3. Recomputed(x).lines = lines /\ Recomputed(x).order = order
      BY <1>2, <3>2
    <3>4. order.promo = e.order.promo
      OBVIOUS
    <3> QED
      BY <2>4, <3>3, <3>4
  <2>6. p # NoPromotion
    BY DEF PricingTyped, AreCandidates
  <2>7. DOMAIN e.lines = DOMAIN clean.lines
    BY DEF Evaluation
  <2>8. \A w \in DOMAIN e.lines : e.lines[w].promo # p
    <3>1. SUFFICES ASSUME NEW w \in DOMAIN e.lines, e.lines[w].promo = p PROVE FALSE
      OBVIOUS
    <3> PICK line : line = clean.lines[w]
      OBVIOUS
    <3> PICK r : r = e.lines[w]
      OBVIOUS
    <3>2. line \in LineType
      BY <1>2, <2>7 DEF IsCart
    <3>3. Applied(line, r).promo = p
      BY <2>6, <3>1, <3>2 DEF Applied, Discounted, LineType, Line
    <3>4. w \in DOMAIN d.lines /\ d.lines[w].promo = p
      BY <2>5, <2>7, <3>3
    <3> QED
      BY <1>7, <2>6, <3>4 DEF AppliedPromotions
  <2>9. e.order.promo # p
    BY <1>7, <2>5, <2>6 DEF AppliedPromotions
  <2>10. Demand(e, p) = 0
    <3> PICK won : won = {w \in DOMAIN e.lines : e.lines[w].promo = p}
      OBVIOUS
    <3>1. won = {}
      BY <2>8
    <3>2. SumFunctionOnSet([w \in won |-> e.lines[w].units], won) = 0
      BY <3>1, SumOfNone
    <3>3. Demand(e, p) = SumFunctionOnSet([w \in won |-> e.lines[w].units], won) + 0
      BY <2>9 DEF Demand
    <3> QED
      BY <3>2, <3>3
  <2>11. b[{}] = {}
    BY <1>7, <2>1, <2>10
  <2>12. AfterPasses(b, n) = {}
    BY <1>1, <2>11, PassesStay
  <2> QED
    BY <1>5, <2>2, <2>12
<1> QED
  BY <1>6, <1>7

-----------------------------------------------------------------------------
(* What keeps a draft fresh. *)

(* Units that others take change the limits in Repeats, and nothing else.  *)
LEMMA RepeatsPrimed ==
  ASSUME promotions' = promotions, live' = live, NEW l, l = left'
  PROVE  \A d : Repeats(d)' <=> RepeatsWith(l, d)
<1> SUFFICES ASSUME NEW d PROVE Repeats(d)' <=> RepeatsWith(l, d)
  OBVIOUS
<1>1. \A out : Candidates(out)' = Candidates(out)
  BY DEF Candidates
<1>2. \A e : Overruns(e)' = OverrunsOf(l, e)
  BY DEF Overruns, OverrunsOf
<1>3. \A k : CapacityExcluded(k)' = ExcludedWith(l, k)
  <2> SUFFICES ASSUME NEW k PROVE CapacityExcluded(k)' = ExcludedWith(l, k)
    OBVIOUS
  <2> DEFINE next == [out \in SUBSET live |-> out \cup Overruns(Evaluation(Candidates(out), k))]
  <2>1. next' = PassOf(l, k)
    BY <1>1, <1>2 DEF PassOf
  <2>2. CapacityExcluded(k)' = AfterPasses(next', Cardinality(DOMAIN promotions'))
    BY DEF CapacityExcluded
  <2> HIDE DEF next
  <2> QED
    BY <2>1, <2>2 DEF ExcludedWith
<1>4. Again(d)' = AgainWith(l, d)
  BY <1>1, <1>3 DEF Again, EvaluatedClean, Outcome, AgainWith
<1> PICK e : e = AgainWith(l, d)
  OBVIOUS
<1>5. Recomputed(e)' = Recomputed(e)
  BY DEF Recomputed, Applied, Targetable
<1>6. Recomputed(Again(d))' = Recomputed(e)
  BY <1>4, <1>5 DEF Recomputed, Applied, Targetable
<1> QED
  BY <1>4, <1>6 DEF Repeats, RepeatsWith

(* Repeats at the units that are left now.                                 *)
LEMMA RepeatsNow == \A d : Repeats(d) <=> RepeatsWith(left, d)
<1> SUFFICES ASSUME NEW d PROVE Repeats(d) <=> RepeatsWith(left, d)
  OBVIOUS
<1>1. \A e : Overruns(e) = OverrunsOf(left, e)
  BY DEF Overruns, OverrunsOf
<1>2. \A k : CapacityExcluded(k) = ExcludedWith(left, k)
  BY <1>1 DEF CapacityExcluded, ExcludedWith, PassOf
<1>3. Again(d) = AgainWith(left, d)
  BY <1>2 DEF Again, EvaluatedClean, Outcome, AgainWith
<1> QED
  BY <1>3 DEF Repeats, RepeatsWith

(* Settled reads nothing but the prices.                                   *)
LEMMA SettledPrimed ==
  ASSUME prices' = prices PROVE \A d : Settled(d)' <=> Settled(d)
BY DEF Settled, SettledAt, Keeps

(* A higher price for one unit moves no other tier.                        *)
LEMMA TierStands ==
  ASSUME NEW tiers, IsFiniteSet(DOMAIN tiers), 1 \in DOMAIN tiers,
         \A k \in DOMAIN tiers : k \in Nat /\ tiers[k] \in Nat,
         NEW new, DOMAIN new = DOMAIN tiers, \A k \in DOMAIN tiers \ {1} : new[k] = tiers[k], NEW n
  PROVE  /\ TierFor(new, n) = TierFor(tiers, n)
         /\ TierFor(tiers, n) # 1 => EffectivePrice(new, n) = EffectivePrice(tiers, n)
<1>1. {k \in DOMAIN new : k = 1 \/ (k <= n /\ new[k] > 0)}
        = {k \in DOMAIN tiers : k = 1 \/ (k <= n /\ tiers[k] > 0)}
  OBVIOUS
<1>2. TierFor(new, n) = TierFor(tiers, n)
  BY <1>1 DEF TierFor
<1>3. TierFor(tiers, n) \in DOMAIN tiers
  BY EffectivePriceIsListed
<1> QED
  BY <1>2, <1>3 DEF EffectivePrice

(* Settled lines stay so when a price changes that is not a tier of the    *)
(* default list: such a line is priced from a tier of that list, or not    *)
(* from a price list.                                                      *)
LEMMA RaisePriceSettles ==
  ASSUME PricingAssumption, PricingTyped, NEW l \in Lists, NEW w \in Wares,
         NEW k \in 1..MaxQuantity, RaisePrice(l, w, k), ~(l = DefaultList /\ k > 1),
         NEW d, IsSale(d), Settled(d)
  PROVE  Settled(d)'
<1> PICK old : old = prices
  OBVIOUS
<1> PICK new : new = prices'
  OBVIOUS
<1>1. IsCatalogue(old) /\ w \in DOMAIN old[l] /\ k \in DOMAIN old[l][w]
  BY DEF PricingTyped, RaisePrice
<1>2. new = [old EXCEPT ![l][w][k] = @ + 1]
  BY DEF RaisePrice
<1>3. \A m \in Lists : DOMAIN new[m] = DOMAIN old[m]
  BY <1>1, <1>2 DEF IsCatalogue
<1>4. ASSUME NEW v \in Wares
      PROVE  /\ DOMAIN new[DefaultList][v] = DOMAIN old[DefaultList][v]
             /\ \A j \in DOMAIN old[DefaultList][v] \ {1} :
                  new[DefaultList][v][j] = old[DefaultList][v][j]
  <2>1. DefaultList \in Lists /\ v \in DOMAIN old[DefaultList]
    BY <1>1 DEF IsCatalogue, PricingAssumption
  <2>2. CASE l # DefaultList
    <3>1. new[DefaultList] = old[DefaultList]
      BY <1>1, <1>2, <2>1, <2>2 DEF IsCatalogue
    <3> QED
      BY <3>1
  <2>3. CASE l = DefaultList
    <3>1. k = 1
      <4>1. MaxQuantity \in Nat /\ ~(k > 1)
        BY <2>3 DEF PricingAssumption
      <4> QED
        BY <4>1
    <3> PICK cents : cents = old[l][w][k] + 1
      OBVIOUS
    <3> PICK tiers : tiers = [old[l][w] EXCEPT ![k] = cents]
      OBVIOUS
    <3>2. new[DefaultList] = [old[l] EXCEPT ![w] = tiers]
      BY <1>1, <1>2, <2>3 DEF IsCatalogue
    <3>3. new[DefaultList][v] = IF v = w THEN tiers ELSE old[DefaultList][v]
      BY <2>1, <2>3, <3>2
    <3>4. /\ DOMAIN tiers = DOMAIN old[l][w]
          /\ \A j \in DOMAIN old[l][w] \ {1} : tiers[j] = old[l][w][j]
      BY <3>1
    <3> QED
      BY <2>3, <3>3, <3>4
  <2> QED
    BY <2>2, <2>3
<1>5. ASSUME NEW v \in DOMAIN d.lines PROVE SettledAt(d, v)'
  <2> PICK line : line = Cleared(d.lines[v])
    OBVIOUS
  <2> PICK list : list = ListFor(d, line)
    OBVIOUS
  <2>1. v \in Wares /\ d.lines[v] \in LineType /\ SettledAt(d, v)
    BY DEF IsSale, IsCart, Settled
  <2>2. list \in Lists
    <3>1. line \in LineType
      BY <2>1, ClearedIs
    <3> QED
      BY <3>1, ListForIsList
  <2>3. Keeps(d, v, line)' <=> Keeps(d, v, line)
    <3>1. DOMAIN new[list] = DOMAIN old[list]
      BY <1>3, <2>2
    <3> QED
      BY <3>1 DEF Keeps
  <2> PICK before : before = old[DefaultList][v]
    OBVIOUS
  <2> PICK after : after = new[DefaultList][v]
    OBVIOUS
  <2>4. /\ IsFiniteSet(DOMAIN before) /\ 1 \in DOMAIN before
        /\ \A j \in DOMAIN before : j \in Nat /\ before[j] \in Nat
        /\ DOMAIN after = DOMAIN before
        /\ \A j \in DOMAIN before \ {1} : after[j] = before[j]
    <3>1. v \in DOMAIN old[DefaultList] /\ DefaultList \in Lists
      BY <1>1, <2>1 DEF IsCatalogue, PricingAssumption
    <3>2. /\ IsFiniteSet(DOMAIN before) /\ 1 \in DOMAIN before
          /\ \A j \in DOMAIN before : j \in Nat /\ before[j] \in Nat
      BY <1>1, <3>1 DEF IsCatalogue
    <3>3. /\ DOMAIN after = DOMAIN before
          /\ \A j \in DOMAIN before \ {1} : after[j] = before[j]
      BY <1>4, <2>1
    <3> QED
      BY <3>2, <3>3
  <2>5. /\ TierFor(after, line.qty) = TierFor(before, line.qty)
        /\ TierFor(before, line.qty) # 1
             => EffectivePrice(after, line.qty) = EffectivePrice(before, line.qty)
    BY <2>4, TierStands
  <2>6. ~Keeps(d, v, line) =>
          /\ line.source = "price_list"
          /\ line.list = NoList /\ d.list = NoList /\ TierFor(before, line.qty) # 1
               => line.price = EffectivePrice(before, line.qty)
    BY <2>1 DEF SettledAt
  <2>7. SettledAt(d, v)' <=>
          (~Keeps(d, v, line)' =>
             /\ line.source = "price_list"
             /\ line.list = NoList /\ d.list = NoList /\ TierFor(after, line.qty) # 1
                  => line.price = EffectivePrice(after, line.qty))
    BY DEF SettledAt
  <2> QED
    BY <2>3, <2>5, <2>6, <2>7
<1> QED
  BY <1>5 DEF Settled

(* A settled draft that the charge accepts is repriced to what it is.      *)
LEMMA SettledIsClean ==
  ASSUME PricingAssumption, PricingTyped, Settled(draft), \A w \in InCart : PriceStands(w)
  PROVE  ClearedAndRepriced(draft) = Unpromoted(draft)
<1> DEFINE cleared == [w \in DOMAIN draft.lines |-> Cleared(draft.lines[w])]
           repriced == [w \in DOMAIN draft.lines |-> Repriced(draft, w, Cleared(draft.lines[w]))]
<1>1. ASSUME NEW w \in DOMAIN draft.lines
      PROVE  Repriced(draft, w, Cleared(draft.lines[w])) = Cleared(draft.lines[w])
  <2> PICK old : old = draft.lines[w]
    OBVIOUS
  <2> PICK line : line = Cleared(old)
    OBVIOUS
  <2> PICK new : new = Repriced(draft, w, line)
    OBVIOUS
  <2>1. IsSale(draft) /\ old \in LineType
    BY DEF PricingTyped, IsSale, IsCart
  <2>2. /\ line \in LineType /\ line.promo = NoPromotion
        /\ line.qty = old.qty /\ line.source = old.source /\ line.list = old.list
        /\ Base(line) = Base(old)
    BY <2>1, ClearedIs
  <2>3. CASE Keeps(draft, w, line)
    BY <2>1, <2>2, <2>3, RepricedIs
  <2>4. CASE ~Keeps(draft, w, line)
    <3> PICK tiers : tiers = prices[ListFor(draft, line)][w]
      OBVIOUS
    <3> PICK cents : cents = EffectivePrice(tiers, line.qty)
      OBVIOUS
    <3>1. new = [qty |-> line.qty, price |-> cents, source |-> "price_list", list |-> line.list,
                 pre |-> Unset, cut |-> line.cut, promo |-> NoPromotion]
      BY <2>1, <2>2, <2>4, RepricedIs
    <3>2. line.pre = Unset /\ line.source # "custom"
      BY <2>2, <2>4 DEF Keeps, ByHand
    <3>3. /\ line.source = "price_list"
          /\ line.list = NoList /\ draft.list = NoList /\ TierFor(prices[DefaultList][w], line.qty) # 1
               => line.price = EffectivePrice(prices[DefaultList][w], line.qty)
      BY <2>4 DEF Settled, SettledAt
    <3>4. line.price = Base(old)
      BY <2>2, <3>2 DEF Base
    <3>5. StandsAtPrice(w)
      BY <2>2, <3>3 DEF PriceStands, InCart
    <3>6. line.price = cents
      <4>1. CASE line.list # NoList \/ draft.list # NoList
        BY <2>2, <3>3, <3>4, <3>5, <4>1 DEF StandsAtPrice, ListFor
      <4>2. CASE line.list = NoList /\ draft.list = NoList
        <5>1. tiers = prices[DefaultList][w]
          BY <4>2 DEF ListFor, SaleList
        <5>2. line.price = tiers[1]
          BY <2>2, <3>4, <3>5, <4>2, <5>1 DEF StandsAtPrice
        <5>3. CASE TierFor(tiers, line.qty) = 1
          BY <5>2, <5>3 DEF EffectivePrice
        <5>4. CASE TierFor(tiers, line.qty) # 1
          BY <3>3, <4>2, <5>1, <5>4
        <5> QED
          BY <5>3, <5>4
      <4> QED
        BY <4>1, <4>2
    <3>7. line = [qty |-> line.qty, price |-> line.price, source |-> line.source,
                  list |-> line.list, pre |-> line.pre, cut |-> line.cut, promo |-> line.promo]
      BY <2>2 DEF LineType, Line
    <3> QED
      BY <2>2, <3>1, <3>2, <3>3, <3>6, <3>7
  <2> QED
    BY <2>3, <2>4
<1>2. cleared = repriced
  BY <1>1
<1>3. Unpromoted(draft) = [draft EXCEPT !.lines = cleared]
  BY DEF Unpromoted
<1>4. ClearedAndRepriced(draft) = [draft EXCEPT !.lines = repriced]
  BY DEF ClearedAndRepriced
<1> HIDE DEF cleared, repriced
<1> QED
  BY <1>2, <1>3, <1>4

(* What recomputePromotions saves is fresh.                                *)
LEMMA RecomputeIsFresh ==
  ASSUME PricingAssumption, PricingTyped, NEW d, IsSale(d), Recompute(d)
  PROVE  FreshInv'
<1> PICK l : l = left'
  OBVIOUS
<1>1. /\ Applicable(Evaluated(d)) /\ draft' = Recomputed(Evaluated(d))
      /\ prices' = prices /\ promotions' = promotions /\ live' = live /\ l = left
  BY DEF Recompute, Finish, outside
<1>2. ASSUME NEW x, x = draft' PROVE Settled(x)' /\ Repeats(x)'
  <2>1. Settled(x) /\ Repeats(x)
    BY <1>1, <1>2, RecomputedRepeats
  <2>2. Settled(x)'
    BY <1>1, <2>1, SettledPrimed
  <2>3. Repeats(x)'
    BY <1>1, <2>1, RepeatsPrimed, RepeatsNow
  <2> QED
    BY <2>2, <2>3
<1> QED
  BY <1>2 DEF FreshInv

(* What others do, if it leaves the preview fresh, leaves it so that a     *)
(* recompute repeats it.                                                   *)
LEMMA ElsewhereIsFresh ==
  ASSUME PricingAssumption, PricingTyped, FreshInv, Others, ~charged
  PROVE  FreshInv'
<1> PICK l : l = left'
  OBVIOUS
<1>1. draft' = draft /\ promotions' = promotions /\ charged' = charged
  BY DEF Others, RaisePrice, TakeUnit, ReturnUnit, EndPromotion, Elsewhere
<1>2. SUFFICES ASSUME fresh', NEW d, d = draft PROVE Settled(d)' /\ Repeats(d)'
  BY <1>1 DEF FreshInv
<1>3. IsSale(d)
  BY <1>2 DEF PricingTyped
<1>4. ASSUME fresh PROVE Settled(d) /\ RepeatsWith(left, d)
  <2>1. Settled(d) /\ Repeats(d)
    BY <1>2, <1>4 DEF FreshInv
  <2> QED
    BY <2>1, RepeatsNow
<1>5. ASSUME NEW m \in Lists, NEW w \in Wares, NEW k \in 1..MaxQuantity, RaisePrice(m, w, k)
      PROVE  Settled(d)' /\ Repeats(d)'
  <2>1. /\ fresh /\ ~(m = DefaultList /\ k > 1) /\ live' = live /\ l = left
    BY <1>2, <1>5 DEF RaisePrice
  <2>2. Settled(d)'
    BY <1>3, <1>4, <1>5, <2>1, RaisePriceSettles
  <2>3. Repeats(d)'
    BY <1>1, <1>4, <2>1, RepeatsPrimed
  <2> QED
    BY <2>2, <2>3
<1>6. ASSUME NEW p \in DOMAIN promotions, TakeUnit(p)
      PROVE  Settled(d)' /\ Repeats(d)'
  <2>1. /\ fresh /\ live' = live /\ prices' = prices
        /\ left[p] > 0 /\ l = [left EXCEPT ![p] = @ - 1]
        /\ \/ p \in AppliedPromotions(d)
           \/ Overruns(Evaluation(Candidates({}), Unpromoted(d))) = {}
    BY <1>2, <1>6 DEF TakeUnit
  <2>2. Taken(l, p)
    BY <2>1 DEF Taken, PricingTyped
  <2>3. \A e : Overruns(e) = OverrunsOf(left, e)
    BY DEF Overruns, OverrunsOf
  <2>4. RepeatsWith(l, d)
    BY <1>3, <1>4, <2>1, <2>2, <2>3, UnitTakenRepeats
  <2>5. Settled(d)' /\ Repeats(d)'
    BY <1>1, <1>4, <2>1, <2>4, RepeatsPrimed, SettledPrimed
  <2> QED
    BY <2>5
<1>7. CASE \E p \in DOMAIN promotions : ReturnUnit(p) \/ EndPromotion(p)
  BY <1>2, <1>7 DEF ReturnUnit, EndPromotion
<1> QED
  BY <1>5, <1>6, <1>7 DEF Others

-----------------------------------------------------------------------------
(* What the handlers of an edited sale keep. *)

(* The price that the seller made for a line is kept.                      *)
OwnPriceKept(d, w) == OwnPrice(d.lines[w]) # Unset => OwnPrice(draft'.lines[w]) = OwnPrice(d.lines[w])

(* A recompute keeps the seller's decisions and prices.                    *)
LEMMA RecomputedKeeps ==
  ASSUME PricingAssumption, PricingTyped, NEW d, IsSale(d), d.optedIn \cap d.vetoed = {},
         Applicable(Evaluated(d)), draft' = Recomputed(Evaluated(d)), UNCHANGED outside
  PROVE  /\ PricingTyped' /\ AsDecided'
         /\ DOMAIN draft'.lines = DOMAIN d.lines
         /\ \A w \in DOMAIN d.lines : OwnPriceKept(d, w)
<1> DEFINE e == Evaluated(d)
           lines == [w \in DOMAIN d.lines |-> Applied(e.clean.lines[w], e.result.lines[w])]
           opted == Targetable(e.clean)
<1>1. /\ prices' = prices /\ promotions' = promotions /\ live' = live /\ left' = left
  BY DEF outside
<1>2. e.clean = ClearedAndRepriced(d)
  BY DEF Evaluated, EvaluatedClean, Outcome
<1> PICK clean : clean = ClearedAndRepriced(d)
  OBVIOUS
<1>11. /\ IsSale(clean) /\ DOMAIN clean.lines = DOMAIN d.lines /\ clean.optedIn = d.optedIn
       /\ \A w \in DOMAIN d.lines :
            /\ clean.lines[w].promo = NoPromotion
            /\ OwnPrice(d.lines[w]) # Unset => OwnPrice(clean.lines[w]) = OwnPrice(d.lines[w])
  <2> DEFINE lines0 == [w \in DOMAIN d.lines |-> Repriced(d, w, Cleared(d.lines[w]))]
  <2>1. /\ IsSale(clean)
        /\ clean = [lines |-> clean.lines, list |-> d.list, explicit |-> d.explicit,
                    customer |-> d.customer, order |-> d.order,
                    vetoed |-> d.vetoed, optedIn |-> d.optedIn]
        /\ clean.lines = lines0
        /\ \A w \in DOMAIN d.lines :
            /\ clean.lines[w].promo = NoPromotion
            /\ OwnPrice(d.lines[w]) # Unset => OwnPrice(clean.lines[w]) = OwnPrice(d.lines[w])
    BY CleanIs
  <2>2. DOMAIN lines0 = DOMAIN d.lines
    OBVIOUS
  <2> HIDE DEF lines0
  <2> QED
    BY <2>1, <2>2
<1> PICK new : new = Recomputed(e)
  OBVIOUS
<1>3. /\ IsSale(new)
      /\ new.lines = lines /\ new.vetoed = d.vetoed /\ new.optedIn = opted
      /\ AppliedPromotions(new) \cap d.vetoed = {}
      /\ \A p \in AppliedPromotions(new) : promotions[p].manual => p \in new.optedIn
  <2> DEFINE order == [promo |-> e.result.order.promo, cents |-> e.result.order.saving]
  <2>1. /\ IsSale(new)
        /\ new = [lines |-> lines, list |-> d.list, explicit |-> d.explicit,
                  customer |-> d.customer, order |-> order,
                  vetoed |-> d.vetoed, optedIn |-> opted]
        /\ AppliedPromotions(new) \cap d.vetoed = {}
        /\ \A p \in AppliedPromotions(new) : promotions[p].manual => p \in new.optedIn
    BY RecomputedIs
  <2> HIDE DEF e, lines, opted, order
  <2> QED
    BY <2>1
<1>4. \A w \in DOMAIN d.lines : Wins(e.clean.lines[w], e.result.lines[w])
  BY RecomputedIs
<1>5. draft' = new
  OBVIOUS
<1>6. PricingTyped'
  BY <1>1, <1>3, <1>5 DEF PricingTyped, IsSale, IsCart
<1>7. e.clean.optedIn = d.optedIn
  BY <1>2, <1>11
<1>8. AsDecided'
  <2>1. opted \cap d.vetoed = {}
    BY <1>7 DEF Targetable
  <2>2. AppliedPromotions(draft)' = AppliedPromotions(new)
    BY <1>5 DEF AppliedPromotions
  <2> HIDE DEF opted
  <2> QED
    BY <1>1, <1>3, <1>5, <2>1, <2>2 DEF AsDecided
<1>9. ASSUME NEW w \in DOMAIN d.lines PROVE OwnPriceKept(d, w)
  <2> DEFINE line == e.clean.lines[w]
             r == e.result.lines[w]
  <2>1. /\ line \in LineType /\ line.promo = NoPromotion
        /\ OwnPrice(d.lines[w]) # Unset => OwnPrice(line) = OwnPrice(d.lines[w])
    BY <1>2, <1>11 DEF IsSale, IsCart
  <2>2. Wins(line, r)
    BY <1>4
  <2>3. draft'.lines[w] = Applied(line, r)
    BY <1>3, <1>5
  <2>4. AreCandidates(promotions)
    BY DEF PricingTyped
  <2> HIDE DEF e, line, r
  <2>5. OwnPrice(line) # Unset => OwnPrice(Applied(line, r)) = OwnPrice(line)
    BY <2>1, <2>2, <2>4, AppliedIs
  <2> QED
    BY <2>1, <2>3, <2>5 DEF OwnPriceKept
<1>10. DOMAIN draft'.lines = DOMAIN d.lines
  BY <1>3, <1>5
<1> QED
  BY <1>6, <1>8, <1>9, <1>10

(* So does a save without one, of a sale that respects the decisions.      *)
LEMMA SaveKeeps ==
  ASSUME PricingTyped, NEW d, IsSale(d), Save(d), d.optedIn \cap d.vetoed = {},
         AppliedPromotions(d) \cap d.vetoed = {},
         \A p \in AppliedPromotions(d) : promotions[p].manual => p \in d.optedIn
  PROVE  PricingTyped' /\ AsDecided'
<1>1. /\ prices' = prices /\ promotions' = promotions /\ live' = live /\ left' = left
      /\ draft' = d
  BY DEF outside, Save
<1>2. PricingTyped'
  BY <1>1 DEF PricingTyped
<1>3. AppliedPromotions(draft)' = AppliedPromotions(d)
  BY <1>1 DEF AppliedPromotions
<1> QED
  BY <1>1, <1>2, <1>3 DEF AsDecided

(* What a step of the seller or of the others keeps.                       *)
Stands == PricingTyped' /\ AsDecided' /\ PricesStay /\ FreshInv'

(* A handler that edits the sale and recomputes it, once it is shown that  *)
(* it changes the price only of the lines it is aimed at.                  *)
LEMMA EditStands ==
  ASSUME PricingAssumption, PricingTyped, NEW d, IsSale(d), d.optedIn \cap d.vetoed = {},
         Recompute(d),
         \A w \in InCart \cap DOMAIN d.lines :
           AimedAt(w) \/ OwnPrice(d.lines[w]) = OwnPrice(draft.lines[w])
  PROVE  Stands
<1>1. Applicable(Evaluated(d)) /\ draft' = Recomputed(Evaluated(d)) /\ UNCHANGED outside
  BY DEF Recompute, Finish
<1>2. /\ PricingTyped' /\ AsDecided'
      /\ DOMAIN draft'.lines = DOMAIN d.lines
      /\ \A w \in DOMAIN d.lines : OwnPriceKept(d, w)
  BY <1>1, RecomputedKeeps
<1>3. ASSUME NEW w \in InCart \cap InCart'
      PROVE  \/ AimedAt(w)
             \/ OwnPrice(draft.lines[w]) = Unset
             \/ OwnPrice(draft'.lines[w]) = OwnPrice(draft.lines[w])
  <2>1. w \in InCart \cap DOMAIN d.lines
    BY <1>2 DEF InCart
  <2> QED
    BY <1>2, <2>1 DEF OwnPriceKept
<1>4. PricesStay
  BY <1>3 DEF PricesStay
<1>5. FreshInv'
  BY RecomputeIsFresh
<1> QED
  BY <1>2, <1>4, <1>5 DEF Stands

(* A line of another quantity.                                             *)
LEMMA RequantifiedIs ==
  ASSUME NEW old \in LineType, NEW n \in Nat \ {0}, NEW line, line = [old EXCEPT !.qty = n]
  PROVE  line \in LineType /\ OwnPrice(line) = OwnPrice(old)
<1>1. line = [qty |-> n, price |-> old.price, source |-> old.source, list |-> old.list,
              pre |-> old.pre, cut |-> old.cut, promo |-> old.promo]
  BY DEF LineType, Line
<1>2. line \in LineType
  BY <1>1 DEF LineType, Line
<1>3. OwnPrice(line) = OwnPrice(old)
  BY <1>1 DEF OwnPrice, ByHand, Base
<1> QED
  BY <1>2, <1>3

(* The handlers of the seller, one after the other: addItem.               *)
LEMMA AddItemStands ==
  ASSUME PricingAssumption, PricingTyped, AsDecided,
         NEW w \in Wares, NEW n \in 1..MaxQuantity, AddItem(w, n)
  PROVE  Stands
<1> DEFINE more == [draft.lines[w] EXCEPT !.qty = @ + n]
<1> PICK line : line = IF w \in InCart THEN more ELSE NewLine(w, n)
  OBVIOUS
<1> PICK d : d = WithLine(draft, w, line)
  OBVIOUS
<1>1. n \in Nat \ {0}
  BY DEF PricingAssumption
<1>2. IsSale(draft)
  BY DEF PricingTyped
<1>3. line \in LineType /\ (w \in InCart => OwnPrice(line) = OwnPrice(draft.lines[w]))
  <2>1. CASE w \in InCart
    <3> PICK old : old = draft.lines[w]
      OBVIOUS
    <3>1. old \in LineType
      BY <1>2, <2>1 DEF IsSale, IsCart, InCart
    <3> DEFINE sum == old.qty + n
    <3>2. sum \in Nat \ {0}
      BY <1>1, <3>1 DEF LineType, Line
    <3>3. line = [old EXCEPT !.qty = sum]
      BY <2>1
    <3> HIDE DEF sum
    <3> QED
      BY <3>1, <3>2, <3>3, RequantifiedIs
  <2>2. CASE w \notin InCart
    <3>1. prices[DefaultList][w][1] \in Nat
      BY DEF PricingTyped, IsCatalogue, PricingAssumption
    <3>2. NewLine(w, n) \in LineType
      BY <1>1, <3>1 DEF NewLine, LineType, Line, NoPromotion
    <3> QED
      BY <2>2, <3>2
  <2> QED
    BY <2>1, <2>2
<1>4. Recompute(d)
  BY DEF AddItem
<1>5. /\ IsSale(d) /\ d.optedIn = draft.optedIn /\ d.vetoed = draft.vetoed
      /\ d.lines[w] = line /\ \A v \in DOMAIN draft.lines \ {w} : d.lines[v] = draft.lines[v]
  BY <1>2, <1>3, WithLineIs
<1>6. \A v \in InCart : OwnPrice(d.lines[v]) = OwnPrice(draft.lines[v])
  BY <1>3, <1>5 DEF InCart
<1> QED
  BY <1>4, <1>5, <1>6, EditStands DEF AsDecided

(* updateItemQuantity.                                                     *)
LEMMA UpdateItemQuantityStands ==
  ASSUME PricingAssumption, PricingTyped, AsDecided,
         NEW w \in Wares, NEW n \in 1..MaxQuantity, UpdateItemQuantity(w, n)
  PROVE  Stands
<1> PICK old : old = draft.lines[w]
  OBVIOUS
<1> PICK line : line = [old EXCEPT !.qty = n]
  OBVIOUS
<1> PICK d : d = WithLine(draft, w, line)
  OBVIOUS
<1>1. n \in Nat \ {0} /\ w \in InCart
  BY DEF PricingAssumption, UpdateItemQuantity
<1>2. IsSale(draft)
  BY DEF PricingTyped
<1>3. line \in LineType /\ OwnPrice(line) = OwnPrice(old)
  <2>1. old \in LineType
    BY <1>1, <1>2 DEF IsSale, IsCart, InCart
  <2> QED
    BY <1>1, <2>1, RequantifiedIs
<1>4. Recompute(d)
  BY DEF UpdateItemQuantity
<1>5. /\ IsSale(d) /\ d.optedIn = draft.optedIn /\ d.vetoed = draft.vetoed
      /\ d.lines[w] = line /\ \A v \in DOMAIN draft.lines \ {w} : d.lines[v] = draft.lines[v]
  BY <1>2, <1>3, WithLineIs
<1>6. \A v \in InCart : OwnPrice(d.lines[v]) = OwnPrice(draft.lines[v])
  BY <1>3, <1>5 DEF InCart
<1> QED
  BY <1>4, <1>5, <1>6, EditStands DEF AsDecided

(* removeItem.                                                             *)
LEMMA RemoveItemStands ==
  ASSUME PricingAssumption, PricingTyped, AsDecided, NEW w \in Wares, RemoveItem(w)
  PROVE  Stands
<1> PICK rest : rest = WithoutLine(draft, w)
  OBVIOUS
<1> PICK p : p = draft.lines[w].promo
  OBVIOUS
<1> PICK d : d = OptedOutWithLine(rest, p)
  OBVIOUS
<1>1. IsSale(draft)
  BY DEF PricingTyped
<1>2. /\ IsSale(rest) /\ rest.optedIn = draft.optedIn /\ rest.vetoed = draft.vetoed
      /\ DOMAIN rest.lines \subseteq InCart
      /\ \A v \in DOMAIN rest.lines : rest.lines[v] = draft.lines[v]
  BY <1>1, WithoutLineIs DEF InCart
<1>3. IsSale(d) /\ d.lines = rest.lines /\ d.optedIn \cap d.vetoed = {}
  BY <1>2, FlagsAre DEF AsDecided
<1>4. Recompute(d)
  BY DEF RemoveItem
<1>5. \A v \in InCart \cap DOMAIN d.lines : OwnPrice(d.lines[v]) = OwnPrice(draft.lines[v])
  BY <1>2, <1>3
<1> QED
  BY <1>3, <1>4, <1>5, EditStands

(* A line whose price the seller chose is a line.                          *)
LEMMA OverriddenIs ==
  ASSUME NEW old \in LineType, NEW cents \in Nat, NEW made, made \in {"price_list", "custom"},
         NEW l \in Lists \cup {NoList}
  PROVE  [WithoutDiscount(old) EXCEPT !.price = cents, !.source = made, !.list = l] \in LineType
<1> DEFINE plain(q, b, s, k) == [qty |-> q, price |-> b, source |-> s, list |-> k,
                                 pre |-> Unset, cut |-> 0, promo |-> NoPromotion]
           Over(x, y) == y = [x EXCEPT !.price = cents, !.source = made, !.list = l]
<1>1. ASSUME NEW q, NEW b, NEW s, NEW k, NEW x, x = plain(q, b, s, k), NEW y, Over(x, y)
      PROVE  y = plain(q, cents, made, l)
  BY <1>1
<1>2. PICK x : x = WithoutDiscount(old)
  OBVIOUS
<1>3. PICK y : Over(x, y)
  OBVIOUS
<1>4. x = plain(old.qty, Base(old), old.source, old.list)
  BY <1>2, UndiscountedIs
<1>5. y = plain(old.qty, cents, made, l)
  <2> HIDE DEF plain, Over
  <2> QED
    BY <1>1, <1>3, <1>4
<1>6. old.qty \in Nat \ {0} /\ NoPromotion \in Nat /\ 0 \in Int
  BY DEF LineType, Line, NoPromotion
<1>7. plain(old.qty, cents, made, l) \in LineType
  BY <1>6 DEF LineType, Line
<1> HIDE DEF plain
<1> QED
  BY <1>2, <1>3, <1>5, <1>7

(* A handler that gives one line another price.                            *)
LEMMA AimedEditStands ==
  ASSUME PricingAssumption, PricingTyped, AsDecided, NEW w \in Wares, AimedAt(w),
         NEW line \in LineType, Recompute(WithLine(draft, w, line))
  PROVE  Stands
<1> PICK d : d = WithLine(draft, w, line)
  OBVIOUS
<1>1. IsSale(draft)
  BY DEF PricingTyped
<1>2. /\ IsSale(d) /\ d.optedIn = draft.optedIn /\ d.vetoed = draft.vetoed
      /\ \A v \in DOMAIN draft.lines \ {w} : d.lines[v] = draft.lines[v]
  BY <1>1, WithLineIs
<1>3. \A v \in InCart : AimedAt(v) \/ OwnPrice(d.lines[v]) = OwnPrice(draft.lines[v])
  BY <1>2 DEF InCart
<1>4. Recompute(d)
  OBVIOUS
<1> QED
  BY <1>2, <1>3, <1>4, EditStands DEF AsDecided

(* overrideItemPrice, with a price list.                                   *)
LEMMA OverrideWithListStands ==
  ASSUME PricingAssumption, PricingTyped, AsDecided,
         NEW w \in Wares, NEW l \in Lists, OverrideWithList(w, l)
  PROVE  Stands
<1> PICK old : old = draft.lines[w]
  OBVIOUS
<1> PICK cents : cents = EffectivePrice(prices[l][w], old.qty)
  OBVIOUS
<1> PICK line : line = [WithoutDiscount(old) EXCEPT
                          !.price = cents, !.source = "price_list", !.list = l]
  OBVIOUS
<1>1. w \in InCart /\ w \in DOMAIN prices[l]
  BY DEF OverrideWithList
<1>2. old \in LineType
  BY <1>1 DEF PricingTyped, IsSale, IsCart, InCart
<1>3. cents \in Nat
  <2> DEFINE tiers == prices[l][w]
  <2>1. /\ IsFiniteSet(DOMAIN tiers) /\ 1 \in DOMAIN tiers
        /\ \A k \in DOMAIN tiers : k \in Nat /\ tiers[k] \in Nat
    BY <1>1 DEF PricingTyped, IsCatalogue
  <2>2. cents = EffectivePrice(tiers, old.qty)
    OBVIOUS
  <2> HIDE DEF tiers
  <2> QED
    BY <2>1, <2>2, EffectivePriceIsListed
<1>5. line \in LineType
  BY <1>2, <1>3, OverriddenIs
<1>6. AimedAt(w)
  BY DEF AimedAt
<1>7. Recompute(WithLine(draft, w, line))
  BY DEF OverrideWithList
<1> QED
  BY <1>5, <1>6, <1>7, AimedEditStands

(* overrideItemPrice, with a price of his own.                             *)
LEMMA OverrideWithPriceStands ==
  ASSUME PricingAssumption, PricingTyped, AsDecided,
         NEW w \in Wares, NEW cents \in HandPrices, OverrideWithPrice(w, cents)
  PROVE  Stands
<1> PICK old : old = draft.lines[w]
  OBVIOUS
<1> PICK line : line = [WithoutDiscount(old) EXCEPT
                          !.price = cents, !.source = "custom", !.list = NoList]
  OBVIOUS
<1>1. w \in InCart /\ cents \in Nat
  BY DEF OverrideWithPrice, PricingAssumption
<1>2. old \in LineType
  BY <1>1 DEF PricingTyped, IsSale, IsCart, InCart
<1>4. line \in LineType
  BY <1>1, <1>2, OverriddenIs
<1>5. AimedAt(w)
  BY DEF AimedAt
<1>6. Recompute(WithLine(draft, w, line))
  BY DEF OverrideWithPrice
<1> QED
  BY <1>4, <1>5, <1>6, AimedEditStands

(* removeItemDiscount.                                                     *)
LEMMA RemoveItemDiscountStands ==
  ASSUME PricingAssumption, PricingTyped, AsDecided, NEW w \in Wares, RemoveItemDiscount(w)
  PROVE  Stands
<1> PICK old : old = draft.lines[w]
  OBVIOUS
<1> PICK line : line = WithoutDiscount(old)
  OBVIOUS
<1> PICK plain : plain = WithLine(draft, w, line)
  OBVIOUS
<1> PICK d : d = OptedOutWithLine(plain, old.promo)
  OBVIOUS
<1>1. IsSale(draft) /\ w \in InCart
  BY DEF PricingTyped, RemoveItemDiscount
<1>2. line \in LineType
  <2>1. old \in LineType
    BY <1>1 DEF IsSale, IsCart, InCart
  <2> QED
    BY <2>1, UndiscountedIs
<1>3. /\ IsSale(plain) /\ plain.optedIn = draft.optedIn /\ plain.vetoed = draft.vetoed
      /\ \A v \in DOMAIN draft.lines \ {w} : plain.lines[v] = draft.lines[v]
  BY <1>1, <1>2, WithLineIs
<1>4. IsSale(d) /\ d.lines = plain.lines /\ d.optedIn \cap d.vetoed = {}
  BY <1>3, FlagsAre DEF AsDecided
<1>5. Recompute(d)
  BY DEF RemoveItemDiscount
<1>6. AimedAt(w)
  BY DEF AimedAt
<1>7. \A v \in InCart \cap DOMAIN d.lines : AimedAt(v) \/ OwnPrice(d.lines[v]) = OwnPrice(draft.lines[v])
  BY <1>3, <1>4, <1>6 DEF InCart
<1> QED
  BY <1>4, <1>5, <1>7, EditStands

(* A handler that only changes what is wanted and what is refused.         *)
LEMMA FlagEditStands ==
  ASSUME PricingAssumption, PricingTyped, AsDecided, NEW p,
         NEW d \in {OptedOut(draft, p), OptedIn(draft, p), Vetoed(draft, p)}, Recompute(d)
  PROVE  Stands
<1>1. IsSale(draft) /\ draft.optedIn \cap draft.vetoed = {}
  BY DEF PricingTyped, AsDecided
<1>2. IsSale(d) /\ d.lines = draft.lines /\ d.optedIn \cap d.vetoed = {}
  BY <1>1, FlagsAre
<1> QED
  BY <1>2, EditStands

(* applyManualPromotion, removeManualPromotion and removeAppliedPromotion. *)
LEMMA PromotionEditStands ==
  ASSUME PricingAssumption, PricingTyped, AsDecided, NEW p,
         ApplyManualPromotion(p) \/ RemoveManualPromotion(p) \/ RemoveAppliedPromotion(p)
  PROVE  Stands
<1>1. CASE ApplyManualPromotion(p)
  BY <1>1, FlagEditStands DEF ApplyManualPromotion
<1>2. CASE RemoveManualPromotion(p)
  BY <1>2, FlagEditStands DEF RemoveManualPromotion
<1>3. CASE RemoveAppliedPromotion(p)
  <2>1. CASE p \in draft.optedIn
    <3>1. Recompute(OptedOut(draft, p))
      BY <1>3, <2>1 DEF RemoveAppliedPromotion
    <3> QED
      BY <3>1, FlagEditStands
  <2>2. CASE p \notin draft.optedIn
    <3>1. Recompute(Vetoed(draft, p))
      BY <1>3, <2>2 DEF RemoveAppliedPromotion
    <3> QED
      BY <3>1, FlagEditStands
  <2> QED
    BY <2>1, <2>2
<1> QED
  BY <1>1, <1>2, <1>3

(* A handler that leaves the lines, and what is wanted and refused, alone. *)
LEMMA HeadEditStands ==
  ASSUME PricingAssumption, PricingTyped, AsDecided,
         NEW l \in Lists \cup {NoList}, NEW explicit, NEW customer,
         NEW d, d = [lines |-> draft.lines, list |-> l, explicit |-> explicit,
                     customer |-> customer, order |-> draft.order,
                     vetoed |-> draft.vetoed, optedIn |-> draft.optedIn],
         Recompute(d)
  PROVE  Stands
<1>1. IsCart(draft)
  BY DEF PricingTyped, IsSale
<1>2. IsSale(d) /\ d.lines = draft.lines /\ d.optedIn \cap d.vetoed = {}
  BY <1>1 DEF IsSale, IsCart, AsDecided
<1> QED
  BY <1>2, EditStands

(* assignCustomer.                                                         *)
LEMMA AssignCustomerStands ==
  ASSUME PricingAssumption, PricingTyped, AsDecided, NEW c \in Customers, AssignCustomer(c)
  PROVE  Stands
<1> PICK l : l = IF draft.explicit \/ ListOf[c] = NoList THEN draft.list ELSE ListOf[c]
  OBVIOUS
<1> PICK old : old = draft
  OBVIOUS
<1> PICK d : d = [old EXCEPT !.customer = c, !.list = l]
  OBVIOUS
<1>1. l \in Lists \cup {NoList}
  BY DEF PricingAssumption, PricingTyped, IsSale
<1>2. d = [lines |-> old.lines, list |-> l, explicit |-> old.explicit,
           customer |-> c, order |-> old.order,
           vetoed |-> old.vetoed, optedIn |-> old.optedIn]
  <2>1. old = [lines |-> old.lines, list |-> old.list, explicit |-> old.explicit,
               customer |-> old.customer, order |-> old.order,
               vetoed |-> old.vetoed, optedIn |-> old.optedIn]
    BY DEF PricingTyped, IsSale
  <2> QED
    BY <2>1
<1>3. Recompute(d)
  BY DEF AssignCustomer
<1> QED
  BY <1>1, <1>2, <1>3, HeadEditStands

(* setSalePriceList.                                                       *)
LEMMA SetSalePriceListStands ==
  ASSUME PricingAssumption, PricingTyped, AsDecided, NEW l \in Lists \cup {NoList},
         SetSalePriceList(l)
  PROVE  Stands
<1> PICK old : old = draft
  OBVIOUS
<1> PICK d : d = [old EXCEPT !.list = l, !.explicit = TRUE]
  OBVIOUS
<1>2. d = [lines |-> old.lines, list |-> l, explicit |-> TRUE,
           customer |-> old.customer, order |-> old.order,
           vetoed |-> old.vetoed, optedIn |-> old.optedIn]
  <2>1. old = [lines |-> old.lines, list |-> old.list, explicit |-> old.explicit,
               customer |-> old.customer, order |-> old.order,
               vetoed |-> old.vetoed, optedIn |-> old.optedIn]
    BY DEF PricingTyped, IsSale
  <2> QED
    BY <2>1
<1>3. Recompute(d)
  BY DEF SetSalePriceList
<1> QED
  BY <1>2, <1>3, HeadEditStands

(* A handler that saves an edit as it is, and grants no promotion by it.   *)
LEMMA SavedEditStands ==
  ASSUME PricingTyped, AsDecided, NEW d, IsSale(d), Save(d),
         d.optedIn = draft.optedIn, d.vetoed = draft.vetoed, d.order = draft.order,
         \A w \in DOMAIN d.lines : \/ d.lines[w].promo = NoPromotion
                                   \/ w \in InCart /\ d.lines[w] = draft.lines[w],
         \A w \in InCart \cap DOMAIN d.lines :
           AimedAt(w) \/ OwnPrice(d.lines[w]) = OwnPrice(draft.lines[w])
  PROVE  Stands
<1>1. AppliedPromotions(d) \subseteq AppliedPromotions(draft)
  BY DEF AppliedPromotions, InCart
<1>2. PricingTyped' /\ AsDecided'
  BY <1>1, SaveKeeps DEF AsDecided
<1>3. draft' = d
  BY DEF Save
<1>4. PricesStay
  BY <1>3 DEF PricesStay, InCart
<1>5. FreshInv'
  BY DEF FreshInv, Save
<1> QED
  BY <1>2, <1>4, <1>5 DEF Stands

(* clearItems, which does not recompute.                                   *)
LEMMA ClearItemsStands ==
  ASSUME PricingTyped, AsDecided, ClearItems
  PROVE  Stands
<1> PICK d : d = [draft EXCEPT !.lines = <<>>]
  OBVIOUS
<1>1. IsSale(draft)
  BY DEF PricingTyped
<1>2. DOMAIN <<>> = {}
  OBVIOUS
<1>3. /\ IsSale(d) /\ d.optedIn = draft.optedIn /\ d.vetoed = draft.vetoed
      /\ d.order = draft.order /\ DOMAIN d.lines = {}
  BY <1>1, <1>2, WithLinesIs
<1>4. Save(d)
  BY DEF ClearItems
<1> QED
  BY <1>3, <1>4, SavedEditStands

(* applyItemDiscount, which does not recompute.                            *)
LEMMA ApplyItemDiscountStands ==
  ASSUME PricingAssumption, PricingTyped, AsDecided,
         NEW w \in Wares, NEW discount \in HandCuts, ApplyItemDiscount(w, discount)
  PROVE  Stands
<1> PICK old : old = draft.lines[w]
  OBVIOUS
<1> PICK line : line = Discounted(old, discount, NoPromotion)
  OBVIOUS
<1> PICK d : d = WithLine(draft, w, line)
  OBVIOUS
<1>1. IsSale(draft) /\ w \in InCart /\ Grantable(old, discount)
  BY DEF PricingTyped, ApplyItemDiscount
<1>2. line \in LineType /\ line.promo = NoPromotion
  <2>1. old \in LineType
    BY <1>1 DEF IsSale, IsCart, InCart
  <2>2. discount.percent \in Nat /\ discount.off \in Nat /\ NoPromotion \in Nat
    BY DEF PricingAssumption, Discounts, NoPromotion
  <2> QED
    BY <1>1, <2>1, <2>2, DiscountedIs
<1>3. /\ IsSale(d) /\ d.optedIn = draft.optedIn /\ d.vetoed = draft.vetoed
      /\ d.order = draft.order /\ DOMAIN d.lines = DOMAIN draft.lines \cup {w}
      /\ d.lines[w] = line
      /\ \A v \in DOMAIN draft.lines \ {w} : d.lines[v] = draft.lines[v]
  BY <1>1, <1>2, WithLineIs
<1>4. Save(d)
  BY DEF ApplyItemDiscount
<1>5. AimedAt(w)
  BY DEF AimedAt
<1> QED
  BY <1>1, <1>2, <1>3, <1>4, <1>5, SavedEditStands DEF InCart

(* applyGlobalDiscount, which does not recompute.                          *)
LEMMA ApplyGlobalDiscountStands ==
  ASSUME PricingAssumption, PricingTyped, AsDecided,
         NEW discount \in HandCuts, NEW skip \in BOOLEAN, ApplyGlobalDiscount(discount, skip)
  PROVE  Stands
<1> DEFINE chosen == {w \in InCart : skip => draft.lines[w].pre = Unset}
<1> PICK granted : granted = {w \in chosen : Grantable(draft.lines[w], discount)}
  OBVIOUS
<1> PICK lines : lines = [w \in InCart |-> IF w \in granted
                                           THEN Discounted(draft.lines[w], discount, NoPromotion)
                                           ELSE draft.lines[w]]
  OBVIOUS
<1> PICK d : d = [draft EXCEPT !.lines = lines]
  OBVIOUS
<1>1. IsSale(draft)
  BY DEF PricingTyped
<1>2. /\ DOMAIN lines = InCart
      /\ \A w \in InCart : lines[w] \in LineType
                           /\ (lines[w].promo = NoPromotion \/ lines[w] = draft.lines[w])
  <2>1. ASSUME NEW w \in InCart
        PROVE  lines[w] \in LineType /\ (lines[w].promo = NoPromotion \/ lines[w] = draft.lines[w])
    <3> PICK old : old = draft.lines[w]
      OBVIOUS
    <3>1. old \in LineType
      BY <1>1 DEF IsSale, IsCart, InCart
    <3>2. discount.percent \in Nat /\ discount.off \in Nat /\ NoPromotion \in Nat
      BY DEF PricingAssumption, Discounts, NoPromotion
    <3>3. CASE w \in granted
      <4>1. Grantable(old, discount)
        BY <3>3
      <4>2. lines[w] = Discounted(old, discount, NoPromotion)
        BY <3>3
      <4> QED
        BY <3>1, <3>2, <4>1, <4>2, DiscountedIs
    <3>4. CASE w \notin granted
      BY <3>1, <3>4
    <3> QED
      BY <3>3, <3>4
  <2> QED
    BY <2>1
<1>3. InCart \subseteq Wares
  BY <1>1 DEF IsSale, IsCart, InCart
<1>4. /\ IsSale(d) /\ d.optedIn = draft.optedIn /\ d.vetoed = draft.vetoed
      /\ d.order = draft.order /\ d.lines = lines
  BY <1>1, <1>2, <1>3, WithLinesIs
<1>5. Save(d)
  BY DEF ApplyGlobalDiscount
<1>6. \A w : AimedAt(w)
  BY DEF AimedAt
<1> QED
  BY <1>2, <1>4, <1>5, <1>6, SavedEditStands

(* removeGlobalDiscount.                                                   *)
LEMMA RemoveGlobalDiscountStands ==
  ASSUME PricingAssumption, PricingTyped, AsDecided, RemoveGlobalDiscount
  PROVE  Stands
<1> PICK lines : lines = [w \in InCart |-> WithoutDiscount(draft.lines[w])]
  OBVIOUS
<1> PICK d : d = [draft EXCEPT !.lines = lines]
  OBVIOUS
<1>1. IsSale(draft)
  BY DEF PricingTyped
<1>2. /\ DOMAIN lines = InCart
      /\ \A w \in InCart : lines[w] \in LineType /\ lines[w].promo = NoPromotion
  <2>1. ASSUME NEW w \in InCart PROVE lines[w] \in LineType /\ lines[w].promo = NoPromotion
    <3> PICK old : old = draft.lines[w]
      OBVIOUS
    <3>1. old \in LineType
      BY <1>1 DEF IsSale, IsCart, InCart
    <3>2. lines[w] = WithoutDiscount(old)
      OBVIOUS
    <3> QED
      BY <3>1, <3>2, UndiscountedIs
  <2> QED
    BY <2>1
<1>3. InCart \subseteq Wares
  BY <1>1 DEF IsSale, IsCart, InCart
<1>4. /\ IsSale(d) /\ d.optedIn = draft.optedIn /\ d.vetoed = draft.vetoed
      /\ d.order = draft.order /\ d.lines = lines
  BY <1>1, <1>2, <1>3, WithLinesIs
<1>5. Save(d)
  BY DEF RemoveGlobalDiscount
<1>6. \A w : AimedAt(w)
  BY DEF AimedAt
<1> QED
  BY <1>2, <1>4, <1>5, <1>6, SavedEditStands

(* clearCustomer, which does not recompute.                                *)
LEMMA ClearCustomerStands ==
  ASSUME PricingTyped, AsDecided, ClearCustomer
  PROVE  Stands
<1> PICK d : d = [draft EXCEPT !.customer = NoCustomer]
  OBVIOUS
<1>1. IsSale(draft)
  BY DEF PricingTyped
<1>2. d = [lines |-> draft.lines, list |-> draft.list, explicit |-> draft.explicit,
           customer |-> NoCustomer, order |-> draft.order,
           vetoed |-> draft.vetoed, optedIn |-> draft.optedIn]
  BY <1>1 DEF IsSale
<1>3. /\ IsSale(d) /\ d.optedIn = draft.optedIn /\ d.vetoed = draft.vetoed
      /\ d.order = draft.order /\ d.lines = draft.lines
  BY <1>1, <1>2 DEF IsSale, IsCart
<1>4. Save(d)
  BY DEF ClearCustomer
<1> QED
  BY <1>3, <1>4, SavedEditStands DEF InCart

-----------------------------------------------------------------------------
(* What happens elsewhere, and the charge. *)

(* A catalogue with a price raised is a catalogue.                         *)
LEMMA RaisePriceIs ==
  ASSUME PricingAssumption, PricingTyped, NEW l \in Lists, NEW w \in Wares, NEW k,
         RaisePrice(l, w, k)
  PROVE  IsCatalogue(prices')
<1>1. w \in DOMAIN prices[l] /\ k \in DOMAIN prices[l][w]
  BY DEF RaisePrice
<1> PICK old : old = prices
  OBVIOUS
<1> PICK new : new = prices'
  OBVIOUS
<1>2. IsCatalogue(old)
  BY DEF PricingTyped
<1>3. new = [old EXCEPT ![l][w][k] = @ + 1]
  BY DEF RaisePrice
<1> DEFINE cents == old[l][w][k] + 1
           tiers == [old[l][w] EXCEPT ![k] = cents]
           list == [old[l] EXCEPT ![w] = tiers]
<1>4. cents \in Nat
  BY <1>1, <1>2 DEF IsCatalogue
<1>5. new = [old EXCEPT ![l] = list]
  BY <1>1, <1>2, <1>3 DEF IsCatalogue
<1>6. /\ IsFiniteSet(DOMAIN tiers) /\ 1 \in DOMAIN tiers
      /\ \A j \in DOMAIN tiers : j \in Nat /\ tiers[j] \in Nat
  <2>1. DOMAIN tiers = DOMAIN old[l][w]
    OBVIOUS
  <2>2. \A j \in DOMAIN tiers : tiers[j] \in {cents, old[l][w][j]}
    OBVIOUS
  <2> HIDE DEF tiers, cents
  <2> QED
    BY <1>1, <1>2, <1>4, <2>1, <2>2 DEF IsCatalogue
<1> HIDE DEF tiers
<1>7. /\ DOMAIN list = DOMAIN old[l]
      /\ \A v \in DOMAIN list : \/ list[v] = old[l][v]
                                \/ list[v] = tiers
  OBVIOUS
<1> HIDE DEF list
<1>8. /\ DOMAIN new = DOMAIN old
      /\ \A m \in DOMAIN old : new[m] = old[m] \/ (m = l /\ new[m] = list)
  BY <1>5
<1>9. DOMAIN new = Lists /\ DOMAIN new[DefaultList] = Wares
  BY <1>2, <1>7, <1>8 DEF IsCatalogue, PricingAssumption
<1>10. ASSUME NEW m \in Lists, NEW v \in DOMAIN new[m]
       PROVE  /\ v \in Wares
              /\ IsFiniteSet(DOMAIN new[m][v]) /\ 1 \in DOMAIN new[m][v]
              /\ \A j \in DOMAIN new[m][v] : j \in Nat /\ new[m][v][j] \in Nat
  <2>1. v \in DOMAIN old[m] /\ (new[m][v] = old[m][v] \/ new[m][v] = tiers)
    BY <1>2, <1>7, <1>8 DEF IsCatalogue
  <2>2. CASE new[m][v] = old[m][v]
    BY <1>2, <2>1, <2>2 DEF IsCatalogue
  <2>3. CASE new[m][v] = tiers
    BY <1>2, <1>6, <2>1, <2>3 DEF IsCatalogue
  <2> QED
    BY <2>1, <2>2, <2>3
<1> QED
  BY <1>9, <1>10 DEF IsCatalogue

(* What others do while the draft is open.                                 *)
LEMMA ElsewhereStands ==
  ASSUME PricingAssumption, PricingTyped, AsDecided, FreshInv, Others, ~charged
  PROVE  Stands
<1>1. draft' = draft /\ promotions' = promotions
  BY DEF Others, RaisePrice, TakeUnit, ReturnUnit, EndPromotion, Elsewhere
<1>2. IsCatalogue(prices')
  <2>1. CASE prices' = prices
    BY <2>1 DEF PricingTyped
  <2>2. CASE \E l \in Lists, w \in Wares, k \in 1..MaxQuantity : RaisePrice(l, w, k)
    BY <2>2, RaisePriceIs
  <2> QED
    BY <2>1, <2>2 DEF Others, TakeUnit, ReturnUnit, EndPromotion
<1>3. live' \subseteq DOMAIN promotions
  BY DEF Others, RaisePrice, TakeUnit, ReturnUnit, EndPromotion, PricingTyped
<1>4. /\ DOMAIN left' = DOMAIN promotions
      /\ \A p \in DOMAIN promotions : left'[p] \in Nat \cup {Unlimited}
  <2>1. CASE left' = left
    BY <2>1 DEF PricingTyped
  <2>2. CASE \E p \in DOMAIN promotions : TakeUnit(p) \/ ReturnUnit(p)
    <3>1. PICK p \in DOMAIN promotions : TakeUnit(p) \/ ReturnUnit(p)
      BY <2>2
    <3>2. left[p] \in Nat \cup {Unlimited}
      BY DEF PricingTyped
    <3>3. \E n \in Nat : left' = [left EXCEPT ![p] = n]
      <4>1. CASE TakeUnit(p)
        <5>1. left[p] - 1 \in Nat
          BY <3>2, <4>1 DEF TakeUnit, Unlimited
        <5> QED
          BY <4>1, <5>1 DEF TakeUnit
      <4>2. CASE ReturnUnit(p)
        <5>1. left[p] + 1 \in Nat
          BY <3>2, <4>2 DEF ReturnUnit
        <5> QED
          BY <4>2, <5>1 DEF ReturnUnit
      <4> QED
        BY <3>1, <4>1, <4>2
    <3> QED
      BY <3>3 DEF PricingTyped
  <2> QED
    BY <2>1, <2>2 DEF Others, RaisePrice, EndPromotion
<1>5. PricingTyped'
  BY <1>1, <1>2, <1>3, <1>4 DEF PricingTyped
<1>6. AsDecided' /\ PricesStay
  BY <1>1 DEF AsDecided, AppliedPromotions, PricesStay
<1>7. FreshInv'
  BY ElsewhereIsFresh
<1> QED
  BY <1>5, <1>6, <1>7 DEF Stands

(* The charge.                                                             *)
LEMMA ChargeDraftStands ==
  ASSUME PricingAssumption, PricingTyped, AsDecided, ChargeDraft
  PROVE  Stands
<1> PICK d : d = draft
  OBVIOUS
<1>1. /\ IsSale(d) /\ d.optedIn \cap d.vetoed = {} /\ Applicable(Evaluated(d))
      /\ draft' = Recomputed(Evaluated(d)) /\ UNCHANGED outside
  BY DEF PricingTyped, AsDecided, ChargeDraft, ConfirmAs
<1>2. /\ PricingTyped' /\ AsDecided'
      /\ DOMAIN draft'.lines = DOMAIN d.lines
      /\ \A w \in DOMAIN d.lines : OwnPriceKept(d, w)
  BY <1>1, RecomputedKeeps
<1>3. PricesStay
  BY <1>2 DEF PricesStay, OwnPriceKept, InCart
<1>4. FreshInv'
  BY DEF ChargeDraft, ConfirmAs, FreshInv
<1> QED
  BY <1>2, <1>3, <1>4 DEF Stands

(* Any handler of the seller.                                              *)
LEMMA SellerStands ==
  ASSUME PricingAssumption, PricingTyped, AsDecided, Seller
  PROVE  Stands
<1>1. ASSUME NEW w \in Wares, NEW n \in 1..MaxQuantity, AddItem(w, n) \/ UpdateItemQuantity(w, n)
      PROVE  Stands
  BY <1>1, AddItemStands, UpdateItemQuantityStands
<1>2. ASSUME NEW w \in Wares, RemoveItem(w) \/ RemoveItemDiscount(w)
      PROVE  Stands
  BY <1>2, RemoveItemStands, RemoveItemDiscountStands
<1>3. ASSUME NEW w \in Wares, NEW l \in Lists, OverrideWithList(w, l)
      PROVE  Stands
  BY <1>3, OverrideWithListStands
<1>4. ASSUME NEW w \in Wares, NEW cents \in HandPrices, OverrideWithPrice(w, cents)
      PROVE  Stands
  BY <1>4, OverrideWithPriceStands
<1>5. ASSUME NEW w \in Wares, NEW discount \in HandCuts, ApplyItemDiscount(w, discount)
      PROVE  Stands
  BY <1>5, ApplyItemDiscountStands
<1>6. CASE ClearItems \/ RemoveGlobalDiscount \/ ClearCustomer
  BY <1>6, ClearItemsStands, RemoveGlobalDiscountStands, ClearCustomerStands
<1>7. ASSUME NEW discount \in HandCuts, NEW skip \in BOOLEAN, ApplyGlobalDiscount(discount, skip)
      PROVE  Stands
  BY <1>7, ApplyGlobalDiscountStands
<1>8. ASSUME NEW p \in DOMAIN promotions,
             ApplyManualPromotion(p) \/ RemoveManualPromotion(p) \/ RemoveAppliedPromotion(p)
      PROVE  Stands
  BY <1>8, PromotionEditStands
<1>9. ASSUME NEW c \in Customers, AssignCustomer(c) PROVE Stands
  BY <1>9, AssignCustomerStands
<1>10. ASSUME NEW l \in Lists \cup {NoList}, SetSalePriceList(l) PROVE Stands
  BY <1>10, SetSalePriceListStands
<1> QED
  BY <1>1, <1>2, <1>3, <1>4, <1>5, <1>6, <1>7, <1>8, <1>9, <1>10 DEF Seller

(* The inductive invariant.                                                *)
PricingInv == PricingTyped /\ AsDecided /\ FreshInv

(* Every step keeps the inductive invariant and the prices that the seller *)
(* made.                                                                   *)
LEMMA PricingStepStands ==
  ASSUME PricingAssumption, PricingInv, [PricingNext]_pricingVars
  PROVE  Stands
<1> USE DEF PricingInv
<1>1. CASE Seller
  BY <1>1, SellerStands
<1>2. CASE ~charged /\ Others
  BY <1>2, ElsewhereStands
<1>3. CASE ChargeDraft
  BY <1>3, ChargeDraftStands
<1>4. CASE UNCHANGED pricingVars
  <2> PICK l : l = left'
    OBVIOUS
  <2>1. /\ draft' = draft /\ prices' = prices /\ promotions' = promotions
        /\ live' = live /\ left' = left /\ fresh' = fresh /\ charged' = charged
    BY <1>4 DEF pricingVars
  <2>2. PricingTyped' /\ AsDecided' /\ PricesStay
    BY <2>1 DEF PricingTyped, AsDecided, AppliedPromotions, PricesStay
  <2>3. \A d : Settled(d)' <=> Settled(d)
    BY <2>1, SettledPrimed
  <2>4. \A d : Repeats(d)' <=> Repeats(d)
    BY <2>1, RepeatsPrimed, RepeatsNow
  <2>5. FreshInv'
    BY <2>1, <2>3, <2>4 DEF FreshInv
  <2> QED
    BY <2>2, <2>5 DEF Stands
<1> QED
  BY <1>1, <1>2, <1>3, <1>4 DEF PricingNext

(* Nothing is granted to an empty draft.                                   *)
LEMMA EmptyRepeats ==
  ASSUME PricingAssumption, PricingTyped, draft = EmptyDraft
  PROVE  Settled(EmptyDraft) /\ Repeats(EmptyDraft)
<1> PICK d : d = EmptyDraft
  OBVIOUS
<1>1. DOMAIN <<>> = {}
  OBVIOUS
<1>2. /\ d.lines = <<>> /\ d.optedIn = {} /\ d.order = NoOrder
      /\ d = [lines |-> <<>>, list |-> d.list, explicit |-> d.explicit, customer |-> d.customer,
              order |-> NoOrder, vetoed |-> d.vetoed, optedIn |-> {}]
  BY DEF EmptyDraft
<1>3. Settled(d)
  BY <1>1, <1>2 DEF Settled
<1> PICK clean : clean = Unpromoted(d)
  OBVIOUS
<1> PICK out : out = CapacityExcluded(clean)
  OBVIOUS
<1> PICK c : c = Candidates(out)
  OBVIOUS
<1> PICK e : e = Evaluation(c, clean)
  OBVIOUS
<1>4. \A f : DOMAIN f = {} /\ f = [x \in DOMAIN f |-> f[x]] => f = <<>>
  BY <1>1
<1>5. clean = [lines |-> <<>>, list |-> d.list, explicit |-> d.explicit, customer |-> d.customer,
               order |-> NoOrder, vetoed |-> d.vetoed, optedIn |-> {}]
  <2> PICK lines : lines = [w \in DOMAIN d.lines |-> Cleared(d.lines[w])]
    OBVIOUS
  <2>1. lines = <<>>
    BY <1>1, <1>2, <1>4
  <2>2. clean = [d EXCEPT !.lines = lines]
    BY DEF Unpromoted
  <2> QED
    BY <1>2, <2>1, <2>2
<1>6. clean.lines = <<>> /\ clean.optedIn = {}
  BY <1>5
<1>7. e.order = Nothing
  <2>1. AreCandidates(c) /\ IsCart(clean)
    BY <1>1, <1>6, CandidatesAre DEF IsCart
  <2> PICK r : r = e.order
    OBVIOUS
  <2> DEFINE results == [w \in DOMAIN clean.lines |-> LineResult(c, clean, w)]
             worthOf == [w \in DOMAIN clean.lines |-> Base(clean.lines[w]) * clean.lines[w].qty]
             restOf == [w \in DOMAIN clean.lines |-> worthOf[w] - TakenOff(c, clean.lines[w], results[w])]
             afterOf == SumFunctionOnSet(restOf, DOMAIN clean.lines)
             aimedOf == {q \in Admitted(c, clean) :
                          /\ c[q].type = "ORDER_DISCOUNT"
                          /\ \A w \in DOMAIN clean.lines : OnList(c[q], clean.lines[w])
                          /\ SumFunctionOnSet(worthOf, DOMAIN clean.lines) >= c[q].min
                          /\ afterOf > 0}
             grantsOf == [p \in aimedOf |-> Winner(p, Quantity(clean, DOMAIN clean.lines), UnitCut(c[p], afterOf))]
             winsOf == {x \in {grantsOf[p] : p \in aimedOf} : x.saving > 0}
  <2>2. OrderResult(c, clean, results) = BestOf(winsOf)
    BY Zenon DEF OrderResult
  <2>3. e.order = BestOf(winsOf)
    BY <2>2 DEF Evaluation
  <2>4. afterOf = 0
    BY <1>1, <1>6, SumOfNone
  <2>5. aimedOf = {}
    <3> HIDE DEF afterOf
    <3> QED
      BY <2>4
  <2>6. winsOf = {}
    <3> HIDE DEF aimedOf, grantsOf
    <3> QED
      BY <2>5
  <2> HIDE DEF winsOf
  <2> QED
    BY <2>3, <2>6 DEF BestOf
<1>8. Again(d) = [clean |-> clean, out |-> out, result |-> e]
  BY DEF Again, EvaluatedClean, Outcome
<1>9. Recomputed(Again(d)) = d
  <2> PICK x : x = Again(d)
    OBVIOUS
  <2> PICK lines : lines = [w \in DOMAIN clean.lines |-> Applied(clean.lines[w], e.lines[w])]
    OBVIOUS
  <2> PICK order : order = [promo |-> e.order.promo, cents |-> e.order.saving]
    OBVIOUS
  <2> PICK opted : opted = Targetable(clean)
    OBVIOUS
  <2>1. x.clean = clean /\ x.result = e
    BY <1>8
  <2>2. Recomputed(x) = [clean EXCEPT !.lines = lines, !.order = order, !.optedIn = opted]
    BY <2>1 DEF Recomputed
  <2>3. lines = <<>>
    BY <1>1, <1>4, <1>6
  <2>4. order = NoOrder
    BY <1>7 DEF Nothing, Winner, NoOrder
  <2>5. opted = {}
    BY <1>6 DEF Targetable
  <2> PICK S : S = {d.lines, d.list, d.explicit, d.customer, d.order, d.vetoed, d.optedIn}
    OBVIOUS
  <2>6. d \in [lines : S, list : S, explicit : S, customer : S, order : S, vetoed : S, optedIn : S]
    <3>1. d = [lines |-> d.lines, list |-> d.list, explicit |-> d.explicit, customer |-> d.customer,
               order |-> d.order, vetoed |-> d.vetoed, optedIn |-> d.optedIn]
      BY <1>2
    <3> QED
      BY <3>1
  <2>7. /\ d.lines = lines /\ d.order = order /\ d.optedIn = opted
        /\ Recomputed(x) = [d EXCEPT !.lines = lines, !.order = order, !.optedIn = opted]
    BY <1>2, <1>5, <2>2, <2>3, <2>4, <2>5
  <2>8. [d EXCEPT !.lines = lines, !.order = order, !.optedIn = opted] = d
    BY ONLY <2>6, <2>7
  <2> QED
    BY <2>7, <2>8
<1> QED
  BY <1>3, <1>9 DEF Repeats

(* The inductive invariant holds of an empty draft.                        *)
LEMMA PricingStarts ==
  ASSUME PricingAssumption, PricingInit
  PROVE  PricingInv
<1>1. DOMAIN <<>> = {}
  OBVIOUS
<1>2. draft = EmptyDraft
  BY DEF PricingInit
<1>3. IsSale(draft) /\ DOMAIN draft.lines = {}
  BY <1>1, <1>2 DEF EmptyDraft, IsSale, IsCart
<1>4. AreCandidates(promotions) /\ IsCatalogue(prices)
  BY DEF PricingInit, PricingAssumption, AreCandidates
<1>5. /\ live \subseteq DOMAIN promotions /\ DOMAIN left = DOMAIN promotions
      /\ \A p \in DOMAIN left : left[p] \in Nat \cup {Unlimited}
  BY <1>4 DEF PricingInit, AreCandidates, Offers
<1>6. AsDecided
  <2>1. draft.order.promo = NoPromotion /\ draft.vetoed = {} /\ draft.optedIn = {}
    BY <1>2 DEF EmptyDraft, NoOrder
  <2>2. AppliedPromotions(draft) = {}
    BY <1>3, <2>1 DEF AppliedPromotions
  <2> QED
    BY <2>1, <2>2 DEF AsDecided
<1>7. PricingTyped
  BY <1>3, <1>4, <1>5 DEF PricingTyped
<1>8. FreshInv
  BY <1>2, <1>7, EmptyRepeats DEF FreshInv
<1> QED
  BY <1>6, <1>7, <1>8 DEF PricingInv

(* What the seller decided stands: no promotion is applied against his     *)
(* veto, nor a manual one that he does not want, and the price he made for *)
(* a line changes only by what he does to it, whatever the engine, the     *)
(* lists and the customer make of the rest (repriceNonStickyLines,         *)
(* pos-evaluate-promotions).                                               *)
THEOREM SellersDecisionsStand == PricingSpec => SellerDecides
<1>1. PricingInit => PricingInv
  BY PricingAssumption, PricingStarts
<1>2. PricingInv /\ [PricingNext]_pricingVars => PricingInv' /\ AsDecided' /\ PricesStay
  BY PricingAssumption, PricingStepStands DEF Stands, PricingInv
<1> QED
  BY <1>1, <1>2, PTL DEF PricingSpec, SellerDecides

-----------------------------------------------------------------------------
(* The prices of a charge. *)

(* A price that one of a line's lists has.                                 *)
Listed(d, w, line) ==
  \/ line.source = "custom"
  \/ \E l \in {line.list, d.list, DefaultList} \cap Lists :
       /\ w \in DOMAIN prices[l]
       /\ \E k \in DOMAIN prices[l][w] : Base(line) = prices[l][w][k]

(* The price for a quantity is in the list.                                *)
LEMMA TierIsListed ==
  ASSUME PricingTyped, NEW l \in Lists, NEW w \in DOMAIN prices[l], NEW n
  PROVE  \E k \in DOMAIN prices[l][w] : EffectivePrice(prices[l][w], n) = prices[l][w][k]
<1> PICK tiers : tiers = prices[l][w]
  OBVIOUS
<1>1. /\ IsFiniteSet(DOMAIN tiers) /\ 1 \in DOMAIN tiers
      /\ \A k \in DOMAIN tiers : k \in Nat /\ tiers[k] \in Nat
  BY DEF PricingTyped, IsCatalogue
<1>2. TierFor(tiers, n) \in DOMAIN tiers
  BY <1>1, EffectivePriceIsListed
<1> QED
  BY <1>2 DEF EffectivePrice

(* What the charge validates, or reprices, is a price of today.            *)
LEMMA CleanIsListed ==
  ASSUME PricingAssumption, PricingTyped, NEW w \in InCart, PriceStands(w)
  PROVE  Listed(draft, w, Repriced(draft, w, Cleared(draft.lines[w])))
<1> PICK old : old = draft.lines[w]
  OBVIOUS
<1> PICK line : line = Cleared(old)
  OBVIOUS
<1> PICK new : new = Repriced(draft, w, line)
  OBVIOUS
<1>1. IsSale(draft) /\ old \in LineType /\ w \in Wares
  BY DEF PricingTyped, IsSale, IsCart, InCart
<1>2. /\ line \in LineType /\ line.promo = NoPromotion
      /\ line.source = old.source /\ line.list = old.list /\ Base(line) = Base(old)
      /\ ByHand(line) <=> ByHand(old)
  BY <1>1, ClearedIs
<1>3. ListFor(draft, line) \in {line.list, draft.list, DefaultList} \cap Lists
  BY <1>1, <1>2, ListForIsList DEF ListFor, SaleList
<1>4. CASE Keeps(draft, w, line)
  <2>1. new = line
    BY <1>1, <1>2, <1>4, RepricedIs
  <2>2. old.source = "custom" \/ StandsAtPrice(w)
    BY DEF PriceStands
  <2>3. ASSUME StandsAtPrice(w) PROVE Listed(draft, w, line)
    <3>1. CASE old.source = "price_list" /\ (old.list # NoList \/ draft.list # NoList)
      <4>1. /\ w \in DOMAIN prices[ListFor(draft, line)]
            /\ Base(line) = EffectivePrice(prices[ListFor(draft, line)][w], old.qty)
        BY <1>2, <2>3, <3>1 DEF StandsAtPrice, ListFor
      <4> QED
        BY <1>3, <4>1, TierIsListed DEF Listed
    <3>2. CASE ~(old.source = "price_list" /\ (old.list # NoList \/ draft.list # NoList))
      <4>1. Base(line) = prices[DefaultList][w][1]
        BY <1>2, <2>3, <3>2 DEF StandsAtPrice
      <4>2. DefaultList \in Lists /\ w \in DOMAIN prices[DefaultList]
            /\ 1 \in DOMAIN prices[DefaultList][w]
        BY <1>1 DEF PricingAssumption, PricingTyped, IsCatalogue
      <4> QED
        BY <4>1, <4>2 DEF Listed
    <3> QED
      BY <3>1, <3>2
  <2>4. ASSUME old.source = "custom" PROVE Listed(draft, w, line)
    BY <1>2, <2>4 DEF Listed
  <2>5. Listed(draft, w, line)
    BY <2>2, <2>3, <2>4
  <2> QED
    BY <2>1, <2>5
<1>5. CASE ~Keeps(draft, w, line)
  <2> PICK cents : cents = EffectivePrice(prices[ListFor(draft, line)][w], line.qty)
    OBVIOUS
  <2>1. new = [qty |-> line.qty, price |-> cents, source |-> "price_list", list |-> line.list,
               pre |-> Unset, cut |-> line.cut, promo |-> NoPromotion]
    BY <1>1, <1>2, <1>5, RepricedIs
  <2>2. Base(new) = cents /\ new.list = line.list
    BY <2>1 DEF Base
  <2>3. w \in DOMAIN prices[ListFor(draft, line)]
    BY <1>5 DEF Keeps
  <2>4. \E k \in DOMAIN prices[ListFor(draft, line)][w] : cents = prices[ListFor(draft, line)][w][k]
    BY <1>3, <2>3, TierIsListed
  <2>5. Listed(draft, w, new)
    BY <1>3, <2>2, <2>3, <2>4 DEF Listed
  <2> QED
    BY <2>5
<1> QED
  BY <1>4, <1>5

(* The prices of a charge are those of the lists at that moment.           *)
LEMMA ChargeIsListed ==
  ASSUME PricingAssumption, PricingTyped, ChargeDraft
  PROVE  ChargedAtTodaysPrice'
<1> PICK d : d = draft
  OBVIOUS
<1> PICK new : new = draft'
  OBVIOUS
<1> DEFINE e == Evaluated(d)
<1>1. /\ IsSale(d) /\ Applicable(e) /\ new = Recomputed(e) /\ prices' = prices
      /\ \A w \in DOMAIN d.lines : PriceStands(w)
  BY DEF PricingTyped, ChargeDraft, ConfirmAs, outside, InCart
<1>2. /\ new.lines = [w \in DOMAIN d.lines |-> Applied(e.clean.lines[w], e.result.lines[w])]
      /\ new.list = d.list
      /\ \A w \in DOMAIN d.lines : Wins(e.clean.lines[w], e.result.lines[w])
  <2> DEFINE lines == [w \in DOMAIN d.lines |-> Applied(e.clean.lines[w], e.result.lines[w])]
             order == [promo |-> e.result.order.promo, cents |-> e.result.order.saving]
             opted == Targetable(e.clean)
  <2>1. /\ new = [lines |-> lines, list |-> d.list, explicit |-> d.explicit,
                  customer |-> d.customer, order |-> order,
                  vetoed |-> d.vetoed, optedIn |-> opted]
        /\ \A w \in DOMAIN d.lines : Wins(e.clean.lines[w], e.result.lines[w])
    BY <1>1, RecomputedIs
  <2>2. new.lines = lines /\ new.list = d.list
    <3> HIDE DEF e, lines, order, opted
    <3> QED
      BY <2>1
  <2> QED
    BY <2>1, <2>2
<1>3. e.clean = ClearedAndRepriced(d)
  BY DEF Evaluated, EvaluatedClean, Outcome
<1> PICK clean : clean = ClearedAndRepriced(d)
  OBVIOUS
<1>4. /\ IsSale(clean)
      /\ clean.lines = [w \in DOMAIN d.lines |-> Repriced(d, w, Cleared(d.lines[w]))]
      /\ \A w \in DOMAIN d.lines : clean.lines[w].promo = NoPromotion
  BY <1>1, CleanIs
<1>5. ASSUME NEW w \in DOMAIN d.lines PROVE Listed(new, w, new.lines[w])
  <2> PICK line : line = clean.lines[w]
    OBVIOUS
  <2> PICK r : r = e.result.lines[w]
    OBVIOUS
  <2>1. line \in LineType /\ line.promo = NoPromotion /\ Listed(d, w, line)
    <3>1. w \in DOMAIN clean.lines
      BY <1>4
    <3>2. line \in LineType /\ line.promo = NoPromotion
      BY <1>4, <3>1 DEF IsSale, IsCart
    <3>3. line = Repriced(draft, w, Cleared(draft.lines[w]))
      BY <1>4
    <3>4. Listed(draft, w, line)
      BY <1>1, <3>3, CleanIsListed DEF InCart
    <3> QED
      BY <3>2, <3>4
  <2>2. new.lines[w] = Applied(line, r) /\ Wins(line, r)
    BY <1>2, <1>3
  <2>3. AreCandidates(promotions)
    BY DEF PricingTyped
  <2> HIDE DEF e
  <2>4. /\ new.lines[w].source = line.source /\ new.lines[w].list = line.list
        /\ Base(new.lines[w]) = Base(line)
    BY <2>1, <2>2, <2>3, AppliedIs
  <2>5. new.list = d.list
    BY <1>2
  <2> QED
    BY ONLY <2>1, <2>4, <2>5 DEF Listed
<1>6. DOMAIN new.lines = DOMAIN d.lines
  BY <1>2
<1> HIDE DEF e
<1> QED
  BY <1>1, <1>5, <1>6 DEF ChargedAtTodaysPrice, Listed, InCart

(* Nothing but the charge confirms the sale.                               *)
LEMMA OnlyChargesCharge == Seller \/ Others => charged' = charged
BY DEF Seller, Others, AddItem, UpdateItemQuantity, RemoveItem, OverrideWithList,
   OverrideWithPrice, ApplyItemDiscount, RemoveItemDiscount, ClearItems, ApplyGlobalDiscount,
   RemoveGlobalDiscount, ApplyManualPromotion, RemoveManualPromotion, RemoveAppliedPromotion,
   AssignCustomer, ClearCustomer, SetSalePriceList, Recompute, Finish, Save, RaisePrice,
   TakeUnit, ReturnUnit, EndPromotion, Elsewhere

(* No line is charged from a price that none of its lists has at that      *)
(* moment, unless the seller made it, whatever was raised since the line   *)
(* was priced (PRICE_OUT_OF_DATE of executeChargeDraft, and the repricing  *)
(* that follows it).                                                       *)
THEOREM ChargesUseTodaysPrices == PricingSpec => []ChargedAtTodaysPrice
<1>1. PricingInit => PricingInv /\ ChargedAtTodaysPrice
  BY PricingAssumption, PricingStarts DEF PricingInit, ChargedAtTodaysPrice
<1>2. ASSUME PricingInv, ChargedAtTodaysPrice, [PricingNext]_pricingVars
      PROVE  PricingInv' /\ ChargedAtTodaysPrice'
  <2>1. PricingInv'
    BY <1>2, PricingAssumption, PricingStepStands DEF Stands, PricingInv
  <2>2. ChargedAtTodaysPrice'
    <3>1. CASE ChargeDraft
      BY <1>2, <3>1, PricingAssumption, ChargeIsListed DEF PricingInv
    <3>2. CASE ~charged /\ (Seller \/ Others)
      <4>1. charged' = charged
        BY <3>2, OnlyChargesCharge
      <4> QED
        BY <3>2, <4>1 DEF ChargedAtTodaysPrice
    <3>3. CASE UNCHANGED pricingVars
      BY <1>2, <3>3 DEF pricingVars, ChargedAtTodaysPrice, InCart
    <3> QED
      BY <1>2, <3>1, <3>2, <3>3 DEF PricingNext
  <2> QED
    BY <2>1, <2>2
<1> QED
  BY <1>1, <1>2, PTL DEF PricingSpec

(* A draft that was recomputed last is charged as it is shown, or not at   *)
(* all, whatever prices were raised and whatever units others took since,  *)
(* with the exceptions that the property names: the repricing of the       *)
(* charge changes no price that PRICE_OUT_OF_DATE lets pass, and its       *)
(* passes end where those of the preview did unless an exhausted promotion *)
(* refuses it (executeChargeDraft, pos-evaluate-promotions).               *)
THEOREM FreshDraftsAreChargedAsShown == PricingSpec => FreshPreviewIsCharged
<1>1. PricingInit => PricingInv
  BY PricingAssumption, PricingStarts
<1>2. PricingInv /\ [PricingNext]_pricingVars => PricingInv'
  BY PricingAssumption, PricingStepStands DEF Stands, PricingInv
<1>3. ASSUME PricingInv, [PricingNext]_pricingVars, charged', ~charged, fresh
      PROVE  draft' = draft
  <2>1. ChargeDraft
    <3>1. CASE Seller \/ Others
      BY <1>3, <3>1, OnlyChargesCharge
    <3>2. CASE UNCHANGED pricingVars
      BY <1>3, <3>2 DEF pricingVars
    <3> QED
      BY <1>3, <3>1, <3>2 DEF PricingNext
  <2> PICK d : d = draft
    OBVIOUS
  <2>2. Settled(d) /\ Repeats(d)
    BY <1>3 DEF PricingInv, FreshInv
  <2>3. /\ \A w \in InCart : PriceStands(w)
        /\ QuoteStands(Evaluated(d))
        /\ draft' = Recomputed(Evaluated(d))
    BY <2>1 DEF ChargeDraft, ConfirmAs
  <2>4. ClearedAndRepriced(d) = Unpromoted(d)
    BY <1>3, <2>2, <2>3, PricingAssumption, SettledIsClean DEF PricingInv
  <2>5. Evaluated(d) = Again(d)
    BY <2>4 DEF Evaluated, EvaluatedClean, Outcome, Again
  <2>6. AppliedPromotions(d) \cap Again(d).out = {}
    BY <2>3, <2>5 DEF QuoteStands
  <2> QED
    BY <2>2, <2>3, <2>5, <2>6 DEF Repeats
<1> QED
  BY <1>1, <1>2, <1>3, PTL DEF PricingSpec, FreshPreviewIsCharged

=============================================================================
