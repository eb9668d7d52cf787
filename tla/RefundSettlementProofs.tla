----------------------- MODULE RefundSettlementProofs -----------------------
(***************************************************************************)
(* Proofs about RefundSettlement, for any number of handlers, keys, bodies *)
(* and slot tokens.  The invariants of the run are not inductive alone:    *)
(* Custody adds which values a handler and a slot hold in each state, from *)
(* which it follows that a stamp meets a slot that nothing was paid under. *)
(***************************************************************************)
EXTENDS RefundSettlement, TLAPS

Holding(p) == pc[p] \in {"acquired", "failed"}

(* What a handler carries and what a slot carries, state by state.         *)
Custody ==
  /\ \A p \in Procs :
       /\ Holding(p) => /\ task[p].key \in Keys
                        /\ task[p].body \in Bodies
                        /\ task[p].token \in Tokens
       /\ pc[p] = "reclaimed" => /\ task[p].key \in Keys
                                 /\ task[p].body \in Bodies
       /\ ~Holding(p) => task[p].token = NoToken
  /\ \A k \in Keys :
       IF slots[k].status = "FREE"
         THEN slots[k].token = NoToken
         ELSE slots[k].token \in Tokens /\ slots[k].body \in Bodies
  /\ answers \subseteq [key : Keys, response : Response]

Inv ==
  /\ TypeOK
  /\ Custody
  /\ NeverOverpaid
  /\ PaidOncePerKey
  /\ AnswerFitsRequest
  /\ OneOwner

(* What a step from an inductive state does: it keeps the invariant and    *)
(* leaves every stamped slot as it is.                                     *)
Stamped == \A k \in Keys : slots[k].status = "SUCCEEDED" => slots'[k] = slots[k]

Kept == Inv' /\ Stamped

SlotRow == [status : {"FREE", "IN_FLIGHT", "SUCCEEDED"},
            token : Tokens \cup {NoToken}, body : Bodies \cup {NoBody},
            expired : BOOLEAN, response : Response]

TaskRow == [key : Keys \cup {NoKey}, body : Bodies \cup {NoBody},
            token : Tokens \cup {NoToken}]

(* The two sentinels are rows of their tables.                             *)
LEMMA SentinelsAreRows == FreeSlot \in SlotRow /\ NoTask \in TaskRow
BY DEF FreeSlot, NoTask, SlotRow, TaskRow, Response, NoResponse

-----------------------------------------------------------------------------
(* The invariant holds before the first request.                           *)
LEMMA InvAtFirst == Init => Inv
<1> SUFFICES ASSUME Init PROVE Inv
  OBVIOUS
<1> USE DEF Init
<1>1. TypeOK
  <2>1. slots \in [Keys -> SlotRow] /\ task \in [Procs -> TaskRow]
    BY SentinelsAreRows
  <2> QED
    BY <2>1, SettlementAssumption DEF TypeOK, SlotRow, TaskRow
<1>2. Custody
  BY DEF Custody, Holding, FreeSlot, NoTask
<1>3. NeverOverpaid /\ PaidOncePerKey
  BY SettlementAssumption DEF NeverOverpaid, PaidOncePerKey, FreeSlot
<1>4. AnswerFitsRequest /\ OneOwner
  BY DEF AnswerFitsRequest, OneOwner, FreeSlot
<1> QED
  BY <1>1, <1>2, <1>3, <1>4 DEF Inv

(* A handler that leaves keeps nothing; what is claimed of handlers still  *)
(* holds.                                                                  *)
LEMMA LeaveKeeps ==
  ASSUME Inv, NEW p \in Procs, Leave(p), UNCHANGED <<refundVars, slots>>,
         answers' = answers \/ \E k \in Keys : Replayable(k, slots[k].body)
                                 /\ Answer(k, slots[k].response)
  PROVE  Kept
<1> USE DEF Inv, Leave, refundVars
<1>1. answers' \subseteq [key : Keys, response : Response]
  BY DEF Custody, Answer, TypeOK
<1>2. pc' \in [Procs -> {"idle", "reclaimed", "acquired", "failed"}]
      /\ task' \in [Procs -> TaskRow]
  BY SentinelsAreRows DEF TypeOK, TaskRow
<1>3. TypeOK'
  BY <1>2 DEF TypeOK, TaskRow
<1>4. Custody'
  BY <1>1 DEF Custody, Holding, NoTask, TypeOK
<1>5. (NeverOverpaid /\ PaidOncePerKey)' /\ Stamped
  BY DEF NeverOverpaid, PaidOncePerKey, Stamped
<1>6. AnswerFitsRequest'
  BY DEF AnswerFitsRequest, Answer, Replayable
<1>7. OneOwner'
  <2>1. \A q \in Procs : pc'[q] \in {"acquired", "failed"} =>
          q # p /\ pc[q] = pc'[q] /\ task'[q] = task[q] /\ task[q].token \in Tokens
    BY DEF TypeOK, Custody, Holding
  <2>2. task'[p].token = NoToken
    BY DEF TypeOK, NoTask
  <2>3. \A q \in Procs : q # p => task'[q] = task[q]
    BY DEF TypeOK
  <2> QED
    BY <2>1, <2>2, <2>3, SettlementAssumption DEF OneOwner
<1> QED
  BY <1>3, <1>4, <1>5, <1>6, <1>7 DEF Kept

-----------------------------------------------------------------------------
(* The row of a slot is inserted with a token nobody knows.                *)
LEMMA InsertKeeps ==
  ASSUME Inv, NEW p \in Procs, NEW k \in Keys, NEW body \in Bodies,
         pc[p] \in {"idle", "reclaimed"}, Insert(p, k, body)
  PROVE  Kept
<1> PICK t \in Tokens :
      /\ Fresh(t)
      /\ slots' = [slots EXCEPT ![k] = [FreeSlot EXCEPT !.status = "IN_FLIGHT",
                                                        !.token = t, !.body = body]]
      /\ task' = [task EXCEPT ![p] = [key |-> k, body |-> body, token |-> t]]
  BY DEF Insert
<1> DEFINE row == [FreeSlot EXCEPT !.status = "IN_FLIGHT", !.token = t, !.body = body]
           work == [key |-> k, body |-> body, token |-> t]
<1>1. row.status = "IN_FLIGHT" /\ row.token = t /\ row.body = body /\ row \in SlotRow
  BY SentinelsAreRows DEF FreeSlot, SlotRow
<1>2. work.key = k /\ work.body = body /\ work.token = t /\ work \in TaskRow
  BY DEF TaskRow
<1> HIDE DEF row, work
<1>3. /\ slots' = [slots EXCEPT ![k] = row]
      /\ task' = [task EXCEPT ![p] = work]
      /\ pc' = [pc EXCEPT ![p] = "acquired"]
      /\ slots[k].status = "FREE"
      /\ UNCHANGED <<amount, settled, ledger, rows, answers>>
  BY DEF Insert, row, work, refundVars
<1>4. slots \in [Keys -> SlotRow] /\ task \in [Procs -> TaskRow]
      /\ pc \in [Procs -> {"idle", "reclaimed", "acquired", "failed"}]
  BY DEF Inv, TypeOK, SlotRow, TaskRow
<1>5. TypeOK'
  <2>1. slots' \in [Keys -> SlotRow] /\ task' \in [Procs -> TaskRow]
        /\ pc' \in [Procs -> {"idle", "reclaimed", "acquired", "failed"}]
    BY <1>1, <1>2, <1>3, <1>4
  <2> QED
    BY <2>1, <1>3 DEF Inv, TypeOK, SlotRow, TaskRow
<1>6. Custody'
  BY <1>1, <1>2, <1>3, <1>4 DEF Inv, Custody, Holding
<1>7. (NeverOverpaid /\ PaidOncePerKey)' /\ Stamped
  BY <1>1, <1>3, <1>4 DEF Inv, NeverOverpaid, PaidOncePerKey, Stamped
<1>8. AnswerFitsRequest'
  BY <1>1, <1>3, <1>4 DEF Inv, AnswerFitsRequest, Custody
<1>9. OneOwner'
  <2>1. /\ \A q \in Procs \ {p} : task'[q] = task[q] /\ pc'[q] = pc[q]
        /\ \A j \in Keys \ {k} : slots'[j] = slots[j]
        /\ task'[p] = work /\ slots'[k] = row
    BY <1>3, <1>4
  <2>2. /\ \A q \in Procs : task[q].token # t
        /\ \A j \in Keys : slots[j].token # t
    BY DEF Fresh
  <2> QED
    BY <2>1, <2>2, <1>1, <1>2 DEF Inv, OneOwner
<1> QED
  BY <1>5, <1>6, <1>7, <1>8, <1>9 DEF Kept, Inv

(* A slot in flight is freed, by the take-over or by a release: nothing    *)
(* was paid or answered under it.                                          *)
LEMMA FreeKeeps ==
  ASSUME Inv, NEW k \in Keys, slots[k].status = "IN_FLIGHT",
         slots' = [slots EXCEPT ![k] = FreeSlot],
         UNCHANGED <<refundVars, answers>>
  PROVE  /\ slots' \in [Keys -> SlotRow]
         /\ Stamped
         /\ (NeverOverpaid /\ PaidOncePerKey /\ AnswerFitsRequest)'
         /\ answers' \subseteq [key : Keys, response : Response]
         /\ \A j \in Keys :
              /\ slots'[j].token \in {slots[j].token, NoToken}
              /\ slots'[j].token # NoToken => slots'[j] = slots[j]
              /\ IF slots'[j].status = "FREE"
                   THEN slots'[j].token = NoToken
                   ELSE slots'[j].token \in Tokens /\ slots'[j].body \in Bodies
<1>1. slots \in [Keys -> SlotRow]
  BY DEF Inv, TypeOK, SlotRow
<1>2. FreeSlot.status = "FREE" /\ FreeSlot.token = NoToken /\ FreeSlot \in SlotRow
  BY SentinelsAreRows DEF FreeSlot
<1>3. slots'[k] = FreeSlot /\ \A j \in Keys \ {k} : slots'[j] = slots[j]
  BY <1>1
<1>4. slots' \in [Keys -> SlotRow]
  BY <1>1, <1>2
<1>5. Stamped /\ (NeverOverpaid /\ PaidOncePerKey)'
  BY <1>2, <1>3 DEF Inv, Stamped, NeverOverpaid, PaidOncePerKey, refundVars
<1>6. AnswerFitsRequest'
  BY <1>2, <1>3 DEF Inv, AnswerFitsRequest, Custody, refundVars
<1> QED
  BY <1>2, <1>3, <1>4, <1>5, <1>6 DEF Inv, Custody

(* The take-over: the former owner still has its token, no slot does.      *)
LEMMA ReclaimKeeps ==
  ASSUME Inv, NEW p \in Procs, NEW k \in Keys, NEW body \in Bodies,
         Reclaim(p, k, body)
  PROVE  Kept
<1> DEFINE work == [key |-> k, body |-> body, token |-> NoToken]
<1>1. work.key = k /\ work.body = body /\ work.token = NoToken /\ work \in TaskRow
  BY DEF TaskRow
<1> HIDE DEF work
<1>2. /\ slots' = [slots EXCEPT ![k] = FreeSlot]
      /\ task' = [task EXCEPT ![p] = work]
      /\ pc' = [pc EXCEPT ![p] = "reclaimed"]
      /\ slots[k].status = "IN_FLIGHT"
      /\ UNCHANGED <<refundVars, answers>>
  BY DEF Reclaim, Reclaimable, work
<1>3. task \in [Procs -> TaskRow]
      /\ pc \in [Procs -> {"idle", "reclaimed", "acquired", "failed"}]
  BY DEF Inv, TypeOK, TaskRow
<1>4. task' \in [Procs -> TaskRow]
      /\ pc' \in [Procs -> {"idle", "reclaimed", "acquired", "failed"}]
  BY <1>1, <1>2, <1>3
<1>5. TypeOK'
  BY <1>2, <1>4, FreeKeeps DEF Inv, TypeOK, SlotRow, TaskRow, refundVars
<1>6. Custody'
  <2>1. \A q \in Procs : /\ Holding(q)' => q # p /\ Holding(q)
                         /\ q # p => task'[q] = task[q] /\ pc'[q] = pc[q]
    BY <1>2, <1>3 DEF Holding
  <2>2. task'[p] = work /\ pc'[p] = "reclaimed"
    BY <1>2, <1>3
  <2>3. \A q \in Procs : /\ Holding(q)' => /\ task'[q].key \in Keys
                                           /\ task'[q].body \in Bodies
                                           /\ task'[q].token \in Tokens
                         /\ pc'[q] = "reclaimed" => /\ task'[q].key \in Keys
                                                    /\ task'[q].body \in Bodies
                         /\ ~Holding(q)' => task'[q].token = NoToken
    BY <2>1, <2>2, <1>1 DEF Inv, Custody, Holding
  <2> QED
    BY <2>3, <1>2, FreeKeeps DEF Custody
<1>7. OneOwner'
  <2>1. \A q \in Procs \ {p} : task'[q] = task[q] /\ pc'[q] = pc[q]
    BY <1>2, <1>3
  <2>2. task'[p] = work /\ pc'[p] = "reclaimed"
    BY <1>2, <1>3
  <2>3. \A j \in Keys : slots'[j].token # NoToken => slots'[j] = slots[j]
    BY <1>2, FreeKeeps
  <2>4. NoToken \notin Tokens
    BY SettlementAssumption
  <2>5. \A q \in Procs : pc'[q] \in {"acquired", "failed"} =>
          q # p /\ task[q].token \in Tokens
    BY <2>1, <2>2 DEF Inv, Custody, Holding
  <2> QED
    BY <2>1, <2>2, <2>3, <2>4, <2>5, <1>1 DEF Inv, OneOwner
<1> QED
  BY <1>2, <1>5, <1>6, <1>7, FreeKeeps DEF Kept, Inv

(* Five minutes pass for one slot.                                         *)
LEMMA ExpireKeeps == ASSUME Inv, NEW k \in Keys, Expire(k) PROVE Kept
<1> DEFINE row == [slots[k] EXCEPT !.expired = TRUE]
<1>1. slots \in [Keys -> SlotRow] /\ slots[k].status = "IN_FLIGHT"
  BY DEF Inv, TypeOK, SlotRow, Expire
<1>2. row \in SlotRow /\ row.status = slots[k].status /\ row.token = slots[k].token
      /\ row.body = slots[k].body
  BY <1>1 DEF SlotRow
<1>3. slots' = [slots EXCEPT ![k] = row]
  BY DEF Expire
<1> HIDE DEF row
<1>4. slots'[k] = row /\ \A j \in Keys \ {k} : slots'[j] = slots[j]
  BY <1>1, <1>3
<1>5. slots' \in [Keys -> SlotRow]
  BY <1>1, <1>2, <1>3
<1> USE DEF Inv, Expire, refundVars
<1>6. TypeOK'
  BY <1>5 DEF TypeOK, SlotRow
<1>7. Custody'
  BY <1>1, <1>2, <1>4 DEF Custody, Holding
<1>8. (NeverOverpaid /\ PaidOncePerKey)' /\ Stamped
  BY <1>1, <1>2, <1>4 DEF NeverOverpaid, PaidOncePerKey, Stamped
<1>9. AnswerFitsRequest'
  BY <1>1, <1>2, <1>4 DEF AnswerFitsRequest, Custody
<1>10. OneOwner'
  BY <1>1, <1>2, <1>4 DEF OneOwner
<1> QED
  BY <1>6, <1>7, <1>8, <1>9, <1>10 DEF Kept

(* A refusal: the handler keeps its key and goes on to release it.         *)
LEMMA FailKeeps == ASSUME Inv, NEW p \in Procs, Fail(p) PROVE Kept
<1> USE DEF Inv, Fail, refundVars
<1>1. TypeOK'
  BY DEF TypeOK
<1>2. Custody'
  BY DEF Custody, Holding, TypeOK
<1>3. (NeverOverpaid /\ PaidOncePerKey /\ AnswerFitsRequest)' /\ Stamped
  BY DEF NeverOverpaid, PaidOncePerKey, AnswerFitsRequest, Stamped
<1>4. OneOwner'
  BY DEF OneOwner, TypeOK
<1> QED
  BY <1>1, <1>2, <1>3, <1>4 DEF Kept

(* The release: a slot still in flight under the token of the handler.     *)
LEMMA ReleaseKeeps == ASSUME Inv, NEW p \in Procs, Release(p) PROVE Kept
<1> DEFINE k == task[p].key
<1>1. /\ pc[p] = "failed" /\ k \in Keys
      /\ UNCHANGED <<refundVars, answers>> /\ Leave(p)
  BY DEF Release, Inv, Custody, Holding
<1>2. CASE ~Releases(p)
  BY <1>1, <1>2, LeaveKeeps DEF Release
<1>3. CASE Releases(p)
  <2>1. slots[k].status = "IN_FLIGHT" /\ slots' = [slots EXCEPT ![k] = FreeSlot]
    BY <1>3 DEF Release, Releases
  <2>2. task \in [Procs -> TaskRow]
        /\ pc \in [Procs -> {"idle", "reclaimed", "acquired", "failed"}]
    BY DEF Inv, TypeOK, TaskRow
  <2>3. /\ task'[p] = NoTask /\ pc'[p] = "idle" /\ NoTask.token = NoToken
        /\ \A q \in Procs \ {p} : task'[q] = task[q] /\ pc'[q] = pc[q]
    BY <1>1, <2>2 DEF Leave, NoTask
  <2>4. TypeOK'
    <3>1. task' \in [Procs -> TaskRow]
          /\ pc' \in [Procs -> {"idle", "reclaimed", "acquired", "failed"}]
      BY <1>1, <2>2, SentinelsAreRows DEF Leave
    <3> QED
      BY <3>1, <1>1, <2>1, FreeKeeps DEF Inv, TypeOK, SlotRow, TaskRow, refundVars
  <2>5. Custody'
    <3>1. \A q \in Procs : /\ Holding(q)' => /\ task'[q].key \in Keys
                                             /\ task'[q].body \in Bodies
                                             /\ task'[q].token \in Tokens
                           /\ pc'[q] = "reclaimed" => /\ task'[q].key \in Keys
                                                      /\ task'[q].body \in Bodies
                           /\ ~Holding(q)' => task'[q].token = NoToken
      BY <2>3 DEF Inv, Custody, Holding
    <3> QED
      BY <3>1, <1>1, <2>1, FreeKeeps DEF Custody
  <2>6. OneOwner'
    <3>1. \A j \in Keys : slots'[j].token # NoToken => slots'[j] = slots[j]
      BY <1>1, <2>1, FreeKeeps
    <3>2. NoToken \notin Tokens
      BY SettlementAssumption
    <3>3. \A q \in Procs : pc'[q] \in {"acquired", "failed"} =>
            q # p /\ task[q].token \in Tokens
      BY <2>3 DEF Inv, Custody, Holding
    <3> QED
      BY <2>3, <3>1, <3>2, <3>3 DEF Inv, OneOwner
  <2> QED
    BY <1>1, <2>1, <2>4, <2>5, <2>6, FreeKeeps DEF Kept, Inv
<1> QED
  BY <1>2, <1>3

(* The second attempt: the slot is inserted, or it is another's.           *)
LEMMA ReacquireKeeps == ASSUME Inv, NEW p \in Procs, Reacquire(p) PROVE Kept
<1> DEFINE k == task[p].key
           body == task[p].body
<1>1. k \in Keys /\ body \in Bodies /\ pc[p] = "reclaimed"
  BY DEF Reacquire, Inv, Custody
<1>2. CASE Insert(p, k, body)
  BY <1>1, <1>2, InsertKeeps
<1>3. CASE ~Insert(p, k, body)
  BY <1>1, <1>3, LeaveKeeps DEF Reacquire, Replayable
<1> QED
  BY <1>2, <1>3
-----------------------------------------------------------------------------
(* The money: a payment that fits what is outstanding, under a key nothing *)
(* was paid under, with a token that belongs to this slot only.            *)
LEMMA PayKeeps ==
  ASSUME Inv, NEW k \in Keys, NEW t \in Tokens, NEW body \in Bodies,
         slots[k].status # "SUCCEEDED", Pay(k, t, body)
  PROVE  /\ Stamped
         /\ (NeverOverpaid /\ PaidOncePerKey)'
         /\ amount' \in Nat \ {0} /\ settled' \in Nat /\ ledger' \in Nat
         /\ rows' \in [Keys -> Nat]
         /\ slots' \in [Keys -> SlotRow]
         /\ slots'[k].status = "SUCCEEDED" /\ slots'[k].token = t
         /\ slots'[k].body = body
         /\ slots'[k].response \in Response
         /\ slots'[k].response.amount = body.amount
         /\ slots'[k].response.settled <= ledger'
         /\ ledger <= ledger'
         /\ \A j \in Keys \ {k} : slots'[j] = slots[j]
<1> DEFINE response == [amount |-> body.amount, settled |-> ledger + body.amount,
                        outstanding |-> amount - (ledger + body.amount)]
           row == [status |-> "SUCCEEDED", token |-> t, body |-> body,
                   expired |-> FALSE, response |-> response]
<1>1. body.amount \in Nat /\ body.amount <= amount - ledger
  BY SettlementAssumption DEF Pay, Payable
<1>2. amount \in Nat \ {0} /\ ledger \in Nat /\ ledger <= amount
      /\ slots \in [Keys -> SlotRow] /\ rows \in [Keys -> Nat]
  BY DEF Inv, TypeOK, NeverOverpaid, SlotRow
<1>3. response \in Response /\ response.amount = body.amount
      /\ response.settled = ledger + body.amount
  BY <1>1, <1>2 DEF Response
<1>4. slots' = [slots EXCEPT ![k] = row]
  BY DEF Pay
<1> HIDE DEF response
<1>5. row \in SlotRow /\ row.status = "SUCCEEDED" /\ row.token = t /\ row.body = body
      /\ row.response = response
  BY <1>3 DEF SlotRow
<1> HIDE DEF row
<1>6. /\ settled' = ledger + body.amount /\ ledger' = ledger + body.amount
      /\ rows' = [rows EXCEPT ![k] = @ + 1] /\ amount' = amount
  BY DEF Pay
<1>7. slots' \in [Keys -> SlotRow]
  BY <1>2, <1>4, <1>5
<1>8. slots'[k] = row /\ \A j \in Keys \ {k} : slots'[j] = slots[j]
  BY <1>2, <1>4
<1>9. ledger' \in Nat /\ settled' \in Nat /\ NeverOverpaid' /\ ledger <= ledger'
  BY <1>1, <1>2, <1>6 DEF NeverOverpaid
<1>10. rows' \in [Keys -> Nat] /\ rows'[k] = rows[k] + 1
       /\ \A j \in Keys \ {k} : rows'[j] = rows[j]
  BY <1>2, <1>6
<1>11. PaidOncePerKey'
  <2>1. rows[k] = 0
    BY DEF Inv, PaidOncePerKey
  <2> QED
    BY <2>1, <1>5, <1>8, <1>10 DEF Inv, PaidOncePerKey
<1>12. Stamped
  BY <1>8 DEF Stamped
<1> QED
  BY <1>2, <1>3, <1>5, <1>6, <1>7, <1>8, <1>9, <1>10, <1>11, <1>12

(* The answers, once a payment went through: the old ones are those of     *)
(* slots stamped before, the new one is that of the slot stamped now.      *)
LEMMA PayAnswers ==
  ASSUME Inv, NEW k \in Keys, NEW t \in Tokens, NEW body \in Bodies,
         slots[k].status # "SUCCEEDED", Pay(k, t, body),
         answers' = answers \/ Answer(k, slots'[k].response)
  PROVE  AnswerFitsRequest' /\ answers' \subseteq [key : Keys, response : Response]
<1>1. answers' \subseteq [key : Keys, response : Response]
  BY PayKeeps DEF Answer, Inv, Custody
<1>2. \A a \in answers' : slots'[a.key].status = "SUCCEEDED"
                          /\ a.response = slots'[a.key].response
  <2>1. \A a \in answers : a.key \in Keys /\ a.key # k
                           /\ slots[a.key].status = "SUCCEEDED"
                           /\ a.response = slots[a.key].response
    BY DEF Inv, AnswerFitsRequest, Custody
  <2>2. \A a \in answers : slots'[a.key] = slots[a.key]
    BY <2>1, PayKeeps
  <2>3. slots'[k].status = "SUCCEEDED"
    BY PayKeeps
  <2> QED
    BY <2>1, <2>2, <2>3 DEF Answer
<1>3. \A j \in Keys : slots'[j].status = "SUCCEEDED" =>
        /\ slots'[j].response.amount = slots'[j].body.amount
        /\ slots'[j].response.settled <= ledger'
  <2> SUFFICES ASSUME NEW j \in Keys, slots'[j].status = "SUCCEEDED"
               PROVE  /\ slots'[j].response.amount = slots'[j].body.amount
                      /\ slots'[j].response.settled <= ledger'
    OBVIOUS
  <2>1. CASE j = k
    BY <2>1, PayKeeps
  <2>2. CASE j # k
    <3>1. slots'[j] = slots[j] /\ ledger <= ledger' /\ ledger' \in Nat
      BY <2>2, PayKeeps
    <3>2. slots[j].response.settled \in Nat /\ ledger \in Nat
      BY DEF Inv, TypeOK, Response
    <3>3. slots[j].response.amount = slots[j].body.amount
          /\ slots[j].response.settled <= ledger
      BY <3>1 DEF Inv, AnswerFitsRequest
    <3> QED
      BY <3>1, <3>2, <3>3
  <2> QED
    BY <2>1, <2>2
<1> QED
  BY <1>1, <1>2, <1>3 DEF AnswerFitsRequest

(* The transaction of a handler that holds the slot commits.               *)
LEMMA SettleKeeps == ASSUME Inv, NEW p \in Procs, Settle(p) PROVE Kept
<1> DEFINE k == task[p].key
           t == task[p].token
           body == task[p].body
<1>1. k \in Keys /\ t \in Tokens /\ body \in Bodies /\ pc[p] = "acquired"
  BY DEF Settle, Inv, Custody, Holding
<1>2. slots[k].status = "IN_FLIGHT" /\ slots[k].token = t /\ Pay(k, t, body)
  BY DEF Settle, Fenced
<1>3. \/ Leave(p) /\ Answer(k, slots'[k].response)
      \/ pc' = [pc EXCEPT ![p] = "failed"] /\ UNCHANGED <<task, answers>>
  BY DEF Settle
<1> HIDE DEF k, t, body
<1>4. task \in [Procs -> TaskRow]
      /\ pc \in [Procs -> {"idle", "reclaimed", "acquired", "failed"}]
  BY DEF Inv, TypeOK, TaskRow
<1>5. slots[k].status # "SUCCEEDED"
  BY <1>2
<1>6. answers' = answers \/ Answer(k, slots'[k].response)
  BY <1>3
<1>7. AnswerFitsRequest' /\ answers' \subseteq [key : Keys, response : Response]
  BY <1>1, <1>2, <1>5, <1>6, PayAnswers
<1>8. TypeOK'
  <2>1. task' \in [Procs -> TaskRow]
        /\ pc' \in [Procs -> {"idle", "reclaimed", "acquired", "failed"}]
    BY <1>3, <1>4, SentinelsAreRows DEF Leave
  <2> QED
    BY <2>1, <1>1, <1>2, <1>5, PayKeeps DEF TypeOK, SlotRow, TaskRow
<1>9. \A q \in Procs : /\ q # p => task'[q] = task[q] /\ pc'[q] = pc[q]
                       /\ Holding(q)' => Holding(q) /\ task'[q] = task[q]
  BY <1>1, <1>3, <1>4 DEF Leave, Holding
<1>10. ~Holding(p)' => task'[p].token = NoToken /\ pc'[p] = "idle"
  BY <1>3, <1>4 DEF Leave, NoTask, Holding
<1>11. Custody'
  <2>1. \A q \in Procs : /\ Holding(q)' => /\ task'[q].key \in Keys
                                           /\ task'[q].body \in Bodies
                                           /\ task'[q].token \in Tokens
                         /\ pc'[q] = "reclaimed" => /\ task'[q].key \in Keys
                                                    /\ task'[q].body \in Bodies
                         /\ ~Holding(q)' => task'[q].token = NoToken
    BY <1>9, <1>10 DEF Inv, Custody, Holding
  <2>2. \A j \in Keys : IF slots'[j].status = "FREE"
                          THEN slots'[j].token = NoToken
                          ELSE slots'[j].token \in Tokens /\ slots'[j].body \in Bodies
    BY <1>1, <1>2, <1>5, PayKeeps DEF Inv, Custody
  <2> QED
    BY <2>1, <2>2, <1>7 DEF Custody
<1>12. OneOwner'
  <2>1. \A j \in Keys : slots'[j].token = slots[j].token
                        /\ (j # k => slots'[j] = slots[j])
    BY <1>1, <1>2, <1>5, PayKeeps
  <2>2. slots'[k].body = slots[k].body
    <3>1. slots[k].body = body
      BY <1>1, <1>2 DEF Inv, OneOwner, body, k, t
    <3> QED
      BY <3>1, <1>1, <1>2, <1>5, PayKeeps
  <2>3. task'[p].token \in {t, NoToken} /\ NoToken \notin Tokens
    BY <1>10, <1>9, SettlementAssumption DEF t
  <2> QED
    BY <1>9, <2>1, <2>2, <2>3 DEF Inv, OneOwner, Holding, Custody, t
<1> QED
  BY <1>1, <1>2, <1>5, <1>7, <1>8, <1>11, <1>12, PayKeeps DEF Kept, Inv

(* The payment with a cash session: slot, payment and stamp in one         *)
(* transaction, with a token nobody knows.                                 *)
LEMMA SettleBoundKeeps ==
  ASSUME Inv, NEW k \in Keys, NEW body \in Bodies, SettleBound(k, body)
  PROVE  Kept
<1> PICK t \in Tokens : Fresh(t) /\ Pay(k, t, body)
  BY DEF SettleBound
<1>1. slots[k].status # "SUCCEEDED" /\ UNCHANGED <<pc, task>>
      /\ Answer(k, slots'[k].response)
  BY DEF SettleBound, Reclaimable
<1>2. AnswerFitsRequest' /\ answers' \subseteq [key : Keys, response : Response]
  BY <1>1, PayAnswers
<1>3. TypeOK'
  BY <1>1, PayKeeps DEF Inv, TypeOK, SlotRow, TaskRow
<1>4. Custody'
  <2>1. \A j \in Keys : IF slots'[j].status = "FREE"
                          THEN slots'[j].token = NoToken
                          ELSE slots'[j].token \in Tokens /\ slots'[j].body \in Bodies
    BY <1>1, PayKeeps DEF Inv, Custody
  <2> QED
    BY <2>1, <1>1, <1>2 DEF Inv, Custody, Holding
<1>5. OneOwner'
  <2>1. slots'[k].token = t /\ \A q \in Procs : task[q].token # t
    BY <1>1, PayKeeps DEF Fresh
  <2>2. \A j \in Keys \ {k} : slots'[j] = slots[j]
    BY <1>1, PayKeeps
  <2> QED
    BY <2>1, <2>2, <1>1 DEF Inv, OneOwner
<1> QED
  BY <1>1, <1>2, <1>3, <1>4, <1>5, PayKeeps DEF Kept, Inv

-----------------------------------------------------------------------------
(* Every step keeps the invariant and every stamp.                         *)
LEMMA StepKeeps == Inv /\ [Next]_vars => Kept
<1> SUFFICES ASSUME Inv, [Next]_vars PROVE Kept
  OBVIOUS
<1>1. ASSUME NEW k \in Keys, Expire(k) PROVE Kept
  BY <1>1, ExpireKeeps
<1>2. ASSUME NEW k \in Keys, NEW body \in Bodies, Replay(k, body) PROVE Kept
  <2> USE <1>2 DEF Replay, Inv, refundVars
  <2>1. answers' \subseteq [key : Keys, response : Response]
    BY DEF Custody, Answer, TypeOK
  <2>2. TypeOK' /\ Custody'
    BY <2>1 DEF TypeOK, Custody, Holding
  <2>3. (NeverOverpaid /\ PaidOncePerKey /\ OneOwner)' /\ Stamped
    BY DEF NeverOverpaid, PaidOncePerKey, OneOwner, Stamped
  <2>4. AnswerFitsRequest'
    BY DEF AnswerFitsRequest, Answer, Replayable
  <2> QED
    BY <2>2, <2>3, <2>4 DEF Kept
<1>3. ASSUME NEW k \in Keys, NEW body \in Bodies, SettleBound(k, body) PROVE Kept
  BY <1>3, SettleBoundKeeps
<1>4. ASSUME NEW p \in Procs, NEW k \in Keys, NEW body \in Bodies, Acquire(p, k, body)
      PROVE Kept
  BY <1>4, InsertKeeps DEF Acquire
<1>5. ASSUME NEW p \in Procs, NEW k \in Keys, NEW body \in Bodies, Reclaim(p, k, body)
      PROVE Kept
  BY <1>5, ReclaimKeeps
<1>6. ASSUME NEW p \in Procs, Reacquire(p) PROVE Kept
  BY <1>6, ReacquireKeeps
<1>7. ASSUME NEW p \in Procs, Settle(p) PROVE Kept
  BY <1>7, SettleKeeps
<1>8. ASSUME NEW p \in Procs, Fail(p) PROVE Kept
  BY <1>8, FailKeeps
<1>9. ASSUME NEW p \in Procs, Release(p) PROVE Kept
  BY <1>9, ReleaseKeeps
<1>10. ASSUME NEW p \in Procs, Die(p) PROVE Kept
  BY <1>10, LeaveKeeps DEF Die
<1>11. CASE UNCHANGED vars
  <2> USE <1>11 DEF vars, Inv
  <2>1. (TypeOK /\ Custody)'
    BY DEF TypeOK, Custody, Holding
  <2>2. (NeverOverpaid /\ PaidOncePerKey /\ AnswerFitsRequest /\ OneOwner)' /\ Stamped
    BY DEF NeverOverpaid, PaidOncePerKey, AnswerFitsRequest, OneOwner, Stamped
  <2> QED
    BY <2>1, <2>2 DEF Kept
<1> QED
  BY <1>1, <1>2, <1>3, <1>4, <1>5, <1>6, <1>7, <1>8, <1>9, <1>10, <1>11 DEF Next

(* In every reachable state the refund is paid at most up to what is owed, *)
(* once for every stamped key and for no other, every answer is that of    *)
(* the request which holds the key, and a token opens one slot only.       *)
THEOREM RefundIsPaidOnce ==
  Spec => [](OnePaymentPerKey /\ OneOwner)
<1>1. Init => Inv
  BY InvAtFirst
<1>2. Inv /\ [Next]_vars => Inv'
  BY StepKeeps DEF Kept
<1>3. Inv => OnePaymentPerKey /\ OneOwner
  BY DEF Inv, OnePaymentPerKey
<1> QED
  BY <1>1, <1>2, <1>3, PTL DEF Spec

(* No step whatever, by whichever handler, changes a stamped slot.         *)
THEOREM StampsAreFinal == Spec => StampIsFinal
<1>1. Init => Inv
  BY InvAtFirst
<1>2. Inv /\ [Next]_vars => Inv'
  BY StepKeeps DEF Kept
<1>3. Inv /\ [Next]_vars =>
        [\A k \in Keys : slots[k].status = "SUCCEEDED" => slots'[k] = slots[k]]_vars
  BY StepKeeps DEF Kept, Stamped
<1> QED
  BY <1>1, <1>2, <1>3, PTL DEF Spec, StampIsFinal

-----------------------------------------------------------------------------
(* The refinement.  Of a slot the promise keeps the receipt of what was    *)
(* stamped; every step is one of the promise, or none at all.              *)
Receipts == [k \in Stamps |-> slots[k].response]

PromiseStep == [Refund!Next]_<<amount, settled, Receipts, answers>>

(* Without a new stamp the receipts stay.                                  *)
LEMMA ReceiptsStay ==
  ASSUME Stamped, \A k \in Keys : slots'[k].status = "SUCCEEDED" => slots[k].status = "SUCCEEDED"
  PROVE  Receipts' = Receipts
<1>1. Stamps' = Stamps
  BY DEF Stamps, Stamped
<1>2. \A k \in Stamps : slots'[k].response = slots[k].response
  BY DEF Stamps, Stamped
<1> QED
  BY <1>1, <1>2 DEF Receipts

(* A step that stamps nothing and answers nothing is none of the promise.  *)
LEMMA QuietSteps ==
  ASSUME Stamped, UNCHANGED <<amount, settled, answers>>,
         \A k \in Keys : slots'[k].status = "SUCCEEDED" => slots[k].status = "SUCCEEDED"
  PROVE  PromiseStep
BY ReceiptsStay DEF PromiseStep

(* An answer that is given again is the receipt of its key.                *)
LEMMA ReplayIsPromised ==
  ASSUME NEW k \in Keys, Replayable(k, slots[k].body), Answer(k, slots[k].response),
         UNCHANGED <<amount, settled, slots>>
  PROVE  PromiseStep
<1>1. k \in DOMAIN Receipts /\ Receipts[k] = slots[k].response
  BY DEF Receipts, Stamps, Replayable
<1>2. Receipts' = Receipts
  BY DEF Receipts, Stamps
<1>3. Refund!Repeat(k)
  BY <1>1, <1>2 DEF Refund!Repeat, Refund!Tell, Answer, Receipts
<1> QED
  BY <1>3 DEF PromiseStep, Refund!Next

(* The stamp of a key is its payment.                                      *)
LEMMA PaymentIsPromised ==
  ASSUME Inv, NEW k \in Keys, NEW t \in Tokens, NEW body \in Bodies,
         slots[k].status # "SUCCEEDED", Pay(k, t, body),
         answers' = answers \/ Answer(k, slots'[k].response)
  PROVE  PromiseStep
<1> DEFINE receipt == Refund!Receipt(body.amount)
<1>1. /\ body.amount \in 1..amount /\ settled + body.amount <= amount
      /\ settled' = settled + body.amount /\ amount' = amount
  BY SettlementAssumption DEF Inv, TypeOK, NeverOverpaid, Pay, Payable
<1>2. slots'[k].response = receipt
  BY DEF Inv, TypeOK, NeverOverpaid, Pay, Refund!Receipt
<1>3. /\ slots'[k].status = "SUCCEEDED"
      /\ \A j \in Keys \ {k} : slots'[j] = slots[j]
  BY PayKeeps
<1> HIDE DEF receipt
<1>4. Stamps' = Stamps \cup {k} /\ k \notin Stamps
  BY <1>3 DEF Stamps
<1>5. Receipts' = [j \in Stamps \cup {k} |-> IF j = k THEN receipt ELSE Receipts[j]]
  <2>1. \A j \in Stamps \cup {k} :
          slots'[j].response = IF j = k THEN receipt ELSE slots[j].response
    BY <1>2, <1>3, <1>4 DEF Stamps
  <2> QED
    BY <1>4, <2>1 DEF Receipts
<1>6. DOMAIN Receipts = Stamps
  BY DEF Receipts
<1>7. answers' = answers \/ Refund!Tell(k, receipt)
  BY <1>2 DEF Answer, Refund!Tell
<1>8. Refund!Pay(k, body.amount)
  BY <1>1, <1>4, <1>5, <1>6, <1>7 DEF Refund!Pay, receipt, Receipts
<1> QED
  BY <1>1, <1>8 DEF PromiseStep, Refund!Next

LEMMA StepIsPromised == Inv /\ [Next]_vars => PromiseStep
<1> SUFFICES ASSUME Inv, [Next]_vars PROVE PromiseStep
  OBVIOUS
<1>1. Stamped
  BY StepKeeps DEF Kept
<1>2. slots \in [Keys -> SlotRow]
  BY DEF Inv, TypeOK, SlotRow
<1>3. ASSUME NEW k \in Keys, Expire(k) PROVE PromiseStep
  <2>1. \A j \in Keys : slots'[j].status = "SUCCEEDED" => slots[j].status = "SUCCEEDED"
    BY <1>2, <1>3 DEF Expire, SlotRow
  <2> QED
    BY <1>1, <1>3, <2>1, QuietSteps DEF Expire, refundVars
<1>4. ASSUME NEW k \in Keys, NEW body \in Bodies, Replay(k, body) PROVE PromiseStep
  BY <1>4, ReplayIsPromised DEF Replay, Replayable, refundVars
<1>5. ASSUME NEW k \in Keys, NEW body \in Bodies, SettleBound(k, body) PROVE PromiseStep
  <2> PICK t \in Tokens : Pay(k, t, body)
    BY <1>5 DEF SettleBound
  <2> QED
    BY <1>5, PaymentIsPromised DEF SettleBound, Reclaimable
<1>6. ASSUME NEW p \in Procs, NEW k \in Keys, NEW body \in Bodies, Insert(p, k, body)
      PROVE PromiseStep
  <2>1. \A j \in Keys : slots'[j].status = "SUCCEEDED" => slots[j].status = "SUCCEEDED"
    BY <1>2, <1>6 DEF Insert, FreeSlot
  <2> QED
    BY <1>1, <1>6, <2>1, QuietSteps DEF Insert, refundVars
<1>7. ASSUME NEW p \in Procs, NEW k \in Keys, NEW body \in Bodies, Reclaim(p, k, body)
      PROVE PromiseStep
  <2>1. \A j \in Keys : slots'[j].status = "SUCCEEDED" => slots[j].status = "SUCCEEDED"
    BY <1>2, <1>7 DEF Reclaim, FreeSlot
  <2> QED
    BY <1>1, <1>7, <2>1, QuietSteps DEF Reclaim, refundVars
<1>8. ASSUME NEW p \in Procs, Reacquire(p) PROVE PromiseStep
  <2>1. task[p].key \in Keys /\ task[p].body \in Bodies
    BY <1>8 DEF Reacquire, Inv, Custody
  <2>2. CASE Insert(p, task[p].key, task[p].body)
    BY <1>6, <2>1, <2>2
  <2>3. CASE Replayable(task[p].key, task[p].body) /\ ~Insert(p, task[p].key, task[p].body)
    BY <1>8, <2>1, <2>3, ReplayIsPromised DEF Reacquire, Replayable, refundVars
  <2>4. CASE ~Replayable(task[p].key, task[p].body) /\ ~Insert(p, task[p].key, task[p].body)
    BY <1>1, <1>8, <2>4, QuietSteps DEF Reacquire, refundVars
  <2> QED
    BY <2>2, <2>3, <2>4
<1>9. ASSUME NEW p \in Procs, Settle(p) PROVE PromiseStep
  <2>1. task[p].key \in Keys /\ task[p].body \in Bodies /\ task[p].token \in Tokens
    BY <1>9 DEF Settle, Inv, Custody, Holding
  <2>2. slots[task[p].key].status # "SUCCEEDED"
    BY <1>9 DEF Settle, Fenced
  <2> QED
    BY <1>9, <2>1, <2>2, PaymentIsPromised DEF Settle
<1>10. ASSUME NEW p \in Procs, Fail(p) \/ Die(p) PROVE PromiseStep
  BY <1>1, <1>10, QuietSteps DEF Fail, Die, refundVars
<1>11. ASSUME NEW p \in Procs, Release(p) PROVE PromiseStep
  <2>1. \A j \in Keys : slots'[j].status = "SUCCEEDED" => slots[j].status = "SUCCEEDED"
    BY <1>2, <1>11 DEF Release, FreeSlot
  <2> QED
    BY <1>1, <1>11, <2>1, QuietSteps DEF Release, refundVars
<1>12. CASE UNCHANGED vars
  BY <1>1, <1>12, QuietSteps DEF vars, refundVars
<1> QED
  BY <1>3, <1>4, <1>5, <1>6, <1>7, <1>8, <1>9, <1>10, <1>11, <1>12 DEF Next, Acquire

(* Retries, crashes, take-overs and late handlers are invisible: to its    *)
(* customer and its books a refund is settled as RefundPromise says, a key *)
(* at a time (settleRefund and the idempotency slots around it).           *)
THEOREM RefundKeepsPromise == Spec => SettledAsPromised
<1>1. Init => Refund!Init
  <2> SUFFICES ASSUME Init PROVE Refund!Init
    OBVIOUS
  <2>1. Stamps = {}
    BY DEF Init, Stamps, FreeSlot
  <2> QED
    BY <2>1, SettlementAssumption DEF Init, Refund!Init
<1>2. Inv /\ [Next]_vars => Inv'
  BY StepKeeps DEF Kept
<1>3. Inv /\ [Next]_vars => [Refund!Next]_Refund!vars
  BY StepIsPromised DEF PromiseStep, Receipts, Refund!vars
<1> QED
  BY <1>1, <1>2, <1>3, InvAtFirst, PTL DEF Spec, SettledAsPromised, Refund!Spec
=============================================================================
