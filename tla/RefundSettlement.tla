-------------------------- MODULE RefundSettlement --------------------------
(***************************************************************************)
(* The payment of a refund that a canceled sale owes (SalesService.        *)
(* settleRefund).  The obligation is settled in parts, each under an       *)
(* Idempotency-Key.  The slot of a key is taken before the transaction, so *)
(* a handler that dies strands it; a slot older than a lease may be taken  *)
(* over by a retry, and the former owner, should it still be alive, is     *)
(* fenced off by the token of the slot.                                    *)
(***************************************************************************)
EXTENDS Naturals

CONSTANTS
  Procs,    \* request handlers that may run at the same time
  Keys,     \* Idempotency-Key values the clients send for this refund
  Bodies,   \* bodies of POST /sales/refunds/:id/settlements
  Tokens,   \* identifiers of slot rows
  Amounts,  \* amounts a refund may be of
  NoKey, NoBody, NoToken

ASSUME SettlementAssumption ==
  /\ Bodies \subseteq [amount : Nat, bound : BOOLEAN]
  /\ Amounts \subseteq Nat \ {0}
  /\ NoKey \notin Keys /\ NoBody \notin Bodies /\ NoToken \notin Tokens

VARIABLES
  amount,   \* SaleRefund.amountCents
  settled,  \* SaleRefund.settledCents, the cached sum
  ledger,   \* sum of the SaleRefundSettlement rows
  rows,     \* how many of these rows were written under each key
  slots,    \* sale_idempotency, by key
  pc,       \* where each handler is
  task,     \* the key, the body and the token each handler works on
  answers   \* history: the successful responses given under each key

refundVars == <<amount, settled, ledger, rows>>
vars == <<amount, settled, ledger, rows, slots, pc, task, answers>>

-----------------------------------------------------------------------------
Response == [amount : Nat, settled : Nat, outstanding : Nat]
NoResponse == [amount |-> 0, settled |-> 0, outstanding |-> 0]

FreeSlot == [status |-> "FREE", token |-> NoToken, body |-> NoBody,
             expired |-> FALSE, response |-> NoResponse]
NoTask == [key |-> NoKey, body |-> NoBody, token |-> NoToken]

Init ==
  /\ amount \in Amounts
  /\ settled = 0
  /\ ledger = 0
  /\ rows = [k \in Keys |-> 0]
  /\ slots = [k \in Keys |-> FreeSlot]
  /\ pc = [p \in Procs |-> "idle"]
  /\ task = [p \in Procs |-> NoTask]
  /\ answers = {}

(* A UUID generated for a row: no slot and no handler knows it yet.        *)
Fresh(t) ==
  /\ \A k \in Keys : slots[k].token # t
  /\ \A p \in Procs : task[p].token # t

Leave(p) ==
  /\ pc' = [pc EXCEPT ![p] = "idle"]
  /\ task' = [task EXCEPT ![p] = NoTask]

Answer(k, response) == answers' = answers \cup {[key |-> k, response |-> response]}

-----------------------------------------------------------------------------
(* The slot *)

(* acquireIdempotency: the insert of the row.                              *)
Insert(p, k, body) ==
  /\ slots[k].status = "FREE"
  /\ \E t \in Tokens :
       /\ Fresh(t)
       /\ slots' = [slots EXCEPT ![k] = [FreeSlot EXCEPT !.status = "IN_FLIGHT",
                                                         !.token = t, !.body = body]]
       /\ task' = [task EXCEPT ![p] = [key |-> k, body |-> body, token |-> t]]
  /\ pc' = [pc EXCEPT ![p] = "acquired"]
  /\ UNCHANGED <<refundVars, answers>>

(* executeSettleRefund without a cash session: first attempt.              *)
Acquire(p, k, body) ==
  /\ pc[p] = "idle"
  /\ ~body.bound
  /\ Insert(p, k, body)

(* acquireSettlementIdempotency: which slot a retry may delete.            *)
NotReclaimable(k, body) == FALSE

Reclaimable(k, body) ==
  slots[k].status = "IN_FLIGHT" /\ slots[k].body = body /\ slots[k].expired

(* acquireSettlementIdempotency: the collision was with a slot in flight;  *)
(* it is deleted if its lease is over, in a statement of its own.          *)
Reclaim(p, k, body) ==
  /\ pc[p] = "idle"
  /\ ~body.bound
  /\ Reclaimable(k, body)
  /\ slots' = [slots EXCEPT ![k] = FreeSlot]
  /\ pc' = [pc EXCEPT ![p] = "reclaimed"]
  /\ task' = [task EXCEPT ![p] = [key |-> k, body |-> body, token |-> NoToken]]
  /\ UNCHANGED <<refundVars, answers>>

(* resolveIdempotencyOutcome: replay, when key and body are those of a     *)
(* request that succeeded.                                                 *)
Replayable(k, body) == slots[k].status = "SUCCEEDED" /\ slots[k].body = body

Replay(k, body) ==
  /\ Replayable(k, body)
  /\ Answer(k, slots[k].response)
  /\ UNCHANGED <<refundVars, slots, pc, task>>

(* acquireSettlementIdempotency: the one second attempt, which another     *)
(* handler may have overtaken.                                             *)
Reacquire(p) ==
  LET k == task[p].key
      body == task[p].body
  IN
  /\ pc[p] = "reclaimed"
  /\ \/ Insert(p, k, body)
     \/ /\ slots[k].status # "FREE"
        /\ IF Replayable(k, body) THEN Answer(k, slots[k].response)
                                  ELSE UNCHANGED answers
        /\ Leave(p)
        /\ UNCHANGED <<refundVars, slots>>

(* Five minutes pass.                                                      *)
Expire(k) ==
  /\ slots[k].status = "IN_FLIGHT"
  /\ ~slots[k].expired
  /\ slots' = [slots EXCEPT ![k].expired = TRUE]
  /\ UNCHANGED <<refundVars, pc, task, answers>>

-----------------------------------------------------------------------------
(* The money *)

(* PrismaSaleRepository.settleRefund: what is outstanding is computed from *)
(* the settlement rows, under the lock of the obligation.                  *)
Payable(cents) ==
  /\ cents > 0
  /\ ledger < amount
  /\ cents <= amount - ledger

(* The row and the cached sum, and the stamp of the slot.                  *)
Pay(k, t, body) ==
  LET response == [amount |-> body.amount, settled |-> ledger + body.amount,
                   outstanding |-> amount - (ledger + body.amount)]
  IN
  /\ Payable(body.amount)
  /\ settled' = ledger + body.amount
  /\ ledger' = ledger + body.amount
  /\ rows' = [rows EXCEPT ![k] = @ + 1]
  /\ slots' = [slots EXCEPT ![k] = [status |-> "SUCCEEDED", token |-> t,
                                    body |-> body, expired |-> FALSE,
                                    response |-> response]]
  /\ UNCHANGED amount

(* markSettlementIdempotencySucceeded: the stamp must match one row.       *)
Unfenced(p) == TRUE

Fenced(p) ==
  /\ slots[task[p].key].status = "IN_FLIGHT"
  /\ slots[task[p].key].token = task[p].token

(* The transaction commits with the stamp.  The handler answers, unless    *)
(* the outcome of the commit is lost on the way and looks like a failure.  *)
Settle(p) ==
  LET k == task[p].key
      body == task[p].body
  IN
  /\ pc[p] = "acquired"
  /\ Fenced(p)
  /\ Pay(k, task[p].token, body)
  /\ \/ Leave(p) /\ Answer(k, slots'[k].response)
     \/ /\ pc' = [pc EXCEPT ![p] = "failed"]
        /\ UNCHANGED <<task, answers>>

(* A refusal (not found, exceeds, already settled, fenced off) or any      *)
(* failure before the commit: the transaction rolls back.                  *)
Fail(p) ==
  /\ pc[p] = "acquired"
  /\ pc' = [pc EXCEPT ![p] = "failed"]
  /\ UNCHANGED <<refundVars, slots, task, answers>>

(* releaseSettlementIdempotency.                                           *)
ReleasesAnyStatus(p) == slots[task[p].key].token = task[p].token

Releases(p) ==
  /\ slots[task[p].key].status = "IN_FLIGHT"
  /\ slots[task[p].key].token = task[p].token

Release(p) ==
  /\ pc[p] = "failed"
  /\ slots' = IF Releases(p) THEN [slots EXCEPT ![task[p].key] = FreeSlot]
                             ELSE slots
  /\ Leave(p)
  /\ UNCHANGED <<refundVars, answers>>

(* The server dies, or the release fails (which is ignored).               *)
Die(p) ==
  /\ pc[p] # "idle"
  /\ Leave(p)
  /\ UNCHANGED <<refundVars, slots, answers>>

(* With a cash session all of it is one transaction, the take-over of an   *)
(* expired slot included; a failure leaves nothing behind.                 *)
SettleBound(k, body) ==
  /\ body.bound
  /\ slots[k].status = "FREE" \/ Reclaimable(k, body)
  /\ \E t \in Tokens : Fresh(t) /\ Pay(k, t, body)
  /\ Answer(k, slots'[k].response)
  /\ UNCHANGED <<pc, task>>

-----------------------------------------------------------------------------
Next ==
  \/ \E k \in Keys :
       \/ Expire(k)
       \/ \E body \in Bodies :
            \/ Replay(k, body)
            \/ SettleBound(k, body)
            \/ \E p \in Procs : Acquire(p, k, body) \/ Reclaim(p, k, body)
  \/ \E p \in Procs : Reacquire(p) \/ Settle(p) \/ Fail(p) \/ Release(p) \/ Die(p)

Spec == Init /\ [][Next]_vars

(* A client that got no answer sends its request again, with the same key  *)
(* and the same body.                                                      *)
Retry(k) == \E p \in Procs : \E body \in Bodies : Reclaim(p, k, body)

(* Time passes, handlers get on or die, clients try again.                 *)
Fairness ==
  /\ \A k \in Keys : WF_vars(Expire(k)) /\ SF_vars(Retry(k))
  /\ \A p \in Procs : WF_vars(Settle(p) \/ Fail(p) \/ Reacquire(p) \/ Release(p))

FairSpec == Spec /\ Fairness

-----------------------------------------------------------------------------
(* Every table and every handler holds the values it can hold.             *)
TypeOK ==
  /\ amount \in Nat \ {0}
  /\ settled \in Nat
  /\ ledger \in Nat
  /\ rows \in [Keys -> Nat]
  /\ slots \in [Keys -> [status : {"FREE", "IN_FLIGHT", "SUCCEEDED"},
                         token : Tokens \cup {NoToken},
                         body : Bodies \cup {NoBody},
                         expired : BOOLEAN, response : Response]]
  /\ pc \in [Procs -> {"idle", "reclaimed", "acquired", "failed"}]
  /\ task \in [Procs -> [key : Keys \cup {NoKey}, body : Bodies \cup {NoBody},
                         token : Tokens \cup {NoToken}]]

(* The refund is never paid twice over, and its cached sum is the sum of   *)
(* its settlement rows (settleRefund).                                     *)
NeverOverpaid == settled = ledger /\ ledger <= amount

(* However often a request is retried, and whether or not the handler that *)
(* first took its key is still alive, it is paid once, and exactly when    *)
(* the key says so (the fencing of markSettlementIdempotencySucceeded).    *)
PaidOncePerKey ==
  \A k \in Keys : rows[k] = IF slots[k].status = "SUCCEEDED" THEN 1 ELSE 0

(* An answer is the answer to the request that took the key, and stays the *)
(* same (resolveIdempotencyOutcome).                                       *)
AnswerFitsRequest ==
  /\ \A a \in answers : /\ slots[a.key].status = "SUCCEEDED"
                        /\ a.response = slots[a.key].response
  /\ \A k \in Keys : slots[k].status = "SUCCEEDED" =>
       /\ slots[k].response.amount = slots[k].body.amount
       /\ slots[k].response.settled <= ledger

(* A refund is never overpaid: a key pays once and is answered with what   *)
(* it paid, however often, and the keys together pay what the rows say.    *)
OnePaymentPerKey == NeverOverpaid /\ PaidOncePerKey /\ AnswerFitsRequest

(* A token opens one slot: of two handlers that hold the same key, the one *)
(* whose lease was taken over can neither stamp nor release the slot of    *)
(* the other.                                                              *)
OneOwner ==
  \A p \in Procs : pc[p] \in {"acquired", "failed"} =>
    /\ \A q \in Procs \ {p} : task[q].token # task[p].token
    /\ \A k \in Keys : slots[k].token = task[p].token =>
         k = task[p].key /\ slots[k].body = task[p].body

(* A payment that was stamped is never taken back: neither a release nor a *)
(* take-over deletes it.                                                   *)
StampIsFinal ==
  [][\A k \in Keys : slots[k].status = "SUCCEEDED" => slots'[k] = slots[k]]_vars

(* Handlers, slots, leases and tokens are the means; the end is that each  *)
(* key is worth one payment and one receipt (RefundPromise).               *)
Stamps == {k \in Keys : slots[k].status = "SUCCEEDED"}

Refund == INSTANCE RefundPromise
  WITH owed <- amount, paid <- settled, told <- answers,
       receipts <- [k \in Stamps |-> slots[k].response]

SettledAsPromised == Refund!Spec

(* No key is stranded: a slot in flight is released, stamped or taken over.*)
NoStrandedKey ==
  \A k \in Keys : \A t \in Tokens :
    slots[k].status = "IN_FLIGHT" /\ slots[k].token = t
      ~> ~(slots[k].status = "IN_FLIGHT" /\ slots[k].token = t)
=============================================================================
