-------------------------- MODULE SaleOnStockProofs --------------------------
(***************************************************************************)
(* Proofs about SaleLifecycle, for every set of handlers, keys, quantities *)
(* and request bodies, and about Stock, for every set of lots, variants,   *)
(* sales and adjusters and every bound on a quantity.                      *)
(*                                                                         *)
(* The balances of Stock follow from StockInv, which says more than the    *)
(* properties do.  What is not there holds nothing (NothingLeft), or a     *)
(* removal would leave units that nobody journals; a threshold belongs to  *)
(* what is tracked (Untold), or an edit of something that is not tracked   *)
(* could put units above a threshold whose alert was sent; and an adjuster *)
(* knows the balance of a bucket that has gone, too (SeenStands).          *)
(***************************************************************************)
EXTENDS SaleLifecycle, Stock, SumProofs

-----------------------------------------------------------------------------
(* The lifecycle of a sale                                                 *)


-----------------------------------------------------------------------------
(* Request bodies and slots                                                *)

(* The body of a request has the type its slot stands for.                 *)
LEMMA BodyTypes ==
  ASSUME NEW sid \in SlotIds, NEW body \in Bodies(sid)
  PROVE  /\ sid \in ChargeIds => body \in ChargeBody
         /\ sid \in PaymentIds => body \in CollectionBody /\ sid \notin ChargeIds
         /\ sid \in ChargeIds \/ sid \in PaymentIds \/ sid = CancelId
BY ConstantsAssumption DEF SlotIds, Bodies, ChargeIds, PaymentIds, CancelId

(* The slot of a cancellation is none of a charge or of a payment.         *)
LEMMA CancelIsNoKey ==
  CancelId \in SlotIds /\ CancelId \notin ChargeIds /\ CancelId \notin PaymentIds
BY DEF SlotIds, ChargeIds, PaymentIds, CancelId

(* Money taken never exceeds what is due.                                  *)
LEMMA LeastBounds ==
  ASSUME NEW a \in Nat, NEW b \in Nat
  PROVE  /\ Least(a, b) \in Nat
         /\ Least(a, b) <= b
         /\ b - Least(a, b) \in Nat
BY DEF Least

-----------------------------------------------------------------------------
(* Type correctness                                                        *)

(* Stamping a slot keeps the slot table and the answers well formed.       *)
LEMMA StampTypes ==
  ASSUME TypeOK, NEW sid \in SlotIds, NEW body \in Bodies(sid),
         NEW response \in Response, Stamp(sid, body, response)
  PROVE  /\ DOMAIN slots' = SlotIds
         /\ \A s \in SlotIds :
              /\ slots'[s].status \in {"FREE", "IN_FLIGHT", "SUCCEEDED"}
              /\ slots'[s].response \in Response
              /\ slots'[s].status # "FREE" => slots'[s].body \in Bodies(s)
         /\ \A a \in answers' : a.sid \in SlotIds /\ a.response \in Response
BY DEF Stamp, TypeOK

(* The absent sale has the shape of a row.                                 *)
LEMMA NoSaleIsARow == NoSale \in SaleRow
BY DEF NoSale, SaleRow, SaleStatus, DeliveryStatus, PaymentStatus

(* A handler that leaves, or that runs a bound request, leaves well-formed *)
(* handlers behind.                                                        *)
HandlersOK ==
  /\ pc \in [Procs -> {"idle", "acquired", "editing", "checked", "saving"}]
  /\ DOMAIN task = Procs
  /\ \A p \in Procs : pc[p] = "acquired" =>
       /\ task[p].sid \in SlotIds
       /\ task[p].body \in Bodies(task[p].sid)
  /\ draft \in [Procs -> SaleRow]

(* So does a handler that answers and leaves.                              *)
LEMMA LeaveTypes ==
  ASSUME TypeOK, NEW p \in Procs, Leave(p)
  PROVE  HandlersOK'
BY NoSaleIsARow DEF Leave, TypeOK, HandlersOK

(* So does a handler that runs a request.                                  *)
LEMMA RunsTypes ==
  ASSUME TypeOK, NEW p \in Procs, NEW sid, NEW body, Runs(p, sid, body)
  PROVE  HandlersOK'
<1>1. CASE Bound(sid, body)
  BY <1>1 DEF Runs, procVars, TypeOK, HandlersOK
<1>2. CASE ~Bound(sid, body)
  BY <1>2, LeaveTypes DEF Runs
<1>. QED BY <1>1, <1>2

(* The row of a sale after its charge.                                     *)
LEMMA ChargedRow ==
  ASSUME NEW row \in SaleRow, NEW delivery \in DeliveryStatus, NEW folio \in Nat,
         NEW total \in Nat, NEW paid \in Nat, NEW debt \in Nat,
         NEW payment \in PaymentStatus
  PROVE  [row EXCEPT !.status = "CONFIRMED", !.delivery = delivery,
                     !.folio = folio, !.total = total, !.paid = paid,
                     !.debt = debt, !.payment = payment] \in SaleRow
BY DEF SaleRow, SaleStatus

(* No step of any handler breaks the types; that no amount goes below zero *)
(* is where the guards of the charge and of the collection count.          *)
LEMMA TypeStep == TypeOK /\ [Next]_vars => TypeOK'
<1>. SUFFICES ASSUME TypeOK, [Next]_vars PROVE TypeOK'
  OBVIOUS
<1>0. overwritten' \in BOOLEAN
  BY DEF TypeOK, Next, WriteEdit, SaveAggregate, Overwrite, vars
<1>. USE <1>0 DEF SaleRow, SaleStatus, DeliveryStatus, PaymentStatus
<1>1. CASE OpenDraft
  BY <1>1 DEF OpenDraft, NoSale, procVars, TypeOK
<1>2. CASE EditDraft
  BY <1>2, ConstantsAssumption DEF EditDraft, procVars, TypeOK
<1>3. CASE DeleteDraft
  BY <1>3 DEF DeleteDraft, NoSale, procVars, TypeOK
<1>4. CASE ConfirmBotSale
  <2>1. PICK q \in Quantities \ {0} :
          /\ sale' = [NoSale EXCEPT !.status = "CONFIRMED", !.channel = "ONLINE",
                                    !.delivery = "PENDING", !.customer = TRUE,
                                    !.items = q, !.folio = 1, !.total = q,
                                    !.debt = q, !.payment = "CREDIT"]
          /\ stock' = [stock EXCEPT !.charged = @ + q]
    BY <1>4 DEF ConfirmBotSale
  <2>2. q \in Nat
    BY ConstantsAssumption
  <2>3. sale' \in SaleRow
    BY <2>1, <2>2 DEF NoSale
  <2>4. /\ stock' \in [charged : Nat, returned : Nat]
        /\ outbox' \in [confirmed : Nat, fullyPaid : Nat, canceled : Nat]
    BY <1>4, <2>1, <2>2 DEF ConfirmBotSale, TypeOK
  <2>. QED
    BY <1>4, <2>3, <2>4 DEF ConfirmBotSale, procVars, TypeOK
<1>5. CASE MarkDelivered
  BY <1>5 DEF MarkDelivered, procVars, TypeOK
<1>6. CASE Ship
  BY <1>6 DEF Ship, procVars, TypeOK
<1>7. ASSUME NEW sid \in SlotIds, NEW body \in Bodies(sid), Replay(sid, body)
      PROVE  TypeOK'
  BY <1>7 DEF Replay, rowVars, procVars, TypeOK
<1>8. ASSUME NEW sid \in SlotIds, NEW body \in Bodies(sid), NEW p \in Procs,
             AcquireSlot(p, sid, body)
      PROVE  TypeOK'
  <2>1. NoResponse \in Response
    BY DEF NoResponse, Response
  <2>. QED BY <1>8, <2>1 DEF AcquireSlot, rowVars, TypeOK
<1>9. ASSUME NEW sid \in SlotIds, NEW body \in Bodies(sid), NEW p \in Procs,
             Charge(p, sid, body)
      PROVE  TypeOK'
  <2>. DEFINE paid == Least(body.tender, sale.items)
              debt == sale.items - paid
              delivery == IF body.delivery THEN "PENDING" ELSE sale.delivery
              response == [folio |-> sale.folio + 1, paid |-> paid,
                           debt |-> debt, refunded |-> 0]
  <2>1. body \in ChargeBody
    BY <1>9, BodyTypes DEF Charge
  <2>2. /\ sale.items \in Nat /\ body.tender \in Nat
        /\ paid \in Nat /\ debt \in Nat
    BY <2>1, LeastBounds DEF ChargeBody, TypeOK
  <2>3. response \in Response
    BY <2>2 DEF Response, TypeOK
  <2>4. Stamp(sid, body, response) /\ Runs(p, sid, body)
    BY <1>9 DEF Charge
  <2>. HIDE DEF paid, debt
  <2>5. sale' \in SaleRow
    <3>1. delivery \in DeliveryStatus
      BY DEF TypeOK
    <3>2. StatusOfPayment(paid, sale.items) \in PaymentStatus
      BY DEF StatusOfPayment
    <3>3. sale' = [sale EXCEPT !.status = "CONFIRMED", !.delivery = delivery,
                               !.folio = @ + 1, !.total = sale.items,
                               !.paid = paid, !.debt = debt,
                               !.payment = StatusOfPayment(paid, sale.items)]
      BY <1>9 DEF Charge, paid, debt
    <3>4. sale \in SaleRow /\ sale.folio + 1 \in Nat
      BY DEF TypeOK
    <3>. HIDE DEF delivery, SaleRow, DeliveryStatus, PaymentStatus
    <3>. QED BY <2>2, <3>1, <3>2, <3>3, <3>4, ChargedRow
  <2>6. /\ ledger' \in Nat /\ refunds' \in Nat
        /\ stock' \in [charged : Nat, returned : Nat]
        /\ outbox' \in [confirmed : Nat, fullyPaid : Nat, canceled : Nat]
    <3>1. /\ ledger' = ledger + body.tender
          /\ stock' = [stock EXCEPT !.charged = @ + sale.items]
          /\ outbox' = [outbox EXCEPT !.confirmed = @ + 1,
                                      !.fullyPaid = IF debt = 0 THEN @ + 1 ELSE @]
          /\ refunds' = refunds
      BY <1>9 DEF Charge, paid, debt
    <3>2. /\ ledger \in Nat /\ refunds \in Nat
          /\ stock \in [charged : Nat, returned : Nat]
          /\ outbox \in [confirmed : Nat, fullyPaid : Nat, canceled : Nat]
      BY DEF TypeOK
    <3>. HIDE DEF SaleRow, SaleStatus, DeliveryStatus, PaymentStatus
    <3>3. ledger' \in Nat /\ refunds' \in Nat
      BY <2>2, <3>1, <3>2
    <3>4. stock' \in [charged : Nat, returned : Nat]
      BY <2>2, <3>1, <3>2
    <3>5. outbox' \in [confirmed : Nat, fullyPaid : Nat, canceled : Nat]
      <4>. DEFINE n == IF debt = 0 THEN outbox.fullyPaid + 1 ELSE outbox.fullyPaid
      <4>1. n \in Nat /\ outbox.confirmed + 1 \in Nat
        BY <3>2
      <4>2. outbox' = [outbox EXCEPT !.confirmed = outbox.confirmed + 1,
                                    !.fullyPaid = n]
        BY <3>1
      <4>. HIDE DEF n
      <4>. QED BY <3>2, <4>1, <4>2
    <3>. QED BY <3>3, <3>4, <3>5
  <2>. QED
    BY <2>3, <2>4, <2>5, <2>6, RunsTypes, StampTypes DEF TypeOK, HandlersOK
<1>10. ASSUME NEW sid \in SlotIds, NEW body \in Bodies(sid), NEW p \in Procs,
              Collect(p, sid, body)
       PROVE  TypeOK'
  <2>. DEFINE paid == ledger + body.amount
              debt == sale.total - paid
              response == [folio |-> 0, paid |-> paid, debt |-> debt,
                           refunded |-> 0]
  <2>1. body \in CollectionBody
    BY <1>10, BodyTypes DEF Collect
  <2>2. paid \in Nat /\ debt \in Nat
    BY <1>10, <2>1 DEF CollectionBody, Collect, Collectable, TypeOK
  <2>3. response \in Response
    BY <2>2 DEF Response
  <2>4. Stamp(sid, body, response) /\ Runs(p, sid, body)
    BY <1>10 DEF Collect
  <2>. HIDE DEF paid, debt
  <2>5. sale' \in SaleRow
    BY <1>10, <2>2 DEF Collect, StatusOfPayment, TypeOK, paid, debt
  <2>6. /\ ledger' \in Nat /\ refunds' \in Nat
        /\ stock' \in [charged : Nat, returned : Nat]
        /\ outbox' \in [confirmed : Nat, fullyPaid : Nat, canceled : Nat]
    BY <1>10, <2>2 DEF Collect, TypeOK, paid
  <2>. QED
    BY <2>3, <2>4, <2>5, <2>6, RunsTypes, StampTypes DEF TypeOK, HandlersOK
<1>11. ASSUME NEW body \in Bodies(CancelId), NEW p \in Procs, Cancel(p, body)
       PROVE  TypeOK'
  <2>. DEFINE response == [NoResponse EXCEPT !.refunded = Refundable]
  <2>1. Refundable \in Nat
    BY DEF Refundable, TypeOK
  <2>2. response \in Response
    BY <2>1 DEF NoResponse, Response
  <2>3. Stamp(CancelId, body, response) /\ Runs(p, CancelId, body)
    BY <1>11 DEF Cancel
  <2>4. sale' \in SaleRow
    BY <1>11 DEF Cancel, TypeOK
  <2>5. /\ ledger' \in Nat /\ refunds' \in Nat
        /\ stock' \in [charged : Nat, returned : Nat]
        /\ outbox' \in [confirmed : Nat, fullyPaid : Nat, canceled : Nat]
    BY <1>11, <2>1 DEF Cancel, TypeOK
  <2>. QED
    BY <2>2, <2>3, <2>4, <2>5, RunsTypes, StampTypes, CancelIsNoKey
       DEF TypeOK, HandlersOK
<1>12. ASSUME NEW p \in Procs, Abort(p) PROVE TypeOK'
  BY <1>12, LeaveTypes DEF Abort, rowVars, TypeOK, HandlersOK
<1>13. ASSUME NEW p \in Procs,
              LoadForEdit(p) \/ CheckEdit(p) \/ LoadForSave(p)
       PROVE  TypeOK'
  <2>1. CASE LoadForEdit(p)
    BY <2>1, ConstantsAssumption DEF LoadForEdit, rowVars, TypeOK
  <2>2. CASE CheckEdit(p)
    BY <2>2 DEF CheckEdit, rowVars, TypeOK
  <2>3. CASE LoadForSave(p)
    <3>1. /\ sale \in SaleRow
          /\ \A known \in BOOLEAN : [sale EXCEPT !.customer = known] \in SaleRow
          /\ \A q \in Quantities : [sale EXCEPT !.items = q] \in SaleRow
      BY ConstantsAssumption DEF TypeOK
    <3>2. draft' \in [Procs -> SaleRow]
      <4>. HIDE DEF SaleRow
      <4>. QED BY <2>3, <3>1 DEF LoadForSave, TypeOK
    <3>. QED BY <2>3, <3>2 DEF LoadForSave, rowVars, TypeOK
  <2>. QED BY <1>13, <2>1, <2>2, <2>3
<1>14. ASSUME NEW p \in Procs, WriteEdit(p) \/ SaveAggregate(p)
       PROVE  TypeOK'
  <2>1. Overwritten(p) \in SaleRow
    BY DEF Overwritten, TypeOK
  <2>. QED
    BY <1>14, <2>1, LeaveTypes
       DEF WriteEdit, SaveAggregate, Overwrite, TypeOK, HandlersOK
<1>15. CASE UNCHANGED vars
  BY <1>15 DEF vars, TypeOK
<1>. QED
  BY <1>1, <1>2, <1>3, <1>4, <1>5, <1>6, <1>7, <1>8, <1>9, <1>10, <1>11, <1>12,
     <1>13, <1>14, <1>15 DEF Next, Fresh, Money

(* The first state is well formed.                                         *)
LEMMA TypeInit == Init => TypeOK
<1>. SUFFICES ASSUME Init PROVE TypeOK
  OBVIOUS
<1>1. overwritten \in BOOLEAN
  BY DEF Init
<1>. QED
  BY <1>1, NoSaleIsARow DEF Init, TypeOK, FreeSlot, NoResponse, Response

(* The tables and the handlers are well formed in every state of every     *)
(* execution.                                                              *)
THEOREM TypeCorrect == Spec => []TypeOK
BY TypeInit, TypeStep, PTL DEF Spec
-----------------------------------------------------------------------------
(* Keys: one holder, one effect, one answer; whatever the stale writers do *)

KeyInv == TypeOK /\ SlotDiscipline /\ OneAnswerPerKey /\ RefundedAtMostOnce

(* A transaction only begins on a slot that has not had its effect.        *)
LEMMA RunsOnce ==
  ASSUME SlotDiscipline, NEW p \in Procs, NEW sid, NEW body, Runs(p, sid, body)
  PROVE  slots[sid].status # "SUCCEEDED"
BY DEF SlotDiscipline, Runs, SlotFree

(* Stamping a slot leaves no second handler behind it.                     *)
LEMMA StampDiscipline ==
  ASSUME TypeOK, SlotDiscipline, NEW p \in Procs, NEW sid \in SlotIds, NEW body,
         NEW response, Runs(p, sid, body), Stamp(sid, body, response)
  PROVE  SlotDiscipline'
<1>1. CASE Bound(sid, body)
  BY <1>1 DEF Runs, SlotFree, Stamp, procVars, SlotDiscipline, TypeOK
<1>2. CASE ~Bound(sid, body)
  BY <1>2 DEF Runs, Leave, Stamp, SlotDiscipline, TypeOK
<1>. QED BY <1>1, <1>2

(* The first answer to a key is its only one.                              *)
LEMMA StampAnswers ==
  ASSUME TypeOK, OneAnswerPerKey, NEW sid \in SlotIds, NEW body, NEW response,
         slots[sid].status # "SUCCEEDED", Stamp(sid, body, response)
  PROVE  OneAnswerPerKey'
BY DEF TypeOK, OneAnswerPerKey, Stamp

(* A handler that leaves keeps the slots of the others apart.              *)
LEMMA LeaveDiscipline ==
  ASSUME TypeOK, SlotDiscipline, NEW p \in Procs, Leave(p), slots' = slots
  PROVE  SlotDiscipline'
BY DEF TypeOK, SlotDiscipline, Leave

(* Every step keeps what is said about keys.                               *)
LEMMA KeyStep == KeyInv /\ [Next]_vars => KeyInv'
<1>. SUFFICES ASSUME KeyInv, [Next]_vars
              PROVE  SlotDiscipline' /\ OneAnswerPerKey' /\ RefundedAtMostOnce'
  BY TypeStep DEF KeyInv
<1>. USE DEF KeyInv
<1>1. CASE OpenDraft \/ EditDraft \/ ConfirmBotSale \/ MarkDelivered \/ Ship
  <2>1. UNCHANGED <<ledger, refunds, outbox.canceled, slots, procVars, answers>>
    BY <1>1 DEF OpenDraft, EditDraft, ConfirmBotSale, MarkDelivered, Ship, TypeOK
  <2>. QED
    BY <2>1 DEF SlotDiscipline, OneAnswerPerKey, RefundedAtMostOnce, procVars
<1>2. CASE DeleteDraft
  BY <1>2 DEF DeleteDraft, SlotDiscipline, OneAnswerPerKey, RefundedAtMostOnce,
              procVars
<1>3. ASSUME NEW sid \in SlotIds, NEW body \in Bodies(sid), Replay(sid, body)
      PROVE  SlotDiscipline' /\ OneAnswerPerKey' /\ RefundedAtMostOnce'
  BY <1>3 DEF Replay, SlotDiscipline, OneAnswerPerKey, RefundedAtMostOnce,
              procVars, rowVars
<1>4. ASSUME NEW sid \in SlotIds, NEW body \in Bodies(sid), NEW p \in Procs,
             AcquireSlot(p, sid, body)
      PROVE  SlotDiscipline' /\ OneAnswerPerKey' /\ RefundedAtMostOnce'
  <2>1. SlotDiscipline'
    BY <1>4 DEF AcquireSlot, SlotFree, SlotDiscipline, TypeOK
  <2>2. OneAnswerPerKey'
    BY <1>4 DEF AcquireSlot, SlotFree, OneAnswerPerKey, TypeOK
  <2>3. RefundedAtMostOnce'
    BY <1>4, CancelIsNoKey
       DEF AcquireSlot, SlotFree, RefundedAtMostOnce, rowVars, TypeOK
  <2>. QED BY <2>1, <2>2, <2>3
<1>5. ASSUME NEW sid \in SlotIds, NEW body \in Bodies(sid), NEW p \in Procs,
             Charge(p, sid, body)
      PROVE  SlotDiscipline' /\ OneAnswerPerKey' /\ RefundedAtMostOnce'
  <2>1. PICK response : Stamp(sid, body, response)
    BY <1>5 DEF Charge
  <2>2. Runs(p, sid, body)
    BY <1>5 DEF Charge
  <2>3. SlotDiscipline' /\ OneAnswerPerKey'
    BY <2>1, <2>2, RunsOnce, StampDiscipline, StampAnswers
  <2>4. sid # CancelId /\ body.tender \in Nat
    BY <1>5, BodyTypes, CancelIsNoKey DEF Charge, ChargeBody
  <2>5. /\ refunds' = refunds /\ outbox'.canceled = outbox.canceled
        /\ ledger' >= ledger /\ slots'[CancelId] = slots[CancelId]
    BY <1>5, <2>1, <2>4, CancelIsNoKey DEF Charge, Stamp, TypeOK
  <2>6. ledger \in Nat /\ refunds \in Nat /\ ledger' \in Nat
    BY TypeStep DEF TypeOK
  <2>7. RefundedAtMostOnce'
    BY <2>5, <2>6 DEF RefundedAtMostOnce
  <2>. QED BY <2>3, <2>7
<1>6. ASSUME NEW sid \in SlotIds, NEW body \in Bodies(sid), NEW p \in Procs,
             Collect(p, sid, body)
      PROVE  SlotDiscipline' /\ OneAnswerPerKey' /\ RefundedAtMostOnce'
  <2>1. PICK response : Stamp(sid, body, response)
    BY <1>6 DEF Collect
  <2>2. Runs(p, sid, body)
    BY <1>6 DEF Collect
  <2>3. SlotDiscipline' /\ OneAnswerPerKey'
    BY <2>1, <2>2, RunsOnce, StampDiscipline, StampAnswers
  <2>4. sid # CancelId /\ body.amount \in Nat
    BY <1>6, BodyTypes, CancelIsNoKey DEF Collect, CollectionBody
  <2>5. /\ refunds' = refunds /\ outbox'.canceled = outbox.canceled
        /\ ledger' >= ledger /\ slots'[CancelId] = slots[CancelId]
    BY <1>6, <2>1, <2>4, CancelIsNoKey DEF Collect, Stamp, TypeOK
  <2>6. ledger \in Nat /\ refunds \in Nat /\ ledger' \in Nat
    BY TypeStep DEF TypeOK
  <2>7. RefundedAtMostOnce'
    BY <2>5, <2>6 DEF RefundedAtMostOnce
  <2>. QED BY <2>3, <2>7
<1>7. ASSUME NEW body \in Bodies(CancelId), NEW p \in Procs, Cancel(p, body)
      PROVE  SlotDiscipline' /\ OneAnswerPerKey' /\ RefundedAtMostOnce'
  <2>1. PICK response : Stamp(CancelId, body, response)
    BY <1>7 DEF Cancel
  <2>2. Runs(p, CancelId, body)
    BY <1>7 DEF Cancel
  <2>3. SlotDiscipline' /\ OneAnswerPerKey'
    BY <2>1, <2>2, RunsOnce, StampDiscipline, StampAnswers, CancelIsNoKey
  <2>4. refunds = 0 /\ outbox.canceled = 0
    BY <2>2, RunsOnce DEF RefundedAtMostOnce
  <2>5. Refundable \in Nat
    BY DEF Refundable, TypeOK, SaleRow
  <2>6. refunds' = Refundable /\ Refundable <= ledger /\ ledger' = ledger
    BY <1>7, <2>4, <2>5 DEF Cancel
  <2>7. outbox'.canceled = 1
    BY <1>7, <2>4 DEF Cancel, TypeOK
  <2>8. slots'[CancelId].status = "SUCCEEDED"
    BY <2>1, CancelIsNoKey DEF Stamp, TypeOK
  <2>. QED BY <2>3, <2>6, <2>7, <2>8 DEF RefundedAtMostOnce
<1>8. ASSUME NEW p \in Procs, Abort(p) \/ WriteEdit(p) \/ SaveAggregate(p)
      PROVE  SlotDiscipline' /\ OneAnswerPerKey' /\ RefundedAtMostOnce'
  <2>1. Leave(p) /\ UNCHANGED <<ledger, refunds, outbox, slots, answers>>
    BY <1>8 DEF Abort, WriteEdit, SaveAggregate, rowVars
  <2>. QED
    BY <2>1, LeaveDiscipline DEF OneAnswerPerKey, RefundedAtMostOnce
<1>9. ASSUME NEW p \in Procs,
             LoadForEdit(p) \/ CheckEdit(p) \/ LoadForSave(p)
      PROVE  SlotDiscipline' /\ OneAnswerPerKey' /\ RefundedAtMostOnce'
  <2>1. /\ UNCHANGED <<ledger, refunds, outbox, slots, task, answers>>
        /\ \A q \in Procs : pc'[q] = "acquired" => pc[q] = "acquired"
    BY <1>9 DEF LoadForEdit, CheckEdit, LoadForSave, rowVars, TypeOK
  <2>. QED
    BY <2>1 DEF SlotDiscipline, OneAnswerPerKey, RefundedAtMostOnce
<1>10. CASE UNCHANGED vars
  BY <1>10 DEF vars, SlotDiscipline, OneAnswerPerKey, RefundedAtMostOnce
<1>. QED
  BY <1>1, <1>2, <1>3, <1>4, <1>5, <1>6, <1>7, <1>8, <1>9, <1>10
     DEF Next, Fresh, Money

(* Nothing was answered at first.                                          *)
LEMMA KeyInit == Init => KeyInv
BY TypeInit DEF Init, KeyInv, SlotDiscipline, OneAnswerPerKey, RefundedAtMostOnce

(* Whatever the stale writers do: a key has one holder and one effect,     *)
(* every retry of a request gets the answer of the request, and a sale     *)
(* gives its money back at most once.                                      *)
THEOREM KeysAreExactlyOnce ==
  Spec => [](SlotDiscipline /\ OneEffectPerKey)
BY KeyInit, KeyStep, PTL DEF Spec, KeyInv, OneEffectPerKey
-----------------------------------------------------------------------------
(* The books, until a stale save takes back what others decided            *)

SaleInv == TypeOK /\ BooksInv

(* What was taken back stays so.                                           *)
LEMMA OnceOverwritten == [Next]_vars /\ overwritten => overwritten'
BY DEF Next, WriteEdit, SaveAggregate, Overwrite, vars

(* A step that moves no money, no stock, no event and no slot, and leaves  *)
(* the row of the sale alone, keeps the books.                             *)
LEMMA BooksKept ==
  ASSUME Books, UNCHANGED <<sale, ledger, refunds, stock, outbox>>,
         slots'[CancelId].status = "SUCCEEDED"
           <=> slots[CancelId].status = "SUCCEEDED"
  PROVE  Books'
BY DEF Books, Untouched, Sold, Standing, Undone

(* A stale save that takes nothing back changes the customer or the lines  *)
(* of a draft, and nothing of a sale that no longer is one.                *)
LEMMA SaveIsHarmless ==
  ASSUME TypeOK, EditsHoldDrafts, CopiesAgree, NEW p \in Procs,
         WriteEdit(p) \/ SaveAggregate(p), ~TakesBack(p)
  PROVE  \/ sale' = sale
         \/ /\ sale.status = "DRAFT"
            /\ sale' = [sale EXCEPT !.customer = draft[p].customer, !.items = draft[p].items]
<1>. DEFINE copy == draft[p]
<1>1. /\ sale' = [sale EXCEPT !.status = copy.status, !.delivery = copy.delivery,
                             !.customer = copy.customer, !.items = copy.items]
      /\ copy.status = sale.status /\ copy.delivery = sale.delivery
  BY DEF WriteEdit, SaveAggregate, Overwrite, Overwritten, TakesBack
<1>2. \/ copy.status = "DRAFT"
      \/ copy.customer = sale.customer /\ copy.items = sale.items
  BY DEF WriteEdit, SaveAggregate, EditsHoldDrafts, CopiesAgree
<1>3. sale \in SaleRow
  BY DEF TypeOK
<1>. HIDE DEF copy
<1>4. sale' = [sale EXCEPT !.customer = copy.customer, !.items = copy.items]
  BY <1>1, <1>3 DEF SaleRow
<1>5. copy.customer = sale.customer /\ copy.items = sale.items => sale' = sale
  BY <1>3, <1>4 DEF SaleRow
<1>. QED BY <1>1, <1>2, <1>4, <1>5 DEF copy

(* Every step that takes nothing back keeps the books.                     *)
LEMMA BooksStep ==
  ASSUME TypeOK, EditsHoldDrafts, CopiesAgree, Books, [Next]_vars, ~overwritten'
  PROVE  Books'
<1>1. CASE OpenDraft \/ EditDraft
  <2>1. /\ sale.status \in {"NONE", "DRAFT"} /\ sale'.status = "DRAFT"
        /\ sale'.folio = 0 /\ sale'.total = 0 /\ sale'.paid = 0
        /\ sale'.debt = 0 /\ sale'.payment = "NONE"
        /\ UNCHANGED <<ledger, refunds, stock, outbox, slots>>
    BY <1>1 DEF OpenDraft, EditDraft, Editable, NoSale, procVars, TypeOK, SaleRow,
                Books, Untouched
  <2>. QED BY <2>1 DEF Books, Untouched
<1>2. CASE DeleteDraft
  BY <1>2 DEF DeleteDraft, Editable, NoSale, procVars, Books, Untouched
<1>3. CASE ConfirmBotSale
  <2>1. PICK q \in Quantities \ {0} :
          /\ sale' = [NoSale EXCEPT !.status = "CONFIRMED", !.channel = "ONLINE",
                                    !.delivery = "PENDING", !.customer = TRUE,
                                    !.items = q, !.folio = 1, !.total = q,
                                    !.debt = q, !.payment = "CREDIT"]
          /\ stock' = [stock EXCEPT !.charged = @ + q]
    BY <1>3 DEF ConfirmBotSale
  <2>2. q \in Nat /\ q > 0 /\ Untouched
    BY <1>3, ConstantsAssumption DEF ConfirmBotSale, Books
  <2>3. /\ sale'.status = "CONFIRMED" /\ sale'.items = q /\ sale'.total = q
        /\ sale'.paid = 0 /\ sale'.debt = q /\ sale'.payment = "CREDIT"
    BY <2>1 DEF NoSale
  <2>4. /\ stock'.charged = q /\ stock'.returned = 0
        /\ outbox'.confirmed = 1 /\ outbox'.fullyPaid = 0 /\ outbox'.canceled = 0
        /\ ledger' = 0 /\ refunds' = 0
        /\ slots'[CancelId].status # "SUCCEEDED"
    BY <1>3, <2>1, <2>2 DEF ConfirmBotSale, Untouched, procVars
  <2>5. Sold'
    BY <2>2, <2>3, <2>4 DEF Sold, Least, StatusOfPayment
  <2>6. Standing'
    BY <2>2, <2>3, <2>4 DEF Standing
  <2>. QED BY <2>3, <2>4, <2>5, <2>6 DEF Books
<1>4. CASE MarkDelivered \/ Ship
  <2>1. /\ sale.status = "CONFIRMED" /\ sale'.status = "CONFIRMED"
        /\ sale'.items = sale.items /\ sale'.total = sale.total
        /\ sale'.paid = sale.paid /\ sale'.debt = sale.debt
        /\ sale'.payment = sale.payment
        /\ UNCHANGED <<ledger, refunds, stock, outbox, slots>>
    BY <1>4 DEF MarkDelivered, Deliverable, Ship, procVars, TypeOK, SaleRow
  <2>. QED BY <2>1 DEF Books, Sold, Standing
<1>5. ASSUME NEW sid \in SlotIds, NEW body \in Bodies(sid), Replay(sid, body)
      PROVE  Books'
  BY <1>5, BooksKept DEF Replay, rowVars, procVars, Books
<1>6. ASSUME NEW sid \in SlotIds, NEW body \in Bodies(sid), NEW p \in Procs,
             AcquireSlot(p, sid, body)
      PROVE  Books'
  <2>1. slots'[CancelId].status = "SUCCEEDED"
          <=> slots[CancelId].status = "SUCCEEDED"
    BY <1>6, CancelIsNoKey DEF AcquireSlot, SlotFree, TypeOK
  <2>. QED BY <1>6, <2>1, BooksKept DEF AcquireSlot, rowVars
<1>9. ASSUME NEW p \in Procs,
             Abort(p) \/ LoadForEdit(p) \/ CheckEdit(p) \/ LoadForSave(p)
      PROVE  Books'
  BY <1>9, BooksKept DEF Abort, LoadForEdit, CheckEdit, LoadForSave, rowVars
<1>10. ASSUME NEW p \in Procs, WriteEdit(p) \/ SaveAggregate(p)
       PROVE  Books'
  <2>1. ~TakesBack(p) /\ UNCHANGED <<ledger, refunds, stock, outbox, slots>>
    BY <1>10 DEF WriteEdit, SaveAggregate, Overwrite
  <2>2. CASE sale' = sale
    BY <2>1, <2>2, BooksKept
  <2>3. CASE /\ sale.status = "DRAFT"
             /\ sale' = [sale EXCEPT !.customer = draft[p].customer, !.items = draft[p].items]
    <3>1. /\ sale'.status = "DRAFT" /\ sale'.payment = sale.payment
          /\ sale'.folio = sale.folio /\ sale'.total = sale.total
          /\ sale'.paid = sale.paid /\ sale'.debt = sale.debt
      BY <2>3 DEF TypeOK, SaleRow
    <3>. QED BY <2>1, <2>3, <3>1 DEF Books, Untouched
  <2>. QED BY <1>10, <2>1, <2>2, <2>3, SaveIsHarmless
<1>11. CASE UNCHANGED vars
  BY <1>11, BooksKept DEF vars, Books
<1>12. ASSUME NEW sid \in SlotIds, NEW body \in Bodies(sid), NEW p \in Procs,
              Charge(p, sid, body)
       PROVE  Books'
  <2>. DEFINE paid == Least(body.tender, sale.items)
              debt == sale.items - paid
  <2>1. /\ body \in ChargeBody /\ sid # CancelId
    BY <1>12, BodyTypes, CancelIsNoKey DEF Charge
  <2>2. /\ sale.items \in Nat /\ body.tender \in Nat
        /\ paid \in Nat /\ debt \in Nat
    BY <2>1, LeastBounds DEF ChargeBody, TypeOK, SaleRow
  <2>3. sale.status = "DRAFT" /\ Untouched
    BY <1>12 DEF Charge, Chargeable, Books
  <2>4. /\ sale'.status = "CONFIRMED" /\ sale'.items = sale.items
        /\ sale'.total = sale.items /\ sale'.paid = paid /\ sale'.debt = debt
        /\ sale'.payment = StatusOfPayment(paid, sale.items)
    BY <1>12 DEF Charge, TypeOK, SaleRow
  <2>5. ledger' = body.tender /\ refunds' = 0
    BY <1>12, <2>2, <2>3 DEF Charge, Untouched
  <2>6. stock'.charged = sale.items /\ stock'.returned = 0
    BY <1>12, <2>2, <2>3 DEF Charge, Untouched
  <2>7. /\ outbox'.confirmed = 1 /\ outbox'.canceled = 0
        /\ outbox'.fullyPaid = IF debt = 0 THEN 1 ELSE 0
    BY <1>12, <2>3 DEF Charge, Untouched
  <2>8. slots'[CancelId].status # "SUCCEEDED"
    BY <1>12, <2>1, <2>3, CancelIsNoKey DEF Charge, Stamp, Untouched, TypeOK
  <2>10. debt = 0 <=> StatusOfPayment(paid, sale.items) = "PAID"
    BY <2>2 DEF StatusOfPayment
  <2>. HIDE DEF debt
  <2>11. Sold'
    BY <2>4, <2>5, <2>6, <2>7, <2>10 DEF Sold
  <2>12. Standing'
    BY <2>4, <2>5, <2>6, <2>7, <2>8 DEF Standing, debt
  <2>. QED BY <2>4, <2>11, <2>12 DEF Books
<1>13. ASSUME NEW sid \in SlotIds, NEW body \in Bodies(sid), NEW p \in Procs,
              Collect(p, sid, body)
       PROVE  Books'
  <2>1. /\ body \in CollectionBody /\ sid # CancelId
    BY <1>13, BodyTypes, CancelIsNoKey DEF Collect
  <2>2. /\ sale.status = "CONFIRMED" /\ Sold /\ Standing
        /\ ledger < sale.total /\ ledger + body.amount <= sale.total
    BY <1>13 DEF Collect, Collectable, Books
  <2>3. /\ ledger \in Nat /\ body.amount \in Nat /\ body.amount > 0
        /\ sale.total \in Nat
    BY <2>1 DEF CollectionBody, TypeOK, SaleRow
  <2>4. /\ sale'.status = "CONFIRMED" /\ sale'.items = sale.items
        /\ sale'.total = sale.total /\ sale'.paid = ledger + body.amount
        /\ sale'.debt = sale.total - (ledger + body.amount)
        /\ sale'.payment = StatusOfPayment(ledger + body.amount, sale.total)
    <3>. DEFINE paid == ledger + body.amount
                debt == sale.total - paid
                payment == StatusOfPayment(paid, sale.total)
    <3>1. sale' = [sale EXCEPT !.paid = paid, !.debt = debt, !.payment = payment]
      BY <1>13 DEF Collect
    <3>2. sale \in SaleRow
      BY DEF TypeOK
    <3>. HIDE DEF paid, debt, payment
    <3>3. /\ sale'.status = sale.status /\ sale'.items = sale.items
          /\ sale'.total = sale.total /\ sale'.paid = paid
          /\ sale'.debt = debt /\ sale'.payment = payment
      BY <3>1, <3>2 DEF SaleRow
    <3>. QED BY <2>2, <3>3 DEF paid, debt, payment
  <2>5. ledger' = ledger + body.amount /\ UNCHANGED <<refunds, stock>>
    BY <1>13 DEF Collect
  <2>6. outbox.fullyPaid = 0
    BY <2>2, <2>3 DEF Sold, Least, StatusOfPayment
  <2>7. /\ outbox'.confirmed = 1 /\ outbox'.canceled = 0
        /\ outbox'.fullyPaid =
             IF sale.total - (ledger + body.amount) = 0 THEN 1 ELSE 0
    BY <1>13, <2>2, <2>6 DEF Collect, Sold, Standing, TypeOK
  <2>8. slots'[CancelId].status # "SUCCEEDED"
    BY <1>13, <2>1, <2>2, CancelIsNoKey DEF Collect, Stamp, Standing, TypeOK
  <2>10. Sold'
    BY <2>2, <2>3, <2>4, <2>5, <2>7 DEF Sold, Least, StatusOfPayment
  <2>11. Standing'
    BY <2>2, <2>4, <2>5, <2>7, <2>8 DEF Standing
  <2>. QED BY <2>4, <2>10, <2>11 DEF Books
<1>14. ASSUME NEW body \in Bodies(CancelId), NEW p \in Procs, Cancel(p, body)
       PROVE  Books'
  <2>1. /\ sale.status = "CONFIRMED" /\ Sold /\ Standing
        /\ sale.delivery = "PENDING"
    BY <1>14 DEF Cancel, Cancelable, Books, TypeOK, SaleRow, DeliveryStatus
  <2>2. /\ sale'.status = "CANCELED" /\ sale'.items = sale.items
        /\ sale'.total = sale.total /\ sale'.paid = sale.paid
        /\ sale'.payment = sale.payment /\ sale'.delivery = "PENDING"
    BY <1>14, <2>1 DEF Cancel, TypeOK, SaleRow
  <2>3. Refundable = sale.paid
    BY <2>1 DEF Refundable, Sold, StatusOfPayment
  <2>4. refunds' = sale.paid /\ ledger' = ledger
    BY <1>14, <2>1, <2>3 DEF Cancel, Standing, TypeOK, SaleRow
  <2>5. stock'.charged = stock.charged /\ stock'.returned = stock.charged
    BY <1>14, <2>1 DEF Cancel, Standing, TypeOK
  <2>6. /\ outbox'.confirmed = outbox.confirmed
        /\ outbox'.fullyPaid = outbox.fullyPaid
        /\ outbox'.canceled = 1
    BY <1>14, <2>1 DEF Cancel, Standing, TypeOK
  <2>7. slots'[CancelId].status = "SUCCEEDED"
    BY <1>14, CancelIsNoKey DEF Cancel, Stamp, TypeOK
  <2>9. Sold'
    BY <2>1, <2>2, <2>4, <2>5, <2>6 DEF Sold
  <2>10. Undone'
    BY <2>2, <2>4, <2>5, <2>6, <2>7 DEF Undone
  <2>. QED BY <2>2, <2>9, <2>10 DEF Books
<1>. QED
  BY <1>1, <1>2, <1>3, <1>4, <1>5, <1>6, <1>9, <1>10, <1>11, <1>12, <1>13, <1>14
     DEF Next, Fresh, Money

-----------------------------------------------------------------------------
(* What a step may never do                                                *)

Binding ==
  sale.status = "CONFIRMED" /\ ~overwritten' =>
    /\ sale'.status \in {"CONFIRMED", "CANCELED"}
    /\ sale'.items = sale.items
    /\ sale'.customer = sale.customer
    /\ sale'.folio = sale.folio
    /\ sale'.total = sale.total
    /\ sale'.debt <= sale.debt

Frozen == sale.status = "CANCELED" /\ ~overwritten' => sale' = sale

(* What a step may not undo, from balanced books.                          *)
LEMMA StepIsBinding ==
  ASSUME TypeOK, EditsHoldDrafts, CopiesAgree, Books, [Next]_vars, ~overwritten'
  PROVE  Binding /\ Frozen
<1>0. /\ sale \in SaleRow /\ sale.debt \in Nat /\ sale.total \in Nat
      /\ sale.paid \in Nat
  BY DEF TypeOK, SaleRow
<1>1. CASE OpenDraft \/ EditDraft \/ DeleteDraft \/ ConfirmBotSale
  BY <1>1 DEF OpenDraft, EditDraft, DeleteDraft, ConfirmBotSale, Editable,
              Binding, Frozen
<1>2. CASE MarkDelivered \/ Ship
  BY <1>0, <1>2 DEF MarkDelivered, Deliverable, Ship, Binding, Frozen, SaleRow
<1>3. ASSUME NEW sid \in SlotIds, NEW body \in Bodies(sid),
             \/ Replay(sid, body)
             \/ \E p \in Procs : AcquireSlot(p, sid, body)
      PROVE  Binding /\ Frozen
  BY <1>0, <1>3 DEF Replay, AcquireSlot, rowVars, Binding, Frozen
<1>4. ASSUME NEW sid, NEW body, NEW p \in Procs, Charge(p, sid, body)
      PROVE  Binding /\ Frozen
  BY <1>4 DEF Charge, Chargeable, Binding, Frozen
<1>5. ASSUME NEW sid \in SlotIds, NEW body \in Bodies(sid), NEW p \in Procs,
             Collect(p, sid, body)
      PROVE  Binding /\ Frozen
  <2>1. body.amount \in Nat /\ body.amount > 0
    BY <1>5, BodyTypes DEF Collect, CollectionBody
  <2>2. sale.status = "CONFIRMED" /\ Sold /\ Standing /\ ledger < sale.total
    BY <1>5 DEF Collect, Collectable, Books
  <2>3. ledger \in Nat /\ sale.debt = sale.total - ledger
    BY <1>0, <2>2 DEF Sold, Standing, Least, TypeOK
  <2>. DEFINE paid == ledger + body.amount
              debt == sale.total - paid
              payment == StatusOfPayment(paid, sale.total)
  <2>4. sale' = [sale EXCEPT !.paid = paid, !.debt = debt, !.payment = payment]
    BY <1>5 DEF Collect
  <2>5. debt <= sale.debt
    BY <1>0, <2>1, <2>3
  <2>. HIDE DEF paid, debt, payment
  <2>6. /\ sale'.status = sale.status /\ sale'.items = sale.items
        /\ sale'.total = sale.total /\ sale'.folio = sale.folio
        /\ sale'.customer = sale.customer /\ sale'.debt = debt
    BY <1>0, <2>4 DEF SaleRow
  <2>. QED BY <2>2, <2>5, <2>6 DEF Binding, Frozen
<1>6. ASSUME NEW body, NEW p \in Procs, Cancel(p, body)
      PROVE  Binding /\ Frozen
  <2>1. sale.status = "CONFIRMED"
    BY <1>6 DEF Cancel, Cancelable
  <2>. DEFINE debt == IF sale.payment = "CREDIT" \/ sale.paid = 0 THEN 0
                      ELSE sale.debt
  <2>2. sale' = [sale EXCEPT !.status = "CANCELED", !.debt = debt]
    BY <1>6 DEF Cancel
  <2>3. debt <= sale.debt
    BY <1>0
  <2>. HIDE DEF debt
  <2>4. /\ sale'.status = "CANCELED" /\ sale'.items = sale.items
        /\ sale'.total = sale.total /\ sale'.folio = sale.folio
        /\ sale'.customer = sale.customer /\ sale'.debt = debt
    BY <1>0, <2>2 DEF SaleRow
  <2>. QED BY <2>1, <2>3, <2>4 DEF Binding, Frozen
<1>7. ASSUME NEW p \in Procs,
             Abort(p) \/ LoadForEdit(p) \/ CheckEdit(p) \/ LoadForSave(p)
      PROVE  Binding /\ Frozen
  BY <1>0, <1>7 DEF Abort, LoadForEdit, CheckEdit, LoadForSave, rowVars, Binding, Frozen
<1>8. ASSUME NEW p \in Procs, WriteEdit(p) \/ SaveAggregate(p)
      PROVE  Binding /\ Frozen
  <2>1. ~TakesBack(p)
    BY <1>8 DEF WriteEdit, SaveAggregate, Overwrite
  <2>2. sale' = sale \/ sale.status = "DRAFT"
    BY <1>8, <2>1, SaveIsHarmless
  <2>. QED BY <1>0, <2>2 DEF Binding, Frozen
<1>9. CASE UNCHANGED vars
  BY <1>0, <1>9 DEF vars, Binding, Frozen
<1>. QED
  BY <1>1, <1>2, <1>3, <1>4, <1>5, <1>6, <1>7, <1>8, <1>9
     DEF Next, Fresh, Money

-----------------------------------------------------------------------------
(* The invariant of a sale *)

(* A copy of the sale is what its handler has read.                        *)
LEMMA CopiesAre ==
  ASSUME TypeOK, [Next]_vars, NEW q \in Procs
  PROVE  \/ pc'[q] \in {"idle", "acquired"}
         \/ /\ pc'[q] \in {"editing", "checked"} /\ pc[q] \in {"editing", "checked"}
            /\ draft'[q] = draft[q]
         \/ pc'[q] = "editing" /\ draft'[q].status = "DRAFT"
         \/ pc'[q] = "saving" /\ pc[q] = "saving" /\ draft'[q] = draft[q]
         \/ pc'[q] = "saving" /\ draft'[q].status = "DRAFT"
         \/ pc'[q] = "saving" /\ draft'[q] = sale /\ sale' = sale /\ sale.status = "CONFIRMED"
<1>. DEFINE Same == pc'[q] = pc[q] /\ draft'[q] = draft[q]
            Out == pc'[q] \in {"idle", "acquired"}
<1>0. /\ pc[q] \in {"idle", "acquired", "editing", "checked", "saving"}
      /\ pc \in [Procs -> {"idle", "acquired", "editing", "checked", "saving"}]
      /\ draft \in [Procs -> SaleRow] /\ sale \in SaleRow
  BY DEF TypeOK
<1>1. CASE \/ OpenDraft \/ EditDraft \/ DeleteDraft \/ ConfirmBotSale \/ MarkDelivered \/ Ship
           \/ UNCHANGED vars
  <2>. Same
    BY <1>1 DEF OpenDraft, EditDraft, DeleteDraft, ConfirmBotSale, MarkDelivered, Ship,
                procVars, vars
  <2>. QED BY <1>0
<1>2. ASSUME NEW sid \in SlotIds, NEW body \in Bodies(sid), Replay(sid, body) PROVE Same
  BY <1>2 DEF Replay, procVars
<1>3. ASSUME NEW sid \in SlotIds, NEW body \in Bodies(sid), NEW p \in Procs,
             AcquireSlot(p, sid, body)
      PROVE  Same \/ Out
  BY <1>0, <1>3 DEF AcquireSlot
<1>4. ASSUME NEW sid \in SlotIds, NEW body \in Bodies(sid), NEW p \in Procs,
             Money(p, sid, body)
      PROVE  Same \/ Out
  <2>1. Runs(p, sid, body)
    BY <1>4 DEF Money, Charge, Collect, Cancel
  <2>. QED BY <1>0, <2>1 DEF Runs, Leave, procVars
<1>5. ASSUME NEW p \in Procs, Abort(p) \/ WriteEdit(p) \/ SaveAggregate(p)
      PROVE  Same \/ Out
  BY <1>0, <1>5 DEF Abort, WriteEdit, SaveAggregate, Leave
<1>6. ASSUME NEW p \in Procs, CheckEdit(p)
      PROVE  \/ Same
             \/ pc'[q] = "checked" /\ pc[q] = "editing" /\ draft'[q] = draft[q]
  BY <1>0, <1>6 DEF CheckEdit
<1>7. ASSUME NEW p \in Procs, LoadForEdit(p)
      PROVE  \/ Same
             \/ pc'[q] = "editing" /\ draft'[q].status = "DRAFT"
  <2>1. PICK i \in Quantities : draft' = [draft EXCEPT ![p] = [sale EXCEPT !.items = i]]
    BY <1>7 DEF LoadForEdit
  <2>2. [sale EXCEPT !.items = i].status = "DRAFT"
    BY <1>0, <1>7 DEF LoadForEdit, SaleRow
  <2>. QED BY <1>0, <1>7, <2>1, <2>2 DEF LoadForEdit
<1>8. ASSUME NEW p \in Procs, LoadForSave(p)
      PROVE  \/ Same
             \/ pc'[q] = "saving" /\ draft'[q].status = "DRAFT"
             \/ pc'[q] = "saving" /\ draft'[q] = sale /\ sale' = sale /\ sale.status = "CONFIRMED"
  <2>1. PICK copy : /\ draft' = [draft EXCEPT ![p] = copy]
                    /\ copy = sale \/ copy.status = "DRAFT"
    <3>1. CASE draft' = [draft EXCEPT ![p] = sale]
      BY <3>1
    <3>2. ASSUME NEW known \in BOOLEAN, sale.status = "DRAFT",
                 draft' = [draft EXCEPT ![p] = [sale EXCEPT !.customer = known]]
          PROVE  \E copy : /\ draft' = [draft EXCEPT ![p] = copy]
                           /\ copy = sale \/ copy.status = "DRAFT"
      <4>1. [sale EXCEPT !.customer = known].status = "DRAFT"
        BY <1>0, <3>2 DEF SaleRow
      <4>. QED BY <3>2, <4>1
    <3>3. ASSUME NEW i \in Quantities, sale.status = "DRAFT",
                 draft' = [draft EXCEPT ![p] = [sale EXCEPT !.items = i]]
          PROVE  \E copy : /\ draft' = [draft EXCEPT ![p] = copy]
                           /\ copy = sale \/ copy.status = "DRAFT"
      <4>1. [sale EXCEPT !.items = i].status = "DRAFT"
        BY <1>0, <3>3 DEF SaleRow
      <4>. QED BY <3>3, <4>1
    <3>. QED BY <1>8, <3>1, <3>2, <3>3 DEF LoadForSave
  <2>2. /\ sale' = sale /\ sale.status \in {"DRAFT", "CONFIRMED"}
        /\ pc' = [pc EXCEPT ![p] = "saving"]
    BY <1>8 DEF LoadForSave, rowVars
  <2>. QED BY <1>0, <2>1, <2>2
<1>. QED
  BY <1>0, <1>1, <1>2, <1>3, <1>4, <1>5, <1>6, <1>7, <1>8 DEF Next, Fresh

(* Every step keeps the invariant.                                         *)
LEMMA SaleInvStep == SaleInv /\ [Next]_vars => SaleInv'
<1>. SUFFICES ASSUME SaleInv, [Next]_vars PROVE SaleInv'
  OBVIOUS
<1>1. TypeOK /\ EditsHoldDrafts /\ TypeOK'
  BY TypeStep DEF SaleInv, BooksInv
<1>2. EditsHoldDrafts'
  <2>. SUFFICES ASSUME NEW q \in Procs, pc'[q] \in {"editing", "checked"}
                PROVE  draft'[q].status = "DRAFT"
    BY DEF EditsHoldDrafts
  <2>. QED BY <1>1, CopiesAre DEF EditsHoldDrafts
<1>3. ASSUME ~overwritten' PROVE Books' /\ CopiesAgree'
  <2>1. Books /\ CopiesAgree
    BY <1>3, OnceOverwritten DEF SaleInv, BooksInv
  <2>2. Books' /\ Binding /\ Frozen
    BY <1>1, <1>3, <2>1, BooksStep, StepIsBinding
  <2>3. CopiesAgree'
    <3>. SUFFICES ASSUME NEW q \in Procs, pc'[q] = "saving", draft'[q].status # "DRAFT"
                  PROVE  /\ draft'[q].status = "CONFIRMED"
                         /\ sale'.status \in {"CONFIRMED", "CANCELED"}
                         /\ draft'[q].items = sale'.items
                         /\ draft'[q].customer = sale'.customer
      BY DEF CopiesAgree
    <3>1. CASE draft'[q] = sale /\ sale' = sale /\ sale.status = "CONFIRMED"
      BY <3>1
    <3>2. CASE pc[q] = "saving" /\ draft'[q] = draft[q]
      BY <1>3, <2>1, <2>2, <3>2 DEF CopiesAgree, Binding, Frozen
    <3>. QED BY <1>1, <3>1, <3>2, CopiesAre
  <2>. QED BY <2>2, <2>3
<1>. QED BY <1>1, <1>2, <1>3 DEF SaleInv, BooksInv

(* The books are balanced at first.                                        *)
LEMMA SaleInvInit == Init => SaleInv
BY TypeInit, CancelIsNoKey
   DEF Init, SaleInv, BooksInv, EditsHoldDrafts, CopiesAgree, Books, Untouched, NoSale, FreeSlot

(* So they are balanced until something is taken back.                     *)
LEMMA SaleInvariant == Spec => []SaleInv
BY SaleInvInit, SaleInvStep, PTL DEF Spec

(* Balanced books are what the run checks, part by part.                   *)
LEMMA BooksSafe == SaleInv => BooksAgree /\ CancelSlotTellsTruth
<1>. SUFFICES ASSUME TypeOK, Books PROVE BooksAgree /\ CancelSlotTellsTruth
  BY DEF SaleInv, BooksInv, BooksAgree, CancelSlotTellsTruth
<1>1. /\ sale.status \in SaleStatus /\ ledger \in Nat
      /\ sale.total \in Nat /\ sale.paid \in Nat /\ sale.debt \in Nat
  BY DEF TypeOK, SaleRow
<1>2. MoneyBalanced
  BY <1>1 DEF MoneyBalanced, Books, Sold, Standing, Least, StatusOfPayment
<1>3. StockMatchesSale
  BY <1>1 DEF StockMatchesSale, SaleStatus, Books, Untouched, Sold, Standing,
              Undone
<1>4. RefundsCoverPaid
  BY <1>1 DEF RefundsCoverPaid, SaleStatus, Books, Untouched, Standing, Undone
<1>5. EventsMatchSale
  BY <1>1 DEF EventsMatchSale, SaleStatus, Books, Untouched, Sold, Standing,
              Undone
<1>6. CanceledNeverDelivered /\ CancelSlotTellsTruth
  BY <1>1 DEF CanceledNeverDelivered, CancelSlotTellsTruth, SaleStatus, Books,
              Untouched, Standing, Undone
<1>. QED BY <1>2, <1>3, <1>4, <1>5, <1>6 DEF BooksAgree

(* The money, the stock, the refunds and the events of a sale agree with   *)
(* each other after every step of every handler, goods that left were not  *)
(* refunded, and the slot of the cancellation tells whether the sale is    *)
(* canceled: until a save of a stale copy (saveDraftItems, save) takes     *)
(* back a status or a delivery, and not a step less.                       *)
THEOREM BooksBalance == Spec => [](BooksAgree /\ CancelSlotTellsTruth)
BY SaleInvariant, BooksSafe, PTL
-----------------------------------------------------------------------------
(* A confirmed sale keeps what was agreed and never owes more than before, *)
(* and a canceled one never changes again, whatever stale copies are       *)
(* saved: unless the save takes back the status itself.                    *)
THEOREM ConfirmationIsBinding == Spec => ConfirmedIsBinding /\ CanceledIsFinal
<1>1. SaleInv /\ [Next]_vars => [Binding]_vars /\ [Frozen]_vars
  <2>. SUFFICES ASSUME SaleInv, [Next]_vars PROVE Binding /\ Frozen
    OBVIOUS
  <2>1. CASE overwritten'
    BY <2>1 DEF Binding, Frozen
  <2>2. CASE ~overwritten'
    BY <2>2, OnceOverwritten, StepIsBinding DEF SaleInv, BooksInv
  <2>. QED BY <2>1, <2>2
<1>. QED
  BY <1>1, SaleInvariant, PTL
     DEF Spec, ConfirmedIsBinding, CanceledIsFinal, Binding, Frozen

-----------------------------------------------------------------------------
(* Which stale writer takes a sale back to DRAFT                           *)

NobodyEdits == \A p \in Procs : pc[p] \notin {"editing", "checked"}

StaysOut == sale.status = "CONFIRMED" => sale'.status # "DRAFT"

LEMMA RunsNoEdit ==
  ASSUME TypeOK, NobodyEdits, NEW sid, NEW body, NEW p \in Procs,
         Runs(p, sid, body) \/ Leave(p)
  PROVE  NobodyEdits'
BY DEF Runs, Leave, NobodyEdits, TypeOK, procVars

LEMMA StepStaysOut ==
  ASSUME "edit" \notin StaleWriters
  PROVE  TypeOK /\ NobodyEdits /\ [Next]_vars => StaysOut /\ NobodyEdits'
<1>. SUFFICES ASSUME TypeOK, NobodyEdits, [Next]_vars PROVE StaysOut /\ NobodyEdits'
  OBVIOUS
<1>1. sale \in SaleRow /\ pc \in [Procs -> {"idle", "acquired", "editing", "checked", "saving"}]
  BY DEF TypeOK
<1>2. CASE OpenDraft \/ EditDraft \/ DeleteDraft \/ ConfirmBotSale
  BY <1>2 DEF OpenDraft, EditDraft, DeleteDraft, ConfirmBotSale, Editable,
              procVars, StaysOut, NobodyEdits
<1>3. CASE MarkDelivered \/ Ship
  BY <1>1, <1>3 DEF MarkDelivered, Deliverable, Ship, procVars, SaleRow,
                    StaysOut, NobodyEdits
<1>4. ASSUME NEW sid \in SlotIds, NEW body \in Bodies(sid), Replay(sid, body)
      PROVE  StaysOut /\ NobodyEdits'
  BY <1>4 DEF Replay, rowVars, procVars, StaysOut, NobodyEdits
<1>5. ASSUME NEW sid \in SlotIds, NEW body \in Bodies(sid), NEW p \in Procs,
             AcquireSlot(p, sid, body)
      PROVE  StaysOut /\ NobodyEdits'
  BY <1>1, <1>5 DEF AcquireSlot, rowVars, StaysOut, NobodyEdits
<1>6. ASSUME NEW sid, NEW body, NEW p \in Procs, Charge(p, sid, body)
      PROVE  StaysOut /\ NobodyEdits'
  BY <1>6, RunsNoEdit DEF Charge, Chargeable, StaysOut
<1>7. ASSUME NEW sid, NEW body, NEW p \in Procs, Collect(p, sid, body)
      PROVE  StaysOut /\ NobodyEdits'
  <2>1. sale'.status = sale.status
    BY <1>1, <1>7 DEF Collect, SaleRow
  <2>2. NobodyEdits'
    BY <1>7, RunsNoEdit DEF Collect
  <2>. QED
    BY <2>1, <2>2 DEF StaysOut
<1>8. ASSUME NEW body, NEW p \in Procs, Cancel(p, body)
      PROVE  StaysOut /\ NobodyEdits'
  <2>1. sale'.status = "CANCELED"
    BY <1>1, <1>8 DEF Cancel, SaleRow
  <2>2. NobodyEdits'
    BY <1>8, RunsNoEdit DEF Cancel
  <2>. QED
    BY <2>1, <2>2 DEF StaysOut
<1>9. ASSUME NEW p \in Procs, Abort(p) PROVE StaysOut /\ NobodyEdits'
  BY <1>9, RunsNoEdit DEF Abort, rowVars, StaysOut
<1>10. ASSUME NEW p \in Procs, LoadForEdit(p) \/ CheckEdit(p) \/ WriteEdit(p)
       PROVE  FALSE
  BY <1>10 DEF LoadForEdit, CheckEdit, WriteEdit, NobodyEdits
<1>11. ASSUME NEW p \in Procs, LoadForSave(p) PROVE StaysOut /\ NobodyEdits'
  BY <1>1, <1>11 DEF LoadForSave, rowVars, StaysOut, NobodyEdits
<1>12. ASSUME NEW p \in Procs, SaveAggregate(p) PROVE StaysOut /\ NobodyEdits'
  <2>1. sale'.status = draft[p].status
    BY <1>1, <1>12 DEF SaveAggregate, Overwrite, Overwritten, SaleRow
  <2>2. NobodyEdits'
    BY <1>12, RunsNoEdit DEF SaveAggregate
  <2>. QED
    BY <1>12, <2>1, <2>2 DEF SaveAggregate, SaveAllowed, StaysOut
<1>13. CASE UNCHANGED vars
  BY <1>13 DEF vars, rowVars, procVars, StaysOut, NobodyEdits
<1>. QED
  BY <1>2, <1>3, <1>4, <1>5, <1>6, <1>7, <1>8, <1>9, <1>10, <1>11, <1>12, <1>13
     DEF Next, Fresh, Money

(* Only the writer that reads the status of a draft without a lock         *)
(* (saveDraftItems) takes a charged sale back to DRAFT: the other one      *)
(* (save) may be as stale as it likes, for it compares under the lock.     *)
THEOREM OnlyEditsReopenDrafts ==
  ASSUME "edit" \notin StaleWriters
  PROVE  Spec => ConfirmedStaysOutOfDraft
<1>1. Init => NobodyEdits
  BY DEF Init, NobodyEdits
<1>2. TypeOK /\ NobodyEdits /\ [Next]_vars => [StaysOut]_vars /\ NobodyEdits'
  BY StepStaysOut
<1>. QED
  BY <1>1, <1>2, TypeCorrect, PTL DEF Spec, ConfirmedStaysOutOfDraft, StaysOut

-----------------------------------------------------------------------------
(* The handlers implement the promise                                      *)

used == {sid \in SlotIds : slots[sid].status = "SUCCEEDED"}

(* A stamped slot is one more key that had its effect.                     *)
LEMMA StampUses ==
  ASSUME TypeOK, NEW sid \in SlotIds, NEW body, NEW response,
         Stamp(sid, body, response)
  PROVE  used' = used \cup {sid}
BY DEF used, Stamp, TypeOK

(* A step that neither stamps a slot nor sells, cancels or collects is     *)
(* invisible to the customer and to the books.                             *)
LEMMA Invisible ==
  ASSUME sale'.status = sale.status, sale'.total = sale.total,
         UNCHANGED <<ledger, refunds, stock, overwritten>>, used' = used
  PROVE  UNCHANGED Promise!vars
BY DEF Promise!vars, Phase, used

(* The first state maps to the first state of the promise.                 *)
LEMMA PromiseInit == Init => Promise!Init
BY DEF Init, Promise!Init, NoSale, Phase, FreeSlot

(* Every step maps to a step of the promise, or to none.                   *)
LEMMA PromiseStep ==
  ASSUME KeyInv, EditsHoldDrafts, CopiesAgree, Books, TypeOK', Books', [Next]_vars,
         ~overwritten'
  PROVE  \/ Promise!Request /\ UNCHANGED overwritten
         \/ UNCHANGED Promise!vars
<1>. USE DEF KeyInv
<1>u. UNCHANGED overwritten
  BY OnceOverwritten DEF TypeOK
<1>0. /\ sale \in SaleRow /\ sale' \in SaleRow
      /\ ledger \in Nat /\ ledger' \in Nat
      /\ sale.total \in Nat /\ sale'.total \in Nat /\ sale.items \in Nat
  BY DEF TypeOK, SaleRow
<1>1. CASE OpenDraft
  <2>1. /\ sale.status = "NONE" /\ sale'.status = "DRAFT"
        /\ sale.total = 0 /\ sale'.total = 0
        /\ UNCHANGED <<ledger, refunds, stock, slots>>
    BY <1>1 DEF OpenDraft, NoSale, Books, Untouched
  <2>2. Promise!Open
    BY <2>1 DEF Promise!Open, Phase
  <2>. QED BY <2>2, <1>u DEF Promise!Request
<1>2. CASE EditDraft \/ MarkDelivered \/ Ship
  <2>1. /\ sale'.status = sale.status /\ sale'.total = sale.total
        /\ UNCHANGED <<ledger, refunds, stock, slots>>
    BY <1>0, <1>2 DEF EditDraft, MarkDelivered, Ship, SaleRow
  <2>. QED BY <2>1, Invisible, <1>u DEF used
<1>3. CASE DeleteDraft
  <2>1. /\ sale.status = "DRAFT" /\ sale'.status = "DELETED"
        /\ sale.total = 0 /\ sale'.total = 0
        /\ UNCHANGED <<ledger, refunds, stock, slots>>
    BY <1>3 DEF DeleteDraft, Editable, NoSale, Books, Untouched
  <2>2. Promise!Discard
    BY <2>1 DEF Promise!Discard, Phase
  <2>. QED BY <2>2, <1>u DEF Promise!Request
<1>4. CASE ConfirmBotSale
  <2>1. sale.status = "NONE" /\ Untouched
    BY <1>4 DEF ConfirmBotSale, Books
  <2>2. /\ sale'.status = "CONFIRMED" /\ Sold' /\ Standing'
        /\ UNCHANGED <<ledger, refunds, slots>>
    BY <1>4 DEF ConfirmBotSale, NoSale, Books
  <2>3. stock'.charged - stock'.returned = sale'.total
    BY <1>0, <2>2 DEF Sold, Standing
  <2>4. Promise!Order
    BY <1>0, <2>1, <2>2, <2>3 DEF Promise!Order, Phase
  <2>. QED BY <2>4, <1>u DEF Promise!Request
<1>5. ASSUME NEW sid \in SlotIds, NEW body \in Bodies(sid), Replay(sid, body)
      PROVE  UNCHANGED Promise!vars
  BY <1>5, Invisible, <1>u DEF Replay, rowVars, used
<1>6. ASSUME NEW sid \in SlotIds, NEW body, NEW p \in Procs,
             AcquireSlot(p, sid, body)
      PROVE  UNCHANGED Promise!vars
  <2>1. used' = used
    BY <1>6 DEF AcquireSlot, SlotFree, used, TypeOK
  <2>. QED BY <1>6, <2>1, Invisible, <1>u DEF AcquireSlot, rowVars
<1>7. ASSUME NEW sid \in SlotIds, NEW body, NEW p \in Procs,
             Charge(p, sid, body)
      PROVE  Promise!Request
  <2>1. PICK response : Stamp(sid, body, response)
    BY <1>7 DEF Charge
  <2>2. used' = used \cup {sid} /\ sid \notin used /\ sid \in ChargeIds
    BY <1>7, <2>1, StampUses, RunsOnce DEF Charge, used
  <2>3. sale.status = "DRAFT" /\ Untouched
    BY <1>7 DEF Charge, Chargeable, Books
  <2>4. /\ sale'.status = "CONFIRMED" /\ Sold' /\ Standing'
        /\ refunds' = refunds
    BY <1>0, <1>7 DEF Charge, SaleRow, Books
  <2>5. stock'.charged - stock'.returned = sale'.total
    BY <1>0, <2>4 DEF Sold, Standing
  <2>6. Promise!Agree(sid)
    BY <1>0, <2>2, <2>3, <2>4, <2>5 DEF Promise!Agree, Phase, used
  <2>. QED BY <2>2, <2>6 DEF Promise!Request
<1>8. ASSUME NEW sid \in SlotIds, NEW body \in Bodies(sid), NEW p \in Procs,
             Collect(p, sid, body)
      PROVE  Promise!Request
  <2>1. PICK response : Stamp(sid, body, response)
    BY <1>8 DEF Collect
  <2>2. used' = used \cup {sid} /\ sid \notin used /\ sid \in PaymentIds
    BY <1>8, <2>1, StampUses, RunsOnce DEF Collect, used
  <2>3. body.amount \in Nat /\ body.amount > 0
    BY <1>8, <2>2, BodyTypes DEF CollectionBody
  <2>4. /\ sale.status = "CONFIRMED" /\ sale'.status = "CONFIRMED"
        /\ sale'.total = sale.total /\ UNCHANGED <<refunds, stock>>
        /\ ledger' = ledger + body.amount /\ ledger' <= sale.total
    BY <1>0, <1>8 DEF Collect, Collectable, SaleRow
  <2>5. Promise!Pay(sid)
    BY <1>0, <2>2, <2>3, <2>4 DEF Promise!Pay, Phase, used
  <2>. QED BY <2>2, <2>5 DEF Promise!Request
<1>9. ASSUME NEW body, NEW p \in Procs, Cancel(p, body)
      PROVE  Promise!Request
  <2>1. PICK response : Stamp(CancelId, body, response)
    BY <1>9 DEF Cancel
  <2>2. used' = used \cup {CancelId} /\ CancelId \notin used
    BY <1>9, <2>1, StampUses, RunsOnce, CancelIsNoKey DEF Cancel, used
  <2>3. sale.status = "CONFIRMED" /\ Sold
    BY <1>9 DEF Cancel, Cancelable, Books
  <2>4. /\ sale'.status = "CANCELED" /\ sale'.total = sale.total /\ Undone'
        /\ sale'.paid = sale.paid /\ ledger' = ledger
    BY <1>0, <1>9 DEF Cancel, SaleRow, Books
  <2>5. refunds' = IF ledger <= sale.total THEN ledger ELSE sale.total
    BY <2>3, <2>4 DEF Sold, Undone, Least
  <2>6. stock'.charged - stock'.returned = 0
    BY <2>4 DEF Undone, TypeOK
  <2>7. Promise!Undo
    BY <1>0, <2>2, <2>3, <2>4, <2>5, <2>6 DEF Promise!Undo, Phase, used
  <2>. QED BY <2>7 DEF Promise!Request
<1>10. ASSUME NEW p \in Procs,
              Abort(p) \/ LoadForEdit(p) \/ CheckEdit(p) \/ LoadForSave(p)
       PROVE  UNCHANGED Promise!vars
  BY <1>10, Invisible, <1>u
     DEF Abort, LoadForEdit, CheckEdit, LoadForSave, rowVars, used
<1>11. ASSUME NEW p \in Procs, WriteEdit(p) \/ SaveAggregate(p)
       PROVE  UNCHANGED Promise!vars
  <2>1. ~TakesBack(p) /\ UNCHANGED <<ledger, refunds, stock, slots>>
    BY <1>11 DEF WriteEdit, SaveAggregate, Overwrite
  <2>2. sale'.status = sale.status /\ sale'.total = sale.total
    <3>1. CASE sale' = [sale EXCEPT !.customer = draft[p].customer, !.items = draft[p].items]
      BY <1>0, <3>1 DEF SaleRow
    <3>. QED BY <1>11, <2>1, <3>1, SaveIsHarmless
  <2>. QED BY <2>1, <2>2, Invisible, <1>u DEF used
<1>12. CASE UNCHANGED vars
  BY <1>12, Invisible, <1>u DEF vars, used
<1>. QED
  BY <1>1, <1>2, <1>3, <1>4, <1>5, <1>6, <1>7, <1>8, <1>9, <1>10, <1>11, <1>12, <1>u
     DEF Next, Fresh, Money

(* Seen from the customer and the books, every handler is an indivisible   *)
(* request that happens once per key, or nothing at all, until a stale     *)
(* save takes back what others decided.                                    *)
THEOREM SaleKeepsPromise == Spec => PromiseKept
<1>1. Spec => []KeyInv
  BY KeyInit, KeyStep, PTL DEF Spec
<1>2. KeyInv /\ SaleInv /\ SaleInv' /\ [Next]_vars => [Promise!Next]_(Promise!vars)
  <2>. SUFFICES ASSUME KeyInv, SaleInv, SaleInv', [Next]_vars
                PROVE  Promise!Next \/ UNCHANGED Promise!vars
    OBVIOUS
  <2>1. CASE overwritten'
    BY <2>1 DEF Promise!Next
  <2>2. CASE ~overwritten'
    <3>1. ~overwritten
      BY <2>2, OnceOverwritten
    <3>2. /\ EditsHoldDrafts /\ CopiesAgree /\ Books /\ TypeOK' /\ Books'
      BY <2>2, <3>1 DEF SaleInv, BooksInv
    <3>. QED BY <2>2, <3>2, PromiseStep DEF Promise!Next
  <2>. QED BY <2>1, <2>2
<1>. QED
  BY <1>1, <1>2, PromiseInit, SaleInvariant, PTL DEF Spec, PromiseKept, Promise!Spec

-----------------------------------------------------------------------------
(* The stock of a product                                                  *)

LifeStates == {"NONE", "LIVE", "GONE"}
ProductRow ==
  [state : LifeStates, kind : {"PRODUCT", "SERVICE"}, tracked : BOOLEAN, useLots : BOOLEAN,
   hasVariants : BOOLEAN, quantity : Nat, min : Nat]
LotRow == [state : LifeStates, quantity : Nat, expires : Days]
VariantRow == [state : LifeStates, quantity : Nat, min : Nat]
Moves == [Buckets -> Int]

StockTyped ==
  /\ product \in ProductRow
  /\ lot \in [Lots -> LotRow]
  /\ variant \in [Variants -> VariantRow]
  /\ journal \in Moves
  /\ order \in [StockSales -> {"DRAFT", "CONFIRMED", "CANCELED"}]
  /\ taken \in [StockSales -> [Buckets -> Nat]]
  /\ given \in [StockSales -> Moves]
  /\ alerted \in [AlertKeys -> BOOLEAN]
  /\ seen \in [Adjusters -> [bucket : Buckets \cup {-1}, units : Int]]

(* What is not there holds nothing.                                        *)
NothingLeft ==
  /\ \A l \in Lots : lot[l].state # "LIVE" => lot[l].quantity = 0
  /\ \A v \in Variants : variant[v].state # "LIVE" => variant[v].quantity = 0
  /\ \A v \in Variants : variant[v].state = "NONE" => ~alerted[v]
  /\ ~IsLive => /\ product.quantity = 0
                /\ \A l \in Lots : lot[l].state # "LIVE"
                /\ \A v \in Variants : variant[v].state # "LIVE"
  /\ product.state = "NONE" => \A k \in AlertKeys : ~alerted[k]

(* The balances: the journal tells them, and a parent of variants or a     *)
(* product that is not tracked has no units of its own.                    *)
Balanced ==
  /\ \A b \in Buckets : journal[b] = Units(b)
  /\ Loose >= 0
  /\ product.hasVariants => product.quantity = 0 /\ \A l \in Lots : lot[l].quantity = 0
  /\ ~product.tracked /\ ~product.hasVariants => Loose = 0

(* Thresholds are of what is tracked.                                      *)
Untold ==
  /\ ~product.tracked => product.min = 0
  /\ ~product.tracked /\ ~recast => \A v \in Variants : variant[v].state = "LIVE" => variant[v].min = 0
  /\ product.kind = "SERVICE" => recast

(* Whatever is above its threshold is armed, tracked or not, unless it was *)
(* a service.                                                              *)
AllArmed ==
  /\ ~recast /\ product.quantity > product.min => ~alerted[Untracked]
  /\ ~recast => \A v \in Variants :
       variant[v].state = "LIVE" /\ variant[v].quantity > variant[v].min => ~alerted[v]

SeenStands ==
  /\ \A a \in Adjusters, b \in Buckets : seen[a].bucket = b => Units(b) = seen[a].units
  /\ product.state = "NONE" => \A a \in Adjusters : seen[a] = Unread

GivenOnce ==
  /\ \A s \in StockSales : order[s] = "DRAFT" => given[s] = NoMove
  /\ RestoredOnce

StockInv == StockTyped /\ NothingLeft /\ Balanced /\ Untold /\ AllArmed /\ SeenStands /\ GivenOnce

-----------------------------------------------------------------------------
(* Buckets and movements                                                   *)

(* Untracked units, lots and variants are different buckets.               *)
LEMMA BucketsApart ==
  /\ IsFiniteSet(Lots) /\ Untracked \in Buckets /\ Untracked \notin Lots /\ Untracked \notin Variants
  /\ Lots \cap Variants = {} /\ -1 \notin Buckets
  /\ Lots \subseteq Buckets /\ Variants \subseteq Buckets
  /\ OnHand \subseteq Nat
BY StockConstants DEF Untracked, Buckets, OnHand

(* What the product holds is what its lots hold, and the rest.             *)
LEMMA UnitsAre ==
  ASSUME StockTyped
  PROVE  /\ Units(Untracked) = Loose
         /\ \A l \in Lots : Units(l) = lot[l].quantity /\ lot[l].quantity \in Nat
         /\ \A v \in Variants : Units(v) = variant[v].quantity /\ variant[v].quantity \in Nat
         /\ InLots(Lots) \in Nat /\ product.quantity \in Nat /\ Loose \in Int
         /\ product.quantity = Loose + InLots(Lots)
         /\ \A b \in Buckets : Units(b) \in Int
<1>1. /\ \A l \in Lots : lot[l] \in LotRow
      /\ \A v \in Variants : variant[v] \in VariantRow
      /\ product.quantity \in Nat
  BY DEF StockTyped, ProductRow
<1>2. /\ \A l \in Lots : lot[l].quantity \in Nat
      /\ \A v \in Variants : variant[v].quantity \in Nat
  BY <1>1 DEF LotRow, VariantRow
<1>3. InLots(Lots) \in Nat
  <2> DEFINE f == [l \in Lots |-> lot[l].quantity]
  <2>1. \A l \in Lots : f[l] \in Nat
    BY <1>2
  <2> HIDE DEF f
  <2>2. SumFunctionOnSet(f, Lots) \in Nat
    BY <2>1, BucketsApart, SumNatural
  <2> USE DEF f
  <2> QED
    BY <2>2 DEF InLots
<1>4. Loose \in Int /\ product.quantity = Loose + InLots(Lots)
  BY <1>1, <1>3 DEF Loose
<1>5. /\ Units(Untracked) = Loose
      /\ \A l \in Lots : Units(l) = lot[l].quantity
      /\ \A v \in Variants : Units(v) = variant[v].quantity
  BY BucketsApart DEF Units
<1> QED
  BY <1>1, <1>2, <1>3, <1>4, <1>5 DEF Buckets, Untracked

(* Lots that hold nothing add nothing, and the other way round.            *)
LEMMA EmptyLots ==
  ASSUME StockTyped PROVE InLots(Lots) = 0 <=> \A l \in Lots : lot[l].quantity = 0
<1> DEFINE f == [l \in Lots |-> lot[l].quantity]
<1>1. InLots(Lots) = SumFunctionOnSet(f, Lots)
  BY DEF InLots
<1>2. \A l \in Lots : f[l] = lot[l].quantity /\ f[l] \in Nat
  BY UnitsAre
<1> HIDE DEF f
<1> QED
  BY <1>1, <1>2, BucketsApart, SumZero, SumIsZero

(* What a movement adds to the lots.                                       *)
LEMMA TotalType ==
  ASSUME NEW move \in Moves PROVE Total(move, Lots) \in Int /\ OfProduct(move) \in Int
<1>1. Integral(move, Lots) /\ move[Untracked] \in Int
  BY BucketsApart DEF Moves, Integral
<1>2. Total(move, Lots) \in Int
  BY <1>1, BucketsApart, SumType DEF Total
<1> QED
  BY <1>1, <1>2 DEF OfProduct

(* What the lots hold once each has its movement.                          *)
LEMMA LotsRaised ==
  ASSUME StockTyped, NEW move \in Moves, NEW f, \A l \in Lots : f[l] = lot[l].quantity + move[l]
  PROVE  SumFunctionOnSet(f, Lots) = InLots(Lots) + Total(move, Lots)
<1> DEFINE g == [l \in Lots |-> lot[l].quantity]
<1>1. Integral(g, Lots) /\ Integral(move, Lots) /\ \A l \in Lots : f[l] = g[l] + move[l]
  BY UnitsAre, BucketsApart DEF Integral, Moves
<1>2. InLots(Lots) = SumFunctionOnSet(g, Lots)
  BY DEF InLots
<1> HIDE DEF g
<1> QED
  BY <1>1, <1>2, BucketsApart, SumPlus DEF Total

(* Whatever an operation moves, the journal and the rows move together,    *)
(* and no bucket goes below zero.                                          *)
LEMMA PersistMoves ==
  ASSUME StockInv, NEW move \in Moves, NEW row \in ProductRow, row.quantity = product.quantity,
         NEW lots \in [Lots -> LotRow], \A l \in Lots : lots[l].quantity = lot[l].quantity,
         NEW variants \in [Variants -> VariantRow],
         \A v \in Variants : variants[v].quantity = variant[v].quantity,
         Persist(move, row, lots, variants)
  PROVE  /\ product' \in ProductRow
         /\ product' = [row EXCEPT !.quantity = product.quantity + OfProduct(move)]
         /\ lot' \in [Lots -> LotRow]
         /\ \A l \in Lots : lot'[l] = [lots[l] EXCEPT !.quantity = lot[l].quantity + move[l]]
         /\ variant' \in [Variants -> VariantRow]
         /\ \A v \in Variants : variant'[v] = [variants[v] EXCEPT !.quantity = variant[v].quantity + move[v]]
         /\ journal' \in Moves
         /\ \A b \in Buckets : Units(b)' = Units(b) + move[b] /\ journal'[b] = Units(b)'
         /\ Loose' = Loose + move[Untracked] /\ Loose' >= 0
<1> USE DEF StockInv
<1>1. /\ product.quantity + OfProduct(move) \in Nat
      /\ \A b \in Buckets : Units(b) + move[b] \in Nat /\ move[b] \in Int
  BY BucketsApart DEF Persist, StaysInRange, Moves
<1>2. PICK q : q = product.quantity + OfProduct(move)
  OBVIOUS
<1>3. product' = [row EXCEPT !.quantity = q] /\ product' \in ProductRow /\ product'.quantity = q
  BY <1>1, <1>2 DEF Persist, Raised, ProductRow
<1>4. ASSUME NEW l \in Lots
      PROVE  lot'[l] = [lots[l] EXCEPT !.quantity = lot[l].quantity + move[l]] /\ lot'[l] \in LotRow
             /\ lot'[l].quantity = lot[l].quantity + move[l]
  <2>1. PICK n : n = lot[l].quantity + move[l]
    OBVIOUS
  <2>2. n \in Nat
    BY <1>1, <2>1, UnitsAre, BucketsApart
  <2>3. lot'[l] = [lots[l] EXCEPT !.quantity = n]
    BY <2>1 DEF Persist, Raised, LotRow
  <2>4. [lots[l] EXCEPT !.quantity = n] \in LotRow /\ [lots[l] EXCEPT !.quantity = n].quantity = n
    BY <2>2 DEF LotRow
  <2> QED
    BY <2>1, <2>3, <2>4
<1>5. ASSUME NEW v \in Variants
      PROVE  variant'[v] = [variants[v] EXCEPT !.quantity = variant[v].quantity + move[v]]
             /\ variant'[v] \in VariantRow /\ variant'[v].quantity = variant[v].quantity + move[v]
  <2>1. PICK n : n = variant[v].quantity + move[v]
    OBVIOUS
  <2>2. n \in Nat
    BY <1>1, <2>1, UnitsAre, BucketsApart
  <2>3. variant'[v] = [variants[v] EXCEPT !.quantity = n]
    BY <2>1 DEF Persist, Raised, VariantRow
  <2>4. [variants[v] EXCEPT !.quantity = n] \in VariantRow /\ [variants[v] EXCEPT !.quantity = n].quantity = n
    BY <2>2 DEF VariantRow
  <2> QED
    BY <2>1, <2>3, <2>4
<1>6. lot' \in [Lots -> LotRow] /\ variant' \in [Variants -> VariantRow]
  <2>1. lot' = [l \in Lots |-> lot'[l]] /\ variant' = [v \in Variants |-> variant'[v]]
    BY DEF Persist
  <2> QED
    BY <1>4, <1>5, <2>1
<1>7. Loose' = Loose + move[Untracked]
  <2>1. InLots(Lots)' = InLots(Lots) + Total(move, Lots)
    <3> DEFINE f == [l \in Lots |-> lot'[l].quantity]
    <3>1. \A l \in Lots : f[l] = lot[l].quantity + move[l]
      BY <1>4
    <3>2. InLots(Lots)' = SumFunctionOnSet(f, Lots)
      BY DEF InLots
    <3> HIDE DEF f
    <3> QED
      BY <3>1, <3>2, LotsRaised
  <2>2. Loose' = product'.quantity - InLots(Lots)'
    BY DEF Loose
  <2> QED
    BY <1>1, <1>2, <1>3, <2>1, <2>2, UnitsAre, TotalType, BucketsApart DEF OfProduct
<1>8. \A b \in Buckets : Units(b)' = Units(b) + move[b]
  <2>1. Units(Untracked)' = Loose'
    BY BucketsApart DEF Units
  <2>2. \A l \in Lots : Units(l)' = lot'[l].quantity
    BY BucketsApart DEF Units
  <2>3. \A v \in Variants : Units(v)' = variant'[v].quantity
    BY BucketsApart DEF Units
  <2> QED
    BY <1>4, <1>5, <1>7, <2>1, <2>2, <2>3, UnitsAre DEF Buckets, Untracked
<1>9. journal' \in Moves /\ \A b \in Buckets : journal'[b] = Units(b) + move[b]
  BY <1>1, UnitsAre DEF Persist, Balanced, Moves
<1>10. Loose' >= 0
  BY <1>1, <1>7, UnitsAre, BucketsApart
<1> QED
  BY <1>2, <1>3, <1>4, <1>5, <1>6, <1>7, <1>8, <1>9, <1>10

(* An adjuster whose bucket moved has to read again.                       *)
LEMMA RereadKept ==
  ASSUME StockInv, NEW move \in Moves,
         seen' = [a \in Adjusters |-> seen'[a]], \A a \in Adjusters : seen'[a] \in {Reread(move)[a], Unread},
         \A b \in Buckets : Units(b)' = Units(b) + move[b],
         product'.state = "NONE" => product.state = "NONE"
  PROVE  SeenStands' /\ seen' \in [Adjusters -> [bucket : Buckets \cup {-1}, units : Int]]
<1>1. Unread \in [bucket : Buckets \cup {-1}, units : Int]
  BY DEF Unread
<1>2. \A a \in Adjusters : seen'[a] \in {seen[a], Unread}
  BY DEF Reread
<1>3. seen' \in [Adjusters -> [bucket : Buckets \cup {-1}, units : Int]]
  BY <1>1, <1>2 DEF StockInv, StockTyped
<1>4. ASSUME NEW a \in Adjusters, NEW b \in Buckets, seen'[a].bucket = b PROVE Units(b)' = seen'[a].units
  <2>1. seen'[a] # Unread
    BY <1>4, BucketsApart DEF Unread
  <2>2. seen'[a] = seen[a] /\ b \notin Versioned(move) /\ seen[a].bucket = b
    BY <1>4, <2>1 DEF Reread
  <2>3. move[b] = 0
    BY <2>2 DEF Versioned
  <2>4. Units(b) = seen[a].units /\ Units(b) \in Int
    BY <2>2, UnitsAre DEF StockInv, SeenStands
  <2> QED
    BY <2>2, <2>3, <2>4
<1>5. product'.state = "NONE" => \A a \in Adjusters : seen'[a] = Unread
  BY <1>2 DEF StockInv, SeenStands
<1> QED
  BY <1>3, <1>4, <1>5 DEF SeenStands

(* LowStockCrossing: what ends above its threshold ends armed, and what    *)
(* stays as it was, or is empty, is told of no better than before.         *)
LEMMA JudgedArmed ==
  ASSUME NEW flag \in BOOLEAN, NEW before \in Int, NEW after \in Int, NEW min \in Int, NEW usesLots \in BOOLEAN
  PROVE  /\ Judged(flag, before, after, min, usesLots) \in BOOLEAN
         /\ (before > min => ~flag) /\ after > min => ~Judged(flag, before, after, min, usesLots)
         /\ before = after /\ ~flag => ~Judged(flag, before, after, min, usesLots)
<1>1. CASE after > min
  <2>1. Judged(flag, before, after, min, usesLots) = (flag /\ after <= before)
    BY <1>1 DEF Judged
  <2>2. after <= before => before > min
    BY <1>1
  <2> QED
    BY <1>1, <2>1, <2>2
<1>2. CASE ~(after > min)
  <2>1. Judged(flag, before, after, min, usesLots) = (flag \/ (~usesLots /\ before > min))
    BY <1>2 DEF Judged
  <2>2. before = after => ~(before > min)
    BY <1>2
  <2> QED
    BY <1>2, <2>1, <2>2
<1> QED
  BY <1>1, <1>2

(* What LowStockCrossing leaves armed, for the product and each variant.   *)
LEMMA AlertsArmed ==
  ASSUME StockInv, NEW move \in Moves, alerted' = AlertsAfter(move)
  PROVE  /\ alerted' \in [AlertKeys -> BOOLEAN]
         /\ ~recast /\ product.quantity + OfProduct(move) > product.min => ~alerted'[Untracked]
         /\ OfProduct(move) = 0 /\ ~alerted[Untracked] => ~alerted'[Untracked]
         /\ \A v \in Variants :
              /\ (variant[v].quantity > variant[v].min => ~alerted[v]) /\ variant[v].quantity + move[v] > variant[v].min
                   => ~alerted'[v]
              /\ move[v] = 0 /\ ~alerted[v] => ~alerted'[v]
<1>1. /\ product.quantity \in Int /\ product.min \in Int /\ product.useLots \in BOOLEAN
      /\ \A k \in AlertKeys : alerted[k] \in BOOLEAN
      /\ \A v \in Variants : variant[v] \in VariantRow
  BY DEF StockInv, StockTyped, ProductRow
<1>2. /\ \A v \in Variants : /\ variant[v].quantity \in Int /\ variant[v].min \in Int
                             /\ v \in AlertKeys /\ v # Untracked /\ v \in Buckets
      /\ Untracked \in AlertKeys
  BY <1>1, BucketsApart DEF VariantRow, AlertKeys
<1>3. /\ OfProduct(move) \in Int
      /\ \A v \in Variants : move[v] \in Int
  BY <1>2, TotalType DEF Moves
<1>4. PICK after \in Int : after = product.quantity + OfProduct(move)
  BY <1>1, <1>3
<1>5. alerted'[Untracked] = Judged(alerted[Untracked], product.quantity, after, product.min, product.useLots)
  BY <1>2, <1>4 DEF AlertsAfter
<1>6. /\ alerted'[Untracked] \in BOOLEAN
      /\ (product.quantity > product.min => ~alerted[Untracked]) /\ after > product.min => ~alerted'[Untracked]
      /\ product.quantity = after /\ ~alerted[Untracked] => ~alerted'[Untracked]
  BY <1>1, <1>2, <1>5, JudgedArmed
<1>7. ASSUME NEW v \in Variants
      PROVE  /\ alerted'[v] \in BOOLEAN
             /\ (variant[v].quantity > variant[v].min => ~alerted[v]) /\ variant[v].quantity + move[v] > variant[v].min
                  => ~alerted'[v]
             /\ move[v] = 0 /\ ~alerted[v] => ~alerted'[v]
  <2>1. PICK then \in Int : then = variant[v].quantity + move[v]
    BY <1>2, <1>3
  <2>2. alerted'[v] = Judged(alerted[v], variant[v].quantity, then, variant[v].min, FALSE)
    BY <1>2, <2>1 DEF AlertsAfter
  <2>3. move[v] = 0 => variant[v].quantity = then
    BY <1>2, <2>1
  <2>4. alerted[v] \in BOOLEAN
    BY <1>1, <1>2
  <2>5. /\ alerted'[v] \in BOOLEAN
        /\ (variant[v].quantity > variant[v].min => ~alerted[v]) /\ then > variant[v].min => ~alerted'[v]
        /\ variant[v].quantity = then /\ ~alerted[v] => ~alerted'[v]
    <3>1. PICK never \in BOOLEAN : never = FALSE
      OBVIOUS
    <3>2. alerted'[v] = Judged(alerted[v], variant[v].quantity, then, variant[v].min, never)
      BY <2>2, <3>1
    <3> QED
      BY <1>2, <2>1, <2>4, <3>2, JudgedArmed
  <2> QED
    BY <2>1, <2>3, <2>5
<1>8. ~recast /\ product.quantity > product.min => ~alerted[Untracked]
  BY DEF StockInv, AllArmed
<1>9. OfProduct(move) = 0 => product.quantity = after
  BY <1>1, <1>4
<1>10. alerted' \in [AlertKeys -> BOOLEAN]
  <2>1. alerted' = [k \in AlertKeys |-> alerted'[k]]
    BY DEF AlertsAfter
  <2> QED
    BY <1>6, <1>7, <2>1 DEF AlertKeys, Untracked
<1> QED
  BY <1>4, <1>6, <1>7, <1>8, <1>9, <1>10

(* A step that moves no units keeps what is told of them.                  *)
LEMMA UnitsStay ==
  ASSUME StockInv, product'.quantity = product.quantity,
         lot' \in [Lots -> LotRow], \A l \in Lots : lot'[l].quantity = lot[l].quantity,
         \A v \in Variants : variant'[v].quantity = variant[v].quantity
  PROVE  /\ \A b \in Buckets : Units(b)' = Units(b)
         /\ Loose' = Loose
<1>1. InLots(Lots)' = InLots(Lots)
  <2> DEFINE f == [l \in Lots |-> lot[l].quantity]
             g == [l \in Lots |-> lot'[l].quantity]
  <2>1. \A l \in Lots : f[l] = g[l]
    OBVIOUS
  <2>2. InLots(Lots) = SumFunctionOnSet(f, Lots) /\ InLots(Lots)' = SumFunctionOnSet(g, Lots)
    BY DEF InLots
  <2> HIDE DEF f, g
  <2> QED
    BY <2>1, <2>2, BucketsApart, SumSame
<1>2. Loose' = Loose
  BY <1>1 DEF Loose
<1>3. /\ Units(Untracked)' = Loose' /\ Units(Untracked) = Loose
      /\ \A l \in Lots : Units(l)' = lot'[l].quantity /\ Units(l) = lot[l].quantity
      /\ \A v \in Variants : Units(v)' = variant'[v].quantity /\ Units(v) = variant[v].quantity
  BY BucketsApart DEF Units
<1> QED
  BY <1>2, <1>3 DEF Buckets, Untracked

(* A step that moves no units and turns no alert on.                       *)
LEMMA SettingKept ==
  ASSUME StockInv, product' \in ProductRow, product'.quantity = product.quantity, product'.state = product.state,
         lot' \in [Lots -> LotRow], variant' \in [Variants -> VariantRow],
         \A l \in Lots : /\ lot'[l].quantity = lot[l].quantity
                         /\ lot'[l].state # "LIVE" => lot[l].quantity = 0
                         /\ lot'[l].state = "LIVE" => lot[l].state = "LIVE",
         \A v \in Variants : variant'[v].quantity = variant[v].quantity /\ variant'[v].state = variant[v].state,
         journal' = journal, order' = order, taken' = taken, given' = given, seen' = seen,
         alerted' \in [AlertKeys -> BOOLEAN], \A k \in AlertKeys : alerted'[k] => alerted[k]
  PROVE  /\ StockTyped' /\ NothingLeft' /\ SeenStands' /\ GivenOnce'
         /\ \A b \in Buckets : journal'[b] = Units(b)'
         /\ Loose' = Loose /\ Loose' >= 0
<1>1. \A b \in Buckets : Units(b)' = Units(b)
  BY UnitsStay
<1>2. Loose' = Loose
  BY UnitsStay
<1>3. StockTyped'
  BY DEF StockInv, StockTyped
<1>4. IsLive' = IsLive
  BY DEF IsLive
<1>5. NothingLeft'
  <2>1. \A v \in Variants : v \in AlertKeys
    BY DEF AlertKeys
  <2> QED
    BY <1>4, <2>1 DEF NothingLeft, StockInv
<1>6. SeenStands'
  <2>1. ASSUME NEW a \in Adjusters, NEW b \in Buckets, seen'[a].bucket = b PROVE Units(b)' = seen'[a].units
    BY <1>1, <2>1 DEF SeenStands, StockInv
  <2> QED
    BY <2>1 DEF SeenStands, StockInv
<1>7. GivenOnce'
  BY DEF GivenOnce, RestoredOnce, Total, StockInv
<1>8. \A b \in Buckets : journal'[b] = Units(b)'
  BY <1>1 DEF Balanced, StockInv
<1>9. Loose' >= 0
  BY <1>2 DEF Balanced, StockInv
<1> QED
  BY <1>2, <1>3, <1>5, <1>6, <1>7, <1>8, <1>9

(* Movements that respect what is there.                                   *)
LEMMA MoveKept ==
  ASSUME StockInv, NEW move \in Moves, NEW lots \in [Lots -> LotRow],
         \A l \in Lots : /\ lots[l].quantity = lot[l].quantity
                         /\ lots[l].state # "LIVE" => lot[l].state # "LIVE" /\ move[l] = 0,
         ~IsLive => \A l \in Lots : lots[l].state # "LIVE",
         \A v \in Variants : variant[v].state # "LIVE" => move[v] = 0,
         product.hasVariants \/ ~product.tracked \/ ~IsLive => move[Untracked] = 0,
         product.hasVariants => \A l \in Lots : move[l] = 0,
         Persist(move, product, lots, variant), alerted' = AlertsAfter(move), recast' = recast
  PROVE  /\ product' \in ProductRow /\ lot' \in [Lots -> LotRow] /\ variant' \in [Variants -> VariantRow]
         /\ journal' \in Moves /\ alerted' \in [AlertKeys -> BOOLEAN]
         /\ \A b \in Buckets : Units(b)' = Units(b) + move[b]
         /\ product'.state = product.state
         /\ NothingLeft' /\ Balanced' /\ Untold' /\ AllArmed'
<1> USE DEF StockInv
<1>1. product \in ProductRow /\ variant \in [Variants -> VariantRow]
  BY DEF StockTyped
<1>2. /\ product' \in ProductRow
      /\ product' = [product EXCEPT !.quantity = product.quantity + OfProduct(move)]
      /\ lot' \in [Lots -> LotRow]
      /\ \A l \in Lots : lot'[l] = [lots[l] EXCEPT !.quantity = lot[l].quantity + move[l]]
      /\ variant' \in [Variants -> VariantRow]
      /\ \A v \in Variants : variant'[v] = [variant[v] EXCEPT !.quantity = variant[v].quantity + move[v]]
      /\ journal' \in Moves
      /\ \A b \in Buckets : Units(b)' = Units(b) + move[b] /\ journal'[b] = Units(b)'
      /\ Loose' = Loose + move[Untracked] /\ Loose' >= 0
  BY <1>1, PersistMoves
<1>3. PICK q : q = product.quantity + OfProduct(move)
  OBVIOUS
<1>4. /\ product'.state = product.state /\ product'.tracked = product.tracked /\ product'.kind = product.kind
      /\ product'.hasVariants = product.hasVariants /\ product'.min = product.min
      /\ product'.quantity = q /\ IsLive' = IsLive
  BY <1>1, <1>2, <1>3 DEF ProductRow, IsLive
<1>5. \A l \in Lots : lot'[l].state = lots[l].state /\ lot'[l].quantity = lot[l].quantity + move[l]
  <2>1. SUFFICES ASSUME NEW l \in Lots PROVE lot'[l].state = lots[l].state /\ lot'[l].quantity = lot[l].quantity + move[l]
    OBVIOUS
  <2>2. PICK n : n = lot[l].quantity + move[l]
    OBVIOUS
  <2>3. lots[l] \in LotRow /\ lot'[l] = [lots[l] EXCEPT !.quantity = n]
    BY <1>2, <2>2
  <2> QED
    BY <2>2, <2>3 DEF LotRow
<1>6. \A v \in Variants : /\ variant'[v].state = variant[v].state /\ variant'[v].min = variant[v].min
                          /\ variant'[v].quantity = variant[v].quantity + move[v]
  <2>1. SUFFICES ASSUME NEW v \in Variants
                 PROVE  /\ variant'[v].state = variant[v].state /\ variant'[v].min = variant[v].min
                        /\ variant'[v].quantity = variant[v].quantity + move[v]
    OBVIOUS
  <2>2. PICK n : n = variant[v].quantity + move[v]
    OBVIOUS
  <2>3. variant[v] \in VariantRow /\ variant'[v] = [variant[v] EXCEPT !.quantity = n]
    BY <1>1, <1>2, <2>2
  <2> QED
    BY <2>2, <2>3 DEF VariantRow
<1>7. /\ alerted' \in [AlertKeys -> BOOLEAN]
      /\ ~recast /\ q > product.min => ~alerted'[Untracked]
      /\ OfProduct(move) = 0 /\ ~alerted[Untracked] => ~alerted'[Untracked]
      /\ \A v \in Variants :
           /\ (variant[v].quantity > variant[v].min => ~alerted[v]) /\ variant[v].quantity + move[v] > variant[v].min
                => ~alerted'[v]
           /\ move[v] = 0 /\ ~alerted[v] => ~alerted'[v]
  BY <1>3, AlertsArmed
<1>8. (\A l \in Lots : move[l] = 0) /\ move[Untracked] = 0 => OfProduct(move) = 0
  BY BucketsApart, SumZero DEF OfProduct, Total
<1>9. ~IsLive => (\A l \in Lots : move[l] = 0) /\ move[Untracked] = 0
  OBVIOUS
<1>10. NothingLeft'
  <2>1. \A l \in Lots : lot'[l].state # "LIVE" => lot'[l].quantity = 0
    BY <1>5 DEF NothingLeft
  <2>2. \A v \in Variants : variant'[v].state # "LIVE" => variant'[v].quantity = 0
    BY <1>6 DEF NothingLeft
  <2>3. \A v \in Variants : variant'[v].state = "NONE" => ~alerted'[v]
    BY <1>6, <1>7 DEF NothingLeft
  <2>4. ~IsLive => product'.quantity = 0
    BY <1>3, <1>4, <1>8, <1>9 DEF NothingLeft
  <2>5. ~IsLive => /\ \A l \in Lots : lot'[l].state # "LIVE"
                   /\ \A v \in Variants : variant'[v].state # "LIVE"
    BY <1>5, <1>6 DEF NothingLeft
  <2>6. product'.state = "NONE" => \A k \in AlertKeys : ~alerted'[k]
    <3>1. SUFFICES ASSUME product.state = "NONE" PROVE \A k \in AlertKeys : ~alerted'[k]
      BY <1>4
    <3>2. ~IsLive /\ \A k \in AlertKeys : ~alerted[k]
      BY <3>1 DEF IsLive, NothingLeft
    <3>3. ~alerted'[Untracked]
      BY <1>7, <1>8, <1>9, <3>2 DEF AlertKeys
    <3>4. \A v \in Variants : move[v] = 0 /\ ~alerted[v]
      BY <3>2 DEF NothingLeft, AlertKeys
    <3> QED
      BY <1>7, <3>3, <3>4 DEF AlertKeys, Untracked
  <2> QED
    BY <1>4, <2>1, <2>2, <2>3, <2>4, <2>5, <2>6 DEF NothingLeft
<1>11. Balanced'
  <2>1. product.hasVariants => product'.quantity = 0 /\ \A l \in Lots : lot'[l].quantity = 0
    BY <1>3, <1>4, <1>5, <1>8 DEF Balanced
  <2>2. ~product.tracked /\ ~product.hasVariants => Loose' = 0
    BY <1>2 DEF Balanced
  <2> QED
    BY <1>2, <1>4, <2>1, <2>2 DEF Balanced
<1>12. Untold'
  BY <1>4, <1>6 DEF Untold
<1>13. AllArmed'
  BY <1>4, <1>6, <1>7 DEF AllArmed
<1> QED
  BY <1>2, <1>4, <1>7, <1>10, <1>11, <1>12, <1>13

(* What goes with the parent's own stock is everything that there is.      *)
LEMMA RemovalIsAll ==
  ASSUME StockInv
  PROVE  /\ Removal \in Moves
         /\ \A b \in Buckets : Removal[b] = -Units(b)
         /\ \A l \in Lots : Removal[l] = -lot[l].quantity
         /\ \A v \in Variants : Removal[v] = -variant[v].quantity
         /\ OfProduct(Removal) = -product.quantity
<1> USE DEF StockInv
<1>1. \A l \in Lots : Removal[l] = -lot[l].quantity
  BY BucketsApart, UnitsAre DEF Removal, Balanced
<1>2. \A v \in Variants : Removal[v] = -variant[v].quantity
  BY BucketsApart DEF Removal
<1>3. Removal[Untracked] = -Loose
  <2>1. Removal[Untracked] = IF Accepts(Untracked) THEN -Loose ELSE 0
    BY BucketsApart DEF Removal
  <2>2. Accepts(Untracked) <=> IsLive /\ ~product.hasVariants /\ product.tracked
    BY BucketsApart DEF Accepts, Has
  <2>3. (\A l \in Lots : lot[l].quantity = 0) /\ product.quantity = 0 => Loose = 0
    BY EmptyLots, UnitsAre
  <2>4. ~Accepts(Untracked) => Loose = 0
    BY <2>2, <2>3 DEF Balanced, NothingLeft
  <2> QED
    BY <2>1, <2>4, UnitsAre
<1>4. \A b \in Buckets : Removal[b] = -Units(b)
  BY <1>1, <1>2, <1>3, UnitsAre DEF Buckets, Untracked
<1>5. Removal = [b \in Buckets |-> Removal[b]]
  <2> DEFINE at(b) == CASE b \in Variants -> -variant[b].quantity
                        [] b \in Lots     -> IF product.hasVariants THEN 0 ELSE -lot[b].quantity
                        [] b = Untracked  -> IF Accepts(Untracked) THEN -Loose ELSE 0
  <2>1. Removal = [b \in Buckets |-> at(b)]
    BY Zenon DEF Removal
  <2> HIDE DEF at
  <2> QED
    BY <2>1
<1>6. Removal \in Moves
  BY <1>4, <1>5, UnitsAre DEF Moves
<1>7. OfProduct(Removal) = -product.quantity
  <2>1. PICK move \in Moves : move = Removal
    BY <1>6
  <2> DEFINE f == [l \in Lots |-> 0]
  <2>2. \A l \in Lots : f[l] = lot[l].quantity + move[l]
    BY <1>1, <2>1, UnitsAre
  <2>3. SumFunctionOnSet(f, Lots) = 0
    BY BucketsApart, SumZero
  <2> HIDE DEF f
  <2>4. 0 = InLots(Lots) + Total(move, Lots)
    BY <2>2, <2>3, LotsRaised
  <2>5. move[Untracked] = -Loose
    BY <1>3, <2>1
  <2> QED
    BY <2>1, <2>4, <2>5, UnitsAre, TotalType DEF OfProduct
<1> QED
  BY <1>1, <1>2, <1>4, <1>6, <1>7

(* Once everything has gone, nothing is above its threshold.               *)
LEMMA NothingStays ==
  ASSUME StockInv, NEW row \in ProductRow, row.quantity = product.quantity,
         NEW lots \in [Lots -> LotRow], \A l \in Lots : lots[l].quantity = lot[l].quantity,
         NEW variants \in [Variants -> VariantRow],
         \A v \in Variants : variants[v].quantity = variant[v].quantity,
         Persist(Removal, row, lots, variants)
  PROVE  /\ product' \in ProductRow /\ lot' \in [Lots -> LotRow] /\ variant' \in [Variants -> VariantRow]
         /\ product' = [row EXCEPT !.quantity = 0]
         /\ \A l \in Lots : lot'[l] = [lots[l] EXCEPT !.quantity = 0]
         /\ \A v \in Variants : variant'[v] = [variants[v] EXCEPT !.quantity = 0]
         /\ journal' \in Moves
         /\ \A b \in Buckets : Units(b)' = Units(b) + Removal[b] /\ journal'[b] = Units(b)'
         /\ Loose' = 0 /\ Balanced'
<1>1. PICK move \in Moves : move = Removal
  BY RemovalIsAll
<1>2. /\ \A l \in Lots : lot[l].quantity + move[l] = 0
      /\ \A v \in Variants : variant[v].quantity + move[v] = 0
      /\ product.quantity + OfProduct(move) = 0
      /\ Loose + move[Untracked] = 0
  <2>1. /\ \A l \in Lots : move[l] = -lot[l].quantity
        /\ \A v \in Variants : move[v] = -variant[v].quantity
        /\ OfProduct(move) = -product.quantity
        /\ move[Untracked] = -Loose
    <3>1. Units(Untracked) = Loose
      BY UnitsAre DEF StockInv
    <3>2. Removal[Untracked] = -Loose
      BY <3>1, RemovalIsAll, BucketsApart
    <3>3. OfProduct(Removal) = -product.quantity
      BY RemovalIsAll
    <3> QED
      BY <1>1, <3>2, <3>3, RemovalIsAll
  <2>2. StockTyped
    BY DEF StockInv
  <2> QED
    BY <2>1, <2>2, UnitsAre
<1>3. Persist(move, row, lots, variants)
  BY <1>1
<1>4. /\ product' \in ProductRow
      /\ product' = [row EXCEPT !.quantity = product.quantity + OfProduct(move)]
      /\ lot' \in [Lots -> LotRow]
      /\ \A l \in Lots : lot'[l] = [lots[l] EXCEPT !.quantity = lot[l].quantity + move[l]]
      /\ variant' \in [Variants -> VariantRow]
      /\ \A v \in Variants : variant'[v] = [variants[v] EXCEPT !.quantity = variant[v].quantity + move[v]]
      /\ journal' \in Moves
      /\ \A b \in Buckets : Units(b)' = Units(b) + move[b] /\ journal'[b] = Units(b)'
      /\ Loose' = Loose + move[Untracked] /\ Loose' >= 0
  BY <1>3, PersistMoves
<1>5. product' = [row EXCEPT !.quantity = 0] /\ product'.quantity = 0
  BY <1>2, <1>4 DEF ProductRow
<1>6. \A l \in Lots : lot'[l] = [lots[l] EXCEPT !.quantity = 0] /\ lot'[l].quantity = 0
  BY <1>2, <1>4 DEF LotRow
<1>7. \A v \in Variants : variant'[v] = [variants[v] EXCEPT !.quantity = 0]
  BY <1>2, <1>4
<1>8. Loose' = 0
  BY <1>2, <1>4
<1>9. Balanced'
  BY <1>4, <1>5, <1>6, <1>8 DEF Balanced
<1> QED
  BY <1>1, <1>4, <1>5, <1>6, <1>7, <1>8, <1>9

-----------------------------------------------------------------------------
(* Settings *)

(* normalizeStockConfiguration only takes lots and threshold away.         *)
LEMMA NormalizedIs ==
  ASSUME NEW row \in ProductRow
  PROVE  /\ Normalized(row) \in ProductRow
         /\ Normalized(row).state = row.state /\ Normalized(row).kind = row.kind
         /\ Normalized(row).tracked = row.tracked /\ Normalized(row).hasVariants = row.hasVariants
         /\ Normalized(row).quantity = row.quantity
         /\ Normalized(row).min = IF ~row.tracked \/ row.hasVariants THEN 0 ELSE row.min
<1>1. CASE ~row.tracked \/ row.hasVariants
  <2>1. PICK result : result = Normalized(row)
    OBVIOUS
  <2>2. result = [row EXCEPT !.useLots = FALSE, !.min = 0]
    BY <1>1, <2>1 DEF Normalized
  <2>3. result \in ProductRow
    BY <2>2 DEF ProductRow
  <2>4. /\ result.state = row.state /\ result.kind = row.kind /\ result.tracked = row.tracked
        /\ result.hasVariants = row.hasVariants /\ result.quantity = row.quantity /\ result.min = 0
    BY <2>2 DEF ProductRow
  <2> QED
    BY <1>1, <2>1, <2>3, <2>4
<1>2. CASE ~(~row.tracked \/ row.hasVariants)
  <2>1. Normalized(row) = row
    BY <1>2 DEF Normalized
  <2> QED
    BY <1>2, <2>1 DEF ProductRow
<1> QED
  BY <1>1, <1>2

(* A request that leaves the rows of the variants and the alerts of the    *)
(* product as they are, or turns alerts off.                               *)
LEMMA ProductSetting ==
  ASSUME StockInv, NEW row \in ProductRow, row.state = product.state, row.quantity = product.quantity,
         product' = Normalized(row), UNCHANGED Settings,
         alerted' \in [AlertKeys -> BOOLEAN], \A k \in AlertKeys : alerted'[k] => alerted[k],
         row.hasVariants => product.quantity = 0 /\ \A l \in Lots : lot[l].quantity = 0,
         ~row.tracked /\ ~row.hasVariants => Loose = 0,
         ~row.tracked => ~product.tracked,
         row.kind = "SERVICE" => product.kind = "SERVICE",
         ~recast /\ product.quantity > product'.min => ~alerted'[Untracked]
  PROVE  StockInv'
<1> USE DEF StockInv
<1>1. /\ product' \in ProductRow /\ product'.state = product.state /\ product'.quantity = product.quantity
      /\ product'.hasVariants = row.hasVariants /\ product'.tracked = row.tracked /\ product'.kind = row.kind
      /\ ~product'.tracked => product'.min = 0
  BY NormalizedIs
<1>2. /\ lot' = lot /\ variant' = variant /\ journal' = journal /\ order' = order /\ taken' = taken
      /\ given' = given /\ seen' = seen /\ recast' = recast
  BY DEF Settings, saleRows
<1>3. /\ lot' \in [Lots -> LotRow] /\ variant' \in [Variants -> VariantRow]
      /\ \A l \in Lots : /\ lot'[l].quantity = lot[l].quantity
                         /\ lot'[l].state # "LIVE" => lot[l].quantity = 0
                         /\ lot'[l].state = "LIVE" => lot[l].state = "LIVE"
      /\ \A v \in Variants : variant'[v].quantity = variant[v].quantity /\ variant'[v].state = variant[v].state
  BY <1>2 DEF StockTyped, NothingLeft
<1>4. /\ StockTyped' /\ NothingLeft' /\ SeenStands' /\ GivenOnce'
      /\ \A b \in Buckets : journal'[b] = Units(b)'
      /\ Loose' = Loose /\ Loose' >= 0
  BY <1>1, <1>2, <1>3, SettingKept
<1>5. Balanced'
  BY <1>1, <1>2, <1>4 DEF Balanced
<1>6. Untold'
  BY <1>1, <1>2 DEF Untold
<1>7. AllArmed'
  <2>1. \A v \in Variants : v \in AlertKeys
    BY DEF AlertKeys
  <2> QED
    BY <1>1, <1>2, <2>1 DEF AllArmed
<1> QED
  BY <1>4, <1>5, <1>6, <1>7

(* The threshold of a product with variants or without stock stays zero.   *)
LEMMA EditMinKept ==
  ASSUME StockInv, StockConstants, NEW min \in Thresholds, EditMin(min) PROVE StockInv'
<1> USE DEF StockInv
<1>1. PICK row : row = [product EXCEPT !.min = min]
  OBVIOUS
<1>2. /\ row \in ProductRow /\ row.state = product.state /\ row.quantity = product.quantity /\ row.kind = product.kind
      /\ row.hasVariants = product.hasVariants /\ row.tracked = product.tracked
  BY <1>1, StockConstants DEF StockTyped, ProductRow
<1>3. product' = Normalized(row) /\ UNCHANGED Settings
  BY <1>1 DEF EditMin
<1>4. /\ product'.min \in Nat /\ product.quantity \in Nat
      /\ ~row.tracked \/ row.hasVariants => product'.min = 0
  BY <1>2, <1>3, NormalizedIs DEF ProductRow, StockTyped
<1>5. /\ Untracked \in AlertKeys
      /\ alerted' \in [AlertKeys -> BOOLEAN] /\ \A k \in AlertKeys : alerted'[k] => alerted[k]
      /\ alerted'[Untracked] <=> alerted[Untracked] /\ ~Rearms(product.tracked, product.quantity, product'.min)
  BY DEF EditMin, StockTyped, AlertKeys
<1>6. ~recast /\ product.quantity > product'.min => ~alerted'[Untracked]
  BY <1>2, <1>4, <1>5 DEF Rearms, AllArmed, Untold
<1>7. /\ row.hasVariants => product.quantity = 0 /\ \A l \in Lots : lot[l].quantity = 0
      /\ ~row.tracked /\ ~row.hasVariants => Loose = 0
  BY <1>2 DEF Balanced
<1> QED
  BY <1>2, <1>3, <1>5, <1>6, <1>7, ProductSetting

(* Lots change no balance.                                                 *)
LEMMA SwitchLotsKept ==
  ASSUME StockInv, NEW useLots \in BOOLEAN, SwitchLots(useLots) PROVE StockInv'
<1> USE DEF StockInv
<1>1. PICK row : row = [product EXCEPT !.useLots = useLots]
  OBVIOUS
<1>2. /\ row \in ProductRow /\ row.state = product.state /\ row.quantity = product.quantity /\ row.kind = product.kind
      /\ row.hasVariants = product.hasVariants /\ row.tracked = product.tracked /\ row.min = product.min
  BY <1>1 DEF StockTyped, ProductRow
<1>3. product' = Normalized(row) /\ UNCHANGED Settings /\ alerted' = alerted
  BY <1>1 DEF SwitchLots
<1>4. ~recast /\ product.quantity > product'.min => ~alerted'[Untracked]
  <2>1. product'.min = IF ~row.tracked \/ row.hasVariants THEN 0 ELSE row.min
    BY <1>2, <1>3, NormalizedIs
  <2>2. product.hasVariants => product.quantity = 0
    BY DEF Balanced
  <2>3. ~product.tracked => product.min = 0
    BY DEF Untold
  <2>4. ~recast /\ product.quantity > product.min => ~alerted[Untracked]
    BY DEF AllArmed
  <2> QED
    BY <1>2, <1>3, <2>1, <2>2, <2>3, <2>4
<1>5. /\ row.hasVariants => product.quantity = 0 /\ \A l \in Lots : lot[l].quantity = 0
      /\ ~row.tracked /\ ~row.hasVariants => Loose = 0
  BY <1>2 DEF Balanced
<1>6. alerted' \in [AlertKeys -> BOOLEAN] /\ \A k \in AlertKeys : alerted'[k] => alerted[k]
  BY <1>3 DEF StockTyped
<1> QED
  BY <1>2, <1>3, <1>4, <1>5, <1>6, ProductSetting

(* What was not tracked had no threshold and no units of its own.          *)
LEMMA TrackKept ==
  ASSUME StockInv, Track PROVE StockInv'
<1> USE DEF StockInv
<1>1. PICK row : row = [product EXCEPT !.tracked = TRUE]
  OBVIOUS
<1>2. /\ row \in ProductRow /\ row.state = product.state /\ row.quantity = product.quantity /\ row.kind = product.kind
      /\ row.hasVariants = product.hasVariants /\ row.tracked /\ row.min = product.min
  BY <1>1 DEF StockTyped, ProductRow
<1>3. product' = Normalized(row) /\ UNCHANGED Settings /\ alerted' = alerted
  BY <1>1 DEF Track
<1>4. ~recast /\ product.quantity > product'.min => ~alerted'[Untracked]
  <2>1. product'.min = IF row.hasVariants THEN 0 ELSE row.min
    BY <1>2, <1>3, NormalizedIs
  <2>2. product.hasVariants => product.quantity = 0
    BY DEF Balanced
  <2>3. ~recast /\ product.quantity > product.min => ~alerted[Untracked]
    BY DEF AllArmed
  <2> QED
    BY <1>2, <1>3, <2>1, <2>2, <2>3
<1>5. row.hasVariants => product.quantity = 0 /\ \A l \in Lots : lot[l].quantity = 0
  BY <1>2 DEF Balanced
<1>6. alerted' \in [AlertKeys -> BOOLEAN] /\ \A k \in AlertKeys : alerted'[k] => alerted[k]
  BY <1>3 DEF StockTyped
<1> QED
  BY <1>2, <1>3, <1>4, <1>5, <1>6, ProductSetting

(* A parent of variants has no units of its own.                           *)
LEMMA DisableVariantsKept ==
  ASSUME StockInv, DisableVariants PROVE StockInv'
<1> USE DEF StockInv
<1>1. PICK row : row = [product EXCEPT !.hasVariants = FALSE]
  OBVIOUS
<1>2. /\ row \in ProductRow /\ row.state = product.state /\ row.quantity = product.quantity /\ row.kind = product.kind
      /\ ~row.hasVariants /\ row.tracked = product.tracked
  BY <1>1 DEF StockTyped, ProductRow
<1>3. product' = Normalized(row) /\ UNCHANGED Settings /\ alerted' = alerted
  BY <1>1 DEF DisableVariants
<1>4. product.quantity = 0 /\ Loose = 0
  BY EmptyLots, UnitsAre DEF DisableVariants, Balanced
<1>5. product'.min \in Nat
  BY <1>2, <1>3, NormalizedIs DEF ProductRow
<1>6. alerted' \in [AlertKeys -> BOOLEAN] /\ \A k \in AlertKeys : alerted'[k] => alerted[k]
  BY <1>3 DEF StockTyped
<1> QED
  BY <1>2, <1>3, <1>4, <1>5, <1>6, ProductSetting

(* Nothing that is there holds units, so no threshold is missed.           *)
LEMMA UntrackKept ==
  ASSUME StockInv, Untrack PROVE StockInv'
<1> USE DEF StockInv
<1>1. PICK row : row = [product EXCEPT !.tracked = FALSE]
  OBVIOUS
<1>2. /\ row \in ProductRow /\ row.state = product.state /\ row.quantity = product.quantity /\ row.kind = product.kind
      /\ row.hasVariants = product.hasVariants /\ row.tracked = FALSE
  BY <1>1 DEF StockTyped, ProductRow
<1>3. product' = Normalized(row)
  BY <1>1 DEF Untrack
<1>4. /\ product' \in ProductRow /\ product'.state = product.state /\ product'.quantity = product.quantity
      /\ product'.hasVariants = product.hasVariants /\ product'.kind = product.kind
      /\ product'.tracked = FALSE /\ product'.min = 0
  BY <1>2, <1>3, NormalizedIs
<1>5. /\ lot' = lot /\ journal' = journal /\ order' = order /\ taken' = taken
      /\ given' = given /\ seen' = seen /\ recast' = recast /\ alerted' = alerted
  BY DEF Untrack, saleRows
<1>6. /\ product.quantity = 0 /\ Loose = 0
  <2>1. product.quantity = 0
    BY DEF Untrack, Untracks, Balanced
  <2>2. Loose >= 0
    BY DEF Balanced
  <2> QED
    BY <2>1, <2>2, UnitsAre
<1>7. variant' = [v \in Variants |-> [variant[v] EXCEPT !.min = 0]]
  BY DEF Untrack, Untracks
<1>8. /\ variant' \in [Variants -> VariantRow]
      /\ \A v \in Variants : /\ variant'[v].quantity = variant[v].quantity
                             /\ variant'[v].state = variant[v].state /\ variant'[v].min = 0
  <2>1. ASSUME NEW v \in Variants
        PROVE  /\ variant'[v] \in VariantRow /\ variant'[v].quantity = variant[v].quantity
               /\ variant'[v].state = variant[v].state /\ variant'[v].min = 0
    BY <1>7 DEF VariantRow, StockTyped
  <2> QED
    BY <1>7, <2>1
<1>9. \A v \in Variants : variant[v].state = "LIVE" => variant[v].quantity = 0
  BY DEF Untrack, Untracks
<1>10. /\ lot' \in [Lots -> LotRow] /\ alerted' \in [AlertKeys -> BOOLEAN]
       /\ \A l \in Lots : /\ lot'[l].quantity = lot[l].quantity
                          /\ lot'[l].state # "LIVE" => lot[l].quantity = 0
                          /\ lot'[l].state = "LIVE" => lot[l].state = "LIVE"
       /\ \A k \in AlertKeys : alerted'[k] => alerted[k]
  BY <1>5 DEF StockTyped, NothingLeft
<1>11. /\ StockTyped' /\ NothingLeft' /\ SeenStands' /\ GivenOnce'
       /\ \A b \in Buckets : journal'[b] = Units(b)'
       /\ Loose' = Loose /\ Loose' >= 0
  BY <1>4, <1>5, <1>8, <1>10, SettingKept
<1>12. Balanced'
  BY <1>4, <1>5, <1>6, <1>11 DEF Balanced
<1>13. Untold'
  BY <1>4, <1>5, <1>8 DEF Untold
<1>14. AllArmed'
  BY <1>4, <1>6, <1>8, <1>9 DEF AllArmed
<1> QED
  BY <1>11, <1>12, <1>13, <1>14

(* What was a service can escape its alerts.                               *)
LEMMA ToProductKept ==
  ASSUME StockInv, StockConstants, NEW tracked \in BOOLEAN, NEW useLots \in BOOLEAN, NEW min \in Thresholds,
         NEW named, ToProduct(tracked, useLots, min, named)
  PROVE  StockInv'
<1> USE DEF StockInv
<1>1. PICK row : row = [product EXCEPT !.kind = "PRODUCT", !.tracked = tracked, !.useLots = useLots, !.min = min]
  OBVIOUS
<1>2. /\ row \in ProductRow /\ row.state = product.state /\ row.quantity = product.quantity /\ row.kind = "PRODUCT"
      /\ row.hasVariants = product.hasVariants /\ row.tracked = tracked /\ row.min = min
  <2>1. min \in Nat /\ product \in ProductRow
    BY StockConstants DEF StockTyped
  <2>2. row \in ProductRow
    BY <1>1, <2>1 DEF ProductRow
  <2> QED
    BY <1>1, <2>1, <2>2 DEF ProductRow
<1>3. product' = Normalized(row)
  BY <1>1 DEF ToProduct
<1>4. /\ product' \in ProductRow /\ product'.state = product.state /\ product'.quantity = product.quantity
      /\ product'.hasVariants = product.hasVariants /\ product'.kind = "PRODUCT" /\ product'.tracked = tracked
      /\ ~tracked => product'.min = 0
      /\ product'.min \in Nat /\ product.quantity \in Nat
  <2>1. /\ product' \in ProductRow /\ product'.state = product.state /\ product'.quantity = product.quantity
        /\ product'.hasVariants = product.hasVariants /\ product'.kind = "PRODUCT" /\ product'.tracked = tracked
        /\ ~tracked => product'.min = 0
    BY <1>2, <1>3, NormalizedIs
  <2> QED
    BY <2>1, UnitsAre DEF ProductRow
<1>5. /\ lot' = lot /\ journal' = journal /\ order' = order /\ taken' = taken
      /\ given' = given /\ seen' = seen /\ recast' = recast
      /\ product.kind = "SERVICE"
  BY DEF ToProduct, saleRows
<1>6. recast
  BY <1>5 DEF Untold
<1>7. product.tracked /\ ~tracked => product.quantity = 0 /\ Loose = 0
  <2>1. product.tracked /\ ~tracked => product.quantity = 0
    BY DEF ToProduct, Untracks, Balanced
  <2>2. Loose >= 0
    BY DEF Balanced
  <2> QED
    BY <2>1, <2>2, UnitsAre
<1>8. /\ variant' \in [Variants -> VariantRow]
      /\ \A v \in Variants : variant'[v].quantity = variant[v].quantity /\ variant'[v].state = variant[v].state
  <2>1. CASE product.tracked /\ ~tracked
    <3>1. variant' = [v \in Variants |-> [variant[v] EXCEPT !.min = 0]]
      BY <2>1 DEF ToProduct, Untracks
    <3>2. ASSUME NEW v \in Variants
          PROVE  /\ variant'[v] \in VariantRow /\ variant'[v].quantity = variant[v].quantity
                 /\ variant'[v].state = variant[v].state
      BY <3>1 DEF VariantRow, StockTyped
    <3> QED
      BY <3>1, <3>2
  <2>2. CASE ~(product.tracked /\ ~tracked)
    BY <2>2 DEF ToProduct, StockTyped
  <2> QED
    BY <2>1, <2>2
<1>9. /\ Untracked \in AlertKeys
      /\ alerted' \in [AlertKeys -> BOOLEAN] /\ \A k \in AlertKeys : alerted'[k] => alerted[k]
  BY DEF ToProduct, StockTyped, AlertKeys
<1>10. /\ lot' \in [Lots -> LotRow]
       /\ \A l \in Lots : /\ lot'[l].quantity = lot[l].quantity
                          /\ lot'[l].state # "LIVE" => lot[l].quantity = 0
                          /\ lot'[l].state = "LIVE" => lot[l].state = "LIVE"
  BY <1>5 DEF StockTyped, NothingLeft
<1>11. /\ StockTyped' /\ NothingLeft' /\ SeenStands' /\ GivenOnce'
       /\ \A b \in Buckets : journal'[b] = Units(b)'
       /\ Loose' = Loose /\ Loose' >= 0
  BY <1>4, <1>5, <1>8, <1>9, <1>10, SettingKept
<1>12. Balanced'
  BY <1>4, <1>5, <1>7, <1>11 DEF Balanced
<1>13. Untold'
  BY <1>4, <1>5, <1>6 DEF Untold
<1>14. AllArmed'
  BY <1>5, <1>6 DEF AllArmed
<1> QED
  BY <1>11, <1>12, <1>13, <1>14

(* An edit of the threshold re-arms, or the variant is not tracked.        *)
LEMMA EditVariantMinKept ==
  ASSUME StockInv, StockConstants, NEW v \in Variants, NEW min \in Thresholds, EditVariantMin(v, min)
  PROVE  StockInv'
<1> USE DEF StockInv
<1>1. PICK kept \in Nat : kept = IF product.tracked THEN min ELSE 0
  BY StockConstants
<1>2. /\ variant' = [variant EXCEPT ![v].min = kept]
      /\ product' = product /\ lot' = lot /\ journal' = journal /\ order' = order /\ taken' = taken
      /\ given' = given /\ seen' = seen /\ recast' = recast
      /\ variant[v].state = "LIVE"
      /\ alerted' = [alerted EXCEPT ![v] = @ /\ ~Rearms(product.tracked, variant[v].quantity, variant'[v].min)]
  BY <1>1 DEF EditVariantMin, saleRows
<1>3. /\ variant' \in [Variants -> VariantRow]
      /\ \A w \in Variants : /\ variant'[w].quantity = variant[w].quantity /\ variant'[w].state = variant[w].state
                             /\ w # v => variant'[w].min = variant[w].min
      /\ variant'[v].min = kept
  <2>1. PICK row : row = [variant[v] EXCEPT !.min = kept]
    OBVIOUS
  <2>2. variant[v] \in VariantRow
    BY DEF StockTyped
  <2>3. /\ row \in VariantRow /\ row.quantity = variant[v].quantity /\ row.state = variant[v].state /\ row.min = kept
    BY <2>1, <2>2 DEF VariantRow
  <2>4. variant' = [variant EXCEPT ![v] = row] /\ variant \in [Variants -> VariantRow]
    BY <1>2, <2>1 DEF StockTyped
  <2> QED
    BY <2>3, <2>4
<1>4. /\ product' \in ProductRow /\ lot' \in [Lots -> LotRow]
      /\ \A l \in Lots : /\ lot'[l].quantity = lot[l].quantity
                         /\ lot'[l].state # "LIVE" => lot[l].quantity = 0
                         /\ lot'[l].state = "LIVE" => lot[l].state = "LIVE"
      /\ product'.quantity = product.quantity /\ product'.state = product.state
  BY <1>2 DEF StockTyped, NothingLeft
<1>5. /\ v \in AlertKeys /\ v # Untracked
      /\ alerted' \in [AlertKeys -> BOOLEAN] /\ \A k \in AlertKeys : alerted'[k] => alerted[k]
      /\ alerted'[v] <=> alerted[v] /\ ~Rearms(product.tracked, variant[v].quantity, kept)
  BY ZenonT(60), <1>2, <1>3, BucketsApart DEF StockTyped, AlertKeys
<1>6. /\ StockTyped' /\ NothingLeft' /\ SeenStands' /\ GivenOnce'
      /\ \A b \in Buckets : journal'[b] = Units(b)'
      /\ Loose' = Loose /\ Loose' >= 0
  BY <1>2, <1>3, <1>4, <1>5, SettingKept
<1>7. Balanced'
  BY <1>2, <1>6 DEF Balanced
<1>8. Untold'
  BY <1>1, <1>2, <1>3 DEF Untold
<1>9. AllArmed'
  <2>1. ~recast /\ product'.quantity > product'.min => ~alerted'[Untracked]
    BY <1>2, <1>5 DEF AllArmed, AlertKeys
  <2>2. ~recast /\ variant[v].quantity > kept => ~alerted'[v]
    BY <1>1, <1>2, <1>5 DEF AllArmed, Untold, Rearms
  <2>3. \A w \in Variants : w \in AlertKeys
    BY DEF AlertKeys
  <2>4. ~recast => \A w \in Variants \ {v} :
          variant'[w].state = "LIVE" /\ variant'[w].quantity > variant'[w].min => ~alerted'[w]
    BY <1>3, <1>5, <2>3 DEF AllArmed
  <2>5. ~recast => \A w \in Variants :
          variant'[w].state = "LIVE" /\ variant'[w].quantity > variant'[w].min => ~alerted'[w]
    BY <1>3, <2>2, <2>4
  <2> QED
    BY <1>2, <2>1, <2>5 DEF AllArmed
<1> QED
  BY <1>6, <1>7, <1>8, <1>9

(* A lot goes only when it is empty.                                       *)
LEMMA LotSettingKept ==
  ASSUME StockInv, StockConstants, NEW l \in Lots, RemoveLot(l) \/ \E day \in Days : EditLotDate(l, day)
  PROVE  StockInv'
<1> USE DEF StockInv
<1>1. /\ product' = product /\ variant' = variant /\ journal' = journal /\ order' = order /\ taken' = taken
      /\ given' = given /\ seen' = seen /\ recast' = recast /\ alerted' = alerted
      /\ lot[l].state = "LIVE"
  BY DEF RemoveLot, EditLotDate, saleRows
<1>2. /\ lot' \in [Lots -> LotRow]
      /\ \A k \in Lots : /\ lot'[k].quantity = lot[k].quantity
                         /\ lot'[k].state # "LIVE" => lot[k].quantity = 0
                         /\ lot'[k].state = "LIVE" => lot[k].state = "LIVE"
  <2>1. lot[l] \in LotRow /\ lot \in [Lots -> LotRow]
    BY DEF StockTyped
  <2>2. PICK row \in LotRow : /\ lot' = [lot EXCEPT ![l] = row] /\ row.quantity = lot[l].quantity
                              /\ row.state # "LIVE" => lot[l].quantity = 0
    <3>1. CASE RemoveLot(l)
      <4>1. PICK row : row = [lot[l] EXCEPT !.state = "GONE"]
        OBVIOUS
      <4>2. row \in LotRow /\ row.quantity = lot[l].quantity
        BY <2>1, <4>1 DEF LotRow, LifeStates
      <4>3. lot' = [lot EXCEPT ![l] = row] /\ lot[l].quantity = 0
        BY <3>1, <4>1 DEF RemoveLot
      <4> QED
        BY <4>2, <4>3
    <3>2. ASSUME NEW day \in Days, EditLotDate(l, day)
          PROVE  \E row \in LotRow : /\ lot' = [lot EXCEPT ![l] = row] /\ row.quantity = lot[l].quantity
                                     /\ row.state # "LIVE" => lot[l].quantity = 0
      <4>1. PICK row : row = [lot[l] EXCEPT !.expires = day]
        OBVIOUS
      <4>2. row \in LotRow /\ row.quantity = lot[l].quantity /\ row.state = lot[l].state
        BY <2>1, <4>1 DEF LotRow
      <4>3. lot' = [lot EXCEPT ![l] = row]
        BY <3>2, <4>1 DEF EditLotDate
      <4> QED
        BY <1>1, <4>2, <4>3
    <3> QED
      BY <3>1, <3>2
  <2> QED
    BY <1>1, <2>1, <2>2 DEF NothingLeft
<1>3. /\ product' \in ProductRow /\ variant' \in [Variants -> VariantRow]
      /\ product'.quantity = product.quantity /\ product'.state = product.state
      /\ \A v \in Variants : variant'[v].quantity = variant[v].quantity /\ variant'[v].state = variant[v].state
      /\ alerted' \in [AlertKeys -> BOOLEAN] /\ \A k \in AlertKeys : alerted'[k] => alerted[k]
  BY <1>1 DEF StockTyped
<1>4. /\ StockTyped' /\ NothingLeft' /\ SeenStands' /\ GivenOnce'
      /\ \A b \in Buckets : journal'[b] = Units(b)'
      /\ Loose' = Loose /\ Loose' >= 0
  BY <1>1, <1>2, <1>3, SettingKept
<1>5. Balanced'
  BY <1>1, <1>2, <1>4 DEF Balanced
<1>6. Untold' /\ AllArmed'
  BY <1>1 DEF Untold, AllArmed
<1> QED
  BY <1>4, <1>5, <1>6

(* The day changes nothing, and a reader sees what there is.               *)
LEMMA StutterKept ==
  ASSUME StockInv, StockConstants, NextDay \/ (\E a \in Adjusters, b \in Buckets : ReadStock(a, b))
  PROVE  StockInv'
<1> USE DEF StockInv
<1>1. CASE NextDay
  <2>1. /\ product' = product /\ lot' = lot /\ variant' = variant /\ journal' = journal /\ order' = order
        /\ taken' = taken /\ given' = given /\ recast' = recast /\ alerted' = alerted /\ seen' = seen
    BY <1>1 DEF NextDay, saleRows
  <2>2. \A b \in Buckets : Units(b)' = Units(b)
    BY <2>1, UnitsStay DEF StockTyped
  <2>3. StockTyped' /\ NothingLeft' /\ Untold' /\ AllArmed' /\ GivenOnce'
    BY <2>1 DEF StockTyped, NothingLeft, IsLive, Untold, AllArmed, GivenOnce, RestoredOnce, Total
  <2>4. Balanced' /\ SeenStands'
    BY <2>1, <2>2 DEF Balanced, Loose, InLots, SeenStands
  <2> QED
    BY <2>3, <2>4
<1>2. ASSUME NEW a \in Adjusters, NEW b \in Buckets, ReadStock(a, b) PROVE StockInv'
  <2>1. /\ product' = product /\ lot' = lot /\ variant' = variant /\ journal' = journal /\ order' = order
        /\ taken' = taken /\ given' = given /\ recast' = recast /\ alerted' = alerted /\ IsLive
    BY <1>2 DEF ReadStock, saleRows
  <2>2. PICK row : row = [bucket |-> b, units |-> Units(b)]
    OBVIOUS
  <2>3. seen' = [seen EXCEPT ![a] = row]
    BY <1>2, <2>2 DEF ReadStock
  <2>4. row.bucket = b /\ row.units = Units(b) /\ row \in [bucket : Buckets \cup {-1}, units : Int]
    BY <2>2, UnitsAre
  <2>5. \A c \in Buckets : Units(c)' = Units(c)
    BY <2>1, UnitsStay DEF StockTyped
  <2>6. seen' \in [Adjusters -> [bucket : Buckets \cup {-1}, units : Int]]
    BY <2>3, <2>4 DEF StockTyped
  <2>7. ASSUME NEW d \in Adjusters, NEW c \in Buckets, seen'[d].bucket = c PROVE Units(c)' = seen'[d].units
    <3>1. CASE d = a
      BY <2>3, <2>4, <2>5, <2>7, <3>1 DEF StockTyped
    <3>2. CASE d # a
      BY <2>3, <2>5, <2>7, <3>2 DEF StockTyped, SeenStands
    <3> QED
      BY <3>1, <3>2
  <2>8. SeenStands'
    BY <2>1, <2>7 DEF SeenStands, IsLive
  <2>9. StockTyped'
    BY <2>1, <2>6 DEF StockTyped
  <2>10. NothingLeft' /\ Untold' /\ AllArmed' /\ GivenOnce'
    BY <2>1 DEF NothingLeft, IsLive, Untold, AllArmed, GivenOnce, RestoredOnce, Total
  <2>11. Balanced'
    BY <2>1, <2>5 DEF Balanced, Loose, InLots
  <2> QED
    BY <2>8, <2>9, <2>10, <2>11
<1> QED
  BY <1>1, <1>2

-----------------------------------------------------------------------------
(* Removals *)

(* The sales, the alerts and the readers of an operation that moves all    *)
(* the stock out.                                                          *)
LEMMA AllOut ==
  ASSUME StockInv, NEW row \in ProductRow, row.quantity = product.quantity,
         NEW lots \in [Lots -> LotRow], \A l \in Lots : lots[l].quantity = lot[l].quantity,
         NEW variants \in [Variants -> VariantRow],
         \A v \in Variants : variants[v].quantity = variant[v].quantity,
         Persist(Removal, row, lots, variants),
         seen' = Reread(Removal), order' = order, taken' = taken, given' = given,
         alerted' = alerted \/ alerted' = AlertsAfter(Removal),
         row.state # "NONE",
         \A v \in Variants : variants[v].state = "NONE" => variant[v].state = "NONE",
         row.state # "LIVE" => /\ \A l \in Lots : lots[l].state # "LIVE"
                               /\ \A v \in Variants : variants[v].state # "LIVE",
         ~row.tracked => row.min = 0,
         row.kind = "SERVICE" => recast',
         ~row.tracked /\ ~recast' => \A v \in Variants : variants[v].state = "LIVE" => variants[v].min = 0
  PROVE  StockInv'
<1> USE DEF StockInv
<1>1. /\ product' \in ProductRow /\ lot' \in [Lots -> LotRow] /\ variant' \in [Variants -> VariantRow]
      /\ product' = [row EXCEPT !.quantity = 0]
      /\ \A l \in Lots : lot'[l] = [lots[l] EXCEPT !.quantity = 0]
      /\ \A v \in Variants : variant'[v] = [variants[v] EXCEPT !.quantity = 0]
      /\ journal' \in Moves
      /\ \A b \in Buckets : Units(b)' = Units(b) + Removal[b] /\ journal'[b] = Units(b)'
      /\ Loose' = 0 /\ Balanced'
  BY NothingStays
<1>2. PICK move \in Moves : move = Removal
  BY RemovalIsAll
<1>3. /\ product'.state = row.state /\ product'.quantity = 0 /\ product'.min = row.min /\ product'.min \in Nat
      /\ product'.tracked = row.tracked /\ product'.kind = row.kind /\ (IsLive' <=> row.state = "LIVE")
  BY <1>1 DEF ProductRow, IsLive
<1>4. \A l \in Lots : lot'[l].state = lots[l].state /\ lot'[l].quantity = 0
  BY <1>1 DEF LotRow
<1>5. \A v \in Variants : /\ variant'[v].state = variants[v].state /\ variant'[v].quantity = 0
                          /\ variant'[v].min = variants[v].min /\ variant'[v].min \in Nat
  BY <1>1 DEF VariantRow
<1>6. SeenStands' /\ seen' \in [Adjusters -> [bucket : Buckets \cup {-1}, units : Int]]
  <2>1. seen' = [a \in Adjusters |-> seen'[a]] /\ \A a \in Adjusters : seen'[a] \in {Reread(move)[a], Unread}
    BY <1>2 DEF Reread
  <2>2. \A b \in Buckets : Units(b)' = Units(b) + move[b]
    BY <1>1, <1>2
  <2> QED
    BY <1>3, <2>1, <2>2, RereadKept
<1>7. alerted' \in [AlertKeys -> BOOLEAN] /\ \A v \in Variants : variant[v].state = "NONE" => ~alerted'[v]
  <2>1. CASE alerted' = alerted
    BY <2>1 DEF StockTyped, NothingLeft
  <2>2. CASE alerted' = AlertsAfter(Removal)
    <3>1. \A v \in Variants : variant[v].state = "NONE" => move[v] = 0 /\ ~alerted[v]
      BY <1>2, RemovalIsAll DEF NothingLeft
    <3>2. /\ alerted' \in [AlertKeys -> BOOLEAN]
          /\ \A v \in Variants : move[v] = 0 /\ ~alerted[v] => ~alerted'[v]
      BY <1>2, <2>2, AlertsArmed
    <3> QED
      BY <3>1, <3>2
  <2> QED
    BY <2>1, <2>2
<1>8. StockTyped'
  BY <1>1, <1>6, <1>7 DEF StockTyped
<1>9. NothingLeft'
  BY <1>3, <1>4, <1>5, <1>7 DEF NothingLeft
<1>10. Untold'
  BY <1>3, <1>5 DEF Untold
<1>11. AllArmed'
  BY <1>3, <1>5 DEF AllArmed
<1>12. GivenOnce'
  BY DEF GivenOnce, RestoredOnce, Total
<1> QED
  BY <1>1, <1>6, <1>8, <1>9, <1>10, <1>11, <1>12

(* The rows go with all that they held.                                    *)
LEMMA RemoveProductKept ==
  ASSUME StockInv, RemoveProduct PROVE StockInv'
<1> USE DEF StockInv
<1> DEFINE gone(row) == IF row.state = "LIVE" THEN [row EXCEPT !.state = "GONE"] ELSE row
<1>1. PICK row : row = gone(product)
  OBVIOUS
<1>2. PICK lots : lots = [l \in Lots |-> gone(lot[l])]
  OBVIOUS
<1>3. PICK variants : variants = [v \in Variants |-> gone(variant[v])]
  OBVIOUS
<1>4. /\ Persist(Removal, row, lots, variants) /\ IsLive
      /\ seen' = Reread(Removal) /\ order' = order /\ taken' = taken /\ given' = given
      /\ alerted' = alerted /\ recast' = recast
  BY <1>1, <1>2, <1>3 DEF RemoveProduct, saleRows
<1>5. /\ row \in ProductRow /\ row.quantity = product.quantity /\ row.state = "GONE" /\ row.kind = product.kind
      /\ row.tracked = product.tracked /\ row.min = product.min
  BY <1>1, <1>4 DEF StockTyped, ProductRow, LifeStates, IsLive
<1>6. ASSUME NEW l \in Lots PROVE lots[l] \in LotRow /\ lots[l].quantity = lot[l].quantity /\ lots[l].state # "LIVE"
  <2>1. lot[l] \in LotRow /\ lots[l] = gone(lot[l])
    BY <1>2 DEF StockTyped
  <2> QED
    BY <2>1 DEF LotRow, LifeStates
<1>7. ASSUME NEW v \in Variants
      PROVE  /\ variants[v] \in VariantRow /\ variants[v].quantity = variant[v].quantity /\ variants[v].state # "LIVE"
             /\ variants[v].state = "NONE" => variant[v].state = "NONE"
  <2>1. variant[v] \in VariantRow /\ variants[v] = gone(variant[v])
    BY <1>3 DEF StockTyped
  <2> QED
    BY <2>1 DEF VariantRow, LifeStates
<1>8. lots \in [Lots -> LotRow] /\ variants \in [Variants -> VariantRow]
  BY <1>2, <1>3, <1>6, <1>7
<1>9. /\ ~row.tracked => row.min = 0
      /\ row.kind = "SERVICE" => recast'
  BY <1>4, <1>5 DEF Untold
<1> HIDE DEF gone
<1> QED
  BY <1>4, <1>5, <1>6, <1>7, <1>8, <1>9, AllOut

(* The parent gives up its units.                                          *)
LEMMA EnableVariantsKept ==
  ASSUME StockInv, EnableVariants PROVE StockInv'
<1> USE DEF StockInv
<1>1. PICK row : row = [product EXCEPT !.hasVariants = TRUE]
  OBVIOUS
<1>2. /\ row \in ProductRow /\ row.state = product.state /\ row.quantity = product.quantity /\ row.kind = product.kind
      /\ row.tracked = product.tracked /\ row.hasVariants
  BY <1>1 DEF StockTyped, ProductRow
<1>3. PICK norm : norm = Normalized(row)
  OBVIOUS
<1>4. /\ norm \in ProductRow /\ norm.state = product.state /\ norm.quantity = product.quantity
      /\ norm.kind = product.kind /\ norm.tracked = product.tracked /\ norm.min = 0
  BY <1>2, <1>3, NormalizedIs
<1>5. /\ Persist(Removal, norm, lot, variant) /\ product.state = "LIVE"
      /\ seen' = Reread(Removal) /\ order' = order /\ taken' = taken /\ given' = given
      /\ alerted' = AlertsAfter(Removal) /\ recast' = recast
  BY <1>1, <1>3 DEF EnableVariants, saleRows, IsLive
<1>6. lot \in [Lots -> LotRow] /\ variant \in [Variants -> VariantRow]
  BY DEF StockTyped
<1>7. /\ norm.kind = "SERVICE" => recast'
      /\ ~norm.tracked /\ ~recast' => \A v \in Variants : variant[v].state = "LIVE" => variant[v].min = 0
  BY <1>4, <1>5 DEF Untold
<1> QED
  BY <1>4, <1>5, <1>6, <1>7, AllOut

(* A service has no units.                                                 *)
LEMMA ToServiceKept ==
  ASSUME StockInv, ToService PROVE StockInv'
<1> USE DEF StockInv
<1>1. PICK row : row = [product EXCEPT !.kind = "SERVICE", !.tracked = FALSE]
  OBVIOUS
<1>2. /\ row \in ProductRow /\ row.state = product.state /\ row.quantity = product.quantity /\ row.tracked = FALSE
  <2>1. product \in ProductRow
    BY DEF StockTyped
  <2>2. row \in ProductRow
    BY <1>1, <2>1 DEF ProductRow
  <2> QED
    BY <1>1, <2>1, <2>2 DEF ProductRow
<1>3. PICK norm : norm = Normalized(row)
  OBVIOUS
<1>4. /\ norm \in ProductRow /\ norm.state = product.state /\ norm.quantity = product.quantity
      /\ norm.tracked = FALSE /\ norm.min = 0
  BY <1>2, <1>3, NormalizedIs
<1>5. /\ Persist(Removal, norm, lot, variant) /\ product.state = "LIVE"
      /\ seen' = Reread(Removal) /\ order' = order /\ taken' = taken /\ given' = given
      /\ alerted' = alerted /\ recast'
  BY <1>1, <1>3 DEF ToService, saleRows, IsLive
<1>6. lot \in [Lots -> LotRow] /\ variant \in [Variants -> VariantRow]
  BY DEF StockTyped
<1> QED
  BY <1>4, <1>5, <1>6, AllOut

-----------------------------------------------------------------------------
(* Movements of one bucket *)

(* An operation that moves one bucket.                                     *)
LEMMA OneMove ==
  ASSUME NEW b \in Buckets, NEW n \in Int
  PROVE  \A move : move = [NoMove EXCEPT ![b] = n] =>
           /\ move \in Moves /\ move[b] = n /\ \A c \in Buckets : c # b => move[c] = 0
           /\ b \in Variants => OfProduct(move) = 0
<1> SUFFICES ASSUME NEW move, move = [NoMove EXCEPT ![b] = n]
             PROVE  /\ move \in Moves /\ move[b] = n /\ \A c \in Buckets : c # b => move[c] = 0
                    /\ b \in Variants => OfProduct(move) = 0
  OBVIOUS
<1>1. move \in Moves /\ move[b] = n /\ \A c \in Buckets : c # b => move[c] = 0
  BY DEF NoMove, Moves
<1>2. b \in Variants => move[Untracked] = 0 /\ \A l \in Lots : move[l] = 0
  BY <1>1, BucketsApart
<1>3. b \in Variants => OfProduct(move) = 0
  <2>1. SUFFICES ASSUME b \in Variants PROVE OfProduct(move) = 0
    OBVIOUS
  <2>2. SumFunctionOnSet(move, Lots) = 0
    BY <1>2, <2>1, BucketsApart, SumZero
  <2> QED
    BY <1>2, <2>1, <2>2 DEF OfProduct, Total
<1> QED
  BY <1>1, <1>3

(* A variant goes with what it held.                                       *)
LEMMA RemoveVariantKept ==
  ASSUME StockInv, NEW v \in Variants, RemoveVariant(v) PROVE StockInv'
<1> USE DEF StockInv
<1>1. v \in Buckets /\ variant[v] \in VariantRow /\ -variant[v].quantity \in Int
  BY BucketsApart DEF StockTyped, VariantRow
<1>2. PICK move : move = [NoMove EXCEPT ![v] = -variant[v].quantity]
  OBVIOUS
<1>3. /\ move \in Moves /\ move[v] = -variant[v].quantity /\ \A c \in Buckets : c # v => move[c] = 0
      /\ OfProduct(move) = 0 /\ move[Untracked] = 0 /\ \A l \in Lots : move[l] = 0
  <2>1. PICK n \in Int : n = -variant[v].quantity
    BY <1>1
  <2>2. move = [NoMove EXCEPT ![v] = n]
    BY <1>2, <2>1
  <2>3. /\ move \in Moves /\ move[v] = n /\ \A c \in Buckets : c # v => move[c] = 0
        /\ OfProduct(move) = 0
    <3>1. v \in Buckets /\ n \in Int /\ v \in Variants
      BY <1>1
    <3>2. \A any : any = [NoMove EXCEPT ![v] = n] =>
           /\ any \in Moves /\ any[v] = n /\ \A c \in Buckets : c # v => any[c] = 0
           /\ v \in Variants => OfProduct(any) = 0
      BY <3>1, OneMove
    <3> QED
      BY <3>1, <3>2, <2>2
  <2> QED
    BY <2>1, <2>3, BucketsApart
<1>4. PICK last \in BOOLEAN : last = \A w \in Variants \ {v} : variant[w].state # "LIVE"
  OBVIOUS
<1>5. PICK row : row = [product EXCEPT !.hasVariants = @ /\ ~last]
  OBVIOUS
<1>6. /\ row \in ProductRow /\ row.state = product.state /\ row.quantity = product.quantity /\ row.kind = product.kind
      /\ row.tracked = product.tracked /\ row.min = product.min /\ (row.hasVariants => product.hasVariants)
  BY <1>5 DEF StockTyped, ProductRow
<1>7. PICK variants : variants = [variant EXCEPT ![v].state = "GONE"]
  OBVIOUS
<1>8. /\ Persist(move, row, lot, variants) /\ IsLive /\ seen' = Reread(move)
      /\ order' = order /\ taken' = taken /\ given' = given /\ alerted' = alerted /\ recast' = recast
  <2>1. RemoveVariant(v)
    OBVIOUS
  <2> QED
    BY <1>2, <1>4, <1>5, <1>7, <2>1 DEF RemoveVariant, saleRows
<1>9. /\ variants \in [Variants -> VariantRow]
      /\ \A w \in Variants : /\ variants[w].quantity = variant[w].quantity
                             /\ variants[w].min = variant[w].min
                             /\ w # v => variants[w].state = variant[w].state
      /\ variants[v].state = "GONE"
  <2>1. PICK dead : dead = [variant[v] EXCEPT !.state = "GONE"]
    OBVIOUS
  <2>2. dead \in VariantRow /\ dead.quantity = variant[v].quantity /\ dead.min = variant[v].min /\ dead.state = "GONE"
    BY <1>1, <2>1 DEF VariantRow, LifeStates
  <2>3. variants = [variant EXCEPT ![v] = dead] /\ variant \in [Variants -> VariantRow]
    BY <1>7, <2>1 DEF StockTyped
  <2> QED
    BY <2>2, <2>3
<1>10. lot \in [Lots -> LotRow] /\ \A l \in Lots : lot[l].quantity = lot[l].quantity
  BY DEF StockTyped
<1>11. /\ product' \in ProductRow
       /\ product' = [row EXCEPT !.quantity = product.quantity + OfProduct(move)]
       /\ lot' \in [Lots -> LotRow]
       /\ \A l \in Lots : lot'[l] = [lot[l] EXCEPT !.quantity = lot[l].quantity + move[l]]
       /\ variant' \in [Variants -> VariantRow]
       /\ \A w \in Variants : variant'[w] = [variants[w] EXCEPT !.quantity = variant[w].quantity + move[w]]
       /\ journal' \in Moves
       /\ \A b \in Buckets : Units(b)' = Units(b) + move[b] /\ journal'[b] = Units(b)'
       /\ Loose' = Loose + move[Untracked] /\ Loose' >= 0
  BY <1>3, <1>6, <1>8, <1>9, <1>10, PersistMoves
<1>12. /\ product'.quantity = product.quantity /\ product'.state = product.state /\ product'.kind = product.kind
       /\ product'.tracked = product.tracked /\ product'.min = product.min
       /\ product'.hasVariants => product.hasVariants
       /\ IsLive'
  <2>1. product.quantity + OfProduct(move) = product.quantity
    BY <1>3, UnitsAre
  <2>2. product' = [row EXCEPT !.quantity = product.quantity]
    BY <1>11, <2>1
  <2> QED
    BY <1>6, <1>8, <2>2 DEF ProductRow, IsLive
<1>13. \A l \in Lots : lot'[l].state = lot[l].state /\ lot'[l].quantity = lot[l].quantity
  <2>1. SUFFICES ASSUME NEW l \in Lots PROVE lot'[l].state = lot[l].state /\ lot'[l].quantity = lot[l].quantity
    OBVIOUS
  <2>2. lot[l].quantity + move[l] = lot[l].quantity
    BY <1>3, UnitsAre
  <2>3. lot'[l] = [lot[l] EXCEPT !.quantity = lot[l].quantity] /\ lot[l] \in LotRow
    BY <1>10, <1>11, <2>2
  <2> QED
    BY <2>3 DEF LotRow
<1>14. /\ \A w \in Variants \ {v} : /\ variant'[w].state = variant[w].state /\ variant'[w].min = variant[w].min
                                    /\ variant'[w].quantity = variant[w].quantity
       /\ variant'[v].state = "GONE" /\ variant'[v].quantity = 0
  <2>1. ASSUME NEW w \in Variants \ {v}
        PROVE  /\ variant'[w].state = variant[w].state /\ variant'[w].min = variant[w].min
               /\ variant'[w].quantity = variant[w].quantity
    <3>1. variant[w].quantity + move[w] = variant[w].quantity
      BY <1>3, UnitsAre, BucketsApart
    <3>2. variant'[w] = [variants[w] EXCEPT !.quantity = variant[w].quantity] /\ variants[w] \in VariantRow
      BY <1>9, <1>11, <3>1
    <3> QED
      BY <1>9, <3>2 DEF VariantRow
  <2>2. variant'[v].state = "GONE" /\ variant'[v].quantity = 0
    <3>1. variant[v].quantity + move[v] = 0
      BY <1>3, UnitsAre
    <3>2. variant'[v] = [variants[v] EXCEPT !.quantity = 0] /\ variants[v] \in VariantRow
      BY <1>9, <1>11, <3>1
    <3> QED
      BY <1>9, <3>2 DEF VariantRow
  <2> QED
    BY <2>1, <2>2
<1>15. SeenStands' /\ seen' \in [Adjusters -> [bucket : Buckets \cup {-1}, units : Int]]
  <2>1. seen' = [a \in Adjusters |-> seen'[a]] /\ \A a \in Adjusters : seen'[a] \in {Reread(move)[a], Unread}
    BY <1>8 DEF Reread
  <2> QED
    BY <1>3, <1>11, <1>12, <2>1, RereadKept
<1>16. StockTyped'
  BY <1>8, <1>11, <1>15 DEF StockTyped
<1>17. NothingLeft'
  <2>1. \A w \in Variants : variant'[w].state # "LIVE" => variant'[w].quantity = 0
    BY <1>14 DEF NothingLeft
  <2>2. \A w \in Variants : variant'[w].state = "NONE" => ~alerted'[w]
    BY <1>8, <1>14 DEF NothingLeft
  <2> QED
    BY <1>12, <1>13, <2>1, <2>2 DEF NothingLeft, IsLive
<1>18. Balanced'
  <2>1. product.hasVariants => Loose = 0
    BY EmptyLots, UnitsAre DEF Balanced
  <2>2. Loose' = Loose
    BY <1>3, <1>11, UnitsAre
  <2>3. ~product.tracked => Loose' = 0
    BY <2>1, <2>2 DEF Balanced
  <2>4. product.hasVariants => product'.quantity = 0 /\ \A l \in Lots : lot'[l].quantity = 0
    BY <1>12, <1>13 DEF Balanced
  <2> QED
    BY <1>11, <1>12, <2>3, <2>4 DEF Balanced
<1>19. Untold' /\ AllArmed'
  BY <1>8, <1>12, <1>14 DEF Untold, AllArmed
<1>20. GivenOnce'
  BY <1>8 DEF GivenOnce, RestoredOnce, Total
<1> QED
  BY <1>15, <1>16, <1>17, <1>18, <1>19, <1>20

(* The first variant empties the product.                                  *)
LEMMA AddVariantKept ==
  ASSUME StockInv, StockConstants, NEW v \in Variants, NEW min \in Thresholds, NEW units \in OnHand,
         AddVariant(v, min, units)
  PROVE  StockInv'
<1> USE DEF StockInv
<1>1. v \in Buckets /\ units \in Nat /\ min \in Nat /\ v # Untracked /\ v \notin Lots /\ Untracked \notin Lots
      /\ v \in AlertKeys
  BY StockConstants, BucketsApart DEF AlertKeys
<1>2. PICK first \in BOOLEAN : first = ~product.hasVariants
  OBVIOUS
<1>3. PICK base : base = IF first THEN Removal ELSE NoMove
  OBVIOUS
<1>4. PICK move : move = [base EXCEPT ![v] = units]
  OBVIOUS
<1>5. PICK told : told = [move EXCEPT ![v] = 0]
  OBVIOUS
<1>6. PICK zeroed : zeroed = [product EXCEPT !.hasVariants = TRUE, !.useLots = FALSE, !.min = 0,
                                             !.quantity = -OfProduct(move)]
  OBVIOUS
<1>7. PICK row : row = IF first THEN zeroed ELSE product
  OBVIOUS
<1>8. PICK new : new = [state |-> "LIVE", quantity |-> 0, min |-> IF product.tracked THEN min ELSE 0]
  OBVIOUS
<1>9. PICK variants : variants = [variant EXCEPT ![v] = new]
  OBVIOUS
<1>10. /\ Persist(move, row, lot, variants) /\ product.state = "LIVE" /\ variant[v].state = "NONE"
       /\ alerted' = AlertsAfter(told) /\ seen' = Reread(move)
       /\ order' = order /\ taken' = taken /\ given' = given /\ recast' = recast
  <2>1. AddVariant(v, min, units)
    OBVIOUS
  <2> QED
    BY <1>2, <1>3, <1>4, <1>5, <1>6, <1>7, <1>8, <1>9, <2>1 DEF AddVariant, saleRows, IsLive
<1>11. /\ base \in Moves
       /\ first => OfProduct(base) = -product.quantity
       /\ \A l \in Lots : base[l] = -lot[l].quantity
       /\ \A w \in Variants : base[w] = IF first THEN -variant[w].quantity ELSE 0
       /\ ~first => /\ OfProduct(base) = 0 /\ product.quantity = 0 /\ product.hasVariants
                    /\ \A l \in Lots : lot[l].quantity = 0
  <2>1. CASE first
    BY <1>3, <2>1, RemovalIsAll
  <2>2. CASE ~first
    <3>1. base = NoMove /\ base \in Moves /\ \A b \in Buckets : base[b] = 0
      BY <1>3, <2>2 DEF NoMove, Moves
    <3>2. SumFunctionOnSet(base, Lots) = 0
      BY <3>1, BucketsApart, SumZero
    <3>3. OfProduct(base) = 0
      BY <3>1, <3>2, BucketsApart DEF OfProduct, Total
    <3>4. product.hasVariants /\ product.quantity = 0 /\ \A l \in Lots : lot[l].quantity = 0
      BY <1>2, <2>2 DEF Balanced
    <3>5. \A l \in Lots : base[l] = -lot[l].quantity
      BY <3>1, <3>4, BucketsApart
    <3>6. \A w \in Variants : base[w] = 0
      BY <3>1, BucketsApart
    <3> QED
      BY <2>2, <3>1, <3>3, <3>4, <3>5, <3>6
  <2> QED
    BY <2>1, <2>2
<1>12. /\ move \in Moves /\ move[v] = units /\ \A b \in Buckets \ {v} : move[b] = base[b]
       /\ told \in Moves /\ told[v] = 0 /\ \A b \in Buckets \ {v} : told[b] = base[b]
  <2>1. base \in Moves
    BY <1>11
  <2>2. move \in Moves /\ move[v] = units /\ \A b \in Buckets \ {v} : move[b] = base[b]
    BY ONLY <1>1, <1>4, <2>1 DEF Moves
  <2>3. told \in Moves /\ told[v] = 0 /\ \A b \in Buckets \ {v} : told[b] = move[b]
    BY ONLY <1>1, <1>5, <2>2 DEF Moves
  <2> QED
    BY <2>2, <2>3
<1>13. OfProduct(move) = OfProduct(base) /\ OfProduct(told) = OfProduct(base)
  <2>1. \A l \in Lots : move[l] = base[l] /\ told[l] = base[l]
    BY <1>1, <1>12, BucketsApart
  <2>2. Total(move, Lots) = Total(base, Lots) /\ Total(told, Lots) = Total(base, Lots)
    BY ZenonT(120), <2>1, BucketsApart, SumSame DEF Total
  <2>3. move[Untracked] = base[Untracked] /\ told[Untracked] = base[Untracked]
    BY <1>1, <1>12, BucketsApart
  <2> QED
    BY <2>2, <2>3 DEF OfProduct
<1>14. /\ row \in ProductRow /\ row.quantity = product.quantity /\ row.state = "LIVE" /\ row.kind = product.kind
       /\ row.tracked = product.tracked /\ row.hasVariants
       /\ ~row.tracked => row.min = 0
  <2>1. product \in ProductRow /\ product.quantity \in Nat
    BY UnitsAre DEF StockTyped
  <2>2. CASE first
    <3>1. -OfProduct(move) = product.quantity
      BY <1>11, <1>13, <2>1, <2>2
    <3>2. row = [product EXCEPT !.hasVariants = TRUE, !.useLots = FALSE, !.min = 0, !.quantity = product.quantity]
      BY <1>6, <1>7, <2>2, <3>1
    <3>3. row \in ProductRow
      BY <2>1, <3>2 DEF ProductRow
    <3> QED
      BY <1>10, <2>1, <3>2, <3>3 DEF ProductRow
  <2>3. CASE ~first
    BY <1>7, <1>10, <1>11, <2>1, <2>3 DEF Untold
  <2> QED
    BY <2>2, <2>3
<1>15. /\ variants \in [Variants -> VariantRow]
       /\ \A w \in Variants : variants[w].quantity = variant[w].quantity
       /\ \A w \in Variants \ {v} : variants[w] = variant[w]
       /\ variants[v].state = "LIVE" /\ (~product.tracked => variants[v].min = 0)
  <2>1. new \in VariantRow /\ new.quantity = 0 /\ new.state = "LIVE" /\ (~product.tracked => new.min = 0)
    BY <1>1, <1>8 DEF VariantRow, LifeStates
  <2>2. variant[v].quantity = 0
    BY <1>10 DEF NothingLeft
  <2> QED
    BY <1>9, <2>1, <2>2 DEF StockTyped
<1>16. lot \in [Lots -> LotRow] /\ \A l \in Lots : lot[l].quantity = lot[l].quantity
  BY DEF StockTyped
<1>17. /\ product' \in ProductRow
       /\ product' = [row EXCEPT !.quantity = product.quantity + OfProduct(move)]
       /\ lot' \in [Lots -> LotRow]
       /\ \A l \in Lots : lot'[l] = [lot[l] EXCEPT !.quantity = lot[l].quantity + move[l]]
       /\ variant' \in [Variants -> VariantRow]
       /\ \A w \in Variants : variant'[w] = [variants[w] EXCEPT !.quantity = variant[w].quantity + move[w]]
       /\ journal' \in Moves
       /\ \A b \in Buckets : Units(b)' = Units(b) + move[b] /\ journal'[b] = Units(b)'
       /\ Loose' = Loose + move[Untracked] /\ Loose' >= 0
  BY <1>10, <1>12, <1>14, <1>15, <1>16, PersistMoves
<1>18. /\ product'.quantity = 0 /\ product'.state = "LIVE" /\ product'.kind = product.kind
       /\ product'.tracked = product.tracked /\ product'.hasVariants /\ product'.min = row.min /\ row.min \in Nat
       /\ IsLive'
  <2>1. product.quantity + OfProduct(move) = 0
    BY <1>11, <1>13, UnitsAre
  <2>2. product' = [row EXCEPT !.quantity = 0]
    BY <1>17, <2>1
  <2> QED
    BY <1>14, <2>2 DEF ProductRow, IsLive
<1>19. \A l \in Lots : lot'[l].state = lot[l].state /\ lot'[l].quantity = 0
  <2>1. SUFFICES ASSUME NEW l \in Lots PROVE lot'[l].state = lot[l].state /\ lot'[l].quantity = 0
    OBVIOUS
  <2>2. lot[l].quantity + move[l] = 0
    BY <1>1, <1>11, <1>12, BucketsApart, UnitsAre
  <2>3. lot'[l] = [lot[l] EXCEPT !.quantity = 0] /\ lot[l] \in LotRow
    BY <1>16, <1>17, <2>2
  <2> QED
    BY <2>3 DEF LotRow
<1>20. /\ \A w \in Variants \ {v} : /\ variant'[w].state = variant[w].state /\ variant'[w].min = variant[w].min
                                    /\ variant'[w].quantity = IF first THEN 0 ELSE variant[w].quantity
       /\ variant'[v].state = "LIVE" /\ variant'[v].min = variants[v].min
  <2>1. ASSUME NEW w \in Variants \ {v}
        PROVE  /\ variant'[w].state = variant[w].state /\ variant'[w].min = variant[w].min
               /\ variant'[w].quantity = IF first THEN 0 ELSE variant[w].quantity
    <3>1. PICK n : n = IF first THEN 0 ELSE variant[w].quantity
      OBVIOUS
    <3>2. variant[w].quantity + move[w] = n
      BY <1>11, <1>12, <3>1, UnitsAre, BucketsApart
    <3>3. variant'[w] = [variant[w] EXCEPT !.quantity = n] /\ variant[w] \in VariantRow
      BY <1>15, <1>17, <3>2
    <3> QED
      BY <3>1, <3>3 DEF VariantRow
  <2>2. variant'[v].state = "LIVE" /\ variant'[v].min = variants[v].min
    <3>1. PICK n : n = variant[v].quantity + move[v]
      OBVIOUS
    <3>2. variant'[v] = [variants[v] EXCEPT !.quantity = n] /\ variants[v] \in VariantRow
      BY <1>15, <1>17, <3>1
    <3> QED
      BY <1>15, <3>2 DEF VariantRow
  <2> QED
    BY <2>1, <2>2
<1>21. /\ alerted' \in [AlertKeys -> BOOLEAN] /\ ~alerted'[v]
       /\ ~first => \A w \in Variants \ {v} : ~alerted[w] => ~alerted'[w]
       /\ \A w \in Variants : variant[w].state = "NONE" => ~alerted'[w]
  <2>1. /\ alerted' \in [AlertKeys -> BOOLEAN]
        /\ \A w \in Variants : told[w] = 0 /\ ~alerted[w] => ~alerted'[w]
    BY <1>10, <1>12, AlertsArmed
  <2>2. \A w \in Variants : variant[w].state = "NONE" => told[w] = 0 /\ ~alerted[w]
    <3>1. SUFFICES ASSUME NEW w \in Variants, variant[w].state = "NONE" PROVE told[w] = 0 /\ ~alerted[w]
      OBVIOUS
    <3>2. variant[w].quantity = 0 /\ ~alerted[w]
      BY <3>1 DEF NothingLeft
    <3> QED
      BY <1>11, <1>12, <3>2, BucketsApart
  <2>3. ~first => \A w \in Variants \ {v} : told[w] = 0
    BY <1>11, <1>12, BucketsApart
  <2> QED
    BY <1>10, <2>1, <2>2, <2>3
<1>22. SeenStands' /\ seen' \in [Adjusters -> [bucket : Buckets \cup {-1}, units : Int]]
  <2>1. seen' = [a \in Adjusters |-> seen'[a]] /\ \A a \in Adjusters : seen'[a] \in {Reread(move)[a], Unread}
    BY <1>10 DEF Reread
  <2> QED
    BY <1>12, <1>17, <1>18, <2>1, RereadKept
<1>23. StockTyped'
  BY <1>10, <1>17, <1>21, <1>22 DEF StockTyped
<1>24. NothingLeft'
  <2>1. \A w \in Variants : variant'[w].state # "LIVE" => variant'[w].quantity = 0
    BY <1>20 DEF NothingLeft
  <2>2. \A w \in Variants : variant'[w].state = "NONE" => ~alerted'[w]
    BY <1>20, <1>21
  <2> QED
    BY <1>18, <1>19, <2>1, <2>2 DEF NothingLeft, IsLive
<1>25. Balanced'
  BY <1>17, <1>18, <1>19 DEF Balanced
<1>26. Untold'
  <2>1. ~product'.tracked => product'.min = 0
    BY <1>14, <1>18
  <2>2. ~product.tracked /\ ~recast => \A w \in Variants \ {v} : variant'[w].state = "LIVE" => variant'[w].min = 0
    BY <1>20 DEF Untold
  <2>3. ~product.tracked => variant'[v].min = 0
    BY <1>15, <1>20
  <2>4. product'.kind = "SERVICE" => recast'
    BY <1>10, <1>18 DEF Untold
  <2>5. ~product'.tracked /\ ~recast' => \A w \in Variants : variant'[w].state = "LIVE" => variant'[w].min = 0
    BY <1>10, <1>18, <2>2, <2>3
  <2> QED
    BY <2>1, <2>4, <2>5 DEF Untold
<1>27. AllArmed'
  <2>1. ~(product'.quantity > product'.min)
    BY <1>18
  <2>2. ~recast => \A w \in Variants \ {v} :
          variant[w].state = "LIVE" /\ variant[w].quantity > variant[w].min => ~alerted[w]
    BY DEF AllArmed
  <2>5. \A w \in Variants \ {v} : variant[w].min \in Nat
    BY DEF StockTyped, VariantRow
  <2>3. ~recast => \A w \in Variants \ {v} :
          variant'[w].state = "LIVE" /\ variant'[w].quantity > variant'[w].min => ~alerted'[w]
    <3>. SUFFICES ASSUME ~recast, NEW w \in Variants \ {v},
                         variant'[w].state = "LIVE", variant'[w].quantity > variant'[w].min
                  PROVE  ~alerted'[w]
      OBVIOUS
    <3>1. variant'[w].state = variant[w].state /\ variant'[w].min = variant[w].min
      BY <1>20
    <3>2. CASE first
      <4>1. variant'[w].quantity = 0
        BY <1>20, <3>2
      <4>2. variant[w].min \in Nat
        BY <2>5
      <4>. QED BY <3>1, <4>1, <4>2, SMT
    <3>3. CASE ~first
      <4>1. variant'[w].quantity = variant[w].quantity
        BY <1>20, <3>3
      <4>2. ~alerted[w]
        BY <2>2, <3>1, <4>1
      <4>. QED BY <1>21, <3>3, <4>2
    <3>. QED BY <3>2, <3>3
  <2>4. ~recast => \A w \in Variants :
          variant'[w].state = "LIVE" /\ variant'[w].quantity > variant'[w].min => ~alerted'[w]
    BY <1>21, <2>3
  <2> QED
    BY <1>10, <2>1, <2>4 DEF AllArmed
<1>28. GivenOnce'
  BY <1>10 DEF GivenOnce, RestoredOnce, Total
<1> QED
  BY <1>22, <1>23, <1>24, <1>25, <1>26, <1>27, <1>28

(* A movement of what is there, by somebody who makes its readers read     *)
(* again, once the rows of the sales are known to be right.                *)
LEMMA MoveStands ==
  ASSUME StockInv, NEW move \in Moves, NEW lots \in [Lots -> LotRow],
         \A l \in Lots : /\ lots[l].quantity = lot[l].quantity
                         /\ lots[l].state # "LIVE" => lot[l].state # "LIVE" /\ move[l] = 0,
         ~IsLive => \A l \in Lots : lots[l].state # "LIVE",
         \A v \in Variants : variant[v].state # "LIVE" => move[v] = 0,
         product.hasVariants \/ ~product.tracked \/ ~IsLive => move[Untracked] = 0,
         product.hasVariants => \A l \in Lots : move[l] = 0,
         Persist(move, product, lots, variant), alerted' = AlertsAfter(move), recast' = recast,
         seen' = [a \in Adjusters |-> seen'[a]], \A a \in Adjusters : seen'[a] \in {Reread(move)[a], Unread},
         order' \in [StockSales -> {"DRAFT", "CONFIRMED", "CANCELED"}],
         taken' \in [StockSales -> [Buckets -> Nat]], given' \in [StockSales -> Moves], GivenOnce'
  PROVE  StockInv'
<1>1. /\ product' \in ProductRow /\ lot' \in [Lots -> LotRow] /\ variant' \in [Variants -> VariantRow]
      /\ journal' \in Moves /\ alerted' \in [AlertKeys -> BOOLEAN]
      /\ \A b \in Buckets : Units(b)' = Units(b) + move[b]
      /\ product'.state = product.state
      /\ NothingLeft' /\ Balanced' /\ Untold' /\ AllArmed'
  BY MoveKept
<1>2. SeenStands' /\ seen' \in [Adjusters -> [bucket : Buckets \cup {-1}, units : Int]]
  BY <1>1, RereadKept
<1>3. StockTyped'
  BY <1>1, <1>2 DEF StockTyped
<1> QED
  BY <1>1, <1>2, <1>3 DEF StockInv

(* A new lot brings its units.                                             *)
LEMMA AddLotKept ==
  ASSUME StockInv, NEW l \in Lots, NEW day \in Days, NEW units \in OnHand, AddLot(l, day, units)
  PROVE  StockInv'
<1> USE DEF StockInv
<1>1. l \in Buckets /\ units \in Int /\ l # Untracked /\ l \notin Variants
  BY BucketsApart
<1>2. PICK move : move = [NoMove EXCEPT ![l] = units]
  OBVIOUS
<1>3. PICK new : new = [state |-> "LIVE", quantity |-> 0, expires |-> day]
  OBVIOUS
<1>4. PICK lots : lots = [lot EXCEPT ![l] = new]
  OBVIOUS
<1>5. /\ Persist(move, product, lots, variant) /\ IsLive /\ ~product.hasVariants /\ lot[l].state = "NONE"
      /\ alerted' = AlertsAfter(move) /\ seen' = Reread(move)
      /\ order' = order /\ taken' = taken /\ given' = given /\ recast' = recast /\ product.useLots
  <2>1. AddLot(l, day, units)
    OBVIOUS
  <2> QED
    BY <1>2, <1>3, <1>4, <2>1 DEF AddLot, saleRows
<1>6. move \in Moves /\ \A b \in Buckets : b # l => move[b] = 0
  <2>1. \A any : any = [NoMove EXCEPT ![l] = units] =>
           /\ any \in Moves /\ any[l] = units /\ \A c \in Buckets : c # l => any[c] = 0
           /\ l \in Variants => OfProduct(any) = 0
    BY ZenonT(60), <1>1, OneMove
  <2> QED
    BY <1>2, <2>1
<1>7. /\ lots \in [Lots -> LotRow]
      /\ \A k \in Lots : /\ lots[k].quantity = lot[k].quantity
                         /\ lots[k].state # "LIVE" => lot[k].state # "LIVE" /\ move[k] = 0
  <2>1. new \in LotRow /\ new.quantity = 0 /\ new.state = "LIVE"
    BY <1>3 DEF LotRow, LifeStates
  <2>2. lot[l].quantity = 0
    BY <1>5 DEF NothingLeft
  <2>3. \A k \in Lots : k # l => move[k] = 0
    BY <1>6, BucketsApart
  <2> QED
    BY <1>4, <2>1, <2>2, <2>3 DEF StockTyped
<1>8. /\ move[Untracked] = 0 /\ \A v \in Variants : move[v] = 0
  BY <1>1, <1>6, BucketsApart
<1>9. product.hasVariants \/ ~product.tracked \/ ~IsLive => move[Untracked] = 0
  BY <1>8
<1>10. seen' = [a \in Adjusters |-> seen'[a]] /\ \A a \in Adjusters : seen'[a] \in {Reread(move)[a], Unread}
  BY <1>5 DEF Reread
<1>11. /\ order' \in [StockSales -> {"DRAFT", "CONFIRMED", "CANCELED"}]
       /\ taken' \in [StockSales -> [Buckets -> Nat]] /\ given' \in [StockSales -> Moves] /\ GivenOnce'
  BY <1>5 DEF StockTyped, GivenOnce, RestoredOnce, Total
<1> QED
  BY <1>5, <1>6, <1>7, <1>8, <1>9, <1>10, <1>11, MoveStands

(* An adjustment moves the bucket that was read.                           *)
LEMMA AdjustKept ==
  ASSUME StockInv, NEW a \in Adjusters, NEW delta \in Int, Adjust(a, delta) PROVE StockInv'
<1> USE DEF StockInv
<1>1. PICK b \in Buckets : b = seen[a].bucket
  BY DEF Adjust
<1>2. PICK move : move = [NoMove EXCEPT ![b] = delta]
  OBVIOUS
<1>3. /\ Persist(move, product, lot, variant) /\ IsLive /\ product.tracked /\ Accepts(b)
      /\ alerted' = AlertsAfter(move) /\ seen' = [Reread(move) EXCEPT ![a] = Unread]
      /\ order' = order /\ taken' = taken /\ given' = given /\ recast' = recast
  <2>1. Adjust(a, delta)
    OBVIOUS
  <2> QED
    BY <1>1, <1>2, <2>1 DEF Adjust, saleRows
<1>4. move \in Moves /\ \A c \in Buckets : c # b => move[c] = 0
  <2>1. \A any : any = [NoMove EXCEPT ![b] = delta] =>
           /\ any \in Moves /\ any[b] = delta /\ \A c \in Buckets : c # b => any[c] = 0
           /\ b \in Variants => OfProduct(any) = 0
    BY OneMove
  <2> QED
    BY <1>2, <2>1
<1>5. \A l \in Lots : lot[l].state # "LIVE" \/ product.hasVariants => move[l] = 0
  <2>1. SUFFICES ASSUME NEW l \in Lots, lot[l].state # "LIVE" \/ product.hasVariants, move[l] # 0 PROVE FALSE
    OBVIOUS
  <2>2. b = l
    BY <1>4, <2>1, BucketsApart
  <2> QED
    BY <1>3, <2>1, <2>2, BucketsApart DEF Accepts, Has
<1>6. \A v \in Variants : variant[v].state # "LIVE" => move[v] = 0
  <2>1. SUFFICES ASSUME NEW v \in Variants, variant[v].state # "LIVE", move[v] # 0 PROVE FALSE
    OBVIOUS
  <2>2. b = v
    BY <1>4, <2>1, BucketsApart
  <2> QED
    BY <1>3, <2>1, <2>2, BucketsApart DEF Accepts, Has
<1>7. product.hasVariants \/ ~product.tracked \/ ~IsLive => move[Untracked] = 0
  <2>1. SUFFICES ASSUME product.hasVariants, move[Untracked] # 0 PROVE FALSE
    BY <1>3
  <2>2. b = Untracked
    BY <1>4, <2>1, BucketsApart
  <2> QED
    BY <1>3, <2>1, <2>2, BucketsApart DEF Accepts, Has
<1>8. /\ lot \in [Lots -> LotRow]
      /\ \A l \in Lots : /\ lot[l].quantity = lot[l].quantity
                         /\ lot[l].state # "LIVE" => lot[l].state # "LIVE" /\ move[l] = 0
      /\ product.hasVariants => \A l \in Lots : move[l] = 0
  BY <1>5 DEF StockTyped
<1>9. seen' = [d \in Adjusters |-> seen'[d]] /\ \A d \in Adjusters : seen'[d] \in {Reread(move)[d], Unread}
  BY <1>3 DEF Reread
<1>10. /\ order' \in [StockSales -> {"DRAFT", "CONFIRMED", "CANCELED"}]
       /\ taken' \in [StockSales -> [Buckets -> Nat]] /\ given' \in [StockSales -> Moves] /\ GivenOnce'
  BY <1>3 DEF StockTyped, GivenOnce, RestoredOnce, Total
<1> QED
  BY <1>3, <1>4, <1>6, <1>7, <1>8, <1>9, <1>10, MoveStands

-----------------------------------------------------------------------------
(* Creation *)

(* A product comes with its lots and variants, and nobody knows it yet.    *)
LEMMA CreateProductKept ==
  ASSUME StockInv, StockConstants, NEW tracked \in BOOLEAN, NEW useLots \in BOOLEAN, NEW hasVariants \in BOOLEAN,
         NEW units \in OnHand, NEW min \in Thresholds, NEW newLots \in SUBSET Lots, NEW day \in Days,
         NEW newVariants \in SUBSET Variants,
         CreateProduct(tracked, useLots, hasVariants, units, min, newLots, day, newVariants)
  PROVE  StockInv'
<1> USE DEF StockInv
<1>1. units \in Nat /\ min \in Nat
  BY StockConstants, BucketsApart
<1>2. PICK row : row = [product EXCEPT !.state = "LIVE", !.tracked = tracked,
                                       !.useLots = useLots, !.hasVariants = hasVariants, !.min = min]
  OBVIOUS
<1>3. PICK norm : norm = Normalized(row)
  OBVIOUS
<1>4. PICK loose \in Nat : loose = IF tracked /\ ~hasVariants /\ ~useLots THEN units ELSE 0
  BY <1>1
<1>5. PICK move : move = [b \in Buckets |-> CASE b = Untracked -> loose
                                              [] b # Untracked -> IF b \in newLots \cup newVariants
                                                                  THEN units ELSE 0]
  OBVIOUS
<1>6. PICK newLot : newLot = [state |-> "LIVE", quantity |-> 0, expires |-> day]
  OBVIOUS
<1>7. PICK newVariant : newVariant = [state |-> "LIVE", quantity |-> 0, min |-> IF tracked THEN min ELSE 0]
  OBVIOUS
<1>8. PICK lots : lots = [l \in Lots |-> IF l \in newLots THEN newLot ELSE lot[l]]
  OBVIOUS
<1>9. PICK variants : variants = [v \in Variants |-> IF v \in newVariants THEN newVariant ELSE variant[v]]
  OBVIOUS
<1>10. /\ Persist(move, norm, lots, variants)
       /\ product.state = "NONE" /\ (newLots # {} => useLots /\ ~hasVariants)
       /\ order' = order /\ taken' = taken /\ given' = given /\ alerted' = alerted /\ seen' = seen
       /\ recast' = recast
  <2>1. CreateProduct(tracked, useLots, hasVariants, units, min, newLots, day, newVariants)
    OBVIOUS
  <2> QED
    BY <1>2, <1>3, <1>4, <1>5, <1>6, <1>7, <1>8, <1>9, <2>1 DEF CreateProduct, saleRows
<1>11. /\ product.quantity = 0 /\ \A l \in Lots : lot[l].quantity = 0 /\ lot[l].state # "LIVE"
       /\ \A v \in Variants : variant[v].quantity = 0 /\ variant[v].state # "LIVE"
       /\ \A k \in AlertKeys : ~alerted[k]
       /\ \A a \in Adjusters : seen[a] = Unread
  BY <1>10 DEF NothingLeft, IsLive, SeenStands
<1>12. /\ \A b \in Buckets : move[b] \in Nat
       /\ move \in Moves
       /\ move[Untracked] = loose
       /\ \A l \in Lots : move[l] = IF l \in newLots THEN units ELSE 0
       /\ \A v \in Variants : move[v] = IF v \in newVariants THEN units ELSE 0
  <2> DEFINE at(b) == CASE b = Untracked -> loose
                        [] b # Untracked -> IF b \in newLots \cup newVariants THEN units ELSE 0
  <2>1. move = [b \in Buckets |-> at(b)]
    BY <1>5, Zenon
  <2>2. \A b \in Buckets : at(b) \in Nat
    BY <1>1, <1>4
  <2>3. /\ at(Untracked) = loose
        /\ \A l \in Lots : at(l) = IF l \in newLots THEN units ELSE 0
        /\ \A v \in Variants : at(v) = IF v \in newVariants THEN units ELSE 0
    BY BucketsApart
  <2> HIDE DEF at
  <2> QED
    BY <2>1, <2>2, <2>3, BucketsApart DEF Moves
<1>13. /\ norm \in ProductRow /\ norm.quantity = product.quantity /\ norm.state = "LIVE" /\ norm.kind = product.kind
       /\ norm.tracked = tracked /\ norm.hasVariants = hasVariants /\ (~tracked => norm.min = 0)
  <2>1. product \in ProductRow
    BY DEF StockTyped
  <2>2. row \in ProductRow
    BY <1>1, <1>2, <2>1 DEF ProductRow, LifeStates
  <2>3. /\ row.quantity = product.quantity /\ row.state = "LIVE" /\ row.kind = product.kind
        /\ row.tracked = tracked /\ row.hasVariants = hasVariants
    BY <1>2, <2>1 DEF ProductRow
  <2> QED
    BY <1>3, <2>2, <2>3, NormalizedIs
<1>14. /\ lots \in [Lots -> LotRow]
       /\ \A l \in Lots : lots[l].quantity = lot[l].quantity /\ (lots[l].state = "LIVE" <=> l \in newLots)
  <2>1. newLot \in LotRow /\ newLot.quantity = 0 /\ newLot.state = "LIVE"
    BY <1>6 DEF LotRow, LifeStates
  <2> QED
    BY <1>8, <1>11, <2>1 DEF StockTyped
<1>15. /\ variants \in [Variants -> VariantRow]
       /\ \A v \in Variants : /\ variants[v].quantity = variant[v].quantity
                              /\ variants[v].state = "LIVE" <=> v \in newVariants
                              /\ v \in newVariants /\ ~tracked => variants[v].min = 0
  <2>1. newVariant \in VariantRow /\ newVariant.quantity = 0 /\ newVariant.state = "LIVE" /\ (~tracked => newVariant.min = 0)
    BY <1>1, <1>7 DEF VariantRow, LifeStates
  <2> QED
    BY <1>9, <1>11, <2>1 DEF StockTyped
<1>16. /\ product' \in ProductRow
       /\ product' = [norm EXCEPT !.quantity = product.quantity + OfProduct(move)]
       /\ lot' \in [Lots -> LotRow]
       /\ \A l \in Lots : lot'[l] = [lots[l] EXCEPT !.quantity = lot[l].quantity + move[l]]
       /\ variant' \in [Variants -> VariantRow]
       /\ \A v \in Variants : variant'[v] = [variants[v] EXCEPT !.quantity = variant[v].quantity + move[v]]
       /\ journal' \in Moves
       /\ \A b \in Buckets : Units(b)' = Units(b) + move[b] /\ journal'[b] = Units(b)'
       /\ Loose' = Loose + move[Untracked] /\ Loose' >= 0
  BY <1>10, <1>12, <1>13, <1>14, <1>15, PersistMoves
<1>17. /\ product'.state = "LIVE" /\ product'.kind = product.kind /\ product'.tracked = tracked
       /\ product'.hasVariants = hasVariants /\ product'.min = norm.min
       /\ product'.quantity = OfProduct(move) /\ IsLive'
  <2>1. PICK q : q = product.quantity + OfProduct(move)
    OBVIOUS
  <2>2. product' = [norm EXCEPT !.quantity = q] /\ q = OfProduct(move)
    BY <1>11, <1>12, <1>16, <2>1, TotalType
  <2> QED
    BY <1>13, <2>2 DEF ProductRow, IsLive
<1>18. \A l \in Lots : lot'[l].state = lots[l].state /\ lot'[l].quantity = move[l]
  <2>1. SUFFICES ASSUME NEW l \in Lots PROVE lot'[l].state = lots[l].state /\ lot'[l].quantity = move[l]
    OBVIOUS
  <2>2. move[l] \in Nat /\ lot[l].quantity = 0
    BY <1>11, <1>12, BucketsApart
  <2>3. lot'[l] = [lots[l] EXCEPT !.quantity = move[l]] /\ lots[l] \in LotRow
    BY <1>14, <1>16, <2>2
  <2> QED
    BY <2>3 DEF LotRow
<1>19. \A v \in Variants : /\ variant'[v].state = variants[v].state /\ variant'[v].min = variants[v].min
                           /\ variant'[v].quantity = move[v]
  <2>1. SUFFICES ASSUME NEW v \in Variants
                 PROVE  /\ variant'[v].state = variants[v].state /\ variant'[v].min = variants[v].min
                        /\ variant'[v].quantity = move[v]
    OBVIOUS
  <2>2. move[v] \in Nat /\ variant[v].quantity = 0
    BY <1>11, <1>12, BucketsApart
  <2>3. variant'[v] = [variants[v] EXCEPT !.quantity = move[v]] /\ variants[v] \in VariantRow
    BY <1>15, <1>16, <2>2
  <2> QED
    BY <2>3 DEF VariantRow
<1>20. StockTyped'
  BY <1>10, <1>16 DEF StockTyped
<1>21. NothingLeft'
  <2>1. \A l \in Lots : lot'[l].state # "LIVE" => lot'[l].quantity = 0
    BY <1>12, <1>14, <1>18
  <2>2. \A v \in Variants : variant'[v].state # "LIVE" => variant'[v].quantity = 0
    BY <1>12, <1>15, <1>19
  <2>3. \A v \in Variants : v \in AlertKeys
    BY DEF AlertKeys
  <2> QED
    BY <1>10, <1>11, <1>17, <2>1, <2>2, <2>3 DEF NothingLeft, IsLive
<1>22. Balanced'
  <2>1. hasVariants => move[Untracked] = 0 /\ \A l \in Lots : move[l] = 0
    BY <1>4, <1>10, <1>12
  <2>2. hasVariants => product'.quantity = 0 /\ \A l \in Lots : lot'[l].quantity = 0
    <3>1. SUFFICES ASSUME hasVariants PROVE OfProduct(move) = 0
      BY <1>17, <1>18, <2>1
    <3>2. SumFunctionOnSet(move, Lots) = 0
      BY <2>1, <3>1, BucketsApart, SumZero
    <3> QED
      BY <2>1, <3>1, <3>2 DEF OfProduct, Total
  <2>3. ~tracked => Loose' = 0
    <3>1. Loose = 0
      BY <1>11, EmptyLots, UnitsAre
    <3>2. ~tracked => move[Untracked] = 0
      BY <1>4, <1>12
    <3> QED
      BY <1>16, <3>1, <3>2
  <2> QED
    BY <1>16, <1>17, <2>2, <2>3 DEF Balanced
<1>23. Untold'
  <2>1. ~tracked => \A v \in Variants : variant'[v].state = "LIVE" => variant'[v].min = 0
    BY <1>15, <1>19
  <2>2. product'.kind = "SERVICE" => recast'
    BY <1>10, <1>17 DEF Untold
  <2> QED
    BY <1>13, <1>17, <2>1, <2>2 DEF Untold
<1>24. AllArmed'
  <2>1. \A v \in Variants : ~alerted'[v]
    BY <1>10, <1>11 DEF AlertKeys
  <2>2. ~alerted'[Untracked]
    BY <1>10, <1>11 DEF AlertKeys
  <2> QED
    BY <2>1, <2>2 DEF AllArmed
<1>25. SeenStands'
  <2>1. \A a \in Adjusters, b \in Buckets : seen'[a].bucket # b
    BY <1>10, <1>11, BucketsApart DEF Unread
  <2> QED
    BY <1>10, <1>11, <2>1 DEF SeenStands
<1>26. GivenOnce'
  BY <1>10 DEF GivenOnce, RestoredOnce, Total
<1> QED
  BY <1>20, <1>21, <1>22, <1>23, <1>24, <1>25, <1>26

-----------------------------------------------------------------------------
(* Sales *)

(* The larger and the smaller of two numbers.                              *)
LEMMA OfTwo ==
  ASSUME NEW m \in Int, NEW n \in Int
  PROVE  /\ Max({m, n}) \in {m, n} /\ Max({m, n}) >= m /\ Max({m, n}) >= n
         /\ Min({m, n}) \in {m, n}
<1>1. \E x \in {m, n} : \A y \in {m, n} : x >= y
  <2>1. CASE m >= n
    BY <2>1
  <2>2. CASE n >= m
    BY <2>2
  <2> QED
    BY <2>1, <2>2
<1>2. \E x \in {m, n} : \A y \in {m, n} : x <= y
  <2>1. CASE m >= n
    BY <2>1
  <2>2. CASE n >= m
    BY <2>2
  <2> QED
    BY <2>1, <2>2
<1>3. Max({m, n}) \in {m, n} /\ \A y \in {m, n} : Max({m, n}) >= y
  BY <1>1 DEF Max
<1>4. Min({m, n}) \in {m, n}
  BY <1>2 DEF Min
<1> QED
  BY <1>3, <1>4

(* The lots and the untracked units together.                              *)
LEMMA LooseAndLots ==
  ASSUME NEW f, Integral(f, {Untracked} \cup Lots)
  PROVE  Total(f, {Untracked} \cup Lots) = f[Untracked] + Total(f, Lots)
<1>1. {Untracked} \cup Lots = Lots \cup {Untracked}
  OBVIOUS
<1>2. Integral(f, Lots \cup {Untracked})
  BY <1>1 DEF Integral
<1> QED
  BY <1>1, <1>2, BucketsApart, SumAdd DEF Total

(* What some lots cannot give.                                             *)
LEMMA LeftIs ==
  ASSUME StockInv, NEW set \in SUBSET Lots, NEW units \in Int
  PROVE  InLots(set) \in Nat /\ Left(units, set) \in Nat
<1>1. InLots(set) \in Nat
  <2> DEFINE f == [l \in Lots |-> lot[l].quantity]
  <2>1. \A l \in set : f[l] \in Nat
    BY UnitsAre DEF StockInv
  <2>2. IsFiniteSet(set)
    BY BucketsApart, FS_Subset
  <2>3. InLots(set) = SumFunctionOnSet(f, set)
    BY DEF InLots
  <2> HIDE DEF f
  <2> QED
    BY <2>1, <2>2, <2>3, SumNatural
<1>2. PICK n \in Int : n = units - InLots(set)
  BY <1>1
<1>3. Left(units, set) = Max({0, n})
  BY <1>2 DEF Left
<1>4. Max({0, n}) \in {0, n} /\ Max({0, n}) >= 0
  <2>1. 0 \in Int
    OBVIOUS
  <2> QED
    BY <2>1, OfTwo, Zenon
<1> QED
  BY <1>1, <1>3, <1>4

(* allocateFefo takes from lots that are there, and the rest from what is  *)
(* untracked.                                                              *)
LEMMA AllotmentIs ==
  ASSUME StockInv, NEW units \in Int, Left(units, Sellable) <= Loose
  PROVE  /\ Allotment(units) \in Moves
         /\ \A b \in Buckets : Allotment(units)[b] <= 0
         /\ \A v \in Variants : Allotment(units)[v] = 0
         /\ \A l \in Lots : lot[l].state # "LIVE" => Allotment(units)[l] = 0
         /\ product.hasVariants => /\ Allotment(units)[Untracked] = 0
                                   /\ \A l \in Lots : Allotment(units)[l] = 0
<1> USE DEF StockInv
<1> DEFINE at(b) == CASE b = Untracked  -> -Left(units, Sellable)
                      [] b \in Lots     -> IF b \in Sellable
                                           THEN -Min({lot[b].quantity, Left(units, Sooner(b))}) ELSE 0
                      [] b \in Variants -> 0
<1>1. Allotment(units) = [b \in Buckets |-> at(b)]
  BY Zenon DEF Allotment
<1>2. at(Untracked) = -Left(units, Sellable)
  BY BucketsApart
<1>3. \A l \in Lots : at(l) = IF l \in Sellable THEN -Min({lot[l].quantity, Left(units, Sooner(l))}) ELSE 0
  BY BucketsApart
<1>4. \A v \in Variants : at(v) = 0
  BY BucketsApart
<1> HIDE DEF at
<1>5. Left(units, Sellable) \in Nat
  BY LeftIs DEF Sellable
<1>6. \A l \in Lots : at(l) \in Int /\ at(l) <= 0
  <2>1. SUFFICES ASSUME NEW l \in Lots PROVE at(l) \in Int /\ at(l) <= 0
    OBVIOUS
  <2>2. CASE l \in Sellable
    <3>1. Left(units, Sooner(l)) \in Nat
      BY LeftIs DEF Sooner, Sellable
    <3>2. PICK m \in Nat, n \in Nat : m = lot[l].quantity /\ n = Left(units, Sooner(l))
      BY <3>1, UnitsAre
    <3>3. Min({m, n}) \in {m, n}
      <4>1. m \in Int /\ n \in Int
        OBVIOUS
      <4> QED
        BY <4>1, OfTwo, Zenon
    <3>4. at(l) = -Min({m, n})
      BY <1>3, <2>2, <3>2
    <3> QED
      BY <3>3, <3>4
  <2>3. CASE l \notin Sellable
    <3>1. at(l) = 0
      BY <1>3, <2>3, Zenon
    <3> QED
      BY <3>1
  <2> QED
    BY <2>2, <2>3
<1>7. \A b \in Buckets : at(b) \in Int /\ at(b) <= 0
  BY <1>2, <1>4, <1>5, <1>6 DEF Buckets, Untracked
<1>8. \A l \in Lots : lot[l].state # "LIVE" => at(l) = 0
  BY <1>3 DEF Sellable
<1>9. product.hasVariants => at(Untracked) = 0 /\ \A l \in Lots : at(l) = 0
  <2>1. SUFFICES ASSUME product.hasVariants PROVE at(Untracked) = 0 /\ \A l \in Lots : at(l) = 0
    OBVIOUS
  <2>2. product.quantity = 0 /\ \A l \in Lots : lot[l].quantity = 0
    BY <2>1 DEF Balanced
  <2>3. Loose = 0
    BY <2>2, EmptyLots, UnitsAre
  <2>4. at(Untracked) = 0
    BY <1>2, <1>5, <2>3
  <2>5. \A l \in Lots : l \notin Sellable
    BY <2>2 DEF Sellable
  <2> QED
    BY <1>3, <2>4, <2>5
<1> QED
  BY <1>1, <1>4, <1>7, <1>8, <1>9, BucketsApart DEF Moves

(* A confirmed sale takes from what is there.                              *)
LEMMA TakeKept ==
  ASSUME StockInv, NEW s \in StockSales, NEW move \in Moves, Take(s, move),
         \A b \in Buckets : move[b] <= 0,
         \A l \in Lots : lot[l].state # "LIVE" \/ product.hasVariants => move[l] = 0,
         \A v \in Variants : variant[v].state # "LIVE" => move[v] = 0,
         product.hasVariants \/ ~product.tracked \/ ~IsLive => move[Untracked] = 0
  PROVE  StockInv'
<1> USE DEF StockInv
<1>1. PICK row : row = [b \in Buckets |-> -move[b]]
  OBVIOUS
<1>2. /\ Persist(move, product, lot, variant) /\ order[s] = "DRAFT"
      /\ order' = [order EXCEPT ![s] = "CONFIRMED"] /\ taken' = [taken EXCEPT ![s] = row]
      /\ alerted' = AlertsAfter(move) /\ seen' = Reread(move) /\ given' = given /\ recast' = recast
  <2>1. Take(s, move)
    OBVIOUS
  <2> QED
    BY <1>1, <2>1 DEF Take
<1>3. row \in [Buckets -> Nat]
  BY <1>1 DEF Moves
<1>4. /\ order' \in [StockSales -> {"DRAFT", "CONFIRMED", "CANCELED"}]
      /\ taken' \in [StockSales -> [Buckets -> Nat]] /\ given' \in [StockSales -> Moves]
  BY <1>2, <1>3 DEF StockTyped
<1>5. given[s] = NoMove
  BY <1>2 DEF GivenOnce
<1>6. /\ \A b \in Lots \cup Variants : given'[s][b] <= taken'[s][b]
      /\ Total(given'[s], {Untracked} \cup Lots) <= Total(taken'[s], {Untracked} \cup Lots)
  <2>1. given'[s] = NoMove /\ taken'[s] = row
    BY <1>2, <1>5 DEF StockTyped
  <2>2. PICK none : none = NoMove
    OBVIOUS
  <2>3. \A b \in Buckets : none[b] = 0
    BY <2>2 DEF NoMove
  <2>4. IsFiniteSet({Untracked} \cup Lots) /\ {Untracked} \cup Lots \subseteq Buckets
    <3>1. {Untracked} \cup Lots = Lots \cup {Untracked}
      OBVIOUS
    <3>2. IsFiniteSet(Lots \cup {Untracked})
      BY BucketsApart, FS_AddElement
    <3> QED
      BY <3>1, <3>2, BucketsApart
  <2>5. SumFunctionOnSet(none, {Untracked} \cup Lots) = 0
    BY <2>3, <2>4, SumZero
  <2>6. SumFunctionOnSet(row, {Untracked} \cup Lots) \in Nat
    BY <1>3, <2>4, SumNatural
  <2>7. Total(given'[s], {Untracked} \cup Lots) <= Total(taken'[s], {Untracked} \cup Lots)
    BY <2>1, <2>2, <2>5, <2>6 DEF Total
  <2>8. \A b \in Lots \cup Variants : given'[s][b] <= taken'[s][b]
    BY <1>3, <2>1, <2>2, <2>3, BucketsApart
  <2> QED
    BY <2>7, <2>8
<1>7. ASSUME NEW t \in StockSales, t # s
      PROVE  /\ given'[t] = given[t] /\ taken'[t] = taken[t] /\ order'[t] = order[t]
  BY <1>2, <1>7 DEF StockTyped
<1>8. RestoredOnce'
  BY <1>6, <1>7 DEF GivenOnce, RestoredOnce, Total
<1>9. GivenOnce'
  <2>1. order'[s] = "CONFIRMED"
    BY <1>2 DEF StockTyped
  <2> QED
    BY <1>7, <1>8, <2>1 DEF GivenOnce
<1>10. /\ lot \in [Lots -> LotRow]
       /\ \A l \in Lots : /\ lot[l].quantity = lot[l].quantity
                          /\ lot[l].state # "LIVE" => lot[l].state # "LIVE" /\ move[l] = 0
       /\ product.hasVariants => \A l \in Lots : move[l] = 0
       /\ ~IsLive => \A l \in Lots : lot[l].state # "LIVE"
  BY DEF StockTyped, NothingLeft
<1>11. seen' = [d \in Adjusters |-> seen'[d]] /\ \A d \in Adjusters : seen'[d] \in {Reread(move)[d], Unread}
  BY <1>2 DEF Reread
<1> QED
  BY <1>2, <1>4, <1>9, <1>10, <1>11, MoveStands

(* A line of the product takes what allocateFefo allots.                   *)
LEMMA ChargeProductKept ==
  ASSUME StockInv, NEW s \in StockSales, NEW units \in Int, ChargeProduct(s, units) PROVE StockInv'
<1>1. CASE product.tracked
  <2>1. Left(units, Sellable) <= Loose /\ Take(s, Allotment(units)) /\ IsLive
    BY <1>1 DEF ChargeProduct
  <2>2. PICK move : move = Allotment(units)
    OBVIOUS
  <2>3. /\ move \in Moves /\ \A b \in Buckets : move[b] <= 0
        /\ \A v \in Variants : move[v] = 0
        /\ \A l \in Lots : lot[l].state # "LIVE" => move[l] = 0
        /\ product.hasVariants => move[Untracked] = 0 /\ \A l \in Lots : move[l] = 0
    BY <2>1, <2>2, AllotmentIs
  <2>4. Take(s, move)
    BY <2>1, <2>2
  <2>5. /\ \A l \in Lots : lot[l].state # "LIVE" \/ product.hasVariants => move[l] = 0
        /\ \A v \in Variants : variant[v].state # "LIVE" => move[v] = 0
        /\ product.hasVariants \/ ~product.tracked \/ ~IsLive => move[Untracked] = 0
    BY <1>1, <2>1, <2>3
  <2> QED
    BY <2>3, <2>4, <2>5, TakeKept
<1>2. CASE ~product.tracked
  <2>1. PICK move : move = NoMove
    OBVIOUS
  <2>2. move \in Moves /\ \A b \in Buckets : move[b] = 0
    BY <2>1 DEF NoMove, Moves
  <2>3. Take(s, move)
    BY <1>2, <2>1 DEF ChargeProduct
  <2>4. /\ \A b \in Buckets : move[b] <= 0
        /\ \A l \in Lots : lot[l].state # "LIVE" \/ product.hasVariants => move[l] = 0
        /\ \A v \in Variants : variant[v].state # "LIVE" => move[v] = 0
        /\ product.hasVariants \/ ~product.tracked \/ ~IsLive => move[Untracked] = 0
    BY <2>2, BucketsApart
  <2> QED
    BY <2>2, <2>3, <2>4, TakeKept
<1> QED
  BY <1>1, <1>2

(* A line of a variant takes from the variant.                             *)
LEMMA ChargeVariantKept ==
  ASSUME StockInv, NEW s \in StockSales, NEW v \in Variants, NEW units \in Nat, ChargeVariant(s, v, units)
  PROVE  StockInv'
<1>1. PICK n \in Int : n = -units
  OBVIOUS
<1>2. PICK move : move = [NoMove EXCEPT ![v] = n]
  OBVIOUS
<1>3. v \in Buckets
  BY BucketsApart
<1>4. move \in Moves /\ move[v] = n /\ \A b \in Buckets : b # v => move[b] = 0
  <2>1. \A any : any = [NoMove EXCEPT ![v] = n] =>
           /\ any \in Moves /\ any[v] = n /\ \A c \in Buckets : c # v => any[c] = 0
           /\ v \in Variants => OfProduct(any) = 0
    BY <1>3, OneMove
  <2> QED
    BY <1>2, <2>1
<1>5. Take(s, move) /\ variant[v].state = "LIVE"
  BY <1>1, <1>2 DEF ChargeVariant
<1>6. /\ \A b \in Buckets : move[b] <= 0
      /\ \A l \in Lots : lot[l].state # "LIVE" \/ product.hasVariants => move[l] = 0
      /\ \A w \in Variants : variant[w].state # "LIVE" => move[w] = 0
      /\ product.hasVariants \/ ~product.tracked \/ ~IsLive => move[Untracked] = 0
  BY <1>1, <1>4, <1>5, BucketsApart
<1> QED
  BY <1>4, <1>5, <1>6, TakeKept

(* mapSaleReversal restores to what is there, and the untracked units get  *)
(* what the lots that are gone had given.                                  *)
LEMMA RestoredIs ==
  ASSUME StockInv, NEW s \in StockSales
  PROVE  /\ Restored(s) \in Moves
         /\ \A b \in Lots \cup Variants : Restored(s)[b] = IF Has(b) THEN taken[s][b] ELSE 0
         /\ ~Accepts(Untracked) => Restored(s)[Untracked] = 0
         /\ Total(Restored(s), {Untracked} \cup Lots) <= Total(taken[s], {Untracked} \cup Lots)
<1> USE DEF StockInv
<1>1. PICK row \in [Buckets -> Nat] : row = taken[s]
  BY DEF StockTyped
<1> DEFINE vanished == {l \in Lots : ~Has(l)}
           at(b) == CASE b # Untracked -> IF Has(b) THEN taken[s][b] ELSE 0
                      [] b = Untracked -> IF Accepts(b) THEN taken[s][b] + Total(taken[s], vanished) ELSE 0
<1>2. Restored(s) = [b \in Buckets |-> at(b)]
  BY Zenon DEF Restored
<1>3. at(Untracked) = IF Accepts(Untracked) THEN row[Untracked] + Total(row, vanished) ELSE 0
  BY <1>1
<1>4. \A b \in Lots \cup Variants : at(b) = IF Has(b) THEN row[b] ELSE 0
  BY <1>1, BucketsApart
<1>5. vanished \in SUBSET Lots /\ \A l \in Lots : l \in vanished <=> ~Has(l)
  OBVIOUS
<1> HIDE DEF at, vanished
<1>6. /\ IsFiniteSet(Lots) /\ IsFiniteSet(vanished) /\ Lots \subseteq Buckets /\ Untracked \in Buckets
      /\ \A b \in Buckets : row[b] \in Nat
  BY <1>5, BucketsApart, FS_Subset
<1>7. Total(row, vanished) \in Nat
  BY <1>5, <1>6, SumNatural DEF Total
<1>8. at(Untracked) \in Int /\ at(Untracked) <= row[Untracked] + Total(row, vanished)
  <2>1. row[Untracked] \in Nat
    BY <1>6
  <2>2. CASE Accepts(Untracked)
    <3>1. at(Untracked) = row[Untracked] + Total(row, vanished)
      BY <1>3, <2>2, Zenon
    <3> QED
      BY <1>7, <2>1, <3>1
  <2>3. CASE ~Accepts(Untracked)
    <3>1. at(Untracked) = 0
      BY <1>3, <2>3, Zenon
    <3> QED
      BY <1>7, <2>1, <3>1
  <2> QED
    BY <2>2, <2>3
<1>9. \A b \in Lots \cup Variants : at(b) \in Int
  BY <1>4, <1>6, BucketsApart
<1>10. Restored(s) \in Moves
  BY <1>2, <1>8, <1>9, BucketsApart DEF Moves, Buckets, Untracked
<1>11. Total(Restored(s), {Untracked} \cup Lots) <= Total(row, {Untracked} \cup Lots)
  <2>1. PICK move \in Moves : move = Restored(s)
    BY <1>10
  <2> DEFINE rest == [l \in Lots |-> IF l \in vanished THEN row[l] ELSE 0]
  <2>2. \A l \in Lots : rest[l] = IF l \in vanished THEN row[l] ELSE 0
    OBVIOUS
  <2>3. \A l \in Lots : rest[l] \in Int
    BY <1>6, <2>2
  <2> HIDE DEF rest
  <2>4. Integral(rest, Lots) /\ Integral(row, Lots) /\ Integral(move, Lots)
    BY <1>6, <2>3 DEF Integral, Moves
  <2>5. SumFunctionOnSet(row, vanished) = SumFunctionOnSet(rest, Lots)
    BY <1>5, <1>6, <2>2, <2>4, SumPart
  <2>6. \A l \in Lots : row[l] = move[l] + rest[l]
    <3>1. SUFFICES ASSUME NEW l \in Lots PROVE row[l] = move[l] + rest[l]
      OBVIOUS
    <3>2. move[l] = IF Has(l) THEN row[l] ELSE 0
      BY <1>2, <1>4, <1>6, <2>1
    <3>3. row[l] \in Nat
      BY <1>6
    <3>4. CASE Has(l)
      BY <1>5, <2>2, <3>2, <3>3, <3>4
    <3>5. CASE ~Has(l)
      BY <1>5, <2>2, <3>2, <3>3, <3>5
    <3> QED
      BY <3>4, <3>5
  <2>7. SumFunctionOnSet(row, Lots) = SumFunctionOnSet(move, Lots) + SumFunctionOnSet(rest, Lots)
    BY <1>6, <2>4, <2>6, SumPlus
  <2>8. /\ SumFunctionOnSet(move, Lots) \in Int /\ SumFunctionOnSet(rest, Lots) \in Int
        /\ SumFunctionOnSet(row, Lots) \in Int
    BY <1>6, <2>4, SumType
  <2>9. Integral(move, {Untracked} \cup Lots) /\ Integral(row, {Untracked} \cup Lots)
    BY <1>6, <2>4 DEF Integral, Moves
  <2>10. /\ Total(move, {Untracked} \cup Lots) = move[Untracked] + SumFunctionOnSet(move, Lots)
         /\ Total(row, {Untracked} \cup Lots) = row[Untracked] + SumFunctionOnSet(row, Lots)
    BY <2>9, LooseAndLots DEF Total
  <2>11. move[Untracked] <= row[Untracked] + SumFunctionOnSet(rest, Lots) /\ move[Untracked] \in Int
    BY <1>2, <1>6, <1>8, <2>1, <2>5 DEF Total
  <2>12. row[Untracked] \in Int
    BY <1>6
  <2> QED
    BY <2>1, <2>7, <2>8, <2>10, <2>11, <2>12
<1>12. ~Accepts(Untracked) => Restored(s)[Untracked] = 0
  BY <1>2, <1>3, <1>6
<1>13. \A b \in Lots \cup Variants : Restored(s)[b] = IF Has(b) THEN taken[s][b] ELSE 0
  BY <1>1, <1>2, <1>4, BucketsApart
<1> QED
  BY <1>1, <1>10, <1>11, <1>12, <1>13

(* A canceled sale gives back once.                                        *)
LEMMA ReverseSaleKept ==
  ASSUME StockInv, NEW s \in StockSales, ReverseSale(s) PROVE StockInv'
<1> USE DEF StockInv
<1>1. PICK move : move = IF Reversed(s) THEN NoMove ELSE Restored(s)
  OBVIOUS
<1>2. PICK row : row = [b \in Buckets |-> given[s][b] + move[b]]
  OBVIOUS
<1>3. /\ Persist(move, product, lot, variant) /\ ~Blocked(s) /\ order[s] \in {"CONFIRMED", "CANCELED"}
      /\ order' = [order EXCEPT ![s] = "CANCELED"] /\ given' = [given EXCEPT ![s] = row] /\ taken' = taken
      /\ alerted' = AlertsAfter(move) /\ seen' = Reread(move) /\ recast' = recast
  <2>1. ReverseSale(s)
    OBVIOUS
  <2>2. given' = [given EXCEPT ![s] = [b \in Buckets |-> @[b] + move[b]]]
    BY <1>1, <2>1 DEF ReverseSale
  <2>3. given' = [given EXCEPT ![s] = row]
    BY <1>2, <2>2 DEF StockTyped
  <2> QED
    BY <1>1, <2>1, <2>3 DEF ReverseSale
<1>4. CASE Reversed(s)
  <2>1. move \in Moves /\ \A b \in Buckets : move[b] = 0
    BY <1>1, <1>4 DEF NoMove, Moves
  <2>2. row = given[s] /\ given' = given
    BY <1>2, <1>3, <2>1 DEF StockTyped, Moves
  <2>3. /\ order' \in [StockSales -> {"DRAFT", "CONFIRMED", "CANCELED"}]
        /\ taken' \in [StockSales -> [Buckets -> Nat]] /\ given' \in [StockSales -> Moves]
    BY <1>3, <2>2 DEF StockTyped
  <2>4. GivenOnce'
    <3>1. \A t \in StockSales : order'[t] = "DRAFT" => order[t] = "DRAFT"
      BY <1>3 DEF StockTyped
    <3> QED
      BY <1>3, <2>2, <3>1 DEF GivenOnce, RestoredOnce, Total
  <2>5. /\ lot \in [Lots -> LotRow]
        /\ \A l \in Lots : /\ lot[l].quantity = lot[l].quantity
                           /\ lot[l].state # "LIVE" => lot[l].state # "LIVE" /\ move[l] = 0
        /\ product.hasVariants => \A l \in Lots : move[l] = 0
        /\ ~IsLive => \A l \in Lots : lot[l].state # "LIVE"
        /\ \A v \in Variants : variant[v].state # "LIVE" => move[v] = 0
        /\ product.hasVariants \/ ~product.tracked \/ ~IsLive => move[Untracked] = 0
    BY <2>1, BucketsApart DEF StockTyped, NothingLeft
  <2>6. seen' = [d \in Adjusters |-> seen'[d]] /\ \A d \in Adjusters : seen'[d] \in {Reread(move)[d], Unread}
    BY <1>3 DEF Reread
  <2> QED
    BY <1>3, <2>1, <2>3, <2>4, <2>5, <2>6, MoveStands
<1>5. CASE ~Reversed(s)
  <2>1. /\ move \in Moves
        /\ \A b \in Lots \cup Variants : move[b] = IF Has(b) THEN taken[s][b] ELSE 0
        /\ ~Accepts(Untracked) => move[Untracked] = 0
        /\ Total(move, {Untracked} \cup Lots) <= Total(taken[s], {Untracked} \cup Lots)
    BY <1>1, <1>5, RestoredIs
  <2>2. row = move
    <3>1. given[s] = NoMove
      BY <1>5 DEF Reversed
    <3>2. \A b \in Buckets : given[s][b] = 0
      BY <3>1 DEF NoMove
    <3>3. \A b \in Buckets : row[b] = move[b]
      BY <1>2, <2>1, <3>2 DEF Moves
    <3> QED
      BY <1>2, <2>1, <3>3 DEF Moves
  <2>3. /\ order' \in [StockSales -> {"DRAFT", "CONFIRMED", "CANCELED"}]
        /\ taken' \in [StockSales -> [Buckets -> Nat]] /\ given' \in [StockSales -> Moves]
        /\ order'[s] = "CANCELED" /\ given'[s] = move
    BY <1>3, <2>1, <2>2 DEF StockTyped
  <2>4. ASSUME NEW t \in StockSales, t # s PROVE order'[t] = order[t] /\ given'[t] = given[t]
    BY <1>3, <2>4 DEF StockTyped
  <2>5. \A b \in Lots \cup Variants : move[b] <= taken[s][b]
    <3>1. \A b \in Lots \cup Variants : taken[s][b] \in Nat
      BY BucketsApart DEF StockTyped
    <3> QED
      BY <2>1, <3>1
  <2>6. RestoredOnce'
    <3>1. \A b \in Lots \cup Variants : given'[s][b] <= taken'[s][b]
      BY <1>3, <2>3, <2>5
    <3>2. Total(given'[s], {Untracked} \cup Lots) <= Total(taken'[s], {Untracked} \cup Lots)
      BY <1>3, <2>1, <2>3
    <3> QED
      BY <1>3, <2>4, <3>1, <3>2 DEF GivenOnce, RestoredOnce, Total
  <2>7. GivenOnce'
    BY <2>3, <2>4, <2>6 DEF GivenOnce
  <2>8. \A l \in Lots : lot[l].state # "LIVE" \/ product.hasVariants => move[l] = 0
    <3>1. SUFFICES ASSUME NEW l \in Lots, lot[l].state # "LIVE" \/ product.hasVariants PROVE move[l] = 0
      OBVIOUS
    <3>2. move[l] = IF Has(l) THEN taken[s][l] ELSE 0
      BY <2>1
    <3>3. taken[s][l] \in Nat
      BY BucketsApart DEF StockTyped
    <3>4. CASE Has(l)
      <4>1. product.hasVariants
        BY <3>1, <3>4, BucketsApart DEF Has
      <4>2. ~Accepts(l)
        BY <4>1 DEF Accepts
      <4>3. ~(taken[s][l] > 0)
        BY <1>3, <1>5, <3>4, <4>2 DEF Blocked
      <4> QED
        BY <3>2, <3>3, <4>3
    <3> QED
      BY <3>2, <3>4
  <2>9. \A v \in Variants : variant[v].state # "LIVE" => move[v] = 0
    BY <2>1, BucketsApart DEF Has
  <2>10. product.hasVariants \/ ~product.tracked \/ ~IsLive => move[Untracked] = 0
    BY <2>1, BucketsApart DEF Accepts, Has
  <2>11. /\ lot \in [Lots -> LotRow]
         /\ \A l \in Lots : /\ lot[l].quantity = lot[l].quantity
                            /\ lot[l].state # "LIVE" => lot[l].state # "LIVE" /\ move[l] = 0
         /\ product.hasVariants => \A l \in Lots : move[l] = 0
         /\ ~IsLive => \A l \in Lots : lot[l].state # "LIVE"
    BY <2>8 DEF StockTyped, NothingLeft
  <2>12. seen' = [d \in Adjusters |-> seen'[d]] /\ \A d \in Adjusters : seen'[d] \in {Reread(move)[d], Unread}
    BY <1>3 DEF Reread
  <2> QED
    BY <1>3, <2>1, <2>3, <2>7, <2>9, <2>10, <2>11, <2>12, MoveStands
<1> QED
  BY <1>4, <1>5

-----------------------------------------------------------------------------
(* It holds at first.                                                      *)
LEMMA StockInvInit == StockInit => StockInv
<1> SUFFICES ASSUME StockInit PROVE StockInv
  OBVIOUS
<1>1. NoMove \in Moves /\ NoMove \in [Buckets -> Nat] /\ \A b \in Buckets : NoMove[b] = 0
  BY DEF NoMove, Moves
<1>2. 0 \in Days
  BY StockConstants DEF Days
<1>3. StockTyped
  <2>1. product \in ProductRow
    BY DEF StockInit, ProductRow, LifeStates
  <2>2. lot \in [Lots -> LotRow] /\ variant \in [Variants -> VariantRow]
    BY <1>2 DEF StockInit, LotRow, VariantRow, LifeStates
  <2>3. /\ order \in [StockSales -> {"DRAFT", "CONFIRMED", "CANCELED"}]
        /\ alerted \in [AlertKeys -> BOOLEAN] /\ journal \in Moves
        /\ taken \in [StockSales -> [Buckets -> Nat]] /\ given \in [StockSales -> Moves]
    BY <1>1 DEF StockInit
  <2>4. seen \in [Adjusters -> [bucket : Buckets \cup {-1}, units : Int]]
    BY DEF StockInit, Unread
  <2> QED
    BY <2>1, <2>2, <2>3, <2>4 DEF StockTyped
<1>4. /\ product.quantity = 0 /\ product.min = 0 /\ product.kind = "PRODUCT" /\ product.state = "NONE"
      /\ product.hasVariants = FALSE
      /\ \A l \in Lots : lot[l].quantity = 0 /\ lot[l].state = "NONE"
      /\ \A v \in Variants : variant[v].quantity = 0 /\ variant[v].state = "NONE"
      /\ \A k \in AlertKeys : ~alerted[k]
      /\ \A a \in Adjusters : seen[a] = Unread
  BY DEF StockInit
<1>5. Loose = 0 /\ \A b \in Buckets : Units(b) = 0
  <2>1. Loose = 0
    BY <1>3, <1>4, EmptyLots, UnitsAre
  <2> QED
    BY <1>3, <1>4, <2>1, UnitsAre DEF Buckets, Untracked
<1>6. NothingLeft
  BY <1>4 DEF NothingLeft, IsLive, AlertKeys
<1>7. Balanced
  <2>1. \A b \in Buckets : journal[b] = 0
    BY <1>1 DEF StockInit
  <2> QED
    BY <1>4, <1>5, <2>1 DEF Balanced
<1>8. Untold /\ AllArmed
  BY <1>4 DEF Untold, AllArmed
<1>9. SeenStands
  <2>1. \A a \in Adjusters, b \in Buckets : seen[a].bucket # b
    BY <1>4, BucketsApart DEF Unread
  <2> QED
    BY <1>4, <2>1 DEF SeenStands
<1>10. GivenOnce
  <2>1. \A s \in StockSales : given[s] = NoMove /\ taken[s] = NoMove
    BY DEF StockInit
  <2>2. PICK none : none = NoMove
    OBVIOUS
  <2>3. \A b \in Lots \cup Variants : none[b] <= none[b]
    BY <1>1, <2>2, BucketsApart
  <2>4. Total(none, {Untracked} \cup Lots) <= Total(none, {Untracked} \cup Lots)
    <3>1. Integral(none, {Untracked} \cup Lots) /\ Integral(none, Lots)
      BY <1>1, <2>2, BucketsApart DEF Integral
    <3>2. Total(none, Lots) \in Int
      BY <3>1, BucketsApart, SumType DEF Total
    <3>3. none[Untracked] = 0
      BY <1>1, <2>2, BucketsApart
    <3> QED
      BY <3>1, <3>2, <3>3, LooseAndLots
  <2> QED
    BY <2>1, <2>2, <2>3, <2>4 DEF GivenOnce, RestoredOnce
<1> QED
  BY <1>3, <1>6, <1>7, <1>8, <1>9, <1>10 DEF StockInv

(* Every operation keeps it.                                               *)
LEMMA StockInvStep == StockInv /\ [StockNext]_stockVars => StockInv'
<1> SUFFICES ASSUME StockInv, [StockNext]_stockVars PROVE StockInv'
  OBVIOUS
<1> USE StockConstants
<1>1. ASSUME NEW tracked \in BOOLEAN, NEW useLots \in BOOLEAN, NEW hasVariants \in BOOLEAN,
             NEW units \in OnHand, NEW min \in Thresholds, NEW newLots \in SUBSET Lots, NEW day \in Days,
             NEW newVariants \in SUBSET Variants,
             CreateProduct(tracked, useLots, hasVariants, units, min, newLots, day, newVariants)
      PROVE  StockInv'
  BY <1>1, CreateProductKept
<1>2. CASE RemoveProduct
  BY <1>2, RemoveProductKept
<1>3. ASSUME NEW min \in Thresholds, EditMin(min) PROVE StockInv'
  BY <1>3, EditMinKept
<1>4. ASSUME NEW useLots \in BOOLEAN, SwitchLots(useLots) PROVE StockInv'
  BY <1>4, SwitchLotsKept
<1>5. CASE Untrack
  BY <1>5, UntrackKept
<1>6. CASE Track
  BY <1>6, TrackKept
<1>7. CASE EnableVariants
  BY <1>7, EnableVariantsKept
<1>8. CASE DisableVariants
  BY <1>8, DisableVariantsKept
<1>9. CASE ToService
  BY <1>9, ToServiceKept
<1>10. ASSUME NEW tracked \in BOOLEAN, NEW useLots \in BOOLEAN, NEW min \in Thresholds,
              NEW named \in BOOLEAN, ToProduct(tracked, useLots, min, named)
       PROVE  StockInv'
  BY <1>10, ToProductKept
<1>11. ASSUME NEW v \in Variants, NEW min \in Thresholds, EditVariantMin(v, min) PROVE StockInv'
  BY <1>11, EditVariantMinKept
<1>12. ASSUME NEW v \in Variants, NEW min \in Thresholds, NEW u \in OnHand, AddVariant(v, min, u) PROVE StockInv'
  BY <1>12, AddVariantKept
<1>13. ASSUME NEW v \in Variants, RemoveVariant(v) PROVE StockInv'
  BY <1>13, RemoveVariantKept
<1>14. ASSUME NEW l \in Lots, NEW day \in Days, EditLotDate(l, day) PROVE StockInv'
  BY <1>14, LotSettingKept
<1>15. ASSUME NEW l \in Lots, NEW day \in Days, NEW u \in OnHand, AddLot(l, day, u) PROVE StockInv'
  BY <1>15, AddLotKept
<1>16. ASSUME NEW l \in Lots, RemoveLot(l) PROVE StockInv'
  BY <1>16, LotSettingKept
<1>17. ASSUME NEW s \in StockSales, NEW u \in OnHand \ {0}, ChargeProduct(s, u) PROVE StockInv'
  <2>1. u \in Int
    BY <1>17, BucketsApart
  <2> QED
    BY <1>17, <2>1, ChargeProductKept
<1>18. ASSUME NEW s \in StockSales, NEW u \in OnHand \ {0}, NEW v \in Variants, ChargeVariant(s, v, u)
       PROVE  StockInv'
  <2>1. u \in Nat
    BY <1>18, BucketsApart
  <2> QED
    BY <1>18, <2>1, ChargeVariantKept
<1>19. ASSUME NEW s \in StockSales, ReverseSale(s) PROVE StockInv'
  BY <1>19, ReverseSaleKept
<1>20. ASSUME NEW a \in Adjusters, NEW b \in Buckets, ReadStock(a, b) PROVE StockInv'
  BY <1>20, StutterKept
<1>21. ASSUME NEW a \in Adjusters, NEW d \in (-MaxOnHand..MaxOnHand) \ {0}, Adjust(a, d) PROVE StockInv'
  <2>1. d \in Int
    BY <1>21
  <2> QED
    BY <1>21, <2>1, AdjustKept
<1>22. CASE NextDay
  BY <1>22, StutterKept
<1>23. CASE UNCHANGED stockVars
  <2>1. /\ product' = product /\ lot' = lot /\ variant' = variant /\ journal' = journal /\ order' = order
        /\ taken' = taken /\ given' = given /\ recast' = recast /\ alerted' = alerted /\ seen' = seen
    BY <1>23 DEF stockVars, saleRows
  <2>2. \A b \in Buckets : Units(b)' = Units(b)
    BY <2>1, UnitsStay DEF StockInv, StockTyped
  <2>3. StockTyped' /\ NothingLeft' /\ Untold' /\ AllArmed' /\ GivenOnce'
    BY <2>1 DEF StockInv, StockTyped, NothingLeft, IsLive, Untold, AllArmed, GivenOnce, RestoredOnce, Total
  <2>4. Balanced' /\ SeenStands'
    BY <2>1, <2>2 DEF StockInv, Balanced, Loose, InLots, SeenStands
  <2> QED
    BY <2>3, <2>4 DEF StockInv
<1> QED
  BY <1>1, <1>2, <1>3, <1>4, <1>5, <1>6, <1>7, <1>8, <1>9, <1>10, <1>11, <1>12, <1>13, <1>14, <1>15, <1>16,
     <1>17, <1>18, <1>19, <1>20, <1>21, <1>22, <1>23 DEF StockNext

(* It holds in every state.                                                *)
LEMMA StockIsRight == StockSpec => []StockInv
<1>1. StockInit => StockInv
  BY StockInvInit
<1>2. StockInv /\ [StockNext]_stockVars => StockInv'
  BY StockInvStep
<1> QED
  BY <1>1, <1>2, PTL DEF StockSpec

(* The journal explains every unit, whatever the product was, is or will   *)
(* be, and no cancellation gives back more than its sale took (persist,    *)
(* removeProductStock, reverseSale).                                       *)
THEOREM JournalExplainsStock == StockSpec => []JournalAddsUp
<1>1. StockInv => JournalAddsUp
  <2> SUFFICES ASSUME StockInv PROVE JournalAddsUp
    OBVIOUS
  <2> USE DEF StockInv
  <2>1. journal[Untracked] = Loose
    BY UnitsAre, BucketsApart DEF Balanced
  <2>2. ~IsLive => Loose = 0
    BY EmptyLots, UnitsAre DEF NothingLeft
  <2>3. \A l \in Lots : journal[l] = lot[l].quantity
    BY UnitsAre, BucketsApart DEF Balanced
  <2>4. \A v \in Variants : journal[v] = variant[v].quantity
    BY UnitsAre, BucketsApart DEF Balanced
  <2>5. IsLive /\ product.hasVariants => product.quantity = 0 /\ InLots(Lots) = 0
    BY EmptyLots DEF Balanced
  <2>6. JournalIsStock
    BY <2>1, <2>2, <2>3, <2>4, <2>5 DEF JournalIsStock, NothingLeft, Balanced
  <2> QED
    BY <2>6 DEF JournalAddsUp, GivenOnce
<1> QED
  BY <1>1, StockIsRight, PTL

(* An adjustment that is accepted changes the balance that its author read *)
(* (checkVersion).                                                         *)
THEOREM AdjustersSeeWhatTheyChange == StockSpec => []VersionTellsBalance
<1>1. StockInv => VersionTellsBalance
  BY DEF StockInv, SeenStands, VersionTellsBalance
<1> QED
  BY <1>1, StockIsRight, PTL

(* What ends above its threshold is ready to be told of the next shortage  *)
(* (LowStockCrossing, rearmAlertAfterEdit), unless it has been a service.  *)
THEOREM PlentyIsArmed == StockSpec => []ArmedAboveThreshold
<1>1. StockInv => ArmedAboveThreshold
  BY DEF StockInv, AllArmed, ArmedAboveThreshold
<1> QED
  BY <1>1, StockIsRight, PTL
=============================================================================
