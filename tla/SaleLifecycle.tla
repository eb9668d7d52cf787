--------------------------- MODULE SaleLifecycle ---------------------------
(***************************************************************************)
(* One sale of the point of sale, from draft to cancellation, and the      *)
(* request handlers of SalesService that race for it.                      *)
(*                                                                         *)
(* A handler is a process of the Node server.  What it does inside one     *)
(* database transaction that has locked the row of the sale (SELECT ...    *)
(* FOR UPDATE) is one step; what it does outside, or inside a transaction  *)
(* that takes no lock, is a step of its own, so that other handlers may    *)
(* come in between.  An unbound money request first takes an idempotency   *)
(* slot in a statement that commits on its own; a request bound to a cash  *)
(* session takes it inside the transaction of the money.                   *)
(*                                                                         *)
(* Money is in cents and one unit of merchandise costs one cent, so that   *)
(* sale.items is at once the quantity sold and the total to pay.           *)
(***************************************************************************)
EXTENDS Naturals, FiniteSets

CONSTANTS
  Procs,        \* request handlers that may run at the same time
  Keys,         \* Idempotency-Key values the clients send
  Quantities,   \* quantities a draft may be left with by an edit
  Charges,      \* bodies of POST /sales/:id/charge
  Collections,  \* bodies of POST /sales/:id/payments
  Reasons,      \* bodies (actor and reason) of POST /sales/:id/cancel
  StaleWriters  \* writers that save an aggregate read before the transaction

ChargeBody == [kind : {"cash", "card", "credit"}, tender : Nat,
               delivery : BOOLEAN, bound : BOOLEAN]
CollectionBody == [amount : Nat \ {0}, bound : BOOLEAN]

ASSUME ConstantsAssumption ==
  /\ Quantities \subseteq Nat
  /\ Charges \subseteq ChargeBody
  /\ Collections \subseteq CollectionBody
  /\ StaleWriters \subseteq {"edit", "meta"}

VARIABLES
  sale,     \* the row of the sale (and of its items)
  ledger,   \* sum of its SalePayment rows
  refunds,  \* sum of its SaleRefund rows
  stock,    \* units its SALE and SALE_CANCELLATION stock movements moved
  outbox,   \* number of outbox rows of each type written for it
  slots,    \* the sale_idempotency table
  pc,       \* where each handler is
  task,     \* the slot and the body each handler works on
  draft,    \* the aggregate each stale writer has read
  answers,  \* history: the successful responses given under each slot
  overwritten \* history: a stale save has taken back what others decided

rowVars == <<sale, ledger, refunds, stock, outbox>>
procVars == <<pc, task, draft>>
vars == <<sale, ledger, refunds, stock, outbox, slots, pc, task, draft, answers,
          overwritten>>

-----------------------------------------------------------------------------
(* Values *)

CancelId == <<"cancel", "sale">>
ChargeIds == {"charge"} \X Keys
PaymentIds == {"payment"} \X Keys
SlotIds == ChargeIds \cup PaymentIds \cup {CancelId}

Bodies(sid) == IF sid \in ChargeIds THEN Charges
               ELSE IF sid \in PaymentIds THEN Collections ELSE Reasons

SaleStatus == {"NONE", "DRAFT", "CONFIRMED", "CANCELED", "DELETED"}
PaymentStatus == {"NONE", "PAID", "PARTIAL", "CREDIT"}
DeliveryStatus == {"PENDING", "SHIPPED", "DELIVERED"}

SaleRow == [status : SaleStatus, channel : {"POS", "ONLINE"},
            delivery : DeliveryStatus, customer : BOOLEAN, items : Nat,
            folio : Nat, total : Nat, paid : Nat, debt : Nat,
            payment : PaymentStatus]

NoSale == [status |-> "NONE", channel |-> "POS", delivery |-> "DELIVERED",
           customer |-> FALSE, items |-> 0, folio |-> 0, total |-> 0,
           paid |-> 0, debt |-> 0, payment |-> "NONE"]

Response == [folio : Nat, paid : Nat, debt : Nat, refunded : Nat]
NoResponse == [folio |-> 0, paid |-> 0, debt |-> 0, refunded |-> 0]

NoBody == "none"
FreeSlot == [status |-> "FREE", body |-> NoBody, response |-> NoResponse]

NoTask == [sid |-> CancelId, body |-> NoBody]

StatusOfPayment(paid, total) ==
  IF paid = total THEN "PAID" ELSE IF paid = 0 THEN "CREDIT" ELSE "PARTIAL"

Least(a, b) == IF a <= b THEN a ELSE b

-----------------------------------------------------------------------------
Init ==
  /\ sale = NoSale
  /\ ledger = 0
  /\ refunds = 0
  /\ stock = [charged |-> 0, returned |-> 0]
  /\ outbox = [confirmed |-> 0, fullyPaid |-> 0, canceled |-> 0]
  /\ slots = [sid \in SlotIds |-> FreeSlot]
  /\ pc = [p \in Procs |-> "idle"]
  /\ task = [p \in Procs |-> NoTask]
  /\ draft = [p \in Procs |-> NoSale]
  /\ answers = {}
  /\ overwritten = FALSE

(* A handler answers, or dies, and forgets what it was doing.              *)
Leave(p) ==
  /\ pc' = [pc EXCEPT ![p] = "idle"]
  /\ task' = [task EXCEPT ![p] = NoTask]
  /\ draft' = [draft EXCEPT ![p] = NoSale]

-----------------------------------------------------------------------------
(* Drafts *)

(* SalesService.openDraft: an empty POS draft, handed over the counter     *)
(* unless the charge says otherwise.                                       *)
OpenDraft ==
  /\ sale.status = "NONE"
  /\ sale' = [NoSale EXCEPT !.status = "DRAFT"]
  /\ UNCHANGED <<ledger, refunds, stock, outbox, slots, procVars, answers>>

(* Sale.ensureDraft.                                                       *)
EditableOnceConfirmed == sale.status \in {"DRAFT", "CONFIRMED"}

Editable == sale.status = "DRAFT"

(* addItem, updateItemQuantity, clearItems, removeItem, the setters of the *)
(* customer, the prices, the discounts and the promotions, when nobody     *)
(* comes between their read and their write; the interrupted ones are      *)
(* LoadForEdit to SaveAggregate below.                                     *)
EditDraft ==
  /\ Editable
  /\ \/ \E q \in Quantities : sale' = [sale EXCEPT !.items = q]
     \/ \E known \in BOOLEAN : sale' = [sale EXCEPT !.customer = known]
  /\ UNCHANGED <<ledger, refunds, stock, outbox, slots, procVars, answers>>

(* deleteDraft and PrismaSaleRepository.delete: the status is read again   *)
(* under the row lock; payments and refunds are deleted with the row.      *)
DeleteDraft ==
  /\ Editable
  /\ sale' = [NoSale EXCEPT !.status = "DELETED"]
  /\ ledger' = 0
  /\ refunds' = 0
  /\ UNCHANGED <<stock, outbox, slots, procVars, answers>>

(* SalesService.confirmBotSale: the chatbot creates and confirms an ONLINE *)
(* sale on credit in one transaction.                                      *)
ConfirmBotSale ==
  /\ sale.status = "NONE"
  /\ \E q \in Quantities \ {0} :
       /\ sale' = [NoSale EXCEPT !.status = "CONFIRMED", !.channel = "ONLINE",
                                 !.delivery = "PENDING", !.customer = TRUE,
                                 !.items = q, !.folio = 1, !.total = q,
                                 !.debt = q, !.payment = "CREDIT"]
       /\ stock' = [stock EXCEPT !.charged = @ + q]
  /\ outbox' = [outbox EXCEPT !.confirmed = @ + 1]
  /\ UNCHANGED <<ledger, refunds, slots, procVars, answers>>

-----------------------------------------------------------------------------
(* Idempotency slots *)

(* The unique index of sale_idempotency on the operation and its key.      *)
SlotNotSucceeded(sid) == slots[sid].status # "SUCCEEDED"

SlotNotInFlight(sid) == slots[sid].status # "IN_FLIGHT"

SlotFree(sid) == slots[sid].status = "FREE"

Bound(sid, body) == sid # CancelId /\ body.bound

(* acquireIdempotency, unbound: the insert commits before the transaction  *)
(* of the request begins, and needs the sale to exist (foreign key).  A    *)
(* slot that is taken and not replayed refuses the request (conflict, in   *)
(* flight), which changes nothing.                                         *)
AcquireSlot(p, sid, body) ==
  /\ pc[p] = "idle"
  /\ ~Bound(sid, body)
  /\ sale.status \notin {"NONE", "DELETED"}
  /\ SlotFree(sid)
  /\ slots' = [slots EXCEPT ![sid] = [status |-> "IN_FLIGHT", body |-> body,
                                      response |-> NoResponse]]
  /\ pc' = [pc EXCEPT ![p] = "acquired"]
  /\ task' = [task EXCEPT ![p] = [sid |-> sid, body |-> body]]
  /\ UNCHANGED <<rowVars, draft, answers>>

(* resolveIdempotencyOutcome, "replay": same key and same request hash as  *)
(* a request that succeeded.                                               *)
Replay(sid, body) ==
  /\ slots[sid].status = "SUCCEEDED"
  /\ slots[sid].body = body
  /\ answers' = answers \cup {[sid |-> sid, response |-> slots[sid].response]}
  /\ UNCHANGED <<rowVars, slots, procVars>>

(* The slot is stamped with the response in the transaction that moves the *)
(* money.                                                                  *)
Stamp(sid, body, response) ==
  /\ slots' = [slots EXCEPT ![sid] = [status |-> "SUCCEEDED", body |-> body,
                                      response |-> response]]
  /\ answers' = answers \cup {[sid |-> sid, response |-> response]}

(* A handler that holds an acquired slot runs its transaction; one bound   *)
(* to a cash session inserts the slot in the same transaction.             *)
Runs(p, sid, body) ==
  IF Bound(sid, body)
  THEN /\ pc[p] = "idle"
       /\ SlotFree(sid)
       /\ UNCHANGED procVars
  ELSE /\ pc[p] = "acquired"
       /\ task[p] = [sid |-> sid, body |-> body]
       /\ Leave(p)

(* Any refusal of a guard, failure of a statement or death of the server   *)
(* after the slot was taken: the transaction rolls back, the slot stays.   *)
Abort(p) ==
  /\ pc[p] # "idle"
  /\ Leave(p)
  /\ UNCHANGED <<rowVars, slots, answers>>

-----------------------------------------------------------------------------
(* Money: each action is one transaction under the lock of the sale's row *)

(* executeChargeDraft: the payment rules.  Only a sale with a customer has *)
(* an address to deliver to.                                               *)
PaymentAccepted(body) ==
  /\ body.delivery => sale.customer
  /\ body.kind = "credit" => body.tender = 0
  /\ body.kind # "cash" => body.tender <= sale.items
  /\ body.tender < sale.items =>
       /\ sale.customer
       /\ body.kind # "credit" => body.kind = "cash" /\ body.tender > 0

(* executeChargeDraft: the status gate, then the payment rules.            *)
Chargeable(body) == sale.status = "DRAFT" /\ PaymentAccepted(body)

(* executeChargeDraft: DRAFT to CONFIRMED, with the stock, the folio, the  *)
(* payment row (of the whole tender, change included), the events and the  *)
(* stamp of the slot.                                                      *)
Charge(p, sid, body) ==
  LET paid == Least(body.tender, sale.items)
      debt == sale.items - paid
  IN
  /\ sid \in ChargeIds
  /\ Chargeable(body)
  /\ Runs(p, sid, body)
  /\ sale' = [sale EXCEPT !.status = "CONFIRMED",
                          !.delivery = IF body.delivery THEN "PENDING" ELSE @,
                          !.folio = @ + 1, !.total = sale.items,
                          !.paid = paid, !.debt = debt,
                          !.payment = StatusOfPayment(paid, sale.items)]
  /\ ledger' = ledger + body.tender
  /\ stock' = [stock EXCEPT !.charged = @ + sale.items]
  /\ outbox' = [outbox EXCEPT !.confirmed = @ + 1,
                              !.fullyPaid = IF debt = 0 THEN @ + 1 ELSE @]
  /\ Stamp(sid, body, [folio |-> sale.folio + 1, paid |-> paid, debt |-> debt,
                       refunded |-> 0])
  /\ UNCHANGED refunds

(* executeAddPayment and persistCollectedPayments: what is already paid is *)
(* the sum of the payment rows, not the column of the sale.                *)
Collectable(amount) ==
  /\ sale.status = "CONFIRMED"
  /\ ledger < sale.total
  /\ ledger + amount <= sale.total

Collect(p, sid, body) ==
  LET paid == ledger + body.amount
      debt == sale.total - paid
  IN
  /\ sid \in PaymentIds
  /\ Collectable(body.amount)
  /\ Runs(p, sid, body)
  /\ sale' = [sale EXCEPT !.paid = paid, !.debt = debt,
                          !.payment = StatusOfPayment(paid, sale.total)]
  /\ ledger' = paid
  /\ outbox' = [outbox EXCEPT !.fullyPaid = IF debt = 0 THEN @ + 1 ELSE @]
  /\ Stamp(sid, body, [folio |-> 0, paid |-> paid, debt |-> debt, refunded |-> 0])
  /\ UNCHANGED <<refunds, stock>>

(* Sale.cancel: when, and how much it gives back.                          *)
Cancelable ==
  /\ sale.status = "CONFIRMED"
  /\ sale.delivery \notin {"SHIPPED", "DELIVERED"}

WholeTender == IF sale.payment = "CREDIT" THEN 0 ELSE ledger

Refundable == IF sale.payment = "CREDIT" THEN 0 ELSE sale.paid

(* cancelSale: the stock journal gives back what the sale consumed, unless *)
(* it already did; the refund rows add up to the amount paid or the        *)
(* transaction fails (buildCancellationRefunds).                           *)
Cancel(p, body) ==
  /\ Cancelable
  /\ Refundable <= ledger
  /\ Runs(p, CancelId, body)
  /\ sale' = [sale EXCEPT !.status = "CANCELED",
                          !.debt = IF sale.payment = "CREDIT" \/ sale.paid = 0
                                   THEN 0 ELSE @]
  /\ refunds' = refunds + Refundable
  /\ stock' = [stock EXCEPT !.returned = IF @ = 0 THEN stock.charged ELSE @]
  /\ outbox' = [outbox EXCEPT !.canceled = @ + 1]
  /\ Stamp(CancelId, body, [NoResponse EXCEPT !.refunded = Refundable])
  /\ UNCHANGED ledger

-----------------------------------------------------------------------------
(* Delivery: conditional updates, one statement each *)

(* PrismaSaleRepository.markSaleDelivered, from the check-in of a stop.    *)
Deliverable == sale.status = "CONFIRMED"

MarkDelivered ==
  /\ Deliverable
  /\ sale' = [sale EXCEPT !.delivery = "DELIVERED"]
  /\ UNCHANGED <<ledger, refunds, stock, outbox, slots, procVars, answers>>

(* ChatbotApiService.setDeliveryMetadata.                                  *)
Ship ==
  /\ sale.status = "CONFIRMED"
  /\ sale.payment = "PAID"
  /\ sale.channel = "ONLINE"
  /\ sale.delivery # "DELIVERED"
  /\ sale' = [sale EXCEPT !.delivery = "SHIPPED"]
  /\ UNCHANGED <<ledger, refunds, stock, outbox, slots, procVars, answers>>

-----------------------------------------------------------------------------
(* Writers that save an aggregate they read earlier *)

(* addItem, updateItemQuantity, clearItems, removeItem: findById and       *)
(* ensureDraft, outside any transaction, and the edit in memory.           *)
LoadForEdit(p) ==
  /\ "edit" \in StaleWriters
  /\ pc[p] = "idle"
  /\ sale.status = "DRAFT"
  /\ \E q \in Quantities : draft' = [draft EXCEPT ![p] = [sale EXCEPT !.items = q]]
  /\ pc' = [pc EXCEPT ![p] = "editing"]
  /\ UNCHANGED <<rowVars, slots, task, answers>>

(* saveDraftItems, first statement of its transaction: the status is read  *)
(* without a lock.                                                         *)
CheckEdit(p) ==
  /\ pc[p] = "editing"
  /\ sale.status = "DRAFT"
  /\ pc' = [pc EXCEPT ![p] = "checked"]
  /\ UNCHANGED <<rowVars, slots, task, draft, answers>>

(* writeImpl: the columns of the aggregate overwrite the row whatever it   *)
(* has become; those a draft leaves undefined (folio, amounts) are kept.   *)
Overwritten(p) ==
  [sale EXCEPT !.status = draft[p].status, !.delivery = draft[p].delivery,
               !.customer = draft[p].customer, !.items = draft[p].items]

(* The copy has gone stale where others decide: the status, the delivery.  *)
TakesBack(p) ==
  draft[p].status # sale.status \/ draft[p].delivery # sale.delivery

Overwrite(p) ==
  /\ sale' = Overwritten(p)
  /\ overwritten' = (overwritten \/ TakesBack(p))

WriteEdit(p) ==
  /\ pc[p] = "checked"
  /\ sale.status # "DELETED"
  /\ Overwrite(p)
  /\ Leave(p)
  /\ UNCHANGED <<ledger, refunds, stock, outbox, slots, answers>>

(* assignSeller, clearSeller and setDueDate, and the setters of a draft    *)
(* other than those of its lines: findById and the refusal of a canceled   *)
(* sale, outside any transaction.                                          *)
LoadForSave(p) ==
  /\ "meta" \in StaleWriters
  /\ pc[p] = "idle"
  /\ sale.status \in {"DRAFT", "CONFIRMED"}
  /\ \/ draft' = [draft EXCEPT ![p] = sale]
     \/ /\ sale.status = "DRAFT"
        /\ \/ \E known \in BOOLEAN :
                 draft' = [draft EXCEPT ![p] = [sale EXCEPT !.customer = known]]
           \/ \E q \in Quantities :
                 draft' = [draft EXCEPT ![p] = [sale EXCEPT !.items = q]]
  /\ pc' = [pc EXCEPT ![p] = "saving"]
  /\ UNCHANGED <<rowVars, slots, task, answers>>

(* PrismaSaleRepository.save: locks the row, refuses to turn it back into  *)
(* a draft or to change the items of one that no longer is, and writes the *)
(* columns of the aggregate.                                               *)
SaveAllowed(p) ==
  /\ sale.status # "DELETED"
  /\ sale.status # "DRAFT" => /\ draft[p].status # "DRAFT"
                              /\ draft[p].items = sale.items

SaveAggregate(p) ==
  /\ pc[p] = "saving"
  /\ SaveAllowed(p)
  /\ Overwrite(p)
  /\ Leave(p)
  /\ UNCHANGED <<ledger, refunds, stock, outbox, slots, answers>>

-----------------------------------------------------------------------------
Money(p, sid, body) ==
  \/ Charge(p, sid, body)
  \/ Collect(p, sid, body)
  \/ sid = CancelId /\ Cancel(p, body)

(* What decides and writes under one lock, or writes nothing of the sale.  *)
Fresh ==
  \/ OpenDraft
  \/ EditDraft
  \/ DeleteDraft
  \/ ConfirmBotSale
  \/ MarkDelivered
  \/ Ship
  \/ \E sid \in SlotIds : \E body \in Bodies(sid) :
       \/ Replay(sid, body)
       \/ \E p \in Procs : AcquireSlot(p, sid, body) \/ Money(p, sid, body)
  \/ \E p \in Procs :
       \/ Abort(p)
       \/ LoadForEdit(p) \/ CheckEdit(p)
       \/ LoadForSave(p)

Next ==
  \/ Fresh /\ UNCHANGED overwritten
  \/ \E p \in Procs : WriteEdit(p) \/ SaveAggregate(p)

Spec == Init /\ [][Next]_vars

-----------------------------------------------------------------------------
(* Properties of every run *)

(* Every table and every handler holds the values its columns can hold.    *)
TypeOK ==
  /\ sale \in SaleRow
  /\ ledger \in Nat
  /\ refunds \in Nat
  /\ stock \in [charged : Nat, returned : Nat]
  /\ outbox \in [confirmed : Nat, fullyPaid : Nat, canceled : Nat]
  /\ DOMAIN slots = SlotIds
  /\ \A sid \in SlotIds :
       /\ slots[sid].status \in {"FREE", "IN_FLIGHT", "SUCCEEDED"}
       /\ slots[sid].response \in Response
       /\ slots[sid].status # "FREE" => slots[sid].body \in Bodies(sid)
  /\ pc \in [Procs -> {"idle", "acquired", "editing", "checked", "saving"}]
  /\ DOMAIN task = Procs
  /\ \A p \in Procs : pc[p] = "acquired" =>
       /\ task[p].sid \in SlotIds
       /\ task[p].body \in Bodies(task[p].sid)
  /\ draft \in [Procs -> SaleRow]
  /\ \A a \in answers : a.sid \in SlotIds /\ a.response \in Response
  /\ overwritten \in BOOLEAN

(* An Idempotency-Key is worth one request: a slot has one holder, which   *)
(* works on the body the slot was taken for, and only while it is in       *)
(* flight (acquireIdempotency; the unique index of sale_idempotency).      *)
SlotDiscipline ==
  \A p \in Procs : pc[p] = "acquired" =>
    /\ slots[task[p].sid].status = "IN_FLIGHT"
    /\ slots[task[p].sid].body = task[p].body
    /\ \A q \in Procs \ {p} : pc[q] = "acquired" => task[q].sid # task[p].sid

(* Every successful answer given under a key is the same answer, whoever   *)
(* retried and however often (resolveIdempotencyOutcome).                  *)
OneAnswerPerKey ==
  \A a \in answers : /\ slots[a.sid].status = "SUCCEEDED"
                     /\ a.response = slots[a.sid].response

(* Whatever the stale writers do to the row, the money of a sale is given  *)
(* back at most once and never exceeds what was received, and one          *)
(* sale.canceled event is written (cancelSale).                            *)
RefundedAtMostOnce ==
  /\ refunds <= ledger
  /\ outbox.canceled <= 1
  /\ slots[CancelId].status # "SUCCEEDED" => refunds = 0 /\ outbox.canceled = 0

(* A key stands for one effect and one answer (cancelSale,                 *)
(* resolveIdempotencyOutcome).                                             *)
OneEffectPerKey == OneAnswerPerKey /\ RefundedAtMostOnce

-----------------------------------------------------------------------------
(* Properties that hold until a stale save takes back a status or a        *)
(* delivery that somebody decided after the copy was read: saves that come *)
(* in between and take back nothing of the kind disturb none of them.  The *)
(* saves that do are the violations further down.                          *)

(* The columns of a confirmed sale agree with its payment rows: a cash     *)
(* tender above the total is change, anything else is paid in full, in     *)
(* part or owed (executeChargeDraft, persistCollectedPayments).            *)
MoneyBalanced ==
  sale.status = "CONFIRMED" =>
    /\ sale.paid + sale.debt = sale.total
    /\ sale.paid = IF ledger <= sale.total THEN ledger ELSE sale.total
    /\ sale.payment = "PAID" <=> sale.debt = 0
    /\ sale.payment = "CREDIT" <=> sale.paid = 0 /\ sale.debt > 0

(* Merchandise leaves the shelves exactly when a sale is confirmed, for    *)
(* the items it sold, and all of it comes back when the sale is canceled.  *)
StockMatchesSale ==
  CASE sale.status = "CONFIRMED" -> /\ stock.charged = sale.items
                                    /\ stock.returned = 0
    [] sale.status = "CANCELED" -> /\ stock.charged = sale.items
                                   /\ stock.returned = stock.charged
    [] OTHER -> stock.charged = 0 /\ stock.returned = 0

(* A canceled sale has given back exactly what it had kept of the money,   *)
(* and no other sale has given anything back.                              *)
RefundsCoverPaid ==
  refunds = IF sale.status = "CANCELED" THEN sale.paid ELSE 0

(* The outbox holds one sale.confirmed, one sale.canceled and one          *)
(* sale.fully_paid event for a sale that is so, whichever handler made it  *)
(* so, and none for one that is not.                                       *)
EventsMatchSale ==
  /\ outbox.confirmed = IF sale.status \in {"CONFIRMED", "CANCELED"} THEN 1 ELSE 0
  /\ outbox.canceled = IF sale.status = "CANCELED" THEN 1 ELSE 0
  /\ outbox.fullyPaid = IF sale.payment = "PAID" THEN 1 ELSE 0

(* Money is never given back for merchandise that went out of the door.    *)
CanceledNeverDelivered ==
  sale.status = "CANCELED" => sale.delivery = "PENDING"

(* The books of the sale: its columns, its payments, its stock movements,  *)
(* its refunds and its events tell the same story after every transaction  *)
(* of every handler, the stale ones included until one of them takes back  *)
(* what others decided (writeImpl).                                        *)
BooksAgree ==
  ~overwritten => /\ MoneyBalanced
                  /\ StockMatchesSale
                  /\ RefundsCoverPaid
                  /\ EventsMatchSale
                  /\ CanceledNeverDelivered

(* A handler that has taken the slot of the cancellation never finds the   *)
(* sale canceled: the branch of cancelSale that answers without canceling  *)
(* cannot be reached, and the slot tells whether the sale is canceled.     *)
CancelSlotTellsTruth ==
  ~overwritten => (slots[CancelId].status = "SUCCEEDED" <=> sale.status = "CANCELED")

(* A confirmed sale keeps its items, its customer, its folio and its total *)
(* for ever, its debt never grows, and the only way out of CONFIRMED is    *)
(* the cancellation: no copy read before the charge gets its lines or its  *)
(* customer in (saveDraftItems and save, writeImpl), unless it takes back  *)
(* the charge itself.                                                      *)
ConfirmedIsBinding ==
  [][sale.status = "CONFIRMED" /\ ~overwritten' =>
       /\ sale'.status \in {"CONFIRMED", "CANCELED"}
       /\ sale'.items = sale.items
       /\ sale'.customer = sale.customer
       /\ sale'.folio = sale.folio
       /\ sale'.total = sale.total
       /\ sale'.debt <= sale.debt]_vars

(* A canceled sale stays as it is, unless the cancellation is taken back.  *)
CanceledIsFinal ==
  [][sale.status = "CANCELED" /\ ~overwritten' => sale' = sale]_vars

-----------------------------------------------------------------------------
(* The books of a sale, table against table, in each stage of its life:    *)
(* the inductive invariant behind the properties above.                    *)
Untouched ==
  /\ ledger = 0 /\ refunds = 0
  /\ stock = [charged |-> 0, returned |-> 0]
  /\ outbox = [confirmed |-> 0, fullyPaid |-> 0, canceled |-> 0]
  /\ sale.folio = 0 /\ sale.total = 0 /\ sale.paid = 0 /\ sale.debt = 0
  /\ sale.payment = "NONE"
  /\ slots[CancelId].status # "SUCCEEDED"

Sold ==
  /\ sale.total = sale.items
  /\ sale.paid = Least(ledger, sale.total)
  /\ sale.payment = StatusOfPayment(sale.paid, sale.total)
  /\ stock.charged = sale.items
  /\ outbox.confirmed = 1
  /\ outbox.fullyPaid = IF sale.payment = "PAID" THEN 1 ELSE 0

Standing ==
  /\ sale.debt = sale.total - sale.paid
  /\ refunds = 0
  /\ stock.returned = 0
  /\ outbox.canceled = 0
  /\ slots[CancelId].status # "SUCCEEDED"

Undone ==
  /\ sale.delivery = "PENDING"
  /\ refunds = sale.paid
  /\ stock.returned = stock.charged
  /\ outbox.canceled = 1
  /\ slots[CancelId].status = "SUCCEEDED"

Books ==
  /\ sale.status \in {"NONE", "DRAFT", "DELETED"} => Untouched
  /\ sale.status \in {"CONFIRMED", "CANCELED"} => Sold
  /\ sale.status = "CONFIRMED" => Standing
  /\ sale.status = "CANCELED" => Undone

(* An edit of the lines works on a draft, and a copy of a confirmed sale   *)
(* has the lines and the customer that the sale is going to keep.          *)
EditsHoldDrafts ==
  \A p \in Procs : pc[p] \in {"editing", "checked"} => draft[p].status = "DRAFT"

CopiesAgree ==
  \A p \in Procs : pc[p] = "saving" /\ draft[p].status # "DRAFT" =>
    /\ draft[p].status = "CONFIRMED"
    /\ sale.status \in {"CONFIRMED", "CANCELED"}
    /\ draft[p].items = sale.items
    /\ draft[p].customer = sale.customer

BooksInv == EditsHoldDrafts /\ (~overwritten => Books /\ CopiesAgree)

-----------------------------------------------------------------------------
(* What the sale promises: the keys that had their effect are those whose  *)
(* slot has been stamped.                                                  *)
Phase ==
  CASE sale.status = "NONE" -> "none"
    [] sale.status = "DRAFT" -> "open"
    [] sale.status = "CONFIRMED" -> "agreed"
    [] sale.status = "CANCELED" -> "undone"
    [] sale.status = "DELETED" -> "gone"

Promise ==
  INSTANCE SalePromise WITH
    Keys <- ChargeIds \cup PaymentIds,
    CancelKey <- CancelId,
    status <- Phase,
    price <- sale.total,
    received <- ledger,
    returned <- refunds,
    goods <- stock.charged - stock.returned,
    used <- {sid \in SlotIds : slots[sid].status = "SUCCEEDED"},
    void <- overwritten

(* Handlers, slots and transactions implement the promise: seen from the   *)
(* customer and the books, every step of every handler is one indivisible  *)
(* request or nothing, until a stale save takes back what others decided.  *)
PromiseKept == Promise!Spec

-----------------------------------------------------------------------------
(* Statements of the documentation that the code does not keep *)

(* "no sale field may change" once a sale is no longer a draft: no write   *)
(* of a draft edit (saveDraftItems) reaches a sale that has been charged.  *)
ConfirmedStaysOutOfDraft ==
  [][sale.status = "CONFIRMED" => sale'.status # "DRAFT"]_vars

(* "A canceled sale stays readable but is frozen for edits."               *)
CanceledIsFrozen ==
  [][sale.status = "CANCELED" => sale' = sale]_vars

(* "The system MUST allow cancellation of a CONFIRMED sale that is not     *)
(* SHIPPED or DELIVERED": the slot of its cancellation is free, or some    *)
(* handler is at work with it.                                             *)
CancellationStaysPossible ==
  Cancelable =>
    \/ slots[CancelId].status = "FREE"
    \/ \E p \in Procs : pc[p] = "acquired" /\ task[p].sid = CancelId
=============================================================================
