------------------------------- MODULE Receipts -------------------------------
(***************************************************************************)
(* The transfer receipts of one sale.  The chatbot uploads a file under an *)
(* idempotency key: the file goes to the object storage first, the row     *)
(* that points at it is inserted afterwards, and what no row points at is  *)
(* dropped again.  A reviewer confirms a receipt, which pays the sale, or  *)
(* rejects it.  Five years later a daily run deletes the files in batches; *)
(* what it cannot delete must not hold up the rest.                        *)
(*                                                                         *)
(* Storage and database fail, answers to a commit get lost, servers die:   *)
(* every such fault counts against MaxLosses.                              *)
(***************************************************************************)
EXTENDS Naturals, FiniteSets, Functions

CONSTANTS
  Uploads,     \* uploads, each with the row and the object keys it makes up
  MediaKeys,   \* X-Idempotency-Key values
  Files,       \* contents of files
  Pdfs,        \* those that get a preview of their own
  Checkers,
  PayKeys,     \* Idempotency-Key values of payments
  PayAmounts,  \* what reviewers and cashiers enter
  SaleTotal,
  Undeletable, \* uploads whose objects the storage never deletes
  PurgeSize,
  MaxBatches,  \* of one run
  MaxLosses,   \* bound on losses
  MaxAttempts, \* cap on the count of failed attempts, above what losses can reach
  Cashier,     \* collects payments besides
  Nothing

Payment == [by : Checkers \cup {Cashier}, amount : PayAmounts, receipt : Uploads \cup {Nothing}]

ASSUME ReceiptsAssumption ==
  /\ Pdfs \subseteq Files /\ Undeletable \subseteq Uploads
  /\ PayAmounts \subseteq Nat \ {0} /\ SaleTotal \in Nat
  /\ PurgeSize \in Nat \ {0} /\ MaxBatches \in Nat \ {0} /\ MaxLosses \in Nat
  /\ MaxAttempts \in Nat /\ MaxLosses < MaxAttempts
  /\ Cashier \notin Checkers /\ Nothing \notin Uploads \cup MediaKeys \cup PayKeys
  /\ Nothing \notin Payment

VARIABLES
  receipts,  \* receipt_evidence, by the upload that inserts the row
  objects,   \* keys in the private bucket
  upload,    \* what each upload is doing
  saleOpen,  \* the sale is CONFIRMED
  debt,
  paid,      \* the payment under each key
  review,    \* what each reviewer is doing
  purge,     \* the run of receipt-retention-purge
  cutoff,    \* receipts up to this one are older than the retention
  losses

uploadVars == <<receipts, objects, upload>>
saleVars == <<saleOpen, debt, paid>>
purgeVars == <<purge, cutoff>>
receiptVars == <<uploadVars, saleVars, review, purgeVars, losses>>

NoReceipt == [status |-> "NONE", key |-> Nothing, file |-> Nothing, objects |-> {}, purged |-> FALSE,
              review |-> Nothing, born |-> 0, attempts |-> 0]
NotCalled == [phase |-> "idle", key |-> Nothing, file |-> Nothing, preview |-> FALSE, answer |-> Nothing]
NoReview == [phase |-> "idle", receipt |-> Nothing, amount |-> 0, key |-> Nothing]
NoRun == [phase |-> "rest", cutoff |-> 0, batches |-> 0, full |-> FALSE, todo |-> {}, failed |-> {}]

ReceiptsInit ==
  /\ receipts = [u \in Uploads |-> NoReceipt]
  /\ objects = {}
  /\ upload = [u \in Uploads |-> NotCalled]
  /\ saleOpen = TRUE /\ debt = SaleTotal
  /\ paid = [k \in PayKeys |-> Nothing]
  /\ review = [h \in Checkers |-> NoReview]
  /\ purge = NoRun /\ cutoff = 0 /\ losses = 0

Rows == {u \in Uploads : receipts[u] # NoReceipt}
Under(key) == {u \in Rows : receipts[u].key = key}

Lose == losses < MaxLosses /\ losses' = losses + 1

-----------------------------------------------------------------------------
(* POST /chatbot-api/sales/:saleId/receipt *)

HasDebt == saleOpen /\ debt > 0

Becomes(u, phase) == upload' = [upload EXCEPT ![u].phase = phase]
Returns(u, answer) == upload' = [upload EXCEPT ![u].phase = "done", ![u].answer = answer]

(* replay: the row of the key, if it is of the same bytes.                 *)
WinnerOfAnyFile(key, file) == CHOOSE u \in Under(key) \cup {Nothing} : Under(key) # {} => u # Nothing

Winner(key, file) ==
  CHOOSE u \in Under(key) \cup {Nothing} :
    IF \E v \in Under(key) : receipts[v].file = file THEN u # Nothing ELSE u = Nothing

Upload(u, key, file) ==
  /\ upload[u].phase = "idle"
  /\ Under(key) = {} => HasDebt
  /\ upload' = [upload EXCEPT ![u] =
       [phase |-> IF Under(key) = {} THEN "put" ELSE "done", key |-> key, file |-> file,
        preview |-> FALSE, answer |-> Winner(key, file)]]
  /\ UNCHANGED <<receipts, objects, saleVars, review, purgeVars, losses>>

Original(u) == <<u, "original">>
Preview(u) == <<u, "preview">>

StoreOriginal(u) ==
  /\ upload[u].phase = "put"
  /\ objects' = objects \cup {Original(u)}
  /\ Becomes(u, IF upload[u].file \in Pdfs THEN "preview" ELSE "insert")
  /\ UNCHANGED <<receipts, saleVars, review, purgeVars, losses>>

StoreFails(u) ==
  /\ upload[u].phase = "put" /\ Lose
  /\ objects' \in {objects, objects \cup {Original(u)}}
  /\ Returns(u, Nothing)
  /\ UNCHANGED <<receipts, saleVars, review, purgeVars>>

(* Without its preview a receipt is kept all the same.                     *)
StorePreview(u) ==
  /\ upload[u].phase = "preview"
  /\ \/ /\ upload' = [upload EXCEPT ![u].phase = "insert", ![u].preview = TRUE]
        /\ objects' = objects \cup {Preview(u)}
        /\ UNCHANGED losses
     \/ Lose /\ Becomes(u, "insert") /\ UNCHANGED objects
  /\ UNCHANGED <<receipts, saleVars, review, purgeVars>>

MadeBoth(u) == {Original(u), Preview(u)}

Made(u) == {Original(u)} \cup IF upload[u].preview THEN {Preview(u)} ELSE {}

ReceiptRow(u) == [NoReceipt EXCEPT !.status = "PENDING", !.key = upload[u].key, !.file = upload[u].file,
                            !.objects = Made(u), !.born = Cardinality(Rows) + 1]

(* createWithReviewRequest: committed, or committed without an answer.     *)
InsertRow(u) ==
  /\ upload[u].phase = "insert" /\ Under(upload[u].key) = {}
  /\ receipts' = [receipts EXCEPT ![u] = ReceiptRow(u)]
  /\ \/ Returns(u, u) /\ UNCHANGED losses
     \/ Lose /\ Becomes(u, "failed")
  /\ UNCHANGED <<objects, saleVars, review, purgeVars>>

(* The unique index refuses the row, or the transaction fails.             *)
InsertRefused(u) ==
  /\ upload[u].phase = "insert"
  /\ \/ Under(upload[u].key) # {} /\ Becomes(u, "lost") /\ UNCHANGED losses
     \/ Lose /\ Becomes(u, "failed")
  /\ UNCHANGED <<receipts, objects, saleVars, review, purgeVars>>

(* discardObjects, and the answer of the winner of the key.                *)
Discard(u) ==
  /\ upload[u].phase \in {"lost", "failed"}
  /\ \/ objects' = (IF u \in Undeletable THEN objects ELSE objects \ Made(u)) /\ UNCHANGED losses
     \/ Lose /\ \E kept \in SUBSET Made(u) : objects' = objects \ (Made(u) \ kept)
  /\ Returns(u, IF upload[u].phase = "lost" THEN Winner(upload[u].key, upload[u].file) ELSE Nothing)
  /\ UNCHANGED <<receipts, saleVars, review, purgeVars>>

UploadDies(u) ==
  /\ upload[u].phase \notin {"idle", "done"} /\ Lose
  /\ Returns(u, Nothing)
  /\ UNCHANGED <<receipts, objects, saleVars, review, purgeVars>>

(* attachLegacyUrl: no key, and nothing stored.                            *)
AttachLegacy(u) ==
  /\ upload[u].phase = "idle" /\ HasDebt
  /\ receipts' = [receipts EXCEPT ![u] =
       [NoReceipt EXCEPT !.status = "PENDING", !.born = Cardinality(Rows) + 1]]
  /\ Returns(u, u)
  /\ UNCHANGED <<objects, saleVars, review, purgeVars, losses>>

-----------------------------------------------------------------------------
(* The reviewers, and the sale *)

Rests(h) == review' = [review EXCEPT ![h] = NoReview]

(* loadActionableReceipt; a confirmation asks ensureSaleReviewable too.    *)
Reads(h, task) ==
  /\ review[h] = NoReview /\ receipts[task.receipt].status = "PENDING"
  /\ review' = [review EXCEPT ![h] = task]
  /\ UNCHANGED <<uploadVars, saleVars, purgeVars, losses>>

ReadToReject(h, u) == Reads(h, [NoReview EXCEPT !.phase = "reject", !.receipt = u])

ReadToConfirm(h, u, amount, key) ==
  /\ HasDebt
  /\ Reads(h, [phase |-> "confirm", receipt |-> u, amount |-> amount, key |-> key])

(* The condition of markConfirmed and markRejected.                        *)
ActionableAsRead(u) == TRUE

Actionable(u) == receipts[u].status = "PENDING"

(* addPayment under an ambient transaction: a payment, or the replay of    *)
(* the one that the same person made under the key.                        *)
Pays(key, by, amount, u) ==
  \/ /\ paid[key] = Nothing /\ saleOpen /\ amount <= debt
     /\ paid' = [paid EXCEPT ![key] = [by |-> by, amount |-> amount, receipt |-> u]]
     /\ debt' = debt - amount
  \/ /\ paid[key] # Nothing /\ paid[key].by = by /\ paid[key].amount = amount
     /\ UNCHANGED <<paid, debt>>

ConfirmReceipt(h) ==
  LET r == review[h] IN
  /\ r.phase = "confirm" /\ Actionable(r.receipt)
  /\ Pays(r.key, h, r.amount, r.receipt)
  /\ receipts' = [receipts EXCEPT ![r.receipt].status = "CONFIRMED",
                                  ![r.receipt].review = [by |-> h, amount |-> r.amount, key |-> r.key]]
  /\ Rests(h)
  /\ UNCHANGED <<objects, upload, saleOpen, purgeVars, losses>>

RejectReceipt(h) ==
  /\ review[h].phase = "reject" /\ Actionable(review[h].receipt)
  /\ receipts' = [receipts EXCEPT ![review[h].receipt].status = "REJECTED"]
  /\ Rests(h)
  /\ UNCHANGED <<objects, upload, saleVars, purgeVars, losses>>

(* Refused, failed or dead: nothing is committed.                          *)
ReviewFails(h) ==
  /\ review[h].phase # "idle" /\ Rests(h)
  /\ UNCHANGED <<uploadVars, saleVars, purgeVars, losses>>

CollectElsewhere(key, amount) ==
  /\ paid[key] = Nothing /\ Pays(key, Cashier, amount, Nothing)
  /\ UNCHANGED <<uploadVars, saleOpen, review, purgeVars, losses>>

CancelSale ==
  /\ saleOpen /\ saleOpen' = FALSE
  /\ UNCHANGED <<uploadVars, debt, paid, review, purgeVars, losses>>

-----------------------------------------------------------------------------
(* receipt-retention-purge *)

(* Five years have passed for one receipt more.                            *)
Age ==
  /\ cutoff < Cardinality(Rows) /\ cutoff' = cutoff + 1
  /\ UNCHANGED <<uploadVars, saleVars, review, purge, losses>>

StartRun ==
  /\ purge.phase = "rest"
  /\ purge' = [NoRun EXCEPT !.phase = "scan", !.cutoff = cutoff]
  /\ UNCHANGED <<uploadVars, saleVars, review, cutoff, losses>>

Candidates ==
  {u \in Rows : /\ ~receipts[u].purged /\ receipts[u].objects # {}
                /\ receipts[u].born <= purge.cutoff
                /\ u \notin purge.failed}

(* ORDER BY purgeAttempts, createdAt.                                      *)
OlderFirst(u, v) == receipts[u].born <= receipts[v].born

TriedLess(u, v) ==
  \/ receipts[u].attempts < receipts[v].attempts
  \/ receipts[u].attempts = receipts[v].attempts /\ receipts[u].born <= receipts[v].born

IsBatch(B) ==
  /\ Cardinality(B) <= PurgeSize
  /\ B = Candidates \/ Cardinality(B) = PurgeSize
  /\ \A u \in B, v \in Candidates \ B : TriedLess(u, v)

ScanReceipts ==
  /\ purge.phase = "scan"
  /\ \E batch \in SUBSET Candidates :
       /\ IsBatch(batch)
       /\ purge' = [purge EXCEPT !.phase = "work", !.todo = batch, !.batches = @ + 1,
                                 !.full = Cardinality(batch) = PurgeSize]
  /\ UNCHANGED <<uploadVars, saleVars, review, cutoff, losses>>

ToPurge(u) == purge.phase = "work" /\ u \in purge.todo /\ \A v \in purge.todo : TriedLess(u, v)

(* Every key of the row is deleted ...                                     *)
RemoveObjects(u) ==
  /\ ToPurge(u) /\ u \notin Undeletable
  /\ objects' = objects \ receipts[u].objects
  /\ purge' = [purge EXCEPT !.phase = "mark"]
  /\ UNCHANGED <<receipts, upload, saleVars, review, cutoff, losses>>

(* ... then the row is marked.                                             *)
MarkPurged(u) ==
  /\ purge.phase = "mark" /\ u \in purge.todo /\ \A v \in purge.todo : TriedLess(u, v)
  /\ receipts' = [receipts EXCEPT ![u].purged = TRUE]
  /\ purge' = [purge EXCEPT !.phase = "work", !.todo = @ \ {u}]
  /\ UNCHANGED <<objects, upload, saleVars, review, cutoff, losses>>

(* recordFailure: some keys may be gone already.                           *)
RemoveFails(u) ==
  /\ ToPurge(u)
  /\ \/ u \in Undeletable /\ UNCHANGED <<objects, losses>>
     \/ Lose /\ \E kept \in SUBSET receipts[u].objects : objects' = objects \ (receipts[u].objects \ kept)
  /\ receipts' = [receipts EXCEPT ![u].attempts = IF @ < MaxAttempts THEN @ + 1 ELSE @]
  /\ purge' = [purge EXCEPT !.todo = @ \ {u}, !.failed = @ \cup {u}]
  /\ UNCHANGED <<upload, saleVars, review, cutoff>>

EndBatch ==
  /\ purge.phase = "work" /\ purge.todo = {}
  /\ purge' = IF purge.full /\ purge.batches < MaxBatches
              THEN [purge EXCEPT !.phase = "scan"] ELSE NoRun
  /\ UNCHANGED <<uploadVars, saleVars, review, cutoff, losses>>

(* The server dies: the step is tried again, or the run is given up.       *)
PurgeDies ==
  /\ purge.phase \in {"work", "mark"} /\ Lose
  /\ purge' \in {NoRun, [purge EXCEPT !.phase = "scan", !.todo = {}, !.batches = @ - 1]}
  /\ UNCHANGED <<uploadVars, saleVars, review, cutoff>>

PurgeStep ==
  \/ StartRun \/ ScanReceipts \/ EndBatch
  \/ \E u \in Uploads : RemoveObjects(u) \/ MarkPurged(u) \/ (u \in Undeletable /\ RemoveFails(u))

-----------------------------------------------------------------------------
ReceiptsNext ==
  \/ \E u \in Uploads : \/ \E key \in MediaKeys, file \in Files : Upload(u, key, file)
                        \/ StoreOriginal(u) \/ StoreFails(u) \/ StorePreview(u)
                        \/ InsertRow(u) \/ InsertRefused(u) \/ Discard(u) \/ UploadDies(u)
                        \/ AttachLegacy(u)
                        \/ RemoveFails(u)
  \/ \E h \in Checkers : \/ \E u \in Uploads :
                               \/ ReadToReject(h, u)
                               \/ \E amount \in PayAmounts, key \in PayKeys :
                                    ReadToConfirm(h, u, amount, key)
                          \/ ConfirmReceipt(h) \/ RejectReceipt(h) \/ ReviewFails(h)
  \/ \E key \in PayKeys, amount \in PayAmounts : CollectElsewhere(key, amount)
  \/ CancelSale
  \/ Age \/ PurgeStep \/ PurgeDies

ReceiptsSpec ==
  /\ ReceiptsInit /\ [][ReceiptsNext]_receiptVars
  /\ WF_receiptVars(PurgeStep)

-----------------------------------------------------------------------------
(* However often a key is sent, concurrently, again after an error, with   *)
(* another file: it has one row, and whoever is answered is told of the    *)
(* row of his key that holds the file he sent (findByKey, replay).         *)
AnsweredWithOwnFile ==
  /\ \A u, v \in Rows : receipts[u].key # Nothing /\ receipts[u].key = receipts[v].key => u = v
  /\ \A u \in Uploads : upload[u].key # Nothing /\ upload[u].answer # Nothing =>
       LET row == receipts[upload[u].answer] IN
       row.key = upload[u].key /\ row.file = upload[u].file

(* However many reviewers work on a receipt, it pays the sale once, and    *)
(* only when it is confirmed; what a confirmation reports was paid, by the *)
(* one who confirmed; and payments and debt make up the total.             *)
PaidOncePerReceipt ==
  LET Used == {k \in PayKeys : paid[k] # Nothing}
      For(u) == {k \in Used : paid[k].receipt = u}
  IN /\ debt + SumFunction([k \in Used |-> paid[k].amount]) = SaleTotal
     /\ \A u \in Uploads :
          /\ Cardinality(For(u)) <= 1
          /\ For(u) # {} => receipts[u].status = "CONFIRMED"
          /\ receipts[u].status = "CONFIRMED" =>
               LET r == receipts[u].review IN
               r.key \in Used /\ paid[r.key].by = r.by /\ paid[r.key].amount = r.amount

(* A receipt whose time has come is purged, and nothing of it is left in   *)
(* the bucket, whatever fails meanwhile and whatever other receipts the    *)
(* storage never lets go of (purgeBatch, recordFailure).                   *)
Kept(u) == receipts[u].objects # {} /\ ~receipts[u].purged

DueIsPurged ==
  \A u \in Uploads \ Undeletable :
    Kept(u) /\ receipts[u].born <= cutoff
      ~> receipts[u].purged /\ receipts[u].objects \cap objects = {}

(* Every byte of a receipt is stored until it is due, whatever other       *)
(* uploads, reviews and purges do (removeObjects, discardObjects).  Only   *)
(* an upload that ends without hearing that its row was committed may take *)
(* its objects with it; a replay still returns that row: AnsweredIsStored. *)
Unheard(u) == upload[u].phase = "done" /\ upload[u].answer = Nothing

StoredUntilDue ==
  \A u \in Uploads :
    receipts[u].born > cutoff /\ ~Unheard(u) => receipts[u].objects \subseteq objects

(* "No row points at our objects any more: drop them", and "a retry still  *)
(* returns its receipt": whoever is answered with a row, by its upload or  *)
(* by a replay, has its bytes stored until it is due.                      *)
AnsweredIsStored ==
  \A u \in Uploads : upload[u].answer # Nothing =>
    LET row == receipts[upload[u].answer] IN
    row.born > cutoff => row.objects \subseteq objects
=============================================================================
