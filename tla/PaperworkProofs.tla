--------------------------- MODULE PaperworkProofs ---------------------------
(***************************************************************************)
(* What the store answers for, line by line: its receipts, its decisions   *)
(* and its purchase orders, for any number of rows, keys, people and       *)
(* requests.                                                               *)
(*                                                                         *)
(* Receipts: an upload that is on its way has no row and loses no object   *)
(* (UploadAt); the purge only works on what is due (PurgeDue); payments    *)
(* and debt make up the total whatever key they came under (PaidAt).       *)
(*                                                                         *)
(* Decisions: what a handler read before it writes still stands (Sees),    *)
(* because rows are never taken back (RowsStay, ChecksStay) and because    *)
(* whoever writes a postal code holds its lock (ZipStays, LocksApart).     *)
(*                                                                         *)
(* Purchase orders: a row changes only under its lock and with a new       *)
(* version, so that versions stand for contents (Remembers) and two        *)
(* commands never hold one row (Apart); a supplier that is being removed   *)
(* is locked, and a command that refers an order to it would have to lock  *)
(* it (Holds).  OnlyOneMoves, OrderWritten and SupplierWritten say what    *)
(* keeps the invariant whatever the command is; each action is an instance.*)
(* And a command takes effect once: EffectInv says that a transaction has  *)
(* its key to itself and finds no receipt under it, so that its entry is   *)
(* the first of the key and the next of the row it writes.                 *)
(***************************************************************************)
EXTENDS Receipts, HumanDecisions, Procurement, SumProofs

-----------------------------------------------------------------------------
(* Receipts *)

ReceiptRows ==
  [status : {"NONE", "PENDING", "CONFIRMED", "REJECTED"}, key : MediaKeys \cup {Nothing},
   file : Files \cup {Nothing}, objects : SUBSET (Uploads \X {"original", "preview"}),
   purged : BOOLEAN,
   review : {Nothing} \cup [by : Checkers, amount : PayAmounts, key : PayKeys],
   born : Nat, attempts : Nat]

UploadCalls ==
  [phase : {"idle", "put", "preview", "insert", "lost", "failed", "done"},
   key : MediaKeys \cup {Nothing}, file : Files \cup {Nothing}, preview : BOOLEAN,
   answer : Uploads \cup {Nothing}]

ReviewTasks ==
  {NoReview} \cup [phase : {"reject"}, receipt : Uploads, amount : {0}, key : {Nothing}]
             \cup [phase : {"confirm"}, receipt : Uploads, amount : PayAmounts, key : PayKeys]

(* What is on its way has no row yet, and everything of it is stored; what *)
(* was answered is a row of the same key and file.                         *)
UploadAt(u) ==
  LET call == upload[u] IN
  /\ call.phase = "idle" => call.key = Nothing
  /\ call.phase \in {"idle", "put", "preview", "insert", "lost"} => receipts[u] = NoReceipt
  /\ call.phase \in {"put", "preview", "insert", "lost", "failed"} => call.key \in MediaKeys
  /\ call.phase # "done" => call.answer = Nothing
  /\ call.phase = "put" => Made(u) = {Original(u)}
  /\ call.phase = "preview" => Made(u) = {Original(u)} /\ Original(u) \in objects
  /\ call.phase = "insert" => Made(u) \subseteq objects
  /\ call.key # Nothing /\ call.answer # Nothing =>
       receipts[call.answer].key = call.key /\ receipts[call.answer].file = call.file
  /\ receipts[u].born > cutoff /\ ~(call.phase = "done" /\ call.answer = Nothing) =>
       receipts[u].objects \subseteq objects

RowOf(u) ==
  /\ receipts[u] # NoReceipt => receipts[u].status # "NONE"
  /\ receipts[u].objects \subseteq MadeBoth(u)

OneRowPerKey ==
  \A u, v \in Rows : receipts[u].key # Nothing /\ receipts[u].key = receipts[v].key => u = v

(* What a run works on is due.                                             *)
PurgeDue ==
  /\ purge.phase # "rest" => purge.cutoff <= cutoff
  /\ \A u \in purge.todo : u \in Rows /\ receipts[u].born <= cutoff

Used == {k \in PayKeys : paid[k] # Nothing}
PaidSum == SumFunction([k \in Used |-> paid[k].amount])

(* What a receipt has to do with the payments.                             *)
PaidAt(u) ==
  /\ \A k, l \in Used : paid[k].receipt = u /\ paid[l].receipt = u => k = l
  /\ \A k \in Used : paid[k].receipt = u => receipts[u].status = "CONFIRMED"
  /\ receipts[u].status = "CONFIRMED" =>
       LET r == receipts[u].review IN
       r.key \in Used /\ paid[r.key].by = r.by /\ paid[r.key].amount = r.amount

ReceiptsTyped ==
  /\ receipts \in [Uploads -> ReceiptRows]
  /\ upload \in [Uploads -> UploadCalls]
  /\ paid \in [PayKeys -> Payment \cup {Nothing}]
  /\ review \in [Checkers -> ReviewTasks]
  /\ purge = [phase |-> purge.phase, cutoff |-> purge.cutoff, batches |-> purge.batches,
              full |-> purge.full, todo |-> purge.todo, failed |-> purge.failed]
  /\ purge.cutoff \in Nat /\ cutoff \in Nat /\ debt \in Nat
  /\ IsFiniteSet(Rows) /\ IsFiniteSet(Used)

ReceiptsInv ==
  /\ ReceiptsTyped
  /\ \A u \in Uploads : UploadAt(u) /\ RowOf(u) /\ PaidAt(u)
  /\ OneRowPerKey /\ PurgeDue
  /\ debt + PaidSum = SaleTotal

-----------------------------------------------------------------------------
LEMMA MadeIsOwn ==
  /\ \A u : Made(u) \subseteq MadeBoth(u)
  /\ \A u, v : u # v => MadeBoth(u) \cap MadeBoth(v) = {}
BY DEF Made, MadeBoth, Original, Preview

(* A row is there when it has a status.                                    *)
LEMMA RowThere ==
  ASSUME ReceiptsInv, NEW u \in Uploads
  PROVE  /\ receipts[u] \in ReceiptRows
         /\ u \in Rows <=> receipts[u] # NoReceipt
         /\ u \in Rows <=> receipts[u].status # "NONE"
BY DEF ReceiptsInv, ReceiptsTyped, RowOf, Rows, NoReceipt

(* Steps that leave the key, the bytes and the age of every row alone, and *)
(* take only what is due.                                                  *)
RowsKeep ==
  \A u \in Uploads :
    /\ receipts'[u] # NoReceipt <=> receipts[u] # NoReceipt
    /\ receipts'[u].key = receipts[u].key /\ receipts'[u].file = receipts[u].file
    /\ receipts'[u].objects = receipts[u].objects /\ receipts'[u].born = receipts[u].born

LEMMA UploadsKept ==
  ASSUME ReceiptsInv, ReceiptsTyped', RowsKeep, upload' = upload, cutoff <= cutoff',
         \A u \in Uploads :
           receipts[u] = NoReceipt \/ receipts[u].born > cutoff' =>
             \A o \in MadeBoth(u) : o \in objects => o \in objects'
  PROVE  /\ \A u \in Uploads : UploadAt(u)'
         /\ OneRowPerKey' /\ Rows' = Rows
<1>1. Rows' = Rows
  BY DEF RowsKeep, Rows
<1>2. OneRowPerKey'
  BY <1>1 DEF ReceiptsInv, OneRowPerKey, RowsKeep, Rows
<1>3. ASSUME NEW u \in Uploads PROVE UploadAt(u)'
  <2> DEFINE call == upload[u]
  <2>1. UploadAt(u) /\ RowOf(u) /\ call \in UploadCalls /\ Made(u)' = Made(u)
        /\ Made(u) \subseteq MadeBoth(u) /\ Original(u) \in MadeBoth(u)
    BY MadeIsOwn DEF ReceiptsInv, ReceiptsTyped, Made, MadeBoth
  <2>2. call.phase \in {"preview", "insert"} => \A o \in MadeBoth(u) : o \in objects => o \in objects'
    BY <2>1 DEF UploadAt
  <2>3. call.phase = "preview" => Original(u) \in objects'
    BY <2>1, <2>2 DEF UploadAt
  <2>4. call.phase = "insert" => Made(u) \subseteq objects'
    BY <2>1, <2>2 DEF UploadAt
  <2>5. call.key # Nothing /\ call.answer # Nothing =>
          receipts'[call.answer].key = call.key /\ receipts'[call.answer].file = call.file
    BY <2>1 DEF UploadAt, RowsKeep, UploadCalls
  <2>6. receipts'[u].born > cutoff' /\ ~(call.phase = "done" /\ call.answer = Nothing) =>
          receipts'[u].objects \subseteq objects'
    <3>1. SUFFICES ASSUME receipts'[u].born > cutoff', ~(call.phase = "done" /\ call.answer = Nothing)
                   PROVE  receipts'[u].objects \subseteq objects'
      OBVIOUS
    <3>2. receipts[u].born \in Nat /\ receipts'[u].born = receipts[u].born /\ cutoff \in Nat /\ cutoff' \in Nat
      BY DEF ReceiptsInv, ReceiptsTyped, ReceiptRows, RowsKeep
    <3>3. receipts[u].objects \subseteq objects
      BY <2>1, <3>1, <3>2 DEF UploadAt
    <3> QED
      BY <2>1, <3>1, <3>2, <3>3 DEF RowOf, RowsKeep
  <2>7. call.phase \in {"idle", "put", "preview", "insert", "lost"} => receipts'[u] = NoReceipt
    BY <2>1 DEF UploadAt, RowsKeep
  <2> QED
    BY <2>1, <2>3, <2>4, <2>5, <2>6, <2>7 DEF UploadAt
<1> QED
  BY <1>1, <1>2, <1>3

(* Steps that leave the payments and the confirmations alone.              *)
LEMMA MoneyKept ==
  ASSUME ReceiptsInv, paid' = paid, debt' = debt,
         \A u \in Uploads : /\ receipts'[u].status = "CONFIRMED" <=> receipts[u].status = "CONFIRMED"
                            /\ receipts'[u].review = receipts[u].review
  PROVE  /\ \A u \in Uploads : PaidAt(u)'
         /\ Used' = Used /\ (debt + PaidSum = SaleTotal)'
<1>1. Used' = Used
  BY DEF Used
<1>2. PaidSum' = PaidSum
  BY <1>1 DEF PaidSum
<1> QED
  BY <1>1, <1>2 DEF ReceiptsInv, PaidAt

(* A step of an upload without a row.                                      *)
LEMMA UploadMoves ==
  ASSUME ReceiptsInv, NEW u \in Uploads, NEW call \in UploadCalls, upload' = [upload EXCEPT ![u] = call],
         UNCHANGED <<receipts, paid, debt, review, purge, cutoff>>,
         \A v \in Uploads \ {u} : \A o \in MadeBoth(v) : o \in objects => o \in objects',
         UploadAt(u)'
  PROVE  ReceiptsInv'
<1>1. upload' \in [Uploads -> UploadCalls] /\ \A v \in Uploads \ {u} : upload'[v] = upload[v]
  BY DEF ReceiptsInv, ReceiptsTyped
<1>2. Rows' = Rows /\ Used' = Used
  BY DEF Rows, Used
<1>3. ReceiptsTyped'
  BY <1>1, <1>2 DEF ReceiptsInv, ReceiptsTyped
<1>4. ASSUME NEW v \in Uploads \ {u} PROVE UploadAt(v)'
  <2>1. UploadAt(v) /\ RowOf(v) /\ upload'[v] = upload[v] /\ Made(v)' = Made(v)
        /\ Made(v) \subseteq MadeBoth(v) /\ Original(v) \in MadeBoth(v)
    BY <1>1, MadeIsOwn DEF ReceiptsInv, Made, MadeBoth
  <2> QED
    BY <2>1 DEF UploadAt, RowOf
<1>5. \A v \in Uploads : PaidAt(v)'
  BY MoneyKept
<1>6. (debt + PaidSum = SaleTotal)'
  BY MoneyKept
<1>7. \A v \in Uploads : RowOf(v)'
  BY DEF ReceiptsInv, RowOf
<1>8. OneRowPerKey' /\ PurgeDue'
  BY <1>2 DEF ReceiptsInv, OneRowPerKey, PurgeDue
<1> QED
  BY <1>3, <1>4, <1>5, <1>6, <1>7, <1>8 DEF ReceiptsInv

(* A step of an upload that writes its row.                                *)
LEMMA RowComes ==
  ASSUME ReceiptsInv, NEW u \in Uploads, NEW call \in UploadCalls, upload' = [upload EXCEPT ![u] = call],
         NEW row \in ReceiptRows, receipts' = [receipts EXCEPT ![u] = row], receipts[u] = NoReceipt,
         row.status = "PENDING", row.objects \subseteq MadeBoth(u),
         row.key # Nothing => Under(row.key) = {},
         UNCHANGED <<objects, paid, debt, review, purge, cutoff>>,
         UploadAt(u)'
  PROVE  ReceiptsInv'
<1>1. /\ upload' \in [Uploads -> UploadCalls] /\ \A v \in Uploads \ {u} : upload'[v] = upload[v]
      /\ receipts' \in [Uploads -> ReceiptRows] /\ receipts'[u] = row
      /\ \A v \in Uploads \ {u} : receipts'[v] = receipts[v]
  BY DEF ReceiptsInv, ReceiptsTyped
<1>2. row # NoReceipt /\ receipts[u].status = "NONE" /\ receipts[u].key = Nothing
  BY DEF NoReceipt
<1>3. Rows' = Rows \cup {u} /\ Used' = Used
  BY <1>1, <1>2 DEF Rows, Used
<1>4. IsFiniteSet(Rows \cup {u})
  BY FS_AddElement DEF ReceiptsInv, ReceiptsTyped
<1>5. ReceiptsTyped'
  BY <1>1, <1>3, <1>4 DEF ReceiptsInv, ReceiptsTyped
<1>6. ASSUME NEW v \in Uploads \ {u} PROVE UploadAt(v)'
  <2>1. UploadAt(v) /\ upload'[v] = upload[v] /\ Made(v)' = Made(v) /\ receipts'[v] = receipts[v]
        /\ upload[v] \in UploadCalls
    BY <1>1 DEF ReceiptsInv, ReceiptsTyped, Made
  <2>2. upload[v].key # Nothing /\ upload[v].answer # Nothing => upload[v].answer \in Uploads \ {u}
    BY <1>2, <2>1 DEF UploadAt, UploadCalls
  <2>3. upload[v].key # Nothing /\ upload[v].answer # Nothing =>
          receipts'[upload[v].answer] = receipts[upload[v].answer]
    BY <1>1, <2>2
  <2> QED
    BY <2>1, <2>3 DEF UploadAt
<1>7. \A v \in Uploads : PaidAt(v)' /\ (debt + PaidSum = SaleTotal)'
  <2>1. PaidSum' = PaidSum
    BY <1>3 DEF PaidSum
  <2> QED
    BY <1>1, <1>2, <1>3, <2>1 DEF ReceiptsInv, PaidAt
<1>8. \A v \in Uploads : RowOf(v)'
  BY <1>1, <1>2 DEF ReceiptsInv, RowOf
<1>9. OneRowPerKey'
  BY <1>1, <1>3 DEF ReceiptsInv, OneRowPerKey, Under
<1>10. PurgeDue'
  BY <1>1, <1>2, <1>3 DEF ReceiptsInv, PurgeDue, Rows
<1> QED
  BY <1>5, <1>6, <1>7, <1>8, <1>9, <1>10 DEF ReceiptsInv

(* What an upload may do before its row exists.                            *)
LEMMA Calling ==
  ASSUME ReceiptsInv, NEW u \in Uploads
  PROVE  /\ upload[u] \in UploadCalls /\ UploadAt(u) /\ RowOf(u) /\ u # Nothing
         /\ upload \in [Uploads -> UploadCalls]
BY ReceiptsAssumption DEF ReceiptsInv, ReceiptsTyped

(* The winner of a key, where the key has a row.                           *)
LEMMA WinnerIs ==
  ASSUME ReceiptsInv, NEW key \in MediaKeys, NEW file
  PROVE  /\ Winner(key, file) \in Under(key) \cup {Nothing}
         /\ Winner(key, file) # Nothing =>
              receipts[Winner(key, file)].key = key /\ receipts[Winner(key, file)].file = file
<1>1. /\ Nothing \notin Under(key) /\ key # Nothing
      /\ \A v, w \in Under(key) : v = w
  BY ReceiptsAssumption DEF ReceiptsInv, OneRowPerKey, Under, Rows
<1>2. CASE \E v \in Under(key) : receipts[v].file = file
  <2>1. PICK v \in Under(key) : receipts[v].file = file
    BY <1>2
  <2>2. Winner(key, file) \in Under(key)
    BY <1>1, <1>2 DEF Winner
  <2> QED
    BY <1>1, <2>1, <2>2 DEF Under
<1>3. CASE ~\E v \in Under(key) : receipts[v].file = file
  BY <1>1, <1>3 DEF Winner
<1> QED
  BY <1>2, <1>3

LEMMA UploadKept ==
  ASSUME ReceiptsInv, NEW u \in Uploads, NEW key \in MediaKeys, NEW file \in Files, Upload(u, key, file)
  PROVE  ReceiptsInv'
<1>1. PICK call : call = [phase |-> IF Under(key) = {} THEN "put" ELSE "done", key |-> key, file |-> file,
                          preview |-> FALSE, answer |-> Winner(key, file)]
  OBVIOUS
<1>2. Under(key) \subseteq Uploads \ {u} /\ receipts[u] = NoReceipt
  BY Calling DEF Upload, UploadAt, Under, Rows
<1>3. call \in UploadCalls /\ (Under(key) = {} => call.answer = Nothing)
  BY <1>1, <1>2, WinnerIs DEF UploadCalls
<1>4. upload' = [upload EXCEPT ![u] = call]
      /\ UNCHANGED <<receipts, objects, paid, debt, review, purge, cutoff>>
  BY <1>1 DEF Upload, saleVars, purgeVars
<1>5. upload'[u] = call /\ Made(u)' = {Original(u)}
  BY <1>1, <1>4, Calling DEF Made
<1>6. UploadAt(u)'
  BY <1>1, <1>2, <1>3, <1>4, <1>5, WinnerIs, Calling, ReceiptsAssumption DEF UploadAt, NoReceipt
<1> QED
  BY <1>3, <1>4, <1>6, UploadMoves

(* The original is stored ...                                              *)
LEMMA StoreOriginalKept == ASSUME ReceiptsInv, NEW u \in Uploads, StoreOriginal(u) PROVE ReceiptsInv'
<1>1. PICK phase : phase = IF upload[u].file \in Pdfs THEN "preview" ELSE "insert"
  OBVIOUS
<1>2. PICK call : call = [upload[u] EXCEPT !.phase = phase]
  OBVIOUS
<1>3. /\ call \in UploadCalls /\ call.phase \in {"preview", "insert"} /\ call.key = upload[u].key
      /\ call.answer = upload[u].answer /\ call.preview = upload[u].preview
  BY <1>1, <1>2, Calling DEF UploadCalls
<1>4. /\ upload' = [upload EXCEPT ![u] = call] /\ objects' = objects \cup {Original(u)}
      /\ UNCHANGED <<receipts, paid, debt, review, purge, cutoff>>
  BY <1>1, <1>2, Calling DEF StoreOriginal, Becomes, saleVars, purgeVars
<1>5. upload'[u] = call /\ Made(u)' = Made(u) /\ upload[u].phase = "put"
  BY <1>3, <1>4, Calling DEF StoreOriginal, Made
<1>6. UploadAt(u)'
  BY <1>3, <1>4, <1>5, Calling DEF UploadAt, NoReceipt
<1> QED
  BY <1>3, <1>4, <1>6, UploadMoves

(* ... and then its preview, or not.                                       *)
LEMMA StorePreviewKept == ASSUME ReceiptsInv, NEW u \in Uploads, StorePreview(u) PROVE ReceiptsInv'
<1>1. CASE upload' = [upload EXCEPT ![u].phase = "insert", ![u].preview = TRUE]
           /\ objects' = objects \cup {Preview(u)}
  <2>1. PICK call : call = [upload[u] EXCEPT !.phase = "insert", !.preview = TRUE]
    OBVIOUS
  <2>2. /\ call \in UploadCalls /\ call.phase = "insert" /\ call.key = upload[u].key
        /\ call.answer = upload[u].answer
    BY <2>1, Calling DEF UploadCalls
  <2>3. upload' = [upload EXCEPT ![u] = call] /\ UNCHANGED <<receipts, paid, debt, review, purge, cutoff>>
    BY <1>1, <2>1, Calling DEF StorePreview, saleVars, purgeVars
  <2>4. upload'[u] = call /\ upload[u].phase = "preview" /\ Made(u)' \subseteq {Original(u), Preview(u)}
    BY <2>3, Calling DEF StorePreview, Made
  <2>5. receipts'[u] = NoReceipt /\ Original(u) \in objects
    BY <2>3, <2>4, Calling DEF UploadAt
  <2>6. receipts'[u].objects = {} /\ objects' = objects \cup {Preview(u)}
    BY <1>1, <2>5 DEF NoReceipt
  <2>7. UploadAt(u)'
    BY <2>2, <2>4, <2>5, <2>6, Calling DEF UploadAt
  <2> QED
    BY <1>1, <2>2, <2>3, <2>7, UploadMoves
<1>2. CASE Becomes(u, "insert") /\ UNCHANGED objects
  <2>1. PICK call : call = [upload[u] EXCEPT !.phase = "insert"]
    OBVIOUS
  <2>2. /\ call \in UploadCalls /\ call.phase = "insert" /\ call.key = upload[u].key
        /\ call.answer = upload[u].answer /\ call.preview = upload[u].preview
    BY <2>1, Calling DEF UploadCalls
  <2>3. upload' = [upload EXCEPT ![u] = call] /\ UNCHANGED <<receipts, paid, debt, review, purge, cutoff>>
    BY <1>2, <2>1, Calling DEF StorePreview, Becomes, saleVars, purgeVars
  <2>4. upload'[u] = call /\ upload[u].phase = "preview" /\ Made(u)' = Made(u)
    BY <2>2, <2>3, Calling DEF StorePreview, Made
  <2>5. receipts'[u] = NoReceipt /\ Original(u) \in objects
    BY <2>3, <2>4, Calling DEF UploadAt
  <2>6. receipts'[u].objects = {} /\ objects' = objects
    BY <1>2, <2>5 DEF NoReceipt
  <2>7. UploadAt(u)'
    BY <2>2, <2>4, <2>5, <2>6, Calling DEF UploadAt
  <2> QED
    BY <1>2, <2>2, <2>3, <2>7, UploadMoves
<1> QED
  BY <1>1, <1>2 DEF StorePreview

(* An upload that ends takes no object of another with it.                 *)
LEMMA EndsKept ==
  ASSUME ReceiptsInv, NEW u \in Uploads, NEW answer, upload[u].key \in MediaKeys,
         upload' = [upload EXCEPT ![u].phase = "done", ![u].answer = answer],
         answer = Nothing \/ (answer = Winner(upload[u].key, upload[u].file) /\ receipts[u] = NoReceipt),
         UNCHANGED <<receipts, paid, debt, review, purge, cutoff>>,
         \A v \in Uploads \ {u} : \A o \in MadeBoth(v) : o \in objects => o \in objects'
  PROVE  ReceiptsInv'
<1>1. answer \in Uploads \cup {Nothing} /\ answer # u
  BY WinnerIs, Calling DEF Under, Rows
<1>2. PICK call : call = [upload[u] EXCEPT !.phase = "done", !.answer = answer]
  OBVIOUS
<1>3. /\ call \in UploadCalls /\ call.phase = "done" /\ call.key = upload[u].key /\ call.file = upload[u].file
      /\ call.answer = answer
  BY <1>1, <1>2, Calling DEF UploadCalls
<1>4. upload' = [upload EXCEPT ![u] = call] /\ upload'[u] = call
  BY <1>2, Calling
<1>5. answer # Nothing => receipts[answer].key = call.key /\ receipts[answer].file = call.file
  BY <1>3, WinnerIs
<1>6. UploadAt(u)'
  BY <1>1, <1>3, <1>4, <1>5, Calling DEF UploadAt, NoReceipt
<1> QED
  BY <1>3, <1>4, <1>6, UploadMoves

LEMMA StoreFailsKept == ASSUME ReceiptsInv, NEW u \in Uploads, StoreFails(u) PROVE ReceiptsInv'
<1>1. upload[u].key \in MediaKeys /\ Returns(u, Nothing)
      /\ UNCHANGED <<receipts, paid, debt, review, purge, cutoff>> /\ objects \subseteq objects'
  BY Calling DEF StoreFails, UploadAt, saleVars, purgeVars
<1> QED
  <2>1. \A v \in Uploads \ {u} : \A o \in MadeBoth(v) : o \in objects => o \in objects'
    BY <1>1
  <2>2. upload' = [upload EXCEPT ![u].phase = "done", ![u].answer = Nothing]
    BY <1>1 DEF Returns
  <2> QED
    BY <1>1, <2>1, <2>2, EndsKept

LEMMA UploadDiesKept == ASSUME ReceiptsInv, NEW u \in Uploads, UploadDies(u) PROVE ReceiptsInv'
<1>1. upload[u].key \in MediaKeys /\ Returns(u, Nothing)
      /\ UNCHANGED <<receipts, paid, debt, review, purge, cutoff>> /\ objects' = objects
  BY Calling DEF UploadDies, UploadAt, UploadCalls, saleVars, purgeVars
<1> QED
  <2>1. \A v \in Uploads \ {u} : \A o \in MadeBoth(v) : o \in objects => o \in objects'
    BY <1>1
  <2>2. upload' = [upload EXCEPT ![u].phase = "done", ![u].answer = Nothing]
    BY <1>1 DEF Returns
  <2> QED
    BY <1>1, <2>1, <2>2, EndsKept

LEMMA DiscardKept == ASSUME ReceiptsInv, NEW u \in Uploads, Discard(u) PROVE ReceiptsInv'
<1>1. PICK answer : answer = IF upload[u].phase = "lost" THEN Winner(upload[u].key, upload[u].file) ELSE Nothing
  OBVIOUS
<1>2. upload[u].key \in MediaKeys /\ (upload[u].phase = "lost" => receipts[u] = NoReceipt)
  BY Calling DEF Discard, UploadAt
<1>3. Returns(u, answer) /\ UNCHANGED <<receipts, paid, debt, review, purge, cutoff>>
  BY <1>1 DEF Discard, saleVars, purgeVars
<1>4. \A o \in objects : o \notin MadeBoth(u) => o \in objects'
  BY MadeIsOwn DEF Discard
<1> QED
  <2>1. \A v \in Uploads \ {u} : \A o \in MadeBoth(v) : o \in objects => o \in objects'
    BY <1>4, MadeIsOwn
  <2>2. upload' = [upload EXCEPT ![u].phase = "done", ![u].answer = answer]
    BY <1>3 DEF Returns
  <2>3. answer = Nothing \/ (answer = Winner(upload[u].key, upload[u].file) /\ receipts[u] = NoReceipt)
    BY <1>1, <1>2
  <2> QED
    BY <1>2, <1>3, <2>1, <2>2, <2>3, EndsKept

(* The row is written, whether its writer learns of it or not.             *)
LEMMA InsertRowKept == ASSUME ReceiptsInv, NEW u \in Uploads, InsertRow(u) PROVE ReceiptsInv'
<1>1. PICK row : row = ReceiptRow(u)
  OBVIOUS
<1>2. /\ upload[u].phase = "insert" /\ upload[u].key \in MediaKeys /\ receipts[u] = NoReceipt
      /\ Under(upload[u].key) = {} /\ Made(u) \subseteq objects
  BY Calling DEF InsertRow, UploadAt
<1>3. Cardinality(Rows) \in Nat
  BY FS_CardinalityType DEF ReceiptsInv, ReceiptsTyped
<1>4. row = [status |-> "PENDING", key |-> upload[u].key, file |-> upload[u].file, objects |-> Made(u),
             purged |-> FALSE, review |-> Nothing, born |-> Cardinality(Rows) + 1, attempts |-> 0]
  BY <1>1 DEF ReceiptRow, NoReceipt
<1>5. Made(u) \in SUBSET (Uploads \X {"original", "preview"}) /\ Made(u) \subseteq MadeBoth(u)
  BY MadeIsOwn DEF MadeBoth, Original, Preview
<1>6. row \in ReceiptRows
  BY <1>3, <1>4, <1>5, Calling DEF ReceiptRows, UploadCalls
<1>7. receipts' = [receipts EXCEPT ![u] = row] /\ receipts'[u] = row
      /\ UNCHANGED <<objects, paid, debt, review, purge, cutoff>>
  BY <1>1 DEF InsertRow, ReceiptsInv, ReceiptsTyped, saleVars, purgeVars
<1>8. PICK call \in {[upload[u] EXCEPT !.phase = "done", !.answer = u], [upload[u] EXCEPT !.phase = "failed"]} :
        upload' = [upload EXCEPT ![u] = call]
  BY Calling DEF InsertRow, Returns, Becomes
<1>9. /\ call \in UploadCalls /\ call.key = upload[u].key /\ call.file = upload[u].file
      /\ \/ call.phase = "done" /\ call.answer = u
         \/ call.phase = "failed" /\ call.answer = upload[u].answer
  BY <1>8, Calling DEF UploadCalls
<1>10. upload'[u] = call
  BY <1>8, Calling
<1>11. UploadAt(u)'
  BY <1>2, <1>4, <1>7, <1>9, <1>10, Calling DEF UploadAt
<1>12. row.status = "PENDING" /\ row.objects \subseteq MadeBoth(u) /\ Under(row.key) = {}
  BY <1>2, <1>4, <1>5
<1> QED
  BY <1>2, <1>6, <1>7, <1>8, <1>9, <1>11, <1>12, RowComes

(* The index refuses it, or the transaction fails.                         *)
LEMMA InsertRefusedKept == ASSUME ReceiptsInv, NEW u \in Uploads, InsertRefused(u) PROVE ReceiptsInv'
<1>1. PICK phase \in {"lost", "failed"} : Becomes(u, phase)
  BY DEF InsertRefused
<1>2. PICK call : call = [upload[u] EXCEPT !.phase = phase]
  OBVIOUS
<1>3. /\ call \in UploadCalls /\ call.phase = phase /\ call.key = upload[u].key
      /\ call.answer = upload[u].answer
  BY <1>1, <1>2, Calling DEF UploadCalls
<1>4. upload' = [upload EXCEPT ![u] = call] /\ UNCHANGED <<receipts, objects, paid, debt, review, purge, cutoff>>
  BY <1>1, <1>2, Calling DEF InsertRefused, Becomes, saleVars, purgeVars
<1>5. upload'[u] = call /\ upload[u].phase = "insert"
  BY <1>4, Calling DEF InsertRefused
<1>6. UploadAt(u)'
  BY <1>3, <1>4, <1>5, Calling DEF UploadAt, NoReceipt
<1> QED
  BY <1>3, <1>4, <1>6, UploadMoves

(* A receipt of the old kind has neither key nor objects.                  *)
LEMMA AttachLegacyKept == ASSUME ReceiptsInv, NEW u \in Uploads, AttachLegacy(u) PROVE ReceiptsInv'
<1>1. PICK row : row = [NoReceipt EXCEPT !.status = "PENDING", !.born = Cardinality(Rows) + 1]
  OBVIOUS
<1>2. PICK call : call = [upload[u] EXCEPT !.phase = "done", !.answer = u]
  OBVIOUS
<1>3. Cardinality(Rows) \in Nat
  BY FS_CardinalityType DEF ReceiptsInv, ReceiptsTyped
<1>4. row = [status |-> "PENDING", key |-> Nothing, file |-> Nothing, objects |-> {},
             purged |-> FALSE, review |-> Nothing, born |-> Cardinality(Rows) + 1, attempts |-> 0]
  BY <1>1 DEF NoReceipt
<1>5. row \in ReceiptRows
  BY <1>3, <1>4 DEF ReceiptRows
<1>6. receipts' = [receipts EXCEPT ![u] = row] /\ receipts'[u] = row
      /\ UNCHANGED <<objects, paid, debt, review, purge, cutoff>>
  BY <1>1 DEF AttachLegacy, ReceiptsInv, ReceiptsTyped, saleVars, purgeVars
<1>7. /\ call \in UploadCalls /\ call.phase = "done" /\ call.key = Nothing /\ receipts[u] = NoReceipt
      /\ upload' = [upload EXCEPT ![u] = call] /\ upload'[u] = call
  BY <1>2, Calling DEF AttachLegacy, Returns, UploadCalls, UploadAt
<1>8. UploadAt(u)'
  BY <1>4, <1>6, <1>7 DEF UploadAt
<1>9. row.status = "PENDING" /\ row.objects \subseteq MadeBoth(u) /\ row.key = Nothing
  BY <1>4
<1> QED
  BY <1>5, <1>6, <1>7, <1>8, <1>9, RowComes

-----------------------------------------------------------------------------
(* The status of one row changes, and nothing it is told by.               *)
LEMMA StatusKept ==
  ASSUME ReceiptsInv, NEW u \in Uploads, NEW row \in ReceiptRows, receipts' = [receipts EXCEPT ![u] = row],
         u \in Rows, row.status # "NONE", row.key = receipts[u].key, row.file = receipts[u].file,
         row.objects = receipts[u].objects, row.born = receipts[u].born
  PROVE  /\ receipts' \in [Uploads -> ReceiptRows] /\ receipts'[u] = row
         /\ \A v \in Uploads \ {u} : receipts'[v] = receipts[v]
         /\ RowsKeep /\ Rows' = Rows
         /\ \A v \in Uploads : RowOf(v)'
<1>1. /\ receipts' \in [Uploads -> ReceiptRows] /\ receipts'[u] = row
      /\ \A v \in Uploads \ {u} : receipts'[v] = receipts[v]
  BY DEF ReceiptsInv, ReceiptsTyped
<1>2. row # NoReceipt /\ receipts[u] # NoReceipt
  BY RowThere DEF NoReceipt
<1>3. RowsKeep
  BY <1>1, <1>2 DEF RowsKeep
<1>4. Rows' = Rows
  BY <1>3 DEF RowsKeep, Rows
<1>5. \A v \in Uploads : RowOf(v)'
  BY <1>1 DEF ReceiptsInv, RowOf
<1> QED
  BY <1>1, <1>3, <1>4, <1>5

LEMMA RunKept ==
  ASSUME ReceiptsInv, purge' = purge, cutoff' = cutoff, RowsKeep, Rows' = Rows PROVE PurgeDue'
BY DEF ReceiptsInv, PurgeDue, RowsKeep, Rows

(* A payment more, or the one that is there already.                       *)
LEMMA PaysAdds ==
  ASSUME ReceiptsInv, NEW key \in PayKeys, NEW p \in Payment, paid[key] = Nothing, p.amount <= debt,
         paid' = [paid EXCEPT ![key] = p], debt' = debt - p.amount
  PROVE  /\ Used' = Used \cup {key} /\ paid'[key] = p /\ key \notin Used
         /\ \A k \in Used : paid'[k] = paid[k]
         /\ debt' \in Nat /\ paid' \in [PayKeys -> Payment \cup {Nothing}] /\ IsFiniteSet(Used)'
         /\ (debt + PaidSum = SaleTotal)'
<1>1. p # Nothing /\ p.amount \in Nat
  BY ReceiptsAssumption DEF Payment
<1>2. /\ Used' = Used \cup {key} /\ paid'[key] = p /\ key \notin Used
      /\ \A k \in Used : paid'[k] = paid[k]
      /\ paid' \in [PayKeys -> Payment \cup {Nothing}]
  BY <1>1 DEF ReceiptsInv, ReceiptsTyped, Used
<1>3. debt' \in Nat
  BY <1>1 DEF ReceiptsInv, ReceiptsTyped
<1>4. IsFiniteSet(Used \cup {key}) /\ IsFiniteSet(Used)
  BY FS_AddElement DEF ReceiptsInv, ReceiptsTyped
<1> DEFINE f == [k \in Used |-> paid[k].amount]
           g == [k \in Used \cup {key} |-> IF k = key THEN p.amount ELSE paid[k].amount]
<1>5. PaidSum = SumFunctionOnSet(f, Used)
  BY DEF PaidSum, SumFunction
<1>6. PaidSum' = SumFunctionOnSet(g, Used \cup {key})
  <2>1. [k \in Used' |-> paid'[k].amount] = g
    BY <1>2
  <2> HIDE DEF g
  <2>2. PaidSum' = SumFunction(g)
    BY <2>1 DEF PaidSum
  <2> USE DEF g
  <2>3. DOMAIN g = Used \cup {key}
    OBVIOUS
  <2> HIDE DEF g
  <2> QED
    BY <2>2, <2>3 DEF SumFunction
<1>7. Integral(g, Used \cup {key}) /\ \A k \in Used : f[k] = g[k]
  <2>1. \A k \in Used : paid[k] \in Payment
    BY DEF Used, ReceiptsInv, ReceiptsTyped
  <2>2. ASSUME NEW q \in Payment PROVE q.amount \in Int
    <3>1. q.amount \in PayAmounts
      BY DEF Payment
    <3>2. \A a \in PayAmounts : a \in Nat
      BY ReceiptsAssumption
    <3> QED
      BY <3>1, <3>2
  <2> QED
    BY <1>1, <1>2, <2>1, <2>2 DEF Integral
<1>8. SumFunctionOnSet(f, Used) = SumFunctionOnSet(g, Used) /\ g[key] = p.amount
  BY <1>4, <1>7, SumSame
<1> HIDE DEF f, g
<1>9. SumFunctionOnSet(g, Used \cup {key}) = g[key] + SumFunctionOnSet(g, Used)
  BY <1>2, <1>4, <1>7, SumAdd
<1>10. SumFunctionOnSet(g, Used) \in Int
  BY <1>4, <1>7, SumType DEF Integral
<1>11. debt + SumFunctionOnSet(f, Used) = SaleTotal /\ debt \in Nat
  BY <1>5 DEF ReceiptsInv, ReceiptsTyped
<1>12. debt' + PaidSum' = SaleTotal
  BY <1>1, <1>6, <1>8, <1>9, <1>10, <1>11
<1> QED
  BY <1>2, <1>3, <1>4, <1>12

(* A reviewer takes up a receipt, or lays it down.                         *)
LEMMA TaskKept ==
  ASSUME ReceiptsInv, review' \in [Checkers -> ReviewTasks],
         UNCHANGED <<receipts, objects, upload, paid, debt, purge, cutoff>>
  PROVE  ReceiptsInv'
<1>1. Rows' = Rows /\ Used' = Used /\ RowsKeep
  BY DEF Rows, Used, RowsKeep
<1>2. ReceiptsTyped'
  BY <1>1 DEF ReceiptsInv, ReceiptsTyped
<1>3. \A u \in Uploads : UploadAt(u)' /\ RowOf(u)'
  BY DEF ReceiptsInv, UploadAt, RowOf, Made
<1>4. OneRowPerKey' /\ PurgeDue'
  BY <1>1 DEF ReceiptsInv, OneRowPerKey, PurgeDue
<1>5. (\A u \in Uploads : PaidAt(u)') /\ (debt + PaidSum = SaleTotal)'
  BY MoneyKept
<1> QED
  BY <1>2, <1>3, <1>4, <1>5 DEF ReceiptsInv

LEMMA ReadToRejectKept == ASSUME ReceiptsInv, NEW h \in Checkers, NEW u \in Uploads, ReadToReject(h, u) PROVE ReceiptsInv'
<1>1. PICK task : task = [NoReview EXCEPT !.phase = "reject", !.receipt = u]
  OBVIOUS
<1>2. task \in ReviewTasks
  BY <1>1 DEF ReviewTasks, NoReview
<1>3. review' = [review EXCEPT ![h] = task] /\ UNCHANGED <<receipts, objects, upload, paid, debt, purge, cutoff>>
  BY <1>1 DEF ReadToReject, Reads, uploadVars, saleVars, purgeVars
<1> QED
  BY <1>2, <1>3, TaskKept DEF ReceiptsInv, ReceiptsTyped

LEMMA ReadToConfirmKept ==
  ASSUME ReceiptsInv, NEW h \in Checkers, NEW u \in Uploads, NEW amount \in PayAmounts, NEW key \in PayKeys,
         ReadToConfirm(h, u, amount, key)
  PROVE  ReceiptsInv'
<1>1. PICK task : task = [phase |-> "confirm", receipt |-> u, amount |-> amount, key |-> key]
  OBVIOUS
<1>2. task \in ReviewTasks
  BY <1>1 DEF ReviewTasks
<1>3. review' = [review EXCEPT ![h] = task] /\ UNCHANGED <<receipts, objects, upload, paid, debt, purge, cutoff>>
  BY <1>1 DEF ReadToConfirm, Reads, uploadVars, saleVars, purgeVars
<1> QED
  BY <1>2, <1>3, TaskKept DEF ReceiptsInv, ReceiptsTyped

LEMMA RestsTyped ==
  ASSUME ReceiptsInv, NEW h \in Checkers, Rests(h) PROVE review' \in [Checkers -> ReviewTasks]
BY DEF ReceiptsInv, ReceiptsTyped, Rests, ReviewTasks

LEMMA ReviewFailsKept == ASSUME ReceiptsInv, NEW h \in Checkers, ReviewFails(h) PROVE ReceiptsInv'
BY RestsTyped, TaskKept DEF ReviewFails, uploadVars, saleVars, purgeVars

(* A confirmation pays under its key and names what it paid.               *)
LEMMA ConfirmKept == ASSUME ReceiptsInv, NEW h \in Checkers, ConfirmReceipt(h) PROVE ReceiptsInv'
<1>1. PICK r : r = review[h]
  OBVIOUS
<1>2. PICK u : u = r.receipt
  OBVIOUS
<1>3. r.phase = "confirm" /\ receipts[u].status = "PENDING"
  BY <1>1, <1>2 DEF ConfirmReceipt, Actionable
<1>4. u \in Uploads /\ r.amount \in PayAmounts /\ r.key \in PayKeys
  BY <1>1, <1>2, <1>3 DEF ReceiptsInv, ReceiptsTyped, ReviewTasks, NoReview
<1>5. PICK row : row = [receipts[u] EXCEPT !.status = "CONFIRMED",
                                           !.review = [by |-> h, amount |-> r.amount, key |-> r.key]]
  OBVIOUS
<1>6. receipts[u] \in ReceiptRows /\ u \in Rows
  BY <1>3, <1>4, RowThere
<1>7. /\ row \in ReceiptRows /\ row.status = "CONFIRMED" /\ row.key = receipts[u].key
      /\ row.file = receipts[u].file /\ row.objects = receipts[u].objects /\ row.born = receipts[u].born
      /\ row.review = [by |-> h, amount |-> r.amount, key |-> r.key]
  BY <1>4, <1>5, <1>6 DEF ReceiptRows
<1>8. receipts' = [receipts EXCEPT ![u] = row] /\ Pays(r.key, h, r.amount, u)
      /\ UNCHANGED <<objects, upload, purge, cutoff>>
  BY <1>1, <1>2, <1>4, <1>5 DEF ConfirmReceipt, ReceiptsInv, ReceiptsTyped, purgeVars
<1>9. /\ receipts' \in [Uploads -> ReceiptRows] /\ receipts'[u] = row
      /\ \A v \in Uploads \ {u} : receipts'[v] = receipts[v]
      /\ RowsKeep /\ Rows' = Rows
      /\ \A v \in Uploads : RowOf(v)'
  BY <1>4, <1>6, <1>7, <1>8, StatusKept
<1>10. PICK p : p = [by |-> h, amount |-> r.amount, receipt |-> u]
  OBVIOUS
<1>11. p \in Payment
  BY <1>4, <1>10 DEF Payment
<1>12. /\ Used' \in {Used, Used \cup {r.key}}
       /\ \A k \in Used : paid'[k] = paid[k] /\ paid[k].receipt # u
       /\ r.key \in Used' /\ paid'[r.key].by = h /\ paid'[r.key].amount = r.amount
       /\ r.key \notin Used => paid'[r.key].receipt = u
       /\ debt' \in Nat /\ paid' \in [PayKeys -> Payment \cup {Nothing}] /\ IsFiniteSet(Used)'
       /\ (debt + PaidSum = SaleTotal)'
  <2>1. \A k \in Used : paid[k].receipt # u
    BY <1>3, <1>4 DEF ReceiptsInv, PaidAt
  <2>2. CASE /\ paid[r.key] = Nothing /\ r.amount <= debt
             /\ paid' = [paid EXCEPT ![r.key] = p] /\ debt' = debt - r.amount
    BY ZenonT(60), <1>4, <1>10, <1>11, <2>1, <2>2, PaysAdds
  <2>3. CASE /\ paid[r.key] # Nothing /\ paid[r.key].by = h /\ paid[r.key].amount = r.amount
             /\ UNCHANGED <<paid, debt>>
    <3>1. Used' = Used /\ r.key \in Used
      BY <1>4, <2>3 DEF Used
    <3>2. PaidSum' = PaidSum
      BY <2>3, <3>1 DEF PaidSum
    <3> QED
      BY <2>1, <2>3, <3>1, <3>2 DEF ReceiptsInv, ReceiptsTyped
  <2> QED
    BY <1>8, <1>10, <2>2, <2>3 DEF Pays
<1>13. ReceiptsTyped'
  <2>1. review' \in [Checkers -> ReviewTasks]
    BY RestsTyped DEF ConfirmReceipt
  <2> QED
    BY <1>8, <1>9, <1>12, <2>1 DEF ReceiptsInv, ReceiptsTyped
<1>14. (\A v \in Uploads : UploadAt(v)') /\ OneRowPerKey'
  <2>1. cutoff <= cutoff'
    BY <1>8 DEF ReceiptsInv, ReceiptsTyped
  <2> QED
    BY <1>8, <1>9, <1>13, <2>1, UploadsKept
<1>15. PurgeDue'
  BY <1>8, <1>9, RunKept
<1>16. ASSUME NEW v \in Uploads PROVE PaidAt(v)'
  <2>1. PaidAt(v)
    BY DEF ReceiptsInv
  <2>2. CASE v = u
    BY <1>7, <1>9, <1>12, <2>1, <2>2 DEF PaidAt
  <2>3. CASE v # u
    BY <1>9, <1>12, <2>1, <2>3 DEF PaidAt
  <2> QED
    BY <2>2, <2>3
<1> QED
  BY <1>9, <1>12, <1>13, <1>14, <1>15, <1>16 DEF ReceiptsInv

LEMMA RejectKept == ASSUME ReceiptsInv, NEW h \in Checkers, RejectReceipt(h) PROVE ReceiptsInv'
<1>1. PICK u : u = review[h].receipt
  OBVIOUS
<1>2. u \in Uploads /\ receipts[u].status = "PENDING"
  BY <1>1 DEF RejectReceipt, Actionable, ReceiptsInv, ReceiptsTyped, ReviewTasks, NoReview
<1>3. PICK row : row = [receipts[u] EXCEPT !.status = "REJECTED"]
  OBVIOUS
<1>4. receipts[u] \in ReceiptRows /\ u \in Rows
  BY <1>2, RowThere
<1>5. /\ row \in ReceiptRows /\ row.status = "REJECTED" /\ row.key = receipts[u].key
      /\ row.file = receipts[u].file /\ row.objects = receipts[u].objects /\ row.born = receipts[u].born
      /\ row.review = receipts[u].review
  BY <1>3, <1>4 DEF ReceiptRows
<1>6. receipts' = [receipts EXCEPT ![u] = row] /\ UNCHANGED <<objects, upload, paid, debt, purge, cutoff>>
  BY <1>1, <1>2, <1>3 DEF RejectReceipt, ReceiptsInv, ReceiptsTyped, saleVars, purgeVars
<1>7. /\ receipts' \in [Uploads -> ReceiptRows] /\ receipts'[u] = row
      /\ \A v \in Uploads \ {u} : receipts'[v] = receipts[v]
      /\ RowsKeep /\ Rows' = Rows
      /\ \A v \in Uploads : RowOf(v)'
  BY <1>2, <1>4, <1>5, <1>6, StatusKept
<1>8. (\A v \in Uploads : PaidAt(v)') /\ Used' = Used /\ (debt + PaidSum = SaleTotal)'
  BY <1>2, <1>5, <1>6, <1>7, MoneyKept
<1>9. ReceiptsTyped'
  <2>1. review' \in [Checkers -> ReviewTasks]
    BY RestsTyped DEF RejectReceipt
  <2> QED
    BY <1>6, <1>7, <1>8, <2>1 DEF ReceiptsInv, ReceiptsTyped
<1>10. (\A v \in Uploads : UploadAt(v)') /\ OneRowPerKey'
  <2>1. cutoff <= cutoff'
    BY <1>6 DEF ReceiptsInv, ReceiptsTyped
  <2> QED
    BY <1>6, <1>7, <1>9, <2>1, UploadsKept
<1>11. PurgeDue'
  BY <1>6, <1>7, RunKept
<1> QED
  BY <1>7, <1>8, <1>9, <1>10, <1>11 DEF ReceiptsInv

LEMMA CollectKept ==
  ASSUME ReceiptsInv, NEW key \in PayKeys, NEW amount \in PayAmounts, CollectElsewhere(key, amount)
  PROVE  ReceiptsInv'
<1>1. PICK p : p = [by |-> Cashier, amount |-> amount, receipt |-> Nothing]
  OBVIOUS
<1>2. /\ p \in Payment /\ paid[key] = Nothing /\ p.amount <= debt
      /\ paid' = [paid EXCEPT ![key] = p] /\ debt' = debt - p.amount
  BY <1>1 DEF Payment, CollectElsewhere, Pays
<1>3. UNCHANGED <<receipts, objects, upload, review, purge, cutoff>>
  BY DEF CollectElsewhere, uploadVars, purgeVars
<1>4. /\ Used' = Used \cup {key} /\ paid'[key] = p /\ key \notin Used
      /\ \A k \in Used : paid'[k] = paid[k]
      /\ debt' \in Nat /\ paid' \in [PayKeys -> Payment \cup {Nothing}] /\ IsFiniteSet(Used)'
      /\ (debt + PaidSum = SaleTotal)'
  BY <1>2, PaysAdds
<1>5. Rows' = Rows /\ RowsKeep
  BY <1>3 DEF Rows, RowsKeep
<1>6. ReceiptsTyped'
  BY <1>3, <1>4, <1>5 DEF ReceiptsInv, ReceiptsTyped
<1>7. \A u \in Uploads : UploadAt(u)' /\ RowOf(u)'
  BY <1>3 DEF ReceiptsInv, UploadAt, RowOf, Made
<1>8. OneRowPerKey' /\ PurgeDue'
  BY <1>3, <1>5 DEF ReceiptsInv, OneRowPerKey, PurgeDue
<1>9. ASSUME NEW u \in Uploads PROVE PaidAt(u)'
  <2>1. PaidAt(u) /\ p.receipt # u
    BY <1>1, ReceiptsAssumption DEF ReceiptsInv
  <2> QED
    BY <1>3, <1>4, <2>1 DEF PaidAt
<1> QED
  BY <1>4, <1>6, <1>7, <1>8, <1>9 DEF ReceiptsInv

LEMMA CancelSaleKept == ASSUME ReceiptsInv, CancelSale PROVE ReceiptsInv'
<1>1. UNCHANGED <<receipts, objects, upload, paid, debt, review, purge, cutoff>>
  BY DEF CancelSale, uploadVars, purgeVars
<1> QED
  BY <1>1, TaskKept DEF ReceiptsInv, ReceiptsTyped

-----------------------------------------------------------------------------
RunTyped ==
  /\ purge = [phase |-> purge.phase, cutoff |-> purge.cutoff, batches |-> purge.batches,
              full |-> purge.full, todo |-> purge.todo, failed |-> purge.failed]
  /\ purge.cutoff \in Nat

(* A step of the run, or of time, that takes no object but of what is due. *)
LEMMA RunMoves ==
  ASSUME ReceiptsInv, UNCHANGED <<receipts, upload, paid, debt, review>>,
         cutoff' \in Nat, cutoff <= cutoff', RunTyped', PurgeDue',
         \A u \in Uploads :
           receipts[u] = NoReceipt \/ receipts[u].born > cutoff' =>
             \A o \in MadeBoth(u) : o \in objects => o \in objects'
  PROVE  ReceiptsInv'
<1>1. Rows' = Rows /\ RowsKeep
  BY DEF Rows, RowsKeep
<1>2. (\A u \in Uploads : PaidAt(u)') /\ Used' = Used /\ (debt + PaidSum = SaleTotal)'
  BY MoneyKept
<1>3. ReceiptsTyped'
  BY <1>1, <1>2 DEF ReceiptsInv, ReceiptsTyped, RunTyped
<1>4. (\A u \in Uploads : UploadAt(u)') /\ OneRowPerKey'
  BY <1>1, <1>3, UploadsKept
<1>5. \A u \in Uploads : RowOf(u)'
  BY DEF ReceiptsInv, RowOf
<1> QED
  BY <1>2, <1>3, <1>4, <1>5 DEF ReceiptsInv

LEMMA AgeKept == ASSUME ReceiptsInv, Age PROVE ReceiptsInv'
<1>1. /\ UNCHANGED <<receipts, objects, upload, paid, debt, review, purge>>
      /\ cutoff' = cutoff + 1 /\ cutoff \in Nat /\ purge.cutoff \in Nat
  BY DEF Age, uploadVars, saleVars, ReceiptsInv, ReceiptsTyped
<1>2. RunTyped'
  BY <1>1 DEF ReceiptsInv, ReceiptsTyped, RunTyped
<1>3. \A u \in Uploads : receipts[u].born \in Nat
  BY DEF ReceiptsInv, ReceiptsTyped, ReceiptRows
<1>4. PurgeDue'
  BY <1>1, <1>3 DEF ReceiptsInv, PurgeDue, Rows
<1> QED
  BY <1>1, <1>2, <1>4, RunMoves

(* The steps of the run between its batches.                               *)
LEMMA StartRunKept == ASSUME ReceiptsInv, StartRun PROVE ReceiptsInv'
<1>1. UNCHANGED <<receipts, objects, upload, paid, debt, review, cutoff>> /\ cutoff \in Nat
  BY DEF StartRun, uploadVars, saleVars, ReceiptsInv, ReceiptsTyped
<1>2. purge' = [phase |-> "scan", cutoff |-> cutoff, batches |-> 0, full |-> FALSE, todo |-> {}, failed |-> {}]
  BY DEF StartRun, NoRun
<1>3. RunTyped' /\ PurgeDue'
  BY <1>1, <1>2 DEF RunTyped, PurgeDue
<1> QED
  BY <1>1, <1>3, RunMoves

LEMMA ScanReceiptsKept == ASSUME ReceiptsInv, ScanReceipts PROVE ReceiptsInv'
<1>1. UNCHANGED <<receipts, objects, upload, paid, debt, review, cutoff>> /\ cutoff \in Nat
      /\ purge.cutoff \in Nat /\ purge.cutoff <= cutoff
  BY DEF ScanReceipts, uploadVars, saleVars, ReceiptsInv, ReceiptsTyped, PurgeDue
<1>2. PICK batch \in SUBSET Candidates :
        purge' = [purge EXCEPT !.phase = "work", !.todo = batch, !.batches = @ + 1,
                               !.full = Cardinality(batch) = PurgeSize]
  BY DEF ScanReceipts
<1>3. PICK full : full = (Cardinality(batch) = PurgeSize)
  OBVIOUS
<1>4. purge' = [phase |-> "work", cutoff |-> purge.cutoff, batches |-> purge.batches + 1,
                full |-> full, todo |-> batch, failed |-> purge.failed]
  BY <1>2, <1>3 DEF ReceiptsInv, ReceiptsTyped
<1>5. \A u \in batch : u \in Rows /\ receipts[u].born <= cutoff
  <2> SUFFICES ASSUME NEW u \in batch PROVE u \in Rows /\ receipts[u].born <= cutoff
    OBVIOUS
  <2>1. u \in Rows /\ receipts[u].born <= purge.cutoff
    BY <1>2 DEF Candidates
  <2>2. receipts[u].born \in Nat
    BY <2>1 DEF Rows, ReceiptsInv, ReceiptsTyped, ReceiptRows
  <2> QED
    BY <1>1, <2>1, <2>2
<1>6. Rows' = Rows
  BY <1>1 DEF Rows
<1>7. RunTyped'
  BY <1>1, <1>4 DEF RunTyped
<1>8. PurgeDue'
  BY <1>1, <1>4, <1>5, <1>6 DEF PurgeDue
<1> QED
  BY <1>1, <1>7, <1>8, RunMoves

LEMMA EndBatchKept == ASSUME ReceiptsInv, EndBatch PROVE ReceiptsInv'
<1>1. UNCHANGED <<receipts, objects, upload, paid, debt, review, cutoff>> /\ cutoff \in Nat
      /\ purge.cutoff \in Nat /\ purge.cutoff <= cutoff
  BY DEF EndBatch, uploadVars, saleVars, ReceiptsInv, ReceiptsTyped, PurgeDue
<1>2. \/ purge' = NoRun
      \/ purge' = [phase |-> "scan", cutoff |-> purge.cutoff, batches |-> purge.batches,
                   full |-> purge.full, todo |-> {}, failed |-> purge.failed]
  BY DEF EndBatch, ReceiptsInv, ReceiptsTyped
<1>3. RunTyped' /\ PurgeDue'
  BY <1>1, <1>2 DEF RunTyped, PurgeDue, NoRun
<1> QED
  BY <1>1, <1>3, RunMoves

LEMMA PurgeDiesKept == ASSUME ReceiptsInv, PurgeDies PROVE ReceiptsInv'
<1>1. UNCHANGED <<receipts, objects, upload, paid, debt, review, cutoff>> /\ cutoff \in Nat
      /\ purge.cutoff \in Nat /\ purge.cutoff <= cutoff
  BY DEF PurgeDies, uploadVars, saleVars, ReceiptsInv, ReceiptsTyped, PurgeDue
<1>2. \/ purge' = NoRun
      \/ purge' = [phase |-> "scan", cutoff |-> purge.cutoff, batches |-> purge.batches - 1,
                   full |-> purge.full, todo |-> {}, failed |-> purge.failed]
  BY DEF PurgeDies, ReceiptsInv, ReceiptsTyped
<1>3. RunTyped' /\ PurgeDue'
  BY <1>1, <1>2 DEF RunTyped, PurgeDue, NoRun
<1> QED
  BY <1>1, <1>3, RunMoves

(* The objects of a due receipt are its own, and no upload needs them.     *)
LEMMA TakesTheDue ==
  ASSUME ReceiptsInv, NEW u \in purge.todo, \A o \in objects : o \notin receipts[u].objects => o \in objects'
  PROVE  /\ u \in Uploads /\ u \in Rows
         /\ \A v \in Uploads :
              receipts[v] = NoReceipt \/ receipts[v].born > cutoff =>
                \A o \in MadeBoth(v) : o \in objects => o \in objects'
<1>1. u \in Uploads /\ u \in Rows /\ receipts[u] # NoReceipt /\ receipts[u].born <= cutoff
      /\ receipts[u].objects \subseteq MadeBoth(u) /\ receipts[u].born \in Nat /\ cutoff \in Nat
  BY DEF ReceiptsInv, PurgeDue, Rows, RowOf, ReceiptsTyped, ReceiptRows
<1>2. ASSUME NEW v \in Uploads, receipts[v] = NoReceipt \/ receipts[v].born > cutoff PROVE v # u
  BY <1>1, <1>2
<1> QED
  BY <1>1, <1>2, MadeIsOwn

LEMMA RemoveObjectsKept == ASSUME ReceiptsInv, NEW u \in Uploads, RemoveObjects(u) PROVE ReceiptsInv'
<1>1. UNCHANGED <<receipts, upload, paid, debt, review, cutoff>> /\ cutoff \in Nat
      /\ u \in purge.todo /\ objects' = objects \ receipts[u].objects /\ purge.phase = "work"
      /\ purge.cutoff \in Nat /\ purge.cutoff <= cutoff
  BY DEF RemoveObjects, ToPurge, saleVars, ReceiptsInv, ReceiptsTyped, PurgeDue
<1>2. purge' = [phase |-> "mark", cutoff |-> purge.cutoff, batches |-> purge.batches,
                full |-> purge.full, todo |-> purge.todo, failed |-> purge.failed]
  BY DEF RemoveObjects, ReceiptsInv, ReceiptsTyped
<1>3. RunTyped' /\ PurgeDue'
  BY <1>1, <1>2 DEF RunTyped, PurgeDue, Rows, ReceiptsInv
<1>4. \A v \in Uploads : receipts[v] = NoReceipt \/ receipts[v].born > cutoff' =>
        \A o \in MadeBoth(v) : o \in objects => o \in objects'
  BY <1>1, TakesTheDue
<1> QED
  BY <1>1, <1>3, <1>4, RunMoves

(* A step of the run that writes a row it works on.                        *)
LEMMA RunWrites ==
  ASSUME ReceiptsInv, NEW u \in purge.todo, NEW row \in ReceiptRows, receipts' = [receipts EXCEPT ![u] = row],
         row.status = receipts[u].status, row.key = receipts[u].key, row.file = receipts[u].file,
         row.objects = receipts[u].objects, row.born = receipts[u].born, row.review = receipts[u].review,
         UNCHANGED <<upload, paid, debt, review, cutoff>>,
         RunTyped', purge'.phase # "rest" => purge'.cutoff <= cutoff, purge'.todo \subseteq purge.todo,
         \A o \in objects : o \notin receipts[u].objects => o \in objects'
  PROVE  ReceiptsInv'
<1>1. u \in Uploads /\ u \in Rows
      /\ \A v \in Uploads : receipts[v] = NoReceipt \/ receipts[v].born > cutoff =>
           \A o \in MadeBoth(v) : o \in objects => o \in objects'
  BY TakesTheDue
<1>2. row.status # "NONE"
  BY <1>1, RowThere
<1>3. /\ receipts' \in [Uploads -> ReceiptRows] /\ receipts'[u] = row
      /\ \A v \in Uploads \ {u} : receipts'[v] = receipts[v]
      /\ RowsKeep /\ Rows' = Rows
      /\ \A v \in Uploads : RowOf(v)'
  BY <1>1, <1>2, StatusKept
<1>4. (\A v \in Uploads : PaidAt(v)') /\ Used' = Used /\ (debt + PaidSum = SaleTotal)'
  BY <1>3, MoneyKept
<1>5. ReceiptsTyped'
  BY <1>3, <1>4 DEF ReceiptsInv, ReceiptsTyped, RunTyped
<1>6. (\A v \in Uploads : UploadAt(v)') /\ OneRowPerKey'
  <2>1. cutoff <= cutoff' /\ cutoff' = cutoff
    BY DEF ReceiptsInv, ReceiptsTyped
  <2> QED
    BY <1>1, <1>3, <1>5, <2>1, UploadsKept
<1>7. PurgeDue'
  BY <1>3 DEF ReceiptsInv, PurgeDue, RowsKeep, Rows
<1> QED
  BY <1>3, <1>4, <1>5, <1>6, <1>7 DEF ReceiptsInv

LEMMA MarkPurgedKept == ASSUME ReceiptsInv, NEW u \in Uploads, MarkPurged(u) PROVE ReceiptsInv'
<1>1. PICK row : row = [receipts[u] EXCEPT !.purged = TRUE]
  OBVIOUS
<1>2. receipts[u] \in ReceiptRows /\ u \in purge.todo /\ purge.phase = "mark"
      /\ purge.cutoff \in Nat /\ purge.cutoff <= cutoff
  BY DEF MarkPurged, ReceiptsInv, ReceiptsTyped, PurgeDue
<1>3. /\ row \in ReceiptRows /\ row.status = receipts[u].status /\ row.key = receipts[u].key
      /\ row.file = receipts[u].file /\ row.objects = receipts[u].objects /\ row.born = receipts[u].born
      /\ row.review = receipts[u].review
  BY <1>1, <1>2 DEF ReceiptRows
<1>4. receipts' = [receipts EXCEPT ![u] = row] /\ UNCHANGED <<objects, upload, paid, debt, review, cutoff>>
  BY <1>1 DEF MarkPurged, ReceiptsInv, ReceiptsTyped, saleVars
<1>5. purge' = [phase |-> "work", cutoff |-> purge.cutoff, batches |-> purge.batches,
                full |-> purge.full, todo |-> purge.todo \ {u}, failed |-> purge.failed]
  BY DEF MarkPurged, ReceiptsInv, ReceiptsTyped
<1>6. RunTyped' /\ (purge'.phase # "rest" => purge'.cutoff <= cutoff) /\ purge'.todo \subseteq purge.todo
  BY <1>2, <1>5 DEF RunTyped
<1> QED
  BY <1>2, <1>3, <1>4, <1>6, RunWrites

LEMMA RemoveFailsKept == ASSUME ReceiptsInv, NEW u \in Uploads, RemoveFails(u) PROVE ReceiptsInv'
<1>1. PICK tries : tries = IF receipts[u].attempts < MaxAttempts THEN receipts[u].attempts + 1 ELSE receipts[u].attempts
  OBVIOUS
<1>2. PICK row : row = [receipts[u] EXCEPT !.attempts = tries]
  OBVIOUS
<1>3. receipts[u] \in ReceiptRows /\ u \in purge.todo /\ purge.phase = "work"
      /\ purge.cutoff \in Nat /\ purge.cutoff <= cutoff
  BY DEF RemoveFails, ToPurge, ReceiptsInv, ReceiptsTyped, PurgeDue
<1>4. tries \in Nat
  BY <1>1, <1>3 DEF ReceiptRows
<1>5. /\ row \in ReceiptRows /\ row.status = receipts[u].status /\ row.key = receipts[u].key
      /\ row.file = receipts[u].file /\ row.objects = receipts[u].objects /\ row.born = receipts[u].born
      /\ row.review = receipts[u].review
  BY <1>2, <1>3, <1>4 DEF ReceiptRows
<1>6. receipts' = [receipts EXCEPT ![u] = row] /\ UNCHANGED <<upload, paid, debt, review, cutoff>>
  BY <1>1, <1>2, <1>3 DEF RemoveFails, ReceiptsInv, ReceiptsTyped, ReceiptRows, saleVars
<1>7. purge' = [phase |-> purge.phase, cutoff |-> purge.cutoff, batches |-> purge.batches,
                full |-> purge.full, todo |-> purge.todo \ {u}, failed |-> purge.failed \cup {u}]
  BY DEF RemoveFails, ReceiptsInv, ReceiptsTyped
<1>8. RunTyped' /\ (purge'.phase # "rest" => purge'.cutoff <= cutoff) /\ purge'.todo \subseteq purge.todo
  BY <1>3, <1>7 DEF RunTyped
<1>9. \A o \in objects : o \notin receipts[u].objects => o \in objects'
  BY DEF RemoveFails
<1> QED
  BY <1>3, <1>5, <1>6, <1>8, <1>9, RunWrites

-----------------------------------------------------------------------------
LEMMA ReceiptsInvAtFirst == ReceiptsInit => ReceiptsInv
<1> SUFFICES ASSUME ReceiptsInit PROVE ReceiptsInv
  OBVIOUS
<1>1. NoReceipt \in ReceiptRows /\ NotCalled \in UploadCalls /\ NoReview \in ReviewTasks
  BY DEF NoReceipt, ReceiptRows, NotCalled, UploadCalls, ReviewTasks
<1>2. Rows = {} /\ Used = {}
  BY DEF ReceiptsInit, Rows, Used
<1>3. IsFiniteSet(Rows) /\ IsFiniteSet(Used)
  BY <1>2, FS_EmptySet
<1>4. purge.phase = "rest" /\ purge.todo = {} /\ purge.cutoff = 0 /\ RunTyped /\ debt = SaleTotal /\ SaleTotal \in Nat
  BY ReceiptsAssumption DEF ReceiptsInit, NoRun, RunTyped
<1>5. ReceiptsTyped
  BY <1>1, <1>3, <1>4 DEF ReceiptsInit, ReceiptsTyped, RunTyped
<1>6. PaidSum = 0
  <2>1. PaidSum = SumFunctionOnSet([k \in Used |-> paid[k].amount], Used)
    BY DEF PaidSum, SumFunction
  <2> QED
    BY <1>2, <2>1, SumOfNone
<1>7. \A u \in Uploads : UploadAt(u) /\ RowOf(u) /\ PaidAt(u)
  BY <1>2, ReceiptsAssumption DEF ReceiptsInit, UploadAt, RowOf, PaidAt, NotCalled, NoReceipt
<1> QED
  BY <1>2, <1>4, <1>5, <1>6, <1>7 DEF ReceiptsInv, OneRowPerKey, PurgeDue

LEMMA ReceiptsStepKept == ReceiptsInv /\ [ReceiptsNext]_receiptVars => ReceiptsInv'
<1> SUFFICES ASSUME ReceiptsInv, [ReceiptsNext]_receiptVars PROVE ReceiptsInv'
  OBVIOUS
<1>1. ASSUME NEW u \in Uploads, NEW key \in MediaKeys, NEW file \in Files, Upload(u, key, file)
      PROVE  ReceiptsInv'
  BY <1>1, UploadKept
<1>2. ASSUME NEW u \in Uploads,
             \/ StoreOriginal(u) \/ StoreFails(u) \/ StorePreview(u)
             \/ InsertRow(u) \/ InsertRefused(u) \/ Discard(u) \/ UploadDies(u)
             \/ AttachLegacy(u)
             \/ RemoveFails(u) \/ RemoveObjects(u) \/ MarkPurged(u)
      PROVE  ReceiptsInv'
  BY <1>2, StoreOriginalKept, StoreFailsKept, StorePreviewKept, InsertRowKept, InsertRefusedKept,
     DiscardKept, UploadDiesKept, AttachLegacyKept, RemoveFailsKept, RemoveObjectsKept, MarkPurgedKept
<1>3. ASSUME NEW h \in Checkers, NEW u \in Uploads, ReadToReject(h, u) PROVE ReceiptsInv'
  BY <1>3, ReadToRejectKept
<1>4. ASSUME NEW h \in Checkers, NEW u \in Uploads, NEW amount \in PayAmounts, NEW key \in PayKeys,
             ReadToConfirm(h, u, amount, key)
      PROVE  ReceiptsInv'
  BY <1>4, ReadToConfirmKept
<1>5. ASSUME NEW h \in Checkers, ConfirmReceipt(h) \/ RejectReceipt(h) \/ ReviewFails(h) PROVE ReceiptsInv'
  BY <1>5, ConfirmKept, RejectKept, ReviewFailsKept
<1>6. ASSUME NEW key \in PayKeys, NEW amount \in PayAmounts, CollectElsewhere(key, amount) PROVE ReceiptsInv'
  BY <1>6, CollectKept
<1>7. CASE CancelSale \/ Age \/ StartRun \/ ScanReceipts \/ EndBatch \/ PurgeDies
  BY <1>7, CancelSaleKept, AgeKept, StartRunKept, ScanReceiptsKept, EndBatchKept, PurgeDiesKept
<1>8. CASE UNCHANGED receiptVars
  <2>1. UNCHANGED <<receipts, objects, upload, paid, debt, review, purge, cutoff>>
    BY <1>8 DEF receiptVars, uploadVars, saleVars, purgeVars
  <2> QED
    BY <2>1, TaskKept DEF ReceiptsInv, ReceiptsTyped
<1> QED
  BY <1>1, <1>2, <1>3, <1>4, <1>5, <1>6, <1>7, <1>8 DEF ReceiptsNext, PurgeStep

LEMMA ReceiptsInvAlways == ReceiptsSpec => []ReceiptsInv
BY ReceiptsInvAtFirst, ReceiptsStepKept, PTL DEF ReceiptsSpec

(* Whoever uploads a receipt is answered with a row of his own file.       *)
THEOREM UploadsAreAnsweredTruly == ReceiptsSpec => []AnsweredWithOwnFile
<1>1. ReceiptsInv => AnsweredWithOwnFile
  BY DEF ReceiptsInv, AnsweredWithOwnFile, OneRowPerKey, UploadAt
<1> QED
  BY <1>1, ReceiptsInvAlways, PTL

(* A receipt keeps its objects until it is due, whoever is told of it,     *)
(* unless its own upload ended without hearing of it (discardObjects).     *)
THEOREM ReceiptsAreKept == ReceiptsSpec => []StoredUntilDue
<1>1. ReceiptsInv => StoredUntilDue
  BY DEF ReceiptsInv, StoredUntilDue, Unheard, UploadAt
<1> QED
  BY <1>1, ReceiptsInvAlways, PTL

(* A receipt pays the sale once, when it is confirmed, and the payments    *)
(* and the debt make up the total.                                         *)
THEOREM ReceiptsPayOnce == ReceiptsSpec => []PaidOncePerReceipt
<1>1. ReceiptsInv => PaidOncePerReceipt
  <2> SUFFICES ASSUME ReceiptsInv PROVE PaidOncePerReceipt
    OBVIOUS
  <2>1. ASSUME NEW u \in Uploads PROVE Cardinality({k \in Used : paid[k].receipt = u}) <= 1
    <3> DEFINE paying == {k \in Used : paid[k].receipt = u}
    <3>1. CASE paying = {}
      BY <3>1, FS_EmptySet
    <3>2. ASSUME NEW k \in paying PROVE Cardinality(paying) <= 1
      <4>1. paying = {k}
        BY <3>2 DEF ReceiptsInv, PaidAt
      <4>2. Cardinality({k}) = 1
        BY FS_Singleton, Zenon
      <4> QED
        BY <4>1, <4>2
    <3> QED
      BY <3>1, <3>2
  <2>2. debt + SumFunction([k \in Used |-> paid[k].amount]) = SaleTotal
    BY DEF ReceiptsInv, PaidSum
  <2> QED
    BY <2>1, <2>2 DEF ReceiptsInv, PaidAt, PaidOncePerReceipt, Used
<1> QED
  BY <1>1, ReceiptsInvAlways, PTL

-----------------------------------------------------------------------------
(* Human decisions *)

Saying == Sayings \cup {Absent}
Answer == [key : ReviewKeys \cup {Absent}, by : Reviewers \cup {Absent}, says : Saying]
Reply == [key : ReviewKeys, by : Reviewers, says : Sayings]

AskRow ==
  [status : {"NONE", "PENDING", "RESOLVED"}, body : Questions \cup {Absent}, answer : Answer,
   at : Nat, ack : Evidences \cup {NoEvidence}, check : Checks \cup {0}]

CheckRow == [status : {"NONE", "PENDING", "RESOLVED"}, zip : Zips \cup {Absent}, answer : Answer]

TablesTyped ==
  /\ asked \in [AskIds -> AskRow]
  /\ zones \in [Zips -> [says : Saying, active : BOOLEAN]]
  /\ checks \in [Checks -> CheckRow]
  /\ work = [h \in Handlers |-> work[h]]
  /\ clock \in Nat

Command ==
  [do : {"intake"}, key : AskKeys, body : Questions]
    \cup [do : {"resolve"}, id : {id \in AskIds : id[1] = "decision"}, answer : Reply]
    \cup [do : {"settle"}, check : Checks, answer : Reply]
    \cup [do : {"ack"}, id : AskIds, evidence : Evidences]
    \cup [do : {"edit"}, zip : Zips, says : Saying]

(* A row is under the key and in the table of its body, and a requester    *)
(* waits for an open validation of his postal code.                        *)
RowAt(id) ==
  /\ asked[id] # NoRow => asked[id].status \in {"PENDING", "RESOLVED"} /\ asked[id].body \in Questions
  /\ asked[id].status = "PENDING" /\ asked[id].body.type = "ZONE" =>
       asked[id].check \in OpenChecks(asked[id].body.about)

CheckAt(c) ==
  checks[c] # NoCheck => checks[c].status \in {"PENDING", "RESOLVED"} /\ checks[c].zip \in Zips

ZoneAt(z) ==
  /\ \A c, d \in OpenChecks(z) : c = d
  /\ zones[z].active => OpenChecks(z) = {}

(* What a handler has read still stands: for good, or under its lock.      *)
Reading(h) == work[h].phase = "read"
Lock(h) == LockOf(work[h].cmd)

Sees(h) ==
  LET cmd == work[h].cmd
      saw == work[h].saw IN
  Reading(h) =>
    /\ cmd \in Command
    /\ cmd.do = "intake" =>
         /\ saw.row # NoRow => asked[IdOf(cmd.key, cmd.body)] # NoRow
                                 /\ asked[IdOf(cmd.key, cmd.body)].body = saw.row.body
         /\ saw.eligible /\ cmd.body.after # Absent =>
              asked[<<"decision", cmd.body.after>>].ack.outcome = "STALE"
         /\ cmd.body.type = "ZONE" => saw.zone = zones[cmd.body.about]
                                        /\ saw.open = OpenChecks(cmd.body.about)
    /\ cmd.do \in {"resolve", "ack"} => asked[cmd.id] # NoRow
    /\ cmd.do = "ack" /\ saw.row.status = "RESOLVED" => asked[cmd.id].status = "RESOLVED"
    /\ cmd.do = "settle" => /\ checks[cmd.check] # NoCheck
                            /\ saw.row.status = "RESOLVED" => checks[cmd.check] = saw.row
    /\ cmd.do = "edit" => saw.open = OpenChecks(cmd.zip)

(* What a handler has answered stays in the books.                         *)
Stands(h) ==
  LET cmd == work[h].cmd IN
  work[h].phase = "ok" =>
    /\ cmd \in Command
    /\ cmd.do = "intake" => asked[IdOf(cmd.key, cmd.body)] # NoRow
                              /\ asked[IdOf(cmd.key, cmd.body)].body = cmd.body
    /\ cmd.do = "resolve" => asked[cmd.id].status = "RESOLVED" /\ asked[cmd.id].answer = cmd.answer
    /\ cmd.do = "settle" => checks[cmd.check].status = "RESOLVED"
                              /\ checks[cmd.check].answer = cmd.answer
    /\ cmd.do = "ack" => asked[cmd.id].ack = cmd.evidence

LocksApart == \A g, h \in Handlers : g # h /\ Reading(g) /\ Reading(h) /\ Lock(g) = Lock(h) => Lock(g) = Absent

DecisionsInv ==
  /\ TablesTyped
  /\ \A id \in AskIds : RowAt(id)
  /\ \A c \in Checks : CheckAt(c)
  /\ \A z \in Zips : ZoneAt(z)
  /\ \A h \in Handlers : Sees(h) /\ Stands(h)
  /\ LocksApart
  /\ OneLiveDecisionPerChain

(* The rows of the questions and of the validations only ever fill up.     *)
RowsStay ==
  \A id \in AskIds : asked[id] # NoRow =>
    /\ asked'[id] # NoRow /\ asked'[id].body = asked[id].body
    /\ asked[id].ack # NoEvidence => asked'[id].ack = asked[id].ack
    /\ asked[id].status = "RESOLVED" =>
         asked'[id].status = "RESOLVED" /\ asked'[id].answer = asked[id].answer

ChecksStay ==
  \A c \in Checks : checks[c] # NoCheck =>
    /\ checks'[c] # NoCheck /\ checks'[c].zip = checks[c].zip
    /\ checks[c].status = "RESOLVED" => checks'[c] = checks[c]

ZipStays(z) == zones'[z] = zones[z] /\ OpenChecks(z)' = OpenChecks(z)

(* What is known of a command by what it does.                             *)
LEMMA CommandShape ==
  ASSUME NEW cmd \in Command
  PROVE  /\ cmd.do \in {"intake", "resolve", "settle", "ack", "edit"}
         /\ cmd.do = "intake" => /\ cmd.key \in AskKeys /\ cmd.body \in Questions
                                 /\ IdOf(cmd.key, cmd.body) \in AskIds
                                 /\ cmd.body.after \in AskKeys \cup {Absent}
                                 /\ cmd.body.type \in DecisionTypes \cup {"ZONE"}
                                 /\ cmd.body.type = "ZONE" => cmd.body.about \in Zips /\ cmd.body.after = Absent
         /\ cmd.do = "resolve" => cmd.id \in AskIds /\ cmd.answer \in Reply
         /\ cmd.do = "settle" => cmd.check \in Checks /\ cmd.answer \in Reply
         /\ cmd.do = "ack" => cmd.id \in AskIds /\ cmd.evidence \in Evidences /\ cmd.evidence # NoEvidence
         /\ cmd.do = "edit" => cmd.zip \in Zips /\ cmd.says \in Saying
<1>1. \A e \in Evidences : e # NoEvidence
  BY QuestionsAssumption DEF Evidence, NoEvidence
<1>2. \A q \in Questions : /\ q.after \in AskKeys \cup {Absent} /\ q.type \in DecisionTypes \cup {"ZONE"}
                           /\ q.type = "ZONE" => q.about \in Zips /\ q.after = Absent
  BY QuestionsAssumption DEF Question
<1>3. \A key \in AskKeys : \A body : IdOf(key, body) \in AskIds
  BY DEF IdOf, AskIds
<1> QED
  BY <1>1, <1>2, <1>3 DEF Command

(* A handler that waits while another works still sees what it has read.   *)
LEMMA OthersSee ==
  ASSUME DecisionsInv, RowsStay, ChecksStay, NEW h \in Handlers, work'[h] = work[h],
         Reading(h) /\ Lock(h) # Absent => ZipStays(Lock(h))
  PROVE  /\ Sees(h)' /\ Stands(h)'
         /\ Reading(h)' <=> Reading(h)
         /\ Reading(h) => Lock(h)' = Lock(h)
<1> DEFINE cmd == work[h].cmd
           saw == work[h].saw
<1>1. Sees(h) /\ Stands(h)
  BY DEF DecisionsInv
<1>2. Stands(h)'
  <2> SUFFICES ASSUME work[h].phase = "ok", cmd \in Command
               PROVE  Stands(h)'
    BY <1>1 DEF Stands
  <2>1. /\ cmd.do = "intake" => IdOf(cmd.key, cmd.body) \in AskIds
        /\ cmd.do \in {"resolve", "ack"} => cmd.id \in AskIds
        /\ cmd.do = "settle" => cmd.check \in Checks
        /\ cmd.do = "ack" => cmd.evidence # NoEvidence
    BY CommandShape
  <2>2. \A id \in AskIds : asked[id].status = "RESOLVED" \/ asked[id].ack # NoEvidence => asked[id] # NoRow
    BY DEF NoRow
  <2>3. \A c \in Checks : checks[c].status = "RESOLVED" => checks[c] # NoCheck
    BY DEF NoCheck
  <2> QED
    BY <1>1, <2>1, <2>2, <2>3 DEF Stands, RowsStay, ChecksStay
<1>3. Sees(h)' /\ (Reading(h) => Lock(h)' = Lock(h))
  <2> SUFFICES ASSUME Reading(h), cmd \in Command
               PROVE  Sees(h)' /\ Lock(h)' = Lock(h)
    BY <1>1 DEF Sees, Reading
  <2>1. CASE cmd.do = "intake"
    <3> DEFINE id == IdOf(cmd.key, cmd.body)
    <3>1. id \in AskIds /\ id' = id
      BY <2>1, CommandShape DEF IdOf
    <3>2. saw.eligible /\ cmd.body.after # Absent =>
            asked'[<<"decision", cmd.body.after>>].ack.outcome = "STALE"
      <4> SUFFICES ASSUME saw.eligible, cmd.body.after # Absent
                   PROVE  asked'[<<"decision", cmd.body.after>>].ack.outcome = "STALE"
        OBVIOUS
      <4>1. <<"decision", cmd.body.after>> \in AskIds
        BY <2>1, CommandShape DEF AskIds
      <4>2. asked[<<"decision", cmd.body.after>>].ack.outcome = "STALE"
        BY <1>1, <2>1 DEF Sees, Reading
      <4>3. /\ asked[<<"decision", cmd.body.after>>].ack # NoEvidence
            /\ asked[<<"decision", cmd.body.after>>] # NoRow
        BY <4>2 DEF NoEvidence, NoRow
      <4> QED
        BY <4>1, <4>2, <4>3 DEF RowsStay
    <3>3. cmd.body.type = "ZONE" => Lock(h) = cmd.body.about /\ Lock(h) \in Zips /\ Lock(h) # Absent
      BY <2>1, CommandShape, QuestionsAssumption DEF Lock, LockOf
    <3>4. Lock(h)' = Lock(h)
      BY <2>1 DEF Lock, LockOf
    <3>5. saw.row # NoRow => asked'[id] # NoRow /\ asked'[id].body = saw.row.body
      BY <1>1, <2>1, <3>1 DEF Sees, Reading, RowsStay
    <3>6. PICK z : z = cmd.body.about
      OBVIOUS
    <3>7. cmd.body.type = "ZONE" => saw.zone = zones'[z] /\ saw.open = OpenChecks(z)'
      <4>1. cmd.body.type = "ZONE" => saw.zone = zones[z] /\ saw.open = OpenChecks(z)
        BY <1>1, <2>1, <3>6 DEF Sees, Reading
      <4>2. cmd.body.type = "ZONE" => ZipStays(z)
        BY <3>3, <3>6
      <4> QED
        BY <4>1, <4>2 DEF ZipStays
    <3>8. work'[h].cmd = cmd /\ work'[h].saw = saw /\ cmd.do = "intake"
      BY <2>1
    <3> QED
      BY <3>1, <3>2, <3>4, <3>5, <3>6, <3>7, <3>8 DEF Sees, Reading
  <2>2. CASE cmd.do \in {"resolve", "ack"}
    <3>1. cmd.id \in AskIds /\ Lock(h)' = Lock(h)
      BY <2>2, CommandShape DEF Lock, LockOf
    <3> QED
      BY <1>1, <2>2, <3>1 DEF Sees, Reading, RowsStay
  <2>3. CASE cmd.do = "settle"
    <3>1. cmd.check \in Checks /\ checks[cmd.check] # NoCheck
      BY <1>1, <2>3, CommandShape DEF Sees, Reading
    <3>2. Lock(h)' = Lock(h)
      BY <2>3, <3>1 DEF Lock, LockOf, ChecksStay
    <3> QED
      BY <1>1, <2>3, <3>1, <3>2 DEF Sees, Reading, ChecksStay
  <2>4. CASE cmd.do = "edit"
    <3>1. Lock(h) = cmd.zip /\ Lock(h)' = cmd.zip /\ cmd.zip \in Zips /\ Absent \notin Zips
      BY <2>4, CommandShape, QuestionsAssumption DEF Lock, LockOf
    <3>2. Lock(h) # Absent
      BY <3>1
    <3> QED
      BY <1>1, <2>4, <3>1, <3>2 DEF Sees, Reading, ZipStays
  <2> QED
    BY <2>1, <2>2, <2>3, <2>4, CommandShape
<1> QED
  BY <1>2, <1>3 DEF Reading

(* A handler that answers lets go of its lock; nobody else had that.       *)
LEMMA AnswerKept ==
  ASSUME DecisionsInv, NEW h \in Handlers, Reading(h), Answers(h), Stands(h)',
         RowsStay, ChecksStay, \A z \in Zips \ {Lock(h)} : ZipStays(z),
         \A g \in Handlers : Reading(g) => Lock(g) \in Zips \cup {Absent},
         TablesTyped', \A id \in AskIds : RowAt(id)', \A c \in Checks : CheckAt(c)',
         \A z \in Zips : ZoneAt(z)', OneLiveDecisionPerChain'
  PROVE  DecisionsInv'
<1>1. /\ work'[h].phase = "ok" /\ \A g \in Handlers \ {h} : work'[g] = work[g]
      /\ ~Reading(h)'
  BY DEF Answers, DecisionsInv, TablesTyped, NoWork, Reading
<1>2. \A g \in Handlers \ {h} : /\ Sees(g)' /\ Stands(g)'
                                /\ Reading(g)' <=> Reading(g)
                                /\ Reading(g) => Lock(g)' = Lock(g)
  <2> TAKE g \in Handlers \ {h}
  <2>1. Reading(g) /\ Lock(g) # Absent => Lock(g) # Lock(h) /\ Lock(g) \in Zips
    BY DEF DecisionsInv, LocksApart
  <2> QED
    BY <1>1, <2>1, OthersSee
<1>3. Sees(h)'
  BY <1>1 DEF Sees
<1>4. LocksApart'
  BY <1>1, <1>2 DEF DecisionsInv, LocksApart
<1> QED
  BY <1>2, <1>3, <1>4 DEF DecisionsInv

(* Whose lock a handler holds.                                             *)
LEMMA LocksTyped ==
  ASSUME DecisionsInv, NEW h \in Handlers, Reading(h)
  PROVE  Lock(h) \in Zips \cup {Absent}
<1>1. Sees(h) /\ work[h].cmd \in Command
  BY DEF DecisionsInv, Sees
<1>2. work[h].cmd.do = "settle" => work[h].cmd.check \in Checks /\ checks[work[h].cmd.check] # NoCheck
  BY <1>1, CommandShape DEF Sees
<1>3. \A c \in Checks : checks[c] # NoCheck => checks[c].zip \in Zips
  BY DEF DecisionsInv, CheckAt
<1> QED
  BY <1>1, <1>2, <1>3, CommandShape DEF Lock, LockOf

-----------------------------------------------------------------------------
(* Steps that touch no table *)

(* A command begins with what its first statements read, and with a lock   *)
(* that nobody has.                                                        *)
LEMMA BeginKept ==
  ASSUME DecisionsInv, NEW h \in Handlers, NEW cmd \in Commands, Begin(h, cmd)
  PROVE  DecisionsInv'
<1>1. /\ work' = [work EXCEPT ![h] = [phase |-> "read", cmd |-> cmd, saw |-> Sight(cmd)]]
      /\ UNCHANGED <<asked, zones, checks, clock>>
  BY DEF Begin
<1>2. /\ work'[h].phase = "read" /\ work'[h].cmd = cmd /\ work'[h].saw = Sight(cmd)
      /\ \A g \in Handlers \ {h} : work'[g] = work[g]
      /\ work' = [g \in Handlers |-> work'[g]]
  BY <1>1 DEF DecisionsInv, TablesTyped
<1>3. RowsStay /\ ChecksStay /\ \A z : ZipStays(z)
  BY <1>1 DEF RowsStay, ChecksStay, ZipStays, OpenChecks
<1>4. \A g \in Handlers \ {h} : /\ Sees(g)' /\ Stands(g)'
                                /\ Reading(g)' <=> Reading(g)
                                /\ Reading(g) => Lock(g)' = Lock(g)
  BY <1>2, <1>3, OthersSee
<1>5. cmd \in Command
  BY DEF Commands, Command, Reply, Saying
<1>6. Sees(h)'
  <2>1. CASE cmd.do = "intake"
    <3>1. Sight(cmd) = [row |-> asked[IdOf(cmd.key, cmd.body)],
             eligible |-> cmd.body.after = Absent \/ Supersedable(cmd.body.after),
             zone |-> IF cmd.body.type = "ZONE" THEN zones[cmd.body.about] ELSE Absent,
             open |-> IF cmd.body.type = "ZONE" THEN OpenChecks(cmd.body.about) ELSE {}]
      BY <2>1 DEF Sight
    <3>2. /\ Sight(cmd).row = asked[IdOf(cmd.key, cmd.body)]
          /\ Sight(cmd).eligible /\ cmd.body.after # Absent =>
               asked[<<"decision", cmd.body.after>>].ack.outcome = "STALE"
          /\ cmd.body.type = "ZONE" => Sight(cmd).zone = zones[cmd.body.about]
                                         /\ Sight(cmd).open = OpenChecks(cmd.body.about)
      <4>1. Sight(cmd).eligible = (cmd.body.after = Absent \/ Supersedable(cmd.body.after))
        BY <3>1
      <4>2. Sight(cmd).eligible /\ cmd.body.after # Absent => Supersedable(cmd.body.after)
        BY <4>1, Zenon
      <4> QED
        BY <3>1, <4>2 DEF Supersedable
    <3> QED
      BY <1>1, <1>2, <1>5, <2>1, <3>2 DEF Sees, Reading, IdOf, OpenChecks
  <2>2. CASE cmd.do \in {"resolve", "ack"}
    <3>1. cmd.id \in AskIds /\ asked[cmd.id] # NoRow /\ Sight(cmd).row = asked[cmd.id]
      BY <2>2 DEF Commands, Sight
    <3> QED
      BY <1>1, <1>2, <1>5, <2>2, <3>1 DEF Sees, Reading
  <2>3. CASE cmd.do = "settle"
    <3>1. cmd.check \in Checks /\ checks[cmd.check] # NoCheck /\ Sight(cmd).row = checks[cmd.check]
      BY <2>3 DEF Commands, Sight
    <3> QED
      BY <1>1, <1>2, <1>5, <2>3, <3>1 DEF Sees, Reading
  <2>4. CASE cmd.do = "edit"
    <3>1. Sight(cmd).open = OpenChecks(cmd.zip)
      BY <2>4 DEF Sight
    <3> QED
      BY <1>1, <1>2, <1>5, <2>4, <3>1 DEF Sees, Reading, OpenChecks
  <2> QED
    BY <1>5, <2>1, <2>2, <2>3, <2>4, CommandShape
<1>7. Stands(h)'
  BY <1>2 DEF Stands
<1>8. LocksApart'
  <2>1. LockOf(cmd)' = LockOf(cmd)
    BY <1>1 DEF LockOf
  <2>2. \A g \in Handlers \ {h} : Reading(g) => Lock(g) # LockOf(cmd) \/ Lock(g) = Absent
    BY DEF Begin, LockFree, Reading, Lock
  <2>3. Lock(h)' = LockOf(cmd)
    BY <1>2, <2>1 DEF Lock
  <2> QED
    BY <1>4, <2>2, <2>3 DEF DecisionsInv, LocksApart
<1>9. TablesTyped' /\ \A id \in AskIds : RowAt(id)'
  BY <1>1, <1>2 DEF DecisionsInv, TablesTyped, RowAt, OpenChecks
<1>10. /\ \A c \in Checks : CheckAt(c)'
       /\ \A z \in Zips : ZoneAt(z)'
       /\ OneLiveDecisionPerChain'
  BY <1>1 DEF DecisionsInv, CheckAt, ZoneAt, OpenChecks, OneLiveDecisionPerChain
<1> QED
  BY <1>4, <1>6, <1>7, <1>8, <1>9, <1>10 DEF DecisionsInv

(* A handler that answers, gives up or dies without having written.        *)
LEMMA NothingDoneKept ==
  ASSUME DecisionsInv, NEW h \in Handlers, UNCHANGED <<asked, zones, checks>>, clock' \in Nat,
         work' = [g \in Handlers |-> work'[g]],
         \A g \in Handlers \ {h} : work'[g] = work[g],
         work'[h] = work[h] \/ (~Reading(h)' /\ Stands(h)')
  PROVE  DecisionsInv'
<1>1. RowsStay /\ ChecksStay /\ \A z : ZipStays(z)
  BY DEF RowsStay, ChecksStay, ZipStays, OpenChecks
<1>2. \A g \in Handlers : work'[g] = work[g] =>
        /\ Sees(g)' /\ Stands(g)'
        /\ Reading(g)' <=> Reading(g)
        /\ Reading(g) => Lock(g)' = Lock(g)
  BY <1>1, OthersSee
<1>3. \A g \in Handlers : Sees(g)' /\ Stands(g)'
  <2> TAKE g \in Handlers
  <2>1. CASE work'[g] = work[g]
    BY <1>2, <2>1
  <2>2. CASE work'[g] # work[g]
    <3>1. g = h /\ ~Reading(h)' /\ Stands(h)'
      BY <2>2
    <3>2. Sees(h)'
      BY <3>1 DEF Sees
    <3> QED
      BY <3>1, <3>2
  <2> QED
    BY <2>1, <2>2
<1>4. LocksApart'
  BY <1>2 DEF DecisionsInv, LocksApart
<1>5. TablesTyped' /\ \A id \in AskIds : RowAt(id)'
  BY DEF DecisionsInv, TablesTyped, RowAt, OpenChecks
<1>6. /\ \A c \in Checks : CheckAt(c)'
      /\ \A z \in Zips : ZoneAt(z)'
      /\ OneLiveDecisionPerChain'
  BY DEF DecisionsInv, CheckAt, ZoneAt, OpenChecks, OneLiveDecisionPerChain
<1> QED
  BY <1>3, <1>4, <1>5, <1>6 DEF DecisionsInv

LEMMA FailKept == ASSUME DecisionsInv, NEW h \in Handlers, Fail(h) PROVE DecisionsInv'
<1>1. /\ work' = [g \in Handlers |-> work'[g]] /\ \A g \in Handlers \ {h} : work'[g] = work[g]
      /\ ~Reading(h)' /\ Stands(h)'
  BY DEF Fail, DecisionsInv, TablesTyped, Reading, Stands, NoWork
<1> QED
  BY <1>1, NothingDoneKept DEF Fail, DecisionsInv, TablesTyped

LEMMA TickKept == ASSUME DecisionsInv, Tick PROVE DecisionsInv'
<1>1. clock' \in Nat /\ UNCHANGED <<asked, zones, checks, work>>
  BY DEF Tick, DecisionsInv, TablesTyped
<1>2. work' = [g \in Handlers |-> work'[g]]
  BY <1>1 DEF DecisionsInv, TablesTyped
<1>3. CASE Handlers = {}
  <2>1. TablesTyped' /\ \A id \in AskIds : RowAt(id)'
    BY <1>1, <1>2 DEF DecisionsInv, TablesTyped, RowAt, OpenChecks
  <2>2. /\ \A c \in Checks : CheckAt(c)'
        /\ \A z \in Zips : ZoneAt(z)'
        /\ OneLiveDecisionPerChain'
    BY <1>1 DEF DecisionsInv, CheckAt, ZoneAt, OpenChecks, OneLiveDecisionPerChain
  <2> QED
    BY <1>3, <2>1, <2>2 DEF DecisionsInv, LocksApart
<1>4. CASE \E h : h \in Handlers
  BY <1>1, <1>2, <1>4, NothingDoneKept
<1> QED
  BY <1>3, <1>4

(* A replay tells what the books say.                                      *)
LEMMA ReplayKept ==
  ASSUME DecisionsInv, NEW h \in Handlers,
         ReplayIntake(h) \/ ReplayResolve(h) \/ ReplaySettle(h) \/ ReplayAck(h)
  PROVE  DecisionsInv'
<1> DEFINE cmd == work[h].cmd
<1>1. Sees(h) /\ Reading(h) /\ cmd \in Command
  BY DEF DecisionsInv, ReplayIntake, ReplayResolve, ReplaySettle, ReplayAck, Doing, Reading, Sees
<1>2. Answers(h) /\ UNCHANGED <<asked, zones, checks, begun, clock>>
  BY DEF ReplayIntake, ReplayResolve, ReplaySettle, ReplayAck
<1>3. /\ work'[h].phase = "ok" /\ work'[h].cmd = cmd /\ \A g \in Handlers \ {h} : work'[g] = work[g]
      /\ work' = [g \in Handlers |-> work'[g]]
  BY <1>2 DEF Answers, DecisionsInv, TablesTyped, NoWork
<1>4. Stands(h)'
  <2>1. CASE ReplayIntake(h)
    BY <1>1, <1>2, <1>3, <2>1 DEF ReplayIntake, Doing, Stands, Sees, Reading, IdOf
  <2>2. CASE ReplayResolve(h)
    BY <1>1, <1>2, <1>3, <2>2 DEF ReplayResolve, SameAnswer, Doing, Stands
  <2>3. CASE ReplaySettle(h)
    BY <1>1, <1>2, <1>3, <2>3 DEF ReplaySettle, SameAnswer, Doing, Stands, Sees, Reading
  <2>4. CASE ReplayAck(h)
    BY <1>1, <1>2, <1>3, <2>4 DEF ReplayAck, Doing, Stands
  <2> QED
    BY <2>1, <2>2, <2>3, <2>4
<1>5. ~Reading(h)' /\ clock' \in Nat
  BY <1>2, <1>3 DEF Reading, DecisionsInv, TablesTyped
<1> QED
  BY <1>2, <1>3, <1>4, <1>5, NothingDoneKept

-----------------------------------------------------------------------------
(* Intakes *)

(* A new row takes a free place, replaces at most what was never sent, and *)
(* waits for an open validation if it waits.                               *)
LEMMA InsertKept ==
  ASSUME DecisionsInv, NEW h \in Handlers, NewRow(h), NEW row \in AskRow, Inserts(h, row), Answers(h),
         row.body = work[h].cmd.body, row.status \in {"PENDING", "RESOLVED"},
         UNCHANGED <<zones, clock>>, checks' \in [Checks -> CheckRow], ChecksStay,
         \A z \in Zips \ {Lock(h)} : OpenChecks(z)' = OpenChecks(z),
         \A z \in Zips : OpenChecks(z) \subseteq OpenChecks(z)',
         \A c \in Checks : CheckAt(c)', \A z \in Zips : ZoneAt(z)',
         row.status = "PENDING" /\ row.body.type = "ZONE" => row.check \in OpenChecks(row.body.about)',
         row.body.after # Absent =>
           /\ ~Succeeded(row.body.after)
           /\ asked[<<"decision", row.body.after>>].ack.outcome = "STALE"
  PROVE  DecisionsInv'
<1> DEFINE cmd == work[h].cmd
           id == IdOf(cmd.key, cmd.body)
<1>1. Reading(h) /\ cmd \in Command /\ cmd.do = "intake" /\ id \in AskIds /\ asked[id] = NoRow
  BY CommandShape DEF NewRow, Doing, Reading, DecisionsInv, Sees
<1>2. /\ asked' = [asked EXCEPT ![id] = row] /\ asked \in [AskIds -> AskRow]
      /\ row.body \in Questions
  BY <1>1, CommandShape DEF Inserts, DecisionsInv, TablesTyped
<1>3. /\ work'[h].phase = "ok" /\ work'[h].cmd = cmd /\ work' = [g \in Handlers |-> work'[g]]
  BY DEF Answers, DecisionsInv, TablesTyped, NoWork
<1>4. row # NoRow
  BY DEF NoRow
<1> HIDE DEF id
<1>5. /\ asked'[id] = row /\ \A i \in AskIds \ {id} : asked'[i] = asked[i]
      /\ asked' \in [AskIds -> AskRow]
  BY <1>1, <1>2
<1>6. RowsStay
  BY <1>1, <1>5 DEF RowsStay
<1>7. Stands(h)'
  <2>1. id = IdOf(cmd.key, cmd.body)
    BY DEF id
  <2> QED
    BY <1>1, <1>3, <1>4, <1>5, <2>1 DEF Stands, IdOf
<1>8. TablesTyped'
  BY <1>3, <1>5 DEF DecisionsInv, TablesTyped
<1>9. \A i \in AskIds : RowAt(i)'
  <2> TAKE i \in AskIds
  <2>1. CASE i = id
    BY <1>2, <1>5, <2>1 DEF RowAt
  <2>2. CASE i # id
    <3>1. RowAt(i) /\ asked'[i] = asked[i]
      BY <1>5, <2>2 DEF DecisionsInv
    <3>2. asked[i].status = "PENDING" /\ asked[i].body.type = "ZONE" => asked[i].body.about \in Zips
      <4>1. asked[i].status = "PENDING" => asked[i].body \in Questions
        BY <3>1 DEF RowAt, NoRow
      <4> QED
        BY <4>1, QuestionsAssumption
    <3> QED
      BY <3>1, <3>2 DEF RowAt
  <2> QED
    BY <2>1, <2>2
<1>10. OneLiveDecisionPerChain'
  <2> SUFFICES ASSUME NEW i \in AskIds, asked'[i] # NoRow, asked'[i].body.after # Absent
               PROVE  /\ asked'[<<"decision", asked'[i].body.after>>].ack.outcome = "STALE"
                      /\ \A other \in AskIds \ {i} :
                           asked'[other] # NoRow => asked'[other].body.after # asked'[i].body.after
    BY DEF OneLiveDecisionPerChain
  <2>1. \A k \in AskKeys : asked[<<"decision", k>>].ack.outcome = "STALE" =>
          asked'[<<"decision", k>>].ack.outcome = "STALE"
    <3> TAKE k \in AskKeys
    <3>1. <<"decision", k>> \in AskIds
      BY DEF AskIds
    <3>2. asked[<<"decision", k>>].ack.outcome = "STALE" =>
            asked[<<"decision", k>>] # NoRow /\ asked[<<"decision", k>>].ack # NoEvidence
      BY DEF NoRow, NoEvidence
    <3> QED
      BY <1>6, <3>1, <3>2 DEF RowsStay
  <2>2. asked'[i].body \in Questions /\ asked'[i].body.after \in AskKeys
    <3>1. asked'[i].body \in Questions
      BY <1>2, <1>5 DEF DecisionsInv, RowAt
    <3> QED
      BY <3>1, QuestionsAssumption DEF Question
  <2>3. CASE i = id
    BY <1>5, <2>1, <2>2, <2>3 DEF Succeeded
  <2>4. CASE i # id
    <3>1. asked[i] # NoRow /\ asked[i].body.after # Absent /\ asked'[i] = asked[i]
      BY <1>5, <2>4
    <3>2. row.body.after # asked[i].body.after
      BY <3>1 DEF Succeeded
    <3>3. \A other \in AskIds \ {i} : asked[other] # NoRow => asked[other].body.after # asked[i].body.after
      BY <3>1 DEF DecisionsInv, OneLiveDecisionPerChain
    <3>4. asked[<<"decision", asked[i].body.after>>].ack.outcome = "STALE"
      BY <3>1 DEF DecisionsInv, OneLiveDecisionPerChain
    <3> QED
      BY <1>5, <2>1, <2>2, <3>1, <3>2, <3>3, <3>4
  <2> QED
    BY <2>3, <2>4
<1>11. \A z \in Zips \ {Lock(h)} : ZipStays(z)
  BY DEF ZipStays
<1> QED
  BY <1>1, <1>6, <1>7, <1>8, <1>9, <1>10, <1>11, AnswerKept, LocksTyped

(* Rows as they are inserted.                                              *)
LEMMA NewRowsTyped ==
  ASSUME NEW body \in Questions, NEW t \in Nat, NEW says \in Saying, NEW c \in Checks
  PROVE  /\ [NoRow EXCEPT !.status = "PENDING", !.body = body] \in AskRow
         /\ [NoRow EXCEPT !.status = "RESOLVED", !.body = body, !.at = t, !.answer.says = says] \in AskRow
         /\ [NoRow EXCEPT !.status = "PENDING", !.body = body, !.check = c] \in AskRow
BY DEF AskRow, NoRow, NoAnswer, NoEvidence, Answer, Saying

LEMMA InsertDecisionKept == ASSUME DecisionsInv, NEW h \in Handlers, InsertDecision(h) PROVE DecisionsInv'
<1> DEFINE body == work[h].cmd.body
           row == [NoRow EXCEPT !.status = "PENDING", !.body = body]
<1>1. Sees(h) /\ Reading(h) /\ work[h].cmd \in Command /\ work[h].cmd.do = "intake"
  BY DEF DecisionsInv, InsertDecision, NewRow, Doing, Reading, Sees
<1>2. body \in Questions /\ body.type # "ZONE"
  BY <1>1, CommandShape DEF InsertDecision, DecisionTypes
<1>3. row \in AskRow /\ row.body = body /\ row.status = "PENDING"
  BY <1>2 DEF AskRow, NoRow, NoAnswer, NoEvidence, Answer, Saying
<1>4. body.after # Absent => asked[<<"decision", body.after>>].ack.outcome = "STALE"
  BY <1>1 DEF InsertDecision, Sees
<1>5. /\ NewRow(h) /\ Inserts(h, row) /\ Answers(h) /\ UNCHANGED <<zones, checks, clock>>
      /\ body.after # Absent => ~Succeeded(body.after)
  BY DEF InsertDecision
<1> HIDE DEF row
<1>6. /\ checks' \in [Checks -> CheckRow] /\ ChecksStay
      /\ \A z : OpenChecks(z)' = OpenChecks(z)
      /\ \A c \in Checks : CheckAt(c)'
      /\ \A z \in Zips : ZoneAt(z)'
  BY <1>5 DEF DecisionsInv, TablesTyped, ChecksStay, OpenChecks, CheckAt, ZoneAt
<1> QED
  BY <1>2, <1>3, <1>4, <1>5, <1>6, InsertKept

LEMMA InsertAnsweredKept == ASSUME DecisionsInv, NEW h \in Handlers, InsertAnswered(h) PROVE DecisionsInv'
<1> DEFINE body == work[h].cmd.body
           says == work[h].saw.zone.says
           row == [NoRow EXCEPT !.status = "RESOLVED", !.body = body, !.at = clock, !.answer.says = says]
<1>1. Sees(h) /\ Reading(h) /\ work[h].cmd \in Command /\ work[h].cmd.do = "intake"
  BY DEF DecisionsInv, InsertAnswered, NewRow, Doing, Reading, Sees
<1>2. body \in Questions /\ body.type = "ZONE" /\ body.about \in Zips /\ body.after = Absent
  BY <1>1, CommandShape DEF InsertAnswered
<1>3. says \in Saying /\ clock \in Nat
  BY <1>1, <1>2 DEF Sees, DecisionsInv, TablesTyped
<1>4. row \in AskRow /\ row.body = body /\ row.status = "RESOLVED"
  BY <1>2, <1>3 DEF AskRow, NoRow, NoAnswer, NoEvidence, Answer, Saying
<1>5. /\ NewRow(h) /\ Inserts(h, row) /\ Answers(h) /\ UNCHANGED <<zones, checks, clock>>
  BY DEF InsertAnswered
<1> HIDE DEF row
<1>6. /\ checks' \in [Checks -> CheckRow] /\ ChecksStay
      /\ \A z : OpenChecks(z)' = OpenChecks(z)
      /\ \A c \in Checks : CheckAt(c)'
      /\ \A z \in Zips : ZoneAt(z)'
  BY <1>5 DEF DecisionsInv, TablesTyped, ChecksStay, OpenChecks, CheckAt, ZoneAt
<1> QED
  BY <1>2, <1>4, <1>5, <1>6, InsertKept

(* Under the lock of the postal code, what was read is what there is: the  *)
(* open validation, or none and no zone that answers.                      *)
LEMMA JoinValidationKept == ASSUME DecisionsInv, NEW h \in Handlers, JoinValidation(h) PROVE DecisionsInv'
<1>0. PICK body : body = work[h].cmd.body
  OBVIOUS
<1> DEFINE zip == body.about
<1>1. Sees(h) /\ Reading(h) /\ work[h].cmd \in Command /\ work[h].cmd.do = "intake"
  BY DEF DecisionsInv, JoinValidation, NewRow, Doing, Reading, Sees
<1>2. body \in Questions /\ body.type = "ZONE" /\ zip \in Zips /\ body.after = Absent
  BY <1>0, <1>1, CommandShape DEF JoinValidation
<1>3. Lock(h) = zip /\ work[h].saw.open = OpenChecks(zip) /\ ~zones[zip].active
  BY <1>0, <1>1, <1>2 DEF Lock, LockOf, Sees, JoinValidation
<1>4. PICK c \in Checks :
       /\ IF work[h].saw.open # {}
          THEN c \in work[h].saw.open /\ UNCHANGED checks
          ELSE /\ checks[c] = NoCheck /\ OpenChecks(zip) = {}
               /\ \A b \in 1..(c - 1) : checks[b] # NoCheck
               /\ checks' = [checks EXCEPT ![c] = [NoCheck EXCEPT !.status = "PENDING", !.zip = zip]]
       /\ Inserts(h, [NoRow EXCEPT !.status = "PENDING", !.body = body, !.check = c])
  BY <1>0 DEF JoinValidation
<1>10. PICK row : row = [NoRow EXCEPT !.status = "PENDING", !.body = body, !.check = c]
  OBVIOUS
<1>5. row \in AskRow /\ row.body = body /\ row.status = "PENDING" /\ row.check = c
  BY <1>2, <1>10 DEF AskRow, NoRow, NoAnswer, NoEvidence, Answer, Saying
<1>6. NewRow(h) /\ Inserts(h, row) /\ Answers(h) /\ UNCHANGED <<zones, clock>>
  BY <1>4, <1>10 DEF JoinValidation
<1>7. checks \in [Checks -> CheckRow]
  BY DEF DecisionsInv, TablesTyped
<1>8. CASE c \in OpenChecks(zip) /\ checks' = checks
  <2>1. /\ checks' \in [Checks -> CheckRow] /\ ChecksStay
        /\ \A z : OpenChecks(z)' = OpenChecks(z)
        /\ \A b \in Checks : CheckAt(b)'
        /\ \A z \in Zips : ZoneAt(z)'
    BY <1>6, <1>8 DEF DecisionsInv, TablesTyped, ChecksStay, OpenChecks, CheckAt, ZoneAt
  <2>2. row.check \in OpenChecks(zip)'
    BY <1>5, <1>8, <2>1
  <2> QED
    BY <1>0, <1>2, <1>5, <1>6, <2>1, <2>2, InsertKept
<1>9. CASE /\ checks[c] = NoCheck /\ OpenChecks(zip) = {}
           /\ checks' = [checks EXCEPT ![c] = [NoCheck EXCEPT !.status = "PENDING", !.zip = zip]]
  <2>1. /\ checks'[c].status = "PENDING" /\ checks'[c].zip = zip
        /\ \A b \in Checks \ {c} : checks'[b] = checks[b]
        /\ checks[c].status = "NONE"
    BY <1>7, <1>9 DEF NoCheck
  <2>2. [NoCheck EXCEPT !.status = "PENDING", !.zip = zip] \in CheckRow
    BY <1>2 DEF NoCheck, CheckRow, NoAnswer, Answer, Saying
  <2>3. checks' \in [Checks -> CheckRow] /\ ChecksStay
    BY <1>7, <1>9, <2>1, <2>2 DEF ChecksStay
  <2>4. \A z \in Zips \ {zip} : OpenChecks(z)' = OpenChecks(z)
    BY <2>1 DEF OpenChecks
  <2>5. OpenChecks(zip)' = {c}
    BY <1>9, <2>1 DEF OpenChecks
  <2>6. \A b \in Checks : CheckAt(b)'
    BY <1>2, <2>1 DEF DecisionsInv, CheckAt
  <2>7. \A z \in Zips : ZoneAt(z)'
    BY <1>3, <1>6, <2>4, <2>5 DEF DecisionsInv, ZoneAt
  <2>8. \A z \in Zips : OpenChecks(z) \subseteq OpenChecks(z)'
    BY <1>9, <2>4
  <2>9. row.check \in OpenChecks(zip)'
    BY <1>5, <2>5
  <2> QED
    BY <1>0, <1>2, <1>3, <1>5, <1>6, <2>3, <2>4, <2>6, <2>7, <2>8, <2>9, InsertKept
<1> QED
  BY <1>3, <1>4, <1>8, <1>9

-----------------------------------------------------------------------------
(* Reviewers, zones and acknowledgments *)

(* Rows that keep their bodies, and what was told of them, keep their      *)
(* chains.                                                                 *)
LEMMA ChainsKept ==
  ASSUME DecisionsInv, RowsStay,
         \A id \in AskIds : asked'[id].body = asked[id].body /\ (asked[id] = NoRow => asked'[id] = NoRow)
  PROVE  OneLiveDecisionPerChain'
<1> SUFFICES ASSUME NEW i \in AskIds, asked'[i] # NoRow, asked'[i].body.after # Absent
             PROVE  /\ asked'[<<"decision", asked'[i].body.after>>].ack.outcome = "STALE"
                    /\ \A other \in AskIds \ {i} :
                         asked'[other] # NoRow => asked'[other].body.after # asked'[i].body.after
  BY DEF OneLiveDecisionPerChain
<1>1. asked[i] # NoRow /\ asked'[i].body = asked[i].body
  OBVIOUS
<1>2. /\ asked[<<"decision", asked[i].body.after>>].ack.outcome = "STALE"
      /\ \A other \in AskIds \ {i} : asked[other] # NoRow => asked[other].body.after # asked[i].body.after
  BY <1>1 DEF DecisionsInv, OneLiveDecisionPerChain
<1>3. <<"decision", asked[i].body.after>> \in AskIds
  <2>1. asked[i].body \in Questions /\ asked[i].body.after # Absent
    BY <1>1 DEF DecisionsInv, RowAt
  <2> QED
    BY <2>1, QuestionsAssumption DEF Question, AskIds
<1>4. /\ asked[<<"decision", asked[i].body.after>>] # NoRow
      /\ asked[<<"decision", asked[i].body.after>>].ack # NoEvidence
  BY <1>2 DEF NoRow, NoEvidence
<1>5. asked'[<<"decision", asked[i].body.after>>].ack.outcome = "STALE"
  BY <1>2, <1>3, <1>4 DEF RowsStay
<1> QED
  BY <1>1, <1>2, <1>5

(* A step that updates one row, not its body, and nothing else.            *)
LEMMA RowUpdateKept ==
  ASSUME DecisionsInv, NEW h \in Handlers, Reading(h), Answers(h), Stands(h)',
         NEW id \in AskIds, NEW row \in AskRow, asked[id] # NoRow, asked' = [asked EXCEPT ![id] = row],
         row.body = asked[id].body, row.status = "RESOLVED",
         asked[id].status = "RESOLVED" => row.answer = asked[id].answer,
         asked[id].ack # NoEvidence => row.ack = asked[id].ack,
         UNCHANGED <<zones, checks, clock>>
  PROVE  DecisionsInv'
<1>1. row # NoRow
  BY DEF NoRow
<1>2. /\ asked'[id] = row /\ \A i \in AskIds \ {id} : asked'[i] = asked[i]
      /\ asked' \in [AskIds -> AskRow]
  BY DEF DecisionsInv, TablesTyped
<1>3. RowsStay
  BY <1>1, <1>2 DEF RowsStay
<1>4. ChecksStay /\ \A z : ZipStays(z)
  BY DEF ChecksStay, ZipStays, OpenChecks
<1>5. work' = [g \in Handlers |-> work'[g]]
  BY DEF Answers, DecisionsInv, TablesTyped
<1>6. TablesTyped'
  BY <1>2, <1>5 DEF DecisionsInv, TablesTyped
<1>7. \A i \in AskIds : RowAt(i)'
  BY <1>1, <1>2 DEF DecisionsInv, RowAt, OpenChecks
<1>8. /\ \A c \in Checks : CheckAt(c)'
      /\ \A z \in Zips : ZoneAt(z)'
  BY DEF DecisionsInv, CheckAt, ZoneAt, OpenChecks
<1>9. OneLiveDecisionPerChain'
  BY <1>2, <1>3, ChainsKept
<1> QED
  BY <1>3, <1>4, <1>6, <1>7, <1>8, <1>9, AnswerKept, LocksTyped

(* A decision is resolved where it is still pending.                       *)
LEMMA ResolveKept == ASSUME DecisionsInv, NEW h \in Handlers, Resolve(h) PROVE DecisionsInv'
<1>1. Sees(h) /\ Reading(h) /\ work[h].cmd \in Command /\ work[h].cmd.do = "resolve"
  BY DEF DecisionsInv, Resolve, Doing, Reading, Sees
<1>2. PICK id : id = work[h].cmd.id
  OBVIOUS
<1>3. PICK answer : answer = work[h].cmd.answer
  OBVIOUS
<1>4. id \in AskIds /\ answer \in Reply /\ asked[id] # NoRow /\ asked[id].status = "PENDING"
  BY <1>1, <1>2, <1>3, CommandShape DEF Sees, Resolve, StillPending
<1>5. PICK row : row = [asked[id] EXCEPT !.status = "RESOLVED", !.answer = answer, !.at = clock]
  OBVIOUS
<1>6. asked \in [AskIds -> AskRow] /\ clock \in Nat /\ asked[id] \in AskRow /\ answer \in Answer
  BY <1>4 DEF DecisionsInv, TablesTyped, Reply, Answer, Saying
<1>7. /\ row \in AskRow /\ row.status = "RESOLVED" /\ row.answer = answer
      /\ row.body = asked[id].body /\ row.ack = asked[id].ack
  BY <1>5, <1>6 DEF AskRow
<1>8. Answers(h) /\ UNCHANGED <<zones, checks, clock>> /\ asked' = [asked EXCEPT ![id] = row]
  BY <1>2, <1>3, <1>5, <1>6 DEF Resolve
<1>9. Stands(h)'
  <2>1. work'[h].cmd = work[h].cmd /\ asked'[id] = row
    BY <1>4, <1>6, <1>8 DEF Answers, DecisionsInv, TablesTyped, NoWork
  <2> QED
    BY <1>1, <1>2, <1>3, <1>7, <2>1 DEF Stands
<1> QED
  BY <1>1, <1>4, <1>7, <1>8, <1>9, RowUpdateKept

(* An acknowledgment is of a resolved row, and the first.                  *)
LEMMA AcknowledgeKept == ASSUME DecisionsInv, NEW h \in Handlers, Acknowledge(h) PROVE DecisionsInv'
<1>1. Sees(h) /\ Reading(h) /\ work[h].cmd \in Command /\ work[h].cmd.do = "ack"
  BY DEF DecisionsInv, Acknowledge, Doing, Reading, Sees
<1>2. PICK id : id = work[h].cmd.id
  OBVIOUS
<1>3. PICK e : e = work[h].cmd.evidence
  OBVIOUS
<1>4. /\ id \in AskIds /\ e \in Evidences /\ asked[id] # NoRow /\ asked[id].status = "RESOLVED"
      /\ asked[id].ack = NoEvidence
  BY <1>1, <1>2, <1>3, CommandShape DEF Sees, Acknowledge
<1>5. PICK row : row = [asked[id] EXCEPT !.ack = e]
  OBVIOUS
<1>6. asked \in [AskIds -> AskRow] /\ asked[id] \in AskRow
  BY <1>4 DEF DecisionsInv, TablesTyped
<1>7. /\ row \in AskRow /\ row.status = "RESOLVED" /\ row.answer = asked[id].answer
      /\ row.body = asked[id].body /\ row.ack = e
  BY <1>4, <1>5, <1>6 DEF AskRow
<1>8. Answers(h) /\ UNCHANGED <<zones, checks, clock>> /\ asked' = [asked EXCEPT ![id] = row]
  BY <1>2, <1>3, <1>5, <1>6 DEF Acknowledge
<1>9. Stands(h)'
  <2>1. work'[h].cmd = work[h].cmd /\ asked'[id] = row
    BY <1>4, <1>6, <1>8 DEF Answers, DecisionsInv, TablesTyped, NoWork
  <2> QED
    BY <1>1, <1>2, <1>3, <1>7, <2>1 DEF Stands
<1> QED
  BY <1>1, <1>4, <1>7, <1>8, <1>9, RowUpdateKept

(* A validation is settled once; whoever waits for it is answered.         *)
LEMMA SettleKept == ASSUME DecisionsInv, NEW h \in Handlers, Settle(h) PROVE DecisionsInv'
<1>1. Sees(h) /\ Reading(h) /\ work[h].cmd \in Command /\ work[h].cmd.do = "settle"
  BY DEF DecisionsInv, Settle, Doing, Reading, Sees
<1>2. PICK c : c = work[h].cmd.check
  OBVIOUS
<1>3. PICK answer : answer = work[h].cmd.answer
  OBVIOUS
<1>4. c \in Checks /\ answer \in Reply /\ answer \in Answer /\ answer.says \in Saying
  BY <1>1, <1>2, <1>3, CommandShape DEF Reply, Answer, Saying
<1>5. PICK zip : zip = checks[c].zip
  OBVIOUS
<1>6. /\ checks[c].status = "PENDING" /\ checks[c] # NoCheck /\ zip \in Zips /\ Lock(h) = zip
  <2>1. checks[c].status = "PENDING" /\ checks[c] # NoCheck
    <3>1. checks[c].status = "PENDING"
      BY <1>2, Zenon DEF Settle
    <3> QED
      BY <3>1 DEF NoCheck
  <2>2. zip \in Zips
    BY <1>4, <1>5, <2>1 DEF DecisionsInv, CheckAt
  <2>3. Lock(h) = zip
    BY <1>1, <1>2, <1>5 DEF Lock, LockOf
  <2> QED
    BY <2>1, <2>2, <2>3
<1>7. /\ checks' = [checks EXCEPT ![c].status = "RESOLVED", ![c].answer = answer]
      /\ zones' = [zones EXCEPT ![zip] = [says |-> answer.says, active |-> TRUE]]
      /\ asked' = [id \in AskIds |->
                    IF asked[id].check = c /\ asked[id].status = "PENDING"
                    THEN [asked[id] EXCEPT !.status = "RESOLVED", !.at = clock, !.answer.says = answer.says]
                    ELSE asked[id]]
      /\ Answers(h) /\ UNCHANGED clock
  BY <1>2, <1>3, <1>5 DEF Settle
<1>8. /\ checks \in [Checks -> CheckRow] /\ zones \in [Zips -> [says : Saying, active : BOOLEAN]]
      /\ asked \in [AskIds -> AskRow] /\ clock \in Nat
  BY DEF DecisionsInv, TablesTyped
<1>9. /\ checks' \in [Checks -> CheckRow]
      /\ checks'[c].status = "RESOLVED" /\ checks'[c].answer = answer /\ checks'[c].zip = zip
      /\ \A d \in Checks \ {c} : checks'[d] = checks[d]
  BY <1>4, <1>5, <1>7, <1>8 DEF CheckRow
<1>10. /\ zones' \in [Zips -> [says : Saying, active : BOOLEAN]]
       /\ \A z \in Zips \ {zip} : zones'[z] = zones[z]
  BY <1>4, <1>7, <1>8
<1>11. \A id \in AskIds :
         \/ asked'[id] = asked[id] /\ ~(asked[id].check = c /\ asked[id].status = "PENDING")
         \/ /\ asked[id].check = c /\ asked[id].status = "PENDING"
            /\ asked'[id] \in AskRow /\ asked'[id].status = "RESOLVED"
            /\ asked'[id].body = asked[id].body /\ asked'[id].ack = asked[id].ack
  <2> TAKE id \in AskIds
  <2>1. asked[id] \in AskRow
    BY <1>8
  <2>2. CASE asked[id].check = c /\ asked[id].status = "PENDING"
    <3>1. asked'[id] = [asked[id] EXCEPT !.status = "RESOLVED", !.at = clock, !.answer.says = answer.says]
      BY <1>7, <2>2
    <3>2. PICK said : said = [asked[id].answer EXCEPT !.says = answer.says]
      OBVIOUS
    <3>3. said \in Answer
      BY <1>4, <2>1, <3>2 DEF AskRow, Answer
    <3>4. asked'[id] = [asked[id] EXCEPT !.status = "RESOLVED", !.at = clock, !.answer = said]
      BY <2>1, <3>1, <3>2 DEF AskRow
    <3> QED
      BY <1>8, <2>1, <2>2, <3>3, <3>4 DEF AskRow
  <2>3. CASE ~(asked[id].check = c /\ asked[id].status = "PENDING")
    BY <1>7, <2>3
  <2> QED
    BY <2>2, <2>3
<1>12. asked' \in [AskIds -> AskRow]
  <2>1. asked' = [id \in AskIds |-> asked'[id]]
    BY <1>7
  <2>2. \A id \in AskIds : asked'[id] \in AskRow
    BY <1>8, <1>11
  <2> QED
    BY <2>1, <2>2
<1>13. RowsStay /\ ChecksStay
  <2>1. \A id \in AskIds : asked'[id].status = "RESOLVED" => asked'[id] # NoRow
    BY DEF NoRow
  <2>2. checks'[c] # NoCheck
    BY <1>9 DEF NoCheck
  <2> QED
    BY <1>5, <1>6, <1>9, <1>11, <2>1, <2>2 DEF RowsStay, ChecksStay
<1>14. /\ OpenChecks(zip)' = {}
       /\ \A z \in Zips \ {zip} : OpenChecks(z)' = OpenChecks(z)
  <2>1. c \in OpenChecks(zip)
    BY <1>4, <1>5, <1>6 DEF OpenChecks
  <2>2. \A d \in OpenChecks(zip) : d = c
    BY <1>6, <2>1 DEF DecisionsInv, ZoneAt
  <2> QED
    BY <1>5, <1>9, <2>2 DEF OpenChecks
<1>15. \A z \in Zips \ {Lock(h)} : ZipStays(z)
  BY <1>6, <1>10, <1>14 DEF ZipStays
<1>16. Stands(h)'
  <2>1. work'[h].cmd = work[h].cmd
    BY <1>7 DEF Answers, DecisionsInv, TablesTyped, NoWork
  <2> QED
    BY <1>1, <1>2, <1>3, <1>9, <2>1 DEF Stands
<1>17. TablesTyped'
  <2>1. work' = [g \in Handlers |-> work'[g]]
    BY <1>7 DEF Answers, DecisionsInv, TablesTyped
  <2> QED
    BY <1>7, <1>8, <1>9, <1>10, <1>12, <2>1 DEF TablesTyped
<1>18. \A id \in AskIds : RowAt(id)'
  <2> TAKE id \in AskIds
  <2>1. RowAt(id)
    BY DEF DecisionsInv
  <2>2. CASE asked'[id].status = "RESOLVED"
    BY <1>11, <2>1, <2>2 DEF RowAt, NoRow
  <2>3. CASE asked'[id].status # "RESOLVED"
    <3>1. asked'[id] = asked[id] /\ ~(asked[id].check = c /\ asked[id].status = "PENDING")
      BY <1>11, <2>3
    <3>2. ASSUME asked[id].status = "PENDING", asked[id].body.type = "ZONE"
          PROVE  asked[id].check \in OpenChecks(asked[id].body.about)'
      <4>1. asked[id].check \in OpenChecks(asked[id].body.about) /\ asked[id].check # c
        BY <2>1, <3>1, <3>2 DEF RowAt
      <4>2. /\ asked[id].check \in Checks \ {c}
            /\ checks[asked[id].check].status = "PENDING"
            /\ checks[asked[id].check].zip = asked[id].body.about
        BY <4>1 DEF OpenChecks
      <4>3. checks'[asked[id].check] = checks[asked[id].check]
        BY <1>9, <4>2
      <4>4. asked[id].check \in {d \in Checks : checks'[d].status = "PENDING"
                                               /\ checks'[d].zip = asked[id].body.about}
        BY <4>2, <4>3
      <4> QED
        BY <3>1, <4>4 DEF OpenChecks
    <3> QED
      BY <2>1, <3>1, <3>2 DEF RowAt
  <2> QED
    BY <2>2, <2>3
<1>19. \A d \in Checks : CheckAt(d)'
  BY <1>6, <1>9 DEF DecisionsInv, CheckAt
<1>20. \A z \in Zips : ZoneAt(z)'
  BY <1>10, <1>14 DEF DecisionsInv, ZoneAt
<1>21. OneLiveDecisionPerChain'
  <2>1. \A id \in AskIds : asked[id] = NoRow => asked[id].status # "PENDING"
    BY DEF NoRow
  <2> QED
    BY <1>11, <1>13, <2>1, ChainsKept
<1> QED
  BY <1>1, <1>7, <1>13, <1>15, <1>16, <1>17, <1>18, <1>19, <1>20, <1>21, AnswerKept, LocksTyped

(* A zone is switched on only where, under its lock, nothing is open.      *)
LEMMA EditZoneKept == ASSUME DecisionsInv, NEW h \in Handlers, EditZone(h) PROVE DecisionsInv'
<1>1. Sees(h) /\ Reading(h) /\ work[h].cmd \in Command /\ work[h].cmd.do = "edit"
  BY DEF DecisionsInv, EditZone, Doing, Reading, Sees
<1>2. PICK zip : zip = work[h].cmd.zip
  OBVIOUS
<1>3. PICK says : says = work[h].cmd.says
  OBVIOUS
<1>4. /\ zip \in Zips /\ says \in Saying /\ Lock(h) = zip /\ work[h].saw.open = OpenChecks(zip)
  BY <1>1, <1>2, <1>3, CommandShape DEF Sees, Lock, LockOf
<1>5. /\ \/ zones' = [zones EXCEPT ![zip].active = FALSE]
         \/ OpenChecks(zip) = {} /\ zones' = [zones EXCEPT ![zip] = [says |-> says, active |-> TRUE]]
      /\ Answers(h) /\ UNCHANGED <<asked, checks, clock>>
  BY <1>2, <1>3, <1>4 DEF EditZone
<1>6. zones \in [Zips -> [says : Saying, active : BOOLEAN]]
  BY DEF DecisionsInv, TablesTyped
<1>7. /\ zones' \in [Zips -> [says : Saying, active : BOOLEAN]]
      /\ \A z \in Zips \ {zip} : zones'[z] = zones[z]
      /\ zones'[zip].active => OpenChecks(zip) = {}
  <2>1. CASE zones' = [zones EXCEPT ![zip].active = FALSE]
    <3>1. PICK off : off = [zones[zip] EXCEPT !.active = FALSE]
      OBVIOUS
    <3>2. off \in [says : Saying, active : BOOLEAN] /\ off.active = FALSE
      BY <1>4, <1>6, <3>1
    <3>3. zones' = [zones EXCEPT ![zip] = off]
      BY <1>4, <1>6, <2>1, <3>1
    <3> QED
      BY <1>4, <1>6, <3>2, <3>3
  <2>2. CASE OpenChecks(zip) = {} /\ zones' = [zones EXCEPT ![zip] = [says |-> says, active |-> TRUE]]
    BY <1>4, <1>6, <2>2
  <2> QED
    BY <1>5, <2>1, <2>2
<1>8. RowsStay /\ ChecksStay /\ \A z : OpenChecks(z)' = OpenChecks(z)
  BY <1>5 DEF RowsStay, ChecksStay, OpenChecks
<1>9. \A z \in Zips \ {Lock(h)} : ZipStays(z)
  BY <1>4, <1>7, <1>8 DEF ZipStays
<1>10. Stands(h)' /\ work' = [g \in Handlers |-> work'[g]]
  BY <1>1, <1>5 DEF Answers, DecisionsInv, TablesTyped, NoWork, Stands
<1>11. TablesTyped' /\ \A id \in AskIds : RowAt(id)'
  BY <1>5, <1>7, <1>10 DEF DecisionsInv, TablesTyped, RowAt, OpenChecks
<1>12. \A c \in Checks : CheckAt(c)'
  BY <1>5 DEF DecisionsInv, CheckAt
<1>13. \A z \in Zips : ZoneAt(z)'
  BY <1>7, <1>8 DEF DecisionsInv, ZoneAt
<1>14. OneLiveDecisionPerChain'
  BY <1>5, <1>8, ChainsKept
<1> QED
  BY <1>1, <1>5, <1>8, <1>9, <1>10, <1>11, <1>12, <1>13, <1>14, AnswerKept, LocksTyped

-----------------------------------------------------------------------------
LEMMA DecisionsInvAtFirst == DecisionsInit => DecisionsInv
<1> SUFFICES ASSUME DecisionsInit PROVE DecisionsInv
  OBVIOUS
<1>1. /\ \A id \in AskIds : asked[id] = NoRow
      /\ \A c \in Checks : checks[c] = NoCheck
      /\ \A h \in Handlers : work[h] = NoWork
      /\ \A z \in Zips : zones[z] = [says |-> Absent, active |-> FALSE]
  BY DEF DecisionsInit
<1>2. NoRow \in AskRow /\ NoCheck \in CheckRow
  BY DEF AskRow, CheckRow, NoRow, NoCheck, NoAnswer, NoEvidence, Answer, Saying
<1>3. TablesTyped
  <2>1. /\ asked \in [AskIds -> AskRow] /\ checks \in [Checks -> CheckRow]
    BY <1>2 DEF DecisionsInit
  <2>2. zones \in [Zips -> [says : Saying, active : BOOLEAN]]
    BY DEF DecisionsInit, Saying
  <2>3. work = [h \in Handlers |-> work[h]] /\ clock \in Nat
    BY DEF DecisionsInit
  <2> QED
    BY <2>1, <2>2, <2>3 DEF TablesTyped
<1>4. \A id \in AskIds : RowAt(id)
  BY <1>1 DEF RowAt, NoRow
<1>5. \A c \in Checks : CheckAt(c)
  BY <1>1 DEF CheckAt
<1>6. \A z \in Zips : ZoneAt(z)
  <2>1. \A z : OpenChecks(z) = {}
    BY <1>1 DEF OpenChecks, NoCheck
  <2> QED
    BY <1>1, <2>1 DEF ZoneAt
<1>7. \A h \in Handlers : Sees(h) /\ Stands(h) /\ ~Reading(h)
  <2>1. \A h \in Handlers : work[h].phase = "idle"
    BY <1>1 DEF NoWork
  <2>2. \A h \in Handlers : ~Reading(h) /\ work[h].phase # "ok"
    BY ONLY <2>1 DEF Reading
  <2> QED
    BY ONLY <2>2, Zenon DEF Sees, Stands
<1>8. OneLiveDecisionPerChain
  BY <1>1 DEF OneLiveDecisionPerChain
<1> QED
  BY <1>3, <1>4, <1>5, <1>6, <1>7, <1>8 DEF DecisionsInv, LocksApart

LEMMA DecisionsStepKept == DecisionsInv /\ [DecisionsNext]_decisionVars => DecisionsInv'
<1> SUFFICES ASSUME DecisionsInv, [DecisionsNext]_decisionVars PROVE DecisionsInv'
  OBVIOUS
<1>1. ASSUME NEW h \in Handlers, NEW cmd \in Commands, Begin(h, cmd)
      PROVE  DecisionsInv'
  BY <1>1, BeginKept
<1>2. ASSUME NEW h \in Handlers,
             \/ ReplayIntake(h) \/ InsertDecision(h) \/ InsertAnswered(h) \/ JoinValidation(h)
             \/ Resolve(h) \/ ReplayResolve(h) \/ Settle(h) \/ ReplaySettle(h) \/ EditZone(h)
             \/ Acknowledge(h) \/ ReplayAck(h)
             \/ Fail(h)
      PROVE  DecisionsInv'
  BY <1>2, ReplayKept, InsertDecisionKept, InsertAnsweredKept, JoinValidationKept, ResolveKept,
     SettleKept, EditZoneKept, AcknowledgeKept, FailKept
<1>3. CASE Tick
  BY <1>3, TickKept
<1>4. CASE UNCHANGED decisionVars
  <2>1. UNCHANGED <<asked, zones, checks, work, clock>>
    BY <1>4 DEF decisionVars
  <2>2. TablesTyped' /\ \A id \in AskIds : RowAt(id)'
    BY <2>1 DEF DecisionsInv, TablesTyped, RowAt, OpenChecks
  <2>3. /\ \A c \in Checks : CheckAt(c)'
        /\ \A z \in Zips : ZoneAt(z)'
        /\ OneLiveDecisionPerChain'
    BY <2>1 DEF DecisionsInv, CheckAt, ZoneAt, OpenChecks, OneLiveDecisionPerChain
  <2>4. RowsStay /\ ChecksStay /\ \A z : ZipStays(z)
    BY <2>1 DEF RowsStay, ChecksStay, ZipStays, OpenChecks
  <2>5. \A h \in Handlers : /\ Sees(h)' /\ Stands(h)'
                            /\ Reading(h)' <=> Reading(h)
                            /\ Reading(h) => Lock(h)' = Lock(h)
    BY <2>1, <2>4, OthersSee
  <2> QED
    BY <2>2, <2>3, <2>5 DEF DecisionsInv, LocksApart
<1> QED
  BY <1>1, <1>2, <1>3, <1>4 DEF DecisionsNext

LEMMA DecisionsInvAlways == DecisionsSpec => []DecisionsInv
BY DecisionsInvAtFirst, DecisionsStepKept, PTL DEF DecisionsSpec

(* Of a chain of questions, only the last may still reach the customer.    *)
THEOREM ChainsStayAlive == DecisionsSpec => []OneLiveDecisionPerChain
<1>1. DecisionsInv => OneLiveDecisionPerChain
  BY DEF DecisionsInv
<1> QED
  BY <1>1, DecisionsInvAlways, PTL

(* Whoever waits for a postal code waits for its one open validation, and  *)
(* none is open beside a zone that answers.                                *)
THEOREM WaitersAreAnswered == DecisionsSpec => []NobodyWaitsInVain
<1>1. DecisionsInv => NobodyWaitsInVain
  <2> SUFFICES ASSUME DecisionsInv PROVE NobodyWaitsInVain
    OBVIOUS
  <2>1. ASSUME NEW z \in Zips PROVE Cardinality(OpenChecks(z)) <= 1
    <3>1. CASE OpenChecks(z) = {}
      BY <3>1, FS_EmptySet
    <3>2. ASSUME NEW c \in OpenChecks(z) PROVE Cardinality(OpenChecks(z)) <= 1
      <4>1. OpenChecks(z) = {c}
        BY <3>2 DEF DecisionsInv, ZoneAt
      <4>2. Cardinality({c}) = 1
        BY FS_Singleton, Zenon
      <4> QED
        BY <4>1, <4>2
    <3> QED
      BY <3>1, <3>2
  <2> QED
    BY <2>1 DEF DecisionsInv, RowAt, ZoneAt, NobodyWaitsInVain
<1> QED
  BY <1>1, DecisionsInvAlways, PTL

(* What a handler answered stays in the books.                             *)
THEOREM AnswersStand == DecisionsSpec => []AnswersTellTheRow
<1>1. DecisionsInv => AnswersTellTheRow
  BY CommandShape DEF DecisionsInv, Stands, AnswersTellTheRow
<1> QED
  BY <1>1, DecisionsInvAlways, PTL

-----------------------------------------------------------------------------
(* Purchase orders *)

(* What each operation is about.                                           *)
LEMMA RequestShape ==
  ASSUME NEW r \in RequestType
  PROVE  /\ r.version \in Nat
         /\ r.op \in {"CREATE", "REPLACE", "DELETE", "CANCEL", "CONFIRM", "ADD", "UPDATE", "REMOVE", "none"}
         /\ r.op = "CREATE" => r.on = Collection /\ r.what \in Contents
         /\ r.op = "REPLACE" => r.on \in Orders /\ r.what \in Contents
         /\ r.op \in {"DELETE", "CANCEL"} => r.on \in Orders
         /\ r.op = "CONFIRM" => r.on \in Orders /\ r.what \in Screen
         /\ r.op \in {"ADD", "UPDATE"} => r.what \in Looks
         /\ r.op \in {"UPDATE", "REMOVE"} => r.on \in Suppliers
  BY DEF RequestType, NoRequest

(* The supplier that a command locks is a supplier.                        *)
LEMMA SupplierOfType ==
  ASSUME ProcurementTypeOK, NEW c \in Buyers,
         Req(c).op \in {"CREATE", "REPLACE", "CONFIRM", "UPDATE", "REMOVE"}
  PROVE  SupplierOf(c) \in Suppliers \cup {NoOne}
<1>1. Req(c) \in RequestType
  BY DEF ProcurementTypeOK, CommandType, Req
<1> QED
  BY <1>1, RequestShape DEF ProcurementTypeOK, OrderType, SupplierOf, Contents

(* What a command knows stands while nobody writes.                        *)
LEMMA CommandStands ==
  ASSUME NEW d \in Buyers, Remembers(d), Holds(d),
         po' = po, supplier' = supplier, command'[d] = command[d]
  PROVE  Remembers(d)' /\ Holds(d)'
<1>1. Remembers(d)'
  BY DEF Remembers, Holding, SupplierOf, Req, OrderExists, SupplierExists
<1>2. /\ SupplierOf(d)' = SupplierOf(d) /\ Req(d)' = Req(d) /\ Holding(d)' = Holding(d)
      /\ \A i : SupplierExists(i)' = SupplierExists(i)
      /\ \A i, o : Refers(o, i)' = Refers(o, i)
  BY Zenon DEF Holding, SupplierOf, Req, Refers, OrderExists, SupplierExists
<1>3. Holds(d)'
  BY Zenon, <1>2 DEF Holds
<1> QED
  BY <1>1, <1>3

LEMMA CommandsStayApart ==
  ASSUME NEW d \in Buyers, NEW e \in Buyers, Apart(d, e), po' = po,
         command'[d] = command[d], command'[e] = command[e]
  PROVE  Apart(d, e)'
<1>1. /\ SupplierOf(d)' = SupplierOf(d) /\ Req(d)' = Req(d) /\ Holding(d)' = Holding(d)
      /\ SupplierOf(e)' = SupplierOf(e) /\ Req(e)' = Req(e) /\ Holding(e)' = Holding(e)
  BY Zenon DEF Holding, SupplierOf, Req
<1> QED
  BY Zenon, <1>1 DEF Apart

(* A step in which a command moves on without writing.                     *)
LEMMA OnlyOneMoves ==
  ASSUME ProcurementInv, ProcurementTypeOK', NEW c \in Buyers,
         po' = po, supplier' = supplier,
         \A d \in Buyers \ {c} : command'[d] = command[d],
         Remembers(c)', Holds(c)',
         \A d \in Buyers \ {c} : Apart(c, d)' /\ Apart(d, c)'
  PROVE  ProcurementInv'
<1>1. \A d \in Buyers \ {c} : Remembers(d)' /\ Holds(d)'
  BY CommandStands DEF ProcurementInv
<1>2. \A d, e \in Buyers \ {c} : d # e => Apart(d, e)'
  BY CommandsStayApart DEF ProcurementInv
<1>3. SuppliersExist' /\ ConfirmedAsSeen'
  BY DEF ProcurementInv, SuppliersExist, ConfirmedAsSeen, OrderExists, SupplierExists
<1> QED
  BY <1>1, <1>2, <1>3 DEF ProcurementInv

(* ... and holds nothing afterwards.                                       *)
LEMMA OneLetsGo ==
  ASSUME ProcurementInv, ProcurementTypeOK', NEW c \in Buyers,
         po' = po, supplier' = supplier,
         \A d \in Buyers \ {c} : command'[d] = command[d],
         Remembers(c)', ~Holding(c)'
  PROVE  ProcurementInv'
<1>1. Holds(c)'
  BY DEF Holds, Holding
<1>2. \A d \in Buyers \ {c} : Apart(c, d)' /\ Apart(d, c)'
  BY DEF Apart, Holding
<1> QED
  BY <1>1, <1>2, OnlyOneMoves

(* A step that writes an order: nobody else holds it, and nobody removes   *)
(* the supplier it refers to.                                              *)
LEMMA OrderWritten ==
  ASSUME ProcurementInv, ProcurementTypeOK', NEW c \in Buyers, NEW o \in Orders,
         supplier' = supplier,
         \A i \in Orders \ {o} : po'[i] = po[i],
         po'[o].version = po[o].version + 1,
         po'[o].frozen = po'[o].agreed,
         \A d \in Buyers \ {c} : command'[d] = command[d] /\ (Holding(d) => Req(d).on # o),
         command'[c].request = command[c].request, ~Holding(c)',
         OrderExists(o)' /\ po'[o].supplier # NoOne => SupplierExists(po'[o].supplier),
         \A d \in Buyers \ {c} :
           command[d].phase = "admitted" /\ Req(d).op = "REMOVE" => ~Refers(o, Req(d).on)'
  PROVE  ProcurementInv'
<1>1. \A d \in Buyers : Req(d) \in RequestType /\ Req(d)' = Req(d)
  BY DEF ProcurementInv, ProcurementTypeOK, CommandType, Req
<1>2. \A i \in Orders : po[i].version \in Nat
  BY DEF ProcurementInv, ProcurementTypeOK, OrderType
<1>3. \A d \in Buyers : Remembers(d)'
  <2> SUFFICES ASSUME NEW d \in Buyers, Req(d).op = "CONFIRM" PROVE Remembers(d)'
    BY <1>1 DEF Remembers
  <2>1. Remembers(d) /\ Req(d).on \in Orders /\ Req(d).version \in Nat
    BY <1>1, RequestShape DEF ProcurementInv
  <2>2. CASE Req(d).on = o
    BY <1>1, <1>2, <2>1, <2>2 DEF Remembers
  <2>3. CASE Req(d).on # o
    BY <1>1, <2>1, <2>3 DEF Remembers
  <2> QED
    BY <2>2, <2>3
<1>4. \A d \in Buyers \ {c} : /\ Holding(d)' <=> Holding(d)
                              /\ command'[d] = command[d]
                              /\ Holding(d) => SupplierOf(d)' = SupplierOf(d)
  <2> SUFFICES ASSUME NEW d \in Buyers \ {c}, Holding(d)
               PROVE  SupplierOf(d)' = SupplierOf(d)
    BY DEF Holding
  <2>1. Req(d).op = "CONFIRM" => Req(d).on \in Orders \ {o}
    BY <1>1, RequestShape
  <2> QED
    BY <1>1, <2>1 DEF SupplierOf
<1>5. \A d \in Buyers \ {c} : Holds(d)'
  <2> SUFFICES ASSUME NEW d \in Buyers \ {c} PROVE Holds(d)'
    OBVIOUS
  <2>1. Holds(d)
    BY DEF ProcurementInv
  <2>2. Holding(d) /\ Req(d).op \in {"REPLACE", "CONFIRM"} => Req(d).on \in Orders \ {o}
    BY <1>1, RequestShape
  <2>3. command[d].phase = "admitted" /\ Req(d).op = "REMOVE" =>
          SupplierOf(d) = Req(d).on /\ ~\E i \in Orders : Refers(i, Req(d).on)'
    <3> SUFFICES ASSUME command[d].phase = "admitted", Req(d).op = "REMOVE", NEW i \in Orders
                 PROVE  SupplierOf(d) = Req(d).on /\ ~Refers(i, Req(d).on)'
      OBVIOUS
    <3>1. SupplierOf(d) = Req(d).on
      BY DEF SupplierOf
    <3>2. ~Refers(i, Req(d).on)
      BY <2>1, <3>1 DEF Holds
    <3>3. Req(d)' = Req(d)
      BY <1>1
    <3>4. i # o => po'[i] = po[i]
      OBVIOUS
    <3>5. ~Refers(i, Req(d).on)'
      BY <3>2, <3>3, <3>4 DEF Refers, OrderExists
    <3> QED
      BY <3>1, <3>5
  <2>4. SupplierOf(d)' = SupplierOf(d) \/ ~Holding(d)
    BY <1>4
  <2> QED
    BY <1>1, <1>4, <2>1, <2>2, <2>3, <2>4 DEF Holds, Holding, SupplierExists, Refers, OrderExists
<1>6. Holds(c)'
  BY DEF Holds, Holding
<1>7. \A d, e \in Buyers : d # e => Apart(d, e)'
  <2> SUFFICES ASSUME NEW d \in Buyers, NEW e \in Buyers, d # e PROVE Apart(d, e)'
    OBVIOUS
  <2>1. Apart(d, e)
    BY DEF ProcurementInv
  <2>2. CASE d = c \/ e = c
    BY <2>2 DEF Apart, Holding
  <2>3. CASE d # c /\ e # c
    BY <1>1, <1>4, <2>1, <2>3 DEF Apart, Holding
  <2> QED
    BY <2>2, <2>3
<1>8. SuppliersExist'
  BY DEF ProcurementInv, SuppliersExist, OrderExists, SupplierExists
<1>9. ConfirmedAsSeen'
  BY DEF ProcurementInv, ConfirmedAsSeen
<1> QED
  BY <1>3, <1>5, <1>6, <1>7, <1>8, <1>9 DEF ProcurementInv

(* A step that writes a supplier: nobody else has locked it, and it is not *)
(* removed while an order refers to it.                                    *)
LEMMA SupplierWritten ==
  ASSUME ProcurementInv, ProcurementTypeOK', NEW c \in Buyers, NEW s \in Suppliers,
         po' = po,
         \A i \in Suppliers \ {s} : supplier'[i] = supplier[i],
         supplier'[s].version = supplier[s].version + 1,
         \A d \in Buyers \ {c} : /\ command'[d] = command[d]
                                 /\ command[d].phase = "admitted" => SupplierOf(d) # s,
         command'[c].request = command[c].request, ~Holding(c)',
         SupplierExists(s)' \/ ~\E o \in Orders : Refers(o, s)
  PROVE  ProcurementInv'
<1>1. \A d \in Buyers : Req(d) \in RequestType /\ Req(d)' = Req(d) /\ SupplierOf(d)' = SupplierOf(d)
  BY DEF ProcurementInv, ProcurementTypeOK, CommandType, Req, SupplierOf
<1>2. \A i \in Suppliers : supplier[i].version \in Nat
  BY DEF ProcurementInv, ProcurementTypeOK, Row
<1>3. \A d \in Buyers : Remembers(d)'
  <2> SUFFICES ASSUME NEW d \in Buyers, Req(d).op = "CONFIRM" PROVE Remembers(d)'
    BY <1>1 DEF Remembers
  <2> DEFINE shown == Req(d).what
  <2>1. Remembers(d) /\ shown.supplier \in Suppliers \cup {NoOne} /\ shown.from.version \in Nat
    BY <1>1, RequestShape DEF ProcurementInv, Screen, Row
  <2>2. CASE shown.supplier = s
    BY <1>1, <1>2, <2>1, <2>2 DEF Remembers
  <2>3. CASE shown.supplier # s
    BY <1>1, <2>1, <2>3 DEF Remembers
  <2> QED
    BY <2>2, <2>3
<1>4. \A d \in Buyers \ {c} : Holds(d)'
  <2> SUFFICES ASSUME NEW d \in Buyers \ {c} PROVE Holds(d)'
    OBVIOUS
  <2>1. Holds(d) /\ command'[d] = command[d]
    BY DEF ProcurementInv
  <2>2. command[d].phase = "admitted" => SupplierOf(d) \in (Suppliers \ {s}) \cup {NoOne}
    BY <2>1, SupplierOfType DEF Holds, Holding, ProcurementInv
  <2> QED
    BY <1>1, <2>1, <2>2 DEF Holds, Holding, SupplierExists, Refers, OrderExists
<1>5. Holds(c)'
  BY DEF Holds, Holding
<1>6. \A d, e \in Buyers : d # e => Apart(d, e)'
  <2> SUFFICES ASSUME NEW d \in Buyers, NEW e \in Buyers, d # e PROVE Apart(d, e)'
    OBVIOUS
  <2>1. Apart(d, e)
    BY DEF ProcurementInv
  <2>2. CASE d = c \/ e = c
    BY <2>2 DEF Apart, Holding
  <2>3. CASE d # c /\ e # c
    BY <1>1, <2>1, <2>3 DEF Apart, Holding
  <2> QED
    BY <2>2, <2>3
<1>7. SuppliersExist'
  <2> SUFFICES ASSUME NEW o \in Orders, OrderExists(o)', po'[o].supplier # NoOne
               PROVE  SupplierExists(po[o].supplier)'
    BY DEF SuppliersExist
  <2>1. po[o].supplier \in Suppliers /\ SupplierExists(po[o].supplier) /\ OrderExists(o)
    BY DEF ProcurementInv, ProcurementTypeOK, OrderType, SuppliersExist, OrderExists
  <2> QED
    BY <2>1 DEF SupplierExists, Refers
<1>8. ConfirmedAsSeen'
  BY DEF ProcurementInv, ConfirmedAsSeen
<1> QED
  BY <1>3, <1>4, <1>5, <1>6, <1>7, <1>8 DEF ProcurementInv
-----------------------------------------------------------------------------
(* A command that goes on, or is answered, changes nothing else.           *)
LEMMA GoesOn ==
  ASSUME ProcurementTypeOK, NEW c \in Buyers,
         NEW phase \in {"keyed", "ordered", "admitted"}, NEW read \in Row \cup {NoOne},
         Goes(c, phase, read)
  PROVE  /\ command' \in [Buyers -> CommandType]
         /\ command'[c].phase = phase /\ command'[c].read = read
         /\ command'[c].request = command[c].request
         /\ \A d \in Buyers \ {c} : command'[d] = command[d]
  BY ZenonT(60) DEF ProcurementTypeOK, CommandType, Goes

LEMMA IsAnswered ==
  ASSUME ProcurementTypeOK, NEW c \in Buyers, NEW version \in Nat, Replied(c, version)
  PROVE  /\ command' \in [Buyers -> CommandType]
         /\ ~Holding(c)'
         /\ command'[c].request = command[c].request
         /\ \A d \in Buyers \ {c} : command'[d] = command[d]
  BY ZenonT(60) DEF ProcurementTypeOK, CommandType, Replied, Holding

(* An answer without a write keeps the invariant.                          *)
LEMMA AnswerKeeps ==
  ASSUME ProcurementInv, NEW c \in Buyers, NEW version \in Nat, Replied(c, version),
         UNCHANGED <<po, supplier, productFits, written>>
  PROVE  ProcurementInv'
<1>1. ProcurementTypeOK /\ Remembers(c)
  BY DEF ProcurementInv
<1>2. ~Holding(c)' /\ command'[c].request = command[c].request
      /\ command' \in [Buyers -> CommandType] /\ \A d \in Buyers \ {c} : command'[d] = command[d]
  BY <1>1, IsAnswered
<1>3. ProcurementTypeOK'
  BY <1>1, <1>2 DEF ProcurementTypeOK
<1>4. Remembers(c)'
  BY <1>1, <1>2 DEF Remembers, Req
<1> QED
  BY <1>2, <1>3, <1>4, OneLetsGo

LEMMA RefusalKeeps ==
  ASSUME ProcurementInv, NEW c \in Buyers, Refused(c),
         UNCHANGED <<po, supplier, productFits, written>>
  PROVE  ProcurementInv'
  BY AnswerKeeps DEF Refused

(* A command that writes makes an entry of its version.                    *)
LEMMA EntriesTyped ==
  ASSUME ProcurementTypeOK, NEW c \in Buyers, NEW object, NEW version \in Nat, Commits(c, object, version)
  PROVE  /\ \A e \in written' : e.version \in Nat
         /\ Replied(c, version)
  BY DEF ProcurementTypeOK, Commits

-----------------------------------------------------------------------------
(* The actions *)

(* What is sent is what the rows said just now.                            *)
LEMMA SendKeeps ==
  ASSUME ProcurementInv, NEW c \in Buyers, Send(c)
  PROVE  ProcurementInv'
<1>1. ProcurementTypeOK
  BY DEF ProcurementInv
<1>2. PICK key \in CommandKeys, r \in OrderRequests \cup SupplierRequests :
        command' = [command EXCEPT ![c] =
                      [NoCommand EXCEPT !.phase = "sent", !.key = key, !.request = r]]
  BY DEF Send
<1>3. r \in RequestType /\
      (r.op = "CONFIRM" => r.on \in Orders /\ r.version = po[r.on].version /\ r.what = Shown(r.on))
  <2>1. \A o \in Orders : Shown(o) \in Screen
    BY <1>1 DEF ProcurementTypeOK, OrderType, Screen, Shown, Row, NoSupplier
  <2>2. CASE r \in OrderRequests
    BY <1>1, <2>1, <2>2 DEF OrderRequests, Request, RequestType, ProcurementTypeOK, OrderType
  <2>3. CASE r \in SupplierRequests
    BY <1>1, <2>3 DEF SupplierRequests, Request, RequestType, ProcurementTypeOK, Row
  <2> QED
    BY <2>2, <2>3
<1>4. /\ \A d \in Buyers \ {c} : command'[d] = command[d]
      /\ command'[c].phase = "sent" /\ command'[c].request = r
      /\ command' \in [Buyers -> CommandType]
  BY <1>1, <1>2, <1>3 DEF ProcurementTypeOK, CommandType, NoCommand
<1>5. ProcurementTypeOK'
  BY <1>1, <1>4 DEF Send, ProcurementTypeOK
<1>6. Remembers(c)'
  <2>1. Req(c)' = r /\ po' = po /\ supplier' = supplier
    BY <1>4 DEF Req, Send
  <2>2. r.op = "CONFIRM" =>
          /\ po[r.on].version \in Nat
          /\ r.what.supplier = po[r.on].supplier /\ r.what.lines = po[r.on].lines
          /\ r.what.supplier # NoOne =>
               r.what.from = supplier[r.what.supplier] /\ supplier[r.what.supplier].version \in Nat
    BY <1>1, <1>3 DEF Shown, ProcurementTypeOK, OrderType, Row
  <2> QED
    BY <1>3, <2>1, <2>2 DEF Remembers
<1>7. ~Holding(c)'
  BY <1>4 DEF Holding
<1> QED
  BY <1>4, <1>5, <1>6, <1>7, OneLetsGo DEF Send

LEMMA RepeatKeeps ==
  ASSUME ProcurementInv, NEW c \in Buyers, Repeat(c)
  PROVE  ProcurementInv'
<1>1. ProcurementTypeOK /\ Remembers(c)
  BY DEF ProcurementInv
<1>2. /\ \A d \in Buyers \ {c} : command'[d] = command[d]
      /\ command'[c].phase = "sent" /\ command'[c].request = command[c].request
      /\ command' \in [Buyers -> CommandType]
  BY ZenonT(60), <1>1 DEF Repeat, ProcurementTypeOK, CommandType
<1>3. ProcurementTypeOK'
  BY <1>1, <1>2 DEF Repeat, ProcurementTypeOK
<1>4. Remembers(c)'
  BY <1>1, <1>2 DEF Repeat, Remembers, Req
<1>5. ~Holding(c)'
  BY <1>2 DEF Holding
<1> QED
  BY <1>2, <1>3, <1>4, <1>5, OneLetsGo DEF Repeat

LEMMA LoseCommandKeeps ==
  ASSUME ProcurementInv, NEW c \in Buyers, LoseCommand(c)
  PROVE  ProcurementInv'
  BY RefusalKeeps DEF LoseCommand

(* A step to a phase of the transaction, once its locks are accounted for. *)
LEMMA GoingKeeps ==
  ASSUME ProcurementInv, NEW c \in Buyers,
         NEW phase \in {"keyed", "ordered", "admitted"}, NEW read \in Row \cup {NoOne},
         Goes(c, phase, read), UNCHANGED <<po, supplier, productFits, written>>,
         Holds(c)', \A d \in Buyers \ {c} : Apart(c, d)' /\ Apart(d, c)'
  PROVE  ProcurementInv'
<1>1. ProcurementTypeOK /\ Remembers(c)
  BY DEF ProcurementInv
<1>2. /\ command' \in [Buyers -> CommandType]
      /\ command'[c].request = command[c].request
      /\ \A d \in Buyers \ {c} : command'[d] = command[d]
  BY <1>1, GoesOn
<1>3. ProcurementTypeOK'
  BY <1>1, <1>2 DEF ProcurementTypeOK
<1>4. Remembers(c)'
  BY <1>1, <1>2 DEF Remembers, Req
<1> QED
  BY <1>2, <1>3, <1>4, OnlyOneMoves

LEMMA TakeKeyKeeps ==
  ASSUME ProcurementInv, NEW c \in Buyers, TakeKey(c)
  PROVE  ProcurementInv'
<1>0. ProcurementTypeOK
  BY DEF ProcurementInv
<1>1. CASE Refused(c)
  BY <1>1, RefusalKeeps DEF TakeKey
<1>2. CASE \E e \in Replays(c) : Replied(c, e.version)
  BY <1>0, <1>2, AnswerKeeps DEF TakeKey, Replays, ReceiptsOf, ProcurementTypeOK
<1>3. CASE Goes(c, "keyed", NoOne)
  <2>1. command'[c].phase = "keyed"
    BY <1>0, <1>3, GoesOn
  <2>2. Holds(c)' /\ \A d \in Buyers \ {c} : Apart(c, d)' /\ Apart(d, c)'
    BY <2>1 DEF Holds, Apart, Holding
  <2> QED
    BY <1>3, <2>2, GoingKeeps DEF TakeKey
<1> QED
  BY <1>1, <1>2, <1>3 DEF TakeKey

(* The order is locked: nobody else holds it.                              *)
LEMMA LockOrderKeeps ==
  ASSUME ProcurementInv, NEW c \in Buyers, LockOrder(c)
  PROVE  ProcurementInv'
<1>0. ProcurementTypeOK
  BY DEF ProcurementInv
<1>1. CASE Refused(c)
  BY <1>1, RefusalKeeps DEF LockOrder
<1>2. CASE OrderIsCurrent(c) /\ Goes(c, "ordered", NoOne)
  <2>1. /\ command'[c].phase = "ordered" /\ Req(c)' = Req(c)
        /\ \A d \in Buyers \ {c} : command'[d] = command[d]
    BY <1>0, <1>2, GoesOn DEF Req
  <2>2. Holds(c)'
    BY <1>2, <2>1 DEF LockOrder, OrderIsCurrent, Holds, Holding
  <2>3. \A d \in Buyers \ {c} : Apart(c, d)' /\ Apart(d, c)'
    BY <2>1 DEF LockOrder, OrderFree, Apart, Holding, Req
  <2> QED
    BY <1>2, <2>2, <2>3, GoingKeeps DEF LockOrder
<1> QED
  BY <1>1, <1>2 DEF LockOrder

LEMMA CloseOrderKeeps ==
  ASSUME ProcurementInv, NEW c \in Buyers, CloseOrder(c)
  PROVE  ProcurementInv'
<1>0. ProcurementTypeOK
  BY DEF ProcurementInv
<1>o. PICK o \in Orders : o = Req(c).on
  BY <1>0, RequestShape DEF CloseOrder, ProcurementTypeOK, CommandType, Req
<1>1. CASE ~OrderIsCurrent(c)
  BY <1>1, RefusalKeeps DEF CloseOrder
<1>2. CASE OrderIsCurrent(c)
  <2>1. po[o] \in OrderType
    BY <1>0 DEF ProcurementTypeOK
  <2>2. /\ \A i \in Orders \ {o} : po'[i] = po[i]
        /\ po'[o].version = po[o].version + 1 /\ po'[o].supplier = po[o].supplier
        /\ po'[o].frozen = po[o].frozen /\ po'[o].agreed = po[o].agreed
        /\ po' \in [Orders -> OrderType]
        /\ Commits(c, o, po[o].version + 1)
        /\ OrderExists(o)
    BY <1>0, <1>o, <1>2, <2>1 DEF CloseOrder, ProcurementTypeOK, OrderType, OrderIsCurrent
  <2>3. /\ command' \in [Buyers -> CommandType] /\ ~Holding(c)'
        /\ command'[c].request = command[c].request
        /\ \A d \in Buyers \ {c} : command'[d] = command[d]
        /\ \A e \in written' : e.version \in Nat
    BY <1>0, <2>1, <2>2, EntriesTyped, IsAnswered DEF OrderType
  <2>4. ProcurementTypeOK'
    BY <1>0, <2>2, <2>3 DEF CloseOrder, ProcurementTypeOK
  <2>5. \A d \in Buyers \ {c} : Holding(d) => Req(d).on # o
    BY <1>o DEF CloseOrder, OrderFree, Holding
  <2>6. po'[o].supplier # NoOne => SupplierExists(po'[o].supplier)
    BY <2>1, <2>2 DEF ProcurementInv, SuppliersExist
  <2>7. \A d \in Buyers \ {c} :
          command[d].phase = "admitted" /\ Req(d).op = "REMOVE" => ~Refers(o, Req(d).on)'
    <3> SUFFICES ASSUME NEW d \in Buyers \ {c}, command[d].phase = "admitted", Req(d).op = "REMOVE"
                 PROVE  po'[o].supplier # Req(d).on
      BY <2>3 DEF Refers, Req
    <3>1. Holds(d) /\ SupplierOf(d) = Req(d).on
      BY DEF ProcurementInv, SupplierOf
    <3> QED
      BY <2>1, <2>2, <3>1 DEF Holds, Refers
  <2>8. po'[o].frozen = po'[o].agreed
    BY <2>1, <2>2 DEF ProcurementInv, ConfirmedAsSeen
  <2> QED
    BY <2>1, <2>2, <2>3, <2>4, <2>5, <2>6, <2>7, <2>8, OrderWritten DEF CloseOrder
<1> QED
  BY <1>1, <1>2
(* The supplier is locked: nobody else holds it, and an order that refers  *)
(* to it keeps it in existence.                                            *)
LEMMA LockSupplierKeeps ==
  ASSUME ProcurementAssumption, ProcurementInv, NEW c \in Buyers, LockSupplier(c)
  PROVE  ProcurementInv'
<1>0. ProcurementTypeOK /\ SuppliersExist /\ Holds(c) /\ Req(c) \in RequestType
  BY DEF ProcurementInv, ProcurementTypeOK, CommandType, Req
<1>1. Req(c).op \in {"CREATE", "REPLACE", "CONFIRM"}
  BY <1>0 DEF LockSupplier, Holds, Holding
<1>2. PICK s \in Suppliers \cup {NoOne} : s = SupplierOf(c)
  BY <1>0, <1>1, SupplierOfType
<1>3. PICK read \in Row \cup {NoOne} : read = IF s = NoOne THEN NoSupplier ELSE supplier[s]
  BY <1>0 DEF ProcurementTypeOK, NoSupplier, Row
<1>4. CASE ~SupplierAdmitted(c)
  BY <1>4, RefusalKeeps DEF LockSupplier
<1>5. CASE SupplierAdmitted(c)
  <2>1. Goes(c, "admitted", read)
    BY <1>2, <1>3, <1>5 DEF LockSupplier
  <2>2. /\ command'[c].phase = "admitted" /\ command'[c].read = read /\ Req(c)' = Req(c)
        /\ \A d \in Buyers \ {c} : command'[d] = command[d]
    BY <1>0, <2>1, GoesOn DEF Req
  <2>3. \A d \in Buyers : SupplierOf(d)' = SupplierOf(d) /\ Req(d)' = Req(d)
    BY <2>2 DEF LockSupplier, SupplierOf, Req
  <2>4. Req(c).op \in {"REPLACE", "CONFIRM"} =>
          /\ Holding(c) /\ Req(c).on \in Orders
          /\ po[Req(c).on].version = Req(c).version /\ po[Req(c).on].status = "DRAFT"
    BY <1>0, RequestShape DEF LockSupplier, Holds, Holding
  <2>5. s # NoOne => SupplierExists(s)
    <3>1. \A o \in Orders : po[o].status = "DRAFT" /\ po[o].supplier = s /\ s # NoOne => SupplierExists(s)
      BY <1>0 DEF SuppliersExist, OrderExists
    <3>2. Req(c).op = "CONFIRM" => s = po[Req(c).on].supplier
      BY <1>2 DEF SupplierOf
    <3> QED
      BY <1>1, <1>2, <1>5, <2>4, <3>1, <3>2 DEF SupplierAdmitted
  <2>6. Req(c).op = "CONFIRM" => s # NoOne /\ supplier[s].version = Req(c).what.from.version
    BY <1>2, <1>5 DEF SupplierAdmitted
  <2>7. Holds(c)'
    <3>1. SupplierOf(c)' = s /\ po' = po /\ supplier' = supplier /\ ~(Req(c).op = "REMOVE")
      BY <1>1, <1>2, <2>3 DEF LockSupplier
    <3> QED
      BY <1>1, <1>3, <2>2, <2>4, <2>5, <2>6, <3>1 DEF Holds, Holding, SupplierExists
  <2>8. ASSUME NEW d \in Buyers \ {c} PROVE Apart(c, d)' /\ Apart(d, c)'
    <3>1. Apart(c, d) /\ Apart(d, c)
      BY DEF ProcurementInv
    <3>2. command[d].phase = "admitted" /\ s # NoOne => SupplierOf(d) # s
      BY <1>2 DEF LockSupplier, SupplierFree
    <3>3. Holding(d)' <=> Holding(d)
      BY <2>2 DEF Holding
    <3>4. Holding(d) /\ (Req(c).on \in Orders \/ Req(d).on \in Orders) => Req(c).on # Req(d).on
      BY <1>0, <1>1, <2>4, <3>1, RequestShape DEF Apart, ProcurementAssumption
    <3> QED
      BY <1>2, <2>2, <2>3, <3>2, <3>3, <3>4 DEF Apart
  <2> QED
    BY <2>1, <2>7, <2>8, GoingKeeps DEF LockSupplier
<1> QED
  BY <1>4, <1>5
(* What is confirmed was seen: the token stands for the lines and the      *)
(* product, and the two versions for the rest.                             *)
LEMMA ConfirmedIsShown ==
  ASSUME ProcurementInv, NEW c \in Buyers, NEW o \in Orders,
         command[c].phase = "admitted", Req(c).op = "CONFIRM", o = Req(c).on,
         ConfirmationAllowed(c)
  PROVE  [Shown(o) EXCEPT !.from = command[c].read] = Req(c).what
<1> DEFINE seen == Req(c).what
           read == command[c].read
<1>1. ProcurementTypeOK /\ Remembers(c) /\ Holds(c) /\ Req(c) \in RequestType
  BY DEF ProcurementInv, ProcurementTypeOK, CommandType, Req
<1>2. seen \in Screen
  BY <1>1, RequestShape
<1>3. seen.supplier = po[o].supplier /\ seen.lines = po[o].lines /\ seen.fits = productFits
  <2>1. po[o].version = Req(c).version
    BY <1>1 DEF Holds, Holding
  <2>2. seen.supplier = po[o].supplier /\ seen.lines = po[o].lines
    BY <1>1, <2>1 DEF Remembers
  <2>3. /\ Token(po[o].supplier, po[o].lines, productFits) # NoOne
        /\ Token(po[o].supplier, po[o].lines, productFits) = Token(seen.supplier, seen.lines, seen.fits)
    BY DEF ConfirmationAllowed
  <2> QED
    BY <2>2, <2>3 DEF Token
<1>4. SupplierOf(c) = po[o].supplier
  BY DEF SupplierOf
<1>5. read = supplier[po[o].supplier] /\ read.version = seen.from.version /\ po[o].supplier # NoOne
  BY <1>1, <1>4 DEF Holds
<1>6. seen.from = read
  BY <1>1, <1>3, <1>5 DEF Remembers
<1>7. [Shown(o) EXCEPT !.from = read] =
        [supplier |-> po[o].supplier, lines |-> po[o].lines, fits |-> productFits, from |-> read]
  BY DEF Shown
<1> QED
  BY <1>2, <1>3, <1>6, <1>7 DEF Screen

LEMMA WriteOrderKeeps ==
  ASSUME ProcurementAssumption, ProcurementInv, NEW c \in Buyers, WriteOrder(c)
  PROVE  ProcurementInv'
<1>0. /\ ProcurementTypeOK /\ SuppliersExist /\ ConfirmedAsSeen
      /\ Holds(c) /\ Holding(c) /\ Req(c) \in RequestType
  BY DEF ProcurementInv, ProcurementTypeOK, CommandType, Req, WriteOrder, Holding
<1>1. CASE Refused(c) /\ UNCHANGED <<po, written>>
  BY <1>1, RefusalKeeps DEF WriteOrder
<1>2. ASSUME NEW o \in Orders,
             IF Req(c).op = "CONFIRM" THEN ConfirmationAllowed(c) ELSE LinesAdmitted(c),
             IF Req(c).op = "CREATE" THEN po[o] = NoOrder ELSE o = Req(c).on,
             po' = [po EXCEPT ![o] =
               IF Req(c).op = "CONFIRM" THEN Confirmed(c, o) ELSE Drafted(c, o)],
             Commits(c, o, po[o].version + 1)
      PROVE  ProcurementInv'
  <2>1. po[o] \in OrderType /\ Req(c).op \in {"CREATE", "REPLACE", "CONFIRM"}
    BY <1>0 DEF ProcurementTypeOK, WriteOrder
  <2>2. /\ command' \in [Buyers -> CommandType] /\ ~Holding(c)'
        /\ command'[c].request = command[c].request
        /\ \A d \in Buyers \ {c} : command'[d] = command[d]
        /\ \A e \in written' : e.version \in Nat
    BY <1>0, <1>2, <2>1, EntriesTyped, IsAnswered DEF OrderType
  <2>3. /\ \A i \in Orders \ {o} : po'[i] = po[i]
        /\ po'[o] \in OrderType
        /\ po'[o].version = po[o].version + 1
        /\ po'[o].frozen = po'[o].agreed
        /\ po'[o].supplier = SupplierOf(c)
        /\ po' \in [Orders -> OrderType]
    <3>1. CASE Req(c).op = "CONFIRM"
      <4>1. Req(c).what \in Screen
        BY <1>0, <3>1, RequestShape
      <4>2. [Shown(o) EXCEPT !.from = command[c].read] = Req(c).what
        BY <1>2, <3>1, ConfirmedIsShown DEF WriteOrder
      <4>3. Confirmed(c, o) =
              [status |-> "CONFIRMED", version |-> po[o].version + 1, supplier |-> po[o].supplier,
               lines |-> po[o].lines, agreed |-> Req(c).what, frozen |-> Req(c).what]
        BY <4>2 DEF Confirmed
      <4>4. Confirmed(c, o) \in OrderType
        BY <2>1, <4>1, <4>3 DEF OrderType
      <4>5. po' = [po EXCEPT ![o] = Confirmed(c, o)]
        BY <1>2, <3>1
      <4>6. SupplierOf(c) = po[o].supplier
        BY <1>2, <3>1 DEF SupplierOf
      <4> QED
        BY <1>0, <4>3, <4>4, <4>5, <4>6 DEF ProcurementTypeOK
    <3>2. CASE Req(c).op # "CONFIRM"
      <4>1. Req(c).what \in Contents /\ SupplierOf(c) = Req(c).what.supplier
        BY <1>0, <2>1, <3>2, RequestShape DEF SupplierOf
      <4>2. Drafted(c, o) =
              [status |-> "DRAFT", version |-> po[o].version + 1, supplier |-> Req(c).what.supplier,
               lines |-> Req(c).what.lines, agreed |-> po[o].agreed, frozen |-> po[o].frozen]
        BY DEF Drafted
      <4>3. Drafted(c, o) \in OrderType
        BY <2>1, <4>1, <4>2 DEF OrderType, Contents
      <4>4. po' = [po EXCEPT ![o] = Drafted(c, o)]
        BY <1>2, <3>2
      <4> QED
        BY <1>0, <4>1, <4>2, <4>3, <4>4 DEF ProcurementTypeOK, ConfirmedAsSeen
    <3> QED
      BY <3>1, <3>2
  <2>4. ProcurementTypeOK'
    BY <1>0, <2>2, <2>3 DEF WriteOrder, ProcurementTypeOK
  <2>5. \A d \in Buyers \ {c} : Holding(d) => Req(d).on # o
    <3> SUFFICES ASSUME NEW d \in Buyers \ {c}, Holding(d), Req(d).on = o PROVE FALSE
      OBVIOUS
    <3>1. Holds(d) /\ Apart(d, c) /\ Req(d) \in RequestType
      BY <1>0 DEF ProcurementInv, ProcurementTypeOK, CommandType, Req
    <3>2. Req(d).op \in {"REPLACE", "CONFIRM"} /\ po[o].status = "DRAFT"
      BY <3>1, RequestShape DEF Holds, ProcurementAssumption
    <3> QED
      BY <1>0, <1>2, <3>1, <3>2 DEF Apart, NoOrder
  <2>6. OrderExists(o)' /\ po'[o].supplier # NoOne => SupplierExists(po'[o].supplier)
    BY <1>0, <2>3 DEF Holds, WriteOrder
  <2>7. \A d \in Buyers \ {c} :
          command[d].phase = "admitted" /\ Req(d).op = "REMOVE" => ~Refers(o, Req(d).on)'
    <3> SUFFICES ASSUME NEW d \in Buyers \ {c}, command[d].phase = "admitted", Req(d).op = "REMOVE"
                 PROVE  po'[o].supplier # Req(d).on
      BY <2>2 DEF Refers, Req
    <3>1. Apart(d, c) /\ SupplierOf(d) = Req(d).on /\ Req(d) \in RequestType
      BY <1>0 DEF ProcurementInv, SupplierOf, ProcurementTypeOK, CommandType, Req
    <3>2. Req(d).on # NoOne
      BY <3>1, RequestShape DEF ProcurementAssumption
    <3> QED
      BY <2>3, <3>1, <3>2 DEF Apart, WriteOrder
  <2> QED
    BY <2>2, <2>3, <2>4, <2>5, <2>6, <2>7, OrderWritten DEF WriteOrder
<1> QED
  BY <1>1, <1>2 DEF WriteOrder
(* What a command makes of a supplier, once nobody else has locked it.     *)
LEMMA SupplierSaved ==
  ASSUME ProcurementInv, NEW c \in Buyers, NEW s \in Suppliers, NEW look \in Looks \cup {NoOne},
         \A d \in Buyers \ {c} : command[d].phase = "admitted" => SupplierOf(d) # s,
         supplier' = [supplier EXCEPT ![s] = [version |-> supplier[s].version + 1, look |-> look]],
         Commits(c, s, supplier[s].version + 1), UNCHANGED <<po, productFits>>,
         look # NoOne \/ ~\E o \in Orders : Refers(o, s)
  PROVE  ProcurementInv'
<1>0. ProcurementTypeOK /\ supplier[s] \in Row
  BY DEF ProcurementInv, ProcurementTypeOK
<1>1. /\ command' \in [Buyers -> CommandType] /\ ~Holding(c)'
      /\ command'[c].request = command[c].request
      /\ \A d \in Buyers \ {c} : command'[d] = command[d]
      /\ \A e \in written' : e.version \in Nat
  BY <1>0, EntriesTyped, IsAnswered DEF Row
<1>2. /\ \A i \in Suppliers \ {s} : supplier'[i] = supplier[i]
      /\ supplier'[s] = [version |-> supplier[s].version + 1, look |-> look]
      /\ supplier' \in [Suppliers -> Row]
  BY <1>0 DEF ProcurementTypeOK, Row
<1>3. ProcurementTypeOK'
  BY <1>0, <1>1, <1>2 DEF ProcurementTypeOK
<1>4. supplier'[s].version = supplier[s].version + 1
      /\ (SupplierExists(s)' \/ ~\E o \in Orders : Refers(o, s))
  BY <1>2 DEF SupplierExists
<1> QED
  BY <1>1, <1>2, <1>3, <1>4, SupplierWritten

LEMMA SaveSupplierKeeps ==
  ASSUME ProcurementAssumption, ProcurementInv, NEW c \in Buyers, SaveSupplier(c)
  PROVE  ProcurementInv'
<1>0. Req(c) \in RequestType
  BY DEF ProcurementInv, ProcurementTypeOK, CommandType, Req
<1>1. CASE Refused(c) /\ UNCHANGED <<supplier, written>>
  BY <1>1, RefusalKeeps DEF SaveSupplier
<1>2. ASSUME NEW s \in Suppliers,
             IF Req(c).op = "ADD" THEN supplier[s] = NoSupplier ELSE s = Req(c).on,
             supplier' = [supplier EXCEPT ![s] = [version |-> supplier[s].version + 1, look |-> Req(c).what]],
             Commits(c, s, supplier[s].version + 1)
      PROVE  ProcurementInv'
  <2>1. Req(c).what \in Looks /\ Req(c).what # NoOne
    BY <1>0, RequestShape DEF SaveSupplier, ProcurementAssumption
  <2>2. ASSUME NEW d \in Buyers \ {c}, command[d].phase = "admitted" PROVE SupplierOf(d) # s
    <3>1. CASE Req(c).op = "ADD"
      BY <1>2, <2>2, <3>1 DEF ProcurementInv, Holds, SupplierExists, NoSupplier, ProcurementAssumption
    <3>2. CASE Req(c).op # "ADD"
      BY <1>2, <2>2, <3>2 DEF SaveSupplier, SupplierFree
    <3> QED
      BY <3>1, <3>2
  <2> QED
    BY <1>2, <2>1, <2>2, SupplierSaved DEF SaveSupplier
<1> QED
  BY <1>1, <1>2 DEF SaveSupplier

(* No order refers to a supplier when its removal locks it, and none can   *)
(* begin to while it is locked.                                            *)
LEMMA LookForOrdersKeeps ==
  ASSUME ProcurementAssumption, ProcurementInv, NEW c \in Buyers, LookForOrders(c)
  PROVE  ProcurementInv'
<1>0. ProcurementTypeOK /\ Req(c) \in RequestType
  BY DEF ProcurementInv, ProcurementTypeOK, CommandType, Req
<1>1. PICK s \in Suppliers : s = Req(c).on /\ s # NoOne
  BY <1>0, RequestShape DEF LookForOrders, ProcurementAssumption
<1>2. CASE Refused(c)
  BY <1>2, RefusalKeeps DEF LookForOrders
<1>3. CASE Goes(c, "admitted", supplier[s]) /\ SupplierIsCurrent(c) /\ ~\E o \in Orders : Refers(o, s)
  <2>1. supplier[s] \in Row
    BY <1>0 DEF ProcurementTypeOK
  <2>2. /\ command'[c].phase = "admitted" /\ command'[c].read = supplier[s] /\ Req(c)' = Req(c)
        /\ \A d \in Buyers \ {c} : command'[d] = command[d]
    BY <1>0, <1>3, <2>1, GoesOn DEF Req
  <2>3. \A d \in Buyers : SupplierOf(d)' = SupplierOf(d) /\ Req(d)' = Req(d)
    BY <2>2 DEF LookForOrders, SupplierOf, Req
  <2>4. SupplierOf(c) = s /\ Req(c).op = "REMOVE" /\ SupplierExists(s)
    BY <1>1, <1>3 DEF LookForOrders, SupplierOf, SupplierIsCurrent
  <2>5. Holds(c)'
    <3>1. po' = po /\ supplier' = supplier
      BY DEF LookForOrders
    <3> QED
      BY <1>3, <2>2, <2>3, <2>4, <3>1 DEF Holds, Holding, SupplierExists, Refers, OrderExists
  <2>6. ASSUME NEW d \in Buyers \ {c} PROVE Apart(c, d)' /\ Apart(d, c)'
    <3>1. command[d].phase = "admitted" => SupplierOf(d) # s
      BY <1>1 DEF LookForOrders, SupplierFree
    <3>2. Req(c).on \notin Orders
      BY <1>1 DEF ProcurementAssumption
    <3> QED
      BY <2>2, <2>3, <2>4, <3>1, <3>2 DEF Apart
  <2> QED
    BY <1>3, <2>1, <2>5, <2>6, GoingKeeps DEF LookForOrders
<1> QED
  BY <1>1, <1>2, <1>3 DEF LookForOrders

LEMMA RemoveSupplierKeeps ==
  ASSUME ProcurementAssumption, ProcurementInv, NEW c \in Buyers, RemoveSupplier(c)
  PROVE  ProcurementInv'
<1>0. Req(c) \in RequestType /\ Holds(c)
  BY DEF ProcurementInv, ProcurementTypeOK, CommandType, Req
<1>1. PICK s \in Suppliers : s = Req(c).on /\ s = SupplierOf(c) /\ s # NoOne
  BY <1>0, RequestShape DEF RemoveSupplier, SupplierOf, ProcurementAssumption
<1>2. \A d \in Buyers \ {c} : command[d].phase = "admitted" => SupplierOf(d) # s
  BY <1>1 DEF ProcurementInv, Apart, RemoveSupplier
<1>3. ~\E o \in Orders : Refers(o, s)
  BY <1>0, <1>1 DEF Holds, RemoveSupplier
<1>4. /\ supplier' = [supplier EXCEPT ![s] = [version |-> supplier[s].version + 1, look |-> NoOne]]
      /\ Commits(c, s, supplier[s].version + 1) /\ UNCHANGED <<po, productFits>>
  BY <1>1 DEF RemoveSupplier
<1>5. NoOne \in Looks \cup {NoOne}
  OBVIOUS
<1> QED
  BY <1>2, <1>3, <1>4, <1>5, SupplierSaved

LEMMA ChangeProductKeeps ==
  ASSUME ProcurementInv, ChangeProduct
  PROVE  ProcurementInv'
<1>1. UNCHANGED <<po, supplier, command, written>> /\ ProcurementTypeOK'
  BY DEF ChangeProduct, ProcurementInv, ProcurementTypeOK
<1>2. \A c \in Buyers : Remembers(c)' /\ Holds(c)'
  BY <1>1, CommandStands DEF ProcurementInv
<1>3. \A c, d \in Buyers : c # d => Apart(c, d)'
  BY <1>1, CommandsStayApart DEF ProcurementInv
<1>4. SuppliersExist' /\ ConfirmedAsSeen'
  BY <1>1 DEF ProcurementInv, SuppliersExist, ConfirmedAsSeen, OrderExists, SupplierExists
<1> QED
  BY <1>1, <1>2, <1>3, <1>4 DEF ProcurementInv
-----------------------------------------------------------------------------
LEMMA ProcurementInitHolds ==
  ASSUME ProcurementInit
  PROVE  ProcurementInv
<1>1. po \in [Orders -> OrderType] /\ \A o \in Orders : po[o] = NoOrder
  BY DEF ProcurementInit, NoOrder, OrderType
<1>2. supplier \in [Suppliers -> Row] /\ productFits \in BOOLEAN
  BY DEF ProcurementInit, NoSupplier, Row
<1>3. command \in [Buyers -> CommandType]
      /\ \A c \in Buyers : command[c].phase = "idle" /\ Req(c).op = "none"
  BY DEF ProcurementInit, NoCommand, NoRequest, CommandType, RequestType, Req
<1>4. \A e \in written : e.version \in Nat
  BY DEF ProcurementInit
<1>5. \A c \in Buyers : Remembers(c) /\ Holds(c)
  BY <1>3 DEF Remembers, Holds, Holding
<1>6. \A c, d \in Buyers : Apart(c, d)
  BY <1>3 DEF Apart, Holding
<1>7. SuppliersExist /\ ConfirmedAsSeen
  BY <1>1 DEF SuppliersExist, ConfirmedAsSeen, OrderExists, NoOrder
<1> QED
  BY <1>1, <1>2, <1>3, <1>4, <1>5, <1>6, <1>7 DEF ProcurementInv, ProcurementTypeOK

LEMMA ProcurementStepKeeps ==
  ASSUME ProcurementAssumption, ProcurementInv, [ProcurementNext]_procurementVars
  PROVE  ProcurementInv'
<1>1. CASE UNCHANGED procurementVars
  <2>1. UNCHANGED <<po, supplier, command, written>> /\ ProcurementTypeOK'
    BY <1>1 DEF procurementVars, ProcurementInv, ProcurementTypeOK
  <2>2. \A c \in Buyers : Remembers(c)' /\ Holds(c)'
    BY <2>1, CommandStands DEF ProcurementInv
  <2>3. \A c, d \in Buyers : c # d => Apart(c, d)'
    BY <2>1, CommandsStayApart DEF ProcurementInv
  <2>4. SuppliersExist' /\ ConfirmedAsSeen'
    BY <2>1 DEF ProcurementInv, SuppliersExist, ConfirmedAsSeen, OrderExists, SupplierExists
  <2> QED
    BY <2>1, <2>2, <2>3, <2>4 DEF ProcurementInv
<1>2. CASE \E c \in Buyers :
             \/ Send(c) \/ Repeat(c) \/ LoseCommand(c) \/ TakeKey(c)
             \/ LockOrder(c) \/ CloseOrder(c) \/ LockSupplier(c) \/ WriteOrder(c)
             \/ SaveSupplier(c) \/ LookForOrders(c) \/ RemoveSupplier(c)
  BY <1>2, SendKeeps, RepeatKeeps, LoseCommandKeeps, TakeKeyKeeps, LockOrderKeeps, CloseOrderKeeps,
     LockSupplierKeeps, WriteOrderKeeps, SaveSupplierKeeps, LookForOrdersKeeps, RemoveSupplierKeeps
<1>3. CASE ChangeProduct
  BY <1>3, ChangeProductKeeps
<1> QED
  BY <1>1, <1>2, <1>3 DEF ProcurementNext

THEOREM ProcurementIsInductive == ProcurementSpec => []ProcurementInv
<1>1. ProcurementInit => ProcurementInv
  BY ProcurementInitHolds
<1>2. ProcurementInv /\ [ProcurementNext]_procurementVars => ProcurementInv'
  BY ProcurementStepKeeps, ProcurementAssumption
<1> QED
  BY <1>1, <1>2, PTL DEF ProcurementSpec

(* A confirmed order is the one its buyer saw, and what a transaction has  *)
(* read under its locks stays true until it commits.                       *)
THEOREM OrdersAlwaysStand == ProcurementSpec => []OrdersStand
<1>1. ASSUME ProcurementInv PROVE OrdersStand
  <2>1. ConfirmedAsSeen
    BY <1>1 DEF ProcurementInv
  <2>2. ASSUME NEW c \in Buyers
        PROVE  /\ InTransaction(c) /\ command[c].phase # "keyed" /\ Req(c).on \in Orders =>
                    po[Req(c).on].version = Req(c).version
               /\ command[c].phase = "admitted" /\ SupplierOf(c) # NoOne =>
                    supplier[SupplierOf(c)] = command[c].read
               /\ command[c].phase = "admitted" /\ Req(c).op = "REMOVE" =>
                    ~\E o \in Orders : Refers(o, Req(c).on)
    <3>1. Holds(c) /\ Req(c) \in RequestType
      BY <1>1 DEF ProcurementInv, ProcurementTypeOK, CommandType, Req
    <3>2. Req(c).op = "REMOVE" => SupplierOf(c) = Req(c).on
      BY DEF SupplierOf
    <3>3. Holding(c) /\ Req(c).on \in Orders => Req(c).op \in {"REPLACE", "CONFIRM"}
      BY <3>1, RequestShape, ProcurementAssumption DEF Holds, Holding, ProcurementAssumption
    <3> QED
      BY <3>1, <3>2, <3>3 DEF Holds, Holding, InTransaction
  <2> QED
    BY <2>1, <2>2 DEF OrdersStand, ReadsHold
<1> QED
  BY <1>1, ProcurementIsInductive, PTL

-----------------------------------------------------------------------------
(* The effects of commands.  A transaction that has its key has no receipt *)
(* under it and shares it with nobody, so that the entry it commits is the *)
(* first of its key; and it commits the next version of what it locked.    *)
Entries(i) == {e \in written : e.object = i}
Last(i) == IF i \in Orders THEN po[i].version ELSE supplier[i].version

Told(c) ==
  command[c].told # 0 =>
    \E e \in written : /\ e.request = Req(c) /\ e.key = command[c].key
                       /\ e.version = command[c].told

NotYet(c) == InTransaction(c) => ReceiptsOf(c) = {}

OwnKey(c, d) ==
  InTransaction(c) /\ InTransaction(d) =>
    ~SameNamespace(Req(c), command[c].key, Req(d), command[d].key)

OneReceipt ==
  \A e, f \in written : e.key # NoOne /\ SameNamespace(e.request, e.key, f.request, f.key) => e = f

Authored(i) ==
  /\ IsFiniteSet(Entries(i))
  /\ {e.version : e \in Entries(i)} = 1..Last(i)
  /\ Cardinality(Entries(i)) = Last(i)

EffectInv ==
  /\ \A c \in Buyers : Told(c) /\ NotYet(c)
  /\ \A c, d \in Buyers : c # d => OwnKey(c, d)
  /\ OneReceipt
  /\ \A i \in Orders \cup Suppliers : Authored(i)

(* A step of one command that writes nothing.                              *)
LEMMA NothingWritten ==
  ASSUME EffectInv, NEW c \in Buyers, UNCHANGED <<po, supplier, written>>,
         \A d \in Buyers \ {c} : command'[d] = command[d],
         Told(c)', NotYet(c)',
         \A d \in Buyers \ {c} : OwnKey(c, d)' /\ OwnKey(d, c)'
  PROVE  EffectInv'
<1>1. \A d \in Buyers : Told(d)' /\ NotYet(d)'
  BY DEF EffectInv, Told, NotYet, InTransaction, ReceiptsOf, Req
<1>2. \A d, e \in Buyers : d # e => OwnKey(d, e)'
  BY DEF EffectInv, OwnKey, InTransaction, Req
<1>3. OneReceipt' /\ \A i \in Orders \cup Suppliers : Authored(i)'
  BY DEF EffectInv, OneReceipt, Authored, Entries, Last
<1> QED
  BY <1>1, <1>2, <1>3 DEF EffectInv

(* A command outside its transaction is bound by what it was told alone.   *)
LEMMA LetsGoOfKey ==
  ASSUME EffectInv, NEW c \in Buyers, UNCHANGED <<po, supplier, written>>,
         \A d \in Buyers \ {c} : command'[d] = command[d],
         Told(c)', ~InTransaction(c)'
  PROVE  EffectInv'
BY NothingWritten DEF NotYet, OwnKey

(* A command refused or rolled back is told nothing.                       *)
LEMMA RefusedInEffect ==
  ASSUME EffectInv, ProcurementTypeOK, NEW c \in Buyers, Refused(c), UNCHANGED <<po, supplier, written>>
  PROVE  EffectInv'
<1>1. /\ command'[c].phase = "answered" /\ command'[c].told = 0
      /\ \A d \in Buyers \ {c} : command'[d] = command[d]
  BY DEF Refused, Replied, ProcurementTypeOK, CommandType
<1> QED
  BY <1>1, LetsGoOfKey DEF Told, InTransaction

(* A command that goes on keeps its key.                                   *)
LEMMA GoesOnInEffect ==
  ASSUME EffectInv, ProcurementTypeOK, NEW c \in Buyers, InTransaction(c),
         NEW phase \in {"ordered", "admitted"}, NEW read, Goes(c, phase, read),
         UNCHANGED <<po, supplier, written>>
  PROVE  EffectInv'
<1>1. /\ InTransaction(c)' /\ command'[c].request = command[c].request
      /\ command'[c].key = command[c].key /\ command'[c].told = command[c].told
      /\ \A d \in Buyers \ {c} : command'[d] = command[d]
  BY DEF Goes, InTransaction, ProcurementTypeOK, CommandType
<1>2. Told(c)' /\ NotYet(c)'
  BY <1>1 DEF EffectInv, Told, NotYet, ReceiptsOf, Req
<1>3. \A d \in Buyers \ {c} : OwnKey(c, d)' /\ OwnKey(d, c)'
  BY <1>1 DEF EffectInv, OwnKey, Req, InTransaction
<1> QED
  BY <1>1, <1>2, <1>3, NothingWritten

(* The entry that a command commits is the first of its key, and the next  *)
(* of the row it locked.                                                   *)
LEMMA CommitInEffect ==
  ASSUME EffectInv, ProcurementTypeOK, NEW c \in Buyers, InTransaction(c),
         NEW i \in Orders \cup Suppliers, Last(i) \in Nat, Commits(c, i, Last(i) + 1),
         Last(i)' = Last(i) + 1,
         \A j \in (Orders \cup Suppliers) \ {i} : Last(j)' = Last(j)
  PROVE  EffectInv'
<1> DEFINE new == [key |-> command[c].key, request |-> Req(c), object |-> i, version |-> Last(i) + 1]
<1>1. /\ written' = written \cup {new}
      /\ command'[c].phase = "answered" /\ command'[c].told = Last(i) + 1
      /\ command'[c].request = command[c].request /\ command'[c].key = command[c].key
      /\ \A d \in Buyers \ {c} : command'[d] = command[d]
  BY DEF Commits, Replied, ProcurementTypeOK, CommandType
<1>2. new.key = command[c].key /\ new.request = Req(c) /\ new.object = i /\ new.version = Last(i) + 1
  OBVIOUS
<1> HIDE DEF new
<1>3. Told(c)'
  <2>1. new \in written'
    BY <1>1
  <2> QED
    BY <1>1, <1>2, <2>1 DEF Told, Req
<1>4. \A d \in Buyers \ {c} : Told(d)'
  BY <1>1 DEF EffectInv, Told, Req
<1>5. \A d \in Buyers : NotYet(d)'
  <2> TAKE d \in Buyers
  <2>1. CASE d = c
    BY <1>1, <2>1 DEF NotYet, InTransaction
  <2>2. CASE d # c
    <3>1. NotYet(d) /\ OwnKey(d, c)
      BY <2>2 DEF EffectInv
    <3>2. InTransaction(d) => ~SameNamespace(Req(d), command[d].key, new.request, new.key)
      BY <1>2, <3>1 DEF OwnKey
    <3> QED
      BY <1>1, <2>2, <3>1, <3>2 DEF NotYet, InTransaction, ReceiptsOf, Req
  <2> QED
    BY <2>1, <2>2
<1>6. \A d, e \in Buyers : d # e => OwnKey(d, e)'
  BY <1>1 DEF EffectInv, OwnKey, InTransaction, Req
<1>7. OneReceipt'
  <2>1. \A e \in written : ~SameNamespace(new.request, new.key, e.request, e.key)
    BY <1>2 DEF EffectInv, NotYet, ReceiptsOf
  <2>2. \A e \in written : ~SameNamespace(e.request, e.key, new.request, new.key)
    BY <2>1 DEF SameNamespace
  <2> QED
    BY <1>1, <2>1, <2>2 DEF EffectInv, OneReceipt
<1>8. Authored(i)'
  <2>1. Entries(i)' = Entries(i) \cup {new}
    BY <1>1, <1>2 DEF Entries
  <2>2. Authored(i)
    BY DEF EffectInv
  <2>3. {e.version : e \in Entries(i)'} = {e.version : e \in Entries(i)} \cup {Last(i) + 1}
    BY <1>2, <2>1
  <2>4. new \notin Entries(i)
    <3>1. Last(i) + 1 \notin 1..Last(i)
      OBVIOUS
    <3> QED
      BY <1>2, <2>2, <3>1 DEF Authored
  <2>5. 1..(Last(i) + 1) = (1..Last(i)) \cup {Last(i) + 1}
    OBVIOUS
  <2>6. IsFiniteSet(Entries(i)') /\ Cardinality(Entries(i)') = Cardinality(Entries(i)) + 1
    BY <2>1, <2>2, <2>4, FS_AddElement DEF Authored
  <2> QED
    BY <2>2, <2>3, <2>5, <2>6 DEF Authored
<1>9. \A j \in (Orders \cup Suppliers) \ {i} : Authored(j)'
  <2> TAKE j \in (Orders \cup Suppliers) \ {i}
  <2>1. Entries(j)' = Entries(j)
    BY <1>1, <1>2 DEF Entries
  <2> QED
    BY <2>1 DEF EffectInv, Authored
<1> QED
  BY <1>3, <1>4, <1>5, <1>6, <1>7, <1>8, <1>9 DEF EffectInv

(* Before the first command, only the suppliers added earlier have entries. *)
LEMMA EffectAtFirst ==
  ASSUME ProcurementAssumption, ProcurementInit
  PROVE  EffectInv
<1>1. /\ \A c \in Buyers : command[c] = NoCommand
      /\ \A o \in Orders : po[o] = NoOrder
      /\ \A s \in Suppliers : supplier[s] = NoSupplier \/ supplier[s].version = 1
      /\ written = {[key |-> NoOne, request |-> Request("ADD", Collection, 0, supplier[s].look),
                     object |-> s, version |-> 1] : s \in {i \in Suppliers : supplier[i] # NoSupplier}}
  BY DEF ProcurementInit
<1>2. \A e \in written : e.key = NoOne /\ e.version = 1 /\ e.object \in Suppliers
  BY <1>1
<1>3. \A c \in Buyers : command[c].told = 0 /\ ~InTransaction(c)
  BY <1>1 DEF NoCommand, InTransaction
<1>4. \A i \in Orders \cup Suppliers : Authored(i)
  <2> TAKE i \in Orders \cup Suppliers
  <2> DEFINE e == [key |-> NoOne, request |-> Request("ADD", Collection, 0, supplier[i].look),
                   object |-> i, version |-> 1]
  <2>1. CASE i \in Suppliers /\ supplier[i] # NoSupplier
    <3>1. Entries(i) = {e}
      BY <1>1, <2>1 DEF Entries
    <3>2. Last(i) = 1 /\ 1..1 = {1}
      BY <1>1, <2>1 DEF Last, ProcurementAssumption
    <3>3. {f.version : f \in Entries(i)} = {1}
      BY <3>1
    <3> HIDE DEF e
    <3>4. 1..Last(i) = {1}
      BY <3>2
    <3>5. IsFiniteSet(Entries(i)) /\ Cardinality(Entries(i)) = 1
      <4>1. IsFiniteSet({e}) /\ Cardinality({e}) = 1
        BY FS_Singleton, Zenon
      <4> QED
        BY <3>1, <4>1
    <3> QED
      BY <3>2, <3>3, <3>4, <3>5 DEF Authored
  <2>2. CASE ~(i \in Suppliers /\ supplier[i] # NoSupplier)
    <3>1. Entries(i) = {}
      BY <1>1, <2>2 DEF Entries
    <3>2. Last(i) = 0 /\ 1..0 = {}
      BY <1>1, <2>2 DEF Last, NoOrder, NoSupplier
    <3>3. {f.version : f \in Entries(i)} = {}
      BY <3>1
    <3> QED
      BY <3>1, <3>2, <3>3, FS_EmptySet DEF Authored
  <2> QED
    BY <2>1, <2>2
<1> QED
  BY <1>2, <1>3, <1>4 DEF EffectInv, Told, NotYet, OwnKey, OneReceipt

LEMMA SendInEffect == ASSUME EffectInv, ProcurementTypeOK, NEW c \in Buyers, Send(c) PROVE EffectInv'
<1>1. /\ command'[c].phase = "sent" /\ command'[c].told = 0
      /\ \A d \in Buyers \ {c} : command'[d] = command[d]
  <2>1. PICK key \in CommandKeys, r \in OrderRequests \cup SupplierRequests :
          command' = [command EXCEPT ![c] =
                        [NoCommand EXCEPT !.phase = "sent", !.key = key, !.request = r]]
    BY DEF Send
  <2> QED
    BY <2>1 DEF ProcurementTypeOK, NoCommand
<1> QED
  BY <1>1, LetsGoOfKey DEF Send, Told, InTransaction

LEMMA RepeatInEffect == ASSUME EffectInv, ProcurementTypeOK, NEW c \in Buyers, Repeat(c) PROVE EffectInv'
<1>1. /\ command'[c].phase = "sent" /\ command'[c].told = 0
      /\ \A d \in Buyers \ {c} : command'[d] = command[d]
  BY DEF Repeat, ProcurementTypeOK, CommandType
<1> QED
  BY <1>1, LetsGoOfKey DEF Repeat, Told, InTransaction

(* A key is taken when nobody has it and no receipt was left under it; a   *)
(* receipt of the same body is answered with its version.                  *)
LEMMA TakeKeyInEffect == ASSUME EffectInv, ProcurementTypeOK, NEW c \in Buyers, TakeKey(c) PROVE EffectInv'
<1>1. UNCHANGED <<po, supplier, written>> /\ command[c].phase = "sent"
  BY DEF TakeKey
<1>2. CASE Refused(c)
  BY <1>1, <1>2, RefusedInEffect
<1>3. CASE ~KeyTaken(c) /\ ReceiptsOf(c) = {} /\ Goes(c, "keyed", NoOne)
  <2>1. /\ command'[c].phase = "keyed" /\ command'[c].request = command[c].request
        /\ command'[c].key = command[c].key /\ command'[c].told = command[c].told
        /\ \A d \in Buyers \ {c} : command'[d] = command[d]
    BY <1>3 DEF Goes, ProcurementTypeOK, CommandType
  <2>2. Told(c)' /\ NotYet(c)'
    BY <1>1, <1>3, <2>1 DEF EffectInv, Told, NotYet, ReceiptsOf, Req
  <2>3. \A d \in Buyers \ {c} : OwnKey(c, d)' /\ OwnKey(d, c)'
    BY <1>3, <2>1 DEF KeyTaken, OwnKey, Req, InTransaction, SameNamespace
  <2> QED
    BY <1>1, <2>1, <2>2, <2>3, NothingWritten
<1>4. ASSUME NEW e \in Replays(c), Replied(c, e.version)
      PROVE  EffectInv'
  <2>1. /\ command'[c].phase = "answered" /\ command'[c].request = command[c].request
        /\ command'[c].key = command[c].key /\ command'[c].told = e.version
        /\ \A d \in Buyers \ {c} : command'[d] = command[d]
    BY <1>4 DEF Replied, ProcurementTypeOK, CommandType
  <2>2. e \in written /\ e.request = Req(c) /\ e.key = command[c].key
    BY DEF Replays, ReceiptsOf, SameNamespace
  <2>3. Told(c)' /\ ~InTransaction(c)'
    BY <1>1, <2>1, <2>2 DEF Told, InTransaction, Req
  <2> QED
    BY <1>1, <2>1, <2>3, LetsGoOfKey
<1>5. Replays(c) \subseteq ReceiptsOf(c)
  BY DEF Replays
<1> QED
  BY <1>2, <1>3, <1>4, <1>5 DEF TakeKey

(* Deletion, cancellation, creation, replacement and confirmation of an    *)
(* order.                                                                  *)
LEMMA OrderInEffect ==
  ASSUME ProcurementAssumption, EffectInv, ProcurementTypeOK, NEW c \in Buyers,
         CloseOrder(c) \/ WriteOrder(c)
  PROVE  EffectInv'
<1>1. InTransaction(c) /\ supplier' = supplier
  BY DEF CloseOrder, WriteOrder, InTransaction
<1>2. CASE Refused(c) /\ UNCHANGED <<po, written>>
  BY <1>1, <1>2, RefusedInEffect
<1>3. ASSUME NEW o \in Orders, NEW row, po' = [po EXCEPT ![o] = row], row.version = po[o].version + 1,
             Commits(c, o, po[o].version + 1)
      PROVE  EffectInv'
  <2>1. po \in [Orders -> OrderType] /\ po[o].version \in Nat
    BY DEF ProcurementTypeOK, OrderType
  <2>2. Last(o) = po[o].version /\ Last(o)' = po[o].version + 1
    BY <1>3, <2>1 DEF Last
  <2>3. \A j \in (Orders \cup Suppliers) \ {o} : Last(j)' = Last(j)
    BY <1>1, <1>3, <2>1 DEF Last
  <2> QED
    BY <1>1, <1>3, <2>1, <2>2, <2>3, CommitInEffect
<1>4. CASE CloseOrder(c) /\ ~(Refused(c) /\ UNCHANGED <<po, written>>)
  <2> DEFINE o == Req(c).on
             row == [po[o] EXCEPT !.version = @ + 1,
                       !.status = IF Req(c).op = "CANCEL" THEN "CANCELLED" ELSE "DELETED"]
  <2>1. Req(c) \in RequestType /\ Req(c).op \in {"DELETE", "CANCEL"}
    BY <1>4 DEF CloseOrder, ProcurementTypeOK, CommandType, Req
  <2>2. o \in Orders /\ po \in [Orders -> OrderType] /\ po[o] \in OrderType
    BY <2>1, RequestShape DEF ProcurementTypeOK
  <2>3. /\ Commits(c, o, po[o].version + 1)
        /\ po' = [po EXCEPT ![o].version = @ + 1,
                    ![o].status = IF Req(c).op = "CANCEL" THEN "CANCELLED" ELSE "DELETED"]
    BY <1>4 DEF CloseOrder
  <2>4. po' = [po EXCEPT ![o] = row]
    BY <2>2, <2>3
  <2>5. row.version = po[o].version + 1
    BY <2>2 DEF OrderType
  <2> HIDE DEF row
  <2> QED
    BY <1>3, <2>2, <2>3, <2>4, <2>5
<1>5. CASE WriteOrder(c) /\ ~(Refused(c) /\ UNCHANGED <<po, written>>)
  <2>1. PICK o \in Orders :
          /\ po' = [po EXCEPT ![o] = IF Req(c).op = "CONFIRM" THEN Confirmed(c, o) ELSE Drafted(c, o)]
          /\ Commits(c, o, po[o].version + 1)
    BY <1>5 DEF WriteOrder
  <2> DEFINE row == IF Req(c).op = "CONFIRM" THEN Confirmed(c, o) ELSE Drafted(c, o)
  <2>2. row.version = po[o].version + 1
    BY DEF Confirmed, Drafted
  <2> HIDE DEF row
  <2>3. po' = [po EXCEPT ![o] = row]
    BY <2>1 DEF row
  <2> QED
    BY <1>3, <2>1, <2>2, <2>3
<1> QED
  BY <1>2, <1>4, <1>5

(* Addition, change and removal of a supplier.                             *)
LEMMA SupplierInEffect ==
  ASSUME ProcurementAssumption, EffectInv, ProcurementTypeOK, NEW c \in Buyers,
         SaveSupplier(c) \/ RemoveSupplier(c)
  PROVE  EffectInv'
<1>1. InTransaction(c) /\ po' = po
  BY DEF SaveSupplier, RemoveSupplier, InTransaction
<1>2. CASE Refused(c) /\ UNCHANGED <<supplier, written>>
  BY <1>1, <1>2, RefusedInEffect
<1>3. ASSUME NEW s \in Suppliers, NEW look,
             supplier' = [supplier EXCEPT ![s] = [version |-> @.version + 1, look |-> look]],
             Commits(c, s, supplier[s].version + 1)
      PROVE  EffectInv'
  <2>1. supplier \in [Suppliers -> Row] /\ supplier[s].version \in Nat /\ s \notin Orders
    BY DEF ProcurementTypeOK, Row, ProcurementAssumption
  <2>2. Last(s) = supplier[s].version /\ Last(s)' = supplier[s].version + 1
    BY <1>3, <2>1 DEF Last
  <2>3. \A j \in (Orders \cup Suppliers) \ {s} : Last(j)' = Last(j)
    BY <1>1, <1>3, <2>1 DEF Last
  <2> QED
    BY <1>1, <1>3, <2>1, <2>2, <2>3, CommitInEffect
<1>4. CASE SaveSupplier(c) /\ ~(Refused(c) /\ UNCHANGED <<supplier, written>>)
  BY <1>3, <1>4 DEF SaveSupplier
<1>5. CASE RemoveSupplier(c)
  <2>1. Req(c) \in RequestType /\ Req(c).op = "REMOVE"
    BY <1>5 DEF RemoveSupplier, ProcurementTypeOK, CommandType, Req
  <2>2. Req(c).on \in Suppliers
    BY <2>1, RequestShape
  <2> QED
    BY <1>3, <1>5, <2>2 DEF RemoveSupplier
<1> QED
  BY <1>2, <1>4, <1>5

LEMMA EffectStepKeeps ==
  ASSUME ProcurementAssumption, EffectInv, ProcurementTypeOK, [ProcurementNext]_procurementVars
  PROVE  EffectInv'
<1>1. CASE UNCHANGED <<po, supplier, command, written>>
  BY <1>1 DEF EffectInv, Told, NotYet, OwnKey, OneReceipt, Authored, Entries, Last, InTransaction,
              ReceiptsOf, Req
<1>2. ASSUME NEW c \in Buyers, LoseCommand(c) \/ LockOrder(c) \/ LockSupplier(c) \/ LookForOrders(c)
      PROVE  EffectInv'
  <2>1. UNCHANGED <<po, supplier, written>>
    BY <1>2 DEF LoseCommand, LockOrder, LockSupplier, LookForOrders
  <2>2. Refused(c) \/ (InTransaction(c) /\ \E phase \in {"ordered", "admitted"} : \E read : Goes(c, phase, read))
    BY <1>2 DEF LoseCommand, LockOrder, LockSupplier, LookForOrders, InTransaction
  <2> QED
    BY <2>1, <2>2, RefusedInEffect, GoesOnInEffect
<1>3. CASE \E c \in Buyers : \/ Send(c) \/ Repeat(c) \/ TakeKey(c) \/ CloseOrder(c) \/ WriteOrder(c)
                             \/ SaveSupplier(c) \/ RemoveSupplier(c)
  BY <1>3, SendInEffect, RepeatInEffect, TakeKeyInEffect, OrderInEffect, SupplierInEffect
<1>4. CASE ChangeProduct
  BY <1>1, <1>4 DEF ChangeProduct
<1> QED
  BY <1>1, <1>2, <1>3, <1>4 DEF ProcurementNext, procurementVars

(* A command takes effect once under its key, who is told of an effect is  *)
(* told of that of his request, and every version of every row has one     *)
(* author.                                                                 *)
THEOREM EffectsAreToldTruly == ProcurementSpec => []ToldOfItsEffect
<1>1. ProcurementInit => EffectInv
  BY EffectAtFirst, ProcurementAssumption
<1>2. EffectInv /\ ProcurementInv /\ [ProcurementNext]_procurementVars => EffectInv'
  BY EffectStepKeeps, ProcurementAssumption DEF ProcurementInv
<1>3. EffectInv => ToldOfItsEffect
  BY DEF EffectInv, ToldOfItsEffect, Told, OneReceipt, Authored, Entries, Last
<1> QED
  BY <1>1, <1>2, <1>3, ProcurementIsInductive, PTL DEF ProcurementSpec
-----------------------------------------------------------------------------
(* The promise of purchases.  A command takes effect in the step that      *)
(* commits it.  What was checked before, under locks, is true then: rows   *)
(* whose version stands were not written, and suppliers that were admitted *)
(* are as they were read.                                                  *)
Asked(c) ==
  /\ command[c] = NoCommand \/ command[c].key \in CommandKeys
  /\ Req(c).op \in {"CREATE", "ADD"} => Req(c).version = 0

Granted(c) ==
  /\ Holding(c) /\ Req(c).op \in {"REPLACE", "CONFIRM"} => po[Req(c).on].version < MaxVersion
  /\ command[c].phase = "admitted" =>
       IF Req(c).op = "REMOVE" THEN SupplierIsCurrent(c) ELSE SupplierAdmitted(c)

GrantInv == \A c \in Buyers : Asked(c) /\ Granted(c)

(* An order that is written gets another version.                          *)
LEMMA WritingCounts ==
  ASSUME ProcurementTypeOK, [ProcurementNext]_procurementVars, NEW o \in Orders
  PROVE  po'[o] = po[o] \/ po'[o].version = po[o].version + 1
<1>1. CASE po' = po
  BY <1>1
<1>2. ASSUME NEW c \in Buyers, CloseOrder(c), po' # po
      PROVE  po'[o] = po[o] \/ po'[o].version = po[o].version + 1
  <2>1. po' = [po EXCEPT ![Req(c).on].version = @ + 1,
                 ![Req(c).on].status = IF Req(c).op = "CANCEL" THEN "CANCELLED" ELSE "DELETED"]
    BY <1>2 DEF CloseOrder
  <2> QED
    BY <2>1 DEF ProcurementTypeOK, OrderType
<1>3. ASSUME NEW c \in Buyers, WriteOrder(c), po' # po
      PROVE  po'[o] = po[o] \/ po'[o].version = po[o].version + 1
  <2>1. PICK i \in Orders :
          po' = [po EXCEPT ![i] = IF Req(c).op = "CONFIRM" THEN Confirmed(c, i) ELSE Drafted(c, i)]
    BY <1>3 DEF WriteOrder
  <2>2. Confirmed(c, i).version = po[i].version + 1 /\ Drafted(c, i).version = po[i].version + 1
    BY DEF Confirmed, Drafted
  <2> QED
    BY <2>1, <2>2 DEF ProcurementTypeOK
<1>4. po' = po \/ \E c \in Buyers : CloseOrder(c) \/ WriteOrder(c)
  BY DEF ProcurementNext, procurementVars, Send, Repeat, LoseCommand, TakeKey, LockOrder, LockSupplier,
         SaveSupplier, LookForOrders, RemoveSupplier, ChangeProduct
<1> QED
  BY <1>1, <1>2, <1>3, <1>4

(* What a command holds is left alone by the others.                       *)
LEMMA HeldIsLeftAlone ==
  ASSUME ProcurementInv, ProcurementInv', [ProcurementNext]_procurementVars,
         NEW d \in Buyers, command'[d] = command[d], Granted(d)
  PROVE  Granted(d)'
<1>1. /\ ProcurementTypeOK /\ Holds(d) /\ Holds(d)' /\ Req(d) \in RequestType
      /\ Req(d)' = Req(d) /\ (Holding(d)' <=> Holding(d))
  BY DEF ProcurementInv, ProcurementTypeOK, CommandType, Req, Holding
<1>2. ASSUME Holding(d), Req(d).op \in {"REPLACE", "CONFIRM"} PROVE po'[Req(d).on] = po[Req(d).on]
  <2>1. Req(d).on \in Orders /\ Req(d).version \in Nat
    BY <1>1, <1>2, RequestShape
  <2>2. po[Req(d).on].version = Req(d).version /\ po'[Req(d).on].version = Req(d).version
    BY <1>1, <1>2 DEF Holds
  <2> QED
    BY <1>1, <2>1, <2>2, WritingCounts
<1>3. Holding(d) => SupplierOf(d)' = SupplierOf(d)
  BY <1>1, <1>2 DEF SupplierOf
<1>4. command[d].phase = "admitted" /\ SupplierOf(d) # NoOne => supplier'[SupplierOf(d)] = supplier[SupplierOf(d)]
  BY <1>1, <1>3 DEF Holds, Holding
<1>5. ASSUME command[d].phase = "admitted", Req(d).op = "REMOVE"
      PROVE  supplier'[Req(d).on] = supplier[Req(d).on]
  <2>1. SupplierOf(d) = Req(d).on /\ Req(d).on \in Suppliers
    <3>1. SupplierOf(d) = Req(d).on
      BY <1>5 DEF SupplierOf
    <3> QED
      BY <1>1, <1>5, <3>1, RequestShape
  <2>2. SupplierOf(d) # NoOne
    BY <2>1, ProcurementAssumption DEF ProcurementAssumption
  <2> QED
    BY <1>4, <1>5, <2>1, <2>2
<1>6. ASSUME command[d].phase = "admitted", Req(d).op # "REMOVE" PROVE SupplierAdmitted(d)'
  <2>1. SupplierAdmitted(d) /\ Holding(d) /\ Req(d).op \in {"CREATE", "REPLACE", "CONFIRM"}
    BY <1>1, <1>6 DEF Granted, Holds, Holding
  <2> DEFINE s == SupplierOf(d)
  <2>2. SupplierOf(d)' = s /\ (s # NoOne => supplier'[s] = supplier[s])
    BY <1>3, <1>4, <1>6, <2>1
  <2>3. CASE Req(d).op = "CONFIRM"
    <3>1. s # NoOne /\ supplier[s].version = Req(d).what.from.version /\ supplier[s].look.status = "ACTIVE"
      BY <2>1, <2>3 DEF SupplierAdmitted
    <3> QED
      BY <1>1, <2>2, <2>3, <3>1 DEF SupplierAdmitted
  <2>4. CASE Req(d).op # "CONFIRM"
    <3>1. \/ s = NoOne
          \/ Req(d).op = "REPLACE" /\ s = po[Req(d).on].supplier
          \/ s # NoOne /\ SupplierExists(s) /\ supplier[s].look.status = "ACTIVE"
      BY <2>1, <2>4 DEF SupplierAdmitted
    <3>2. Req(d).op = "REPLACE" => po'[Req(d).on] = po[Req(d).on]
      BY <1>2, <2>1
    <3>3. Req(d)'.op # "CONFIRM"
      BY <1>1, <2>4
    <3> QED
      BY <1>1, <2>2, <3>1, <3>2, <3>3 DEF SupplierAdmitted, SupplierExists
  <2> QED
    BY <2>3, <2>4
<1>7. ASSUME command[d].phase = "admitted", Req(d).op = "REMOVE", SupplierIsCurrent(d)
      PROVE  SupplierIsCurrent(d)'
  BY <1>1, <1>5, <1>7 DEF SupplierIsCurrent, SupplierExists
<1> QED
  BY <1>1, <1>2, <1>6, <1>7 DEF Granted

LEMMA GrantAtFirst == ProcurementInit => GrantInv
  BY DEF ProcurementInit, GrantInv, Asked, Granted, Holding, NoCommand, NoRequest, Req

LEMMA GrantStepKeeps ==
  ASSUME ProcurementAssumption, ProcurementInv, ProcurementInv', GrantInv, [ProcurementNext]_procurementVars
  PROVE  GrantInv'
<1>1. ProcurementTypeOK
  BY DEF ProcurementInv
<1>2. ASSUME NEW d \in Buyers, command'[d] = command[d] PROVE Asked(d)' /\ Granted(d)'
  BY <1>2, HeldIsLeftAlone DEF GrantInv, Asked, Req
<1>3. ASSUME NEW c \in Buyers, \A d \in Buyers \ {c} : command'[d] = command[d], Asked(c)', Granted(c)'
      PROVE  GrantInv'
  BY <1>2, <1>3 DEF GrantInv
<1>4. ASSUME NEW c \in Buyers, NEW version \in Nat, Replied(c, version),
             command[c] # NoCommand
      PROVE  GrantInv'
  <2>1. /\ command'[c].phase = "answered" /\ command'[c].key = command[c].key /\ Req(c)' = Req(c)
        /\ \A d \in Buyers \ {c} : command'[d] = command[d]
    BY <1>1, <1>4 DEF Replied, ProcurementTypeOK, CommandType, Req
  <2>2. Asked(c)' /\ Granted(c)'
    BY <1>4, <2>1 DEF GrantInv, Asked, Granted, Holding
  <2> QED
    BY <1>3, <2>1, <2>2
<1>5. ASSUME NEW c \in Buyers, Send(c) PROVE GrantInv'
  <2>1. PICK key \in CommandKeys, r \in OrderRequests \cup SupplierRequests :
          command' = [command EXCEPT ![c] =
                        [NoCommand EXCEPT !.phase = "sent", !.key = key, !.request = r]]
    BY <1>5 DEF Send
  <2>2. r.op \in {"CREATE", "ADD"} => r.version = 0
    BY DEF OrderRequests, SupplierRequests, Request
  <2>3. /\ command'[c].phase = "sent" /\ command'[c].key = key /\ Req(c)' = r
        /\ \A d \in Buyers \ {c} : command'[d] = command[d]
    BY <1>1, <2>1 DEF ProcurementTypeOK, NoCommand, Req
  <2>4. Asked(c)' /\ Granted(c)'
    BY <2>2, <2>3 DEF Asked, Granted, Holding
  <2> QED
    BY <1>3, <2>3, <2>4
<1>6. ASSUME NEW c \in Buyers, Repeat(c) PROVE GrantInv'
  <2>1. /\ command[c].phase = "answered"
        /\ command'[c].phase = "sent" /\ command'[c].key = command[c].key /\ Req(c)' = Req(c)
        /\ \A d \in Buyers \ {c} : command'[d] = command[d]
    BY <1>1, <1>6 DEF Repeat, ProcurementTypeOK, CommandType, Req
  <2>2. Asked(c)' /\ Granted(c)'
    BY <2>1 DEF GrantInv, Asked, Granted, Holding, NoCommand
  <2> QED
    BY <1>3, <2>1, <2>2
<1>7. ASSUME NEW c \in Buyers, NEW phase \in {"keyed", "ordered", "admitted"}, NEW read,
             Goes(c, phase, read), command[c].phase # "idle", UNCHANGED <<po, supplier>>,
             phase = "keyed" \/ (phase = "ordered" /\ OrderIsCurrent(c)) \/
               (phase = "admitted" /\ Granted(c) /\ (Req(c).op \in {"REPLACE", "CONFIRM"} => Holding(c)) /\
                  IF Req(c).op = "REMOVE" THEN SupplierIsCurrent(c) ELSE SupplierAdmitted(c))
      PROVE  GrantInv'
  <2>1. /\ command'[c].phase = phase /\ command'[c].key = command[c].key /\ Req(c)' = Req(c)
        /\ \A d \in Buyers \ {c} : command'[d] = command[d]
    BY <1>1, <1>7 DEF Goes, ProcurementTypeOK, CommandType, Req
  <2>2. Asked(c)'
    BY <1>7, <2>1 DEF GrantInv, Asked, NoCommand
  <2>3. CASE phase = "keyed"
    BY <1>3, <2>1, <2>2, <2>3 DEF Granted, Holding
  <2>4. CASE phase = "ordered"
    <3>1. Granted(c)'
      BY <1>7, <2>1, <2>4 DEF Granted, Holding, OrderIsCurrent
    <3> QED
      BY <1>3, <2>1, <2>2, <3>1
  <2>5. CASE phase = "admitted"
    <3>1. SupplierOf(c)' = SupplierOf(c)
      BY <1>7, <2>1 DEF SupplierOf
    <3>2. SupplierAdmitted(c) => SupplierAdmitted(c)'
      BY <1>7, <2>1, <3>1 DEF SupplierAdmitted, SupplierExists
    <3>3. SupplierIsCurrent(c) => SupplierIsCurrent(c)'
      BY <1>7, <2>1 DEF SupplierIsCurrent, SupplierExists
    <3>4. Granted(c)'
      BY <1>7, <2>1, <2>5, <3>2, <3>3 DEF Granted, Holding
    <3> QED
      BY <1>3, <2>1, <2>2, <3>4
  <2> QED
    BY <2>3, <2>4, <2>5
<1>8. ASSUME NEW c \in Buyers, LoseCommand(c) PROVE GrantInv'
  BY <1>4, <1>8 DEF LoseCommand, Refused, InTransaction, NoCommand
<1>9. ASSUME NEW c \in Buyers, TakeKey(c) PROVE GrantInv'
  <2>1. command[c].phase = "sent" /\ command[c] # NoCommand /\ UNCHANGED <<po, supplier>>
    BY <1>9 DEF TakeKey, NoCommand
  <2>2. \/ Refused(c) \/ Goes(c, "keyed", NoOne)
        \/ \E e \in Replays(c) : Replied(c, e.version)
    BY <1>9 DEF TakeKey
  <2>3. \A e \in Replays(c) : e.version \in Nat
    BY <1>1 DEF Replays, ReceiptsOf, ProcurementTypeOK
  <2>4. CASE Goes(c, "keyed", NoOne)
    BY <1>7, <2>1, <2>4
  <2> QED
    BY <1>4, <2>1, <2>2, <2>3, <2>4 DEF Refused
<1>10. ASSUME NEW c \in Buyers, LockOrder(c) PROVE GrantInv'
  <2>1. command[c].phase = "keyed" /\ command[c] # NoCommand /\ UNCHANGED <<po, supplier>>
    BY <1>10 DEF LockOrder, NoCommand
  <2>2. CASE OrderIsCurrent(c) /\ Goes(c, "ordered", NoOne)
    BY <1>7, <2>1, <2>2
  <2>3. CASE Refused(c)
    BY <1>4, <2>1, <2>3 DEF Refused
  <2> QED
    BY <1>10, <2>2, <2>3 DEF LockOrder
<1>11. ASSUME NEW c \in Buyers, LockSupplier(c) PROVE GrantInv'
  <2> DEFINE read == IF SupplierOf(c) = NoOne THEN NoSupplier ELSE supplier[SupplierOf(c)]
  <2>1. command[c].phase \in {"keyed", "ordered"} /\ command[c] # NoCommand /\ UNCHANGED <<po, supplier>>
    BY <1>11 DEF LockSupplier, NoCommand
  <2>2. /\ Req(c).op \in {"CREATE", "REPLACE", "CONFIRM"} /\ Granted(c)
        /\ Req(c).op \in {"REPLACE", "CONFIRM"} => Holding(c)
    BY <1>11 DEF ProcurementInv, GrantInv, LockSupplier, Holds, Holding
  <2>3. CASE SupplierAdmitted(c) /\ Goes(c, "admitted", read)
    BY <1>7, <2>1, <2>2, <2>3
  <2>4. CASE Refused(c)
    BY <1>4, <2>1, <2>4 DEF Refused
  <2> QED
    BY <1>11, <2>3, <2>4 DEF LockSupplier
<1>12. ASSUME NEW c \in Buyers, LookForOrders(c) PROVE GrantInv'
  <2>1. /\ command[c].phase = "keyed" /\ command[c] # NoCommand /\ UNCHANGED <<po, supplier>>
        /\ Req(c).op = "REMOVE" /\ Granted(c)
    BY <1>12 DEF LookForOrders, NoCommand, GrantInv
  <2>2. CASE SupplierIsCurrent(c) /\ Goes(c, "admitted", supplier[Req(c).on])
    BY <1>7, <2>1, <2>2
  <2>3. CASE Refused(c)
    BY <1>4, <2>1, <2>3 DEF Refused
  <2> QED
    BY <1>12, <2>2, <2>3 DEF LookForOrders
<1>13. ASSUME NEW c \in Buyers, CloseOrder(c) \/ WriteOrder(c) \/ SaveSupplier(c) \/ RemoveSupplier(c)
       PROVE  GrantInv'
  <2>1. command[c].phase \in {"keyed", "admitted"} /\ Req(c) \in RequestType
    <3>1. command[c].phase \in {"keyed", "admitted"}
      BY <1>13 DEF CloseOrder, WriteOrder, SaveSupplier, RemoveSupplier
    <3>2. Req(c) \in RequestType
      BY <1>1 DEF ProcurementTypeOK, CommandType, Req
    <3> QED
      BY <3>1, <3>2
  <2>2. /\ \A o \in Orders : po[o].version + 1 \in Nat
        /\ \A s \in Suppliers : supplier[s].version + 1 \in Nat
    BY <1>1 DEF ProcurementTypeOK, OrderType, Row
  <2>3. Refused(c) \/ \E version \in Nat : Replied(c, version)
    BY <1>13, <2>1, <2>2, RequestShape DEF CloseOrder, WriteOrder, SaveSupplier, RemoveSupplier, Commits
  <2> QED
    BY <1>4, <2>1, <2>3 DEF Refused, NoCommand
<1>14. CASE command' = command
  BY <1>2, <1>14 DEF GrantInv
<1> QED
  BY <1>5, <1>6, <1>8, <1>9, <1>10, <1>11, <1>12, <1>13, <1>14
     DEF ProcurementNext, procurementVars, ChangeProduct

(* The effect that a command commits is that of its request, and the first *)
(* of its key.                                                             *)
LEMMA CommitIsPromised ==
  ASSUME ProcurementTypeOK, EffectInv, GrantInv, NEW c \in Buyers, InTransaction(c),
         NEW object, NEW op, NEW on, NEW version \in Nat, NEW what,
         Req(c).op = op, Req(c).on = on, Req(c).version = version, Req(c).what = what,
         version < MaxVersion, Commits(c, object, version + 1)
  PROVE  /\ Purchase!Does(command[c].key, op, on, version, what, object)
         /\ command[c].key \in CommandKeys /\ written' # written
<1> DEFINE key == command[c].key
           new == [key |-> key, request |-> Req(c), object |-> object, version |-> version + 1]
<1>1. key \in CommandKeys
  BY DEF GrantInv, Asked, InTransaction, NoCommand
<1>2. Req(c) = [op |-> op, on |-> on, version |-> version, what |-> what]
  <2>1. Req(c) \in RequestType
    BY DEF ProcurementTypeOK, CommandType, Req
  <2> QED
    BY <2>1 DEF RequestType, NoRequest
<1>3. ReceiptsOf(c) = {}
  BY DEF EffectInv, NotYet
<1>4. written' = written \cup {new}
  BY DEF Commits
<1>5. ~\E e \in written : e.key = key /\ e.request.op = op /\ e.request.on = on
  BY <1>3 DEF ReceiptsOf, SameNamespace
<1>6. new \notin written
  <2>1. new.key = key /\ new.request.op = op /\ new.request.on = on
    OBVIOUS
  <2> QED
    BY <1>5, <2>1
<1>7. new = Purchase!Effect(key, op, on, version, what, object)
  BY <1>2 DEF Purchase!Effect
<1> QED
  BY <1>1, <1>4, <1>5, <1>6, <1>7 DEF Purchase!Does

(* One order changes, as the promise sees it.                              *)
LEMMA OneOrderChanges ==
  ASSUME NEW o \in Orders, NEW row, Agreed(o)' = row,
         \A i \in Orders \ {o} : Agreed(i)' = Agreed(i)
  PROVE  [i \in Orders |-> Agreed(i)]' = [[i \in Orders |-> Agreed(i)] EXCEPT ![o] = row]
  OBVIOUS

LEMMA PurchaseAtFirst == ASSUME ProcurementAssumption, ProcurementInit PROVE Purchase!Init
<1>1. [o \in Orders |-> Agreed(o)] = [o \in Orders |-> Purchase!NoOrder]
  BY DEF ProcurementInit, Agreed, NoOrder, Purchase!NoOrder
<1>2. Purchase!NoSupplier = NoSupplier
  BY DEF Purchase!NoSupplier, NoSupplier
<1>3. \A s \in Suppliers :
        Purchase!Effect(NoOne, "ADD", Collection, 0, supplier[s].look, s) =
          [key |-> NoOne, request |-> Request("ADD", Collection, 0, supplier[s].look), object |-> s, version |-> 1]
  BY DEF Purchase!Effect, Request
<1>4. written = {Purchase!Effect(NoOne, "ADD", Collection, 0, supplier[s].look, s) :
                   s \in {i \in Suppliers : supplier[i] # NoSupplier}}
  BY <1>3 DEF ProcurementInit
<1> QED
  BY <1>1, <1>2, <1>4 DEF ProcurementInit, Purchase!Init

LEMMA CloseIsPromised ==
  ASSUME ProcurementAssumption, ProcurementInv, EffectInv, GrantInv, NEW c \in Buyers, CloseOrder(c)
  PROVE  Purchase!Next \/ UNCHANGED Purchase!vars
<1> DEFINE orders == [i \in Orders |-> Agreed(i)]
<1>1. ProcurementTypeOK /\ Req(c) \in RequestType /\ InTransaction(c)
  BY DEF ProcurementInv, ProcurementTypeOK, CommandType, Req, CloseOrder, InTransaction
<1>2. PICK o \in Orders : o = Req(c).on
  BY <1>1, RequestShape DEF CloseOrder
<1>3. PICK key : key = command[c].key
  OBVIOUS
<1>4. CASE ~OrderIsCurrent(c)
  <2>1. UNCHANGED <<po, supplier, productFits, written>>
    BY <1>4 DEF CloseOrder
  <2> QED
    BY <2>1 DEF Purchase!vars, Agreed
<1>5. CASE OrderIsCurrent(c)
  <2>1. po[o] \in OrderType /\ po \in [Orders -> OrderType]
    BY <1>1 DEF ProcurementTypeOK
  <2>2. /\ po' = [po EXCEPT ![o].version = @ + 1,
                   ![o].status = IF Req(c).op = "CANCEL" THEN "CANCELLED" ELSE "DELETED"]
        /\ Commits(c, o, Req(c).version + 1) /\ UNCHANGED <<supplier, productFits>>
        /\ Req(c).op \in {"DELETE", "CANCEL"} /\ Req(c).what = NoOne
        /\ Req(c).version = po[o].version /\ Req(c).version < MaxVersion /\ Req(c).version \in Nat
    BY <1>1, <1>2, <1>5, RequestShape DEF CloseOrder, OrderIsCurrent, RequestType, NoRequest
  <2>3. orders[o] = Agreed(o) /\ orders[o].version = po[o].version /\ orders[o].status = po[o].status
    BY DEF Agreed
  <2>4. Purchase!Becomes(o, IF Req(c).op = "CANCEL" THEN "CANCELLED" ELSE "DELETED", orders[o], orders[o].agreed)
    <3> DEFINE row == [status |-> IF Req(c).op = "CANCEL" THEN "CANCELLED" ELSE "DELETED",
                       version |-> po[o].version + 1, supplier |-> po[o].supplier, lines |-> po[o].lines,
                       agreed |-> po[o].frozen]
    <3>1. Agreed(o)' = row /\ \A i \in Orders \ {o} : Agreed(i)' = Agreed(i)
      BY <2>1, <2>2 DEF Agreed, OrderType
    <3>2. orders' = [orders EXCEPT ![o] = row]
      BY <3>1, OneOrderChanges
    <3>3. orders[o].supplier = po[o].supplier /\ orders[o].lines = po[o].lines /\ orders[o].agreed = po[o].frozen
      BY DEF Agreed
    <3> QED
      BY <2>2, <2>3, <3>2, <3>3 DEF Purchase!Becomes
  <2>5. /\ Purchase!Does(key, Req(c).op, o, po[o].version, NoOne, o)
        /\ key \in CommandKeys /\ written' # written
    BY <1>1, <1>2, <1>3, <2>2, CommitIsPromised
  <2>6. CASE Req(c).op = "CANCEL"
    <3>1. orders[o].status \in {"DRAFT", "CONFIRMED"}
      BY <1>2, <1>5, <2>3, <2>6 DEF OrderIsCurrent, OrderExists
    <3>2. Purchase!Cancel(key, o)
      BY <2>2, <2>3, <2>4, <2>5, <2>6, <3>1 DEF Purchase!Cancel
    <3> QED
      BY <2>5, <3>2 DEF Purchase!Next, Purchase!OrderCommand
  <2>7. CASE Req(c).op = "DELETE"
    <3>1. orders[o].status = "DRAFT"
      BY <1>2, <1>5, <2>3, <2>7 DEF OrderIsCurrent
    <3>2. Purchase!Delete(key, o)
      BY <2>2, <2>3, <2>4, <2>5, <2>7, <3>1 DEF Purchase!Delete
    <3> QED
      BY <2>5, <3>2 DEF Purchase!Next, Purchase!OrderCommand
  <2> QED
    BY <2>2, <2>6, <2>7
<1> QED
  BY <1>4, <1>5

LEMMA ConfirmIsPromised ==
  ASSUME ProcurementAssumption, ProcurementInv, EffectInv, GrantInv, NEW c \in Buyers, WriteOrder(c),
         NEW o \in Orders, Req(c).op = "CONFIRM", o = Req(c).on, ConfirmationAllowed(c),
         po' = [po EXCEPT ![o] = Confirmed(c, o)], Commits(c, o, po[o].version + 1)
  PROVE  Purchase!Next
<1> DEFINE orders == [i \in Orders |-> Agreed(i)]
           seen == Req(c).what
<1>1. /\ ProcurementTypeOK /\ Req(c) \in RequestType /\ InTransaction(c)
      /\ Holds(c) /\ Granted(c) /\ Holding(c) /\ command[c].phase = "admitted"
      /\ UNCHANGED <<supplier, productFits>>
  BY DEF ProcurementInv, ProcurementTypeOK, CommandType, Req, WriteOrder, InTransaction, GrantInv, Holding
<1>2. PICK key : key = command[c].key
  OBVIOUS
<1>3. /\ po[o].status = "DRAFT" /\ po[o].version = Req(c).version
      /\ Req(c).version < MaxVersion /\ Req(c).version \in Nat
  BY <1>1, RequestShape DEF Holds, Granted
<1>4. SupplierOf(c) = po[o].supplier /\ SupplierAdmitted(c)
  BY <1>1 DEF SupplierOf, Granted
<1>5. PICK s : s = po[o].supplier /\ s # NoOne /\ supplier[s] = command[c].read
               /\ SupplierExists(s) /\ supplier[s].look.status = "ACTIVE"
  BY <1>1, <1>4 DEF Holds, SupplierAdmitted
<1>6. po[o].lines = "whole" /\ productFits
  BY <1>1 DEF ConfirmationAllowed, Token, ProcurementTypeOK
<1>7. [Shown(o) EXCEPT !.from = command[c].read] = seen
  BY <1>1, ConfirmedIsShown
<1>8. seen = [supplier |-> s, lines |-> po[o].lines, fits |-> productFits, from |-> supplier[s]]
  BY <1>5, <1>7 DEF Shown
<1>9. /\ orders[o].status = "DRAFT" /\ orders[o].version = po[o].version
      /\ orders[o].supplier = s /\ orders[o].lines = po[o].lines
  BY <1>3, <1>5 DEF Agreed
<1>10. Purchase!Seen(o) = seen
  BY <1>8, <1>9 DEF Purchase!Seen
<1>11. Purchase!Becomes(o, "CONFIRMED", orders[o], seen)
  <2>1. Confirmed(c, o) = [status |-> "CONFIRMED", version |-> po[o].version + 1, supplier |-> po[o].supplier,
                           lines |-> po[o].lines, agreed |-> seen, frozen |-> seen]
    BY <1>7 DEF Confirmed
  <2>2. po'[o] = Confirmed(c, o) /\ \A i \in Orders \ {o} : po'[i] = po[i]
    BY <1>1 DEF ProcurementTypeOK
  <2>3. /\ \A i \in Orders \ {o} : Agreed(i)' = Agreed(i)
        /\ Agreed(o)' = [status |-> "CONFIRMED", version |-> po[o].version + 1, supplier |-> po[o].supplier,
                         lines |-> po[o].lines, agreed |-> seen]
    BY <2>1, <2>2 DEF Agreed
  <2>4. orders' = [orders EXCEPT ![o] =
          [status |-> "CONFIRMED", version |-> po[o].version + 1, supplier |-> po[o].supplier,
           lines |-> po[o].lines, agreed |-> seen]]
    BY <2>3, OneOrderChanges
  <2>5. UNCHANGED <<supplier, productFits>>
    BY <1>1
  <2>6. /\ orders[o].version = po[o].version /\ orders[o].supplier = po[o].supplier
        /\ orders[o].lines = po[o].lines
    BY DEF Agreed
  <2> QED
    BY <2>4, <2>5, <2>6 DEF Purchase!Becomes
<1>12. /\ Purchase!Does(key, "CONFIRM", o, po[o].version, seen, o)
       /\ key \in CommandKeys /\ written' # written
  BY <1>1, <1>2, <1>3, CommitIsPromised
<1>13. Purchase!Confirm(key, o)
  BY <1>1, <1>5, <1>6, <1>9, <1>10, <1>11, <1>12
     DEF Purchase!Confirm, Purchase!Active, SupplierExists
<1> QED
  BY <1>12, <1>13 DEF Purchase!Next, Purchase!OrderCommand

LEMMA DraftIsPromised ==
  ASSUME ProcurementAssumption, ProcurementInv, EffectInv, GrantInv, NEW c \in Buyers, WriteOrder(c),
         NEW o \in Orders, Req(c).op \in {"CREATE", "REPLACE"}, LinesAdmitted(c),
         IF Req(c).op = "CREATE" THEN po[o] = NoOrder ELSE o = Req(c).on,
         po' = [po EXCEPT ![o] = Drafted(c, o)], Commits(c, o, po[o].version + 1)
  PROVE  Purchase!Next
<1> DEFINE orders == [i \in Orders |-> Agreed(i)]
<1>1. /\ ProcurementTypeOK /\ Req(c) \in RequestType /\ InTransaction(c)
      /\ Holds(c) /\ Granted(c) /\ Asked(c) /\ Holding(c) /\ command[c].phase = "admitted"
      /\ UNCHANGED <<supplier, productFits>>
  BY DEF ProcurementInv, ProcurementTypeOK, CommandType, Req, WriteOrder, InTransaction, GrantInv, Holding
<1>2. PICK key : key = command[c].key
  OBVIOUS
<1>3. PICK content \in Contents : content = Req(c).what
  BY <1>1, RequestShape
<1>4. /\ Req(c).version = po[o].version /\ Req(c).version < MaxVersion /\ Req(c).version \in Nat
      /\ Req(c).op = "CREATE" => po[o] = NoOrder /\ Req(c).on = Collection
      /\ Req(c).op = "REPLACE" => po[o].status = "DRAFT" /\ Req(c).on = o
  BY <1>1, RequestShape DEF Holds, Granted, Asked, NoOrder, ProcurementAssumption
<1>5. /\ SupplierOf(c) = content.supplier /\ SupplierAdmitted(c)
      /\ content.supplier # NoOne => SupplierExists(content.supplier)
  BY <1>1, <1>3 DEF SupplierOf, Granted, Holds
<1>6. \/ content.supplier = NoOne \/ Purchase!Active(content.supplier)
      \/ Req(c).op = "REPLACE" /\ content.supplier = po[o].supplier
  BY <1>4, <1>5 DEF SupplierAdmitted, Purchase!Active, SupplierExists
<1>7. \/ content.lines = "short" \/ productFits
      \/ Req(c).op = "REPLACE" /\ content.lines = po[o].lines
  BY <1>3, <1>4 DEF LinesAdmitted, Contents, ProcurementAssumption
<1>8. Agreed(o) = [status |-> po[o].status, version |-> po[o].version, supplier |-> po[o].supplier,
                   lines |-> po[o].lines, agreed |-> po[o].frozen]
      /\ orders[o] = Agreed(o)
  BY DEF Agreed
<1>9. Purchase!Becomes(o, "DRAFT", content, orders[o].agreed)
  <2>1. Drafted(c, o) = [status |-> "DRAFT", version |-> po[o].version + 1, supplier |-> content.supplier,
                         lines |-> content.lines, agreed |-> po[o].agreed, frozen |-> po[o].frozen]
    BY <1>3 DEF Drafted
  <2>2. po'[o] = Drafted(c, o) /\ \A i \in Orders \ {o} : po'[i] = po[i]
    BY <1>1 DEF ProcurementTypeOK
  <2>3. /\ \A i \in Orders \ {o} : Agreed(i)' = Agreed(i)
        /\ Agreed(o)' = [status |-> "DRAFT", version |-> po[o].version + 1, supplier |-> content.supplier,
                         lines |-> content.lines, agreed |-> po[o].frozen]
    BY <2>1, <2>2 DEF Agreed
  <2>4. orders' = [orders EXCEPT ![o] =
          [status |-> "DRAFT", version |-> po[o].version + 1, supplier |-> content.supplier,
           lines |-> content.lines, agreed |-> po[o].frozen]]
    BY <2>3, OneOrderChanges
  <2>5. UNCHANGED <<supplier, productFits>>
    BY <1>1
  <2>6. orders[o].version = po[o].version /\ orders[o].agreed = po[o].frozen
    BY DEF Agreed
  <2> QED
    BY <2>4, <2>5, <2>6 DEF Purchase!Becomes
<1>10. /\ Purchase!Does(key, Req(c).op, Req(c).on, po[o].version, content, o)
       /\ key \in CommandKeys /\ written' # written
  BY <1>1, <1>2, <1>3, <1>4, CommitIsPromised
<1>11. content \in [supplier : Suppliers \cup {NoOne}, lines : Lines]
  BY DEF Contents
<1>12. CASE Req(c).op = "CREATE"
  <2>1. orders[o] = Purchase!NoOrder /\ po[o].version = 0
    BY <1>4, <1>8, <1>12 DEF NoOrder, Purchase!NoOrder
  <2>2. Purchase!Create(key, o, content)
    BY <1>1, <1>4, <1>6, <1>7, <1>9, <1>10, <1>12, <2>1 DEF Purchase!Create
  <2> QED
    BY <1>10, <1>11, <2>2 DEF Purchase!Next, Purchase!OrderCommand
<1>13. CASE Req(c).op = "REPLACE"
  <2>1. orders[o].status = "DRAFT" /\ orders[o].supplier = po[o].supplier
        /\ orders[o].lines = po[o].lines /\ orders[o].version = po[o].version
    BY <1>4, <1>8, <1>13
  <2>2. Purchase!Replace(key, o, content)
    BY <1>1, <1>4, <1>6, <1>7, <1>9, <1>10, <1>13, <2>1 DEF Purchase!Replace
  <2> QED
    BY <1>10, <1>11, <2>2 DEF Purchase!Next, Purchase!OrderCommand
<1> QED
  BY <1>12, <1>13

LEMMA SupplierIsPromised ==
  ASSUME ProcurementAssumption, ProcurementInv, EffectInv, GrantInv, NEW c \in Buyers,
         SaveSupplier(c) \/ RemoveSupplier(c)
  PROVE  Purchase!Next \/ UNCHANGED Purchase!vars
<1> DEFINE orders == [i \in Orders |-> Agreed(i)]
<1>1. /\ ProcurementTypeOK /\ Req(c) \in RequestType /\ InTransaction(c) /\ Holds(c) /\ Granted(c) /\ Asked(c)
      /\ UNCHANGED <<po, productFits>>
  BY DEF ProcurementInv, ProcurementTypeOK, CommandType, Req, SaveSupplier, RemoveSupplier, InTransaction, GrantInv
<1>2. PICK key : key = command[c].key
  OBVIOUS
<1>3. orders' = orders
  BY <1>1 DEF Agreed
<1>4. CASE UNCHANGED <<supplier, written>>
  BY <1>1, <1>3, <1>4 DEF Purchase!vars
<1>5. ASSUME NEW s \in Suppliers, SaveSupplier(c),
             IF Req(c).op = "ADD" THEN supplier[s] = NoSupplier ELSE s = Req(c).on /\ SupplierIsCurrent(c),
             supplier' = [supplier EXCEPT ![s] = [version |-> @.version + 1, look |-> Req(c).what]],
             Commits(c, s, supplier[s].version + 1)
      PROVE  Purchase!Next
  <2>1. Req(c).op \in {"ADD", "UPDATE"}
    BY <1>5 DEF SaveSupplier
  <2>2. /\ Req(c).version = supplier[s].version /\ Req(c).version < MaxVersion /\ Req(c).version \in Nat
        /\ Req(c).op = "ADD" => Req(c).on = Collection
    BY <1>1, <1>5, <2>1 DEF Asked, NoSupplier, SupplierIsCurrent, RequestType, NoRequest, ProcurementAssumption
  <2>3. PICK look \in Looks : look = Req(c).what
    BY <1>1, <2>1, RequestShape
  <2>4. /\ Purchase!Does(key, Req(c).op, Req(c).on, supplier[s].version, look, s)
        /\ key \in CommandKeys /\ written' # written
    BY <1>1, <1>2, <1>5, <2>2, <2>3, CommitIsPromised
  <2>5. Purchase!Turns(s, look)
    BY <1>1, <1>3, <1>5, <2>3 DEF Purchase!Turns
  <2>6. CASE Req(c).op = "ADD"
    <3>1. supplier[s] = Purchase!NoSupplier /\ supplier[s].version = 0
      BY <1>5, <2>6 DEF NoSupplier, Purchase!NoSupplier
    <3>2. Purchase!Add(key, s, look)
      BY <2>2, <2>4, <2>5, <2>6, <3>1 DEF Purchase!Add
    <3> QED
      BY <2>4, <3>2 DEF Purchase!Next, Purchase!SupplierCommand
  <2>7. CASE Req(c).op = "UPDATE"
    <3>1. Purchase!Update(key, s, look)
      BY <1>5, <2>4, <2>5, <2>7 DEF Purchase!Update, SupplierIsCurrent, SupplierExists
    <3> QED
      BY <2>4, <3>1 DEF Purchase!Next, Purchase!SupplierCommand
  <2> QED
    BY <2>1, <2>6, <2>7
<1>6. CASE SaveSupplier(c)
  BY <1>4, <1>5, <1>6 DEF SaveSupplier
<1>7. CASE RemoveSupplier(c)
  <2>1. Req(c).op = "REMOVE" /\ Req(c).on \in Suppliers /\ Req(c).what = NoOne /\ Req(c).version \in Nat
    BY <1>1, <1>7 DEF RemoveSupplier, RequestType, NoRequest
  <2>2. PICK s \in Suppliers : s = Req(c).on /\ s = SupplierOf(c) /\ s # NoOne
    BY <2>1, ProcurementAssumption DEF SupplierOf, ProcurementAssumption
  <2>3. /\ SupplierExists(s) /\ ~\E o \in Orders : Refers(o, s)
        /\ supplier[s].version = Req(c).version /\ Req(c).version < MaxVersion
    BY <1>1, <1>7, <2>1, <2>2 DEF Holds, Granted, RemoveSupplier, SupplierIsCurrent
  <2>4. /\ Purchase!Does(key, "REMOVE", s, supplier[s].version, NoOne, s)
        /\ key \in CommandKeys /\ written' # written
    BY <1>1, <1>2, <1>7, <2>1, <2>2, <2>3, CommitIsPromised DEF RemoveSupplier
  <2>5. Purchase!Turns(s, NoOne)
    BY <1>1, <1>3, <1>7, <2>2 DEF Purchase!Turns, RemoveSupplier
  <2>6. ~\E o \in Orders : Purchase!Exists(o) /\ orders[o].supplier = s
    BY <2>3 DEF Refers, OrderExists, Purchase!Exists, Agreed
  <2>7. Purchase!Remove(key, s)
    BY <2>3, <2>4, <2>5, <2>6 DEF Purchase!Remove, SupplierExists
  <2> QED
    BY <2>2, <2>4, <2>7 DEF Purchase!Next, Purchase!SupplierCommand
<1> QED
  BY <1>6, <1>7

LEMMA PurchaseStepIsPromised ==
  ASSUME ProcurementAssumption, ProcurementInv, EffectInv, GrantInv, [ProcurementNext]_procurementVars
  PROVE  Purchase!Next \/ UNCHANGED Purchase!vars
<1>1. CASE UNCHANGED <<po, supplier, productFits, written>>
  BY <1>1 DEF Purchase!vars, Agreed
<1>2. ASSUME NEW c \in Buyers, CloseOrder(c) PROVE Purchase!Next \/ UNCHANGED Purchase!vars
  BY <1>2, CloseIsPromised
<1>3. ASSUME NEW c \in Buyers, WriteOrder(c), ~UNCHANGED <<po, supplier, productFits, written>>
      PROVE  Purchase!Next
  <2>1. Req(c).op \in {"CREATE", "REPLACE", "CONFIRM"}
    BY <1>3 DEF WriteOrder
  <2>2. PICK o \in Orders :
          /\ IF Req(c).op = "CREATE" THEN po[o] = NoOrder ELSE o = Req(c).on
          /\ po' = [po EXCEPT ![o] = IF Req(c).op = "CONFIRM" THEN Confirmed(c, o) ELSE Drafted(c, o)]
          /\ Commits(c, o, po[o].version + 1)
    BY <1>3 DEF WriteOrder
  <2>3. IF Req(c).op = "CONFIRM" THEN ConfirmationAllowed(c) ELSE LinesAdmitted(c)
    BY <1>3 DEF WriteOrder
  <2>4. CASE Req(c).op = "CONFIRM"
    BY <1>3, <2>2, <2>3, <2>4, ConfirmIsPromised
  <2>5. CASE Req(c).op \in {"CREATE", "REPLACE"}
    BY <1>3, <2>2, <2>3, <2>5, DraftIsPromised
  <2> QED
    BY <2>1, <2>4, <2>5
<1>4. ASSUME NEW c \in Buyers, SaveSupplier(c) \/ RemoveSupplier(c)
      PROVE  Purchase!Next \/ UNCHANGED Purchase!vars
  BY <1>4, SupplierIsPromised
<1>5. CASE ChangeProduct
  <2>1. Purchase!ChangeProduct
    BY <1>5 DEF ChangeProduct, Purchase!ChangeProduct, Agreed
  <2> QED
    BY <2>1 DEF Purchase!Next
<1>6. \/ UNCHANGED <<po, supplier, productFits, written>> \/ ChangeProduct
      \/ \E c \in Buyers : CloseOrder(c) \/ WriteOrder(c) \/ SaveSupplier(c) \/ RemoveSupplier(c)
  BY DEF ProcurementNext, procurementVars, Send, Repeat, LoseCommand, TakeKey, LockOrder, LockSupplier,
         LookForOrders
<1> QED
  BY <1>1, <1>2, <1>3, <1>4, <1>5, <1>6

(* Commands take effect one at a time, on what orders, suppliers and the   *)
(* product are then, once under their keys: transactions at READ COMMITTED *)
(* with their locks, versions and tokens amount to that.                   *)
THEOREM OrdersKeepPromise == ProcurementSpec => OrdersAsPromised
<1>1. ProcurementInit => Purchase!Init /\ EffectInv /\ GrantInv
  BY PurchaseAtFirst, EffectAtFirst, GrantAtFirst, ProcurementAssumption
<1>2. ProcurementInv /\ EffectInv /\ [ProcurementNext]_procurementVars => EffectInv'
  BY EffectStepKeeps, ProcurementAssumption DEF ProcurementInv
<1>3. ProcurementInv /\ ProcurementInv' /\ GrantInv /\ [ProcurementNext]_procurementVars => GrantInv'
  BY GrantStepKeeps, ProcurementAssumption
<1>4. ProcurementInv /\ EffectInv /\ GrantInv /\ [ProcurementNext]_procurementVars =>
        [Purchase!Next]_(Purchase!vars)
  BY PurchaseStepIsPromised, ProcurementAssumption
<1> QED
  BY <1>1, <1>2, <1>3, <1>4, ProcurementIsInductive, PTL DEF ProcurementSpec, OrdersAsPromised, Purchase!Spec
=============================================================================
