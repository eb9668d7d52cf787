-------------------------- MODULE PromotionExpiry ---------------------------
(***************************************************************************)
(* The alert that a promotion is about to expire.  Every server runs a     *)
(* scanner that reads a batch of promotions due for the alert, from a      *)
(* cursor of its own, and claims them one by one: the claim locks the      *)
(* promotion, reads the clock, checks again that the alert is due, and in  *)
(* the same transaction flips the alert state of the end date and          *)
(* publishes the event.  Meanwhile operators edit, end, activate and       *)
(* delete promotions; an edit reads the promotion and writes it back in a  *)
(* later transaction.                                                      *)
(***************************************************************************)
EXTENDS Integers, FiniteSets, FiniteSetsExt

CONSTANTS
  Promos,     \* promotions, numbered in the order of their ids
  Servers,    \* servers, each with a scanner
  Operators,  \* operators that write promotions at the same time
  Poison,     \* promotions whose claim always fails
  ScanBatch,  \* promotions that one tick reads
  Window,     \* PROMOTION_EXPIRY_ALERT_WINDOW_MS
  MaxTime,    \* bound on the clock
  MaxDate,    \* bound on the dates of a promotion
  Starts,     \* start dates that requests name
  Ends,       \* end dates that requests name
  MaxEdits,   \* bound on the requests of operators
  MaxScanFaults,  \* bound on the claims that fail and the servers that restart
  None,       \* a date that is null
  Keep        \* a request without the date

Dates == 0..MaxDate

ASSUME ExpiryAssumption ==
  /\ Promos \subseteq Nat \ {0} /\ IsFiniteSet(Promos) /\ Poison \subseteq Promos
  /\ ScanBatch \in Nat \ {0} /\ Window \in Nat
  /\ MaxTime \in Nat /\ MaxDate \in Nat /\ MaxTime <= MaxDate
  /\ Starts \subseteq Dates /\ Ends \subseteq Dates
  /\ MaxEdits \in Nat /\ MaxScanFaults \in Nat
  /\ None \notin Int /\ Keep \notin Int \cup {None}

VARIABLES
  promo,      \* promotions
  alerted,    \* promotion_expiry_alert_states: alerted end dates
  published,  \* promotion.expiring.detected events per promotion and end date
  scan,       \* what the scanner of each server holds
  edit,       \* what each operator has read and is about to write
  now,        \* the clock
  edits,      \* requests of operators so far
  scanFaults, \* faults so far
  deletions   \* history: deletions per promotion

alertVars == <<alerted, published>>
bounds == <<now, edits, scanFaults>>
expiryVars == <<promo, alertVars, scan, edit, bounds, deletions>>

-----------------------------------------------------------------------------
Entity == [ended : BOOLEAN, start : Dates \cup {None}, end : Dates \cup {None}]

(* validateDateRange.                                                      *)
ValidRange(start, end) == start # None /\ end # None => start <= end

(* getEffectiveStatus is ACTIVE and the end date is in (t, t + Window].    *)
Due(entity, t) ==
  /\ ~entity.ended
  /\ entity.start # None => entity.start <= t
  /\ entity.end # None
  /\ entity.end > t /\ entity.end <= t + Window

IsDue(p) == promo[p].exists /\ Due(promo[p].entity, now)

Idle == [op |-> "NONE"]
Rested == [cursor |-> 0, left |-> {}, next |-> 0]

ExpiryInit ==
  /\ promo \in [Promos -> [exists : {TRUE}, entity : Entity]]
  /\ \A p \in Promos :
       LET e == promo[p].entity
       IN /\ ~e.ended /\ ValidRange(e.start, e.end)
          /\ e.start \in Starts \cup {None} /\ e.end \in Ends \cup {None}
  /\ alerted = [p \in Promos |-> {}]
  /\ published = [p \in Promos |-> [d \in Dates |-> 0]]
  /\ scan = [s \in Servers |-> Rested]
  /\ edit = [o \in Operators |-> Idle]
  /\ now = 0 /\ edits = 0 /\ scanFaults = 0
  /\ deletions = [p \in Promos |-> 0]

-----------------------------------------------------------------------------
(* The scanner *)

(* readBatch: the first due promotions after the cursor.                   *)
Batch(cursor) ==
  LET due == {p \in Promos : p > cursor /\ IsDue(p)}
  IN {p \in due : Cardinality({q \in due : q < p}) < ScanBatch}

(* advanceCursor.                                                          *)
NextCursorStays(batch) == 0

NextCursor(batch) == IF Cardinality(batch) < ScanBatch THEN 0 ELSE Max(batch)

(* A tick begins; an empty batch wraps the cursor.                         *)
ReadBatch(s) ==
  LET batch == Batch(scan[s].cursor)
  IN
  /\ scan[s].left = {}
  /\ scan' = [scan EXCEPT ![s] =
                IF batch = {} THEN Rested
                ELSE [@ EXCEPT !.left = batch, !.next = NextCursor(batch)]]
  /\ UNCHANGED <<promo, alertVars, edit, bounds, deletions>>

(* The flip of the alert state, which is seeded if there is none.          *)
FlippedAlways(p, d) == TRUE

Flipped(p, d) == d \notin alerted[p]

(* The check of the locked row against the clock.                          *)
EligibleAsRead(p) == promo[p].exists /\ promo[p].entity.end # None

Eligible(p) == promo[p].exists /\ Due(promo[p].entity, now)

(* claimExpiryAlert.                                                       *)
ClaimAlert(p) ==
  LET d == promo[p].entity.end
  IN IF Eligible(p) /\ Flipped(p, d)
       THEN /\ alerted' = [alerted EXCEPT ![p] = @ \cup {d}]
            /\ published' = [published EXCEPT ![p][d] = @ + 1]
       ELSE UNCHANGED alertVars

(* After the last promotion of the batch the cursor advances, whatever     *)
(* became of the claims.                                                   *)
AfterClaim(s, p) ==
  scan' = [scan EXCEPT ![s] =
             IF @.left = {p} THEN [Rested EXCEPT !.cursor = scan[s].next]
             ELSE [@ EXCEPT !.left = @ \ {p}]]

ClaimNext(s) ==
  LET p == Min(scan[s].left)
  IN
  /\ scan[s].left # {}
  /\ p \notin Poison
  /\ ClaimAlert(p)
  /\ AfterClaim(s, p)
  /\ UNCHANGED <<promo, edit, bounds, deletions>>

(* The claim throws: it is logged and the scan goes on.                    *)
ClaimFails(s) ==
  LET p == Min(scan[s].left)
  IN
  /\ scan[s].left # {}
  /\ \/ p \in Poison /\ UNCHANGED scanFaults
     \/ p \notin Poison /\ scanFaults < MaxScanFaults /\ scanFaults' = scanFaults + 1
  /\ AfterClaim(s, p)
  /\ UNCHANGED <<promo, alertVars, edit, now, edits, deletions>>

(* The cursor lives in memory.                                             *)
Restart(s) ==
  /\ scanFaults < MaxScanFaults
  /\ scanFaults' = scanFaults + 1
  /\ scan' = [scan EXCEPT ![s] = Rested]
  /\ UNCHANGED <<promo, alertVars, edit, now, edits, deletions>>

-----------------------------------------------------------------------------
(* Operators *)

(* A request reads the promotion and holds the entity that it will write.  *)
Begin(o, p, op, entity) ==
  /\ edit[o] = Idle
  /\ edits < MaxEdits
  /\ promo[p].exists
  /\ edits' = edits + 1
  /\ edit' = [edit EXCEPT ![o] = [op |-> op, promo |-> p, entity |-> entity]]
  /\ UNCHANGED <<promo, alertVars, scan, now, scanFaults, deletions>>

(* update: dates that the request does not name are kept as they were read.*)
ReadForUpdate(o, p, start, end) ==
  LET e == promo[p].entity
      merged == [e EXCEPT !.start = IF start = Keep THEN @ ELSE start,
                          !.end = IF end = Keep THEN @ ELSE end]
  IN
  /\ ValidRange(merged.start, merged.end)
  /\ Begin(o, p, "UPDATE", merged)

(* end: ending an ended promotion again changes nothing of it.             *)
Ended(e) ==
  IF e.ended THEN e
  ELSE [e EXCEPT !.ended = TRUE, !.end = IF @ = None THEN now ELSE @]

ReadForEnd(o, p) == Begin(o, p, "END", Ended(promo[p].entity))

(* activate: an end date in the past is dropped.                           *)
Expired(e) == e.end # None /\ e.end < now

Activated(e) == [e EXCEPT !.ended = FALSE, !.end = IF Expired(e) THEN None ELSE @]

ReadForActivate(o, p) ==
  LET e == promo[p].entity
  IN (e.ended \/ Expired(e)) /\ Begin(o, p, "ACTIVATE", Activated(e))

(* save, which inserts a promotion that is gone, and updateStatus, which   *)
(* fails on one and writes the override and the end date.                  *)
Written(row, op, entity) ==
  CASE op = "UPDATE"                 -> [exists |-> TRUE, entity |-> entity]
    [] op # "UPDATE" /\ row.exists   -> [row EXCEPT !.entity.ended = (op = "END"),
                                                    !.entity.end = entity.end]
    [] op # "UPDATE" /\ ~row.exists  -> row

WriteEdit(o) ==
  /\ edit[o] # Idle
  /\ promo' = [promo EXCEPT ![edit[o].promo] = Written(@, edit[o].op, edit[o].entity)]
  /\ edit' = [edit EXCEPT ![o] = Idle]
  /\ UNCHANGED <<alertVars, scan, bounds, deletions>>

(* remove: the alert states go with the promotion (ON DELETE CASCADE).     *)
Delete(p) ==
  /\ promo[p].exists
  /\ promo' = [promo EXCEPT ![p].exists = FALSE]
  /\ alerted' = [alerted EXCEPT ![p] = {}]
  /\ deletions' = [deletions EXCEPT ![p] = @ + 1]
  /\ UNCHANGED <<published, scan, edit, bounds>>

Tick ==
  /\ now < MaxTime
  /\ now' = now + 1
  /\ UNCHANGED <<promo, alertVars, scan, edit, edits, scanFaults, deletions>>

-----------------------------------------------------------------------------
Asked(dates) == dates \cup {None, Keep}

Scan(s) == ReadBatch(s) \/ ClaimNext(s) \/ ClaimFails(s)

ExpiryNext ==
  \/ \E s \in Servers : Scan(s) \/ Restart(s)
  \/ \E o \in Operators :
       \/ \E p \in Promos :
            \/ \E start \in Asked(Starts), end \in Asked(Ends) :
                 ReadForUpdate(o, p, start, end)
            \/ ReadForEnd(o, p)
            \/ ReadForActivate(o, p)
       \/ WriteEdit(o)
  \/ \E p \in Promos : Delete(p)
  \/ Tick

ExpirySpec == ExpiryInit /\ [][ExpiryNext]_expiryVars

-----------------------------------------------------------------------------
EditType == [op : {"NONE"}] \cup
            [op : {"UPDATE", "END", "ACTIVATE"}, promo : Promos, entity : Entity]

(* Every row and every buffer holds the values that it can hold, and a     *)
(* tick never holds more than a batch (readBatch).                         *)
ExpiryTypeOK ==
  /\ promo \in [Promos -> [exists : BOOLEAN, entity : Entity]]
  /\ alerted \in [Promos -> SUBSET Dates]
  /\ published \in [Promos -> [Dates -> Nat]]
  /\ scan \in [Servers -> [cursor : Promos \cup {0}, left : SUBSET Promos,
                           next : Promos \cup {0}]]
  /\ \A s \in Servers : Cardinality(scan[s].left) <= ScanBatch
  /\ edit \in [Operators -> EditType]
  /\ now \in 0..MaxTime /\ edits \in Nat /\ scanFaults \in Nat
  /\ deletions \in [Promos -> Nat]

(* However many servers scan, and wherever its end date goes and comes     *)
(* back to, a promotion is announced once per end date; a deletion forgets *)
(* the announcements (claimExpiryAlert).                                   *)
AlertedOnce ==
  \A p \in Promos, d \in Dates : published[p][d] <= 1 + deletions[p]

(* An edited, ended or deleted promotion never publishes an obsolete date: *)
(* what is announced is the end date of a promotion that is active and     *)
(* expires within the window, however old the batch is (claimExpiryAlert). *)
AlertIsCurrent ==
  [][\A p \in Promos, d \in Dates : published'[p][d] # published[p][d] =>
       IsDue(p) /\ promo[p].entity.end = d]_expiryVars

(* A promotion that stays due is announced, although more promotions are   *)
(* due than a batch holds and claims of others always fail (scan).         *)
DueIsAlerted ==
  \A p \in Promos \ Poison :
    <>[]IsDue(p) => <>[](promo[p].entity.end \in alerted[p])

(* "Operator-initiated ENDED. Permanent until an explicit re-activation.": *)
(* only an activation takes the override back.                             *)
EndedUntilActivated ==
  [][\A p \in Promos :
       promo[p].exists /\ promo[p].entity.ended /\ ~promo'[p].entity.ended =>
         \E o \in Operators : edit[o] # Idle /\ edit[o].op = "ACTIVATE"
                              /\ edit[o].promo = p]_expiryVars
=============================================================================
