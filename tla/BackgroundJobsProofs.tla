------------------------ MODULE BackgroundJobsProofs -------------------------
(***************************************************************************)
(* Proofs about the two jobs that run beside the requests.                 *)
(*                                                                         *)
(* Outbox, for any number of polls and events and any bound on faults:     *)
(* three facts tie a poll to the row it works on.  Known says that the row *)
(* was written, so that its lane is settled; Remembered bounds the count a *)
(* poll will write back, stale or not, by the refusals of the event;       *)
(* Fenced says that a poll whose token a fenced row carries remembers that *)
(* row as it is.                                                           *)
(*                                                                         *)
(* The alerts of PromotionExpiry, for any number of promotions, scanners   *)
(* and operators, any batch size and any bounds: a promotion is announced  *)
(* once per end date, and only when the alert is due.  Neither depends on  *)
(* what a scanner holds, so the invariant says nothing of batches.         *)
(***************************************************************************)
EXTENDS Outbox, PromotionExpiry, TLAPS

(* A poll works on rows that were written.                                 *)
Known ==
  \A p \in Polls :
    /\ \A h \in batch[p] : row[h.event].status # "NONE"
    /\ phase[p] \in {"sent", "refused"} => row[item[p].event].status # "NONE"

(* What a poll is about to write is borne out by the history.              *)
Remembered ==
  \A p \in Polls :
    /\ \A h \in batch[p] : h.retry <= refusals[h.event]
    /\ phase[p] \in {"sent", "refused"} => item[p].retry <= refusals[item[p].event]
    /\ phase[p] = "sent" => row[item[p].event].lane = "generic" \/ item[p].event \in sent
    /\ phase[p] = "refused" => item[p].retry < refusals[item[p].event]

(* A row without outcome has attempts left; only a pending row is claimed. *)
Waiting ==
  \A e \in Events : /\ row[e].status \notin Final => row[e].retry < MaxRetries
                    /\ row[e].status # "PENDING" => row[e].holder = Nobody

(* The token of a fenced row stands for an up-to-date poll.                *)
Fenced ==
  \A p \in Polls : \A e \in Events :
    row[e].lane = "fenced" /\ row[e].holder = p =>
      /\ \A h \in batch[p] : h.event = e => h.retry = row[e].retry
      /\ phase[p] \in {"sent", "refused"} /\ item[p].event = e
           => item[p].retry = row[e].retry

Inv ==
  /\ TypeOK
  /\ PublishedWasDelivered
  /\ GivenUpAfterRetries
  /\ Remembered
  /\ Waiting
  /\ Fenced

(* What a step from an inductive state does to the fenced rows.            *)
Settled ==
  /\ \A e \in Events : row[e].lane = "fenced" /\ row[e].status \in Final
                         => row'[e].status = row[e].status
  /\ \A e \in Events : row[e].lane = "fenced" => row'[e].retry >= row[e].retry

Kept == Inv' /\ Settled

-----------------------------------------------------------------------------
(* Before the first event nothing is claimed or sent.                      *)
LEMMA InvAtFirst == Init => Inv
<1> SUFFICES ASSUME Init PROVE Inv
  OBVIOUS
<1> USE OutboxAssumption DEF Init, Unwritten
<1>1. TypeOK
  BY DEF TypeOK, Row, Final
<1>2. PublishedWasDelivered /\ GivenUpAfterRetries
  BY DEF PublishedWasDelivered, GivenUpAfterRetries
<1>3. Remembered /\ Waiting /\ Fenced
  BY DEF Remembered, Waiting, Fenced
<1> QED
  BY <1>1, <1>2, <1>3 DEF Inv

(* A row that keeps its count and its token, and its status and lane but   *)
(* when it is published, leaves every poll as true as it was.              *)
LEMMA RowStepKeeps ==
  ASSUME Inv, Known, NEW e \in Events, NEW r \in Row, row' = [row EXCEPT ![e] = r],
         UNCHANGED <<pollVars, sent, refusals>>, faults' \in Nat,
         r.retry = row[e].retry, r.holder = row[e].holder,
         \/ r.status = row[e].status /\ r.lane = row[e].lane
         \/ row[e].status = "NONE" /\ r.status = "PENDING"
  PROVE  Kept
<1> USE OutboxAssumption DEF Inv, pollVars
<1>1. /\ row' \in [Events -> Row]
      /\ row'[e] = r
      /\ \A d \in Events : d # e => row'[d] = row[d]
  BY DEF TypeOK
<1>2. \A d \in Events : row[d].holder \in Polls \cup {Nobody} /\ row[d].retry \in Nat
  BY DEF TypeOK, Row
<1>3. TypeOK'
  BY <1>1 DEF TypeOK
<1>4. (PublishedWasDelivered /\ GivenUpAfterRetries /\ Remembered)'
  <2>1. \A q \in Polls : phase[q] = "sent" => row'[item[q].event].lane = row[item[q].event].lane
    BY <1>1 DEF Known, TypeOK
  <2> QED
    BY <1>1, <2>1 DEF PublishedWasDelivered, GivenUpAfterRetries, Remembered
<1>5. Waiting'
  BY <1>1 DEF Waiting, Final
<1>6. Fenced'
  BY <1>1, <1>2 DEF Fenced, Waiting
<1>7. Settled
  BY <1>1, <1>2 DEF Settled, Final
<1> QED
  BY <1>3, <1>4, <1>5, <1>6, <1>7 DEF Kept

(* A new row is pending and unclaimed.                                     *)
LEMMA PublishKeeps ==
  ASSUME Inv, Known, NEW e \in Events, NEW lane \in Lanes, Publish(e, lane)
  PROVE  Kept
<1> DEFINE r == [row[e] EXCEPT !.status = "PENDING", !.lane = lane]
<1>1. row[e].status = "NONE" /\ row[e] \in Row
  BY DEF Publish, Events, Inv, TypeOK
<1>2. /\ r \in Row /\ r.status = "PENDING"
      /\ r.retry = row[e].retry /\ r.holder = row[e].holder
  BY <1>1, OutboxAssumption DEF Row
<1>3. row' = [row EXCEPT ![e] = r]
  BY DEF Publish
<1>4. faults' \in Nat /\ UNCHANGED <<pollVars, sent, refusals>>
  BY DEF Publish, Inv, TypeOK
<1> HIDE DEF r
<1> QED
  BY <1>1, <1>2, <1>3, <1>4, RowStepKeeps

(* Time touches neither count nor token.                                   *)
LEMMA TimeKeeps ==
  ASSUME Inv, Known, NEW e \in Events, LeaseEnds(e) \/ BackoffEnds(e)
  PROVE  Kept
<1>1. row[e] \in Row /\ faults \in Nat
  BY DEF Inv, TypeOK
<1>2. CASE LeaseEnds(e)
  <2> DEFINE r == [row[e] EXCEPT !.leased = FALSE]
  <2>1. /\ r \in Row /\ r.status = row[e].status /\ r.lane = row[e].lane
        /\ r.retry = row[e].retry /\ r.holder = row[e].holder
    BY <1>1 DEF Row
  <2>2. row' = [row EXCEPT ![e] = r]
    BY <1>2 DEF LeaseEnds
  <2>3. faults' \in Nat /\ UNCHANGED <<pollVars, sent, refusals>>
    BY <1>1, <1>2 DEF LeaseEnds
  <2> HIDE DEF r
  <2> QED
    BY <2>1, <2>2, <2>3, RowStepKeeps
<1>3. CASE BackoffEnds(e)
  <2> DEFINE r == [row[e] EXCEPT !.due = TRUE]
  <2>1. /\ r \in Row /\ r.status = row[e].status /\ r.lane = row[e].lane
        /\ r.retry = row[e].retry /\ r.holder = row[e].holder
    BY <1>1 DEF Row
  <2>2. row' = [row EXCEPT ![e] = r]
    BY <1>3 DEF BackoffEnds
  <2>3. faults' \in Nat /\ UNCHANGED <<pollVars, sent, refusals>>
    BY <1>1, <1>3 DEF BackoffEnds
  <2> HIDE DEF r
  <2> QED
    BY <2>1, <2>2, <2>3, RowStepKeeps
<1> QED
  BY <1>2, <1>3

-----------------------------------------------------------------------------
(* A poll remembers the rows it claims as it found them.                   *)
LEMMA ClaimKeeps ==
  ASSUME Inv, NEW p \in Polls, NEW lane \in Lanes, Claim(p, lane)
  PROVE  Kept
<1> DEFINE taken == Oldest({e \in Events : Claimable(e, lane)})
<1>1. \A e \in taken : e \in Events /\ row[e].status = "PENDING"
  BY DEF Oldest, Claimable
<1>2. /\ phase[p] = "idle"
      /\ row' = [e \in Events |-> IF e \in taken
                                  THEN [row[e] EXCEPT !.holder = p, !.leased = TRUE]
                                  ELSE row[e]]
      /\ batch' = [batch EXCEPT ![p] = {[event |-> e, retry |-> row[e].retry] : e \in taken}]
      /\ phase' = [phase EXCEPT ![p] = "polling"]
      /\ UNCHANGED <<item, sent, refusals, faults>>
  BY DEF Claim
<1> HIDE DEF taken
<1> USE OutboxAssumption DEF Inv
<1>3. \A e \in taken :
        /\ row'[e] \in Row /\ row'[e].holder = p
        /\ row'[e].status = row[e].status /\ row'[e].lane = row[e].lane
        /\ row'[e].retry = row[e].retry
  <2> TAKE e \in taken
  <2> DEFINE r == [row[e] EXCEPT !.holder = p, !.leased = TRUE]
  <2>1. row[e] \in Row /\ row'[e] = r
    BY <1>1, <1>2 DEF TypeOK
  <2>2. /\ r \in Row /\ r.holder = p /\ r.status = row[e].status
        /\ r.lane = row[e].lane /\ r.retry = row[e].retry
    BY <2>1 DEF Row
  <2> HIDE DEF r
  <2> QED
    BY <2>1, <2>2
<1>4. \A e \in Events : e \notin taken => row'[e] = row[e]
  BY <1>2
<1>5. \A e \in taken : [event |-> e, retry |-> row[e].retry] \in Claimed
  BY <1>1 DEF TypeOK, Row, Waiting, Claimed, Final
<1>6. /\ batch'[p] = {[event |-> e, retry |-> row[e].retry] : e \in taken}
      /\ \A q \in Polls : q # p => batch'[q] = batch[q] /\ phase'[q] = phase[q]
      /\ phase'[p] = "polling"
  BY <1>2 DEF TypeOK
<1>7. TypeOK'
  <2>1. row' \in [Events -> Row]
    BY <1>2, <1>3, <1>4 DEF TypeOK
  <2>2. batch' \in [Polls -> SUBSET Claimed]
    <3> DEFINE new == {[event |-> e, retry |-> row[e].retry] : e \in taken}
    <3>1. new \in SUBSET Claimed /\ batch' = [batch EXCEPT ![p] = new]
      BY <1>2, <1>5
    <3> HIDE DEF new
    <3> QED
      BY <3>1 DEF TypeOK
  <2> QED
    BY <1>2, <1>6, <2>1, <2>2 DEF TypeOK
<1>8. \A e \in Events : /\ row'[e].status = row[e].status /\ row'[e].lane = row[e].lane
                        /\ row'[e].retry = row[e].retry
                        /\ row'[e].holder # row[e].holder => e \in taken
  BY <1>3, <1>4
<1>9. (PublishedWasDelivered /\ GivenUpAfterRetries)'
  BY <1>2, <1>8 DEF PublishedWasDelivered, GivenUpAfterRetries
<1>10. Remembered'
  <2>1. \A h \in batch'[p] : h.retry <= refusals[h.event]
    BY <1>1, <1>6 DEF GivenUpAfterRetries
  <2>2. \A q \in Polls : phase[q] = "sent" => row'[item[q].event].lane = row[item[q].event].lane
    BY <1>8 DEF TypeOK
  <2> QED
    BY <1>2, <1>6, <2>1, <2>2 DEF Remembered
<1>11. Waiting'
  BY <1>1, <1>8 DEF Waiting
<1>12. Fenced'
  <2>1. \A e \in Events : \A h \in batch'[p] : h.event = e => h.retry = row[e].retry
    BY <1>6
  <2>2. \A e \in Events, q \in Polls : q # p /\ row'[e].holder = q => row[e].holder = q
    BY <1>3, <1>4
  <2>3. \A q \in Polls, e \in Events : row'[e].lane = "fenced" /\ row'[e].holder = q =>
          /\ \A h \in batch'[q] : h.event = e => h.retry = row'[e].retry
          /\ phase'[q] \in {"sent", "refused"} /\ item'[q].event = e
               => item'[q].retry = row'[e].retry
    <3> TAKE q \in Polls, e \in Events
    <3>1. CASE q = p
      BY <1>6, <1>8, <2>1, <3>1
    <3>2. CASE q # p
      <4>1. batch'[q] = batch[q] /\ phase'[q] = phase[q] /\ item'[q] = item[q]
        BY <1>2, <1>6, <3>2
      <4>2. /\ row'[e].lane = row[e].lane /\ row'[e].retry = row[e].retry
            /\ row'[e].holder = q => row[e].holder = q
        BY <1>8, <2>2, <3>2
      <4>3. row[e].lane = "fenced" /\ row[e].holder = q =>
              /\ \A h \in batch[q] : h.event = e => h.retry = row[e].retry
              /\ phase[q] \in {"sent", "refused"} /\ item[q].event = e
                   => item[q].retry = row[e].retry
        BY DEF Fenced
      <4> QED
        BY <4>1, <4>2, <4>3
    <3> QED
      BY <3>1, <3>2
  <2> QED
    BY <2>3 DEF Fenced
<1>13. Settled
  BY <1>8 DEF Settled, TypeOK, Row
<1> QED
  BY <1>7, <1>9, <1>10, <1>11, <1>12, <1>13 DEF Kept

-----------------------------------------------------------------------------
(* A refusal is counted, up to MaxRetries.                                 *)
LEMMA RefusalCounts ==
  ASSUME Inv, NEW e \in Events, Refuse(e)
  PROVE  /\ refusals' \in [Events -> 0..MaxRetries]
         /\ \A d \in Events : refusals'[d] >= refusals[d]
         /\ \A n \in 0..(MaxRetries - 1) : n <= refusals[e] => n < refusals'[e]
BY OutboxAssumption DEF Inv, TypeOK, Refuse

(* More refusals and more deliveries bear out what they bore out before.   *)
LEMMA HistoryKeeps ==
  ASSUME Inv, UNCHANGED row, sent \subseteq sent', sent' \subseteq Events,
         refusals' \in [Events -> 0..MaxRetries],
         \A d \in Events : refusals'[d] >= refusals[d]
  PROVE  (PublishedWasDelivered /\ GivenUpAfterRetries /\ Waiting)' /\ Settled
<1>1. \A e \in Events : row[e].retry \in Nat /\ refusals[e] \in 0..MaxRetries
  BY OutboxAssumption DEF Inv, TypeOK, Row
<1> QED
  BY <1>1, OutboxAssumption
     DEF Inv, PublishedWasDelivered, GivenUpAfterRetries, Waiting, Settled

(* A poll that moves on keeps some of its batch.                           *)
LEMMA ProceedKeeps ==
  ASSUME Inv, NEW p \in Polls, NEW rest \in SUBSET batch[p], Proceed(p, rest)
  PROVE  /\ phase' \in [Polls -> {"idle", "polling", "sent", "refused"}]
         /\ batch' \in [Polls -> SUBSET Claimed]
         /\ item' \in [Polls -> Claimed \cup {NoItem}]
         /\ phase'[p] \notin {"sent", "refused"} /\ batch'[p] \subseteq batch[p]
         /\ \A q \in Polls : q # p => /\ phase'[q] = phase[q]
                                     /\ batch'[q] = batch[q] /\ item'[q] = item[q]
BY DEF Inv, TypeOK, Proceed

-----------------------------------------------------------------------------
(* The poll turns to a row of its batch, which was delivered or refused.   *)
LEMMA DeliverKeeps ==
  ASSUME Inv, NEW p \in Polls, NEW h \in batch[p], Deliver(p, h)
  PROVE  Kept
<1> USE OutboxAssumption DEF Inv
<1>1. h \in Claimed /\ h.event \in Events /\ h.retry \in 0..(MaxRetries - 1)
  BY DEF TypeOK, Claimed
<1>2. /\ batch' = [batch EXCEPT ![p] = @ \ {h}]
      /\ item' = [item EXCEPT ![p] = h]
      /\ UNCHANGED <<row, faults>>
  BY DEF Deliver
<1>3. \/ /\ phase' = [phase EXCEPT ![p] = "sent"]
         /\ row[h.event].lane = "generic" \/ sent' = sent \cup {h.event}
         /\ sent' \in {sent, sent \cup {h.event}} /\ UNCHANGED refusals
      \/ /\ phase' = [phase EXCEPT ![p] = "refused"]
         /\ sent' \in {sent, sent \cup {h.event}} /\ Refuse(h.event)
  BY DEF Deliver, AfterRefusal, Reach
<1>4. /\ refusals' \in [Events -> 0..MaxRetries]
      /\ \A d \in Events : refusals'[d] >= refusals[d]
      /\ sent \subseteq sent' /\ sent' \subseteq Events
  BY <1>1, <1>3, RefusalCounts DEF TypeOK
<1>5. /\ batch'[p] \subseteq batch[p] /\ item'[p] = h
      /\ phase'[p] \in {"sent", "refused"}
      /\ phase'[p] = "sent" => row[h.event].lane = "generic" \/ h.event \in sent'
      /\ phase'[p] = "refused" => h.retry < refusals'[h.event]
  BY <1>1, <1>2, <1>3, RefusalCounts DEF TypeOK, Remembered
<1>6. \A q \in Polls : q # p => /\ phase'[q] = phase[q]
                              /\ batch'[q] = batch[q] /\ item'[q] = item[q]
  BY <1>2, <1>3 DEF TypeOK
<1>7. TypeOK'
  BY <1>1, <1>2, <1>3, <1>4, <1>5 DEF TypeOK
<1>8. Remembered'
  <2> SUFFICES ASSUME NEW q \in Polls
               PROVE  /\ \A g \in batch'[q] : g.retry <= refusals'[g.event]
                      /\ phase'[q] \in {"sent", "refused"}
                           => item'[q].retry <= refusals'[item'[q].event]
                      /\ phase'[q] = "sent" =>
                           row[item'[q].event].lane = "generic" \/ item'[q].event \in sent'
                      /\ phase'[q] = "refused" => item'[q].retry < refusals'[item'[q].event]
    BY <1>2 DEF Remembered
  <2>1. \A g \in batch[q] : g.event \in Events /\ g.retry \in Nat
                            /\ g.retry <= refusals[g.event]
    BY DEF Remembered, TypeOK, Claimed
  <2>2. \A d \in Events : refusals[d] \in Nat /\ refusals'[d] \in Nat
    BY <1>4 DEF TypeOK
  <2>3. \A g \in batch[q] : g.retry <= refusals'[g.event]
    BY <1>4, <2>1, <2>2
  <2>4. CASE q = p
    BY <1>1, <1>5, <2>1, <2>3, <2>4
  <2>5. CASE q # p
    <3>1. phase[q] \in {"sent", "refused"} => item[q] \in Claimed
      BY DEF TypeOK, NoItem, Events
    <3>2. phase[q] \in {"sent", "refused"} => item[q].event \in Events /\ item[q].retry \in Nat
      BY <3>1 DEF Claimed
    <3> QED
      BY <1>4, <1>6, <2>2, <2>3, <2>5, <3>2 DEF Remembered
  <2> QED
    BY <2>4, <2>5
<1>9. Fenced'
  BY <1>2, <1>5, <1>6 DEF Fenced
<1> QED
  BY <1>2, <1>4, <1>7, <1>8, <1>9, HistoryKeeps DEF Kept

-----------------------------------------------------------------------------
(* An outcome is written by a poll that the row still belongs to, or to a  *)
(* row of a lane that is not fenced.                                       *)
LEMMA WriteKeeps ==
  ASSUME Inv, NEW p \in Polls, phase[p] \in {"sent", "refused"},
         NEW status \in {"PENDING"} \cup Final, NEW n \in 0..MaxRetries,
         NEW due \in BOOLEAN, Write(p, status, n, due), Proceed(p, batch[p]),
         UNCHANGED <<sent, refusals, faults>>,
         item[p].retry <= n, n <= refusals[item[p].event],
         status = "PUBLISHED" => row[item[p].event].lane = "generic" \/ item[p].event \in sent,
         status = "FAILED" => n = MaxRetries, status = "PENDING" => n < MaxRetries
  PROVE  Kept
<1> DEFINE e == item[p].event
           r == [status |-> status, lane |-> row[e].lane, retry |-> n, due |-> due,
                 holder |-> Nobody, leased |-> FALSE]
<1> USE OutboxAssumption DEF Inv
<1>1. e \in Events /\ item[p].retry \in Nat
  BY DEF TypeOK, Claimed, NoItem
<1>2. r \in Row
  BY <1>1 DEF TypeOK, Row
<1>3. row' = row \/ (row' = [row EXCEPT ![e] = r] /\ Owns(p))
  BY DEF Write
<1>4. /\ r.status = status /\ r.lane = row[e].lane /\ r.retry = n /\ r.holder = Nobody
  OBVIOUS
<1> HIDE DEF r
<1>5. /\ row' \in [Events -> Row]
      /\ \A d \in Events : row'[d] = row[d] \/ (d = e /\ row'[d] = r /\ Owns(p))
  BY <1>1, <1>2, <1>3 DEF TypeOK
<1>6. /\ phase' \in [Polls -> {"idle", "polling", "sent", "refused"}]
      /\ batch' \in [Polls -> SUBSET Claimed]
      /\ item' \in [Polls -> Claimed \cup {NoItem}]
      /\ phase'[p] \notin {"sent", "refused"} /\ batch'[p] \subseteq batch[p]
      /\ \A q \in Polls : q # p => /\ phase'[q] = phase[q]
                                  /\ batch'[q] = batch[q] /\ item'[q] = item[q]
  BY ProceedKeeps
<1>7. TypeOK'
  BY <1>5, <1>6 DEF TypeOK
<1>8. Remembered'
  <2>1. \A d \in Events : row'[d].lane = row[d].lane
    BY <1>4, <1>5
  <2>2. \A q \in Polls : phase[q] = "sent" => item[q].event \in Events
    BY DEF TypeOK
  <2> QED
    BY <1>6, <2>1, <2>2 DEF Remembered
<1>9. PublishedWasDelivered'
  BY <1>1, <1>4, <1>5 DEF PublishedWasDelivered
<1>10. GivenUpAfterRetries'
  <2>1. refusals[e] \in 0..MaxRetries
    BY <1>1 DEF TypeOK
  <2> QED
    BY <1>1, <1>4, <1>5, <2>1 DEF GivenUpAfterRetries
<1>11. Waiting'
  BY <1>4, <1>5 DEF Waiting, Final
<1>12. Fenced'
  <2>1. \A d \in Events, q \in Polls : row'[d].holder = q => row'[d] = row[d]
    BY <1>4, <1>5
  <2> QED
    BY <1>6, <2>1 DEF Fenced
<1>13. Settled
  <2>1. row[e].lane = "fenced" /\ Owns(p) => row[e].holder = p
    BY DEF Owns
  <2>2. row[e].lane = "fenced" /\ Owns(p) =>
          row[e].status = "PENDING" /\ item[p].retry = row[e].retry
    BY <1>1, <2>1 DEF Waiting, Fenced
  <2>3. \A d \in Events : row[d].retry \in Nat
    BY DEF TypeOK, Row
  <2> QED
    BY <1>1, <1>4, <1>5, <2>2, <2>3 DEF Settled, Final
<1> QED
  BY <1>7, <1>8, <1>9, <1>10, <1>11, <1>12, <1>13 DEF Kept

(* A confirmation marks an event that was sent.                            *)
LEMMA ConfirmKeeps ==
  ASSUME Inv, NEW p \in Polls, Confirm(p)
  PROVE  Kept
<1> USE OutboxAssumption DEF Inv
<1>1. phase[p] = "sent" /\ UNCHANGED <<sent, refusals, faults>> /\ Proceed(p, batch[p])
  BY DEF Confirm
<1>2. /\ item[p].event \in Events /\ item[p].retry \in 0..MaxRetries
      /\ row[item[p].event].due \in BOOLEAN
  BY <1>1 DEF TypeOK, Claimed, NoItem, Row
<1>3. /\ item[p].retry <= refusals[item[p].event]
      /\ row[item[p].event].lane = "generic" \/ item[p].event \in sent
      /\ item[p].retry <= item[p].retry
  BY <1>1, <1>2 DEF Remembered
<1>4. Write(p, "PUBLISHED", item[p].retry, row[item[p].event].due)
  BY DEF Confirm
<1> QED
  BY <1>1, <1>2, <1>3, <1>4, WriteKeeps DEF Final

(* A retry writes back one more than the poll read, and no more than the   *)
(* event was refused.                                                      *)
LEMMA RescheduleKeeps ==
  ASSUME Inv, NEW p \in Polls, Reschedule(p)
  PROVE  Kept
<1> DEFINE n == item[p].retry + 1
           status == IF Exhausted(item[p].retry) THEN "FAILED" ELSE "PENDING"
<1> USE OutboxAssumption DEF Inv
<1>1. phase[p] = "refused" /\ UNCHANGED <<sent, refusals, faults>> /\ Proceed(p, batch[p])
  BY DEF Reschedule
<1>2. item[p].event \in Events /\ item[p].retry \in 0..(MaxRetries - 1)
  BY <1>1 DEF TypeOK, Claimed, NoItem
<1>3. refusals[item[p].event] \in Nat /\ item[p].retry < refusals[item[p].event]
  BY <1>1, <1>2 DEF TypeOK, Remembered
<1>4. /\ n \in 0..MaxRetries /\ item[p].retry <= n /\ n <= refusals[item[p].event]
      /\ status = "FAILED" => n = MaxRetries
      /\ status = "PENDING" => n < MaxRetries
      /\ status \in {"PENDING"} \cup Final /\ status # "PUBLISHED"
  BY <1>2, <1>3 DEF Exhausted, Final
<1>5. Write(p, status, n, row[item[p].event].lane = "generic")
  BY DEF Reschedule
<1> HIDE DEF n, status
<1> QED
  BY <1>1, <1>4, <1>5, WriteKeeps

(* A failed write changes what the poll knows, not what the row says.      *)
LEMMA FaultKeeps ==
  ASSUME Inv, NEW p \in Polls, ConfirmFails(p) \/ RescheduleFails(p) \/ Die(p)
  PROVE  Kept
<1> USE OutboxAssumption DEF Inv
<1>1. CASE ConfirmFails(p)
  <2>1. /\ phase[p] = "sent" /\ phase' = [phase EXCEPT ![p] = "refused"]
        /\ Refuse(item[p].event) /\ faults' = faults + 1
        /\ UNCHANGED <<row, batch, item, sent>>
    BY <1>1 DEF ConfirmFails
  <2>2. item[p].event \in Events /\ item[p].retry \in 0..(MaxRetries - 1)
    BY <2>1 DEF TypeOK, Claimed, NoItem
  <2>3. /\ refusals' \in [Events -> 0..MaxRetries]
        /\ \A d \in Events : refusals'[d] >= refusals[d]
        /\ item[p].retry < refusals'[item[p].event]
    BY <2>1, <2>2, RefusalCounts DEF Remembered
  <2>4. TypeOK'
    BY <2>1, <2>2, <2>3 DEF TypeOK
  <2>5. \A q \in Polls : \A h \in batch[q] : h.event \in Events /\ h.retry \in Nat
    BY DEF TypeOK, Claimed
  <2>6. \A q \in Polls : phase[q] \in {"sent", "refused"} =>
                         item[q].event \in Events /\ item[q].retry \in Nat
    BY DEF TypeOK, Claimed, NoItem
  <2>7. \A d \in Events : refusals[d] \in Nat /\ refusals'[d] \in Nat
    BY <2>3 DEF TypeOK
  <2>8. Remembered'
    <3> SUFFICES ASSUME NEW q \in Polls
                 PROVE  /\ \A h \in batch[q] : h.retry <= refusals'[h.event]
                        /\ phase'[q] \in {"sent", "refused"}
                             => item[q].retry <= refusals'[item[q].event]
                        /\ phase'[q] = "sent" =>
                             row[item[q].event].lane = "generic" \/ item[q].event \in sent
                        /\ phase'[q] = "refused" => item[q].retry < refusals'[item[q].event]
      BY <2>1 DEF Remembered
    <3>1. \A h \in batch[q] : h.retry <= refusals'[h.event]
      <4> TAKE h \in batch[q]
      <4>1. h.event \in Events /\ h.retry \in Nat
        BY <2>5
      <4>2. h.retry <= refusals[h.event]
        BY DEF Remembered
      <4>3. /\ refusals'[h.event] >= refusals[h.event]
            /\ refusals[h.event] \in Nat /\ refusals'[h.event] \in Nat
        BY <4>1, <2>3, <2>7
      <4> QED
        BY <4>1, <4>2, <4>3
    <3>2. CASE q = p
      <4>1. phase'[p] = "refused"
        BY <2>1 DEF TypeOK
      <4>2. item[p].event \in Events /\ refusals'[item[p].event] \in Nat
        BY <2>2, <2>7
      <4> QED
        BY <2>2, <2>3, <3>1, <3>2, <4>1, <4>2
    <3>3. CASE q # p
      <4>1. phase'[q] = phase[q]
        BY <2>1, <3>3 DEF TypeOK
      <4>2. phase[q] \in {"sent", "refused"} =>
              /\ refusals'[item[q].event] >= refusals[item[q].event]
              /\ refusals[item[q].event] \in Nat /\ refusals'[item[q].event] \in Nat
              /\ item[q].retry \in Nat
        BY <2>3, <2>6, <2>7
      <4>3. /\ phase[q] \in {"sent", "refused"} => item[q].retry <= refusals[item[q].event]
            /\ phase[q] = "sent" =>
                 row[item[q].event].lane = "generic" \/ item[q].event \in sent
            /\ phase[q] = "refused" => item[q].retry < refusals[item[q].event]
        BY DEF Remembered
      <4> QED
        BY <3>1, <4>1, <4>2, <4>3
    <3> QED
      BY <3>2, <3>3
  <2>9. Fenced'
    BY <2>1 DEF Fenced, TypeOK
  <2>10. sent' \subseteq Events /\ sent \subseteq sent'
    BY <2>1 DEF TypeOK
  <2> QED
    BY <2>1, <2>3, <2>4, <2>8, <2>9, <2>10, HistoryKeeps DEF Kept
<1>2. CASE RescheduleFails(p) \/ Die(p)
  <2>1. /\ faults' = faults + 1 /\ UNCHANGED <<row, sent, refusals>>
        /\ \E rest \in SUBSET batch[p] : Proceed(p, rest)
    BY <1>2 DEF RescheduleFails, Die
  <2>2. /\ phase' \in [Polls -> {"idle", "polling", "sent", "refused"}]
        /\ batch' \in [Polls -> SUBSET Claimed]
        /\ item' \in [Polls -> Claimed \cup {NoItem}]
        /\ phase'[p] \notin {"sent", "refused"} /\ batch'[p] \subseteq batch[p]
        /\ \A q \in Polls : q # p => /\ phase'[q] = phase[q]
                                    /\ batch'[q] = batch[q] /\ item'[q] = item[q]
    BY <2>1, ProceedKeeps
  <2>3. TypeOK'
    BY <2>1, <2>2 DEF TypeOK
  <2>4. Remembered' /\ Fenced'
    BY <2>1, <2>2 DEF Remembered, Fenced
  <2>5. (PublishedWasDelivered /\ GivenUpAfterRetries /\ Waiting)' /\ Settled
    <3>1. \A e \in Events : row[e].retry \in Nat
      BY DEF TypeOK, Row
    <3> QED
      BY <2>1, <3>1 DEF PublishedWasDelivered, GivenUpAfterRetries, Waiting, Settled
  <2> QED
    BY <2>3, <2>4, <2>5 DEF Kept
<1> QED
  BY <1>1, <1>2

-----------------------------------------------------------------------------
(* Every step keeps the invariant and the outcomes of fenced rows.         *)
LEMMA StepKeeps == Inv /\ Known /\ [Next]_vars => Kept
<1> SUFFICES ASSUME Inv, Known, [Next]_vars PROVE Kept
  OBVIOUS
<1>1. CASE UNCHANGED vars
  <2>1. \A e \in Events : row[e].retry \in Nat
    BY OutboxAssumption DEF Inv, TypeOK, Row
  <2> QED
    BY <1>1, <2>1
       DEF Inv, Kept, Settled, vars, pollVars, TypeOK, PublishedWasDelivered,
           GivenUpAfterRetries, Remembered, Waiting, Fenced
<1>2. CASE \E e \in Events : \/ \E lane \in Lanes : Publish(e, lane)
                             \/ LeaseEnds(e) \/ BackoffEnds(e)
  BY <1>2, PublishKeeps, TimeKeeps
<1>3. CASE \E p \in Polls : \/ \E lane \in Lanes : Claim(p, lane)
                            \/ \E h \in batch[p] : Deliver(p, h)
  BY <1>3, ClaimKeeps, DeliverKeeps
<1>4. CASE \E p \in Polls : \/ Confirm(p) \/ ConfirmFails(p)
                            \/ Reschedule(p) \/ RescheduleFails(p) \/ Die(p)
  BY <1>4, ConfirmKeeps, RescheduleKeeps, FaultKeeps
<1> QED
  BY <1>1, <1>2, <1>3, <1>4 DEF Next

-----------------------------------------------------------------------------
(* The refinement: what a poll writes is a step of the promise, or none.   *)
Outcomes == [e \in Events |-> row[e].status]
LanesOf == [e \in Events |-> row[e].lane]

PromiseStep == [Fate!Next]_<<Outcomes, LanesOf, sent, refusals>>

(* The outcome of one row is written, its lane stays.                      *)
Rewritten(e, result) ==
  /\ Outcomes' = [Outcomes EXCEPT ![e] = result]
  /\ LanesOf' = LanesOf
  /\ UNCHANGED <<sent, refusals>>

Unheard == UNCHANGED <<Outcomes, LanesOf, sent, refusals>>

WrittenStays == \A e \in Events : row[e].status # "NONE" => row'[e].status # "NONE"

(* A poll that moves on takes no row on, and rows once written stay so.    *)
LEMMA MovingOnIsKnown ==
  ASSUME Inv, Known, NEW p \in Polls, WrittenStays,
         batch'[p] \subseteq batch[p],
         phase'[p] \in {"sent", "refused"} =>
           \/ phase[p] \in {"sent", "refused"} /\ item'[p] = item[p]
           \/ item'[p] \in batch[p],
         \A q \in Polls \ {p} : /\ phase'[q] = phase[q]
                                /\ batch'[q] = batch[q] /\ item'[q] = item[q]
  PROVE  Known'
<1> SUFFICES ASSUME NEW q \in Polls
             PROVE  /\ \A h \in batch'[q] : row'[h.event].status # "NONE"
                    /\ phase'[q] \in {"sent", "refused"} => row'[item'[q].event].status # "NONE"
  BY DEF Known
<1>1. /\ \A h \in batch[q] : h.event \in Events /\ row[h.event].status # "NONE"
      /\ phase[q] \in {"sent", "refused"} =>
           item[q].event \in Events /\ row[item[q].event].status # "NONE"
  BY DEF Known, Inv, TypeOK, Claimed
<1>2. CASE q = p
  BY <1>1, <1>2 DEF WrittenStays
<1>3. CASE q # p
  BY <1>1, <1>3 DEF WrittenStays
<1> QED
  BY <1>2, <1>3

(* What a poll writes: nothing, or the outcome of the row it is at.        *)
LEMMA WriteIsSeen ==
  ASSUME Inv, NEW p \in Polls, item[p].event \in Events, NEW status, NEW retry, NEW due,
         Write(p, status, retry, due), UNCHANGED <<sent, refusals>>
  PROVE  IF Owns(p) THEN Rewritten(item[p].event, status) ELSE Unheard
<1> DEFINE e == item[p].event
           r == [status |-> status, lane |-> row[e].lane, retry |-> retry, due |-> due,
                 holder |-> Nobody, leased |-> FALSE]
<1>1. row' = IF Owns(p) THEN [row EXCEPT ![e] = r] ELSE row
  BY DEF Write
<1>2. r.status = status /\ r.lane = row[e].lane
  OBVIOUS
<1> HIDE DEF r
<1>3. CASE Owns(p)
  <2>1. \A d \in Events : /\ row'[d].lane = row[d].lane
                          /\ row'[d].status = IF d = e THEN status ELSE row[d].status
    BY <1>1, <1>2, <1>3 DEF Inv, TypeOK
  <2> QED
    BY <1>3, <2>1 DEF Rewritten, Outcomes, LanesOf
<1>4. CASE ~Owns(p)
  BY <1>1, <1>4 DEF Unheard, Outcomes, LanesOf
<1> QED
  BY <1>3, <1>4

(* A poll that owns a fenced row finds it pending.                         *)
LEMMA OwnedIsOpen ==
  ASSUME Inv, NEW p \in Polls, item[p].event \in Events, Owns(p)
  PROVE  LanesOf[item[p].event] = "fenced" => Outcomes[item[p].event] = "PENDING"
BY OutboxAssumption DEF Inv, Waiting, Owns, LanesOf, Outcomes

LEMMA DecisionIsPromised ==
  ASSUME Inv, Known, NEW p \in Polls, phase[p] \in {"sent", "refused"},
         NEW status \in {"PENDING"} \cup Final, NEW retry, NEW due,
         Write(p, status, retry, due), UNCHANGED <<sent, refusals>>,
         status = "PUBLISHED" => row[item[p].event].lane = "generic" \/ item[p].event \in sent,
         status = "FAILED" => refusals[item[p].event] = MaxRetries
  PROVE  PromiseStep
<1> PICK e : e = item[p].event
  OBVIOUS
<1>1. e \in Events /\ Outcomes[e] # "NONE" /\ Outcomes[e] = row[e].status
  BY DEF Inv, TypeOK, Known, Outcomes
<1>2. CASE ~Owns(p)
  BY <1>1, <1>2, WriteIsSeen DEF PromiseStep, Unheard
<1>3. CASE Owns(p)
  <2>1. Rewritten(e, status)
    BY <1>1, <1>3, WriteIsSeen
  <2>2. LanesOf[e] = "fenced" => Outcomes[e] = "PENDING"
    BY <1>1, <1>3, OwnedIsOpen
  <2>3. CASE Outcomes[e] = status
    <3>1. [Outcomes EXCEPT ![e] = status] = Outcomes
      BY <1>1, <2>3 DEF Outcomes
    <3> QED
      BY <2>1, <3>1 DEF Rewritten, PromiseStep
  <2>4. CASE Outcomes[e] # status
    <3>1. Fate!Decide(e, status)
      BY <1>1, <2>1, <2>2 DEF Rewritten, Fate!Decide, Outcomes, LanesOf
    <3>2. status = "PUBLISHED" => LanesOf[e] = "generic" \/ e \in sent
      BY <1>1 DEF LanesOf
    <3>3. Fate!Confirm(e) \/ Fate!GiveUp(e) \/ Fate!Reopen(e)
      BY <2>2, <2>4, <3>1, <3>2 DEF Final, Fate!Confirm, Fate!GiveUp, Fate!Reopen, LanesOf, Outcomes
    <3> QED
      BY <1>1, <3>3 DEF PromiseStep, Fate!Next
  <2> QED
    BY <2>3, <2>4
<1> QED
  BY <1>2, <1>3

LEMMA RefusalIsPromised ==
  ASSUME NEW e \in Events, row[e].status # "NONE", Refuse(e), UNCHANGED row,
         sent' \in {sent, sent \cup {e}}
  PROVE  PromiseStep
<1>1. Fate!Refuse(e)
  BY DEF Fate!Refuse, Refuse, Outcomes, LanesOf
<1> QED
  BY <1>1 DEF PromiseStep, Fate!Next

(* Claims and clocks write neither outcome nor lane.                       *)
LEMMA UnheardIsPromised ==
  ASSUME \A e \in Events : row'[e].status = row[e].status /\ row'[e].lane = row[e].lane,
         UNCHANGED <<sent, refusals>>
  PROVE  PromiseStep /\ WrittenStays
<1>1. Outcomes' = Outcomes /\ LanesOf' = LanesOf
  BY DEF Outcomes, LanesOf
<1> QED
  BY <1>1 DEF PromiseStep, WrittenStays

(* An event is written while its row is empty.                             *)
LEMMA PublishIsPromised ==
  ASSUME Inv, Known, NEW e \in Events, NEW l \in Lanes, Publish(e, l)
  PROVE  PromiseStep /\ Known'
<1>1. row[e].status = "NONE"
  BY DEF Publish, Events
<1>2. \A d \in Events : /\ row'[d].status = IF d = e THEN "PENDING" ELSE row[d].status
                        /\ row'[d].lane = IF d = e THEN l ELSE row[d].lane
  BY DEF Publish, Inv, TypeOK, Row
<1>3. Fate!Write(e, l)
  BY <1>1, <1>2 DEF Fate!Write, Publish, Outcomes, LanesOf
<1>4. WrittenStays /\ UNCHANGED pollVars
  <2>1. WrittenStays
    BY <1>2 DEF WrittenStays
  <2>2. UNCHANGED pollVars
    BY DEF Publish
  <2> QED
    BY <2>1, <2>2
<1>5. Known'
  BY <1>4 DEF Known, WrittenStays, pollVars, Inv, TypeOK, Claimed
<1> QED
  BY <1>3, <1>5 DEF PromiseStep, Fate!Next

(* A claim takes pending rows.                                             *)
LEMMA ClaimIsPromised ==
  ASSUME Inv, Known, NEW p \in Polls, NEW l \in Lanes, Claim(p, l)
  PROVE  PromiseStep /\ Known'
<1> DEFINE taken == Oldest({e \in Events : Claimable(e, l)})
<1>1. \A e \in taken : e \in Events /\ row[e].status = "PENDING"
  BY DEF Oldest, Claimable
<1>2. /\ phase[p] = "idle"
      /\ row' = [e \in Events |-> IF e \in taken
                                  THEN [row[e] EXCEPT !.holder = p, !.leased = TRUE]
                                  ELSE row[e]]
      /\ batch' = [batch EXCEPT ![p] = {[event |-> e, retry |-> row[e].retry] : e \in taken}]
      /\ phase' = [phase EXCEPT ![p] = "polling"]
      /\ UNCHANGED <<item, sent, refusals, faults>>
  BY DEF Claim
<1> HIDE DEF taken
<1>3. \A e \in Events : row'[e].status = row[e].status /\ row'[e].lane = row[e].lane
  <2> TAKE e \in Events
  <2>1. row[e] \in Row
    BY DEF Inv, TypeOK
  <2> QED
    BY <1>2, <2>1 DEF Row
<1>4. PromiseStep /\ WrittenStays
  BY <1>2, <1>3, UnheardIsPromised
<1>5. Known'
  <2>1. \A h \in batch'[p] : row'[h.event].status # "NONE"
    <3>1. batch'[p] = {[event |-> e, retry |-> row[e].retry] : e \in taken}
      BY <1>2 DEF Inv, TypeOK
    <3>2. \A h \in batch'[p] : h.event \in taken
      BY <3>1
    <3>3. \A e \in taken : row'[e].status # "NONE"
      BY <1>1, <1>3
    <3> QED
      BY <3>2, <3>3
  <2>2. phase'[p] \notin {"sent", "refused"}
    BY <1>2 DEF Inv, TypeOK
  <2>3. \A q \in Polls \ {p} : /\ phase'[q] = phase[q]
                               /\ batch'[q] = batch[q] /\ item'[q] = item[q]
    BY <1>2 DEF Inv, TypeOK
  <2>4. \A q \in Polls : /\ \A h \in batch[q] : h.event \in Events
                         /\ phase[q] \in {"sent", "refused"} => item[q].event \in Events
    BY DEF Inv, TypeOK, Claimed
  <2> QED
    BY <1>3, <2>1, <2>2, <2>3, <2>4 DEF Known
<1> QED
  BY <1>4, <1>5

LEMMA DeliveryIsPromised ==
  ASSUME Inv, Known, NEW p \in Polls, NEW h \in batch[p], Deliver(p, h)
  PROVE  PromiseStep /\ Known'
<1>1. h.event \in Events /\ row[h.event].status # "NONE"
  BY DEF Inv, TypeOK, Claimed, Known
<1>2. /\ UNCHANGED row /\ item'[p] = h /\ batch'[p] \subseteq batch[p]
      /\ \A q \in Polls \ {p} : /\ phase'[q] = phase[q]
                               /\ batch'[q] = batch[q] /\ item'[q] = item[q]
  BY DEF Deliver, Inv, TypeOK
<1>3. Known'
  BY <1>2, MovingOnIsKnown DEF WrittenStays
<1>4. CASE sent' = sent \cup {h.event} /\ UNCHANGED refusals
  <2>1. Fate!Deliver(h.event)
    BY <1>1, <1>2, <1>4 DEF Fate!Deliver, Outcomes, LanesOf
  <2> QED
    BY <1>1, <1>3, <2>1 DEF PromiseStep, Fate!Next
<1>5. CASE UNCHANGED <<sent, refusals>>
  BY <1>2, <1>3, <1>5, UnheardIsPromised
<1>6. CASE sent' \in {sent, sent \cup {h.event}} /\ Refuse(h.event)
  BY <1>1, <1>2, <1>3, <1>6, RefusalIsPromised
<1> QED
  BY <1>4, <1>5, <1>6 DEF Deliver, Reach

(* The end of a row: what is written was earned.                           *)
LEMMA OutcomeIsPromised ==
  ASSUME Inv, Known, NEW p \in Polls, Confirm(p) \/ Reschedule(p)
  PROVE  PromiseStep /\ Known'
<1> PICK status, retry, due :
      /\ status \in {"PENDING"} \cup Final
      /\ phase[p] \in {"sent", "refused"}
      /\ Write(p, status, retry, due)
      /\ status = "PUBLISHED" => phase[p] = "sent"
      /\ status = "FAILED" => phase[p] = "refused" /\ Exhausted(item[p].retry)
      /\ Proceed(p, batch[p]) /\ UNCHANGED <<sent, refusals, faults>>
  BY DEF Confirm, Reschedule, Final
<1>1. /\ item[p].event \in Events
      /\ item[p].retry \in 0..(MaxRetries - 1)
  BY OutboxAssumption DEF Inv, TypeOK, Claimed, NoItem
<1>2. status = "PUBLISHED" => row[item[p].event].lane = "generic" \/ item[p].event \in sent
  BY DEF Inv, Remembered
<1>3. status = "FAILED" => refusals[item[p].event] = MaxRetries
  <2>1. refusals[item[p].event] \in 0..MaxRetries
    BY <1>1 DEF Inv, TypeOK
  <2>2. phase[p] = "refused" => item[p].retry < refusals[item[p].event]
    BY DEF Inv, Remembered
  <2> QED
    BY <1>1, <2>1, <2>2, OutboxAssumption DEF Exhausted
<1>4. PromiseStep
  BY <1>2, <1>3, DecisionIsPromised
<1>5. WrittenStays
  <2>1. \A e \in Events : row'[e].status \in {row[e].status, status}
    BY <1>1 DEF Write, Inv, TypeOK
  <2> QED
    BY <2>1 DEF WrittenStays, Final
<1>6. /\ phase'[p] \notin {"sent", "refused"} /\ batch'[p] \subseteq batch[p]
      /\ \A q \in Polls \ {p} : /\ phase'[q] = phase[q]
                               /\ batch'[q] = batch[q] /\ item'[q] = item[q]
  BY ProceedKeeps
<1>7. Known'
  BY <1>5, <1>6, MovingOnIsKnown
<1> QED
  BY <1>4, <1>7

(* A fault writes no row.                                                  *)
LEMMA FaultIsPromised ==
  ASSUME Inv, Known, NEW p \in Polls, ConfirmFails(p) \/ RescheduleFails(p) \/ Die(p)
  PROVE  PromiseStep /\ Known'
<1>1. UNCHANGED <<row, sent>>
  BY DEF ConfirmFails, RescheduleFails, Die
<1>2. CASE ConfirmFails(p)
  <2>1. item[p].event \in Events /\ row[item[p].event].status # "NONE"
    BY <1>2 DEF ConfirmFails, Inv, TypeOK, Known
  <2>2. PromiseStep
    BY <1>1, <1>2, <2>1, RefusalIsPromised DEF ConfirmFails
  <2>3. /\ UNCHANGED <<batch, item>> /\ phase[p] = "sent"
        /\ \A q \in Polls \ {p} : phase'[q] = phase[q]
    BY <1>2 DEF ConfirmFails, Inv, TypeOK
  <2>4. Known'
    BY <1>1, <2>3, MovingOnIsKnown DEF WrittenStays
  <2> QED
    BY <2>2, <2>4
<1>3. CASE RescheduleFails(p) \/ Die(p)
  <2>1. UNCHANGED refusals /\ \E rest \in SUBSET batch[p] : Proceed(p, rest)
    BY <1>3 DEF RescheduleFails, Die
  <2>2. PromiseStep /\ WrittenStays
    BY <1>1, <2>1, UnheardIsPromised
  <2>3. /\ phase'[p] \notin {"sent", "refused"} /\ batch'[p] \subseteq batch[p]
        /\ \A q \in Polls \ {p} : /\ phase'[q] = phase[q]
                                 /\ batch'[q] = batch[q] /\ item'[q] = item[q]
    BY <2>1, ProceedKeeps
  <2> QED
    BY <2>2, <2>3, MovingOnIsKnown
<1> QED
  BY <1>2, <1>3

LEMMA StepIsPromised == Inv /\ Known /\ [Next]_vars => PromiseStep /\ Known'
<1> SUFFICES ASSUME Inv, Known, [Next]_vars PROVE PromiseStep /\ Known'
  OBVIOUS
<1>1. ASSUME UNCHANGED pollVars, UNCHANGED <<sent, refusals>>,
             \A e \in Events : row'[e].status = row[e].status /\ row'[e].lane = row[e].lane
      PROVE  PromiseStep /\ Known'
  <2>1. \A q \in Polls : /\ \A h \in batch[q] : h.event \in Events
                         /\ phase[q] \in {"sent", "refused"} => item[q].event \in Events
    BY DEF Inv, TypeOK, Claimed
  <2> QED
    BY <1>1, <2>1, UnheardIsPromised DEF Known, pollVars
<1>2. ASSUME NEW e \in Events, LeaseEnds(e) \/ BackoffEnds(e) PROVE PromiseStep /\ Known'
  <2>1. \A d \in Events : row'[d].status = row[d].status /\ row'[d].lane = row[d].lane
    <3> SUFFICES ASSUME NEW d \in Events
                 PROVE  row'[d].status = row[d].status /\ row'[d].lane = row[d].lane
      OBVIOUS
    <3>1. row \in [Events -> Row]
      BY DEF Inv, TypeOK
    <3>2. CASE LeaseEnds(e)
      BY <3>1, <3>2, SMTT(30) DEF LeaseEnds, Row
    <3>3. CASE BackoffEnds(e)
      BY <3>1, <3>3, SMTT(30) DEF BackoffEnds, Row
    <3> QED
      BY <1>2, <3>2, <3>3
  <2>2. UNCHANGED pollVars /\ UNCHANGED <<sent, refusals>>
    BY <1>2 DEF LeaseEnds, BackoffEnds
  <2> QED
    BY <1>1, <2>1, <2>2
<1>3. CASE \E e \in Events, l \in Lanes : Publish(e, l)
  BY <1>3, PublishIsPromised
<1>4. CASE \E p \in Polls, l \in Lanes : Claim(p, l)
  BY <1>4, ClaimIsPromised
<1>5. CASE \E p \in Polls : \E h \in batch[p] : Deliver(p, h)
  BY <1>5, DeliveryIsPromised
<1>6. CASE \E p \in Polls : Confirm(p) \/ Reschedule(p)
  BY <1>6, OutcomeIsPromised
<1>7. CASE \E p \in Polls : ConfirmFails(p) \/ RescheduleFails(p) \/ Die(p)
  BY <1>7, FaultIsPromised
<1>8. CASE UNCHANGED vars
  <2>1. UNCHANGED pollVars /\ UNCHANGED <<sent, refusals>> /\ row' = row
    BY <1>8 DEF vars, pollVars
  <2>2. \A e \in Events : row'[e].status = row[e].status /\ row'[e].lane = row[e].lane
    BY <2>1
  <2> QED
    BY <1>1, <2>1, <2>2
<1> QED
  BY <1>2, <1>3, <1>4, <1>5, <1>6, <1>7, <1>8 DEF Next

(* Inv and Known hold together: each step needs both.                      *)
LEMMA AlwaysInductive == Spec => [](Inv /\ Known)
<1>1. Init => Known
  BY DEF Init, Known, Unwritten
<1>2. Inv /\ Known /\ [Next]_vars => Inv' /\ Known'
  BY StepKeeps, StepIsPromised DEF Kept
<1> QED
  BY <1>1, <1>2, InvAtFirst, PTL DEF Spec

(* Every row and every poll stays within its type (claimBatch, dispatch).  *)
THEOREM OutboxTypes == Spec => []TypeOK
<1>1. Inv => TypeOK
  BY DEF Inv
<1> QED
  BY <1>1, AlwaysInductive, PTL

(* Whatever stale polls write: in the lanes that await Inngest a published *)
(* event was delivered, and in every lane an event is given up only after  *)
(* MaxRetries failed attempts (markPublished, markRetry).                  *)
THEOREM OutcomesAreEarned == Spec => [](PublishedWasDelivered /\ GivenUpAfterRetries)
<1>1. Inv => PublishedWasDelivered /\ GivenUpAfterRetries
  BY DEF Inv
<1> QED
  BY <1>1, AlwaysInductive, PTL

(* The compare-and-swap on lockToken makes the outcome of a fenced row     *)
(* final and its retry count monotone (markPublished, markRetry).          *)
THEOREM FencedRowsAreFinal == Spec => FencedOutcomeIsFinal /\ FencedRetriesGrow
<1>1. Inv /\ Known /\ [Next]_vars =>
        [\A e \in Events : row[e].lane = "fenced" /\ row[e].status \in Final
                           => row'[e].status = row[e].status]_vars
  BY StepKeeps DEF Kept, Settled
<1>2. Inv /\ Known /\ [Next]_vars =>
        [\A e \in Events : row[e].lane = "fenced" => row'[e].retry >= row[e].retry]_vars
  BY StepKeeps DEF Kept, Settled
<1> QED
  BY <1>1, <1>2, AlwaysInductive, PTL DEF Spec, FencedOutcomeIsFinal, FencedRetriesGrow

(* Polls that overlap, die, come too late or fail to write are invisible   *)
(* to an event: it goes through what EventPromise allows (dispatch, and    *)
(* markPublished and markRetry of the pollers).                            *)
THEOREM EventsKeepPromise == Spec => DeliveredAsPromised
<1>1. Init => Fate!Init
  BY DEF Init, Fate!Init, Unwritten
<1>2. Inv /\ Known /\ [Next]_vars => [Fate!Next]_Fate!vars
  BY StepIsPromised DEF PromiseStep, Outcomes, LanesOf, Fate!vars
<1> QED
  BY <1>1, <1>2, AlwaysInductive, PTL DEF Spec, DeliveredAsPromised, Fate!Spec

-----------------------------------------------------------------------------
AlertTypes ==
  /\ DOMAIN alerted = Promos
  /\ published \in [Promos -> [Dates -> Nat]]
  /\ deletions \in [Promos -> Nat]

(* An end date that is not among the alerted ones was announced at most    *)
(* once per deletion, one that is among them at most once more.            *)
AnnouncedIsAlerted ==
  \A p \in Promos, d \in Dates :
    /\ published[p][d] <= 1 + deletions[p]
    /\ d \notin alerted[p] => published[p][d] <= deletions[p]

IInv == AlertTypes /\ AnnouncedIsAlerted

-----------------------------------------------------------------------------
(* Counting one value more leaves a function of counts one.                *)
LEMMA CountUp ==
  ASSUME NEW D, NEW f \in [D -> Nat], NEW d
  PROVE  [f EXCEPT ![d] = @ + 1] \in [D -> Nat]
<1> DEFINE g == [f EXCEPT ![d] = @ + 1]
<1>1. ASSUME NEW x \in D PROVE g[x] \in Nat
  <2>1. f[x] \in Nat
    OBVIOUS
  <2>2. CASE x = d
    BY <2>1, <2>2
  <2>3. CASE x # d
    BY <2>1, <2>3
  <2> QED BY <2>2, <2>3
<1>2. g = [x \in D |-> g[x]]
  OBVIOUS
<1> HIDE DEF g
<1>3. g \in [D -> Nat]
  BY <1>1, <1>2
<1> QED BY <1>3 DEF g

(* A claim announces the end date at hand, if it is due and not alerted.   *)
LEMMA ClaimAnnounces ==
  ASSUME IInv, NEW p, ClaimAlert(p), UNCHANGED deletions
  PROVE  IInv'
<1>1. CASE UNCHANGED <<alerted, published>>
  BY <1>1 DEF IInv, AlertTypes, AnnouncedIsAlerted
<1>2. CASE ~UNCHANGED <<alerted, published>>
  <2> DEFINE d == promo[p].entity.end
  <2>1. /\ d \notin alerted[p]
        /\ alerted' = [alerted EXCEPT ![p] = @ \cup {d}]
        /\ published' = [published EXCEPT ![p][d] = @ + 1]
    BY <1>2 DEF ClaimAlert, Flipped, alertVars
  <2>2. AlertTypes'
    <3>1. ASSUME NEW q \in Promos PROVE published'[q] \in [Dates -> Nat]
      <4>1. published[q] \in [Dates -> Nat]
        BY DEF IInv, AlertTypes
      <4>2. CASE q # p
        BY <2>1, <4>1, <4>2 DEF IInv, AlertTypes
      <4>3. CASE q = p
        <5>1. published'[q] = [published[q] EXCEPT ![d] = @ + 1]
          BY <2>1, <4>3 DEF IInv, AlertTypes
        <5> QED BY <4>1, <5>1, CountUp
      <4> QED BY <4>2, <4>3
    <3>2. published' \in [Promos -> [Dates -> Nat]]
      <4>1. DOMAIN published' = Promos /\ published' = [q \in DOMAIN published' |-> published'[q]]
        BY <2>1 DEF IInv, AlertTypes
      <4> QED BY <3>1, <4>1
    <3> QED BY <2>1, <3>2 DEF IInv, AlertTypes
  <2>3. ASSUME NEW q \in Promos, NEW e \in Dates
        PROVE  /\ published'[q][e] <= 1 + deletions'[q]
               /\ e \notin alerted'[q] => published'[q][e] <= deletions'[q]
    <3>1. /\ published[q][e] \in Nat /\ deletions[q] \in Nat
          /\ published[q][e] <= 1 + deletions[q]
          /\ e \notin alerted[q] => published[q][e] <= deletions[q]
      BY DEF IInv, AlertTypes, AnnouncedIsAlerted
    <3>2. CASE q = p /\ e = d
      <4>1. published'[q][e] = published[q][e] + 1 /\ e \in alerted'[q]
        BY <2>1, <3>2 DEF IInv, AlertTypes
      <4>2. published[q][e] <= deletions[q]
        BY <2>1, <3>1, <3>2
      <4> QED BY <3>1, <4>1, <4>2
    <3>3. CASE ~(q = p /\ e = d)
      <4>1. published'[q][e] = published[q][e]
        BY <2>1, <3>3 DEF IInv, AlertTypes
      <4>2. e \notin alerted'[q] => e \notin alerted[q]
        BY <2>1 DEF IInv, AlertTypes
      <4> QED BY <3>1, <4>1, <4>2
    <3> QED BY <3>2, <3>3
  <2> QED BY <2>2, <2>3 DEF IInv, AnnouncedIsAlerted
<1> QED BY <1>1, <1>2

(* A deletion forgets the alerted dates and allows one more announcement.  *)
LEMMA DeleteForgets ==
  ASSUME IInv, NEW p \in Promos, Delete(p)
  PROVE  IInv'
<1>1. /\ alerted' = [alerted EXCEPT ![p] = {}]
      /\ deletions' = [deletions EXCEPT ![p] = @ + 1]
      /\ published' = published
  BY DEF Delete
<1>2. AlertTypes'
  BY <1>1 DEF IInv, AlertTypes
<1>3. ASSUME NEW q \in Promos, NEW e \in Dates
      PROVE  /\ published'[q][e] <= 1 + deletions'[q]
             /\ e \notin alerted'[q] => published'[q][e] <= deletions'[q]
  <2>1. /\ published[q][e] \in Nat /\ deletions[q] \in Nat
        /\ published[q][e] <= 1 + deletions[q]
        /\ e \notin alerted[q] => published[q][e] <= deletions[q]
    BY DEF IInv, AlertTypes, AnnouncedIsAlerted
  <2>2. CASE q = p
    BY <1>1, <2>1, <2>2 DEF IInv, AlertTypes
  <2>3. CASE q # p
    BY <1>1, <2>1, <2>3 DEF IInv, AlertTypes
  <2> QED BY <2>2, <2>3
<1> QED BY <1>2, <1>3 DEF IInv, AnnouncedIsAlerted

(* Every other step leaves the alerts alone.                               *)
LEMMA StepKeepsIInv == IInv /\ [ExpiryNext]_expiryVars => IInv'
<1> SUFFICES ASSUME IInv, [ExpiryNext]_expiryVars PROVE IInv'
  OBVIOUS
<1> USE DEF alertVars, bounds
<1>1. ASSUME UNCHANGED <<alerted, published, deletions>> PROVE IInv'
  BY <1>1 DEF IInv, AlertTypes, AnnouncedIsAlerted
<1>2. ASSUME NEW s \in Servers, ClaimNext(s) PROVE IInv'
  BY <1>2, ClaimAnnounces DEF ClaimNext
<1>3. ASSUME NEW s \in Servers, ReadBatch(s) \/ ClaimFails(s) \/ Restart(s) PROVE IInv'
  BY <1>1, <1>3 DEF ReadBatch, ClaimFails, Restart
<1>4. ASSUME NEW o \in Operators, NEW p \in Promos, NEW start, NEW end,
             ReadForUpdate(o, p, start, end) PROVE IInv'
  BY <1>1, <1>4 DEF ReadForUpdate, Begin
<1>5. ASSUME NEW o \in Operators, NEW p \in Promos,
             ReadForEnd(o, p) \/ ReadForActivate(o, p) PROVE IInv'
  BY <1>1, <1>5 DEF ReadForEnd, ReadForActivate, Begin
<1>6. ASSUME NEW o \in Operators, WriteEdit(o) PROVE IInv'
  BY <1>1, <1>6 DEF WriteEdit
<1>7. ASSUME NEW p \in Promos, Delete(p) PROVE IInv'
  BY <1>7, DeleteForgets
<1>8. CASE Tick
  BY <1>1, <1>8 DEF Tick
<1>9. CASE UNCHANGED expiryVars
  BY <1>1, <1>9 DEF expiryVars
<1> QED
  BY <1>2, <1>3, <1>4, <1>5, <1>6, <1>7, <1>8, <1>9 DEF ExpiryNext, Scan

(* However many servers scan and however its end date is edited, a         *)
(* promotion is announced at most once per end date and deletion.          *)
THEOREM AnnouncedOnce == ExpirySpec => []AlertedOnce
<1>1. ExpiryInit => IInv
  BY ExpiryAssumption DEF ExpiryInit, IInv, AlertTypes, AnnouncedIsAlerted, Dates
<1>2. IInv => AlertedOnce
  BY DEF IInv, AnnouncedIsAlerted, AlertedOnce
<1> QED
  BY <1>1, <1>2, StepKeepsIInv, PTL DEF ExpirySpec

-----------------------------------------------------------------------------
(* Only a claim announces, and what it announces is due when it does.      *)
THEOREM AnnouncedWhenDue == ExpirySpec => AlertIsCurrent
<1> USE DEF alertVars, bounds
<1> DEFINE Current ==
      \A p \in Promos, d \in Dates : published'[p][d] # published[p][d] =>
        IsDue(p) /\ promo[p].entity.end = d
<1>1. IInv /\ [ExpiryNext]_expiryVars => Current \/ UNCHANGED expiryVars
  <2> SUFFICES ASSUME IInv, ExpiryNext PROVE Current
    OBVIOUS
  <2>1. ASSUME UNCHANGED published PROVE Current
    BY <2>1
  <2>2. ASSUME NEW s \in Servers, ClaimNext(s) PROVE Current
    <3> DEFINE p == Min(scan[s].left)
    <3>1. CASE UNCHANGED published
      BY <2>1, <3>1
    <3>2. CASE ~UNCHANGED published
      <4> HIDE DEF p
      <4>1. ClaimAlert(p)
        BY <2>2 DEF ClaimNext, p
      <4>2. /\ IsDue(p)
            /\ published' = [published EXCEPT ![p][promo[p].entity.end] = @ + 1]
        BY <3>2, <4>1 DEF ClaimAlert, Eligible, IsDue
      <4> QED BY <4>2 DEF IInv, AlertTypes
    <3> QED BY <3>1, <3>2
  <2>3. ASSUME NEW s \in Servers, ReadBatch(s) \/ ClaimFails(s) \/ Restart(s) PROVE Current
    BY <2>1, <2>3 DEF ReadBatch, ClaimFails, Restart
  <2>4. ASSUME NEW o \in Operators, NEW p \in Promos, NEW start, NEW end,
               ReadForUpdate(o, p, start, end) PROVE Current
    BY <2>1, <2>4 DEF ReadForUpdate, Begin
  <2>5. ASSUME NEW o \in Operators, NEW p \in Promos,
               ReadForEnd(o, p) \/ ReadForActivate(o, p) PROVE Current
    BY <2>1, <2>5 DEF ReadForEnd, ReadForActivate, Begin
  <2>6. ASSUME NEW o \in Operators, WriteEdit(o) PROVE Current
    BY <2>1, <2>6 DEF WriteEdit
  <2>7. ASSUME NEW p \in Promos, Delete(p) PROVE Current
    BY <2>1, <2>7 DEF Delete
  <2>8. CASE Tick
    BY <2>1, <2>8 DEF Tick
  <2> HIDE DEF Current
  <2> QED
    BY <2>2, <2>3, <2>4, <2>5, <2>6, <2>7, <2>8 DEF ExpiryNext, Scan
<1>2. ExpiryInit => IInv
  BY ExpiryAssumption DEF ExpiryInit, IInv, AlertTypes, AnnouncedIsAlerted, Dates
<1> QED
  BY <1>1, <1>2, StepKeepsIInv, PTL DEF ExpirySpec, AlertIsCurrent, Current
=============================================================================
