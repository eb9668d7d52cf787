------------------------------- MODULE Outbox -------------------------------
(***************************************************************************)
(* The transactional outbox.  A business transaction inserts a row of      *)
(* outbox_events; polls, of which several may run at the same time (every  *)
(* server runs its own, and a tick does not wait for the one before it),   *)
(* claim rows under a lease, deliver them and write the outcome back.      *)
(*                                                                         *)
(* Rows travel in lanes.  The generic lane (OutboxPollerService) emits     *)
(* them to the listeners of the process and waits for none of them: what   *)
(* a listener rejects is lost.  Low-stock alerts have a poller of their    *)
(* own that awaits Inngest.  The pollers of time-off requests, delivery    *)
(* routes, delivery zones, receipts and promotions do the same and         *)
(* moreover write an outcome only while the row still carries their        *)
(* token; they are the fenced lane.                                        *)
(*                                                                         *)
(* A poll stands for its lock token: a token belongs to one claim, and a   *)
(* poll that claims again has forgotten the rows of its earlier claim.     *)
(***************************************************************************)
EXTENDS Naturals, FiniteSets

CONSTANTS
  Polls,       \* polls that may run at the same time
  MaxEvents,   \* rows written, numbered in the order of their creation
  Lanes,       \* lanes in use
  BatchSize,   \* rows a poll claims at once
  MaxRetries,  \* refusals after which a row is given up
  MaxFaults,   \* bound on deaths, failed writes and leases that end too soon
  Nobody       \* no lock token

ASSUME OutboxAssumption ==
  /\ MaxEvents \in Nat /\ MaxFaults \in Nat
  /\ BatchSize \in Nat \ {0} /\ MaxRetries \in Nat \ {0}
  /\ Lanes \subseteq {"generic", "alert", "fenced"}
  /\ Nobody \notin Polls

VARIABLES
  row,       \* outbox_events
  phase,     \* what each poll awaits
  batch,     \* the rows each poll has claimed and not yet come to
  item,      \* the row each poll is at, as it was when it was claimed
  sent,      \* history: events that reached a listener or Inngest
  refusals,  \* history: failed attempts per event, up to MaxRetries
  faults     \* deaths, failed writes and leases that ended too soon

pollVars == <<phase, batch, item>>
vars == <<row, phase, batch, item, sent, refusals, faults>>

-----------------------------------------------------------------------------
Events == 1..MaxEvents
Final == {"PUBLISHED", "FAILED"}

Row == [status : {"NONE", "PENDING"} \cup Final, lane : {"generic", "alert", "fenced"},
        retry : 0..MaxRetries, due : BOOLEAN, holder : Polls \cup {Nobody},
        leased : BOOLEAN]

(* A row as a poll remembers it.                                           *)
Claimed == [event : Events, retry : 0..(MaxRetries - 1)]

Unwritten == [status |-> "NONE", lane |-> "generic", retry |-> 0, due |-> TRUE,
              holder |-> Nobody, leased |-> FALSE]
NoItem == [event |-> 0, retry |-> 0]

Init ==
  /\ row = [e \in Events |-> Unwritten]
  /\ phase = [p \in Polls |-> "idle"]
  /\ batch = [p \in Polls |-> {}]
  /\ item = [p \in Polls |-> NoItem]
  /\ sent = {}
  /\ refusals = [e \in Events |-> 0]
  /\ faults = 0

(* OutboxWriterService.publish, committed with its business transaction.   *)
Publish(e, lane) ==
  /\ \A d \in Events : row[d].status = "NONE" <=> d >= e
  /\ row' = [row EXCEPT ![e].status = "PENDING", ![e].lane = lane]
  /\ UNCHANGED <<pollVars, sent, refusals, faults>>

-----------------------------------------------------------------------------
(* Claiming *)

(* The WHERE clause of claimBatch.  leased says that lockedUntil is ahead, *)
(* due that nextAttemptAt is past.                                         *)
ClaimableOnce(e, lane) ==
  /\ row[e].status = "PENDING" /\ row[e].lane = lane
  /\ row[e].due
  /\ row[e].holder = Nobody

Claimable(e, lane) ==
  /\ row[e].status = "PENDING" /\ row[e].lane = lane
  /\ row[e].due
  /\ ~row[e].leased

(* ORDER BY createdAt LIMIT n FOR UPDATE SKIP LOCKED.                      *)
Oldest(ready) == {e \in ready : Cardinality({d \in ready : d < e}) < BatchSize}

Claim(p, lane) ==
  LET taken == Oldest({e \in Events : Claimable(e, lane)})
  IN
  /\ phase[p] = "idle"
  /\ taken # {}
  /\ row' = [e \in Events |-> IF e \in taken
                              THEN [row[e] EXCEPT !.holder = p, !.leased = TRUE]
                              ELSE row[e]]
  /\ batch' = [batch EXCEPT ![p] = {[event |-> e, retry |-> row[e].retry] : e \in taken}]
  /\ phase' = [phase EXCEPT ![p] = "polling"]
  /\ UNCHANGED <<item, sent, refusals, faults>>

(* The rows a poll still means to write.                                   *)
Held(p) == batch[p] \cup (IF phase[p] \in {"sent", "refused"} THEN {item[p]} ELSE {})

Working(e) == \E p \in Polls : row[e].holder = p /\ \E h \in Held(p) : h.event = e

(* lockedUntil goes by: it outlasts the poll's work, but for a fault.      *)
LeaseEnds(e) ==
  /\ row[e].leased
  /\ row' = [row EXCEPT ![e].leased = FALSE]
  /\ IF Working(e) THEN faults < MaxFaults /\ faults' = faults + 1
                   ELSE UNCHANGED faults
  /\ UNCHANGED <<pollVars, sent, refusals>>

(* nextAttemptAt goes by.                                                  *)
BackoffEnds(e) ==
  /\ row[e].status = "PENDING"
  /\ ~row[e].due
  /\ row' = [row EXCEPT ![e].due = TRUE]
  /\ UNCHANGED <<pollVars, sent, refusals, faults>>

-----------------------------------------------------------------------------
(* Delivering *)

Refuse(e) ==
  refusals' = [refusals EXCEPT ![e] = IF @ < MaxRetries THEN @ + 1 ELSE @]

(* The next row of the batch, or the end of the poll.                      *)
Proceed(p, rest) ==
  /\ batch' = [batch EXCEPT ![p] = rest]
  /\ phase' = [phase EXCEPT ![p] = IF rest = {} THEN "idle" ELSE "polling"]
  /\ item' = [item EXCEPT ![p] = NoItem]

(* What becomes of a poll whose delivery was refused: a rejection that is  *)
(* not awaited would look like a success.                                  *)
RefusalIgnored == "sent"

AfterRefusal == "refused"

(* Inngest has the event, or a listener does.                              *)
Reach(e) == sent' \in {sent, sent \cup {e}}

(* dispatch turns to the next row of the batch.                            *)
Deliver(p, h) ==
  /\ phase[p] = "polling"
  /\ h \in batch[p]
  /\ batch' = [batch EXCEPT ![p] = @ \ {h}]
  /\ item' = [item EXCEPT ![p] = h]
  /\ \/ (* eventEmitter.emit returns whatever becomes of the listeners. *)
        /\ row[h.event].lane = "generic"
        /\ phase' = [phase EXCEPT ![p] = "sent"]
        /\ Reach(h.event)
        /\ UNCHANGED refusals
     \/ (* InngestService.send is awaited and resolves. *)
        /\ row[h.event].lane # "generic"
        /\ phase' = [phase EXCEPT ![p] = "sent"]
        /\ sent' = sent \cup {h.event}
        /\ UNCHANGED refusals
     \/ (* It rejects, and may have reached Inngest all the same. *)
        /\ row[h.event].lane # "generic"
        /\ phase' = [phase EXCEPT ![p] = AfterRefusal]
        /\ Reach(h.event)
        /\ Refuse(h.event)
  /\ UNCHANGED <<row, faults>>

-----------------------------------------------------------------------------
(* Writing the outcome *)

(* The compare-and-swap on lockToken of the fenced dispatchers; the others *)
(* update the row by its id alone.                                         *)
OwnsBlind(p) == TRUE

Owns(p) == row[item[p].event].lane = "fenced" => row[item[p].event].holder = p

Write(p, status, retry, due) ==
  LET e == item[p].event
  IN
  row' = IF Owns(p)
         THEN [row EXCEPT ![e] = [status |-> status, lane |-> @.lane, retry |-> retry,
                                  due |-> due, holder |-> Nobody, leased |-> FALSE]]
         ELSE row

(* markPublished.                                                          *)
Confirm(p) ==
  /\ phase[p] = "sent"
  /\ Write(p, "PUBLISHED", item[p].retry, row[item[p].event].due)
  /\ Proceed(p, batch[p])
  /\ UNCHANGED <<sent, refusals, faults>>

(* The write fails; the catch block takes it for a refusal.                *)
ConfirmFails(p) ==
  /\ phase[p] = "sent"
  /\ faults < MaxFaults
  /\ faults' = faults + 1
  /\ phase' = [phase EXCEPT ![p] = "refused"]
  /\ Refuse(item[p].event)
  /\ UNCHANGED <<row, batch, item, sent>>

(* markRetry: the retry count is that of the claim, plus one.              *)
Exhausted(retry) == retry + 1 >= MaxRetries

Reschedule(p) ==
  LET retry == item[p].retry
  IN
  /\ phase[p] = "refused"
  /\ Write(p, IF Exhausted(retry) THEN "FAILED" ELSE "PENDING", retry + 1,
           row[item[p].event].lane = "generic")
  /\ Proceed(p, batch[p])
  /\ UNCHANGED <<sent, refusals, faults>>

(* This write fails too: the generic poll ends with it and leaves the rest *)
(* of its batch locked, the others go on with the next row.                *)
RescheduleFails(p) ==
  /\ phase[p] = "refused"
  /\ faults < MaxFaults
  /\ faults' = faults + 1
  /\ Proceed(p, IF row[item[p].event].lane = "generic" THEN {} ELSE batch[p])
  /\ UNCHANGED <<row, sent, refusals>>

(* The server dies, with its leases still running.                         *)
Die(p) ==
  /\ phase[p] # "idle"
  /\ faults < MaxFaults
  /\ faults' = faults + 1
  /\ Proceed(p, {})
  /\ UNCHANGED <<row, sent, refusals>>

-----------------------------------------------------------------------------
Finish(p) == Confirm(p) \/ Reschedule(p)

Next ==
  \/ \E e \in Events : \/ \E lane \in Lanes : Publish(e, lane)
                       \/ LeaseEnds(e)
                       \/ BackoffEnds(e)
  \/ \E p \in Polls : \/ \E lane \in Lanes : Claim(p, lane)
                      \/ \E h \in batch[p] : Deliver(p, h)
                      \/ Confirm(p) \/ ConfirmFails(p)
                      \/ Reschedule(p) \/ RescheduleFails(p)
                      \/ Die(p)

Spec == Init /\ [][Next]_vars

(* Polls tick for ever, deliveries come to an end, clocks run.             *)
Fairness ==
  /\ \A e \in Events : WF_vars(LeaseEnds(e)) /\ WF_vars(BackoffEnds(e))
  /\ \A lane \in Lanes : WF_vars(\E p \in Polls : Claim(p, lane))
  /\ \A p \in Polls : WF_vars(Finish(p) \/ \E h \in batch[p] : Deliver(p, h))

FairSpec == Spec /\ Fairness

-----------------------------------------------------------------------------
(* Every row and every poll holds the values it can hold; a row that waits *)
(* for an attempt, in the table or in a batch, has attempts left.          *)
TypeOK ==
  /\ row \in [Events -> Row]
  /\ phase \in [Polls -> {"idle", "polling", "sent", "refused"}]
  /\ batch \in [Polls -> SUBSET Claimed]
  /\ item \in [Polls -> Claimed \cup {NoItem}]
  /\ \A p \in Polls : phase[p] \in {"sent", "refused"} => item[p].event \in Events
  /\ sent \subseteq Events
  /\ refusals \in [Events -> 0..MaxRetries]
  /\ faults \in Nat

(* In the lanes whose poller awaits Inngest, an event marked PUBLISHED was *)
(* delivered, though nothing ties the delivery and the mark together       *)
(* (dispatch).  The generic lane promises nothing of the kind: the         *)
(* rejection of a listener is swallowed with the row already PUBLISHED.    *)
PublishedWasDelivered ==
  \A e \in Events :
    row[e].status = "PUBLISHED" /\ row[e].lane # "generic" => e \in sent

(* However stale the count a poll writes back, an event is given up only   *)
(* after MaxRetries refusals of its own (markRetry).                       *)
GivenUpAfterRetries ==
  \A e \in Events : /\ row[e].retry <= refusals[e]
                    /\ row[e].status = "FAILED" => refusals[e] = MaxRetries

(* The outcome of a fenced row is written once: a poll whose lease was     *)
(* taken over can neither reopen nor overrule it.                          *)
FencedOutcomeIsFinal ==
  [][\A e \in Events : row[e].lane = "fenced" /\ row[e].status \in Final
                         => row'[e].status = row[e].status]_vars

(* The count of a fenced row never goes back: what its holder read when it *)
(* claimed the row is still what the row says.                             *)
FencedRetriesGrow ==
  [][\A e \in Events : row[e].lane = "fenced" => row'[e].retry >= row[e].retry]_vars

(* Polls, batches, leases and tokens are the means; the end is what an     *)
(* event is promised (EventPromise).                                       *)
Fate == INSTANCE EventPromise
  WITH outcome <- [e \in Events |-> row[e].status], lane <- [e \in Events |-> row[e].lane],
       delivered <- sent, refused <- refusals, Patience <- MaxRetries

DeliveredAsPromised == Fate!Spec

(* Every event is in the end published or given up for good, in every      *)
(* lane, whatever stale polls write, once the faults are over.             *)
EveryEventSettles ==
  \A e \in Events : row[e].status = "PENDING" ~> [](row[e].status \in Final)

(* "On resolve the dispatcher marks each row PUBLISHED exactly once": an   *)
(* alert that was published is not marked otherwise again.                 *)
AlertPublishedOnce ==
  [][\A e \in Events : row[e].lane = "alert" /\ row[e].status = "PUBLISHED"
                         => row'[e].status = "PUBLISHED"]_vars
=============================================================================
