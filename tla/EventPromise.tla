---------------------------- MODULE EventPromise ----------------------------
(***************************************************************************)
(* What the outbox promises to whoever publishes an event, without polls,  *)
(* batches, leases, tokens and faults: only written events are delivered,  *)
(* an event is given up only when it was refused as often as there is      *)
(* patience for, and what became of an event of the fenced lane stays so;  *)
(* in the other lanes it may be reopened, or decided again.  An event is   *)
(* called published only once it was delivered, but not in the generic     *)
(* lane, whose events may be published and lost.                           *)
(***************************************************************************)
EXTENDS Naturals

CONSTANTS Events, Lanes, Patience

VARIABLES
  outcome,    \* of each event
  lane,       \* that each event travels in
  delivered,  \* events that reached their listeners
  refused     \* refusals of each event, as far as there is patience

vars == <<outcome, lane, delivered, refused>>

Init ==
  /\ outcome = [e \in Events |-> "NONE"]
  /\ lane = [e \in Events |-> "generic"]
  /\ delivered = {}
  /\ refused = [e \in Events |-> 0]

Write(e, l) ==
  /\ outcome[e] = "NONE"
  /\ outcome' = [outcome EXCEPT ![e] = "PENDING"]
  /\ lane' = [lane EXCEPT ![e] = l]
  /\ UNCHANGED <<delivered, refused>>

Deliver(e) ==
  /\ outcome[e] # "NONE"
  /\ delivered' = delivered \cup {e}
  /\ UNCHANGED <<outcome, lane, refused>>

(* A refusal that is heard of may hide a delivery.                         *)
Refuse(e) ==
  /\ outcome[e] # "NONE"
  /\ refused' = [refused EXCEPT ![e] = IF @ < Patience THEN @ + 1 ELSE @]
  /\ delivered' \in {delivered, delivered \cup {e}}
  /\ UNCHANGED <<outcome, lane>>

Decide(e, result) ==
  /\ outcome[e] # "NONE"
  /\ lane[e] = "fenced" => outcome[e] = "PENDING"
  /\ outcome' = [outcome EXCEPT ![e] = result]
  /\ UNCHANGED <<lane, delivered, refused>>

Confirm(e) ==
  /\ lane[e] = "generic" \/ e \in delivered
  /\ Decide(e, "PUBLISHED")

GiveUp(e) == refused[e] = Patience /\ Decide(e, "FAILED")

Reopen(e) == lane[e] # "fenced" /\ Decide(e, "PENDING")

Next ==
  \E e \in Events :
    \/ \E l \in Lanes : Write(e, l)
    \/ Deliver(e) \/ Refuse(e)
    \/ Confirm(e) \/ GiveUp(e) \/ Reopen(e)

Spec == Init /\ [][Next]_vars
=============================================================================
