-------------------------- MODULE MCBackgroundJobs --------------------------
(* Outbox and PromotionExpiry for TLC.  They share nothing, so that their   *)
(* interleaving would show nothing: the run checks each of them on its own, *)
(* beside the other one with nothing to do.                                 *)
EXTENDS Outbox, PromotionExpiry, TLC

CONSTANTS p1, p2, n1, n2, o1, o2

VARIABLE job  \* the component that runs

jobVars == <<job, vars, expiryVars>>

JobsInit ==
  /\ job \in {"outbox", "expiry"}
  /\ Init /\ ExpiryInit
  /\ job = "outbox" => \A p \in Promos : promo[p].entity.start = None /\ promo[p].entity.end = None

(* The pollers of two lanes read different rows: rows of one lane meet.    *)
OneLane ==
  \A e, d \in Events :
    "NONE" \notin {row[e].status, row[d].status} => row[e].lane = row[d].lane

(* One row sees two faults, two rows see one.                               *)
FewFaults == row[MaxEvents].status = "NONE" \/ faults < MaxFaults

JobsNext ==
  /\ \/ job = "outbox" /\ Next /\ UNCHANGED expiryVars
     \/ job = "expiry" /\ ExpiryNext /\ UNCHANGED vars
  /\ UNCHANGED job
  /\ (OneLane /\ FewFaults)'

JobsSpec ==
  /\ JobsInit /\ [][JobsNext]_jobVars
  /\ Fairness
  /\ \A s \in Servers : WF_expiryVars(Scan(s))
=============================================================================
