------------------------- MODULE JobQueueRefinement -------------------------
(* The job ledger implements the per-session queue of SessionFifo. *)
EXTENDS JobQueue

phase ==
  [j \in Jobs |->
     CASE jobs[j].status = "absent" -> "unknown"
       [] jobs[j].status \in Waiting -> "waiting"
       [] jobs[j].status \in Claimed -> "served"
       [] OTHER -> "done"]

lane == [j \in Jobs |-> IF Unfinished(j) THEN jobs[j].session ELSE Null]

ahead ==
  [j \in Jobs |->
     IF Unfinished(j)
     THEN {k \in Jobs : /\ Unfinished(k) /\ jobs[k].session = jobs[j].session
                        /\ jobs[k].seq < jobs[j].seq}
     ELSE {}]

verdict ==
  [j \in Jobs |->
     CASE jobs[j].status = "completed" -> "answered"
       [] jobs[j].status = "dead_letter" -> "abandoned"
       [] OTHER -> "none"]

Fifo == INSTANCE SessionFifo WITH Lanes <- Sessions, NoLane <- Null

(* Whatever claims, leases, retries, admissions, promotions and restarts   *)
(* do, a session behaves as one first-in-first-out lane with final         *)
(* verdicts.                                                               *)
ImplementsSessionFifo == Fifo!Spec
=============================================================================
