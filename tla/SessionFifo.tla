---------------------------- MODULE SessionFifo ----------------------------
(***************************************************************************)
(* What the queue promises its users, without tables, leases or tokens:    *)
(* every input joins one lane (its session), a lane serves its inputs one  *)
(* at a time in arrival order, service may be interrupted and taken up     *)
(* again, and an input gets one verdict, which is final.                   *)
(***************************************************************************)
CONSTANTS Jobs, Lanes, NoLane

VARIABLES
  phase,    \* where each input stands
  lane,     \* the lane of an unfinished input
  ahead,    \* the unfinished inputs that precede it in that lane
  verdict   \* how a finished input ended

vars == <<phase, lane, ahead, verdict>>

Phase == {"unknown", "waiting", "served", "done"}
Verdict == {"none", "answered", "abandoned"}

TypeOK ==
  /\ phase \in [Jobs -> Phase]
  /\ lane \in [Jobs -> Lanes \cup {NoLane}]
  /\ ahead \in [Jobs -> SUBSET Jobs]
  /\ verdict \in [Jobs -> Verdict]

Init ==
  /\ phase = [j \in Jobs |-> "unknown"]
  /\ lane = [j \in Jobs |-> NoLane]
  /\ ahead = [j \in Jobs |-> {}]
  /\ verdict = [j \in Jobs |-> "none"]

(* A new input queues up behind everything unfinished in its lane. *)
Arrive(j, l) ==
  /\ phase[j] = "unknown"
  /\ phase' = [phase EXCEPT ![j] = "waiting"]
  /\ lane' = [lane EXCEPT ![j] = l]
  /\ ahead' = [ahead EXCEPT ![j] = {k \in Jobs : lane[k] = l}]
  /\ UNCHANGED verdict

Moves ==
  {<<"waiting", "served">>, <<"served", "waiting">>,
   <<"waiting", "done">>, <<"served", "done">>}

(* Inputs start, stop or finish being served, several at once after a      *)
(* crash; whoever starts has nobody unfinished ahead.                      *)
Progress ==
  /\ phase' \in [Jobs -> Phase]
  /\ \A j \in Jobs :
       phase'[j] # phase[j] => <<phase[j], phase'[j]>> \in Moves
  /\ \A j \in Jobs :
       phase[j] # "served" /\ phase'[j] = "served"
         => \A k \in ahead[j] : phase'[k] = "done"
  /\ lane' = [j \in Jobs |-> IF phase'[j] = "done" THEN NoLane ELSE lane[j]]
  /\ ahead' = [j \in Jobs |-> IF phase'[j] = "done" THEN {}
                              ELSE {k \in ahead[j] : phase'[k] # "done"}]
  /\ verdict' \in [Jobs -> Verdict]
  /\ \A j \in Jobs :
       IF phase'[j] # phase[j] /\ phase'[j] = "done"
       THEN verdict'[j] # "none"
       ELSE verdict'[j] = verdict[j]

Next ==
  \/ \E j \in Jobs, l \in Lanes : Arrive(j, l)
  \/ Progress

Spec == Init /\ [][Next]_vars
=============================================================================
