------------------------------ MODULE AgentRun ------------------------------
(***************************************************************************)
(* The runs of one session, one after another: the promise of              *)
(* agent/manager.ts around a docker client, the registry /steer and /stop  *)
(* look into (agent/active-run-registry.ts), and the runner inside the     *)
(* container (sandbox/agent-runner.ts, sandbox/steering.ts).               *)
(*                                                                         *)
(* Host and runner talk over two ordered pipes.  Killing the docker client *)
(* closes them; the container lives on until docker kill has stopped it.   *)
(* The next run of the session starts once the promise of the one before   *)
(* has settled, which is all the ledger waits for (see Poller).            *)
(***************************************************************************)
EXTENDS Naturals, Sequences, SequencesExt

CONSTANTS
  MaxRuns,     \* bound: runs of the session
  Steers,      \* /steer instructions
  MaxMishaps   \* bound: cancellations, failing calls and deaths of runners

ASSUME RunAssumption == {MaxRuns, MaxMishaps} \subseteq Nat

Runs == 1 .. MaxRuns

VARIABLES
  host,      \* the variables of sendMessage's promise
  runner,    \* the container
  out, into, \* stderr and stdin of the docker client
  registry,  \* the run in activeRuns, 0 if none
  steer,     \* the instructions, on both sides
  stop,      \* stop[r]: how the /stop of run r stands
  mishaps

vars == <<host, runner, out, into, registry, steer, stop, mishaps>>

NoHost == [client |-> "none", ready |-> "no", sent |-> FALSE, closed |-> FALSE,
           cleanup |-> FALSE, finished |-> FALSE, stopRequested |-> FALSE,
           killing |-> "no", outcome |-> "none"]
NoRunner == [stage |-> "none", announced |-> FALSE, attached |-> FALSE,
             closed |-> FALSE, aborting |-> FALSE, exit |-> "none"]
NoSteer == [run |-> 0, asked |-> "no", runner |-> "no"]

Init ==
  /\ host = [r \in Runs |-> NoHost]
  /\ runner = [r \in Runs |-> NoRunner]
  /\ out = [r \in Runs |-> <<>>] /\ into = [r \in Runs |-> <<>>]
  /\ registry = 0
  /\ steer = [q \in Steers |-> NoSteer]
  /\ stop = [r \in Runs |-> "no"]
  /\ mishaps = 0

Settled(r) == host[r].outcome # "none"
Alive(r) == runner[r].stage \notin {"none", "gone"}
Mishap == mishaps < MaxMishaps /\ mishaps' = mishaps + 1

-----------------------------------------------------------------------------
(* agent/manager.ts: what several handlers do *)

(* Mutant: the channel closes without an answer to what waits. *)
MutantFailed(r) == steer

(* closeControlChannel: what waits for an acknowledgement fails. *)
Failed(r) ==
  [q \in Steers |-> IF steer[q].run = r /\ steer[q].asked = "pending"
                    THEN [steer[q] EXCEPT !.asked = "failed"] ELSE steer[q]]

(* unregisterActiveRun *)
Unregister(r) == registry' = IF registry = r THEN 0 ELSE registry

(* cleanupActiveRunControl, with h as the other changes to the promise *)
CloseControl(r, h) ==
  /\ host' = [host EXCEPT ![r] = [h EXCEPT !.closed = TRUE, !.finished = TRUE]]
  /\ steer' = Failed(r)
  /\ Unregister(r)

(* Once the docker client is killed, nothing more gets through. *)
KillClient(h) == [h EXCEPT !.client = "killed"]

-----------------------------------------------------------------------------
(* agent/manager.ts: the promise *)

Start(r) ==
  /\ host[r].client = "none" /\ \A k \in 1 .. r - 1 : Settled(k)
  /\ host' = [host EXCEPT ![r].client = "open"]
  /\ runner' = [runner EXCEPT ![r].stage = "booting"]
  /\ UNCHANGED <<out, into, registry, steer, stop, mishaps>>

(* proc 'error': there is no client. *)
SpawnError(r) ==
  /\ host[r].client = "open" /\ runner[r].stage = "booting" /\ ~host[r].cleanup
  /\ Mishap
  /\ CloseControl(r, [host[r] EXCEPT !.client = "killed", !.cleanup = TRUE,
                                     !.outcome = "failed"])
  /\ runner' = [runner EXCEPT ![r].stage = "gone"]
  /\ UNCHANGED <<out, into, stop>>

(* AGENT_ACTIVE_MARKER counts only while the control channel is open. *)
MayRegister(r) == ~host[r].closed

(* processStderrLine *)
ReadLine(r) ==
  /\ out[r] # <<>>
  /\ out' = [out EXCEPT ![r] = Tail(@)]
  /\ LET line == Head(out[r]) IN
     \/ /\ line.type = "ready"
        /\ host' = [host EXCEPT ![r].ready = "marking"]
        /\ UNCHANGED <<registry, steer>>
     \/ /\ line.type = "active" /\ MayRegister(r)
        /\ IF registry = 0 THEN registry' = r /\ UNCHANGED <<host, steer>>
                           ELSE CloseControl(r, host[r])
     \/ /\ line.type = "active" /\ ~MayRegister(r)
        /\ UNCHANGED <<host, registry, steer>>
     \/ /\ line.type = "ack"
        /\ steer' = [steer EXCEPT ![line.steer].asked =
                       IF @ # "pending" THEN @
                       ELSE IF line.accepted THEN "accepted" ELSE "refused"]
        /\ UNCHANGED <<host, registry>>
     \/ /\ line.type = "complete"
        /\ CloseControl(r, host[r])
  /\ UNCHANGED <<runner, into, stop, mishaps>>

(* onContainerStarted has marked the row as running: the payload is sent. *)
Marked(r) ==
  /\ host[r].ready = "marking"
  /\ IF host[r].cleanup THEN /\ host' = [host EXCEPT ![r].ready = "dropped"]
                             /\ UNCHANGED into
     ELSE /\ host' = [host EXCEPT ![r].ready = "yes", ![r].sent = TRUE]
          /\ into' = [into EXCEPT ![r] = Append(@, [type |-> "payload"])]
  /\ UNCHANGED <<runner, out, registry, steer, stop, mishaps>>

(* It could not be marked: the run is given up. *)
MarkFails(r) ==
  /\ host[r].ready = "marking" /\ Mishap
  /\ IF host[r].cleanup THEN /\ host' = [host EXCEPT ![r].ready = "dropped"]
                             /\ UNCHANGED <<registry, steer>>
     ELSE CloseControl(r, [KillClient(host[r]) EXCEPT
                             !.ready = "dropped", !.cleanup = TRUE, !.killing = "start"])
  /\ UNCHANGED <<runner, out, into, stop>>

(* agentTimeoutMs: the control channel stays open until docker kill is done. *)
Timeout(r) ==
  /\ host[r].client # "none" /\ ~host[r].cleanup
  /\ host' = [host EXCEPT ![r] = [KillClient(@) EXCEPT !.cleanup = TRUE,
                                                       !.killing = "timeout"]]
  /\ UNCHANGED <<runner, out, into, registry, steer, stop, mishaps>>

(* cancelActiveRun: the poller's signal, when its lease is lost *)
Cancel(r) ==
  /\ host[r].client # "none" /\ ~host[r].cleanup /\ Mishap
  /\ CloseControl(r, [KillClient(host[r]) EXCEPT !.cleanup = TRUE,
                                                 !.killing = "cancel"])
  /\ UNCHANGED <<runner, out, into, stop>>

Stopped(r) == [runner EXCEPT ![r].stage = "gone"]

(* stopContainer is through, and the promise rejects: to be tried again,   *)
(* or for good if the container could not be stopped.                      *)
Reap(r) ==
  /\ host[r].killing # "no" /\ ~Settled(r)
  /\ \/ /\ CloseControl(r, [host[r] EXCEPT !.outcome =
                              IF host[r].killing = "start" THEN "failed" ELSE "retry"])
        /\ runner' = Stopped(r)
        /\ UNCHANGED mishaps
     \/ /\ Mishap
        /\ CloseControl(r, [host[r] EXCEPT !.outcome = "failed"])
        /\ UNCHANGED runner
  /\ UNCHANGED <<out, into, stop>>

(* Mutant: a run that ended well is a success, stop or not. *)
MutantVerdict(r) ==
  IF host[r].ready # "yes" \/ host[r].client = "killed" THEN "retry"
  ELSE IF runner[r].exit = "agent-error" THEN "failed" ELSE runner[r].exit

(* How a closed run settles.  A client that was killed has no exit code.   *)
Verdict(r) ==
  IF host[r].ready # "yes" THEN "retry"
  ELSE IF host[r].stopRequested THEN "failed"
  ELSE IF host[r].client = "killed" THEN "retry"
  ELSE IF runner[r].exit = "agent-error" THEN "failed" ELSE runner[r].exit

(* 'close': the client has ended and all its output is read. *)
Close(r) ==
  /\ host[r].client # "none" /\ out[r] = <<>>
  /\ host[r].client = "killed" \/ runner[r].stage = "gone"
  /\ ~host[r].cleanup
  /\ CloseControl(r, [host[r] EXCEPT !.cleanup = TRUE, !.outcome = Verdict(r)])
  /\ UNCHANGED <<runner, out, into, stop, mishaps>>

(* The write of the payload fails: the runner was gone before it read it.  *)
PayloadLost(r) ==
  /\ into[r] # <<>> /\ Head(into[r]).type = "payload"
  /\ host[r].client = "killed" \/ runner[r].stage = "gone"
  /\ ~host[r].cleanup
  /\ CloseControl(r, [host[r] EXCEPT !.cleanup = TRUE, !.outcome = "failed"])
  /\ UNCHANGED <<runner, out, into, stop, mishaps>>

(* stdin 'error' after the payload: steering is over, the run is not. *)
BrokenPipe(r) ==
  /\ host[r].client # "none" /\ ~host[r].cleanup /\ host[r].sent /\ ~host[r].closed
  /\ host[r].client = "killed" \/ runner[r].stage = "gone"
  /\ host' = [host EXCEPT ![r].closed = TRUE]
  /\ steer' = Failed(r)
  /\ UNCHANGED <<runner, out, into, registry, stop, mishaps>>

-----------------------------------------------------------------------------
(* application/discord-command-service.ts: /steer and /stop *)

Written(r, line) ==
  IF host[r].client = "open" /\ Alive(r) THEN [into EXCEPT ![r] = Append(@, line)]
  ELSE into

(* sendControl of the registered run *)
Steer(q) ==
  /\ steer[q].asked = "no" /\ registry # 0
  /\ LET r == registry IN
     IF host[r].closed \/ ~host[r].sent
     THEN steer' = [steer EXCEPT ![q].asked = "refused"] /\ UNCHANGED into
     ELSE /\ steer' = [steer EXCEPT ![q] = [@ EXCEPT !.run = r, !.asked = "pending"]]
          /\ into' = Written(r, [type |-> "steer", steer |-> q])
  /\ UNCHANGED <<host, runner, out, registry, stop, mishaps>>

(* stopActiveRun; a second /stop joins the first. *)
Stop ==
  /\ registry # 0 /\ stop[registry] = "no"
  /\ stop' = [stop EXCEPT ![registry] = "grace"]
  /\ host' = [host EXCEPT ![registry].stopRequested = TRUE]
  /\ into' = Written(registry, [type |-> "abort"])
  /\ UNCHANGED <<runner, out, registry, steer, mishaps>>

(* stopCurrentRun *)
StopCooperative(r) ==
  /\ stop[r] = "grace" /\ host[r].finished
  /\ stop' = [stop EXCEPT ![r] = "aborted"]
  /\ UNCHANGED <<host, runner, out, into, registry, steer, mishaps>>

(* STOP_GRACE_MS is over. *)
StopHard(r) ==
  /\ stop[r] = "grace" /\ ~host[r].finished
  /\ stop' = [stop EXCEPT ![r] = "killing"]
  /\ host' = [host EXCEPT ![r] = KillClient(@)]
  /\ UNCHANGED <<runner, out, into, registry, steer, mishaps>>

StopKilled(r) ==
  /\ stop[r] = "killing"
  /\ \/ /\ stop' = [stop EXCEPT ![r] = "killed"]
        /\ runner' = Stopped(r) /\ UNCHANGED mishaps
     \/ /\ Mishap
        /\ stop' = [stop EXCEPT ![r] = "cleanup-failure"] /\ UNCHANGED runner
  /\ UNCHANGED <<host, out, into, registry, steer>>

StopAnswered(r) ==
  /\ stop[r] = "killed" /\ host[r].finished
  /\ stop' = [stop EXCEPT ![r] = "force-killed"]
  /\ UNCHANGED <<host, runner, out, into, registry, steer, mishaps>>

-----------------------------------------------------------------------------
(* sandbox/agent-runner.ts and sandbox/steering.ts *)

Says(r, line) ==
  out' = IF host[r].client = "open" THEN [out EXCEPT ![r] = Append(@, line)] ELSE out

Boot(r) ==
  /\ runner[r].stage = "booting"
  /\ runner' = [runner EXCEPT ![r].stage = "waiting"]
  /\ Says(r, [type |-> "ready"])
  /\ UNCHANGED <<host, into, registry, steer, stop, mishaps>>

(* createRunnerLineRouter: the first line is the payload; control lines    *)
(* are handled from then on.                                               *)
ReadPayload(r) ==
  /\ runner[r].stage = "waiting" /\ into[r] # <<>>
  /\ into' = [into EXCEPT ![r] = Tail(@)]
  /\ runner' = [runner EXCEPT ![r].stage = "preparing"]
  /\ UNCHANGED <<host, out, registry, steer, stop, mishaps>>

(* announceActive, for a compaction or with the agent attached *)
Announce(r) ==
  IF runner[r].announced THEN UNCHANGED out ELSE Says(r, [type |-> "active"])

Compact(r) ==
  /\ runner[r].stage = "preparing" /\ ~runner[r].announced
  /\ runner' = [runner EXCEPT ![r].announced = TRUE]
  /\ Announce(r)
  /\ UNCHANGED <<host, into, registry, steer, stop, mishaps>>

Attach(r) ==
  /\ runner[r].stage = "preparing"
  /\ runner' = [runner EXCEPT ![r] = [@ EXCEPT !.stage = "looping", !.announced = TRUE,
                                               !.attached = TRUE]]
  /\ Announce(r)
  /\ UNCHANGED <<host, into, registry, steer, stop, mishaps>>

(* The agent has run out of turns and messages; the runner waits for       *)
(* stderr to drain and for the messages still being stored, and takes      *)
(* instructions for the agent meanwhile.                                   *)
AgentEnds(r) ==
  /\ runner[r].stage = "looping"
  /\ runner' = [runner EXCEPT ![r].stage = "draining"]
  /\ UNCHANGED <<host, out, into, registry, steer, stop, mishaps>>

Working(r) == runner[r].stage \in {"preparing", "looping", "draining", "closing"}

(* SteeringController.receive up to its await *)
Control(r) ==
  /\ Working(r) /\ into[r] # <<>>
  /\ into' = [into EXCEPT ![r] = Tail(@)]
  /\ LET line == Head(into[r]) IN
     \/ /\ line.type = "abort"
        /\ runner' = [runner EXCEPT ![r].aborting = TRUE]
        /\ UNCHANGED <<out, steer>>
     \/ /\ line.type = "steer" /\ (runner[r].closed \/ ~runner[r].attached)
        /\ Says(r, [type |-> "ack", steer |-> line.steer, accepted |-> FALSE])
        /\ UNCHANGED <<runner, steer>>
     \/ /\ line.type = "steer" /\ ~runner[r].closed /\ runner[r].attached
        /\ steer' = [steer EXCEPT ![line.steer].runner = "persisting"]
        /\ UNCHANGED <<runner, out>>
  /\ UNCHANGED <<host, registry, stop, mishaps>>

(* appendMessage is through; the captured agent gets the message, whether  *)
(* it still runs, has ended ("idle") or its controller is closed ("late"), *)
(* and the host is told.                                                   *)
Persisted(q) ==
  LET r == steer[q].run IN
  /\ steer[q].runner = "persisting" /\ Working(r)
  /\ \/ /\ steer' = [steer EXCEPT ![q].runner =
                        IF runner[r].closed THEN "late"
                        ELSE IF runner[r].stage = "draining" THEN "idle" ELSE "handed"]
        /\ Says(r, [type |-> "ack", steer |-> q, accepted |-> TRUE])
        /\ UNCHANGED mishaps
     \/ /\ Mishap
        /\ steer' = [steer EXCEPT ![q].runner = "lost"]
        /\ Says(r, [type |-> "ack", steer |-> q, accepted |-> FALSE])
  /\ UNCHANGED <<host, runner, into, registry, stop>>

(* Mutant: the host is not told that the loop is over. *)
MutantLoopEnds(r) ==
  /\ runner[r].stage \in {"preparing", "draining"}
  /\ runner' = [runner EXCEPT ![r] = [@ EXCEPT !.stage = "closing", !.closed = TRUE]]
  /\ UNCHANGED <<host, out, into, registry, steer, stop, mishaps>>

(* runAgentLoop returns, with an answer or without one for an agent.  The  *)
(* controller closes before the host is told.                              *)
LoopEnds(r) ==
  /\ runner[r].stage \in {"preparing", "draining"}
  /\ runner' = [runner EXCEPT ![r] = [@ EXCEPT !.stage = "closing", !.closed = TRUE]]
  /\ Says(r, [type |-> "complete"])
  /\ UNCHANGED <<host, into, registry, steer, stop, mishaps>>

Persisting(r) == {q \in Steers : steer[q].run = r /\ steer[q].runner = "persisting"}

(* waitForPersistence, the answer, exit *)
Exit(r) ==
  /\ runner[r].stage = "closing" /\ Persisting(r) = {}
  /\ \E code \in {"completed", "agent-error"} :
       runner' = [runner EXCEPT ![r] = [@ EXCEPT !.stage = "gone", !.exit = code]]
  /\ UNCHANGED <<host, out, into, registry, steer, stop, mishaps>>

(* The runner throws (exit code 1 or 2) or is killed from outside. *)
Die(r) ==
  /\ Alive(r) /\ Mishap
  /\ \E code \in {"failed", "retry"} :
       runner' = [runner EXCEPT ![r] = [@ EXCEPT !.stage = "gone", !.exit = code]]
  /\ UNCHANGED <<host, out, into, registry, steer, stop>>

-----------------------------------------------------------------------------
HostStep(r) ==
  \/ ReadLine(r) \/ Marked(r) \/ Reap(r) \/ Close(r) \/ PayloadLost(r)
  \/ BrokenPipe(r)
  \/ StopCooperative(r) \/ StopHard(r) \/ StopKilled(r) \/ StopAnswered(r)

Mishaps(r) == SpawnError(r) \/ MarkFails(r) \/ Cancel(r) \/ Die(r)

RunnerStep(r) ==
  \/ Boot(r) \/ ReadPayload(r) \/ Compact(r) \/ Attach(r) \/ AgentEnds(r) \/ Control(r)
  \/ LoopEnds(r) \/ Exit(r)

Next ==
  \/ \E r \in Runs : Start(r) \/ HostStep(r) \/ Timeout(r) \/ Mishaps(r) \/ RunnerStep(r)
  \/ \E q \in Steers : Steer(q) \/ Persisted(q)
  \/ Stop

Spec == Init /\ [][Next]_vars
(* The event loop of the host and its timers: the run of the agent has a   *)
(* deadline, /stop has its grace period, and docker commands return.       *)
Fairness ==
  \A r \in Runs :
    /\ WF_vars(ReadLine(r)) /\ WF_vars(Marked(r)) /\ WF_vars(Reap(r))
    /\ WF_vars(Close(r)) /\ WF_vars(Timeout(r))
    /\ WF_vars(StopCooperative(r)) /\ WF_vars(StopHard(r))
    /\ WF_vars(StopKilled(r)) /\ WF_vars(StopAnswered(r))

LiveSpec == Spec /\ Fairness

-----------------------------------------------------------------------------
Outcomes == {"completed", "failed", "retry"}

(* The types of all variables. *)
TypeOK ==
  /\ \A r \in Runs :
       /\ host[r].client \in {"none", "open", "killed"}
       /\ host[r].ready \in {"no", "marking", "yes", "dropped"}
       /\ host[r].killing \in {"no", "timeout", "cancel", "start"}
       /\ host[r].outcome \in {"none"} \cup Outcomes
       /\ runner[r].stage \in {"none", "booting", "waiting", "preparing", "looping",
                               "draining", "closing", "gone"}
       /\ runner[r].exit \in {"none", "agent-error"} \cup Outcomes
       /\ stop[r] \in {"no", "grace", "aborted", "killing", "killed", "force-killed",
                       "cleanup-failure"}
  /\ registry \in 0 .. MaxRuns /\ mishaps \in 0 .. MaxMishaps
  /\ \A q \in Steers :
       /\ steer[q].run \in 0 .. MaxRuns
       /\ steer[q].asked \in {"no", "pending", "accepted", "refused", "failed"}
       /\ steer[q].runner \in {"no", "persisting", "handed", "idle", "late", "lost"}

(* An instruction Discord reports as accepted is in the session and with   *)
(* the agent of the run it was sent to, given to it before the controller  *)
(* closed: one that could not be stored, and an acknowledgement that comes *)
(* after the end of the run, count for nothing (manager.ts:1202,           *)
(* steering.ts:9-14).  The agent may have ended by then, see               *)
(* SteersReachWork.                                                        *)
SteerTruthful ==
  \A q \in Steers : steer[q].asked = "accepted" => steer[q].runner \in {"handed", "idle"}

(* agent-runner.ts:880 "Stop accepting steering before waiting for         *)
(* trajectory persistence; Agent.steer() cannot resume a completed run.":  *)
(* what is accepted reaches an agent that still runs.                      *)
SteersReachWork ==
  \A q \in Steers : steer[q].asked = "accepted" => steer[q].runner = "handed"

(* A /stop answered as done ended that run: its agent is not at work, and  *)
(* the row neither has an answer to deliver nor is tried again.  The       *)
(* exceptions are a deadline or a lost lease in the same moment, which     *)
(* reject first (manager.ts:1315, 1027, 1259).  No /stop or /steer is      *)
(* addressed to a run that has settled, and the entry of one never keeps   *)
(* the next run of the session from registering (manager.ts:1185, 1297).   *)
StopHonoured ==
  /\ registry # 0 => ~Settled(registry)
  /\ \A r \in Runs :
       stop[r] \in {"aborted", "force-killed"} /\ host[r].killing = "no" =>
         /\ runner[r].stage \notin {"preparing", "looping", "draining"}
         /\ host[r].outcome \in {"none", "failed"}

(* Nobody is left waiting: every run settles, every instruction and every  *)
(* /stop gets its answer.                                                  *)
EveryoneAnswered ==
  /\ \A r \in Runs : host[r].client # "none" ~> Settled(r)
  /\ \A q \in Steers : steer[q].asked = "pending" ~> steer[q].asked # "pending"
  /\ \A r \in Runs : stop[r] # "no" ~>
       stop[r] \in {"aborted", "force-killed", "cleanup-failure"}

=============================================================================
