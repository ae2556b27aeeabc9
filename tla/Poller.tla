------------------------------- MODULE Poller -------------------------------
(***************************************************************************)
(* The host process that works the job ledger: the poll loop, the workers  *)
(* of queue/poller.ts, the synchronous Bot calls of agent/bot-             *)
(* orchestration.ts, the agent containers of agent/manager.ts and the      *)
(* startup sequence of index.ts.  Every change of the ledger is a          *)
(* transaction of JobQueue.                                                *)
(*                                                                         *)
(* An agent is a container that has received its payload and works on the  *)
(* files of its session.  A container still pulling or booting has not: it *)
(* dies with the host, whose end of its stdin closes.  An agent does not:  *)
(* it runs on until the next start kills the containers it finds.          *)
(***************************************************************************)
EXTENDS Integers, FiniteSets

CONSTANTS Jobs, Sessions, Keys, ActiveOnlyKeys, MaxAttempts, MaxChunks, Null,
          MaxCrashes   \* bound on host crashes

ASSUME PollerAssumption ==
  /\ Null \notin Keys /\ Null \notin Jobs /\ Null \notin Sessions
  /\ ActiveOnlyKeys \subseteq Keys
  /\ MaxAttempts \in Nat \ {0} /\ MaxChunks \in Nat \ {0}

VARIABLES jobs, idem, deadLetters, outbox, conversations, settledBy

Q == INSTANCE JobQueue

VARIABLES
  host,     \* "down", "cleaned" (orphans killed, ledger not opened) or "up"
  worker,   \* the in-process work on each row
  agents,   \* <<row, token>> of every container at work on its session
  stray,    \* those no run waits for: docker's client died before its container,
            \* or docker could not kill it
  crashes

ledger == <<jobs, idem, deadLetters, outbox, conversations, settledBy>>
process == <<host, worker, agents, stray, crashes>>
vars == <<ledger, process>>

(* What a worker does next with its row.  A ticket is a synchronous Bot    *)
(* call that waits for its turn.                                           *)
Stage == {"idle", "ticket", "preparing", "booting", "running",
          "answered", "failed", "hopeless"}

Idle == [stage |-> "idle", token |-> 0, aborted |-> FALSE]

Init ==
  /\ Q!Init
  /\ host = "up"
  /\ worker = [j \in Jobs |-> Idle]
  /\ agents = {}
  /\ stray = {}
  /\ crashes = 0

Ticket(j) == jobs[j].admission

(* Mutant: the poller does not remember what it has in flight. *)
MutantNothingInFlight == {}

InFlight == {j \in Jobs : worker[j].stage # "idle" /\ ~Ticket(j)}
Held(j) == worker[j].token
Agent(j) == <<j, Held(j)>>
At(j, stage) == host = "up" /\ worker[j].stage = stage
Goto(j, stage) == worker' = [worker EXCEPT ![j].stage = stage]
Done(j) == worker' = [worker EXCEPT ![j] = Idle]

-----------------------------------------------------------------------------
(* Accepting and claiming *)

Receive ==
  /\ host = "up"
  /\ \E j \in Jobs, s \in Sessions, k \in Keys \cup {Null} :
       Q!Enqueue(j, s, k, FALSE)
  /\ UNCHANGED process

(* poll: the rows in flight are excluded even when their lease has lapsed. *)
Poll ==
  /\ host = "up"
  /\ Q!Claim(InFlight)
  /\ worker' = [j \in Jobs |->
       IF jobs'[j].token > jobs[j].token
       THEN [stage |-> "preparing", token |-> jobs'[j].token, aborted |-> FALSE]
       ELSE worker[j]]
  /\ UNCHANGED <<host, agents, stray, crashes>>

(* The renewal timer.  A renewal that throws aborts the work, whether the  *)
(* fence or the database refused it.                                       *)
Renew(j) ==
  /\ host = "up" /\ j \in InFlight
  /\ Q!Heartbeat(j, Held(j))
  /\ UNCHANGED process

RenewFails(j) ==
  /\ host = "up" /\ j \in InFlight
  /\ worker' = [worker EXCEPT ![j].aborted = TRUE]
  /\ UNCHANGED <<ledger, host, agents, stray, crashes>>

-----------------------------------------------------------------------------
(* processMessage *)

(* The identity is frozen, the provider lock acquired, the container       *)
(* spawned; an aborted signal stops the wait for the lock.                 *)
Prepare(j) ==
  /\ At(j, "preparing")
  /\ \/ Q!Fenced(j, Held(j)) /\ ~worker[j].aborted /\ Goto(j, "booting")
     \/ Goto(j, "failed")
     \/ Goto(j, "hopeless")
  /\ UNCHANGED <<ledger, host, agents, stray, crashes>>

(* __AGENT_READY__: markRunning is written before the payload is sent.     *)
Ready(j) ==
  /\ At(j, "booting") /\ ~worker[j].aborted
  /\ Q!MarkRunning(j, Held(j))
  /\ agents' = agents \cup {Agent(j)}
  /\ Goto(j, "running")
  /\ UNCHANGED <<host, stray, crashes>>

(* A host job (jobKind) is marked running and worked by a handler in the   *)
(* process itself.                                                         *)
HandlerRuns(j) ==
  /\ At(j, "preparing")
  /\ Q!MarkRunning(j, Held(j))
  /\ Goto(j, "running")
  /\ UNCHANGED <<host, agents, stray, crashes>>

(* The runner exits before it is ready, markRunning throws, the work is    *)
(* aborted or times out, or killing the useless container fails.           *)
BootFails(j) ==
  /\ At(j, "booting")
  /\ Goto(j, "failed") \/ Goto(j, "hopeless")
  /\ UNCHANGED <<ledger, host, agents, stray, crashes>>

(* The container ends, and with it docker's client, whose exit code        *)
(* decides.  A handler returns or throws.                                  *)
Exit(j) ==
  /\ At(j, "running") /\ ~Ticket(j)
  /\ agents' = agents \ {Agent(j)}
  /\ Goto(j, "answered") \/ Goto(j, "failed") \/ Goto(j, "hopeless")
  /\ UNCHANGED <<ledger, host, stray, crashes>>

(* Mutant: an exit code of null counts as an answer. *)
MutantLostClient == {"answered", "hopeless"}

(* The verdict of close when the client ends before its container: a       *)
(* forced /stop kills the client before docker kill is through, and its    *)
(* run is not repeated; a client that was killed by anybody else has no    *)
(* exit code, and its run is.                                              *)
LostClient == {"failed", "hopeless"}

(* close settles the run at once.  Its container still works.              *)
ClientEnds(j) ==
  /\ At(j, "running") /\ ~Ticket(j) /\ Agent(j) \in agents
  /\ stray' = stray \cup {Agent(j)}
  /\ \E verdict \in LostClient : Goto(j, verdict)
  /\ UNCHANGED <<ledger, host, agents, crashes>>

(* Timeout or abort: the run is given up when docker says that the         *)
(* container is gone, or for good when it cannot say so.                   *)
Cut(j) ==
  /\ At(j, "running") /\ ~Ticket(j)
  /\ \/ /\ agents' = agents \ {Agent(j)}
        /\ Goto(j, "failed") \/ Goto(j, "hopeless")
        /\ UNCHANGED stray
     \/ /\ Agent(j) \in agents
        /\ stray' = stray \cup {Agent(j)}
        /\ Goto(j, "hopeless")
        /\ UNCHANGED agents
  /\ UNCHANGED <<ledger, host, crashes>>

(* An empty answer is dead-lettered like a hopeless failure. *)
Settle(j) ==
  /\ \/ /\ At(j, "answered")
        /\ \/ \E suppress, conversation \in BOOLEAN, chunks \in 1 .. MaxChunks :
                Q!CommitResult(j, Held(j), suppress, conversation, chunks)
           \/ Q!DeadLetter(j, Held(j))
     \/ At(j, "failed") /\ Q!FailAttempt(j, Held(j))
     \/ At(j, "hopeless") /\ Q!DeadLetter(j, Held(j))
  /\ Done(j)
  /\ UNCHANGED <<host, agents, stray, crashes>>

(* The commit of a cron conversation that throws counts as a failed run. *)
CommitFails(j) ==
  /\ At(j, "answered") /\ ~Ticket(j)
  /\ Goto(j, "failed") \/ Goto(j, "hopeless")
  /\ UNCHANGED <<ledger, host, agents, stray, crashes>>

(* The settling transaction throws: the row keeps its lease until it       *)
(* lapses, and the worker is gone.                                         *)
SettleFails(j) ==
  /\ \E stage \in {"answered", "failed", "hopeless"} : At(j, stage)
  /\ Done(j)
  /\ UNCHANGED <<ledger, host, agents, stray, crashes>>

-----------------------------------------------------------------------------
(* Synchronous Bot calls *)

BotCall(j, s) ==
  /\ host = "up"
  /\ Q!CreateAdmission(j, s)
  /\ Goto(j, "ticket")
  /\ UNCHANGED <<host, agents, stray, crashes>>

(* The admitted call starts its agent; its end, however it comes, completes *)
(* the admission.                                                           *)
BotRun(j) ==
  /\ At(j, "ticket")
  /\ Q!Admit(j)
  /\ agents' = agents \cup {Agent(j)}
  /\ Goto(j, "running")
  /\ UNCHANGED <<host, stray, crashes>>

(* Refused (tryAdmit of a blocked ticket) or aborted while waiting. *)
BotGivesUp(j) ==
  /\ At(j, "ticket")
  /\ Q!RefuseAdmission(j) \/ Q!CancelAdmission(j)
  /\ Done(j)
  /\ UNCHANGED <<host, agents, stray, crashes>>

(* The call ends with its container, or leaves it behind as above. *)
BotReturns(j) ==
  /\ At(j, "running") /\ Ticket(j)
  /\ Q!CompleteAdmission(j)
  /\ Done(j)
  /\ \/ agents' = agents \ {Agent(j)} /\ UNCHANGED stray
     \/ stray' = stray \cup {Agent(j)} /\ UNCHANGED agents
  /\ UNCHANGED <<host, crashes>>

-----------------------------------------------------------------------------
(* Crash and start *)

Crash ==
  /\ host = "up" /\ crashes < MaxCrashes
  /\ host' = "down"
  /\ worker' = [j \in Jobs |-> Idle]
  /\ crashes' = crashes + 1
  /\ UNCHANGED <<ledger, agents, stray>>

(* killAllRunningContainers, strict: a start that cannot prove every       *)
(* orphan dead goes no further.                                            *)
KillOrphans ==
  /\ host = "down"
  /\ host' = "cleaned"
  /\ agents' = {}
  /\ stray' = {}
  /\ UNCHANGED <<ledger, worker, crashes>>

Start ==
  /\ host = "cleaned"
  /\ Q!InitializeQueue
  /\ host' = "up"
  /\ UNCHANGED <<worker, agents, stray, crashes>>

(* A container nobody waits for ends: by itself, or because the docker     *)
(* kill of a forced /stop is through at last.                              *)
OrphanExits ==
  /\ \E a \in (IF host = "up" THEN stray ELSE agents) :
       agents' = agents \ {a} /\ stray' = stray \ {a}
  /\ UNCHANGED <<ledger, host, worker, crashes>>

(* Time passes in every phase; a stalled event loop lets leases lapse.     *)
LeaseLapses(j) == Q!LeaseLapses(j) /\ UNCHANGED process
BackoffElapses(j) == Q!BackoffElapses(j) /\ UNCHANGED process

-----------------------------------------------------------------------------
Step(j) ==
  \/ Prepare(j) \/ HandlerRuns(j) \/ Ready(j) \/ BootFails(j) \/ Exit(j) \/ ClientEnds(j)
  \/ Cut(j) \/ Settle(j) \/ CommitFails(j) \/ SettleFails(j)

Bot(j) == BotRun(j) \/ BotGivesUp(j) \/ BotReturns(j)

Next ==
  \/ Receive
  \/ Poll
  \/ \E j \in Jobs :
       \/ Renew(j) \/ RenewFails(j) \/ Step(j) \/ Bot(j)
       \/ LeaseLapses(j) \/ BackoffElapses(j)
       \/ \E s \in Sessions : BotCall(j, s)
  \/ Crash \/ KillOrphans \/ Start \/ OrphanExits

Spec == Init /\ [][Next]_vars

(* The event loop runs every ready continuation, an agent run ends by exit *)
(* or timeout, a crashed host is started again, a lease nobody renews      *)
(* lapses.  A settling transaction may throw; every attempt that does is   *)
(* one of MaxAttempts.                                                     *)
Fairness ==
  /\ WF_vars(Poll) /\ WF_vars(KillOrphans) /\ WF_vars(Start)
  /\ \A j \in Jobs :
       /\ WF_vars(Step(j))
       /\ WF_vars(BotRun(j) \/ BotReturns(j))
       /\ WF_vars(BackoffElapses(j))
       /\ WF_vars(j \notin InFlight /\ LeaseLapses(j))

LiveSpec == Spec /\ Fairness

-----------------------------------------------------------------------------
(* Properties *)

TypeOK ==
  /\ Q!TypeOK
  /\ host \in {"down", "cleaned", "up"}
  /\ worker \in [Jobs -> [stage : Stage, token : Nat, aborted : BOOLEAN]]
  /\ agents \subseteq Jobs \X Nat
  /\ stray \subseteq agents
  /\ crashes \in 0 .. MaxCrashes

(* What holds of two agents on one session, across workers and synchronous *)
(* Bot calls, stalls of the event loop that let leases lapse, and agents   *)
(* that survive a crash of the host.  An agent whose end its run waits for *)
(* has the session to itself among those: its row is in progress under the *)
(* very claim it was started for, and what a worker in flight still does,  *)
(* it does under the newest claim.  A stray agent may work beside it: the  *)
(* code settles the run when docker's client closes, and a forced /stop    *)
(* kills the client before the container (manager.ts:1028-1036,            *)
(* 1292-1334), so the session goes on beside it.  But what a stray agent   *)
(* answers is never taken for the answer of the attempt that lost it.      *)
OneAttachedAgent ==
  /\ \A a, b \in agents \ stray :
       jobs[a[1]].session = jobs[b[1]].session => a = b
  /\ \A a \in agents \ stray : Q!Active(a[1]) /\ jobs[a[1]].token = a[2]
  /\ \A j \in InFlight : Q!Fenced(j, Held(j))
  /\ \A a \in stray : ~Ticket(a[1]) =>
       ~(jobs[a[1]].status = "completed" /\ jobs[a[1]].token = a[2])

(* No accepted input is lost or stuck: whatever crashes, lost renewals,    *)
(* failed runs and failed writes come, it is settled in the end.           *)
EveryRowSettles ==
  \A j \in Jobs : Q!Present(j) ~> jobs[j].status \in Q!Terminal

=============================================================================
