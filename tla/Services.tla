------------------------------ MODULE Services ------------------------------
(***************************************************************************)
(* Five parts of the host beside each other: the tool proxy, the cron      *)
(* runner, the poller with its ledger, the handler of saved posts, and the *)
(* inference lock with the Bot calls.  A behaviour is one of the part it   *)
(* starts in, the variables of the others keep their initial values: the   *)
(* states of the parts add up when they are checked, they do not multiply, *)
(* and what is proved of a part is proved of the host that runs it.        *)
(***************************************************************************)
EXTENDS Naturals

CONSTANTS
  Parts,      \* the parts to consider
  ToolRequests, MaxToolMishaps,                                \* ToolCall
  IntervalJobs, CronJobs, Interval, Hour, MaxCronMishaps,      \* CronRunner
  Jobs, Sessions, Keys, ActiveOnlyKeys, MaxAttempts, MaxChunks, Null,
  MaxCrashes,                                                  \* Poller
  Captures, Page, Found, Limit, MaxPostCrashes,                \* XSaved
  Runs, Calls, Parent, Providers, Provider, Limits, NoProvider,
  Lanes, Lane                                                  \* BotCalls

VARIABLE part

VARIABLES revoked, call, approval, message, tool, toolMishaps
ToolCalls == INSTANCE ToolCall WITH
  Calls <- ToolRequests, MaxMishaps <- MaxToolMishaps, mishaps <- toolMishaps

VARIABLES minute, half, sinceTick, ready, memory, disk, job, writers, saving, served,
          failed, cronMishaps
Cron == INSTANCE CronRunner WITH MaxMishaps <- MaxCronMishaps, mishaps <- cronMishaps

VARIABLES jobs, idem, deadLetters, outbox, conversations, settledBy
VARIABLES host, worker, agents, stray, crashes
Queue == INSTANCE Poller

VARIABLES xoutbox, acked, item, media, context, tried, xdisk, cron, condemned, xcrashes
Posts == INSTANCE XSaved WITH
  outbox <- xoutbox, disk <- xdisk, crashes <- xcrashes, MaxCrashes <- MaxPostCrashes

VARIABLES config, owner, limit, active, ahead, run, botcall, queue, line, ticket
Lines == INSTANCE BotCalls WITH call <- botcall, Sessions <- Lanes, Session <- Lane

(* Every run is of one provider, with a limit of its own that the          *)
(* configuration accepts from 1 up, and every call is made by a run.       *)
ASSUME LinesAssumption ==
  /\ Lines!LockAssumption
  /\ Lane \in [Runs \cup Calls -> Lanes] /\ Runs \cap Calls = {}

(* The interval of a job is a number of half minutes. *)
ASSUME IntervalAssumption == Interval \in Nat

toolVars == <<revoked, call, approval, message, tool, toolMishaps>>
cronVars == <<minute, half, sinceTick, ready, memory, disk, job, writers, saving, served,
              failed, cronMishaps>>
queueVars == <<jobs, idem, deadLetters, outbox, conversations, settledBy, host, worker,
               agents, stray, crashes>>
postVars == <<xoutbox, acked, item, media, context, tried, xdisk, cron, condemned, xcrashes>>
lineVars == <<config, owner, limit, active, ahead, run, botcall, queue, line, ticket>>
vars == <<part, toolVars, cronVars, queueVars, postVars, lineVars>>

Init ==
  /\ part \in Parts
  /\ ToolCalls!Init /\ Cron!Init /\ Queue!Init /\ Posts!Init /\ Lines!BotInit

Next ==
  \/ /\ part = "tool" /\ ToolCalls!Next
     /\ UNCHANGED <<part, cronVars, queueVars, postVars, lineVars>>
  \/ /\ part = "cron" /\ Cron!Next
     /\ UNCHANGED <<part, toolVars, queueVars, postVars, lineVars>>
  \/ /\ part = "queue" /\ Queue!Next
     /\ UNCHANGED <<part, toolVars, cronVars, postVars, lineVars>>
  \/ /\ part = "posts" /\ Posts!Next
     /\ UNCHANGED <<part, toolVars, cronVars, queueVars, lineVars>>
  \/ /\ part = "calls" /\ Lines!BotNext
     /\ UNCHANGED <<part, toolVars, cronVars, queueVars, postVars>>

Spec == Init /\ [][Next]_vars

(* The fairness the modules of the parts state, each for the steps of its  *)
(* own part. *)
Fairness ==
  /\ \A c \in ToolRequests :
       /\ WF_toolVars(part = "tool" /\ ToolCalls!Admit(c))
       /\ WF_toolVars(part = "tool" /\ ToolCalls!Present(c))
       /\ WF_toolVars(part = "tool" /\ ToolCalls!Decide(c))
       /\ WF_toolVars(part = "tool" /\ ToolCalls!Start(c))
       /\ WF_toolVars(part = "tool" /\ ToolCalls!Spawn(c))
       /\ WF_toolVars(part = "tool" /\ ToolCalls!BoxUp(c))
       /\ WF_toolVars(part = "tool" /\ ToolCalls!HostToolEnds(c) /\ ToolCalls!Aborted(c))
       /\ WF_toolVars(part = "tool" /\ ToolCalls!Kill(c))
       /\ WF_toolVars(part = "tool" /\ ToolCalls!Close(c))
       /\ WF_toolVars(part = "tool" /\ ToolCalls!ContainerToolEnds(c))
  /\ WF_cronVars(part = "cron" /\ Cron!Time)
  /\ WF_cronVars(part = "cron" /\ Cron!Tick)
  /\ WF_cronVars(part = "cron" /\ Cron!Record)
  /\ WF_cronVars(part = "cron" /\ Cron!Saved)
  /\ WF_cronVars(part = "cron" /\ Cron!Discord /\ ~ready)
  /\ \A j \in IntervalJobs \cup CronJobs :
       WF_cronVars(part = "cron" /\ (Cron!Ends(j) \/ Cron!Fails(j)))
  /\ WF_queueVars(part = "queue" /\ Queue!Poll)
  /\ WF_queueVars(part = "queue" /\ Queue!KillOrphans)
  /\ WF_queueVars(part = "queue" /\ Queue!Start)
  /\ \A j \in Jobs :
       /\ WF_queueVars(part = "queue" /\ Queue!Step(j))
       /\ WF_queueVars(part = "queue" /\ Queue!BackoffElapses(j))
       /\ WF_queueVars(part = "queue" /\ (Queue!BotRun(j) \/ Queue!BotReturns(j)))
       /\ WF_queueVars(part = "queue" /\ j \notin Queue!InFlight /\ Queue!LeaseLapses(j))
  /\ WF_postVars(part = "posts" /\ Posts!Handler)
  /\ \A r \in Runs :
       /\ WF_lineVars(part = "calls" /\ Lines!Start(r))
       /\ WF_lineVars(part = "calls" /\ Lines!EndsByItself(r))
       /\ WF_lineVars(part = "calls" /\ Lines!Release(r) /\ UNCHANGED <<line, ticket>>)
  /\ \A c \in Calls :
       /\ WF_lineVars(part = "calls" /\ Lines!Attend(c))
       /\ WF_lineVars(part = "calls" /\ Lines!ReturnSlot(c) /\ UNCHANGED <<line, ticket>>)

LiveSpec == Spec /\ Fairness

-----------------------------------------------------------------------------
(* The types of the variables of every part. *)
TypeOK ==
  /\ part \in Parts
  /\ ToolCalls!TypeOK /\ Cron!TypeOK /\ Queue!TypeOK /\ Posts!TypeOK /\ Lines!BotTypeOK

(* A tool that needs an approval starts only after a click on Approve that *)
(* Discord shows, while its run is current (tool-proxy-server.ts:327-357). *)
StartsAsApproved == ToolCalls!StartsAsApproved
(* A message that says Denied or failed never stands over a call that ran. *)
RefusalTruthful == ToolCalls!RefusalTruthful
(* A call that returned left no container behind, or says it cannot tell.  *)
NoOrphan == ToolCalls!NoOrphan
(* The calls of a revoked run end (agent/manager.ts, revokeRunResources). *)
RevokeEndsCalls == ToolCalls!RevokeEndsCalls

(* A cron job that ended well is not admitted twice for a slot, and its    *)
(* record stays whatever the order of the saves (cron/runner.ts). *)
RunsRecorded == Cron!OncePerSlot /\ Cron!RecordsKept
(* An interval job runs again and again. *)
IntervalsRecur == part = "cron" => Cron!IntervalsRecur

(* Every accepted row ends in a terminal state although the host may crash *)
(* (queue/poller.ts, Poller.tla). *)
EveryRowSettles == Queue!EveryRowSettles

(* Every saved post that lacks its media or its context is tried, whatever *)
(* fails for the others (cron/jobs/x-saved-media-download.ts). *)
BacklogMoves == Posts!BacklogMoves

(* A session has one execution under way, queued run or synchronous call   *)
(* (queue/session-admission.ts, agent/bot-orchestration.ts).               *)
OneExecutionPerSession == Lines!OneExecutionPerSession
(* The slots in use are those of one provider, as many as it allows        *)
(* (queue/inference-lock.ts). *)
Capacity == Lines!Capacity
(* Slots and the resource are handed on in the order of the requests. *)
ServedInOrder == Lines!ServedInOrder
(* docs/config.md:131: runs and calls never wait for each other in a       *)
(* circle. *)
NoCircularWait == Lines!NoCircularWait

(* docs/x-saved.md:94: a download that failed for now is tried again. *)
FailuresRetried == Posts!FailuresRetried
=============================================================================
