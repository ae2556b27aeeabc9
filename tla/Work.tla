-------------------------------- MODULE Work --------------------------------
(***************************************************************************)
(* What the work of a row comes to: one row with its payload, thread and   *)
(* source, the rows that are queued for the issues of a repository, and    *)
(* the rows that export to the memory backend.  A behaviour is one of the  *)
(* part it starts in, as in Services.                                      *)
(***************************************************************************)
EXTENDS Naturals, Sequences, FiniteSets

CONSTANTS
  Parts,                                                       \* the parts to consider
  Job, Session, Null, Setups, MaxAttempts, MaxPrompts, MaxCrashes,
  MaxHitches,                                                  \* Worker
  Issues, Torn, MaxVersions, MaxSlips,                         \* IssueTriage
  Turns, BatchSize, MaxExportAttempts, MaxTicks, MaxMishaps    \* MemoryExport

VARIABLE part

VARIABLES jobs, idem, deadLetters, rows, conversations, settledBy, poller, agents,
          stray, restarts, setup, saved, work, prompt, threads, unsaved, launches,
          answer, told, untold, hitches
Worked == INSTANCE Worker WITH
  outbox <- rows, host <- poller, crashes <- restarts, runs <- launches,
  excused <- untold, troubles <- hitches, MaxTroubles <- MaxHitches

VARIABLES issue, cache, statefile, scan, pending, triages, causes, slips
Triage == INSTANCE IssueTriage WITH
  disk <- statefile, jobs <- triages, troubles <- slips,
  None <- Null, MaxTroubles <- MaxSlips

VARIABLES committed, gone, queue, exporter, ledger, accepted, doubts, enabled, ticks,
          mishaps
Export == INSTANCE MemoryExport WITH
  run <- exporter, MaxAttempts <- MaxExportAttempts

(* The kinds of rows are those a row can have: the work of a handler has   *)
(* neither a source nor a thread (HostQueueInput, queue/types.ts:102-106). *)
(* Files that do not parse are told from records; the conversations of the *)
(* groups come in sequences.                                               *)
ASSUME WorkAssumption ==
  /\ Setups \subseteq Worked!Kinds /\ Null \notin Nat
  /\ \A k \in Setups : k.handler => k.feature = "none" /\ k.mode = "channel"
  /\ MaxAttempts \in Nat \ {0} /\ MaxPrompts \in Nat \ {0}
  /\ MaxVersions \in Nat \ {0}
  /\ Null # Torn /\ {Null, Torn} \cap Triage!Records = {}
  /\ Turns \in Seq(Seq(Export!Kinds))

workerVars == <<jobs, idem, deadLetters, rows, conversations, settledBy, poller, agents,
                stray, restarts, setup, saved, work, prompt, threads, unsaved, launches,
                answer, told, untold, hitches>>
issueVars == <<issue, cache, statefile, scan, pending, triages, causes, slips>>
exportVars == <<committed, gone, queue, exporter, ledger, accepted, doubts, enabled,
                ticks, mishaps>>
vars == <<part, workerVars, issueVars, exportVars>>

Init ==
  /\ part \in Parts
  /\ Worked!Init /\ Triage!Init /\ Export!Init

Next ==
  \/ part = "worker" /\ Worked!Next /\ UNCHANGED <<part, issueVars, exportVars>>
  \/ part = "issues" /\ Triage!Next /\ UNCHANGED <<part, workerVars, exportVars>>
  \/ part = "export" /\ Export!Next /\ UNCHANGED <<part, workerVars, issueVars>>

Spec == Init /\ [][Next]_vars

-----------------------------------------------------------------------------
(* The types of the variables of every part. *)
TypeOK == part \in Parts /\ Worked!TypeOK /\ Triage!TypeOK /\ Export!TypeOK

(* The attempts of a row run as the first one froze them, in the thread    *)
(* the row remembers (queue/poller.ts:697-733, 904-973).                   *)
AttemptsAgree == Worked!AttemptsAgree
(* A source is told that its row has ended (queue/poller.ts:215-224).      *)
SourceTold == Worked!SourceTold
(* Worker implements Poller (queue/poller.ts:974-1227). *)
ImplementsPoller == Worked!ImplementsPoller

(* The agents that look at issues do not start each other                  *)
(* (cron/jobs/issue-triage.ts). *)
AgentsFeedNobody == Triage!AgentsFeedNobody

(* The memory backend gets the turns in order, none twice without need     *)
(* (memory/export.ts). *)
ExportedInOrder == Export!ExportedInOrder
=============================================================================
