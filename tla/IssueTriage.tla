----------------------------- MODULE IssueTriage -----------------------------
(***************************************************************************)
(* The inventory of GitHub issues (cron/jobs/issue-triage.ts): a scan      *)
(* queues an agent for every issue that changed since it was recorded.     *)
(* The agent comments with the account of the user, so that its comment is *)
(* told from a change only by counting.  Several cron jobs, here one per   *)
(* issue, share one file of records, its copy in memory and a lock that    *)
(* the first load does not take.                                           *)
(***************************************************************************)
EXTENDS Integers, FiniteSets

CONSTANTS
  Issues,
  None, Torn,
  MaxVersions,   \* bound on the changes of an issue
  MaxTroubles    \* bound on crashes, failures and changes by users

VARIABLES
  issue,     \* updated_at and the number of comments at GitHub
  cache,     \* cachedState, None before the first load
  disk,      \* state.json: the records, or Torn while it is written
  scan,      \* the scan of each cron job: its step, what it fetched or read
  pending,   \* agents queued for each issue
  jobs,      \* how many were ever queued
  causes,    \* what users, failing agents, crashes and loads that race add
  troubles

vars == <<issue, cache, disk, scan, pending, jobs, causes, troubles>>

New == [version |-> 0, comments |-> 0]         \* the record of an issue never seen
Record == [version : 0 .. MaxVersions, comments : 0 .. MaxVersions]
Records == [Issues -> Record]
Idle == [step |-> "idle", seen |-> New, image |-> None]

Init ==
  /\ issue = [i \in Issues |-> [version |-> 1, comments |-> 0]]
  /\ cache = None /\ disk = [i \in Issues |-> New]
  /\ scan = [i \in Issues |-> Idle]
  /\ pending = [i \in Issues |-> 0] /\ jobs = [i \in Issues |-> 0]
  /\ causes = [i \in Issues |-> 0]
  /\ troubles = 0

At(i, step) == scan[i].step = step
Goto(i, step) == scan' = [scan EXCEPT ![i].step = step]
Ends(i) == scan' = [scan EXCEPT ![i] = Idle]
Trouble == troubles < MaxTroubles /\ troubles' = troubles + 1
Add(counts, owed) == [i \in Issues |-> counts[i] + IF owed[i] THEN 1 ELSE 0]

Locked == \E i \in Issues : At(i, "write")

-----------------------------------------------------------------------------
(* The scan of one cron job *)

(* fetchOpenIssues; an error ends the scan like a state without change. *)
Fetch(i) ==
  /\ At(i, "idle")
  /\ scan' = [scan EXCEPT ![i] = [Idle EXCEPT !.step = "load", !.seen = issue[i]]]
  /\ UNCHANGED <<issue, cache, disk, pending, jobs, causes, troubles>>

(* Mutant: the comment of the agent is a change like any other. *)
MutantStepFor(seen, record) == IF seen.version = record.version THEN "idle" ELSE "enqueue"

(* The filter of the handler: unchanged, changed by the agent's own        *)
(* comment as far as counting can tell, or to be looked at.                *)
StepFor(seen, record) ==
  CASE record = New -> "enqueue"
    [] record # New /\ seen.version = record.version -> "idle"
    [] record # New /\ seen.version # record.version ->
         IF seen.comments = record.comments + 1 THEN "absorb" ELSE "enqueue"

Decide(i, records) ==
  LET step == StepFor(scan[i].seen, records[i]) IN
  scan' = [scan EXCEPT ![i] = IF step = "idle" THEN Idle ELSE [@ EXCEPT !.step = step, !.image = None]]

Load(i) ==
  /\ At(i, "load")
  /\ IF cache # None THEN Decide(i, cache)
     ELSE scan' = [scan EXCEPT ![i].step = "reading", ![i].image = disk]
  /\ UNCHANGED <<issue, cache, disk, pending, jobs, causes, troubles>>

(* A file read in the middle of a write does not parse: the scan fails.  A *)
(* read that ends after another job has recorded something undoes that in  *)
(* memory, and with the next write on disk.                                *)
LoadEnds(i) ==
  /\ At(i, "reading")
  /\ LET read == scan[i].image IN
     IF read = Torn THEN Ends(i) /\ UNCHANGED <<cache, causes>>
     ELSE /\ cache' = read
          /\ causes' = Add(causes, [k \in Issues |-> cache # None /\ cache[k] # read[k]])
          /\ Decide(i, read)
  /\ UNCHANGED <<issue, disk, pending, jobs, troubles>>

(* enqueueCronInbox; a failure is logged and nothing is recorded. *)
Enqueue(i) ==
  /\ At(i, "enqueue")
  /\ \/ /\ jobs' = [jobs EXCEPT ![i] = @ + 1]
        /\ pending' = [pending EXCEPT ![i] = @ + 1]
        /\ Goto(i, "record")
        /\ UNCHANGED troubles
     \/ Trouble /\ Ends(i) /\ UNCHANGED <<jobs, pending>>
  /\ UNCHANGED <<issue, cache, disk, causes>>

(* recordProcessed and the absorbed comments, up to writeFile: the shared  *)
(* copy has the record at once, whatever becomes of the file.              *)
Write(i) ==
  /\ At(i, "record") \/ At(i, "absorb")
  /\ ~Locked
  /\ LET image == [cache EXCEPT ![i] = scan[i].seen] IN
     /\ cache' = image
     /\ \/ /\ disk' = Torn
           /\ scan' = [scan EXCEPT ![i].step = "write", ![i].image = image]
           /\ UNCHANGED troubles
        \/ Trouble /\ Ends(i) /\ UNCHANGED disk
  /\ UNCHANGED <<issue, pending, jobs, causes>>

WriteEnds(i) ==
  /\ At(i, "write")
  /\ \/ disk' = scan[i].image /\ UNCHANGED troubles
     \/ Trouble /\ UNCHANGED disk
  /\ Ends(i)
  /\ UNCHANGED <<issue, cache, pending, jobs, causes>>

-----------------------------------------------------------------------------
(* Agents, users, the host *)

Changes(i, comments) ==
  /\ issue[i].version < MaxVersions
  /\ issue' = [issue EXCEPT ![i] = [version |-> @.version + 1,
                                    comments |-> @.comments + comments]]

(* An agent comments once or, without grounds, not at all; a run that      *)
(* fails after its comment is tried again and comments again.              *)
AgentEnds(i) ==
  /\ pending[i] > 0
  /\ \/ /\ Changes(i, 1) \/ UNCHANGED issue
        /\ pending' = [pending EXCEPT ![i] = @ - 1]
        /\ UNCHANGED <<causes, troubles>>
     \/ /\ Changes(i, 1) /\ Trouble
        /\ causes' = [causes EXCEPT ![i] = @ + 1]
        /\ UNCHANGED pending
  /\ UNCHANGED <<cache, disk, scan, jobs>>

UserChanges(i) ==
  /\ Trouble
  /\ Changes(i, 0) \/ Changes(i, 1)
  /\ causes' = [causes EXCEPT ![i] = @ + 1]
  /\ UNCHANGED <<cache, disk, scan, pending, jobs>>

(* What only memory had is lost: a record between the queue and the disk.  *)
Crash ==
  /\ cache # None /\ Trouble
  /\ cache' = None
  /\ scan' = [i \in Issues |-> Idle]
  /\ causes' = Add(causes, [i \in Issues |->
       At(i, "record") \/ (disk # Torn /\ disk[i] # cache[i])])
  /\ UNCHANGED <<issue, disk, pending, jobs>>

Next ==
  \/ Crash
  \/ \E i \in Issues :
       \/ Fetch(i) \/ Load(i) \/ LoadEnds(i) \/ Enqueue(i) \/ Write(i) \/ WriteEnds(i)
       \/ AgentEnds(i) \/ UserChanges(i)

Spec == Init /\ [][Next]_vars

-----------------------------------------------------------------------------
TypeOK ==
  /\ issue \in [Issues -> Record]
  /\ cache \in Records \cup {None}
  /\ disk \in Records \cup {Torn}
  /\ scan \in [Issues ->
       [step : {"idle", "load", "reading", "enqueue", "absorb", "record", "write"},
        seen : Record, image : Records \cup {None, Torn}]]
  /\ pending \in [Issues -> Nat] /\ jobs \in [Issues -> Nat]
  /\ causes \in [Issues -> Nat]
  /\ troubles \in 0 .. MaxTroubles

(* The agents do not feed themselves: without a change by a user, a crash  *)
(* or a failure an issue is looked at once, and each of these costs two    *)
(* more agents at most, the second because two comments of agents between  *)
(* two scans are counted as a change (issue-triage.ts:24-29, 196-218).     *)
AgentsFeedNobody == \A i \in Issues : jobs[i] <= 1 + 2 * causes[i]
=============================================================================
