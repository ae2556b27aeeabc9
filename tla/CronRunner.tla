----------------------------- MODULE CronRunner -----------------------------
(***************************************************************************)
(* The scheduler of cron/runner.ts: a tick a minute admits the jobs that   *)
(* are due, each runs detached from the tick, and its admission time goes  *)
(* to data/cron/state.json through a lock shared by all jobs.              *)
(*                                                                         *)
(* Time is counted in halves of a minute: a tick may come late, by a       *)
(* minute at most, within its minute or in the next one.  lastRun is kept  *)
(* as its age in halves, up to Ages, which also stands for never.          *)
(***************************************************************************)
EXTENDS Naturals, Sequences, SequencesExt, FiniteSetsExt

CONSTANTS
  IntervalJobs, CronJobs,   \* jobs by the form of their schedule
  Interval,                 \* halves between two runs of an interval job
  Hour,                     \* a cron expression matches once in Hour minutes
  MaxMishaps                \* bound: crashes, failing writes, Discord away

AllJobs == IntervalJobs \cup CronJobs
Ages == Max({Interval, 2})

VARIABLES
  minute, half,  \* the clock
  sinceTick,     \* halves since the timer fired, up to 3
  ready,         \* some Discord client is ready
  memory,        \* memory[j]: the age of lastRun in _state; <<>> before loadState
  disk,          \* the same in state.json; <<>> for a file cut off by a crash
  job,           \* job[j]: the admitted run, one at most (_inFlight)
  writers,       \* withStateLock: jobs whose recordRun waits, first the one at work
  saving,        \* what the first of writers has given to writeFile, or <<>>
  served,        \* history: the age of the last admission in this process that
                 \* ended well or for good
  failed,        \* history: jobs whose last run failed for the time being
  mishaps

vars == <<minute, half, sinceTick, ready, memory, disk, job, writers, saving, served,
          failed, mishaps>>
clock == <<minute, half, sinceTick, ready>>

Never == [j \in AllJobs |-> Ages]
Idle == [stage |-> "idle", age |-> 0]

Init ==
  /\ minute = 0 /\ half = 0 /\ sinceTick = 3 /\ ready = TRUE
  /\ memory = <<>> /\ disk = Never
  /\ job = [j \in AllJobs |-> Idle]
  /\ writers = <<>> /\ saving = <<>>
  /\ served = Never /\ failed = {}
  /\ mishaps = 0

Mishap == mishaps < MaxMishaps /\ mishaps' = mishaps + 1

-----------------------------------------------------------------------------
Older(ages) == [j \in DOMAIN ages |-> Min({Ages, ages[j] + 1})]

(* Half a minute goes by. *)
Time ==
  /\ sinceTick < 3 /\ sinceTick' = sinceTick + 1
  /\ half' = 1 - half
  /\ minute' = IF half = 1 THEN (minute + 1) % Hour ELSE minute
  /\ memory' = Older(memory) /\ disk' = Older(disk) /\ saving' = Older(saving)
  /\ served' = Older(served)
  /\ job' = [j \in AllJobs |-> IF job[j].stage = "idle" THEN Idle
                               ELSE [job[j] EXCEPT !.age = Min({Ages, @ + 1})]]
  /\ UNCHANGED <<ready, writers, failed, mishaps>>

(* Discord goes away, and comes back. *)
Discord ==
  /\ IF ready THEN Mishap ELSE UNCHANGED mishaps
  /\ ready' = ~ready
  /\ UNCHANGED <<minute, half, sinceTick, memory, disk, job, writers, saving, served,
                 failed>>

(* Mutant: a cron expression is matched without a look at lastRun. *)
MutantShouldRun(j, age) == IF j \in CronJobs THEN minute = 0 ELSE age >= Interval

(* shouldRun; lastRun is in the current minute iff its age is at most half *)
ShouldRun(j, age) ==
  IF j \in CronJobs THEN minute = 0 /\ age > half ELSE age >= Interval

(* tick: _state is read once, the jobs that are due are launched. *)
Tick ==
  /\ sinceTick > 0 /\ sinceTick' = 0
  /\ IF ~ready \/ (memory = <<>> /\ disk = <<>>) THEN UNCHANGED <<memory, job>>
     ELSE LET state == IF memory = <<>> THEN disk ELSE memory
              due == {j \in AllJobs : job[j].stage = "idle" /\ ShouldRun(j, state[j])}
          IN /\ memory' = state
             /\ job' = [j \in AllJobs |-> IF j \in due THEN [stage |-> "running", age |-> 0]
                                          ELSE job[j]]
  /\ UNCHANGED <<minute, half, ready, disk, writers, saving, served, failed, mishaps>>

(* executeJob ends well, or with a NonRetryableError: recordRun is next. *)
Ends(j) ==
  /\ job[j].stage = "running"
  /\ \E stage \in {"done", "refused"} : job' = [job EXCEPT ![j].stage = stage]
  /\ writers' = Append(writers, j)
  /\ served' = [served EXCEPT ![j] = job[j].age] /\ failed' = failed \ {j}
  /\ UNCHANGED <<clock, memory, disk, saving, mishaps>>

(* It fails for the time being: lastRun stays. *)
Fails(j) ==
  /\ job[j].stage = "running"
  /\ job' = [job EXCEPT ![j] = Idle] /\ failed' = failed \cup {j}
  /\ UNCHANGED <<clock, memory, disk, writers, saving, served, mishaps>>

(* Mutant: what the other jobs recorded is forgotten. *)
MutantRecorded(j) == [Never EXCEPT ![j] = job[j].age]

(* recordRun: _state as it is now, with the admission of j *)
Recorded(j) == [memory EXCEPT ![j] = job[j].age]

(* saveState sets _state, then writes. *)
Record ==
  /\ writers # <<>> /\ saving = <<>>
  /\ memory' = Recorded(Head(writers))
  /\ saving' = memory'
  /\ UNCHANGED <<clock, disk, job, writers, served, failed, mishaps>>

(* Mutant: the job stays in _inFlight. *)
MutantUnlock ==
  /\ job' = job
  /\ writers' = Tail(writers) /\ saving' = <<>>

(* The next one gets the lock; the job leaves _inFlight. *)
Unlock ==
  /\ job' = [job EXCEPT ![Head(writers)] = Idle]
  /\ writers' = Tail(writers) /\ saving' = <<>>

Saved ==
  /\ saving # <<>> /\ disk' = saving
  /\ Unlock
  /\ UNCHANGED <<clock, memory, served, failed, mishaps>>

(* writeFile fails: it has cut the file off, or not yet. *)
SaveFails ==
  /\ saving # <<>> /\ Mishap
  /\ \E cut \in BOOLEAN : disk' = IF cut THEN <<>> ELSE disk
  /\ Unlock
  /\ UNCHANGED <<clock, memory, served, failed>>

(* The process dies and starts again; writeFile may be in the middle. *)
Restart ==
  /\ Mishap
  /\ \/ disk' = disk
     \/ saving # <<>> /\ disk' \in {<<>>, saving}
  /\ memory' = <<>> /\ saving' = <<>> /\ writers' = <<>>
  /\ job' = [j \in AllJobs |-> Idle]
  /\ served' = Never /\ failed' = {}
  /\ UNCHANGED clock

-----------------------------------------------------------------------------
Next ==
  \/ Time \/ Discord \/ Tick \/ Record \/ Saved \/ SaveFails \/ Restart
  \/ \E j \in AllJobs : Ends(j) \/ Fails(j)

Spec == Init /\ [][Next]_vars

(* The timer, the disk and the handlers of jobs come to an end. *)
Fairness ==
  /\ WF_vars(Time) /\ WF_vars(Tick) /\ WF_vars(Record) /\ WF_vars(Saved)
  /\ WF_vars(Discord /\ ~ready)
  /\ \A j \in AllJobs : WF_vars(Ends(j) \/ Fails(j))

LiveSpec == Spec /\ Fairness

-----------------------------------------------------------------------------
(* The types of all variables. *)
TypeOK ==
  /\ minute \in 0 .. Hour - 1 /\ half \in 0 .. 1 /\ sinceTick \in 0 .. 3
  /\ ready \in BOOLEAN /\ mishaps \in 0 .. MaxMishaps /\ failed \subseteq AllJobs
  /\ {memory, disk, saving} \subseteq {<<>>} \cup [AllJobs -> 0 .. Ages]
  /\ served \in [AllJobs -> 0 .. Ages]
  /\ job \in [AllJobs -> [stage : {"idle", "running", "done", "refused"}, age : 0 .. Ages]]
  /\ \A i, k \in DOMAIN writers : writers[i] = writers[k] => i = k

Admitted(j) == job[j].stage = "idle" /\ job'[j].stage = "running"

(* A job that ended well, or for good, is not admitted again in the slot   *)
(* it was admitted for, nor an interval job before its interval is over,   *)
(* though its run may be short, its record slow or the write of it fail    *)
(* (runner.ts:146, 199-215, 326).                                          *)
OncePerSlot ==
  [][\A j \in AllJobs : Admitted(j) =>
       served[j] >= IF j \in CronJobs THEN half + 1 ELSE Interval]_vars

(* What a job has recorded is not undone by the record of another one: in  *)
(* a process, lastRun never gets older but by the clock                    *)
(* (runner.ts:152-160).                                                    *)
RecordsKept ==
  [][memory # <<>> /\ memory' # <<>> =>
       \A j \in AllJobs : memory'[j] > memory[j] => half' # half]_vars

(* Unless state.json was cut off, an interval job runs again and again:    *)
(* neither its failures nor a run that takes longer than its interval      *)
(* retire it (runner.ts:314-328).                                          *)
IntervalsRecur ==
  <>[](disk # <<>>) =>
    \A j \in IntervalJobs :
      []<>(job[j].stage = "running") /\ []<>(job[j].stage = "idle")
=============================================================================
