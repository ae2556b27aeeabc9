----------------------------- MODULE Retention -----------------------------
(***************************************************************************)
(* Pruning of the ledger (queue/retention.ts), a call of the operator      *)
(* (queue/operator.ts) beside the running host: plan, export everything    *)
(* planned, then delete it batch by batch.                                 *)
(*                                                                         *)
(* The jobs share one key that is held only while a job is active, and     *)
(* their responses have several chunks.  A row is "old" when nothing has   *)
(* touched it for as long as the policy keeps it.                          *)
(***************************************************************************)
EXTENDS Naturals, Sequences, FiniteSets, SequencesExt

CONSTANTS
  Jobs,        \* 1 .. n, in the order of their creation
  Chunks,      \* of a response
  BatchSize,
  MaxRuns      \* bound: calls of the operator

VARIABLES
  row,      \* row[i]: status and age of a job, a delivery or the key
  prune,    \* the call at work: its plan and what is exported of it
  files,    \* the exports on disk, each with the call that wrote it
  lost,     \* history: the deleted rows, as they were, each with its call
  runs

vars == <<row, prune, files, lost, runs>>

JobRow(j) == <<"job", j, 0>>
Chunk(j, c) == <<"delivery", j, c>>
Key == <<"idempotency_key", 0, 0>>
Items == {Key} \cup {JobRow(j) : j \in Jobs} \cup
         {Chunk(j, c) : j \in Jobs, c \in 1 .. Chunks}

None == [status |-> "none", old |-> FALSE]
Status(i) == row[i].status
There(i) == Status(i) \notin {"none", "gone"}
Idle == [at |-> "idle", plan |-> <<>>, done |-> 0]

Terminal == {"completed", "dead_letter"}

Init ==
  /\ row = [i \in Items |-> None]
  /\ prune = Idle /\ files = {} /\ lost = {} /\ runs = 0

Set(S, status) ==
  row' = [i \in Items |-> IF i \in S THEN [status |-> status, old |-> FALSE] ELSE row[i]]

-----------------------------------------------------------------------------
(* The ledger (queue/repository.ts), as far as pruning meets it *)

Ages(i) ==
  /\ There(i) /\ ~row[i].old
  /\ row' = [row EXCEPT ![i].old = TRUE]
  /\ UNCHANGED <<prune, files, lost, runs>>

(* activeOnlyIdempotency: the key of an ended job is taken over. *)
Enqueue(j) ==
  /\ Status(JobRow(j)) = "none" /\ \A i \in 1 .. j - 1 : Status(JobRow(i)) # "none"
  /\ Status(Key) # "active"
  /\ Set({JobRow(j), Key}, "active")
  /\ UNCHANGED <<prune, files, lost, runs>>

Finish(j, status) ==
  /\ Status(JobRow(j)) = "active"
  /\ row' = [i \in Items |->
       IF i = JobRow(j) \/ (i = Key /\ There(Key))
       THEN [status |-> status, old |-> FALSE]
       ELSE IF status = "completed" /\ \E c \in 1 .. Chunks : i = Chunk(j, c)
       THEN [status |-> "pending", old |-> FALSE]
       ELSE row[i]]
  /\ UNCHANGED <<prune, files, lost, runs>>

(* claimDelivery and the outcome of the call: an earlier chunk of the job  *)
(* that is there and was not sent holds a chunk back.                      *)
Deliver(j, c) ==
  /\ Status(Chunk(j, c)) = "pending"
  /\ \A b \in 1 .. c - 1 : There(Chunk(j, b)) => Status(Chunk(j, b)) = "sent"
  /\ \E s \in {"sent", "failed", "ambiguous"} :
       Set({Chunk(j, c)}, s)
  /\ UNCHANGED <<prune, files, lost, runs>>

(* resolveAmbiguousDelivery *)
Resolve(j, c) ==
  /\ Status(Chunk(j, c)) = "ambiguous"
  /\ \E s \in {"sent", "failed", "pending"} :
       Set({Chunk(j, c)}, s)
  /\ UNCHANGED <<prune, files, lost, runs>>

-----------------------------------------------------------------------------
(* queue/retention.ts *)

Old(i, S) == Status(i) \in S /\ row[i].old

(* A job goes with all of its deliveries, or stays. *)
Planned ==
  LET deliveries == {i \in Items : i[1] = "delivery" /\ Old(i, {"sent", "failed"})}
      jobs == {JobRow(j) : j \in {k \in Jobs :
                 /\ Old(JobRow(k), Terminal)
                 /\ \A c \in 1 .. Chunks :
                      There(Chunk(k, c)) => Chunk(k, c) \in deliveries}}
      keys == {i \in {Key} : Old(i, Terminal) /\ \A j \in Jobs : ~There(JobRow(j))}
  IN SetToSeq(deliveries) \o SetToSeq(jobs) \o SetToSeq(keys)

Plan ==
  /\ prune.at = "idle" /\ runs < MaxRuns /\ Planned # <<>>
  /\ prune' = [at |-> "archive", done |-> 0,
               plan |-> [n \in DOMAIN Planned |->
                           <<runs + 1, Planned[n], Status(Planned[n])>>]]
  /\ runs' = runs + 1
  /\ UNCHANGED <<row, files, lost>>

Batch == {prune.plan[n] : n \in {m \in DOMAIN prune.plan :
                                   m > prune.done /\ m <= prune.done + BatchSize}}

(* The next batch; after the last one of the archive the deletes begin.    *)
Advance ==
  IF prune.done + BatchSize < Len(prune.plan)
  THEN prune' = [prune EXCEPT !.done = @ + BatchSize]
  ELSE IF prune.at = "archive" THEN prune' = [prune EXCEPT !.at = "delete", !.done = 0]
                               ELSE prune' = Idle

(* archiveItems: every call names its files anew; when one export fails     *)
(* those the call has written before are removed.                          *)
Archive ==
  /\ prune.at = "archive"
  /\ \/ files' = files \cup Batch /\ Advance
     \/ /\ files' = files \ {prune.plan[n] : n \in 1 .. prune.done}
        /\ prune' = Idle
  /\ UNCHANGED <<row, lost, runs>>

(* Mutant: what was planned is deleted. *)
MutantMayDelete(i, before) == There(i)

(* The conditions of the DELETE statements, with what the statements       *)
(* before have deleted in the transaction                                  *)
MayDelete(i, before) ==
  \/ i[1] = "delivery" /\ Status(i) \in {"sent", "failed"}
  \/ /\ i[1] = "job" /\ Status(i) \in Terminal
     /\ \A c \in 1 .. Chunks : There(Chunk(i[2], c)) => Chunk(i[2], c) \in before
  \/ i = Key /\ Status(i) \in Terminal /\ \A j \in Jobs : ~There(JobRow(j))

(* The deliveries of a job are deleted with it. *)
Cascade(S) == S \cup {i \in Items : i[1] = "delivery" /\ JobRow(i[2]) \in S /\ There(i)}

(* deleteRetentionBatch, a transaction: deliveries and keys, then jobs     *)
Delete ==
  /\ prune.at = "delete"
  /\ LET planned == {e[2] : e \in Batch}
         first == {i \in planned : i[1] # "job" /\ MayDelete(i, {})}
         gone == Cascade(first \cup {i \in planned : i[1] = "job" /\ MayDelete(i, first)})
     IN Set(gone, "gone") /\ lost' = lost \cup {<<runs, i, Status(i)>> : i \in gone}
  /\ Advance
  /\ UNCHANGED <<files, runs>>

(* The process ends; exports of an unfinished call stay. *)
Crash ==
  /\ prune.at # "idle"
  /\ prune' = Idle
  /\ UNCHANGED <<row, files, lost, runs>>

-----------------------------------------------------------------------------
Next ==
  \/ \E i \in Items : Ages(i)
  \/ \E j \in Jobs :
       \/ Enqueue(j)
       \/ \E s \in Terminal : Finish(j, s)
       \/ \E c \in 1 .. Chunks : Deliver(j, c) \/ Resolve(j, c)
  \/ Plan \/ Archive \/ Delete \/ Crash

Spec == Init /\ [][Next]_vars

-----------------------------------------------------------------------------
TypeOK ==
  /\ \A i \in Items : row[i].old \in BOOLEAN /\ Status(i) \in
       {"none", "gone", "active", "pending", "sent", "failed", "ambiguous"} \cup Terminal
  /\ prune.at \in {"idle", "archive", "delete"}
  /\ {e[2] : e \in files \cup lost} \subseteq Items
  /\ runs \in 0 .. MaxRuns

(* docs/plan/inbox-queue-reliability.md:273, 286: nothing is deleted that  *)
(* the same call has not exported as it was, although jobs and deliveries  *)
(* go on while the exports are written, an export fails, or the process    *)
(* ends between two batches; so nothing active is ever deleted             *)
(* (retention.ts:118-134, 276-305, 372-386).                               *)
AuditComplete == lost \subseteq files
=============================================================================
