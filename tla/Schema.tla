------------------------------- MODULE Schema -------------------------------
(***************************************************************************)
(* Opening the job ledger: the migrations of queue/repository.ts, run by   *)
(* every process that opens the database (the bot, the operator tools)     *)
(* over whatever an earlier release left there.  A process reads the       *)
(* version before it takes the write lock, so what it plans may be done    *)
(* already when it gets there.                                             *)
(***************************************************************************)
EXTENDS Integers, FiniteSets, FiniteSetsExt

CONSTANTS
  Procs, Null,
  Rows,        \* 1 .. n, in the order of created_at and id
  Session,     \* of each row
  Legacy,      \* the rows that were there before the first migration
  MaxCrashes

VARIABLES
  store,      \* the database file
  proc,       \* of each process: its stage and the version it read
  begun,      \* rows a worker claimed since
  crashes

vars == <<store, proc, begun, crashes>>

Current == 10     \* QUEUE_SCHEMA_VERSION
(* Columns and tables that came after the first durable jobs table. *)
Base == {"deliveries", "completed_at", "suppressed", "source_kind"}
Tables == Base \cup {"cursors", "initialized", "bots", "conversations", "mail"}
Statuses == {"none", "queued", "running", "completed"}

(* A chunk of a response: the job, its index and its host_unique_key.      *)
Chunk(r, i) == [job |-> r, index |-> i, key |-> <<r, i>>]
Keyless(r) == [job |-> r, index |-> 0, key |-> Null]

NoStore == [version |-> 0, jobs |-> "none", parts |-> {}, chunks |-> {},
            status |-> [r \in Rows |-> "none"], sequence |-> [r \in Rows |-> 0]]
Closed == [stage |-> "closed", from |-> 0]

(* The stores of earlier releases: none; one of the first release, with a  *)
(* row of any status that may have a delivery; a durable one of version 2  *)
(* or 5 in which some ALTER statements were never applied (the comment at  *)
(* repository.ts:670-673); one that is current but for a column.           *)
Statused == {f \in [Rows -> Statuses] : \A r \in Rows : f[r] = "none" <=> r \notin Legacy}
Oldest(v, f) ==
  [NoStore EXCEPT !.version = v, !.jobs = "legacy", !.status = f,
                  !.chunks = {Keyless(r) : r \in {x \in Legacy : f[x] = "completed"}}]
First == {Oldest(v, f) : v \in {0, 1}, f \in Statused}
Position(r, S) == Cardinality({q \in S : Session[q] = Session[r] /\ q < r})
Ordered(s, S) == [s EXCEPT !.sequence = [r \in Rows |-> IF r \in S THEN Position(r, S) ELSE 0]]
Waiting == [r \in Rows |-> IF r \in Legacy THEN "queued" ELSE "none"]
Partial == {Ordered([NoStore EXCEPT !.version = 2, !.jobs = "modern", !.parts = P,
                                    !.status = Waiting], Legacy) :
              P \in {{}, Base, {"deliveries", "completed_at", "cursors"}}}
Stale == {Ordered([NoStore EXCEPT !.version = v, !.jobs = "modern", !.parts = Tables \ P,
                                  !.status = Waiting], Legacy) :
            v \in {5, Current}, P \in {Tables, {"deliveries"}, {"completed_at"}}}

Init ==
  /\ store \in {NoStore} \cup First \cup Partial \cup Stale
  /\ proc = [p \in Procs |-> Closed]
  /\ begun = {} /\ crashes = 0

There(s) == {r \in Rows : s.status[r] # "none"}

-----------------------------------------------------------------------------
(* The steps of the migrations, on the store of the transaction. *)
(* Mutant: every store is rebuilt. *)
MutantIsLegacy(s) == s.jobs # "none"
(* jobsTableIsLegacy *)
IsLegacy(s) == s.jobs = "legacy"

(* rebuildLegacyQueueSchema copies the rows into the tables of now. *)
Rebuilt(s) ==
  Ordered([s EXCEPT !.jobs = "modern", !.parts = @ \cup Base,
                    !.status = [r \in Rows |-> IF @[r] = "running" THEN "queued" ELSE @[r]],
                    !.chunks = {Keyless(c.job) : c \in @}], There(s))

CreateBase(s) ==
  IF s.jobs = "none" THEN [s EXCEPT !.jobs = "modern", !.parts = @ \cup Base] ELSE s

(* applyDurableRuntimeColumns: the keys of chunks that have none yet. *)
Keyed(c) == IF c.key = Null THEN [c EXCEPT !.key = <<c.job, 0>>] ELSE c
Durable(s) == [s EXCEPT !.parts = @ \cup Base, !.chunks = {Keyed(c) : c \in @}]

Shaped(s) == IF IsLegacy(s) THEN Rebuilt(s) ELSE s

(* Mutant: only the newest tables are made again. *)
MutantRepaired(s) == [Durable(Shaped(s)) EXCEPT !.parts = @ \cup {"bots", "mail"}]
(* repairRuntimeSchema *)
Repaired(s) == [Durable(Shaped(s)) EXCEPT !.parts = Tables]

Up(v, s) ==
  CASE v = 1 -> CreateBase(Shaped(s))
    [] v \in {2, 3, 4, 6} -> Repaired(s)
    [] v = 5 -> [s EXCEPT !.parts = @ \cup {"bots"}]
    [] v \in {7, 10} -> [s EXCEPT !.parts = @ \cup {"conversations"}]
    [] v = 8 -> [s EXCEPT !.parts = @ \cup {"mail"}]
    [] v = 9 -> [s EXCEPT !.parts = @ \cup {"source_kind"}]

-----------------------------------------------------------------------------
(* A process opens the ledger: it reads the version first ... *)
Read(p) ==
  /\ proc[p].stage = "closed"
  /\ proc' = [proc EXCEPT ![p] = [stage |-> "read", from |-> store.version]]
  /\ UNCHANGED <<store, begun, crashes>>

(* ... and in one transaction takes the steps after that version, or       *)
(* repairs when there is none.                                             *)
Pending(v, from, s) == IF from < v THEN Up(v, s) ELSE s

ToFive(from, s) ==
  Pending(5, from, Pending(4, from, Pending(3, from, Pending(2, from, Pending(1, from, s)))))

Migrated(from, s) ==
  IF from = Current THEN Repaired(s)
  ELSE Pending(10, from, Pending(9, from, Pending(8, from, Pending(7, from,
         Pending(6, from, ToFive(from, s))))))

Migrate(p) ==
  /\ proc[p].stage = "read"
  /\ store' = [Migrated(proc[p].from, store) EXCEPT !.version = Current]
  /\ proc' = [proc EXCEPT ![p].stage = "open"]
  /\ UNCHANGED <<begun, crashes>>

(* A process ends, or does not get the write lock within busy_timeout, or  *)
(* a step fails and the transaction is rolled back.                        *)
Crash(p) ==
  /\ proc[p].stage # "closed" /\ crashes < MaxCrashes
  /\ crashes' = crashes + 1
  /\ proc' = [proc EXCEPT ![p] = Closed]
  /\ UNCHANGED <<store, begun>>

-----------------------------------------------------------------------------
(* What an open process does with the ledger meanwhile.                    *)
Works(p) == proc[p].stage = "open" /\ UNCHANGED <<proc, crashes>>

(* NextSequence of JobQueue. *)
Accept(p, r) ==
  /\ Works(p) /\ r \notin There(store) /\ \A q \in Rows : q < r => q \in There(store)
  /\ LET taken == {store.sequence[q] : q \in {x \in There(store) : Session[x] = Session[r]}} IN
     store' = [store EXCEPT !.status[r] = "queued", !.sequence[r] = 1 + Max({-1} \cup taken)]
  /\ UNCHANGED begun

Claim(p, r) ==
  /\ Works(p) /\ store.status[r] = "queued"
  /\ store' = [store EXCEPT !.status[r] = "running"]
  /\ begun' = begun \cup {r}

Complete(p, r) ==
  /\ Works(p) /\ r \in begun /\ store.status[r] = "running"
  /\ store' = [store EXCEPT !.status[r] = "completed",
                            !.chunks = @ \cup {Chunk(r, 0), Chunk(r, 1)}]
  /\ UNCHANGED begun

Next ==
  \E p \in Procs :
    \/ Read(p) \/ Migrate(p) \/ Crash(p)
    \/ \E r \in Rows : Accept(p, r) \/ Claim(p, r) \/ Complete(p, r)

Spec == Init /\ [][Next]_vars

-----------------------------------------------------------------------------
StoreOK(s) ==
  /\ s.version \in 0 .. Current /\ s.jobs \in {"none", "legacy", "modern"}
  /\ s.parts \subseteq Tables /\ s.status \in [Rows -> Statuses]
  /\ s.sequence \in [Rows -> Nat]
  /\ \A c \in s.chunks : c.job \in Rows /\ c.index \in {0, 1}

TypeOK ==
  /\ StoreOK(store)
  /\ \A p \in Procs : /\ proc[p].stage \in {"closed", "read", "open"}
                      /\ proc[p].from \in 0 .. Current
  /\ begun \subseteq Rows /\ crashes \in 0 .. MaxCrashes

(* A process that has the ledger open finds every table and column it uses *)
(* (repository.ts:783-820), whatever release wrote the file.               *)
OpenIsWhole ==
  (\E p \in Procs : proc[p].stage = "open") =>
     store.jobs = "modern" /\ store.parts = Tables /\ store.version = Current

(* No migration, also one that was planned before another process did it,  *)
(* disturbs the work: a session keeps the order of its rows, a row that    *)
(* was claimed is not queued again, and every chunk of a completed row     *)
(* keeps its place and its key (repository.ts:499-606).                    *)
WorkUndisturbed ==
  store.jobs = "modern" =>
    /\ \A q, r \in There(store) :
         Session[q] = Session[r] /\ q < r => store.sequence[q] < store.sequence[r]
    /\ \A r \in begun :
         /\ store.status[r] \in {"running", "completed"}
         /\ store.status[r] = "completed" => {Chunk(r, 0), Chunk(r, 1)} \subseteq store.chunks
=============================================================================
