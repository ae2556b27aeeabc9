------------------------------ MODULE Sessions ------------------------------
(***************************************************************************)
(* One conversation in sessions.sqlite (agent/session.ts): the jobs of the *)
(* ledger that append to it, clear it and compact it, one after the other, *)
(* each with its retries (features/session-context, sandbox/agent-runner). *)
(*                                                                         *)
(* A compaction renames the session to an archive and starts the live one  *)
(* again with a checkpoint.  Ordinary runs read the full context, cron     *)
(* runs with historyMode final-only the finals that were published; each   *)
(* follows the checkpoints of the other kind back to the archives.         *)
(***************************************************************************)
EXTENDS Naturals, FiniteSets, FiniteSetsExt

CONSTANTS
  MaxJobs,      \* bound: jobs of the conversation
  MaxAttempts,  \* attempts of a job
  MaxFaults,    \* bound: attempts that end early
  FaultyJobs    \* bound: the jobs whose attempts do

VARIABLES
  store,   \* store[s]: the entries of session s; Live, or an archive by its job
  job,     \* the row at work, its number is the operationId
  run,     \* what the container and the host hold of the attempt
  refs,    \* committed_conversations
  nextId,  \* AUTOINCREMENT of session_entries
  since,   \* history: entries of turns since the last clear, but the failed ones
  faults

vars == <<store, job, run, refs, nextId, since, faults>>

Live == 0
Modes == {"full", "final-only"}
Initials == {"memory", "anchor", "snapshot", "bootstrap", "reset"}
Idle == [stage |-> "idle", view |-> {}, history |-> {}, applied |-> FALSE,
         user |-> 0, assistant |-> 0]

Init ==
  /\ store = [s \in {Live} |-> {}]
  /\ job = [n |-> 0, action |-> "none", mode |-> "full", attempt |-> 0]
  /\ run = Idle
  /\ refs = {} /\ nextId = 1 /\ since = {} /\ faults = 0

-----------------------------------------------------------------------------
(* agent/session.ts *)

Entry(id, type) ==
  [id |-> id, type |-> type, op |-> job.n, mode |-> job.mode, covers |-> {}]

Append(e) == store' = [store EXCEPT ![Live] = @ \cup {e}]

(* The entries of the session that carry the source of the job *)
Said == {e \in store[Live] : e.type = "user" /\ e.op = job.n}

(* replaceSessionContext, unless there is such an archive *)
Replace(entries) ==
  store' = [s \in DOMAIN store \cup {job.n} |->
              IF s = Live THEN entries ELSE IF s = job.n THEN store[Live] ELSE store[s]]

-----------------------------------------------------------------------------
(* features/session-context *)

Initial(V) == {e \in V : e.type \in Initials}
History(V) == V \ Initial(V)
Checkpoints(V) == {e \in V : e.type = "checkpoint"}

(* Mutant: any checkpoint ends the search. *)
MutantEnds(V, mode) == Checkpoints(V) # {}

(* A checkpoint that holds the context of this kind *)
Ends(V, mode) == \E c \in Checkpoints(V) : c.mode = mode

(* The sessions from the live one back that no such checkpoint cuts off *)
Reached(S, mode) ==
  /\ Live \in S
  /\ \A s \in S : Ends(store[s], mode) \/
                   {c.op : c \in Checkpoints(store[s])} \cap DOMAIN store \subseteq S

(* loadContextSegments: from the live session back to the last such        *)
(* checkpoint, or to the session that has none.                            *)
Segments(mode) ==
  {s \in DOMAIN store : \A S \in SUBSET DOMAIN store : Reached(S, mode) => s \in S}

(* prepareSessionContext *)
FullView ==
  Initial(store[Live]) \cup
  UNION {{e \in History(store[s]) : e.type = "checkpoint" => e.mode = "full"} :
         s \in Segments("full")}

Published(r) == r.public

(* projectSessionContext *)
Finals(V) ==
  {e \in V : e.type = "final" /\ \E r \in refs :
      Published(r) /\ r.assistant = e.id /\ \E u \in V : u.id = r.user}

(* resolveSessionContext *)
FinalView ==
  UNION {{c \in Checkpoints(store[s]) : c.mode = "final-only"} \cup Finals(store[s]) :
         s \in Segments("final-only")}

(* What is left of the entries of a view, by themselves or in a summary *)
Carries(V) ==
  {e.id : e \in {x \in V : x.type \in {"user", "final"}}} \cup
  UNION {c.covers : c \in Checkpoints(V)}

Applied(V) == \E e \in V : e.type \in {"reset", "checkpoint"} /\ e.op = job.n

-----------------------------------------------------------------------------
(* The ledger and the poller: the next job, the attempts, the commit *)

Accept ==
  /\ run.stage = "idle" /\ job.n < MaxJobs
  /\ \E action \in {"none", "clear", "compact"}, mode \in Modes :
       /\ action # "none" => mode = "full"
       /\ job' = [n |-> job.n + 1, action |-> action, mode |-> mode, attempt |-> 1]
  /\ run' = [Idle EXCEPT !.stage = "host"]
  /\ UNCHANGED <<store, refs, nextId, since, faults>>

(* The attempt ends early: the process dies, the model or a tool fails.    *)
Fail ==
  /\ run.stage \notin {"idle", "conflict"} /\ job.n \in FaultyJobs
  /\ faults < MaxFaults /\ faults' = faults + 1
  /\ IF job.attempt < MaxAttempts
     THEN job' = [job EXCEPT !.attempt = @ + 1] /\ run' = [Idle EXCEPT !.stage = "host"]
     ELSE job' = job /\ run' = Idle
  /\ UNCHANGED <<store, refs, nextId, since>>

(* Before the container: the finals of a final-only run are resolved, then *)
(* prepareInitialMemory chooses for the first request of a session.        *)
Host ==
  /\ run.stage = "host"
  /\ run' = [run EXCEPT !.stage = "prepare",
                        !.history = IF job.mode = "final-only" THEN FinalView ELSE {}]
  /\ IF /\ job.action = "none"
        /\ \A e \in store[Live] : e.type \notin {"memory", "user", "final", "error", "checkpoint"}
     THEN Append(Entry(nextId, "memory")) /\ nextId' = nextId + 1
     ELSE UNCHANGED <<store, nextId>>
  /\ UNCHANGED <<job, refs, since, faults>>

(* commitResult: a reply, with the entries the container has named *)
Commit ==
  /\ run.stage = "answered"
  /\ IF run.assistant = 0 THEN UNCHANGED refs
     ELSE \E public \in BOOLEAN :
            refs' = refs \cup {[user |-> run.user, assistant |-> run.assistant,
                                public |-> public]}
  /\ run' = Idle
  /\ UNCHANGED <<store, job, nextId, since, faults>>

-----------------------------------------------------------------------------
(* sandbox/agent-runner.ts: runAgentLoop *)

(* Mutant: a retry does not notice. *)
MutantDone == FALSE

(* alreadyApplied *)
Done == Applied(store[Live])

Prepare ==
  /\ run.stage = "prepare"
  /\ CASE job.action = "clear" ->
            /\ run' = [run EXCEPT !.stage = "answered"]
            /\ IF Done \/ job.n \in DOMAIN store THEN UNCHANGED <<store, nextId, since>>
               ELSE /\ Replace({Entry(nextId, "reset")}) /\ nextId' = nextId + 1
                    /\ since' = {}
       [] job.action = "compact" /\ Done ->
            /\ run' = [run EXCEPT !.stage = "answered"]
            /\ UNCHANGED <<store, nextId, since>>
       [] OTHER ->
            /\ run' = [run EXCEPT !.stage = "bootstrap", !.view = FullView, !.applied = Done]
            /\ UNCHANGED <<store, nextId, since>>
  /\ UNCHANGED <<job, refs, faults>>

(* initializeSessionBootstrap: what is missing, one transaction after the  *)
(* other.                                                                  *)
Order == <<"anchor", "snapshot", "bootstrap">>

Lacks(V) ==
  {i \in DOMAIN Order : \A e \in V :
     /\ e.type # Order[i]
     /\ Order[i] = "bootstrap" => e.type \notin {"final", "error"}}

Bootstrap ==
  /\ run.stage = "bootstrap"
  /\ IF Lacks(run.view) = {}
     THEN run' = [run EXCEPT !.stage = "preprocess"] /\ UNCHANGED <<store, nextId>>
     ELSE LET e == Entry(nextId, Order[Min(Lacks(run.view))])
          IN /\ Append(e) /\ nextId' = nextId + 1
             /\ run' = [run EXCEPT !.view = @ \cup {e}]
  /\ UNCHANGED <<job, refs, since, faults>>

(* The context of the run: failed turns are left out. *)
Context ==
  IF job.mode = "full" THEN {e \in run.view : e.type # "error"}
  ELSE Initial(run.view) \cup run.history

(* What the summary and the recent messages hold *)
Summarized == Carries(Context)

(* compactSessionContext, when the summary was made and is shorter *)
Checkpoint ==
  LET initial == Initial(Context)
      new == {[e EXCEPT !.id = nextId + Cardinality({i \in initial : i.id < e.id})] :
              e \in initial}
      c == [Entry(nextId + Cardinality(initial), "checkpoint") EXCEPT !.covers = Summarized]
  IN IF job.n \in DOMAIN store
     THEN run' = [run EXCEPT !.stage = "conflict"] /\ UNCHANGED <<store, nextId>>
     ELSE /\ Replace(new \cup {c}) /\ nextId' = nextId + Cardinality(initial) + 1
          /\ run' = [run EXCEPT !.stage = IF job.action = "compact" THEN "answered" ELSE "run"]

(* preprocessSessionContext: asked for, or too long, and there is          *)
(* something old to summarize                                              *)
Preprocess ==
  /\ run.stage = "preprocess"
  /\ \/ /\ run' = [run EXCEPT !.stage = IF job.action = "compact" THEN "answered" ELSE "run"]
        /\ UNCHANGED <<store, nextId>>
     \/ ~run.applied /\ History(Context) # {} /\ Checkpoint
  /\ UNCHANGED <<job, refs, since, faults>>

(* The first user message, with its source *)
AppendUser ==
  /\ run.stage = "run"
  /\ IF Said # {}
     THEN /\ run' = [run EXCEPT !.stage = "model", !.user = Max({e.id : e \in Said})]
          /\ UNCHANGED <<store, nextId, since>>
     ELSE /\ Append(Entry(nextId, "user")) /\ nextId' = nextId + 1
          /\ run' = [run EXCEPT !.stage = "model", !.user = nextId]
          /\ since' = since \cup {nextId}
  /\ UNCHANGED <<job, refs, faults>>

(* The last assistant message; a failed one stays in the store too.        *)
AppendAssistant ==
  /\ run.stage = "model"
  /\ \E type \in {"final", "error"} :
       /\ Append(Entry(nextId, type)) /\ nextId' = nextId + 1
       /\ since' = IF type = "final" THEN since \cup {nextId} ELSE since
       /\ run' = [run EXCEPT !.stage = "answered", !.assistant = nextId]
  /\ UNCHANGED <<job, refs, faults>>

-----------------------------------------------------------------------------
Next ==
  \/ Accept \/ Fail \/ Host \/ Commit
  \/ Prepare \/ Bootstrap \/ Preprocess \/ AppendUser \/ AppendAssistant

Spec == Init /\ [][Next]_vars

-----------------------------------------------------------------------------
(* The types of all variables; the ids of the entries are distinct. *)
TypeOK ==
  /\ DOMAIN store \subseteq 0 .. MaxJobs /\ Live \in DOMAIN store
  /\ \A s \in DOMAIN store : \A e \in store[s] :
       /\ e.id \in 1 .. nextId - 1 /\ e.op \in 1 .. MaxJobs /\ e.mode \in Modes
       /\ e.type \in Initials \cup {"user", "final", "error", "checkpoint"}
       /\ \A t \in DOMAIN store : \A f \in store[t] : e.id = f.id => s = t /\ e = f
  /\ job \in [n : 0 .. MaxJobs, action : {"none", "clear", "compact"}, mode : Modes,
              attempt : 0 .. MaxAttempts]
  /\ run.stage \in {"idle", "host", "prepare", "bootstrap", "preprocess", "run", "model",
                    "answered", "conflict"}
  /\ faults \in 0 .. MaxFaults

PublicFinals == {r.assistant : r \in {x \in refs : Published(x)}}

(* However the two kinds of runs compact in turn, and whichever attempts   *)
(* die: the full context holds every turn since the last clear and none    *)
(* before it, the final-only context exactly the published finals of them, *)
(* and nothing of a user or a private run (compaction.ts:46-60,            *)
(* preprocessing.ts:71-92, final-only.ts:40-70).                           *)
ContextsExact ==
  /\ Carries(FullView) = since
  /\ Carries(FinalView) = since \cap PublicFinals

(* A conversation the host adopted stays resolvable: its two entries are   *)
(* in one session, archived or not, and carry the source                   *)
(* (session.ts:194-201, 417-428).                                          *)
RefsResolve ==
  \A r \in refs : \E s \in DOMAIN store : \E u, a \in store[s] :
    /\ u.id = r.user /\ u.type = "user"
    /\ a.id = r.assistant /\ a.op = u.op

(* The initial context is chosen once for a session, and the memory before *)
(* its first turn.                                                         *)
InitializedOnce ==
  \A t \in {"memory", "anchor", "snapshot", "bootstrap"} : \A s \in DOMAIN store :
    LET E == {e \in store[s] : e.type = t} IN
    /\ Cardinality(E) <= 1
    /\ t = "memory" => \A e \in E, x \in History(store[s]) : e.id < x.id

(* A retry notices what an earlier attempt has written before it died: it  *)
(* never meets the archive of its own operation (compaction.ts:291-292),   *)
(* and it initializes no session twice (session-bootstrap.ts:132-151,      *)
(* 205-233, initial-memory.ts:40-52).                                      *)
RetriesRepeatNothing == run.stage # "conflict" /\ InitializedOnce
=============================================================================
