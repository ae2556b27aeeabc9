---------------------------- MODULE MemoryExport ----------------------------
(***************************************************************************)
(* The export of conversations to a memory backend (memory/export.ts,      *)
(* memory/export-ledger.ts, memory/tencentdb.ts, features/memory-export.ts *)
(* and the cron job).  A job of the queue sends, in the order of the       *)
(* commits, the turns its ledger does not have, and notes each as soon as  *)
(* the backend has accepted it.  The jobs of a backend share a session.    *)
(* The backend itself is external.                                         *)
(***************************************************************************)
EXTENDS Integers, FiniteSets, Sequences

CONSTANTS
  Turns,         \* Turns[g]: the kinds of the conversations of the g-th group
                 \* of the settings, in the order of their commits
  BatchSize,
  MaxAttempts, MaxTicks,
  MaxMishaps     \* bound on crashes, lost answers and failures

VARIABLES
  committed,  \* committed[g]: how many of its turns are committed
  gone,       \* turns whose session was deleted
  queue,      \* the attempts left to each job of the session, oldest first
  run,        \* the job that runs: its step, the turn, how many were sent
  ledger,     \* the turns that are noted
  accepted,   \* accepted[t]: how often the backend took it
  doubts,     \* doubts[t]: how often nobody could note that
  enabled, ticks, mishaps

vars == <<committed, gone, queue, run, ledger, accepted, doubts, enabled, ticks, mishaps>>

\* A turn is a reply that ended well, one that did not, or one the backend
\* refuses for good.
Kinds == {"eligible", "ineligible", "refused"}
Turn == UNION {{<<g, i>> : i \in DOMAIN Turns[g]} : g \in DOMAIN Turns}
KindOf(t) == Turns[t[1]][t[2]]
Zero == [t \in Turn |-> 0]
Idle == [step |-> "idle", turn |-> <<1, 0>>, sent |-> 0]

Init ==
  /\ committed = [g \in DOMAIN Turns |-> 0] /\ gone = {}
  /\ queue = <<>> /\ run = Idle
  /\ ledger = {} /\ accepted = Zero /\ doubts = Zero
  /\ enabled = TRUE /\ ticks = 0 /\ mishaps = 0

At(step) == run.step = step
Mishap == mishaps < MaxMishaps /\ mishaps' = mishaps + 1

-----------------------------------------------------------------------------
(* The job *)

(* The cron handler only queues a job; a disabled one is not run. *)
Tick ==
  /\ enabled /\ ticks < MaxTicks
  /\ queue' = Append(queue, MaxAttempts)
  /\ ticks' = ticks + 1
  /\ UNCHANGED <<committed, gone, run, ledger, accepted, doubts, enabled, mishaps>>

(* A job that is no longer configured, or whose settings do not parse,     *)
(* ends without doing anything. *)
StartJob ==
  /\ At("idle") /\ queue # <<>>
  /\ IF enabled
     THEN /\ run' = [Idle EXCEPT !.step = "scan"]
          /\ queue' = [queue EXCEPT ![1] = @ - 1]
     ELSE queue' = Tail(queue) /\ UNCHANGED run
  /\ UNCHANGED <<committed, gone, ledger, accepted, doubts, enabled, ticks, mishaps>>

EndsWell == run' = Idle /\ queue' = Tail(queue)

(* A failed job keeps its place, and its attempts, until they are used up. *)
Fails == run' = Idle /\ queue' = IF queue[1] = 0 THEN Tail(queue) ELSE queue

Before(t, u) == t[1] < u[1] \/ (t[1] = u[1] /\ t[2] < u[2])

(* What the scan of readCaptureTurns can still come to. *)
ToSend ==
  {t \in Turn : /\ Before(run.turn, t) /\ t[2] <= committed[t[1]]
                /\ t \notin gone \cup ledger /\ KindOf(t) # "ineligible"}

(* The signal of the worker is looked at before each turn. *)
Scan ==
  /\ At("scan")
  /\ \/ /\ ToSend = {} /\ EndsWell
        /\ UNCHANGED mishaps
     \/ \E t \in ToSend :
          /\ \A u \in ToSend : u = t \/ Before(t, u)
          /\ run' = [run EXCEPT !.step = "send", !.turn = t]
          /\ UNCHANGED <<queue, mishaps>>
     \/ Mishap /\ Fails
  /\ UNCHANGED <<committed, gone, ledger, accepted, doubts, enabled, ticks>>

(* Mutant: a turn the backend refuses is left out. *)
MutantRefused == run' = [run EXCEPT !.step = "scan"] /\ UNCHANGED queue

(* NonRetryableError: the row goes to the dead letters at once. *)
Refused == run' = Idle /\ queue' = Tail(queue)

Send ==
  /\ At("send")
  /\ IF KindOf(run.turn) = "refused"
     THEN Refused /\ UNCHANGED <<accepted, doubts, mishaps>>
     ELSE \/ /\ accepted' = [accepted EXCEPT ![run.turn] = @ + 1]
             /\ run' = [run EXCEPT !.step = "note"]
             /\ UNCHANGED <<queue, doubts, mishaps>>
          \/ Mishap /\ Fails /\ UNCHANGED <<accepted, doubts>>
          \/ /\ Mishap /\ Fails
             /\ accepted' = [accepted EXCEPT ![run.turn] = @ + 1]
             /\ doubts' = [doubts EXCEPT ![run.turn] = @ + 1]
  /\ UNCHANGED <<committed, gone, ledger, enabled, ticks>>

Note ==
  /\ At("note")
  /\ \/ /\ ledger' = ledger \cup {run.turn}
        /\ IF run.sent + 1 >= BatchSize THEN EndsWell
           ELSE run' = [run EXCEPT !.step = "scan", !.sent = @ + 1] /\ UNCHANGED queue
        /\ UNCHANGED <<doubts, mishaps>>
     \/ /\ Mishap /\ Fails
        /\ doubts' = [doubts EXCEPT ![run.turn] = @ + 1]
        /\ UNCHANGED ledger
  /\ UNCHANGED <<committed, gone, accepted, enabled, ticks>>

-----------------------------------------------------------------------------
(* Commits, deletions, the host *)

Commit(g) ==
  /\ committed[g] < Len(Turns[g])
  /\ committed' = [committed EXCEPT ![g] = @ + 1]
  /\ UNCHANGED <<gone, queue, run, ledger, accepted, doubts, enabled, ticks, mishaps>>

Delete(t) ==
  /\ t[2] <= committed[t[1]] /\ t \notin gone /\ Mishap
  /\ gone' = gone \cup {t}
  /\ UNCHANGED <<committed, queue, run, ledger, accepted, doubts, enabled, ticks>>

(* The host crashes and starts again with the settings of now; a job that  *)
(* has no attempts left is buried.                                         *)
Restart ==
  /\ Mishap
  /\ run' = Idle
  /\ queue' = IF run # Idle /\ queue[1] = 0 THEN Tail(queue) ELSE queue
  /\ \/ UNCHANGED <<accepted, doubts>> /\ ~At("note")
     \/ /\ At("note")
        /\ doubts' = [doubts EXCEPT ![run.turn] = @ + 1]
        /\ UNCHANGED accepted
     \/ /\ At("send") /\ KindOf(run.turn) = "eligible"
        /\ accepted' = [accepted EXCEPT ![run.turn] = @ + 1]
        /\ doubts' = [doubts EXCEPT ![run.turn] = @ + 1]
  /\ enabled' \in BOOLEAN
  /\ UNCHANGED <<committed, gone, ledger, ticks>>

Next ==
  \/ Tick \/ StartJob \/ Scan \/ Send \/ Note \/ Restart
  \/ \E g \in DOMAIN Turns : Commit(g)
  \/ \E t \in Turn : Delete(t)

Spec == Init /\ [][Next]_vars

-----------------------------------------------------------------------------
TypeOK ==
  /\ \A t \in Turn : KindOf(t) \in Kinds
  /\ \A g \in DOMAIN Turns : committed[g] \in 0 .. Len(Turns[g])
  /\ gone \subseteq Turn /\ ledger \subseteq Turn
  /\ queue \in Seq(0 .. MaxAttempts)
  /\ run \in [step : {"idle", "scan", "send", "note"}, turn : Turn \cup {Idle.turn},
              sent : 0 .. BatchSize]
  /\ accepted \in [Turn -> Nat] /\ doubts \in [Turn -> Nat]
  /\ enabled \in BOOLEAN
  /\ ticks \in 0 .. MaxTicks /\ mishaps \in 0 .. MaxMishaps

(* The backend gets the turns of a group in the order of their commits,    *)
(* whatever fails and is tried again: none is passed over.  A turn that is *)
(* noted was accepted, and a second copy is sent only of a turn whose      *)
(* acceptance could not be noted (memory/export.ts:61-82,                  *)
(* docs/agent-memory.md "queueと成功ledger").                              *)
ExportedInOrder ==
  /\ \A t \in Turn :
       accepted[t] > 0 =>
         \A i \in 1 .. t[2] - 1 :
           LET u == <<t[1], i>> IN
           KindOf(u) = "ineligible" \/ u \in gone \/ accepted[u] > 0
  /\ \A t \in Turn : t \in ledger => accepted[t] > doubts[t]
  /\ \A t \in Turn : accepted[t] <= 1 + doubts[t]
=============================================================================
