------------------------------- MODULE Intake -------------------------------
(***************************************************************************)
(* One configured Discord channel: live messages (discord/intake.ts), the  *)
(* recovery of what was posted while the bot was down                      *)
(* (discord/backfill.ts) and the cursors both move                         *)
(* (queue/repository.ts, discord/backfill-state.ts).                       *)
(*                                                                         *)
(* Message ids grow with time.  Scope 0 is the channel; a thread has the   *)
(* id of the message it was started from, as on Discord.  A forum has      *)
(* threads only.  Discord, the people in it and the job ledger's insides   *)
(* are outside; the gateway delivers every message while the bot is up.    *)
(***************************************************************************)
EXTENDS Naturals, Sequences, FiniteSets, FiniteSetsExt

CONSTANTS
  Setups,       \* the channel types and session modes to consider
  PageSize,     \* DISCORD_MESSAGE_PAGE_SIZE
  MaxMessages, MaxTroubles   \* bounds of the model

Modes == {"shared", "thread", "auto-thread"}   \* email-mode acts as thread

ASSUME IntakeAssumption ==
  /\ Setups \subseteq [forum : BOOLEAN, mode : Modes]
  /\ PageSize \in Nat \ {0}
  /\ {MaxMessages, MaxTroubles} \subseteq Nat

Ids == 1 .. MaxMessages
Scopes == 0 .. MaxMessages

VARIABLES
  setup,         \* the channel's type and session mode
  posted,        \* posted[m]: the scope of message m and whether a human's
  threads, archived,     \* the threads there are; those Discord archived
  cursor, initialized,   \* discord_sync_cursors: last_message_id or 0
  jobs,          \* jobs[m]: rows enqueued for message m
  appended,      \* messages appended to the session without a job
  stage,         \* how far the process is with the channel
  appendOnly,    \* appendUserOnly in the configuration it started with
  gate,          \* the channel is in pendingBackfills
  live,          \* live[m]: the step the handler of m waits to take
  fallback,      \* rootCursor as read at the start: {} if undefined
  complete, forumWas, todo, after,  \* fetchThreads' result; what is left
  scan,          \* recoverMessages at work
  told,          \* messages whose sender got a failure reply
  history,       \* messages that were there when the channel was first opened
  excused,       \* messages the code is known not to recover
  unlisted,      \* messages of threads archived when the threads were listed
  troubles       \* crashes, failures and archivings so far

discord == <<posted, threads, archived>>
stored == <<cursor, initialized, jobs, appended>>
walk == <<fallback, complete, forumWas, todo, after, scan>>
past == <<told, history, excused, unlisted>>
vars == <<setup, discord, stored, stage, appendOnly, gate, live, walk, past, troubles>>

NoScan == [scope |-> 0, page |-> {}, full |-> FALSE, step |-> "off", cursor |-> 0]

Init ==
  /\ setup \in Setups
  /\ posted = <<>> /\ threads = {} /\ archived = {}
  /\ cursor = [s \in Scopes |-> 0] /\ initialized = {}
  /\ jobs = [m \in Ids |-> 0] /\ appended = <<>>
  /\ stage = "down" /\ appendOnly = FALSE /\ gate = FALSE
  /\ live = [m \in Ids |-> "idle"]
  /\ fallback = {} /\ complete = TRUE /\ forumWas = FALSE /\ todo = {}
  /\ after = <<>> /\ scan = NoScan
  /\ told = {} /\ history = {} /\ excused = {} /\ unlisted = {}
  /\ troubles = 0

Known == 1 .. Len(posted)
In(s) == {m \in Known : posted[m].scope = s}
InFlight == {m \in Ids : live[m] # "idle"}
Up == stage # "down"

Trouble == troubles < MaxTroubles /\ troubles' = troubles + 1

-----------------------------------------------------------------------------
(* queue/repository.ts *)

(* upsertDiscordCursor: forward only. *)
Upsert(s, m) ==
  /\ cursor' = [cursor EXCEPT ![s] = IF m > @ THEN m ELSE @]
  /\ initialized' = initialized \cup {s}

(* initializeDiscordCursor: an empty scope was seen. *)
MarkInitialized(s) == initialized' = initialized \cup {s} /\ UNCHANGED cursor

(* Mutant: no idempotency key. *)
MutantEnqueued(m) == [jobs EXCEPT ![m] = @ + 1]

(* enqueue under the key of the message *)
Enqueued(m) == [jobs EXCEPT ![m] = IF @ = 0 THEN 1 ELSE @]

-----------------------------------------------------------------------------
(* discord/intake.ts, live *)

(* ingest: session mode and scope decide whether a message is a turn. *)
Accepts(s) == IF s = 0 THEN setup.mode # "thread" /\ ~setup.forum
                       ELSE setup.mode # "shared"

FirstStep(s) == IF s = 0 /\ setup.mode = "auto-thread" THEN "thread" ELSE "enqueue"

(* handleLiveDiscordMessage up to its first await *)
Received(m, s, human) ==
  CASE ~Up \/ ~human -> "idle"
    [] Up /\ human /\ appendOnly -> IF s = 0 THEN "append" ELSE "idle"
    [] OTHER -> IF Accepts(s) THEN FirstStep(s) ELSE "idle"

(* Somebody posts in the channel, in a thread (which reopens it), or, in a *)
(* forum, a new post.                                                      *)
Post(s, human) ==
  LET m == Len(posted) + 1 IN
  /\ m \in Ids
  /\ \/ s = 0 /\ ~setup.forum /\ UNCHANGED threads
     \/ s \in threads /\ UNCHANGED threads
     \/ s = m /\ setup.forum /\ threads' = threads \cup {m}
  /\ posted' = Append(posted, [scope |-> s, human |-> human])
  /\ archived' = archived \ {s}
  /\ live' = [live EXCEPT ![m] = Received(m, s, human)]
  /\ UNCHANGED <<setup, stored, stage, appendOnly, gate, walk, past, troubles>>

(* Somebody starts a thread by hand; the bot itself does in auto-thread    *)
(* mode, and in shared mode threads are of no account.                     *)
StartThread(m) ==
  /\ setup.mode = "thread" /\ m \in In(0) \ threads
  /\ threads' = threads \cup {m}
  /\ UNCHANGED <<setup, posted, archived, stored, stage, appendOnly, gate, live,
                 walk, past, troubles>>

Archive(t) ==
  /\ t \in threads \ archived /\ Trouble
  /\ archived' = archived \cup {t}
  /\ UNCHANGED <<setup, posted, threads, stored, stage, appendOnly, gate, live,
                 walk, past>>

(* findOrCreateThread: the thread of the message, new or not. *)
LiveThread(m) ==
  /\ live[m] = "thread"
  /\ threads' = threads \cup {m}
  /\ live' = [live EXCEPT ![m] = "enqueue"]
  /\ UNCHANGED <<setup, posted, archived, stored, stage, appendOnly, gate, walk,
                 past, troubles>>

LiveEnqueue(m) ==
  /\ live[m] = "enqueue"
  /\ jobs' = Enqueued(m)
  /\ live' = [live EXCEPT ![m] = "cursor"]
  /\ UNCHANGED <<setup, discord, cursor, initialized, appended, stage,
                 appendOnly, gate, walk, past, troubles>>

(* Mutant: live messages move the cursor at any time. *)
MutantCursorMoves(m) == TRUE

(* The cursor stays while the channel's recovery is pending. *)
CursorMoves(m) == ~gate

LiveCursor(m) ==
  /\ live[m] = "cursor"
  /\ IF CursorMoves(m) THEN Upsert(posted[m].scope, m)
                       ELSE UNCHANGED <<cursor, initialized>>
  /\ live' = [live EXCEPT ![m] = "idle"]
  /\ UNCHANGED <<setup, discord, jobs, appended, stage, appendOnly, gate, walk,
                 past, troubles>>

(* Neither thread nor job came about: a reply tells the sender. *)
LiveFails(m) ==
  /\ live[m] \in {"thread", "enqueue"} /\ Trouble
  /\ live' = [live EXCEPT ![m] = "idle"]
  /\ told' = told \cup {m}
  /\ UNCHANGED <<setup, discord, stored, stage, appendOnly, gate, walk, history,
                 excused, unlisted>>

(* liveUserAppends: appends follow each other in order of arrival. *)
NextAppend(m) == \A k \in Ids : live[k] = "append" => m <= k

LiveAppend(m) ==
  /\ live[m] = "append" /\ NextAppend(m)
  /\ appended' = Append(appended, m)
  /\ live' = [live EXCEPT ![m] = "idle"]
  /\ UNCHANGED <<setup, discord, cursor, initialized, jobs, stage, appendOnly,
                 gate, walk, past, troubles>>

-----------------------------------------------------------------------------
(* discord/backfill.ts, run once by index.ts before the pollers start *)

(* prepareDiscordBackfill, then the login after which messages arrive. *)
ClearedCursor == /\ cursor' = [cursor EXCEPT ![0] = 0]
                 /\ initialized' = initialized \ {0}

Start(only) ==
  /\ stage = "down" /\ (only => setup.mode = "shared" /\ ~setup.forum)
  /\ appendOnly' = only /\ gate' = ~only
  /\ stage' = IF only THEN "serving" ELSE "opening"
  /\ IF only THEN ClearedCursor ELSE UNCHANGED <<cursor, initialized>>
  /\ UNCHANGED <<setup, discord, jobs, appended, live, walk, past, troubles>>

ReplaysRoot == setup.mode # "thread"

(* recoverMessages(channel, afterMessageId) *)
Scan(s, c) == [NoScan EXCEPT !.scope = s, !.step = "fetch", !.cursor = c]

(* What an unfinished start leaves in threads without a cursor of their    *)
(* own is behind the root cursor at the next start.                        *)
Cursorless ==
  IF setup.forum THEN {}
  ELSE {m \in Known : posted[m].scope # 0 /\ cursor[posted[m].scope] = 0}

(* ensureRootCursor; the tip of a channel never seen is where it begins.   *)
OpenText ==
  /\ stage = "opening" /\ ~setup.forum
  /\ IF cursor[0] # 0 \/ 0 \in initialized
     THEN /\ fallback' = {cursor[0]}
          /\ UNCHANGED <<cursor, initialized, history>>
     ELSE /\ IF In(0) # {} THEN /\ Upsert(0, Max(In(0)))
                                /\ fallback' = {Max(In(0))}
                           ELSE MarkInitialized(0) /\ fallback' = {}
          /\ history' = Known
  /\ IF ReplaysRoot /\ fallback' # {}
     THEN stage' = "root" /\ \E c \in fallback' : scan' = Scan(0, c)
     ELSE stage' = "listing" /\ scan' = NoScan
  /\ UNCHANGED <<setup, discord, jobs, appended, appendOnly, gate, live, complete,
                 forumWas, todo, after, told, excused, unlisted, troubles>>

(* The variables of backfillTarget are gone. *)
WalkOver ==
  /\ fallback' = {} /\ complete' = TRUE /\ forumWas' = FALSE /\ todo' = {}
  /\ after' = <<>> /\ scan' = NoScan

(* backfillTarget reads isDiscordCursorInitialized of a forum first. *)
OpenForum ==
  /\ stage = "opening" /\ setup.forum /\ setup.mode # "shared"
  /\ forumWas' = (0 \in initialized)
  /\ stage' = "listing"
  /\ UNCHANGED <<setup, discord, stored, appendOnly, gate, live, fallback, complete,
                 todo, after, scan, past, troubles>>

Finish(ok) == stage' = "serving" /\ gate' = ~ok /\ WalkOver

(* A forum that is one shared session has nothing to recover. *)
OpenSharedForum ==
  /\ stage = "opening" /\ setup.forum /\ setup.mode = "shared"
  /\ Finish(TRUE)
  /\ UNCHANGED <<setup, discord, stored, appendOnly, live, past, troubles>>

(* fetchThreads: the active threads only. *)
ListedThreads == threads \ archived

SkipThreads ==
  /\ stage = "listing" /\ setup.mode = "shared"
  /\ Finish(TRUE)
  /\ UNCHANGED <<setup, discord, stored, appendOnly, live, past, troubles>>

ListThreads(ok) ==
  /\ stage = "listing" /\ setup.mode # "shared"
  /\ IF ok THEN UNCHANGED troubles ELSE Trouble
  /\ complete' = ok
  /\ todo' = IF ok THEN ListedThreads ELSE {}
  /\ after' = <<>>
  /\ stage' = IF setup.forum /\ ~forumWas THEN "seeding" ELSE "threads"
  /\ excused' = excused \cup IF ok THEN {} ELSE Cursorless
  /\ unlisted' = unlisted \cup {m \in Known : posted[m].scope \in archived}
  /\ UNCHANGED <<setup, discord, stored, appendOnly, gate, live, fallback, forumWas,
                 scan, told, history>>

(* seedForumThreadCursors, one thread after another, in the order Discord  *)
(* lists them: a thread first seen now begins at its tip.                  *)
Unseeded == todo \ DOMAIN after

AfterOf(c, t) == [x \in DOMAIN after \cup {t} |-> IF x = t THEN c ELSE after[x]]

SeedThread(t) ==
  /\ stage = "seeding" /\ t \in Unseeded
  /\ IF cursor[t] # 0 \/ t \in initialized
     THEN /\ after' = AfterOf({cursor[t]}, t)
          /\ UNCHANGED <<cursor, initialized, history>>
     ELSE IF In(t) # {}
     THEN /\ after' = AfterOf({Max(In(t))}, t)
          /\ Upsert(t, Max(In(t)))
          /\ history' = history \cup In(t)
     ELSE /\ after' = AfterOf({}, t)
          /\ MarkInitialized(t)
          /\ UNCHANGED history
  /\ UNCHANGED <<setup, discord, jobs, appended, stage, appendOnly, gate, live, fallback,
                 complete, forumWas, todo, scan, told, excused, unlisted,
                 troubles>>

(* The forum's boundary is saved before recovery, and only after a         *)
(* complete enumeration.                                                   *)
SaveBoundary ==
  /\ stage = "seeding" /\ Unseeded = {}
  /\ IF complete THEN MarkInitialized(0) ELSE UNCHANGED <<cursor, initialized>>
  /\ stage' = "threads"
  /\ UNCHANGED <<setup, discord, jobs, appended, appendOnly, gate, live, walk, past,
                 troubles>>

(* Where the recovery of t begins, if anywhere. *)
ResumeAfter(t) ==
  IF setup.forum THEN IF t \in DOMAIN after THEN after[t] ELSE {cursor[t]}
  ELSE IF cursor[t] # 0 THEN {cursor[t]} ELSE fallback

NextThread(t) ==
  /\ stage = "threads" /\ scan.step = "off" /\ t \in todo
  /\ todo' = todo \ {t}
  /\ IF ResumeAfter(t) = {} THEN scan' = NoScan
     ELSE \E c \in ResumeAfter(t) : scan' = Scan(t, c)
  /\ UNCHANGED <<setup, discord, stored, stage, appendOnly, gate, live, fallback,
                 complete, forumWas, after, past, troubles>>

After(s, c) == {m \in In(s) : m > c}

(* One page of messages, taken from its oldest. *)
Page(s, c) ==
  {m \in After(s, c) : Cardinality({k \in After(s, c) : k < m}) < PageSize}

ScanStep(page) ==
  IF page = {} THEN "next"
  ELSE IF ~posted[Min(page)].human THEN "cursor"
  ELSE FirstStep(scan.scope)

FetchPage ==
  /\ scan.step = "fetch"
  /\ LET page == Page(scan.scope, scan.cursor) IN
     scan' = [scan EXCEPT !.page = page, !.full = Cardinality(page) = PageSize,
                          !.step = ScanStep(page)]
  /\ UNCHANGED <<setup, discord, stored, stage, appendOnly, gate, live, fallback,
                 complete, forumWas, todo, after, past, troubles>>

ScanThread ==
  /\ scan.step = "thread"
  /\ threads' = threads \cup {Min(scan.page)}
  /\ scan' = [scan EXCEPT !.step = "enqueue"]
  /\ UNCHANGED <<setup, posted, archived, stored, stage, appendOnly, gate, live,
                 fallback, complete, forumWas, todo, after, past, troubles>>

ScanEnqueue ==
  /\ scan.step = "enqueue"
  /\ jobs' = Enqueued(Min(scan.page))
  /\ scan' = [scan EXCEPT !.step = "cursor"]
  /\ UNCHANGED <<setup, discord, cursor, initialized, appended, stage, appendOnly,
                 gate, live, fallback, complete, forumWas, todo, after, past,
                 troubles>>

(* A message that is no turn moves the cursor as well. *)
ScanCursor ==
  /\ scan.step = "cursor"
  /\ LET m == Min(scan.page) IN
     /\ Upsert(scan.scope, m)
     /\ scan' = [scan EXCEPT !.page = @ \ {m}, !.cursor = m,
                             !.step = ScanStep(scan.page \ {m})]
  /\ UNCHANGED <<setup, discord, jobs, appended, stage, appendOnly, gate, live,
                 fallback, complete, forumWas, todo, after, past, troubles>>

(* A page that was not full was the last one. *)
MorePages == scan.full

ScanNext ==
  /\ scan.step = "next"
  /\ IF MorePages THEN scan' = [scan EXCEPT !.step = "fetch"] /\ UNCHANGED stage
     ELSE scan' = NoScan /\ stage' = IF stage = "root" THEN "listing" ELSE stage
  /\ UNCHANGED <<setup, discord, stored, appendOnly, gate, live, fallback, complete,
                 forumWas, todo, after, past, troubles>>

FinishThreads ==
  /\ stage = "threads" /\ scan.step = "off" /\ todo = {}
  /\ Finish(complete)
  /\ UNCHANGED <<setup, discord, stored, appendOnly, live, past, troubles>>

(* Any call of the recovery throws: the process goes on with the gate shut. *)
BackfillFails ==
  /\ stage \in {"opening", "root", "listing", "seeding", "threads"} /\ Trouble
  /\ Finish(FALSE)
  /\ excused' = excused \cup Cursorless
  /\ UNCHANGED <<setup, discord, stored, appendOnly, live, told, history, unlisted>>

Crash ==
  /\ Up /\ Trouble
  /\ stage' = "down" /\ gate' = FALSE /\ appendOnly' = FALSE
  /\ live' = [m \in Ids |-> "idle"]
  /\ WalkOver
  /\ excused' = excused \cup InFlight
                        \cup IF stage = "serving" THEN {} ELSE Cursorless
  /\ UNCHANGED <<setup, discord, stored, told, history, unlisted>>

-----------------------------------------------------------------------------
Discord ==
  \/ \E s \in Scopes, human \in BOOLEAN : Post(s, human)
  \/ \E m \in Ids : StartThread(m) \/ Archive(m)

Live ==
  \E m \in Ids :
    LiveThread(m) \/ LiveEnqueue(m) \/ LiveCursor(m) \/ LiveFails(m) \/ LiveAppend(m)

Backfill ==
  \/ OpenText \/ OpenForum \/ OpenSharedForum \/ SkipThreads
  \/ \E ok \in BOOLEAN : ListThreads(ok)
  \/ \E t \in Ids : SeedThread(t) \/ NextThread(t)
  \/ SaveBoundary \/ FetchPage
  \/ ScanThread \/ ScanEnqueue \/ ScanCursor \/ ScanNext
  \/ FinishThreads \/ BackfillFails

Next == Discord \/ Live \/ (\E only \in BOOLEAN : Start(only)) \/ Backfill \/ Crash

Spec == Init /\ [][Next]_vars

-----------------------------------------------------------------------------
Stages == {"down", "opening", "root", "listing", "seeding", "threads", "serving"}

(* The types of all variables. *)
TypeOK ==
  /\ setup \in Setups
  /\ posted \in Seq([scope : Scopes, human : BOOLEAN])
  /\ archived \subseteq threads /\ threads \subseteq Ids
  /\ cursor \in [Scopes -> Scopes] /\ initialized \subseteq Scopes
  /\ jobs \in [Ids -> Nat] /\ appended \in Seq(Ids)
  /\ stage \in Stages /\ {appendOnly, gate, complete, forumWas} \subseteq BOOLEAN
  /\ live \in [Ids -> {"idle", "thread", "enqueue", "cursor", "append"}]
  /\ fallback \subseteq Scopes /\ todo \subseteq Ids
  /\ DOMAIN after \subseteq Ids /\ \A t \in DOMAIN after : after[t] \subseteq Scopes
  /\ scan.scope \in Scopes /\ scan.page \subseteq Ids /\ scan.cursor \in Scopes
  /\ told \cup history \cup excused \cup unlisted \subseteq Ids

(* A message is one turn of one conversation: live handling, any number of *)
(* recoveries and a change of appendUserOnly between two starts make at    *)
(* most one job or one appended entry of it, and what was appended keeps   *)
(* the order it arrived in (intake.ts:163, 252; backfill.ts:39).           *)
OneTurnPerMessage ==
  /\ \A m \in Ids : jobs[m] + Cardinality({i \in DOMAIN appended : appended[i] = m}) <= 1
  /\ \A i, k \in DOMAIN appended : i < k => appended[i] < appended[k]

Idle == stage = "serving" /\ InFlight = {} /\ ~appendOnly

(* After a start that recovered the channel every message but those of     *)
(* except is a job if it is a turn.                                        *)
Recovered(except) ==
  Idle /\ ~gate =>
    \A m \in Known \ except :
      posted[m].human /\ Accepts(posted[m].scope) => jobs[m] = 1

(* Once a start has recovered the channel and every handler is through,    *)
(* every message since the first start that is a turn has its job, or its  *)
(* sender was told.  The exceptions are those named at the actions: a      *)
(* handler cut off by a crash, a thread without a cursor when an earlier   *)
(* start ended early, and the threads archived when they were listed,      *)
(* which are the matter of ArchivedThreadsRecovered.                       *)
NothingLost == Recovered(history \cup told \cup excused \cup unlisted)

(* docs/config.md:240: the recovery of existing threads takes in archived  *)
(* ones ("既存スレッドの復旧ではアーカイブ済みスレッドも対象に含める").    *)
(* fetchThreads asks Discord for the active ones (backfill.ts:251).        *)
ArchivedThreadsRecovered == Recovered(history \cup told \cup excused)

(* A message becomes exactly one turn, or its sender knows that it did not *)
(* (intake.ts, backfill.ts). *)
ExactlyOneTurn == OneTurnPerMessage /\ NothingLost
=============================================================================
