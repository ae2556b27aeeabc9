------------------------------ MODULE Delivery ------------------------------
(***************************************************************************)
(* The outbox: the deliveries table of queue/repository.ts, the single     *)
(* sequential worker of queue/delivery.ts with its Discord adapter, and    *)
(* the RSS claim that waits for the outcome (features/rss.ts).             *)
(*                                                                         *)
(* A Discord mutation is applied and acknowledged, refused, or its answer  *)
(* is lost and nobody knows whether it was applied.  A call of the local   *)
(* store may throw.  The host may crash between any two steps.             *)
(*                                                                         *)
(* Only one worker exists and it handles one row at a time, so the fencing *)
(* token of a row in sending is always the worker's own; the guard that    *)
(* remains of it is status = sending.                                      *)
(***************************************************************************)
EXTENDS Naturals, FiniteSets

CONSTANTS
  Jobs,        \* completed jobs with something to deliver
  RssJobs,     \* those whose source is an RSS dispatch
  Mode,        \* Mode[j]: "channel", "new-thread" or "item-thread"
  Chunks,      \* Chunks[j]: the number of response chunks of j
  MaxFaults,   \* bound on local store calls that throw
  MaxCrashes   \* bound on host crashes

ASSUME DeliveryAssumption ==
  /\ RssJobs \subseteq Jobs
  /\ Mode \in [Jobs -> {"channel", "new-thread", "item-thread"}]
  /\ Chunks \in [Jobs -> Nat \ {0}]
  /\ MaxFaults \in Nat /\ MaxCrashes \in Nat

VARIABLES
  rows,        \* rows[j][i]: status, lapsed lease, cron_thread_id known
  promoted,    \* promoted[j]: cronThreadId stored on the job, session moved
  renamed,     \* renamed[j]: the session trajectory bears the thread's name
  claim,       \* claim[j]: the RSS articles of j
  posted,      \* posted[j][i]: messages of that chunk at Discord
  threads,     \* threads[j]: threads created at Discord for j
  worker,      \* the row being delivered and the next step
  host, faults, crashes

store == <<rows, promoted, renamed, claim>>
discord == <<posted, threads>>
vars == <<store, discord, worker, host, faults, crashes>>

Status == {"none", "pending", "retry_wait", "sending", "sent", "failed",
           "ambiguous"}
Final == {"sent", "failed", "ambiguous"}
Unsent == {"pending", "retry_wait"}
Kind == {"retryable", "non-retryable", "unknown"}
At == {"idle", "open", "create", "post", "parent", "rename", "provision",
       "undo", "start", "persist", "sent", "failing", "notify"}

Index(j) == 1 .. Chunks[j]
Rows(j) == [Index(j) -> [status : Status, lapsed : BOOLEAN, thread : BOOLEAN]]
Idle == [at |-> "idle", job |-> CHOOSE j \in Jobs : TRUE, chunk |-> 1,
         kind |-> "unknown"]

Init ==
  /\ rows = [j \in Jobs |-> [i \in Index(j) |->
               [status |-> "none", lapsed |-> FALSE, thread |-> FALSE]]]
  /\ promoted = [j \in Jobs |-> FALSE]
  /\ renamed = [j \in Jobs |-> FALSE]
  /\ claim = [j \in Jobs |-> IF j \in RssJobs THEN "held" ELSE "none"]
  /\ posted = [j \in Jobs |-> [i \in Index(j) |-> 0]]
  /\ threads = [j \in Jobs |-> 0]
  /\ worker = Idle
  /\ host = "up" /\ faults = 0 /\ crashes = 0

-----------------------------------------------------------------------------
(* The worker's place *)

J == worker.job
C == worker.chunk
Sending(at) == host = "up" /\ worker.at = at
Goto(at) == worker' = [worker EXCEPT !.at = at]
Fail(kind) == worker' = [worker EXCEPT !.at = "failing", !.kind = kind]
Throws == faults < MaxFaults /\ faults' = faults + 1
Works == UNCHANGED faults
Elsewhere == UNCHANGED <<host, crashes>>

-----------------------------------------------------------------------------
(* The table *)

(* commitResult inserts the chunks in the transaction that completes j. *)
Commit(j) ==
  /\ host = "up"
  /\ rows[j][1].status = "none"
  /\ rows' = [rows EXCEPT ![j] = [i \in Index(j) |->
                [@[i] EXCEPT !.status = "pending"]]]
  /\ UNCHANGED <<promoted, renamed, claim, discord, worker, host, faults, crashes>>

(* A lapsed sending row becomes ambiguous: it may have been sent. *)
Expired(r) ==
  IF r.status = "sending" /\ r.lapsed
  THEN [r EXCEPT !.status = "ambiguous", !.lapsed = FALSE] ELSE r

(* An unsent row of a promoted item thread learns the thread from the job. *)
Informed(j, r) ==
  IF r.status \in Unsent /\ Mode[j] = "item-thread" /\ promoted[j]
  THEN [r EXCEPT !.thread = TRUE] ELSE r

Refreshed == [j \in Jobs |-> [i \in Index(j) |-> Informed(j, Expired(rows[j][i]))]]

(* Mutant: a failed chunk lets the next one pass for every source. *)
MutantPastFailed(t, j, i) ==
  \A k \in 1 .. i - 1 : t[j][k].status \in {"sent", "failed"}

(* Every earlier chunk is sent; a failed one is let pass for RSS only. *)
Unblocked(t, j, i) ==
  \A k \in 1 .. i - 1 :
    \/ t[j][k].status = "sent"
    \/ j \in RssJobs /\ t[j][k].status = "failed"

MayClaim(t, j, i) == t[j][i].status \in Unsent /\ Unblocked(t, j, i)

Claimed(t, j, i) ==
  [t EXCEPT ![j][i].status = "sending", ![j][i].lapsed = FALSE]

ClaimRow(j, i) ==
  /\ Sending("idle")
  /\ MayClaim(Refreshed, j, i)
  /\ rows' = Claimed(Refreshed, j, i)
  /\ worker' = [Idle EXCEPT !.at = "open", !.job = j, !.chunk = i]
  /\ Elsewhere /\ UNCHANGED <<promoted, renamed, claim, discord, faults>>

ClaimNothing ==
  /\ Sending("idle")
  /\ \A j \in Jobs : \A i \in Index(j) : ~MayClaim(Refreshed, j, i)
  /\ rows' = Refreshed
  /\ Elsewhere
  /\ UNCHANGED <<promoted, renamed, claim, discord, worker, faults>>

(* updateDelivery and setDeliveryThread and failDeliveryBatch *)
Mark(s) == rows' = [rows EXCEPT ![J][C].status = s, ![J][C].lapsed = FALSE]

MarkBatch(s) ==
  rows' = [rows EXCEPT ![J] = [i \in Index(J) |->
    IF i = C THEN [@[i] EXCEPT !.status = s, !.lapsed = FALSE]
    ELSE IF @[i].status \in Unsent THEN [@[i] EXCEPT !.status = "failed"]
    ELSE @[i]]]

SetThread ==
  rows' = [rows EXCEPT ![J] = [i \in Index(J) |->
    IF i = C \/ @[i].status \in Unsent THEN [@[i] EXCEPT !.thread = TRUE]
    ELSE @[i]]]

-----------------------------------------------------------------------------
(* DiscordDeliveryAdapter.send *)

(* Reading calls, before any mutation: their failure is never ambiguous.   *)
(* A thread the row names was made for an earlier chunk; the fallback that *)
(* makes it again is for one that somebody has deleted since, left out.    *)
Open ==
  /\ Sending("open")
  /\ \/ (rows[J][C].thread \/ Mode[J] = "channel") /\ Goto("post")
     \/ ~rows[J][C].thread /\ Mode[J] = "new-thread" /\ Goto("create")
     \/ ~rows[J][C].thread /\ Mode[J] = "item-thread" /\ Goto("parent")
     \/ Fail("retryable")
     \/ Fail("non-retryable")
  /\ Elsewhere /\ Works /\ UNCHANGED <<store, discord>>

(* Mutant: a lost answer is taken for a refusal and tried again. *)
MutantRetryLost(applied, untouched, next) ==
  \/ applied /\ Goto(next)
  \/ (applied \/ untouched) /\ Fail("retryable")

(* One Discord mutation: applied and acknowledged, refused with a rate     *)
(* limit or another 4xx, or lost on the way there or back.                 *)
Mutate(applied, untouched, next) ==
  \/ applied /\ Goto(next)
  \/ untouched /\ (Fail("retryable") \/ Fail("non-retryable"))
  \/ (applied \/ untouched) /\ Fail("unknown")

NewThread == threads' = [threads EXCEPT ![J] = @ + 1]
NewMessage == posted' = [posted EXCEPT ![J][C] = @ + 1]

CreateThread ==
  /\ Sending("create")
  /\ Mutate(NewThread, UNCHANGED threads, "persist")
  /\ Elsewhere /\ Works /\ UNCHANGED <<store, posted>>

Post ==
  /\ Sending("post")
  /\ Mutate(NewMessage, UNCHANGED posted, "sent")
  /\ Elsewhere /\ Works /\ UNCHANGED <<store, threads>>

(* Mutant: the thread is started before the session is promoted. *)
MutantThreadFirst ==
  /\ Sending("parent")
  /\ Mutate(NewMessage, UNCHANGED posted, "start")
  /\ Elsewhere /\ Works /\ UNCHANGED <<store, threads>>

(* The first chunk of an item thread is its parent message. *)
PostParent ==
  /\ Sending("parent")
  /\ Mutate(NewMessage, UNCHANGED posted, "rename")
  /\ Elsewhere /\ Works /\ UNCHANGED <<store, threads>>

(* promoteCronItemSession: the session store first, then the job. *)
RenameSession ==
  /\ Sending("rename")
  /\ \/ renamed' = [renamed EXCEPT ![J] = TRUE] /\ Goto("provision") /\ Works
     \/ UNCHANGED renamed /\ Fail("unknown") /\ Throws
  /\ Elsewhere /\ UNCHANGED <<rows, promoted, claim, discord>>

ProvisionCronJob ==
  /\ Sending("provision")
  /\ \/ promoted' = [promoted EXCEPT ![J] = TRUE] /\ Goto("start") /\ Works
     \/ UNCHANGED promoted /\ Goto("undo") /\ Throws
  /\ Elsewhere /\ UNCHANGED <<rows, renamed, claim, discord>>

(* The rename is taken back; a failure of that is swallowed. *)
UndoRename ==
  /\ Sending("undo")
  /\ \/ renamed' = [renamed EXCEPT ![J] = FALSE] /\ Works
     \/ UNCHANGED renamed /\ Throws
  /\ Fail("unknown")
  /\ Elsewhere /\ UNCHANGED <<rows, promoted, claim, discord>>

(* After the parent is posted every failure is an unknown outcome. *)
StartThread ==
  /\ Sending("start")
  /\ \/ NewThread /\ (Goto("persist") \/ Fail("unknown"))
     \/ UNCHANGED threads /\ Fail("unknown")
  /\ Elsewhere /\ Works /\ UNCHANGED <<store, posted>>

PersistThread ==
  /\ Sending("persist")
  /\ \/ SetThread /\ Works
        /\ Goto(IF Mode[J] = "item-thread" THEN "sent" ELSE "post")
     \/ UNCHANGED rows /\ Throws /\ Fail("unknown")
  /\ Elsewhere /\ UNCHANGED <<promoted, renamed, claim, discord>>

-----------------------------------------------------------------------------
(* Recording the outcome *)

RecordSent ==
  /\ Sending("sent")
  /\ \/ Mark("sent") /\ Works
        /\ IF J \in RssJobs THEN Goto("notify") ELSE worker' = Idle
     \/ UNCHANGED rows /\ Throws /\ Fail("unknown")
  /\ Elsewhere /\ UNCHANGED <<promoted, renamed, claim, discord>>

(* RSS gives up the whole response, anything else this chunk only.  When   *)
(* this write throws too, the row stays in sending until its lease lapses. *)
RecordFailure ==
  /\ Sending("failing")
  /\ LET s == CASE worker.kind = "unknown" -> "ambiguous"
                [] worker.kind = "non-retryable" -> "failed"
                [] OTHER -> "retry_wait"
     IN \/ /\ J \in RssJobs
           /\ MarkBatch(IF s = "ambiguous" THEN s ELSE "failed")
           /\ Goto("notify") /\ Works
        \/ J \notin RssJobs /\ Mark(s) /\ worker' = Idle /\ Works
        \/ UNCHANGED rows /\ worker' = Idle /\ Throws
  /\ Elsewhere /\ UNCHANGED <<promoted, renamed, claim, discord>>

(* Mutants: one sent chunk counts for all; a response counts as given up   *)
(* only when no chunk at all was sent.                                     *)
MutantAnySent(j) ==
  LET seen == {rows[j][i].status : i \in Index(j)} IN
  CASE "sent" \in seen -> "read"
    [] seen \cap {"failed", "ambiguous"} # {} -> "released"
    [] OTHER -> "held"
MutantAllFailed(j) ==
  LET seen == {rows[j][i].status : i \in Index(j)} IN
  CASE seen = {"sent"} -> "read"
    [] seen \subseteq {"failed", "ambiguous"} -> "released"
    [] OTHER -> "held"

(* What the delivery callback of the RSS source makes of the statuses. *)
Verdict(j) ==
  LET seen == {rows[j][i].status : i \in Index(j)} IN
  CASE seen = {"sent"} -> "read"
    [] seen \cap {"failed", "ambiguous"} # {} -> "released"
    [] OTHER -> "held"

Settled(j, v) ==
  IF claim[j] = "held" THEN [claim EXCEPT ![j] = v] ELSE claim

Notify ==
  /\ Sending("notify")
  /\ \/ claim' = Settled(J, Verdict(J)) /\ Works
     \/ UNCHANGED claim /\ Throws
  /\ worker' = Idle
  /\ Elsewhere /\ UNCHANGED <<rows, promoted, renamed, discord>>

-----------------------------------------------------------------------------
(* Time, crash and start *)

LeaseLapses(j, i) ==
  /\ rows[j][i].status = "sending" /\ ~rows[j][i].lapsed
  /\ rows' = [rows EXCEPT ![j][i].lapsed = TRUE]
  /\ UNCHANGED <<promoted, renamed, claim, discord, worker, host, faults, crashes>>

Crash ==
  /\ host = "up" /\ crashes < MaxCrashes
  /\ host' = "down" /\ worker' = Idle /\ crashes' = crashes + 1
  /\ UNCHANGED <<store, discord, faults>>

(* reconcileRssDispatches: a claim is settled once every row is final. *)
Reconciled(j) ==
  LET seen == {rows[j][i].status : i \in Index(j)} IN
  IF claim[j] = "held" /\ seen \subseteq Final THEN Verdict(j) ELSE claim[j]

Start ==
  /\ host = "down"
  /\ host' = "up"
  /\ claim' = [j \in Jobs |-> Reconciled(j)]
  /\ UNCHANGED <<rows, promoted, renamed, discord, worker, faults, crashes>>

-----------------------------------------------------------------------------
Send ==
  \/ Open \/ CreateThread \/ Post \/ PostParent \/ RenameSession
  \/ ProvisionCronJob \/ UndoRename \/ StartThread \/ PersistThread
  \/ RecordSent \/ RecordFailure \/ Notify

Next ==
  \/ \E j \in Jobs : Commit(j)
  \/ \E j \in Jobs : \E i \in Index(j) : ClaimRow(j, i) \/ LeaseLapses(j, i)
  \/ ClaimNothing
  \/ Send
  \/ Crash \/ Start

Spec == Init /\ [][Next]_vars

(* The worker loop goes on and polls again when there was nothing to do, a *)
(* crashed host is started, a lease nobody renews lapses, and a row that   *)
(* is due again and again gets its turn: it waits out its retry delay      *)
(* while the others are served in the order of their creation.             *)
Fairness ==
  /\ WF_vars(Send) /\ WF_vars(ClaimNothing) /\ WF_vars(Start)
  /\ \A j \in Jobs : \A i \in Index(j) :
       SF_vars(ClaimRow(j, i)) /\ WF_vars(LeaseLapses(j, i))

LiveSpec == Spec /\ Fairness

-----------------------------------------------------------------------------
(* Properties *)

TypeOK ==
  /\ \A j \in Jobs : rows[j] \in Rows(j)
  /\ promoted \in [Jobs -> BOOLEAN] /\ renamed \in [Jobs -> BOOLEAN]
  /\ claim \in [Jobs -> {"none", "held", "read", "released"}]
  /\ \A j \in Jobs : posted[j] \in [Index(j) -> Nat]
  /\ threads \in [Jobs -> Nat]
  /\ worker \in [at : At, job : Jobs, chunk : Nat, kind : Kind]
  /\ host \in {"up", "down"}
  /\ faults \in 0 .. MaxFaults /\ crashes \in 0 .. MaxCrashes

(* The table never lies about Discord: a row that is to be sent, sent      *)
(* again or given up has no message there, a sent row exactly one, and no  *)
(* row ever two.  Lost answers, failed writes and crashes all end in       *)
(* ambiguous.                                                              *)
StatusTruthful ==
  \A j \in Jobs : \A i \in Index(j) :
    /\ posted[j][i] <= 1
    /\ rows[j][i].status = "sent" => posted[j][i] = 1
    /\ rows[j][i].status \in Unsent \cup {"none", "failed"} => posted[j][i] = 0

(* A reader never sees a chunk without all chunks before it, each of them  *)
(* known to be sent.                                                       *)
ChunksInOrder ==
  \A j \in Jobs : \A i \in Index(j) : \A k \in 1 .. i - 1 :
    posted[j][i] > 0 => rows[j][k].status = "sent"

(* A response is never spread over two threads, and whoever answers in an  *)
(* item thread finds the session it continues: the trajectory is renamed   *)
(* and the job moved before the thread exists.                             *)
PromotedBeforeVisible ==
  \A j \in Jobs :
    /\ threads[j] <= 1
    /\ Mode[j] = "item-thread" /\ threads[j] > 0 => renamed[j] /\ promoted[j]

(* What a reader sees of a response is a beginning of it, in one place,    *)
(* and an answer to it continues its session (queue/delivery.ts).          *)
ReadInOnePlace == ChunksInOrder /\ PromotedBeforeVisible

(* Articles are marked read only when the readers got all of the response, *)
(* and given back only when no chunk of it can still be sent.              *)
ClaimMatchesOutcome ==
  \A j \in RssJobs :
    /\ claim[j] = "read" => \A i \in Index(j) : posted[j][i] = 1
    /\ claim[j] = "released" => \A i \in Index(j) : ~MayClaim(rows, j, i)

(* Every RSS response that was accepted for delivery settles its articles, *)
(* by being sent or by being given up, unless the host crashes or its      *)
(* store throws (source-handlers.ts:53-91, delivery.ts notifySource).      *)
RssClaimSettles ==
  \A j \in RssJobs :
    rows[j][1].status # "none" ~> claim[j] # "held" \/ faults + crashes > 0

(* docs/config.md:379: a delivery failure, ambiguous included, releases    *)
(* the claim of the articles.                                              *)
AmbiguousReleasesClaim ==
  \A j \in RssJobs :
    (\E i \in Index(j) : rows[j][i].status = "ambiguous")
      ~> claim[j] = "released"

=============================================================================
