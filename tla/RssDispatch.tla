---------------------------- MODULE RssDispatch ----------------------------
(***************************************************************************)
(* From feed to reader: the articles of rss/store.ts, the cron handler     *)
(* cron/jobs/rss-dispatch.ts that claims a batch of them and puts it into  *)
(* the job ledger, and the callbacks and the startup comparison of         *)
(* features/rss.ts that settle the claim.                                  *)
(*                                                                         *)
(* The article store and the ledger are two databases: a crash may come    *)
(* between any two of their transactions.  The ledger and the outbox are   *)
(* reduced to how a job and its delivery end; JobQueue and Delivery have   *)
(* their inside.  Articles a first fetch marks as seen take no part.       *)
(***************************************************************************)
EXTENDS Naturals, FiniteSets, FiniteSetsExt

CONSTANTS
  Articles,      \* article ids, numbers in the order of collection
  Owners,        \* dispatching cron jobs
  Feed,          \* Feed[o]: the articles in the feeds of o
  MaxItems,      \* maxItemsPerRun
  Room,          \* article text a prompt has room for
  MaxSize,       \* largest article, in the unit of Room
  MaxAttempts,   \* claims of a job before the ledger gives it up
  MaxBatches, MaxCrashes, MaxFaults, MaxRevisions   \* bounds of the model

VARIABLES
  article,    \* the rss_articles table
  batch,      \* every dispatch made so far: its job and its delivery
  tick,       \* the batch and content an owner's handler is about to enqueue
  disowned,   \* history: articles a handler took from a batch in progress
  host, crashes, faults, revisions

bounded == <<crashes, faults, revisions>>
vars == <<article, batch, tick, disowned, host, bounded>>

Batches == 1 .. MaxBatches
Live == {"queued", "running"}
Delivery == {"none", "pending", "sent", "failed", "ambiguous", "suppressed"}

NoBatch == [made |-> FALSE, owner |-> CHOOSE o \in Owners : TRUE,
            job |-> "none", content |-> {}, out |-> "none", tries |-> 0,
            owed |-> FALSE]
NoTick == [busy |-> FALSE, batch |-> 0, content |-> {}]

Init ==
  /\ article = [a \in Articles |->
                  [known |-> FALSE, read |-> FALSE, size |-> 1, batch |-> 0]]
  /\ batch = [d \in Batches |-> NoBatch]
  /\ tick = [o \in Owners |-> NoTick]
  /\ disowned = {}
  /\ host = "up" /\ crashes = 0 /\ faults = 0 /\ revisions = 0

-----------------------------------------------------------------------------
(* rss/store.ts *)

(* listDispatchClaims: the unread articles batch d still holds. *)
Claimed(d) == {a \in Articles : article[a].batch = d /\ ~article[a].read}

Released(A, d) ==
  [a \in Articles |-> IF a \in A /\ article[a].batch = d
                      THEN [article[a] EXCEPT !.batch = 0] ELSE article[a]]

MarkedRead(A) ==
  [a \in Articles |-> IF a \in A /\ ~article[a].read
                      THEN [article[a] EXCEPT !.read = TRUE, !.batch = 0]
                      ELSE article[a]]

(* saveFeedEntries: a new entry is inserted, a known one gets a new text. *)
Collect(a, size) ==
  /\ host = "up"
  /\ \/ ~article[a].known /\ UNCHANGED revisions
     \/ /\ article[a].known /\ ~article[a].read /\ article[a].size # size
        /\ revisions < MaxRevisions /\ revisions' = revisions + 1
  /\ article' = [article EXCEPT ![a].known = TRUE, ![a].size = size]
  /\ UNCHANGED <<batch, tick, disowned, host, crashes, faults>>

Pending(o) ==
  {a \in Articles : /\ ~article[a].read /\ article[a].batch # 0
                    /\ batch[article[a].batch].owner = o}

Unclaimed(o) ==
  {a \in Feed[o] : article[a].known /\ ~article[a].read /\ article[a].batch = 0}

Oldest(A, n) == {a \in A : Cardinality({b \in A : b < a}) < n}

NextBatch == {d \in Batches : ~batch[d].made /\ \A c \in Batches : c < d => batch[c].made}

(* claimUnreadArticles: the owner's unsettled batch, or else a new one,    *)
(* with its articles and the two tables after the claim.                   *)
Claim(o) ==
  IF Pending(o) # {}
  THEN {[batch |-> article[Min(Pending(o))].batch, articles |-> Pending(o),
         table |-> article, batches |-> batch]}
  ELSE LET A == Oldest(Unclaimed(o), MaxItems) IN
       {[batch |-> d, articles |-> A,
         table |-> [a \in Articles |-> IF a \in A THEN [article[a] EXCEPT !.batch = d]
                                       ELSE article[a]],
         batches |-> [batch EXCEPT ![d].made = TRUE, ![d].owner = o]]
        : d \in {d \in NextBatch : A # {}}}

-----------------------------------------------------------------------------
(* cron/jobs/rss-dispatch.ts *)

Text(A) == MapThenSumSet(LAMBDA a : article[a].size, A)

(* buildContent: oldest first, an article that does not fit is passed over. *)
Fitting(A) ==
  CHOOSE F \in SUBSET A :
    \A a \in A :
      a \in F <=> Text({b \in F : b < a}) + article[a].size <= Room

(* History: articles taken from a batch whose job is under way or done. *)
Disown(d, A) ==
  disowned' = IF batch[d].job \in Live \cup {"completed"}
              THEN disowned \cup A \X {d} ELSE disowned

(* Mutant: the articles without room are not released. *)
MutantKeepPassedOver(t, A) == t

(* releaseDispatchArticles of the articles A that were passed over. *)
WithoutPassedOver(t, A) ==
  [a \in Articles |-> IF a \in A THEN [t[a] EXCEPT !.batch = 0] ELSE t[a]]

(* Claim, content and the release of what did not fit run without a pause; *)
(* when nothing fits the handler throws and releases the batch.            *)
Tick(o) ==
  /\ host = "up" /\ ~tick[o].busy
  /\ \E c \in Claim(o) :
       LET F == Fitting(c.articles) IN
       /\ article' = WithoutPassedOver(c.table, c.articles \ F)
       /\ batch' = c.batches
       /\ tick' = IF F = {} THEN tick
                  ELSE [tick EXCEPT ![o] = [busy |-> TRUE, batch |-> c.batch, content |-> F]]
       /\ Disown(c.batch, c.articles \ F)
  /\ UNCHANGED <<host, bounded>>

(* enqueueRssDispatch with the batch as idempotency key: a batch that was  *)
(* enqueued before keeps its job and its content.                          *)
Enqueue(o) ==
  LET d == tick[o].batch IN
  /\ host = "up" /\ tick[o].busy
  /\ batch' = IF batch[d].job # "none" THEN batch
              ELSE [batch EXCEPT ![d].job = "queued", ![d].content = tick[o].content]
  /\ tick' = [tick EXCEPT ![o] = NoTick]
  /\ UNCHANGED <<article, disowned, host, bounded>>

(* The configuration or the ledger refuses: the batch is released. *)
EnqueueFails(o) ==
  LET d == tick[o].batch IN
  /\ host = "up" /\ tick[o].busy
  /\ faults < MaxFaults /\ faults' = faults + 1
  /\ article' = Released(Claimed(d), d)
  /\ Disown(d, Claimed(d))
  /\ tick' = [tick EXCEPT ![o] = NoTick]
  /\ UNCHANGED <<batch, host, crashes, revisions>>

-----------------------------------------------------------------------------
(* The ledger and the outbox *)

JobBecomes(d, job, out, owed) ==
  batch' = [batch EXCEPT ![d].job = job, ![d].out = out, ![d].owed = owed]

(* A claim of the job; one that has used up its claims is dead-lettered    *)
(* there and then, and nobody tells the source.                            *)
Work(d) ==
  /\ host = "up" /\ batch[d].job = "queued"
  /\ batch' = IF batch[d].tries < MaxAttempts
              THEN [batch EXCEPT ![d].job = "running", ![d].tries = @ + 1]
              ELSE [batch EXCEPT ![d].job = "dead_letter"]
  /\ UNCHANGED <<article, tick, disowned, host, bounded>>

(* The run ends: something to deliver, NO_REPLY, or given up at the first  *)
(* failure of the agent (terminalOnAgentFailure).  A callback is owed, but *)
(* not for a result that waits for its delivery.                           *)
Finish(d) ==
  /\ host = "up" /\ batch[d].job = "running"
  /\ \/ JobBecomes(d, "completed", "pending", FALSE)
     \/ JobBecomes(d, "completed", "suppressed", TRUE)
     \/ JobBecomes(d, "dead_letter", "none", TRUE)
  /\ UNCHANGED <<article, tick, disowned, host, bounded>>

(* A delivery that turns ambiguous because its lease lapsed owes nothing. *)
Deliver(d) ==
  /\ host = "up" /\ batch[d].out = "pending"
  /\ \/ \E out \in {"sent", "failed", "ambiguous"} : JobBecomes(d, "completed", out, TRUE)
     \/ JobBecomes(d, "completed", "ambiguous", FALSE)
  /\ UNCHANGED <<article, tick, disowned, host, bounded>>

-----------------------------------------------------------------------------
(* features/rss.ts *)

(* Readers have got the content, or the agent said there is nothing to say. *)
Reached(d) == batch[d].out \in {"sent", "suppressed"}

(* settleRssDispatch from a callback.  The store may fail to open; a       *)
(* suppressed result whose claim could not be completed tries to release.  *)
Settle(d) ==
  /\ host = "up" /\ batch[d].owed
  /\ \/ /\ article' = IF Reached(d) THEN MarkedRead(Claimed(d))
                                      ELSE Released(Claimed(d), d)
        /\ UNCHANGED faults
     \/ /\ faults < MaxFaults /\ faults' = faults + 1
        /\ \/ UNCHANGED article
           \/ batch[d].out = "suppressed" /\ article' = Released(Claimed(d), d)
  /\ batch' = [batch EXCEPT ![d].owed = FALSE]
  /\ UNCHANGED <<tick, disowned, host, crashes, revisions>>

(* reconcileRssDispatches: the claims the ledger has no live job for. *)
Orphaned(d) ==
  batch[d].job \in {"none", "dead_letter"} \/ batch[d].out \in {"failed", "ambiguous"}

Reconcile ==
  article' = [a \in Articles |->
    LET d == article[a].batch IN
    IF d = 0 \/ article[a].read THEN article[a]
    ELSE IF Reached(d) THEN [article[a] EXCEPT !.read = TRUE, !.batch = 0]
    ELSE IF Orphaned(d) THEN [article[a] EXCEPT !.batch = 0]
    ELSE article[a]]

-----------------------------------------------------------------------------
(* Crash and start *)

Halt ==
  /\ host = "up" /\ crashes < MaxCrashes
  /\ host' = "down" /\ crashes' = crashes + 1
  /\ tick' = [o \in Owners |-> NoTick]

Abandoned(b) ==
  [d \in Batches |-> [b[d] EXCEPT !.owed = FALSE,
                                  !.job = IF @ = "running" THEN "queued" ELSE @]]

(* Runs of the dead host are claimed again when their lease has lapsed. *)
Crash ==
  /\ Halt
  /\ batch' = Abandoned(batch)
  /\ UNCHANGED <<article, disowned, faults, revisions>>

(* The host dies between the claim and the release of what does not fit. *)
CrashInTick(o) ==
  /\ ~tick[o].busy
  /\ Halt
  /\ \E c \in Claim(o) : article' = c.table /\ batch' = Abandoned(c.batches)
  /\ UNCHANGED <<disowned, faults, revisions>>

Start ==
  /\ host = "down"
  /\ Reconcile
  /\ host' = "up"
  /\ UNCHANGED <<batch, tick, disowned, bounded>>

-----------------------------------------------------------------------------
Next ==
  \/ \E a \in Articles, size \in 1 .. MaxSize : Collect(a, size)
  \/ \E o \in Owners : Tick(o) \/ Enqueue(o) \/ EnqueueFails(o) \/ CrashInTick(o)
  \/ \E d \in Batches : Work(d) \/ Finish(d) \/ Deliver(d) \/ Settle(d)
  \/ Crash \/ Start

Spec == Init /\ [][Next]_vars

-----------------------------------------------------------------------------
(* Properties *)

TypeOK ==
  /\ article \in [Articles -> [known : BOOLEAN, read : BOOLEAN,
                               size : 1 .. MaxSize, batch : {0} \cup Batches]]
  /\ batch \in [Batches -> [made : BOOLEAN, owner : Owners,
                            job : {"none", "completed", "dead_letter"} \cup Live,
                            content : SUBSET Articles, out : Delivery,
                            tries : 0 .. MaxAttempts, owed : BOOLEAN]]
  /\ tick \in [Owners -> [busy : BOOLEAN, batch : {0} \cup Batches,
                          content : SUBSET Articles]]
  /\ disowned \subseteq Articles \X Batches
  /\ host \in {"up", "down"}
  /\ crashes \in 0 .. MaxCrashes /\ faults \in 0 .. MaxFaults
  /\ revisions \in 0 .. MaxRevisions

(* docs/config.md:379: an article is marked read only when a job that      *)
(* carried it has reached the readers, whatever was passed over for lack   *)
(* of room, revised, refused, crashed or settled late.                     *)
ReadWasDelivered ==
  \A a \in Articles :
    article[a].read => \E d \in Batches :
      a \in batch[d].content /\ batch[d].out \in {"sent", "suppressed"}

(* Readers get an article once.  The exceptions are the articles a handler *)
(* itself took from a batch in progress, when its next tick found less     *)
(* room for them or could not enqueue the batch again.                     *)
DeliveredOnce ==
  \A c, d \in Batches : \A a \in batch[c].content \cap batch[d].content :
    /\ batch[c].out = "sent" /\ batch[d].out = "sent"
    /\ <<a, c>> \notin disowned /\ <<a, d>> \notin disowned
    => c = d

=============================================================================
