------------------------------- MODULE Stores -------------------------------
(***************************************************************************)
(* What has to agree with the job ledger or with somebody else's store:    *)
(* the sessions, mail and RSS articles, saved posts, the exports of what   *)
(* is pruned, pictures of a screen, and the ledger itself when another     *)
(* release wrote it.  Each is considered by itself, as in Services: a      *)
(* behaviour is one of the part it starts in.                              *)
(***************************************************************************)
EXTENDS Naturals, FiniteSets

CONSTANTS
  Parts,      \* the parts to consider
  MaxTurns, MaxTries, MaxEarlyEnds, FaultyTurns,               \* Sessions
  Mails, Route, Parcels, MaxMailJobs, MaxTroubles,             \* Mail
  Articles, Owners, Feed, MaxItems, Room, MaxSize, MaxAttempts, MaxBatches,
  MaxCrashes, MaxFaults, MaxRevisions,                         \* RssDispatch
  Captures, Page, Found, Limit, MaxPostCrashes,                \* XSaved
  Jobs, Chunks, BatchSize, MaxRuns,                            \* Retention
  Pictures, Day, Broken, FullBatch, MaxUpsets,                 \* ScreenCapture
  Procs, Null, Rows, Session, Legacy, MaxOpenings              \* Schema

VARIABLE part

VARIABLES store, sjob, run, refs, nextId, since, sfaults
Conversation == INSTANCE Sessions WITH
  job <- sjob, faults <- sfaults, MaxJobs <- MaxTurns, MaxAttempts <- MaxTries,
  MaxFaults <- MaxEarlyEnds, FaultyJobs <- FaultyTurns

VARIABLES inbox, listed, mjobs, worker, mapping, created, excused, troubles
Mailing == INSTANCE Mail WITH
  jobs <- mjobs, Chunks <- Parcels, MaxJobs <- MaxMailJobs, MaxMishaps <- MaxTroubles

VARIABLES article, batch, tick, disowned, host, crashes, faults, revisions
Feeds == INSTANCE RssDispatch

VARIABLES outbox, acked, item, media, context, tried, disk, cron, condemned, xcrashes
Posts == INSTANCE XSaved WITH crashes <- xcrashes, MaxCrashes <- MaxPostCrashes

VARIABLES row, prune, files, lost, runs
Pruning == INSTANCE Retention

VARIABLES shot, held, taken, days, watermark, digest, report, callbacks, consumer,
          failed, late, upsets
Screen == INSTANCE ScreenCapture WITH
  batch <- digest, faults <- upsets, excused <- failed,
  Captures <- Pictures, Limit <- FullBatch, MaxFaults <- MaxUpsets

VARIABLES ledger, proc, begun, scrashes
Opening == INSTANCE Schema WITH
  store <- ledger, crashes <- scrashes, MaxCrashes <- MaxOpenings

(* Ids are numbers in the order of arrival, and days in their order; what  *)
(* is pruned, the pictures and the rows are finitely many.  The rows of    *)
(* an earlier release came before the others.                              *)
ASSUME StoresAssumption ==
  /\ Articles \subseteq Nat /\ MaxBatches \in Nat
  /\ \A o \in Owners : Feed[o] \subseteq Articles
  /\ IsFiniteSet(Jobs) /\ Chunks \in Nat /\ BatchSize \in Nat
  /\ IsFiniteSet(Pictures) /\ \A c \in Pictures : Day[c] \in Nat
  /\ Rows \subseteq Nat /\ IsFiniteSet(Rows) /\ Null \notin Rows \X {0, 1}
  /\ Legacy \subseteq Rows /\ \A r \in Legacy, q \in Rows : q < r => q \in Legacy

sessionVars == <<store, sjob, run, refs, nextId, since, sfaults>>
mailVars == <<inbox, listed, mjobs, worker, mapping, created, excused, troubles>>
rssVars == <<article, batch, tick, disowned, host, crashes, faults, revisions>>
postVars == <<outbox, acked, item, media, context, tried, disk, cron, condemned, xcrashes>>
pruneVars == <<row, prune, files, lost, runs>>
screenVars == <<shot, held, taken, days, watermark, digest, report, callbacks,
                consumer, failed, late, upsets>>
schemaVars == <<ledger, proc, begun, scrashes>>
vars == <<part, sessionVars, mailVars, rssVars, postVars, pruneVars, screenVars,
          schemaVars>>

Init ==
  /\ part \in Parts
  /\ Conversation!Init /\ Mailing!Init /\ Feeds!Init /\ Posts!Init /\ Pruning!Init
  /\ Screen!Init /\ Opening!Init

Next ==
  /\ UNCHANGED part
  /\ \/ /\ part = "sessions" /\ Conversation!Next
        /\ UNCHANGED <<mailVars, rssVars, postVars, pruneVars, screenVars, schemaVars>>
     \/ /\ part = "mail" /\ Mailing!Next
        /\ UNCHANGED <<sessionVars, rssVars, postVars, pruneVars, screenVars, schemaVars>>
     \/ /\ part = "rss" /\ Feeds!Next
        /\ UNCHANGED <<sessionVars, mailVars, postVars, pruneVars, screenVars, schemaVars>>
     \/ /\ part = "posts" /\ Posts!Next
        /\ UNCHANGED <<sessionVars, mailVars, rssVars, pruneVars, screenVars, schemaVars>>
     \/ /\ part = "pruning" /\ Pruning!Next
        /\ UNCHANGED <<sessionVars, mailVars, rssVars, postVars, screenVars, schemaVars>>
     \/ /\ part = "screen" /\ Screen!Next
        /\ UNCHANGED <<sessionVars, mailVars, rssVars, postVars, pruneVars, schemaVars>>
     \/ /\ part = "schema" /\ Opening!Next
        /\ UNCHANGED <<sessionVars, mailVars, rssVars, postVars, pruneVars, screenVars>>

Spec == Init /\ [][Next]_vars

-----------------------------------------------------------------------------
(* The types of the variables of every part. *)
TypeOK ==
  /\ part \in Parts
  /\ Conversation!TypeOK /\ Mailing!TypeOK /\ Feeds!TypeOK /\ Posts!TypeOK
  /\ Pruning!TypeOK /\ Screen!TypeOK /\ Opening!TypeOK

(* The context of a run is the turns since the last clear, or of them the  *)
(* published finals, whatever was compacted (features/session-context);    *)
(* the entries a committed conversation names are in one session; and a    *)
(* retry of a job notices what the attempt before has done to it.          *)
SessionsExact ==
  Conversation!ContextsExact /\ Conversation!RefsResolve /\ Conversation!RetriesRepeatNothing

(* A mail route has one thread, and a message is marked read when its     *)
(* response was sent there (features/mail.ts, queue/delivery.ts:139-198).  *)
MailInOneThread == Mailing!AckOnlyDelivered /\ Mailing!OneThreadPerRoute

(* An article that is read was delivered, or nobody wants it any more, and *)
(* no article is delivered twice (features/rss.ts, rss/store.ts,           *)
(* claimRssBatch). *)
ReadWasDelivered == Feeds!ReadWasDelivered /\ Feeds!DeliveredOnce

(* The archive of saved posts says of its files what is so                 *)
(* (integrations/x-saved/store.ts). *)
ArchiveTruthful == Posts!ArchiveTruthful

(* Whatever pruning deletes was exported (queue/retention.ts). *)
AuditComplete == Pruning!AuditComplete

(* No full batch of pictures waits for nothing, days are reported whole,   *)
(* and none is passed over (features/screen-capture.ts,                    *)
(* screen-capture-daily-summary.ts). *)
PicturesReported == Screen!NoBatchForgotten /\ Screen!DaysReported

(* A process that opened the ledger finds it whole, and no migration       *)
(* disturbs the work of another (queue/repository.ts:465-837).             *)
UpgradeKeepsLedger == Opening!OpenIsWhole /\ Opening!WorkUndisturbed
=============================================================================
