------------------------------- MODULE XSaved -------------------------------
(***************************************************************************)
(* Saved X posts (integrations/x-saved): the receiver stores what the      *)
(* browser extension captured and acknowledges it; the cron handler        *)
(* cron/jobs/x-saved-media-download.ts looks up the media of each post,    *)
(* downloads the files and fetches the context, Limit of each in a run.    *)
(*                                                                         *)
(* A post has at most one file here.  Its source is a number: the URLs the *)
(* page or the lookup may name, or NoUrl for a video nobody has a URL of.  *)
(***************************************************************************)
EXTENDS Naturals, FiniteSets

CONSTANTS
  Captures,    \* pairs of a post and "like" or "bookmark"
  Page,        \* sources of the hints of a page
  Found,       \* sources a lookup may find
  Limit,       \* settings.limit
  MaxCrashes   \* bound: crashes and database errors

VARIABLES
  outbox,     \* captures the extension has not seen acknowledged
  acked,      \* history: those it has
  item,       \* x_items
  media,      \* x_media
  context,    \* x_enrichment
  tried,      \* per backlog, which attempt at a post was the last: its rank, or 0
  disk,       \* the source of the file below media/
  cron,       \* the handler at work
  condemned,  \* history: the sources whose download failed for good
  crashes

vars == <<outbox, acked, item, media, context, tried, disk, cron, condemned, crashes>>

Posts == {c[1] : c \in Captures}
NoUrl == 0
Urls == Page \cup Found
NoMedia == [status |-> "none", source |-> NoUrl, terminal |-> FALSE, file |-> 0]
Off == [phase |-> "off", todo |-> {}, post |-> 0, source |-> NoUrl, saved |-> FALSE]

Init ==
  /\ outbox = {} /\ acked = {}
  /\ item = [t \in Posts |-> [seen |-> {}, resolved |-> FALSE, terminal |-> FALSE]]
  /\ media = [t \in Posts |-> NoMedia]
  /\ context = [t \in Posts |-> "none"]
  /\ tried = [p \in {"resolve", "enrich"} |-> [t \in Posts |-> 0]]
  /\ disk = [t \in Posts |-> 0]
  /\ cron = Off
  /\ condemned = [t \in Posts |-> {}]
  /\ crashes = 0

Saved(t) == item[t].seen # {}

-----------------------------------------------------------------------------
(* The extension and the receiver *)

Capture(c) ==
  /\ c \notin outbox \cup acked
  /\ outbox' = outbox \cup {c}
  /\ UNCHANGED <<acked, item, media, context, tried, disk, cron, condemned, crashes>>

(* Mutant: an archived row takes the source of a later capture or lookup.  *)
MutantMerge(m, source, byLookup) ==
  [m EXCEPT !.status = IF @ = "none" THEN "pending" ELSE @,
            !.source = IF source # NoUrl /\ (byLookup \/ @ = NoUrl) THEN source ELSE @]

(* mergeXSavedMedia for one row: a hint completes it, a lookup overrides   *)
(* it, and a finished row stays as it is.                                  *)
Merge(m, source, byLookup) ==
  IF m.status = "done" THEN m
  ELSE LET new == source # NoUrl /\ (byLookup \/ m.source = NoUrl) /\ m.source # source
       IN [status |-> IF m.status = "none" THEN "pending" ELSE m.status,
           source |-> IF new THEN source ELSE m.source,
           terminal |-> m.terminal /\ ~new, file |-> m.file]

(* upsertItem: a flag once set stays. *)
Seen(t, batch) == item[t].seen \cup {c[2] : c \in {d \in batch : d[1] = t}}

(* ingestXSavedItems in one transaction, then the answer, which may be     *)
(* lost; the extension sends again what was not acknowledged.  A post that *)
(* was looked up takes no more hints.                                      *)
Receive ==
  /\ \E batch \in (SUBSET outbox) \ {{}} : \E hints \in {{}} \cup {{s} : s \in Page} :
       LET posts == {c[1] : c \in batch} IN
       /\ item' = [t \in Posts |-> IF t \in posts THEN [item[t] EXCEPT !.seen = Seen(t, batch)]
                                   ELSE item[t]]
       /\ media' = [t \in Posts |->
            IF t \in posts /\ hints # {} /\ ~item[t].resolved
            THEN Merge(media[t], CHOOSE s \in hints : TRUE, FALSE) ELSE media[t]]
       /\ \/ UNCHANGED <<outbox, acked>>
          \/ outbox' = outbox \ batch /\ acked' = acked \cup batch
  /\ UNCHANGED <<context, tried, disk, cron, condemned, crashes>>

-----------------------------------------------------------------------------
(* The handler: what a phase selects, one post after the other *)

(* The time of the last attempt, as a rank *)
Attempted(rank, t) ==
  [u \in Posts |->
     IF u = t THEN 1 + Cardinality({v \in Posts \ {t} : rank[v] # 0})
     ELSE IF rank[t] # 0 /\ rank[u] > rank[t] THEN rank[u] - 1 ELSE rank[u]]

(* Mutant: by the id alone. *)
MutantTurn(p, t) == 0

(* Posts never attempted first, then the oldest attempt; files that failed *)
(* behind those that were not tried                                        *)
Turn(p, t) ==
  IF p = "download" THEN IF media[t].status = "failed" THEN 1 ELSE 0 ELSE tried[p][t]

Before(p, t, u) == Turn(p, t) < Turn(p, u) \/ (Turn(p, t) = Turn(p, u) /\ t < u)

Unresolved == {t \in Posts : Saved(t) /\ ~item[t].resolved /\ ~item[t].terminal}

Files(s) == {t \in Posts : /\ media[t].status = s /\ ~media[t].terminal
                           /\ media[t].source # NoUrl \/ item[t].resolved}

Backlog == {t \in Posts : Saved(t) /\ context[t] \in {"none", "failed"}}

(* The first Limit of a selection *)
Phase(p, S) ==
  cron' = [Off EXCEPT !.phase = p,
                      !.todo = {t \in S : Cardinality({u \in S : Before(p, u, t)}) < Limit}]

(* A run starts when the one before has returned. *)
Tick ==
  /\ cron.phase = "off"
  /\ Phase("resolve", Unresolved)
  /\ UNCHANGED <<outbox, acked, item, media, context, tried, disk, condemned, crashes>>

NextPhase ==
  /\ cron.phase # "off" /\ cron.todo = {} /\ cron.post = 0
  /\ CASE cron.phase = "resolve" ->
            Phase("download", Files("pending") \cup Files("failed"))
       [] cron.phase = "download" -> Phase("enrich", Backlog)
       [] cron.phase = "enrich" -> cron' = Off
  /\ UNCHANGED <<outbox, acked, item, media, context, tried, disk, condemned, crashes>>

(* The posts of a phase in the order of its selection: what else happens   *)
(* does not change it for those that wait.  The time of the attempt is     *)
(* stored before the request.  The row of the file is the one that was     *)
(* selected: no other source can have come since.                          *)
Take ==
  /\ cron.post = 0
  /\ \E t \in cron.todo :
       /\ \A u \in cron.todo \ {t} : Before(cron.phase, t, u)
       /\ cron' = [cron EXCEPT !.todo = @ \ {t}, !.post = t, !.source = media[t].source]
       /\ tried' = IF cron.phase \in DOMAIN tried
                   THEN [tried EXCEPT ![cron.phase] = Attempted(@, t)] ELSE tried
  /\ UNCHANGED <<outbox, acked, item, media, context, disk, condemned, crashes>>

At(p) == cron.phase = p /\ cron.post # 0
Done == cron' = [cron EXCEPT !.post = 0, !.source = NoUrl, !.saved = FALSE]
T == cron.post

(* lookupArchiveMedia: media and completeness commit together. *)
Lookup ==
  /\ At("resolve") /\ Done
  /\ \/ UNCHANGED <<item, media>>
     \/ item' = [item EXCEPT ![T].terminal = TRUE] /\ UNCHANGED media
     \/ /\ item' = [item EXCEPT ![T].resolved = TRUE]
        /\ \/ UNCHANGED media
           \/ \E s \in Found : media' = [media EXCEPT ![T] = Merge(@, s, TRUE)]
  /\ UNCHANGED <<outbox, acked, context, tried, disk, condemned, crashes>>

(* saveArchiveFile: the temporary file takes its name when it is complete. *)
SaveFile ==
  /\ At("download") /\ ~cron.saved /\ cron.source # NoUrl
  /\ disk' = [disk EXCEPT ![T] = cron.source]
  /\ cron' = [cron EXCEPT !.saved = TRUE]
  /\ UNCHANGED <<outbox, acked, item, media, context, tried, condemned, crashes>>

(* The row of the file, if it still is the one that was selected *)
Settle(status, terminal) ==
  IF media[T].status # "done" /\ media[T].source = cron.source
  THEN media' = [media EXCEPT ![T] = [@ EXCEPT !.status = status, !.terminal = terminal,
                                     !.file = IF status = "done" THEN cron.source ELSE 0]]
  ELSE UNCHANGED media

SettleFile ==
  /\ At("download") /\ Done
  /\ IF cron.saved THEN Settle("done", FALSE) /\ UNCHANGED condemned
     ELSE \E terminal \in IF cron.source = NoUrl THEN {TRUE} ELSE BOOLEAN :
            /\ Settle("failed", terminal)
            /\ condemned' = IF terminal THEN [condemned EXCEPT ![T] = @ \cup {cron.source}]
                            ELSE condemned
  /\ UNCHANGED <<outbox, acked, item, context, tried, disk, crashes>>

(* lookupXSavedEnrichment; a snapshot and a terminal error both close it.  *)
Enrich ==
  /\ At("enrich") /\ Done
  /\ \E outcome \in {"failed", "closed"} : context' = [context EXCEPT ![T] = outcome]
  /\ UNCHANGED <<outbox, acked, item, media, tried, disk, condemned, crashes>>

(* A crash, or an error of the database, ends the run. *)
Crash ==
  /\ cron.phase # "off" /\ crashes < MaxCrashes
  /\ cron' = Off /\ crashes' = crashes + 1
  /\ UNCHANGED <<outbox, acked, item, media, context, tried, disk, condemned>>

-----------------------------------------------------------------------------
Handler == Tick \/ NextPhase \/ Take \/ Lookup \/ SettleFile \/ Enrich

Next ==
  \/ \E c \in Captures : Capture(c)
  \/ Receive \/ Handler \/ SaveFile \/ Crash

Spec == Init /\ [][Next]_vars

(* The runner starts the handler again and again, and every request of it  *)
(* has a timeout; nothing says that one ever succeeds.                     *)
Fairness == WF_vars(Handler)

LiveSpec == Spec /\ Fairness

-----------------------------------------------------------------------------
TypeOK ==
  /\ outbox \subseteq Captures /\ acked \subseteq Captures
  /\ item \in [Posts -> [seen : SUBSET {"like", "bookmark"}, resolved : BOOLEAN,
                         terminal : BOOLEAN]]
  /\ media \in [Posts -> [status : {"none", "pending", "done", "failed"},
                          source : {NoUrl} \cup Urls, terminal : BOOLEAN, file : {NoUrl} \cup Urls]]
  /\ context \in [Posts -> {"none", "failed", "closed"}]
  /\ disk \in [Posts -> {NoUrl} \cup Urls]
  /\ cron.phase \in {"off", "resolve", "download", "enrich"}
  /\ crashes \in 0 .. MaxCrashes

(* What the archive says of a capture and of a file is so: an acknowledged *)
(* capture has its flag whatever came after it, a file that is "done" is   *)
(* the download of the source beside it, and a source that failed for good *)
(* is never fetched again, although hints, lookups, crashes and retries    *)
(* change the rows (store.ts:296-318, 379-422,                             *)
(* x-saved-media-download.ts:62-112).                                      *)
ArchiveTruthful ==
  /\ \A c \in acked : c[2] \in item[c[1]].seen
  /\ \A t \in Posts : media[t].status = "done" =>
       media[t].file = media[t].source /\ disk[t] = media[t].source
  /\ At("download") => cron.source \notin condemned[T]

(* A post that waits for its media or its context is tried, whatever the   *)
(* others do (x-saved-media-download.ts:36-39, 115-120).                   *)
BacklogMoves ==
  \A t \in Posts :
    /\ t \in Unresolved ~> (At("resolve") /\ T = t)
    /\ t \in Backlog ~> (At("enrich") /\ T = t)

(* docs/x-saved.md:94: a failure without a terminal error is retried.      *)
FailuresRetried ==
  \A t \in Posts : t \in Files("failed") ~> (At("download") /\ T = t)
=============================================================================
