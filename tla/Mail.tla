-------------------------------- MODULE Mail --------------------------------
(***************************************************************************)
(* Mail to Discord: the cron handler cron/jobs/mail.ts lists the unread    *)
(* messages of Graph and enqueues them, each in a session of its own; a    *)
(* response goes to the thread of its route (features/mail.ts), and the    *)
(* message is marked read when all of the response was sent.               *)
(*                                                                         *)
(* The unread flag at Graph is the only record of what is left to do: the  *)
(* key of a message holds back a second job only while the first is        *)
(* active.  JobQueue and Delivery have the inside of the ledger and of the *)
(* outbox; here a job only ends, and a chunk is only sent.                 *)
(***************************************************************************)
EXTENDS Naturals, Sequences, FiniteSets

CONSTANTS
  Mails,       \* message ids, numbers in the order they were received
  Route,       \* Route[m]: resolveMailRouteKey
  Chunks,      \* of a response
  MaxJobs,     \* bound: jobs of one message
  MaxMishaps   \* bound: crashes, lost answers, deleted threads, dead letters

VARIABLES
  inbox,     \* Graph
  listed,    \* what the handler still has to enqueue
  jobs,      \* jobs[m]: the jobs of m, the last one holds its key
  worker,    \* the chunk being delivered and the next step
  mapping,   \* mail_threads
  created,   \* created[r]: threads at Discord
  excused,   \* history: those that were lost or deleted
  troubles

vars == <<inbox, listed, jobs, worker, mapping, created, excused, troubles>>

Routes == {Route[m] : m \in Mails}
Idle == [at |-> "idle", mail |-> 0, job |-> 0, chunk |-> 0]

Init ==
  /\ inbox = [m \in Mails |-> "absent"]
  /\ listed = {}
  /\ jobs = [m \in Mails |-> <<>>]
  /\ worker = Idle
  /\ mapping = [r \in Routes |-> 0]
  /\ created = [r \in Routes |-> 0]
  /\ excused = [r \in Routes |-> 0]
  /\ troubles = 0

Mishap == troubles < MaxMishaps /\ troubles' = troubles + 1
Fine == UNCHANGED troubles
discord == <<mapping, created, excused>>

-----------------------------------------------------------------------------
(* cron/jobs/mail.ts *)

Arrives(m) ==
  /\ inbox[m] = "absent"
  /\ inbox' = [inbox EXCEPT ![m] = "unread"]
  /\ UNCHANGED <<listed, jobs, worker, discord, troubles>>

(* The runner starts the handler again only when it has returned. *)
List ==
  /\ listed = {}
  /\ listed' = {m \in Mails : inbox[m] = "unread"}
  /\ UNCHANGED <<inbox, jobs, worker, discord, troubles>>

Next1 == CHOOSE m \in listed : \A n \in listed : m <= n

(* A body or a route that cannot be fetched leaves the message unread. *)
Skip ==
  /\ listed # {}
  /\ listed' = listed \ {Next1}
  /\ UNCHANGED <<inbox, jobs, worker, discord, troubles>>

NewJob == [status |-> "queued", suppressed |-> FALSE,
           chunks |-> [c \in 1 .. Chunks |-> "none"]]

(* activeOnlyIdempotency: a terminal job gives the key back. *)
Held(m) == jobs[m] # <<>> /\ jobs[m][Len(jobs[m])].status \in {"queued", "running"}

(* enqueueMail, whatever has become of the message since it was listed. *)
Enqueue ==
  /\ listed # {}
  /\ Held(Next1) \/ Len(jobs[Next1]) < MaxJobs
  /\ jobs' = IF Held(Next1) THEN jobs ELSE [jobs EXCEPT ![Next1] = Append(@, NewJob)]
  /\ listed' = listed \ {Next1}
  /\ UNCHANGED <<inbox, worker, discord, troubles>>

-----------------------------------------------------------------------------
(* The ledger *)

Become(m, i, s) == jobs' = [jobs EXCEPT ![m][i].status = s]
Elsewhere == UNCHANGED <<inbox, listed, worker, discord>>

Claim(m, i) ==
  /\ jobs[m][i].status = "queued"
  /\ Become(m, i, "running")
  /\ Elsewhere /\ Fine

(* A failed attempt is retried, and given up in the end. *)
Attempt(m, i) ==
  /\ jobs[m][i].status = "running"
  /\ \/ Become(m, i, "queued")
     \/ Become(m, i, "dead_letter")
  /\ Elsewhere /\ Mishap

Responds(m, i) ==
  /\ jobs[m][i].status = "running"
  /\ jobs' = [jobs EXCEPT ![m][i] =
       [@ EXCEPT !.status = "completed", !.chunks = [c \in 1 .. Chunks |-> "pending"]]]
  /\ Elsewhere /\ Fine

(* acknowledgeEmail; an answer may be lost, a request refused. *)
Acknowledge(m) ==
  \/ inbox' = [inbox EXCEPT ![m] = "read"] /\ Fine
  \/ UNCHANGED inbox /\ Mishap

(* <NO_REPLY>: the result is committed, then the message is marked read;   *)
(* a crash in between leaves it unread (finalizeSuppressedSource).         *)
Suppresses(m, i) ==
  /\ jobs[m][i].status = "running"
  /\ jobs' = [jobs EXCEPT ![m][i] = [@ EXCEPT !.status = "completed", !.suppressed = TRUE]]
  /\ Acknowledge(m)
  /\ UNCHANGED <<listed, worker, discord>>

-----------------------------------------------------------------------------
(* Delivery to the thread of the route *)

At(s) == worker.at = s
Goto(s) == worker' = [worker EXCEPT !.at = s]
R == Route[worker.mail]

Mark(s) ==
  jobs' = [jobs EXCEPT ![worker.mail][worker.job].chunks[worker.chunk] = s]

(* The outcomes of a call that did not do it: tried again, given up, or    *)
(* nobody knows.                                                           *)
Refused == (Mark("pending") \/ Mark("failed")) /\ worker' = Idle
Unknown == Mark("ambiguous") /\ worker' = Idle

(* An earlier chunk that was not sent holds back those behind it. *)
ClaimChunk(m, i, c) ==
  /\ At("idle")
  /\ jobs[m][i].chunks[c] = "pending"
  /\ \A b \in 1 .. c - 1 : jobs[m][i].chunks[b] = "sent"
  /\ jobs' = [jobs EXCEPT ![m][i].chunks[c] = "sending"]
  /\ worker' = [at |-> "resolve", mail |-> m, job |-> i, chunk |-> c]
  /\ UNCHANGED <<inbox, listed, discord, troubles>>

(* The thread of the route, unless it has none or Discord has not (404). *)
Resolve ==
  /\ At("resolve")
  /\ \/ mapping[R] # 0 /\ Goto("post") /\ Fine /\ UNCHANGED excused
     \/ mapping[R] = 0 /\ Goto("create") /\ Fine /\ UNCHANGED excused
     \/ /\ mapping[R] # 0 /\ Goto("create") /\ Mishap
        /\ excused' = [excused EXCEPT ![R] = @ + 1]
  /\ UNCHANGED <<inbox, listed, jobs, mapping, created>>

CannotFetch ==
  /\ At("resolve")
  /\ Refused
  /\ Mishap /\ UNCHANGED <<inbox, listed, discord>>

Create ==
  /\ At("create")
  /\ \/ created' = [created EXCEPT ![R] = @ + 1] /\ Goto("persist")
        /\ UNCHANGED <<jobs, excused>> /\ Fine
     \/ Refused /\ UNCHANGED <<created, excused>> /\ Mishap
     \/ /\ Unknown /\ Mishap
        /\ created' = [created EXCEPT ![R] = @ + 1]
        /\ excused' = [excused EXCEPT ![R] = @ + 1]
  /\ UNCHANGED <<inbox, listed, mapping>>

(* Mutant: the thread stays with the delivery that created it. *)
MutantPersist == At("persist") /\ Goto("post")
  /\ UNCHANGED <<inbox, listed, jobs, discord, troubles>>

(* setMailThread *)
Persist ==
  /\ At("persist")
  /\ \/ mapping' = [mapping EXCEPT ![R] = created[R]] /\ Goto("post") /\ Fine
        /\ UNCHANGED <<jobs, excused>>
     \/ /\ Unknown /\ Mishap /\ UNCHANGED mapping
        /\ excused' = [excused EXCEPT ![R] = @ + 1]
  /\ UNCHANGED <<inbox, listed, created>>

Post ==
  /\ At("post")
  /\ \/ Mark("sent") /\ Goto("notify") /\ Fine
     \/ (Refused \/ Unknown) /\ Mishap
  /\ UNCHANGED <<inbox, listed, discord>>

(* Mutant: the last chunk is taken for all of them. *)
MutantAllSent(j) == \E c \in 1 .. Chunks : j.chunks[c] = "sent"

AllSent(j) == \A c \in 1 .. Chunks : j.chunks[c] = "sent"

(* The delivery callback *)
Notify ==
  /\ At("notify")
  /\ IF AllSent(jobs[worker.mail][worker.job]) THEN Acknowledge(worker.mail)
     ELSE UNCHANGED inbox /\ Fine
  /\ worker' = Idle
  /\ UNCHANGED <<listed, jobs, discord>>

(* The host stops and starts: claimed jobs are queued again, a chunk that  *)
(* was being sent is ambiguous, a thread that was not stored is lost.      *)
Restart ==
  /\ Mishap
  /\ jobs' = [m \in Mails |-> [i \in DOMAIN jobs[m] |->
       [jobs[m][i] EXCEPT
          !.status = IF @ = "running" THEN "queued" ELSE @,
          !.chunks = [c \in 1 .. Chunks |-> IF @[c] = "sending" THEN "ambiguous" ELSE @[c]]]]]
  /\ excused' = IF At("persist") THEN [excused EXCEPT ![R] = @ + 1] ELSE excused
  /\ listed' = {} /\ worker' = Idle
  /\ UNCHANGED <<inbox, mapping, created>>

-----------------------------------------------------------------------------
Next ==
  \/ \E m \in Mails : Arrives(m)
  \/ List \/ Skip \/ Enqueue
  \/ \E m \in Mails : \E i \in DOMAIN jobs[m] :
       \/ Claim(m, i) \/ Attempt(m, i) \/ Responds(m, i) \/ Suppresses(m, i)
       \/ \E c \in 1 .. Chunks : ClaimChunk(m, i, c)
  \/ Resolve \/ CannotFetch \/ Create \/ Persist \/ Post \/ Notify
  \/ Restart

Spec == Init /\ [][Next]_vars

-----------------------------------------------------------------------------
TypeOK ==
  /\ inbox \in [Mails -> {"absent", "unread", "read"}]
  /\ listed \subseteq Mails
  /\ \A m \in Mails : \A i \in DOMAIN jobs[m] :
       /\ jobs[m][i].status \in {"queued", "running", "completed", "dead_letter"}
       /\ \A c \in 1 .. Chunks : jobs[m][i].chunks[c] \in
            {"none", "pending", "sending", "sent", "failed", "ambiguous"}
  /\ \A r \in Routes : mapping[r] <= created[r]

(* docs/spec/cron.md:226: a message is marked read only when every chunk   *)
(* of one of its responses was sent, or the agent chose not to answer it,  *)
(* and it never has two active jobs, so that one response is on its way to *)
(* be written (features/mail.ts:140-151, repository.ts:1294-1310).         *)
AckOnlyDelivered ==
  \A m \in Mails :
    /\ inbox[m] = "read" =>
         \E i \in DOMAIN jobs[m] :
           \/ jobs[m][i].suppressed
           \/ \A c \in 1 .. Chunks : jobs[m][i].chunks[c] = "sent"
    /\ \A i, k \in DOMAIN jobs[m] :
         {jobs[m][i].status, jobs[m][k].status} \subseteq {"queued", "running"} => i = k

(* A route has one thread, whatever messages, jobs and retries post to it: *)
(* another is made only for one that was deleted, or whose creation the    *)
(* host did not get to store (delivery.ts:152-198).                        *)
OneThreadPerRoute == \A r \in Routes : created[r] <= 1 + excused[r]
=============================================================================
