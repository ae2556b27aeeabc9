------------------------------ MODULE JobQueue ------------------------------
(***************************************************************************)
(* The durable job ledger of src/src/queue/repository.ts: the jobs,        *)
(* idempotency_keys, dead_letters and committed_conversations tables and   *)
(* every QueueRepository method that writes them.  One action is one       *)
(* SQLite transaction.                                                     *)
(*                                                                         *)
(* The callers of the repository (the poller, the cron jobs, the Bot tool) *)
(* are the environment: any caller that was ever handed a fencing token    *)
(* may still use it, however stale it has become.                          *)
(*                                                                         *)
(* Time is abstracted to what the SQL compares it with: a lease is held or *)
(* lapsed (lease_until <= now), a backoff is due or not.                   *)
(***************************************************************************)
EXTENDS Integers, FiniteSets

CONSTANTS
  Jobs,            \* row identifiers, one per accepted input
  Sessions,        \* session_id values
  Keys,            \* idempotency keys
  ActiveOnlyKeys,  \* keys of sources registered with activeOnlyIdempotency
  MaxAttempts,     \* max_attempts of an ordinary job
  MaxChunks,       \* most delivery chunks a result is split into
  Null             \* the SQL NULL of a key, a session or a job id

ASSUME QueueAssumption ==
  /\ Null \notin Keys /\ Null \notin Jobs /\ Null \notin Sessions
  /\ ActiveOnlyKeys \subseteq Keys
  /\ MaxAttempts \in Nat \ {0}
  /\ MaxChunks \in Nat \ {0}

VARIABLES
  jobs,           \* the jobs table
  idem,           \* the idempotency_keys table
  deadLetters,    \* rows of dead_letters, counted per job
  outbox,         \* delivery rows inserted with the result, counted per job
  conversations,  \* turn ids in committed_conversations
  settledBy       \* history: the token that settled a job, 0 when none did

vars == <<jobs, idem, deadLetters, outbox, conversations, settledBy>>

-----------------------------------------------------------------------------
(* Rows *)

Terminal == {"completed", "dead_letter"}
Waiting == {"queued", "retry_wait"}
Claimed == {"claimed", "running"}
Status == {"absent"} \cup Waiting \cup Claimed \cup Terminal

Row == [status : Status, admission : BOOLEAN, provisioning : BOOLEAN,
        session : Sessions \cup {Null}, seq : Nat, key : Keys \cup {Null},
        attempts : Nat, token : Nat, lease : {"none", "held", "lapsed"},
        due : BOOLEAN, suppressed : BOOLEAN]

NoRow == [status |-> "absent", admission |-> FALSE, provisioning |-> FALSE,
          session |-> Null, seq |-> 0, key |-> Null, attempts |-> 0,
          token |-> 0, lease |-> "none", due |-> TRUE, suppressed |-> FALSE]

IdemRow == [job : Jobs \cup {Null},
            status : {"none", "active", "completed", "dead_letter"}]
NoKeyRow == [job |-> Null, status |-> "none"]

Present(j) == jobs[j].status # "absent"
Active(j) == jobs[j].status \in Claimed
Unfinished(j) == jobs[j].status \in Waiting \cup Claimed
InSession(s) == {j \in Jobs : Present(j) /\ jobs[j].session = s}

(* Mutant: MAX(sequence) itself, the increment forgotten. *)
MutantLastSequence(s) ==
  {n \in {-1} \cup {jobs[j].seq : j \in InSession(s)} :
     \A j \in InSession(s) : jobs[j].seq <= n}

(* COALESCE(MAX(sequence),-1)+1 over the rows of the session: a singleton. *)
NextSequence(s) ==
  {n \in {0} \cup {jobs[j].seq + 1 : j \in InSession(s)} :
     \A j \in InSession(s) : jobs[j].seq < n}

(* Mutant: a row that waits for its retry no longer holds up its session. *)
MutantPastRetries(t, j) ==
  \A k \in Jobs :
    t[k].session = t[j].session /\ t[k].seq < t[j].seq
      => t[k].status \notin {"queued", "claimed", "running"}

(* No unfinished row of the same session is ahead of j in table t. *)
Unblocked(t, j) ==
  \A k \in Jobs :
    /\ t[k].status # "absent"
    /\ t[k].session = t[j].session
    /\ t[k].seq < t[j].seq
    => t[k].status \in Terminal

Init ==
  /\ jobs = [j \in Jobs |-> NoRow]
  /\ idem = [k \in Keys |-> NoKeyRow]
  /\ deadLetters = [j \in Jobs |-> 0]
  /\ outbox = [j \in Jobs |-> 0]
  /\ conversations = {}
  /\ settledBy = [j \in Jobs |-> 0]

-----------------------------------------------------------------------------
(* Acceptance *)

(* The key is free, or its source reuses the key of a finished job.  In    *)
(* every other case enqueue returns the existing job and writes nothing.   *)
Reusable(k) ==
  \/ idem[k].status = "none"
  \/ /\ k \in ActiveOnlyKeys
     /\ \E j \in Jobs : idem[k].job = j /\ jobs[j].status \in Terminal

(* The previous owner of a reused key gives it up in the same transaction. *)
Disowned(k) ==
  [i \in Jobs |-> IF k # Null /\ jobs[i].key = k
                  THEN [jobs[i] EXCEPT !.key = Null]
                  ELSE jobs[i]]

(* item: an item-thread cron job, which brings a key and a new session. *)
Enqueue(j, s, k, item) ==
  /\ jobs[j].status = "absent"
  /\ k # Null => Reusable(k)
  /\ item => k # Null /\ InSession(s) = {}
  /\ \E n \in NextSequence(s) :
       jobs' = [Disowned(k) EXCEPT ![j] =
                 [NoRow EXCEPT !.status = "queued", !.session = s, !.seq = n,
                               !.key = k, !.provisioning = item]]
  /\ idem' = IF k = Null THEN idem
             ELSE [idem EXCEPT ![k] = [job |-> j, status |-> "active"]]
  /\ UNCHANGED <<deadLetters, outbox, conversations, settledBy>>

(* The admission ticket of a synchronous Bot call: an ordinary row of the  *)
(* session that no worker may claim.                                       *)
CreateAdmission(j, s) ==
  /\ jobs[j].status = "absent"
  /\ \E n \in NextSequence(s) :
       jobs' = [jobs EXCEPT ![j] =
                 [NoRow EXCEPT !.status = "queued", !.admission = TRUE,
                               !.session = s, !.seq = n]]
  /\ UNCHANGED <<idem, deadLetters, outbox, conversations, settledBy>>

-----------------------------------------------------------------------------
(* Admissions *)

(* Mutant: the ticket is admitted without a look at the rows ahead of it. *)
MutantAdmitAtOnce(j) ==
  /\ jobs[j].admission /\ jobs[j].status = "queued"
  /\ jobs' = [jobs EXCEPT ![j].status = "running"]
  /\ UNCHANGED <<idem, deadLetters, outbox, conversations, settledBy>>

Admit(j) ==
  /\ jobs[j].admission /\ jobs[j].status = "queued"
  /\ Unblocked(jobs, j)
  /\ jobs' = [jobs EXCEPT ![j].status = "running"]
  /\ UNCHANGED <<idem, deadLetters, outbox, conversations, settledBy>>

(* tryAdmit of a blocked ticket cancels it in the same transaction. *)
RefuseAdmission(j) ==
  /\ jobs[j].admission /\ jobs[j].status = "queued"
  /\ ~Unblocked(jobs, j)
  /\ jobs' = [jobs EXCEPT ![j].status = "dead_letter"]
  /\ UNCHANGED <<idem, deadLetters, outbox, conversations, settledBy>>

CompleteAdmission(j) ==
  /\ jobs[j].admission /\ jobs[j].status = "running"
  /\ jobs' = [jobs EXCEPT ![j].status = "completed"]
  /\ UNCHANGED <<idem, deadLetters, outbox, conversations, settledBy>>

CancelAdmission(j) ==
  /\ jobs[j].admission /\ jobs[j].status \in {"queued", "running"}
  /\ jobs' = [jobs EXCEPT ![j].status = "dead_letter"]
  /\ UNCHANGED <<idem, deadLetters, outbox, conversations, settledBy>>

-----------------------------------------------------------------------------
(* Claiming *)

Eligible(j) ==
  /\ ~jobs[j].admission
  /\ \/ jobs[j].status \in Waiting /\ jobs[j].due
     \/ jobs[j].status \in Claimed /\ jobs[j].lease = "lapsed"

Exhausted(x) ==
  {j \in Jobs \ x : Eligible(j) /\ jobs[j].attempts >= MaxAttempts}

DeadLettered(r) ==
  [r EXCEPT !.status = "dead_letter", !.lease = "none", !.due = TRUE]

(* The jobs table after claim has dead-lettered the exhausted rows. *)
Swept(x) ==
  [j \in Jobs |-> IF j \in Exhausted(x) THEN DeadLettered(jobs[j])
                  ELSE jobs[j]]

(* Mutant: only a row in progress blocks its session, not a waiting one. *)
MutantCandidates(x) ==
  {j \in Jobs \ x : /\ Eligible(j) /\ jobs[j].attempts < MaxAttempts
                    /\ \A k \in InSession(jobs[j].session) \ {j} : ~Active(k)}

(* The first open row of a session, due and with attempts left.  A row     *)
(* whose cron thread is still to be made holds the session of that thread  *)
(* back as well: left out, it only takes candidates away.                  *)
Candidates(x) ==
  {j \in Jobs \ x : /\ Eligible(j) /\ jobs[j].attempts < MaxAttempts
                    /\ Unblocked(Swept(x), j)}

ClaimedRow(r) ==
  [r EXCEPT !.status = "claimed", !.lease = "held",
            !.token = @ + 1, !.attempts = @ + 1]

(* idempotency_keys rows of the jobs in D follow them into dead_letter. *)
Buried(D) ==
  [k \in Keys |-> IF \E j \in D : jobs[j].key = k
                  THEN [idem[k] EXCEPT !.status = "dead_letter"]
                  ELSE idem[k]]

(* claim with the ids in x excluded.  ORDER BY created_at only ranks rows  *)
(* of different sessions, a session having one candidate at most; which    *)
(* session is served is left open here.                                    *)
Claim(x) ==
  /\ Exhausted(x) \cup Candidates(x) # {}
  /\ \/ Candidates(x) = {} /\ jobs' = Swept(x)
     \/ \E j \in Candidates(x) :
          jobs' = [Swept(x) EXCEPT ![j] = ClaimedRow(@)]
  /\ idem' = Buried(Exhausted(x))
  /\ deadLetters' = [j \in Jobs |-> IF j \in Exhausted(x)
                                    THEN deadLetters[j] + 1
                                    ELSE deadLetters[j]]
  /\ UNCHANGED <<outbox, conversations, settledBy>>

-----------------------------------------------------------------------------
(* Writes of a worker that presents token t *)

(* Mutants: the fence checks the token only, or the status only. *)
MutantTokenOnly(j, t) == jobs[j].token = t
MutantStatusOnly(j, t) == jobs[j].status \in Claimed

Fenced(j, t) == jobs[j].status \in Claimed /\ jobs[j].token = t

MarkRunning(j, t) ==
  /\ Fenced(j, t)
  /\ jobs' = [jobs EXCEPT ![j].status = "running"]
  /\ UNCHANGED <<idem, deadLetters, outbox, conversations, settledBy>>

(* A renewal is accepted even after the lease has lapsed. *)
Heartbeat(j, t) ==
  /\ Fenced(j, t)
  /\ jobs' = [jobs EXCEPT ![j].lease = "held"]
  /\ UNCHANGED <<idem, deadLetters, outbox, conversations, settledBy>>

CommitResult(j, t, suppress, conversation, chunks) ==
  /\ Fenced(j, t)
  /\ jobs' = [jobs EXCEPT ![j].status = "completed", ![j].lease = "none",
                          ![j].suppressed = suppress]
  /\ outbox' = IF suppress THEN outbox
               ELSE [outbox EXCEPT ![j] = @ + chunks]
  /\ conversations' = IF conversation THEN conversations \cup {j}
                      ELSE conversations
  /\ idem' = IF jobs[j].key = Null THEN idem
             ELSE [idem EXCEPT ![jobs[j].key].status = "completed"]
  /\ settledBy' = [settledBy EXCEPT ![j] = t]
  /\ UNCHANGED deadLetters

DeadLetter(j, t) ==
  /\ Fenced(j, t)
  /\ jobs' = [jobs EXCEPT ![j] = DeadLettered(@)]
  /\ idem' = Buried({j})
  /\ deadLetters' = [deadLetters EXCEPT ![j] = @ + 1]
  /\ settledBy' = [settledBy EXCEPT ![j] = t]
  /\ UNCHANGED <<outbox, conversations>>

(* failAttempt with attempts left: back to the queue after a backoff. *)
Retry(j, t) ==
  /\ Fenced(j, t)
  /\ jobs[j].attempts < MaxAttempts
  /\ jobs' = [jobs EXCEPT ![j].status = "retry_wait", ![j].lease = "none",
                          ![j].due = FALSE]
  /\ UNCHANGED <<idem, deadLetters, outbox, conversations, settledBy>>

FailAttempt(j, t) ==
  \/ Retry(j, t)
  \/ jobs[j].attempts >= MaxAttempts /\ DeadLetter(j, t)

-----------------------------------------------------------------------------
(* Late promotion of a delivered item-thread job, startup and time *)

(* The job moves to the head of the destination session, whose rows all    *)
(* shift by one.  Its only caller is the delivery of the job's own result, *)
(* into the session of a Discord thread; Bot tasks, and the tickets that   *)
(* remember their sequence number, live in sessions of their own.          *)
ProvisionCronJob(j, s) ==
  /\ jobs[j].provisioning /\ jobs[j].status = "completed"
  /\ ~jobs[j].suppressed
  /\ jobs[j].session # s
  /\ \A i \in InSession(s) : ~jobs[i].admission
  /\ jobs' = [i \in Jobs |->
       IF i = j THEN [jobs[i] EXCEPT !.session = s, !.seq = 0,
                                     !.provisioning = FALSE]
       ELSE IF i \in InSession(s) THEN [jobs[i] EXCEPT !.seq = @ + 1]
       ELSE jobs[i]]
  /\ UNCHANGED <<idem, deadLetters, outbox, conversations, settledBy>>

(* Mutant: the start forgets the tickets of the process that died. *)
MutantKeepTicket(r) == r

RecoverAdmission(r) ==
  IF r.admission /\ r.status \in {"queued", "running"}
  THEN [r EXCEPT !.status = "dead_letter"] ELSE r

RecoverExpired(r) ==
  IF r.status \in Claimed /\ r.lease = "lapsed"
  THEN [r EXCEPT !.status = "retry_wait", !.lease = "none", !.due = TRUE]
  ELSE r

(* initializeQueue: both recoveries, before any worker of the new process. *)
InitializeQueue ==
  /\ jobs' = [j \in Jobs |-> RecoverExpired(RecoverAdmission(jobs[j]))]
  /\ UNCHANGED <<idem, deadLetters, outbox, conversations, settledBy>>

LeaseLapses(j) ==
  /\ jobs[j].lease = "held"
  /\ jobs' = [jobs EXCEPT ![j].lease = "lapsed"]
  /\ UNCHANGED <<idem, deadLetters, outbox, conversations, settledBy>>

BackoffElapses(j) ==
  /\ ~jobs[j].due
  /\ jobs' = [jobs EXCEPT ![j].due = TRUE]
  /\ UNCHANGED <<idem, deadLetters, outbox, conversations, settledBy>>

-----------------------------------------------------------------------------
Accept ==
  \E j \in Jobs, s \in Sessions :
    \/ \E k \in Keys \cup {Null}, item \in BOOLEAN : Enqueue(j, s, k, item)
    \/ CreateAdmission(j, s)

Admission ==
  \E j \in Jobs :
    \/ Admit(j)
    \/ RefuseAdmission(j)
    \/ CompleteAdmission(j)
    \/ CancelAdmission(j)

Work ==
  \E j \in Jobs : \E t \in 1 .. jobs[j].token :
    \/ MarkRunning(j, t)
    \/ Heartbeat(j, t)
    \/ \E suppress, conversation \in BOOLEAN, chunks \in 1 .. MaxChunks :
         CommitResult(j, t, suppress, conversation, chunks)
    \/ DeadLetter(j, t)
    \/ FailAttempt(j, t)

Environment ==
  \/ InitializeQueue
  \/ \E j \in Jobs : LeaseLapses(j) \/ BackoffElapses(j)
  \/ \E j \in Jobs, s \in Sessions : ProvisionCronJob(j, s)

Next ==
  \/ Accept
  \/ Admission
  \/ \E x \in SUBSET Jobs : Claim(x)
  \/ Work
  \/ Environment

Spec == Init /\ [][Next]_vars

-----------------------------------------------------------------------------
(* Properties *)

TypeOK ==
  /\ jobs \in [Jobs -> Row]
  /\ idem \in [Keys -> IdemRow]
  /\ deadLetters \in [Jobs -> Nat]
  /\ outbox \in [Jobs -> Nat]
  /\ conversations \subseteq Jobs
  /\ settledBy \in [Jobs -> Nat]

(* Two rows of one session never share a sequence number, through          *)
(* acceptance of jobs and tickets and through late promotion, so the order *)
(* of a session is total.                                                  *)
SequenceUnique ==
  \A j, k \in Jobs :
    Present(j) /\ Present(k) /\ jobs[j].session = jobs[k].session
      /\ jobs[j].seq = jobs[k].seq => j = k

(* A row runs only when every row ahead of it in its session is settled:   *)
(* claims, direct Bot admissions, retries, expired leases, startup         *)
(* recovery and promotion never let a later input overtake.                *)
SessionSerial == \A j \in Jobs : Active(j) => Unblocked(jobs, j)

(* At most one row of a session is being worked on, whether a worker or a  *)
(* synchronous Bot call does it.                                           *)
OneActivePerSession ==
  \A j, k \in Jobs :
    Active(j) /\ Active(k) /\ jobs[j].session = jobs[k].session => j = k

(* A key is held by one row at most, the row its idempotency record names, *)
(* and the record says what became of that row: a repeated input is        *)
(* answered from the job it was first accepted as.                         *)
KeyOwnership ==
  /\ \A j \in Jobs, k \in Keys : jobs[j].key = k <=> idem[k].job = j
  /\ \A k \in Keys :
       LET j == idem[k].job IN
       CASE idem[k].status = "none" -> j = Null
         [] idem[k].status = "active" -> j # Null /\ Unfinished(j)
         [] OTHER -> j # Null /\ jobs[j].status = idem[k].status

(* Every job in progress carries a lease that will lapse unless renewed,   *)
(* and nothing else does: no crash can leave a job that claim would never  *)
(* take back.  Admission tickets never carry one, so no worker takes a     *)
(* running synchronous call away.                                          *)
LeaseShape ==
  \A j \in Jobs :
    jobs[j].lease # "none" <=> Active(j) /\ ~jobs[j].admission

(* The ledgers agree with the row: one dead_letters row exactly for a      *)
(* dead-lettered job, deliveries exactly for a completed job that was not  *)
(* suppressed, an adopted conversation only for a completed one; its key   *)
(* and its lease are held as its status says.                              *)
LedgersAgree ==
  /\ KeyOwnership /\ LeaseShape
  /\ \A j \in Jobs :
       /\ deadLetters[j] = IF jobs[j].status = "dead_letter" /\ ~jobs[j].admission
                           THEN 1 ELSE 0
       /\ outbox[j] \in 0 .. MaxChunks
       /\ outbox[j] > 0 <=> /\ jobs[j].status = "completed"
                            /\ ~jobs[j].admission /\ ~jobs[j].suppressed
       /\ j \in conversations => jobs[j].status = "completed"

(* A job is settled only by its newest claim, never by a worker whose      *)
(* lease was taken over.                                                   *)
SettledByNewest ==
  \A j \in Jobs :
    settledBy[j] # 0 => /\ settledBy[j] = jobs[j].token
                        /\ jobs[j].status \in Terminal

(* A settled job stays as it was settled: no late write, retry, recovery   *)
(* or promotion reopens it or adds to what it delivered.                   *)
SettledForever ==
  [][\A j \in Jobs :
       jobs[j].status \in Terminal =>
         /\ jobs'[j].status = jobs[j].status
         /\ jobs'[j].suppressed = jobs[j].suppressed
         /\ outbox'[j] = outbox[j]
         /\ deadLetters'[j] = deadLetters[j]]_vars

=============================================================================
