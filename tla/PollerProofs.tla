---------------------------- MODULE PollerProofs ----------------------------
(***************************************************************************)
(* Machine-checked: the agents a run of the host waits for exclude each    *)
(* other on their session, and those it has lost sight of never answer for *)
(* it, for every set of jobs, sessions and keys and every bound.  Composes *)
(* the host (Poller) with what is proved of its ledger (JobQueueProofs).   *)
(***************************************************************************)
EXTENDS Poller, TLAPS

L == INSTANCE JobQueueProofs

-----------------------------------------------------------------------------
(* The invariant *)

Attached == agents \ stray

WorkerRow == [stage : Stage, token : Nat, aborted : BOOLEAN]

(* A process that is not up has no workers, and one that has killed the    *)
(* orphans no agents.                                                      *)
HostKnows ==
  /\ host \in {"down", "cleaned", "up"}
  /\ worker \in [Jobs -> WorkerRow]
  /\ agents \subseteq Jobs \X Nat
  /\ host # "up" => \A j \in Jobs : worker[j].stage = "idle" /\ Held(j) = 0
  /\ host = "cleaned" => agents = {}

(* A row against its worker and its agents.  A ticket never gets a token;  *)
(* the worker of any other row holds the newest claim; an agent belongs to *)
(* a row in progress and, unless a crash has orphaned it, to a worker that *)
(* waits for it.                                                           *)
RowKnows(j) ==
  /\ jobs[j].status = "absent" => worker[j].stage = "idle" /\ Held(j) = 0
  /\ Ticket(j) => /\ jobs[j].token = 0 /\ Held(j) = 0
                  /\ worker[j].stage \in {"idle", "ticket", "running"}
  /\ worker[j].stage # "idle" /\ ~Ticket(j) =>
       /\ jobs[j].status \in {"claimed", "running"}
       /\ jobs[j].token = Held(j) /\ Held(j) > 0 /\ worker[j].stage # "ticket"
  /\ \A t \in Nat : <<j, t>> \in Attached =>
       /\ jobs[j].status \in {"claimed", "running"} /\ jobs[j].token = t
       /\ host = "up" => worker[j].stage = "running" /\ Held(j) = t

HostInv == L!TypeOK /\ HostKnows /\ \A j \in Jobs : RowKnows(j)

(* A row against the agents the host has lost sight of.  They are of past  *)
(* or present claims, and the worker of a present one has given it up.     *)
StrayKnows(j) ==
  \A t \in Nat : <<j, t>> \in stray =>
    /\ jobs[j].status # "absent" /\ t <= jobs[j].token
    /\ ~Ticket(j) /\ t = jobs[j].token =>
         /\ jobs[j].status # "completed"
         /\ worker[j].stage \in {"idle", "failed", "hopeless"}

StrayInv == stray \subseteq Jobs \X Nat /\ \A j \in Jobs : StrayKnows(j)

(* A process that has killed the orphans has lost sight of nobody.         *)
CleanInv == host = "cleaned" => stray = {}

LEMMA LedgerAssumption == L!QueueAssumption
BY PollerAssumption DEF L!QueueAssumption

LEMMA LedgerRows ==
  ASSUME L!TypeOK
  PROVE  /\ jobs = [j \in Jobs |-> jobs[j]]
         /\ \A j \in Jobs : /\ jobs[j].token \in Nat /\ jobs[j].admission \in BOOLEAN
                            /\ jobs[j] \in L!Row
BY DEF L!TypeOK, L!Row

LEMMA InitHolds == Init => HostInv
<1> SUFFICES ASSUME Init PROVE HostInv
  OBVIOUS
<1>1. L!Init
  BY DEF Init, Q!Init, L!Init, Q!NoRow, L!NoRow, Q!NoKeyRow, L!NoKeyRow
<1>2. L!TypeOK
  BY <1>1, LedgerAssumption, L!InitType
<1>3. HostKnows
  BY DEF Init, HostKnows, WorkerRow, Idle, Stage, Held
<1>4. \A j \in Jobs : RowKnows(j)
  BY DEF Init, Q!Init, Q!NoRow, RowKnows, Idle, Held, Ticket, Attached
<1> QED BY <1>2, <1>3, <1>4 DEF HostInv

-----------------------------------------------------------------------------
(* The host changes the ledger by its transactions only *)

LEMMA TokenHeld ==
  ASSUME HostInv, NEW j \in Jobs, host = "up", worker[j].stage # "idle", ~Ticket(j)
  PROVE  Held(j) \in 1 .. jobs[j].token
BY DEF HostInv, RowKnows, HostKnows, WorkerRow, Held

LEMMA NotATicket ==
  ASSUME HostInv, NEW j \in Jobs,
         worker[j].stage \in {"preparing", "booting", "answered", "failed", "hopeless"}
  PROVE  ~Ticket(j) /\ worker[j].stage # "idle"
BY DEF HostInv, RowKnows

LEMMA NextIsLedgers == HostInv /\ [Next]_vars => [L!Next]_(L!vars)
<1> SUFFICES ASSUME HostInv, [Next]_vars, ~UNCHANGED ledger PROVE L!Next
  BY DEF ledger, L!vars
<1>1. CASE Receive
  <2>1. PICK j \in Jobs, s \in Sessions, k \in Keys \cup {Null} :
          Q!Enqueue(j, s, k, FALSE)
    BY <1>1 DEF Receive
  <2>2. L!Enqueue(j, s, k, FALSE)
    BY <2>1 DEF Q!Enqueue, L!Enqueue, Q!Reusable, L!Reusable, Q!Disowned, L!Disowned,
       Q!InSession, L!InSession, Q!NextSequence, L!NextSequence, Q!NoRow, L!NoRow,
       Q!Terminal, L!Terminal, Q!Present, L!Present
  <2> QED BY <2>2 DEF L!Next, L!Accept
<1>2. CASE Poll
  <2>1. L!Claim(InFlight)
    BY <1>2 DEF Poll, Q!Claim, L!Claim, Q!Exhausted, L!Exhausted, Q!Candidates,
       L!Candidates, Q!Swept, L!Swept, Q!Eligible, L!Eligible, Q!Unblocked, L!Unblocked,
       Q!DeadLettered, L!DeadLettered, Q!ClaimedRow, L!ClaimedRow, Q!Buried, L!Buried,
       Q!Waiting, L!Waiting, Q!Claimed, L!Claimed, Q!Terminal, L!Terminal
  <2> QED BY <2>1 DEF L!Next, InFlight
<1>3. ASSUME NEW j \in Jobs, Renew(j) PROVE L!Next
  <2>1. Held(j) \in 1 .. jobs[j].token
    BY <1>3, TokenHeld DEF Renew, InFlight
  <2>2. L!Heartbeat(j, Held(j))
    BY <1>3 DEF Renew, Q!Heartbeat, L!Heartbeat, Q!Fenced, L!Fenced, Q!Claimed, L!Claimed
  <2> QED BY <2>1, <2>2 DEF L!Next, L!Work
<1>4. ASSUME NEW j \in Jobs, Step(j) PROVE L!Next
  <2>1. /\ Q!MarkRunning(j, Held(j)) => L!MarkRunning(j, Held(j))
        /\ Q!DeadLetter(j, Held(j)) => L!DeadLetter(j, Held(j))
        /\ Q!FailAttempt(j, Held(j)) => L!FailAttempt(j, Held(j))
    BY DEF Q!MarkRunning, L!MarkRunning, Q!DeadLetter, L!DeadLetter, Q!DeadLettered,
       L!DeadLettered, Q!FailAttempt, L!FailAttempt, Q!Retry, L!Retry, Q!Buried, L!Buried,
       Q!Fenced, L!Fenced, Q!Claimed, L!Claimed
  <2>2. ASSUME NEW su \in BOOLEAN, NEW co \in BOOLEAN, NEW n \in 1 .. MaxChunks,
               Q!CommitResult(j, Held(j), su, co, n)
        PROVE  L!CommitResult(j, Held(j), su, co, n)
    BY <2>2 DEF Q!CommitResult, L!CommitResult, Q!Fenced, L!Fenced, Q!Claimed, L!Claimed
  <2>3. ASSUME worker[j].stage \in {"preparing", "booting", "answered", "failed",
                                    "hopeless"}, host = "up",
               \/ Q!MarkRunning(j, Held(j)) \/ Q!DeadLetter(j, Held(j))
               \/ Q!FailAttempt(j, Held(j))
               \/ \E su, co \in BOOLEAN, n \in 1 .. MaxChunks :
                    Q!CommitResult(j, Held(j), su, co, n)
        PROVE  L!Next
    <3>1. Held(j) \in 1 .. jobs[j].token
      BY <2>3, NotATicket, TokenHeld
    <3> QED BY <2>1, <2>2, <2>3, <3>1 DEF L!Next, L!Work
  <2> QED BY <1>4, <2>3 DEF Step, Prepare, HandlerRuns, Ready, BootFails, Exit,
                            ClientEnds, Cut, Settle, CommitFails, SettleFails, At
<1>5. ASSUME NEW j \in Jobs, Bot(j) PROVE L!Next
  <2>1. L!Admit(j) \/ L!RefuseAdmission(j) \/ L!CancelAdmission(j) \/ L!CompleteAdmission(j)
    BY <1>5 DEF Bot, BotRun, BotGivesUp, BotReturns, Q!Admit, L!Admit, Q!RefuseAdmission,
       L!RefuseAdmission, Q!CancelAdmission, L!CancelAdmission, Q!CompleteAdmission,
       L!CompleteAdmission, Q!Unblocked, L!Unblocked, Q!Terminal, L!Terminal
  <2> QED BY <2>1 DEF L!Next, L!Admission
<1>6. ASSUME NEW j \in Jobs, LeaseLapses(j) \/ BackoffElapses(j) PROVE L!Next
  BY <1>6 DEF LeaseLapses, BackoffElapses, Q!LeaseLapses, L!LeaseLapses,
     Q!BackoffElapses, L!BackoffElapses, L!Next, L!Environment
<1>7. ASSUME NEW j \in Jobs, NEW s \in Sessions, BotCall(j, s) PROVE L!Next
  <2>1. L!CreateAdmission(j, s)
    BY <1>7 DEF BotCall, Q!CreateAdmission, L!CreateAdmission, Q!NextSequence,
       L!NextSequence, Q!InSession, L!InSession, Q!Present, L!Present, Q!NoRow, L!NoRow
  <2> QED BY <2>1 DEF L!Next, L!Accept
<1>8. CASE Start
  <2>1. L!InitializeQueue
    BY <1>8 DEF Start, Q!InitializeQueue, L!InitializeQueue, Q!RecoverExpired,
       L!RecoverExpired, Q!RecoverAdmission, L!RecoverAdmission, Q!Claimed, L!Claimed
  <2> QED BY <2>1 DEF L!Next, L!Environment
<1> QED BY <1>1, <1>2, <1>3, <1>4, <1>5, <1>6, <1>7, <1>8
     DEF Next, RenewFails, Crash, KillOrphans, OrphanExits, vars, ledger

-----------------------------------------------------------------------------
(* Every step keeps what the host knows *)

(* A row that keeps its status, its worker and its agents.                 *)
LEMMA RowKept ==
  ASSUME HostInv, NEW j \in Jobs, host' = host,
         jobs'[j].status = jobs[j].status, jobs'[j].token = jobs[j].token,
         jobs'[j].admission = jobs[j].admission,
         worker'[j].stage = worker[j].stage, worker'[j].token = worker[j].token,
         \A t \in Nat : <<j, t>> \in Attached' => <<j, t>> \in Attached
  PROVE  RowKnows(j)'
BY DEF HostInv, RowKnows, Held, Ticket

(* A step of the process that is up and concerns one row.                  *)
LEMMA OneRow ==
  ASSUME HostInv, NEW j \in Jobs, host = "up", host' = "up",
         NEW w \in WorkerRow, worker' = [worker EXCEPT ![j] = w],
         \A i \in Jobs \ {j} :
           /\ jobs'[i].status = jobs[i].status /\ jobs'[i].token = jobs[i].token
           /\ jobs'[i].admission = jobs[i].admission,
         agents' \subseteq Jobs \X Nat,
         \A i \in Jobs \ {j} : \A t \in Nat :
           <<i, t>> \in Attached' => <<i, t>> \in Attached,
         RowKnows(j)'
  PROVE  HostKnows' /\ \A i \in Jobs : RowKnows(i)'
<1>1. HostKnows'
  BY DEF HostInv, HostKnows
<1>2. ASSUME NEW i \in Jobs, i # j PROVE RowKnows(i)'
  <2>1. worker'[i] = worker[i]
    BY <1>2 DEF HostInv, HostKnows
  <2> QED BY <1>2, <2>1, RowKept
<1> QED BY <1>1, <1>2

(* An agent that is attached is that of a worker that waits for it.        *)
LEMMA AgentsWait ==
  ASSUME HostInv, host = "up", NEW j \in Jobs, NEW t \in Nat, <<j, t>> \in Attached
  PROVE  worker[j].stage = "running" /\ Held(j) = t /\ t = jobs[j].token
BY DEF HostInv, RowKnows

LEMMA Gone == Idle \in WorkerRow /\ Idle.stage = "idle" /\ Idle.token = 0
BY DEF Idle, WorkerRow, Stage

LEMMA Going ==
  ASSUME HostInv, NEW j \in Jobs, NEW st \in Stage
  PROVE  LET w == [worker[j] EXCEPT !.stage = st] IN
         /\ w \in WorkerRow /\ w.stage = st /\ w.token = worker[j].token
         /\ [worker EXCEPT ![j].stage = st] = [worker EXCEPT ![j] = w]
BY DEF HostInv, HostKnows, WorkerRow

LEMMA GotoWorker ==
  ASSUME HostInv, NEW j \in Jobs, NEW st \in Stage, Goto(j, st)
  PROVE  \E w \in WorkerRow : /\ w.stage = st /\ w.token = worker[j].token
                              /\ worker' = [worker EXCEPT ![j] = w] /\ worker'[j] = w
<1>1. \A w : [worker EXCEPT ![j] = w][j] = w
  BY DEF HostInv, HostKnows
<1> QED BY <1>1, Going DEF Goto

LEMMA DoneWorker ==
  ASSUME HostInv, NEW j \in Jobs, Done(j)
  PROVE  worker' = [worker EXCEPT ![j] = Idle] /\ worker'[j] = Idle
BY DEF HostInv, HostKnows, Done

(* A row whose worker has ended, and whose agents are gone or stray: what  *)
(* became of the row does not matter, as long as a ticket keeps no token.  *)
LEMMA DoneKnows ==
  ASSUME HostInv, NEW j \in Jobs, worker'[j] = Idle, host' = "up",
         jobs'[j].token = jobs[j].token, jobs'[j].admission = jobs[j].admission,
         \A t \in Nat : <<j, t>> \notin Attached'
  PROVE  RowKnows(j)'
BY Gone DEF HostInv, RowKnows, Held, Ticket

(* A worker of an ordinary row goes on under its claim, without an agent.  *)
LEMMA GoneOnKnows ==
  ASSUME HostInv, NEW j \in Jobs, host' = "up",
         ~Ticket(j), worker[j].stage # "idle",
         jobs'[j].status \in {"claimed", "running"}, jobs'[j].token = jobs[j].token,
         jobs'[j].admission = jobs[j].admission,
         worker'[j].token = worker[j].token,
         worker'[j].stage \notin {"idle", "ticket"},
         \A t \in Nat : <<j, t>> \in Attached' =>
           worker'[j].stage = "running" /\ t = Held(j)
  PROVE  RowKnows(j)'
BY DEF HostInv, RowKnows, Held, Ticket

(* What a transaction under a token does to the rows.                      *)
LEMMA MarkRows ==
  ASSUME HostInv, NEW j \in Jobs, Q!MarkRunning(j, Held(j))
  PROVE  /\ \A i \in Jobs : jobs'[i].token = jobs[i].token
                            /\ jobs'[i].admission = jobs[i].admission
         /\ \A i \in Jobs \ {j} : jobs'[i].status = jobs[i].status
         /\ jobs'[j].status = "running"
<1> USE LedgerRows DEF HostInv
<1> QED BY DEF Q!MarkRunning, L!Row

LEMMA SettleRows ==
  ASSUME HostInv, NEW j \in Jobs,
         \/ Q!DeadLetter(j, Held(j))
         \/ Q!FailAttempt(j, Held(j))
         \/ \E su, co \in BOOLEAN, n \in 1 .. MaxChunks :
              Q!CommitResult(j, Held(j), su, co, n)
  PROVE  /\ \A i \in Jobs : jobs'[i].token = jobs[i].token
                            /\ jobs'[i].admission = jobs[i].admission
         /\ \A i \in Jobs \ {j} : jobs'[i].status = jobs[i].status
         /\ jobs'[j].status # "absent"
         /\ Q!DeadLetter(j, Held(j)) \/ Q!FailAttempt(j, Held(j)) =>
              jobs'[j].status # "completed"
<1> USE LedgerRows DEF HostInv
<1>1. CASE Q!DeadLetter(j, Held(j))
  BY <1>1 DEF Q!DeadLetter, Q!DeadLettered, L!Row
<1>2. CASE Q!FailAttempt(j, Held(j))
  BY <1>1, <1>2 DEF Q!FailAttempt, Q!Retry, L!Row
<1>3. ASSUME NEW su \in BOOLEAN, NEW co \in BOOLEAN, NEW n \in 1 .. MaxChunks,
             Q!CommitResult(j, Held(j), su, co, n)
      PROVE  /\ \A i \in Jobs : jobs'[i].token = jobs[i].token
                                /\ jobs'[i].admission = jobs[i].admission
             /\ \A i \in Jobs \ {j} : jobs'[i].status = jobs[i].status
             /\ jobs'[j].status = "completed"
  <2>1. jobs' = [jobs EXCEPT ![j].status = "completed", ![j].lease = "none",
                             ![j].suppressed = su]
    BY <1>3 DEF Q!CommitResult
  <2> QED BY <2>1 DEF L!Row
<1> QED BY <1>1, <1>2, <1>3

LEMMA AdmissionRows ==
  ASSUME HostInv, NEW j \in Jobs,
         \/ Q!Admit(j) \/ Q!RefuseAdmission(j)
         \/ Q!CancelAdmission(j) \/ Q!CompleteAdmission(j)
  PROVE  /\ Ticket(j)
         /\ \A i \in Jobs : jobs'[i].token = jobs[i].token
                            /\ jobs'[i].admission = jobs[i].admission
         /\ \A i \in Jobs \ {j} : jobs'[i].status = jobs[i].status
         /\ Q!Admit(j) => jobs'[j].status = "running"
         /\ jobs'[j].status # "absent"
<1> USE LedgerRows DEF HostInv
<1> QED BY DEF Q!Admit, Q!RefuseAdmission, Q!CancelAdmission, Q!CompleteAdmission,
               L!Row, Ticket

LEMMA NewRows ==
  ASSUME HostInv, NEW j \in Jobs, NEW s \in Sessions,
         NEW k \in Keys \cup {Null}, NEW ticket \in BOOLEAN,
         IF ticket THEN Q!CreateAdmission(j, s) ELSE Q!Enqueue(j, s, k, FALSE)
  PROVE  /\ jobs[j].status = "absent" /\ jobs'[j].status = "queued"
         /\ jobs'[j].token = 0 /\ jobs'[j].admission = ticket
         /\ \A i \in Jobs \ {j} :
              /\ jobs'[i].status = jobs[i].status /\ jobs'[i].token = jobs[i].token
              /\ jobs'[i].admission = jobs[i].admission
<1> USE LedgerRows DEF HostInv
<1>1. CASE ticket = TRUE
  <2>1. PICK n \in Q!NextSequence(s) :
          jobs' = [jobs EXCEPT ![j] =
                    [Q!NoRow EXCEPT !.status = "queued", !.admission = TRUE,
                                    !.session = s, !.seq = n]]
    BY <1>1 DEF Q!CreateAdmission
  <2>2. jobs'[j].status = "queued" /\ jobs'[j].token = 0 /\ jobs'[j].admission = TRUE
    BY <2>1 DEF Q!NoRow
  <2> QED BY <1>1, <2>1, <2>2 DEF Q!CreateAdmission, L!Row
<1>2. CASE ticket = FALSE
  <2>1. PICK n \in Q!NextSequence(s) :
          jobs' = [Q!Disowned(k) EXCEPT ![j] =
                    [Q!NoRow EXCEPT !.status = "queued", !.session = s, !.seq = n,
                                    !.key = k, !.provisioning = FALSE]]
    BY <1>2 DEF Q!Enqueue
  <2>2. jobs'[j].status = "queued" /\ jobs'[j].token = 0 /\ jobs'[j].admission = FALSE
    BY <2>1 DEF Q!NoRow, Q!Disowned
  <2>3. \A i \in Jobs \ {j} :
              /\ jobs'[i].status = jobs[i].status /\ jobs'[i].token = jobs[i].token
              /\ jobs'[i].admission = jobs[i].admission
    BY <2>1 DEF Q!Disowned, L!Row
  <2> QED BY <1>2, <2>2, <2>3 DEF Q!Enqueue
<1> QED BY <1>1, <1>2

(* claim leaves the rows in flight and the tickets alone; any other row it *)
(* keeps, buries or hands out under the next token.                        *)
LEMMA ClaimRows ==
  ASSUME HostInv, Q!Claim(InFlight)
  PROVE  /\ jobs' = [i \in Jobs |-> jobs'[i]]
         /\ \A i \in Jobs :
              /\ jobs'[i].admission = jobs[i].admission
              /\ \/ jobs'[i].status = jobs[i].status /\ jobs'[i].token = jobs[i].token
                 \/ /\ i \notin InFlight /\ ~Ticket(i) /\ jobs'[i].token = jobs[i].token
                    /\ jobs'[i].status = "dead_letter"
                 \/ /\ i \notin InFlight /\ ~Ticket(i) /\ jobs'[i].token = jobs[i].token + 1
                    /\ jobs'[i].status = "claimed"
<1> USE LedgerRows DEF HostInv
<1> DEFINE T == Q!Swept(InFlight)
<1>1. ASSUME NEW i \in Jobs
      PROVE  /\ T[i].admission = jobs[i].admission /\ T[i].token = jobs[i].token
             /\ \/ T[i].status = jobs[i].status
                \/ T[i].status = "dead_letter" /\ i \notin InFlight /\ ~Ticket(i)
             /\ T[i].token \in Nat
  <2>1. T[i] = IF i \in Q!Exhausted(InFlight) THEN Q!DeadLettered(jobs[i]) ELSE jobs[i]
    BY DEF Q!Swept
  <2>2. Q!DeadLettered(jobs[i]).admission = jobs[i].admission
        /\ Q!DeadLettered(jobs[i]).token = jobs[i].token
        /\ Q!DeadLettered(jobs[i]).status = "dead_letter"
    BY DEF Q!DeadLettered, L!Row
  <2>3. i \in Q!Exhausted(InFlight) => i \notin InFlight /\ ~Ticket(i)
    BY DEF Q!Exhausted, Q!Eligible, Ticket
  <2> QED BY <2>1, <2>2, <2>3
<1>2. T = [i \in Jobs |-> T[i]]
  BY DEF Q!Swept
<1> HIDE DEF T
<1>3. CASE jobs' = T
  BY <1>1, <1>2, <1>3
<1>4. ASSUME NEW j \in Q!Candidates(InFlight), jobs' = [T EXCEPT ![j] = Q!ClaimedRow(T[j])]
      PROVE  /\ jobs' = [i \in Jobs |-> jobs'[i]]
             /\ \A i \in Jobs \ {j} : jobs'[i] = T[i]
             /\ jobs'[j].admission = jobs[j].admission
             /\ j \notin InFlight /\ ~Ticket(j) /\ jobs'[j].token = jobs[j].token + 1
             /\ jobs'[j].status = "claimed"
  <2>1. j \in Jobs /\ j \notin InFlight /\ ~Ticket(j) /\ j \notin Q!Exhausted(InFlight)
    <3>1. j \in Jobs /\ j \notin InFlight /\ ~Ticket(j) /\ jobs[j].attempts < MaxAttempts
      BY DEF Q!Candidates, Q!Eligible, Ticket
    <3>2. jobs[j].attempts \in Nat
      BY <3>1 DEF L!Row
    <3> QED BY <3>1, <3>2, PollerAssumption DEF Q!Exhausted
  <2>2. T[j] = jobs[j]
    BY <2>1 DEF T, Q!Swept
  <2>3. jobs'[j] = Q!ClaimedRow(jobs[j])
    BY <1>2, <1>4, <2>1, <2>2
  <2>4. Q!ClaimedRow(jobs[j]) = [jobs[j] EXCEPT !.status = "claimed", !.lease = "held",
            !.token = jobs[j].token + 1, !.attempts = jobs[j].attempts + 1]
    BY DEF Q!ClaimedRow
  <2>5. /\ Q!ClaimedRow(jobs[j]).status = "claimed"
        /\ Q!ClaimedRow(jobs[j]).token = jobs[j].token + 1
        /\ Q!ClaimedRow(jobs[j]).admission = jobs[j].admission
    BY <2>1, <2>4 DEF L!Row
  <2>6. /\ jobs' = [i \in Jobs |-> jobs'[i]]
        /\ \A i \in Jobs \ {j} : jobs'[i] = T[i]
    BY <1>2, <1>4
  <2> QED BY <2>1, <2>3, <2>5, <2>6
<1>5. \/ jobs' = T
      \/ \E j \in Q!Candidates(InFlight) : jobs' = [T EXCEPT ![j] = Q!ClaimedRow(T[j])]
  BY DEF Q!Claim, T
<1>6. CASE \E j \in Q!Candidates(InFlight) :
             jobs' = [T EXCEPT ![j] = Q!ClaimedRow(T[j])]
  <2>1. PICK j \in Q!Candidates(InFlight) :
               jobs' = [T EXCEPT ![j] = Q!ClaimedRow(T[j])]
    BY <1>6
  <2> QED BY <1>1, <1>4, <2>1
<1> QED BY <1>3, <1>5, <1>6

LEMMA PollKeeps ==
  ASSUME HostInv, Poll PROVE HostKnows' /\ \A i \in Jobs : RowKnows(i)'
<1> USE DEF Poll
<1>1. \A i \in Jobs : jobs[i].token \in Nat
  BY LedgerRows DEF HostInv
<1>2. ASSUME NEW i \in Jobs
      PROVE  /\ worker'[i] = IF jobs'[i].token > jobs[i].token
                  THEN [stage |-> "preparing", token |-> jobs'[i].token, aborted |-> FALSE]
                  ELSE worker[i]
             /\ worker'[i] \in WorkerRow /\ RowKnows(i)'
  <2>1. worker'[i] = IF jobs'[i].token > jobs[i].token
                  THEN [stage |-> "preparing", token |-> jobs'[i].token, aborted |-> FALSE]
                  ELSE worker[i]
    OBVIOUS
  <2>2. worker[i] \in WorkerRow
    BY DEF HostInv, HostKnows
  <2>3. i \notin InFlight /\ ~Ticket(i) =>
          worker[i].stage = "idle" /\ \A t \in Nat : <<i, t>> \notin Attached
    BY AgentsWait DEF InFlight
  <2>4. CASE jobs'[i].status = jobs[i].status /\ jobs'[i].token = jobs[i].token
    <3>1. worker'[i] = worker[i]
      BY <1>1, <2>1, <2>4
    <3> QED BY <2>1, <2>2, <2>4, <3>1, ClaimRows, RowKept DEF Attached
  <2>5. CASE /\ i \notin InFlight /\ ~Ticket(i) /\ jobs'[i].token = jobs[i].token
             /\ jobs'[i].status = "dead_letter"
    <3>1. worker'[i] = worker[i]
      BY <1>1, <2>1, <2>5
    <3> QED BY <2>1, <2>2, <2>3, <2>5, <3>1, ClaimRows
            DEF RowKnows, Held, Ticket, Attached
  <2>6. CASE /\ i \notin InFlight /\ ~Ticket(i) /\ jobs'[i].token = jobs[i].token + 1
             /\ jobs'[i].status = "claimed"
    <3>1. jobs'[i].token \in Nat /\ jobs'[i].token > jobs[i].token /\ jobs'[i].token > 0
      BY <1>1, <2>6
    <3>2. worker'[i] = [stage |-> "preparing", token |-> jobs'[i].token, aborted |-> FALSE]
      BY <2>1, <3>1
    <3> QED BY <2>1, <2>3, <2>6, <3>1, <3>2, ClaimRows
            DEF RowKnows, Held, Ticket, Attached, WorkerRow, Stage
  <2> QED BY <2>4, <2>5, <2>6, ClaimRows
<1>3. worker' = [i \in Jobs |-> worker'[i]]
  OBVIOUS
<1>4. worker' \in [Jobs -> WorkerRow]
  BY <1>2, <1>3
<1> QED BY <1>2, <1>4 DEF HostInv, HostKnows

(* New rows *)
LEMMA ReceiveKeeps ==
  ASSUME HostInv, Receive PROVE HostKnows' /\ \A i \in Jobs : RowKnows(i)'
<1>1. PICK j \in Jobs, s \in Sessions, k \in Keys \cup {Null} : Q!Enqueue(j, s, k, FALSE)
  BY DEF Receive
<1>2. /\ jobs[j].status = "absent" /\ jobs'[j].status = "queued"
      /\ jobs'[j].token = 0 /\ jobs'[j].admission = FALSE
      /\ \A i \in Jobs \ {j} :
              /\ jobs'[i].status = jobs[i].status /\ jobs'[i].token = jobs[i].token
              /\ jobs'[i].admission = jobs[i].admission
  BY <1>1, NewRows
<1>3. UNCHANGED <<host, worker, agents, stray>>
  BY DEF Receive, process
<1>4. RowKnows(j)'
  BY <1>2, <1>3 DEF HostInv, RowKnows, Held, Ticket, Attached
<1>5. \A i \in Jobs \ {j} : RowKnows(i)'
  BY <1>2, <1>3, RowKept DEF Attached
<1> QED BY <1>3, <1>4, <1>5 DEF HostInv, HostKnows, Held

LEMMA BotCallKeeps ==
  ASSUME HostInv, NEW j \in Jobs, NEW s \in Sessions, BotCall(j, s)
  PROVE  HostKnows' /\ \A i \in Jobs : RowKnows(i)'
<1>1. PICK k : k \in Keys \cup {Null}
  OBVIOUS
<1>2. /\ jobs[j].status = "absent" /\ jobs'[j].status = "queued"
      /\ jobs'[j].token = 0 /\ jobs'[j].admission = TRUE
      /\ \A i \in Jobs \ {j} :
              /\ jobs'[i].status = jobs[i].status /\ jobs'[i].token = jobs[i].token
              /\ jobs'[i].admission = jobs[i].admission
  BY <1>1, NewRows DEF BotCall
<1>3. PICK w \in WorkerRow : /\ w.stage = "ticket" /\ w.token = worker[j].token
                             /\ worker' = [worker EXCEPT ![j] = w] /\ worker'[j] = w
  BY GotoWorker DEF BotCall, Stage
<1>4. host = "up" /\ UNCHANGED <<host, agents, stray>>
  BY DEF BotCall
<1>5. RowKnows(j)'
  BY <1>2, <1>3, <1>4 DEF HostInv, RowKnows, Held, Ticket, Attached
<1>6. agents' \subseteq Jobs \X Nat
  BY <1>4 DEF HostInv, HostKnows
<1> QED BY <1>2, <1>3, <1>4, <1>5, <1>6, OneRow DEF Attached

-----------------------------------------------------------------------------
(* The steps of a worker *)

LEMMA PrepareKeeps ==
  ASSUME HostInv, NEW j \in Jobs, Prepare(j) \/ BootFails(j) \/ CommitFails(j)
  PROVE  HostKnows' /\ \A i \in Jobs : RowKnows(i)'
<1>1. /\ host = "up" /\ UNCHANGED <<ledger, host, agents, stray>>
      /\ worker[j].stage \in {"preparing", "booting", "answered"}
  BY DEF Prepare, BootFails, CommitFails, At
<1>2. PICK st \in {"booting", "failed", "hopeless"} : Goto(j, st)
  BY DEF Prepare, BootFails, CommitFails
<1>3. PICK w \in WorkerRow : /\ w.stage = st /\ w.token = worker[j].token
                             /\ worker' = [worker EXCEPT ![j] = w] /\ worker'[j] = w
  BY <1>2, GotoWorker DEF Stage
<1>4. ~Ticket(j) /\ worker[j].stage # "idle"
  BY <1>1, NotATicket
<1>5. \A t \in Nat : <<j, t>> \notin Attached'
  BY <1>1, AgentsWait DEF Attached
<1>6. jobs' = jobs /\ jobs[j].status \in {"claimed", "running"}
  BY <1>1, <1>4 DEF ledger, HostInv, RowKnows
<1>7. RowKnows(j)'
  BY <1>1, <1>3, <1>4, <1>5, <1>6, GoneOnKnows
<1> QED BY <1>1, <1>3, <1>6, <1>7, OneRow DEF Attached, HostInv, HostKnows

LEMMA RunKeeps ==
  ASSUME HostInv, NEW j \in Jobs, Ready(j) \/ HandlerRuns(j)
  PROVE  HostKnows' /\ \A i \in Jobs : RowKnows(i)'
<1>1. /\ host = "up" /\ UNCHANGED <<host, stray>> /\ Q!MarkRunning(j, Held(j))
      /\ worker[j].stage \in {"preparing", "booting"} /\ Goto(j, "running")
      /\ agents' = agents \/ agents' = agents \cup {Agent(j)}
  BY DEF Ready, HandlerRuns, At
<1>2. PICK w \in WorkerRow : /\ w.stage = "running" /\ w.token = worker[j].token
                             /\ worker' = [worker EXCEPT ![j] = w] /\ worker'[j] = w
  BY <1>1, GotoWorker DEF Stage
<1>3. ~Ticket(j) /\ worker[j].stage # "idle"
  BY <1>1, NotATicket
<1>4. \A t \in Nat : <<j, t>> \in Attached' => t = Held(j)
  BY <1>1, AgentsWait DEF Attached, Agent
<1>5. RowKnows(j)'
  BY <1>1, <1>2, <1>3, <1>4, MarkRows, GoneOnKnows
<1>6. Held(j) \in Nat
  BY DEF Held, HostInv, HostKnows, WorkerRow
<1>7. agents' \subseteq Jobs \X Nat
  BY <1>1, <1>6 DEF Agent, HostInv, HostKnows
<1>8. \A i \in Jobs \ {j} : \A t \in Nat : <<i, t>> \in Attached' => <<i, t>> \in Attached
  BY <1>1 DEF Attached, Agent
<1> QED BY <1>1, <1>2, <1>5, <1>7, <1>8, MarkRows, OneRow

(* The agents of other rows are not those of this one.                     *)
LEMMA AgentGone ==
  ASSUME HostInv, host = "up", NEW j \in Jobs,
         \/ agents' = agents \ {Agent(j)} /\ stray' = stray
         \/ agents' = agents /\ stray' = stray \cup {Agent(j)}
  PROVE  /\ agents' \subseteq Jobs \X Nat
         /\ \A t \in Nat : <<j, t>> \notin Attached'
         /\ \A i \in Jobs : \A t \in Nat : <<i, t>> \in Attached' => <<i, t>> \in Attached
<1>1. agents' \subseteq Jobs \X Nat
  BY DEF HostInv, HostKnows
<1>2. \A i \in Jobs : \A t \in Nat : <<i, t>> \in Attached' => <<i, t>> \in Attached
  BY DEF Attached
<1>3. ASSUME NEW t \in Nat, <<j, t>> \in Attached' PROVE FALSE
  <2>1. t = Held(j)
    BY <1>2, <1>3, AgentsWait
  <2> QED BY <1>3, <2>1 DEF Attached, Agent
<1> QED BY <1>1, <1>2, <1>3

LEMMA EndKeeps ==
  ASSUME HostInv, NEW j \in Jobs, Exit(j) \/ ClientEnds(j) \/ Cut(j)
  PROVE  HostKnows' /\ \A i \in Jobs : RowKnows(i)'
<1>1. /\ host = "up" /\ UNCHANGED <<ledger, host>>
      /\ worker[j].stage = "running" /\ ~Ticket(j)
      /\ \/ agents' = agents \ {Agent(j)} /\ stray' = stray
         \/ agents' = agents /\ stray' = stray \cup {Agent(j)}
  BY DEF Exit, ClientEnds, Cut, At
<1>2. PICK st \in {"answered", "failed", "hopeless"} : Goto(j, st)
  BY DEF Exit, ClientEnds, LostClient, Cut
<1>3. PICK w \in WorkerRow : /\ w.stage = st /\ w.token = worker[j].token
                             /\ worker' = [worker EXCEPT ![j] = w] /\ worker'[j] = w
  BY <1>2, GotoWorker DEF Stage
<1>4. jobs' = jobs /\ jobs[j].status \in {"claimed", "running"}
  BY <1>1 DEF ledger, HostInv, RowKnows
<1>5. RowKnows(j)'
  BY <1>1, <1>3, <1>4, AgentGone, GoneOnKnows
<1> QED BY <1>1, <1>3, <1>4, <1>5, AgentGone, OneRow

LEMMA SettleKeeps ==
  ASSUME HostInv, NEW j \in Jobs, Settle(j) \/ SettleFails(j)
  PROVE  HostKnows' /\ \A i \in Jobs : RowKnows(i)'
<1>1. /\ host = "up" /\ UNCHANGED <<host, agents, stray>> /\ Done(j)
      /\ worker[j].stage \in {"answered", "failed", "hopeless"}
  BY DEF Settle, SettleFails, At
<1>2. worker' = [worker EXCEPT ![j] = Idle] /\ worker'[j] = Idle
  BY <1>1, DoneWorker
<1>3. /\ \A i \in Jobs : jobs'[i].token = jobs[i].token
                         /\ jobs'[i].admission = jobs[i].admission
      /\ \A i \in Jobs \ {j} : jobs'[i].status = jobs[i].status
  BY SettleRows DEF Settle, SettleFails, ledger
<1>4. \A t \in Nat : <<j, t>> \notin Attached'
  BY <1>1, AgentsWait DEF Attached
<1>5. RowKnows(j)'
  BY <1>1, <1>2, <1>3, <1>4, DoneKnows
<1> QED BY <1>1, <1>2, <1>3, <1>5, Gone, OneRow DEF Attached, HostInv, HostKnows

LEMMA RenewFailsKeeps ==
  ASSUME HostInv, NEW j \in Jobs, RenewFails(j)
  PROVE  HostKnows' /\ \A i \in Jobs : RowKnows(i)'
<1> DEFINE w == [worker[j] EXCEPT !.aborted = TRUE]
<1>1. /\ w \in WorkerRow /\ w.stage = worker[j].stage /\ w.token = worker[j].token
      /\ worker' = [worker EXCEPT ![j] = w] /\ worker'[j] = w
  BY DEF HostInv, HostKnows, WorkerRow, RenewFails
<1>2. UNCHANGED <<ledger, host, agents, stray>> /\ host = "up"
  BY DEF RenewFails
<1>3. RowKnows(j)'
  BY <1>1, <1>2, RowKept DEF Attached, ledger
<1> QED BY <1>1, <1>2, <1>3, OneRow DEF Attached, HostInv, HostKnows, ledger

-----------------------------------------------------------------------------
(* Synchronous Bot calls *)

LEMMA BotRunKeeps ==
  ASSUME HostInv, NEW j \in Jobs, BotRun(j)
  PROVE  HostKnows' /\ \A i \in Jobs : RowKnows(i)'
<1>1. /\ host = "up" /\ UNCHANGED <<host, stray>> /\ Q!Admit(j)
      /\ worker[j].stage = "ticket" /\ Goto(j, "running")
      /\ agents' = agents \cup {Agent(j)}
  BY DEF BotRun, At
<1>2. PICK w \in WorkerRow : /\ w.stage = "running" /\ w.token = worker[j].token
                             /\ worker' = [worker EXCEPT ![j] = w] /\ worker'[j] = w
  BY <1>1, GotoWorker DEF Stage
<1>3. Ticket(j) /\ jobs[j].token = 0 /\ Held(j) = 0 /\ jobs'[j].status = "running"
  BY <1>1, AdmissionRows DEF HostInv, RowKnows
<1>4. \A t \in Nat : <<j, t>> \in Attached' => t = 0
  BY <1>1, <1>3, AgentsWait DEF Attached, Agent
<1>5. RowKnows(j)'
  BY <1>1, <1>2, <1>3, <1>4, AdmissionRows DEF RowKnows, Held, Ticket
<1>6. agents' \subseteq Jobs \X Nat
  BY <1>1, <1>3 DEF Agent, HostInv, HostKnows
<1>7. \A i \in Jobs \ {j} : \A t \in Nat : <<i, t>> \in Attached' => <<i, t>> \in Attached
  BY <1>1 DEF Attached, Agent
<1> QED BY <1>1, <1>2, <1>5, <1>6, <1>7, AdmissionRows, OneRow

LEMMA BotEndKeeps ==
  ASSUME HostInv, NEW j \in Jobs, BotGivesUp(j) \/ BotReturns(j)
  PROVE  HostKnows' /\ \A i \in Jobs : RowKnows(i)'
<1>1. /\ host = "up" /\ host' = host /\ Done(j)
      /\ Q!RefuseAdmission(j) \/ Q!CancelAdmission(j) \/ Q!CompleteAdmission(j)
  BY DEF BotGivesUp, BotReturns, At
<1>2. worker' = [worker EXCEPT ![j] = Idle] /\ worker'[j] = Idle
  BY <1>1, DoneWorker
<1>3. /\ agents' \subseteq Jobs \X Nat
      /\ \A t \in Nat : <<j, t>> \notin Attached'
      /\ \A i \in Jobs : \A t \in Nat : <<i, t>> \in Attached' => <<i, t>> \in Attached
  <2>1. CASE BotGivesUp(j)
    BY <1>1, <2>1, AgentsWait DEF BotGivesUp, At, Attached, HostInv, HostKnows
  <2>2. CASE BotReturns(j)
    BY <1>1, <2>2, AgentGone DEF BotReturns
  <2> QED BY <2>1, <2>2
<1>4. /\ \A i \in Jobs : jobs'[i].token = jobs[i].token
                         /\ jobs'[i].admission = jobs[i].admission
      /\ \A i \in Jobs \ {j} : jobs'[i].status = jobs[i].status
  BY <1>1, AdmissionRows
<1>5. RowKnows(j)'
  BY <1>1, <1>2, <1>3, <1>4, DoneKnows
<1> QED BY <1>1, <1>2, <1>3, <1>4, <1>5, Gone, OneRow

-----------------------------------------------------------------------------
(* Crash, start and time *)

LEMMA CrashKeeps ==
  ASSUME HostInv, Crash \/ KillOrphans \/ (OrphanExits /\ host # "up")
  PROVE  HostKnows' /\ \A i \in Jobs : RowKnows(i)'
<1>1. /\ UNCHANGED ledger /\ host' # "up" /\ host' \in {"down", "cleaned"}
      /\ host' = "cleaned" => agents' = {}
      /\ agents' \subseteq agents /\ Attached' \subseteq Attached
  BY DEF Crash, KillOrphans, OrphanExits, Attached, HostInv, HostKnows
<1>2. worker' \in [Jobs -> WorkerRow]
      /\ \A j \in Jobs : worker'[j].stage = "idle" /\ worker'[j].token = 0
  <2>1. CASE Crash
    BY <2>1, Gone DEF Crash
  <2>2. CASE KillOrphans \/ (OrphanExits /\ host # "up")
    BY <2>2 DEF KillOrphans, OrphanExits, HostInv, HostKnows, Held
  <2> QED BY <2>1, <2>2
<1>3. HostKnows'
  BY <1>1, <1>2 DEF HostInv, HostKnows, Held
<1>4. \A i \in Jobs : RowKnows(i)'
  BY <1>1, <1>2 DEF HostInv, RowKnows, Held, Ticket, ledger
<1> QED BY <1>3, <1>4

LEMMA StrayEndKeeps ==
  ASSUME HostInv, OrphanExits, host = "up"
  PROVE  HostKnows' /\ \A i \in Jobs : RowKnows(i)'
<1>1. UNCHANGED <<ledger, host, worker>> /\ agents' \subseteq agents
  BY DEF OrphanExits
<1>2. Attached' \subseteq Attached
  BY DEF OrphanExits, Attached
<1>3. \A i \in Jobs : RowKnows(i)'
  BY <1>1, <1>2, RowKept DEF ledger
<1> QED BY <1>1, <1>3 DEF HostInv, HostKnows, Held

(* Recovery settles tickets and takes leases back, but writes no token.    *)
LEMMA StartKeeps ==
  ASSUME HostInv, Start PROVE HostKnows' /\ \A i \in Jobs : RowKnows(i)'
<1>1. /\ agents' = {} /\ host = "cleaned" /\ host' = "up" /\ worker' = worker
      /\ \A i \in Jobs : worker[i].stage = "idle" /\ Held(i) = 0
  BY DEF Start, HostInv, HostKnows
<1>2. ASSUME NEW i \in Jobs
      PROVE  jobs'[i].token = jobs[i].token /\ jobs'[i].admission = jobs[i].admission
  <2>1. jobs'[i] = Q!RecoverExpired(Q!RecoverAdmission(jobs[i]))
    BY DEF Start, Q!InitializeQueue
  <2>2. jobs[i] \in L!Row
    BY LedgerRows DEF HostInv
  <2>3. ASSUME NEW r \in L!Row
        PROVE  /\ Q!RecoverAdmission(r) \in L!Row
               /\ Q!RecoverAdmission(r).token = r.token
               /\ Q!RecoverAdmission(r).admission = r.admission
               /\ Q!RecoverExpired(r).token = r.token
               /\ Q!RecoverExpired(r).admission = r.admission
    BY DEF L!Row, L!Status, L!Terminal, Q!RecoverAdmission, Q!RecoverExpired
  <2> QED BY <2>1, <2>2, <2>3
<1>3. HostKnows'
  BY <1>1 DEF HostInv, HostKnows
<1>4. \A i \in Jobs : RowKnows(i)'
  BY <1>1, <1>2 DEF HostInv, RowKnows, Held, Ticket, Attached
<1> QED BY <1>3, <1>4

LEMMA TimeKeeps ==
  ASSUME HostInv, NEW j \in Jobs, Renew(j) \/ LeaseLapses(j) \/ BackoffElapses(j)
  PROVE  HostKnows' /\ \A i \in Jobs : RowKnows(i)'
<1> USE LedgerRows DEF HostInv
<1>1. UNCHANGED <<host, worker, agents, stray>>
  BY DEF Renew, LeaseLapses, BackoffElapses, process
<1>2. ASSUME NEW i \in Jobs
      PROVE  /\ jobs'[i].status = jobs[i].status /\ jobs'[i].token = jobs[i].token
             /\ jobs'[i].admission = jobs[i].admission
  BY DEF Renew, LeaseLapses, BackoffElapses, Q!Heartbeat, Q!LeaseLapses,
         Q!BackoffElapses, L!Row
<1>3. \A i \in Jobs : RowKnows(i)'
  BY <1>1, <1>2, RowKept DEF Attached
<1> QED BY <1>1, <1>3 DEF HostKnows, Held

-----------------------------------------------------------------------------
LEMMA NextKeeps == HostInv /\ [Next]_vars => HostInv'
<1> SUFFICES ASSUME HostInv, [Next]_vars PROVE HostInv'
  OBVIOUS
<1>1. L!TypeOK'
  BY NextIsLedgers, LedgerAssumption, L!NextType DEF HostInv
<1>2. CASE UNCHANGED vars
  BY <1>1, <1>2 DEF vars, ledger, process, HostInv, HostKnows, RowKnows, Held, Ticket,
                    Attached
<1>3. ASSUME NEW j \in Jobs, Step(j)
      PROVE  HostKnows' /\ \A i \in Jobs : RowKnows(i)'
  BY <1>3, PrepareKeeps, RunKeeps, EndKeeps, SettleKeeps DEF Step
<1>4. ASSUME NEW j \in Jobs, Bot(j)
      PROVE  HostKnows' /\ \A i \in Jobs : RowKnows(i)'
  BY <1>4, BotRunKeeps, BotEndKeeps DEF Bot
<1>5. CASE Next
  <2>1. HostKnows' /\ \A i \in Jobs : RowKnows(i)'
    BY <1>3, <1>4, <1>5, ReceiveKeeps, PollKeeps, TimeKeeps, RenewFailsKeeps,
       BotCallKeeps, CrashKeeps, StrayEndKeeps, StartKeeps DEF Next
  <2> QED BY <1>1, <2>1 DEF HostInv
<1> QED BY <1>2, <1>5

LEMMA InvariantHolds == Spec => []HostInv
BY InitHolds, NextKeeps, PTL DEF Spec

-----------------------------------------------------------------------------
(* The agents the host has lost sight of *)

(* A row that gets no further one: it moves on to a new claim, its present *)
(* claim has none, or neither row nor worker take up an answer.            *)
LEMMA StrayKept ==
  ASSUME HostInv, NEW j \in Jobs, StrayKnows(j),
         \A t \in Nat : <<j, t>> \in stray' => <<j, t>> \in stray,
         jobs'[j].token \in Nat, jobs[j].token <= jobs'[j].token,
         \/ jobs[j].status = "absent"
         \/ /\ jobs'[j].status # "absent" /\ jobs'[j].admission = jobs[j].admission
            /\ \/ Ticket(j) \/ jobs'[j].token > jobs[j].token
               \/ worker[j].stage \in {"preparing", "booting", "running", "answered"}
               \/ /\ jobs'[j].status = "completed" => jobs[j].status = "completed"
                  /\ \/ worker'[j].stage \in {"idle", "failed", "hopeless"}
                     \/ worker'[j].stage = worker[j].stage
  PROVE  StrayKnows(j)'
<1>1. jobs[j].token \in Nat
  BY LedgerRows DEF HostInv
<1> QED BY <1>1 DEF StrayKnows, Ticket

(* A step that concerns one row.                                           *)
LEMMA StrayRow ==
  ASSUME HostInv, StrayInv, NEW j \in Jobs, stray' \subseteq Jobs \X Nat,
         \A i \in Jobs \ {j} :
           /\ jobs'[i].status = jobs[i].status /\ jobs'[i].token = jobs[i].token
           /\ jobs'[i].admission = jobs[i].admission
           /\ worker'[i].stage = worker[i].stage
           /\ \A t \in Nat : <<i, t>> \in stray' => <<i, t>> \in stray,
         StrayKnows(j)'
  PROVE  StrayInv'
<1>1. ASSUME NEW i \in Jobs, i # j PROVE StrayKnows(i)'
  <2>1. jobs[i].token \in Nat /\ StrayKnows(i)
    BY LedgerRows DEF HostInv, StrayInv
  <2> QED BY <1>1, <2>1, StrayKept
<1> QED BY <1>1 DEF StrayInv

LEMMA OneWorker ==
  ASSUME HostInv, NEW j \in Jobs, Done(j) \/ \E st \in Stage : Goto(j, st)
  PROVE  /\ \A i \in Jobs \ {j} : worker'[i] = worker[i]
         /\ Done(j) => worker'[j].stage = "idle"
         /\ \A st \in Stage : Goto(j, st) => worker'[j].stage = st
<1>1. worker \in [Jobs -> WorkerRow]
  BY DEF HostInv, HostKnows
<1> QED BY <1>1, Gone DEF Done, Goto, WorkerRow

(* The steps of a worker without a stray: those before the answer and the  *)
(* settlement.                                                             *)
LEMMA WorkStray ==
  ASSUME HostInv, StrayInv, NEW j \in Jobs,
         \/ Prepare(j) \/ BootFails(j) \/ CommitFails(j) \/ Ready(j) \/ HandlerRuns(j)
         \/ Exit(j) \/ (Cut(j) /\ UNCHANGED stray)
  PROVE  StrayInv'
<1>1. /\ UNCHANGED ledger \/ Q!MarkRunning(j, Held(j))
      /\ UNCHANGED stray
      /\ worker[j].stage \in {"preparing", "booting", "running", "answered"}
      /\ \E st \in Stage : Goto(j, st)
      /\ worker[j].stage # "idle"
  BY DEF Prepare, BootFails, CommitFails, Ready, HandlerRuns, Exit, Cut, At, Stage
<1>2. jobs[j].status # "absent"
  BY <1>1 DEF HostInv, RowKnows
<1>3. /\ \A i \in Jobs : jobs'[i].token = jobs[i].token
                         /\ jobs'[i].admission = jobs[i].admission
      /\ \A i \in Jobs \ {j} : jobs'[i].status = jobs[i].status
      /\ jobs'[j].status # "absent"
  BY <1>1, <1>2, MarkRows DEF ledger
<1>4. jobs[j].token \in Nat /\ StrayKnows(j) /\ stray' \subseteq Jobs \X Nat
  BY <1>1, LedgerRows DEF HostInv, StrayInv
<1>5. StrayKnows(j)'
  BY <1>1, <1>3, <1>4, StrayKept
<1>6. \A i \in Jobs \ {j} : worker'[i].stage = worker[i].stage
  BY <1>1, OneWorker
<1> QED BY <1>1, <1>3, <1>4, <1>5, <1>6, StrayRow

(* An agent gets lost: its run is given up.                                *)
LEMMA LossStray ==
  ASSUME HostInv, StrayInv, NEW j \in Jobs, ClientEnds(j) \/ Cut(j)
  PROVE  StrayInv'
<1>1. CASE UNCHANGED stray
  <2>1. CASE ClientEnds(j)
    <3>1. Agent(j) \in stray /\ worker[j].stage = "running" /\ ~Ticket(j)
      BY <1>1, <2>1 DEF ClientEnds, At
    <3>2. Held(j) \in Nat /\ jobs[j].token = Held(j)
      BY <3>1 DEF HostInv, HostKnows, RowKnows, WorkerRow, Held
    <3> QED BY <3>1, <3>2 DEF StrayInv, StrayKnows, Agent
  <2> QED BY <1>1, <2>1, WorkStray
<1>2. CASE ~UNCHANGED stray
  <2>1. /\ UNCHANGED ledger /\ stray' = stray \cup {Agent(j)}
        /\ worker[j].stage = "running" /\ ~Ticket(j)
    BY <1>2 DEF ClientEnds, Cut, At
  <2>2. PICK st \in {"failed", "hopeless"} : Goto(j, st)
    BY DEF ClientEnds, LostClient, Cut
  <2>3. /\ jobs[j].status \in {"claimed", "running"}
        /\ jobs[j].token = Held(j) /\ Held(j) \in Nat
    BY <2>1 DEF HostInv, HostKnows, RowKnows, WorkerRow, Held
  <2>4. /\ worker'[j].stage \in {"failed", "hopeless"}
        /\ \A i \in Jobs \ {j} : worker'[i].stage = worker[i].stage
    BY <2>2, OneWorker DEF Stage
  <2>5. StrayKnows(j)'
    BY <2>1, <2>3, <2>4 DEF StrayInv, StrayKnows, Agent, Ticket, ledger
  <2>6. stray' \subseteq Jobs \X Nat
    BY <2>1, <2>3 DEF StrayInv, Agent
  <2> QED BY <2>1, <2>4, <2>5, <2>6, StrayRow DEF ledger, Agent
<1> QED BY <1>1, <1>2

(* Only an answered run completes its row.                                 *)
LEMMA SettleStray ==
  ASSUME HostInv, StrayInv, NEW j \in Jobs, Settle(j) \/ SettleFails(j)
  PROVE  StrayInv'
<1>1. /\ UNCHANGED stray /\ Done(j)
      /\ worker[j].stage \in {"answered", "failed", "hopeless"}
  BY DEF Settle, SettleFails, At
<1>2. jobs[j].status \in {"claimed", "running"}
  BY <1>1, NotATicket DEF HostInv, RowKnows
<1>3. /\ \A i \in Jobs : jobs'[i].token = jobs[i].token
                         /\ jobs'[i].admission = jobs[i].admission
      /\ \A i \in Jobs \ {j} : jobs'[i].status = jobs[i].status
      /\ jobs'[j].status # "absent"
  BY <1>2, SettleRows DEF Settle, SettleFails, ledger
<1>4. worker[j].stage # "answered" => jobs'[j].status # "completed"
  BY <1>2, SettleRows DEF Settle, SettleFails, At, ledger
<1>5. jobs[j].token \in Nat /\ StrayKnows(j) /\ stray' \subseteq Jobs \X Nat
  BY <1>1, LedgerRows DEF HostInv, StrayInv
<1>6. /\ worker'[j].stage = "idle"
      /\ \A i \in Jobs \ {j} : worker'[i].stage = worker[i].stage
  BY <1>1, OneWorker
<1>7. StrayKnows(j)'
  BY <1>1, <1>3, <1>4, <1>5, <1>6, StrayKept
<1> QED BY <1>1, <1>3, <1>5, <1>6, <1>7, StrayRow

(* The agent of a synchronous call has no token to answer under.           *)
LEMMA BotStray ==
  ASSUME HostInv, StrayInv, NEW j \in Jobs, Bot(j) PROVE StrayInv'
<1>1. /\ \/ Q!Admit(j) \/ Q!RefuseAdmission(j)
         \/ Q!CancelAdmission(j) \/ Q!CompleteAdmission(j)
      /\ Done(j) \/ \E st \in Stage : Goto(j, st)
      /\ stray' = stray \/ stray' = stray \cup {Agent(j)}
  BY DEF Bot, BotRun, BotGivesUp, BotReturns, Stage
<1>2. /\ Ticket(j)
      /\ \A i \in Jobs : jobs'[i].token = jobs[i].token
                         /\ jobs'[i].admission = jobs[i].admission
      /\ \A i \in Jobs \ {j} : jobs'[i].status = jobs[i].status
      /\ jobs'[j].status # "absent"
  BY <1>1, AdmissionRows
<1>3. jobs[j].token = 0 /\ Held(j) = 0
  BY <1>2 DEF HostInv, RowKnows
<1>4. stray' \subseteq Jobs \X Nat
  BY <1>1, <1>3 DEF StrayInv, Agent
<1>5. StrayKnows(j)'
  BY <1>1, <1>2, <1>3 DEF StrayInv, StrayKnows, Ticket, Agent
<1>6. \A i \in Jobs \ {j} : worker'[i].stage = worker[i].stage
  BY <1>1, OneWorker
<1> QED BY <1>1, <1>2, <1>4, <1>5, <1>6, StrayRow DEF Agent

LEMMA NewStray ==
  ASSUME HostInv, StrayInv,
         Receive \/ \E j \in Jobs, s \in Sessions : BotCall(j, s)
  PROVE  StrayInv'
<1>1. UNCHANGED stray
  BY DEF Receive, BotCall, process
<1>2. ASSUME NEW j \in Jobs, NEW s \in Sessions, NEW k \in Keys \cup {Null},
             NEW ticket \in BOOLEAN,
             IF ticket THEN Q!CreateAdmission(j, s) ELSE Q!Enqueue(j, s, k, FALSE),
             \A i \in Jobs \ {j} : worker'[i].stage = worker[i].stage
      PROVE  StrayInv'
  <2>1. /\ jobs[j].status = "absent" /\ jobs'[j].status = "queued"
        /\ \A i \in Jobs \ {j} :
              /\ jobs'[i].status = jobs[i].status /\ jobs'[i].token = jobs[i].token
              /\ jobs'[i].admission = jobs[i].admission
    BY <1>2, NewRows
  <2>2. StrayKnows(j)'
    BY <1>1, <2>1 DEF StrayInv, StrayKnows
  <2> QED BY <1>1, <1>2, <2>1, <2>2, StrayRow DEF StrayInv
<1>3. CASE Receive
  BY <1>2, <1>3 DEF Receive, process
<1>4. ASSUME NEW j \in Jobs, NEW s \in Sessions, BotCall(j, s) PROVE StrayInv'
  <2>1. \A i \in Jobs \ {j} : worker'[i].stage = worker[i].stage
    BY <1>4, OneWorker DEF BotCall, Stage
  <2>2. PICK k : k \in Keys \cup {Null}
    OBVIOUS
  <2> QED BY <1>2, <1>4, <2>1, <2>2 DEF BotCall
<1> QED BY <1>3, <1>4

(* A claim leaves the rows in flight alone and gives others a new token.   *)
LEMMA PollStray ==
  ASSUME HostInv, StrayInv, Poll PROVE StrayInv'
<1>1. UNCHANGED stray
  BY DEF Poll
<1>2. ASSUME NEW i \in Jobs PROVE StrayKnows(i)'
  <2>1. jobs[i].token \in Nat /\ StrayKnows(i)
    BY LedgerRows DEF HostInv, StrayInv
  <2>2. /\ jobs'[i].token > jobs[i].token \/ worker'[i] = worker[i]
    BY DEF Poll
  <2>3. CASE jobs'[i].status = jobs[i].status /\ jobs'[i].token = jobs[i].token
    BY <1>1, <2>1, <2>2, <2>3, ClaimRows, StrayKept DEF Poll
  <2>4. CASE jobs'[i].status = "dead_letter" /\ jobs'[i].token = jobs[i].token
    BY <1>1, <2>1, <2>2, <2>4, ClaimRows, StrayKept DEF Poll
  <2>5. CASE jobs'[i].status = "claimed" /\ jobs'[i].token = jobs[i].token + 1
    BY <1>1, <2>1, <2>5, ClaimRows, StrayKept DEF Poll
  <2> QED BY <2>3, <2>4, <2>5, ClaimRows DEF Poll
<1> QED BY <1>1, <1>2 DEF StrayInv

(* Renewals, time and the end of an agent settle nothing.                  *)
LEMMA TimeStray ==
  ASSUME HostInv, StrayInv,
         \/ \E j \in Jobs : Renew(j) \/ LeaseLapses(j) \/ BackoffElapses(j)
         \/ \E j \in Jobs : RenewFails(j)
         \/ OrphanExits
  PROVE  StrayInv'
<1> USE LedgerRows DEF HostInv
<1>1. stray' \subseteq stray
  BY DEF Renew, LeaseLapses, BackoffElapses, RenewFails, OrphanExits, process
<1>2. ASSUME NEW i \in Jobs
      PROVE  /\ jobs'[i].status = jobs[i].status /\ jobs'[i].token = jobs[i].token
             /\ jobs'[i].admission = jobs[i].admission
  BY DEF Renew, LeaseLapses, BackoffElapses, Q!Heartbeat, Q!LeaseLapses,
         Q!BackoffElapses, L!Row, RenewFails, OrphanExits, ledger
<1>3. ASSUME NEW i \in Jobs PROVE worker'[i].stage = worker[i].stage
  BY DEF Renew, LeaseLapses, BackoffElapses, RenewFails, OrphanExits, process,
         HostKnows, WorkerRow
<1>4. \A i \in Jobs : StrayKnows(i)'
  BY <1>1, <1>2, <1>3, StrayKept DEF StrayInv
<1> QED BY <1>1, <1>4 DEF StrayInv

LEMMA CleanNext == HostInv /\ CleanInv /\ [Next]_vars => CleanInv'
<1> SUFFICES ASSUME HostInv, CleanInv, Next PROVE CleanInv'
  BY DEF CleanInv, vars, process
<1>1. CASE KillOrphans
  BY <1>1 DEF KillOrphans, CleanInv
<1>2. CASE Crash \/ Start
  BY <1>2 DEF Crash, Start, CleanInv
<1>3. CASE OrphanExits
  BY <1>3 DEF OrphanExits, CleanInv
<1>4. CASE \E j \in Jobs : LeaseLapses(j) \/ BackoffElapses(j)
  BY <1>4 DEF LeaseLapses, BackoffElapses, CleanInv, process
<1>5. CASE Receive \/ Poll \/ \E j \in Jobs : Renew(j) \/ RenewFails(j)
  BY <1>5 DEF Receive, Poll, Renew, RenewFails, CleanInv, process
<1>6. ASSUME NEW j \in Jobs,
             Step(j) \/ Bot(j) \/ \E s \in Sessions : BotCall(j, s)
      PROVE  CleanInv'
  <2>1. host = "up" /\ host' = host
    BY <1>6 DEF Step, Prepare, HandlerRuns, Ready, BootFails, Exit, ClientEnds, Cut,
       Settle, CommitFails, SettleFails, Bot, BotRun, BotGivesUp, BotReturns, BotCall, At
  <2> QED BY <2>1 DEF CleanInv
<1> QED BY <1>1, <1>2, <1>3, <1>4, <1>5, <1>6 DEF Next

(* A crash ends the workers, a start finds no agent.                       *)
LEMMA CrashStray ==
  ASSUME HostInv, StrayInv, CleanInv, Crash \/ KillOrphans \/ Start PROVE StrayInv'
<1>1. CASE Crash
  <2>1. UNCHANGED <<ledger, stray>> /\ \A i \in Jobs : worker'[i].stage = "idle"
    BY <1>1, Gone DEF Crash
  <2>2. \A i \in Jobs : StrayKnows(i)'
    BY <2>1 DEF StrayInv, StrayKnows, Ticket, ledger
  <2> QED BY <2>1, <2>2 DEF StrayInv
<1>2. CASE KillOrphans
  BY <1>2 DEF KillOrphans, StrayInv, StrayKnows
<1>3. CASE Start
  <2>1. UNCHANGED stray /\ host = "cleaned"
    BY <1>3 DEF Start
  <2> QED BY <2>1 DEF StrayInv, StrayKnows, CleanInv
<1> QED BY <1>1, <1>2, <1>3

LEMMA StrayNext == HostInv /\ CleanInv /\ StrayInv /\ [Next]_vars => StrayInv'
<1> SUFFICES ASSUME HostInv, CleanInv, StrayInv, [Next]_vars PROVE StrayInv'
  OBVIOUS
<1>1. CASE UNCHANGED vars
  BY <1>1 DEF vars, ledger, process, StrayInv, StrayKnows, Ticket
<1>2. ASSUME NEW j \in Jobs, Step(j) PROVE StrayInv'
  BY <1>2, WorkStray, LossStray, SettleStray DEF Step
<1> QED BY <1>1, <1>2, BotStray, NewStray, PollStray, TimeStray, CrashStray DEF Next

LEMMA StraysAreKnown == Spec => []StrayInv
<1>1. Init => CleanInv /\ StrayInv
  BY DEF Init, CleanInv, StrayInv, StrayKnows
<1> QED BY <1>1, CleanNext, StrayNext, InvariantHolds, PTL DEF Spec

(* Every behaviour of the host is one of the ledger. *)
LEMMA LedgerWithin == Spec => L!Spec
<1>1. Init => L!Init
  BY DEF Init, Q!Init, L!Init, Q!NoRow, L!NoRow, Q!NoKeyRow, L!NoKeyRow
<1> QED BY <1>1, NextIsLedgers, InvariantHolds, PTL DEF Spec, L!Spec

(* Of the agents a run waits for no session ever has two, their row is in  *)
(* progress under the claim they were started for, what is in flight is    *)
(* fenced, and an agent the host lost sight of (a forced /stop, a docker   *)
(* client that died, a container docker cannot kill) never answers for its *)
(* attempt (queue/poller.ts, agent/manager.ts, agent/bot-orchestration.ts).*)
THEOREM AttachedAgentsAlone == Spec => []OneAttachedAgent
<1>1. HostInv /\ StrayInv /\ L!OneActivePerSession => OneAttachedAgent
  <2> SUFFICES ASSUME HostInv, StrayInv, L!OneActivePerSession PROVE OneAttachedAgent
    OBVIOUS
  <2>1. ASSUME NEW a \in agents \ stray
        PROVE  /\ a = <<a[1], a[2]>> /\ a[1] \in Jobs /\ a[2] \in Nat
               /\ jobs[a[1]].status \in {"claimed", "running"} /\ jobs[a[1]].token = a[2]
    <3>1. a = <<a[1], a[2]>> /\ a[1] \in Jobs /\ a[2] \in Nat
      BY DEF HostInv, HostKnows
    <3> QED BY <3>1 DEF HostInv, RowKnows, Attached
  <2>2. \A a \in agents \ stray : Q!Active(a[1]) /\ jobs[a[1]].token = a[2]
    BY <2>1 DEF Q!Active, Q!Claimed
  <2>3. ASSUME NEW a \in agents \ stray, NEW b \in agents \ stray,
               jobs[a[1]].session = jobs[b[1]].session
        PROVE  a = b
    <3>1. a[1] = b[1]
      BY <2>1, <2>3 DEF L!OneActivePerSession, L!Active, L!Claimed
    <3> QED BY <2>1, <3>1
  <2>4. \A j \in InFlight : Q!Fenced(j, Held(j))
    BY DEF InFlight, HostInv, RowKnows, Q!Fenced, Q!Claimed
  <2>5. \A a \in stray : ~Ticket(a[1]) =>
          ~(jobs[a[1]].status = "completed" /\ jobs[a[1]].token = a[2])
    BY DEF StrayInv, StrayKnows
  <2> QED BY <2>2, <2>3, <2>4, <2>5 DEF OneAttachedAgent
<1>2. L!Spec => []L!OneActivePerSession
  BY LedgerAssumption, L!MutualExclusion
<1> QED BY <1>1, <1>2, InvariantHolds, StraysAreKnown, LedgerWithin, PTL
=============================================================================
