--------------------------- MODULE JobQueueProofs ---------------------------
(***************************************************************************)
(* Machine-checked safety of the job ledger, for every set of jobs,        *)
(* sessions and keys and every bound on attempts and chunks: the order of  *)
(* the sessions, the agreement of the tables, and the refinement of        *)
(* SessionFifo.                                                            *)
(***************************************************************************)
EXTENDS JobQueueRefinement, TLAPS

-----------------------------------------------------------------------------
(* Typing *)

(* Every rewriting of a row that an action makes yields a row.             *)
LEMMA StatusUpdate ==
  ASSUME NEW r \in Row, NEW st \in Status
  PROVE  [r EXCEPT !.status = st] \in Row
BY DEF Row

LEMMA LeaseUpdate ==
  ASSUME NEW r \in Row, NEW l \in {"none", "held", "lapsed"}
  PROVE  [r EXCEPT !.lease = l] \in Row
BY DEF Row

LEMMA DueUpdate ==
  ASSUME NEW r \in Row, NEW d \in BOOLEAN
  PROVE  [r EXCEPT !.due = d] \in Row
BY DEF Row

LEMMA SettleUpdate ==
  ASSUME NEW r \in Row, NEW st \in Status, NEW b \in BOOLEAN
  PROVE  /\ [r EXCEPT !.status = st, !.lease = "none", !.due = b] \in Row
         /\ [r EXCEPT !.status = st, !.lease = "none", !.suppressed = b] \in Row
BY DEF Row

LEMMA ClaimUpdate ==
  ASSUME NEW r \in Row
  PROVE  ClaimedRow(r) \in Row /\ DeadLettered(r) \in Row
<1>1. r.token + 1 \in Nat /\ r.attempts + 1 \in Nat
  BY DEF Row
<1>2. ClaimedRow(r) =
        [r EXCEPT !.status = "claimed", !.lease = "held",
                  !.token = r.token + 1, !.attempts = r.attempts + 1]
  BY DEF ClaimedRow
<1>3. ClaimedRow(r) \in Row
  BY <1>1, <1>2 DEF Row, Status, Claimed
<1>4. DeadLettered(r) \in Row
  BY DEF DeadLettered, Row, Status, Terminal
<1> QED BY <1>3, <1>4

LEMMA SequenceUpdate ==
  ASSUME NEW r \in Row, NEW s \in Sessions
  PROVE  /\ [r EXCEPT !.session = s, !.seq = 0, !.provisioning = FALSE] \in Row
         /\ [r EXCEPT !.seq = r.seq + 1] \in Row
<1>1. [r EXCEPT !.session = s, !.seq = 0, !.provisioning = FALSE] \in Row
  BY DEF Row
<1>2. r.seq + 1 \in Nat
  BY DEF Row
<1>3. [r EXCEPT !.seq = r.seq + 1] \in Row
  BY <1>2 DEF Row
<1> QED BY <1>1, <1>3

LEMMA RecoveryUpdate ==
  ASSUME NEW r \in Row
  PROVE  RecoverExpired(RecoverAdmission(r)) \in Row
<1>1. \A q \in Row : RecoverAdmission(q) \in Row
  BY StatusUpdate DEF RecoverAdmission, Status, Terminal
<1>2. \A q \in Row : RecoverExpired(q) \in Row
  BY SettleUpdate DEF RecoverExpired, Status, Waiting
<1> QED BY <1>1, <1>2

LEMMA StatusValues ==
  {"absent", "queued", "retry_wait", "claimed", "running", "completed",
   "dead_letter"} = Status
BY DEF Status, Waiting, Claimed, Terminal

LEMMA NextSequenceType ==
  ASSUME TypeOK, NEW s, NEW n \in NextSequence(s)
  PROVE  n \in Nat /\ \A j \in InSession(s) : jobs[j].seq < n
BY DEF TypeOK, NextSequence, InSession, Row

LEMMA InitType == Init => TypeOK
BY QueueAssumption DEF Init, TypeOK, NoRow, NoKeyRow, Row, IdemRow, Status

LEMMA NextType == TypeOK /\ [Next]_vars => TypeOK'
<1> SUFFICES ASSUME TypeOK, [Next]_vars PROVE TypeOK'
  OBVIOUS
<1> USE QueueAssumption
<1>1. ASSUME NEW j \in Jobs, NEW s \in Sessions, NEW k \in Keys \cup {Null},
             NEW item \in BOOLEAN, Enqueue(j, s, k, item)
      PROVE  TypeOK'
  <2>1. PICK n \in NextSequence(s) :
          jobs' = [Disowned(k) EXCEPT ![j] =
                    [NoRow EXCEPT !.status = "queued", !.session = s,
                       !.seq = n, !.key = k, !.provisioning = item]]
    BY <1>1 DEF Enqueue
  <2>2. n \in Nat
    BY NextSequenceType
  <2>3. Disowned(k) \in [Jobs -> Row]
    BY DEF Disowned, TypeOK, Row
  <2>4. [NoRow EXCEPT !.status = "queued", !.session = s, !.seq = n,
                      !.key = k, !.provisioning = item] \in Row
    BY <2>2 DEF NoRow, Row, Status, Waiting
  <2>5. jobs' \in [Jobs -> Row]
    BY <2>1, <2>3, <2>4
  <2>6. idem' \in [Keys -> IdemRow]
    BY <1>1 DEF Enqueue, TypeOK, IdemRow
  <2> QED BY <1>1, <2>5, <2>6 DEF Enqueue, TypeOK
<1>2. ASSUME NEW j \in Jobs, NEW s \in Sessions, CreateAdmission(j, s)
      PROVE  TypeOK'
  <2>1. PICK n \in NextSequence(s) :
          jobs' = [jobs EXCEPT ![j] =
                    [NoRow EXCEPT !.status = "queued", !.admission = TRUE,
                                  !.session = s, !.seq = n]]
    BY <1>2 DEF CreateAdmission
  <2>2. n \in Nat
    BY NextSequenceType
  <2>3. [NoRow EXCEPT !.status = "queued", !.admission = TRUE,
                      !.session = s, !.seq = n] \in Row
    BY <2>2 DEF NoRow, Row, Status, Waiting
  <2> QED BY <1>2, <2>1, <2>3 DEF CreateAdmission, TypeOK
<1>3. ASSUME NEW j \in Jobs,
             Admit(j) \/ RefuseAdmission(j) \/ CompleteAdmission(j)
               \/ CancelAdmission(j)
      PROVE  TypeOK'
  <2>1. jobs' \in [Jobs -> Row]
    BY <1>3, StatusUpdate, StatusValues
       DEF Admit, RefuseAdmission, CompleteAdmission, CancelAdmission, TypeOK
  <2> QED BY <1>3, <2>1
             DEF Admit, RefuseAdmission, CompleteAdmission, CancelAdmission,
                 TypeOK
<1>4. ASSUME NEW x \in SUBSET Jobs, Claim(x)
      PROVE  TypeOK'
  <2>1. Swept(x) \in [Jobs -> Row]
    BY ClaimUpdate DEF Swept, TypeOK
  <2>2. jobs' \in [Jobs -> Row]
    BY <1>4, <2>1, ClaimUpdate DEF Claim, Candidates
  <2>3. idem' \in [Keys -> IdemRow]
    BY <1>4 DEF Claim, Buried, TypeOK, IdemRow
  <2>4. deadLetters' \in [Jobs -> Nat]
    BY <1>4 DEF Claim, TypeOK
  <2> QED BY <1>4, <2>2, <2>3, <2>4 DEF Claim, TypeOK
<1>5. ASSUME NEW j \in Jobs, NEW t \in 1 .. jobs[j].token,
             MarkRunning(j, t) \/ Heartbeat(j, t) \/ Retry(j, t)
      PROVE  TypeOK'
  <2>1. jobs' \in [Jobs -> Row]
    <3>1. CASE MarkRunning(j, t)
      BY <3>1, StatusUpdate, StatusValues DEF MarkRunning, TypeOK
    <3>2. CASE Heartbeat(j, t)
      BY <3>2, LeaseUpdate DEF Heartbeat, TypeOK
    <3>3. CASE Retry(j, t)
      BY <3>3, SettleUpdate, StatusValues DEF Retry, TypeOK
    <3> QED BY <1>5, <3>1, <3>2, <3>3
  <2> QED BY <1>5, <2>1 DEF MarkRunning, Heartbeat, Retry, TypeOK
<1>6. ASSUME NEW j \in Jobs, NEW t \in 1 .. jobs[j].token,
             NEW suppress \in BOOLEAN, NEW conversation \in BOOLEAN,
             NEW chunks \in 1 .. MaxChunks,
             CommitResult(j, t, suppress, conversation, chunks)
      PROVE  TypeOK'
  <2>1. t \in Nat
    BY DEF TypeOK, Row
  <2>2. jobs' \in [Jobs -> Row]
    BY <1>6, SettleUpdate, StatusValues DEF CommitResult, TypeOK
  <2>3. idem' \in [Keys -> IdemRow]
    BY <1>6 DEF CommitResult, TypeOK, IdemRow
  <2>4. outbox' \in [Jobs -> Nat] /\ settledBy' \in [Jobs -> Nat]
    BY <1>6, <2>1 DEF CommitResult, TypeOK
  <2> QED BY <1>6, <2>2, <2>3, <2>4 DEF CommitResult, TypeOK
<1>7. ASSUME NEW j \in Jobs, NEW t \in 1 .. jobs[j].token, DeadLetter(j, t)
      PROVE  TypeOK'
  <2>1. t \in Nat
    BY DEF TypeOK, Row
  <2>2. jobs' \in [Jobs -> Row]
    BY <1>7, ClaimUpdate DEF DeadLetter, TypeOK
  <2>3. idem' \in [Keys -> IdemRow]
    BY <1>7 DEF DeadLetter, Buried, TypeOK, IdemRow
  <2> QED BY <1>7, <2>1, <2>2, <2>3 DEF DeadLetter, TypeOK
<1>8. ASSUME NEW j \in Jobs, NEW s \in Sessions, ProvisionCronJob(j, s)
      PROVE  TypeOK'
  <2>1. jobs' \in [Jobs -> Row]
    BY <1>8, SequenceUpdate DEF ProvisionCronJob, TypeOK
  <2> QED BY <1>8, <2>1 DEF ProvisionCronJob, TypeOK
<1>9. CASE InitializeQueue
  <2>1. jobs' \in [Jobs -> Row]
    BY <1>9, RecoveryUpdate DEF InitializeQueue, TypeOK
  <2> QED BY <1>9, <2>1 DEF InitializeQueue, TypeOK
<1>10. ASSUME NEW j \in Jobs, LeaseLapses(j) \/ BackoffElapses(j)
       PROVE  TypeOK'
  <2>1. jobs' \in [Jobs -> Row]
    <3>1. CASE LeaseLapses(j)
      BY <3>1, LeaseUpdate DEF LeaseLapses, TypeOK
    <3>2. CASE BackoffElapses(j)
      BY <3>2, DueUpdate DEF BackoffElapses, TypeOK
    <3> QED BY <1>10, <3>1, <3>2
  <2> QED BY <1>10, <2>1 DEF LeaseLapses, BackoffElapses, TypeOK
<1>11. CASE UNCHANGED vars
  BY <1>11 DEF vars, TypeOK
<1> QED
  BY <1>1, <1>2, <1>3, <1>4, <1>5, <1>6, <1>7, <1>8, <1>9, <1>10, <1>11
     DEF Next, Accept, Admission, Work, Environment, FailAttempt

(* The tables always hold rows the schema admits.                          *)
THEOREM TypeCorrect == Spec => []TypeOK
<1>1. TypeOK /\ [Next]_vars => TypeOK'
  BY NextType
<1> QED BY InitType, <1>1, PTL DEF Spec

-----------------------------------------------------------------------------
(* Session order *)

(* The tables t and u hold the same rows in the same places of the same    *)
(* sessions; u settles more of them and activates only rows it finds       *)
(* unblocked.                                                              *)
KeepsOrder(t, u) ==
  \A i \in Jobs :
    /\ u[i].session = t[i].session
    /\ u[i].seq = t[i].seq
    /\ u[i].status = "absent" <=> t[i].status = "absent"
    /\ t[i].status \in Terminal => u[i].status = t[i].status
    /\ u[i].status \in Claimed => t[i].status \in Claimed \/ Unblocked(u, i)

(* A row is rewritten without moving it and without changing a final       *)
(* status.                                                                 *)
Settles(r, q) ==
  /\ q.session = r.session /\ q.seq = r.seq
  /\ q.status = "absent" <=> r.status = "absent"
  /\ r.status \in Terminal => q.status = r.status
  /\ q.status \in Claimed => r.status \in Claimed

LEMMA KeepsOrderStep ==
  ASSUME SequenceUnique, SessionSerial, KeepsOrder(jobs, jobs')
  PROVE  SequenceUnique' /\ SessionSerial'
<1>1. SequenceUnique'
  BY DEF SequenceUnique, KeepsOrder, Present
<1>2. ASSUME NEW j \in Jobs, Active(j)' PROVE Unblocked(jobs, j)'
  <2>1. CASE jobs[j].status \in Claimed
    <3>1. Unblocked(jobs, j)
      BY <2>1 DEF SessionSerial, Active
    <3> QED BY <3>1 DEF Unblocked, KeepsOrder
  <2>2. CASE Unblocked(jobs', j)
    BY <2>2 DEF Unblocked
  <2> QED BY <1>2, <2>1, <2>2 DEF KeepsOrder, Active
<1> QED BY <1>1, <1>2 DEF SessionSerial

(* Rewriting rows in place, none of them from waiting to active, keeps     *)
(* the order.                                                              *)
LEMMA SettlesStep ==
  ASSUME \A i \in Jobs : Settles(jobs[i], jobs'[i])
  PROVE  KeepsOrder(jobs, jobs')
BY DEF KeepsOrder, Settles

LEMMA StatusFields ==
  ASSUME NEW r \in Row, NEW st
  PROVE  LET q == [r EXCEPT !.status = st] IN
         q.status = st /\ q.session = r.session /\ q.seq = r.seq
BY DEF Row

LEMMA LeaseFields ==
  ASSUME NEW r \in Row, NEW l
  PROVE  /\ LET q == [r EXCEPT !.lease = l] IN
            q.status = r.status /\ q.session = r.session /\ q.seq = r.seq
         /\ LET q == [r EXCEPT !.due = l] IN
            q.status = r.status /\ q.session = r.session /\ q.seq = r.seq
BY DEF Row

LEMMA SettleFields ==
  ASSUME NEW r \in Row, NEW st, NEW l, NEW b
  PROVE  /\ LET q == [r EXCEPT !.status = st, !.lease = l, !.due = b] IN
            q.status = st /\ q.session = r.session /\ q.seq = r.seq
         /\ LET q == [r EXCEPT !.status = st, !.lease = l, !.suppressed = b] IN
            q.status = st /\ q.session = r.session /\ q.seq = r.seq
BY DEF Row

LEMMA ClaimFields ==
  ASSUME NEW r \in Row
  PROVE  LET q == ClaimedRow(r) IN
         q.status = "claimed" /\ q.session = r.session /\ q.seq = r.seq
BY DEF Row, ClaimedRow

(* The row a source accepts goes behind everything in its session.         *)
Added(j, s) ==
  /\ jobs[j].status = "absent" /\ jobs'[j].status = "queued"
  /\ jobs'[j].session = s /\ jobs'[j].seq \in NextSequence(s)
  /\ \A i \in Jobs \ {j} : /\ jobs'[i].session = jobs[i].session
                           /\ jobs'[i].seq = jobs[i].seq
                           /\ jobs'[i].status = jobs[i].status

LEMMA AddStep ==
  ASSUME TypeOK, SequenceUnique, SessionSerial,
         NEW j \in Jobs, NEW s \in Sessions, Added(j, s)
  PROVE  SequenceUnique' /\ SessionSerial'
<1> USE DEF Added
<1>1. \A i \in InSession(jobs'[j].session) : jobs[i].seq < jobs'[j].seq
  BY NextSequenceType
<1>2. jobs'[j].seq \in Nat /\ \A i \in Jobs : jobs[i].seq \in Nat
  BY NextSequenceType DEF TypeOK, Row
<1>3. \A i \in Jobs \ {j} :
        Present(i)' /\ jobs'[i].session = jobs'[j].session
          => jobs'[i].seq < jobs'[j].seq
  BY <1>1 DEF InSession, Present
<1>4. SequenceUnique'
  BY <1>2, <1>3 DEF SequenceUnique, Present
<1>5. ASSUME NEW i \in Jobs, Active(i)' PROVE Unblocked(jobs, i)'
  <2>1. i # j /\ Active(i)
    BY <1>5 DEF Active, Claimed
  <2>2. Unblocked(jobs, i)
    BY <2>1 DEF SessionSerial
  <2>3. Present(i)'
    BY <1>5 DEF Active, Present, Claimed
  <2>4. jobs'[j].session = jobs'[i].session => ~ (jobs'[j].seq < jobs'[i].seq)
    BY <1>2, <1>3, <2>1, <2>3
  <2> QED BY <2>1, <2>2, <2>4 DEF Unblocked
<1> QED BY <1>4, <1>5 DEF SessionSerial

(* What a finished job delivered may move to the head of another session.  *)
LEMMA PromotionStep ==
  ASSUME TypeOK, SequenceUnique, SessionSerial,
         NEW j \in Jobs, NEW s \in Sessions, ProvisionCronJob(j, s)
  PROVE  SequenceUnique' /\ SessionSerial'
<1>1. \A i \in Jobs :
        /\ jobs'[i].status = jobs[i].status
        /\ i = j => jobs'[i].session = s /\ jobs'[i].seq = 0
        /\ i # j => jobs'[i].session = jobs[i].session
        /\ i # j /\ i \in InSession(s) => jobs'[i].seq = jobs[i].seq + 1
        /\ i # j /\ i \notin InSession(s) => jobs'[i].seq = jobs[i].seq
  BY DEF ProvisionCronJob, TypeOK, Row
<1>2. \A i \in Jobs : jobs[i].seq \in Nat
  BY DEF TypeOK, Row
<1>3. ASSUME NEW a \in Jobs, NEW b \in Jobs, a # b, a # j, b # j,
             Present(a), Present(b), jobs[a].session = jobs[b].session
      PROVE  /\ jobs'[a].seq = jobs'[b].seq <=> jobs[a].seq = jobs[b].seq
             /\ jobs'[a].seq < jobs'[b].seq <=> jobs[a].seq < jobs[b].seq
  <2>1. a \in InSession(s) <=> b \in InSession(s)
    BY <1>3 DEF InSession
  <2> QED BY <1>1, <1>2, <1>3, <2>1
<1>4. \A i \in Jobs \ {j} : Present(i) /\ jobs'[i].session = s => jobs'[i].seq > 0
  BY <1>1, <1>2 DEF InSession
<1>5. SequenceUnique'
  BY <1>1, <1>3, <1>4 DEF SequenceUnique, Present
<1>6. jobs[j].status = "completed"
  BY DEF ProvisionCronJob
<1>7. ASSUME NEW i \in Jobs, Active(i)' PROVE Unblocked(jobs, i)'
  <2>1. i # j /\ Active(i) /\ Present(i)
    BY <1>1, <1>6, <1>7 DEF Active, Present, Claimed
  <2>2. Unblocked(jobs, i)
    BY <2>1 DEF SessionSerial
  <2>3. ASSUME NEW k \in Jobs, k # j, Present(k),
               jobs'[k].session = jobs'[i].session, jobs'[k].seq < jobs'[i].seq
        PROVE  jobs'[k].status \in Terminal
    <3>1. k # i
      BY <1>1, <1>2, <2>3
    <3>2. jobs[k].session = jobs[i].session /\ jobs[k].seq < jobs[i].seq
      BY <1>1, <1>3, <2>1, <2>3, <3>1
    <3> QED BY <1>1, <2>2, <2>3, <3>2 DEF Unblocked, Present
  <2>4. jobs'[j].status \in Terminal
    BY <1>1, <1>6 DEF Terminal
  <2> QED BY <1>1, <2>3, <2>4 DEF Unblocked, Present
<1> QED BY <1>5, <1>7 DEF SessionSerial

(* A claim first dead-letters what is exhausted, then activates a row that *)
(* nothing unfinished precedes.                                            *)
LEMMA ClaimStep ==
  ASSUME TypeOK, NEW x \in SUBSET Jobs, Claim(x)
  PROVE  KeepsOrder(jobs, jobs')
<1>1. \A i \in Jobs : jobs[i] \in Row
  BY DEF TypeOK
<1>2. ASSUME NEW i \in Jobs PROVE Settles(jobs[i], Swept(x)[i])
  <2>1. CASE i \in Exhausted(x)
    <3>1. Swept(x)[i] = DeadLettered(jobs[i])
      BY <2>1 DEF Swept
    <3>2. jobs[i].status # "absent" /\ jobs[i].status \notin Terminal
      BY <2>1 DEF Exhausted, Eligible, Waiting, Claimed, Terminal
    <3>3. /\ DeadLettered(jobs[i]).status = "dead_letter"
          /\ DeadLettered(jobs[i]).session = jobs[i].session
          /\ DeadLettered(jobs[i]).seq = jobs[i].seq
      BY <1>1, SettleFields DEF DeadLettered
    <3> QED BY <3>1, <3>2, <3>3 DEF Settles, Claimed, Terminal
  <2>2. CASE i \notin Exhausted(x)
    BY <2>2 DEF Swept, Settles
  <2> QED BY <2>1, <2>2
<1>3. CASE jobs' = Swept(x)
  BY <1>2, <1>3, SettlesStep
<1>4. ASSUME NEW j \in Candidates(x),
             jobs' = [Swept(x) EXCEPT ![j] = ClaimedRow(Swept(x)[j])]
      PROVE  KeepsOrder(jobs, jobs')
  <2>1. j \in Jobs /\ j \notin Exhausted(x)
    BY <1>1, QueueAssumption DEF Candidates, Exhausted, Row
  <2>2. Swept(x)[j] = jobs[j] /\ jobs'[j] = ClaimedRow(jobs[j])
    <3>1. Swept(x)[j] = jobs[j]
      BY <2>1 DEF Swept
    <3>2. jobs'[j] = ClaimedRow(Swept(x)[j])
      BY <1>4, <2>1 DEF Swept
    <3> QED BY <3>1, <3>2
  <2>3. \A i \in Jobs \ {j} : jobs'[i] = Swept(x)[i]
    BY <1>4, <2>1 DEF Swept
  <2>4. /\ jobs'[j].status = "claimed"
        /\ jobs'[j].session = jobs[j].session
        /\ jobs'[j].seq = jobs[j].seq
    BY <1>1, <2>1, <2>2, ClaimFields
  <2>5. Unblocked(Swept(x), j)
    BY DEF Candidates
  <2>6. jobs[j].seq \in Nat
    BY <1>1, <2>1 DEF Row
  <2>7. Unblocked(jobs', j)
    BY <2>2, <2>3, <2>4, <2>5, <2>6 DEF Unblocked
  <2>8. jobs[j].status \in Waiting \cup Claimed
    BY DEF Candidates, Eligible
  <2> QED BY <1>2, <2>3, <2>4, <2>7, <2>8
             DEF KeepsOrder, Settles, Waiting, Claimed, Terminal
<1> QED BY <1>3, <1>4 DEF Claim

(* Every step adds a row, keeps the order, or moves a delivered job.       *)
LEMMA StepShape ==
  ASSUME TypeOK, [Next]_vars
  PROVE  \/ \E j \in Jobs, s \in Sessions : Added(j, s)
         \/ \E j \in Jobs, s \in Sessions : ProvisionCronJob(j, s)
         \/ KeepsOrder(jobs, jobs')
<1>0. \A i \in Jobs : jobs[i] \in Row
  BY DEF TypeOK
<1>1. ASSUME NEW j \in Jobs, NEW s \in Sessions, NEW k \in Keys \cup {Null},
             NEW item \in BOOLEAN, Enqueue(j, s, k, item)
      PROVE  Added(j, s)
  <2>1. PICK n \in NextSequence(s) :
          jobs' = [Disowned(k) EXCEPT ![j] =
                    [NoRow EXCEPT !.status = "queued", !.session = s,
                       !.seq = n, !.key = k, !.provisioning = item]]
    BY <1>1 DEF Enqueue
  <2>2. jobs'[j].status = "queued" /\ jobs'[j].session = s /\ jobs'[j].seq = n
    BY <2>1 DEF NoRow, Disowned
  <2>3. \A i \in Jobs \ {j} : /\ jobs'[i].session = jobs[i].session
                              /\ jobs'[i].seq = jobs[i].seq
                              /\ jobs'[i].status = jobs[i].status
    BY <1>0, <2>1 DEF Disowned, Row
  <2> QED BY <1>1, <2>2, <2>3 DEF Enqueue, Added
<1>2. ASSUME NEW j \in Jobs, NEW s \in Sessions, CreateAdmission(j, s)
      PROVE  Added(j, s)
  <2>1. PICK n \in NextSequence(s) :
          jobs' = [jobs EXCEPT ![j] =
                    [NoRow EXCEPT !.status = "queued", !.admission = TRUE,
                                  !.session = s, !.seq = n]]
    BY <1>2 DEF CreateAdmission
  <2>2. jobs'[j].status = "queued" /\ jobs'[j].session = s /\ jobs'[j].seq = n
    BY <2>1 DEF NoRow, TypeOK
  <2>3. \A i \in Jobs \ {j} : jobs'[i] = jobs[i]
    BY <2>1 DEF TypeOK
  <2> QED BY <1>2, <2>2, <2>3 DEF CreateAdmission, Added
<1>3. ASSUME NEW j \in Jobs, Admit(j)
      PROVE  KeepsOrder(jobs, jobs')
  <2>1. /\ jobs'[j].status = "running"
        /\ jobs'[j].session = jobs[j].session
        /\ jobs'[j].seq = jobs[j].seq
        /\ \A i \in Jobs \ {j} : jobs'[i] = jobs[i]
    BY <1>0, <1>3, StatusFields DEF Admit, TypeOK
  <2>2. jobs[j].status = "queued" /\ Unblocked(jobs, j) /\ jobs[j].seq \in Nat
    BY <1>0, <1>3 DEF Admit, Row
  <2>3. Unblocked(jobs', j)
    BY <2>1, <2>2 DEF Unblocked
  <2> QED BY <2>1, <2>2, <2>3 DEF KeepsOrder, Terminal, Claimed
<1>4. ASSUME NEW j \in Jobs,
             RefuseAdmission(j) \/ CompleteAdmission(j) \/ CancelAdmission(j)
      PROVE  KeepsOrder(jobs, jobs')
  <2>1. /\ jobs'[j].status \in Terminal
        /\ jobs'[j].session = jobs[j].session
        /\ jobs'[j].seq = jobs[j].seq
        /\ \A i \in Jobs \ {j} : jobs'[i] = jobs[i]
    <3>1. PICK st \in Terminal : jobs' = [jobs EXCEPT ![j].status = st]
      BY <1>4 DEF RefuseAdmission, CompleteAdmission, CancelAdmission, Terminal
    <3> QED BY <1>0, <3>1, StatusFields DEF TypeOK
  <2>2. jobs[j].status \in {"queued", "running"}
    BY <1>4 DEF RefuseAdmission, CompleteAdmission, CancelAdmission
  <2>3. \A i \in Jobs : Settles(jobs[i], jobs'[i])
    BY <2>1, <2>2 DEF Settles, Terminal, Claimed
  <2> QED BY <2>3, SettlesStep
<1>5. ASSUME NEW j \in Jobs, NEW t \in 1 .. jobs[j].token, MarkRunning(j, t)
      PROVE  KeepsOrder(jobs, jobs')
  <2>1. /\ jobs'[j].status = "running"
        /\ jobs'[j].session = jobs[j].session
        /\ jobs'[j].seq = jobs[j].seq
        /\ \A i \in Jobs \ {j} : jobs'[i] = jobs[i]
    BY <1>0, <1>5, StatusFields DEF MarkRunning, TypeOK
  <2>2. jobs[j].status \in Claimed
    BY <1>5 DEF MarkRunning, Fenced
  <2>3. \A i \in Jobs : Settles(jobs[i], jobs'[i])
    BY <2>1, <2>2 DEF Settles, Terminal, Claimed
  <2> QED BY <2>3, SettlesStep
<1>6. ASSUME NEW j \in Jobs,
             \/ \E t \in 1 .. jobs[j].token : Heartbeat(j, t)
             \/ LeaseLapses(j)
             \/ BackoffElapses(j)
      PROVE  KeepsOrder(jobs, jobs')
  <2>1. /\ Settles(jobs[j], jobs'[j])
        /\ \A i \in Jobs \ {j} : jobs'[i] = jobs[i]
    <3>1. \/ \E l \in {"held", "lapsed"} :
               jobs' = [jobs EXCEPT ![j].lease = l]
          \/ jobs' = [jobs EXCEPT ![j].due = TRUE]
      BY <1>6 DEF Heartbeat, LeaseLapses, BackoffElapses
    <3>2. \A i \in Jobs \ {j} : jobs'[i] = jobs[i]
      BY <3>1 DEF TypeOK
    <3>3. /\ jobs'[j].status = jobs[j].status
          /\ jobs'[j].session = jobs[j].session
          /\ jobs'[j].seq = jobs[j].seq
      <4>1. ASSUME NEW l \in {"held", "lapsed"},
                   jobs' = [jobs EXCEPT ![j].lease = l]
            PROVE  <3>3
        BY <1>0, <4>1, LeaseFields DEF TypeOK
      <4>2. CASE jobs' = [jobs EXCEPT ![j].due = TRUE]
        BY <1>0, <4>2, LeaseFields DEF TypeOK
      <4> QED BY <3>1, <4>1, <4>2
    <3> QED BY <3>2, <3>3 DEF Settles
  <2>2. \A i \in Jobs : Settles(jobs[i], jobs'[i])
    BY <2>1 DEF Settles
  <2> QED BY <2>2, SettlesStep
<1>7. ASSUME NEW j \in Jobs, NEW t \in 1 .. jobs[j].token,
             \/ Retry(j, t)
             \/ DeadLetter(j, t)
             \/ \E suppress, conversation \in BOOLEAN, chunks \in 1 .. MaxChunks :
                  CommitResult(j, t, suppress, conversation, chunks)
      PROVE  KeepsOrder(jobs, jobs')
  <2>1. /\ jobs'[j].status \in Terminal \cup Waiting
        /\ jobs'[j].session = jobs[j].session
        /\ jobs'[j].seq = jobs[j].seq
        /\ \A i \in Jobs \ {j} : jobs'[i] = jobs[i]
    <3>1. CASE Retry(j, t)
      BY <1>0, <3>1, SettleFields DEF Retry, TypeOK, Waiting
    <3>2. CASE DeadLetter(j, t)
      BY <1>0, <3>2, SettleFields DEF DeadLetter, DeadLettered, TypeOK, Terminal
    <3>3. ASSUME NEW suppress \in BOOLEAN, NEW conversation \in BOOLEAN,
                 NEW chunks \in 1 .. MaxChunks,
                 CommitResult(j, t, suppress, conversation, chunks)
          PROVE  <2>1
      BY <1>0, <3>3, SettleFields DEF CommitResult, TypeOK, Terminal
    <3> QED BY <1>7, <3>1, <3>2, <3>3
  <2>2. jobs[j].status \in Claimed
    BY <1>7 DEF Retry, DeadLetter, CommitResult, Fenced
  <2>3. \A i \in Jobs : Settles(jobs[i], jobs'[i])
    BY <2>1, <2>2 DEF Settles, Terminal, Claimed, Waiting
  <2> QED BY <2>3, SettlesStep
<1>8. CASE InitializeQueue
  <2>1. ASSUME NEW i \in Jobs PROVE Settles(jobs[i], jobs'[i])
    <3>1. jobs'[i] = RecoverExpired(RecoverAdmission(jobs[i]))
      BY <1>8 DEF InitializeQueue
    <3>2. \A r \in Row : Settles(r, RecoverAdmission(r))
      BY StatusFields
         DEF RecoverAdmission, Settles, Terminal, Claimed
    <3>3. \A r \in Row : Settles(r, RecoverExpired(r))
      BY SettleFields
         DEF RecoverExpired, Settles, Terminal, Claimed
    <3>4. RecoverAdmission(jobs[i]) \in Row
      BY <1>0, StatusUpdate DEF RecoverAdmission, Status, Terminal
    <3> QED BY <1>0, <3>1, <3>2, <3>3, <3>4 DEF Settles
  <2> QED BY <2>1, SettlesStep
<1>9. CASE UNCHANGED vars
  <2>1. \A i \in Jobs : Settles(jobs[i], jobs'[i])
    BY <1>9 DEF vars, Settles
  <2> QED BY <2>1, SettlesStep
<1> QED
  BY <1>1, <1>2, <1>3, <1>4, <1>5, <1>6, <1>7, <1>8, <1>9, ClaimStep
     DEF Next, Accept, Admission, Work, Environment, FailAttempt

LEMMA OrderStep ==
  TypeOK /\ SequenceUnique /\ SessionSerial /\ [Next]_vars
    => SequenceUnique' /\ SessionSerial'
BY StepShape, AddStep, PromotionStep, KeepsOrderStep

(* Session order is an invariant: sequence numbers are never shared and no *)
(* row runs ahead of an unfinished predecessor.                            *)
THEOREM OrderCorrect == Spec => [](SequenceUnique /\ SessionSerial)
<1>1. Init => SequenceUnique /\ SessionSerial
  BY DEF Init, NoRow, SequenceUnique, SessionSerial, Present, Active, Claimed
<1>2. TypeOK /\ (SequenceUnique /\ SessionSerial) /\ [Next]_vars
        => (SequenceUnique /\ SessionSerial)'
  BY OrderStep
<1> QED BY <1>1, <1>2, TypeCorrect, PTL DEF Spec

(* One row of a session is worked on at a time: of two rows at different   *)
(* places the later one would not be unblocked.                            *)
THEOREM MutualExclusion == Spec => []OneActivePerSession
<1>1. TypeOK /\ SequenceUnique /\ SessionSerial => OneActivePerSession
  <2> SUFFICES ASSUME TypeOK, SequenceUnique, SessionSerial,
                      NEW j \in Jobs, NEW k \in Jobs, Active(j), Active(k),
                      jobs[j].session = jobs[k].session, j # k
               PROVE  FALSE
    BY DEF OneActivePerSession
  <2>1. Unblocked(jobs, j) /\ Unblocked(jobs, k)
    BY DEF SessionSerial
  <2>2. Present(j) /\ Present(k)
    BY DEF Active, Present, Claimed
  <2>3. jobs[j].status \notin Terminal /\ jobs[k].status \notin Terminal
    BY DEF Active, Claimed, Terminal
  <2>4. jobs[j].seq \in Nat /\ jobs[k].seq \in Nat /\ jobs[j].seq # jobs[k].seq
    BY <2>2 DEF SequenceUnique, TypeOK, Row
  <2> QED BY <2>1, <2>2, <2>3, <2>4 DEF Unblocked, Present
<1> QED BY <1>1, TypeCorrect, OrderCorrect, PTL

-----------------------------------------------------------------------------
(* The tables of the ledger agree, and settled rows stay settled *)

(* One row against what the other tables hold of it: d rows of             *)
(* dead_letters, o of deliveries, c whether its conversation was adopted,  *)
(* s the token that settled it.  An admission ticket has no key and no     *)
(* token: that no worker can write to it is what LedgersAgree needs to be  *)
(* inductive.                                                              *)
RowAgrees(r, d, o, c, s) ==
  /\ r.lease # "none" <=> r.status \in Claimed /\ ~r.admission
  /\ r.admission => r.token = 0 /\ r.key = Null
  /\ d = IF r.status = "dead_letter" /\ ~r.admission THEN 1 ELSE 0
  /\ o \in 0 .. MaxChunks
  /\ o > 0 <=> r.status = "completed" /\ ~r.admission /\ ~r.suppressed
  /\ c => r.status = "completed"
  /\ s # 0 => s = r.token /\ r.status \in Terminal

RowsAgree ==
  \A j \in Jobs :
    RowAgrees(jobs[j], deadLetters[j], outbox[j], j \in conversations, settledBy[j])

(* What KeyOwnership says of one key. *)
KeyAgrees(k) ==
  /\ \A j \in Jobs : jobs[j].key = k <=> idem[k].job = j
  /\ idem[k].status = "none" => idem[k].job = Null
  /\ idem[k].status = "active" => idem[k].job # Null /\ Unfinished(idem[k].job)
  /\ idem[k].status \in Terminal =>
       idem[k].job # Null /\ jobs[idem[k].job].status = idem[k].status

KeysAgree == \A k \in Keys : KeyAgrees(k)

(* The inductive invariant. *)
Agreement == RowsAgree /\ KeysAgree

LEMMA KeysAreOwned == TypeOK => (KeysAgree <=> KeyOwnership)
BY DEF TypeOK, IdemRow, KeysAgree, KeyAgrees, KeyOwnership, Terminal

LEMMA AgreementImplies == TypeOK /\ Agreement => LedgersAgree /\ SettledByNewest
<1> SUFFICES ASSUME TypeOK, Agreement PROVE LedgersAgree /\ SettledByNewest
  OBVIOUS
<1>1. KeyOwnership
  BY KeysAreOwned DEF Agreement
<1>2. LeaseShape
  BY DEF Agreement, RowsAgree, RowAgrees, LeaseShape, Active
<1>3. SettledByNewest
  BY DEF Agreement, RowsAgree, RowAgrees, SettledByNewest
<1> QED
  BY <1>1, <1>2, <1>3 DEF Agreement, RowsAgree, RowAgrees, LedgersAgree

LEMMA InitAgrees == Init => Agreement
<1> SUFFICES ASSUME Init PROVE Agreement
  OBVIOUS
<1>1. RowsAgree
  BY QueueAssumption DEF Init, NoRow, RowsAgree, RowAgrees, Claimed
<1>2. KeysAgree
  BY QueueAssumption DEF Init, NoRow, NoKeyRow, KeysAgree, KeyAgrees, Terminal
<1> QED BY <1>1, <1>2 DEF Agreement

-----------------------------------------------------------------------------
(* Keys *)

(* A step that writes no key and no record and settles no row with a key   *)
(* leaves the keys as they were.                                           *)
LEMMA KeysStay ==
  ASSUME TypeOK, KeysAgree, idem' = idem,
         \A i \in Jobs :
           /\ jobs'[i].key = jobs[i].key
           /\ jobs[i].key # Null =>
                /\ Unfinished(i) => Unfinished(i)'
                /\ jobs[i].status \in Terminal => jobs'[i].status = jobs[i].status
  PROVE  KeysAgree'
<1> SUFFICES ASSUME NEW k \in Keys PROVE KeyAgrees(k)'
  BY DEF KeysAgree
<1>1. KeyAgrees(k)
  BY DEF KeysAgree
<1>2. idem[k].job \in Jobs \cup {Null}
  BY DEF TypeOK, IdemRow
<1>3. k # Null
  BY QueueAssumption
<1> QED BY <1>1, <1>2, <1>3 DEF KeyAgrees

(* The rows of D become dead letters and their keys with them.             *)
LEMMA KeysBuried ==
  ASSUME TypeOK, KeysAgree, NEW D \in SUBSET Jobs, idem' = Buried(D),
         \A i \in Jobs :
           /\ jobs'[i].key = jobs[i].key
           /\ i \in D => jobs'[i].status = "dead_letter"
           /\ i \notin D =>
                /\ Unfinished(i) => Unfinished(i)'
                /\ jobs[i].status \in Terminal => jobs'[i].status = jobs[i].status
  PROVE  KeysAgree'
<1> SUFFICES ASSUME NEW k \in Keys PROVE KeyAgrees(k)'
  BY DEF KeysAgree
<1>1. KeyAgrees(k)
  BY DEF KeysAgree
<1>2. idem[k].job \in Jobs \cup {Null} /\ idem[k] \in IdemRow
  BY DEF TypeOK, IdemRow
<1>3. idem'[k].job = idem[k].job
  BY <1>2 DEF Buried, IdemRow
<1>4. CASE \E j \in D : jobs[j].key = k
  <2>1. PICK j \in D : jobs[j].key = k
    BY <1>4
  <2>2. idem'[k].status = "dead_letter"
    BY <1>2, <1>4 DEF Buried, IdemRow
  <2>3. idem[k].job = j /\ j \in Jobs /\ j # Null
    BY <1>1, <2>1, QueueAssumption DEF KeyAgrees
  <2> QED BY <1>1, <1>3, <2>1, <2>2, <2>3 DEF KeyAgrees, Terminal
<1>5. CASE ~ \E j \in D : jobs[j].key = k
  <2>1. idem'[k] = idem[k]
    BY <1>5 DEF Buried
  <2>2. idem[k].job \notin D
    BY <1>1, <1>5 DEF KeyAgrees
  <2> QED BY <1>1, <1>2, <2>1, <2>2 DEF KeyAgrees
<1> QED BY <1>4, <1>5

-----------------------------------------------------------------------------
(* Acceptance *)

LEMMA EnqueueAgrees ==
  ASSUME TypeOK, Agreement, NEW j \in Jobs, NEW s \in Sessions,
         NEW k \in Keys \cup {Null}, NEW item \in BOOLEAN, Enqueue(j, s, k, item)
  PROVE  Agreement'
<1>0. \A i \in Jobs : jobs[i] \in Row /\ jobs[i].key \in Keys \cup {Null}
  BY DEF TypeOK, Row
<1>1. PICK n \in NextSequence(s) :
        jobs' = [Disowned(k) EXCEPT ![j] =
                  [NoRow EXCEPT !.status = "queued", !.session = s,
                     !.seq = n, !.key = k, !.provisioning = item]]
  BY DEF Enqueue
<1>2. /\ jobs'[j].status = "queued" /\ jobs'[j].key = k
      /\ jobs'[j].admission = FALSE /\ jobs'[j].lease = "none"
      /\ jobs'[j].suppressed = FALSE /\ jobs'[j].token = 0
  BY <1>1 DEF NoRow, Disowned
<1>3. \A i \in Jobs \ {j} : jobs'[i] = Disowned(k)[i]
  BY <1>1 DEF Disowned
<1>4. \A i \in Jobs \ {j} :
        /\ jobs'[i].status = jobs[i].status /\ jobs'[i].lease = jobs[i].lease
        /\ jobs'[i].admission = jobs[i].admission /\ jobs'[i].token = jobs[i].token
        /\ jobs'[i].suppressed = jobs[i].suppressed
        /\ jobs'[i].key = IF k # Null /\ jobs[i].key = k THEN Null ELSE jobs[i].key
  BY <1>0, <1>3 DEF Disowned, Row
<1>5. jobs[j].status = "absent"
  BY DEF Enqueue
<1>6. RowsAgree'
  <2>1. UNCHANGED <<deadLetters, outbox, conversations, settledBy>>
    BY DEF Enqueue
  <2>2. ASSUME NEW i \in Jobs
        PROVE  RowAgrees(jobs'[i], deadLetters[i], outbox[i], i \in conversations,
                         settledBy[i])
    <3>1. RowAgrees(jobs[i], deadLetters[i], outbox[i], i \in conversations, settledBy[i])
      BY DEF Agreement, RowsAgree
    <3>2. CASE i = j
      BY <1>2, <1>5, <3>1, <3>2 DEF RowAgrees, Claimed, Terminal
    <3>3. CASE i # j
      BY <1>4, <3>1, <3>3 DEF RowAgrees
    <3> QED BY <3>2, <3>3
  <2> QED BY <2>1, <2>2 DEF RowsAgree
<1>7. KeysAgree'
  <2> SUFFICES ASSUME NEW l \in Keys PROVE KeyAgrees(l)'
    BY DEF KeysAgree
  <2>1. KeyAgrees(l) /\ l # Null /\ idem[l] \in IdemRow
    BY QueueAssumption DEF Agreement, KeysAgree, TypeOK
  <2>2. jobs[j].key # l
    BY <1>5, <2>1, QueueAssumption
       DEF KeyAgrees, IdemRow, Unfinished, Waiting, Claimed, Terminal
  <2>3. CASE l = k
    <3>1. idem'[l] = [job |-> j, status |-> "active"]
      BY <2>1, <2>3 DEF Enqueue, TypeOK
    <3>2. \A i \in Jobs : jobs'[i].key = l <=> i = j
      BY <1>2, <1>4, <2>1, <2>3
    <3> QED BY <1>2, <3>1, <3>2, QueueAssumption
            DEF KeyAgrees, Unfinished, Waiting, Claimed, Terminal
  <2>4. CASE l # k
    <3>1. idem'[l] = idem[l]
      BY <2>4 DEF Enqueue, TypeOK
    <3>2. \A i \in Jobs \ {j} : jobs'[i].key = l <=> jobs[i].key = l
      BY <1>4, <2>1, <2>4
    <3>3. jobs'[j].key # l
      BY <1>2, <2>4
    <3>4. idem[l].job # j
      BY <2>1, <2>2 DEF KeyAgrees
    <3> QED BY <1>4, <2>1, <2>2, <3>1, <3>2, <3>3, <3>4
            DEF KeyAgrees, IdemRow, Unfinished
  <2> QED BY <2>3, <2>4
<1> QED BY <1>6, <1>7 DEF Agreement

LEMMA CreateAdmissionAgrees ==
  ASSUME TypeOK, Agreement, NEW j \in Jobs, NEW s \in Sessions, CreateAdmission(j, s)
  PROVE  Agreement'
<1>1. PICK n \in NextSequence(s) :
        jobs' = [jobs EXCEPT ![j] =
                  [NoRow EXCEPT !.status = "queued", !.admission = TRUE,
                                !.session = s, !.seq = n]]
  BY DEF CreateAdmission
<1>2. /\ jobs'[j].status = "queued" /\ jobs'[j].key = Null
      /\ jobs'[j].admission = TRUE /\ jobs'[j].lease = "none"
      /\ jobs'[j].suppressed = FALSE /\ jobs'[j].token = 0
  BY <1>1 DEF NoRow, TypeOK
<1>3. \A i \in Jobs \ {j} : jobs'[i] = jobs[i]
  BY <1>1 DEF TypeOK
<1>4. jobs[j].status = "absent"
  BY DEF CreateAdmission
<1>5. UNCHANGED <<idem, deadLetters, outbox, conversations, settledBy>>
  BY DEF CreateAdmission
<1>6. RowsAgree'
  <2>1. ASSUME NEW i \in Jobs
        PROVE  RowAgrees(jobs'[i], deadLetters[i], outbox[i], i \in conversations,
                         settledBy[i])
    <3>1. RowAgrees(jobs[i], deadLetters[i], outbox[i], i \in conversations, settledBy[i])
      BY DEF Agreement, RowsAgree
    <3>2. CASE i = j
      BY <1>2, <1>4, <3>1, <3>2 DEF RowAgrees, Claimed, Terminal
    <3>3. CASE i # j
      BY <1>3, <3>1, <3>3
    <3> QED BY <3>2, <3>3
  <2> QED BY <1>5, <2>1 DEF RowsAgree
<1>7. jobs[j].key = Null
  <2>1. jobs[j].key \in Keys \cup {Null}
    BY DEF TypeOK, Row
  <2>2. ASSUME NEW l \in Keys PROVE jobs[j].key # l
    <3>1. KeyAgrees(l) /\ idem[l] \in IdemRow
      BY DEF Agreement, KeysAgree, TypeOK
    <3> QED BY <1>4, <3>1, QueueAssumption
            DEF KeyAgrees, IdemRow, Unfinished, Waiting, Claimed, Terminal
  <2> QED BY <2>1, <2>2
<1>8. \A i \in Jobs :
        /\ jobs'[i].key = jobs[i].key
        /\ jobs[i].key # Null => jobs'[i] = jobs[i]
  BY <1>2, <1>3, <1>7
<1>9. KeysAgree'
  BY <1>5, <1>8, KeysStay DEF Agreement, Unfinished
<1> QED BY <1>6, <1>9 DEF Agreement

-----------------------------------------------------------------------------
(* Rewriting rows *)

(* The row r becomes q without being settled, reopened or handed over; a   *)
(* ticket, of which the other tables hold nothing, may be settled.         *)
Keeps(r, q) ==
  /\ q.key = r.key /\ q.token = r.token
  /\ q.admission = r.admission /\ q.suppressed = r.suppressed
  /\ q.lease # "none" <=> q.status \in Claimed /\ ~q.admission
  /\ r.status \in Terminal => q.status = r.status
  /\ ~r.admission =>
       /\ q.status \in Terminal => r.status \in Terminal
       /\ r.status \in Waiting \cup Claimed => q.status \in Waiting \cup Claimed

LEMMA KeepsAgrees ==
  ASSUME TypeOK, Agreement, \A i \in Jobs : Keeps(jobs[i], jobs'[i]),
         UNCHANGED <<idem, deadLetters, outbox, conversations, settledBy>>
  PROVE  Agreement'
<1>1. ASSUME NEW i \in Jobs
      PROVE  RowAgrees(jobs'[i], deadLetters[i], outbox[i], i \in conversations,
                       settledBy[i])
  <2>1. /\ RowAgrees(jobs[i], deadLetters[i], outbox[i], i \in conversations, settledBy[i])
        /\ Keeps(jobs[i], jobs'[i])
    BY DEF Agreement, RowsAgree
  <2> QED BY <2>1 DEF RowAgrees, Keeps, Terminal
<1>2. RowsAgree'
  BY <1>1 DEF RowsAgree
<1>3. ASSUME NEW i \in Jobs
      PROVE  /\ jobs'[i].key = jobs[i].key
             /\ jobs[i].key # Null =>
                  /\ Unfinished(i) => Unfinished(i)'
                  /\ jobs[i].status \in Terminal => jobs'[i].status = jobs[i].status
  <2>1. RowAgrees(jobs[i], deadLetters[i], outbox[i], i \in conversations, settledBy[i])
    BY DEF Agreement, RowsAgree
  <2>2. jobs[i].key # Null => ~jobs[i].admission
    BY <2>1 DEF RowAgrees
  <2> QED BY <2>2 DEF Keeps, Unfinished
<1>4. KeysAgree'
  BY <1>3, KeysStay DEF Agreement
<1> QED BY <1>2, <1>4 DEF Agreement

(* What the invariant says of a row, for the steps that rewrite it.        *)
LEMMA RowFacts ==
  ASSUME TypeOK, Agreement, NEW i \in Jobs
  PROVE  /\ jobs[i] \in Row
         /\ jobs[i].lease # "none" <=> jobs[i].status \in Claimed /\ ~jobs[i].admission
         /\ jobs[i].admission => jobs[i].token = 0
BY DEF TypeOK, Agreement, RowsAgree, RowAgrees

LEMMA UntouchedKeeps ==
  ASSUME TypeOK, Agreement, NEW i \in Jobs, jobs'[i] = jobs[i]
  PROVE  Keeps(jobs[i], jobs'[i])
BY RowFacts DEF Keeps

LEMMA AdmissionAgrees ==
  ASSUME TypeOK, Agreement, NEW j \in Jobs,
         Admit(j) \/ RefuseAdmission(j) \/ CompleteAdmission(j) \/ CancelAdmission(j)
  PROVE  Agreement'
<1>1. /\ jobs[j].admission /\ jobs[j].status \in {"queued", "running"}
      /\ \E st \in {"running"} \cup Terminal : jobs' = [jobs EXCEPT ![j].status = st]
      /\ UNCHANGED <<idem, deadLetters, outbox, conversations, settledBy>>
  BY DEF Admit, RefuseAdmission, CompleteAdmission, CancelAdmission, Terminal
<1>2. PICK st \in {"running"} \cup Terminal : jobs' = [jobs EXCEPT ![j].status = st]
  BY <1>1
<1>3. Keeps(jobs[j], jobs'[j])
  <2>1. jobs'[j] = [jobs[j] EXCEPT !.status = st]
    BY <1>2 DEF TypeOK
  <2> QED BY <1>1, <2>1, RowFacts DEF Keeps, Row, Terminal
<1>4. \A i \in Jobs \ {j} : jobs'[i] = jobs[i]
  BY <1>2 DEF TypeOK
<1> QED BY <1>1, <1>3, <1>4, UntouchedKeeps, KeepsAgrees

LEMMA WorkerKeeps ==
  ASSUME TypeOK, Agreement, NEW j \in Jobs, NEW t \in 1 .. jobs[j].token,
         MarkRunning(j, t) \/ Heartbeat(j, t) \/ Retry(j, t)
  PROVE  Agreement'
<1>1. /\ jobs[j].status \in Claimed /\ ~jobs[j].admission
      /\ UNCHANGED <<idem, deadLetters, outbox, conversations, settledBy>>
  BY RowFacts DEF MarkRunning, Heartbeat, Retry, Fenced
<1>2. Keeps(jobs[j], jobs'[j])
  <2>1. CASE MarkRunning(j, t)
    <3>1. jobs'[j] = [jobs[j] EXCEPT !.status = "running"]
      BY <2>1 DEF MarkRunning, TypeOK
    <3> QED BY <1>1, <3>1, RowFacts DEF Keeps, Row, Claimed, Terminal
  <2>2. CASE Heartbeat(j, t)
    <3>1. jobs'[j] = [jobs[j] EXCEPT !.lease = "held"]
      BY <2>2 DEF Heartbeat, TypeOK
    <3> QED BY <1>1, <3>1, RowFacts DEF Keeps, Row
  <2>3. CASE Retry(j, t)
    <3>1. jobs'[j] = [jobs[j] EXCEPT !.status = "retry_wait", !.lease = "none",
                                     !.due = FALSE]
      BY <2>3 DEF Retry, TypeOK
    <3> QED BY <1>1, <3>1, RowFacts DEF Keeps, Row, Claimed, Waiting, Terminal
  <2> QED BY <2>1, <2>2, <2>3
<1>3. \A i \in Jobs \ {j} : jobs'[i] = jobs[i]
  BY DEF MarkRunning, Heartbeat, Retry, TypeOK
<1> QED BY <1>1, <1>2, <1>3, UntouchedKeeps, KeepsAgrees

LEMMA ProvisionAgrees ==
  ASSUME TypeOK, Agreement, NEW j \in Jobs, NEW s \in Sessions, ProvisionCronJob(j, s)
  PROVE  Agreement'
<1>1. ASSUME NEW i \in Jobs PROVE Keeps(jobs[i], jobs'[i])
  <2>1. jobs'[i] = IF i = j THEN [jobs[i] EXCEPT !.session = s, !.seq = 0,
                                                 !.provisioning = FALSE]
                   ELSE IF i \in InSession(s) THEN [jobs[i] EXCEPT !.seq = @ + 1]
                   ELSE jobs[i]
    BY DEF ProvisionCronJob
  <2>2. /\ jobs'[i].status = jobs[i].status /\ jobs'[i].lease = jobs[i].lease
        /\ jobs'[i].admission = jobs[i].admission /\ jobs'[i].token = jobs[i].token
        /\ jobs'[i].suppressed = jobs[i].suppressed /\ jobs'[i].key = jobs[i].key
    BY <2>1, RowFacts DEF Row
  <2> QED BY <2>2, RowFacts DEF Keeps
<1> QED BY <1>1, KeepsAgrees DEF ProvisionCronJob

LEMMA InitializeAgrees ==
  ASSUME TypeOK, Agreement, InitializeQueue
  PROVE  Agreement'
<1>1. ASSUME NEW i \in Jobs PROVE Keeps(jobs[i], jobs'[i])
  <2>1. jobs'[i] = RecoverExpired(RecoverAdmission(jobs[i]))
    BY DEF InitializeQueue
  <2>2. CASE jobs[i].admission
    <3>1. RecoverAdmission(jobs[i]) \in {jobs[i], [jobs[i] EXCEPT !.status = "dead_letter"]}
      BY DEF RecoverAdmission
    <3>2. RecoverAdmission(jobs[i]).lease = "none"
      BY <2>2, <3>1, RowFacts DEF Row
    <3>3. jobs'[i] = RecoverAdmission(jobs[i])
      BY <2>1, <3>2 DEF RecoverExpired
    <3>4. jobs[i].status \in Terminal => jobs'[i] = jobs[i]
      BY <3>3 DEF RecoverAdmission, Terminal
    <3>5. /\ jobs'[i].key = jobs[i].key /\ jobs'[i].token = jobs[i].token
          /\ jobs'[i].admission = jobs[i].admission
          /\ jobs'[i].suppressed = jobs[i].suppressed
      BY <3>1, <3>3, RowFacts DEF Row
    <3> QED BY <2>2, <3>2, <3>3, <3>4, <3>5 DEF Keeps
  <2>3. CASE ~jobs[i].admission
    <3>1. jobs'[i] = RecoverExpired(jobs[i])
      BY <2>1, <2>3 DEF RecoverAdmission
    <3> QED BY <2>3, <3>1, RowFacts
            DEF RecoverExpired, Keeps, Row, Claimed, Waiting, Terminal
  <2> QED BY <2>2, <2>3
<1> QED BY <1>1, KeepsAgrees DEF InitializeQueue

LEMMA TimeAgrees ==
  ASSUME TypeOK, Agreement, NEW j \in Jobs, LeaseLapses(j) \/ BackoffElapses(j)
  PROVE  Agreement'
<1>1. Keeps(jobs[j], jobs'[j])
  <2>1. CASE LeaseLapses(j)
    <3>1. jobs[j].lease = "held" /\ jobs'[j] = [jobs[j] EXCEPT !.lease = "lapsed"]
      BY <2>1 DEF LeaseLapses, TypeOK
    <3> QED BY <3>1, RowFacts DEF Keeps, Row
  <2>2. CASE BackoffElapses(j)
    <3>1. jobs'[j] = [jobs[j] EXCEPT !.due = TRUE]
      BY <2>2 DEF BackoffElapses, TypeOK
    <3> QED BY <3>1, RowFacts DEF Keeps, Row
  <2> QED BY <2>1, <2>2
<1>2. \A i \in Jobs \ {j} : jobs'[i] = jobs[i]
  BY DEF LeaseLapses, BackoffElapses, TypeOK
<1> QED BY <1>1, <1>2, UntouchedKeeps, KeepsAgrees DEF LeaseLapses, BackoffElapses

-----------------------------------------------------------------------------
(* Settling *)

LEMMA ClaimAgrees ==
  ASSUME TypeOK, Agreement, NEW x \in SUBSET Jobs, Claim(x)
  PROVE  Agreement'
<1> DEFINE D == Exhausted(x)
<1>1. \A i \in D :
        /\ i \in Jobs /\ jobs[i].status \in Waiting \cup Claimed /\ ~jobs[i].admission
  BY DEF Exhausted, Eligible
<1>2. \A i \in Jobs : Swept(x)[i] = IF i \in D THEN DeadLettered(jobs[i]) ELSE jobs[i]
  BY DEF Swept
<1>3. ASSUME NEW i \in D
      PROVE  LET q == DeadLettered(jobs[i]) IN
             /\ q.status = "dead_letter" /\ q.lease = "none"
             /\ q.admission = jobs[i].admission /\ q.token = jobs[i].token
             /\ q.suppressed = jobs[i].suppressed /\ q.key = jobs[i].key
  BY <1>1, RowFacts DEF DeadLettered, Row
<1>4. \A i \in Candidates(x) :
        /\ i \in Jobs /\ i \notin D
        /\ jobs[i].status \in Waiting \cup Claimed /\ ~jobs[i].admission
  BY RowFacts, QueueAssumption DEF Candidates, Exhausted, Eligible, Row
<1>5. ASSUME NEW i \in Candidates(x)
      PROVE  LET q == ClaimedRow(jobs[i]) IN
             /\ q.status = "claimed" /\ q.lease = "held"
             /\ q.admission = jobs[i].admission /\ q.token = jobs[i].token + 1
             /\ q.suppressed = jobs[i].suppressed /\ q.key = jobs[i].key
  BY <1>4, RowFacts DEF ClaimedRow, Row
<1>6. ASSUME NEW i \in Jobs
      PROVE  \/ i \in D /\ jobs'[i] = DeadLettered(jobs[i])
             \/ i \notin D /\ jobs'[i] = jobs[i]
             \/ i \in Candidates(x) /\ jobs'[i] = ClaimedRow(jobs[i])
  <2>1. CASE jobs' = Swept(x)
    BY <1>2, <2>1
  <2>2. ASSUME NEW j \in Candidates(x), jobs' = [Swept(x) EXCEPT ![j] = ClaimedRow(@)]
        PROVE  <1>6!2
    BY <1>2, <1>4, <2>2 DEF Swept
  <2> QED BY <2>1, <2>2 DEF Claim
<1>7. /\ deadLetters' = [i \in Jobs |-> IF i \in D THEN deadLetters[i] + 1 ELSE deadLetters[i]]
      /\ idem' = Buried(D)
      /\ UNCHANGED <<outbox, conversations, settledBy>>
  BY DEF Claim
<1>8. RowsAgree'
  <2>1. ASSUME NEW i \in Jobs
        PROVE  RowAgrees(jobs'[i], deadLetters'[i], outbox[i], i \in conversations,
                         settledBy[i])
    <3>1. RowAgrees(jobs[i], deadLetters[i], outbox[i], i \in conversations, settledBy[i])
      BY DEF Agreement, RowsAgree
    <3>2. CASE i \in D /\ jobs'[i] = DeadLettered(jobs[i])
      BY <1>1, <1>3, <1>7, <3>1, <3>2 DEF RowAgrees, Waiting, Claimed, Terminal
    <3>3. CASE i \notin D /\ jobs'[i] = jobs[i]
      BY <1>7, <3>1, <3>3
    <3>4. CASE i \in Candidates(x) /\ jobs'[i] = ClaimedRow(jobs[i])
      BY <1>4, <1>5, <1>7, <3>1, <3>4 DEF RowAgrees, Waiting, Claimed, Terminal
    <3> QED BY <1>6, <3>2, <3>3, <3>4
  <2> QED BY <1>7, <2>1 DEF RowsAgree
<1>9. ASSUME NEW i \in Jobs
      PROVE  /\ jobs'[i].key = jobs[i].key
             /\ i \in D => jobs'[i].status = "dead_letter"
             /\ i \notin D =>
                  /\ Unfinished(i) => Unfinished(i)'
                  /\ jobs[i].status \in Terminal => jobs'[i].status = jobs[i].status
  BY <1>3, <1>4, <1>5, <1>6 DEF Unfinished, Waiting, Claimed, Terminal
<1>10. KeysAgree'
  <2>1. D \in SUBSET Jobs
    BY <1>1
  <2> QED BY <1>7, <1>9, <2>1, KeysBuried DEF Agreement
<1> QED BY <1>8, <1>10 DEF Agreement

LEMMA DeadLetterAgrees ==
  ASSUME TypeOK, Agreement, NEW j \in Jobs, NEW t \in 1 .. jobs[j].token, DeadLetter(j, t)
  PROVE  Agreement'
<1>1. jobs[j].status \in Claimed /\ jobs[j].token = t /\ ~jobs[j].admission
  BY RowFacts DEF DeadLetter, Fenced
<1>2. /\ jobs'[j].status = "dead_letter" /\ jobs'[j].lease = "none"
      /\ jobs'[j].admission = jobs[j].admission /\ jobs'[j].token = jobs[j].token
      /\ jobs'[j].suppressed = jobs[j].suppressed /\ jobs'[j].key = jobs[j].key
  <2>1. jobs'[j] = DeadLettered(jobs[j])
    BY DEF DeadLetter, TypeOK
  <2> QED BY <2>1, RowFacts DEF DeadLettered, Row
<1>3. \A i \in Jobs \ {j} : jobs'[i] = jobs[i]
  BY DEF DeadLetter, TypeOK
<1>4. /\ deadLetters' = [deadLetters EXCEPT ![j] = @ + 1]
      /\ settledBy' = [settledBy EXCEPT ![j] = t]
      /\ idem' = Buried({j}) /\ UNCHANGED <<outbox, conversations>>
  BY DEF DeadLetter
<1>5. RowsAgree'
  <2>1. ASSUME NEW i \in Jobs
        PROVE  RowAgrees(jobs'[i], deadLetters'[i], outbox[i], i \in conversations,
                         settledBy'[i])
    <3>1. RowAgrees(jobs[i], deadLetters[i], outbox[i], i \in conversations, settledBy[i])
      BY DEF Agreement, RowsAgree
    <3>2. CASE i = j
      BY <1>1, <1>2, <1>4, <3>1, <3>2 DEF RowAgrees, Claimed, Terminal, TypeOK
    <3>3. CASE i # j
      BY <1>3, <1>4, <3>1, <3>3 DEF TypeOK
    <3> QED BY <3>2, <3>3
  <2> QED BY <1>4, <2>1 DEF RowsAgree
<1>6. ASSUME NEW i \in Jobs
      PROVE  /\ jobs'[i].key = jobs[i].key
             /\ i \in {j} => jobs'[i].status = "dead_letter"
             /\ i \notin {j} =>
                  /\ Unfinished(i) => Unfinished(i)'
                  /\ jobs[i].status \in Terminal => jobs'[i].status = jobs[i].status
  BY <1>2, <1>3 DEF Unfinished
<1>7. KeysAgree'
  BY <1>4, <1>6, KeysBuried DEF Agreement
<1> QED BY <1>5, <1>7 DEF Agreement

LEMMA CommitAgrees ==
  ASSUME TypeOK, Agreement, NEW j \in Jobs, NEW t \in 1 .. jobs[j].token,
         NEW suppress \in BOOLEAN, NEW conversation \in BOOLEAN,
         NEW chunks \in 1 .. MaxChunks,
         CommitResult(j, t, suppress, conversation, chunks)
  PROVE  Agreement'
<1>1. jobs[j].status \in Claimed /\ jobs[j].token = t /\ ~jobs[j].admission
  BY RowFacts DEF CommitResult, Fenced
<1>2. /\ jobs'[j].status = "completed" /\ jobs'[j].lease = "none"
      /\ jobs'[j].admission = jobs[j].admission /\ jobs'[j].token = jobs[j].token
      /\ jobs'[j].suppressed = suppress /\ jobs'[j].key = jobs[j].key
  <2>1. jobs'[j] = [jobs[j] EXCEPT !.status = "completed", !.lease = "none",
                                   !.suppressed = suppress]
    BY DEF CommitResult, TypeOK
  <2> QED BY <2>1, RowFacts DEF Row
<1>3. \A i \in Jobs \ {j} : jobs'[i] = jobs[i]
  BY DEF CommitResult, TypeOK
<1>4. /\ outbox' = IF suppress THEN outbox ELSE [outbox EXCEPT ![j] = @ + chunks]
      /\ conversations' = IF conversation THEN conversations \cup {j} ELSE conversations
      /\ settledBy' = [settledBy EXCEPT ![j] = t]
      /\ UNCHANGED deadLetters
  BY DEF CommitResult
<1>5. RowsAgree'
  <2>1. ASSUME NEW i \in Jobs
        PROVE  RowAgrees(jobs'[i], deadLetters[i], outbox'[i], i \in conversations',
                         settledBy'[i])
    <3>1. RowAgrees(jobs[i], deadLetters[i], outbox[i], i \in conversations, settledBy[i])
      BY DEF Agreement, RowsAgree
    <3>2. CASE i = j
      <4>1. outbox[j] = 0
        BY <1>1, <3>1, <3>2 DEF RowAgrees, Claimed
      <4>2. outbox'[j] = IF suppress THEN 0 ELSE chunks
        BY <1>4, <4>1 DEF TypeOK
      <4>3. settledBy'[j] = t
        BY <1>4 DEF TypeOK
      <4>4. deadLetters[j] = 0
        BY <1>1, <3>1, <3>2 DEF RowAgrees, Claimed
      <4> QED BY <1>1, <1>2, <3>2, <4>2, <4>3, <4>4, <3>1, QueueAssumption
              DEF RowAgrees, Claimed, Terminal
    <3>3. CASE i # j
      BY <1>3, <1>4, <3>1, <3>3 DEF TypeOK
    <3> QED BY <3>2, <3>3
  <2> QED BY <1>4, <2>1 DEF RowsAgree
<1>6. KeysAgree'
  <2> SUFFICES ASSUME NEW k \in Keys PROVE KeyAgrees(k)'
    BY DEF KeysAgree
  <2>1. KeyAgrees(k) /\ k # Null /\ idem[k] \in IdemRow
    BY QueueAssumption DEF Agreement, KeysAgree, TypeOK
  <2>2. \A i \in Jobs : jobs'[i].key = jobs[i].key
    BY <1>2, <1>3
  <2>3. CASE jobs[j].key = k
    <3>1. idem'[k] = [idem[k] EXCEPT !.status = "completed"]
      BY <2>1, <2>3 DEF CommitResult, TypeOK
    <3>2. idem'[k].job = idem[k].job /\ idem'[k].status = "completed"
      BY <2>1, <3>1 DEF IdemRow
    <3>3. idem[k].job = j
      BY <2>1, <2>3 DEF KeyAgrees
    <3> QED BY <1>2, <2>1, <2>2, <3>2, <3>3, QueueAssumption DEF KeyAgrees
  <2>4. CASE jobs[j].key # k
    <3>1. idem'[k] = idem[k]
      BY <2>4 DEF CommitResult, TypeOK
    <3>2. idem[k].job # j
      BY <2>1, <2>4 DEF KeyAgrees
    <3>3. idem[k].job \in Jobs \cup {Null}
      BY <2>1 DEF IdemRow
    <3> QED BY <1>3, <2>1, <2>2, <3>1, <3>2, <3>3 DEF KeyAgrees, Unfinished
  <2> QED BY <2>3, <2>4
<1> QED BY <1>5, <1>6 DEF Agreement

LEMMA NextAgrees == TypeOK /\ Agreement /\ [Next]_vars => Agreement'
<1> SUFFICES ASSUME TypeOK, Agreement, [Next]_vars PROVE Agreement'
  OBVIOUS
<1>1. CASE Accept
  BY <1>1, EnqueueAgrees, CreateAdmissionAgrees DEF Accept
<1>2. CASE Admission
  BY <1>2, AdmissionAgrees DEF Admission
<1>3. ASSUME NEW x \in SUBSET Jobs, Claim(x) PROVE Agreement'
  BY <1>3, ClaimAgrees
<1>4. CASE Work
  BY <1>4, WorkerKeeps, CommitAgrees, DeadLetterAgrees DEF Work, FailAttempt
<1>5. CASE Environment
  BY <1>5, InitializeAgrees, TimeAgrees, ProvisionAgrees DEF Environment
<1>6. CASE UNCHANGED vars
  <2>1. \A i \in Jobs : Keeps(jobs[i], jobs'[i])
    BY <1>6, UntouchedKeeps DEF vars
  <2> QED BY <1>6, <2>1, KeepsAgrees DEF vars
<1> QED BY <1>1, <1>2, <1>3, <1>4, <1>5, <1>6 DEF Next

-----------------------------------------------------------------------------
(* The tables agree in every reachable state: keys, dead letters,          *)
(* deliveries, adopted conversations and leases are those the status of    *)
(* each row calls for.                                                     *)
THEOREM TablesAgree == Spec => []LedgersAgree
<1>1. TypeOK /\ Agreement => LedgersAgree
  BY AgreementImplies
<1> QED BY <1>1, InitAgrees, NextAgrees, TypeCorrect, PTL DEF Spec

(* A row is settled by the newest claim of it or by nobody.                *)
THEOREM NewestSettles == Spec => []SettledByNewest
<1>1. TypeOK /\ Agreement => SettledByNewest
  BY AgreementImplies
<1> QED BY <1>1, InitAgrees, NextAgrees, TypeCorrect, PTL DEF Spec

-----------------------------------------------------------------------------
(* Settled rows *)

(* What SettledForever says of a step. *)
StaysSettled(j) ==
  jobs[j].status \in Terminal =>
    /\ jobs'[j].status = jobs[j].status
    /\ jobs'[j].suppressed = jobs[j].suppressed
    /\ outbox'[j] = outbox[j]
    /\ deadLetters'[j] = deadLetters[j]

LEMMA NextStaysSettled ==
  TypeOK /\ [Next]_vars => \A j \in Jobs : StaysSettled(j)
<1> SUFFICES ASSUME TypeOK, [Next]_vars, NEW i \in Jobs, jobs[i].status \in Terminal
             PROVE  /\ jobs'[i].status = jobs[i].status
                    /\ jobs'[i].suppressed = jobs[i].suppressed
                    /\ outbox'[i] = outbox[i]
                    /\ deadLetters'[i] = deadLetters[i]
  BY DEF StaysSettled
<1> DEFINE Same == /\ jobs'[i].status = jobs[i].status
                   /\ jobs'[i].suppressed = jobs[i].suppressed
                   /\ outbox'[i] = outbox[i]
                   /\ deadLetters'[i] = deadLetters[i]
<1>0. jobs[i] \in Row /\ jobs[i].status \notin {"absent", "queued"} \cup Waiting \cup Claimed
  BY DEF TypeOK, Terminal, Waiting, Claimed
<1>1. ASSUME NEW j \in Jobs, NEW s \in Sessions, NEW k \in Keys \cup {Null},
             NEW item \in BOOLEAN, Enqueue(j, s, k, item)
      PROVE  Same
  <2>1. j # i
    BY <1>0, <1>1 DEF Enqueue
  <2>2. jobs'[i] = Disowned(k)[i]
    BY <1>1, <2>1 DEF Enqueue, Disowned
  <2>3. jobs'[i].status = jobs[i].status /\ jobs'[i].suppressed = jobs[i].suppressed
    BY <1>0, <2>2 DEF Disowned, Row
  <2> QED BY <1>1, <2>3 DEF Enqueue
<1>2. ASSUME NEW j \in Jobs, NEW s \in Sessions, CreateAdmission(j, s) PROVE Same
  <2>1. j # i
    BY <1>0, <1>2 DEF CreateAdmission
  <2> QED BY <1>2, <2>1 DEF CreateAdmission, TypeOK
<1>3. ASSUME NEW j \in Jobs,
             Admit(j) \/ RefuseAdmission(j) \/ CompleteAdmission(j) \/ CancelAdmission(j)
      PROVE  Same
  <2>1. j # i
    BY <1>0, <1>3
       DEF Admit, RefuseAdmission, CompleteAdmission, CancelAdmission, Waiting, Claimed
  <2> QED BY <1>3, <2>1
          DEF Admit, RefuseAdmission, CompleteAdmission, CancelAdmission, TypeOK
<1>4. ASSUME NEW x \in SUBSET Jobs, Claim(x) PROVE Same
  <2>1. ~Eligible(i)
    BY <1>0 DEF Eligible
  <2>2. i \notin Exhausted(x) /\ i \notin Candidates(x)
    BY <2>1 DEF Exhausted, Candidates
  <2>3. Swept(x)[i] = jobs[i]
    BY <2>2 DEF Swept
  <2>4. jobs'[i] = jobs[i]
    BY <1>4, <2>2, <2>3 DEF Claim, Swept
  <2> QED BY <1>4, <2>2, <2>4 DEF Claim
<1>5. ASSUME NEW j \in Jobs, NEW t \in 1 .. jobs[j].token,
             \/ MarkRunning(j, t) \/ Heartbeat(j, t) \/ Retry(j, t) \/ DeadLetter(j, t)
             \/ \E suppress, conversation \in BOOLEAN, chunks \in 1 .. MaxChunks :
                  CommitResult(j, t, suppress, conversation, chunks)
      PROVE  Same
  <2>1. j # i
    BY <1>0, <1>5 DEF MarkRunning, Heartbeat, Retry, DeadLetter, CommitResult, Fenced
  <2>2. jobs'[i] = jobs[i]
    BY <1>5, <2>1 DEF MarkRunning, Heartbeat, Retry, DeadLetter, CommitResult, TypeOK
  <2>3. outbox'[i] = outbox[i] /\ deadLetters'[i] = deadLetters[i]
    BY <1>5, <2>1 DEF MarkRunning, Heartbeat, Retry, DeadLetter, CommitResult, TypeOK
  <2> QED BY <2>2, <2>3
<1>6. CASE InitializeQueue
  <2>1. jobs'[i] = jobs[i]
    BY <1>0, <1>6
       DEF InitializeQueue, RecoverExpired, RecoverAdmission, Waiting, Claimed
  <2> QED BY <1>6, <2>1 DEF InitializeQueue
<1>7. ASSUME NEW j \in Jobs, LeaseLapses(j) \/ BackoffElapses(j) PROVE Same
  <2>1. jobs'[i] \in {jobs[i], [jobs[i] EXCEPT !.lease = "lapsed"],
                      [jobs[i] EXCEPT !.due = TRUE]}
    BY <1>7 DEF LeaseLapses, BackoffElapses, TypeOK
  <2>2. jobs'[i].status = jobs[i].status /\ jobs'[i].suppressed = jobs[i].suppressed
    BY <1>0, <2>1 DEF Row
  <2> QED BY <1>7, <2>2 DEF LeaseLapses, BackoffElapses
<1>8. ASSUME NEW j \in Jobs, NEW s \in Sessions, ProvisionCronJob(j, s) PROVE Same
  <2>1. jobs'[i].status = jobs[i].status /\ jobs'[i].suppressed = jobs[i].suppressed
    BY <1>0, <1>8 DEF ProvisionCronJob, Row
  <2> QED BY <1>8, <2>1 DEF ProvisionCronJob
<1>9. CASE UNCHANGED vars
  BY <1>9 DEF vars
<1> QED
  BY <1>1, <1>2, <1>3, <1>4, <1>5, <1>6, <1>7, <1>8, <1>9
     DEF Next, Accept, Admission, Work, Environment, FailAttempt

(* No step reopens a settled row or adds to what it delivered.             *)
THEOREM SettledRowsStay == Spec => SettledForever
<1>1. TypeOK /\ [Next]_vars => [\A j \in Jobs : StaysSettled(j)]_vars
  BY NextStaysSettled
<1>2. TypeOK /\ [Next]_vars =>
        [\A j \in Jobs :
           jobs[j].status \in Terminal =>
             /\ jobs'[j].status = jobs[j].status
             /\ jobs'[j].suppressed = jobs[j].suppressed
             /\ outbox'[j] = outbox[j]
             /\ deadLetters'[j] = deadLetters[j]]_vars
  BY <1>1 DEF StaysSettled
<1> QED BY <1>2, TypeCorrect, PTL DEF Spec, SettledForever

-----------------------------------------------------------------------------
(* The ledger implements SessionFifo: a step that accepts a row is an      *)
(* arrival, every other step lets inputs progress in the order of their    *)
(* lanes.                                                                  *)

(* The mapping, row by row *)

LEMMA Phases ==
  ASSUME TypeOK, NEW i \in Jobs
  PROVE  /\ phase[i] \in Fifo!Phase
         /\ phase[i] = "unknown" <=> jobs[i].status = "absent"
         /\ phase[i] = "waiting" <=> jobs[i].status \in Waiting
         /\ phase[i] = "served" <=> jobs[i].status \in Claimed
         /\ phase[i] = "done" <=> jobs[i].status \in Terminal
<1>1. jobs[i].status \in Status
  BY DEF TypeOK, Row
<1> QED BY <1>1 DEF phase, Fifo!Phase, Status, Waiting, Claimed, Terminal

LEMMA PhasesNext ==
  ASSUME TypeOK', NEW i \in Jobs
  PROVE  /\ phase'[i] \in Fifo!Phase
         /\ phase'[i] = "unknown" <=> jobs'[i].status = "absent"
         /\ phase'[i] = "waiting" <=> jobs'[i].status \in Waiting
         /\ phase'[i] = "served" <=> jobs'[i].status \in Claimed
         /\ phase'[i] = "done" <=> jobs'[i].status \in Terminal
<1>1. jobs'[i].status \in Status
  BY DEF TypeOK, Row
<1> QED BY <1>1 DEF phase, Fifo!Phase, Status, Waiting, Claimed, Terminal

LEMMA InitMaps == Init => Fifo!Init
BY QueueAssumption
   DEF Init, NoRow, Fifo!Init, phase, lane, ahead, verdict, Unfinished, Waiting,
       Claimed

-----------------------------------------------------------------------------
(* Arrivals *)

(* A row that is added behind all rows of its session arrives in its lane. *)
LEMMA ArrivalMaps ==
  ASSUME TypeOK, TypeOK', NEW j \in Jobs, NEW s \in Sessions, Added(j, s)
  PROVE  Fifo!Arrive(j, s)
<1> USE DEF Added
<1>1. \A i \in InSession(s) : jobs[i].seq < jobs'[j].seq
  BY NextSequenceType
<1>2. \A i \in Jobs : jobs[i].seq \in Nat /\ jobs'[i].seq \in Nat
  BY DEF TypeOK, Row
<1>3. /\ ~Unfinished(j) /\ Unfinished(j)'
      /\ \A i \in Jobs \ {j} : Unfinished(i)' <=> Unfinished(i)
  BY DEF Unfinished, Waiting, Claimed
<1>4. \A i \in Jobs : Unfinished(i) => Present(i)
  BY DEF Unfinished, Present, Waiting, Claimed
<1>5. phase[j] = "unknown" /\ phase' = [phase EXCEPT ![j] = "waiting"]
  <2>1. phase[j] = "unknown" /\ phase'[j] = "waiting"
    BY Phases, PhasesNext DEF Waiting
  <2>2. ASSUME NEW i \in Jobs \ {j} PROVE phase'[i] = phase[i]
    BY Phases, PhasesNext DEF Fifo!Phase
  <2>3. phase = [i \in Jobs |-> phase[i]] /\ phase' = [i \in Jobs |-> phase'[i]]
    BY DEF phase
  <2> QED BY <2>1, <2>2, <2>3
<1>6. lane' = [lane EXCEPT ![j] = s]
  BY <1>3 DEF lane
<1>7. \A k \in Jobs : lane[k] = s <=> Unfinished(k) /\ jobs[k].session = s
  BY QueueAssumption DEF lane
<1>8. ahead' = [ahead EXCEPT ![j] = {k \in Jobs : lane[k] = s}]
  <2>1. ahead'[j] = {k \in Jobs : lane[k] = s}
    <3>1. \A k \in Jobs :
            Unfinished(k)' /\ jobs'[k].session = s /\ jobs'[k].seq < jobs'[j].seq
              <=> Unfinished(k) /\ jobs[k].session = s
      BY <1>1, <1>2, <1>3, <1>4 DEF InSession
    <3>2. ahead'[j] = {k \in Jobs : Unfinished(k)' /\ jobs'[k].session = s
                                      /\ jobs'[k].seq < jobs'[j].seq}
      BY <1>3 DEF ahead
    <3> QED BY <1>7, <3>1, <3>2
  <2>2. ASSUME NEW i \in Jobs \ {j} PROVE ahead'[i] = ahead[i]
    <3>1. CASE Unfinished(i)
      <4>1. \A k \in Jobs :
              Unfinished(k)' /\ jobs'[k].session = jobs'[i].session
                  /\ jobs'[k].seq < jobs'[i].seq
                <=> Unfinished(k) /\ jobs[k].session = jobs[i].session
                      /\ jobs[k].seq < jobs[i].seq
        BY <1>1, <1>2, <1>3, <1>4, <3>1 DEF InSession
      <4>2. /\ ahead[i] = {k \in Jobs : Unfinished(k) /\ jobs[k].session = jobs[i].session
                                          /\ jobs[k].seq < jobs[i].seq}
            /\ ahead'[i] = {k \in Jobs : Unfinished(k)' /\ jobs'[k].session = jobs'[i].session
                                           /\ jobs'[k].seq < jobs'[i].seq}
        BY <1>3, <3>1 DEF ahead
      <4> QED BY <4>1, <4>2
    <3>2. CASE ~Unfinished(i)
      BY <1>3, <3>2 DEF ahead
    <3> QED BY <3>1, <3>2
  <2> QED BY <2>1, <2>2 DEF ahead
<1>9. verdict' = verdict
  BY DEF verdict
<1> QED BY <1>5, <1>6, <1>8, <1>9 DEF Fifo!Arrive

-----------------------------------------------------------------------------
(* Progress *)

(* A step that adds no row, keeps settled rows and the order of the        *)
(* unfinished ones, and serves only rows that nothing unfinished precedes. *)
Progresses ==
  /\ \A i \in Jobs :
       /\ jobs'[i].status = "absent" <=> jobs[i].status = "absent"
       /\ jobs[i].status \in Terminal => jobs'[i].status = jobs[i].status
       /\ jobs'[i].status \in Claimed => jobs[i].status \in Claimed \/ Unblocked(jobs', i)
       /\ Unfinished(i) => jobs'[i].session = jobs[i].session
  /\ \A i, k \in Jobs :
       Unfinished(i) /\ Unfinished(k) /\ jobs[k].session = jobs[i].session =>
         (jobs'[k].seq < jobs'[i].seq <=> jobs[k].seq < jobs[i].seq)

LEMMA ProgressMaps ==
  ASSUME TypeOK, TypeOK', Progresses
  PROVE  Fifo!Progress
<1>1. \A i \in Jobs : jobs[i].status \in Status /\ jobs'[i].status \in Status
  BY DEF TypeOK, Row
<1>2. \A i \in Jobs : Unfinished(i)' => Unfinished(i)
  BY <1>1 DEF Progresses, Unfinished, Status, Waiting, Claimed, Terminal
<1>3. phase' \in [Jobs -> Fifo!Phase]
  <2>1. phase' = [i \in Jobs |-> phase'[i]]
    BY DEF phase
  <2> QED BY <2>1, PhasesNext
<1>4. ASSUME NEW i \in Jobs, phase'[i] # phase[i]
      PROVE  <<phase[i], phase'[i]>> \in Fifo!Moves
  <2>1. phase[i] # "unknown" /\ phase'[i] # "unknown" /\ phase[i] # "done"
    BY <1>4, Phases, PhasesNext DEF Progresses
  <2> QED BY <1>4, <2>1, Phases, PhasesNext DEF Fifo!Phase, Fifo!Moves
<1>5. ASSUME NEW i \in Jobs, NEW k \in ahead[i], phase[i] # "served", phase'[i] = "served"
      PROVE  phase'[k] = "done"
  <2>1. Unfinished(i) /\ k \in Jobs /\ Unfinished(k)
          /\ jobs[k].session = jobs[i].session /\ jobs[k].seq < jobs[i].seq
    BY DEF ahead
  <2>2. Unblocked(jobs', i)
    BY <1>5, Phases, PhasesNext DEF Progresses
  <2>3. jobs'[k].session = jobs'[i].session /\ jobs'[k].seq < jobs'[i].seq
    BY <2>1 DEF Progresses
  <2>4. jobs'[k].status # "absent"
    BY <2>1 DEF Progresses, Unfinished, Waiting, Claimed
  <2> QED BY <2>1, <2>2, <2>3, <2>4, PhasesNext DEF Unblocked
<1>6. \A i \in Jobs : Unfinished(i)' <=> Unfinished(i) /\ phase'[i] # "done"
  BY <1>1, <1>2, PhasesNext
     DEF Progresses, Unfinished, Status, Waiting, Claimed, Terminal
<1>7. lane' = [i \in Jobs |-> IF phase'[i] = "done" THEN Null ELSE lane[i]]
  <2>1. ASSUME NEW i \in Jobs
        PROVE  lane'[i] = IF phase'[i] = "done" THEN Null ELSE lane[i]
    BY <1>6 DEF lane, Progresses
  <2> QED BY <2>1 DEF lane
<1>8. ahead' = [i \in Jobs |-> IF phase'[i] = "done" THEN {}
                               ELSE {k \in ahead[i] : phase'[k] # "done"}]
  <2>1. ASSUME NEW i \in Jobs
        PROVE  ahead'[i] = IF phase'[i] = "done" THEN {}
                           ELSE {k \in ahead[i] : phase'[k] # "done"}
    <3>1. CASE Unfinished(i)'
      <4>1. Unfinished(i) /\ phase'[i] # "done"
        BY <1>6, <3>1
      <4>2. /\ ahead[i] = {k \in Jobs : Unfinished(k) /\ jobs[k].session = jobs[i].session
                                          /\ jobs[k].seq < jobs[i].seq}
            /\ ahead'[i] = {k \in Jobs : Unfinished(k)' /\ jobs'[k].session = jobs'[i].session
                                           /\ jobs'[k].seq < jobs'[i].seq}
        BY <3>1, <4>1 DEF ahead
      <4>3. \A k \in Jobs :
              Unfinished(k)' /\ jobs'[k].session = jobs'[i].session
                  /\ jobs'[k].seq < jobs'[i].seq
                <=> Unfinished(k) /\ jobs[k].session = jobs[i].session
                      /\ jobs[k].seq < jobs[i].seq /\ phase'[k] # "done"
        BY <1>6, <4>1 DEF Progresses
      <4> QED BY <4>1, <4>2, <4>3
    <3>2. CASE ~Unfinished(i)'
      <4>1. phase'[i] = "done" \/ ~Unfinished(i)
        BY <1>6, <3>2
      <4>2. ahead'[i] = {} /\ (~Unfinished(i) => ahead[i] = {})
        BY <3>2 DEF ahead
      <4> QED BY <4>1, <4>2
    <3> QED BY <3>1, <3>2
  <2> QED BY <2>1 DEF ahead
<1>9. verdict' \in [Jobs -> Fifo!Verdict]
  BY DEF verdict, Fifo!Verdict
<1>10. ASSUME NEW i \in Jobs
       PROVE  IF phase'[i] # phase[i] /\ phase'[i] = "done"
              THEN verdict'[i] # "none"
              ELSE verdict'[i] = verdict[i]
  <2>1. CASE phase'[i] # phase[i] /\ phase'[i] = "done"
    <3>1. jobs'[i].status \in Terminal
      BY <2>1, PhasesNext
    <3> QED BY <2>1, <3>1 DEF verdict, Terminal
  <2>2. CASE phase'[i] = phase[i]
    <3>1. CASE phase[i] = "done"
      <4>1. jobs'[i].status = jobs[i].status
        BY <3>1, Phases DEF Progresses
      <4> QED BY <2>2, <4>1 DEF verdict
    <3>2. CASE phase[i] # "done"
      <4>1. jobs[i].status \notin Terminal /\ jobs'[i].status \notin Terminal
        BY <2>2, <3>2, Phases, PhasesNext
      <4> QED BY <2>2, <4>1 DEF verdict, Terminal
    <3> QED BY <3>1, <3>2
  <2>3. CASE phase'[i] # "done"
    <3>1. jobs[i].status \notin Terminal /\ jobs'[i].status \notin Terminal
      BY <2>3, Phases, PhasesNext DEF Progresses
    <3> QED BY <2>3, <3>1 DEF verdict, Terminal
  <2> QED BY <2>1, <2>2, <2>3
<1> QED
  BY <1>3, <1>4, <1>5, <1>7, <1>8, <1>9, <1>10 DEF Fifo!Progress

-----------------------------------------------------------------------------
(* Every step *)

LEMMA KeepsOrderProgresses ==
  ASSUME KeepsOrder(jobs, jobs')
  PROVE  Progresses
BY DEF KeepsOrder, Progresses

(* A delivered job moves to the head of its new session; the unfinished    *)
(* rows it passes keep their order.                                        *)
LEMMA PromotionProgresses ==
  ASSUME TypeOK, NEW j \in Jobs, NEW s \in Sessions, ProvisionCronJob(j, s)
  PROVE  Progresses
<1>1. \A i \in Jobs :
        /\ jobs'[i].status = jobs[i].status
        /\ i # j => jobs'[i].session = jobs[i].session
        /\ i # j /\ i \in InSession(s) => jobs'[i].seq = jobs[i].seq + 1
        /\ i # j /\ i \notin InSession(s) => jobs'[i].seq = jobs[i].seq
  BY DEF ProvisionCronJob, TypeOK, Row
<1>2. \A i \in Jobs : jobs[i].seq \in Nat
  BY DEF TypeOK, Row
<1>3. ~Unfinished(j)
  BY DEF ProvisionCronJob, Unfinished, Waiting, Claimed
<1>4. ASSUME NEW a \in Jobs, NEW b \in Jobs, Unfinished(a), Unfinished(b),
             jobs[b].session = jobs[a].session
      PROVE  jobs'[b].seq < jobs'[a].seq <=> jobs[b].seq < jobs[a].seq
  <2>1. a # j /\ b # j
    BY <1>3, <1>4
  <2>2. Present(a) /\ Present(b)
    BY <1>4 DEF Unfinished, Present, Waiting, Claimed
  <2>3. a \in InSession(s) <=> b \in InSession(s)
    BY <1>4, <2>2 DEF InSession
  <2> QED BY <1>1, <1>2, <2>1, <2>3
<1> QED BY <1>1, <1>3, <1>4 DEF Progresses

LEMMA NextMaps == TypeOK /\ [Next]_vars => Fifo!Next
<1> SUFFICES ASSUME TypeOK, [Next]_vars PROVE Fifo!Next
  OBVIOUS
<1>1. TypeOK'
  BY NextType
<1>2. ASSUME NEW j \in Jobs, NEW s \in Sessions, Added(j, s)
      PROVE  Fifo!Next
  BY <1>1, <1>2, ArrivalMaps DEF Fifo!Next
<1>3. ASSUME NEW j \in Jobs, NEW s \in Sessions, ProvisionCronJob(j, s)
      PROVE  Fifo!Next
  BY <1>1, <1>3, PromotionProgresses, ProgressMaps DEF Fifo!Next
<1>4. CASE KeepsOrder(jobs, jobs')
  BY <1>1, <1>4, KeepsOrderProgresses, ProgressMaps DEF Fifo!Next
<1> QED BY <1>2, <1>3, <1>4, StepShape

(* Claims, leases, retries, admissions, promotions and restarts behave, as *)
(* seen from outside, like lanes that serve their inputs in order and give *)
(* each of them one final verdict.                                         *)
THEOREM LedgerImplementsFifo == Spec => ImplementsSessionFifo
<1>1. TypeOK /\ [Next]_vars => [Fifo!Next]_(Fifo!vars)
  BY NextMaps
<1> QED BY InitMaps, <1>1, TypeCorrect, PTL DEF Spec, Fifo!Spec, ImplementsSessionFifo

=============================================================================
