------------------------------- MODULE WorkProofs -------------------------------
(***************************************************************************)
(* Proofs of what Work promises, for any kinds of rows, any issues and any *)
(* conversations, and any number of crashes and troubles.                  *)
(***************************************************************************)
EXTENDS Work, TLAPS

-----------------------------------------------------------------------------
(* The work of a row *)

WorkOf == [step : Worked!Steps, token : Nat, aborted : BOOLEAN,
           tell : {"never", "settled", "always"},
           end : {"none", "answered", "failed", "hopeless"}, thread : Nat, prompt : Nat]

RowTypes ==
  /\ jobs \in [{Job} -> Worked!Q!Row] /\ jobs[Job].admission = FALSE
  /\ poller \in {"down", "cleaned", "up"}
  /\ setup \in Setups
  /\ saved \in [thread : Nat, prompt : Nat]
  /\ work \in WorkOf
  /\ prompt \in Nat \ {0} /\ threads \in Nat /\ unsaved \in Nat
  /\ told \in BOOLEAN /\ untold \in BOOLEAN

(* Who is at work on the row has claimed it, and nobody has since; who     *)
(* only tells the source remembers how the attempt ended.                  *)
RowHeld ==
  /\ poller # "up" => work.step = "idle"
  /\ work.step \notin {"idle", "tell"} =>
       jobs[Job].status \in Worked!Q!Claimed /\ jobs[Job].token = work.token
  /\ work.step = "tell" => work.end \in {"answered", "failed", "hopeless"}

(* No step before the container has lost a thread that was made, unless it *)
(* is counted or the row is at its end.                                    *)
ThreadsCounted ==
  /\ threads <= 1 + unsaved
  /\ saved.thread = 0 /\ threads > unsaved =>
       work.step \in {"save", "hopeless"} \/ jobs[Job].status \in Worked!Q!Terminal

(* What an agent is started with is what the row remembers. *)
RunsRemembered ==
  /\ \A a \in launches :
       a = [session |-> IF Worked!NeedsThread THEN saved.thread ELSE 0,
            prompt |-> saved.prompt]
  /\ launches # {} => saved.prompt # 0 /\ (Worked!NeedsThread => saved.thread # 0)
  /\ answer # Null =>
       answer = saved.thread /\ (Worked!NeedsThread => saved.thread # 0)

(* The copy a worker has of the payload agrees with the payload: a step    *)
(* behind for what is about to be written, and complete from the start of  *)
(* the container on.                                                       *)
CopyAgrees ==
  /\ work.step \in {"begin", "capture"} =>
       work.thread = saved.thread /\ work.prompt = saved.prompt
  /\ work.step = "freeze" =>
       /\ work.thread = saved.thread
       /\ work.prompt # 0 /\ saved.prompt \in {0, work.prompt}
  /\ work.step \in {"thread", "save", "start", "booting"} =>
       work.prompt = saved.prompt /\ saved.prompt # 0
  /\ work.step = "thread" =>
       Worked!NeedsThread /\ saved.thread = 0 /\ work.thread = 0
  /\ work.step = "save" =>
       /\ Worked!NeedsThread /\ saved.thread = 0
       /\ work.thread = threads /\ threads > 0
  /\ work.step \in {"start", "booting", "running", "answered"} =>
       /\ work.thread = saved.thread
       /\ Worked!NeedsThread => saved.thread # 0
  /\ work.step \in {"capture", "freeze", "thread", "save", "start", "booting"} =>
       ~setup.handler

(* A source is told, or will be, or nobody tells it. *)
TellingDue ==
  /\ SourceTold
  /\ setup.feature # "none"
       /\ work.step \notin {"idle", "begin", "capture", "freeze", "tell"}
       => work.tell # "never" \/ untold

RowInv ==
  /\ RowTypes /\ RowHeld /\ ThreadsCounted /\ RunsRemembered /\ CopyAgrees /\ TellingDue

LEMMA RowFields ==
  ASSUME jobs \in [{Job} -> Worked!Q!Row]
  PROVE  /\ jobs[Job].status \in Worked!Q!Status /\ jobs[Job].token \in Nat
         /\ jobs[Job].attempts \in Nat
         /\ Job \in DOMAIN jobs /\ DOMAIN jobs = {Job}
BY DEF Worked!Q!Row

LEMMA RowTerms ==
  /\ Worked!Q!Claimed = {"claimed", "running"}
  /\ Worked!Q!Terminal = {"completed", "dead_letter"}
BY DEF Worked!Q!Claimed, Worked!Q!Terminal

(* What the transactions of the ledger make of the row. *)

LEMMA RowReceived ==
  ASSUME RowTypes, Worked!Q!Enqueue(Job, Session, Null, FALSE)
  PROVE  /\ jobs' \in [{Job} -> Worked!Q!Row] /\ jobs'[Job].admission = FALSE
         /\ jobs[Job].status = "absent" /\ jobs'[Job].status = "queued"
<1> DEFINE blank == Worked!Q!NoRow
<1>1. jobs \in [{Job} -> Worked!Q!Row] /\ jobs[Job].status = "absent"
  BY DEF RowTypes, Worked!Q!Enqueue
<1>2. PICK n \in Worked!Q!NextSequence(Session) :
        jobs' = [Worked!Q!Disowned(Null) EXCEPT ![Job] =
                   [blank EXCEPT !.status = "queued", !.session = Session, !.seq = n,
                                 !.key = Null, !.provisioning = FALSE]]
  BY DEF Worked!Q!Enqueue
<1>3. n \in Nat
  <2>1. \A j \in {Job} : jobs[j].seq + 1 \in Nat
    BY <1>1 DEF Worked!Q!Row
  <2> QED BY <1>2, <2>1 DEF Worked!Q!NextSequence, Worked!Q!InSession, Worked!Jobs
<1>4. Worked!Q!Disowned(Null) = jobs
  BY <1>1 DEF Worked!Q!Disowned, Worked!Jobs
<1> DEFINE row == [blank EXCEPT !.status = "queued", !.session = Session, !.seq = n,
                                !.key = Null, !.provisioning = FALSE]
<1>5. /\ row \in Worked!Q!Row /\ row.admission = FALSE /\ row.status = "queued"
  BY <1>3 DEF Worked!Q!Row, Worked!Q!NoRow, Worked!Q!Status, Worked!Q!Waiting, Worked!Sessions
<1>6. jobs' = [jobs EXCEPT ![Job] = row]
  BY <1>2, <1>4
<1> HIDE DEF row
<1> QED BY <1>1, <1>5, <1>6

LEMMA RowClaims ==
  ASSUME RowTypes, NEW busy, Worked!Q!Claim(IF busy THEN {} ELSE {Job})
  PROVE  /\ jobs' \in [{Job} -> Worked!Q!Row] /\ jobs'[Job].admission = FALSE
         /\ busy
         /\ jobs[Job].status \notin Worked!Q!Terminal
         /\ \/ jobs'[Job].status = "dead_letter" /\ jobs'[Job].token = jobs[Job].token
            \/ jobs'[Job].status = "claimed" /\ jobs'[Job].token = jobs[Job].token + 1
<1> DEFINE X == IF busy THEN {} ELSE {Job}
<1>1. jobs \in [{Job} -> Worked!Q!Row] /\ jobs[Job].admission = FALSE
  BY DEF RowTypes
<1>2. Worked!Q!Exhausted(X) \cup Worked!Q!Candidates(X) # {}
  BY DEF Worked!Q!Claim
<1>3. PICK j \in {Job} \ X : Worked!Q!Eligible(j)
  BY <1>2 DEF Worked!Q!Exhausted, Worked!Q!Candidates, Worked!Jobs
<1>4. j = Job /\ busy /\ Worked!Q!Eligible(Job)
  BY <1>3
<1>5. jobs[Job].status \notin Worked!Q!Terminal
  BY <1>4 DEF Worked!Q!Eligible, Worked!Q!Terminal, Worked!Q!Waiting, Worked!Q!Claimed
<1> DEFINE buried == Worked!Q!DeadLettered(jobs[Job])
           held == Worked!Q!ClaimedRow(jobs[Job])
<1>6. /\ buried \in Worked!Q!Row /\ buried.admission = FALSE
      /\ buried.status = "dead_letter" /\ buried.token = jobs[Job].token
  BY <1>1 DEF Worked!Q!DeadLettered, Worked!Q!Row, Worked!Q!Status, Worked!Q!Terminal
<1>7. /\ held \in Worked!Q!Row /\ held.admission = FALSE
      /\ held.status = "claimed" /\ held.token = jobs[Job].token + 1
  <2> DEFINE row == [jobs[Job] EXCEPT !.status = "claimed", !.lease = "held"]
             named == [row EXCEPT !.token = @ + 1]
  <2>1. jobs[Job] \in Worked!Q!Row /\ jobs[Job].token \in Nat /\ jobs[Job].attempts \in Nat
    BY <1>1, RowFields
  <2>2. /\ row \in Worked!Q!Row /\ row.admission = FALSE /\ row.status = "claimed"
        /\ row.token = jobs[Job].token /\ row.attempts = jobs[Job].attempts
    BY <1>1 DEF Worked!Q!Row, Worked!Q!Status, Worked!Q!Claimed
  <2>3. held = [named EXCEPT !.attempts = @ + 1]
    BY <2>1 DEF Worked!Q!ClaimedRow, Worked!Q!Row
  <2> HIDE DEF row, held
  <2>4. /\ named \in Worked!Q!Row /\ named.admission = FALSE /\ named.status = "claimed"
        /\ named.token = jobs[Job].token + 1 /\ named.attempts \in Nat
    BY <2>1, <2>2 DEF Worked!Q!Row
  <2> HIDE DEF named
  <2> QED BY <2>3, <2>4 DEF Worked!Q!Row
<1>8. CASE Job \in Worked!Q!Exhausted(X)
  <2>1. Worked!Q!Candidates(X) = {}
    <3>1. jobs[Job].attempts \in Nat /\ MaxAttempts \in Nat
      BY <1>1, RowFields, WorkAssumption
    <3> QED BY <1>8, <3>1 DEF Worked!Q!Exhausted, Worked!Q!Candidates, Worked!Jobs
  <2>2. jobs' = [j_1 \in {Job} |-> buried]
    BY <1>8, <2>1 DEF Worked!Q!Claim, Worked!Q!Swept, Worked!Jobs
  <2> HIDE DEF buried
  <2> QED BY <1>4, <1>5, <1>6, <2>2
<1>9. CASE Job \notin Worked!Q!Exhausted(X)
  <2>1. Job \in Worked!Q!Candidates(X) /\ Worked!Q!Candidates(X) \subseteq {Job}
    BY <1>2, <1>9 DEF Worked!Q!Exhausted, Worked!Q!Candidates, Worked!Jobs
  <2>2. Worked!Q!Swept(X) = jobs
    BY <1>1, <1>9 DEF Worked!Q!Swept, Worked!Jobs
  <2>3. jobs' = [jobs EXCEPT ![Job] = held]
    BY <1>1, <2>1, <2>2 DEF Worked!Q!Claim
  <2> HIDE DEF held
  <2> QED BY <1>1, <1>4, <1>5, <1>7, <2>3
<1> QED BY <1>8, <1>9

(* A write of the row that keeps its type. *)
RowBecomes(status) ==
  /\ jobs' \in [{Job} -> Worked!Q!Row] /\ jobs'[Job].admission = FALSE
  /\ jobs'[Job].status = status /\ jobs'[Job].token = jobs[Job].token

LEMMA RowRuns ==
  ASSUME RowTypes, NEW t, Worked!Q!MarkRunning(Job, t)
  PROVE  RowBecomes("running") /\ Worked!Q!Fenced(Job, t)
<1> DEFINE row == [jobs[Job] EXCEPT !.status = "running"]
<1>1. jobs \in [{Job} -> Worked!Q!Row] /\ jobs[Job].admission = FALSE
  BY DEF RowTypes
<1>2. /\ row \in Worked!Q!Row /\ row.admission = FALSE /\ row.status = "running"
      /\ row.token = jobs[Job].token
  BY <1>1 DEF Worked!Q!Row, Worked!Q!Status, Worked!Q!Claimed
<1>3. jobs' = [jobs EXCEPT ![Job] = row] /\ Worked!Q!Fenced(Job, t)
  BY <1>1 DEF Worked!Q!MarkRunning
<1> HIDE DEF row
<1> QED BY <1>1, <1>2, <1>3 DEF RowBecomes

LEMMA RowRenewed ==
  ASSUME RowTypes, NEW t, Worked!Q!Heartbeat(Job, t)
  PROVE  RowBecomes(jobs[Job].status) /\ Worked!Q!Fenced(Job, t)
<1> DEFINE row == [jobs[Job] EXCEPT !.lease = "held"]
<1>1. jobs \in [{Job} -> Worked!Q!Row] /\ jobs[Job].admission = FALSE
  BY DEF RowTypes
<1>2. /\ row \in Worked!Q!Row /\ row.admission = FALSE /\ row.status = jobs[Job].status
      /\ row.token = jobs[Job].token
  BY <1>1 DEF Worked!Q!Row
<1>3. jobs' = [jobs EXCEPT ![Job] = row] /\ Worked!Q!Fenced(Job, t)
  BY <1>1 DEF Worked!Q!Heartbeat
<1> HIDE DEF row
<1> QED BY <1>1, <1>2, <1>3 DEF RowBecomes

LEMMA RowTimed ==
  ASSUME RowTypes, Worked!Q!LeaseLapses(Job) \/ Worked!Q!BackoffElapses(Job)
  PROVE  RowBecomes(jobs[Job].status)
<1>1. jobs \in [{Job} -> Worked!Q!Row] /\ jobs[Job].admission = FALSE
  BY DEF RowTypes
<1>2. CASE Worked!Q!LeaseLapses(Job)
  <2> DEFINE row == [jobs[Job] EXCEPT !.lease = "lapsed"]
  <2>1. /\ row \in Worked!Q!Row /\ row.admission = FALSE /\ row.status = jobs[Job].status
        /\ row.token = jobs[Job].token
    BY <1>1 DEF Worked!Q!Row
  <2>2. jobs' = [jobs EXCEPT ![Job] = row]
    BY <1>1, <1>2 DEF Worked!Q!LeaseLapses
  <2> HIDE DEF row
  <2> QED BY <1>1, <2>1, <2>2 DEF RowBecomes
<1>3. CASE Worked!Q!BackoffElapses(Job)
  <2> DEFINE row == [jobs[Job] EXCEPT !.due = TRUE]
  <2>1. /\ row \in Worked!Q!Row /\ row.admission = FALSE /\ row.status = jobs[Job].status
        /\ row.token = jobs[Job].token
    BY <1>1 DEF Worked!Q!Row
  <2>2. jobs' = [jobs EXCEPT ![Job] = row]
    BY <1>1, <1>3 DEF Worked!Q!BackoffElapses
  <2> HIDE DEF row
  <2> QED BY <1>1, <2>1, <2>2 DEF RowBecomes
<1> QED BY <1>2, <1>3

LEMMA RowCommitted ==
  ASSUME RowTypes, NEW t, NEW suppress \in BOOLEAN, NEW conversation \in BOOLEAN,
         Worked!Q!CommitResult(Job, t, suppress, conversation, 1)
  PROVE  RowBecomes("completed") /\ Worked!Q!Fenced(Job, t)
<1> DEFINE done == [jobs[Job] EXCEPT !.status = "completed", !.lease = "none"]
           row == [done EXCEPT !.suppressed = suppress]
<1>1. jobs \in [{Job} -> Worked!Q!Row] /\ jobs[Job].admission = FALSE
  BY DEF RowTypes
<1>2. /\ done \in Worked!Q!Row /\ done.admission = FALSE /\ done.status = "completed"
      /\ done.token = jobs[Job].token
  BY <1>1 DEF Worked!Q!Row, Worked!Q!Status, Worked!Q!Terminal
<1>3. jobs' = [jobs EXCEPT ![Job] = row] /\ Worked!Q!Fenced(Job, t)
  <2>1. jobs' = [jobs EXCEPT ![Job].status = "completed", ![Job].lease = "none",
                             ![Job].suppressed = suppress]
    BY DEF Worked!Q!CommitResult
  <2>2. jobs' = [jobs EXCEPT ![Job] = row]
    BY <1>1, <2>1
  <2> QED BY <2>2 DEF Worked!Q!CommitResult
<1> HIDE DEF done
<1>4. /\ row \in Worked!Q!Row /\ row.admission = FALSE /\ row.status = "completed"
      /\ row.token = jobs[Job].token
  BY <1>2 DEF Worked!Q!Row
<1> HIDE DEF row
<1> QED BY <1>1, <1>3, <1>4 DEF RowBecomes

LEMMA RowDeadLettered ==
  ASSUME RowTypes, NEW t, Worked!Q!DeadLetter(Job, t)
  PROVE  RowBecomes("dead_letter") /\ Worked!Q!Fenced(Job, t)
<1> DEFINE row == Worked!Q!DeadLettered(jobs[Job])
<1>1. jobs \in [{Job} -> Worked!Q!Row] /\ jobs[Job].admission = FALSE
  BY DEF RowTypes
<1>2. /\ row \in Worked!Q!Row /\ row.admission = FALSE /\ row.status = "dead_letter"
      /\ row.token = jobs[Job].token
  BY <1>1 DEF Worked!Q!DeadLettered, Worked!Q!Row, Worked!Q!Status, Worked!Q!Terminal
<1>3. jobs' = [jobs EXCEPT ![Job] = row] /\ Worked!Q!Fenced(Job, t)
  BY <1>1 DEF Worked!Q!DeadLetter
<1> HIDE DEF row
<1> QED BY <1>1, <1>2, <1>3 DEF RowBecomes

LEMMA RowFailed ==
  ASSUME RowTypes, NEW t, Worked!Q!FailAttempt(Job, t)
  PROVE  /\ RowBecomes("retry_wait") \/ RowBecomes("dead_letter")
         /\ Worked!Q!Fenced(Job, t)
<1>1. jobs \in [{Job} -> Worked!Q!Row] /\ jobs[Job].admission = FALSE
  BY DEF RowTypes
<1>2. CASE Worked!Q!Retry(Job, t)
  <2> DEFINE row == [jobs[Job] EXCEPT !.status = "retry_wait", !.lease = "none",
                                      !.due = FALSE]
  <2>1. /\ row \in Worked!Q!Row /\ row.admission = FALSE /\ row.status = "retry_wait"
        /\ row.token = jobs[Job].token
    BY <1>1 DEF Worked!Q!Row, Worked!Q!Status, Worked!Q!Waiting
  <2>2. jobs' = [jobs EXCEPT ![Job] = row] /\ Worked!Q!Fenced(Job, t)
    <3>1. jobs' = [jobs EXCEPT ![Job].status = "retry_wait", ![Job].lease = "none",
                               ![Job].due = FALSE]
      BY <1>2 DEF Worked!Q!Retry
    <3>2. jobs' = [jobs EXCEPT ![Job] = row]
      BY <1>1, <3>1
    <3> QED BY <1>2, <3>2 DEF Worked!Q!Retry
  <2> HIDE DEF row
  <2> QED BY <1>1, <2>1, <2>2 DEF RowBecomes
<1>3. CASE Worked!Q!DeadLetter(Job, t)
  BY <1>3, RowDeadLettered
<1> QED BY <1>2, <1>3 DEF Worked!Q!FailAttempt

LEMMA RowRecovered ==
  ASSUME RowTypes, Worked!Q!InitializeQueue
  PROVE  \/ RowBecomes(jobs[Job].status)
         \/ RowBecomes("retry_wait") /\ jobs[Job].status \in Worked!Q!Claimed
<1> DEFINE row == Worked!Q!RecoverExpired(Worked!Q!RecoverAdmission(jobs[Job]))
           again == [jobs[Job] EXCEPT !.status = "retry_wait", !.lease = "none",
                                      !.due = TRUE]
<1>1. jobs \in [{Job} -> Worked!Q!Row] /\ jobs[Job].admission = FALSE
  BY DEF RowTypes
<1>2. jobs' = [j \in {Job} |-> row]
  BY DEF Worked!Q!InitializeQueue, Worked!Jobs
<1>3. Worked!Q!RecoverAdmission(jobs[Job]) = jobs[Job]
  BY <1>1 DEF Worked!Q!RecoverAdmission
<1>4. \/ row = jobs[Job]
      \/ row = again /\ jobs[Job].status \in Worked!Q!Claimed
  BY <1>3 DEF Worked!Q!RecoverExpired
<1>5. /\ again \in Worked!Q!Row /\ again.admission = FALSE /\ again.status = "retry_wait"
      /\ again.token = jobs[Job].token
  BY <1>1 DEF Worked!Q!Row, Worked!Q!Status, Worked!Q!Waiting
<1> HIDE DEF row, again
<1> QED BY <1>1, <1>2, <1>4, <1>5 DEF RowBecomes

(* The steps of a worker that leave the ledger alone. *)

LEMMA BeginKeepsRow == RowInv /\ Worked!Begin => RowInv'
<1> SUFFICES ASSUME RowInv, Worked!Begin PROVE RowInv'
  OBVIOUS
<1> USE DEF RowInv, RowTypes, RowHeld, Worked!Begin, Worked!At, Worked!Goto,
        Worked!Trouble, Worked!NeedsThread, Worked!TerminalSource, Worked!ledger,
        Worked!container, Worked!world, Worked!history
<1>1. RowTypes'
  <2>1. untold' \in BOOLEAN
    BY Zenon
  <2>2. work' \in WorkOf
    BY DEF WorkOf, Worked!Steps
  <2> QED BY <2>1, <2>2
<1>2. RowHeld'
  BY DEF WorkOf
<1>3. ThreadsCounted'
  BY DEF ThreadsCounted, WorkOf
<1>4. RunsRemembered'
  BY DEF RunsRemembered, CopyAgrees, WorkOf
<1>5. CopyAgrees'
  BY DEF CopyAgrees, ThreadsCounted, RunsRemembered, WorkOf
<1>6. TellingDue'
  BY DEF TellingDue, SourceTold, Worked!SourceTold, WorkOf, CopyAgrees
<1> QED BY <1>1, <1>2, <1>3, <1>4, <1>5, <1>6

LEMMA CaptureKeepsRow == RowInv /\ Worked!Capture => RowInv'
<1> SUFFICES ASSUME RowInv, Worked!Capture PROVE RowInv'
  OBVIOUS
<1> USE DEF RowInv, RowTypes, RowHeld, Worked!Capture, Worked!Frozen, Worked!At,
        Worked!Goto, Worked!Trouble, Worked!NeedsThread, Worked!TerminalSource,
        Worked!ledger, Worked!container, Worked!world, Worked!history
<1>1. RowTypes'
  BY DEF WorkOf, Worked!Steps
<1>2. RowHeld'
  BY DEF WorkOf
<1>3. ThreadsCounted'
  BY DEF ThreadsCounted, WorkOf
<1>4. RunsRemembered'
  BY DEF RunsRemembered, CopyAgrees, WorkOf
<1>5. CopyAgrees'
  BY DEF CopyAgrees, ThreadsCounted, RunsRemembered, WorkOf
<1>6. TellingDue'
  BY DEF TellingDue, SourceTold, Worked!SourceTold, WorkOf, CopyAgrees
<1> QED BY <1>1, <1>2, <1>3, <1>4, <1>5, <1>6

LEMMA FreezeKeepsRow == RowInv /\ Worked!Freeze => RowInv'
<1> SUFFICES ASSUME RowInv, Worked!Freeze PROVE RowInv'
  OBVIOUS
<1> USE DEF RowInv, RowTypes, RowHeld, Worked!Freeze, Worked!Q!Fenced, Worked!At,
        Worked!Goto, Worked!Trouble, Worked!NeedsThread, Worked!TerminalSource,
        Worked!ledger, Worked!container, Worked!world, Worked!history
<1>1. RowTypes'
  BY DEF WorkOf, Worked!Steps
<1>2. RowHeld'
  BY DEF WorkOf
<1>3. ThreadsCounted'
  BY DEF ThreadsCounted, WorkOf
<1>4. RunsRemembered'
  BY DEF RunsRemembered, CopyAgrees, WorkOf
<1>5. CopyAgrees'
  <2>1. CASE work'.step = "failed"
    BY <2>1 DEF CopyAgrees, WorkOf
  <2>2. CASE work'.step # "failed"
    <3>1. /\ work.prompt # 0 /\ work.thread = saved.thread /\ ~setup.handler
      BY DEF CopyAgrees
    <3>2. saved' = [saved EXCEPT !.prompt = work.prompt]
      BY <2>2 DEF WorkOf
    <3>3. work'.step = IF Worked!NeedsThread /\ work.thread = 0 THEN "thread" ELSE "start"
      BY <2>2 DEF WorkOf
    <3>4. work'.thread = work.thread /\ work'.prompt = work.prompt /\ UNCHANGED setup
      BY DEF WorkOf
    <3>5. saved'.thread = saved.thread /\ saved'.prompt = work.prompt
      BY <3>2
    <3> QED BY <3>1, <3>3, <3>4, <3>5 DEF CopyAgrees
  <2> QED BY <2>1, <2>2
<1>6. TellingDue'
  BY DEF TellingDue, SourceTold, Worked!SourceTold, WorkOf, CopyAgrees
<1> QED BY <1>1, <1>2, <1>3, <1>4, <1>5, <1>6

LEMMA CreateCronThreadKeepsRow == RowInv /\ Worked!CreateCronThread => RowInv'
<1> SUFFICES ASSUME RowInv, Worked!CreateCronThread PROVE RowInv'
  OBVIOUS
<1> USE DEF RowInv, RowTypes, RowHeld, Worked!CreateCronThread, Worked!LostAnswer,
        Worked!At, Worked!Goto, Worked!Trouble, Worked!NeedsThread,
        Worked!TerminalSource, Worked!ledger, Worked!container, Worked!world,
        Worked!history
<1> DEFINE Made(step, n) ==
             /\ threads' = n /\ (n = threads + 1 => step \in {"save", "hopeless"})
             /\ step = "save" => n = threads + 1
             /\ work' = [work EXCEPT !.step = step,
                                     !.thread = IF step = "save" THEN n ELSE work.thread]
<1>1. PICK step \in {"save", "failed", "hopeless"}, n \in {threads, threads + 1} :
        Made(step, n)
  <2>1. CASE threads' = threads + 1
             /\ work' = [work EXCEPT !.step = "save", !.thread = threads + 1]
    BY <2>1
  <2>2. ASSUME NEW step \in {"failed", "hopeless"}, threads' \in {threads, threads + 1},
               threads' # threads => step = "hopeless",
               work' = [work EXCEPT !.step = step]
        PROVE  Made(step, threads')
    <3>1. work' = [work EXCEPT !.step = step, !.thread = work.thread]
      BY <2>2 DEF WorkOf
    <3>2. threads # threads + 1
      OBVIOUS
    <3> QED BY <2>2, <3>1, <3>2
  <2> QED BY <2>1, <2>2
<1>2. threads \in Nat /\ threads' \in Nat /\ threads <= unsaved
  BY <1>1 DEF ThreadsCounted, CopyAgrees, Worked!Q!Claimed, Worked!Q!Terminal
<1>3. /\ work' \in WorkOf /\ work'.token = work.token /\ work'.tell = work.tell
      /\ work'.prompt = work.prompt /\ work'.end = work.end /\ work'.step = step
      /\ step = "save" => work'.thread = threads' /\ threads' = threads + 1
  BY <1>1, <1>2 DEF WorkOf, Worked!Steps
<1>4. RowTypes' /\ RowHeld'
  BY <1>2, <1>3
<1>5. ThreadsCounted'
  BY <1>1, <1>2, <1>3 DEF ThreadsCounted
<1>6. RunsRemembered'
  BY <1>3 DEF RunsRemembered
<1>7. CopyAgrees'
  BY <1>2, <1>3 DEF CopyAgrees
<1>8. TellingDue'
  BY <1>3 DEF TellingDue, SourceTold, Worked!SourceTold
<1> QED BY <1>4, <1>5, <1>6, <1>7, <1>8

LEMMA SaveThreadKeepsRow == RowInv /\ Worked!SaveThread => RowInv'
<1> SUFFICES ASSUME RowInv, Worked!SaveThread PROVE RowInv'
  OBVIOUS
<1> USE DEF RowInv, RowTypes, RowHeld, Worked!SaveThread, Worked!Q!Fenced, Worked!At,
        Worked!Goto, Worked!Trouble, Worked!NeedsThread, Worked!TerminalSource,
        Worked!ledger, Worked!container, Worked!world, Worked!history
<1>1. RowTypes'
  BY DEF WorkOf, Worked!Steps
<1>2. RowHeld'
  BY DEF WorkOf
<1>3. ThreadsCounted'
  BY DEF ThreadsCounted, CopyAgrees, WorkOf
<1>4. RunsRemembered'
  BY DEF RunsRemembered, CopyAgrees, WorkOf
<1>5. CopyAgrees'
  BY DEF CopyAgrees, ThreadsCounted, RunsRemembered, WorkOf
<1>6. TellingDue'
  BY DEF TellingDue, SourceTold, Worked!SourceTold, WorkOf, CopyAgrees
<1> QED BY <1>1, <1>2, <1>3, <1>4, <1>5, <1>6

LEMMA StartRunKeepsRow == RowInv /\ Worked!StartRun => RowInv'
<1> SUFFICES ASSUME RowInv, Worked!StartRun PROVE RowInv'
  OBVIOUS
<1> USE DEF RowInv, RowTypes, RowHeld, Worked!StartRun, Worked!MayRun,
        Worked!NoContainer, Worked!Fails, Worked!At, Worked!Goto, Worked!Trouble,
        Worked!NeedsThread, Worked!TerminalSource, Worked!ledger, Worked!container,
        Worked!world, Worked!history
<1>1. RowTypes'
  BY DEF WorkOf, Worked!Steps
<1>2. RowHeld'
  BY DEF WorkOf
<1>3. ThreadsCounted'
  BY DEF ThreadsCounted, WorkOf
<1>4. RunsRemembered'
  BY DEF RunsRemembered, CopyAgrees, WorkOf
<1>5. CopyAgrees'
  BY DEF CopyAgrees, ThreadsCounted, RunsRemembered, WorkOf
<1>6. TellingDue'
  BY DEF TellingDue, SourceTold, Worked!SourceTold, WorkOf, CopyAgrees
<1> QED BY <1>1, <1>2, <1>3, <1>4, <1>5, <1>6

LEMMA BootFailsKeepsRow == RowInv /\ Worked!BootFails => RowInv'
<1> SUFFICES ASSUME RowInv, Worked!BootFails PROVE RowInv'
  OBVIOUS
<1> USE DEF RowInv, RowTypes, RowHeld, Worked!BootFails, Worked!NoContainer,
        Worked!Fails, Worked!At, Worked!Goto, Worked!Trouble, Worked!NeedsThread,
        Worked!TerminalSource, Worked!ledger, Worked!container, Worked!world,
        Worked!history
<1>1. RowTypes'
  BY DEF WorkOf, Worked!Steps
<1>2. RowHeld'
  BY DEF WorkOf
<1>3. ThreadsCounted'
  BY DEF ThreadsCounted, WorkOf
<1>4. RunsRemembered'
  BY DEF RunsRemembered, CopyAgrees, WorkOf
<1>5. CopyAgrees'
  BY DEF CopyAgrees, ThreadsCounted, RunsRemembered, WorkOf
<1>6. TellingDue'
  BY DEF TellingDue, SourceTold, Worked!SourceTold, WorkOf, CopyAgrees
<1> QED BY <1>1, <1>2, <1>3, <1>4, <1>5, <1>6

LEMMA ExitKeepsRow == RowInv /\ Worked!Exit => RowInv'
<1> SUFFICES ASSUME RowInv, Worked!Exit PROVE RowInv'
  OBVIOUS
<1> USE DEF RowInv, RowTypes, RowHeld, Worked!Exit, Worked!Fails, Worked!At,
        Worked!Goto, Worked!Trouble, Worked!NeedsThread, Worked!TerminalSource,
        Worked!ledger, Worked!container, Worked!world, Worked!history
<1>1. RowTypes'
  BY DEF WorkOf, Worked!Steps
<1>2. RowHeld'
  BY DEF WorkOf
<1>3. ThreadsCounted'
  BY DEF ThreadsCounted, WorkOf
<1>4. RunsRemembered'
  BY DEF RunsRemembered, CopyAgrees, WorkOf
<1>5. CopyAgrees'
  BY DEF CopyAgrees, ThreadsCounted, RunsRemembered, WorkOf
<1>6. TellingDue'
  BY DEF TellingDue, SourceTold, Worked!SourceTold, WorkOf, CopyAgrees
<1> QED BY <1>1, <1>2, <1>3, <1>4, <1>5, <1>6

LEMMA LoseKeepsRow == RowInv /\ Worked!Lose => RowInv'
<1> SUFFICES ASSUME RowInv, Worked!Lose PROVE RowInv'
  OBVIOUS
<1> USE DEF RowInv, RowTypes, RowHeld, Worked!Lose, Worked!Fails, Worked!At, Worked!Goto,
        Worked!Trouble, Worked!NeedsThread, Worked!TerminalSource, Worked!ledger,
        Worked!container, Worked!world, Worked!history
<1>1. RowTypes'
  BY DEF WorkOf, Worked!Steps
<1>2. RowHeld'
  BY DEF WorkOf
<1>3. ThreadsCounted'
  BY DEF ThreadsCounted, WorkOf
<1>4. RunsRemembered'
  BY DEF RunsRemembered, CopyAgrees, WorkOf
<1>5. CopyAgrees'
  BY DEF CopyAgrees, ThreadsCounted, RunsRemembered, WorkOf
<1>6. TellingDue'
  BY DEF TellingDue, SourceTold, Worked!SourceTold, WorkOf, CopyAgrees
<1> QED BY <1>1, <1>2, <1>3, <1>4, <1>5, <1>6

LEMMA CommitFailsKeepsRow == RowInv /\ Worked!CommitFails => RowInv'
<1> SUFFICES ASSUME RowInv, Worked!CommitFails PROVE RowInv'
  OBVIOUS
<1> USE DEF RowInv, RowTypes, RowHeld, Worked!CommitFails, Worked!Fails, Worked!At,
        Worked!Goto, Worked!Trouble, Worked!NeedsThread, Worked!TerminalSource,
        Worked!ledger, Worked!container, Worked!world, Worked!history
<1>1. RowTypes'
  BY DEF WorkOf, Worked!Steps
<1>2. RowHeld'
  BY DEF WorkOf
<1>3. ThreadsCounted'
  BY DEF ThreadsCounted, WorkOf
<1>4. RunsRemembered'
  BY DEF RunsRemembered, CopyAgrees, WorkOf
<1>5. CopyAgrees'
  BY DEF CopyAgrees, ThreadsCounted, RunsRemembered, WorkOf
<1>6. TellingDue'
  BY DEF TellingDue, SourceTold, Worked!SourceTold, WorkOf, CopyAgrees
<1> QED BY <1>1, <1>2, <1>3, <1>4, <1>5, <1>6

LEMMA TellKeepsRow == RowInv /\ Worked!Tell => RowInv'
<1> SUFFICES ASSUME RowInv, Worked!Tell PROVE RowInv'
  OBVIOUS
<1> USE DEF RowInv, RowTypes, RowHeld, Worked!Tell, Worked!Idle, Worked!At, Worked!Goto,
        Worked!Trouble, Worked!NeedsThread, Worked!TerminalSource, Worked!ledger,
        Worked!container, Worked!world, Worked!history
<1>1. RowTypes'
  BY DEF WorkOf, Worked!Steps
<1>2. RowHeld'
  BY DEF WorkOf
<1>3. ThreadsCounted'
  BY DEF ThreadsCounted, WorkOf
<1>4. RunsRemembered'
  BY DEF RunsRemembered, CopyAgrees, WorkOf
<1>5. CopyAgrees'
  BY DEF CopyAgrees, ThreadsCounted, RunsRemembered, WorkOf
<1>6. TellingDue'
  BY DEF TellingDue, SourceTold, Worked!SourceTold, WorkOf, CopyAgrees
<1> QED BY <1>1, <1>2, <1>3, <1>4, <1>5, <1>6

LEMMA RenewFailsKeepsRow == RowInv /\ Worked!RenewFails => RowInv'
<1> SUFFICES ASSUME RowInv, Worked!RenewFails PROVE RowInv'
  OBVIOUS
<1> USE DEF RowInv, RowTypes, RowHeld, Worked!RenewFails, Worked!At, Worked!Goto,
        Worked!Trouble, Worked!NeedsThread, Worked!TerminalSource, Worked!ledger,
        Worked!container, Worked!world, Worked!history
<1>1. RowTypes'
  BY DEF WorkOf, Worked!Steps
<1>2. RowHeld'
  BY DEF WorkOf
<1>3. ThreadsCounted'
  BY DEF ThreadsCounted, WorkOf
<1>4. RunsRemembered'
  BY DEF RunsRemembered, CopyAgrees, WorkOf
<1>5. CopyAgrees'
  BY DEF CopyAgrees, ThreadsCounted, RunsRemembered, WorkOf
<1>6. TellingDue'
  BY DEF TellingDue, SourceTold, Worked!SourceTold, WorkOf, CopyAgrees
<1> QED BY <1>1, <1>2, <1>3, <1>4, <1>5, <1>6

LEMMA EditPromptKeepsRow == RowInv /\ Worked!EditPrompt => RowInv'
<1> SUFFICES ASSUME RowInv, Worked!EditPrompt PROVE RowInv'
  OBVIOUS
<1> USE DEF RowInv, RowTypes, RowHeld, Worked!EditPrompt, Worked!At, Worked!Goto,
        Worked!Trouble, Worked!NeedsThread, Worked!TerminalSource, Worked!ledger,
        Worked!container, Worked!world, Worked!history
<1>1. RowTypes'
  BY DEF WorkOf, Worked!Steps
<1>2. RowHeld'
  BY DEF WorkOf
<1>3. ThreadsCounted'
  BY DEF ThreadsCounted, WorkOf
<1>4. RunsRemembered'
  BY DEF RunsRemembered, CopyAgrees, WorkOf
<1>5. CopyAgrees'
  BY DEF CopyAgrees, ThreadsCounted, RunsRemembered, WorkOf
<1>6. TellingDue'
  BY DEF TellingDue, SourceTold, Worked!SourceTold, WorkOf, CopyAgrees
<1> QED BY <1>1, <1>2, <1>3, <1>4, <1>5, <1>6

LEMMA KillOrphansKeepsRow == RowInv /\ Worked!KillOrphans => RowInv'
<1> SUFFICES ASSUME RowInv, Worked!KillOrphans PROVE RowInv'
  OBVIOUS
<1> USE DEF RowInv, RowTypes, RowHeld, Worked!KillOrphans, Worked!At, Worked!Goto,
        Worked!Trouble, Worked!NeedsThread, Worked!TerminalSource, Worked!ledger,
        Worked!container, Worked!world, Worked!history
<1>1. RowTypes'
  BY DEF WorkOf, Worked!Steps
<1>2. RowHeld'
  BY DEF WorkOf
<1>3. ThreadsCounted'
  BY DEF ThreadsCounted, WorkOf
<1>4. RunsRemembered'
  BY DEF RunsRemembered, CopyAgrees, WorkOf
<1>5. CopyAgrees'
  BY DEF CopyAgrees, ThreadsCounted, RunsRemembered, WorkOf
<1>6. TellingDue'
  BY DEF TellingDue, SourceTold, Worked!SourceTold, WorkOf, CopyAgrees
<1> QED BY <1>1, <1>2, <1>3, <1>4, <1>5, <1>6

LEMMA OrphanExitsKeepsRow == RowInv /\ Worked!OrphanExits => RowInv'
<1> SUFFICES ASSUME RowInv, Worked!OrphanExits PROVE RowInv'
  OBVIOUS
<1> USE DEF RowInv, RowTypes, RowHeld, Worked!OrphanExits, Worked!At, Worked!Goto,
        Worked!Trouble, Worked!NeedsThread, Worked!TerminalSource, Worked!ledger,
        Worked!container, Worked!world, Worked!history
<1>1. RowTypes'
  BY DEF WorkOf, Worked!Steps
<1>2. RowHeld'
  BY DEF WorkOf
<1>3. ThreadsCounted'
  BY DEF ThreadsCounted, WorkOf
<1>4. RunsRemembered'
  BY DEF RunsRemembered, CopyAgrees, WorkOf
<1>5. CopyAgrees'
  BY DEF CopyAgrees, ThreadsCounted, RunsRemembered, WorkOf
<1>6. TellingDue'
  BY DEF TellingDue, SourceTold, Worked!SourceTold, WorkOf, CopyAgrees
<1> QED BY <1>1, <1>2, <1>3, <1>4, <1>5, <1>6

(* The steps that write the ledger. *)

LEMMA ReceiveKeepsRow == RowInv /\ Worked!Receive => RowInv'
<1> SUFFICES ASSUME RowInv, Worked!Receive PROVE RowInv'
  OBVIOUS
<1> USE DEF RowInv, RowTypes, RowHeld, Worked!At, Worked!Goto, Worked!Trouble,
        Worked!NeedsThread, Worked!TerminalSource, Worked!ledger, Worked!container,
        Worked!world, Worked!history
<1>0. /\ jobs' \in [{Job} -> Worked!Q!Row] /\ jobs'[Job].admission = FALSE
      /\ jobs[Job].status = "absent" /\ jobs'[Job].status = "queued"
      /\ UNCHANGED <<poller, setup, prompt, threads, unsaved, saved, work, launches,
                     answer, told, untold>>
  BY RowReceived DEF Worked!Receive
<1>1. RowTypes'
  BY <1>0, RowTerms DEF WorkOf, Worked!Steps
<1>2. RowHeld'
  BY <1>0, RowTerms DEF WorkOf
<1>3. ThreadsCounted'
  BY <1>0, RowTerms DEF ThreadsCounted, CopyAgrees, WorkOf
<1>4. RunsRemembered'
  BY <1>0, RowTerms DEF RunsRemembered, CopyAgrees, WorkOf
<1>5. CopyAgrees'
  BY <1>0, RowTerms DEF CopyAgrees, ThreadsCounted, RunsRemembered, WorkOf
<1>6. TellingDue'
  BY <1>0, RowTerms DEF TellingDue, SourceTold, Worked!SourceTold, WorkOf, CopyAgrees
<1> QED BY <1>1, <1>2, <1>3, <1>4, <1>5, <1>6

LEMMA PollKeepsRow == RowInv /\ Worked!Poll => RowInv'
<1> SUFFICES ASSUME RowInv, Worked!Poll PROVE RowInv'
  OBVIOUS
<1> USE DEF RowInv, RowTypes, RowHeld, Worked!At, Worked!Goto, Worked!Trouble,
        Worked!NeedsThread, Worked!TerminalSource, Worked!ledger, Worked!container,
        Worked!world, Worked!history
<1>a. jobs[Job].token \in Nat
  BY RowFields
<1>b. PICK busy \in BOOLEAN : busy = (work.step = "idle")
  OBVIOUS
<1>c. Worked!Q!Claim(IF busy THEN {} ELSE {Job})
  BY <1>b DEF Worked!Poll
<1>d. /\ jobs' \in [{Job} -> Worked!Q!Row] /\ jobs'[Job].admission = FALSE
      /\ busy /\ jobs[Job].status \notin Worked!Q!Terminal
      /\ \/ jobs'[Job].status = "dead_letter" /\ jobs'[Job].token = jobs[Job].token
         \/ /\ jobs'[Job].status = "claimed"
            /\ jobs'[Job].token = jobs[Job].token + 1
  BY <1>c, RowClaims
<1>e. /\ untold' \in BOOLEAN
      /\ jobs'[Job].status = "dead_letter" => untold'
      /\ jobs'[Job].status # "dead_letter" => untold' = untold
  BY Zenon DEF Worked!Poll
<1>f. work' = IF jobs'[Job].token > jobs[Job].token
              THEN [Worked!Idle EXCEPT !.step = "begin", !.token = jobs'[Job].token,
                                       !.thread = saved.thread, !.prompt = saved.prompt]
              ELSE work
  BY DEF Worked!Poll
<1>g. jobs'[Job].token = jobs[Job].token => work' = work
  BY <1>a, <1>f
<1> DEFINE Begun(w) == /\ w \in WorkOf /\ w.step = "begin" /\ w.token = jobs'[Job].token
                       /\ w.tell = "never" /\ w.thread = saved.thread
                       /\ w.prompt = saved.prompt
<1>h. jobs'[Job].token = jobs[Job].token + 1 => Begun(work')
  <2> SUFFICES ASSUME jobs'[Job].token = jobs[Job].token + 1 PROVE Begun(work')
    OBVIOUS
  <2> DEFINE first == [Worked!Idle EXCEPT !.step = "begin"]
             begun == [first EXCEPT !.token = jobs'[Job].token]
             copied == [begun EXCEPT !.thread = saved.thread, !.prompt = saved.prompt]
  <2>1. work' = copied
    BY <1>a, <1>f
  <2>2. Worked!Idle \in WorkOf /\ Worked!Idle.tell = "never"
    BY DEF Worked!Idle, WorkOf, Worked!Steps
  <2>a. first \in WorkOf /\ first.step = "begin" /\ first.tell = "never"
    BY <2>2 DEF WorkOf, Worked!Steps
  <2> HIDE DEF first
  <2>3. /\ begun \in WorkOf /\ begun.step = "begin" /\ begun.token = jobs'[Job].token
        /\ begun.tell = "never"
    BY <1>a, <2>a DEF WorkOf
  <2> HIDE DEF begun
  <2>4. Begun(copied)
    BY <2>3 DEF WorkOf
  <2> QED BY <2>1, <2>4
<1>0. /\ jobs' \in [{Job} -> Worked!Q!Row] /\ jobs'[Job].admission = FALSE
      /\ work.step = "idle" /\ jobs[Job].status \notin Worked!Q!Terminal
      /\ poller = "up" /\ jobs'[Job].token \in Nat
      /\ \/ jobs'[Job].status = "dead_letter" /\ untold' /\ work' = work
         \/ /\ jobs'[Job].status = "claimed" /\ untold' = untold
            /\ Begun(work')
      /\ UNCHANGED <<poller, setup, prompt, threads, unsaved, saved, launches, answer,
                     told>>
      /\ untold' \in BOOLEAN
  <2>1. jobs'[Job].token \in Nat
    BY <1>a, <1>d
  <2>2. work.step = "idle"
    BY <1>b, <1>d
  <2>3. /\ poller = "up"
        /\ UNCHANGED <<poller, setup, prompt, threads, unsaved, saved, launches, answer,
                       told>>
    BY DEF Worked!Poll
  <2> QED BY <1>d, <1>e, <1>g, <1>h, <2>1, <2>2, <2>3
<1>1. RowTypes'
  BY <1>0, RowTerms DEF WorkOf, Worked!Steps
<1>2. RowHeld'
  BY <1>0, RowTerms DEF WorkOf
<1>3. ThreadsCounted'
  BY <1>0, RowTerms DEF ThreadsCounted, CopyAgrees, WorkOf
<1>4. RunsRemembered'
  BY <1>0, RowTerms DEF RunsRemembered, CopyAgrees, WorkOf
<1>5. CopyAgrees'
  BY <1>0, RowTerms DEF CopyAgrees, ThreadsCounted, RunsRemembered, WorkOf
<1>6. TellingDue'
  BY <1>0, RowTerms DEF TellingDue, SourceTold, Worked!SourceTold, WorkOf, CopyAgrees
<1> QED BY <1>1, <1>2, <1>3, <1>4, <1>5, <1>6

LEMMA RenewKeepsRow == RowInv /\ Worked!Renew => RowInv'
<1> SUFFICES ASSUME RowInv, Worked!Renew PROVE RowInv'
  OBVIOUS
<1> USE DEF RowInv, RowTypes, RowHeld, Worked!At, Worked!Goto, Worked!Trouble,
        Worked!NeedsThread, Worked!TerminalSource, Worked!ledger, Worked!container,
        Worked!world, Worked!history
<1>0. /\ RowBecomes(jobs[Job].status)
      /\ UNCHANGED <<poller, setup, prompt, threads, unsaved, saved, work, launches,
                     answer, told, untold>>
  BY RowRenewed DEF Worked!Renew
<1> USE DEF RowBecomes
<1>1. RowTypes'
  BY <1>0, RowTerms DEF WorkOf, Worked!Steps
<1>2. RowHeld'
  BY <1>0, RowTerms DEF WorkOf
<1>3. ThreadsCounted'
  BY <1>0, RowTerms DEF ThreadsCounted, CopyAgrees, WorkOf
<1>4. RunsRemembered'
  BY <1>0, RowTerms DEF RunsRemembered, CopyAgrees, WorkOf
<1>5. CopyAgrees'
  BY <1>0, RowTerms DEF CopyAgrees, ThreadsCounted, RunsRemembered, WorkOf
<1>6. TellingDue'
  BY <1>0, RowTerms DEF TellingDue, SourceTold, Worked!SourceTold, WorkOf, CopyAgrees
<1> QED BY <1>1, <1>2, <1>3, <1>4, <1>5, <1>6

LEMMA TimeKeepsRow == RowInv /\ Worked!Time => RowInv'
<1> SUFFICES ASSUME RowInv, Worked!Time PROVE RowInv'
  OBVIOUS
<1> USE DEF RowInv, RowTypes, RowHeld, Worked!At, Worked!Goto, Worked!Trouble,
        Worked!NeedsThread, Worked!TerminalSource, Worked!ledger, Worked!container,
        Worked!world, Worked!history
<1>0. /\ RowBecomes(jobs[Job].status)
      /\ UNCHANGED <<poller, setup, prompt, threads, unsaved, saved, work, launches,
                     answer, told, untold>>
  BY RowTimed DEF Worked!Time
<1> USE DEF RowBecomes
<1>1. RowTypes'
  BY <1>0, RowTerms DEF WorkOf, Worked!Steps
<1>2. RowHeld'
  BY <1>0, RowTerms DEF WorkOf
<1>3. ThreadsCounted'
  BY <1>0, RowTerms DEF ThreadsCounted, CopyAgrees, WorkOf
<1>4. RunsRemembered'
  BY <1>0, RowTerms DEF RunsRemembered, CopyAgrees, WorkOf
<1>5. CopyAgrees'
  BY <1>0, RowTerms DEF CopyAgrees, ThreadsCounted, RunsRemembered, WorkOf
<1>6. TellingDue'
  BY <1>0, RowTerms DEF TellingDue, SourceTold, Worked!SourceTold, WorkOf, CopyAgrees
<1> QED BY <1>1, <1>2, <1>3, <1>4, <1>5, <1>6

LEMMA ReadyKeepsRow == RowInv /\ Worked!Ready => RowInv'
<1> SUFFICES ASSUME RowInv, Worked!Ready PROVE RowInv'
  OBVIOUS
<1> USE DEF RowInv, RowTypes, RowHeld, Worked!At, Worked!Goto, Worked!Trouble,
        Worked!NeedsThread, Worked!TerminalSource, Worked!ledger, Worked!container,
        Worked!world, Worked!history
<1>0. /\ RowBecomes("running") /\ work.step = "booting" /\ poller = "up"
      /\ work' = [work EXCEPT !.step = "running"]
      /\ launches' = launches \cup
           {[session |-> IF Worked!NeedsThread THEN work.thread ELSE 0,
             prompt |-> work.prompt]}
      /\ UNCHANGED <<poller, setup, prompt, threads, unsaved, saved, answer, told,
                     untold>>
  BY RowRuns DEF Worked!Ready, Worked!Options
<1> USE DEF RowBecomes
<1>1. RowTypes'
  BY <1>0, RowTerms DEF WorkOf, Worked!Steps
<1>2. RowHeld'
  BY <1>0, RowTerms DEF WorkOf
<1>3. ThreadsCounted'
  BY <1>0, RowTerms DEF ThreadsCounted, CopyAgrees, WorkOf
<1>4. RunsRemembered'
  BY <1>0, RowTerms DEF RunsRemembered, CopyAgrees, WorkOf
<1>5. CopyAgrees'
  BY <1>0, RowTerms DEF CopyAgrees, ThreadsCounted, RunsRemembered, WorkOf
<1>6. TellingDue'
  BY <1>0, RowTerms DEF TellingDue, SourceTold, Worked!SourceTold, WorkOf, CopyAgrees
<1> QED BY <1>1, <1>2, <1>3, <1>4, <1>5, <1>6

LEMMA HandlerRunsKeepsRow == RowInv /\ Worked!HandlerRuns => RowInv'
<1> SUFFICES ASSUME RowInv, Worked!HandlerRuns PROVE RowInv'
  OBVIOUS
<1> USE DEF RowInv, RowTypes, RowHeld, Worked!At, Worked!Goto, Worked!Trouble,
        Worked!NeedsThread, Worked!TerminalSource, Worked!ledger, Worked!container,
        Worked!world, Worked!history
<1>0. /\ RowBecomes("running") /\ work.step = "begin" /\ poller = "up"
      /\ work' = [work EXCEPT !.step = "running"]
      /\ setup.handler /\ setup.feature = "none" /\ setup.mode = "channel"
      /\ UNCHANGED <<poller, setup, prompt, threads, unsaved, saved, launches, answer,
                     told, untold>>
  BY RowRuns, WorkAssumption DEF Worked!HandlerRuns
<1> USE DEF RowBecomes
<1>1. RowTypes'
  BY <1>0, RowTerms DEF WorkOf, Worked!Steps
<1>2. RowHeld'
  BY <1>0, RowTerms DEF WorkOf
<1>3. ThreadsCounted'
  BY <1>0, RowTerms DEF ThreadsCounted, CopyAgrees, WorkOf
<1>4. RunsRemembered'
  BY <1>0, RowTerms DEF RunsRemembered, CopyAgrees, WorkOf
<1>5. CopyAgrees'
  BY <1>0, RowTerms DEF CopyAgrees, ThreadsCounted, RunsRemembered, WorkOf
<1>6. TellingDue'
  BY <1>0, RowTerms DEF TellingDue, SourceTold, Worked!SourceTold, WorkOf, CopyAgrees
<1> QED BY <1>1, <1>2, <1>3, <1>4, <1>5, <1>6

LEMMA StartKeepsRow == RowInv /\ Worked!Start => RowInv'
<1> SUFFICES ASSUME RowInv, Worked!Start PROVE RowInv'
  OBVIOUS
<1> USE DEF RowInv, RowTypes, RowHeld, Worked!At, Worked!Goto, Worked!Trouble,
        Worked!NeedsThread, Worked!TerminalSource, Worked!ledger, Worked!container,
        Worked!world, Worked!history
<1>0. /\ \/ RowBecomes(jobs[Job].status)
         \/ RowBecomes("retry_wait") /\ jobs[Job].status \in Worked!Q!Claimed
      /\ poller = "cleaned" /\ poller' = "up"
      /\ UNCHANGED <<setup, prompt, threads, unsaved, saved, work, launches, answer,
                     told, untold>>
  BY RowRecovered DEF Worked!Start
<1> USE DEF RowBecomes
<1>1. RowTypes'
  BY <1>0, RowTerms DEF WorkOf, Worked!Steps
<1>2. RowHeld'
  BY <1>0, RowTerms DEF WorkOf
<1>3. ThreadsCounted'
  BY <1>0, RowTerms DEF ThreadsCounted, CopyAgrees, WorkOf
<1>4. RunsRemembered'
  BY <1>0, RowTerms DEF RunsRemembered, CopyAgrees, WorkOf
<1>5. CopyAgrees'
  BY <1>0, RowTerms DEF CopyAgrees, ThreadsCounted, RunsRemembered, WorkOf
<1>6. TellingDue'
  BY <1>0, RowTerms DEF TellingDue, SourceTold, Worked!SourceTold, WorkOf, CopyAgrees
<1> QED BY <1>1, <1>2, <1>3, <1>4, <1>5, <1>6

LEMMA CrashKeepsRow == RowInv /\ Worked!Crash => RowInv'
<1> SUFFICES ASSUME RowInv, Worked!Crash PROVE RowInv'
  OBVIOUS
<1> USE DEF RowInv, RowTypes, RowHeld, Worked!At, Worked!Goto, Worked!Trouble,
        Worked!NeedsThread, Worked!TerminalSource, Worked!ledger, Worked!container,
        Worked!world, Worked!history
<1>0. /\ poller' = "down" /\ work' = Worked!Idle
      /\ unsaved' = IF saved.thread = 0 /\ jobs[Job].status \in Worked!Q!Claimed
                    THEN threads ELSE unsaved
      /\ untold' = (untold \/ work.step = "tell")
      /\ UNCHANGED <<jobs, setup, prompt, threads, saved, launches, answer, told>>
  BY DEF Worked!Crash
<1> USE DEF Worked!Idle
<1>1. RowTypes'
  BY <1>0, RowTerms DEF WorkOf, Worked!Steps
<1>2. RowHeld'
  BY <1>0, RowTerms DEF WorkOf
<1>3. ThreadsCounted'
  BY <1>0, RowTerms DEF ThreadsCounted, CopyAgrees, WorkOf
<1>4. RunsRemembered'
  BY <1>0, RowTerms DEF RunsRemembered, CopyAgrees, WorkOf
<1>5. CopyAgrees'
  BY <1>0, RowTerms DEF CopyAgrees, ThreadsCounted, RunsRemembered, WorkOf
<1>6. TellingDue'
  BY <1>0, RowTerms DEF TellingDue, SourceTold, Worked!SourceTold, WorkOf, CopyAgrees
<1> QED BY <1>1, <1>2, <1>3, <1>4, <1>5, <1>6

LEMMA TellsNext ==
  ASSUME RowTypes, NEW settled \in BOOLEAN,
         work.step \in {"answered", "failed", "hopeless"},
         work' = Worked!NextOf(settled)
  PROVE  /\ work' \in WorkOf /\ work'.step \in {"idle", "tell"}
         /\ work'.step = "tell" =>
              /\ work'.end = work.step /\ work'.token = work.token
              /\ work'.aborted = work.aborted
         /\ work'.step = "idle" =>
              /\ work' = Worked!Idle
              /\ settled /\ setup.feature # "none" => work.tell = "never"
<1> DEFINE telling == [work EXCEPT !.step = "tell", !.end = work.step]
<1>1. work \in WorkOf
  BY DEF RowTypes
<1>2. /\ telling \in WorkOf /\ telling.step = "tell" /\ telling.end = work.step
      /\ telling.token = work.token /\ telling.aborted = work.aborted
  BY <1>1 DEF WorkOf, Worked!Steps
<1>3. Worked!Idle \in WorkOf /\ Worked!Idle.step = "idle"
  BY DEF Worked!Idle, WorkOf, Worked!Steps
<1>4. work.tell \in {"never", "settled", "always"}
  BY <1>1 DEF WorkOf
<1>5. \/ work' = telling
      \/ work' = Worked!Idle /\ (settled /\ setup.feature # "none" => work.tell = "never")
  BY <1>4 DEF Worked!NextOf
<1> HIDE DEF telling
<1> QED BY <1>2, <1>3, <1>5

LEMMA SettleKeepsRow == RowInv /\ Worked!Settle => RowInv'
<1> SUFFICES ASSUME RowInv, Worked!Settle PROVE RowInv'
  OBVIOUS
<1> USE DEF RowInv, Worked!At
<1>1. PICK status \in {"completed", "dead_letter", "retry_wait"} :
        /\ RowBecomes(status)
        /\ work.step \in {"answered", "failed", "hopeless"}
        /\ work.step = "hopeless" => status = "dead_letter"
        /\ answer' = answer \/ (work.step = "answered" /\ answer' = work.thread)
  <2>1. CASE /\ work.step = "answered"
             /\ \E suppress, conversation \in BOOLEAN :
                  Worked!Q!CommitResult(Job, work.token, suppress, conversation, 1)
             /\ answer' = work.thread
    BY <2>1, RowCommitted
  <2>2. CASE work.step = "answered" /\ Worked!Q!DeadLetter(Job, work.token)
             /\ UNCHANGED answer
    BY <2>2, RowDeadLettered
  <2>3. CASE work.step = "failed" /\ Worked!Q!FailAttempt(Job, work.token)
             /\ UNCHANGED answer
    BY <2>3, RowFailed
  <2>4. CASE work.step = "hopeless" /\ Worked!Q!DeadLetter(Job, work.token)
             /\ UNCHANGED answer
    BY <2>4, RowDeadLettered
  <2> QED BY <2>1, <2>2, <2>3, <2>4 DEF Worked!Settle
<1>2. /\ work' = Worked!NextOf(TRUE) /\ poller = "up"
      /\ UNCHANGED <<poller, setup, saved, prompt, threads, unsaved, launches, told, untold>>
  BY DEF Worked!Settle, Worked!container, Worked!world
<1>3. /\ work' \in WorkOf /\ work'.step \in {"idle", "tell"}
      /\ work'.step = "tell" => work'.end = work.step
      /\ work'.step = "idle" /\ setup.feature # "none" => work.tell = "never"
  BY <1>1, <1>2, TellsNext
<1>4. RowTypes' /\ RowHeld'
  BY <1>1, <1>2, <1>3 DEF RowTypes, RowHeld, RowBecomes
<1>5. ThreadsCounted'
  BY <1>1, <1>2, <1>3, RowTerms DEF ThreadsCounted, RowBecomes, RowHeld
<1>6. RunsRemembered' /\ CopyAgrees'
  BY <1>1, <1>2, <1>3
     DEF RunsRemembered, CopyAgrees, Worked!NeedsThread, Worked!TerminalSource
<1>7. TellingDue'
  <2>1. setup.feature # "none" => work.tell # "never" \/ untold
    BY <1>1 DEF TellingDue
  <2> QED BY <1>2, <1>3, <2>1 DEF TellingDue, SourceTold, Worked!SourceTold
<1> QED BY <1>4, <1>5, <1>6, <1>7

LEMMA SettleFailsKeepsRow == RowInv /\ Worked!SettleFails => RowInv'
<1> SUFFICES ASSUME RowInv, Worked!SettleFails PROVE RowInv'
  OBVIOUS
<1> USE DEF RowInv
<1>1. /\ work.step \in {"answered", "failed", "hopeless"} /\ poller = "up"
      /\ unsaved' = IF threads > unsaved /\ saved.thread = 0 THEN threads ELSE unsaved
      /\ work' = Worked!NextOf(FALSE)
      /\ UNCHANGED <<jobs, poller, setup, saved, prompt, threads, launches, answer, told,
                     untold>>
  BY DEF Worked!SettleFails, Worked!At, Worked!ledger, Worked!container, Worked!history
<1>2. /\ work' \in WorkOf /\ work'.step \in {"idle", "tell"}
      /\ work'.step = "tell" => work'.end = work.step
  BY <1>1, TellsNext
<1>3. RowTypes' /\ RowHeld'
  BY <1>1, <1>2 DEF RowTypes, RowHeld
<1>4. ThreadsCounted'
  <2>1. threads \in Nat /\ unsaved \in Nat
    BY DEF RowTypes
  <2>2. CASE threads > unsaved /\ saved.thread = 0
    <3>1. unsaved' = threads /\ threads' = threads
      BY <1>1, <2>2
    <3> QED BY <2>1, <3>1 DEF ThreadsCounted
  <2>3. CASE ~(threads > unsaved /\ saved.thread = 0)
    <3>1. unsaved' = unsaved /\ threads' = threads /\ saved' = saved
      BY <1>1, <2>3
    <3> QED BY <2>1, <2>3, <3>1 DEF ThreadsCounted
  <2> QED BY <2>2, <2>3
<1>5. RunsRemembered' /\ CopyAgrees'
  BY <1>1, <1>2
     DEF RunsRemembered, CopyAgrees, Worked!NeedsThread, Worked!TerminalSource
<1>6. TellingDue'
  BY <1>1, <1>2, RowTerms DEF TellingDue, SourceTold, Worked!SourceTold, RowHeld
<1> QED BY <1>3, <1>4, <1>5, <1>6

LEMMA RowStarts == Worked!Init => RowInv
<1> SUFFICES ASSUME Worked!Init PROVE RowInv
  OBVIOUS
<1>1. jobs = [j \in {Job} |-> Worked!Q!NoRow]
  BY DEF Worked!Init, Worked!Q!Init, Worked!Jobs
<1>2. /\ Worked!Q!NoRow \in Worked!Q!Row /\ Worked!Q!NoRow.admission = FALSE
      /\ Worked!Q!NoRow.status = "absent"
  BY DEF Worked!Q!NoRow, Worked!Q!Row, Worked!Q!Status
<1>3. Worked!Idle \in WorkOf /\ Worked!Idle.step = "idle"
  BY DEF Worked!Idle, WorkOf, Worked!Steps
<1>4. Worked!Blank \in [thread : Nat, prompt : Nat]
  BY DEF Worked!Blank
<1>5. RowTypes
  <2>1. jobs \in [{Job} -> Worked!Q!Row] /\ jobs[Job].admission = FALSE
    BY <1>1, <1>2
  <2>2. /\ poller = "up" /\ setup \in Setups /\ saved = Worked!Blank /\ work = Worked!Idle
        /\ prompt = 1 /\ threads = 0 /\ unsaved = 0 /\ told = FALSE /\ untold = FALSE
    BY DEF Worked!Init
  <2>3. told \in BOOLEAN /\ untold \in BOOLEAN
    BY <2>2, Zenon
  <2>4. poller \in {"down", "cleaned", "up"} /\ setup \in Setups
    BY <2>2, Zenon
  <2>5. prompt \in Nat \ {0} /\ threads \in Nat /\ unsaved \in Nat
    BY <2>2
  <2>6. saved \in [thread : Nat, prompt : Nat] /\ work \in WorkOf
    BY <1>3, <1>4, <2>2, Zenon
  <2> QED BY <2>1, <2>3, <2>4, <2>5, <2>6, Zenon DEF RowTypes
<1>6. RowHeld /\ ThreadsCounted /\ RunsRemembered
  BY <1>3 DEF RowHeld, ThreadsCounted, RunsRemembered, Worked!Init
<1>7. CopyAgrees /\ TellingDue
  BY <1>1, <1>2, <1>3, RowTerms
     DEF CopyAgrees, TellingDue, SourceTold, Worked!SourceTold, Worked!Init
<1> QED BY <1>5, <1>6, <1>7 DEF RowInv

LEMMA RowKeeps == RowInv /\ [Worked!Next]_(Worked!vars) => RowInv'
<1> SUFFICES ASSUME RowInv, [Worked!Next]_(Worked!vars) PROVE RowInv'
  OBVIOUS
<1>1. CASE UNCHANGED Worked!vars
  BY <1>1 DEF Worked!vars, Worked!ledger, Worked!container, Worked!world, Worked!history,
     RowInv, RowTypes, RowHeld, ThreadsCounted, RunsRemembered, CopyAgrees, TellingDue,
     SourceTold, Worked!SourceTold, Worked!NeedsThread, Worked!TerminalSource
<1>2. CASE Worked!Attempt
  BY <1>2, BeginKeepsRow, CaptureKeepsRow, FreezeKeepsRow, CreateCronThreadKeepsRow,
     SaveThreadKeepsRow, StartRunKeepsRow, ReadyKeepsRow, HandlerRunsKeepsRow,
     BootFailsKeepsRow, ExitKeepsRow, LoseKeepsRow, SettleKeepsRow, CommitFailsKeepsRow,
     SettleFailsKeepsRow, TellKeepsRow DEF Worked!Attempt
<1>3. CASE Worked!Next /\ ~Worked!Attempt
  BY <1>3, ReceiveKeepsRow, PollKeepsRow, RenewKeepsRow, RenewFailsKeepsRow,
     EditPromptKeepsRow, CrashKeepsRow, KillOrphansKeepsRow, OrphanExitsKeepsRow,
     StartKeepsRow, TimeKeepsRow
     DEF Worked!Next
<1> QED BY <1>1, <1>2, <1>3

LEMMA WorkerPart == Spec => Worked!Spec
<1>1. Init => Worked!Init
  BY DEF Init
<1>2. [Next]_vars => [Worked!Next]_(Worked!vars)
  BY DEF Next, vars, workerVars, Worked!vars, Worked!ledger, Worked!container,
     Worked!world, Worked!history
<1> QED BY <1>1, <1>2, PTL DEF Spec, Worked!Spec

LEMMA RowAlways == Spec => []RowInv
BY RowStarts, RowKeeps, WorkerPart, PTL DEF Worked!Spec

(* All attempts of a row run with the prompt the first one froze and in    *)
(* the thread the row remembers, through failed writes, lost answers of    *)
(* Discord and crashes (queue/poller.ts:697-733, 904-973).                 *)
THEOREM AttemptsAreOne == Spec => []AttemptsAgree
<1>1. RowInv => AttemptsAgree
  BY DEF RowInv, ThreadsCounted, RunsRemembered, AttemptsAgree, Worked!AttemptsAgree
<1> QED BY <1>1, RowAlways, PTL

(* The source of a row that has ended has been told, but where the code    *)
(* tells nobody (queue/poller.ts:215-224, 517-571).                        *)
THEOREM SourcesAreTold == Spec => []SourceTold
<1>1. RowInv => SourceTold
  BY DEF RowInv, TellingDue
<1> QED BY <1>1, RowAlways, PTL

-----------------------------------------------------------------------------
(* A worker implements Poller *)

(* The worker of Poller this one is seen as. *)
Seen == [stage |-> Worked!StageOf,
         token |-> IF Worked!StageOf = "idle" THEN 0 ELSE work.token,
         aborted |-> Worked!StageOf # "idle" /\ work.aborted]
SeenWorker == [j \in {Job} |-> Seen]

Preparing == {"begin", "capture", "freeze", "thread", "save", "start"}

LEMMA StageNow ==
  /\ work.step \in Preparing => Worked!StageOf = "preparing"
  /\ work.step = "tell" =>
       Worked!StageOf = IF Worked!Q!Fenced(Job, work.token) THEN work.end ELSE "idle"
  /\ work.step \in {"idle", "booting", "running", "answered", "failed", "hopeless"} =>
       Worked!StageOf = work.step
BY DEF Worked!StageOf, Preparing

LEMMA StageThen ==
  /\ work'.step \in Preparing => Worked!StageOf' = "preparing"
  /\ work'.step = "tell" =>
       Worked!StageOf' = IF Worked!Q!Fenced(Job, work.token)' THEN work'.end ELSE "idle"
  /\ work'.step \in {"idle", "booting", "running", "answered", "failed", "hopeless"} =>
       Worked!StageOf' = work'.step
BY DEF Worked!StageOf, Preparing

LEMMA SeenNow ==
  ASSUME RowTypes
  PROVE  /\ Seen.stage = Worked!StageOf
         /\ Worked!StageOf = "idle" => Seen = Worked!P!Idle
         /\ Worked!StageOf # "idle" =>
              Seen = [stage |-> Worked!StageOf, token |-> work.token,
                      aborted |-> work.aborted]
<1>1. work.aborted \in BOOLEAN
  BY DEF RowTypes, WorkOf
<1>2. Seen.stage = Worked!StageOf
  BY DEF Seen
<1>3. ASSUME Worked!StageOf = "idle" PROVE Seen = Worked!P!Idle
  <2>1. (Worked!StageOf # "idle" /\ work.aborted) = FALSE
    BY <1>3, Zenon
  <2>2. (IF Worked!StageOf = "idle" THEN 0 ELSE work.token) = 0
    BY <1>3
  <2> QED BY <1>3, <2>1, <2>2, Zenon DEF Seen, Worked!P!Idle
<1>4. ASSUME Worked!StageOf # "idle"
      PROVE  Seen = [stage |-> Worked!StageOf, token |-> work.token,
                     aborted |-> work.aborted]
  <2>1. (Worked!StageOf # "idle" /\ work.aborted) = work.aborted
    BY <1>1, <1>4, Zenon
  <2>2. (IF Worked!StageOf = "idle" THEN 0 ELSE work.token) = work.token
    BY <1>4
  <2> QED BY <2>1, <2>2, Zenon DEF Seen
<1> QED BY <1>2, <1>3, <1>4

LEMMA SeenThen ==
  ASSUME RowTypes'
  PROVE  /\ Seen'.stage = Worked!StageOf'
         /\ Worked!StageOf' = "idle" => Seen' = Worked!P!Idle
         /\ Worked!StageOf' # "idle" =>
              Seen' = [stage |-> Worked!StageOf', token |-> work'.token,
                       aborted |-> work'.aborted]
<1>1. work'.aborted \in BOOLEAN
  BY DEF RowTypes, WorkOf
<1>2. Seen'.stage = Worked!StageOf'
  BY DEF Seen
<1>3. ASSUME Worked!StageOf' = "idle" PROVE Seen' = Worked!P!Idle
  <2>1. (Worked!StageOf' # "idle" /\ work'.aborted) = FALSE
    BY <1>3, Zenon
  <2>2. (IF Worked!StageOf' = "idle" THEN 0 ELSE work'.token) = 0
    BY <1>3
  <2> QED BY <1>3, <2>1, <2>2, Zenon DEF Seen, Worked!P!Idle
<1>4. ASSUME Worked!StageOf' # "idle"
      PROVE  Seen' = [stage |-> Worked!StageOf', token |-> work'.token,
                      aborted |-> work'.aborted]
  <2>1. (Worked!StageOf' # "idle" /\ work'.aborted) = work'.aborted
    BY <1>1, <1>4, Zenon
  <2>2. (IF Worked!StageOf' = "idle" THEN 0 ELSE work'.token) = work'.token
    BY <1>4
  <2> QED BY <2>1, <2>2, Zenon DEF Seen
<1> QED BY <1>2, <1>3, <1>4

(* The terms of Poller, of this worker. *)

LEMMA PollerTerms ==
  ASSUME RowTypes
  PROVE  /\ \A stage : Worked!P!At(Job, stage) <=> poller = "up" /\ Worked!StageOf = stage
         /\ ~Worked!P!Ticket(Job)
         /\ Worked!StageOf = "idle" => Worked!P!InFlight = {}
         /\ Worked!StageOf # "idle" =>
              /\ Worked!P!InFlight = {Job} /\ Worked!P!Held(Job) = work.token
              /\ Worked!P!Agent(Job) = Worked!Agent
<1>1. jobs[Job].admission = FALSE
  BY DEF RowTypes
<1> QED BY <1>1 DEF Worked!P!At, Worked!P!Ticket, Worked!P!InFlight, Worked!P!Held,
           Worked!P!Agent, Worked!Agent, Worked!Jobs

LEMMA PollerMoves ==
  /\ \A stage : Worked!P!Goto(Job, stage)
                  <=> SeenWorker' = [SeenWorker EXCEPT ![Job].stage = stage]
  /\ Worked!P!Done(Job) <=> SeenWorker' = [SeenWorker EXCEPT ![Job] = Worked!P!Idle]
  /\ (UNCHANGED Worked!P!process)
       <=> SeenWorker' = SeenWorker /\ UNCHANGED <<poller, agents, stray, restarts>>
  /\ (UNCHANGED Worked!P!ledger)
       <=> UNCHANGED <<jobs, idem, deadLetters, rows, conversations, settledBy>>
BY DEF Worked!P!Goto, Worked!P!Done, Worked!P!process, Worked!P!ledger, SeenWorker, Seen,
   Worked!Jobs

LEMMA WorkerStays ==
  ASSUME RowTypes, RowTypes', Worked!StageOf' = Worked!StageOf,
         Worked!StageOf = "idle" \/ (work'.token = work.token /\ work'.aborted = work.aborted)
  PROVE  SeenWorker' = SeenWorker
BY SeenNow, SeenThen DEF SeenWorker

LEMMA WorkerGoes ==
  ASSUME RowTypes, RowTypes', Worked!StageOf # "idle", Worked!StageOf' # "idle",
         work'.token = work.token, work'.aborted = work.aborted
  PROVE  Worked!P!Goto(Job, Worked!StageOf')
<1>1. /\ Seen = [stage |-> Worked!StageOf, token |-> work.token, aborted |-> work.aborted]
      /\ Seen' = [stage |-> Worked!StageOf', token |-> work.token, aborted |-> work.aborted]
  BY SeenNow, SeenThen
<1>2. Seen' = [Seen EXCEPT !.stage = Worked!StageOf']
  BY <1>1
<1>3. SeenWorker' = [SeenWorker EXCEPT ![Job].stage = Worked!StageOf']
  BY <1>2 DEF SeenWorker
<1> QED BY <1>3, PollerMoves

LEMMA WorkerDone ==
  ASSUME RowTypes', Worked!StageOf' = "idle"
  PROVE  Worked!P!Done(Job)
<1>1. Seen' = Worked!P!Idle
  BY SeenThen
<1>2. SeenWorker' = [SeenWorker EXCEPT ![Job] = Worked!P!Idle]
  BY <1>1 DEF SeenWorker
<1> QED BY <1>2, PollerMoves

(* The ledger of Poller is the ledger. *)

LEMMA SameWrites ==
  ASSUME NEW t
  PROVE  /\ Worked!Q!Fenced(Job, t) => Worked!P!Q!Fenced(Job, t)
         /\ Worked!Q!MarkRunning(Job, t) => Worked!P!Q!MarkRunning(Job, t)
         /\ Worked!Q!Heartbeat(Job, t) => Worked!P!Q!Heartbeat(Job, t)
         /\ Worked!Q!DeadLetter(Job, t) => Worked!P!Q!DeadLetter(Job, t)
         /\ Worked!Q!FailAttempt(Job, t) => Worked!P!Q!FailAttempt(Job, t)
         /\ \A suppress, conversation \in BOOLEAN :
              Worked!Q!CommitResult(Job, t, suppress, conversation, 1) =>
                Worked!P!Q!CommitResult(Job, t, suppress, conversation, 1)
<1>1. Worked!Q!Fenced(Job, t) <=> Worked!P!Q!Fenced(Job, t)
  BY DEF Worked!Q!Fenced, Worked!P!Q!Fenced, Worked!Q!Claimed, Worked!P!Q!Claimed
<1>2. Worked!Q!MarkRunning(Job, t) => Worked!P!Q!MarkRunning(Job, t)
  BY <1>1 DEF Worked!Q!MarkRunning, Worked!P!Q!MarkRunning
<1>3. Worked!Q!Heartbeat(Job, t) => Worked!P!Q!Heartbeat(Job, t)
  BY <1>1 DEF Worked!Q!Heartbeat, Worked!P!Q!Heartbeat
<1>4. Worked!Q!DeadLetter(Job, t) => Worked!P!Q!DeadLetter(Job, t)
  BY <1>1 DEF Worked!Q!DeadLetter, Worked!P!Q!DeadLetter, Worked!Q!DeadLettered,
     Worked!P!Q!DeadLettered, Worked!Q!Buried, Worked!P!Q!Buried
<1>5. Worked!Q!FailAttempt(Job, t) => Worked!P!Q!FailAttempt(Job, t)
  BY <1>1, <1>4 DEF Worked!Q!FailAttempt, Worked!P!Q!FailAttempt, Worked!Q!Retry,
     Worked!P!Q!Retry
<1>6. \A suppress, conversation \in BOOLEAN :
        Worked!Q!CommitResult(Job, t, suppress, conversation, 1) =>
          Worked!P!Q!CommitResult(Job, t, suppress, conversation, 1)
  BY <1>1 DEF Worked!Q!CommitResult, Worked!P!Q!CommitResult
<1> QED BY <1>1, <1>2, <1>3, <1>4, <1>5, <1>6

LEMMA SameTurns ==
  /\ Worked!Q!Claim({}) => Worked!P!Q!Claim({})
  /\ Worked!Q!InitializeQueue => Worked!P!Q!InitializeQueue
  /\ Worked!Q!LeaseLapses(Job) => Worked!P!Q!LeaseLapses(Job)
  /\ Worked!Q!BackoffElapses(Job) => Worked!P!Q!BackoffElapses(Job)
<1>1. Worked!Q!Claim({}) => Worked!P!Q!Claim({})
  <2>1. \A j : Worked!Q!Eligible(j) <=> Worked!P!Q!Eligible(j)
    BY DEF Worked!Q!Eligible, Worked!P!Q!Eligible, Worked!Q!Waiting, Worked!P!Q!Waiting,
       Worked!Q!Claimed, Worked!P!Q!Claimed
  <2>2. Worked!Q!Exhausted({}) = Worked!P!Q!Exhausted({})
    BY <2>1 DEF Worked!Q!Exhausted, Worked!P!Q!Exhausted
  <2>3. Worked!Q!Swept({}) = Worked!P!Q!Swept({})
    BY <2>2 DEF Worked!Q!Swept, Worked!P!Q!Swept, Worked!Q!DeadLettered,
       Worked!P!Q!DeadLettered
  <2>4. \A t, j : Worked!Q!Unblocked(t, j) <=> Worked!P!Q!Unblocked(t, j)
    BY DEF Worked!Q!Unblocked, Worked!P!Q!Unblocked, Worked!Q!Terminal, Worked!P!Q!Terminal
  <2>5. Worked!Q!Candidates({}) = Worked!P!Q!Candidates({})
    BY <2>1, <2>3, <2>4 DEF Worked!Q!Candidates, Worked!P!Q!Candidates
  <2>6. \A r : Worked!Q!ClaimedRow(r) = Worked!P!Q!ClaimedRow(r)
    BY DEF Worked!Q!ClaimedRow, Worked!P!Q!ClaimedRow
  <2>7. Worked!Q!Buried(Worked!Q!Exhausted({})) = Worked!P!Q!Buried(Worked!P!Q!Exhausted({}))
    BY <2>2 DEF Worked!Q!Buried, Worked!P!Q!Buried
  <2> QED BY <2>2, <2>3, <2>5, <2>6, <2>7 DEF Worked!Q!Claim, Worked!P!Q!Claim
<1>2. Worked!Q!InitializeQueue => Worked!P!Q!InitializeQueue
  BY DEF Worked!Q!InitializeQueue, Worked!P!Q!InitializeQueue, Worked!Q!RecoverExpired,
     Worked!P!Q!RecoverExpired, Worked!Q!RecoverAdmission, Worked!P!Q!RecoverAdmission,
     Worked!Q!Claimed, Worked!P!Q!Claimed
<1>3. Worked!Q!LeaseLapses(Job) => Worked!P!Q!LeaseLapses(Job)
  BY DEF Worked!Q!LeaseLapses, Worked!P!Q!LeaseLapses
<1>4. Worked!Q!BackoffElapses(Job) => Worked!P!Q!BackoffElapses(Job)
  BY DEF Worked!Q!BackoffElapses, Worked!P!Q!BackoffElapses
<1> QED BY <1>1, <1>2, <1>3, <1>4

LEMMA SameReceipt ==
  Worked!Q!Enqueue(Job, Session, Null, FALSE) => Worked!P!Q!Enqueue(Job, Session, Null, FALSE)
<1>1. Worked!Q!NextSequence(Session) = Worked!P!Q!NextSequence(Session)
  BY DEF Worked!Q!NextSequence, Worked!P!Q!NextSequence, Worked!Q!InSession,
     Worked!P!Q!InSession, Worked!Q!Present, Worked!P!Q!Present
<1>2. Worked!Q!Disowned(Null) = Worked!P!Q!Disowned(Null)
  BY DEF Worked!Q!Disowned, Worked!P!Q!Disowned
<1>3. Worked!Q!NoRow = Worked!P!Q!NoRow
  BY DEF Worked!Q!NoRow, Worked!P!Q!NoRow
<1> QED BY <1>1, <1>2, <1>3 DEF Worked!Q!Enqueue, Worked!P!Q!Enqueue

LEMMA Stutters ==
  ASSUME SeenWorker' = SeenWorker, UNCHANGED <<Worked!ledger, Worked!container>>
  PROVE  UNCHANGED Worked!P!vars
BY PollerMoves DEF Worked!P!vars, Worked!ledger, Worked!container

LEMMA InPoller ==
  ASSUME Worked!P!Step(Job) \/ Worked!P!Renew(Job) \/ Worked!P!RenewFails(Job)
           \/ Worked!P!LeaseLapses(Job) \/ Worked!P!BackoffElapses(Job)
           \/ Worked!P!Receive \/ Worked!P!Poll \/ Worked!P!Crash
           \/ Worked!P!KillOrphans \/ Worked!P!OrphanExits \/ Worked!P!Start
  PROVE  Worked!P!Next
BY DEF Worked!P!Next, Worked!Jobs

LEMMA PreparingSteps ==
  ASSUME RowInv, RowInv', poller = "up", work.step \in Preparing,
         work'.step \in Preparing \cup {"failed", "hopeless", "booting"},
         work'.step = "booting" => ~work.aborted,
         work'.token = work.token, work'.aborted = work.aborted,
         UNCHANGED <<Worked!ledger, Worked!container>>
  PROVE  [Worked!P!Next]_(Worked!P!vars)
<1>1. RowTypes /\ RowTypes' /\ Worked!StageOf = "preparing"
  BY StageNow DEF RowInv
<1>2. CASE work'.step \in Preparing
  <2>1. Worked!StageOf' = Worked!StageOf
    BY <1>1, <1>2, StageThen
  <2> QED BY <1>1, <2>1, WorkerStays, Stutters
<1>3. CASE work'.step \in {"failed", "hopeless", "booting"}
  <2>1. Worked!StageOf' = work'.step
    BY <1>3, StageThen
  <2>2. Worked!P!Goto(Job, work'.step)
    BY <1>1, <1>3, <2>1, WorkerGoes
  <2>3. Worked!P!At(Job, "preparing") /\ Worked!P!Held(Job) = work.token
    BY <1>1, PollerTerms
  <2>4. work'.step = "booting" =>
          Worked!P!Q!Fenced(Job, Worked!P!Held(Job)) /\ ~SeenWorker[Job].aborted
    <3>1. Worked!Q!Fenced(Job, work.token)
      BY DEF RowInv, RowHeld, Preparing, Worked!Q!Fenced
    <3>2. SeenWorker[Job].aborted = work.aborted
      BY <1>1, SeenNow DEF SeenWorker
    <3> QED BY <2>3, <3>1, <3>2, SameWrites
  <2>5. (UNCHANGED Worked!P!ledger) /\ UNCHANGED <<poller, agents, stray, restarts>>
    BY PollerMoves DEF Worked!ledger, Worked!container
  <2>6. Worked!P!Prepare(Job)
    BY <1>3, <2>2, <2>3, <2>4, <2>5 DEF Worked!P!Prepare, SeenWorker, Seen, Worked!Jobs
  <2> QED BY <2>6, InPoller DEF Worked!P!Step
<1> QED BY <1>2, <1>3

LEMMA BeforeTheContainer ==
  ASSUME RowInv, RowInv',
         Worked!Begin \/ Worked!Capture \/ Worked!Freeze \/ Worked!CreateCronThread
           \/ Worked!SaveThread \/ Worked!StartRun
  PROVE  [Worked!P!Next]_(Worked!P!vars)
<1>1. work \in WorkOf
  BY DEF RowInv, RowTypes
<1>2. poller = "up" /\ work.step \in Preparing
  BY DEF Worked!Begin, Worked!Capture, Worked!Freeze, Worked!CreateCronThread,
     Worked!SaveThread, Worked!StartRun, Worked!At, Preparing
<1>3. UNCHANGED <<Worked!ledger, Worked!container>>
  BY DEF Worked!Begin, Worked!Capture, Worked!Freeze, Worked!CreateCronThread,
     Worked!SaveThread, Worked!StartRun
<1>4. /\ work'.step \in Preparing \cup {"failed", "hopeless", "booting"}
      /\ work'.step = "booting" => ~work.aborted
      /\ work'.token = work.token /\ work'.aborted = work.aborted
  <2>1. CASE Worked!Begin
    BY <1>1, <2>1 DEF Worked!Begin, Worked!Goto, WorkOf, Preparing
  <2>2. CASE Worked!Capture
    BY <1>1, <2>2 DEF Worked!Capture, WorkOf, Preparing
  <2>3. CASE Worked!Freeze
    BY <1>1, <2>3 DEF Worked!Freeze, WorkOf, Preparing
  <2>4. CASE Worked!CreateCronThread
    BY <1>1, <2>4 DEF Worked!CreateCronThread, Worked!LostAnswer, Worked!Goto, WorkOf,
       Preparing
  <2>5. CASE Worked!SaveThread
    BY <1>1, <2>5 DEF Worked!SaveThread, Worked!Goto, WorkOf, Preparing
  <2>6. CASE Worked!StartRun
    BY <1>1, <2>6 DEF Worked!StartRun, Worked!MayRun, Worked!NoContainer, Worked!Fails,
       Worked!Goto, WorkOf, Preparing
  <2> QED BY <2>1, <2>2, <2>3, <2>4, <2>5, <2>6
<1> QED BY <1>2, <1>3, <1>4, PreparingSteps

(* A step of the run itself. *)
LEMMA RunSteps ==
  ASSUME RowInv, RowInv',
         Worked!Ready \/ Worked!HandlerRuns \/ Worked!BootFails \/ Worked!Exit
           \/ Worked!Lose \/ Worked!CommitFails
  PROVE  [Worked!P!Next]_(Worked!P!vars)
<1>1. RowTypes /\ RowTypes' /\ work \in WorkOf /\ poller = "up"
  BY DEF RowInv, RowTypes, Worked!Ready, Worked!HandlerRuns, Worked!BootFails, Worked!Exit,
     Worked!Lose, Worked!CommitFails, Worked!At
<1>2. ASSUME NEW step, NEW next \in {"running", "answered", "failed", "hopeless"},
             work.step = step, step \in {"begin", "booting", "running", "answered"},
             work' = [work EXCEPT !.step = next]
      PROVE  /\ Worked!P!At(Job, IF step = "begin" THEN "preparing" ELSE step)
             /\ Worked!P!Goto(Job, next)
             /\ Worked!P!Held(Job) = work.token /\ Worked!P!Agent(Job) = Worked!Agent
             /\ SeenWorker[Job].aborted = work.aborted
  <2>1. Worked!StageOf = IF step = "begin" THEN "preparing" ELSE step
    BY <1>2, StageNow DEF Preparing
  <2>2. work'.step = next /\ work'.token = work.token /\ work'.aborted = work.aborted
    BY <1>1, <1>2 DEF WorkOf
  <2>3. Worked!StageOf' = next
    BY <1>2, <2>2, StageThen
  <2>4. Worked!StageOf # "idle"
    BY <1>2, <2>1
  <2>5. Worked!P!Goto(Job, next)
    BY <1>1, <1>2, <2>2, <2>3, <2>4, WorkerGoes
  <2>6. SeenWorker[Job].aborted = work.aborted
    BY <1>1, <2>4, SeenNow DEF SeenWorker
  <2> QED BY <1>1, <2>1, <2>4, <2>5, <2>6, PollerTerms
<1>3. ~Worked!P!Ticket(Job)
  BY <1>1, PollerTerms
<1>4. CASE Worked!Ready
  <2>1. /\ work.step = "booting" /\ work' = [work EXCEPT !.step = "running"] /\ ~work.aborted
        /\ Worked!Q!MarkRunning(Job, work.token)
        /\ agents' = agents \cup {Worked!Agent} /\ UNCHANGED <<poller, stray, restarts>>
    BY <1>4 DEF Worked!Ready, Worked!At, Worked!Goto, Worked!MayRun
  <2>2. /\ Worked!P!At(Job, "booting") /\ Worked!P!Goto(Job, "running")
        /\ Worked!P!Held(Job) = work.token /\ Worked!P!Agent(Job) = Worked!Agent
        /\ SeenWorker[Job].aborted = work.aborted
    BY <1>2, <2>1
  <2>3. Worked!P!Ready(Job)
    BY <2>1, <2>2, SameWrites DEF Worked!P!Ready, SeenWorker, Seen, Worked!Jobs
  <2> QED BY <2>3, InPoller DEF Worked!P!Step
<1>5. CASE Worked!HandlerRuns
  <2>1. /\ work.step = "begin" /\ work' = [work EXCEPT !.step = "running"]
        /\ Worked!Q!MarkRunning(Job, work.token)
        /\ UNCHANGED <<poller, agents, stray, restarts>>
    BY <1>5 DEF Worked!HandlerRuns, Worked!At, Worked!Goto, Worked!container
  <2>2. /\ Worked!P!At(Job, "preparing") /\ Worked!P!Goto(Job, "running")
        /\ Worked!P!Held(Job) = work.token
    BY <1>2, <2>1
  <2>3. Worked!P!HandlerRuns(Job)
    BY <2>1, <2>2, SameWrites DEF Worked!P!HandlerRuns
  <2> QED BY <2>3, InPoller DEF Worked!P!Step
<1>6. CASE Worked!BootFails
  <2>1. PICK next \in {"failed", "hopeless"} : work' = [work EXCEPT !.step = next]
    BY <1>6 DEF Worked!BootFails, Worked!NoContainer, Worked!Fails, Worked!Goto
  <2>2. work.step = "booting" /\ UNCHANGED <<Worked!ledger, Worked!container>>
    BY <1>6 DEF Worked!BootFails, Worked!At
  <2>3. Worked!P!At(Job, "booting") /\ Worked!P!Goto(Job, next)
    BY <1>2, <2>1, <2>2
  <2>4. Worked!P!BootFails(Job)
    BY <2>1, <2>2, <2>3, PollerMoves
       DEF Worked!P!BootFails, Worked!ledger, Worked!container
  <2> QED BY <2>4, InPoller DEF Worked!P!Step
<1>7. CASE Worked!Exit
  <2>1. PICK next \in {"answered", "failed", "hopeless"} : work' = [work EXCEPT !.step = next]
    BY <1>7 DEF Worked!Exit, Worked!Fails, Worked!Goto
  <2>2. /\ work.step = "running" /\ agents' = agents \ {Worked!Agent}
        /\ UNCHANGED <<Worked!ledger, poller, stray, restarts>>
    BY <1>7 DEF Worked!Exit, Worked!At
  <2>3. /\ Worked!P!At(Job, "running") /\ Worked!P!Goto(Job, next)
        /\ Worked!P!Agent(Job) = Worked!Agent
    BY <1>2, <2>1, <2>2
  <2>4. Worked!P!Exit(Job)
    BY <1>3, <2>1, <2>2, <2>3, PollerMoves DEF Worked!P!Exit, Worked!ledger
  <2> QED BY <2>4, InPoller DEF Worked!P!Step
<1>8. CASE Worked!Lose
  <2>1. PICK next \in {"failed", "hopeless"} : work' = [work EXCEPT !.step = next]
    BY <1>8 DEF Worked!Lose, Worked!Fails, Worked!Goto
  <2>2. /\ work.step = "running"
        /\ Worked!Agent \in agents /\ stray' = stray \cup {Worked!Agent}
        /\ UNCHANGED <<Worked!ledger, poller, agents, restarts>>
    BY <1>8 DEF Worked!Lose, Worked!At
  <2>3. /\ Worked!P!At(Job, "running") /\ Worked!P!Goto(Job, next)
        /\ Worked!P!Agent(Job) = Worked!Agent
    BY <1>2, <2>1, <2>2
  <2>4. Worked!P!ClientEnds(Job)
    BY <1>3, <2>1, <2>2, <2>3, PollerMoves
       DEF Worked!P!ClientEnds, Worked!P!LostClient, Worked!ledger
  <2> QED BY <2>4, InPoller DEF Worked!P!Step
<1>9. CASE Worked!CommitFails
  <2>1. PICK next \in {"failed", "hopeless"} : work' = [work EXCEPT !.step = next]
    BY <1>9 DEF Worked!CommitFails, Worked!Fails, Worked!Goto
  <2>2. work.step = "answered" /\ UNCHANGED <<Worked!ledger, Worked!container>>
    BY <1>9 DEF Worked!CommitFails, Worked!At
  <2>3. Worked!P!At(Job, "answered") /\ Worked!P!Goto(Job, next)
    BY <1>2, <2>1, <2>2
  <2>4. Worked!P!CommitFails(Job)
    BY <1>3, <2>1, <2>2, <2>3, PollerMoves
       DEF Worked!P!CommitFails, Worked!ledger, Worked!container
  <2> QED BY <2>4, InPoller DEF Worked!P!Step
<1> QED BY <1>4, <1>5, <1>6, <1>7, <1>8, <1>9

(* The end of the attempt. *)
LEMMA EndSteps ==
  ASSUME RowInv, RowInv', Worked!Settle \/ Worked!SettleFails \/ Worked!Tell
  PROVE  [Worked!P!Next]_(Worked!P!vars)
<1>1. RowTypes /\ RowTypes' /\ work \in WorkOf /\ poller = "up"
  BY DEF RowInv, RowTypes, Worked!Settle, Worked!SettleFails, Worked!Tell, Worked!At
<1>2. ASSUME work.step \in {"answered", "failed", "hopeless"}
      PROVE  /\ Worked!StageOf = work.step /\ Worked!P!At(Job, work.step)
             /\ Worked!P!Held(Job) = work.token /\ Worked!Q!Fenced(Job, work.token)
  <2>1. Worked!StageOf = work.step
    BY <1>2, StageNow
  <2>2. Worked!Q!Fenced(Job, work.token)
    BY <1>2 DEF RowInv, RowHeld, Worked!Q!Fenced
  <2> QED BY <1>1, <1>2, <2>1, <2>2, PollerTerms
<1>3. CASE Worked!Settle
  <2>1. /\ work.step \in {"answered", "failed", "hopeless"} /\ work' = Worked!NextOf(TRUE)
        /\ UNCHANGED <<poller, agents, stray, restarts>>
    BY <1>3 DEF Worked!Settle, Worked!At, Worked!container
  <2>2. work'.step \in {"idle", "tell"} /\ (work'.step = "tell" => work'.token = work.token)
    BY <1>1, <2>1, TellsNext
  <2>3. \/ /\ work.step = "answered"
           /\ \E suppress, conversation \in BOOLEAN :
                Worked!Q!CommitResult(Job, work.token, suppress, conversation, 1)
        \/ work.step = "answered" /\ Worked!Q!DeadLetter(Job, work.token)
        \/ work.step = "failed" /\ Worked!Q!FailAttempt(Job, work.token)
        \/ work.step = "hopeless" /\ Worked!Q!DeadLetter(Job, work.token)
    BY <1>3 DEF Worked!Settle, Worked!At
  <2>4. RowBecomes("completed") \/ RowBecomes("retry_wait") \/ RowBecomes("dead_letter")
    BY <1>1, <2>3, RowCommitted, RowDeadLettered, RowFailed
  <2>5. Worked!StageOf' = "idle"
    BY <2>2, <2>4, StageThen, RowTerms DEF RowBecomes, Worked!Q!Fenced
  <2>6. Worked!P!Done(Job)
    BY <1>1, <2>5, WorkerDone
  <2>7. Worked!P!At(Job, work.step) /\ Worked!P!Held(Job) = work.token
    BY <1>2, <2>1
  <2>8. \/ /\ Worked!P!At(Job, "answered")
           /\ \/ \E suppress, conversation \in BOOLEAN, chunks \in 1 .. 1 :
                   Worked!P!Q!CommitResult(Job, Worked!P!Held(Job), suppress, conversation,
                                           chunks)
              \/ Worked!P!Q!DeadLetter(Job, Worked!P!Held(Job))
        \/ Worked!P!At(Job, "failed") /\ Worked!P!Q!FailAttempt(Job, Worked!P!Held(Job))
        \/ Worked!P!At(Job, "hopeless") /\ Worked!P!Q!DeadLetter(Job, Worked!P!Held(Job))
    <3>1. 1 \in 1 .. 1
      OBVIOUS
    <3> QED BY <2>3, <2>7, <3>1, SameWrites
  <2>9. Worked!P!Settle(Job)
    BY <2>1, <2>6, <2>8 DEF Worked!P!Settle
  <2> QED BY <2>9, InPoller DEF Worked!P!Step
<1>4. CASE Worked!SettleFails
  <2>1. /\ work.step \in {"answered", "failed", "hopeless"} /\ work' = Worked!NextOf(FALSE)
        /\ UNCHANGED <<Worked!ledger, Worked!container>>
    BY <1>4 DEF Worked!SettleFails, Worked!At
  <2>2. /\ work'.step \in {"idle", "tell"}
        /\ work'.step = "tell" =>
             /\ work'.end = work.step /\ work'.token = work.token
             /\ work'.aborted = work.aborted
    BY <1>1, <2>1, TellsNext
  <2>3. CASE work'.step = "tell"
    <3>1. Worked!Q!Fenced(Job, work.token)'
      BY <1>2, <2>1, <2>2, <2>3 DEF Worked!Q!Fenced, Worked!ledger
    <3>2. Worked!StageOf' = Worked!StageOf
      BY <1>2, <2>1, <2>2, <2>3, <3>1, StageThen
    <3> QED BY <1>1, <2>1, <2>2, <2>3, <3>2, WorkerStays, Stutters
  <2>4. CASE work'.step = "idle"
    <3>1. Worked!P!Done(Job)
      BY <1>1, <2>4, StageThen, WorkerDone
    <3>2. Worked!P!SettleFails(Job)
      BY <1>2, <2>1, <3>1, PollerMoves
         DEF Worked!P!SettleFails, Worked!ledger, Worked!container
    <3> QED BY <3>2, InPoller DEF Worked!P!Step
  <2> QED BY <2>2, <2>3, <2>4
<1>5. CASE Worked!Tell
  <2>1. /\ work.step = "tell" /\ work' = Worked!Idle
        /\ UNCHANGED <<Worked!ledger, Worked!container>>
    BY <1>5 DEF Worked!Tell, Worked!At
  <2>2. Worked!StageOf' = "idle"
    BY <2>1, StageThen DEF Worked!Idle
  <2>3. Worked!StageOf = "idle" \/ Worked!StageOf \in {"answered", "failed", "hopeless"}
    BY <2>1, StageNow DEF RowInv, RowHeld
  <2>4. CASE Worked!StageOf = "idle"
    BY <1>1, <2>1, <2>2, <2>4, WorkerStays, Stutters
  <2>5. CASE Worked!StageOf \in {"answered", "failed", "hopeless"}
    <3>1. Worked!P!At(Job, Worked!StageOf) /\ Worked!P!Done(Job)
      BY <1>1, <2>2, PollerTerms, WorkerDone
    <3>2. Worked!P!SettleFails(Job)
      BY <2>1, <2>5, <3>1, PollerMoves
         DEF Worked!P!SettleFails, Worked!ledger, Worked!container
    <3> QED BY <3>2, InPoller DEF Worked!P!Step
  <2> QED BY <2>3, <2>4, <2>5
<1> QED BY <1>3, <1>4, <1>5

(* The other steps of the process. *)

LEMMA StageKept ==
  ASSUME work' = work,
         Worked!Q!Fenced(Job, work.token)' <=> Worked!Q!Fenced(Job, work.token)
  PROVE  Worked!StageOf' = Worked!StageOf
BY DEF Worked!StageOf

LEMMA OtherSteps ==
  ASSUME RowInv, RowInv',
         Worked!Receive \/ Worked!Renew \/ Worked!RenewFails \/ Worked!EditPrompt
           \/ Worked!OrphanExits \/ Worked!Start \/ Worked!Time
  PROVE  [Worked!P!Next]_(Worked!P!vars)
<1>1. RowTypes /\ RowTypes' /\ work \in WorkOf
  BY DEF RowInv, RowTypes
<1>2. CASE Worked!Receive
  <2>1. /\ poller = "up" /\ work' = work
        /\ Worked!Q!Enqueue(Job, Session, Null, FALSE)
        /\ UNCHANGED <<poller, agents, stray, restarts>>
    BY <1>2 DEF Worked!Receive, Worked!container
  <2>2. jobs[Job].status = "absent" /\ jobs'[Job].status = "queued"
    BY <1>1, <2>1, RowReceived
  <2>3. SeenWorker' = SeenWorker
    BY <1>1, <2>1, <2>2, StageKept, WorkerStays, RowTerms DEF Worked!Q!Fenced
  <2>4. Worked!P!Receive
    BY <2>1, <2>3, SameReceipt, PollerMoves
       DEF Worked!P!Receive, Worked!Jobs, Worked!Sessions
  <2> QED BY <2>4, InPoller
<1>3. CASE Worked!Renew
  <2>1. /\ poller = "up" /\ work' = work /\ work.step # "idle"
        /\ Worked!Q!Heartbeat(Job, work.token)
        /\ UNCHANGED <<poller, agents, stray, restarts>>
    BY <1>3 DEF Worked!Renew, Worked!container
  <2>2. RowBecomes(jobs[Job].status) /\ Worked!Q!Fenced(Job, work.token)
    BY <1>1, <2>1, RowRenewed
  <2>3. SeenWorker' = SeenWorker
    BY <1>1, <2>1, <2>2, StageKept, WorkerStays DEF Worked!Q!Fenced, RowBecomes
  <2>4. Worked!StageOf # "idle"
    BY <1>1, <2>1, <2>2, StageNow DEF RowInv, RowHeld, WorkOf, Worked!Steps, Preparing
  <2>5. Worked!P!Renew(Job)
    BY <1>1, <2>1, <2>3, <2>4, SameWrites, PollerTerms, PollerMoves DEF Worked!P!Renew
  <2> QED BY <2>5, InPoller
<1>4. CASE Worked!RenewFails
  <2>1. /\ poller = "up" /\ work' = [work EXCEPT !.aborted = TRUE]
        /\ work.step \notin {"idle", "tell"}
        /\ UNCHANGED <<Worked!ledger, Worked!container>>
    BY <1>4 DEF Worked!RenewFails
  <2>2. /\ work'.step = work.step /\ work'.token = work.token /\ work'.aborted = TRUE
    BY <1>1, <2>1 DEF WorkOf
  <2>3. Worked!StageOf' = Worked!StageOf /\ Worked!StageOf # "idle"
    BY <1>1, <2>1, <2>2, StageNow, StageThen DEF WorkOf, Worked!Steps, Preparing
  <2>4. Seen' = [stage |-> Worked!StageOf, token |-> work.token, aborted |-> TRUE]
    BY <1>1, <2>2, <2>3, SeenThen
  <2>5. Seen = [stage |-> Worked!StageOf, token |-> work.token, aborted |-> work.aborted]
    BY <1>1, <2>3, SeenNow
  <2>6. SeenWorker' = [SeenWorker EXCEPT ![Job].aborted = TRUE]
    BY <2>4, <2>5 DEF SeenWorker
  <2>7. Worked!P!RenewFails(Job)
    BY <1>1, <2>1, <2>3, <2>6, PollerTerms, PollerMoves
       DEF Worked!P!RenewFails, Worked!ledger, Worked!container, SeenWorker, Seen,
           Worked!Jobs
  <2> QED BY <2>7, InPoller
<1>5. CASE Worked!EditPrompt
  <2>1. work' = work /\ UNCHANGED <<Worked!ledger, Worked!container>>
    BY <1>5 DEF Worked!EditPrompt
  <2>2. SeenWorker' = SeenWorker
    BY <1>1, <2>1, StageKept, WorkerStays DEF Worked!Q!Fenced, Worked!ledger
  <2> QED BY <2>1, <2>2, Stutters
<1>6. CASE Worked!Start
  <2>1. /\ poller = "cleaned" /\ poller' = "up" /\ work' = work
        /\ Worked!Q!InitializeQueue /\ UNCHANGED <<agents, stray, restarts>>
    BY <1>6 DEF Worked!Start
  <2>2. work.step = "idle"
    BY <2>1 DEF RowInv, RowHeld
  <2>3. SeenWorker' = SeenWorker
    BY <1>1, <2>1, <2>2, StageNow, StageThen, WorkerStays
  <2>4. Worked!P!Start
    BY <2>1, <2>3, SameTurns DEF Worked!P!Start, SeenWorker, Seen, Worked!Jobs
  <2> QED BY <2>4, InPoller
<1>7. CASE Worked!Time
  <2>1. /\ work' = work /\ UNCHANGED <<poller, agents, stray, restarts>>
        /\ Worked!Q!LeaseLapses(Job) \/ Worked!Q!BackoffElapses(Job)
    BY <1>7 DEF Worked!Time, Worked!container
  <2>2. RowBecomes(jobs[Job].status)
    BY <1>1, <2>1, RowTimed
  <2>3. SeenWorker' = SeenWorker
    BY <1>1, <2>1, <2>2, StageKept, WorkerStays DEF Worked!Q!Fenced, RowBecomes
  <2>4. Worked!P!LeaseLapses(Job) \/ Worked!P!BackoffElapses(Job)
    BY <2>1, <2>3, SameTurns, PollerMoves DEF Worked!P!LeaseLapses, Worked!P!BackoffElapses
  <2> QED BY <2>4, InPoller
<1>8. CASE Worked!OrphanExits
  <2>1. /\ work' = work /\ UNCHANGED <<Worked!ledger, poller, restarts>>
        /\ \E a \in (IF poller = "up" THEN stray ELSE agents) :
             agents' = agents \ {a} /\ stray' = stray \ {a}
    BY <1>8 DEF Worked!OrphanExits
  <2>2. SeenWorker' = SeenWorker
    BY <1>1, <2>1, StageKept, WorkerStays DEF Worked!Q!Fenced, Worked!ledger
  <2>3. Worked!P!OrphanExits
    BY <2>1, <2>2, PollerMoves
       DEF Worked!P!OrphanExits, Worked!ledger, SeenWorker, Seen, Worked!Jobs
  <2> QED BY <2>3, InPoller
<1> QED BY <1>2, <1>3, <1>4, <1>5, <1>6, <1>7, <1>8

LEMMA PollStep ==
  ASSUME RowInv, RowInv', Worked!Poll
  PROVE  Worked!P!Next
<1>1. RowTypes /\ RowTypes' /\ poller = "up" /\ jobs[Job].token \in Nat
  BY RowFields DEF RowInv, RowTypes, Worked!Poll
<1>2. PICK busy \in BOOLEAN : busy = (work.step = "idle")
  OBVIOUS
<1>3. Worked!Q!Claim(IF busy THEN {} ELSE {Job})
  BY <1>2 DEF Worked!Poll
<1>4. /\ busy
      /\ \/ jobs'[Job].token = jobs[Job].token
         \/ jobs'[Job].status = "claimed" /\ jobs'[Job].token = jobs[Job].token + 1
  BY <1>1, <1>3, RowClaims
<1>5. work.step = "idle"
  BY <1>2, <1>4
<1>6. Worked!Q!Claim({})
  BY <1>3, <1>4
<1>7. Worked!StageOf = "idle" /\ Worked!P!InFlight = {}
  BY <1>1, <1>5, StageNow, PollerTerms
<1>8. UNCHANGED <<poller, agents, stray, restarts>>
  BY DEF Worked!Poll, Worked!container
<1>9. work' = IF jobs'[Job].token > jobs[Job].token
              THEN [Worked!Idle EXCEPT !.step = "begin", !.token = jobs'[Job].token,
                                       !.thread = saved.thread, !.prompt = saved.prompt]
              ELSE work
  BY DEF Worked!Poll
<1>10. Seen' = IF jobs'[Job].token > jobs[Job].token
               THEN [stage |-> "preparing", token |-> jobs'[Job].token, aborted |-> FALSE]
               ELSE Seen
  <2>1. CASE jobs'[Job].token = jobs[Job].token
    <3>1. work' = work /\ ~(jobs'[Job].token > jobs[Job].token)
      BY <1>1, <1>9, <2>1
    <3>2. Worked!StageOf' = "idle"
      BY <1>5, <3>1, StageThen
    <3> QED BY <1>1, <1>7, <3>1, <3>2, SeenNow, SeenThen
  <2>2. CASE jobs'[Job].token = jobs[Job].token + 1
    <3>1. jobs'[Job].token > jobs[Job].token
      BY <1>1, <2>2
    <3>2. work' = [Worked!Idle EXCEPT !.step = "begin", !.token = jobs'[Job].token,
                                      !.thread = saved.thread, !.prompt = saved.prompt]
      BY <1>9, <3>1
    <3>3. work'.step = "begin" /\ work'.token = jobs'[Job].token
      BY <3>2 DEF Worked!Idle
    <3>4. work'.aborted = FALSE
      BY <3>2 DEF Worked!Idle
    <3>5. Worked!StageOf' = "preparing"
      BY <3>3, StageThen DEF Preparing
    <3> QED BY <1>1, <3>1, <3>3, <3>4, <3>5, SeenThen
  <2> QED BY <1>4, <2>1, <2>2
<1>11. SeenWorker' = [j \in {Job} |->
         IF jobs'[j].token > jobs[j].token
         THEN [stage |-> "preparing", token |-> jobs'[j].token, aborted |-> FALSE]
         ELSE SeenWorker[j]]
  BY <1>10 DEF SeenWorker
<1>12. Worked!P!Poll
  BY <1>1, <1>6, <1>7, <1>8, <1>11, SameTurns
     DEF Worked!P!Poll, SeenWorker, Seen, Worked!Jobs
<1> QED BY <1>12, InPoller

LEMMA CrashSteps ==
  ASSUME RowInv, RowInv', Worked!Crash \/ Worked!KillOrphans
  PROVE  Worked!P!Next
<1>1. RowTypes /\ RowTypes'
  BY DEF RowInv
<1>2. CASE Worked!Crash
  <2>1. /\ poller = "up" /\ restarts < MaxCrashes /\ poller' = "down"
        /\ restarts' = restarts + 1 /\ work' = Worked!Idle
        /\ UNCHANGED <<Worked!ledger, agents, stray>>
    BY <1>2 DEF Worked!Crash
  <2>2. Seen' = Worked!P!Idle
    BY <1>1, <2>1, StageThen, SeenThen DEF Worked!Idle
  <2>3. SeenWorker' = [j \in {Job} |-> Worked!P!Idle]
    BY <2>2 DEF SeenWorker
  <2>4. Worked!P!Crash
    BY <2>1, <2>3, PollerMoves
       DEF Worked!P!Crash, Worked!ledger, SeenWorker, Seen, Worked!Jobs
  <2> QED BY <2>4, InPoller
<1>3. CASE Worked!KillOrphans
  <2>1. /\ poller = "down" /\ poller' = "cleaned" /\ agents' = {} /\ stray' = {}
        /\ work' = work /\ UNCHANGED <<Worked!ledger, restarts>>
    BY <1>3 DEF Worked!KillOrphans
  <2>2. work.step = "idle"
    BY <2>1 DEF RowInv, RowHeld
  <2>3. SeenWorker' = SeenWorker
    BY <1>1, <2>1, <2>2, StageNow, StageThen, WorkerStays
  <2>4. Worked!P!KillOrphans
    BY <2>1, <2>3, PollerMoves
       DEF Worked!P!KillOrphans, Worked!ledger, SeenWorker, Seen, Worked!Jobs
  <2> QED BY <2>4, InPoller
<1> QED BY <1>2, <1>3

LEMMA PollerStarts == Worked!Init => Worked!P!Init
<1> SUFFICES ASSUME Worked!Init PROVE Worked!P!Init
  OBVIOUS
<1>1. Worked!Q!Init => Worked!P!Q!Init
  BY DEF Worked!Q!Init, Worked!P!Q!Init, Worked!Q!NoRow, Worked!P!Q!NoRow,
     Worked!Q!NoKeyRow, Worked!P!Q!NoKeyRow
<1>2. /\ Worked!Q!Init /\ poller = "up" /\ work = Worked!Idle
      /\ agents = {} /\ stray = {} /\ restarts = 0
  BY DEF Worked!Init
<1>3. RowTypes
  BY RowStarts DEF RowInv
<1>4. Seen = Worked!P!Idle
  BY <1>2, <1>3, StageNow, SeenNow DEF Worked!Idle
<1>5. SeenWorker = [j \in {Job} |-> Worked!P!Idle]
  BY <1>4 DEF SeenWorker
<1> QED BY <1>1, <1>2, <1>5 DEF Worked!P!Init, SeenWorker, Seen, Worked!Jobs

LEMMA PollerSteps ==
  RowInv /\ RowInv' /\ [Worked!Next]_(Worked!vars) => [Worked!P!Next]_(Worked!P!vars)
<1> SUFFICES ASSUME RowInv, RowInv', [Worked!Next]_(Worked!vars)
             PROVE  [Worked!P!Next]_(Worked!P!vars)
  OBVIOUS
<1>1. CASE UNCHANGED Worked!vars
  <2>1. work' = work /\ UNCHANGED <<Worked!ledger, Worked!container>>
    BY <1>1 DEF Worked!vars
  <2>2. SeenWorker' = SeenWorker
    BY <2>1, StageKept, WorkerStays DEF RowInv, Worked!Q!Fenced, Worked!ledger
  <2> QED BY <2>1, <2>2, Stutters
<1>2. CASE Worked!Attempt
  BY <1>2, BeforeTheContainer, RunSteps, EndSteps DEF Worked!Attempt
<1>3. CASE Worked!Next /\ ~Worked!Attempt
  BY <1>3, OtherSteps, PollStep, CrashSteps DEF Worked!Next
<1> QED BY <1>1, <1>2, <1>3

(* Step by step the worker of a row does what Poller says of it, so what   *)
(* is proved of Poller holds of processMessage (queue/poller.ts:974-1227). *)
THEOREM WorkersArePollers == Spec => ImplementsPoller
<1>1. Spec => Worked!Init /\ [][Worked!Next]_(Worked!vars) /\ []RowInv
  BY WorkerPart, RowAlways, PTL DEF Worked!Spec
<1>2. Worked!P!Spec <=> Worked!P!Init /\ [][Worked!P!Next]_(Worked!P!vars)
  BY DEF Worked!P!Spec
<1>3. Spec => Worked!P!Init /\ [][Worked!P!Next]_(Worked!P!vars)
  BY <1>1, PollerStarts, PollerSteps, PTL
<1> QED BY <1>2, <1>3 DEF ImplementsPoller, Worked!ImplementsPoller


-----------------------------------------------------------------------------
(* The agents of the issues *)

ScanRow == [step : {"idle", "load", "reading", "enqueue", "absorb", "record", "write"},
            seen : Triage!Record, image : Triage!Records \cup {Null, Torn}]

TriageTypes ==
  /\ issue \in [Issues -> Triage!Record]
  /\ cache \in Triage!Records \cup {Null}
  /\ statefile \in Triage!Records \cup {Torn}
  /\ scan \in [Issues -> ScanRow]
  /\ pending \in [Issues -> Nat] /\ triages \in [Issues -> Nat] /\ causes \in [Issues -> Nat]

(* A record of an issue in a state s: of then or of before.                *)
Past(r, s) == r.version <= s.version /\ (r.version = s.version => r.comments = s.comments)

(* Every change of an issue counts, a comment among them.  The records in  *)
(* memory, on disk and in the hands of the scans are of the past, and      *)
(* before the first load no scan is further than that.                     *)
RecordsPast(i) ==
  /\ issue[i].comments < issue[i].version
  /\ cache # Null => Past(cache[i], issue[i])
  /\ statefile # Torn => Past(statefile[i], issue[i])
  /\ Past(scan[i].seen, issue[i])
  /\ \A k \in Issues : scan[k].image \in Triage!Records => Past(scan[k].image[i], issue[i])
  /\ cache = Null =>
       /\ scan[i].step \in {"idle", "load", "reading"}
       /\ scan[i].step = "reading" => scan[i].image = statefile
  /\ scan[i].step = "reading" => scan[i].image # Null
  /\ scan[i].step = "write" => scan[i].image \in Triage!Records

(* The agents still to come without another cause, with p at work on an    *)
(* issue in state s of which r was recorded: the comment of one is         *)
(* absorbed, that of each other may start an agent, and a difference that  *)
(* is not one comment starts one.                                          *)
Owes(s, r, p) ==
  IF r.version = s.version THEN IF p = 0 THEN 0 ELSE p - 1
  ELSE IF r.version + 1 = s.version /\ r.comments + 1 = s.comments THEN p
  ELSE p + 1

(* What was queued and is still owed is paid for, by what is recorded and  *)
(* by what a scan will record, also if the scan will queue an agent.  With *)
(* no copy in memory and a file that is cut off no scan gets further.      *)
Paid(lost, s, r, k, p, n, c) ==
  /\ n <= 1 + 2 * c
  /\ ~lost =>
       /\ k.step # "record" => n + Owes(s, r, p) <= 1 + 2 * c
       /\ k.step \notin {"idle", "write"} => n + Owes(s, k.seen, p) <= 1 + 2 * c
       /\ \/ k.step = "enqueue"
          \/ k.step \in {"load", "reading"} /\ Triage!StepFor(k.seen, r) = "enqueue"
          => n + 1 + Owes(s, k.seen, p + 1) <= 1 + 2 * c

Lost == cache = Null /\ statefile = Torn
Recorded(i) == IF cache # Null THEN cache[i] ELSE statefile[i]

IssuePaid(i) ==
  Paid(Lost, issue[i], Recorded(i), scan[i], pending[i], triages[i], causes[i])

TriageInv == TriageTypes /\ \A i \in Issues : RecordsPast(i) /\ IssuePaid(i)

LEMMA Steps == \A s, r \in Triage!Record : Triage!StepFor(s, r) \in {"idle", "absorb", "enqueue"}
BY DEF Triage!StepFor, Triage!Record

LEMMA OwesBounds ==
  ASSUME NEW s \in Triage!Record, NEW r \in Triage!Record, NEW p \in Nat
  PROVE  /\ Owes(s, r, p) \in Nat
         /\ Owes(s, r, p) <= p + 1 /\ p <= Owes(s, r, p) + 1
         /\ Owes(s, r, p + 1) <= Owes(s, r, p) + 1
BY DEF Owes, Triage!Record

(* Nothing is owed that recording the issue of now would add, and what the *)
(* filter finds changed is owed.                                           *)
LEMMA OwesNow ==
  ASSUME NEW s \in Triage!Record, NEW r \in Triage!Record, NEW p \in Nat,
         Past(r, s), s.comments < s.version
  PROVE  /\ Owes(s, s, p) <= Owes(s, r, p)
         /\ Triage!StepFor(s, r) = "enqueue" => 1 + Owes(s, s, p + 1) <= Owes(s, r, p)
<1>1. /\ s.version \in Nat /\ r.version \in Nat /\ s.comments \in Nat /\ r.comments \in Nat
  BY DEF Triage!Record
<1>2. Owes(s, s, p) <= Owes(s, r, p)
  BY <1>1 DEF Owes
<1>3. ASSUME Triage!StepFor(s, r) = "enqueue" PROVE Owes(s, r, p) = p + 1
  <2>1. r.version # s.version
    BY <1>1, <1>3 DEF Triage!StepFor, Triage!New
  <2>2. s.comments # r.comments + 1 \/ r = Triage!New
    BY <1>1, <1>3, <2>1 DEF Triage!StepFor
  <2>3. ~(r.version + 1 = s.version /\ r.comments + 1 = s.comments)
    BY <1>1, <2>2 DEF Triage!New
  <2> QED BY <1>1, <2>1, <2>3 DEF Owes
<1>4. Owes(s, s, p + 1) = p
  BY <1>1 DEF Owes
<1> QED BY <1>2, <1>3, <1>4

(* A comment of an agent that ends well is what was expected of it.        *)
LEMMA OwesComment ==
  ASSUME NEW s \in Triage!Record, NEW r \in Triage!Record, NEW p \in Nat \ {0},
         NEW z \in Triage!Record, Past(r, s),
         z = s \/ (z.version = s.version + 1 /\ z.comments = s.comments + 1)
  PROVE  Owes(z, r, p - 1) <= Owes(s, r, p)
<1>1. /\ s.version \in Nat /\ r.version \in Nat /\ s.comments \in Nat /\ r.comments \in Nat
      /\ z.version \in Nat /\ z.comments \in Nat /\ p - 1 \in Nat
  BY DEF Triage!Record
<1>2. CASE z = s
  BY <1>1, <1>2 DEF Owes
<1>3. CASE z.version = s.version + 1 /\ z.comments = s.comments + 1
  BY <1>1, <1>3 DEF Owes, Past
<1> QED BY <1>2, <1>3

(* A cause pays for any change of what is recorded, and for any change of  *)
(* the issue.                                                              *)
LEMMA PaidForRecord ==
  ASSUME NEW l \in BOOLEAN, NEW s \in Triage!Record, NEW r \in Triage!Record,
         NEW q \in Triage!Record, NEW k \in ScanRow, NEW p \in Nat, NEW n \in Nat,
         NEW c \in Nat, Paid(l, s, r, k, p, n, c)
  PROVE  Paid(l, s, q, k, p, n, c + 1)
<1>1. k.seen \in Triage!Record /\ p + 1 \in Nat /\ p + 1 + 1 = p + 2
  BY DEF ScanRow
<1>2. /\ Owes(s, q, p) <= p + 1 /\ p <= Owes(s, r, p) + 1
      /\ Owes(s, q, p) \in Nat /\ Owes(s, r, p) \in Nat
  BY OwesBounds
<1>3. /\ Owes(s, k.seen, p) \in Nat /\ Owes(s, k.seen, p + 1) \in Nat
      /\ Owes(s, k.seen, p + 1) <= Owes(s, k.seen, p) + 1
  BY <1>1, OwesBounds
<1> HIDE DEF Owes
<1> QED BY <1>2, <1>3 DEF Paid

LEMMA PaidForIssue ==
  ASSUME NEW l \in BOOLEAN, NEW s \in Triage!Record, NEW r \in Triage!Record,
         NEW z \in Triage!Record, NEW k \in ScanRow, NEW p \in Nat, NEW n \in Nat,
         NEW c \in Nat, Paid(l, s, r, k, p, n, c)
  PROVE  Paid(l, z, r, k, p, n, c + 1)
<1>1. k.seen \in Triage!Record /\ p + 1 \in Nat /\ p + 1 + 1 = p + 2
  BY DEF ScanRow
<1>2. /\ Owes(z, r, p) <= p + 1 /\ p <= Owes(s, r, p) + 1
      /\ Owes(z, r, p) \in Nat /\ Owes(s, r, p) \in Nat
  BY OwesBounds
<1>3. /\ Owes(z, k.seen, p) <= p + 1 /\ p <= Owes(s, k.seen, p) + 1
      /\ Owes(z, k.seen, p) \in Nat /\ Owes(s, k.seen, p) \in Nat
  BY <1>1, OwesBounds
<1>4. /\ Owes(z, k.seen, p + 1) <= p + 2 /\ p + 1 <= Owes(s, k.seen, p + 1) + 1
      /\ Owes(z, k.seen, p + 1) \in Nat /\ Owes(s, k.seen, p + 1) \in Nat
  BY <1>1, OwesBounds
<1> QED BY <1>2, <1>3, <1>4 DEF Paid

LEMMA PaidEnd ==
  ASSUME NEW l \in BOOLEAN, NEW s \in Triage!Record, NEW r \in Triage!Record,
         NEW z \in Triage!Record, NEW k \in ScanRow, NEW p \in Nat \ {0}, NEW n \in Nat,
         NEW c \in Nat, Paid(l, s, r, k, p, n, c), Past(r, s), Past(k.seen, s),
         z = s \/ (z.version = s.version + 1 /\ z.comments = s.comments + 1)
  PROVE  Paid(l, z, r, k, p - 1, n, c)
<1>1. k.seen \in Triage!Record /\ p - 1 \in Nat /\ p + 1 - 1 = p
  BY DEF ScanRow
<1>2. /\ Owes(z, r, p - 1) <= Owes(s, r, p) /\ Owes(z, r, p - 1) \in Nat
      /\ Owes(s, r, p) \in Nat
  BY <1>1, OwesBounds, OwesComment
<1>3. /\ Owes(z, k.seen, p - 1) <= Owes(s, k.seen, p) /\ Owes(z, k.seen, p - 1) \in Nat
      /\ Owes(s, k.seen, p) \in Nat
  BY <1>1, OwesBounds, OwesComment
<1>4. /\ Owes(z, k.seen, p - 1 + 1) <= Owes(s, k.seen, p + 1)
      /\ Owes(z, k.seen, p - 1 + 1) \in Nat /\ Owes(s, k.seen, p + 1) \in Nat
  <2>1. Owes(z, k.seen, p + 1 - 1) <= Owes(s, k.seen, p + 1)
    BY <1>1, OwesComment
  <2>2. p - 1 + 1 = p /\ p \in Nat /\ p + 1 \in Nat
    OBVIOUS
  <2> QED BY <1>1, <2>1, <2>2, OwesBounds
<1> QED BY <1>2, <1>3, <1>4 DEF Paid

LEMMA RecordFacts ==
  /\ Triage!New \in Triage!Record /\ Triage!Idle \in ScanRow
  /\ Null \notin Triage!Records /\ Torn \notin Triage!Records /\ Null # Torn
BY WorkAssumption DEF Triage!New, Triage!Idle, Triage!Record, ScanRow

LEMMA TriageFacts ==
  ASSUME TriageInv, NEW i \in Issues
  PROVE  /\ issue[i] \in Triage!Record /\ scan[i] \in ScanRow /\ scan[i].seen \in Triage!Record
         /\ pending[i] \in Nat /\ triages[i] \in Nat /\ causes[i] \in Nat
         /\ cache # Null => cache \in Triage!Records /\ cache[i] \in Triage!Record
         /\ statefile # Torn => statefile \in Triage!Records /\ statefile[i] \in Triage!Record
         /\ ~Lost => Recorded(i) \in Triage!Record /\ Past(Recorded(i), issue[i])
         /\ Lost \in BOOLEAN
<1>1. cache # Null => cache \in Triage!Records /\ cache[i] \in Triage!Record
  BY DEF TriageInv, TriageTypes, Triage!Records
<1>2. statefile # Torn => statefile \in Triage!Records /\ statefile[i] \in Triage!Record
  BY DEF TriageInv, TriageTypes, Triage!Records
<1>3. /\ issue[i] \in Triage!Record /\ scan[i] \in ScanRow /\ scan[i].seen \in Triage!Record
      /\ pending[i] \in Nat /\ triages[i] \in Nat /\ causes[i] \in Nat
  BY DEF TriageInv, TriageTypes, ScanRow
<1>4. RecordsPast(i)
  BY DEF TriageInv
<1>5. ~Lost => Recorded(i) \in Triage!Record /\ Past(Recorded(i), issue[i])
  BY <1>1, <1>2, <1>4 DEF Recorded, RecordsPast, Lost
<1> QED BY <1>1, <1>2, <1>3, <1>5 DEF Lost

LEMMA TriageInit == Triage!Init => TriageInv
<1> SUFFICES ASSUME Triage!Init PROVE TriageInv
  OBVIOUS
<1>1. TriageTypes
  <2>1. [version |-> 1, comments |-> 0] \in Triage!Record
    BY WorkAssumption DEF Triage!Record
  <2> QED BY <2>1, RecordFacts DEF Triage!Init, TriageTypes, Triage!Records
<1>2. ASSUME NEW i \in Issues PROVE RecordsPast(i) /\ IssuePaid(i)
  <2>1. /\ issue[i] = [version |-> 1, comments |-> 0] /\ scan[i] = Triage!Idle
        /\ cache = Null /\ statefile = [k \in Issues |-> Triage!New]
        /\ pending[i] = 0 /\ triages[i] = 0 /\ causes[i] = 0
    BY <1>2 DEF Triage!Init
  <2>2. statefile[i] = Triage!New /\ Recorded(i) = Triage!New
    BY <2>1 DEF Recorded
  <2>3. \A k \in Issues : scan[k].image \notin Triage!Records
    BY RecordFacts DEF Triage!Init, Triage!Idle
  <2>4. RecordsPast(i)
    BY <2>1, <2>2, <2>3, RecordFacts DEF RecordsPast, Past, Triage!New, Triage!Idle
  <2>5. IssuePaid(i)
    BY <2>1, <2>2 DEF IssuePaid, Paid, Owes, Triage!New, Triage!Idle
  <2> QED BY <2>4, <2>5
<1> QED BY <1>1, <1>2 DEF TriageInv

-----------------------------------------------------------------------------
(* The steps of a scan *)

LEMMA ScanMoves ==
  ASSUME TriageInv, NEW i \in Issues, NEW w \in ScanRow,
         issue' = issue, scan' = [scan EXCEPT ![i] = w],
         cache' \in Triage!Records \cup {Null}, statefile' \in Triage!Records \cup {Torn},
         pending' \in [Issues -> Nat], triages' \in [Issues -> Nat],
         causes' \in [Issues -> Nat],
         \A k \in Issues : /\ cache' # Null => Past(cache'[k], issue[k])
                           /\ statefile' # Torn => Past(statefile'[k], issue[k])
                           /\ w.image \in Triage!Records => Past(w.image[k], issue[k]),
         Past(w.seen, issue[i]),
         cache' = Null =>
           /\ cache = Null /\ statefile' = statefile
           /\ w.step \in {"idle", "load", "reading"}
           /\ w.step = "reading" => w.image = statefile,
         w.step = "reading" => w.image # Null,
         w.step = "write" => w.image \in Triage!Records
  PROVE  TriageTypes' /\ \A k \in Issues : RecordsPast(k)'
<1>1. TriageTypes'
  BY DEF TriageInv, TriageTypes
<1>2. ASSUME NEW k \in Issues PROVE RecordsPast(k)'
  <2>1. scan'[i] = w /\ (k # i => scan'[k] = scan[k])
    BY DEF TriageInv, TriageTypes
  <2>2. RecordsPast(k) /\ RecordsPast(i)
    BY DEF TriageInv
  <2>3. ASSUME NEW n \in Issues, scan'[n].image \in Triage!Records
        PROVE  Past(scan'[n].image[k], issue[k])
    <3>1. CASE n = i
      BY <2>1, <2>3, <3>1
    <3>2. CASE n # i
      <4>1. scan'[n] = scan[n]
        BY <3>2 DEF TriageInv, TriageTypes
      <4> QED BY <2>2, <2>3, <4>1 DEF RecordsPast
    <3> QED BY <3>1, <3>2
  <2>4. Past(scan'[k].seen, issue[k])
    BY <2>1, <2>2 DEF RecordsPast
  <2>5. /\ cache' = Null =>
             /\ scan'[k].step \in {"idle", "load", "reading"}
             /\ scan'[k].step = "reading" => scan'[k].image = statefile'
        /\ scan'[k].step = "reading" => scan'[k].image # Null
        /\ scan'[k].step = "write" => scan'[k].image \in Triage!Records
    BY <2>1, <2>2 DEF RecordsPast
  <2>6. issue[k].comments < issue[k].version
    BY <2>2 DEF RecordsPast
  <2> QED BY <2>3, <2>4, <2>5, <2>6 DEF RecordsPast
<1> QED BY <1>1, <1>2

(* What a step leaves alone stays paid for. *)
LEMMA PaidStays ==
  ASSUME TriageInv, NEW k \in Issues, issue'[k] = issue[k], scan'[k] = scan[k],
         pending'[k] = pending[k], triages'[k] = triages[k], causes'[k] = causes[k],
         Lost' \/ (~Lost /\ ~Lost' /\ Recorded(k)' = Recorded(k))
  PROVE  IssuePaid(k)'
<1>1. IssuePaid(k)
  BY DEF TriageInv
<1>2. CASE Lost'
  BY <1>1, <1>2 DEF IssuePaid, Paid
<1>3. CASE ~Lost /\ ~Lost' /\ Recorded(k)' = Recorded(k)
  <2>1. Lost' = Lost
    BY <1>3 DEF Lost
  <2> QED BY <1>1, <1>3, <2>1 DEF IssuePaid
<1> QED BY <1>2, <1>3

(* The facts of a state that the steps use.                                *)
LEMMA PaidNow ==
  ASSUME TriageInv, NEW i \in Issues
  PROVE  /\ triages[i] <= 1 + 2 * causes[i]
         /\ ~Lost =>
              /\ scan[i].step # "record" =>
                   triages[i] + Owes(issue[i], Recorded(i), pending[i]) <= 1 + 2 * causes[i]
              /\ scan[i].step \notin {"idle", "write"} =>
                   triages[i] + Owes(issue[i], scan[i].seen, pending[i]) <= 1 + 2 * causes[i]
              /\ \/ scan[i].step = "enqueue"
                 \/ /\ scan[i].step \in {"load", "reading"}
                    /\ Triage!StepFor(scan[i].seen, Recorded(i)) = "enqueue"
                 => triages[i] + 1 + Owes(issue[i], scan[i].seen, pending[i] + 1)
                      <= 1 + 2 * causes[i]
BY DEF TriageInv, IssuePaid, Paid

(* A step of a scan that leaves the records alone.                         *)
LEMMA ScanStep ==
  ASSUME TriageInv, NEW i \in Issues, NEW w \in ScanRow,
         UNCHANGED <<issue, cache, statefile, causes>>, scan' = [scan EXCEPT ![i] = w],
         NEW p \in Nat, NEW n \in Nat,
         pending' = [pending EXCEPT ![i] = p], triages' = [triages EXCEPT ![i] = n],
         Past(w.seen, issue[i]), w.step # "write",
         \/ w.image \notin Triage!Records
         \/ w.image = statefile
         \/ w.image = scan[i].image,
         cache = Null => /\ w.step \in {"idle", "load", "reading"}
                         /\ w.step = "reading" => w.image = statefile,
         w.step = "reading" => w.image # Null,
         Paid(Lost, issue[i], Recorded(i), w, p, n, causes[i])
  PROVE  TriageInv'
<1>1. TriageTypes' /\ \A k \in Issues : RecordsPast(k)'
  <2>1. \A k \in Issues : RecordsPast(k)
    BY DEF TriageInv
  <2>2. cache' \in Triage!Records \cup {Null} /\ statefile' \in Triage!Records \cup {Torn}
    BY DEF TriageInv, TriageTypes
  <2>3. /\ pending' \in [Issues -> Nat] /\ triages' \in [Issues -> Nat]
        /\ causes' \in [Issues -> Nat]
    BY DEF TriageInv, TriageTypes
  <2>4. \A k \in Issues : /\ cache' # Null => Past(cache'[k], issue[k])
                          /\ statefile' # Torn => Past(statefile'[k], issue[k])
                          /\ w.image \in Triage!Records => Past(w.image[k], issue[k])
    <3>1. statefile \in Triage!Records => statefile # Torn
      BY RecordFacts
    <3> QED BY <2>1, <3>1 DEF RecordsPast
  <2> QED BY <2>2, <2>3, <2>4, ScanMoves
<1>2. ASSUME NEW k \in Issues PROVE IssuePaid(k)'
  <2>1. Lost' = Lost /\ Recorded(k)' = Recorded(k)
    BY DEF Lost, Recorded
  <2>2. CASE k # i
    <3>1. scan'[k] = scan[k] /\ pending'[k] = pending[k] /\ triages'[k] = triages[k]
      BY <2>2 DEF TriageInv, TriageTypes
    <3> QED BY <2>1, <3>1 DEF TriageInv, IssuePaid
  <2>3. CASE k = i
    <3>1. scan'[i] = w /\ pending'[i] = p /\ triages'[i] = n
      BY DEF TriageInv, TriageTypes
    <3> QED BY <2>1, <2>3, <3>1 DEF IssuePaid
  <2> QED BY <2>2, <2>3
<1> QED BY <1>1, <1>2 DEF TriageInv

LEMMA Untouched ==
  ASSUME TriageInv, NEW i \in Issues
  PROVE  /\ pending = [pending EXCEPT ![i] = pending[i]]
         /\ triages = [triages EXCEPT ![i] = triages[i]]
BY DEF TriageInv, TriageTypes

LEMMA EndKeeps ==
  ASSUME TriageInv, NEW i \in Issues, scan[i].step # "record",
         UNCHANGED <<issue, cache, statefile, pending, triages, causes>>, Triage!Ends(i)
  PROVE  TriageInv'
<1>1. /\ Triage!Idle.step = "idle" /\ Triage!Idle.seen = Triage!New
      /\ Triage!Idle.image = Null
  BY DEF Triage!Idle
<1>2. Past(Triage!New, issue[i])
  BY TriageFacts DEF TriageInv, RecordsPast, Past, Triage!New, Triage!Record
<1>3. Paid(Lost, issue[i], Recorded(i), Triage!Idle, pending[i], triages[i], causes[i])
  BY <1>1, PaidNow DEF Paid
<1>4. /\ Triage!Idle \in ScanRow /\ Triage!Idle.image \notin Triage!Records
      /\ pending[i] \in Nat /\ triages[i] \in Nat
  BY <1>1, TriageFacts, RecordFacts
<1>5. /\ pending' = [pending EXCEPT ![i] = pending[i]]
      /\ triages' = [triages EXCEPT ![i] = triages[i]]
  BY Untouched
<1>6. /\ Triage!Idle.step # "write" /\ Triage!Idle.step # "reading"
      /\ Triage!Idle.step \in {"idle", "load", "reading"}
      /\ Past(Triage!Idle.seen, issue[i])
  BY <1>1, <1>2
<1>7. scan' = [scan EXCEPT ![i] = Triage!Idle]
  BY DEF Triage!Ends
<1> QED BY <1>3, <1>4, <1>5, <1>6, <1>7, ScanStep

LEMMA FetchKeeps ==
  ASSUME TriageInv, NEW i \in Issues, Triage!Fetch(i)
  PROVE  TriageInv'
<1> DEFINE w == [[Triage!Idle EXCEPT !.step = "load"] EXCEPT !.seen = issue[i]]
<1>1. /\ scan' = [scan EXCEPT ![i] = w] /\ scan[i].step = "idle"
      /\ UNCHANGED <<issue, cache, statefile, pending, triages, causes>>
  BY DEF Triage!Fetch, Triage!At
<1>2. issue[i] \in Triage!Record /\ Past(issue[i], issue[i])
  BY TriageFacts DEF Past, Triage!Record
<1>3. w \in ScanRow /\ w.step = "load" /\ w.seen = issue[i] /\ w.image = Triage!Idle.image
  <2> DEFINE v == [Triage!Idle EXCEPT !.step = "load"]
  <2>1. v \in ScanRow /\ v.step = "load" /\ v.image = Triage!Idle.image
    BY RecordFacts DEF ScanRow
  <2> HIDE DEF v
  <2>2. LET z == [v EXCEPT !.seen = issue[i]] IN
        z \in ScanRow /\ z.step = "load" /\ z.seen = issue[i] /\ z.image = Triage!Idle.image
    BY <1>2, <2>1 DEF ScanRow
  <2> QED BY <2>2 DEF v
<1> HIDE DEF w
<1>4. w.image \notin Triage!Records
  BY <1>3, RecordFacts DEF Triage!Idle
<1>5. triages[i] <= 1 + 2 * causes[i] /\ (~Lost =>
        triages[i] + Owes(issue[i], Recorded(i), pending[i]) <= 1 + 2 * causes[i])
  BY <1>1, PaidNow
<1>6. issue[i].comments < issue[i].version
  BY DEF TriageInv, RecordsPast
<1>7. ASSUME ~Lost
      PROVE  LET r == Recorded(i)  s == issue[i]  p == pending[i] IN
             /\ Owes(s, s, p) <= Owes(s, r, p)
             /\ Triage!StepFor(s, r) = "enqueue" => 1 + Owes(s, s, p + 1) <= Owes(s, r, p)
  BY <1>6, <1>7, TriageFacts, OwesNow
<1>8. /\ triages[i] \in Nat /\ causes[i] \in Nat /\ pending[i] \in Nat
      /\ pending[i] + 1 \in Nat /\ Owes(issue[i], issue[i], pending[i]) \in Nat
      /\ Owes(issue[i], issue[i], pending[i] + 1) \in Nat
      /\ ~Lost => Owes(issue[i], Recorded(i), pending[i]) \in Nat
  <2>1. pending[i] \in Nat /\ pending[i] + 1 \in Nat
    BY TriageFacts
  <2> QED BY <2>1, TriageFacts, OwesBounds
<1>9. Paid(Lost, issue[i], Recorded(i), w, pending[i], triages[i], causes[i])
  BY <1>3, <1>5, <1>7, <1>8 DEF Paid
<1>10. /\ w.step # "write" /\ w.step # "reading" /\ Past(w.seen, issue[i])
       /\ w.step \in {"idle", "load", "reading"}
  BY <1>2, <1>3
<1>11. /\ pending' = [pending EXCEPT ![i] = pending[i]]
       /\ triages' = [triages EXCEPT ![i] = triages[i]]
  BY <1>1, Untouched
<1> QED
  BY <1>1, <1>3, <1>4, <1>8, <1>9, <1>10, <1>11, ScanStep

(* What the filter decides, on records that are of the past.               *)
LEMMA DecideMoves ==
  ASSUME TriageInv, NEW i \in Issues, NEW r \in Triage!Record, NEW f, f[i] = r,
         Triage!Decide(i, f)
  PROVE  \E w \in ScanRow :
           /\ scan' = [scan EXCEPT ![i] = w]
           /\ w.image = Null
           /\ \/ w = Triage!Idle
              \/ /\ w.step \in {"absorb", "enqueue"} /\ w.seen = scan[i].seen
                 /\ w.step = Triage!StepFor(scan[i].seen, r)
<1> DEFINE st == Triage!StepFor(scan[i].seen, r)
<1>1. scan[i] \in ScanRow /\ scan[i].seen \in Triage!Record
  BY TriageFacts
<1>2. st \in {"idle", "absorb", "enqueue"}
  BY <1>1, Steps
<1>3. scan' = [scan EXCEPT ![i] = IF st = "idle" THEN Triage!Idle
                                  ELSE [scan[i] EXCEPT !.step = st, !.image = Null]]
  BY DEF Triage!Decide
<1>4. CASE st = "idle"
  <2>1. scan' = [scan EXCEPT ![i] = Triage!Idle]
    BY <1>3, <1>4
  <2>2. Triage!Idle.image = Null
    BY DEF Triage!Idle
  <2> QED BY <2>1, <2>2, RecordFacts
<1>5. CASE st # "idle"
  <2> DEFINE w == [[scan[i] EXCEPT !.step = st] EXCEPT !.image = Null]
  <2>1. w \in ScanRow /\ w.step = st /\ w.seen = scan[i].seen /\ w.image = Null
    <3> DEFINE v == [scan[i] EXCEPT !.step = st]
    <3>1. v \in ScanRow /\ v.step = st /\ v.seen = scan[i].seen
      <4> HIDE DEF st
      <4> QED BY <1>1, <1>2, <1>5 DEF ScanRow
    <3> HIDE DEF v, st
    <3>2. LET z == [v EXCEPT !.image = Null] IN
          z \in ScanRow /\ z.step = st /\ z.seen = scan[i].seen /\ z.image = Null
      BY <3>1 DEF ScanRow
    <3> QED BY <3>2 DEF v
  <2>2. scan' = [scan EXCEPT ![i] = w]
    BY <1>3, <1>5
  <2> QED BY <1>2, <1>5, <2>1, <2>2
<1> QED BY <1>4, <1>5

LEMMA LoadKeeps ==
  ASSUME TriageInv, NEW i \in Issues, Triage!Load(i)
  PROVE  TriageInv'
<1>1. /\ scan[i].step = "load"
      /\ UNCHANGED <<issue, cache, statefile, pending, triages, causes>>
      /\ IF cache # Null THEN Triage!Decide(i, cache)
         ELSE scan' = [scan EXCEPT ![i].step = "reading", ![i].image = statefile]
  BY DEF Triage!Load, Triage!At
<1>2. RecordsPast(i)
  BY DEF TriageInv
<1>3. CASE cache # Null
  <2>1. cache[i] \in Triage!Record /\ Recorded(i) = cache[i] /\ ~Lost
    BY <1>3, TriageFacts DEF Recorded, Lost
  <2>2. Triage!Decide(i, cache)
    BY <1>1, <1>3
  <2>3. PICK w \in ScanRow :
           /\ scan' = [scan EXCEPT ![i] = w]
           /\ w.image = Null
           /\ \/ w = Triage!Idle
              \/ /\ w.step \in {"absorb", "enqueue"} /\ w.seen = scan[i].seen
                 /\ w.step = Triage!StepFor(scan[i].seen, cache[i])
    BY <2>1, <2>2, DecideMoves
  <2>4. w = Triage!Idle => w.step = "idle" /\ w.seen = Triage!New
    BY DEF Triage!Idle
  <2>5. Past(w.seen, issue[i])
    BY <1>2, <2>3, <2>4, TriageFacts DEF RecordsPast, Past, Triage!New, Triage!Record
  <2>6. Paid(Lost, issue[i], Recorded(i), w, pending[i], triages[i], causes[i])
    BY <1>1, <2>1, <2>3, <2>4, PaidNow DEF Paid
  <2>7. /\ pending[i] \in Nat /\ pending' = [pending EXCEPT ![i] = pending[i]]
        /\ triages[i] \in Nat /\ triages' = [triages EXCEPT ![i] = triages[i]]
        /\ UNCHANGED <<issue, cache, statefile, causes>>
    BY <1>1, TriageFacts, Untouched
  <2>8. w.step # "write" /\ w.step # "reading" /\ w.image \notin Triage!Records
    BY <2>3, <2>4, RecordFacts
  <2> QED BY <1>3, <2>3, <2>5, <2>6, <2>7, <2>8, ScanStep
<1>4. CASE cache = Null
  <2> DEFINE w == [[scan[i] EXCEPT !.step = "reading"] EXCEPT !.image = statefile]
  <2>1. scan[i] \in ScanRow /\ statefile \in Triage!Records \cup {Null, Torn}
    BY TriageFacts DEF TriageInv, TriageTypes
  <2>2. w \in ScanRow /\ w.step = "reading" /\ w.seen = scan[i].seen /\ w.image = statefile
    <3> DEFINE v == [scan[i] EXCEPT !.step = "reading"]
    <3>1. v \in ScanRow /\ v.step = "reading" /\ v.seen = scan[i].seen
      BY <2>1 DEF ScanRow
    <3> HIDE DEF v
    <3>2. LET z == [v EXCEPT !.image = statefile] IN
          z \in ScanRow /\ z.step = "reading" /\ z.seen = scan[i].seen /\ z.image = statefile
      BY <2>1, <3>1 DEF ScanRow
    <3> QED BY <3>2 DEF v
  <2>3. scan' = [scan EXCEPT ![i] = w]
    BY <1>1, <1>4 DEF TriageInv, TriageTypes
  <2> HIDE DEF w
  <2>5. Past(w.seen, issue[i])
    BY <1>2, <2>2 DEF RecordsPast
  <2>6. Paid(Lost, issue[i], Recorded(i), w, pending[i], triages[i], causes[i])
    BY <1>1, <2>2, PaidNow DEF Paid
  <2>7. statefile # Null
    BY RecordFacts DEF TriageInv, TriageTypes
  <2>8. /\ pending[i] \in Nat /\ pending' = [pending EXCEPT ![i] = pending[i]]
        /\ triages[i] \in Nat /\ triages' = [triages EXCEPT ![i] = triages[i]]
        /\ UNCHANGED <<issue, cache, statefile, causes>>
    BY <1>1, TriageFacts, Untouched
  <2>9. /\ w.step # "write" /\ w.image = statefile /\ w.image # Null
        /\ w.step \in {"idle", "load", "reading"}
    BY <2>2, <2>7
  <2> QED BY <2>2, <2>3, <2>5, <2>6, <2>8, <2>9, ScanStep
<1> QED BY <1>3, <1>4

LEMMA EnqueueKeeps ==
  ASSUME TriageInv, NEW i \in Issues, Triage!Enqueue(i)
  PROVE  TriageInv'
<1>1. /\ scan[i].step = "enqueue"
      /\ UNCHANGED <<issue, cache, statefile, causes>>
  BY DEF Triage!Enqueue, Triage!At
<1>2. RecordsPast(i)
  BY DEF TriageInv
<1>3. cache # Null /\ ~Lost
  BY <1>1, <1>2 DEF RecordsPast, Lost
<1>4. scan[i] \in ScanRow /\ pending[i] \in Nat /\ triages[i] \in Nat /\ causes[i] \in Nat
  BY TriageFacts
<1>5. CASE /\ triages' = [triages EXCEPT ![i] = @ + 1]
           /\ pending' = [pending EXCEPT ![i] = @ + 1]
           /\ Triage!Goto(i, "record")
  <2> DEFINE w == [scan[i] EXCEPT !.step = "record"]
  <2>1. scan' = [scan EXCEPT ![i] = w]
    BY <1>5 DEF Triage!Goto, TriageInv, TriageTypes
  <2>2. w \in ScanRow /\ w.step = "record" /\ w.seen = scan[i].seen /\ w.image = scan[i].image
    BY <1>4 DEF ScanRow
  <2> HIDE DEF w
  <2>3. Past(w.seen, issue[i])
    BY <1>2, <2>2 DEF RecordsPast
  <2>4. Owes(issue[i], scan[i].seen, pending[i] + 1) \in Nat
    BY <1>4, TriageFacts, OwesBounds
  <2>5. triages[i] + 1 + Owes(issue[i], scan[i].seen, pending[i] + 1) <= 1 + 2 * causes[i]
    BY <1>1, <1>3, PaidNow
  <2>6. Paid(Lost, issue[i], Recorded(i), w, pending[i] + 1, triages[i] + 1, causes[i])
    BY <1>4, <2>2, <2>4, <2>5 DEF Paid
  <2>7. pending[i] + 1 \in Nat /\ triages[i] + 1 \in Nat
    BY <1>4
  <2> QED BY <1>1, <1>3, <1>5, <2>1, <2>2, <2>3, <2>6, <2>7, ScanStep
<1>6. CASE Triage!Ends(i) /\ UNCHANGED <<triages, pending>>
  BY <1>1, <1>6, EndKeeps
<1> QED BY <1>5, <1>6 DEF Triage!Enqueue

LEMMA LoadEndsKeeps ==
  ASSUME TriageInv, NEW i \in Issues, Triage!LoadEnds(i)
  PROVE  TriageInv'
<1> DEFINE read == scan[i].image
<1>1. /\ scan[i].step = "reading"
      /\ UNCHANGED <<issue, statefile, pending, triages>>
      /\ IF read = Torn THEN Triage!Ends(i) /\ UNCHANGED <<cache, causes>>
         ELSE /\ cache' = read
              /\ causes' = Triage!Add(causes, [k \in Issues |-> cache # Null
                                                                /\ cache[k] # read[k]])
              /\ Triage!Decide(i, read)
  BY DEF Triage!LoadEnds, Triage!At
<1>2. RecordsPast(i) /\ scan[i] \in ScanRow
  BY TriageFacts DEF TriageInv
<1>3. CASE read = Torn
  BY <1>1, <1>3, EndKeeps
<1>4. CASE read # Torn
  <2>1. read \in Triage!Records /\ read # Null
    BY <1>1, <1>2, <1>4 DEF RecordsPast, ScanRow
  <2>2. /\ cache' = read /\ Triage!Decide(i, read)
        /\ causes' = [k \in Issues |-> causes[k] + IF cache # Null /\ cache[k] # read[k]
                                                   THEN 1 ELSE 0]
    BY <1>1, <1>4 DEF Triage!Add
  <2>3. cache = Null => read = statefile /\ statefile # Torn
    BY <1>1, <1>2, <1>4 DEF RecordsPast
  <2>4. ~Lost /\ ~Lost' /\ \A k \in Issues : Recorded(k)' = read[k]
    BY <2>1, <2>2, <2>3 DEF Lost, Recorded
  <2>5. \A k \in Issues : read[k] \in Triage!Record /\ Past(read[k], issue[k])
    BY <2>1 DEF TriageInv, RecordsPast, Triage!Records
  <2>6. PICK w \in ScanRow :
           /\ scan' = [scan EXCEPT ![i] = w]
           /\ w.image = Null
           /\ \/ w = Triage!Idle
              \/ /\ w.step \in {"absorb", "enqueue"} /\ w.seen = scan[i].seen
                 /\ w.step = Triage!StepFor(scan[i].seen, read[i])
    BY <2>2, <2>5, DecideMoves
  <2>7. w = Triage!Idle => w.step = "idle" /\ w.seen = Triage!New
    BY DEF Triage!Idle
  <2>8. Past(w.seen, issue[i])
    BY <1>2, <2>6, <2>7, TriageFacts DEF RecordsPast, Past, Triage!New, Triage!Record
  <2>9. /\ pending' \in [Issues -> Nat] /\ triages' \in [Issues -> Nat]
        /\ causes' \in [Issues -> Nat] /\ cache' \in Triage!Records \cup {Null}
        /\ statefile' \in Triage!Records \cup {Torn}
    BY <1>1, <2>1, <2>2 DEF TriageInv, TriageTypes
  <2>10. \A k \in Issues : /\ cache' # Null => Past(cache'[k], issue[k])
                           /\ statefile' # Torn => Past(statefile'[k], issue[k])
                           /\ w.image \in Triage!Records => Past(w.image[k], issue[k])
    BY <1>1, <2>2, <2>5, <2>6, RecordFacts DEF TriageInv, RecordsPast
  <2>11. TriageTypes' /\ \A k \in Issues : RecordsPast(k)'
    <3>1. w.step # "reading" /\ w.step # "write"
      BY <2>6, <2>7
    <3> QED BY <1>1, <2>1, <2>2, <2>6, <2>8, <2>9, <2>10, <3>1, ScanMoves
  <2>12. ASSUME NEW k \in Issues
         PROVE  Paid(FALSE, issue[k], read[k], scan[k], pending[k], triages[k], causes'[k])
    <3>1. Paid(FALSE, issue[k], Recorded(k), scan[k], pending[k], triages[k], causes[k])
      <4>1. Lost = FALSE
        BY <2>4 DEF Lost
      <4>2. IssuePaid(k)
        BY DEF TriageInv
      <4> QED BY <4>1, <4>2 DEF IssuePaid
    <3>2. CASE cache # Null /\ cache[k] # read[k]
      <4>1. causes'[k] = causes[k] + 1
        BY <2>2, <3>2
      <4>2. /\ Recorded(k) \in Triage!Record /\ read[k] \in Triage!Record
            /\ issue[k] \in Triage!Record /\ scan[k] \in ScanRow /\ pending[k] \in Nat
            /\ triages[k] \in Nat /\ causes[k] \in Nat /\ FALSE \in BOOLEAN
        BY <2>4, <2>5, TriageFacts
      <4> HIDE DEF read
      <4> QED BY <3>1, <4>1, <4>2, PaidForRecord
    <3>3. CASE ~(cache # Null /\ cache[k] # read[k])
      <4>1. causes'[k] = causes[k]
        BY <2>2, <3>3, TriageFacts
      <4>2. Recorded(k) = read[k]
        BY <2>3, <3>3 DEF Recorded
      <4> QED BY <3>1, <4>1, <4>2
    <3> QED BY <3>2, <3>3
  <2>13. ASSUME NEW k \in Issues PROVE IssuePaid(k)'
    <3>1. Paid(FALSE, issue[k], read[k], scan[k], pending[k], triages[k], causes'[k])
      BY <2>12
    <3>2. CASE k # i
      <4>1. scan'[k] = scan[k] /\ Lost' = FALSE
        BY <2>4, <2>6, <3>2 DEF TriageInv, TriageTypes
      <4> QED BY <1>1, <2>4, <3>1, <4>1 DEF IssuePaid
    <3>3. CASE k = i
      <4>1. scan'[i] = w /\ Lost' = FALSE
        BY <2>4, <2>6 DEF TriageInv, TriageTypes
      <4>2. Paid(FALSE, issue[i], read[i], w, pending[i], triages[i], causes'[i])
        BY <1>1, <2>6, <2>7, <3>1, <3>3 DEF Paid
      <4> QED BY <1>1, <2>4, <3>3, <4>1, <4>2 DEF IssuePaid
    <3> QED BY <3>2, <3>3
  <2> QED BY <2>11, <2>13 DEF TriageInv
<1> QED BY <1>3, <1>4

LEMMA WriteKeeps ==
  ASSUME TriageInv, NEW i \in Issues, Triage!Write(i)
  PROVE  TriageInv'
<1> DEFINE image == [cache EXCEPT ![i] = scan[i].seen]
<1>1. /\ scan[i].step \in {"record", "absorb"} /\ cache' = image
      /\ UNCHANGED <<issue, pending, triages, causes>>
      /\ \/ /\ statefile' = Torn
            /\ scan' = [scan EXCEPT ![i].step = "write", ![i].image = image]
         \/ Triage!Ends(i) /\ UNCHANGED statefile
  BY DEF Triage!Write, Triage!At
<1>2. RecordsPast(i) /\ scan[i] \in ScanRow
  BY TriageFacts DEF TriageInv
<1>3. cache # Null /\ cache \in Triage!Records
  BY <1>1, <1>2, TriageFacts DEF RecordsPast
<1>4. /\ image \in Triage!Records /\ image # Null /\ image[i] = scan[i].seen
      /\ \A k \in Issues \ {i} : image[k] = cache[k]
  <2>1. image \in Triage!Records /\ image[i] = scan[i].seen
        /\ \A k \in Issues \ {i} : image[k] = cache[k]
    BY <1>3, TriageFacts DEF Triage!Records
  <2> QED BY <2>1, RecordFacts
<1> HIDE DEF image
<1>5. ~Lost /\ ~Lost' /\ \A k \in Issues : Recorded(k) = cache[k] /\ Recorded(k)' = image[k]
  BY <1>1, <1>3, <1>4 DEF Lost, Recorded
<1>6. \A k \in Issues : Past(image[k], issue[k])
  <2>1. \A k \in Issues : RecordsPast(k)
    BY DEF TriageInv
  <2> QED BY <1>3, <1>4, <2>1 DEF RecordsPast
<1>7. PICK w \in ScanRow :
        /\ scan' = [scan EXCEPT ![i] = w]
        /\ w.step \in {"write", "idle"} /\ Past(w.seen, issue[i])
        /\ w.image \in {image, Null} /\ (w.step = "write" => w.image = image)
  <2>1. CASE scan' = [scan EXCEPT ![i].step = "write", ![i].image = image]
    <3> DEFINE v == [scan[i] EXCEPT !.step = "write"]
               w == [v EXCEPT !.image = image]
    <3>1. v \in ScanRow /\ v.step = "write" /\ v.seen = scan[i].seen
      BY <1>2 DEF ScanRow
    <3>2. scan' = [scan EXCEPT ![i] = w]
      BY <2>1 DEF TriageInv, TriageTypes
    <3> HIDE DEF v
    <3>3. w \in ScanRow /\ w.step = "write" /\ w.seen = scan[i].seen /\ w.image = image
      BY <1>4, <3>1 DEF ScanRow
    <3>4. Past(w.seen, issue[i])
      BY <1>2, <3>3 DEF RecordsPast
    <3> HIDE DEF w
    <3> QED BY <3>2, <3>3, <3>4
  <2>2. CASE Triage!Ends(i)
    <3>1. scan' = [scan EXCEPT ![i] = Triage!Idle]
      BY <2>2 DEF Triage!Ends
    <3>2. /\ Triage!Idle.step = "idle" /\ Triage!Idle.seen = Triage!New
          /\ Triage!Idle.image = Null
      BY DEF Triage!Idle
    <3>3. Past(Triage!New, issue[i])
      BY <1>2, TriageFacts DEF RecordsPast, Past, Triage!New, Triage!Record
    <3> QED BY <3>1, <3>2, <3>3, RecordFacts
  <2> QED BY <1>1, <2>1, <2>2
<1>8. TriageTypes' /\ \A k \in Issues : RecordsPast(k)'
  <2>1. /\ pending' \in [Issues -> Nat] /\ triages' \in [Issues -> Nat]
        /\ causes' \in [Issues -> Nat]
        /\ cache' \in Triage!Records \cup {Null} /\ cache' # Null
        /\ statefile' \in Triage!Records \cup {Torn}
    BY <1>1, <1>4 DEF TriageInv, TriageTypes
  <2>2. \A k \in Issues : /\ cache' # Null => Past(cache'[k], issue[k])
                          /\ statefile' # Torn => Past(statefile'[k], issue[k])
                          /\ w.image \in Triage!Records => Past(w.image[k], issue[k])
    BY <1>1, <1>6, <1>7, RecordFacts DEF TriageInv, RecordsPast
  <2> QED BY <1>1, <1>4, <1>7, <2>1, <2>2, ScanMoves
<1>9. ASSUME NEW k \in Issues PROVE IssuePaid(k)'
  <2>1. CASE k # i
    <3>1. scan'[k] = scan[k] /\ Recorded(k)' = Recorded(k)
      BY <1>4, <1>5, <1>7, <2>1 DEF TriageInv, TriageTypes
    <3> QED BY <1>1, <1>5, <3>1, PaidStays
  <2>2. CASE k = i
    <3>1. scan'[i] = w
      BY <1>7 DEF TriageInv, TriageTypes
    <3>2. Paid(Lost', issue[i], scan[i].seen, w, pending[i], triages[i], causes[i])
      BY <1>1, <1>5, <1>7, PaidNow DEF Paid
    <3>3. Recorded(i)' = scan[i].seen
      BY <1>4, <1>5
    <3> QED BY <1>1, <2>2, <3>1, <3>2, <3>3 DEF IssuePaid
  <2> QED BY <2>1, <2>2
<1> QED BY <1>8, <1>9 DEF TriageInv

LEMMA WriteEndsKeeps ==
  ASSUME TriageInv, NEW i \in Issues, Triage!WriteEnds(i)
  PROVE  TriageInv'
<1>1. /\ scan[i].step = "write" /\ statefile' \in {scan[i].image, statefile}
      /\ UNCHANGED <<issue, cache, pending, triages, causes>>
      /\ scan' = [scan EXCEPT ![i] = Triage!Idle]
  BY DEF Triage!WriteEnds, Triage!At, Triage!Ends
<1>2. /\ Triage!Idle.step = "idle" /\ Triage!Idle.seen = Triage!New
      /\ Triage!Idle.image = Null
  BY DEF Triage!Idle
<1>3. RecordsPast(i)
  BY DEF TriageInv
<1>4. cache # Null /\ cache \in Triage!Records /\ scan[i].image \in Triage!Records
  BY <1>1, <1>3, TriageFacts DEF RecordsPast
<1>5. ~Lost /\ ~Lost' /\ \A k \in Issues : Recorded(k)' = Recorded(k)
  BY <1>1, <1>4 DEF Lost, Recorded
<1>6. Past(Triage!New, issue[i])
  BY <1>3, TriageFacts DEF RecordsPast, Past, Triage!New, Triage!Record
<1>7. TriageTypes' /\ \A k \in Issues : RecordsPast(k)'
  <2>1. \A k \in Issues : RecordsPast(k)
    BY DEF TriageInv
  <2>2. /\ pending' \in [Issues -> Nat] /\ triages' \in [Issues -> Nat]
        /\ causes' \in [Issues -> Nat]
        /\ cache' \in Triage!Records \cup {Null} /\ cache' # Null
        /\ statefile' \in Triage!Records \cup {Torn}
    BY <1>1, <1>4 DEF TriageInv, TriageTypes
  <2>3. \A k \in Issues : /\ cache' # Null => Past(cache'[k], issue[k])
                          /\ statefile' # Torn => Past(statefile'[k], issue[k])
    BY <1>1, <1>4, <2>1 DEF RecordsPast
  <2>4. /\ Triage!Idle \in ScanRow /\ Triage!Idle.image \notin Triage!Records
        /\ Triage!Idle.step # "reading" /\ Triage!Idle.step # "write"
        /\ Past(Triage!Idle.seen, issue[i])
    BY <1>2, <1>6, RecordFacts
  <2> QED BY <1>1, <2>2, <2>3, <2>4, ScanMoves
<1>8. ASSUME NEW k \in Issues PROVE IssuePaid(k)'
  <2>1. CASE k # i
    <3>1. scan'[k] = scan[k]
      BY <1>1, <2>1 DEF TriageInv, TriageTypes
    <3> QED BY <1>1, <1>5, <3>1, PaidStays
  <2>2. CASE k = i
    <3>1. scan'[i] = Triage!Idle
      BY <1>1 DEF TriageInv, TriageTypes
    <3>2. Paid(Lost', issue[i], Recorded(i), Triage!Idle, pending[i], triages[i], causes[i])
      BY <1>1, <1>2, <1>5, PaidNow DEF Paid
    <3> QED BY <1>1, <1>5, <2>2, <3>1, <3>2 DEF IssuePaid
  <2> QED BY <2>1, <2>2
<1> QED BY <1>7, <1>8 DEF TriageInv

-----------------------------------------------------------------------------
(* Agents, users, the host *)

LEMMA Changed ==
  ASSUME TriageInv, NEW i \in Issues, NEW m \in {0, 1}, Triage!Changes(i, m)
  PROVE  \E z \in Triage!Record :
           /\ issue' = [issue EXCEPT ![i] = z]
           /\ z.version = issue[i].version + 1 /\ z.comments = issue[i].comments + m
<1>1. issue[i] \in Triage!Record /\ issue[i].comments < issue[i].version
  BY DEF TriageInv, TriageTypes, RecordsPast
<1> DEFINE z == [version |-> issue[i].version + 1, comments |-> issue[i].comments + m]
<1>2. issue[i].version < MaxVersions /\ issue' = [issue EXCEPT ![i] = z]
  BY DEF Triage!Changes
<1>3. z \in Triage!Record
  BY <1>1, <1>2, WorkAssumption DEF Triage!Record
<1> QED BY <1>2, <1>3

LEMMA IssueMoves ==
  ASSUME TriageInv, NEW i \in Issues, NEW z \in Triage!Record,
         issue' = [issue EXCEPT ![i] = z],
         \/ z = issue[i]
         \/ /\ z.version = issue[i].version + 1
            /\ z.comments \in {issue[i].comments, issue[i].comments + 1},
         UNCHANGED <<cache, statefile, scan, triages>>,
         NEW p \in Nat, pending' = [pending EXCEPT ![i] = p],
         NEW c \in Nat, causes' = [causes EXCEPT ![i] = c],
         Paid(Lost, z, Recorded(i), scan[i], p, triages[i], c)
  PROVE  TriageInv'
<1>1. TriageTypes'
  BY DEF TriageInv, TriageTypes
<1>2. ASSUME NEW k \in Issues
      PROVE  /\ \A r \in Triage!Record : Past(r, issue[k]) => Past(r, issue'[k])
             /\ issue'[k].comments < issue'[k].version
  <2>1. issue[k] \in Triage!Record /\ issue[k].comments < issue[k].version
    BY DEF TriageInv, TriageTypes, RecordsPast
  <2>2. issue'[k] = IF k = i THEN z ELSE issue[k]
    BY DEF TriageInv, TriageTypes
  <2> QED BY <2>1, <2>2 DEF Past, Triage!Record
<1>3. ASSUME NEW k \in Issues PROVE RecordsPast(k)'
  <2>1. RecordsPast(k)
    BY DEF TriageInv
  <2>2. \A n \in Issues : scan[n].image \in Triage!Records =>
                            scan[n].image[k] \in Triage!Record
    BY DEF Triage!Records
  <2> QED BY <1>2, <2>1, <2>2, TriageFacts DEF RecordsPast
<1>4. ASSUME NEW k \in Issues PROVE IssuePaid(k)'
  <2>1. Lost' = Lost /\ Recorded(k)' = Recorded(k)
    BY DEF Lost, Recorded
  <2>2. CASE k # i
    <3>1. issue'[k] = issue[k] /\ pending'[k] = pending[k] /\ causes'[k] = causes[k]
      BY <2>2 DEF TriageInv, TriageTypes
    <3> QED BY <2>1, <3>1 DEF TriageInv, IssuePaid
  <2>3. CASE k = i
    <3>1. issue'[i] = z /\ pending'[i] = p /\ causes'[i] = c
      BY DEF TriageInv, TriageTypes
    <3> QED BY <2>1, <2>3, <3>1 DEF IssuePaid
  <2> QED BY <2>2, <2>3
<1> QED BY <1>1, <1>3, <1>4 DEF TriageInv

LEMMA AgentEndsKeeps ==
  ASSUME TriageInv, NEW i \in Issues, Triage!AgentEnds(i)
  PROVE  TriageInv'
<1>1. pending[i] > 0 /\ UNCHANGED <<cache, statefile, scan, triages>>
  BY DEF Triage!AgentEnds
<1>2. /\ issue[i] \in Triage!Record /\ pending[i] \in Nat \ {0} /\ causes[i] \in Nat
      /\ scan[i] \in ScanRow /\ triages[i] \in Nat /\ Past(scan[i].seen, issue[i])
      /\ Lost \in BOOLEAN
      /\ ~Lost => Recorded(i) \in Triage!Record /\ Past(Recorded(i), issue[i])
  BY <1>1, TriageFacts DEF TriageInv, RecordsPast
<1>3. Paid(Lost, issue[i], Recorded(i), scan[i], pending[i], triages[i], causes[i])
  BY DEF TriageInv, IssuePaid
<1>4. CASE /\ Triage!Changes(i, 1) \/ UNCHANGED issue
           /\ pending' = [pending EXCEPT ![i] = @ - 1] /\ UNCHANGED causes
  <2>1. PICK z \in Triage!Record :
          /\ issue' = [issue EXCEPT ![i] = z]
          /\ \/ z = issue[i]
             \/ z.version = issue[i].version + 1 /\ z.comments = issue[i].comments + 1
    <3>1. CASE Triage!Changes(i, 1)
      BY <3>1, Changed
    <3>2. CASE UNCHANGED issue
      BY <1>2, <3>2 DEF TriageInv, TriageTypes
    <3> QED BY <1>4, <3>1, <3>2
  <2>2. Paid(Lost, z, Recorded(i), scan[i], pending[i] - 1, triages[i], causes[i])
    <3>1. CASE Lost
      BY <1>3, <3>1 DEF Paid
    <3>2. CASE ~Lost
      BY <1>2, <1>3, <2>1, <3>2, PaidEnd
    <3> QED BY <3>1, <3>2
  <2>3. causes' = [causes EXCEPT ![i] = causes[i]] /\ pending[i] - 1 \in Nat
    BY <1>2, <1>4 DEF TriageInv, TriageTypes
  <2> QED BY <1>1, <1>2, <1>4, <2>1, <2>2, <2>3, IssueMoves
<1>5. CASE /\ Triage!Changes(i, 1) /\ UNCHANGED pending
           /\ causes' = [causes EXCEPT ![i] = @ + 1]
  <2>1. PICK z \in Triage!Record :
          /\ issue' = [issue EXCEPT ![i] = z]
          /\ z.version = issue[i].version + 1 /\ z.comments = issue[i].comments + 1
    BY <1>5, Changed
  <2>2. Paid(Lost, z, Recorded(i), scan[i], pending[i], triages[i], causes[i] + 1)
    <3>1. CASE Lost
      BY <1>2, <1>3, <3>1 DEF Paid
    <3>2. CASE ~Lost
      BY <1>2, <1>3, <3>2, PaidForIssue
    <3> QED BY <3>1, <3>2
  <2>3. pending' = [pending EXCEPT ![i] = pending[i]] /\ causes[i] + 1 \in Nat
    BY <1>2, <1>5 DEF TriageInv, TriageTypes
  <2> QED BY <1>1, <1>2, <1>5, <2>1, <2>2, <2>3, IssueMoves
<1> QED BY <1>4, <1>5 DEF Triage!AgentEnds

LEMMA UserChangesKeeps ==
  ASSUME TriageInv, NEW i \in Issues, Triage!UserChanges(i)
  PROVE  TriageInv'
<1>1. /\ Triage!Changes(i, 0) \/ Triage!Changes(i, 1)
      /\ causes' = [causes EXCEPT ![i] = causes[i] + 1]
      /\ UNCHANGED <<cache, statefile, scan, pending, triages>>
  BY DEF Triage!UserChanges
<1>2. /\ issue[i] \in Triage!Record /\ pending[i] \in Nat /\ causes[i] \in Nat
      /\ scan[i] \in ScanRow /\ triages[i] \in Nat
      /\ Lost \in BOOLEAN
      /\ ~Lost => Recorded(i) \in Triage!Record
  BY TriageFacts
<1>3. Paid(Lost, issue[i], Recorded(i), scan[i], pending[i], triages[i], causes[i])
  BY DEF TriageInv, IssuePaid
<1>4. PICK z \in Triage!Record :
        /\ issue' = [issue EXCEPT ![i] = z]
        /\ z.version = issue[i].version + 1
        /\ z.comments \in {issue[i].comments, issue[i].comments + 1}
  <2>1. issue[i].comments + 0 = issue[i].comments
    BY <1>2 DEF Triage!Record
  <2>2. CASE Triage!Changes(i, 0)
    BY <2>1, <2>2, Changed
  <2>3. CASE Triage!Changes(i, 1)
    BY <2>3, Changed
  <2> QED BY <1>1, <2>2, <2>3
<1>5. Paid(Lost, z, Recorded(i), scan[i], pending[i], triages[i], causes[i] + 1)
  <2>1. CASE Lost
    BY <1>2, <1>3, <2>1 DEF Paid
  <2>2. CASE ~Lost
    BY <1>2, <1>3, <2>2, PaidForIssue
  <2> QED BY <2>1, <2>2
<1>6. pending' = [pending EXCEPT ![i] = pending[i]] /\ causes[i] + 1 \in Nat
  BY <1>1, <1>2 DEF TriageInv, TriageTypes
<1> QED BY <1>1, <1>2, <1>4, <1>5, <1>6, IssueMoves

LEMMA TriageCrashKeeps == ASSUME TriageInv, Triage!Crash PROVE TriageInv'
<1>1. /\ cache # Null /\ cache' = Null
      /\ scan' = [i \in Issues |-> Triage!Idle]
      /\ causes' = [i \in Issues |-> causes[i] +
           IF scan[i].step = "record" \/ (statefile # Torn /\ statefile[i] # cache[i])
           THEN 1 ELSE 0]
      /\ UNCHANGED <<issue, statefile, pending, triages>>
  BY DEF Triage!Crash, Triage!Add, Triage!At
<1>2. /\ Triage!Idle.step = "idle" /\ Triage!Idle.seen = Triage!New
      /\ Triage!Idle.image = Null
  BY DEF Triage!Idle
<1>3. TriageTypes'
  BY <1>1, RecordFacts DEF TriageInv, TriageTypes
<1>4. ASSUME NEW i \in Issues PROVE RecordsPast(i)'
  <2>1. RecordsPast(i)
    BY DEF TriageInv
  <2>2. Past(Triage!New, issue[i])
    BY <2>1, TriageFacts DEF RecordsPast, Past, Triage!New, Triage!Record
  <2>3. \A k \in Issues : scan'[k] = Triage!Idle
    BY <1>1
  <2>4. \A k \in Issues : scan'[k].image \notin Triage!Records
    BY <1>2, <2>3, RecordFacts
  <2> QED BY <1>1, <1>2, <2>1, <2>2, <2>3, <2>4 DEF RecordsPast
<1>5. ASSUME NEW i \in Issues PROVE IssuePaid(i)'
  <2>1. /\ triages[i] \in Nat /\ causes[i] \in Nat /\ pending[i] \in Nat
        /\ triages[i] <= 1 + 2 * causes[i] /\ issue[i] \in Triage!Record
        /\ scan[i] \in ScanRow
    BY TriageFacts, PaidNow
  <2>2. causes'[i] \in {causes[i], causes[i] + 1} /\ scan'[i] = Triage!Idle
    BY <1>1, <2>1
  <2>3. CASE statefile = Torn
    <3>1. Lost'
      BY <1>1, <2>3 DEF Lost
    <3> QED BY <1>1, <2>1, <2>2, <3>1 DEF IssuePaid, Paid
  <2>4. CASE statefile # Torn
    <3>1. ~Lost /\ ~Lost' /\ Recorded(i) = cache[i] /\ Recorded(i)' = statefile[i]
      BY <1>1, <2>4 DEF Lost, Recorded
    <3>2. statefile[i] \in Triage!Record /\ cache[i] \in Triage!Record
      BY <1>1, <2>4, TriageFacts
    <3>3. triages[i] + Owes(issue[i], statefile[i], pending[i]) <= 1 + 2 * causes'[i]
      <4>1. CASE scan[i].step = "record" \/ statefile[i] # cache[i]
        <5>1. causes'[i] = causes[i] + 1
          BY <1>1, <2>4, <4>1
        <5>2. Paid(FALSE, issue[i], cache[i], scan[i], pending[i], triages[i], causes[i])
          <6>1. Lost = FALSE
            BY <3>1
          <6> QED BY <3>1, <6>1 DEF TriageInv, IssuePaid
        <5>3. triages[i] + pending[i] <= 2 + 2 * causes[i]
          <6>1. /\ Owes(issue[i], cache[i], pending[i]) \in Nat
                /\ pending[i] <= Owes(issue[i], cache[i], pending[i]) + 1
                /\ Owes(issue[i], scan[i].seen, pending[i]) \in Nat
                /\ pending[i] <= Owes(issue[i], scan[i].seen, pending[i]) + 1
            BY <2>1, <3>2, TriageFacts, OwesBounds
          <6> QED BY <2>1, <5>2, <6>1 DEF Paid
        <5>4. /\ Owes(issue[i], statefile[i], pending[i]) \in Nat
              /\ Owes(issue[i], statefile[i], pending[i]) <= pending[i] + 1
          BY <2>1, <3>2, OwesBounds
        <5> QED BY <2>1, <5>1, <5>3, <5>4
      <4>2. CASE ~(scan[i].step = "record" \/ statefile[i] # cache[i])
        <5>1. causes'[i] = causes[i]
          BY <1>1, <2>1, <4>2
        <5>2. triages[i] + Owes(issue[i], Recorded(i), pending[i]) <= 1 + 2 * causes[i]
          BY <3>1, <4>2, PaidNow
        <5> QED BY <3>1, <4>2, <5>1, <5>2
      <4> QED BY <4>1, <4>2
    <3>4. triages[i] <= 1 + 2 * causes'[i]
      BY <2>1, <2>2
    <3> QED BY <1>1, <1>2, <2>2, <3>1, <3>3, <3>4 DEF IssuePaid, Paid
  <2> QED BY <2>3, <2>4
<1> QED BY <1>3, <1>4, <1>5 DEF TriageInv

LEMMA TriageKeeps == TriageInv /\ [Triage!Next]_(Triage!vars) => TriageInv'
<1> SUFFICES ASSUME TriageInv, [Triage!Next]_(Triage!vars) PROVE TriageInv'
  OBVIOUS
<1>1. CASE UNCHANGED Triage!vars
  BY <1>1 DEF Triage!vars, TriageInv, TriageTypes, RecordsPast, IssuePaid, Lost, Recorded
<1>2. CASE Triage!Next
  BY <1>2, FetchKeeps, LoadKeeps, LoadEndsKeeps, EnqueueKeeps, WriteKeeps, WriteEndsKeeps,
     AgentEndsKeeps, UserChangesKeeps, TriageCrashKeeps DEF Triage!Next
<1> QED BY <1>1, <1>2

LEMMA TriagePart == Spec => Triage!Spec
<1>1. Init => Triage!Init
  BY DEF Init
<1>2. [Next]_vars => [Triage!Next]_(Triage!vars)
  BY DEF Next, vars, issueVars, Triage!vars
<1> QED BY <1>1, <1>2, PTL DEF Spec, Triage!Spec

(* What the agents write about the issues starts no agents without end: an *)
(* issue is looked at once, and each change by a user, crash or failure    *)
(* costs two more agents at most, for any number of issues                 *)
(* (cron/jobs/issue-triage.ts:24-29, 196-218).                             *)
THEOREM AgentsStartNobody == Spec => []AgentsFeedNobody
<1>1. TriageInv => AgentsFeedNobody
  BY PaidNow DEF AgentsFeedNobody, Triage!AgentsFeedNobody
<1> QED BY <1>1, TriageInit, TriageKeeps, TriagePart, PTL DEF Triage!Spec


-----------------------------------------------------------------------------
(* The export to the memory backend *)

ExportRun == [step : {"idle", "scan", "send", "note"},
              turn : Export!Turn \cup {<<1, 0>>}, sent : Nat]

ExportTypes ==
  /\ committed \in [DOMAIN Turns -> Nat]
  /\ gone \subseteq Export!Turn /\ ledger \subseteq Export!Turn
  /\ exporter \in ExportRun
  /\ accepted \in [Export!Turn -> Nat] /\ doubts \in [Export!Turn -> Nat]

(* A turn there is no need to wait for. *)
Handled(t) == Export!KindOf(t) = "ineligible" \/ t \in gone \/ accepted[t] > 0

Earlier(t) == {<<t[1], i>> : i \in 1 .. t[2] - 1}

(* What was accepted is noted, about to be noted or in doubt; the turns    *)
(* before one that was accepted or is at hand are handled, and so is the   *)
(* turn itself the scan goes on from.                                      *)
ExportInv ==
  /\ ExportTypes
  /\ \A t \in Export!Turn :
       accepted[t] = doubts[t] +
         IF t \in ledger \/ (exporter.step = "note" /\ exporter.turn = t) THEN 1 ELSE 0
  /\ \A t \in Export!Turn : accepted[t] > 0 => \A u \in Earlier(t) : Handled(u)
  /\ exporter.step \in {"send", "note"} =>
       /\ exporter.turn \in Export!Turn \ ledger
       /\ \A u \in Earlier(exporter.turn) : Handled(u)
  /\ exporter.step = "scan" =>
       \A u \in Earlier(exporter.turn) \cup {exporter.turn} : u \in Export!Turn => Handled(u)

LEMMA TurnPairs ==
  ASSUME NEW t \in Export!Turn
  PROVE  /\ t = <<t[1], t[2]>> /\ t[1] \in DOMAIN Turns /\ t[1] \in Nat
         /\ t[2] \in Nat /\ t[2] >= 1
         /\ \A u \in Earlier(t) : /\ u \in Export!Turn /\ u[1] = t[1]
                                  /\ u[2] < t[2] /\ u[2] >= 1
         /\ \A u \in Export!Turn : u[1] = t[1] /\ u[2] < t[2] => u \in Earlier(t)
<1>1. DOMAIN Turns = 1 .. Len(Turns) /\ Len(Turns) \in Nat
  BY WorkAssumption
<1>2. \A g \in DOMAIN Turns : DOMAIN Turns[g] = 1 .. Len(Turns[g]) /\ Len(Turns[g]) \in Nat
  BY WorkAssumption
<1>3. PICK g \in DOMAIN Turns : \E i \in DOMAIN Turns[g] : t = <<g, i>>
  BY DEF Export!Turn
<1>4. PICK i \in DOMAIN Turns[g] : t = <<g, i>>
  BY <1>3
<1>5. i \in 1 .. Len(Turns[g]) /\ Len(Turns[g]) \in Nat
  BY <1>2, <1>4
<1>6. ASSUME NEW u \in Earlier(t)
      PROVE  /\ u \in Export!Turn /\ u[1] = t[1] /\ u[2] < t[2] /\ u[2] >= 1
  <2>1. PICK k \in 1 .. i - 1 : u = <<g, k>>
    BY <1>4, <1>6 DEF Earlier
  <2>2. k \in DOMAIN Turns[g]
    BY <1>2, <1>5, <2>1
  <2> QED BY <1>4, <1>5, <2>1, <2>2 DEF Export!Turn
<1>7. ASSUME NEW u \in Export!Turn, u[1] = t[1], u[2] < t[2] PROVE u \in Earlier(t)
  <2>1. PICK h \in DOMAIN Turns : \E k \in DOMAIN Turns[h] : u = <<h, k>>
    BY DEF Export!Turn
  <2>2. PICK k \in DOMAIN Turns[h] : u = <<h, k>>
    BY <2>1
  <2>3. h = g /\ k \in 1 .. Len(Turns[g]) /\ k < i
    BY <1>2, <1>4, <1>7, <2>2
  <2> QED BY <1>4, <1>5, <2>2, <2>3 DEF Earlier
<1> QED BY <1>1, <1>4, <1>5, <1>6, <1>7

LEMMA ExportInit == Export!Init => ExportInv
<1> SUFFICES ASSUME Export!Init PROVE ExportInv
  OBVIOUS
<1>1. exporter = [step |-> "idle", turn |-> <<1, 0>>, sent |-> 0]
  BY DEF Export!Init, Export!Idle
<1>2. ExportTypes
  BY <1>1 DEF Export!Init, ExportTypes, ExportRun, Export!Zero
<1>3. \A t \in Export!Turn : accepted[t] = 0 /\ doubts[t] = 0 /\ t \notin ledger
  BY DEF Export!Init, Export!Zero
<1> QED BY <1>1, <1>2, <1>3 DEF ExportInv

(* Nothing that was handled is not.                                        *)
LEMMA HandledStays ==
  ASSUME ExportInv, gone \subseteq gone', accepted' \in [Export!Turn -> Nat],
         \A t \in Export!Turn : accepted'[t] >= accepted[t]
  PROVE  \A t \in Export!Turn : Handled(t) => Handled(t)'
BY DEF ExportInv, ExportTypes, Handled, Export!KindOf

(* The accounts of the turns after a step of the run.                      *)
LEMMA ExportStep ==
  ASSUME ExportInv, ExportTypes', gone \subseteq gone',
         \A t \in Export!Turn : accepted'[t] >= accepted[t],
         \A t \in Export!Turn :
           accepted'[t] = doubts'[t] +
             IF t \in ledger' \/ (exporter'.step = "note" /\ exporter'.turn = t)
             THEN 1 ELSE 0,
         \A t \in Export!Turn :
           accepted'[t] > 0 =>
             \/ accepted[t] > 0
             \/ exporter.step \in {"send", "note"} /\ exporter.turn = t,
         exporter'.step \in {"send", "note"} =>
           /\ exporter'.turn \in Export!Turn \ ledger'
           /\ \A u \in Earlier(exporter'.turn) : Handled(u),
         exporter'.step = "scan" =>
           \A u \in Earlier(exporter'.turn) \cup {exporter'.turn} :
             u \in Export!Turn => Handled(u) \/ u \in ledger'
  PROVE  ExportInv'
<1>1. accepted' \in [Export!Turn -> Nat] /\ doubts' \in [Export!Turn -> Nat]
  BY DEF ExportTypes
<1>2. \A t \in Export!Turn : Handled(t) => Handled(t)'
  BY <1>1, HandledStays
<1>3. \A t \in Export!Turn : t \in ledger' => Handled(t)'
  BY <1>1 DEF Handled
<1>4. ASSUME NEW t \in Export!Turn, accepted'[t] > 0
      PROVE  \A u \in Earlier(t) : Handled(u)'
  BY <1>2, <1>4, TurnPairs DEF ExportInv
<1>5. ASSUME exporter'.step \in {"send", "note"}
      PROVE  /\ exporter'.turn \in Export!Turn \ ledger'
             /\ \A u \in Earlier(exporter'.turn) : Handled(u)'
  BY <1>2, <1>5, TurnPairs
<1>6. ASSUME exporter'.step = "scan",
             NEW u \in Earlier(exporter'.turn) \cup {exporter'.turn}, u \in Export!Turn
      PROVE  Handled(u)'
  BY <1>2, <1>3, <1>6
<1>7. Earlier(exporter.turn)' = Earlier(exporter'.turn)
  BY DEF Earlier
<1> QED BY <1>4, <1>5, <1>6, <1>7 DEF ExportInv, Export!Turn

LEMMA RunFacts ==
  ASSUME ExportInv
  PROVE  /\ exporter.step \in {"idle", "scan", "send", "note"}
         /\ exporter.turn \in Export!Turn \cup {<<1, 0>>} /\ exporter.sent \in Nat
         /\ Export!Idle \in ExportRun /\ Export!Idle.step = "idle"
         /\ Export!Idle.turn = <<1, 0>> /\ <<1, 0>> \notin Export!Turn
         /\ \A u \in Earlier(<<1, 0>>) : FALSE
<1>1. <<1, 0>> \notin Export!Turn
  BY TurnPairs
<1>2. \A u \in Earlier(<<1, 0>>) : FALSE
  BY DEF Earlier
<1> QED BY <1>1, <1>2 DEF ExportInv, ExportTypes, ExportRun, Export!Idle

(* A step that leaves the run and its accounts alone.                      *)
LEMMA RunStays ==
  ASSUME ExportInv, UNCHANGED <<exporter, ledger, accepted, doubts>>,
         gone \subseteq gone', gone' \subseteq Export!Turn,
         committed' \in [DOMAIN Turns -> Nat]
  PROVE  ExportInv'
<1>1. ExportTypes'
  BY DEF ExportInv, ExportTypes
<1>2. \A t \in Export!Turn : accepted'[t] >= accepted[t]
  BY DEF ExportInv, ExportTypes
<1> QED BY <1>1, <1>2, ExportStep DEF ExportInv

(* A step that ends the run; what was accepted at its turn and is not      *)
(* noted is in doubt.                                                      *)
LEMMA RunEnds ==
  ASSUME ExportInv, UNCHANGED <<committed, gone, ledger>>,
         exporter' \in ExportRun, exporter'.step = "idle",
         \/ exporter.step # "note" /\ UNCHANGED <<accepted, doubts>>
         \/ /\ exporter.step = "note" /\ UNCHANGED accepted
            /\ doubts' = [doubts EXCEPT ![exporter.turn] = @ + 1]
         \/ /\ exporter.step = "send"
            /\ accepted' = [accepted EXCEPT ![exporter.turn] = @ + 1]
            /\ doubts' = [doubts EXCEPT ![exporter.turn] = @ + 1]
  PROVE  ExportInv'
<1>1. accepted \in [Export!Turn -> Nat] /\ doubts \in [Export!Turn -> Nat]
  BY DEF ExportInv, ExportTypes
<1>2. exporter.step \in {"send", "note"} => exporter.turn \in Export!Turn \ ledger
  BY DEF ExportInv
<1>3. accepted' \in [Export!Turn -> Nat] /\ doubts' \in [Export!Turn -> Nat]
  BY <1>1, <1>2
<1>4. ExportTypes'
  BY <1>3 DEF ExportInv, ExportTypes
<1>5. \A t \in Export!Turn : accepted'[t] >= accepted[t]
  BY <1>1, <1>2
<1>6. ASSUME NEW t \in Export!Turn
      PROVE  /\ accepted'[t] = doubts'[t] + IF t \in ledger' THEN 1 ELSE 0
             /\ accepted'[t] > 0 => \/ accepted[t] > 0
                                    \/ exporter.step \in {"send", "note"} /\ exporter.turn = t
  <2>1. accepted[t] = doubts[t] +
         IF t \in ledger \/ (exporter.step = "note" /\ exporter.turn = t) THEN 1 ELSE 0
    BY DEF ExportInv
  <2>2. CASE exporter.step # "note" /\ UNCHANGED <<accepted, doubts>>
    BY <1>1, <2>1, <2>2
  <2>3. CASE /\ exporter.step = "note" /\ UNCHANGED accepted
             /\ doubts' = [doubts EXCEPT ![exporter.turn] = @ + 1]
    BY <1>1, <1>2, <2>1, <2>3
  <2>4. CASE /\ exporter.step = "send"
             /\ accepted' = [accepted EXCEPT ![exporter.turn] = @ + 1]
             /\ doubts' = [doubts EXCEPT ![exporter.turn] = @ + 1]
    BY <1>1, <1>2, <2>1, <2>4
  <2> QED BY <2>2, <2>3, <2>4
<1> QED BY <1>4, <1>5, <1>6, ExportStep

LEMMA StartJobKeeps == ASSUME ExportInv, Export!StartJob PROVE ExportInv'
<1>1. UNCHANGED <<committed, gone, ledger, accepted, doubts>> /\ exporter.step = "idle"
  BY DEF Export!StartJob, Export!At
<1>2. CASE UNCHANGED exporter
  BY <1>1, <1>2, RunStays DEF ExportInv, ExportTypes
<1>3. CASE exporter' = [Export!Idle EXCEPT !.step = "scan"]
  <2>1. /\ exporter' \in ExportRun /\ exporter'.step = "scan"
        /\ exporter'.turn = <<1, 0>>
    BY <1>3 DEF Export!Idle, ExportRun
  <2>2. ExportTypes' /\ \A t \in Export!Turn : accepted'[t] >= accepted[t]
    BY <1>1, <2>1 DEF ExportInv, ExportTypes
  <2>3. \A u \in Earlier(exporter'.turn) \cup {exporter'.turn} : u \notin Export!Turn
    BY <2>1, RunFacts
  <2> QED BY <1>1, <2>1, <2>2, <2>3, ExportStep DEF ExportInv
<1> QED BY <1>2, <1>3 DEF Export!StartJob

LEMMA ScanKeeps == ASSUME ExportInv, Export!Scan PROVE ExportInv'
<1>1. UNCHANGED <<committed, gone, ledger, accepted, doubts>> /\ exporter.step = "scan"
  BY DEF Export!Scan, Export!At
<1>2. CASE exporter' = Export!Idle
  <2>1. exporter' \in ExportRun /\ exporter'.step = "idle"
    BY <1>2, RunFacts
  <2> QED BY <1>1, <2>1, RunEnds
<1>3. ASSUME NEW t \in Export!ToSend,
             \A u \in Export!ToSend : u = t \/ Export!Before(t, u),
             exporter' = [exporter EXCEPT !.step = "send", !.turn = t]
      PROVE  ExportInv'
  <2>1. /\ t \in Export!Turn \ ledger /\ Export!Before(exporter.turn, t)
        /\ t[2] <= committed[t[1]]
    BY DEF Export!ToSend
  <2>2. exporter' \in ExportRun /\ exporter'.step = "send" /\ exporter'.turn = t
    BY <1>3, <2>1 DEF ExportInv, ExportTypes, ExportRun
  <2>3. ASSUME NEW u \in Earlier(t) PROVE Handled(u)
    <3>1. /\ u \in Export!Turn /\ u[1] = t[1] /\ u[2] < t[2] /\ t[1] \in DOMAIN Turns
          /\ t[1] \in Nat /\ t[2] \in Nat /\ u[2] \in Nat
      BY <2>1, TurnPairs
    <3>2. committed[t[1]] \in Nat
      BY <3>1 DEF ExportInv, ExportTypes
    <3>3. u \notin Export!ToSend
      BY <1>3, <3>1 DEF Export!Before
    <3>4. CASE Export!Before(exporter.turn, u)
      <4>1. u \in gone \cup ledger \/ Export!KindOf(u) = "ineligible"
        BY <2>1, <3>1, <3>2, <3>3, <3>4 DEF Export!ToSend
      <4>2. u \in ledger => accepted[u] > 0
        BY <3>1 DEF ExportInv, ExportTypes
      <4> QED BY <4>1, <4>2 DEF Handled
    <3>5. CASE ~Export!Before(exporter.turn, u)
      <4>1. exporter.turn # <<1, 0>> \/ t[1] = 1
        BY <2>1, <3>1, <3>5, TurnPairs DEF Export!Before
      <4>2. exporter.turn \in Export!Turn
        <5>1. exporter.turn \in Export!Turn \cup {<<1, 0>>}
          BY RunFacts
        <5>2. ASSUME exporter.turn = <<1, 0>> PROVE FALSE
          <6>1. u[2] >= 1 /\ u[1] = 1
            BY <3>1, <4>1, <5>2, TurnPairs
          <6> QED BY <3>1, <3>5, <5>2, <6>1 DEF Export!Before
        <5> QED BY <5>1, <5>2
      <4>3. /\ exporter.turn[1] \in Nat /\ exporter.turn[2] \in Nat
        BY <4>2, TurnPairs
      <4>4. exporter.turn[1] = t[1] /\ ~(exporter.turn[2] < u[2])
        BY <2>1, <3>1, <3>5, <4>3 DEF Export!Before
      <4>5. u \in Earlier(exporter.turn) \cup {exporter.turn}
        <5>1. CASE u[2] < exporter.turn[2]
          BY <3>1, <4>2, <4>4, <5>1, TurnPairs
        <5>2. CASE u[2] = exporter.turn[2]
          BY <3>1, <4>2, <4>4, <5>2, TurnPairs
        <5> QED BY <3>1, <4>3, <4>4, <5>1, <5>2
      <4> QED BY <1>1, <3>1, <4>5 DEF ExportInv
    <3> QED BY <3>4, <3>5
  <2>4. ExportTypes' /\ \A x \in Export!Turn : accepted'[x] >= accepted[x]
    BY <1>1, <2>2 DEF ExportInv, ExportTypes
  <2> QED BY <1>1, <2>1, <2>2, <2>3, <2>4, ExportStep DEF ExportInv
<1> QED BY <1>2, <1>3 DEF Export!Scan, Export!EndsWell, Export!Fails

LEMMA SendKeeps == ASSUME ExportInv, Export!Send PROVE ExportInv'
<1>1. UNCHANGED <<committed, gone, ledger>> /\ exporter.step = "send"
  BY DEF Export!Send, Export!At
<1>2. exporter.turn \in Export!Turn \ ledger /\ \A u \in Earlier(exporter.turn) : Handled(u)
  BY <1>1 DEF ExportInv
<1>3. CASE exporter' = Export!Idle /\ UNCHANGED <<accepted, doubts>>
  <2>1. exporter' \in ExportRun /\ exporter'.step = "idle"
    BY <1>3, RunFacts
  <2> QED BY <1>1, <1>3, <2>1, RunEnds
<1>4. CASE /\ exporter' = Export!Idle
           /\ accepted' = [accepted EXCEPT ![exporter.turn] = @ + 1]
           /\ doubts' = [doubts EXCEPT ![exporter.turn] = @ + 1]
  <2>1. exporter' \in ExportRun /\ exporter'.step = "idle"
    BY <1>4, RunFacts
  <2> QED BY <1>1, <1>2, <1>4, <2>1, RunEnds
<1>5. CASE /\ accepted' = [accepted EXCEPT ![exporter.turn] = @ + 1]
           /\ exporter' = [exporter EXCEPT !.step = "note"] /\ UNCHANGED doubts
  <2>1. exporter' \in ExportRun /\ exporter'.step = "note" /\ exporter'.turn = exporter.turn
    BY <1>5 DEF ExportInv, ExportTypes, ExportRun
  <2>2. accepted \in [Export!Turn -> Nat] /\ doubts \in [Export!Turn -> Nat]
    BY DEF ExportInv, ExportTypes
  <2>3. accepted' \in [Export!Turn -> Nat]
    BY <1>2, <1>5, <2>2
  <2>4. ExportTypes' /\ \A x \in Export!Turn : accepted'[x] >= accepted[x]
    BY <1>1, <1>5, <2>1, <2>2, <2>3 DEF ExportInv, ExportTypes
  <2>5. \A x \in Export!Turn :
          accepted[x] = doubts[x] + IF x \in ledger THEN 1 ELSE 0
    BY <1>1 DEF ExportInv
  <2>6. \A x \in Export!Turn :
          accepted'[x] = doubts'[x] +
            IF x \in ledger' \/ (exporter'.step = "note" /\ exporter'.turn = x) THEN 1 ELSE 0
    BY <1>1, <1>2, <1>5, <2>1, <2>2, <2>5
  <2>7. \A x \in Export!Turn : accepted'[x] > 0 => accepted[x] > 0 \/ exporter.turn = x
    BY <1>5, <2>2
  <2> QED BY <1>1, <1>2, <2>1, <2>4, <2>6, <2>7, ExportStep
<1> QED BY <1>3, <1>4, <1>5 DEF Export!Send, Export!Refused, Export!Fails

LEMMA NoteKeeps == ASSUME ExportInv, Export!Note PROVE ExportInv'
<1>1. UNCHANGED <<committed, gone, accepted>> /\ exporter.step = "note"
  BY DEF Export!Note, Export!At
<1>2. exporter.turn \in Export!Turn \ ledger /\ \A u \in Earlier(exporter.turn) : Handled(u)
  BY <1>1 DEF ExportInv
<1>3. accepted \in [Export!Turn -> Nat] /\ doubts \in [Export!Turn -> Nat]
  BY DEF ExportInv, ExportTypes
<1>4. CASE /\ ledger' = ledger \cup {exporter.turn} /\ UNCHANGED doubts
           /\ \/ exporter' = Export!Idle
              \/ exporter' = [exporter EXCEPT !.step = "scan", !.sent = @ + 1]
  <2>1. /\ exporter' \in ExportRun /\ exporter'.step \in {"idle", "scan"}
        /\ exporter'.step = "scan" => exporter'.turn = exporter.turn
    <3>1. CASE exporter' = Export!Idle
      BY <3>1, RunFacts
    <3>2. CASE exporter' = [exporter EXCEPT !.step = "scan", !.sent = @ + 1]
      <4> DEFINE w == [exporter EXCEPT !.step = "scan"]
      <4>1. w \in ExportRun /\ w.step = "scan" /\ w.turn = exporter.turn
        BY DEF ExportInv, ExportTypes, ExportRun
      <4>2. exporter' = [w EXCEPT !.sent = exporter.sent + 1]
        BY <3>2
      <4> HIDE DEF w
      <4> QED BY <4>1, <4>2, RunFacts DEF ExportRun
    <3> QED BY <1>4, <3>1, <3>2
  <2>2. ExportTypes' /\ \A x \in Export!Turn : accepted'[x] >= accepted[x]
    BY <1>1, <1>2, <1>3, <1>4, <2>1 DEF ExportInv, ExportTypes
  <2>3. \A x \in Export!Turn :
          accepted'[x] = doubts'[x] +
            IF x \in ledger' \/ (exporter'.step = "note" /\ exporter'.turn = x) THEN 1 ELSE 0
    <3>1. \A x \in Export!Turn : accepted[x] = doubts[x] +
            IF x \in ledger \/ (exporter.step = "note" /\ exporter.turn = x) THEN 1 ELSE 0
      BY DEF ExportInv
    <3> QED BY <1>1, <1>4, <2>1, <3>1
  <2>4. exporter'.step = "scan" =>
          \A u \in Earlier(exporter'.turn) \cup {exporter'.turn} :
            u \in Export!Turn => Handled(u) \/ u \in ledger'
    BY <1>2, <1>4, <2>1
  <2> QED BY <1>1, <2>1, <2>2, <2>3, <2>4, ExportStep
<1>5. CASE /\ exporter' = Export!Idle /\ UNCHANGED ledger
           /\ doubts' = [doubts EXCEPT ![exporter.turn] = @ + 1]
  <2>1. exporter' \in ExportRun /\ exporter'.step = "idle"
    BY <1>5, RunFacts
  <2> QED BY <1>1, <1>5, <2>1, RunEnds
<1> QED BY <1>4, <1>5 DEF Export!Note, Export!EndsWell, Export!Fails

LEMMA RestartKeeps == ASSUME ExportInv, Export!Restart PROVE ExportInv'
<1>1. UNCHANGED <<committed, gone, ledger>> /\ exporter' = Export!Idle
  BY DEF Export!Restart
<1>2. exporter' \in ExportRun /\ exporter'.step = "idle"
  BY <1>1, RunFacts
<1>3. CASE UNCHANGED <<accepted, doubts>> /\ exporter.step # "note"
  BY <1>1, <1>2, <1>3, RunEnds
<1>4. CASE /\ exporter.step = "note" /\ UNCHANGED accepted
           /\ doubts' = [doubts EXCEPT ![exporter.turn] = @ + 1]
  BY <1>1, <1>2, <1>4, RunEnds
<1>5. CASE /\ exporter.step = "send"
           /\ accepted' = [accepted EXCEPT ![exporter.turn] = @ + 1]
           /\ doubts' = [doubts EXCEPT ![exporter.turn] = @ + 1]
  BY <1>1, <1>2, <1>5, RunEnds
<1> QED BY <1>3, <1>4, <1>5 DEF Export!Restart, Export!At

LEMMA ExportKeeps == ExportInv /\ [Export!Next]_(Export!vars) => ExportInv'
<1> SUFFICES ASSUME ExportInv, [Export!Next]_(Export!vars) PROVE ExportInv'
  OBVIOUS
<1>1. gone \subseteq Export!Turn /\ committed \in [DOMAIN Turns -> Nat]
  BY DEF ExportInv, ExportTypes
<1>2. CASE UNCHANGED Export!vars \/ Export!Tick
  BY <1>1, <1>2, RunStays DEF Export!vars, Export!Tick
<1>3. ASSUME NEW g \in DOMAIN Turns, Export!Commit(g) PROVE ExportInv'
  <2>1. committed' \in [DOMAIN Turns -> Nat]
    BY <1>1, <1>3 DEF Export!Commit
  <2> QED BY <1>1, <1>3, <2>1, RunStays DEF Export!Commit
<1>4. ASSUME NEW t \in Export!Turn, Export!Delete(t) PROVE ExportInv'
  BY <1>1, <1>4, RunStays DEF Export!Delete
<1> QED BY <1>2, <1>3, <1>4, StartJobKeeps, ScanKeeps, SendKeeps, NoteKeeps, RestartKeeps
     DEF Export!Next

LEMMA ExportPart == Spec => Export!Spec
<1>1. Init => Export!Init
  BY DEF Init
<1>2. [Next]_vars => [Export!Next]_(Export!vars)
  BY DEF Next, vars, exportVars, Export!vars
<1> QED BY <1>1, <1>2, PTL DEF Spec, Export!Spec

(* Whatever runs of the export fail, are killed or answered too late: the  *)
(* memory backend gets the turns of a conversation in their order, none of *)
(* them twice but for an answer that was lost (memory/export.ts:61-82).    *)
THEOREM TurnsExportedInOrder == Spec => []ExportedInOrder
<1>1. ExportInv => ExportedInOrder
  <2> SUFFICES ASSUME ExportInv PROVE Export!ExportedInOrder
    BY DEF ExportedInOrder
  <2>1. ASSUME NEW t \in Export!Turn, accepted[t] > 0, NEW i \in 1 .. t[2] - 1
        PROVE  LET u == <<t[1], i>> IN
               Export!KindOf(u) = "ineligible" \/ u \in gone \/ accepted[u] > 0
    BY <2>1 DEF ExportInv, Earlier, Handled
  <2>2. \A t \in Export!Turn : /\ t \in ledger => accepted[t] > doubts[t]
                               /\ accepted[t] <= 1 + doubts[t]
    BY DEF ExportInv, ExportTypes
  <2> QED BY <2>1, <2>2 DEF Export!ExportedInOrder
<1> QED BY <1>1, ExportInit, ExportKeeps, ExportPart, PTL DEF Export!Spec
=============================================================================
