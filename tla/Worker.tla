------------------------------- MODULE Worker -------------------------------
(***************************************************************************)
(* One row of the ledger through processMessage of queue/poller.ts, at the *)
(* detail Poller leaves out: the identity that is frozen for all attempts, *)
(* the Discord thread of a cron conversation, created and saved before its *)
(* agent may run, the failures of each step, and the source that is told   *)
(* of the end.  With the steps before the container taken together it is   *)
(* Poller.                                                                 *)
(***************************************************************************)
EXTENDS Integers, FiniteSets

CONSTANTS
  Job, Session, Null,
  Setups,        \* the kinds of rows, see Kinds
  MaxAttempts,
  MaxPrompts,    \* versions of the system prompt
  MaxCrashes,
  MaxTroubles    \* bound on failing writes, requests and callbacks

VARIABLES jobs, idem, deadLetters, outbox, conversations, settledBy

Jobs == {Job}
Sessions == {Session}
Q == INSTANCE JobQueue WITH Keys <- {}, ActiveOnlyKeys <- {}, MaxChunks <- 1

VARIABLES
  host, agents, stray, crashes,   \* as in Poller
  setup,     \* the kind of the row
  saved,     \* of its payload_json: the thread and the frozen prompt, 0 if none
  work,      \* the worker of the row and its copy of the payload
  prompt,    \* the version of the system prompt on disk
  threads,   \* Discord threads made for the row
  unsaved,   \* of these, threads whose id was lost with a crash or two failures
  runs,      \* what the agents of the row were started with
  answer,    \* the thread its answer goes to, Null before there is one
  told,      \* has the source been told of the end?
  excused,   \* the end came where nobody tells the source
  troubles

ledger == <<jobs, idem, deadLetters, outbox, conversations, settledBy>>
container == <<host, agents, stray, crashes>>
world == <<setup, prompt, threads, unsaved>>
history == <<runs, answer, told, excused>>
vars == <<ledger, container, world, saved, work, history, troubles>>

(* What is known of a row when it is accepted.  "legacy" is an item-thread *)
(* row of a release that made the thread first.                            *)
Kinds == [feature : {"none", "rss", "mail"}, known : BOOLEAN, handler : BOOLEAN,
          mode : {"channel", "new-thread", "legacy"}]

Blank == [thread |-> 0, prompt |-> 0]
Idle == [step |-> "idle", token |-> 0, aborted |-> FALSE, tell |-> "never",
         end |-> "none", thread |-> 0, prompt |-> 0]

Init ==
  /\ Q!Init
  /\ host = "up" /\ agents = {} /\ stray = {} /\ crashes = 0
  /\ setup \in Setups
  /\ saved = Blank /\ work = Idle
  /\ prompt = 1 /\ threads = 0 /\ unsaved = 0
  /\ runs = {} /\ answer = Null /\ told = FALSE /\ excused = FALSE
  /\ troubles = 0

At(step) == host = "up" /\ work.step = step
Goto(step) == work' = [work EXCEPT !.step = step]
Trouble == troubles < MaxTroubles /\ troubles' = troubles + 1
Agent == <<Job, work.token>>

(* terminalOnAgentFailure: a failed RSS run is not tried again. *)
TerminalSource == setup.feature = "rss"
Fails == IF TerminalSource THEN "hopeless" ELSE "failed"

(* usesCronDestinationSession, for a row that is no RSS dispatch. *)
NeedsThread == setup.mode = "new-thread" /\ ~TerminalSource

-----------------------------------------------------------------------------
Receive ==
  /\ host = "up"
  /\ Q!Enqueue(Job, Session, Null, FALSE)
  /\ UNCHANGED <<container, world, saved, work, history, troubles>>

(* A claimed row comes with its payload; claim buries a row whose attempts *)
(* are used up itself, and tells nobody.                                   *)
Poll ==
  /\ host = "up"
  /\ Q!Claim(IF work.step = "idle" THEN {} ELSE {Job})
  /\ work' = IF jobs'[Job].token > jobs[Job].token
             THEN [Idle EXCEPT !.step = "begin", !.token = jobs'[Job].token,
                               !.thread = saved.thread, !.prompt = saved.prompt]
             ELSE work
  /\ excused' = (excused \/ jobs'[Job].status = "dead_letter")
  /\ UNCHANGED <<container, world, saved, runs, answer, told, troubles>>

Renew ==
  /\ host = "up" /\ work.step # "idle"
  /\ Q!Heartbeat(Job, work.token)
  /\ UNCHANGED <<container, world, saved, work, history, troubles>>

RenewFails ==
  /\ host = "up" /\ work.step \notin {"idle", "tell"} /\ ~work.aborted /\ Trouble
  /\ work' = [work EXCEPT !.aborted = TRUE]
  /\ UNCHANGED <<ledger, container, world, saved, history>>

(* What is refused before anything is done: a legacy row, an unknown source. *)
Begin ==
  /\ At("begin") /\ ~setup.handler
  /\ IF setup.mode = "legacy"
     THEN /\ work' = [work EXCEPT !.step = "hopeless",
                                  !.tell = IF TerminalSource THEN "settled" ELSE "never"]
          /\ excused' = ~TerminalSource
     ELSE IF ~setup.known THEN Goto("failed") /\ excused' = TRUE
     ELSE Goto("capture") /\ UNCHANGED excused
  /\ UNCHANGED <<ledger, container, world, saved, runs, answer, told, troubles>>

(* captureFrozenIdentity: the prompt of now, unless an attempt froze one. *)
Frozen == IF work.prompt = 0 THEN prompt ELSE work.prompt

Capture ==
  /\ At("capture")
  /\ \/ /\ work' = [work EXCEPT !.step = "freeze", !.prompt = Frozen]
        /\ UNCHANGED troubles
     \/ /\ Trouble
        /\ \E end \in {"failed", "hopeless"} :
             work' = [work EXCEPT !.step = end, !.tell = "settled"]
  /\ UNCHANGED <<ledger, container, world, saved, history>>

Freeze ==
  /\ At("freeze")
  /\ \/ /\ Q!Fenced(Job, work.token)
        /\ saved' = [saved EXCEPT !.prompt = work.prompt]
        /\ work' = [work EXCEPT !.tell = "always",
             !.step = IF NeedsThread /\ work.thread = 0 THEN "thread" ELSE "start"]
        /\ UNCHANGED troubles
     \/ /\ Trouble
        /\ work' = [work EXCEPT !.step = "failed", !.tell = "settled"]
        /\ UNCHANGED saved
  /\ UNCHANGED <<ledger, container, world, history>>

-----------------------------------------------------------------------------
(* ensureCronThread *)

(* Mutant: a lost answer of Discord is tried again like a refusal. *)
MutantLostAnswer == "failed"

(* Once Discord was asked, a failure without a status code is ambiguous. *)
LostAnswer == "hopeless"

CreateCronThread ==
  /\ At("thread")
  /\ \/ /\ threads' = threads + 1
        /\ work' = [work EXCEPT !.step = "save", !.thread = threads + 1]
        /\ UNCHANGED troubles
     \/ /\ Trouble
        /\ Goto("failed") \/ Goto("hopeless")
        /\ UNCHANGED threads
     \/ /\ Trouble
        /\ threads' \in {threads, threads + 1}
        /\ Goto(LostAnswer)
  /\ UNCHANGED <<ledger, container, setup, prompt, unsaved, saved, history>>

(* A write that throws may have been committed: the row is read again. *)
SaveThread ==
  /\ At("save")
  /\ \/ /\ Q!Fenced(Job, work.token)
        /\ saved' = [saved EXCEPT !.thread = work.thread]
        /\ Goto("start")
        /\ UNCHANGED <<unsaved, troubles>>
     \/ /\ Trouble
        /\ \/ saved' = [saved EXCEPT !.thread = work.thread] /\ Goto("start")
              /\ UNCHANGED unsaved
           \/ Goto("hopeless") /\ UNCHANGED <<saved, unsaved>>
     \/ /\ troubles + 2 <= MaxTroubles /\ troubles' = troubles + 2
        /\ unsaved' = unsaved + 1
        /\ Goto("failed")
        /\ UNCHANGED saved
  /\ UNCHANGED <<ledger, container, setup, prompt, threads, history>>

-----------------------------------------------------------------------------
(* The run *)

(* The options of sendMessage, as far as they differ between attempts. *)
Options == [session |-> IF NeedsThread THEN work.thread ELSE 0, prompt |-> work.prompt]

(* Mutant: an aborted attempt is started all the same. *)
MutantMayRun == TRUE

(* The wait for the provider lock and the boot heed the signal. *)
MayRun == ~work.aborted

(* What sendMessage refuses before there is a container, a configuration   *)
(* or a lock that cannot be had.                                           *)
NoContainer == Goto(Fails) \/ Goto("hopeless")

StartRun ==
  /\ At("start")
  /\ (MayRun /\ Goto("booting")) \/ NoContainer
  /\ UNCHANGED <<ledger, container, world, saved, history, troubles>>

Ready ==
  /\ At("booting") /\ MayRun
  /\ Q!MarkRunning(Job, work.token)
  /\ agents' = agents \cup {Agent}
  /\ runs' = runs \cup {Options}
  /\ Goto("running")
  /\ UNCHANGED <<host, stray, crashes, world, saved, answer, told, excused, troubles>>

HandlerRuns ==
  /\ At("begin") /\ setup.handler
  /\ Q!MarkRunning(Job, work.token)
  /\ Goto("running")
  /\ UNCHANGED <<container, world, saved, history, troubles>>

BootFails ==
  /\ At("booting")
  /\ NoContainer
  /\ UNCHANGED <<ledger, container, world, saved, history, troubles>>

(* The exit code, an empty answer or an error decides, or docker's word    *)
(* that the container of a run that is given up is gone.                   *)
Exit ==
  /\ At("running")
  /\ agents' = agents \ {Agent}
  /\ Goto("answered") \/ Goto(Fails) \/ Goto("hopeless")
  /\ UNCHANGED <<ledger, host, stray, crashes, world, saved, history, troubles>>

(* The run ends without its container: docker cannot kill it, a forced     *)
(* /stop kills docker's client first, or the client dies by another hand.  *)
Lose ==
  /\ At("running") /\ Agent \in agents
  /\ stray' = stray \cup {Agent}
  /\ Goto(Fails) \/ Goto("hopeless")
  /\ UNCHANGED <<ledger, host, agents, crashes, world, saved, history, troubles>>

-----------------------------------------------------------------------------
(* The end of the attempt *)

(* Mutant: only an answer is followed by the callback. *)
MutantNext(settled) ==
  IF setup.feature # "none" /\ work.tell # "never" /\ settled /\ work.step = "answered"
  THEN [work EXCEPT !.step = "tell", !.end = work.step] ELSE Idle

(* The finally block, the failure branches: is the source told now? *)
NextOf(settled) ==
  IF setup.feature # "none" /\ (work.tell = "always" \/ (work.tell = "settled" /\ settled))
  THEN [work EXCEPT !.step = "tell", !.end = work.step] ELSE Idle

Settle ==
  /\ \/ /\ At("answered")
        /\ \E suppress, conversation \in BOOLEAN :
             /\ setup.handler => suppress /\ ~conversation
             /\ Q!CommitResult(Job, work.token, suppress, conversation, 1)
        /\ answer' = work.thread
     \/ At("answered") /\ ~setup.handler /\ Q!DeadLetter(Job, work.token) /\ UNCHANGED answer
     \/ At("failed") /\ Q!FailAttempt(Job, work.token) /\ UNCHANGED answer
     \/ At("hopeless") /\ Q!DeadLetter(Job, work.token) /\ UNCHANGED answer
  /\ work' = NextOf(TRUE)
  /\ UNCHANGED <<container, world, saved, runs, told, excused, troubles>>

(* In a host job and with a thread of its own the commit is inside the try *)
(* block: a commit that throws is a failed run.                            *)
CommitFails ==
  /\ At("answered") /\ (setup.mode = "new-thread" \/ setup.handler) /\ Trouble
  /\ Goto(Fails)
  /\ UNCHANGED <<ledger, container, world, saved, history>>

(* The write throws: the row is claimed until its lease lapses, and a      *)
(* thread that could not be saved before is forgotten with the worker.     *)
SettleFails ==
  /\ \E step \in {"answered", "failed", "hopeless"} : At(step)
  /\ Trouble
  /\ unsaved' = IF threads > unsaved /\ saved.thread = 0 THEN threads ELSE unsaved
  /\ work' = NextOf(FALSE)
  /\ UNCHANGED <<ledger, container, setup, prompt, threads, saved, history>>

(* The callback reads the ledger itself; what it throws is logged. *)
Tell ==
  /\ At("tell")
  /\ \/ /\ told' = (told \/ jobs[Job].status \in Q!Terminal)
        /\ UNCHANGED <<excused, troubles>>
     \/ Trouble /\ excused' = TRUE /\ UNCHANGED told
  /\ work' = Idle
  /\ UNCHANGED <<ledger, container, world, saved, runs, answer>>

-----------------------------------------------------------------------------
EditPrompt ==
  /\ prompt < MaxPrompts
  /\ prompt' = prompt + 1
  /\ UNCHANGED <<ledger, container, setup, threads, unsaved, saved, work, history, troubles>>

Crash ==
  /\ host = "up" /\ crashes < MaxCrashes
  /\ host' = "down"
  /\ crashes' = crashes + 1
  /\ work' = Idle
  /\ unsaved' = IF saved.thread = 0 /\ jobs[Job].status \in Q!Claimed THEN threads ELSE unsaved
  /\ excused' = (excused \/ work.step = "tell")
  /\ UNCHANGED <<ledger, agents, stray, setup, prompt, threads, saved, runs, answer,
                 told, troubles>>

KillOrphans ==
  /\ host = "down"
  /\ host' = "cleaned"
  /\ agents' = {} /\ stray' = {}
  /\ UNCHANGED <<ledger, crashes, world, saved, work, history, troubles>>

OrphanExits ==
  /\ \E a \in (IF host = "up" THEN stray ELSE agents) :
       agents' = agents \ {a} /\ stray' = stray \ {a}
  /\ UNCHANGED <<ledger, host, crashes, world, saved, work, history, troubles>>

Start ==
  /\ host = "cleaned"
  /\ Q!InitializeQueue
  /\ host' = "up"
  /\ UNCHANGED <<agents, stray, crashes, world, saved, work, history, troubles>>

Time ==
  /\ Q!LeaseLapses(Job) \/ Q!BackoffElapses(Job)
  /\ UNCHANGED <<container, world, saved, work, history, troubles>>

Attempt ==
  \/ Begin \/ Capture \/ Freeze \/ CreateCronThread \/ SaveThread
  \/ StartRun \/ Ready \/ HandlerRuns \/ BootFails \/ Exit \/ Lose
  \/ Settle \/ CommitFails \/ SettleFails \/ Tell

Next ==
  \/ Receive \/ Poll \/ Renew \/ RenewFails \/ Attempt
  \/ EditPrompt \/ Crash \/ KillOrphans \/ OrphanExits \/ Start \/ Time

Spec == Init /\ [][Next]_vars

-----------------------------------------------------------------------------
(* Properties *)

Steps == {"idle", "begin", "capture", "freeze", "thread", "save", "start", "booting",
          "running", "answered", "failed", "hopeless", "tell"}

TypeOK ==
  /\ Q!TypeOK
  /\ host \in {"down", "cleaned", "up"}
  /\ agents \subseteq Jobs \X Nat /\ stray \subseteq agents
  /\ crashes \in 0 .. MaxCrashes
  /\ setup \in Setups /\ Setups \subseteq Kinds
  /\ saved \in [thread : Nat, prompt : Nat]
  /\ work \in [step : Steps, token : Nat, aborted : BOOLEAN,
               tell : {"never", "settled", "always"},
               end : {"none", "answered", "failed", "hopeless"}, thread : Nat, prompt : Nat]
  /\ prompt \in 1 .. MaxPrompts
  /\ threads \in Nat /\ unsaved \in 0 .. threads
  /\ runs \subseteq [session : Nat, prompt : Nat]
  /\ answer \in Nat \cup {Null}
  /\ told \in BOOLEAN /\ excused \in BOOLEAN
  /\ troubles \in 0 .. MaxTroubles

(* The attempts of a row are attempts of one thing: all agents run with    *)
(* the identity the first attempt froze, whatever was edited since, and in *)
(* the thread the row remembers, where the answer goes as well; a second   *)
(* thread is made only if the id of the first was lost with the process,   *)
(* or failing accesses to the ledger kept the row alive; that Discord's    *)
(* answer was lost is no reason (poller.ts:697-733, 904-973).              *)
AttemptsAgree ==
  /\ threads <= 1 + unsaved
  /\ \A a \in runs : a = [session |-> IF NeedsThread THEN saved.thread ELSE 0,
                          prompt |-> saved.prompt]
  /\ NeedsThread /\ runs # {} => saved.thread # 0
  /\ answer # Null => answer = saved.thread

(* A source whose row has ended is told so by the worker that ended it.    *)
(* Nobody tells it when claim buries the row, the row is of an unknown     *)
(* source or an old release, the callback throws, or the host crashes      *)
(* between the two (poller.ts:215-224, 517-571).                           *)
SourceTold ==
  setup.feature # "none" /\ jobs[Job].status \in Q!Terminal /\ work.step = "idle" =>
    told \/ excused

(* The steps before the container are one stage of Poller.  A worker that  *)
(* only tells the source is done, unless its row could not be settled.     *)
StageOf ==
  CASE work.step \in {"begin", "capture", "freeze", "thread", "save", "start"} -> "preparing"
    [] work.step = "tell" -> IF Q!Fenced(Job, work.token) THEN work.end ELSE "idle"
    [] OTHER -> work.step

P == INSTANCE Poller WITH
  Keys <- {}, ActiveOnlyKeys <- {}, MaxChunks <- 1,
  worker <- [j \in Jobs |->
    [stage |-> StageOf,
     token |-> IF StageOf = "idle" THEN 0 ELSE work.token,
     aborted |-> StageOf # "idle" /\ work.aborted]]

ImplementsPoller == P!Spec
=============================================================================
