------------------------------ MODULE BotCalls ------------------------------
(***************************************************************************)
(* Two orders that can wait for each other: the order of the rows in a     *)
(* session (queue/repository.ts) and the slots of the inference resource   *)
(* (InferenceLock).  A queued run waits for its session and then for a     *)
(* slot; a synchronous Bot call is made by a run that holds a slot, and    *)
(* waits for the session of the Bot task it continues                      *)
(* (agent/bot-orchestration.ts, queue/session-admission.ts).               *)
(***************************************************************************)
EXTENDS InferenceLock

CONSTANTS Sessions, Session   \* Session[x]: where a run or a call appends

VARIABLES line,   \* line[s]: the runs and calls of s in sequence order
          ticket  \* the calls whose admission ticket is still queued

all == <<vars, line, ticket>>

Stage(x) == IF x \in Runs THEN run[x] ELSE call[x]
Finished(x) == Stage(x) = "done"
InLine(x) == x \in ToSet(line[Session[x]])

(* Mutant: every row of the session may start. *)
MutantAnyoneInLine(x) == InLine(x)

(* Nothing unfinished precedes x in its session. *)
FirstInLine(x) ==
  LET l == line[Session[x]] IN
  \E i \in DOMAIN l : l[i] = x /\ \A k \in 1 .. i - 1 : Finished(l[k])

Join(x) == line' = [line EXCEPT ![Session[x]] = Append(@, x)]

BotInit == Init /\ line = [s \in Sessions |-> <<>>] /\ ticket = {}

Enqueue(r) ==
  /\ run[r] = "new" /\ ~InLine(r)
  /\ Join(r)
  /\ UNCHANGED <<vars, ticket>>

(* claim lets a run start in turn only; then it asks for its slot. *)
Start(r) ==
  /\ InLine(r) /\ FirstInLine(r)
  /\ Acquire(r)
  /\ UNCHANGED <<line, ticket>>

(* createBotTaskSessionAndAdmission, resumeBotTaskSessionAndAdmission *)
CallBot(c) ==
  /\ call[c] = "new" /\ run[Parent[c]] = "holding" /\ ~InLine(c)
  /\ Join(c)
  /\ ticket' = ticket \cup {c}
  /\ UNCHANGED vars

(* Mutant: a call of a running agent waits for its turn instead. *)
MutantWaitInLine(c) == c \in ticket /\ ~FirstInLine(c) /\ UNCHANGED all

(* failIfBlocked: a call of a run that holds the resource never waits for  *)
(* its turn in the session.                                                *)
Refuse(c) ==
  /\ c \in ticket /\ ~FirstInLine(c)
  /\ call' = [call EXCEPT ![c] = "done"]
  /\ ticket' = ticket \ {c}
  /\ UNCHANGED <<config, resource, run, queue, line>>

Admitted(c) ==
  /\ c \in ticket /\ FirstInLine(c)
  /\ Borrow(c)
  /\ ticket' = ticket \ {c}
  /\ UNCHANGED line

(* The parent is gone before its call got this far: nothing to borrow. *)
Orphaned(c) ==
  /\ c \in ticket /\ run[Parent[c]] = "done"
  /\ call' = [call EXCEPT ![c] = "done"]
  /\ ticket' = ticket \ {c}
  /\ UNCHANGED <<config, resource, run, queue, line>>

Attend(c) == Refuse(c) \/ Admitted(c) \/ Orphaned(c)

BotNext ==
  \/ \E r \in Runs :
       \/ Enqueue(r) \/ Start(r)
       \/ (AbortWaiter(r) \/ Close(r) \/ Release(r)) /\ UNCHANGED <<line, ticket>>
  \/ \E c \in Calls :
       \/ CallBot(c) \/ Attend(c)
       \/ (AbortBorrow(c) \/ ReturnSlot(c)) /\ UNCHANGED <<line, ticket>>

BotSpec == BotInit /\ [][BotNext]_all

(* A run ends by itself only when its calls are answered: nothing here is  *)
(* owed to the agent timeout that would break a deadlock.                  *)
EndsByItself(r) ==
  /\ \A c \in Calls : Parent[c] = r => c \notin ticket /\ call[c] \in {"new", "done"}
  /\ Close(r)
  /\ UNCHANGED <<line, ticket>>

BotFairness ==
  /\ \A r \in Runs :
       /\ WF_all(Start(r)) /\ WF_all(EndsByItself(r))
       /\ WF_all(Release(r) /\ UNCHANGED <<line, ticket>>)
  /\ \A c \in Calls :
       /\ WF_all(Attend(c))
       /\ WF_all(ReturnSlot(c) /\ UNCHANGED <<line, ticket>>)

BotLiveSpec == BotSpec /\ BotFairness

-----------------------------------------------------------------------------
BotTypeOK ==
  /\ TypeOK
  /\ Session \in [Runs \cup Calls -> Sessions]
  /\ line \in [Sessions -> Seq(Runs \cup Calls)]
  /\ ticket \subseteq Calls

(* docs/config.md:131: no cycle of waiting, and no lost wakeup.  Whatever  *)
(* runs and calls meet in a session or at the resource, each gets its turn *)
(* and its slot and ends, without anybody being timed out.                 *)
NoCircularWait ==
  \A x \in Runs \cup Calls : InLine(x) ~> Finished(x)

(* A session has one agent at work, run or call. *)
Executing(x) ==
  x \notin ticket /\ Stage(x) \in {"holding", "closing", "borrowing"}

OneExecutionPerSession ==
  \A x, y \in Runs \cup Calls :
    Executing(x) /\ Executing(y) /\ Session[x] = Session[y] => x = y

=============================================================================
