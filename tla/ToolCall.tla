------------------------------ MODULE ToolCall ------------------------------
(***************************************************************************)
(* The calls of one run to the tool proxy (proxy/tool-proxy-server.ts):    *)
(* admission under the run's token, the approval a Discord user gives by   *)
(* a click (proxy/tool-approval.ts, discord/tool-approval.ts), and the     *)
(* execution, on the host or in a container of its own                     *)
(* (runtime/tool-runtime-client.ts).                                       *)
(*                                                                         *)
(* The end of the run revokes its token, and the caller may hang up: both  *)
(* abort what the call waits for.  Discord's message and docker's          *)
(* container are state of their own; the host learns of them later.        *)
(***************************************************************************)
EXTENDS Naturals

CONSTANTS
  Calls,       \* requests of the run's agent
  MaxMishaps   \* bound: failing calls to Discord and docker

VARIABLES
  revoked,   \* the token is no longer in runs
  call,      \* call[c]: executeRequest, with connected for its socket
  approval,  \* approval[c]: the ApprovalRequest and its entry in pending
  message,   \* message[c]: what Discord shows, and the update on its way
  tool,      \* tool[c]: the container, its client and its staging directory
  mishaps

vars == <<revoked, call, approval, message, tool, mishaps>>

Decisions == {"approve", "deny"}

Init ==
  /\ revoked = FALSE
  /\ call = [c \in Calls |-> [stage |-> "idle", connected |-> TRUE,
                              asks |-> FALSE, executor |-> "none", reply |-> "none"]]
  /\ approval = [c \in Calls |-> [claimed |-> "none", settled |-> "no", pending |-> FALSE]]
  /\ message = [c \in Calls |-> [shows |-> "nothing", update |-> "none"]]
  /\ tool = [c \in Calls |-> [box |-> "none", client |-> "none", cancel |-> "no",
                              staging |-> "none"]]
  /\ mishaps = 0

Mishap == mishaps < MaxMishaps /\ mishaps' = mishaps + 1

(* requestSignal *)
Aborted(c) == revoked \/ ~call[c].connected

Move(c, stage) == call' = [call EXCEPT ![c].stage = stage]
Reply(c, reply) == call' = [call EXCEPT ![c] = [@ EXCEPT !.stage = "done", !.reply = reply]]

-----------------------------------------------------------------------------
(* The approval request *)

(* #settle: the first result stays, and its entry leaves pending. *)
Settle(a, result) ==
  IF a.settled # "no" THEN a ELSE [a EXCEPT !.settled = result, !.pending = FALSE]

(* Mutant: the request does not listen to the signal. *)
MutantCancelled(c) == approval[c]

(* #cancel, on the abort of the signal *)
Cancelled(c) ==
  IF call[c].stage \in {"presenting", "waiting"} THEN Settle(approval[c], "cancelled")
  ELSE approval[c]

(* cancel of runContainer *)
KillLoop(c) ==
  IF call[c].stage = "running" /\ tool[c].client = "open" /\ tool[c].cancel = "no"
  THEN [tool[c] EXCEPT !.cancel = "looping"] ELSE tool[c]

(* The listeners of the signal of the calls in S *)
Abort(S) ==
  /\ approval' = [c \in Calls |-> IF c \in S THEN Cancelled(c) ELSE approval[c]]
  /\ tool' = [c \in Calls |-> IF c \in S THEN KillLoop(c) ELSE tool[c]]

(* The end of the run, or stopToolProxyServer *)
Revoke ==
  /\ ~revoked /\ revoked' = TRUE
  /\ Abort(Calls)
  /\ UNCHANGED <<call, message, mishaps>>

Disconnect(c) ==
  /\ call[c].connected /\ call[c].stage \notin {"idle", "done"}
  /\ call' = [call EXCEPT ![c].connected = FALSE]
  /\ Abort({c})
  /\ UNCHANGED <<revoked, message, mishaps>>

-----------------------------------------------------------------------------
(* proxy/tool-proxy-server.ts *)

(* The token is looked up, and the body is read. *)
Receive(c) ==
  /\ call[c].stage = "idle"
  /\ IF revoked THEN Reply(c, "unknown-token") ELSE Move(c, "reading")
  /\ UNCHANGED <<revoked, approval, message, tool, mishaps>>

(* The body is there: the token once more, then the checks of the call.    *)
Admit(c) ==
  /\ call[c].stage = "reading"
  /\ IF revoked THEN Reply(c, "unknown-token") /\ UNCHANGED approval
     ELSE \/ Reply(c, "refused") /\ UNCHANGED approval
          \/ \E asks \in BOOLEAN, executor \in {"host", "runtime"} :
               /\ call' = [call EXCEPT ![c] = [@ EXCEPT
                             !.stage = IF asks THEN "presenting" ELSE "starting",
                             !.asks = asks, !.executor = executor]]
               /\ approval' = [approval EXCEPT ![c] =
                                 IF asks /\ Aborted(c) THEN Settle(@, "cancelled") ELSE @]
  /\ UNCHANGED <<revoked, message, tool, mishaps>>

(* presentToolApprovalRequest: sent, and known by the id of its buttons.   *)
Present(c) ==
  /\ call[c].stage = "presenting"
  /\ message' = [message EXCEPT ![c].shows = "question"]
  /\ approval' = IF approval[c].settled = "no" THEN [approval EXCEPT ![c].pending = TRUE]
                  ELSE approval
  /\ Move(c, "waiting")
  /\ UNCHANGED <<revoked, tool, mishaps>>

(* It fails, though Discord may show the message. *)
PresentFails(c) ==
  /\ call[c].stage = "presenting" /\ Mishap
  /\ \E shows \in {"nothing", "question"} : message' = [message EXCEPT ![c].shows = shows]
  /\ approval' = [approval EXCEPT ![c] = [Settle(@, "failed") EXCEPT !.claimed = "deny"]]
  /\ Reply(c, "approval-failed")
  /\ UNCHANGED <<revoked, tool>>

(* The decision is awaited, then runIsCurrent. *)
Decide(c) ==
  /\ call[c].stage = "waiting" /\ approval[c].settled # "no"
  /\ IF approval[c].settled # "approved" THEN Reply(c, "approval-failed")
     ELSE IF revoked THEN Reply(c, "unknown-token")
     ELSE Move(c, "starting")
  /\ UNCHANGED <<revoked, approval, message, tool, mishaps>>

(* Mutant: the call is executed whether somebody still waits or not. *)
MutantMayStart(c) == TRUE

(* throwIfAborted, before the tool is called and before docker is *)
MayStart(c) == ~Aborted(c)

(* The tool is called; a container is prepared with awaits. *)
Start(c) ==
  /\ call[c].stage = "starting"
  /\ IF ~MayStart(c) THEN Reply(c, "error")
     ELSE Move(c, IF call[c].executor = "host" THEN "running" ELSE "mounting")
  /\ UNCHANGED <<revoked, approval, message, tool, mishaps>>

(* A tool on the host ends, with a result or because of the signal. *)
HostToolEnds(c) ==
  /\ call[c].stage = "running" /\ call[c].executor = "host"
  /\ Reply(c, "result")
  /\ UNCHANGED <<revoked, approval, message, tool, mishaps>>

-----------------------------------------------------------------------------
(* discord/tool-approval.ts *)

(* claim *)
MayClaim(c) == approval[c].claimed = "none" /\ approval[c].settled = "no"

(* routeToolApprovalInteraction up to its await *)
Click(c, d) ==
  /\ message[c].shows = "question" /\ approval[c].pending /\ MayClaim(c)
  /\ approval' = [approval EXCEPT ![c].claimed = d]
  /\ message' = [message EXCEPT ![c].update = "sent"]
  /\ UNCHANGED <<revoked, call, tool, mishaps>>

(* Discord applies the update, in time or after the timeout. *)
UpdateApplied(c) ==
  /\ message[c].update \in {"sent", "late"}
  /\ message' = [message EXCEPT ![c] =
       [shows |-> approval[c].claimed,
        update |-> IF @.update = "sent" THEN "applied" ELSE "late-applied"]]
  /\ UNCHANGED <<revoked, call, approval, tool, mishaps>>

(* completeUiUpdate *)
UpdateConfirmed(c) ==
  /\ message[c].update = "applied"
  /\ message' = [message EXCEPT ![c].update = "over"]
  /\ approval' = [approval EXCEPT ![c] =
       Settle(@, IF @.claimed = "approve" THEN "approved" ELSE "denied")]
  /\ UNCHANGED <<revoked, call, tool, mishaps>>

(* failUiUpdate, when the call to Discord fails *)
UpdateFails(c) ==
  /\ message[c].update \in {"sent", "applied"} /\ Mishap
  /\ message' = [message EXCEPT ![c].update = "over"]
  /\ approval' = [approval EXCEPT ![c] = Settle(@, "failed")]
  /\ UNCHANGED <<revoked, call, tool>>

(* Mutant: no answer within the time counts as done. *)
MutantTimedOut(a) == Settle(a, IF a.claimed = "approve" THEN "approved" ELSE "denied")

(* failUiUpdate, when TOOL_APPROVAL_UPDATE_TIMEOUT_MS is over *)
TimedOut(a) == Settle(a, "failed")

UpdateTimesOut(c) ==
  /\ message[c].update \in {"sent", "applied"}
  /\ message' = [message EXCEPT ![c].update = IF @ = "sent" THEN "late" ELSE "late-applied"]
  /\ approval' = [approval EXCEPT ![c] = TimedOut(@)]
  /\ UNCHANGED <<revoked, call, tool, mishaps>>

(* correctLateSuccess *)
Correct(c) ==
  /\ message[c].update = "late-applied"
  /\ \/ /\ message' = [message EXCEPT ![c] = [shows |-> "failed", update |-> "over"]]
        /\ UNCHANGED mishaps
     \/ /\ Mishap /\ message' = [message EXCEPT ![c].update = "over"]
  /\ UNCHANGED <<revoked, call, approval, tool>>

-----------------------------------------------------------------------------
(* runtime/tool-runtime-client.ts: runContainer *)

(* docker run is started; a clone gets a staging directory. *)
Spawn(c) ==
  /\ call[c].stage = "mounting"
  /\ IF ~MayStart(c) THEN Reply(c, "error") /\ UNCHANGED tool
     ELSE /\ Move(c, "running")
          /\ tool' = [tool EXCEPT ![c] = [box |-> "creating", client |-> "open",
                                          cancel |-> "no", staging |-> "used"]]
  /\ UNCHANGED <<revoked, approval, message, mishaps>>

(* docker has created the container, or fails to. *)
BoxUp(c) ==
  /\ tool[c].box = "creating"
  /\ \/ tool' = [tool EXCEPT ![c].box = "up"] /\ UNCHANGED mishaps
     \/ Mishap /\ tool' = [tool EXCEPT ![c].box = "gone"]
  /\ UNCHANGED <<revoked, call, approval, message>>

BoxEnds(c) ==
  /\ tool[c].box = "up"
  /\ tool' = [tool EXCEPT ![c].box = "gone"]
  /\ UNCHANGED <<revoked, call, approval, message, mishaps>>

(* The time of the capability is over, or its output is too large. *)
GiveUp(c) ==
  /\ call[c].stage = "running" /\ KillLoop(c) # tool[c]
  /\ tool' = [tool EXCEPT ![c] = KillLoop(c)]
  /\ UNCHANGED <<revoked, call, approval, message, mishaps>>

(* Mutant: one docker kill, whether there is a container yet or not. *)
MutantKill(c) ==
  /\ tool[c].cancel = "looping" /\ tool[c].client = "open"
  /\ tool' = [tool EXCEPT ![c] = [@ EXCEPT !.box = IF @ = "up" THEN "gone" ELSE @,
                                           !.client = "closed"]]
  /\ UNCHANGED <<revoked, call, approval, message, mishaps>>

(* docker kill, again and again: it finds the container once it is up. *)
Kill(c) ==
  /\ tool[c].cancel = "looping" /\ tool[c].client = "open" /\ tool[c].box = "up"
  /\ tool' = [tool EXCEPT ![c].box = "gone"]
  /\ UNCHANGED <<revoked, call, approval, message, mishaps>>

(* Ten seconds of it did not help: the client is killed instead. *)
KillDeadline(c) ==
  /\ tool[c].cancel = "looping" /\ tool[c].client = "open" /\ Mishap
  /\ tool' = [tool EXCEPT ![c] = [@ EXCEPT !.cancel = "unconfirmed", !.client = "closed"]]
  /\ UNCHANGED <<revoked, call, approval, message>>

(* 'close': the client ends after its container. *)
Close(c) ==
  /\ tool[c].client = "open" /\ tool[c].box = "gone"
  /\ tool' = [tool EXCEPT ![c].client = "closed"]
  /\ UNCHANGED <<revoked, call, approval, message, mishaps>>

(* The client is gone and so is the loop: the staging directory goes, the  *)
(* caller hears the result or the reason.                                  *)
ContainerToolEnds(c) ==
  /\ call[c].stage = "running" /\ tool[c].client = "closed"
  /\ tool' = [tool EXCEPT ![c].staging = "removed"]
  /\ Reply(c, CASE tool[c].cancel = "no" -> "result"
                [] tool[c].cancel = "looping" -> "error"
                [] OTHER -> "unconfirmed")
  /\ UNCHANGED <<revoked, approval, message, mishaps>>

-----------------------------------------------------------------------------
Next ==
  \/ Revoke
  \/ \E c \in Calls :
       \/ Receive(c) \/ Disconnect(c) \/ Admit(c)
       \/ Present(c) \/ PresentFails(c) \/ Decide(c)
       \/ \E d \in Decisions : Click(c, d)
       \/ UpdateApplied(c) \/ UpdateConfirmed(c) \/ UpdateFails(c)
       \/ UpdateTimesOut(c) \/ Correct(c)
       \/ Start(c) \/ HostToolEnds(c) \/ Spawn(c) \/ BoxUp(c) \/ BoxEnds(c)
       \/ GiveUp(c) \/ Kill(c) \/ KillDeadline(c) \/ Close(c) \/ ContainerToolEnds(c)

Spec == Init /\ [][Next]_vars

(* What the event loop, Discord's client and docker bring about by         *)
(* themselves.  No user has to click, and no tool has to end.              *)
Fairness ==
  \A c \in Calls :
    /\ WF_vars(Admit(c)) /\ WF_vars(Present(c)) /\ WF_vars(Decide(c))
    /\ WF_vars(Start(c)) /\ WF_vars(Spawn(c)) /\ WF_vars(BoxUp(c))
    /\ WF_vars(HostToolEnds(c) /\ Aborted(c))
    /\ WF_vars(Kill(c)) /\ WF_vars(Close(c)) /\ WF_vars(ContainerToolEnds(c))

LiveSpec == Spec /\ Fairness

-----------------------------------------------------------------------------
(* The types of all variables. *)
TypeOK ==
  /\ revoked \in BOOLEAN /\ mishaps \in 0 .. MaxMishaps
  /\ call \in [Calls -> [
       stage : {"idle", "reading", "presenting", "waiting", "starting", "mounting",
                "running", "done"},
       connected : BOOLEAN, asks : BOOLEAN, executor : {"none", "host", "runtime"},
       reply : {"none", "unknown-token", "refused", "approval-failed", "error",
                "result", "unconfirmed"}]]
  /\ approval \in [Calls -> [
       claimed : {"none"} \cup Decisions, pending : BOOLEAN,
       settled : {"no", "approved", "denied", "failed", "cancelled"}]]
  /\ message \in [Calls -> [
       shows : {"nothing", "question", "failed"} \cup Decisions,
       update : {"none", "sent", "applied", "late", "late-applied", "over"}]]
  /\ tool \in [Calls -> [
       box : {"none", "creating", "up", "gone"}, client : {"none", "open", "closed"},
       cancel : {"no", "looping", "unconfirmed"}, staging : {"none", "used", "removed"}]]

Executes(c) == call[c].stage = "running"

(* A tool that needs an approval starts only while its run is current and  *)
(* its caller waits, after the first click was Approve and Discord showed  *)
(* it; a click that came second, an update that failed or timed out, or    *)
(* the end of the run in between never lets it through                     *)
(* (tool-proxy-server.ts:327-357, tool-approval.ts:101-142).               *)
StartsAsApproved ==
  [][\A c \in Calls :
       ~Executes(c) /\ Executes(c)' =>
         /\ ~revoked /\ call[c].connected
         /\ call[c].asks => /\ message[c].shows = "approve"
                            /\ approval[c].settled = "approved"]_vars

(* A message that says Denied or failed never stands over a call that was  *)
(* executed, whichever of update, timeout and correction came last         *)
(* (discord/tool-approval.ts:155-180).                                     *)
RefusalTruthful ==
  \A c \in Calls : message[c].shows \in {"deny", "failed"} =>
    ~Executes(c) /\ call[c].reply \notin {"result", "unconfirmed"}

(* A call that returned left no container behind, unless it says that it   *)
(* could not confirm that (tool-runtime-client.ts:193-216).                *)
NoOrphan ==
  \A c \in Calls : call[c].stage = "done" /\ call[c].reply # "unconfirmed" =>
    tool[c].box \in {"none", "gone"}

(* The end of a run ends its calls, those that wait for a click as well as *)
(* those at work (tool-proxy-server.ts:65-73, 302).                        *)
RevokeEndsCalls ==
  \A c \in Calls : revoked /\ call[c].stage # "idle" ~> call[c].stage = "done"
=============================================================================
