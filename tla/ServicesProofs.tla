--------------------------- MODULE ServicesProofs ---------------------------
(***************************************************************************)
(* Machine-checked safety of the parts of Services, for every number of    *)
(* tool calls, runs, Bot calls, providers and limits.  A step of the host  *)
(* is a step of one part or leaves that part alone, so an invariant of a   *)
(* part is an invariant of the host.                                       *)
(***************************************************************************)
EXTENDS Services, SequenceTheorems, FiniteSetTheorems, WellFoundedInduction, TLAPS

-----------------------------------------------------------------------------
(* The parts in the host *)

LEMMA ToolPart == Spec => ToolCalls!Spec
<1>1. Init => ToolCalls!Init
  BY DEF Init
<1>2. [Next]_vars => [ToolCalls!Next]_(ToolCalls!vars)
  BY DEF Next, vars, toolVars, ToolCalls!vars
<1> QED BY <1>1, <1>2, PTL DEF Spec, ToolCalls!Spec

LEMMA LinePart == Spec => Lines!BotSpec
<1>1. Init => Lines!BotInit
  BY DEF Init
<1>2. [Next]_vars => [Lines!BotNext]_(Lines!all)
  BY DEF Next, vars, lineVars, Lines!all, Lines!vars, Lines!resource
<1> QED BY <1>1, <1>2, PTL DEF Spec, Lines!BotSpec

LEMMA CronPart == Spec => Cron!Spec
<1>1. Init => Cron!Init
  BY DEF Init
<1>2. [Next]_vars => [Cron!Next]_(Cron!vars)
  BY DEF Next, vars, cronVars, Cron!vars
<1> QED BY <1>1, <1>2, PTL DEF Spec, Cron!Spec

-----------------------------------------------------------------------------
(* Tool calls *)

CallRow == [
  stage : {"idle", "reading", "presenting", "waiting", "starting", "mounting",
           "running", "done"},
  connected : BOOLEAN, asks : BOOLEAN, executor : {"none", "host", "runtime"},
  reply : {"none", "unknown-token", "refused", "approval-failed", "error",
           "result", "unconfirmed"}]
ApprovalRow == [
  claimed : {"none", "approve", "deny"}, pending : BOOLEAN,
  settled : {"no", "approved", "denied", "failed", "cancelled"}]
MessageRow == [
  shows : {"nothing", "question", "failed", "approve", "deny"},
  update : {"none", "sent", "applied", "late", "late-applied", "over"}]
ToolRow == [
  box : {"none", "creating", "up", "gone"}, client : {"none", "open", "closed"},
  cancel : {"no", "looping", "unconfirmed"}, staging : {"none", "used", "removed"}]

Ran(k) == k.stage = "running" \/ k.reply \in {"result", "unconfirmed"}

(* A call against its approval and its message.  An approval is asked for  *)
(* by the calls that need one; it is granted only by an update of the      *)
(* message that shows it and will not change again, and no call gets past  *)
(* its question without it.                                                *)
ApprovalSound(k, a, m) ==
  /\ k.stage \in {"idle", "reading"} => ~k.asks
  /\ k.stage \in {"presenting", "waiting"} => k.asks
  /\ k.stage \in {"idle", "reading", "presenting"} =>
       /\ m = [shows |-> "nothing", update |-> "none"]
       /\ ~a.pending /\ a.claimed = "none" /\ k.reply = "none"
  /\ k.stage # "done" => k.reply = "none"
  /\ m.shows # "nothing" \/ m.update # "none" \/ a.pending => k.asks
  /\ m.update # "none" => a.claimed # "none"
  /\ m.update = "applied" => m.shows = a.claimed
  /\ a.settled = "approved" => m.update = "over" /\ m.shows = "approve"
  /\ k.asks /\ (k.stage \in {"starting", "mounting"} \/ Ran(k)) => a.settled = "approved"

(* A call against its container.  A client that is gone has seen its       *)
(* container go, or gave up on it and will say so.                         *)
ToolSound(k, t) ==
  /\ k.stage \notin {"running", "done"} \/ (k.stage = "running" /\ k.executor # "runtime") =>
       t.box = "none" /\ t.client = "none" /\ t.cancel = "no"
  /\ k.stage \in {"presenting", "waiting", "starting"} => k.executor # "none"
  /\ k.stage = "mounting" => k.executor = "runtime"
  /\ t.client = "none" <=> t.box = "none"
  /\ t.client = "closed" => t.box = "gone" \/ t.cancel = "unconfirmed"
  /\ t.cancel = "unconfirmed" => t.client = "closed"
  /\ k.stage = "done" =>
       t.client # "open" /\ (t.cancel = "unconfirmed" => k.reply = "unconfirmed")

RowsSound(k, a, m, t) ==
  /\ k \in CallRow /\ a \in ApprovalRow /\ m \in MessageRow /\ t \in ToolRow
  /\ ApprovalSound(k, a, m) /\ ToolSound(k, t)

CallSound(c) == RowsSound(call[c], approval[c], message[c], tool[c])

ToolInv ==
  /\ DOMAIN call = ToolRequests /\ DOMAIN approval = ToolRequests
  /\ DOMAIN message = ToolRequests /\ DOMAIN tool = ToolRequests
  /\ revoked \in BOOLEAN
  /\ \A c \in ToolRequests : CallSound(c)

LEMMA ToolInvInit == ToolCalls!Init => ToolInv
<1> SUFFICES ASSUME ToolCalls!Init PROVE ToolInv
  OBVIOUS
<1> USE DEF ToolCalls!Init
<1>1. ASSUME NEW c \in ToolRequests PROVE CallSound(c)
  <2>1. /\ call[c] = [stage |-> "idle", connected |-> TRUE, asks |-> FALSE,
                      executor |-> "none", reply |-> "none"]
        /\ approval[c] = [claimed |-> "none", settled |-> "no", pending |-> FALSE]
        /\ message[c] = [shows |-> "nothing", update |-> "none"]
        /\ tool[c] = [box |-> "none", client |-> "none", cancel |-> "no", staging |-> "none"]
    OBVIOUS
  <2> QED BY <2>1 DEF CallSound, RowsSound, ApprovalSound, ToolSound, CallRow, ApprovalRow,
                      MessageRow, ToolRow, Ran
<1> QED BY <1>1 DEF ToolInv

(* The steps of one call leave the others alone. *)
OtherCalls(c) ==
  \A x \in ToolRequests \ {c} :
    /\ call'[x] = call[x] /\ approval'[x] = approval[x]
    /\ message'[x] = message[x] /\ tool'[x] = tool[x]

LEMMA OneCall ==
  ASSUME ToolInv, NEW c \in ToolRequests, OtherCalls(c), CallSound(c)', revoked' = revoked,
         DOMAIN call' = ToolRequests, DOMAIN approval' = ToolRequests,
         DOMAIN message' = ToolRequests, DOMAIN tool' = ToolRequests
  PROVE  ToolInv'
BY DEF ToolInv, OtherCalls, CallSound

(* The rows after a step of c. *)
Becomes(c, k, a, m, t) ==
  call'[c] = k /\ approval'[c] = a /\ message'[c] = m /\ tool'[c] = t

MovedTo(k, stage) == [k EXCEPT !.stage = stage]
Replied(k, reply) == [k EXCEPT !.stage = "done", !.reply = reply]

LEMMA Becoming ==
  ASSUME NEW c, NEW k, NEW a, NEW m, NEW t, Becomes(c, k, a, m, t), RowsSound(k, a, m, t)
  PROVE  CallSound(c)'
BY DEF Becomes, CallSound

LEMMA ReceiveSound ==
  ASSUME ToolInv, NEW c \in ToolRequests, ToolCalls!Receive(c)
  PROVE  ToolInv'
<1>1. OtherCalls(c) /\ CallSound(c)
  BY DEF OtherCalls, ToolInv, ToolCalls!Receive, ToolCalls!Move, ToolCalls!Reply
<1>2. \/ /\ Becomes(c, Replied(call[c], "unknown-token"), approval[c], message[c], tool[c])
         /\ call[c].stage = "idle"
      \/ /\ Becomes(c, MovedTo(call[c], "reading"), approval[c], message[c], tool[c])
         /\ call[c].stage = "idle"
  BY DEF Becomes, MovedTo, Replied, ToolInv, ToolCalls!Receive, ToolCalls!Move,
         ToolCalls!Reply
<1>3. ASSUME Becomes(c, Replied(call[c], "unknown-token"), approval[c], message[c], tool[c]),
             call[c].stage = "idle"
      PROVE  CallSound(c)'
  <2>1. RowsSound(Replied(call[c], "unknown-token"), approval[c], message[c], tool[c])
    BY <1>1, <1>3
    DEF CallSound, RowsSound, ApprovalSound, ToolSound, Ran, CallRow, ApprovalRow,
        MessageRow, ToolRow, Replied
  <2> QED BY <2>1, <1>3, Becoming
<1>4. ASSUME Becomes(c, MovedTo(call[c], "reading"), approval[c], message[c], tool[c]),
             call[c].stage = "idle"
      PROVE  CallSound(c)'
  <2>1. RowsSound(MovedTo(call[c], "reading"), approval[c], message[c], tool[c])
    BY <1>1, <1>4
    DEF CallSound, RowsSound, ApprovalSound, ToolSound, Ran, CallRow, ApprovalRow,
        MessageRow, ToolRow, MovedTo
  <2> QED BY <2>1, <1>4, Becoming
<1> QED BY <1>1, <1>2, <1>3, <1>4, OneCall
        DEF ToolInv, ToolCalls!Receive, ToolCalls!Move, ToolCalls!Reply

(* What an abort does to a call that it reaches. *)
LEMMA AbortRows ==
  ASSUME NEW c, CallSound(c)
  PROVE  RowsSound(call[c], ToolCalls!Cancelled(c), message[c], ToolCalls!KillLoop(c))
<1> USE DEF CallSound, RowsSound, ApprovalSound, ToolSound, Ran, CallRow, ApprovalRow,
            MessageRow, ToolRow
<1>1. CASE call[c].stage \in {"presenting", "waiting"} /\ approval[c].settled = "no"
  <2>1. ToolCalls!KillLoop(c) = tool[c]
    BY <1>1 DEF ToolCalls!KillLoop
  <2>2. ToolCalls!Cancelled(c) = [approval[c] EXCEPT !.settled = "cancelled", !.pending = FALSE]
    BY <1>1 DEF ToolCalls!Cancelled, ToolCalls!Settle
  <2>3. RowsSound(call[c], [approval[c] EXCEPT !.settled = "cancelled", !.pending = FALSE],
                  message[c], tool[c])
    BY <1>1
  <2> QED BY <2>1, <2>2, <2>3
<1>2. CASE /\ call[c].stage = "running"
           /\ tool[c].client = "open" /\ tool[c].cancel = "no"
  <2>1. ToolCalls!KillLoop(c) = [tool[c] EXCEPT !.cancel = "looping"]
    BY <1>2 DEF ToolCalls!KillLoop
  <2>2. ToolCalls!Cancelled(c) = approval[c]
    BY <1>2 DEF ToolCalls!Cancelled
  <2>3. RowsSound(call[c], approval[c], message[c], [tool[c] EXCEPT !.cancel = "looping"])
    BY <1>2
  <2> QED BY <2>1, <2>2, <2>3
<1>3. CASE /\ ~(call[c].stage \in {"presenting", "waiting"} /\ approval[c].settled = "no")
           /\ ~(call[c].stage = "running" /\ tool[c].client = "open"
                                         /\ tool[c].cancel = "no")
  <2>1. ToolCalls!KillLoop(c) = tool[c] /\ ToolCalls!Cancelled(c) = approval[c]
    BY <1>3 DEF ToolCalls!KillLoop, ToolCalls!Cancelled, ToolCalls!Settle
  <2> QED BY <2>1
<1> QED BY <1>1, <1>2, <1>3

(* Whether its caller is connected matters to MayStart alone. *)
LEMMA DisconnectedRow ==
  ASSUME NEW k, NEW a, NEW m, NEW t, RowsSound(k, a, m, t)
  PROVE  RowsSound([k EXCEPT !.connected = FALSE], a, m, t)
BY DEF RowsSound, ApprovalSound, ToolSound, Ran, CallRow

LEMMA DisconnectSound ==
  ASSUME ToolInv, NEW c \in ToolRequests, ToolCalls!Disconnect(c)
  PROVE  ToolInv'
<1>1. OtherCalls(c) /\ CallSound(c)
  BY DEF OtherCalls, ToolInv, ToolCalls!Disconnect, ToolCalls!Abort
<1>2. Becomes(c, [call[c] EXCEPT !.connected = FALSE], ToolCalls!Cancelled(c), message[c],
              ToolCalls!KillLoop(c))
  BY DEF Becomes, ToolInv, ToolCalls!Disconnect, ToolCalls!Abort
<1>3. CallSound(c)'
  BY <1>1, <1>2, AbortRows, DisconnectedRow, Becoming
<1> QED BY <1>1, <1>3, OneCall DEF ToolInv, ToolCalls!Disconnect, ToolCalls!Abort

LEMMA RevokeSound ==
  ASSUME ToolInv, ToolCalls!Revoke
  PROVE  ToolInv'
<1>1. ASSUME NEW c \in ToolRequests
      PROVE  CallSound(c)'
  <2>1. CallSound(c)
    BY DEF ToolInv
  <2>2. Becomes(c, call[c], ToolCalls!Cancelled(c), message[c], ToolCalls!KillLoop(c))
    BY DEF Becomes, ToolCalls!Revoke, ToolCalls!Abort
  <2> QED BY <2>1, <2>2, AbortRows, Becoming
<1> QED BY <1>1 DEF ToolInv, ToolCalls!Revoke, ToolCalls!Abort

LEMMA AdmitSound ==
  ASSUME ToolInv, NEW c \in ToolRequests, ToolCalls!Admit(c)
  PROVE  ToolInv'
<1>1. OtherCalls(c) /\ CallSound(c)
  BY DEF OtherCalls, ToolInv, ToolCalls!Admit, ToolCalls!Reply, ToolCalls!Settle
<1>2. \/ \E r \in {"unknown-token", "refused"} :
           /\ Becomes(c, Replied(call[c], r), approval[c], message[c], tool[c])
           /\ call[c].stage = "reading"
      \/ \E e \in {"host", "runtime"} :
           /\ Becomes(c, [call[c] EXCEPT !.stage = "starting", !.asks = FALSE, !.executor = e],
                         approval[c], message[c], tool[c])
           /\ call[c].stage = "reading"
      \/ \E e \in {"host", "runtime"},
            a \in {approval[c], ToolCalls!Settle(approval[c], "cancelled")} :
           /\ Becomes(c, [call[c] EXCEPT !.stage = "presenting", !.asks = TRUE, !.executor = e],
                         a, message[c], tool[c])
           /\ call[c].stage = "reading"
  <2>1. call[c].stage = "reading" /\ message'[c] = message[c] /\ tool'[c] = tool[c]
    BY DEF ToolCalls!Admit
  <2>2. CASE \E r \in {"unknown-token", "refused"} :
               ToolCalls!Reply(c, r) /\ UNCHANGED approval
    BY <2>1, <2>2 DEF Becomes, Replied, ToolInv, ToolCalls!Reply
  <2>3. ASSUME NEW e \in {"host", "runtime"}, NEW asks \in BOOLEAN,
               call' = [call EXCEPT ![c] = [@ EXCEPT
                          !.stage = IF asks THEN "presenting" ELSE "starting",
                          !.asks = asks, !.executor = e]],
               approval' = [approval EXCEPT ![c] =
                              IF asks /\ ToolCalls!Aborted(c)
                              THEN ToolCalls!Settle(@, "cancelled") ELSE @]
        PROVE  \/ Becomes(c, [call[c] EXCEPT !.stage = "starting", !.asks = FALSE,
                                              !.executor = e],
                          approval[c], message[c], tool[c])
               \/ \E a \in {approval[c], ToolCalls!Settle(approval[c], "cancelled")} :
                    Becomes(c, [call[c] EXCEPT !.stage = "presenting", !.asks = TRUE,
                                               !.executor = e],
                            a, message[c], tool[c])
    <3>1. approval'[c] \in {approval[c], ToolCalls!Settle(approval[c], "cancelled")}
      BY <2>3 DEF ToolInv
    <3>2. CASE asks
      BY <2>1, <2>3, <3>1, <3>2 DEF Becomes, ToolInv
    <3>3. CASE ~asks
      BY <2>1, <2>3, <3>3 DEF Becomes, ToolInv
    <3> QED BY <3>2, <3>3
  <2> QED BY <2>1, <2>2, <2>3 DEF ToolCalls!Admit
<1>3. ASSUME NEW r \in {"unknown-token", "refused"},
             Becomes(c, Replied(call[c], r), approval[c], message[c], tool[c]),
             call[c].stage = "reading"
      PROVE  CallSound(c)'
  <2>1. RowsSound(Replied(call[c], r), approval[c], message[c], tool[c])
    BY <1>1, <1>3
    DEF CallSound, RowsSound, ApprovalSound, ToolSound, Ran, CallRow, ApprovalRow,
        MessageRow, ToolRow, Replied
  <2> QED BY <2>1, <1>3, Becoming
<1>4. ASSUME NEW e \in {"host", "runtime"},
             Becomes(c, [call[c] EXCEPT !.stage = "starting", !.asks = FALSE, !.executor = e],
                        approval[c], message[c], tool[c]),
             call[c].stage = "reading"
      PROVE  CallSound(c)'
  <2>1. RowsSound([call[c] EXCEPT !.stage = "starting", !.asks = FALSE, !.executor = e],
                  approval[c], message[c], tool[c])
    BY <1>1, <1>4
    DEF CallSound, RowsSound, ApprovalSound, ToolSound, Ran, CallRow, ApprovalRow,
        MessageRow, ToolRow
  <2> QED BY <2>1, <1>4, Becoming
<1>5. ASSUME NEW e \in {"host", "runtime"},
             NEW a \in {approval[c], ToolCalls!Settle(approval[c], "cancelled")},
             Becomes(c, [call[c] EXCEPT !.stage = "presenting", !.asks = TRUE, !.executor = e],
                        a, message[c], tool[c]),
             call[c].stage = "reading"
      PROVE  CallSound(c)'
  <2>1. RowsSound([call[c] EXCEPT !.stage = "presenting", !.asks = TRUE, !.executor = e],
                  approval[c], message[c], tool[c])
    BY <1>1, <1>5
    DEF CallSound, RowsSound, ApprovalSound, ToolSound, Ran, CallRow, ApprovalRow,
        MessageRow, ToolRow
  <2>2. RowsSound([call[c] EXCEPT !.stage = "presenting", !.asks = TRUE, !.executor = e],
                  [approval[c] EXCEPT !.settled = "cancelled", !.pending = FALSE],
                  message[c], tool[c])
    BY <1>1, <1>5
    DEF CallSound, RowsSound, ApprovalSound, ToolSound, Ran, CallRow, ApprovalRow,
        MessageRow, ToolRow
  <2>3. a \in {approval[c], [approval[c] EXCEPT !.settled = "cancelled", !.pending = FALSE]}
    BY <1>5 DEF ToolCalls!Settle
  <2>4. RowsSound([call[c] EXCEPT !.stage = "presenting", !.asks = TRUE, !.executor = e], a,
                  message[c], tool[c])
    BY <2>1, <2>2, <2>3
  <2> QED BY <2>4, <1>5, Becoming
<1> QED BY <1>1, <1>2, <1>3, <1>4, <1>5, OneCall
        DEF ToolInv, ToolCalls!Admit, ToolCalls!Reply, ToolCalls!Settle

LEMMA PresentSound ==
  ASSUME ToolInv, NEW c \in ToolRequests, ToolCalls!Present(c)
  PROVE  ToolInv'
<1>1. OtherCalls(c) /\ CallSound(c)
  BY DEF OtherCalls, ToolInv, ToolCalls!Present, ToolCalls!Move
<1>2. /\ Becomes(c, MovedTo(call[c], "waiting"),
                    IF approval[c].settled = "no" THEN [approval[c] EXCEPT !.pending = TRUE]
                    ELSE approval[c],
                    [message[c] EXCEPT !.shows = "question"], tool[c])
      /\ call[c].stage = "presenting"
  BY DEF Becomes, MovedTo, ToolInv, ToolCalls!Present, ToolCalls!Move
<1>3. RowsSound(MovedTo(call[c], "waiting"),
                IF approval[c].settled = "no" THEN [approval[c] EXCEPT !.pending = TRUE]
                ELSE approval[c],
                [message[c] EXCEPT !.shows = "question"], tool[c])
  BY <1>1, <1>2
  DEF CallSound, RowsSound, ApprovalSound, ToolSound, Ran, CallRow, ApprovalRow, MessageRow,
      ToolRow, MovedTo
<1>4. CallSound(c)'
  BY <1>2, <1>3, Becoming
<1> QED BY <1>1, <1>4, OneCall
        DEF ToolInv, ToolCalls!Present, ToolCalls!Move

LEMMA PresentFailsSound ==
  ASSUME ToolInv, NEW c \in ToolRequests, ToolCalls!PresentFails(c)
  PROVE  ToolInv'
<1>1. OtherCalls(c) /\ CallSound(c)
  BY DEF OtherCalls, ToolInv, ToolCalls!PresentFails, ToolCalls!Reply, ToolCalls!Mishap,
         ToolCalls!Settle
<1>2. \E s \in {"nothing", "question"} :
        /\ Becomes(c, Replied(call[c], "approval-failed"),
                      [ToolCalls!Settle(approval[c], "failed") EXCEPT !.claimed = "deny"],
                      [message[c] EXCEPT !.shows = s], tool[c])
        /\ call[c].stage = "presenting"
  BY DEF Becomes, Replied, ToolInv, ToolCalls!PresentFails, ToolCalls!Reply,
         ToolCalls!Mishap
<1>3. ASSUME NEW s \in {"nothing", "question"},
             Becomes(c, Replied(call[c], "approval-failed"),
                        [ToolCalls!Settle(approval[c], "failed") EXCEPT !.claimed = "deny"],
                        [message[c] EXCEPT !.shows = s], tool[c]),
             call[c].stage = "presenting"
      PROVE  CallSound(c)'
  <2>1. RowsSound(Replied(call[c], "approval-failed"),
                  [ToolCalls!Settle(approval[c], "failed") EXCEPT !.claimed = "deny"],
                  [message[c] EXCEPT !.shows = s], tool[c])
    BY <1>1, <1>3
    DEF CallSound, RowsSound, ApprovalSound, ToolSound, Ran, CallRow, ApprovalRow,
        MessageRow, ToolRow, Replied, ToolCalls!Settle
  <2> QED BY <2>1, <1>3, Becoming
<1> QED BY <1>1, <1>2, <1>3, OneCall
        DEF ToolInv, ToolCalls!PresentFails, ToolCalls!Reply, ToolCalls!Mishap

LEMMA DecideSound ==
  ASSUME ToolInv, NEW c \in ToolRequests, ToolCalls!Decide(c)
  PROVE  ToolInv'
<1>1. OtherCalls(c) /\ CallSound(c)
  BY DEF OtherCalls, ToolInv, ToolCalls!Decide, ToolCalls!Move, ToolCalls!Reply
<1>2. \/ \E r \in {"approval-failed", "unknown-token"} :
           /\ Becomes(c, Replied(call[c], r), approval[c], message[c], tool[c])
           /\ call[c].stage = "waiting"
      \/ /\ Becomes(c, MovedTo(call[c], "starting"), approval[c], message[c], tool[c])
         /\ call[c].stage = "waiting" /\ approval[c].settled = "approved"
  BY DEF Becomes, MovedTo, Replied, ToolInv, ToolCalls!Decide, ToolCalls!Move,
         ToolCalls!Reply
<1>3. ASSUME NEW r \in {"approval-failed", "unknown-token"},
             Becomes(c, Replied(call[c], r), approval[c], message[c], tool[c]),
             call[c].stage = "waiting"
      PROVE  CallSound(c)'
  <2>1. RowsSound(Replied(call[c], r), approval[c], message[c], tool[c])
    BY <1>1, <1>3
    DEF CallSound, RowsSound, ApprovalSound, ToolSound, Ran, CallRow, ApprovalRow,
        MessageRow, ToolRow, Replied
  <2> QED BY <2>1, <1>3, Becoming
<1>4. ASSUME Becomes(c, MovedTo(call[c], "starting"), approval[c], message[c], tool[c]),
             call[c].stage = "waiting",
             approval[c].settled = "approved"
      PROVE  CallSound(c)'
  <2>1. RowsSound(MovedTo(call[c], "starting"), approval[c], message[c], tool[c])
    BY <1>1, <1>4
    DEF CallSound, RowsSound, ApprovalSound, ToolSound, Ran, CallRow, ApprovalRow,
        MessageRow, ToolRow, MovedTo
  <2> QED BY <2>1, <1>4, Becoming
<1> QED BY <1>1, <1>2, <1>3, <1>4, OneCall
        DEF ToolInv, ToolCalls!Decide, ToolCalls!Move, ToolCalls!Reply

LEMMA StartSound ==
  ASSUME ToolInv, NEW c \in ToolRequests, ToolCalls!Start(c)
  PROVE  ToolInv'
<1>1. OtherCalls(c) /\ CallSound(c)
  BY DEF OtherCalls, ToolInv, ToolCalls!Start, ToolCalls!Move, ToolCalls!Reply
<1>2. \/ /\ Becomes(c, Replied(call[c], "error"), approval[c], message[c], tool[c])
         /\ call[c].stage = "starting"
      \/ /\ Becomes(c, MovedTo(call[c], "running"), approval[c], message[c], tool[c])
         /\ call[c].stage = "starting" /\ call[c].executor = "host"
      \/ /\ Becomes(c, MovedTo(call[c], "mounting"), approval[c], message[c], tool[c])
         /\ call[c].stage = "starting" /\ call[c].executor # "host"
  BY DEF Becomes, MovedTo, Replied, ToolInv, ToolCalls!Start, ToolCalls!Move,
         ToolCalls!Reply
<1>3. ASSUME Becomes(c, Replied(call[c], "error"), approval[c], message[c], tool[c]),
             call[c].stage = "starting"
      PROVE  CallSound(c)'
  <2>1. RowsSound(Replied(call[c], "error"), approval[c], message[c], tool[c])
    BY <1>1, <1>3
    DEF CallSound, RowsSound, ApprovalSound, ToolSound, Ran, CallRow, ApprovalRow,
        MessageRow, ToolRow, Replied
  <2> QED BY <2>1, <1>3, Becoming
<1>4. ASSUME Becomes(c, MovedTo(call[c], "running"), approval[c], message[c], tool[c]),
             call[c].stage = "starting",
             call[c].executor = "host"
      PROVE  CallSound(c)'
  <2>1. RowsSound(MovedTo(call[c], "running"), approval[c], message[c], tool[c])
    BY <1>1, <1>4
    DEF CallSound, RowsSound, ApprovalSound, ToolSound, Ran, CallRow, ApprovalRow,
        MessageRow, ToolRow, MovedTo
  <2> QED BY <2>1, <1>4, Becoming
<1>5. ASSUME Becomes(c, MovedTo(call[c], "mounting"), approval[c], message[c], tool[c]),
             call[c].stage = "starting",
             call[c].executor # "host"
      PROVE  CallSound(c)'
  <2>1. RowsSound(MovedTo(call[c], "mounting"), approval[c], message[c], tool[c])
    BY <1>1, <1>5
    DEF CallSound, RowsSound, ApprovalSound, ToolSound, Ran, CallRow, ApprovalRow,
        MessageRow, ToolRow, MovedTo
  <2> QED BY <2>1, <1>5, Becoming
<1> QED BY <1>1, <1>2, <1>3, <1>4, <1>5, OneCall
        DEF ToolInv, ToolCalls!Start, ToolCalls!Move, ToolCalls!Reply

LEMMA HostToolEndsSound ==
  ASSUME ToolInv, NEW c \in ToolRequests, ToolCalls!HostToolEnds(c)
  PROVE  ToolInv'
<1>1. OtherCalls(c) /\ CallSound(c)
  BY DEF OtherCalls, ToolInv, ToolCalls!HostToolEnds, ToolCalls!Reply
<1>2. /\ Becomes(c, Replied(call[c], "result"), approval[c], message[c], tool[c])
      /\ call[c].stage = "running" /\ call[c].executor = "host"
  BY DEF Becomes, Replied, ToolInv, ToolCalls!HostToolEnds, ToolCalls!Reply
<1>3. RowsSound(Replied(call[c], "result"), approval[c], message[c], tool[c])
  BY <1>1, <1>2
  DEF CallSound, RowsSound, ApprovalSound, ToolSound, Ran, CallRow, ApprovalRow, MessageRow,
      ToolRow, Replied
<1>4. CallSound(c)'
  BY <1>2, <1>3, Becoming
<1> QED BY <1>1, <1>4, OneCall
        DEF ToolInv, ToolCalls!HostToolEnds, ToolCalls!Reply

LEMMA ClickSound ==
  ASSUME ToolInv, NEW c \in ToolRequests, NEW d \in ToolCalls!Decisions,
         ToolCalls!Click(c, d)
  PROVE  ToolInv'
<1>1. OtherCalls(c) /\ CallSound(c)
  BY DEF OtherCalls, ToolInv, ToolCalls!Click, ToolCalls!MayClaim, ToolCalls!Decisions
<1>2. \E e \in {"approve", "deny"} :
        /\ Becomes(c, call[c], [approval[c] EXCEPT !.claimed = e],
                      [message[c] EXCEPT !.update = "sent"], tool[c])
        /\ message[c].shows = "question" /\ approval[c].pending /\
           approval[c].claimed = "none" /\ approval[c].settled = "no"
  BY DEF Becomes, ToolInv, ToolCalls!Click, ToolCalls!MayClaim, ToolCalls!Decisions
<1>3. ASSUME NEW e \in {"approve", "deny"},
             Becomes(c, call[c], [approval[c] EXCEPT !.claimed = e],
                        [message[c] EXCEPT !.update = "sent"], tool[c]),
             message[c].shows = "question",
             approval[c].pending,
             approval[c].claimed = "none",
             approval[c].settled = "no"
      PROVE  CallSound(c)'
  <2>1. RowsSound(call[c], [approval[c] EXCEPT !.claimed = e],
                  [message[c] EXCEPT !.update = "sent"], tool[c])
    BY <1>1, <1>3
    DEF CallSound, RowsSound, ApprovalSound, ToolSound, Ran, CallRow, ApprovalRow,
        MessageRow, ToolRow
  <2> QED BY <2>1, <1>3, Becoming
<1> QED BY <1>1, <1>2, <1>3, OneCall
        DEF ToolInv, ToolCalls!Click, ToolCalls!MayClaim, ToolCalls!Decisions

LEMMA UpdateAppliedSound ==
  ASSUME ToolInv, NEW c \in ToolRequests, ToolCalls!UpdateApplied(c)
  PROVE  ToolInv'
<1>1. OtherCalls(c) /\ CallSound(c)
  BY DEF OtherCalls, ToolInv, ToolCalls!UpdateApplied
<1>2. \/ /\ Becomes(c, call[c], approval[c],
                       [shows |-> approval[c].claimed, update |-> "applied"], tool[c])
         /\ message[c].update = "sent"
      \/ /\ Becomes(c, call[c], approval[c],
                       [shows |-> approval[c].claimed, update |-> "late-applied"], tool[c])
         /\ message[c].update = "late"
  BY DEF Becomes, ToolInv, ToolCalls!UpdateApplied
<1>3. ASSUME Becomes(c, call[c], approval[c],
                        [shows |-> approval[c].claimed, update |-> "applied"], tool[c]),
             message[c].update = "sent"
      PROVE  CallSound(c)'
  <2>1. RowsSound(call[c], approval[c],
                  [shows |-> approval[c].claimed, update |-> "applied"], tool[c])
    BY <1>1, <1>3
    DEF CallSound, RowsSound, ApprovalSound, ToolSound, Ran, CallRow, ApprovalRow,
        MessageRow, ToolRow
  <2> QED BY <2>1, <1>3, Becoming
<1>4. ASSUME Becomes(c, call[c], approval[c],
                        [shows |-> approval[c].claimed, update |-> "late-applied"], tool[c]),
             message[c].update = "late"
      PROVE  CallSound(c)'
  <2>1. RowsSound(call[c], approval[c],
                  [shows |-> approval[c].claimed, update |-> "late-applied"], tool[c])
    BY <1>1, <1>4
    DEF CallSound, RowsSound, ApprovalSound, ToolSound, Ran, CallRow, ApprovalRow,
        MessageRow, ToolRow
  <2> QED BY <2>1, <1>4, Becoming
<1> QED BY <1>1, <1>2, <1>3, <1>4, OneCall
        DEF ToolInv, ToolCalls!UpdateApplied

LEMMA UpdateConfirmedSound ==
  ASSUME ToolInv, NEW c \in ToolRequests, ToolCalls!UpdateConfirmed(c)
  PROVE  ToolInv'
<1>1. OtherCalls(c) /\ CallSound(c)
  BY DEF OtherCalls, ToolInv, ToolCalls!UpdateConfirmed, ToolCalls!Settle
<1>2. \/ /\ Becomes(c, call[c], ToolCalls!Settle(approval[c], "approved"),
                       [message[c] EXCEPT !.update = "over"], tool[c])
         /\ message[c].update = "applied" /\ approval[c].claimed = "approve"
      \/ /\ Becomes(c, call[c], ToolCalls!Settle(approval[c], "denied"),
                       [message[c] EXCEPT !.update = "over"], tool[c])
         /\ message[c].update = "applied" /\ approval[c].claimed # "approve"
  BY DEF Becomes, ToolInv, ToolCalls!UpdateConfirmed
<1>3. ASSUME Becomes(c, call[c], ToolCalls!Settle(approval[c], "approved"),
                        [message[c] EXCEPT !.update = "over"], tool[c]),
             message[c].update = "applied",
             approval[c].claimed = "approve"
      PROVE  CallSound(c)'
  <2>1. RowsSound(call[c], ToolCalls!Settle(approval[c], "approved"),
                  [message[c] EXCEPT !.update = "over"], tool[c])
    BY <1>1, <1>3
    DEF CallSound, RowsSound, ApprovalSound, ToolSound, Ran, CallRow, ApprovalRow,
        MessageRow, ToolRow, ToolCalls!Settle
  <2> QED BY <2>1, <1>3, Becoming
<1>4. ASSUME Becomes(c, call[c], ToolCalls!Settle(approval[c], "denied"),
                        [message[c] EXCEPT !.update = "over"], tool[c]),
             message[c].update = "applied",
             approval[c].claimed # "approve"
      PROVE  CallSound(c)'
  <2>1. RowsSound(call[c], ToolCalls!Settle(approval[c], "denied"),
                  [message[c] EXCEPT !.update = "over"], tool[c])
    BY <1>1, <1>4
    DEF CallSound, RowsSound, ApprovalSound, ToolSound, Ran, CallRow, ApprovalRow,
        MessageRow, ToolRow, ToolCalls!Settle
  <2> QED BY <2>1, <1>4, Becoming
<1> QED BY <1>1, <1>2, <1>3, <1>4, OneCall
        DEF ToolInv, ToolCalls!UpdateConfirmed

LEMMA UpdateFailsSound ==
  ASSUME ToolInv, NEW c \in ToolRequests, ToolCalls!UpdateFails(c)
  PROVE  ToolInv'
<1>1. OtherCalls(c) /\ CallSound(c)
  BY DEF OtherCalls, ToolInv, ToolCalls!UpdateFails, ToolCalls!Settle, ToolCalls!Mishap
<1>2. /\ Becomes(c, call[c], ToolCalls!Settle(approval[c], "failed"),
                    [message[c] EXCEPT !.update = "over"], tool[c])
      /\ message[c].update \in {"sent", "applied"}
  BY DEF Becomes, ToolInv, ToolCalls!UpdateFails, ToolCalls!Mishap
<1>3. RowsSound(call[c], ToolCalls!Settle(approval[c], "failed"),
                [message[c] EXCEPT !.update = "over"], tool[c])
  BY <1>1, <1>2
  DEF CallSound, RowsSound, ApprovalSound, ToolSound, Ran, CallRow, ApprovalRow, MessageRow,
      ToolRow, ToolCalls!Settle
<1>4. CallSound(c)'
  BY <1>2, <1>3, Becoming
<1> QED BY <1>1, <1>4, OneCall
        DEF ToolInv, ToolCalls!UpdateFails, ToolCalls!Mishap

LEMMA UpdateTimesOutSound ==
  ASSUME ToolInv, NEW c \in ToolRequests, ToolCalls!UpdateTimesOut(c)
  PROVE  ToolInv'
<1>1. OtherCalls(c) /\ CallSound(c)
  BY DEF OtherCalls, ToolInv, ToolCalls!UpdateTimesOut, ToolCalls!TimedOut, ToolCalls!Settle
<1>2. \/ /\ Becomes(c, call[c], ToolCalls!Settle(approval[c], "failed"),
                       [message[c] EXCEPT !.update = "late"], tool[c])
         /\ message[c].update = "sent"
      \/ /\ Becomes(c, call[c], ToolCalls!Settle(approval[c], "failed"),
                       [message[c] EXCEPT !.update = "late-applied"], tool[c])
         /\ message[c].update = "applied"
  BY DEF Becomes, ToolInv, ToolCalls!UpdateTimesOut, ToolCalls!TimedOut
<1>3. ASSUME Becomes(c, call[c], ToolCalls!Settle(approval[c], "failed"),
                        [message[c] EXCEPT !.update = "late"], tool[c]),
             message[c].update = "sent"
      PROVE  CallSound(c)'
  <2>1. RowsSound(call[c], ToolCalls!Settle(approval[c], "failed"),
                  [message[c] EXCEPT !.update = "late"], tool[c])
    BY <1>1, <1>3
    DEF CallSound, RowsSound, ApprovalSound, ToolSound, Ran, CallRow, ApprovalRow,
        MessageRow, ToolRow, ToolCalls!Settle
  <2> QED BY <2>1, <1>3, Becoming
<1>4. ASSUME Becomes(c, call[c], ToolCalls!Settle(approval[c], "failed"),
                        [message[c] EXCEPT !.update = "late-applied"], tool[c]),
             message[c].update = "applied"
      PROVE  CallSound(c)'
  <2>1. RowsSound(call[c], ToolCalls!Settle(approval[c], "failed"),
                  [message[c] EXCEPT !.update = "late-applied"], tool[c])
    BY <1>1, <1>4
    DEF CallSound, RowsSound, ApprovalSound, ToolSound, Ran, CallRow, ApprovalRow,
        MessageRow, ToolRow, ToolCalls!Settle
  <2> QED BY <2>1, <1>4, Becoming
<1> QED BY <1>1, <1>2, <1>3, <1>4, OneCall
        DEF ToolInv, ToolCalls!UpdateTimesOut, ToolCalls!TimedOut

LEMMA CorrectSound ==
  ASSUME ToolInv, NEW c \in ToolRequests, ToolCalls!Correct(c)
  PROVE  ToolInv'
<1>1. OtherCalls(c) /\ CallSound(c)
  BY DEF OtherCalls, ToolInv, ToolCalls!Correct, ToolCalls!Mishap
<1>2. \/ /\ Becomes(c, call[c], approval[c], [shows |-> "failed", update |-> "over"],
                       tool[c])
         /\ message[c].update = "late-applied"
      \/ /\ Becomes(c, call[c], approval[c], [message[c] EXCEPT !.update = "over"], tool[c])
         /\ message[c].update = "late-applied"
  BY DEF Becomes, ToolInv, ToolCalls!Correct, ToolCalls!Mishap
<1>3. ASSUME Becomes(c, call[c], approval[c], [shows |-> "failed", update |-> "over"],
                        tool[c]),
             message[c].update = "late-applied"
      PROVE  CallSound(c)'
  <2>1. RowsSound(call[c], approval[c], [shows |-> "failed", update |-> "over"], tool[c])
    BY <1>1, <1>3
    DEF CallSound, RowsSound, ApprovalSound, ToolSound, Ran, CallRow, ApprovalRow,
        MessageRow, ToolRow
  <2> QED BY <2>1, <1>3, Becoming
<1>4. ASSUME Becomes(c, call[c], approval[c], [message[c] EXCEPT !.update = "over"],
                        tool[c]),
             message[c].update = "late-applied"
      PROVE  CallSound(c)'
  <2>1. RowsSound(call[c], approval[c], [message[c] EXCEPT !.update = "over"], tool[c])
    BY <1>1, <1>4
    DEF CallSound, RowsSound, ApprovalSound, ToolSound, Ran, CallRow, ApprovalRow,
        MessageRow, ToolRow
  <2> QED BY <2>1, <1>4, Becoming
<1> QED BY <1>1, <1>2, <1>3, <1>4, OneCall
        DEF ToolInv, ToolCalls!Correct, ToolCalls!Mishap

LEMMA SpawnSound ==
  ASSUME ToolInv, NEW c \in ToolRequests, ToolCalls!Spawn(c)
  PROVE  ToolInv'
<1>1. OtherCalls(c) /\ CallSound(c)
  BY DEF OtherCalls, ToolInv, ToolCalls!Spawn, ToolCalls!Move, ToolCalls!Reply,
         ToolCalls!MayStart
<1>2. \/ /\ Becomes(c, Replied(call[c], "error"), approval[c], message[c], tool[c])
         /\ call[c].stage = "mounting"
      \/ /\ Becomes(c, MovedTo(call[c], "running"), approval[c], message[c],
                       [box |-> "creating", client |-> "open", cancel |-> "no", staging |-> "used"])
         /\ call[c].stage = "mounting"
  BY DEF Becomes, MovedTo, Replied, ToolInv, ToolCalls!Spawn, ToolCalls!Move,
         ToolCalls!Reply, ToolCalls!MayStart
<1>3. ASSUME Becomes(c, Replied(call[c], "error"), approval[c], message[c], tool[c]),
             call[c].stage = "mounting"
      PROVE  CallSound(c)'
  <2>1. RowsSound(Replied(call[c], "error"), approval[c], message[c], tool[c])
    BY <1>1, <1>3
    DEF CallSound, RowsSound, ApprovalSound, ToolSound, Ran, CallRow, ApprovalRow,
        MessageRow, ToolRow, Replied
  <2> QED BY <2>1, <1>3, Becoming
<1>4. ASSUME Becomes(c, MovedTo(call[c], "running"), approval[c], message[c],
                        [box |-> "creating", client |-> "open", cancel |-> "no",
                         staging |-> "used"]),
             call[c].stage = "mounting"
      PROVE  CallSound(c)'
  <2>1. RowsSound(MovedTo(call[c], "running"), approval[c], message[c],
                  [box |-> "creating", client |-> "open", cancel |-> "no", staging |-> "used"])
    BY <1>1, <1>4
    DEF CallSound, RowsSound, ApprovalSound, ToolSound, Ran, CallRow, ApprovalRow,
        MessageRow, ToolRow, MovedTo
  <2> QED BY <2>1, <1>4, Becoming
<1> QED BY <1>1, <1>2, <1>3, <1>4, OneCall
        DEF ToolInv, ToolCalls!Spawn, ToolCalls!Move, ToolCalls!Reply, ToolCalls!MayStart

LEMMA BoxUpSound ==
  ASSUME ToolInv, NEW c \in ToolRequests, ToolCalls!BoxUp(c)
  PROVE  ToolInv'
<1>1. OtherCalls(c) /\ CallSound(c)
  BY DEF OtherCalls, ToolInv, ToolCalls!BoxUp, ToolCalls!Mishap
<1>2. \E b \in {"up", "gone"} :
        /\ Becomes(c, call[c], approval[c], message[c], [tool[c] EXCEPT !.box = b])
        /\ tool[c].box = "creating"
  BY DEF Becomes, ToolInv, ToolCalls!BoxUp, ToolCalls!Mishap
<1>3. ASSUME NEW b \in {"up", "gone"},
             Becomes(c, call[c], approval[c], message[c], [tool[c] EXCEPT !.box = b]),
             tool[c].box = "creating"
      PROVE  CallSound(c)'
  <2>1. RowsSound(call[c], approval[c], message[c], [tool[c] EXCEPT !.box = b])
    BY <1>1, <1>3
    DEF CallSound, RowsSound, ApprovalSound, ToolSound, Ran, CallRow, ApprovalRow,
        MessageRow, ToolRow
  <2> QED BY <2>1, <1>3, Becoming
<1> QED BY <1>1, <1>2, <1>3, OneCall
        DEF ToolInv, ToolCalls!BoxUp, ToolCalls!Mishap

LEMMA BoxEndsSound ==
  ASSUME ToolInv, NEW c \in ToolRequests, ToolCalls!BoxEnds(c)
  PROVE  ToolInv'
<1>1. OtherCalls(c) /\ CallSound(c)
  BY DEF OtherCalls, ToolInv, ToolCalls!BoxEnds
<1>2. /\ Becomes(c, call[c], approval[c], message[c], [tool[c] EXCEPT !.box = "gone"])
      /\ tool[c].box = "up"
  BY DEF Becomes, ToolInv, ToolCalls!BoxEnds
<1>3. RowsSound(call[c], approval[c], message[c], [tool[c] EXCEPT !.box = "gone"])
  BY <1>1, <1>2
  DEF CallSound, RowsSound, ApprovalSound, ToolSound, Ran, CallRow, ApprovalRow, MessageRow,
      ToolRow
<1>4. CallSound(c)'
  BY <1>2, <1>3, Becoming
<1> QED BY <1>1, <1>4, OneCall
        DEF ToolInv, ToolCalls!BoxEnds

LEMMA GiveUpSound ==
  ASSUME ToolInv, NEW c \in ToolRequests, ToolCalls!GiveUp(c)
  PROVE  ToolInv'
<1>1. OtherCalls(c) /\ CallSound(c)
  BY DEF OtherCalls, ToolInv, ToolCalls!GiveUp, ToolCalls!KillLoop
<1>2. /\ Becomes(c, call[c], approval[c], message[c], ToolCalls!KillLoop(c))
      /\ call[c].stage = "running"
  BY DEF Becomes, ToolInv, ToolCalls!GiveUp
<1>3. RowsSound(call[c], approval[c], message[c], ToolCalls!KillLoop(c))
  BY <1>1, <1>2
  DEF CallSound, RowsSound, ApprovalSound, ToolSound, Ran, CallRow, ApprovalRow, MessageRow,
      ToolRow, ToolCalls!KillLoop
<1>4. CallSound(c)'
  BY <1>2, <1>3, Becoming
<1> QED BY <1>1, <1>4, OneCall
        DEF ToolInv, ToolCalls!GiveUp

LEMMA KillSound ==
  ASSUME ToolInv, NEW c \in ToolRequests, ToolCalls!Kill(c)
  PROVE  ToolInv'
<1>1. OtherCalls(c) /\ CallSound(c)
  BY DEF OtherCalls, ToolInv, ToolCalls!Kill
<1>2. /\ Becomes(c, call[c], approval[c], message[c], [tool[c] EXCEPT !.box = "gone"])
      /\ tool[c].client = "open" /\ tool[c].box = "up"
  BY DEF Becomes, ToolInv, ToolCalls!Kill
<1>3. RowsSound(call[c], approval[c], message[c], [tool[c] EXCEPT !.box = "gone"])
  BY <1>1, <1>2
  DEF CallSound, RowsSound, ApprovalSound, ToolSound, Ran, CallRow, ApprovalRow, MessageRow,
      ToolRow
<1>4. CallSound(c)'
  BY <1>2, <1>3, Becoming
<1> QED BY <1>1, <1>4, OneCall
        DEF ToolInv, ToolCalls!Kill

LEMMA KillDeadlineSound ==
  ASSUME ToolInv, NEW c \in ToolRequests, ToolCalls!KillDeadline(c)
  PROVE  ToolInv'
<1>1. OtherCalls(c) /\ CallSound(c)
  BY DEF OtherCalls, ToolInv, ToolCalls!KillDeadline, ToolCalls!Mishap
<1>2. /\ Becomes(c, call[c], approval[c], message[c],
                    [tool[c] EXCEPT !.cancel = "unconfirmed", !.client = "closed"])
      /\ tool[c].client = "open"
  BY DEF Becomes, ToolInv, ToolCalls!KillDeadline, ToolCalls!Mishap
<1>3. RowsSound(call[c], approval[c], message[c],
                [tool[c] EXCEPT !.cancel = "unconfirmed", !.client = "closed"])
  BY <1>1, <1>2
  DEF CallSound, RowsSound, ApprovalSound, ToolSound, Ran, CallRow, ApprovalRow, MessageRow,
      ToolRow
<1>4. CallSound(c)'
  BY <1>2, <1>3, Becoming
<1> QED BY <1>1, <1>4, OneCall
        DEF ToolInv, ToolCalls!KillDeadline, ToolCalls!Mishap

LEMMA CloseSound ==
  ASSUME ToolInv, NEW c \in ToolRequests, ToolCalls!Close(c)
  PROVE  ToolInv'
<1>1. OtherCalls(c) /\ CallSound(c)
  BY DEF OtherCalls, ToolInv, ToolCalls!Close
<1>2. /\ Becomes(c, call[c], approval[c], message[c], [tool[c] EXCEPT !.client = "closed"])
      /\ tool[c].client = "open" /\ tool[c].box = "gone"
  BY DEF Becomes, ToolInv, ToolCalls!Close
<1>3. RowsSound(call[c], approval[c], message[c], [tool[c] EXCEPT !.client = "closed"])
  BY <1>1, <1>2
  DEF CallSound, RowsSound, ApprovalSound, ToolSound, Ran, CallRow, ApprovalRow, MessageRow,
      ToolRow
<1>4. CallSound(c)'
  BY <1>2, <1>3, Becoming
<1> QED BY <1>1, <1>4, OneCall
        DEF ToolInv, ToolCalls!Close

LEMMA ContainerEndsSound ==
  ASSUME ToolInv, NEW c \in ToolRequests, ToolCalls!ContainerToolEnds(c)
  PROVE  ToolInv'
<1>1. OtherCalls(c) /\ CallSound(c)
  BY DEF OtherCalls, ToolInv, ToolCalls!ContainerToolEnds, ToolCalls!Reply
<1>2. \/ /\ Becomes(c, Replied(call[c], "result"), approval[c], message[c],
                       [tool[c] EXCEPT !.staging = "removed"])
         /\ call[c].stage = "running" /\ tool[c].client = "closed" /\ tool[c].cancel = "no"
      \/ /\ Becomes(c, Replied(call[c], "error"), approval[c], message[c],
                       [tool[c] EXCEPT !.staging = "removed"])
         /\ call[c].stage = "running" /\ tool[c].client = "closed"
         /\ tool[c].cancel = "looping"
      \/ /\ Becomes(c, Replied(call[c], "unconfirmed"), approval[c], message[c],
                       [tool[c] EXCEPT !.staging = "removed"])
         /\ call[c].stage = "running" /\ tool[c].client = "closed"
         /\ tool[c].cancel = "unconfirmed"
  <2>1. tool[c].cancel \in {"no", "looping", "unconfirmed"}
    BY <1>1 DEF CallSound, RowsSound, ToolRow
  <2>2. CASE tool[c].cancel = "no"
    BY <2>2 DEF Becomes, Replied, ToolInv, ToolCalls!ContainerToolEnds, ToolCalls!Reply
  <2>3. CASE tool[c].cancel = "looping"
    BY <2>3 DEF Becomes, Replied, ToolInv, ToolCalls!ContainerToolEnds, ToolCalls!Reply
  <2>4. CASE tool[c].cancel = "unconfirmed"
    BY <2>4 DEF Becomes, Replied, ToolInv, ToolCalls!ContainerToolEnds, ToolCalls!Reply
  <2> QED BY <2>1, <2>2, <2>3, <2>4
<1>3. ASSUME Becomes(c, Replied(call[c], "result"), approval[c], message[c],
                        [tool[c] EXCEPT !.staging = "removed"]),
             call[c].stage = "running",
             tool[c].client = "closed",
             tool[c].cancel = "no"
      PROVE  CallSound(c)'
  <2>1. RowsSound(Replied(call[c], "result"), approval[c], message[c],
                  [tool[c] EXCEPT !.staging = "removed"])
    BY <1>1, <1>3
    DEF CallSound, RowsSound, ApprovalSound, ToolSound, Ran, CallRow, ApprovalRow,
        MessageRow, ToolRow, Replied
  <2> QED BY <2>1, <1>3, Becoming
<1>4. ASSUME Becomes(c, Replied(call[c], "error"), approval[c], message[c],
                        [tool[c] EXCEPT !.staging = "removed"]),
             call[c].stage = "running",
             tool[c].client = "closed",
             tool[c].cancel = "looping"
      PROVE  CallSound(c)'
  <2>1. RowsSound(Replied(call[c], "error"), approval[c], message[c],
                  [tool[c] EXCEPT !.staging = "removed"])
    BY <1>1, <1>4
    DEF CallSound, RowsSound, ApprovalSound, ToolSound, Ran, CallRow, ApprovalRow,
        MessageRow, ToolRow, Replied
  <2> QED BY <2>1, <1>4, Becoming
<1>5. ASSUME Becomes(c, Replied(call[c], "unconfirmed"), approval[c], message[c],
                        [tool[c] EXCEPT !.staging = "removed"]),
             call[c].stage = "running",
             tool[c].client = "closed",
             tool[c].cancel = "unconfirmed"
      PROVE  CallSound(c)'
  <2>1. RowsSound(Replied(call[c], "unconfirmed"), approval[c], message[c],
                  [tool[c] EXCEPT !.staging = "removed"])
    BY <1>1, <1>5
    DEF CallSound, RowsSound, ApprovalSound, ToolSound, Ran, CallRow, ApprovalRow,
        MessageRow, ToolRow, Replied
  <2> QED BY <2>1, <1>5, Becoming
<1> QED BY <1>1, <1>2, <1>3, <1>4, <1>5, OneCall
        DEF ToolInv, ToolCalls!ContainerToolEnds, ToolCalls!Reply

LEMMA ToolStep ==
  ASSUME ToolInv, [ToolCalls!Next]_(ToolCalls!vars)
  PROVE  ToolInv'
<1>1. CASE UNCHANGED ToolCalls!vars
  BY <1>1
  DEF ToolCalls!vars, ToolInv, CallSound
<1>2. CASE ToolCalls!Revoke
  BY <1>2, RevokeSound
<1>3. ASSUME NEW c \in ToolRequests, NEW d \in ToolCalls!Decisions, ToolCalls!Click(c, d)
      PROVE  ToolInv'
  BY <1>3, ClickSound
<1>4. ASSUME NEW c \in ToolRequests, ToolCalls!Receive(c)
      PROVE  ToolInv'
  BY <1>4, ReceiveSound
<1>5. ASSUME NEW c \in ToolRequests, ToolCalls!Disconnect(c)
      PROVE  ToolInv'
  BY <1>5, DisconnectSound
<1>6. ASSUME NEW c \in ToolRequests, ToolCalls!Admit(c)
      PROVE  ToolInv'
  BY <1>6, AdmitSound
<1>7. ASSUME NEW c \in ToolRequests, ToolCalls!Present(c)
      PROVE  ToolInv'
  BY <1>7, PresentSound
<1>8. ASSUME NEW c \in ToolRequests, ToolCalls!PresentFails(c)
      PROVE  ToolInv'
  BY <1>8, PresentFailsSound
<1>9. ASSUME NEW c \in ToolRequests, ToolCalls!Decide(c)
      PROVE  ToolInv'
  BY <1>9, DecideSound
<1>10. ASSUME NEW c \in ToolRequests, ToolCalls!UpdateApplied(c)
      PROVE  ToolInv'
  BY <1>10, UpdateAppliedSound
<1>11. ASSUME NEW c \in ToolRequests, ToolCalls!UpdateConfirmed(c)
      PROVE  ToolInv'
  BY <1>11, UpdateConfirmedSound
<1>12. ASSUME NEW c \in ToolRequests, ToolCalls!UpdateFails(c)
      PROVE  ToolInv'
  BY <1>12, UpdateFailsSound
<1>13. ASSUME NEW c \in ToolRequests, ToolCalls!UpdateTimesOut(c)
      PROVE  ToolInv'
  BY <1>13, UpdateTimesOutSound
<1>14. ASSUME NEW c \in ToolRequests, ToolCalls!Correct(c)
      PROVE  ToolInv'
  BY <1>14, CorrectSound
<1>15. ASSUME NEW c \in ToolRequests, ToolCalls!Start(c)
      PROVE  ToolInv'
  BY <1>15, StartSound
<1>16. ASSUME NEW c \in ToolRequests, ToolCalls!HostToolEnds(c)
      PROVE  ToolInv'
  BY <1>16, HostToolEndsSound
<1>17. ASSUME NEW c \in ToolRequests, ToolCalls!Spawn(c)
      PROVE  ToolInv'
  BY <1>17, SpawnSound
<1>18. ASSUME NEW c \in ToolRequests, ToolCalls!BoxUp(c)
      PROVE  ToolInv'
  BY <1>18, BoxUpSound
<1>19. ASSUME NEW c \in ToolRequests, ToolCalls!BoxEnds(c)
      PROVE  ToolInv'
  BY <1>19, BoxEndsSound
<1>20. ASSUME NEW c \in ToolRequests, ToolCalls!GiveUp(c)
      PROVE  ToolInv'
  BY <1>20, GiveUpSound
<1>21. ASSUME NEW c \in ToolRequests, ToolCalls!Kill(c)
      PROVE  ToolInv'
  BY <1>21, KillSound
<1>22. ASSUME NEW c \in ToolRequests, ToolCalls!KillDeadline(c)
      PROVE  ToolInv'
  BY <1>22, KillDeadlineSound
<1>23. ASSUME NEW c \in ToolRequests, ToolCalls!Close(c)
      PROVE  ToolInv'
  BY <1>23, CloseSound
<1>24. ASSUME NEW c \in ToolRequests, ToolCalls!ContainerToolEnds(c)
      PROVE  ToolInv'
  BY <1>24, ContainerEndsSound
<1> QED BY <1>1, <1>2, <1>3, <1>4, <1>5, <1>6, <1>7, <1>8, <1>9, <1>10, <1>11, <1>12,
           <1>13, <1>14, <1>15, <1>16, <1>17, <1>18, <1>19, <1>20, <1>21, <1>22, <1>23, <1>24
        DEF ToolCalls!Next

LEMMA ToolInvariant == Spec => []ToolInv
BY ToolPart, ToolInvInit, ToolStep, PTL DEF ToolCalls!Spec

(* A message that says Denied or failed never stands over a call that was  *)
(* executed, for any number of calls and failures: a call gets past its    *)
(* question only when its approval is granted, and from then on its        *)
(* message says Approved (discord/tool-approval.ts:155-180).               *)
THEOREM RefusalsAreTruthful == Spec => []RefusalTruthful
<1>1. ToolInv => RefusalTruthful
  <2> SUFFICES ASSUME ToolInv, NEW c \in ToolRequests, message[c].shows \in {"deny", "failed"}
               PROVE  ~Ran(call[c])
    BY DEF RefusalTruthful, ToolCalls!RefusalTruthful, ToolCalls!Executes, Ran
  <2>1. ApprovalSound(call[c], approval[c], message[c])
    BY DEF ToolInv, CallSound, RowsSound
  <2>2. call[c].asks
    BY <2>1 DEF ApprovalSound
  <2>3. SUFFICES ASSUME Ran(call[c]) PROVE FALSE
    OBVIOUS
  <2>4. approval[c].settled = "approved"
    BY <2>1, <2>2, <2>3 DEF ApprovalSound
  <2> QED BY <2>1, <2>4 DEF ApprovalSound
<1> QED BY <1>1, ToolInvariant, PTL

(* A call that returned left no container behind, or says that it could    *)
(* not confirm it: the client of docker ends before its container only     *)
(* when the kill loop gives up (tool-runtime-client.ts:193-216).           *)
THEOREM NoContainerIsOrphaned == Spec => []NoOrphan
<1>1. ToolInv => NoOrphan
  <2> SUFFICES ASSUME ToolInv, NEW c \in ToolRequests, call[c].stage = "done",
                      call[c].reply # "unconfirmed"
               PROVE  tool[c].box \in {"none", "gone"}
    BY DEF NoOrphan, ToolCalls!NoOrphan
  <2>1. ToolSound(call[c], tool[c]) /\ tool[c] \in ToolRow
    BY DEF ToolInv, CallSound, RowsSound
  <2> QED BY <2>1 DEF ToolSound, ToolRow
<1> QED BY <1>1, ToolInvariant, PTL

(* Which step lets a call execute *)
StartsApproved ==
  \A c \in ToolRequests :
    ~ToolCalls!Executes(c) /\ ToolCalls!Executes(c)' =>
      /\ ~revoked /\ call[c].connected
      /\ call[c].asks => /\ message[c].shows = "approve"
                         /\ approval[c].settled = "approved"

LEMMA Starting ==
  ASSUME ToolInv, ToolCalls!Next, NEW c \in ToolRequests,
         call[c].stage # "running", call'[c].stage = "running"
  PROVE  ToolCalls!Start(c) \/ ToolCalls!Spawn(c)
<1>1. CASE UNCHANGED call
  BY <1>1
<1>2. ASSUME NEW x \in ToolRequests, NEW reply, ToolCalls!Reply(x, reply)
      PROVE  FALSE
  BY <1>2 DEF ToolCalls!Reply, ToolInv
<1>3. ASSUME NEW x \in ToolRequests, NEW stage, ToolCalls!Move(x, stage)
      PROVE  x = c /\ stage = "running"
  BY <1>3 DEF ToolCalls!Move, ToolInv, CallSound, RowsSound, CallRow
<1>4. ASSUME NEW x \in ToolRequests, ToolCalls!Disconnect(x)
      PROVE  FALSE
  BY <1>4 DEF ToolCalls!Disconnect, ToolInv
<1>5. ASSUME NEW x \in ToolRequests, ToolCalls!Admit(x)
      PROVE  FALSE
  <2>1. PICK asks \in BOOLEAN, executor \in {"host", "runtime"} :
          call' = [call EXCEPT ![x] = [@ EXCEPT
                     !.stage = IF asks THEN "presenting" ELSE "starting",
                     !.asks = asks, !.executor = executor]]
    BY <1>2, <1>5 DEF ToolCalls!Admit
  <2> QED BY <2>1 DEF ToolInv, CallSound, RowsSound, CallRow
<1>6. ASSUME NEW x \in ToolRequests,
             ToolCalls!Receive(x) \/ ToolCalls!Present(x) \/ ToolCalls!PresentFails(x)
               \/ ToolCalls!Decide(x) \/ ToolCalls!HostToolEnds(x)
               \/ ToolCalls!ContainerToolEnds(x)
      PROVE  FALSE
  BY <1>2, <1>3, <1>6
  DEF ToolCalls!Receive, ToolCalls!Present, ToolCalls!PresentFails, ToolCalls!Decide,
      ToolCalls!HostToolEnds, ToolCalls!ContainerToolEnds
<1>7. ASSUME NEW x \in ToolRequests, ToolCalls!Start(x) \/ ToolCalls!Spawn(x)
      PROVE  x = c
  BY <1>2, <1>3, <1>7 DEF ToolCalls!Start, ToolCalls!Spawn
<1>8. ASSUME NEW x \in ToolRequests, NEW d \in ToolCalls!Decisions, ToolCalls!Click(x, d)
      PROVE  FALSE
  BY <1>1, <1>8 DEF ToolCalls!Click
<1>9. ASSUME NEW x \in ToolRequests,
             \/ ToolCalls!UpdateApplied(x) \/ ToolCalls!UpdateConfirmed(x)
             \/ ToolCalls!UpdateFails(x) \/ ToolCalls!UpdateTimesOut(x)
             \/ ToolCalls!Correct(x) \/ ToolCalls!BoxUp(x) \/ ToolCalls!BoxEnds(x)
             \/ ToolCalls!GiveUp(x) \/ ToolCalls!Kill(x) \/ ToolCalls!KillDeadline(x)
             \/ ToolCalls!Close(x)
      PROVE  FALSE
  BY <1>1, <1>9
  DEF ToolCalls!UpdateApplied, ToolCalls!UpdateConfirmed, ToolCalls!UpdateFails,
      ToolCalls!UpdateTimesOut, ToolCalls!Correct, ToolCalls!BoxUp, ToolCalls!BoxEnds,
      ToolCalls!GiveUp, ToolCalls!Kill, ToolCalls!KillDeadline, ToolCalls!Close
<1>10. ~ToolCalls!Revoke
  BY <1>1 DEF ToolCalls!Revoke
<1> QED BY <1>4, <1>5, <1>6, <1>7, <1>8, <1>9, <1>10 DEF ToolCalls!Next

(* A tool that needs an approval starts only while its run is current and  *)
(* its caller waits, after a click on Approve that Discord shows           *)
(* (tool-proxy-server.ts:327-357, tool-approval.ts:101-142).               *)
THEOREM ToolsStartAsApproved == Spec => StartsAsApproved
<1>1. ToolInv /\ [ToolCalls!Next]_(ToolCalls!vars)
        => [StartsApproved]_(ToolCalls!vars)
  <2> SUFFICES ASSUME ToolInv, ToolCalls!Next, NEW c \in ToolRequests,
                      call[c].stage # "running", call'[c].stage = "running"
               PROVE  /\ ~revoked /\ call[c].connected
                      /\ call[c].asks => /\ message[c].shows = "approve"
                                         /\ approval[c].settled = "approved"
    BY DEF StartsApproved, ToolCalls!Executes
  <2>1. /\ ~revoked /\ call[c].connected
        /\ call[c].stage \in {"starting", "mounting"}
    <3>1. ASSUME ToolCalls!Reply(c, "error") PROVE FALSE
      BY <3>1 DEF ToolCalls!Reply, ToolInv, CallSound, RowsSound, CallRow
    <3>2. ToolCalls!Start(c) \/ ToolCalls!Spawn(c)
      BY Starting
    <3> QED BY <3>1, <3>2
            DEF ToolCalls!Start, ToolCalls!Spawn, ToolCalls!MayStart, ToolCalls!Aborted
  <2>2. ApprovalSound(call[c], approval[c], message[c])
    BY DEF ToolInv, CallSound, RowsSound
  <2>3. call[c].asks => approval[c].settled = "approved"
    BY <2>1, <2>2 DEF ApprovalSound
  <2> QED BY <2>1, <2>2, <2>3 DEF ApprovalSound
<1>2. [][StartsApproved]_(ToolCalls!vars) => StartsAsApproved
  BY PTL DEF StartsApproved, StartsAsApproved, ToolCalls!StartsAsApproved
<1> QED BY <1>1, <1>2, ToolInvariant, ToolPart, PTL DEF ToolCalls!Spec

-----------------------------------------------------------------------------
(* The inference lock and the Bot calls *)

LineTypes ==
  /\ config \in [Providers -> Limits]
  /\ run \in [Runs -> {"new", "waiting", "holding", "closing", "done"}]
  /\ botcall \in [Calls -> {"new", "waiting", "borrowing", "done"}]
  /\ ahead \in [Runs -> SUBSET Runs]
  /\ queue \in [Runs -> Seq(Calls)]
  /\ line \in [Lanes -> Seq(Runs \cup Calls)]
  /\ ticket \in SUBSET Calls

(* The runs of W are in an order, and there are finitely many of them. *)
Ordered(W) ==
  /\ W \in SUBSET Runs /\ IsFiniteSet(W)
  /\ \A v \in W : v \notin Lines!Ahead(v)
  /\ \A v, w \in W : v = w \/ v \in Lines!Ahead(w) \/ w \in Lines!Ahead(v)
  /\ \A v, w \in W : v \in Lines!Ahead(w) => Lines!Ahead(v) \cap W \subseteq Lines!Ahead(w)

WaitersInOrder ==
  /\ Ordered(Lines!Waiting)
  /\ \A w \in Lines!Waiting : ahead[w] \subseteq Lines!Waiting

(* The resource has an owner as long as somebody uses it or waits for it.  *)
OwnerSound ==
  /\ active = {r \in Runs : run[r] \in {"holding", "closing"}}
  /\ IsFiniteSet(active)
  /\ \A r \in active : Provider[r] = owner
  /\ owner = NoProvider => Lines!Waiting = {}
  /\ owner # NoProvider =>
       owner \in Providers /\ limit = config[owner] /\ Cardinality(active) <= limit

LendingSound ==
  /\ \A c \in Calls : botcall[c] = "borrowing" => Parent[c] \in active
  /\ \A c, d \in Calls :
       botcall[c] = "borrowing" /\ botcall[d] = "borrowing" /\ Parent[c] = Parent[d] => c = d
  /\ \A r \in Runs : \A i \in 1 .. Len(queue[r]) :
       Parent[queue[r][i]] = r /\ botcall[queue[r][i]] = "waiting"
  /\ \A r \in Runs : \A i, k \in 1 .. Len(queue[r]) :
       queue[r][i] = queue[r][k] => i = k

(* Whoever has left the ledger for the lock came in turn. *)
InTurn ==
  \A x \in Runs \cup Calls :
    x \notin ticket /\ Lines!Stage(x) \notin {"new", "done"} => Lines!FirstInLine(x)

LineInv == LineTypes /\ WaitersInOrder /\ OwnerSound /\ LendingSound /\ InTurn

LEMMA LeastNumber ==
  ASSUME NEW S \in SUBSET Nat, S # {}
  PROVE  \E n \in S : \A m \in S : n =< m
<1> DEFINE R == OpToRel(<, Nat)
<1>1. IsWellFoundedOn(R, Nat)
  BY NatLessThanWellFounded
<1>2. \A m, n \in Nat : m < n => <<m, n>> \in R
  BY DEF OpToRel
<1> HIDE DEF R
<1>3. PICK n \in S : \A m \in S : ~(<<m, n>> \in R)
  BY <1>1, WFMin
<1>4. ASSUME NEW m \in S PROVE n =< m
  <2>1. m \in Nat /\ n \in Nat
    OBVIOUS
  <2>2. ~(m < n)
    BY <1>2, <1>3, <2>1
  <2> QED BY <2>1, <2>2
<1> QED BY <1>4

LEMMA SameCardinality == \A S : Lines!Cardinality(S) = Cardinality(S)
BY DEF Lines!Cardinality, Cardinality

(* The waiters of p in W in front of w *)
InFront(W, p, w) == {v \in Lines!Ahead(w) \cap W : Lines!Of(p, v)}

LEMMA InFrontFinite ==
  ASSUME NEW W, Ordered(W), NEW p, NEW w
  PROVE  IsFiniteSet(InFront(W, p, w)) /\ Cardinality(InFront(W, p, w)) \in Nat
<1>1. InFront(W, p, w) \in SUBSET W /\ IsFiniteSet(W)
  BY DEF InFront, Ordered
<1> QED BY <1>1, FS_Subset, FS_CardinalityType

LEMMA OlderHasFewer ==
  ASSUME NEW W, Ordered(W), NEW v \in W, NEW w \in W, v \in Lines!Ahead(w), NEW p, Lines!Of(p, v)
  PROVE  Cardinality(InFront(W, p, v)) < Cardinality(InFront(W, p, w))
<1>1. InFront(W, p, v) \in SUBSET InFront(W, p, w)
  BY DEF InFront, Ordered
<1>2. v \in InFront(W, p, w) /\ v \notin InFront(W, p, v)
  BY DEF InFront, Ordered
<1>3. /\ Cardinality(InFront(W, p, v)) =< Cardinality(InFront(W, p, w))
      /\ Cardinality(InFront(W, p, v)) = Cardinality(InFront(W, p, w))
           => InFront(W, p, w) = InFront(W, p, v)
  BY <1>1, InFrontFinite, FS_Subset
<1> QED BY <1>2, <1>3, InFrontFinite

LEMMA OldestExists ==
  ASSUME NEW W, Ordered(W), W # {}
  PROVE  \E w \in W : Lines!Ahead(w) \cap W = {}
<1> DEFINE Before(w) == Lines!Ahead(w) \cap W
           S == {Cardinality(Before(w)) : w \in W}
<1>1. \A w \in W : IsFiniteSet(Before(w)) /\ Cardinality(Before(w)) \in Nat
  <2> TAKE w \in W
  <2>1. Before(w) \in SUBSET W /\ IsFiniteSet(W)
    BY DEF Ordered
  <2> QED BY <2>1, FS_Subset, FS_CardinalityType
<1>2. S \in SUBSET Nat /\ S # {}
  BY <1>1
<1>3. PICK w \in W : \A v \in W : Cardinality(Before(w)) =< Cardinality(Before(v))
  <2>1. PICK n \in S : \A m \in S : n =< m
    BY <1>2, LeastNumber
  <2> QED BY <2>1
<1>4. ASSUME NEW v \in Before(w) PROVE FALSE
  <2>1. v \in W /\ v \in Before(w) /\ v \notin Before(v) /\ Before(v) \in SUBSET Before(w)
    BY DEF Ordered
  <2>2. /\ Cardinality(Before(v)) =< Cardinality(Before(w))
        /\ Cardinality(Before(w)) = Cardinality(Before(v)) => Before(w) = Before(v)
    BY <1>1, <2>1, FS_Subset
  <2>3. Cardinality(Before(w)) =< Cardinality(Before(v))
    BY <1>3, <2>1
  <2>4. Cardinality(Before(w)) \in Nat /\ Cardinality(Before(v)) \in Nat
    BY <1>1, <2>1
  <2>5. Cardinality(Before(v)) = Cardinality(Before(w))
    BY <2>2, <2>3, <2>4
  <2> QED BY <2>1, <2>2, <2>5
<1> QED BY <1>4

LEMMA GrantedInOrder ==
  ASSUME NEW W, Ordered(W), NEW a, IsFiniteSet(a), NEW p, NEW n \in Nat,
         NEW w \in Lines!Granted(W, a, p, n), NEW v \in Lines!Ahead(w) \cap W, Lines!Of(p, v)
  PROVE  v \in Lines!Granted(W, a, p, n)
<1>1. /\ w \in W
      /\ Cardinality(a) + Cardinality(InFront(W, p, w)) < n
  BY SameCardinality DEF Lines!Granted, InFront
<1>2. Cardinality(InFront(W, p, v)) < Cardinality(InFront(W, p, w))
  BY <1>1, OlderHasFewer
<1>3. Cardinality(a) + Cardinality(InFront(W, p, v)) < n
  BY <1>1, <1>2, InFrontFinite, FS_CardinalityType
<1> QED BY <1>3, SameCardinality DEF Lines!Granted, InFront

LEMMA GrantedFits ==
  ASSUME NEW W, Ordered(W), NEW a, IsFiniteSet(a), NEW p, NEW n \in Nat, Cardinality(a) =< n
  PROVE  LET g == Lines!Granted(W, a, p, n) IN
         /\ g \in SUBSET W /\ \A w \in g : Lines!Of(p, w)
         /\ IsFiniteSet(a \cup g) /\ Cardinality(a \cup g) =< n
<1> DEFINE g == Lines!Granted(W, a, p, n)
           Free(w) == n - Cardinality(a) - Cardinality(InFront(W, p, w))
           S == {Free(w) : w \in g}
<1>1. /\ g \in SUBSET W
      /\ \A w \in g : /\ Lines!Of(p, w)
                      /\ Cardinality(a) + Cardinality(InFront(W, p, w)) < n
  BY SameCardinality DEF Lines!Granted, InFront
<1>2. IsFiniteSet(g) /\ Cardinality(a) \in Nat
  BY <1>1, FS_Subset, FS_CardinalityType DEF Ordered
<1> HIDE DEF g
<1>3. CASE g = {}
  <2>1. a \cup g = a
    BY <1>3
  <2> QED BY <1>1, <2>1 DEF g
<1>4. CASE g # {}
  <2>1. S \in SUBSET Nat /\ S # {}
    BY <1>1, <1>2, <1>4, InFrontFinite
  <2>2. PICK w \in g : \A v \in g : Free(w) =< Free(v)
    <3>1. PICK m \in S : \A k \in S : m =< k
      BY <2>1, LeastNumber
    <3> QED BY <3>1
  <2>3. ASSUME NEW v \in g \ {w} PROVE v \in InFront(W, p, w)
    <3>1. v \in Lines!Ahead(w) \/ w \in Lines!Ahead(v)
      BY <1>1 DEF Ordered
    <3>2. ASSUME w \in Lines!Ahead(v) PROVE FALSE
      <4>1. Cardinality(InFront(W, p, w)) < Cardinality(InFront(W, p, v))
        BY <1>1, <3>2, OlderHasFewer
      <4> QED BY <1>2, <2>2, <4>1, InFrontFinite
    <3> QED BY <1>1, <3>1, <3>2 DEF InFront
  <2>4. g \ {w} \in SUBSET InFront(W, p, w)
    BY <2>3
  <2>5. Cardinality(g \ {w}) =< Cardinality(InFront(W, p, w)) /\ IsFiniteSet(g \ {w})
    BY <2>4, InFrontFinite, FS_Subset
  <2>6. Cardinality(g \ {w}) = Cardinality(g) - 1
    BY <1>2, FS_RemoveElement
  <2>7. Cardinality(a) + Cardinality(g) =< n
    <3>1. Cardinality(a) + Cardinality(InFront(W, p, w)) < n
      BY <1>1
    <3> QED BY <1>2, <2>5, <2>6, <3>1, InFrontFinite, FS_CardinalityType
  <2>8. /\ IsFiniteSet(a \cup g) /\ IsFiniteSet(a \cap g)
        /\ Cardinality(a \cup g) = Cardinality(a) + Cardinality(g) - Cardinality(a \cap g)
    BY <1>2, FS_Union, FS_Intersection
  <2>9. Cardinality(a \cup g) =< n
    BY <1>2, <2>7, <2>8, FS_CardinalityType
  <2> QED BY <1>1, <2>8, <2>9 DEF g
<1> QED BY <1>3, <1>4

(* The runs that wait while r asks (st is "waiting") or goes (it is not).  *)
Asking(r, st) == IF st = "waiting" THEN Lines!Waiting \cup {r} ELSE Lines!Waiting \ {r}

LEMMA AskingOrdered ==
  ASSUME WaitersInOrder, NEW r \in Runs, NEW st, st = "waiting" => run[r] = "new"
  PROVE  /\ Ordered(Asking(r, st))
         /\ \A w \in Asking(r, st) : Lines!Ahead(w) \subseteq Lines!Waiting
<1>1. /\ Ordered(Lines!Waiting)
      /\ \A w \in Lines!Waiting : Lines!Ahead(w) = ahead[w] /\ ahead[w] \subseteq Lines!Waiting
  BY DEF WaitersInOrder, Lines!Waiting, Lines!Ahead
<1>2. CASE st = "waiting"
  <2>1. r \notin Lines!Waiting /\ Lines!Ahead(r) = Lines!Waiting
    BY <1>2 DEF Lines!Waiting, Lines!Ahead
  <2>2. Asking(r, st) = Lines!Waiting \cup {r}
    BY <1>2 DEF Asking
  <2>3. IsFiniteSet(Lines!Waiting \cup {r}) /\ Lines!Waiting \cup {r} \in SUBSET Runs
    BY <1>1, FS_AddElement DEF Ordered
  <2>4. Ordered(Lines!Waiting \cup {r})
    BY <1>1, <2>1, <2>3 DEF Ordered
  <2> QED BY <1>1, <2>1, <2>2, <2>4
<1>3. CASE st # "waiting"
  <2>1. Asking(r, st) = Lines!Waiting \ {r}
    BY <1>3 DEF Asking
  <2>2. IsFiniteSet(Lines!Waiting \ {r})
    BY <1>1, FS_RemoveElement DEF Ordered
  <2>3. Ordered(Lines!Waiting \ {r})
    BY <1>1, <2>2 DEF Ordered
  <2> QED BY <1>1, <2>1, <2>3
<1> QED BY <1>2, <1>3

LEMMA NextOwnerSound ==
  ASSUME LineTypes, OwnerSound, NEW W, Ordered(W), NEW a \in SUBSET active
  PROVE  LET o == Lines!NextOwner(W, a) IN
         /\ o.owner = NoProvider => W = {}
         /\ o.owner # NoProvider =>
              /\ o.owner \in Providers /\ o.limit = config[o.owner]
              /\ o.limit \in Nat /\ Cardinality(a) =< o.limit
         /\ \A r \in a : Provider[r] = o.owner
         /\ o.owner # owner => a = {} /\ \A w \in W : Provider[w] # owner
         /\ o.owner # owner /\ o.owner # NoProvider =>
              \E w \in W : Provider[w] = o.owner /\ Lines!Ahead(w) \cap W = {}
<1>1. /\ Provider \in [Runs -> Providers] /\ NoProvider \notin Providers
      /\ \A p \in Providers : config[p] \in Nat
  BY LinesAssumption DEF Lines!LockAssumption, LineTypes
<1>2. active \in SUBSET Runs /\ W \in SUBSET Runs
  BY DEF OwnerSound, Ordered
<1>3. CASE a = {} /\ (\A w \in W : ~Lines!Of(owner, w)) /\ W = {}
  <2>1. Lines!NextOwner(W, a) = [owner |-> NoProvider, limit |-> 0]
    BY <1>3 DEF Lines!NextOwner
  <2> QED BY <1>3, <2>1
<1>4. CASE a = {} /\ (\A w \in W : ~Lines!Of(owner, w)) /\ W # {}
  <2> DEFINE first == CHOOSE w \in W : Lines!Ahead(w) \cap W = {}
  <2>1. first \in W /\ Lines!Ahead(first) \cap W = {}
    BY <1>4, OldestExists
  <2>2. Lines!NextOwner(W, a) = [owner |-> Provider[first], limit |-> config[Provider[first]]]
    BY <1>4 DEF Lines!NextOwner
  <2> HIDE DEF first
  <2>3. Provider[first] \in Providers /\ Cardinality(a) = 0
    BY <1>1, <1>2, <1>4, <2>1, FS_EmptySet
  <2> QED BY <1>1, <1>4, <2>1, <2>2, <2>3 DEF Lines!Of
<1>5. CASE ~(a = {} /\ \A w \in W : ~Lines!Of(owner, w))
  <2>1. Lines!NextOwner(W, a) = [owner |-> owner, limit |-> limit]
    BY <1>5 DEF Lines!NextOwner
  <2>2. owner \in Providers
    BY <1>1, <1>2, <1>5 DEF OwnerSound, Lines!Of
  <2>3. Cardinality(a) =< Cardinality(active) /\ Cardinality(a) \in Nat
        /\ Cardinality(active) \in Nat
    BY FS_Subset, FS_CardinalityType DEF OwnerSound
  <2>4. limit = config[owner] /\ limit \in Nat /\ Cardinality(active) =< limit
    BY <1>1, <2>2 DEF OwnerSound
  <2> QED BY <1>1, <2>1, <2>2, <2>3, <2>4 DEF OwnerSound
<1> QED BY <1>3, <1>4, <1>5

(* What a step of the lock must do to those that wait. *)
Served ==
  /\ \A w \in Runs : run[w] \in {"new", "waiting"} /\ run'[w] = "holding" =>
       \A v \in Lines!Ahead(w) : Provider[v] = Provider[w] => run'[v] # "waiting"
  /\ owner' # owner /\ owner' # NoProvider /\ Lines!Waiting # {} =>
       /\ active' \cap active = {}
       /\ \A w \in Lines!Waiting : Lines!Of(owner, w) => run'[w] = "done"
       /\ \E w \in Lines!Waiting :
            /\ Lines!Of(owner', w)
            /\ \A v \in ahead[w] : run'[v] # "waiting"

Pumped(r, st) ==
  /\ r \in Runs /\ run[r] \in {"new", "waiting", "closing"}
  /\ st \in {"waiting", "done"} /\ (st = "waiting" <=> run[r] = "new")
  /\ Lines!Pump(Asking(r, st), active \ {r}, r, st) /\ config' = config

(* Who has ended does not begin again, and only r may begin. *)
NobodyRestarts(r) ==
  \A h \in Runs : /\ run[h] = "done" => run'[h] = "done"
                  /\ run'[h] \notin {"new", "done"} => run[h] # "new" \/ h = r

LEMMA PumpSound ==
  ASSUME LineTypes, WaitersInOrder, OwnerSound, NEW r, NEW st, Pumped(r, st)
  PROVE  /\ run' \in [Runs -> {"new", "waiting", "holding", "closing", "done"}]
         /\ ahead' \in [Runs -> SUBSET Runs]
         /\ NobodyRestarts(r)
         /\ active \ {r} \subseteq active'
         /\ OwnerSound'
         /\ WaitersInOrder'
         /\ Served
<1> DEFINE W == Asking(r, st)
           a == active \ {r}
           o == Lines!NextOwner(W, a)
           g == Lines!Granted(W, a, o.owner, o.limit)
<1>1. /\ Ordered(W) /\ \A w \in W : Lines!Ahead(w) \subseteq Lines!Waiting
      /\ W \subseteq Lines!Waiting \cup {r} /\ Lines!Waiting \subseteq W \cup {r}
      /\ r \in W <=> st = "waiting"
  BY AskingOrdered DEF Pumped, Asking
<1>2. a \in SUBSET active /\ IsFiniteSet(a) /\ active \in SUBSET Runs
  BY FS_RemoveElement DEF OwnerSound
<1>3. /\ owner' = o.owner
      /\ limit' = o.limit
      /\ active' = a \cup g
      /\ ahead' = [w \in Runs |-> IF w \in W \ g THEN Lines!Ahead(w) \cap (W \ g) ELSE {}]
      /\ run' = [h \in Runs |-> IF h \in g THEN "holding" ELSE IF h = r THEN st ELSE run[h]]
      /\ config' = config
  BY DEF Pumped, Lines!Pump
<1>4. /\ o.owner = NoProvider => W = {}
      /\ o.owner # NoProvider =>
           /\ o.owner \in Providers /\ o.limit = config[o.owner]
           /\ o.limit \in Nat /\ Cardinality(a) =< o.limit
      /\ \A h \in a : Provider[h] = o.owner
      /\ o.owner # owner => a = {} /\ \A w \in W : Provider[w] # owner
      /\ o.owner # owner /\ o.owner # NoProvider =>
           \E w \in W : Provider[w] = o.owner /\ Lines!Ahead(w) \cap W = {}
  <2> HIDE DEF W, a
  <2> QED BY <1>1, <1>2, NextOwnerSound
<1>5. /\ g \in SUBSET W /\ \A w \in g : Provider[w] = o.owner
      /\ IsFiniteSet(a \cup g)
      /\ o.owner # NoProvider => Cardinality(a \cup g) =< o.limit
      /\ \A w \in g : \A v \in Lines!Ahead(w) \cap W : Provider[v] = o.owner => v \in g
  <2>1. CASE W = {}
    <3>1. g = {}
      BY <2>1 DEF Lines!Granted
    <3> QED BY <1>2, <1>4, <3>1
  <2>2. CASE W # {}
    <3>1. o.owner # NoProvider /\ o.limit \in Nat /\ Cardinality(a) =< o.limit
      BY <1>4, <2>2
    <3> HIDE DEF W, a, o
    <3>2. /\ g \in SUBSET W /\ \A w \in g : Provider[w] = o.owner
          /\ IsFiniteSet(a \cup g) /\ Cardinality(a \cup g) =< o.limit
      BY <1>1, <1>2, <3>1, GrantedFits DEF Lines!Of
    <3>3. \A w \in g : \A v \in Lines!Ahead(w) \cap W : Provider[v] = o.owner => v \in g
      BY <1>1, <1>2, <3>1, GrantedInOrder DEF Lines!Of
    <3> QED BY <3>2, <3>3
  <2> QED BY <2>1, <2>2
<1> HIDE DEF o, g
<1>6. /\ run[r] \in {"new", "waiting", "closing"} /\ r \in Runs
      /\ st \in {"waiting", "done"} /\ (st = "waiting" <=> run[r] = "new")
      /\ Lines!Waiting \in SUBSET Runs
      /\ W \in SUBSET Runs
  BY <1>1 DEF Pumped, Lines!Waiting, Ordered
<1> HIDE DEF W, a
<1>7. Lines!Waiting' = W \ g
  BY <1>1, <1>3, <1>5, <1>6 DEF Lines!Waiting
<1>8. run' \in [Runs -> {"new", "waiting", "holding", "closing", "done"}]
  BY <1>3, <1>6 DEF LineTypes
<1>9. ahead' \in [Runs -> SUBSET Runs]
  BY <1>3, <1>6
<1>10. ASSUME NEW h \in Runs
       PROVE  /\ run[h] = "done" => run'[h] = "done"
              /\ run'[h] \notin {"new", "done"} => run[h] # "new" \/ h = r
  BY <1>1, <1>3, <1>5, <1>6 DEF Lines!Waiting
<1>11. OwnerSound'
  <2>1. active' = {h \in Runs : run'[h] \in {"holding", "closing"}}
    BY <1>1, <1>2, <1>3, <1>5, <1>6 DEF OwnerSound, Lines!Waiting, a
  <2>2. \A h \in active' : Provider[h] = owner'
    BY <1>3, <1>4, <1>5
  <2>3. owner' = NoProvider => Lines!Waiting' = {}
    BY <1>3, <1>4, <1>7
  <2> QED BY <1>3, <1>4, <1>5, <2>1, <2>2, <2>3 DEF OwnerSound
<1>12. WaitersInOrder'
  <2>1. \A w \in W \ g : Lines!Ahead(w)' = Lines!Ahead(w) \cap (W \ g)
                         /\ ahead'[w] = Lines!Ahead(w) \cap (W \ g)
    BY <1>3, <1>6, <1>7 DEF Lines!Ahead, Lines!Waiting
  <2>2. IsFiniteSet(W \ g) /\ W \ g \in SUBSET Runs
    BY <1>1, <1>6, FS_Difference DEF Ordered
  <2>3. Ordered(Lines!Waiting)'
    BY <1>1, <1>7, <2>1, <2>2 DEF Ordered
  <2> QED BY <1>7, <2>1, <2>3 DEF WaitersInOrder
<1>13. Served
  <2>1. ASSUME NEW w \in Runs, run[w] \in {"new", "waiting"}, run'[w] = "holding",
               NEW v \in Lines!Ahead(w), Provider[v] = Provider[w]
        PROVE  run'[v] # "waiting"
    <3>1. w \in g
      BY <1>3, <1>6, <2>1
    <3>2. v \in Lines!Waiting
      BY <1>1, <1>5, <2>1, <3>1
    <3>3. CASE v \in W
      BY <1>3, <1>5, <1>6, <2>1, <3>1, <3>3
    <3>4. CASE v \notin W
      BY <1>1, <1>3, <1>5, <1>6, <3>2, <3>4 DEF Lines!Waiting
    <3> QED BY <3>3, <3>4
  <2>2. ASSUME owner' # owner, owner' # NoProvider, Lines!Waiting # {}
        PROVE  /\ active' \cap active = {}
               /\ \A w \in Lines!Waiting : Lines!Of(owner, w) => run'[w] = "done"
               /\ \E w \in Lines!Waiting :
                    /\ Lines!Of(owner', w)
                    /\ \A v \in ahead[w] : run'[v] # "waiting"
    <3>1. active' \cap active = {}
      BY <1>1, <1>3, <1>4, <1>5, <1>6, <2>2 DEF OwnerSound, Lines!Waiting
    <3>2. ASSUME NEW w \in Lines!Waiting, Provider[w] = owner PROVE run'[w] = "done"
      BY <1>1, <1>3, <1>4, <1>5, <1>6, <2>2, <3>2 DEF Lines!Waiting
    <3>3. PICK w \in W : Provider[w] = owner' /\ Lines!Ahead(w) \cap W = {}
      BY <1>3, <1>4, <2>2
    <3>4. w \in Lines!Waiting /\ Lines!Ahead(w) = ahead[w]
      <4>1. ASSUME w = r, run[r] = "new" PROVE FALSE
        <5>1. Lines!Ahead(w) = Lines!Waiting
          BY <4>1 DEF Lines!Ahead
        <5>2. r \notin Lines!Waiting
          BY <4>1 DEF Lines!Waiting
        <5> QED BY <1>1, <2>2, <3>3, <5>1, <5>2
      <4>2. w \in Lines!Waiting
        BY <1>1, <1>6, <3>3, <4>1 DEF Lines!Waiting
      <4> QED BY <4>2 DEF Lines!Ahead, Lines!Waiting
    <3>5. ASSUME NEW v \in ahead[w] PROVE run'[v] # "waiting"
      <4>1. v \in Lines!Waiting /\ v \notin W
        BY <3>3, <3>4, <3>5 DEF WaitersInOrder
      <4> QED BY <1>1, <1>3, <1>5, <1>6, <4>1
    <3> QED BY <3>1, <3>2, <3>3, <3>4, <3>5 DEF Lines!Of
  <2> QED BY <2>1, <2>2 DEF Served
<1>14. active \ {r} \subseteq active'
  BY <1>3 DEF a
<1> QED BY <1>8, <1>9, <1>10, <1>11, <1>12, <1>13, <1>14 DEF NobodyRestarts

LEMMA SlotsKept ==
  ASSUME WaitersInOrder, OwnerSound, UNCHANGED <<config, owner, limit, active, ahead, run>>
  PROVE  WaitersInOrder' /\ OwnerSound'
BY DEF WaitersInOrder, OwnerSound, Ordered, Lines!Waiting, Lines!Ahead

(* A step that leaves the lines alone keeps those first that were, when    *)
(* nobody who has ended begins again.                                      *)
LEMMA TurnsKept ==
  ASSUME LineTypes, line' = line,
         \A x \in Runs \cup Calls : Lines!Finished(x) => Lines!Finished(x)',
         \A x \in Runs \cup Calls :
           x \notin ticket' /\ Lines!Stage(x)' \notin {"new", "done"} => Lines!FirstInLine(x)
  PROVE  InTurn'
<1> SUFFICES ASSUME NEW x \in Runs \cup Calls, Lines!FirstInLine(x)
             PROVE  Lines!FirstInLine(x)'
  BY DEF InTurn
<1> DEFINE l == line[Lane[x]]
<1>1. l \in Seq(Runs \cup Calls)
  BY LinesAssumption DEF LineTypes
<1>2. PICK i \in DOMAIN l : l[i] = x /\ \A k \in 1 .. i - 1 : Lines!Finished(l[k])
  BY DEF Lines!FirstInLine
<1>3. ASSUME NEW k \in 1 .. i - 1 PROVE Lines!Finished(l[k])'
  BY <1>1, <1>2
<1> QED BY <1>2, <1>3 DEF Lines!FirstInLine

(* Nor does one that joins a line: it comes last. *)
LEMMA TurnsJoined ==
  ASSUME LineTypes, InTurn, NEW y \in Runs \cup Calls, Lines!Join(y),
         run' = run, botcall' = botcall, ticket \subseteq ticket'
  PROVE  InTurn'
<1> SUFFICES ASSUME NEW x \in Runs \cup Calls, Lines!FirstInLine(x)
             PROVE  Lines!FirstInLine(x)'
  BY DEF InTurn, Lines!Stage
<1> DEFINE l == line[Lane[x]]
<1>1. l \in Seq(Runs \cup Calls) /\ Lane[x] \in Lanes
  BY LinesAssumption DEF LineTypes
<1>2. line'[Lane[x]] = l \/ line'[Lane[x]] = Append(l, y)
  BY <1>1 DEF Lines!Join, LineTypes
<1>3. \A k \in DOMAIN l : k \in DOMAIN line'[Lane[x]] /\ line'[Lane[x]][k] = l[k]
  BY <1>1, <1>2
<1>4. PICK i \in DOMAIN l : l[i] = x /\ \A k \in 1 .. i - 1 : Lines!Finished(l[k])
  BY DEF Lines!FirstInLine
<1>5. \A k \in 1 .. i - 1 : k \in DOMAIN l
  BY <1>1, <1>4
<1> HIDE DEF l
<1>6. ASSUME NEW k \in 1 .. i - 1
      PROVE  Lines!Finished(line[Lane[x]][k])'
  <2>1. Lines!Finished(l[k]) /\ line'[Lane[x]][k] = l[k]
    BY <1>3, <1>4, <1>5
  <2> QED BY <2>1 DEF Lines!Finished, Lines!Stage
<1>7. i \in DOMAIN line'[Lane[x]] /\ line'[Lane[x]][i] = x
  BY <1>3, <1>4
<1> QED BY <1>6, <1>7 DEF Lines!FirstInLine

LEMMA Removed ==
  ASSUME NEW S, NEW q \in Seq(S), NEW i \in 1 .. Len(q)
  PROVE  /\ Lines!RemoveAt(q, i) \in Seq(S)
         /\ Len(Lines!RemoveAt(q, i)) = Len(q) - 1
         /\ \A k \in 1 .. Len(q) - 1 :
              Lines!RemoveAt(q, i)[k] = q[IF k < i THEN k ELSE k + 1]
<1> DEFINE f == SubSeq(q, 1, i - 1)
           t == SubSeq(q, i + 1, Len(q))
<1>1. Len(q) \in Nat
  OBVIOUS
<1>2. /\ f \in Seq(S) /\ Len(f) = i - 1
      /\ \A k \in 1 .. i - 1 : f[k] = q[k]
  OBVIOUS
<1>3. /\ t \in Seq(S) /\ Len(t) = Len(q) - i
      /\ \A k \in 1 .. Len(q) - i : t[k] = q[i + k]
  OBVIOUS
<1>4. Lines!RemoveAt(q, i) = f \o t
  BY DEF Lines!RemoveAt
<1> HIDE DEF f, t
<1>5. /\ f \o t \in Seq(S) /\ Len(f \o t) = Len(q) - 1
      /\ \A k \in 1 .. Len(q) - 1 : (f \o t)[k] = IF k =< i - 1 THEN f[k] ELSE t[k - (i - 1)]
  <2>1. /\ f \o t \in Seq(S) /\ Len(f \o t) = Len(f) + Len(t)
        /\ \A k \in 1 .. Len(f) + Len(t) :
             (f \o t)[k] = IF k <= Len(f) THEN f[k] ELSE t[k - Len(f)]
    BY <1>2, <1>3, ConcatProperties
  <2>2. Len(f) = i - 1 /\ Len(f) + Len(t) = Len(q) - 1
    BY <1>1, <1>2, <1>3
  <2> HIDE DEF f, t
  <2> QED BY <2>1, <2>2
<1>6. ASSUME NEW k \in 1 .. Len(q) - 1
      PROVE  (f \o t)[k] = q[IF k < i THEN k ELSE k + 1]
  <2>1. CASE k < i
    <3>1. k \in 1 .. i - 1 /\ k =< i - 1
      BY <1>1, <2>1
    <3> QED BY <1>2, <1>5, <2>1, <3>1
  <2>2. CASE ~(k < i)
    <3>1. k - (i - 1) \in 1 .. Len(q) - i /\ ~(k =< i - 1) /\ i + (k - (i - 1)) = k + 1
      BY <1>1, <2>2
    <3>2. (f \o t)[k] = t[k - (i - 1)]
      BY <1>5, <3>1
    <3>3. t[k - (i - 1)] = q[i + (k - (i - 1))]
      BY <1>3, <3>1
    <3> QED BY <2>2, <3>1, <3>2, <3>3
  <2> QED BY <2>1, <2>2
<1> QED BY <1>4, <1>5, <1>6

LEMMA LineInvInit == Lines!BotInit => LineInv
<1> SUFFICES ASSUME Lines!BotInit PROVE LineInv
  OBVIOUS
<1> USE DEF Lines!BotInit, Lines!Init
<1>1. LineTypes
  BY DEF LineTypes
<1>2. Lines!Waiting = {} /\ active = {} /\ active = {r \in Runs : run[r] \in {"holding", "closing"}}
  BY DEF Lines!Waiting
<1>3. WaitersInOrder /\ OwnerSound
  BY <1>2, FS_EmptySet DEF WaitersInOrder, OwnerSound, Ordered
<1>4. LendingSound
  BY DEF LendingSound
<1>5. InTurn
  BY DEF InTurn, Lines!Stage
<1> QED BY <1>1, <1>3, <1>4, <1>5 DEF LineInv

(* A step of the lock itself *)
LEMMA PumpedSound ==
  ASSUME LineInv, NEW r, NEW st, Pumped(r, st),
         \A c \in Calls : botcall[c] = "borrowing" => Parent[c] # r \/ r \notin active,
         run[r] = "new" => Lines!FirstInLine(r),
         UNCHANGED <<botcall, queue, line, ticket>>
  PROVE  LineInv' /\ Served
<1>1. /\ run' \in [Runs -> {"new", "waiting", "holding", "closing", "done"}]
      /\ ahead' \in [Runs -> SUBSET Runs]
      /\ active \ {r} \subseteq active' /\ NobodyRestarts(r)
      /\ OwnerSound' /\ WaitersInOrder' /\ Served
  BY PumpSound DEF LineInv
<1>2. ASSUME NEW h \in Runs
      PROVE  /\ run[h] = "done" => run'[h] = "done"
             /\ run'[h] \notin {"new", "done"} => run[h] # "new" \/ h = r
  BY <1>1 DEF NobodyRestarts
<1>3. LineTypes'
  BY <1>1 DEF LineInv, LineTypes, Pumped
<1>4. LendingSound'
  <2>1. \A c \in Calls : botcall[c] = "borrowing" => Parent[c] \in active'
    BY <1>1 DEF LineInv, LendingSound
  <2> QED BY <2>1 DEF LineInv, LendingSound
<1>5. InTurn'
  <2>1. \A x \in Runs \cup Calls : Lines!Finished(x) => Lines!Finished(x)'
    BY <1>2 DEF Lines!Finished, Lines!Stage
  <2>2. ASSUME NEW x \in Runs \cup Calls, x \notin ticket', Lines!Stage(x)' \notin {"new", "done"}
        PROVE  Lines!FirstInLine(x)
    <3>1. CASE x \in Runs
      <4>1. run'[x] \notin {"new", "done"}
        BY <2>2, <3>1 DEF Lines!Stage
      <4>2. run[x] # "done" /\ (run[x] # "new" \/ x = r)
        BY <1>2, <3>1, <4>1
      <4> QED BY <2>2, <3>1, <4>2 DEF LineInv, InTurn, Lines!Stage
    <3>2. CASE x \notin Runs
      BY <2>2, <3>2 DEF LineInv, InTurn, Lines!Stage
    <3> QED BY <3>1, <3>2
  <2> QED BY <2>1, <2>2, TurnsKept DEF LineInv
<1> QED BY <1>1, <1>3, <1>4, <1>5 DEF LineInv

LEMMA LockStartSound ==
  ASSUME LineInv, NEW r \in Runs, Lines!Start(r)
  PROVE  LineInv' /\ Served
<1>1. r \notin active /\ active \ {r} = active
  BY DEF LineInv, OwnerSound, Lines!Start, Lines!Acquire
<1>2. Asking(r, "waiting") = Lines!Waiting \cup {r}
  BY DEF Asking
<1>3. Pumped(r, "waiting")
  BY <1>1, <1>2 DEF Pumped, Lines!Start, Lines!Acquire
<1> QED BY <1>1, <1>3, PumpedSound DEF Lines!Start, Lines!Acquire

LEMMA AbortWaiterSound ==
  ASSUME LineInv, NEW r \in Runs, Lines!AbortWaiter(r), UNCHANGED <<line, ticket>>
  PROVE  LineInv' /\ Served
<1>1. r \notin active /\ active \ {r} = active
  BY DEF LineInv, OwnerSound, Lines!AbortWaiter
<1>2. Asking(r, "done") = Lines!Waiting \ {r}
  BY DEF Asking
<1>3. Pumped(r, "done")
  BY <1>1, <1>2 DEF Pumped, Lines!AbortWaiter
<1> QED BY <1>1, <1>3, PumpedSound DEF Lines!AbortWaiter

LEMMA LockReleaseSound ==
  ASSUME LineInv, NEW r \in Runs, Lines!Release(r), UNCHANGED <<line, ticket>>
  PROVE  LineInv' /\ Served
<1>1. Asking(r, "done") = Lines!Waiting
  BY DEF Asking, Lines!Waiting, Lines!Release
<1>2. Pumped(r, "done")
  BY <1>1 DEF Pumped, Lines!Release
<1>3. \A c \in Calls : botcall[c] = "borrowing" => Parent[c] # r
  BY DEF Lines!Release, Lines!Borrowers
<1> QED BY <1>2, <1>3, PumpedSound DEF Lines!Release

(* The scope of r is closed, and with it the calls that wait in it. *)
LEMMA LockCloseSound ==
  ASSUME LineInv, NEW r \in Runs, Lines!Close(r), UNCHANGED <<line, ticket>>
  PROVE  LineInv' /\ Served
<1> USE DEF Lines!Close
<1>1. /\ run[r] = "holding" /\ run' = [run EXCEPT ![r] = "closing"]
      /\ botcall' = [c \in Calls |-> IF c \in Lines!ToSet(queue[r]) THEN "done" ELSE botcall[c]]
      /\ queue' = [queue EXCEPT ![r] = <<>>]
      /\ UNCHANGED <<config, owner, limit, active, ahead>>
  BY DEF Lines!resource
<1>2. LineTypes'
  BY <1>1 DEF LineInv, LineTypes
<1>3. Lines!Waiting' = Lines!Waiting /\ WaitersInOrder' /\ OwnerSound'
  <2>1. Lines!Waiting' = Lines!Waiting
    BY <1>1 DEF LineInv, LineTypes, Lines!Waiting
  <2>2. \A w \in Lines!Waiting : Lines!Ahead(w)' = Lines!Ahead(w)
    BY <1>1, <2>1 DEF Lines!Ahead, Lines!Waiting, LineInv, LineTypes
  <2>3. WaitersInOrder'
    BY <1>1, <2>1, <2>2 DEF LineInv, WaitersInOrder, Ordered
  <2>4. active' = {h \in Runs : run'[h] \in {"holding", "closing"}}
    BY <1>1 DEF LineInv, LineTypes, OwnerSound
  <2> QED BY <1>1, <2>1, <2>3, <2>4 DEF LineInv, OwnerSound
<1>4. \A c \in Calls : botcall'[c] \in {botcall[c], "done"}
  BY <1>1
<1>5. LendingSound'
  <2>1. ASSUME NEW h \in Runs, NEW i \in 1 .. Len(queue'[h])
        PROVE  h # r /\ queue'[h] = queue[h]
    BY <1>1, <2>1 DEF LineInv, LineTypes
  <2>2. ASSUME NEW h \in Runs, NEW i \in 1 .. Len(queue'[h])
        PROVE  Parent[queue'[h][i]] = h /\ botcall'[queue'[h][i]] = "waiting"
    <3>1. queue[h][i] \in Calls /\ Parent[queue[h][i]] = h /\ botcall[queue[h][i]] = "waiting"
      BY <2>1 DEF LineInv, LineTypes, LendingSound
    <3>2. queue[h][i] \notin Lines!ToSet(queue[r])
      BY <2>1, <3>1 DEF Lines!ToSet, LineInv, LineTypes, LendingSound
    <3> QED BY <1>1, <2>1, <3>1, <3>2
  <2>3. \A h \in Runs : \A i, k \in 1 .. Len(queue'[h]) : queue'[h][i] = queue'[h][k] => i = k
    BY <2>1 DEF LineInv, LendingSound
  <2>4. \A c \in Calls : botcall'[c] = "borrowing" => botcall[c] = "borrowing"
    BY <1>4
  <2> QED BY <1>1, <2>2, <2>3, <2>4 DEF LineInv, LendingSound
<1>6. InTurn'
  <2>1. \A x \in Runs \cup Calls : Lines!Finished(x) => Lines!Finished(x)'
    BY <1>1, <1>4 DEF Lines!Finished, Lines!Stage, LineInv, LineTypes
  <2>2. \A x \in Runs \cup Calls :
          x \notin ticket' /\ Lines!Stage(x)' \notin {"new", "done"} => Lines!FirstInLine(x)
    BY <1>1, <1>4 DEF LineInv, LineTypes, InTurn, Lines!Stage
  <2> QED BY <2>1, <2>2, TurnsKept DEF LineInv
<1>7. Served
  BY <1>1 DEF Served, LineInv, LineTypes
<1> QED BY <1>2, <1>3, <1>5, <1>6, <1>7 DEF LineInv

LEMMA EnqueueSound ==
  ASSUME LineInv, NEW r \in Runs, Lines!Enqueue(r)
  PROVE  LineInv' /\ Served
<1>1. /\ Lines!Join(r) /\ UNCHANGED <<config, owner, limit, active, ahead, run, botcall, queue>>
      /\ ticket' = ticket
  BY DEF Lines!Enqueue, Lines!vars, Lines!resource
<1>2. LineTypes'
  BY <1>1, LinesAssumption DEF LineInv, LineTypes, Lines!Join
<1>3. InTurn'
  BY <1>1, TurnsJoined DEF LineInv
<1>4. LendingSound'
  BY <1>1 DEF LineInv, LendingSound
<1> QED BY <1>1, <1>2, <1>3, <1>4, SlotsKept DEF LineInv, Served

LEMMA CallBotSound ==
  ASSUME LineInv, NEW c \in Calls, Lines!CallBot(c)
  PROVE  LineInv' /\ Served
<1>1. /\ Lines!Join(c) /\ UNCHANGED <<config, owner, limit, active, ahead, run, botcall, queue>>
      /\ ticket' = ticket \cup {c}
  BY DEF Lines!CallBot, Lines!vars, Lines!resource
<1>2. LineTypes'
  BY <1>1, LinesAssumption DEF LineInv, LineTypes, Lines!Join
<1>3. InTurn'
  BY <1>1, TurnsJoined DEF LineInv
<1>4. LendingSound'
  BY <1>1 DEF LineInv, LendingSound
<1> QED BY <1>1, <1>2, <1>3, <1>4, SlotsKept DEF LineInv, Served

(* The steps of one call that touch its state and a queue alone *)
Lent(c) ==
  /\ UNCHANGED <<config, owner, limit, active, ahead, run, line>>
  /\ botcall' \in [Calls -> {"new", "waiting", "borrowing", "done"}]
  /\ \A d \in Calls : botcall[d] = "done" => botcall'[d] = "done"
  /\ \A d \in Calls \ {c} : botcall[d] = "new" => botcall'[d] = "new"
  /\ ticket' \in SUBSET ticket /\ ticket \ {c} \subseteq ticket'
  /\ queue' \in [Runs -> Seq(Calls)]

LEMMA LentSound ==
  ASSUME LineInv, NEW c \in Calls, Lent(c), LendingSound',
         c \notin ticket' /\ botcall'[c] \notin {"new", "done"} => Lines!FirstInLine(c)
  PROVE  LineInv' /\ Served
<1>1. LineTypes'
  BY DEF LineInv, LineTypes, Lent
<1>2. WaitersInOrder' /\ OwnerSound'
  BY SlotsKept DEF LineInv, Lent
<1>3. InTurn'
  <2>1. \A x \in Runs \cup Calls : Lines!Finished(x) => Lines!Finished(x)'
    BY DEF Lines!Finished, Lines!Stage, Lent
  <2>2. ASSUME NEW x \in Runs \cup Calls, x \notin ticket', Lines!Stage(x)' \notin {"new", "done"}
        PROVE  Lines!FirstInLine(x)
    <3>1. CASE x \in Runs
      BY <2>2, <3>1, LinesAssumption DEF LineInv, LineTypes, InTurn, Lines!Stage, Lent
    <3>2. CASE x \notin Runs /\ x # c
      BY <2>2, <3>2 DEF LineInv, InTurn, Lines!Stage, Lent
    <3>3. CASE x \notin Runs /\ x = c
      BY <2>2, <3>3 DEF Lines!Stage
    <3> QED BY <3>1, <3>2, <3>3
  <2> QED BY <2>1, <2>2, TurnsKept DEF LineInv, Lent
<1>4. Served
  BY DEF Served, Lent
<1> QED BY <1>1, <1>2, <1>3, <1>4 DEF LineInv

(* A call that never waited in a queue ends. *)
LEMMA TicketGone ==
  ASSUME LineInv, NEW c \in Calls, c \in ticket, botcall[c] # "waiting",
         botcall' = [botcall EXCEPT ![c] = "done"], ticket' = ticket \ {c},
         UNCHANGED <<config, owner, limit, active, ahead, run, queue, line>>
  PROVE  LineInv' /\ Served
<1>1. Lent(c)
  BY DEF LineInv, LineTypes, Lent
<1>2. LendingSound'
  <2>1. \A d \in Calls : botcall'[d] = "borrowing" => botcall[d] = "borrowing"
    BY DEF LineInv, LineTypes
  <2>2. ASSUME NEW r \in Runs, NEW i \in 1 .. Len(queue[r])
        PROVE  Parent[queue[r][i]] = r /\ botcall'[queue[r][i]] = "waiting"
    BY DEF LineInv, LineTypes, LendingSound
  <2> QED BY <2>1, <2>2 DEF LineInv, LendingSound
<1>3. botcall'[c] = "done"
  BY DEF LineInv, LineTypes
<1> QED BY <1>1, <1>2, <1>3, LentSound

LEMMA BorrowSound ==
  ASSUME LineInv, NEW c \in Calls, Lines!Admitted(c)
  PROVE  LineInv' /\ Served
<1> DEFINE r == Parent[c]
<1>1. /\ botcall[c] = "new" /\ Lines!FirstInLine(c) /\ r \in Runs
      /\ ticket' = ticket \ {c}
      /\ UNCHANGED <<config, owner, limit, active, ahead, run, line>>
  BY LinesAssumption DEF Lines!Admitted, Lines!Borrow, Lines!resource, Lines!LockAssumption
<1>2. ASSUME run[r] = "closing", botcall' = [botcall EXCEPT ![c] = "done"], queue' = queue
      PROVE  LineInv' /\ Served
  BY <1>1, <1>2, TicketGone DEF Lines!Admitted
<1>3. ASSUME run[r] = "holding", Lines!Borrowers(r) = {},
             botcall' = [botcall EXCEPT ![c] = "borrowing"], queue' = queue
      PROVE  LineInv' /\ Served
  <2>1. Lent(c)
    BY <1>1, <1>3 DEF LineInv, LineTypes, Lent
  <2>2. LendingSound'
    <3>1. r \in active
      BY <1>1, <1>3 DEF LineInv, OwnerSound
    <3>2. \A d \in Calls \ {c} : botcall'[d] = botcall[d]
      BY <1>3 DEF LineInv, LineTypes
    <3>3. \A d \in Calls : botcall[d] = "borrowing" => Parent[d] # r
      BY <1>3 DEF Lines!Borrowers
    <3>4. ASSUME NEW h \in Runs, NEW i \in 1 .. Len(queue[h])
          PROVE  Parent[queue[h][i]] = h /\ botcall'[queue[h][i]] = "waiting"
      BY <1>1, <3>2 DEF LineInv, LineTypes, LendingSound
    <3>5. \A d \in Calls : botcall'[d] = "borrowing" => Parent[d] \in active'
      BY <1>1, <3>1, <3>2 DEF LineInv, LendingSound
    <3>6. \A d, e \in Calls :
            botcall'[d] = "borrowing" /\ botcall'[e] = "borrowing" /\ Parent[d] = Parent[e]
              => d = e
      BY <3>2, <3>3 DEF LineInv, LendingSound
    <3> QED BY <1>3, <3>4, <3>5, <3>6 DEF LineInv, LendingSound
  <2> QED BY <1>1, <2>1, <2>2, LentSound
<1>4. ASSUME run[r] = "holding", botcall' = [botcall EXCEPT ![c] = "waiting"],
             queue' = [queue EXCEPT ![r] = Append(@, c)]
      PROVE  LineInv' /\ Served
  <2>1. Lent(c)
    BY <1>1, <1>4 DEF LineInv, LineTypes, Lent
  <2>2. LendingSound'
    <3>1. /\ \A d \in Calls \ {c} : botcall'[d] = botcall[d]
          /\ botcall'[c] = "waiting"
      BY <1>4 DEF LineInv, LineTypes
    <3>2. \A h \in Runs \ {r} : queue'[h] = queue[h]
      BY <1>4 DEF LineInv, LineTypes
    <3>3. /\ queue[r] \in Seq(Calls) /\ queue'[r] = Append(queue[r], c)
      BY <1>1, <1>4 DEF LineInv, LineTypes
    <3>4. /\ Len(queue'[r]) = Len(queue[r]) + 1 /\ queue'[r][Len(queue[r]) + 1] = c
          /\ \A i \in 1 .. Len(queue[r]) : queue'[r][i] = queue[r][i]
          /\ Len(queue[r]) \in Nat
      BY <3>3
    <3>5. ASSUME NEW h \in Runs, NEW i \in 1 .. Len(queue[h])
          PROVE  /\ queue[h][i] \in Calls /\ queue[h][i] # c
                 /\ Parent[queue[h][i]] = h /\ botcall'[queue[h][i]] = "waiting"
      BY <1>1, <3>1 DEF LineInv, LineTypes, LendingSound
    <3>6. ASSUME NEW h \in Runs, NEW i \in 1 .. Len(queue'[h])
          PROVE  Parent[queue'[h][i]] = h /\ botcall'[queue'[h][i]] = "waiting"
      <4>1. CASE h # r
        BY <3>2, <3>5, <3>6, <4>1
      <4>2. CASE h = r /\ i \in 1 .. Len(queue[r])
        BY <3>4, <3>5, <4>2
      <4>3. CASE h = r /\ i = Len(queue[r]) + 1
        BY <3>1, <3>4, <4>3
      <4> QED BY <3>4, <3>6, <4>1, <4>2, <4>3
    <3>7. ASSUME NEW h \in Runs, NEW i \in 1 .. Len(queue'[h]), NEW k \in 1 .. Len(queue'[h]),
                 queue'[h][i] = queue'[h][k]
          PROVE  i = k
      <4>1. CASE h # r
        BY <3>2, <3>7, <4>1 DEF LineInv, LendingSound
      <4>2. CASE h = r /\ i \in 1 .. Len(queue[r]) /\ k \in 1 .. Len(queue[r])
        BY <1>1, <3>4, <3>7, <4>2 DEF LineInv, LendingSound
      <4>3. CASE h = r /\ i \in 1 .. Len(queue[r]) /\ k = Len(queue[r]) + 1
        BY <1>1, <3>4, <3>5, <3>7, <4>3
      <4>4. CASE h = r /\ k \in 1 .. Len(queue[r]) /\ i = Len(queue[r]) + 1
        BY <1>1, <3>4, <3>5, <3>7, <4>4
      <4>5. CASE h = r /\ i = Len(queue[r]) + 1 /\ k = Len(queue[r]) + 1
        BY <4>5
      <4> QED BY <3>4, <3>7, <4>1, <4>2, <4>3, <4>4, <4>5
    <3>8. \A d \in Calls : botcall'[d] = "borrowing" => botcall[d] = "borrowing"
      BY <3>1
    <3> QED BY <1>1, <3>6, <3>7, <3>8 DEF LineInv, LendingSound
  <2> QED BY <1>1, <2>1, <2>2, LentSound
<1> QED BY <1>2, <1>3, <1>4 DEF Lines!Admitted, Lines!Borrow

LEMMA AbortBorrowSound ==
  ASSUME LineInv, NEW c \in Calls, Lines!AbortBorrow(c), UNCHANGED <<line, ticket>>
  PROVE  LineInv' /\ Served
<1> DEFINE r == Parent[c]
           q == queue[r]
<1>1. PICK i \in DOMAIN q : q[i] = c /\ queue' = [queue EXCEPT ![r] = Lines!RemoveAt(@, i)]
  BY DEF Lines!AbortBorrow
<1>2. /\ botcall[c] = "waiting" /\ r \in Runs
      /\ botcall' = [botcall EXCEPT ![c] = "done"]
      /\ UNCHANGED <<config, owner, limit, active, ahead, run, line, ticket>>
  BY LinesAssumption DEF Lines!AbortBorrow, Lines!resource, Lines!LockAssumption
<1>3. q \in Seq(Calls) /\ i \in 1 .. Len(q)
  BY <1>1, <1>2 DEF LineInv, LineTypes
<1>4. /\ queue'[r] = Lines!RemoveAt(q, i)
      /\ \A h \in Runs \ {r} : queue'[h] = queue[h]
  BY <1>1, <1>2 DEF LineInv, LineTypes
<1> DEFINE t == queue'[r]
           Old(k) == IF k < i THEN k ELSE k + 1
<1>5. /\ t \in Seq(Calls) /\ Len(t) = Len(q) - 1
      /\ \A k \in 1 .. Len(q) - 1 : t[k] = q[Old(k)]
  BY <1>3, <1>4, Removed
<1>6. \A k \in 1 .. Len(t) : Old(k) \in 1 .. Len(q) /\ Old(k) # i /\ t[k] = q[Old(k)]
  BY <1>3, <1>5
<1>7. \A k, m \in 1 .. Len(t) : Old(k) = Old(m) => k = m
  BY <1>3, <1>5
<1>8. \A k, m \in 1 .. Len(q) : q[k] = q[m] => k = m
  BY <1>2 DEF LineInv, LendingSound
<1>9. queue' \in [Runs -> Seq(Calls)]
  <2>1. \A h \in Runs : queue'[h] \in Seq(Calls)
    BY <1>4, <1>5 DEF LineInv, LineTypes
  <2> QED BY <1>1, <2>1 DEF LineInv, LineTypes
<1>10. Lent(c)
  BY <1>2, <1>9 DEF LineInv, LineTypes, Lent
<1>11. \A d \in Calls \ {c} : botcall'[d] = botcall[d]
  BY <1>2 DEF LineInv, LineTypes
<1> HIDE DEF Old, t
<1>12. ASSUME NEW h \in Runs, NEW k \in 1 .. Len(queue'[h])
       PROVE  Parent[queue'[h][k]] = h /\ botcall'[queue'[h][k]] = "waiting"
  <2>1. CASE h # r
    <3>1. queue[h][k] \in Calls /\ Parent[queue[h][k]] = h /\ botcall[queue[h][k]] = "waiting"
      BY <1>4, <1>12, <2>1 DEF LineInv, LineTypes, LendingSound
    <3> QED BY <1>4, <1>11, <2>1, <3>1
  <2>2. CASE h = r
    <3>1. t[k] = q[Old(k)] /\ Old(k) \in 1 .. Len(q) /\ Old(k) # i
      BY <1>6, <1>12, <2>2 DEF t
    <3>2. /\ q[Old(k)] \in Calls /\ q[Old(k)] # c
          /\ Parent[q[Old(k)]] = r /\ botcall[q[Old(k)]] = "waiting"
      BY <1>1, <1>2, <1>3, <1>8, <3>1 DEF LineInv, LendingSound
    <3> QED BY <1>11, <2>2, <3>1, <3>2 DEF t
  <2> QED BY <2>1, <2>2
<1>13. ASSUME NEW h \in Runs, NEW k \in 1 .. Len(queue'[h]), NEW m \in 1 .. Len(queue'[h]),
              queue'[h][k] = queue'[h][m]
       PROVE  k = m
  <2>1. CASE h # r
    BY <1>4, <1>13, <2>1 DEF LineInv, LendingSound
  <2>2. CASE h = r
    <3>1. /\ t[k] = q[Old(k)] /\ Old(k) \in 1 .. Len(q)
          /\ t[m] = q[Old(m)] /\ Old(m) \in 1 .. Len(q)
      BY <1>6, <1>13, <2>2 DEF t
    <3>2. Old(k) = Old(m)
      BY <1>8, <1>13, <2>2, <3>1 DEF t
    <3> QED BY <1>7, <1>13, <2>2, <3>2 DEF t
  <2> QED BY <2>1, <2>2
<1>14. \A d \in Calls : botcall'[d] = "borrowing" => botcall[d] = "borrowing"
  BY <1>2 DEF LineInv, LineTypes
<1>15. LendingSound'
  BY <1>2, <1>12, <1>13, <1>14 DEF LineInv, LendingSound
<1>16. botcall'[c] = "done"
  BY <1>2 DEF LineInv, LineTypes
<1> QED BY <1>10, <1>15, <1>16, LentSound

(* The slot goes to the first call of the queue, if there is one. *)
LEMMA ReturnSlotSound ==
  ASSUME LineInv, NEW c \in Calls, Lines!ReturnSlot(c), UNCHANGED <<line, ticket>>
  PROVE  LineInv' /\ Served
<1> DEFINE r == Parent[c]
           q == queue[r]
<1>1. /\ botcall[c] = "borrowing" /\ r \in Runs /\ r \in active /\ q \in Seq(Calls)
      /\ UNCHANGED <<config, owner, limit, active, ahead, run, line, ticket>>
  BY LinesAssumption
  DEF Lines!ReturnSlot, Lines!resource, Lines!LockAssumption, LineInv, LineTypes, LendingSound
<1>2. ASSUME q = <<>>, botcall' = [botcall EXCEPT ![c] = "done"], queue' = queue
      PROVE  LineInv' /\ Served
  <2>1. Lent(c)
    BY <1>1, <1>2 DEF LineInv, LineTypes, Lent
  <2>2. /\ \A d \in Calls \ {c} : botcall'[d] = botcall[d]
        /\ botcall'[c] = "done"
    BY <1>2 DEF LineInv, LineTypes
  <2>3. ASSUME NEW h \in Runs, NEW k \in 1 .. Len(queue[h])
        PROVE  Parent[queue[h][k]] = h /\ botcall'[queue[h][k]] = "waiting"
    BY <1>1, <2>2 DEF LineInv, LineTypes, LendingSound
  <2>4. LendingSound'
    BY <1>1, <1>2, <2>2, <2>3 DEF LineInv, LendingSound
  <2> QED BY <2>1, <2>2, <2>4, LentSound
<1>3. ASSUME q # <<>>, queue' = [queue EXCEPT ![r] = Tail(@)],
             botcall' = [botcall EXCEPT ![c] = "done", ![Head(q)] = "borrowing"]
      PROVE  LineInv' /\ Served
  <2> DEFINE n == Head(q)
  <2>1. /\ n = q[1] /\ Len(q) \in Nat /\ 1 \in 1 .. Len(q)
        /\ Tail(q) \in Seq(Calls) /\ Len(Tail(q)) = Len(q) - 1
        /\ \A k \in 1 .. Len(Tail(q)) : Tail(q)[k] = q[k + 1] /\ k + 1 \in 1 .. Len(q)
    BY <1>1, <1>3
  <2>2. n \in Calls /\ Parent[n] = r /\ botcall[n] = "waiting" /\ n # c
    BY <1>1, <2>1 DEF LineInv, LendingSound
  <2>3. /\ \A d \in Calls \ {c, n} : botcall'[d] = botcall[d]
        /\ botcall'[c] = "done" /\ botcall'[n] = "borrowing"
        /\ botcall' \in [Calls -> {"new", "waiting", "borrowing", "done"}]
    BY <1>3, <2>2 DEF LineInv, LineTypes
  <2>4. /\ queue'[r] = Tail(q) /\ queue' \in [Runs -> Seq(Calls)]
        /\ \A h \in Runs \ {r} : queue'[h] = queue[h]
    BY <1>1, <1>3, <2>1 DEF LineInv, LineTypes
  <2> HIDE DEF n, q
  <2>5. Lent(c)
    BY <1>1, <2>2, <2>3, <2>4 DEF Lent
  <2>6. \A k, m \in 1 .. Len(q) : q[k] = q[m] => k = m
    BY <1>1 DEF LineInv, LendingSound, q
  <2>7. \A k \in 1 .. Len(q) :
          q[k] \in Calls /\ Parent[q[k]] = r /\ botcall[q[k]] = "waiting" /\ q[k] # c
    BY <1>1 DEF LineInv, LendingSound, q
  <2>8. ASSUME NEW h \in Runs, NEW k \in 1 .. Len(queue'[h])
        PROVE  Parent[queue'[h][k]] = h /\ botcall'[queue'[h][k]] = "waiting"
    <3>1. CASE h # r
      <4>1. /\ queue[h][k] \in Calls /\ Parent[queue[h][k]] = h
            /\ botcall[queue[h][k]] = "waiting"
        BY <2>4, <2>8, <3>1 DEF LineInv, LineTypes, LendingSound
      <4> QED BY <1>1, <2>2, <2>3, <2>4, <3>1, <4>1
    <3>2. CASE h = r
      <4>1. queue'[h][k] = q[k + 1] /\ k + 1 \in 1 .. Len(q) /\ k + 1 # 1
        BY <2>1, <2>4, <2>8, <3>2
      <4>2. q[k + 1] # n
        BY <2>1, <2>6, <4>1
      <4> QED BY <2>3, <2>7, <3>2, <4>1, <4>2
    <3> QED BY <3>1, <3>2
  <2>9. ASSUME NEW h \in Runs, NEW k \in 1 .. Len(queue'[h]), NEW m \in 1 .. Len(queue'[h]),
               queue'[h][k] = queue'[h][m]
        PROVE  k = m
    <3>1. CASE h # r
      BY <2>4, <2>9, <3>1 DEF LineInv, LendingSound
    <3>2. CASE h = r
      <4>1. /\ queue'[h][k] = q[k + 1] /\ k + 1 \in 1 .. Len(q)
            /\ queue'[h][m] = q[m + 1] /\ m + 1 \in 1 .. Len(q)
        BY <2>1, <2>4, <2>9, <3>2
      <4>2. k + 1 = m + 1
        BY <2>6, <2>9, <4>1
      <4> QED BY <4>2
    <3> QED BY <3>1, <3>2
  <2>10. \A d \in Calls : botcall'[d] = "borrowing" => d = n \/ (d # c /\ botcall[d] = "borrowing")
    BY <2>2, <2>3
  <2>11. \A d \in Calls : botcall'[d] = "borrowing" => Parent[d] \in active'
    BY <1>1, <2>2, <2>10 DEF LineInv, LendingSound
  <2>12. \A d \in Calls : botcall[d] = "borrowing" /\ Parent[d] = r => d = c
    BY <1>1 DEF LineInv, LendingSound
  <2>13. \A d, e \in Calls :
           botcall'[d] = "borrowing" /\ botcall'[e] = "borrowing" /\ Parent[d] = Parent[e]
             => d = e
    BY <2>2, <2>10, <2>12 DEF LineInv, LendingSound
  <2>14. LendingSound'
    BY <2>8, <2>9, <2>11, <2>13 DEF LendingSound
  <2> QED BY <2>3, <2>5, <2>14, LentSound
<1> QED BY <1>2, <1>3 DEF Lines!ReturnSlot

(* A call keeps its ticket only while nothing has become of it. *)
TicketsNew == \A c \in ticket : botcall[c] = "new"

LEMMA TicketStep ==
  ASSUME LineInv, TicketsNew, Lines!BotNext
  PROVE  TicketsNew'
<1> USE DEF LineInv, LineTypes, TicketsNew
<1>1. ASSUME botcall' = botcall, ticket' = ticket
      PROVE  TicketsNew'
  BY <1>1
<1>2. ASSUME NEW r \in Runs, \/ Lines!Enqueue(r) \/ Lines!Start(r)
                             \/ Lines!AbortWaiter(r) /\ ticket' = ticket
                             \/ Lines!Release(r) /\ ticket' = ticket
      PROVE  TicketsNew'
  BY <1>1, <1>2
  DEF Lines!Enqueue, Lines!Start, Lines!Acquire, Lines!AbortWaiter, Lines!Release, Lines!vars
<1>3. ASSUME NEW r \in Runs, Lines!Close(r), ticket' = ticket
      PROVE  TicketsNew'
  <2>1. \A c \in Lines!ToSet(queue[r]) : botcall[c] = "waiting"
    BY DEF Lines!ToSet, LendingSound
  <2>2. \A c \in ticket : c \notin Lines!ToSet(queue[r])
    BY <2>1
  <2> QED BY <1>3, <2>2 DEF Lines!Close
<1>4. ASSUME NEW c \in Calls, Lines!CallBot(c)
      PROVE  TicketsNew'
  BY <1>4 DEF Lines!CallBot, Lines!vars
<1>5. ASSUME NEW c \in Calls, Lines!Refuse(c) \/ Lines!Orphaned(c) \/ Lines!Admitted(c)
      PROVE  TicketsNew'
  <2>1. \A d \in Calls \ {c} : botcall'[d] = botcall[d]
    BY <1>5 DEF Lines!Refuse, Lines!Orphaned, Lines!Admitted, Lines!Borrow
  <2> QED BY <1>5, <2>1 DEF Lines!Refuse, Lines!Orphaned, Lines!Admitted
<1>6. ASSUME NEW c \in Calls, Lines!AbortBorrow(c), ticket' = ticket
      PROVE  TicketsNew'
  BY <1>6 DEF Lines!AbortBorrow
<1>7. ASSUME NEW c \in Calls, Lines!ReturnSlot(c), ticket' = ticket
      PROVE  TicketsNew'
  <2>1. Parent[c] \in Runs
    BY LinesAssumption DEF Lines!LockAssumption
  <2>2. queue[Parent[c]] # <<>> => botcall[Head(queue[Parent[c]])] = "waiting"
    BY <2>1 DEF LendingSound
  <2>3. \A d \in ticket : botcall'[d] = botcall[d]
    BY <1>7, <2>2 DEF Lines!ReturnSlot
  <2> QED BY <1>7, <2>3
<1> QED BY <1>2, <1>3, <1>4, <1>5, <1>6, <1>7 DEF Lines!BotNext, Lines!Attend

LEMMA LineStep ==
  ASSUME LineInv, TicketsNew, Lines!BotNext
  PROVE  LineInv' /\ Served
<1>1. ASSUME NEW r \in Runs, Lines!Enqueue(r)
      PROVE  LineInv' /\ Served
  BY <1>1, EnqueueSound
<1>2. ASSUME NEW r \in Runs, Lines!Start(r)
      PROVE  LineInv' /\ Served
  BY <1>2, LockStartSound
<1>3. ASSUME NEW r \in Runs, Lines!AbortWaiter(r), UNCHANGED <<line, ticket>>
      PROVE  LineInv' /\ Served
  BY <1>3, AbortWaiterSound
<1>4. ASSUME NEW r \in Runs, Lines!Close(r), UNCHANGED <<line, ticket>>
      PROVE  LineInv' /\ Served
  BY <1>4, LockCloseSound
<1>5. ASSUME NEW r \in Runs, Lines!Release(r), UNCHANGED <<line, ticket>>
      PROVE  LineInv' /\ Served
  BY <1>5, LockReleaseSound
<1>6. ASSUME NEW c \in Calls, Lines!CallBot(c)
      PROVE  LineInv' /\ Served
  BY <1>6, CallBotSound
<1>7. ASSUME NEW c \in Calls, Lines!Refuse(c) \/ Lines!Orphaned(c)
      PROVE  LineInv' /\ Served
  <2>1. c \in ticket /\ botcall[c] # "waiting"
    BY <1>7 DEF Lines!Refuse, Lines!Orphaned, TicketsNew
  <2> QED BY <1>7, <2>1, TicketGone DEF Lines!Refuse, Lines!Orphaned, Lines!resource
<1>8. ASSUME NEW c \in Calls, Lines!Admitted(c)
      PROVE  LineInv' /\ Served
  BY <1>8, BorrowSound
<1>9. ASSUME NEW c \in Calls, Lines!AbortBorrow(c), UNCHANGED <<line, ticket>>
      PROVE  LineInv' /\ Served
  BY <1>9, AbortBorrowSound
<1>10. ASSUME NEW c \in Calls, Lines!ReturnSlot(c), UNCHANGED <<line, ticket>>
       PROVE  LineInv' /\ Served
  BY <1>10, ReturnSlotSound
<1> QED BY <1>1, <1>2, <1>3, <1>4, <1>5, <1>6, <1>7, <1>8, <1>9, <1>10
        DEF Lines!BotNext, Lines!Attend

LEMMA LineKept ==
  ASSUME LineInv, TicketsNew, [Lines!BotNext]_(Lines!all)
  PROVE  LineInv' /\ TicketsNew' /\ Served
<1>1. CASE UNCHANGED Lines!all
  <2>1. UNCHANGED <<config, owner, limit, active, ahead, run, botcall, queue, line, ticket>>
    BY <1>1 DEF Lines!all, Lines!vars, Lines!resource
  <2>2. WaitersInOrder' /\ OwnerSound'
    BY <2>1, SlotsKept DEF LineInv
  <2>3. LineTypes' /\ LendingSound' /\ TicketsNew'
    BY <2>1 DEF LineInv, LineTypes, LendingSound, TicketsNew
  <2>4. InTurn'
    BY <2>1 DEF LineInv, InTurn, Lines!Stage, Lines!FirstInLine, Lines!Finished
  <2> QED BY <2>1, <2>2, <2>3, <2>4 DEF LineInv, Served
<1>2. CASE Lines!BotNext
  BY <1>2, LineStep, TicketStep
<1> QED BY <1>1, <1>2

LEMMA LineInvariant == Spec => [](LineInv /\ TicketsNew)
<1>1. Lines!BotInit => LineInv /\ TicketsNew
  BY LineInvInit DEF TicketsNew, Lines!BotInit
<1>2. (LineInv /\ TicketsNew) /\ [Lines!BotNext]_(Lines!all) => (LineInv /\ TicketsNew)'
  BY LineKept
<1> QED BY <1>1, <1>2, LinePart, PTL DEF Lines!BotSpec

(* For any number of providers, limits, runs and calls, the slots in use   *)
(* are those of one provider and no more than its configuration allows,    *)
(* and a call runs only on the slot of its parent, which still holds it,   *)
(* and alone there (queue/inference-lock.ts, pump and                      *)
(* createHeldInferenceResource).                                           *)
THEOREM SlotsWithinCapacity == Spec => []Capacity
<1>1. LineInv => Capacity
  <2> SUFFICES ASSUME LineInv PROVE Capacity
    OBVIOUS
  <2>1. ASSUME NEW r \in Runs, Lines!Borrowers(r) # {}
        PROVE  r \in active /\ Lines!Cardinality(Lines!Borrowers(r)) = 1
    <3>1. PICK c : c \in Lines!Borrowers(r)
      BY <2>1
    <3>2. Lines!Borrowers(r) = {c}
      BY <3>1 DEF Lines!Borrowers, LineInv, LendingSound
    <3>3. r \in active
      BY <3>1 DEF Lines!Borrowers, LineInv, LendingSound
    <3> QED BY <3>2, <3>3, FS_Singleton, SameCardinality
  <2>2. owner # NoProvider => Lines!Cardinality(active) <= config[owner]
    BY SameCardinality DEF LineInv, OwnerSound
  <2> QED BY <2>1, <2>2
          DEF Capacity, Lines!Capacity, Lines!BorrowerCovered, LineInv, OwnerSound
<1> QED BY <1>1, LineInvariant, PTL

(* For any number of sessions, a session has one execution under way, a    *)
(* queued run or a synchronous call: both leave the line of the session    *)
(* only when all before them have ended (queue/session-admission.ts).  An  *)
(* execution ends with its docker client, its container perhaps later      *)
(* (see Poller.OneAttachedAgent).                                          *)
THEOREM ExecutionsAlone == Spec => []OneExecutionPerSession
<1>1. LineInv => OneExecutionPerSession
  <2> SUFFICES ASSUME LineInv, NEW x \in Runs \cup Calls, NEW y \in Runs \cup Calls,
                      Lines!Executing(x), Lines!Executing(y), Lane[x] = Lane[y]
               PROVE  x = y
    BY DEF OneExecutionPerSession, Lines!OneExecutionPerSession
  <2> DEFINE l == line[Lane[x]]
  <2>1. l \in Seq(Runs \cup Calls)
    BY LinesAssumption DEF LineInv, LineTypes
  <2>2. Lines!FirstInLine(x) /\ Lines!FirstInLine(y)
    BY DEF LineInv, InTurn, Lines!Executing
  <2>3. PICK i \in DOMAIN l : l[i] = x /\ \A k \in 1 .. i - 1 : Lines!Finished(l[k])
    BY <2>2 DEF Lines!FirstInLine
  <2>4. PICK j \in DOMAIN l : l[j] = y /\ \A k \in 1 .. j - 1 : Lines!Finished(l[k])
    BY <2>2 DEF Lines!FirstInLine
  <2>5. ~Lines!Finished(x) /\ ~Lines!Finished(y)
    BY DEF Lines!Executing, Lines!Finished
  <2>6. i \in 1 .. Len(l) /\ j \in 1 .. Len(l) /\ Len(l) \in Nat
    BY <2>1, <2>3, <2>4
  <2>7. ~(i < j) /\ ~(j < i)
    <3>1. i < j => i \in 1 .. j - 1
      BY <2>6
    <3>2. j < i => j \in 1 .. i - 1
      BY <2>6
    <3> QED BY <2>3, <2>4, <2>5, <3>1, <3>2
  <2> QED BY <2>3, <2>4, <2>6, <2>7
<1> QED BY <1>1, LineInvariant, PTL

(* Runs of one provider get their slots in the order of their requests,    *)
(* and the resource goes to the provider that has waited longest, only     *)
(* when its owner neither uses it nor waits for it                         *)
(* (queue/inference-lock.ts, pump).                                        *)
THEOREM SlotsServedInOrder == Spec => ServedInOrder
<1>1. (LineInv /\ TicketsNew) /\ [Lines!BotNext]_(Lines!all) => [Served]_(Lines!vars)
  BY LineKept
<1>2. [][Served]_(Lines!vars) => ServedInOrder
  BY PTL DEF Served, ServedInOrder, Lines!ServedInOrder
<1> QED BY <1>1, <1>2, LineInvariant, LinePart, PTL DEF Lines!BotSpec

-----------------------------------------------------------------------------
(* Cron jobs *)

LEMMA AgesBounds ==
  Cron!Ages \in Nat /\ Cron!Ages >= 2 /\ Cron!Ages >= Interval
<1> DEFINE S == {Interval, 2}
<1>1. \E m \in S : \A n \in S : m >= n
  <2>1. CASE Interval >= 2
    BY <2>1, IntervalAssumption
  <2>2. CASE ~(Interval >= 2)
    BY <2>2, IntervalAssumption
  <2> QED BY <2>1, <2>2
<1>2. Cron!Max(S) \in S /\ \A n \in S : Cron!Max(S) >= n
  BY <1>1 DEF Cron!Max
<1> QED BY <1>2, IntervalAssumption DEF Cron!Ages

(* Half a minute later, up to the greatest age that is told apart *)
Aged(n) == IF n < Cron!Ages THEN n + 1 ELSE Cron!Ages

LEMMA MinAges ==
  ASSUME NEW n \in Nat PROVE Cron!Min({Cron!Ages, n + 1}) = Aged(n)
<1> DEFINE S == {Cron!Ages, n + 1}
<1>1. Aged(n) \in S /\ \A m \in S : Aged(n) =< m
  BY AgesBounds DEF Aged
<1>2. S \in SUBSET Nat
  BY AgesBounds
<1>3. \A x \in S : (\A m \in S : x =< m) => x = Aged(n)
  <2>1. \A x, y \in S : x =< y /\ y =< x => x = y
    BY <1>2
  <2> QED BY <1>1, <2>1
<1>4. Cron!Min(S) = CHOOSE x \in S : \A m \in S : x =< m
  BY DEF Cron!Min
<1> HIDE DEF S
<1>5. Cron!Min(S) = Aged(n)
  BY <1>1, <1>3, <1>4
<1> QED BY <1>5 DEF S

LEMMA AgedKeeps ==
  /\ \A n \in 0 .. Cron!Ages : Aged(n) \in 0 .. Cron!Ages
  /\ \A m, n \in 0 .. Cron!Ages : m =< n => Aged(m) =< Aged(n)
  /\ Aged(Cron!Ages) = Cron!Ages
BY AgesBounds DEF Aged

Tasks == Cron!AllJobs
AgeSpan == 0 .. Cron!Ages
JobStages == {"idle", "running", "done", "refused"}
JobRow == [stage : JobStages, age : AgeSpan]
Records == {<<>>} \cup [Tasks -> AgeSpan]

CronTypes ==
  /\ half \in {0, 1}
  /\ memory \in Records /\ disk \in Records /\ saving \in Records
  /\ served \in [Tasks -> AgeSpan] /\ job \in [Tasks -> JobRow]
  /\ writers \in Seq(Tasks)
  /\ \A i, k \in 1 .. Len(writers) : writers[i] = writers[k] => i = k

(* What the scheduler knows of j against what it did.  An idle job has its *)
(* last admission that counted on record; a job under way was admitted no  *)
(* earlier than what is on record of it.                                   *)
RecordSound(j) ==
  /\ memory = <<>> =>
       writers = <<>> /\ saving = <<>> /\ job[j].stage = "idle" /\ served[j] = Cron!Ages
  /\ memory # <<>> =>
       /\ job[j].stage \in {"idle", "running"} => memory[j] =< served[j]
       /\ job[j].stage # "idle" => job[j].age =< memory[j]
       /\ job[j].stage \in {"done", "refused"} => job[j].age =< served[j]
  /\ \A i \in 1 .. Len(writers) : writers[i] = j => job[j].stage \in {"done", "refused"}
  /\ saving # <<>> => /\ writers # <<>>
                      /\ writers[1] = j => memory[j] = job[j].age

CronInv == CronTypes /\ \A j \in Tasks : RecordSound(j)

LEMMA CronInvInit == Cron!Init => CronInv
<1> SUFFICES ASSUME Cron!Init PROVE CronInv
  OBVIOUS
<1> USE AgesBounds DEF Cron!Init
<1>1. CronTypes
  BY DEF CronTypes, Records, AgeSpan, JobRow, JobStages, Tasks, Cron!Never, Cron!Idle
<1>2. ASSUME NEW j \in Tasks PROVE RecordSound(j)
  BY DEF RecordSound, Tasks, Cron!Never, Cron!Idle
<1> QED BY <1>1, <1>2 DEF CronInv

LEMMA OlderRecords ==
  ASSUME NEW r \in Records
  PROVE  /\ Cron!Older(r) \in Records
         /\ r = <<>> => Cron!Older(r) = <<>>
         /\ r # <<>> => r \in [Tasks -> AgeSpan]
         /\ r \in [Tasks -> AgeSpan] =>
              /\ Cron!Older(r) \in [Tasks -> AgeSpan]
              /\ \A j \in Tasks : Cron!Older(r)[j] = Aged(r[j])
         /\ r # <<>> /\ Tasks # {} => Cron!Older(r) # <<>>
<1>1. Cron!Older(<<>>) = <<>>
  BY DEF Cron!Older
<1>2. ASSUME r \in [Tasks -> AgeSpan]
      PROVE  /\ Cron!Older(r) \in [Tasks -> AgeSpan] /\ DOMAIN Cron!Older(r) = Tasks
             /\ \A j \in Tasks : Cron!Older(r)[j] = Aged(r[j])
  <2>1. \A j \in Tasks : r[j] \in AgeSpan /\ r[j] \in Nat
    BY <1>2, AgesBounds DEF AgeSpan
  <2>2. Cron!Older(r) = [j \in Tasks |-> Cron!Min({Cron!Ages, r[j] + 1})]
    BY <1>2 DEF Cron!Older
  <2>3. \A j \in Tasks : Cron!Min({Cron!Ages, r[j] + 1}) = Aged(r[j])
    BY <2>1, MinAges
  <2>4. \A j \in Tasks : Aged(r[j]) \in AgeSpan
    BY <2>1, AgedKeeps DEF AgeSpan
  <2> QED BY <2>2, <2>3, <2>4
<1>3. DOMAIN <<>> = {}
  OBVIOUS
<1> QED BY <1>1, <1>2, <1>3 DEF Records

LEMMA TimeSound ==
  ASSUME CronInv, Cron!Time PROVE CronInv'
<1>1. /\ half' = 1 - half /\ memory' = Cron!Older(memory) /\ disk' = Cron!Older(disk)
      /\ saving' = Cron!Older(saving) /\ served' = Cron!Older(served) /\ writers' = writers
  BY DEF Cron!Time
<1>2. ASSUME NEW j \in Tasks
      PROVE  /\ job[j].stage = "idle" => job'[j] = Cron!Idle
             /\ job[j].stage # "idle" => job'[j].stage = job[j].stage
                                         /\ job'[j].age = Aged(job[j].age)
             /\ job'[j] \in JobRow
  <2>1. job[j] \in JobRow /\ job[j].age \in Nat /\ job[j].age \in AgeSpan
    BY AgesBounds DEF CronInv, CronTypes, JobRow, AgeSpan
  <2>2. job'[j] = IF job[j].stage = "idle" THEN Cron!Idle
                  ELSE [job[j] EXCEPT !.age = Cron!Min({Cron!Ages, @ + 1})]
    BY DEF Cron!Time, Tasks
  <2>3. Cron!Min({Cron!Ages, job[j].age + 1}) = Aged(job[j].age) /\ Aged(job[j].age) \in AgeSpan
    BY <2>1, MinAges, AgedKeeps DEF AgeSpan
  <2> HIDE DEF Aged
  <2> QED BY <2>1, <2>2, <2>3, AgesBounds DEF JobRow, Cron!Idle, JobStages, AgeSpan
<1>3. job' \in [Tasks -> JobRow]
  BY <1>2 DEF Cron!Time, Tasks
<1>4. served' \in [Tasks -> AgeSpan] /\ \A j \in Tasks : served'[j] = Aged(served[j])
  BY <1>1, OlderRecords DEF CronInv, CronTypes, Records
<1>5. CronTypes'
  BY <1>1, <1>3, <1>4, OlderRecords DEF CronInv, CronTypes
<1>6. ASSUME NEW j \in Tasks PROVE RecordSound(j)'
  <2>1. RecordSound(j) /\ CronTypes
    BY DEF CronInv
  <2>2. /\ memory = <<>> => memory' = <<>>
        /\ memory # <<>> => memory' # <<>> /\ memory \in [Tasks -> AgeSpan]
                            /\ memory'[j] = Aged(memory[j])
        /\ saving = <<>> => saving' = <<>>
    BY <1>1, <2>1, OlderRecords DEF CronTypes
  <2>3. /\ job[j].age \in AgeSpan /\ served[j] \in AgeSpan
        /\ memory # <<>> => memory[j] \in AgeSpan
    BY <2>1, <2>2 DEF CronTypes, JobRow
  <2>4. /\ job[j].age =< served[j] => Aged(job[j].age) =< Aged(served[j])
        /\ memory # <<>> /\ job[j].age =< memory[j] => Aged(job[j].age) =< Aged(memory[j])
        /\ memory # <<>> /\ memory[j] =< served[j] => Aged(memory[j]) =< Aged(served[j])
    BY <2>3, AgedKeeps DEF AgeSpan
  <2>5. job'[j].stage = job[j].stage
    BY <1>2 DEF Cron!Idle
  <2>6. saving' # <<>> /\ writers[1] = j => job[j].stage # "idle" /\ memory # <<>>
    <3>1. ASSUME saving # <<>>, writers[1] = j PROVE job[j].stage # "idle" /\ memory # <<>>
      <4>1. 1 \in 1 .. Len(writers)
        BY <2>1, <3>1 DEF RecordSound, CronTypes
      <4> QED BY <2>1, <3>1, <4>1 DEF RecordSound
    <3> QED BY <2>2, <3>1
  <2> HIDE DEF Aged
  <2> QED BY <1>1, <1>2, <1>4, <2>1, <2>2, <2>4, <2>5, <2>6, AgedKeeps DEF RecordSound
<1> QED BY <1>5, <1>6 DEF CronInv

LEMMA TickSound ==
  ASSUME CronInv, Cron!Tick
  PROVE  /\ CronInv'
         /\ \A j \in Tasks : Cron!Admitted(j) =>
              served[j] >= IF j \in CronJobs THEN half + 1 ELSE Interval
<1>1. UNCHANGED <<half, disk, writers, saving, served>>
  BY DEF Cron!Tick
<1>2. CASE UNCHANGED <<memory, job>>
  BY <1>1, <1>2 DEF CronInv, CronTypes, RecordSound, Cron!Admitted
<1>3. CASE ~UNCHANGED <<memory, job>>
  <2> DEFINE state == IF memory = <<>> THEN disk ELSE memory
             Due(j) == job[j].stage = "idle" /\ Cron!ShouldRun(j, state[j])
  <2>1. /\ memory' = state /\ state # <<>>
        /\ job' = [j \in Tasks |-> IF Due(j) THEN [stage |-> "running", age |-> 0] ELSE job[j]]
    BY <1>3 DEF Cron!Tick, Tasks
  <2>2. state \in [Tasks -> AgeSpan]
    BY <2>1 DEF CronInv, CronTypes, Records
  <2> HIDE DEF state
  <2>3. ASSUME NEW j \in Tasks
        PROVE  /\ job'[j] \in JobRow /\ state[j] \in Nat /\ state[j] =< Cron!Ages
               /\ Due(j) => job'[j] = [stage |-> "running", age |-> 0]
               /\ ~Due(j) => job'[j] = job[j]
    <3>1. [stage |-> "running", age |-> 0] \in JobRow /\ job[j] \in JobRow
      BY AgesBounds DEF JobRow, JobStages, AgeSpan, CronInv, CronTypes
    <3>2. state[j] \in Nat /\ state[j] =< Cron!Ages
      BY <2>2, AgesBounds DEF AgeSpan
    <3> HIDE DEF Due
    <3> QED BY <2>1, <3>1, <3>2
  <2>4. ASSUME NEW j \in Tasks
        PROVE  /\ job[j].stage \in {"idle", "running"} => state[j] =< served[j]
               /\ job[j].stage # "idle" => memory # <<>> /\ state = memory
    BY <2>3, AgesBounds DEF CronInv, RecordSound, state
  <2>5. CronTypes'
    <3>1. job' \in [Tasks -> JobRow]
      BY <2>1, <2>3
    <3>2. state \in Records
      BY <2>2 DEF Records
    <3> QED BY <1>1, <2>1, <3>1, <3>2 DEF CronInv, CronTypes
  <2>6. ASSUME NEW j \in Tasks PROVE RecordSound(j)'
    <3>1. memory' # <<>> /\ memory' = state
      BY <2>1
    <3>2. CASE Due(j)
      <4>1. \A i \in 1 .. Len(writers) : writers[i] # j
        BY <3>2 DEF CronInv, RecordSound
      <4>2. saving # <<>> => writers[1] # j
        BY <4>1 DEF CronInv, CronTypes, RecordSound
      <4>3. job'[j].stage = "running" /\ job'[j].age = 0
        BY <2>3, <3>2
      <4>4. saving # <<>> => writers # <<>>
        BY DEF CronInv, RecordSound
      <4>5. state[j] =< served[j] /\ 0 =< state[j]
        BY <2>3, <2>4, <3>2
      <4> HIDE DEF Due
      <4> QED BY <1>1, <3>1, <4>1, <4>2, <4>3, <4>4, <4>5 DEF RecordSound
    <3>3. CASE ~Due(j)
      <4>1. job'[j] = job[j] /\ RecordSound(j)
        BY <2>3, <3>3 DEF CronInv
      <4>2. saving # <<>> => memory # <<>> /\ state = memory
        BY <4>1 DEF RecordSound, state
      <4> HIDE DEF Due
      <4> QED BY <1>1, <2>4, <3>1, <4>1, <4>2 DEF RecordSound
    <3> HIDE DEF Due
    <3> QED BY <3>2, <3>3
  <2>7. ASSUME NEW j \in Tasks, Cron!Admitted(j)
        PROVE  served[j] >= IF j \in CronJobs THEN half + 1 ELSE Interval
    <3>1. Due(j)
      BY <2>3, <2>7 DEF Cron!Admitted
    <3>2. state[j] =< served[j] /\ state[j] \in Nat /\ served[j] \in Nat /\ half \in Nat
      BY <2>3, <2>4, <3>1, AgesBounds DEF CronInv, CronTypes, AgeSpan
    <3>3. state[j] >= IF j \in CronJobs THEN half + 1 ELSE Interval
      BY <3>1, <3>2, IntervalAssumption DEF Cron!ShouldRun
    <3> QED BY <3>2, <3>3, IntervalAssumption
  <2> QED BY <2>5, <2>6, <2>7 DEF CronInv
<1> QED BY <1>2, <1>3

LEMMA EndsSound ==
  ASSUME CronInv, NEW k \in Tasks, Cron!Ends(k) PROVE CronInv'
<1>1. PICK stage \in {"done", "refused"} : job' = [job EXCEPT ![k].stage = stage]
  BY DEF Cron!Ends
<1>2. /\ job[k].stage = "running" /\ writers' = Append(writers, k)
      /\ served' = [served EXCEPT ![k] = job[k].age]
      /\ UNCHANGED <<half, memory, disk, saving>>
  BY DEF Cron!Ends, Cron!clock
<1>3. /\ job \in [Tasks -> JobRow] /\ writers \in Seq(Tasks) /\ served \in [Tasks -> AgeSpan]
      /\ Len(writers) \in Nat /\ \A i \in 1 .. Len(writers) : writers[i] # k
  BY <1>2 DEF CronInv, CronTypes, RecordSound
<1>4. /\ job' \in [Tasks -> JobRow] /\ job'[k].stage = stage /\ job'[k].age = job[k].age
      /\ \A j \in Tasks : j # k => job'[j] = job[j]
      /\ served' \in [Tasks -> AgeSpan] /\ served'[k] = job[k].age
      /\ \A j \in Tasks : j # k => served'[j] = served[j]
  BY <1>1, <1>2, <1>3 DEF JobRow, JobStages
<1>5. /\ writers' \in Seq(Tasks) /\ Len(writers') = Len(writers) + 1
      /\ \A i \in 1 .. Len(writers) : writers'[i] = writers[i]
      /\ writers'[Len(writers) + 1] = k
  BY <1>2, <1>3, AppendProperties
<1>6. \A i \in 1 .. Len(writers') : i \in 1 .. Len(writers) \/ i = Len(writers) + 1
  BY <1>3, <1>5
<1>7. CronTypes'
  <2>1. ASSUME NEW i \in 1 .. Len(writers'), NEW l \in 1 .. Len(writers'), writers'[i] = writers'[l]
        PROVE  i = l
    BY <1>3, <1>5, <1>6, <2>1 DEF CronInv, CronTypes
  <2> QED BY <1>2, <1>4, <1>5, <2>1 DEF CronInv, CronTypes
<1>8. ASSUME NEW j \in Tasks PROVE RecordSound(j)'
  <2>1. RecordSound(j) /\ memory # <<>>
    BY <1>2 DEF CronInv, RecordSound
  <2>2. \A i \in 1 .. Len(writers') : writers'[i] = j => job'[j].stage \in {"done", "refused"}
    BY <1>3, <1>4, <1>5, <1>6, <2>1 DEF RecordSound
  <2>3. saving # <<>> =>
          writers # <<>> /\ writers' # <<>> /\ writers'[1] = writers[1] /\ writers[1] # k
    <3>1. writers # <<>> => 1 \in 1 .. Len(writers)
      BY <1>3
    <3> QED BY <1>3, <1>5, <2>1, <3>1 DEF RecordSound
  <2>4. job[j].age \in Nat
    BY <1>3, AgesBounds DEF JobRow, AgeSpan
  <2> QED BY <1>2, <1>4, <2>1, <2>2, <2>3, <2>4 DEF RecordSound
<1> QED BY <1>7, <1>8 DEF CronInv

LEMMA FailsSound ==
  ASSUME CronInv, NEW k \in Tasks, Cron!Fails(k) PROVE CronInv'
<1>1. /\ job[k].stage = "running" /\ job' = [job EXCEPT ![k] = Cron!Idle]
      /\ UNCHANGED <<half, memory, disk, writers, saving, served>>
  BY DEF Cron!Fails, Cron!clock
<1>2. Cron!Idle \in JobRow /\ Cron!Idle.stage = "idle"
  BY AgesBounds DEF Cron!Idle, JobRow, JobStages, AgeSpan
<1>3. /\ job' \in [Tasks -> JobRow] /\ job'[k] = Cron!Idle
      /\ \A j \in Tasks : j # k => job'[j] = job[j]
  BY <1>1, <1>2 DEF CronInv, CronTypes
<1>4. CronTypes'
  BY <1>1, <1>3 DEF CronInv, CronTypes
<1>5. ASSUME NEW j \in Tasks PROVE RecordSound(j)'
  <2>1. RecordSound(j)
    BY DEF CronInv
  <2>2. CASE j = k
    <3>1. (saving # <<>> => writers # <<>>) /\ \A i \in 1 .. Len(writers) : writers[i] # j
      BY <1>1, <2>1, <2>2 DEF RecordSound
    <3>2. writers # <<>> => 1 \in 1 .. Len(writers)
      BY DEF CronInv, CronTypes
    <3> QED BY <1>1, <1>2, <1>3, <2>1, <2>2, <3>1, <3>2 DEF RecordSound
  <2>3. CASE j # k
    BY <1>1, <1>3, <2>1, <2>3 DEF RecordSound
  <2> QED BY <2>2, <2>3
<1> QED BY <1>4, <1>5 DEF CronInv

LEMMA RecordKeeps ==
  ASSUME CronInv, Cron!Record
  PROVE  CronInv' /\ \A j \in Tasks : memory'[j] =< memory[j]
<1>1. PICK h \in Tasks : h = Head(writers) /\ h = writers[1] /\ 1 \in 1 .. Len(writers)
  BY DEF CronInv, CronTypes, Cron!Record
<1>2. /\ memory' = [memory EXCEPT ![h] = job[h].age] /\ saving' = memory' /\ writers # <<>>
      /\ UNCHANGED <<half, disk, job, writers, served>>
  BY <1>1 DEF Cron!Record, Cron!Recorded, Cron!clock
<1>3. /\ job[h].stage \in {"done", "refused"} /\ job[h].age \in AgeSpan
      /\ memory # <<>> /\ job[h].age =< memory[h]
  BY <1>1 DEF CronInv, CronTypes, RecordSound, JobRow
<1>4. memory \in [Tasks -> AgeSpan]
  BY <1>3 DEF CronInv, CronTypes, Records
<1>5. /\ memory' \in [Tasks -> AgeSpan] /\ memory'[h] = job[h].age
      /\ \A j \in Tasks : j # h => memory'[j] = memory[j]
      /\ memory' # <<>>
  <2>1. DOMAIN <<>> = {}
    OBVIOUS
  <2> QED BY <1>2, <1>3, <1>4, <2>1
<1>6. CronTypes'
  BY <1>2, <1>5 DEF CronInv, CronTypes, Records
<1>7. ASSUME NEW j \in Tasks PROVE RecordSound(j)' /\ memory'[j] =< memory[j]
  <2>1. RecordSound(j) /\ memory[j] \in Nat /\ job[j].age \in Nat
    BY <1>4, AgesBounds DEF CronInv, CronTypes, AgeSpan, JobRow
  <2> QED BY <1>1, <1>2, <1>3, <1>5, <2>1 DEF RecordSound
<1> QED BY <1>6, <1>7 DEF CronInv

LEMMA UnlockSound ==
  ASSUME CronInv, saving # <<>>, Cron!Unlock, UNCHANGED <<half, memory, served>>,
         disk' \in Records, writers # <<>>
  PROVE  CronInv'
<1>1. PICK h \in Tasks : h = Head(writers) /\ h = writers[1] /\ 1 \in 1 .. Len(writers)
  BY DEF CronInv, CronTypes
<1>2. job' = [job EXCEPT ![h] = Cron!Idle] /\ writers' = Tail(writers) /\ saving' = <<>>
  BY <1>1 DEF Cron!Unlock
<1>3. Cron!Idle \in JobRow /\ Cron!Idle.stage = "idle"
  BY AgesBounds DEF Cron!Idle, JobRow, JobStages, AgeSpan
<1>4. /\ job' \in [Tasks -> JobRow] /\ job'[h] = Cron!Idle
      /\ \A j \in Tasks : j # h => job'[j] = job[j]
  BY <1>2, <1>3 DEF CronInv, CronTypes
<1>5. /\ writers' \in Seq(Tasks) /\ Len(writers') = Len(writers) - 1 /\ Len(writers) \in Nat
      /\ \A i \in 1 .. Len(writers') : writers'[i] = writers[i + 1]
  BY <1>1, <1>2, HeadTailProperties DEF CronInv, CronTypes
<1>6. \A i \in 1 .. Len(writers') : i \in Nat /\ i + 1 \in 1 .. Len(writers) /\ i + 1 # 1
  BY <1>5
<1>7. CronTypes'
  <2>1. ASSUME NEW i \in 1 .. Len(writers'), NEW l \in 1 .. Len(writers'), writers'[i] = writers'[l]
        PROVE  i = l
    <3>1. /\ writers[i + 1] = writers[l + 1]
          /\ i + 1 \in 1 .. Len(writers) /\ l + 1 \in 1 .. Len(writers)
      BY <1>5, <1>6, <2>1
    <3>2. i + 1 = l + 1
      BY <3>1 DEF CronInv, CronTypes
    <3> QED BY <1>6, <3>2
  <2>2. <<>> \in Records
    BY DEF Records
  <2> QED BY <1>2, <1>4, <1>5, <2>1, <2>2 DEF CronInv, CronTypes
<1>8. ASSUME NEW j \in Tasks PROVE RecordSound(j)'
  <2>1. RecordSound(j) /\ RecordSound(h)
    BY DEF CronInv
  <2>2. memory # <<>> /\ memory[h] = job[h].age /\ job[h].stage \in {"done", "refused"}
    BY <1>1, <2>1 DEF RecordSound
  <2>3. \A i \in 1 .. Len(writers') : writers'[i] # h
    BY <1>1, <1>5, <1>6 DEF CronInv, CronTypes
  <2>4. \A i \in 1 .. Len(writers') : writers'[i] = j => job'[j].stage \in {"done", "refused"}
    BY <1>4, <1>5, <1>6, <2>1, <2>3 DEF RecordSound
  <2>5. CASE j = h
    BY <1>2, <1>3, <1>4, <2>1, <2>2, <2>4, <2>5 DEF RecordSound
  <2>6. CASE j # h
    BY <1>2, <1>4, <2>1, <2>2, <2>4, <2>6 DEF RecordSound
  <2> QED BY <2>5, <2>6
<1> QED BY <1>7, <1>8 DEF CronInv

LEMMA SavedSound ==
  ASSUME CronInv, Cron!Saved \/ Cron!SaveFails
  PROVE  CronInv' /\ UNCHANGED memory
<1>1. /\ saving # <<>> /\ Cron!Unlock /\ UNCHANGED <<half, memory, served>>
      /\ disk' \in {saving, <<>>, disk}
  BY DEF Cron!Saved, Cron!SaveFails, Cron!clock
<1>2. disk' \in Records
  BY <1>1 DEF CronInv, CronTypes, Records
<1>3. PICK j \in Tasks : TRUE
  BY <1>1 DEF CronInv, CronTypes, Records
<1>4. writers # <<>>
  BY <1>1, <1>3 DEF CronInv, RecordSound
<1> QED BY <1>1, <1>2, <1>4, UnlockSound

LEMMA RestartSound ==
  ASSUME CronInv, Cron!Restart PROVE CronInv' /\ memory' = <<>>
<1>1. /\ disk' \in {disk, <<>>, saving} /\ memory' = <<>> /\ saving' = <<>> /\ writers' = <<>>
      /\ job' = [j \in Tasks |-> Cron!Idle] /\ served' = [j \in Tasks |-> Cron!Ages]
      /\ half' = half
  BY DEF Cron!Restart, Cron!clock, Cron!Never, Tasks
<1>2. Cron!Idle \in JobRow /\ Cron!Idle.stage = "idle" /\ Cron!Ages \in AgeSpan
  BY AgesBounds DEF Cron!Idle, JobRow, JobStages, AgeSpan
<1>3. CronTypes'
  BY <1>1, <1>2 DEF CronInv, CronTypes, Records
<1>4. ASSUME NEW j \in Tasks PROVE RecordSound(j)'
  BY <1>1, <1>2 DEF RecordSound
<1> QED BY <1>1, <1>3, <1>4 DEF CronInv

Kept ==
  memory # <<>> /\ memory' # <<>> =>
    \A j \in Cron!AllJobs : memory'[j] > memory[j] => half' # half
Spaced ==
  \A j \in Cron!AllJobs : Cron!Admitted(j) =>
    served[j] >= IF j \in CronJobs THEN half + 1 ELSE Interval

LEMMA SameMemory == ASSUME CronInv, UNCHANGED memory PROVE Kept
<1> SUFFICES ASSUME memory # <<>>, NEW j \in Tasks PROVE ~(memory[j] > memory[j])
  BY DEF Kept, Tasks
<1> QED BY AgesBounds DEF CronInv, CronTypes, Records, AgeSpan

LEMMA NotAdmitted ==
  ASSUME \A j \in Tasks : job'[j].stage = "running" => job[j].stage = "running"
  PROVE  Spaced
BY DEF Spaced, Tasks, Cron!Admitted

LEMMA CronStep ==
  ASSUME CronInv, [Cron!Next]_(Cron!vars)
  PROVE  CronInv' /\ Kept /\ Spaced
<1>1. CASE Cron!Time
  <2>1. half' # half
    BY <1>1 DEF Cron!Time, CronInv, CronTypes
  <2>2. \A j \in Tasks : job'[j].stage = "running" => job[j].stage = "running"
    BY <1>1 DEF Cron!Time, Cron!Idle, CronInv, CronTypes, JobRow, Tasks
  <2> QED BY <1>1, <2>1, <2>2, TimeSound, NotAdmitted DEF Kept
<1>2. CASE Cron!Tick
  <2>1. Kept
    <3>1. memory # <<>> => UNCHANGED memory
      BY <1>2 DEF Cron!Tick
    <3> QED BY <3>1, SameMemory DEF Kept
  <2> QED BY <1>2, <2>1, TickSound DEF Spaced, Tasks
<1>3. CASE \E j \in Cron!AllJobs : Cron!Ends(j) \/ Cron!Fails(j)
  <2>1. PICK k \in Tasks : Cron!Ends(k) \/ Cron!Fails(k)
    BY <1>3 DEF Tasks
  <2>2. CronInv' /\ UNCHANGED memory
    BY <2>1, EndsSound, FailsSound DEF Cron!Ends, Cron!Fails
  <2>3. /\ \A j \in Tasks : j # k => job'[j] = job[j]
        /\ job'[k].stage # "running"
    BY <2>1 DEF Cron!Ends, Cron!Fails, Cron!Idle, CronInv, CronTypes, JobRow
  <2> QED BY <2>2, <2>3, SameMemory, NotAdmitted
<1>4. CASE Cron!Record
  <2>1. Kept
    <3>1. \A j \in Tasks : memory'[j] =< memory[j]
      BY <1>4, RecordKeeps
    <3>2. memory # <<>> /\ memory' # <<>> =>
            memory \in [Tasks -> AgeSpan] /\ memory' \in [Tasks -> AgeSpan]
      BY <1>4, RecordKeeps DEF CronInv, CronTypes, Records
    <3> QED BY <3>1, <3>2, AgesBounds DEF Kept, Tasks, AgeSpan
  <2> QED BY <1>4, <2>1, RecordKeeps, NotAdmitted DEF Cron!Record
<1>5. CASE Cron!Saved \/ Cron!SaveFails
  <2>1. \A j \in Tasks : job'[j].stage = "running" => job[j].stage = "running"
    BY <1>5 DEF Cron!Saved, Cron!SaveFails, Cron!Unlock, Cron!Idle, CronInv, CronTypes, JobRow
  <2> QED BY <1>5, <2>1, SavedSound, SameMemory, NotAdmitted
<1>6. CASE Cron!Restart
  <2>1. \A j \in Tasks : job'[j].stage # "running"
    BY <1>6 DEF Cron!Restart, Cron!Idle, Tasks
  <2> QED BY <1>6, <2>1, RestartSound, NotAdmitted DEF Kept
<1>7. CASE Cron!Discord
  BY <1>7, SameMemory, NotAdmitted DEF Cron!Discord, CronInv, CronTypes, RecordSound
<1>8. CASE UNCHANGED Cron!vars
  BY <1>8, SameMemory, NotAdmitted DEF Cron!vars, Cron!clock, CronInv, CronTypes, RecordSound
<1> QED BY <1>1, <1>2, <1>3, <1>4, <1>5, <1>6, <1>7, <1>8 DEF Cron!Next

(* A job that ended well is not admitted again for the slot it was         *)
(* admitted for, nor before its interval is over, and what a job recorded  *)
(* is not undone by the record of another, whatever saves fail and however *)
(* long runs take (cron/runner.ts:146-160, 199-215, 314-328). *)
THEOREM CronRunsRecorded == Spec => RunsRecorded
<1>1. Cron!Spec => [][Spaced]_(Cron!vars) /\ [][Kept]_(Cron!vars)
  <2>1. CronInv /\ [Cron!Next]_(Cron!vars) => CronInv' /\ [Spaced]_(Cron!vars) /\ [Kept]_(Cron!vars)
    BY CronStep
  <2> QED BY CronInvInit, <2>1, PTL DEF Cron!Spec
<1>2. Cron!OncePerSlot <=> [][Spaced]_(Cron!vars)
  BY DEF Cron!OncePerSlot, Spaced
<1>3. Cron!RecordsKept <=> [][Kept]_(Cron!vars)
  BY DEF Cron!RecordsKept, Kept
<1> QED BY <1>1, <1>2, <1>3, CronPart DEF RunsRecorded

=============================================================================
