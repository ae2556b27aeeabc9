--------------------------- MODULE AgentRunProofs ---------------------------
(***************************************************************************)
(* Machine-checked: what Discord is told of a /steer and a /stop is so,    *)
(* for every number of runs, instructions and mishaps.                     *)
(***************************************************************************)
EXTENDS AgentRun, TLAPS

-----------------------------------------------------------------------------
(* The shape of the state *)

Stages == {"none", "booting", "waiting", "preparing", "looping", "draining", "closing",
           "gone"}
Stops == {"no", "grace", "aborted", "killing", "killed", "force-killed", "cleanup-failure"}
Exits == {"none", "agent-error"} \cup Outcomes

Promise == [client : {"none", "open", "killed"}, ready : {"no", "marking", "yes", "dropped"},
            sent : BOOLEAN, closed : BOOLEAN, cleanup : BOOLEAN, finished : BOOLEAN,
            stopRequested : BOOLEAN, killing : {"no", "timeout", "cancel", "start"},
            outcome : {"none"} \cup Outcomes]
Container == [stage : Stages, announced : BOOLEAN, attached : BOOLEAN, closed : BOOLEAN,
              aborting : BOOLEAN, exit : Exits]
Instruction == [run : {0} \cup Runs,
                asked : {"no", "pending", "accepted", "refused", "failed"},
                runner : {"no", "persisting", "handed", "idle", "late", "lost"}]

Said == [type : {"ready", "active", "complete"}]
          \cup [type : {"ack"}, steer : Steers, accepted : BOOLEAN]
Told == [type : {"payload", "abort"}] \cup [type : {"steer"}, steer : Steers]

Shape ==
  /\ host \in [Runs -> Promise] /\ runner \in [Runs -> Container]
  /\ out \in [Runs -> Seq(Said)] /\ into \in [Runs -> Seq(Told)]
  /\ registry \in {0} \cup Runs
  /\ steer \in [Steers -> Instruction]
  /\ stop \in [Runs -> Stops]

-----------------------------------------------------------------------------
(* The invariant *)

(* The runner boots once, and works only on a payload that was sent.       *)
Booted(r) == runner[r].stage \notin {"none", "booting"}

StartOK(r) ==
  /\ host[r].client = "none" => runner[r].stage = "none" /\ host[r].killing = "no"
  /\ host[r].ready # "no" => Booted(r)
  /\ runner[r].announced \/ into[r] # <<>> \/ Working(r) => host[r].ready = "yes"
  /\ runner[r].closed => runner[r].stage \in {"closing", "gone"}

(* A run that has ended for the host is closed and not registered; one     *)
(* that is registered or was has announced itself.                         *)
ControlOK(r) ==
  /\ Settled(r) => host[r].finished
  /\ host[r].finished => host[r].closed
  /\ registry = r => runner[r].announced /\ ~host[r].finished
  /\ host[r].closed => \A q \in Steers : steer[q].run = r => steer[q].asked # "pending"

(* How far a /stop is says how far the run is: the client is killed only   *)
(* by a rejection of the promise or after the grace period.                *)
StopOK(r) ==
  /\ stop[r] # "no" => runner[r].announced /\ host[r].stopRequested
  /\ host[r].client = "killed" /\ ~host[r].cleanup
       => stop[r] \in {"killing", "killed", "force-killed", "cleanup-failure"}
  /\ stop[r] = "grace" /\ host[r].finished /\ host[r].killing = "no"
       => runner[r].stage \in {"closing", "gone"}
  /\ stop[r] = "aborted" /\ host[r].killing = "no" => runner[r].stage \in {"closing", "gone"}
  /\ stop[r] \in {"killed", "force-killed"} => runner[r].stage = "gone"
  /\ stop[r] # "no" /\ host[r].killing = "no" => host[r].outcome \in {"none", "failed"}

(* A line that the runner says once is in its output at most once, and an  *)
(* acknowledgement that comes too late comes after the end of the loop.    *)
Once(r, type) ==
  \A i, k \in DOMAIN out[r] : out[r][i].type = type /\ out[r][k].type = type => i = k

Acked(r, i) == out[r][i].type = "ack" /\ out[r][i].accepted

OutOK(r) ==
  /\ Once(r, "ready") /\ Once(r, "active")
  /\ \A i \in DOMAIN out[r] :
       /\ out[r][i].type = "ready" => host[r].ready = "no" /\ Booted(r)
       /\ out[r][i].type = "active" =>
            runner[r].announced /\ registry # r /\ stop[r] = "no"
       /\ out[r][i].type = "complete" => runner[r].closed
       /\ Acked(r, i) =>
            LET s == steer[out[r][i].steer] IN
            /\ s.run = r /\ s.runner \in {"handed", "idle", "late"}
            /\ s.runner = "late" => \/ host[r].closed
                                    \/ \E k \in 1 .. i - 1 : out[r][k].type = "complete"
  /\ runner[r].closed /\ host[r].client = "open" =>
       host[r].closed \/ \E k \in DOMAIN out[r] : out[r][k].type = "complete"

(* An instruction on its way in is there once and was not seen yet. *)
IntoOK(r) ==
  /\ \A i \in DOMAIN into[r] : into[r][i].type = "steer" =>
       LET s == steer[into[r][i].steer] IN s.run = r /\ s.runner = "no"
  /\ \A i, k \in DOMAIN into[r] :
       /\ into[r][i].type = "steer" /\ into[r][k].type = "steer"
       /\ into[r][i].steer = into[r][k].steer
       => i = k

RunOK(r) == StartOK(r) /\ ControlOK(r) /\ StopOK(r) /\ OutOK(r) /\ IntoOK(r)

SteerOK(q) ==
  /\ steer[q].asked = "no" => steer[q].run = 0
  /\ steer[q].run = 0 => steer[q].runner = "no"
  /\ steer[q].asked = "accepted" => steer[q].runner \in {"handed", "idle"}

RunInv == Shape /\ (\A r \in Runs : RunOK(r)) /\ (\A q \in Steers : SteerOK(q))

-----------------------------------------------------------------------------
(* What it implies *)

LEMMA RunNumbers == Runs \subseteq Nat /\ 0 \notin Runs
BY RunAssumption DEF Runs

LEMMA SteersFollow == RunInv => SteerTruthful
BY DEF RunInv, SteerOK, SteerTruthful

LEMMA StopsFollow == RunInv => StopHonoured
<1> SUFFICES ASSUME RunInv PROVE StopHonoured
  OBVIOUS
<1>1. registry # 0 => ~Settled(registry)
  BY DEF RunInv, Shape, RunOK, ControlOK
<1>2. ASSUME NEW r \in Runs, stop[r] \in {"aborted", "force-killed"},
             host[r].killing = "no"
      PROVE  /\ runner[r].stage \notin {"preparing", "looping", "draining"}
             /\ host[r].outcome \in {"none", "failed"}
  <2>1. StopOK(r)
    BY DEF RunInv, RunOK
  <2> QED BY <1>2, <2>1 DEF StopOK
<1> QED BY <1>1, <1>2 DEF StopHonoured

-----------------------------------------------------------------------------
(* Lines of the two pipes *)

LEMMA Appended ==
  ASSUME NEW S, NEW s \in Seq(S), NEW x \in S
  PROVE  /\ Append(s, x) \in Seq(S) /\ Append(s, x) # <<>>
         /\ DOMAIN s \subseteq DOMAIN Append(s, x)
         /\ DOMAIN s \subseteq Nat
         /\ \A i \in DOMAIN s : i < Len(s) + 1 /\ 1 =< i /\ Append(s, x)[i] = s[i]
         /\ \A i \in DOMAIN Append(s, x) : i \in DOMAIN s \/ i = Len(s) + 1
         /\ Len(s) + 1 \in DOMAIN Append(s, x) /\ Append(s, x)[Len(s) + 1] = x
         /\ Len(s) + 1 \notin DOMAIN s
OBVIOUS

LEMMA TakenOff ==
  ASSUME NEW S, NEW s \in Seq(S), s # <<>>
  PROVE  /\ Head(s) \in S /\ Tail(s) \in Seq(S)
         /\ 1 \in DOMAIN s /\ s[1] = Head(s)
         /\ \A i \in DOMAIN Tail(s) :
              i \in Nat /\ i >= 1 /\ i + 1 \in DOMAIN s /\ Tail(s)[i] = s[i + 1]
         /\ \A i \in DOMAIN s :
              i = 1 \/ (i \in Nat /\ i > 1 /\ i - 1 \in DOMAIN Tail(s))
<1>1. Len(s) \in Nat /\ Len(s) > 0 /\ DOMAIN s = 1 .. Len(s)
  OBVIOUS
<1>2. Head(s) \in S /\ Tail(s) \in Seq(S) /\ Len(Tail(s)) = Len(s) - 1 /\ s[1] = Head(s)
  BY <1>1
<1>3. DOMAIN Tail(s) = 1 .. Len(s) - 1
  BY <1>2
<1>4. \A i \in 1 .. Len(s) - 1 : Tail(s)[i] = s[i + 1]
  BY <1>1
<1> QED BY <1>1, <1>2, <1>3, <1>4

(* A step that does not concern run k *)
Apart(k) ==
  /\ host'[k] = host[k] /\ runner'[k] = runner[k] /\ stop'[k] = stop[k]
  /\ out'[k] = out[k] /\ into'[k] = into[k]
  /\ registry' = k => registry = k

(* Instructions of run k keep what the runner made of them, and are not    *)
(* asked again.                                                            *)
SteersKept(k) ==
  \A q \in Steers :
    /\ steer'[q].run = k => steer[q].run = k
    /\ steer[q].run = k => /\ steer'[q].run = k /\ steer'[q].runner = steer[q].runner
                           /\ steer'[q].asked = "pending" => steer[q].asked = "pending"

LEMMA ApartKeeps ==
  ASSUME RunInv, NEW k \in Runs, Apart(k), SteersKept(k)
  PROVE  RunOK(k)'
<1>1. RunOK(k) /\ out[k] \in Seq(Said) /\ into[k] \in Seq(Told)
  BY DEF RunInv, Shape
<1>2. StartOK(k)' /\ ControlOK(k)' /\ StopOK(k)'
  BY <1>1 DEF RunOK, Apart, SteersKept, StartOK, Working, Booted, ControlOK, Settled, StopOK
<1>3. \A i \in DOMAIN out[k] : out[k][i].type = "ack" => out[k][i].steer \in Steers
  BY <1>1 DEF Said
<1>4. \A i \in DOMAIN into[k] : into[k][i].type = "steer" => into[k][i].steer \in Steers
  BY <1>1 DEF Told
<1>5. OutOK(k)'
  BY <1>1, <1>3 DEF RunOK, Apart, SteersKept, OutOK, Once, Acked, Booted
<1>6. IntoOK(k)'
  BY <1>1, <1>4 DEF RunOK, Apart, SteersKept, IntoOK
<1> QED BY <1>2, <1>5, <1>6 DEF RunOK

(* Run r itself goes on. *)
Later(r) ==
  /\ host[r].ready = "no" => host'[r].ready = "no"
  /\ Booted(r) => Booted(r)'
  /\ runner[r].announced => runner'[r].announced
  /\ runner[r].closed => runner'[r].closed
  /\ host[r].closed => host'[r].closed
  /\ stop[r] = "no" => stop'[r] = "no" \/ registry = r

(* What the runner made of an instruction it handed on or had too late *)
SteersSeen(r) ==
  \A q \in Steers :
    steer[q].run = r /\ steer[q].runner \in {"handed", "idle", "late"} =>
      steer'[q].run = r /\ steer'[q].runner = steer[q].runner

(* The end of the loop is known to the host or on its way. *)
EndSaid(r) ==
  runner'[r].closed /\ host'[r].client = "open" =>
    host'[r].closed \/ (runner[r].closed /\ host[r].client = "open")

LEMMA AcksKnown ==
  ASSUME RunInv, NEW r \in Runs
  PROVE  /\ out[r] \in Seq(Said) /\ into[r] \in Seq(Told) /\ RunOK(r)
         /\ \A i \in DOMAIN out[r] : out[r][i] \in Said
         /\ \A i \in DOMAIN out[r] : out[r][i].type = "ack" => out[r][i].steer \in Steers
         /\ \A i \in DOMAIN into[r] : into[r][i].type = "steer" => into[r][i].steer \in Steers
<1>1. out[r] \in Seq(Said) /\ into[r] \in Seq(Told) /\ RunOK(r)
  BY DEF RunInv, Shape
<1>2. \A i \in DOMAIN out[r] : out[r][i] \in Said
  BY <1>1
<1>3. \A x \in Said : x.type = "ack" => x.steer \in Steers
  BY DEF Said
<1>4. \A i \in DOMAIN into[r] : into[r][i] \in Told
  BY <1>1
<1>5. \A x \in Told : x.type = "steer" => x.steer \in Steers
  BY DEF Told
<1> QED BY <1>1, <1>2, <1>3, <1>4, <1>5

LEMMA OutStays ==
  ASSUME RunInv, NEW r \in Runs, out'[r] = out[r], Later(r), SteersSeen(r), EndSaid(r),
         registry' = r => registry = r
  PROVE  OutOK(r)'
<1>1. OutOK(r) /\ \A i \in DOMAIN out[r] : out[r][i].type = "ack" => out[r][i].steer \in Steers
  BY AcksKnown DEF RunOK
<1>2. Once(r, "ready")' /\ Once(r, "active")'
  BY <1>1 DEF OutOK, Once
<1>3. ASSUME NEW i \in DOMAIN out[r]
      PROVE  /\ out[r][i].type = "ready" => host'[r].ready = "no" /\ Booted(r)'
             /\ out[r][i].type = "active" =>
                  runner'[r].announced /\ registry' # r /\ stop'[r] = "no"
             /\ out[r][i].type = "complete" => runner'[r].closed
    BY <1>1 DEF OutOK, Later
<1>4. ASSUME NEW i \in DOMAIN out[r], Acked(r, i)
      PROVE  LET s == steer'[out[r][i].steer] IN
             /\ s.run = r /\ s.runner \in {"handed", "idle", "late"}
             /\ s.runner = "late" => \/ host'[r].closed
                                     \/ \E k \in 1 .. i - 1 : out[r][k].type = "complete"
  <2>1. PICK q \in Steers : q = out[r][i].steer
    BY <1>1, <1>4 DEF Acked
  <2>2. /\ steer[q].run = r /\ steer[q].runner \in {"handed", "idle", "late"}
        /\ steer[q].runner = "late" => \/ host[r].closed
                                      \/ \E k \in 1 .. i - 1 : out[r][k].type = "complete"
    BY <1>1, <1>4, <2>1 DEF OutOK
  <2> QED BY <2>1, <2>2 DEF SteersSeen, Later
<1>5. runner'[r].closed /\ host'[r].client = "open" =>
        host'[r].closed \/ \E k \in DOMAIN out[r] : out[r][k].type = "complete"
  BY <1>1 DEF OutOK, EndSaid, Later
<1> QED BY <1>2, <1>3, <1>4, <1>5 DEF OutOK, Acked

LEMMA OutShrinks ==
  ASSUME RunInv, NEW r \in Runs, out[r] # <<>>, out'[r] = Tail(out[r]),
         Booted(r) => Booted(r)', runner'[r] = runner[r],
         stop'[r] = stop[r], host[r].closed => host'[r].closed, SteersSeen(r), EndSaid(r),
         Head(out[r]).type # "ready" => host'[r].ready = host[r].ready,
         registry' = r => registry = r \/ Head(out[r]).type = "active",
         Head(out[r]).type = "complete" => host'[r].closed
  PROVE  OutOK(r)'
<1> DEFINE s == out[r]
           t == Tail(out[r])
<1>1. /\ OutOK(r) /\ s \in Seq(Said)
      /\ \A i \in DOMAIN s : s[i].type = "ack" => s[i].steer \in Steers
  BY AcksKnown DEF RunOK
<1>2. /\ 1 \in DOMAIN s /\ s[1] = Head(s)
      /\ \A i \in DOMAIN t : i \in Nat /\ i >= 1 /\ i + 1 \in DOMAIN s /\ t[i] = s[i + 1]
      /\ \A i \in DOMAIN s : i = 1 \/ (i \in Nat /\ i > 1 /\ i - 1 \in DOMAIN t)
  BY <1>1, TakenOff
<1>3. out'[r] = t /\ out[r] = s
  OBVIOUS
<1> HIDE DEF s, t
<1>4. \A i \in DOMAIN t : i + 1 # 1
  BY <1>2
<1>4a. \A type \in {"ready", "active"} :
        \A i, k \in DOMAIN s : s[i].type = type /\ s[k].type = type => i = k
  BY <1>1, <1>3 DEF OutOK, Once
<1>5. ASSUME NEW type \in {"ready", "active"}
      PROVE  /\ \A i, k \in DOMAIN t : t[i].type = type /\ t[k].type = type => i = k
             /\ Head(s).type = type => \A i \in DOMAIN t : t[i].type # type
  <2>1. ASSUME NEW i \in DOMAIN t, NEW k \in DOMAIN t, t[i].type = type, t[k].type = type
        PROVE  i = k
    <3>1. i + 1 = k + 1
      BY <1>4a, <1>2, <2>1
    <3> QED BY <1>2, <3>1
  <2>2. ASSUME NEW i \in DOMAIN t, t[i].type = type, Head(s).type = type
        PROVE  FALSE
    <3>1. i + 1 \in DOMAIN s /\ s[i + 1].type = type /\ s[1].type = type
      BY <1>2, <2>2
    <3> QED BY <1>4a, <1>2, <1>4, <3>1
  <2> QED BY <2>1, <2>2
<1>6. /\ \A i, k \in DOMAIN t : t[i].type = "ready" /\ t[k].type = "ready" => i = k
      /\ \A i, k \in DOMAIN t : t[i].type = "active" /\ t[k].type = "active" => i = k
      /\ Head(s).type = "ready" => \A i \in DOMAIN t : t[i].type # "ready"
      /\ Head(s).type = "active" => \A i \in DOMAIN t : t[i].type # "active"
  BY <1>5
<1>7. ASSUME NEW i \in DOMAIN t
      PROVE  /\ t[i].type = "ready" => host'[r].ready = "no" /\ Booted(r)'
             /\ t[i].type = "active" =>
                  runner'[r].announced /\ registry' # r /\ stop'[r] = "no"
             /\ t[i].type = "complete" => runner'[r].closed
  <2>1. i + 1 \in DOMAIN s /\ t[i] = s[i + 1]
    BY <1>2
  <2>2. /\ t[i].type = "ready" => host[r].ready = "no" /\ Booted(r)
        /\ t[i].type = "active" => runner[r].announced /\ registry # r /\ stop[r] = "no"
        /\ t[i].type = "complete" => runner[r].closed
    BY <1>1, <1>3, <2>1 DEF OutOK
  <2> QED BY <1>3, <1>6, <2>2
<1>8. ASSUME NEW i \in DOMAIN t, t[i].type = "ack", t[i].accepted
      PROVE  LET z == steer'[t[i].steer] IN
             /\ z.run = r /\ z.runner \in {"handed", "idle", "late"}
             /\ z.runner = "late" => \/ host'[r].closed
                                     \/ \E k \in 1 .. i - 1 : t[k].type = "complete"
  <2>1. i \in Nat /\ i + 1 \in DOMAIN s /\ t[i] = s[i + 1]
    BY <1>2
  <2>2. PICK q \in Steers : q = t[i].steer
    BY <1>1, <1>8, <2>1
  <2>3. Acked(r, i + 1)
    BY <1>3, <1>8, <2>1 DEF Acked
  <2>4. /\ steer[q].run = r /\ steer[q].runner \in {"handed", "idle", "late"}
        /\ steer[q].runner = "late" =>
             host[r].closed \/ \E k \in 1 .. (i + 1) - 1 : s[k].type = "complete"
    BY <1>1, <1>3, <2>1, <2>2, <2>3 DEF OutOK
  <2>5. ASSUME NEW k \in 1 .. (i + 1) - 1, s[k].type = "complete"
        PROVE  host'[r].closed \/ \E m \in 1 .. i - 1 : t[m].type = "complete"
    <3>1. CASE k = 1
      BY <1>2, <1>3, <2>5, <3>1
    <3>2. CASE k > 1
      <4>1. k - 1 \in 1 .. i - 1 /\ k - 1 \in DOMAIN t /\ (k - 1) + 1 = k
        <5>1. DOMAIN s = 1 .. Len(s) /\ Len(s) \in Nat
          BY <1>1
        <5>2. k \in DOMAIN s
          BY <2>1, <5>1
        <5> QED BY <1>2, <2>1, <3>2, <5>2
      <4>2. t[k - 1].type = "complete"
        BY <1>2, <2>5, <4>1
      <4> QED BY <4>1, <4>2
    <3>3. k \in Nat /\ k >= 1
      BY <2>1
    <3> QED BY <3>1, <3>2, <3>3
  <2> QED BY <2>2, <2>4, <2>5 DEF SteersSeen
<1>9. runner'[r].closed /\ host'[r].client = "open" =>
        host'[r].closed \/ \E k \in DOMAIN t : t[k].type = "complete"
  <2> SUFFICES ASSUME runner[r].closed, host[r].client = "open", ~host'[r].closed
               PROVE  \E k \in DOMAIN t : t[k].type = "complete"
    BY DEF EndSaid
  <2>1. PICK k \in DOMAIN s : s[k].type = "complete"
    BY <1>1, <1>3 DEF OutOK
  <2>2. k # 1
    BY <1>2, <1>3, <2>1
  <2>3. k \in Nat /\ k - 1 \in DOMAIN t /\ (k - 1) + 1 = k
    BY <1>2, <2>2
  <2> QED BY <1>2, <2>1, <2>3
<1> QED BY <1>3, <1>6, <1>7, <1>8, <1>9 DEF OutOK, Once, Acked

LEMMA OutGrows ==
  ASSUME RunInv, NEW r \in Runs, NEW x \in Said, out'[r] = Append(out[r], x),
         Later(r), SteersSeen(r), registry' = r => registry = r,
         x.type = "ready" => /\ host'[r].ready = "no" /\ Booted(r)'
                             /\ \A i \in DOMAIN out[r] : out[r][i].type # "ready",
         x.type = "active" => /\ runner'[r].announced /\ registry' # r /\ stop'[r] = "no"
                              /\ \A i \in DOMAIN out[r] : out[r][i].type # "active",
         x.type = "complete" => runner'[r].closed,
         x.type = "ack" /\ x.accepted =>
           /\ steer'[x.steer].run = r /\ steer'[x.steer].runner \in {"handed", "idle", "late"}
           /\ steer'[x.steer].runner = "late" => runner[r].closed /\ host[r].client = "open",
         EndSaid(r) \/ x.type = "complete"
  PROVE  OutOK(r)'
<1> DEFINE s == out[r]
           t == Append(out[r], x)
           n == Len(out[r]) + 1
<1>1. /\ OutOK(r) /\ s \in Seq(Said)
      /\ \A i \in DOMAIN s : s[i].type = "ack" => s[i].steer \in Steers
  BY AcksKnown DEF RunOK
<1>2. /\ DOMAIN s \subseteq DOMAIN t /\ DOMAIN s \subseteq Nat
      /\ \A i \in DOMAIN s : i < n /\ 1 =< i /\ t[i] = s[i]
      /\ \A i \in DOMAIN t : i \in DOMAIN s \/ i = n
      /\ n \in DOMAIN t /\ t[n] = x /\ n \notin DOMAIN s /\ n \in Nat
  BY <1>1, Appended
<1>3. out'[r] = t /\ out[r] = s
  OBVIOUS
<1> HIDE DEF s, t, n
<1>4. ASSUME NEW type \in {"ready", "active"}
      PROVE  \A i, k \in DOMAIN t : t[i].type = type /\ t[k].type = type => i = k
  <2>1. \A i, k \in DOMAIN s : s[i].type = type /\ s[k].type = type => i = k
    BY <1>1, <1>3 DEF OutOK, Once
  <2>2. x.type = type => \A i \in DOMAIN s : s[i].type # type
    BY <1>3
  <2> QED BY <1>2, <2>1, <2>2
<1>5. /\ \A i, k \in DOMAIN t : t[i].type = "ready" /\ t[k].type = "ready" => i = k
      /\ \A i, k \in DOMAIN t : t[i].type = "active" /\ t[k].type = "active" => i = k
  BY <1>4
<1>6. ASSUME NEW i \in DOMAIN t
      PROVE  /\ t[i].type = "ready" => host'[r].ready = "no" /\ Booted(r)'
             /\ t[i].type = "active" =>
                  runner'[r].announced /\ registry' # r /\ stop'[r] = "no"
             /\ t[i].type = "complete" => runner'[r].closed
  <2>1. CASE i \in DOMAIN s
    BY <1>1, <1>2, <1>3, <2>1 DEF OutOK, Later
  <2>2. CASE i = n
    BY <1>2, <2>2
  <2> QED BY <1>2, <2>1, <2>2
<1>7. ASSUME NEW i \in DOMAIN t, t[i].type = "ack", t[i].accepted
      PROVE  LET z == steer'[t[i].steer] IN
             /\ z.run = r /\ z.runner \in {"handed", "idle", "late"}
             /\ z.runner = "late" => \/ host'[r].closed
                                     \/ \E k \in 1 .. i - 1 : t[k].type = "complete"
  <2>1. CASE i \in DOMAIN s
    <3>1. PICK q \in Steers : q = t[i].steer
      BY <1>1, <1>2, <1>7, <2>1
    <3>2. Acked(r, i)
      BY <1>2, <1>3, <1>7, <2>1 DEF Acked
    <3>3. /\ steer[q].run = r /\ steer[q].runner \in {"handed", "idle", "late"}
          /\ steer[q].runner = "late" =>
               host[r].closed \/ \E k \in 1 .. i - 1 : s[k].type = "complete"
      BY <1>1, <1>2, <1>3, <2>1, <3>1, <3>2 DEF OutOK
    <3>4. \A k \in 1 .. i - 1 : k \in DOMAIN s /\ t[k] = s[k]
      <4>1. DOMAIN s = 1 .. Len(s) /\ Len(s) \in Nat
        BY <1>1
      <4> QED BY <1>2, <2>1, <4>1
    <3> QED BY <3>1, <3>3, <3>4 DEF SteersSeen, Later
  <2>2. CASE i = n
    <3>1. /\ steer'[x.steer].run = r /\ steer'[x.steer].runner \in {"handed", "idle", "late"}
          /\ steer'[x.steer].runner = "late" => runner[r].closed /\ host[r].client = "open"
      BY <1>2, <1>7, <2>2
    <3>2. ASSUME runner[r].closed, host[r].client = "open"
          PROVE  host'[r].closed \/ \E k \in 1 .. i - 1 : t[k].type = "complete"
      <4>1. host[r].closed \/ \E k \in DOMAIN s : s[k].type = "complete"
        BY <1>1, <1>3, <3>2 DEF OutOK
      <4>2. \A k \in DOMAIN s : k \in 1 .. i - 1 /\ t[k] = s[k]
        BY <1>2, <2>2
      <4> QED BY <4>1, <4>2 DEF Later
    <3> QED BY <1>2, <2>2, <3>1, <3>2
  <2> QED BY <1>2, <2>1, <2>2
<1>8. runner'[r].closed /\ host'[r].client = "open" =>
        host'[r].closed \/ \E k \in DOMAIN t : t[k].type = "complete"
  <2>1. CASE x.type = "complete"
    BY <1>2, <2>1
  <2>2. CASE EndSaid(r)
    BY <1>1, <1>2, <1>3, <2>2 DEF OutOK, EndSaid, Later
  <2> QED BY <2>1, <2>2
<1> QED BY <1>3, <1>5, <1>6, <1>7, <1>8 DEF OutOK, Once, Acked

SteersUnseen(r) ==
  \A q \in Steers :
    steer[q].run = r /\ steer[q].runner = "no" => steer'[q].run = r /\ steer'[q].runner = "no"

LEMMA IntoStays ==
  ASSUME RunInv, NEW r \in Runs, into'[r] = into[r], SteersUnseen(r)
  PROVE  IntoOK(r)'
<1>1. /\ IntoOK(r)
      /\ \A i \in DOMAIN into[r] : into[r][i].type = "steer" => into[r][i].steer \in Steers
  BY AcksKnown DEF RunOK
<1>2. ASSUME NEW i \in DOMAIN into[r], into[r][i].type = "steer"
      PROVE  LET s == steer'[into[r][i].steer] IN s.run = r /\ s.runner = "no"
  <2>1. PICK q \in Steers : q = into[r][i].steer
    BY <1>1, <1>2
  <2>2. steer[q].run = r /\ steer[q].runner = "no"
    BY <1>1, <1>2, <2>1 DEF IntoOK
  <2> QED BY <2>1, <2>2 DEF SteersUnseen
<1> QED BY <1>1, <1>2 DEF IntoOK

(* The steps of one run *)
LEMMA OneRun ==
  ASSUME RunInv, Shape', NEW r \in Runs, RunOK(r)',
         \A k \in Runs \ {r} : Apart(k) /\ SteersKept(k),
         \A q \in Steers : SteerOK(q)'
  PROVE  RunInv'
<1>1. ASSUME NEW k \in Runs PROVE RunOK(k)'
  BY ApartKeeps
<1> QED BY <1>1 DEF RunInv

LEMMA SameSteers ==
  ASSUME RunInv, UNCHANGED steer
  PROVE  /\ \A k \in Runs : SteersKept(k) /\ SteersSeen(k) /\ SteersUnseen(k)
         /\ \A q \in Steers : SteerOK(q)'
BY DEF RunInv, SteersKept, SteersSeen, SteersUnseen, SteerOK

LEMMA FailedSteers ==
  ASSUME RunInv, NEW r \in Runs, steer' = Failed(r)
  PROVE  /\ steer' \in [Steers -> Instruction]
         /\ \A k \in Runs : SteersKept(k) /\ SteersSeen(k) /\ SteersUnseen(k)
         /\ \A q \in Steers : SteerOK(q)'
         /\ \A q \in Steers : steer'[q].run = r => steer'[q].asked # "pending"
<1>1. ASSUME NEW q \in Steers
      PROVE  /\ steer'[q] \in Instruction
             /\ steer'[q].run = steer[q].run /\ steer'[q].runner = steer[q].runner
             /\ steer'[q].asked \in {steer[q].asked, "failed"}
             /\ steer[q].run = r => steer'[q].asked # "pending"
             /\ steer[q].asked = "no" <=> steer'[q].asked = "no"
  <2>1. steer[q] \in Instruction
    BY DEF RunInv, Shape
  <2>2. CASE steer[q].run = r /\ steer[q].asked = "pending"
    <3>1. steer'[q] = [steer[q] EXCEPT !.asked = "failed"]
      BY <2>2 DEF Failed
    <3> QED BY <2>1, <2>2, <3>1 DEF Instruction
  <2>3. CASE ~(steer[q].run = r /\ steer[q].asked = "pending")
    <3>1. steer'[q] = steer[q]
      BY <2>3 DEF Failed
    <3> QED BY <2>1, <2>3, <3>1
  <2> QED BY <2>2, <2>3
<1>2. DOMAIN steer' = Steers /\ steer' = [q \in Steers |-> steer'[q]]
  BY DEF Failed
<1>3. steer' \in [Steers -> Instruction]
  BY <1>1, <1>2
<1>4. \A q \in Steers : SteerOK(q)
  BY DEF RunInv
<1>5. \A q \in Steers : SteerOK(q)'
  BY <1>1, <1>4 DEF SteerOK
<1> QED BY <1>1, <1>3, <1>5 DEF SteersKept, SteersSeen, SteersUnseen

-----------------------------------------------------------------------------
(* Steps that close the control channel *)

LEMMA ClosedPromise ==
  ASSUME RunInv, NEW r \in Runs, NEW h \in Promise, CloseControl(r, h)
  PROVE  /\ host' \in [Runs -> Promise]
         /\ \A k \in Runs \ {r} : host'[k] = host[k]
         /\ host'[r].closed /\ host'[r].finished
         /\ host'[r].client = h.client /\ host'[r].ready = h.ready
         /\ host'[r].cleanup = h.cleanup /\ host'[r].stopRequested = h.stopRequested
         /\ host'[r].killing = h.killing /\ host'[r].outcome = h.outcome
         /\ registry' \in {0, registry} \ {r}
<1> DEFINE g == [[h EXCEPT !.closed = TRUE] EXCEPT !.finished = TRUE]
<1>1. host \in [Runs -> Promise]
  BY DEF RunInv, Shape
<1>2. g \in Promise /\ g.closed /\ g.finished /\ g.client = h.client /\ g.ready = h.ready
      /\ g.cleanup = h.cleanup /\ g.stopRequested = h.stopRequested
      /\ g.killing = h.killing /\ g.outcome = h.outcome
  BY DEF Promise
<1>3. host' = [host EXCEPT ![r] = g]
  BY DEF CloseControl
<1> HIDE DEF g
<1>4. registry' \in {0, registry} \ {r}
  BY RunNumbers DEF CloseControl, Unregister
<1> QED BY <1>1, <1>2, <1>3, <1>4

(* The run may be closed at any time; the client may be killed and a row   *)
(* that was not marked is given up.                                        *)
LEMMA ClosingKeeps ==
  ASSUME RunInv, NEW r \in Runs, NEW h \in Promise, CloseControl(r, h),
         UNCHANGED <<into, stop>>,
         runner' \in [Runs -> Container], \A k \in Runs \ {r} : runner'[k] = runner[k],
         runner'[r] = runner[r] \/ runner'[r] = [runner[r] EXCEPT !.stage = "gone"],
         \/ UNCHANGED out
         \/ /\ out[r] # <<>> /\ out' = [out EXCEPT ![r] = Tail(@)]
            /\ runner'[r] = runner[r] /\ Head(out[r]).type # "ready"
            /\ h.ready = host[r].ready,
         host[r].client # "none", h.client \in {host[r].client, "killed"},
         \/ h.ready = host[r].ready
         \/ host[r].ready = "marking" /\ h.ready = "dropped",
         h.stopRequested = host[r].stopRequested,
         h.killing = "no" => host[r].killing = "no",
         h.client = "killed" /\ ~h.cleanup => host[r].client = "killed" /\ ~host[r].cleanup,
         stop[r] # "no" /\ h.killing = "no" => h.outcome \in {"none", "failed"},
         stop[r] = "grace" /\ h.killing = "no" => runner'[r].stage \in {"closing", "gone"}
  PROVE  RunInv'
<1>1. /\ RunOK(r) /\ runner[r] \in Container /\ out \in [Runs -> Seq(Said)]
      /\ registry \in {0} \cup Runs
  BY DEF RunInv, Shape
<1>2. steer' = Failed(r)
  BY DEF CloseControl
<1>3. /\ runner'[r].stage \in {runner[r].stage, "gone"}
      /\ runner'[r].announced = runner[r].announced /\ runner'[r].closed = runner[r].closed
  BY <1>1 DEF Container
<1>4. Shape'
  <2>1. out' \in [Runs -> Seq(Said)]
    <3>1. ASSUME out[r] # <<>> PROVE Tail(out[r]) \in Seq(Said)
      <4>1. out[r] \in Seq(Said)
        BY <1>1
      <4> QED BY <3>1, <4>1
    <3> QED BY <1>1, <3>1
  <2>2. host' \in [Runs -> Promise] /\ registry' \in {0} \cup Runs
    BY <1>1, ClosedPromise
  <2> QED BY <1>2, <2>1, <2>2, FailedSteers DEF RunInv, Shape
<1>5. Booted(r) => Booted(r)'
  BY <1>3 DEF Booted
<1>6. StartOK(r)'
  BY <1>1, <1>3, ClosedPromise DEF RunOK, StartOK, Working, Booted
<1>7. ControlOK(r)'
  BY <1>1, <1>2, ClosedPromise, FailedSteers DEF RunOK, ControlOK, Settled
<1>8. StopOK(r)'
  BY <1>1, <1>3, ClosedPromise DEF RunOK, StopOK
<1>9. SteersSeen(r) /\ SteersUnseen(r) /\ EndSaid(r) /\ host'[r].closed
  BY <1>2, FailedSteers, ClosedPromise DEF EndSaid
<1>10. registry' # r
  BY ClosedPromise
<1>11. OutOK(r)'
  <2>1. CASE UNCHANGED out
    <3>1. host[r].ready = "no" => host'[r].ready = "no"
      BY ClosedPromise
    <3>2. Later(r)
      BY <1>3, <1>5, <1>9, <3>1 DEF Later
    <3> QED BY <1>9, <1>10, <2>1, <3>2, OutStays
  <2>2. CASE /\ out[r] # <<>> /\ out' = [out EXCEPT ![r] = Tail(@)]
             /\ runner'[r] = runner[r] /\ Head(out[r]).type # "ready"
             /\ h.ready = host[r].ready
    <3>1. out'[r] = Tail(out[r])
      BY <1>1, <2>2
    <3>2. host'[r].ready = host[r].ready
      BY <2>2, ClosedPromise
    <3> QED BY <1>5, <1>9, <1>10, <2>2, <3>1, <3>2, OutShrinks
  <2> QED BY <2>1, <2>2
<1>12. IntoOK(r)'
  BY <1>9, IntoStays
<1>13. \A k \in Runs \ {r} : Apart(k)
  BY <1>1, ClosedPromise, RunNumbers DEF Apart
<1> QED BY <1>2, <1>4, <1>6, <1>7, <1>8, <1>11, <1>12, <1>13, FailedSteers, OneRun DEF RunOK

LEMMA SpawnErrorKeeps ==
  ASSUME RunInv, NEW r \in Runs, SpawnError(r)
  PROVE  RunInv'
<1> DEFINE h == [[[host[r] EXCEPT !.client = "killed"] EXCEPT !.cleanup = TRUE]
                          EXCEPT !.outcome = "failed"]
<1>1. /\ host[r] \in Promise /\ runner \in [Runs -> Container]
  BY DEF RunInv, Shape
<1>2. /\ h \in Promise /\ h.client = "killed" /\ h.cleanup /\ h.outcome = "failed"
      /\ h.ready = host[r].ready /\ h.stopRequested = host[r].stopRequested
      /\ h.killing = host[r].killing
  BY <1>1 DEF Promise, Outcomes
<1>3. /\ CloseControl(r, h) /\ UNCHANGED <<out, into, stop>> /\ host[r].client # "none"
      /\ runner' = [runner EXCEPT ![r].stage = "gone"]
  BY DEF SpawnError
<1> HIDE DEF h
<1>4. /\ runner' \in [Runs -> Container]
      /\ \A k \in Runs \ {r} : runner'[k] = runner[k]
      /\ runner'[r] = [runner[r] EXCEPT !.stage = "gone"] /\ runner'[r].stage = "gone"
  BY <1>1, <1>3 DEF Container, Stages
<1> QED BY <1>1, <1>2, <1>3, <1>4, ClosingKeeps

LEMMA MarkGivesUp ==
  ASSUME RunInv, NEW r \in Runs, MarkFails(r), ~host[r].cleanup
  PROVE  RunInv'
<1> DEFINE h == [KillClient(host[r]) EXCEPT !.ready = "dropped", !.cleanup = TRUE,
                                            !.killing = "start"]
<1>1. host[r] \in Promise /\ runner \in [Runs -> Container] /\ StartOK(r)
  BY DEF RunInv, Shape, RunOK
<1>2. /\ h \in Promise /\ h.client = "killed" /\ h.cleanup /\ h.killing = "start"
      /\ h.ready = "dropped" /\ h.stopRequested = host[r].stopRequested
  BY <1>1 DEF Promise, KillClient
<1>3. CloseControl(r, h) /\ UNCHANGED <<runner, out, into, stop>> /\ host[r].ready = "marking"
  BY DEF MarkFails
<1> HIDE DEF h
<1>4. host[r].client # "none"
  BY <1>1, <1>3 DEF StartOK, Working, Booted
<1> QED BY <1>1, <1>2, <1>3, <1>4, ClosingKeeps

LEMMA CancelKeeps ==
  ASSUME RunInv, NEW r \in Runs, Cancel(r)
  PROVE  RunInv'
<1> DEFINE h == [KillClient(host[r]) EXCEPT !.cleanup = TRUE, !.killing = "cancel"]
<1>1. host[r] \in Promise /\ runner \in [Runs -> Container]
  BY DEF RunInv, Shape
<1>2. /\ h \in Promise /\ h.client = "killed" /\ h.cleanup /\ h.killing = "cancel"
      /\ h.ready = host[r].ready /\ h.stopRequested = host[r].stopRequested
  BY <1>1 DEF Promise, KillClient
<1>3. /\ CloseControl(r, h) /\ UNCHANGED <<runner, out, into, stop>>
      /\ host[r].client # "none"
  BY DEF Cancel
<1> HIDE DEF h
<1> QED BY <1>1, <1>2, <1>3, ClosingKeeps

LEMMA ReapKeeps ==
  ASSUME RunInv, NEW r \in Runs, Reap(r)
  PROVE  RunInv'
<1>1. host[r] \in Promise /\ runner \in [Runs -> Container] /\ StartOK(r)
  BY DEF RunInv, Shape, RunOK
<1>2. PICK v \in {"failed", "retry"} :
        /\ CloseControl(r, [host[r] EXCEPT !.outcome = v])
        /\ runner' = Stopped(r) \/ UNCHANGED runner
  BY DEF Reap
<1> DEFINE h == [host[r] EXCEPT !.outcome = v]
<1>3. /\ h \in Promise /\ h.client = host[r].client /\ h.cleanup = host[r].cleanup
      /\ h.killing = host[r].killing /\ h.ready = host[r].ready
      /\ h.stopRequested = host[r].stopRequested
  BY <1>1 DEF Promise, Outcomes
<1>4. CloseControl(r, h) /\ UNCHANGED <<out, into, stop>> /\ host[r].killing # "no"
  BY <1>2 DEF Reap
<1> HIDE DEF h
<1>5. host[r].client # "none"
  BY <1>1, <1>4 DEF StartOK, Working
<1>6. CASE UNCHANGED runner
  BY <1>1, <1>3, <1>4, <1>5, <1>6, ClosingKeeps
<1>7. CASE runner' = Stopped(r)
  <2>1. /\ runner' \in [Runs -> Container]
        /\ \A k \in Runs \ {r} : runner'[k] = runner[k]
        /\ runner'[r] = [runner[r] EXCEPT !.stage = "gone"]
    BY <1>1, <1>7 DEF Container, Stages, Stopped
  <2> QED BY <1>1, <1>3, <1>4, <1>5, <2>1, ClosingKeeps
<1> QED BY <1>2, <1>6, <1>7

LEMMA CloseKeeps ==
  ASSUME RunInv, NEW r \in Runs, Close(r)
  PROVE  RunInv'
<1> DEFINE h == [host[r] EXCEPT !.cleanup = TRUE, !.outcome = Verdict(r)]
<1>1. /\ host[r] \in Promise /\ runner \in [Runs -> Container] /\ runner[r] \in Container
      /\ StartOK(r) /\ StopOK(r)
  BY DEF RunInv, Shape, RunOK
<1>2. /\ CloseControl(r, h) /\ UNCHANGED <<runner, out, into, stop>>
      /\ host[r].client # "none" /\ ~host[r].cleanup
      /\ host[r].client = "killed" \/ runner[r].stage = "gone"
  BY DEF Close
<1>3. stop[r] # "no" => Verdict(r) = "failed"
  BY <1>1 DEF StartOK, Working, StopOK, Verdict
<1>4. Verdict(r) \in {"none"} \cup Outcomes
  BY <1>1 DEF Verdict, Container, Exits, Outcomes
<1>5. /\ h \in Promise /\ h.client = host[r].client /\ h.cleanup
      /\ h.killing = host[r].killing /\ h.ready = host[r].ready
      /\ h.stopRequested = host[r].stopRequested /\ h.outcome = Verdict(r)
  BY <1>1, <1>4 DEF Promise
<1> HIDE DEF h
<1>6. stop[r] = "grace" => runner[r].stage = "gone"
  BY <1>1, <1>2 DEF StopOK
<1>7. stop[r] # "no" /\ h.killing = "no" => h.outcome \in {"none", "failed"}
  BY <1>3, <1>5
<1> QED BY <1>1, <1>2, <1>5, <1>6, <1>7, ClosingKeeps

LEMMA PayloadLostKeeps ==
  ASSUME RunInv, NEW r \in Runs, PayloadLost(r)
  PROVE  RunInv'
<1> DEFINE h == [host[r] EXCEPT !.cleanup = TRUE, !.outcome = "failed"]
<1>1. /\ host[r] \in Promise /\ runner \in [Runs -> Container] /\ runner[r] \in Container
      /\ StartOK(r) /\ StopOK(r)
  BY DEF RunInv, Shape, RunOK
<1>2. /\ CloseControl(r, h) /\ UNCHANGED <<runner, out, into, stop>>
      /\ ~host[r].cleanup /\ into[r] # <<>>
      /\ host[r].client = "killed" \/ runner[r].stage = "gone"
  BY DEF PayloadLost
<1>3. host[r].client # "none"
  BY <1>1, <1>2 DEF StartOK, Working
<1>4. /\ h \in Promise /\ h.client = host[r].client /\ h.cleanup
      /\ h.killing = host[r].killing /\ h.ready = host[r].ready
      /\ h.stopRequested = host[r].stopRequested /\ h.outcome = "failed"
  BY <1>1 DEF Promise, Outcomes
<1> HIDE DEF h
<1>5. stop[r] = "grace" => runner[r].stage = "gone"
  BY <1>1, <1>2 DEF StopOK
<1> QED BY <1>1, <1>2, <1>3, <1>4, <1>5, ClosingKeeps

(* The end of the loop, or a second run that announces itself, is read.    *)
LEMMA LineCloses ==
  ASSUME RunInv, NEW r \in Runs, out[r] # <<>>, out' = [out EXCEPT ![r] = Tail(@)],
         UNCHANGED <<runner, into, stop>>, CloseControl(r, host[r]),
         \/ Head(out[r]).type = "complete"
         \/ Head(out[r]).type = "active"
  PROVE  RunInv'
<1>1. /\ host[r] \in Promise /\ runner \in [Runs -> Container]
      /\ RunOK(r) /\ out[r] \in Seq(Said)
  BY DEF RunInv, Shape
<1>2. 1 \in DOMAIN out[r] /\ out[r][1] = Head(out[r])
  BY <1>1, TakenOff
<1>3. \/ runner[r].closed
      \/ runner[r].announced /\ stop[r] = "no"
  BY <1>1, <1>2 DEF RunOK, OutOK
<1>4. stop[r] # "no" => runner[r].stage \in {"closing", "gone"}
  BY <1>1, <1>3 DEF RunOK, StartOK, Working
<1>5. host[r].client # "none"
  BY <1>1, <1>3 DEF RunOK, StartOK, Working, Booted
<1>6. stop[r] # "no" /\ host[r].killing = "no" => host[r].outcome \in {"none", "failed"}
  BY <1>1 DEF RunOK, StopOK
<1> QED BY <1>1, <1>4, <1>5, <1>6, ClosingKeeps

-----------------------------------------------------------------------------
(* The other steps of the host *)

LEMMA LineRegisters ==
  ASSUME RunInv, NEW r \in Runs, out[r] # <<>>, out' = [out EXCEPT ![r] = Tail(@)],
         UNCHANGED <<runner, into, stop, host, steer>>, Head(out[r]).type = "active",
         registry' = registry \/ (registry' = r /\ ~host[r].closed)
  PROVE  RunInv'
<1>1. /\ RunOK(r) /\ out[r] \in Seq(Said) /\ out \in [Runs -> Seq(Said)]
  BY DEF RunInv, Shape
<1>2. 1 \in DOMAIN out[r] /\ out[r][1] = Head(out[r]) /\ Tail(out[r]) \in Seq(Said)
  BY <1>1, TakenOff
<1>3. Shape'
  BY <1>1, <1>2 DEF RunInv, Shape
<1>4. runner[r].announced
  BY <1>1, <1>2 DEF RunOK, OutOK
<1>5. StartOK(r)' /\ ControlOK(r)' /\ StopOK(r)'
  BY <1>1, <1>4 DEF RunOK, StartOK, Working, Booted, ControlOK, Settled, StopOK
<1>6. SteersSeen(r) /\ SteersUnseen(r) /\ EndSaid(r)
  BY SameSteers DEF EndSaid
<1>7. out'[r] = Tail(out[r])
  BY <1>1
<1>8. OutOK(r)'
  BY <1>6, <1>7, OutShrinks DEF Booted
<1>9. IntoOK(r)'
  BY <1>6, IntoStays
<1>10. \A k \in Runs \ {r} : Apart(k) /\ SteersKept(k)
  BY <1>1, SameSteers DEF Apart
<1> QED BY <1>3, <1>5, <1>8, <1>9, <1>10, SameSteers, OneRun DEF RunOK

LEMMA LineAcks ==
  ASSUME RunInv, NEW r \in Runs, out[r] # <<>>, out' = [out EXCEPT ![r] = Tail(@)],
         UNCHANGED <<runner, into, stop, host, registry>>, Head(out[r]).type = "ack",
         LET line == Head(out[r]) IN
         steer' = [steer EXCEPT ![line.steer].asked =
                     IF @ # "pending" THEN @
                     ELSE IF line.accepted THEN "accepted" ELSE "refused"]
  PROVE  RunInv'
<1>1. /\ RunOK(r) /\ out[r] \in Seq(Said) /\ out \in [Runs -> Seq(Said)]
      /\ steer \in [Steers -> Instruction]
  BY DEF RunInv, Shape
<1>2. /\ 1 \in DOMAIN out[r] /\ out[r][1] = Head(out[r]) /\ Tail(out[r]) \in Seq(Said)
  BY <1>1, TakenOff
<1>3. PICK q \in Steers : q = Head(out[r]).steer
  BY <1>2, AcksKnown
<1> DEFINE a == IF steer[q].asked # "pending" THEN steer[q].asked
                ELSE IF Head(out[r]).accepted THEN "accepted" ELSE "refused"
<1>4. steer' = [steer EXCEPT ![q] = [steer[q] EXCEPT !.asked = a]]
  BY <1>1, <1>3
<1>5. /\ a \in {"no", "accepted", "refused", "failed"}
      /\ a = "no" => steer[q].asked = "no"
      /\ steer[q].asked # "pending" => a = steer[q].asked
      /\ a = "accepted" /\ steer[q].asked # "accepted" =>
           steer[q].asked = "pending" /\ Head(out[r]).accepted
  BY <1>1 DEF Instruction
<1> HIDE DEF a
<1>6. a = "accepted" => steer[q].runner \in {"handed", "idle"}
  <2> SUFFICES ASSUME a = "accepted" PROVE steer[q].runner \in {"handed", "idle"}
    OBVIOUS
  <2>1. CASE steer[q].asked = "accepted"
    BY <2>1 DEF RunInv, SteerOK
  <2>2. CASE steer[q].asked = "pending" /\ Head(out[r]).accepted
    <3>1. Acked(r, 1)
      BY <1>2, <2>2 DEF Acked
    <3>2. /\ steer[q].run = r /\ steer[q].runner \in {"handed", "idle", "late"}
          /\ steer[q].runner = "late" =>
               host[r].closed \/ \E k \in 1 .. 1 - 1 : out[r][k].type = "complete"
      BY <1>1, <1>2, <1>3, <3>1 DEF RunOK, OutOK
    <3>3. ~host[r].closed
      BY <1>1, <2>2, <3>2 DEF RunOK, ControlOK
    <3> QED BY <3>2, <3>3
  <2> QED BY <1>5, <2>1, <2>2
<1>7. ASSUME NEW p \in Steers
      PROVE  /\ steer'[p] \in Instruction /\ steer'[p].run = steer[p].run
             /\ steer'[p].runner = steer[p].runner
             /\ steer'[p].asked = "pending" => steer[p].asked = "pending"
             /\ SteerOK(p)'
  <2>1. steer[p] \in Instruction /\ SteerOK(p)
    BY DEF RunInv, Shape
  <2>2. CASE p = q
    <3>1. steer'[p] = [steer[p] EXCEPT !.asked = a]
      BY <1>1, <1>4, <2>2
    <3> QED BY <1>5, <1>6, <2>1, <2>2, <3>1 DEF Instruction, SteerOK
  <2>3. CASE p # q
    <3>1. steer'[p] = steer[p]
      BY <1>1, <1>4, <2>3
    <3> QED BY <2>1, <3>1 DEF SteerOK
  <2> QED BY <2>2, <2>3
<1>8. Shape'
  <2>1. steer' \in [Steers -> Instruction]
    BY <1>1, <1>4, <1>7
  <2>2. out' \in [Runs -> Seq(Said)]
    BY <1>1, <1>2
  <2> QED BY <2>1, <2>2 DEF RunInv, Shape
<1>9. StartOK(r)' /\ ControlOK(r)' /\ StopOK(r)'
  BY <1>1, <1>7 DEF RunOK, StartOK, Working, Booted, ControlOK, Settled, StopOK
<1>10. SteersSeen(r) /\ SteersUnseen(r) /\ EndSaid(r)
  BY <1>7 DEF SteersSeen, SteersUnseen, EndSaid
<1>11. out'[r] = Tail(out[r])
  BY <1>1
<1>12. OutOK(r)'
  BY <1>10, <1>11, OutShrinks DEF Booted
<1>13. IntoOK(r)'
  BY <1>10, IntoStays
<1>14. \A k \in Runs \ {r} : Apart(k) /\ SteersKept(k)
  BY <1>1, <1>7 DEF Apart, SteersKept
<1> QED BY <1>7, <1>8, <1>9, <1>12, <1>13, <1>14, OneRun DEF RunOK

LEMMA LineReady ==
  ASSUME RunInv, NEW r \in Runs, out[r] # <<>>, out' = [out EXCEPT ![r] = Tail(@)],
         UNCHANGED <<runner, into, stop, registry, steer>>, Head(out[r]).type = "ready",
         host' = [host EXCEPT ![r].ready = "marking"]
  PROVE  RunInv'
<1>1. /\ RunOK(r) /\ out[r] \in Seq(Said) /\ out \in [Runs -> Seq(Said)]
      /\ host[r] \in Promise /\ host \in [Runs -> Promise]
  BY DEF RunInv, Shape
<1>2. /\ 1 \in DOMAIN out[r] /\ out[r][1] = Head(out[r]) /\ Tail(out[r]) \in Seq(Said)
  BY <1>1, TakenOff
<1> DEFINE h == [host[r] EXCEPT !.ready = "marking"]
<1>3. /\ h \in Promise /\ h.ready = "marking" /\ h.client = host[r].client
      /\ h.closed = host[r].closed /\ h.finished = host[r].finished
      /\ h.cleanup = host[r].cleanup /\ h.stopRequested = host[r].stopRequested
      /\ h.killing = host[r].killing /\ h.outcome = host[r].outcome
  BY <1>1 DEF Promise
<1>4. host' = [host EXCEPT ![r] = h]
  OBVIOUS
<1> HIDE DEF h
<1>5. host'[r] = h /\ \A k \in Runs \ {r} : host'[k] = host[k]
  BY <1>1, <1>4
<1>6. Shape'
  BY <1>1, <1>2, <1>3, <1>4 DEF RunInv, Shape
<1>7. host[r].ready = "no" /\ Booted(r)
  BY <1>1, <1>2 DEF RunOK, OutOK
<1>8. StartOK(r)' /\ ControlOK(r)' /\ StopOK(r)'
  BY <1>1, <1>3, <1>5, <1>7
     DEF RunOK, StartOK, Working, Booted, ControlOK, Settled, StopOK
<1>9. SteersSeen(r) /\ SteersUnseen(r) /\ EndSaid(r)
  BY <1>3, <1>5, SameSteers DEF EndSaid
<1>10. out'[r] = Tail(out[r])
  BY <1>1
<1>11. OutOK(r)'
  BY <1>3, <1>5, <1>9, <1>10, OutShrinks DEF Booted
<1>12. IntoOK(r)'
  BY <1>9, IntoStays
<1>13. \A k \in Runs \ {r} : Apart(k) /\ SteersKept(k)
  BY <1>1, <1>5, SameSteers DEF Apart
<1> QED BY <1>6, <1>8, <1>11, <1>12, <1>13, SameSteers, OneRun DEF RunOK

LEMMA ReadLineKeeps ==
  ASSUME RunInv, NEW r \in Runs, ReadLine(r)
  PROVE  RunInv'
<1>1. /\ out[r] # <<>> /\ out' = [out EXCEPT ![r] = Tail(@)]
      /\ UNCHANGED <<runner, into, stop>>
  BY DEF ReadLine
<1>2. CASE Head(out[r]).type = "ready"
  <2>1. host' = [host EXCEPT ![r].ready = "marking"] /\ UNCHANGED <<registry, steer>>
    BY <1>2 DEF ReadLine
  <2> QED BY <1>1, <1>2, <2>1, LineReady
<1>3. CASE Head(out[r]).type = "ack"
  <2>1. /\ UNCHANGED <<host, registry>>
        /\ LET line == Head(out[r]) IN
           steer' = [steer EXCEPT ![line.steer].asked =
                       IF @ # "pending" THEN @
                       ELSE IF line.accepted THEN "accepted" ELSE "refused"]
    BY <1>3 DEF ReadLine
  <2> QED BY <1>1, <1>3, <2>1, LineAcks
<1>4. CASE Head(out[r]).type = "complete"
  <2>1. CloseControl(r, host[r])
    BY <1>4 DEF ReadLine
  <2> QED BY <1>1, <1>4, <2>1, LineCloses
<1>5. CASE Head(out[r]).type = "active"
  <2>1. \/ CloseControl(r, host[r])
        \/ /\ UNCHANGED <<host, steer>>
           /\ registry' = registry \/ (registry' = r /\ ~host[r].closed)
    BY <1>5 DEF ReadLine, MayRegister
  <2> QED BY <1>1, <1>5, <2>1, LineCloses, LineRegisters
<1> QED BY <1>2, <1>3, <1>4, <1>5 DEF ReadLine

(* Steps without lines: h, c and z are the promise, the container and the  *)
(* /stop of the run after the step.                                        *)
Still(r, h, c, z) ==
  /\ h \in Promise /\ c \in Container /\ z \in Stops
  /\ host' = [host EXCEPT ![r] = h] /\ runner' = [runner EXCEPT ![r] = c]
  /\ stop' = [stop EXCEPT ![r] = z] /\ UNCHANGED <<out, into, registry, steer>>
  /\ h.closed = host[r].closed /\ h.finished = host[r].finished
  /\ h.outcome = host[r].outcome
  /\ host[r].ready = "no" => h.ready = "no"
  /\ Booted(r) => c.stage \notin {"none", "booting"}
  /\ c.announced = runner[r].announced /\ c.closed = runner[r].closed
  /\ stop[r] = "no" => z = "no"
  /\ c.closed /\ h.client = "open" => host[r].client = "open"

LEMMA StillKeeps ==
  ASSUME RunInv, NEW r \in Runs, NEW h, NEW c, NEW z, Still(r, h, c, z),
         StartOK(r)', StopOK(r)'
  PROVE  RunInv'
<1>1. /\ RunOK(r) /\ host \in [Runs -> Promise] /\ runner \in [Runs -> Container]
      /\ stop \in [Runs -> Stops]
  BY DEF RunInv, Shape
<1>2. /\ host'[r] = h /\ runner'[r] = c /\ stop'[r] = z
      /\ \A k \in Runs \ {r} :
           host'[k] = host[k] /\ runner'[k] = runner[k] /\ stop'[k] = stop[k]
  BY <1>1 DEF Still
<1>3. Shape'
  BY <1>1 DEF RunInv, Shape, Still
<1>4. ControlOK(r)'
  BY <1>1, <1>2 DEF RunOK, ControlOK, Settled, Still
<1>5. Later(r) /\ EndSaid(r)
  BY <1>2 DEF Later, EndSaid, Booted, Still
<1>6. SteersSeen(r) /\ SteersUnseen(r)
  BY SameSteers DEF Still
<1>7. OutOK(r)' /\ IntoOK(r)'
  BY <1>5, <1>6, OutStays, IntoStays DEF Still
<1>8. \A k \in Runs \ {r} : Apart(k) /\ SteersKept(k)
  BY <1>2, SameSteers DEF Apart, Still
<1> QED BY <1>3, <1>4, <1>7, <1>8, SameSteers, OneRun DEF RunOK, Still

LEMMA Same ==
  ASSUME RunInv, NEW r \in Runs
  PROVE  /\ host[r] \in Promise /\ runner[r] \in Container /\ stop[r] \in Stops
         /\ UNCHANGED host => host' = [host EXCEPT ![r] = host[r]]
         /\ UNCHANGED runner => runner' = [runner EXCEPT ![r] = runner[r]]
         /\ UNCHANGED stop => stop' = [stop EXCEPT ![r] = stop[r]]
         /\ DOMAIN host = Runs /\ DOMAIN runner = Runs /\ DOMAIN stop = Runs
         /\ StartOK(r) /\ ControlOK(r) /\ StopOK(r)
BY DEF RunInv, Shape, RunOK

LEMMA StartKeeps ==
  ASSUME RunInv, NEW r \in Runs, Start(r)
  PROVE  RunInv'
<1> DEFINE h == [host[r] EXCEPT !.client = "open"]
           c == [runner[r] EXCEPT !.stage = "booting"]
<1>1. /\ host' = [host EXCEPT ![r] = h] /\ runner' = [runner EXCEPT ![r] = c]
      /\ UNCHANGED <<out, into, registry, steer, stop>> /\ host[r].client = "none"
  BY DEF Start
<1>2. /\ h \in Promise /\ h.client = "open" /\ h.ready = host[r].ready
      /\ h.closed = host[r].closed /\ h.finished = host[r].finished
      /\ h.outcome = host[r].outcome /\ h.killing = host[r].killing
      /\ h.stopRequested = host[r].stopRequested
  BY Same DEF Promise
<1>3. /\ c \in Container /\ c.stage = "booting" /\ c.announced = runner[r].announced
      /\ c.closed = runner[r].closed
  BY Same DEF Container, Stages
<1> HIDE DEF h, c
<1>4. host'[r] = h /\ runner'[r] = c
  BY <1>1, Same
<1>5. /\ host[r].ready = "no" /\ ~runner[r].announced /\ into[r] = <<>>
      /\ ~runner[r].closed /\ runner[r].stage = "none" /\ host[r].killing = "no"
  BY <1>1, Same DEF StartOK, Booted
<1>6. stop[r] = "no"
  BY <1>5, Same DEF StopOK
<1>7. StartOK(r)' /\ StopOK(r)'
  BY <1>1, <1>2, <1>3, <1>4, <1>5, <1>6 DEF StartOK, Working, Booted, StopOK
<1>8. ~Booted(r)
  BY <1>5 DEF Booted
<1>9. Still(r, h, c, stop[r])
  BY <1>1, <1>2, <1>3, <1>5, <1>6, <1>7, <1>8, Same DEF Still
<1> QED BY <1>7, <1>9, StillKeeps

LEMMA Unmoved ==
  ASSUME RunInv, NEW r \in Runs
  PROVE  /\ Booted(r) => runner[r].stage \notin {"none", "booting"}
         /\ UNCHANGED runner => runner' = [runner EXCEPT ![r] = runner[r]]
         /\ UNCHANGED stop => stop' = [stop EXCEPT ![r] = stop[r]]
         /\ UNCHANGED host => host' = [host EXCEPT ![r] = host[r]]
BY Same DEF Booted

LEMMA TimeoutKeeps ==
  ASSUME RunInv, NEW r \in Runs, Timeout(r)
  PROVE  RunInv'
<1>0. StartOK(r) /\ StopOK(r)
  BY Same
<1> DEFINE h == [KillClient(host[r]) EXCEPT !.cleanup = TRUE, !.killing = "timeout"]
<1>1. /\ host' = [host EXCEPT ![r] = h] /\ UNCHANGED <<runner, out, into, registry, steer, stop>>
      /\ host[r].client # "none"
  BY DEF Timeout
<1>2. /\ h \in Promise /\ h.client = "killed" /\ h.ready = host[r].ready /\ h.cleanup
      /\ h.closed = host[r].closed /\ h.finished = host[r].finished
      /\ h.outcome = host[r].outcome /\ h.killing = "timeout"
      /\ h.stopRequested = host[r].stopRequested
  BY Same DEF Promise, KillClient
<1> HIDE DEF h
<1>3. host'[r] = h
  BY <1>1, Same
<1>4. StartOK(r)' /\ StopOK(r)'
  BY <1>0, <1>1, <1>2, <1>3 DEF StartOK, Working, Booted, StopOK
<1>9. Still(r, h, runner[r], stop[r])
  BY <1>1, <1>2, <1>4, Same, Unmoved DEF Still
<1> QED BY <1>4, <1>9, StillKeeps

LEMMA MarkDropped ==
  ASSUME RunInv, NEW r \in Runs, host[r].ready = "marking",
         host' = [host EXCEPT ![r].ready = "dropped"],
         UNCHANGED <<runner, out, into, registry, steer, stop>>
  PROVE  RunInv'
<1>0. StartOK(r) /\ StopOK(r)
  BY Same
<1> DEFINE h == [host[r] EXCEPT !.ready = "dropped"]
<1>1. host' = [host EXCEPT ![r] = h]
  OBVIOUS
<1>2. /\ h \in Promise /\ h.client = host[r].client /\ h.ready = "dropped"
      /\ h.closed = host[r].closed /\ h.finished = host[r].finished
      /\ h.cleanup = host[r].cleanup
      /\ h.outcome = host[r].outcome /\ h.killing = host[r].killing
      /\ h.stopRequested = host[r].stopRequested
  BY Same DEF Promise
<1> HIDE DEF h
<1>3. host'[r] = h
  BY <1>1, Same
<1>4. StartOK(r)' /\ StopOK(r)'
  BY <1>0, <1>1, <1>2, <1>3 DEF StartOK, Working, Booted, StopOK
<1>9. Still(r, h, runner[r], stop[r])
  BY <1>1, <1>2, <1>4, Same, Unmoved DEF Still
<1> QED BY <1>4, <1>9, StillKeeps

LEMMA MarkFailsKeeps ==
  ASSUME RunInv, NEW r \in Runs, MarkFails(r)
  PROVE  RunInv'
<1>1. CASE host[r].cleanup
  BY <1>1, MarkDropped DEF MarkFails
<1> QED BY <1>1, MarkGivesUp

-----------------------------------------------------------------------------
(* /stop *)

LEMMA StopMoves ==
  ASSUME RunInv, NEW r \in Runs, NEW z \in Stops, stop' = [stop EXCEPT ![r] = z],
         UNCHANGED <<host, runner, out, into, registry, steer>>, stop[r] # "no", z # "no",
         z = "grace" => stop[r] = "grace",
         z \in {"killed", "force-killed"} => runner[r].stage = "gone",
         z = "aborted" /\ host[r].killing = "no" => runner[r].stage \in {"closing", "gone"},
         stop[r] \in {"killing", "killed", "force-killed", "cleanup-failure"} =>
           z \in {"killing", "killed", "force-killed", "cleanup-failure"},
         stop[r] = "grace" => z # "no" /\ (host[r].client # "killed" \/ host[r].cleanup)
  PROVE  RunInv'
<1>1. stop'[r] = z
  BY Same
<1>3. StartOK(r) /\ StopOK(r)
  BY Same
<1>2. StartOK(r)' /\ StopOK(r)'
  BY <1>1, <1>3 DEF StartOK, Working, Booted, StopOK
<1>9. Still(r, host[r], runner[r], z)
  BY Same, Unmoved DEF Still
<1> QED BY <1>2, <1>9, StillKeeps

LEMMA StopStepsKeep ==
  ASSUME RunInv, NEW r \in Runs, StopCooperative(r) \/ StopAnswered(r)
  PROVE  RunInv'
<1>1. CASE StopCooperative(r)
  <2>1. /\ stop[r] = "grace" /\ host[r].finished /\ stop' = [stop EXCEPT ![r] = "aborted"]
        /\ UNCHANGED <<host, runner, out, into, registry, steer>>
    BY <1>1 DEF StopCooperative
  <2>2. "aborted" \in Stops
    BY DEF Stops
  <2>3. /\ host[r].killing = "no" => runner[r].stage \in {"closing", "gone"}
        /\ host[r].client # "killed" \/ host[r].cleanup
    BY <2>1, Same DEF StopOK
  <2> QED BY <2>1, <2>2, <2>3, StopMoves
<1>2. CASE StopAnswered(r)
  <2>1. /\ stop[r] = "killed" /\ stop' = [stop EXCEPT ![r] = "force-killed"]
        /\ UNCHANGED <<host, runner, out, into, registry, steer>>
    BY <1>2 DEF StopAnswered
  <2>2. "force-killed" \in Stops
    BY DEF Stops
  <2>3. runner[r].stage = "gone"
    BY <2>1, Same DEF StopOK
  <2> QED BY <2>1, <2>2, <2>3, StopMoves
<1> QED BY <1>1, <1>2

LEMMA StopHardKeeps ==
  ASSUME RunInv, NEW r \in Runs, StopHard(r)
  PROVE  RunInv'
<1>0. StartOK(r) /\ StopOK(r)
  BY Same
<1> DEFINE h == KillClient(host[r])
<1>1. /\ host' = [host EXCEPT ![r] = h] /\ stop' = [stop EXCEPT ![r] = "killing"]
      /\ UNCHANGED <<runner, out, into, registry, steer>>
      /\ stop[r] = "grace" /\ "killing" \in Stops
  BY DEF StopHard, Stops
<1>2. /\ h \in Promise /\ h.client = "killed" /\ h.ready = host[r].ready
      /\ h.closed = host[r].closed /\ h.finished = host[r].finished
      /\ h.outcome = host[r].outcome /\ h.killing = host[r].killing
      /\ h.stopRequested = host[r].stopRequested
  BY Same DEF Promise, KillClient
<1> HIDE DEF h
<1>3. host'[r] = h /\ stop'[r] = "killing"
  BY <1>1, Same
<1>4. StartOK(r)' /\ StopOK(r)'
  BY <1>0, <1>1, <1>2, <1>3 DEF StartOK, Working, Booted, StopOK
<1>9. Still(r, h, runner[r], "killing")
  BY <1>1, <1>2, <1>4, Same, Unmoved DEF Still
<1> QED BY <1>4, <1>9, StillKeeps

(* A container that is gone *)
LEMMA GoneKeeps ==
  ASSUME RunInv, NEW r \in Runs, NEW x \in Exits, NEW z \in Stops,
         runner' = [runner EXCEPT ![r] = [[runner[r] EXCEPT !.stage = "gone"]
                                                    EXCEPT !.exit = x]],
         stop' = [stop EXCEPT ![r] = z], z = stop[r] \/ (stop[r] = "killing" /\ z = "killed"),
         host[r].client # "none", UNCHANGED <<host, out, into, registry, steer>>
  PROVE  RunInv'
<1>0. StartOK(r) /\ StopOK(r)
  BY Same
<1> DEFINE c == [[runner[r] EXCEPT !.stage = "gone"] EXCEPT !.exit = x]
<1>1. /\ c \in Container /\ c.stage = "gone" /\ c.announced = runner[r].announced
      /\ c.closed = runner[r].closed
  BY Same DEF Container, Stages
<1>2. runner' = [runner EXCEPT ![r] = c]
  OBVIOUS
<1> HIDE DEF c
<1>3. runner'[r] = c /\ stop'[r] = z
  BY <1>2, Same
<1>4. StartOK(r)' /\ StopOK(r)'
  BY <1>0, <1>1, <1>3 DEF StartOK, Working, Booted, StopOK
<1>9. Still(r, host[r], c, z)
  BY <1>1, <1>2, <1>4, Same DEF Still
<1> QED BY <1>4, <1>9, StillKeeps

LEMMA ExitsKeep ==
  ASSUME RunInv, NEW r \in Runs, Exit(r) \/ Die(r)
  PROVE  RunInv'
<1>1. PICK x \in {"completed", "agent-error", "failed", "retry"} :
        runner' = [runner EXCEPT ![r] = [@ EXCEPT !.stage = "gone", !.exit = x]]
  BY DEF Exit, Die
<1>2. /\ UNCHANGED <<host, out, into, registry, steer, stop>>
      /\ runner[r].stage # "none"
  BY DEF Exit, Die, Alive
<1>3. x \in Exits
  BY DEF Exits, Outcomes
<1>4. runner' = [runner EXCEPT ![r] = [[runner[r] EXCEPT !.stage = "gone"] EXCEPT !.exit = x]]
  BY <1>1, Same
<1>5. host[r].client # "none"
  BY <1>2, Same DEF StartOK
<1> QED BY <1>2, <1>3, <1>4, <1>5, Same, GoneKeeps

LEMMA StopKilledKeeps ==
  ASSUME RunInv, NEW r \in Runs, StopKilled(r)
  PROVE  RunInv'
<1>1. stop[r] = "killing" /\ UNCHANGED <<host, out, into, registry, steer>>
  BY DEF StopKilled
<1>2. host[r].client # "none" /\ runner[r] \in Container
  BY <1>1, Same DEF StartOK, Working, Booted, StopOK
<1>3. CASE stop' = [stop EXCEPT ![r] = "killed"] /\ runner' = Stopped(r)
  <2>1. [runner[r] EXCEPT !.stage = "gone"]
          = [[runner[r] EXCEPT !.stage = "gone"] EXCEPT !.exit = runner[r].exit]
    BY <1>2 DEF Container
  <2>2. runner' = [runner EXCEPT ![r] = [[runner[r] EXCEPT !.stage = "gone"]
                                                  EXCEPT !.exit = runner[r].exit]]
    BY <1>3, <2>1 DEF Stopped
  <2>3. runner[r].exit \in Exits /\ "killed" \in Stops
    BY <1>2 DEF Container, Stops
  <2> QED BY <1>1, <1>2, <1>3, <2>2, <2>3, GoneKeeps
<1>4. CASE stop' = [stop EXCEPT ![r] = "cleanup-failure"] /\ UNCHANGED runner
  <2>1. "cleanup-failure" \in Stops
    BY DEF Stops
  <2> QED BY <1>1, <1>4, <2>1, StopMoves
<1> QED BY <1>3, <1>4 DEF StopKilled

-----------------------------------------------------------------------------
(* Lines to the runner *)

LEMMA IntoGrows ==
  ASSUME RunInv, NEW r \in Runs, NEW x \in Told, into'[r] = Append(into[r], x),
         SteersUnseen(r),
         x.type = "steer" =>
           /\ steer[x.steer].run # r
           /\ steer'[x.steer].run = r /\ steer'[x.steer].runner = "no"
  PROVE  IntoOK(r)'
<1> DEFINE s == into[r]
           t == Append(into[r], x)
           n == Len(into[r]) + 1
<1>1. /\ IntoOK(r) /\ s \in Seq(Told)
      /\ \A i \in DOMAIN s : s[i].type = "steer" => s[i].steer \in Steers
  BY AcksKnown DEF RunOK
<1>2. /\ \A i \in DOMAIN s : t[i] = s[i]
      /\ \A i \in DOMAIN t : i \in DOMAIN s \/ i = n
      /\ t[n] = x
  BY <1>1, Appended
<1>3. into'[r] = t /\ into[r] = s
  OBVIOUS
<1> HIDE DEF s, t, n
<1>4. ASSUME NEW i \in DOMAIN s, s[i].type = "steer"
      PROVE  /\ steer[s[i].steer].run = r
             /\ steer'[s[i].steer].run = r /\ steer'[s[i].steer].runner = "no"
  <2>1. PICK q \in Steers : q = s[i].steer
    BY <1>1, <1>4
  <2>2. steer[q].run = r /\ steer[q].runner = "no"
    BY <1>1, <1>3, <1>4, <2>1 DEF IntoOK
  <2> QED BY <2>1, <2>2 DEF SteersUnseen
<1>5. ASSUME NEW i \in DOMAIN t, t[i].type = "steer"
      PROVE  steer'[t[i].steer].run = r /\ steer'[t[i].steer].runner = "no"
  BY <1>2, <1>4, <1>5
<1>6. ASSUME NEW i \in DOMAIN t, NEW k \in DOMAIN t, t[i].type = "steer",
             t[k].type = "steer", t[i].steer = t[k].steer
      PROVE  i = k
  <2>1. CASE i \in DOMAIN s /\ k \in DOMAIN s
    BY <1>1, <1>2, <1>3, <1>6, <2>1 DEF IntoOK
  <2>2. CASE i \in DOMAIN s /\ k = n
    BY <1>2, <1>4, <1>6, <2>2
  <2>3. CASE i = n /\ k \in DOMAIN s
    BY <1>2, <1>4, <1>6, <2>3
  <2> QED BY <1>2, <2>1, <2>2, <2>3
<1> QED BY <1>3, <1>5, <1>6 DEF IntoOK

LEMMA IntoShrinks ==
  ASSUME RunInv, NEW r \in Runs, into[r] # <<>>, into'[r] = Tail(into[r]),
         \A q \in Steers :
           /\ steer[q].run = r /\ steer[q].runner = "no"
           /\ ~(Head(into[r]).type = "steer" /\ Head(into[r]).steer = q)
           => steer'[q].run = r /\ steer'[q].runner = "no"
  PROVE  IntoOK(r)'
<1> DEFINE s == into[r]
           t == Tail(into[r])
<1>1. /\ IntoOK(r) /\ s \in Seq(Told)
      /\ \A i \in DOMAIN s : s[i].type = "steer" => s[i].steer \in Steers
  BY AcksKnown DEF RunOK
<1>2. /\ 1 \in DOMAIN s /\ s[1] = Head(s)
      /\ \A i \in DOMAIN t : i \in Nat /\ i >= 1 /\ i + 1 \in DOMAIN s /\ t[i] = s[i + 1]
  BY <1>1, TakenOff
<1>3. into'[r] = t /\ into[r] = s
  OBVIOUS
<1> HIDE DEF s, t
<1>4. ASSUME NEW i \in DOMAIN t, t[i].type = "steer"
      PROVE  steer'[t[i].steer].run = r /\ steer'[t[i].steer].runner = "no"
  <2>1. i + 1 \in DOMAIN s /\ s[i + 1] = t[i] /\ i + 1 # 1
    BY <1>2
  <2>2. PICK q \in Steers : q = t[i].steer
    BY <1>1, <1>4, <2>1
  <2>3. steer[q].run = r /\ steer[q].runner = "no"
    BY <1>1, <1>3, <1>4, <2>1, <2>2 DEF IntoOK
  <2>4. ~(Head(s).type = "steer" /\ Head(s).steer = q)
    BY <1>1, <1>2, <1>3, <1>4, <2>1, <2>2 DEF IntoOK
  <2> QED BY <1>3, <2>2, <2>3, <2>4
<1>5. ASSUME NEW i \in DOMAIN t, NEW k \in DOMAIN t, t[i].type = "steer",
             t[k].type = "steer", t[i].steer = t[k].steer
      PROVE  i = k
  <2>1. /\ i + 1 \in DOMAIN s /\ k + 1 \in DOMAIN s
        /\ s[i + 1] = t[i] /\ s[k + 1] = t[k] /\ i \in Nat /\ k \in Nat
    BY <1>2
  <2>2. i + 1 = k + 1
    BY <1>1, <1>3, <1>5, <2>1 DEF IntoOK
  <2> QED BY <2>1, <2>2
<1> QED BY <1>3, <1>4, <1>5 DEF IntoOK

LEMMA MarkedKeeps ==
  ASSUME RunInv, NEW r \in Runs, Marked(r)
  PROVE  RunInv'
<1>1. /\ host[r].ready = "marking" /\ UNCHANGED <<runner, out, registry, steer, stop>>
  BY DEF Marked
<1>2. CASE host[r].cleanup
  BY <1>1, <1>2, MarkDropped DEF Marked
<1>3. CASE ~host[r].cleanup
  <2> DEFINE h == [[host[r] EXCEPT !.ready = "yes"] EXCEPT !.sent = TRUE]
             x == [type |-> "payload"]
  <2>1. host' = [host EXCEPT ![r] = h] /\ into' = [into EXCEPT ![r] = Append(@, x)]
    BY <1>3, Same DEF Marked
  <2>2. /\ h \in Promise /\ h.client = host[r].client /\ h.ready = "yes"
        /\ h.closed = host[r].closed /\ h.finished = host[r].finished
        /\ h.cleanup = host[r].cleanup
        /\ h.outcome = host[r].outcome /\ h.killing = host[r].killing
        /\ h.stopRequested = host[r].stopRequested
    BY Same DEF Promise
  <2>3. x \in Told /\ x.type # "steer"
    BY DEF Told
  <2> HIDE DEF h, x
  <2>4. RunOK(r) /\ into \in [Runs -> Seq(Told)] /\ host \in [Runs -> Promise]
    BY DEF RunInv, Shape
  <2>5. /\ host'[r] = h /\ \A k \in Runs \ {r} : host'[k] = host[k]
        /\ into'[r] = Append(into[r], x) /\ \A k \in Runs \ {r} : into'[k] = into[k]
    BY <2>1, <2>4
  <2>6. Shape'
    <3>1. Append(into[r], x) \in Seq(Told)
      BY <2>3, <2>4, Appended
    <3> QED BY <1>1, <2>1, <2>2, <2>4, <3>1 DEF RunInv, Shape
  <2>7. StartOK(r)' /\ ControlOK(r)' /\ StopOK(r)'
    BY <1>1, <2>2, <2>4, <2>5
       DEF RunOK, StartOK, Working, Booted, ControlOK, Settled, StopOK
  <2>8. Later(r) /\ EndSaid(r)
    BY <1>1, <2>2, <2>5 DEF Later, EndSaid, Booted
  <2>9. OutOK(r)'
    BY <1>1, <2>8, SameSteers, OutStays
  <2>10. IntoOK(r)'
    BY <1>1, <2>3, <2>5, SameSteers, IntoGrows
  <2>11. \A k \in Runs \ {r} : Apart(k) /\ SteersKept(k)
    BY <1>1, <2>5, SameSteers DEF Apart
  <2> QED BY <1>1, <2>6, <2>7, <2>9, <2>10, <2>11, SameSteers, OneRun DEF RunOK
<1> QED BY <1>2, <1>3

LEMMA BrokenPipeKeeps ==
  ASSUME RunInv, NEW r \in Runs, BrokenPipe(r)
  PROVE  RunInv'
<1> DEFINE h == [host[r] EXCEPT !.closed = TRUE]
<1>1. /\ host' = [host EXCEPT ![r] = h] /\ steer' = Failed(r)
      /\ UNCHANGED <<runner, out, into, registry, stop>>
  BY DEF BrokenPipe
<1>2. /\ h \in Promise /\ h.client = host[r].client /\ h.ready = host[r].ready
      /\ h.closed /\ h.finished = host[r].finished /\ h.cleanup = host[r].cleanup
      /\ h.outcome = host[r].outcome /\ h.killing = host[r].killing
      /\ h.stopRequested = host[r].stopRequested
  BY Same DEF Promise
<1> HIDE DEF h
<1>3. RunOK(r) /\ host \in [Runs -> Promise]
  BY DEF RunInv, Shape
<1>4. host'[r] = h /\ \A k \in Runs \ {r} : host'[k] = host[k]
  BY <1>1, <1>3
<1>5. Shape'
  BY <1>1, <1>2, <1>3, FailedSteers DEF RunInv, Shape
<1>6. StartOK(r)' /\ StopOK(r)'
  BY <1>1, <1>2, <1>3, <1>4 DEF RunOK, StartOK, Working, Booted, StopOK
<1>7. ControlOK(r)'
  BY <1>1, <1>2, <1>3, <1>4, FailedSteers DEF RunOK, ControlOK, Settled
<1>8. Later(r) /\ EndSaid(r)
  BY <1>1, <1>2, <1>4 DEF Later, EndSaid, Booted
<1>9. OutOK(r)' /\ IntoOK(r)'
  BY <1>1, <1>8, FailedSteers, OutStays, IntoStays
<1>10. \A k \in Runs \ {r} : Apart(k) /\ SteersKept(k)
  BY <1>1, <1>4, FailedSteers DEF Apart
<1> QED BY <1>1, <1>5, <1>6, <1>7, <1>9, <1>10, FailedSteers, OneRun DEF RunOK

-----------------------------------------------------------------------------
(* /steer and /stop *)

LEMMA SteerRefused ==
  ASSUME RunInv, NEW q \in Steers, steer[q].asked = "no",
         steer' = [steer EXCEPT ![q].asked = "refused"],
         UNCHANGED <<host, runner, out, into, registry, stop>>
  PROVE  RunInv'
<1>1. steer \in [Steers -> Instruction] /\ \A p \in Steers : SteerOK(p)
  BY DEF RunInv, Shape
<1>2. steer' = [steer EXCEPT ![q] = [steer[q] EXCEPT !.asked = "refused"]]
  BY <1>1
<1>3. ASSUME NEW p \in Steers
      PROVE  /\ steer'[p] \in Instruction /\ steer'[p].run = steer[p].run
             /\ steer'[p].runner = steer[p].runner
             /\ steer'[p].asked = "pending" => steer[p].asked = "pending"
             /\ SteerOK(p)'
  <2>1. CASE p = q
    <3>1. steer'[p] = [steer[p] EXCEPT !.asked = "refused"]
      BY <1>1, <1>2, <2>1
    <3> QED BY <1>1, <2>1, <3>1 DEF Instruction, SteerOK
  <2>2. CASE p # q
    <3>1. steer'[p] = steer[p]
      BY <1>1, <1>2, <2>2
    <3> QED BY <1>1, <3>1 DEF SteerOK
  <2> QED BY <2>1, <2>2
<1>4. Shape'
  <2>1. steer' \in [Steers -> Instruction]
    BY <1>1, <1>2, <1>3
  <2> QED BY <2>1 DEF RunInv, Shape
<1>5. \A k \in Runs : Apart(k) /\ SteersKept(k)
  BY <1>3 DEF Apart, SteersKept
<1>6. \A k \in Runs : RunOK(k)'
  BY <1>5, ApartKeeps
<1> QED BY <1>3, <1>4, <1>6 DEF RunInv

LEMMA SteerSent ==
  ASSUME RunInv, NEW q \in Steers, steer[q].asked = "no", NEW r \in Runs, registry = r,
         ~host[r].closed, UNCHANGED <<host, runner, out, registry, stop>>,
         steer' = [steer EXCEPT ![q] = [@ EXCEPT !.run = r, !.asked = "pending"]],
         into' = Written(r, [type |-> "steer", steer |-> q])
  PROVE  RunInv'
<1> DEFINE x == [type |-> "steer", steer |-> q]
<1>1. /\ steer \in [Steers -> Instruction] /\ \A p \in Steers : SteerOK(p)
      /\ into \in [Runs -> Seq(Told)] /\ RunOK(r)
  BY DEF RunInv, Shape
<1>2. steer[q].run = 0 /\ steer[q].runner = "no" /\ r # 0
  BY <1>1, RunNumbers DEF SteerOK
<1>3. steer' = [steer EXCEPT ![q] = [[steer[q] EXCEPT !.run = r] EXCEPT !.asked = "pending"]]
  BY <1>1
<1>4. /\ steer'[q] \in Instruction /\ steer'[q].run = r /\ steer'[q].runner = "no"
      /\ steer'[q].asked = "pending"
  <2>1. steer'[q] = [[steer[q] EXCEPT !.run = r] EXCEPT !.asked = "pending"]
    BY <1>1, <1>3
  <2> QED BY <1>1, <1>2, <2>1 DEF Instruction
<1>5. \A p \in Steers \ {q} : steer'[p] = steer[p]
  BY <1>1, <1>3
<1>6. x \in Told /\ x.type = "steer" /\ x.steer = q
  BY DEF Told
<1>7. into' \in {into, [into EXCEPT ![r] = Append(@, x)]}
  BY DEF Written
<1> HIDE DEF x
<1>8. /\ into'[r] = into[r] \/ into'[r] = Append(into[r], x)
      /\ \A k \in Runs \ {r} : into'[k] = into[k]
  BY <1>1, <1>7
<1>9. \A p \in Steers : SteerOK(p)'
  <2>1. ASSUME NEW p \in Steers, p # q PROVE SteerOK(p)'
    BY <1>1, <1>5, <2>1 DEF SteerOK
  <2>2. SteerOK(q)'
    BY <1>2, <1>4 DEF SteerOK
  <2> QED BY <2>1, <2>2
<1>10. Shape'
  <2>1. steer' \in [Steers -> Instruction]
    BY <1>1, <1>3, <1>4
  <2>2. Append(into[r], x) \in Seq(Told)
    BY <1>1, <1>6, Appended
  <2>3. into' \in [Runs -> Seq(Told)]
    BY <1>1, <1>7, <2>2
  <2> QED BY <2>1, <2>3 DEF RunInv, Shape
<1>11. host[r].ready = "yes"
  BY <1>1 DEF RunOK, ControlOK, StartOK
<1>12. StartOK(r)' /\ StopOK(r)'
  BY <1>1, <1>11 DEF RunOK, StartOK, Working, Booted, StopOK
<1>13. ControlOK(r)'
  BY <1>1 DEF RunOK, ControlOK, Settled
<1>14. SteersSeen(r) /\ SteersUnseen(r)
  BY <1>2, <1>5 DEF SteersSeen, SteersUnseen
<1>15. Later(r) /\ EndSaid(r)
  BY DEF Later, EndSaid, Booted
<1>16. OutOK(r)'
  BY <1>14, <1>15, OutStays
<1>17. IntoOK(r)'
  BY <1>2, <1>4, <1>6, <1>8, <1>14, IntoStays, IntoGrows
<1>18. ASSUME NEW k \in Runs \ {r} PROVE Apart(k) /\ SteersKept(k)
  <2>1. Apart(k)
    BY <1>8 DEF Apart
  <2>2. steer[q].run # k /\ steer'[q].run # k
    BY <1>2, <1>4, RunNumbers
  <2> QED BY <1>5, <2>1, <2>2 DEF SteersKept
<1> QED BY <1>9, <1>10, <1>12, <1>13, <1>16, <1>17, <1>18, OneRun DEF RunOK

LEMMA SteerKeeps ==
  ASSUME RunInv, NEW q \in Steers, Steer(q)
  PROVE  RunInv'
<1>1. /\ registry \in Runs /\ steer[q].asked = "no"
      /\ UNCHANGED <<host, runner, out, registry, stop>>
  BY DEF Steer, RunInv, Shape
<1>2. CASE host[registry].closed \/ ~host[registry].sent
  BY <1>1, <1>2, SteerRefused DEF Steer
<1>3. CASE ~(host[registry].closed \/ ~host[registry].sent)
  <2>1. PICK r \in Runs : r = registry
    BY <1>1
  <2>2. /\ steer' = [steer EXCEPT ![q] = [@ EXCEPT !.run = r, !.asked = "pending"]]
        /\ into' = Written(r, [type |-> "steer", steer |-> q])
    BY <1>3, <2>1 DEF Steer
  <2>3. ~host[r].closed
    BY <1>3, <2>1
  <2> QED BY <1>1, <2>1, <2>2, <2>3, SteerSent
<1> QED BY <1>2, <1>3

LEMMA StopKeeps ==
  ASSUME RunInv, Stop
  PROVE  RunInv'
<1>1. PICK r \in Runs : r = registry
  BY DEF Stop, RunInv, Shape
<1> DEFINE h == [host[r] EXCEPT !.stopRequested = TRUE]
           x == [type |-> "abort"]
<1>2. /\ stop[r] = "no" /\ stop' = [stop EXCEPT ![r] = "grace"]
      /\ host' = [host EXCEPT ![r] = h] /\ into' = Written(r, x)
      /\ UNCHANGED <<runner, out, registry, steer>>
  BY <1>1 DEF Stop
<1>3. /\ into \in [Runs -> Seq(Told)] /\ host \in [Runs -> Promise]
      /\ stop \in [Runs -> Stops] /\ RunOK(r)
  BY DEF RunInv, Shape
<1>4. /\ h \in Promise /\ h.client = host[r].client /\ h.ready = host[r].ready
      /\ h.closed = host[r].closed /\ h.finished = host[r].finished
      /\ h.cleanup = host[r].cleanup
      /\ h.outcome = host[r].outcome /\ h.killing = host[r].killing
      /\ h.stopRequested
  BY <1>3 DEF Promise
<1>5. x \in Told /\ x.type # "steer" /\ "grace" \in Stops
  BY DEF Told, Stops
<1>6. into' \in {into, [into EXCEPT ![r] = Append(@, x)]}
  BY <1>2 DEF Written
<1> HIDE DEF h, x
<1>7. /\ into'[r] = into[r] \/ into'[r] = Append(into[r], x)
      /\ host'[r] = h /\ stop'[r] = "grace"
      /\ \A k \in Runs \ {r} :
           into'[k] = into[k] /\ host'[k] = host[k] /\ stop'[k] = stop[k]
  BY <1>2, <1>3, <1>6
<1>8. Shape'
  <2>1. Append(into[r], x) \in Seq(Told)
    BY <1>3, <1>5, Appended
  <2>2. into' \in [Runs -> Seq(Told)]
    BY <1>3, <1>6, <2>1
  <2> QED BY <1>2, <1>3, <1>4, <1>5, <2>2 DEF RunInv, Shape
<1>9. /\ runner[r].announced /\ host[r].ready = "yes" /\ ~host[r].finished
      /\ host[r].outcome = "none"
  BY <1>1, <1>3 DEF RunOK, ControlOK, StartOK, Settled
<1>10. StartOK(r)' /\ ControlOK(r)'
  BY <1>2, <1>3, <1>4, <1>7, <1>9
     DEF RunOK, StartOK, Working, Booted, ControlOK, Settled
<1>11. StopOK(r)'
  BY <1>2, <1>3, <1>4, <1>7, <1>9 DEF RunOK, StopOK
<1>12. Later(r) /\ EndSaid(r)
  BY <1>1, <1>2, <1>4, <1>7 DEF Later, EndSaid, Booted
<1>13. OutOK(r)'
  BY <1>2, <1>12, SameSteers, OutStays
<1>14. IntoOK(r)'
  BY <1>2, <1>5, <1>7, SameSteers, IntoStays, IntoGrows
<1>15. \A k \in Runs \ {r} : Apart(k) /\ SteersKept(k)
  BY <1>2, <1>7, SameSteers DEF Apart
<1> QED BY <1>2, <1>8, <1>10, <1>11, <1>13, <1>14, <1>15, SameSteers, OneRun DEF RunOK

-----------------------------------------------------------------------------
(* Steps of the runner: c is its container after the step. *)

Goes(r, c) ==
  /\ c \in Container /\ runner' = [runner EXCEPT ![r] = c]
  /\ UNCHANGED <<host, registry, steer, stop>>
  /\ \/ UNCHANGED into
     \/ into[r] # <<>> /\ into' = [into EXCEPT ![r] = Tail(@)]
  /\ Booted(r) => c.stage \notin {"none", "booting"}
  /\ runner[r].announced => c.announced
  /\ runner[r].closed => c.closed

Silent(r, c) == UNCHANGED out /\ (c.closed => runner[r].closed)

Reports(r, c, x) ==
  /\ x \in Said /\ Says(r, x)
  /\ x.type = "ready" => ~Booted(r) /\ c.stage \notin {"none", "booting"}
  /\ x.type = "active" => ~runner[r].announced /\ c.announced
  /\ x.type = "complete" => c.closed
  /\ x.type = "ack" => ~x.accepted
  /\ c.closed => runner[r].closed \/ x.type = "complete"

LEMMA GoesKeeps ==
  ASSUME RunInv, NEW r \in Runs, NEW c, NEW x, Goes(r, c),
         Silent(r, c) \/ Reports(r, c, x), StartOK(r)', StopOK(r)'
  PROVE  RunInv'
<1>1. /\ RunOK(r) /\ runner \in [Runs -> Container] /\ out \in [Runs -> Seq(Said)]
      /\ into \in [Runs -> Seq(Told)]
  BY DEF RunInv, Shape
<1>2. runner'[r] = c /\ \A k \in Runs \ {r} : runner'[k] = runner[k]
  BY <1>1 DEF Goes
<1>3. /\ \A k \in Runs \ {r} : into'[k] = into[k]
      /\ into' \in [Runs -> Seq(Told)]
      /\ IntoOK(r)'
  <2>1. CASE UNCHANGED into
    BY <1>1, <2>1, SameSteers, IntoStays DEF Goes
  <2>2. CASE into[r] # <<>> /\ into' = [into EXCEPT ![r] = Tail(@)]
    <3>1. into'[r] = Tail(into[r]) /\ Tail(into[r]) \in Seq(Told)
      BY <1>1, <2>2, TakenOff
    <3>2. IntoOK(r)'
      BY <2>2, <3>1, IntoShrinks DEF Goes
    <3> QED BY <1>1, <2>2, <3>1, <3>2
  <2> QED BY <2>1, <2>2 DEF Goes
<1>4. \/ UNCHANGED out /\ (c.closed /\ host[r].client = "open" => runner[r].closed)
      \/ Reports(r, c, x) /\ host[r].client = "open" /\ out' = [out EXCEPT ![r] = Append(@, x)]
  BY DEF Silent, Reports, Says
<1>5. Later(r) /\ SteersSeen(r) /\ SteersUnseen(r) /\ (registry' = r => registry = r)
  BY <1>2, SameSteers DEF Goes, Later, Booted
<1>6. /\ \A k \in Runs \ {r} : out'[k] = out[k]
      /\ out' \in [Runs -> Seq(Said)]
      /\ OutOK(r)'
  <2>1. CASE UNCHANGED out /\ (c.closed /\ host[r].client = "open" => runner[r].closed)
    <3>1. EndSaid(r)
      BY <1>2, <2>1 DEF EndSaid, Goes
    <3> QED BY <1>1, <1>5, <2>1, <3>1, OutStays
  <2>2. CASE /\ Reports(r, c, x) /\ host[r].client = "open"
             /\ out' = [out EXCEPT ![r] = Append(@, x)]
    <3>1. /\ out'[r] = Append(out[r], x) /\ Append(out[r], x) \in Seq(Said)
          /\ x \in Said
      BY <1>1, <2>2, Appended DEF Reports
    <3>2. x.type = "ready" => /\ host'[r].ready = "no" /\ Booted(r)'
                              /\ \A i \in DOMAIN out[r] : out[r][i].type # "ready"
      BY <1>1, <1>2, <2>2 DEF Reports, Goes, RunOK, StartOK, OutOK, Booted
    <3>3. x.type = "active" => /\ runner'[r].announced /\ registry' # r /\ stop'[r] = "no"
                               /\ \A i \in DOMAIN out[r] : out[r][i].type # "active"
      BY <1>1, <1>2, <2>2 DEF Reports, Goes, RunOK, ControlOK, StopOK, OutOK
    <3>4. /\ x.type = "complete" => runner'[r].closed
          /\ ~(x.type = "ack" /\ x.accepted)
      BY <1>2, <2>2 DEF Reports
    <3>5. EndSaid(r) \/ x.type = "complete"
      BY <1>2, <2>2 DEF Reports, EndSaid, Goes
    <3>6. OutOK(r)'
      BY <1>5, <3>1, <3>2, <3>3, <3>4, <3>5, OutGrows
    <3> QED BY <1>1, <2>2, <3>1, <3>6
  <2> QED BY <1>4, <2>1, <2>2
<1>7. Shape'
  BY <1>3, <1>6, <1>1 DEF RunInv, Shape, Goes
<1>8. ControlOK(r)'
  BY <1>1, <1>2 DEF Goes, RunOK, ControlOK, Settled
<1>9. \A k \in Runs \ {r} : Apart(k) /\ SteersKept(k)
  BY <1>2, <1>3, <1>6, SameSteers DEF Apart, Goes
<1>10. RunOK(r)'
  BY <1>3, <1>6, <1>8 DEF RunOK
<1> QED BY <1>7, <1>9, <1>10, SameSteers, OneRun DEF Goes

LEMMA BootKeeps ==
  ASSUME RunInv, NEW r \in Runs, Boot(r)
  PROVE  RunInv'
<1> DEFINE c == [runner[r] EXCEPT !.stage = "waiting"]
           x == [type |-> "ready"]
<1>1. /\ runner[r].stage = "booting" /\ runner' = [runner EXCEPT ![r] = c] /\ Says(r, x)
      /\ UNCHANGED <<host, into, registry, steer, stop>>
  BY DEF Boot
<1>2. /\ c \in Container /\ c.stage = "waiting" /\ c.announced = runner[r].announced
      /\ c.closed = runner[r].closed
  BY Same DEF Container, Stages
<1>3. x \in Said /\ x.type = "ready"
  BY DEF Said
<1> HIDE DEF c, x
<1>4. runner'[r] = c /\ StartOK(r) /\ StopOK(r)
  BY <1>1, Same
<1>5. StartOK(r)' /\ StopOK(r)'
  BY <1>1, <1>2, <1>4 DEF StartOK, Working, Booted, StopOK
<1>6. Goes(r, c) /\ Reports(r, c, x)
  BY <1>1, <1>2, <1>3 DEF Goes, Reports, Booted
<1> QED BY <1>5, <1>6, GoesKeeps

LEMMA ReadPayloadKeeps ==
  ASSUME RunInv, NEW r \in Runs, ReadPayload(r)
  PROVE  RunInv'
<1> DEFINE c == [runner[r] EXCEPT !.stage = "preparing"]
<1>1. /\ runner[r].stage = "waiting" /\ runner' = [runner EXCEPT ![r] = c]
      /\ into[r] # <<>> /\ into' = [into EXCEPT ![r] = Tail(@)]
      /\ UNCHANGED <<host, out, registry, steer, stop>>
  BY DEF ReadPayload
<1>2. /\ c \in Container /\ c.stage = "preparing" /\ c.announced = runner[r].announced
      /\ c.closed = runner[r].closed
  BY Same DEF Container, Stages
<1> HIDE DEF c
<1>3. runner'[r] = c /\ StartOK(r) /\ StopOK(r)
  BY <1>1, Same
<1>4. host[r].ready = "yes" /\ ~runner[r].closed
  BY <1>1, <1>3 DEF StartOK
<1>5. StartOK(r)' /\ StopOK(r)'
  BY <1>1, <1>2, <1>3, <1>4 DEF StartOK, Working, Booted, StopOK
<1>6. Goes(r, c) /\ Silent(r, c)
  BY <1>1, <1>2 DEF Goes, Silent
<1> QED BY <1>5, <1>6, GoesKeeps

LEMMA CompactKeeps ==
  ASSUME RunInv, NEW r \in Runs, Compact(r)
  PROVE  RunInv'
<1> DEFINE c == [runner[r] EXCEPT !.announced = TRUE]
           x == [type |-> "active"]
<1>1. /\ runner[r].stage = "preparing" /\ ~runner[r].announced
      /\ runner' = [runner EXCEPT ![r] = c] /\ Says(r, x)
      /\ UNCHANGED <<host, into, registry, steer, stop>>
  BY DEF Compact, Announce
<1>2. /\ c \in Container /\ c.stage = runner[r].stage /\ c.announced
      /\ c.closed = runner[r].closed
  BY Same DEF Container
<1>3. x \in Said /\ x.type = "active"
  BY DEF Said
<1> HIDE DEF c, x
<1>4. runner'[r] = c /\ StartOK(r) /\ StopOK(r)
  BY <1>1, Same
<1>5. StartOK(r)' /\ StopOK(r)'
  BY <1>1, <1>2, <1>4 DEF StartOK, Working, Booted, StopOK
<1>6. Goes(r, c) /\ Reports(r, c, x)
  BY <1>1, <1>2, <1>3 DEF Goes, Reports, Booted
<1> QED BY <1>5, <1>6, GoesKeeps

LEMMA AttachKeeps ==
  ASSUME RunInv, NEW r \in Runs, Attach(r)
  PROVE  RunInv'
<1> DEFINE c == [[[runner[r] EXCEPT !.stage = "looping"] EXCEPT !.announced = TRUE]
                            EXCEPT !.attached = TRUE]
           x == [type |-> "active"]
<1>1. /\ runner[r].stage = "preparing" /\ UNCHANGED <<host, into, registry, steer, stop>>
      /\ IF runner[r].announced THEN UNCHANGED out ELSE Says(r, x)
  BY DEF Attach, Announce
<1>2. runner' = [runner EXCEPT ![r] = c]
  BY Same DEF Attach
<1>3. /\ c \in Container /\ c.stage = "looping" /\ c.announced
      /\ c.closed = runner[r].closed
  BY Same DEF Container, Stages
<1>4. x \in Said /\ x.type = "active"
  BY DEF Said
<1> HIDE DEF c, x
<1>5. runner'[r] = c /\ StartOK(r) /\ StopOK(r)
  BY <1>2, Same
<1>6. ~runner[r].closed
  BY <1>1, <1>5 DEF StartOK
<1>7. StartOK(r)' /\ StopOK(r)'
  BY <1>1, <1>3, <1>5, <1>6 DEF StartOK, Working, Booted, StopOK
<1>8. Goes(r, c)
  BY <1>1, <1>2, <1>3 DEF Goes
<1>9. Silent(r, c) \/ Reports(r, c, x)
  BY <1>1, <1>3, <1>4 DEF Silent, Reports
<1> QED BY <1>7, <1>8, <1>9, GoesKeeps

LEMMA AgentEndsKeeps ==
  ASSUME RunInv, NEW r \in Runs, AgentEnds(r)
  PROVE  RunInv'
<1> DEFINE c == [runner[r] EXCEPT !.stage = "draining"]
           x == [type |-> "complete"]
<1>1. /\ runner[r].stage = "looping"
      /\ UNCHANGED <<host, out, into, registry, steer, stop>>
      /\ runner' = [runner EXCEPT ![r] = c]
  BY Same DEF AgentEnds
<1>2. /\ c \in Container /\ c.stage = "draining" /\ c.announced = runner[r].announced
      /\ c.closed = runner[r].closed
  BY Same DEF Container, Stages
<1> HIDE DEF c, x
<1>3. runner'[r] = c /\ StartOK(r) /\ StopOK(r)
  BY <1>1, Same
<1>4. ~runner[r].closed
  BY <1>1, <1>3 DEF StartOK
<1>5. StartOK(r)' /\ StopOK(r)'
  BY <1>1, <1>2, <1>3, <1>4 DEF StartOK, Working, Booted, StopOK
<1>6. Goes(r, c) /\ Silent(r, c)
  BY <1>1, <1>2 DEF Goes, Silent
<1> QED BY <1>5, <1>6, GoesKeeps

LEMMA LoopEndsKeeps ==
  ASSUME RunInv, NEW r \in Runs, LoopEnds(r)
  PROVE  RunInv'
<1> DEFINE c == [[runner[r] EXCEPT !.stage = "closing"] EXCEPT !.closed = TRUE]
           x == [type |-> "complete"]
<1>1. /\ runner[r].stage \in {"preparing", "draining"} /\ Says(r, x)
      /\ UNCHANGED <<host, into, registry, steer, stop>>
  BY DEF LoopEnds
<1>2. runner' = [runner EXCEPT ![r] = c]
  BY Same DEF LoopEnds
<1>3. /\ c \in Container /\ c.stage = "closing" /\ c.announced = runner[r].announced
      /\ c.closed
  BY Same DEF Container, Stages
<1>4. x \in Said /\ x.type = "complete"
  BY DEF Said
<1> HIDE DEF c, x
<1>5. runner'[r] = c /\ StartOK(r) /\ StopOK(r)
  BY <1>2, Same
<1>6. StartOK(r)' /\ StopOK(r)'
  BY <1>1, <1>3, <1>5 DEF StartOK, Working, Booted, StopOK
<1>7. Goes(r, c) /\ Reports(r, c, x)
  BY <1>1, <1>2, <1>3, <1>4 DEF Goes, Reports, Booted
<1> QED BY <1>6, <1>7, GoesKeeps

(* The runner gets on with an instruction. *)
LEMMA SteerMoves ==
  ASSUME RunInv, NEW q \in Steers, NEW z \in {"persisting", "handed", "idle", "late", "lost"},
         steer[q].runner \in {"no", "persisting"}, steer[q].run \in Runs,
         steer' = [steer EXCEPT ![q].runner = z]
  PROVE  /\ steer' \in [Steers -> Instruction]
         /\ \A p \in Steers : SteerOK(p)'
         /\ \A p \in Steers : steer'[p].run = steer[p].run /\ steer'[p].asked = steer[p].asked
         /\ \A p \in Steers \ {q} : steer'[p] = steer[p]
         /\ steer'[q].runner = z
         /\ \A k \in Runs : SteersSeen(k) /\ (k # steer[q].run => SteersKept(k))
<1>1. steer \in [Steers -> Instruction] /\ \A p \in Steers : SteerOK(p)
  BY DEF RunInv, Shape
<1>2. steer' = [steer EXCEPT ![q] = [steer[q] EXCEPT !.runner = z]]
  BY <1>1
<1>3. /\ steer'[q] \in Instruction /\ steer'[q].run = steer[q].run
      /\ steer'[q].asked = steer[q].asked /\ steer'[q].runner = z
  <2>1. steer'[q] = [steer[q] EXCEPT !.runner = z]
    BY <1>1, <1>2
  <2> QED BY <1>1, <2>1 DEF Instruction
<1>4. \A p \in Steers \ {q} : steer'[p] = steer[p]
  BY <1>1, <1>2
<1>5. steer' \in [Steers -> Instruction]
  BY <1>1, <1>2, <1>3
<1>6. ASSUME NEW p \in Steers PROVE SteerOK(p)'
  <2>1. CASE p = q
    BY <1>1, <1>3, <2>1, RunNumbers DEF SteerOK
  <2>2. CASE p # q
    BY <1>1, <1>4, <2>2 DEF SteerOK
  <2> QED BY <2>1, <2>2
<1>7. \A k \in Runs : SteersSeen(k) /\ (k # steer[q].run => SteersKept(k))
  BY <1>3, <1>4 DEF SteersSeen, SteersKept
<1> QED BY <1>3, <1>4, <1>5, <1>6, <1>7

LEMMA ControlTakes ==
  ASSUME RunInv, NEW r \in Runs, Working(r), into[r] # <<>>,
         into' = [into EXCEPT ![r] = Tail(@)], Head(into[r]).type = "steer",
         steer' = [steer EXCEPT ![Head(into[r]).steer].runner = "persisting"],
         UNCHANGED <<host, runner, out, registry, stop>>
  PROVE  RunInv'
<1>1. RunOK(r) /\ into \in [Runs -> Seq(Told)]
  BY DEF RunInv, Shape
<1>2. /\ 1 \in DOMAIN into[r] /\ into[r][1] = Head(into[r]) /\ Tail(into[r]) \in Seq(Told)
  BY <1>1, TakenOff
<1>3. PICK q \in Steers : q = Head(into[r]).steer
  BY <1>2, AcksKnown
<1>4. steer[q].run = r /\ steer[q].runner = "no"
  BY <1>1, <1>2, <1>3 DEF RunOK, IntoOK
<1>5. /\ steer' \in [Steers -> Instruction]
      /\ \A p \in Steers : SteerOK(p)'
      /\ \A p \in Steers : steer'[p].run = steer[p].run /\ steer'[p].asked = steer[p].asked
      /\ \A p \in Steers \ {q} : steer'[p] = steer[p]
      /\ \A k \in Runs : SteersSeen(k) /\ (k # r => SteersKept(k))
  BY <1>3, <1>4, SteerMoves
<1>6. into'[r] = Tail(into[r]) /\ \A k \in Runs \ {r} : into'[k] = into[k]
  BY <1>1
<1>7. Shape'
  BY <1>1, <1>2, <1>5 DEF RunInv, Shape
<1>8. host[r].ready = "yes"
  BY <1>1 DEF RunOK, StartOK
<1>9. StartOK(r)' /\ ControlOK(r)' /\ StopOK(r)'
  BY <1>1, <1>5, <1>8 DEF RunOK, StartOK, Working, Booted, ControlOK, Settled, StopOK
<1>10. Later(r) /\ EndSaid(r)
  BY DEF Later, EndSaid, Booted
<1>11. OutOK(r)'
  BY <1>5, <1>10, OutStays
<1>12. \A p \in Steers :
         /\ steer[p].run = r /\ steer[p].runner = "no"
         /\ ~(Head(into[r]).type = "steer" /\ Head(into[r]).steer = p)
         => steer'[p].run = r /\ steer'[p].runner = "no"
  BY <1>3, <1>5
<1>13. IntoOK(r)'
  BY <1>6, <1>12, IntoShrinks
<1>14. \A k \in Runs \ {r} : Apart(k) /\ SteersKept(k)
  BY <1>5, <1>6 DEF Apart
<1>15. RunOK(r)'
  BY <1>9, <1>11, <1>13 DEF RunOK
<1> QED BY <1>5, <1>7, <1>14, <1>15, OneRun

LEMMA ControlKeeps ==
  ASSUME RunInv, NEW r \in Runs, Control(r)
  PROVE  RunInv'
<1>1. /\ Working(r) /\ into[r] # <<>> /\ into' = [into EXCEPT ![r] = Tail(@)]
      /\ UNCHANGED <<host, registry, stop>>
  BY DEF Control
<1>2. runner[r] \in Container /\ StartOK(r) /\ StopOK(r)
  BY Same
<1>3. host[r].ready = "yes"
  BY <1>1, <1>2 DEF StartOK
<1>4. CASE Head(into[r]).type = "abort"
  <2> DEFINE c == [runner[r] EXCEPT !.aborting = TRUE]
  <2>1. runner' = [runner EXCEPT ![r] = c] /\ UNCHANGED <<out, steer>>
    BY <1>4 DEF Control
  <2>2. /\ c \in Container /\ c.stage = runner[r].stage
        /\ c.announced = runner[r].announced /\ c.closed = runner[r].closed
    BY <1>2 DEF Container
  <2> HIDE DEF c
  <2>3. runner'[r] = c
    BY <2>1, Same
  <2>4. StartOK(r)' /\ StopOK(r)'
    BY <1>1, <1>2, <1>3, <2>1, <2>2, <2>3 DEF StartOK, Working, Booted, StopOK
  <2>5. Goes(r, c) /\ Silent(r, c)
    BY <1>1, <2>1, <2>2 DEF Goes, Silent, Booted
  <2> QED BY <2>4, <2>5, GoesKeeps
<1>5. CASE Head(into[r]).type = "steer" /\ (runner[r].closed \/ ~runner[r].attached)
  <2>1. PICK q \in Steers : q = Head(into[r]).steer
    <3>1. 1 \in DOMAIN into[r] /\ into[r][1] = Head(into[r])
      BY <1>1, AcksKnown, TakenOff
    <3> QED BY <1>5, <3>1, AcksKnown
  <2> DEFINE x == [type |-> "ack", steer |-> q, accepted |-> FALSE]
  <2>2. Says(r, x) /\ UNCHANGED <<runner, steer>>
    BY <1>5, <2>1 DEF Control
  <2>3. x \in Said /\ x.type = "ack" /\ ~x.accepted
    BY DEF Said
  <2> HIDE DEF x
  <2>4. StartOK(r)' /\ StopOK(r)'
    BY <1>1, <1>2, <1>3, <2>2 DEF StartOK, Working, Booted, StopOK
  <2>5. Goes(r, runner[r])
    BY <1>1, <1>2, <2>2, Same DEF Goes, Booted
  <2>6. Reports(r, runner[r], x)
    BY <2>2, <2>3 DEF Reports
  <2> QED BY <2>4, <2>5, <2>6, GoesKeeps
<1>6. CASE Head(into[r]).type = "steer" /\ ~runner[r].closed /\ runner[r].attached
  <2>1. /\ steer' = [steer EXCEPT ![Head(into[r]).steer].runner = "persisting"]
        /\ UNCHANGED <<runner, out>>
    BY <1>6 DEF Control
  <2> QED BY <1>1, <1>6, <2>1, ControlTakes
<1> QED BY <1>4, <1>5, <1>6 DEF Control

LEMMA PersistedKeeps ==
  ASSUME RunInv, NEW q \in Steers, Persisted(q)
  PROVE  RunInv'
<1>1. /\ steer \in [Steers -> Instruction] /\ SteerOK(q) /\ out \in [Runs -> Seq(Said)]
      /\ steer[q].runner = "persisting"
  BY DEF RunInv, Shape, Persisted
<1>2. steer[q].run \in Runs
  BY <1>1 DEF SteerOK, Instruction
<1>3. PICK r \in Runs : r = steer[q].run
  BY <1>2
<1>4. PICK z \in {"handed", "idle", "late", "lost"} :
        /\ steer' = [steer EXCEPT ![q].runner = z]
        /\ Says(r, [type |-> "ack", steer |-> q, accepted |-> z # "lost"])
        /\ z = "late" => runner[r].closed
  <2>1. CASE /\ steer' = [steer EXCEPT ![q].runner =
                            IF runner[r].closed THEN "late"
                            ELSE IF runner[r].stage = "draining" THEN "idle" ELSE "handed"]
             /\ Says(r, [type |-> "ack", steer |-> q, accepted |-> TRUE])
    <3> DEFINE w == IF runner[r].closed THEN "late"
                    ELSE IF runner[r].stage = "draining" THEN "idle" ELSE "handed"
    <3>1. /\ w \in {"handed", "idle", "late"} /\ (w # "lost") = TRUE
          /\ w = "late" => runner[r].closed
      OBVIOUS
    <3>2. steer' = [steer EXCEPT ![q].runner = w]
      BY <2>1
    <3>3. Says(r, [type |-> "ack", steer |-> q, accepted |-> w # "lost"])
      BY <2>1, <3>1
    <3> QED BY <3>1, <3>2, <3>3
  <2>2. CASE /\ steer' = [steer EXCEPT ![q].runner = "lost"]
             /\ Says(r, [type |-> "ack", steer |-> q, accepted |-> FALSE])
    <3>1. ("lost" # "lost") = FALSE
      OBVIOUS
    <3>2. Says(r, [type |-> "ack", steer |-> q, accepted |-> "lost" # "lost"])
      BY <2>2, <3>1
    <3> QED BY <2>2, <3>2
  <2> QED BY <1>3, <2>1, <2>2 DEF Persisted
<1> DEFINE x == [type |-> "ack", steer |-> q, accepted |-> z # "lost"]
<1>5. UNCHANGED <<host, runner, into, registry, stop>> /\ Says(r, x)
  BY <1>4 DEF Persisted
<1>6. /\ x \in Said /\ x.type = "ack" /\ x.steer = q
      /\ x.accepted => z \in {"handed", "idle", "late"}
  BY DEF Said
<1> HIDE DEF x
<1>7. /\ steer' \in [Steers -> Instruction]
      /\ \A p \in Steers : SteerOK(p)'
      /\ \A p \in Steers : steer'[p].run = steer[p].run /\ steer'[p].asked = steer[p].asked
      /\ \A p \in Steers \ {q} : steer'[p] = steer[p]
      /\ steer'[q].runner = z
      /\ \A k \in Runs : SteersSeen(k) /\ (k # r => SteersKept(k))
  BY <1>1, <1>2, <1>3, <1>4, SteerMoves
<1>8. \/ UNCHANGED out
      \/ host[r].client = "open" /\ out' = [out EXCEPT ![r] = Append(@, x)]
  BY <1>5 DEF Says
<1>9. RunOK(r)
  BY DEF RunInv
<1>10. StartOK(r)' /\ ControlOK(r)' /\ StopOK(r)'
  BY <1>5, <1>7, <1>9 DEF RunOK, StartOK, Working, Booted, ControlOK, Settled, StopOK
<1>11. SteersUnseen(r)
  BY <1>1, <1>7 DEF SteersUnseen
<1>12. IntoOK(r)'
  BY <1>5, <1>11, IntoStays
<1>13. Later(r) /\ EndSaid(r)
  BY <1>5 DEF Later, EndSaid, Booted
<1>14. /\ \A k \in Runs \ {r} : out'[k] = out[k]
       /\ out' \in [Runs -> Seq(Said)]
       /\ OutOK(r)'
  <2>1. CASE UNCHANGED out
    BY <1>1, <1>5, <1>7, <1>13, <2>1, OutStays
  <2>2. CASE host[r].client = "open" /\ out' = [out EXCEPT ![r] = Append(@, x)]
    <3>1. out'[r] = Append(out[r], x) /\ Append(out[r], x) \in Seq(Said)
      BY <1>1, <1>6, <2>2, Appended
    <3>2. x.type = "ack" /\ x.accepted =>
            /\ steer'[x.steer].run = r /\ steer'[x.steer].runner \in {"handed", "idle", "late"}
            /\ steer'[x.steer].runner = "late" => runner[r].closed /\ host[r].client = "open"
      BY <1>3, <1>4, <1>6, <1>7, <2>2
    <3>3. OutOK(r)'
      BY <1>5, <1>6, <1>7, <1>13, <3>1, <3>2, OutGrows
    <3> QED BY <1>1, <2>2, <3>1, <3>3
  <2> QED BY <1>8, <2>1, <2>2
<1>15. Shape'
  BY <1>5, <1>7, <1>14 DEF RunInv, Shape
<1>16. \A k \in Runs \ {r} : Apart(k) /\ SteersKept(k)
  BY <1>5, <1>7, <1>14 DEF Apart
<1>17. RunOK(r)'
  BY <1>10, <1>12, <1>14 DEF RunOK
<1> QED BY <1>7, <1>15, <1>16, <1>17, OneRun

-----------------------------------------------------------------------------
(* The theorems *)

LEMMA InitHolds == Init => RunInv
<1> SUFFICES ASSUME Init PROVE RunInv
  OBVIOUS
<1>1. Shape
  <2>1. NoHost \in Promise
    BY DEF NoHost, Promise
  <2>2. NoRunner \in Container
    BY DEF NoRunner, Container, Stages, Exits
  <2>3. NoSteer \in Instruction
    BY DEF NoSteer, Instruction
  <2> QED BY <2>1, <2>2, <2>3 DEF Init, Shape, Stops
<1>2. ASSUME NEW r \in Runs PROVE RunOK(r)
  <2>1. /\ host[r] = NoHost /\ runner[r] = NoRunner /\ out[r] = <<>> /\ into[r] = <<>>
        /\ stop[r] = "no" /\ registry # r
    BY <1>2, RunNumbers DEF Init
  <2>2. \A q \in Steers : steer[q].run # r
    BY <1>2, RunNumbers DEF Init, NoSteer
  <2>3. StartOK(r) /\ ControlOK(r) /\ StopOK(r)
    BY <2>1, <2>2
       DEF StartOK, ControlOK, StopOK, NoHost, NoRunner, Working, Booted, Settled
  <2>4. OutOK(r) /\ IntoOK(r)
    BY <2>1, <2>2 DEF OutOK, IntoOK, Once, Acked, NoRunner
  <2> QED BY <2>3, <2>4 DEF RunOK
<1>3. \A q \in Steers : SteerOK(q)
  BY DEF Init, NoSteer, SteerOK
<1> QED BY <1>1, <1>2, <1>3 DEF RunInv

LEMMA HostKeeps ==
  ASSUME RunInv, NEW r \in Runs, HostStep(r) \/ Timeout(r) \/ Start(r)
  PROVE  RunInv'
BY ReadLineKeeps, MarkedKeeps, ReapKeeps, CloseKeeps, PayloadLostKeeps, BrokenPipeKeeps,
   StopStepsKeep, StopHardKeeps, StopKilledKeeps, TimeoutKeeps, StartKeeps DEF HostStep

LEMMA MishapsKeep ==
  ASSUME RunInv, NEW r \in Runs, Mishaps(r)
  PROVE  RunInv'
BY SpawnErrorKeeps, MarkFailsKeeps, CancelKeeps, ExitsKeep DEF Mishaps

LEMMA RunnerKeeps ==
  ASSUME RunInv, NEW r \in Runs, RunnerStep(r)
  PROVE  RunInv'
BY BootKeeps, ReadPayloadKeeps, CompactKeeps, AttachKeeps, AgentEndsKeeps, ControlKeeps,
   LoopEndsKeeps, ExitsKeep DEF RunnerStep

LEMMA NextKeeps == RunInv /\ [Next]_vars => RunInv'
<1> SUFFICES ASSUME RunInv, [Next]_vars PROVE RunInv'
  OBVIOUS
<1>1. CASE UNCHANGED vars
  BY <1>1 DEF vars, RunInv, Shape, RunOK, StartOK, ControlOK, StopOK, OutOK, IntoOK, SteerOK,
              Working, Booted, Settled, Once, Acked
<1>2. ASSUME NEW r \in Runs,
             Start(r) \/ HostStep(r) \/ Timeout(r) \/ Mishaps(r) \/ RunnerStep(r)
      PROVE  RunInv'
  BY <1>2, HostKeeps, MishapsKeep, RunnerKeeps
<1>3. ASSUME NEW q \in Steers, Steer(q) \/ Persisted(q)
      PROVE  RunInv'
  BY <1>3, SteerKeeps, PersistedKeeps
<1>4. CASE Stop
  BY <1>4, StopKeeps
<1> QED BY <1>1, <1>2, <1>3, <1>4 DEF Next

(* The invariant holds of every run of a session (manager.ts, steering.ts, *)
(* agent-runner.ts): the two theorems below follow from it.                *)
THEOREM RunInvariant == Spec => []RunInv
<1>1. Init => RunInv
  BY InitHolds
<1>2. RunInv /\ [Next]_vars => RunInv'
  BY NextKeeps
<1> QED BY <1>1, <1>2, PTL DEF Spec

(* /steer (manager.ts, steering.ts): what Discord reports as accepted is   *)
(* stored and was given to the agent of that run before its controller     *)
(* closed.  That the agent still ran is not claimed, and is not so         *)
(* (SteersReachWork of AgentRun fails).                                    *)
THEOREM SteersTruthful == Spec => []SteerTruthful
BY RunInvariant, SteersFollow, PTL

(* /stop (discord-command-service.ts, manager.ts, active-run-registry.ts): *)
(* one that is answered as done has ended the run, and no run that has     *)
(* settled is left in the registry.                                        *)
THEOREM StopsHonoured == Spec => []StopHonoured
BY RunInvariant, StopsFollow, PTL
=============================================================================
