---------------------------- MODULE InferenceLock ----------------------------
(***************************************************************************)
(* queue/inference-lock.ts for one resource: agent runs of several         *)
(* providers share it, one provider at a time up to its own limit, and a   *)
(* run lends its slot to the synchronous Bot calls it makes, one at a time *)
(* (createHeldInferenceResource, used by proxy/credential-proxy-server.ts  *)
(* and agent/bot-orchestration.ts).  A run ends by closing its scope and   *)
(* gives the slot back when its last borrower has settled (agent/          *)
(* manager.ts, revokeRunResources).                                        *)
(*                                                                         *)
(* Everything between two awaits is one step of the event loop, so the     *)
(* release that pumps the waiters, and the abort that removes one, are     *)
(* atomic.                                                                 *)
(***************************************************************************)
EXTENDS Naturals, Sequences, SequencesExt, FiniteSets

CONSTANTS
  Runs,       \* agent runs that ask for the lock
  Calls,      \* Bot calls
  Parent,     \* Parent[c]: the run that makes the call
  Providers,
  Provider,   \* Provider[r]
  Limits,     \* the concurrency a configuration may give a provider
  NoProvider

(* What the proofs assume of the constants. *)
LockAssumption ==
  /\ Parent \in [Calls -> Runs] /\ Provider \in [Runs -> Providers]
  /\ Limits \subseteq Nat \ {0} /\ NoProvider \notin Providers

VARIABLES
  config,     \* the concurrency of each provider, pinned at startup
  owner, limit, active,   \* OwnedResource
  ahead,      \* its waiters: ahead[r] are those in front of the waiting run r
  run,        \* where each run stands
  call,       \* where each Bot call stands
  queue       \* queue[r]: the calls that wait to borrow the slot of r

resource == <<owner, limit, active, ahead>>
vars == <<config, resource, run, call, queue>>

Waiting == {r \in Runs : run[r] = "waiting"}

Init ==
  /\ config \in [Providers -> Limits]
  /\ owner = NoProvider /\ limit = 0 /\ active = {} /\ ahead = [r \in Runs |-> {}]
  /\ run = [r \in Runs |-> "new"]
  /\ call = [c \in Calls |-> "new"]
  /\ queue = [r \in Runs |-> <<>>]

-----------------------------------------------------------------------------
(* The lock *)

Of(p, w) == Provider[w] = p

(* Who is in front of w: a run that asks only now comes last. *)
Ahead(w) == IF run[w] = "new" THEN Waiting ELSE ahead[w]

(* Who owns the resource after a pump over the waiters W with a in use.    *)
NextOwner(W, a) ==
  IF a = {} /\ \A w \in W : ~Of(owner, w)
  THEN IF W = {} THEN [owner |-> NoProvider, limit |-> 0]
       ELSE LET first == CHOOSE w \in W : Ahead(w) \cap W = {} IN
            [owner |-> Provider[first], limit |-> config[Provider[first]]]
  ELSE [owner |-> owner, limit |-> limit]

(* Mutants: one slot too many is granted; the newest waiter is served.     *)
MutantOneMore(W, a, p, n) ==
  {w \in W : /\ Of(p, w)
             /\ Cardinality(a) + Cardinality({v \in Ahead(w) \cap W : Of(p, v)}) <= n}
MutantNewestFirst(W, a, p, n) ==
  {w \in W : /\ Of(p, w)
             /\ Cardinality(a) + Cardinality({v \in W : w \in Ahead(v) /\ Of(p, v)}) < n}

(* The waiters of p that a pump grants when a is in use, oldest first: the *)
(* slots in use and the waiters of p in front leave one of n free.         *)
Granted(W, a, p, n) ==
  {w \in W : /\ Of(p, w)
             /\ Cardinality(a) + Cardinality({v \in Ahead(w) \cap W : Of(p, v)}) < n}

(* pump: the owner keeps the resource while it uses it or waits for it,    *)
(* then the oldest waiter's provider takes over; as many waiters of the    *)
(* owner as fit get their slot before anybody else runs.  The run r has    *)
(* just come to stage st.                                                  *)
Pump(W, a, r, st) ==
  LET o == NextOwner(W, a)
      g == Granted(W, a, o.owner, o.limit)
  IN /\ owner' = o.owner
     /\ limit' = o.limit
     /\ active' = a \cup g
     /\ ahead' = [w \in Runs |-> IF w \in W \ g THEN Ahead(w) \cap (W \ g) ELSE {}]
     /\ run' = [h \in Runs |-> IF h \in g THEN "holding"
                                ELSE IF h = r THEN st ELSE run[h]]

(* A provider asks with the same limit every time: the configuration is    *)
(* pinned at startup, so the mismatch check of acquireInferenceLock never  *)
(* refuses.  The new waiter is the last.                                   *)
Acquire(r) ==
  /\ run[r] = "new"
  /\ Pump(Waiting \cup {r}, active, r, "waiting")
  /\ UNCHANGED <<config, call, queue>>

AbortWaiter(r) ==
  /\ run[r] = "waiting"
  /\ Pump(Waiting \ {r}, active, r, "done")
  /\ UNCHANGED <<config, call, queue>>

-----------------------------------------------------------------------------
(* Lending the slot *)

Borrowers(r) == {c \in Calls : Parent[c] = r /\ call[c] = "borrowing"}

(* borrow: granted, queued, or rejected when the scope is closed. *)
Borrow(c) ==
  LET r == Parent[c] IN
  /\ call[c] = "new" /\ run[r] \in {"holding", "closing"}
  /\ \/ /\ run[r] = "closing"
        /\ call' = [call EXCEPT ![c] = "done"] /\ UNCHANGED queue
     \/ /\ run[r] = "holding" /\ Borrowers(r) = {}
        /\ call' = [call EXCEPT ![c] = "borrowing"] /\ UNCHANGED queue
     \/ /\ run[r] = "holding" /\ Borrowers(r) # {}
        /\ call' = [call EXCEPT ![c] = "waiting"]
        /\ queue' = [queue EXCEPT ![r] = Append(@, c)]
  /\ UNCHANGED <<config, resource, run>>

(* The client of a waiting call goes away. *)
AbortBorrow(c) ==
  /\ call[c] = "waiting"
  /\ call' = [call EXCEPT ![c] = "done"]
  /\ \E i \in DOMAIN queue[Parent[c]] :
       queue[Parent[c]][i] = c /\ queue' = [queue EXCEPT ![Parent[c]] = RemoveAt(@, i)]
  /\ UNCHANGED <<config, resource, run>>

(* The child run settles; the next call in line gets the slot at once. *)
ReturnSlot(c) ==
  LET r == Parent[c] IN
  /\ call[c] = "borrowing"
  /\ IF queue[r] = <<>>
     THEN call' = [call EXCEPT ![c] = "done"] /\ UNCHANGED queue
     ELSE /\ call' = [call EXCEPT ![c] = "done", ![Head(queue[r])] = "borrowing"]
          /\ queue' = [queue EXCEPT ![r] = Tail(@)]
  /\ UNCHANGED <<config, resource, run>>

(* close: the scope is aborted, and with it the calls that wait in it. *)
Close(r) ==
  /\ run[r] = "holding"
  /\ run' = [run EXCEPT ![r] = "closing"]
  /\ call' = [c \in Calls |-> IF c \in ToSet(queue[r]) THEN "done" ELSE call[c]]
  /\ queue' = [queue EXCEPT ![r] = <<>>]
  /\ UNCHANGED <<config, resource>>

(* Drained: the slot goes back. *)
Release(r) ==
  /\ run[r] = "closing" /\ Borrowers(r) = {}
  /\ Pump(Waiting, active \ {r}, r, "done")
  /\ UNCHANGED <<config, call, queue>>

-----------------------------------------------------------------------------
Next ==
  \/ \E r \in Runs :
       Acquire(r) \/ AbortWaiter(r) \/ Close(r) \/ Release(r)
  \/ \E c \in Calls : Borrow(c) \/ AbortBorrow(c) \/ ReturnSlot(c)

Spec == Init /\ [][Next]_vars

(* Agent runs, of parents and of children, end: they time out. *)
Fairness ==
  /\ \A r \in Runs : WF_vars(Close(r)) /\ WF_vars(Release(r))
  /\ \A c \in Calls : WF_vars(ReturnSlot(c))

LiveSpec == Spec /\ Fairness

-----------------------------------------------------------------------------
(* Properties *)

TypeOK ==
  /\ LockAssumption
  /\ config \in [Providers -> Limits]
  /\ owner \in Providers \cup {NoProvider}
  /\ limit \in Limits \cup {0}
  /\ active \subseteq Runs
  /\ ahead \in [Runs -> SUBSET Runs]
  /\ run \in [Runs -> {"new", "waiting", "holding", "closing", "done"}]
  /\ call \in [Calls -> {"new", "waiting", "borrowing", "done"}]
  /\ queue \in [Runs -> Seq(Calls)]

(* A child only runs on a slot that its parent still holds, and alone.     *)
(* docs/config.md:131: the parent's slot is released after the child ends. *)
BorrowerCovered ==
  \A r \in Runs :
    Borrowers(r) # {} => r \in active /\ Cardinality(Borrowers(r)) = 1

(* The slots in use belong to one provider and are no more than its own    *)
(* configuration allows, also right after the resource has changed hands;  *)
(* the children run on slots of their parents.                             *)
Capacity ==
  /\ BorrowerCovered
  /\ owner # NoProvider => Cardinality(active) <= config[owner]
  /\ \A r \in active : Provider[r] = owner
  /\ active = {r \in Runs : run[r] \in {"holding", "closing"}}

(* Runs of one provider get their slots in the order of their requests.  A *)
(* resource in use, or wanted by its owner, does not change hands; when it *)
(* does, the provider that has waited longest gets it.                     *)
ServedInOrder ==
  [][/\ \A w \in Runs : run[w] \in {"new", "waiting"} /\ run'[w] = "holding" =>
          \A v \in Ahead(w) : Provider[v] = Provider[w] => run'[v] # "waiting"
     /\ owner' # owner /\ owner' # NoProvider /\ Waiting # {} =>
          /\ active' \cap active = {}
          /\ \A w \in Waiting : Of(owner, w) => run'[w] = "done"
          /\ \E w \in Waiting :
               /\ Of(owner', w)
               /\ \A v \in ahead[w] : run'[v] # "waiting"]_vars

=============================================================================
