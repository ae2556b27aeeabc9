--------------------------- MODULE DeliveryProofs ---------------------------
(***************************************************************************)
(* Machine-checked safety of the delivery outbox, for every set of jobs,   *)
(* every number of chunks and every bound on faults and crashes.           *)
(***************************************************************************)
EXTENDS Delivery, TLAPS

-----------------------------------------------------------------------------
(* The invariant *)

St(j, i) == rows[j][i].status
Th(j, i) == rows[j][i].thread

(* The shape of the state. *)
RowsOK ==
  /\ rows = [j \in Jobs |-> rows[j]]
  /\ \A j \in Jobs : rows[j] \in Rows(j)

PostedOK ==
  /\ posted = [j \in Jobs |-> posted[j]]
  /\ \A j \in Jobs : posted[j] \in [Index(j) -> Nat]

Shape ==
  /\ RowsOK /\ PostedOK
  /\ promoted \in [Jobs -> BOOLEAN] /\ renamed \in [Jobs -> BOOLEAN]
  /\ claim \in [Jobs -> {"none", "held", "read", "released"}]
  /\ threads \in [Jobs -> Nat]
  /\ worker \in [at : At, job : Jobs \cup {Idle.job}, chunk : Nat, kind : Kind]

(* The row knows the thread of its job, if there is one. *)
Clean(j, i) == threads[j] = 0 \/ Th(j, i)

(* Chunks are attempted in order; one that was attempted and is not known  *)
(* to be sent holds back the rest, and only those it holds back may miss   *)
(* the thread.  A response of RSS is given up as a whole.                  *)
RowsInOrder ==
  \A j \in Jobs :
    /\ \A i \in Index(j) :
         St(j, i) \in {"sending", "sent", "ambiguous"}
           => \A k \in 1 .. i - 1 : St(j, k) = "sent"
    /\ \A i, k \in Index(j) : St(j, i) = "none" => St(j, k) = "none"
    /\ \A i \in Index(j) : St(j, i) = "none" => threads[j] = 0
    /\ j \in RssJobs =>
         \A i, k \in Index(j) : St(j, i) = "failed" => St(j, k) \notin Unsent
    /\ \A i \in Index(j) : St(j, i) \in Unsent =>
         Clean(j, i) \/ \E k \in Index(j) : St(j, k) \in {"sending", "ambiguous"}

(* What the worker knows at each step of a delivery.                       *)
Undone == worker.at = "failing" /\ worker.kind # "unknown"

WorkerKnows ==
  /\ worker.at # "idle" => J \in Jobs /\ C \in Index(J)
  /\ worker.at \notin {"idle", "notify"} => St(J, C) = "sending"
  /\ worker.at \in {"open", "create", "post", "parent"} \/ Undone => posted[J][C] = 0
  /\ worker.at \in {"rename", "provision", "undo", "start", "sent"} => posted[J][C] = 1
  /\ worker.at = "persist" =>
       posted[J][C] = IF Mode[J] = "item-thread" THEN 1 ELSE 0
  /\ worker.at \in {"open", "post", "sent"} \/ Undone =>
       \A i \in Index(J) : i = C \/ St(J, i) \in Unsent => Clean(J, i)
  /\ worker.at \in {"create", "parent", "rename", "provision", "undo", "start"} =>
       threads[J] = 0
  /\ worker.at = "create" => Mode[J] # "item-thread"
  /\ worker.at \in {"parent", "rename", "provision", "undo", "start"} =>
       Mode[J] = "item-thread"
  /\ worker.at \in {"provision", "start"} => renamed[J]
  /\ worker.at = "start" => promoted[J]

ClaimsSettled ==
  \A j \in Jobs :
    /\ claim[j] = "read" => \A i \in Index(j) : St(j, i) = "sent"
    /\ claim[j] = "released" => \E i \in Index(j) : St(j, i) \in {"failed", "ambiguous"}

Facts == RowsInOrder /\ WorkerKnows /\ ClaimsSettled
           /\ StatusTruthful /\ PromotedBeforeVisible

DeliveryInv == Shape /\ Facts

-----------------------------------------------------------------------------
(* What it implies *)

LEMMA FirstChunk == \A j \in Jobs : 1 \in Index(j) /\ Chunks[j] \in Nat
BY DeliveryAssumption DEF Index

LEMMA ChunksFollow == DeliveryInv => ReadInOnePlace
<1> SUFFICES ASSUME DeliveryInv, NEW j \in Jobs, NEW i \in Index(j), posted[j][i] > 0,
                    NEW k \in 1 .. i - 1
             PROVE  rows[j][k].status = "sent"
  BY DEF DeliveryInv, Facts, ReadInOnePlace, ChunksInOrder
<1>1. St(j, i) \in Status
  BY DEF DeliveryInv, Shape, RowsOK, Rows, St
<1>2. St(j, i) \in {"sending", "sent", "ambiguous"}
  BY <1>1 DEF DeliveryInv, Facts, StatusTruthful, St, Status, Unsent
<1> QED BY <1>2 DEF DeliveryInv, Facts, RowsInOrder, St

LEMMA ClaimsFollow == DeliveryInv => ClaimMatchesOutcome
<1> SUFFICES ASSUME DeliveryInv, NEW j \in RssJobs
             PROVE  /\ claim[j] = "read" => \A i \in Index(j) : posted[j][i] = 1
                    /\ claim[j] = "released" =>
                         \A i \in Index(j) : ~MayClaim(rows, j, i)
  BY DEF ClaimMatchesOutcome
<1>1. j \in Jobs
  BY DeliveryAssumption
<1>2. claim[j] = "read" => \A i \in Index(j) : posted[j][i] = 1
  BY <1>1 DEF DeliveryInv, Facts, ClaimsSettled, StatusTruthful, St
<1>3. ASSUME claim[j] = "released", NEW i \in Index(j),
             St(j, i) \in Unsent, Unblocked(rows, j, i)
      PROVE  FALSE
  <2>1. PICK k \in Index(j) : St(j, k) \in {"failed", "ambiguous"}
    BY <1>1, <1>3 DEF DeliveryInv, Facts, ClaimsSettled
  <2>2. St(j, k) = "ambiguous"
    BY <1>1, <1>3, <2>1 DEF DeliveryInv, Facts, RowsInOrder
  <2>3. i \in Nat /\ k \in Nat /\ k >= 1 /\ i >= 1
    BY <1>1, FirstChunk DEF Index
  <2>4. CASE i < k
    <3>1. i \in 1 .. k - 1
      BY <2>3, <2>4
    <3> QED BY <1>1, <1>3, <2>2, <3>1 DEF DeliveryInv, Facts, RowsInOrder, Unsent
  <2>5. CASE k < i
    <3>1. k \in 1 .. i - 1
      BY <2>3, <2>5
    <3> QED BY <1>3, <2>2, <3>1 DEF Unblocked, St
  <2>6. CASE i = k
    BY <1>3, <2>2, <2>6 DEF Unsent
  <2> QED BY <2>3, <2>4, <2>5, <2>6
<1> QED BY <1>2, <1>3 DEF MayClaim, St

-----------------------------------------------------------------------------
(* What the table operations do to each row *)

RowSet == [status : Status, lapsed : BOOLEAN, thread : BOOLEAN]

LEMMA Marked ==
  ASSUME NEW r \in RowSet, NEW s \in Status
  PROVE  /\ LET q == [r EXCEPT !.status = s, !.lapsed = FALSE] IN
            q \in RowSet /\ q.status = s /\ q.thread = r.thread
         /\ LET q == [r EXCEPT !.status = s] IN
            q \in RowSet /\ q.status = s /\ q.thread = r.thread
BY DEF RowSet

LEMMA RowsShape ==
  ASSUME RowsOK, NEW j \in Jobs
  PROVE  /\ rows[j] \in [Index(j) -> RowSet]
         /\ \A i \in Index(j) : rows[j][i] \in RowSet /\ St(j, i) \in Status
                                   /\ Th(j, i) \in BOOLEAN
BY DEF RowsOK, Rows, RowSet, St, Th

(* The rows of one job are set.                                            *)
LEMMA SetJob ==
  ASSUME RowsOK, NEW j \in Jobs, NEW t \in [Index(j) -> RowSet],
         rows' = [rows EXCEPT ![j] = t]
  PROVE  /\ RowsOK'
         /\ \A i \in Index(j) : St(j, i)' = t[i].status /\ Th(j, i)' = t[i].thread
         /\ \A h \in Jobs \ {j} : \A i \in Index(h) :
              St(h, i)' = St(h, i) /\ Th(h, i)' = Th(h, i)
<1>1. rows'[j] = t /\ \A h \in Jobs \ {j} : rows'[h] = rows[h]
  BY DEF RowsOK
<1>2. rows' = [h \in Jobs |-> rows'[h]]
  BY DEF RowsOK
<1>3. \A h \in Jobs : rows'[h] \in Rows(h)
  BY <1>1 DEF RowsOK, Rows, RowSet
<1> QED BY <1>1, <1>2, <1>3 DEF RowsOK, St, Th

(* One row is set.                                                         *)
LEMMA SetRow ==
  ASSUME RowsOK, NEW j \in Jobs, NEW i \in Index(j), NEW r \in RowSet,
         rows' = [rows EXCEPT ![j] = [rows[j] EXCEPT ![i] = r]]
  PROVE  /\ RowsOK'
         /\ St(j, i)' = r.status /\ Th(j, i)' = r.thread
         /\ \A h \in Jobs : \A k \in Index(h) : h # j \/ k # i =>
              St(h, k)' = St(h, k) /\ Th(h, k)' = Th(h, k)
<1> DEFINE t == [rows[j] EXCEPT ![i] = r]
<1>1. rows[j] \in [Index(j) -> RowSet]
  BY RowsShape
<1>2. t \in [Index(j) -> RowSet]
  BY <1>1
<1>3. \A k \in Index(j) : t[k] = IF k = i THEN r ELSE rows[j][k]
  BY <1>1
<1>4. rows' = [rows EXCEPT ![j] = t]
  OBVIOUS
<1> HIDE DEF t
<1>5. RowsOK'
  BY <1>2, <1>4, SetJob
<1>6. \A k \in Index(j) : St(j, k)' = t[k].status /\ Th(j, k)' = t[k].thread
  BY <1>2, <1>4, SetJob
<1>7. \A h \in Jobs \ {j} : \A k \in Index(h) :
        St(h, k)' = St(h, k) /\ Th(h, k)' = Th(h, k)
  BY <1>2, <1>4, SetJob
<1> QED BY <1>3, <1>5, <1>6, <1>7 DEF St, Th

LEMMA CommitRows ==
  ASSUME RowsOK, NEW j \in Jobs, Commit(j)
  PROVE  /\ RowsOK'
         /\ \A i \in Index(j) : St(j, i)' = "pending" /\ Th(j, i)' = Th(j, i)
         /\ \A h \in Jobs \ {j} : \A i \in Index(h) :
              St(h, i)' = St(h, i) /\ Th(h, i)' = Th(h, i)
<1> DEFINE t == [i \in Index(j) |-> [rows[j][i] EXCEPT !.status = "pending"]]
<1>1. rows' = [rows EXCEPT ![j] = t]
  BY DEF Commit, RowsOK
<1>2. \A i \in Index(j) : t[i] \in RowSet /\ t[i].status = "pending"
                             /\ t[i].thread = rows[j][i].thread
  BY RowsShape DEF RowSet, Status
<1>3. t \in [Index(j) -> RowSet]
  BY <1>2
<1> HIDE DEF t
<1> QED BY <1>1, <1>2, <1>3, SetJob DEF Th

LEMMA MarkRows ==
  ASSUME RowsOK, J \in Jobs, C \in Index(J), NEW s \in Status, Mark(s)
  PROVE  /\ RowsOK'
         /\ \A j \in Jobs : \A i \in Index(j) :
              /\ St(j, i)' = IF j = J /\ i = C THEN s ELSE St(j, i)
              /\ Th(j, i)' = Th(j, i)
<1> DEFINE r == [rows[J][C] EXCEPT !.status = s, !.lapsed = FALSE]
<1>1. r \in RowSet /\ r.status = s /\ r.thread = rows[J][C].thread
  BY RowsShape DEF RowSet
<1>2. rows' = [rows EXCEPT ![J] = [rows[J] EXCEPT ![C] = r]]
  BY DEF Mark
<1> HIDE DEF r
<1>3. PICK j \in Jobs : j = J
  OBVIOUS
<1>4. PICK i \in Index(j) : i = C
  BY <1>3
<1>5. PICK q \in RowSet : q = r
  BY <1>1
<1>6. rows' = [rows EXCEPT ![j] = [rows[j] EXCEPT ![i] = q]]
  BY <1>2, <1>3, <1>4, <1>5
<1>7. /\ RowsOK'
      /\ St(j, i)' = q.status /\ Th(j, i)' = q.thread
      /\ \A h \in Jobs : \A k \in Index(h) : h # j \/ k # i =>
           St(h, k)' = St(h, k) /\ Th(h, k)' = Th(h, k)
  BY <1>6, SetRow
<1> QED BY <1>1, <1>3, <1>4, <1>5, <1>7 DEF Th

LEMMA MarkBatchRows ==
  ASSUME RowsOK, J \in Jobs, C \in Index(J), NEW s \in Status, MarkBatch(s)
  PROVE  /\ RowsOK'
         /\ \A j \in Jobs : \A i \in Index(j) :
              /\ St(j, i)' = IF j # J THEN St(j, i)
                             ELSE IF i = C THEN s
                             ELSE IF St(j, i) \in Unsent THEN "failed" ELSE St(j, i)
              /\ Th(j, i)' = Th(j, i)
<1> DEFINE t == [i \in Index(J) |->
                   IF i = C THEN [rows[J][i] EXCEPT !.status = s, !.lapsed = FALSE]
                   ELSE IF rows[J][i].status \in Unsent
                   THEN [rows[J][i] EXCEPT !.status = "failed"] ELSE rows[J][i]]
<1>1. PICK j \in Jobs : j = J
  OBVIOUS
<1>2. ASSUME NEW i \in Index(j)
      PROVE  /\ t[i] \in RowSet /\ t[i].thread = rows[J][i].thread
             /\ t[i].status = IF i = C THEN s
                              ELSE IF rows[J][i].status \in Unsent THEN "failed"
                              ELSE rows[J][i].status
  <2>1. PICK r \in RowSet : r = rows[J][i]
    BY <1>1, RowsShape
  <2>2. t[i] = IF i = C THEN [r EXCEPT !.status = s, !.lapsed = FALSE]
               ELSE IF r.status \in Unsent THEN [r EXCEPT !.status = "failed"] ELSE r
    BY <1>1, <2>1
  <2>3. "failed" \in Status
    BY DEF Status
  <2> HIDE DEF t
  <2>4. CASE i = C
    <3>1. /\ [r EXCEPT !.status = s, !.lapsed = FALSE] \in RowSet
          /\ [r EXCEPT !.status = s, !.lapsed = FALSE].status = s
          /\ [r EXCEPT !.status = s, !.lapsed = FALSE].thread = r.thread
      BY Marked
    <3> QED BY <2>1, <2>2, <2>4, <3>1
  <2>5. CASE i # C
    <3>1. /\ [r EXCEPT !.status = "failed"] \in RowSet
          /\ [r EXCEPT !.status = "failed"].status = "failed"
          /\ [r EXCEPT !.status = "failed"].thread = r.thread
      BY <2>3, Marked
    <3> QED BY <2>1, <2>2, <2>5, <3>1
  <2> QED BY <2>4, <2>5
<1>3. t \in [Index(j) -> RowSet]
  BY <1>1, <1>2
<1>4. rows' = [rows EXCEPT ![j] = t]
  BY <1>1 DEF MarkBatch
<1> HIDE DEF t
<1>5. PICK u \in [Index(j) -> RowSet] : u = t
  BY <1>3
<1>6. /\ RowsOK'
      /\ \A i \in Index(j) : St(j, i)' = u[i].status /\ Th(j, i)' = u[i].thread
      /\ \A h \in Jobs \ {j} : \A i \in Index(h) :
           St(h, i)' = St(h, i) /\ Th(h, i)' = Th(h, i)
  BY <1>4, <1>5, SetJob
<1> QED BY <1>1, <1>2, <1>5, <1>6 DEF St, Th

LEMMA SetThreadRows ==
  ASSUME RowsOK, J \in Jobs, C \in Index(J), SetThread
  PROVE  /\ RowsOK'
         /\ \A j \in Jobs : \A i \in Index(j) :
              /\ St(j, i)' = St(j, i)
              /\ Th(j, i) \/ (j = J /\ (i = C \/ St(j, i) \in Unsent)) => Th(j, i)'
<1> DEFINE t == [i \in Index(J) |->
                   IF i = C \/ rows[J][i].status \in Unsent
                   THEN [rows[J][i] EXCEPT !.thread = TRUE] ELSE rows[J][i]]
<1>1. PICK j \in Jobs : j = J
  OBVIOUS
<1>2. \A i \in Index(j) :
        /\ t[i] \in RowSet /\ t[i].status = rows[J][i].status
        /\ rows[J][i].thread \/ i = C \/ rows[J][i].status \in Unsent => t[i].thread
  BY <1>1, RowsShape DEF RowSet
<1>3. t \in [Index(j) -> RowSet]
  BY <1>1, <1>2
<1>4. rows' = [rows EXCEPT ![j] = t]
  BY <1>1 DEF SetThread
<1> HIDE DEF t
<1>5. PICK u \in [Index(j) -> RowSet] : u = t
  BY <1>3
<1>6. /\ RowsOK'
      /\ \A i \in Index(j) : St(j, i)' = u[i].status /\ Th(j, i)' = u[i].thread
      /\ \A h \in Jobs \ {j} : \A i \in Index(h) :
           St(h, i)' = St(h, i) /\ Th(h, i)' = Th(h, i)
  BY <1>4, <1>5, SetJob
<1> QED BY <1>1, <1>2, <1>5, <1>6 DEF St, Th

LEMMA LapseRows ==
  ASSUME RowsOK, NEW j \in Jobs, NEW i \in Index(j), LeaseLapses(j, i)
  PROVE  /\ RowsOK'
         /\ \A h \in Jobs : \A k \in Index(h) :
              St(h, k)' = St(h, k) /\ Th(h, k)' = Th(h, k)
<1> DEFINE r == [rows[j][i] EXCEPT !.lapsed = TRUE]
<1>1. r \in RowSet /\ r.status = rows[j][i].status /\ r.thread = rows[j][i].thread
  BY RowsShape DEF RowSet
<1>2. rows' = [rows EXCEPT ![j] = [rows[j] EXCEPT ![i] = r]]
  BY DEF LeaseLapses
<1> HIDE DEF r
<1>3. PICK q \in RowSet : q = r
  BY <1>1
<1>4. /\ RowsOK'
      /\ St(j, i)' = q.status /\ Th(j, i)' = q.thread
      /\ \A h \in Jobs : \A k \in Index(h) : h # j \/ k # i =>
           St(h, k)' = St(h, k) /\ Th(h, k)' = Th(h, k)
  BY <1>2, <1>3, SetRow
<1> QED BY <1>1, <1>3, <1>4 DEF St, Th

(* Refreshing turns sending rows into ambiguous ones and tells threads.    *)
LEMMA Refreshes ==
  ASSUME RowsOK, NEW j \in Jobs, NEW i \in Index(j)
  PROVE  /\ Refreshed[j][i] \in RowSet
         /\ \/ Refreshed[j][i].status = St(j, i)
            \/ St(j, i) = "sending" /\ Refreshed[j][i].status = "ambiguous"
         /\ Th(j, i) => Refreshed[j][i].thread
<1>1. rows[j][i] \in RowSet
  BY RowsShape
<1>2. Refreshed[j][i] = Informed(j, Expired(rows[j][i]))
  BY DEF Refreshed
<1>3. /\ Expired(rows[j][i]) \in RowSet
      /\ Expired(rows[j][i]).thread = rows[j][i].thread
      /\ \/ Expired(rows[j][i]).status = rows[j][i].status
         \/ /\ rows[j][i].status = "sending"
            /\ Expired(rows[j][i]).status = "ambiguous"
  BY <1>1 DEF Expired, RowSet, Status
<1>4. \A r \in RowSet : /\ Informed(j, r) \in RowSet
                        /\ Informed(j, r).status = r.status
                        /\ r.thread => Informed(j, r).thread
  BY DEF Informed, RowSet
<1> QED BY <1>2, <1>3, <1>4 DEF St, Th

(* Rows after a claim or a poll that found nothing, but for the claimed    *)
(* one.                                                                    *)
Fresh(h, k) ==
  /\ St(h, k)' = St(h, k) \/ (St(h, k) = "sending" /\ St(h, k)' = "ambiguous")
  /\ Th(h, k) => Th(h, k)'

LEMMA RefreshedRows ==
  ASSUME RowsOK, rows' = Refreshed
  PROVE  RowsOK' /\ \A h \in Jobs : \A k \in Index(h) : Fresh(h, k)
<1>1. rows' = [j \in Jobs |-> rows'[j]]
  BY DEF Refreshed
<1>2. ASSUME NEW j \in Jobs PROVE rows'[j] \in Rows(j)
  <2>1. rows'[j] = [i \in Index(j) |-> Refreshed[j][i]]
    BY DEF Refreshed
  <2> QED BY <2>1, Refreshes DEF Rows, RowSet
<1>3. ASSUME NEW h \in Jobs, NEW k \in Index(h) PROVE Fresh(h, k)
  BY Refreshes DEF Fresh, St, Th
<1> QED BY <1>1, <1>2, <1>3 DEF RowsOK

LEMMA ClaimRows ==
  ASSUME RowsOK, NEW j \in Jobs, NEW i \in Index(j), ClaimRow(j, i)
  PROVE  /\ RowsOK'
         /\ St(j, i)' = "sending" /\ St(j, i) \in Unsent
         /\ Th(j, i) => Th(j, i)'
         /\ \A k \in 1 .. i - 1 :
              St(j, k) = "sent" \/ (j \in RssJobs /\ St(j, k) = "failed")
         /\ \A h \in Jobs : \A k \in Index(h) : h # j \/ k # i => Fresh(h, k)
<1> DEFINE R == Refreshed
           r == [R[j][i] EXCEPT !.status = "sending", !.lapsed = FALSE]
<1>1. /\ R = [h \in Jobs |-> [k \in Index(h) |-> R[h][k]]]
      /\ \A h \in Jobs : \A k \in Index(h) : R[h][k] \in RowSet
  <2>1. R = [h \in Jobs |-> [k \in Index(h) |-> R[h][k]]]
    BY DEF Refreshed
  <2> QED BY <2>1, Refreshes
<1>2. MayClaim(R, j, i) /\ rows' = Claimed(R, j, i)
  BY DEF ClaimRow
<1>3. \A h \in Jobs : \A k \in Index(h) :
        /\ R[h][k].status = St(h, k)
             \/ (St(h, k) = "sending" /\ R[h][k].status = "ambiguous")
        /\ Th(h, k) => R[h][k].thread
  BY Refreshes
<1> HIDE DEF R
<1>4. r \in RowSet /\ r.status = "sending" /\ r.thread = R[j][i].thread
  BY <1>1 DEF RowSet, Status
<1>5. rows' = [R EXCEPT ![j] = [R[j] EXCEPT ![i] = r]]
  BY <1>2 DEF Claimed
<1>6. R[j] \in [Index(j) -> RowSet]
  BY <1>1
<1> HIDE DEF r
<1>7. /\ rows' = [h \in Jobs |-> rows'[h]]
      /\ rows'[j] = [R[j] EXCEPT ![i] = r]
      /\ \A h \in Jobs \ {j} : rows'[h] = R[h]
  BY <1>1, <1>5
<1>8. /\ rows'[j] \in [Index(j) -> RowSet]
      /\ rows'[j][i] = r
      /\ \A k \in Index(j) \ {i} : rows'[j][k] = R[j][k]
  BY <1>4, <1>6, <1>7
<1>9. \A h \in Jobs : rows'[h] \in Rows(h)
  BY <1>1, <1>7, <1>8 DEF Rows, RowSet
<1>10. \A h \in Jobs : \A k \in Index(h) : h # j \/ k # i => Fresh(h, k)
  BY <1>3, <1>7, <1>8 DEF Fresh, St, Th
<1>11. St(j, i) \in Unsent
  BY <1>2, <1>3 DEF MayClaim, Unsent
<1>12. ASSUME NEW k \in 1 .. i - 1
       PROVE  St(j, k) = "sent" \/ (j \in RssJobs /\ St(j, k) = "failed")
  <2>1. k \in Index(j)
    BY FirstChunk DEF Index
  <2> QED BY <1>2, <1>3, <2>1 DEF MayClaim, Unblocked
<1> QED BY <1>3, <1>4, <1>7, <1>8, <1>9, <1>10, <1>11, <1>12 DEF RowsOK, St, Th

-----------------------------------------------------------------------------
(* What the other operations do *)

LEMMA GotoWorker ==
  ASSUME Shape, NEW at \in At, Goto(at)
  PROVE  /\ worker' \in [at : At, job : Jobs \cup {Idle.job}, chunk : Nat, kind : Kind]
         /\ worker'.at = at /\ J' = J /\ C' = C /\ worker'.kind = worker.kind
BY DEF Shape, Goto, J, C

LEMMA FailWorker ==
  ASSUME Shape, NEW kind \in Kind, Fail(kind)
  PROVE  /\ worker' \in [at : At, job : Jobs \cup {Idle.job}, chunk : Nat, kind : Kind]
         /\ worker'.at = "failing" /\ J' = J /\ C' = C /\ worker'.kind = kind
BY DEF Shape, Fail, J, C, At

LEMMA IdleWorker ==
  ASSUME Shape, worker' = Idle
  PROVE  /\ worker' \in [at : At, job : Jobs \cup {Idle.job}, chunk : Nat, kind : Kind]
         /\ worker'.at = "idle"
BY DEF Idle, At, Kind

LEMMA Posts ==
  ASSUME PostedOK, J \in Jobs, C \in Index(J), NewMessage
  PROVE  /\ PostedOK'
         /\ posted'[J][C] = posted[J][C] + 1
         /\ \A j \in Jobs : \A i \in Index(j) :
              j # J \/ i # C => posted'[j][i] = posted[j][i]
<1>1. posted[J] \in [Index(J) -> Nat] /\ posted[J][C] + 1 \in Nat
  BY DEF PostedOK
<1>2. posted' = [posted EXCEPT ![J] = [posted[J] EXCEPT ![C] = posted[J][C] + 1]]
  BY DEF NewMessage
<1>3. /\ posted' = [j \in Jobs |-> posted'[j]]
      /\ posted'[J] = [posted[J] EXCEPT ![C] = posted[J][C] + 1]
      /\ \A j \in Jobs \ {J} : posted'[j] = posted[j]
  BY <1>2 DEF PostedOK
<1>4. /\ posted'[J] \in [Index(J) -> Nat]
      /\ posted'[J][C] = posted[J][C] + 1
      /\ \A i \in Index(J) \ {C} : posted'[J][i] = posted[J][i]
  BY <1>1, <1>3
<1> QED BY <1>3, <1>4 DEF PostedOK

LEMMA Threads ==
  ASSUME threads \in [Jobs -> Nat], J \in Jobs, NewThread
  PROVE  /\ threads' \in [Jobs -> Nat]
         /\ threads'[J] = threads[J] + 1
         /\ \A j \in Jobs \ {J} : threads'[j] = threads[j]
BY DEF NewThread

(* The facts about tables and Discord stay when both do.                   *)
LEMMA Unmoved ==
  ASSUME DeliveryInv, UNCHANGED <<store, discord>>,
         worker' \in [at : At, job : Jobs \cup {Idle.job}, chunk : Nat, kind : Kind]
  PROVE  /\ Shape' /\ RowsInOrder' /\ ClaimsSettled' /\ StatusTruthful'
         /\ PromotedBeforeVisible'
BY DEF DeliveryInv, Shape, RowsOK, PostedOK, store, discord, Facts, RowsInOrder,
       ClaimsSettled, StatusTruthful, PromotedBeforeVisible, St, Th, Clean

-----------------------------------------------------------------------------
(* Sending *)

LEMMA OpenKeeps ==
  ASSUME DeliveryInv, Open
  PROVE  DeliveryInv'
<1>1. /\ WorkerKnows /\ Shape /\ worker.at = "open" /\ J \in Jobs /\ C \in Index(J)
      /\ UNCHANGED <<store, discord>>
  BY DEF Open, Sending, DeliveryInv, Facts, WorkerKnows
<1>2. ASSUME NEW kind \in {"retryable", "non-retryable"}, Fail(kind)
      PROVE  DeliveryInv'
  <2>1. kind \in Kind
    BY DEF Kind
  <2>2. WorkerKnows'
    BY <1>1, <1>2, <2>1, FailWorker
       DEF WorkerKnows, Undone, St, Th, Clean, store, discord
  <2> QED BY <1>1, <1>2, <2>1, <2>2, FailWorker, Unmoved DEF DeliveryInv, Facts
<1>3. ASSUME NEW at \in {"post", "create", "parent"}, Goto(at),
             at # "post" => ~Th(J, C),
             at = "create" => Mode[J] = "new-thread",
             at = "parent" => Mode[J] = "item-thread"
      PROVE  DeliveryInv'
  <2>1. at \in At
    BY DEF At
  <2>2. at # "post" => threads[J] = 0
    BY <1>1, <1>3 DEF WorkerKnows, Clean
  <2>3. WorkerKnows'
    BY <1>1, <1>3, <2>1, <2>2, GotoWorker
       DEF WorkerKnows, Undone, St, Th, Clean, store, discord
  <2> QED BY <1>1, <1>3, <2>1, <2>3, GotoWorker, Unmoved DEF DeliveryInv, Facts
<1> QED BY <1>2, <1>3 DEF Open, Th

(* A message is posted for the row in hand.                                *)
LEMMA MessageMoves ==
  ASSUME DeliveryInv, worker.at \in {"post", "parent"},
         NewMessage, UNCHANGED <<store, threads>>,
         worker' \in [at : At, job : Jobs \cup {Idle.job}, chunk : Nat, kind : Kind]
  PROVE  /\ Shape' /\ RowsInOrder' /\ ClaimsSettled' /\ StatusTruthful'
         /\ PromotedBeforeVisible' /\ posted'[J][C] = 1
<1>1. /\ J \in Jobs /\ C \in Index(J) /\ St(J, C) = "sending" /\ posted[J][C] = 0
      /\ PostedOK /\ Shape
  BY DEF DeliveryInv, Facts, WorkerKnows, Shape
<1>2. /\ PostedOK' /\ posted'[J][C] = 1
      /\ \A j \in Jobs : \A i \in Index(j) :
           j # J \/ i # C => posted'[j][i] = posted[j][i]
  BY <1>1, Posts
<1>3. Shape'
  BY <1>1, <1>2 DEF Shape, RowsOK, store
<1>4. RowsInOrder' /\ ClaimsSettled' /\ PromotedBeforeVisible'
  BY DEF DeliveryInv, Facts, RowsInOrder, ClaimsSettled, PromotedBeforeVisible,
         St, Th, Clean, store
<1>5. StatusTruthful'
  BY <1>1, <1>2 DEF DeliveryInv, Facts, StatusTruthful, St, store, Unsent
<1> QED BY <1>2, <1>3, <1>4, <1>5

LEMMA PostKeeps ==
  ASSUME DeliveryInv, Post \/ PostParent
  PROVE  DeliveryInv'
<1> DEFINE next == IF worker.at = "post" THEN "sent" ELSE "rename"
<1>1. /\ WorkerKnows /\ Shape /\ worker.at \in {"post", "parent"}
      /\ J \in Jobs /\ C \in Index(J) /\ UNCHANGED <<store, threads>>
  BY DEF Post, PostParent, Sending, DeliveryInv, Facts, WorkerKnows
<1>2. \/ NewMessage /\ (Goto(next) \/ Fail("unknown"))
      \/ UNCHANGED posted /\ \E kind \in Kind : Fail(kind)
  BY DEF Post, PostParent, Sending, Mutate, Kind
<1>3. CASE NewMessage /\ Goto(next)
  <2>1. next \in At
    BY DEF At
  <2>2. posted'[J][C] = 1
    BY <1>1, <1>3, <2>1, GotoWorker, MessageMoves
  <2>3. WorkerKnows'
    BY <1>1, <1>3, <2>1, <2>2, GotoWorker
       DEF WorkerKnows, Undone, St, Th, Clean, store
  <2> QED BY <1>1, <1>3, <2>1, <2>3, GotoWorker, MessageMoves DEF DeliveryInv, Facts
<1>4. CASE NewMessage /\ Fail("unknown")
  <2>1. "unknown" \in Kind
    BY DEF Kind
  <2>2. WorkerKnows'
    BY <1>1, <1>4, <2>1, FailWorker DEF WorkerKnows, Undone, St, store
  <2> QED BY <1>1, <1>4, <2>1, <2>2, FailWorker, MessageMoves DEF DeliveryInv, Facts
<1>5. ASSUME UNCHANGED posted, NEW kind \in Kind, Fail(kind)
      PROVE  DeliveryInv'
  <2>1. \A i \in Index(J) : i = C \/ St(J, i) \in Unsent => Clean(J, i)
    BY <1>1 DEF WorkerKnows, Clean
  <2>2. WorkerKnows'
    BY <1>1, <1>5, <2>1, FailWorker
       DEF WorkerKnows, Undone, St, Th, Clean, store
  <2>3. UNCHANGED <<store, discord>>
    BY <1>1, <1>5 DEF discord
  <2> QED BY <1>1, <1>5, <2>2, <2>3, FailWorker, Unmoved DEF DeliveryInv, Facts
<1> QED BY <1>2, <1>3, <1>4, <1>5

(* A thread is created for the row in hand.                                *)
LEMMA ThreadMoves ==
  ASSUME DeliveryInv, worker.at \in {"create", "start"},
         NewThread, UNCHANGED <<store, posted>>,
         worker' \in [at : At, job : Jobs \cup {Idle.job}, chunk : Nat, kind : Kind]
  PROVE  /\ Shape' /\ RowsInOrder' /\ ClaimsSettled' /\ StatusTruthful'
         /\ PromotedBeforeVisible'
<1>1. /\ J \in Jobs /\ C \in Index(J) /\ St(J, C) = "sending" /\ threads[J] = 0
      /\ Shape
  BY DEF DeliveryInv, Facts, WorkerKnows
<1>2. /\ threads' \in [Jobs -> Nat] /\ threads'[J] = 1
      /\ \A j \in Jobs \ {J} : threads'[j] = threads[j]
  BY <1>1, Threads DEF Shape
<1>3. Shape'
  BY <1>1, <1>2 DEF Shape, RowsOK, PostedOK, store
<1>4. ClaimsSettled' /\ StatusTruthful'
  BY DEF DeliveryInv, Facts, ClaimsSettled, StatusTruthful, St, store
<1>5. PromotedBeforeVisible'
  BY <1>1, <1>2
     DEF DeliveryInv, Facts, WorkerKnows, PromotedBeforeVisible, store
<1>6. RowsInOrder'
  BY <1>1, <1>2 DEF DeliveryInv, Facts, RowsInOrder, Clean, St, Th, store
<1> QED BY <1>3, <1>4, <1>5, <1>6

LEMMA CreateKeeps ==
  ASSUME DeliveryInv, CreateThread \/ StartThread
  PROVE  DeliveryInv'
<1>1. /\ WorkerKnows /\ Shape /\ worker.at \in {"create", "start"}
      /\ J \in Jobs /\ C \in Index(J) /\ UNCHANGED <<store, posted>>
  BY DEF CreateThread, StartThread, Sending, DeliveryInv, Facts, WorkerKnows
<1>2. \/ NewThread /\ (Goto("persist") \/ Fail("unknown"))
      \/ UNCHANGED threads /\ Fail("unknown")
      \/ UNCHANGED threads /\ worker.at = "create" /\ \E kind \in Kind : Fail(kind)
  BY DEF CreateThread, StartThread, Sending, Mutate, Kind
<1>3. CASE NewThread /\ Goto("persist")
  <2>1. "persist" \in At
    BY DEF At
  <2>2. WorkerKnows'
    BY <1>1, <1>3, <2>1, GotoWorker DEF WorkerKnows, Undone, St, store
  <2> QED BY <1>1, <1>3, <2>1, <2>2, GotoWorker, ThreadMoves DEF DeliveryInv, Facts
<1>4. CASE NewThread /\ Fail("unknown")
  <2>1. "unknown" \in Kind
    BY DEF Kind
  <2>2. WorkerKnows'
    BY <1>1, <1>4, <2>1, FailWorker DEF WorkerKnows, Undone, St, store
  <2> QED BY <1>1, <1>4, <2>1, <2>2, FailWorker, ThreadMoves DEF DeliveryInv, Facts
<1>5. ASSUME UNCHANGED threads, NEW kind \in Kind, Fail(kind),
             kind = "unknown" \/ worker.at = "create"
      PROVE  DeliveryInv'
  <2>1. kind # "unknown" =>
          posted[J][C] = 0 /\ \A i \in Index(J) : Clean(J, i)
    BY <1>1, <1>5 DEF WorkerKnows, Clean
  <2>2. UNCHANGED <<store, discord>>
    BY <1>1, <1>5 DEF discord
  <2>3. WorkerKnows'
    BY <1>1, <1>5, <2>1, <2>2, FailWorker
       DEF WorkerKnows, Undone, St, Th, Clean, store, discord
  <2> QED BY <1>1, <1>5, <2>2, <2>3, FailWorker, Unmoved DEF DeliveryInv, Facts
<1> QED BY <1>2, <1>3, <1>4, <1>5 DEF Kind

(* The session of an item thread is promoted, or its promotion is undone;  *)
(* there is no thread yet.                                                 *)
LEMMA PromotionKeeps ==
  ASSUME DeliveryInv, RenameSession \/ ProvisionCronJob \/ UndoRename
  PROVE  DeliveryInv'
<1>1. /\ WorkerKnows /\ Shape /\ worker.at \in {"rename", "provision", "undo"}
      /\ J \in Jobs /\ C \in Index(J) /\ UNCHANGED <<rows, claim, discord>>
      /\ threads[J] = 0 /\ "unknown" \in Kind
  BY DEF RenameSession, ProvisionCronJob, UndoRename, Sending, DeliveryInv, Facts,
         WorkerKnows, Kind
<1>2. /\ renamed' \in [Jobs -> BOOLEAN] /\ promoted' \in [Jobs -> BOOLEAN]
      /\ \A j \in Jobs \ {J} : renamed'[j] = renamed[j] /\ promoted'[j] = promoted[j]
  BY <1>1 DEF RenameSession, ProvisionCronJob, UndoRename, Shape
<1>3. \/ Goto("provision") /\ worker.at = "rename" /\ renamed'[J]
      \/ Goto("start") /\ worker.at = "provision" /\ promoted'[J] /\ UNCHANGED renamed
      \/ Goto("undo") /\ worker.at = "provision"
      \/ Fail("unknown")
  BY <1>1 DEF RenameSession, ProvisionCronJob, UndoRename, Sending, Shape
<1>4. /\ worker' \in [at : At, job : Jobs \cup {Idle.job}, chunk : Nat, kind : Kind]
      /\ WorkerKnows'
  <2>1. CASE Fail("unknown")
    BY <1>1, <2>1, FailWorker DEF WorkerKnows, Undone, St, discord
  <2>2. ASSUME NEW at \in {"provision", "start", "undo"}, Goto(at),
               at \in {"provision", "start"} => renamed'[J],
               at = "start" => promoted'[J]
        PROVE  <1>4
    <3>1. at \in At
      BY DEF At
    <3>2. posted[J][C] = 1 /\ Mode[J] = "item-thread"
      BY <1>1 DEF WorkerKnows
    <3> QED BY <1>1, <2>2, <3>1, <3>2, GotoWorker DEF WorkerKnows, Undone, St, discord
  <2> QED BY <1>1, <1>3, <2>1, <2>2 DEF WorkerKnows
<1>5. Shape'
  BY <1>1, <1>2, <1>4 DEF Shape, RowsOK, PostedOK, discord
<1>6. RowsInOrder' /\ ClaimsSettled' /\ StatusTruthful'
  BY <1>1 DEF DeliveryInv, Facts, RowsInOrder, ClaimsSettled, StatusTruthful, St, Th,
              Clean, discord
<1>7. PromotedBeforeVisible'
  BY <1>1, <1>2 DEF DeliveryInv, Facts, PromotedBeforeVisible, discord
<1> QED BY <1>4, <1>5, <1>6, <1>7 DEF DeliveryInv, Facts

LEMMA EarlierChunks ==
  \A j \in Jobs : \A i \in Index(j) : \A k \in 1 .. i - 1 : k \in Index(j)
BY FirstChunk DEF Index

LEMMA OrderStays ==
  ASSUME RowsInOrder, UNCHANGED threads,
         \A j \in Jobs : \A i \in Index(j) :
           St(j, i)' = St(j, i) /\ (Clean(j, i) => Clean(j, i)')
  PROVE  RowsInOrder'
<1> SUFFICES ASSUME NEW j \in Jobs
             PROVE  /\ \A i \in Index(j) :
                         St(j, i)' \in {"sending", "sent", "ambiguous"}
                           => \A k \in 1 .. i - 1 : St(j, k)' = "sent"
                    /\ \A i, k \in Index(j) : St(j, i)' = "none" => St(j, k)' = "none"
                    /\ \A i \in Index(j) : St(j, i)' = "none" => threads'[j] = 0
                    /\ j \in RssJobs =>
                         \A i, k \in Index(j) : St(j, i)' = "failed" => St(j, k)' \notin Unsent
                    /\ \A i \in Index(j) : St(j, i)' \in Unsent =>
                         Clean(j, i)' \/ \E k \in Index(j) : St(j, k)' \in {"sending", "ambiguous"}
  BY DEF RowsInOrder
<1> QED BY EarlierChunks DEF RowsInOrder

LEMMA PersistKeeps ==
  ASSUME DeliveryInv, PersistThread
  PROVE  DeliveryInv'
<1>1. /\ WorkerKnows /\ Shape /\ worker.at = "persist" /\ RowsOK
      /\ J \in Jobs /\ C \in Index(J) /\ UNCHANGED <<promoted, renamed, claim, discord>>
      /\ "unknown" \in Kind
  BY DEF PersistThread, Sending, DeliveryInv, Facts, WorkerKnows, Shape, Kind
<1>2. CASE UNCHANGED rows /\ Fail("unknown")
  <2>1. UNCHANGED <<store, discord>>
    BY <1>1, <1>2 DEF store
  <2>2. WorkerKnows'
    BY <1>1, <1>2, <2>1, FailWorker DEF WorkerKnows, Undone, St, store, discord
  <2> QED BY <1>1, <1>2, <2>1, <2>2, FailWorker, Unmoved DEF DeliveryInv, Facts
<1>3. CASE SetThread /\ Goto(IF Mode[J] = "item-thread" THEN "sent" ELSE "post")
  <2>1. PICK at \in {"sent", "post"} :
          Goto(at) /\ (at = "sent" <=> Mode[J] = "item-thread")
    BY <1>3
  <2>2. at \in At
    BY DEF At
  <2>3. /\ RowsOK'
        /\ \A j \in Jobs : \A i \in Index(j) :
             /\ St(j, i)' = St(j, i)
             /\ Th(j, i) \/ (j = J /\ (i = C \/ St(j, i) \in Unsent)) => Th(j, i)'
    BY <1>1, <1>3, SetThreadRows
  <2>4. Shape'
    BY <1>1, <2>1, <2>2, <2>3, GotoWorker DEF Shape, PostedOK, discord
  <2>5. \A j \in Jobs : \A i \in Index(j) : Clean(j, i) => Clean(j, i)'
    BY <1>1, <2>3 DEF Clean, discord
  <2>6. RowsInOrder'
    BY <1>1, <2>3, <2>5, OrderStays DEF DeliveryInv, Facts, discord
  <2>7. ClaimsSettled'
    BY <1>1, <2>3 DEF DeliveryInv, Facts, ClaimsSettled
  <2>8. StatusTruthful'
    BY <1>1, <2>3 DEF DeliveryInv, Facts, StatusTruthful, St, discord
  <2>9. PromotedBeforeVisible'
    BY <1>1 DEF DeliveryInv, Facts, PromotedBeforeVisible, discord
  <2>10. \A j \in Jobs : j = J =>
           \A i \in Index(j) : i = C \/ St(j, i)' \in Unsent => Clean(j, i)'
    BY <1>1, <2>3 DEF Clean
  <2>11. posted[J][C] = IF Mode[J] = "item-thread" THEN 1 ELSE 0
    BY <1>1 DEF WorkerKnows
  <2>12. WorkerKnows'
    BY <1>1, <2>1, <2>2, <2>3, <2>10, <2>11, GotoWorker
       DEF WorkerKnows, Undone, discord
  <2> QED BY <2>4, <2>6, <2>7, <2>8, <2>9, <2>12 DEF DeliveryInv, Facts
<1> QED BY <1>2, <1>3 DEF PersistThread

-----------------------------------------------------------------------------
(* Recording the outcome *)

(* The row in hand leaves sending for good: as sent with its message, as   *)
(* ambiguous, or without a message as failed or for another try; an RSS    *)
(* response that is not sent takes the waiting rows with it.               *)
LEMMA OutcomeMoves ==
  ASSUME DeliveryInv, worker.at \in {"sent", "failing"},
         NEW s \in Final \cup {"retry_wait"}, NEW whole \in BOOLEAN,
         s = "sent" => worker.at = "sent",
         s \in {"failed", "retry_wait"} => Undone,
         s = "retry_wait" => J \notin RssJobs,
         IF whole THEN MarkBatch(s) /\ s \in {"failed", "ambiguous"}
                  ELSE Mark(s) /\ (s = "failed" => J \notin RssJobs),
         UNCHANGED <<promoted, renamed, claim, discord>>,
         worker' \in [at : At, job : Jobs \cup {Idle.job}, chunk : Nat, kind : Kind]
  PROVE  /\ Shape' /\ RowsInOrder' /\ ClaimsSettled' /\ StatusTruthful'
         /\ PromotedBeforeVisible'
<1>1. /\ WorkerKnows /\ RowsInOrder /\ Shape /\ RowsOK /\ s \in Status
      /\ J \in Jobs /\ C \in Index(J) /\ St(J, C) = "sending"
  BY DEF DeliveryInv, Facts, WorkerKnows, Shape, Final, Status
<1>2. /\ RowsOK'
      /\ \A j \in Jobs : \A i \in Index(j) :
           /\ Th(j, i)' = Th(j, i)
           /\ j = J /\ i = C => St(j, i)' = s
           /\ j # J \/ i # C =>
                \/ St(j, i)' = St(j, i)
                \/ whole /\ j = J /\ St(j, i) \in Unsent /\ St(j, i)' = "failed"
           /\ whole /\ j = J => St(j, i)' \notin Unsent
  <2>1. CASE ~whole
    BY <1>1, <2>1, MarkRows
  <2>2. CASE whole
    BY <1>1, <2>2, MarkBatchRows DEF Unsent
  <2> QED BY <2>1, <2>2
<1>3. Shape'
  BY <1>1, <1>2 DEF Shape, PostedOK, discord
<1>4. \A j \in Jobs : \A i \in Index(j) : Clean(j, i)' = Clean(j, i)
  BY <1>2 DEF Clean, discord
<1>5. PromotedBeforeVisible'
  BY DEF DeliveryInv, Facts, PromotedBeforeVisible, discord
<1>6. StatusTruthful'
  <2>1. /\ posted[J][C] <= 1 /\ s = "sent" => posted[J][C] = 1
        /\ s \in {"failed", "retry_wait"} => posted[J][C] = 0
    BY <1>1 DEF DeliveryInv, Facts, StatusTruthful, WorkerKnows
  <2> QED BY <1>1, <1>2, <2>1
             DEF DeliveryInv, Facts, StatusTruthful, St, discord, Unsent, Final
<1>7. ClaimsSettled'
  BY <1>1, <1>2 DEF DeliveryInv, Facts, ClaimsSettled, Unsent
<1>8. RowsInOrder'
  <2> SUFFICES ASSUME NEW j \in Jobs
               PROVE  /\ \A i \in Index(j) :
                           St(j, i)' \in {"sending", "sent", "ambiguous"}
                             => \A k \in 1 .. i - 1 : St(j, k)' = "sent"
                      /\ \A i, k \in Index(j) : St(j, i)' = "none" => St(j, k)' = "none"
                      /\ \A i \in Index(j) : St(j, i)' = "none" => threads'[j] = 0
                      /\ j \in RssJobs =>
                           \A i, k \in Index(j) :
                             St(j, i)' = "failed" => St(j, k)' \notin Unsent
                      /\ \A i \in Index(j) : St(j, i)' \in Unsent =>
                           \/ Clean(j, i)'
                           \/ \E k \in Index(j) : St(j, k)' \in {"sending", "ambiguous"}
    BY DEF RowsInOrder
  <2>1. CASE j # J
    BY <1>1, <1>2, <1>4, <2>1, EarlierChunks DEF RowsInOrder, discord
  <2>2. CASE j = J
    <3>1. ASSUME NEW i \in Index(j), St(j, i)' \in {"sending", "sent", "ambiguous"},
                 NEW k \in 1 .. i - 1
          PROVE  St(j, k)' = "sent"
      <4>1. k \in Index(j) /\ k # i
        BY EarlierChunks
      <4>2. St(j, i) \in {"sending", "sent", "ambiguous"}
        BY <1>1, <1>2, <2>2, <3>1
      <4>3. St(j, k) = "sent"
        BY <1>1, <4>2 DEF RowsInOrder
      <4> QED BY <1>1, <1>2, <2>2, <4>1, <4>3 DEF Unsent
    <3>2. \A i \in Index(j) : St(j, i)' # "none"
      <4>1. \A i \in Index(j) : St(j, i) # "none"
        BY <1>1, <2>2 DEF RowsInOrder
      <4> QED BY <1>2, <2>2, <4>1 DEF Final
    <3>3. ASSUME j \in RssJobs, NEW i \in Index(j), NEW k \in Index(j), St(j, i)' = "failed"
          PROVE  St(j, k)' \notin Unsent
      <4>1. CASE whole
        BY <1>2, <2>2, <4>1
      <4>2. CASE ~whole
        BY <1>1, <1>2, <2>2, <3>3, <4>2 DEF RowsInOrder, Unsent, Final
      <4> QED BY <4>1, <4>2
    <3>4. ASSUME NEW i \in Index(j), St(j, i)' \in Unsent
          PROVE  \/ Clean(j, i)'
                 \/ \E k \in Index(j) : St(j, k)' \in {"sending", "ambiguous"}
      <4>1. CASE s = "ambiguous"
        BY <1>1, <1>2, <2>2, <4>1
      <4>2. CASE s # "ambiguous"
        <5>1. \A h \in Index(j) : h = C \/ St(j, h) \in Unsent => Clean(j, h)
          BY <1>1, <2>2, <4>2 DEF WorkerKnows, Final
        <5>2. i = C \/ St(j, i) \in Unsent
          BY <1>2, <2>2, <3>4 DEF Unsent
        <5> QED BY <1>4, <5>1, <5>2
      <4> QED BY <4>1, <4>2
    <3> QED BY <3>1, <3>2, <3>3, <3>4
  <2> QED BY <2>1, <2>2
<1> QED BY <1>3, <1>5, <1>6, <1>7, <1>8

LEMMA RecordSentKeeps ==
  ASSUME DeliveryInv, RecordSent
  PROVE  DeliveryInv'
<1>1. /\ WorkerKnows /\ Shape /\ worker.at = "sent" /\ J \in Jobs /\ C \in Index(J)
      /\ UNCHANGED <<promoted, renamed, claim, discord>>
      /\ "unknown" \in Kind /\ "notify" \in At
  BY DEF RecordSent, Sending, DeliveryInv, Facts, WorkerKnows, Kind, At
<1>2. CASE Mark("sent") /\ (Goto("notify") \/ worker' = Idle)
  <2>1. /\ worker' \in [at : At, job : Jobs \cup {Idle.job}, chunk : Nat, kind : Kind]
        /\ worker'.at \in {"notify", "idle"}
        /\ worker'.at = "notify" => J' = J /\ C' = C
    BY <1>1, <1>2, GotoWorker, IdleWorker
  <2>2. WorkerKnows'
    BY <1>1, <2>1 DEF WorkerKnows, Undone
  <2>3. /\ "sent" \in Final \cup {"retry_wait"} /\ FALSE \in BOOLEAN
    BY DEF Final
  <2> QED BY <1>1, <1>2, <2>1, <2>2, <2>3, OutcomeMoves DEF DeliveryInv, Facts
<1>3. CASE UNCHANGED rows /\ Fail("unknown")
  <2>1. UNCHANGED <<store, discord>>
    BY <1>1, <1>3 DEF store
  <2>2. WorkerKnows'
    BY <1>1, <1>3, <2>1, FailWorker DEF WorkerKnows, Undone, St, store, discord
  <2> QED BY <1>1, <1>3, <2>1, <2>2, FailWorker, Unmoved DEF DeliveryInv, Facts
<1> QED BY <1>2, <1>3 DEF RecordSent

LEMMA RecordFailureKeeps ==
  ASSUME DeliveryInv, RecordFailure
  PROVE  DeliveryInv'
<1>1. /\ WorkerKnows /\ Shape /\ worker.at = "failing" /\ J \in Jobs /\ C \in Index(J)
      /\ UNCHANGED <<promoted, renamed, claim, discord>> /\ "notify" \in At
      /\ worker.kind \in Kind
  BY DEF RecordFailure, Sending, DeliveryInv, Facts, WorkerKnows, At, Shape
<1>2. PICK s \in Final \cup {"retry_wait"} :
        /\ s # "sent"
        /\ s \in {"failed", "retry_wait"} => Undone
        /\ \/ /\ J \in RssJobs
              /\ MarkBatch(IF s = "ambiguous" THEN s ELSE "failed")
              /\ Goto("notify")
           \/ J \notin RssJobs /\ Mark(s) /\ worker' = Idle
           \/ UNCHANGED rows /\ worker' = Idle
  <2>1. CASE worker.kind = "unknown"
    BY <1>1, <2>1 DEF RecordFailure, Final, Undone
  <2>2. CASE worker.kind = "non-retryable"
    BY <1>1, <2>2 DEF RecordFailure, Final, Undone
  <2>3. CASE worker.kind = "retryable"
    BY <1>1, <2>3 DEF RecordFailure, Final, Undone
  <2> QED BY <1>1, <2>1, <2>2, <2>3 DEF Kind
<1>3. /\ worker' \in [at : At, job : Jobs \cup {Idle.job}, chunk : Nat, kind : Kind]
      /\ worker'.at \in {"notify", "idle"}
      /\ worker'.at = "notify" => J' = J /\ C' = C
  BY <1>1, <1>2, GotoWorker, IdleWorker
<1>4. WorkerKnows'
  BY <1>1, <1>3 DEF WorkerKnows, Undone
<1>5. ASSUME NEW u \in {"failed", "ambiguous"}, MarkBatch(u),
             u = "failed" => Undone
      PROVE  DeliveryInv'
  <2>1. u \in Final \cup {"retry_wait"} /\ TRUE \in BOOLEAN
    BY DEF Final
  <2> QED BY <1>1, <1>3, <1>4, <1>5, <2>1, OutcomeMoves DEF DeliveryInv, Facts
<1>6. CASE J \notin RssJobs /\ Mark(s)
  <2>1. FALSE \in BOOLEAN
    OBVIOUS
  <2> QED BY <1>1, <1>2, <1>3, <1>4, <1>6, <2>1, OutcomeMoves DEF DeliveryInv, Facts
<1>7. CASE UNCHANGED rows
  <2>1. UNCHANGED <<store, discord>>
    BY <1>1, <1>7 DEF store
  <2> QED BY <1>3, <1>4, <2>1, Unmoved DEF DeliveryInv, Facts
<1>8. s \notin {"sent", "ambiguous"} => s \in {"failed", "retry_wait"}
  BY DEF Final
<1> QED BY <1>2, <1>5, <1>6, <1>7, <1>8

LEMMA NotifyKeeps ==
  ASSUME DeliveryInv, Notify
  PROVE  DeliveryInv'
<1>1. /\ Shape /\ worker.at = "notify" /\ J \in Jobs
      /\ UNCHANGED <<rows, promoted, renamed, discord>> /\ worker' = Idle
  BY DEF Notify, Sending, DeliveryInv, Facts, WorkerKnows
<1>2. /\ worker' \in [at : At, job : Jobs \cup {Idle.job}, chunk : Nat, kind : Kind]
      /\ worker'.at = "idle"
  BY <1>1, IdleWorker
<1>3. WorkerKnows'
  BY <1>2 DEF WorkerKnows, Undone
<1>4. RowsInOrder' /\ StatusTruthful' /\ PromotedBeforeVisible'
  BY <1>1 DEF DeliveryInv, Facts, RowsInOrder, StatusTruthful, PromotedBeforeVisible,
              St, Th, Clean, discord
<1>5. /\ Verdict(J) \in {"read", "released", "held"}
      /\ Verdict(J) = "read" => \A i \in Index(J) : St(J, i) = "sent"
      /\ Verdict(J) = "released" => \E i \in Index(J) : St(J, i) \in {"failed", "ambiguous"}
  BY DEF Verdict, St
<1>6. /\ claim' \in [Jobs -> {"none", "held", "read", "released"}]
      /\ \A j \in Jobs : claim'[j] = claim[j] \/ (j = J /\ claim'[j] = Verdict(J))
  BY <1>1, <1>5 DEF Notify, Settled, Shape
<1>7. Shape'
  BY <1>1, <1>2, <1>6 DEF Shape, RowsOK, PostedOK, discord
<1>8. ClaimsSettled'
  BY <1>1, <1>5, <1>6 DEF DeliveryInv, Facts, ClaimsSettled, St
<1> QED BY <1>3, <1>4, <1>7, <1>8 DEF DeliveryInv, Facts

-----------------------------------------------------------------------------
(* Crash and start *)

LEMMA RestartKeeps ==
  ASSUME DeliveryInv, Crash \/ Start
  PROVE  DeliveryInv'
<1>1. UNCHANGED <<rows, promoted, renamed, discord>> /\ Shape
  BY DEF Crash, Start, store, discord, DeliveryInv
<1>2. RowsInOrder' /\ StatusTruthful' /\ PromotedBeforeVisible'
  BY <1>1 DEF DeliveryInv, Facts, RowsInOrder, StatusTruthful, PromotedBeforeVisible,
              St, Th, Clean, discord
<1>3. WorkerKnows'
        /\ worker' \in [at : At, job : Jobs \cup {Idle.job}, chunk : Nat, kind : Kind]
  <2>1. CASE Crash
    <3>1. worker' = Idle
      BY <2>1 DEF Crash
    <3> QED BY <1>1, <3>1, IdleWorker DEF WorkerKnows, Undone
  <2>2. CASE Start
    <3>1. UNCHANGED worker
      BY <2>2 DEF Start
    <3> QED BY <1>1, <3>1 DEF WorkerKnows, Undone, DeliveryInv, Facts, Shape, St, Th,
                              Clean, J, C, discord
  <2> QED BY <2>1, <2>2
<1>4. /\ claim' \in [Jobs -> {"none", "held", "read", "released"}]
      /\ \A j \in Jobs : claim'[j] = claim[j] \/ claim'[j] = Verdict(j)
  <2>1. \A j \in Jobs : Verdict(j) \in {"read", "released", "held"}
    BY DEF Verdict
  <2> QED BY <1>1, <2>1 DEF Crash, Start, Reconciled, Shape, store
<1>5. Shape'
  BY <1>1, <1>3, <1>4 DEF Shape, RowsOK, PostedOK, discord
<1>6. ClaimsSettled'
  <2>1. \A j \in Jobs :
          /\ Verdict(j) = "read" => \A i \in Index(j) : St(j, i) = "sent"
          /\ Verdict(j) = "released" =>
               \E i \in Index(j) : St(j, i) \in {"failed", "ambiguous"}
    BY DEF Verdict, St
  <2> QED BY <1>1, <1>4, <2>1 DEF DeliveryInv, Facts, ClaimsSettled, St
<1> QED BY <1>2, <1>3, <1>5, <1>6 DEF DeliveryInv, Facts

-----------------------------------------------------------------------------
(* The table *)

LEMMA LapseKeeps ==
  ASSUME DeliveryInv, NEW j \in Jobs, NEW i \in Index(j), LeaseLapses(j, i)
  PROVE  DeliveryInv'
<1>1. /\ Shape /\ RowsOK /\ RowsInOrder
      /\ UNCHANGED <<promoted, renamed, claim, discord, worker>>
  BY DEF LeaseLapses, DeliveryInv, Facts, Shape
<1>2. /\ RowsOK'
      /\ \A h \in Jobs : \A k \in Index(h) :
           St(h, k)' = St(h, k) /\ Th(h, k)' = Th(h, k)
  BY <1>1, LapseRows
<1>3. Shape'
  BY <1>1, <1>2 DEF Shape, PostedOK, discord
<1>4. RowsInOrder'
  BY <1>1, <1>2, OrderStays DEF Clean, discord
<1>5. ClaimsSettled' /\ StatusTruthful' /\ PromotedBeforeVisible'
  BY <1>1, <1>2 DEF DeliveryInv, Facts, ClaimsSettled, StatusTruthful,
                    PromotedBeforeVisible, St, discord
<1>6. WorkerKnows'
  BY <1>1, <1>2 DEF DeliveryInv, Facts, WorkerKnows, Undone, Clean, J, C, discord
<1> QED BY <1>3, <1>4, <1>5, <1>6 DEF DeliveryInv, Facts

LEMMA CommitKeeps ==
  ASSUME DeliveryInv, NEW j \in Jobs, Commit(j)
  PROVE  DeliveryInv'
<1>1. /\ Shape /\ RowsOK /\ RowsInOrder /\ WorkerKnows
      /\ UNCHANGED <<promoted, renamed, claim, discord, worker>>
  BY DEF Commit, DeliveryInv, Facts, Shape
<1>2. /\ RowsOK'
      /\ \A i \in Index(j) : St(j, i)' = "pending" /\ Th(j, i)' = Th(j, i)
      /\ \A h \in Jobs \ {j} : \A i \in Index(h) :
           St(h, i)' = St(h, i) /\ Th(h, i)' = Th(h, i)
  BY <1>1, CommitRows
<1>3. (\A i \in Index(j) : St(j, i) = "none") /\ threads[j] = 0
  BY <1>1, FirstChunk DEF Commit, RowsInOrder, St
<1>4. Shape'
  BY <1>1, <1>2 DEF Shape, PostedOK, discord
<1>5. RowsInOrder'
  <2> SUFFICES ASSUME NEW h \in Jobs
               PROVE  /\ \A i \in Index(h) :
                           St(h, i)' \in {"sending", "sent", "ambiguous"}
                             => \A k \in 1 .. i - 1 : St(h, k)' = "sent"
                      /\ \A i, k \in Index(h) : St(h, i)' = "none" => St(h, k)' = "none"
                      /\ \A i \in Index(h) : St(h, i)' = "none" => threads'[h] = 0
                      /\ h \in RssJobs =>
                           \A i, k \in Index(h) :
                             St(h, i)' = "failed" => St(h, k)' \notin Unsent
                      /\ \A i \in Index(h) : St(h, i)' \in Unsent =>
                           \/ Clean(h, i)'
                           \/ \E k \in Index(h) : St(h, k)' \in {"sending", "ambiguous"}
    BY DEF RowsInOrder
  <2>1. CASE h = j
    BY <1>1, <1>2, <1>3, <2>1 DEF Clean, discord
  <2>2. CASE h # j
    BY <1>1, <1>2, <2>2, EarlierChunks DEF RowsInOrder, Clean, discord
  <2> QED BY <2>1, <2>2
<1>6. StatusTruthful'
  BY <1>1, <1>2, <1>3 DEF DeliveryInv, Facts, StatusTruthful, St, discord
<1>7. ClaimsSettled'
  <2>1. claim[j] \notin {"read", "released"}
    BY <1>3, FirstChunk DEF DeliveryInv, Facts, ClaimsSettled
  <2> QED BY <1>1, <1>2, <2>1 DEF DeliveryInv, Facts, ClaimsSettled
<1>8. PromotedBeforeVisible'
  BY <1>1 DEF DeliveryInv, Facts, PromotedBeforeVisible, discord
<1>9. WorkerKnows'
  <2>1. worker.at # "idle" /\ worker.at # "notify" => J # j
    BY <1>1, <1>3 DEF WorkerKnows
  <2> QED BY <1>1, <1>2, <2>1 DEF WorkerKnows, Undone, Clean, J, C, discord
<1> QED BY <1>4, <1>5, <1>6, <1>7, <1>8, <1>9 DEF DeliveryInv, Facts

(* An expired row becomes ambiguous; a row may be claimed.                 *)
LEMMA ClaimKeeps ==
  ASSUME DeliveryInv, NEW claimed \in BOOLEAN, NEW j, NEW i,
         claimed => j \in Jobs /\ i \in Index(j),
         IF claimed THEN ClaimRow(j, i) ELSE ClaimNothing
  PROVE  DeliveryInv'
<1>1. /\ Shape /\ RowsOK /\ RowsInOrder /\ WorkerKnows /\ worker.at = "idle"
      /\ UNCHANGED <<promoted, renamed, claim, discord>>
  BY DEF ClaimRow, ClaimNothing, Sending, DeliveryInv, Facts, Shape
<1>2. /\ RowsOK'
      /\ \A h \in Jobs : \A k \in Index(h) :
           ~claimed \/ h # j \/ k # i => Fresh(h, k)
      /\ claimed => /\ St(j, i)' = "sending" /\ St(j, i) \in Unsent
                    /\ Th(j, i) => Th(j, i)'
                    /\ \A k \in 1 .. i - 1 :
                         St(j, k) = "sent" \/ (j \in RssJobs /\ St(j, k) = "failed")
  <2>1. CASE claimed
    BY <1>1, <2>1, ClaimRows
  <2>2. CASE ~claimed
    <3>1. rows' = Refreshed
      BY <2>2 DEF ClaimNothing
    <3> QED BY <1>1, <2>2, <3>1, RefreshedRows
  <2> QED BY <2>1, <2>2
<1>3. claimed => \A k \in 1 .. i - 1 : St(j, k) = "sent"
  BY <1>1, <1>2, EarlierChunks DEF RowsInOrder
<1>4. claimed => \A k \in Index(j) : St(j, k) \notin {"sending", "ambiguous"}
  <2> SUFFICES ASSUME claimed, NEW k \in Index(j), St(j, k) \in {"sending", "ambiguous"}
               PROVE  FALSE
    OBVIOUS
  <2>1. i \in Nat /\ k \in Nat /\ i >= 1 /\ k >= 1
    BY FirstChunk DEF Index
  <2>2. CASE k < i
    BY <1>3, <2>1, <2>2
  <2>3. CASE i < k
    BY <1>1, <1>2, <2>1, <2>3 DEF RowsInOrder, Unsent
  <2>4. CASE i = k
    BY <1>2, <2>4 DEF Unsent
  <2> QED BY <2>1, <2>2, <2>3, <2>4
<1>5. claimed => \A k \in Index(j) : St(j, k) \in Unsent => Clean(j, k)
  BY <1>1, <1>4 DEF RowsInOrder
<1>6. \A h \in Jobs : \A k \in Index(h) : Clean(h, k) => Clean(h, k)'
  BY <1>1, <1>2 DEF Clean, Fresh, discord
<1>7. /\ worker' \in [at : At, job : Jobs \cup {Idle.job}, chunk : Nat, kind : Kind]
      /\ IF claimed THEN worker'.at = "open" /\ J' = j /\ C' = i
         ELSE worker'.at = "idle"
  <2>1. CASE claimed
    <3>1. worker' = [Idle EXCEPT !.at = "open", !.job = j, !.chunk = i] /\ i \in Nat
      BY <2>1, FirstChunk DEF ClaimRow, Index
    <3> QED BY <2>1, <3>1 DEF Idle, At, Kind, J, C
  <2>2. CASE ~claimed
    BY <1>1, <2>2 DEF ClaimNothing, Shape
  <2> QED BY <2>1, <2>2
<1>8. Shape'
  BY <1>1, <1>2, <1>7 DEF Shape, PostedOK, discord
<1>9. WorkerKnows'
  <2>1. CASE claimed
    <3>1. posted[j][i] = 0
      BY <1>2, <2>1 DEF DeliveryInv, Facts, StatusTruthful, St
    <3>2. \A k \in Index(j) : k = i \/ St(j, k)' \in Unsent => Clean(j, k)'
      BY <1>2, <1>5, <1>6, <2>1 DEF Fresh, Unsent
    <3> QED BY <1>1, <1>2, <1>7, <2>1, <3>1, <3>2 DEF WorkerKnows, Undone, discord
  <2>2. CASE ~claimed
    BY <1>7, <2>2 DEF WorkerKnows, Undone
  <2> QED BY <2>1, <2>2
<1>10. RowsInOrder'
  <2> SUFFICES ASSUME NEW h \in Jobs
               PROVE  /\ \A l \in Index(h) :
                           St(h, l)' \in {"sending", "sent", "ambiguous"}
                             => \A k \in 1 .. l - 1 : St(h, k)' = "sent"
                      /\ \A l, k \in Index(h) : St(h, l)' = "none" => St(h, k)' = "none"
                      /\ \A l \in Index(h) : St(h, l)' = "none" => threads'[h] = 0
                      /\ h \in RssJobs =>
                           \A l, k \in Index(h) :
                             St(h, l)' = "failed" => St(h, k)' \notin Unsent
                      /\ \A l \in Index(h) : St(h, l)' \in Unsent =>
                           \/ Clean(h, l)'
                           \/ \E k \in Index(h) : St(h, k)' \in {"sending", "ambiguous"}
    BY DEF RowsInOrder
  <2>1. ASSUME NEW l \in Index(h), St(h, l)' \in {"sending", "sent", "ambiguous"},
               NEW k \in 1 .. l - 1
        PROVE  St(h, k)' = "sent"
    <3>1. k \in Index(h) /\ k # l
      BY EarlierChunks
    <3>2. St(h, k) = "sent"
      BY <1>1, <1>2, <1>3, <2>1 DEF RowsInOrder, Fresh
    <3> QED BY <1>2, <3>1, <3>2 DEF Fresh, Unsent
  <2>2. \A l, k \in Index(h) : St(h, l)' = "none" => St(h, k)' = "none"
    BY <1>1, <1>2 DEF RowsInOrder, Fresh, Unsent
  <2>3. \A l \in Index(h) : St(h, l)' = "none" => threads'[h] = 0
    BY <1>1, <1>2 DEF RowsInOrder, Fresh, discord
  <2>4. ASSUME h \in RssJobs, NEW l \in Index(h), NEW k \in Index(h), St(h, l)' = "failed"
        PROVE  St(h, k)' \notin Unsent
    BY <1>1, <1>2, <2>4 DEF RowsInOrder, Fresh, Unsent
  <2>5. ASSUME NEW l \in Index(h), St(h, l)' \in Unsent
        PROVE  \/ Clean(h, l)'
               \/ \E k \in Index(h) : St(h, k)' \in {"sending", "ambiguous"}
    <3>1. St(h, l) \in Unsent
      BY <1>2, <2>5 DEF Fresh, Unsent
    <3>2. CASE Clean(h, l)
      BY <1>6, <3>2
    <3>3. ASSUME NEW k \in Index(h), St(h, k) \in {"sending", "ambiguous"}
          PROVE  St(h, k)' \in {"sending", "ambiguous"}
      BY <1>2, <3>3 DEF Fresh, Unsent
    <3> QED BY <1>1, <3>1, <3>2, <3>3 DEF RowsInOrder
  <2> QED BY <2>1, <2>2, <2>3, <2>4, <2>5
<1>11. StatusTruthful'
  BY <1>1, <1>2 DEF DeliveryInv, Facts, StatusTruthful, Fresh, St, Unsent, discord
<1>12. ClaimsSettled'
  BY <1>1, <1>2 DEF DeliveryInv, Facts, ClaimsSettled, Fresh, Unsent
<1>13. PromotedBeforeVisible'
  BY <1>1 DEF DeliveryInv, Facts, PromotedBeforeVisible, discord
<1> QED BY <1>8, <1>9, <1>10, <1>11, <1>12, <1>13 DEF DeliveryInv, Facts

-----------------------------------------------------------------------------
(* The theorems *)

LEMMA InitHolds == Init => DeliveryInv
<1> SUFFICES ASSUME Init PROVE DeliveryInv
  OBVIOUS
<1>1. Shape
  BY DEF Init, Shape, RowsOK, Rows, PostedOK, Status, Idle, At, Kind
<1>2. /\ worker.at = "idle"
      /\ \A j \in Jobs : threads[j] = 0 /\ claim[j] \notin {"read", "released"}
      /\ \A j \in Jobs : \A i \in Index(j) : St(j, i) = "none" /\ posted[j][i] = 0
  BY DEF Init, Idle, St
<1>3. RowsInOrder
  BY <1>2 DEF RowsInOrder, Unsent
<1>4. WorkerKnows
  BY <1>2 DEF WorkerKnows, Undone
<1>5. StatusTruthful
  BY <1>2 DEF StatusTruthful, St
<1>6. PromotedBeforeVisible /\ ClaimsSettled
  BY <1>2 DEF PromotedBeforeVisible, ClaimsSettled
<1> QED BY <1>1, <1>3, <1>4, <1>5, <1>6 DEF DeliveryInv, Facts

LEMMA NextKeeps == DeliveryInv /\ [Next]_vars => DeliveryInv'
<1> SUFFICES ASSUME DeliveryInv, [Next]_vars PROVE DeliveryInv'
  OBVIOUS
<1>1. ASSUME NEW j \in Jobs, NEW i \in Index(j), ClaimRow(j, i)
      PROVE  DeliveryInv'
  <2>1. TRUE \in BOOLEAN
    OBVIOUS
  <2> QED BY <1>1, <2>1, ClaimKeeps
<1>2. CASE ClaimNothing
  <2>1. FALSE \in BOOLEAN
    OBVIOUS
  <2> QED BY <1>2, <2>1, ClaimKeeps
<1>3. CASE UNCHANGED vars
  <2>1. UNCHANGED <<store, discord>> /\ UNCHANGED worker
    BY <1>3 DEF vars
  <2>2. worker' \in [at : At, job : Jobs \cup {Idle.job}, chunk : Nat, kind : Kind]
    BY <2>1 DEF DeliveryInv, Shape
  <2>3. WorkerKnows'
    BY <2>1 DEF DeliveryInv, Facts, WorkerKnows, Undone, Clean, St, Th, J, C, store,
                discord
  <2> QED BY <2>1, <2>2, <2>3, Unmoved DEF DeliveryInv, Facts
<1>4. CASE Send
  BY <1>4, OpenKeeps, PostKeeps, CreateKeeps, PromotionKeeps, PersistKeeps,
     RecordSentKeeps, RecordFailureKeeps, NotifyKeeps DEF Send
<1> QED BY <1>1, <1>2, <1>3, <1>4, CommitKeeps, LapseKeeps, RestartKeeps DEF Next

LEMMA InvariantHolds == Spec => []DeliveryInv
BY InitHolds, NextKeeps, PTL DEF Spec

(* The table never lies about Discord, whatever answers are lost, writes   *)
(* fail and crashes come (queue/repository.ts, queue/delivery.ts).         *)
THEOREM TableTruthful == Spec => []StatusTruthful
<1>1. DeliveryInv => StatusTruthful
  BY DEF DeliveryInv, Facts
<1> QED BY <1>1, InvariantHolds, PTL

(* Readers see a beginning of the response, in one place whose session     *)
(* they can continue.                                                      *)
THEOREM ReadTogether == Spec => []ReadInOnePlace
BY InvariantHolds, ChunksFollow, PTL

(* The articles of a response are read, or given back, only when that is   *)
(* what became of the response.                                            *)
THEOREM ClaimsTruthful == Spec => []ClaimMatchesOutcome
BY InvariantHolds, ClaimsFollow, PTL

=============================================================================
