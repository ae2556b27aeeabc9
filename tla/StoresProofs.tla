---------------------------- MODULE StoresProofs ----------------------------
(***************************************************************************)
(* Machine-checked safety of the parts of Stores.  A step of the host is a *)
(* step of one part or leaves that part alone, so an invariant of a part   *)
(* is an invariant of the host.                                            *)
(***************************************************************************)
EXTENDS Stores, FiniteSetTheorems, SequenceTheorems, WellFoundedInduction, TLAPS

-----------------------------------------------------------------------------
(* The parts in the host *)

LEMMA MailPart == Spec => Mailing!Spec
<1>1. Init => Mailing!Init
  BY DEF Init
<1>2. [Next]_vars => [Mailing!Next]_(Mailing!vars)
  BY DEF Next, vars, mailVars, Mailing!vars
<1> QED BY <1>1, <1>2, PTL DEF Spec, Mailing!Spec

LEMMA FeedsPart == Spec => Feeds!Spec
<1>1. Init => Feeds!Init
  BY DEF Init
<1>2. [Next]_vars => [Feeds!Next]_(Feeds!vars)
  BY DEF Next, vars, rssVars, Feeds!bounded, Feeds!vars
<1> QED BY <1>1, <1>2, PTL DEF Spec, Feeds!Spec

LEMMA PostsPart == Spec => Posts!Spec
<1>1. Init => Posts!Init
  BY DEF Init
<1>2. [Next]_vars => [Posts!Next]_(Posts!vars)
  BY DEF Next, vars, postVars, Posts!vars
<1> QED BY <1>1, <1>2, PTL DEF Spec, Posts!Spec

LEMMA PruningPart == Spec => Pruning!Spec
<1>1. Init => Pruning!Init
  BY DEF Init
<1>2. [Next]_vars => [Pruning!Next]_(Pruning!vars)
  BY DEF Next, vars, pruneVars, Pruning!vars
<1> QED BY <1>1, <1>2, PTL DEF Spec, Pruning!Spec

LEMMA ScreenPart == Spec => Screen!Spec
<1>1. Init => Screen!Init
  BY DEF Init
<1>2. [Next]_vars => [Screen!Next]_(Screen!vars)
  BY DEF Next, vars, screenVars, Screen!vars
<1> QED BY <1>1, <1>2, PTL DEF Spec, Screen!Spec

LEMMA OpeningPart == Spec => Opening!Spec
<1>1. Init => Opening!Init
  BY DEF Init
<1>2. [Next]_vars => [Opening!Next]_(Opening!vars)
  BY DEF Next, vars, schemaVars, Opening!vars
<1> QED BY <1>1, <1>2, PTL DEF Spec, Opening!Spec

-----------------------------------------------------------------------------
(* Pruning *)

Limits == IsFiniteSet(Jobs) /\ Chunks \in Nat /\ BatchSize \in Nat

-----------------------------------------------------------------------------
(* A plan is a sequence of rows *)

LEMMA SequenceOf ==
  ASSUME NEW S, IsFiniteSet(S)
  PROVE  Pruning!SetToSeq(S) \in Seq(S)
<1>1. Cardinality(S) \in Nat /\ ExistsBijection(1 .. Cardinality(S), S)
  BY FS_CardinalityType
<1>2. PICK f \in [1 .. Cardinality(S) -> S] : Pruning!IsInjective(f)
  BY <1>1 DEF ExistsBijection, Bijection, Injection, IsInjective, Pruning!IsInjective
<1>3. Pruning!Cardinality(S) = Cardinality(S)
  BY DEF Pruning!Cardinality, Cardinality
<1>4. Pruning!SetToSeq(S) \in [1 .. Cardinality(S) -> S]
  BY <1>2, <1>3 DEF Pruning!SetToSeq
<1> QED BY <1>1, <1>4

LEMMA ItemsFinite == ASSUME Limits PROVE IsFiniteSet(Pruning!Items)
<1> DEFINE K == {"job", "delivery", "idempotency_key"}
           D == K \X (Jobs \cup {0})
           C == 0 .. Chunks
           P == D \X C
           f == [p \in P |-> <<p[1][1], p[1][2], p[2]>>]
           T == {f[p] : p \in P}
<1>1. IsFiniteSet(K) /\ IsFiniteSet(Jobs \cup {0}) /\ IsFiniteSet(C)
  <2>1. IsFiniteSet({"job"}) /\ IsFiniteSet({"delivery"})
        /\ IsFiniteSet({"idempotency_key"}) /\ IsFiniteSet({0})
    BY FS_Singleton
  <2>2. IsFiniteSet({"job"} \cup {"delivery"})
    BY <2>1, FS_Union
  <2>3. IsFiniteSet(({"job"} \cup {"delivery"}) \cup {"idempotency_key"})
    BY <2>1, <2>2, FS_Union
  <2>4. K = ({"job"} \cup {"delivery"}) \cup {"idempotency_key"}
    OBVIOUS
  <2>5. IsFiniteSet(Jobs \cup {0})
    BY <2>1, FS_Union DEF Limits
  <2>6. IsFiniteSet(C)
    BY FS_Interval DEF Limits
  <2> QED BY <2>3, <2>4, <2>5, <2>6
<1>2. IsFiniteSet(P)
  <2> HIDE DEF K, C
  <2>1. IsFiniteSet(D)
    BY <1>1, FS_Product
  <2> HIDE DEF D
  <2> QED BY <1>1, <2>1, FS_Product
<1>3. IsFiniteSet(T)
  <2>1. f \in Surjection(P, T)
    BY DEF Surjection
  <2> HIDE DEF P, T, f
  <2> QED BY <1>2, <2>1, FS_Surjection
<1>4. Pruning!Items \subseteq T
  <2>1. ASSUME NEW k \in K, NEW j \in Jobs \cup {0}, NEW c \in C
        PROVE  <<k, j, c>> \in T
    <3>1. <<<<k, j>>, c>> \in P
      OBVIOUS
    <3>2. f[<<<<k, j>>, c>>] = <<k, j, c>>
      BY <3>1
    <3> QED BY <3>1, <3>2
  <2>2. 1 .. Chunks \subseteq C /\ 0 \in C
    BY DEF Limits
  <2> HIDE DEF T, C
  <2> QED BY <2>1, <2>2 DEF Pruning!Items, Pruning!Key, Pruning!JobRow, Pruning!Chunk
<1> QED BY <1>3, <1>4, FS_Subset

LEMMA PlannedRows ==
  ASSUME Limits
  PROVE  /\ Pruning!Planned \in Seq(Pruning!Items)
         /\ \A n \in DOMAIN Pruning!Planned :
              LET i == Pruning!Planned[n] IN
              \/ i[1] = "delivery" /\ Pruning!Old(i, {"sent", "failed"})
              \/ i[1] = "job" /\ Pruning!Old(i, Pruning!Terminal)
              \/ /\ i = Pruning!Key /\ Pruning!Old(i, Pruning!Terminal)
                 /\ \A j \in Jobs : ~Pruning!There(Pruning!JobRow(j))
<1> DEFINE deliveries ==
             {i \in Pruning!Items : i[1] = "delivery" /\ Pruning!Old(i, {"sent", "failed"})}
           kept == {Pruning!JobRow(j) : j \in {k \in Jobs :
                      /\ Pruning!Old(Pruning!JobRow(k), Pruning!Terminal)
                      /\ \A c \in 1 .. Chunks :
                           Pruning!There(Pruning!Chunk(k, c))
                             => Pruning!Chunk(k, c) \in deliveries}}
           keys == {i \in {Pruning!Key} : /\ Pruning!Old(i, Pruning!Terminal)
                                          /\ \A j \in Jobs : ~Pruning!There(Pruning!JobRow(j))}
<1>1. /\ deliveries \subseteq Pruning!Items /\ kept \subseteq Pruning!Items
      /\ keys \subseteq Pruning!Items
  BY DEF Pruning!Items
<1>2. \A i \in deliveries : i[1] = "delivery" /\ Pruning!Old(i, {"sent", "failed"})
  OBVIOUS
<1>3. ASSUME NEW i \in kept PROVE i[1] = "job" /\ Pruning!Old(i, Pruning!Terminal)
  <2>1. PICK j \in Jobs : i = Pruning!JobRow(j) /\ Pruning!Old(Pruning!JobRow(j), Pruning!Terminal)
    OBVIOUS
  <2>2. Pruning!JobRow(j)[1] = "job"
    BY DEF Pruning!JobRow
  <2> QED BY <2>1, <2>2
<1>4. \A i \in keys : /\ i = Pruning!Key /\ Pruning!Old(i, Pruning!Terminal)
                      /\ \A j \in Jobs : ~Pruning!There(Pruning!JobRow(j))
  OBVIOUS
<1>5. Pruning!Planned =
        Pruning!SetToSeq(deliveries) \o Pruning!SetToSeq(kept) \o Pruning!SetToSeq(keys)
  BY DEF Pruning!Planned
<1> HIDE DEF deliveries, kept, keys
<1>6. /\ Pruning!SetToSeq(deliveries) \in Seq(deliveries) /\ Pruning!SetToSeq(kept) \in Seq(kept)
      /\ Pruning!SetToSeq(keys) \in Seq(keys)
  BY <1>1, ItemsFinite, FS_Subset, SequenceOf
<1>7. Pruning!Planned \in Seq(deliveries \cup kept \cup keys)
  <2> DEFINE U == deliveries \cup kept \cup keys
             a == Pruning!SetToSeq(deliveries)
             b == Pruning!SetToSeq(kept)
             c == Pruning!SetToSeq(keys)
  <2>1. a \in Seq(U) /\ b \in Seq(U) /\ c \in Seq(U)
    BY <1>6
  <2> HIDE DEF U, a, b, c
  <2>2. a \o b \in Seq(U)
    BY <2>1
  <2>3. a \o b \o c \in Seq(U)
    BY <2>1, <2>2
  <2> QED BY <1>5, <2>3 DEF U, a, b, c
<1>8. \A n \in DOMAIN Pruning!Planned : Pruning!Planned[n] \in deliveries \cup kept \cup keys
  BY <1>7
<1>9. Pruning!Planned \in Seq(Pruning!Items)
  BY <1>1, <1>7
<1> QED BY <1>2, <1>3, <1>4, <1>8, <1>9

-----------------------------------------------------------------------------
(* The invariant *)

Statuses == {"none", "gone", "active", "pending", "sent", "failed", "ambiguous",
             "completed", "dead_letter"}
Kept == {"sent", "failed", "completed", "dead_letter"}
Young == {"none", "active"}

(* Only a job that has ended has deliveries. *)
RowsOK ==
  /\ row \in [Pruning!Items -> [status : Statuses, old : BOOLEAN]]
  /\ \A j \in Jobs, c \in 1 .. Chunks :
       Pruning!Status(Pruning!JobRow(j)) \in Young => Pruning!Status(Pruning!Chunk(j, c)) = "none"

(* A job the plan does not name keeps the key from being deleted. *)
Guarded ==
  \E j \in Jobs : /\ Pruning!There(Pruning!JobRow(j))
                  /\ \A n \in DOMAIN prune.plan : prune.plan[n][2] # Pruning!JobRow(j)

(* What was planned is as it was planned, or deleted; the key may also     *)
(* have been taken over by a job that is not in the plan.                  *)
StillTrue(i, s) ==
  \/ s \in Kept /\ Pruning!Status(i) \in {s, "gone"}
  \/ i = Pruning!Key /\ Guarded

PlanOK ==
  /\ runs \in Nat
  /\ prune \in [at : {"idle", "archive", "delete"},
                plan : Seq(Nat \X Pruning!Items \X Statuses), done : Nat]
  /\ prune.at = "archive" => prune.done <= Len(prune.plan)
  /\ prune.at # "idle" =>
       \A n \in DOMAIN prune.plan :
         prune.plan[n][1] = runs /\ StillTrue(prune.plan[n][2], prune.plan[n][3])

(* A call that still archives has deleted nothing. *)
FilesOK ==
  /\ prune.at = "archive" =>
       \A n \in DOMAIN prune.plan : n <= prune.done => prune.plan[n] \in files
  /\ prune.at = "delete" => \A n \in DOMAIN prune.plan : prune.plan[n] \in files
  /\ \A e \in lost : e[1] \in Nat /\ e[1] <= runs /\ (prune.at = "archive" => e[1] < runs)
  /\ Pruning!AuditComplete

PruneInv == RowsOK /\ PlanOK /\ FilesOK

LEMMA PruningBegins == Pruning!Init => PruneInv
<1> SUFFICES ASSUME Pruning!Init PROVE PruneInv
  OBVIOUS
<1>1. RowsOK
  <2>1. \A i \in Pruning!Items : row[i] = Pruning!None
    BY DEF Pruning!Init
  <2>2. \A j \in Jobs, c \in 1 .. Chunks : Pruning!Chunk(j, c) \in Pruning!Items
    BY DEF Pruning!Items
  <2> QED BY <2>1, <2>2 DEF Pruning!Init, Pruning!None, RowsOK, Pruning!Status, Statuses
<1>2. PlanOK
  BY DEF Pruning!Init, Pruning!Idle, PlanOK
<1>3. FilesOK
  BY DEF Pruning!Init, Pruning!Idle, FilesOK, Pruning!AuditComplete
<1> QED BY <1>1, <1>2, <1>3 DEF PruneInv

-----------------------------------------------------------------------------
(* The ledger *)

LEMMA RowNames ==
  /\ Pruning!Key \in Pruning!Items
  /\ \A j \in Jobs : Pruning!JobRow(j) \in Pruning!Items /\ Pruning!JobRow(j) # Pruning!Key
  /\ \A j \in Jobs, c \in 1 .. Chunks :
       Pruning!Chunk(j, c) \in Pruning!Items /\ Pruning!Chunk(j, c) # Pruning!Key
  /\ \A j, k \in Jobs, c \in 1 .. Chunks : Pruning!Chunk(j, c) # Pruning!JobRow(k)
  /\ \A j, k \in Jobs : Pruning!JobRow(j) = Pruning!JobRow(k) => j = k
  /\ \A j, k \in Jobs, b, c \in 1 .. Chunks :
       Pruning!Chunk(j, b) = Pruning!Chunk(k, c) => j = k /\ b = c
BY DEF Pruning!Items, Pruning!Key, Pruning!JobRow, Pruning!Chunk

(* A step that writes the rows of S only, each with a known status. *)
LEMMA RowsSet ==
  ASSUME RowsOK, NEW T \in [Pruning!Items -> [status : Statuses, old : BOOLEAN]], row' = T
  PROVE  \A i \in Pruning!Items : Pruning!Status(i)' = T[i].status
BY DEF Pruning!Status

Ledger ==
  \/ \E i \in Pruning!Items : Pruning!Ages(i)
  \/ \E j \in Jobs :
       \/ Pruning!Enqueue(j)
       \/ \E s \in Pruning!Terminal : Pruning!Finish(j, s)
       \/ \E c \in 1 .. Chunks : Pruning!Deliver(j, c) \/ Pruning!Resolve(j, c)

(* What a step of the ledger may do to rows the plan may name. *)
LedgerStep ==
  /\ RowsOK'
  /\ UNCHANGED <<prune, files, lost, runs>>
  /\ \A i \in Pruning!Items \ {Pruning!Key} :
       Pruning!Status(i) \in Kept \cup {"gone"} => Pruning!Status(i)' = Pruning!Status(i)
  /\ \A j \in Jobs : Pruning!There(Pruning!JobRow(j)) => Pruning!There(Pruning!JobRow(j))'
  /\ \/ Pruning!Status(Pruning!Key)' = Pruning!Status(Pruning!Key)
     \/ \E j \in Jobs :
          Pruning!There(Pruning!JobRow(j))' /\ Pruning!Status(Pruning!JobRow(j)) \in Young

LEMMA LedgerSteps == ASSUME RowsOK, Ledger PROVE LedgerStep
<1> USE RowNames
<1>1. ASSUME NEW i \in Pruning!Items, Pruning!Ages(i) PROVE LedgerStep
  <2>1. /\ row' \in [Pruning!Items -> [status : Statuses, old : BOOLEAN]]
        /\ \A k \in Pruning!Items : row'[k].status = row[k].status
    BY <1>1 DEF Pruning!Ages, RowsOK
  <2>2. UNCHANGED <<prune, files, lost, runs>>
    BY <1>1 DEF Pruning!Ages
  <2> QED BY <2>1, <2>2 DEF RowsOK, LedgerStep, Pruning!Status, Pruning!There
<1>2. ASSUME NEW j \in Jobs, Pruning!Enqueue(j) PROVE LedgerStep
  <2>1. /\ row' \in [Pruning!Items -> [status : Statuses, old : BOOLEAN]]
        /\ \A k \in Pruning!Items : row'[k].status =
             IF k \in {Pruning!JobRow(j), Pruning!Key} THEN "active" ELSE row[k].status
    BY <1>2 DEF Pruning!Enqueue, Pruning!Set, RowsOK, Statuses
  <2>2. UNCHANGED <<prune, files, lost, runs>> /\ row[Pruning!JobRow(j)].status = "none"
    BY <1>2 DEF Pruning!Enqueue, Pruning!Status
  <2>3. RowsOK'
    BY <2>1, <2>2 DEF RowsOK, Pruning!Status, Young
  <2> QED BY <2>1, <2>2, <2>3 DEF LedgerStep, Pruning!Status, Pruning!There, Young, Kept
<1>3. ASSUME NEW j \in Jobs, NEW s \in Pruning!Terminal, Pruning!Finish(j, s) PROVE LedgerStep
  <2>1. /\ row' \in [Pruning!Items -> [status : Statuses, old : BOOLEAN]]
        /\ \A k \in Pruning!Items : row'[k].status =
             IF k = Pruning!JobRow(j) \/ (k = Pruning!Key /\ Pruning!There(Pruning!Key)) THEN s
             ELSE IF s = "completed" /\ \E c \in 1 .. Chunks : k = Pruning!Chunk(j, c)
                  THEN "pending" ELSE row[k].status
    BY <1>3 DEF Pruning!Finish, RowsOK, Statuses, Pruning!Terminal
  <2>2. UNCHANGED <<prune, files, lost, runs>> /\ row[Pruning!JobRow(j)].status = "active"
    BY <1>3 DEF Pruning!Finish, Pruning!Status
  <2>3. \A c \in 1 .. Chunks : row[Pruning!Chunk(j, c)].status = "none"
    BY <2>2 DEF RowsOK, Pruning!Status, Young
  <2>4. \A k \in Jobs :
          row'[Pruning!JobRow(k)].status = IF k = j THEN s ELSE row[Pruning!JobRow(k)].status
    BY <2>1
  <2>5. \A k \in Jobs \ {j}, c \in 1 .. Chunks :
          row'[Pruning!Chunk(k, c)].status = row[Pruning!Chunk(k, c)].status
    BY <2>1
  <2>6. s \notin Young /\ s \notin {"none", "gone"}
    BY DEF Young, Pruning!Terminal
  <2>7. RowsOK'
    BY <2>1, <2>4, <2>5, <2>6 DEF RowsOK, Pruning!Status
  <2>8. \A i \in Pruning!Items \ {Pruning!Key} : row[i].status \in Kept \cup {"gone"}
          => row'[i].status = row[i].status
    BY <2>1, <2>2, <2>3 DEF Kept
  <2>9. Pruning!There(Pruning!JobRow(j))' /\ Pruning!Status(Pruning!JobRow(j)) \in Young
    BY <2>2, <2>4, <2>6 DEF Pruning!There, Pruning!Status, Young
  <2> QED BY <2>2, <2>4, <2>6, <2>7, <2>8, <2>9 DEF LedgerStep, Pruning!Status, Pruning!There
<1>4. ASSUME NEW j \in Jobs, NEW c \in 1 .. Chunks, Pruning!Deliver(j, c) \/ Pruning!Resolve(j, c)
      PROVE  LedgerStep
  <2>1. PICK s \in {"sent", "failed", "ambiguous", "pending"} :
          Pruning!Set({Pruning!Chunk(j, c)}, s)
    BY <1>4 DEF Pruning!Deliver, Pruning!Resolve
  <2>2. /\ row' \in [Pruning!Items -> [status : Statuses, old : BOOLEAN]]
        /\ \A k \in Pruning!Items :
             row'[k].status = IF k = Pruning!Chunk(j, c) THEN s ELSE row[k].status
    BY <2>1 DEF Pruning!Set, RowsOK, Statuses
  <2>3. /\ UNCHANGED <<prune, files, lost, runs>>
        /\ row[Pruning!Chunk(j, c)].status \in {"pending", "ambiguous"}
    BY <1>4 DEF Pruning!Deliver, Pruning!Resolve, Pruning!Status
  <2>4. row[Pruning!JobRow(j)].status \notin Young
    BY <2>3 DEF RowsOK, Pruning!Status
  <2>5. RowsOK'
    BY <2>2, <2>4 DEF RowsOK, Pruning!Status
  <2> QED BY <2>2, <2>3, <2>5 DEF LedgerStep, Pruning!Status, Pruning!There, Kept
<1> QED BY <1>1, <1>2, <1>3, <1>4 DEF Ledger

(* A planned row of a delivery or a job is kept or gone: no young job is    *)
(* in the plan.                                                            *)
LEMMA LedgerKeeps == ASSUME PruneInv, LedgerStep PROVE PruneInv'
<1>1. FilesOK'
  BY DEF PruneInv, FilesOK, LedgerStep, Pruning!AuditComplete
<1>2. ASSUME prune.at # "idle", NEW n \in DOMAIN prune.plan
      PROVE  /\ prune.plan[n][1] = runs
             /\ StillTrue(prune.plan[n][2], prune.plan[n][3])'
  <2> DEFINE i == prune.plan[n][2]
             s == prune.plan[n][3]
  <2>1. i \in Pruning!Items /\ s \in Statuses /\ prune.plan[n][1] = runs /\ StillTrue(i, s)
    BY <1>2 DEF PruneInv, PlanOK
  <2>2. Guarded => Guarded'
    BY DEF Guarded, LedgerStep
  <2>3. CASE i # Pruning!Key
    <3>1. s \in Kept /\ Pruning!Status(i) \in {s, "gone"}
      BY <2>1, <2>3 DEF StillTrue
    <3>2. Pruning!Status(i)' = Pruning!Status(i)
      BY <2>1, <2>3, <3>1 DEF LedgerStep
    <3> QED BY <2>1, <3>1, <3>2 DEF StillTrue, LedgerStep
  <2>4. CASE i = Pruning!Key /\ Pruning!Status(Pruning!Key)' = Pruning!Status(Pruning!Key)
    BY <2>1, <2>2, <2>4 DEF StillTrue, LedgerStep
  <2>5. CASE /\ i = Pruning!Key
             /\ \E j \in Jobs :
                  Pruning!There(Pruning!JobRow(j))' /\ Pruning!Status(Pruning!JobRow(j)) \in Young
    <3>1. PICK j \in Jobs :
            Pruning!There(Pruning!JobRow(j))' /\ Pruning!Status(Pruning!JobRow(j)) \in Young
      BY <2>5
    <3>2. ASSUME NEW m \in DOMAIN prune.plan, prune.plan[m][2] = Pruning!JobRow(j)
          PROVE  FALSE
      <4>1. StillTrue(Pruning!JobRow(j), prune.plan[m][3])
        BY <1>2, <3>2 DEF PruneInv, PlanOK
      <4> QED BY <3>1, <4>1, RowNames DEF StillTrue, Kept, Young
    <3>3. Guarded'
      BY <3>1, <3>2 DEF Guarded, LedgerStep
    <3> QED BY <2>1, <2>5, <3>3 DEF StillTrue, LedgerStep
  <2> QED BY <2>1, <2>3, <2>4, <2>5 DEF LedgerStep
<1>3. PlanOK'
  BY <1>2 DEF PruneInv, PlanOK, LedgerStep
<1> QED BY <1>1, <1>3 DEF PruneInv, LedgerStep

-----------------------------------------------------------------------------
(* A call of pruning *)

LEMMA PlanKeeps == ASSUME Limits, PruneInv, Pruning!Plan PROVE PruneInv'
<1> DEFINE P == [n \in DOMAIN Pruning!Planned |->
                   <<runs + 1, Pruning!Planned[n], Pruning!Status(Pruning!Planned[n])>>]
<1>1. /\ prune' = [at |-> "archive", done |-> 0, plan |-> P]
      /\ runs' = runs + 1 /\ UNCHANGED <<row, files, lost>>
  BY DEF Pruning!Plan
<1>2. Pruning!Planned \in Seq(Pruning!Items) /\ runs \in Nat
  BY PlannedRows DEF PruneInv, PlanOK
<1>3. ASSUME NEW i \in Pruning!Items PROVE Pruning!Status(i) \in Statuses
  BY DEF PruneInv, RowsOK, Pruning!Status
<1>4. P \in Seq(Nat \X Pruning!Items \X Statuses) /\ DOMAIN P = DOMAIN Pruning!Planned
  <2>1. \A n \in DOMAIN Pruning!Planned : Pruning!Planned[n] \in Pruning!Items
    BY <1>2
  <2>2. \A n \in DOMAIN Pruning!Planned : P[n] \in Nat \X Pruning!Items \X Statuses
    BY <1>2, <1>3, <2>1
  <2>3. DOMAIN Pruning!Planned = 1 .. Len(Pruning!Planned) /\ Len(Pruning!Planned) \in Nat
    BY <1>2
  <2>4. P \in [1 .. Len(Pruning!Planned) -> Nat \X Pruning!Items \X Statuses]
    BY <2>2, <2>3
  <2> QED BY <2>3, <2>4
<1>5. ASSUME NEW n \in DOMAIN P
      PROVE  P[n][1] = runs + 1 /\ P[n][3] \in Kept /\ Pruning!Status(P[n][2]) = P[n][3]
  <2>1. P[n] = <<runs + 1, Pruning!Planned[n], Pruning!Status(Pruning!Planned[n])>>
    BY <1>4
  <2>2. Pruning!Status(Pruning!Planned[n]) \in Kept
    BY <1>4, PlannedRows DEF Pruning!Old, Kept, Pruning!Terminal
  <2> QED BY <2>1, <2>2
<1> HIDE DEF P
<1>6. PlanOK'
  BY <1>1, <1>2, <1>4, <1>5 DEF PlanOK, StillTrue, Pruning!Status
<1>7. FilesOK'
  <2>1. \A n \in DOMAIN P : n \in Nat \ {0}
    BY <1>4
  <2>2. \A e \in lost : e[1] \in Nat /\ e[1] < runs + 1
    BY <1>2 DEF PruneInv, FilesOK
  <2> QED BY <1>1, <2>1, <2>2 DEF PruneInv, FilesOK, Pruning!AuditComplete
<1> QED BY <1>1, <1>6, <1>7 DEF PruneInv, RowsOK, Pruning!Status

(* What Advance makes of the call. *)
LEMMA Advances ==
  ASSUME Limits, PlanOK, Pruning!Advance, prune.at # "idle"
  PROVE  /\ prune' \in [at : {"idle", "archive", "delete"},
                        plan : Seq(Nat \X Pruning!Items \X Statuses), done : Nat]
         /\ \/ prune'.at = "idle" /\ prune.at = "delete"
            \/ prune'.plan = prune.plan /\ prune'.at = prune.at
                 /\ prune'.done = prune.done + BatchSize
                 /\ prune'.done <= Len(prune.plan)
            \/ prune'.plan = prune.plan /\ prune.at = "archive" /\ prune'.at = "delete"
                 /\ Len(prune.plan) <= prune.done + BatchSize
<1>1. /\ prune \in [at : {"idle", "archive", "delete"},
                    plan : Seq(Nat \X Pruning!Items \X Statuses), done : Nat]
      /\ Len(prune.plan) \in Nat /\ BatchSize \in Nat
  BY DEF PlanOK, Limits
<1>2. CASE /\ prune.done + BatchSize < Len(prune.plan)
           /\ prune' = [prune EXCEPT !.done = prune.done + BatchSize]
  <2>1. prune.done + BatchSize \in Nat /\ prune.done + BatchSize <= Len(prune.plan)
    BY <1>1, <1>2
  <2>2. /\ prune'.at = prune.at /\ prune'.plan = prune.plan
        /\ prune'.done = prune.done + BatchSize
        /\ prune' \in [at : {"idle", "archive", "delete"},
                       plan : Seq(Nat \X Pruning!Items \X Statuses), done : Nat]
    BY <1>1, <1>2, <2>1
  <2> QED BY <2>1, <2>2
<1>3. CASE /\ prune.at = "archive" /\ Len(prune.plan) <= prune.done + BatchSize
           /\ prune' = [prune EXCEPT !.at = "delete", !.done = 0]
  BY <1>1, <1>3
<1>4. CASE prune.at = "delete" /\ prune' = Pruning!Idle
  BY <1>4 DEF Pruning!Idle
<1> QED BY <1>1, <1>2, <1>3, <1>4 DEF Pruning!Advance

LEMMA BatchEntries ==
  ASSUME PlanOK, Limits
  PROVE  /\ \A e \in Pruning!Batch : \E n \in DOMAIN prune.plan : e = prune.plan[n]
         /\ \A n \in DOMAIN prune.plan :
              n > prune.done /\ n <= prune.done + BatchSize => prune.plan[n] \in Pruning!Batch
BY DEF Pruning!Batch

LEMMA ArchiveKeeps == ASSUME Limits, PruneInv, Pruning!Archive PROVE PruneInv'
<1>1. UNCHANGED <<row, lost, runs>> /\ prune.at = "archive"
  BY DEF Pruning!Archive
<1>2. RowsOK'
  BY <1>1 DEF PruneInv, RowsOK, Pruning!Status
<1>3. /\ \A n \in DOMAIN prune.plan : n \in Nat /\ n <= Len(prune.plan)
      /\ Len(prune.plan) \in Nat /\ prune.done \in Nat /\ BatchSize \in Nat
  BY DEF PruneInv, PlanOK, Limits
<1>4. CASE files' = files \cup Pruning!Batch /\ Pruning!Advance
  <2>1. /\ prune'.plan = prune.plan /\ prune'.at \in {"archive", "delete"}
        /\ \A n \in DOMAIN prune.plan :
             prune'.at = "delete" \/ n <= prune'.done => n <= prune.done + BatchSize
    BY <1>1, <1>3, <1>4, Advances DEF PruneInv
  <2>2. \A n \in DOMAIN prune.plan : n <= prune.done + BatchSize => prune.plan[n] \in files'
    BY <1>1, <1>3, <1>4, BatchEntries DEF PruneInv, FilesOK
  <2>3. \A e \in lost : e[1] \in Nat /\ e[1] <= runs /\ e[1] < runs
    BY <1>1 DEF PruneInv, FilesOK
  <2>4. FilesOK'
    BY <1>1, <1>4, <2>1, <2>2, <2>3 DEF PruneInv, FilesOK, Pruning!AuditComplete
  <2>5. PlanOK'
    <3>1. prune' \in [at : {"idle", "archive", "delete"},
                      plan : Seq(Nat \X Pruning!Items \X Statuses), done : Nat]
      BY <1>1, <1>4, Advances DEF PruneInv
    <3>2. ASSUME NEW n \in DOMAIN prune.plan
          PROVE  /\ prune.plan[n][1] = runs
                 /\ StillTrue(prune.plan[n][2], prune.plan[n][3])'
      BY <1>1, <2>1 DEF PruneInv, PlanOK, StillTrue, Guarded, Pruning!Status, Pruning!There
    <3>3. prune'.at = "archive" => prune'.done <= Len(prune'.plan)
      BY <1>1, <1>3, <1>4, <2>1, Advances DEF PruneInv
    <3> QED BY <1>1, <2>1, <3>1, <3>2, <3>3 DEF PruneInv, PlanOK
  <2> QED BY <1>2, <2>4, <2>5 DEF PruneInv
<1>5. CASE files' = files \ {prune.plan[n] : n \in 1 .. prune.done} /\ prune' = Pruning!Idle
  <2>1. ASSUME NEW e \in lost PROVE e \in files'
    <3>1. e \in files /\ e[1] # runs
      BY <1>1, <2>1 DEF PruneInv, FilesOK, Pruning!AuditComplete
    <3>2. ASSUME NEW n \in 1 .. prune.done, e = prune.plan[n] PROVE FALSE
      <4>1. n \in DOMAIN prune.plan
        BY <1>1, <1>3, <3>2 DEF PruneInv, PlanOK
      <4> QED BY <1>1, <3>1, <3>2, <4>1 DEF PruneInv, PlanOK
    <3> QED BY <1>5, <3>1, <3>2
  <2>2. FilesOK'
    BY <1>1, <1>5, <2>1 DEF PruneInv, FilesOK, Pruning!AuditComplete, Pruning!Idle
  <2>3. PlanOK'
    BY <1>1, <1>5 DEF PruneInv, PlanOK, Pruning!Idle
  <2> QED BY <1>2, <2>2, <2>3 DEF PruneInv
<1> QED BY <1>4, <1>5 DEF Pruning!Archive

(* What a batch deletes: rows it names, in a status that is kept, and the  *)
(* key only when no job is left.                                           *)
LEMMA Deletes ==
  ASSUME Limits, RowsOK, PlanOK, Pruning!Delete
  PROVE  \E gone \in SUBSET Pruning!Items :
           /\ Pruning!Set(gone, "gone")
           /\ lost' = lost \cup {<<runs, i, Pruning!Status(i)>> : i \in gone}
           /\ \A i \in gone :
                /\ Pruning!Status(i) \in Kept
                /\ \E e \in Pruning!Batch : e[2] = i
                /\ i = Pruning!Key => \A j \in Jobs : ~Pruning!There(Pruning!JobRow(j))
<1> DEFINE planned == {e[2] : e \in Pruning!Batch}
           first == {i \in planned : i[1] # "job" /\ Pruning!MayDelete(i, {})}
           ended == {i \in planned : i[1] = "job" /\ Pruning!MayDelete(i, first)}
           gone == Pruning!Cascade(first \cup ended)
<1>1. Pruning!Set(gone, "gone") /\ lost' = lost \cup {<<runs, i, Pruning!Status(i)>> : i \in gone}
  BY DEF Pruning!Delete
<1>2. ASSUME NEW i \in first \cup ended
      PROVE  /\ Pruning!Status(i) \in Kept /\ i \in planned
             /\ i = Pruning!Key => \A j \in Jobs : ~Pruning!There(Pruning!JobRow(j))
  BY <1>2, RowNames DEF Pruning!MayDelete, Kept, Pruning!Terminal, Pruning!Key
<1>3. ASSUME NEW i \in gone PROVE i \in first \cup ended
  <2>1. CASE /\ i \in Pruning!Items /\ i[1] = "delivery"
             /\ Pruning!JobRow(i[2]) \in first \cup ended /\ Pruning!There(i)
    <3>1. PICK j \in Jobs, c \in 1 .. Chunks : i = Pruning!Chunk(j, c)
      BY <2>1 DEF Pruning!Items, Pruning!Key, Pruning!JobRow
    <3>2. i[2] = j
      BY <3>1 DEF Pruning!Chunk
    <3>3. Pruning!JobRow(j) \in ended /\ Pruning!JobRow(j)[1] = "job" /\ Pruning!JobRow(j)[2] = j
      BY <2>1, <3>2 DEF Pruning!JobRow
    <3>4. \A b \in 1 .. Chunks : Pruning!There(Pruning!Chunk(j, b)) => Pruning!Chunk(j, b) \in first
      BY <3>3, RowNames DEF Pruning!MayDelete
    <3> QED BY <2>1, <3>1, <3>4
  <2> QED BY <1>3, <2>1 DEF Pruning!Cascade
<1>4. ASSUME NEW i \in gone PROVE \E e \in Pruning!Batch : e[2] = i
  BY <1>2, <1>3
<1> HIDE DEF gone, first, ended, planned
<1>5. gone \subseteq Pruning!Items
  <2>1. ASSUME NEW e \in Pruning!Batch PROVE e[2] \in Pruning!Items
    BY BatchEntries DEF PlanOK
  <2>2. \A i \in gone : i \in Pruning!Items
    BY <1>4, <2>1
  <2> QED BY <2>2
<1> QED BY <1>1, <1>2, <1>3, <1>4, <1>5

LEMMA DeleteKeeps == ASSUME Limits, PruneInv, Pruning!Delete PROVE PruneInv'
<1>1. PICK gone \in SUBSET Pruning!Items :
           /\ Pruning!Set(gone, "gone")
           /\ lost' = lost \cup {<<runs, i, Pruning!Status(i)>> : i \in gone}
           /\ \A i \in gone :
                /\ Pruning!Status(i) \in Kept
                /\ \E e \in Pruning!Batch : e[2] = i
                /\ i = Pruning!Key => \A j \in Jobs : ~Pruning!There(Pruning!JobRow(j))
  BY Deletes DEF PruneInv
<1>2. prune.at = "delete" /\ Pruning!Advance /\ UNCHANGED <<files, runs>>
  BY DEF Pruning!Delete
<1>3. /\ row' \in [Pruning!Items -> [status : Statuses, old : BOOLEAN]]
      /\ \A i \in Pruning!Items :
           Pruning!Status(i)' = IF i \in gone THEN "gone" ELSE Pruning!Status(i)
  BY <1>1 DEF Pruning!Set, PruneInv, RowsOK, Statuses, Pruning!Status
<1>4. RowsOK'
  <2>1. ASSUME NEW j \in Jobs, NEW c \in 1 .. Chunks, Pruning!Status(Pruning!JobRow(j))' \in Young
        PROVE  Pruning!Status(Pruning!Chunk(j, c))' = "none"
    <3>1. Pruning!Status(Pruning!JobRow(j)) \in Young
      BY <1>3, <2>1, RowNames DEF Young
    <3>2. Pruning!Status(Pruning!Chunk(j, c)) = "none"
      BY <3>1 DEF PruneInv, RowsOK
    <3> QED BY <1>1, <1>3, <3>2, RowNames DEF Kept
  <2> QED BY <1>3, <2>1 DEF RowsOK
<1>5. ASSUME NEW i \in gone PROVE <<runs, i, Pruning!Status(i)>> \in files
  <2>1. PICK e \in Pruning!Batch : e[2] = i
    BY <1>1
  <2>2. PICK n \in DOMAIN prune.plan : e = prune.plan[n]
    BY BatchEntries DEF PruneInv
  <2>3. e \in Nat \X Pruning!Items \X Statuses /\ e[1] = runs /\ StillTrue(i, e[3]) /\ e \in files
    BY <1>2, <2>1, <2>2 DEF PruneInv, PlanOK, FilesOK
  <2>4. Pruning!Status(i) = e[3]
    <3>1. i = Pruning!Key => ~Guarded
      BY <1>1 DEF Guarded
    <3>2. Pruning!Status(i) # "gone"
      BY <1>1 DEF Kept
    <3> QED BY <2>3, <3>1, <3>2 DEF StillTrue
  <2>5. e = <<runs, i, Pruning!Status(i)>>
    BY <2>1, <2>3, <2>4
  <2> QED BY <2>3, <2>5
<1>6. /\ prune' \in [at : {"idle", "archive", "delete"},
                     plan : Seq(Nat \X Pruning!Items \X Statuses), done : Nat]
      /\ prune'.at \in {"idle", "delete"}
      /\ prune'.at = "delete" => prune'.plan = prune.plan
  BY <1>2, Advances DEF PruneInv
<1>7. FilesOK'
  <2>1. \A e \in lost' : e[1] \in Nat /\ e[1] <= runs
    BY <1>1 DEF PruneInv, FilesOK, PlanOK
  <2>2. lost' \subseteq files
    BY <1>1, <1>5 DEF PruneInv, FilesOK, Pruning!AuditComplete
  <2> QED BY <1>2, <1>6, <2>1, <2>2 DEF PruneInv, FilesOK, Pruning!AuditComplete
<1>8. ASSUME NEW n \in DOMAIN prune.plan, prune'.plan = prune.plan
      PROVE  /\ prune.plan[n][1] = runs
             /\ StillTrue(prune.plan[n][2], prune.plan[n][3])'
  <2> DEFINE i == prune.plan[n][2]
             s == prune.plan[n][3]
  <2>1. i \in Pruning!Items /\ prune.plan[n][1] = runs /\ StillTrue(i, s)
    BY <1>2 DEF PruneInv, PlanOK
  <2>2. ASSUME Guarded PROVE Guarded'
    <3>1. PICK j \in Jobs : /\ Pruning!There(Pruning!JobRow(j))
                            /\ \A m \in DOMAIN prune.plan : prune.plan[m][2] # Pruning!JobRow(j)
      BY <2>2 DEF Guarded
    <3>2. Pruning!JobRow(j) \notin gone
      <4>1. ASSUME NEW e \in Pruning!Batch, e[2] = Pruning!JobRow(j) PROVE FALSE
        BY <3>1, <4>1, BatchEntries DEF PruneInv
      <4> QED BY <1>1, <4>1
    <3>3. Pruning!There(Pruning!JobRow(j))'
      BY <1>3, <3>1, <3>2, RowNames DEF Pruning!There
    <3> QED BY <1>8, <3>1, <3>3 DEF Guarded
  <2>3. \A k \in Pruning!Items : Pruning!Status(k)' \in {Pruning!Status(k), "gone"}
    BY <1>3
  <2> QED BY <1>8, <2>1, <2>2, <2>3 DEF StillTrue, Pruning!Status
<1>9. PlanOK'
  BY <1>2, <1>6, <1>8 DEF PruneInv, PlanOK
<1> QED BY <1>4, <1>7, <1>9 DEF PruneInv

LEMMA PruningCrashes == ASSUME PruneInv, Pruning!Crash PROVE PruneInv'
<1>1. prune' = Pruning!Idle /\ UNCHANGED <<row, files, lost, runs>>
  BY DEF Pruning!Crash
<1> QED BY <1>1
       DEF PruneInv, RowsOK, PlanOK, FilesOK, Pruning!AuditComplete, Pruning!Idle, Pruning!Status

LEMMA PruningStep == ASSUME Limits, PruneInv, [Pruning!Next]_(Pruning!vars) PROVE PruneInv'
<1>1. CASE Ledger
  BY <1>1, LedgerSteps, LedgerKeeps DEF PruneInv
<1>2. CASE UNCHANGED Pruning!vars
  BY <1>2 DEF Pruning!vars, PruneInv, RowsOK, PlanOK, FilesOK, Pruning!AuditComplete,
              Pruning!Status, StillTrue, Guarded, Pruning!There
<1> QED BY <1>1, <1>2, PlanKeeps, ArchiveKeeps, DeleteKeeps, PruningCrashes DEF Pruning!Next, Ledger

(* Whatever happens to the ledger while a call of pruning writes its files, *)
(* what it deletes it has exported itself, as it was when it was deleted   *)
(* (queue/retention.ts).                                                   *)
THEOREM ExportedFirst == Spec => []AuditComplete
<1>1. Limits
  BY StoresAssumption DEF Limits
<1>2. PruneInv /\ [Pruning!Next]_(Pruning!vars) => PruneInv'
  BY <1>1, PruningStep
<1>3. PruneInv => AuditComplete
  BY DEF PruneInv, FilesOK, AuditComplete
<1>4. Pruning!Spec => []AuditComplete
  BY <1>2, <1>3, PruningBegins, PTL DEF Pruning!Spec
<1> QED BY <1>4, PruningPart

-----------------------------------------------------------------------------
(* RSS dispatch *)

Numbers ==
  /\ Articles \subseteq Nat /\ MaxBatches \in Nat
  /\ \A o \in Owners : Feed[o] \subseteq Articles

-----------------------------------------------------------------------------
(* The invariant *)

Job == {"none", "completed", "dead_letter"} \cup Feeds!Live
Unfinished == {"none"} \cup Feeds!Live

ArticleOK(r) == r \in [known : BOOLEAN, read : BOOLEAN, size : {r.size},
                       batch : {0} \cup Feeds!Batches]
BatchOK(b) == b \in [made : BOOLEAN, owner : {b.owner}, job : Job, content : {b.content},
                   out : Feeds!Delivery, tries : {b.tries}, owed : BOOLEAN]
TickOK(t) == t \in [busy : BOOLEAN, batch : {t.batch}, content : {t.content}]

(* The shape of the state *)
ArticlesOK ==
  /\ DOMAIN article = Articles /\ article = [a \in Articles |-> article[a]]
  /\ \A a \in Articles : ArticleOK(article[a])

BatchesOK ==
  /\ DOMAIN batch = Feeds!Batches /\ batch = [d \in Feeds!Batches |-> batch[d]]
  /\ \A d \in Feeds!Batches : BatchOK(batch[d])

TicksOK ==
  /\ DOMAIN tick = Owners /\ tick = [o \in Owners |-> tick[o]]
  /\ \A o \in Owners : TickOK(tick[o])

FeedsOK == ArticlesOK /\ BatchesOK /\ TicksOK

(* A batch is claimed by its owner alone; its result comes last. *)
BatchesInOrder ==
  /\ \A a \in Articles : article[a].batch # 0 => batch[article[a].batch].made
  /\ \A d \in Feeds!Batches : /\ ~batch[d].made => batch[d].job = "none"
                              /\ batch[d].job \in Unfinished => batch[d].out = "none"

(* The job of a batch carries every article the batch still holds. *)
ClaimsCarried ==
  \A d \in Feeds!Batches : batch[d].job # "none" => Feeds!Claimed(d) \subseteq batch[d].content

(* So will the one that a handler is about to enqueue. *)
TicksCarry ==
  \A o \in Owners : tick[o].busy =>
    /\ tick[o].batch \in Feeds!Batches
    /\ batch[tick[o].batch].made /\ batch[tick[o].batch].owner = o
    /\ Feeds!Claimed(tick[o].batch) \subseteq tick[o].content

Links == BatchesInOrder /\ ClaimsCarried /\ TicksCarry /\ Feeds!ReadWasDelivered

RssInv == FeedsOK /\ Links

-----------------------------------------------------------------------------
(* Steps that claim nothing new *)

(* Articles leave their batches, and are read when readers got them. *)
ArticlesSettle ==
  \A a \in Articles :
    /\ article'[a].batch \in {article[a].batch, 0}
    /\ article[a].read => article'[a].read
    /\ article'[a].read =>
         article[a].read \/ \E d \in Feeds!Batches : a \in batch[d].content /\ Feeds!Reached(d)

(* Batches keep their owner, once enqueued their content, and a result     *)
(* that reached the readers.                                               *)
BatchesProceed ==
  \A d \in Feeds!Batches :
    /\ batch'[d].made = batch[d].made /\ batch'[d].owner = batch[d].owner
    /\ batch[d].job = "none" =>
         \/ batch'[d].job = "none"
         \/ batch[d].made /\ Feeds!Claimed(d) \subseteq batch'[d].content
    /\ batch[d].job # "none" =>
         batch'[d].job # "none" /\ batch'[d].content = batch[d].content
    /\ Feeds!Reached(d) => Feeds!Reached(d)'
    /\ batch'[d].job \in Unfinished => batch'[d].out = "none"

TicksEnd == \A o \in Owners : tick'[o].busy => tick'[o] = tick[o]

LEMMA NumberedBatches == ASSUME Numbers PROVE Feeds!Batches \subseteq Nat /\ 0 \notin Feeds!Batches
BY DEF Numbers, Feeds!Batches

(* What readers have got was enqueued. *)
LEMMA ReachedCarried ==
  ASSUME RssInv, NEW d \in Feeds!Batches, Feeds!Reached(d)
  PROVE  batch[d].job # "none" /\ Feeds!Claimed(d) \subseteq batch[d].content
BY DEF RssInv, Links, BatchesInOrder, ClaimsCarried, Feeds!Reached, Unfinished

Settling == FeedsOK' /\ ArticlesSettle /\ BatchesProceed /\ TicksEnd

LEMMA SettlingKeeps ==
  ASSUME Numbers, RssInv, Settling
  PROVE  RssInv'
<1> USE DEF Settling
<1>1. ASSUME NEW d \in Feeds!Batches PROVE Feeds!Claimed(d)' \subseteq Feeds!Claimed(d)
  <2> SUFFICES ASSUME NEW a \in Articles, article'[a].batch = d, ~article'[a].read
               PROVE  article[a].batch = d /\ ~article[a].read
    BY DEF Feeds!Claimed
  <2> QED BY NumberedBatches DEF ArticlesSettle
<1>2. BatchesInOrder'
  <2>1. ASSUME NEW a \in Articles, article'[a].batch # 0
        PROVE  batch'[article'[a].batch].made
    <3>1. article'[a].batch = article[a].batch /\ article'[a].batch \in Feeds!Batches
      BY <2>1 DEF ArticlesSettle, FeedsOK, ArticlesOK, ArticleOK
    <3> QED BY <2>1, <3>1 DEF RssInv, Links, BatchesInOrder, BatchesProceed
  <2>2. ASSUME NEW d \in Feeds!Batches, ~batch'[d].made PROVE batch'[d].job = "none"
    BY <2>2 DEF RssInv, Links, BatchesInOrder, BatchesProceed
  <2> QED BY <2>1, <2>2 DEF BatchesInOrder, BatchesProceed
<1>3. ClaimsCarried'
  <2> SUFFICES ASSUME NEW d \in Feeds!Batches, batch'[d].job # "none"
               PROVE  Feeds!Claimed(d)' \subseteq batch'[d].content
    BY DEF ClaimsCarried
  <2>1. Feeds!Claimed(d) \subseteq batch'[d].content
    BY DEF RssInv, Links, ClaimsCarried, BatchesProceed
  <2> QED BY <1>1, <2>1
<1>4. TicksCarry'
  <2> SUFFICES ASSUME NEW o \in Owners, tick'[o].busy
               PROVE  /\ tick'[o].batch \in Feeds!Batches
                      /\ batch'[tick'[o].batch].made /\ batch'[tick'[o].batch].owner = o
                      /\ \A a \in Articles :
                           article'[a].batch = tick'[o].batch /\ ~article'[a].read
                             => a \in tick'[o].content
    BY DEF TicksCarry, Feeds!Claimed
  <2>1. tick'[o] = tick[o]
    BY DEF TicksEnd
  <2>2. PICK d \in Feeds!Batches : d = tick[o].batch
    BY <2>1 DEF RssInv, Links, TicksCarry
  <2>3. batch[d].made /\ batch[d].owner = o /\ Feeds!Claimed(d) \subseteq tick[o].content
    BY <2>1, <2>2 DEF RssInv, Links, TicksCarry
  <2>4. ASSUME NEW a \in Articles, article'[a].batch = d, ~article'[a].read
        PROVE  a \in tick[o].content
    BY <1>1, <2>3, <2>4 DEF Feeds!Claimed
  <2>5. batch'[d].made /\ batch'[d].owner = o
    BY <2>3 DEF BatchesProceed
  <2> QED BY <2>1, <2>2, <2>4, <2>5
<1>5. Feeds!ReadWasDelivered'
  <2> SUFFICES ASSUME NEW a \in Articles, article'[a].read
               PROVE  \E d \in Feeds!Batches : a \in batch'[d].content
                                          /\ batch'[d].out \in {"sent", "suppressed"}
    BY DEF Feeds!ReadWasDelivered
  <2>1. PICK d \in Feeds!Batches : a \in batch[d].content /\ Feeds!Reached(d)
    BY DEF ArticlesSettle, RssInv, Links, Feeds!ReadWasDelivered, Feeds!Reached
  <2>2. batch[d].job # "none"
    BY <2>1, ReachedCarried
  <2> QED BY <2>1, <2>2 DEF BatchesProceed, Feeds!Reached
<1> QED BY <1>2, <1>3, <1>4, <1>5 DEF RssInv, Links

-----------------------------------------------------------------------------
(* A claim *)

(* A set of numbers that is not empty has a smallest one. *)
LEMMA Smallest ==
  ASSUME NEW S \in SUBSET Nat, S # {}
  PROVE  \E n \in S : \A m \in S : n <= m
<1> DEFINE R == OpToRel(<, Nat)
<1>1. IsWellFoundedOn(R, Nat)
  BY NatLessThanWellFounded
<1>2. \A m, n \in Nat : m < n => <<m, n>> \in R
  BY DEF OpToRel
<1> HIDE DEF R
<1>3. PICK n \in S : \A m \in S : ~(<<m, n>> \in R)
  BY <1>1, WFMin
<1>4. ASSUME NEW m \in S PROVE n <= m
  <2>1. m \in Nat /\ n \in Nat
    OBVIOUS
  <2>2. ~(m < n)
    BY <1>2, <1>3, <2>1
  <2> QED BY <2>1, <2>2
<1> QED BY <1>4

LEMMA FirstPending ==
  ASSUME Numbers, NEW o \in Owners, Feeds!Pending(o) # {}
  PROVE  Feeds!Min(Feeds!Pending(o)) \in Feeds!Pending(o)
<1> DEFINE S == Feeds!Pending(o)
<1>1. S \in SUBSET Nat /\ S # {}
  BY DEF Numbers, Feeds!Pending
<1> HIDE DEF S
<1>2. \E n \in S : \A m \in S : n <= m
  BY <1>1, Smallest
<1>3. Feeds!Min(S) \in S
  BY <1>2 DEF Feeds!Min
<1> QED BY <1>3 DEF S

(* What a claim finds and takes: all the articles of its batch are in it,  *)
(* and no other handler works on that batch.                               *)
Taken(o, c) ==
  /\ c.batch \in Feeds!Batches /\ c.batches[c.batch].made /\ c.batches[c.batch].owner = o
  /\ DOMAIN c.table = Articles /\ c.table = [a \in Articles |-> c.table[a]]
  /\ DOMAIN c.batches = Feeds!Batches /\ c.batches = [d \in Feeds!Batches |-> c.batches[d]]
  /\ \A a \in Articles :
       /\ ArticleOK(c.table[a]) /\ c.table[a].read = article[a].read
       /\ \/ c.table[a].batch = article[a].batch
          \/ c.table[a].batch = c.batch /\ batch[c.batch].job = "none"
       /\ c.table[a].batch = c.batch /\ ~article[a].read => a \in c.articles
  /\ \A d \in Feeds!Batches :
       /\ BatchOK(c.batches[d])
       /\ c.batches[d].job = batch[d].job /\ c.batches[d].out = batch[d].out
       /\ c.batches[d].content = batch[d].content
       /\ batch[d].made => c.batches[d].made /\ c.batches[d].owner = batch[d].owner
  /\ \A p \in Owners \ {o} : tick[p].busy => tick[p].batch # c.batch

LEMMA Claims ==
  ASSUME Numbers, RssInv, NEW o \in Owners, NEW c \in Feeds!Claim(o)
  PROVE  Taken(o, c)
<1>1. CASE Feeds!Pending(o) # {}
  <2> DEFINE d == article[Feeds!Min(Feeds!Pending(o))].batch
  <2>1. c = [batch |-> d, articles |-> Feeds!Pending(o), table |-> article, batches |-> batch]
    BY <1>1 DEF Feeds!Claim
  <2>2. Feeds!Min(Feeds!Pending(o)) \in Articles /\ d # 0 /\ batch[d].owner = o
    BY <1>1, FirstPending DEF Feeds!Pending
  <2>3. d \in Feeds!Batches /\ batch[d].made
    <3> DEFINE m == Feeds!Min(Feeds!Pending(o))
    <3>1. m \in Articles /\ article[m].batch # 0 /\ d = article[m].batch
      BY <2>2
    <3> HIDE DEF m, d
    <3>2. ArticleOK(article[m])
      BY <3>1 DEF RssInv, FeedsOK, ArticlesOK
    <3>3. d \in Feeds!Batches
      BY <3>1, <3>2 DEF ArticleOK
    <3>4. batch[d].made
      BY <3>1 DEF RssInv, Links, BatchesInOrder
    <3> QED BY <3>3, <3>4
  <2>4. ASSUME NEW a \in Articles, article[a].batch = d, ~article[a].read
        PROVE  a \in Feeds!Pending(o)
    BY <2>2, <2>4 DEF Feeds!Pending
  <2> HIDE DEF d
  <2>5. \A p \in Owners \ {o} : tick[p].busy => tick[p].batch # d
    BY <2>2 DEF RssInv, Links, TicksCarry
  <2>6. ArticlesOK /\ BatchesOK
    BY DEF RssInv, FeedsOK
  <2>7. /\ c.batch = d /\ c.articles = Feeds!Pending(o)
        /\ c.table = article /\ c.batches = batch
    BY <2>1
  <2> QED BY <2>2, <2>3, <2>4, <2>5, <2>6, <2>7 DEF ArticlesOK, BatchesOK, Taken
<1>2. CASE Feeds!Pending(o) = {}
  <2> DEFINE A == Feeds!Oldest(Feeds!Unclaimed(o), MaxItems)
             T == [a \in Articles |-> IF a \in A THEN [article[a] EXCEPT !.batch = c.batch]
                                                 ELSE article[a]]
             B == [batch EXCEPT ![c.batch].made = TRUE, ![c.batch].owner = o]
  <2>1. PICK e \in Feeds!NextBatch :
          c = [batch |-> e, articles |-> A,
               table |-> [a \in Articles |-> IF a \in A THEN [article[a] EXCEPT !.batch = e]
                                                        ELSE article[a]],
               batches |-> [batch EXCEPT ![e].made = TRUE, ![e].owner = o]]
    BY <1>2 DEF Feeds!Claim
  <2>2. c.batch \in Feeds!Batches /\ ~batch[c.batch].made
    BY <2>1 DEF Feeds!NextBatch
  <2>3. c.articles = A /\ c.table = T /\ c.batches = B
    BY <2>1
  <2> HIDE DEF A
  <2>4. ASSUME NEW a \in Articles
        PROVE  /\ ArticleOK(T[a]) /\ T[a].read = article[a].read
               /\ a \in A => T[a].batch = c.batch
               /\ a \notin A => T[a] = article[a]
    <3>1. ArticleOK(article[a])
      BY DEF RssInv, FeedsOK, ArticlesOK, BatchesOK
    <3>2. CASE a \in A
      <4>1. T[a] = [article[a] EXCEPT !.batch = c.batch]
        BY <3>2
      <4> QED BY <2>2, <3>1, <3>2, <4>1 DEF ArticleOK
    <3> QED BY <3>1, <3>2
  <2>5. ASSUME NEW a \in Articles PROVE article[a].batch # c.batch
    BY <2>2, NumberedBatches DEF RssInv, Links, BatchesInOrder
  <2>6. batch[c.batch].job = "none"
    BY <2>2 DEF RssInv, Links, BatchesInOrder
  <2>7. ASSUME NEW d \in Feeds!Batches
        PROVE  /\ BatchOK(B[d])
               /\ B[d].job = batch[d].job /\ B[d].out = batch[d].out
               /\ B[d].content = batch[d].content
               /\ d = c.batch => B[d].made /\ B[d].owner = o
               /\ d # c.batch => B[d] = batch[d]
    <3>1. BatchOK(batch[d]) /\ DOMAIN batch = Feeds!Batches
      BY DEF RssInv, FeedsOK, ArticlesOK, BatchesOK
    <3>2. CASE d = c.batch
      <4>1. B[d] = [[batch[d] EXCEPT !.made = TRUE] EXCEPT !.owner = o]
        BY <2>2, <3>1, <3>2
      <4> QED BY <3>1, <3>2, <4>1 DEF BatchOK
    <3>3. CASE d # c.batch
      <4>1. B[d] = batch[d]
        BY <2>2, <3>1, <3>3
      <4> QED BY <3>1, <3>3, <4>1
    <3> QED BY <3>2, <3>3
  <2>8. /\ DOMAIN T = Articles /\ T = [a \in Articles |-> T[a]]
        /\ DOMAIN B = Feeds!Batches /\ B = [d \in Feeds!Batches |-> B[d]]
    BY DEF RssInv, FeedsOK, ArticlesOK, BatchesOK
  <2>9. \A p \in Owners : tick[p].busy => tick[p].batch # c.batch
    BY <2>2 DEF RssInv, Links, TicksCarry
  <2> HIDE DEF T, B
  <2> QED BY <2>2, <2>3, <2>4, <2>5, <2>6, <2>7, <2>8, <2>9 DEF Taken
<1> QED BY <1>1, <1>2

-----------------------------------------------------------------------------
(* The handler *)

(* The choice of the articles that fit is one of them: going from the      *)
(* oldest to the newest, each either has room after those taken or not.    *)
LEMMA Fits ==
  ASSUME Numbers, NEW A \in SUBSET Articles
  PROVE  Feeds!Fitting(A) \in SUBSET A
<1> DEFINE HasRoom(a, S) == Feeds!Text(S) + article[a].size <= Room
           Below(S, n) == {b \in S : b < n}
           UpTo(n, F) == /\ F \subseteq Below(A, n)
                         /\ \A a \in Below(A, n) : a \in F <=> HasRoom(a, Below(F, a))
<1>1. A \subseteq Nat
  BY DEF Numbers
<1>2. Feeds!Fitting(A) = CHOOSE F \in SUBSET A : \A a \in A : a \in F <=> HasRoom(a, Below(F, a))
  BY DEF Feeds!Fitting
<1> HIDE DEF HasRoom
<1>3. ASSUME NEW m \in Nat, NEW n \in Nat, m <= n, NEW F, NEW G, UpTo(m, F), UpTo(n, G)
      PROVE  F = Below(G, m)
  <2> DEFINE D == {a \in Below(A, m) : ~(a \in F <=> a \in G)}
  <2>1. CASE D = {}
    <3>1. /\ F \subseteq Below(A, m) /\ G \subseteq Below(A, n)
          /\ \A a \in Below(A, m) : a \in F <=> a \in G
      BY <1>3, <2>1
    <3> QED BY <3>1
  <2>2. CASE D # {}
    <3>1. D \in SUBSET Nat
      BY <1>1
    <3>2. PICK a \in D : \A b \in D : a <= b
      BY <2>2, <3>1, Smallest
    <3>3. a \in Below(A, m) /\ a \in Below(A, n) /\ a \in Nat
      BY <1>1, <1>3
    <3>4. ASSUME NEW b, b < a, b \in F \/ b \in G PROVE b \in F /\ b \in G
      <4>1. b \in Below(A, n) /\ b \in Nat
        <5>1. b \in A /\ (b < m \/ b < n)
          BY <1>3, <3>4
        <5>2. b \in Nat
          BY <1>1, <5>1
        <5> QED BY <1>3, <5>1, <5>2
      <4>2. b \in Below(A, m) /\ ~(a <= b)
        BY <3>3, <3>4, <4>1
      <4> QED BY <3>2, <3>4, <4>2
    <3>5. Below(F, a) = Below(G, a)
      BY <3>4
    <3>6. a \in F <=> a \in G
      BY <1>3, <3>3, <3>5
    <3> QED BY <3>6
  <2> QED BY <2>1, <2>2
<1>4. ASSUME NEW n \in Nat PROVE \E F \in SUBSET A : UpTo(n, F)
  <2> DEFINE B == {m \in Nat : ~\E F \in SUBSET A : UpTo(m, F)}
  <2> SUFFICES ASSUME B # {} PROVE FALSE
    OBVIOUS
  <2>1. PICK m \in B : \A k \in B : m <= k
    BY Smallest
  <2>2. m # 0
    <3>1. \A b \in A : ~(b < 0)
      BY <1>1
    <3>2. UpTo(0, {}) /\ {} \in SUBSET A
      BY <3>1
    <3> HIDE DEF UpTo
    <3> QED BY <3>2
  <2>3. m - 1 \in Nat /\ m - 1 \notin B
    BY <2>1, <2>2
  <2> DEFINE k == m - 1
  <2>4. PICK F \in SUBSET A : UpTo(k, F)
    BY <2>3
  <2>5. k \in Nat /\ \A a \in A : a < m <=> a < k \/ a = k
    BY <1>1, <2>3
  <2>6. ~(k < k) /\ \A a \in A : a < k => ~(k < a)
    BY <1>1, <2>5
  <2> HIDE DEF k
  <2> DEFINE G == F \cup {a \in A : a = k /\ HasRoom(k, Below(F, k))}
  <2>7. ASSUME NEW a \in A, a < m PROVE Below(G, a) = Below(F, a)
    BY <1>1, <2>5, <2>6, <2>7
  <2>8. G \in SUBSET A /\ G \subseteq Below(A, m)
    BY <2>4, <2>5
  <2>9. ASSUME NEW a \in Below(A, m) PROVE a \in G <=> HasRoom(a, Below(G, a))
    <3>1. Below(G, a) = Below(F, a)
      BY <2>7
    <3>2. CASE a = k
      <4>1. a \notin F
        BY <2>4, <2>6, <3>2
      <4> QED BY <3>1, <3>2, <4>1
    <3>3. CASE a # k
      <4>1. a \in Below(A, k) /\ (a \in G <=> a \in F)
        BY <2>5, <3>3
      <4> QED BY <2>4, <3>1, <4>1
    <3> QED BY <3>2, <3>3
  <2>10. UpTo(m, G)
    BY <2>8, <2>9
  <2> QED BY <2>8, <2>10
<1>5. PICK T \in [Nat -> SUBSET A] : \A n \in Nat : UpTo(n, T[n])
  <2> DEFINE U == [n \in Nat |-> CHOOSE F \in SUBSET A : UpTo(n, F)]
  <2>1. ASSUME NEW n \in Nat PROVE U[n] \in SUBSET A /\ UpTo(n, U[n])
    BY <1>4
  <2>2. U \in [Nat -> SUBSET A]
    BY <2>1
  <2> QED BY <2>1, <2>2
<1> DEFINE H == {a \in A : a \in T[a + 1]}
<1>6. ASSUME NEW a \in A PROVE Below(H, a) = Below(T[a + 1], a) /\ (a \in H <=> a \in T[a + 1])
  <2>1. a \in Nat /\ a + 1 \in Nat /\ UpTo(a + 1, T[a + 1])
    BY <1>1, <1>5
  <2>2. ASSUME NEW b \in A, b < a PROVE b \in T[b + 1] <=> b \in T[a + 1]
    <3>1. b + 1 \in Nat /\ b + 1 <= a + 1 /\ UpTo(b + 1, T[b + 1]) /\ b < b + 1
      BY <1>1, <1>5, <2>1, <2>2
    <3>2. T[b + 1] = Below(T[a + 1], b + 1)
      <4> HIDE DEF UpTo, Below
      <4> QED BY <1>3, <2>1, <3>1
    <3> QED BY <3>1, <3>2
  <2>3. T[a + 1] \subseteq A
    BY <1>5, <2>1
  <2> QED BY <2>2, <2>3
<1>7. ASSUME NEW a \in A PROVE a \in H <=> HasRoom(a, Below(H, a))
  <2>1. a + 1 \in Nat /\ a < a + 1
    BY <1>1
  <2>2. a \in T[a + 1] <=> HasRoom(a, Below(T[a + 1], a))
    BY <1>5, <2>1
  <2> QED BY <1>6, <2>2
<1>8. H \in SUBSET A /\ \A a \in A : a \in H <=> HasRoom(a, Below(H, a))
  BY <1>7
<1> HIDE DEF H
<1>9. \E F \in SUBSET A : \A a \in A : a \in F <=> HasRoom(a, Below(F, a))
  BY <1>8
<1> QED BY <1>2, <1>9
(* Articles that leave their batch unread, and those that stay *)
LEMMA Leaving ==
  ASSUME Numbers, RssInv, NEW A \in SUBSET Articles,
         article' = [a \in Articles |-> IF a \in A THEN [article[a] EXCEPT !.batch = 0]
                                                   ELSE article[a]]
  PROVE  ArticlesOK' /\ ArticlesSettle
<1>1. ASSUME NEW a \in Articles
      PROVE  /\ ArticleOK(article'[a]) /\ article'[a].read = article[a].read
             /\ article'[a].batch \in {article[a].batch, 0}
  <2>1. ArticleOK(article[a])
    BY DEF RssInv, FeedsOK, ArticlesOK
  <2>2. CASE a \in A
    <3>1. article'[a] = [article[a] EXCEPT !.batch = 0]
      BY <2>2
    <3> QED BY <2>1, <3>1 DEF ArticleOK
  <2>3. CASE a \notin A
    BY <2>1, <2>3
  <2> QED BY <2>2, <2>3
<1> QED BY <1>1 DEF ArticlesOK, ArticlesSettle

LEMMA ReleaseSettles ==
  ASSUME Numbers, RssInv, NEW d, article' = Feeds!Released(Feeds!Claimed(d), d)
  PROVE  ArticlesOK' /\ ArticlesSettle
<1>1. Feeds!Claimed(d) \in SUBSET Articles
  BY DEF Feeds!Claimed
<1>2. \A a \in Feeds!Claimed(d) : article[a].batch = d
  BY DEF Feeds!Claimed
<1>3. article' = [a \in Articles |-> IF a \in Feeds!Claimed(d) THEN [article[a] EXCEPT !.batch = 0]
                                                               ELSE article[a]]
  BY <1>2 DEF Feeds!Released
<1> QED BY <1>1, <1>3, Leaving

LEMMA SameArticles ==
  ASSUME RssInv, UNCHANGED article
  PROVE  ArticlesOK' /\ ArticlesSettle
BY DEF RssInv, FeedsOK, ArticlesOK, ArticlesSettle

LEMMA SameBatches ==
  ASSUME RssInv, UNCHANGED batch
  PROVE  BatchesOK' /\ BatchesProceed
BY DEF RssInv, FeedsOK, BatchesOK, Links, BatchesInOrder, BatchesProceed, Feeds!Reached

LEMMA SameTicks ==
  ASSUME RssInv, UNCHANGED tick
  PROVE  TicksOK' /\ TicksEnd
BY DEF RssInv, FeedsOK, TicksOK, TicksEnd

LEMMA TickEnds ==
  ASSUME RssInv, NEW o \in Owners, tick' = [tick EXCEPT ![o] = Feeds!NoTick]
  PROVE  TicksOK' /\ TicksEnd
BY DEF RssInv, FeedsOK, TicksOK, TickOK, TicksEnd, Feeds!NoTick

LEMMA AllTicksEnd ==
  ASSUME tick' = [o \in Owners |-> Feeds!NoTick]
  PROVE  TicksOK' /\ TicksEnd
BY DEF TicksOK, TickOK, TicksEnd, Feeds!NoTick

LEMMA CollectSettles ==
  ASSUME Numbers, RssInv, NEW a \in Articles, NEW size, Feeds!Collect(a, size)
  PROVE  Settling /\ \A d : Feeds!Claimed(d)' = Feeds!Claimed(d)
<1>1. article' = [article EXCEPT ![a].known = TRUE, ![a].size = size]
      /\ UNCHANGED <<batch, tick>>
  BY DEF Feeds!Collect
<1>2. ASSUME NEW b \in Articles
      PROVE  /\ ArticleOK(article'[b]) /\ article'[b].read = article[b].read
             /\ article'[b].batch = article[b].batch
  <2>1. ArticleOK(article[b]) /\ DOMAIN article = Articles
    BY DEF RssInv, FeedsOK, ArticlesOK
  <2>2. CASE b = a
    <3>1. article'[b] = [[article[b] EXCEPT !.known = TRUE] EXCEPT !.size = size]
      BY <1>1, <2>1, <2>2
    <3> QED BY <2>1, <3>1 DEF ArticleOK
  <2>3. CASE b # a
    <3>1. article'[b] = article[b]
      BY <1>1, <2>1, <2>3
    <3> QED BY <2>1, <3>1
  <2> QED BY <2>2, <2>3
<1>3. DOMAIN article' = Articles /\ article' = [b \in Articles |-> article'[b]]
  BY <1>1 DEF RssInv, FeedsOK, ArticlesOK
<1>4. ArticlesOK' /\ ArticlesSettle
  BY <1>2, <1>3 DEF ArticlesOK, ArticlesSettle
<1>5. \A d : Feeds!Claimed(d)' = Feeds!Claimed(d)
  BY <1>2 DEF Feeds!Claimed
<1> QED BY <1>1, <1>4, <1>5, SameBatches, SameTicks DEF FeedsOK, Settling

LEMMA EnqueueSettles ==
  ASSUME Numbers, RssInv, NEW o \in Owners, Feeds!Enqueue(o)
  PROVE  Settling
<1>1. PICK d \in Feeds!Batches : d = tick[o].batch
  BY DEF Feeds!Enqueue, RssInv, Links, TicksCarry
<1>2. batch[d].made /\ Feeds!Claimed(d) \subseteq tick[o].content
  BY <1>1 DEF Feeds!Enqueue, RssInv, Links, TicksCarry
<1>3. tick' = [tick EXCEPT ![o] = Feeds!NoTick] /\ UNCHANGED article
  BY DEF Feeds!Enqueue
<1>4. CASE batch[d].job # "none"
  <2>1. UNCHANGED batch
    BY <1>1, <1>4 DEF Feeds!Enqueue
  <2> QED BY <1>3, <2>1, SameArticles, SameBatches, TickEnds DEF FeedsOK, Settling
<1>5. CASE batch[d].job = "none"
  <2>1. batch' = [batch EXCEPT ![d].job = "queued", ![d].content = tick[o].content]
    BY <1>1, <1>5 DEF Feeds!Enqueue
  <2>2. DOMAIN batch = Feeds!Batches /\ \A e \in Feeds!Batches : BatchOK(batch[e])
    BY DEF RssInv, FeedsOK, BatchesOK
  <2>3. \A e \in Feeds!Batches \ {d} : batch'[e] = batch[e]
    BY <2>1, <2>2
  <2>4. batch'[d] = [[batch[d] EXCEPT !.job = "queued"] EXCEPT !.content = tick[o].content]
    BY <2>1, <2>2
  <2>5. /\ BatchOK(batch'[d]) /\ batch'[d].job = "queued"
        /\ batch'[d].content = tick[o].content /\ batch'[d].made = batch[d].made
        /\ batch'[d].owner = batch[d].owner /\ batch'[d].out = batch[d].out
    BY <2>2, <2>4 DEF BatchOK, Job, Feeds!Live
  <2>6. DOMAIN batch' = Feeds!Batches /\ batch' = [e \in Feeds!Batches |-> batch'[e]]
    BY <2>1 DEF RssInv, FeedsOK, BatchesOK
  <2>7. BatchesOK'
    BY <2>2, <2>3, <2>5, <2>6 DEF BatchesOK
  <2>8. BatchesProceed
    BY <1>2, <1>5, <2>3, <2>5
       DEF BatchesProceed, RssInv, Links, BatchesInOrder, Feeds!Reached, Unfinished
  <2> QED BY <1>3, <2>7, <2>8, SameArticles, TickEnds DEF FeedsOK, Settling
<1> QED BY <1>4, <1>5

LEMMA EnqueueFailsSettles ==
  ASSUME Numbers, RssInv, NEW o \in Owners, Feeds!EnqueueFails(o)
  PROVE  Settling
<1>1. /\ article' = Feeds!Released(Feeds!Claimed(tick[o].batch), tick[o].batch)
      /\ tick' = [tick EXCEPT ![o] = Feeds!NoTick] /\ UNCHANGED batch
  BY DEF Feeds!EnqueueFails
<1> QED BY <1>1, ReleaseSettles, SameBatches, TickEnds DEF FeedsOK, Settling

-----------------------------------------------------------------------------
(* The ledger and the outbox *)

LEMMA JobSettles ==
  ASSUME Numbers, RssInv, NEW d \in Feeds!Batches, UNCHANGED <<article, tick>>,
         DOMAIN batch' = Feeds!Batches, batch' = [e \in Feeds!Batches |-> batch'[e]],
         \A e \in Feeds!Batches \ {d} : batch'[e] = batch[e],
         BatchOK(batch'[d]), batch[d].job # "none", ~Feeds!Reached(d),
         batch'[d].job # "none", batch'[d].content = batch[d].content,
         batch'[d].made = batch[d].made, batch'[d].owner = batch[d].owner,
         batch'[d].job \in Unfinished => batch'[d].out = "none"
  PROVE  Settling
<1>1. BatchesOK'
  BY DEF RssInv, FeedsOK, BatchesOK
<1>2. BatchesProceed
  BY DEF BatchesProceed, RssInv, Links, BatchesInOrder, Feeds!Reached
<1> QED BY <1>1, <1>2, SameArticles, SameTicks DEF FeedsOK, Settling

LEMMA BecomingSettles ==
  ASSUME Numbers, RssInv, NEW d \in Feeds!Batches, UNCHANGED <<article, tick>>,
         NEW job \in Job \ Unfinished, NEW out \in Feeds!Delivery, NEW owed \in BOOLEAN,
         Feeds!JobBecomes(d, job, out, owed), batch[d].job # "none", ~Feeds!Reached(d)
  PROVE  Settling
<1>1. /\ DOMAIN batch = Feeds!Batches /\ BatchOK(batch[d])
      /\ batch = [e \in Feeds!Batches |-> batch[e]]
  BY DEF RssInv, FeedsOK, BatchesOK
<1>2. batch'[d] = [[[batch[d] EXCEPT !.job = job] EXCEPT !.out = out] EXCEPT !.owed = owed]
  BY <1>1 DEF Feeds!JobBecomes
<1>3. \A e \in Feeds!Batches \ {d} : batch'[e] = batch[e]
  BY <1>1 DEF Feeds!JobBecomes
<1>4. DOMAIN batch' = Feeds!Batches /\ batch' = [e \in Feeds!Batches |-> batch'[e]]
  BY <1>1 DEF Feeds!JobBecomes
<1>5. /\ BatchOK(batch'[d]) /\ batch'[d].job = job
      /\ batch'[d].content = batch[d].content
      /\ batch'[d].made = batch[d].made /\ batch'[d].owner = batch[d].owner
  BY <1>1, <1>2 DEF BatchOK
<1> QED BY <1>3, <1>4, <1>5, JobSettles DEF Unfinished

LEMMA WorkSettles ==
  ASSUME Numbers, RssInv, NEW d \in Feeds!Batches, Feeds!Work(d)
  PROVE  Settling
<1>1. /\ DOMAIN batch = Feeds!Batches /\ BatchOK(batch[d])
      /\ batch = [e \in Feeds!Batches |-> batch[e]]
  BY DEF RssInv, FeedsOK, BatchesOK
<1>2. batch[d].job = "queued" /\ batch[d].out = "none" /\ UNCHANGED <<article, tick>>
  BY DEF Feeds!Work, RssInv, Links, BatchesInOrder, Unfinished, Feeds!Live
<1>3. \A e \in Feeds!Batches \ {d} : batch'[e] = batch[e]
  BY <1>1 DEF Feeds!Work
<1>4. DOMAIN batch' = Feeds!Batches /\ batch' = [e \in Feeds!Batches |-> batch'[e]]
  BY <1>1 DEF Feeds!Work
<1>5. \/ batch'[d] = [[batch[d] EXCEPT !.job = "running"] EXCEPT !.tries = batch[d].tries + 1]
      \/ batch'[d] = [batch[d] EXCEPT !.job = "dead_letter"]
  BY <1>1 DEF Feeds!Work
<1>6. /\ BatchOK(batch'[d]) /\ batch'[d].job # "none"
      /\ batch'[d].content = batch[d].content /\ batch'[d].out = "none"
      /\ batch'[d].made = batch[d].made /\ batch'[d].owner = batch[d].owner
  BY <1>1, <1>2, <1>5 DEF BatchOK, Job, Feeds!Live
<1> QED BY <1>2, <1>3, <1>4, <1>6, JobSettles DEF Feeds!Reached

LEMMA FinishSettles ==
  ASSUME Numbers, RssInv, NEW d \in Feeds!Batches, Feeds!Finish(d)
  PROVE  Settling
<1>1. batch[d].job = "running" /\ batch[d].out = "none" /\ UNCHANGED <<article, tick>>
  BY DEF Feeds!Finish, RssInv, Links, BatchesInOrder, Unfinished, Feeds!Live
<1>2. PICK job \in {"completed", "dead_letter"}, out \in {"pending", "suppressed", "none"},
           owed \in BOOLEAN : Feeds!JobBecomes(d, job, out, owed)
  BY DEF Feeds!Finish
<1>3. job \in Job \ Unfinished /\ out \in Feeds!Delivery
  BY DEF Job, Unfinished, Feeds!Live, Feeds!Delivery
<1> QED BY <1>1, <1>2, <1>3, BecomingSettles DEF Feeds!Reached

LEMMA DeliverSettles ==
  ASSUME Numbers, RssInv, NEW d \in Feeds!Batches, Feeds!Deliver(d)
  PROVE  Settling
<1>1. batch[d].out = "pending" /\ batch[d].job # "none" /\ UNCHANGED <<article, tick>>
  BY DEF Feeds!Deliver, RssInv, Links, BatchesInOrder, Unfinished, Feeds!Live
<1>2. PICK out \in {"sent", "failed", "ambiguous"}, owed \in BOOLEAN :
        Feeds!JobBecomes(d, "completed", out, owed)
  BY DEF Feeds!Deliver
<1>3. "completed" \in Job \ Unfinished /\ out \in Feeds!Delivery
  BY DEF Job, Unfinished, Feeds!Live, Feeds!Delivery
<1> QED BY <1>1, <1>2, <1>3, BecomingSettles DEF Feeds!Reached

-----------------------------------------------------------------------------
(* The source *)

LEMMA ReadingSettles ==
  ASSUME Numbers, RssInv, NEW d \in Feeds!Batches, Feeds!Reached(d),
         article' = Feeds!MarkedRead(Feeds!Claimed(d))
  PROVE  ArticlesOK' /\ ArticlesSettle
<1>1. ASSUME NEW a \in Articles
      PROVE  /\ ArticleOK(article'[a]) /\ article'[a].batch \in {article[a].batch, 0}
             /\ article[a].read => article'[a].read
             /\ article'[a].read => article[a].read \/ a \in Feeds!Claimed(d)
  <2>1. ArticleOK(article[a])
    BY DEF RssInv, FeedsOK, ArticlesOK
  <2>2. CASE a \in Feeds!Claimed(d) /\ ~article[a].read
    <3>1. article'[a] = [[article[a] EXCEPT !.read = TRUE] EXCEPT !.batch = 0]
      BY <2>2 DEF Feeds!MarkedRead
    <3> QED BY <2>1, <2>2, <3>1 DEF ArticleOK
  <2>3. CASE ~(a \in Feeds!Claimed(d) /\ ~article[a].read)
    <3>1. article'[a] = article[a]
      BY <2>3 DEF Feeds!MarkedRead
    <3> QED BY <2>1, <3>1
  <2> QED BY <2>2, <2>3
<1>2. DOMAIN article' = Articles /\ article' = [a \in Articles |-> article'[a]]
  BY DEF Feeds!MarkedRead
<1> QED BY <1>1, <1>2, ReachedCarried DEF ArticlesOK, ArticlesSettle

LEMMA SettleSettles ==
  ASSUME Numbers, RssInv, NEW d \in Feeds!Batches, Feeds!Settle(d)
  PROVE  Settling
<1>1. batch' = [batch EXCEPT ![d].owed = FALSE] /\ UNCHANGED tick
  BY DEF Feeds!Settle
<1>2. DOMAIN batch = Feeds!Batches /\ \A e \in Feeds!Batches : BatchOK(batch[e])
  BY DEF RssInv, FeedsOK, BatchesOK
<1>3. \A e \in Feeds!Batches : \/ batch'[e] = batch[e]
                               \/ batch'[e] = [batch[e] EXCEPT !.owed = FALSE]
  BY <1>1, <1>2
<1>4. ASSUME NEW e \in Feeds!Batches
      PROVE  /\ BatchOK(batch'[e]) /\ batch'[e].job = batch[e].job
             /\ batch'[e].out = batch[e].out /\ batch'[e].content = batch[e].content
             /\ batch'[e].made = batch[e].made /\ batch'[e].owner = batch[e].owner
  <2>1. BatchOK(batch[e])
    BY <1>2
  <2>2. CASE batch'[e] = batch[e]
    BY <2>1, <2>2
  <2>3. CASE batch'[e] = [batch[e] EXCEPT !.owed = FALSE]
    BY <2>1, <2>3 DEF BatchOK
  <2> QED BY <1>3, <2>2, <2>3
<1>5. BatchesOK'
  BY <1>1, <1>4 DEF RssInv, FeedsOK, BatchesOK
<1>6. BatchesProceed
  BY <1>4 DEF BatchesProceed, RssInv, Links, BatchesInOrder, Feeds!Reached
<1>7. \/ Feeds!Reached(d) /\ article' = Feeds!MarkedRead(Feeds!Claimed(d))
      \/ article' = Feeds!Released(Feeds!Claimed(d), d)
      \/ UNCHANGED article
  BY DEF Feeds!Settle
<1>8. ArticlesOK' /\ ArticlesSettle
  BY <1>7, ReadingSettles, ReleaseSettles, SameArticles
<1> QED BY <1>1, <1>5, <1>6, <1>8, SameTicks DEF FeedsOK, Settling

LEMMA StartSettles ==
  ASSUME Numbers, RssInv, Feeds!Start
  PROVE  Settling
<1>1. ASSUME NEW a \in Articles
      PROVE  /\ ArticleOK(article'[a]) /\ article'[a].batch \in {article[a].batch, 0}
             /\ article[a].read => article'[a].read
             /\ article'[a].read =>
                  \/ article[a].read
                  \/ \E d \in Feeds!Batches : a \in Feeds!Claimed(d) /\ Feeds!Reached(d)
  <2> DEFINE d == article[a].batch
  <2>1. ArticleOK(article[a])
    BY DEF RssInv, FeedsOK, ArticlesOK
  <2>2. CASE article'[a] = article[a]
    BY <2>1, <2>2
  <2>3. CASE /\ article'[a] = [[article[a] EXCEPT !.read = TRUE] EXCEPT !.batch = 0]
             /\ d # 0 /\ ~article[a].read /\ Feeds!Reached(d)
    <3>1. a \in Feeds!Claimed(d) /\ d \in Feeds!Batches
      BY <2>1, <2>3 DEF Feeds!Claimed, ArticleOK
    <3> QED BY <2>1, <2>3, <3>1 DEF ArticleOK
  <2>4. CASE article'[a] = [article[a] EXCEPT !.batch = 0]
    BY <2>1, <2>4 DEF ArticleOK
  <2>5. \/ article'[a] = article[a]
        \/ /\ article'[a] = [[article[a] EXCEPT !.read = TRUE] EXCEPT !.batch = 0]
           /\ d # 0 /\ ~article[a].read /\ Feeds!Reached(d)
        \/ article'[a] = [article[a] EXCEPT !.batch = 0]
    BY DEF Feeds!Start, Feeds!Reconcile
  <2> QED BY <2>2, <2>3, <2>4, <2>5
<1>2. DOMAIN article' = Articles /\ article' = [a \in Articles |-> article'[a]]
  BY DEF Feeds!Start, Feeds!Reconcile
<1>3. ArticlesOK' /\ ArticlesSettle
  BY <1>1, <1>2, ReachedCarried DEF ArticlesOK, ArticlesSettle
<1>4. UNCHANGED <<batch, tick>>
  BY DEF Feeds!Start
<1> QED BY <1>3, <1>4, SameBatches, SameTicks DEF FeedsOK, Settling

-----------------------------------------------------------------------------
(* Crashes *)

LEMMA AbandonedRows ==
  ASSUME NEW b, DOMAIN b = Feeds!Batches, \A d \in Feeds!Batches : BatchOK(b[d])
  PROVE  LET t == Feeds!Abandoned(b) IN
         /\ DOMAIN t = Feeds!Batches /\ t = [d \in Feeds!Batches |-> t[d]]
         /\ \A d \in Feeds!Batches :
              /\ BatchOK(t[d]) /\ ~t[d].owed /\ t[d].out = b[d].out /\ t[d].content = b[d].content
              /\ t[d].made = b[d].made /\ t[d].owner = b[d].owner
              /\ \/ t[d].job = b[d].job
                 \/ b[d].job = "running" /\ t[d].job = "queued"
<1> DEFINE t == Feeds!Abandoned(b)
<1>1. ASSUME NEW d \in Feeds!Batches
      PROVE  /\ BatchOK(t[d]) /\ ~t[d].owed /\ t[d].out = b[d].out /\ t[d].content = b[d].content
             /\ t[d].made = b[d].made /\ t[d].owner = b[d].owner
             /\ \/ t[d].job = b[d].job
                \/ b[d].job = "running" /\ t[d].job = "queued"
  <2>1. t[d] = [[b[d] EXCEPT !.owed = FALSE]
                       EXCEPT !.job = IF b[d].job = "running" THEN "queued" ELSE b[d].job]
    BY DEF Feeds!Abandoned, BatchOK
  <2> HIDE DEF t
  <2> QED BY <2>1 DEF BatchOK, Job, Feeds!Live
<1>2. DOMAIN t = Feeds!Batches /\ t = [d \in Feeds!Batches |-> t[d]]
  BY DEF Feeds!Abandoned
<1> HIDE DEF t
<1>3. LET u == t IN
         /\ DOMAIN u = Feeds!Batches /\ u = [d \in Feeds!Batches |-> u[d]]
         /\ \A d \in Feeds!Batches :
              /\ BatchOK(u[d]) /\ ~u[d].owed /\ u[d].out = b[d].out /\ u[d].content = b[d].content
              /\ u[d].made = b[d].made /\ u[d].owner = b[d].owner
              /\ \/ u[d].job = b[d].job
                 \/ b[d].job = "running" /\ u[d].job = "queued"
  BY <1>1, <1>2
<1> QED BY <1>3 DEF t

LEMMA FeedsCrashSettles ==
  ASSUME Numbers, RssInv, Feeds!Crash
  PROVE  Settling
<1>1. /\ batch' = Feeds!Abandoned(batch) /\ tick' = [o \in Owners |-> Feeds!NoTick]
      /\ UNCHANGED article
  BY DEF Feeds!Crash, Feeds!Halt
<1>2. DOMAIN batch = Feeds!Batches /\ \A d \in Feeds!Batches : BatchOK(batch[d])
  BY DEF RssInv, FeedsOK, BatchesOK
<1>3. BatchesOK'
  BY <1>1, <1>2, AbandonedRows DEF BatchesOK
<1>4. BatchesProceed
  BY <1>1, <1>2, AbandonedRows
     DEF BatchesProceed, RssInv, Links, BatchesInOrder, Feeds!Reached, Unfinished, Feeds!Live
<1> QED BY <1>1, <1>3, <1>4, SameArticles, AllTicksEnd DEF FeedsOK, Settling

-----------------------------------------------------------------------------
(* Steps that claim *)

(* What both have in common: b is the batch of the claim. *)
LEMMA ClaimingKeeps ==
  ASSUME Numbers, RssInv, FeedsOK', NEW o \in Owners, NEW b \in Feeds!Batches, batch'[b].made,
         \A a \in Articles :
           /\ article'[a].read = article[a].read
           /\ \/ article'[a].batch \in {article[a].batch, 0}
              \/ article'[a].batch = b /\ batch[b].job = "none",
         \A d \in Feeds!Batches :
           /\ batch[d].made => batch'[d].made /\ batch'[d].owner = batch[d].owner
           /\ batch'[d].out = batch[d].out /\ batch'[d].content = batch[d].content
           /\ \/ batch'[d].job = batch[d].job
              \/ batch[d].job = "running" /\ batch'[d].job = "queued",
         \A p \in Owners : tick'[p].busy =>
           \/ tick'[p] = tick[p] /\ tick[p].batch # b
           \/ /\ p = o /\ tick'[p].batch = b /\ batch'[b].owner = o
              /\ \A a \in Articles :
                   article'[a].batch = b /\ ~article'[a].read => a \in tick'[p].content
  PROVE  RssInv'
<1>1. ASSUME NEW d \in Feeds!Batches, NEW a \in Articles, d # b \/ batch[b].job # "none",
             article'[a].batch = d, ~article'[a].read
      PROVE  a \in Feeds!Claimed(d)
  BY <1>1, NumberedBatches DEF Feeds!Claimed
<1>2. BatchesInOrder'
  <2>1. ASSUME NEW a \in Articles, article'[a].batch # 0
        PROVE  batch'[article'[a].batch].made
    <3>1. CASE article'[a].batch = b
      BY <3>1
    <3>2. CASE article'[a].batch = article[a].batch
      <4>1. article[a].batch \in Feeds!Batches /\ batch[article[a].batch].made
        BY <2>1, <3>2 DEF RssInv, FeedsOK, ArticlesOK, ArticleOK, Links, BatchesInOrder
      <4> QED BY <3>2, <4>1
    <3> QED BY <2>1, <3>1, <3>2
  <2>2. ASSUME NEW d \in Feeds!Batches
        PROVE  /\ ~batch'[d].made => batch'[d].job = "none"
               /\ batch'[d].job \in Unfinished => batch'[d].out = "none"
    BY DEF RssInv, Links, BatchesInOrder, Unfinished, Feeds!Live
  <2> QED BY <2>1, <2>2 DEF BatchesInOrder
<1>3. ClaimsCarried'
  <2> SUFFICES ASSUME NEW d \in Feeds!Batches, batch'[d].job # "none",
                      NEW a \in Articles, article'[a].batch = d, ~article'[a].read
               PROVE  a \in batch'[d].content
    BY DEF ClaimsCarried, Feeds!Claimed
  <2>1. batch[d].job # "none"
    OBVIOUS
  <2> QED BY <1>1, <2>1 DEF RssInv, Links, ClaimsCarried
<1>4. TicksCarry'
  <2> SUFFICES ASSUME NEW p \in Owners, tick'[p].busy
               PROVE  /\ tick'[p].batch \in Feeds!Batches
                      /\ batch'[tick'[p].batch].made /\ batch'[tick'[p].batch].owner = p
                      /\ \A a \in Articles :
                           article'[a].batch = tick'[p].batch /\ ~article'[a].read
                             => a \in tick'[p].content
    BY DEF TicksCarry, Feeds!Claimed
  <2>1. CASE tick'[p] = tick[p] /\ tick[p].batch # b
    <3>1. PICK d \in Feeds!Batches : d = tick[p].batch
      BY <2>1 DEF RssInv, Links, TicksCarry
    <3>2. batch[d].made /\ batch[d].owner = p /\ Feeds!Claimed(d) \subseteq tick[p].content
      BY <2>1, <3>1 DEF RssInv, Links, TicksCarry
    <3>3. ASSUME NEW a \in Articles, article'[a].batch = d, ~article'[a].read
          PROVE  a \in tick[p].content
      BY <1>1, <2>1, <3>1, <3>2, <3>3
    <3>4. batch'[d].made /\ batch'[d].owner = p
      BY <3>2
    <3> QED BY <2>1, <3>1, <3>3, <3>4
  <2>2. CASE ~(tick'[p] = tick[p] /\ tick[p].batch # b)
    BY <2>2
  <2> QED BY <2>1, <2>2
<1>5. Feeds!ReadWasDelivered'
  BY DEF RssInv, Links, Feeds!ReadWasDelivered
<1> QED BY <1>2, <1>3, <1>4, <1>5 DEF RssInv, Links

LEMMA TickKeeps ==
  ASSUME Numbers, RssInv, NEW o \in Owners, Feeds!Tick(o)
  PROVE  RssInv'
<1>1. PICK c \in Feeds!Claim(o) :
        LET F == Feeds!Fitting(c.articles) IN
        /\ article' = Feeds!WithoutPassedOver(c.table, c.articles \ F)
        /\ batch' = c.batches
        /\ tick' = IF F = {} THEN tick
                   ELSE [tick EXCEPT ![o] = [busy |-> TRUE, batch |-> c.batch, content |-> F]]
  BY DEF Feeds!Tick
<1> DEFINE F == Feeds!Fitting(c.articles)
<1>2. /\ article' = Feeds!WithoutPassedOver(c.table, c.articles \ F)
      /\ batch' = c.batches
      /\ \/ tick' = tick
         \/ tick' = [tick EXCEPT ![o] = [busy |-> TRUE, batch |-> c.batch, content |-> F]]
  BY <1>1
<1> HIDE DEF F
<1>0. Taken(o, c)
  BY Claims
<1>3. ASSUME NEW a \in Articles
      PROVE  /\ ArticleOK(article'[a]) /\ article'[a].read = article[a].read
             /\ article'[a].batch \in {c.table[a].batch, 0}
             /\ article'[a].batch = c.batch /\ ~article'[a].read => a \in F
  <2>1. /\ ArticleOK(c.table[a]) /\ c.table[a].read = article[a].read
        /\ c.table[a].batch = c.batch /\ ~article[a].read => a \in c.articles
        /\ c.batch # 0
    BY <1>0, NumberedBatches DEF Taken
  <2>2. CASE a \in c.articles \ F
    <3>1. article'[a] = [c.table[a] EXCEPT !.batch = 0]
      BY <1>2, <2>2 DEF Feeds!WithoutPassedOver
    <3> QED BY <2>1, <3>1 DEF ArticleOK
  <2>3. CASE a \notin c.articles \ F
    <3>1. article'[a] = c.table[a]
      BY <1>2, <2>3 DEF Feeds!WithoutPassedOver
    <3> QED BY <2>1, <2>3, <3>1
  <2> QED BY <2>2, <2>3
<1>4. ArticlesOK'
  <2>1. DOMAIN article' = Articles /\ article' = [a \in Articles |-> article'[a]]
    BY <1>2 DEF Feeds!WithoutPassedOver
  <2> QED BY <1>3, <2>1 DEF ArticlesOK
<1>5. BatchesOK'
  BY <1>2, <1>0 DEF Taken, BatchesOK
<1>6. TicksOK'
  <2>1. TicksOK
    BY DEF RssInv, FeedsOK
  <2>2. TickOK([busy |-> TRUE, batch |-> c.batch, content |-> F])
    BY DEF TickOK
  <2> QED BY <1>2, <2>1, <2>2 DEF TicksOK
<1>7. DOMAIN tick = Owners /\ ~tick[o].busy
  BY DEF Feeds!Tick, RssInv, FeedsOK, TicksOK
<1>8. ASSUME NEW p \in Owners, tick'[p].busy
      PROVE  \/ tick'[p] = tick[p] /\ tick[p].batch # c.batch
             \/ /\ p = o /\ tick'[p].batch = c.batch /\ batch'[c.batch].owner = o
                /\ \A a \in Articles :
                     article'[a].batch = c.batch /\ ~article'[a].read => a \in tick'[p].content
  <2>1. CASE p = o
    <3>1. tick'[p] = [busy |-> TRUE, batch |-> c.batch, content |-> F]
      BY <1>2, <1>7, <1>8, <2>1
    <3>2. batch'[c.batch].owner = o
      BY <1>2, <1>0 DEF Taken
    <3> QED BY <1>3, <2>1, <3>1, <3>2
  <2>2. CASE p # o
    <3>1. tick'[p] = tick[p]
      BY <1>2, <1>7, <2>2
    <3> QED BY <1>8, <2>2, <3>1, <1>0 DEF Taken
  <2> QED BY <2>1, <2>2
<1>9. c.batch \in Feeds!Batches /\ batch'[c.batch].made
  BY <1>2, <1>0 DEF Taken
<1>10. \A a \in Articles :
         /\ article'[a].read = article[a].read
         /\ \/ article'[a].batch \in {article[a].batch, 0}
            \/ article'[a].batch = c.batch /\ batch[c.batch].job = "none"
  BY <1>3, <1>0 DEF Taken
<1>11. \A d \in Feeds!Batches :
         /\ batch[d].made => batch'[d].made /\ batch'[d].owner = batch[d].owner
         /\ batch'[d].out = batch[d].out /\ batch'[d].content = batch[d].content
         /\ batch'[d].job = batch[d].job
  BY <1>2, <1>0 DEF Taken
<1> QED BY <1>4, <1>5, <1>6, <1>8, <1>9, <1>10, <1>11, ClaimingKeeps DEF FeedsOK

LEMMA CrashInTickKeeps ==
  ASSUME Numbers, RssInv, NEW o \in Owners, Feeds!CrashInTick(o)
  PROVE  RssInv'
<1>1. PICK c \in Feeds!Claim(o) : article' = c.table /\ batch' = Feeds!Abandoned(c.batches)
  BY DEF Feeds!CrashInTick
<1>0. Taken(o, c)
  BY Claims
<1>2. DOMAIN c.batches = Feeds!Batches /\ \A d \in Feeds!Batches : BatchOK(c.batches[d])
  BY <1>0 DEF Taken
<1>3. /\ DOMAIN batch' = Feeds!Batches /\ batch' = [d \in Feeds!Batches |-> batch'[d]]
      /\ \A d \in Feeds!Batches :
           /\ BatchOK(batch'[d]) /\ batch'[d].out = c.batches[d].out
           /\ batch'[d].content = c.batches[d].content
           /\ batch'[d].made = c.batches[d].made /\ batch'[d].owner = c.batches[d].owner
           /\ \/ batch'[d].job = c.batches[d].job
              \/ c.batches[d].job = "running" /\ batch'[d].job = "queued"
  BY <1>1, <1>2, AbandonedRows
<1>4. ArticlesOK' /\ BatchesOK'
  BY <1>1, <1>3, <1>0 DEF Taken, ArticlesOK, BatchesOK
<1>5. TicksOK' /\ \A p \in Owners : ~tick'[p].busy
  BY DEF Feeds!CrashInTick, Feeds!Halt, TicksOK, TickOK, Feeds!NoTick
<1>6. c.batch \in Feeds!Batches /\ batch'[c.batch].made
  BY <1>3, <1>0 DEF Taken
<1>7. \A a \in Articles :
        /\ article'[a].read = article[a].read
        /\ \/ article'[a].batch \in {article[a].batch, 0}
           \/ article'[a].batch = c.batch /\ batch[c.batch].job = "none"
  BY <1>1, <1>0 DEF Taken
<1>8. \A d \in Feeds!Batches :
        /\ batch[d].made => batch'[d].made /\ batch'[d].owner = batch[d].owner
        /\ batch'[d].out = batch[d].out /\ batch'[d].content = batch[d].content
        /\ \/ batch'[d].job = batch[d].job
           \/ batch[d].job = "running" /\ batch'[d].job = "queued"
  BY <1>3, <1>0 DEF Taken
<1> QED BY <1>4, <1>5, <1>6, <1>7, <1>8, ClaimingKeeps DEF FeedsOK

-----------------------------------------------------------------------------
LEMMA FeedsBegin == ASSUME Numbers PROVE Feeds!Init => RssInv
<1> SUFFICES ASSUME Feeds!Init PROVE RssInv
  OBVIOUS
<1>1. FeedsOK
  BY DEF Feeds!Init, FeedsOK, ArticlesOK, BatchesOK, TicksOK, ArticleOK, BatchOK, TickOK,
         Feeds!NoBatch, Feeds!NoTick, Job, Feeds!Live, Feeds!Delivery
<1>2. Links
  BY DEF Feeds!Init, Links, BatchesInOrder, ClaimsCarried, TicksCarry, Feeds!ReadWasDelivered,
         Feeds!NoBatch, Feeds!NoTick
<1> QED BY <1>1, <1>2 DEF RssInv

LEMMA FeedsRest == ASSUME RssInv, UNCHANGED Feeds!vars PROVE Settling
BY SameArticles, SameBatches, SameTicks DEF Feeds!vars, FeedsOK, Settling

LEMMA FeedsStep == ASSUME Numbers, RssInv, [Feeds!Next]_(Feeds!vars) PROVE RssInv'
BY TickKeeps, CrashInTickKeeps, SettlingKeeps, FeedsRest, CollectSettles, EnqueueSettles,
   EnqueueFailsSettles, WorkSettles, FinishSettles, DeliverSettles, SettleSettles,
   FeedsCrashSettles, StartSettles DEF Feeds!Next

-----------------------------------------------------------------------------
(* An article is delivered once *)

(* The batches whose content readers have got or may still get *)
InProgress(d) ==
  batch[d].job \notin {"none", "dead_letter"} /\ batch[d].out \in {"none", "pending", "sent"}

(* Only a completed job has a result, and a callback is owed for an end.   *)
ResultOK(b) ==
  /\ b.out # "none" => b.job = "completed"
  /\ b.owed => b.job = "dead_letter" \/ b.out \in {"sent", "suppressed", "failed", "ambiguous"}

ResultsInOrder == \A d \in Feeds!Batches : ResultOK(batch[d])

(* The articles that wait for an owner wait in one batch. *)
OneOpen ==
  \A a, b \in Articles :
    /\ ~article[a].read /\ article[a].batch # 0
    /\ ~article[b].read /\ article[b].batch # 0
    /\ batch[article[a].batch].owner = batch[article[b].batch].owner
    => article[a].batch = article[b].batch

(* What a batch in progress carries it holds, unless it was taken from it. *)
Carriers ==
  \A d \in Feeds!Batches : InProgress(d) =>
    \A a \in batch[d].content :
      a \in Articles /\ (article[a].read \/ article[a].batch = d \/ <<a, d>> \in disowned)

OneCarrier ==
  \A c, d \in Feeds!Batches : InProgress(c) /\ InProgress(d) /\ c # d =>
    \A a \in batch[c].content \cap batch[d].content : <<a, c>> \in disowned \/ <<a, d>> \in disowned

(* So does a batch that a handler is about to enqueue for the first time.  *)
TicksHold ==
  \A o \in Owners : tick[o].busy /\ batch[tick[o].batch].job = "none" =>
    tick[o].content \subseteq Feeds!Claimed(tick[o].batch)

DownIsQuiet == host = "down" => \A o \in Owners : ~tick[o].busy

OnceInv == ResultsInOrder /\ OneOpen /\ Carriers /\ OneCarrier /\ TicksHold /\ DownIsQuiet

LEMMA CarriedOnce == ASSUME OnceInv PROVE Feeds!DeliveredOnce
<1> SUFFICES ASSUME NEW c \in Feeds!Batches, NEW d \in Feeds!Batches,
                    NEW a \in batch[c].content \cap batch[d].content,
                    batch[c].out = "sent", batch[d].out = "sent",
                    <<a, c>> \notin disowned, <<a, d>> \notin disowned
             PROVE  c = d
  BY DEF Feeds!DeliveredOnce
<1>1. InProgress(c) /\ InProgress(d)
  BY DEF OnceInv, ResultsInOrder, ResultOK, InProgress
<1> QED BY <1>1 DEF OnceInv, OneCarrier

(* A step that claims nothing: a batch comes into progress with articles   *)
(* it holds, and loses articles only when they are read, it has ended, or  *)
(* they are taken from it.                                                 *)
Onward ==
  /\ ResultsInOrder' /\ DownIsQuiet' /\ disowned \subseteq disowned'
  /\ \A d \in Feeds!Batches : InProgress(d)' =>
       \/ InProgress(d) /\ batch'[d].content = batch[d].content
       \/ batch[d].job = "none" /\ batch'[d].content \subseteq Feeds!Claimed(d)
  /\ \A d \in Feeds!Batches : InProgress(d)' =>
       \A a \in Feeds!Claimed(d) :
         article'[a].read \/ article'[a].batch = d \/ <<a, d>> \in disowned'
  /\ \A o \in Owners, d \in Feeds!Batches :
       tick'[o].busy /\ tick'[o].batch = d /\ batch[d].job = "none" =>
         Feeds!Claimed(d) \subseteq Feeds!Claimed(d)'

LEMMA OnwardKeeps ==
  ASSUME Numbers, RssInv, OnceInv, Settling, Onward
  PROVE  OnceInv'
<1>1. OneOpen'
  <2> SUFFICES ASSUME NEW a \in Articles, NEW b \in Articles,
                      ~article'[a].read, article'[a].batch # 0,
                      ~article'[b].read, article'[b].batch # 0,
                      batch'[article'[a].batch].owner = batch'[article'[b].batch].owner
               PROVE  article'[a].batch = article'[b].batch
    BY DEF OneOpen
  <2>1. /\ ~article[a].read /\ article'[a].batch = article[a].batch
        /\ ~article[b].read /\ article'[b].batch = article[b].batch
    BY DEF Settling, ArticlesSettle
  <2>2. article[a].batch \in Feeds!Batches /\ article[b].batch \in Feeds!Batches
    BY <2>1 DEF RssInv, FeedsOK, ArticlesOK, ArticleOK
  <2>3. batch[article[a].batch].owner = batch[article[b].batch].owner
    BY <2>1, <2>2 DEF Settling, BatchesProceed
  <2> QED BY <2>1, <2>3 DEF OnceInv, OneOpen
<1>2. ASSUME NEW d \in Feeds!Batches, InProgress(d)', NEW a \in batch'[d].content
      PROVE  \/ a \in Feeds!Claimed(d)
             \/ InProgress(d) /\ a \in batch[d].content /\ a \in Articles
                /\ (article[a].read \/ <<a, d>> \in disowned)
  BY <1>2 DEF Onward, OnceInv, Carriers, Feeds!Claimed
<1>3. Carriers'
  <2> SUFFICES ASSUME NEW d \in Feeds!Batches, InProgress(d)', NEW a \in batch'[d].content
               PROVE  /\ a \in Articles
                      /\ article'[a].read \/ article'[a].batch = d \/ <<a, d>> \in disowned'
    BY DEF Carriers
  <2>1. CASE a \in Feeds!Claimed(d)
    BY <2>1 DEF Onward, Feeds!Claimed
  <2>2. CASE a \in Articles /\ (article[a].read \/ <<a, d>> \in disowned)
    BY <2>2 DEF Onward, Settling, ArticlesSettle
  <2> QED BY <1>2, <2>1, <2>2
<1>4. OneCarrier'
  <2> SUFFICES ASSUME NEW c \in Feeds!Batches, NEW d \in Feeds!Batches, c # d,
                      InProgress(c)', InProgress(d)',
                      NEW a, a \in batch'[c].content, a \in batch'[d].content,
                      <<a, c>> \notin disowned', <<a, d>> \notin disowned'
               PROVE  FALSE
    BY DEF OneCarrier
  <2>1. <<a, c>> \notin disowned /\ <<a, d>> \notin disowned
    BY DEF Onward
  <2>2. \/ InProgress(c) /\ a \in batch[c].content
        \/ a \in Feeds!Claimed(c)
    BY DEF Onward
  <2>3. \/ InProgress(d) /\ a \in batch[d].content
        \/ a \in Feeds!Claimed(d)
    BY DEF Onward
  <2>4. ~(a \in Feeds!Claimed(c) /\ a \in Feeds!Claimed(d))
    BY DEF Feeds!Claimed
  <2>5. ~(InProgress(c) /\ a \in batch[c].content /\ a \in Feeds!Claimed(d))
    BY <2>1 DEF OnceInv, Carriers, Feeds!Claimed
  <2>6. ~(InProgress(d) /\ a \in batch[d].content /\ a \in Feeds!Claimed(c))
    BY <2>1 DEF OnceInv, Carriers, Feeds!Claimed
  <2>7. ~(/\ InProgress(c) /\ a \in batch[c].content
          /\ InProgress(d) /\ a \in batch[d].content)
    BY <2>1 DEF OnceInv, OneCarrier
  <2> QED BY <2>2, <2>3, <2>4, <2>5, <2>6, <2>7
<1>5. TicksHold'
  <2> SUFFICES ASSUME NEW o \in Owners, tick'[o].busy, batch'[tick'[o].batch].job = "none",
                      NEW a \in tick'[o].content
               PROVE  a \in Articles /\ article'[a].batch = tick'[o].batch /\ ~article'[a].read
    BY DEF TicksHold, Feeds!Claimed
  <2>1. tick'[o] = tick[o]
    BY DEF Settling, TicksEnd
  <2>2. PICK d \in Feeds!Batches : d = tick[o].batch
    BY <2>1 DEF RssInv, Links, TicksCarry
  <2>3. batch[d].job = "none"
    BY <2>1, <2>2 DEF Settling, BatchesProceed
  <2>4. a \in Feeds!Claimed(d)
    BY <2>1, <2>2, <2>3 DEF OnceInv, TicksHold
  <2>5. Feeds!Claimed(d) \subseteq Feeds!Claimed(d)'
    BY <2>1, <2>2, <2>3 DEF Onward
  <2> QED BY <2>1, <2>2, <2>4, <2>5 DEF Feeds!Claimed
<1> QED BY <1>1, <1>3, <1>4, <1>5 DEF OnceInv, Onward

(* A step that leaves the articles and what handlers have taken alone *)
LEMMA BatchesOnward ==
  ASSUME RssInv, OnceInv, Settling, \A d : Feeds!Claimed(d)' = Feeds!Claimed(d),
         UNCHANGED disowned, ResultsInOrder', DownIsQuiet',
         \A d \in Feeds!Batches : InProgress(d)' =>
           \/ InProgress(d) /\ batch'[d].content = batch[d].content
           \/ batch[d].job = "none" /\ batch'[d].content \subseteq Feeds!Claimed(d)
  PROVE  Onward
<1>1. \A d \in Feeds!Batches : \A a \in Feeds!Claimed(d) : article'[a].batch = d
  BY DEF Feeds!Claimed
<1> QED BY <1>1 DEF Onward

LEMMA SameClaims == ASSUME UNCHANGED article PROVE \A d : Feeds!Claimed(d)' = Feeds!Claimed(d)
BY DEF Feeds!Claimed

LEMMA StillQuiet == ASSUME OnceInv, TicksEnd, UNCHANGED host PROVE DownIsQuiet'
BY DEF OnceInv, DownIsQuiet, TicksEnd

LEMMA RestOnward == ASSUME RssInv, OnceInv, UNCHANGED Feeds!vars PROVE Onward
<1>1. UNCHANGED <<article, batch, tick, disowned, host>>
  BY DEF Feeds!vars
<1>2. ResultsInOrder' /\ DownIsQuiet' /\ \A d : InProgress(d)' => InProgress(d)
  BY <1>1 DEF OnceInv, ResultsInOrder, DownIsQuiet, InProgress
<1> QED BY <1>1, <1>2, BatchesOnward, SameClaims, FeedsRest

LEMMA CollectOnward ==
  ASSUME Numbers, RssInv, OnceInv, NEW a \in Articles, NEW size, Feeds!Collect(a, size)
  PROVE  Onward
<1>1. UNCHANGED <<batch, tick, disowned, host>>
  BY DEF Feeds!Collect
<1>2. ResultsInOrder' /\ DownIsQuiet' /\ \A d : InProgress(d)' => InProgress(d)
  BY <1>1 DEF OnceInv, ResultsInOrder, DownIsQuiet, InProgress
<1> QED BY <1>1, <1>2, BatchesOnward, CollectSettles

LEMMA EnqueueOnward ==
  ASSUME Numbers, RssInv, OnceInv, NEW o \in Owners, Feeds!Enqueue(o)
  PROVE  Onward
<1>1. PICK d \in Feeds!Batches : d = tick[o].batch
  BY DEF Feeds!Enqueue, RssInv, Links, TicksCarry
<1>2. UNCHANGED <<article, disowned, host>>
  BY DEF Feeds!Enqueue
<1>3. ASSUME NEW e \in Feeds!Batches
      PROVE  /\ ResultOK(batch'[e])
             /\ InProgress(e)' => \/ InProgress(e) /\ batch'[e].content = batch[e].content
                                  \/ batch[e].job = "none"
                                     /\ batch'[e].content \subseteq Feeds!Claimed(e)
  <2>1. ResultOK(batch[e]) /\ DOMAIN batch = Feeds!Batches /\ BatchOK(batch[e])
    BY DEF OnceInv, ResultsInOrder, RssInv, FeedsOK, BatchesOK
  <2>2. CASE e = d /\ batch[d].job = "none"
    <3>1. batch'[e] = [[batch[e] EXCEPT !.job = "queued"] EXCEPT !.content = tick[o].content]
      BY <1>1, <2>1, <2>2 DEF Feeds!Enqueue
    <3>2. batch'[e].content = tick[o].content /\ batch'[e].out = batch[e].out
          /\ batch'[e].owed = batch[e].owed
      BY <2>1, <3>1 DEF BatchOK
    <3>3. batch[e].out = "none"
      BY <2>2 DEF RssInv, Links, BatchesInOrder, Unfinished
    <3>4. tick[o].content \subseteq Feeds!Claimed(d)
      BY <1>1, <2>2 DEF Feeds!Enqueue, OnceInv, TicksHold
    <3> QED BY <2>1, <2>2, <3>2, <3>3, <3>4 DEF ResultOK
  <2>3. CASE ~(e = d /\ batch[d].job = "none")
    <3>1. batch'[e] = batch[e]
      BY <1>1, <2>1, <2>3 DEF Feeds!Enqueue
    <3> QED BY <2>1, <3>1 DEF InProgress
  <2> QED BY <2>2, <2>3
<1>4. Settling
  BY EnqueueSettles
<1>5. ResultsInOrder' /\ DownIsQuiet'
  BY <1>2, <1>3, <1>4, StillQuiet DEF ResultsInOrder, Settling
<1> QED BY <1>2, <1>3, <1>4, <1>5, BatchesOnward, SameClaims

LEMMA EnqueueFailsOnward ==
  ASSUME Numbers, RssInv, OnceInv, NEW o \in Owners, Feeds!EnqueueFails(o)
  PROVE  Onward
<1>1. PICK d \in Feeds!Batches : d = tick[o].batch
  BY DEF Feeds!EnqueueFails, RssInv, Links, TicksCarry
<1>2. /\ article' = Feeds!Released(Feeds!Claimed(d), d) /\ UNCHANGED <<batch, host>>
      /\ tick' = [tick EXCEPT ![o] = Feeds!NoTick]
      /\ disowned' = IF batch[d].job \in Feeds!Live \cup {"completed"}
                     THEN disowned \cup Feeds!Claimed(d) \X {d} ELSE disowned
  BY <1>1 DEF Feeds!EnqueueFails, Feeds!Disown
<1>3. Settling
  BY EnqueueFailsSettles
<1>4. ResultsInOrder' /\ DownIsQuiet' /\ \A e : InProgress(e)' => InProgress(e)
  BY <1>2, <1>3, StillQuiet DEF OnceInv, ResultsInOrder, InProgress, Settling
<1>5. ASSUME NEW a \in Articles, article[a].batch # d PROVE article'[a] = article[a]
  BY <1>2, <1>5 DEF Feeds!Released
<1>6. ASSUME NEW e \in Feeds!Batches, InProgress(e), NEW a \in Feeds!Claimed(e)
      PROVE  article'[a].batch = e \/ <<a, e>> \in disowned'
  <2>1. CASE e = d
    <3>1. batch[d].job \in Feeds!Live \cup {"completed"}
      BY <1>6, <2>1 DEF RssInv, FeedsOK, BatchesOK, BatchOK, Job, InProgress
    <3> QED BY <1>2, <2>1, <3>1
  <2>2. CASE e # d
    BY <1>5, <2>2 DEF Feeds!Claimed
  <2> QED BY <2>1, <2>2
<1>7. ASSUME NEW p \in Owners, NEW e \in Feeds!Batches, tick'[p].busy, tick'[p].batch = e
      PROVE  Feeds!Claimed(e) \subseteq Feeds!Claimed(e)'
  <2>1. p # o /\ tick'[p] = tick[p]
    BY <1>2, <1>7 DEF RssInv, FeedsOK, TicksOK, Feeds!NoTick
  <2>2. batch[e].owner = p /\ batch[d].owner = o
    BY <1>1, <1>7, <2>1 DEF Feeds!EnqueueFails, RssInv, Links, TicksCarry
  <2> QED BY <1>5, <2>1, <2>2 DEF Feeds!Claimed
<1>8. disowned \subseteq disowned'
  BY <1>2
<1> QED BY <1>2, <1>4, <1>6, <1>7, <1>8 DEF Onward

(* A batch in progress moves on. *)
LEMMA JobOnward ==
  ASSUME RssInv, OnceInv, Settling, UNCHANGED <<article, disowned, host>>,
         NEW d \in Feeds!Batches, \A e \in Feeds!Batches \ {d} : batch'[e] = batch[e],
         InProgress(d), ResultOK(batch'[d]), batch'[d].content = batch[d].content
  PROVE  Onward
<1>1. \A e \in Feeds!Batches :
        InProgress(e)' => InProgress(e) /\ batch'[e].content = batch[e].content
  BY DEF InProgress
<1>2. ResultsInOrder' /\ DownIsQuiet'
  BY StillQuiet DEF OnceInv, ResultsInOrder, Settling
<1> QED BY <1>1, <1>2, BatchesOnward, SameClaims

LEMMA Becomes ==
  ASSUME RssInv, NEW d \in Feeds!Batches, NEW job, NEW out, NEW owed,
         Feeds!JobBecomes(d, job, out, owed)
  PROVE  /\ batch'[d].job = job /\ batch'[d].out = out /\ batch'[d].owed = owed
         /\ batch'[d].content = batch[d].content
         /\ \A e \in Feeds!Batches \ {d} : batch'[e] = batch[e]
<1>1. DOMAIN batch = Feeds!Batches /\ BatchOK(batch[d])
  BY DEF RssInv, FeedsOK, BatchesOK
<1>2. batch'[d] = [[[batch[d] EXCEPT !.job = job] EXCEPT !.out = out] EXCEPT !.owed = owed]
  BY <1>1 DEF Feeds!JobBecomes
<1>3. \A e \in Feeds!Batches \ {d} : batch'[e] = batch[e]
  BY <1>1 DEF Feeds!JobBecomes
<1> QED BY <1>1, <1>2, <1>3 DEF BatchOK

LEMMA WorkOnward ==
  ASSUME Numbers, RssInv, OnceInv, NEW d \in Feeds!Batches, Feeds!Work(d)
  PROVE  Onward
<1>1. DOMAIN batch = Feeds!Batches /\ BatchOK(batch[d]) /\ ResultOK(batch[d])
  BY DEF RssInv, FeedsOK, BatchesOK, OnceInv, ResultsInOrder
<1>2. batch[d].job = "queued" /\ batch[d].out = "none"
  BY DEF Feeds!Work, RssInv, Links, BatchesInOrder, Unfinished, Feeds!Live
<1>3. UNCHANGED <<article, disowned, host>>
  BY DEF Feeds!Work
<1>4. \A e \in Feeds!Batches \ {d} : batch'[e] = batch[e]
  BY <1>1 DEF Feeds!Work
<1>5. \/ batch'[d] = [[batch[d] EXCEPT !.job = "running"] EXCEPT !.tries = batch[d].tries + 1]
      \/ batch'[d] = [batch[d] EXCEPT !.job = "dead_letter"]
  BY <1>1 DEF Feeds!Work
<1>6. /\ batch'[d].content = batch[d].content /\ batch'[d].out = "none"
      /\ batch'[d].owed = batch[d].owed
  BY <1>1, <1>2, <1>5 DEF BatchOK
<1>7. InProgress(d) /\ ResultOK(batch'[d])
  BY <1>1, <1>2, <1>6 DEF InProgress, ResultOK
<1> QED BY <1>3, <1>4, <1>6, <1>7, WorkSettles, JobOnward

LEMMA FinishOnward ==
  ASSUME Numbers, RssInv, OnceInv, NEW d \in Feeds!Batches, Feeds!Finish(d)
  PROVE  Onward
<1>1. batch[d].job = "running" /\ batch[d].out = "none" /\ UNCHANGED <<article, disowned, host>>
  BY DEF Feeds!Finish, RssInv, Links, BatchesInOrder, Unfinished, Feeds!Live
<1>2. PICK job \in {"completed", "dead_letter"}, out \in {"pending", "suppressed", "none"},
           owed \in BOOLEAN :
        /\ Feeds!JobBecomes(d, job, out, owed)
        /\ out = "none" <=> job = "dead_letter"
        /\ owed => out # "pending"
  BY DEF Feeds!Finish
<1>3. /\ batch'[d].job = job /\ batch'[d].out = out /\ batch'[d].owed = owed
      /\ batch'[d].content = batch[d].content
      /\ \A e \in Feeds!Batches \ {d} : batch'[e] = batch[e]
  BY <1>2, Becomes
<1>4. InProgress(d) /\ ResultOK(batch'[d])
  BY <1>1, <1>2, <1>3 DEF InProgress, ResultOK
<1> QED BY <1>1, <1>3, <1>4, FinishSettles, JobOnward

LEMMA DeliverOnward ==
  ASSUME Numbers, RssInv, OnceInv, NEW d \in Feeds!Batches, Feeds!Deliver(d)
  PROVE  Onward
<1>1. /\ batch[d].out = "pending" /\ batch[d].job = "completed"
      /\ UNCHANGED <<article, disowned, host>>
  BY DEF Feeds!Deliver, OnceInv, ResultsInOrder, ResultOK
<1>2. PICK out \in {"sent", "failed", "ambiguous"}, owed \in BOOLEAN :
        Feeds!JobBecomes(d, "completed", out, owed)
  BY DEF Feeds!Deliver
<1>3. /\ batch'[d].job = "completed" /\ batch'[d].out = out /\ batch'[d].owed = owed
      /\ batch'[d].content = batch[d].content
      /\ \A e \in Feeds!Batches \ {d} : batch'[e] = batch[e]
  BY <1>2, Becomes
<1>4. InProgress(d) /\ ResultOK(batch'[d])
  BY <1>1, <1>2, <1>3 DEF InProgress, ResultOK
<1> QED BY <1>1, <1>3, <1>4, DeliverSettles, JobOnward

(* Readers got the content, or the batch has ended without: then its       *)
(* articles are claimed again.                                             *)
LEMMA SettleOnward ==
  ASSUME Numbers, RssInv, OnceInv, NEW d \in Feeds!Batches, Feeds!Settle(d)
  PROVE  Onward
<1>1. /\ batch' = [batch EXCEPT ![d].owed = FALSE] /\ batch[d].owed
      /\ UNCHANGED <<tick, disowned, host>>
  BY DEF Feeds!Settle
<1>2. ASSUME NEW e \in Feeds!Batches
      PROVE  /\ ResultOK(batch'[e]) /\ batch'[e].content = batch[e].content
             /\ InProgress(e)' => InProgress(e)
  <2>1. ResultOK(batch[e]) /\ DOMAIN batch = Feeds!Batches /\ BatchOK(batch[e])
    BY DEF OnceInv, ResultsInOrder, RssInv, FeedsOK, BatchesOK
  <2>2. CASE e = d
    <3>1. batch'[e] = [batch[e] EXCEPT !.owed = FALSE]
      BY <1>1, <2>1, <2>2
    <3>2. /\ batch'[e].job = batch[e].job /\ batch'[e].out = batch[e].out
          /\ batch'[e].content = batch[e].content /\ ~batch'[e].owed
      BY <2>1, <3>1 DEF BatchOK
    <3> QED BY <2>1, <3>2 DEF ResultOK, InProgress
  <2>3. CASE e # d
    <3>1. batch'[e] = batch[e]
      BY <1>1, <2>1, <2>3
    <3> QED BY <2>1, <3>1 DEF InProgress
  <2> QED BY <2>2, <2>3
<1>3. batch[d].job # "none" /\ (InProgress(d) => batch[d].out = "sent")
  BY <1>1 DEF OnceInv, ResultsInOrder, ResultOK, InProgress
<1>4. \/ Feeds!Reached(d) /\ article' = Feeds!MarkedRead(Feeds!Claimed(d))
      \/ batch[d].out # "sent" /\ article' = Feeds!Released(Feeds!Claimed(d), d)
      \/ UNCHANGED article
  BY DEF Feeds!Settle, Feeds!Reached
<1>5. ASSUME NEW a \in Articles, a \notin Feeds!Claimed(d) PROVE article'[a] = article[a]
  <2>1. CASE Feeds!Reached(d) /\ article' = Feeds!MarkedRead(Feeds!Claimed(d))
    BY <1>5, <2>1 DEF Feeds!MarkedRead
  <2>2. CASE article' = Feeds!Released(Feeds!Claimed(d), d)
    BY <1>5, <2>2 DEF Feeds!Released
  <2> QED BY <1>4, <2>1, <2>2
<1>6. ASSUME NEW a \in Feeds!Claimed(d), InProgress(d)
      PROVE  article'[a].read \/ article'[a].batch = d
  <2>1. CASE article' = Feeds!MarkedRead(Feeds!Claimed(d))
    <3>1. article'[a] = [[article[a] EXCEPT !.read = TRUE] EXCEPT !.batch = 0]
      BY <1>6, <2>1 DEF Feeds!MarkedRead, Feeds!Claimed
    <3>2. ArticleOK(article[a])
      BY <1>6 DEF RssInv, FeedsOK, ArticlesOK, Feeds!Claimed
    <3> QED BY <3>1, <3>2 DEF ArticleOK
  <2>2. CASE UNCHANGED article
    BY <1>6, <2>2 DEF Feeds!Claimed
  <2> QED BY <1>3, <1>4, <1>6, <2>1, <2>2
<1>7. ASSUME NEW e \in Feeds!Batches, e # d, NEW a \in Feeds!Claimed(e)
      PROVE  a \in Articles /\ article'[a].batch = e /\ ~article'[a].read
  <2>1. a \in Articles /\ a \notin Feeds!Claimed(d)
    BY <1>7 DEF Feeds!Claimed
  <2> QED BY <1>5, <1>7, <2>1 DEF Feeds!Claimed
<1>8. \A e \in Feeds!Batches : batch[e].job = "none" => Feeds!Claimed(e) \subseteq Feeds!Claimed(e)'
  BY <1>3, <1>7 DEF Feeds!Claimed
<1>9. ResultsInOrder'
  BY <1>2 DEF ResultsInOrder
<1>10. DownIsQuiet'
  BY <1>1, StillQuiet, SettleSettles DEF Settling
<1>11. ASSUME NEW e \in Feeds!Batches, InProgress(e), NEW a \in Feeds!Claimed(e)
       PROVE  article'[a].read \/ article'[a].batch = e
  BY <1>6, <1>7, <1>11
<1> QED BY <1>1, <1>2, <1>8, <1>9, <1>10, <1>11 DEF Onward

LEMMA StartOnward ==
  ASSUME Numbers, RssInv, OnceInv, Feeds!Start
  PROVE  Onward
<1>1. host = "down" /\ host' = "up" /\ UNCHANGED <<batch, tick, disowned>>
  BY DEF Feeds!Start
<1>2. ASSUME NEW d \in Feeds!Batches, InProgress(d), NEW a \in Feeds!Claimed(d)
      PROVE  article'[a].read \/ article'[a].batch = d
  <2>1. a \in Articles /\ article[a].batch = d /\ d # 0 /\ ~article[a].read /\ ArticleOK(article[a])
    BY NumberedBatches DEF Feeds!Claimed, RssInv, FeedsOK, ArticlesOK
  <2>2. ~Feeds!Orphaned(d)
    BY <1>2 DEF Feeds!Orphaned, InProgress
  <2>3. CASE Feeds!Reached(d)
    <3>1. article'[a] = [[article[a] EXCEPT !.read = TRUE] EXCEPT !.batch = 0]
      BY <2>1, <2>3 DEF Feeds!Start, Feeds!Reconcile
    <3> QED BY <2>1, <3>1 DEF ArticleOK
  <2>4. CASE ~Feeds!Reached(d)
    BY <2>1, <2>2, <2>4 DEF Feeds!Start, Feeds!Reconcile
  <2> QED BY <2>3, <2>4
<1>3. ResultsInOrder' /\ \A e : InProgress(e)' => InProgress(e)
  BY <1>1 DEF OnceInv, ResultsInOrder, InProgress
<1>4. DownIsQuiet' /\ \A o \in Owners : ~tick'[o].busy
  BY <1>1 DEF OnceInv, DownIsQuiet
<1> QED BY <1>1, <1>2, <1>3, <1>4 DEF Onward

LEMMA FeedsCrashOnward ==
  ASSUME Numbers, RssInv, OnceInv, Feeds!Crash
  PROVE  Onward
<1>1. /\ batch' = Feeds!Abandoned(batch) /\ tick' = [o \in Owners |-> Feeds!NoTick]
      /\ UNCHANGED <<article, disowned>>
  BY DEF Feeds!Crash, Feeds!Halt
<1>2. /\ DOMAIN batch = Feeds!Batches
      /\ \A d \in Feeds!Batches : BatchOK(batch[d]) /\ ResultOK(batch[d])
  BY DEF RssInv, FeedsOK, BatchesOK, OnceInv, ResultsInOrder
<1>3. \A d \in Feeds!Batches :
        /\ ~batch'[d].owed /\ batch'[d].out = batch[d].out /\ batch'[d].content = batch[d].content
        /\ \/ batch'[d].job = batch[d].job
           \/ batch[d].job = "running" /\ batch'[d].job = "queued"
  BY <1>1, <1>2, AbandonedRows
<1>4. ResultsInOrder' /\ \A d \in Feeds!Batches : InProgress(d)' => InProgress(d)
  BY <1>2, <1>3 DEF ResultsInOrder, ResultOK, InProgress
<1>5. DownIsQuiet'
  BY <1>1 DEF DownIsQuiet, Feeds!NoTick
<1> QED BY <1>1, <1>3, <1>4, <1>5, BatchesOnward, SameClaims, FeedsCrashSettles

(* What a claim takes waits for its owner, and nothing else does. *)
TakenOnce(o, c) ==
  /\ \A a \in c.articles : a \in Articles /\ ~article[a].read /\ c.table[a].batch = c.batch
  /\ \A a \in Articles : article[a].batch # 0 => c.table[a].batch = article[a].batch
  /\ \A a, b \in Articles :
       /\ ~article[a].read /\ c.table[a].batch # 0
       /\ ~article[b].read /\ c.table[b].batch # 0
       /\ c.batches[c.table[a].batch].owner = c.batches[c.table[b].batch].owner
       => c.table[a].batch = c.table[b].batch
  /\ \A d \in Feeds!Batches : c.batches[d].owed = batch[d].owed

LEMMA ClaimsOnce ==
  ASSUME Numbers, RssInv, OnceInv, NEW o \in Owners, NEW c \in Feeds!Claim(o)
  PROVE  TakenOnce(o, c)
<1>1. CASE Feeds!Pending(o) # {}
  <2> DEFINE m == Feeds!Min(Feeds!Pending(o))
  <2>1. c = [batch |-> article[m].batch, articles |-> Feeds!Pending(o),
             table |-> article, batches |-> batch]
    BY <1>1 DEF Feeds!Claim
  <2>2. m \in Feeds!Pending(o)
    BY <1>1, FirstPending
  <2> HIDE DEF m
  <2>3. ASSUME NEW a \in Feeds!Pending(o)
        PROVE  a \in Articles /\ ~article[a].read /\ article[a].batch = article[m].batch
    BY <2>2, <2>3 DEF OnceInv, OneOpen, Feeds!Pending
  <2> QED BY <2>1, <2>3 DEF TakenOnce, OnceInv, OneOpen
<1>2. CASE Feeds!Pending(o) = {}
  <2> DEFINE A == Feeds!Oldest(Feeds!Unclaimed(o), MaxItems)
  <2>1. PICK e \in Feeds!NextBatch :
          c = [batch |-> e, articles |-> A,
               table |-> [a \in Articles |-> IF a \in A THEN [article[a] EXCEPT !.batch = e]
                                                        ELSE article[a]],
               batches |-> [batch EXCEPT ![e].made = TRUE, ![e].owner = o]]
    BY <1>2 DEF Feeds!Claim
  <2>2. \A a \in A : a \in Articles /\ ~article[a].read /\ article[a].batch = 0
    BY DEF Feeds!Oldest, Feeds!Unclaimed, Numbers
  <2> HIDE DEF A
  <2>3. e \in Feeds!Batches /\ ~batch[e].made /\ DOMAIN batch = Feeds!Batches
    BY DEF Feeds!NextBatch, RssInv, FeedsOK, BatchesOK
  <2>4. ASSUME NEW a \in Articles
        PROVE  /\ a \in A => c.table[a].batch = e
               /\ a \notin A => c.table[a] = article[a]
    <3>1. ArticleOK(article[a])
      BY DEF RssInv, FeedsOK, ArticlesOK
    <3>2. c.table[a] = IF a \in A THEN [article[a] EXCEPT !.batch = e] ELSE article[a]
      BY <2>1
    <3> QED BY <3>1, <3>2 DEF ArticleOK
  <2>5. ASSUME NEW d \in Feeds!Batches
        PROVE  /\ c.batches[d].owner = IF d = e THEN o ELSE batch[d].owner
               /\ c.batches[d].owed = batch[d].owed
    <3>1. BatchOK(batch[d])
      BY DEF RssInv, FeedsOK, BatchesOK
    <3>2. c.batches = [batch EXCEPT ![e].made = TRUE, ![e].owner = o]
      BY <2>1
    <3>3. CASE d = e
      <4>1. c.batches[d] = [[batch[d] EXCEPT !.made = TRUE] EXCEPT !.owner = o]
        BY <2>3, <3>2, <3>3
      <4> QED BY <3>1, <3>3, <4>1 DEF BatchOK
    <3>4. CASE d # e
      <4>1. c.batches[d] = batch[d]
        BY <2>3, <3>2, <3>4
      <4> QED BY <3>4, <4>1
    <3> QED BY <3>3, <3>4
  <2>6. c.articles = A /\ c.batch = e
    BY <2>1
  <2>7. ASSUME NEW a \in Articles, a \notin A, ~article[a].read, article[a].batch # 0
        PROVE  /\ article[a].batch \in Feeds!Batches /\ article[a].batch # e
               /\ batch[article[a].batch].owner # o
    <3>1. article[a].batch \in Feeds!Batches /\ article[a].batch # e
      BY <2>3, <2>7 DEF RssInv, FeedsOK, ArticlesOK, ArticleOK, Links, BatchesInOrder
    <3> QED BY <1>2, <2>7, <3>1 DEF Feeds!Pending
  <2>8. ASSUME NEW a \in Articles, ~article[a].read, c.table[a].batch # 0,
               NEW b \in Articles, ~article[b].read, c.table[b].batch # 0,
               c.batches[c.table[a].batch].owner = c.batches[c.table[b].batch].owner
        PROVE  c.table[a].batch = c.table[b].batch
    <3>1. CASE a \in A /\ b \in A
      BY <2>4, <3>1
    <3>2. CASE a \in A /\ b \notin A
      BY <2>3, <2>4, <2>5, <2>7, <2>8, <3>2
    <3>3. CASE a \notin A /\ b \in A
      BY <2>3, <2>4, <2>5, <2>7, <2>8, <3>3
    <3>4. CASE a \notin A /\ b \notin A
      <4>1. c.table[a] = article[a] /\ c.table[b] = article[b]
        BY <2>4, <3>4
      <4>2. /\ c.batches[article[a].batch].owner = batch[article[a].batch].owner
            /\ c.batches[article[b].batch].owner = batch[article[b].batch].owner
        BY <2>5, <2>7, <2>8, <3>4, <4>1
      <4> QED BY <2>8, <4>1, <4>2 DEF OnceInv, OneOpen
    <3> QED BY <3>1, <3>2, <3>3, <3>4
  <2> QED BY <2>2, <2>4, <2>5, <2>6, <2>8 DEF TakenOnce
<1> QED BY <1>1, <1>2

(* What a handler and a crash within it have in common *)
LEMMA ClaimingOnce ==
  ASSUME Numbers, RssInv, RssInv', OnceInv, NEW o \in Owners, NEW c, Taken(o, c), TakenOnce(o, c),
         ResultsInOrder', DownIsQuiet', disowned \subseteq disowned',
         \A a \in Articles :
           /\ article'[a].read = article[a].read
           /\ \/ article'[a].batch = c.table[a].batch
              \/ /\ article'[a].batch = 0 /\ a \in c.articles
                 /\ InProgress(c.batch) => <<a, c.batch>> \in disowned',
         \A d \in Feeds!Batches :
           /\ batch'[d].owner = c.batches[d].owner /\ batch'[d].content = batch[d].content
           /\ InProgress(d)' => InProgress(d)
           /\ batch'[d].job = "none" => batch[d].job = "none",
         \A p \in Owners : tick'[p].busy =>
           \/ tick'[p] = tick[p] /\ tick[p].batch # c.batch
           \/ /\ tick'[p].batch = c.batch
              /\ \A a \in tick'[p].content : a \in c.articles /\ article'[a].batch = c.batch
  PROVE  OnceInv'
<1>1. OneOpen'
  <2> SUFFICES ASSUME NEW a \in Articles, NEW b \in Articles,
                      ~article'[a].read, article'[a].batch # 0,
                      ~article'[b].read, article'[b].batch # 0,
                      batch'[article'[a].batch].owner = batch'[article'[b].batch].owner
               PROVE  article'[a].batch = article'[b].batch
    BY DEF OneOpen
  <2>1. /\ ~article[a].read /\ article'[a].batch = c.table[a].batch
        /\ ~article[b].read /\ article'[b].batch = c.table[b].batch
    OBVIOUS
  <2>2. article'[a].batch \in Feeds!Batches /\ article'[b].batch \in Feeds!Batches
    BY DEF RssInv, FeedsOK, ArticlesOK, ArticleOK
  <2> QED BY <2>1, <2>2 DEF TakenOnce
<1>2. Carriers'
  <2> SUFFICES ASSUME NEW d \in Feeds!Batches, InProgress(d)', NEW a \in batch'[d].content
               PROVE  /\ a \in Articles
                      /\ article'[a].read \/ article'[a].batch = d \/ <<a, d>> \in disowned'
    BY DEF Carriers
  <2>1. InProgress(d) /\ a \in batch[d].content
    OBVIOUS
  <2>2. a \in Articles /\ (article[a].read \/ article[a].batch = d \/ <<a, d>> \in disowned)
    BY <2>1 DEF OnceInv, Carriers
  <2>3. CASE article[a].batch = d
    <3>1. c.table[a].batch = d
      BY <2>2, <2>3, NumberedBatches DEF TakenOnce
    <3>2. CASE article'[a].batch = c.table[a].batch
      BY <2>2, <3>1, <3>2
    <3>3. CASE article'[a].batch # c.table[a].batch
      <4>1. c.batch = d
        BY <2>2, <3>1, <3>3 DEF TakenOnce
      <4> QED BY <2>1, <2>2, <3>3, <4>1
    <3> QED BY <3>2, <3>3
  <2> QED BY <2>2, <2>3
<1>3. OneCarrier'
  BY DEF OnceInv, OneCarrier
<1>4. TicksHold'
  <2> SUFFICES ASSUME NEW p \in Owners, tick'[p].busy, batch'[tick'[p].batch].job = "none",
                      NEW a \in tick'[p].content
               PROVE  a \in Articles /\ article'[a].batch = tick'[p].batch /\ ~article'[a].read
    BY DEF TicksHold, Feeds!Claimed
  <2>1. CASE tick'[p] = tick[p] /\ tick[p].batch # c.batch
    <3>1. PICK d \in Feeds!Batches : d = tick[p].batch
      BY <2>1 DEF RssInv, Links, TicksCarry
    <3>2. batch[d].job = "none"
      BY <2>1, <3>1
    <3>3. a \in Articles /\ article[a].batch = d /\ ~article[a].read
      BY <2>1, <3>1, <3>2 DEF OnceInv, TicksHold, Feeds!Claimed
    <3>4. c.table[a].batch = d
      BY <3>1, <3>3, NumberedBatches DEF TakenOnce
    <3>5. a \notin c.articles
      BY <2>1, <3>1, <3>4 DEF TakenOnce
    <3> QED BY <2>1, <3>1, <3>3, <3>4, <3>5
  <2>2. CASE /\ tick'[p].batch = c.batch
             /\ a \in c.articles /\ article'[a].batch = c.batch
    BY <2>2 DEF TakenOnce
  <2> QED BY <2>1, <2>2
<1> QED BY <1>1, <1>2, <1>3, <1>4 DEF OnceInv

LEMMA TickOnce ==
  ASSUME Numbers, RssInv, RssInv', OnceInv, NEW o \in Owners, Feeds!Tick(o)
  PROVE  OnceInv'
<1>1. PICK c \in Feeds!Claim(o) :
        LET F == Feeds!Fitting(c.articles) IN
        /\ article' = Feeds!WithoutPassedOver(c.table, c.articles \ F)
        /\ batch' = c.batches
        /\ tick' = IF F = {} THEN tick
                   ELSE [tick EXCEPT ![o] = [busy |-> TRUE, batch |-> c.batch, content |-> F]]
        /\ Feeds!Disown(c.batch, c.articles \ F)
  BY DEF Feeds!Tick
<1> DEFINE F == Feeds!Fitting(c.articles)
<1>2. /\ article' = Feeds!WithoutPassedOver(c.table, c.articles \ F)
      /\ batch' = c.batches /\ Feeds!Disown(c.batch, c.articles \ F)
      /\ \/ tick' = tick
         \/ tick' = [tick EXCEPT ![o] = [busy |-> TRUE, batch |-> c.batch, content |-> F]]
  BY <1>1
<1>3. Taken(o, c) /\ TakenOnce(o, c)
  BY Claims, ClaimsOnce
<1>4. F \in SUBSET c.articles
  <2>1. c.articles \in SUBSET Articles
    BY <1>3 DEF TakenOnce
  <2> QED BY <2>1, Fits
<1> HIDE DEF F
<1>5. disowned' = IF batch[c.batch].job \in Feeds!Live \cup {"completed"}
                  THEN disowned \cup (c.articles \ F) \X {c.batch} ELSE disowned
  BY <1>2 DEF Feeds!Disown
<1>6. InProgress(c.batch) => batch[c.batch].job \in Feeds!Live \cup {"completed"}
  BY <1>3 DEF Taken, RssInv, FeedsOK, BatchesOK, BatchOK, Job, InProgress
<1>7. ASSUME NEW a \in Articles
      PROVE  /\ article'[a].read = article[a].read
             /\ a \notin c.articles \ F => article'[a] = c.table[a]
             /\ a \in c.articles \ F => article'[a].batch = 0
  <2>1. ArticleOK(c.table[a]) /\ c.table[a].read = article[a].read
    BY <1>3 DEF Taken
  <2>2. article'[a] = IF a \in c.articles \ F THEN [c.table[a] EXCEPT !.batch = 0] ELSE c.table[a]
    BY <1>2 DEF Feeds!WithoutPassedOver
  <2> QED BY <2>1, <2>2 DEF ArticleOK
<1>8. \A a \in Articles :
        /\ article'[a].read = article[a].read
        /\ \/ article'[a].batch = c.table[a].batch
           \/ /\ article'[a].batch = 0 /\ a \in c.articles
              /\ InProgress(c.batch) => <<a, c.batch>> \in disowned'
  BY <1>5, <1>6, <1>7
<1>9. \A d \in Feeds!Batches :
        /\ batch'[d].owner = c.batches[d].owner /\ batch'[d].content = batch[d].content
        /\ batch'[d].job = batch[d].job /\ batch'[d].out = batch[d].out
        /\ batch'[d].owed = batch[d].owed
  BY <1>2, <1>3 DEF Taken, TakenOnce
<1>10. ResultsInOrder' /\ \A d \in Feeds!Batches : InProgress(d)' => InProgress(d)
  BY <1>9 DEF OnceInv, ResultsInOrder, ResultOK, InProgress
<1>11. DOMAIN tick = Owners /\ ~tick[o].busy /\ host = "up" /\ UNCHANGED host
  BY DEF Feeds!Tick, RssInv, FeedsOK, TicksOK
<1>12. ASSUME NEW p \in Owners, tick'[p].busy
       PROVE  \/ tick'[p] = tick[p] /\ tick[p].batch # c.batch
              \/ /\ tick'[p].batch = c.batch
                 /\ \A a \in tick'[p].content : a \in c.articles /\ article'[a].batch = c.batch
  <2>1. CASE p = o
    <3>1. tick'[p] = [busy |-> TRUE, batch |-> c.batch, content |-> F]
      BY <1>2, <1>11, <1>12, <2>1
    <3>2. \A a \in F : a \in Articles /\ article'[a].batch = c.batch
      BY <1>3, <1>4, <1>7 DEF TakenOnce
    <3> QED BY <1>4, <3>1, <3>2
  <2>2. CASE p # o
    <3>1. tick'[p] = tick[p]
      BY <1>2, <1>11, <2>2
    <3> QED BY <1>3, <1>12, <2>2, <3>1 DEF Taken
  <2> QED BY <2>1, <2>2
<1>13. DownIsQuiet' /\ disowned \subseteq disowned'
  BY <1>5, <1>11 DEF DownIsQuiet
<1> QED BY <1>3, <1>8, <1>9, <1>10, <1>12, <1>13, ClaimingOnce

LEMMA CrashInTickOnce ==
  ASSUME Numbers, RssInv, RssInv', OnceInv, NEW o \in Owners, Feeds!CrashInTick(o)
  PROVE  OnceInv'
<1>1. PICK c \in Feeds!Claim(o) : article' = c.table /\ batch' = Feeds!Abandoned(c.batches)
  BY DEF Feeds!CrashInTick
<1>2. Taken(o, c) /\ TakenOnce(o, c)
  BY Claims, ClaimsOnce
<1>3. DOMAIN c.batches = Feeds!Batches /\ \A d \in Feeds!Batches : BatchOK(c.batches[d])
  BY <1>2 DEF Taken
<1>4. \A d \in Feeds!Batches :
        /\ ~batch'[d].owed /\ batch'[d].out = batch[d].out /\ batch'[d].content = batch[d].content
        /\ batch'[d].owner = c.batches[d].owner
        /\ \/ batch'[d].job = batch[d].job
           \/ batch[d].job = "running" /\ batch'[d].job = "queued"
  BY <1>1, <1>2, <1>3, AbandonedRows DEF Taken
<1>5. ResultsInOrder'
  BY <1>4 DEF OnceInv, ResultsInOrder, ResultOK
<1>6. \A d \in Feeds!Batches : InProgress(d)' => InProgress(d)
  BY <1>4 DEF InProgress
<1>7. DownIsQuiet' /\ (\A p \in Owners : ~tick'[p].busy) /\ UNCHANGED disowned
  BY DEF Feeds!CrashInTick, Feeds!Halt, Feeds!NoTick, DownIsQuiet
<1>8. \A a \in Articles :
        article'[a].read = article[a].read /\ article'[a].batch = c.table[a].batch
  BY <1>1, <1>2 DEF Taken
<1> QED BY <1>2, <1>4, <1>5, <1>6, <1>7, <1>8, ClaimingOnce

LEMMA OnceBegins == ASSUME Feeds!Init PROVE OnceInv
BY DEF Feeds!Init, OnceInv, ResultsInOrder, ResultOK, OneOpen, Carriers, OneCarrier, TicksHold,
       DownIsQuiet, InProgress, Feeds!NoBatch, Feeds!NoTick

LEMMA OnceStep ==
  ASSUME Numbers, RssInv, RssInv', OnceInv, [Feeds!Next]_(Feeds!vars)
  PROVE  OnceInv'
BY TickOnce, CrashInTickOnce, OnwardKeeps, FeedsRest, RestOnward, CollectSettles, CollectOnward,
   EnqueueSettles, EnqueueOnward, EnqueueFailsSettles, EnqueueFailsOnward, WorkSettles, WorkOnward,
   FinishSettles, FinishOnward, DeliverSettles, DeliverOnward, SettleSettles, SettleOnward,
   FeedsCrashSettles, FeedsCrashOnward, StartSettles, StartOnward DEF Feeds!Next

(* An article is marked read only when a job that carried it has reached   *)
(* the readers, and readers get it once, whatever its handler passed over, *)
(* was refused, or left behind in a crash, and whenever its callback comes *)
(* (rss/store.ts, cron/jobs/rss-dispatch.ts, features/rss.ts).  What the   *)
(* handler takes from a batch in progress is the one exception.            *)
THEOREM ReadersGetArticlesOnce == Spec => []ReadWasDelivered
<1>1. Numbers
  BY StoresAssumption DEF Numbers
<1>2. RssInv /\ [Feeds!Next]_(Feeds!vars) => RssInv'
  BY <1>1, FeedsStep
<1>3. RssInv /\ RssInv' /\ OnceInv /\ [Feeds!Next]_(Feeds!vars) => OnceInv'
  BY <1>1, OnceStep
<1>4. Feeds!Init => RssInv /\ OnceInv
  BY <1>1, FeedsBegin, OnceBegins
<1>5. RssInv /\ OnceInv => ReadWasDelivered
  BY CarriedOnce DEF RssInv, Links, ReadWasDelivered
<1>6. Feeds!Spec => []ReadWasDelivered
  BY <1>2, <1>3, <1>4, <1>5, PTL DEF Feeds!Spec
<1> QED BY <1>6, FeedsPart

-----------------------------------------------------------------------------
(* Mail *)

Active == {"queued", "running"}
ChunkStates == {"none", "pending", "sending", "sent", "failed", "ambiguous"}
MailJob == [status : Active \cup {"completed", "dead_letter"}, suppressed : BOOLEAN,
            chunks : [1 .. Parcels -> ChunkStates]]

MailJobsOK == mjobs \in [Mails -> Seq(MailJob)]

(* A job has chunks when it is done, and only the last job of a message    *)
(* may be active.                                                          *)
JobsInOrder ==
  \A m \in Mails : \A i \in DOMAIN mjobs[m] :
    /\ mjobs[m][i].status # "completed" => \A c \in 1 .. Parcels : mjobs[m][i].chunks[c] = "none"
    /\ mjobs[m][i].status \in Active => i = Len(mjobs[m])

(* A response that was sent, or none that was wanted *)
Answers(j) == j.suppressed \/ \A c \in 1 .. Parcels : j.chunks[c] = "sent"

ReadAnswered ==
  \A m \in Mails : inbox[m] = "read" => \E i \in DOMAIN mjobs[m] : Answers(mjobs[m][i])

(* The chunk at hand is marked as being sent until its outcome is known.   *)
ChunkAtHand ==
  /\ {"at", "mail", "job", "chunk"} \subseteq DOMAIN worker
  /\ worker.at # "idle" =>
       /\ worker.mail \in Mails /\ worker.job \in DOMAIN mjobs[worker.mail]
       /\ worker.chunk \in 1 .. Parcels
       /\ worker.at # "notify" =>
            mjobs[worker.mail][worker.job].chunks[worker.chunk] = "sending"

(* A thread is stored, excused, or about to be stored. *)
ThreadsCounted ==
  /\ created \in [Mailing!Routes -> Nat] /\ excused \in [Mailing!Routes -> Nat]
  /\ mapping \in [Mailing!Routes -> Nat]
  /\ \A r \in Mailing!Routes :
       \/ created[r] <= excused[r]
       \/ /\ created[r] <= excused[r] + 1
          /\ mapping[r] # 0 \/ (worker.at = "persist" /\ Mailing!R = r)
  /\ worker.at = "create" => created[Mailing!R] <= excused[Mailing!R]
  /\ worker.at = "persist" => created[Mailing!R] # 0

MailInv == MailJobsOK /\ JobsInOrder /\ ReadAnswered /\ ChunkAtHand /\ ThreadsCounted

LEMMA MailTruthful ==
  MailInv => Mailing!AckOnlyDelivered /\ Mailing!OneThreadPerRoute
<1> SUFFICES ASSUME MailInv PROVE Mailing!AckOnlyDelivered /\ Mailing!OneThreadPerRoute
  OBVIOUS
<1>1. ASSUME NEW m \in Mails, NEW i \in DOMAIN mjobs[m], NEW k \in DOMAIN mjobs[m],
             {mjobs[m][i].status, mjobs[m][k].status} \subseteq {"queued", "running"}
      PROVE  i = k
  BY <1>1 DEF MailInv, JobsInOrder, Active
<1>2. Mailing!AckOnlyDelivered
  BY <1>1 DEF MailInv, ReadAnswered, Answers, Mailing!AckOnlyDelivered
<1>3. Mailing!OneThreadPerRoute
  BY DEF MailInv, ThreadsCounted, Mailing!OneThreadPerRoute
<1> QED BY <1>2, <1>3

(* Jobs go on: a message keeps its jobs, an answer stays one, and what is  *)
(* being sent stays so unless the worker says otherwise.                   *)
JobsProceed ==
  \A m \in Mails : \A i \in DOMAIN mjobs[m] :
    /\ i \in DOMAIN mjobs'[m]
    /\ Answers(mjobs[m][i]) => Answers(mjobs'[m][i])
    /\ \A c \in 1 .. Parcels :
         mjobs[m][i].chunks[c] = "sending" =>
           \/ mjobs'[m][i].chunks[c] = "sending"
           \/ worker' = Mailing!Idle \/ worker'.at = "notify"

LEMMA AnswersStay ==
  ASSUME MailInv, JobsProceed, UNCHANGED inbox
  PROVE  ReadAnswered'
BY DEF MailInv, ReadAnswered, JobsProceed

(* One job of one message changes. *)
Changed(m, i, j) ==
  /\ mjobs'[m][i] = j
  /\ \A n \in Mails : Len(mjobs'[n]) = Len(mjobs[n]) /\ DOMAIN mjobs'[n] = DOMAIN mjobs[n]
  /\ \A n \in Mails : \A k \in DOMAIN mjobs[n] :
       \/ n = m /\ k = i
       \/ mjobs'[n][k] = mjobs[n][k]

LEMMA OneJob ==
  ASSUME MailInv, NEW m \in Mails, NEW i \in DOMAIN mjobs[m], NEW j \in MailJob,
         mjobs' = [mjobs EXCEPT ![m][i] = j]
  PROVE  MailJobsOK' /\ Changed(m, i, j)
<1>1. mjobs \in [Mails -> Seq(MailJob)]
  BY DEF MailInv, MailJobsOK
<1>2. /\ mjobs' = [mjobs EXCEPT ![m] = [mjobs[m] EXCEPT ![i] = j]]
      /\ mjobs[m] \in Seq(MailJob) /\ i \in 1 .. Len(mjobs[m])
  BY <1>1
<1>3. /\ [mjobs[m] EXCEPT ![i] = j] \in Seq(MailJob)
      /\ Len([mjobs[m] EXCEPT ![i] = j]) = Len(mjobs[m])
      /\ DOMAIN [mjobs[m] EXCEPT ![i] = j] = DOMAIN mjobs[m]
  BY <1>2
<1>4. mjobs'[m] = [mjobs[m] EXCEPT ![i] = j] /\ \A n \in Mails \ {m} : mjobs'[n] = mjobs[n]
  BY <1>1, <1>2
<1>5. MailJobsOK'
  BY <1>1, <1>2, <1>3 DEF MailJobsOK
<1> QED BY <1>2, <1>3, <1>4, <1>5 DEF Changed

(* Such a change keeps the jobs in order when the status only moves on. *)
LEMMA OneJobInOrder ==
  ASSUME MailInv, NEW m \in Mails, NEW i \in DOMAIN mjobs[m], NEW j \in MailJob,
         mjobs' = [mjobs EXCEPT ![m][i] = j],
         j.status # "completed" => \A c \in 1 .. Parcels : j.chunks[c] = "none",
         j.status \in Active => mjobs[m][i].status \in Active
  PROVE  MailJobsOK' /\ JobsInOrder'
<1>1. MailJobsOK' /\ Changed(m, i, j)
  BY OneJob
<1>2. ASSUME NEW n \in Mails, NEW k \in DOMAIN mjobs'[n]
      PROVE  /\ mjobs'[n][k].status # "completed" =>
                  \A c \in 1 .. Parcels : mjobs'[n][k].chunks[c] = "none"
             /\ mjobs'[n][k].status \in Active => k = Len(mjobs'[n])
  <2>1. k \in DOMAIN mjobs[n] /\ Len(mjobs'[n]) = Len(mjobs[n])
    BY <1>1 DEF Changed
  <2>2. CASE n = m /\ k = i
    BY <1>1, <2>1, <2>2 DEF Changed, MailInv, JobsInOrder
  <2>3. CASE ~(n = m /\ k = i)
    BY <1>1, <2>1, <2>3 DEF Changed, MailInv, JobsInOrder
  <2> QED BY <2>2, <2>3
<1> QED BY <1>1, <1>2 DEF JobsInOrder

-----------------------------------------------------------------------------
(* Steps that leave Discord alone *)

LEMMA ThreadsAlone ==
  ASSUME MailInv, UNCHANGED <<mapping, created, excused>>,
         worker' = worker \/ (worker.at # "persist" /\ worker'.at \in {"idle", "resolve"})
  PROVE  ThreadsCounted'
<1>1. CASE worker' = worker
  BY <1>1 DEF MailInv, ThreadsCounted, Mailing!R
<1>2. CASE worker.at # "persist" /\ worker'.at \in {"idle", "resolve"}
  <2>1. \A r \in Mailing!Routes :
          created[r] <= excused[r] \/ (created[r] <= excused[r] + 1 /\ mapping[r] # 0)
    BY <1>2 DEF MailInv, ThreadsCounted
  <2> QED BY <1>2, <2>1 DEF MailInv, ThreadsCounted
<1> QED BY <1>1, <1>2

(* The worker keeps its chunk when the jobs go on beside it. *)
LEMMA ChunkKept ==
  ASSUME MailInv, JobsProceed, UNCHANGED worker
  PROVE  ChunkAtHand'
<1>1. CASE worker.at = "idle"
  BY <1>1 DEF ChunkAtHand, MailInv
<1>2. CASE worker.at # "idle"
  BY <1>2 DEF MailInv, ChunkAtHand, JobsProceed, Mailing!Idle
<1> QED BY <1>1, <1>2

(* A job of the ledger changes: it was active, so nothing of it was sent.  *)
LEMMA LedgerKeepsMail ==
  ASSUME MailInv, NEW m \in Mails, NEW i \in DOMAIN mjobs[m], NEW j \in MailJob,
         mjobs[m][i].status \in Active,
         mjobs' = [mjobs EXCEPT ![m][i] = j],
         j.status # "completed" => \A c \in 1 .. Parcels : j.chunks[c] = "none",
         Answers(mjobs[m][i]) => Answers(j),
         UNCHANGED <<worker, mapping, created, excused>>,
         \/ UNCHANGED inbox
         \/ Answers(j) /\ inbox' = [inbox EXCEPT ![m] = "read"]
  PROVE  MailInv'
<1>1. Changed(m, i, j)
  BY OneJob
<1>2. MailJobsOK' /\ JobsInOrder'
  BY OneJobInOrder
<1>3. \A c \in 1 .. Parcels : mjobs[m][i].chunks[c] = "none"
  BY DEF MailInv, JobsInOrder, Active
<1>4. JobsProceed
  BY <1>1, <1>3 DEF JobsProceed, Changed
<1>5. ReadAnswered'
  <2>1. CASE UNCHANGED inbox
    BY <1>4, <2>1, AnswersStay
  <2>2. CASE Answers(j) /\ inbox' = [inbox EXCEPT ![m] = "read"]
    <3> SUFFICES ASSUME NEW n \in Mails, inbox'[n] = "read"
                 PROVE  \E k \in DOMAIN mjobs'[n] : Answers(mjobs'[n][k])
      BY DEF ReadAnswered
    <3>1. CASE n = m
      BY <1>1, <2>2, <3>1 DEF Changed
    <3>2. CASE n # m
      <4>1. inbox[n] = "read"
        BY <2>2, <3>2
      <4> QED BY <1>4, <4>1 DEF MailInv, ReadAnswered, JobsProceed
    <3> QED BY <3>1, <3>2
  <2> QED BY <2>1, <2>2
<1>6. ChunkAtHand'
  BY <1>4, ChunkKept
<1>7. ThreadsCounted'
  BY ThreadsAlone
<1> QED BY <1>2, <1>5, <1>6, <1>7 DEF MailInv

LEMMA ArrivesKeeps ==
  ASSUME MailInv, NEW m \in Mails, Mailing!Arrives(m)
  PROVE  MailInv'
<1>1. /\ inbox' = [inbox EXCEPT ![m] = "unread"]
      /\ UNCHANGED <<mjobs, worker, mapping, created, excused>>
  BY DEF Mailing!Arrives, Mailing!discord
<1>2. MailJobsOK' /\ JobsInOrder' /\ JobsProceed
  BY <1>1 DEF MailInv, MailJobsOK, JobsInOrder, JobsProceed, Answers
<1>3. ReadAnswered'
  BY <1>1 DEF MailInv, ReadAnswered, Answers
<1>4. ChunkAtHand'
  BY <1>1, <1>2, ChunkKept
<1>5. ThreadsCounted'
  BY <1>1, ThreadsAlone
<1> QED BY <1>2, <1>3, <1>4, <1>5 DEF MailInv

LEMMA MailRests ==
  ASSUME MailInv, UNCHANGED <<inbox, mjobs, worker, mapping, created, excused>>
  PROVE  MailInv'
<1>1. MailJobsOK' /\ JobsInOrder' /\ JobsProceed
  BY DEF MailInv, MailJobsOK, JobsInOrder, JobsProceed, Answers
<1>2. ReadAnswered'
  BY <1>1, AnswersStay
<1>3. ChunkAtHand'
  BY <1>1, ChunkKept
<1>4. ThreadsCounted'
  BY ThreadsAlone
<1> QED BY <1>1, <1>2, <1>3, <1>4 DEF MailInv

(* A message gets a job when it has no active one. *)
LEMMA AddedKeeps ==
  ASSUME MailInv, NEW m \in Mails, ~Mailing!Held(m),
         mjobs' = [mjobs EXCEPT ![m] = Append(mjobs[m], Mailing!NewJob)],
         UNCHANGED <<inbox, worker, mapping, created, excused>>
  PROVE  MailInv'
<1>1. mjobs \in [Mails -> Seq(MailJob)] /\ mjobs[m] \in Seq(MailJob) /\ Mailing!NewJob \in MailJob
  BY DEF MailInv, MailJobsOK, MailJob, Mailing!NewJob, Active, ChunkStates
<1>2. PICK n \in Nat : n = Len(mjobs[m])
  BY <1>1
<1>3. /\ mjobs'[m] \in Seq(MailJob) /\ Len(mjobs'[m]) = n + 1 /\ DOMAIN mjobs'[m] = 1 .. n + 1
      /\ DOMAIN mjobs[m] = 1 .. n
      /\ \A i \in 1 .. n : mjobs'[m][i] = mjobs[m][i]
      /\ mjobs'[m][n + 1] = Mailing!NewJob
  BY <1>1, <1>2
<1>4. \A k \in Mails \ {m} : mjobs'[k] = mjobs[k]
  BY <1>1
<1>5. MailJobsOK'
  BY <1>1, <1>3 DEF MailJobsOK
<1>6. \A i \in DOMAIN mjobs[m] : mjobs[m][i].status \notin Active
  <2>1. ASSUME NEW i \in DOMAIN mjobs[m], mjobs[m][i].status \in Active PROVE FALSE
    <3>1. i = Len(mjobs[m])
      BY <2>1 DEF MailInv, JobsInOrder
    <3>2. mjobs[m] # <<>>
      BY <1>1, <2>1
    <3> QED BY <2>1, <3>1, <3>2 DEF Mailing!Held, Active
  <2> QED BY <2>1
<1>7. JobsInOrder'
  <2> SUFFICES ASSUME NEW k \in Mails, NEW i \in DOMAIN mjobs'[k]
               PROVE  /\ mjobs'[k][i].status # "completed" =>
                           \A c \in 1 .. Parcels : mjobs'[k][i].chunks[c] = "none"
                      /\ mjobs'[k][i].status \in Active => i = Len(mjobs'[k])
    BY DEF JobsInOrder
  <2>1. CASE k # m
    BY <1>4, <2>1 DEF MailInv, JobsInOrder
  <2>2. CASE k = m /\ i = n + 1
    BY <1>3, <2>2 DEF Mailing!NewJob
  <2>3. CASE k = m /\ i \in 1 .. n
    BY <1>3, <1>6, <2>3 DEF MailInv, JobsInOrder
  <2> QED BY <1>3, <2>1, <2>2, <2>3
<1>8. JobsProceed
  <2> SUFFICES ASSUME NEW k \in Mails, NEW i \in DOMAIN mjobs[k]
               PROVE  i \in DOMAIN mjobs'[k] /\ mjobs'[k][i] = mjobs[k][i]
    BY DEF JobsProceed
  <2> QED BY <1>3, <1>4
<1>9. ReadAnswered' /\ ChunkAtHand'
  BY <1>8, AnswersStay, ChunkKept
<1>10. ThreadsCounted'
  BY ThreadsAlone
<1> QED BY <1>5, <1>7, <1>9, <1>10 DEF MailInv

LEMMA MailEnqueueKeeps ==
  ASSUME MailInv, Mailing!Enqueue
  PROVE  MailInv'
<1> DEFINE m == Mailing!Next1
<1>1. /\ UNCHANGED <<inbox, worker, mapping, created, excused>>
      /\ mjobs' = IF Mailing!Held(m) THEN mjobs
                  ELSE [mjobs EXCEPT ![m] = Append(mjobs[m], Mailing!NewJob)]
  BY DEF Mailing!Enqueue, Mailing!discord
<1> HIDE DEF m
<1>2. CASE UNCHANGED mjobs
  BY <1>1, <1>2, MailRests
<1>3. CASE m \in Mails /\ ~Mailing!Held(m)
  BY <1>1, <1>3, AddedKeeps
<1>4. CASE m \notin Mails
  <2>1. UNCHANGED mjobs
    BY <1>1, <1>4 DEF MailInv, MailJobsOK
  <2> QED BY <1>2, <2>1
<1> QED BY <1>1, <1>2, <1>3, <1>4

-----------------------------------------------------------------------------
(* The ledger *)

LEMMA MailJobFields ==
  ASSUME MailInv, NEW m \in Mails, NEW i \in DOMAIN mjobs[m]
  PROVE  mjobs[m][i] \in MailJob
BY DEF MailInv, MailJobsOK

LEMMA BecomeKeeps ==
  ASSUME MailInv, NEW m \in Mails, NEW i \in DOMAIN mjobs[m],
         mjobs[m][i].status \in Active, NEW s \in Active \cup {"dead_letter"},
         Mailing!Become(m, i, s), Mailing!Elsewhere
  PROVE  MailInv'
<1> DEFINE j == [mjobs[m][i] EXCEPT !.status = s]
<1>1. /\ mjobs' = [mjobs EXCEPT ![m][i] = j]
      /\ UNCHANGED <<inbox, worker, mapping, created, excused>>
  BY DEF Mailing!Become, Mailing!Elsewhere, Mailing!discord
<1>2. /\ j \in MailJob /\ j.status = s /\ j.suppressed = mjobs[m][i].suppressed
      /\ j.chunks = mjobs[m][i].chunks
  BY MailJobFields DEF MailJob
<1>3. \A c \in 1 .. Parcels : j.chunks[c] = "none"
  BY <1>2 DEF MailInv, JobsInOrder, Active
<1>4. Answers(mjobs[m][i]) => Answers(j)
  BY <1>2 DEF Answers
<1> HIDE DEF j
<1> QED BY <1>1, <1>2, <1>3, <1>4, LedgerKeepsMail

LEMMA RespondsKeeps ==
  ASSUME MailInv, NEW m \in Mails, NEW i \in DOMAIN mjobs[m], Mailing!Responds(m, i)
  PROVE  MailInv'
<1> DEFINE j == [mjobs[m][i] EXCEPT !.status = "completed",
                                    !.chunks = [c \in 1 .. Parcels |-> "pending"]]
<1>1. /\ mjobs' = [mjobs EXCEPT ![m][i] = j] /\ mjobs[m][i].status \in Active
      /\ UNCHANGED <<inbox, worker, mapping, created, excused>>
  BY DEF Mailing!Responds, Mailing!Elsewhere, Mailing!discord, Active
<1>2. /\ j \in MailJob /\ j.status = "completed" /\ j.suppressed = mjobs[m][i].suppressed
      /\ j.chunks = [c \in 1 .. Parcels |-> "pending"]
  <2>1. mjobs[m][i] \in MailJob
    BY MailJobFields
  <2>2. [c \in 1 .. Parcels |-> "pending"] \in [1 .. Parcels -> ChunkStates]
    BY DEF ChunkStates
  <2>3. j = [[mjobs[m][i] EXCEPT !.status = "completed"]
                          EXCEPT !.chunks = [c \in 1 .. Parcels |-> "pending"]]
    BY <2>1 DEF MailJob
  <2> HIDE DEF j
  <2> QED BY <2>1, <2>2, <2>3 DEF MailJob
<1>3. Answers(mjobs[m][i]) => Answers(j)
  <2>1. \A c \in 1 .. Parcels : mjobs[m][i].chunks[c] = "none"
    BY <1>1 DEF MailInv, JobsInOrder, Active
  <2> HIDE DEF j
  <2> QED BY <1>2, <2>1 DEF Answers
<1> HIDE DEF j
<1> QED BY <1>1, <1>2, <1>3, LedgerKeepsMail

LEMMA SuppressesKeeps ==
  ASSUME MailInv, NEW m \in Mails, NEW i \in DOMAIN mjobs[m], Mailing!Suppresses(m, i)
  PROVE  MailInv'
<1> DEFINE j == [mjobs[m][i] EXCEPT !.status = "completed", !.suppressed = TRUE]
<1>1. /\ mjobs' = [mjobs EXCEPT ![m][i] = j] /\ mjobs[m][i].status \in Active
      /\ UNCHANGED <<worker, mapping, created, excused>>
      /\ UNCHANGED inbox \/ inbox' = [inbox EXCEPT ![m] = "read"]
  BY DEF Mailing!Suppresses, Mailing!Acknowledge, Mailing!discord, Active
<1>2. j \in MailJob /\ j.status = "completed" /\ Answers(j)
  <2>1. mjobs[m][i] \in MailJob
    BY MailJobFields
  <2>2. j = [[mjobs[m][i] EXCEPT !.status = "completed"] EXCEPT !.suppressed = TRUE]
    BY <2>1 DEF MailJob
  <2> HIDE DEF j
  <2> QED BY <2>1, <2>2 DEF MailJob, Answers
<1> HIDE DEF j
<1> QED BY <1>1, <1>2, LedgerKeepsMail

-----------------------------------------------------------------------------
(* The worker *)

Holding == {"resolve", "create", "persist", "post"}

LEMMA MarkKeeps ==
  ASSUME MailInv, worker.at \in Holding, NEW s \in {"pending", "failed", "ambiguous", "sent"},
         Mailing!Mark(s), UNCHANGED inbox,
         worker' = Mailing!Idle \/ worker' = [worker EXCEPT !.at = "notify"]
  PROVE  MailJobsOK' /\ JobsInOrder' /\ ReadAnswered' /\ ChunkAtHand'
<1>1. PICK m \in Mails : m = worker.mail
  BY DEF MailInv, ChunkAtHand, Holding
<1>2. PICK i \in DOMAIN mjobs[m] : i = worker.job
  BY <1>1 DEF MailInv, ChunkAtHand, Holding
<1>3. PICK c \in 1 .. Parcels : c = worker.chunk
  BY DEF MailInv, ChunkAtHand, Holding
<1>4. mjobs[m][i].chunks[c] = "sending"
  BY <1>1, <1>2, <1>3 DEF MailInv, ChunkAtHand, Holding
<1> DEFINE j == [mjobs[m][i] EXCEPT !.chunks = [mjobs[m][i].chunks EXCEPT ![c] = s]]
<1>5. mjobs' = [mjobs EXCEPT ![m][i] = j]
  BY <1>1, <1>2, <1>3 DEF Mailing!Mark
<1>6. /\ j \in MailJob /\ j.status = mjobs[m][i].status /\ j.suppressed = mjobs[m][i].suppressed
      /\ \A b \in 1 .. Parcels : j.chunks[b] = IF b = c THEN s ELSE mjobs[m][i].chunks[b]
  <2>1. mjobs[m][i] \in MailJob
    BY MailJobFields
  <2> DEFINE t == [mjobs[m][i].chunks EXCEPT ![c] = s]
  <2>2. /\ t \in [1 .. Parcels -> ChunkStates]
        /\ \A b \in 1 .. Parcels : t[b] = IF b = c THEN s ELSE mjobs[m][i].chunks[b]
    BY <2>1 DEF MailJob, ChunkStates
  <2>3. j = [mjobs[m][i] EXCEPT !.chunks = t]
    OBVIOUS
  <2> HIDE DEF t, j
  <2> QED BY <2>1, <2>2, <2>3 DEF MailJob
<1>7. mjobs[m][i].status = "completed"
  BY <1>4 DEF MailInv, JobsInOrder
<1> HIDE DEF j
<1>8. MailJobsOK' /\ JobsInOrder' /\ Changed(m, i, j)
  BY <1>5, <1>6, <1>7, OneJob, OneJobInOrder
<1>9. /\ worker'.at \in {"idle", "notify"}
      /\ worker'.at = "notify" => worker' = [worker EXCEPT !.at = "notify"]
  BY DEF Mailing!Idle, MailInv, ChunkAtHand
<1>10. JobsProceed
  <2>1. Answers(mjobs[m][i]) => Answers(j)
    BY <1>4, <1>6 DEF Answers
  <2>2. worker' = Mailing!Idle \/ worker'.at = "notify"
    BY DEF MailInv, ChunkAtHand
  <2>3. \A n \in Mails : \A k \in DOMAIN mjobs[n] :
          k \in DOMAIN mjobs'[n] /\ (Answers(mjobs[n][k]) => Answers(mjobs'[n][k]))
    BY <1>8, <2>1 DEF Changed
  <2> QED BY <2>2, <2>3 DEF JobsProceed
<1>11. ReadAnswered'
  BY <1>10, AnswersStay
<1>12. ChunkAtHand'
  <2>1. CASE worker' = Mailing!Idle
    BY <2>1 DEF ChunkAtHand, Mailing!Idle
  <2>2. CASE worker' = [worker EXCEPT !.at = "notify"]
    <3>1. /\ worker'.at = "notify" /\ worker'.mail = m /\ worker'.job = i /\ worker'.chunk = c
          /\ DOMAIN worker' = DOMAIN worker
      BY <1>1, <1>2, <1>3, <2>2 DEF MailInv, ChunkAtHand
    <3> QED BY <1>8, <3>1 DEF ChunkAtHand, Changed, MailInv
  <2> QED BY <2>1, <2>2
<1> QED BY <1>8, <1>11, <1>12

LEMMA StageKeeps ==
  ASSUME MailInv, worker.at \in Holding, NEW s \in Holding, Mailing!Goto(s),
         UNCHANGED <<inbox, mjobs>>
  PROVE  /\ MailJobsOK' /\ JobsInOrder' /\ ReadAnswered' /\ ChunkAtHand'
         /\ worker'.at = s /\ Mailing!R' = Mailing!R
<1>1. /\ worker'.at = s /\ worker'.mail = worker.mail /\ worker'.job = worker.job
      /\ worker'.chunk = worker.chunk /\ DOMAIN worker' = DOMAIN worker
  BY DEF Mailing!Goto, MailInv, ChunkAtHand
<1>2. MailJobsOK' /\ JobsInOrder' /\ ReadAnswered'
  BY DEF MailInv, MailJobsOK, JobsInOrder, ReadAnswered, Answers
<1>3. ChunkAtHand'
  BY <1>1 DEF MailInv, ChunkAtHand, Holding
<1> QED BY <1>1, <1>2, <1>3 DEF Mailing!R
(* The route of the chunk at hand is one of the routes. *)
LEMMA RouteAtHand == MailInv /\ worker.at # "idle" => Mailing!R \in Mailing!Routes
BY DEF MailInv, ChunkAtHand, Mailing!R, Mailing!Routes

LEMMA ClaimChunkKeeps ==
  ASSUME MailInv, NEW m \in Mails, NEW i \in DOMAIN mjobs[m], NEW c \in 1 .. Parcels,
         Mailing!ClaimChunk(m, i, c)
  PROVE  MailInv'
<1> DEFINE j == [mjobs[m][i] EXCEPT !.chunks = [mjobs[m][i].chunks EXCEPT ![c] = "sending"]]
<1>1. /\ worker.at = "idle" /\ mjobs[m][i].chunks[c] = "pending"
      /\ mjobs' = [mjobs EXCEPT ![m][i] = j]
      /\ worker' = [at |-> "resolve", mail |-> m, job |-> i, chunk |-> c]
      /\ UNCHANGED <<inbox, mapping, created, excused>>
  BY DEF Mailing!ClaimChunk, Mailing!At, Mailing!discord
<1>2. /\ j \in MailJob /\ j.status = mjobs[m][i].status /\ j.suppressed = mjobs[m][i].suppressed
      /\ \A b \in 1 .. Parcels :
           j.chunks[b] = IF b = c THEN "sending" ELSE mjobs[m][i].chunks[b]
  <2>1. mjobs[m][i] \in MailJob
    BY MailJobFields
  <2> DEFINE t == [mjobs[m][i].chunks EXCEPT ![c] = "sending"]
  <2>2. /\ t \in [1 .. Parcels -> ChunkStates]
        /\ \A b \in 1 .. Parcels : t[b] = IF b = c THEN "sending" ELSE mjobs[m][i].chunks[b]
    BY <2>1 DEF MailJob, ChunkStates
  <2>3. j = [mjobs[m][i] EXCEPT !.chunks = t]
    OBVIOUS
  <2> HIDE DEF t, j
  <2> QED BY <2>1, <2>2, <2>3 DEF MailJob
<1>3. mjobs[m][i].status = "completed"
  BY <1>1 DEF MailInv, JobsInOrder
<1> HIDE DEF j
<1>4. MailJobsOK' /\ JobsInOrder' /\ Changed(m, i, j)
  BY <1>1, <1>2, <1>3, OneJob, OneJobInOrder
<1>5. ReadAnswered'
  <2>1. Answers(mjobs[m][i]) => Answers(j)
    BY <1>1, <1>2 DEF Answers
  <2>2. \A n \in Mails : \A k \in DOMAIN mjobs[n] :
          k \in DOMAIN mjobs'[n] /\ (Answers(mjobs[n][k]) => Answers(mjobs'[n][k]))
    BY <1>4, <2>1 DEF Changed
  <2> QED BY <1>1, <2>2 DEF MailInv, ReadAnswered
<1>6. ChunkAtHand'
  BY <1>1, <1>2, <1>4 DEF ChunkAtHand, Changed
<1>7. ThreadsCounted'
  BY <1>1, ThreadsAlone
<1> QED BY <1>4, <1>5, <1>6, <1>7 DEF MailInv

(* A chunk that could not be sent goes back before any thread is made. *)
LEMMA LetGo ==
  ASSUME MailInv, worker.at \in Holding, Mailing!Refused \/ Mailing!Unknown, UNCHANGED inbox
  PROVE  /\ MailJobsOK' /\ JobsInOrder' /\ ReadAnswered' /\ ChunkAtHand'
         /\ worker'.at = "idle"
<1>1. worker' = Mailing!Idle
  BY DEF Mailing!Refused, Mailing!Unknown
<1>2. PICK s \in {"pending", "failed", "ambiguous", "sent"} : Mailing!Mark(s)
  BY DEF Mailing!Refused, Mailing!Unknown
<1> QED BY <1>1, <1>2, MarkKeeps DEF Mailing!Idle

LEMMA ResolveKeeps ==
  ASSUME MailInv, Mailing!Resolve
  PROVE  MailInv'
<1>1. worker.at = "resolve" /\ UNCHANGED <<inbox, mjobs, mapping, created>>
  BY DEF Mailing!Resolve, Mailing!At
<1>2. Mailing!R \in Mailing!Routes
  BY <1>1, RouteAtHand
<1>3. \A r \in Mailing!Routes :
        created[r] <= excused[r] \/ (created[r] <= excused[r] + 1 /\ mapping[r] # 0)
  BY <1>1 DEF MailInv, ThreadsCounted
<1>4. /\ created \in [Mailing!Routes -> Nat] /\ excused \in [Mailing!Routes -> Nat]
      /\ mapping \in [Mailing!Routes -> Nat]
  BY DEF MailInv, ThreadsCounted
<1>5. CASE mapping[Mailing!R] # 0 /\ Mailing!Goto("post") /\ UNCHANGED excused
  <2>1. /\ MailJobsOK' /\ JobsInOrder' /\ ReadAnswered' /\ ChunkAtHand'
        /\ worker'.at = "post"
    BY <1>1, <1>5, StageKeeps DEF Holding
  <2>2. ThreadsCounted'
    BY <1>1, <1>3, <1>4, <1>5, <2>1 DEF ThreadsCounted
  <2> QED BY <2>1, <2>2 DEF MailInv
<1>6. CASE mapping[Mailing!R] = 0 /\ Mailing!Goto("create") /\ UNCHANGED excused
  <2>1. /\ MailJobsOK' /\ JobsInOrder' /\ ReadAnswered' /\ ChunkAtHand'
        /\ worker'.at = "create" /\ Mailing!R' = Mailing!R
    BY <1>1, <1>6, StageKeeps DEF Holding
  <2>2. ThreadsCounted'
    BY <1>1, <1>2, <1>3, <1>4, <1>6, <2>1 DEF ThreadsCounted
  <2> QED BY <2>1, <2>2 DEF MailInv
<1>7. CASE /\ mapping[Mailing!R] # 0 /\ Mailing!Goto("create")
           /\ excused' = [excused EXCEPT ![Mailing!R] = excused[Mailing!R] + 1]
  <2>1. /\ MailJobsOK' /\ JobsInOrder' /\ ReadAnswered' /\ ChunkAtHand'
        /\ worker'.at = "create" /\ Mailing!R' = Mailing!R
    BY <1>1, <1>7, StageKeeps DEF Holding
  <2>2. /\ excused' \in [Mailing!Routes -> Nat]
        /\ \A r \in Mailing!Routes : excused'[r] =
             IF r = Mailing!R THEN excused[r] + 1 ELSE excused[r]
    BY <1>2, <1>4, <1>7
  <2>3. created[Mailing!R] <= excused[Mailing!R] + 1
    BY <1>2, <1>3, <1>4
  <2>4. ThreadsCounted'
    BY <1>1, <1>2, <1>3, <1>4, <2>1, <2>2, <2>3 DEF ThreadsCounted
  <2> QED BY <2>1, <2>4 DEF MailInv
<1> QED BY <1>5, <1>6, <1>7 DEF Mailing!Resolve

LEMMA CannotFetchKeeps ==
  ASSUME MailInv, Mailing!CannotFetch
  PROVE  MailInv'
<1>1. /\ worker.at = "resolve" /\ UNCHANGED <<inbox, mapping, created, excused>>
      /\ Mailing!Refused
  BY DEF Mailing!CannotFetch, Mailing!At, Mailing!discord
<1>2. /\ MailJobsOK' /\ JobsInOrder' /\ ReadAnswered' /\ ChunkAtHand'
      /\ worker'.at = "idle"
  BY <1>1, LetGo DEF Holding
<1>3. ThreadsCounted'
  BY <1>1, <1>2, ThreadsAlone
<1> QED BY <1>2, <1>3 DEF MailInv

LEMMA CreateKeeps ==
  ASSUME MailInv, Mailing!Create
  PROVE  MailInv'
<1>1. worker.at = "create" /\ UNCHANGED <<inbox, mapping>>
  BY DEF Mailing!Create, Mailing!At
<1>2. PICK r \in Mailing!Routes : r = Mailing!R
  BY <1>1, RouteAtHand
<1>3. /\ created \in [Mailing!Routes -> Nat] /\ excused \in [Mailing!Routes -> Nat]
      /\ mapping \in [Mailing!Routes -> Nat]
      /\ created[r] <= excused[r]
      /\ \A q \in Mailing!Routes :
           created[q] <= excused[q] \/ (created[q] <= excused[q] + 1 /\ mapping[q] # 0)
  BY <1>1, <1>2 DEF MailInv, ThreadsCounted
<1>4. CASE /\ created' = [created EXCEPT ![Mailing!R] = created[Mailing!R] + 1]
           /\ Mailing!Goto("persist") /\ UNCHANGED <<mjobs, excused>>
  <2>1. /\ MailJobsOK' /\ JobsInOrder' /\ ReadAnswered' /\ ChunkAtHand'
        /\ worker'.at = "persist" /\ Mailing!R' = r
    BY <1>1, <1>2, <1>4, StageKeeps DEF Holding
  <2>2. /\ created' \in [Mailing!Routes -> Nat]
        /\ \A q \in Mailing!Routes : created'[q] = IF q = r THEN created[q] + 1 ELSE created[q]
    BY <1>2, <1>3, <1>4
  <2>3. ThreadsCounted'
    BY <1>1, <1>3, <1>4, <2>1, <2>2 DEF ThreadsCounted
  <2> QED BY <2>1, <2>3 DEF MailInv
<1>5. CASE Mailing!Refused /\ UNCHANGED <<created, excused>>
  <2>1. /\ MailJobsOK' /\ JobsInOrder' /\ ReadAnswered' /\ ChunkAtHand'
        /\ worker'.at = "idle"
    BY <1>1, <1>5, LetGo DEF Holding
  <2>2. ThreadsCounted'
    BY <1>1, <1>5, <2>1, ThreadsAlone
  <2> QED BY <2>1, <2>2 DEF MailInv
<1>6. CASE /\ Mailing!Unknown
           /\ created' = [created EXCEPT ![Mailing!R] = created[Mailing!R] + 1]
           /\ excused' = [excused EXCEPT ![Mailing!R] = excused[Mailing!R] + 1]
  <2>1. /\ MailJobsOK' /\ JobsInOrder' /\ ReadAnswered' /\ ChunkAtHand'
        /\ worker'.at = "idle"
    BY <1>1, <1>6, LetGo DEF Holding
  <2>2. /\ created' \in [Mailing!Routes -> Nat] /\ excused' \in [Mailing!Routes -> Nat]
        /\ \A q \in Mailing!Routes :
             /\ created'[q] = IF q = r THEN created[q] + 1 ELSE created[q]
             /\ excused'[q] = IF q = r THEN excused[q] + 1 ELSE excused[q]
    BY <1>2, <1>3, <1>6
  <2>3. ThreadsCounted'
    BY <1>1, <1>3, <2>1, <2>2 DEF ThreadsCounted
  <2> QED BY <2>1, <2>3 DEF MailInv
<1> QED BY <1>4, <1>5, <1>6 DEF Mailing!Create

LEMMA PersistKeeps ==
  ASSUME MailInv, Mailing!Persist
  PROVE  MailInv'
<1>1. worker.at = "persist" /\ UNCHANGED <<inbox, created>>
  BY DEF Mailing!Persist, Mailing!At
<1>2. PICK r \in Mailing!Routes : r = Mailing!R
  BY <1>1, RouteAtHand
<1>3. /\ created \in [Mailing!Routes -> Nat] /\ excused \in [Mailing!Routes -> Nat]
      /\ mapping \in [Mailing!Routes -> Nat]
      /\ created[r] # 0 /\ created[r] <= excused[r] + 1
      /\ \A q \in Mailing!Routes \ {r} :
           created[q] <= excused[q] \/ (created[q] <= excused[q] + 1 /\ mapping[q] # 0)
  BY <1>1, <1>2 DEF MailInv, ThreadsCounted
<1>4. CASE /\ mapping' = [mapping EXCEPT ![Mailing!R] = created[Mailing!R]]
           /\ Mailing!Goto("post") /\ UNCHANGED <<mjobs, excused>>
  <2>1. /\ MailJobsOK' /\ JobsInOrder' /\ ReadAnswered' /\ ChunkAtHand'
        /\ worker'.at = "post"
    BY <1>1, <1>4, StageKeeps DEF Holding
  <2>2. /\ mapping' \in [Mailing!Routes -> Nat]
        /\ \A q \in Mailing!Routes : mapping'[q] = IF q = r THEN created[r] ELSE mapping[q]
    BY <1>2, <1>3, <1>4
  <2>3. ThreadsCounted'
    BY <1>1, <1>3, <1>4, <2>1, <2>2 DEF ThreadsCounted
  <2> QED BY <2>1, <2>3 DEF MailInv
<1>5. CASE /\ Mailing!Unknown /\ UNCHANGED mapping
           /\ excused' = [excused EXCEPT ![Mailing!R] = excused[Mailing!R] + 1]
  <2>1. /\ MailJobsOK' /\ JobsInOrder' /\ ReadAnswered' /\ ChunkAtHand'
        /\ worker'.at = "idle"
    BY <1>1, <1>5, LetGo DEF Holding
  <2>2. /\ excused' \in [Mailing!Routes -> Nat]
        /\ \A q \in Mailing!Routes : excused'[q] = IF q = r THEN excused[q] + 1 ELSE excused[q]
    BY <1>2, <1>3, <1>5
  <2>3. ThreadsCounted'
    BY <1>1, <1>3, <1>5, <2>1, <2>2 DEF ThreadsCounted
  <2> QED BY <2>1, <2>3 DEF MailInv
<1> QED BY <1>4, <1>5 DEF Mailing!Persist

LEMMA PostKeeps ==
  ASSUME MailInv, Mailing!Post
  PROVE  MailInv'
<1>1. worker.at = "post" /\ UNCHANGED <<inbox, mapping, created, excused>>
  BY DEF Mailing!Post, Mailing!At, Mailing!discord
<1>2. CASE Mailing!Mark("sent") /\ Mailing!Goto("notify")
  <2>1. worker' = [worker EXCEPT !.at = "notify"]
    BY <1>2 DEF Mailing!Goto
  <2>2. MailJobsOK' /\ JobsInOrder' /\ ReadAnswered' /\ ChunkAtHand'
    BY <1>1, <1>2, <2>1, MarkKeeps DEF Holding
  <2>3. worker'.at = "notify" /\ Mailing!R' = Mailing!R
    BY <2>1 DEF MailInv, ChunkAtHand, Mailing!R
  <2>4. ThreadsCounted'
    BY <1>1, <2>3 DEF MailInv, ThreadsCounted
  <2> QED BY <2>2, <2>4 DEF MailInv
<1>3. CASE Mailing!Refused \/ Mailing!Unknown
  <2>1. /\ MailJobsOK' /\ JobsInOrder' /\ ReadAnswered' /\ ChunkAtHand'
        /\ worker'.at = "idle"
    BY <1>1, <1>3, LetGo DEF Holding
  <2>2. ThreadsCounted'
    BY <1>1, <2>1, ThreadsAlone
  <2> QED BY <2>1, <2>2 DEF MailInv
<1> QED BY <1>2, <1>3 DEF Mailing!Post

LEMMA NotifyKeeps ==
  ASSUME MailInv, Mailing!Notify
  PROVE  MailInv'
<1>1. /\ worker.at = "notify" /\ worker' = Mailing!Idle
      /\ UNCHANGED <<mjobs, mapping, created, excused>>
      /\ \/ UNCHANGED inbox
         \/ /\ Mailing!AllSent(mjobs[worker.mail][worker.job])
            /\ inbox' = [inbox EXCEPT ![worker.mail] = "read"]
  BY DEF Mailing!Notify, Mailing!At, Mailing!Acknowledge, Mailing!discord
<1>2. MailJobsOK' /\ JobsInOrder'
  BY <1>1 DEF MailInv, MailJobsOK, JobsInOrder
<1>3. worker'.at = "idle" /\ ChunkAtHand'
  BY <1>1 DEF ChunkAtHand, Mailing!Idle
<1>4. ThreadsCounted'
  BY <1>1, <1>3, ThreadsAlone
<1>5. ReadAnswered'
  <2>1. CASE UNCHANGED inbox
    BY <1>1, <2>1 DEF MailInv, ReadAnswered, Answers
  <2>2. CASE /\ Mailing!AllSent(mjobs[worker.mail][worker.job])
             /\ inbox' = [inbox EXCEPT ![worker.mail] = "read"]
    <3>1. worker.mail \in Mails /\ worker.job \in DOMAIN mjobs[worker.mail]
      BY <1>1 DEF MailInv, ChunkAtHand
    <3>2. Answers(mjobs[worker.mail][worker.job])
      BY <2>2 DEF Mailing!AllSent, Answers
    <3>3. ASSUME NEW m \in Mails, inbox'[m] = "read"
          PROVE  m = worker.mail \/ inbox[m] = "read"
      BY <2>2, <3>3
    <3> QED BY <1>1, <3>1, <3>2, <3>3 DEF MailInv, ReadAnswered, Answers
  <2> QED BY <1>1, <2>1, <2>2
<1> QED BY <1>2, <1>3, <1>4, <1>5 DEF MailInv

-----------------------------------------------------------------------------
(* Restart *)

Requeued(j) ==
  [j EXCEPT !.status = IF j.status = "running" THEN "queued" ELSE j.status,
            !.chunks = [c \in 1 .. Parcels |->
                          IF j.chunks[c] = "sending" THEN "ambiguous" ELSE j.chunks[c]]]

LEMMA RequeuedFields ==
  ASSUME NEW j \in MailJob
  PROVE  /\ Requeued(j) \in MailJob
         /\ Requeued(j).status = IF j.status = "running" THEN "queued" ELSE j.status
         /\ Requeued(j).suppressed = j.suppressed
         /\ \A c \in 1 .. Parcels : Requeued(j).chunks[c] =
              IF j.chunks[c] = "sending" THEN "ambiguous" ELSE j.chunks[c]
<1> DEFINE s == IF j.status = "running" THEN "queued" ELSE j.status
           t == [c \in 1 .. Parcels |->
                   IF j.chunks[c] = "sending" THEN "ambiguous" ELSE j.chunks[c]]
<1>1. s \in Active \cup {"completed", "dead_letter"}
  BY DEF MailJob, Active
<1>2. t \in [1 .. Parcels -> ChunkStates]
  BY DEF MailJob, ChunkStates
<1>3. Requeued(j) = [[j EXCEPT !.status = s] EXCEPT !.chunks = t]
  BY DEF Requeued, MailJob
<1>4. \A c \in 1 .. Parcels : t[c] = IF j.chunks[c] = "sending" THEN "ambiguous" ELSE j.chunks[c]
  OBVIOUS
<1>5. s = IF j.status = "running" THEN "queued" ELSE j.status
  OBVIOUS
<1> HIDE DEF s, t
<1>6. /\ Requeued(j) \in MailJob /\ Requeued(j).status = s
      /\ Requeued(j).suppressed = j.suppressed /\ Requeued(j).chunks = t
  BY <1>1, <1>2, <1>3 DEF MailJob
<1> QED BY <1>4, <1>5, <1>6

LEMMA MailRestartKeeps ==
  ASSUME MailInv, Mailing!Restart
  PROVE  MailInv'
<1>1. /\ mjobs' = [m \in Mails |-> [i \in DOMAIN mjobs[m] |-> Requeued(mjobs[m][i])]]
      /\ worker' = Mailing!Idle /\ UNCHANGED <<inbox, mapping, created>>
      /\ excused' = IF worker.at = "persist"
                    THEN [excused EXCEPT ![Mailing!R] = excused[Mailing!R] + 1] ELSE excused
  BY DEF Mailing!Restart, Mailing!At, Requeued
<1>2. \A m \in Mails : mjobs[m] \in Seq(MailJob)
  BY DEF MailInv, MailJobsOK
<1>3. ASSUME NEW m \in Mails
      PROVE  /\ mjobs'[m] \in Seq(MailJob) /\ Len(mjobs'[m]) = Len(mjobs[m])
             /\ DOMAIN mjobs'[m] = DOMAIN mjobs[m]
             /\ \A i \in DOMAIN mjobs[m] : mjobs'[m][i] = Requeued(mjobs[m][i])
  <2>1. mjobs'[m] = [i \in 1 .. Len(mjobs[m]) |-> Requeued(mjobs[m][i])]
    BY <1>1, <1>2
  <2>2. \A i \in 1 .. Len(mjobs[m]) : Requeued(mjobs[m][i]) \in MailJob
    BY <1>2, RequeuedFields
  <2>3. Len(mjobs[m]) \in Nat /\ DOMAIN mjobs[m] = 1 .. Len(mjobs[m])
    BY <1>2
  <2>4. mjobs'[m] \in [1 .. Len(mjobs[m]) -> MailJob]
    BY <2>1, <2>2
  <2>5. mjobs'[m] \in Seq(MailJob) /\ Len(mjobs'[m]) = Len(mjobs[m])
    BY <2>3, <2>4
  <2> QED BY <2>1, <2>3, <2>5
<1>4. \A m \in Mails : \A i \in DOMAIN mjobs[m] : mjobs[m][i] \in MailJob
  BY MailJobFields
<1>5. MailJobsOK'
  <2>1. mjobs' = [m \in Mails |-> mjobs'[m]]
    BY <1>1
  <2> QED BY <1>3, <2>1 DEF MailJobsOK
<1>6. JobsInOrder'
  <2> SUFFICES ASSUME NEW m \in Mails, NEW i \in DOMAIN mjobs'[m]
               PROVE  /\ mjobs'[m][i].status # "completed" =>
                           \A c \in 1 .. Parcels : mjobs'[m][i].chunks[c] = "none"
                      /\ mjobs'[m][i].status \in Active => i = Len(mjobs'[m])
    BY DEF JobsInOrder
  <2>1. /\ i \in DOMAIN mjobs[m] /\ mjobs'[m][i] = Requeued(mjobs[m][i])
        /\ Len(mjobs'[m]) = Len(mjobs[m])
    BY <1>3
  <2>2. /\ mjobs[m][i].status # "completed" =>
             \A c \in 1 .. Parcels : mjobs[m][i].chunks[c] = "none"
        /\ mjobs[m][i].status \in Active => i = Len(mjobs[m])
    BY <2>1 DEF MailInv, JobsInOrder
  <2>3. /\ mjobs'[m][i].status = IF mjobs[m][i].status = "running" THEN "queued"
                                 ELSE mjobs[m][i].status
        /\ \A c \in 1 .. Parcels : mjobs'[m][i].chunks[c] =
             IF mjobs[m][i].chunks[c] = "sending" THEN "ambiguous" ELSE mjobs[m][i].chunks[c]
    BY <1>4, <2>1, RequeuedFields
  <2> QED BY <2>1, <2>2, <2>3 DEF Active
<1>7. ReadAnswered'
  <2> SUFFICES ASSUME NEW m \in Mails, inbox[m] = "read"
               PROVE  \E i \in DOMAIN mjobs'[m] : Answers(mjobs'[m][i])
    BY <1>1 DEF ReadAnswered
  <2>1. PICK i \in DOMAIN mjobs[m] : Answers(mjobs[m][i])
    BY DEF MailInv, ReadAnswered
  <2>2. Answers(Requeued(mjobs[m][i]))
    BY <1>4, <2>1, RequeuedFields DEF Answers
  <2> QED BY <1>3, <2>1, <2>2
<1>8. worker'.at = "idle" /\ ChunkAtHand'
  BY <1>1 DEF ChunkAtHand, Mailing!Idle
<1>9. ThreadsCounted'
  <2>1. CASE worker.at # "persist"
    BY <1>1, <1>8, <2>1, ThreadsAlone
  <2>2. CASE worker.at = "persist"
    <3>1. PICK r \in Mailing!Routes : r = Mailing!R
      BY <2>2, RouteAtHand
    <3>2. /\ created \in [Mailing!Routes -> Nat] /\ excused \in [Mailing!Routes -> Nat]
          /\ mapping \in [Mailing!Routes -> Nat]
          /\ created[r] <= excused[r] + 1
          /\ \A q \in Mailing!Routes \ {r} :
               created[q] <= excused[q] \/ (created[q] <= excused[q] + 1 /\ mapping[q] # 0)
      BY <3>1 DEF MailInv, ThreadsCounted
    <3>3. /\ excused' \in [Mailing!Routes -> Nat]
          /\ \A q \in Mailing!Routes : excused'[q] = IF q = r THEN excused[q] + 1 ELSE excused[q]
      BY <1>1, <2>2, <3>1, <3>2
    <3> QED BY <1>1, <1>8, <3>2, <3>3 DEF ThreadsCounted
  <2> QED BY <2>1, <2>2
<1> QED BY <1>5, <1>6, <1>7, <1>8, <1>9 DEF MailInv

-----------------------------------------------------------------------------
LEMMA MailInit == Mailing!Init => MailInv
<1> SUFFICES ASSUME Mailing!Init PROVE MailInv
  OBVIOUS
<1>1. MailJobsOK
  <2>1. <<>> \in Seq(MailJob)
    OBVIOUS
  <2> QED BY <2>1 DEF Mailing!Init, MailJobsOK
<1>2. JobsInOrder /\ ReadAnswered
  BY DEF Mailing!Init, JobsInOrder, ReadAnswered
<1>3. ChunkAtHand /\ ThreadsCounted
  BY DEF Mailing!Init, Mailing!Idle, ChunkAtHand, ThreadsCounted
<1> QED BY <1>1, <1>2, <1>3 DEF MailInv

LEMMA MailStep ==
  ASSUME MailInv, [Mailing!Next]_(Mailing!vars)
  PROVE  MailInv'
<1>1. CASE \E m \in Mails : Mailing!Arrives(m)
  BY <1>1, ArrivesKeeps
<1>2. CASE Mailing!List \/ Mailing!Skip
  <2>1. UNCHANGED <<inbox, mjobs, worker, mapping, created, excused>>
    BY <1>2 DEF Mailing!List, Mailing!Skip, Mailing!discord
  <2> QED BY <2>1, MailRests
<1>3. CASE Mailing!Enqueue
  BY <1>3, MailEnqueueKeeps
<1>4. ASSUME NEW m \in Mails, NEW i \in DOMAIN mjobs[m], Mailing!Claim(m, i)
      PROVE  MailInv'
  <2>1. /\ mjobs[m][i].status \in Active /\ Mailing!Become(m, i, "running") /\ Mailing!Elsewhere
        /\ "running" \in Active \cup {"dead_letter"}
    BY <1>4 DEF Mailing!Claim, Active
  <2> QED BY <2>1, BecomeKeeps
<1>5. ASSUME NEW m \in Mails, NEW i \in DOMAIN mjobs[m], Mailing!Attempt(m, i)
      PROVE  MailInv'
  <2>1. mjobs[m][i].status \in Active /\ Mailing!Elsewhere
    BY <1>5 DEF Mailing!Attempt, Active
  <2>2. PICK s \in Active \cup {"dead_letter"} : Mailing!Become(m, i, s)
    BY <1>5 DEF Mailing!Attempt, Active
  <2> QED BY <2>1, <2>2, BecomeKeeps
<1>6. ASSUME NEW m \in Mails, NEW i \in DOMAIN mjobs[m],
             \/ Mailing!Responds(m, i) \/ Mailing!Suppresses(m, i)
             \/ \E c \in 1 .. Parcels : Mailing!ClaimChunk(m, i, c)
      PROVE  MailInv'
  BY <1>6, RespondsKeeps, SuppressesKeeps, ClaimChunkKeeps
<1>7. CASE Mailing!Resolve \/ Mailing!CannotFetch \/ Mailing!Create \/ Mailing!Persist
  BY <1>7, ResolveKeeps, CannotFetchKeeps, CreateKeeps, PersistKeeps
<1>8. CASE Mailing!Post \/ Mailing!Notify \/ Mailing!Restart
  BY <1>8, PostKeeps, NotifyKeeps, MailRestartKeeps
<1>9. CASE UNCHANGED (Mailing!vars)
  <2>1. UNCHANGED <<inbox, mjobs, worker, mapping, created, excused>>
    BY <1>9 DEF Mailing!vars
  <2> QED BY <2>1, MailRests
<1> QED BY <1>1, <1>2, <1>3, <1>4, <1>5, <1>6, <1>7, <1>8, <1>9 DEF Mailing!Next

(* A mail route has one thread, whatever jobs, retries, crashes and lost   *)
(* answers there are, and a message is marked read only when all of one    *)
(* response to it was sent or none was wanted (features/mail.ts,           *)
(* cron/jobs/mail.ts, queue/delivery.ts:139-198).                          *)
THEOREM RoutesKeepOneThread == Spec => []MailInOneThread
<1>1. Mailing!Init => MailInv
  BY MailInit
<1>2. MailInv /\ [Mailing!Next]_(Mailing!vars) => MailInv'
  BY MailStep
<1>3. MailInv => MailInOneThread
  BY MailTruthful DEF MailInOneThread
<1>4. Mailing!Spec => []MailInOneThread
  BY <1>1, <1>2, <1>3, PTL DEF Mailing!Spec
<1> QED BY <1>4, MailPart, PTL

-----------------------------------------------------------------------------
(* Saved posts *)

Sources == {Posts!NoUrl} \cup Posts!Urls
Flags == {c[2] : c \in Captures}
ItemRow == [seen : SUBSET Flags, resolved : BOOLEAN, terminal : BOOLEAN]
MediaRow == [status : {"none", "pending", "done", "failed"}, source : Sources,
             terminal : BOOLEAN, file : Sources]
Handling == [phase : {"off", "resolve", "download", "enrich"}, todo : SUBSET Posts!Posts,
             post : Posts!Posts \cup {0}, source : Sources, saved : BOOLEAN]

ArchiveOK ==
  /\ outbox \subseteq Captures /\ acked \subseteq Captures
  /\ item \in [Posts!Posts -> ItemRow] /\ media \in [Posts!Posts -> MediaRow]
  /\ disk \in [Posts!Posts -> Sources] /\ cron \in Handling
  /\ condemned \in [Posts!Posts -> SUBSET Sources]

AckedAreSeen == \A c \in acked : c[2] \in item[c[1]].seen

DoneIsOnDisk ==
  \A t \in Posts!Posts : media[t].status = "done" =>
    media[t].file = media[t].source /\ disk[t] = media[t].source

(* A condemned source is never downloaded, and before its lookup a post    *)
(* has one source.                                                         *)
CondemnedRests(t) ==
  /\ media[t].source \in condemned[t] => media[t].terminal
  /\ ~item[t].resolved => \A s \in condemned[t] : s = media[t].source /\ s # Posts!NoUrl

(* What a phase has left to do *)
InHand == cron.todo \cup (IF cron.post = 0 THEN {} ELSE {cron.post})

(* A file that is still to download: nothing but the download itself       *)
(* changes its row.                                                        *)
ToDownload(t) ==
  /\ media[t].status \in {"pending", "failed"} /\ ~media[t].terminal
  /\ media[t].source # Posts!NoUrl \/ item[t].resolved

HandlerKnows ==
  /\ cron.post \notin cron.todo \/ cron.post = 0
  /\ cron.phase = "off" => InHand = {}
  /\ cron.phase = "resolve" => \A t \in InHand : ~item[t].resolved
  /\ cron.phase = "download" => \A t \in InHand : ToDownload(t)
  /\ Posts!At("download") => cron.source = media[cron.post].source
  /\ cron.saved => Posts!At("download") /\ disk[cron.post] = cron.source

PostInv ==
  /\ ArchiveOK /\ AckedAreSeen /\ DoneIsOnDisk /\ HandlerKnows
  /\ \A t \in Posts!Posts : CondemnedRests(t)

LEMMA PostsTruthful == PostInv => ArchiveTruthful
<1> SUFFICES ASSUME PostInv PROVE ArchiveTruthful
  OBVIOUS
<1>1. ASSUME Posts!At("download") PROVE cron.source \notin condemned[cron.post]
  <2>1. cron.post \in InHand /\ cron.post \in Posts!Posts
    BY <1>1 DEF Posts!At, InHand, PostInv, ArchiveOK, Handling
  <2>2. ToDownload(cron.post) /\ cron.source = media[cron.post].source
    BY <1>1, <2>1 DEF Posts!At, PostInv, HandlerKnows
  <2> QED BY <2>1, <2>2 DEF PostInv, CondemnedRests, ToDownload
<1> QED BY <1>1 DEF PostInv, AckedAreSeen, DoneIsOnDisk, ArchiveTruthful, Posts!ArchiveTruthful,
                    Posts!T

-----------------------------------------------------------------------------
(* Steps that leave the archive alone *)

LEMMA ArchiveStays ==
  ASSUME PostInv, UNCHANGED <<acked, item, media, disk, condemned>>,
         outbox' \subseteq Captures, cron' \in Handling, HandlerKnows'
  PROVE  PostInv'
<1>1. ArchiveOK' /\ AckedAreSeen' /\ DoneIsOnDisk'
  BY DEF PostInv, ArchiveOK, AckedAreSeen, DoneIsOnDisk
<1>2. ASSUME NEW t \in Posts!Posts PROVE CondemnedRests(t)'
  BY DEF PostInv, CondemnedRests
<1> QED BY <1>1, <1>2 DEF PostInv

LEMMA CaptureKeeps ==
  ASSUME PostInv, NEW c \in Captures, Posts!Capture(c)
  PROVE  PostInv'
<1>1. UNCHANGED <<acked, item, media, disk, cron, condemned>> /\ outbox' = outbox \cup {c}
  BY DEF Posts!Capture
<1>2. outbox' \subseteq Captures /\ cron' \in Handling
  BY <1>1 DEF PostInv, ArchiveOK
<1>3. HandlerKnows'
  BY <1>1 DEF PostInv, HandlerKnows, InHand, ToDownload, Posts!At
<1> QED BY <1>1, <1>2, <1>3, ArchiveStays

(* A phase starts with what it selects. *)
LEMMA PhaseKeeps ==
  ASSUME PostInv, UNCHANGED <<outbox, acked, item, media, disk, condemned>>,
         NEW p \in {"resolve", "download", "enrich"}, NEW S \in SUBSET Posts!Posts,
         Posts!Phase(p, S),
         p = "resolve" => \A t \in S : ~item[t].resolved,
         p = "download" => \A t \in S : ToDownload(t)
  PROVE  PostInv'
<1>1. PICK F \in SUBSET S : cron' = [Posts!Off EXCEPT !.phase = p, !.todo = F]
  BY DEF Posts!Phase
<1>2. cron' = [phase |-> p, todo |-> F, post |-> 0, source |-> Posts!NoUrl, saved |-> FALSE]
  BY <1>1 DEF Posts!Off
<1>3. cron' \in Handling
  <2>1. Posts!NoUrl \in Sources /\ F \in SUBSET Posts!Posts
    BY DEF Sources
  <2> QED BY <1>2, <2>1 DEF Handling
<1>4. InHand' = F
  BY <1>2 DEF InHand
<1>5. HandlerKnows'
  BY <1>2, <1>4 DEF HandlerKnows, ToDownload, Posts!At
<1>6. outbox' \subseteq Captures
  BY DEF PostInv, ArchiveOK
<1> QED BY <1>3, <1>5, <1>6, ArchiveStays

LEMMA HandlerOff ==
  ASSUME PostInv, UNCHANGED <<outbox, acked, item, media, disk, condemned>>, cron' = Posts!Off
  PROVE  PostInv'
<1>1. cron' = [phase |-> "off", todo |-> {}, post |-> 0, source |-> Posts!NoUrl, saved |-> FALSE]
  BY DEF Posts!Off
<1>2. cron' \in Handling /\ InHand' = {}
  BY <1>1 DEF Handling, Sources, InHand
<1>3. HandlerKnows'
  BY <1>1, <1>2 DEF HandlerKnows, Posts!At
<1>4. outbox' \subseteq Captures
  BY DEF PostInv, ArchiveOK
<1> QED BY <1>2, <1>3, <1>4, ArchiveStays

LEMMA CronTickKeeps ==
  ASSUME PostInv, Posts!Tick
  PROVE  PostInv'
<1>1. /\ UNCHANGED <<outbox, acked, item, media, disk, condemned>>
      /\ Posts!Phase("resolve", Posts!Unresolved)
      /\ Posts!Unresolved \in SUBSET Posts!Posts
      /\ \A t \in Posts!Unresolved : ~item[t].resolved
  BY DEF Posts!Tick, Posts!Unresolved
<1> QED BY <1>1, PhaseKeeps

LEMMA NextPhaseKeeps ==
  ASSUME PostInv, Posts!NextPhase
  PROVE  PostInv'
<1>1. /\ UNCHANGED <<outbox, acked, item, media, disk, condemned>>
      /\ cron.phase \in {"resolve", "download", "enrich"}
  BY DEF Posts!NextPhase, PostInv, ArchiveOK, Handling
<1>2. CASE cron.phase = "resolve"
  <2> DEFINE S == Posts!Files("pending") \cup Posts!Files("failed")
  <2>1. Posts!Phase("download", S)
    BY <1>2 DEF Posts!NextPhase
  <2>2. S \in SUBSET Posts!Posts /\ \A t \in S : ToDownload(t)
    BY DEF Posts!Files, ToDownload
  <2> HIDE DEF S
  <2> QED BY <1>1, <2>1, <2>2, PhaseKeeps
<1>3. CASE cron.phase = "download"
  <2>1. Posts!Phase("enrich", Posts!Backlog)
    BY <1>3 DEF Posts!NextPhase
  <2>2. Posts!Backlog \in SUBSET Posts!Posts
    BY DEF Posts!Backlog
  <2> QED BY <1>1, <2>1, <2>2, PhaseKeeps
<1>4. CASE cron.phase = "enrich"
  <2>1. cron' = Posts!Off
    BY <1>4 DEF Posts!NextPhase
  <2> QED BY <1>1, <2>1, HandlerOff
<1> QED BY <1>1, <1>2, <1>3, <1>4

LEMMA TakeKeeps ==
  ASSUME PostInv, Posts!Take
  PROVE  PostInv'
<1>1. UNCHANGED <<outbox, acked, item, media, disk, condemned>> /\ cron.post = 0
  BY DEF Posts!Take
<1>2. PICK t \in cron.todo :
        cron' = [cron EXCEPT !.todo = cron.todo \ {t}, !.post = t, !.source = media[t].source]
  BY DEF Posts!Take
<1>3. cron \in Handling /\ t \in Posts!Posts /\ media[t].source \in Sources /\ ~cron.saved
  BY <1>1 DEF PostInv, ArchiveOK, HandlerKnows, Handling, MediaRow, Posts!At
<1>4. cron' = [phase |-> cron.phase, todo |-> cron.todo \ {t}, post |-> t,
               source |-> media[t].source, saved |-> FALSE]
  BY <1>2, <1>3 DEF Handling
<1>5. cron' \in Handling
  BY <1>3, <1>4 DEF Handling
<1>6. InHand' \subseteq InHand /\ t \in InHand
  BY <1>1, <1>2, <1>4 DEF InHand
<1>7. HandlerKnows'
  BY <1>1, <1>4, <1>6 DEF PostInv, HandlerKnows, ToDownload, Posts!At
<1>8. outbox' \subseteq Captures
  BY <1>1 DEF PostInv, ArchiveOK
<1> QED BY <1>1, <1>5, <1>7, <1>8, ArchiveStays

(* What is left in hand when a post is done *)
LEMMA DoneLeaves ==
  ASSUME PostInv, Posts!Done, cron.post # 0
  PROVE  /\ cron' \in Handling /\ cron'.phase = cron.phase
         /\ ~Posts!At("download")' /\ ~cron'.saved
         /\ cron'.post = 0 /\ InHand' = cron.todo /\ InHand' = InHand \ {cron.post}
<1>1. cron \in Handling
  BY DEF PostInv, ArchiveOK
<1>2. cron' = [phase |-> cron.phase, todo |-> cron.todo, post |-> 0,
               source |-> Posts!NoUrl, saved |-> FALSE]
  BY <1>1 DEF Posts!Done, Handling
<1>3. cron' \in Handling
  BY <1>1, <1>2 DEF Handling, Sources
<1> QED BY <1>2, <1>3 DEF InHand, PostInv, HandlerKnows, Posts!At

LEMMA EnrichKeeps ==
  ASSUME PostInv, Posts!Enrich
  PROVE  PostInv'
<1>1. /\ UNCHANGED <<outbox, acked, item, media, disk, condemned>>
      /\ Posts!Done /\ cron.post # 0 /\ cron.phase = "enrich"
  BY DEF Posts!Enrich, Posts!At
<1>2. cron' \in Handling /\ HandlerKnows'
  BY <1>1, DoneLeaves DEF HandlerKnows
<1>3. outbox' \subseteq Captures
  BY <1>1 DEF PostInv, ArchiveOK
<1> QED BY <1>1, <1>2, <1>3, ArchiveStays

-----------------------------------------------------------------------------
(* Rows of files *)

LEMMA Merging ==
  ASSUME NEW m \in MediaRow, NEW s \in Sources, NEW b \in BOOLEAN
  PROVE  LET n == Posts!Merge(m, s, b) IN
         /\ n \in MediaRow /\ n.file = m.file
         /\ m.status = "done" => n = m
         /\ m.status # "done" => n.status # "done"
         /\ m.status # "none" => n.status = m.status
         /\ \/ n.source = m.source /\ n.terminal = m.terminal
            \/ /\ m.status # "done" /\ n.source = s /\ s # m.source /\ s # Posts!NoUrl
               /\ b \/ m.source = Posts!NoUrl
BY DEF Posts!Merge, MediaRow, Posts!NoUrl

(* Hints complete only what has no source and was not looked up. *)
LEMMA ReceiveKeeps ==
  ASSUME PostInv, Posts!Receive
  PROVE  PostInv'
<1>1. PICK bundle \in (SUBSET outbox) \ {{}}, hints \in {{}} \cup {{s} : s \in Page} :
        /\ item' = [t \in Posts!Posts |->
             IF t \in {c[1] : c \in bundle} THEN [item[t] EXCEPT !.seen = Posts!Seen(t, bundle)]
             ELSE item[t]]
        /\ media' = [t \in Posts!Posts |->
             IF t \in {c[1] : c \in bundle} /\ hints # {} /\ ~item[t].resolved
             THEN Posts!Merge(media[t], CHOOSE s \in hints : TRUE, FALSE) ELSE media[t]]
        /\ \/ UNCHANGED <<outbox, acked>>
           \/ outbox' = outbox \ bundle /\ acked' = acked \cup bundle
  BY DEF Posts!Receive
<1>2. UNCHANGED <<disk, cron, condemned>>
  BY DEF Posts!Receive
<1>3. /\ outbox \subseteq Captures /\ acked \subseteq Captures /\ bundle \subseteq Captures
      /\ \A c \in Captures : c[1] \in Posts!Posts /\ c[2] \in Flags
  BY DEF PostInv, ArchiveOK, Posts!Posts, Flags
<1>4. ASSUME NEW t \in Posts!Posts
      PROVE  /\ item[t] \in ItemRow /\ item'[t] \in ItemRow
             /\ item'[t].resolved = item[t].resolved /\ item[t].seen \subseteq item'[t].seen
             /\ \A c \in bundle : c[1] = t => c[2] \in item'[t].seen
  <2>1. item[t] \in ItemRow
    BY DEF PostInv, ArchiveOK
  <2>2. item[t].seen \subseteq Posts!Seen(t, bundle) /\ Posts!Seen(t, bundle) \in SUBSET Flags
    BY <1>3, <2>1 DEF Posts!Seen, ItemRow, Flags
  <2>3. \A c \in bundle : c[1] = t => c[2] \in Posts!Seen(t, bundle)
    BY DEF Posts!Seen
  <2>4. CASE t \in {c[1] : c \in bundle}
    <3>1. item'[t] = [item[t] EXCEPT !.seen = Posts!Seen(t, bundle)]
      BY <1>1, <2>4
    <3>2. /\ item'[t] \in ItemRow /\ item'[t].resolved = item[t].resolved
          /\ item'[t].seen = Posts!Seen(t, bundle)
      BY <2>1, <2>2, <3>1 DEF ItemRow
    <3> QED BY <2>1, <2>2, <2>3, <3>2
  <2>5. CASE t \notin {c[1] : c \in bundle}
    BY <1>1, <2>1, <2>5
  <2> QED BY <2>4, <2>5
<1>5. ASSUME NEW t \in Posts!Posts
      PROVE  /\ media[t] \in MediaRow /\ media'[t] \in MediaRow /\ media'[t].file = media[t].file
             /\ media[t].status = "done" => media'[t] = media[t]
             /\ media[t].status # "done" => media'[t].status # "done"
             /\ media[t].status # "none" => media'[t].status = media[t].status
             /\ \/ media'[t].source = media[t].source /\ media'[t].terminal = media[t].terminal
                \/ /\ media[t].source = Posts!NoUrl /\ ~item[t].resolved
                   /\ media[t].status # "done"
  <2>1. media[t] \in MediaRow
    BY DEF PostInv, ArchiveOK
  <2>2. CASE media'[t] = media[t]
    BY <2>1, <2>2
  <2>3. CASE hints # {} /\ ~item[t].resolved
             /\ media'[t] = Posts!Merge(media[t], CHOOSE s \in hints : TRUE, FALSE)
    <3>1. (CHOOSE s \in hints : TRUE) \in Sources
      BY <2>3 DEF Sources, Posts!Urls
    <3> DEFINE n == Posts!Merge(media[t], CHOOSE s \in hints : TRUE, FALSE)
    <3>2. /\ n \in MediaRow /\ n.file = media[t].file
          /\ media[t].status = "done" => n = media[t]
          /\ media[t].status # "done" => n.status # "done"
          /\ media[t].status # "none" => n.status = media[t].status
          /\ \/ n.source = media[t].source /\ n.terminal = media[t].terminal
             \/ media[t].status # "done" /\ media[t].source = Posts!NoUrl
      BY <2>1, <3>1, Merging
    <3> HIDE DEF n
    <3> QED BY <2>1, <2>3, <3>2 DEF n
  <2> QED BY <1>1, <2>2, <2>3
<1>6. ArchiveOK'
  BY <1>1, <1>2, <1>3, <1>4, <1>5 DEF PostInv, ArchiveOK
<1>7. AckedAreSeen'
  BY <1>1, <1>3, <1>4 DEF PostInv, AckedAreSeen
<1>8. DoneIsOnDisk'
  BY <1>2, <1>5 DEF PostInv, DoneIsOnDisk
<1>9. ASSUME NEW t \in Posts!Posts PROVE CondemnedRests(t)'
  <2>1. CondemnedRests(t)
    BY DEF PostInv
  <2> QED BY <1>2, <1>4, <1>5, <2>1 DEF CondemnedRests
<1>10. HandlerKnows'
  <2>1. InHand' = InHand /\ InHand \subseteq Posts!Posts
    BY <1>2 DEF InHand, PostInv, ArchiveOK, Handling
  <2>2. ASSUME NEW t \in InHand, ToDownload(t)
        PROVE  ToDownload(t)' /\ media'[t].source = media[t].source
    BY <1>4, <1>5, <2>1, <2>2 DEF ToDownload
  <2>3. Posts!At("download") => cron.post \in InHand
    BY DEF Posts!At, InHand
  <2> QED BY <1>2, <1>4, <2>1, <2>2, <2>3 DEF PostInv, HandlerKnows, Posts!At
<1> QED BY <1>6, <1>7, <1>8, <1>9, <1>10 DEF PostInv

(* A post that is looked up was not looked up before, so nothing else than *)
(* its one source was condemned.                                           *)
LEMMA LookupKeeps ==
  ASSUME PostInv, Posts!Lookup
  PROVE  PostInv'
<1>1. /\ UNCHANGED <<outbox, acked, disk, condemned>>
      /\ cron.phase = "resolve" /\ cron.post # 0 /\ Posts!Done
  BY DEF Posts!Lookup, Posts!At
<1>2. PICK t \in Posts!Posts : t = cron.post
  BY <1>1 DEF PostInv, ArchiveOK, Handling
<1>3. ~item[t].resolved /\ item[t] \in ItemRow /\ media[t] \in MediaRow
  BY <1>1, <1>2 DEF PostInv, ArchiveOK, HandlerKnows, InHand
<1>4. \/ UNCHANGED <<item, media>>
      \/ item' = [item EXCEPT ![t].terminal = TRUE] /\ UNCHANGED media
      \/ /\ item' = [item EXCEPT ![t].resolved = TRUE]
         /\ \/ UNCHANGED media
            \/ \E s \in Found : media' = [media EXCEPT ![t] = Posts!Merge(media[t], s, TRUE)]
  BY <1>2 DEF Posts!Lookup, Posts!T
<1>5. /\ \A u \in Posts!Posts \ {t} : item'[u] = item[u] /\ media'[u] = media[u]
      /\ item' = [u \in Posts!Posts |-> item'[u]] /\ media' = [u \in Posts!Posts |-> media'[u]]
  BY <1>4 DEF PostInv, ArchiveOK
<1>6. item'[t] \in ItemRow /\ item'[t].seen = item[t].seen
  <2>1. \/ item'[t] = item[t]
        \/ item'[t] = [item[t] EXCEPT !.terminal = TRUE]
        \/ item'[t] = [item[t] EXCEPT !.resolved = TRUE]
    BY <1>4 DEF PostInv, ArchiveOK
  <2> QED BY <1>3, <2>1 DEF ItemRow
<1>7. /\ media'[t] \in MediaRow /\ media'[t].file = media[t].file
      /\ media[t].status = "done" => media'[t] = media[t]
      /\ media[t].status # "done" => media'[t].status # "done"
      /\ \/ media'[t] = media[t]
         \/ item'[t].resolved
      /\ \/ media'[t].source = media[t].source /\ media'[t].terminal = media[t].terminal
         \/ media'[t].source # media[t].source
  <2>1. CASE UNCHANGED media
    BY <1>3, <2>1
  <2>2. ASSUME NEW s \in Found, item' = [item EXCEPT ![t].resolved = TRUE],
               media' = [media EXCEPT ![t] = Posts!Merge(media[t], s, TRUE)]
        PROVE  <1>7
    <3>1. media'[t] = Posts!Merge(media[t], s, TRUE) /\ s \in Sources
      BY <2>2 DEF PostInv, ArchiveOK, Sources, Posts!Urls
    <3>2. item'[t] = [item[t] EXCEPT !.resolved = TRUE]
      BY <2>2 DEF PostInv, ArchiveOK
    <3>3. item'[t].resolved
      BY <1>3, <3>2 DEF ItemRow
    <3> DEFINE n == Posts!Merge(media[t], s, TRUE)
    <3>4. /\ n \in MediaRow /\ n.file = media[t].file
          /\ media[t].status = "done" => n = media[t]
          /\ media[t].status # "done" => n.status # "done"
          /\ \/ n.source = media[t].source /\ n.terminal = media[t].terminal
             \/ n.source = s /\ s # media[t].source
      <4>1. media[t] \in MediaRow /\ s \in Sources /\ TRUE \in BOOLEAN
        BY <1>3, <3>1
      <4> QED BY <4>1, Merging
    <3> HIDE DEF n
    <3> QED BY <3>1, <3>3, <3>4 DEF n
  <2> QED BY <1>4, <2>1, <2>2
<1>8. ArchiveOK'
  <2>1. cron' \in Handling
    BY <1>1, DoneLeaves
  <2> QED BY <1>1, <1>5, <1>6, <1>7, <2>1 DEF PostInv, ArchiveOK
<1>9. AckedAreSeen'
  <2>1. \A c \in acked : c[1] \in Posts!Posts
    BY DEF PostInv, ArchiveOK, Posts!Posts
  <2> QED BY <1>1, <1>5, <1>6, <2>1 DEF PostInv, AckedAreSeen
<1>10. DoneIsOnDisk'
  BY <1>1, <1>5, <1>7 DEF PostInv, DoneIsOnDisk
<1>11. ASSUME NEW u \in Posts!Posts PROVE CondemnedRests(u)'
  <2>1. CondemnedRests(u)
    BY DEF PostInv
  <2>2. CASE u # t
    BY <1>1, <1>5, <2>1, <2>2 DEF CondemnedRests
  <2>3. CASE u = t
    BY <1>1, <1>3, <1>7, <2>1, <2>3 DEF CondemnedRests
  <2> QED BY <2>2, <2>3
<1>12. HandlerKnows'
  <2>1. /\ cron'.phase = "resolve" /\ ~cron'.saved /\ ~Posts!At("download")'
        /\ cron'.post = 0 /\ InHand' = InHand \ {t}
    BY <1>1, <1>2, DoneLeaves
  <2>2. InHand \subseteq Posts!Posts
    BY DEF InHand, PostInv, ArchiveOK, Handling
  <2> QED BY <1>1, <1>5, <2>1, <2>2 DEF PostInv, HandlerKnows
<1> QED BY <1>8, <1>9, <1>10, <1>11, <1>12 DEF PostInv

-----------------------------------------------------------------------------
(* The download *)

LEMMA Downloading ==
  ASSUME PostInv, Posts!At("download")
  PROVE  /\ cron.post \in Posts!Posts /\ cron.post # 0 /\ cron.phase = "download"
         /\ ToDownload(cron.post) /\ cron.source = media[cron.post].source
         /\ cron.saved => disk[cron.post] = cron.source
BY DEF PostInv, ArchiveOK, Handling, HandlerKnows, InHand, Posts!At

LEMMA SaveFileKeeps ==
  ASSUME PostInv, Posts!SaveFile
  PROVE  PostInv'
<1>1. /\ UNCHANGED <<outbox, acked, item, media, condemned>> /\ Posts!At("download")
      /\ disk' = [disk EXCEPT ![cron.post] = cron.source]
      /\ cron' = [cron EXCEPT !.saved = TRUE]
  BY DEF Posts!SaveFile, Posts!T
<1>2. PICK t \in Posts!Posts : t = cron.post
  BY <1>1, Downloading
<1>3. ToDownload(t) /\ cron \in Handling
  BY <1>1, <1>2, Downloading DEF PostInv, ArchiveOK
<1>4. cron' = [phase |-> cron.phase, todo |-> cron.todo, post |-> cron.post,
               source |-> cron.source, saved |-> TRUE]
  BY <1>1, <1>3 DEF Handling
<1>5. cron' \in Handling
  BY <1>3, <1>4 DEF Handling
<1>6. /\ disk' \in [Posts!Posts -> Sources] /\ disk'[t] = cron.source
      /\ \A u \in Posts!Posts \ {t} : disk'[u] = disk[u]
  BY <1>1, <1>2, <1>3 DEF PostInv, ArchiveOK, Handling
<1>7. ArchiveOK' /\ AckedAreSeen'
  BY <1>1, <1>5, <1>6 DEF PostInv, ArchiveOK, AckedAreSeen
<1>8. DoneIsOnDisk'
  BY <1>1, <1>3, <1>6 DEF PostInv, DoneIsOnDisk, ToDownload
<1>9. ASSUME NEW u \in Posts!Posts PROVE CondemnedRests(u)'
  BY <1>1 DEF PostInv, CondemnedRests
<1>10. HandlerKnows'
  <2>1. InHand' = InHand
    BY <1>4 DEF InHand
  <2> QED BY <1>1, <1>2, <1>4, <1>6, <2>1 DEF PostInv, HandlerKnows, ToDownload, Posts!At
<1> QED BY <1>7, <1>8, <1>9, <1>10 DEF PostInv

(* A row that is settled *)
LEMMA SettledRow ==
  ASSUME PostInv, Posts!At("download"), NEW status \in {"done", "failed"}, NEW b \in BOOLEAN,
         Posts!Settle(status, b)
  PROVE  /\ media' \in [Posts!Posts -> MediaRow]
         /\ \A u \in Posts!Posts \ {cron.post} : media'[u] = media[u]
         /\ media'[cron.post].status = status /\ media'[cron.post].terminal = b
         /\ media'[cron.post].source = media[cron.post].source
         /\ status = "done" => media'[cron.post].file = cron.source
<1>1. PICK t \in Posts!Posts : t = cron.post
  BY Downloading
<1>2. /\ media[t].status # "done" /\ media[t].source = cron.source
      /\ media \in [Posts!Posts -> MediaRow] /\ media[t] \in MediaRow /\ cron.source \in Sources
  BY <1>1, Downloading DEF ToDownload, PostInv, ArchiveOK, Handling
<1> DEFINE f == IF status = "done" THEN cron.source ELSE 0
           n == [media[t] EXCEPT !.status = status, !.terminal = b, !.file = f]
<1>3. media' = [media EXCEPT ![t] = n]
  BY <1>1, <1>2 DEF Posts!Settle, Posts!T
<1>4. f \in Sources /\ (status = "done" => f = cron.source)
  BY <1>2 DEF Sources, Posts!NoUrl
<1> HIDE DEF f
<1>5. n = [[[media[t] EXCEPT !.status = status] EXCEPT !.terminal = b] EXCEPT !.file = f]
  BY <1>2 DEF MediaRow
<1> HIDE DEF n
<1>6. /\ n \in MediaRow /\ n.status = status /\ n.terminal = b
      /\ n.source = media[t].source /\ n.file = f
  BY <1>2, <1>4, <1>5 DEF MediaRow
<1> QED BY <1>1, <1>2, <1>3, <1>4, <1>6

LEMMA SettleFileKeeps ==
  ASSUME PostInv, Posts!SettleFile
  PROVE  PostInv'
<1>1. /\ UNCHANGED <<outbox, acked, item, disk>> /\ Posts!At("download") /\ Posts!Done
  BY DEF Posts!SettleFile
<1>2. PICK t \in Posts!Posts : t = cron.post /\ t # 0
  BY <1>1, Downloading
<1>3. /\ ToDownload(t) /\ cron.source = media[t].source /\ cron.source \in Sources
      /\ cron.saved => disk[t] = cron.source
  BY <1>1, <1>2, Downloading DEF PostInv, ArchiveOK, Handling
<1>4. PICK status \in {"done", "failed"}, b \in BOOLEAN :
        /\ Posts!Settle(status, b)
        /\ status = "done" => cron.saved /\ ~b
        /\ condemned' = IF b THEN [condemned EXCEPT ![t] = condemned[t] \cup {cron.source}]
                        ELSE condemned
  BY <1>1, <1>2 DEF Posts!SettleFile, Posts!T
<1>5. /\ media' \in [Posts!Posts -> MediaRow]
      /\ \A u \in Posts!Posts \ {t} : media'[u] = media[u]
      /\ media'[t].status = status /\ media'[t].terminal = b
      /\ media'[t].source = media[t].source
      /\ status = "done" => media'[t].file = cron.source
  BY <1>1, <1>2, <1>4, SettledRow
<1>6. /\ condemned' \in [Posts!Posts -> SUBSET Sources]
      /\ \A u \in Posts!Posts \ {t} : condemned'[u] = condemned[u]
      /\ condemned'[t] = IF b THEN condemned[t] \cup {media[t].source} ELSE condemned[t]
  BY <1>3, <1>4 DEF PostInv, ArchiveOK
<1>7. /\ cron' \in Handling /\ cron'.phase = "download" /\ cron'.post = 0
      /\ ~Posts!At("download")' /\ ~cron'.saved /\ InHand' = InHand \ {t}
  BY <1>1, <1>2, Downloading, DoneLeaves
<1>8. ArchiveOK' /\ AckedAreSeen'
  BY <1>1, <1>5, <1>6, <1>7 DEF PostInv, ArchiveOK, AckedAreSeen
<1>9. DoneIsOnDisk'
  BY <1>1, <1>3, <1>4, <1>5 DEF PostInv, DoneIsOnDisk
<1>10. ASSUME NEW u \in Posts!Posts PROVE CondemnedRests(u)'
  <2>1. CondemnedRests(u)
    BY DEF PostInv
  <2>2. CASE u # t
    BY <1>1, <1>5, <1>6, <2>1, <2>2 DEF CondemnedRests
  <2>3. CASE u = t
    BY <1>1, <1>3, <1>5, <1>6, <2>1, <2>3 DEF CondemnedRests, ToDownload
  <2> QED BY <2>2, <2>3
<1>11. HandlerKnows'
  <2>1. InHand \subseteq Posts!Posts /\ \A u \in InHand : ToDownload(u)
    BY <1>1, Downloading DEF InHand, PostInv, ArchiveOK, Handling, HandlerKnows
  <2>2. \A u \in InHand' : ToDownload(u)'
    BY <1>1, <1>5, <1>7, <2>1 DEF ToDownload
  <2> QED BY <1>7, <2>2 DEF HandlerKnows
<1> QED BY <1>8, <1>9, <1>10, <1>11 DEF PostInv

-----------------------------------------------------------------------------
LEMMA PostsInit == Posts!Init => PostInv
<1> SUFFICES ASSUME Posts!Init PROVE PostInv
  OBVIOUS
<1>1. /\ ArchiveOK /\ AckedAreSeen /\ DoneIsOnDisk
      /\ \A t \in Posts!Posts : CondemnedRests(t)
  BY DEF Posts!Init, ArchiveOK, AckedAreSeen, DoneIsOnDisk, CondemnedRests, ItemRow, MediaRow,
         Handling, Sources, Posts!NoMedia, Posts!Off, Posts!NoUrl
<1>2. HandlerKnows
  BY DEF Posts!Init, HandlerKnows, InHand, Posts!Off, Posts!At
<1> QED BY <1>1, <1>2 DEF PostInv

LEMMA PostsStep ==
  ASSUME PostInv, [Posts!Next]_(Posts!vars)
  PROVE  PostInv'
<1>1. CASE \E c \in Captures : Posts!Capture(c)
  BY <1>1, CaptureKeeps
<1>2. CASE Posts!Receive
  BY <1>2, ReceiveKeeps
<1>3. CASE Posts!Handler
  BY <1>3, CronTickKeeps, NextPhaseKeeps, TakeKeeps, LookupKeeps, SettleFileKeeps, EnrichKeeps
     DEF Posts!Handler
<1>4. CASE Posts!SaveFile
  BY <1>4, SaveFileKeeps
<1>5. CASE Posts!Crash
  <2>1. UNCHANGED <<outbox, acked, item, media, disk, condemned>> /\ cron' = Posts!Off
    BY <1>5 DEF Posts!Crash
  <2> QED BY <2>1, HandlerOff
<1>6. CASE UNCHANGED (Posts!vars)
  <2>1. UNCHANGED <<outbox, acked, item, media, disk, condemned, cron>>
    BY <1>6 DEF Posts!vars
  <2>2. outbox' \subseteq Captures /\ cron' \in Handling
    BY <2>1 DEF PostInv, ArchiveOK
  <2>3. HandlerKnows'
    BY <2>1 DEF PostInv, HandlerKnows, InHand, ToDownload, Posts!At
  <2> QED BY <2>1, <2>2, <2>3, ArchiveStays
<1> QED BY <1>1, <1>2, <1>3, <1>4, <1>5, <1>6 DEF Posts!Next

(* What the archive of saved posts says is so: an acknowledged capture has *)
(* its flag, a file that is done is the download of the source beside it,  *)
(* and a source that failed for good is never fetched again, whatever      *)
(* hints, lookups, crashes and retries come between                        *)
(* (integrations/x-saved/store.ts, cron/jobs/x-saved-media-download.ts).   *)
THEOREM ArchiveSaysWhatIsSo == Spec => []ArchiveTruthful
<1>1. Posts!Init => PostInv
  BY PostsInit
<1>2. PostInv /\ [Posts!Next]_(Posts!vars) => PostInv'
  BY PostsStep
<1>3. PostInv => ArchiveTruthful
  BY PostsTruthful
<1>4. Posts!Spec => []ArchiveTruthful
  BY <1>1, <1>2, <1>3, PTL DEF Posts!Spec
<1> QED BY <1>4, PostsPart, PTL

-----------------------------------------------------------------------------
(* Pictures of a screen *)

Stages == {"idle", "batch", "check", "describe", "days", "report"}
Consumer == [at : Stages, signaled : BOOLEAN, ids : SUBSET Pictures, date : Nat]
JobStates == {"none", "active", "completed", "dead_letter"}
Digest == [ids : SUBSET Pictures, status : JobStates]

(* The days of what was ever in a batch are known. *)
Known(S) == \A c \in S : Day[c] \in days

CallbacksOK ==
  \A call \in callbacks :
    \/ \E ids \in SUBSET Pictures : Known(ids) /\ call = <<"batch", ids>>
    \/ \E d \in Screen!Days : report[d] = "completed" /\ call = <<"report", {d}>>

PicturesOK ==
  /\ shot \in [Pictures -> {"none", "pending", "described", "accepted", "rejected"}]
  /\ days \subseteq Screen!Days /\ watermark \in Nat /\ late \subseteq Pictures
  /\ report \in [Screen!Days -> JobStates]
  /\ digest \in Digest /\ consumer \in Consumer /\ failed \in BOOLEAN
  /\ Known({c \in Pictures : shot[c] # "none"}) /\ Known(consumer.ids) /\ Known(digest.ids)
  /\ CallbacksOK

(* Whoever leaves a full batch has been told to look again, or failed. *)
Restless ==
  /\ consumer.at = "idle" => ~consumer.signaled
  /\ consumer.at = "describe" /\ ~consumer.signaled => consumer.ids \subseteq Screen!Pending
  /\ /\ consumer.at \in {"days", "report", "idle"} /\ ~consumer.signaled /\ ~failed
     /\ digest.status # "active" /\ callbacks = {}
     => Screen!Cardinality(Screen!Pending) < FullBatch

AllLate(d) == \A c \in Pictures : Day[c] = d /\ shot[c] # "none" => c \in late

WholeReports ==
  \A d \in Screen!Days : report[d] # "none" => Screen!Pending \cap Screen!Through(d) \subseteq late

NonePassed ==
  \A d \in days : d <= watermark => report[d] = "completed" \/ AllLate(d)

(* What a report passes over is behind the watermark or came late. *)
ReportsInOrder ==
  \A e \in Screen!Days : report[e] # "none" =>
    \A d \in days : d < e => d <= watermark \/ AllLate(d)

(* A day that came to light while a report is prepared holds it back. *)
HoldsBack(c) ==
  /\ c \in Screen!Pending /\ c \notin digest.ids
  /\ \A call \in callbacks : call[1] = "batch" => c \notin call[2]

Preparing ==
  consumer.at = "report" =>
    /\ consumer.date \in days /\ report[consumer.date] \in {"none", "dead_letter"}
    /\ \A d \in days : d < consumer.date =>
         d <= watermark \/ \E c \in Pictures : Day[c] = d /\ HoldsBack(c)

ScreenInv ==
  /\ PicturesOK /\ Restless
  /\ WholeReports /\ NonePassed /\ ReportsInOrder /\ Preparing

(* A finite set of numbers that is not empty has a greatest one: the one   *)
(* that has the fewest above it.                                           *)
LEMMA Greatest ==
  ASSUME NEW S \in SUBSET Nat, IsFiniteSet(S), S # {}
  PROVE  \E n \in S : \A m \in S : m <= n
<1> DEFINE Above(n) == {m \in S : n < m}
           Counts == {Cardinality(Above(n)) : n \in S}
<1>1. \A n \in S : IsFiniteSet(Above(n)) /\ Cardinality(Above(n)) \in Nat
  BY FS_Subset, FS_CardinalityType
<1>2. Counts \in SUBSET Nat /\ Counts # {}
  BY <1>1
<1>3. \E k \in Counts : \A l \in Counts : k <= l
  <2> HIDE DEF Counts
  <2> QED BY <1>2, Smallest
<1>4. PICK n \in S : \A m \in S : Cardinality(Above(n)) <= Cardinality(Above(m))
  BY <1>3
<1>5. ASSUME NEW m \in S, n < m PROVE FALSE
  <2>0. \A k \in S : k \in Nat
    OBVIOUS
  <2>8. \A k \in S : m < k => n < k
    BY <1>5, <2>0
  <2>9. ~(m < m)
    BY <2>0
  <2>1. Above(m) \subseteq Above(n) /\ m \in Above(n) /\ m \notin Above(m)
    BY <1>5, <2>8, <2>9
  <2> HIDE DEF Above
  <2>2. Cardinality(Above(m)) <= Cardinality(Above(n))
    BY <1>1, <2>1, FS_Subset
  <2>3. Cardinality(Above(m)) = Cardinality(Above(n))
    BY <1>1, <1>4, <2>2
  <2>4. Above(m) = Above(n)
    BY <1>1, <2>1, <2>3, FS_Subset
  <2> QED BY <2>1, <2>4
<1>6. ASSUME NEW m \in S PROVE m <= n
  <2>1. m \in Nat /\ n \in Nat /\ ~(n < m)
    BY <1>5
  <2> QED BY <2>1
<1> QED BY <1>6

LEMMA LastDay ==
  ASSUME NEW S \in SUBSET Nat, IsFiniteSet(S), S # {}
  PROVE  Screen!Max(S) \in S /\ \A d \in S : d <= Screen!Max(S)
<1>1. PICK n \in S : \A m \in S : m <= n
  BY Greatest
<1>2. n \in S /\ \A m \in S : n >= m
  BY <1>1
<1>3. Screen!Max(S) \in S /\ \A d \in S : Screen!Max(S) >= d
  BY <1>2 DEF Screen!Max
<1> QED BY <1>3

LEMMA FirstDay ==
  ASSUME NEW S \in SUBSET Nat, S # {}
  PROVE  Screen!Min(S) \in S /\ \A d \in S : Screen!Min(S) <= d
<1>1. \E n \in S : \A m \in S : n <= m
  BY Smallest
<1> QED BY <1>1 DEF Screen!Min

(* The days of the pictures are finitely many numbers. *)
LEMMA DaysFinite == IsFiniteSet(Screen!Days) /\ Screen!Days \subseteq Nat
<1>1. IsFiniteSet({Day[c] : c \in Pictures})
  <2> DEFINE f == [c \in Pictures |-> Day[c]]
             T == {Day[c] : c \in Pictures}
  <2>1. f \in Surjection(Pictures, T)
    BY DEF Surjection
  <2> HIDE DEF f, T
  <2>2. IsFiniteSet(T)
    BY <2>1, StoresAssumption, FS_Surjection
  <2> QED BY <2>2 DEF T
<1> QED BY <1>1, StoresAssumption DEF Screen!Days

LEMMA ScreenTruthful ==
  ScreenInv => Screen!NoBatchForgotten /\ Screen!DaysReported
<1> SUFFICES ASSUME ScreenInv PROVE Screen!NoBatchForgotten /\ Screen!DaysReported
  OBVIOUS
<1>1. Screen!NoBatchForgotten
  BY DEF ScreenInv, Restless, Screen!NoBatchForgotten
<1>2. Screen!DaysReported
  BY DEF ScreenInv, WholeReports, NonePassed, AllLate, Screen!DaysReported
<1> QED BY <1>1, <1>2

-----------------------------------------------------------------------------
(* What a step leaves of the invariant *)

(* Pictures are only completed, and rows only collected. *)
Proceeds ==
  \A c \in Pictures : /\ shot[c] = "none" => shot'[c] = "none"
                      /\ c \in Screen!Pending' => c \in Screen!Pending

LEMMA ReportsStay ==
  ASSUME ScreenInv, Proceeds, UNCHANGED <<days, watermark, report, late>>
  PROVE  WholeReports' /\ NonePassed' /\ ReportsInOrder'
<1>1. \A d \in Screen!Days : AllLate(d) => AllLate(d)'
  BY DEF AllLate, Proceeds
<1>2. days \subseteq Screen!Days
  BY DEF ScreenInv, PicturesOK
<1>3. WholeReports'
  <2>1. ASSUME NEW d \in Screen!Days, NEW c \in Screen!Pending' \cap Screen!Through(d)
        PROVE  c \in Screen!Pending \cap Screen!Through(d)
    BY DEF Proceeds, Screen!Through
  <2>2. ASSUME NEW d \in Screen!Days, report[d] # "none"
        PROVE  Screen!Pending' \cap Screen!Through(d) \subseteq late
    BY <2>1, <2>2 DEF ScreenInv, WholeReports
  <2> QED BY <2>2 DEF WholeReports, Screen!Through
<1>4. NonePassed'
  BY <1>1, <1>2 DEF ScreenInv, NonePassed
<1>5. ReportsInOrder'
  BY <1>1, <1>2 DEF ScreenInv, ReportsInOrder
<1> QED BY <1>3, <1>4, <1>5

LEMMA StillPreparing ==
  ASSUME ScreenInv, UNCHANGED <<days, report>>, watermark <= watermark', watermark' \in Nat,
         consumer'.at = "report" => consumer.at = "report" /\ consumer'.date = consumer.date,
         \A c \in Pictures : HoldsBack(c) => HoldsBack(c)'
  PROVE  Preparing'
<1> SUFFICES ASSUME consumer'.at = "report" PROVE Preparing'
  BY DEF Preparing
<1>1. /\ consumer.date \in days /\ report[consumer.date] \in {"none", "dead_letter"}
      /\ \A d \in days : d < consumer.date =>
           d <= watermark \/ \E c \in Pictures : Day[c] = d /\ HoldsBack(c)
  BY DEF ScreenInv, Preparing
<1>2. \A d \in days : d \in Nat
  BY DaysFinite DEF ScreenInv, PicturesOK
<1>3. \A d \in days : d <= watermark => d <= watermark'
  BY <1>2 DEF ScreenInv, PicturesOK
<1> QED BY <1>1, <1>3 DEF Preparing

LEMMA WakeFields ==
  ASSUME consumer \in Consumer, Screen!Wake
  PROVE  /\ consumer' \in Consumer
         /\ consumer.at = "idle" => consumer'.at = "batch" /\ consumer'.ids = {}
         /\ consumer.at # "idle" => /\ consumer'.at = consumer.at /\ consumer'.signaled
                                    /\ consumer'.ids = consumer.ids
                                    /\ consumer'.date = consumer.date
<1>1. CASE consumer.at = "idle"
  <2>1. consumer' = [at |-> "batch", signaled |-> FALSE, ids |-> {}, date |-> 0]
    BY <1>1 DEF Screen!Wake, Screen!Awake
  <2> QED BY <1>1, <2>1 DEF Consumer, Stages
<1>2. CASE consumer.at # "idle"
  <2>1. consumer' = [consumer EXCEPT !.signaled = TRUE]
    BY <1>2 DEF Screen!Wake
  <2> QED BY <1>2, <2>1 DEF Consumer
<1> QED BY <1>1, <1>2

(* A consumer that was told to look again is restless whatever is pending. *)
LEMMA WakeRestless ==
  ASSUME consumer \in Consumer, Screen!Wake
  PROVE  Restless'
BY WakeFields DEF Restless

LEMMA RoundFields ==
  ASSUME consumer \in Consumer, Screen!Round, failed \in BOOLEAN
  PROVE  /\ consumer' \in Consumer /\ consumer'.ids = {} /\ ~consumer'.signaled
         /\ failed' \in BOOLEAN
         /\ consumer.signaled => consumer'.at = "batch"
         /\ ~consumer.signaled => consumer'.at = "idle" /\ failed' = failed
<1>0. failed' = (failed /\ ~consumer.signaled)
  BY DEF Screen!Round
<1>1. CASE consumer.signaled
  <2>1. consumer' = [at |-> "batch", signaled |-> FALSE, ids |-> {}, date |-> 0]
    BY <1>1 DEF Screen!Round, Screen!Awake
  <2>2. failed' \in BOOLEAN
    BY <1>0, <1>1
  <2> QED BY <1>1, <2>1, <2>2 DEF Consumer, Stages
<1>2. CASE ~consumer.signaled
  <2>1. consumer' = [at |-> "idle", signaled |-> FALSE, ids |-> {}, date |-> 0]
    BY <1>2 DEF Screen!Round, Screen!Awake
  <2>2. failed' = failed
    BY Zenon, <1>0, <1>2
  <2> QED BY <1>2, <2>1, <2>2 DEF Consumer, Stages
<1> QED BY <1>1, <1>2 DEF Consumer

(* Callbacks that are not new stay right. *)
LEMMA CallbacksStay ==
  ASSUME CallbacksOK, callbacks' \subseteq callbacks, days \subseteq days',
         \A d \in Screen!Days : report[d] = "completed" => report'[d] = "completed"
  PROVE  CallbacksOK'
BY DEF CallbacksOK, Known

LEMMA ScreenRests ==
  ASSUME ScreenInv, UNCHANGED <<shot, days, watermark, digest, report, callbacks, consumer,
                                failed, late>>
  PROVE  ScreenInv'
<1>1. PicturesOK'
  BY CallbacksStay DEF ScreenInv, PicturesOK, Known
<1>2. Screen!Pending' = Screen!Pending
  BY DEF Screen!Pending
<1>3. Restless' /\ Preparing'
  BY <1>2 DEF ScreenInv, Restless, Preparing, HoldsBack
<1>4. WholeReports' /\ NonePassed' /\ ReportsInOrder'
  BY <1>2, ReportsStay DEF Proceeds
<1> QED BY <1>1, <1>3, <1>4 DEF ScreenInv

-----------------------------------------------------------------------------
(* The sender and the receiver *)

LEMMA SendKeeps ==
  ASSUME ScreenInv, NEW c \in Pictures, Screen!Send(c)
  PROVE  ScreenInv'
<1>1. CASE shot[c] # "none"
  BY <1>1, ScreenRests DEF Screen!Send
<1>2. CASE shot[c] = "none"
  <2>1. /\ shot' = [shot EXCEPT ![c] = "pending"] /\ days' = days \cup {Day[c]}
        /\ Screen!Wake /\ Screen!Excuse
        /\ UNCHANGED <<watermark, digest, report, callbacks>>
    BY <1>2 DEF Screen!Send
  <2>2. late' = IF Day[c] <= watermark \/ \E d \in Screen!Days : d >= Day[c] /\ report[d] # "none"
                THEN late \cup {c} ELSE late \ {c}
    BY <1>2 DEF Screen!Send
  <2>3. PicturesOK
    BY DEF ScreenInv
  <2>4. /\ shot' \in [Pictures -> {"none", "pending", "described", "accepted", "rejected"}]
        /\ shot'[c] = "pending" /\ \A b \in Pictures \ {c} : shot'[b] = shot[b]
    BY <2>1, <2>3 DEF PicturesOK
  <2>5. /\ Screen!Pending' = Screen!Pending \cup {c} /\ c \notin Screen!Pending
    BY <1>2, <2>4 DEF Screen!Pending
  <2>6. /\ Day[c] \in Screen!Days /\ Screen!Days \subseteq Nat /\ watermark \in Nat
        /\ days \subseteq Screen!Days /\ days' \subseteq Screen!Days
    BY <2>1, <2>3, DaysFinite DEF PicturesOK, Screen!Days
  <2>7. /\ late' \subseteq Pictures /\ late \subseteq Pictures
        /\ \A b \in Pictures \ {c} : b \in late' <=> b \in late
        /\ Day[c] <= watermark => c \in late'
        /\ \A d \in Screen!Days : Day[c] <= d /\ report[d] # "none" => c \in late'
    BY <2>2, <2>3, <2>6 DEF PicturesOK
  <2>8. PicturesOK'
    <3>1. consumer' \in Consumer /\ (consumer'.ids = consumer.ids \/ consumer'.ids = {})
      BY <2>1, <2>3, WakeFields DEF PicturesOK
    <3>2. failed' \in BOOLEAN
      BY <2>1 DEF Screen!Excuse
    <3>3. CallbacksOK'
      BY <2>1, <2>3, CallbacksStay DEF PicturesOK
    <3>4. (/\ Known({b \in Pictures : shot[b] # "none"})
           /\ Known(consumer.ids) /\ Known(digest.ids))'
      BY <2>1, <2>3, <2>4, <3>1 DEF PicturesOK, Known
    <3> QED BY <2>1, <2>3, <2>4, <2>6, <2>7, <3>1, <3>2, <3>3, <3>4 DEF PicturesOK
  <2>9. Restless'
    BY <2>1, <2>3, WakeRestless DEF PicturesOK
  <2>10. ASSUME NEW d \in Screen!Days, d # Day[c], AllLate(d)
         PROVE  AllLate(d)'
    BY <2>4, <2>7, <2>10 DEF AllLate
  <2>11. ASSUME c \in late', Day[c] \notin days \/ AllLate(Day[c])
         PROVE  AllLate(Day[c])'
    <3>1. ASSUME NEW b \in Pictures, Day[b] = Day[c], shot'[b] # "none", b # c
          PROVE  b \in late
      BY <2>3, <2>4, <2>11, <3>1 DEF AllLate, PicturesOK, Known
    <3> QED BY <2>7, <2>11, <3>1 DEF AllLate
  <2>12. WholeReports'
    <3> SUFFICES ASSUME NEW d \in Screen!Days, report[d] # "none",
                        NEW b \in Screen!Pending', Day[b] <= d
                 PROVE  b \in late'
      BY <2>1 DEF WholeReports, Screen!Through
    <3>1. b \in Pictures
      BY DEF Screen!Pending
    <3>2. CASE b = c
      BY <2>7, <3>2
    <3>3. CASE b # c
      BY <2>5, <2>7, <3>1, <3>3 DEF ScreenInv, WholeReports, Screen!Through
    <3> QED BY <3>2, <3>3
  <2>13. NonePassed'
    <3> SUFFICES ASSUME NEW d \in days', d <= watermark
                 PROVE  report[d] = "completed" \/ AllLate(d)'
      BY <2>1 DEF NonePassed
    <3>1. CASE d # Day[c]
      <4>1. d \in days /\ d \in Screen!Days
        BY <2>1, <2>6, <3>1
      <4> QED BY <2>10, <3>1, <4>1 DEF ScreenInv, NonePassed
    <3>2. CASE d = Day[c]
      BY <2>7, <2>11, <3>2 DEF ScreenInv, NonePassed
    <3> QED BY <3>1, <3>2
  <2>14. ReportsInOrder'
    <3> SUFFICES ASSUME NEW e \in Screen!Days, report[e] # "none", NEW d \in days', d < e
                 PROVE  d <= watermark \/ AllLate(d)'
      BY <2>1 DEF ReportsInOrder
    <3>1. CASE d # Day[c]
      <4>1. d \in days /\ d \in Screen!Days
        BY <2>1, <2>6, <3>1
      <4> QED BY <2>10, <3>1, <4>1 DEF ScreenInv, ReportsInOrder
    <3>2. CASE d = Day[c]
      <4>1. c \in late'
        BY <2>6, <2>7, <3>2
      <4> QED BY <2>11, <3>2, <4>1 DEF ScreenInv, ReportsInOrder
    <3> QED BY <3>1, <3>2
  <2>15. Preparing'
    <3> SUFFICES ASSUME consumer'.at = "report" PROVE Preparing'
      BY DEF Preparing
    <3>1. consumer.at = "report" /\ consumer'.date = consumer.date
      BY <2>1, <2>3, WakeFields DEF PicturesOK
    <3>2. consumer.date \in days /\ report[consumer.date] \in {"none", "dead_letter"}
      BY <3>1 DEF ScreenInv, Preparing
    <3>3. ASSUME NEW b \in Pictures, HoldsBack(b) PROVE HoldsBack(b)'
      BY <2>1, <2>5, <3>3 DEF HoldsBack
    <3>4. ASSUME NEW d \in days', d < consumer.date
          PROVE  d <= watermark \/ \E b \in Pictures : Day[b] = d /\ HoldsBack(b)'
      <4>1. CASE d \in days
        BY <3>1, <3>3, <3>4, <4>1 DEF ScreenInv, Preparing
      <4>2. CASE d \notin days
        <5>1. d = Day[c]
          BY <2>1, <4>2
        <5>2. c \notin digest.ids
          BY <2>3, <4>2, <5>1 DEF PicturesOK, Known
        <5>3. \A call \in callbacks : call[1] = "batch" => c \notin call[2]
          BY <2>3, <4>2, <5>1 DEF PicturesOK, CallbacksOK, Known
        <5>4. HoldsBack(c)'
          BY <2>1, <2>5, <5>2, <5>3 DEF HoldsBack
        <5> QED BY <5>1, <5>4
      <4> QED BY <4>1, <4>2
    <3> QED BY <2>1, <3>1, <3>2, <3>4 DEF Preparing
  <2> QED BY <2>8, <2>9, <2>12, <2>13, <2>14, <2>15 DEF ScreenInv
<1> QED BY <1>1, <1>2

(* A step that reports nothing, and only completes or collects pictures *)
LEMMA ScreenProceeds ==
  ASSUME ScreenInv, Proceeds, UNCHANGED <<days, watermark, report, late>>,
         shot' \in [Pictures -> {"none", "pending", "described", "accepted", "rejected"}],
         digest' \in Digest, consumer' \in Consumer, failed' \in BOOLEAN,
         Known(consumer'.ids), Known(digest'.ids), CallbacksOK', Restless', Preparing'
  PROVE  ScreenInv'
<1>1. Known({c \in Pictures : shot[c] # "none"})' /\ Known(consumer.ids)' /\ Known(digest.ids)'
  BY DEF ScreenInv, PicturesOK, Known, Proceeds
<1>2. PicturesOK'
  BY <1>1 DEF ScreenInv, PicturesOK
<1>3. WholeReports' /\ NonePassed' /\ ReportsInOrder'
  BY ReportsStay
<1> QED BY <1>2, <1>3 DEF ScreenInv

LEMMA CollectKeeps ==
  ASSUME ScreenInv, NEW c \in Pictures, Screen!Collect(c)
  PROVE  ScreenInv'
<1>1. /\ shot[c] \in {"accepted", "rejected"} /\ shot' = [shot EXCEPT ![c] = "none"]
      /\ UNCHANGED <<days, watermark, digest, report, callbacks, consumer, failed, late>>
  BY DEF Screen!Collect
<1>2. PicturesOK
  BY DEF ScreenInv
<1>3. /\ shot' \in [Pictures -> {"none", "pending", "described", "accepted", "rejected"}]
      /\ \A b \in Pictures : shot'[b] = IF b = c THEN "none" ELSE shot[b]
  BY <1>1, <1>2 DEF PicturesOK
<1>4. Screen!Pending' = Screen!Pending /\ Proceeds
  BY <1>1, <1>3 DEF Screen!Pending, Proceeds
<1>5. CallbacksOK'
  BY <1>1, <1>2, CallbacksStay DEF PicturesOK
<1>6. Restless' /\ Preparing'
  BY <1>1, <1>4 DEF ScreenInv, Restless, Preparing, HoldsBack
<1> QED BY <1>1, <1>2, <1>3, <1>4, <1>5, <1>6, ScreenProceeds DEF PicturesOK

-----------------------------------------------------------------------------
(* Batches *)

LEMMA SelectKeeps ==
  ASSUME ScreenInv, Screen!Select
  PROVE  ScreenInv'
<1>1. UNCHANGED <<shot, days, watermark, digest, report, callbacks, failed, late>>
  BY DEF Screen!Select
<1>2. PicturesOK
  BY DEF ScreenInv
<1>3. Screen!Pending' = Screen!Pending /\ Proceeds
  BY <1>1 DEF Screen!Pending, Proceeds
<1>4. CallbacksOK'
  BY <1>1, <1>2, CallbacksStay DEF PicturesOK
<1>5. /\ consumer' \in Consumer /\ Known(consumer'.ids) /\ consumer'.at \in {"days", "check"}
      /\ consumer'.at = "days" =>
           digest.status = "active" \/ Screen!Cardinality(Screen!Pending) < FullBatch
  <2>1. CASE digest.status = "active" \/ Screen!Cardinality(Screen!Pending) < FullBatch
    <3>1. consumer' = [consumer EXCEPT !.at = "days"]
      BY <2>1 DEF Screen!Select
    <3> QED BY <1>2, <2>1, <3>1 DEF PicturesOK, Consumer, Stages
  <2>2. CASE ~(digest.status = "active" \/ Screen!Cardinality(Screen!Pending) < FullBatch)
    <3>1. consumer' = [[consumer EXCEPT !.at = "check"] EXCEPT !.ids = Screen!Oldest]
      BY <1>2, <2>2 DEF Screen!Select, PicturesOK, Consumer
    <3>2. Screen!Oldest \in SUBSET Pictures /\ Known(Screen!Oldest)
      BY <1>2 DEF Screen!Oldest, Screen!Pending, PicturesOK, Known
    <3> QED BY <1>2, <3>1, <3>2 DEF PicturesOK, Consumer, Stages
  <2> QED BY <2>1, <2>2
<1>6. Restless' /\ Preparing'
  BY <1>1, <1>3, <1>5 DEF Restless, Preparing
<1> QED BY <1>1, <1>2, <1>3, <1>4, <1>5, <1>6, ScreenProceeds DEF PicturesOK

(* Some pictures of the batch are rejected. *)
LEMMA RejectKeeps ==
  ASSUME ScreenInv, NEW S \in SUBSET Screen!Pending,
         shot' = [c \in Pictures |-> IF c \in S THEN "rejected" ELSE shot[c]],
         UNCHANGED <<days, watermark, digest, report, callbacks, late>>,
         failed' \in BOOLEAN, NEW p \in {"describe", "batch", "days"},
         consumer' = [consumer EXCEPT !.at = p],
         p = "describe" => S = {} /\ consumer.ids \subseteq Screen!Pending,
         p = "days" => failed'
  PROVE  ScreenInv'
<1>1. PicturesOK
  BY DEF ScreenInv
<1>2. /\ shot' \in [Pictures -> {"none", "pending", "described", "accepted", "rejected"}]
      /\ Proceeds /\ (S = {} => Screen!Pending' = Screen!Pending)
  BY <1>1 DEF PicturesOK, Screen!Pending, Proceeds
<1>3. /\ consumer' \in Consumer /\ consumer'.at = p /\ consumer'.ids = consumer.ids
  BY <1>1 DEF PicturesOK, Consumer, Stages
<1>4. CallbacksOK'
  BY <1>1, CallbacksStay DEF PicturesOK
<1>5. Restless' /\ Preparing'
  BY <1>2, <1>3 DEF Restless, Preparing
<1> QED BY <1>1, <1>2, <1>3, <1>4, <1>5, ScreenProceeds DEF PicturesOK

LEMMA CheckKeeps ==
  ASSUME ScreenInv, Screen!Check
  PROVE  ScreenInv'
<1>1. /\ UNCHANGED <<days, watermark, digest, report, callbacks, late>> /\ failed \in BOOLEAN
  BY DEF Screen!Check, ScreenInv, PicturesOK
<1>2. CASE /\ consumer.ids \subseteq Screen!Pending
           /\ shot' = [c \in Pictures |->
                         IF c \in consumer.ids \cap Broken THEN "rejected" ELSE shot[c]]
           /\ consumer' = [consumer EXCEPT
                !.at = IF consumer.ids \cap Broken = {} THEN "describe" ELSE "batch"]
           /\ UNCHANGED failed
  <2>1. consumer.ids \cap Broken \in SUBSET Screen!Pending
    BY <1>2
  <2>2. CASE consumer.ids \cap Broken = {}
    <3>1. consumer' = [consumer EXCEPT !.at = "describe"]
      BY <1>2, <2>2
    <3> QED BY <1>1, <1>2, <2>1, <2>2, <3>1, RejectKeeps
  <2>3. CASE consumer.ids \cap Broken # {}
    <3>1. consumer' = [consumer EXCEPT !.at = "batch"]
      BY <1>2, <2>3
    <3> QED BY <1>1, <1>2, <2>1, <3>1, RejectKeeps
  <2> QED BY <2>2, <2>3
<1>3. ASSUME NEW n \in consumer.ids,
             shot' = [c \in Pictures |->
               IF c \in consumer.ids \cap Broken \cap Screen!Pending /\ c < n
               THEN "rejected" ELSE shot[c]],
             consumer' = [consumer EXCEPT !.at = "days"], failed' = TRUE
      PROVE  ScreenInv'
  <2> DEFINE S == {c \in consumer.ids \cap Broken \cap Screen!Pending : c < n}
  <2>1. /\ S \in SUBSET Screen!Pending
        /\ shot' = [c \in Pictures |-> IF c \in S THEN "rejected" ELSE shot[c]]
    BY <1>3
  <2> HIDE DEF S
  <2>2. failed' \in BOOLEAN
    BY <1>3
  <2> QED BY <1>1, <1>3, <2>1, <2>2, RejectKeeps
<1> QED BY <1>2, <1>3 DEF Screen!Check

LEMMA DescribeKeeps ==
  ASSUME ScreenInv, Screen!Describe
  PROVE  ScreenInv'
<1> DEFINE missing == {c \in consumer.ids : shot[c] = "pending"}
<1>1. /\ UNCHANGED <<days, watermark, report, callbacks, late>> /\ consumer.at = "describe"
      /\ consumer' = [consumer EXCEPT !.at = "days"]
  BY DEF Screen!Describe
<1>2. PICK ok \in SUBSET missing :
        /\ shot' = [c \in Pictures |-> IF c \in ok THEN "described" ELSE shot[c]]
        /\ ok = missing \/ failed' = TRUE
        /\ ok = missing => failed' = failed
        /\ digest' = IF \A c \in consumer.ids : shot'[c] = "described"
                     THEN [ids |-> consumer.ids, status |-> "active"] ELSE digest
  BY DEF Screen!Describe
<1>3. PicturesOK
  BY DEF ScreenInv
<1>4. /\ shot' \in [Pictures -> {"none", "pending", "described", "accepted", "rejected"}]
      /\ \A c \in Pictures : shot'[c] = IF c \in ok THEN "described" ELSE shot[c]
      /\ \A c \in ok : c \in consumer.ids /\ shot[c] = "pending"
  BY <1>2, <1>3 DEF PicturesOK
<1>5. Screen!Pending' = Screen!Pending /\ Proceeds
  BY <1>4 DEF Screen!Pending, Proceeds
<1>6. /\ consumer' \in Consumer /\ consumer'.at = "days" /\ consumer'.ids = consumer.ids
      /\ consumer'.signaled = consumer.signaled /\ consumer.ids \subseteq Pictures
  BY <1>1, <1>3 DEF PicturesOK, Consumer, Stages
<1>7. digest' \in Digest /\ Known(digest'.ids) /\ failed' \in BOOLEAN
  <2>1. failed' \in BOOLEAN
    BY <1>2, <1>3 DEF PicturesOK
  <2> QED BY <1>2, <1>3, <1>6, <2>1 DEF PicturesOK, Digest, JobStates
<1>8. CallbacksOK'
  BY <1>1, <1>3, CallbacksStay DEF PicturesOK
<1>9. ASSUME ~consumer.signaled, ok = missing PROVE digest'.status = "active"
  <2>1. consumer.ids \subseteq Screen!Pending
    BY <1>1, <1>9 DEF ScreenInv, Restless
  <2>2. \A c \in consumer.ids : shot'[c] = "described"
    BY <1>4, <1>6, <1>9, <2>1 DEF Screen!Pending
  <2> QED BY <1>2, <2>2
<1>10. Restless' /\ Preparing'
  <2> HIDE DEF missing
  <2>1. ~consumer'.signaled /\ ~failed' => digest'.status = "active"
    BY <1>2, <1>6, <1>9
  <2> QED BY <1>6, <2>1 DEF Restless, Preparing
<1> QED BY <1>1, <1>3, <1>4, <1>5, <1>6, <1>7, <1>8, <1>10, ScreenProceeds DEF PicturesOK

LEMMA BatchEndsKeeps ==
  ASSUME ScreenInv, NEW s \in {"completed", "dead_letter"}, Screen!BatchEnds(s)
  PROVE  ScreenInv'
<1>1. /\ digest.status = "active" /\ digest' = [digest EXCEPT !.status = s]
      /\ callbacks' = IF s = "completed" THEN callbacks \cup {<<"batch", digest.ids>>}
                      ELSE callbacks
      /\ failed' = (failed \/ s # "completed")
      /\ UNCHANGED <<shot, days, watermark, report, consumer, late>>
  BY DEF Screen!BatchEnds
<1>2. PicturesOK
  BY DEF ScreenInv
<1>3. Screen!Pending' = Screen!Pending /\ Proceeds
  BY <1>1 DEF Screen!Pending, Proceeds
<1>4. digest' \in Digest /\ digest'.ids = digest.ids
  BY <1>1, <1>2 DEF PicturesOK, Digest, JobStates
<1>5. CallbacksOK'
  BY <1>1, <1>2 DEF PicturesOK, Digest, CallbacksOK, Known
<1>6. failed' \in BOOLEAN /\ (s # "completed" => failed') /\ (s = "completed" => callbacks' # {})
  BY <1>1
<1>7. Restless'
  BY <1>1, <1>3, <1>6 DEF ScreenInv, Restless
<1>8. ASSUME NEW c \in Pictures, HoldsBack(c) PROVE HoldsBack(c)'
  <2>1. \A call \in callbacks' : call \in callbacks \/ call[2] = digest.ids
    BY <1>1
  <2> QED BY <1>3, <1>4, <1>8, <2>1 DEF HoldsBack
<1>9. Preparing'
  BY <1>1, <1>3, <1>4, <1>8 DEF ScreenInv, Preparing
<1> QED BY <1>1, <1>2, <1>3, <1>4, <1>5, <1>6, <1>7, <1>9, ScreenProceeds DEF PicturesOK

LEMMA ScreenCrashKeeps ==
  ASSUME ScreenInv, Screen!Crash
  PROVE  ScreenInv'
<1>1. /\ callbacks' = {} /\ failed' = FALSE
      /\ consumer' = [at |-> "batch", signaled |-> FALSE, ids |-> {}, date |-> 0]
      /\ UNCHANGED <<shot, days, watermark, digest, report, late>>
  BY DEF Screen!Crash, Screen!Awake
<1>2. PicturesOK
  BY DEF ScreenInv
<1>3. Proceeds /\ CallbacksOK' /\ Known({})
  BY <1>1 DEF Screen!Pending, Proceeds, CallbacksOK, Known
<1>4. consumer' \in Consumer /\ failed' \in BOOLEAN
  BY <1>1 DEF Consumer, Stages
<1>5. Restless' /\ Preparing'
  BY <1>1 DEF Restless, Preparing
<1> QED BY <1>1, <1>2, <1>3, <1>4, <1>5, ScreenProceeds DEF PicturesOK

-----------------------------------------------------------------------------
(* Days *)

(* A step of the reports: a job is made only of a whole day with none open *)
(* before it, and the watermark passes only what was reported.             *)
LEMMA ReportsMove ==
  ASSUME ScreenInv, UNCHANGED <<shot, days, late>>,
         watermark' \in Nat, watermark <= watermark',
         \A d \in Screen!Days : report[d] = "completed" => report'[d] = "completed",
         \A d \in Screen!Days : report[d] = "none" /\ report'[d] # "none" =>
           /\ Screen!Pending \cap Screen!Through(d) = {}
           /\ \A e \in days : e < d => e <= watermark',
         \A d \in days : watermark < d /\ d <= watermark' =>
           report'[d] = "completed" \/ AllLate(d)
  PROVE  WholeReports' /\ NonePassed' /\ ReportsInOrder'
<1>1. \A d \in Screen!Days : AllLate(d)' <=> AllLate(d)
  BY DEF AllLate
<1>2. /\ days \subseteq Screen!Days /\ \A d \in days : d \in Nat
      /\ \A d \in days : d <= watermark => d <= watermark'
      /\ \A d \in days : ~(d <= watermark) => watermark < d
  <2>1. days \subseteq Screen!Days /\ watermark \in Nat
    BY DEF ScreenInv, PicturesOK
  <2>2. \A d \in days : d \in Nat
    BY <2>1, DaysFinite
  <2>3. ASSUME NEW d \in days
        PROVE  (d <= watermark => d <= watermark') /\ (~(d <= watermark) => watermark < d)
    BY <2>1, <2>2
  <2> QED BY <2>1, <2>2, <2>3
<1>3. Screen!Pending' = Screen!Pending
  BY DEF Screen!Pending
<1>4. WholeReports'
  BY <1>3 DEF ScreenInv, WholeReports, Screen!Through
<1>5. NonePassed'
  BY <1>1, <1>2 DEF ScreenInv, NonePassed
<1>6. ReportsInOrder'
  <2> SUFFICES ASSUME NEW e \in Screen!Days, report'[e] # "none", NEW d \in days, d < e
               PROVE  d <= watermark' \/ AllLate(d)'
    BY DEF ReportsInOrder
  <2>1. CASE report[e] = "none"
    BY <2>1
  <2>2. CASE report[e] # "none"
    BY <1>1, <1>2, <2>2 DEF ScreenInv, ReportsInOrder
  <2> QED BY <2>1, <2>2
<1> QED BY <1>4, <1>5, <1>6

(* The loop of the consumer goes round after it has looked at the days. *)
LEMMA RoundKeeps ==
  ASSUME ScreenInv, consumer.at \in {"days", "report"}, Screen!Round,
         UNCHANGED <<shot, digest, callbacks>>
  PROVE  Restless' /\ Preparing'
<1>1. consumer \in Consumer /\ failed \in BOOLEAN
  BY DEF ScreenInv, PicturesOK
<1>2. Screen!Pending' = Screen!Pending
  BY DEF Screen!Pending
<1>3. /\ ~consumer'.signaled /\ consumer'.at \in {"idle", "batch"}
      /\ consumer'.at = "idle" => ~consumer.signaled /\ failed' = failed
  BY <1>1, RoundFields
<1> QED BY <1>2, <1>3 DEF ScreenInv, Restless, Preparing

LEMMA WatermarkMoves ==
  ASSUME ScreenInv, NEW S \in SUBSET Screen!Days,
         watermark' = Screen!Max({watermark} \cup S)
  PROVE  /\ watermark' \in Nat /\ watermark <= watermark' /\ watermark' \in {watermark} \cup S
         /\ \A d \in S : d <= watermark'
<1>1. watermark \in Nat /\ S \subseteq Nat /\ IsFiniteSet(S)
  BY DaysFinite, FS_Subset DEF ScreenInv, PicturesOK
<1> DEFINE W == {watermark} \cup S
<1>2. W \in SUBSET Nat /\ IsFiniteSet(W) /\ W # {}
  BY <1>1, FS_AddElement
<1>3. Screen!Max(W) \in W /\ \A d \in W : d <= Screen!Max(W)
  <2> HIDE DEF W
  <2> QED BY <1>2, LastDay
<1> QED BY <1>2, <1>3

LEMMA LookAtDaysKeeps ==
  ASSUME ScreenInv, Screen!LookAtDays
  PROVE  ScreenInv'
<1> DEFINE next == Screen!Closed \ Screen!Recovered
           first == Screen!Min(next)
<1>1. /\ UNCHANGED <<shot, days, digest, report, callbacks, late>> /\ consumer.at = "days"
      /\ watermark' = Screen!Max({watermark} \cup Screen!Recovered)
      /\ IF /\ next # {} /\ report[first] # "active"
            /\ Screen!Pending \cap Screen!Through(first) = {}
         THEN consumer' = [consumer EXCEPT !.at = "report", !.date = first] /\ UNCHANGED failed
         ELSE Screen!Round
  BY DEF Screen!LookAtDays
<1>2. PicturesOK /\ days \subseteq Nat /\ watermark \in Nat
  BY DaysFinite DEF ScreenInv, PicturesOK
<1>3. Screen!Closed \in SUBSET days /\ Screen!Recovered \in SUBSET Screen!Closed
  BY DEF Screen!Closed, Screen!Recovered
<1>4. /\ watermark' \in Nat /\ watermark <= watermark'
      /\ watermark' \in {watermark} \cup Screen!Recovered
      /\ \A d \in Screen!Recovered : d <= watermark'
  <2>1. Screen!Recovered \in SUBSET Screen!Days
    BY <1>2, <1>3 DEF PicturesOK
  <2> QED BY <1>1, <2>1, WatermarkMoves
<1>5. ASSUME NEW d \in days, NEW e \in days, watermark < d, d < e
      PROVE  d \in Screen!Closed
  BY <1>2, <1>5 DEF Screen!Closed
<1>6. ASSUME NEW d \in days, watermark < d, d <= watermark'
      PROVE  report[d] = "completed"
  <2>1. watermark' \in Screen!Recovered /\ watermark' \in Screen!Closed
    BY <1>2, <1>3, <1>4, <1>6
  <2>2. PICK e \in days : e > watermark'
    BY <2>1 DEF Screen!Closed
  <2>3. d \in Screen!Closed
    BY <1>2, <1>4, <1>5, <1>6, <2>2
  <2> QED BY <1>6, <2>1, <2>3 DEF Screen!Recovered
<1>7. WholeReports' /\ NonePassed' /\ ReportsInOrder'
  BY <1>1, <1>4, <1>6, ReportsMove
<1>8. CallbacksOK'
  BY <1>1, <1>2, CallbacksStay DEF PicturesOK
<1>9. ASSUME next # {}, report[first] # "active",
             consumer' = [consumer EXCEPT !.at = "report", !.date = first], UNCHANGED failed
      PROVE  /\ consumer' \in Consumer /\ Known(consumer'.ids)
             /\ Restless' /\ Preparing'
  <2>1. first \in next /\ \A d \in next : first <= d
    <3>1. next \in SUBSET Nat
      BY <1>2, <1>3
    <3> HIDE DEF next
    <3> QED BY <1>9, <3>1, FirstDay
  <2> HIDE DEF first
  <2>2. first \in days /\ first \in Nat /\ watermark < first
    BY <1>2, <1>3, <2>1 DEF Screen!Closed
  <2>3. consumer' = [[consumer EXCEPT !.at = "report"] EXCEPT !.date = first]
    BY <1>2, <1>9 DEF PicturesOK, Consumer
  <2>4. /\ consumer' \in Consumer /\ consumer'.ids = consumer.ids /\ consumer'.at = "report"
        /\ consumer'.date = first /\ consumer'.signaled = consumer.signaled
    BY <1>2, <2>2, <2>3 DEF PicturesOK, Consumer, Stages
  <2>5. Screen!Pending' = Screen!Pending
    BY <1>1 DEF Screen!Pending
  <2>6. Restless'
    BY <1>1, <1>9, <2>4, <2>5 DEF ScreenInv, Restless
  <2>7. report[first] \in {"none", "dead_letter"}
    <3>1. PICK e \in Screen!Closed : e <= first /\ report[e] # "completed"
      BY <2>1 DEF Screen!Recovered
    <3>2. e \notin Screen!Recovered
      <4>1. e \in Nat
        BY <1>2, <1>3
      <4> QED BY <3>1, <4>1 DEF Screen!Recovered
    <3>3. e = first
      BY <1>2, <1>3, <2>1, <2>2, <3>1, <3>2
    <3>4. first \in Screen!Days
      BY <1>2, <2>2 DEF PicturesOK
    <3> QED BY <1>2, <1>9, <3>1, <3>3, <3>4 DEF PicturesOK, JobStates
  <2>8. ASSUME NEW d \in days, d < first PROVE d <= watermark'
    <3>1. CASE d <= watermark
      BY <1>2, <1>4, <2>8, <3>1
    <3>2. CASE watermark < d
      <4>1. d \in Screen!Closed
        BY <1>5, <2>2, <2>8, <3>2
      <4>2. d \notin next
        BY <1>2, <2>1, <2>2, <2>8
      <4> QED BY <1>4, <4>1, <4>2
    <3> QED BY <1>2, <2>8, <3>1, <3>2
  <2>9. Preparing'
    BY <1>1, <2>2, <2>4, <2>7, <2>8 DEF Preparing
  <2> QED BY <1>2, <2>4, <2>6, <2>9 DEF PicturesOK
<1>10. CASE Screen!Round
  <2>1. consumer' \in Consumer /\ consumer'.ids = {} /\ failed' \in BOOLEAN
    BY <1>2, <1>10, RoundFields DEF PicturesOK
  <2>2. Restless' /\ Preparing'
    BY <1>1, <1>10, RoundKeeps
  <2>3. PicturesOK'
    BY <1>1, <1>2, <1>4, <1>8, <2>1 DEF PicturesOK, Known
  <2> QED BY <1>7, <2>2, <2>3 DEF ScreenInv
<1>11. CASE /\ next # {} /\ report[first] # "active"
            /\ consumer' = [consumer EXCEPT !.at = "report", !.date = first] /\ UNCHANGED failed
  <2>1. /\ consumer' \in Consumer /\ Known(consumer'.ids) /\ Restless' /\ Preparing'
    BY <1>9, <1>11
  <2>2. PicturesOK'
    BY <1>1, <1>2, <1>4, <1>8, <1>11, <2>1 DEF PicturesOK, Known
  <2> QED BY <1>7, <2>1, <2>2 DEF ScreenInv
<1> QED BY <1>1, <1>10, <1>11

LEMMA ReportKeeps ==
  ASSUME ScreenInv, Screen!Report
  PROVE  ScreenInv'
<1>1. /\ UNCHANGED <<shot, days, watermark, digest, callbacks, late>>
      /\ consumer.at = "report" /\ Screen!Round
      /\ \/ UNCHANGED report
         \/ /\ Screen!Pending \cap Screen!Through(consumer.date) = {}
            /\ report' = [report EXCEPT ![consumer.date] = "active"]
  BY DEF Screen!Report, Screen!StillWhole
<1>2. PicturesOK /\ days \subseteq Nat /\ watermark \in Nat
  BY DaysFinite DEF ScreenInv, PicturesOK
<1>3. PICK f \in Screen!Days : /\ f = consumer.date
                               /\ report[f] \in {"none", "dead_letter"} /\ f \in Nat
  BY <1>1, <1>2 DEF ScreenInv, Preparing, PicturesOK
<1>4. /\ report' \in [Screen!Days -> JobStates]
      /\ \A d \in Screen!Days \ {f} : report'[d] = report[d]
      /\ report'[f] # report[f] => Screen!Pending \cap Screen!Through(f) = {}
  BY <1>1, <1>2, <1>3 DEF PicturesOK, JobStates
<1>5. ASSUME Screen!Pending \cap Screen!Through(f) = {}, NEW d \in days, d < f
      PROVE  d <= watermark
  <2>1. ASSUME NEW c \in Pictures, Day[c] = d, HoldsBack(c) PROVE FALSE
    <3>1. c \in Screen!Through(f) /\ c \in Screen!Pending
      BY <1>2, <1>3, <1>5, <2>1 DEF Screen!Through, HoldsBack
    <3> QED BY <1>5, <3>1
  <2> QED BY <1>1, <1>3, <1>5, <2>1 DEF ScreenInv, Preparing
<1>6. \A d \in Screen!Days : report[d] = "completed" => report'[d] = "completed"
  BY <1>3, <1>4
<1>7. WholeReports' /\ NonePassed' /\ ReportsInOrder'
  <2>1. \A d \in Screen!Days : report[d] = "none" /\ report'[d] # "none" =>
          /\ Screen!Pending \cap Screen!Through(d) = {}
          /\ \A e \in days : e < d => e <= watermark'
    BY <1>1, <1>4, <1>5
  <2>2. \A d \in days : ~(watermark < d /\ d <= watermark')
    BY <1>1, <1>2
  <2>3. watermark' \in Nat /\ watermark <= watermark'
    BY <1>1, <1>2
  <2> QED BY <1>1, <1>6, <2>1, <2>2, <2>3, ReportsMove
<1>8. CallbacksOK'
  BY <1>1, <1>2, <1>6, CallbacksStay DEF PicturesOK
<1>9. consumer' \in Consumer /\ consumer'.ids = {} /\ failed' \in BOOLEAN
  BY <1>1, <1>2, RoundFields DEF PicturesOK
<1>10. Restless' /\ Preparing'
  BY <1>1, RoundKeeps
<1>11. PicturesOK'
  BY <1>1, <1>2, <1>4, <1>8, <1>9 DEF PicturesOK, Known
<1> QED BY <1>7, <1>10, <1>11 DEF ScreenInv

LEMMA ReportEndsKeeps ==
  ASSUME ScreenInv, NEW d \in Screen!Days, NEW s \in {"completed", "dead_letter"},
         Screen!ReportEnds(d, s)
  PROVE  ScreenInv'
<1>1. /\ UNCHANGED <<shot, days, watermark, digest, consumer, failed, late>>
      /\ report[d] = "active" /\ report' = [report EXCEPT ![d] = s]
      /\ callbacks' = IF s = "completed" THEN callbacks \cup {<<"report", {d}>>}
                      ELSE callbacks
  BY DEF Screen!ReportEnds
<1>2. PicturesOK /\ days \subseteq Nat /\ watermark \in Nat
  BY DaysFinite DEF ScreenInv, PicturesOK
<1>3. /\ report' \in [Screen!Days -> JobStates] /\ report'[d] = s
      /\ \A e \in Screen!Days \ {d} : report'[e] = report[e]
  BY <1>1, <1>2 DEF PicturesOK, JobStates
<1>4. \A e \in Screen!Days : report[e] = "completed" => report'[e] = "completed"
  BY <1>1, <1>3
<1>5. WholeReports' /\ NonePassed' /\ ReportsInOrder'
  <2>1. \A e \in Screen!Days : ~(report[e] = "none" /\ report'[e] # "none")
    BY <1>1, <1>3
  <2>2. \A e \in days : ~(watermark < e /\ e <= watermark')
    BY <1>1, <1>2
  <2>3. watermark' \in Nat /\ watermark <= watermark'
    BY <1>1, <1>2
  <2> QED BY <1>1, <1>4, <2>1, <2>2, <2>3, ReportsMove
<1>6. CallbacksOK'
  <2> SUFFICES ASSUME NEW call \in callbacks'
               PROVE  \/ \E ids \in SUBSET Pictures : Known(ids)' /\ call = <<"batch", ids>>
                      \/ \E e \in Screen!Days : report'[e] = "completed" /\ call = <<"report", {e}>>
    BY DEF CallbacksOK
  <2>1. CASE call \in callbacks
    BY <1>1, <1>2, <1>4, <2>1 DEF PicturesOK, CallbacksOK, Known
  <2>2. CASE s = "completed" /\ call = <<"report", {d}>>
    BY <1>3, <2>2
  <2> QED BY <1>1, <2>1, <2>2
<1>7. PicturesOK'
  BY <1>1, <1>2, <1>3, <1>6 DEF PicturesOK, Known
<1>8. Screen!Pending' = Screen!Pending
  BY <1>1 DEF Screen!Pending
<1>9. Restless'
  BY <1>1, <1>8 DEF ScreenInv, Restless
<1>10. Preparing'
  <2> SUFFICES ASSUME consumer.at = "report" PROVE Preparing'
    BY <1>1 DEF Preparing
  <2>1. consumer.date \in days /\ report[consumer.date] \in {"none", "dead_letter"}
    BY DEF ScreenInv, Preparing
  <2>2. report'[consumer.date] = report[consumer.date]
    BY <1>1, <1>2, <1>3, <2>1 DEF PicturesOK
  <2>3. ASSUME NEW c \in Pictures, HoldsBack(c) PROVE HoldsBack(c)'
    <3>1. \A call \in callbacks' : call \in callbacks \/ call[1] = "report"
      BY <1>1
    <3> QED BY <1>1, <1>8, <2>3, <3>1 DEF HoldsBack
  <2> QED BY <1>1, <2>1, <2>2, <2>3 DEF ScreenInv, Preparing
<1> QED BY <1>5, <1>7, <1>9, <1>10 DEF ScreenInv

-----------------------------------------------------------------------------
(* The callbacks of the ended jobs *)

LEMMA BatchCallbackKeeps ==
  ASSUME ScreenInv, NEW ids \in SUBSET Pictures,
         shot' = [c \in Pictures |-> IF c \in ids \cap Screen!Pending
                                     THEN "accepted" ELSE shot[c]],
         \A c \in Pictures : HoldsBack(c) => c \notin ids,
         callbacks' \subseteq callbacks, failed' \in BOOLEAN, Screen!Wake,
         UNCHANGED <<days, watermark, digest, report, late>>
  PROVE  ScreenInv'
<1>1. PicturesOK
  BY DEF ScreenInv
<1>2. /\ shot' \in [Pictures -> {"none", "pending", "described", "accepted", "rejected"}]
      /\ \A c \in Pictures :
           shot'[c] = IF c \in ids \cap Screen!Pending THEN "accepted" ELSE shot[c]
  BY <1>1 DEF PicturesOK
<1>3. Screen!Pending' = Screen!Pending \ ids /\ Proceeds
  BY <1>2 DEF Screen!Pending, Proceeds
<1>4. /\ consumer' \in Consumer /\ (consumer'.ids = consumer.ids \/ consumer'.ids = {})
      /\ consumer'.at = "report" => consumer.at = "report" /\ consumer'.date = consumer.date
  BY <1>1, WakeFields DEF PicturesOK
<1>5. CallbacksOK'
  BY <1>1, CallbacksStay DEF PicturesOK
<1>6. Restless'
  BY <1>1, WakeRestless DEF PicturesOK
<1>7. ASSUME NEW c \in Pictures, HoldsBack(c) PROVE HoldsBack(c)'
  BY <1>3, <1>7 DEF HoldsBack
<1>8. Preparing'
  <2>1. watermark' \in Nat /\ watermark <= watermark'
    BY <1>1 DEF PicturesOK
  <2> QED BY <1>4, <1>7, <2>1, StillPreparing
<1> QED BY <1>1, <1>2, <1>3, <1>4, <1>5, <1>6, <1>8, ScreenProceeds DEF PicturesOK, Known

LEMMA ReportCallbackKeeps ==
  ASSUME ScreenInv, NEW d \in Screen!Days, report[d] = "completed",
         watermark' = Screen!Max({watermark} \cup {d}),
         callbacks' \subseteq callbacks, failed' \in BOOLEAN, Screen!Wake,
         UNCHANGED <<shot, days, digest, report, late>>
  PROVE  ScreenInv'
<1>1. PicturesOK /\ days \subseteq Nat /\ watermark \in Nat /\ d \in Nat
  BY DaysFinite DEF ScreenInv, PicturesOK
<1>2. watermark' \in Nat /\ watermark <= watermark' /\ watermark' \in {watermark} \cup {d}
  BY WatermarkMoves
<1>3. ASSUME NEW e \in days, watermark < e, e <= watermark'
      PROVE  report[e] = "completed" \/ AllLate(e)
  <2>1. watermark' = d /\ e \in Nat /\ e <= d
    BY <1>1, <1>2, <1>3
  <2>2. CASE e = d
    BY <2>2
  <2>3. CASE e # d
    <3>1. e < d /\ ~(e <= watermark)
      BY <1>1, <1>3, <2>1, <2>3
    <3> QED BY <3>1 DEF ScreenInv, ReportsInOrder
  <2> QED BY <2>2, <2>3
<1>4. WholeReports' /\ NonePassed' /\ ReportsInOrder'
  BY <1>2, <1>3, ReportsMove
<1>5. /\ consumer' \in Consumer /\ (consumer'.ids = consumer.ids \/ consumer'.ids = {})
      /\ consumer'.at = "report" => consumer.at = "report" /\ consumer'.date = consumer.date
  BY <1>1, WakeFields DEF PicturesOK
<1>6. CallbacksOK'
  BY <1>1, CallbacksStay DEF PicturesOK
<1>7. Restless'
  BY <1>1, WakeRestless DEF PicturesOK
<1>8. ASSUME NEW c \in Pictures, HoldsBack(c) PROVE HoldsBack(c)'
  BY <1>8 DEF HoldsBack, Screen!Pending
<1>9. Preparing'
  BY <1>2, <1>5, <1>8, StillPreparing
<1>10. PicturesOK'
  BY <1>1, <1>2, <1>5, <1>6 DEF PicturesOK, Known
<1> QED BY <1>4, <1>7, <1>9, <1>10 DEF ScreenInv

LEMMA CallbackKeeps ==
  ASSUME ScreenInv, NEW call \in callbacks, Screen!Callback(call)
  PROVE  ScreenInv'
<1>1. /\ callbacks' \subseteq callbacks /\ UNCHANGED <<days, digest, report, late>>
  BY DEF Screen!Callback
<1>2. PicturesOK
  BY DEF ScreenInv
<1>3. CASE failed' = TRUE /\ UNCHANGED <<shot, watermark, consumer>>
  <2>1. CallbacksOK'
    BY <1>1, <1>2, CallbacksStay DEF PicturesOK
  <2>2. Proceeds /\ Screen!Pending' = Screen!Pending
    BY <1>3 DEF Proceeds, Screen!Pending
  <2>3. Restless'
    BY <1>3, <2>2 DEF ScreenInv, Restless
  <2>4. Preparing'
    BY <1>1, <1>3, <2>2 DEF ScreenInv, Preparing, HoldsBack
  <2>5. failed' \in BOOLEAN
    BY <1>3
  <2> QED BY <1>1, <1>2, <1>3, <2>1, <2>2, <2>3, <2>4, <2>5, ScreenProceeds DEF PicturesOK
<1>4. CASE /\ shot' = IF call[1] = "batch"
                      THEN [c \in Pictures |-> IF c \in call[2] \cap Screen!Pending
                                               THEN "accepted" ELSE shot[c]]
                      ELSE shot
           /\ watermark' = IF call[1] = "report" THEN Screen!Max({watermark} \cup call[2])
                           ELSE watermark
           /\ Screen!Wake /\ Screen!Excuse
  <2>1. failed' \in BOOLEAN
    BY <1>2, <1>4 DEF Screen!Excuse
  <2>2. ASSUME NEW ids \in SUBSET Pictures, call = <<"batch", ids>>
        PROVE  ScreenInv'
    <3>1. /\ shot' = [c \in Pictures |-> IF c \in ids \cap Screen!Pending
                                          THEN "accepted" ELSE shot[c]]
          /\ UNCHANGED watermark
      BY <1>4, <2>2
    <3>2. \A c \in Pictures : HoldsBack(c) => c \notin ids
      BY <2>2 DEF HoldsBack
    <3> QED BY <1>1, <1>4, <2>1, <3>1, <3>2, BatchCallbackKeeps
  <2>3. ASSUME NEW d \in Screen!Days, report[d] = "completed", call = <<"report", {d}>>
        PROVE  ScreenInv'
    <3>1. watermark' = Screen!Max({watermark} \cup {d}) /\ UNCHANGED shot
      BY <1>4, <2>3
    <3> QED BY <1>1, <1>4, <2>1, <2>3, <3>1, ReportCallbackKeeps
  <2> QED BY <1>2, <2>2, <2>3 DEF PicturesOK, CallbacksOK
<1> QED BY <1>3, <1>4 DEF Screen!Callback

LEMMA ScreenInit == Screen!Init => ScreenInv
<1> SUFFICES ASSUME Screen!Init PROVE ScreenInv
  OBVIOUS
<1>1. /\ shot = [c \in Pictures |-> "none"] /\ days = {} /\ watermark = 0
      /\ digest = [ids |-> {}, status |-> "none"] /\ report = [d \in Screen!Days |-> "none"]
      /\ callbacks = {} /\ failed = FALSE /\ late = {}
      /\ consumer = [at |-> "batch", signaled |-> FALSE, ids |-> {}, date |-> 0]
  BY DEF Screen!Init, Screen!Awake
<1>2. PicturesOK
  BY <1>1 DEF PicturesOK, Known, CallbacksOK, Digest, JobStates, Consumer, Stages
<1>3. Restless /\ Preparing
  BY <1>1 DEF Restless, Preparing
<1>4. WholeReports /\ NonePassed /\ ReportsInOrder
  BY <1>1 DEF WholeReports, NonePassed, ReportsInOrder
<1> QED BY <1>2, <1>3, <1>4 DEF ScreenInv

LEMMA ScreenStep == ScreenInv /\ [Screen!Next]_(Screen!vars) => ScreenInv'
<1> SUFFICES ASSUME ScreenInv, [Screen!Next]_(Screen!vars) PROVE ScreenInv'
  OBVIOUS
<1>1. CASE \E c \in Pictures : Screen!Shoot(c) \/ Screen!Send(c) \/ Screen!Collect(c)
  BY <1>1, ScreenRests, SendKeeps, CollectKeeps DEF Screen!Shoot
<1>2. CASE Screen!Select \/ Screen!Check \/ Screen!Describe
  BY <1>2, SelectKeeps, CheckKeeps, DescribeKeeps
<1>3. CASE Screen!LookAtDays \/ Screen!Report
  BY <1>3, LookAtDaysKeeps, ReportKeeps
<1>4. CASE \E s \in Screen!Settled :
             Screen!BatchEnds(s) \/ \E d \in Screen!Days : Screen!ReportEnds(d, s)
  BY <1>4, BatchEndsKeeps, ReportEndsKeeps DEF Screen!Settled
<1>5. CASE \E call \in callbacks : Screen!Callback(call)
  BY <1>5, CallbackKeeps
<1>6. CASE Screen!Crash
  BY <1>6, ScreenCrashKeeps
<1>7. CASE UNCHANGED Screen!vars
  BY <1>7, ScreenRests DEF Screen!vars
<1> QED BY <1>1, <1>2, <1>3, <1>4, <1>5, <1>6, <1>7 DEF Screen!Next

(* docs/screen-capture.md:71-77, 113, 140-142: a full batch of pictures    *)
(* never waits while the consumer rests and nothing failed, and a day is   *)
(* reported once all up to it is done, none passed over, however uploads,  *)
(* callbacks, failures and crashes fall between the steps of               *)
(* features/screen-capture.ts and screen-capture-daily-summary.ts.         *)
THEOREM FullBatchesAndDaysReported == Spec => []PicturesReported
<1>1. Screen!Spec => []ScreenInv
  BY ScreenInit, ScreenStep, PTL DEF Screen!Spec
<1>2. ScreenInv => PicturesReported
  BY ScreenTruthful DEF PicturesReported
<1> QED BY ScreenPart, <1>1, <1>2, PTL

-----------------------------------------------------------------------------
(* Opening the ledger *)

Releases == {0, 1, 2, 5, 10}
Pieces == [job : Rows, index : {0, 1}, key : (Rows \X {0, 1}) \cup {Null}]
Ledgers == [version : Releases, jobs : {"none", "legacy", "modern"},
            parts : SUBSET Opening!Tables, chunks : SUBSET Pieces,
            status : [Rows -> Opening!Statuses], sequence : [Rows -> Nat]]

(* Rows arrive one by one, and a session numbers its own in this order. *)
Arrived(s) == \A r \in Opening!There(s), q \in Rows : q < r => q \in Opening!There(s)

InLine(s) ==
  \A q, r \in Opening!There(s) :
    Session[q] = Session[r] /\ q < r => s.sequence[q] < s.sequence[r]

LedgerSound(s) ==
  /\ s \in Ledgers /\ Arrived(s)
  /\ s.jobs = "none" => Opening!There(s) = {}
  /\ s.jobs = "modern" => InLine(s)

(* A version says what has been done, also to the process that read it     *)
(* before another one went on.                                             *)
Stamped(v, s) == (v # 0 => s.jobs # "none") /\ (v \notin {0, 1} => s.jobs = "modern")

Whole(s) == s.jobs = "modern" /\ s.parts = Opening!Tables

Answered(r, s) == {Opening!Chunk(r, 0), Opening!Chunk(r, 1)} \subseteq s.chunks

Undisturbed(r, s) ==
  /\ s.status[r] \in {"running", "completed"}
  /\ s.status[r] = "completed" => Answered(r, s)

LedgerInv ==
  /\ LedgerSound(ledger) /\ Stamped(ledger.version, ledger)
  /\ proc \in [Procs -> [stage : {"closed", "read", "open"}, from : Releases]]
  /\ \A p \in Procs : Stamped(proc[p].from, ledger)
  /\ (\E p \in Procs : proc[p].stage = "open") => Whole(ledger) /\ ledger.version = 10
  /\ begun \subseteq Rows
  /\ \A r \in begun : ledger.jobs = "modern" /\ Undisturbed(r, ledger)

LEMMA LedgerTruthful == LedgerInv => UpgradeKeepsLedger
<1> SUFFICES ASSUME LedgerInv PROVE UpgradeKeepsLedger
  OBVIOUS
<1>1. Opening!OpenIsWhole
  BY DEF LedgerInv, Whole, Opening!OpenIsWhole, Opening!Current
<1>2. Opening!WorkUndisturbed
  BY DEF LedgerInv, LedgerSound, InLine, Undisturbed, Answered, Opening!WorkUndisturbed
<1> QED BY <1>1, <1>2 DEF UpgradeKeepsLedger

(* What a step of the migrations does to a store *)
Follows(s, t) ==
  /\ t \in Ledgers
  /\ t.jobs = "none" => Opening!There(t) = {}
  /\ Opening!There(t) = Opening!There(s)
  /\ s.jobs # "none" => t.jobs # "none"
  /\ s.jobs = "modern" =>
       /\ t.jobs = "modern" /\ t.status = s.status /\ t.sequence = s.sequence
       /\ \A r \in Rows : Answered(r, s) => Answered(r, t)
  /\ t.jobs = "modern" => InLine(t)
  /\ s.parts = Opening!Tables => t.parts = Opening!Tables

LEMMA FollowsTwice ==
  ASSUME NEW s, NEW t, NEW u, Follows(s, t), Follows(t, u)
  PROVE  Follows(s, u)
BY DEF Follows

LEMMA FollowsNothing ==
  ASSUME NEW s, LedgerSound(s)
  PROVE  Follows(s, s)
BY DEF Follows, LedgerSound

LEMMA SoundAfter ==
  ASSUME NEW s, NEW t, LedgerSound(s), Follows(s, t)
  PROVE  LedgerSound(t)
BY DEF LedgerSound, Follows, Arrived

(* Tables and columns are added. *)
LEMMA PartsAdded ==
  ASSUME NEW s, LedgerSound(s), NEW P \in SUBSET Opening!Tables, s.parts \subseteq P,
         NEW t, t = [s EXCEPT !.parts = P]
  PROVE  Follows(s, t) /\ t.parts = P /\ t.jobs = s.jobs
<1>1. /\ t \in Ledgers /\ t.jobs = s.jobs /\ t.parts = P /\ t.status = s.status
      /\ t.sequence = s.sequence /\ t.chunks = s.chunks
  BY DEF LedgerSound, Ledgers
<1>2. Opening!There(t) = Opening!There(s)
  BY <1>1 DEF Opening!There
<1> QED BY <1>1, <1>2 DEF Follows, LedgerSound, InLine, Answered

LEMMA BaseCreated ==
  ASSUME NEW s, LedgerSound(s)
  PROVE  /\ Follows(s, Opening!CreateBase(s))
         /\ s.jobs # "legacy" => Opening!CreateBase(s).jobs = "modern"
         /\ s.jobs # "none" => Opening!CreateBase(s) = s
<1>1. CASE s.jobs # "none"
  BY <1>1, FollowsNothing DEF Opening!CreateBase, LedgerSound, Ledgers
<1>2. CASE s.jobs = "none"
  <2> DEFINE P == s.parts \cup Opening!Base
             t == [[s EXCEPT !.jobs = "modern"] EXCEPT !.parts = P]
  <2>1. s \in Ledgers /\ P \in SUBSET Opening!Tables
    BY DEF LedgerSound, Ledgers, Opening!Tables
  <2>2. Opening!CreateBase(s) = t
    BY <1>2, <2>1 DEF Opening!CreateBase, Ledgers
  <2>3. /\ t \in Ledgers /\ t.jobs = "modern" /\ t.parts = P /\ t.status = s.status
        /\ t.sequence = s.sequence /\ t.chunks = s.chunks
    <3> HIDE DEF P
    <3> QED BY <2>1 DEF Ledgers
  <2>4. s.parts = Opening!Tables => P = Opening!Tables
    BY DEF Opening!Tables
  <2> HIDE DEF t, P
  <2>5. Opening!There(s) = {} /\ Opening!There(t) = {}
    BY <1>2, <2>3 DEF LedgerSound, Opening!There
  <2>6. Follows(s, t)
    BY <1>2, <2>3, <2>4, <2>5 DEF Follows, InLine, Answered
  <2> QED BY <1>2, <2>2, <2>3, <2>6
<1> QED BY <1>1, <1>2

(* Numbers in the order of arrival keep the sessions in order. *)
LEMMA PositionsInLine ==
  ASSUME NEW S \in SUBSET Rows, NEW r \in S
  PROVE  /\ Opening!Position(r, S) \in Nat
         /\ \A q \in S : Session[q] = Session[r] /\ q < r =>
              Opening!Position(q, S) < Opening!Position(r, S)
<1> DEFINE Ahead(q) == {x \in S : Session[x] = Session[q] /\ x < q}
<1>1. \A x \in Rows : x \in Nat
  BY StoresAssumption
<1>2. IsFiniteSet(S)
  BY StoresAssumption, FS_Subset
<1>3. ASSUME NEW q \in S
      PROVE  /\ IsFiniteSet(Ahead(q)) /\ Cardinality(Ahead(q)) \in Nat
             /\ Opening!Position(q, S) = Cardinality(Ahead(q))
  <2>1. IsFiniteSet(Ahead(q)) /\ Cardinality(Ahead(q)) \in Nat
    BY <1>2, FS_Subset, FS_CardinalityType
  <2>2. Opening!Position(q, S) = Cardinality(Ahead(q))
    BY DEF Opening!Position, Opening!Cardinality, Cardinality
  <2> QED BY <2>1, <2>2
<1>4. ASSUME NEW q \in S, Session[q] = Session[r], q < r
      PROVE  Cardinality(Ahead(q)) < Cardinality(Ahead(r))
  <2>1. Ahead(q) \subseteq Ahead(r) /\ q \in Ahead(r) /\ q \notin Ahead(q)
    <3>1. ~(q < q)
      BY <1>1
    <3>2. \A x \in S : x < q => x < r
      BY <1>1, <1>4
    <3> QED BY <1>4, <3>1, <3>2
  <2> HIDE DEF Ahead
  <2>2. Ahead(q) # Ahead(r)
    BY <2>1
  <2>3. Cardinality(Ahead(q)) <= Cardinality(Ahead(r))
    BY <1>3, <2>1, FS_Subset
  <2>4. Cardinality(Ahead(q)) # Cardinality(Ahead(r))
    BY <1>3, <2>1, <2>2, FS_Subset
  <2> QED BY <1>3, <2>3, <2>4
<1> HIDE DEF Ahead
<1> QED BY <1>3, <1>4

LEMMA LegacyShaped ==
  ASSUME NEW s, LedgerSound(s)
  PROVE  /\ Follows(s, Opening!Shaped(s))
         /\ s.jobs # "none" => Opening!Shaped(s).jobs = "modern"
         /\ s.jobs = "none" => Opening!Shaped(s) = s
<1>1. CASE s.jobs # "legacy"
  BY <1>1, FollowsNothing DEF Opening!Shaped, Opening!IsLegacy, LedgerSound, Ledgers
<1>2. CASE s.jobs = "legacy"
  <2> DEFINE There == Opening!There(s)
             P == s.parts \cup Opening!Base
             F == [r \in Rows |-> IF s.status[r] = "running" THEN "queued" ELSE s.status[r]]
             C == {Opening!Keyless(c.job) : c \in s.chunks}
             N == [r \in Rows |-> IF r \in There THEN Opening!Position(r, There) ELSE 0]
             t == [[[[[s EXCEPT !.jobs = "modern"] EXCEPT !.parts = P] EXCEPT !.status = F]
                     EXCEPT !.chunks = C] EXCEPT !.sequence = N]
  <2>1. s \in Ledgers
    BY DEF LedgerSound
  <2>2. P \in SUBSET Opening!Tables
    BY <2>1 DEF Ledgers, Opening!Tables
  <2>3. F \in [Rows -> Opening!Statuses] /\ \A r \in Rows : F[r] = "none" <=> s.status[r] = "none"
    BY <2>1 DEF Ledgers, Opening!Statuses
  <2>4. C \in SUBSET Pieces
    BY <2>1 DEF Ledgers, Pieces, Opening!Keyless
  <2>5. There \in SUBSET Rows
    BY DEF Opening!There
  <2>6. N \in [Rows -> Nat] /\ \A r \in There : N[r] = Opening!Position(r, There)
    <3> HIDE DEF There
    <3> QED BY <2>5, PositionsInLine
  <2>7. Opening!Shaped(s) = t
    BY <1>2, <2>1
       DEF Opening!Shaped, Opening!IsLegacy, Opening!Rebuilt, Opening!Ordered, Ledgers
  <2>8. s.parts = Opening!Tables => P = Opening!Tables
    BY DEF Opening!Tables
  <2> HIDE DEF P, F, C, N
  <2>9. /\ t \in Ledgers /\ t.jobs = "modern" /\ t.parts = P /\ t.status = F
        /\ t.sequence = N /\ t.chunks = C
    BY <2>1, <2>2, <2>3, <2>4, <2>6 DEF Ledgers
  <2> HIDE DEF t
  <2>10. Opening!There(t) = There
    BY <2>3, <2>9 DEF Opening!There
  <2>11. InLine(t)
    <3> HIDE DEF There
    <3> QED BY <2>5, <2>6, <2>9, <2>10, PositionsInLine DEF InLine
  <2> QED BY <1>2, <2>7, <2>8, <2>9, <2>10, <2>11 DEF Follows
<1> QED BY <1>1, <1>2

(* The keys of chunks that have one stay. *)
LEMMA DurableFollows ==
  ASSUME NEW s, LedgerSound(s)
  PROVE  Follows(s, Opening!Durable(s)) /\ Opening!Durable(s).jobs = s.jobs
<1> DEFINE P == s.parts \cup Opening!Base
           C == {Opening!Keyed(c) : c \in s.chunks}
           t == [[s EXCEPT !.parts = P] EXCEPT !.chunks = C]
<1>1. s \in Ledgers
  BY DEF LedgerSound
<1>2. P \in SUBSET Opening!Tables
  BY <1>1 DEF Ledgers, Opening!Tables
<1>3. s.parts = Opening!Tables => P = Opening!Tables
  BY DEF Opening!Tables
<1>4. ASSUME NEW c \in Pieces PROVE Opening!Keyed(c) \in Pieces
  BY DEF Pieces, Opening!Keyed
<1>5. C \in SUBSET Pieces
  BY <1>1, <1>4 DEF Ledgers
<1>6. ASSUME NEW r \in Rows, NEW i \in {0, 1}
      PROVE  Opening!Keyed(Opening!Chunk(r, i)) = Opening!Chunk(r, i)
  <2>1. <<r, i>> # Null
    BY StoresAssumption
  <2> QED BY <2>1 DEF Opening!Keyed, Opening!Chunk
<1>7. ASSUME NEW r \in Rows, NEW i \in {0, 1}, Opening!Chunk(r, i) \in s.chunks
      PROVE  Opening!Chunk(r, i) \in C
  BY <1>6, <1>7
<1>8. Opening!Durable(s) = t
  BY <1>1 DEF Opening!Durable, Ledgers
<1> HIDE DEF P, C
<1>9. /\ t \in Ledgers /\ t.jobs = s.jobs /\ t.parts = P /\ t.status = s.status
      /\ t.sequence = s.sequence /\ t.chunks = C
  BY <1>1, <1>2, <1>5 DEF Ledgers
<1> HIDE DEF t
<1>10. Opening!There(t) = Opening!There(s)
  BY <1>9 DEF Opening!There
<1>11. \A r \in Rows : Answered(r, s) => Answered(r, t)
  BY <1>7, <1>9 DEF Answered
<1>12. Follows(s, t)
  BY <1>3, <1>9, <1>10, <1>11 DEF Follows, LedgerSound, InLine
<1> QED BY <1>8, <1>9, <1>12

LEMMA RepairedFollows ==
  ASSUME NEW s, LedgerSound(s)
  PROVE  /\ Follows(s, Opening!Repaired(s)) /\ Opening!Repaired(s).parts = Opening!Tables
         /\ s.jobs # "none" => Opening!Repaired(s).jobs = "modern"
<1> DEFINE t == Opening!Shaped(s)
           u == Opening!Durable(t)
<1>1. /\ Follows(s, t) /\ (s.jobs # "none" => t.jobs = "modern")
      /\ LedgerSound(t)
  BY LegacyShaped, SoundAfter
<1>2. Follows(t, u) /\ u.jobs = t.jobs /\ LedgerSound(u)
  <2> HIDE DEF t
  <2> QED BY <1>1, DurableFollows, SoundAfter
<1>3. Opening!Repaired(s) = [u EXCEPT !.parts = Opening!Tables]
  BY DEF Opening!Repaired
<1>4. u.parts \subseteq Opening!Tables
  BY <1>2 DEF LedgerSound, Ledgers
<1> HIDE DEF u
<1>5. /\ Follows(u, Opening!Repaired(s)) /\ Opening!Repaired(s).parts = Opening!Tables
      /\ Opening!Repaired(s).jobs = u.jobs
  BY <1>2, <1>3, <1>4, PartsAdded
<1> HIDE DEF t
<1> QED BY <1>1, <1>2, <1>5, FollowsTwice

LEMMA UpFollows ==
  ASSUME NEW s, LedgerSound(s), NEW v \in 1 .. 10
  PROVE  Follows(s, Opening!Up(v, s)) /\ (v = 1 => Opening!Up(v, s).jobs = "modern")
<1>1. CASE v = 1
  <2> DEFINE t == Opening!Shaped(s)
  <2>1. Opening!Up(v, s) = Opening!CreateBase(t)
    BY <1>1 DEF Opening!Up
  <2>2. /\ Follows(s, t) /\ LedgerSound(t) /\ (s.jobs # "none" => t.jobs = "modern")
        /\ s.jobs = "none" => t = s
    BY LegacyShaped, SoundAfter
  <2> HIDE DEF t
  <2>3. Follows(t, Opening!CreateBase(t)) /\ Opening!CreateBase(t).jobs = "modern"
    BY <2>2, BaseCreated
  <2> QED BY <1>1, <2>1, <2>2, <2>3, FollowsTwice
<1>2. CASE v \in {2, 3, 4, 6}
  <2>1. Opening!Up(v, s) = Opening!Repaired(s)
    BY <1>2 DEF Opening!Up
  <2> QED BY <1>2, <2>1, RepairedFollows
<1>3. ASSUME v \in {5, 7, 8, 9, 10}
      PROVE  Follows(s, Opening!Up(v, s))
  <2>1. PICK x \in {"bots", "conversations", "mail", "source_kind"} :
          Opening!Up(v, s) = [s EXCEPT !.parts = s.parts \cup {x}]
    <3>1. CASE v = 5
      BY <3>1 DEF Opening!Up
    <3>2. CASE v \in {7, 10}
      BY <3>2 DEF Opening!Up
    <3>3. CASE v = 8
      BY <3>3 DEF Opening!Up
    <3>4. CASE v = 9
      BY <3>4 DEF Opening!Up
    <3> QED BY <1>3, <3>1, <3>2, <3>3, <3>4
  <2>2. s.parts \cup {x} \in SUBSET Opening!Tables
    BY DEF LedgerSound, Ledgers, Opening!Tables, Opening!Base
  <2> QED BY <2>1, <2>2, PartsAdded
<1>4. v \in {2, 3, 4, 6} \cup {5, 7, 8, 9, 10} \cup {1}
  OBVIOUS
<1> QED BY <1>1, <1>2, <1>3, <1>4

LEMMA PendingFollows ==
  ASSUME NEW s, LedgerSound(s), NEW v \in 1 .. 10, NEW from \in Releases
  PROVE  /\ Follows(s, Opening!Pending(v, from, s)) /\ LedgerSound(Opening!Pending(v, from, s))
         /\ from < v /\ v = 1 => Opening!Pending(v, from, s).jobs = "modern"
<1>1. CASE from < v
  <2> DEFINE t == Opening!Up(v, s)
  <2>1. Opening!Pending(v, from, s) = t
    BY <1>1 DEF Opening!Pending
  <2>2. Follows(s, t) /\ (v = 1 => t.jobs = "modern")
    BY UpFollows
  <2> HIDE DEF t
  <2>3. LedgerSound(t)
    BY <2>2, SoundAfter
  <2> QED BY <2>1, <2>2, <2>3
<1>2. CASE ~(from < v)
  <2>1. Opening!Pending(v, from, s) = s
    BY <1>2 DEF Opening!Pending
  <2> QED BY <1>2, <2>1, FollowsNothing
<1> QED BY <1>1, <1>2

(* The last migration that repairs makes whole what an earlier one left.   *)
LEMMA SixthRepairs ==
  ASSUME NEW s, LedgerSound(s), s.jobs # "none", NEW from \in Releases, from < 6
  PROVE  Whole(Opening!Pending(6, from, s))
<1>1. Opening!Pending(6, from, s) = Opening!Repaired(s)
  <2>1. Opening!Pending(6, from, s) = Opening!Up(6, s)
    BY DEF Opening!Pending
  <2>2. ASSUME NEW v \in {2, 3, 4, 6} PROVE Opening!Up(v, s) = Opening!Repaired(s)
    BY DEF Opening!Up
  <2> QED BY <2>1, <2>2
<1> QED BY <1>1, RepairedFollows DEF Whole

(* Whatever version was read, and whoever migrated meanwhile. *)
LEMMA MigratedFollows ==
  ASSUME NEW s, LedgerSound(s), NEW from \in Releases, Stamped(from, s)
  PROVE  Follows(s, Opening!Migrated(from, s)) /\ Whole(Opening!Migrated(from, s))
<1>1. CASE from = 10
  <2>1. Opening!Migrated(from, s) = Opening!Repaired(s)
    BY <1>1 DEF Opening!Migrated, Opening!Current
  <2> QED BY <1>1, <2>1, RepairedFollows DEF Stamped, Whole
<1>2. CASE from # 10
  <2> DEFINE s1 == Opening!Pending(1, from, s)
             s2 == Opening!Pending(2, from, s1)
             s3 == Opening!Pending(3, from, s2)
             s4 == Opening!Pending(4, from, s3)
             s5 == Opening!Pending(5, from, s4)
             s6 == Opening!Pending(6, from, s5)
             s7 == Opening!Pending(7, from, s6)
             s8 == Opening!Pending(8, from, s7)
             s9 == Opening!Pending(9, from, s8)
             s10 == Opening!Pending(10, from, s9)
  <2>1. Opening!Migrated(from, s) = s10
    BY <1>2 DEF Opening!Migrated, Opening!ToFive, Opening!Current
  <2>2. Follows(s, s1) /\ LedgerSound(s1) /\ s1.jobs # "none"
    <3>1. /\ Follows(s, s1) /\ LedgerSound(s1) /\ (from < 1 => s1.jobs = "modern")
      BY PendingFollows
    <3> HIDE DEF s1
    <3>2. from = 0 \/ s.jobs # "none"
      BY DEF Stamped
    <3> QED BY <3>1, <3>2 DEF Follows, Releases
  <2> HIDE DEF s1
  <2>3. Follows(s1, s2) /\ LedgerSound(s2)
    BY <2>2, PendingFollows
  <2> HIDE DEF s2
  <2>4. Follows(s2, s3) /\ LedgerSound(s3)
    BY <2>3, PendingFollows
  <2> HIDE DEF s3
  <2>5. Follows(s3, s4) /\ LedgerSound(s4)
    BY <2>4, PendingFollows
  <2> HIDE DEF s4
  <2>6. Follows(s4, s5) /\ LedgerSound(s5)
    BY <2>5, PendingFollows
  <2> HIDE DEF s5
  <2>7. s5.jobs # "none"
    BY <2>2, <2>3, <2>4, <2>5, <2>6 DEF Follows
  <2>8. Follows(s5, s6) /\ LedgerSound(s6) /\ Whole(s6)
    <3>1. from < 6
      BY <1>2 DEF Releases
    <3>2. Follows(s5, s6) /\ LedgerSound(s6)
      BY <2>6, PendingFollows
    <3>3. Whole(s6)
      BY <2>6, <2>7, <3>1, SixthRepairs
    <3> QED BY <3>2, <3>3
  <2> HIDE DEF s6
  <2>9. Follows(s6, s7) /\ LedgerSound(s7)
    BY <2>8, PendingFollows
  <2> HIDE DEF s7
  <2>10. Follows(s7, s8) /\ LedgerSound(s8)
    BY <2>9, PendingFollows
  <2> HIDE DEF s8
  <2>11. Follows(s8, s9) /\ LedgerSound(s9)
    BY <2>10, PendingFollows
  <2> HIDE DEF s9
  <2>12. Follows(s9, s10)
    BY <2>11, PendingFollows
  <2> HIDE DEF s10
  <2>13. Follows(s, s6) /\ Follows(s6, s10)
    BY <2>2, <2>3, <2>4, <2>5, <2>6, <2>8, <2>9, <2>10, <2>11, <2>12, FollowsTwice
  <2>14. Follows(s, s10) /\ Whole(s10)
    BY <2>8, <2>13, FollowsTwice DEF Follows, Whole
  <2> QED BY <2>1, <2>14
<1> QED BY <1>1, <1>2

-----------------------------------------------------------------------------
(* The steps of the processes *)

LEMMA LedgerRests ==
  ASSUME LedgerInv, UNCHANGED <<ledger, begun>>, NEW p \in Procs,
         NEW e \in [stage : {"closed", "read"}, from : Releases], Stamped(e.from, ledger),
         proc' = [proc EXCEPT ![p] = e]
  PROVE  LedgerInv'
<1>1. /\ proc' \in [Procs -> [stage : {"closed", "read", "open"}, from : Releases]]
      /\ proc'[p] = e /\ \A q \in Procs \ {p} : proc'[q] = proc[q]
  BY DEF LedgerInv
<1>2. ASSUME NEW q \in Procs PROVE Stamped(proc'[q].from, ledger)
  <2>1. CASE q = p
    BY <1>1, <2>1
  <2>2. CASE q # p
    BY <1>1, <2>2 DEF LedgerInv
  <2> QED BY <2>1, <2>2
<1>3. \A q \in Procs : proc'[q].stage = "open" => proc[q].stage = "open"
  BY <1>1
<1> QED BY <1>1, <1>2, <1>3 DEF LedgerInv, LedgerSound, Arrived, InLine, Stamped, Whole,
                                Undisturbed, Answered

LEMMA MigrateKeeps ==
  ASSUME LedgerInv, NEW p \in Procs, Opening!Migrate(p)
  PROVE  LedgerInv'
<1> DEFINE from == proc[p].from
           t == Opening!Migrated(from, ledger)
<1>1. /\ UNCHANGED begun /\ ledger' = [t EXCEPT !.version = 10]
      /\ proc' = [proc EXCEPT ![p].stage = "open"]
  BY DEF Opening!Migrate, Opening!Current
<1>2. LedgerSound(ledger) /\ from \in Releases /\ Stamped(from, ledger)
  BY DEF LedgerInv
<1>3. Follows(ledger, t) /\ Whole(t)
  BY <1>2, MigratedFollows
<1> HIDE DEF t
<1>4. LedgerSound(t)
  BY <1>2, <1>3, SoundAfter
<1>5. /\ ledger' \in Ledgers /\ ledger'.version = 10 /\ ledger'.jobs = t.jobs
      /\ ledger'.parts = t.parts /\ ledger'.chunks = t.chunks /\ ledger'.status = t.status
      /\ ledger'.sequence = t.sequence
  BY <1>1, <1>4 DEF LedgerSound, Ledgers, Releases
<1>6. Opening!There(ledger') = Opening!There(t)
  BY <1>5 DEF Opening!There
<1>7. LedgerSound(ledger')
  BY <1>4, <1>5, <1>6 DEF LedgerSound, Arrived, InLine
<1>8. Whole(ledger') /\ \A v \in Releases : Stamped(v, ledger')
  BY <1>3, <1>5 DEF Whole, Stamped
<1>9. /\ proc' \in [Procs -> [stage : {"closed", "read", "open"}, from : Releases]]
  BY <1>1 DEF LedgerInv
<1>10. \A q \in Procs : proc'[q].from \in Releases
  BY <1>9
<1>11. ASSUME NEW r \in begun
       PROVE  r \in Rows /\ ledger'.jobs = "modern" /\ Undisturbed(r, ledger')
  BY <1>3, <1>5, <1>11 DEF LedgerInv, Whole, Follows, Undisturbed, Answered
<1>12. (LedgerSound(ledger) /\ Stamped(ledger.version, ledger))'
  BY <1>5, <1>7, <1>8 DEF Releases
<1> QED BY <1>1, <1>5, <1>7, <1>8, <1>9, <1>10, <1>11, <1>12 DEF LedgerInv

LEMMA AcceptKeeps ==
  ASSUME LedgerInv, NEW p \in Procs, NEW r \in Rows, Opening!Accept(p, r)
  PROVE  LedgerInv'
<1> DEFINE There == Opening!There(ledger)
           used == {ledger.sequence[q] : q \in {x \in There : Session[x] = Session[r]}}
           n == 1 + Opening!Max({-1} \cup used)
<1>1. /\ proc[p].stage = "open" /\ UNCHANGED <<proc, begun>>
      /\ r \notin There /\ \A q \in Rows : q < r => q \in There
      /\ ledger' = [ledger EXCEPT !.status[r] = "queued", !.sequence[r] = n]
  BY DEF Opening!Accept, Opening!Works
<1>2. ledger \in Ledgers /\ Arrived(ledger) /\ InLine(ledger) /\ Whole(ledger)
  BY <1>1 DEF LedgerInv, LedgerSound, Whole
<1>3. There \in SUBSET Rows /\ IsFiniteSet(There) /\ \A q \in Rows : q \in Nat
  <2>1. There \in SUBSET Rows
    BY DEF Opening!There
  <2> QED BY <2>1, StoresAssumption, FS_Subset
<1>4. used \in SUBSET Nat /\ IsFiniteSet(used)
  <2> DEFINE T == {x \in There : Session[x] = Session[r]}
             f == [q \in T |-> ledger.sequence[q]]
  <2>1. IsFiniteSet(T) /\ T \in SUBSET Rows
    BY <1>3, FS_Subset
  <2>2. used \in SUBSET Nat
    BY <1>2, <2>1 DEF Ledgers
  <2>3. f \in Surjection(T, used)
    BY DEF Surjection
  <2> HIDE DEF f, T, used
  <2> QED BY <2>1, <2>2, <2>3, FS_Surjection
<1>5. n \in Nat /\ \A m \in used : m < n
  <2> HIDE DEF used
  <2> DEFINE U == {-1} \cup used
  <2>1. \E x \in U : \A y \in U : x >= y
    <3>1. CASE used = {}
      BY <3>1
    <3>2. CASE used # {}
      <4>1. PICK x \in used : \A y \in used : y <= x
        BY <1>4, <3>2, Greatest
      <4> QED BY <1>4, <4>1
    <3> QED BY <3>1, <3>2
  <2>2. Opening!Max(U) \in U /\ \A y \in U : Opening!Max(U) >= y
    BY <2>1 DEF Opening!Max
  <2> DEFINE top == Opening!Max(U)
  <2>3. top \in {-1} \cup used /\ \A m \in used : top >= m
    BY <2>2
  <2>4. n = 1 + top
    OBVIOUS
  <2> HIDE DEF top, n, U
  <2>5. \A m \in used : m \in Nat
    BY <1>4
  <2>6. top = -1 \/ top \in Nat
    BY <2>3, <2>5
  <2> QED BY <2>3, <2>4, <2>5, <2>6
<1> HIDE DEF n
<1>6. \A q \in There : Session[q] = Session[r] => ledger.sequence[q] < n
  BY <1>5
<1>7. ledger' = [[ledger EXCEPT !.status = [ledger.status EXCEPT ![r] = "queued"]]
                         EXCEPT !.sequence = [ledger.sequence EXCEPT ![r] = n]]
  BY <1>1, <1>2 DEF Ledgers
<1>8. /\ ledger.status \in [Rows -> Opening!Statuses] /\ ledger.sequence \in [Rows -> Nat]
  BY <1>2 DEF Ledgers
<1>9. /\ ledger' \in Ledgers /\ ledger'.version = ledger.version /\ ledger'.jobs = ledger.jobs
      /\ ledger'.parts = ledger.parts /\ ledger'.chunks = ledger.chunks
      /\ ledger'.status = [ledger.status EXCEPT ![r] = "queued"]
      /\ ledger'.sequence = [ledger.sequence EXCEPT ![r] = n]
  <2> DEFINE F == [ledger.status EXCEPT ![r] = "queued"]
             N == [ledger.sequence EXCEPT ![r] = n]
  <2>1. F \in [Rows -> Opening!Statuses] /\ N \in [Rows -> Nat]
    BY <1>5, <1>8 DEF Opening!Statuses
  <2> HIDE DEF F, N
  <2> QED BY <1>2, <1>7, <2>1 DEF Ledgers, F, N
<1>10. Opening!There(ledger') = There \cup {r}
  BY <1>8, <1>9 DEF Opening!There
<1> HIDE DEF There
<1>11. Arrived(ledger')
  BY <1>1, <1>2, <1>3, <1>10 DEF Arrived, There
<1>12. InLine(ledger')
  <2> SUFFICES ASSUME NEW q \in There \cup {r}, NEW x \in There \cup {r},
                      Session[q] = Session[x], q < x
               PROVE  ledger'.sequence[q] < ledger'.sequence[x]
    BY <1>10 DEF InLine
  <2>1. q \in Rows /\ x \in Rows /\ q \in Nat /\ x \in Nat
    BY <1>3
  <2>2. CASE q = r
    <3>1. x \in There /\ r \in There
      BY <1>2, <2>1, <2>2 DEF Arrived, There
    <3> QED BY <1>1, <3>1
  <2>3. CASE q # r /\ x = r
    BY <1>6, <1>8, <1>9, <2>1, <2>3
  <2>4. CASE q # r /\ x # r
    BY <1>2, <1>8, <1>9, <2>1, <2>4 DEF InLine, There
  <2> QED BY <2>2, <2>3, <2>4
<1>13. (LedgerSound(ledger) /\ Stamped(ledger.version, ledger) /\ Whole(ledger))'
  BY <1>2, <1>9, <1>11, <1>12 DEF LedgerSound, Whole, Stamped
<1>14. \A q \in Procs : Stamped(proc[q].from, ledger')
  BY <1>2, <1>9 DEF Stamped, Whole
<1>15. \A q \in begun : Undisturbed(q, ledger')
  <2> SUFFICES ASSUME NEW q \in begun PROVE Undisturbed(q, ledger')
    OBVIOUS
  <2>1. q \in Rows /\ Undisturbed(q, ledger)
    BY DEF LedgerInv
  <2>2. q \in There
    BY <2>1 DEF Undisturbed, There, Opening!There
  <2>3. q # r
    BY <1>1, <2>2
  <2> QED BY <1>8, <1>9, <2>1, <2>3 DEF Undisturbed, Answered
<1> QED BY <1>1, <1>9, <1>13, <1>14, <1>15 DEF LedgerInv, Whole

(* A row changes its status where it stands. *)
LEMMA StatusKeeps ==
  ASSUME LedgerInv, NEW r \in Rows, NEW w \in {"running", "completed"}, UNCHANGED proc,
         \E p \in Procs : proc[p].stage = "open", ledger.status[r] # "none",
         NEW C \in SUBSET Pieces, ledger.chunks \subseteq C,
         ledger' = [ledger EXCEPT !.status[r] = w, !.chunks = C],
         w = "completed" => {Opening!Chunk(r, 0), Opening!Chunk(r, 1)} \subseteq C,
         begun' \in {begun, begun \cup {r}}
  PROVE  LedgerInv'
<1>1. ledger \in Ledgers /\ Arrived(ledger) /\ InLine(ledger) /\ Whole(ledger)
  BY DEF LedgerInv, LedgerSound, Whole
<1> DEFINE F == [ledger.status EXCEPT ![r] = w]
<1>2. ledger' = [[ledger EXCEPT !.status = F] EXCEPT !.chunks = C]
  BY <1>1 DEF Ledgers
<1>3. /\ F \in [Rows -> Opening!Statuses] /\ F[r] = w
      /\ \A q \in Rows \ {r} : F[q] = ledger.status[q]
  BY <1>1 DEF Ledgers, Opening!Statuses
<1> HIDE DEF F
<1>4. /\ ledger' \in Ledgers /\ ledger'.version = ledger.version /\ ledger'.jobs = ledger.jobs
      /\ ledger'.parts = ledger.parts /\ ledger'.chunks = C
      /\ ledger'.status = F /\ ledger'.sequence = ledger.sequence
  BY <1>1, <1>2, <1>3 DEF Ledgers
<1>5. Opening!There(ledger') = Opening!There(ledger)
  BY <1>3, <1>4 DEF Opening!There
<1>6. (LedgerSound(ledger) /\ Stamped(ledger.version, ledger) /\ Whole(ledger))'
  BY <1>1, <1>4, <1>5 DEF LedgerSound, Arrived, InLine, Whole, Stamped
<1>7. \A q \in Procs : Stamped(proc[q].from, ledger')
  BY <1>1, <1>4 DEF Stamped, Whole
<1>8. begun \subseteq Rows /\ begun' \subseteq Rows
  BY DEF LedgerInv
<1>9. \A q \in begun' : Undisturbed(q, ledger')
  <2> SUFFICES ASSUME NEW q \in begun' PROVE Undisturbed(q, ledger')
    OBVIOUS
  <2>1. CASE q = r
    BY <1>3, <1>4, <2>1 DEF Undisturbed, Answered
  <2>2. CASE q # r
    <3>1. q \in Rows /\ Undisturbed(q, ledger)
      BY <1>8, <2>2 DEF LedgerInv
    <3> QED BY <1>3, <1>4, <2>2, <3>1 DEF Undisturbed, Answered
  <2> QED BY <2>1, <2>2
<1> QED BY <1>1, <1>4, <1>6, <1>7, <1>8, <1>9 DEF LedgerInv, Whole

LEMMA ClaimKeeps ==
  ASSUME LedgerInv, NEW p \in Procs, NEW r \in Rows, Opening!Claim(p, r)
  PROVE  LedgerInv'
<1>1. /\ proc[p].stage = "open" /\ UNCHANGED proc /\ ledger.status[r] = "queued"
      /\ ledger' = [ledger EXCEPT !.status[r] = "running"] /\ begun' = begun \cup {r}
  BY DEF Opening!Claim, Opening!Works
<1>2. ledger \in Ledgers
  BY DEF LedgerInv, LedgerSound
<1>3. ledger' = [ledger EXCEPT !.status[r] = "running", !.chunks = ledger.chunks]
  BY <1>1, <1>2 DEF Ledgers
<1>4. ledger.chunks \in SUBSET Pieces
  BY <1>2 DEF Ledgers
<1> QED BY <1>1, <1>3, <1>4, StatusKeeps

LEMMA CompleteKeeps ==
  ASSUME LedgerInv, NEW p \in Procs, NEW r \in Rows, Opening!Complete(p, r)
  PROVE  LedgerInv'
<1> DEFINE C == ledger.chunks \cup {Opening!Chunk(r, 0), Opening!Chunk(r, 1)}
<1>1. /\ proc[p].stage = "open" /\ UNCHANGED <<proc, begun>> /\ ledger.status[r] = "running"
      /\ ledger' = [ledger EXCEPT !.status[r] = "completed", !.chunks = C]
  BY DEF Opening!Complete, Opening!Works
<1>2. ledger.chunks \in SUBSET Pieces
  BY DEF LedgerInv, LedgerSound, Ledgers
<1>3. C \in SUBSET Pieces
  BY <1>2 DEF Pieces, Opening!Chunk
<1>4. ledger.chunks \subseteq C /\ {Opening!Chunk(r, 0), Opening!Chunk(r, 1)} \subseteq C
  OBVIOUS
<1> HIDE DEF C
<1> QED BY <1>1, <1>3, <1>4, StatusKeeps

LEMMA OpeningInit == Opening!Init => LedgerInv
<1> SUFFICES ASSUME Opening!Init PROVE LedgerInv
  OBVIOUS
<1>1. /\ proc = [p \in Procs |-> [stage |-> "closed", from |-> 0]] /\ begun = {}
      /\ ledger \in {Opening!NoStore} \cup Opening!First \cup Opening!Partial \cup Opening!Stale
  BY DEF Opening!Init, Opening!Closed
<1> DEFINE None == [r \in Rows |-> "none"]
           Zero == [r \in Rows |-> 0]
<1>2. None \in [Rows -> Opening!Statuses] /\ Zero \in [Rows -> Nat]
  BY DEF Opening!Statuses
<1>3. Opening!NoStore = [version |-> 0, jobs |-> "none", parts |-> {}, chunks |-> {},
                         status |-> None, sequence |-> Zero]
  BY DEF Opening!NoStore
<1>4. Legacy \in SUBSET Rows /\ \A r \in Legacy, q \in Rows : q < r => q \in Legacy
  BY StoresAssumption
<1>5. CASE ledger = Opening!NoStore
  <2>1. \A r \in Rows : ledger.status[r] = "none"
    BY <1>3, <1>5
  <2>2. Opening!There(ledger) = {}
    BY <2>1 DEF Opening!There
  <2> HIDE DEF None, Zero
  <2>3. LedgerSound(ledger) /\ Stamped(ledger.version, ledger)
    BY <1>2, <1>3, <1>5, <2>2 DEF LedgerSound, Arrived, Ledgers, Releases, Stamped
  <2> QED BY <1>1, <2>3 DEF LedgerInv, Releases, Stamped
<1>6. CASE ledger \in Opening!First
  <2>1. PICK v \in {0, 1}, f \in Opening!Statused : ledger = Opening!Oldest(v, f)
    BY <1>6 DEF Opening!First
  <2> DEFINE C == {Opening!Keyless(r) : r \in {x \in Legacy : f[x] = "completed"}}
  <2>2. C \in SUBSET Pieces
    BY <1>4 DEF Pieces, Opening!Keyless
  <2>3. f \in [Rows -> Opening!Statuses] /\ \A r \in Rows : f[r] = "none" <=> r \notin Legacy
    BY DEF Opening!Statused
  <2> HIDE DEF None, Zero
  <2>4. ledger = [version |-> v, jobs |-> "legacy", parts |-> {}, chunks |-> C,
                  status |-> f, sequence |-> Zero]
    BY <1>3, <2>1 DEF Opening!Oldest
  <2> HIDE DEF C
  <2>5. /\ ledger \in Ledgers /\ ledger.jobs = "legacy" /\ ledger.version \in {0, 1}
        /\ ledger.status = f
    BY <1>2, <2>2, <2>3, <2>4 DEF Ledgers, Releases
  <2>6. Opening!There(ledger) = Legacy
    BY <1>4, <2>3, <2>5 DEF Opening!There
  <2>7. LedgerSound(ledger) /\ Stamped(ledger.version, ledger)
    BY <1>4, <2>5, <2>6 DEF LedgerSound, Arrived, Stamped
  <2> QED BY <1>1, <2>7 DEF LedgerInv, Releases, Stamped
<1>7. CASE ledger \in Opening!Partial \cup Opening!Stale
  <2> DEFINE N == [r \in Rows |-> IF r \in Legacy THEN Opening!Position(r, Legacy) ELSE 0]
             W == [r \in Rows |-> IF r \in Legacy THEN "queued" ELSE "none"]
  <2>1. PICK v \in Releases, P \in SUBSET Opening!Tables :
          ledger = [version |-> v, jobs |-> "modern", parts |-> P, chunks |-> {},
                    status |-> W, sequence |-> N]
    <3>1. CASE ledger \in Opening!Partial
      <4>1. PICK P \in {{}, Opening!Base, {"deliveries", "completed_at", "cursors"}} :
              ledger = [version |-> 2, jobs |-> "modern", parts |-> P, chunks |-> {},
                        status |-> W, sequence |-> N]
        BY <1>3, <3>1 DEF Opening!Partial, Opening!Ordered, Opening!Waiting
      <4>2. P \in SUBSET Opening!Tables
        BY DEF Opening!Tables, Opening!Base
      <4> HIDE DEF N, W
      <4> QED BY <4>1, <4>2 DEF Releases
    <3>2. CASE ledger \in Opening!Stale
      <4>1. PICK v \in {5, 10}, P \in {Opening!Tables, {"deliveries"}, {"completed_at"}} :
              ledger = [version |-> v, jobs |-> "modern", parts |-> Opening!Tables \ P,
                        chunks |-> {}, status |-> W, sequence |-> N]
        <5>1. PICK v \in {5, 10}, P \in {Opening!Tables, {"deliveries"}, {"completed_at"}} :
                ledger = [[Opening!NoStore EXCEPT !.version = v, !.jobs = "modern",
                             !.parts = Opening!Tables \ P, !.status = W] EXCEPT !.sequence = N]
          BY <3>2 DEF Opening!Stale, Opening!Ordered, Opening!Waiting, Opening!Current
        <5> HIDE DEF N, W, None, Zero
        <5>2. ledger = [version |-> v, jobs |-> "modern", parts |-> Opening!Tables \ P,
                        chunks |-> {}, status |-> W, sequence |-> N]
          BY <1>3, <5>1
        <5> QED BY <5>2
      <4> HIDE DEF N, W
      <4> QED BY <4>1 DEF Releases
    <3> QED BY <1>7, <3>1, <3>2
  <2>2. N \in [Rows -> Nat] /\ \A r \in Legacy : N[r] = Opening!Position(r, Legacy)
    BY <1>4, PositionsInLine
  <2>3. W \in [Rows -> Opening!Statuses] /\ \A r \in Rows : W[r] # "none" <=> r \in Legacy
    BY DEF Opening!Statuses
  <2> HIDE DEF N, W
  <2>4. /\ ledger \in Ledgers /\ ledger.jobs = "modern" /\ ledger.version = v
        /\ ledger.status = W /\ ledger.sequence = N
    BY <2>1, <2>2, <2>3 DEF Ledgers
  <2>5. Opening!There(ledger) = Legacy
    BY <1>4, <2>3, <2>4 DEF Opening!There
  <2>6. InLine(ledger)
    BY <1>4, <2>2, <2>4, <2>5, PositionsInLine DEF InLine
  <2>7. LedgerSound(ledger) /\ Stamped(ledger.version, ledger)
    BY <1>4, <2>4, <2>5, <2>6 DEF LedgerSound, Arrived, Stamped
  <2> QED BY <1>1, <2>7 DEF LedgerInv, Releases, Stamped
<1> QED BY <1>1, <1>5, <1>6, <1>7

LEMMA OpeningStep == LedgerInv /\ [Opening!Next]_(Opening!vars) => LedgerInv'
<1> SUFFICES ASSUME LedgerInv, [Opening!Next]_(Opening!vars) PROVE LedgerInv'
  OBVIOUS
<1>1. ASSUME NEW p \in Procs, Opening!Read(p) PROVE LedgerInv'
  <2> DEFINE e == [stage |-> "read", from |-> ledger.version]
  <2>1. proc' = [proc EXCEPT ![p] = e] /\ UNCHANGED <<ledger, begun>>
    BY <1>1 DEF Opening!Read
  <2>2. e \in [stage : {"closed", "read"}, from : Releases] /\ Stamped(e.from, ledger)
    BY DEF LedgerInv, LedgerSound, Ledgers
  <2> HIDE DEF e
  <2> QED BY <2>1, <2>2, LedgerRests
<1>2. ASSUME NEW p \in Procs, Opening!Crash(p) PROVE LedgerInv'
  <2> DEFINE e == [stage |-> "closed", from |-> 0]
  <2>1. proc' = [proc EXCEPT ![p] = e] /\ UNCHANGED <<ledger, begun>>
    BY <1>2 DEF Opening!Crash, Opening!Closed
  <2>2. e \in [stage : {"closed", "read"}, from : Releases] /\ Stamped(e.from, ledger)
    BY DEF Stamped, Releases
  <2> HIDE DEF e
  <2> QED BY <2>1, <2>2, LedgerRests
<1>3. CASE UNCHANGED Opening!vars
  <2>1. UNCHANGED <<ledger, proc, begun>>
    BY <1>3 DEF Opening!vars
  <2> QED BY <2>1 DEF LedgerInv, LedgerSound, Arrived, InLine, Stamped, Whole,
                      Undisturbed, Answered, Opening!There
<1>4. ASSUME NEW p \in Procs, Opening!Migrate(p) \/ \E r \in Rows :
               Opening!Accept(p, r) \/ Opening!Claim(p, r) \/ Opening!Complete(p, r)
      PROVE  LedgerInv'
  BY <1>4, MigrateKeeps, AcceptKeeps, ClaimKeeps, CompleteKeeps
<1> QED BY <1>1, <1>2, <1>3, <1>4 DEF Opening!Next

(* queue/repository.ts:465-837: whatever release left the ledger, and      *)
(* however many processes open it at once, one that has it open finds      *)
(* every table it uses, and no migration, planned before another process   *)
(* did it, requeues a claimed row, breaks the order of a session or loses  *)
(* the place of a chunk.                                                   *)
THEOREM UpgradesKeepTheLedger == Spec => []UpgradeKeepsLedger
<1>1. Opening!Spec => []LedgerInv
  BY OpeningInit, OpeningStep, PTL DEF Opening!Spec
<1> QED BY OpeningPart, <1>1, LedgerTruthful, PTL

-----------------------------------------------------------------------------
(* Where the sessions of a context lie: the trail from the live session *)

Points(V) == {c.op : c \in Conversation!Checkpoints(V)}

Bounded(st, S, mode) ==
  /\ Conversation!Live \in S
  /\ \A s \in S : Conversation!Ends(st[s], mode) \/ Points(st[s]) \cap DOMAIN st \subseteq S

Trail(st, mode) ==
  {s \in DOMAIN st : \A S \in SUBSET DOMAIN st : Bounded(st, S, mode) => s \in S}

LEMMA SegmentsTrail == ASSUME NEW mode PROVE Conversation!Segments(mode) = Trail(store, mode)
BY DEF Conversation!Segments, Conversation!Reached, Trail, Bounded, Points

LEMMA TrailWhole ==
  ASSUME NEW st, NEW mode, Conversation!Live \in DOMAIN st
  PROVE  Trail(st, mode) \subseteq DOMAIN st /\ Bounded(st, Trail(st, mode), mode)
<1>1. Trail(st, mode) \subseteq DOMAIN st /\ Conversation!Live \in Trail(st, mode)
  BY DEF Trail, Bounded
<1>2. ASSUME NEW s \in Trail(st, mode), ~Conversation!Ends(st[s], mode),
             NEW o \in Points(st[s]) \cap DOMAIN st
      PROVE  o \in Trail(st, mode)
  <2>1. ASSUME NEW S \in SUBSET DOMAIN st, Bounded(st, S, mode) PROVE o \in S
    <3>1. s \in S
      BY <2>1 DEF Trail
    <3> QED BY <1>2, <2>1, <3>1 DEF Bounded
  <2> QED BY <2>1 DEF Trail
<1> QED BY <1>1, <1>2 DEF Bounded

LEMMA TrailLeast ==
  ASSUME NEW st, NEW mode, NEW S \in SUBSET DOMAIN st, Bounded(st, S, mode)
  PROVE  Trail(st, mode) \subseteq S
BY DEF Trail

LEMMA TrailEnds ==
  ASSUME NEW st, NEW mode, Conversation!Live \in DOMAIN st,
         \/ Conversation!Ends(st[Conversation!Live], mode)
         \/ Conversation!Checkpoints(st[Conversation!Live]) = {}
  PROVE  Trail(st, mode) = {Conversation!Live}
<1>1. Points(st[Conversation!Live]) = {} \/ Conversation!Ends(st[Conversation!Live], mode)
  BY DEF Points
<1>2. Bounded(st, {Conversation!Live}, mode)
  BY <1>1 DEF Bounded
<1>3. Trail(st, mode) \subseteq {Conversation!Live}
  BY <1>2, TrailLeast
<1> QED BY <1>3, TrailWhole DEF Bounded

LEMMA TrailSame ==
  ASSUME NEW st, NEW tt, NEW mode, DOMAIN tt = DOMAIN st,
         \A s \in DOMAIN st :
           Conversation!Checkpoints(tt[s]) = Conversation!Checkpoints(st[s])
  PROVE  Trail(tt, mode) = Trail(st, mode)
<1>1. ASSUME NEW S \in SUBSET DOMAIN st
      PROVE  Bounded(tt, S, mode) <=> Bounded(st, S, mode)
  <2>1. ASSUME NEW s \in S
        PROVE  /\ Conversation!Ends(tt[s], mode) <=> Conversation!Ends(st[s], mode)
               /\ Points(tt[s]) = Points(st[s])
    BY DEF Conversation!Ends, Points
  <2> QED BY <2>1 DEF Bounded
<1> QED BY <1>1 DEF Trail

(* A compaction of one kind puts the live session behind its archive for *)
(* the contexts of the other kind. *)
Archived(st, n, V) ==
  [s \in DOMAIN st \cup {n} |->
     IF s = Conversation!Live THEN V
     ELSE IF s = n THEN st[Conversation!Live] ELSE st[s]]

Moved(n, s) == IF s = Conversation!Live THEN n ELSE s

LEMMA TrailArchived ==
  ASSUME NEW st, NEW mode, NEW V, NEW n, Conversation!Live \in DOMAIN st,
         n # Conversation!Live, n \notin DOMAIN st,
         Points(V) = {n}, ~Conversation!Ends(V, mode),
         \A s \in DOMAIN st : Points(st[s]) \subseteq DOMAIN st \ {Conversation!Live}
  PROVE  Trail(Archived(st, n, V), mode) =
           {Conversation!Live} \cup {Moved(n, s) : s \in Trail(st, mode)}
<1> DEFINE tt == Archived(st, n, V)
           T == Trail(st, mode)
           U == {Conversation!Live} \cup {Moved(n, s) : s \in T}
<1>1. /\ DOMAIN tt = DOMAIN st \cup {n} /\ tt[Conversation!Live] = V
      /\ \A s \in DOMAIN st : tt[Moved(n, s)] = st[s]
  BY DEF Archived, Moved
<1>2. Bounded(st, T, mode) /\ T \subseteq DOMAIN st
  BY TrailWhole
<1> HIDE DEF tt, T
<1>3. Trail(tt, mode) \subseteq U
  <2>1. U \in SUBSET DOMAIN tt
    BY <1>1, <1>2 DEF Moved
  <2>2. n \in U
    BY <1>2 DEF Bounded, Moved
  <2>3. ASSUME NEW s \in T, ~Conversation!Ends(tt[Moved(n, s)], mode),
               NEW o \in Points(tt[Moved(n, s)]) \cap DOMAIN tt
        PROVE  o \in U
    <3>1. tt[Moved(n, s)] = st[s]
      BY <1>1, <1>2
    <3>2. o \in DOMAIN st /\ o # Conversation!Live
      BY <1>2, <2>3, <3>1
    <3>3. o \in T
      BY <1>2, <2>3, <3>1, <3>2 DEF Bounded
    <3> QED BY <3>2, <3>3 DEF Moved
  <2>4. ASSUME NEW s \in U, ~Conversation!Ends(tt[s], mode)
        PROVE  Points(tt[s]) \cap DOMAIN tt \subseteq U
    <3>1. CASE s = Conversation!Live
      BY <1>1, <2>2, <3>1
    <3>2. CASE s # Conversation!Live
      BY <2>3, <2>4, <3>2
    <3> QED BY <3>1, <3>2
  <2>5. Bounded(tt, U, mode)
    <3> HIDE DEF U
    <3>1. Conversation!Live \in U
      BY DEF U
    <3> QED BY <2>4, <3>1 DEF Bounded
  <2> HIDE DEF U
  <2> QED BY <2>1, <2>5, TrailLeast
<1>4. U \subseteq Trail(tt, mode)
  <2>1. ASSUME NEW S \in SUBSET DOMAIN tt, Bounded(tt, S, mode), NEW s \in T
        PROVE  Moved(n, s) \in S
    <3> DEFINE R == {t \in DOMAIN st : Moved(n, t) \in S}
    <3>1. Conversation!Live \in S /\ n \in S
      BY <1>1, <2>1 DEF Bounded
    <3>2. Conversation!Live \in R
      BY <3>1 DEF Moved
    <3>3. ASSUME NEW t \in R, ~Conversation!Ends(st[t], mode),
                 NEW o \in Points(st[t]) \cap DOMAIN st
          PROVE  o \in R
      <4>1. tt[Moved(n, t)] = st[t] /\ Moved(n, t) \in S
        BY <1>1
      <4>2. o \in S
        BY <1>1, <2>1, <3>3, <4>1 DEF Bounded
      <4>3. o # Conversation!Live
        BY <3>3
      <4> QED BY <4>2, <4>3 DEF Moved
    <3>4. Bounded(st, R, mode)
      <4> HIDE DEF R
      <4> QED BY <3>2, <3>3 DEF Bounded
    <3>5. T \subseteq R
      BY <3>4, TrailLeast DEF T
    <3> QED BY <3>5
  <2>2. \A s \in T : Moved(n, s) \in DOMAIN tt
    BY <1>1, <1>2 DEF Moved
  <2>3. \A s \in T : Moved(n, s) \in Trail(tt, mode)
    BY <2>1, <2>2 DEF Trail
  <2>4. Conversation!Live \in Trail(tt, mode)
    BY <1>1, TrailWhole DEF Bounded
  <2> QED BY <2>3, <2>4
<1> QED BY <1>3, <1>4 DEF tt, T

(* What a session adds to the full context, and to the one of the finals *)
FullPart(V) ==
  {e.id : e \in {x \in V : x.type \in {"user", "final"}}} \cup
  UNION {c.covers : c \in {x \in Conversation!Checkpoints(V) : x.mode = "full"}}

FinalsIn(V, R) ==
  {e \in V : e.type = "final" /\ \E r \in R :
      Conversation!Published(r) /\ r.assistant = e.id /\ \E u \in V : u.id = r.user}

FinalPart(V, R) ==
  {e.id : e \in FinalsIn(V, R)} \cup
  UNION {c.covers : c \in {x \in Conversation!Checkpoints(V) : x.mode = "final-only"}}

FullIds(st) == UNION {FullPart(st[s]) : s \in Trail(st, "full")}
FinalIds(st, R) == UNION {FinalPart(st[s], R) : s \in Trail(st, "final-only")}

LEMMA FullHeld ==
  Conversation!Carries(Conversation!FullView) = FullIds(store)
<1> DEFINE W == Conversation!FullView
           T == Trail(store, "full")
<1>1. Conversation!Segments("full") = T
  BY SegmentsTrail
<1> HIDE DEF T
<1>2. \A e : e.type \in {"user", "final", "checkpoint"} =>
        (e \in W <=> \E s \in T : e \in store[s] /\ (e.type = "checkpoint" => e.mode = "full"))
  BY <1>1 DEF Conversation!FullView, Conversation!Initial, Conversation!History,
              Conversation!Initials
<1> HIDE DEF W
<1>3. ASSUME NEW x PROVE x \in Conversation!Carries(W) <=> x \in FullIds(store)
  <2>1. x \in Conversation!Carries(W) <=>
          \/ \E e \in W : e.type \in {"user", "final"} /\ x = e.id
          \/ \E c \in W : c.type = "checkpoint" /\ x \in c.covers
    BY DEF Conversation!Carries, Conversation!Checkpoints
  <2>2. x \in FullIds(store) <=>
          \/ \E s \in T : \E e \in store[s] : e.type \in {"user", "final"} /\ x = e.id
          \/ \E s \in T : \E c \in store[s] : c.type = "checkpoint" /\ c.mode = "full"
                                              /\ x \in c.covers
    BY DEF FullIds, FullPart, Conversation!Checkpoints, T
  <2> QED BY <1>2, <2>1, <2>2
<1> QED BY <1>3 DEF W

LEMMA FinalHeld ==
  Conversation!Carries(Conversation!FinalView) = FinalIds(store, refs)
<1> DEFINE W == Conversation!FinalView
           T == Trail(store, "final-only")
<1>1. Conversation!Segments("final-only") = T
  BY SegmentsTrail
<1> HIDE DEF T
<1>2. \A e : e \in W <=>
        \E s \in T : \/ e \in store[s] /\ e.type = "checkpoint" /\ e.mode = "final-only"
                     \/ e \in FinalsIn(store[s], refs)
  BY <1>1 DEF Conversation!FinalView, Conversation!Finals, Conversation!Checkpoints, FinalsIn
<1> HIDE DEF W
<1>3. \A V : \A e \in FinalsIn(V, refs) : e.type = "final"
  BY DEF FinalsIn
<1>4. ASSUME NEW x PROVE x \in Conversation!Carries(W) <=> x \in FinalIds(store, refs)
  <2>1. x \in Conversation!Carries(W) <=>
          \/ \E e \in W : e.type \in {"user", "final"} /\ x = e.id
          \/ \E c \in W : c.type = "checkpoint" /\ x \in c.covers
    BY DEF Conversation!Carries, Conversation!Checkpoints
  <2>2. x \in FinalIds(store, refs) <=>
          \/ \E s \in T : \E e \in FinalsIn(store[s], refs) : x = e.id
          \/ \E s \in T : \E c \in store[s] : c.type = "checkpoint" /\ c.mode = "final-only"
                                              /\ x \in c.covers
    BY DEF FinalIds, FinalPart, Conversation!Checkpoints, T
  <2> QED BY <1>2, <1>3, <2>1, <2>2
<1> QED BY <1>4 DEF W

LEMMA IdsWhenEnded ==
  ASSUME NEW st, Conversation!Live \in DOMAIN st, NEW R
  PROVE  /\ \/ Conversation!Ends(st[Conversation!Live], "full")
            \/ Conversation!Checkpoints(st[Conversation!Live]) = {}
            => FullIds(st) = FullPart(st[Conversation!Live])
         /\ \/ Conversation!Ends(st[Conversation!Live], "final-only")
            \/ Conversation!Checkpoints(st[Conversation!Live]) = {}
            => FinalIds(st, R) = FinalPart(st[Conversation!Live], R)
<1>1. ASSUME \/ Conversation!Ends(st[Conversation!Live], "full")
             \/ Conversation!Checkpoints(st[Conversation!Live]) = {}
      PROVE  FullIds(st) = FullPart(st[Conversation!Live])
  <2>1. Trail(st, "full") = {Conversation!Live}
    BY <1>1, TrailEnds
  <2> QED BY <2>1 DEF FullIds
<1>2. ASSUME \/ Conversation!Ends(st[Conversation!Live], "final-only")
             \/ Conversation!Checkpoints(st[Conversation!Live]) = {}
      PROVE  FinalIds(st, R) = FinalPart(st[Conversation!Live], R)
  <2>1. Trail(st, "final-only") = {Conversation!Live}
    BY <1>2, TrailEnds
  <2> QED BY <2>1 DEF FinalIds
<1> QED BY <1>1, <1>2

LEMMA IdsAppended ==
  ASSUME NEW st, Conversation!Live \in DOMAIN st, NEW e, e.type # "checkpoint", NEW R,
         \A r \in R : r.user # e.id /\ r.assistant # e.id
  PROVE  LET tt == [st EXCEPT ![Conversation!Live] = @ \cup {e}] IN
         /\ e.type \in {"user", "final"} => FullIds(tt) = FullIds(st) \cup {e.id}
         /\ e.type \notin {"user", "final"} => FullIds(tt) = FullIds(st)
         /\ FinalIds(tt, R) = FinalIds(st, R)
<1> DEFINE L == Conversation!Live
           tt == [st EXCEPT ![L] = @ \cup {e}]
<1>1. /\ DOMAIN tt = DOMAIN st /\ tt[L] = st[L] \cup {e}
      /\ \A s \in DOMAIN st : s # L => tt[s] = st[s]
  OBVIOUS
<1> HIDE DEF tt
<1>2. \A s \in DOMAIN st :
        Conversation!Checkpoints(tt[s]) = Conversation!Checkpoints(st[s])
  BY <1>1 DEF Conversation!Checkpoints
<1>3. \A m \in {"full", "final-only"} :
        Trail(tt, m) = Trail(st, m) /\ L \in Trail(st, m) /\ Trail(st, m) \subseteq DOMAIN st
  BY <1>1, <1>2, TrailSame, TrailWhole DEF Bounded
<1>4. ASSUME NEW s \in DOMAIN st
      PROVE  /\ s # L => FullPart(tt[s]) = FullPart(st[s])
             /\ e.type \notin {"user", "final"} => FullPart(tt[s]) = FullPart(st[s])
             /\ s = L /\ e.type \in {"user", "final"} =>
                  FullPart(tt[s]) = FullPart(st[s]) \cup {e.id}
             /\ FinalPart(tt[s], R) = FinalPart(st[s], R)
  <2>1. Conversation!Checkpoints(tt[s]) = Conversation!Checkpoints(st[s])
    BY <1>2
  <2>2. CASE s # L
    BY <1>1, <2>2
  <2>3. CASE s = L
    <3>1. FinalsIn(tt[s], R) = FinalsIn(st[s], R)
      BY <1>1, <2>3 DEF FinalsIn
    <3>2. FinalPart(tt[s], R) = FinalPart(st[s], R)
      BY <2>1, <3>1 DEF FinalPart
    <3>3. CASE e.type \in {"user", "final"}
      <4>1. {x.id : x \in {y \in tt[s] : y.type \in {"user", "final"}}} =
            {x.id : x \in {y \in st[s] : y.type \in {"user", "final"}}} \cup {e.id}
        BY <1>1, <2>3, <3>3
      <4> QED BY <2>1, <2>3, <3>2, <3>3, <4>1 DEF FullPart
    <3>4. CASE e.type \notin {"user", "final"}
      <4>1. {y \in tt[s] : y.type \in {"user", "final"}} =
            {y \in st[s] : y.type \in {"user", "final"}}
        BY <1>1, <2>3, <3>4
      <4> QED BY <2>1, <2>3, <3>2, <3>4, <4>1 DEF FullPart
    <3> QED BY <3>3, <3>4
  <2> QED BY <2>2, <2>3
<1>5. FinalIds(tt, R) = FinalIds(st, R)
  BY <1>3, <1>4 DEF FinalIds
<1>6. CASE e.type \in {"user", "final"}
  <2>1. FullIds(tt) = FullIds(st) \cup {e.id}
    <3>1. ASSUME NEW x PROVE x \in FullIds(tt) <=> x \in FullIds(st) \cup {e.id}
      <4>1. x \in FullIds(tt) <=> \E s \in Trail(st, "full") : x \in FullPart(tt[s])
        BY <1>3 DEF FullIds
      <4>2. x \in FullIds(st) <=> \E s \in Trail(st, "full") : x \in FullPart(st[s])
        BY DEF FullIds
      <4> QED BY <1>3, <1>4, <1>6, <4>1, <4>2
    <3> QED BY <3>1
  <2> QED BY <1>5, <1>6, <2>1 DEF tt
<1>7. CASE e.type \notin {"user", "final"}
  <2>1. FullIds(tt) = FullIds(st)
    BY <1>3, <1>4, <1>7 DEF FullIds
  <2> QED BY <1>5, <1>7, <2>1 DEF tt
<1> QED BY <1>6, <1>7

LEMMA IdsArchived ==
  ASSUME NEW st, NEW V, NEW n, NEW R, Conversation!Live \in DOMAIN st,
         n # Conversation!Live, n \notin DOMAIN st, Points(V) = {n},
         \A s \in DOMAIN st : Points(st[s]) \subseteq DOMAIN st \ {Conversation!Live}
  PROVE  /\ ~Conversation!Ends(V, "full") =>
              FullIds(Archived(st, n, V)) = FullPart(V) \cup FullIds(st)
         /\ ~Conversation!Ends(V, "final-only") =>
              FinalIds(Archived(st, n, V), R) = FinalPart(V, R) \cup FinalIds(st, R)
<1> DEFINE tt == Archived(st, n, V)
<1>1. /\ tt[Conversation!Live] = V
      /\ \A s \in DOMAIN st : tt[Moved(n, s)] = st[s]
  BY DEF Archived, Moved
<1>2. \A m \in {"full", "final-only"} : Trail(st, m) \subseteq DOMAIN st
  BY TrailWhole
<1> HIDE DEF tt
<1>3. ASSUME ~Conversation!Ends(V, "full")
      PROVE  FullIds(tt) = FullPart(V) \cup FullIds(st)
  <2>1. Trail(tt, "full") =
          {Conversation!Live} \cup {Moved(n, s) : s \in Trail(st, "full")}
    BY <1>3, TrailArchived DEF tt
  <2>2. ASSUME NEW x PROVE x \in FullIds(tt) <=> x \in FullPart(V) \cup FullIds(st)
    <3>1. x \in FullIds(tt) <=> \/ x \in FullPart(tt[Conversation!Live])
                                \/ \E s \in Trail(st, "full") : x \in FullPart(tt[Moved(n, s)])
      BY <2>1 DEF FullIds
    <3>2. x \in FullIds(st) <=> \E s \in Trail(st, "full") : x \in FullPart(st[s])
      BY DEF FullIds
    <3> QED BY <1>1, <1>2, <3>1, <3>2
  <2> QED BY <2>2
<1>4. ASSUME ~Conversation!Ends(V, "final-only")
      PROVE  FinalIds(tt, R) = FinalPart(V, R) \cup FinalIds(st, R)
  <2>1. Trail(tt, "final-only") =
          {Conversation!Live} \cup {Moved(n, s) : s \in Trail(st, "final-only")}
    BY <1>4, TrailArchived DEF tt
  <2>2. ASSUME NEW x PROVE x \in FinalIds(tt, R) <=> x \in FinalPart(V, R) \cup FinalIds(st, R)
    <3>1. x \in FinalIds(tt, R) <=>
            \/ x \in FinalPart(tt[Conversation!Live], R)
            \/ \E s \in Trail(st, "final-only") : x \in FinalPart(tt[Moved(n, s)], R)
      BY <2>1 DEF FinalIds
    <3>2. x \in FinalIds(st, R) <=> \E s \in Trail(st, "final-only") : x \in FinalPart(st[s], R)
      BY DEF FinalIds
    <3> QED BY <1>1, <1>2, <3>1, <3>2
  <2> QED BY <2>2
<1> QED BY <1>3, <1>4 DEF tt

(* A turn that is committed adds its final, if the host published one. *)
LEMMA IdsCommitted ==
  ASSUME NEW st, Conversation!Live \in DOMAIN st, NEW R, NEW r,
         NEW u \in st[Conversation!Live], u.id = r.user,
         NEW a \in st[Conversation!Live], a.id = r.assistant,
         \A s \in DOMAIN st : \A e \in st[s] : e.id = a.id => e = a
  PROVE  /\ (Conversation!Published(r) /\ a.type = "final") =>
              FinalIds(st, R \cup {r}) = FinalIds(st, R) \cup {a.id}
         /\ ~(Conversation!Published(r) /\ a.type = "final") =>
              FinalIds(st, R \cup {r}) = FinalIds(st, R)
<1> DEFINE Q == R \cup {r}
           T == Trail(st, "final-only")
<1>1. Conversation!Live \in T /\ T \subseteq DOMAIN st
  BY TrailWhole DEF Bounded
<1> HIDE DEF T
<1>2. ASSUME NEW x PROVE x \in FinalIds(st, Q) <=>
          \/ x \in FinalIds(st, R)
          \/ \E s \in T : \E e \in st[s] : /\ x = e.id /\ e.type = "final"
                                           /\ Conversation!Published(r) /\ r.assistant = e.id
                                           /\ \E v \in st[s] : v.id = r.user
  <2>1. ASSUME NEW P PROVE x \in FinalIds(st, P) <=>
          \E s \in T :
            \/ \E e \in st[s] : /\ x = e.id /\ e.type = "final"
                                /\ \E q \in P : /\ Conversation!Published(q)
                                                /\ q.assistant = e.id
                                                /\ \E v \in st[s] : v.id = q.user
            \/ x \in UNION {c.covers : c \in {y \in Conversation!Checkpoints(st[s]) :
                                                y.mode = "final-only"}}
    <3>1. \A s : x \in FinalPart(st[s], P) <=>
            \/ \E e \in st[s] : /\ x = e.id /\ e.type = "final"
                                /\ \E q \in P : /\ Conversation!Published(q)
                                                /\ q.assistant = e.id
                                                /\ \E v \in st[s] : v.id = q.user
            \/ x \in UNION {c.covers : c \in {y \in Conversation!Checkpoints(st[s]) :
                                                y.mode = "final-only"}}
      BY DEF FinalPart, FinalsIn
    <3> QED BY <3>1 DEF FinalIds, T
  <2> QED BY <2>1
<1>3. CASE Conversation!Published(r) /\ a.type = "final"
  <2>1. \A x : x \in FinalIds(st, Q) <=> x \in FinalIds(st, R) \cup {a.id}
    BY <1>1, <1>2, <1>3
  <2>2. FinalIds(st, Q) = FinalIds(st, R) \cup {a.id}
    BY <2>1
  <2> QED BY <1>3, <2>2
<1>4. CASE ~(Conversation!Published(r) /\ a.type = "final")
  <2>1. \A x : x \in FinalIds(st, Q) <=> x \in FinalIds(st, R)
    BY <1>1, <1>2, <1>4
  <2>2. FinalIds(st, Q) = FinalIds(st, R)
    BY <2>1
  <2> QED BY <1>4, <2>2
<1> QED BY <1>3, <1>4

-----------------------------------------------------------------------------
(* Sessions: what the entries, the job and its attempt are *)

EntryTypes == Conversation!Initials \cup {"user", "final", "error", "checkpoint"}
Entries ==
  [id : Nat \ {0}, type : EntryTypes, op : Nat \ {0}, mode : Conversation!Modes,
   covers : SUBSET Nat]
Turn ==
  [n : Nat, action : {"none", "clear", "compact"}, mode : Conversation!Modes, attempt : Nat]
RunStages ==
  {"idle", "host", "prepare", "bootstrap", "preprocess", "run", "model", "answered"}
Attempt ==
  [stage : RunStages, view : SUBSET Entries, history : SUBSET Entries, applied : BOOLEAN,
   user : Nat, assistant : Nat]

AttemptOK == sjob \in Turn /\ run \in Attempt /\ (run.stage # "idle" => sjob.n # 0)

(* No id is given twice. *)
OwnIds ==
  \A s, t \in DOMAIN store : \A e \in store[s], f \in store[t] :
    e.id = f.id => s = t /\ e = f

EntriesOK ==
  /\ nextId \in Nat \ {0}
  /\ Conversation!Live \in DOMAIN store /\ DOMAIN store \subseteq 0 .. sjob.n
  /\ \A s \in DOMAIN store : store[s] \subseteq Entries
  /\ \A s \in DOMAIN store : \A e \in store[s] : e.id < nextId
  /\ IsFiniteSet(Conversation!Initial(store[Conversation!Live]))
  /\ since \subseteq 1 .. nextId - 1
  /\ OwnIds

(* A checkpoint has its archive, and an operation that made one is noticed. *)
ArchivesStay ==
  /\ \A s \in DOMAIN store : Points(store[s]) \subseteq DOMAIN store
  /\ sjob.n \in DOMAIN store /\ sjob.n # 0 =>
       Conversation!Applied(store[Conversation!Live])

(* The context of a session is chosen once, the memory before its turns. *)
ChosenOnce == {"memory", "anchor", "snapshot", "bootstrap"}
OneOfEach(V) ==
  /\ \A e, f \in V : e.type \in ChosenOnce /\ e.type = f.type => e = f
  /\ \A e \in V, x \in Conversation!History(V) : e.type = "memory" => e.id < x.id

(* A failed turn is left out. *)
FailedOut == \A s \in DOMAIN store : \A e \in store[s] : e.type = "error" => e.id \notin since

StoreInv ==
  /\ EntriesOK /\ ArchivesStay /\ FailedOut
  /\ \A s \in DOMAIN store : OneOfEach(store[s])
  /\ Conversation!ContextsExact /\ Conversation!RefsResolve

(* What the attempt holds is what the store has. *)
HeldIsSo ==
  /\ run.stage \in {"bootstrap", "preprocess"} =>
       /\ Conversation!Initial(run.view) =
            Conversation!Initial(store[Conversation!Live])
       /\ Conversation!Carries(run.view) = since
       /\ ~run.applied => sjob.n \notin DOMAIN store
  /\ run.stage \in {"prepare", "bootstrap", "preprocess"} =>
       /\ Conversation!Initial(run.history) = {}
       /\ sjob.mode = "final-only" =>
            Conversation!Carries(run.history) = since \cap Conversation!PublicFinals

UserAt(u) ==
  u \in store[Conversation!Live] /\ u.id = run.user /\ u.type = "user" /\ u.op = sjob.n

TurnAtWork ==
  /\ run.stage = "model" => \E u \in store[Conversation!Live] : UserAt(u)
  /\ run.assistant # 0 =>
       /\ run.stage = "answered"
       /\ \E u, a \in store[Conversation!Live] :
            /\ UserAt(u) /\ a.id = run.assistant /\ a.op = sjob.n
            /\ a.type = "error" \/ a.type = "final"
            /\ a.type = "final" => a.id \in since

RunInv == AttemptOK /\ HeldIsSo /\ TurnAtWork

ConversationInv == StoreInv /\ RunInv

LEMMA RefsOld ==
  ASSUME StoreInv, NEW r \in refs
  PROVE  /\ r.user \in Nat /\ r.assistant \in Nat
         /\ r.user < nextId /\ r.assistant < nextId
<1>1. PICK s \in DOMAIN store : \E u, a \in store[s] : u.id = r.user /\ a.id = r.assistant
  BY DEF StoreInv, Conversation!RefsResolve
<1>2. \A e \in store[s] : e.id \in Nat /\ e.id < nextId
  BY DEF StoreInv, EntriesOK, Entries
<1> QED BY <1>1, <1>2

LEMMA Exact ==
  Conversation!ContextsExact <=>
    /\ FullIds(store) = since
    /\ FinalIds(store, refs) = since \cap Conversation!PublicFinals
BY FullHeld, FinalHeld DEF Conversation!ContextsExact

LEMMA ExactAfter ==
  Conversation!ContextsExact' <=>
    /\ FullIds(store') = since'
    /\ FinalIds(store', refs') = since' \cap Conversation!PublicFinals'
<1>1. (Conversation!ContextsExact <=>
         /\ FullIds(store) = since
         /\ FinalIds(store, refs) = since \cap Conversation!PublicFinals)'
  BY Exact, PTL
<1> QED BY <1>1

LEMMA StoreRests ==
  ASSUME StoreInv, AttemptOK, UNCHANGED <<store, refs, nextId, since>>,
         sjob'.n \in Nat, sjob'.n = sjob.n \/ sjob'.n = sjob.n + 1
  PROVE  StoreInv'
<1>1. sjob.n \in Nat
  BY DEF AttemptOK, Turn
<1>2. EntriesOK'
  BY <1>1 DEF StoreInv, EntriesOK, OwnIds
<1>3. ArchivesStay'
  <2>1. CASE sjob'.n = sjob.n
    BY <2>1 DEF StoreInv, ArchivesStay, Conversation!Applied
  <2>2. CASE sjob'.n = sjob.n + 1
    <3>1. sjob'.n \notin DOMAIN store
      BY <1>1, <2>2 DEF StoreInv, EntriesOK
    <3> QED BY <3>1 DEF StoreInv, ArchivesStay
  <2> QED BY <2>1, <2>2
<1>4. Conversation!PublicFinals' = Conversation!PublicFinals
  BY DEF Conversation!PublicFinals
<1>5. Conversation!ContextsExact'
  BY <1>4, Exact, ExactAfter DEF StoreInv
<1> QED BY <1>2, <1>3, <1>5 DEF StoreInv, FailedOut, Conversation!RefsResolve

LEMMA AppendKeeps ==
  ASSUME StoreInv, AttemptOK, NEW e \in Entries, e.id = nextId, e.type # "checkpoint",
         store' = [store EXCEPT ![Conversation!Live] = @ \cup {e}], nextId' = nextId + 1,
         UNCHANGED <<refs, sjob>>, OneOfEach(store[Conversation!Live] \cup {e}),
         e.type \in {"user", "final"} => since' = since \cup {nextId},
         e.type \notin {"user", "final"} => since' = since
  PROVE  StoreInv'
<1> DEFINE L == Conversation!Live
<1>1. /\ L \in DOMAIN store /\ DOMAIN store' = DOMAIN store
      /\ store'[L] = store[L] \cup {e}
      /\ \A s \in DOMAIN store : s # L => store'[s] = store[s]
  BY DEF StoreInv, EntriesOK
<1>2. nextId \in Nat \ {0} /\ since \subseteq 1 .. nextId - 1
  BY DEF StoreInv, EntriesOK
<1>3. \A s \in DOMAIN store : \A x \in store[s] : x \in Entries /\ x.id \in Nat /\ x.id < nextId
  BY DEF StoreInv, EntriesOK, Entries
<1>4. \A s \in DOMAIN store : \A x \in store'[s] : x \in store[s] \/ (s = L /\ x = e)
  BY <1>1
<1>5. EntriesOK'
  <2>1. IsFiniteSet(Conversation!Initial(store'[L]))
    <3>1. IsFiniteSet(Conversation!Initial(store[L]) \cup {e})
      BY FS_AddElement DEF StoreInv, EntriesOK
    <3>2. Conversation!Initial(store'[L]) \subseteq Conversation!Initial(store[L]) \cup {e}
      BY <1>1 DEF Conversation!Initial
    <3> QED BY <3>1, <3>2, FS_Subset
  <2>2. OwnIds'
    <3> SUFFICES ASSUME NEW s \in DOMAIN store, NEW t \in DOMAIN store,
                        NEW x \in store'[s], NEW y \in store'[t], x.id = y.id
                 PROVE  s = t /\ x = y
      BY <1>1 DEF OwnIds
    <3>1. x \in store[s] /\ y \in store[t] => s = t /\ x = y
      BY DEF StoreInv, EntriesOK, OwnIds
    <3> QED BY <1>2, <1>3, <1>4, <3>1
  <2>3. \A s \in DOMAIN store' : \A x \in store'[s] : x \in Entries /\ x.id < nextId'
    <3> SUFFICES ASSUME NEW s \in DOMAIN store, NEW x \in store'[s]
                 PROVE  x \in Entries /\ x.id < nextId'
      BY <1>1
    <3>1. CASE x \in store[s]
      <4>1. x \in Entries /\ x.id \in Nat /\ x.id < nextId
        BY <1>3, <3>1
      <4> QED BY <1>2, <4>1
    <3>2. CASE x = e
      BY <1>2, <3>2
    <3> QED BY <1>4, <3>1, <3>2
  <2>4. since' \subseteq 1 .. nextId' - 1
    <3>1. since' \subseteq since \cup {nextId} /\ nextId' = nextId + 1
      OBVIOUS
    <3> QED BY <1>2, <3>1
  <2>5. DOMAIN store' \subseteq 0 .. sjob'.n
    BY <1>1 DEF StoreInv, EntriesOK
  <2> QED BY <1>1, <1>2, <2>1, <2>2, <2>3, <2>4, <2>5 DEF EntriesOK
<1>6. ArchivesStay'
  <2>1. \A s \in DOMAIN store : Points(store'[s]) = Points(store[s])
    BY <1>1 DEF Points, Conversation!Checkpoints
  <2>2. Conversation!Applied(store[L]) => Conversation!Applied(store[L])'
    BY <1>1 DEF Conversation!Applied
  <2> QED BY <1>1, <2>1, <2>2 DEF StoreInv, ArchivesStay
<1>7. FailedOut'
  <2> SUFFICES ASSUME NEW s \in DOMAIN store, NEW x \in store'[s], x.type = "error"
               PROVE  x.id \notin since'
    BY <1>1 DEF FailedOut
  <2>1. CASE x = e
    BY <1>2, <2>1
  <2>2. CASE x \in store[s]
    <3>1. x.id \notin since /\ x.id # nextId
      BY <1>2, <1>3, <2>2 DEF StoreInv, FailedOut
    <3> QED BY <3>1
  <2> QED BY <1>4, <2>1, <2>2
<1>8. \A s \in DOMAIN store' : OneOfEach(store'[s])
  BY <1>1 DEF StoreInv
<1>9. Conversation!ContextsExact'
  <2>1. \A r \in refs : r.user # e.id /\ r.assistant # e.id
    BY <1>2, RefsOld
  <2>2. /\ e.type \in {"user", "final"} => FullIds(store') = FullIds(store) \cup {e.id}
        /\ e.type \notin {"user", "final"} => FullIds(store') = FullIds(store)
        /\ FinalIds(store', refs) = FinalIds(store, refs)
    BY <1>1, <2>1, IdsAppended, Zenon
  <2>3. FullIds(store) = since /\ FinalIds(store, refs) = since \cap Conversation!PublicFinals
    BY Exact DEF StoreInv
  <2>4. nextId \notin Conversation!PublicFinals
    BY <2>1 DEF Conversation!PublicFinals
  <2>5. Conversation!PublicFinals' = Conversation!PublicFinals
    BY DEF Conversation!PublicFinals
  <2> QED BY <2>2, <2>3, <2>4, <2>5, ExactAfter
<1>10. Conversation!RefsResolve'
  BY <1>1 DEF StoreInv, Conversation!RefsResolve
<1> QED BY <1>5, <1>6, <1>7, <1>8, <1>9, <1>10 DEF StoreInv

LEMMA ArchivedKeeps ==
  ASSUME StoreInv, AttemptOK, sjob.n # 0, sjob.n \notin DOMAIN store,
         NEW V \in SUBSET Entries, IsFiniteSet(Conversation!Initial(V)),
         \A e \in V : nextId <= e.id /\ e.id < nextId',
         \A e, f \in V : e.id = f.id => e = f,
         Points(V) \subseteq {sjob.n}, Conversation!Applied(V), OneOfEach(V),
         \A e \in V : e.type # "error",
         nextId' \in Nat, nextId < nextId', store' = Archived(store, sjob.n, V),
         UNCHANGED <<refs, sjob>>, since' \subseteq since, Conversation!ContextsExact'
  PROVE  StoreInv'
<1> DEFINE L == Conversation!Live
           n == sjob.n
<1>1. /\ L \in DOMAIN store /\ n # L /\ n \in Nat /\ n \notin DOMAIN store /\ n' = n
      /\ DOMAIN store \subseteq 0 .. n
  BY DEF StoreInv, EntriesOK, AttemptOK, Turn, Conversation!Live
<1>2. /\ DOMAIN store' = DOMAIN store \cup {n} /\ store'[L] = V /\ store'[n] = store[L]
      /\ \A s \in DOMAIN store : s # L => store'[s] = store[s]
  BY <1>1 DEF Archived
<1> HIDE DEF n
<1>3. nextId \in Nat \ {0} /\ since \subseteq 1 .. nextId - 1
  BY DEF StoreInv, EntriesOK
<1>4. \A s \in DOMAIN store : \A x \in store[s] : x \in Entries /\ x.id \in Nat /\ x.id < nextId
  BY DEF StoreInv, EntriesOK, Entries
<1> DEFINE Of(s) == IF s = n THEN L ELSE s
<1>5. \A s \in DOMAIN store' \ {L} : Of(s) \in DOMAIN store /\ store'[s] = store[Of(s)]
  BY <1>1, <1>2
<1>6. \A s, t \in DOMAIN store' \ {L} : Of(s) = Of(t) => s = t
  BY <1>1, <1>2
<1> HIDE DEF Of
<1>7. EntriesOK'
  <2>1. \A s \in DOMAIN store' : \A x \in store'[s] : x \in Entries /\ x.id < nextId'
    <3> SUFFICES ASSUME NEW s \in DOMAIN store', NEW x \in store'[s]
                 PROVE  x \in Entries /\ x.id < nextId'
      OBVIOUS
    <3>1. CASE s = L
      BY <1>2, <3>1
    <3>2. CASE s # L
      <4>1. x \in Entries /\ x.id \in Nat /\ x.id < nextId
        BY <1>4, <1>5, <3>2
      <4> QED BY <1>3, <4>1
    <3> QED BY <3>1, <3>2
  <2>2. OwnIds'
    <3> SUFFICES ASSUME NEW s \in DOMAIN store', NEW t \in DOMAIN store',
                        NEW x \in store'[s], NEW y \in store'[t], x.id = y.id
                 PROVE  s = t /\ x = y
      BY DEF OwnIds
    <3>1. CASE s # L /\ t # L
      <4>1. Of(s) = Of(t) /\ x = y
        BY <1>5, <3>1 DEF StoreInv, EntriesOK, OwnIds
      <4> QED BY <1>6, <3>1, <4>1
    <3>2. CASE s = L /\ t = L
      BY <1>2, <3>2
    <3>3. \A e \in V : e.id \in Nat /\ nextId <= e.id
      BY DEF Entries
    <3>4. ASSUME s = L, t # L PROVE FALSE
      <4>1. x.id \in Nat /\ nextId <= x.id /\ y.id \in Nat /\ y.id < nextId
        BY <1>2, <1>4, <1>5, <3>3, <3>4
      <4> QED BY <1>3, <4>1
    <3>5. ASSUME s # L, t = L PROVE FALSE
      <4>1. y.id \in Nat /\ nextId <= y.id /\ x.id \in Nat /\ x.id < nextId
        BY <1>2, <1>4, <1>5, <3>3, <3>5
      <4> QED BY <1>3, <4>1
    <3> QED BY <3>1, <3>2, <3>4, <3>5
  <2>3. since' \subseteq 1 .. nextId' - 1
    <3>1. \A i \in 1 .. nextId - 1 : i \in 1 .. nextId' - 1
      <4>1. \A p, q \in Nat : p < q => \A i \in 1 .. p - 1 : i \in 1 .. q - 1
        OBVIOUS
      <4>2. nextId \in Nat
        BY <1>3
      <4> QED BY <4>1, <4>2
    <3> QED BY <1>3, <3>1
  <2>4. DOMAIN store' \subseteq 0 .. sjob'.n
    BY <1>1, <1>2 DEF n
  <2>5. IsFiniteSet(Conversation!Initial(store'[L])) /\ L \in DOMAIN store'
    BY <1>1, <1>2
  <2>6. nextId' \in Nat \ {0}
    BY <1>3
  <2> QED BY <2>1, <2>2, <2>3, <2>4, <2>5, <2>6 DEF EntriesOK
<1>8. ArchivesStay'
  <2>1. \A s \in DOMAIN store' : Points(store'[s]) \subseteq DOMAIN store'
    <3> SUFFICES ASSUME NEW s \in DOMAIN store' PROVE Points(store'[s]) \subseteq DOMAIN store'
      OBVIOUS
    <3>1. CASE s = L
      BY <1>2, <3>1 DEF n
    <3>2. CASE s # L
      <4>1. Points(store[Of(s)]) \subseteq DOMAIN store
        BY <1>5, <3>2 DEF StoreInv, ArchivesStay
      <4> QED BY <1>2, <1>5, <3>2, <4>1
    <3> QED BY <3>1, <3>2
  <2>2. Conversation!Applied(store[L])'
    BY <1>2 DEF Conversation!Applied
  <2> QED BY <2>1, <2>2 DEF ArchivesStay
<1>9. FailedOut'
  <2> SUFFICES ASSUME NEW s \in DOMAIN store', NEW x \in store'[s], x.type = "error"
               PROVE  x.id \notin since
    BY DEF FailedOut
  <2>1. s # L
    BY <1>2
  <2> QED BY <1>5, <2>1 DEF StoreInv, FailedOut
<1>10. \A s \in DOMAIN store' : OneOfEach(store'[s])
  <2>1. \A s \in DOMAIN store : OneOfEach(store[s])
    BY DEF StoreInv
  <2> QED BY <1>2, <1>5, <2>1
<1>11. Conversation!RefsResolve'
  <2> SUFFICES ASSUME NEW r \in refs
               PROVE  \E s \in DOMAIN store' : \E u, a \in store'[s] :
                        /\ u.id = r.user /\ u.type = "user"
                        /\ a.id = r.assistant /\ a.op = u.op
    BY DEF Conversation!RefsResolve
  <2>1. PICK s \in DOMAIN store : \E u, a \in store[s] :
               /\ u.id = r.user /\ u.type = "user" /\ a.id = r.assistant /\ a.op = u.op
    BY DEF StoreInv, Conversation!RefsResolve
  <2>2. \E t \in DOMAIN store' : store'[t] = store[s]
    BY <1>2
  <2> QED BY <2>1, <2>2
<1> QED BY <1>7, <1>8, <1>9, <1>10, <1>11 DEF StoreInv

LEMMA ClearKeeps ==
  ASSUME StoreInv, AttemptOK, sjob.n # 0, sjob.n \notin DOMAIN store,
         Conversation!Replace({Conversation!Entry(nextId, "reset")}),
         nextId' = nextId + 1, since' = {}, UNCHANGED <<refs, sjob>>
  PROVE  StoreInv'
<1> DEFINE e == Conversation!Entry(nextId, "reset")
           V == {e}
<1>1. /\ e \in Entries /\ e.id = nextId /\ e.op = sjob.n /\ e.type = "reset"
      /\ nextId \in Nat
  BY DEF Conversation!Entry, Entries, EntryTypes, Conversation!Initials, StoreInv, EntriesOK,
         AttemptOK, Turn
<1>2. store' = Archived(store, sjob.n, V)
  BY DEF Conversation!Replace, Archived
<1> HIDE DEF e
<1>3. Conversation!Checkpoints(V) = {}
  BY <1>1 DEF Conversation!Checkpoints
<1>4. /\ Points(V) = {} /\ Conversation!Applied(V) /\ OneOfEach(V)
      /\ IsFiniteSet(Conversation!Initial(V))
  <2>1. IsFiniteSet(V) /\ Conversation!Initial(V) \subseteq V
    BY FS_Singleton DEF Conversation!Initial
  <2>2. IsFiniteSet(Conversation!Initial(V))
    BY <2>1, FS_Subset
  <2>3. Conversation!Applied(V)
    BY <1>1 DEF Conversation!Applied
  <2>4. OneOfEach(V)
    BY <1>1 DEF OneOfEach, Conversation!History, Conversation!Initial, Conversation!Initials
  <2> QED BY <1>3, <2>2, <2>3, <2>4 DEF Points
<1>5. Conversation!Live \in DOMAIN store' /\ store'[Conversation!Live] = V
  BY <1>2 DEF Archived, StoreInv, EntriesOK
<1>6. FullPart(V) = {} /\ FinalPart(V, refs) = {}
  BY <1>1, <1>3 DEF FullPart, FinalPart, FinalsIn
<1>7. FullIds(store') = {} /\ FinalIds(store', refs) = {}
  BY <1>3, <1>5, <1>6, IdsWhenEnded
<1>8. Conversation!ContextsExact'
  BY <1>7, ExactAfter
<1> QED BY <1>1, <1>2, <1>4, <1>8, ArchivedKeeps

(* The initial entries keep their order in a compacted session. *)
Number(I, e, k) == k + Cardinality({i \in I : i.id < e.id})
Renumbered(I, k) == {[e EXCEPT !.id = Number(I, e, k)] : e \in I}

LEMMA NumbersInOrder ==
  ASSUME NEW I \in SUBSET Entries, IsFiniteSet(I), \A e, f \in I : e.id = f.id => e = f,
         NEW k \in Nat \ {0}
  PROVE  /\ Cardinality(I) \in Nat
         /\ \A e \in I : /\ Number(I, e, k) \in Nat \ {0} /\ k <= Number(I, e, k)
                         /\ Number(I, e, k) < k + Cardinality(I)
         /\ \A e, f \in I : e.id < f.id => Number(I, e, k) < Number(I, f, k)
         /\ \A e, f \in I : Number(I, e, k) = Number(I, f, k) => e = f
<1> DEFINE Below(e) == {i \in I : i.id < e.id}
<1>1. \A e \in I : e.id \in Nat
  BY DEF Entries
<1>2. ASSUME NEW e \in I
      PROVE  /\ IsFiniteSet(Below(e)) /\ Cardinality(Below(e)) \in Nat
             /\ Cardinality(Below(e)) < Cardinality(I)
  <2>1. Below(e) \subseteq I /\ e \notin Below(e)
    BY <1>1
  <2>2. IsFiniteSet(Below(e)) /\ Cardinality(Below(e)) <= Cardinality(I)
        /\ Cardinality(Below(e)) # Cardinality(I)
    <3> HIDE DEF Below
    <3> QED BY <2>1, FS_Subset
  <2>3. Cardinality(Below(e)) \in Nat /\ Cardinality(I) \in Nat
    BY <2>2, FS_CardinalityType
  <2> QED BY <2>2, <2>3
<1>3. ASSUME NEW e \in I, NEW f \in I, e.id < f.id
      PROVE  Cardinality(Below(e)) < Cardinality(Below(f))
  <2>1. Below(e) \subseteq Below(f) /\ e \notin Below(e) /\ e \in Below(f)
    BY <1>1, <1>3
  <2>2. /\ Cardinality(Below(e)) <= Cardinality(Below(f))
        /\ Cardinality(Below(e)) # Cardinality(Below(f))
    <3>1. IsFiniteSet(Below(f))
      BY <1>2
    <3> HIDE DEF Below
    <3> QED BY <2>1, <3>1, FS_Subset
  <2>3. Cardinality(Below(e)) \in Nat /\ Cardinality(Below(f)) \in Nat
    BY <1>2
  <2> QED BY <2>2, <2>3
<1>4. \A e \in I : Number(I, e, k) = k + Cardinality(Below(e))
  BY DEF Number
<1>5. Cardinality(I) \in Nat
  BY FS_CardinalityType
<1> HIDE DEF Below
<1>6. \A e \in I : /\ Number(I, e, k) \in Nat \ {0} /\ k <= Number(I, e, k)
                   /\ Number(I, e, k) < k + Cardinality(I)
  <2> TAKE e \in I
  <2>1. Number(I, e, k) = k + Cardinality(Below(e))
    BY <1>4
  <2>2. Cardinality(Below(e)) \in Nat /\ Cardinality(Below(e)) < Cardinality(I)
    BY <1>2
  <2> QED BY <1>5, <2>1, <2>2
<1>7. \A e, f \in I : e.id < f.id => Number(I, e, k) < Number(I, f, k)
  <2> SUFFICES ASSUME NEW e \in I, NEW f \in I, e.id < f.id
               PROVE  Number(I, e, k) < Number(I, f, k)
    OBVIOUS
  <2>1. /\ Number(I, e, k) = k + Cardinality(Below(e))
        /\ Number(I, f, k) = k + Cardinality(Below(f))
    BY <1>4
  <2>2. Cardinality(Below(e)) \in Nat /\ Cardinality(Below(f)) \in Nat
    BY <1>2
  <2>3. Cardinality(Below(e)) < Cardinality(Below(f))
    BY <1>3
  <2> QED BY <2>1, <2>2, <2>3
<1>8. \A e, f \in I : Number(I, e, k) = Number(I, f, k) => e = f
  <2> SUFFICES ASSUME NEW e \in I, NEW f \in I, Number(I, e, k) = Number(I, f, k)
               PROVE  e = f
    OBVIOUS
  <2>1. ~(e.id < f.id) /\ ~(f.id < e.id)
    BY <1>6, <1>7
  <2>2. e.id = f.id
    BY <1>1, <2>1
  <2> QED BY <2>2
<1> QED BY <1>5, <1>6, <1>7, <1>8

LEMMA RenumberedEntries ==
  ASSUME NEW I \in SUBSET Entries, IsFiniteSet(I), \A e, f \in I : e.id = f.id => e = f,
         NEW k \in Nat \ {0}
  PROVE  /\ Renumbered(I, k) \subseteq Entries /\ IsFiniteSet(Renumbered(I, k))
         /\ \A y \in Renumbered(I, k) : \E e \in I : y.type = e.type /\ y.id = Number(I, e, k)
         /\ \A y \in Renumbered(I, k) : k <= y.id /\ y.id < k + Cardinality(I)
         /\ \A y, z \in Renumbered(I, k) : y.id = z.id => y = z
         /\ (\A e, f \in I : e.type \in ChosenOnce /\ e.type = f.type => e = f) =>
              \A y, z \in Renumbered(I, k) : y.type \in ChosenOnce /\ y.type = z.type => y = z
<1> DEFINE N(e) == Number(I, e, k)
           g(e) == [e EXCEPT !.id = N(e)]
<1>1. /\ \A e \in I : N(e) \in Nat \ {0} /\ k <= N(e) /\ N(e) < k + Cardinality(I)
      /\ \A e, f \in I : N(e) = N(f) => e = f
  BY NumbersInOrder
<1> HIDE DEF N
<1>2. \A e \in I : g(e) \in Entries /\ g(e).type = e.type /\ g(e).id = N(e)
  BY <1>1 DEF Entries
<1>3. Renumbered(I, k) = {g(e) : e \in I}
  BY DEF Renumbered, N
<1>4. IsFiniteSet(Renumbered(I, k))
  <2> DEFINE h == [e \in I |-> g(e)]
  <2> HIDE DEF g
  <2>1. h \in Surjection(I, Renumbered(I, k))
    BY <1>3 DEF Surjection
  <2> HIDE DEF h
  <2> QED BY <2>1, FS_Surjection
<1> HIDE DEF g
<1>5. \A y \in Renumbered(I, k) : \E e \in I : y = g(e)
  BY <1>3
<1>6. \A y, z \in Renumbered(I, k) : y.id = z.id => y = z
  <2> SUFFICES ASSUME NEW y \in Renumbered(I, k), NEW z \in Renumbered(I, k), y.id = z.id
               PROVE  y = z
    OBVIOUS
  <2>1. PICK e \in I, f \in I : y = g(e) /\ z = g(f)
    BY <1>5
  <2>2. N(e) = N(f)
    BY <1>2, <2>1
  <2> QED BY <1>1, <2>1, <2>2
<1>7. ASSUME \A e, f \in I : e.type \in ChosenOnce /\ e.type = f.type => e = f,
             NEW y \in Renumbered(I, k), NEW z \in Renumbered(I, k),
             y.type \in ChosenOnce, y.type = z.type
      PROVE  y = z
  <2>1. PICK e \in I, f \in I : y = g(e) /\ z = g(f)
    BY <1>5
  <2>2. e.type \in ChosenOnce /\ e.type = f.type
    BY <1>2, <1>7, <2>1
  <2> QED BY <1>7, <2>1, <2>2
<1>8. \A y \in Renumbered(I, k) : y \in Entries /\ k <= y.id /\ y.id < k + Cardinality(I)
  <2> SUFFICES ASSUME NEW y \in Renumbered(I, k)
               PROVE  y \in Entries /\ k <= y.id /\ y.id < k + Cardinality(I)
    OBVIOUS
  <2>1. PICK e \in I : y = g(e)
    BY <1>5
  <2> QED BY <1>1, <1>2, <2>1
<1>9. \A y \in Renumbered(I, k) : \E e \in I : y.type = e.type /\ y.id = Number(I, e, k)
  BY <1>2, <1>5 DEF N
<1>10. (\A e, f \in I : e.type \in ChosenOnce /\ e.type = f.type => e = f) =>
         \A y, z \in Renumbered(I, k) : y.type \in ChosenOnce /\ y.type = z.type => y = z
  BY <1>7
<1> QED BY <1>4, <1>6, <1>8, <1>9, <1>10

LEMMA ContextHeld ==
  ASSUME StoreInv, RunInv, run.stage = "preprocess"
  PROVE  /\ Conversation!Initial(Conversation!Context) =
              Conversation!Initial(store[Conversation!Live])
         /\ sjob.mode = "full" => Conversation!Carries(Conversation!Context) = since
         /\ sjob.mode = "final-only" =>
              Conversation!Carries(Conversation!Context) = since \cap Conversation!PublicFinals
<1>1. /\ Conversation!Initial(run.view) = Conversation!Initial(store[Conversation!Live])
      /\ Conversation!Carries(run.view) = since
      /\ Conversation!Initial(run.history) = {}
      /\ sjob.mode = "final-only" =>
           Conversation!Carries(run.history) = since \cap Conversation!PublicFinals
  BY DEF RunInv, HeldIsSo
<1>2. CASE sjob.mode = "full"
  <2> DEFINE W == {e \in run.view : e.type # "error"}
  <2>1. Conversation!Context = W
    BY <1>2 DEF Conversation!Context
  <2>2. Conversation!Initial(W) = Conversation!Initial(run.view)
    BY DEF Conversation!Initial, Conversation!Initials
  <2>3. Conversation!Carries(W) = Conversation!Carries(run.view)
    <3>1. /\ {x \in W : x.type \in {"user", "final"}} =
               {x \in run.view : x.type \in {"user", "final"}}
          /\ Conversation!Checkpoints(W) = Conversation!Checkpoints(run.view)
      BY DEF Conversation!Checkpoints
    <3> HIDE DEF W
    <3> QED BY <3>1 DEF Conversation!Carries
  <2> QED BY <1>1, <1>2, <2>1, <2>2, <2>3
<1>3. CASE sjob.mode # "full"
  <2> DEFINE W == Conversation!Initial(run.view) \cup run.history
  <2>1. Conversation!Context = W
    BY <1>3 DEF Conversation!Context
  <2>2. Conversation!Initial(W) = Conversation!Initial(run.view)
    BY <1>1 DEF Conversation!Initial
  <2>3. Conversation!Carries(W) = Conversation!Carries(run.history)
    <3>1. /\ {x \in W : x.type \in {"user", "final"}} =
               {x \in run.history : x.type \in {"user", "final"}}
          /\ Conversation!Checkpoints(W) = Conversation!Checkpoints(run.history)
      BY DEF Conversation!Checkpoints, Conversation!Initial, Conversation!Initials
    <3> HIDE DEF W
    <3> QED BY <3>1 DEF Conversation!Carries
  <2> QED BY <1>1, <1>3, <2>1, <2>2, <2>3
<1> QED BY <1>2, <1>3

LEMMA CompactKeeps ==
  ASSUME StoreInv, RunInv, run.stage = "preprocess", ~run.applied, Conversation!Checkpoint,
         UNCHANGED <<sjob, refs, since>>
  PROVE  /\ StoreInv'
         /\ run' = [run EXCEPT !.stage = IF sjob.action = "compact" THEN "answered" ELSE "run"]
<1> DEFINE L == Conversation!Live
           n == sjob.n
           I == Conversation!Initial(Conversation!Context)
           size == Cardinality(I)
           new == Renumbered(I, nextId)
           c == [Conversation!Entry(nextId + size, "checkpoint") EXCEPT
                   !.covers = Conversation!Summarized]
           V == new \cup {c}
<1>1. n \notin DOMAIN store /\ n # 0 /\ n \in Nat
  BY DEF RunInv, HeldIsSo, AttemptOK, Turn
<1>2. /\ Conversation!Replace(V) /\ nextId' = nextId + size + 1
      /\ run' = [run EXCEPT !.stage = IF sjob.action = "compact" THEN "answered" ELSE "run"]
  <2>1. \A S : Conversation!Cardinality(S) = Cardinality(S)
    BY DEF Conversation!Cardinality, Cardinality
  <2> QED BY <1>1, <2>1 DEF Conversation!Checkpoint, Renumbered, Number
<1>3. I = Conversation!Initial(store[L])
  BY ContextHeld
<1>4. /\ I \subseteq Entries /\ IsFiniteSet(I) /\ nextId \in Nat \ {0} /\ L \in DOMAIN store
      /\ \A e, f \in I : e.id = f.id => e = f
      /\ \A e, f \in I : e.type \in ChosenOnce /\ e.type = f.type => e = f
      /\ \A e \in I : e.type \in Conversation!Initials
  <2>1. /\ L \in DOMAIN store /\ store[L] \subseteq Entries /\ IsFiniteSet(I)
        /\ nextId \in Nat \ {0} /\ OwnIds
    BY <1>3 DEF StoreInv, EntriesOK
  <2>2. OneOfEach(store[L])
    BY <2>1 DEF StoreInv
  <2>3. I \subseteq store[L] /\ \A e \in I : e.type \in Conversation!Initials
    BY <1>3 DEF Conversation!Initial
  <2> HIDE DEF I, L
  <2> QED BY <2>1, <2>2, <2>3 DEF OwnIds, OneOfEach
<1> HIDE DEF I
<1>5. /\ new \subseteq Entries /\ IsFiniteSet(new)
      /\ \A y \in new : \E e \in I : y.type = e.type
      /\ \A y \in new : nextId <= y.id /\ y.id < nextId + size
      /\ \A y, z \in new : y.id = z.id => y = z
      /\ \A y, z \in new : y.type \in ChosenOnce /\ y.type = z.type => y = z
  <2>1. \A y \in new : \E e \in I : y.type = e.type
    BY <1>4, RenumberedEntries
  <2> QED BY <1>4, <2>1, RenumberedEntries
<1>6. size \in Nat
  BY <1>4, FS_CardinalityType
<1>7. \A y \in new : y.type \in Conversation!Initials
  BY <1>4, <1>5
<1> HIDE DEF new, size
<1>8. /\ sjob.mode \in Conversation!Modes
      /\ Conversation!Summarized \subseteq Nat
      /\ sjob.mode = "full" => Conversation!Summarized = since
      /\ sjob.mode = "final-only" =>
           Conversation!Summarized = since \cap Conversation!PublicFinals
  <2>1. since \subseteq Nat
    BY DEF StoreInv, EntriesOK
  <2>2. sjob.mode \in Conversation!Modes
    BY DEF RunInv, AttemptOK, Turn
  <2> QED BY <2>1, <2>2, ContextHeld DEF Conversation!Summarized, Conversation!Modes
<1>9. /\ c \in Entries /\ c.id = nextId + size /\ c.type = "checkpoint" /\ c.op = n
      /\ c.mode = sjob.mode /\ c.covers = Conversation!Summarized
  BY <1>1, <1>4, <1>6, <1>8 DEF Conversation!Entry, Entries, EntryTypes
<1> HIDE DEF c
<1>10. /\ Conversation!Checkpoints(V) = {c} /\ Points(V) = {n}
       /\ Conversation!History(V) = {c} /\ Conversation!Initial(V) = new
  <2>1. Conversation!Checkpoints(V) = {c}
    BY <1>7, <1>9 DEF Conversation!Checkpoints, Conversation!Initials
  <2>2. Conversation!Initial(V) = new
    BY <1>7, <1>9 DEF Conversation!Initial, Conversation!Initials
  <2>3. Conversation!History(V) = {c}
    <3>1. c \notin new
      BY <1>7, <1>9 DEF Conversation!Initials
    <3> QED BY <2>2, <3>1 DEF Conversation!History
  <2> QED BY <1>9, <2>1, <2>2, <2>3 DEF Points
<1>11. OneOfEach(V)
  <2>1. ASSUME NEW e \in V, NEW f \in V, e.type \in ChosenOnce, e.type = f.type
        PROVE  e = f
    <3>1. e # c /\ f # c
      BY <1>9, <2>1 DEF ChosenOnce
    <3> QED BY <1>5, <2>1, <3>1
  <2>2. ASSUME NEW e \in V, NEW x \in Conversation!History(V), e.type = "memory"
        PROVE  e.id < x.id
    <3>1. e \in new /\ x = c
      BY <1>9, <1>10, <2>2
    <3> QED BY <1>5, <1>9, <3>1
  <2> HIDE DEF V
  <2> QED BY <2>1, <2>2 DEF OneOfEach
<1>12. /\ \A e \in V : nextId <= e.id /\ e.id < nextId'
       /\ \A e, f \in V : e.id = f.id => e = f
       /\ \A e \in V : e.type # "error" /\ e.type \notin {"user", "final"}
       /\ Conversation!Applied(V) /\ V \subseteq Entries
       /\ nextId' \in Nat /\ nextId < nextId'
  <2>1. nextId \in Nat /\ nextId' \in Nat /\ nextId' = nextId + size + 1
    BY <1>2, <1>4, <1>6
  <2>2. \A y \in new : y.id \in Nat
    BY <1>5 DEF Entries
  <2>3. \A e \in V : nextId <= e.id /\ e.id < nextId'
    <3>1. ASSUME NEW e \in new PROVE nextId <= e.id /\ e.id < nextId'
      <4>1. e.id \in Nat /\ nextId <= e.id /\ e.id < nextId + size
        BY <1>5, <2>2
      <4> QED BY <1>6, <2>1, <4>1
    <3>2. nextId <= c.id /\ c.id < nextId'
      BY <1>6, <1>9, <2>1
    <3> QED BY <3>1, <3>2
  <2>4. \A e, f \in V : e.id = f.id => e = f
    <3>1. \A y \in new : y.id # c.id
      BY <1>5, <1>6, <1>9, <2>1, <2>2
    <3> QED BY <1>5, <3>1
  <2>5. \A e \in V : e.type # "error" /\ e.type \notin {"user", "final"}
    BY <1>7, <1>9 DEF Conversation!Initials
  <2>6. Conversation!Applied(V)
    BY <1>9 DEF Conversation!Applied
  <2> QED BY <1>5, <1>6, <1>9, <2>1, <2>3, <2>4, <2>5, <2>6
<1>13. /\ FullPart(V) = IF sjob.mode = "full" THEN c.covers ELSE {}
       /\ FinalPart(V, refs) = IF sjob.mode = "final-only" THEN c.covers ELSE {}
  <2>1. {x \in V : x.type \in {"user", "final"}} = {} /\ FinalsIn(V, refs) = {}
    BY <1>12 DEF FinalsIn
  <2>2. \A m : {x \in Conversation!Checkpoints(V) : x.mode = m} =
                 IF sjob.mode = m THEN {c} ELSE {}
    BY <1>9, <1>10
  <2> HIDE DEF V
  <2> QED BY <2>1, <2>2 DEF FullPart, FinalPart
<1>14. store' = Archived(store, n, V)
  BY <1>2 DEF Conversation!Replace, Archived
<1>15. Conversation!Ends(V, sjob.mode)
       /\ \A m : m # sjob.mode => ~Conversation!Ends(V, m)
  BY <1>9, <1>10 DEF Conversation!Ends
<1>16. \A s \in DOMAIN store : Points(store[s]) \subseteq DOMAIN store \ {L}
  <2> SUFFICES ASSUME NEW s \in DOMAIN store, NEW p \in Points(store[s])
               PROVE  p \in DOMAIN store /\ p # L
    OBVIOUS
  <2>1. p \in DOMAIN store
    BY DEF StoreInv, ArchivesStay
  <2>2. store[s] \subseteq Entries
    BY DEF StoreInv, EntriesOK
  <2>3. p # 0
    BY <2>2 DEF Points, Conversation!Checkpoints, Entries
  <2> QED BY <2>1, <2>3 DEF Conversation!Live
<1> HIDE DEF V
<1>17. L \in DOMAIN store' /\ store'[L] = V /\ n # L
  BY <1>1, <1>4, <1>14 DEF Archived, Conversation!Live
<1>18. FullIds(store) = since /\ FinalIds(store, refs) = since \cap Conversation!PublicFinals
  BY Exact DEF StoreInv
<1>19. Conversation!PublicFinals' = Conversation!PublicFinals
  BY DEF Conversation!PublicFinals
<1>20. FullIds(store') = since
       /\ FinalIds(store', refs) = since \cap Conversation!PublicFinals
  <2>1. CASE sjob.mode = "full"
    <3>1. FullIds(store') = FullPart(V)
      BY <1>15, <1>17, <2>1, IdsWhenEnded
    <3>2. ~Conversation!Ends(V, "final-only")
      BY <1>15, <2>1
    <3>3. FinalIds(store', refs) = FinalPart(V, refs) \cup FinalIds(store, refs)
      BY <1>1, <1>4, <1>10, <1>14, <1>16, <1>17, <3>2, IdsArchived
    <3> QED BY <1>8, <1>9, <1>13, <1>18, <2>1, <3>1, <3>3
  <2>2. CASE sjob.mode = "final-only"
    <3>1. FinalIds(store', refs) = FinalPart(V, refs)
      BY <1>15, <1>17, <2>2, IdsWhenEnded
    <3>2. ~Conversation!Ends(V, "full")
      BY <1>15, <2>2
    <3>3. FullIds(store') = FullPart(V) \cup FullIds(store)
      BY <1>1, <1>4, <1>10, <1>14, <1>16, <1>17, <3>2, IdsArchived
    <3> QED BY <1>8, <1>9, <1>13, <1>18, <2>2, <3>1, <3>3
  <2> QED BY <1>8, <2>1, <2>2 DEF Conversation!Modes
<1>21. Conversation!ContextsExact'
  BY <1>19, <1>20, ExactAfter
<1>22. StoreInv'
  <2>1. AttemptOK /\ IsFiniteSet(Conversation!Initial(V)) /\ V \in SUBSET Entries
    BY <1>5, <1>10, <1>12 DEF RunInv
  <2>2. Points(V) \subseteq {sjob.n} /\ sjob.n # 0 /\ sjob.n \notin DOMAIN store
    BY <1>1, <1>10
  <2> QED BY <1>11, <1>12, <1>14, <1>21, <2>1, <2>2, ArchivedKeeps
<1> QED BY <1>2, <1>22

(* Fields of the attempt that a step sets *)
LEMMA AttemptSet ==
  ASSUME NEW r \in Attempt, NEW t \in RunStages
  PROVE  /\ [r EXCEPT !.stage = t] \in Attempt
         /\ [r EXCEPT !.stage = t].stage = t
         /\ [r EXCEPT !.stage = t].view = r.view
         /\ [r EXCEPT !.stage = t].history = r.history
         /\ [r EXCEPT !.stage = t].applied = r.applied
         /\ [r EXCEPT !.stage = t].user = r.user
         /\ [r EXCEPT !.stage = t].assistant = r.assistant
BY DEF Attempt

LEMMA ViewSet ==
  ASSUME NEW r \in Attempt, NEW W \in SUBSET Entries
  PROVE  LET z == [r EXCEPT !.view = W] IN
         /\ z \in Attempt /\ z.stage = r.stage /\ z.view = W /\ z.history = r.history
         /\ z.applied = r.applied /\ z.user = r.user /\ z.assistant = r.assistant
BY DEF Attempt

LEMMA AppliedSet ==
  ASSUME NEW r \in Attempt, NEW b \in BOOLEAN
  PROVE  LET z == [r EXCEPT !.applied = b] IN
         /\ z \in Attempt /\ z.stage = r.stage /\ z.view = r.view /\ z.history = r.history
         /\ z.applied = b /\ z.user = r.user /\ z.assistant = r.assistant
BY DEF Attempt

LEMMA IdleFields ==
  /\ Conversation!Idle \in Attempt /\ Conversation!Idle.stage = "idle"
  /\ Conversation!Idle.assistant = 0
BY DEF Attempt, Conversation!Idle, RunStages

LEMMA HostFields ==
  LET z == [Conversation!Idle EXCEPT !.stage = "host"] IN
  z \in Attempt /\ z.stage = "host" /\ z.assistant = 0
<1> "host" \in RunStages
  BY DEF RunStages
<1> QED BY IdleFields, AttemptSet

LEMMA RunRests ==
  ASSUME run' \in Attempt, run'.stage \in {"idle", "host", "run"}, run'.assistant = 0,
         sjob' \in Turn, run'.stage # "idle" => sjob'.n # 0
  PROVE  RunInv'
BY DEF RunInv, AttemptOK, HeldIsSo, TurnAtWork

LEMMA Answered0 ==
  ASSUME run' \in Attempt, run'.stage = "answered", run'.assistant = 0,
         sjob' \in Turn, sjob'.n # 0
  PROVE  RunInv'
BY DEF RunInv, AttemptOK, HeldIsSo, TurnAtWork

LEMMA AcceptsTurn == ASSUME StoreInv, RunInv, Conversation!Accept PROVE StoreInv' /\ RunInv'
<1>1. sjob \in Turn
  BY DEF RunInv, AttemptOK
<1>2. sjob' \in Turn /\ sjob'.n = sjob.n + 1 /\ sjob'.n # 0 /\ sjob'.n \in Nat
  BY <1>1 DEF Conversation!Accept, Turn
<1>3. run' = [Conversation!Idle EXCEPT !.stage = "host"]
      /\ UNCHANGED <<store, refs, nextId, since>>
  BY DEF Conversation!Accept
<1>4. StoreInv'
  BY <1>2, <1>3, StoreRests DEF RunInv
<1>5. run' \in Attempt /\ run'.stage = "host" /\ run'.assistant = 0
  BY <1>3, HostFields
<1> QED BY <1>2, <1>4, <1>5, RunRests

LEMMA FailKeeps == ASSUME StoreInv, RunInv, Conversation!Fail PROVE StoreInv' /\ RunInv'
<1>1. sjob \in Turn /\ (run.stage # "idle" => sjob.n # 0) /\ run.stage # "idle"
  BY DEF RunInv, AttemptOK, Conversation!Fail
<1>2. UNCHANGED <<store, refs, nextId, since>>
  BY DEF Conversation!Fail
<1>3. \/ /\ sjob' = [sjob EXCEPT !.attempt = @ + 1]
         /\ run' = [Conversation!Idle EXCEPT !.stage = "host"]
      \/ sjob' = sjob /\ run' = Conversation!Idle
  BY DEF Conversation!Fail
<1>4. sjob' \in Turn /\ sjob'.n = sjob.n /\ sjob'.n \in Nat
  BY <1>1, <1>3 DEF Turn
<1>5. StoreInv'
  BY <1>2, <1>4, StoreRests DEF RunInv
<1>6. run' \in Attempt /\ run'.stage \in {"idle", "host"} /\ run'.assistant = 0
  BY <1>3, HostFields, IdleFields
<1> QED BY <1>1, <1>4, <1>5, <1>6, RunRests

LEMMA ViewsTyped ==
  ASSUME StoreInv
  PROVE  /\ Conversation!FullView \subseteq Entries /\ Conversation!FinalView \subseteq Entries
         /\ Conversation!Initial(Conversation!FullView) =
              Conversation!Initial(store[Conversation!Live])
         /\ Conversation!Initial(Conversation!FinalView) = {}
         /\ Conversation!Carries(Conversation!FullView) = since
         /\ Conversation!Carries(Conversation!FinalView) =
              since \cap Conversation!PublicFinals
<1>1. /\ Conversation!Live \in DOMAIN store
      /\ \A s \in DOMAIN store : store[s] \subseteq Entries
  BY DEF StoreInv, EntriesOK
<1>2. \A m : Conversation!Segments(m) \subseteq DOMAIN store
  BY DEF Conversation!Segments
<1>3. Conversation!FullView \subseteq Entries
  BY <1>1, <1>2 DEF Conversation!FullView, Conversation!Initial, Conversation!History
<1>4. Conversation!FinalView \subseteq Entries
  BY <1>1, <1>2 DEF Conversation!FinalView, Conversation!Finals, Conversation!Checkpoints
<1>5. Conversation!Initial(Conversation!FullView) =
        Conversation!Initial(store[Conversation!Live])
  BY DEF Conversation!FullView, Conversation!Initial, Conversation!History
<1>6. Conversation!Initial(Conversation!FinalView) = {}
  <2>1. \A e \in Conversation!FinalView : e.type \in {"checkpoint", "final"}
    BY DEF Conversation!FinalView, Conversation!Finals, Conversation!Checkpoints
  <2> QED BY <2>1 DEF Conversation!Initial, Conversation!Initials
<1>7. /\ Conversation!Carries(Conversation!FullView) = since
      /\ Conversation!Carries(Conversation!FinalView) = since \cap Conversation!PublicFinals
  BY DEF StoreInv, Conversation!ContextsExact
<1> QED BY <1>3, <1>4, <1>5, <1>6, <1>7

LEMMA EntryTyped ==
  ASSUME StoreInv, RunInv, run.stage # "idle",
         NEW t \in {"memory", "anchor", "snapshot", "bootstrap", "user", "final", "error"}
  PROVE  LET e == Conversation!Entry(nextId, t) IN
         /\ e \in Entries /\ e.id = nextId /\ e.type = t /\ e.op = sjob.n
         /\ \A s \in DOMAIN store : \A x \in store[s] : x.id \in Nat /\ x.id < e.id
<1>1. nextId \in Nat \ {0} /\ sjob.n \in Nat \ {0} /\ sjob.mode \in Conversation!Modes
  BY DEF StoreInv, EntriesOK, RunInv, AttemptOK, Turn
<1>2. \A s \in DOMAIN store : \A x \in store[s] : x.id \in Nat /\ x.id < nextId
  BY DEF StoreInv, EntriesOK, Entries
<1>3. t \in EntryTypes
  BY DEF EntryTypes, Conversation!Initials
<1> QED BY <1>1, <1>2, <1>3 DEF Conversation!Entry, Entries

(* A turn takes nothing from the choice of the initial entries. *)
LEMMA TurnAppends ==
  ASSUME NEW V, OneOfEach(V), NEW e, e.type \in {"user", "final", "error"},
         \A x \in V : x.id < e.id
  PROVE  OneOfEach(V \cup {e})
<1>1. Conversation!History(V \cup {e}) \subseteq Conversation!History(V) \cup {e}
  BY DEF Conversation!History, Conversation!Initial
<1> QED BY <1>1 DEF OneOfEach, ChosenOnce

LEMMA HostKeeps == ASSUME StoreInv, RunInv, Conversation!Host PROVE StoreInv' /\ RunInv'
<1> DEFINE L == Conversation!Live
           H == IF sjob.mode = "final-only" THEN Conversation!FinalView ELSE {}
           e == Conversation!Entry(nextId, "memory")
<1>1. /\ run.stage = "host" /\ run' = [run EXCEPT !.stage = "prepare", !.history = H]
      /\ UNCHANGED <<sjob, refs, since>>
  BY DEF Conversation!Host
<1>2. run \in Attempt /\ sjob \in Turn /\ sjob.n # 0 /\ sjob.n \in Nat /\ run.assistant = 0
  BY <1>1 DEF RunInv, AttemptOK, Turn, TurnAtWork
<1>3. /\ H \subseteq Entries /\ Conversation!Initial(H) = {}
      /\ sjob.mode = "final-only" =>
           Conversation!Carries(H) = since \cap Conversation!PublicFinals
  <2>1. Conversation!Initial({}) = {}
    BY DEF Conversation!Initial
  <2> QED BY <2>1, ViewsTyped
<1> HIDE DEF H
<1>4. /\ run' \in Attempt /\ run'.stage = "prepare" /\ run'.history = H
      /\ run'.assistant = 0
  <2> DEFINE z == [run EXCEPT !.stage = "prepare", !.history = H]
  <2>1. "prepare" \in RunStages
    BY DEF RunStages
  <2>2. /\ z \in Attempt /\ z.stage = "prepare" /\ z.history = H
        /\ z.assistant = run.assistant
    BY <1>2, <1>3, <2>1 DEF Attempt
  <2>3. run' = z
    BY <1>1
  <2> HIDE DEF z
  <2> QED BY <1>2, <2>2, <2>3
<1>5. StoreInv'
  <2>1. CASE UNCHANGED <<store, nextId>>
    BY <1>1, <1>2, <2>1, StoreRests DEF RunInv
  <2>2. CASE /\ \A x \in store[L] :
                  x.type \notin {"memory", "user", "final", "error", "checkpoint"}
             /\ store' = [store EXCEPT ![L] = @ \cup {e}] /\ nextId' = nextId + 1
    <3>1. e \in Entries /\ e.id = nextId /\ e.type = "memory"
      BY <1>1, EntryTyped
    <3>2. L \in DOMAIN store /\ OneOfEach(store[L]) /\ store[L] \subseteq Entries
      BY DEF StoreInv, EntriesOK
    <3>3. \A x \in store[L] : x.type \in Conversation!Initials
      BY <2>2, <3>2 DEF Entries, EntryTypes
    <3> HIDE DEF e
    <3>4. Conversation!History(store[L] \cup {e}) = {}
      BY <3>1, <3>3 DEF Conversation!History, Conversation!Initial, Conversation!Initials
    <3>5. OneOfEach(store[L] \cup {e})
      BY <2>2, <3>1, <3>2, <3>4 DEF OneOfEach
    <3> QED BY <1>1, <2>2, <3>1, <3>5, AppendKeeps DEF RunInv
  <2> QED BY <2>1, <2>2 DEF Conversation!Host, Conversation!Append
<1>6. Conversation!PublicFinals' = Conversation!PublicFinals
  BY <1>1 DEF Conversation!PublicFinals
<1>7. RunInv'
  <2>1. AttemptOK'
    BY <1>1, <1>2, <1>4 DEF AttemptOK
  <2>2. HeldIsSo'
    BY <1>1, <1>3, <1>4, <1>6 DEF HeldIsSo
  <2>3. TurnAtWork'
    BY <1>4 DEF TurnAtWork
  <2> QED BY <2>1, <2>2, <2>3 DEF RunInv
<1> QED BY <1>5, <1>7

LEMMA CommitsTurn == ASSUME StoreInv, RunInv, Conversation!Commit PROVE StoreInv' /\ RunInv'
<1> DEFINE L == Conversation!Live
<1>1. /\ run.stage = "answered" /\ run' = Conversation!Idle
      /\ UNCHANGED <<store, sjob, nextId, since>>
  BY DEF Conversation!Commit
<1>2. sjob \in Turn /\ sjob.n \in Nat /\ sjob.n # 0
  BY <1>1 DEF RunInv, AttemptOK, Turn
<1>3. RunInv'
  BY <1>1, <1>2, IdleFields, RunRests
<1>4. CASE UNCHANGED refs
  BY <1>1, <1>2, <1>3, <1>4, StoreRests DEF RunInv
<1>5. ASSUME run.assistant # 0, NEW public \in BOOLEAN,
             refs' = refs \cup {[user |-> run.user, assistant |-> run.assistant,
                                 public |-> public]}
      PROVE  StoreInv'
  <2> DEFINE r == [user |-> run.user, assistant |-> run.assistant, public |-> public]
  <2>1. PICK u \in store[L], a \in store[L] :
          /\ UserAt(u) /\ a.id = run.assistant /\ a.op = sjob.n
          /\ a.type = "error" \/ a.type = "final"
          /\ a.type = "final" => a.id \in since
    BY <1>5 DEF RunInv, TurnAtWork
  <2>2. /\ r.user = u.id /\ r.assistant = a.id /\ u.type = "user" /\ a.op = u.op
        /\ refs' = refs \cup {r}
    BY <1>5, <2>1 DEF UserAt
  <2> HIDE DEF r
  <2>3. L \in DOMAIN store /\ \A s \in DOMAIN store : \A e \in store[s] : e.id = a.id => e = a
    BY DEF StoreInv, EntriesOK, OwnIds
  <2>4. a.type = "error" => a.id \notin since
    BY <2>3 DEF StoreInv, FailedOut
  <2>5. FullIds(store) = since /\ FinalIds(store, refs) = since \cap Conversation!PublicFinals
    BY Exact DEF StoreInv
  <2>6. /\ Conversation!Published(r) =>
             Conversation!PublicFinals' = Conversation!PublicFinals \cup {a.id}
        /\ ~Conversation!Published(r) => Conversation!PublicFinals' = Conversation!PublicFinals
    BY <2>2 DEF Conversation!PublicFinals
  <2>7. FinalIds(store, refs') = since \cap Conversation!PublicFinals'
    <3>1. CASE Conversation!Published(r) /\ a.type = "final"
      <4>1. FinalIds(store, refs') = FinalIds(store, refs) \cup {a.id}
        BY <2>2, <2>3, <3>1, IdsCommitted
      <4> QED BY <2>1, <2>5, <2>6, <3>1, <4>1
    <3>2. CASE ~(Conversation!Published(r) /\ a.type = "final")
      <4>1. FinalIds(store, refs') = FinalIds(store, refs)
        BY <2>2, <2>3, <3>2, IdsCommitted
      <4>2. since \cap Conversation!PublicFinals' = since \cap Conversation!PublicFinals
        BY <2>1, <2>4, <2>6, <3>2
      <4> QED BY <2>5, <4>1, <4>2
    <3> QED BY <3>1, <3>2
  <2>8. Conversation!ContextsExact'
    BY <1>1, <2>5, <2>7, ExactAfter
  <2>9. Conversation!RefsResolve'
    <3> SUFFICES ASSUME NEW q \in refs'
                 PROVE  \E s \in DOMAIN store : \E v, b \in store[s] :
                          /\ v.id = q.user /\ v.type = "user"
                          /\ b.id = q.assistant /\ b.op = v.op
      BY <1>1 DEF Conversation!RefsResolve
    <3>1. CASE q \in refs
      BY <3>1 DEF StoreInv, Conversation!RefsResolve
    <3>2. CASE q = r
      BY <2>2, <2>3, <3>2
    <3> QED BY <2>2, <3>1, <3>2
  <2>10. EntriesOK'
    BY <1>1 DEF StoreInv, EntriesOK, OwnIds
  <2>11. ArchivesStay'
    BY <1>1 DEF StoreInv, ArchivesStay, Conversation!Applied
  <2>12. FailedOut' /\ \A s \in DOMAIN store' : OneOfEach(store'[s])
    BY <1>1 DEF StoreInv, FailedOut
  <2> QED BY <2>8, <2>9, <2>10, <2>11, <2>12 DEF StoreInv
<1>6. \/ UNCHANGED refs
      \/ /\ run.assistant # 0
         /\ \E public \in BOOLEAN :
              refs' = refs \cup {[user |-> run.user, assistant |-> run.assistant,
                                  public |-> public]}
  BY DEF Conversation!Commit
<1> QED BY <1>3, <1>4, <1>5, <1>6

LEMMA PrepareKeeps == ASSUME StoreInv, RunInv, Conversation!Prepare PROVE StoreInv' /\ RunInv'
<1> DEFINE L == Conversation!Live
           answered == [run EXCEPT !.stage = "answered"]
<1>1. run.stage = "prepare" /\ UNCHANGED <<sjob, refs>>
  BY DEF Conversation!Prepare
<1>2. run \in Attempt /\ sjob \in Turn /\ sjob.n # 0 /\ sjob.n \in Nat /\ run.assistant = 0
  BY <1>1 DEF RunInv, AttemptOK, Turn, TurnAtWork
<1>3. answered \in Attempt /\ answered.stage = "answered" /\ answered.assistant = 0
  <2>1. "answered" \in RunStages
    BY DEF RunStages
  <2> QED BY <1>2, <2>1, AttemptSet
<1> HIDE DEF answered
<1>4. ASSUME run' = answered PROVE RunInv'
  BY <1>1, <1>2, <1>3, <1>4, Answered0
<1>5. ASSUME UNCHANGED <<store, nextId, since>> PROVE StoreInv'
  BY <1>1, <1>2, <1>5, StoreRests DEF RunInv
<1>6. CASE sjob.action = "clear"
  <2>1. run' = answered
    BY <1>6 DEF Conversation!Prepare, answered
  <2>2. \/ UNCHANGED <<store, nextId, since>>
        \/ /\ sjob.n \notin DOMAIN store
           /\ Conversation!Replace({Conversation!Entry(nextId, "reset")})
           /\ nextId' = nextId + 1 /\ since' = {}
    BY <1>6 DEF Conversation!Prepare
  <2>3. StoreInv'
    BY <1>1, <1>2, <1>5, <2>2, ClearKeeps DEF RunInv
  <2> QED BY <1>4, <2>1, <2>3
<1>7. CASE sjob.action # "clear" /\ sjob.action = "compact" /\ Conversation!Done
  <2>1. run' = answered /\ UNCHANGED <<store, nextId, since>>
    BY <1>7 DEF Conversation!Prepare, answered
  <2> QED BY <1>4, <1>5, <2>1
<1>8. CASE sjob.action # "clear" /\ ~(sjob.action = "compact" /\ Conversation!Done)
  <2> DEFINE v == [run EXCEPT !.stage = "bootstrap"]
             w == [v EXCEPT !.view = Conversation!FullView]
             z == [w EXCEPT !.applied = Conversation!Done]
  <2>1. run' = z /\ UNCHANGED <<store, nextId, since>>
    BY <1>2, <1>8 DEF Conversation!Prepare, Attempt
  <2>2. v \in Attempt /\ v.stage = "bootstrap" /\ v.history = run.history /\ v.assistant = 0
    <3>1. "bootstrap" \in RunStages
      BY DEF RunStages
    <3> QED BY <1>2, <3>1, AttemptSet
  <2> HIDE DEF v
  <2>3. /\ w \in Attempt /\ w.stage = "bootstrap" /\ w.history = run.history /\ w.assistant = 0
        /\ w.view = Conversation!FullView
    BY <2>2, ViewsTyped, ViewSet
  <2> HIDE DEF w
  <2>4. Conversation!Done \in BOOLEAN
    BY DEF Conversation!Done, Conversation!Applied
  <2>5. /\ z \in Attempt /\ z.stage = "bootstrap" /\ z.history = run.history /\ z.assistant = 0
        /\ z.view = Conversation!FullView /\ z.applied = Conversation!Done
    BY <2>3, <2>4, AppliedSet
  <2> HIDE DEF z
  <2>6. StoreInv'
    BY <1>5, <2>1
  <2>7. AttemptOK'
    BY <1>1, <1>2, <2>1, <2>5 DEF AttemptOK
  <2>8. Conversation!PublicFinals' = Conversation!PublicFinals
    BY <1>1 DEF Conversation!PublicFinals
  <2>9. ~Conversation!Done => sjob.n \notin DOMAIN store
    BY <1>2 DEF StoreInv, ArchivesStay, Conversation!Done
  <2>10. HeldIsSo'
    <3>1. /\ Conversation!Initial(run'.view) = Conversation!Initial(store'[L])
          /\ Conversation!Carries(run'.view) = since'
      BY <2>1, <2>5, ViewsTyped
    <3>2. ~run'.applied => sjob'.n \notin DOMAIN store'
      BY <1>1, <2>1, <2>5, <2>9, Zenon
    <3>3. /\ Conversation!Initial(run'.history) = {}
          /\ sjob'.mode = "final-only" =>
               Conversation!Carries(run'.history) = since' \cap Conversation!PublicFinals'
      <4>1. /\ Conversation!Initial(run.history) = {}
            /\ sjob.mode = "final-only" =>
                 Conversation!Carries(run.history) = since \cap Conversation!PublicFinals
        BY <1>1 DEF RunInv, HeldIsSo
      <4> QED BY <1>1, <2>1, <2>5, <2>8, <4>1
    <3> QED BY <3>1, <3>2, <3>3 DEF HeldIsSo
  <2>11. TurnAtWork'
    BY <2>1, <2>5 DEF TurnAtWork
  <2> QED BY <2>6, <2>7, <2>10, <2>11 DEF RunInv
<1> QED BY <1>6, <1>7, <1>8

LEMMA BootstrapKeeps ==
  ASSUME StoreInv, RunInv, Conversation!Bootstrap PROVE StoreInv' /\ RunInv'
<1> DEFINE L == Conversation!Live
<1>1. run.stage = "bootstrap" /\ UNCHANGED <<sjob, refs, since>>
  BY DEF Conversation!Bootstrap
<1>2. run \in Attempt /\ sjob \in Turn /\ sjob.n # 0 /\ sjob.n \in Nat /\ run.assistant = 0
  BY <1>1 DEF RunInv, AttemptOK, Turn, TurnAtWork
<1>3. /\ Conversation!Initial(run.view) = Conversation!Initial(store[L])
      /\ Conversation!Carries(run.view) = since
      /\ ~run.applied => sjob.n \notin DOMAIN store
      /\ Conversation!Initial(run.history) = {}
      /\ sjob.mode = "final-only" =>
           Conversation!Carries(run.history) = since \cap Conversation!PublicFinals
  BY <1>1 DEF RunInv, HeldIsSo
<1>4. Conversation!PublicFinals' = Conversation!PublicFinals
  BY <1>1 DEF Conversation!PublicFinals
<1>5. CASE run' = [run EXCEPT !.stage = "preprocess"] /\ UNCHANGED <<store, nextId>>
  <2> DEFINE z == [run EXCEPT !.stage = "preprocess"]
  <2>1. /\ z \in Attempt /\ z.stage = "preprocess" /\ z.history = run.history /\ z.assistant = 0
        /\ z.view = run.view /\ z.applied = run.applied
    <3>1. "preprocess" \in RunStages
      BY DEF RunStages
    <3> QED BY <1>2, <3>1, AttemptSet
  <2> HIDE DEF z
  <2>2. run' = z /\ UNCHANGED <<store, nextId>>
    BY <1>5 DEF z
  <2>3. StoreInv'
    BY <1>1, <1>2, <2>2, StoreRests DEF RunInv
  <2>4. AttemptOK'
    BY <1>1, <1>2, <2>1, <2>2 DEF AttemptOK
  <2>5. HeldIsSo'
    <3>1. ~run'.applied => sjob'.n \notin DOMAIN store'
      BY <1>1, <1>3, <2>1, <2>2, Zenon
    <3>2. /\ Conversation!Initial(run'.view) = Conversation!Initial(store'[L])
          /\ Conversation!Carries(run'.view) = since'
          /\ Conversation!Initial(run'.history) = {}
          /\ sjob'.mode = "final-only" =>
               Conversation!Carries(run'.history) = since' \cap Conversation!PublicFinals'
      BY <1>1, <1>3, <1>4, <2>1, <2>2
    <3> QED BY <3>1, <3>2 DEF HeldIsSo
  <2>6. TurnAtWork'
    BY <2>1, <2>2 DEF TurnAtWork
  <2> QED BY <2>3, <2>4, <2>5, <2>6 DEF RunInv
<1>6. ASSUME NEW t \in {"anchor", "snapshot", "bootstrap"},
             \A x \in run.view : x.type # t,
             Conversation!Append(Conversation!Entry(nextId, t)), nextId' = nextId + 1,
             run' = [run EXCEPT !.view = @ \cup {Conversation!Entry(nextId, t)}]
      PROVE  StoreInv' /\ RunInv'
  <2> DEFINE e == Conversation!Entry(nextId, t)
             z == [run EXCEPT !.view = run.view \cup {e}]
  <2>1. e \in Entries /\ e.id = nextId /\ e.type = t
    BY <1>1, EntryTyped
  <2>2. store' = [store EXCEPT ![L] = @ \cup {e}]
    BY <1>6 DEF Conversation!Append
  <2>3. run' = z
    BY <1>6
  <2> HIDE DEF e
  <2>4. /\ z \in Attempt /\ z.stage = "bootstrap" /\ z.view = run.view \cup {e}
        /\ z.history = run.history /\ z.applied = run.applied /\ z.assistant = 0
    <3>1. run.view \cup {e} \in SUBSET Entries
      BY <1>2, <2>1 DEF Attempt
    <3> QED BY <1>1, <1>2, <3>1, ViewSet
  <2> HIDE DEF z
  <2>5. L \in DOMAIN store /\ OneOfEach(store[L])
    BY DEF StoreInv, EntriesOK
  <2>6. OneOfEach(store[L] \cup {e})
    <3>1. \A x \in store[L] : x.type # t
      BY <1>3, <1>6 DEF Conversation!Initial, Conversation!Initials
    <3>2. Conversation!History(store[L] \cup {e}) \subseteq Conversation!History(store[L])
      BY <2>1 DEF Conversation!History, Conversation!Initial, Conversation!Initials
    <3> QED BY <2>1, <2>5, <3>1, <3>2 DEF OneOfEach
  <2>7. StoreInv'
    BY <1>1, <1>6, <2>1, <2>2, <2>6, AppendKeeps DEF RunInv
  <2>8. AttemptOK'
    BY <1>1, <1>2, <2>3, <2>4 DEF AttemptOK
  <2>9. /\ Conversation!Initial(run.view \cup {e}) = Conversation!Initial(store[L] \cup {e})
        /\ Conversation!Carries(run.view \cup {e}) = Conversation!Carries(run.view)
    <3>1. Conversation!Initial(run.view \cup {e}) = Conversation!Initial(store[L] \cup {e})
      BY <1>3 DEF Conversation!Initial
    <3>2. /\ {x \in run.view \cup {e} : x.type \in {"user", "final"}} =
               {x \in run.view : x.type \in {"user", "final"}}
          /\ Conversation!Checkpoints(run.view \cup {e}) = Conversation!Checkpoints(run.view)
      BY <2>1 DEF Conversation!Checkpoints
    <3> QED BY <3>1, <3>2 DEF Conversation!Carries
  <2>10. store'[L] = store[L] \cup {e} /\ DOMAIN store' = DOMAIN store
    BY <2>2, <2>5
  <2>11. HeldIsSo'
    <3>1. ~run'.applied => sjob'.n \notin DOMAIN store'
      BY <1>1, <1>3, <2>3, <2>4, <2>10, Zenon
    <3>2. /\ Conversation!Initial(run'.view) = Conversation!Initial(store'[L])
          /\ Conversation!Carries(run'.view) = since'
          /\ Conversation!Initial(run'.history) = {}
          /\ sjob'.mode = "final-only" =>
               Conversation!Carries(run'.history) = since' \cap Conversation!PublicFinals'
      BY <1>1, <1>3, <1>4, <2>3, <2>4, <2>9, <2>10
    <3> QED BY <3>1, <3>2 DEF HeldIsSo
  <2>12. TurnAtWork'
    BY <2>3, <2>4 DEF TurnAtWork
  <2> QED BY <2>7, <2>8, <2>11, <2>12 DEF RunInv
<1>7. ASSUME Conversation!Lacks(run.view) # {}
      PROVE  \E t \in {"anchor", "snapshot", "bootstrap"} :
               /\ t = Conversation!Order[Conversation!Min(Conversation!Lacks(run.view))]
               /\ \A x \in run.view : x.type # t
  <2> DEFINE S == Conversation!Lacks(run.view)
             m == Conversation!Min(S)
  <2>1. S \subseteq 1 .. 3
    BY DEF Conversation!Lacks, Conversation!Order
  <2>2. \A i \in S : /\ Conversation!Order[i] \in {"anchor", "snapshot", "bootstrap"}
                     /\ \A x \in run.view : x.type # Conversation!Order[i]
    BY <2>1 DEF Conversation!Lacks, Conversation!Order
  <2> HIDE DEF S
  <2>3. \E i \in S : \A j \in S : i <= j
    <3>1. 1 \in S \/ 2 \in S \/ 3 \in S
      BY <1>7, <2>1 DEF S
    <3> QED BY <2>1, <3>1
  <2>4. m \in S
    BY <2>3 DEF Conversation!Min
  <2> QED BY <2>2, <2>4 DEF S
<1>8. CASE Conversation!Lacks(run.view) = {}
  BY <1>5, <1>8 DEF Conversation!Bootstrap
<1>9. CASE Conversation!Lacks(run.view) # {}
  <2>1. PICK t \in {"anchor", "snapshot", "bootstrap"} :
          /\ t = Conversation!Order[Conversation!Min(Conversation!Lacks(run.view))]
          /\ \A x \in run.view : x.type # t
    BY <1>7, <1>9
  <2>2. /\ Conversation!Append(Conversation!Entry(nextId, t)) /\ nextId' = nextId + 1
        /\ run' = [run EXCEPT !.view = @ \cup {Conversation!Entry(nextId, t)}]
    BY <1>9, <2>1 DEF Conversation!Bootstrap
  <2> QED BY <1>6, <2>1, <2>2
<1> QED BY <1>8, <1>9

LEMMA PreprocessKeeps ==
  ASSUME StoreInv, RunInv, Conversation!Preprocess PROVE StoreInv' /\ RunInv'
<1> DEFINE t == IF sjob.action = "compact" THEN "answered" ELSE "run"
           z == [run EXCEPT !.stage = t]
<1>1. run.stage = "preprocess" /\ UNCHANGED <<sjob, refs, since>>
  BY DEF Conversation!Preprocess
<1>2. run \in Attempt /\ sjob \in Turn /\ sjob.n # 0 /\ sjob.n \in Nat /\ run.assistant = 0
  BY <1>1 DEF RunInv, AttemptOK, Turn, TurnAtWork
<1>3. t \in {"answered", "run"} /\ t \in RunStages
  BY DEF RunStages
<1>4. run' = z /\ StoreInv'
  <2>1. CASE run' = z /\ UNCHANGED <<store, nextId>>
    BY <1>1, <1>2, <2>1, StoreRests DEF RunInv
  <2>2. CASE ~run.applied /\ Conversation!Checkpoint
    BY <1>1, <2>2, CompactKeeps
  <2> QED BY <2>1, <2>2 DEF Conversation!Preprocess
<1> HIDE DEF t
<1>5. z \in Attempt /\ z.stage = t /\ z.assistant = 0
  BY <1>2, <1>3, AttemptSet
<1> HIDE DEF z
<1>6. RunInv'
  BY <1>1, <1>2, <1>3, <1>4, <1>5, RunRests, Answered0
<1> QED BY <1>4, <1>6

LEMMA AppendUserKeeps ==
  ASSUME StoreInv, RunInv, Conversation!AppendUser PROVE StoreInv' /\ RunInv'
<1> DEFINE L == Conversation!Live
<1>1. run.stage = "run" /\ UNCHANGED <<sjob, refs>>
  BY DEF Conversation!AppendUser
<1>2. run \in Attempt /\ sjob \in Turn /\ sjob.n # 0 /\ sjob.n \in Nat /\ run.assistant = 0
  BY <1>1 DEF RunInv, AttemptOK, Turn, TurnAtWork
<1>3. L \in DOMAIN store /\ store[L] \subseteq Entries /\ OneOfEach(store[L])
  BY DEF StoreInv, EntriesOK
<1>4. ASSUME NEW k \in Nat, run' = [run EXCEPT !.stage = "model", !.user = k],
             \E u \in store'[L] : u.id = k /\ u.type = "user" /\ u.op = sjob.n
      PROVE  RunInv'
  <2> DEFINE z == [run EXCEPT !.stage = "model", !.user = k]
  <2>1. "model" \in RunStages
    BY DEF RunStages
  <2>2. /\ z \in Attempt /\ z.stage = "model" /\ z.user = k
        /\ z.assistant = run.assistant
    BY <1>2, <2>1 DEF Attempt
  <2>3. run' = z
    BY <1>4
  <2> HIDE DEF z
  <2>4. AttemptOK' /\ HeldIsSo'
    BY <1>1, <1>2, <2>2, <2>3 DEF AttemptOK, HeldIsSo
  <2>5. TurnAtWork'
    BY <1>1, <1>2, <1>4, <2>2, <2>3 DEF TurnAtWork, UserAt
  <2> QED BY <2>4, <2>5 DEF RunInv
<1>5. CASE Conversation!Said # {}
  <2> DEFINE S == {e.id : e \in Conversation!Said}
             k == Conversation!Max(S)
  <2>1. run' = [run EXCEPT !.stage = "model", !.user = k] /\ UNCHANGED <<store, nextId, since>>
    BY <1>5 DEF Conversation!AppendUser
  <2>2. S # {} /\ \A i \in S : i \in Nat /\ i < nextId
    BY <1>3, <1>5 DEF Conversation!Said, StoreInv, EntriesOK, Entries
  <2>3. nextId \in Nat
    BY DEF StoreInv, EntriesOK
  <2> HIDE DEF S
  <2>4. \E i \in S : \A j \in S : j <= i
    <3>1. S \subseteq 0 .. nextId
      BY <2>2, <2>3
    <3>2. IsFiniteSet(S) /\ S \in SUBSET Nat
      <4>1. IsFiniteSet(0 .. nextId)
        BY <2>3, FS_Interval
      <4> QED BY <2>2, <3>1, <4>1, FS_Subset
    <3> QED BY <2>2, <3>2, Greatest
  <2>5. k \in S
    <3>1. \E i \in S : \A j \in S : i >= j
      BY <2>2, <2>4
    <3> QED BY <3>1 DEF Conversation!Max
  <2> HIDE DEF k
  <2>6. \E u \in store'[L] : u.id = k /\ u.type = "user" /\ u.op = sjob.n
    BY <2>1, <2>5 DEF S, Conversation!Said
  <2>7. StoreInv'
    BY <1>1, <1>2, <2>1, StoreRests DEF RunInv
  <2> QED BY <1>4, <2>1, <2>2, <2>5, <2>6, <2>7
<1>6. CASE Conversation!Said = {}
  <2> DEFINE e == Conversation!Entry(nextId, "user")
  <2>1. /\ run' = [run EXCEPT !.stage = "model", !.user = nextId]
        /\ store' = [store EXCEPT ![L] = @ \cup {e}] /\ nextId' = nextId + 1
        /\ since' = since \cup {nextId}
    BY <1>6 DEF Conversation!AppendUser, Conversation!Append
  <2>2. /\ e \in Entries /\ e.id = nextId /\ e.type = "user" /\ e.op = sjob.n
        /\ \A x \in store[L] : x.id < e.id
    BY <1>1, <1>3, EntryTyped
  <2> HIDE DEF e
  <2>3. OneOfEach(store[L] \cup {e})
    BY <1>3, <2>2, TurnAppends
  <2>4. StoreInv'
    BY <1>1, <2>1, <2>2, <2>3, AppendKeeps DEF RunInv
  <2>5. nextId \in Nat
    BY DEF StoreInv, EntriesOK
  <2>6. e \in store'[L]
    BY <1>3, <2>1
  <2> QED BY <1>4, <2>1, <2>2, <2>4, <2>5, <2>6
<1> QED BY <1>5, <1>6

LEMMA AppendAssistantKeeps ==
  ASSUME StoreInv, RunInv, Conversation!AppendAssistant PROVE StoreInv' /\ RunInv'
<1> DEFINE L == Conversation!Live
<1>1. run.stage = "model" /\ UNCHANGED <<sjob, refs>>
  BY DEF Conversation!AppendAssistant
<1>2. /\ run \in Attempt /\ sjob \in Turn /\ sjob.n # 0 /\ nextId \in Nat \ {0}
      /\ L \in DOMAIN store /\ store[L] \subseteq Entries /\ OneOfEach(store[L])
  BY <1>1 DEF RunInv, AttemptOK, StoreInv, EntriesOK
<1>3. PICK t \in {"final", "error"} :
        /\ Conversation!Append(Conversation!Entry(nextId, t)) /\ nextId' = nextId + 1
        /\ since' = IF t = "final" THEN since \cup {nextId} ELSE since
        /\ run' = [run EXCEPT !.stage = "answered", !.assistant = nextId]
  BY DEF Conversation!AppendAssistant
<1> DEFINE e == Conversation!Entry(nextId, t)
           z == [run EXCEPT !.stage = "answered", !.assistant = nextId]
<1>4. /\ e \in Entries /\ e.id = nextId /\ e.type = t /\ e.op = sjob.n
      /\ \A x \in store[L] : x.id < e.id
  BY <1>1, <1>2, EntryTyped
<1>5. store' = [store EXCEPT ![L] = @ \cup {e}] /\ run' = z
  BY <1>3 DEF Conversation!Append
<1> HIDE DEF e
<1>6. /\ z \in Attempt /\ z.stage = "answered" /\ z.assistant = nextId
      /\ z.user = run.user
  <2>1. "answered" \in RunStages
    BY DEF RunStages
  <2> QED BY <1>2, <2>1 DEF Attempt
<1> HIDE DEF z
<1>7. OneOfEach(store[L] \cup {e})
  BY <1>2, <1>4, TurnAppends
<1>8. StoreInv'
  BY <1>1, <1>3, <1>4, <1>5, <1>7, AppendKeeps DEF RunInv
<1>9. PICK u \in store[L] : UserAt(u)
  BY <1>1 DEF RunInv, TurnAtWork
<1>10. store'[L] = store[L] \cup {e}
  BY <1>2, <1>5
<1>11. AttemptOK' /\ HeldIsSo'
  BY <1>1, <1>2, <1>5, <1>6 DEF AttemptOK, HeldIsSo
<1>12. TurnAtWork'
  <2>1. u \in store'[L] /\ e \in store'[L] /\ UserAt(u)'
    BY <1>1, <1>5, <1>6, <1>9, <1>10 DEF UserAt
  <2>2. /\ e.id = run'.assistant /\ e.op = sjob'.n /\ e.type \in {"error", "final"}
        /\ e.type = "final" => e.id \in since'
    BY <1>1, <1>3, <1>4, <1>5, <1>6
  <2> QED BY <1>5, <1>6, <2>1, <2>2 DEF TurnAtWork
<1> QED BY <1>8, <1>11, <1>12 DEF RunInv

LEMMA ConversationBegins == Conversation!Init => StoreInv /\ RunInv
<1> SUFFICES ASSUME Conversation!Init PROVE StoreInv /\ RunInv
  OBVIOUS
<1> DEFINE L == Conversation!Live
<1>1. /\ DOMAIN store = {L} /\ store[L] = {} /\ L = 0 /\ nextId = 1
      /\ refs = {} /\ since = {} /\ run = Conversation!Idle
  BY DEF Conversation!Init, Conversation!Live
<1>2. sjob \in Turn /\ sjob.n = 0
  BY DEF Conversation!Init, Turn, Conversation!Modes
<1>3. RunInv
  BY <1>1, <1>2, IdleFields DEF RunInv, AttemptOK, HeldIsSo, TurnAtWork
<1>4. Conversation!Checkpoints(store[L]) = {} /\ Conversation!Initial(store[L]) = {}
  BY <1>1 DEF Conversation!Checkpoints, Conversation!Initial
<1>5. EntriesOK
  BY <1>1, <1>2, <1>4, FS_EmptySet DEF EntriesOK, OwnIds
<1>6. ArchivesStay
  BY <1>1, <1>2, <1>4 DEF ArchivesStay, Points
<1>7. Conversation!ContextsExact
  <2>1. FullPart(store[L]) = {} /\ FinalPart(store[L], refs) = {}
    BY <1>1, <1>4 DEF FullPart, FinalPart, FinalsIn
  <2>2. FullIds(store) = {} /\ FinalIds(store, refs) = {}
    BY <1>1, <1>4, <2>1, IdsWhenEnded
  <2> QED BY <1>1, <2>2, Exact
<1>8. Conversation!RefsResolve /\ FailedOut /\ \A s \in DOMAIN store : OneOfEach(store[s])
  BY <1>1 DEF Conversation!RefsResolve, FailedOut, OneOfEach
<1> QED BY <1>3, <1>5, <1>6, <1>7, <1>8 DEF StoreInv

LEMMA ConversationStep ==
  StoreInv /\ RunInv /\ [Conversation!Next]_(Conversation!vars) => StoreInv' /\ RunInv'
<1> SUFFICES ASSUME StoreInv, RunInv, [Conversation!Next]_(Conversation!vars)
             PROVE  StoreInv' /\ RunInv'
  OBVIOUS
<1>1. CASE UNCHANGED Conversation!vars
  <2>1. UNCHANGED <<store, sjob, run, refs, nextId, since>>
    BY <1>1 DEF Conversation!vars
  <2>2. sjob'.n \in Nat /\ sjob'.n = sjob.n
    BY <2>1 DEF RunInv, AttemptOK, Turn
  <2>3. StoreInv'
    BY <2>1, <2>2, StoreRests DEF RunInv
  <2>4. Conversation!PublicFinals' = Conversation!PublicFinals
    BY <2>1 DEF Conversation!PublicFinals
  <2>5. RunInv'
    BY <2>1, <2>4 DEF RunInv, AttemptOK, HeldIsSo, TurnAtWork, UserAt
  <2> QED BY <2>3, <2>5
<1>2. CASE Conversation!Next
  BY <1>2, AcceptsTurn, FailKeeps, HostKeeps, CommitsTurn, PrepareKeeps, BootstrapKeeps,
     PreprocessKeeps, AppendUserKeeps, AppendAssistantKeeps DEF Conversation!Next
<1> QED BY <1>1, <1>2

LEMMA ConversationTruthful == StoreInv /\ RunInv => SessionsExact
<1> SUFFICES ASSUME StoreInv, RunInv PROVE SessionsExact
  OBVIOUS
<1>1. run.stage # "conflict"
  BY DEF RunInv, AttemptOK, Attempt, RunStages
<1>2. Conversation!InitializedOnce
  <2> SUFFICES ASSUME NEW t \in ChosenOnce, NEW s \in DOMAIN store
               PROVE  LET E == {e \in store[s] : e.type = t} IN
                      /\ Conversation!Cardinality(E) <= 1
                      /\ t = "memory" => \A e \in E, x \in Conversation!History(store[s]) :
                                           e.id < x.id
    BY DEF Conversation!InitializedOnce, ChosenOnce
  <2> DEFINE E == {e \in store[s] : e.type = t}
  <2>1. OneOfEach(store[s])
    BY DEF StoreInv
  <2>2. \A e, f \in E : e = f
    BY <2>1 DEF OneOfEach
  <2>3. t = "memory" => \A e \in E, x \in Conversation!History(store[s]) : e.id < x.id
    BY <2>1 DEF OneOfEach
  <2>4. Conversation!Cardinality(E) = Cardinality(E)
    BY DEF Conversation!Cardinality, Cardinality
  <2> HIDE DEF E
  <2>5. Cardinality(E) <= 1
    <3>1. CASE E = {}
      BY <3>1, FS_EmptySet
    <3>2. CASE E # {}
      <4>1. PICK e \in E : TRUE
        BY <3>2
      <4>2. E = {e}
        BY <2>2
      <4> QED BY <4>2, FS_Singleton
    <3> QED BY <3>1, <3>2
  <2> QED BY <2>3, <2>4, <2>5 DEF E
<1> QED BY <1>1, <1>2 DEF SessionsExact, StoreInv, Conversation!RetriesRepeatNothing

LEMMA ConversationPart == Spec => Conversation!Spec
<1>1. Init => Conversation!Init
  BY DEF Init
<1>2. [Next]_vars => [Conversation!Next]_(Conversation!vars)
  BY DEF Next, vars, sessionVars, Conversation!vars
<1> QED BY <1>1, <1>2, PTL DEF Spec, Conversation!Spec

(* features/session-context, sandbox/agent-runner.ts, agent/session.ts:    *)
(* whatever is cleared and compacted in turn, by runs of both kinds, and   *)
(* wherever attempts die, a full context holds the turns since the last    *)
(* clear and a final-only one the published finals of them, the entries    *)
(* the host adopted stay in one session, and a retry neither meets its own *)
(* archive nor initializes a session again.                                *)
THEOREM ContextsStayExact == Spec => []SessionsExact
<1>1. Conversation!Spec => [](StoreInv /\ RunInv)
  BY ConversationBegins, ConversationStep, PTL DEF Conversation!Spec
<1> QED BY ConversationPart, <1>1, ConversationTruthful, PTL
=============================================================================
