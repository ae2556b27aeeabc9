---------------------------- MODULE IntakeProofs ----------------------------
(***************************************************************************)
(* Machine-checked safety of Intake, for every number of messages and      *)
(* failures, every page size and every kind of channel.                    *)
(***************************************************************************)
EXTENDS Intake, SequenceTheorems, FiniteSetTheorems, WellFoundedInduction, TLAPS

Lives == {"idle", "thread", "enqueue", "cursor", "append"}
ScanSteps == {"off", "fetch", "thread", "enqueue", "cursor", "next"}

Types ==
  /\ setup \in Setups
  /\ posted \in Seq([scope : Scopes, human : BOOLEAN]) /\ Len(posted) =< MaxMessages
  /\ threads \in SUBSET Ids
  /\ cursor \in [Scopes -> Nat] /\ \A s \in Scopes : cursor[s] =< Len(posted)
  /\ initialized \in SUBSET Scopes
  /\ jobs \in [Ids -> {0, 1}] /\ appended \in Seq(Ids)
  /\ stage \in Stages /\ appendOnly \in BOOLEAN /\ gate \in BOOLEAN
  /\ live \in [Ids -> Lives]
  /\ fallback \in SUBSET Nat /\ complete \in BOOLEAN /\ todo \in SUBSET Ids
  /\ scan \in [scope : Scopes, page : SUBSET Ids, full : BOOLEAN, step : ScanSteps,
              cursor : Nat]
ScopeOf(m) == posted[m].scope

(* A message of a thread finds its thread; a forum has nothing else. *)
ScopesThere ==
  \A m \in Known : ScopeOf(m) \in threads \/ (ScopeOf(m) = 0 /\ ~setup.forum)

(* What the stages of a process say of its configuration *)
StagesSound ==
  /\ stage \notin {"down", "serving"} => gate /\ ~appendOnly
  /\ stage = "down" => ~gate /\ ~appendOnly /\ \A m \in Ids : live[m] = "idle"
  /\ appendOnly => /\ ~gate /\ setup.mode = "shared" /\ ~setup.forum
                   /\ cursor[0] = 0 /\ 0 \notin initialized
  /\ stage \in {"root", "listing", "threads"} \/ (stage = "serving" /\ ~gate /\ ~appendOnly) =>
       setup.forum \/ cursor[0] # 0 \/ 0 \in initialized
  /\ stage = "root" => ~setup.forum
  /\ stage = "seeding" => setup.forum
  /\ stage \in {"seeding", "threads"} => setup.mode # "shared"
  /\ \A m \in Ids : live[m] = "append" => appendOnly
  /\ \A m \in Ids : live[m] \in {"thread", "enqueue", "cursor"} => ~appendOnly
  /\ \A m \in Ids \ Known : live[m] = "idle" /\ jobs[m] = 0

(* What was appended has no job and is behind the cursor of the channel,   *)
(* once it is opened again.                                                *)
AppendsSound ==
  /\ \A i \in 1 .. Len(appended) :
       LET m == appended[i] IN
       /\ m \in Known /\ ScopeOf(m) = 0 /\ jobs[m] = 0 /\ live[m] = "idle"
       /\ setup.mode = "shared" /\ ~setup.forum
       /\ cursor[0] # 0 \/ 0 \in initialized => m =< cursor[0]
       /\ scan.step # "off" => m =< scan.cursor
  /\ \A i, k \in 1 .. Len(appended) : i < k => appended[i] < appended[k]
  /\ \A m \in Ids : live[m] = "append" =>
       /\ ScopeOf(m) = 0 /\ jobs[m] = 0 /\ \A i \in 1 .. Len(appended) : appended[i] < m

(* The turns nobody works on: they wait for a recovery. *)
Due(m) ==
  /\ m \notin history /\ m \notin told /\ m \notin excused /\ m \notin unlisted
  /\ posted[m].human /\ Accepts(ScopeOf(m))
Missed == {m \in Known : Due(m) /\ jobs[m] = 0 /\ live[m] \notin {"thread", "enqueue"}}

(* The recovery at work *)
ScanSound ==
  /\ scan.step # "off" => stage \in {"root", "threads"}
  /\ stage = "root" => scan.step # "off" /\ scan.scope = 0
  /\ scan.step # "off" /\ stage = "threads" => complete /\ scan.scope \notin todo
  /\ stage \in {"seeding", "threads"} /\ ~complete => todo = {}
  /\ \A m \in scan.page : m \in Known /\ ScopeOf(m) = scan.scope /\ m > scan.cursor
  /\ scan.step \in {"thread", "enqueue", "cursor"} <=> scan.page # {}
  /\ scan.step = "cursor" => Min(scan.page) \notin Missed

Scanned(m) ==
  /\ scan.step = "fetch" => m > scan.cursor
  /\ scan.step # "fetch" =>
       m \in scan.page \/ (scan.full /\ m > scan.cursor /\ \A k \in scan.page : m > k)

(* Its thread has no cursor of its own, and starts at the channel's. *)
Bare(m) == ScopeOf(m) # 0 /\ ~setup.forum /\ cursor[ScopeOf(m)] = 0

(* What is left of this start, or the next one, comes to m. *)
InReach(m) ==
  /\ m > cursor[ScopeOf(m)]
  /\ Bare(m) /\ stage \in {"down", "opening"} => m > cursor[0]
  /\ Bare(m) /\ stage \in {"root", "listing", "threads"} =>
       fallback # {} /\ \A c \in fallback : m > c
  /\ Bare(m) /\ stage = "threads" => complete
  /\ stage = "serving" => (gate \/ appendOnly) /\ ~Bare(m)
  /\ stage \in {"listing", "seeding", "threads"} => ScopeOf(m) # 0
  /\ stage = "root" /\ ScopeOf(m) = 0 => Scanned(m)
  /\ stage \in {"seeding", "threads"} =>
       /\ complete => \/ ScopeOf(m) \in todo
                      \/ scan.step # "off" /\ scan.scope = ScopeOf(m) /\ Scanned(m)
       /\ ScopeOf(m) \in DOMAIN after =>
            after[ScopeOf(m)] # {} /\ \A c \in after[ScopeOf(m)] : m > c

IntakeInv ==
  /\ Types /\ ScopesThere /\ StagesSound /\ AppendsSound /\ ScanSound
  /\ \A m \in Missed : InReach(m)

-----------------------------------------------------------------------------
(* Least and greatest messages, and pages *)

LEMMA LeastNumber ==
  ASSUME NEW S \in SUBSET Nat, S # {}
  PROVE  \E n \in S : \A m \in S : n =< m
<1> DEFINE R == OpToRel(<, Nat)
<1>1. IsWellFoundedOn(R, Nat)
  BY NatLessThanWellFounded
<1>2. \A m, n \in Nat : m < n => <<m, n>> \in R
  BY DEF OpToRel
<1> HIDE DEF R
<1>3. PICK n \in S : \A m \in S : ~(<<m, n>> \in R)
  BY <1>1, WFMin
<1>4. ASSUME NEW m \in S PROVE n =< m
  <2>1. m \in Nat /\ n \in Nat
    OBVIOUS
  <2>2. ~(m < n)
    BY <1>2, <1>3, <2>1
  <2> QED BY <2>1, <2>2
<1> QED BY <1>4

LEMMA MinIsLeast ==
  ASSUME NEW S \in SUBSET Nat, S # {}
  PROVE  Min(S) \in S /\ \A m \in S : Min(S) =< m
<1>1. \E n \in S : \A m \in S : n =< m
  BY LeastNumber
<1> QED BY <1>1 DEF Min

LEMMA GreatestNumber ==
  ASSUME NEW n \in Nat, NEW S \in SUBSET (0 .. n), S # {}
  PROVE  \E g \in S : \A m \in S : g >= m
<1> DEFINE T == {n - m : m \in S}
<1>1. T \in SUBSET Nat /\ T # {}
  <2>1. \A m \in S : m \in Nat /\ m =< n
    OBVIOUS
  <2>2. \A m \in S : n - m \in Nat
    BY <2>1
  <2> QED BY <2>2
<1> HIDE DEF T
<1>2. PICK t \in T : \A u \in T : t =< u
  BY <1>1, LeastNumber
<1>3. PICK g \in S : t = n - g
  BY <1>2 DEF T
<1>4. ASSUME NEW m \in S PROVE g >= m
  <2>1. n - m \in T
    BY DEF T
  <2>2. n - g =< n - m /\ g \in Nat /\ m \in Nat
    BY <1>2, <1>3, <2>1
  <2> QED BY <2>2
<1> QED BY <1>4

LEMMA MaxIsGreatest ==
  ASSUME NEW n \in Nat, NEW S \in SUBSET (0 .. n), S # {}
  PROVE  Max(S) \in S /\ \A m \in S : Max(S) >= m
<1>1. \E g \in S : \A m \in S : g >= m
  BY GreatestNumber
<1> QED BY <1>1 DEF Max

(* The oldest messages of S, at most n of them *)
Oldest(S, n) == {m \in S : Cardinality({k \in S : k < m}) < n}

(* What is newer than a page is newer than all of it, and the page is full. *)
LEMMA OldestAreAPage ==
  ASSUME NEW l \in Nat, NEW S \in SUBSET (0 .. l), NEW n \in Nat \ {0},
         NEW x \in S \ Oldest(S, n)
  PROVE  Cardinality(Oldest(S, n)) = n /\ \A k \in Oldest(S, n) : x > k
<1> DEFINE Below(m) == {k \in S : k < m}
           P == Oldest(S, n)
<1>1. IsFiniteSet(S) /\ \A m \in S : m \in Nat
  <2>1. IsFiniteSet(0 .. l)
    BY FS_Interval
  <2>2. IsFiniteSet(S)
    BY <2>1, FS_Subset
  <2>3. \A m \in S : m \in 0 .. l
    OBVIOUS
  <2>4. \A m \in 0 .. l : m \in Nat
    OBVIOUS
  <2> QED BY <2>2, <2>3, <2>4
<1>2. \A T \in SUBSET S : IsFiniteSet(T) /\ Cardinality(T) \in Nat
  BY <1>1, FS_Subset, FS_CardinalityType
<1>3. \A m : Below(m) \in SUBSET S /\ \A k : k \in Below(m) <=> k \in S /\ k < m
  OBVIOUS
<1>4. P \in SUBSET S /\ x \in S \ P /\ \A m \in S : m \in P <=> Cardinality(Below(m)) < n
  BY DEF Oldest
<1> HIDE DEF Below, P
<1>5. ASSUME NEW m \in S \ P, NEW k \in P PROVE k < m
  <2>1. CASE k >= m
    <3>1. Below(m) \in SUBSET Below(k)
      <4>1. ASSUME NEW j \in Below(m) PROVE j \in Below(k)
        <5>1. j \in S /\ j < m /\ m \in S /\ k \in S
          BY <1>3, <1>4
        <5>2. j \in Nat /\ m \in Nat /\ k \in Nat
          BY <1>1, <5>1
        <5>3. j < k
          BY <2>1, <5>1, <5>2
        <5> QED BY <1>3, <5>1, <5>3
      <4> QED BY <4>1
    <3>2. Cardinality(Below(m)) =< Cardinality(Below(k))
      BY <1>2, <1>3, <3>1, FS_Subset
    <3>3. ~(Cardinality(Below(m)) < n) /\ Cardinality(Below(k)) < n /\ k \in S
      BY <1>4
    <3>4. Cardinality(Below(m)) \in Nat /\ Cardinality(Below(k)) \in Nat
      BY <1>2, <1>3
    <3> QED BY <3>2, <3>3, <3>4
  <2> QED BY <1>1, <1>4, <2>1
<1>6. Cardinality(P) >= n
  <2>1. S \ P \in SUBSET Nat /\ S \ P # {}
    BY <1>1, <1>4
  <2>2. PICK m \in S \ P : \A k \in S \ P : m =< k
    BY <2>1, LeastNumber
  <2>3. Below(m) = P
    <3>1. ASSUME NEW k \in P PROVE k \in Below(m)
      BY <1>3, <1>4, <1>5, <2>2
    <3>2. ASSUME NEW k \in Below(m) PROVE k \in P
      <4>1. k \in S /\ k < m /\ k \in Nat /\ m \in Nat
        BY <1>1, <1>3, <2>2
      <4>2. ~(m =< k)
        BY <4>1
      <4> QED BY <2>2, <4>1, <4>2
    <3> QED BY <3>1, <3>2
  <2>4. ~(Cardinality(Below(m)) < n)
    BY <1>4, <2>2
  <2> QED BY <1>2, <1>4, <2>3, <2>4
<1>7. Cardinality(P) =< n
  <2>1. CASE P = {}
    BY <2>1, FS_EmptySet, 0 =< n
  <2>2. CASE P # {}
    <3>1. P \in SUBSET (0 .. l) /\ P # {}
      BY <1>4, <2>2
    <3>2. PICK g \in P : \A m \in P : g >= m
      BY <3>1, GreatestNumber
    <3>3. P \ {g} \in SUBSET Below(g)
      BY <1>1, <1>3, <1>4, <3>2
    <3>4. Cardinality(P \ {g}) =< Cardinality(Below(g))
      BY <1>2, <1>3, <3>3, FS_Subset
    <3>5. Cardinality(P \ {g}) = Cardinality(P) - 1
      BY <1>2, <1>4, <3>2, FS_RemoveElement
    <3>6. Cardinality(Below(g)) < n /\ g \in S
      BY <1>4, <3>2
    <3>7. Cardinality(P) \in Nat /\ Cardinality(Below(g)) \in Nat
      BY <1>2, <1>3, <1>4
    <3> QED BY <3>4, <3>5, <3>6, <3>7
  <2> QED BY <2>1, <2>2
<1>8. Cardinality(P) \in Nat
  BY <1>2, <1>4
<1>9. \A k \in P : x > k
  BY <1>1, <1>4, <1>5
<1>10. Cardinality(P) = n
  BY <1>6, <1>7, <1>8
<1> QED BY <1>9, <1>10 DEF P

LEMMA PageHoldsOldest ==
  ASSUME Types, NEW s, NEW c, NEW m \in After(s, c)
  PROVE  \/ m \in Page(s, c)
         \/ Cardinality(Page(s, c)) = PageSize /\ \A k \in Page(s, c) : m > k
<1>1. Len(posted) \in Nat /\ Known \in SUBSET (0 .. Len(posted))
  BY DEF Types, Known
<1>2. After(s, c) \in SUBSET (0 .. Len(posted))
  BY <1>1 DEF After, In
<1>3. Page(s, c) = Oldest(After(s, c), PageSize) /\ PageSize \in Nat \ {0}
  BY IntakeAssumption DEF Page, Oldest
<1> QED BY <1>1, <1>2, <1>3, OldestAreAPage

-----------------------------------------------------------------------------
(* What most steps leave as it was *)

LEMMA Numbers ==
  /\ MaxMessages \in Nat /\ PageSize \in Nat \ {0}
  /\ Ids \in SUBSET Nat /\ Scopes \in SUBSET Nat /\ Ids \in SUBSET Scopes /\ 0 \in Scopes
  /\ 0 \notin Ids
BY IntakeAssumption DEF Ids, Scopes

LEMMA KnownIds ==
  ASSUME Types PROVE Known \in SUBSET Ids /\ Len(posted) \in Nat
BY Numbers DEF Types, Known, Ids

LEMMA PostedTypes ==
  ASSUME Types, NEW m \in Known
  PROVE  /\ posted[m] \in [scope : Scopes, human : BOOLEAN] /\ ScopeOf(m) \in Scopes
         /\ m \in Ids /\ m =< Len(posted) /\ m \in 1 .. Len(posted)
<1>1. posted \in Seq([scope : Scopes, human : BOOLEAN]) /\ m \in 1 .. Len(posted)
  BY DEF Types, Known
<1>2. posted[m] \in [scope : Scopes, human : BOOLEAN]
  BY <1>1, ElementOfSeq
<1> QED BY <1>1, <1>2, KnownIds DEF ScopeOf

LEMMA AppendedTypes ==
  ASSUME Types
  PROVE  Len(appended) \in Nat /\ \A i \in 1 .. Len(appended) : appended[i] \in Ids
BY DEF Types

LEMMA MissedShrinks ==
  ASSUME UNCHANGED <<setup, posted>>, history \subseteq history', told \subseteq told',
         excused \subseteq excused', unlisted \subseteq unlisted',
         \A m \in Known : jobs'[m] = 0 => jobs[m] = 0,
         \A m \in Known : live[m] \in {"thread", "enqueue"} =>
            live'[m] \in {"thread", "enqueue"} \/ m \in told' \/ m \in excused' \/ jobs'[m] # 0
  PROVE  Missed' \subseteq Missed
BY DEF Missed, Due, Known, Accepts, ScopeOf

(* The recovery is where it was. *)
walkers == <<setup, posted, cursor, stage, gate, appendOnly, fallback, complete, todo, after,
             scan>>

LEMMA ReachStays ==
  ASSUME IntakeInv, UNCHANGED walkers, Missed' \subseteq Missed
  PROVE  ScanSound' /\ \A m \in Missed' : InReach(m)'
<1>1. ScanSound'
  BY DEF IntakeInv, walkers, ScanSound, Known, ScopeOf
<1>2. ASSUME NEW m \in Missed' PROVE InReach(m)'
  <2>1. m \in Missed /\ InReach(m)
    BY <1>2 DEF IntakeInv
  <2> QED BY <2>1 DEF walkers, InReach, Bare, ScopeOf, Scanned
<1> QED BY <1>1, <1>2

LEMMA ScopesStay ==
  ASSUME IntakeInv, UNCHANGED <<setup, posted>>, threads \subseteq threads'
  PROVE  ScopesThere'
BY DEF IntakeInv, ScopesThere, Known, ScopeOf

LEMMA InitSound == Init => IntakeInv
<1> SUFFICES ASSUME Init PROVE IntakeInv
  OBVIOUS
<1> USE Numbers DEF Init
<1>1. Known = {} /\ Missed = {}
  BY DEF Known, Missed
<1>2. Types
  <2>1. /\ setup \in Setups /\ posted = <<>> /\ posted \in Seq([scope : Scopes, human : BOOLEAN])
        /\ Len(posted) = 0 /\ appended \in Seq(Ids)
    OBVIOUS
  <2>2. cursor \in [Scopes -> Nat] /\ \A s \in Scopes : cursor[s] = 0
    OBVIOUS
  <2>3. jobs \in [Ids -> {0, 1}] /\ live \in [Ids -> Lives]
    BY DEF Lives
  <2>4. scan \in [scope : Scopes, page : SUBSET Ids, full : BOOLEAN, step : ScanSteps,
                  cursor : Nat]
    BY DEF ScanSteps, NoScan
  <2>5. /\ threads \in SUBSET Ids /\ initialized \in SUBSET Scopes /\ stage \in Stages
        /\ appendOnly \in BOOLEAN /\ gate \in BOOLEAN /\ fallback \in SUBSET Nat
        /\ complete \in BOOLEAN /\ todo \in SUBSET Ids
    BY DEF Stages
  <2>6. Len(posted) =< MaxMessages /\ \A s \in Scopes : cursor[s] =< Len(posted)
    BY <2>1, <2>2
  <2> HIDE DEF Init
  <2> QED BY <2>1, <2>2, <2>3, <2>4, <2>5, <2>6 DEF Types
<1>3. ScopesThere
  BY <1>1 DEF ScopesThere
<1>4. StagesSound
  BY DEF StagesSound
<1>5. AppendsSound
  BY DEF AppendsSound
<1>6. ScanSound
  BY <1>1 DEF ScanSound, NoScan
<1> QED BY <1>1, <1>2, <1>3, <1>4, <1>5, <1>6 DEF IntakeInv

-----------------------------------------------------------------------------
(* Discord and the live handlers *)

LEMMA StartThreadSound ==
  ASSUME IntakeInv, NEW t \in Ids, StartThread(t) PROVE IntakeInv'
<1>1. Types'
  BY DEF IntakeInv, Types, StartThread, stored, walk, past
<1>2. ScopesThere'
  BY ScopesStay DEF StartThread
<1>3. StagesSound' /\ AppendsSound'
  BY DEF IntakeInv, StagesSound, AppendsSound, StartThread, stored, walk, Known, ScopeOf
<1>4. Missed' \subseteq Missed
  BY MissedShrinks DEF StartThread, stored, past
<1>5. ScanSound' /\ \A m \in Missed' : InReach(m)'
  BY <1>4, ReachStays DEF StartThread, walkers, stored, walk
<1> QED BY <1>1, <1>2, <1>3, <1>5 DEF IntakeInv

LEMMA ArchiveSound ==
  ASSUME IntakeInv, NEW t \in Ids, Archive(t) PROVE IntakeInv'
<1>1. Types'
  BY DEF IntakeInv, Types, Archive, stored, walk, past
<1>2. ScopesThere'
  BY ScopesStay DEF Archive
<1>3. StagesSound' /\ AppendsSound'
  BY DEF IntakeInv, StagesSound, AppendsSound, Archive, stored, walk, Known, ScopeOf
<1>4. Missed' \subseteq Missed
  BY MissedShrinks DEF Archive, stored, past
<1>5. ScanSound' /\ \A m \in Missed' : InReach(m)'
  BY <1>4, ReachStays DEF Archive, walkers, stored, walk
<1> QED BY <1>1, <1>2, <1>3, <1>5 DEF IntakeInv

LEMMA LiveThreadSound ==
  ASSUME IntakeInv, NEW m \in Ids, LiveThread(m) PROVE IntakeInv'
<1>1. Types'
  BY DEF IntakeInv, Types, Lives, LiveThread, stored, walk, past
<1>2. ScopesThere'
  BY ScopesStay DEF LiveThread
<1>3. StagesSound'
  BY DEF IntakeInv, Types, StagesSound, LiveThread, stored, walk, Known
<1>4. AppendsSound'
  BY DEF IntakeInv, Types, AppendsSound, LiveThread, stored, walk, Known, ScopeOf
<1>5. Missed' \subseteq Missed
  BY MissedShrinks DEF IntakeInv, Types, LiveThread, stored, past
<1>6. ScanSound' /\ \A k \in Missed' : InReach(k)'
  BY <1>5, ReachStays DEF LiveThread, walkers, stored, walk
<1> QED BY <1>1, <1>2, <1>3, <1>4, <1>6 DEF IntakeInv

LEMMA LiveEnqueueSound ==
  ASSUME IntakeInv, NEW m \in Ids, LiveEnqueue(m) PROVE IntakeInv'
<1>1. Types'
  BY DEF IntakeInv, Types, Lives, LiveEnqueue, Enqueued, discord, walk, past
<1>2. ScopesThere'
  BY ScopesStay DEF LiveEnqueue, discord
<1>3. StagesSound'
  BY DEF IntakeInv, Types, StagesSound, LiveEnqueue, Enqueued, discord, walk, Known
<1>4. AppendsSound'
  BY DEF IntakeInv, Types, StagesSound, AppendsSound, LiveEnqueue, Enqueued, discord, walk,
         Known, ScopeOf
<1>5. Missed' \subseteq Missed
  BY MissedShrinks, KnownIds DEF IntakeInv, Types, LiveEnqueue, Enqueued, discord, past
<1>6. ScanSound' /\ \A k \in Missed' : InReach(k)'
  BY <1>5, ReachStays DEF LiveEnqueue, walkers, discord, walk
<1> QED BY <1>1, <1>2, <1>3, <1>4, <1>6 DEF IntakeInv

LEMMA LiveFailsSound ==
  ASSUME IntakeInv, NEW m \in Ids, LiveFails(m) PROVE IntakeInv'
<1>1. Types'
  BY DEF IntakeInv, Types, Lives, LiveFails, discord, stored, walk
<1>2. ScopesThere'
  BY ScopesStay DEF LiveFails, discord
<1>3. StagesSound'
  BY DEF IntakeInv, Types, StagesSound, LiveFails, discord, stored, walk, Known
<1>4. AppendsSound'
  BY DEF IntakeInv, Types, AppendsSound, LiveFails, discord, stored, walk, Known, ScopeOf
<1>5. Missed' \subseteq Missed
  BY MissedShrinks DEF IntakeInv, Types, LiveFails, discord, stored
<1>6. ScanSound' /\ \A k \in Missed' : InReach(k)'
  BY <1>5, ReachStays DEF LiveFails, walkers, discord, stored, walk
<1> QED BY <1>1, <1>2, <1>3, <1>4, <1>6 DEF IntakeInv

LEMMA LiveCursorSound ==
  ASSUME IntakeInv, NEW m \in Ids, LiveCursor(m) PROVE IntakeInv'
<1> USE DEF LiveCursor, CursorMoves, Upsert
<1>1. m \in Known /\ ScopeOf(m) \in Scopes /\ m =< Len(posted) /\ Len(posted) \in Nat
  <2>1. m \in Known
    BY DEF IntakeInv, StagesSound
  <2> QED BY <2>1, PostedTypes, KnownIds DEF IntakeInv
<1>2. Types'
  <2>1. cursor' \in [Scopes -> Nat] /\ \A s \in Scopes : cursor'[s] =< Len(posted)
    BY <1>1, Numbers DEF IntakeInv, Types, ScopeOf
  <2> QED BY <1>1, <2>1 DEF IntakeInv, Types, Lives, discord, walk, past, ScopeOf
<1>3. ScopesThere'
  BY ScopesStay DEF discord
<1>4. StagesSound'
  BY <1>1, Numbers DEF IntakeInv, Types, StagesSound, discord, walk, Known, ScopeOf
<1>5. AppendsSound'
  <2>1. cursor[0] # 0 \/ 0 \in initialized \/ cursor' = cursor \/ setup.forum
    BY DEF IntakeInv, Types, StagesSound
  <2>2. cursor'[0] # 0 \/ 0 \in initialized' =>
          (cursor[0] # 0 \/ 0 \in initialized \/ setup.forum) /\ cursor[0] =< cursor'[0]
    BY <1>1, <2>1, Numbers DEF IntakeInv, Types, ScopeOf, StagesSound
  <2>3. ASSUME NEW i \in 1 .. Len(appended)
        PROVE  cursor'[0] # 0 \/ 0 \in initialized' => appended[i] =< cursor'[0]
    <3>1. /\ cursor[0] \in Nat /\ cursor'[0] \in Nat /\ appended[i] \in Nat
          /\ cursor[0] # 0 \/ 0 \in initialized => appended[i] =< cursor[0]
          /\ ~setup.forum
      <4>1. Types /\ Types' /\ 0 \in Scopes
        BY <1>2, Numbers DEF IntakeInv
      <4>2. cursor[0] \in Nat /\ cursor'[0] \in Nat
        BY <4>1 DEF Types
      <4>3. appended[i] \in Nat
        BY <4>1, AppendedTypes, Numbers
      <4> QED BY <4>2, <4>3 DEF IntakeInv, AppendsSound
    <3> QED BY <2>2, <3>1
  <2>4. /\ \A k \in Ids : live'[k] = live[k] \/ live'[k] = "idle"
        /\ UNCHANGED <<appended, jobs, setup, posted, scan>>
    BY DEF IntakeInv, Types, discord, walk
  <2>5. \A i \in 1 .. Len(appended) : appended[i] \in Ids
    BY AppendedTypes DEF IntakeInv
  <2> HIDE DEF LiveCursor
  <2> QED BY <2>3, <2>4, <2>5 DEF IntakeInv, AppendsSound, Known, ScopeOf
<1>6. Missed' \subseteq Missed
  BY MissedShrinks DEF IntakeInv, Types, discord, past
<1>7. CASE gate
  <2>1. UNCHANGED walkers
    BY <1>7 DEF walkers, discord, walk
  <2> QED BY <1>2, <1>3, <1>4, <1>5, <1>6, <2>1, ReachStays DEF IntakeInv
<1>8. CASE ~gate
  <2>1. stage = "serving" /\ ~appendOnly
    BY <1>8 DEF IntakeInv, Types, StagesSound
  <2>2. Missed = {}
    BY <1>8, <2>1 DEF IntakeInv, InReach
  <2>3. ScanSound'
    BY <1>6, <2>1, <2>2 DEF IntakeInv, ScanSound, discord, walk, Known, ScopeOf
  <2> QED BY <1>2, <1>3, <1>4, <1>5, <1>6, <2>2, <2>3 DEF IntakeInv
<1> QED BY <1>7, <1>8

LEMMA LiveAppendSound ==
  ASSUME IntakeInv, NEW m \in Ids, LiveAppend(m) PROVE IntakeInv'
<1> USE DEF LiveAppend
<1>1. m \in Known /\ appended \in Seq(Ids) /\ Len(appended) \in Nat
  BY DEF IntakeInv, Types, StagesSound
<1>2. /\ appended' \in Seq(Ids) /\ Len(appended') = Len(appended) + 1
      /\ \A i \in 1 .. Len(appended) : appended'[i] = appended[i]
      /\ appended'[Len(appended) + 1] = m
  BY <1>1
<1>3. Types'
  BY <1>2 DEF IntakeInv, Types, Lives, discord, walk, past
<1>4. ScopesThere'
  BY ScopesStay DEF discord
<1>5. StagesSound'
  BY DEF IntakeInv, Types, StagesSound, discord, walk, Known
<1>6. AppendsSound'
  <2>1. /\ appendOnly /\ stage = "serving" /\ scan.step = "off" /\ setup.mode = "shared"
        /\ ~setup.forum /\ cursor[0] = 0 /\ 0 \notin initialized
    BY DEF IntakeInv, Types, StagesSound, ScanSound
  <2>2. ScopeOf(m) = 0 /\ jobs[m] = 0 /\ \A i \in 1 .. Len(appended) : appended[i] < m
    BY DEF IntakeInv, AppendsSound
  <2>3. ASSUME NEW i \in 1 .. Len(appended')
        PROVE  /\ appended'[i] \in Known /\ ScopeOf(appended'[i]) = 0
               /\ jobs[appended'[i]] = 0 /\ live'[appended'[i]] = "idle"
    <3>1. CASE i \in 1 .. Len(appended)
      BY <1>2, <3>1 DEF IntakeInv, Types, AppendsSound
    <3>2. CASE i = Len(appended) + 1
      BY <1>1, <1>2, <2>2, <3>2 DEF IntakeInv, Types
    <3> QED BY <1>1, <1>2, <3>1, <3>2
  <2>4. ASSUME NEW i \in 1 .. Len(appended'), NEW k \in 1 .. Len(appended'), i < k
        PROVE  appended'[i] < appended'[k]
    <3>1. i \in 1 .. Len(appended) /\ (k \in 1 .. Len(appended) \/ k = Len(appended) + 1)
      BY <1>1, <1>2, <2>4
    <3> QED BY <1>2, <2>2, <2>4, <3>1 DEF IntakeInv, AppendsSound
  <2>5. ASSUME NEW k \in Ids, live'[k] = "append"
        PROVE  /\ ScopeOf(k) = 0 /\ jobs[k] = 0
               /\ \A i \in 1 .. Len(appended') : appended'[i] < k
    <3>1. k # m /\ live[k] = "append"
      BY <2>5 DEF IntakeInv, Types
    <3>2. m < k
      BY <3>1, Numbers DEF NextAppend
    <3>3. ASSUME NEW i \in 1 .. Len(appended') PROVE appended'[i] < k
      <4>1. i \in 1 .. Len(appended) \/ i = Len(appended) + 1
        BY <1>1, <1>2
      <4> QED BY <1>2, <3>1, <3>2, <4>1 DEF IntakeInv, AppendsSound
    <3> QED BY <3>1, <3>3 DEF IntakeInv, AppendsSound
  <2>6. Known' = Known /\ posted' = posted /\ UNCHANGED <<jobs, cursor, initialized, setup, scan>>
    BY DEF discord, walk, Known
  <2> QED BY <2>1, <2>3, <2>4, <2>5, <2>6 DEF AppendsSound, ScopeOf
<1>7. Missed' \subseteq Missed
  BY MissedShrinks DEF IntakeInv, Types, discord, past
<1>8. ScanSound' /\ \A k \in Missed' : InReach(k)'
  BY <1>7, ReachStays DEF walkers, discord, walk
<1> QED BY <1>3, <1>4, <1>5, <1>6, <1>8 DEF IntakeInv

LEMMA ReceivedFacts ==
  ASSUME IntakeInv, NEW m, NEW s \in Scopes, NEW human \in BOOLEAN
  PROVE  /\ Received(m, s, human) \in Lives \ {"cursor"}
         /\ ~Up => Received(m, s, human) = "idle"
         /\ Received(m, s, human) = "append" => appendOnly /\ s = 0
         /\ Received(m, s, human) \in {"thread", "enqueue"} => ~appendOnly
         /\ Up /\ human /\ ~appendOnly /\ Accepts(s) =>
              Received(m, s, human) \in {"thread", "enqueue"}
BY DEF IntakeInv, Types, Received, FirstStep, Lives

LEMMA PostSound ==
  ASSUME IntakeInv, NEW s \in Scopes, NEW human \in BOOLEAN, Post(s, human) PROVE IntakeInv'
<1> DEFINE row == [scope |-> s, human |-> human]
<1>0. PICK n \in Nat : n = Len(posted) + 1
  BY KnownIds DEF IntakeInv
<1>1. /\ n \in Ids /\ n \in Nat /\ n # 0 /\ Len(posted) \in Nat /\ Known \in SUBSET Ids
      /\ posted' = Append(posted, row) /\ row \in [scope : Scopes, human : BOOLEAN]
      /\ live' = [live EXCEPT ![n] = Received(n, s, human)]
      /\ (s = 0 /\ ~setup.forum) \/ s \in threads \/ (s = n /\ threads' = threads \cup {n})
      /\ threads \subseteq threads' /\ threads' \in SUBSET Ids
  BY <1>0, KnownIds, Numbers DEF IntakeInv, Types, Post
<1>2. UNCHANGED <<setup, cursor, initialized, jobs, appended, stage, appendOnly, gate, fallback,
                  complete, todo, after, scan, told, history, excused, unlisted>>
  BY DEF Post, stored, walk, past
<1>3. /\ posted' \in Seq([scope : Scopes, human : BOOLEAN]) /\ Len(posted') = n
      /\ posted'[n] = row /\ \A m \in Known : posted'[m] = posted[m]
  <2>1. posted \in Seq([scope : Scopes, human : BOOLEAN])
    BY DEF IntakeInv, Types
  <2> QED BY <1>0, <1>1, <2>1, AppendProperties DEF Known
<1>4. /\ Known' = Known \cup {n} /\ n \notin Known /\ ScopeOf(n)' = s /\ posted'[n].human = human
      /\ \A m \in Known : m < n /\ m # n /\ m \in Known' /\ ScopeOf(m)' = ScopeOf(m)
  BY <1>0, <1>1, <1>3 DEF Known, ScopeOf
<1>5. /\ live' \in [Ids -> Lives] /\ live'[n] = Received(n, s, human)
      /\ \A m \in Ids : m # n => live'[m] = live[m]
      /\ live[n] = "idle" /\ jobs[n] = 0
  BY <1>1, <1>4, ReceivedFacts DEF IntakeInv, Types, StagesSound
<1> HIDE DEF row
<1>6. Types'
  <2>1. n =< MaxMessages
    BY <1>1, Numbers DEF Ids
  <2>2. \A c \in Scopes : cursor'[c] =< Len(posted')
    BY <1>0, <1>1, <1>2, <1>3 DEF IntakeInv, Types
  <2> QED BY <1>1, <1>2, <1>3, <1>5, <2>1, <2>2 DEF IntakeInv, Types
<1>7. ScopesThere'
  BY <1>1, <1>2, <1>4 DEF IntakeInv, ScopesThere
<1>8. StagesSound'
  BY <1>1, <1>2, <1>4, <1>5, ReceivedFacts DEF IntakeInv, StagesSound, Up
<1>9. AppendsSound'
  <2>1. ASSUME NEW i \in 1 .. Len(appended), NEW m \in Ids, m = appended[i]
        PROVE  m \in Known' /\ ScopeOf(m)' = ScopeOf(m) /\ live'[m] = live[m] /\ m < n
    BY <1>4, <1>5, <2>1 DEF IntakeInv, AppendsSound
  <2>2. \A i \in 1 .. Len(appended) : appended[i] \in Ids
    BY AppendedTypes DEF IntakeInv
  <2>3. ASSUME NEW m \in Ids, live'[m] = "append"
        PROVE  /\ ScopeOf(m)' = 0 /\ jobs[m] = 0
               /\ \A i \in 1 .. Len(appended) : appended[i] < m
    <3>1. CASE m = n
      BY <1>4, <1>5, <2>1, <2>2, <2>3, <3>1, ReceivedFacts
    <3>2. CASE m # n
      <4>1. m \in Known /\ live[m] = "append"
        BY <1>4, <1>5, <2>3, <3>2 DEF IntakeInv, StagesSound
      <4> QED BY <1>4, <4>1 DEF IntakeInv, AppendsSound
    <3> QED BY <3>1, <3>2
  <2> QED BY <1>2, <2>1, <2>2, <2>3 DEF IntakeInv, AppendsSound
<1>10. \A m \in Known : m \in Missed' => m \in Missed
  BY <1>1, <1>2, <1>3, <1>4, <1>5 DEF Missed, Due, Accepts
<1>11. ScanSound'
  <2>1. scan.step = "cursor" => Min(scan.page) \in Known
    <3>1. scan.page \in SUBSET Nat
      BY Numbers DEF IntakeInv, Types
    <3> QED BY <3>1, MinIsLeast DEF IntakeInv, ScanSound
  <2> QED BY <1>2, <1>4, <1>10, <2>1 DEF IntakeInv, ScanSound
<1>12. ASSUME NEW m \in Missed' PROVE InReach(m)'
  <2>1. CASE m \in Known
    <3>1. InReach(m)
      BY <1>10, <2>1 DEF IntakeInv
    <3> QED BY <1>2, <1>4, <2>1, <3>1 DEF InReach, Bare, Scanned
  <2>2. CASE m = n
    <3>1. /\ human /\ Accepts(s) /\ live'[n] \notin {"thread", "enqueue"}
      BY <1>2, <1>4, <2>2 DEF Missed, Due, Accepts
    <3>2. stage = "down" \/ appendOnly
      BY <1>5, <3>1, ReceivedFacts DEF Up
    <3>3. \A c \in Scopes : n > cursor[c]
      BY <1>0, <1>1 DEF IntakeInv, Types
    <3>4. stage = "serving" => s = 0 /\ appendOnly
      BY <3>1, <3>2 DEF IntakeInv, StagesSound, Accepts
    <3>5. stage \in {"down", "serving"}
      BY <3>2 DEF IntakeInv, Types, StagesSound
    <3> QED BY <1>2, <1>4, <2>2, <3>3, <3>4, <3>5, Numbers DEF InReach, Bare
  <2>3. m \in Known'
    BY DEF Missed
  <2> QED BY <1>4, <2>1, <2>2, <2>3
<1> QED BY <1>6, <1>7, <1>8, <1>9, <1>11, <1>12 DEF IntakeInv

-----------------------------------------------------------------------------
(* Starts and ends of the process *)

LEMMA BareAreCursorless ==
  ASSUME NEW m \in Known PROVE Bare(m) <=> m \in Cursorless
BY DEF Bare, Cursorless, ScopeOf

LEMMA CrashSound ==
  ASSUME IntakeInv, Crash PROVE IntakeInv'
<1>1. Types'
  BY Numbers DEF IntakeInv, Types, Crash, WalkOver, NoScan, discord, stored, Stages, Lives,
                 ScanSteps
<1>2. ScopesThere'
  BY ScopesStay DEF Crash, discord
<1>3. StagesSound'
  BY DEF IntakeInv, StagesSound, Crash, discord, stored, Known
<1>4. AppendsSound'
  BY AppendedTypes DEF IntakeInv, AppendsSound, Crash, WalkOver, NoScan, discord, stored, Known,
         ScopeOf
<1>5. ScanSound'
  BY DEF ScanSound, Crash, WalkOver, NoScan
<1>6. Missed' \subseteq Missed
  BY MissedShrinks, KnownIds DEF IntakeInv, Types, Crash, discord, stored, InFlight
<1>7. ASSUME NEW m \in Missed' PROVE InReach(m)'
  <2>1. m \in Missed /\ InReach(m) /\ m \in Known
    BY <1>6 DEF IntakeInv, Missed
  <2>2. stage = "serving" \/ m \notin Cursorless
    BY <2>1 DEF Crash, Missed, Due
  <2>3. ~Bare(m)
    BY <2>1, <2>2, BareAreCursorless DEF InReach
  <2> QED BY <2>1, <2>3 DEF Crash, discord, stored, InReach, Bare, ScopeOf
<1> QED BY <1>1, <1>2, <1>3, <1>4, <1>5, <1>7 DEF IntakeInv

LEMMA BackfillFailsSound ==
  ASSUME IntakeInv, BackfillFails PROVE IntakeInv'
<1> USE DEF Finish
<1>1. Types'
  BY Numbers DEF IntakeInv, Types, BackfillFails, WalkOver, NoScan, discord, stored, Stages, Lives,
         ScanSteps
<1>2. ScopesThere'
  BY ScopesStay DEF BackfillFails, discord
<1>3. StagesSound'
  BY DEF IntakeInv, StagesSound, BackfillFails, discord, stored, Known
<1>4. AppendsSound'
  BY AppendedTypes DEF IntakeInv, AppendsSound, BackfillFails, WalkOver, NoScan, discord, stored,
         Known, ScopeOf
<1>5. ScanSound'
  BY DEF ScanSound, BackfillFails, WalkOver, NoScan
<1>6. Missed' \subseteq Missed
  BY MissedShrinks DEF BackfillFails, discord, stored
<1>7. ASSUME NEW m \in Missed' PROVE InReach(m)'
  <2>1. m \in Missed /\ InReach(m) /\ m \in Known
    BY <1>6 DEF IntakeInv, Missed
  <2>2. m \notin Cursorless
    BY <2>1 DEF BackfillFails, Missed, Due
  <2>3. ~Bare(m)
    BY <2>1, <2>2, BareAreCursorless
  <2> QED BY <2>1, <2>3 DEF BackfillFails, discord, stored, InReach, Bare, ScopeOf
<1> QED BY <1>1, <1>2, <1>3, <1>4, <1>5, <1>7 DEF IntakeInv

LEMMA StartSound ==
  ASSUME IntakeInv, NEW only \in BOOLEAN, Start(only) PROVE IntakeInv'
<1> USE DEF Start, ClearedCursor
<1>1. /\ cursor' \in [Scopes -> Nat] /\ \A s \in Scopes : cursor'[s] =< cursor[s]
      /\ \A s \in Scopes : cursor'[s] # cursor[s] => s = 0
      /\ initialized' \subseteq initialized
  BY Numbers DEF IntakeInv, Types
<1>2. Types'
  <2>1. \A s \in Scopes : cursor'[s] =< Len(posted)
    BY <1>1, KnownIds DEF IntakeInv, Types
  <2> QED BY <1>1, <2>1 DEF IntakeInv, Types, walk, discord, past, Stages
<1>3. ScopesThere'
  BY ScopesStay DEF discord
<1>4. StagesSound'
  BY Numbers DEF IntakeInv, Types, StagesSound, discord, walk, Known
<1>5. AppendsSound'
  <2>1. UNCHANGED <<setup, posted, appended, jobs, live, scan>>
    BY DEF discord, walk
  <2>2. cursor'[0] # 0 \/ 0 \in initialized' => cursor'[0] = cursor[0] /\ initialized' = initialized
    BY Numbers DEF IntakeInv, Types
  <2> HIDE DEF Start
  <2> QED BY <2>1, <2>2 DEF IntakeInv, AppendsSound, Known, ScopeOf
<1>6. Missed' \subseteq Missed
  BY MissedShrinks DEF discord, past
<1>7. ScanSound'
  BY <1>6 DEF IntakeInv, ScanSound, discord, walk, Known, ScopeOf
<1>8. ASSUME NEW m \in Missed' PROVE InReach(m)'
  <2>1. m \in Missed /\ InReach(m) /\ m \in Known
    BY <1>6 DEF IntakeInv, Missed
  <2>2. ScopeOf(m)' = ScopeOf(m) /\ ScopeOf(m) \in Scopes /\ m \in Nat
    BY <2>1, PostedTypes, Numbers DEF IntakeInv, discord, ScopeOf
  <2>3. m > cursor[ScopeOf(m)] /\ cursor[ScopeOf(m)] \in Nat
    BY <2>1, <2>2 DEF InReach, IntakeInv, Types
  <2>4. m > cursor'[ScopeOf(m)] /\ (ScopeOf(m) # 0 => cursor'[ScopeOf(m)] = cursor[ScopeOf(m)])
    BY <1>1, <2>2, <2>3
  <2>5. Bare(m)' => Bare(m)
    BY <2>2, <2>4 DEF Bare
  <2>6. only => ScopeOf(m) = 0
    BY <2>1 DEF Missed, Due, Accepts
  <2>7. ~only => cursor' = cursor
    OBVIOUS
  <2> QED BY <2>1, <2>2, <2>4, <2>5, <2>6, <2>7 DEF InReach, Bare
<1> QED BY <1>2, <1>3, <1>4, <1>5, <1>7, <1>8 DEF IntakeInv

LEMMA OpenForumSound ==
  ASSUME IntakeInv, OpenForum PROVE IntakeInv'
<1> USE DEF OpenForum
<1>1. Types'
  BY DEF IntakeInv, Types, discord, stored, past, Stages
<1>2. ScopesThere'
  BY ScopesStay DEF discord
<1>3. StagesSound' /\ AppendsSound'
  BY DEF IntakeInv, StagesSound, AppendsSound, discord, stored, past, Known, ScopeOf
<1>4. Missed' \subseteq Missed
  BY MissedShrinks DEF discord, stored, past
<1>5. ScanSound'
  BY <1>4 DEF IntakeInv, ScanSound, discord, Known, ScopeOf
<1>6. ASSUME NEW m \in Missed' PROVE InReach(m)'
  <2>1. m \in Missed /\ InReach(m)
    BY <1>4 DEF IntakeInv
  <2>2. ScopeOf(m) # 0 /\ ~Bare(m)
    BY <2>1 DEF Missed, Due, Accepts, Bare
  <2> QED BY <2>1, <2>2 DEF discord, stored, InReach, Bare, ScopeOf
<1> QED BY <1>1, <1>2, <1>3, <1>5, <1>6 DEF IntakeInv

(* The recovery is over and leaves nothing. *)
LEMMA FinishSound ==
  ASSUME IntakeInv, NEW ok \in BOOLEAN, Finish(ok), Up, stage # "serving",
         UNCHANGED <<setup, discord, stored, appendOnly, live, past, troubles>>,
         Missed = {} \/ (~ok /\ \A m \in Missed : ~Bare(m)),
         setup.forum \/ stage \in {"listing", "threads"}
  PROVE  IntakeInv'
<1> USE DEF Finish
<1>1. Types'
  BY Numbers DEF IntakeInv, Types, WalkOver, NoScan, discord, stored, past, Stages, Lives, ScanSteps
<1>2. ScopesThere'
  BY ScopesStay DEF discord
<1>3. StagesSound'
  BY DEF IntakeInv, StagesSound, discord, stored, Known, Up
<1>4. AppendsSound'
  BY AppendedTypes DEF IntakeInv, AppendsSound, WalkOver, NoScan, discord, stored, Known, ScopeOf
<1>5. ScanSound'
  BY DEF ScanSound, WalkOver, NoScan
<1>6. Missed' \subseteq Missed
  BY MissedShrinks DEF discord, stored, past
<1>7. ASSUME NEW m \in Missed' PROVE InReach(m)'
  <2>1. m \in Missed /\ InReach(m) /\ ~ok /\ ~Bare(m)
    BY <1>6 DEF IntakeInv
  <2> QED BY <2>1 DEF discord, stored, InReach, Bare, ScopeOf
<1> QED BY <1>1, <1>2, <1>3, <1>4, <1>5, <1>7 DEF IntakeInv

LEMMA OpenSharedForumSound ==
  ASSUME IntakeInv, OpenSharedForum PROVE IntakeInv'
<1>1. Missed = {}
  BY DEF OpenSharedForum, Missed, Due, Accepts
<1> QED BY <1>1, FinishSound DEF OpenSharedForum, Up

LEMMA SkipThreadsSound ==
  ASSUME IntakeInv, SkipThreads PROVE IntakeInv'
<1>1. ASSUME NEW m \in Missed PROVE FALSE
  BY DEF IntakeInv, InReach, SkipThreads, Missed, Due, Accepts
<1> QED BY <1>1, FinishSound DEF SkipThreads, Up

LEMMA FinishThreadsSound ==
  ASSUME IntakeInv, FinishThreads PROVE IntakeInv'
<1>1. Missed = {} \/ (~complete /\ \A m \in Missed : ~Bare(m))
  <2>1. \A m \in Missed : ~complete /\ ~Bare(m)
    BY DEF IntakeInv, InReach, FinishThreads
  <2> QED BY <2>1
<1> QED BY <1>1, FinishSound DEF FinishThreads, IntakeInv, Types, Up

(* A scan of s at its start *)
LEMMA ScanFields ==
  ASSUME NEW s \in Scopes, NEW c \in Nat
  PROVE  /\ Scan(s, c) \in [scope : Scopes, page : SUBSET Ids, full : BOOLEAN, step : ScanSteps,
                            cursor : Nat]
         /\ Scan(s, c).scope = s /\ Scan(s, c).page = {} /\ Scan(s, c).step = "fetch"
         /\ Scan(s, c).cursor = c
<1>1. Scan(s, c).scope = s /\ Scan(s, c).page = {} /\ Scan(s, c).step = "fetch"
      /\ Scan(s, c).cursor = c
  BY DEF Scan, NoScan
<1>2. NoScan \in [scope : Scopes, page : SUBSET Ids, full : BOOLEAN, step : ScanSteps,
                  cursor : Nat]
  BY Numbers DEF NoScan, ScanSteps
<1>3. "fetch" \in ScanSteps
  BY DEF ScanSteps
<1>4. Scan(s, c) \in [scope : Scopes, page : SUBSET Ids, full : BOOLEAN, step : ScanSteps,
                      cursor : Nat]
  BY <1>2, <1>3 DEF Scan
<1> QED BY <1>1, <1>4

LEMMA OpenTextSound ==
  ASSUME IntakeInv, OpenText PROVE IntakeInv'
<1> USE DEF OpenText
<1> DEFINE seen == cursor[0] # 0 \/ 0 \in initialized
           tip == Max(In(0))
<1>1. /\ stage = "opening" /\ ~setup.forum /\ scan.step = "off" /\ gate /\ ~appendOnly
      /\ UNCHANGED <<setup, discord, jobs, appended, appendOnly, gate, live, complete, forumWas,
                     todo, after, told, excused, unlisted>>
  BY DEF IntakeInv, StagesSound, ScanSound
<1>2. Types /\ Len(posted) \in Nat /\ cursor[0] \in Nat /\ cursor[0] =< Len(posted)
  BY KnownIds, Numbers DEF IntakeInv, Types
<1>3. ASSUME In(0) # {}
      PROVE  tip \in In(0) /\ tip \in Nat /\ tip =< Len(posted) /\ \A m \in In(0) : m =< tip
  <2>1. In(0) \in SUBSET (0 .. Len(posted)) /\ In(0) \in SUBSET (1 .. Len(posted))
    BY <1>2 DEF In, Known
  <2> HIDE DEF OpenText
  <2>2. tip \in In(0) /\ \A m \in In(0) : tip >= m
    BY <1>2, <1>3, <2>1, MaxIsGreatest
  <2>3. \A m \in In(0) : m \in Nat
    BY <2>1
  <2> QED BY <1>2, <2>1, <2>2, <2>3
<1>4. \/ /\ seen /\ fallback' = {cursor[0]} /\ UNCHANGED <<cursor, initialized, history>>
      \/ /\ ~seen /\ In(0) # {} /\ fallback' = {tip} /\ history' = Known
         /\ cursor' = [cursor EXCEPT ![0] = tip] /\ initialized' = initialized \cup {0}
      \/ /\ ~seen /\ In(0) = {} /\ fallback' = {} /\ history' = Known
         /\ cursor' = cursor /\ initialized' = initialized \cup {0}
  <2>1. In(0) # {} /\ cursor[0] = 0 => tip > cursor[0]
    <3>1. ASSUME In(0) # {} PROVE tip \in Known /\ tip # 0 /\ tip \in Nat
      BY <1>2, <1>3, <3>1, KnownIds, Numbers DEF In
    <3> QED BY <1>2, <3>1
  <2>2. cursor \in [Scopes -> Nat] /\ 0 \in Scopes
    BY <1>2, Numbers DEF Types
  <2> QED BY <2>1, <2>2 DEF Upsert, MarkInitialized
<1>5. \/ /\ ReplaysRoot /\ stage' = "root"
         /\ \E c \in fallback' : scan' = Scan(0, c)
      \/ /\ ~ReplaysRoot \/ fallback' = {}
         /\ stage' = "listing" /\ scan' = NoScan
  OBVIOUS
<1> HIDE DEF OpenText, tip
<1>6. \A m \in fallback' : m \in Nat /\ m = cursor'[0]
  BY <1>2, <1>3, <1>4, Numbers DEF Types
<1>7. /\ cursor' \in [Scopes -> Nat] /\ \A s \in Scopes : cursor'[s] =< Len(posted)
      /\ cursor'[0] # 0 \/ 0 \in initialized'
      /\ seen \/ \A m \in In(0) : m =< cursor'[0]
      /\ initialized' \in SUBSET Scopes
  BY <1>2, <1>3, <1>4, Numbers DEF Types
<1>8. /\ scan' \in [scope : Scopes, page : SUBSET Ids, full : BOOLEAN, step : ScanSteps,
                    cursor : Nat]
      /\ scan'.page = {} /\ scan'.step \in {"off", "fetch"}
      /\ scan'.step = "off" <=> stage' = "listing"
      /\ stage' \in {"root", "listing"}
      /\ stage' = "root" => /\ scan'.step = "fetch" /\ scan'.scope = 0
                            /\ scan'.cursor \in fallback' /\ scan'.cursor = cursor'[0]
  <2>1. NoScan \in [scope : Scopes, page : SUBSET Ids, full : BOOLEAN, step : ScanSteps,
                    cursor : Nat] /\ NoScan.page = {} /\ NoScan.step = "off"
    BY Numbers DEF NoScan, ScanSteps
  <2>2. CASE stage' = "root"
    <3>1. PICK c \in fallback' : scan' = Scan(0, c)
      BY <1>5, <2>2
    <3>2. c \in Nat /\ c = cursor'[0] /\ 0 \in Scopes
      BY <1>6, <3>1, Numbers
    <3> QED BY <2>2, <3>1, <3>2, ScanFields
  <2>3. CASE stage' = "listing"
    BY <1>5, <2>1, <2>3
  <2> QED BY <1>5, <2>2, <2>3
<1>9. Types'
  BY <1>1, <1>2, <1>6, <1>7, <1>8 DEF Types, discord, Stages
<1>10. ScopesThere'
  BY <1>1, ScopesStay DEF discord
<1>11. StagesSound'
  BY <1>1, <1>7, <1>8 DEF IntakeInv, StagesSound, Known, discord
<1>12. AppendsSound'
  <2>1. \A i \in 1 .. Len(appended) : appended[i] =< cursor'[0] /\ appended[i] \in Known
    <3>1. \A i \in 1 .. Len(appended) : appended[i] \in Known /\ ScopeOf(appended[i]) = 0
      BY DEF IntakeInv, AppendsSound
    <3>2. \A i \in 1 .. Len(appended) : appended[i] \in In(0)
      BY <3>1 DEF In, ScopeOf
    <3> QED BY <1>4, <1>7, <3>1, <3>2 DEF IntakeInv, AppendsSound
  <2>2. scan'.step # "off" => scan'.cursor = cursor'[0]
    BY <1>8
  <2> QED BY <1>1, <2>1, <2>2 DEF IntakeInv, AppendsSound, discord, Known, ScopeOf
<1>13. Missed' \subseteq Missed
  BY <1>1, <1>4, MissedShrinks, KnownIds DEF discord, Missed, Due, Known, Accepts, ScopeOf
<1>14. ScanSound'
  BY <1>8 DEF ScanSound
<1>15. ASSUME NEW m \in Missed' PROVE InReach(m)'
  <2>1. m \in Missed /\ InReach(m) /\ m \in Known /\ m \notin history'
    BY <1>13 DEF IntakeInv, Missed, Due
  <2>2. Known' = Known /\ ScopeOf(m)' = ScopeOf(m) /\ setup' = setup
    BY <1>1 DEF discord, Known, ScopeOf
  <2>3. seen /\ fallback' = {cursor[0]} /\ cursor' = cursor
    BY <1>4, <2>1
  <2>4. stage' = "listing" => ScopeOf(m) # 0
    BY <1>5, <1>8, <2>1, <2>3 DEF Missed, Due, Accepts, ReplaysRoot
  <2> QED BY <1>1, <1>8, <2>1, <2>2, <2>3, <2>4 DEF InReach, Bare, Scanned
<1> QED BY <1>9, <1>10, <1>11, <1>12, <1>14, <1>15 DEF IntakeInv

-----------------------------------------------------------------------------
(* The threads of a recovery *)

LEMMA ListThreadsSound ==
  ASSUME IntakeInv, NEW ok \in BOOLEAN, ListThreads(ok) PROVE IntakeInv'
<1> USE DEF ListThreads
<1>1. /\ scan.step = "off" /\ setup.mode # "shared" /\ gate /\ ~appendOnly
      /\ setup.forum \/ cursor[0] # 0 \/ 0 \in initialized
  BY DEF IntakeInv, StagesSound, ScanSound
<1>2. Types'
  BY Numbers DEF IntakeInv, Types, discord, stored, Stages, ListedThreads
<1>3. ScopesThere'
  BY ScopesStay DEF discord
<1>4. StagesSound' /\ AppendsSound'
  BY <1>1 DEF IntakeInv, StagesSound, AppendsSound, discord, stored, Known, ScopeOf
<1>5. Missed' \subseteq Missed
  BY MissedShrinks DEF discord, stored
<1>6. ScanSound'
  BY <1>1, <1>5 DEF IntakeInv, ScanSound, discord, Known, ScopeOf
<1>7. ASSUME NEW m \in Missed' PROVE InReach(m)'
  <2>1. m \in Missed /\ InReach(m) /\ m \in Known /\ ScopeOf(m) # 0
    BY <1>5 DEF IntakeInv, Missed, InReach
  <2>2. m \notin excused' /\ m \notin unlisted'
    BY DEF Missed, Due
  <2>3. ScopeOf(m) \in ListedThreads
    BY <2>1, <2>2 DEF IntakeInv, ScopesThere, ListedThreads, ScopeOf
  <2>4. ok \/ ~Bare(m)
    BY <2>1, <2>2, BareAreCursorless
  <2>5. DOMAIN after' = {}
    OBVIOUS
  <2> QED BY <1>1, <2>1, <2>3, <2>4, <2>5 DEF discord, stored, InReach, Bare, ScopeOf
<1> QED BY <1>2, <1>3, <1>4, <1>6, <1>7 DEF IntakeInv

LEMMA SeedThreadSound ==
  ASSUME IntakeInv, NEW t \in Ids, SeedThread(t) PROVE IntakeInv'
<1> DEFINE seen == cursor[t] # 0 \/ t \in initialized
           tip == Max(In(t))
<1>1. /\ stage = "seeding" /\ setup.forum /\ scan.step = "off" /\ t \in todo
      /\ t # 0 /\ t \in Scopes /\ t \in Nat
      /\ UNCHANGED <<setup, discord, jobs, appended, stage, appendOnly, gate, live, fallback,
                     complete, forumWas, todo, scan, told, excused, unlisted>>
  BY Numbers DEF IntakeInv, StagesSound, ScanSound, SeedThread, Unseeded
<1>2. Types /\ Len(posted) \in Nat /\ cursor[t] \in Nat /\ cursor[t] =< Len(posted)
  BY <1>1, KnownIds DEF IntakeInv, Types
<1>3. ASSUME In(t) # {}
      PROVE  tip \in Nat /\ tip # 0 /\ tip =< Len(posted)
  <2>1. In(t) \in SUBSET (0 .. Len(posted)) /\ In(t) \in SUBSET (1 .. Len(posted))
    BY <1>2 DEF In, Known
  <2>2. tip \in In(t)
    BY <1>2, <1>3, <2>1, MaxIsGreatest
  <2> QED BY <1>2, <2>1, <2>2
<1>4. \/ /\ seen /\ after' = AfterOf({cursor[t]}, t)
         /\ UNCHANGED <<cursor, initialized, history>>
      \/ /\ ~seen /\ In(t) # {} /\ after' = AfterOf({tip}, t)
         /\ cursor' = [cursor EXCEPT ![t] = tip] /\ initialized' = initialized \cup {t}
         /\ history' = history \cup In(t)
      \/ /\ ~seen /\ In(t) = {} /\ after' = AfterOf({}, t) /\ history' = history
         /\ cursor' = cursor /\ initialized' = initialized \cup {t}
  <2>1. In(t) # {} /\ cursor[t] = 0 => tip > cursor[t]
    BY <1>2, <1>3
  <2>2. cursor \in [Scopes -> Nat]
    BY <1>2 DEF Types
  <2> QED BY <1>1, <2>1, <2>2 DEF SeedThread, Upsert, MarkInitialized
<1> HIDE DEF tip
<1>5. /\ cursor' \in [Scopes -> Nat] /\ \A s \in Scopes : cursor'[s] =< Len(posted)
      /\ \A s \in Scopes : s # t => cursor'[s] = cursor[s]
      /\ initialized' \in SUBSET Scopes /\ history \subseteq history'
  BY <1>1, <1>2, <1>3, <1>4 DEF Types
<1>6. Types'
  BY <1>1, <1>2, <1>5 DEF Types, discord
<1>7. ScopesThere'
  BY <1>1, ScopesStay DEF discord
<1>8. StagesSound'
  BY <1>1 DEF IntakeInv, StagesSound, discord, Known
<1>9. AppendsSound'
  <2>1. Len(appended) \in Nat /\ \A i \in 1 .. Len(appended) : FALSE
    BY <1>1, AppendedTypes DEF IntakeInv, AppendsSound
  <2> QED BY <1>1, <2>1 DEF IntakeInv, AppendsSound, discord, ScopeOf
<1>10. Missed' \subseteq Missed
  BY <1>1, <1>5, MissedShrinks DEF discord
<1>11. ScanSound'
  BY <1>1, <1>10 DEF IntakeInv, ScanSound, discord, Known, ScopeOf
<1>12. ASSUME NEW m \in Missed' PROVE InReach(m)'
  <2>1. m \in Missed /\ InReach(m) /\ m \in Known /\ ScopeOf(m)' = ScopeOf(m)
    BY <1>1, <1>10 DEF IntakeInv, Missed, discord, ScopeOf
  <2>2. m \notin history' /\ (ScopeOf(m) = t => m \in In(t))
    BY <2>1 DEF Missed, Due, In, ScopeOf
  <2>3. ScopeOf(m) = t => after' = AfterOf({cursor[t]}, t) /\ cursor' = cursor
    BY <1>4, <2>2
  <2>4. m > cursor'[ScopeOf(m)]
    <3>1. ScopeOf(m) \in Scopes
      BY <1>2, <2>1, PostedTypes
    <3> QED BY <1>5, <2>1, <2>3, <3>1 DEF InReach
  <2>5. ScopeOf(m) \in DOMAIN after' =>
          after'[ScopeOf(m)] # {} /\ \A c \in after'[ScopeOf(m)] : m > c
    <3>1. CASE ScopeOf(m) = t
      BY <2>1, <2>3, <3>1 DEF InReach, AfterOf
    <3>2. CASE ScopeOf(m) # t
      <4>1. \A C : ScopeOf(m) \in DOMAIN AfterOf(C, t) =>
                     ScopeOf(m) \in DOMAIN after /\ AfterOf(C, t)[ScopeOf(m)] = after[ScopeOf(m)]
        BY <3>2 DEF AfterOf
      <4> QED BY <1>1, <1>4, <2>1, <4>1 DEF InReach
    <3> QED BY <3>1, <3>2
  <2> QED BY <1>1, <2>1, <2>4, <2>5 DEF InReach, Bare, discord, Scanned
<1> QED BY <1>6, <1>7, <1>8, <1>9, <1>11, <1>12 DEF IntakeInv

LEMMA SaveBoundarySound ==
  ASSUME IntakeInv, SaveBoundary PROVE IntakeInv'
<1> USE DEF SaveBoundary, MarkInitialized
<1>1. cursor' = cursor /\ initialized' \in SUBSET Scopes /\ scan.step = "off" /\ setup.forum
  BY Numbers DEF IntakeInv, Types, StagesSound, ScanSound
<1>2. Types'
  BY <1>1 DEF IntakeInv, Types, discord, walk, past, Stages
<1>3. ScopesThere'
  BY ScopesStay DEF discord
<1>4. StagesSound'
  BY <1>1 DEF IntakeInv, StagesSound, discord, walk, Known
<1>5. AppendsSound'
  <2>1. \A i \in 1 .. Len(appended) : FALSE
    BY <1>1 DEF IntakeInv, AppendsSound
  <2> QED BY <2>1 DEF IntakeInv, AppendsSound, discord, ScopeOf
<1>6. Missed' \subseteq Missed
  BY MissedShrinks DEF discord, past
<1>7. ScanSound'
  BY <1>1, <1>6 DEF IntakeInv, ScanSound, discord, walk, Known, ScopeOf
<1>8. ASSUME NEW m \in Missed' PROVE InReach(m)'
  <2>1. m \in Missed /\ InReach(m) /\ ~Bare(m)
    BY <1>1, <1>6 DEF IntakeInv, Bare
  <2> QED BY <1>1, <2>1 DEF discord, walk, InReach, Bare, ScopeOf, Scanned
<1> QED BY <1>2, <1>3, <1>4, <1>5, <1>7, <1>8 DEF IntakeInv

(* Where the recovery of the threads of a forum begins *)
ResumesTyped == \A t \in DOMAIN after : after[t] \in SUBSET Nat

LEMMA ResumesStayTyped ==
  ASSUME IntakeInv, ResumesTyped, Next PROVE ResumesTyped'
<1>1. CASE after' = after
  BY <1>1 DEF ResumesTyped
<1>2. CASE after' = <<>>
  BY <1>2 DEF ResumesTyped
<1>3. ASSUME NEW t \in Ids, SeedThread(t) PROVE ResumesTyped'
  <2>1. PICK C \in SUBSET Nat : after' = AfterOf(C, t)
    <3>1. cursor[t] \in Nat
      BY Numbers DEF IntakeInv, Types
    <3>2. In(t) # {} => Max(In(t)) \in Nat
      <4>1. In(t) \in SUBSET (0 .. Len(posted)) /\ In(t) \in SUBSET Nat /\ Len(posted) \in Nat
        BY KnownIds DEF IntakeInv, In, Known
      <4> QED BY <4>1, MaxIsGreatest
    <3> QED BY <1>3, <3>1, <3>2 DEF SeedThread
  <2> QED BY <2>1 DEF ResumesTyped, AfterOf
<1>4. after' = after \/ after' = <<>> \/ \E t \in Ids : SeedThread(t)
  BY DEF Next, Discord, Post, StartThread, Archive, Live, LiveThread, LiveEnqueue, LiveCursor,
         LiveFails, LiveAppend, Start, Backfill, OpenText, OpenForum, OpenSharedForum,
         SkipThreads, ListThreads, NextThread, SaveBoundary, FetchPage, ScanThread, ScanEnqueue,
         ScanCursor, ScanNext, FinishThreads, BackfillFails, Crash, Finish, WalkOver, walk
<1> QED BY <1>1, <1>2, <1>3, <1>4

LEMMA NextThreadSound ==
  ASSUME IntakeInv, ResumesTyped, NEW t \in Ids, NextThread(t) PROVE IntakeInv'
<1>1. /\ stage = "threads" /\ setup.mode # "shared" /\ t \in todo /\ todo' = todo \ {t}
      /\ complete /\ scan.step = "off" /\ t \in Scopes /\ t # 0
      /\ UNCHANGED <<setup, discord, stored, stage, appendOnly, gate, live, fallback,
                     complete, forumWas, after, past>>
  BY Numbers DEF IntakeInv, StagesSound, ScanSound, NextThread
<1>2. ResumeAfter(t) \in SUBSET Nat
  BY <1>1 DEF IntakeInv, Types, ResumesTyped, ResumeAfter
<1>3. \/ ResumeAfter(t) = {} /\ scan' = NoScan
      \/ \E c \in ResumeAfter(t) : scan' = Scan(t, c)
  BY DEF NextThread
<1>4. NoScan \in [scope : Scopes, page : SUBSET Ids, full : BOOLEAN, step : ScanSteps,
                  cursor : Nat] /\ NoScan.page = {} /\ NoScan.step = "off"
  BY Numbers DEF NoScan, ScanSteps
<1>5. /\ scan' \in [scope : Scopes, page : SUBSET Ids, full : BOOLEAN, step : ScanSteps,
                    cursor : Nat]
      /\ scan'.page = {} /\ scan'.step \in {"off", "fetch"}
      /\ scan'.step = "off" => ResumeAfter(t) = {}
      /\ scan'.step = "fetch" => scan'.scope = t /\ scan'.cursor \in ResumeAfter(t)
  BY <1>1, <1>2, <1>3, <1>4, ScanFields
<1>6. Types'
  BY <1>1, <1>5 DEF IntakeInv, Types, discord, stored, past
<1>7. ScopesThere'
  BY <1>1, ScopesStay DEF discord
<1>8. StagesSound'
  BY <1>1 DEF IntakeInv, StagesSound, discord, stored, Known
<1>9. AppendsSound'
  <2>1. \A i \in 1 .. Len(appended) : FALSE
    BY <1>1 DEF IntakeInv, AppendsSound
  <2> QED BY <1>1, <2>1 DEF IntakeInv, AppendsSound, discord, stored, ScopeOf
<1>10. Missed' \subseteq Missed
  BY <1>1, MissedShrinks DEF discord, stored, past
<1>11. ScanSound'
  BY <1>1, <1>5 DEF ScanSound
<1>12. ASSUME NEW m \in Missed' PROVE InReach(m)'
  <2>1. m \in Missed /\ InReach(m) /\ m \in Known /\ ScopeOf(m)' = ScopeOf(m)
    BY <1>1, <1>10 DEF IntakeInv, Missed, discord, ScopeOf
  <2>2. ScopeOf(m) = t => ResumeAfter(t) # {} /\ \A c \in ResumeAfter(t) : m > c
    BY <1>1, <2>1 DEF InReach, Bare, ResumeAfter
  <2>3. ScopeOf(m) = t => scan'.step # "off" /\ scan'.scope = t /\ Scanned(m)'
    BY <1>5, <2>2 DEF Scanned
  <2>4. ScopeOf(m) # t => ScopeOf(m) \in todo'
    BY <1>1, <2>1 DEF InReach
  <2> QED BY <1>1, <2>1, <2>3, <2>4 DEF discord, stored, InReach, Bare
<1> QED BY <1>6, <1>7, <1>8, <1>9, <1>11, <1>12 DEF IntakeInv

-----------------------------------------------------------------------------
(* recoverMessages *)

(* The recovery is at a message. *)
AtWork ==
  /\ stage \in {"root", "threads"} /\ stage \notin {"down", "opening", "serving"}
  /\ gate /\ ~appendOnly /\ scan.step # "off"
  /\ scan \in [scope : Scopes, page : SUBSET Ids, full : BOOLEAN, step : ScanSteps, cursor : Nat]
  /\ \A m \in Ids : live[m] # "append"

LEMMA AtWorkOn == ASSUME IntakeInv, scan.step # "off" PROVE AtWork
BY DEF IntakeInv, Types, StagesSound, ScanSound, AtWork

LEMMA OldestOfPage ==
  ASSUME IntakeInv, scan.page # {}
  PROVE  /\ Min(scan.page) \in scan.page /\ Min(scan.page) \in Known /\ Min(scan.page) \in Ids
         /\ Min(scan.page) \in Nat /\ Min(scan.page) > scan.cursor
         /\ \A m \in scan.page : m \in Nat /\ Min(scan.page) =< m
<1>1. scan.page \in SUBSET Ids /\ scan.page \in SUBSET Nat
  BY Numbers DEF IntakeInv, Types
<1>2. Min(scan.page) \in scan.page /\ \A m \in scan.page : Min(scan.page) =< m
  BY <1>1, MinIsLeast
<1> QED BY <1>1, <1>2 DEF IntakeInv, ScanSound

LEMMA StepOfPage ==
  ASSUME NEW page
  PROVE  /\ ScanStep(page) \in {"thread", "enqueue", "cursor", "next"}
         /\ ScanStep(page) = "next" <=> page = {}
         /\ ScanStep(page) = "cursor" => ~posted[Min(page)].human
BY DEF ScanStep, FirstStep

LEMMA FetchPageSound ==
  ASSUME IntakeInv, FetchPage PROVE IntakeInv'
<1> DEFINE page == Page(scan.scope, scan.cursor)
<1>1. /\ AtWork /\ scan.step = "fetch"
      /\ UNCHANGED <<setup, discord, stored, stage, appendOnly, gate, live, fallback,
                     complete, forumWas, todo, after, past>>
  BY AtWorkOn DEF FetchPage
<1>2. /\ page \in SUBSET Ids
      /\ \A m \in page : m \in Known /\ ScopeOf(m) = scan.scope /\ m > scan.cursor
  BY KnownIds DEF IntakeInv, Page, After, In, ScopeOf
<1>3. scan' = [scan EXCEPT !.page = page, !.full = Cardinality(page) = PageSize,
                           !.step = ScanStep(page)]
  BY DEF FetchPage
<1>4. \A m \in After(scan.scope, scan.cursor) :
        m \in page \/ (Cardinality(page) = PageSize /\ \A k \in page : m > k)
  BY PageHoldsOldest DEF IntakeInv
<1>5. ScanStep(page) \in ScanSteps
  BY StepOfPage DEF ScanSteps
<1> HIDE DEF page
<1>6. /\ scan' \in [scope : Scopes, page : SUBSET Ids, full : BOOLEAN, step : ScanSteps,
                    cursor : Nat]
      /\ scan'.page = page /\ scan'.scope = scan.scope /\ scan'.cursor = scan.cursor
      /\ scan'.step = ScanStep(page) /\ scan'.full = (Cardinality(page) = PageSize)
  BY <1>1, <1>2, <1>3, <1>5 DEF AtWork
<1>7. Types'
  BY <1>1, <1>6 DEF IntakeInv, Types, discord, stored, past
<1>8. ScopesThere'
  BY <1>1, ScopesStay DEF discord
<1>9. StagesSound'
  BY <1>1 DEF IntakeInv, StagesSound, discord, stored, Known
<1>10. AppendsSound'
  BY <1>1, <1>6, AppendedTypes DEF IntakeInv, AppendsSound, AtWork, discord, stored, Known, ScopeOf
<1>11. Missed' \subseteq Missed
  BY <1>1, MissedShrinks DEF discord, stored, past
<1>12. ScanSound'
  <2>1. /\ Known' = Known /\ \A m \in Known : ScopeOf(m)' = ScopeOf(m)
        /\ UNCHANGED <<stage, complete, todo, posted>>
    BY <1>1 DEF discord, Known, ScopeOf
  <2>2. scan'.step = "cursor" => Min(scan'.page) \notin Missed'
    BY <1>6, <2>1, StepOfPage DEF Missed, Due
  <2> QED BY <1>1, <1>2, <1>6, <2>1, <2>2, StepOfPage DEF IntakeInv, ScanSound
<1>13. ASSUME NEW m \in Missed' PROVE InReach(m)'
  <2>1. m \in Missed /\ InReach(m) /\ m \in Known /\ ScopeOf(m)' = ScopeOf(m)
    BY <1>1, <1>11 DEF IntakeInv, Missed, discord, ScopeOf
  <2>2. ASSUME ScopeOf(m) = scan.scope, Scanned(m) PROVE Scanned(m)'
    <3>1. m \in After(scan.scope, scan.cursor)
      BY <1>1, <2>1, <2>2 DEF Scanned, After, In, ScopeOf
    <3>2. scan'.step # "fetch" /\ m > scan.cursor
      BY <1>1, <1>6, <2>2, StepOfPage DEF Scanned
    <3> QED BY <1>4, <1>6, <3>1, <3>2 DEF Scanned
  <2>3. stage = "root" => scan.scope = 0
    BY DEF IntakeInv, ScanSound
  <2>4. scan'.step # "off" /\ scan.step # "off" /\ scan'.scope = scan.scope
    BY <1>1, <1>6, StepOfPage DEF AtWork
  <2> QED BY <1>1, <2>1, <2>2, <2>3, <2>4 DEF discord, stored, InReach, Bare
<1> QED BY <1>7, <1>8, <1>9, <1>10, <1>12, <1>13 DEF IntakeInv

LEMMA ScanThreadSound ==
  ASSUME IntakeInv, ScanThread PROVE IntakeInv'
<1>1. /\ AtWork /\ scan.step = "thread" /\ scan.page # {}
      /\ threads' = threads \cup {Min(scan.page)}
      /\ UNCHANGED <<setup, posted, archived, stored, stage, appendOnly, gate, live, fallback,
                     complete, forumWas, todo, after, past>>
  BY AtWorkOn DEF IntakeInv, ScanSound, ScanThread
<1>2. Min(scan.page) \in Ids
  BY <1>1, OldestOfPage
<1>3. /\ scan' \in [scope : Scopes, page : SUBSET Ids, full : BOOLEAN, step : ScanSteps,
                    cursor : Nat]
      /\ scan'.page = scan.page /\ scan'.scope = scan.scope /\ scan'.cursor = scan.cursor
      /\ scan'.step = "enqueue" /\ scan'.full = scan.full
  BY <1>1 DEF ScanThread, AtWork, ScanSteps
<1>4. Types'
  BY <1>1, <1>2, <1>3 DEF IntakeInv, Types, stored, past
<1>5. ScopesThere'
  BY <1>1, ScopesStay
<1>6. StagesSound'
  BY <1>1 DEF IntakeInv, StagesSound, stored, Known
<1>7. AppendsSound'
  BY <1>1, <1>3, AppendedTypes DEF IntakeInv, AppendsSound, AtWork, stored, Known, ScopeOf
<1>8. Missed' \subseteq Missed
  BY <1>1, MissedShrinks DEF stored, past
<1>9. ScanSound'
  BY <1>1, <1>3 DEF IntakeInv, ScanSound, Known, ScopeOf
<1>10. ASSUME NEW m \in Missed' PROVE InReach(m)'
  <2>1. m \in Missed /\ InReach(m) /\ ScopeOf(m)' = ScopeOf(m)
    BY <1>1, <1>8 DEF IntakeInv, ScopeOf
  <2> QED BY <1>1, <1>3, <2>1 DEF stored, InReach, Bare, Scanned
<1> QED BY <1>4, <1>5, <1>6, <1>7, <1>9, <1>10 DEF IntakeInv

LEMMA ScanEnqueueSound ==
  ASSUME IntakeInv, ScanEnqueue PROVE IntakeInv'
<1> DEFINE n == Min(scan.page)
<1>1. /\ AtWork /\ scan.step = "enqueue" /\ scan.page # {}
      /\ jobs' = Enqueued(n)
      /\ UNCHANGED <<setup, discord, cursor, initialized, appended, stage, appendOnly, gate, live,
                     fallback, complete, forumWas, todo, after, past>>
  BY AtWorkOn DEF IntakeInv, ScanSound, ScanEnqueue
<1>2. n \in Known /\ n \in Ids /\ n \in Nat /\ n > scan.cursor
  BY <1>1, OldestOfPage
<1>3. /\ scan' \in [scope : Scopes, page : SUBSET Ids, full : BOOLEAN, step : ScanSteps,
                    cursor : Nat]
      /\ scan'.page = scan.page /\ scan'.scope = scan.scope /\ scan'.cursor = scan.cursor
      /\ scan'.step = "cursor" /\ scan'.full = scan.full
  BY <1>1 DEF ScanEnqueue, AtWork, ScanSteps
<1> HIDE DEF n
<1>4. /\ jobs' \in [Ids -> {0, 1}] /\ jobs'[n] = 1
      /\ \A m \in Ids : m # n => jobs'[m] = jobs[m]
  BY <1>1, <1>2 DEF IntakeInv, Types, Enqueued
<1>5. Types'
  BY <1>1, <1>3, <1>4 DEF IntakeInv, Types, discord, past
<1>6. ScopesThere'
  BY <1>1, ScopesStay DEF discord
<1>7. StagesSound'
  BY <1>1, <1>2, <1>4 DEF IntakeInv, StagesSound, discord, Known
<1>8. AppendsSound'
  <2>1. ASSUME NEW i \in 1 .. Len(appended)
        PROVE  appended[i] \in Ids /\ appended[i] # n /\ appended[i] =< scan.cursor
    <3>1. appended[i] =< scan.cursor /\ appended[i] \in Ids /\ appended[i] \in Nat
      BY <1>1, AppendedTypes, Numbers DEF IntakeInv, AppendsSound
    <3> QED BY <1>1, <1>2, <3>1 DEF AtWork
  <2> QED BY <1>1, <1>3, <1>4, <2>1 DEF IntakeInv, AppendsSound, AtWork, discord, Known, ScopeOf
<1>9. Missed' \subseteq Missed
  BY <1>1, <1>4, MissedShrinks, KnownIds DEF IntakeInv, discord, past
<1>10. ScanSound'
  <2>1. n \notin Missed'
    BY <1>4 DEF Missed
  <2>2. n' = n
    BY <1>3 DEF n
  <2>3. Min(scan'.page) \notin Missed'
    BY <2>1, <2>2 DEF n
  <2> QED BY <1>1, <1>3, <2>3 DEF IntakeInv, ScanSound, discord, Known, ScopeOf
<1>11. ASSUME NEW m \in Missed' PROVE InReach(m)'
  <2>1. m \in Missed /\ InReach(m) /\ ScopeOf(m)' = ScopeOf(m)
    BY <1>1, <1>9 DEF IntakeInv, ScopeOf, discord
  <2> QED BY <1>1, <1>3, <2>1 DEF discord, InReach, Bare, Scanned
<1> QED BY <1>5, <1>6, <1>7, <1>8, <1>10, <1>11 DEF IntakeInv

LEMMA ScanCursorSound ==
  ASSUME IntakeInv, ScanCursor PROVE IntakeInv'
<1>0. PICK n \in Nat : n = Min(scan.page) /\ n \in scan.page /\ n \in Known /\ n \in Ids
                       /\ n > scan.cursor /\ n \notin Missed
                       /\ \A m \in scan.page : m \in Nat /\ n =< m
  BY OldestOfPage DEF IntakeInv, ScanSound, ScanCursor
<1> DEFINE rest == scan.page \ {n}
           s == scan.scope
<1>1. /\ AtWork /\ scan.step = "cursor" /\ s \in Scopes
      /\ cursor' = [cursor EXCEPT ![s] = IF n > @ THEN n ELSE @]
      /\ initialized' = initialized \cup {s}
      /\ UNCHANGED <<setup, discord, jobs, appended, stage, appendOnly, gate, live,
                     fallback, complete, forumWas, todo, after, past>>
  BY <1>0, AtWorkOn DEF IntakeInv, Types, ScanCursor, Upsert
<1>2. scan' = [scan EXCEPT !.page = rest, !.cursor = n, !.step = ScanStep(rest)]
  BY <1>0 DEF ScanCursor
<1>3. /\ scan' \in [scope : Scopes, page : SUBSET Ids, full : BOOLEAN, step : ScanSteps,
                    cursor : Nat]
      /\ scan'.page = rest /\ scan'.scope = s /\ scan'.cursor = n
      /\ scan'.step = ScanStep(rest) /\ scan'.full = scan.full
  <2>1. ScanStep(rest) \in ScanSteps
    BY StepOfPage DEF ScanSteps
  <2>2. rest \in SUBSET Ids
    BY <1>1 DEF AtWork
  <2> HIDE DEF rest
  <2> QED BY <1>0, <1>1, <1>2, <2>1, <2>2 DEF AtWork
<1>4. /\ cursor' \in [Scopes -> Nat] /\ \A x \in Scopes : x # s => cursor'[x] = cursor[x]
      /\ n =< cursor'[s] /\ cursor[s] =< cursor'[s] /\ (cursor'[s] = n \/ cursor'[s] = cursor[s])
      /\ \A x \in Scopes : cursor'[x] =< Len(posted)
  <2>1. Types /\ n =< Len(posted) /\ Len(posted) \in Nat
    BY <1>0, KnownIds, PostedTypes DEF IntakeInv
  <2> QED BY <1>0, <1>1, <2>1 DEF Types
<1>5. Types'
  BY <1>1, <1>3, <1>4 DEF IntakeInv, Types, discord, past
<1>6. ScopesThere'
  BY <1>1, ScopesStay DEF discord
<1>7. StagesSound'
  <2>1. cursor[0] # 0 \/ 0 \in initialized => cursor'[0] # 0 \/ 0 \in initialized'
    BY <1>1
  <2>2. cursor[0] = cursor'[0] \/ 0 \in initialized'
    BY <1>1, <1>4, Numbers
  <2>3. \A x \in Scopes : x \in initialized => x \in initialized'
    BY <1>1
  <2> QED BY <1>1, <2>1, <2>2, <2>3, Numbers DEF IntakeInv, StagesSound, AtWork, discord, Known
<1>8. AppendsSound'
  <2>1. ASSUME NEW i \in 1 .. Len(appended)
        PROVE  /\ appended[i] \in Ids /\ appended[i] =< n
               /\ cursor'[0] # 0 \/ 0 \in initialized' => appended[i] =< cursor'[0]
    <3>1. appended[i] =< scan.cursor /\ appended[i] \in Ids /\ appended[i] \in Nat
      BY <1>1, AppendedTypes, Numbers DEF IntakeInv, AppendsSound, AtWork
    <3>2. appended[i] =< n /\ scan.cursor \in Nat
      BY <1>0, <1>1, <3>1 DEF AtWork
    <3>3. cursor'[0] \in Nat /\ cursor[0] \in Nat /\ 0 \in Scopes
      BY <1>4, Numbers DEF IntakeInv, Types
    <3>4. CASE s = 0
      BY <1>0, <1>4, <3>1, <3>2, <3>3, <3>4
    <3>5. CASE s # 0
      <4>1. cursor'[0] = cursor[0] /\ (0 \in initialized' <=> 0 \in initialized)
        BY <1>1, <1>4, <3>3, <3>5
      <4> QED BY <3>1, <3>2, <4>1 DEF IntakeInv, AppendsSound
    <3> QED BY <3>4, <3>5
  <2>2. \A m \in Ids : live'[m] # "append"
    BY <1>1 DEF AtWork
  <2> QED BY <1>1, <1>3, <2>1, <2>2 DEF IntakeInv, AppendsSound, discord, Known, ScopeOf
<1>9. Missed' \subseteq Missed
  BY <1>1, MissedShrinks DEF discord, past
<1>10. ScanSound'
  <2>1. /\ Known' = Known /\ \A m \in Known : ScopeOf(m)' = ScopeOf(m)
        /\ UNCHANGED <<stage, complete, todo, posted>>
    BY <1>1 DEF discord, Known, ScopeOf
  <2>2. scan'.step = "cursor" => Min(scan'.page) \notin Missed'
    BY <1>3, <2>1, StepOfPage DEF Missed, Due
  <2>3. ASSUME NEW m \in rest PROVE m \in Known /\ ScopeOf(m) = s /\ m > n
    <3>1. m \in Known /\ ScopeOf(m) = s
      BY DEF IntakeInv, ScanSound
    <3>2. m \in Nat /\ n =< m /\ m # n
      BY <1>0
    <3> QED BY <3>1, <3>2
  <2> HIDE DEF rest
  <2> QED BY <1>1, <1>3, <2>1, <2>2, <2>3, StepOfPage DEF IntakeInv, ScanSound, AtWork
<1>11. ASSUME NEW m \in Missed' PROVE InReach(m)'
  <2>1. /\ m \in Missed /\ InReach(m) /\ m \in Known /\ ScopeOf(m)' = ScopeOf(m) /\ m # n
        /\ ScopeOf(m) \in Scopes /\ m \in Nat
    BY <1>0, <1>1, <1>9, PostedTypes, Numbers DEF IntakeInv, Missed, discord, ScopeOf
  <2>2. ScopeOf(m) = s => Scanned(m)
    BY <1>1, <2>1 DEF InReach, IntakeInv, ScanSound, AtWork
  <2>3. ScopeOf(m) = s => m > n
    <3>1. Scanned(m) => m \in scan.page \/ m > n
      BY <1>0, <1>1 DEF Scanned
    <3> QED BY <1>0, <2>1, <2>2, <3>1
  <2>4. ScopeOf(m) = s => Scanned(m)'
    <3>1. Scanned(m) => m \in scan.page \/ (scan.full /\ \A k \in scan.page : m > k)
      BY <1>1 DEF Scanned
    <3> QED BY <1>3, <2>1, <2>2, <2>3, <3>1, StepOfPage DEF Scanned
  <2>5. m > cursor'[ScopeOf(m)]
    BY <1>0, <1>4, <2>1, <2>3 DEF InReach
  <2>6. Bare(m)' => Bare(m)
    <3>1. cursor'[ScopeOf(m)] = 0 => cursor[ScopeOf(m)] = 0
      <4>1. cursor[ScopeOf(m)] \in Nat /\ cursor'[ScopeOf(m)] \in Nat
        BY <1>4, <2>1 DEF IntakeInv, Types
      <4>2. cursor[ScopeOf(m)] =< cursor'[ScopeOf(m)]
        BY <1>4, <2>1, <4>1
      <4> QED BY <4>1, <4>2
    <3> QED BY <1>1, <2>1, <3>1 DEF Bare
  <2>7. scan'.step # "off" /\ scan.step # "off"
    BY <1>1, <1>3, StepOfPage
  <2>8. stage = "root" => s = 0
    BY DEF IntakeInv, ScanSound
  <2> QED BY <1>1, <1>3, <2>1, <2>4, <2>5, <2>6, <2>7, <2>8 DEF InReach, AtWork
<1> QED BY <1>5, <1>6, <1>7, <1>8, <1>10, <1>11 DEF IntakeInv

LEMMA ScanNextSound ==
  ASSUME IntakeInv, ScanNext PROVE IntakeInv'
<1>1. /\ AtWork /\ scan.step = "next" /\ scan.page = {}
      /\ UNCHANGED <<setup, discord, stored, appendOnly, gate, live, fallback, complete, forumWas,
                     todo, after, past>>
  BY AtWorkOn DEF IntakeInv, ScanSound, ScanNext
<1>2. \/ /\ scan.full /\ scan' = [scan EXCEPT !.step = "fetch"] /\ stage' = stage
      \/ /\ ~scan.full /\ scan' = NoScan /\ stage = "root" /\ stage' = "listing"
      \/ /\ ~scan.full /\ scan' = NoScan /\ stage = "threads" /\ stage' = "threads"
  BY <1>1 DEF ScanNext, MorePages, AtWork
<1>3. NoScan \in [scope : Scopes, page : SUBSET Ids, full : BOOLEAN, step : ScanSteps,
                  cursor : Nat] /\ NoScan.page = {} /\ NoScan.step = "off"
  BY Numbers DEF NoScan, ScanSteps
<1>4. /\ scan' \in [scope : Scopes, page : SUBSET Ids, full : BOOLEAN, step : ScanSteps,
                    cursor : Nat]
      /\ scan'.page = {} /\ scan'.step \in {"off", "fetch"}
      /\ scan'.step = "fetch" => /\ scan'.scope = scan.scope /\ scan'.cursor = scan.cursor
                                 /\ scan.full /\ stage' = stage
      /\ scan'.step = "off" => ~scan.full /\ stage' # "root"
      /\ stage' \in {"root", "listing", "threads"} /\ (stage' = "threads" <=> stage = "threads")
      /\ stage' = "root" => stage = "root"
  BY <1>1, <1>2, <1>3 DEF AtWork, ScanSteps
<1>5. Types'
  BY <1>1, <1>4 DEF IntakeInv, Types, discord, stored, past, Stages
<1>6. ScopesThere'
  BY <1>1, ScopesStay DEF discord
<1>7. StagesSound'
  BY <1>1, <1>4 DEF IntakeInv, StagesSound, AtWork, discord, stored, Known
<1>8. AppendsSound'
  BY <1>1, <1>4, AppendedTypes DEF IntakeInv, AppendsSound, AtWork, discord, stored, Known, ScopeOf
<1>9. Missed' \subseteq Missed
  BY <1>1, MissedShrinks DEF discord, stored, past
<1>10. ScanSound'
  BY <1>1, <1>4 DEF IntakeInv, ScanSound, AtWork
<1>11. ASSUME NEW m \in Missed' PROVE InReach(m)'
  <2>1. m \in Missed /\ InReach(m) /\ ScopeOf(m)' = ScopeOf(m)
    BY <1>1, <1>9 DEF IntakeInv, ScopeOf, discord
  <2>2. Scanned(m) => scan.full /\ m > scan.cursor
    BY <1>1 DEF Scanned
  <2>3. Scanned(m) => scan'.step = "fetch" /\ Scanned(m)'
    BY <1>4, <2>2 DEF Scanned
  <2>4. stage = "root" \/ stage = "threads"
    BY <1>1 DEF AtWork
  <2> QED BY <1>1, <1>4, <2>1, <2>3, <2>4 DEF discord, stored, InReach, Bare
<1> QED BY <1>5, <1>6, <1>7, <1>8, <1>10, <1>11 DEF IntakeInv

-----------------------------------------------------------------------------
(* The theorems *)

LEMMA StutterSound ==
  ASSUME IntakeInv, UNCHANGED vars PROVE IntakeInv'
<1>1. Types' /\ ScopesThere' /\ StagesSound' /\ AppendsSound'
  BY DEF IntakeInv, Types, ScopesThere, StagesSound, AppendsSound, vars, discord, stored, walk,
         Known, ScopeOf
<1>2. Missed' \subseteq Missed
  BY MissedShrinks DEF vars, discord, stored, past
<1>3. ScanSound' /\ \A m \in Missed' : InReach(m)'
  BY <1>2, ReachStays DEF walkers, vars, discord, stored, walk
<1> QED BY <1>1, <1>3 DEF IntakeInv

LEMMA StepSound ==
  ASSUME IntakeInv, ResumesTyped, [Next]_vars PROVE IntakeInv' /\ ResumesTyped'
<1>1. CASE UNCHANGED vars
  BY <1>1, StutterSound DEF ResumesTyped, vars, walk
<1>2. ASSUME Discord PROVE IntakeInv'
  BY <1>2, PostSound, StartThreadSound, ArchiveSound DEF Discord
<1>3. ASSUME Live PROVE IntakeInv'
  BY <1>3, LiveThreadSound, LiveEnqueueSound, LiveCursorSound, LiveFailsSound, LiveAppendSound
     DEF Live
<1>4. ASSUME Backfill PROVE IntakeInv'
  BY <1>4, OpenTextSound, OpenForumSound, OpenSharedForumSound, SkipThreadsSound,
     ListThreadsSound, SeedThreadSound, NextThreadSound, SaveBoundarySound, FetchPageSound,
     ScanThreadSound, ScanEnqueueSound, ScanCursorSound, ScanNextSound, FinishThreadsSound,
     BackfillFailsSound
     DEF Backfill
<1>5. CASE Next
  BY <1>2, <1>3, <1>4, <1>5, StartSound, CrashSound, ResumesStayTyped DEF Next
<1> QED BY <1>1, <1>5

LEMMA IntakeInvariant == Spec => [](IntakeInv /\ ResumesTyped)
<1>1. Init => IntakeInv /\ ResumesTyped
  BY InitSound DEF Init, ResumesTyped
<1>2. IntakeInv /\ ResumesTyped /\ [Next]_vars => (IntakeInv /\ ResumesTyped)'
  BY StepSound
<1> QED BY <1>1, <1>2, PTL DEF Spec

LEMMA InvariantIsOneTurn == ASSUME IntakeInv PROVE OneTurnPerMessage
<1>1. Len(appended) \in Nat /\ DOMAIN appended = 1 .. Len(appended)
  BY DEF IntakeInv, Types
<1>2. \A i, k \in DOMAIN appended : i < k => appended[i] < appended[k]
  BY <1>1 DEF IntakeInv, AppendsSound
<1>3. ASSUME NEW m \in Ids
      PROVE  jobs[m] + Cardinality({i \in DOMAIN appended : appended[i] = m}) <= 1
  <2> DEFINE I == {i \in DOMAIN appended : appended[i] = m}
  <2>1. jobs[m] \in {0, 1} /\ m \in Nat
    BY Numbers DEF IntakeInv, Types
  <2>2. CASE I = {}
    BY <2>1, <2>2, FS_EmptySet
  <2>3. ASSUME NEW i \in I PROVE I = {i} /\ jobs[m] = 0
    <3>1. jobs[m] = 0
      BY <1>1 DEF IntakeInv, AppendsSound
    <3>2. ASSUME NEW k \in I, k # i PROVE FALSE
      <4>1. i \in Nat /\ k \in Nat /\ appended[i] = m /\ appended[k] = m
        BY <1>1
      <4>2. i < k \/ k < i
        BY <3>2, <4>1
      <4>3. ~(m < m)
        BY <2>1
      <4> QED BY <1>2, <4>1, <4>2, <4>3
    <3> QED BY <3>1, <3>2
  <2>4. CASE I # {}
    <3>1. PICK i \in I : I = {i} /\ jobs[m] = 0
      BY <2>3, <2>4
    <3>2. Cardinality(I) = 1
      BY <3>1, FS_Singleton
    <3> QED BY <3>1, <3>2
  <2> QED BY <2>2, <2>4
<1> QED BY <1>2, <1>3 DEF OneTurnPerMessage

LEMMA InvariantLosesNothing == ASSUME IntakeInv PROVE NothingLost
<1> SUFFICES ASSUME Idle, ~gate, NEW m \in Known \ (history \cup told \cup excused \cup unlisted),
                    posted[m].human, Accepts(posted[m].scope)
             PROVE  jobs[m] = 1
  BY DEF NothingLost, Recovered
<1>1. m \in Ids /\ jobs[m] \in {0, 1} /\ live[m] = "idle"
  BY KnownIds DEF IntakeInv, Types, Idle, InFlight
<1>2. m \notin Missed
  BY DEF IntakeInv, InReach, Idle
<1> QED BY <1>1, <1>2 DEF Missed, Due, ScopeOf

(* Every message becomes exactly one turn, or its sender knows that it did *)
(* not: live handling, the recovery of every start and the starts that     *)
(* only append never make two turns of one message, and a recovery that is *)
(* through has left none out but what NothingLost names, the threads       *)
(* archived when they were listed among it (discord/intake.ts ingest and   *)
(* the live handlers, discord/backfill.ts backfillTarget and               *)
(* recoverMessages).                                                       *)
THEOREM MessagesBecomeOneTurn == Spec => []ExactlyOneTurn
<1>1. IntakeInv => ExactlyOneTurn
  BY InvariantIsOneTurn, InvariantLosesNothing DEF ExactlyOneTurn
<1> QED BY <1>1, IntakeInvariant, PTL

=============================================================================
