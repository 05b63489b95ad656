--------------------------- MODULE UsageCountProofs --------------------------
(***************************************************************************)
(* The safety of UsageCount for any events, devices, grains and bounds.    *)
(*                                                                         *)
(* The buckets follow the rows because a row is settled only while its     *)
(* task is claimed, hence pending, and only rows that others see are ever  *)
(* settled (UncommittedAreNew).  The uploads in progress hold disjoint new *)
(* rows of devices that are not being deleted (UploadsApart), so a commit, *)
(* an abort and a deletion move no row of another transaction.             *)
(*                                                                         *)
(* A claim's token is one nobody still holds: there is one as long as each *)
(* lost lease is a mishap (StaleAreCounted).                               *)
(*                                                                         *)
(* That a usage counts once, and that it counts, needs the row ids: what   *)
(* an applied row says of earlier copies, what a row that does not apply   *)
(* says of the revisions of its fact, and what a deletion under way leaves *)
(* shadowed (CopiesInv).  LostOnlyForAReason follows by the row of least   *)
(* id among the copies of a usage: it has no earlier copy.                 *)
(***************************************************************************)
EXTENDS UsageCount, FiniteSetTheorems, WellFoundedInduction, TLAPS

Hashes == {NoHash, Zero} \cup {IdentityOf[e] : e \in Events} \cup {Backfilled(e) : e \in Events}
Uploads == [device : Devices, new : SUBSET Events, batch : SUBSET Events]
Statuses == {Pending, Applied, NotApplicable}
Deletions == [device : Devices \cup {NoDevice}, reopen : SUBSET Events]

Stale == {c \in claims : task[c[1]][c[2]] # c[3]}
StaleAreCounted ==
    IsFiniteSet(claims) /\ Cardinality(Stale) <= mishaps /\ mishaps <= MaxMishaps
ClaimsAreOfRows == \A c \in claims : c[1] \in Committed
UploadsApart ==
    /\ \A u \in uploads :
          /\ u.new \subseteq Rows /\ u.new \subseteq u.batch /\ u.batch \ u.new \subseteq Committed
          /\ \A e \in u.batch : DeviceOf[e] = u.device
          /\ u.device # deletion.device
    /\ \A u, v \in uploads : u # v => u.new \cap v.new = {}
UncommittedAreNew ==
    /\ \A e \in Events \ Committed, g \in Grains : status[e][g] = Pending
    /\ recounted \subseteq Committed
DeletionUnderWay ==
    deletion # NoDeletion =>
        /\ deletions > 0 /\ deletion.device \in Devices
        /\ \A e \in deletion.reopen : DeviceOf[e] # deletion.device

UsageInv ==
    /\ RowsAreConsistent /\ OneRevisionCounts
    /\ StaleAreCounted /\ ClaimsAreOfRows
    /\ UploadsApart /\ UncommittedAreNew /\ DeletionUnderWay

USE UsageCountAssumption

-----------------------------------------------------------------------------
(* Operators.                                                              *)

LEMMA StatusesDiffer == Pending # Applied /\ Pending # NotApplicable /\ Applied # NotApplicable
BY DEF Pending, Applied, NotApplicable

\* Every set of natural numbers has a least element.
LEMMA LeastNatural ==
    ASSUME NEW S \in SUBSET Nat, S # {}
    PROVE  \E n \in S : \A m \in S : n <= m
<1>1. PICK n \in S : \A m \in S : <<m, n>> \notin OpToRel(<, Nat)
  BY NatLessThanWellFounded, WFMin
<1>2. \A m \in S : ~(m < n)
  BY <1>1 DEF OpToRel
<1> QED
  BY <1>2

\* The row ids of finitely many events have an upper bound: the smallest set of
\* events without one would have one.
LEMMA IdsAreBounded ==
    ASSUME id \in [Events -> Nat]
    PROVE  \E n \in Nat : \A e \in Events : id[e] <= n
<1> DEFINE bounded(s) == \E n \in Nat : \A e \in s : id[e] <= n
           open == {s \in SUBSET Events : ~bounded(s)}
<1>1. open = {}
  <2>1. SUFFICES ASSUME open # {} PROVE FALSE
    OBVIOUS
  <2>2. IsWellFoundedOn(StrictSubsetOrdering(Events), SUBSET Events)
    BY FS_StrictSubsetOrderingWellFounded, FS_FiniteSubsetsOfFinite
  <2>3. PICK s \in open : \A t \in open : <<t, s>> \notin StrictSubsetOrdering(Events)
    BY <2>1, <2>2, WFMin
  <2>4. PICK e \in s : TRUE
    <3>1. bounded({})
      OBVIOUS
    <3> QED BY <3>1
  <2>5. s \ {e} \in SUBSET Events /\ s \ {e} \notin open
    <3>1. s \in SUBSET Events /\ s \ {e} \in SUBSET Events /\ s \ {e} # s
      BY <2>3, <2>4
    <3>2. <<s \ {e}, s>> \in StrictSubsetOrdering(Events)
      BY <3>1 DEF StrictSubsetOrdering
    <3> HIDE DEF open
    <3> QED BY <2>3, <3>1, <3>2
  <2>6. PICK n \in Nat : \A x \in s \ {e} : id[x] <= n
    BY <2>5
  <2>7. id[e] \in Nat /\ \A x \in s : id[x] \in Nat
    BY <2>4
  <2>8. \A x \in s : id[x] <= n + id[e]
    BY <2>6, <2>7
  <2>9. n + id[e] \in Nat
    BY <2>7
  <2> QED
    BY <2>8, <2>9
<1>2. Events \in SUBSET Events
  OBVIOUS
<1> QED
  BY <1>1, <1>2

LEMMA LastIdTyped ==
    ASSUME id \in [Events -> Nat]
    PROVE  /\ Max({0} \cup {id[x] : x \in Events}) \in Nat
           /\ \A e \in Events : id[e] <= Max({0} \cup {id[x] : x \in Events})
<1> DEFINE S == {0} \cup {id[x] : x \in Events}
           B == {n \in Nat : \A s \in S : s <= n}
<1>1. S \in SUBSET Nat /\ 0 \in S
  OBVIOUS
<1>2. B # {}
  <2>1. PICK n \in Nat : \A e \in Events : id[e] <= n
    BY IdsAreBounded
  <2> QED
    <3>1. \A s \in S : s <= n
      BY <2>1
    <3> QED BY <3>1
<1> HIDE DEF S
<1>3. PICK m \in B : \A n \in B : m <= n
  <2>1. B \in SUBSET Nat
    OBVIOUS
  <2> HIDE DEF B
  <2> QED BY <1>2, <2>1, LeastNatural
<1>4. m \in S
  <2> SUFFICES ASSUME m \notin S PROVE FALSE
    OBVIOUS
  <2>1. \A s \in S : s \in Nat /\ s <= m /\ s # m
    BY <1>1, <1>3
  <2>2. m \in Nat /\ 0 < m
    BY <1>1, <1>3, <2>1
  <2>3. m - 1 \in Nat /\ \A s \in S : s <= m - 1
    BY <2>1, <2>2
  <2> QED
    BY <1>3, <2>2, <2>3
<1>5. \E n \in S : \A s \in S : n >= s
  BY <1>1, <1>3, <1>4
<1>6. Max(S) \in S /\ \A s \in S : Max(S) >= s
  BY <1>5 DEF Max
<1>7. \A e \in Events : id[e] \in S
  BY DEF S
<1>8. Max(S) \in Nat /\ \A e \in Events : id[e] <= Max(S)
  BY <1>1, <1>6, <1>7
<1> QED
  BY <1>8 DEF S

\* Some token of a due task is in no claim: each claim of it is of a lost lease.
LEMMA FreshTokenIsFresh ==
    ASSUME UsageInv, NEW e \in Events, NEW g \in Grains, task[e][g] = Due
    PROVE  FreshToken(e, g) \in Tokens /\ <<e, g, FreshToken(e, g)>> \notin claims
<1> DEFINE S == {n \in Tokens : <<e, g, n>> \notin claims}
<1>1. Tokens \in SUBSET Nat /\ IsFiniteSet(Tokens) /\ Cardinality(Tokens) = MaxMishaps + 1
  <2> DEFINE n == MaxMishaps + 1
  <2>1. n \in Nat /\ n \in Int /\ 1 \in Int /\ ~(1 > n) /\ n - 1 + 1 = n
    OBVIOUS
  <2>2. Tokens = 1 .. n
    BY DEF Tokens
  <2> HIDE DEF n
  <2>3. Tokens \in SUBSET Nat
    BY <2>1, <2>2
  <2>4. IsFiniteSet(1 .. n) /\ Cardinality(1 .. n) = n
    BY <2>1, FS_Interval
  <2> QED
    BY <2>2, <2>3, <2>4 DEF n
<1>2. S # {}
  <2> SUFFICES ASSUME S = {} PROVE FALSE
    OBVIOUS
  <2>1. \A n \in Tokens : <<e, g, n>> \in Stale
    BY DEF Stale
  <2> DEFINE f == [n \in Tokens |-> <<e, g, n>>]
  <2>2. f \in Injection(Tokens, Stale)
    <3>1. f \in [Tokens -> Stale]
      BY <2>1
    <3>2. \A m, n \in Tokens : f[m] = f[n] => m = n
      OBVIOUS
    <3> QED BY <3>1, <3>2 DEF Injection, IsInjective
  <2>3. IsFiniteSet(Stale) /\ Cardinality(Stale) \in Nat /\ Cardinality(Stale) <= MaxMishaps
    <3>1. IsFiniteSet(Stale)
      BY FS_Subset DEF UsageInv, StaleAreCounted, Stale
    <3>2. mishaps \in Nat
      BY DEF UsageInv, RowsAreConsistent, TypeOK
    <3> QED
      BY <3>1, <3>2, FS_CardinalityType DEF UsageInv, StaleAreCounted
  <2>4. Cardinality(Tokens) <= Cardinality(Stale)
    <3> HIDE DEF f
    <3> QED BY <2>2, <2>3, FS_Injection
  <2> QED
    BY <1>1, <2>3, <2>4
<1>3. \E n \in S : \A m \in S : n <= m
  <2>1. S \in SUBSET Nat
    BY <1>1
  <2> HIDE DEF S
  <2> QED BY <1>2, <2>1, LeastNatural
<1>4. Min(S) \in S
  BY <1>3 DEF Min
<1> QED
  BY <1>4 DEF FreshToken

-----------------------------------------------------------------------------

LEMMA InitEstablishes == Init => UsageInv
<1> SUFFICES ASSUME Init PROVE UsageInv
  OBVIOUS
<1>1. Rows = {} /\ Committed = {}
  BY DEF Init, Rows, Committed
<1>2. TypeOK
  BY DEF Init, TypeOK, NoDeletion
<1>3. BucketsAreApplied /\ OneRevisionCounts
  BY <1>1, StatusesDiffer DEF Init, BucketsAreApplied, OneRevisionCounts
<1>4. NoTaskForgotten /\ AckedIsStored
  BY <1>1 DEF Init, NoTaskForgotten, AckedIsStored
<1>5. StaleAreCounted
  <2>1. Stale = {} /\ claims = {}
    BY DEF Init, Stale
  <2> QED
    BY <2>1, FS_EmptySet DEF Init, StaleAreCounted
<1>6. ClaimsAreOfRows /\ UploadsApart /\ DeletionUnderWay
  BY DEF Init, ClaimsAreOfRows, UploadsApart, DeletionUnderWay
<1>7. UncommittedAreNew
  BY DEF Init, UncommittedAreNew
<1> QED
  BY <1>2, <1>3, <1>4, <1>5, <1>6, <1>7 DEF UsageInv, RowsAreConsistent

-----------------------------------------------------------------------------
(* What the steps share.                                                   *)

LEMMA Types ==
    ASSUME UsageInv
    PROVE  /\ TypeOK
           /\ Rows \subseteq Events /\ Committed \subseteq Rows
           /\ \A u \in uploads : u \in Uploads
           /\ task \in [Events -> [Grains -> Tokens \cup {NoTask, Due}]]
           /\ status \in [Events -> [Grains -> Statuses]]
           /\ counted \in [Events -> [Grains -> Int]]
           /\ claims \subseteq Events \X Grains \X Tokens
BY DEF UsageInv, RowsAreConsistent, TypeOK, Rows, Committed, Uploads, Statuses

\* What a row says of a grain, and how often the bucket has it.
LEMMA CellsTyped ==
    ASSUME UsageInv, NEW x \in Events, NEW h \in Grains
    PROVE  status[x][h] \in Statuses /\ counted[x][h] \in Int
<1>1. status[x] \in [Grains -> Statuses] /\ counted[x] \in [Grains -> Int]
  BY Types
<1> QED
  BY <1>1

\* Steps on claims, tasks and buckets leave the rows to their transactions.
LEMMA RowsKept ==
    ASSUME UsageInv, UNCHANGED <<id, uploads, acked, deletion, deletions, recounted>>
    PROVE  /\ Rows' = Rows /\ Committed' = Committed
           /\ UploadsApart' /\ DeletionUnderWay' /\ AckedIsStored' /\ recounted' \subseteq Committed'
<1>1. Rows' = Rows /\ Committed' = Committed
  BY DEF Rows, Committed
<1>2. UploadsApart' /\ DeletionUnderWay'
  BY <1>1 DEF UsageInv, UploadsApart, DeletionUnderWay, NoDeletion
<1>3. AckedIsStored' /\ recounted' \subseteq Committed'
  BY <1>1 DEF UsageInv, RowsAreConsistent, AckedIsStored, UncommittedAreNew
<1> QED
  BY <1>1, <1>2, <1>3

\* The buckets and what is settled stay as they are.
LEMMA SettledKept ==
    ASSUME UsageInv, UNCHANGED <<id, uploads, acked, deletion, deletions, recounted, status, counted>>
    PROVE  BucketsAreApplied' /\ OneRevisionCounts' /\ UncommittedAreNew'
<1>1. Rows' = Rows /\ Committed' = Committed
  BY RowsKept
<1> QED
  BY <1>1 DEF UsageInv, RowsAreConsistent, BucketsAreApplied, OneRevisionCounts, SameFact,
              UncommittedAreNew

\* Claims that were lost stay lost; at most the lease that lapses joins them.
LEMMA StaleKept ==
    ASSUME UsageInv, IsFiniteSet(claims'), mishaps' \in Nat, mishaps' <= MaxMishaps,
           \/ Stale' \subseteq Stale /\ mishaps' >= mishaps
           \/ \E c : Stale' \subseteq Stale \cup {c} /\ mishaps' = mishaps + 1
    PROVE  StaleAreCounted'
<1>1. /\ IsFiniteSet(Stale) /\ Cardinality(Stale) \in Nat /\ Cardinality(Stale) <= mishaps
      /\ mishaps \in Nat
  <2>1. IsFiniteSet(Stale)
    BY FS_Subset DEF UsageInv, StaleAreCounted, Stale
  <2> QED
    BY <2>1, FS_CardinalityType, Types DEF UsageInv, StaleAreCounted, TypeOK
<1>2. CASE Stale' \subseteq Stale /\ mishaps' >= mishaps
  <2>1. Cardinality(Stale') <= Cardinality(Stale) /\ IsFiniteSet(Stale')
    BY <1>1, <1>2, FS_Subset
  <2>2. Cardinality(Stale') \in Nat
    BY <2>1, FS_CardinalityType
  <2> QED
    BY <1>1, <1>2, <2>1, <2>2 DEF StaleAreCounted
<1>3. ASSUME NEW c, Stale' \subseteq Stale \cup {c}, mishaps' = mishaps + 1
      PROVE  StaleAreCounted'
  <2>1. /\ IsFiniteSet(Stale \cup {c})
        /\ Cardinality(Stale \cup {c}) \in {Cardinality(Stale), Cardinality(Stale) + 1}
    BY <1>1, FS_AddElement
  <2>2. Cardinality(Stale') <= Cardinality(Stale \cup {c}) /\ IsFiniteSet(Stale')
    BY <1>3, <2>1, FS_Subset
  <2>3. Cardinality(Stale') \in Nat
    BY <2>2, FS_CardinalityType
  <2> QED
    BY <1>1, <1>3, <2>1, <2>2, <2>3 DEF StaleAreCounted
<1> QED
  BY <1>2, <1>3

LEMMA MishapsTyped ==
    ASSUME UsageInv, Mishap \/ UNCHANGED mishaps
    PROVE  mishaps' \in Nat /\ mishaps' <= MaxMishaps /\ mishaps' >= mishaps
BY Types DEF UsageInv, StaleAreCounted, TypeOK, Mishap

-----------------------------------------------------------------------------
(* Aggregation workers.                                                    *)

\* The task of e in g becomes value and every other task stays as it is.
TaskBecomes(e, g, value) ==
    /\ task' \in [Events -> [Grains -> Tokens \cup {NoTask, Due}]]
    /\ task'[e][g] = value
    /\ \A x \in Events, h \in Grains : x # e \/ h # g => task'[x][h] = task[x][h]

LEMMA TaskWritten ==
    ASSUME UsageInv, NEW e \in Events, NEW g \in Grains,
           NEW value \in Tokens \cup {NoTask, Due}, task' = [task EXCEPT ![e][g] = value]
    PROVE  TaskBecomes(e, g, value)
<1>1. task \in [Events -> [Grains -> Tokens \cup {NoTask, Due}]]
  BY Types
<1> HIDE DEF Tokens
<1>2. task' = [task EXCEPT ![e] = [task[e] EXCEPT ![g] = value]]
  BY <1>1
<1>3. [task[e] EXCEPT ![g] = value] \in [Grains -> Tokens \cup {NoTask, Due}]
  BY <1>1
<1> QED
  BY <1>1, <1>2, <1>3 DEF TaskBecomes

LEMMA ClaimKeeps ==
    ASSUME UsageInv, NEW e \in Events, NEW g \in Grains, Claim(e, g)
    PROVE  UsageInv'
<1> DEFINE n == FreshToken(e, g)
           c == <<e, g, n>>
<1>1. /\ e \in Committed /\ task[e][g] = Due
      /\ task' = [task EXCEPT ![e][g] = n] /\ claims' = claims \cup {c}
      /\ UNCHANGED <<id, hash, status, counted, uploads, acked, deletion, misjudged, recounted,
                     deletions, mishaps>>
  BY DEF Claim, rows, history
<1>2. n \in Tokens /\ c \notin claims /\ n # NoTask /\ n # Due
  BY <1>1, FreshTokenIsFresh
<1> HIDE DEF n
<1>3. /\ task' \in [Events -> [Grains -> Tokens \cup {NoTask, Due}]]
      /\ task'[e][g] = n
      /\ \A x \in Events, h \in Grains : x # e \/ h # g => task'[x][h] = task[x][h]
  <2> HIDE DEF Tokens
  <2>1. n \in Tokens \cup {NoTask, Due}
    BY <1>2
  <2>2. TaskBecomes(e, g, n)
    BY <1>1, <2>1, TaskWritten
  <2> QED
    BY <2>2 DEF TaskBecomes
<1>4. TypeOK'
  BY <1>1, <1>2, <1>3, Types DEF TypeOK, Backfilled
<1>5. /\ Rows' = Rows /\ Committed' = Committed
      /\ UploadsApart' /\ DeletionUnderWay' /\ AckedIsStored'
  BY <1>1, RowsKept
<1>6. BucketsAreApplied' /\ OneRevisionCounts' /\ UncommittedAreNew'
  BY <1>1, SettledKept
<1>7. NoTaskForgotten'
  BY <1>1, <1>2, <1>3, <1>5, Types DEF UsageInv, RowsAreConsistent, NoTaskForgotten
<1>8. ClaimsAreOfRows'
  BY <1>1, <1>5 DEF UsageInv, ClaimsAreOfRows
<1>9. StaleAreCounted'
  <2>1. Stale' \subseteq Stale
    <3> SUFFICES ASSUME NEW k \in claims', task'[k[1]][k[2]] # k[3] PROVE k \in Stale
      BY DEF Stale
    <3>1. CASE k = c
      BY <1>3, <3>1
    <3>2. CASE k \in claims
      <4>1. k[1] \in Events /\ k[2] \in Grains /\ k[3] \in Tokens
        BY <3>2, Types
      <4>2. CASE k[1] = e /\ k[2] = g
        BY <1>1, <3>2, <4>1, <4>2 DEF Stale
      <4>3. CASE k[1] # e \/ k[2] # g
        BY <1>3, <3>2, <4>1, <4>3 DEF Stale
      <4> QED
        BY <4>2, <4>3
    <3> QED
      BY <1>1, <3>1, <3>2
  <2>2. IsFiniteSet(claims')
    BY <1>1, FS_AddElement DEF UsageInv, StaleAreCounted
  <2> QED
    BY <1>1, <2>1, <2>2, StaleKept, MishapsTyped
<1> QED
  BY <1>4, <1>5, <1>6, <1>7, <1>8, <1>9 DEF UsageInv, RowsAreConsistent

\* A task that is not settled becomes runnable again, of a row with a lease; claims
\* may be given up.
LEMMA LeaseEnds ==
    ASSUME UsageInv, NEW e \in Events, NEW g \in Grains, Leased(e, g) ,
           task' = [task EXCEPT ![e][g] = Due],
           claims' \subseteq claims,
           \/ mishaps' = mishaps + 1 /\ mishaps < MaxMishaps
           \/ UNCHANGED mishaps /\ ~Held(e, g),
           UNCHANGED <<id, hash, status, counted, uploads, acked, deletion, misjudged, recounted,
                       deletions>>
    PROVE  UsageInv'
<1>1. /\ task' \in [Events -> [Grains -> Tokens \cup {NoTask, Due}]]
      /\ task'[e][g] = Due
      /\ \A x \in Events, h \in Grains : x # e \/ h # g => task'[x][h] = task[x][h]
  <2>1. TaskBecomes(e, g, Due)
    BY TaskWritten
  <2> QED
    BY <2>1 DEF TaskBecomes
<1>2. mishaps' \in Nat /\ mishaps' <= MaxMishaps /\ mishaps' >= mishaps
  BY MishapsTyped DEF Mishap
<1>3. TypeOK'
  BY <1>1, <1>2, Types DEF TypeOK, Backfilled
<1>4. /\ Rows' = Rows /\ Committed' = Committed
      /\ UploadsApart' /\ DeletionUnderWay' /\ AckedIsStored'
  BY RowsKept
<1>5. BucketsAreApplied' /\ OneRevisionCounts' /\ UncommittedAreNew'
  BY SettledKept
<1>6. NoTaskForgotten'
  <2>1. task[e][g] # NoTask /\ Due # NoTask
    BY DEF Leased
  <2> QED
    BY <1>1, <1>4, <2>1, Types DEF UsageInv, RowsAreConsistent, NoTaskForgotten
<1>7. ClaimsAreOfRows'
  BY <1>4 DEF UsageInv, ClaimsAreOfRows
<1>8. StaleAreCounted'
  <2> DEFINE c == <<e, g, task[e][g]>>
  <2>1. ASSUME NEW k \in Stale' PROVE k \in Stale \cup {c} /\ (k \in Stale \/ Held(e, g))
    <3>1. k \in claims /\ task'[k[1]][k[2]] # k[3]
      BY <2>1 DEF Stale
    <3>2. k[1] \in Events /\ k[2] \in Grains /\ k = <<k[1], k[2], k[3]>>
      BY <3>1, Types
    <3>3. CASE k[1] = e /\ k[2] = g
      BY <3>1, <3>2, <3>3 DEF Stale, Held
    <3>4. CASE k[1] # e \/ k[2] # g
      BY <1>1, <3>1, <3>2, <3>4 DEF Stale
    <3> QED
      BY <3>3, <3>4
  <2>2. IsFiniteSet(claims')
    BY FS_Subset DEF UsageInv, StaleAreCounted
  <2>3. \/ Stale' \subseteq Stale /\ mishaps' >= mishaps
        \/ Stale' \subseteq Stale \cup {c} /\ mishaps' = mishaps + 1
    BY <1>2, <2>1
  <2> HIDE DEF c
  <2> QED
    BY <1>2, <2>2, <2>3, StaleKept
<1> QED
  BY <1>3, <1>4, <1>5, <1>6, <1>7, <1>8 DEF UsageInv, RowsAreConsistent

LEMMA ReclaimKeeps ==
    ASSUME UsageInv, NEW e \in Events, NEW g \in Grains, Reclaim(e, g)
    PROVE  UsageInv'
BY LeaseEnds DEF Reclaim, Mishap, rows, history

LEMMA FailKeeps ==
    ASSUME UsageInv, NEW c \in claims, Fail(c)
    PROVE  UsageInv'
<1>1. c[1] \in Events /\ c[2] \in Grains /\ c[3] \in Tokens
  BY Types
<1>2. Leased(c[1], c[2])
  BY <1>1 DEF Fail, Holds, Leased
<1> QED
  BY <1>1, <1>2, LeaseEnds DEF Fail, Mishap, rows, history

LEMMA GiveUpKeeps ==
    ASSUME UsageInv, NEW c \in claims, GiveUp(c)
    PROVE  UsageInv'
<1>1. /\ claims' \subseteq claims /\ (Mishap \/ UNCHANGED mishaps)
      /\ UNCHANGED <<id, hash, status, task, counted, uploads, acked, deletion, misjudged,
                     recounted, deletions>>
  BY DEF GiveUp, rows, work, history
<1>2. mishaps' \in Nat /\ mishaps' <= MaxMishaps /\ mishaps' >= mishaps
  BY <1>1, MishapsTyped
<1>3. TypeOK'
  BY <1>1, <1>2, Types DEF TypeOK, Backfilled
<1>4. /\ Rows' = Rows /\ Committed' = Committed
      /\ UploadsApart' /\ DeletionUnderWay' /\ AckedIsStored'
  BY <1>1, RowsKept
<1>5. BucketsAreApplied' /\ OneRevisionCounts' /\ UncommittedAreNew'
  BY <1>1, SettledKept
<1>6. NoTaskForgotten' /\ ClaimsAreOfRows'
  BY <1>1, <1>4 DEF UsageInv, RowsAreConsistent, NoTaskForgotten, ClaimsAreOfRows
<1>7. StaleAreCounted'
  <2>1. Stale' \subseteq Stale
    BY <1>1 DEF Stale
  <2>2. IsFiniteSet(claims')
    BY <1>1, FS_Subset DEF UsageInv, StaleAreCounted
  <2> QED
    BY <1>2, <2>1, <2>2, StaleKept
<1> QED
  BY <1>3, <1>4, <1>5, <1>6, <1>7 DEF UsageInv, RowsAreConsistent

\* What the execution of c, for the event e and the grain g, does to the cells.
Effects(c, e, g) ==
    /\ e \in Committed /\ status[e][g] = Pending /\ task[e][g] = c[3]
    /\ status'[e][g] = IF Counts(e, g) THEN Applied ELSE NotApplicable
    /\ counted'[e][g] = IF Counts(e, g) THEN counted[e][g] + 1 ELSE counted[e][g]
    /\ \A x \in Retired(e, g) :
          /\ x \in Committed /\ x # e /\ status[x][g] = Applied
          /\ status'[x][g] = NotApplicable /\ counted'[x][g] = counted[x][g] - 1
    /\ \A x \in Events, h \in Grains :
          h # g \/ (x # e /\ x \notin Retired(e, g))
          => status'[x][h] = status[x][h] /\ counted'[x][h] = counted[x][h]
    /\ status' \in [Events -> [Grains -> Statuses]]
    /\ counted' \in [Events -> [Grains -> Int]]

LEMMA Executed ==
    ASSUME UsageInv, NEW c \in claims, Execute(c), NEW e \in Events, NEW g \in Grains,
           e = c[1], g = c[2]
    PROVE  Effects(c, e, g)
<1>1. e \in Committed /\ task[e][g] = c[3] /\ c[3] \in Tokens
  BY Types DEF Execute, Holds, UsageInv, ClaimsAreOfRows
<1>2. status[e][g] = Pending
  BY <1>1, Types DEF UsageInv, RowsAreConsistent, NoTaskForgotten
<1>3. /\ status' = [x \in Events |-> [h \in Grains |->
             IF h = g /\ x = e THEN IF Counts(e, g) THEN Applied ELSE NotApplicable
             ELSE IF h = g /\ x \in Retired(e, g) THEN NotApplicable ELSE status[x][h]]]
      /\ counted' = [x \in Events |-> [h \in Grains |->
             IF h = g /\ x = e /\ Counts(e, g) THEN counted[x][h] + 1
             ELSE IF h = g /\ x \in Retired(e, g) THEN counted[x][h] - 1
             ELSE counted[x][h]]]
  BY DEF Execute
<1>4. \A x \in Retired(e, g) : x \in Committed /\ x # e /\ status[x][g] = Applied
  BY DEF Retired, Peers
<1>5. status' \in [Events -> [Grains -> Statuses]] /\ counted' \in [Events -> [Grains -> Int]]
  <2>1. \A x \in Events, h \in Grains : status[x][h] \in Statuses /\ counted[x][h] \in Int
    BY CellsTyped
  <2>2. Applied \in Statuses /\ NotApplicable \in Statuses
    BY DEF Statuses
  <2> QED
    BY <1>3, <2>1, <2>2
<1>6. \A x \in Events, h \in Grains :
         /\ status'[x][h] = IF h = g /\ x = e THEN IF Counts(e, g) THEN Applied ELSE NotApplicable
                            ELSE IF h = g /\ x \in Retired(e, g) THEN NotApplicable
                            ELSE status[x][h]
         /\ counted'[x][h] = IF h = g /\ x = e /\ Counts(e, g) THEN counted[x][h] + 1
                             ELSE IF h = g /\ x \in Retired(e, g) THEN counted[x][h] - 1
                             ELSE counted[x][h]
  BY <1>3
<1>7. \A x \in Retired(e, g) : x \in Events
  BY <1>4, Types
<1>8. /\ status'[e][g] = IF Counts(e, g) THEN Applied ELSE NotApplicable
      /\ counted'[e][g] = IF Counts(e, g) THEN counted[e][g] + 1 ELSE counted[e][g]
  BY <1>4, <1>6
<1>9. ASSUME NEW x \in Retired(e, g)
      PROVE  status'[x][g] = NotApplicable /\ counted'[x][g] = counted[x][g] - 1
  BY <1>4, <1>6, <1>7
<1>10. ASSUME NEW x \in Events, NEW h \in Grains, h # g \/ (x # e /\ x \notin Retired(e, g))
       PROVE  status'[x][h] = status[x][h] /\ counted'[x][h] = counted[x][h]
  BY <1>6, <1>10
<1> QED
  BY <1>1, <1>2, <1>4, <1>5, <1>8, <1>9, <1>10 DEF Effects

LEMMA ExecuteKeeps ==
    ASSUME UsageInv, NEW c \in claims, Execute(c)
    PROVE  UsageInv'
<1>1. PICK e \in Events, g \in Grains : e = c[1] /\ g = c[2] /\ c[3] \in Tokens
  BY Types
<1>2. /\ task' = [task EXCEPT ![e][g] = NoTask] /\ claims' = claims \ {c}
      /\ misjudged' = misjudged \cup
             IF /\ EarlierCopies(e) # {}
                /\ EarlierCopies(e) \subseteq OfDevice(deletion.device) \/ Retired(e, g) # {}
             THEN {e} ELSE {}
      /\ UNCHANGED <<id, hash, uploads, acked, deletion, recounted, deletions, mishaps>>
  BY <1>1 DEF Execute, rows
<1>3. /\ e \in Committed /\ status[e][g] = Pending /\ task[e][g] = c[3]
      /\ status'[e][g] = IF Counts(e, g) THEN Applied ELSE NotApplicable
      /\ counted'[e][g] = IF Counts(e, g) THEN counted[e][g] + 1 ELSE counted[e][g]
      /\ \A x \in Retired(e, g) :
            /\ x \in Committed /\ x # e /\ status[x][g] = Applied
            /\ status'[x][g] = NotApplicable /\ counted'[x][g] = counted[x][g] - 1
      /\ \A x \in Events, h \in Grains :
            h # g \/ (x # e /\ x \notin Retired(e, g))
            => status'[x][h] = status[x][h] /\ counted'[x][h] = counted[x][h]
      /\ status' \in [Events -> [Grains -> Statuses]]
      /\ counted' \in [Events -> [Grains -> Int]]
  <2>1. Effects(c, e, g)
    BY <1>1, Executed
  <2> QED
    BY <2>1 DEF Effects
<1>4. /\ task' \in [Events -> [Grains -> Tokens \cup {NoTask, Due}]]
      /\ task'[e][g] = NoTask
      /\ \A x \in Events, h \in Grains : x # e \/ h # g => task'[x][h] = task[x][h]
  <2>1. TaskBecomes(e, g, NoTask)
    BY <1>2, TaskWritten
  <2> QED
    BY <2>1 DEF TaskBecomes
<1>5. TypeOK'
  <2>1. misjudged' \subseteq Events
    BY <1>1, <1>2, Types DEF TypeOK
  <2> QED
    BY <1>2, <1>3, <1>4, <2>1, Types DEF TypeOK, Backfilled, Statuses
<1>6. /\ Rows' = Rows /\ Committed' = Committed
      /\ UploadsApart' /\ DeletionUnderWay' /\ AckedIsStored' /\ recounted' \subseteq Committed'
  BY <1>2, RowsKept
<1>7. BucketsAreApplied'
  <2> SUFFICES ASSUME NEW x \in Events \ recounted, NEW h \in Grains
               PROVE  counted'[x][h] = IF status'[x][h] = Applied THEN 1 ELSE 0
    BY <1>2 DEF BucketsAreApplied
  <2>1. counted[x][h] = IF status[x][h] = Applied THEN 1 ELSE 0
    BY DEF UsageInv, RowsAreConsistent, BucketsAreApplied
  <2>2. CASE h # g \/ (x # e /\ x \notin Retired(e, g))
    BY <1>3, <2>1, <2>2
  <2>3. CASE h = g /\ x = e
    BY <1>3, <2>1, <2>3, StatusesDiffer
  <2>4. CASE h = g /\ x \in Retired(e, g)
    BY <1>3, <2>1, <2>4, StatusesDiffer
  <2> QED
    BY <2>2, <2>3, <2>4
<1>8. UncommittedAreNew'
  <2> SUFFICES ASSUME NEW x \in Events \ Committed, NEW h \in Grains
               PROVE  status'[x][h] = Pending
    BY <1>6 DEF UncommittedAreNew
  <2>1. x # e /\ x \notin Retired(e, g)
    BY <1>3
  <2>2. status'[x][h] = status[x][h]
    BY <1>3, <2>1
  <2> QED
    BY <2>2 DEF UsageInv, UncommittedAreNew
<1>9. OneRevisionCounts'
  <2> SUFFICES ASSUME NEW x \in Rows, NEW y \in Rows, NEW h \in Grains,
                      SameFact(x, y), status'[x][h] = Applied, status'[y][h] = Applied
               PROVE  x = y
    BY <1>6 DEF OneRevisionCounts, SameFact
  <2>1. x \in Events /\ y \in Events
    BY Types
  <2>2. \A z \in Events : status'[z][h] = Applied =>
            status[z][h] = Applied \/ (z = e /\ h = g /\ Counts(e, g))
    BY <1>3, StatusesDiffer
  <2>3. CASE status[x][h] = Applied /\ status[y][h] = Applied
    BY <2>3 DEF UsageInv, OneRevisionCounts
  <2>4. ASSUME h = g, Counts(e, g), NEW z \in Rows, z # e, SameFact(z, e), status'[z][g] = Applied
        PROVE  FALSE
    <3>1. z \in Events /\ status[z][g] = Applied
      BY <1>3, <2>2, <2>4, Types
    <3>2. z \in Committed
      BY <3>1, <1>1, StatusesDiffer DEF UsageInv, UncommittedAreNew
    <3>3. z \in Retired(e, g)
      BY <2>4, <3>1, <3>2 DEF Retired, Peers, Counts
    <3> QED
      BY <1>3, <2>4, <3>3, StatusesDiffer
  <2>5. SameFact(y, x)
    BY DEF SameFact
  <2> QED
    BY <2>1, <2>2, <2>3, <2>4, <2>5
<1>10. NoTaskForgotten'
  <2> SUFFICES ASSUME NEW x \in Rows, NEW h \in Grains
               PROVE  status'[x][h] = Pending <=> task'[x][h] # NoTask
    BY <1>6 DEF NoTaskForgotten
  <2>1. x \in Events /\ (status[x][h] = Pending <=> task[x][h] # NoTask)
    BY Types DEF UsageInv, RowsAreConsistent, NoTaskForgotten
  <2>2. CASE x = e /\ h = g
    BY <1>3, <1>4, <2>2, StatusesDiffer
  <2>3. CASE h = g /\ x \in Retired(e, g)
    BY <1>1, <1>3, <1>4, <2>1, <2>3, StatusesDiffer
  <2>4. CASE h # g \/ (x # e /\ x \notin Retired(e, g))
    BY <1>3, <1>4, <2>1, <2>4
  <2> QED
    BY <2>2, <2>3, <2>4
<1>11. ClaimsAreOfRows'
  BY <1>2, <1>6 DEF UsageInv, ClaimsAreOfRows
<1>12. StaleAreCounted'
  <2>1. Stale' \subseteq Stale
    <3> SUFFICES ASSUME NEW k \in claims', task'[k[1]][k[2]] # k[3] PROVE k \in Stale
      BY DEF Stale
    <3>1. /\ k \in claims /\ k # c /\ k[1] \in Events /\ k[2] \in Grains
          /\ k = <<k[1], k[2], k[3]>> /\ c = <<c[1], c[2], c[3]>>
      BY <1>2, Types
    <3>2. CASE k[1] = e /\ k[2] = g
      BY <1>1, <1>3, <3>1, <3>2 DEF Stale
    <3>3. CASE k[1] # e \/ k[2] # g
      BY <1>4, <3>1, <3>3 DEF Stale
    <3> QED
      BY <3>2, <3>3
  <2>2. IsFiniteSet(claims')
    BY <1>2, FS_Subset DEF UsageInv, StaleAreCounted
  <2> QED
    BY <1>2, <2>1, <2>2, StaleKept, MishapsTyped
<1> QED
  BY <1>5, <1>6, <1>7, <1>8, <1>9, <1>10, <1>11, <1>12 DEF UsageInv, RowsAreConsistent

-----------------------------------------------------------------------------
(* Deletion and backfill.                                                  *)

\* The members of a group are locked, hence committed.
LEMMA MembersAreCommitted ==
    ASSUME UsageInv, NEW e \in Events, \A x \in Group(e) : Unlocked(x)
    PROVE  Group(e) \subseteq Committed
<1> SUFFICES ASSUME NEW x \in Group(e), NEW u \in uploads, x \in u.new PROVE FALSE
  BY DEF Group, Committed
<1>1. DeviceOf[x] = u.device
  BY DEF UsageInv, UploadsApart
<1>2. ~Uploading(DeviceOf[x])
  BY DEF Unlocked
<1> QED
  BY <1>1, <1>2 DEF Uploading

LEMMA BackfillKeeps ==
    ASSUME UsageInv, NEW e \in Events, Backfill(e)
    PROVE  UsageInv'
<1> DEFINE members == Group(e)
           owner == CHOOSE x \in members : \A y \in members : id[x] <= id[y]
           others == {x \in members : FactOf[x] # FactOf[owner]}
<1>1. /\ hash' = [x \in Events |-> IF x \in members /\ hash[x] = NoHash
                     THEN Backfilled(e) ELSE hash[x]]
      /\ status' = [x \in Events |-> [g \in Grains |->
             IF x \in others /\ status[x][g] = Applied THEN NotApplicable ELSE status[x][g]]]
      /\ counted' = [x \in Events |-> [g \in Grains |->
             IF x \in others /\ status[x][g] = Applied THEN counted[x][g] - 1
             ELSE counted[x][g]]]
      /\ misjudged' \subseteq misjudged \cup others
      /\ UNCHANGED <<id, task, uploads, acked, claims, deletion, recounted, deletions, mishaps>>
  BY DEF Backfill
<1>2. others \subseteq Committed /\ others \subseteq Events
  BY Types, MembersAreCommitted DEF Backfill
<1> HIDE DEF others
<1>3. \A x \in Events, g \in Grains :
         \/ status'[x][g] = status[x][g] /\ counted'[x][g] = counted[x][g]
         \/ /\ status[x][g] = Applied /\ status'[x][g] = NotApplicable
            /\ counted'[x][g] = counted[x][g] - 1
  BY <1>1
<1>4. status' \in [Events -> [Grains -> Statuses]] /\ counted' \in [Events -> [Grains -> Int]]
  <2>1. \A x \in Events, h \in Grains : status[x][h] \in Statuses /\ counted[x][h] \in Int
    BY CellsTyped
  <2>2. NotApplicable \in Statuses
    BY DEF Statuses
  <2> QED
    BY <1>1, <2>1, <2>2
<1>5. TypeOK'
  <2>1. misjudged' \subseteq Events
    BY <1>1, <1>2, Types DEF TypeOK
  <2>2. hash' \in [Events -> {NoHash, Zero} \cup {IdentityOf[x] : x \in Events}
                                \cup {<<"backfill", ContentOf[x]>> : x \in Events}]
    BY <1>1, Types DEF TypeOK, Backfilled
  <2> QED
    BY <1>1, <1>4, <2>1, <2>2, Types DEF TypeOK, Backfilled, Statuses
<1>6. /\ Rows' = Rows /\ Committed' = Committed
      /\ UploadsApart' /\ DeletionUnderWay' /\ AckedIsStored' /\ recounted' \subseteq Committed'
  BY <1>1, RowsKept
<1>7. BucketsAreApplied'
  <2> SUFFICES ASSUME NEW x \in Events \ recounted, NEW h \in Grains
               PROVE  counted'[x][h] = IF status'[x][h] = Applied THEN 1 ELSE 0
    BY <1>1 DEF BucketsAreApplied
  <2>1. counted[x][h] = IF status[x][h] = Applied THEN 1 ELSE 0
    BY DEF UsageInv, RowsAreConsistent, BucketsAreApplied
  <2> QED
    BY <1>3, <2>1, StatusesDiffer
<1>8. UncommittedAreNew'
  <2>1. \A x \in Events \ Committed, h \in Grains : status[x][h] = Pending
    BY DEF UsageInv, UncommittedAreNew
  <2> QED
    BY <1>3, <1>6, <2>1, StatusesDiffer DEF UncommittedAreNew
<1>9. OneRevisionCounts'
  <2>1. \A x \in Rows, h \in Grains : status'[x][h] = Applied => status[x][h] = Applied
    BY <1>3, Types, StatusesDiffer
  <2> QED
    BY <1>6, <2>1 DEF UsageInv, OneRevisionCounts, SameFact
<1>10. NoTaskForgotten'
  <2>1. \A x \in Rows, h \in Grains : status'[x][h] = Pending <=> status[x][h] = Pending
    BY <1>3, Types, StatusesDiffer
  <2> QED
    BY <1>1, <1>6, <2>1 DEF UsageInv, RowsAreConsistent, NoTaskForgotten
<1>11. ClaimsAreOfRows' /\ StaleAreCounted'
  BY <1>1, <1>6 DEF UsageInv, ClaimsAreOfRows, StaleAreCounted, Stale
<1> QED
  BY <1>5, <1>6, <1>7, <1>8, <1>9, <1>10, <1>11 DEF UsageInv, RowsAreConsistent

-----------------------------------------------------------------------------
(* Uploads.                                                                *)

\* The pending rows and the tasks an insert, a reset or a rollback writes.
LEMMA CellsPut ==
    ASSUME UsageInv, NEW S \in SUBSET Events
    PROVE  /\ Put(status, S, [g \in Grains |-> Pending]) \in [Events -> [Grains -> Statuses]]
           /\ \A x \in S, g \in Grains : Put(status, S, [h \in Grains |-> Pending])[x][g] = Pending
           /\ \A x \in Events \ S : Put(status, S, [h \in Grains |-> Pending])[x] = status[x]
<1> DEFINE row == [g \in Grains |-> Pending]
<1>1. row \in [Grains -> Statuses] /\ \A g \in Grains : row[g] = Pending
  BY DEF Statuses
<1>2. status \in [Events -> [Grains -> Statuses]]
  BY Types
<1> HIDE DEF row
<1>3. /\ Put(status, S, row) \in [Events -> [Grains -> Statuses]]
      /\ \A x \in S : Put(status, S, row)[x] = row
      /\ \A x \in Events \ S : Put(status, S, row)[x] = status[x]
  BY <1>1, <1>2 DEF Put
<1>4. \A x \in S, g \in Grains : Put(status, S, row)[x][g] = Pending
  BY <1>1, <1>3
<1> QED
  BY <1>3, <1>4 DEF row

LEMMA TasksPut ==
    ASSUME NEW f \in [Events -> [Grains -> Tokens \cup {NoTask, Due}]],
           NEW S \in SUBSET Events, NEW v \in {NoTask, Due}
    PROVE  /\ Put(f, S, [g \in Grains |-> v]) \in [Events -> [Grains -> Tokens \cup {NoTask, Due}]]
           /\ \A x \in S, g \in Grains : Put(f, S, [h \in Grains |-> v])[x][g] = v
           /\ \A x \in Events \ S : Put(f, S, [h \in Grains |-> v])[x] = f[x]
<1> DEFINE row == [g \in Grains |-> v]
<1>1. row \in [Grains -> Tokens \cup {NoTask, Due}] /\ \A g \in Grains : row[g] = v
  OBVIOUS
<1> HIDE DEF row
<1>2. /\ Put(f, S, row) \in [Events -> [Grains -> Tokens \cup {NoTask, Due}]]
      /\ \A x \in S : Put(f, S, row)[x] = row
      /\ \A x \in Events \ S : Put(f, S, row)[x] = f[x]
  BY <1>1 DEF Put
<1>3. \A x \in S, g \in Grains : Put(f, S, row)[x][g] = v
  BY <1>1, <1>2
<1> QED
  BY <1>2, <1>3 DEF row

\* The rank of an event among finitely many.
LEMMA RankTyped ==
    ASSUME NEW new \in SUBSET Events, NEW e \in new
    PROVE  LET n == Cardinality({x \in new : x <= e}) IN n \in Nat /\ n > 0
<1> DEFINE below == {x \in new : x <= e}
<1>1. e \in below
  OBVIOUS
<1>2. IsFiniteSet(below)
  <2>1. below \subseteq Events
    OBVIOUS
  <2> QED
    BY <2>1, FS_Subset
<1> HIDE DEF below
<1>3. Cardinality(below) \in Nat /\ Cardinality(below) # 0
  BY <1>1, <1>2, FS_CardinalityType, FS_EmptySet
<1> QED
  BY <1>3 DEF below

\* The rows an insert adds get ids of their own, above all others.
LEMMA NewIds ==
    ASSUME UsageInv, NEW new \in SUBSET Events, NEW e \in new
    PROVE  LET last == Max({0} \cup {id[x] : x \in Events})
               n == last + Cardinality({x \in new : x <= e})
           IN  n \in Nat /\ n > last
<1> DEFINE last == Max({0} \cup {id[x] : x \in Events})
           rank == Cardinality({x \in new : x <= e})
<1>1. last \in Nat
  BY Types, LastIdTyped DEF TypeOK
<1>2. rank \in Nat /\ rank > 0
  BY RankTyped
<1> HIDE DEF last, rank
<1>3. last + rank \in Nat /\ last + rank > last
  BY <1>1, <1>2
<1> QED
  BY <1>3 DEF last, rank

\* The rows an insert adds, and what it leaves.
Inserts(new, identified) ==
    /\ new \in SUBSET Events /\ new \cap Rows = {} /\ Rows' = Rows \cup new
    /\ Committed' = Committed /\ Committed \cap new = {}
    /\ id' \in [Events -> Nat] /\ status' \in [Events -> [Grains -> Statuses]]
    /\ id' = [e \in Events |-> IF e \in new
          THEN Max({0} \cup {id[x] : x \in Events}) + Cardinality({x \in new : x <= e})
          ELSE id[e]]
    /\ hash' = [e \in Events |-> IF e \in new THEN BatchHash(e, identified) ELSE hash[e]]
    /\ \A e \in new, g \in Grains : status'[e][g] = Pending
    /\ \A e \in Events \ new : status'[e] = status[e]
    /\ UNCHANGED <<counted, deletion, misjudged>>

LEMMA Inserted ==
    ASSUME UsageInv, NEW d \in Devices, NEW batch \in Batches(d),
           NEW identified \in SUBSET batch, InsertBatch(d, batch, identified),
           NEW new, new = batch \ Rows
    PROVE  Inserts(new, identified)
<1> DEFINE last == Max({0} \cup {id[x] : x \in Events})
           u == [device |-> d, new |-> new, batch |-> batch]
<1>1. /\ batch \ Committed = new
      /\ id' = [e \in Events |-> IF e \in new
                 THEN last + Cardinality({x \in new : x <= e}) ELSE id[e]]
      /\ hash' = [e \in Events |-> IF e \in new THEN BatchHash(e, identified) ELSE hash[e]]
      /\ status' = Put(status, new, [g \in Grains |-> Pending])
      /\ uploads' = uploads \cup {u}
      /\ UNCHANGED <<counted, deletion, misjudged>>
  BY DEF InsertBatch, history
<1>2. new \in SUBSET Events /\ new \cap Rows = {} /\ new \cap Committed = {}
  BY Types DEF Batches
<1>3. id' \in [Events -> Nat] /\ (\A e \in new : id'[e] > 0) /\ (\A e \in Events \ new : id'[e] = id[e])
  <2>1. \A e \in new : LET n == last + Cardinality({x \in new : x <= e}) IN n \in Nat /\ n > last
    BY <1>2, NewIds
  <2>3. last \in Nat
    BY Types, LastIdTyped DEF TypeOK
  <2>2. id \in [Events -> Nat]
    BY Types DEF TypeOK
  <2> HIDE DEF last
  <2> QED
    BY <1>1, <1>2, <2>1, <2>2, <2>3
<1>4. Rows' = Rows \cup new
  <2> HIDE DEF last, u
  <2>1. \A e \in Events : id'[e] > 0 <=> id[e] > 0 \/ e \in new
    BY <1>2, <1>3
  <2> QED
    BY <1>2, <2>1 DEF Rows
<1>5. Committed' = Committed
  <2>1. u.new = new
    OBVIOUS
  <2> HIDE DEF u, last
  <2>2. \A e : (\E v \in uploads' : e \in v.new) <=> (\E v \in uploads : e \in v.new) \/ e \in new
    BY <1>1, <2>1
  <2>3. \A e : e \in UNION {v.new : v \in uploads'} <=> e \in UNION {v.new : v \in uploads} \/ e \in new
    BY <2>2
  <2> QED
    BY <1>2, <1>4, <2>3 DEF Committed
<1>6. /\ status' \in [Events -> [Grains -> Statuses]]
      /\ \A x \in new, g \in Grains : status'[x][g] = Pending
      /\ \A x \in Events \ new : status'[x] = status[x]
  <2> HIDE DEF u, last
  <2> QED BY <1>1, <1>2, CellsPut
<1> QED
  BY <1>1, <1>2, <1>3, <1>4, <1>5, <1>6 DEF Inserts

LEMMA InsertBatchKeeps ==
    ASSUME UsageInv, NEW d \in Devices, NEW batch \in Batches(d),
           NEW identified \in SUBSET batch, InsertBatch(d, batch, identified)
    PROVE  UsageInv'
<1>1. PICK new : new = batch \ Rows
  OBVIOUS
<1> DEFINE u == [device |-> d, new |-> new, batch |-> batch]
<1>2. /\ deletion.device # d /\ batch \ Committed = new
      /\ task' = Put(task, new, [g \in Grains |-> Due])
      /\ uploads' = uploads \cup {u}
      /\ UNCHANGED <<counted, acked, claims, deletion, misjudged, recounted, deletions, mishaps>>
  BY <1>1 DEF InsertBatch, history
<1>3. batch \subseteq Events /\ \A e \in batch : DeviceOf[e] = d
  BY DEF Batches
<1>4. Inserts(new, identified)
  BY <1>1, Inserted
<1>5. /\ new \in SUBSET Events /\ new \cap Rows = {} /\ new \cap Committed = {}
      /\ Rows' = Rows \cup new /\ Committed' = Committed /\ id' \in [Events -> Nat]
  BY <1>4 DEF Inserts
<1>6. hash' \in [Events -> Hashes]
  <2>1. hash' = [e \in Events |-> IF e \in new THEN BatchHash(e, identified) ELSE hash[e]]
    BY <1>4 DEF Inserts
  <2> QED
    BY <2>1, Types DEF TypeOK, Hashes, BatchHash
<1>7. /\ status' \in [Events -> [Grains -> Statuses]]
      /\ \A x \in new, g \in Grains : status'[x][g] = Pending
      /\ \A x \in Events \ new : status'[x] = status[x]
  BY <1>4 DEF Inserts
<1>8. /\ task' \in [Events -> [Grains -> Tokens \cup {NoTask, Due}]]
      /\ \A x \in new, g \in Grains : task'[x][g] = Due
      /\ \A x \in Events \ new : task'[x] = task[x]
  <2>1. task \in [Events -> [Grains -> Tokens \cup {NoTask, Due}]]
    BY Types
  <2> QED BY <1>2, <1>5, <2>1, TasksPut
<1>9. TypeOK'
  <2>1. u \in Uploads
    BY <1>3, <1>5 DEF Uploads
  <2> HIDE DEF u
  <2> QED
    BY <1>2, <1>5, <1>6, <1>7, <1>8, <2>1, Types DEF TypeOK, Hashes, Backfilled, Uploads, Statuses
<1>10. BucketsAreApplied'
  <2> SUFFICES ASSUME NEW e \in Events \ recounted, NEW g \in Grains
               PROVE  counted[e][g] = IF status'[e][g] = Applied THEN 1 ELSE 0
    BY <1>2 DEF BucketsAreApplied
  <2>1. counted[e][g] = IF status[e][g] = Applied THEN 1 ELSE 0
    BY DEF UsageInv, RowsAreConsistent, BucketsAreApplied
  <2>2. CASE e \in new
    BY <1>5, <1>7, <2>1, <2>2 DEF UsageInv, UncommittedAreNew
  <2> QED
    BY <1>7, <2>1, <2>2
<1>11. NoTaskForgotten'
  <2> SUFFICES ASSUME NEW e \in Rows', NEW g \in Grains
               PROVE  status'[e][g] = Pending <=> task'[e][g] # NoTask
    BY DEF NoTaskForgotten
  <2>1. CASE e \in new
    BY <1>7, <1>8, <2>1
  <2>2. CASE e \notin new
    <3>1. e \in Rows /\ e \in Events
      BY <1>5, <2>2, Types
    <3>2. status[e][g] = Pending <=> task[e][g] # NoTask
      BY <3>1 DEF UsageInv, RowsAreConsistent, NoTaskForgotten
    <3> QED
      BY <1>7, <1>8, <2>2, <3>1, <3>2
  <2> QED
    BY <2>1, <2>2
<1>12. AckedIsStored' /\ ClaimsAreOfRows' /\ DeletionUnderWay'
  BY <1>2, <1>5 DEF UsageInv, RowsAreConsistent, AckedIsStored, ClaimsAreOfRows,
                     DeletionUnderWay, NoDeletion
<1>13. OneRevisionCounts'
  <2> SUFFICES ASSUME NEW x \in Rows', NEW e \in Rows', NEW g \in Grains, SameFact(x, e),
                      status'[x][g] = Applied, status'[e][g] = Applied
               PROVE  x = e
    BY DEF OneRevisionCounts, SameFact
  <2>1. x \notin new /\ e \notin new
    BY <1>7, StatusesDiffer
  <2>2. x \in Rows /\ e \in Rows /\ x \in Events /\ e \in Events
    BY <1>5, <2>1, Types
  <2>3. status[x][g] = Applied /\ status[e][g] = Applied
    BY <1>7, <2>1, <2>2
  <2> QED
    BY <2>2, <2>3 DEF UsageInv, OneRevisionCounts
<1>14. UncommittedAreNew'
  <2>1. \A e \in Events \ Committed, g \in Grains : status[e][g] = Pending
    BY DEF UsageInv, UncommittedAreNew
  <2>2. \A e \in Events \ Committed, g \in Grains : status'[e][g] = Pending
    BY <1>7, <2>1
  <2>3. recounted' \subseteq Committed'
    BY <1>2, <1>5 DEF UsageInv, UncommittedAreNew
  <2> QED
    BY <1>5, <2>2, <2>3 DEF UncommittedAreNew
<1>15. StaleAreCounted'
  <2>1. Stale' \subseteq Stale
    <3> SUFFICES ASSUME NEW k \in claims, task'[k[1]][k[2]] # k[3] PROVE k \in Stale
      BY <1>2 DEF Stale
    <3>1. k[1] \in Committed /\ k[1] \in Events
      BY Types DEF UsageInv, ClaimsAreOfRows
    <3> QED
      BY <1>5, <1>8, <3>1 DEF Stale
  <2>2. IsFiniteSet(claims')
    BY <1>2 DEF UsageInv, StaleAreCounted
  <2> QED
    BY <1>2, <2>1, <2>2, StaleKept, MishapsTyped
<1>16. UploadsApart'
  <2>1. /\ u.new = new /\ u.batch = batch /\ u.device = d
    OBVIOUS
  <2> HIDE DEF u
  <2>2. \A v \in uploads : v.new \cap new = {}
    BY <1>5 DEF UsageInv, UploadsApart
  <2>3. /\ new \subseteq Rows' /\ new \subseteq batch /\ batch \ new \subseteq Committed'
        /\ d # deletion'.device
    BY <1>2, <1>5
  <2>4. \A v \in uploads' :
           /\ v.new \subseteq Rows' /\ v.new \subseteq v.batch /\ v.batch \ v.new \subseteq Committed'
           /\ \A e \in v.batch : DeviceOf[e] = v.device
           /\ v.device # deletion'.device
    BY <1>2, <1>3, <1>5, <2>1, <2>3 DEF UsageInv, UploadsApart
  <2>5. \A v, w \in uploads' : v # w => v.new \cap w.new = {}
    BY <1>2, <2>1, <2>2 DEF UsageInv, UploadsApart
  <2> QED
    BY <2>4, <2>5 DEF UploadsApart
<1> QED
  BY <1>9, <1>10, <1>11, <1>12, <1>13, <1>14, <1>15, <1>16 DEF UsageInv, RowsAreConsistent

LEMMA CommitBatchKeeps ==
    ASSUME UsageInv, NEW u \in uploads, CommitBatch(u)
    PROVE  UsageInv'
<1>1. /\ uploads' = uploads \ {u}
      /\ acked' \subseteq acked \cup u.batch /\ (Mishap \/ UNCHANGED mishaps)
      /\ misjudged' = misjudged \cup Overtaken(u.new)
      /\ UNCHANGED <<id, hash, status, task, counted, claims, deletion, recounted, deletions>>
  BY DEF CommitBatch, rows, work
<1>2. /\ u.new \subseteq Rows /\ u.batch \ u.new \subseteq Committed /\ u.batch \subseteq Events
      /\ \A v \in uploads : v # u => u.new \cap v.new = {}
  BY Types DEF UsageInv, UploadsApart, Uploads
<1>3. Rows' = Rows
  BY <1>1 DEF Rows
<1>4. Committed' = Committed \cup u.new
  BY <1>1, <1>2, <1>3 DEF Committed
<1>5. mishaps' \in Nat /\ mishaps' <= MaxMishaps /\ mishaps' >= mishaps
  BY <1>1, MishapsTyped
<1>6. TypeOK'
  <2>1. acked' \subseteq Events
    BY <1>1, <1>2, Types DEF TypeOK
  <2>2. misjudged' \subseteq Events
    BY <1>1, Types DEF TypeOK, Overtaken
  <2> QED
    BY <1>1, <1>5, <2>1, <2>2, Types DEF TypeOK, Backfilled
<1>7. BucketsAreApplied' /\ NoTaskForgotten' /\ OneRevisionCounts' /\ DeletionUnderWay'
  BY <1>1, <1>3 DEF UsageInv, RowsAreConsistent, BucketsAreApplied, NoTaskForgotten,
                    OneRevisionCounts, SameFact, DeletionUnderWay, NoDeletion
<1>8. AckedIsStored' /\ ClaimsAreOfRows' /\ UncommittedAreNew'
  BY <1>1, <1>2, <1>4 DEF UsageInv, RowsAreConsistent, AckedIsStored, ClaimsAreOfRows,
                          UncommittedAreNew
<1>9. StaleAreCounted'
  BY <1>1, <1>5, StaleKept DEF UsageInv, StaleAreCounted, Stale
<1>10. UploadsApart'
  BY <1>1, <1>3, <1>4 DEF UsageInv, UploadsApart
<1> QED
  BY <1>6, <1>7, <1>8, <1>9, <1>10 DEF UsageInv, RowsAreConsistent

LEMMA AbortBatchKeeps ==
    ASSUME UsageInv, NEW u \in uploads, AbortBatch(u)
    PROVE  UsageInv'
<1>1. /\ uploads' = uploads \ {u} /\ Mishap
      /\ id' = Put(id, u.new, 0) /\ hash' = Put(hash, u.new, NoHash)
      /\ task' = Put(task, u.new, [g \in Grains |-> NoTask])
      /\ UNCHANGED <<status, counted, acked, claims, deletion, misjudged, recounted, deletions>>
  BY DEF AbortBatch, history
<1>2. /\ u.new \in SUBSET Events /\ u.new \subseteq Rows /\ u.new \cap Committed = {}
      /\ \A v \in uploads : v # u => u.new \cap v.new = {}
  BY Types DEF UsageInv, UploadsApart, Committed
<1>3. /\ id' \in [Events -> Nat] /\ (\A e \in u.new : id'[e] = 0)
      /\ \A e \in Events \ u.new : id'[e] = id[e]
  BY <1>1, <1>2, Types DEF TypeOK, Put
<1>4. hash' \in [Events -> Hashes]
  <2>1. hash \in [Events -> Hashes] /\ NoHash \in Hashes
    BY Types DEF TypeOK, Hashes
  <2> QED
    BY <1>1, <1>2, <2>1 DEF Put
<1>5. /\ task' \in [Events -> [Grains -> Tokens \cup {NoTask, Due}]]
      /\ \A x \in Events \ u.new : task'[x] = task[x]
  <2>1. task \in [Events -> [Grains -> Tokens \cup {NoTask, Due}]]
    BY Types
  <2>2. PICK v \in {NoTask, Due} : v = NoTask
    OBVIOUS
  <2>3. task' = Put(task, u.new, [g \in Grains |-> v])
    BY <1>1, <2>2
  <2> QED
    BY <1>2, <2>1, <2>2, <2>3, TasksPut
<1>6. Rows' = Rows \ u.new
  <2> DEFINE new == u.new
  <2>1. (\A e \in new : id'[e] = 0) /\ \A e \in Events \ new : id'[e] = id[e]
    BY <1>3
  <2> HIDE DEF new
  <2>2. \A e \in Events : id'[e] > 0 <=> id[e] > 0 /\ e \notin new
    BY <2>1
  <2>3. Rows' = Rows \ new
    BY <2>2 DEF Rows
  <2> QED
    BY <2>3 DEF new
<1>7. Committed' = Committed
  BY <1>1, <1>2, <1>6 DEF Committed
<1>8. mishaps' \in Nat /\ mishaps' <= MaxMishaps /\ mishaps' >= mishaps
  BY <1>1, MishapsTyped
<1>9. TypeOK'
  BY <1>1, <1>3, <1>4, <1>5, <1>8, Types DEF TypeOK, Hashes, Backfilled
<1>10. BucketsAreApplied' /\ DeletionUnderWay' /\ AckedIsStored' /\ ClaimsAreOfRows'
       /\ UncommittedAreNew'
  BY <1>1, <1>7 DEF UsageInv, RowsAreConsistent, BucketsAreApplied, DeletionUnderWay, NoDeletion,
                    AckedIsStored, ClaimsAreOfRows, UncommittedAreNew
<1>11. NoTaskForgotten'
  <2>1. \A e \in Rows' : e \in Rows /\ task'[e] = task[e] /\ status'[e] = status[e]
    BY <1>1, <1>5, <1>6, Types
  <2> QED
    BY <2>1 DEF UsageInv, RowsAreConsistent, NoTaskForgotten
<1>14. OneRevisionCounts'
  BY <1>1, <1>6 DEF UsageInv, OneRevisionCounts, SameFact
<1>12. StaleAreCounted'
  <2>1. Stale' \subseteq Stale
    <3> SUFFICES ASSUME NEW k \in claims, task'[k[1]][k[2]] # k[3] PROVE k \in Stale
      BY <1>1 DEF Stale
    <3>1. k[1] \in Events \ u.new
      BY <1>2, Types DEF UsageInv, ClaimsAreOfRows
    <3> QED
      BY <1>5, <3>1 DEF Stale
  <2> QED
    BY <1>1, <1>8, <2>1, StaleKept DEF UsageInv, StaleAreCounted
<1>13. UploadsApart'
  BY <1>1, <1>2, <1>6, <1>7 DEF UsageInv, UploadsApart
<1> QED
  BY <1>9, <1>10, <1>11, <1>12, <1>13, <1>14 DEF UsageInv, RowsAreConsistent

-----------------------------------------------------------------------------
(* Deletion.                                                               *)

LEMMA DeletionStartsKeeps ==
    ASSUME UsageInv, NEW d \in Devices, DeletionStarts(d)
    PROVE  UsageInv'
<1> DEFINE chosen == Reopenable(OfDevice(d))
<1>1. /\ deletions' = deletions + 1 /\ ~Uploading(d)
      /\ deletion' = [device |-> d, reopen |-> chosen]
      /\ UNCHANGED <<id, hash, status, task, counted, uploads, acked, claims, misjudged, recounted,
                     mishaps>>
  BY DEF DeletionStarts, rows, work, history
<1>2. chosen \in SUBSET Events /\ \A e \in chosen : DeviceOf[e] # d
  BY Types DEF Reopenable, OfDevice
<1> HIDE DEF chosen
<1>3. Rows' = Rows /\ Committed' = Committed
  BY <1>1 DEF Rows, Committed
<1>4. deletions \in Nat
  BY Types DEF TypeOK
<1>5. TypeOK'
  BY <1>1, <1>2, <1>4, Types DEF TypeOK, Backfilled
<1>6. BucketsAreApplied' /\ NoTaskForgotten' /\ OneRevisionCounts' /\ AckedIsStored'
      /\ ClaimsAreOfRows' /\ UncommittedAreNew' /\ StaleAreCounted'
  <2>1. BucketsAreApplied' /\ OneRevisionCounts'
    BY <1>1, <1>3 DEF UsageInv, RowsAreConsistent, BucketsAreApplied, OneRevisionCounts, SameFact
  <2>2. NoTaskForgotten' /\ AckedIsStored' /\ ClaimsAreOfRows'
    BY <1>1, <1>3 DEF UsageInv, RowsAreConsistent, NoTaskForgotten, AckedIsStored, ClaimsAreOfRows
  <2>3. UncommittedAreNew' /\ StaleAreCounted'
    BY <1>1, <1>3 DEF UsageInv, UncommittedAreNew, StaleAreCounted, Stale
  <2> QED
    BY <2>1, <2>2, <2>3
<1>7. UploadsApart'
  BY <1>1, <1>3 DEF UsageInv, UploadsApart, Uploading
<1>8. DeletionUnderWay'
  BY <1>1, <1>2, <1>4 DEF DeletionUnderWay
<1> QED
  BY <1>5, <1>6, <1>7, <1>8 DEF UsageInv, RowsAreConsistent

LEMMA DeletionFailsKeeps ==
    ASSUME UsageInv, DeletionFails
    PROVE  UsageInv'
<1>1. /\ deletion # NoDeletion /\ deletion' = NoDeletion /\ deletions' = deletions - 1
      /\ UNCHANGED <<id, hash, status, task, counted, uploads, acked, claims, misjudged, recounted,
                     mishaps>>
  BY DEF DeletionFails, rows, work, history
<1>2. Rows' = Rows /\ Committed' = Committed
  BY <1>1 DEF Rows, Committed
<1>3. deletions' \in Nat
  BY <1>1, Types DEF UsageInv, DeletionUnderWay, TypeOK
<1>4. TypeOK'
  <2>1. deletion' \in [device : Devices \cup {NoDevice}, reopen : SUBSET Events]
    BY <1>1 DEF NoDeletion
  <2> QED
    BY <1>1, <1>3, <2>1, Types DEF TypeOK, Backfilled
<1>5. BucketsAreApplied' /\ NoTaskForgotten' /\ OneRevisionCounts' /\ AckedIsStored'
      /\ ClaimsAreOfRows' /\ UncommittedAreNew' /\ StaleAreCounted'
  <2>1. BucketsAreApplied' /\ OneRevisionCounts'
    BY <1>1, <1>2 DEF UsageInv, RowsAreConsistent, BucketsAreApplied, OneRevisionCounts, SameFact
  <2>2. NoTaskForgotten' /\ AckedIsStored' /\ ClaimsAreOfRows'
    BY <1>1, <1>2 DEF UsageInv, RowsAreConsistent, NoTaskForgotten, AckedIsStored, ClaimsAreOfRows
  <2>3. UncommittedAreNew' /\ StaleAreCounted'
    BY <1>1, <1>2 DEF UsageInv, UncommittedAreNew, StaleAreCounted, Stale
  <2> QED
    BY <2>1, <2>2, <2>3
<1>6. UploadsApart'
  <2>1. \A u \in uploads : u.device # NoDevice
    BY Types DEF Uploads
  <2> QED
    BY <1>1, <1>2, <2>1 DEF UsageInv, UploadsApart, NoDeletion
<1>7. DeletionUnderWay'
  BY <1>1 DEF DeletionUnderWay, NoDeletion
<1> QED
  BY <1>4, <1>5, <1>6, <1>7 DEF UsageInv, RowsAreConsistent

\* The rows a deletion removes, those it resets, and what it leaves.
Deletes(gone, reopen) ==
    /\ gone \in SUBSET Events /\ gone \subseteq Committed /\ reopen \in SUBSET Events
    /\ gone \cap reopen = {}
    /\ \A e \in Committed : e \in gone <=> DeviceOf[e] = deletion.device
    /\ Rows' = Rows \ gone /\ Committed' = Committed \ gone
    /\ id' \in [Events -> Nat] /\ hash' \in [Events -> Hashes]
    /\ (\A e \in gone : id'[e] = 0) /\ \A e \in Events \ gone : id'[e] = id[e]
    /\ (\A e \in gone : hash'[e] = NoHash) /\ \A e \in Events \ gone : hash'[e] = hash[e]
    /\ status' \in [Events -> [Grains -> Statuses]]
    /\ \A x \in gone \cup reopen, g \in Grains : status'[x][g] = Pending
    /\ \A x \in Events \ (gone \cup reopen) : status'[x] = status[x]
    /\ counted' \in [Events -> [Grains -> Int]]
    /\ \A x \in gone, g \in Grains : counted'[x][g] = 0
    /\ \A x \in Events \ gone : counted'[x] = counted[x]

LEMMA Deleted ==
    ASSUME UsageInv, DeletionCommits, NEW gone, gone = OfDevice(deletion.device),
           NEW reopen, reopen = deletion.reopen
    PROVE  Deletes(gone, reopen)
<1>1. /\ deletion # NoDeletion
      /\ id' = Put(id, gone, 0) /\ hash' = Put(hash, gone, NoHash)
      /\ status' = Put(status, gone \cup reopen, [g \in Grains |-> Pending])
      /\ counted' = Put(counted, gone, [g \in Grains |-> 0])
      /\ UNCHANGED uploads
  BY DEF DeletionCommits
<1>2. /\ gone \subseteq Committed /\ gone \in SUBSET Events /\ reopen \in SUBSET Events
      /\ gone \cup reopen \in SUBSET Events
      /\ \A e \in Committed : e \in gone <=> DeviceOf[e] = deletion.device
      /\ gone \cap reopen = {}
  <2>1. gone \subseteq Committed /\ \A e \in Committed : e \in gone <=> DeviceOf[e] = deletion.device
    BY DEF OfDevice
  <2>2. reopen \in SUBSET Events
    BY Types DEF TypeOK
  <2>3. \A e \in reopen : DeviceOf[e] # deletion.device
    BY <1>1 DEF UsageInv, DeletionUnderWay
  <2> QED
    BY <2>1, <2>2, <2>3, Types
<1>3. /\ id' \in [Events -> Nat] /\ (\A e \in gone : id'[e] = 0)
      /\ \A e \in Events \ gone : id'[e] = id[e]
  BY <1>1, <1>2, Types DEF TypeOK, Put
<1>4. /\ hash' \in [Events -> Hashes] /\ (\A e \in gone : hash'[e] = NoHash)
      /\ \A e \in Events \ gone : hash'[e] = hash[e]
  <2>1. hash \in [Events -> Hashes] /\ NoHash \in Hashes
    BY Types DEF TypeOK, Hashes
  <2> QED
    BY <1>1, <1>2, <2>1 DEF Put
<1>5. /\ status' \in [Events -> [Grains -> Statuses]]
      /\ \A x \in gone \cup reopen, g \in Grains : status'[x][g] = Pending
      /\ \A x \in Events \ (gone \cup reopen) : status'[x] = status[x]
  BY <1>1, <1>2, CellsPut
<1>6. /\ counted' \in [Events -> [Grains -> Int]]
      /\ \A x \in gone, g \in Grains : counted'[x][g] = 0
      /\ \A x \in Events \ gone : counted'[x] = counted[x]
  <2> DEFINE row == [g \in Grains |-> 0]
  <2>1. row \in [Grains -> Int] /\ (\A g \in Grains : row[g] = 0) /\ counted' = Put(counted, gone, row)
    BY <1>1
  <2>2. counted \in [Events -> [Grains -> Int]]
    BY Types
  <2> HIDE DEF row
  <2>3. /\ counted' \in [Events -> [Grains -> Int]]
        /\ \A x \in gone : counted'[x] = row
        /\ \A x \in Events \ gone : counted'[x] = counted[x]
    BY <1>2, <2>1, <2>2 DEF Put
  <2> QED
    BY <2>1, <2>3
<1>7. Rows' = Rows \ gone
  <2>1. \A e \in Events : id'[e] > 0 <=> id[e] > 0 /\ e \notin gone
    BY <1>3
  <2> QED
    BY <2>1 DEF Rows
<1>8. Committed' = Committed \ gone
  BY <1>1, <1>7 DEF Committed
<1> QED
  BY <1>2, <1>3, <1>4, <1>5, <1>6, <1>7, <1>8 DEF Deletes

LEMMA DeletionCommitsKeeps ==
    ASSUME UsageInv, DeletionCommits
    PROVE  UsageInv'
<1>1. PICK gone, reopen : gone = OfDevice(deletion.device) /\ reopen = deletion.reopen
  OBVIOUS
<1>2. /\ deletion # NoDeletion
      /\ \A e \in reopen, g \in Grains : ~Leased(e, g)
      /\ task' = Put(Put(task, gone, [g \in Grains |-> NoTask]), reopen, [g \in Grains |-> Due])
      /\ claims' = {c \in claims : c[1] \notin gone}
      /\ acked' = acked \ gone
      /\ misjudged' = (misjudged \cup Stranded(gone, reopen)) \ gone
      /\ recounted' = (recounted \cup Recounted(reopen)) \ gone
      /\ deletion' = NoDeletion
      /\ UNCHANGED <<uploads, deletions, mishaps>>
  BY <1>1 DEF DeletionCommits
<1>3. Deletes(gone, reopen)
  BY <1>1, Deleted
<1>4. /\ gone \in SUBSET Events /\ gone \subseteq Committed /\ reopen \in SUBSET Events
      /\ gone \cap reopen = {} /\ \A e \in gone : DeviceOf[e] = deletion.device
  BY <1>3 DEF Deletes
<1>5. /\ status' \in [Events -> [Grains -> Statuses]]
      /\ \A x \in gone \cup reopen, g \in Grains : status'[x][g] = Pending
      /\ \A x \in Events \ (gone \cup reopen) : status'[x] = status[x]
  BY <1>3 DEF Deletes
<1>6. /\ task' \in [Events -> [Grains -> Tokens \cup {NoTask, Due}]]
      /\ \A x \in reopen, g \in Grains : task'[x][g] = Due
      /\ \A x \in Events \ (gone \cup reopen) : task'[x] = task[x]
  <2> DEFINE f == Put(task, gone, [g \in Grains |-> NoTask])
  <2>1. task \in [Events -> [Grains -> Tokens \cup {NoTask, Due}]]
    BY Types
  <2>2. PICK v \in {NoTask, Due} : v = NoTask
    OBVIOUS
  <2>3. PICK w \in {NoTask, Due} : w = Due
    OBVIOUS
  <2>4. f = Put(task, gone, [g \in Grains |-> v])
    BY <2>2
  <2>5. task' = Put(f, reopen, [g \in Grains |-> w])
    BY <1>2, <2>3
  <2> HIDE DEF f
  <2>6. /\ f \in [Events -> [Grains -> Tokens \cup {NoTask, Due}]]
        /\ \A x \in Events \ gone : f[x] = task[x]
    BY <1>4, <2>1, <2>2, <2>4, TasksPut
  <2>7. /\ task' \in [Events -> [Grains -> Tokens \cup {NoTask, Due}]]
        /\ \A x \in reopen, g \in Grains : task'[x][g] = w
        /\ \A x \in Events \ reopen : task'[x] = f[x]
    BY <1>4, <2>3, <2>5, <2>6, TasksPut
  <2> QED
    BY <2>3, <2>6, <2>7
<1>7. /\ counted' \in [Events -> [Grains -> Int]]
      /\ \A x \in gone, g \in Grains : counted'[x][g] = 0
      /\ \A x \in Events \ gone : counted'[x] = counted[x]
  BY <1>3 DEF Deletes
<1>8. Rows' = Rows \ gone /\ id' \in [Events -> Nat] /\ hash' \in [Events -> Hashes]
  BY <1>3 DEF Deletes
<1>9. Committed' = Committed \ gone
  BY <1>3 DEF Deletes
<1>10. TypeOK'
  <2>1. deletion' \in [device : Devices \cup {NoDevice}, reopen : SUBSET Events]
    BY <1>2 DEF NoDeletion
  <2>2. misjudged' \subseteq Events /\ recounted' \subseteq Events
    BY <1>2, <1>4, Types DEF TypeOK, Stranded, Recounted
  <2>3. claims' \subseteq Events \X Grains \X Tokens /\ acked' \subseteq Events
    BY <1>2, Types DEF TypeOK
  <2> QED
    BY <1>2, <1>8, <1>5, <1>6, <1>7, <2>1, <2>2, <2>3, Types
    DEF TypeOK, Hashes, Backfilled, Statuses
<1>11. BucketsAreApplied'
  <2> SUFFICES ASSUME NEW e \in Events \ recounted', NEW g \in Grains
               PROVE  counted'[e][g] = IF status'[e][g] = Applied THEN 1 ELSE 0
    BY DEF BucketsAreApplied
  <2>1. CASE e \in gone
    BY <1>5, <1>7, <2>1, StatusesDiffer
  <2>2. CASE e \notin gone
    <3>1. e \notin recounted /\ e \notin Recounted(reopen)
      BY <1>2, <2>2
    <3>2. counted[e][g] = IF status[e][g] = Applied THEN 1 ELSE 0
      BY <3>1 DEF UsageInv, RowsAreConsistent, BucketsAreApplied
    <3>3. e \in reopen => status[e][g] # Applied
      BY <3>1 DEF Recounted
    <3> QED
      BY <1>5, <1>7, <2>2, <3>2, <3>3, StatusesDiffer
  <2> QED
    BY <2>1, <2>2
<1>12. NoTaskForgotten'
  <2> SUFFICES ASSUME NEW e \in Rows', NEW g \in Grains
               PROVE  status'[e][g] = Pending <=> task'[e][g] # NoTask
    BY DEF NoTaskForgotten
  <2>1. e \in Rows /\ e \in Events /\ e \notin gone
    BY <1>8, Types
  <2>2. status[e][g] = Pending <=> task[e][g] # NoTask
    BY <2>1 DEF UsageInv, RowsAreConsistent, NoTaskForgotten
  <2>3. CASE e \in reopen
    BY <1>5, <1>6, <2>3
  <2>4. CASE e \notin reopen
    BY <1>5, <1>6, <2>1, <2>2, <2>4
  <2> QED
    BY <2>3, <2>4
<1>13. OneRevisionCounts'
  <2>1. \A x \in Rows', g \in Grains : status'[x][g] = Applied => x \in Rows /\ status[x][g] = Applied
    BY <1>5, <1>8, Types, StatusesDiffer
  <2> QED
    BY <2>1 DEF UsageInv, OneRevisionCounts, SameFact
<1>14. AckedIsStored' /\ ClaimsAreOfRows'
  BY <1>2, <1>9 DEF UsageInv, RowsAreConsistent, AckedIsStored, ClaimsAreOfRows
<1>15. UncommittedAreNew'
  <2>1. \A e \in Recounted(reopen) : e \in Committed
    BY <1>4, StatusesDiffer DEF Recounted, UsageInv, UncommittedAreNew
  <2>2. \A e \in Events \ Committed', g \in Grains : status'[e][g] = Pending
    BY <1>5, <1>9 DEF UsageInv, UncommittedAreNew
  <2> QED
    BY <1>2, <1>9, <2>1, <2>2 DEF UsageInv, UncommittedAreNew
<1>16. StaleAreCounted'
  <2>1. Stale' \subseteq Stale
    <3> SUFFICES ASSUME NEW k \in claims, k[1] \notin gone, task'[k[1]][k[2]] # k[3] PROVE k \in Stale
      BY <1>2 DEF Stale
    <3>1. k[1] \in Events /\ k[2] \in Grains /\ k[3] \in Tokens
      BY Types
    <3>2. CASE k[1] \in reopen
      BY <1>2, <3>1, <3>2 DEF Stale, Leased
    <3>3. CASE k[1] \notin reopen
      BY <1>6, <3>1, <3>3 DEF Stale
    <3> QED
      BY <3>2, <3>3
  <2>2. IsFiniteSet(claims')
    BY <1>2, FS_Subset DEF UsageInv, StaleAreCounted
  <2> QED
    BY <1>2, <2>1, <2>2, StaleKept, MishapsTyped
<1>17. UploadsApart'
  <2>1. \A u \in uploads :
           /\ u.device # NoDevice /\ u.new \cap Committed = {}
           /\ u.device # deletion.device /\ \A e \in u.batch : DeviceOf[e] = u.device
    BY Types DEF UsageInv, UploadsApart, Uploads, Committed
  <2>2. \A u \in uploads : u.batch \cap gone = {}
    BY <1>4, <2>1
  <2>3. deletion'.device = NoDevice
    BY <1>2 DEF NoDeletion
  <2> QED
    BY <1>2, <1>4, <1>8, <1>9, <2>1, <2>2, <2>3 DEF UsageInv, UploadsApart
<1>18. DeletionUnderWay'
  BY <1>2 DEF DeletionUnderWay, NoDeletion
<1> QED
  BY <1>10, <1>11, <1>12, <1>13, <1>14, <1>15, <1>16, <1>17, <1>18 DEF UsageInv, RowsAreConsistent

-----------------------------------------------------------------------------
(* Copies of a usage: what the order of the row ids decides.               *)

OwnHashes ==
    \A e \in Events : hash[e] \in {NoHash, Zero, IdentityOf[e], Backfilled(e)}
IdsApart == \A x, e \in Rows : id[x] = id[e] => x = e
AppliedIsCounted ==
    \A e \in Events, g \in Grains :
        counted[e][g] >= 0 /\ (status[e][g] = Applied => counted[e][g] > 0)

\* A row that applies has no earlier copy, but those that became visible late and
\* those that came between the revisions of its fact.
AppliedIsFirst ==
    \A e \in Committed, g \in Grains : \A x \in EarlierCopies(e) :
        status[e][g] = Applied => e \in misjudged \/ Straddled(e, x)

\* y and m can no longer come to have the same hash.
Apart(y, m) ==
    /\ hash[y] # NoHash /\ hash[y] # hash[m]
    /\ hash[m] = NoHash => hash[y] # Backfilled(m)

\* A revision of the fact of m counts, was misjudged or has a hash of its own.
Explained(m, g) ==
    \E y \in Committed :
        SameFact(y, m) /\ (counted[y][g] > 0 \/ y \in misjudged \/ Apart(y, m))
ShadowedForAReason ==
    \A m \in Committed, g \in Grains :
        status[m][g] = NotApplicable => EarlierCopies(m) # {} \/ Explained(m, g)

\* A deletion reopens what only its device shadows, unless the fact counts.
CountsSomewhere(m) ==
    \E y \in Committed, h \in Grains : SameFact(y, m) /\ status[y][h] = Applied
DeletionReopens ==
    deletion # NoDeletion =>
        \A m \in Committed \ deletion.reopen, g \in Grains :
            /\ DeviceOf[m] # deletion.device /\ status[m][g] = NotApplicable
            /\ EarlierCopies(m) \subseteq OfDevice(deletion.device)
            => Explained(m, g) \/ CountsSomewhere(m)

CellsInv == OwnHashes /\ IdsApart /\ AppliedIsCounted
ShadowsInv == AppliedIsFirst /\ ShadowedForAReason /\ DeletionReopens
CopiesInv == CellsInv /\ ShadowsInv

LEMMA InitCopies == Init => CopiesInv
<1> SUFFICES ASSUME Init PROVE CopiesInv
  OBVIOUS
<1>1. Rows = {} /\ Committed = {}
  BY DEF Init, Rows, Committed
<1>2. CellsInv
  BY <1>1, StatusesDiffer DEF Init, CellsInv, OwnHashes, IdsApart, AppliedIsCounted
<1>3. ShadowsInv
  BY <1>1 DEF Init, ShadowsInv, AppliedIsFirst, ShadowedForAReason, DeletionReopens, NoDeletion
<1> QED
  BY <1>2, <1>3 DEF CopiesInv

\* Steps that show other transactions the same rows, settled as they were.
LEMMA ViewKept ==
    ASSUME ShadowsInv, Committed' = Committed,
           \A e \in Committed : id'[e] = id[e] /\ hash'[e] = hash[e] /\ status'[e] = status[e],
           UNCHANGED <<counted, misjudged>>
    PROVE  /\ AppliedIsFirst' /\ ShadowedForAReason'
           /\ deletion' \in {deletion, NoDeletion} => DeletionReopens'
<1>1. \A e \in Committed : EarlierCopies(e)' = EarlierCopies(e)
  BY DEF EarlierCopies
<1>2. \A x, e \in Committed : Straddled(e, x)' <=> Straddled(e, x)
  BY DEF Straddled, SameFact, Backfilled
<1>3. \A y, m \in Committed : Apart(y, m)' <=> Apart(y, m)
  BY DEF Apart, Backfilled
<1>4. \A m \in Committed, g \in Grains : Explained(m, g)' <=> Explained(m, g)
  BY <1>3 DEF Explained, SameFact
<1>5. \A m \in Committed : CountsSomewhere(m)' <=> CountsSomewhere(m)
  BY DEF CountsSomewhere, SameFact
<1>6. AppliedIsFirst'
  <2>1. \A e \in Committed : \A x \in EarlierCopies(e) : x \in Committed
    BY DEF EarlierCopies
  <2> QED
    BY <1>1, <1>2, <2>1 DEF ShadowsInv, AppliedIsFirst
<1>7. ShadowedForAReason'
  BY <1>1, <1>4 DEF ShadowsInv, ShadowedForAReason
<1>8. ASSUME deletion' \in {deletion, NoDeletion} PROVE DeletionReopens'
  <2>1. \A d : OfDevice(d)' = OfDevice(d)
    BY DEF OfDevice
  <2> QED
    BY <1>1, <1>4, <1>5, <1>8, <2>1 DEF ShadowsInv, DeletionReopens, NoDeletion
<1> QED
  BY <1>6, <1>7, <1>8

\* Steps that leave rows, statuses and buckets as they are.
LEMMA CellsKept ==
    ASSUME CellsInv, UNCHANGED <<id, hash, status, counted>>
    PROVE  CellsInv'
<1>1. Rows' = Rows
  BY DEF Rows
<1> QED
  BY <1>1 DEF CellsInv, OwnHashes, IdsApart, AppliedIsCounted, Backfilled

LEMMA ClaimsKeepCopies ==
    ASSUME CopiesInv, UNCHANGED <<id, hash, status, counted, uploads, misjudged>>,
           deletion' \in {deletion, NoDeletion}
    PROVE  CopiesInv'
<1>1. Committed' = Committed
  BY DEF Committed, Rows
<1> QED
  BY <1>1, CellsKept, ViewKept DEF CopiesInv, ShadowsInv

\* Of two events of a set of finitely many, more are up to the later one.
LEMMA RanksDiffer ==
    ASSUME NEW new \in SUBSET Events, NEW a \in new, NEW b \in new, a # b
    PROVE  Cardinality({x \in new : x <= a}) # Cardinality({x \in new : x <= b})
<1>1. SUFFICES ASSUME NEW m \in new, NEW n \in new, m < n
               PROVE  Cardinality({x \in new : x <= m}) # Cardinality({x \in new : x <= n})
  <2>1. a \in Nat /\ b \in Nat
    OBVIOUS
  <2> QED
    BY <1>1, <2>1
<1> DEFINE S == {x \in new : x <= m}
           T == {x \in new : x <= n}
<1>2. S \in SUBSET T /\ n \in T /\ n \notin S
  <2>1. \A x \in new : x \in Nat
    OBVIOUS
  <2>2. \A x \in new : x <= m => x <= n
    BY <1>1, <2>1
  <2>3. n <= n /\ ~(n <= m)
    BY <1>1, <2>1
  <2> QED
    BY <2>2, <2>3
<1>3. IsFiniteSet(T)
  <2>1. T \in SUBSET Events
    OBVIOUS
  <2> HIDE DEF T
  <2> QED
    BY <2>1, FS_Subset
<1> HIDE DEF S, T
<1>4. Cardinality(T) # Cardinality(S)
  BY <1>2, <1>3, FS_Subset
<1> QED
  BY <1>4 DEF S, T

LEMMA InsertBatchKeepsCopies ==
    ASSUME UsageInv, CopiesInv, NEW d \in Devices, NEW batch \in Batches(d),
           NEW identified \in SUBSET batch, InsertBatch(d, batch, identified)
    PROVE  CopiesInv'
<1>1. PICK new : new = batch \ Rows
  OBVIOUS
<1> DEFINE last == Max({0} \cup {id[x] : x \in Events})
           rank(e) == Cardinality({x \in new : x <= e})
<1>2. /\ new \in SUBSET Events /\ Rows' = Rows \cup new
      /\ Committed' = Committed /\ Committed \cap new = {}
      /\ id' = [e \in Events |-> IF e \in new THEN last + rank(e) ELSE id[e]]
      /\ hash' = [e \in Events |-> IF e \in new THEN BatchHash(e, identified) ELSE hash[e]]
      /\ \A e \in new, g \in Grains : status'[e][g] = Pending
      /\ \A e \in Events \ new : status'[e] = status[e]
      /\ UNCHANGED <<counted, deletion, misjudged>>
  <2>1. Inserts(new, identified)
    BY <1>1, Inserted
  <2> QED
    BY <2>1 DEF Inserts
<1>3. OwnHashes'
  <2>1. \A e : BatchHash(e, identified) \in {NoHash, Zero, IdentityOf[e]}
    BY DEF BatchHash
  <2>2. \A e \in Events : Backfilled(e)' = Backfilled(e)
    BY DEF Backfilled
  <2> HIDE DEF last, rank
  <2> QED
    BY <1>2, <2>1, <2>2 DEF CopiesInv, CellsInv, OwnHashes
<1>4. IdsApart'
  <2>1. last \in Nat /\ \A e \in Events : id[e] \in Nat /\ id[e] <= last
    BY Types, LastIdTyped DEF TypeOK
  <2>2. \A e \in new : rank(e) \in Nat /\ rank(e) > 0
    BY <1>2, RankTyped
  <2>3. \A x, e \in new : x # e => rank(x) # rank(e)
    BY <1>2, RanksDiffer
  <2> HIDE DEF last, rank
  <2> SUFFICES ASSUME NEW x \in Rows', NEW e \in Rows', id'[x] = id'[e], x # e PROVE FALSE
    BY DEF IdsApart
  <2>4. x \in Events /\ e \in Events
    BY <1>2, Types
  <2>5. CASE x \in new /\ e \in new
    BY <1>2, <2>1, <2>2, <2>3, <2>4, <2>5
  <2>6. CASE x \in new /\ e \notin new
    BY <1>2, <2>1, <2>2, <2>4, <2>6
  <2>7. CASE x \notin new /\ e \in new
    BY <1>2, <2>1, <2>2, <2>4, <2>7
  <2>8. CASE x \notin new /\ e \notin new
    BY <1>2, <2>4, <2>8 DEF CopiesInv, CellsInv, IdsApart
  <2> QED
    BY <2>5, <2>6, <2>7, <2>8
<1> HIDE DEF last, rank
<1>5. AppliedIsCounted'
  BY <1>2, StatusesDiffer DEF CopiesInv, CellsInv, AppliedIsCounted
<1>6. \A e \in Committed : id'[e] = id[e] /\ hash'[e] = hash[e] /\ status'[e] = status[e]
  BY <1>2, Types
<1> QED
  BY <1>2, <1>3, <1>4, <1>5, <1>6, ViewKept DEF CopiesInv, CellsInv, ShadowsInv

LEMMA AbortBatchKeepsCopies ==
    ASSUME UsageInv, CopiesInv, NEW u \in uploads, AbortBatch(u)
    PROVE  CopiesInv'
<1>1. /\ uploads' = uploads \ {u}
      /\ id' = Put(id, u.new, 0) /\ hash' = Put(hash, u.new, NoHash)
      /\ UNCHANGED <<status, counted, deletion, misjudged>>
  BY DEF AbortBatch, history
<1>2. /\ u.new \in SUBSET Events /\ u.new \subseteq Rows /\ u.new \cap Committed = {}
      /\ \A v \in uploads : v # u => u.new \cap v.new = {}
  BY Types DEF UsageInv, UploadsApart, Committed
<1> DEFINE new == u.new
<1>3. new = u.new
  OBVIOUS
<1>4. /\ (\A e \in new : id'[e] = 0) /\ \A e \in Events \ new : id'[e] = id[e]
      /\ (\A e \in new : hash'[e] = NoHash) /\ \A e \in Events \ new : hash'[e] = hash[e]
  BY <1>1, <1>2, <1>3, Types DEF TypeOK, Put
<1> HIDE DEF new
<1>5. Rows' = Rows \ new
  <2>1. (\A e \in new : id'[e] = 0) /\ \A e \in Events \ new : id'[e] = id[e]
    BY <1>4
  <2>2. \A e \in Events : id'[e] > 0 <=> id[e] > 0 /\ e \notin new
    BY <2>1
  <2> QED
    BY <2>2 DEF Rows
<1>6. Committed' = Committed
  BY <1>1, <1>2, <1>3, <1>5 DEF Committed
<1>7. OwnHashes'
  <2>1. \A e \in Events : Backfilled(e)' = Backfilled(e)
    BY DEF Backfilled
  <2> QED
    BY <1>4, <2>1 DEF CopiesInv, CellsInv, OwnHashes
<1>8. IdsApart'
  BY <1>4, <1>5, Types DEF CopiesInv, CellsInv, IdsApart
<1>9. AppliedIsCounted'
  BY <1>1 DEF CopiesInv, CellsInv, AppliedIsCounted
<1>10. \A e \in Committed : id'[e] = id[e] /\ hash'[e] = hash[e] /\ status'[e] = status[e]
  BY <1>1, <1>2, <1>3, <1>4, Types
<1> QED
  BY <1>1, <1>6, <1>7, <1>8, <1>9, <1>10, ViewKept DEF CopiesInv, CellsInv, ShadowsInv

LEMMA CommitBatchKeepsCopies ==
    ASSUME UsageInv, CopiesInv, NEW u \in uploads, CommitBatch(u)
    PROVE  CopiesInv'
<1>1. /\ uploads' = uploads \ {u}
      /\ misjudged' = misjudged \cup Overtaken(u.new)
      /\ UNCHANGED <<id, hash, status, counted, deletion>>
  BY DEF CommitBatch, rows, work
<1>2. /\ u.new \subseteq Rows /\ u.new \cap Committed = {} /\ u.new \subseteq Events
      /\ \A v \in uploads : v # u => u.new \cap v.new = {}
  BY Types DEF UsageInv, UploadsApart, Committed
<1>3. Committed' = Committed \cup u.new
  <2>1. Rows' = Rows
    BY <1>1 DEF Rows
  <2> QED
    BY <1>1, <1>2, <2>1 DEF Committed
<1>4. \A e \in u.new, g \in Grains : status[e][g] = Pending
  BY <1>2 DEF UsageInv, UncommittedAreNew
<1>5. \A e \in Committed : EarlierCopies(e) \subseteq EarlierCopies(e)'
  BY <1>1, <1>3 DEF EarlierCopies
<1>6. \A m \in Committed, g \in Grains : Explained(m, g) => Explained(m, g)'
  BY <1>1, <1>3 DEF Explained, SameFact, Apart, Backfilled
<1>7. \A m \in Committed : CountsSomewhere(m) => CountsSomewhere(m)'
  BY <1>1, <1>3 DEF CountsSomewhere, SameFact
<1>8. AppliedIsFirst'
  <2> SUFFICES ASSUME NEW e \in Committed', NEW g \in Grains, NEW x \in EarlierCopies(e)',
                      status'[e][g] = Applied
               PROVE  e \in misjudged' \/ Straddled(e, x)'
    BY DEF AppliedIsFirst
  <2>1. e \in Committed /\ status[e][g] = Applied
    BY <1>1, <1>3, <1>4, StatusesDiffer
  <2>2. /\ x \in Committed \cup u.new /\ hash[e] # NoHash /\ hash[x] = hash[e]
        /\ id[x] < id[e] /\ FactOf[x] # FactOf[e]
    BY <1>1, <1>3 DEF EarlierCopies
  <2>3. CASE x \in u.new
    <3>1. e \in Overtaken(u.new)
      BY <2>1, <2>2, <2>3, StatusesDiffer DEF Overtaken
    <3> QED
      BY <1>1, <3>1
  <2>4. CASE x \in Committed
    <3>1. x \in EarlierCopies(e)
      BY <2>2, <2>4 DEF EarlierCopies
    <3>2. e \in misjudged \/ Straddled(e, x)
      BY <2>1, <3>1 DEF CopiesInv, ShadowsInv, AppliedIsFirst
    <3>3. Straddled(e, x) => Straddled(e, x)'
      BY <1>1, <1>3 DEF Straddled, SameFact, Backfilled
    <3> QED
      BY <1>1, <3>2, <3>3
  <2> QED
    BY <2>2, <2>3, <2>4
<1>9. ShadowedForAReason'
  <2> SUFFICES ASSUME NEW m \in Committed', NEW g \in Grains, status'[m][g] = NotApplicable
               PROVE  EarlierCopies(m)' # {} \/ Explained(m, g)'
    BY DEF ShadowedForAReason
  <2>1. m \in Committed /\ status[m][g] = NotApplicable
    BY <1>1, <1>3, <1>4, StatusesDiffer
  <2>2. EarlierCopies(m) # {} \/ Explained(m, g)
    BY <2>1 DEF CopiesInv, ShadowsInv, ShadowedForAReason
  <2> QED
    BY <1>5, <1>6, <2>1, <2>2
<1>10. DeletionReopens'
  <2> SUFFICES ASSUME deletion # NoDeletion,
                      NEW m \in Committed' \ deletion.reopen, NEW g \in Grains,
                      DeviceOf[m] # deletion.device, status'[m][g] = NotApplicable,
                      EarlierCopies(m)' \subseteq OfDevice(deletion.device)'
               PROVE  Explained(m, g)' \/ CountsSomewhere(m)'
    BY <1>1 DEF DeletionReopens, NoDeletion
  <2>1. m \in Committed /\ status[m][g] = NotApplicable
    BY <1>1, <1>3, <1>4, StatusesDiffer
  <2>2. EarlierCopies(m) \subseteq OfDevice(deletion.device)
    <3>1. \A x \in EarlierCopies(m) : x \in Committed
      BY DEF EarlierCopies
    <3>2. \A x \in OfDevice(deletion.device)' : DeviceOf[x] = deletion.device
      BY <1>1 DEF OfDevice
    <3>3. EarlierCopies(m) \subseteq OfDevice(deletion.device)'
      BY <1>5, <2>1
    <3> QED
      BY <3>1, <3>2, <3>3 DEF OfDevice
  <2>3. Explained(m, g) \/ CountsSomewhere(m)
    BY <2>1, <2>2 DEF CopiesInv, ShadowsInv, DeletionReopens
  <2> QED
    BY <1>6, <1>7, <2>1, <2>3
<1>11. CellsInv'
  BY <1>1, CellsKept DEF CopiesInv
<1> QED
  BY <1>8, <1>9, <1>10, <1>11 DEF CopiesInv, ShadowsInv

\* Retiring a revision leaves its fact counted by the event that retired it, unless
\* that one is shadowed: then it is misjudged.
LEMMA ExecuteKeepsCopies ==
    ASSUME UsageInv, CopiesInv, NEW c \in claims, Execute(c)
    PROVE  CopiesInv'
<1>1. PICK e \in Events, g \in Grains : e = c[1] /\ g = c[2]
  BY Types
<1>2. /\ misjudged' = misjudged \cup
             IF /\ EarlierCopies(e) # {}
                /\ EarlierCopies(e) \subseteq OfDevice(deletion.device) \/ Retired(e, g) # {}
             THEN {e} ELSE {}
      /\ UNCHANGED <<id, hash, uploads, deletion>>
  BY <1>1 DEF Execute, rows
<1>3. Effects(c, e, g)
  BY <1>1, Executed
<1>4. /\ e \in Committed /\ status[e][g] = Pending
      /\ status'[e][g] = IF Counts(e, g) THEN Applied ELSE NotApplicable
      /\ counted'[e][g] = IF Counts(e, g) THEN counted[e][g] + 1 ELSE counted[e][g]
      /\ \A x \in Retired(e, g) :
            /\ x \in Committed /\ x # e /\ status[x][g] = Applied
            /\ status'[x][g] = NotApplicable /\ counted'[x][g] = counted[x][g] - 1
      /\ \A x \in Events, h \in Grains :
            h # g \/ (x # e /\ x \notin Retired(e, g))
            => status'[x][h] = status[x][h] /\ counted'[x][h] = counted[x][h]
  BY <1>3 DEF Effects
<1>5. Rows' = Rows /\ Committed' = Committed /\ Committed \subseteq Events
  BY <1>2, Types DEF Rows, Committed
<1>6. /\ \A x \in Events : EarlierCopies(x)' = EarlierCopies(x)
      /\ \A x, y : Straddled(x, y)' <=> Straddled(x, y)
      /\ \A x, y : Apart(x, y)' <=> Apart(x, y)
      /\ \A d : OfDevice(d)' = OfDevice(d)
  BY <1>2, <1>5 DEF EarlierCopies, Straddled, SameFact, Backfilled, Apart, OfDevice
<1>7. \A x \in Events, h \in Grains : counted[x][h] \in Int /\ counted[x][h] >= 0
  BY CellsTyped DEF CopiesInv, CellsInv, AppliedIsCounted
<1>8. \A x \in Retired(e, g) : SameFact(x, e) /\ ~Superseded(e, g)
  BY DEF Retired, Peers
<1>9. OwnHashes' /\ IdsApart'
  BY <1>2, <1>5 DEF CopiesInv, CellsInv, OwnHashes, IdsApart, Backfilled
<1>10. AppliedIsCounted'
  <2> SUFFICES ASSUME NEW x \in Events, NEW h \in Grains
               PROVE  counted'[x][h] >= 0 /\ (status'[x][h] = Applied => counted'[x][h] > 0)
    BY DEF AppliedIsCounted
  <2>1. counted[x][h] \in Int /\ counted[x][h] >= 0 /\ (status[x][h] = Applied => counted[x][h] > 0)
    BY <1>7 DEF CopiesInv, CellsInv, AppliedIsCounted
  <2>2. CASE h # g \/ (x # e /\ x \notin Retired(e, g))
    BY <1>4, <2>1, <2>2
  <2>3. CASE h = g /\ x = e
    BY <1>4, <2>1, <2>3, StatusesDiffer
  <2>4. CASE h = g /\ x \in Retired(e, g)
    BY <1>4, <2>1, <2>4, StatusesDiffer
  <2> QED
    BY <2>2, <2>3, <2>4
\* The event that retired a revision counts in its place, or was misjudged.
<1>11. ASSUME NEW x \in Retired(e, g)
       PROVE  /\ (counted'[e][g] > 0 /\ status'[e][g] = Applied) \/ e \in misjudged'
              /\ SameFact(x, e)
  <2>1. CASE Counts(e, g)
    BY <1>4, <1>7, <1>8, <1>11, <2>1
  <2>2. CASE ~Counts(e, g)
    BY <1>2, <1>8, <1>11, <2>2 DEF Counts
  <2> QED
    BY <2>1, <2>2
<1>12. ASSUME NEW m \in Committed, NEW h \in Grains, Explained(m, h)
       PROVE  Explained(m, h)'
  <2>1. PICK y \in Committed : SameFact(y, m) /\ (counted[y][h] > 0 \/ y \in misjudged \/ Apart(y, m))
    BY <1>12 DEF Explained
  <2>2. CASE y \in misjudged \/ Apart(y, m)
    BY <1>2, <1>5, <1>6, <2>1, <2>2 DEF Explained, SameFact
  <2>3. CASE h = g /\ y \in Retired(e, g)
    <3>1. SameFact(e, m)
      BY <1>11, <2>1, <2>3 DEF SameFact
    <3> QED
      BY <1>4, <1>5, <1>11, <2>3, <3>1 DEF Explained, SameFact
  <2>4. CASE counted[y][h] > 0 /\ ~(h = g /\ y \in Retired(e, g))
    <3>1. counted'[y][h] > 0
      BY <1>4, <1>5, <1>7, <2>4
    <3> QED
      BY <1>5, <2>1, <3>1 DEF Explained, SameFact
  <2> QED
    BY <2>1, <2>2, <2>3, <2>4
\* A row this step settles as not applicable, or reverses, has a reason at once,
\* unless its earlier copies stay.
<1>13. ASSUME NEW m \in Committed, NEW h \in Grains,
              status'[m][h] = NotApplicable, status[m][h] # NotApplicable
       PROVE  Explained(m, h)' \/ (m = e /\ h = g /\ EarlierCopies(e) # {})
  <2>1. h = g /\ (m = e \/ m \in Retired(e, g))
    BY <1>4, <1>5, <1>13
  <2>2. CASE m \in Retired(e, g)
    BY <1>4, <1>5, <1>11, <2>1, <2>2 DEF Explained, SameFact
  <2>3. CASE m = e /\ Superseded(e, g)
    <3>1. PICK x \in Peers(e, g) : TRUE
      BY <2>3 DEF Superseded
    <3>2. x \in Committed /\ x # e /\ status[x][g] = Applied /\ SameFact(x, e)
      BY DEF Peers
    <3>3. counted[x][g] > 0 /\ x \notin Retired(e, g)
      BY <1>5, <2>3, <3>2 DEF CopiesInv, CellsInv, AppliedIsCounted, Retired
    <3>4. counted'[x][g] > 0
      BY <1>4, <1>5, <3>2, <3>3
    <3> QED
      BY <1>5, <2>1, <2>3, <3>2, <3>4 DEF Explained, SameFact
  <2>4. CASE m = e /\ ~Superseded(e, g)
    BY <1>4, <1>13, <2>1, <2>4, StatusesDiffer DEF Counts
  <2> QED
    BY <2>1, <2>2, <2>3, <2>4
<1>14. AppliedIsFirst'
  <2> SUFFICES ASSUME NEW z \in Committed, NEW h \in Grains, NEW x \in EarlierCopies(z),
                      status'[z][h] = Applied
               PROVE  z \in misjudged' \/ Straddled(z, x)'
    BY <1>5, <1>6 DEF AppliedIsFirst
  <2>1. status[z][h] = Applied
    BY <1>4, <1>5, StatusesDiffer DEF Counts
  <2> QED
    BY <1>2, <1>6, <2>1 DEF CopiesInv, ShadowsInv, AppliedIsFirst
<1>15. ShadowedForAReason'
  <2> SUFFICES ASSUME NEW m \in Committed, NEW h \in Grains, status'[m][h] = NotApplicable
               PROVE  EarlierCopies(m) # {} \/ Explained(m, h)'
    BY <1>5, <1>6 DEF ShadowedForAReason
  <2> QED
    BY <1>12, <1>13 DEF CopiesInv, ShadowsInv, ShadowedForAReason
<1>16. DeletionReopens'
  <2> SUFFICES ASSUME deletion # NoDeletion,
                      NEW m \in Committed \ deletion.reopen, NEW h \in Grains,
                      DeviceOf[m] # deletion.device, status'[m][h] = NotApplicable,
                      EarlierCopies(m) \subseteq OfDevice(deletion.device)
               PROVE  Explained(m, h)' \/ CountsSomewhere(m)'
    BY <1>2, <1>5, <1>6 DEF DeletionReopens, NoDeletion
  <2>1. CASE status[m][h] # NotApplicable
    <3>1. EarlierCopies(e) # {} /\ m = e => e \in misjudged'
      BY <1>2
    <3>2. e \in misjudged' /\ m = e => Explained(m, h)'
      BY <1>4, <1>5 DEF Explained, SameFact
    <3> QED
      BY <1>13, <2>1, <3>1, <3>2
  <2>2. CASE status[m][h] = NotApplicable
    <3>1. Explained(m, h) \/ CountsSomewhere(m)
      BY <2>2 DEF CopiesInv, ShadowsInv, DeletionReopens
    <3>2. ASSUME NEW y \in Committed, NEW k \in Grains, SameFact(y, m), status[y][k] = Applied
          PROVE  Explained(m, h)' \/ CountsSomewhere(m)'
      <4>1. CASE k = g /\ y \in Retired(e, g)
        <5>1. SameFact(e, m)
          BY <1>11, <3>2, <4>1 DEF SameFact
        <5>2. CASE e \in misjudged'
          BY <1>4, <1>5, <5>1, <5>2 DEF Explained, SameFact
        <5>3. CASE status'[e][g] = Applied
          BY <1>4, <1>5, <5>1, <5>3 DEF CountsSomewhere, SameFact
        <5> QED
          BY <1>11, <4>1, <5>2, <5>3
      <4>2. CASE ~(k = g /\ y \in Retired(e, g))
        <5>1. status'[y][k] = Applied
          BY <1>4, <1>5, <3>2, <4>2, StatusesDiffer
        <5> QED
          BY <1>5, <3>2, <5>1 DEF CountsSomewhere, SameFact
      <4> QED
        BY <4>1, <4>2
    <3> QED
      BY <1>12, <3>1, <3>2 DEF CountsSomewhere
  <2> QED
    BY <2>1, <2>2
<1> QED
  BY <1>9, <1>10, <1>14, <1>15, <1>16 DEF CopiesInv, CellsInv, ShadowsInv

LEMMA DeletionStartsKeepsCopies ==
    ASSUME UsageInv, CopiesInv, NEW d \in Devices, DeletionStarts(d)
    PROVE  CopiesInv'
<1>1. /\ deletion' = [device |-> d, reopen |-> Reopenable(OfDevice(d))]
      /\ UNCHANGED <<id, hash, status, counted, uploads, misjudged>>
  BY DEF DeletionStarts, rows, work, history
<1>2. Rows' = Rows /\ Committed' = Committed /\ Committed \subseteq Events
  BY <1>1, Types DEF Rows, Committed
<1>3. AppliedIsFirst' /\ ShadowedForAReason'
  BY <1>1, <1>2, ViewKept DEF CopiesInv
<1>4. DeletionReopens'
  <2>1. /\ deletion'.device = d /\ deletion'.reopen = Reopenable(OfDevice(d))
        /\ OfDevice(d)' = OfDevice(d)
    BY <1>1, <1>2 DEF OfDevice
  <2>2. \A m \in Committed, g \in Grains :
           /\ Explained(m, g)' <=> Explained(m, g)
           /\ CountsSomewhere(m)' <=> CountsSomewhere(m)
           /\ EarlierCopies(m)' = EarlierCopies(m)
    BY <1>1, <1>2 DEF Explained, SameFact, Apart, Backfilled, CountsSomewhere, EarlierCopies
  <2> SUFFICES ASSUME NEW m \in Committed, m \notin Reopenable(OfDevice(d)), NEW g \in Grains,
                      DeviceOf[m] # d, status[m][g] = NotApplicable,
                      EarlierCopies(m) \subseteq OfDevice(d)
               PROVE  Explained(m, g) \/ CountsSomewhere(m)
    BY <1>1, <1>2, <2>1, <2>2 DEF DeletionReopens
  <2>3. m \notin OfDevice(d)
    BY DEF OfDevice
  <2>4. CASE hash[m] = NoHash
    <3>1. EarlierCopies(m) = {}
      BY <2>4 DEF EarlierCopies
    <3> QED
      BY <3>1 DEF CopiesInv, ShadowsInv, ShadowedForAReason
  <2>5. CASE hash[m] # NoHash
    <3>1. PICK x \in Committed, h \in Grains : FactOf[x] = FactOf[m] /\ status[x][h] = Applied
      BY <2>3, <2>5 DEF Reopenable
    <3>2. SameFact(x, m)
      BY <1>2, <3>1, KeysAssumption DEF SameFact
    <3> QED
      BY <3>1, <3>2 DEF CountsSomewhere
  <2> QED
    BY <2>4, <2>5
<1> QED
  BY <1>1, <1>3, <1>4, CellsKept DEF CopiesInv, ShadowsInv

LEMMA DeletionCommitsKeepsCopies ==
    ASSUME UsageInv, CopiesInv, DeletionCommits
    PROVE  CopiesInv'
<1>1. PICK gone, reopen : gone = OfDevice(deletion.device) /\ reopen = deletion.reopen
  OBVIOUS
<1>2. /\ deletion # NoDeletion /\ deletion' = NoDeletion
      /\ misjudged' = (misjudged \cup Stranded(gone, reopen)) \ gone
  BY <1>1 DEF DeletionCommits
<1>3. Deletes(gone, reopen)
  BY <1>1, Deleted
<1>4. /\ gone \subseteq Committed /\ Committed \subseteq Events
      /\ \A e \in Committed : e \in gone <=> DeviceOf[e] = deletion.device
      /\ (\A e \in gone : id'[e] = 0) /\ \A e \in Events \ gone : id'[e] = id[e]
  BY <1>3, Types DEF Deletes
<1>5. (\A e \in gone : hash'[e] = NoHash) /\ \A e \in Events \ gone : hash'[e] = hash[e]
  BY <1>3 DEF Deletes
<1>6. /\ \A x \in gone \cup reopen, g \in Grains : status'[x][g] = Pending
      /\ \A x \in Events \ (gone \cup reopen) : status'[x] = status[x]
  BY <1>3 DEF Deletes
<1>7. /\ \A x \in gone, g \in Grains : counted'[x][g] = 0
      /\ \A x \in Events \ gone : counted'[x] = counted[x]
  BY <1>3 DEF Deletes
<1>8. Rows' = Rows \ gone /\ Committed' = Committed \ gone
  BY <1>3 DEF Deletes
\* A shadowed row that is not reopened and loses its copies has a reason to be.
<1>9. \A m \in Committed, g \in Grains :
         /\ m \notin reopen /\ m \notin gone
         /\ status[m][g] = NotApplicable /\ EarlierCopies(m) \subseteq gone
         => Explained(m, g) \/ CountsSomewhere(m)
  BY <1>1, <1>2, <1>4 DEF CopiesInv, ShadowsInv, DeletionReopens
<1>10. OwnHashes'
  <2>1. \A e \in Events : Backfilled(e)' = Backfilled(e)
    BY DEF Backfilled
  <2> QED
    BY <1>5, <2>1 DEF CopiesInv, CellsInv, OwnHashes
<1>11. IdsApart'
  <2>1. \A x \in Rows' : x \in Rows /\ id'[x] = id[x]
    BY <1>4, <1>8, Types
  <2> QED
    BY <2>1 DEF CopiesInv, CellsInv, IdsApart
<1>12. AppliedIsCounted'
  <2> SUFFICES ASSUME NEW x \in Events, NEW h \in Grains
               PROVE  counted'[x][h] >= 0 /\ (status'[x][h] = Applied => counted'[x][h] > 0)
    BY DEF AppliedIsCounted
  <2>1. counted[x][h] >= 0 /\ (status[x][h] = Applied => counted[x][h] > 0)
    BY DEF CopiesInv, CellsInv, AppliedIsCounted
  <2>2. CASE x \in gone
    BY <1>6, <1>7, <2>2, StatusesDiffer
  <2>3. CASE x \notin gone
    BY <1>6, <1>7, <2>1, <2>3, StatusesDiffer
  <2> QED
    BY <2>2, <2>3
\* What stays settled was settled so before.
<1>13. ASSUME NEW m \in Committed', NEW g \in Grains, status'[m][g] # Pending
       PROVE  m \in Committed /\ m \notin gone /\ m \notin reopen /\ status[m][g] = status'[m][g]
  BY <1>4, <1>6, <1>8, <1>13
<1>14. \A e \in Committed' : EarlierCopies(e)' = EarlierCopies(e) \ gone
  <2> SUFFICES ASSUME NEW e \in Committed', NEW x
               PROVE  x \in EarlierCopies(e)' <=> x \in EarlierCopies(e) /\ x \notin gone
    OBVIOUS
  <2>1. e \in Events \ gone /\ id'[e] = id[e] /\ hash'[e] = hash[e]
    BY <1>4, <1>5, <1>8
  <2>2. CASE x \in Committed'
    <3>1. x \in Committed /\ x \notin gone /\ id'[x] = id[x] /\ hash'[x] = hash[x]
      BY <1>4, <1>5, <1>8, <2>2
    <3> QED
      BY <2>1, <2>2, <3>1 DEF EarlierCopies
  <2>3. CASE x \notin Committed'
    BY <1>8, <2>3 DEF EarlierCopies
  <2> QED
    BY <2>2, <2>3
<1>15. \A x, e \in Committed : SameFact(x, e) => (x \in gone <=> e \in gone)
  BY <1>4 DEF SameFact
<1>16. AppliedIsFirst'
  <2> SUFFICES ASSUME NEW e \in Committed', NEW g \in Grains, NEW x \in EarlierCopies(e)',
                      status'[e][g] = Applied
               PROVE  e \in misjudged' \/ Straddled(e, x)'
    BY DEF AppliedIsFirst
  <2>1. e \in Committed /\ e \notin gone /\ status[e][g] = Applied
    BY <1>13, StatusesDiffer
  <2>2. x \in EarlierCopies(e) /\ x \in Committed /\ x \notin gone
    BY <1>14 DEF EarlierCopies
  <2>3. CASE e \in misjudged
    BY <1>2, <2>1, <2>3
  <2>4. CASE Straddled(e, x)
    <3>1. PICK w \in Committed : SameFact(w, e) /\ id[w] < id[x] /\ hash[e] = Backfilled(e)
      BY <2>4 DEF Straddled
    <3>2. w \notin gone
      BY <1>15, <2>1, <3>1
    <3> QED
      BY <1>4, <1>5, <1>8, <2>1, <2>2, <3>1, <3>2 DEF Straddled, SameFact, Backfilled
  <2> QED
    BY <2>1, <2>2, <2>3, <2>4 DEF CopiesInv, ShadowsInv, AppliedIsFirst
<1>17. ASSUME NEW m \in Committed', NEW g \in Grains, Explained(m, g)
       PROVE  Explained(m, g)'
  <2>1. PICK y \in Committed : SameFact(y, m) /\ (counted[y][g] > 0 \/ y \in misjudged \/ Apart(y, m))
    BY <1>17 DEF Explained
  <2>2. m \in Events \ gone /\ y \in Events \ gone /\ y \in Committed'
    BY <1>4, <1>8, <1>15, <2>1
  <2>3. counted'[y][g] = counted[y][g] /\ (y \in misjudged => y \in misjudged')
    BY <1>2, <1>7, <2>2
  <2>4. Apart(y, m)' <=> Apart(y, m)
    BY <1>5, <2>2 DEF Apart, Backfilled
  <2> QED
    BY <2>1, <2>2, <2>3, <2>4 DEF Explained, SameFact
<1>18. ShadowedForAReason'
  <2> SUFFICES ASSUME NEW m \in Committed', NEW g \in Grains, status'[m][g] = NotApplicable,
                      EarlierCopies(m)' = {}, ~Explained(m, g)
               PROVE  Explained(m, g)'
    BY <1>17 DEF ShadowedForAReason
  <2>1. m \in Committed /\ m \notin gone /\ m \notin reopen /\ status[m][g] = NotApplicable
    BY <1>13, StatusesDiffer
  <2>2. EarlierCopies(m) # {} /\ EarlierCopies(m) \subseteq gone
    BY <1>14, <2>1 DEF CopiesInv, ShadowsInv, ShadowedForAReason
  <2>3. PICK y \in Committed, h \in Grains : SameFact(y, m) /\ status[y][h] = Applied
    BY <1>9, <2>1, <2>2 DEF CountsSomewhere
  <2>4. \A x \in Committed : SameFact(x, m) => status[x][g] # Applied
    BY <1>4 DEF Explained, CopiesInv, CellsInv, AppliedIsCounted
  <2>5. m \in Stranded(gone, reopen)
    BY <2>1, <2>2, <2>3, <2>4 DEF Stranded
  <2>6. m \in misjudged'
    BY <1>2, <2>1, <2>5
  <2> QED
    BY <2>6 DEF Explained, SameFact
<1>19. DeletionReopens'
  BY <1>2 DEF DeletionReopens, NoDeletion
<1> QED
  BY <1>10, <1>11, <1>12, <1>16, <1>18, <1>19 DEF CopiesInv, CellsInv, ShadowsInv

\* The owner of a group is the member with the least row id.
LEMMA OwnerIsFirst ==
    ASSUME UsageInv, NEW members \in SUBSET Events, members # {},
           NEW owner, owner = CHOOSE x \in members : \A y \in members : id[x] <= id[y]
    PROVE  owner \in members /\ \A y \in members : id[owner] <= id[y]
<1> DEFINE S == {id[x] : x \in members}
<1>1. S \in SUBSET Nat /\ S # {}
  <2>1. id \in [Events -> Nat]
    BY Types DEF TypeOK
  <2>2. \A x \in members : id[x] \in Nat
    BY <2>1
  <2>3. PICK x \in members : TRUE
    OBVIOUS
  <2>4. id[x] \in S
    OBVIOUS
  <2> QED
    BY <2>2, <2>4
<1>2. \E n \in S : \A m \in S : n <= m
  <2> HIDE DEF S
  <2> QED BY <1>1, LeastNatural
<1>3. \E x \in members : \A y \in members : id[x] <= id[y]
  BY <1>2
<1> QED
  BY <1>3

\* Only rows of one content share a hash the backfill gave.
LEMMA BackfilledAlike ==
    ASSUME NEW x \in Events, NEW e \in Events, NEW h,
           h \in {NoHash, Zero, IdentityOf[x], Backfilled(x)}, h = Backfilled(e)
    PROVE  ContentOf[x] = ContentOf[e]
<1>1. h = Backfilled(x)
  BY KeysAssumption
<1> QED
  BY <1>1 DEF Backfilled

\* Members of the group have copies only among themselves, through the hash given
\* now, or had them before.
LEMMA BackfillKeepsCopies ==
    ASSUME UsageInv, CopiesInv, NEW b \in Events, Backfill(b)
    PROVE  CopiesInv'
<1> DEFINE members == Group(b)
           owner == CHOOSE x \in members : \A y \in members : id[x] <= id[y]
           others == {x \in members : FactOf[x] # FactOf[owner]}
<1>1. /\ hash' = [x \in Events |-> IF x \in members /\ hash[x] = NoHash
                     THEN Backfilled(b) ELSE hash[x]]
      /\ status' = [x \in Events |-> [g \in Grains |->
             IF x \in others /\ status[x][g] = Applied THEN NotApplicable ELSE status[x][g]]]
      /\ counted' = [x \in Events |-> [g \in Grains |->
             IF x \in others /\ status[x][g] = Applied THEN counted[x][g] - 1
             ELSE counted[x][g]]]
      /\ misjudged' = misjudged \cup {x \in others : hash'[x] # hash'[owner]}
      /\ UNCHANGED <<id, uploads, deletion>>
  BY DEF Backfill
<1>2. /\ members \subseteq Committed /\ members \subseteq Events /\ Committed \subseteq Events
      /\ Committed \subseteq Rows /\ \A x \in members : Unlocked(x)
      /\ \A x \in Committed : x \in members <=> ContentOf[x] = ContentOf[b]
  BY Types, MembersAreCommitted DEF Backfill, Group
<1>3. members # {}
  <2> SUFFICES ASSUME members = {} PROVE FALSE
    OBVIOUS
  <2>1. Cardinality({DeviceOf[x] : x \in {y \in members : hash[y] = NoHash}}) > 1
    BY DEF Backfill
  <2>2. {DeviceOf[x] : x \in {y \in members : hash[y] = NoHash}} = {}
    OBVIOUS
  <2>3. Cardinality({}) = 0
    BY FS_EmptySet
  <2> QED
    BY <2>1, <2>2, <2>3
<1>4. owner \in members /\ \A y \in members : id[owner] <= id[y]
  BY <1>2, <1>3, OwnerIsFirst
<1>5. others \subseteq members /\ \A x \in members : x \in others <=> FactOf[x] # FactOf[owner]
  OBVIOUS
<1> HIDE DEF owner, others, members
<1>6. \A x \in members : FactOf[x] # FactOf[owner] => id[owner] < id[x]
  <2>1. \A x \in members : id[x] \in Nat /\ x \in Rows
    BY <1>2, Types DEF TypeOK
  <2> QED
    BY <1>4, <2>1 DEF CopiesInv, CellsInv, IdsApart
<1>7. Rows' = Rows /\ Committed' = Committed
  BY <1>1 DEF Rows, Committed
<1>8. \A x \in Events :
         hash'[x] = IF x \in members /\ hash[x] = NoHash THEN Backfilled(b) ELSE hash[x]
  BY <1>1
<1>9. \A x \in Events, g \in Grains :
         IF x \in others /\ status[x][g] = Applied
         THEN status'[x][g] = NotApplicable /\ counted'[x][g] = counted[x][g] - 1
         ELSE status'[x][g] = status[x][g] /\ counted'[x][g] = counted[x][g]
  BY <1>1
<1>10. \A x \in members : hash'[x] # NoHash
  BY <1>2, <1>8, KeysAssumption
<1>11. \A x \in others : x \in misjudged' \/ hash'[x] = hash'[owner]
  BY <1>1
<1>12. \A x : x \in misjudged => x \in misjudged'
  BY <1>1
<1>13. OwnHashes'
  <2> SUFFICES ASSUME NEW x \in Events
               PROVE  hash'[x] \in {NoHash, Zero, IdentityOf[x], Backfilled(x)}
    BY DEF OwnHashes, Backfilled
  <2>1. CASE x \in members /\ hash[x] = NoHash
    <3>1. Backfilled(b) = Backfilled(x)
      BY <1>2, <2>1 DEF Backfilled
    <3> QED
      BY <1>8, <2>1, <3>1
  <2>2. CASE ~(x \in members /\ hash[x] = NoHash)
    BY <1>8, <2>2 DEF CopiesInv, CellsInv, OwnHashes
  <2> QED
    BY <2>1, <2>2
<1>14. IdsApart'
  BY <1>1, <1>7 DEF CopiesInv, CellsInv, IdsApart
<1>15. AppliedIsCounted'
  <2> SUFFICES ASSUME NEW x \in Events, NEW h \in Grains
               PROVE  counted'[x][h] >= 0 /\ (status'[x][h] = Applied => counted'[x][h] > 0)
    BY DEF AppliedIsCounted
  <2>1. counted[x][h] \in Int /\ counted[x][h] >= 0 /\ (status[x][h] = Applied => counted[x][h] > 0)
    BY CellsTyped DEF CopiesInv, CellsInv, AppliedIsCounted
  <2> QED
    BY <1>9, <2>1, StatusesDiffer
\* Whoever has the hash of this backfill now is a member.
<1>16. \A x \in Committed : hash'[x] = Backfilled(b) => x \in members
  <2>1. \A x \in Committed : hash'[x] \in {NoHash, Zero, IdentityOf[x], Backfilled(x)}
    BY <1>2, <1>13 DEF OwnHashes, Backfilled
  <2> QED
    BY <1>2, <2>1, BackfilledAlike
<1>17. \A x \in Committed : hash'[x] = hash[x] \/ (hash'[x] = Backfilled(b) /\ hash[x] = NoHash)
  BY <1>2, <1>8
<1>18. \A x \in members : Backfilled(x) = Backfilled(b)
  BY <1>2 DEF Backfilled
\* Copies stay copies.
<1>19. ASSUME NEW m \in Committed PROVE EarlierCopies(m) \subseteq EarlierCopies(m)'
  <2> SUFFICES ASSUME NEW x \in EarlierCopies(m) PROVE x \in EarlierCopies(m)'
    OBVIOUS
  <2>1. /\ x \in Committed /\ hash[m] # NoHash /\ hash[x] = hash[m]
        /\ id[x] < id[m] /\ FactOf[x] # FactOf[m]
    BY DEF EarlierCopies
  <2>2. hash'[x] = hash[x] /\ hash'[m] = hash[m]
    BY <1>17, <2>1
  <2> QED
    BY <1>1, <1>7, <2>1, <2>2 DEF EarlierCopies
\* A member that gives way has the owner as its earlier copy, or was misjudged.
<1>20. ASSUME NEW m \in others
       PROVE  m \in misjudged' \/ owner \in EarlierCopies(m)'
  <2> SUFFICES ASSUME hash'[m] = hash'[owner] PROVE owner \in EarlierCopies(m)'
    BY <1>11
  <2>1. m \in members /\ FactOf[m] # FactOf[owner] /\ id[owner] < id[m] /\ owner \in Committed
    BY <1>2, <1>4, <1>5, <1>6
  <2>2. hash'[m] # NoHash
    BY <1>10, <2>1
  <2> QED
    BY <1>1, <1>7, <2>1, <2>2 DEF EarlierCopies
\* A revision that gives way while one of m stays is misjudged or no copy of m.
<1>21. ASSUME NEW y \in others, NEW m \in Committed, m \notin others, SameFact(y, m),
              NEW h \in Grains, status[y][h] = Applied
       PROVE  y \in misjudged' \/ Apart(y, m)'
  <2> SUFFICES ASSUME hash'[y] = hash'[owner] PROVE y \in misjudged' \/ Apart(y, m)'
    BY <1>11
  <2>1. /\ y \in members /\ y \in Committed /\ owner \in Committed
        /\ FactOf[y] # FactOf[owner] /\ id[owner] < id[y] /\ hash'[y] # NoHash
    BY <1>2, <1>4, <1>5, <1>6, <1>10
  <2>2. m \notin members
    BY <1>5, <1>21, <2>1 DEF SameFact
  <2>3. CASE hash'[m] # hash'[y]
    <3>1. hash'[y] # Backfilled(m)
      <4>1. hash'[y] \in {NoHash, Zero, IdentityOf[y], Backfilled(y)}
        BY <1>2, <1>13, <2>1 DEF OwnHashes, Backfilled
      <4> QED
        BY <1>2, <2>1, <2>2, <4>1, BackfilledAlike
    <3> QED
      BY <2>1, <2>3, <3>1 DEF Apart, Backfilled
  <2>4. CASE hash'[m] = hash'[y]
    <3>1. hash'[m] # Backfilled(b)
      BY <1>16, <2>2
    <3>2. hash[y] = hash[owner] /\ hash[y] # NoHash /\ hash[y] # Backfilled(y)
      BY <1>17, <1>18, <2>1, <2>4, <3>1
    <3>3. owner \in EarlierCopies(y)
      BY <2>1, <3>2 DEF EarlierCopies
    <3>4. y \in misjudged \/ Straddled(y, owner)
      BY <1>21, <2>1, <3>3 DEF CopiesInv, ShadowsInv, AppliedIsFirst
    <3> QED
      BY <1>12, <3>2, <3>4 DEF Straddled
  <2> QED
    BY <2>3, <2>4
<1>22. ASSUME NEW m \in Committed, m \notin others, NEW g \in Grains, Explained(m, g)
       PROVE  Explained(m, g)'
  <2>1. PICK y \in Committed : SameFact(y, m) /\ (counted[y][g] > 0 \/ y \in misjudged \/ Apart(y, m))
    BY <1>22 DEF Explained
  <2>2. CASE y \in misjudged
    BY <1>7, <1>12, <2>1, <2>2 DEF Explained, SameFact
  <2>3. CASE Apart(y, m)
    <3>1. hash[y] # NoHash /\ hash'[y] = hash[y]
      BY <1>17, <2>3 DEF Apart
    <3>2. hash'[m] = hash[m] \/ (hash[m] = NoHash /\ hash'[m] = Backfilled(m) /\ hash'[m] # NoHash)
      BY <1>10, <1>16, <1>17, <1>18
    <3>3. Apart(y, m)'
      BY <2>3, <3>1, <3>2 DEF Apart, Backfilled
    <3> QED
      BY <1>7, <2>1, <3>3 DEF Explained, SameFact
  <2>4. CASE counted[y][g] > 0 /\ ~(y \in others /\ status[y][g] = Applied)
    <3>1. counted'[y][g] > 0
      BY <1>2, <1>9, <2>4
    <3> QED
      BY <1>7, <2>1, <3>1 DEF Explained, SameFact
  <2>5. CASE y \in others /\ status[y][g] = Applied
    <3>1. y \in misjudged' \/ Apart(y, m)'
      BY <1>21, <1>22, <2>1, <2>5
    <3> QED
      BY <1>7, <2>1, <3>1 DEF Explained, SameFact
  <2> QED
    BY <2>1, <2>2, <2>3, <2>4, <2>5
<1>23. ASSUME NEW m \in Committed, m \in misjudged', NEW g
       PROVE  Explained(m, g)'
  BY <1>7, <1>23 DEF Explained, SameFact
<1>24. AppliedIsFirst'
  <2> SUFFICES ASSUME NEW e \in Committed, NEW g \in Grains, NEW x \in EarlierCopies(e)',
                      status'[e][g] = Applied
               PROVE  e \in misjudged' \/ Straddled(e, x)'
    BY <1>7 DEF AppliedIsFirst
  <2>1. status[e][g] = Applied /\ e \notin others
    BY <1>2, <1>9, StatusesDiffer
  <2>2. /\ x \in Committed /\ hash'[e] # NoHash /\ hash'[x] = hash'[e]
        /\ id[x] < id[e] /\ FactOf[x] # FactOf[e]
    BY <1>1, <1>7 DEF EarlierCopies
  <2>3. CASE hash'[e] = Backfilled(b)
    <3>1. e \in members /\ x \in members
      BY <1>16, <2>2, <2>3
    <3>2. FactOf[owner] = FactOf[e] /\ owner \in Committed
      BY <1>2, <1>4, <1>5, <2>1, <3>1
    <3>3. SameFact(owner, e) /\ id[owner] < id[x]
      BY <1>2, <1>6, <2>2, <3>1, <3>2, KeysAssumption DEF SameFact
    <3> QED
      BY <1>1, <1>7, <1>18, <2>3, <3>1, <3>2, <3>3 DEF Straddled, SameFact, Backfilled
  <2>4. CASE hash'[e] # Backfilled(b)
    <3>1. hash[e] = hash'[e] /\ hash[x] = hash'[x]
      BY <1>17, <2>2, <2>4
    <3>2. x \in EarlierCopies(e)
      BY <2>2, <3>1 DEF EarlierCopies
    <3>3. e \in misjudged \/ Straddled(e, x)
      BY <2>1, <3>2 DEF CopiesInv, ShadowsInv, AppliedIsFirst
    <3>4. Straddled(e, x) => Straddled(e, x)'
      BY <1>1, <1>7, <3>1 DEF Straddled, SameFact, Backfilled
    <3> QED
      BY <1>12, <3>3, <3>4
  <2> QED
    BY <2>3, <2>4
<1>25. ShadowedForAReason'
  <2> SUFFICES ASSUME NEW m \in Committed, NEW g \in Grains, status'[m][g] = NotApplicable
               PROVE  EarlierCopies(m)' # {} \/ Explained(m, g)'
    BY <1>7 DEF ShadowedForAReason
  <2>1. CASE m \in others
    BY <1>20, <1>23, <2>1
  <2>2. CASE m \notin others
    <3>1. status[m][g] = NotApplicable
      BY <1>2, <1>9, <2>2
    <3>2. EarlierCopies(m) # {} \/ Explained(m, g)
      BY <3>1 DEF CopiesInv, ShadowsInv, ShadowedForAReason
    <3> QED
      BY <1>19, <1>22, <2>2, <3>2
  <2> QED
    BY <2>1, <2>2
\* A deletion under way is of no member's device.
<1>26. DeletionReopens'
  <2> SUFFICES ASSUME deletion # NoDeletion,
                      NEW m \in Committed \ deletion.reopen, NEW g \in Grains,
                      DeviceOf[m] # deletion.device, status'[m][g] = NotApplicable,
                      EarlierCopies(m)' \subseteq OfDevice(deletion.device)'
               PROVE  Explained(m, g)' \/ CountsSomewhere(m)'
    BY <1>1, <1>7 DEF DeletionReopens, NoDeletion
  <2>1. OfDevice(deletion.device)' = OfDevice(deletion.device)
    BY <1>1, <1>7 DEF OfDevice
  <2>2. CASE m \in others
    <3>1. owner \notin OfDevice(deletion.device)
      BY <1>2, <1>4 DEF Unlocked, OfDevice
    <3> QED
      BY <1>20, <1>23, <2>1, <2>2, <3>1
  <2>3. CASE m \notin others
    <3>1. status[m][g] = NotApplicable
      BY <1>2, <1>9, <2>3
    <3>2. Explained(m, g) \/ CountsSomewhere(m)
      BY <1>19, <2>1, <3>1 DEF CopiesInv, ShadowsInv, DeletionReopens
    <3>3. ASSUME NEW y \in Committed, NEW h \in Grains, SameFact(y, m), status[y][h] = Applied
          PROVE  Explained(m, g)' \/ CountsSomewhere(m)'
      <4>1. CASE y \in others
        <5>1. y \in misjudged' \/ Apart(y, m)'
          BY <1>21, <2>3, <3>3, <4>1
        <5> QED
          BY <1>7, <3>3, <5>1 DEF Explained, SameFact
      <4>2. CASE y \notin others
        <5>1. status'[y][h] = Applied
          BY <1>2, <1>9, <3>3, <4>2
        <5> QED
          BY <1>7, <3>3, <5>1 DEF CountsSomewhere, SameFact
      <4> QED
        BY <4>1, <4>2
    <3> QED
      BY <1>22, <2>3, <3>2, <3>3 DEF CountsSomewhere
  <2> QED
    BY <2>2, <2>3
<1> QED
  BY <1>13, <1>14, <1>15, <1>24, <1>25, <1>26 DEF CopiesInv, CellsInv, ShadowsInv

-----------------------------------------------------------------------------
(* Theorems.                                                               *)

LEMMA StepKeeps == UsageInv /\ [Next]_vars => UsageInv'
<1> SUFFICES ASSUME UsageInv, [Next]_vars PROVE UsageInv'
  OBVIOUS
<1>1. ASSUME NEW d \in Devices, NEW batch \in Batches(d), NEW identified \in SUBSET batch,
             InsertBatch(d, batch, identified)
      PROVE  UsageInv'
  BY <1>1, InsertBatchKeeps
<1>2. ASSUME NEW u \in uploads, CommitBatch(u) \/ AbortBatch(u) PROVE UsageInv'
  BY <1>2, CommitBatchKeeps, AbortBatchKeeps
<1>3. ASSUME NEW e \in Events, NEW g \in Grains, Claim(e, g) \/ Reclaim(e, g) PROVE UsageInv'
  BY <1>3, ClaimKeeps, ReclaimKeeps
<1>4. ASSUME NEW c \in claims, Execute(c) \/ Fail(c) \/ GiveUp(c) PROVE UsageInv'
  BY <1>4, ExecuteKeeps, FailKeeps, GiveUpKeeps
<1>5. ASSUME NEW d \in Devices, DeletionStarts(d) PROVE UsageInv'
  BY <1>5, DeletionStartsKeeps
<1>6. CASE DeletionCommits \/ DeletionFails
  BY <1>6, DeletionCommitsKeeps, DeletionFailsKeeps
<1>7. ASSUME NEW e \in Events, Backfill(e) PROVE UsageInv'
  BY <1>7, BackfillKeeps
<1>8. CASE UNCHANGED vars
  <2>1. UNCHANGED <<id, hash, status, task, counted, uploads, acked, claims, deletion, misjudged,
                    recounted, deletions, mishaps>>
    BY <1>8 DEF vars, rows, work, history
  <2>2. Rows' = Rows /\ Committed' = Committed
    BY <2>1 DEF Rows, Committed
  <2>3. TypeOK'
    BY <2>1, Types DEF TypeOK, Backfilled
  <2> QED
    BY <2>1, <2>2, <2>3 DEF UsageInv, RowsAreConsistent, BucketsAreApplied, NoTaskForgotten,
        AckedIsStored, OneRevisionCounts, SameFact, StaleAreCounted, Stale, ClaimsAreOfRows,
        UploadsApart, UncommittedAreNew, DeletionUnderWay, NoDeletion
<1> QED
  BY <1>1, <1>2, <1>3, <1>4, <1>5, <1>6, <1>7, <1>8 DEF Next

\* The inductive invariant: rows, tasks, buckets and answers agree, revisions of
\* a fact exclude one another, claims are of rows others see, uploads are apart.
THEOREM UsageInvariant == Spec => []UsageInv
<1>1. UsageInv /\ [Next]_vars => UsageInv'
  BY StepKeeps
<1> QED
  BY <1>1, InitEstablishes, PTL DEF Spec

\* Whatever is aborted, retried, reclaimed, reopened, backfilled or deleted, each
\* table agrees with the others, and what was acknowledged is stored.
THEOREM RowsAgree == Spec => []RowsAreConsistent
<1>1. UsageInv => RowsAreConsistent
  BY DEF UsageInv
<1> QED
  BY <1>1, UsageInvariant, PTL

\* A bucket contains an applied row once and no other row, except the rows a
\* deletion reopened in a grain that already counted them.
THEOREM BucketsFollowTheRows == Spec => []BucketsAreApplied
<1>1. UsageInv => BucketsAreApplied
  BY DEF UsageInv, RowsAreConsistent
<1> QED
  BY <1>1, UsageInvariant, PTL

\* No two revisions of one fact are counted in the same grain.
THEOREM RevisionsExcludeOneAnother == Spec => []OneRevisionCounts
<1>1. UsageInv => OneRevisionCounts
  BY DEF UsageInv
<1> QED
  BY <1>1, UsageInvariant, PTL

LEMMA StepKeepsCopies == UsageInv /\ CopiesInv /\ [Next]_vars => CopiesInv'
<1> SUFFICES ASSUME UsageInv, CopiesInv, [Next]_vars PROVE CopiesInv'
  OBVIOUS
<1>1. ASSUME NEW d \in Devices, NEW batch \in Batches(d), NEW identified \in SUBSET batch,
             InsertBatch(d, batch, identified)
      PROVE  CopiesInv'
  BY <1>1, InsertBatchKeepsCopies
<1>2. ASSUME NEW u \in uploads, CommitBatch(u) \/ AbortBatch(u) PROVE CopiesInv'
  BY <1>2, CommitBatchKeepsCopies, AbortBatchKeepsCopies
<1>3. ASSUME NEW e \in Events, NEW g \in Grains, Claim(e, g) \/ Reclaim(e, g) PROVE CopiesInv'
  BY <1>3, ClaimsKeepCopies DEF Claim, Reclaim, rows, history
<1>4. ASSUME NEW c \in claims, Fail(c) \/ GiveUp(c) PROVE CopiesInv'
  BY <1>4, ClaimsKeepCopies DEF Fail, GiveUp, rows, work, history
<1>5. ASSUME NEW c \in claims, Execute(c) PROVE CopiesInv'
  BY <1>5, ExecuteKeepsCopies
<1>6. ASSUME NEW d \in Devices, DeletionStarts(d) PROVE CopiesInv'
  BY <1>6, DeletionStartsKeepsCopies
<1>7. CASE DeletionCommits
  BY <1>7, DeletionCommitsKeepsCopies
<1>8. CASE DeletionFails
  BY <1>8, ClaimsKeepCopies DEF DeletionFails, rows, work, history
<1>9. ASSUME NEW e \in Events, Backfill(e) PROVE CopiesInv'
  BY <1>9, BackfillKeepsCopies
<1>10. CASE UNCHANGED vars
  BY <1>10, ClaimsKeepCopies DEF vars, rows, work, history
<1> QED
  BY <1>1, <1>2, <1>3, <1>4, <1>5, <1>6, <1>7, <1>8, <1>9, <1>10 DEF Next

\* The inductive invariant about copies: an applied row is the first of its copies,
\* a row that does not apply has an earlier copy or an explanation, and a deletion
\* under way leaves no row shadowed for nothing; but for the rows in misjudged.
THEOREM CopiesInvariant == Spec => []CopiesInv
<1>1. UsageInv /\ CopiesInv /\ [Next]_vars => CopiesInv'
  BY StepKeepsCopies
<1> QED
  BY <1>1, InitCopies, UsageInvariant, PTL DEF Spec

LEMMA FirstCopiesCount == UsageInv /\ CopiesInv => CountedTwiceOnlyIfLate
<1> SUFFICES ASSUME UsageInv, CopiesInv, NEW e \in Committed, NEW g \in Grains,
                    NEW x \in EarlierCopies(e), counted[e][g] > 0, e \notin recounted
             PROVE  e \in misjudged \/ Straddled(e, x)
  BY DEF CountedTwiceOnlyIfLate
<1>1. status[e][g] = Applied
  <2>1. e \in Events \ recounted
    BY Types
  <2>2. counted[e][g] = IF status[e][g] = Applied THEN 1 ELSE 0
    BY <2>1 DEF UsageInv, RowsAreConsistent, BucketsAreApplied
  <2> QED
    BY <2>2
<1> QED
  BY <1>1 DEF CopiesInv, ShadowsInv, AppliedIsFirst

\* Whatever the order of uploads, executions, deletions and backfills, two copies
\* of a usage count together only if the earlier was committed after the later was
\* settled, or the later was reopened where it counted, or the backfill kept a
\* revision later than the copy.
THEOREM CopiesCountOnce == Spec => []CountedTwiceOnlyIfLate
BY FirstCopiesCount, UsageInvariant, CopiesInvariant, PTL

LEMMA SameUsageReflexive ==
    ASSUME NEW e \in Committed
    PROVE  SameUsage(e, e)
BY DEF SameUsage, SameFact

\* A revision of a fact is of the usages the fact is of.
LEMMA RevisionsShareUsage ==
    ASSUME NEW x, NEW y, NEW e, SameUsage(x, e), SameFact(y, x)
    PROVE  SameUsage(y, e)
<1>1. CASE SameFact(x, e)
  BY <1>1 DEF SameUsage, SameFact
<1>2. ASSUME NEW v \in Committed, NEW z \in Committed, SameFact(v, x), SameFact(z, e),
             hash[v] = hash[z], hash[z] \notin {NoHash, Zero}
      PROVE  SameUsage(y, e)
  BY <1>2 DEF SameUsage, SameFact
<1> QED
  BY <1>1, <1>2 DEF SameUsage

\* The row of least id among the copies of a lost usage says why it is lost.
LEMMA FirstRowExplains ==
    ASSUME UsageInv, CopiesInv, Quiet, NEW e \in Committed, NEW g \in Grains, Lost(e, g),
           ~Misidentified(e)
    PROVE  \E x \in misjudged : SameUsage(x, e)
<1> DEFINE U == {x \in Committed : SameUsage(x, e)}
           ids == {id[x] : x \in U}
<1>1. PICK m \in U : \A x \in U : id[m] <= id[x]
  <2>1. id \in [Events -> Nat] /\ U \subseteq Events
    BY Types DEF TypeOK
  <2>2. e \in U
    BY SameUsageReflexive
  <2> HIDE DEF U
  <2>3. \A x \in U : id[x] \in Nat
    BY <2>1
  <2>4. id[e] \in ids
    BY <2>2
  <2>5. ids \in SUBSET Nat /\ ids # {}
    BY <2>3, <2>4
  <2>6. \E n \in ids : \A k \in ids : n <= k
    <3> HIDE DEF ids
    <3> QED BY <2>5, LeastNatural
  <2> QED
    BY <2>6
<1>2. m \in Committed /\ SameUsage(m, e) /\ m \in Events /\ m \in Rows
  BY Types
\* Revisions of m are copies of e, hence of one hash, which is not the zero hash.
<1>3. \A x \in U, y \in Committed : SameFact(y, x) => y \in U
  BY RevisionsShareUsage
<1>4. \A x, y \in Committed : SameUsage(x, e) /\ SameFact(x, y) => hash[x] # Zero /\ hash[x] = hash[y]
  BY DEF Misidentified
<1>5. EarlierCopies(m) = {}
  <2> SUFFICES ASSUME NEW x \in EarlierCopies(m) PROVE FALSE
    OBVIOUS
  <2>1. x \in Committed /\ hash[m] # NoHash /\ hash[x] = hash[m] /\ id[x] < id[m]
    BY DEF EarlierCopies
  <2>2. hash[m] # Zero
    BY <1>2, <1>4 DEF SameFact
  <2>3. SameUsage(x, e)
    <3>1. CASE SameFact(m, e)
      <4>1. SameFact(x, x)
        BY DEF SameFact
      <4> QED
        BY <1>2, <2>1, <2>2, <3>1, <4>1 DEF SameUsage
    <3>2. ASSUME NEW y \in Committed, NEW z \in Committed, SameFact(y, m), SameFact(z, e),
                 hash[y] = hash[z], hash[z] \notin {NoHash, Zero}
          PROVE  SameUsage(x, e)
      <4>1. hash[m] = hash[y]
        BY <1>2, <1>4, <3>2 DEF SameFact
      <4>2. SameFact(x, x)
        BY DEF SameFact
      <4> QED
        BY <2>1, <3>2, <4>1, <4>2 DEF SameUsage
    <3> QED
      BY <1>2, <3>1, <3>2 DEF SameUsage
  <2>4. id[m] <= id[x] /\ id[m] \in Nat /\ id[x] \in Nat
    <3>1. x \in Events
      BY <2>1, Types
    <3> QED
      BY <1>1, <1>2, <2>1, <2>3, <3>1, Types DEF TypeOK
  <2> QED
    BY <2>1, <2>4
<1>6. counted[m][g] = 0
  BY <1>2 DEF Lost
<1>7. status[m][g] = NotApplicable
  <2>1. status[m][g] # Pending
    BY <1>2 DEF Quiet, UsageInv, RowsAreConsistent, NoTaskForgotten
  <2>2. status[m][g] # Applied
    <3>1. status[m][g] = Applied => counted[m][g] > 0
      BY <1>2 DEF CopiesInv, CellsInv, AppliedIsCounted
    <3> QED
      BY <1>6, <3>1
  <2> QED
    BY <1>2, <2>1, <2>2, CellsTyped DEF Statuses
<1>8. PICK y \in Committed : SameFact(y, m) /\ (counted[y][g] > 0 \/ y \in misjudged \/ Apart(y, m))
  BY <1>2, <1>5, <1>7 DEF CopiesInv, ShadowsInv, ShadowedForAReason, Explained
<1>9. y \in U
  BY <1>3, <1>8
<1>10. counted[y][g] = 0
  BY <1>9 DEF Lost
<1>11. ~Apart(y, m)
  BY <1>2, <1>4, <1>8, <1>9 DEF Apart
<1> QED
  BY <1>8, <1>9, <1>10, <1>11

LEMMA LossExplained == UsageInv /\ CopiesInv => LostOnlyForAReason
BY FirstRowExplains DEF LostOnlyForAReason

\* When no upload, deletion or task is left, a usage that counts nowhere was settled
\* on a view that was not final, or one of its rows has a hash that is not its own.
THEOREM LossHasAReason == Spec => []LostOnlyForAReason
BY LossExplained, UsageInvariant, CopiesInvariant, PTL

=============================================================================
