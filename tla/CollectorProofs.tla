--------------------------- MODULE CollectorProofs ---------------------------
(***************************************************************************)
(* The two ends of the collector: how its command line keeps what it has   *)
(* read until the server has it (WalSpool), and how its daemon reads a     *)
(* source (SourceLease), for every value of their constants.               *)
(*                                                                         *)
(* The spool.  NothingIsLost is not inductive: what opening recovers is    *)
(* what the frames and the snapshot say, so the invariant (StoreInv) says  *)
(* of the disk what the property says of memory.  Covered: no checkpoint   *)
(* on the disk is ahead of the records the disk has.  Reaches: the         *)
(* transactions newer than the snapshot end at the checkpoint of memory,   *)
(* which is why a replay, whose checkpoint is that of the last of them,    *)
(* does not go back; an append puts its frame last only because the        *)
(* active segment is the highest (Highest) and no frame of it is torn      *)
(* (TornAtEnd), so both stand until a frame is written that no replay      *)
(* reads, behind a torn one or too long.                                   *)
(*                                                                         *)
(* The source.  ReadOnce is not inductive: a commit keeps it only because  *)
(* the runner whose token is in the row loaded the checkpoint that is in   *)
(* the row (HolderIsCurrent), and because what it read lies within the     *)
(* source (ReadInside).                                                    *)
(***************************************************************************)
EXTENDS SourceLease, WalSpool, FiniteSetTheorems, SequenceTheorems, TLAPS

-----------------------------------------------------------------------------
(* Least and greatest numbers, and induction over them.                    *)

\* A set of numbers that is not empty has a least one.
LEMMA LeastNatural ==
  ASSUME NEW S \in SUBSET Nat, S # {}
  PROVE  \E n \in S : \A m \in S : n <= m
<1>1. PICK n \in S : \A m \in S : <<m, n>> \notin OpToRel(<, Nat)
  BY NatLessThanWellFounded, WFMin
<1>2. \A m \in S : ~(m < n)
  BY <1>1 DEF OpToRel
<1> QED
  BY <1>2

\* A statement that holds of 0 and passes on from n - 1 to n holds of 0..k.
\* (for statements given as the set of the numbers of which they hold)
LEMMA UpTo ==
  ASSUME NEW k \in Nat, NEW S, 0 \in S,
         \A n \in 1..k : n - 1 \in S => n \in S
  PROVE  \A n \in 0..k : n \in S
<1>1. SUFFICES ASSUME NEW m \in 0..k, m \notin S PROVE FALSE
  OBVIOUS
<1> DEFINE no == {n \in 0..k : n \notin S}
<1>2. no \in SUBSET Nat /\ no # {}
  BY <1>1
<1>3. PICK n \in no : \A x \in no : n <= x
  <2> HIDE DEF no
  <2> QED BY <1>2, LeastNatural
<1>4. n \in 1..k /\ n - 1 \in 0..k /\ n - 1 \notin no
  BY <1>3
<1> QED
  BY <1>3, <1>4

\* Min and Max are the least and the greatest.
LEMMA MinIs ==
  ASSUME NEW S \in SUBSET Nat, S # {}
  PROVE  Min(S) \in S /\ \A x \in S : Min(S) <= x
BY LeastNatural DEF Min

LEMMA MaxIs ==
  ASSUME NEW S \in SUBSET Nat, IsFiniteSet(S), S # {}
  PROVE  Max(S) \in S /\ \A x \in S : x <= Max(S)
<1> DEFINE above == {n \in Nat : \A x \in S : x <= n}
<1>1. above # {}
  <2> DEFINE c == Cardinality(S)
  <2>0. c \in Nat
    BY FS_CardinalityType
  <2>1. PICK f \in [1..c -> S] : \A x \in S : \E i \in 1..c : f[i] = x
    BY FS_CardinalityType DEF ExistsBijection, Bijection, Surjection
  <2> HIDE DEF c
  <2> DEFINE bounded == {k \in 0..c : \E n \in Nat : \A i \in 1..k : f[i] <= n}
  <2>2. 0 \in bounded
    BY <2>0
  <2>3. \A k \in 1..c : k - 1 \in bounded => k \in bounded
    <3>1. SUFFICES ASSUME NEW k \in 1..c, k - 1 \in bounded
                   PROVE  k \in bounded
      OBVIOUS
    <3>2. PICK n \in Nat : \A i \in 1..(k - 1) : f[i] <= n
      BY <2>0, <3>1
    <3>3. f[k] \in Nat
      BY <2>0, <2>1, <3>1
    <3>4. \A i \in 1..k : i \in 1..c /\ f[i] \in Nat
      <4>1. \A i \in 1..c : f[i] \in Nat
        BY <2>1
      <4> QED BY <2>0, <3>1, <4>1
    <3>5. \A i \in 1..k : f[i] <= n + f[k]
      BY <2>0, <3>1, <3>2, <3>3, <3>4
    <3> QED BY <2>0, <3>3, <3>5
  <2> HIDE DEF bounded
  <2>4. c \in bounded
    <3>1. \A k \in 0..c : k \in bounded
      BY <2>0, <2>2, <2>3, UpTo
    <3> QED BY <2>0, <3>1
  <2>5. PICK n \in Nat : \A i \in 1..c : f[i] <= n
    BY <2>0, <2>4 DEF bounded
  <2>6. \A x \in S : x <= n
    BY <2>1, <2>5
  <2> QED BY <2>5, <2>6
<1>2. PICK n \in above : \A m \in above : n <= m
  BY <1>1, LeastNatural
<1>3. n \in S
  <2>1. SUFFICES ASSUME n \notin S PROVE FALSE
    OBVIOUS
  <2>2. PICK s \in S : TRUE
    OBVIOUS
  <2>3. s \in Nat /\ s <= n /\ s # n
    BY <1>2, <2>1, <2>2
  <2>4. n - 1 \in above
    BY <1>2, <2>1, <2>3
  <2> QED BY <1>2, <2>4
<1> QED
  BY <1>2, <1>3 DEF Max

-----------------------------------------------------------------------------
(* What a reader gets of a segment.                                        *)

Whole == {"txn", "ack", "dead"}

\* A reader gets the frames before the first that does not decode.
LEMMA ReadableIs ==
  ASSUME NEW s \in Seq(Frames)
  PROVE  /\ Readable(s) \in Seq(Frames)
         /\ Len(Readable(s)) \in 0..Len(s)
         /\ \A i \in 1..Len(Readable(s)) : Readable(s)[i] = s[i] /\ s[i].kind \in Whole
         /\ \/ Len(Readable(s)) = Len(s)
            \/ s[Len(Readable(s)) + 1].kind \notin Whole
         /\ Unreadable(s) = {} => Readable(s) = s
<1>1. /\ Len(s) \in Nat /\ DOMAIN s = 1..Len(s)
      /\ \A i \in 1..Len(s) : s[i] \in Frames
  OBVIOUS
<1>2. Unreadable(s) \in SUBSET Nat /\ Unreadable(s) \subseteq 1..Len(s)
  BY <1>1 DEF Unreadable
<1>3. \A i \in 1..Len(s) : i \notin Unreadable(s) <=> s[i].kind \in Whole
  BY <1>1 DEF Unreadable, Frames, Whole
<1>4. CASE Unreadable(s) = {}
  BY <1>1, <1>3, <1>4 DEF Readable
<1>5. CASE Unreadable(s) # {}
  <2> DEFINE m == Min(Unreadable(s))
  <2>1. m \in Unreadable(s) /\ \A x \in Unreadable(s) : m <= x
    BY <1>2, <1>5, MinIs
  <2>2. m \in 1..Len(s)
    BY <1>2, <2>1
  <2>3. Readable(s) = SubSeq(s, 1, m - 1)
    BY <1>5 DEF Readable
  <2> HIDE DEF m
  <2>4. /\ SubSeq(s, 1, m - 1) \in Seq(Frames)
        /\ Len(SubSeq(s, 1, m - 1)) = m - 1
        /\ \A i \in 1..(m - 1) : SubSeq(s, 1, m - 1)[i] = s[i]
    BY <1>1, <2>2
  <2>5. \A i \in 1..(m - 1) : i \in 1..Len(s) /\ i \notin Unreadable(s)
    BY <1>1, <2>1, <2>2
  <2>6. m - 1 \in 0..Len(s) /\ s[(m - 1) + 1].kind \notin Whole
    BY <1>1, <1>3, <2>1, <2>2
  <2> QED BY <1>3, <1>5, <2>3, <2>4, <2>5, <2>6
<1> QED BY <1>4, <1>5

\* A prefix of whole frames that ends where the sequence does or before a frame
\* that is not whole is what is read of it.
LEMMA ReadableBy ==
  ASSUME NEW s \in Seq(Frames), NEW n \in 0..Len(s),
         \A i \in 1..n : s[i].kind \in Whole,
         n = Len(s) \/ s[n + 1].kind \notin Whole
  PROVE  Len(Readable(s)) = n
<1>1. Len(s) \in Nat
  OBVIOUS
<1>2. PICK r \in 0..Len(s) : r = Len(Readable(s))
  BY ReadableIs
<1>3. /\ \A i \in 1..r : s[i].kind \in Whole
      /\ r = Len(s) \/ s[r + 1].kind \notin Whole
  BY <1>2, ReadableIs
<1>4. ~ (r < n)
  <2>1. SUFFICES ASSUME r < n PROVE FALSE
    OBVIOUS
  <2>2. r + 1 \in 1..n /\ r # Len(s)
    BY <1>1, <1>2, <2>1
  <2> QED BY <1>3, <2>2
<1>5. ~ (n < r)
  <2>1. SUFFICES ASSUME n < r PROVE FALSE
    OBVIOUS
  <2>2. n + 1 \in 1..r /\ n # Len(s)
    BY <1>1, <1>2, <2>1
  <2> QED BY <1>3, <2>2
<1> QED BY <1>1, <1>2, <1>4, <1>5

-----------------------------------------------------------------------------

\* InOrder lists a finite set of numbers in ascending order.
LEMMA InOrderIs ==
  ASSUME NEW S \in SUBSET Nat, IsFiniteSet(S)
  PROVE  /\ Cardinality(S) \in Nat
         /\ InOrder(S) \in [1..Cardinality(S) -> S]
         /\ \A i, j \in 1..Cardinality(S) : i < j => InOrder(S)[i] < InOrder(S)[j]
         /\ \A x \in S : \E i \in 1..Cardinality(S) : InOrder(S)[i] = x
<1> DEFINE n == Cardinality(S)
           below(x) == {y \in S : y < x}
           rank(x) == Cardinality(below(x))
<1>1. n \in Nat
  BY FS_CardinalityType
<1>2. ASSUME NEW x \in S PROVE IsFiniteSet(below(x)) /\ rank(x) \in 0..(n - 1)
  <2>1. below(x) \in SUBSET S /\ x \notin below(x)
    OBVIOUS
  <2>2. IsFiniteSet(below(x)) /\ rank(x) <= n /\ (n = rank(x) => S = below(x))
    BY <2>1, FS_Subset
  <2>3. rank(x) \in Nat
    BY <2>2, FS_CardinalityType
  <2> QED BY <1>1, <2>1, <2>2, <2>3
<1>3. ASSUME NEW x \in S, NEW y \in S, x < y PROVE rank(x) < rank(y)
  <2>1. below(x) \in SUBSET below(y) /\ x \in below(y) /\ x \notin below(x)
    <3>1. \A z \in S : z \in Nat
      OBVIOUS
    <3>2. ~(x < x) /\ \A z \in S : z < x => z < y
      BY <1>3, <3>1
    <3> QED BY <1>3, <3>2
  <2>2. rank(x) <= rank(y) /\ (rank(y) = rank(x) => below(y) = below(x))
    BY <1>2, <2>1, FS_Subset
  <2>3. rank(x) \in Nat /\ rank(y) \in Nat
    BY <1>2, <1>1
  <2> QED BY <2>1, <2>2, <2>3
<1>4. \A i \in 1..n : \E x \in S : rank(x) = i - 1
  <2> DEFINE f == [x \in S |-> rank(x)]
  <2>1. f \in [S -> 0..(n - 1)]
    BY <1>2
  <2>2. \A x, y \in S : f[x] = f[y] => x = y
    <3>1. TAKE x, y \in S
    <3>2. x < y \/ y < x \/ x = y
      <4>1. x \in Nat /\ y \in Nat
        OBVIOUS
      <4> QED BY <4>1
    <3>3. rank(x) \in Nat /\ rank(y) \in Nat
      BY <1>2, <1>1
    <3>4. f[x] = rank(x) /\ f[y] = rank(y)
      OBVIOUS
    <3>5. x < y => rank(x) < rank(y)
      BY <1>3
    <3>6. y < x => rank(y) < rank(x)
      BY <1>3
    <3> HIDE DEF rank, f
    <3> QED BY <3>2, <3>3, <3>4, <3>5, <3>6
  <2>3. IsFiniteSet(0..(n - 1)) /\ Cardinality(0..(n - 1)) = n
    <3>1. n - 1 \in Int /\ 0 \in Int
      BY <1>1
    <3>2. /\ IsFiniteSet(0..(n - 1))
          /\ Cardinality(0..(n - 1)) = IF 0 > n - 1 THEN 0 ELSE n - 1 - 0 + 1
      BY <3>1, FS_Interval
    <3> HIDE DEF n
    <3> QED BY <1>1, <3>2
  <2>4. f \in Surjection(S, 0..(n - 1))
    <3>1. f \in Injection(S, 0..(n - 1))
      BY <2>1, <2>2 DEF Injection, IsInjective
    <3> HIDE DEF f
    <3> QED BY <2>3, <3>1, FS_Injection
  <2>5. \A k \in 0..(n - 1) : \E x \in S : f[x] = k
    BY <2>4 DEF Surjection
  <2>6. \A x \in S : f[x] = rank(x)
    OBVIOUS
  <2> HIDE DEF rank, f, n
  <2>7. \A i \in 1..n : i - 1 \in 0..(n - 1)
    BY <1>1
  <2> QED BY <2>5, <2>6, <2>7
<1>5. DOMAIN InOrder(S) = 1..n /\ \A i \in 1..n : InOrder(S)[i] \in S /\ rank(InOrder(S)[i]) = i - 1
  BY <1>4 DEF InOrder
<1>6. InOrder(S) \in [1..n -> S]
  BY <1>5 DEF InOrder
<1> HIDE DEF rank, n
<1>7. \A i, j \in 1..n : i < j => InOrder(S)[i] < InOrder(S)[j]
  <2>1. TAKE i, j \in 1..n
  <2>2. HAVE i < j
  <2> DEFINE x == InOrder(S)[i]
             y == InOrder(S)[j]
  <2>3. x \in S /\ y \in S /\ rank(x) = i - 1 /\ rank(y) = j - 1
    BY <1>5
  <2>4. x < y \/ y < x \/ x = y
    <3>1. x \in Nat /\ y \in Nat
      BY <2>3
    <3> QED BY <3>1
  <2> HIDE DEF x, y
  <2>5. ~(y < x) /\ x # y
    BY <1>1, <1>3, <2>2, <2>3
  <2>6. x < y
    BY <2>4, <2>5
  <2> QED BY <2>6 DEF x, y
<1>8. \A x \in S : \E i \in 1..n : InOrder(S)[i] = x
  <2>1. TAKE x \in S
  <2>2. rank(x) \in 0..(n - 1)
    BY <1>2
  <2>3. rank(x) + 1 \in 1..n
    BY <1>1, <2>2
  <2> DEFINE y == InOrder(S)[rank(x) + 1]
  <2>4. y \in S /\ rank(y) = rank(x)
    BY <1>1, <1>5, <2>2, <2>3
  <2>5. x < y \/ y < x \/ x = y
    <3>1. x \in Nat /\ y \in Nat
      BY <2>4
    <3> HIDE DEF y
    <3> QED BY <3>1
  <2> HIDE DEF y
  <2>6. x = y
    BY <1>3, <1>1, <2>2, <2>4, <2>5
  <2> QED BY <2>3, <2>6 DEF y
<1> QED BY <1>1, <1>6, <1>7, <1>8 DEF n

-----------------------------------------------------------------------------
(* The functions of LogUpTo and Replayed are what their equations say.     *)

\* The log, segment by segment.
LEMMA LogUpToIs ==
  ASSUME NEW segs, NEW ids, Len(ids) \in Nat
  PROVE  LogUpTo(ids, segs) =
           [n \in 0..Len(ids) |->
              IF n = 0 THEN <<>> ELSE LogUpTo(ids, segs)[n - 1] \o Readable(segs[ids[n]])]
<1> DEFINE isLog(g, k) ==
             g = [n \in 0..k |-> IF n = 0 THEN <<>> ELSE g[n - 1] \o Readable(segs[ids[n]])]
           has == {k \in 0..Len(ids) : \E g : isLog(g, k)}
<1>1. 0 \in has
  <2>1. isLog([n \in 0..0 |-> <<>>], 0)
    OBVIOUS
  <2> HIDE DEF isLog
  <2> QED BY <2>1
<1>2. \A k \in 1..Len(ids) : k - 1 \in has => k \in has
  <2>1. SUFFICES ASSUME NEW k \in 1..Len(ids), k - 1 \in has PROVE k \in has
    OBVIOUS
  <2>2. PICK g : isLog(g, k - 1)
    BY <2>1
  <2> DEFINE h == [n \in 0..k |-> IF n = k THEN g[k - 1] \o Readable(segs[ids[k]]) ELSE g[n]]
  <2>3. isLog(h, k)
    <3>1. \A n \in 0..k : n # 0 => n - 1 \in 0..(k - 1) /\ h[n - 1] = g[n - 1]
      BY <2>1
    <3>2. \A n \in 0..(k - 1) :
            g[n] = IF n = 0 THEN <<>> ELSE g[n - 1] \o Readable(segs[ids[n]])
      BY <2>2
    <3>3. \A n \in 0..k : h[n] = IF n = 0 THEN <<>> ELSE h[n - 1] \o Readable(segs[ids[n]])
      <4>1. TAKE n \in 0..k
      <4>2. CASE n = k
        <5>1. n # 0 /\ h[n] = g[n - 1] \o Readable(segs[ids[n]])
          <6>1. k \in 0..k /\ k # 0
            BY <2>1
          <6>2. h[k] = g[k - 1] \o Readable(segs[ids[k]])
            BY <6>1
          <6> HIDE DEF h
          <6> QED BY <4>2, <6>1, <6>2
        <5>2. h[n - 1] = g[n - 1]
          BY <3>1, <5>1
        <5> HIDE DEF h
        <5> QED BY <5>1, <5>2
      <4>3. CASE n # k
        <5>1. n \in 0..(k - 1) /\ h[n] = g[n]
          BY <2>1, <4>3
        <5> QED BY <3>1, <3>2, <5>1
      <4> QED BY <4>2, <4>3
    <3>4. h = [n \in 0..k |-> h[n]]
      OBVIOUS
    <3> HIDE DEF h
    <3> QED BY <3>3, <3>4
  <2> HIDE DEF isLog, h
  <2> QED BY <2>1, <2>3
<1> HIDE DEF has
<1>3. \A k \in 0..Len(ids) : k \in has
  BY <1>1, <1>2, UpTo
<1>4. \E g : isLog(g, Len(ids))
  <2> HIDE DEF isLog
  <2> QED BY <1>3 DEF has
<1>5. LogUpTo(ids, segs) = CHOOSE g : isLog(g, Len(ids))
  BY DEF LogUpTo
<1>6. isLog(LogUpTo(ids, segs), Len(ids))
  <2> HIDE DEF isLog
  <2> QED BY <1>4, <1>5
<1> QED BY <1>6

\* What is known, frame by frame.
LEMMA ReplayedIs ==
  ASSUME NEW log, NEW snap, Len(log) \in Nat
  PROVE  Replayed(log, snap) =
           [n \in 0..Len(log) |->
              IF n = 0 THEN [offset |-> snap.offset, queued |-> {},
                             acked |-> snap.acked, dead |-> snap.dead]
              ELSE Decoded(Replayed(log, snap)[n - 1], log[n], snap.last)]
<1> DEFINE start == [offset |-> snap.offset, queued |-> {},
                     acked |-> snap.acked, dead |-> snap.dead]
           isReplay(g, k) ==
             g = [n \in 0..k |-> IF n = 0 THEN start ELSE Decoded(g[n - 1], log[n], snap.last)]
           has == {k \in 0..Len(log) : \E g : isReplay(g, k)}
<1>1. 0 \in has
  <2>1. isReplay([n \in 0..0 |-> start], 0)
    OBVIOUS
  <2> HIDE DEF isReplay
  <2> QED BY <2>1
<1>2. \A k \in 1..Len(log) : k - 1 \in has => k \in has
  <2>1. SUFFICES ASSUME NEW k \in 1..Len(log), k - 1 \in has PROVE k \in has
    OBVIOUS
  <2> HIDE DEF start
  <2>2. PICK g : isReplay(g, k - 1)
    BY <2>1
  <2> DEFINE h == [n \in 0..k |-> IF n = k THEN Decoded(g[k - 1], log[k], snap.last) ELSE g[n]]
  <2>3. isReplay(h, k)
    <3>1. \A n \in 0..k : n # 0 => n - 1 \in 0..(k - 1) /\ h[n - 1] = g[n - 1]
      BY <2>1
    <3>2. \A n \in 0..(k - 1) :
            g[n] = IF n = 0 THEN start ELSE Decoded(g[n - 1], log[n], snap.last)
      BY <2>2
    <3>3. \A n \in 0..k : h[n] = IF n = 0 THEN start ELSE Decoded(h[n - 1], log[n], snap.last)
      <4>1. TAKE n \in 0..k
      <4>2. CASE n = k
        <5>1. n # 0 /\ h[n] = Decoded(g[n - 1], log[n], snap.last)
          <6>1. k \in 0..k /\ k # 0
            BY <2>1
          <6>2. h[k] = Decoded(g[k - 1], log[k], snap.last)
            BY <6>1
          <6> HIDE DEF h
          <6> QED BY <4>2, <6>1, <6>2
        <5>2. h[n - 1] = g[n - 1]
          BY <3>1, <5>1
        <5> HIDE DEF h
        <5> QED BY <5>1, <5>2
      <4>3. CASE n # k
        <5>1. n \in 0..(k - 1) /\ h[n] = g[n]
          BY <2>1, <4>3
        <5> QED BY <3>1, <3>2, <5>1
      <4> QED BY <4>2, <4>3
    <3>4. h = [n \in 0..k |-> h[n]]
      OBVIOUS
    <3> HIDE DEF h
    <3> QED BY <3>3, <3>4
  <2> HIDE DEF isReplay, h
  <2> QED BY <2>1, <2>3
<1> HIDE DEF has
<1>3. \A k \in 0..Len(log) : k \in has
  BY <1>1, <1>2, UpTo
<1>4. \E g : isReplay(g, Len(log))
  <2> HIDE DEF isReplay
  <2> QED BY <1>3 DEF has
<1>5. Replayed(log, snap) = CHOOSE g : isReplay(g, Len(log))
  BY DEF Replayed
<1>6. isReplay(Replayed(log, snap), Len(log))
  <2> HIDE DEF isReplay
  <2> QED BY <1>4, <1>5
<1> QED BY <1>6

-----------------------------------------------------------------------------
(* A log and the places in the segments its frames come from.              *)

SegmentsTyped(segs) ==
  /\ DOMAIN segs \in SUBSET Nat
  /\ IsFiniteSet(DOMAIN segs)
  /\ segs \in [DOMAIN segs -> Seq(Frames)]

\* l is what these places of the segments hold, k segments in their order.
ArePlaces(l, ids, segs, k, at, pos) ==
  /\ at \in [1..Len(l) -> 1..k] /\ pos \in [1..Len(l) -> Nat]
  /\ \A x \in 1..Len(l) :
       /\ pos[x] \in 1..Len(Readable(segs[ids[at[x]]]))
       /\ l[x] = Readable(segs[ids[at[x]]])[pos[x]]
  /\ \A x, y \in 1..Len(l) :
       x < y => at[x] < at[y] \/ (at[x] = at[y] /\ pos[x] < pos[y])
  /\ \A j \in 1..k : \A i \in 1..Len(Readable(segs[ids[j]])) :
       \E x \in 1..Len(l) : at[x] = j /\ pos[x] = i

\* One more segment read.
LEMMA PlacesGrow ==
  ASSUME NEW l \in Seq(Frames), NEW ids, NEW segs, NEW k \in Nat \ {0}, NEW at, NEW pos,
         Readable(segs[ids[k]]) \in Seq(Frames),
         ArePlaces(l, ids, segs, k - 1, at, pos)
  PROVE  \E at2, pos2 : ArePlaces(l \o Readable(segs[ids[k]]), ids, segs, k, at2, pos2)
<1> DEFINE r == Readable(segs[ids[k]])
           R(j) == Readable(segs[ids[j]])
           l2 == l \o r
           a == Len(l)
           b == Len(r)
           at2 == [x \in 1..(a + b) |-> IF x <= a THEN at[x] ELSE k]
           pos2 == [x \in 1..(a + b) |-> IF x <= a THEN pos[x] ELSE x - a]
<1>1. /\ a \in Nat /\ b \in Nat /\ Len(l2) = a + b
      /\ \A x \in 1..(a + b) : l2[x] = IF x <= a THEN l[x] ELSE r[x - a]
  <2>1. r \in Seq(Frames)
    OBVIOUS
  <2> HIDE DEF r
  <2> QED BY <2>1, ConcatProperties
<1>2. /\ at \in [1..a -> 1..(k - 1)] /\ pos \in [1..a -> Nat]
      /\ \A x \in 1..a : pos[x] \in 1..Len(R(at[x])) /\ l[x] = R(at[x])[pos[x]]
      /\ \A x, y \in 1..a : x < y => at[x] < at[y] \/ (at[x] = at[y] /\ pos[x] < pos[y])
      /\ \A j \in 1..(k - 1) : \A i \in 1..Len(R(j)) : \E x \in 1..a : at[x] = j /\ pos[x] = i
  BY DEF ArePlaces
<1>3. /\ \A x \in 1..(a + b) : x <= a => x \in 1..a /\ at2[x] = at[x] /\ pos2[x] = pos[x]
      /\ \A x \in 1..(a + b) : x > a => x - a \in 1..b /\ at2[x] = k /\ pos2[x] = x - a
      /\ at2 \in [1..(a + b) -> 1..k] /\ pos2 \in [1..(a + b) -> Nat]
  <2>1. \A x \in 1..(a + b) : x <= a => x \in 1..a /\ at2[x] = at[x] /\ pos2[x] = pos[x]
    BY <1>1
  <2>2. \A x \in 1..(a + b) : x > a => x - a \in 1..b /\ at2[x] = k /\ pos2[x] = x - a
    BY <1>1
  <2>3. \A x \in 1..a : at[x] \in 1..k /\ pos[x] \in Nat
    <3>1. \A x \in 1..a : at[x] \in 1..(k - 1) /\ pos[x] \in Nat
      BY <1>2
    <3>2. \A j \in 1..(k - 1) : j \in 1..k
      OBVIOUS
    <3> HIDE DEF a
    <3> QED BY <3>1, <3>2
  <2>4. \A x \in 1..(a + b) : at2[x] \in 1..k /\ pos2[x] \in Nat
    <3>1. TAKE x \in 1..(a + b)
    <3>2. CASE x <= a
      BY <2>1, <2>3, <3>2
    <3>3. CASE x > a
      BY <2>2, <3>3, <1>1
    <3> QED BY <1>1, <3>2, <3>3
  <2> QED BY <2>1, <2>2, <2>4
<1>4. R(k) = r
  OBVIOUS
<1> HIDE DEF at2, pos2, r, a, b, l2, R
<1>5. \A x \in 1..(a + b) : pos2[x] \in 1..Len(R(at2[x])) /\ l2[x] = R(at2[x])[pos2[x]]
  <2>1. TAKE x \in 1..(a + b)
  <2>2. CASE x <= a
    BY <1>1, <1>2, <1>3, <2>2
  <2>3. CASE x > a
    <3>1. x - a \in 1..b /\ at2[x] = k /\ pos2[x] = x - a
      BY <1>3, <2>3
    <3>2. l2[x] = r[x - a]
      <4>1. ~ (x <= a)
        BY <1>1, <2>3
      <4> QED BY <1>1, <4>1
    <3>3. pos2[x] \in 1..Len(R(k)) /\ l2[x] = R(k)[pos2[x]]
      BY <1>4, <3>1, <3>2 DEF b
    <3> QED BY <3>1, <3>3
  <2> QED BY <1>1, <2>2, <2>3
<1>6. \A x, y \in 1..(a + b) :
        x < y => at2[x] < at2[y] \/ (at2[x] = at2[y] /\ pos2[x] < pos2[y])
  <2>1. TAKE x, y \in 1..(a + b)
  <2>2. HAVE x < y
  <2>3. CASE y <= a
    <3>1. x \in 1..a /\ y \in 1..a
      BY <1>1, <2>2, <2>3
    <3>2. at2[x] = at[x] /\ at2[y] = at[y] /\ pos2[x] = pos[x] /\ pos2[y] = pos[y]
      <4>1. x <= a
        BY <1>1, <3>1
      <4> QED BY <1>3, <2>3, <4>1
    <3>3. at[x] < at[y] \/ (at[x] = at[y] /\ pos[x] < pos[y])
      <4>1. \A u, v \in 1..a : u < v => at[u] < at[v] \/ (at[u] = at[v] /\ pos[u] < pos[v])
        BY <1>2
      <4> HIDE <1>2
      <4> QED BY <2>2, <3>1, <4>1
    <3> QED BY <3>2, <3>3
  <2>4. CASE x <= a /\ y > a
    <3>1. at2[x] \in 1..(k - 1) /\ at2[y] = k
      BY <1>1, <1>2, <1>3, <2>4
    <3> QED BY <3>1
  <2>5. CASE x > a
    <3>1. y > a
      BY <1>1, <2>2, <2>5
    <3>2. at2[x] = k /\ at2[y] = k /\ pos2[x] = x - a /\ pos2[y] = y - a
      BY <1>3, <2>5, <3>1
    <3>3. x - a < y - a
      BY <1>1, <2>2
    <3> QED BY <3>2, <3>3
  <2> QED BY <1>1, <2>2, <2>3, <2>4, <2>5
<1>7. \A j \in 1..k : \A i \in 1..Len(R(j)) : \E x \in 1..(a + b) : at2[x] = j /\ pos2[x] = i
  <2>1. TAKE j \in 1..k
  <2>2. TAKE i \in 1..Len(R(j))
  <2>3. CASE j = k
    <3>1. i \in 1..b
      BY <1>4, <2>2, <2>3 DEF b
    <3>2. a + i \in 1..(a + b) /\ a + i > a /\ (a + i) - a = i
      BY <1>1, <3>1
    <3> QED BY <1>3, <2>3, <3>2
  <2>4. CASE j # k
    <3>1. j \in 1..(k - 1)
      BY <2>4
    <3>2. PICK x \in 1..a : at[x] = j /\ pos[x] = i
      BY <1>2, <3>1
    <3>3. x \in 1..(a + b) /\ x <= a
      BY <1>1, <3>2
    <3> QED BY <1>3, <3>2, <3>3
  <2> QED BY <2>3, <2>4
<1>8. ArePlaces(l2, ids, segs, k, at2, pos2)
  BY <1>1, <1>3, <1>5, <1>6, <1>7 DEF ArePlaces, R
<1> QED BY <1>8 DEF l2, r

\* log is what these places of the segments hold, read from the first segment on.
LogPlaces(log, segs, at, pos) ==
  /\ at \in [1..Len(log) -> DOMAIN segs] /\ pos \in [1..Len(log) -> Nat]
  /\ \A x \in 1..Len(log) : /\ pos[x] \in 1..Len(Readable(segs[at[x]]))
                             /\ log[x] = segs[at[x]][pos[x]]
  /\ \A x, y \in 1..Len(log) :
       x < y => at[x] < at[y] \/ (at[x] = at[y] /\ pos[x] < pos[y])
  /\ \A id \in DOMAIN segs : \A i \in 1..Len(Readable(segs[id])) :
       \E x \in 1..Len(log) : at[x] = id /\ pos[x] = i

\* The log of a set of segments is what their places hold.
LEMMA LogIs ==
  ASSUME NEW segs, SegmentsTyped(segs)
  PROVE  /\ ReadableLog(segs) \in Seq(Frames)
         /\ \E at, pos : LogPlaces(ReadableLog(segs), segs, at, pos)
<1> DEFINE ids == InOrder(DOMAIN segs)
           n == Cardinality(DOMAIN segs)
           L == LogUpTo(ids, segs)
           has == {k \in 0..n : /\ L[k] \in Seq(Frames)
                                /\ \E at, pos : ArePlaces(L[k], ids, segs, k, at, pos)}
<1>1. /\ n \in Nat /\ ids \in [1..n -> DOMAIN segs]
      /\ \A i, j \in 1..n : i < j => ids[i] < ids[j]
      /\ \A id \in DOMAIN segs : \E i \in 1..n : ids[i] = id
  BY InOrderIs DEF SegmentsTyped
<1>2. Len(ids) = n
  BY <1>1, LenProperties
<1>3. ReadableLog(segs) = L[n]
  BY <1>2 DEF ReadableLog
<1>4. \A k \in 0..n : L[k] = IF k = 0 THEN <<>> ELSE L[k - 1] \o Readable(segs[ids[k]])
  <2> HIDE DEF ids, n
  <2>1. L = [k \in 0..n |-> IF k = 0 THEN <<>> ELSE L[k - 1] \o Readable(segs[ids[k]])]
    <3>1. Len(ids) \in Nat
      BY <1>1, <1>2
    <3>2. L = [k \in 0..Len(ids) |->
                 IF k = 0 THEN <<>> ELSE L[k - 1] \o Readable(segs[ids[k]])]
      BY <3>1, LogUpToIs
    <3> HIDE DEF L
    <3> QED BY <1>2, <3>2
  <2> HIDE DEF L
  <2> QED BY <2>1
<1>5. \A k \in 1..n : Readable(segs[ids[k]]) \in Seq(Frames)
  BY <1>1, ReadableIs DEF SegmentsTyped
<1> HIDE DEF ids, n, L
<1>6. 0 \in has
  <2>1. L[0] = <<>> /\ 0 \in 0..n
    BY <1>1, <1>4
  <2>2. <<>> \in Seq(Frames) /\ ArePlaces(<<>>, ids, segs, 0, <<>>, <<>>)
    BY DEF ArePlaces
  <2> QED BY <2>1, <2>2
<1>7. \A k \in 1..n : k - 1 \in has => k \in has
  <2>1. SUFFICES ASSUME NEW k \in 1..n, k - 1 \in has PROVE k \in has
    OBVIOUS
  <2>2. PICK at, pos : ArePlaces(L[k - 1], ids, segs, k - 1, at, pos)
    BY <2>1
  <2>3. L[k - 1] \in Seq(Frames) /\ Readable(segs[ids[k]]) \in Seq(Frames) /\ k \in Nat \ {0}
    BY <2>1, <1>5, <1>1
  <2>4. L[k] = L[k - 1] \o Readable(segs[ids[k]]) /\ k \in 0..n
    <3>1. k \in 0..n /\ k # 0
      BY <1>1, <2>1
    <3> QED BY <1>4, <3>1
  <2>5. \E at2, pos2 : ArePlaces(L[k], ids, segs, k, at2, pos2)
    BY <2>2, <2>3, <2>4, PlacesGrow
  <2>6. L[k] \in Seq(Frames)
    BY <2>3, <2>4
  <2> QED BY <2>4, <2>5, <2>6
<1> HIDE DEF has
<1>8. n \in has
  <2>1. \A k \in 0..n : k \in has
    BY <1>1, <1>6, <1>7, UpTo
  <2> QED BY <1>1, <2>1
<1>9. L[n] \in Seq(Frames)
  BY <1>8 DEF has
<1>10. PICK at, pos : ArePlaces(L[n], ids, segs, n, at, pos)
  BY <1>8 DEF has
<1> DEFINE m == Len(L[n])
           at3 == [x \in 1..m |-> ids[at[x]]]
<1>11. /\ at \in [1..m -> 1..n] /\ pos \in [1..m -> Nat]
       /\ \A x \in 1..m : /\ pos[x] \in 1..Len(Readable(segs[ids[at[x]]]))
                          /\ L[n][x] = Readable(segs[ids[at[x]]])[pos[x]]
       /\ \A x, y \in 1..m : x < y => at[x] < at[y] \/ (at[x] = at[y] /\ pos[x] < pos[y])
       /\ \A j \in 1..n : \A i \in 1..Len(Readable(segs[ids[j]])) :
            \E x \in 1..m : at[x] = j /\ pos[x] = i
  BY <1>10 DEF ArePlaces
<1>12. at3 \in [1..m -> DOMAIN segs] /\ \A x \in 1..m : at3[x] = ids[at[x]]
  BY <1>1, <1>11
<1> HIDE DEF at3
<1>13. \A x \in 1..m : /\ pos[x] \in 1..Len(Readable(segs[at3[x]]))
                       /\ L[n][x] = segs[at3[x]][pos[x]]
  <2>1. TAKE x \in 1..m
  <2>2. at3[x] \in DOMAIN segs /\ segs[at3[x]] \in Seq(Frames)
    BY <1>12 DEF SegmentsTyped
  <2>3. pos[x] \in 1..Len(Readable(segs[at3[x]])) /\ L[n][x] = Readable(segs[at3[x]])[pos[x]]
    BY <1>11, <1>12
  <2> QED BY <2>2, <2>3, ReadableIs
<1>14. \A x, y \in 1..m : x < y => at3[x] < at3[y] \/ (at3[x] = at3[y] /\ pos[x] < pos[y])
  <2>1. TAKE x, y \in 1..m
  <2>2. HAVE x < y
  <2>3. at[x] \in 1..n /\ at[y] \in 1..n
    BY <1>11
  <2>4. at[x] < at[y] \/ (at[x] = at[y] /\ pos[x] < pos[y])
    BY <1>11, <2>2
  <2>5. at3[x] = ids[at[x]] /\ at3[y] = ids[at[y]]
    BY <1>12
  <2> QED BY <1>1, <2>3, <2>4, <2>5
<1>15. \A id \in DOMAIN segs : \A i \in 1..Len(Readable(segs[id])) :
         \E x \in 1..m : at3[x] = id /\ pos[x] = i
  <2>1. TAKE id \in DOMAIN segs
  <2>2. TAKE i \in 1..Len(Readable(segs[id]))
  <2>3. PICK j \in 1..n : ids[j] = id
    BY <1>1
  <2>4. PICK x \in 1..m : at[x] = j /\ pos[x] = i
    BY <1>11, <2>3
  <2> QED BY <1>12, <2>3, <2>4
<1>16. LogPlaces(L[n], segs, at3, pos)
  BY <1>11, <1>12, <1>13, <1>14, <1>15 DEF LogPlaces
<1> QED BY <1>3, <1>9, <1>16

-----------------------------------------------------------------------------
(* What replaying a log teaches.                                           *)

Snapshots == [last : Nat, offset : Records \union {0},
              acked : SUBSET Records, dead : SUBSET Records]

\* The records in the first n frames of a log, by the kinds of frame they are in.
LogEvents(log, n, kinds) ==
  {r \in Records : \E i \in 1..n : log[i].kind \in kinds /\ r \in log[i].events}

\* m is what replaying n frames of the log teaches.
Learned(log, snap, n, m) ==
  /\ m \in Knowledge
  /\ m.acked = snap.acked \union LogEvents(log, n, {"ack"})
  /\ m.dead = snap.dead \union LogEvents(log, n, {"dead"})
  /\ m.queued = LogEvents(log, n, {"txn"}) \ (m.acked \union m.dead)
  /\ m.offset = snap.offset \/ \E i \in 1..n : log[i].kind = "txn" /\ m.offset = log[i].offset

\* One more frame replayed.
LEMMA LogEventsGrow ==
  ASSUME NEW log \in Seq(Frames), NEW n \in 1..Len(log), NEW kinds
  PROVE  LogEvents(log, n, kinds) =
           LogEvents(log, n - 1, kinds) \union
             (IF log[n].kind \in kinds THEN log[n].events ELSE {})
<1>1. log[n].events \subseteq Records
  <2>1. log[n] \in Frames
    OBVIOUS
  <2> QED BY <2>1 DEF Frames
<1>2. n \in Nat /\ \A i \in 1..n : i \in 1..(n - 1) \/ i = n
  OBVIOUS
<1>3. \A i \in 1..(n - 1) : i \in 1..n
  OBVIOUS
<1> QED BY <1>1, <1>2, <1>3 DEF LogEvents

\* Decoding a frame teaches what is in it.
LEMMA DecodedIs ==
  ASSUME NEW log \in Seq(Frames), NEW snap \in Snapshots, NEW n \in 1..Len(log),
         log[n].kind \in Whole, NEW m, Learned(log, snap, n - 1, m)
  PROVE  Learned(log, snap, n, Decoded(m, log[n], snap.last))
<1> DEFINE f == log[n]
           d == Decoded(m, f, snap.last)
           E(kinds) == LogEvents(log, n, kinds)
           E0(kinds) == LogEvents(log, n - 1, kinds)
           upTo == IF f.seq > snap.last \/ m.offset = 0 THEN f.offset ELSE m.offset
<1>1. f \in Frames /\ m \in Knowledge /\ f.events \in SUBSET Records
  <2>1. f \in Frames /\ m \in Knowledge
    BY DEF Learned
  <2> QED BY <2>1 DEF Frames
<1>2. \A kinds : E(kinds) = E0(kinds) \union (IF f.kind \in kinds THEN f.events ELSE {})
  BY LogEventsGrow
<1>3. upTo \in Records \union {0}
  BY <1>1 DEF Frames, Knowledge
<1>4. \A i \in 1..(n - 1) : i \in 1..n
  OBVIOUS
<1>5. n \in 1..n
  OBVIOUS
<1>6. m.offset = snap.offset \/ \E i \in 1..(n - 1) : log[i].kind = "txn" /\ m.offset = log[i].offset
  BY DEF Learned
<1>7. /\ m.acked = snap.acked \union E0({"ack"})
      /\ m.dead = snap.dead \union E0({"dead"})
      /\ m.queued = E0({"txn"}) \ (m.acked \union m.dead)
  BY DEF Learned
<1> HIDE DEF E, E0, upTo
<1>8. CASE f.kind = "txn"
  <2>1. d = [m EXCEPT !.queued = @ \union (f.events \ (m.acked \union m.dead)), !.offset = upTo]
    BY <1>8 DEF Decoded, WithTxn, upTo
  <2>2. /\ d \in Knowledge /\ d.acked = m.acked /\ d.dead = m.dead /\ d.offset = upTo
        /\ d.queued = m.queued \union (f.events \ (m.acked \union m.dead))
    BY <1>1, <1>3, <2>1 DEF Knowledge
  <2> HIDE DEF d
  <2>3. d.offset = snap.offset \/ \E i \in 1..n : log[i].kind = "txn" /\ d.offset = log[i].offset
    <3>1. upTo = f.offset \/ upTo = m.offset
      BY DEF upTo
    <3> QED BY <1>4, <1>5, <1>6, <1>8, <2>2, <3>1
  <2>4. E({"ack"}) = E0({"ack"}) /\ E({"dead"}) = E0({"dead"}) /\ E({"txn"}) = E0({"txn"}) \union f.events
    BY <1>2, <1>8
  <2>5. d.queued = E({"txn"}) \ (d.acked \union d.dead)
    BY <1>7, <2>2, <2>4
  <2> QED BY <1>7, <2>2, <2>3, <2>4, <2>5 DEF Learned, E, d
<1>9. CASE f.kind = "ack"
  <2>1. d = [m EXCEPT !.queued = @ \ f.events, !.acked = @ \union f.events]
    BY <1>9 DEF Decoded, WithAck
  <2>2. /\ d \in Knowledge /\ d.acked = m.acked \union f.events /\ d.dead = m.dead /\ d.offset = m.offset
        /\ d.queued = m.queued \ f.events
    BY <1>1, <2>1 DEF Knowledge
  <2> HIDE DEF d
  <2>4. E({"ack"}) = E0({"ack"}) \union f.events /\ E({"dead"}) = E0({"dead"}) /\ E({"txn"}) = E0({"txn"})
    BY <1>2, <1>9
  <2>5. d.queued = E({"txn"}) \ (d.acked \union d.dead)
    BY <1>7, <2>2, <2>4
  <2> QED BY <1>4, <1>6, <1>7, <2>2, <2>4, <2>5 DEF Learned, E, d
<1>10. CASE f.kind = "dead"
  <2>1. d = [m EXCEPT !.queued = @ \ f.events, !.dead = @ \union f.events]
    BY <1>10 DEF Decoded, WithDead
  <2>2. /\ d \in Knowledge /\ d.dead = m.dead \union f.events /\ d.acked = m.acked /\ d.offset = m.offset
        /\ d.queued = m.queued \ f.events
    BY <1>1, <2>1 DEF Knowledge
  <2> HIDE DEF d
  <2>4. E({"dead"}) = E0({"dead"}) \union f.events /\ E({"ack"}) = E0({"ack"}) /\ E({"txn"}) = E0({"txn"})
    BY <1>2, <1>10
  <2>5. d.queued = E({"txn"}) \ (d.acked \union d.dead)
    BY <1>7, <2>2, <2>4
  <2> QED BY <1>4, <1>6, <1>7, <2>2, <2>4, <2>5 DEF Learned, E, d
<1> QED BY <1>8, <1>9, <1>10 DEF Whole

\* Whatever the order of the frames: acknowledgements and dead letters add up,
\* and the events of the transactions that are in neither wait.
LEMMA ReplayedLearns ==
  ASSUME NEW log \in Seq(Frames), NEW snap \in Snapshots,
         \A i \in 1..Len(log) : log[i].kind \in Whole
  PROVE  \A n \in 0..Len(log) : Learned(log, snap, n, Replayed(log, snap)[n])
<1> DEFINE R == Replayed(log, snap)
           start == [offset |-> snap.offset, queued |-> {},
                     acked |-> snap.acked, dead |-> snap.dead]
           has == {n \in 0..Len(log) : Learned(log, snap, n, R[n])}
<1>1. Len(log) \in Nat
  OBVIOUS
<1>2. \A n \in 0..Len(log) :
        R[n] = IF n = 0 THEN start ELSE Decoded(R[n - 1], log[n], snap.last)
  <2>1. R = [n \in 0..Len(log) |->
               IF n = 0 THEN start ELSE Decoded(R[n - 1], log[n], snap.last)]
    BY <1>1, ReplayedIs
  <2> HIDE DEF R, start
  <2> QED BY <2>1
<1> HIDE DEF R
<1>3. 0 \in has
  <2>1. R[0] = start
    <3> HIDE DEF start
    <3> QED BY <1>1, <1>2
  <2>2. \A kinds : LogEvents(log, 0, kinds) = {}
    BY DEF LogEvents
  <2> QED BY <1>1, <2>1, <2>2 DEF Learned, Snapshots, Knowledge
<1>4. \A n \in 1..Len(log) : n - 1 \in has => n \in has
  <2>1. SUFFICES ASSUME NEW n \in 1..Len(log), n - 1 \in has PROVE n \in has
    OBVIOUS
  <2>2. n \in 0..Len(log) /\ n # 0
    BY <1>1
  <2>3. R[n] = Decoded(R[n - 1], log[n], snap.last)
    BY <1>2, <2>2
  <2> QED BY <2>1, <2>2, <2>3, DecodedIs
<1> HIDE DEF has
<1>5. \A n \in 0..Len(log) : n \in has
  BY <1>1, <1>3, <1>4, UpTo
<1> QED BY <1>5 DEF has, R

\* Frame i of the log is a transaction the snapshot does not yet have.
NewInLog(log, last, i) == log[i].kind = "txn" /\ log[i].seq > last

\* The checkpoint after n frames: that of the last transaction among them which
\* the snapshot does not have, or the snapshot's.
FromLast(log, snap, n, offset) ==
  \/ /\ offset = snap.offset
     /\ \A i \in 1..n : ~ NewInLog(log, snap.last, i)
  \/ \E i \in 1..n : /\ NewInLog(log, snap.last, i)
                     /\ offset = log[i].offset
                     /\ \A j \in 1..n : NewInLog(log, snap.last, j) => j <= i

\* The checkpoint after a replay is that of the last newer transaction.
LEMMA ReplayedOffset ==
  ASSUME NEW log \in Seq(Frames), NEW snap \in Snapshots,
         \A i \in 1..Len(log) : log[i].kind \in Whole,
         snap.offset = 0 => snap.last = 0,
         \A i \in 1..Len(log) : log[i].kind = "txn" => log[i].seq >= 1 /\ log[i].offset >= 1
  PROVE  \A n \in 0..Len(log) : FromLast(log, snap, n, Replayed(log, snap)[n].offset)
<1> DEFINE R == Replayed(log, snap)
           start == [offset |-> snap.offset, queued |-> {},
                     acked |-> snap.acked, dead |-> snap.dead]
           has == {n \in 0..Len(log) : FromLast(log, snap, n, R[n].offset)}
<1>1. Len(log) \in Nat
  OBVIOUS
<1>2. \A n \in 0..Len(log) :
        R[n] = IF n = 0 THEN start ELSE Decoded(R[n - 1], log[n], snap.last)
  <2>1. R = [n \in 0..Len(log) |->
               IF n = 0 THEN start ELSE Decoded(R[n - 1], log[n], snap.last)]
    BY <1>1, ReplayedIs
  <2> HIDE DEF R, start
  <2> QED BY <2>1
<1>3. \A n \in 0..Len(log) : R[n] \in Knowledge
  BY ReplayedLearns DEF Learned
<1> HIDE DEF R
<1>4. 0 \in has
  <2>1. R[0].offset = snap.offset
    BY <1>1, <1>2
  <2> QED BY <1>1, <2>1 DEF FromLast
<1>5. \A n \in 1..Len(log) : n - 1 \in has => n \in has
  <2>1. SUFFICES ASSUME NEW n \in 1..Len(log), n - 1 \in has PROVE n \in has
    OBVIOUS
  <2> DEFINE m == R[n - 1]
             f == log[n]
  <2>2. n \in 0..Len(log) /\ n # 0 /\ n - 1 \in 0..Len(log)
    BY <1>1
  <2>3. R[n] = Decoded(m, f, snap.last)
    BY <1>2, <2>2
  <2>4. m \in Knowledge /\ f \in Frames /\ f.kind \in Whole
    BY <1>3, <2>2
  <2>5. FromLast(log, snap, n - 1, m.offset)
    BY <2>1
  <2>6. f.seq \in Nat /\ f.offset \in Nat /\ snap.last \in Nat
        /\ (f.kind = "txn" => f.seq >= 1 /\ f.offset >= 1)
    BY <2>4 DEF Frames, Records, Snapshots
  <2>7. \A i \in 1..(n - 1) : i \in 1..n /\ i <= n /\ i \in 1..Len(log)
    BY <1>1
  <2>8. \A i \in 1..n : i = n \/ i \in 1..(n - 1)
    OBVIOUS
  <2> HIDE DEF m
  <2>9. CASE NewInLog(log, snap.last, n)
    <3>1. R[n].offset = f.offset
      <4>1. R[n] = WithTxn(m, f.events, f.offset)
        BY <2>3, <2>9 DEF NewInLog, Decoded
      <4> QED BY <2>4, <4>1 DEF WithTxn, Knowledge
    <3>2. n \in 1..n /\ \A j \in 1..n : j <= n
      BY <1>1
    <3> QED BY <2>2, <2>9, <3>1, <3>2 DEF FromLast
  <2>10. CASE ~ NewInLog(log, snap.last, n)
    <3>1. m.offset = 0 => f.kind # "txn"
      <4>1. SUFFICES ASSUME m.offset = 0, f.kind = "txn" PROVE FALSE
        OBVIOUS
      <4>2. f.seq <= snap.last
        BY <2>6, <2>10, <4>1 DEF NewInLog
      <4>3. snap.offset # 0
        BY <2>6, <4>1, <4>2
      <4>4. PICK i \in 1..(n - 1) : NewInLog(log, snap.last, i) /\ m.offset = log[i].offset
        BY <2>5, <4>1, <4>3 DEF FromLast
      <4>5. i \in 1..Len(log) /\ log[i].offset >= 1
        BY <2>7, <4>4 DEF NewInLog
      <4> QED BY <4>1, <4>4, <4>5
    <3>2. R[n].offset = m.offset
      <4>1. CASE f.kind = "txn"
        <5>1. R[n] = WithTxn(m, f.events, m.offset)
          BY <2>3, <2>10, <3>1, <4>1 DEF NewInLog, Decoded
        <5> QED BY <2>4, <5>1 DEF WithTxn, Knowledge
      <4>2. CASE f.kind = "ack"
        <5>1. R[n] = WithAck(m, f.events)
          BY <2>3, <4>2 DEF Decoded
        <5> QED BY <2>4, <5>1 DEF WithAck, Knowledge
      <4>3. CASE f.kind = "dead"
        <5>1. R[n] = WithDead(m, f.events)
          BY <2>3, <4>3 DEF Decoded
        <5> QED BY <2>4, <5>1 DEF WithDead, Knowledge
      <4> QED BY <2>4, <4>1, <4>2, <4>3 DEF Whole
    <3> QED BY <2>2, <2>5, <2>7, <2>8, <2>10, <3>2 DEF FromLast
  <2> QED BY <2>9, <2>10
<1> HIDE DEF has
<1>6. \A n \in 0..Len(log) : n \in has
  BY <1>1, <1>4, <1>5, UpTo
<1> QED BY <1>6 DEF has, R

-----------------------------------------------------------------------------
(* What opening the store recovers, in terms of the segments.              *)

\* What opening the store would read of these segments.
ReadFrames(segs) ==
  {f \in Frames : \E id \in DOMAIN segs : \E i \in 1..Len(Readable(segs[id])) : segs[id][i] = f}

InFrames(segs, kinds) ==
  {r \in Records : \E f \in ReadFrames(segs) : f.kind \in kinds /\ r \in f.events}

\* Place i of segment id holds a transaction newer than the snapshot.
Newer(segs, last, id, i) ==
  /\ id \in DOMAIN segs
  /\ i \in 1..Len(Readable(segs[id]))
  /\ segs[id][i].kind = "txn"
  /\ segs[id][i].seq > last

Upto(id, i, id2, j) == id < id2 \/ (id = id2 /\ i <= j)

\* The transactions newer than the snapshot reach m, from some place on.
Reaches(segs, snap, m) ==
  \/ /\ snap.offset >= m
     /\ \A id, i \in Nat : Newer(segs, snap.last, id, i) => segs[id][i].offset >= m
  \/ \E id, i \in Nat :
       /\ Newer(segs, snap.last, id, i)
       /\ \A id2, j \in Nat :
            Newer(segs, snap.last, id2, j) /\ Upto(id, i, id2, j) => segs[id2][j].offset >= m

\* The frames read are those at readable places.
LEMMA ReadFramesAre ==
  ASSUME NEW segs, SegmentsTyped(segs)
  PROVE  /\ ReadFrames(segs) \subseteq Frames
         /\ \A f \in ReadFrames(segs) : f.kind \in Whole
         /\ \A id \in DOMAIN segs : \A i \in 1..Len(Readable(segs[id])) :
              segs[id][i] \in ReadFrames(segs) /\ segs[id][i].kind \in Whole
<1>1. \A id \in DOMAIN segs : segs[id] \in Seq(Frames)
  BY DEF SegmentsTyped
<1>2. \A id \in DOMAIN segs : \A i \in 1..Len(Readable(segs[id])) :
        segs[id][i] \in Frames /\ segs[id][i].kind \in Whole
  <2>1. TAKE id \in DOMAIN segs
  <2>2. TAKE i \in 1..Len(Readable(segs[id]))
  <2>3. segs[id] \in Seq(Frames)
    BY <1>1
  <2>4. /\ Len(Readable(segs[id])) \in 0..Len(segs[id])
        /\ \A j \in 1..Len(Readable(segs[id])) : segs[id][j].kind \in Whole
    BY <2>3, ReadableIs
  <2>5. i \in 1..Len(segs[id])
    <3>1. Len(segs[id]) \in Nat
      BY <2>3
    <3> QED BY <2>4, <3>1
  <2> QED BY <2>3, <2>4, <2>5
<1> QED BY <1>2 DEF ReadFrames

\* The log holds the frames that are read.
LEMMA LogFrames ==
  ASSUME NEW segs, SegmentsTyped(segs)
  PROVE  /\ ReadableLog(segs) \in Seq(Frames)
         /\ \A x \in 1..Len(ReadableLog(segs)) :
              ReadableLog(segs)[x] \in ReadFrames(segs) /\ ReadableLog(segs)[x].kind \in Whole
         /\ \A f \in ReadFrames(segs) : \E x \in 1..Len(ReadableLog(segs)) : ReadableLog(segs)[x] = f
         /\ \A kinds : LogEvents(ReadableLog(segs), Len(ReadableLog(segs)), kinds) = InFrames(segs, kinds)
<1> DEFINE log == ReadableLog(segs)
<1>1. log \in Seq(Frames) /\ \E at, pos : LogPlaces(log, segs, at, pos)
  BY LogIs
<1>2. PICK at, pos : LogPlaces(log, segs, at, pos)
  BY <1>1
<1> HIDE DEF log
<1>3. \A x \in 1..Len(log) : at[x] \in DOMAIN segs
  BY <1>2 DEF LogPlaces
<1>4. \A x \in 1..Len(log) : log[x] \in ReadFrames(segs) /\ log[x].kind \in Whole
  <2>1. TAKE x \in 1..Len(log)
  <2>2. pos[x] \in 1..Len(Readable(segs[at[x]])) /\ log[x] = segs[at[x]][pos[x]]
    BY <1>2 DEF LogPlaces
  <2>3. at[x] \in DOMAIN segs
    BY <1>3
  <2> QED BY <2>2, <2>3, ReadFramesAre
<1>5. \A f \in ReadFrames(segs) : \E x \in 1..Len(log) : log[x] = f
  <2>1. TAKE f \in ReadFrames(segs)
  <2>2. PICK id \in DOMAIN segs : \E i \in 1..Len(Readable(segs[id])) : segs[id][i] = f
    BY DEF ReadFrames
  <2>3. PICK i \in 1..Len(Readable(segs[id])) : segs[id][i] = f
    BY <2>2
  <2>4. PICK x \in 1..Len(log) : at[x] = id /\ pos[x] = i
    BY <1>2 DEF LogPlaces
  <2> QED BY <1>2, <2>3, <2>4 DEF LogPlaces
<1>6. \A kinds : LogEvents(log, Len(log), kinds) = InFrames(segs, kinds)
  BY <1>4, <1>5 DEF LogEvents, InFrames
<1> QED BY <1>1, <1>4, <1>5, <1>6 DEF log

\* What opening the store recovers, whatever the order of the frames.
LEMMA RecoveredIs ==
  ASSUME NEW segs, SegmentsTyped(segs), NEW snap \in Snapshots
  PROVE  LET m == Recovered(segs, snap)
         IN /\ m \in Knowledge
            /\ m.acked = snap.acked \union InFrames(segs, {"ack"})
            /\ m.dead = snap.dead \union InFrames(segs, {"dead"})
            /\ m.queued = InFrames(segs, {"txn"}) \ (m.acked \union m.dead)
            /\ \/ m.offset = snap.offset
               \/ \E f \in ReadFrames(segs) : f.kind = "txn" /\ m.offset = f.offset
<1> DEFINE log == ReadableLog(segs)
           m == Recovered(segs, snap)
<1>1. /\ log \in Seq(Frames)
      /\ \A x \in 1..Len(log) : log[x] \in ReadFrames(segs) /\ log[x].kind \in Whole
      /\ \A kinds : LogEvents(log, Len(log), kinds) = InFrames(segs, kinds)
  BY LogFrames
<1>2. m = Replayed(log, snap)[Len(log)]
  BY DEF Recovered
<1> HIDE DEF log, m
<1>3. Len(log) \in 0..Len(log)
  <2>1. Len(log) \in Nat
    BY <1>1
  <2> QED BY <2>1
<1>4. Learned(log, snap, Len(log), m)
  BY <1>1, <1>2, <1>3, ReplayedLearns
<1>5. /\ m \in Knowledge
      /\ m.acked = snap.acked \union InFrames(segs, {"ack"})
      /\ m.dead = snap.dead \union InFrames(segs, {"dead"})
      /\ m.queued = InFrames(segs, {"txn"}) \ (m.acked \union m.dead)
      /\ m.offset = snap.offset \/ \E f \in ReadFrames(segs) : f.kind = "txn" /\ m.offset = f.offset
  BY <1>1, <1>4 DEF Learned
<1> QED BY <1>5 DEF m

\* The recovered checkpoint is that of the last newer transaction.
LEMMA RecoveredOffset ==
  ASSUME NEW segs, SegmentsTyped(segs), NEW snap \in Snapshots,
         snap.offset = 0 => snap.last = 0,
         \A f \in ReadFrames(segs) : f.kind = "txn" => f.seq >= 1 /\ f.offset >= 1
  PROVE  \/ /\ Recovered(segs, snap).offset = snap.offset
            /\ \A id, i \in Nat : ~ Newer(segs, snap.last, id, i)
         \/ \E id, i \in Nat :
              /\ Newer(segs, snap.last, id, i)
              /\ Recovered(segs, snap).offset = segs[id][i].offset
              /\ \A id2, j \in Nat : Newer(segs, snap.last, id2, j) => Upto(id2, j, id, i)
<1> DEFINE log == ReadableLog(segs)
           m == Recovered(segs, snap)
<1>1. /\ log \in Seq(Frames)
      /\ \A x \in 1..Len(log) : log[x] \in ReadFrames(segs) /\ log[x].kind \in Whole
  BY LogFrames
<1>2. PICK at, pos : LogPlaces(log, segs, at, pos)
  BY LogIs
<1>3. m = Replayed(log, snap)[Len(log)]
  BY DEF Recovered
<1> HIDE DEF log, m
<1>4. Len(log) \in Nat /\ Len(log) \in 0..Len(log)
  <2>1. Len(log) \in Nat
    BY <1>1
  <2> QED BY <2>1
<1>5. FromLast(log, snap, Len(log), m.offset)
  BY <1>1, <1>3, <1>4, ReplayedOffset
<1>6. \A x \in 1..Len(log) :
        /\ at[x] \in Nat /\ pos[x] \in Nat
        /\ NewInLog(log, snap.last, x) <=> Newer(segs, snap.last, at[x], pos[x])
        /\ log[x] = segs[at[x]][pos[x]]
  <2>1. DOMAIN segs \in SUBSET Nat
    BY DEF SegmentsTyped
  <2> QED BY <1>2, <2>1 DEF LogPlaces, NewInLog, Newer
<1>7. \A id, i \in Nat : Newer(segs, snap.last, id, i) =>
        \E x \in 1..Len(log) : at[x] = id /\ pos[x] = i /\ NewInLog(log, snap.last, x)
  <2>1. SUFFICES ASSUME NEW id \in Nat, NEW i \in Nat, Newer(segs, snap.last, id, i)
                 PROVE  \E x \in 1..Len(log) : at[x] = id /\ pos[x] = i /\ NewInLog(log, snap.last, x)
    OBVIOUS
  <2>2. id \in DOMAIN segs /\ i \in 1..Len(Readable(segs[id]))
    BY <2>1 DEF Newer
  <2>3. PICK x \in 1..Len(log) : at[x] = id /\ pos[x] = i
    BY <1>2, <2>2 DEF LogPlaces
  <2> QED BY <1>6, <2>1, <2>3
<1>8. CASE m.offset = snap.offset /\ \A i \in 1..Len(log) : ~ NewInLog(log, snap.last, i)
  BY <1>7, <1>8 DEF m
<1>9. CASE \E x \in 1..Len(log) : /\ NewInLog(log, snap.last, x)
                                  /\ m.offset = log[x].offset
                                  /\ \A y \in 1..Len(log) : NewInLog(log, snap.last, y) => y <= x
  <2>1. PICK x \in 1..Len(log) : /\ NewInLog(log, snap.last, x)
                                 /\ m.offset = log[x].offset
                                 /\ \A y \in 1..Len(log) : NewInLog(log, snap.last, y) => y <= x
    BY <1>9
  <2>2. /\ at[x] \in Nat /\ pos[x] \in Nat
        /\ Newer(segs, snap.last, at[x], pos[x]) /\ m.offset = segs[at[x]][pos[x]].offset
    BY <1>6, <2>1
  <2>3. \A id2, j \in Nat : Newer(segs, snap.last, id2, j) => Upto(id2, j, at[x], pos[x])
    <3>1. SUFFICES ASSUME NEW id2 \in Nat, NEW j \in Nat, Newer(segs, snap.last, id2, j)
                   PROVE  Upto(id2, j, at[x], pos[x])
      OBVIOUS
    <3>2. PICK y \in 1..Len(log) : at[y] = id2 /\ pos[y] = j /\ NewInLog(log, snap.last, y)
      BY <1>7, <3>1
    <3>3. y < x \/ y = x
      BY <1>4, <2>1, <3>2
    <3>4. CASE y = x
      BY <2>2, <3>2, <3>4 DEF Upto
    <3>5. CASE y < x
      <4>1. at[y] < at[x] \/ (at[y] = at[x] /\ pos[y] < pos[x])
        BY <1>2, <3>5 DEF LogPlaces
      <4> QED BY <2>2, <3>2, <4>1 DEF Upto
    <3> QED BY <3>3, <3>4, <3>5
  <2> QED BY <2>2, <2>3 DEF m
<1> QED BY <1>5, <1>8, <1>9 DEF FromLast

\* Reaches says that opening recovers a checkpoint of m or more.
LEMMA ReachesIs ==
  ASSUME NEW segs, SegmentsTyped(segs), NEW snap \in Snapshots,
         snap.offset = 0 => snap.last = 0,
         \A f \in ReadFrames(segs) : f.kind = "txn" => f.seq >= 1 /\ f.offset >= 1,
         NEW m \in Nat
  PROVE  Reaches(segs, snap, m) <=> Recovered(segs, snap).offset >= m
<1> DEFINE o == Recovered(segs, snap).offset
<1>1. CASE o = snap.offset /\ \A id, i \in Nat : ~ Newer(segs, snap.last, id, i)
  BY <1>1 DEF Reaches
<1>2. CASE \E id, i \in Nat :
              /\ Newer(segs, snap.last, id, i)
              /\ o = segs[id][i].offset
              /\ \A id2, j \in Nat : Newer(segs, snap.last, id2, j) => Upto(id2, j, id, i)
  <2>1. PICK id \in Nat, i \in Nat :
              /\ Newer(segs, snap.last, id, i)
              /\ o = segs[id][i].offset
              /\ \A id2, j \in Nat : Newer(segs, snap.last, id2, j) => Upto(id2, j, id, i)
    BY <1>2
  <2> HIDE DEF o
  <2>2. ASSUME o >= m PROVE Reaches(segs, snap, m)
    <3>1. \A id2, j \in Nat :
            Newer(segs, snap.last, id2, j) /\ Upto(id, i, id2, j) => segs[id2][j].offset >= m
      <4>1. SUFFICES ASSUME NEW id2 \in Nat, NEW j \in Nat,
                            Newer(segs, snap.last, id2, j), Upto(id, i, id2, j)
                     PROVE  segs[id2][j].offset >= m
        OBVIOUS
      <4>2. Upto(id2, j, id, i)
        BY <2>1, <4>1
      <4>3. id2 = id /\ j = i
        BY <4>1, <4>2 DEF Upto
      <4> QED BY <2>1, <2>2, <4>3
    <3> QED BY <2>1, <3>1 DEF Reaches
  <2>3. ASSUME Reaches(segs, snap, m) PROVE o >= m
    BY <2>1, <2>3 DEF Reaches
  <2> QED BY <2>2, <2>3 DEF o
<1> QED BY <1>1, <1>2, RecoveredOffset

-----------------------------------------------------------------------------
(* Segments that read alike, or with one frame more.                       *)

Reads(segs, id, i) == id \in DOMAIN segs /\ i \in 1..Len(Readable(segs[id]))

\* Opening reads the same frames at the same places.
SameReads(segs, segs2) ==
  \A id, i \in Nat : /\ Reads(segs2, id, i) <=> Reads(segs, id, i)
                     /\ Reads(segs, id, i) => segs2[id][i] = segs[id][i]

\* Opening reads f at the place (id, n) too, behind all others.
ReadsBehind(segs, segs2, id, n, f) ==
  /\ id \in Nat /\ n \in Nat
  /\ Reads(segs2, id, n) /\ segs2[id][n] = f
  /\ \A a, i \in Nat : /\ Reads(segs2, a, i) <=> Reads(segs, a, i) \/ (a = id /\ i = n)
                       /\ Reads(segs, a, i) => segs2[a][i] = segs[a][i]

Highest(segs, id) == \A a \in DOMAIN segs : a <= id

\* Places and frames.
LEMMA ReadsAre ==
  ASSUME NEW segs, SegmentsTyped(segs)
  PROVE  /\ \A id, i : Reads(segs, id, i) => id \in Nat /\ i \in Nat
         /\ \A f : f \in ReadFrames(segs) <=> \E id, i \in Nat : Reads(segs, id, i) /\ segs[id][i] = f
         /\ \A id, i, last :
              Newer(segs, last, id, i) <=>
                Reads(segs, id, i) /\ segs[id][i].kind = "txn" /\ segs[id][i].seq > last
<1>1. DOMAIN segs \in SUBSET Nat
  BY DEF SegmentsTyped
<1>2. \A id, i : Reads(segs, id, i) => id \in Nat /\ i \in Nat
  BY <1>1 DEF Reads
<1>3. \A id, i : Reads(segs, id, i) => segs[id][i] \in ReadFrames(segs)
  BY ReadFramesAre DEF Reads
<1>4. \A f \in ReadFrames(segs) : \E id, i \in Nat : Reads(segs, id, i) /\ segs[id][i] = f
  BY <1>1, <1>2 DEF ReadFrames, Reads
<1> QED BY <1>2, <1>3, <1>4 DEF Newer, Reads

\* Segments that read alike hold the same frames and reach as far.
LEMMA SameReadsSame ==
  ASSUME NEW segs, NEW segs2, SegmentsTyped(segs), SegmentsTyped(segs2), SameReads(segs, segs2)
  PROVE  /\ ReadFrames(segs2) = ReadFrames(segs)
         /\ \A snap, m : Reaches(segs, snap, m) => Reaches(segs2, snap, m)
<1>1. ReadFrames(segs2) = ReadFrames(segs)
  <2>1. \A f : f \in ReadFrames(segs2) <=> f \in ReadFrames(segs)
    <3>1. TAKE f
    <3>2. f \in ReadFrames(segs) <=> \E id, i \in Nat : Reads(segs, id, i) /\ segs[id][i] = f
      BY ReadsAre
    <3>3. f \in ReadFrames(segs2) <=> \E id, i \in Nat : Reads(segs2, id, i) /\ segs2[id][i] = f
      BY ReadsAre
    <3> QED BY <3>2, <3>3 DEF SameReads
  <2> QED BY <2>1
<1>2. \A id, i \in Nat : \A last : Newer(segs2, last, id, i) <=> Newer(segs, last, id, i)
  BY ReadsAre DEF SameReads
<1>3. \A id, i \in Nat : \A last : Newer(segs, last, id, i) => segs2[id][i] = segs[id][i]
  BY ReadsAre DEF SameReads
<1>4. ASSUME NEW snap, NEW m, Reaches(segs, snap, m) PROVE Reaches(segs2, snap, m)
  <2>1. CASE /\ snap.offset >= m
             /\ \A id, i \in Nat : Newer(segs, snap.last, id, i) => segs[id][i].offset >= m
    BY <1>2, <1>3, <2>1 DEF Reaches
  <2>2. CASE \E id, i \in Nat :
              /\ Newer(segs, snap.last, id, i)
              /\ \A id2, j \in Nat :
                   Newer(segs, snap.last, id2, j) /\ Upto(id, i, id2, j) => segs[id2][j].offset >= m
    <3>1. PICK id \in Nat, i \in Nat :
            /\ Newer(segs, snap.last, id, i)
            /\ \A id2, j \in Nat :
                 Newer(segs, snap.last, id2, j) /\ Upto(id, i, id2, j) => segs[id2][j].offset >= m
      BY <2>2
    <3>2. Newer(segs2, snap.last, id, i)
      BY <1>2, <3>1
    <3>3. \A id2, j \in Nat :
            Newer(segs2, snap.last, id2, j) /\ Upto(id, i, id2, j) => segs2[id2][j].offset >= m
      BY <1>2, <1>3, <3>1
    <3> QED BY <3>2, <3>3 DEF Reaches
  <2> QED BY <1>4, <2>1, <2>2 DEF Reaches
<1> QED BY <1>1, <1>4

\* A frame behind all others takes nothing away.
LEMMA ReadsBehindMore ==
  ASSUME NEW segs, NEW segs2, SegmentsTyped(segs), SegmentsTyped(segs2),
         NEW id, NEW n, NEW f, ReadsBehind(segs, segs2, id, n, f)
  PROVE  /\ ReadFrames(segs2) = ReadFrames(segs) \union {f}
         /\ \A snap \in Snapshots : \A m \in Nat :
              (f.kind = "txn" => f.offset >= m) /\ Reaches(segs, snap, m)
                => Reaches(segs2, snap, m)
         /\ \A snap \in Snapshots :
              /\ f.kind = "txn" /\ f.seq > snap.last /\ f.offset \in Nat
              /\ Highest(segs, id) /\ \A i \in Nat : Reads(segs, id, i) => i < n
              => Reaches(segs2, snap, f.offset)
<1>1. ReadFrames(segs2) = ReadFrames(segs) \union {f}
  BY ReadsAre DEF ReadsBehind
<1>2. \A a, i \in Nat : \A last :
        Newer(segs2, last, a, i) <=>
          Newer(segs, last, a, i) \/ (a = id /\ i = n /\ f.kind = "txn" /\ f.seq > last)
  BY ReadsAre DEF ReadsBehind
<1>3. \A a, i \in Nat : \A last : Newer(segs, last, a, i) => segs2[a][i] = segs[a][i]
  BY ReadsAre DEF ReadsBehind
<1>4. id \in Nat /\ n \in Nat /\ segs2[id][n] = f
  BY DEF ReadsBehind
<1>5. ASSUME NEW snap \in Snapshots, NEW m \in Nat, f.kind = "txn" => f.offset >= m,
             Reaches(segs, snap, m)
      PROVE  Reaches(segs2, snap, m)
  <2>1. \A a, i \in Nat : Newer(segs2, snap.last, a, i) =>
          \/ Newer(segs, snap.last, a, i) /\ segs2[a][i] = segs[a][i]
          \/ segs2[a][i].offset >= m
    BY <1>2, <1>3, <1>4, <1>5
  <2>2. \A a, i \in Nat : Newer(segs, snap.last, a, i) => Newer(segs2, snap.last, a, i)
    BY <1>2
  <2>3. CASE /\ snap.offset >= m
             /\ \A a, i \in Nat : Newer(segs, snap.last, a, i) => segs[a][i].offset >= m
    BY <2>1, <2>3 DEF Reaches
  <2>4. CASE \E a, i \in Nat :
              /\ Newer(segs, snap.last, a, i)
              /\ \A b, j \in Nat :
                   Newer(segs, snap.last, b, j) /\ Upto(a, i, b, j) => segs[b][j].offset >= m
    BY <2>1, <2>2, <2>4 DEF Reaches
  <2> QED BY <1>5, <2>3, <2>4 DEF Reaches
<1>6. ASSUME NEW snap \in Snapshots, f.kind = "txn", f.seq > snap.last, f.offset \in Nat,
             Highest(segs, id), \A i \in Nat : Reads(segs, id, i) => i < n
      PROVE  Reaches(segs2, snap, f.offset)
  <2>1. Newer(segs2, snap.last, id, n)
    BY <1>2, <1>4, <1>6
  <2>2. \A id2, j \in Nat :
          Newer(segs2, snap.last, id2, j) /\ Upto(id, n, id2, j) => segs2[id2][j].offset >= f.offset
    <3>1. SUFFICES ASSUME NEW id2 \in Nat, NEW j \in Nat,
                          Newer(segs2, snap.last, id2, j), Upto(id, n, id2, j)
                   PROVE  segs2[id2][j].offset >= f.offset
      OBVIOUS
    <3>2. CASE id2 = id /\ j = n
      BY <1>4, <1>6, <3>2
    <3>3. CASE ~ (id2 = id /\ j = n)
      <4>1. Reads(segs, id2, j) /\ id2 \in DOMAIN segs
        BY <1>2, <3>1, <3>3, ReadsAre DEF Newer
      <4>2. id2 <= id
        BY <1>6, <4>1 DEF Highest
      <4>3. id2 = id /\ n <= j
        BY <1>4, <3>1, <4>2 DEF Upto
      <4> QED BY <1>4, <1>6, <4>1, <4>3
    <3> QED BY <3>2, <3>3
  <2> QED BY <1>4, <2>1, <2>2 DEF Reaches
<1> QED BY <1>1, <1>5, <1>6

\* What one more frame at the end of a segment does to what is read of it.
LEMMA FrameAdded ==
  ASSUME NEW s \in Seq(Frames), NEW f \in Frames
  PROVE  /\ Append(s, f) \in Seq(Frames)
         /\ Len(Append(s, f)) = Len(s) + 1
         /\ \A i \in 1..Len(s) : Append(s, f)[i] = s[i]
         /\ Append(s, f)[Len(s) + 1] = f
         /\ Unreadable(s) # {} \/ f.kind \notin Whole =>
              Len(Readable(Append(s, f))) = Len(Readable(s))
         /\ Unreadable(s) = {} /\ f.kind \in Whole =>
              Len(Readable(Append(s, f))) = Len(s) + 1
<1> DEFINE t == Append(s, f)
           n == Len(s)
           r == Len(Readable(s))
<1>1. /\ n \in Nat /\ t \in Seq(Frames) /\ Len(t) = n + 1
      /\ \A i \in 1..n : t[i] = s[i]
      /\ t[n + 1] = f
  BY AppendProperties
<1>2. /\ r \in 0..n
      /\ \A i \in 1..r : s[i].kind \in Whole
      /\ r = n \/ s[r + 1].kind \notin Whole
      /\ Unreadable(s) = {} => r = n
  <2>1. /\ Len(Readable(s)) \in 0..Len(s)
        /\ \A i \in 1..Len(Readable(s)) : Readable(s)[i] = s[i] /\ s[i].kind \in Whole
        /\ Len(Readable(s)) = Len(s) \/ s[Len(Readable(s)) + 1].kind \notin Whole
        /\ Unreadable(s) = {} => Readable(s) = s
    BY ReadableIs
  <2> QED BY <2>1
<1>3. Unreadable(s) # {} => r # n
  <2>1. SUFFICES ASSUME r = n, NEW i \in Unreadable(s) PROVE FALSE
    OBVIOUS
  <2>2. i \in 1..n /\ s[i].kind \in {"torn", "overlong", "corrupt"}
    BY <1>1 DEF Unreadable
  <2>3. s[i].kind \in Whole
    BY <1>2, <2>1, <2>2
  <2> QED BY <2>2, <2>3 DEF Whole
<1> HIDE DEF t, r, n
<1>4. ASSUME Unreadable(s) # {} \/ f.kind \notin Whole
      PROVE  Len(Readable(t)) = r
  <2>1. r \in 0..Len(t)
    BY <1>1, <1>2
  <2>2. \A i \in 1..r : t[i].kind \in Whole
    <3>1. \A i \in 1..r : i \in 1..n
      BY <1>1, <1>2
    <3> QED BY <1>1, <1>2, <3>1
  <2>3. r = Len(t) \/ t[r + 1].kind \notin Whole
    <3>1. CASE r = n
      BY <1>1, <1>3, <1>4, <3>1
    <3>2. CASE r # n
      <4>1. r + 1 \in 1..n
        BY <1>1, <1>2, <3>2
      <4> QED BY <1>1, <1>2, <3>2, <4>1
    <3> QED BY <3>1, <3>2
  <2> QED BY <1>1, <2>1, <2>2, <2>3, ReadableBy
<1>5. ASSUME Unreadable(s) = {}, f.kind \in Whole
      PROVE  Len(Readable(t)) = n + 1
  <2>1. n + 1 \in 0..Len(t)
    BY <1>1
  <2>2. \A i \in 1..(n + 1) : t[i].kind \in Whole
    <3>1. \A i \in 1..(n + 1) : i \in 1..n \/ i = n + 1
      BY <1>1
    <3> QED BY <1>1, <1>2, <1>5, <3>1
  <2> QED BY <1>1, <2>1, <2>2, ReadableBy
<1> QED BY <1>1, <1>4, <1>5 DEF t, n, r

-----------------------------------------------------------------------------
(* Writing a frame.                                                        *)

Writers == [id : Nat, frames : Nat, next : Nat, isolated : SUBSET Nat]

StoreTypes ==
  /\ written \in Records \union {0}
  /\ received \subseteq Records
  /\ SegmentsTyped(segments)
  /\ snapshot \in Snapshots /\ snapshot.offset <= written
  /\ up \in BOOLEAN /\ settings \in Settings
  /\ memory \in Knowledge
  /\ writer \in Writers /\ IsFiniteSet(writer.isolated)
  /\ up => writer.next >= 1 /\ writer.id \in DOMAIN segments
  /\ behind \subseteq Records /\ stray \subseteq Records /\ damaged \in BOOLEAN
  /\ \A f \in ReadFrames(segments) :
       f.seq >= 1 /\ (f.kind = "txn" => f.offset \in 1..written)

\* What does not decode is at the end of its segment, and torn.
TornAtEnd(segs) ==
  \A id \in DOMAIN segs : \A i \in 1..Len(segs[id]) :
    segs[id][i].kind \notin Whole => segs[id][i].kind = "torn" /\ i = Len(segs[id])

\* The segment an append goes to.
LEMMA TargetIs ==
  ASSUME StoreTypes, up
  PROVE  /\ Target \in Nat
         /\ Held(Target) \in Seq(Frames)
         /\ Target \notin DOMAIN segments => Held(Target) = <<>>
         /\ Target \in DOMAIN segments => Held(Target) = segments[Target]
         /\ Highest(segments, writer.id) /\ writer.isolated = {} => Highest(segments, Target)
<1> DEFINE ids == DOMAIN segments \union writer.isolated
<1>1. /\ ids \in SUBSET Nat /\ IsFiniteSet(ids) /\ ids # {} /\ writer.id \in Nat
      /\ writer.id \in DOMAIN segments
  <2>1. IsFiniteSet(DOMAIN segments) /\ IsFiniteSet(writer.isolated)
    BY DEF StoreTypes, SegmentsTyped
  <2>2. IsFiniteSet(ids)
    BY <2>1, FS_Union
  <2> QED BY <2>2 DEF StoreTypes, SegmentsTyped, Writers
<1>2. Max(ids) \in Nat /\ \A x \in ids : x <= Max(ids)
  <2> HIDE DEF ids
  <2> QED BY <1>1, MaxIs
<1>3. NextId \in Nat /\ \A x \in ids : x < NextId
  <2>1. NextId = Max(ids) + 1
    BY DEF NextId
  <2>2. \A x \in ids : x \in Nat
    BY <1>1
  <2> HIDE DEF ids
  <2> QED BY <1>2, <2>1, <2>2
<1>4. Target \in Nat
  BY <1>1, <1>3 DEF Target
<1>5. \A id \in DOMAIN segments : segments[id] \in Seq(Frames)
  BY DEF StoreTypes, SegmentsTyped
<1>6. Held(Target) \in Seq(Frames)
  BY <1>5 DEF Held
<1>7. ASSUME Highest(segments, writer.id), writer.isolated = {} PROVE Highest(segments, Target)
  <2>1. \A x \in DOMAIN segments : x \in Nat /\ x < NextId
    BY <1>1, <1>3
  <2>2. \A x \in DOMAIN segments : x <= NextId
    BY <1>3, <2>1
  <2> QED BY <1>7, <2>2 DEF Highest, Target
<1> QED BY <1>4, <1>6, <1>7 DEF Held

\* A torn frame is a frame nobody can read.
LEMMA TornIs == Torn \in Frames /\ Torn.kind = "torn" /\ Torn.kind \notin Whole
  BY DEF Torn, Frames, Whole

\* What a write does to the segments, by what of the frame it leaves there.
LEMMA Wrote ==
  ASSUME StoreTypes, up, NEW f \in Frames, f.kind \in Whole \union {"overlong"},
         NEW added \in {<<>>, <<Torn>>, <<f>>}, NEW counted \in BOOLEAN,
         WriteToSegment(added, counted)
  PROVE  /\ SegmentsTyped(segments')
         /\ writer' \in Writers /\ writer'.isolated = writer.isolated
         /\ writer'.next = IF counted THEN writer.next + 1 ELSE writer.next
         /\ writer'.id = Target /\ DOMAIN segments' = DOMAIN segments \union {Target}
         /\ \/ /\ SameReads(segments, segments')
               /\ added = <<f>> =>
                    damaged' /\ (f.kind \in {"txn", "overlong"} => f.events \subseteq behind')
            \/ /\ added = <<f>> /\ f.kind \in Whole
               /\ \E n : /\ ReadsBehind(segments, segments', Target, n, f)
                         /\ \A i \in Nat : Reads(segments, Target, i) => i < n
         /\ damaged' \in BOOLEAN /\ behind \subseteq behind' /\ behind' \subseteq behind \union f.events
         /\ ~ damaged' => /\ ~ damaged /\ behind' = behind
                          /\ TornAtEnd(segments) => TornAtEnd(segments')
<1> DEFINE o == Held(Target)
           unread == Unreadable(o) # {} \/ \E i \in DOMAIN added : added[i].kind = "overlong"
           late == IF unread THEN added ELSE <<>>
           new == segments'[Target]
<1>1. /\ segments' = [id \in DOMAIN segments \union {Target} |->
                        IF id = Target THEN o \o added ELSE segments[id]]
      /\ writer' = [writer EXCEPT
                     !.id = Target,
                     !.frames = (IF Rotates THEN 0 ELSE @) + (IF counted THEN 1 ELSE 0),
                     !.next = IF counted THEN @ + 1 ELSE @]
      /\ damaged' = (damaged \/ late # <<>>)
      /\ behind' = behind \union UNION {late[i].events : i \in
                                          {j \in DOMAIN late : late[j].kind \in {"txn", "overlong"}}}
  BY DEF WriteToSegment
<1>2. /\ Target \in Nat
      /\ o \in Seq(Frames)
      /\ Target \notin DOMAIN segments => o = <<>>
      /\ Target \in DOMAIN segments => o = segments[Target]
  BY TargetIs
<1>3. /\ DOMAIN segments \in SUBSET Nat /\ IsFiniteSet(DOMAIN segments)
      /\ \A id \in DOMAIN segments : segments[id] \in Seq(Frames)
  BY DEF StoreTypes, SegmentsTyped
<1> HIDE DEF o
<1>4. \/ added = <<>> /\ new = o
      \/ added # <<>> /\ \E x \in Frames : added = <<x>> /\ new = Append(o, x) /\ (x = f \/ x = Torn)
  <2>1. new = o \o added
    BY <1>1
  <2>2. o \o <<>> = o /\ \A x \in Frames : o \o <<x>> = Append(o, x)
    BY <1>2
  <2> QED BY <2>1, <2>2, TornIs
<1>5. new \in Seq(Frames)
  <2>1. \A x \in Frames : Append(o, x) \in Seq(Frames)
    BY <1>2
  <2> QED BY <1>2, <1>4, <2>1
<1>6. /\ DOMAIN segments' = DOMAIN segments \union {Target}
      /\ \A id \in DOMAIN segments : id # Target => segments'[id] = segments[id]
  BY <1>1
<1>7. SegmentsTyped(segments')
  <2>1. IsFiniteSet(DOMAIN segments')
    BY <1>3, <1>6, FS_AddElement
  <2>2. \A id \in DOMAIN segments' : segments'[id] \in Seq(Frames)
    BY <1>3, <1>5, <1>6
  <2>3. segments' = [id \in DOMAIN segments' |-> segments'[id]]
    BY <1>1
  <2> HIDE DEF new
  <2> QED BY <1>2, <1>3, <1>6, <2>1, <2>2, <2>3 DEF SegmentsTyped
<1>8. /\ writer' \in Writers /\ writer'.isolated = writer.isolated /\ writer'.id = Target
      /\ writer'.next = IF counted THEN writer.next + 1 ELSE writer.next
  <2>1. writer \in Writers
    BY DEF StoreTypes
  <2> DEFINE c == IF counted THEN 1 ELSE 0
             r == IF Rotates THEN 0 ELSE writer.frames
             x == IF counted THEN writer.next + 1 ELSE writer.next
  <2>2. c \in Nat /\ r \in Nat /\ x \in Nat
    BY <2>1 DEF Writers
  <2>3. writer' = [writer EXCEPT !.id = Target, !.frames = r + c, !.next = x]
    BY <1>1
  <2> HIDE DEF c, r
  <2>4. r + c \in Nat
    BY <2>2
  <2> QED BY <1>2, <2>1, <2>2, <2>3, <2>4 DEF Writers
<1>9. \A i \in Nat : Reads(segments, Target, i) <=> i \in 1..Len(Readable(o)) /\ Target \in DOMAIN segments
  BY <1>2 DEF Reads
<1>10. Target \notin DOMAIN segments => Len(Readable(o)) = 0
  <2>1. Unreadable(<<>>) = {}
    BY DEF Unreadable
  <2> QED BY <1>2, <2>1 DEF Readable
<1>11. \A i \in Nat : Reads(segments, Target, i) <=> i \in 1..Len(Readable(o))
  BY <1>9, <1>10
<1>12. \A i \in Nat : Reads(segments', Target, i) <=> i \in 1..Len(Readable(new))
  BY <1>6 DEF Reads
<1>13. \A id, i \in Nat : id # Target =>
         /\ Reads(segments', id, i) <=> Reads(segments, id, i)
         /\ Reads(segments, id, i) => segments'[id][i] = segments[id][i]
  BY <1>6 DEF Reads
<1>14. \A i \in Nat : Reads(segments, Target, i) =>
         segments[Target][i] = o[i] /\ i \in 1..Len(o) /\ i \in 1..Len(Readable(o))
  <2>1. Len(Readable(o)) \in 0..Len(o) /\ Len(o) \in Nat
    BY <1>2, ReadableIs
  <2> QED BY <1>2, <1>11, <2>1 DEF Reads
<1> HIDE DEF new
<1>15. CASE added = <<>>
  <2>1. new = o /\ late = <<>>
    BY <1>4, <1>15
  <2>2. SameReads(segments, segments')
    BY <1>11, <1>12, <1>13, <1>14, <2>1 DEF SameReads, new
  <2>3. behind' = behind /\ damaged' = damaged
    BY <1>1, <2>1 DEF StoreTypes
  <2>4. TornAtEnd(segments) => TornAtEnd(segments')
    <3>1. SUFFICES ASSUME TornAtEnd(segments), NEW id \in DOMAIN segments', NEW i \in 1..Len(segments'[id]),
                          segments'[id][i].kind \notin Whole
                   PROVE  segments'[id][i].kind = "torn" /\ i = Len(segments'[id])
      BY DEF TornAtEnd
    <3>2. CASE id \in DOMAIN segments
      <4>1. segments'[id] = segments[id]
        BY <1>2, <1>6, <2>1, <3>2 DEF new
      <4> QED BY <3>1, <3>2, <4>1 DEF TornAtEnd
    <3>3. CASE id \notin DOMAIN segments
      <4>1. segments'[id] = <<>>
        BY <1>2, <1>6, <2>1, <3>3 DEF new
      <4> QED BY <3>1, <4>1
    <3> QED BY <3>2, <3>3
  <2> QED BY <1>6, <1>7, <1>8, <1>15, <2>2, <2>3, <2>4 DEF StoreTypes
<1>16. CASE added # <<>>
  <2>1. PICK x \in Frames : added = <<x>> /\ new = Append(o, x) /\ (x = f \/ x = Torn)
    BY <1>4, <1>16
  <2>2. /\ Len(new) = Len(o) + 1
        /\ \A i \in 1..Len(o) : new[i] = o[i]
        /\ new[Len(o) + 1] = x
        /\ Unreadable(o) # {} \/ x.kind \notin Whole => Len(Readable(new)) = Len(Readable(o))
        /\ Unreadable(o) = {} /\ x.kind \in Whole => Len(Readable(new)) = Len(o) + 1
    BY <1>2, <2>1, FrameAdded
  <2>3. /\ Len(o) \in Nat
        /\ Unreadable(o) = {} => Readable(o) = o /\ \A i \in 1..Len(o) : o[i].kind \in Whole
    <3>1. /\ Unreadable(o) = {} => Readable(o) = o
          /\ \A i \in 1..Len(Readable(o)) : Readable(o)[i] = o[i] /\ o[i].kind \in Whole
      BY <1>2, ReadableIs
    <3> QED BY <1>2, <3>1
  <2>4. x = f <=> added = <<f>>
    <3>1. <<x>>[1] = x /\ <<f>>[1] = f
      OBVIOUS
    <3> QED BY <2>1, <3>1
  <2>5. /\ unread <=> Unreadable(o) # {} \/ x.kind = "overlong"
        /\ late # <<>> <=> unread
    BY <2>1
  <2>6. behind' = behind \union
                    (IF unread /\ x.kind \in {"txn", "overlong"} THEN x.events ELSE {})
    <3>1. CASE ~ unread
      <4>1. late = <<>>
        BY <3>1
      <4> QED BY <1>1, <3>1, <4>1
    <3>2. CASE unread
      <4>1. late = <<x>> /\ DOMAIN late = {1} /\ late[1] = x
        BY <2>1, <3>2
      <4> HIDE DEF late, unread
      <4> QED BY <1>1, <3>2, <4>1
    <3> QED BY <3>1, <3>2
  <2> HIDE DEF late, unread
  <2>7. x.kind \notin Whole => (x = Torn /\ x.kind = "torn") \/ x.kind = "overlong"
    BY <2>1, TornIs
  <2>8. CASE Unreadable(o) # {} \/ x.kind \notin Whole
    <3>1. SameReads(segments, segments')
      BY <1>11, <1>12, <1>13, <1>14, <2>2, <2>8 DEF SameReads, new
    <3>2. added = <<f>> =>
            damaged' /\ (f.kind \in {"txn", "overlong"} => f.events \subseteq behind')
      <4>1. SUFFICES ASSUME added = <<f>>
                     PROVE  damaged' /\ (f.kind \in {"txn", "overlong"} => f.events \subseteq behind')
        OBVIOUS
      <4>2. x = f /\ f # Torn
        BY <2>4, <4>1, TornIs
      <4>3. unread
        BY <2>5, <2>7, <2>8, <4>2
      <4> QED BY <1>1, <2>5, <2>6, <4>2, <4>3
    <3>3. /\ damaged' \in BOOLEAN /\ behind \subseteq behind' /\ behind' \subseteq behind \union f.events
      BY <1>1, <2>1, <2>6, TornIs DEF StoreTypes
    <3>4. ASSUME ~ damaged' PROVE ~ damaged /\ behind' = behind /\ Unreadable(o) = {} /\ x = Torn
      BY <1>1, <2>5, <2>6, <2>7, <2>8, <3>4
    <3>5. ASSUME ~ damaged', TornAtEnd(segments) PROVE TornAtEnd(segments')
      <4>1. SUFFICES ASSUME NEW id \in DOMAIN segments', NEW i \in 1..Len(segments'[id]),
                            segments'[id][i].kind \notin Whole
                     PROVE  segments'[id][i].kind = "torn" /\ i = Len(segments'[id])
        BY DEF TornAtEnd
      <4>2. CASE id # Target
        BY <1>6, <3>5, <4>1, <4>2 DEF TornAtEnd
      <4>3. CASE id = Target
        <5>1. i \in 1..Len(new) /\ new[i].kind \notin Whole
          BY <4>1, <4>3 DEF new
        <5>2. i \notin 1..Len(o)
          BY <2>2, <2>3, <3>4, <3>5, <5>1
        <5>3. i = Len(o) + 1
          BY <2>2, <2>3, <5>1, <5>2
        <5> QED BY <2>2, <3>4, <3>5, <4>3, <5>3, TornIs DEF new
      <4> QED BY <4>2, <4>3
    <3> QED BY <1>6, <1>7, <1>8, <3>1, <3>2, <3>3, <3>4, <3>5
  <2>9. CASE Unreadable(o) = {} /\ x.kind \in Whole
    <3>1. x = f /\ added = <<f>> /\ f.kind \in Whole
      BY <2>1, <2>4, <2>9, TornIs
    <3> DEFINE n == Len(o) + 1
    <3>2. /\ n \in Nat /\ new[n] = f
          /\ \A i \in Nat : i \in 1..Len(Readable(new)) <=> i \in 1..Len(Readable(o)) \/ i = n
          /\ \A i \in Nat : i \in 1..Len(Readable(o)) => i < n
      BY <2>2, <2>3, <2>9, <3>1
    <3> HIDE DEF n
    <3>3. \A i \in Nat : Reads(segments, Target, i) => new[i] = segments[Target][i]
      BY <1>14, <2>2
    <3>4. n \in 1..Len(Readable(new))
      BY <3>2
    <3>5. ReadsBehind(segments, segments', Target, n, f)
      <4>1. Reads(segments', Target, n) /\ segments'[Target][n] = f
        BY <1>12, <3>2, <3>4 DEF new
      <4>2. \A a, i \in Nat :
              /\ Reads(segments', a, i) <=> Reads(segments, a, i) \/ (a = Target /\ i = n)
              /\ Reads(segments, a, i) => segments'[a][i] = segments[a][i]
        <5>1. TAKE a, i \in Nat
        <5>2. CASE a = Target
          BY <1>11, <1>12, <3>2, <3>3, <5>2 DEF new
        <5>3. CASE a # Target
          BY <1>13, <5>3
        <5> QED BY <5>2, <5>3
      <4> QED BY <1>2, <3>2, <4>1, <4>2 DEF ReadsBehind
    <3>6. \A i \in Nat : Reads(segments, Target, i) => i < n
      BY <1>11, <3>2
    <3>7. damaged' = damaged /\ behind' = behind
      <4>1. x.kind # "overlong"
        BY <2>9 DEF Whole
      <4> QED BY <1>1, <2>5, <2>6, <2>9, <4>1 DEF StoreTypes
    <3>8. ASSUME TornAtEnd(segments) PROVE TornAtEnd(segments')
      <4>1. SUFFICES ASSUME NEW id \in DOMAIN segments', NEW i \in 1..Len(segments'[id]),
                            segments'[id][i].kind \notin Whole
                     PROVE  segments'[id][i].kind = "torn" /\ i = Len(segments'[id])
        BY DEF TornAtEnd
      <4>2. CASE id # Target
        BY <1>6, <3>8, <4>1, <4>2 DEF TornAtEnd
      <4>3. CASE id = Target
        <5>1. i \in 1..Len(new) /\ new[i].kind \notin Whole
          BY <4>1, <4>3 DEF new
        <5>2. i \notin 1..Len(o)
          BY <2>2, <2>3, <2>9, <5>1
        <5>3. i = Len(o) + 1
          BY <2>2, <2>3, <5>1, <5>2
        <5> QED BY <2>2, <2>9, <5>1, <5>3
      <4> QED BY <4>2, <4>3
    <3> QED BY <1>6, <1>7, <1>8, <3>1, <3>5, <3>6, <3>7, <3>8 DEF StoreTypes
  <2> QED BY <2>8, <2>9
<1> QED BY <1>15, <1>16

-----------------------------------------------------------------------------
(* The invariant of the store, and the frames that may be appended.        *)

Known(m) == m.queued \union m.acked \union m.dead

\* The records the disk says anything of.
OnDisk == snapshot.acked \union snapshot.dead \union InFrames(segments, Whole)

\* What counts as acknowledged is at the server.
Delivered ==
  /\ snapshot.acked \subseteq received
  /\ InFrames(segments, {"ack"}) \subseteq received
  /\ up => memory.acked \subseteq received

\* No checkpoint is ahead of what is known, and nothing is known in memory only.
Covered ==
  /\ 1..snapshot.offset \subseteq OnDisk \union behind
  /\ \A f \in ReadFrames(segments) : f.kind = "txn" => 1..f.offset \subseteq OnDisk \union behind
  /\ up => /\ 1..memory.offset \subseteq Known(memory) \union behind
           /\ Known(memory) \subseteq OnDisk \union behind

\* The snapshot and the frames are of memory's past.
SnapshotBehind ==
  up => /\ memory.offset <= written
        /\ memory.queued \intersect (memory.acked \union memory.dead) = {}
        /\ snapshot.acked \subseteq memory.acked
        /\ snapshot.dead \subseteq memory.dead
        /\ snapshot.last < writer.next
        /\ \A f \in ReadFrames(segments) : f.seq <= writer.next

\* Without damage the disk has what memory knows, and what is newer than the
\* snapshot reaches the checkpoint.
Undamaged ==
  ~ damaged =>
    /\ behind = {}
    /\ TornAtEnd(segments)
    /\ snapshot.offset = 0 =>
         /\ snapshot.last = 0 /\ snapshot.acked = {} /\ snapshot.dead = {}
         /\ ReadFrames(segments) # {} => \E f \in ReadFrames(segments) : f.kind = "txn"
    /\ OnDisk \subseteq 1..View.offset \union stray

UpToDate ==
  ~ damaged /\ up =>
    /\ writer.isolated = {}
    /\ Highest(segments, writer.id)
    /\ \A f \in ReadFrames(segments) :
         f.kind = "txn" /\ f.seq = writer.next => f.offset >= memory.offset
    /\ memory.acked \subseteq snapshot.acked \union InFrames(segments, {"ack"})
    /\ memory.dead \subseteq snapshot.dead \union InFrames(segments, {"dead"})
    /\ Reaches(segments, snapshot, memory.offset)
    /\ memory.offset = 0 => Known(memory) = {}

StoreInv ==
  StoreTypes /\ Delivered /\ Covered /\ SnapshotBehind /\ Undamaged /\ UpToDate

\* A frame that may be appended.
Fits(f) ==
  /\ f \in Frames /\ f.kind \in Whole /\ f.seq = writer.next
  /\ f.kind = "txn" =>
       /\ f.offset \in 1..written /\ f.offset >= memory.offset
       /\ f.events \subseteq 1..f.offset
       /\ 1..f.offset \subseteq Known(memory) \union f.events \union behind
       /\ f.events \intersect memory.acked = {}
  /\ f.kind # "txn" => f.events \subseteq Known(memory) /\ (~ damaged => memory.offset > 0)
  /\ f.kind = "ack" => f.events \subseteq received

\* What is written for it: itself, or a transaction that no reader will take.
Sent(f) == {f} \union {g \in {Overlong(f)} : f.kind = "txn"}

After(f) ==
  CASE f.kind = "txn" -> WithTxn(memory, f.events, f.offset)
    [] f.kind = "ack" -> WithAck(memory, f.events)
    [] f.kind = "dead" -> WithDead(memory, f.events)

\* What is written for a frame.
LEMMA SentIs ==
  ASSUME NEW f \in Frames, f.kind \in Whole, NEW g \in Sent(f)
  PROVE  /\ g \in Frames /\ g.kind \in Whole \union {"overlong"} /\ g.events = f.events
         /\ g.kind \in Whole => g = f
         /\ g # f => f.kind = "txn" /\ g.kind = "overlong"
         /\ \A added \in {<<>>, <<Torn>>, <<g>>} : added = <<f>> => g = f
<1>1. CASE g = f
  <2>1. g.kind # "overlong"
    BY <1>1 DEF Whole
  <2> QED BY <1>1, <2>1
<1>2. CASE g # f
  <2>1. f.kind = "txn" /\ g = [f EXCEPT !.kind = "overlong"]
    BY <1>2 DEF Sent, Overlong
  <2>2. g \in Frames /\ g.kind = "overlong" /\ g.events = f.events
    BY <2>1 DEF Frames
  <2>3. <<f>> # <<>> /\ <<f>> # <<Torn>> /\ <<f>> # <<g>>
    <3>1. <<f>>[1] = f /\ <<Torn>>[1] = Torn /\ <<g>>[1] = g /\ Len(<<f>>) = 1 /\ Len(<<>>) = 0
      OBVIOUS
    <3>2. f # Torn
      BY TornIs
    <3> QED BY <1>2, <3>1, <3>2
  <2>4. g.kind \notin Whole
    BY <2>2 DEF Whole
  <2> QED BY <2>1, <2>2, <2>3, <2>4
<1> QED BY <1>1, <1>2

\* What memory knows after a frame.
LEMMA AfterIs ==
  ASSUME StoreTypes, NEW f, Fits(f),
         memory.queued \intersect (memory.acked \union memory.dead) = {}
  PROVE  LET m == After(f)
         IN /\ m \in Knowledge
            /\ m.offset = IF f.kind = "txn" THEN f.offset ELSE memory.offset
            /\ m.acked = memory.acked \union (IF f.kind = "ack" THEN f.events ELSE {})
            /\ m.dead = memory.dead \union (IF f.kind = "dead" THEN f.events ELSE {})
            /\ Known(m) = Known(memory) \union f.events
            /\ m.queued \intersect (m.acked \union m.dead) = {}
<1> DEFINE m == After(f)
<1>1. memory \in Knowledge /\ f.events \in SUBSET Records /\ f.offset \in Records \union {0}
  <2>1. f \in Frames
    BY DEF Fits
  <2> QED BY <2>1 DEF StoreTypes, Frames
<1>2. CASE f.kind = "txn"
  <2>1. m = WithTxn(memory, f.events, f.offset)
    BY <1>2 DEF After
  <2> QED BY <1>1, <1>2, <2>1 DEF WithTxn, Knowledge, Known
<1>3. CASE f.kind = "ack"
  <2>1. m = WithAck(memory, f.events)
    BY <1>3 DEF After
  <2> QED BY <1>1, <1>3, <2>1 DEF WithAck, Knowledge, Known
<1>4. CASE f.kind = "dead"
  <2>1. m = WithDead(memory, f.events)
    BY <1>4 DEF After
  <2>2. m = [memory EXCEPT !.queued = @ \ f.events, !.dead = @ \union f.events]
    BY <2>1 DEF WithDead
  <2> QED BY <1>1, <1>4, <2>2 DEF Knowledge, Known
<1> QED BY <1>2, <1>3, <1>4 DEF Fits, Whole

\* More frames say more.
LEMMA InFramesGrow ==
  ASSUME NEW segs, NEW segs2, ReadFrames(segs) \subseteq ReadFrames(segs2)
  PROVE  \A kinds : InFrames(segs, kinds) \subseteq InFrames(segs2, kinds)
BY DEF InFrames

\* One frame more says at most what is in it.
LEMMA InFramesOneMore ==
  ASSUME NEW segs, NEW segs2, NEW f \in Frames,
         ReadFrames(segs2) \subseteq ReadFrames(segs) \union {f}
  PROVE  \A kinds : InFrames(segs2, kinds) \subseteq
                      InFrames(segs, kinds) \union (IF f.kind \in kinds THEN f.events ELSE {})
BY DEF InFrames

\* A frame says what is in it.
LEMMA InFramesHas ==
  ASSUME NEW segs, NEW f \in ReadFrames(segs), NEW kinds, f.kind \in kinds
  PROVE  f.events \subseteq InFrames(segs, kinds)
<1>1. f \in Frames
  BY DEF ReadFrames
<1>2. f.events \subseteq Records
  BY <1>1 DEF Frames
<1> QED BY <1>2 DEF InFrames

\* What a write does to what opening would read.
LEMMA WroteFrames ==
  ASSUME StoreInv, up, NEW f, Fits(f), NEW g \in Sent(f),
         NEW added \in {<<>>, <<Torn>>, <<g>>}, NEW counted \in BOOLEAN,
         WriteToSegment(added, counted)
  PROVE  /\ ReadFrames(segments) \subseteq ReadFrames(segments')
         /\ ReadFrames(segments') \subseteq ReadFrames(segments) \union {f}
         /\ added # <<f>> => ReadFrames(segments') = ReadFrames(segments)
         /\ added = <<f>> /\ f.kind = "txn" => f.events \subseteq InFrames(segments', {"txn"}) \union behind'
         /\ added = <<g>> /\ g # f => damaged' /\ f.events \subseteq behind'
         /\ ~ damaged' =>
              /\ ~ damaged /\ behind' = behind
              /\ TornAtEnd(segments')
              /\ Highest(segments', writer'.id)
              /\ added = <<f>> => f \in ReadFrames(segments')
              /\ Reaches(segments', snapshot, memory.offset)
              /\ added = <<f>> /\ f.kind = "txn" => Reaches(segments', snapshot, f.offset)
<1>1. /\ StoreTypes /\ f \in Frames /\ f.kind \in Whole /\ SegmentsTyped(segments)
      /\ snapshot \in Snapshots /\ memory.offset \in Nat
  <2>1. memory \in Knowledge
    BY DEF StoreInv, StoreTypes
  <2> QED BY <2>1 DEF StoreInv, Fits, StoreTypes, Knowledge, Records
<1>0. /\ g \in Frames /\ g.kind \in Whole \union {"overlong"} /\ g.events = f.events
      /\ g.kind \in Whole => g = f
      /\ g # f => f.kind = "txn" /\ g.kind = "overlong"
      /\ added = <<f>> => g = f
  BY <1>1, SentIs
<1>2. /\ SegmentsTyped(segments')
      /\ writer'.id = Target /\ DOMAIN segments' = DOMAIN segments \union {Target}
      /\ \/ /\ SameReads(segments, segments')
            /\ added = <<g>> =>
                 damaged' /\ (g.kind \in {"txn", "overlong"} => g.events \subseteq behind')
         \/ /\ added = <<g>> /\ g.kind \in Whole
            /\ \E n : /\ ReadsBehind(segments, segments', Target, n, g)
                      /\ \A i \in Nat : Reads(segments, Target, i) => i < n
      /\ ~ damaged' => /\ ~ damaged /\ behind' = behind
                       /\ TornAtEnd(segments) => TornAtEnd(segments')
  BY <1>1, <1>0, Wrote
<1>3. ASSUME ~ damaged'
      PROVE  /\ ~ damaged /\ behind' = behind /\ TornAtEnd(segments')
             /\ Highest(segments, Target) /\ Highest(segments', writer'.id)
             /\ Reaches(segments, snapshot, memory.offset)
  <2>1. ~ damaged /\ behind' = behind /\ TornAtEnd(segments')
    BY <1>2, <1>3 DEF StoreInv, Undamaged
  <2>2. Highest(segments, Target)
    BY <1>1, <2>1, TargetIs DEF StoreInv, UpToDate
  <2>3. Highest(segments', writer'.id)
    <3>1. Target \in Nat
      BY <1>1, TargetIs
    <3> QED BY <1>2, <2>2, <3>1 DEF Highest
  <2> QED BY <2>1, <2>2, <2>3 DEF StoreInv, UpToDate
<1>4. CASE /\ SameReads(segments, segments')
           /\ added = <<g>> =>
                damaged' /\ (g.kind \in {"txn", "overlong"} => g.events \subseteq behind')
  <2>1. /\ ReadFrames(segments') = ReadFrames(segments)
        /\ \A snap, m : Reaches(segments, snap, m) => Reaches(segments', snap, m)
    BY <1>1, <1>2, <1>4, SameReadsSame
  <2> QED BY <1>0, <1>3, <1>4, <2>1
<1>5. CASE /\ added = <<g>> /\ g.kind \in Whole
           /\ \E n : /\ ReadsBehind(segments, segments', Target, n, g)
                     /\ \A i \in Nat : Reads(segments, Target, i) => i < n
  <2>1. PICK n : /\ ReadsBehind(segments, segments', Target, n, f)
                 /\ \A i \in Nat : Reads(segments, Target, i) => i < n
    BY <1>0, <1>5
  <2>2. /\ ReadFrames(segments') = ReadFrames(segments) \union {f}
        /\ \A snap \in Snapshots : \A m \in Nat :
              (f.kind = "txn" => f.offset >= m) /\ Reaches(segments, snap, m)
                => Reaches(segments', snap, m)
        /\ \A snap \in Snapshots :
              /\ f.kind = "txn" /\ f.seq > snap.last /\ f.offset \in Nat
              /\ Highest(segments, Target) /\ \A i \in Nat : Reads(segments, Target, i) => i < n
              => Reaches(segments', snap, f.offset)
    BY <1>1, <1>2, <2>1, ReadsBehindMore
  <2>3. f.kind = "txn" => f.events \subseteq InFrames(segments', {"txn"})
    BY <2>2, InFramesHas
  <2>4. f.kind = "txn" => f.offset \in Nat /\ f.offset >= memory.offset /\ f.seq > snapshot.last
    <3>1. f.seq = writer.next /\ snapshot.last < writer.next
      BY DEF Fits, StoreInv, SnapshotBehind
    <3>2. snapshot.last \in Nat /\ writer.next \in Nat
      BY DEF StoreInv, StoreTypes, Snapshots, Writers
    <3> QED BY <3>1, <3>2 DEF Fits
  <2>5. ASSUME ~ damaged' PROVE Reaches(segments', snapshot, memory.offset)
    BY <1>1, <1>3, <2>2, <2>4, <2>5
  <2>6. ASSUME ~ damaged', f.kind = "txn" PROVE Reaches(segments', snapshot, f.offset)
    BY <1>1, <1>3, <2>1, <2>2, <2>4, <2>6
  <2> QED BY <1>0, <1>3, <1>5, <2>2, <2>3, <2>5, <2>6
<1> QED BY <1>2, <1>4, <1>5

-----------------------------------------------------------------------------
(* An append that succeeds keeps the invariant.                            *)

\* A checkpoint past the start that the snapshot does not have is on disk.
LEMMA HasTransaction ==
  ASSUME NEW segs, SegmentsTyped(segs), NEW snap \in Snapshots, NEW m \in Nat \ {0},
         Reaches(segs, snap, m), snap.offset = 0
  PROVE  \E f \in ReadFrames(segs) : f.kind = "txn"
<1>1. PICK id \in Nat, i \in Nat : Newer(segs, snap.last, id, i)
  BY DEF Reaches
<1>2. Reads(segs, id, i) /\ segs[id][i].kind = "txn"
  BY <1>1, ReadsAre
<1> QED BY <1>2, ReadsAre

\* If no transaction is newer than the snapshot, the snapshot's checkpoint counts;
\* and if those that are reach as far.
LEMMA ReachesFromSnapshot ==
  ASSUME NEW segs, SegmentsTyped(segs), NEW snap \in Snapshots,
         \A f \in ReadFrames(segs) :
           f.kind = "txn" /\ f.seq > snap.last => f.offset >= snap.offset
  PROVE  Reaches(segs, snap, snap.offset)
<1>1. \A id, i \in Nat : Newer(segs, snap.last, id, i) =>
        segs[id][i] \in ReadFrames(segs) /\ segs[id][i].kind = "txn" /\ segs[id][i].seq > snap.last
  BY ReadsAre
<1>2. snap.offset \in Nat
  BY DEF Snapshots, Records
<1> QED BY <1>1, <1>2 DEF Reaches

\* A frame was appended and memory has followed.
LEMMA AppendedKeeps ==
  ASSUME StoreInv, up, NEW f, Fits(f), NEW g \in Sent(f), AppendsAnd(g, After(f)),
         snapshot' \in {snapshot, SnapshotOf(After(f), writer.next)},
         UNCHANGED <<written, received, settings>>
  PROVE  StoreInv'
<1> DEFINE m == After(f)
<1>1. /\ WriteToSegment(<<g>>, TRUE)
      /\ memory' = m
      /\ snapshot' \in {snapshot, SnapshotOf(m, writer.next)}
      /\ UNCHANGED <<written, received, up, settings, stray>>
  BY DEF AppendsAnd
<1>2. /\ f \in Frames /\ f.kind \in Whole /\ f.seq = writer.next /\ f.events \in SUBSET Records
      /\ f.kind = "txn" => f.offset \in 1..written /\ f.offset >= memory.offset
  BY DEF Fits, Frames
<1>3. StoreTypes /\ Delivered /\ Covered /\ SnapshotBehind /\ Undamaged /\ UpToDate
  BY DEF StoreInv
<1>4. /\ memory \in Knowledge /\ snapshot \in Snapshots /\ writer \in Writers
      /\ memory.offset \in Nat /\ snapshot.last \in Nat /\ snapshot.offset \in Nat
      /\ writer.next \in Nat /\ written \in Nat /\ written <= Length
      /\ writer.next >= 1 /\ snapshot.last < writer.next
  BY <1>3, SpoolAssumption DEF StoreTypes, SnapshotBehind, Knowledge, Snapshots, Writers, Records
<1>5. memory.queued \intersect (memory.acked \union memory.dead) = {}
  BY <1>3 DEF SnapshotBehind
<1>6. /\ m \in Knowledge
      /\ m.offset = IF f.kind = "txn" THEN f.offset ELSE memory.offset
      /\ m.acked = memory.acked \union (IF f.kind = "ack" THEN f.events ELSE {})
      /\ m.dead = memory.dead \union (IF f.kind = "dead" THEN f.events ELSE {})
      /\ Known(m) = Known(memory) \union f.events
      /\ m.queued \intersect (m.acked \union m.dead) = {}
  BY <1>3, <1>5, AfterIs
<1>7. /\ ReadFrames(segments) \subseteq ReadFrames(segments')
      /\ ReadFrames(segments') \subseteq ReadFrames(segments) \union {f}
      /\ f.kind = "txn" => f.events \subseteq InFrames(segments', {"txn"}) \union behind'
      /\ ~ damaged' =>
           /\ ~ damaged /\ behind' = behind
           /\ TornAtEnd(segments')
           /\ Highest(segments', writer'.id)
           /\ f \in ReadFrames(segments')
           /\ Reaches(segments', snapshot, memory.offset)
           /\ f.kind = "txn" => Reaches(segments', snapshot, f.offset)
  <2>1. <<g>> \in {<<>>, <<Torn>>, <<g>>}
    OBVIOUS
  <2>2. CASE g = f
    BY <1>1, <2>1, <2>2, WroteFrames
  <2>3. CASE g # f
    <3>1. /\ ReadFrames(segments) \subseteq ReadFrames(segments')
          /\ ReadFrames(segments') \subseteq ReadFrames(segments) \union {f}
          /\ damaged' /\ f.events \subseteq behind'
      BY <1>1, <2>1, <2>3, WroteFrames
    <3> QED BY <3>1
  <2> QED BY <2>2, <2>3
<1>8. /\ SegmentsTyped(segments')
      /\ writer' \in Writers /\ writer'.isolated = writer.isolated
      /\ writer'.next = writer.next + 1
      /\ writer'.id \in DOMAIN segments'
      /\ damaged' \in BOOLEAN /\ behind \subseteq behind' /\ behind' \subseteq behind \union f.events
  <2>1. <<g>> \in {<<>>, <<Torn>>, <<g>>}
    OBVIOUS
  <2>2. g \in Frames /\ g.kind \in Whole \union {"overlong"} /\ g.events = f.events
    BY <1>2, SentIs
  <2> QED BY <1>1, <1>3, <2>1, <2>2, Wrote
<1>9. /\ m.offset \in Nat /\ m.offset >= memory.offset /\ m.offset <= written
      /\ ~ damaged => m.offset # 0
  <2>1. memory.offset <= written
    BY <1>3 DEF SnapshotBehind
  <2>2. f.kind = "txn" => f.offset \in Nat /\ f.offset <= written /\ f.offset # 0 /\ f.offset >= memory.offset
    BY <1>2, <1>4
  <2>3. f.kind # "txn" /\ ~ damaged => memory.offset # 0
    BY <1>4 DEF Fits
  <2> QED BY <1>4, <1>6, <2>1, <2>2, <2>3
<1>10. \/ snapshot' = snapshot
       \/ /\ snapshot' = SnapshotOf(m, writer.next)
          /\ snapshot'.last = writer.next /\ snapshot'.offset = m.offset
          /\ snapshot'.acked = m.acked /\ snapshot'.dead = m.dead
  BY <1>1 DEF SnapshotOf
<1> HIDE DEF m
<1>11. snapshot' \in Snapshots /\ snapshot'.offset <= written
  <2>1. SnapshotOf(m, writer.next) \in Snapshots
    BY <1>4, <1>6 DEF SnapshotOf, Snapshots, Knowledge
  <2> QED BY <1>3, <1>9, <1>10, <2>1 DEF StoreTypes
<1>12. \A x \in ReadFrames(segments') : x \in ReadFrames(segments) \/ x = f
  BY <1>7
<1>13. StoreTypes'
  <2>1. \A x \in ReadFrames(segments') : x.seq >= 1 /\ (x.kind = "txn" => x.offset \in 1..written')
    BY <1>1, <1>2, <1>3, <1>4, <1>12 DEF StoreTypes
  <2>2. behind' \subseteq Records
    BY <1>2, <1>3, <1>8 DEF StoreTypes
  <2>3. writer'.next >= 1 /\ IsFiniteSet(writer'.isolated)
    BY <1>3, <1>4, <1>8 DEF StoreTypes
  <2> QED BY <1>1, <1>3, <1>6, <1>8, <1>11, <2>1, <2>2, <2>3 DEF StoreTypes
<1>14. /\ snapshot.acked \subseteq snapshot'.acked /\ snapshot.dead \subseteq snapshot'.dead
       /\ snapshot'.acked \subseteq m.acked /\ snapshot'.dead \subseteq m.dead
  BY <1>1, <1>3, <1>6, <1>10 DEF SnapshotBehind
<1>15. \A kinds : /\ InFrames(segments, kinds) \subseteq InFrames(segments', kinds)
                  /\ InFrames(segments', kinds) \subseteq
                       InFrames(segments, kinds) \union (IF f.kind \in kinds THEN f.events ELSE {})
  BY <1>2, <1>7, InFramesGrow, InFramesOneMore
<1>16. Delivered'
  <2>1. m.acked \subseteq received
    BY <1>3, <1>6 DEF Delivered, Fits
  <2>2. InFrames(segments', {"ack"}) \subseteq received
    BY <1>3, <1>15 DEF Delivered, Fits
  <2> QED BY <1>1, <1>14, <2>1, <2>2 DEF Delivered
<1>17. OnDisk \subseteq OnDisk' /\ InFrames(segments', {"txn"}) \subseteq OnDisk'
  <2>1. InFrames(segments', {"txn"}) \subseteq InFrames(segments', Whole)
    BY DEF InFrames, Whole
  <2> QED BY <1>14, <1>15, <2>1 DEF OnDisk
<1>18. Known(m) \subseteq OnDisk' \union behind'
  <2>1. f.kind # "txn" => f.events \subseteq Known(memory)
    BY DEF Fits
  <2>2. f.events \subseteq OnDisk' \union behind' \union Known(memory)
    BY <1>7, <1>17, <2>1
  <2>3. Known(memory) \subseteq OnDisk \union behind
    BY <1>3 DEF Covered
  <2> QED BY <1>6, <1>8, <1>17, <2>2, <2>3
<1>19. 1..m.offset \subseteq Known(m) \union behind'
  <2>1. 1..memory.offset \subseteq Known(memory) \union behind
    BY <1>3 DEF Covered
  <2>2. f.kind = "txn" => 1..f.offset \subseteq Known(memory) \union f.events \union behind
    BY DEF Fits
  <2> QED BY <1>6, <1>8, <2>1, <2>2
<1>20. Covered'
  <2>1. 1..snapshot'.offset \subseteq OnDisk' \union behind'
    <3>1. CASE snapshot' = snapshot
      BY <1>3, <1>8, <1>17, <3>1 DEF Covered
    <3>2. CASE snapshot'.offset = m.offset
      BY <1>18, <1>19, <3>2
    <3> QED BY <1>10, <3>1, <3>2
  <2>2. \A x \in ReadFrames(segments') : x.kind = "txn" => 1..x.offset \subseteq OnDisk' \union behind'
    <3>1. \A x \in ReadFrames(segments) : x.kind = "txn" => 1..x.offset \subseteq OnDisk \union behind
      BY <1>3 DEF Covered
    <3>2. f.kind = "txn" => 1..f.offset \subseteq OnDisk' \union behind'
      BY <1>6, <1>18, <1>19
    <3> QED BY <1>8, <1>12, <1>17, <3>1, <3>2
  <2> QED BY <1>1, <1>18, <1>19, <2>1, <2>2 DEF Covered
<1>21. \A x \in ReadFrames(segments') : x.seq \in Nat /\ x.seq <= writer.next
  <2>1. \A x \in ReadFrames(segments) : x.seq <= writer.next
    BY <1>3 DEF SnapshotBehind
  <2>2. \A x \in ReadFrames(segments') : x.seq \in Nat
    BY DEF ReadFrames, Frames
  <2> QED BY <1>2, <1>4, <1>12, <2>1, <2>2
<1>22. SnapshotBehind'
  <2>1. snapshot'.last < writer'.next
    BY <1>4, <1>8, <1>10
  <2>2. \A x \in ReadFrames(segments') : x.seq <= writer'.next
    BY <1>4, <1>8, <1>21
  <2> QED BY <1>1, <1>6, <1>9, <1>14, <2>1, <2>2 DEF SnapshotBehind
<1>23. Undamaged'
  <2>1. SUFFICES ASSUME ~ damaged'
                 PROVE  /\ behind' = {}
                        /\ TornAtEnd(segments')
                        /\ snapshot'.offset = 0 =>
                             /\ snapshot'.last = 0 /\ snapshot'.acked = {} /\ snapshot'.dead = {}
                             /\ ReadFrames(segments') # {} => \E x \in ReadFrames(segments') : x.kind = "txn"
                        /\ OnDisk' \subseteq 1..(View').offset \union stray'
    BY DEF Undamaged
  <2>2. /\ ~ damaged /\ behind' = {} /\ behind = {} /\ TornAtEnd(segments') /\ f \in ReadFrames(segments')
        /\ OnDisk \subseteq 1..memory.offset \union stray
    BY <1>3, <1>7, <2>1 DEF Undamaged, View
  <2>3. ASSUME snapshot'.offset = 0
        PROVE  /\ snapshot'.last = 0 /\ snapshot'.acked = {} /\ snapshot'.dead = {}
               /\ \E x \in ReadFrames(segments') : x.kind = "txn"
    <3>1. snapshot' = snapshot
      BY <1>9, <1>10, <2>2, <2>3
    <3>2. CASE f.kind = "txn"
      BY <1>3, <2>2, <2>3, <3>1, <3>2 DEF Undamaged
    <3>3. CASE f.kind # "txn"
      <4>1. memory.offset \in Nat \ {0}
        BY <1>4, <2>2, <3>3 DEF Fits
      <4>2. \E x \in ReadFrames(segments) : x.kind = "txn"
        BY <1>3, <1>4, <2>2, <2>3, <3>1, <4>1, HasTransaction DEF StoreTypes, UpToDate
      <4> QED BY <1>3, <1>7, <2>2, <2>3, <3>1, <4>2 DEF Undamaged
    <3> QED BY <3>2, <3>3
  <2>4. OnDisk' \subseteq OnDisk \union Known(m)
    <3>1. InFrames(segments', Whole) \subseteq InFrames(segments, Whole) \union f.events
      BY <1>15
    <3> QED BY <1>6, <1>14, <3>1 DEF OnDisk, Known
  <2>5. Known(memory) \subseteq 1..memory.offset \union stray
    BY <1>3, <2>2 DEF Covered
  <2>6. 1..memory.offset \subseteq 1..m.offset
    BY <1>4, <1>9
  <2>7. f.events \subseteq 1..m.offset \union stray
    <3>1. f.kind = "txn" => f.events \subseteq 1..f.offset
      BY DEF Fits
    <3>2. f.kind # "txn" => f.events \subseteq Known(memory)
      BY DEF Fits
    <3> QED BY <1>6, <2>5, <2>6, <3>1, <3>2
  <2>8. View' = m
    BY <1>1 DEF View
  <2>9. OnDisk' \subseteq 1..m.offset \union stray
    BY <1>6, <2>2, <2>4, <2>5, <2>6, <2>7
  <2> QED BY <1>1, <2>2, <2>3, <2>8, <2>9
<1>24. UpToDate'
  <2>1. SUFFICES ASSUME ~ damaged'
                 PROVE  /\ writer'.isolated = {}
                        /\ Highest(segments', writer'.id)
                        /\ \A x \in ReadFrames(segments') :
                             x.kind = "txn" /\ x.seq = writer'.next => x.offset >= m.offset
                        /\ m.acked \subseteq snapshot'.acked \union InFrames(segments', {"ack"})
                        /\ m.dead \subseteq snapshot'.dead \union InFrames(segments', {"dead"})
                        /\ Reaches(segments', snapshot', m.offset)
                        /\ m.offset = 0 => Known(m) = {}
    BY <1>1 DEF UpToDate
  <2>2. /\ ~ damaged /\ Highest(segments', writer'.id) /\ f \in ReadFrames(segments')
        /\ Reaches(segments', snapshot, memory.offset)
        /\ f.kind = "txn" => Reaches(segments', snapshot, f.offset)
    BY <1>7, <2>1
  <2>3. writer'.isolated = {} /\ m.offset # 0
    BY <1>3, <1>8, <1>9, <2>2 DEF UpToDate
  <2>4. \A x \in ReadFrames(segments') : x.seq # writer'.next
    BY <1>4, <1>8, <1>21
  <2>5. Reaches(segments', snapshot', m.offset)
    <3>1. CASE snapshot' = snapshot
      BY <1>6, <2>2, <3>1
    <3>2. CASE snapshot'.last = writer.next /\ snapshot'.offset = m.offset
      <4>1. \A x \in ReadFrames(segments') : ~ (x.seq > snapshot'.last)
        BY <1>4, <1>21, <3>2
      <4> QED BY <1>8, <1>11, <3>2, <4>1, ReachesFromSnapshot
    <3> QED BY <1>10, <3>1, <3>2
  <2>6. m.acked \subseteq snapshot'.acked \union InFrames(segments', {"ack"})
    <3>1. f.kind = "ack" => f.events \subseteq InFrames(segments', {"ack"})
      BY <2>2, InFramesHas
    <3>2. memory.acked \subseteq snapshot.acked \union InFrames(segments, {"ack"})
      BY <1>3, <2>2 DEF UpToDate
    <3> QED BY <1>6, <1>14, <1>15, <3>1, <3>2
  <2>7. m.dead \subseteq snapshot'.dead \union InFrames(segments', {"dead"})
    <3>1. f.kind = "dead" => f.events \subseteq InFrames(segments', {"dead"})
      BY <2>2, InFramesHas
    <3>2. memory.dead \subseteq snapshot.dead \union InFrames(segments, {"dead"})
      BY <1>3, <2>2 DEF UpToDate
    <3> QED BY <1>6, <1>14, <1>15, <3>1, <3>2
  <2> QED BY <2>2, <2>3, <2>4, <2>5, <2>6, <2>7
<1> QED BY <1>13, <1>16, <1>20, <1>22, <1>23, <1>24 DEF StoreInv

-----------------------------------------------------------------------------
(* So does one that goes wrong, and a crash.                               *)

\* Once the process is down, what opening will recover reaches m, and all that is on
\* disk lies before it or is stray.
LEMMA DownReaches ==
  ASSUME NEW segs, SegmentsTyped(segs), NEW snap \in Snapshots, NEW m \in Nat,
         Reaches(segs, snap, m),
         snap.offset = 0 => snap.last = 0,
         \A f \in ReadFrames(segs) : f.kind = "txn" => f.seq >= 1 /\ f.offset >= 1
  PROVE  1..m \subseteq 1..Recovered(segs, snap).offset
<1>1. Recovered(segs, snap).offset >= m
  BY ReachesIs
<1>2. Recovered(segs, snap).offset \in Nat
  <2>1. Recovered(segs, snap) \in Knowledge
    BY RecoveredIs
  <2> QED BY <2>1 DEF Knowledge, Records
<1> QED BY <1>1, <1>2

\* The append failed, or the process died in it.
LEMMA WrongKeeps ==
  ASSUME StoreInv, up, NEW f, Fits(f), NEW g \in Sent(f), AppendGoesWrong(g),
         UNCHANGED <<written, received, settings>>
  PROVE  /\ StoreInv'
         /\ ReadFrames(segments) \subseteq ReadFrames(segments')
         /\ stray \subseteq stray'
         /\ ~ damaged' => ~ damaged /\ Reaches(segments', snapshot', memory.offset)
<1>1. PICK added \in {<<>>, <<Torn>>, <<g>>} :
        /\ WriteToSegment(added, FALSE)
        /\ \/ /\ UNCHANGED <<up, memory>>
              /\ stray' = stray \union (IF added = <<g>> THEN g.events ELSE {})
           \/ up' = FALSE /\ memory' = Nothing /\ UNCHANGED stray
  BY DEF AppendGoesWrong
<1>2. /\ f \in Frames /\ f.kind \in Whole /\ f.seq = writer.next /\ f.events \in SUBSET Records
      /\ f.kind = "txn" => f.offset \in 1..written /\ f.offset >= memory.offset
  BY DEF Fits, Frames
<1>0. /\ g \in Frames /\ g.kind \in Whole \union {"overlong"} /\ g.events = f.events
      /\ added = <<f>> => g = f
  BY <1>2, SentIs
<1>3. /\ StoreTypes /\ Delivered /\ Covered /\ SnapshotBehind /\ Undamaged /\ UpToDate
      /\ UNCHANGED <<written, received, settings, snapshot>>
  BY DEF StoreInv, AppendGoesWrong
<1>4. /\ memory \in Knowledge /\ snapshot \in Snapshots /\ writer \in Writers
      /\ memory.offset \in Nat /\ snapshot.last \in Nat /\ snapshot.offset \in Nat
      /\ writer.next \in Nat /\ written \in Nat /\ written <= Length
      /\ writer.next >= 1 /\ snapshot.last < writer.next
  BY <1>3, SpoolAssumption DEF StoreTypes, SnapshotBehind, Knowledge, Snapshots, Writers, Records
<1>5. /\ ReadFrames(segments) \subseteq ReadFrames(segments')
      /\ ReadFrames(segments') \subseteq ReadFrames(segments) \union {f}
      /\ added # <<f>> => ReadFrames(segments') = ReadFrames(segments)
      /\ added = <<f>> /\ f.kind = "txn" => f.events \subseteq InFrames(segments', {"txn"}) \union behind'
      /\ ~ damaged' =>
           /\ ~ damaged /\ behind' = behind
           /\ TornAtEnd(segments')
           /\ Highest(segments', writer'.id)
           /\ Reaches(segments', snapshot, memory.offset)
           /\ added = <<f>> /\ f.kind = "txn" => Reaches(segments', snapshot, f.offset)
  BY <1>1, WroteFrames
<1>6. /\ SegmentsTyped(segments')
      /\ writer' \in Writers /\ writer'.isolated = writer.isolated
      /\ writer'.next = writer.next
      /\ writer'.id \in DOMAIN segments'
      /\ damaged' \in BOOLEAN /\ behind \subseteq behind' /\ behind' \subseteq behind \union f.events
  BY <1>0, <1>1, <1>2, <1>3, Wrote
<1>7. \A x \in ReadFrames(segments') : x \in ReadFrames(segments) \/ (x = f /\ added = <<f>>)
  BY <1>5
<1>8. /\ stray \subseteq stray' /\ stray' \subseteq Records
      /\ up' \in BOOLEAN /\ memory' \in Knowledge
      /\ up' => memory' = memory /\ (added = <<f>> => f.events \subseteq stray')
  <2>1. Nothing \in Knowledge
    BY DEF Nothing, Knowledge
  <2> QED BY <1>0, <1>1, <1>2, <1>3, <2>1 DEF StoreTypes
<1>9. StoreTypes'
  <2>1. \A x \in ReadFrames(segments') : x.seq >= 1 /\ (x.kind = "txn" => x.offset \in 1..written')
    BY <1>2, <1>3, <1>4, <1>7 DEF StoreTypes
  <2>2. behind' \subseteq Records
    BY <1>2, <1>3, <1>6 DEF StoreTypes
  <2>3. writer'.next >= 1 /\ IsFiniteSet(writer'.isolated)
    BY <1>3, <1>4, <1>6 DEF StoreTypes
  <2> QED BY <1>3, <1>6, <1>8, <2>1, <2>2, <2>3 DEF StoreTypes
<1>10. \A kinds : /\ InFrames(segments, kinds) \subseteq InFrames(segments', kinds)
                  /\ InFrames(segments', kinds) \subseteq
                       InFrames(segments, kinds) \union (IF f.kind \in kinds THEN f.events ELSE {})
                  /\ added # <<f>> => InFrames(segments', kinds) = InFrames(segments, kinds)
  BY <1>2, <1>5, InFramesGrow, InFramesOneMore DEF InFrames
<1>11. Delivered'
  <2>1. InFrames(segments', {"ack"}) \subseteq received
    BY <1>3, <1>10 DEF Delivered, Fits
  <2> QED BY <1>3, <1>8, <2>1 DEF Delivered
<1>12. OnDisk \subseteq OnDisk' /\ InFrames(segments', {"txn"}) \subseteq OnDisk'
  <2>1. InFrames(segments', {"txn"}) \subseteq InFrames(segments', Whole)
    BY DEF InFrames, Whole
  <2> QED BY <1>3, <1>10, <2>1 DEF OnDisk
<1>13. Known(memory) \subseteq OnDisk \union behind /\ 1..memory.offset \subseteq Known(memory) \union behind
  BY <1>3 DEF Covered
<1>14. Covered'
  <2>1. \A x \in ReadFrames(segments) : x.kind = "txn" => 1..x.offset \subseteq OnDisk \union behind
    BY <1>3 DEF Covered
  <2>2. added = <<f>> /\ f.kind = "txn" => 1..f.offset \subseteq OnDisk' \union behind'
    <3>1. f.kind = "txn" => 1..f.offset \subseteq Known(memory) \union f.events \union behind
      BY DEF Fits
    <3> QED BY <1>5, <1>6, <1>12, <1>13, <3>1
  <2>3. \A x \in ReadFrames(segments') : x.kind = "txn" => 1..x.offset \subseteq OnDisk' \union behind'
    BY <1>6, <1>7, <1>12, <2>1, <2>2
  <2>4. 1..snapshot.offset \subseteq OnDisk \union behind
    BY <1>3 DEF Covered
  <2> QED BY <1>3, <1>6, <1>8, <1>12, <1>13, <2>3, <2>4 DEF Covered
<1>15. SnapshotBehind'
  <2>1. \A x \in ReadFrames(segments') : x.seq <= writer'.next
    BY <1>2, <1>3, <1>4, <1>6, <1>7 DEF SnapshotBehind
  <2> QED BY <1>3, <1>6, <1>8, <2>1 DEF SnapshotBehind
<1>16. ASSUME ~ damaged'
       PROVE  /\ ~ damaged /\ behind' = {} /\ behind = {} /\ TornAtEnd(segments')
              /\ OnDisk \subseteq 1..memory.offset \union stray
              /\ Known(memory) \subseteq 1..memory.offset \union stray
              /\ Reaches(segments', snapshot, memory.offset)
              /\ added = <<f>> /\ f.kind = "txn" => Reaches(segments', snapshot, f.offset)
  <2>1. /\ ~ damaged /\ behind' = {} /\ behind = {} /\ TornAtEnd(segments')
        /\ OnDisk \subseteq 1..memory.offset \union stray
    BY <1>3, <1>5, <1>16 DEF Undamaged, View
  <2>2. Known(memory) \subseteq 1..memory.offset \union stray
    BY <1>13, <2>1
  <2> QED BY <1>5, <1>16, <2>1, <2>2
<1>17. ASSUME ~ damaged', snapshot.offset = 0
       PROVE  /\ snapshot.last = 0 /\ snapshot.acked = {} /\ snapshot.dead = {}
              /\ ReadFrames(segments') # {} => \E x \in ReadFrames(segments') : x.kind = "txn"
  <2>1. /\ snapshot.last = 0 /\ snapshot.acked = {} /\ snapshot.dead = {}
        /\ ReadFrames(segments) # {} => \E x \in ReadFrames(segments) : x.kind = "txn"
    BY <1>3, <1>16, <1>17 DEF Undamaged
  <2>2. CASE f.kind = "txn"
    BY <1>5, <1>7, <2>1, <2>2
  <2>3. CASE f.kind # "txn"
    <3>1. memory.offset \in Nat \ {0}
      BY <1>4, <1>16, <1>17, <2>3 DEF Fits
    <3>2. \E x \in ReadFrames(segments) : x.kind = "txn"
      BY <1>3, <1>4, <1>16, <1>17, <3>1, HasTransaction DEF StoreTypes, UpToDate
    <3> QED BY <1>5, <2>1, <3>2
  <2> QED BY <2>2, <2>3
<1>18. OnDisk' \subseteq OnDisk \union (IF added = <<f>> THEN f.events ELSE {})
  BY <1>3, <1>10 DEF OnDisk
<1>19. ASSUME ~ damaged' PROVE OnDisk' \subseteq 1..(View').offset \union stray'
  <2>1. CASE up'
    BY <1>8, <1>16, <1>18, <1>19, <2>1 DEF View
  <2>2. CASE ~ up'
    <3>1. View' = Recovered(segments', snapshot)
      BY <1>3, <2>2 DEF View
    <3>2. \A x \in ReadFrames(segments') : x.kind = "txn" => x.seq >= 1 /\ x.offset >= 1
      <4>1. \A x \in ReadFrames(segments') : x.seq >= 1 /\ (x.kind = "txn" => x.offset \in 1..written')
        BY <1>9 DEF StoreTypes
      <4> QED BY <1>3, <1>4, <4>1
    <3>3. 1..memory.offset \subseteq 1..(View').offset
      BY <1>4, <1>6, <1>16, <1>17, <1>19, <3>1, <3>2, DownReaches
    <3>4. CASE added = <<f>> /\ f.kind = "txn"
      <4>1. 1..f.offset \subseteq 1..(View').offset
        <5>1. f.offset \in Nat /\ Reaches(segments', snapshot, f.offset)
          BY <1>2, <1>16, <1>19, <3>4
        <5> QED BY <1>4, <1>6, <1>17, <1>19, <3>1, <3>2, <5>1, DownReaches
      <4>2. f.events \subseteq 1..f.offset
        BY <3>4 DEF Fits
      <4> QED BY <1>8, <1>16, <1>18, <1>19, <3>3, <4>1, <4>2
    <3>5. CASE added # <<f>> \/ f.kind # "txn"
      <4>1. f.kind # "txn" => f.events \subseteq Known(memory)
        BY DEF Fits
      <4> QED BY <1>8, <1>16, <1>18, <1>19, <3>3, <3>5, <4>1
    <3> QED BY <3>4, <3>5
  <2> QED BY <2>1, <2>2
<1>20. Undamaged'
  BY <1>3, <1>16, <1>17, <1>19 DEF Undamaged
<1>21. UpToDate'
  <2>1. SUFFICES ASSUME ~ damaged', up'
                 PROVE  /\ writer'.isolated = {}
                        /\ Highest(segments', writer'.id)
                        /\ \A x \in ReadFrames(segments') :
                             x.kind = "txn" /\ x.seq = writer.next => x.offset >= memory.offset
                        /\ memory.acked \subseteq snapshot.acked \union InFrames(segments', {"ack"})
                        /\ memory.dead \subseteq snapshot.dead \union InFrames(segments', {"dead"})
                        /\ Reaches(segments', snapshot, memory.offset)
                        /\ memory.offset = 0 => Known(memory) = {}
    BY <1>3, <1>6, <1>8 DEF UpToDate
  <2>2. ~ damaged
    BY <1>16, <2>1
  <2>3. /\ writer.isolated = {}
        /\ \A x \in ReadFrames(segments) :
             x.kind = "txn" /\ x.seq = writer.next => x.offset >= memory.offset
        /\ memory.acked \subseteq snapshot.acked \union InFrames(segments, {"ack"})
        /\ memory.dead \subseteq snapshot.dead \union InFrames(segments, {"dead"})
        /\ memory.offset = 0 => Known(memory) = {}
    BY <1>3, <2>2 DEF UpToDate
  <2>4. Highest(segments', writer'.id) /\ Reaches(segments', snapshot, memory.offset)
    BY <1>5, <2>1
  <2>5. \A x \in ReadFrames(segments') :
             x.kind = "txn" /\ x.seq = writer.next => x.offset >= memory.offset
    BY <1>2, <1>7, <2>3
  <2> QED BY <1>6, <1>10, <2>3, <2>4, <2>5
<1> QED BY <1>3, <1>5, <1>8, <1>9, <1>11, <1>14, <1>15, <1>16, <1>20, <1>21 DEF StoreInv

\* The process dies between two steps.
LEMMA CrashKeeps ==
  ASSUME StoreInv, Crash
  PROVE  /\ StoreInv'
         /\ ~ damaged => Reaches(segments, snapshot, memory.offset)
<1>1. /\ up /\ ~ up' /\ memory' = Nothing
      /\ UNCHANGED <<written, received, segments, snapshot, settings, writer, behind, damaged, stray>>
  BY DEF Crash, history
<1>2. /\ StoreTypes /\ Delivered /\ Covered /\ SnapshotBehind /\ Undamaged /\ UpToDate
  BY DEF StoreInv
<1>3. StoreTypes'
  <2>1. Nothing \in Knowledge /\ up' \in BOOLEAN
    BY DEF Nothing, Knowledge, Crash
  <2>2. ReadFrames(segments') = ReadFrames(segments) /\ SegmentsTyped(segments')
    BY <1>1, <1>2 DEF StoreTypes
  <2> QED BY <1>1, <1>2, <2>1, <2>2 DEF StoreTypes
<1>4. Delivered' /\ Covered' /\ SnapshotBehind' /\ UpToDate'
  BY <1>1, <1>2 DEF Delivered, Covered, SnapshotBehind, UpToDate, OnDisk, InFrames, ReadFrames
<1>5. ~ damaged => Reaches(segments, snapshot, memory.offset)
  BY <1>1, <1>2 DEF UpToDate
<1>6. Undamaged'
  <2>1. ASSUME ~ damaged PROVE OnDisk \subseteq 1..(View').offset \union stray
    <3>1. View' = Recovered(segments, snapshot)
      BY <1>1 DEF View
    <3>2. \A x \in ReadFrames(segments) : x.kind = "txn" => x.seq >= 1 /\ x.offset >= 1
      <4>1. \A x \in ReadFrames(segments) : x.seq >= 1 /\ (x.kind = "txn" => x.offset \in 1..written)
        BY <1>2 DEF StoreTypes
      <4>2. written \in Nat
        BY <1>2 DEF StoreTypes, Records
      <4> QED BY <4>1, <4>2
    <3>3. memory.offset \in Nat /\ snapshot \in Snapshots /\ SegmentsTyped(segments)
      BY <1>2 DEF StoreTypes, Knowledge, Records
    <3>4. snapshot.offset = 0 => snapshot.last = 0
      BY <1>2, <2>1 DEF Undamaged
    <3>5. 1..memory.offset \subseteq 1..(View').offset
      BY <1>5, <2>1, <3>1, <3>2, <3>3, <3>4, DownReaches
    <3>6. OnDisk \subseteq 1..memory.offset \union stray
      BY <1>1, <1>2, <2>1 DEF Undamaged, View
    <3> QED BY <3>5, <3>6
  <2>2. OnDisk' = OnDisk /\ ReadFrames(segments') = ReadFrames(segments)
    BY <1>1 DEF OnDisk, InFrames, ReadFrames
  <2> QED BY <1>1, <1>2, <2>1, <2>2 DEF Undamaged, TornAtEnd
<1> QED BY <1>2, <1>3, <1>4, <1>5, <1>6 DEF StoreInv

-----------------------------------------------------------------------------
(* Repaired segments read alike.                                           *)

\* Cutting a segment off where it is torn leaves what is readable.
LEMMA ReadableAgain ==
  ASSUME NEW s \in Seq(Frames)
  PROVE  /\ Len(Readable(Readable(s))) = Len(Readable(s))
         /\ \A i \in 1..Len(Readable(s)) : Readable(s)[i] = s[i] /\ s[i].kind \in Whole
<1> DEFINE r == Readable(s)
<1>1. /\ r \in Seq(Frames) /\ Len(r) \in Nat
      /\ \A i \in 1..Len(r) : r[i] = s[i] /\ s[i].kind \in Whole
  <2>1. /\ Readable(s) \in Seq(Frames)
        /\ \A i \in 1..Len(Readable(s)) : Readable(s)[i] = s[i] /\ s[i].kind \in Whole
    BY ReadableIs
  <2> QED BY <2>1
<1> HIDE DEF r
<1>2. Len(r) \in 0..Len(r) /\ \A i \in 1..Len(r) : r[i].kind \in Whole
  BY <1>1
<1>3. Len(Readable(r)) = Len(r)
  BY <1>1, <1>2, ReadableBy
<1> QED BY <1>1, <1>3 DEF r

\* Isolating a segment leaves what is readable.
LEMMA MarkedReads ==
  ASSUME NEW s \in Seq(Frames), Unreadable(s) # {}
  PROVE  /\ MarkCorrupt(s) \in Seq(Frames)
         /\ Len(Readable(MarkCorrupt(s))) = Len(Readable(s))
         /\ \A i \in 1..Len(Readable(s)) : MarkCorrupt(s)[i] = s[i]
<1> DEFINE m == Min(Unreadable(s))
           n == Len(Readable(s))
           t == MarkCorrupt(s)
<1>1. Len(s) \in Nat /\ DOMAIN s = 1..Len(s) /\ \A i \in 1..Len(s) : s[i] \in Frames
  OBVIOUS
<1>2. Unreadable(s) \in SUBSET Nat /\ Unreadable(s) \subseteq 1..Len(s)
  BY <1>1 DEF Unreadable
<1>3. m \in 1..Len(s) /\ s[m].kind \in {"torn", "overlong", "corrupt"}
  <2>1. m \in Unreadable(s)
    BY <1>2, MinIs
  <2> HIDE DEF m
  <2> QED BY <1>1, <2>1 DEF Unreadable
<1>4. t = [s EXCEPT ![m] = [s[m] EXCEPT !.kind = "corrupt"]]
  BY DEF MarkCorrupt
<1>5. [s[m] EXCEPT !.kind = "corrupt"] \in Frames
  <2>1. s[m] \in Frames
    BY <1>1, <1>3
  <2> HIDE DEF m
  <2> QED BY <2>1 DEF Frames
<1>6. /\ n \in 0..Len(s) /\ n \in Nat
      /\ \A i \in 1..n : s[i].kind \in Whole
      /\ n = Len(s) \/ s[n + 1].kind \notin Whole
  BY <1>1, ReadableIs
<1> HIDE DEF m, n, t
<1>7. /\ t \in Seq(Frames) /\ Len(t) = Len(s)
      /\ \A i \in 1..Len(s) : i # m => t[i] = s[i]
      /\ t[m].kind = "corrupt"
  <2> DEFINE x == [s[m] EXCEPT !.kind = "corrupt"]
  <2>1. x.kind = "corrupt"
    <3>1. s[m] \in Frames
      BY <1>1, <1>3
    <3> QED BY <3>1 DEF Frames
  <2>2. x \in Frames /\ t = [s EXCEPT ![m] = x]
    BY <1>4, <1>5
  <2> HIDE DEF x
  <2> QED BY <1>1, <1>3, <2>1, <2>2
<1>8. \A i \in 1..n : i \in 1..Len(s) /\ i # m
  <2>1. \A i \in 1..n : i # m
    BY <1>3, <1>6 DEF Whole
  <2>2. Len(s) \in Nat /\ n \in 0..Len(s)
    BY <1>1, <1>6
  <2> QED BY ONLY <2>1, <2>2
<1>9. n # Len(s)
  BY <1>3, <1>6 DEF Whole
<1>10. t[n + 1].kind \notin Whole
  <2>1. n + 1 \in 1..Len(s)
    <3>1. Len(s) \in Nat /\ n \in 0..Len(s)
      BY <1>1, <1>6
    <3> QED BY ONLY <3>1, <1>9
  <2>2. s[n + 1].kind \notin Whole
    BY <1>6, <1>9
  <2> QED BY <1>7, <2>1, <2>2 DEF Whole
<1>11. Len(Readable(t)) = n
  <2>1. n \in 0..Len(t)
    BY <1>6, <1>7
  <2>2. \A i \in 1..n : t[i].kind \in Whole
    BY <1>6, <1>7, <1>8
  <2> QED BY <1>7, <1>10, <2>1, <2>2, ReadableBy
<1> QED BY <1>7, <1>8, <1>11 DEF n, t

\* No frame and no snapshot is newer than the last sequence number.
LEMMA LastSequenceIs ==
  ASSUME StoreTypes
  PROVE  /\ LastSequence \in Nat
         /\ snapshot.last <= LastSequence
         /\ \A f \in ReadFrames(segments) : f.seq \in Nat /\ f.seq <= LastSequence
<1> DEFINE log == ReadableLog(segments)
           S == {log[i].seq : i \in DOMAIN log}
           T == {snapshot.last} \union S
<1>1. /\ log \in Seq(Frames)
      /\ \A f \in ReadFrames(segments) : \E x \in 1..Len(log) : log[x] = f
  BY LogFrames DEF StoreTypes
<1> HIDE DEF log
<1>2. DOMAIN log = 1..Len(log) /\ Len(log) \in Nat
  BY <1>1
<1>3. IsFiniteSet(S)
  <2>1. IsFiniteSet(1..Len(log))
    BY <1>2, FS_Interval
  <2> DEFINE g == [i \in 1..Len(log) |-> log[i].seq]
  <2>2. g \in Surjection(1..Len(log), S)
    BY <1>2 DEF Surjection
  <2> HIDE DEF g, S
  <2> QED BY <2>1, <2>2, FS_Surjection
<1>4. T \in SUBSET Nat /\ T # {}
  <2>1. \A i \in 1..Len(log) : log[i].seq \in Nat
    <3>1. \A i \in 1..Len(log) : log[i] \in Frames
      BY <1>1
    <3> QED BY <3>1 DEF Frames
  <2>2. snapshot.last \in Nat
    BY DEF StoreTypes, Snapshots
  <2> QED BY <1>2, <2>1, <2>2
<1>5. IsFiniteSet(T)
  <2>1. T = S \union {snapshot.last}
    OBVIOUS
  <2> HIDE DEF S, T
  <2> QED BY <1>3, <2>1, FS_AddElement
<1>6. LastSequence = Max(T)
  BY DEF LastSequence, log
<1>7. Max(T) \in T /\ \A x \in T : x <= Max(T)
  <2> HIDE DEF T
  <2> QED BY <1>4, <1>5, MaxIs
<1>8. \A f \in ReadFrames(segments) : f.seq \in T
  BY <1>1, <1>2
<1> HIDE DEF T
<1>9. snapshot.last \in T
  BY DEF T
<1> QED BY <1>4, <1>6, <1>7, <1>8, <1>9

-----------------------------------------------------------------------------
(* Opening the store keeps the invariant.                                  *)

\* What opening does to the segments changes nothing of what is read.
LEMMA OpenReads ==
  ASSUME StoreTypes, Open
  PROVE  /\ SegmentsTyped(segments')
         /\ SameReads(segments, segments')
         /\ writer' \in Writers /\ IsFiniteSet(writer'.isolated)
         /\ writer'.id \in DOMAIN segments' /\ writer'.next = LastSequence + 1
         /\ TornAtEnd(segments) =>
              TornAtEnd(segments') /\ writer'.isolated = {} /\ Highest(segments', writer'.id)
<1>1. PICK newly \in SUBSET {id \in DOMAIN segments : TornInside(id)} :
       LET isolated == newly \union {id \in DOMAIN segments : Corrupt(id) \/ TooLong(id)}
           id == Reopened(isolated)
       IN /\ segments' = [i \in DOMAIN segments \union {id} |->
                            IF i \in DOMAIN segments THEN Repaired(isolated)[i] ELSE <<>>]
          /\ writer' = [id |-> id, frames |-> 0, next |-> LastSequence + 1,
                        isolated |-> isolated]
  BY DEF Open
<1> DEFINE isolated == newly \union {id \in DOMAIN segments : Corrupt(id) \/ TooLong(id)}
           id == Reopened(isolated)
           healthy == DOMAIN segments \ isolated
<1>2. /\ segments' = [i \in DOMAIN segments \union {id} |->
                            IF i \in DOMAIN segments THEN Repaired(isolated)[i] ELSE <<>>]
      /\ writer' = [id |-> id, frames |-> 0, next |-> LastSequence + 1, isolated |-> isolated]
      /\ isolated \subseteq DOMAIN segments
      /\ \A i \in isolated : Corrupt(i) \/ TooLong(i) \/ TornInside(i)
  BY <1>1
<1>3. /\ DOMAIN segments \in SUBSET Nat /\ IsFiniteSet(DOMAIN segments)
      /\ \A i \in DOMAIN segments : segments[i] \in Seq(Frames)
  BY DEF StoreTypes, SegmentsTyped
<1>4. /\ IsFiniteSet(isolated) /\ isolated \in SUBSET Nat
      /\ IsFiniteSet(healthy) /\ healthy \in SUBSET Nat /\ healthy \subseteq DOMAIN segments
  <2>1. healthy \in SUBSET DOMAIN segments /\ isolated \in SUBSET DOMAIN segments
    BY <1>2
  <2> HIDE DEF healthy, isolated
  <2> QED BY <1>3, <2>1, FS_Subset
<1>5. /\ id \in Nat
      /\ healthy # {} => id \in healthy /\ \A i \in healthy : i <= id
      /\ healthy = {} => id = Max(DOMAIN segments \union {0}) + 1
  <2>1. CASE healthy # {}
    <3>1. id = Max(healthy)
      BY <2>1 DEF Reopened
    <3> HIDE DEF healthy, id
    <3> QED BY <1>4, <2>1, <3>1, MaxIs
  <2>2. CASE healthy = {}
    <3> DEFINE S == DOMAIN segments \union {0}
    <3>1. id = Max(S) + 1
      BY <2>2 DEF Reopened
    <3>2. IsFiniteSet(S) /\ S \in SUBSET Nat /\ S # {}
      BY <1>3, FS_AddElement
    <3>3. Max(S) \in Nat
      <4> HIDE DEF S
      <4> QED BY <3>2, MaxIs
    <3> HIDE DEF healthy, id
    <3> QED BY <2>2, <3>1, <3>3
  <2> QED BY <2>1, <2>2
<1> HIDE DEF isolated, id, healthy
<1>6. \A i \in DOMAIN segments :
        /\ Repaired(isolated)[i] \in Seq(Frames)
        /\ Len(Readable(Repaired(isolated)[i])) = Len(Readable(segments[i]))
        /\ \A j \in 1..Len(Readable(segments[i])) : Repaired(isolated)[i][j] = segments[i][j]
  <2>1. TAKE i \in DOMAIN segments
  <2>2. segments[i] \in Seq(Frames)
    BY <1>3
  <2>3. CASE Corrupt(i)
    BY <2>2, <2>3 DEF Repaired
  <2>4. CASE ~ Corrupt(i) /\ i \in isolated
    <3>1. Unreadable(segments[i]) # {}
      BY <1>2, <2>4 DEF TornInside, TooLong, StopsAtKind
    <3>2. Repaired(isolated)[i] = MarkCorrupt(segments[i])
      BY <2>4 DEF Repaired
    <3> QED BY <2>2, <3>1, <3>2, MarkedReads
  <2>5. CASE ~ Corrupt(i) /\ i \notin isolated
    <3>1. Repaired(isolated)[i] = Readable(segments[i])
      BY <2>5 DEF Repaired
    <3> QED BY <2>2, <3>1, ReadableAgain, ReadableIs
  <2> QED BY <2>3, <2>4, <2>5
<1>7. /\ DOMAIN segments' = DOMAIN segments \union {id}
      /\ \A i \in DOMAIN segments : segments'[i] = Repaired(isolated)[i]
      /\ id \notin DOMAIN segments => segments'[id] = <<>>
  BY <1>2
<1>8. SegmentsTyped(segments')
  <2>1. IsFiniteSet(DOMAIN segments')
    BY <1>3, <1>7, FS_AddElement
  <2>2. \A i \in DOMAIN segments' : segments'[i] \in Seq(Frames)
    <3>1. <<>> \in Seq(Frames)
      OBVIOUS
    <3>2. \A i \in DOMAIN segments : Repaired(isolated)[i] \in Seq(Frames)
      BY <1>6
    <3>3. \A i \in DOMAIN segments' : i \in DOMAIN segments \/ segments'[i] = <<>>
      BY <1>7
    <3> QED BY <1>7, <3>1, <3>2, <3>3
  <2>3. segments' = [i \in DOMAIN segments' |-> segments'[i]]
    BY <1>2
  <2> QED BY <1>3, <1>5, <1>7, <2>1, <2>2, <2>3 DEF SegmentsTyped
<1>9. SameReads(segments, segments')
  <2>1. Len(Readable(<<>>)) = 0
    <3>1. Unreadable(<<>>) = {}
      BY DEF Unreadable
    <3> QED BY <3>1 DEF Readable
  <2>2. SUFFICES ASSUME NEW a \in Nat, NEW j \in Nat
                 PROVE  /\ Reads(segments', a, j) <=> Reads(segments, a, j)
                        /\ Reads(segments, a, j) => segments'[a][j] = segments[a][j]
    BY DEF SameReads
  <2>3. CASE a \in DOMAIN segments
    BY <1>6, <1>7, <2>3 DEF Reads
  <2>4. CASE a \notin DOMAIN segments
    BY <1>7, <2>1, <2>4 DEF Reads
  <2> QED BY <2>3, <2>4
<1>10. writer' \in Writers
  BY <1>2, <1>4, <1>5, LastSequenceIs DEF Writers
<1>11. ASSUME TornAtEnd(segments)
       PROVE  TornAtEnd(segments') /\ isolated = {} /\ Highest(segments', id)
  <2>1. \A i \in DOMAIN segments : ~ Corrupt(i) /\ ~ TooLong(i) /\ ~ TornInside(i)
    <3>1. SUFFICES ASSUME NEW i \in DOMAIN segments, Corrupt(i) \/ TooLong(i) \/ TornInside(i)
                   PROVE  FALSE
      OBVIOUS
    <3> DEFINE j == Min(Unreadable(segments[i]))
    <3>2. segments[i] \in Seq(Frames)
      BY <1>3
    <3>3. /\ Unreadable(segments[i]) # {}
          /\ \/ segments[i][j].kind \in {"corrupt", "overlong"}
             \/ segments[i][j].kind = "torn" /\ j < Len(segments[i])
      BY <3>1 DEF Corrupt, TooLong, TornInside, StopsAtKind
    <3>4. Unreadable(segments[i]) \subseteq 1..Len(segments[i]) /\ Len(segments[i]) \in Nat
      BY <3>2 DEF Unreadable
    <3>5. j \in 1..Len(segments[i])
      <4>1. Unreadable(segments[i]) \in SUBSET Nat
        BY <3>4
      <4>2. j \in Unreadable(segments[i])
        BY <3>3, <4>1, MinIs
      <4> HIDE DEF j
      <4> QED BY <3>4, <4>2
    <3> HIDE DEF j
    <3>6. segments[i][j].kind = "torn" /\ j = Len(segments[i])
      BY <1>11, <3>3, <3>5 DEF TornAtEnd, Whole
    <3> QED BY <3>3, <3>4, <3>6
  <2>2. isolated = {} /\ healthy = DOMAIN segments
    BY <1>2, <2>1 DEF isolated, healthy
  <2>3. Highest(segments', id)
    BY <1>5, <1>7, <2>2 DEF Highest
  <2>4. TornAtEnd(segments')
    <3>1. SUFFICES ASSUME NEW i \in DOMAIN segments', NEW j \in 1..Len(segments'[i])
                   PROVE  segments'[i][j].kind \in Whole
      BY DEF TornAtEnd
    <3>2. CASE i \in DOMAIN segments
      <4>1. segments'[i] = Readable(segments[i]) /\ segments[i] \in Seq(Frames)
        BY <1>3, <1>7, <2>1, <2>2, <3>2 DEF Repaired
      <4> QED BY <3>1, <4>1, ReadableIs
    <3>3. CASE i \notin DOMAIN segments
      BY <1>7, <3>1, <3>3
    <3> QED BY <3>2, <3>3
  <2> QED BY <2>2, <2>3, <2>4
<1> QED BY <1>2, <1>4, <1>7, <1>8, <1>9, <1>10, <1>11

\* Opening recovers what was on the disk.
LEMMA OpenKeeps ==
  ASSUME StoreInv, Open
  PROVE  /\ StoreInv'
         /\ UNCHANGED <<written, received, snapshot, stray>> /\ View' = View
<1>1. /\ ~ up /\ up' = TRUE /\ memory' = Recovered(segments, snapshot)
      /\ UNCHANGED <<written, received, snapshot, settings, behind, damaged, stray>>
  BY DEF Open, history
<1>2. StoreTypes /\ Delivered /\ Covered /\ SnapshotBehind /\ Undamaged /\ UpToDate
  BY DEF StoreInv
<1>3. /\ SegmentsTyped(segments')
      /\ SameReads(segments, segments')
      /\ writer' \in Writers /\ IsFiniteSet(writer'.isolated)
      /\ writer'.id \in DOMAIN segments' /\ writer'.next = LastSequence + 1
      /\ TornAtEnd(segments) =>
           TornAtEnd(segments') /\ writer'.isolated = {} /\ Highest(segments', writer'.id)
  BY <1>2, OpenReads
<1>4. /\ SegmentsTyped(segments) /\ snapshot \in Snapshots /\ snapshot.last \in Nat
      /\ snapshot.offset \in Nat /\ written \in Nat /\ snapshot.offset <= written
  BY <1>2 DEF StoreTypes, Snapshots, Records
<1>5. /\ ReadFrames(segments') = ReadFrames(segments)
      /\ \A snap, m : Reaches(segments, snap, m) => Reaches(segments', snap, m)
  BY <1>3, <1>4, SameReadsSame
<1>6. \A kinds : InFrames(segments', kinds) = InFrames(segments, kinds)
  BY <1>5 DEF InFrames
<1>7. /\ memory' \in Knowledge
      /\ memory'.acked = snapshot.acked \union InFrames(segments, {"ack"})
      /\ memory'.dead = snapshot.dead \union InFrames(segments, {"dead"})
      /\ memory'.queued = InFrames(segments, {"txn"}) \ (memory'.acked \union memory'.dead)
      /\ \/ memory'.offset = snapshot.offset
         \/ \E f \in ReadFrames(segments) : f.kind = "txn" /\ memory'.offset = f.offset
  BY <1>1, <1>4, RecoveredIs
<1>8. memory'.offset \in Nat
  BY <1>7 DEF Knowledge, Records
<1>9. /\ LastSequence \in Nat /\ snapshot.last <= LastSequence
      /\ \A f \in ReadFrames(segments) : f.seq \in Nat /\ f.seq <= LastSequence
  BY <1>2, LastSequenceIs
<1>10. \A f \in ReadFrames(segments) : f.seq >= 1 /\ (f.kind = "txn" => f.offset \in 1..written)
  BY <1>2 DEF StoreTypes
<1>11. View' = View /\ View = memory'
  BY <1>1 DEF View
<1>12. StoreTypes'
  BY <1>1, <1>2, <1>3, <1>5, <1>7, <1>9 DEF StoreTypes
<1>13. OnDisk' = OnDisk /\ Known(memory') = OnDisk
  <2>1. InFrames(segments, Whole) =
          InFrames(segments, {"txn"}) \union InFrames(segments, {"ack"}) \union InFrames(segments, {"dead"})
    BY DEF InFrames, Whole
  <2> QED BY <1>1, <1>6, <1>7, <2>1 DEF OnDisk, Known
<1>14. Delivered'
  BY <1>1, <1>2, <1>6, <1>7 DEF Delivered
<1>15. Covered'
  BY <1>1, <1>2, <1>5, <1>7, <1>13 DEF Covered
<1>16. SnapshotBehind'
  <2>1. memory'.offset <= written
    BY <1>4, <1>7, <1>8, <1>10
  <2>2. snapshot.last < writer'.next /\ \A f \in ReadFrames(segments') : f.seq <= writer'.next
    BY <1>3, <1>4, <1>5, <1>9
  <2> QED BY <1>1, <1>7, <2>1, <2>2 DEF SnapshotBehind
<1>17. Undamaged'
  BY <1>1, <1>2, <1>3, <1>5, <1>11, <1>13 DEF Undamaged
<1>18. UpToDate'
  <2>1. SUFFICES ASSUME ~ damaged
                 PROVE  /\ writer'.isolated = {}
                        /\ Highest(segments', writer'.id)
                        /\ \A f \in ReadFrames(segments) :
                             f.kind = "txn" /\ f.seq = writer'.next => f.offset >= memory'.offset
                        /\ memory'.acked \subseteq snapshot.acked \union InFrames(segments, {"ack"})
                        /\ memory'.dead \subseteq snapshot.dead \union InFrames(segments, {"dead"})
                        /\ Reaches(segments', snapshot, memory'.offset)
                        /\ memory'.offset = 0 => Known(memory') = {}
    BY <1>1, <1>5, <1>6 DEF UpToDate
  <2>2. /\ TornAtEnd(segments)
        /\ snapshot.offset = 0 =>
             /\ snapshot.last = 0 /\ snapshot.acked = {} /\ snapshot.dead = {}
             /\ ReadFrames(segments) # {} => \E f \in ReadFrames(segments) : f.kind = "txn"
    BY <1>2, <2>1 DEF Undamaged
  <2>3. \A f \in ReadFrames(segments) : f.seq # writer'.next
    BY <1>3, <1>9
  <2>4. \A f \in ReadFrames(segments) : f.kind = "txn" => f.seq >= 1 /\ f.offset >= 1
    BY <1>4, <1>10
  <2>5. Reaches(segments, snapshot, memory'.offset)
    <3>1. Recovered(segments, snapshot).offset >= memory'.offset
      BY <1>1, <1>8
    <3> QED BY <1>4, <1>8, <2>2, <2>4, <3>1, ReachesIs
  <2>6. ASSUME memory'.offset = 0 PROVE Known(memory') = {}
    <3>1. \/ /\ memory'.offset = snapshot.offset
             /\ \A id, i \in Nat : ~ Newer(segments, snapshot.last, id, i)
          \/ \E id, i \in Nat :
               /\ Newer(segments, snapshot.last, id, i)
               /\ memory'.offset = segments[id][i].offset
      BY <1>1, <1>4, <2>2, <2>4, RecoveredOffset
    <3>2. \A id, i \in Nat : Newer(segments, snapshot.last, id, i) =>
            segments[id][i] \in ReadFrames(segments) /\ segments[id][i].kind = "txn"
      BY <1>4, ReadsAre
    <3>3. snapshot.offset = 0 /\ \A id, i \in Nat : ~ Newer(segments, snapshot.last, id, i)
      BY <2>4, <2>6, <3>1, <3>2
    <3>4. \A f \in ReadFrames(segments) : f.kind # "txn"
      <4>1. SUFFICES ASSUME NEW f \in ReadFrames(segments), f.kind = "txn" PROVE FALSE
        OBVIOUS
      <4>2. PICK id \in Nat, i \in Nat : Reads(segments, id, i) /\ segments[id][i] = f
        BY <1>4, ReadsAre
      <4>3. f.seq > snapshot.last
        BY <1>9, <2>2, <2>4, <3>3, <4>1
      <4>4. Newer(segments, snapshot.last, id, i)
        BY <1>4, <4>1, <4>2, <4>3, ReadsAre
      <4> QED BY <3>3, <4>4
    <3>5. ReadFrames(segments) = {} /\ snapshot.acked = {} /\ snapshot.dead = {}
      BY <2>2, <3>3, <3>4
    <3> QED BY <1>13, <3>5 DEF OnDisk, InFrames
  <2> QED BY <1>3, <1>5, <1>7, <2>2, <2>3, <2>5, <2>6
<1> QED BY <1>1, <1>11, <1>12, <1>14, <1>15, <1>16, <1>17, <1>18 DEF StoreInv

-----------------------------------------------------------------------------
(* The invariant of the tick; compaction keeps that of the store.          *)

\* The tick between its steps.
Loops == [at : {"collect", "flush", "settle", "upload", "compact", "sweep"},
          fresh : BOOLEAN, paused : BOOLEAN, batches : Seq(SUBSET Records),
          ack : SUBSET Records, dead : SUBSET Records, sweep : SUBSET Nat]

\* Batches in flight hold different queued records, none of them answered.
Apart(batches, queued) ==
  \A i \in 1..Len(batches) :
    /\ batches[i] \subseteq queued
    /\ \A j \in 1..Len(batches) : i # j => batches[i] \intersect batches[j] = {}

LoopInv ==
  /\ loop \in Loops
  /\ ~ up => loop = AtStart
  /\ loop.at # "sweep" => loop.sweep = {}
  /\ loop.at # "settle" => loop.ack = {} /\ loop.dead = {}
  /\ loop.ack \subseteq received
  /\ up =>
       /\ loop.sweep \subseteq DOMAIN segments \ {writer.id}
       /\ loop.at = "sweep" => snapshot = SnapshotOf(memory, writer.next - 1)
       /\ ~ damaged /\ loop.at \in {"upload", "settle", "compact", "sweep"} => memory.offset > 0
       /\ loop.ack \union loop.dead \subseteq Known(memory)
       /\ Apart(loop.batches, memory.queued \ (loop.ack \union loop.dead))

SpoolInv == StoreInv /\ LoopInv

\* A snapshot of memory makes no frame newer than it that has not been applied.
LEMMA CompactKeeps ==
  ASSUME SpoolInv, Compact
  PROVE  StoreInv'
<1>1. /\ up /\ up' = up /\ loop.at = "compact"
      /\ snapshot' = SnapshotOf(memory, writer.next - 1)
      /\ UNCHANGED <<written, received, segments, up, settings, memory, writer, behind, damaged, stray>>
  BY DEF Compact, history
<1>2. StoreTypes /\ Delivered /\ Covered /\ SnapshotBehind /\ Undamaged /\ UpToDate
  BY DEF SpoolInv, StoreInv
<1>3. /\ memory \in Knowledge /\ writer \in Writers /\ writer.next \in Nat /\ writer.next >= 1
      /\ memory.offset \in Nat /\ SegmentsTyped(segments)
  BY <1>1, <1>2 DEF StoreTypes, Knowledge, Writers, Records
<1>4. /\ snapshot' \in Snapshots
      /\ snapshot'.last = writer.next - 1 /\ snapshot'.offset = memory.offset
      /\ snapshot'.acked = memory.acked /\ snapshot'.dead = memory.dead
  BY <1>1, <1>3 DEF SnapshotOf, Snapshots, Knowledge
<1>5. ReadFrames(segments') = ReadFrames(segments) /\ \A kinds : InFrames(segments', kinds) = InFrames(segments, kinds)
  BY <1>1 DEF ReadFrames, InFrames
<1>6. StoreTypes'
  BY <1>1, <1>2, <1>4, <1>5 DEF StoreTypes, SnapshotBehind
<1>7. Delivered'
  BY <1>1, <1>2, <1>4, <1>5 DEF Delivered
<1>8. OnDisk \subseteq OnDisk' /\ OnDisk' \subseteq OnDisk \union Known(memory)
  BY <1>1, <1>2, <1>4, <1>5 DEF OnDisk, SnapshotBehind, Known
<1>9. Covered'
  BY <1>1, <1>2, <1>4, <1>5, <1>8 DEF Covered
<1>10. SnapshotBehind'
  BY <1>1, <1>2, <1>3, <1>4, <1>5 DEF SnapshotBehind
<1>11. ~ damaged => memory.offset # 0
  BY <1>1, <1>3 DEF SpoolInv, LoopInv
<1>12. Undamaged'
  <2>1. View' = memory /\ View = memory
    BY <1>1 DEF View
  <2> QED BY <1>1, <1>2, <1>4, <1>8, <1>11, <2>1 DEF Undamaged, Covered, TornAtEnd
<1>13. UpToDate'
  <2>1. ASSUME ~ damaged PROVE Reaches(segments, snapshot', memory.offset)
    <3>1. \A f \in ReadFrames(segments) : f.kind = "txn" /\ f.seq > snapshot'.last => f.offset >= snapshot'.offset
      <4>1. TAKE f \in ReadFrames(segments)
      <4>2. HAVE f.kind = "txn" /\ f.seq > snapshot'.last
      <4>3. f.seq \in Nat /\ f.seq <= writer.next
        BY <1>1, <1>2 DEF SnapshotBehind, ReadFrames, Frames
      <4>4. f.seq = writer.next
        BY <1>3, <1>4, <4>2, <4>3
      <4> QED BY <1>1, <1>2, <1>4, <2>1, <4>2, <4>4 DEF UpToDate
    <3> QED BY <1>3, <1>4, <3>1, ReachesFromSnapshot
  <2> QED BY <1>1, <1>2, <1>4, <1>5, <1>11, <2>1 DEF UpToDate, Highest
<1> QED BY <1>6, <1>7, <1>9, <1>10, <1>12, <1>13 DEF StoreInv

-----------------------------------------------------------------------------

\* Compaction keeps exactly the frames that Kept says, in their order.
LEMMA RestIs ==
  ASSUME StoreTypes, NEW id \in DOMAIN segments
  PROVE  /\ Rest(id) \in Seq(Frames)
         /\ \A k \in 1..Len(Rest(id)) : Rest(id)[k].kind \in Whole
         /\ \A k \in 1..Len(Rest(id)) :
              \E i \in 1..Len(Readable(segments[id])) : Rest(id)[k] = segments[id][i]
         /\ \A i \in 1..Len(Readable(segments[id])) : Kept(segments[id][i]) =>
              \E k \in 1..Len(Rest(id)) : Rest(id)[k] = segments[id][i]
<1> DEFINE frames == Readable(segments[id])
           S == {i \in DOMAIN frames : Kept(frames[i])}
           kept == InOrder(S)
           n == Cardinality(S)
<1>1. /\ frames \in Seq(Frames) /\ Len(frames) \in Nat /\ DOMAIN frames = 1..Len(frames)
      /\ \A i \in 1..Len(frames) : frames[i] = segments[id][i] /\ frames[i].kind \in Whole
  <2>1. segments[id] \in Seq(Frames)
    BY DEF StoreTypes, SegmentsTyped
  <2>2. /\ Readable(segments[id]) \in Seq(Frames)
        /\ \A i \in 1..Len(Readable(segments[id])) :
             Readable(segments[id])[i] = segments[id][i] /\ segments[id][i].kind \in Whole
    BY <2>1, ReadableIs
  <2> QED BY <2>2
<1> HIDE DEF frames
<1>2. IsFiniteSet(S) /\ S \in SUBSET Nat /\ S \subseteq 1..Len(frames)
  <2>1. S \in SUBSET (1..Len(frames))
    BY <1>1
  <2>2. IsFiniteSet(1..Len(frames))
    BY <1>1, FS_Interval
  <2>3. 1..Len(frames) \in SUBSET Nat
    OBVIOUS
  <2> HIDE DEF S
  <2>4. IsFiniteSet(S)
    BY <2>1, <2>2, FS_Subset
  <2> QED BY <2>1, <2>3, <2>4
<1>3. /\ n \in Nat /\ kept \in [1..n -> S]
      /\ \A i \in S : \E k \in 1..n : kept[k] = i
  <2> HIDE DEF S
  <2> QED BY <1>2, InOrderIs
<1>4. Rest(id) = [k \in DOMAIN kept |-> frames[kept[k]]]
  BY DEF Rest, frames
<1>5. \A i \in 1..Len(frames) : Kept(frames[i]) => i \in S
  BY <1>1
<1> HIDE DEF S, kept, n
<1>6. DOMAIN kept = 1..n /\ \A k \in 1..n : kept[k] \in 1..Len(frames)
  BY <1>2, <1>3
<1>7. /\ Rest(id) = [k \in 1..n |-> frames[kept[k]]]
      /\ \A k \in 1..n : frames[kept[k]] \in Frames
  BY <1>1, <1>4, <1>6
<1>8. Rest(id) \in Seq(Frames) /\ Len(Rest(id)) = n /\ \A k \in 1..n : Rest(id)[k] = frames[kept[k]]
  BY <1>3, <1>7
<1>9. \A k \in 1..n : /\ Rest(id)[k].kind \in Whole
                       /\ \E i \in 1..Len(frames) : Rest(id)[k] = segments[id][i]
  BY <1>1, <1>6, <1>8
<1>10. \A i \in 1..Len(frames) : Kept(segments[id][i]) =>
         \E k \in 1..n : Rest(id)[k] = segments[id][i]
  <2>1. TAKE i \in 1..Len(frames)
  <2>2. HAVE Kept(segments[id][i])
  <2>3. frames[i] = segments[id][i]
    BY <1>1
  <2>4. PICK k \in 1..n : kept[k] = i
    BY <1>3, <1>5, <2>2, <2>3
  <2> QED BY <1>8, <2>3, <2>4
<1> QED BY <1>8, <1>9, <1>10 DEF frames

\* Dropping the frames of a segment that the snapshot covers.
LEMMA SweepKeeps ==
  ASSUME SpoolInv, Sweep
  PROVE  /\ StoreInv'
         /\ DOMAIN segments \ {Min(loop.sweep)} \subseteq DOMAIN segments'
<1> DEFINE id == Min(loop.sweep)
<1>1. /\ up /\ loop.at = "sweep" /\ loop.sweep # {}
      /\ segments' =
             IF Rest(id) = <<>> THEN [i \in DOMAIN segments \ {id} |-> segments[i]]
             ELSE IF Rest(id) = Readable(segments[id]) THEN segments
             ELSE [segments EXCEPT ![id] = Rest(id)]
      /\ UNCHANGED <<written, received, snapshot, up, settings, memory, writer, behind, damaged, stray>>
  BY DEF Sweep, history
<1>2. StoreTypes /\ Delivered /\ Covered /\ SnapshotBehind /\ Undamaged /\ UpToDate /\ LoopInv
  BY DEF SpoolInv, StoreInv
<1>3. id \in loop.sweep /\ id \in DOMAIN segments /\ id # writer.id
  <2>1. loop.sweep \in SUBSET Nat /\ loop.sweep \subseteq DOMAIN segments \ {writer.id}
    BY <1>1, <1>2 DEF LoopInv, Loops
  <2>2. Min(loop.sweep) \in loop.sweep
    BY <1>1, <2>1, MinIs
  <2> QED BY <2>1, <2>2
<1>4. /\ memory \in Knowledge /\ writer \in Writers /\ writer.next \in Nat /\ writer.next >= 1
      /\ memory.offset \in Nat /\ SegmentsTyped(segments) /\ snapshot \in Snapshots
      /\ snapshot.last = writer.next - 1 /\ snapshot.offset = memory.offset
      /\ snapshot.acked = memory.acked /\ snapshot.dead = memory.dead
      /\ ~ damaged => memory.offset # 0
  <2>1. snapshot = SnapshotOf(memory, writer.next - 1)
    BY <1>1, <1>2 DEF LoopInv
  <2>2. /\ memory \in Knowledge /\ writer \in Writers /\ writer.next \in Nat /\ writer.next >= 1
        /\ memory.offset \in Nat /\ SegmentsTyped(segments) /\ snapshot \in Snapshots
    BY <1>1, <1>2 DEF StoreTypes, Knowledge, Writers, Records
  <2>3. ~ damaged => memory.offset # 0
    BY <1>1, <1>2, <2>2 DEF LoopInv
  <2> QED BY <2>1, <2>2, <2>3 DEF SnapshotOf
<1>5. /\ Rest(id) \in Seq(Frames)
      /\ \A k \in 1..Len(Rest(id)) : Rest(id)[k].kind \in Whole
      /\ \A k \in 1..Len(Rest(id)) :
           \E i \in 1..Len(Readable(segments[id])) : Rest(id)[k] = segments[id][i]
      /\ \A i \in 1..Len(Readable(segments[id])) : Kept(segments[id][i]) =>
           \E k \in 1..Len(Rest(id)) : Rest(id)[k] = segments[id][i]
  BY <1>2, <1>3, RestIs
<1> HIDE DEF id
<1>6. Len(Readable(Rest(id))) = Len(Rest(id))
  <2>1. Len(Rest(id)) \in 0..Len(Rest(id))
    <3>1. Len(Rest(id)) \in Nat
      BY <1>5
    <3> QED BY <3>1
  <2> QED BY <1>5, <2>1, ReadableBy
<1>7. /\ DOMAIN segments' \subseteq DOMAIN segments
      /\ \A i \in DOMAIN segments \ {id} : i \in DOMAIN segments' /\ segments'[i] = segments[i]
      /\ id \in DOMAIN segments' => segments'[id] = Rest(id) \/ segments'[id] = segments[id]
      /\ id \notin DOMAIN segments' => Rest(id) = <<>>
      /\ segments' = [i \in DOMAIN segments' |-> segments'[i]]
  <2>1. segments = [i \in DOMAIN segments |-> segments[i]]
    BY <1>4 DEF SegmentsTyped
  <2>2. CASE segments' = [i \in DOMAIN segments \ {id} |-> segments[i]] /\ Rest(id) = <<>>
    BY <2>2
  <2>3. CASE segments' = segments
    BY <1>3, <2>1, <2>3
  <2>4. CASE segments' = [segments EXCEPT ![id] = Rest(id)]
    BY <1>3, <2>1, <2>4
  <2> QED BY <1>1, <2>2, <2>3, <2>4
<1>8. SegmentsTyped(segments')
  <2>1. IsFiniteSet(DOMAIN segments')
    BY <1>4, <1>7, FS_Subset DEF SegmentsTyped
  <2>2. \A i \in DOMAIN segments' : segments'[i] \in Seq(Frames)
    <3>1. \A i \in DOMAIN segments : segments[i] \in Seq(Frames)
      BY <1>4 DEF SegmentsTyped
    <3> QED BY <1>5, <1>7, <3>1
  <2>3. DOMAIN segments' \in SUBSET Nat
    BY <1>4, <1>7 DEF SegmentsTyped
  <2> QED BY <1>7, <2>1, <2>2, <2>3 DEF SegmentsTyped
<1>9. ReadFrames(segments') \subseteq ReadFrames(segments)
  <2>1. SUFFICES ASSUME NEW f \in Frames, NEW a \in DOMAIN segments',
                        NEW i \in 1..Len(Readable(segments'[a])), segments'[a][i] = f
                 PROVE  \E b \in DOMAIN segments : \E j \in 1..Len(Readable(segments[b])) : segments[b][j] = f
    BY DEF ReadFrames
  <2>2. CASE segments'[a] = segments[a]
    BY <1>7, <2>1, <2>2
  <2>3. CASE a = id /\ segments'[a] = Rest(id)
    BY <1>3, <1>5, <1>6, <2>1, <2>3
  <2> QED BY <1>7, <2>1, <2>2, <2>3
<1>10. \A f \in ReadFrames(segments) : Kept(f) => f \in ReadFrames(segments')
  <2>1. SUFFICES ASSUME NEW f \in Frames, NEW a \in DOMAIN segments, Kept(f),
                        NEW i \in 1..Len(Readable(segments[a])), segments[a][i] = f
                 PROVE  \E b \in DOMAIN segments' : \E j \in 1..Len(Readable(segments'[b])) : segments'[b][j] = f
    BY DEF ReadFrames
  <2>2. CASE a \in DOMAIN segments' /\ segments'[a] = segments[a]
    BY <2>1, <2>2
  <2>3. CASE ~ (a \in DOMAIN segments' /\ segments'[a] = segments[a])
    <3>1. a = id
      BY <1>7, <2>1, <2>3
    <3>2. PICK k \in 1..Len(Rest(id)) : Rest(id)[k] = f
      BY <1>5, <2>1, <3>1
    <3>3. id \in DOMAIN segments' /\ segments'[id] = Rest(id)
      <4>1. Rest(id) # <<>>
        BY <3>2
      <4> QED BY <1>7, <2>3, <3>1, <4>1
    <3> QED BY <1>6, <3>2, <3>3
  <2> QED BY <2>2, <2>3
<1>11. \A f \in ReadFrames(segments) :
         f \in ReadFrames(segments') \/ (f.kind # "dead" /\ f.events \subseteq memory.acked)
  BY <1>10 DEF Kept
<1>12. /\ \A kinds : InFrames(segments', kinds) \subseteq InFrames(segments, kinds)
       /\ InFrames(segments, {"dead"}) \subseteq InFrames(segments', {"dead"})
       /\ \A kinds : InFrames(segments, kinds) \subseteq InFrames(segments', kinds) \union memory.acked
  <2>1. \A kinds : InFrames(segments', kinds) \subseteq InFrames(segments, kinds)
    BY <1>9, InFramesGrow
  <2>2. InFrames(segments, {"dead"}) \subseteq InFrames(segments', {"dead"})
    BY <1>11 DEF InFrames
  <2>3. \A kinds : InFrames(segments, kinds) \subseteq InFrames(segments', kinds) \union memory.acked
    BY <1>11 DEF InFrames
  <2> QED BY <2>1, <2>2, <2>3
<1>13. OnDisk' = OnDisk
  BY <1>1, <1>4, <1>12 DEF OnDisk
<1>14. StoreTypes'
  <2>1. writer'.id \in DOMAIN segments'
    BY <1>1, <1>2, <1>3, <1>7 DEF StoreTypes
  <2>2. \A f \in ReadFrames(segments') : f.seq >= 1 /\ (f.kind = "txn" => f.offset \in 1..written')
    BY <1>1, <1>2, <1>9 DEF StoreTypes
  <2> QED BY <1>1, <1>2, <1>8, <2>1, <2>2 DEF StoreTypes
<1>15. Delivered'
  BY <1>1, <1>2, <1>12 DEF Delivered
<1>16. Covered'
  BY <1>1, <1>2, <1>9, <1>13 DEF Covered
<1>17. SnapshotBehind'
  BY <1>1, <1>2, <1>9 DEF SnapshotBehind
<1>18. Undamaged'
  <2>1. View' = memory /\ View = memory
    BY <1>1 DEF View
  <2>2. TornAtEnd(segments) => TornAtEnd(segments')
    BY <1>5, <1>7 DEF TornAtEnd
  <2> QED BY <1>1, <1>2, <1>4, <1>13, <2>1, <2>2 DEF Undamaged
<1>19. UpToDate'
  <2>1. ASSUME ~ damaged PROVE Reaches(segments', snapshot, memory.offset)
    <3>1. \A f \in ReadFrames(segments') : f.kind = "txn" /\ f.seq > snapshot.last => f.offset >= snapshot.offset
      <4>1. TAKE f \in ReadFrames(segments')
      <4>2. HAVE f.kind = "txn" /\ f.seq > snapshot.last
      <4>3. f \in ReadFrames(segments)
        BY <1>9
      <4>4. f.seq \in Nat /\ f.seq <= writer.next
        BY <1>1, <1>2, <4>3 DEF SnapshotBehind, ReadFrames, Frames
      <4>5. f.seq = writer.next
        BY <1>4, <4>2, <4>4
      <4> QED BY <1>1, <1>2, <1>4, <2>1, <4>2, <4>3, <4>5 DEF UpToDate
    <3> QED BY <1>4, <1>8, <3>1, ReachesFromSnapshot
  <2>2. Highest(segments, writer.id) => Highest(segments', writer.id)
    BY <1>7 DEF Highest
  <2>3. ~ damaged => \A f \in ReadFrames(segments') :
          f.kind = "txn" /\ f.seq = writer.next => f.offset >= memory.offset
    BY <1>1, <1>2, <1>9 DEF UpToDate
  <2>4. ~ damaged => /\ writer.isolated = {} /\ Highest(segments, writer.id)
                     /\ memory.offset = 0 => Known(memory) = {}
    BY <1>1, <1>2 DEF UpToDate
  <2> QED BY <1>1, <1>4, <2>1, <2>2, <2>3, <2>4 DEF UpToDate
<1> QED BY <1>7, <1>14, <1>15, <1>16, <1>17, <1>18, <1>19 DEF StoreInv, id

\* A step that leaves the store alone, while the source or the server may gain records.
LEMMA QuietKeeps ==
  ASSUME StoreInv,
         UNCHANGED <<segments, snapshot, up, settings, memory, writer, behind, damaged, stray>>,
         written' \in Records \union {0}, written <= written',
         received \subseteq received', received' \subseteq Records
  PROVE  StoreInv' /\ View' = View
<1>1. StoreTypes /\ Delivered /\ Covered /\ SnapshotBehind /\ Undamaged /\ UpToDate
  BY DEF StoreInv
<1>2. /\ ReadFrames(segments') = ReadFrames(segments)
      /\ \A kinds : InFrames(segments', kinds) = InFrames(segments, kinds)
      /\ OnDisk' = OnDisk /\ View' = View
  BY DEF ReadFrames, InFrames, OnDisk, View
<1>3. written \in Nat /\ written' \in Nat /\ snapshot.offset \in Nat /\ memory.offset \in Nat
  BY <1>1 DEF StoreTypes, Records, Snapshots, Knowledge
<1>4. StoreTypes'
  <2>1. snapshot.offset <= written'
    BY <1>1, <1>3 DEF StoreTypes
  <2>2. \A f \in ReadFrames(segments) : f.seq >= 1 /\ (f.kind = "txn" => f.offset \in 1..written')
    <3>1. \A n \in 1..written : n \in 1..written'
      BY <1>3
    <3> QED BY <1>1, <3>1 DEF StoreTypes
  <2> QED BY <1>1, <1>2, <2>1, <2>2 DEF StoreTypes
<1>5. SnapshotBehind'
  BY <1>1, <1>2, <1>3 DEF SnapshotBehind
<1>6. Delivered' /\ Covered'
  BY <1>1, <1>2 DEF Delivered, Covered
<1>7. Undamaged' /\ UpToDate'
  BY <1>1, <1>2 DEF Undamaged, UpToDate, TornAtEnd, Highest
<1> QED BY <1>2, <1>4, <1>5, <1>6, <1>7 DEF StoreInv

-----------------------------------------------------------------------------
(* What is known; batches and their halves.                                *)

\* What the collector knows, up or down.
LEMMA ViewIs ==
  StoreInv =>
    /\ View \in Knowledge
    /\ 1..View.offset \subseteq Known(View) \union behind
    /\ View.queued \intersect (View.acked \union View.dead) = {}
    /\ View.acked \subseteq received
    /\ ~ damaged => behind = {} /\ Known(View) \subseteq 1..View.offset \union stray
<1>1. SUFFICES ASSUME StoreInv
               PROVE  /\ View \in Knowledge
                      /\ 1..View.offset \subseteq Known(View) \union behind
                      /\ View.queued \intersect (View.acked \union View.dead) = {}
                      /\ View.acked \subseteq received
                      /\ ~ damaged => behind = {} /\ Known(View) \subseteq 1..View.offset \union stray
  OBVIOUS
<1>2. StoreTypes /\ Delivered /\ Covered /\ SnapshotBehind /\ Undamaged /\ UpToDate
  BY <1>1 DEF StoreInv
<1>3. CASE up
  <2>1. View = memory
    BY <1>3 DEF View
  <2> QED BY <1>2, <1>3, <2>1 DEF StoreTypes, Delivered, Covered, SnapshotBehind, Undamaged
<1>4. CASE ~ up
  <2>1. View = Recovered(segments, snapshot)
    BY <1>4 DEF View
  <2>2. /\ View \in Knowledge
        /\ View.acked = snapshot.acked \union InFrames(segments, {"ack"})
        /\ View.dead = snapshot.dead \union InFrames(segments, {"dead"})
        /\ View.queued = InFrames(segments, {"txn"}) \ (View.acked \union View.dead)
        /\ \/ View.offset = snapshot.offset
           \/ \E f \in ReadFrames(segments) : f.kind = "txn" /\ View.offset = f.offset
    BY <1>2, <2>1, RecoveredIs DEF StoreTypes
  <2>3. Known(View) = OnDisk
    <3>1. InFrames(segments, Whole) =
            InFrames(segments, {"txn"}) \union InFrames(segments, {"ack"}) \union InFrames(segments, {"dead"})
      BY DEF InFrames, Whole
    <3> QED BY <2>2, <3>1 DEF OnDisk, Known
  <2>4. 1..View.offset \subseteq OnDisk \union behind
    BY <1>2, <2>2 DEF Covered
  <2>5. View.acked \subseteq received
    BY <1>2, <2>2 DEF Delivered
  <2>6. View.queued \intersect (View.acked \union View.dead) = {}
    BY <2>2
  <2> QED BY <1>2, <2>2, <2>3, <2>4, <2>5, <2>6 DEF Undamaged
<1> QED BY <1>2, <1>3, <1>4 DEF StoreTypes

-----------------------------------------------------------------------------

\* Records are numbers, and finitely many.
LEMMA RecordsFinite ==
  ASSUME NEW S \in SUBSET Records
  PROVE  IsFiniteSet(S) /\ S \in SUBSET Nat
<1>1. Length \in Nat
  BY SpoolAssumption
<1>2. IsFiniteSet(Records)
  BY <1>1, FS_Interval DEF Records
<1>3. IsFiniteSet(S)
  BY <1>2, FS_Subset
<1>4. Records \in SUBSET Nat
  BY <1>1 DEF Records
<1> QED BY <1>3, <1>4

\* Batches of b follow each other.
LEMMA TimesGrows ==
  ASSUME NEW b \in Nat, NEW i \in Nat, NEW j \in Nat, i <= j
  PROVE  b * i \in Nat /\ b * j \in Nat /\ b * i <= b * j
<1> DEFINE grows == {n \in 0..b : n * i <= n * j}
<1>1. \A n \in Nat : n * i \in Nat /\ n * j \in Nat
  OBVIOUS
<1>2. 0 \in grows
  OBVIOUS
<1>3. \A n \in 1..b : n - 1 \in grows => n \in grows
  <2>1. TAKE n \in 1..b
  <2>2. HAVE n - 1 \in grows
  <2>3. (n - 1) * i <= (n - 1) * j
    BY <2>2
  <2>4. n * i = (n - 1) * i + i /\ n * j = (n - 1) * j + j
    OBVIOUS
  <2>5. (n - 1) * i \in Nat /\ (n - 1) * j \in Nat
    <3>1. n - 1 \in Nat
      OBVIOUS
    <3> QED BY <1>1, <3>1
  <2>6. n * i <= n * j
    BY <2>3, <2>4, <2>5
  <2> QED BY <2>6
<1> HIDE DEF grows
<1>4. b \in grows
  BY <1>2, <1>3, UpTo
<1> QED BY <1>1, <1>4 DEF grows

\* The events of an upload, batch by batch.
LEMMA BatchesApart ==
  ASSUME NEW S \in SUBSET Records
  PROVE  BatchesOf(S) \in Seq(SUBSET Records) /\ Apart(BatchesOf(S), S)
<1> DEFINE s == InOrder(S)
           n == Cardinality(S)
           B == BatchEvents
           count == (n + B - 1) \div B
           last(i) == Min({B * i, n})
           batch(i) == {s[j] : j \in (B * (i - 1) + 1)..last(i)}
<1>1. /\ n \in Nat /\ s \in [1..n -> S]
      /\ \A i, j \in 1..n : i < j => s[i] < s[j]
  BY RecordsFinite, InOrderIs
<1>2. Len(s) = n
  BY <1>1
<1>3. B \in Nat \ {0}
  BY SpoolAssumption
<1>4. count \in Nat
  BY <1>1, <1>3
<1>5. BatchesOf(S) = [i \in 1..count |-> batch(i)]
  BY <1>2 DEF BatchesOf
<1> HIDE DEF s, n, count, B
<1>6. ASSUME NEW i \in Nat \ {0}
      PROVE  /\ B * i \in Nat /\ B * (i - 1) \in Nat
             /\ last(i) <= n /\ last(i) <= B * i /\ last(i) \in Nat
  <2>1. B * i \in Nat /\ B * (i - 1) \in Nat
    BY <1>3, <1>6, TimesGrows
  <2>2. {B * i, n} \in SUBSET Nat /\ {B * i, n} # {}
    BY <1>1, <2>1
  <2>3. Min({B * i, n}) \in {B * i, n} /\ \A x \in {B * i, n} : Min({B * i, n}) <= x
    BY <2>2, MinIs
  <2> QED BY <1>1, <2>1, <2>3
<1> HIDE DEF last
<1>7. ASSUME NEW i \in Nat \ {0}, NEW j \in (B * (i - 1) + 1)..last(i)
      PROVE  j \in 1..n /\ j > B * (i - 1) /\ j <= B * i
  <2> DEFINE x == B * (i - 1)
             y == B * i
             z == last(i)
  <2>1. x \in Nat /\ y \in Nat /\ z \in Nat /\ z <= n /\ z <= y
    BY <1>6
  <2>2. j \in (x + 1)..z
    OBVIOUS
  <2>3. n \in Nat
    BY <1>1
  <2> HIDE DEF x, y, z
  <2>4. j \in 1..n /\ j > x /\ j <= y
    BY <2>1, <2>2, <2>3
  <2> QED BY <2>4 DEF x, y
<1>8. ASSUME NEW i \in Nat \ {0} PROVE batch(i) \subseteq S
  BY <1>1, <1>7
<1>9. ASSUME NEW i \in Nat \ {0}, NEW k \in Nat \ {0}, i < k
      PROVE  batch(i) \intersect batch(k) = {}
  <2>1. SUFFICES ASSUME NEW a \in (B * (i - 1) + 1)..last(i), NEW b \in (B * (k - 1) + 1)..last(k),
                        s[a] = s[b]
                 PROVE  FALSE
    OBVIOUS
  <2>2. a \in 1..n /\ a <= B * i /\ b \in 1..n /\ b > B * (k - 1)
    BY <1>7
  <2>3. B * i <= B * (k - 1) /\ B * i \in Nat /\ B * (k - 1) \in Nat
    BY <1>3, <1>9, TimesGrows
  <2>4. a < b
    BY <1>1, <2>2, <2>3
  <2>5. s[a] < s[b] /\ s[a] \in Nat
    BY <1>1, <2>2, <2>4, RecordsFinite
  <2> QED BY <2>1, <2>5
<1> HIDE DEF batch
<1>10. \A i \in 1..count : i \in Nat \ {0} /\ batch(i) \in SUBSET Records
  BY <1>4, <1>8
<1>11. /\ BatchesOf(S) \in Seq(SUBSET Records) /\ Len(BatchesOf(S)) = count
       /\ \A i \in 1..count : BatchesOf(S)[i] = batch(i)
  BY <1>4, <1>5, <1>10
<1>12. Apart(BatchesOf(S), S)
  <2>1. \A i, j \in 1..count : i # j => batch(i) \intersect batch(j) = {}
    <3>1. TAKE i, j \in 1..count
    <3>2. HAVE i # j
    <3>3. i < j \/ j < i
      BY <1>4, <3>2
    <3> QED BY <1>9, <1>10, <3>3
  <2> QED BY <1>8, <1>10, <1>11, <2>1 DEF Apart
<1> QED BY <1>11, <1>12

\* The halves of a batch have nothing in common.
LEMMA HalvesApart ==
  ASSUME NEW S \in SUBSET Records
  PROVE  \E l, r \in SUBSET S : Halves(S) = <<l, r>> /\ l \intersect r = {}
<1> DEFINE s == InOrder(S)
           n == Cardinality(S)
           h == n \div 2
           l == {s[i] : i \in 1..h}
           r == {s[i] : i \in (h + 1)..n}
<1>1. /\ n \in Nat /\ s \in [1..n -> S]
      /\ \A i, j \in 1..n : i < j => s[i] < s[j]
  BY RecordsFinite, InOrderIs
<1>2. Len(s) = n
  BY <1>1
<1>3. h \in Nat /\ h <= n
  BY <1>1
<1>4. Halves(S) = <<l, r>>
  BY <1>2 DEF Halves
<1> HIDE DEF s, n, h
<1>5. \A i \in 1..h : i \in 1..n
  BY <1>1, <1>3
<1>6. \A i \in (h + 1)..n : i \in 1..n /\ i > h
  BY <1>1, <1>3
<1>7. l \in SUBSET S /\ r \in SUBSET S
  BY <1>1, <1>5, <1>6
<1>8. ASSUME NEW a \in 1..h, NEW b \in (h + 1)..n, s[a] = s[b] PROVE FALSE
  <2>1. a \in 1..n /\ b \in 1..n /\ a < b
    BY <1>3, <1>5, <1>6, <1>8
  <2>2. s[a] < s[b] /\ s[a] \in Nat
    BY <1>1, <2>1, RecordsFinite
  <2> QED BY <1>8, <2>2
<1>9. l \intersect r = {}
  BY <1>8
<1> QED BY <1>4, <1>7, <1>9

\* The first batch, and the others.
LEMMA TailApart ==
  ASSUME NEW batches \in Seq(SUBSET Records), batches # <<>>, NEW queued, Apart(batches, queued)
  PROVE  /\ Head(batches) \in SUBSET Records /\ Head(batches) \subseteq queued
         /\ Tail(batches) \in Seq(SUBSET Records)
         /\ Apart(Tail(batches), queued \ Head(batches))
<1>1. /\ Len(batches) \in Nat \ {0} /\ Head(batches) = batches[1] /\ 1 \in 1..Len(batches)
      /\ Tail(batches) \in Seq(SUBSET Records) /\ Len(Tail(batches)) = Len(batches) - 1
      /\ \A i \in 1..(Len(batches) - 1) : Tail(batches)[i] = batches[i + 1]
  BY HeadTailProperties, EmptySeq
<1>2. \A i \in 1..(Len(batches) - 1) : i + 1 \in 1..Len(batches) /\ i + 1 # 1
  BY <1>1
<1>3. Head(batches) \in SUBSET Records
  BY <1>1
<1>4. \A i, j \in 1..Len(batches) : batches[i] \subseteq queued /\ (i # j => batches[i] \intersect batches[j] = {})
  BY DEF Apart
<1>5. \A i, j \in 1..(Len(batches) - 1) : i # j => i + 1 # j + 1
  OBVIOUS
<1>6. Apart(Tail(batches), queued \ Head(batches))
  <2> DEFINE t == Tail(batches)
  <2>1. \A i \in 1..Len(t) : t[i] = batches[i + 1] /\ i + 1 \in 1..Len(batches) /\ i + 1 # 1
    BY <1>1, <1>2
  <2>2. \A i, j \in 1..Len(t) : i # j => i + 1 # j + 1
    BY <1>1, <1>5
  <2> HIDE DEF t
  <2>3. \A i \in 1..Len(t) : t[i] \subseteq queued \ Head(batches)
    BY <1>1, <1>4, <2>1
  <2>4. \A i, j \in 1..Len(t) : i # j => t[i] \intersect t[j] = {}
    BY <1>4, <2>1, <2>2
  <2>5. Apart(t, queued \ Head(batches))
    BY <2>3, <2>4 DEF Apart
  <2> QED BY <2>5 DEF t
<1> QED BY <1>1, <1>3, <1>4, <1>6

\* Two halves in place of the first batch.
LEMMA SplitApart ==
  ASSUME NEW batches \in Seq(SUBSET Records), NEW queued, NEW l \in SUBSET Records, NEW r \in SUBSET Records,
         l \subseteq queued, r \subseteq queued, l \intersect r = {},
         Apart(batches, queued \ (l \union r))
  PROVE  <<l, r>> \o batches \in Seq(SUBSET Records) /\ Apart(<<l, r>> \o batches, queued)
<1> DEFINE t == <<l, r>> \o batches
           n == Len(batches)
<1>1. /\ t \in Seq(SUBSET Records) /\ n \in Nat /\ Len(t) = n + 2
      /\ t[1] = l /\ t[2] = r /\ \A i \in 3..(n + 2) : t[i] = batches[i - 2]
  OBVIOUS
<1>2. \A i \in 1..(n + 2) : i = 1 \/ i = 2 \/ (i \in 3..(n + 2) /\ i - 2 \in 1..n)
  BY <1>1
<1>3. \A i, j \in 3..(n + 2) : i # j => i - 2 # j - 2
  OBVIOUS
<1>4. \A i, j \in 1..n : /\ batches[i] \subseteq queued \ (l \union r)
                         /\ i # j => batches[i] \intersect batches[j] = {}
  BY DEF Apart
<1> HIDE DEF t, n
<1>5. \A i \in 1..(n + 2) : t[i] \subseteq queued
  BY <1>1, <1>2, <1>4
<1>6. \A i, j \in 1..(n + 2) : i # j => t[i] \intersect t[j] = {}
  <2>1. TAKE i, j \in 1..(n + 2)
  <2>2. HAVE i # j
  <2>3. CASE i \in {1, 2} /\ j \in {1, 2}
    BY <1>1, <2>2, <2>3
  <2>4. CASE i \in {1, 2} /\ j \notin {1, 2}
    BY <1>1, <1>2, <1>4, <2>4
  <2>5. CASE i \notin {1, 2} /\ j \in {1, 2}
    BY <1>1, <1>2, <1>4, <2>5
  <2>6. CASE i \notin {1, 2} /\ j \notin {1, 2}
    BY <1>1, <1>2, <1>3, <1>4, <2>2, <2>6
  <2> QED BY <2>3, <2>4, <2>5, <2>6
<1> QED BY <1>1, <1>5, <1>6 DEF Apart, t

-----------------------------------------------------------------------------
(* Appending and crashing are steps of the outbox.                         *)

\* What the promise allows a step to do.
PromiseStep == damaged' \/ Promise!Next \/ UNCHANGED Promise!outbox

\* A step after which the same is known.
LEMMA SameView ==
  ASSUME View' = View, UNCHANGED <<received, stray>>
  PROVE  PromiseStep
BY DEF PromiseStep, Promise!outbox

\* The checkpoint moved on and nothing that was known is forgotten.
LEMMA Advances ==
  ASSUME StoreInv, StoreInv',
         ~ damaged' =>
           /\ (View').offset >= View.offset
           /\ View.acked \subseteq (View').acked /\ View.dead \subseteq (View').dead
           /\ Known(View) \subseteq Known(View')
           /\ stray \subseteq stray',
         UNCHANGED received
  PROVE  PromiseStep
<1>1. (StoreInv =>
          /\ View \in Knowledge
          /\ 1..View.offset \subseteq Known(View) \union behind
          /\ View.queued \intersect (View.acked \union View.dead) = {}
          /\ View.acked \subseteq received
          /\ ~ damaged => behind = {} /\ Known(View) \subseteq 1..View.offset \union stray)'
  BY ViewIs, PTL
<1>2. SUFFICES ASSUME ~ damaged' PROVE Promise!Advance
  BY DEF PromiseStep, Promise!Next
<1>3. /\ View' \in Knowledge
      /\ 1..(View').offset \subseteq Known(View')
      /\ (View').queued \intersect ((View').acked \union (View').dead) = {}
      /\ (View').acked \subseteq received
      /\ Known(View') \subseteq 1..(View').offset \union stray'
  BY <1>1, <1>2 DEF Known
<1>4. Promise!known = Known(View) /\ (Promise!known)' = Known(View')
  BY DEF Promise!known, Known
<1>5. (View').offset \in Records \union {0}
  BY <1>3 DEF Knowledge
<1> QED BY <1>2, <1>3, <1>4, <1>5 DEF Promise!Advance

-----------------------------------------------------------------------------

\* What a poll found may be appended.
LEMMA TxnFits ==
  ASSUME StoreInv, up, NEW upTo \in StopsAt, upTo > From \/ upTo # memory.offset
  PROVE  /\ Fits(TxnOf(upTo))
         /\ After(TxnOf(upTo)) = WithTxn(memory, TxnOf(upTo).events, upTo)
         /\ TxnOf(upTo).kind = "txn" /\ TxnOf(upTo).offset = upTo
<1> DEFINE f == TxnOf(upTo)
<1>1. StoreTypes /\ Covered /\ SnapshotBehind
  BY DEF StoreInv
<1>2. /\ memory \in Knowledge /\ writer \in Writers /\ writer.next \in Nat
      /\ memory.offset \in Nat /\ memory.offset <= written /\ written \in Nat
      /\ Records = 1..Length /\ written <= Length /\ Length \in Nat
  BY <1>1, SpoolAssumption DEF StoreTypes, SnapshotBehind, Knowledge, Writers, Records
<1>3. upTo \in Nat /\ upTo >= memory.offset /\ upTo <= written
  BY <1>2 DEF StopsAt
<1>4. From \in Nat /\ From <= memory.offset
  BY <1>2 DEF From
<1>5. upTo \in 1..written /\ upTo \in Records
  BY <1>2, <1>3, <1>4
<1>6. /\ f.kind = "txn" /\ f.seq = writer.next /\ f.offset = upTo
      /\ f.events = ((From + 1)..upTo) \ memory.acked
      /\ f = [kind |-> "txn", seq |-> writer.next,
              events |-> ((From + 1)..upTo) \ memory.acked, offset |-> upTo]
  BY DEF TxnOf, Frame
<1> HIDE DEF f
<1>7. f.events \subseteq 1..upTo /\ 1..upTo \subseteq Records
  BY <1>2, <1>3, <1>4, <1>6
<1>8. f \in Frames /\ f.kind \in Whole
  <2>1. f.events \in SUBSET Records
    BY <1>7
  <2> QED BY <1>2, <1>5, <1>6, <2>1 DEF Frames, Whole
<1>9. 1..upTo \subseteq Known(memory) \union f.events \union behind
  <2>1. SUFFICES ASSUME NEW r \in 1..upTo PROVE r \in Known(memory) \union f.events \union behind
    OBVIOUS
  <2>2. CASE r <= From
    <3>1. r \in 1..memory.offset
      BY <1>2, <1>4, <2>1, <2>2
    <3> QED BY <1>1, <3>1 DEF Covered
  <2>3. CASE ~ (r <= From)
    <3>1. r \in (From + 1)..upTo
      BY <1>3, <1>4, <2>1, <2>3
    <3> QED BY <1>6, <3>1 DEF Known
  <2> QED BY <2>2, <2>3
<1>10. f.events \intersect memory.acked = {}
  BY <1>6
<1>11. Fits(f)
  BY <1>3, <1>5, <1>6, <1>7, <1>8, <1>9, <1>10 DEF Fits
<1>12. After(f) = WithTxn(memory, f.events, upTo)
  BY <1>6 DEF After
<1> QED BY <1>6, <1>11, <1>12 DEF f

\* So may what an answer settled.
LEMMA SettledFits ==
  ASSUME SpoolInv, up, loop.at = "settle",
         NEW kind \in {"ack", "dead"}, NEW over \in SUBSET Records,
         kind = "ack" => over \subseteq loop.ack,
         kind = "dead" => over \subseteq loop.dead
  PROVE  /\ Fits(Frame(kind, over, 0))
         /\ kind = "ack" => After(Frame(kind, over, 0)) = WithAck(memory, over)
         /\ kind = "dead" => After(Frame(kind, over, 0)) = WithDead(memory, over)
         /\ Frame(kind, over, 0).kind = kind /\ Frame(kind, over, 0).events = over
<1> DEFINE f == Frame(kind, over, 0)
<1>1. /\ f.kind = kind /\ f.seq = writer.next /\ f.offset = 0 /\ f.events = over
      /\ f = [kind |-> kind, seq |-> writer.next, events |-> over, offset |-> 0]
  BY DEF Frame
<1> HIDE DEF f
<1>2. writer.next \in Nat
  BY DEF SpoolInv, StoreInv, StoreTypes, Writers
<1>3. f \in Frames /\ f.kind \in Whole /\ f.kind # "txn"
  BY <1>1, <1>2 DEF Frames, Whole
<1>4. /\ loop.ack \union loop.dead \subseteq Known(memory)
      /\ loop.ack \subseteq received
      /\ ~ damaged => memory.offset > 0
  BY DEF SpoolInv, LoopInv
<1>5. Fits(f)
  BY <1>1, <1>3, <1>4 DEF Fits
<1>6. /\ kind = "ack" => After(f) = WithAck(memory, over)
      /\ kind = "dead" => After(f) = WithDead(memory, over)
  BY <1>1 DEF After
<1> QED BY <1>1, <1>5, <1>6 DEF f

\* An append, whether or not it succeeds, keeps the promise.
LEMMA AppendedAdvances ==
  ASSUME StoreInv, up, NEW f, Fits(f), NEW g \in Sent(f), NEW due \in BOOLEAN,
         Appended(g, After(f), due) \/ AppendedWithoutSnapshot(g, After(f)),
         UNCHANGED <<written, received, settings>>
  PROVE  /\ StoreInv' /\ PromiseStep /\ up' = up /\ memory' = After(f)
         /\ ~ damaged' => ~ damaged
<1>0. /\ AppendsAnd(g, After(f))
      /\ snapshot' \in {snapshot, SnapshotOf(After(f), writer.next)}
  BY DEF Appended, AppendedWithoutSnapshot
<1>1. /\ up' = up /\ memory' = After(f) /\ UNCHANGED <<received, stray>>
      /\ ~ damaged' => ~ damaged
  BY <1>0 DEF AppendsAnd, WriteToSegment
<1>2. StoreInv'
  BY <1>0, AppendedKeeps
<1>3. StoreTypes /\ SnapshotBehind
  BY DEF StoreInv
<1>4. /\ View = memory /\ View' = After(f)
  BY <1>1 DEF View
<1>5. /\ After(f).offset = IF f.kind = "txn" THEN f.offset ELSE memory.offset
      /\ memory.acked \subseteq After(f).acked
      /\ memory.dead \subseteq After(f).dead
      /\ Known(After(f)) = Known(memory) \union f.events
  BY <1>3, AfterIs DEF SnapshotBehind
<1>6. After(f).offset >= memory.offset
  <2>1. memory.offset \in Nat
    BY <1>3 DEF StoreTypes, Knowledge, Records
  <2> QED BY <1>5, <2>1 DEF Fits
<1>7. PromiseStep
  BY <1>1, <1>2, <1>4, <1>5, <1>6, Advances
<1> QED BY <1>1, <1>2, <1>7

\* What a crash leaves is what was known.
LEMMA DownAdvances ==
  ASSUME StoreInv, StoreInv', up, ~ up', UNCHANGED received,
         snapshot' = snapshot, stray \subseteq stray',
         ReadFrames(segments) \subseteq ReadFrames(segments'),
         ~ damaged' => ~ damaged /\ Reaches(segments', snapshot', memory.offset)
  PROVE  PromiseStep
<1>1. View = memory /\ View' = Recovered(segments', snapshot')
  BY DEF View
<1>2. SUFFICES ASSUME ~ damaged'
               PROVE  /\ (View').offset >= View.offset
                      /\ View.acked \subseteq (View').acked /\ View.dead \subseteq (View').dead
                      /\ Known(View) \subseteq Known(View')
  BY Advances
<1>3. /\ StoreTypes /\ Covered /\ Undamaged /\ UpToDate /\ ~ damaged
      /\ StoreTypes' /\ Undamaged'
  BY <1>2 DEF StoreInv
<1>4. /\ SegmentsTyped(segments') /\ snapshot' \in Snapshots /\ memory.offset \in Nat
  BY <1>3 DEF StoreTypes, Knowledge, Records
<1>5. /\ (View').acked = snapshot'.acked \union InFrames(segments', {"ack"})
      /\ (View').dead = snapshot'.dead \union InFrames(segments', {"dead"})
      /\ (View').queued = InFrames(segments', {"txn"}) \ ((View').acked \union (View').dead)
  BY <1>1, <1>4, RecoveredIs
<1>6. \A kinds : InFrames(segments, kinds) \subseteq InFrames(segments', kinds)
  BY InFramesGrow
<1>7. View.acked \subseteq (View').acked /\ View.dead \subseteq (View').dead
  BY <1>1, <1>3, <1>5, <1>6 DEF UpToDate
<1>8. Known(View) \subseteq Known(View')
  <2>1. Known(memory) \subseteq OnDisk
    BY <1>3 DEF Covered, Undamaged
  <2>2. InFrames(segments, Whole) =
          InFrames(segments, {"txn"}) \union InFrames(segments, {"ack"}) \union InFrames(segments, {"dead"})
    BY DEF InFrames, Whole
  <2> QED BY <1>1, <1>5, <1>6, <2>1, <2>2 DEF Known, OnDisk
<1>9. (View').offset >= View.offset
  <2>1. snapshot'.offset = 0 => snapshot'.last = 0
    BY <1>2, <1>3 DEF Undamaged
  <2>2. \A f \in ReadFrames(segments') : f.kind = "txn" => f.seq >= 1 /\ f.offset >= 1
    <3>1. \A f \in ReadFrames(segments') : f.seq >= 1 /\ (f.kind = "txn" => f.offset \in 1..written')
      BY <1>3 DEF StoreTypes
    <3>2. written' \in Nat
      BY <1>3 DEF StoreTypes, Records
    <3> QED BY <3>1, <3>2
  <2> QED BY <1>1, <1>2, <1>4, <2>1, <2>2, ReachesIs
<1> QED BY <1>7, <1>8, <1>9

\* An append that goes wrong keeps the promise too.
LEMMA WrongAdvances ==
  ASSUME StoreInv, up, NEW f, Fits(f), NEW g \in Sent(f), AppendGoesWrong(g),
         UNCHANGED <<written, received, settings>>
  PROVE  /\ StoreInv' /\ PromiseStep
         /\ up' => memory' = memory /\ (~ damaged' => ~ damaged)
<1>1. /\ StoreInv'
      /\ ReadFrames(segments) \subseteq ReadFrames(segments')
      /\ stray \subseteq stray'
      /\ ~ damaged' => ~ damaged /\ Reaches(segments', snapshot', memory.offset)
  BY WrongKeeps
<1>2. /\ snapshot' = snapshot
      /\ (up' = up /\ memory' = memory) \/ ~ up'
  BY DEF AppendGoesWrong
<1>3. CASE up' = up /\ memory' = memory
  <2>1. View = memory /\ View' = memory
    BY <1>3 DEF View
  <2>2. View.offset \in Nat
    BY <2>1 DEF StoreInv, StoreTypes, Knowledge, Records
  <2>3. PromiseStep
    BY <1>1, <2>1, <2>2, Advances
  <2> QED BY <1>1, <1>3, <2>3
<1>4. CASE ~ up'
  <2>1. PromiseStep
    BY <1>1, <1>2, <1>4, DownAdvances
  <2> QED BY <1>1, <1>4, <2>1
<1> QED BY <1>2, <1>3, <1>4

-----------------------------------------------------------------------------
(* The steps of the tick up to the server's answer.                        *)

\* The tick starts over.
LEMMA RestartLoop ==
  ASSUME loop' = AtStart
  PROVE  LoopInv'
<1>1. <<>> \in Seq(SUBSET Records) /\ Len(<<>>) = 0
  OBVIOUS
<1>2. AtStart \in Loops
  BY <1>1 DEF AtStart, Loops
<1> QED BY <1>1, <1>2 DEF LoopInv, AtStart, Apart

\* The flush ends, or nothing of it has begun.
LEMMA EndLoop ==
  ASSUME LoopInv, up, up', NEW paused \in BOOLEAN,
         loop' = [EndTick EXCEPT !.paused = paused], loop.at # "sweep" \/ loop.sweep = {}
  PROVE  LoopInv'
<1>1. /\ loop \in Loops /\ loop.sweep = {}
  BY DEF LoopInv
<1>2. <<>> \in Seq(SUBSET Records) /\ Len(<<>>) = 0
  OBVIOUS
<1>3. /\ loop' \in Loops /\ loop'.at = "collect" /\ loop'.batches = <<>> /\ loop'.ack = {}
      /\ loop'.dead = {} /\ loop'.sweep = {}
  BY <1>1, <1>2 DEF EndTick, Loops
<1> QED BY <1>2, <1>3 DEF LoopInv, Apart

\* What was waiting still is, when the queue has only grown.
LEMMA ApartGrows ==
  ASSUME NEW batches, NEW queued, NEW more, Apart(batches, queued), queued \subseteq more
  PROVE  Apart(batches, more)
BY DEF Apart

\* Grow.
LEMMA GrowStep ==
  ASSUME SpoolInv, Grow
  PROVE  SpoolInv' /\ PromiseStep
<1>1. /\ written < Length /\ written' = written + 1
      /\ UNCHANGED <<received, segments, snapshot, up, settings, memory, writer, loop, behind, damaged, stray>>
  BY DEF Grow, history
<1>2. StoreInv /\ LoopInv /\ StoreTypes
  BY DEF SpoolInv, StoreInv
<1>3. written' \in Records \union {0} /\ written <= written' /\ received \subseteq Records
  BY <1>1, <1>2, SpoolAssumption DEF StoreTypes, Records
<1>4. StoreInv' /\ View' = View
  BY <1>1, <1>2, <1>3, QuietKeeps
<1>5. LoopInv'
  BY <1>1, <1>2 DEF LoopInv, Apart, Known
<1> QED BY <1>1, <1>4, <1>5, SameView DEF SpoolInv

\* Collect: a poll is appended, or goes wrong.
LEMMA CollectStep ==
  ASSUME SpoolInv, Collect
  PROVE  SpoolInv' /\ PromiseStep
<1>1. PICK upTo \in StopsAt :
       /\ upTo > From \/ upTo # memory.offset
       /\ LET txn == TxnOf(upTo)
              f == IF TooLarge(txn) THEN Overlong(txn) ELSE txn
          IN \/ /\ Appended(f, WithTxn(memory, txn.events, upTo), TRUE)
                /\ ToFlush
             \/ /\ AppendGoesWrong(f)
                /\ IF up' THEN ToFlush ELSE loop' = AtStart
  BY DEF Collect
<1>2. /\ up /\ loop.at = "collect" /\ UNCHANGED <<written, received, settings>>
      /\ StoreInv /\ LoopInv
  BY DEF Collect, SpoolInv
<1> DEFINE f == TxnOf(upTo)
           g == IF TooLarge(f) THEN Overlong(f) ELSE f
<1>3. /\ Fits(f) /\ After(f) = WithTxn(memory, f.events, upTo) /\ f.kind = "txn"
  BY <1>1, <1>2, TxnFits
<1>0. /\ \/ Appended(g, After(f), TRUE) /\ ToFlush
         \/ AppendGoesWrong(g) /\ IF up' THEN ToFlush ELSE loop' = AtStart
      /\ g \in Sent(f)
  BY <1>1, <1>3 DEF Sent
<1> HIDE DEF f, g
<1>4. ASSUME ToFlush, up', memory' = memory \/ memory' = After(f)
      PROVE  LoopInv'
  <2>1. loop' = [loop EXCEPT !.at = "flush", !.fresh = FALSE]
    BY <1>4 DEF ToFlush
  <2>2. loop \in Loops /\ loop.sweep = {} /\ loop.ack = {} /\ loop.dead = {}
        /\ Apart(loop.batches, memory.queued)
    BY <1>2 DEF LoopInv
  <2>3. /\ loop' \in Loops /\ loop'.at = "flush" /\ loop'.sweep = {} /\ loop'.ack = {} /\ loop'.dead = {}
        /\ loop'.batches = loop.batches
    BY <2>1, <2>2 DEF Loops
  <2>4. memory.queued \subseteq memory'.queued
    <3>1. CASE memory' = memory
      BY <3>1
    <3>2. CASE memory' = After(f)
      <4>1. memory \in Knowledge
        BY <1>2 DEF StoreInv, StoreTypes
      <4> QED BY <1>3, <3>2, <4>1 DEF WithTxn, Knowledge
    <3> QED BY <1>4, <3>1, <3>2
  <2>5. Apart(loop'.batches, memory'.queued \ (loop'.ack \union loop'.dead))
    BY <2>2, <2>3, <2>4, ApartGrows
  <2> QED BY <1>2, <1>4, <2>3, <2>5 DEF LoopInv
<1>5. CASE Appended(g, After(f), TRUE) /\ ToFlush
  <2>1. StoreInv' /\ PromiseStep /\ up' = up /\ memory' = After(f)
    BY <1>2, <1>3, <1>0, <1>5, AppendedAdvances
  <2> QED BY <1>2, <1>4, <1>5, <2>1 DEF SpoolInv
<1>6. CASE AppendGoesWrong(g) /\ IF up' THEN ToFlush ELSE loop' = AtStart
  <2>1. StoreInv' /\ PromiseStep /\ (up' => memory' = memory)
    BY <1>2, <1>3, <1>0, <1>6, WrongAdvances
  <2>2. CASE up'
    BY <1>4, <1>6, <2>1, <2>2 DEF SpoolInv
  <2>3. CASE ~ up'
    BY <1>6, <2>1, <2>3, RestartLoop DEF SpoolInv
  <2> QED BY <2>2, <2>3
<1> QED BY <1>0, <1>5, <1>6

\* A step of the tick that leaves the store alone.
LEMMA QuietTick ==
  ASSUME SpoolInv, up,
         UNCHANGED <<written, segments, snapshot, up, settings, memory, writer, history>>,
         received \subseteq received', received' \subseteq Records
  PROVE  /\ StoreInv' /\ View' = View /\ View = memory /\ up' = up
         /\ memory' = memory /\ memory \in Knowledge /\ loop \in Loops
         /\ UNCHANGED <<segments, snapshot, writer, damaged, stray>>
<1>1. StoreInv /\ StoreTypes /\ LoopInv
  BY DEF SpoolInv, StoreInv
<1>2. UNCHANGED <<behind, damaged, stray>>
  BY DEF history
<1>3. written' \in Records \union {0} /\ written <= written'
  BY <1>1, SpoolAssumption DEF StoreTypes, Records
<1>4. StoreInv' /\ View' = View
  BY <1>1, <1>2, <1>3, QuietKeeps
<1> QED BY <1>1, <1>2, <1>4 DEF View, StoreTypes, LoopInv

\* CollectNothing.
LEMMA CollectNothingStep ==
  ASSUME SpoolInv, CollectNothing
  PROVE  SpoolInv' /\ PromiseStep
<1>1. /\ up /\ loop.at = "collect" /\ ToFlush /\ UNCHANGED received /\ LoopInv
      /\ UNCHANGED <<written, segments, snapshot, up, settings, memory, writer, history>>
  BY DEF CollectNothing, SpoolInv
<1>2. received \subseteq received' /\ received' \subseteq Records
  BY <1>1 DEF SpoolInv, StoreInv, StoreTypes
<1>3. /\ StoreInv' /\ View' = View /\ up' = up /\ memory' = memory /\ loop \in Loops
      /\ UNCHANGED <<segments, snapshot, writer, damaged, stray>>
  BY <1>1, <1>2, QuietTick
<1>4. /\ loop' \in Loops /\ loop'.at = "flush" /\ loop'.sweep = loop.sweep /\ loop'.ack = loop.ack
      /\ loop'.dead = loop.dead /\ loop'.batches = loop.batches
  BY <1>1, <1>3 DEF ToFlush, Loops
<1>5. LoopInv'
  BY <1>1, <1>3, <1>4 DEF LoopInv
<1> QED BY <1>1, <1>3, <1>5, SameView DEF SpoolInv

\* Flush: what is queued is put into batches.
LEMMA FlushStep ==
  ASSUME SpoolInv, Flush
  PROVE  SpoolInv' /\ PromiseStep
<1>1. /\ up /\ loop.at = "flush" /\ UNCHANGED received /\ LoopInv
      /\ loop' = IF loop.paused \/ memory.queued = {} THEN EndTick
                 ELSE [loop EXCEPT !.at = "upload", !.batches = BatchesOf(memory.queued)]
      /\ UNCHANGED <<written, segments, snapshot, up, settings, memory, writer, history>>
  BY DEF Flush, SpoolInv
<1>2. received \subseteq received' /\ received' \subseteq Records
  BY <1>1 DEF SpoolInv, StoreInv, StoreTypes
<1>3. /\ StoreInv' /\ View' = View /\ up' = up /\ memory' = memory /\ memory \in Knowledge /\ loop \in Loops
      /\ UNCHANGED <<segments, snapshot, writer, damaged, stray>>
  BY <1>1, <1>2, QuietTick
<1>4. CASE loop.paused \/ memory.queued = {}
  <2>1. loop' = [EndTick EXCEPT !.paused = loop.paused] /\ loop.paused \in BOOLEAN
    BY <1>1, <1>3, <1>4 DEF EndTick, Loops
  <2>2. LoopInv'
    BY <1>1, <1>3, <2>1, EndLoop
  <2> QED BY <1>1, <1>3, <2>2, SameView DEF SpoolInv
<1>5. CASE ~ (loop.paused \/ memory.queued = {})
  <2>1. memory.queued \in SUBSET Records
    BY <1>3 DEF Knowledge
  <2>2. BatchesOf(memory.queued) \in Seq(SUBSET Records) /\ Apart(BatchesOf(memory.queued), memory.queued)
    BY <2>1, BatchesApart
  <2>3. /\ loop' \in Loops /\ loop'.at = "upload" /\ loop'.sweep = loop.sweep /\ loop'.ack = loop.ack
        /\ loop'.dead = loop.dead /\ loop'.batches = BatchesOf(memory.queued)
    BY <1>1, <1>3, <1>5, <2>2 DEF Loops
  <2>4. ~ damaged => memory.offset > 0
    <3>1. memory.queued # {}
      BY <1>5
    <3>2. ~ damaged => memory.offset # 0
      BY <1>1, <3>1 DEF SpoolInv, StoreInv, UpToDate, Known
    <3>3. memory.offset \in Nat
      BY <1>3 DEF Knowledge, Records
    <3> QED BY <3>2, <3>3
  <2>5. loop.ack = {} /\ loop.dead = {} /\ loop.sweep = {}
    BY <1>1 DEF LoopInv
  <2>6. loop'.sweep = {} /\ loop'.ack = {} /\ loop'.dead = {}
    BY <2>3, <2>5
  <2>7. Apart(loop'.batches, memory'.queued \ (loop'.ack \union loop'.dead))
    <3>1. memory'.queued \ (loop'.ack \union loop'.dead) = memory.queued
      BY <1>3, <2>6
    <3> QED BY <2>2, <2>3, <3>1
  <2>8. LoopInv'
    BY <1>1, <1>3, <2>3, <2>4, <2>6, <2>7 DEF LoopInv
  <2> QED BY <1>1, <1>3, <2>8, SameView DEF SpoolInv
<1> QED BY <1>4, <1>5

\* What the server takes is queued, so that taking it is a step of the promise.
LEMMA Takes ==
  ASSUME View' = View, UNCHANGED stray, NEW some \in SUBSET View.queued, received' = received \union some
  PROVE  PromiseStep
BY DEF PromiseStep, Promise!Next, Promise!Receive

\* While a batch is uploaded.
LEMMA UploadsFrom ==
  ASSUME SpoolInv, Uploads
  PROVE  /\ up /\ loop.at = "upload" /\ loop.ack = {} /\ loop.dead = {} /\ loop.sweep = {}
         /\ Head(loop.batches) \in SUBSET Records /\ Head(loop.batches) \subseteq memory.queued
         /\ Tail(loop.batches) \in Seq(SUBSET Records)
         /\ Apart(Tail(loop.batches), memory.queued \ Head(loop.batches))
         /\ loop \in Loops /\ (~ damaged => memory.offset > 0)
         /\ received \subseteq Records
<1>1. /\ up /\ loop.at = "upload" /\ loop.batches # <<>> /\ LoopInv
  BY DEF Uploads, SpoolInv
<1>2. /\ loop \in Loops /\ loop.batches \in Seq(SUBSET Records) /\ loop.ack = {} /\ loop.dead = {} /\ loop.sweep = {}
      /\ Apart(loop.batches, memory.queued)
  BY <1>1 DEF LoopInv, Loops
<1>3. received \subseteq Records /\ (~ damaged => memory.offset > 0)
  BY <1>1 DEF SpoolInv, StoreInv, StoreTypes, LoopInv
<1> QED BY <1>1, <1>2, <1>3, TailApart

\* The server took some of the batch and refused some.
LEMMA AnsweredStep ==
  ASSUME SpoolInv, Uploads, NEW again, Answered(again),
         UNCHANGED <<written, segments, snapshot, up, settings, memory, writer, history>>
  PROVE  SpoolInv' /\ PromiseStep
<1> DEFINE batch == Head(loop.batches)
<1>1. PICK accepted \in SUBSET (batch \ again) :
       /\ received' = received \union accepted
       /\ loop' = [loop EXCEPT !.at = "settle", !.batches = Tail(@),
                               !.ack = accepted,
                               !.dead = (batch \ again) \ accepted]
  BY DEF Answered
<1>2. /\ up /\ loop.at = "upload" /\ loop.ack = {} /\ loop.dead = {} /\ loop.sweep = {}
      /\ batch \in SUBSET Records /\ batch \subseteq memory.queued
      /\ Tail(loop.batches) \in Seq(SUBSET Records)
      /\ Apart(Tail(loop.batches), memory.queued \ batch)
      /\ loop \in Loops /\ (~ damaged => memory.offset > 0)
      /\ received \subseteq Records
  BY UploadsFrom
<1> HIDE DEF batch
<1>3. accepted \subseteq batch /\ accepted \in SUBSET Records /\ (batch \ again) \ accepted \in SUBSET Records
  BY <1>1, <1>2
<1>4. received \subseteq received' /\ received' \subseteq Records
  BY <1>1, <1>2, <1>3
<1>5. /\ StoreInv' /\ View' = View /\ View = memory /\ up' = up /\ memory' = memory
      /\ UNCHANGED <<segments, snapshot, writer, damaged, stray>>
  BY <1>2, <1>4, QuietTick
<1>6. /\ loop' \in Loops /\ loop'.at = "settle" /\ loop'.sweep = loop.sweep /\ loop'.ack = accepted
      /\ loop'.dead = (batch \ again) \ accepted /\ loop'.batches = Tail(loop.batches)
  BY <1>1, <1>2, <1>3 DEF Loops
<1>7. Apart(Tail(loop.batches), memory.queued \ (loop'.ack \union loop'.dead))
  <2>1. memory.queued \ batch \subseteq memory.queued \ (loop'.ack \union loop'.dead)
    BY <1>3, <1>6
  <2> QED BY <1>2, <2>1, ApartGrows
<1>8. loop'.ack \union loop'.dead \subseteq Known(memory)
  BY <1>2, <1>3, <1>6 DEF Known
<1>9. LoopInv'
  BY <1>1, <1>2, <1>5, <1>6, <1>7, <1>8 DEF LoopInv
<1>10. PromiseStep
  <2>1. accepted \in SUBSET View.queued
    BY <1>2, <1>3, <1>5
  <2> QED BY <1>1, <1>5, <2>1, Takes
<1> QED BY <1>5, <1>9, <1>10 DEF SpoolInv

\* Upload.
LEMMA UploadStep ==
  ASSUME SpoolInv, Upload
  PROVE  SpoolInv' /\ PromiseStep
<1>1. PICK again : Answered(again)
  BY DEF Upload
<1>2. Uploads /\ UNCHANGED <<written, segments, snapshot, up, settings, memory, writer, history>>
  BY DEF Upload
<1> QED BY <1>1, <1>2, AnsweredStep

\* UploadRefused: the batch is halved or given up.
LEMMA UploadRefusedStep ==
  ASSUME SpoolInv, UploadRefused
  PROVE  SpoolInv' /\ PromiseStep
<1> DEFINE batch == Head(loop.batches)
<1>1. /\ Uploads /\ UNCHANGED received
      /\ loop' = IF Cardinality(batch) > 1
                 THEN [loop EXCEPT !.batches = Halves(Head(@)) \o Tail(@)]
                 ELSE [loop EXCEPT !.at = "settle", !.batches = Tail(@), !.dead = batch]
      /\ UNCHANGED <<written, segments, snapshot, up, settings, memory, writer, history>>
  BY DEF UploadRefused
<1>2. /\ up /\ loop.at = "upload" /\ loop.ack = {} /\ loop.dead = {} /\ loop.sweep = {}
      /\ batch \in SUBSET Records /\ batch \subseteq memory.queued
      /\ Tail(loop.batches) \in Seq(SUBSET Records)
      /\ Apart(Tail(loop.batches), memory.queued \ batch)
      /\ loop \in Loops /\ (~ damaged => memory.offset > 0)
      /\ received \subseteq Records
  BY <1>1, UploadsFrom
<1>3. /\ StoreInv' /\ View' = View /\ up' = up /\ memory' = memory
      /\ UNCHANGED <<segments, snapshot, writer, damaged, stray>>
  BY <1>1, <1>2, QuietTick
<1>4. PromiseStep
  BY <1>1, <1>3, SameView
<1>5. CASE Cardinality(batch) > 1
  <2>1. PICK l \in SUBSET batch, r \in SUBSET batch : Halves(batch) = <<l, r>> /\ l \intersect r = {}
    BY <1>2, HalvesApart
  <2> DEFINE t == <<l, r>> \o Tail(loop.batches)
  <2>2. loop' = [loop EXCEPT !.batches = t]
    BY <1>1, <1>5, <2>1
  <2>3. Apart(Tail(loop.batches), memory.queued \ (l \union r))
    <3>1. memory.queued \ batch \subseteq memory.queued \ (l \union r)
      BY <2>1
    <3> QED BY <1>2, <3>1, ApartGrows
  <2>4. t \in Seq(SUBSET Records) /\ Apart(t, memory.queued)
    <3>1. l \in SUBSET Records /\ r \in SUBSET Records /\ l \subseteq memory.queued /\ r \subseteq memory.queued
      BY <1>2
    <3> QED BY <1>2, <2>1, <2>3, <3>1, SplitApart
  <2> HIDE DEF t
  <2>5. /\ loop' \in Loops /\ loop'.at = "upload" /\ loop'.sweep = {} /\ loop'.ack = {}
        /\ loop'.dead = {} /\ loop'.batches = t
    BY <1>2, <2>2, <2>4 DEF Loops
  <2>6. LoopInv'
    BY <1>2, <1>3, <2>4, <2>5 DEF LoopInv
  <2> QED BY <1>3, <1>4, <2>6 DEF SpoolInv
<1>6. CASE ~ (Cardinality(batch) > 1)
  <2>1. loop' = [loop EXCEPT !.at = "settle", !.batches = Tail(@), !.dead = batch]
    BY <1>1, <1>6
  <2>2. /\ loop' \in Loops /\ loop'.at = "settle" /\ loop'.sweep = {} /\ loop'.ack = {}
        /\ loop'.dead = batch /\ loop'.batches = Tail(loop.batches)
    BY <1>2, <2>1 DEF Loops
  <2>3. LoopInv'
    BY <1>2, <1>3, <2>2 DEF LoopInv, Known
  <2> QED BY <1>3, <1>4, <2>3 DEF SpoolInv
<1> QED BY <1>5, <1>6

\* UploadFails.
LEMMA UploadFailsStep ==
  ASSUME SpoolInv, UploadFails
  PROVE  SpoolInv' /\ PromiseStep
<1>1. /\ Uploads
      /\ \/ /\ \E some \in SUBSET Head(loop.batches) : received' = received \union some
            /\ loop' \in {loop, EndTick}
         \/ loop' = [EndTick EXCEPT !.paused = TRUE] /\ UNCHANGED received
      /\ UNCHANGED <<written, segments, snapshot, up, settings, memory, writer, history>>
  BY DEF UploadFails
<1>2. /\ up /\ loop.at = "upload"
      /\ Head(loop.batches) \in SUBSET Records /\ Head(loop.batches) \subseteq memory.queued
      /\ loop \in Loops /\ received \subseteq Records
  BY <1>1, UploadsFrom
<1>3. PICK some \in SUBSET Head(loop.batches) : received' = received \union some
  <2>1. CASE UNCHANGED received
    <3>1. received' = received \union {} /\ {} \in SUBSET Head(loop.batches)
      BY <2>1
    <3> QED BY <3>1
  <2> QED BY <1>1, <2>1
<1>4. received \subseteq received' /\ received' \subseteq Records
  BY <1>2, <1>3
<1>5. /\ StoreInv' /\ View' = View /\ View = memory /\ up' = up /\ memory' = memory
      /\ UNCHANGED <<segments, snapshot, writer, damaged, stray>>
  BY <1>1, <1>2, <1>4, QuietTick
<1>6. PromiseStep
  BY <1>2, <1>3, <1>5, Takes
<1>7. LoopInv'
  <2>1. CASE loop' = loop
    BY <1>4, <1>5, <2>1 DEF SpoolInv, LoopInv
  <2>2. CASE loop' = EndTick
    <3>1. loop' = [EndTick EXCEPT !.paused = loop.paused] /\ loop.paused \in BOOLEAN
      BY <1>2, <2>2 DEF EndTick, Loops
    <3> QED BY <1>2, <1>5, <3>1, EndLoop DEF SpoolInv
  <2>3. CASE loop' = [EndTick EXCEPT !.paused = TRUE]
    BY <1>2, <1>5, <2>3, EndLoop DEF SpoolInv
  <2> QED BY <1>1, <2>1, <2>2, <2>3
<1> QED BY <1>5, <1>6, <1>7 DEF SpoolInv

-----------------------------------------------------------------------------
(* The other steps, and the theorems.                                      *)

\* What an answer settled is appended, or the flush ends there.
LEMMA SettlesStep ==
  ASSUME SpoolInv, up, loop.at = "settle", UNCHANGED <<written, received, settings>>,
         NEW f, Fits(f), After(f).offset = memory.offset, Known(memory) \subseteq Known(After(f)),
         NEW due \in BOOLEAN,
         NEW settled \in Loops, settled.at = "settle", settled.sweep = {},
         settled.batches = loop.batches,
         settled.ack \subseteq loop.ack, settled.dead \subseteq loop.dead,
         memory.queued \ (loop.ack \union loop.dead)
           \subseteq After(f).queued \ (settled.ack \union settled.dead),
         Settles(f, After(f), due, settled)
  PROVE  SpoolInv' /\ PromiseStep
<1>1. StoreInv /\ LoopInv /\ f \in Sent(f)
  BY DEF SpoolInv, Sent
<1>2. CASE Appended(f, After(f), due) /\ loop' = settled
  <2>1. StoreInv' /\ PromiseStep /\ up' = up /\ memory' = After(f)
    BY <1>1, <1>2, AppendedAdvances
  <2>2. ~ damaged' => ~ damaged
    BY <1>1, <1>2, AppendedAdvances
  <2>3. /\ loop.ack \subseteq received /\ loop.ack \union loop.dead \subseteq Known(memory)
        /\ ~ damaged => memory.offset > 0
        /\ Apart(loop.batches, memory.queued \ (loop.ack \union loop.dead))
    BY <1>1 DEF LoopInv
  <2>4. Apart(loop'.batches, memory'.queued \ (loop'.ack \union loop'.dead))
    BY <1>2, <2>1, <2>3, ApartGrows
  <2>5. loop'.ack \union loop'.dead \subseteq Known(memory')
    BY <1>2, <2>1, <2>3
  <2>6. ~ damaged' => memory'.offset > 0
    BY <2>1, <2>2, <2>3
  <2>7. LoopInv'
    BY <1>2, <2>1, <2>3, <2>4, <2>5, <2>6 DEF LoopInv
  <2> QED BY <2>1, <2>7 DEF SpoolInv
<1>3. CASE AppendGoesWrong(f) /\ loop' = IF up' THEN EndTick ELSE AtStart
  <2>1. StoreInv' /\ PromiseStep
    BY <1>1, <1>3, WrongAdvances
  <2>2. LoopInv'
    <3>1. CASE up'
      <4>1. loop' = [EndTick EXCEPT !.paused = loop.paused] /\ loop.paused \in BOOLEAN
        BY <1>1, <1>3, <3>1 DEF EndTick, LoopInv, Loops
      <4> QED BY <1>1, <3>1, <4>1, EndLoop
    <3>2. CASE ~ up'
      BY <1>3, <3>2, RestartLoop
    <3> QED BY <3>1, <3>2
  <2> QED BY <2>1, <2>2 DEF SpoolInv
<1>4. CASE AppendedWithoutSnapshot(f, After(f)) /\ loop' = EndTick
  <2>1. StoreInv' /\ PromiseStep /\ up' = up
    BY <1>1, <1>4, AppendedAdvances
  <2>2. loop' = [EndTick EXCEPT !.paused = loop.paused] /\ loop.paused \in BOOLEAN
    BY <1>1, <1>4 DEF EndTick, LoopInv, Loops
  <2>3. LoopInv'
    BY <1>1, <2>1, <2>2, EndLoop
  <2> QED BY <2>1, <2>3 DEF SpoolInv
<1> QED BY <1>2, <1>3, <1>4 DEF Settles

\* Settle: an acknowledgement, or one dead letter.
LEMMA SettleStep ==
  ASSUME SpoolInv, Settle
  PROVE  SpoolInv' /\ PromiseStep
<1>1. /\ up /\ loop.at = "settle" /\ UNCHANGED <<written, received, settings>>
      /\ StoreInv /\ LoopInv /\ loop \in Loops /\ memory \in Knowledge
      /\ loop.ack \in SUBSET Records /\ loop.dead \in SUBSET Records /\ loop.sweep = {}
  BY DEF Settle, SpoolInv, LoopInv, Loops, StoreInv, StoreTypes
<1>2. CASE /\ loop.ack # {}
           /\ Settles(Frame("ack", loop.ack, 0), WithAck(memory, loop.ack), TRUE,
                      [loop EXCEPT !.ack = {}])
  <2> DEFINE f == Frame("ack", loop.ack, 0)
             settled == [loop EXCEPT !.ack = {}]
  <2>1. Fits(f) /\ After(f) = WithAck(memory, loop.ack)
    BY <1>1, SettledFits
  <2>2. /\ settled \in Loops /\ settled.at = "settle" /\ settled.sweep = {}
        /\ settled.batches = loop.batches /\ settled.ack = {} /\ settled.dead = loop.dead
    BY <1>1 DEF Loops
  <2> HIDE DEF f, settled
  <2>3. /\ After(f).offset = memory.offset /\ Known(memory) \subseteq Known(After(f))
        /\ memory.queued \ (loop.ack \union loop.dead)
             \subseteq After(f).queued \ (settled.ack \union settled.dead)
    BY <1>1, <2>1, <2>2 DEF WithAck, Known, Knowledge
  <2>4. Settles(f, After(f), TRUE, settled)
    BY <1>2, <2>1 DEF f, settled
  <2> QED BY <1>1, <2>1, <2>2, <2>3, <2>4, SettlesStep
<1>3. CASE /\ loop.ack = {} /\ loop.dead # {}
           /\ Settles(Frame("dead", {Min(loop.dead)}, 0), WithDead(memory, {Min(loop.dead)}), FALSE,
                      [loop EXCEPT !.dead = @ \ {Min(loop.dead)}])
  <2> DEFINE e == Min(loop.dead)
             f == Frame("dead", {e}, 0)
             settled == [loop EXCEPT !.dead = @ \ {e}]
  <2>1. e \in loop.dead
    <3>1. loop.dead \in SUBSET Nat
      BY <1>1, RecordsFinite
    <3> QED BY <1>3, <3>1, MinIs
  <2> HIDE DEF e
  <2>2. {e} \in SUBSET Records /\ {e} \subseteq loop.dead
    BY <1>1, <2>1
  <2>3. Fits(f) /\ After(f) = WithDead(memory, {e})
    BY <1>1, <2>2, SettledFits
  <2>4. /\ settled \in Loops /\ settled.at = "settle" /\ settled.sweep = {}
        /\ settled.batches = loop.batches /\ settled.ack = loop.ack /\ settled.dead = loop.dead \ {e}
    BY <1>1 DEF Loops
  <2> HIDE DEF f, settled
  <2>5. /\ After(f).offset = memory.offset /\ Known(memory) \subseteq Known(After(f))
        /\ memory.queued \ (loop.ack \union loop.dead)
             \subseteq After(f).queued \ (settled.ack \union settled.dead)
    BY <1>1, <2>2, <2>3, <2>4 DEF WithDead, Known, Knowledge
  <2>6. Settles(f, After(f), FALSE, settled)
    BY <1>3, <2>3 DEF e, f, settled
  <2> QED BY <1>1, <2>3, <2>4, <2>5, <2>6, SettlesStep
<1> QED BY <1>2, <1>3 DEF Settle

\* NextBatch.
LEMMA NextBatchStep ==
  ASSUME SpoolInv, NextBatch
  PROVE  SpoolInv' /\ PromiseStep
<1>1. /\ up /\ loop.at = "settle" /\ loop.ack = {} /\ loop.dead = {} /\ UNCHANGED received /\ LoopInv
      /\ loop' = [loop EXCEPT !.at = IF loop.batches # <<>> THEN "upload" ELSE "compact"]
      /\ UNCHANGED <<written, segments, snapshot, up, settings, memory, writer, history>>
  BY DEF NextBatch, SpoolInv
<1>2. received \subseteq received' /\ received' \subseteq Records
  BY <1>1 DEF SpoolInv, StoreInv, StoreTypes
<1>3. /\ StoreInv' /\ View' = View /\ up' = up /\ memory' = memory /\ loop \in Loops
      /\ UNCHANGED <<segments, snapshot, writer, damaged, stray>>
  BY <1>1, <1>2, QuietTick
<1>4. /\ loop' \in Loops /\ loop'.at \in {"upload", "compact"} /\ loop'.sweep = loop.sweep
      /\ loop'.ack = loop.ack /\ loop'.dead = loop.dead /\ loop'.batches = loop.batches
  BY <1>1, <1>3 DEF Loops
<1>5. loop'.ack = {} /\ loop'.dead = {} /\ loop'.sweep = {} /\ loop'.batches = loop.batches
  BY <1>1, <1>4 DEF LoopInv
<1>6. Apart(loop'.batches, memory'.queued \ (loop'.ack \union loop'.dead))
  BY <1>1, <1>3, <1>5 DEF LoopInv
<1>7. ~ damaged' => memory'.offset > 0
  BY <1>1, <1>3 DEF LoopInv
<1>8. LoopInv'
  BY <1>1, <1>3, <1>4, <1>5, <1>6, <1>7 DEF LoopInv
<1> QED BY <1>1, <1>3, <1>8, SameView DEF SpoolInv

-----------------------------------------------------------------------------

\* Compact.
LEMMA CompactStep ==
  ASSUME SpoolInv, Compact
  PROVE  SpoolInv' /\ PromiseStep
<1>1. /\ up /\ loop.at = "compact" /\ snapshot' = SnapshotOf(memory, writer.next - 1)
      /\ loop' = [loop EXCEPT !.at = "sweep",
                     !.sweep = DOMAIN segments \ ({writer.id} \union writer.isolated)]
      /\ UNCHANGED <<received, segments, up, memory, writer, damaged, stray>>
      /\ LoopInv /\ loop \in Loops
  BY DEF Compact, history, SpoolInv, LoopInv
<1>2. StoreInv'
  BY CompactKeeps
<1>3. View' = View
  BY <1>1 DEF View
<1>4. DOMAIN segments \ ({writer.id} \union writer.isolated) \in SUBSET Nat
  BY DEF SpoolInv, StoreInv, StoreTypes, SegmentsTyped
<1>5. /\ loop' \in Loops /\ loop'.at = "sweep" /\ loop'.ack = loop.ack /\ loop'.dead = loop.dead
      /\ loop'.batches = loop.batches /\ loop'.sweep \subseteq DOMAIN segments \ {writer.id}
  BY <1>1, <1>4 DEF Loops
<1>6. snapshot' = SnapshotOf(memory', writer'.next - 1)
  BY <1>1 DEF SnapshotOf
<1>7. LoopInv'
  BY <1>1, <1>5, <1>6 DEF LoopInv, SnapshotOf
<1> QED BY <1>1, <1>2, <1>3, <1>7, SameView DEF SpoolInv

\* Sweep.
LEMMA SweepStep ==
  ASSUME SpoolInv, Sweep
  PROVE  SpoolInv' /\ PromiseStep
<1> DEFINE id == Min(loop.sweep)
<1>1. /\ up /\ loop.at = "sweep" /\ loop' = [loop EXCEPT !.sweep = @ \ {id}]
      /\ UNCHANGED <<received, snapshot, up, memory, writer, damaged, stray>>
      /\ LoopInv /\ loop \in Loops
  BY DEF Sweep, history, SpoolInv, LoopInv
<1>2. StoreInv' /\ DOMAIN segments \ {id} \subseteq DOMAIN segments'
  BY SweepKeeps
<1> HIDE DEF id
<1>3. View' = View
  BY <1>1 DEF View
<1>4. /\ loop' \in Loops /\ loop'.at = "sweep" /\ loop'.ack = loop.ack /\ loop'.dead = loop.dead
      /\ loop'.batches = loop.batches /\ loop'.sweep = loop.sweep \ {id}
  BY <1>1 DEF Loops
<1>5. loop'.sweep \subseteq DOMAIN segments' \ {writer'.id}
  BY <1>1, <1>2, <1>4 DEF LoopInv
<1>6. Apart(loop'.batches, memory'.queued \ (loop'.ack \union loop'.dead))
  BY <1>1, <1>4 DEF LoopInv
<1>7. /\ ~ damaged' => memory'.offset > 0
      /\ loop'.ack \subseteq received' /\ loop'.ack \union loop'.dead \subseteq Known(memory')
      /\ loop'.ack = {} /\ loop'.dead = {}
  BY <1>1, <1>4 DEF LoopInv
<1>8. snapshot' = SnapshotOf(memory', writer'.next - 1)
  BY <1>1 DEF LoopInv, SnapshotOf
<1>9. LoopInv'
  BY <1>1, <1>4, <1>5, <1>6, <1>7, <1>8 DEF LoopInv
<1> QED BY <1>1, <1>2, <1>3, <1>9, SameView DEF SpoolInv

\* Swept.
LEMMA SweptStep ==
  ASSUME SpoolInv, Swept
  PROVE  SpoolInv' /\ PromiseStep
<1>1. /\ up /\ loop.at = "sweep" /\ loop.sweep = {} /\ loop' = EndTick /\ UNCHANGED received /\ LoopInv
      /\ UNCHANGED <<written, segments, snapshot, up, settings, memory, writer, history>>
  BY DEF Swept, SpoolInv
<1>2. received \subseteq received' /\ received' \subseteq Records
  BY <1>1 DEF SpoolInv, StoreInv, StoreTypes
<1>3. StoreInv' /\ View' = View /\ up' = up /\ loop \in Loops /\ UNCHANGED stray
  BY <1>1, <1>2, QuietTick
<1>4. loop' = [EndTick EXCEPT !.paused = loop.paused] /\ loop.paused \in BOOLEAN
  BY <1>1, <1>3 DEF EndTick, Loops
<1>5. up /\ up' /\ LoopInv /\ (loop.at # "sweep" \/ loop.sweep = {})
  BY <1>1, <1>3
<1>6. LoopInv'
  BY <1>4, <1>5, EndLoop
<1> QED BY <1>1, <1>3, <1>6, SameView DEF SpoolInv

\* CompactionFails.
LEMMA CompactionFailsStep ==
  ASSUME SpoolInv, CompactionFails
  PROVE  SpoolInv' /\ PromiseStep
<1>1. /\ up /\ loop' = [EndTick EXCEPT !.sweep = {}] /\ UNCHANGED received /\ LoopInv
      /\ UNCHANGED <<written, segments, snapshot, up, settings, memory, writer, history>>
  BY DEF CompactionFails, SpoolInv
<1>2. received \subseteq received' /\ received' \subseteq Records
  BY <1>1 DEF SpoolInv, StoreInv, StoreTypes
<1>3. StoreInv' /\ View' = View /\ up' = up /\ loop \in Loops /\ UNCHANGED stray
  BY <1>1, <1>2, QuietTick
<1>4. <<>> \in Seq(SUBSET Records) /\ Len(<<>>) = 0
  OBVIOUS
<1>5. /\ loop' \in Loops /\ loop'.at = "collect" /\ loop'.batches = <<>> /\ loop'.ack = {}
      /\ loop'.dead = {} /\ loop'.sweep = {}
  BY <1>1, <1>3, <1>4 DEF EndTick, Loops
<1>6. LoopInv'
  BY <1>1, <1>3, <1>4, <1>5 DEF LoopInv, Apart
<1> QED BY <1>1, <1>3, <1>6, SameView DEF SpoolInv

\* Crash.
LEMMA CrashStep ==
  ASSUME SpoolInv, Crash
  PROVE  SpoolInv' /\ PromiseStep
<1>1. /\ up /\ ~ up' /\ loop' = AtStart
      /\ UNCHANGED <<received, segments, snapshot, damaged, stray>>
  BY DEF Crash, history
<1>2. StoreInv /\ StoreInv' /\ (~ damaged => Reaches(segments, snapshot, memory.offset))
  BY CrashKeeps DEF SpoolInv
<1>3. ReadFrames(segments') = ReadFrames(segments)
  BY <1>1
<1>4. ~ damaged' => ~ damaged /\ Reaches(segments', snapshot', memory.offset)
  BY <1>1, <1>2
<1>5. PromiseStep
  BY <1>1, <1>2, <1>3, <1>4, DownAdvances
<1> QED BY <1>1, <1>2, <1>5, RestartLoop DEF SpoolInv

\* Open.
LEMMA OpenStep ==
  ASSUME SpoolInv, Open
  PROVE  SpoolInv' /\ PromiseStep
<1>1. StoreInv' /\ UNCHANGED <<received, stray>> /\ View' = View
  BY OpenKeeps DEF SpoolInv
<1>2. loop' = AtStart
  BY DEF Open
<1> QED BY <1>1, <1>2, RestartLoop, SameView DEF SpoolInv

-----------------------------------------------------------------------------

\* An empty spool.
LEMMA InitKeeps ==
  SpoolInit => SpoolInv
<1> SUFFICES ASSUME SpoolInit PROVE SpoolInv
  OBVIOUS
<1>1. /\ written = 0 /\ received = {} /\ segments = [id \in {1} |-> <<>>]
      /\ snapshot = [last |-> 0, offset |-> 0, acked |-> {}, dead |-> {}]
      /\ up = TRUE /\ settings \in Settings /\ memory = Nothing
      /\ writer = [id |-> 1, frames |-> 0, next |-> 1, isolated |-> {}]
      /\ loop = AtStart /\ behind = {} /\ damaged = FALSE /\ stray = {}
  BY DEF SpoolInit
<1>2. /\ DOMAIN segments = {1} /\ segments[1] = <<>> /\ segments \in [{1} -> Seq(Frames)]
  BY <1>1
<1>3. Readable(<<>>) = <<>> /\ Len(<<>>) = 0
  BY DEF Readable, Unreadable
<1>4. IsFiniteSet({1}) /\ IsFiniteSet({})
  BY FS_Singleton, FS_EmptySet
<1>5. SegmentsTyped(segments)
  BY <1>2, <1>4 DEF SegmentsTyped
<1>6. ReadFrames(segments) = {} /\ \A kinds : InFrames(segments, kinds) = {}
  <2>1. ReadFrames(segments) = {}
    BY <1>2, <1>3 DEF ReadFrames
  <2> QED BY <2>1 DEF InFrames
<1>7. /\ snapshot \in Snapshots /\ memory \in Knowledge /\ writer \in Writers
      /\ snapshot.offset = 0 /\ snapshot.last = 0 /\ snapshot.acked = {} /\ snapshot.dead = {}
      /\ memory.offset = 0 /\ memory.queued = {} /\ memory.acked = {} /\ memory.dead = {}
      /\ writer.id = 1 /\ writer.next = 1 /\ writer.isolated = {}
  BY <1>1 DEF Snapshots, Knowledge, Nothing, Writers
<1>8. StoreTypes
  <2>1. /\ written \in Records \union {0} /\ received \subseteq Records
        /\ behind \subseteq Records /\ stray \subseteq Records
    BY <1>1
  <2>2. snapshot.offset <= written /\ writer.next >= 1 /\ writer.id \in DOMAIN segments
    BY <1>1, <1>2, <1>7
  <2>3. IsFiniteSet(writer.isolated)
    BY <1>4, <1>7
  <2>4. up \in BOOLEAN /\ damaged \in BOOLEAN /\ settings \in Settings
    BY <1>1
  <2> QED BY <1>5, <1>6, <1>7, <2>1, <2>2, <2>3, <2>4 DEF StoreTypes
<1>9. OnDisk = {} /\ Known(memory) = {} /\ View = memory
  BY <1>1, <1>6, <1>7 DEF OnDisk, Known, View
<1>10. Delivered /\ Covered /\ SnapshotBehind
  BY <1>1, <1>6, <1>7, <1>9 DEF Delivered, Covered, SnapshotBehind
<1>11. Undamaged
  BY <1>1, <1>2, <1>3, <1>6, <1>7, <1>9 DEF Undamaged, TornAtEnd
<1>12. UpToDate
  <2>1. Reaches(segments, snapshot, memory.offset)
    BY <1>2, <1>3, <1>7 DEF Reaches, Newer
  <2> QED BY <1>1, <1>2, <1>6, <1>7, <1>9, <2>1 DEF UpToDate, Highest
<1>13. LoopInv
  <2>1. <<>> \in Seq(SUBSET Records)
    OBVIOUS
  <2>2. AtStart \in Loops
    BY <2>1 DEF AtStart, Loops
  <2> QED BY <1>1, <1>3, <2>2 DEF LoopInv, AtStart, Apart
<1> QED BY <1>8, <1>10, <1>11, <1>12, <1>13 DEF SpoolInv, StoreInv

\* A step that leaves all of this alone.
LEMMA StillKeeps ==
  ASSUME SpoolInv,
         UNCHANGED <<written, received, segments, snapshot, up, settings, memory, writer, loop,
                     behind, damaged, stray>>
  PROVE  SpoolInv' /\ PromiseStep
<1>1. View' = View
  BY DEF View
<1>2. StoreInv'
  <2>1. written \in Records \union {0} /\ received \subseteq Records
    BY DEF SpoolInv, StoreInv, StoreTypes
  <2>2. /\ written' \in Records \union {0} /\ written <= written'
        /\ received \subseteq received' /\ received' \subseteq Records
    BY <2>1 DEF Records
  <2> QED BY <2>2, QuietKeeps DEF SpoolInv
<1>3. LoopInv'
  BY DEF SpoolInv, LoopInv, Apart, Known, SnapshotOf
<1> QED BY <1>1, <1>2, <1>3, SameView DEF SpoolInv

\* Every step keeps the invariant and the promise.
LEMMA StepKeeps ==
  SpoolInv /\ [SpoolNext]_spoolVars => SpoolInv' /\ PromiseStep
<1> SUFFICES ASSUME SpoolInv, [SpoolNext]_spoolVars PROVE SpoolInv' /\ PromiseStep
  OBVIOUS
<1>1. CASE UNCHANGED spoolVars
  <2>1. UNCHANGED <<written, received, segments, snapshot, up, settings, memory, writer, loop,
                    behind, damaged, stray>>
    BY <1>1 DEF spoolVars, history
  <2> QED BY <2>1, StillKeeps
<1>2. CASE Grow
  BY <1>2, GrowStep
<1>3. CASE Tick
  BY <1>3, CollectStep, CollectNothingStep, FlushStep, UploadStep, UploadRefusedStep,
     UploadFailsStep, SettleStep, NextBatchStep, CompactStep, SweepStep, SweptStep,
     CompactionFailsStep DEF Tick
<1>4. CASE Crash
  BY <1>4, CrashStep
<1>5. CASE Open
  BY <1>5, OpenStep
<1>6. CASE OpenFails
  <2>1. UNCHANGED <<written, received, segments, snapshot, up, settings, memory, writer, loop,
                    behind, damaged, stray>>
    BY <1>6 DEF OpenFails, history
  <2> QED BY <2>1, StillKeeps
<1> QED BY <1>1, <1>2, <1>3, <1>4, <1>5, <1>6 DEF SpoolNext

\* The invariant says at least NothingIsLost.
LEMMA InvMeansNothingIsLost ==
  SpoolInv => NothingIsLost
<1> SUFFICES ASSUME SpoolInv PROVE NothingIsLost
  OBVIOUS
<1>1. SpoolTypeOK
  BY DEF SpoolInv, StoreInv, StoreTypes, SegmentsTyped, Snapshots, LoopInv, Loops, SpoolTypeOK
<1> QED BY <1>1, ViewIs DEF SpoolInv, NothingIsLost, Known

\* What the disk holds, what the process knows and where the tick is fit
\* together in every state: the invariant the next two theorems rest on.
THEOREM SpoolInvariant == SpoolSpec => []SpoolInv
<1>1. SpoolInv /\ [SpoolNext]_spoolVars => SpoolInv'
  BY StepKeeps
<1> QED BY InitKeeps, <1>1, PTL DEF SpoolSpec

\* A record the checkpoint has passed waits, was acknowledged or was given up,
\* and what counts as acknowledged is at the server, whatever crashed, was torn
\* or was compacted (append_txn, compact, frames_to_keep, replay_all); excepted
\* are records in frames no replay reads, behind a torn one or too long.
THEOREM SpoolLosesNothing == SpoolSpec => []NothingIsLost
BY SpoolInvariant, InvMeansNothingIsLost, PTL

\* The spool starts as the empty outbox, and until a frame is written that no
\* replay reads each of its steps, restarts and compaction included, is a step
\* of that outbox or none (append_txn, ack_events, replay_all, compact).
THEOREM SpoolIsAnOutbox == SpoolSpec => Promise!Init /\ OutboxUntilDamaged
<1>0. SpoolInit => Promise!Init
  BY DEF SpoolInit, Promise!Init, View, Nothing
<1>1. SpoolInv /\ [SpoolNext]_spoolVars => [damaged' \/ Promise!Next]_(Promise!outbox)
  BY StepKeeps DEF PromiseStep
<1> QED BY <1>0, <1>1, SpoolInvariant, PTL DEF SpoolSpec, OutboxUntilDamaged

-----------------------------------------------------------------------------
(* Reading a source.                                                       *)

\* The runner whose token is in the row, once it has loaded, remembers the
\* checkpoint of the row.
HolderIsCurrent ==
    \A r \in Runners :
        run[r].pc # "idle" =>
            /\ run[r].token \in Tokens
            /\ run[r].pc # "leased" /\ run[r].token = token
               => /\ run[r].cursor = cursor
                  /\ run[r].decoder = decoder
                  /\ run[r].rebuilding = rebuilding

\* A read ends within the source and goes on from where it started; only a missing
\* file makes it end at the start.
ReadInside ==
    /\ stays => present
    /\ \A r \in Runners :
          run[r].pc = "read" => /\ run[r].upto <= Len(days)
                                /\ \/ run[r].cursor <= run[r].upto
                                   \/ ~stays /\ run[r].upto = 0

LeaseInv ==
    /\ TypeOK
    /\ HolderIsCurrent
    /\ ReadInside
    /\ ReadOnce
    /\ RebuildKeepsAll

USE LeaseAssumption DEF Day

-----------------------------------------------------------------------------

LEMMA IdleTyped == Idle \in Attempts /\ Idle.pc = "idle"
BY DEF Idle, Attempts

\* A runner's record changes for that runner only.
LEMMA OneRunnerTyped ==
    ASSUME TypeOK, NEW r \in Runners, NEW attempt \in Attempts,
           RunnerBecomes(r, attempt)
    PROVE  /\ run' \in [Runners -> Attempts]
           /\ run'[r] = attempt
           /\ \A q \in Runners \ {r} : run'[q] = run[q]
BY DEF TypeOK, RunnerBecomes

\* The batch of an attempt is a finite set of records, and so are its parts.
LEMMA BatchFinite ==
    ASSUME TypeOK, NEW r \in Runners
    PROVE  /\ IsFiniteSet(Batch(r)) /\ Cardinality(Batch(r)) \in Nat
           /\ Admitted(r) \subseteq Batch(r)
           /\ IsFiniteSet(Admitted(r)) /\ Cardinality(Admitted(r)) \in Nat
           /\ IsFiniteSet(Batch(r) \ Admitted(r))
           /\ Cardinality(Batch(r) \ Admitted(r)) \in Nat
<1>1. run[r].cursor + 1 \in Int /\ run[r].upto \in Int
  BY DEF TypeOK, Attempts
<1>2. IsFiniteSet(Batch(r))
  BY <1>1, FS_Interval DEF Batch
<1>3. Admitted(r) \subseteq Batch(r) /\ Batch(r) \ Admitted(r) \subseteq Batch(r)
  BY DEF Admitted
<1> QED
  BY <1>2, <1>3, FS_Subset, FS_CardinalityType

\* What is left of the batch and what is admitted of it add up to it.
LEMMA BatchCounts ==
    ASSUME TypeOK, NEW r \in Runners, run[r].cursor <= run[r].upto
    PROVE  /\ Cardinality(Batch(r)) = run[r].upto - run[r].cursor
           /\ Cardinality(Admitted(r)) + Cardinality(Batch(r) \ Admitted(r))
              = run[r].upto - run[r].cursor
<1> DEFINE a == run[r].cursor + 1
           b == run[r].upto
<1>1. run[r].cursor \in Nat /\ a \in Int /\ b \in Int
  BY DEF TypeOK, Attempts
<1>2. Cardinality(a .. b) = IF a > b THEN 0 ELSE b - a + 1
  <2> HIDE DEF a, b
  <2> QED BY <1>1, FS_Interval
<1>3. Cardinality(Batch(r)) = run[r].upto - run[r].cursor
  BY <1>1, <1>2 DEF Batch
<1>4. Cardinality(Batch(r) \ Admitted(r))
      = Cardinality(Batch(r)) - Cardinality(Batch(r) \cap Admitted(r))
  BY BatchFinite, FS_Difference
<1>5. Batch(r) \cap Admitted(r) = Admitted(r)
  BY BatchFinite
<1>6. Cardinality(Admitted(r)) \in Nat /\ Cardinality(Batch(r)) \in Nat
  BY BatchFinite
<1> QED
  BY <1>1, <1>3, <1>4, <1>5, <1>6

-----------------------------------------------------------------------------

LEMMA InitEstablishes == Init => LeaseInv
<1> SUFFICES ASSUME Init PROVE LeaseInv
  OBVIOUS
<1>1. run \in [Runners -> Attempts] /\ \A r \in Runners : run[r].pc = "idle"
  BY IdleTyped DEF Init
<1>2. days \in Seq(Day) /\ Len(days) = 0
  BY DEF Init
<1>3. TypeOK
  <2>1. token \in Tokens \cup {NoToken} /\ today \in Day /\ events \subseteq 1 .. Len(days)
    BY DEF Init
  <2> QED
    BY <1>1, <1>2, <2>1 DEF Init, TypeOK
<1>4. ReadOnce /\ RebuildKeepsAll
  BY <1>2, FS_EmptySet DEF Init, ReadOnce, RebuildKeepsAll
<1> QED
  BY <1>1, <1>3, <1>4 DEF Init, LeaseInv, HolderIsCurrent, ReadInside

\* Steps that leave the checkpoint, the records and the file alone keep whatever
\* is said of the checkpoint.
LEMMA CheckpointKept ==
    ASSUME LeaseInv, UNCHANGED <<checkpoint, days, stays>>
    PROVE  ReadOnce' /\ RebuildKeepsAll'
BY DEF LeaseInv, ReadOnce, RebuildKeepsAll, checkpoint

LEMMA WriteRecordKeeps == ASSUME LeaseInv, WriteRecord PROVE LeaseInv'
<1>1. days' \in Seq(Day) /\ Len(days') = Len(days) + 1 /\ Len(days) \in Nat
  BY AppendProperties DEF LeaseInv, TypeOK, WriteRecord
<1>2. TypeOK'
  BY <1>1 DEF LeaseInv, TypeOK, WriteRecord, lease, checkpoint
<1>3. HolderIsCurrent'
  BY DEF LeaseInv, HolderIsCurrent, WriteRecord, lease, checkpoint
<1>4. ReadInside'
  BY <1>1 DEF LeaseInv, ReadInside, WriteRecord, TypeOK, Attempts
<1>5. ReadOnce' /\ RebuildKeepsAll'
  BY <1>1 DEF LeaseInv, ReadOnce, RebuildKeepsAll, WriteRecord, checkpoint, TypeOK
<1> QED
  BY <1>2, <1>3, <1>4, <1>5 DEF LeaseInv

LEMMA WorldKeeps ==
    ASSUME LeaseInv, FileComesAndGoes \/ Midnight \/ LeaseLapses \/ SwitchHarness
    PROVE  LeaseInv'
<1>1. UNCHANGED <<days, checkpoint, run, token>> /\ stays' = stays
      /\ (stays => present' = present)
  BY DEF FileComesAndGoes, Midnight, LeaseLapses, SwitchHarness, world, lease
<1>2. TypeOK'
  <2> USE DEF LeaseInv, TypeOK, world, lease, checkpoint
  <2>1. CASE FileComesAndGoes
    BY <2>1 DEF FileComesAndGoes
  <2>2. CASE Midnight
    BY <2>2 DEF Midnight
  <2>3. CASE LeaseLapses
    BY <2>3 DEF LeaseLapses
  <2>4. CASE SwitchHarness
    BY <2>4 DEF SwitchHarness
  <2> QED
    BY <2>1, <2>2, <2>3, <2>4
<1>3. HolderIsCurrent' /\ ReadInside'
  BY <1>1 DEF LeaseInv, HolderIsCurrent, ReadInside, checkpoint
<1> QED
  BY <1>1, <1>2, <1>3, CheckpointKept DEF LeaseInv

-----------------------------------------------------------------------------
(* The attempt of a runner up to its commit: the row keeps its checkpoint. *)

\* A runner that only learns something, or gives up, and remembers the checkpoint
\* of the row if its token is there, keeps the invariant.
LEMMA RunnerStepKeeps ==
    ASSUME LeaseInv, NEW r \in Runners, NEW attempt \in Attempts,
           RunnerBecomes(r, attempt),
           UNCHANGED <<world, enabled, lease, checkpoint>>,
           \/ attempt.pc = "idle"
           \/ /\ attempt.token \in Tokens
              /\ attempt.pc # "leased" /\ attempt.token = token
                 => /\ attempt.cursor = cursor
                    /\ attempt.decoder = decoder
                    /\ attempt.rebuilding = rebuilding,
           attempt.pc = "read" => /\ attempt.upto <= Len(days)
                                  /\ \/ attempt.cursor <= attempt.upto
                                     \/ ~stays /\ attempt.upto = 0
    PROVE  LeaseInv'
<1>1. /\ run' \in [Runners -> Attempts]
      /\ run'[r] = attempt
      /\ \A q \in Runners \ {r} : run'[q] = run[q]
  BY OneRunnerTyped DEF LeaseInv
<1>2. TypeOK'
  BY <1>1 DEF LeaseInv, TypeOK, world, lease, checkpoint
<1>3. HolderIsCurrent'
  BY <1>1 DEF LeaseInv, HolderIsCurrent, lease, checkpoint
<1>4. ReadInside'
  BY <1>1 DEF LeaseInv, ReadInside, world
<1> QED
  BY <1>2, <1>3, <1>4, CheckpointKept DEF LeaseInv, world

LEMMA LeaseSourceKeeps ==
    ASSUME LeaseInv, NEW r \in Runners, NEW t \in Tokens, LeaseSource(r, t)
    PROVE  LeaseInv'
<1> DEFINE attempt == [pc |-> "leased", token |-> t, seq |-> seq, cursor |-> 0,
                       decoder |-> 0, rebuilding |-> FALSE, upto |-> 0,
                       more |-> FALSE, day |-> 1]
<1>1. attempt \in Attempts /\ RunnerBecomes(r, attempt)
  BY DEF LeaseSource, Attempts, LeaseInv, TypeOK
<1>2. /\ run' \in [Runners -> Attempts]
      /\ run'[r] = attempt
      /\ \A q \in Runners \ {r} : run'[q] = run[q]
  <2> HIDE DEF attempt
  <2> QED BY <1>1, OneRunnerTyped DEF LeaseInv
<1>3. TypeOK'
  BY <1>2 DEF LeaseInv, TypeOK, LeaseSource, world, checkpoint
<1>4. run'[r].pc = "leased" /\ run'[r].token = t
  BY <1>2
<1>5. HolderIsCurrent'
  BY <1>2, <1>4 DEF LeaseInv, HolderIsCurrent, LeaseSource, Fresh, checkpoint
<1>6. ReadInside'
  BY <1>2, <1>4 DEF LeaseInv, ReadInside, LeaseSource, world
<1> QED
  BY <1>3, <1>5, <1>6, CheckpointKept DEF LeaseInv, LeaseSource, world

LEMMA LoadCheckpointKeeps ==
    ASSUME LeaseInv, NEW r \in Runners, LoadCheckpoint(r)
    PROVE  LeaseInv'
<1> DEFINE attempt == [pc |-> "loaded", token |-> run[r].token, seq |-> run[r].seq,
                       cursor |-> cursor, decoder |-> decoder,
                       rebuilding |-> rebuilding, upto |-> 0, more |-> FALSE,
                       day |-> 1]
<1>1. /\ attempt \in Attempts /\ RunnerBecomes(r, attempt)
      /\ run[r].token \in Tokens
      /\ UNCHANGED <<world, enabled, lease, checkpoint>>
  BY DEF LoadCheckpoint, Attempts, LeaseInv, TypeOK, HolderIsCurrent
<1> QED
  BY <1>1, RunnerStepKeeps

LEMMA ReadSourceKeeps ==
    ASSUME LeaseInv, NEW r \in Runners, NEW n \in 0 .. MaxLen,
           ReadSource(r, n) \/ (ReadMissingFile(r) /\ n = 0)
    PROVE  LeaseInv'
<1> DEFINE attempt(more) ==
        [pc |-> "read", token |-> run[r].token, seq |-> run[r].seq,
         cursor |-> run[r].cursor, decoder |-> run[r].decoder,
         rebuilding |-> run[r].rebuilding, upto |-> n, more |-> more,
         day |-> today]
<1>1. PICK more \in BOOLEAN : ReadUpTo(r, n, more)
  <2>1. CASE ReadSource(r, n)
    <3>1. ReadUpTo(r, n, n < Len(days)) /\ (n < Len(days)) \in BOOLEAN
      BY <2>1 DEF ReadSource
    <3> QED
      BY <3>1
  <2>2. CASE ReadMissingFile(r) /\ n = 0
    BY <2>2 DEF ReadMissingFile
  <2> QED
    BY <2>1, <2>2
<1>2. /\ attempt(more) \in Attempts /\ RunnerBecomes(r, attempt(more))
      /\ UNCHANGED <<world, enabled, lease, checkpoint>>
  BY <1>1 DEF ReadUpTo, Attempts, LeaseInv, TypeOK
<1>3. /\ run[r].pc = "loaded" /\ n <= Len(days)
      /\ run[r].cursor <= n \/ (~stays /\ n = 0)
  <2>1. run[r].cursor \in Nat /\ Len(days) \in Nat
    BY DEF LeaseInv, TypeOK, Attempts
  <2>2. CASE ReadSource(r, n)
    BY <2>1, <2>2 DEF ReadSource
  <2>3. CASE ReadMissingFile(r) /\ n = 0
    BY <2>1, <2>3 DEF ReadMissingFile, LeaseInv, ReadInside
  <2> QED
    BY <2>2, <2>3
<1>4. /\ run[r].token \in Tokens
      /\ run[r].token = token => /\ run[r].cursor = cursor
                                 /\ run[r].decoder = decoder
                                 /\ run[r].rebuilding = rebuilding
  BY <1>3 DEF LeaseInv, HolderIsCurrent
<1> QED
  BY <1>2, <1>3, <1>4, RunnerStepKeeps

LEMMA ReadFailsKeeps ==
    ASSUME LeaseInv, NEW r \in Runners, ReadFails(r)
    PROVE  LeaseInv'
<1> DEFINE attempt ==
        [pc |-> "failed", token |-> run[r].token, seq |-> run[r].seq,
         cursor |-> run[r].cursor, decoder |-> run[r].decoder,
         rebuilding |-> run[r].rebuilding, upto |-> run[r].cursor,
         more |-> FALSE, day |-> 1]
<1>1. /\ attempt \in Attempts /\ RunnerBecomes(r, attempt)
      /\ UNCHANGED <<world, enabled, lease, checkpoint>>
  BY DEF ReadFails, Attempts, LeaseInv, TypeOK
<1>2. /\ run[r].token \in Tokens
      /\ run[r].token = token => /\ run[r].cursor = cursor
                                 /\ run[r].decoder = decoder
                                 /\ run[r].rebuilding = rebuilding
  BY DEF ReadFails, LeaseInv, HolderIsCurrent
<1> QED
  BY <1>1, <1>2, RunnerStepKeeps

LEMMA GivingUpKeeps ==
    ASSUME LeaseInv, NEW r \in Runners,
           CommitRefused(r) \/ CommitConflicts(r) \/ RunnerDies(r)
    PROVE  LeaseInv'
BY IdleTyped, RunnerStepKeeps DEF CommitRefused, CommitConflicts, RunnerDies

-----------------------------------------------------------------------------
(* The commit, and the theorems.                                           *)

\* A commit by the runner whose token is in the row: it consumed the records after
\* the cursor, once.
LEMMA CommitSourceKeeps ==
    ASSUME LeaseInv, NEW r \in Runners, CommitSource(r)
    PROVE  LeaseInv'
<1>1. /\ run[r].token \in Tokens /\ run[r].cursor = cursor
      /\ run[r].decoder = decoder /\ run[r].rebuilding = rebuilding
  BY DEF LeaseInv, HolderIsCurrent, CommitSource, CanCommit
<1>2. /\ run' \in [Runners -> Attempts] /\ run'[r].pc = "idle"
      /\ \A q \in Runners \ {r} : run'[q] = run[q]
  BY IdleTyped, OneRunnerTyped DEF LeaseInv, CommitSource
<1>3. /\ run[r].upto \in Nat /\ cursor \in Nat /\ ignored \in Nat /\ Len(days) \in Nat
      /\ run[r].rebuilding \in BOOLEAN /\ run[r].more \in BOOLEAN
  BY DEF LeaseInv, TypeOK, Attempts
<1>4. TypeOK'
  <2>1. Cardinality(Batch(r)) \in Nat /\ Cardinality(Batch(r) \ Admitted(r)) \in Nat
    BY BatchFinite DEF LeaseInv
  <2>2. decoder' \in Nat /\ ignored' \in Nat
    BY <1>1, <1>3, <2>1 DEF LeaseInv, TypeOK, CommitSource, DecoderAfter, IgnoredAfter
  <2>3. cursor' \in Nat /\ seq' \in Nat /\ rebuilding' \in BOOLEAN
    BY <1>3 DEF LeaseInv, TypeOK, CommitSource
  <2>4. events' \subseteq 1 .. Len(days)
    <3>1. run[r].upto <= Len(days)
      BY DEF LeaseInv, ReadInside, CommitSource
    <3>2. Batch(r) \subseteq 1 .. Len(days)
      BY <1>1, <1>3, <3>1 DEF Batch
    <3> QED
      BY <3>2, BatchFinite DEF LeaseInv, TypeOK, CommitSource
  <2> QED
    BY <1>2, <2>2, <2>3, <2>4 DEF LeaseInv, TypeOK, CommitSource, world
<1>5. HolderIsCurrent'
  BY <1>2 DEF LeaseInv, HolderIsCurrent, CommitSource
<1>6. ReadInside'
  BY <1>2 DEF LeaseInv, ReadInside, CommitSource, world
<1>7. ReadOnce' /\ RebuildKeepsAll'
  <2> SUFFICES ASSUME stays' PROVE ReadOnce' /\ RebuildKeepsAll'
    BY DEF ReadOnce, RebuildKeepsAll
  <2>1. /\ cursor <= run[r].upto /\ run[r].upto <= Len(days)
        /\ cursor' = run[r].upto /\ days' = days /\ stays
    BY <1>1 DEF LeaseInv, ReadInside, CommitSource, world
  <2>2. Batch(r) = cursor + 1 .. cursor'
    BY <1>1, <2>1 DEF Batch
  <2>3. /\ Cardinality(Batch(r)) = cursor' - cursor
        /\ Cardinality(Admitted(r)) + Cardinality(Batch(r) \ Admitted(r)) = cursor' - cursor
        /\ Cardinality(Admitted(r)) \in Nat
        /\ Cardinality(Batch(r) \ Admitted(r)) \in Nat
        /\ IsFiniteSet(Admitted(r)) /\ Admitted(r) \subseteq Batch(r)
    BY <1>1, <2>1, BatchCounts, BatchFinite DEF LeaseInv
  <2>4. /\ decoder = cursor /\ events \subseteq 1 .. cursor
        /\ Cardinality(events) + ignored = cursor
    BY <2>1 DEF LeaseInv, ReadOnce
  <2>5. decoder' = cursor'
    BY <1>1, <1>3, <2>1, <2>3, <2>4 DEF CommitSource, DecoderAfter
  <2>6. events' \subseteq 1 .. cursor'
    <3>1. 1 .. cursor \subseteq 1 .. cursor' /\ cursor + 1 .. cursor' \subseteq 1 .. cursor'
      BY <1>3, <2>1
    <3> QED
      BY <2>2, <2>3, <2>4, <3>1 DEF CommitSource
  <2>7. Cardinality(events') = Cardinality(events) + Cardinality(Admitted(r))
    <3>1. IsFiniteSet(1 .. cursor)
      <4>1. 1 \in Int /\ cursor \in Int
        BY <1>3
      <4> QED
        BY <4>1, FS_Interval
    <3>2. IsFiniteSet(events) /\ Cardinality(events) \in Nat
      BY <3>1, <2>4, FS_Subset, FS_CardinalityType
    <3>3. Cardinality(events \cap Admitted(r)) = 0
      <4>1. events \cap Admitted(r) = {}
        BY <1>3, <2>2, <2>3, <2>4
      <4> QED
        BY <4>1, FS_EmptySet
    <3>4. Cardinality(events \cup Admitted(r))
          = Cardinality(events) + Cardinality(Admitted(r))
            - Cardinality(events \cap Admitted(r))
      BY <2>3, <3>2, FS_Union
    <3>5. events' = events \cup Admitted(r)
      BY DEF CommitSource
    <3> QED
      BY <2>3, <3>2, <3>3, <3>4, <3>5
  <2>8. Cardinality(events') + ignored' = cursor'
    <3>1. ignored' = ignored + Cardinality(Batch(r) \ Admitted(r))
      BY DEF CommitSource, IgnoredAfter
    <3>2. IsFiniteSet(1 .. cursor)
      <4>1. 1 \in Int /\ cursor \in Int
        BY <1>3
      <4> QED
        BY <4>1, FS_Interval
    <3>3. Cardinality(events) \in Nat
      BY <3>2, <2>4, FS_Subset, FS_CardinalityType
    <3> DEFINE e == Cardinality(events)
               a == Cardinality(Admitted(r))
               rest == Cardinality(Batch(r) \ Admitted(r))
    <3>4. /\ a \in Nat /\ rest \in Nat /\ a + rest = cursor' - cursor
          /\ e \in Nat /\ e + ignored = cursor /\ cursor' \in Nat
          /\ Cardinality(events') = e + a /\ ignored' = ignored + rest
      BY <1>3, <2>1, <2>3, <2>4, <2>7, <3>1, <3>3
    <3> HIDE DEF e, a, rest
    <3>5. Cardinality(events') + ignored' = (e + a) + (ignored + rest)
      BY <3>4
    <3>6. (e + a) + (ignored + rest) = (e + ignored) + (a + rest)
      BY <1>3, <3>4
    <3>7. (e + ignored) + (a + rest) = cursor'
      <4>1. (e + ignored) + (a + rest) = cursor + (cursor' - cursor)
        BY <3>4
      <4>2. cursor' \in Nat /\ cursor \in Nat
        BY <1>3, <2>1
      <4>3. cursor + (cursor' - cursor) = cursor'
        <5>1. \A x, y \in Nat : x + (y - x) = y
          OBVIOUS
        <5> QED
          BY <4>2, <5>1, Zenon
      <4> QED
        BY <4>1, <4>3
    <3> QED
      BY <3>5, <3>6, <3>7
  <2>9. ASSUME rebuilding' PROVE events' = 1 .. cursor'
    <3>1. rebuilding /\ events = 1 .. cursor
      BY <1>1, <2>1, <2>9 DEF CommitSource, LeaseInv, RebuildKeepsAll
    <3>2. Admitted(r) = Batch(r)
      BY <1>1, <3>1 DEF Admitted
    <3> QED
      BY <1>3, <2>1, <2>2, <3>1, <3>2 DEF CommitSource
  <2> QED
    BY <2>1, <2>5, <2>6, <2>8, <2>9 DEF ReadOnce, RebuildKeepsAll
<1> QED
  BY <1>4, <1>5, <1>6, <1>7 DEF LeaseInv

LEMMA ReleaseUnchangedKeeps ==
    ASSUME LeaseInv, NEW r \in Runners, ReleaseUnchanged(r)
    PROVE  LeaseInv'
<1>1. /\ cursor' = cursor /\ decoder' = decoder /\ rebuilding' = rebuilding
      /\ UNCHANGED <<events, ignored, days, stays>>
  BY DEF LeaseInv, HolderIsCurrent, ReleaseUnchanged, CanCommit, world
<1>2. /\ run' \in [Runners -> Attempts] /\ run'[r].pc = "idle"
      /\ \A q \in Runners \ {r} : run'[q] = run[q]
  BY IdleTyped, OneRunnerTyped DEF LeaseInv, ReleaseUnchanged
<1>3. TypeOK'
  <2>1. token' \in Tokens \cup {NoToken} /\ lapsed' \in BOOLEAN
    BY DEF ReleaseUnchanged
  <2>2. seq' \in Nat
    BY DEF LeaseInv, TypeOK, ReleaseUnchanged
  <2>3. UNCHANGED <<present, today, enabled>>
    BY DEF ReleaseUnchanged, world
  <2> QED
    BY <1>1, <1>2, <2>1, <2>2, <2>3 DEF LeaseInv, TypeOK
<1>4. HolderIsCurrent' /\ ReadInside'
  BY <1>2 DEF LeaseInv, HolderIsCurrent, ReadInside, ReleaseUnchanged, world
<1>5. ReadOnce' /\ RebuildKeepsAll'
  BY <1>1 DEF LeaseInv, ReadOnce, RebuildKeepsAll
<1> QED
  BY <1>3, <1>4, <1>5 DEF LeaseInv

LEMMA RebuildKeeps == ASSUME LeaseInv, Rebuild PROVE LeaseInv'
<1>1. TypeOK'
  BY DEF LeaseInv, TypeOK, Rebuild, world
<1>2. HolderIsCurrent' /\ ReadInside'
  BY DEF LeaseInv, HolderIsCurrent, ReadInside, Rebuild, world
<1>3. ReadOnce' /\ RebuildKeepsAll'
  BY FS_EmptySet DEF LeaseInv, TypeOK, ReadOnce, RebuildKeepsAll, Rebuild, world
<1> QED
  BY <1>1, <1>2, <1>3 DEF LeaseInv

LEMMA StutterKeeps == ASSUME LeaseInv, UNCHANGED vars PROVE LeaseInv'
<1>1. UNCHANGED <<days, present, today, stays, enabled, token, lapsed, cursor, decoder, seq,
                  rebuilding, ignored, events, run>>
  BY DEF vars, world, lease, checkpoint
<1> QED
  BY <1>1 DEF LeaseInv, TypeOK, HolderIsCurrent, ReadInside, ReadOnce, RebuildKeepsAll

LEMMA NextKeeps == ASSUME LeaseInv, [Next]_vars PROVE LeaseInv'
<1>1. ASSUME NEW r \in Runners, Attempt(r) PROVE LeaseInv'
  <2>1. CASE \E t \in Tokens : LeaseSource(r, t)
    BY <2>1, LeaseSourceKeeps
  <2>2. CASE LoadCheckpoint(r)
    BY <2>2, LoadCheckpointKeeps
  <2>3. CASE (\E n \in 0 .. MaxLen : ReadSource(r, n)) \/ ReadMissingFile(r)
    <3>1. 0 \in 0 .. MaxLen
      OBVIOUS
    <3> QED
      BY <2>3, <3>1, ReadSourceKeeps
  <2>4. CASE ReadFails(r)
    BY <2>4, ReadFailsKeeps
  <2>5. CASE CommitSource(r)
    BY <2>5, CommitSourceKeeps
  <2>6. CASE ReleaseUnchanged(r)
    BY <2>6, ReleaseUnchangedKeeps
  <2>7. CASE CommitRefused(r) \/ CommitConflicts(r) \/ RunnerDies(r)
    BY <2>7, GivingUpKeeps
  <2> QED
    BY <1>1, <2>1, <2>2, <2>3, <2>4, <2>5, <2>6, <2>7 DEF Attempt
<1> QED
  BY <1>1, WriteRecordKeeps, WorldKeeps, RebuildKeeps, StutterKeeps DEF Next

\* The strengthened invariant: what ReadOnce and RebuildKeepsAll rest on.
THEOREM LeaseInvariant == Spec => []LeaseInv
BY InitEstablishes, NextKeeps, PTL DEF Spec

\* The row and the runners' memory keep their types.
THEOREM LeaseTypes == Spec => []TypeOK
<1>1. LeaseInv => TypeOK
  BY DEF LeaseInv
<1> QED
  BY <1>1, LeaseInvariant, PTL

\* A source that stays in place is read once, for any number of runners.
THEOREM SourceReadOnce == Spec => []ReadOnce
<1>1. LeaseInv => ReadOnce
  BY DEF LeaseInv
<1> QED
  BY <1>1, LeaseInvariant, PTL

\* A reconstruction ignores nothing before it reaches the end of the source.
THEOREM ReconstructionKeepsAll == Spec => []RebuildKeepsAll
<1>1. LeaseInv => RebuildKeepsAll
  BY DEF LeaseInv
<1> QED
  BY <1>1, LeaseInvariant, PTL

\* Only the last runner to have leased the source commits, and over the checkpoint
\* it loaded.
THEOREM CommitsAreCurrent == Spec => CommitsOnItsCheckpoint
<1> DEFINE A == seq' = seq + 1 =>
                  \E r \in Runners :
                      /\ run[r].pc \in {"read", "failed"} /\ run'[r] = Idle
                      /\ run[r].token = token
                      /\ run[r].cursor = cursor /\ run[r].decoder = decoder
                      /\ run[r].rebuilding = rebuilding
<1>1. ASSUME LeaseInv, [Next]_vars PROVE [A]_vars
  <2>1. ASSUME NEW r \in Runners, CommitSource(r) \/ ReleaseUnchanged(r) PROVE A
    <3>1. /\ run[r].pc \in {"read", "failed"} /\ run[r].token = token
          /\ RunnerBecomes(r, Idle)
      BY <2>1 DEF CommitSource, ReleaseUnchanged, CanCommit
    <3>2. run'[r] = Idle
      BY <3>1 DEF RunnerBecomes
    <3> QED
      BY <1>1, <3>1, <3>2 DEF LeaseInv, HolderIsCurrent
  <2>2. ASSUME seq' # seq + 1 PROVE A
    BY <2>2
  <2>3. ASSUME seq' = seq PROVE A
    BY <1>1, <2>3 DEF LeaseInv, TypeOK
  <2>4. Rebuild => seq' # seq + 1
    BY <1>1 DEF Rebuild, LeaseInv, TypeOK
  <2>5. ASSUME NEW r \in Runners, Attempt(r) PROVE A
    <3>1. CASE CommitSource(r) \/ ReleaseUnchanged(r)
      BY <2>1, <3>1
    <3>2. CASE ~(CommitSource(r) \/ ReleaseUnchanged(r))
      <4>1. seq' = seq
        BY <2>5, <3>2
           DEF Attempt, LeaseSource, LoadCheckpoint, ReadSource, ReadMissingFile, ReadUpTo,
               ReadFails, CommitRefused, CommitConflicts, RunnerDies, checkpoint
      <4> QED
        BY <4>1, <2>3
    <3> QED
      BY <3>1, <3>2
  <2>6. CASE WriteRecord \/ FileComesAndGoes \/ Midnight \/ LeaseLapses \/ SwitchHarness
    BY <2>3, <2>6 DEF WriteRecord, FileComesAndGoes, Midnight, LeaseLapses, SwitchHarness,
                      checkpoint
  <2> QED
    BY <1>1, <2>2, <2>4, <2>5, <2>6 DEF Next
<1> QED
  BY <1>1, LeaseInvariant, PTL DEF Spec, CommitsOnItsCheckpoint

-----------------------------------------------------------------------------
(* The source is read as SourceLog promises.                               *)

\* The fates of the settled records are a sequence as long as the cursor.
LEMMA FatesTyped ==
    ASSUME cursor \in Nat
    PROVE  /\ Fates \in Seq(Log!Fate) /\ Len(Fates) = cursor
           /\ \A i \in 1 .. cursor :
                  Fates[i] = IF i \in events THEN "event" ELSE "ignored"
<1>1. Fates \in [1 .. cursor -> Log!Fate]
  BY DEF Fates, Log!Fate
<1>2. Fates \in Seq(Log!Fate)
  BY <1>1, IsASeq
<1>3. DOMAIN Fates = 1 .. Len(Fates) /\ DOMAIN Fates = 1 .. cursor /\ Len(Fates) \in Nat
  BY <1>1, <1>2, LenProperties
<1>4. 1 .. Len(Fates) = 1 .. cursor
  BY <1>3
<1>5. \A m, n \in Nat : 1 .. m = 1 .. n => m = n
  OBVIOUS
<1>6. Len(Fates) = cursor
  BY <1>3, <1>4, <1>5, Zenon
<1> QED
  BY <1>2, <1>6 DEF Fates

\* A step that leaves cursor and events alone leaves the fates alone.
LEMMA FatesKept == ASSUME UNCHANGED <<cursor, events>> PROVE Fates' = Fates
BY DEF Fates

\* A commit settles the batch, or nothing if it was empty; after a read of a missing
\* file it starts over.
LEMMA CommitSettles ==
    ASSUME LeaseInv, NEW r \in Runners, CommitSource(r)
    PROVE  Log!Settle \/ Log!StartOver \/ UNCHANGED <<Len(days), Fates>>
<1>1. /\ cursor' = run[r].upto /\ events' = events \cup Admitted(r) /\ days' = days
      /\ run[r].cursor = cursor
  BY DEF CommitSource, world, LeaseInv, HolderIsCurrent, CanCommit
<1>2. /\ cursor \in Nat /\ cursor' \in Nat /\ Len(days) \in Nat
      /\ cursor <= cursor' \/ cursor' = 0
      /\ cursor' <= Len(days)
  BY <1>1 DEF LeaseInv, TypeOK, Attempts, ReadInside, CommitSource
<1>3. Admitted(r) \subseteq cursor + 1 .. cursor'
  BY <1>1 DEF Admitted, Batch
<1>4. CASE cursor' = cursor
  <2>1. events' = events
    BY <1>1, <1>2, <1>3, <1>4
  <2> QED
    BY <1>1, <1>4, <2>1, FatesKept
<1>5. CASE cursor' = 0
  <2>1. Fates' = <<>>
    BY <1>5 DEF Fates
  <2> QED
    BY <1>1, <2>1 DEF Log!StartOver
<1>6. CASE cursor' # cursor /\ cursor' # 0
  <2>0. cursor <= cursor'
    BY <1>2, <1>6
  <2>1. /\ Fates \in Seq(Log!Fate) /\ Len(Fates) = cursor
        /\ \A i \in 1 .. cursor :
               Fates[i] = IF i \in events THEN "event" ELSE "ignored"
    BY <1>2, FatesTyped
  <2>2. /\ Fates' \in Seq(Log!Fate) /\ Len(Fates') = cursor'
        /\ \A i \in 1 .. cursor' :
               Fates'[i] = IF i \in events' THEN "event" ELSE "ignored"
    <3>1. Fates' = [i \in 1 .. cursor' |-> IF i \in events' THEN "event" ELSE "ignored"]
      BY DEF Fates
    <3>2. Fates' \in [1 .. cursor' -> Log!Fate]
      BY <3>1 DEF Log!Fate
    <3>3. Fates' \in Seq(Log!Fate)
      BY <1>2, <3>2, IsASeq
    <3>4. /\ DOMAIN Fates' = 1 .. Len(Fates') /\ DOMAIN Fates' = 1 .. cursor'
          /\ Len(Fates') \in Nat
      BY <3>2, <3>3, LenProperties
    <3>5. Len(Fates') = cursor'
      BY <1>2, <3>4
    <3> QED
      BY <3>1, <3>3, <3>5
  <2>3. \A i \in 1 .. cursor : Fates'[i] = Fates[i]
    <3>1. ASSUME NEW i \in 1 .. cursor PROVE i \in 1 .. cursor' /\ (i \in events' <=> i \in events)
      BY <1>1, <1>2, <1>3, <2>0
    <3> QED
      BY <2>1, <2>2, <3>1
  <2>4. SubSeq(Fates', 1, Len(Fates)) = Fates
    <3> DEFINE sub == SubSeq(Fates', 1, Len(Fates))
    <3>1. /\ sub \in Seq(Log!Fate) /\ Len(sub) = cursor
          /\ \A i \in 1 .. cursor : sub[i] = Fates'[i]
      BY <1>2, <2>0, <2>1, <2>2, SubSeqProperties
    <3> HIDE DEF sub
    <3>2. sub = Fates
      BY <1>2, <2>1, <2>3, <3>1, SeqEqual
    <3> QED
      BY <3>2 DEF sub
  <2>5. Len(Fates') \in Len(Fates) + 1 .. Len(days)
    BY <1>2, <1>6, <2>0, <2>1, <2>2
  <2> QED
    BY <1>1, <2>2, <2>4, <2>5 DEF Log!Settle
<1> QED
  BY <1>4, <1>5, <1>6

\* Every step is a step of SourceLog or none.
LEMMA StepsArePromised ==
    ASSUME LeaseInv, [Next]_vars
    PROVE  [Log!Next]_<<Len(days), Fates>>
<1>1. CASE WriteRecord
  <2>1. Len(days') = Len(days) + 1 /\ UNCHANGED <<cursor, events>>
    BY <1>1, AppendProperties DEF LeaseInv, TypeOK, WriteRecord, checkpoint
  <2> QED
    BY <2>1, FatesKept DEF Log!Next, Log!Write
<1>2. CASE Rebuild
  <2>1. cursor' = 0 /\ days' = days
    BY <1>2 DEF Rebuild, world
  <2>2. Fates' = <<>>
    BY <2>1 DEF Fates
  <2> QED
    BY <2>1, <2>2 DEF Log!Next, Log!StartOver
<1>3. ASSUME NEW r \in Runners, CommitSource(r) PROVE [Log!Next]_<<Len(days), Fates>>
  BY <1>3, CommitSettles DEF Log!Next
<1>4. ASSUME UNCHANGED <<days, cursor, events>> PROVE [Log!Next]_<<Len(days), Fates>>
  BY <1>4, FatesKept
<1>5. ASSUME NEW r \in Runners, Attempt(r) PROVE [Log!Next]_<<Len(days), Fates>>
  <2>1. CASE CommitSource(r)
    BY <1>3, <2>1
  <2>2. CASE ReleaseUnchanged(r)
    BY <1>4, <2>2 DEF ReleaseUnchanged, world, LeaseInv, HolderIsCurrent, CanCommit
  <2>3. CASE ~CommitSource(r) /\ ~ReleaseUnchanged(r)
    BY <1>4, <1>5, <2>3
       DEF Attempt, LeaseSource, LoadCheckpoint, ReadSource, ReadMissingFile, ReadUpTo,
           ReadFails, CommitRefused, CommitConflicts, RunnerDies, world, checkpoint
  <2> QED
    BY <2>1, <2>2, <2>3
<1>6. CASE FileComesAndGoes \/ Midnight \/ LeaseLapses \/ SwitchHarness \/ UNCHANGED vars
  BY <1>4, <1>6 DEF FileComesAndGoes, Midnight, LeaseLapses, SwitchHarness, vars, world,
                    checkpoint
<1> QED
  BY <1>1, <1>2, <1>5, <1>6 DEF Next

\* The source is read as SourceLog promises: SourceLease implements it.
THEOREM SourceReadAsPromised == Spec => ReadAsPromised
<1>1. Init => Log!Init
  <2> SUFFICES ASSUME Init PROVE Log!Init
    OBVIOUS
  <2>1. Len(days) = 0 /\ cursor = 0
    BY DEF Init
  <2>2. Fates = <<>>
    BY <2>1 DEF Fates
  <2> QED
    BY <2>1, <2>2 DEF Log!Init
<1>2. LeaseInv /\ [Next]_vars => [Log!Next]_<<Len(days), Fates>>
  BY StepsArePromised
<1> QED
  BY <1>1, <1>2, LeaseInvariant, PTL DEF Spec, ReadAsPromised, Log!Spec
=============================================================================
