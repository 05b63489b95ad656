-------------------------- MODULE LeaderboardProofs --------------------------
(***************************************************************************)
(* The safety of Leaderboard for any days, workers and bounds.             *)
(*                                                                         *)
(* Three independent arguments share one inductive invariant.  The version *)
(* of a day counts the changes of its statistics, and a refresh reads them *)
(* after its claim (DaysRefreshed).  The outbox holds every revision of    *)
(* the score once and in order, the index one of its rows, at least as new *)
(* as any that was sent (IndexFollows).  A score that is due for no day is *)
(* of the present statistics and account unless the last refresh was torn  *)
(* (ScoreFollows).                                                         *)
(***************************************************************************)
EXTENDS Leaderboard, FiniteSetTheorems, SequenceTheorems, WellFoundedInduction, TLAPS

\* What a score can be.
Scores == {Total(view) : view \in [Days -> Nat]}

OutboxRows ==
    [tokens : Scores, listed : BOOLEAN, revision : Nat,
     status : {"pending", "leased", "applied"}, by : Workers \cup {Nobody}]

Snapshots == [changes : Nat,
              member : [revision : Int, listed : BOOLEAN, tokens : Scores]]

\* The transaction, delivery or publication a worker is in.
Doings ==
    {Idle}
    \cup [pc : {"refreshing"}, day : Days, view : [Days -> Nat], active : BOOLEAN]
    \cup [pc : {"backfilling"}, view : [Days -> Nat]]
    \cup [pc : {"claimed", "sent"}, row : Nat]
    \cup [pc : {"seen", "cleared"}, wasDirty : BOOLEAN]
    \cup [pc : {"captured"}, wasDirty : BOOLEAN, snapshot : Snapshots]

DataTyped ==
    /\ Captured \in Snapshots /\ hot \in Snapshots /\ dirty \in BOOLEAN
    /\ score \in [tokens : Scores, eligible : BOOLEAN, revision : Nat]
    /\ outbox \in Seq(OutboxRows)
    /\ work \in [Workers -> Doings]
    /\ statuses \in Nat /\ mishaps \in Nat
    /\ torn \in BOOLEAN /\ unmarked \in BOOLEAN

\* The version of a day is the number of its changes, and a refresh has read at
\* least what its claim is of.
DaysRefreshed ==
    /\ \A d \in Days : day[d].version = counted[d]
    /\ \A w \in Workers :
          work[w].pc = "refreshing" => work[w].view[work[w].day] >= held[w][work[w].day]

\* Row k of the outbox is of revision k - 1, the last one is the score.
OutboxInOrder ==
    /\ Len(outbox) = score.revision + 1
    /\ \A k \in 1 .. Len(outbox) : outbox[k].revision = k - 1
    /\ outbox[Len(outbox)].tokens = score.tokens
    /\ outbox[Len(outbox)].listed = score.eligible

\* The index shows a row of the outbox.
IndexShowsARow ==
    /\ member.revision \in -1 .. score.revision
    /\ member.revision >= 0 =>
          /\ member.listed = outbox[member.revision + 1].listed
          /\ member.listed => member.tokens = outbox[member.revision + 1].tokens

\* It is no older than any row that was applied or sent.
SentIsReached ==
    /\ \A k \in 1 .. Len(outbox) : outbox[k].status = "applied" => member.revision >= k - 1
    /\ \A w \in Workers :
          work[w].pc \in {"claimed", "sent"} =>
             /\ work[w].row \in 1 .. Len(outbox)
             /\ work[w].pc = "sent" => member.revision >= work[w].row - 1

IndexFollows == OutboxInOrder /\ IndexShowsARow /\ SentIsReached

ScoreFollows ==
    Refreshed /\ ~torn =>
        /\ score.tokens = Total(counted)
        /\ score.eligible => active

LeaderboardInv ==
    /\ DataTyped
    /\ NoDayForgotten
    /\ DaysRefreshed
    /\ IndexFollows
    /\ ScoreFollows

USE LeaderboardAssumption

-----------------------------------------------------------------------------

\* The score of days without statistics is 0: the fold over a finite set of zeros
\* has no smallest subset that sums to anything else.
LEMMA NothingCounted == Total([d \in Days |-> 0]) = 0
<1> DEFINE pick(s) == CHOOSE d \in s : TRUE
           step(f, s) == IF s = {} THEN 0
                         ELSE [d \in Days |-> 0][pick(s)] + f[s \ {pick(s)}]
           zero == [s \in SUBSET Days |-> 0]
           sum == CHOOSE f : f = [s \in SUBSET Days |-> step(f, s)]
           wrong == {s \in SUBSET Days : sum[s] # 0}
<1>1. Total([d \in Days |-> 0]) = sum[Days]
  BY DEF Total, FoldFunction, FoldFunctionOnSet, MapThenFoldSet
<1>2. \A s \in SUBSET Days : s # {} => pick(s) \in s
  OBVIOUS
<1>3. zero = [s \in SUBSET Days |-> step(zero, s)]
  <2>1. \A s \in SUBSET Days : step(zero, s) = 0
    BY <1>2
  <2> QED BY <2>1
<1>4. sum = [s \in SUBSET Days |-> step(sum, s)]
  <2> HIDE DEF step, zero
  <2> QED BY <1>3
<1> HIDE DEF sum
<1>5. wrong = {}
  <2>1. SUFFICES ASSUME wrong # {} PROVE FALSE
    OBVIOUS
  <2>2. IsWellFoundedOn(StrictSubsetOrdering(Days), SUBSET Days)
    BY FS_StrictSubsetOrderingWellFounded, FS_FiniteSubsetsOfFinite
  <2>3. PICK s \in wrong : \A t \in wrong : <<t, s>> \notin StrictSubsetOrdering(Days)
    BY <2>1, <2>2, WFMin
  <2>4. s # {}
    BY <1>4
  <2>5. s \ {pick(s)} \notin wrong
    BY <1>2, <2>3, <2>4 DEF StrictSubsetOrdering
  <2> QED
    BY <1>2, <1>4, <2>4, <2>5
<1> QED
  BY <1>1, <1>5

LEMMA ScoresHaveZero == 0 \in Scores
BY NothingCounted DEF Scores

LEMMA InitEstablishes == Init => LeaderboardInv
<1> SUFFICES ASSUME Init PROVE LeaderboardInv
  OBVIOUS
<1> USE ScoresHaveZero DEF Init, InitIndex
<1>1. DataTyped
  <2>1. outbox \in Seq(OutboxRows)
    BY DEF OutboxRows
  <2>2. Captured \in Snapshots /\ hot \in Snapshots
    BY DEF Captured, Snapshots, NoMember, NoHot
  <2>3. work \in [Workers -> Doings]
    BY DEF Doings
  <2> QED
    BY <2>1, <2>2, <2>3 DEF DataTyped
<1>2. NoDayForgotten
  BY DEF NoDayForgotten, TypeOK, DayRows, NewDay
<1>3. DaysRefreshed
  BY DEF DaysRefreshed, NewDay, Idle
<1>4. IndexFollows
  <2>1. OutboxInOrder
    <3>1. Len(outbox) = 1 /\ outbox[1].revision = 0
          /\ outbox[1].tokens = 0 /\ outbox[1].listed = TRUE
      OBVIOUS
    <3>2. score.revision = 0 /\ score.tokens = 0 /\ score.eligible = TRUE
      OBVIOUS
    <3>3. \A k \in 1 .. Len(outbox) : k = 1
      BY <3>1
    <3>4. \A k \in 1 .. Len(outbox) : outbox[k].revision = k - 1
      <4> HIDE DEF Init, InitIndex
      <4> QED BY <3>1, <3>3
    <3>5. Len(outbox) = score.revision + 1
      <4> HIDE DEF Init, InitIndex
      <4> QED BY <3>1, <3>2
    <3> QED
      BY <3>1, <3>2, <3>4, <3>5, Zenon DEF OutboxInOrder
  <2>2. IndexShowsARow
    BY DEF IndexShowsARow, NoMember
  <2>3. SentIsReached
    BY DEF SentIsReached, Idle
  <2> QED
    BY <2>1, <2>2, <2>3 DEF IndexFollows
<1>5. ScoreFollows
  BY NothingCounted DEF ScoreFollows
<1> QED
  BY <1>1, <1>2, <1>3, <1>4, <1>5 DEF LeaderboardInv

-----------------------------------------------------------------------------
(* What the steps share.                                                   *)

\* A worker turns to something else; the others go on.
LEMMA OneWorkerTyped ==
    ASSUME LeaderboardInv, NEW w \in Workers, NEW doing \in Doings, Becomes(w, doing)
    PROVE  /\ work' \in [Workers -> Doings]
           /\ work'[w] = doing
           /\ \A v \in Workers \ {w} : work'[v] = work[v]
BY DEF LeaderboardInv, DataTyped, Becomes

\* What the record of a worker's doing holds, by its pc.
LEMMA DoingFields ==
    ASSUME NEW doing \in Doings
    PROVE  /\ doing.pc = "refreshing" =>
                 /\ doing.day \in Days /\ doing.view \in [Days -> Nat]
                 /\ doing.active \in BOOLEAN
           /\ doing.pc = "backfilling" => doing.view \in [Days -> Nat]
           /\ doing.pc \in {"claimed", "sent"} => doing.row \in Nat
           /\ doing.pc \in {"seen", "cleared", "captured"} => doing.wasDirty \in BOOLEAN
           /\ doing.pc = "captured" => doing.snapshot \in Snapshots
BY DEF Doings, Idle

LEMMA IdleTyped == Idle \in Doings /\ Idle.pc = "idle"
BY DEF Idle, Doings

\* Steps that leave days, statistics and claims alone and start no refresh.
LEMMA DaysKept ==
    ASSUME LeaderboardInv, UNCHANGED <<counted, active, day, held>>,
           \A w \in Workers : work'[w].pc = "refreshing" => work'[w] = work[w]
    PROVE  NoDayForgotten' /\ DaysRefreshed'
BY DEF LeaderboardInv, NoDayForgotten, TypeOK, DaysRefreshed

\* Steps that leave score, outbox and index alone and start no delivery.
LEMMA IndexKept ==
    ASSUME LeaderboardInv, UNCHANGED <<score, outbox, member>>,
           \A w \in Workers : work'[w].pc \in {"claimed", "sent"} => work'[w] = work[w]
    PROVE  IndexFollows'
BY DEF LeaderboardInv, IndexFollows, OutboxInOrder, IndexShowsARow, SentIsReached

LEMMA ScoreKept ==
    ASSUME LeaderboardInv, UNCHANGED <<counted, active, day, score>>, torn => torn'
    PROVE  ScoreFollows'
BY DEF LeaderboardInv, ScoreFollows, Refreshed

\* The score is written with a row of its own at the end of the outbox, or not at all.
LEMMA ScoreWritten ==
    ASSUME LeaderboardInv, UNCHANGED member,
           \/ UNCHANGED <<score, outbox>>
           \/ \E tokens \in Scores, eligible \in BOOLEAN : Rescored(tokens, eligible),
           \A w \in Workers : work'[w].pc \in {"claimed", "sent"} => work'[w] = work[w]
    PROVE  /\ score' \in [tokens : Scores, eligible : BOOLEAN, revision : Nat]
           /\ outbox' \in Seq(OutboxRows)
           /\ IndexFollows'
<1>1. CASE UNCHANGED <<score, outbox>>
  BY <1>1, IndexKept DEF LeaderboardInv, DataTyped
<1>2. ASSUME NEW tokens \in Scores, NEW eligible \in BOOLEAN, Rescored(tokens, eligible)
      PROVE  /\ score' \in [tokens : Scores, eligible : BOOLEAN, revision : Nat]
             /\ outbox' \in Seq(OutboxRows)
             /\ IndexFollows'
  <2> DEFINE new == [tokens |-> tokens, listed |-> eligible, revision |-> score.revision + 1,
                     status |-> "pending", by |-> Nobody]
  <2>1. score.revision \in Nat /\ outbox \in Seq(OutboxRows)
    BY DEF LeaderboardInv, DataTyped
  <2>2. new \in OutboxRows
    BY <2>1 DEF OutboxRows
  <2>3. outbox' = Append(outbox, new)
    BY <1>2 DEF Rescored
  <2>4. /\ score'.tokens = tokens /\ score'.eligible = eligible
        /\ score'.revision = score.revision + 1
        /\ score' \in [tokens : Scores, eligible : BOOLEAN, revision : Nat]
    BY <1>2, <2>1 DEF Rescored
  <2>5. /\ outbox' \in Seq(OutboxRows)
        /\ Len(outbox') = Len(outbox) + 1 /\ Len(outbox) \in Nat
        /\ outbox'[Len(outbox) + 1] = new
        /\ \A k \in 1 .. Len(outbox) : outbox'[k] = outbox[k]
    <3> HIDE DEF new
    <3> QED BY <2>1, <2>2, <2>3, AppendProperties, LenProperties
  <2>6. OutboxInOrder'
    <3>1. \A k \in 1 .. Len(outbox') : k \in 1 .. Len(outbox) \/ k = Len(outbox) + 1
      BY <2>5
    <3>2. Len(outbox) = score.revision + 1
      BY DEF LeaderboardInv, IndexFollows, OutboxInOrder
    <3>3. \A k \in 1 .. Len(outbox') : outbox'[k].revision = k - 1
      BY <2>1, <2>5, <3>1, <3>2 DEF LeaderboardInv, IndexFollows, OutboxInOrder
    <3> QED
      BY <2>1, <2>4, <2>5, <3>2, <3>3 DEF OutboxInOrder
  <2>7. IndexShowsARow'
    <3>1. member.revision + 1 \in 1 .. Len(outbox) \/ member.revision = -1
      BY <2>1 DEF LeaderboardInv, IndexFollows, IndexShowsARow, OutboxInOrder
    <3> QED
      BY <2>1, <2>4, <2>5, <3>1 DEF LeaderboardInv, IndexFollows, IndexShowsARow
  <2>8. SentIsReached'
    BY <2>5 DEF LeaderboardInv, IndexFollows, SentIsReached
  <2> QED
    BY <2>4, <2>5, <2>6, <2>7, <2>8 DEF IndexFollows
<1> QED
  BY <1>1, <1>2

\* A row is leased or answered: what it says of the score stays.
LEMMA RowMarked ==
    ASSUME LeaderboardInv, NEW k \in 1 .. Len(outbox), NEW by \in Workers \cup {Nobody},
           NEW status \in {"pending", "leased", "applied"},
           outbox' = [outbox EXCEPT ![k].status = status, ![k].by = by]
    PROVE  /\ outbox' \in Seq(OutboxRows) /\ Len(outbox') = Len(outbox)
           /\ outbox'[k].status = status
           /\ \A j \in 1 .. Len(outbox) :
                 /\ outbox'[j].revision = outbox[j].revision
                 /\ outbox'[j].tokens = outbox[j].tokens
                 /\ outbox'[j].listed = outbox[j].listed
                 /\ j # k => outbox'[j] = outbox[j]
<1> DEFINE new == [outbox[k] EXCEPT !.status = status, !.by = by]
<1>1. outbox \in Seq(OutboxRows) /\ outbox[k] \in OutboxRows
  BY ElementOfSeq DEF LeaderboardInv, DataTyped
<1>2. outbox' = [outbox EXCEPT ![k] = new]
  BY <1>1
<1>3. /\ new \in OutboxRows /\ new.status = status
      /\ new.revision = outbox[k].revision
      /\ new.tokens = outbox[k].tokens /\ new.listed = outbox[k].listed
  BY <1>1 DEF OutboxRows
<1> HIDE DEF new
<1>4. outbox' \in Seq(OutboxRows) /\ Len(outbox') = Len(outbox)
      /\ outbox'[k] = new /\ \A j \in 1 .. Len(outbox) : j # k => outbox'[j] = outbox[j]
  <2>1. /\ [outbox EXCEPT ![k] = new] \in Seq(OutboxRows)
        /\ Len([outbox EXCEPT ![k] = new]) = Len(outbox)
    BY <1>1, <1>3, ExceptSeq
  <2>2. outbox = [j \in 1 .. Len(outbox) |-> outbox[j]]
    BY <1>1, LenProperties
  <2> QED
    BY <1>2, <2>1, <2>2
<1> QED
  BY <1>3, <1>4

\* The index keeps following the outbox when a row is marked.
LEMMA IndexKeptByMark ==
    ASSUME LeaderboardInv, UNCHANGED <<score, member>>, NEW k \in 1 .. Len(outbox),
           NEW by \in Workers \cup {Nobody}, NEW status \in {"pending", "leased", "applied"},
           outbox' = [outbox EXCEPT ![k].status = status, ![k].by = by],
           status = "applied" => member.revision >= k - 1,
           \A w \in Workers :
              \/ work'[w] = work[w] \/ work'[w].pc \notin {"claimed", "sent"}
              \/ work'[w].pc = "claimed" /\ work'[w].row = k
    PROVE  IndexFollows'
<1>1. /\ Len(outbox') = Len(outbox) /\ Len(outbox) \in Nat
      /\ score.revision \in Nat
      /\ outbox'[k].status = status
      /\ \A j \in 1 .. Len(outbox) :
            /\ outbox'[j].revision = outbox[j].revision
            /\ outbox'[j].tokens = outbox[j].tokens
            /\ outbox'[j].listed = outbox[j].listed
            /\ j # k => outbox'[j] = outbox[j]
  BY RowMarked, LenProperties DEF LeaderboardInv, DataTyped
<1>2. OutboxInOrder'
  <2>1. Len(outbox) = score.revision + 1 /\ Len(outbox) \in 1 .. Len(outbox)
    BY <1>1 DEF LeaderboardInv, IndexFollows, OutboxInOrder
  <2> QED
    BY <1>1, <2>1 DEF LeaderboardInv, IndexFollows, OutboxInOrder
<1>3. IndexShowsARow'
  <2>1. score.revision \in Nat /\ Len(outbox) = score.revision + 1
        /\ member.revision \in -1 .. score.revision
    BY <1>1 DEF LeaderboardInv, IndexFollows, IndexShowsARow, OutboxInOrder
  <2>2. member.revision + 1 \in 1 .. Len(outbox) \/ member.revision = -1
    BY <2>1
  <2> QED
    <3>1. CASE member.revision = -1
      BY <2>1, <3>1 DEF IndexShowsARow
    <3>2. CASE member.revision + 1 \in 1 .. Len(outbox)
      <4>1. /\ outbox'[member.revision + 1].tokens = outbox[member.revision + 1].tokens
            /\ outbox'[member.revision + 1].listed = outbox[member.revision + 1].listed
        BY <1>1, <3>2
      <4> QED
        BY <2>1, <4>1 DEF LeaderboardInv, IndexFollows, IndexShowsARow
    <3> QED
      BY <2>2, <3>1, <3>2
<1>4. SentIsReached'
  BY <1>1 DEF LeaderboardInv, IndexFollows, SentIsReached
<1> QED
  BY <1>2, <1>3, <1>4 DEF IndexFollows

\* The types hold if what a step writes has them.
LEMMA DataKept ==
    ASSUME LeaderboardInv,
           index' = index \/ (Captured' \in Snapshots /\ hot' \in Snapshots /\ dirty' \in BOOLEAN),
           \/ UNCHANGED <<score, outbox>>
           \/ /\ score' \in [tokens : Scores, eligible : BOOLEAN, revision : Nat]
              /\ outbox' \in Seq(OutboxRows),
           work' \in [Workers -> Doings],
           statuses' \in {statuses, statuses + 1}, mishaps' \in {mishaps, mishaps + 1},
           torn' \in BOOLEAN, unmarked' \in BOOLEAN
    PROVE  DataTyped'
<1>1. Captured' \in Snapshots /\ hot' \in Snapshots /\ dirty' \in BOOLEAN
  BY DEF LeaderboardInv, DataTyped, index, Captured
<1>2. score' \in [tokens : Scores, eligible : BOOLEAN, revision : Nat] /\ outbox' \in Seq(OutboxRows)
  BY DEF LeaderboardInv, DataTyped
<1>3. statuses' \in Nat /\ mishaps' \in Nat
  BY DEF LeaderboardInv, DataTyped
<1> QED
  BY <1>1, <1>2, <1>3 DEF DataTyped

-----------------------------------------------------------------------------
(* Statistics, account and days.                                           *)

LEMMA CountKeeps ==
    ASSUME LeaderboardInv, NEW d \in Days, Count(d)
    PROVE  LeaderboardInv'
<1>1. DataTyped'
  BY DataKept DEF LeaderboardInv, DataTyped, Count, history
<1>2. /\ counted' = [counted EXCEPT ![d] = @ + 1]
      /\ day' = [day EXCEPT ![d] = Marked(@)]
      /\ counted \in [Days -> Nat] /\ day \in [Days -> DayRows]
  BY DEF Count, LeaderboardInv, NoDayForgotten, TypeOK
<1>3. /\ counted'[d] = counted[d] + 1 /\ day'[d] = Marked(day[d])
      /\ \A e \in Days \ {d} : counted'[e] = counted[e] /\ day'[e] = day[e]
      /\ counted' \in [Days -> Nat]
  BY <1>2
<1>4. /\ Marked(day[d]) \in DayRows
      /\ Marked(day[d]).version = day[d].version + 1
      /\ Marked(day[d]).applied = day[d].applied
      /\ Marked(day[d]).due \/ Marked(day[d]).claim # Nobody
  <2> DEFINE free == day[d].claim = Nobody
  <2>1. free \in BOOLEAN /\ (free \/ day[d].claim # Nobody) /\ day[d] \in DayRows
    BY <1>2
  <2>2. Marked(day[d]) = [day[d] EXCEPT !.version = @ + 1, !.due = free]
    BY DEF Marked
  <2> HIDE DEF free
  <2>3. Marked(day[d]) = [version |-> day[d].version + 1, applied |-> day[d].applied,
                          due |-> free, claim |-> day[d].claim]
    BY <2>1, <2>2 DEF DayRows
  <2>4. day[d].version + 1 \in Nat /\ day[d].applied \in Nat /\ day[d].claim \in Workers \cup {Nobody}
    BY <2>1 DEF DayRows
  <2>5. Marked(day[d]) \in DayRows
    <3>1. ASSUME NEW v \in Nat, NEW a \in Nat, NEW f \in BOOLEAN, NEW c \in Workers \cup {Nobody}
          PROVE  [version |-> v, applied |-> a, due |-> f, claim |-> c] \in DayRows
      BY DEF DayRows
    <3> QED BY <2>1, <2>3, <2>4, <3>1, Zenon
  <2>6. /\ Marked(day[d]).version = day[d].version + 1
        /\ Marked(day[d]).applied = day[d].applied
        /\ Marked(day[d]).claim = day[d].claim
        /\ Marked(day[d]).due = free
    BY <2>3
  <2> QED BY <2>1, <2>5, <2>6, Zenon
<1>5. NoDayForgotten'
  <2>1. day' \in [Days -> DayRows]
    BY <1>2, <1>4
  <2>2. \A e \in Days : day[e].version <= day'[e].version
    BY <1>2, <1>3, <1>4 DEF DayRows
  <2>3. \A v \in Workers, e \in Days : held'[v][e] <= day'[e].version
    BY <1>2, <2>1, <2>2 DEF Count, LeaderboardInv, NoDayForgotten, TypeOK, DayRows
  <2>4. \A e \in Days : day'[e].applied <= day'[e].version
    BY <1>2, <1>3, <1>4 DEF LeaderboardInv, NoDayForgotten, TypeOK, DayRows
  <2>5. \A e \in Days : day'[e].applied < day'[e].version => day'[e].due \/ day'[e].claim # Nobody
    BY <1>3, <1>4 DEF LeaderboardInv, NoDayForgotten
  <2>6. active' \in BOOLEAN /\ held' \in [Workers -> [Days -> Nat]]
    BY DEF Count, LeaderboardInv, NoDayForgotten, TypeOK
  <2> QED
    BY <1>3, <2>1, <2>3, <2>4, <2>5, <2>6 DEF NoDayForgotten, TypeOK
<1>6. DaysRefreshed'
  BY <1>2, <1>3, <1>4 DEF Count, LeaderboardInv, DaysRefreshed
<1>7. IndexFollows'
  BY IndexKept DEF Count, index
<1>8. ScoreFollows'
  <2>1. day'[d].applied < day'[d].version
    BY <1>2, <1>3, <1>4 DEF LeaderboardInv, NoDayForgotten, TypeOK, DayRows
  <2>2. ~Refreshed'
    BY <2>1, <1>4, <1>3 DEF Refreshed, DayRows
  <2> QED
    BY <2>2 DEF ScoreFollows
<1> QED
  BY <1>1, <1>5, <1>6, <1>7, <1>8 DEF LeaderboardInv

LEMMA SetStatusKeeps ==
    ASSUME LeaderboardInv, SetStatus
    PROVE  LeaderboardInv'
<1>1. /\ statuses' = statuses + 1 /\ active' = ~active
      /\ UNCHANGED <<index, counted, day, held, work, mishaps, history>>
      /\ active \in BOOLEAN
      /\ score \in [tokens : Scores, eligible : BOOLEAN, revision : Nat]
  BY DEF SetStatus, LeaderboardInv, NoDayForgotten, TypeOK, DataTyped
<1>2. \/ UNCHANGED <<score, outbox>> /\ score.eligible = active'
      \/ Rescored(score.tokens, active')
  BY DEF SetStatus
<1>3. /\ score' \in [tokens : Scores, eligible : BOOLEAN, revision : Nat]
      /\ outbox' \in Seq(OutboxRows)
      /\ IndexFollows'
  BY <1>1, <1>2, ScoreWritten DEF index
<1>4. DataTyped'
  BY <1>1, <1>3, DataKept DEF LeaderboardInv, DataTyped, history
<1>5. NoDayForgotten' /\ DaysRefreshed'
  BY <1>1 DEF LeaderboardInv, NoDayForgotten, TypeOK, DaysRefreshed
<1>6. score'.tokens = score.tokens /\ score'.eligible = active'
  BY <1>2 DEF Rescored
<1>7. ScoreFollows'
  BY <1>1, <1>6 DEF LeaderboardInv, ScoreFollows, Refreshed, history
<1> QED
  BY <1>3, <1>4, <1>5, <1>7 DEF LeaderboardInv

LEMMA ReclaimKeeps ==
    ASSUME LeaderboardInv, NEW w \in Workers, Reclaim(w)
    PROVE  LeaderboardInv'
<1>1. PICK d \in Days : /\ day' = [day EXCEPT ![d] = Released(@)]
                        /\ mishaps' \in {mishaps, mishaps + 1}
  BY DEF Reclaim, Mishap
<1>2. UNCHANGED <<index, counted, active, score, outbox, held, work, statuses, history>>
  BY DEF Reclaim
<1>3. DataTyped'
  BY <1>1, <1>2, DataKept DEF LeaderboardInv, DataTyped, history
<1>4. /\ day \in [Days -> DayRows]
      /\ day' = [day EXCEPT ![d] = [day[d] EXCEPT !.due = TRUE, !.claim = Nobody]]
  BY <1>1 DEF LeaderboardInv, NoDayForgotten, TypeOK, Released
<1>5. /\ day' \in [Days -> DayRows] /\ day'[d].due
      /\ \A e \in Days : /\ day'[e].version = day[e].version
                         /\ day'[e].applied = day[e].applied
                         /\ e # d => day'[e] = day[e]
  BY <1>4 DEF DayRows
<1>6. NoDayForgotten' /\ DaysRefreshed'
  BY <1>2, <1>5 DEF LeaderboardInv, NoDayForgotten, TypeOK, DaysRefreshed
<1>7. IndexFollows'
  BY <1>2, IndexKept DEF index
<1>8. ScoreFollows'
  BY <1>2, <1>5 DEF LeaderboardInv, ScoreFollows, Refreshed, history
<1> QED
  BY <1>3, <1>6, <1>7, <1>8 DEF LeaderboardInv

LEMMA ClaimDaysKeeps ==
    ASSUME LeaderboardInv, NEW w \in Workers, ClaimDays(w)
    PROVE  LeaderboardInv'
<1>1. PICK some \in SUBSET Days :
          /\ day' = [d \in Days |-> IF d \in some
                                    THEN [day[d] EXCEPT !.due = FALSE, !.claim = w]
                                    ELSE day[d]]
          /\ held' = [held EXCEPT ![w] = [d \in Days |-> IF d \in some THEN day[d].version
                                                         ELSE 0]]
  BY DEF ClaimDays
<1>2. UNCHANGED <<index, counted, active, score, outbox, work, statuses, mishaps, history>>
      /\ work[w] = Idle
  BY DEF ClaimDays, Free
<1>3. DataTyped'
  BY <1>2, DataKept DEF LeaderboardInv, DataTyped, history
<1>4. day \in [Days -> DayRows] /\ held \in [Workers -> [Days -> Nat]]
  BY DEF LeaderboardInv, NoDayForgotten, TypeOK
<1>5. /\ day' \in [Days -> DayRows]
      /\ \A d \in Days : /\ day'[d].version = day[d].version
                         /\ day'[d].applied = day[d].applied
                         /\ day'[d] = day[d] \/ day'[d].claim = w
  BY <1>1, <1>4 DEF DayRows
<1>6. /\ held' \in [Workers -> [Days -> Nat]]
      /\ \A d \in Days : held'[w][d] <= day[d].version
      /\ \A v \in Workers \ {w} : held'[v] = held[v]
  <2>1. [d \in Days |-> IF d \in some THEN day[d].version ELSE 0] \in [Days -> Nat]
    BY <1>4 DEF DayRows
  <2>2. \A v \in Workers : held'[v] = IF v = w THEN [d \in Days |-> IF d \in some THEN day[d].version
                                                    ELSE 0] ELSE held[v]
    BY <1>1, <1>4
  <2>3. held' \in [Workers -> [Days -> Nat]]
    BY <1>1, <1>4, <2>1
  <2>4. \A d \in Days : held'[w][d] = day[d].version \/ held'[w][d] = 0
    BY <2>2
  <2>5. \A d \in Days : day[d].version \in Nat
    BY <1>4 DEF DayRows
  <2>6. \A d \in Days : held'[w][d] <= day[d].version
    BY <2>4, <2>5
  <2> QED BY <2>2, <2>3, <2>6
<1>7. NoDayForgotten'
  <2>1. \A v \in Workers, d \in Days : held'[v][d] <= day'[d].version
    BY <1>5, <1>6 DEF LeaderboardInv, NoDayForgotten, TypeOK
  <2>2. \A d \in Days : day'[d].applied < day'[d].version => day'[d].due \/ day'[d].claim # Nobody
    BY <1>5 DEF LeaderboardInv, NoDayForgotten
  <2> QED
    BY <1>2, <1>5, <1>6, <2>1, <2>2 DEF LeaderboardInv, NoDayForgotten, TypeOK
<1>8. DaysRefreshed'
  BY <1>2, <1>5, <1>6 DEF LeaderboardInv, DaysRefreshed, Idle
<1>9. IndexFollows'
  BY <1>2, IndexKept DEF index
<1>10. ScoreFollows'
  BY <1>2, <1>5 DEF LeaderboardInv, ScoreFollows, Refreshed, history
<1> QED
  BY <1>3, <1>7, <1>8, <1>9, <1>10 DEF LeaderboardInv

LEMMA BeginRefreshKeeps ==
    ASSUME LeaderboardInv, NEW w \in Workers, BeginRefresh(w)
    PROVE  LeaderboardInv'
<1> DEFINE begun(d) == [pc |-> "refreshing", day |-> d, view |-> counted, active |-> active]
<1>1. PICK d \in Days : Becomes(w, begun(d))
  BY DEF BeginRefresh
<1> DEFINE doing == begun(d)
<1>2. doing \in Doings
  BY DEF LeaderboardInv, NoDayForgotten, TypeOK, Doings
<1>3. /\ work' \in [Workers -> Doings] /\ work'[w] = doing
      /\ \A v \in Workers \ {w} : work'[v] = work[v]
  <2> HIDE DEF begun
  <2> QED BY <1>1, <1>2, OneWorkerTyped
<1>4. UNCHANGED <<index, tables, held, statuses, mishaps, history>>
  BY DEF BeginRefresh
<1>5. DataTyped'
  BY <1>3, <1>4, DataKept DEF LeaderboardInv, DataTyped, history, tables
<1>6. NoDayForgotten'
  BY <1>4 DEF LeaderboardInv, NoDayForgotten, TypeOK, tables
<1>7. DaysRefreshed'
  <2>1. counted[d] >= held[w][d]
    BY DEF LeaderboardInv, NoDayForgotten, TypeOK, DaysRefreshed
  <2> QED
    BY <1>3, <1>4, <2>1 DEF LeaderboardInv, DaysRefreshed, tables
<1>8. IndexFollows'
  BY <1>3, <1>4, IndexKept DEF index, tables
<1>9. ScoreFollows'
  BY <1>4, ScoreKept DEF tables, history
<1> QED
  BY <1>5, <1>6, <1>7, <1>8, <1>9 DEF LeaderboardInv

\* A score written from a view of the statistics.
LEMMA WriteScoreWrites ==
    ASSUME LeaderboardInv, UNCHANGED member, NEW tokens \in Scores, NEW eligible \in BOOLEAN,
           WriteScore(tokens, eligible),
           \A w \in Workers : work'[w].pc \in {"claimed", "sent"} => work'[w] = work[w]
    PROVE  /\ score' \in [tokens : Scores, eligible : BOOLEAN, revision : Nat]
           /\ outbox' \in Seq(OutboxRows)
           /\ score'.tokens = tokens /\ score'.eligible = eligible
           /\ IndexFollows'
<1>1. \/ UNCHANGED <<score, outbox>> /\ score.tokens = tokens /\ score.eligible = eligible
      \/ Rescored(tokens, eligible)
  BY DEF WriteScore
<1>2. score'.tokens = tokens /\ score'.eligible = eligible
  BY <1>1 DEF Rescored
<1> QED
  BY <1>1, <1>2, ScoreWritten

LEMMA CommitRefreshKeeps ==
    ASSUME LeaderboardInv, NEW w \in Workers, CommitRefresh(w)
    PROVE  LeaderboardInv'
<1> DEFINE d == work[w].day
           view == work[w].view
           seen == work[w].active
<1>1. /\ work[w].pc = "refreshing" /\ d \in Days /\ view \in [Days -> Nat] /\ seen \in BOOLEAN
      /\ WriteScore(Total(view), seen)
      /\ day' = IF day[d].claim = w THEN [day EXCEPT ![d] = Confirmed(day[d], held[w][d])]
                ELSE day
      /\ held' = [held EXCEPT ![w] = [held[w] EXCEPT ![d] = 0]]
      /\ torn' = (Refreshed' /\ (view # counted \/ seen # active))
      /\ Becomes(w, Idle)
      /\ UNCHANGED <<index, counted, active, statuses, mishaps, unmarked>>
  BY DoingFields DEF CommitRefresh, LeaderboardInv, DataTyped
<1> HIDE DEF d, view, seen
<1>2. /\ work' \in [Workers -> Doings] /\ work'[w].pc = "idle"
      /\ \A v \in Workers \ {w} : work'[v] = work[v]
  BY <1>1, IdleTyped, OneWorkerTyped
<1>3. /\ score' \in [tokens : Scores, eligible : BOOLEAN, revision : Nat]
      /\ outbox' \in Seq(OutboxRows)
      /\ score'.tokens = Total(view) /\ score'.eligible = seen
      /\ IndexFollows'
  <2>1. Total(view) \in Scores
    BY <1>1 DEF Scores
  <2>2. \A v \in Workers : work'[v].pc \in {"claimed", "sent"} => work'[v] = work[v]
    BY <1>2
  <2>3. UNCHANGED member
    BY <1>1 DEF index
  <2> QED
    BY <1>1, <2>1, <2>2, <2>3, WriteScoreWrites
<1>4. DataTyped'
  <2>1. torn' \in BOOLEAN
    BY <1>1
  <2>2. unmarked' \in BOOLEAN
    BY <1>1 DEF LeaderboardInv, DataTyped
  <2> QED
    BY <1>1, <1>2, <1>3, <2>1, <2>2, DataKept
<1>5. /\ day \in [Days -> DayRows] /\ held \in [Workers -> [Days -> Nat]]
      /\ held[w][d] <= day[d].version /\ held[w][d] \in Nat
      /\ day[d] \in DayRows
  BY <1>1 DEF LeaderboardInv, NoDayForgotten, TypeOK
<1> DEFINE row == Confirmed(day[d], held[w][d])
<1>6. /\ row \in DayRows /\ row.version = day[d].version
      /\ row.applied <= row.version
      /\ row.applied < row.version => row.due
  <2>1. CASE day[d].version > held[w][d]
    <3>1. row = [day[d] EXCEPT !.due = TRUE, !.claim = Nobody]
      BY <2>1 DEF Confirmed, Released
    <3> QED
      BY <1>1, <1>5, <3>1 DEF DayRows, LeaderboardInv, NoDayForgotten, TypeOK
  <2>2. CASE ~(day[d].version > held[w][d])
    <3>1. row = [day[d] EXCEPT !.applied = held[w][d], !.claim = Nobody, !.due = FALSE]
      BY <2>2 DEF Confirmed
    <3>2. day[d].version \in Nat
      BY <1>5 DEF DayRows
    <3>3. held[w][d] = day[d].version
      BY <1>5, <2>2, <3>2
    <3>4. /\ row \in DayRows /\ row.version = day[d].version
          /\ row.applied = held[w][d]
      <4> HIDE DEF row
      <4> QED BY <1>5, <3>1 DEF DayRows
    <3> QED
      BY <3>2, <3>3, <3>4
  <2> QED
    BY <2>1, <2>2
<1> HIDE DEF row
<1>7. /\ day' \in [Days -> DayRows]
      /\ \A e \in Days : /\ day'[e].version = day[e].version
                         /\ (day'[e] = day[e] \/ (e = d /\ day'[e] = row))
  <2>1. CASE day[d].claim = w
    <3>1. day' = [day EXCEPT ![d] = row]
      BY <1>1, <2>1 DEF row
    <3> QED BY <1>1, <1>5, <1>6, <3>1
  <2>2. CASE day[d].claim # w
    BY <1>1, <1>5, <2>2
  <2> QED BY <2>1, <2>2
<1>8. /\ held' \in [Workers -> [Days -> Nat]]
      /\ \A v \in Workers, e \in Days : held'[v][e] = held[v][e] \/ held'[v][e] = 0
      /\ \A v \in Workers \ {w} : held'[v] = held[v]
  BY <1>1, <1>5
<1>9. NoDayForgotten'
  <2>1. \A e \in Days : day'[e].applied <= day'[e].version
    BY <1>6, <1>7 DEF LeaderboardInv, NoDayForgotten, TypeOK
  <2>2. \A e \in Days : day'[e].applied < day'[e].version => day'[e].due \/ day'[e].claim # Nobody
    BY <1>6, <1>7 DEF LeaderboardInv, NoDayForgotten
  <2>3. \A v \in Workers, e \in Days : held'[v][e] <= day'[e].version
    <3> SUFFICES ASSUME NEW v \in Workers, NEW e \in Days PROVE held'[v][e] <= day'[e].version
      OBVIOUS
    <3>1. day[e].version \in Nat /\ held[v][e] <= day[e].version
      BY <1>5 DEF DayRows, LeaderboardInv, NoDayForgotten, TypeOK
    <3> QED BY <3>1, <1>7, <1>8
  <2> QED
    BY <1>1, <1>7, <1>8, <2>1, <2>2, <2>3 DEF LeaderboardInv, NoDayForgotten, TypeOK
<1>10. DaysRefreshed'
  <2>1. \A e \in Days : day'[e].version = counted'[e]
    BY <1>1, <1>7 DEF LeaderboardInv, DaysRefreshed
  <2>2. \A v \in Workers : work'[v].pc = "refreshing" => v # w
    BY <1>2
  <2> QED
    BY <2>1, <2>2, <1>2, <1>8 DEF LeaderboardInv, DaysRefreshed
<1>11. ScoreFollows'
  BY <1>1, <1>3 DEF ScoreFollows
<1> QED
  BY <1>3, <1>4, <1>9, <1>10, <1>11 DEF LeaderboardInv

LEMMA BeginBackfillKeeps ==
    ASSUME LeaderboardInv, NEW w \in Workers, BeginBackfill(w)
    PROVE  LeaderboardInv'
<1> DEFINE doing == [pc |-> "backfilling", view |-> counted]
<1>1. doing \in Doings
  BY DEF LeaderboardInv, NoDayForgotten, TypeOK, Doings
<1>2. Becomes(w, doing) /\ UNCHANGED <<index, tables, held, statuses, mishaps, history>>
  BY DEF BeginBackfill
<1>3. /\ work' \in [Workers -> Doings] /\ work'[w].pc = "backfilling"
      /\ \A v \in Workers \ {w} : work'[v] = work[v]
  BY <1>1, <1>2, OneWorkerTyped
<1>4. DataTyped'
  BY <1>2, <1>3, DataKept DEF LeaderboardInv, DataTyped, history, tables
<1>5. NoDayForgotten' /\ DaysRefreshed'
  BY <1>2, <1>3, DaysKept DEF tables
<1>6. IndexFollows'
  BY <1>2, <1>3, IndexKept DEF index, tables
<1>7. ScoreFollows'
  BY <1>2, ScoreKept DEF tables, history
<1> QED
  BY <1>4, <1>5, <1>6, <1>7 DEF LeaderboardInv

LEMMA CommitBackfillKeeps ==
    ASSUME LeaderboardInv, NEW w \in Workers, CommitBackfill(w)
    PROVE  LeaderboardInv'
<1> DEFINE view == work[w].view
           tokens == IF score.tokens > 0 THEN score.tokens ELSE Total(view)
<1>1. /\ view \in [Days -> Nat] /\ WriteScore(tokens, TRUE) /\ Becomes(w, Idle)
      /\ torn' = (torn \/ (Refreshed /\ (view # counted \/ ~active)))
      /\ UNCHANGED <<index, counted, active, day, held, statuses, mishaps, unmarked>>
  BY DoingFields DEF CommitBackfill, LeaderboardInv, DataTyped
<1>2. /\ work' \in [Workers -> Doings] /\ work'[w].pc = "idle"
      /\ \A v \in Workers \ {w} : work'[v] = work[v]
  BY <1>1, IdleTyped, OneWorkerTyped
<1>3. /\ score' \in [tokens : Scores, eligible : BOOLEAN, revision : Nat]
      /\ outbox' \in Seq(OutboxRows)
      /\ score'.tokens = tokens /\ score'.eligible = TRUE
      /\ IndexFollows'
  <2>1. tokens \in Scores
    BY <1>1 DEF Scores, LeaderboardInv, DataTyped
  <2>2. \A v \in Workers : work'[v].pc \in {"claimed", "sent"} => work'[v] = work[v]
    BY <1>2
  <2>3. UNCHANGED member
    BY <1>1 DEF index
  <2> HIDE DEF tokens
  <2> QED
    BY <1>1, <2>1, <2>2, <2>3, WriteScoreWrites
<1>4. DataTyped'
  <2>1. torn' \in BOOLEAN /\ unmarked' \in BOOLEAN
    BY <1>1 DEF LeaderboardInv, DataTyped
  <2> QED
    BY <1>1, <1>2, <1>3, <2>1, DataKept
<1>5. NoDayForgotten' /\ DaysRefreshed'
  BY <1>1, <1>2, DaysKept
<1>6. ScoreFollows'
  <2> SUFFICES ASSUME Refreshed', ~torn' PROVE score'.tokens = Total(counted) /\ active
    BY <1>1 DEF ScoreFollows
  <2>1. Refreshed
    BY <1>1 DEF Refreshed
  <2>2. ~torn /\ view = counted /\ active
    BY <1>1, <2>1
  <2>3. score.tokens = Total(counted)
    BY <2>1, <2>2 DEF LeaderboardInv, ScoreFollows
  <2> QED
    BY <1>3, <2>2, <2>3
<1> QED
  BY <1>3, <1>4, <1>5, <1>6 DEF LeaderboardInv

-----------------------------------------------------------------------------
(* The outbox and the index.                                               *)

LEMMA ClaimRowKeeps ==
    ASSUME LeaderboardInv, NEW w \in Workers, ClaimRow(w)
    PROVE  LeaderboardInv'
<1>1. PICK k \in DOMAIN outbox :
          /\ outbox[k].status # "applied"
          /\ mishaps' \in {mishaps, mishaps + 1}
          /\ outbox' = [outbox EXCEPT ![k].status = "leased", ![k].by = w]
          /\ Becomes(w, [pc |-> "claimed", row |-> k])
  BY DEF ClaimRow, Mishap
<1>2. UNCHANGED <<index, counted, active, day, score, held, statuses, history>>
  BY DEF ClaimRow
<1>3. k \in 1 .. Len(outbox) /\ k \in Nat
  BY <1>1, LenProperties DEF LeaderboardInv, DataTyped
<1> DEFINE doing == [pc |-> "claimed", row |-> k]
<1>4. doing \in Doings
  BY <1>3 DEF Doings
<1>5. /\ work' \in [Workers -> Doings] /\ work'[w] = doing
      /\ \A v \in Workers \ {w} : work'[v] = work[v]
  BY <1>1, <1>4, OneWorkerTyped
<1>6. outbox' \in Seq(OutboxRows)
  BY <1>1, <1>3, RowMarked
<1>7. DataTyped'
  BY <1>1, <1>2, <1>5, <1>6, DataKept DEF LeaderboardInv, DataTyped, history
<1>8. NoDayForgotten' /\ DaysRefreshed'
  BY <1>2, <1>5, DaysKept
<1>9. IndexFollows'
  <2>1. \A v \in Workers :
              \/ work'[v] = work[v] \/ work'[v].pc \notin {"claimed", "sent"}
              \/ work'[v].pc = "claimed" /\ work'[v].row = k
    BY <1>5
  <2>2. UNCHANGED <<score, member>>
    BY <1>2 DEF index
  <2> QED
    BY <1>1, <1>3, <2>1, <2>2, IndexKeptByMark
<1>10. ScoreFollows'
  BY <1>2, ScoreKept DEF history
<1> QED
  BY <1>7, <1>8, <1>9, <1>10 DEF LeaderboardInv

\* Applying a row of the outbox brings the index to it or past it.
LEMMA Applied ==
    ASSUME LeaderboardInv, NEW k \in 1 .. Len(outbox), Apply(outbox[k]),
           UNCHANGED <<score, outbox>>
    PROVE  /\ Captured' \in Snapshots /\ hot' \in Snapshots /\ dirty' \in BOOLEAN
           /\ IndexShowsARow'
           /\ member'.revision >= member.revision
           /\ member'.revision >= k - 1
<1>1. /\ outbox[k] \in OutboxRows /\ outbox[k].revision = k - 1
      /\ Len(outbox) = score.revision + 1 /\ score.revision \in Nat
      /\ member.revision \in -1 .. score.revision
      /\ changes \in Nat /\ hot \in Snapshots /\ Captured \in Snapshots /\ dirty \in BOOLEAN
  BY ElementOfSeq
     DEF LeaderboardInv, DataTyped, IndexFollows, OutboxInOrder, IndexShowsARow, Captured, Snapshots
<1>2. CASE Ignored(outbox[k]) /\ UNCHANGED index
  <2>1. member.revision >= k - 1
    BY <1>1, <1>2 DEF Ignored
  <2> QED
    BY <1>1, <1>2, <2>1 DEF index, Captured, LeaderboardInv, IndexFollows, IndexShowsARow
<1>3. CASE /\ ~Ignored(outbox[k])
           /\ member' = [revision |-> outbox[k].revision, listed |-> outbox[k].listed,
                         tokens |-> IF outbox[k].listed THEN outbox[k].tokens ELSE 0]
           /\ changes' = changes + 1
           /\ dirty' = TRUE
           /\ UNCHANGED hot
  <2>1. k - 1 >= member.revision
    BY <1>1, <1>3 DEF Ignored
  <2>2. /\ member'.revision = k - 1 /\ member'.listed = outbox[k].listed
        /\ member'.listed => member'.tokens = outbox[k].tokens
    BY <1>1, <1>3
  <2>3. member' \in [revision : Int, listed : BOOLEAN, tokens : Scores]
    BY <1>1, <1>3, ScoresHaveZero DEF OutboxRows
  <2>4. Captured' \in Snapshots
    BY <1>1, <1>3, <2>3 DEF Captured, Snapshots
  <2>5. IndexShowsARow'
    <3>1. member'.revision + 1 = k /\ member'.revision \in -1 .. score.revision
      BY <1>1, <2>2
    <3> QED
      BY <2>2, <3>1 DEF IndexShowsARow
  <2> QED
    BY <1>1, <1>3, <2>1, <2>2, <2>4, <2>5
<1> QED
  BY <1>2, <1>3 DEF Apply

LEMMA SendRowKeeps ==
    ASSUME LeaderboardInv, NEW w \in Workers, SendRow(w)
    PROVE  LeaderboardInv'
<1> DEFINE k == work[w].row
           doing == [pc |-> "sent", row |-> k]
<1>1. /\ Apply(outbox[k]) /\ k \in 1 .. Len(outbox) /\ Becomes(w, doing)
      /\ UNCHANGED <<tables, held, statuses, mishaps, torn>>
      /\ unmarked' \in BOOLEAN
  BY DEF SendRow, LeaderboardInv, IndexFollows, SentIsReached
<1>2. k \in Nat /\ doing \in Doings
  BY <1>1 DEF Doings
<1> HIDE DEF k
<1>3. /\ work' \in [Workers -> Doings] /\ work'[w] = doing
      /\ \A v \in Workers \ {w} : work'[v] = work[v]
  BY <1>1, <1>2, OneWorkerTyped
<1>4. /\ Captured' \in Snapshots /\ hot' \in Snapshots /\ dirty' \in BOOLEAN
      /\ IndexShowsARow'
      /\ member'.revision >= member.revision
      /\ member'.revision >= k - 1
  BY <1>1, Applied DEF tables
<1>5. DataTyped'
  BY <1>1, <1>3, <1>4, DataKept DEF LeaderboardInv, DataTyped, tables
<1>6. NoDayForgotten' /\ DaysRefreshed'
  BY <1>1, <1>3, DaysKept DEF tables
<1>7. OutboxInOrder'
  BY <1>1 DEF LeaderboardInv, IndexFollows, OutboxInOrder, tables
<1>8. SentIsReached'
  <2>1. member.revision \in Int /\ member'.revision \in Int
    BY <1>4 DEF LeaderboardInv, DataTyped, Captured, Snapshots
  <2>2. \A j \in 1 .. Len(outbox') : outbox'[j].status = "applied" => member'.revision >= j - 1
    BY <1>1, <1>4, <2>1 DEF LeaderboardInv, IndexFollows, SentIsReached, tables
  <2>3. ASSUME NEW v \in Workers, work'[v].pc \in {"claimed", "sent"}
        PROVE  /\ work'[v].row \in 1 .. Len(outbox')
               /\ work'[v].pc = "sent" => member'.revision >= work'[v].row - 1
    <3>1. CASE v = w
      BY <1>1, <1>3, <1>4, <3>1 DEF tables
    <3>2. CASE v # w
      BY <1>1, <1>3, <1>4, <2>1, <2>3, <3>2
         DEF LeaderboardInv, IndexFollows, SentIsReached, tables
    <3> QED BY <3>1, <3>2
  <2> QED
    BY <2>2, <2>3 DEF SentIsReached
<1>9. ScoreFollows'
  BY <1>1, ScoreKept DEF tables
<1> QED
  BY <1>4, <1>5, <1>6, <1>7, <1>8, <1>9 DEF LeaderboardInv, IndexFollows

\* An answer reaches the row if it is still leased by the worker.
LEMMA AnsweredKeeps ==
    ASSUME LeaderboardInv, NEW w \in Workers, NEW status \in {"pending", "applied"},
           work[w].pc \in {"claimed", "sent"},
           status = "applied" => work[w].pc = "sent",
           Answered(w, status), Becomes(w, Idle), mishaps' \in {mishaps, mishaps + 1},
           UNCHANGED <<index, counted, active, day, score, held, statuses, history>>
    PROVE  LeaderboardInv'
<1> DEFINE k == work[w].row
<1>1. /\ work' \in [Workers -> Doings] /\ work'[w].pc = "idle"
      /\ \A v \in Workers \ {w} : work'[v] = work[v]
  BY IdleTyped, OneWorkerTyped
<1>2. /\ k \in 1 .. Len(outbox) /\ (status = "applied" => member.revision >= k - 1)
  BY DEF LeaderboardInv, IndexFollows, SentIsReached
<1>3. \/ UNCHANGED outbox
      \/ outbox' = [outbox EXCEPT ![k].status = status, ![k].by = Nobody]
  BY DEF Answered
<1> HIDE DEF k
<1>4. outbox' \in Seq(OutboxRows) /\ IndexFollows'
  <2>1. CASE UNCHANGED outbox
    BY <1>1, <2>1, IndexKept DEF LeaderboardInv, DataTyped, index
  <2>2. CASE outbox' = [outbox EXCEPT ![k].status = status, ![k].by = Nobody]
    <3>1. \A v \in Workers : work'[v] = work[v] \/ work'[v].pc \notin {"claimed", "sent"}
      BY <1>1
    <3>2. UNCHANGED <<score, member>>
      BY DEF index
    <3> QED
      BY <1>2, <2>2, <3>1, <3>2, RowMarked, IndexKeptByMark
  <2> QED
    BY <1>3, <2>1, <2>2
<1>5. DataTyped'
  BY <1>1, <1>4, DataKept DEF LeaderboardInv, DataTyped, history
<1>6. NoDayForgotten' /\ DaysRefreshed'
  BY <1>1, DaysKept
<1>7. ScoreFollows'
  BY ScoreKept DEF history
<1> QED
  BY <1>4, <1>5, <1>6, <1>7 DEF LeaderboardInv

LEMMA AckRowKeeps ==
    ASSUME LeaderboardInv, NEW w \in Workers, AckRow(w)
    PROVE  LeaderboardInv'
BY AnsweredKeeps DEF AckRow

LEMMA RetryRowKeeps ==
    ASSUME LeaderboardInv, NEW w \in Workers, RetryRow(w)
    PROVE  LeaderboardInv'
BY AnsweredKeeps DEF RetryRow, Mishap

-----------------------------------------------------------------------------
(* The hot snapshot, and a worker that stops.                              *)

\* Steps that concern the snapshot alone: the worker turns to its next doing.
LEMMA SnapshotStep ==
    ASSUME LeaderboardInv, NEW w \in Workers, NEW doing \in Doings, Becomes(w, doing),
           doing.pc \in {"idle", "seen", "cleared", "captured"},
           UNCHANGED <<member, changes, tables, statuses, torn>>,
           hot' \in Snapshots, dirty' \in BOOLEAN, unmarked' \in BOOLEAN,
           mishaps' \in {mishaps, mishaps + 1},
           \/ UNCHANGED held
           \/ held' = [held EXCEPT ![w] = [d \in Days |-> 0]]
    PROVE  LeaderboardInv'
<1>1. /\ work' \in [Workers -> Doings] /\ work'[w] = doing
      /\ \A v \in Workers \ {w} : work'[v] = work[v]
  BY OneWorkerTyped
<1>2. DataTyped'
  BY <1>1, DataKept DEF LeaderboardInv, DataTyped, Captured, tables
<1>3. /\ held \in [Workers -> [Days -> Nat]] /\ day \in [Days -> DayRows]
      /\ held' \in [Workers -> [Days -> Nat]]
      /\ \A v \in Workers, d \in Days : held'[v][d] = held[v][d] \/ held'[v][d] = 0
      /\ \A v \in Workers \ {w} : held'[v] = held[v]
  <2>1. held \in [Workers -> [Days -> Nat]] /\ day \in [Days -> DayRows]
    BY DEF LeaderboardInv, NoDayForgotten, TypeOK
  <2>2. [d \in Days |-> 0] \in [Days -> Nat]
    OBVIOUS
  <2>3. CASE UNCHANGED held
    BY <2>1, <2>3
  <2>4. CASE held' = [held EXCEPT ![w] = [d \in Days |-> 0]]
    BY <2>1, <2>2, <2>4
  <2> QED BY <2>1, <2>3, <2>4
<1>4. NoDayForgotten'
  <2>1. \A v \in Workers, d \in Days : held'[v][d] <= day[d].version
    <3> SUFFICES ASSUME NEW v \in Workers, NEW d \in Days PROVE held'[v][d] <= day[d].version
      OBVIOUS
    <3>1. day[d].version \in Nat /\ held[v][d] <= day[d].version
      BY <1>3 DEF DayRows, LeaderboardInv, NoDayForgotten, TypeOK
    <3> QED BY <3>1, <1>3
  <2> QED
    BY <1>3, <2>1 DEF LeaderboardInv, NoDayForgotten, TypeOK, tables
<1>5. DaysRefreshed'
  BY <1>1, <1>3 DEF LeaderboardInv, DaysRefreshed, tables
<1>6. IndexFollows'
  BY <1>1, IndexKept DEF tables
<1>7. ScoreFollows'
  BY ScoreKept DEF tables
<1> QED
  BY <1>2, <1>4, <1>5, <1>6, <1>7 DEF LeaderboardInv

LEMMA SeeWindowKeeps ==
    ASSUME LeaderboardInv, NEW w \in Workers, SeeWindow(w)
    PROVE  LeaderboardInv'
<1>1. hot \in Snapshots /\ dirty \in BOOLEAN /\ unmarked \in BOOLEAN
  BY DEF LeaderboardInv, DataTyped
<1> DEFINE doing == [pc |-> IF dirty THEN "seen" ELSE "cleared", wasDirty |-> dirty]
<1>2. doing \in Doings /\ doing.pc \in {"seen", "cleared"}
  BY <1>1 DEF Doings
<1>3. Becomes(w, doing) /\ UNCHANGED <<index, tables, held, statuses, mishaps, history>>
  BY DEF SeeWindow
<1> HIDE DEF doing
<1> QED
  BY <1>1, <1>2, <1>3, SnapshotStep DEF index, history

LEMMA ClearDirtyKeeps ==
    ASSUME LeaderboardInv, NEW w \in Workers, ClearDirty(w)
    PROVE  LeaderboardInv'
<1>1. /\ hot \in Snapshots /\ unmarked \in BOOLEAN
      /\ work[w] \in Doings /\ work[w].pc = "seen"
  BY DEF LeaderboardInv, DataTyped, ClearDirty
<1> DEFINE doing == [work[w] EXCEPT !.pc = "cleared"]
<1>2. doing \in Doings /\ doing.pc = "cleared"
  BY <1>1 DEF Doings, Idle
<1>3. /\ Becomes(w, doing) /\ dirty' = FALSE
      /\ UNCHANGED <<member, changes, hot, tables, held, statuses, mishaps, history>>
  BY DEF ClearDirty
<1> HIDE DEF doing
<1> QED
  BY <1>1, <1>2, <1>3, SnapshotStep DEF history

LEMMA CaptureKeeps ==
    ASSUME LeaderboardInv, NEW w \in Workers, Capture(w)
    PROVE  LeaderboardInv'
<1>1. /\ hot \in Snapshots /\ dirty \in BOOLEAN /\ unmarked \in BOOLEAN /\ Captured \in Snapshots
      /\ work[w].pc = "cleared" /\ work[w].wasDirty \in BOOLEAN
  BY DoingFields DEF LeaderboardInv, DataTyped, Capture
<1> DEFINE doing == IF hot.changes = changes THEN Idle
                    ELSE [pc |-> "captured", wasDirty |-> work[w].wasDirty,
                          snapshot |-> Captured]
<1>2. doing \in Doings /\ doing.pc \in {"idle", "captured"}
  BY <1>1, IdleTyped DEF Doings
<1>3. Becomes(w, doing) /\ UNCHANGED <<index, tables, held, statuses, mishaps, history>>
  BY DEF Capture
<1> HIDE DEF doing
<1> QED
  BY <1>1, <1>2, <1>3, SnapshotStep DEF index, history

\* A published snapshot is no older than the one before it.
LEMMA Published ==
    ASSUME LeaderboardInv, NEW w \in Workers, PublishHot(w)
    PROVE  /\ hot' \in Snapshots /\ dirty' \in BOOLEAN /\ hot'.changes >= hot.changes
           /\ UNCHANGED <<member, changes>>
<1>1. /\ hot \in Snapshots /\ dirty \in BOOLEAN
      /\ work[w].snapshot \in Snapshots /\ work[w].wasDirty \in BOOLEAN
  BY DoingFields DEF LeaderboardInv, DataTyped, PublishHot
<1> QED
  BY <1>1 DEF PublishHot, Publish, StaleSnapshot, Snapshots

LEMMA PublishHotKeeps ==
    ASSUME LeaderboardInv, NEW w \in Workers, PublishHot(w)
    PROVE  LeaderboardInv'
<1>1. Becomes(w, Idle) /\ UNCHANGED <<tables, held, statuses, mishaps, history>>
  BY DEF PublishHot
<1> QED
  BY <1>1, Published, IdleTyped, SnapshotStep DEF history, LeaderboardInv, DataTyped

LEMMA PublishFailsKeeps ==
    ASSUME LeaderboardInv, NEW w \in Workers, PublishFails(w)
    PROVE  LeaderboardInv'
<1>1. /\ Becomes(w, Idle) /\ mishaps' = mishaps + 1 /\ dirty' = (dirty \/ work[w].wasDirty)
      /\ UNCHANGED <<member, changes, hot, tables, held, statuses, history>>
  BY DEF PublishFails, Mishap
<1>2. dirty' \in BOOLEAN
  BY <1>1
<1> QED
  BY <1>1, <1>2, IdleTyped, SnapshotStep DEF history, LeaderboardInv, DataTyped

LEMMA StopKeeps ==
    ASSUME LeaderboardInv, NEW w \in Workers, Stop(w)
    PROVE  LeaderboardInv'
<1>1. /\ Becomes(w, Idle) /\ mishaps' = mishaps + 1
      /\ held' = [held EXCEPT ![w] = [d \in Days |-> 0]]
      /\ UNCHANGED <<index, tables, statuses, torn>>
      /\ unmarked' \in BOOLEAN
  BY DEF Stop, Mishap
<1> QED
  BY <1>1, IdleTyped, SnapshotStep DEF index, LeaderboardInv, DataTyped

-----------------------------------------------------------------------------

LEMMA StepKeeps == LeaderboardInv /\ [Next]_vars => LeaderboardInv'
<1> SUFFICES ASSUME LeaderboardInv, [Next]_vars PROVE LeaderboardInv'
  OBVIOUS
<1>1. CASE UNCHANGED vars
  <2>1. UNCHANGED <<counted, active, day, score, outbox, held, work, statuses, mishaps, torn,
                    unmarked, member, changes, dirty, hot>>
    BY <1>1 DEF vars, index, tables, history
  <2>2. DataTyped' /\ DaysRefreshed' /\ ScoreFollows'
    BY <2>1 DEF LeaderboardInv, DataTyped, Captured, DaysRefreshed, ScoreFollows, Refreshed
  <2>3. NoDayForgotten' /\ IndexFollows'
    BY <2>1, DaysKept, IndexKept
  <2> QED
    BY <2>2, <2>3 DEF LeaderboardInv
<1>2. ASSUME NEW d \in Days, Count(d) PROVE LeaderboardInv'
  BY <1>2, CountKeeps
<1>3. CASE SetStatus
  BY <1>3, SetStatusKeeps
<1>4. ASSUME NEW w \in Workers, Pass(w) PROVE LeaderboardInv'
  BY <1>4, ReclaimKeeps, ClaimDaysKeeps, BeginBackfillKeeps, ClaimRowKeeps, SeeWindowKeeps
     DEF Pass
<1>5. ASSUME NEW w \in Workers, InProgress(w) PROVE LeaderboardInv'
  BY <1>5, BeginRefreshKeeps, CommitRefreshKeeps, CommitBackfillKeeps, SendRowKeeps, AckRowKeeps,
     ClearDirtyKeeps, CaptureKeeps, PublishHotKeeps DEF InProgress
<1>6. ASSUME NEW w \in Workers, RetryRow(w) \/ PublishFails(w) \/ Stop(w) PROVE LeaderboardInv'
  BY <1>6, RetryRowKeeps, PublishFailsKeeps, StopKeeps
<1> QED
  BY <1>1, <1>2, <1>3, <1>4, <1>5, <1>6 DEF Next

\* The inductive invariant holds in every reachable state.
THEOREM LeaderboardInvariant == Spec => []LeaderboardInv
BY InitEstablishes, StepKeeps, PTL DEF Spec

\* Types hold, and a day whose statistics changed since they were last refreshed is
\* queued or claimed: for any number of days, workers, lapsed leases and crashes.
THEOREM NoDayIsForgotten == Spec => []NoDayForgotten
<1>1. LeaderboardInv => NoDayForgotten
  BY DEF LeaderboardInv
<1> QED
  BY <1>1, LeaderboardInvariant, PTL

\* A drained outbox means a current index, whoever delivered its rows, in any order
\* and any number of times: the last row is applied, so the index has reached it.
THEOREM DrainedMeansCurrent == Spec => []DrainedIsCurrent
<1>1. LeaderboardInv => DrainedIsCurrent
  <2> SUFFICES ASSUME LeaderboardInv, Drained
               PROVE  /\ member.revision = score.revision
                      /\ member.listed = score.eligible
                      /\ member.listed => member.tokens = score.tokens
    BY DEF DrainedIsCurrent
  <2>1. /\ Len(outbox) = score.revision + 1 /\ score.revision \in Nat
        /\ DOMAIN outbox = 1 .. Len(outbox)
        /\ member.revision \in -1 .. score.revision
    BY LenProperties
       DEF LeaderboardInv, DataTyped, IndexFollows, OutboxInOrder, IndexShowsARow
  <2>2. Len(outbox) \in 1 .. Len(outbox)
    BY <2>1
  <2>3. member.revision >= Len(outbox) - 1
    BY <2>1, <2>2 DEF LeaderboardInv, IndexFollows, SentIsReached, Drained
  <2>4. member.revision = score.revision /\ member.revision + 1 = Len(outbox)
    BY <2>1, <2>3
  <2> QED
    BY <2>1, <2>4 DEF LeaderboardInv, IndexFollows, OutboxInOrder, IndexShowsARow
<1> QED
  BY <1>1, LeaderboardInvariant, PTL

\* When everything is refreshed and delivered, the leaderboard shows the tokens of
\* the statistics, and only of an active account, unless the last refresh was torn.
THEOREM RankingBecomesCurrent == Spec => []RankingIsCurrent
<1>1. LeaderboardInv /\ DrainedIsCurrent => RankingIsCurrent
  BY DEF LeaderboardInv, ScoreFollows, DrainedIsCurrent, RankingIsCurrent
<1> QED
  BY <1>1, LeaderboardInvariant, DrainedMeansCurrent, PTL

\* A step that confirms a day is a refresh that has read at least that version of
\* its statistics.
THEOREM RefreshesConfirmWhatTheyRead == Spec => ConfirmsWhatItRead
<1> DEFINE Confirms(d) ==
        day'[d].applied # day[d].applied
        => \E w \in Workers :
              /\ work[w].pc = "refreshing" /\ work[w].day = d
              /\ work[w].view[d] >= day'[d].applied
           Step == \A d \in Days : Confirms(d)
<1>1. LeaderboardInv /\ [Next]_vars => Step
  <2> SUFFICES ASSUME LeaderboardInv, [Next]_vars, NEW d \in Days, day'[d].applied # day[d].applied
               PROVE  Confirms(d)
    OBVIOUS
  <2>1. day \in [Days -> DayRows]
    BY DEF LeaderboardInv, NoDayForgotten, TypeOK
  <2>2. day' # day
    OBVIOUS
  <2>3. \E w \in Workers : CommitRefresh(w)
    <3>1. ~ \E e \in Days : Count(e)
      <4> SUFFICES ASSUME NEW e \in Days, Count(e) PROVE FALSE
        OBVIOUS
      <4>1. day' = [day EXCEPT ![e] = Marked(day[e])] /\ day[e] \in DayRows
        BY <2>1 DEF Count
      <4>2. Marked(day[e]).applied = day[e].applied
        BY <4>1 DEF Marked, DayRows
      <4> QED BY <2>1, <4>1, <4>2
    <3>2. ~ \E w \in Workers : Reclaim(w)
      <4> SUFFICES ASSUME NEW e \in Days, day' = [day EXCEPT ![e] = Released(@)] PROVE FALSE
        BY DEF Reclaim
      <4>1. Released(day[e]).applied = day[e].applied
        BY <2>1 DEF Released, DayRows
      <4> QED BY <2>1, <4>1
    <3>3. ~ \E w \in Workers : ClaimDays(w)
      <4> SUFFICES ASSUME NEW w \in Workers, NEW some \in SUBSET Days,
                          day' = [e \in Days |-> IF e \in some
                                     THEN [day[e] EXCEPT !.due = FALSE, !.claim = w]
                                     ELSE day[e]]
                   PROVE FALSE
        BY DEF ClaimDays
      <4>1. [day[d] EXCEPT !.due = FALSE, !.claim = w].applied = day[d].applied
        BY <2>1 DEF DayRows
      <4> QED BY <4>1
    <3> QED
      BY <2>2, <3>1, <3>2, <3>3
         DEF Next, vars, tables, Pass, InProgress, SetStatus, BeginBackfill, ClaimRow, SeeWindow,
             BeginRefresh, CommitBackfill, SendRow, AckRow, ClearDirty, Capture, PublishHot,
             RetryRow, PublishFails, Stop
  <2>4. PICK w \in Workers : CommitRefresh(w)
    BY <2>3
  <2>5. /\ work[w].pc = "refreshing" /\ work[w].day \in Days
        /\ day' = IF day[work[w].day].claim = w
                  THEN [day EXCEPT ![work[w].day] =
                           Confirmed(day[work[w].day], held[w][work[w].day])]
                  ELSE day
    BY <2>4, DoingFields DEF CommitRefresh, LeaderboardInv, DataTyped
  <2>6. work[w].day = d /\ day'[d] = Confirmed(day[d], held[w][d])
    BY <2>1, <2>2, <2>5
  <2>7. day'[d].applied = held[w][d]
    BY <2>1, <2>6 DEF Confirmed, Released, DayRows
  <2>8. work[w].view[d] >= held[w][d]
    BY <2>5, <2>6 DEF LeaderboardInv, DaysRefreshed
  <2> QED
    BY <2>5, <2>6, <2>7, <2>8
<1>2. LeaderboardInv /\ [Next]_vars => [Step]_vars
  BY <1>1
<1>3. ConfirmsWhatItRead <=> [][Step]_vars
  BY PTL DEF ConfirmsWhatItRead
<1> QED
  BY <1>2, <1>3, LeaderboardInvariant, PTL DEF Spec

\* The snapshot anonymous readers get never goes back.
THEOREM HotStaysOrAdvances == Spec => HotNeverRewinds
<1>1. LeaderboardInv /\ [Next]_vars => [hot'.changes >= hot.changes]_vars
  <2> SUFFICES ASSUME LeaderboardInv, [Next]_vars PROVE hot'.changes >= hot.changes
    OBVIOUS
  <2>1. hot.changes \in Nat
    BY DEF LeaderboardInv, DataTyped, Snapshots
  <2>2. CASE \E w \in Workers : PublishHot(w)
    BY <2>2, Published
  <2>3. CASE UNCHANGED hot
    BY <2>1, <2>3
  <2>4. ASSUME ~ \E w \in Workers : PublishHot(w) PROVE UNCHANGED hot
    BY <2>4 DEF Next, vars, index, Pass, InProgress, Count, SetStatus, Reclaim, ClaimDays,
             BeginBackfill, ClaimRow, SeeWindow, BeginRefresh, CommitRefresh, CommitBackfill,
             SendRow, Apply, AckRow, ClearDirty, Capture, RetryRow, PublishFails, Stop
  <2> QED
    BY <2>2, <2>3, <2>4
<1> QED
  BY <1>1, LeaderboardInvariant, PTL DEF Spec, HotNeverRewinds

=============================================================================
