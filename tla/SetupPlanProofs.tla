-------------------------- MODULE SetupPlanProofs ---------------------------
(***************************************************************************)
(* The safety of SetupPlan for any plan, any number of executors and any   *)
(* edits, errors and crashes.                                              *)
(*                                                                         *)
(* The values of an executor are only where its attempt can still tell     *)
(* that they are (Left): up to the target it is at while it writes, down   *)
(* to the target it is at while it rolls back, and at the targets it       *)
(* reported.  Anywhere else another executor put them, which had read them *)
(* before it wrote (PutBack).  An executor never reads its own values,     *)
(* since it reads every target before it writes the first.                 *)
(***************************************************************************)
EXTENDS SetupPlan, TLAPS

\* Before the first write.
Early(a) == a.status = "proposed" \/ (a.status = "applying" /\ a.step \in {"prepare", "back_up"})

\* The places k of the plan where the values of an attempt a may be.
Left(a, k) ==
    \/ a.status = "applying" /\ a.step = "write" /\ k < a.at
    \/ a.status = "applying" /\ a.step = "read_back" /\ k <= a.at
    \/ a.status \in {"verifying", "applied", "dead"}
    \/ a.status = "rolling_back" /\ k <= a.at
    \/ a.status \in {"rolling_back", "rolled_back", "failed"} /\ k = a.applied + 1
    \/ a.status \in {"rolling_back", "failed"} /\ Plan[k] \in a.errors

\* A directory that was there is not made by the plan.
WasThere(a, t) == Kind[t] = "directory" /\ a.before[t] # None

PutBack(x, t) == \E y \in Executors \ {x} : x \in run[y].before[t]

MarksAreKnown ==
    \A x \in Executors, k \in DOMAIN Plan :
        x \in holds[Plan[k]] =>
            \/ Left(run[x], k) /\ ~WasThere(run[x], Plan[k])
            \/ PutBack(x, Plan[k])

NoneBeforeWriting ==
    \A x \in Executors :
        Early(run[x]) => \A t \in Targets : /\ x \notin holds[t]
                                            /\ \A y \in Executors : x \notin run[y].before[t]

NeverItsOwn == \A x \in Executors, t \in Targets : x \notin run[x].before[t]

PreparedInOrder ==
    \A x \in Executors :
        /\ run[x].status = "proposed" => run[x].step = "prepare"
        /\ Early(run[x]) /\ run[x].step = "prepare" =>
              \A k \in DOMAIN Plan : k >= run[x].at => run[x].before[Plan[k]] = None

\* A target is restored only if it held what was planned.
RestoresWhatItWrote ==
    \A x \in Executors :
        IsAt(x, "rolling_back", "restore") =>
            Kind[Target(x)] # "directory" /\ run[x].seen = After(x, Target(x))

SetupInv ==
    /\ TypeOK /\ MarksAreKnown /\ NoneBeforeWriting /\ NeverItsOwn
    /\ PreparedInOrder /\ RestoresWhatItWrote

USE SetupAssumption

-----------------------------------------------------------------------------
(* The plan and the attempts.                                              *)

LEMMA PlanIs ==
    /\ Len(Plan) \in Nat \ {0} /\ DOMAIN Plan = 1 .. Len(Plan)
    /\ \A k \in DOMAIN Plan : Plan[k] \in Targets /\ Kind[Plan[k]] \in Kinds
    /\ \A j, k \in DOMAIN Plan : Plan[j] = Plan[k] => j = k
    /\ \A t \in Targets : Kind[t] \in Kinds /\ \E k \in DOMAIN Plan : Plan[k] = t
BY DEF IsInjective, Targets, Range

LEMMA Types ==
    ASSUME SetupInv, NEW x \in Executors
    PROVE  /\ run[x] \in Attempts /\ run[x].at \in DOMAIN Plan /\ run[x].applied <= Len(Plan)
           /\ Target(x) \in Targets /\ holds[Target(x)] \in Contents
           /\ run[x].before[Target(x)] \in Contents
BY PlanIs DEF SetupInv, TypeOK, Target, Attempts

LEMMA AfterIs ==
    ASSUME NEW x \in Executors, NEW t \in Targets
    PROVE  /\ After(x, t) \in Contents /\ After(x, t) # None
           /\ \A z \in Executors : z \in After(x, t) => z = x
BY DEF After, Contents, None

\* A sound attempt.
Sound(a) == a \in Attempts /\ a.at \in DOMAIN Plan /\ a.applied <= Len(Plan)

\* Not before the first write, and not about to restore.
Late(a) == ~Early(a) /\ ~(a.status = "rolling_back" /\ a.step = "restore")

LEMMA RolledBackIs ==
    ASSUME NEW b, Sound(b)
    PROVE  LET a == RolledBack(b) IN
           /\ Sound(a) /\ Late(a) /\ a.before = b.before
           /\ \A k \in DOMAIN Plan : k = b.applied + 1 \/ Plan[k] \in b.errors => Left(a, k)
<1> DEFINE a == RolledBack(b)
           status == IF b.errors = {} THEN "rolled_back" ELSE "failed"
<1>1. status \in {"rolled_back", "failed"} /\ (status = "rolled_back" <=> b.errors = {})
  OBVIOUS
<1>2. a = [b EXCEPT !.status = status, !.at = 1]
  BY DEF RolledBack
<1> HIDE DEF status
<1>3. /\ a \in Attempts /\ a.status = status /\ a.at = 1 /\ a.applied = b.applied
      /\ a.before = b.before /\ a.errors = b.errors
  <2>1. b \in Attempts /\ 1 \in Nat /\ status \in Endings
    BY <1>1 DEF Sound, Endings
  <2> QED
    BY <1>2, <2>1 DEF Attempts
<1> HIDE DEF a
<1>4. Sound(a) /\ Late(a)
  BY <1>1, <1>3, PlanIs DEF Sound, Late, Early
<1>5. \A k \in DOMAIN Plan : k = b.applied + 1 \/ Plan[k] \in b.errors => Left(a, k)
  BY <1>1, <1>3 DEF Left
<1> QED
  BY <1>3, <1>4, <1>5 DEF a

\* A rollback that goes on loses only the target it was at, unless it reports it.
LEMMA OnwardsIs ==
    ASSUME NEW b, Sound(b), b.status = "rolling_back"
    PROVE  LET a == Onwards(b) IN
           /\ Sound(a) /\ Late(a) /\ a.before = b.before
           /\ \A k \in DOMAIN Plan :
                 k < b.at \/ k = b.applied + 1 \/ Plan[k] \in b.errors => Left(a, k)
<1> DEFINE a == Onwards(b)
<1>1. CASE b.at = 1
  <2>1. a = RolledBack(b)
    BY <1>1 DEF Onwards
  <2>2. \A k \in DOMAIN Plan : ~(k < b.at)
    BY <1>1, PlanIs
  <2> QED
    BY <2>1, <2>2, RolledBackIs
<1>2. CASE b.at # 1
  <2> DEFINE at == b.at - 1
  <2>1. at \in DOMAIN Plan /\ at \in Nat /\ b.at \in Nat
    BY <1>2, PlanIs DEF Sound
  <2>2. a = [b EXCEPT !.step = "check", !.at = at]
    BY <1>2 DEF Onwards
  <2>3. \A k \in DOMAIN Plan : k < b.at => k <= at
    BY <2>1, PlanIs
  <2> HIDE DEF at
  <2>4. /\ a \in Attempts /\ a.status = b.status /\ a.step = "check" /\ a.at = at
        /\ a.applied = b.applied /\ a.before = b.before /\ a.errors = b.errors
    BY <2>1, <2>2 DEF Sound, Attempts
  <2> HIDE DEF a
  <2>5. Sound(a) /\ Late(a)
    BY <2>1, <2>4 DEF Sound, Late, Early
  <2>6. \A k \in DOMAIN Plan :
            k < b.at \/ k = b.applied + 1 \/ Plan[k] \in b.errors => Left(a, k)
    BY <2>3, <2>4 DEF Left
  <2> QED
    BY <2>4, <2>5, <2>6 DEF a
<1> QED
  BY <1>1, <1>2

\* The target whose writing failed is not rolled back.
LEMMA RollingBackIs ==
    ASSUME NEW b, Sound(b), NEW n \in Nat, n <= Len(Plan)
    PROVE  LET a == RollingBack(b, n) IN
           /\ Sound(a) /\ Late(a) /\ a.before = b.before
           /\ \A k \in DOMAIN Plan : k <= n + 1 => Left(a, k)
<1> DEFINE a == RollingBack(b, n)
<1>1. CASE n = 0
  <2> DEFINE c == [b EXCEPT !.applied = 0]
  <2>1. a = RolledBack(c)
    BY <1>1 DEF RollingBack
  <2>2. c \in Attempts /\ c.applied = 0 /\ c.at = b.at /\ c.before = b.before
    BY DEF Sound, Attempts
  <2> HIDE DEF c
  <2>3. Sound(c)
    BY <2>2, PlanIs DEF Sound
  <2>4. \A k \in DOMAIN Plan : k <= n + 1 => k = c.applied + 1
    BY <1>1, <2>2, PlanIs
  <2> QED
    BY <2>1, <2>2, <2>3, <2>4, RolledBackIs
<1>2. CASE n # 0
  <2>1. a = [b EXCEPT !.status = "rolling_back", !.step = "check", !.at = n, !.applied = n]
    BY <1>2 DEF RollingBack
  <2>2. /\ a \in Attempts /\ a.status = "rolling_back" /\ a.step = "check" /\ a.at = n
        /\ a.applied = n /\ a.before = b.before
    BY <2>1 DEF Sound, Attempts
  <2> HIDE DEF a
  <2>3. Sound(a) /\ Late(a)
    BY <1>2, <2>2, PlanIs DEF Sound, Late, Early
  <2>4. \A k \in DOMAIN Plan : k <= n + 1 => Left(a, k)
    BY <2>2, PlanIs DEF Left
  <2> QED
    BY <2>2, <2>3, <2>4 DEF a
<1> QED
  BY <1>1, <1>2

LEMMA AcknowledgedIs ==
    ASSUME SetupInv, NEW x \in Executors, run[x].status = "applying"
    PROVE  LET a == Acknowledged(x) IN
           /\ Sound(a) /\ Late(a) /\ a.before = run[x].before
           /\ \A k \in DOMAIN Plan : k <= run[x].at => Left(a, k)
<1> DEFINE a == Acknowledged(x)
<1>1. Sound(run[x])
  BY Types DEF Sound
<1>2. CASE run[x].at = Len(Plan)
  <2>1. a = [run[x] EXCEPT !.status = "verifying", !.applied = Len(Plan)]
    BY <1>2 DEF Acknowledged
  <2>2. /\ a \in Attempts /\ a.status = "verifying" /\ a.at = run[x].at
        /\ a.applied = Len(Plan) /\ a.before = run[x].before
    <3>1. run[x] \in Attempts /\ Len(Plan) \in Nat
      BY <1>1, PlanIs DEF Sound
    <3> QED
      BY <2>1, <3>1 DEF Attempts
  <2> HIDE DEF a
  <2>3. Sound(a) /\ Late(a) /\ \A k \in DOMAIN Plan : Left(a, k)
    BY <1>1, <2>2, PlanIs DEF Sound, Late, Early, Left
  <2> QED
    BY <2>2, <2>3 DEF a
<1>3. CASE run[x].at # Len(Plan)
  <2> DEFINE at == run[x].at + 1
  <2>1. /\ at \in DOMAIN Plan /\ at \in Nat /\ run[x].at \in Nat /\ run[x].at <= Len(Plan)
        /\ \A k \in DOMAIN Plan : k <= run[x].at => k < at
    BY <1>1, <1>3, PlanIs DEF Sound
  <2>2. a = [run[x] EXCEPT !.step = "write", !.applied = run[x].at, !.at = at]
    BY <1>3 DEF Acknowledged
  <2> HIDE DEF at
  <2>3. /\ a \in Attempts /\ a.status = "applying" /\ a.step = "write" /\ a.at = at
        /\ a.applied = run[x].at /\ a.before = run[x].before
    BY <1>1, <2>1, <2>2 DEF Sound, Attempts
  <2> HIDE DEF a
  <2>4. Sound(a) /\ Late(a) /\ \A k \in DOMAIN Plan : k <= run[x].at => Left(a, k)
    BY <2>1, <2>3 DEF Sound, Late, Early, Left
  <2> QED
    BY <2>3, <2>4 DEF a
<1> QED
  BY <1>2, <1>3

-----------------------------------------------------------------------------
(* The steps.                                                              *)

\* An attempt that reads no target goes on, and where its values are is known.
LEMMA AttemptMoves ==
    ASSUME SetupInv, NEW x \in Executors, NEW a, Sound(a), Late(a), a.before = run[x].before,
           run' = [run EXCEPT ![x] = a],
           holds' \in [Targets -> Contents], made' \subseteq Edits,
           \A t \in Targets, z \in Executors \ {x} :
               z \in holds'[t] => z \in holds[t] \/ z \in run[x].before[t],
           \A k \in DOMAIN Plan :
               x \in holds'[Plan[k]] =>
                   \/ Left(a, k) /\ ~WasThere(run[x], Plan[k])
                   \/ PutBack(x, Plan[k])
    PROVE  SetupInv'
<1>1. /\ run' \in [Executors -> Attempts] /\ run'[x] = a
      /\ \A z \in Executors : z # x => run'[z] = run[z]
      /\ \A z \in Executors : run'[z].before = run[z].before
  BY DEF SetupInv, TypeOK, Sound
<1>2. TypeOK'
  <2>1. \A z \in Executors : run'[z].at \in DOMAIN Plan /\ run'[z].applied <= Len(Plan)
    BY <1>1 DEF SetupInv, TypeOK, Sound
  <2> QED
    BY <1>1, <2>1 DEF TypeOK
<1>3. \A z \in Executors, t \in Targets : PutBack(z, t) => PutBack(z, t)'
  BY <1>1 DEF PutBack
<1>4. MarksAreKnown'
  <2> SUFFICES ASSUME NEW z \in Executors, NEW k \in DOMAIN Plan, z \in holds'[Plan[k]]
               PROVE  \/ Left(run'[z], k) /\ ~WasThere(run'[z], Plan[k])
                      \/ PutBack(z, Plan[k])'
    BY DEF MarksAreKnown, Left, WasThere
  <2>1. Plan[k] \in Targets
    BY PlanIs
  <2>2. CASE z = x
    BY <1>1, <1>3, <2>1, <2>2 DEF WasThere
  <2>3. CASE z # x
    <3>1. CASE z \in holds[Plan[k]]
      BY <1>1, <1>3, <2>1, <2>3, <3>1 DEF SetupInv, MarksAreKnown
    <3>2. CASE z \in run[x].before[Plan[k]]
      BY <1>1, <2>3, <3>2 DEF PutBack
    <3> QED
      BY <2>1, <2>3, <3>1, <3>2
  <2> QED
    BY <2>2, <2>3
<1>5. NoneBeforeWriting'
  <2> SUFFICES ASSUME NEW z \in Executors, Early(run'[z]), NEW t \in Targets
               PROVE  z \notin holds'[t] /\ \A y \in Executors : z \notin run'[y].before[t]
    BY DEF NoneBeforeWriting, Early
  <2>1. z # x /\ Early(run[z])
    BY <1>1 DEF Late
  <2>2. z \notin holds[t] /\ \A y \in Executors : z \notin run[y].before[t]
    BY <2>1 DEF SetupInv, NoneBeforeWriting
  <2> QED
    BY <1>1, <2>1, <2>2
<1>6. NeverItsOwn'
  BY <1>1 DEF SetupInv, NeverItsOwn
<1>7. PreparedInOrder'
  <2> SUFFICES ASSUME NEW z \in Executors
               PROVE  /\ run'[z].status = "proposed" => run'[z].step = "prepare"
                      /\ Early(run'[z]) /\ run'[z].step = "prepare" =>
                            \A k \in DOMAIN Plan : k >= run'[z].at => run'[z].before[Plan[k]] = None
    BY DEF PreparedInOrder, Early
  <2>1. CASE z = x
    BY <1>1, <2>1 DEF Late, Early
  <2>2. CASE z # x
    BY <1>1, <2>2 DEF SetupInv, PreparedInOrder
  <2> QED
    BY <2>1, <2>2
<1>8. RestoresWhatItWrote'
  <2> SUFFICES ASSUME NEW z \in Executors,
                      run'[z].status = "rolling_back", run'[z].step = "restore"
               PROVE  Kind[Plan[run'[z].at]] # "directory" /\ run'[z].seen = After(z, Plan[run[z].at])'
    BY DEF RestoresWhatItWrote, IsAt, Target, After
  <2>1. z # x
    BY <1>1 DEF Late
  <2>2. Kind[Target(z)] # "directory" /\ run[z].seen = After(z, Target(z))
    BY <1>1, <2>1 DEF SetupInv, RestoresWhatItWrote, IsAt
  <2> QED
    BY <1>1, <2>1, <2>2 DEF Target, After
<1> QED
  BY <1>2, <1>4, <1>5, <1>6, <1>7, <1>8 DEF SetupInv

\* Where the values are before a step, and that an attempt never read its own.
LEMMA WhereTheyAre ==
    ASSUME SetupInv, NEW x \in Executors, NEW k \in DOMAIN Plan
    PROVE  /\ x \in holds[Plan[k]] =>
                \/ Left(run[x], k) /\ ~WasThere(run[x], Plan[k])
                \/ PutBack(x, Plan[k])
           /\ x \notin run[x].before[Plan[k]] /\ Plan[k] \in Targets
           /\ holds[Plan[k]] \in Contents /\ run[x].before[Plan[k]] \in Contents
BY PlanIs, Types DEF SetupInv, MarksAreKnown, NeverItsOwn, TypeOK, Attempts

LEMMA NotAfterItself ==
    ASSUME SetupInv, NEW x \in Executors, NEW a, Sound(a), Late(a), a.before = run[x].before,
           run' = [run EXCEPT ![x] = a], UNCHANGED <<holds, made>>,
           \A k \in DOMAIN Plan :
               x \in holds[Plan[k]] /\ Left(run[x], k) /\ ~WasThere(run[x], Plan[k])
               => Left(a, k)
    PROVE  SetupInv'
<1>1. \A t \in Targets, z \in Executors \ {x} :
          z \in holds'[t] => z \in holds[t] \/ z \in run[x].before[t]
  OBVIOUS
<1>2. \A k \in DOMAIN Plan :
          x \in holds'[Plan[k]] =>
              \/ Left(a, k) /\ ~WasThere(run[x], Plan[k])
              \/ PutBack(x, Plan[k])
  BY WhereTheyAre
<1>3. holds' \in [Targets -> Contents] /\ made' \subseteq Edits
  BY DEF SetupInv, TypeOK
<1> QED
  BY <1>1, <1>2, <1>3, AttemptMoves

\* A target is written by the attempt, or restored to what it held before.
LEMMA TargetWritten ==
    ASSUME SetupInv, NEW x \in Executors, NEW a, Sound(a), Late(a), a.before = run[x].before,
           run' = [run EXCEPT ![x] = a], UNCHANGED made, NEW new \in Contents,
           holds' = [holds EXCEPT ![Target(x)] = new],
           \A z \in Executors \ {x} : z \in new => z \in run[x].before[Target(x)],
           x \in new => Left(a, run[x].at) /\ ~WasThere(run[x], Target(x)),
           \A k \in DOMAIN Plan :
               k # run[x].at /\ Left(run[x], k) /\ ~WasThere(run[x], Plan[k]) => Left(a, k)
    PROVE  SetupInv'
<1>1. /\ holds' \in [Targets -> Contents] /\ holds'[Target(x)] = new
      /\ \A t \in Targets : t # Target(x) => holds'[t] = holds[t]
  BY Types DEF SetupInv, TypeOK
<1>2. \A t \in Targets, z \in Executors \ {x} :
          z \in holds'[t] => z \in holds[t] \/ z \in run[x].before[t]
  BY <1>1
<1>3. ASSUME NEW k \in DOMAIN Plan, x \in holds'[Plan[k]]
      PROVE  \/ Left(a, k) /\ ~WasThere(run[x], Plan[k])
             \/ PutBack(x, Plan[k])
  <2>1. CASE k = run[x].at
    BY <1>1, <1>3, <2>1 DEF Target
  <2>2. CASE k # run[x].at
    <3>1. Plan[k] # Target(x) /\ Plan[k] \in Targets
      BY <2>2, PlanIs, Types DEF Target
    <3>2. x \in holds[Plan[k]]
      BY <1>1, <1>3, <3>1
    <3> QED
      BY <2>2, <3>2, WhereTheyAre
  <2> QED
    BY <2>1, <2>2
<1>4. made' \subseteq Edits
  BY DEF SetupInv, TypeOK
<1> QED
  BY <1>1, <1>2, <1>3, <1>4, AttemptMoves

LEMMA WithErrorIs ==
    ASSUME SetupInv, NEW x \in Executors, run[x].status = "rolling_back"
    PROVE  LET b == WithError(x) IN
           /\ Sound(b) /\ b.status = "rolling_back" /\ b.at = run[x].at
           /\ b.applied = run[x].applied /\ b.before = run[x].before
           /\ b.errors = run[x].errors \cup {Target(x)}
<1> DEFINE errors == run[x].errors \cup {Target(x)}
<1>1. run[x] \in Attempts /\ errors \in SUBSET Targets
  BY Types DEF Attempts
<1>2. WithError(x) = [run[x] EXCEPT !.errors = errors]
  BY DEF WithError
<1> HIDE DEF errors
<1>3. /\ WithError(x) \in Attempts /\ WithError(x).at = run[x].at
      /\ WithError(x).applied = run[x].applied /\ WithError(x).before = run[x].before
      /\ WithError(x).status = run[x].status /\ WithError(x).errors = errors
  BY <1>1, <1>2 DEF Attempts
<1> QED
  BY <1>3, Types DEF Sound, errors

\* An attempt that goes on after a target it could not restore still knows where its
\* values are.
LEMMA GoesOn ==
    ASSUME SetupInv, NEW x \in Executors, run[x].status = "rolling_back"
    PROVE  /\ LET a == Onwards(run[x]) IN
              /\ Sound(a) /\ Late(a) /\ a.before = run[x].before
              /\ \A k \in DOMAIN Plan : k # run[x].at /\ Left(run[x], k) => Left(a, k)
           /\ LET a == Onwards(WithError(x)) IN
              /\ Sound(a) /\ Late(a) /\ a.before = run[x].before
              /\ \A k \in DOMAIN Plan : Left(run[x], k) => Left(a, k)
<1>1. Sound(run[x])
  BY Types DEF Sound
<1>2. \A k \in DOMAIN Plan : Left(run[x], k) =>
          k <= run[x].at \/ k = run[x].applied + 1 \/ Plan[k] \in run[x].errors
  BY DEF Left
<1>3. \A k \in DOMAIN Plan : k <= run[x].at => k = run[x].at \/ k < run[x].at
  BY <1>1, PlanIs DEF Sound
<1>4. LET a == Onwards(run[x]) IN
      /\ Sound(a) /\ Late(a) /\ a.before = run[x].before
      /\ \A k \in DOMAIN Plan : k # run[x].at /\ Left(run[x], k) => Left(a, k)
  BY <1>1, <1>2, <1>3, OnwardsIs
<1>5. PICK b : b = WithError(x)
  OBVIOUS
<1>6. /\ Sound(b) /\ b.status = "rolling_back" /\ b.at = run[x].at
      /\ b.applied = run[x].applied /\ b.before = run[x].before
      /\ b.errors = run[x].errors \cup {Target(x)}
  BY <1>5, WithErrorIs
<1>7. LET a == Onwards(b) IN
      /\ Sound(a) /\ Late(a) /\ a.before = run[x].before
      /\ \A k \in DOMAIN Plan : Left(run[x], k) => Left(a, k)
  <2>1. \A k \in DOMAIN Plan : Left(run[x], k) =>
            k < b.at \/ k = b.applied + 1 \/ Plan[k] \in b.errors
    BY <1>2, <1>3, <1>6 DEF Target
  <2> QED
    BY <1>6, <2>1, OnwardsIs
<1> QED
  BY <1>4, <1>5, <1>7

LEMMA CheckTargetKeeps ==
    ASSUME SetupInv, NEW x \in Executors, CheckTarget(x)
    PROVE  SetupInv'
<1>1. run[x].status = "rolling_back" /\ Kind[Target(x)] # "directory" /\ UNCHANGED <<holds, made>>
  BY DEF CheckTarget, IsAt
<1>2. CASE ~UnchangedSince(x)
  <2>1. PICK a : a = Onwards(WithError(x)) /\ run' = [run EXCEPT ![x] = a]
    BY <1>2 DEF CheckTarget, Becomes
  <2>2. /\ Sound(a) /\ Late(a) /\ a.before = run[x].before
        /\ \A k \in DOMAIN Plan : Left(run[x], k) => Left(a, k)
    BY <1>1, <2>1, GoesOn
  <2> QED
    BY <1>1, <2>1, <2>2, NotAfterItself
<1>3. CASE UnchangedSince(x)
  <2> DEFINE a == [run[x] EXCEPT !.step = "restore", !.seen = holds[Target(x)]]
  <2>1. run' = [run EXCEPT ![x] = a] /\ holds[Target(x)] = After(x, Target(x))
    BY <1>3 DEF CheckTarget, Becomes, UnchangedSince
  <2>2. /\ a \in Attempts /\ a.status = "rolling_back" /\ a.step = "restore"
        /\ a.seen = After(x, Target(x)) /\ a.at = run[x].at /\ a.applied = run[x].applied
        /\ a.before = run[x].before /\ a.errors = run[x].errors
    BY <1>1, <2>1, Types DEF Attempts
  <2> HIDE DEF a
  <2>3. /\ run' \in [Executors -> Attempts] /\ run'[x] = a
        /\ \A z \in Executors : z # x => run'[z] = run[z]
        /\ \A z \in Executors : run'[z].before = run[z].before /\ run'[z].at = run[z].at
    BY <2>1, <2>2 DEF SetupInv, TypeOK
  <2>4. TypeOK'
    <3>1. \A z \in Executors : run'[z].applied = run[z].applied
      BY <2>2, <2>3
    <3> QED
      BY <1>1, <2>3, <3>1 DEF SetupInv, TypeOK
  <2>5. \A k \in DOMAIN Plan : Left(run[x], k) => Left(a, k)
    BY <1>1, <2>2 DEF Left
  <2>6. MarksAreKnown'
    <3> SUFFICES ASSUME NEW z \in Executors, NEW k \in DOMAIN Plan, z \in holds[Plan[k]]
                 PROVE  \/ Left(run'[z], k) /\ ~WasThere(run'[z], Plan[k])
                        \/ PutBack(z, Plan[k])'
      BY <1>1 DEF MarksAreKnown, Left, WasThere
    <3>1. Left(run[z], k) => Left(run'[z], k)
      BY <2>3, <2>5
    <3>2. PutBack(z, Plan[k]) => PutBack(z, Plan[k])'
      BY <2>3, PlanIs DEF PutBack
    <3> QED
      BY <2>3, <3>1, <3>2, WhereTheyAre DEF WasThere
  <2>7. \A z \in Executors : Early(run'[z]) => z # x /\ Early(run[z])
    BY <2>2, <2>3 DEF Early
  <2>8. NoneBeforeWriting' /\ NeverItsOwn' /\ PreparedInOrder'
    <3>1. \A z \in Executors : Early(run[z])' <=> Early(run'[z])
      BY DEF Early
    <3>2. NoneBeforeWriting' /\ NeverItsOwn'
      BY <1>1, <2>3, <2>7, <3>1 DEF SetupInv, NoneBeforeWriting, NeverItsOwn
    <3> QED
      BY <2>2, <2>3, <2>7, <3>1, <3>2 DEF SetupInv, PreparedInOrder
  <2>9. RestoresWhatItWrote'
    <3> SUFFICES ASSUME NEW z \in Executors,
                        run'[z].status = "rolling_back", run'[z].step = "restore"
                 PROVE  Kind[Plan[run'[z].at]] # "directory" /\ run'[z].seen = After(z, Plan[run[z].at])'
      BY DEF RestoresWhatItWrote, IsAt, Target, After
    <3>1. Kind[Target(z)] # "directory" /\ run'[z].seen = After(z, Target(z))
      BY <1>1, <2>2, <2>3 DEF SetupInv, RestoresWhatItWrote, IsAt
    <3> QED
      BY <2>3, <3>1 DEF Target, After
  <2> QED
    BY <2>4, <2>6, <2>8, <2>9 DEF SetupInv
<1> QED
  BY <1>2, <1>3

LEMMA RestoreTargetKeeps ==
    ASSUME SetupInv, NEW x \in Executors, RestoreTarget(x)
    PROVE  SetupInv'
<1>1. run[x].status = "rolling_back" /\ UNCHANGED made
  BY DEF RestoreTarget, IsAt
<1>2. CASE UNCHANGED holds /\ Becomes(x, Onwards(WithError(x)))
  <2>1. PICK a : a = Onwards(WithError(x)) /\ run' = [run EXCEPT ![x] = a]
    BY <1>2 DEF Becomes
  <2>2. /\ Sound(a) /\ Late(a) /\ a.before = run[x].before
        /\ \A k \in DOMAIN Plan : Left(run[x], k) => Left(a, k)
    BY <1>1, <2>1, GoesOn
  <2> QED
    BY <1>1, <1>2, <2>1, <2>2, NotAfterItself
<1>3. CASE /\ holds' = [holds EXCEPT ![Target(x)] = run[x].before[Target(x)]]
           /\ Becomes(x, Onwards(run[x]))
  <2>1. PICK a : a = Onwards(run[x]) /\ run' = [run EXCEPT ![x] = a]
    BY <1>3 DEF Becomes
  <2>2. /\ Sound(a) /\ Late(a) /\ a.before = run[x].before
        /\ \A k \in DOMAIN Plan : k # run[x].at /\ Left(run[x], k) => Left(a, k)
    BY <1>1, <2>1, GoesOn
  <2>3. PICK new \in Contents : new = run[x].before[Target(x)] /\ x \notin new
    BY Types DEF SetupInv, NeverItsOwn
  <2> QED
    BY <1>1, <1>3, <2>1, <2>2, <2>3, TargetWritten
<1> QED
  BY <1>2, <1>3 DEF RestoreTarget

LEMMA RemoveDirectoryKeeps ==
    ASSUME SetupInv, NEW x \in Executors, RemoveDirectory(x)
    PROVE  SetupInv'
<1>1. run[x].status = "rolling_back" /\ UNCHANGED made /\ Kind[Target(x)] = "directory"
  BY DEF RemoveDirectory, IsAt
<1>2. CASE UNCHANGED holds /\ Becomes(x, Onwards(WithError(x)))
  <2>1. PICK a : a = Onwards(WithError(x)) /\ run' = [run EXCEPT ![x] = a]
    BY <1>2 DEF Becomes
  <2>2. /\ Sound(a) /\ Late(a) /\ a.before = run[x].before
        /\ \A k \in DOMAIN Plan : Left(run[x], k) => Left(a, k)
    BY <1>1, <2>1, GoesOn
  <2> QED
    BY <1>1, <1>2, <2>1, <2>2, NotAfterItself
<1>3. PICK a : a = Onwards(run[x])
  OBVIOUS
<1>4. /\ Sound(a) /\ Late(a) /\ a.before = run[x].before
      /\ \A k \in DOMAIN Plan : k # run[x].at /\ Left(run[x], k) => Left(a, k)
  BY <1>1, <1>3, GoesOn
<1>5. CASE run[x].before[Target(x)] # None /\ UNCHANGED holds /\ Becomes(x, Onwards(run[x]))
  <2>1. run' = [run EXCEPT ![x] = a]
    BY <1>3, <1>5 DEF Becomes
  <2>2. WasThere(run[x], Plan[run[x].at])
    BY <1>1, <1>5 DEF WasThere, Target
  <2> QED
    BY <1>1, <1>4, <1>5, <2>1, <2>2, NotAfterItself
<1>6. CASE holds' = [holds EXCEPT ![Target(x)] = None] /\ Becomes(x, Onwards(run[x]))
  <2>1. run' = [run EXCEPT ![x] = a]
    BY <1>3, <1>6 DEF Becomes
  <2>2. PICK new \in Contents : new = None /\ \A z \in Executors : z \notin new
    BY DEF None, Contents
  <2> QED
    BY <1>1, <1>4, <1>6, <2>1, <2>2, TargetWritten
<1> QED
  BY <1>2, <1>5, <1>6 DEF RemoveDirectory

LEMMA RestoreFailsKeeps ==
    ASSUME SetupInv, NEW x \in Executors, RestoreFails(x)
    PROVE  SetupInv'
<1>1. run[x].status = "rolling_back" /\ UNCHANGED made
  BY DEF RestoreFails
<1>2. PICK a : a = Onwards(WithError(x)) /\ run' = [run EXCEPT ![x] = a]
  BY DEF RestoreFails, Becomes
<1>3. /\ Sound(a) /\ Late(a) /\ a.before = run[x].before
      /\ \A k \in DOMAIN Plan : Left(run[x], k) => Left(a, k)
  BY <1>1, <1>2, GoesOn
<1>4. CASE UNCHANGED holds
  BY <1>1, <1>2, <1>3, <1>4, NotAfterItself
<1>5. CASE holds' = [holds EXCEPT ![Target(x)] = run[x].before[Target(x)]]
  <2>1. PICK new \in Contents : new = run[x].before[Target(x)] /\ x \notin new
    BY Types DEF SetupInv, NeverItsOwn
  <2> QED
    BY <1>1, <1>2, <1>3, <1>5, <2>1, TargetWritten
<1> QED
  BY <1>4, <1>5 DEF RestoreFails

-----------------------------------------------------------------------------
(* Writing.                                                                *)

LEMMA WriteTargetKeeps ==
    ASSUME SetupInv, NEW x \in Executors, WriteTarget(x)
    PROVE  SetupInv'
<1>1. run[x].status = "applying" /\ run[x].step = "write" /\ UNCHANGED made
  BY DEF WriteTarget, IsAt
<1>2. \A k \in DOMAIN Plan : Left(run[x], k) => k < run[x].at
  BY <1>1 DEF Left
<1>3. PICK done : done = Acknowledged(x)
  OBVIOUS
<1>4. /\ Sound(done) /\ Late(done) /\ done.before = run[x].before
      /\ \A k \in DOMAIN Plan : k <= run[x].at => Left(done, k)
  BY <1>1, <1>3, AcknowledgedIs
<1>5. /\ run[x].at \in Nat /\ run[x].at \in DOMAIN Plan /\ run[x].at - 1 \in Nat
      /\ run[x].at - 1 <= Len(Plan) /\ Sound(run[x])
      /\ \A k \in DOMAIN Plan : k \in Nat
  BY Types, PlanIs DEF Sound
<1>6. ASSUME Writes(x), holds' = [holds EXCEPT ![Target(x)] = After(x, Target(x))],
             NEW a, run' = [run EXCEPT ![x] = a], Sound(a), Late(a), a.before = run[x].before,
             \A k \in DOMAIN Plan : k <= run[x].at => Left(a, k)
      PROVE  SetupInv'
  <2>1. PICK new \in Contents : /\ new = After(x, Target(x))
                                /\ \A z \in Executors : z \in new => z = x
    BY Types, AfterIs
  <2>2. ~WasThere(run[x], Target(x))
    BY <1>6 DEF WasThere, Writes, Creates
  <2>3. Left(a, run[x].at) /\ \A k \in DOMAIN Plan : Left(run[x], k) => Left(a, k)
    BY <1>2, <1>5, <1>6
  <2>4. /\ holds' = [holds EXCEPT ![Target(x)] = new] /\ UNCHANGED made
        /\ \A z \in Executors \ {x} : z \in new => z \in run[x].before[Target(x)]
    BY <1>1, <1>6, <2>1
  <2> QED
    BY <1>6, <2>2, <2>3, <2>4, TargetWritten
<1>7. ASSUME Writes(x), holds' = [holds EXCEPT ![Target(x)] = After(x, Target(x))],
             Kind[Target(x)] = "environment", Becomes(x, [run[x] EXCEPT !.step = "read_back"])
      PROVE  SetupInv'
  <2> DEFINE a == [run[x] EXCEPT !.step = "read_back"]
  <2>1. /\ a \in Attempts /\ a.status = "applying" /\ a.step = "read_back" /\ a.at = run[x].at
        /\ a.applied = run[x].applied /\ a.before = run[x].before
    BY <1>1, <1>5 DEF Sound, Attempts
  <2>2. run' = [run EXCEPT ![x] = a]
    BY <1>7 DEF Becomes
  <2> HIDE DEF a
  <2>3. Sound(a) /\ Late(a)
    BY <1>5, <2>1 DEF Sound, Late, Early
  <2>4. \A k \in DOMAIN Plan : k <= run[x].at => Left(a, k)
    BY <2>1 DEF Left
  <2> QED
    BY <1>6, <1>7, <2>1, <2>2, <2>3, <2>4
<1>8. ASSUME Writes(x), holds' = [holds EXCEPT ![Target(x)] = After(x, Target(x))],
             Becomes(x, Acknowledged(x))
      PROVE  SetupInv'
  <2>1. run' = [run EXCEPT ![x] = done]
    BY <1>3, <1>8 DEF Becomes
  <2> QED
    BY <1>4, <1>6, <1>8, <2>1
<1>9. ASSUME Becomes(x, Acknowledged(x)), UNCHANGED holds
      PROVE  SetupInv'
  <2>1. run' = [run EXCEPT ![x] = done]
    BY <1>3, <1>9 DEF Becomes
  <2>2. \A k \in DOMAIN Plan : Left(run[x], k) => Left(done, k)
    BY <1>2, <1>4, <1>5
  <2> QED
    BY <1>1, <1>4, <1>9, <2>1, <2>2, NotAfterItself
<1>10. ASSUME Becomes(x, RollingBack(run[x], run[x].at - 1)), UNCHANGED holds
       PROVE  SetupInv'
  <2>1. PICK n \in Nat : n = run[x].at - 1 /\ n <= Len(Plan) /\ n + 1 = run[x].at
    BY <1>5
  <2>2. PICK a : a = RollingBack(run[x], n)
    OBVIOUS
  <2>3. /\ Sound(a) /\ Late(a) /\ a.before = run[x].before
        /\ \A k \in DOMAIN Plan : k <= n + 1 => Left(a, k)
    BY <1>5, <2>1, <2>2, RollingBackIs
  <2>4. run' = [run EXCEPT ![x] = a]
    BY <1>10, <2>1, <2>2 DEF Becomes
  <2>5. \A k \in DOMAIN Plan : Left(run[x], k) => Left(a, k)
    BY <1>2, <1>5, <2>1, <2>3
  <2> QED
    BY <1>1, <1>10, <2>3, <2>4, <2>5, NotAfterItself
<1> QED
  BY <1>7, <1>8, <1>9, <1>10 DEF WriteTarget

\* The writing or the reading back fails: what may have been written is the one target
\* behind those that are rolled back.
LEMMA WritingEnds ==
    ASSUME SetupInv, NEW x \in Executors, WriteFails(x) \/ ReadBack(x) \/ ReadBackFails(x)
    PROVE  SetupInv'
<1>1. /\ run[x].status = "applying" /\ run[x].step \in {"write", "read_back"} /\ UNCHANGED made
      /\ \/ /\ Kind[Target(x)] = "file"
            /\ holds' = [holds EXCEPT ![Target(x)] = After(x, Target(x))]
            /\ Becomes(x, RollingBack(run[x], run[x].at - 1))
         \/ /\ UNCHANGED holds
            /\ \/ Becomes(x, RollingBack(run[x], run[x].at - 1))
               \/ Becomes(x, Acknowledged(x))
  BY DEF WriteFails, ReadBack, ReadBackFails, IsAt
<1>2. \A k \in DOMAIN Plan : Left(run[x], k) => k <= run[x].at
  BY <1>1, PlanIs, Types DEF Left
<1>3. PICK n \in Nat : n = run[x].at - 1 /\ n <= Len(Plan) /\ n + 1 = run[x].at
  BY Types, PlanIs
<1>4. /\ Sound(run[x]) /\ run[x].at \in DOMAIN Plan
      /\ run[x].at <= n + 1 /\ \A k \in DOMAIN Plan : k <= run[x].at => k <= n + 1
  BY <1>3, Types, PlanIs DEF Sound
<1>5. PICK back : back = RollingBack(run[x], n)
  OBVIOUS
<1>6. /\ Sound(back) /\ Late(back) /\ back.before = run[x].before
      /\ \A k \in DOMAIN Plan : k <= n + 1 => Left(back, k)
  BY <1>3, <1>4, <1>5, RollingBackIs
<1>7. ASSUME UNCHANGED holds, Becomes(x, RollingBack(run[x], run[x].at - 1)) PROVE SetupInv'
  <2>1. run' = [run EXCEPT ![x] = back]
    BY <1>3, <1>5, <1>7 DEF Becomes
  <2> QED
    BY <1>1, <1>2, <1>4, <1>6, <1>7, <2>1, NotAfterItself
<1>8. ASSUME UNCHANGED holds, Becomes(x, Acknowledged(x)) PROVE SetupInv'
  <2>1. PICK a : a = Acknowledged(x) /\ run' = [run EXCEPT ![x] = a]
    BY <1>8 DEF Becomes
  <2>2. /\ Sound(a) /\ Late(a) /\ a.before = run[x].before
        /\ \A k \in DOMAIN Plan : k <= run[x].at => Left(a, k)
    BY <1>1, <2>1, AcknowledgedIs
  <2> QED
    BY <1>1, <1>2, <1>8, <2>1, <2>2, NotAfterItself
<1>9. ASSUME Kind[Target(x)] = "file",
             holds' = [holds EXCEPT ![Target(x)] = After(x, Target(x))],
             Becomes(x, RollingBack(run[x], run[x].at - 1))
      PROVE  SetupInv'
  <2>1. PICK new \in Contents : /\ new = After(x, Target(x))
                                /\ \A z \in Executors : z \in new => z = x
    BY Types, AfterIs
  <2>2. run' = [run EXCEPT ![x] = back]
    BY <1>3, <1>5, <1>9 DEF Becomes
  <2>3. ~WasThere(run[x], Target(x))
    BY <1>9 DEF WasThere
  <2>4. Left(back, run[x].at) /\ \A k \in DOMAIN Plan : Left(run[x], k) => Left(back, k)
    BY <1>2, <1>4, <1>6
  <2>5. /\ holds' = [holds EXCEPT ![Target(x)] = new] /\ UNCHANGED made
        /\ \A z \in Executors \ {x} : z \in new => z \in run[x].before[Target(x)]
    BY <1>1, <1>9, <2>1
  <2> QED
    BY <1>6, <2>2, <2>3, <2>4, <2>5, TargetWritten
<1> QED
  BY <1>1, <1>7, <1>8, <1>9

LEMMA VerifyingEnds ==
    ASSUME SetupInv, NEW x \in Executors, Verify(x) \/ VerifyFails(x)
    PROVE  SetupInv'
<1>1. /\ run[x].status = "verifying" /\ UNCHANGED <<holds, made>>
      /\ \/ Becomes(x, RollingBack(run[x], Len(Plan)))
         \/ Becomes(x, [run[x] EXCEPT !.status = "applied"])
  BY DEF Verify, VerifyFails
<1>2. Sound(run[x])
  BY Types DEF Sound
<1>3. ASSUME Becomes(x, RollingBack(run[x], Len(Plan))) PROVE SetupInv'
  <2>1. PICK n \in Nat : n = Len(Plan)
    BY PlanIs
  <2>2. PICK a : a = RollingBack(run[x], n) /\ run' = [run EXCEPT ![x] = a]
    BY <1>3, <2>1 DEF Becomes
  <2>3. n <= Len(Plan) /\ \A k \in DOMAIN Plan : k <= n + 1
    BY <2>1, PlanIs
  <2>4. /\ Sound(a) /\ Late(a) /\ a.before = run[x].before
        /\ \A k \in DOMAIN Plan : Left(a, k)
    BY <1>2, <2>2, <2>3, RollingBackIs
  <2> QED
    BY <1>1, <2>2, <2>4, NotAfterItself
<1>4. ASSUME Becomes(x, [run[x] EXCEPT !.status = "applied"]) PROVE SetupInv'
  <2> DEFINE a == [run[x] EXCEPT !.status = "applied"]
  <2>1. /\ a \in Attempts /\ a.status = "applied" /\ a.at = run[x].at
        /\ a.applied = run[x].applied /\ a.before = run[x].before
    BY <1>2 DEF Sound, Attempts, Endings
  <2>2. run' = [run EXCEPT ![x] = a]
    BY <1>4 DEF Becomes
  <2> HIDE DEF a
  <2>3. Sound(a) /\ Late(a) /\ \A k \in DOMAIN Plan : Left(a, k)
    BY <1>2, <2>1 DEF Sound, Late, Early, Left
  <2> QED
    BY <1>1, <2>1, <2>2, <2>3, NotAfterItself
<1> QED
  BY <1>1, <1>3, <1>4

-----------------------------------------------------------------------------
(* Before the first write.                                                 *)

LEMMA NothingLeftEarly ==
    ASSUME SetupInv, NEW x \in Executors, Early(run[x])
    PROVE  \A k \in DOMAIN Plan : x \notin holds[Plan[k]]
BY PlanIs DEF SetupInv, NoneBeforeWriting

\* The steps after preparing, and the errors before the first write.
LEMMA PreparingEnds ==
    ASSUME SetupInv, NEW x \in Executors, BackUp(x) \/ PrepareFails(x)
    PROVE  SetupInv'
<1>1. /\ Early(run[x]) /\ run[x].status = "applying" /\ UNCHANGED <<holds, made>>
      /\ \/ Becomes(x, [run[x] EXCEPT !.step = "write"])
         \/ Becomes(x, RollingBack(run[x], 0))
         \/ Becomes(x, [run[x] EXCEPT !.status = "failed"])
  BY DEF BackUp, PrepareFails, IsAt, Early
<1>2. Sound(run[x])
  BY Types DEF Sound
<1>3. PICK a : a.before = run[x].before /\ Sound(a) /\ Late(a) /\ run' = [run EXCEPT ![x] = a]
  <2>1. CASE Becomes(x, RollingBack(run[x], 0))
    <3>1. PICK n \in Nat : n = 0
      OBVIOUS
    <3>2. n <= Len(Plan)
      BY <3>1, PlanIs
    <3> QED
      BY <1>2, <2>1, <3>1, <3>2, RollingBackIs DEF Becomes
  <2>2. CASE Becomes(x, [run[x] EXCEPT !.step = "write"])
    <3> DEFINE a == [run[x] EXCEPT !.step = "write"]
    <3>1. /\ a \in Attempts /\ a.status = "applying" /\ a.step = "write" /\ a.at = run[x].at
          /\ a.applied = run[x].applied /\ a.before = run[x].before
      BY <1>1, <1>2 DEF Sound, Attempts
    <3>2. run' = [run EXCEPT ![x] = a]
      BY <2>2 DEF Becomes
    <3> HIDE DEF a
    <3>3. Sound(a) /\ Late(a)
      BY <1>2, <3>1 DEF Sound, Late, Early
    <3> QED
      BY <3>1, <3>2, <3>3
  <2>3. CASE Becomes(x, [run[x] EXCEPT !.status = "failed"])
    <3> DEFINE a == [run[x] EXCEPT !.status = "failed"]
    <3>1. /\ a \in Attempts /\ a.status = "failed" /\ a.at = run[x].at
          /\ a.applied = run[x].applied /\ a.before = run[x].before
      BY <1>1, <1>2 DEF Sound, Attempts, Endings
    <3>2. run' = [run EXCEPT ![x] = a]
      BY <2>3 DEF Becomes
    <3> HIDE DEF a
    <3>3. Sound(a) /\ Late(a)
      BY <1>2, <3>1 DEF Sound, Late, Early
    <3> QED
      BY <3>1, <3>2, <3>3
  <2> QED
    BY <1>1, <2>1, <2>2, <2>3
<1> QED
  BY <1>1, <1>3, NothingLeftEarly, NotAfterItself

\* An attempt starts, or reads a target: what it reads is not of its own.
LEMMA PreparingKeeps ==
    ASSUME SetupInv, NEW x \in Executors, Start(x) \/ Prepare(x)
    PROVE  SetupInv'
<1>1. Early(run[x]) /\ UNCHANGED <<holds, made>> /\ run[x].step = "prepare" /\ Sound(run[x])
  BY Types DEF Start, Prepare, IsAt, Early, Sound, SetupInv, PreparedInOrder
<1>2. PICK a \in Attempts :
          /\ run' = [run EXCEPT ![x] = a]
          /\ a.at \in DOMAIN Plan /\ a.applied = run[x].applied
          /\ Early(a) /\ a.status = "applying"
          /\ \A t \in Targets : a.before[t] = run[x].before[t]
                                \/ (t = Target(x) /\ a.before[t] = holds[t])
          /\ a.step = "prepare" =>
                \A k \in DOMAIN Plan : k >= a.at => a.before[Plan[k]] = run[x].before[Plan[k]]
                                                    /\ k >= run[x].at
  <2>1. CASE Start(x)
    <3> DEFINE a == [run[x] EXCEPT !.status = "applying"]
    <3>1. /\ a \in Attempts /\ a.status = "applying" /\ a.step = "prepare" /\ a.at = run[x].at
          /\ a.applied = run[x].applied /\ a.before = run[x].before
      BY <1>1 DEF Sound, Attempts
    <3>2. run' = [run EXCEPT ![x] = a]
      BY <2>1 DEF Start, Becomes
    <3> HIDE DEF a
    <3> QED
      BY <1>1, <3>1, <3>2 DEF Sound, Early
  <2>2. CASE Prepare(x)
    <3> DEFINE t == Target(x)
               last == run[x].at = Len(Plan)
               before == [run[x].before EXCEPT ![t] = holds[t]]
               at == IF last THEN 1 ELSE run[x].at + 1
               step == IF last THEN "back_up" ELSE "prepare"
               a == [run[x] EXCEPT !.before = before, !.at = at, !.step = step]
    <3>1. run' = [run EXCEPT ![x] = a] /\ run[x].status = "applying"
      BY <1>1, <2>2 DEF Prepare, Becomes, IsAt
    <3>2. /\ before \in [Targets -> Contents]
          /\ \A u \in Targets : u # t => before[u] = run[x].before[u]
          /\ before[t] = holds[t]
      BY Types DEF Attempts
    <3>3. /\ at \in DOMAIN Plan /\ at \in Nat
          /\ step \in {"prepare", "back_up"}
          /\ step = "prepare" => at = run[x].at + 1
      BY <1>1, PlanIs DEF Sound
    <3> HIDE DEF before, at, step
    <3>4. /\ a \in Attempts /\ a.status = "applying" /\ a.step = step /\ a.at = at
          /\ a.applied = run[x].applied /\ a.before = before
      BY <1>1, <3>1, <3>2, <3>3 DEF Sound, Attempts
    <3>5. Early(a)
      BY <3>3, <3>4 DEF Early
    <3> HIDE DEF a
    <3>6. ASSUME a.step = "prepare", NEW k \in DOMAIN Plan, k >= a.at
          PROVE  a.before[Plan[k]] = run[x].before[Plan[k]] /\ k >= run[x].at
      <4>1. k # run[x].at /\ k >= run[x].at
        BY <1>1, <3>3, <3>4, <3>6, PlanIs DEF Sound
      <4>2. Plan[k] # t /\ Plan[k] \in Targets
        BY <1>1, <4>1, PlanIs DEF Target, Sound
      <4> QED
        BY <3>2, <3>4, <4>1, <4>2
    <3> QED
      BY <3>1, <3>2, <3>3, <3>4, <3>5, <3>6
  <2> QED
    BY <2>1, <2>2
<1>3. /\ run' \in [Executors -> Attempts] /\ run'[x] = a
      /\ \A z \in Executors : z # x => run'[z] = run[z]
  BY <1>2 DEF SetupInv, TypeOK
<1>4. TypeOK'
  <2>1. \A z \in Executors : run'[z].at \in DOMAIN Plan /\ run'[z].applied <= Len(Plan)
    BY <1>1, <1>2, <1>3 DEF SetupInv, TypeOK, Sound
  <2> QED
    BY <1>1, <1>3, <2>1 DEF SetupInv, TypeOK
<1>5. \A k \in DOMAIN Plan : k >= run[x].at => run[x].before[Plan[k]] = None
  BY <1>1 DEF SetupInv, PreparedInOrder
<1>6. \A z \in Executors, t \in Targets, y \in Executors :
          /\ z \in run[y].before[t] => z \in run'[y].before[t]
          /\ z \in run'[y].before[t] => z \in run[y].before[t] \/ (y = x /\ z \in holds[t])
  <2> SUFFICES ASSUME NEW z \in Executors, NEW t \in Targets
               PROVE  /\ z \in run[x].before[t] => z \in a.before[t]
                      /\ z \in a.before[t] => z \in run[x].before[t] \/ z \in holds[t]
    BY <1>3
  <2>1. run[x].before[Target(x)] = None /\ z \notin None
    BY <1>1, <1>5, PlanIs DEF Target, Sound, None
  <2> QED
    BY <1>2, <2>1
<1>7. MarksAreKnown'
  <2> SUFFICES ASSUME NEW z \in Executors, NEW k \in DOMAIN Plan, z \in holds[Plan[k]]
               PROVE  \/ Left(run'[z], k) /\ ~WasThere(run'[z], Plan[k])
                      \/ PutBack(z, Plan[k])'
    BY <1>1 DEF MarksAreKnown, Left, WasThere
  <2>1. z # x
    BY <1>1, NothingLeftEarly
  <2>2. PutBack(z, Plan[k]) => PutBack(z, Plan[k])'
    BY <1>6, PlanIs DEF PutBack
  <2> QED
    BY <1>3, <2>1, <2>2, WhereTheyAre
<1>8. NeverItsOwn'
  <2>1. \A t \in Targets : x \notin holds[t]
    BY <1>1 DEF SetupInv, NoneBeforeWriting
  <2> QED
    BY <1>6, <2>1 DEF SetupInv, NeverItsOwn
<1>9. NoneBeforeWriting'
  <2> SUFFICES ASSUME NEW z \in Executors, Early(run'[z]), NEW t \in Targets
               PROVE  z \notin holds[t] /\ \A y \in Executors : z \notin run'[y].before[t]
    BY <1>1 DEF NoneBeforeWriting, Early
  <2>1. Early(run[z])
    BY <1>1, <1>3
  <2> QED
    BY <1>6, <2>1 DEF SetupInv, NoneBeforeWriting
<1>10. PreparedInOrder'
  <2> SUFFICES ASSUME NEW z \in Executors
               PROVE  /\ run'[z].status = "proposed" => run'[z].step = "prepare"
                      /\ Early(run'[z]) /\ run'[z].step = "prepare" =>
                            \A k \in DOMAIN Plan : k >= run'[z].at => run'[z].before[Plan[k]] = None
    BY DEF PreparedInOrder, Early
  <2>1. CASE z = x
    BY <1>2, <1>3, <1>5, <2>1
  <2>2. CASE z # x
    BY <1>3, <2>2 DEF SetupInv, PreparedInOrder
  <2> QED
    BY <2>1, <2>2
<1>11. RestoresWhatItWrote'
  <2> SUFFICES ASSUME NEW z \in Executors,
                      run'[z].status = "rolling_back", run'[z].step = "restore"
               PROVE  Kind[Plan[run'[z].at]] # "directory" /\ run'[z].seen = After(z, Plan[run[z].at])'
    BY <1>2, <1>3 DEF RestoresWhatItWrote, IsAt, Target, After
  <2>1. z # x
    BY <1>2, <1>3
  <2>2. Kind[Target(z)] # "directory" /\ run[z].seen = After(z, Target(z))
    BY <1>3, <2>1 DEF SetupInv, RestoresWhatItWrote, IsAt
  <2> QED
    BY <1>3, <2>1, <2>2 DEF Target, After
<1> QED
  BY <1>4, <1>7, <1>8, <1>9, <1>10, <1>11 DEF SetupInv

-----------------------------------------------------------------------------
(* The user, the end of the process, and the whole.                        *)

\* The user brings back no value of an executor.
LEMMA UserKeeps ==
    ASSUME SetupInv, NEW t \in Targets, NEW e \in Edits, Edit(t, e) \/ Remove(t, e)
    PROVE  SetupInv'
<1>1. PICK new \in Contents : /\ holds' = [holds EXCEPT ![t] = new]
                              /\ \A z \in Executors : z \in new => z \in holds[t]
  <2>1. holds[t] \in Contents
    BY DEF SetupInv, TypeOK
  <2>2. None \in Contents /\ {e} \in Contents /\ (holds[t] \ None) \cup {e} \in Contents
    BY <2>1 DEF Contents, None
  <2>3. \A z \in Executors : z \notin None /\ z \notin {e}
                             /\ (z \in (holds[t] \ None) \cup {e} => z \in holds[t])
    BY DEF None
  <2> QED
    BY <2>2, <2>3 DEF Edit, Remove
<1>2. run' = run /\ made' \subseteq Edits
  BY DEF Edit, Remove, SetupInv, TypeOK
<1>3. /\ holds' \in [Targets -> Contents]
      /\ \A u \in Targets, z \in Executors : z \in holds'[u] => z \in holds[u]
  BY <1>1 DEF SetupInv, TypeOK
<1>4. TypeOK'
  BY <1>2, <1>3 DEF SetupInv, TypeOK
<1>5. MarksAreKnown'
  BY <1>2, <1>3, PlanIs DEF SetupInv, MarksAreKnown, Left, WasThere, PutBack
<1>6. NoneBeforeWriting' /\ NeverItsOwn' /\ PreparedInOrder' /\ RestoresWhatItWrote'
  BY <1>2, <1>3 DEF SetupInv, NoneBeforeWriting, Early, NeverItsOwn, PreparedInOrder,
                    RestoresWhatItWrote, IsAt, Target, After
<1> QED
  BY <1>4, <1>5, <1>6 DEF SetupInv

LEMMA CrashKeeps ==
    ASSUME SetupInv, Crash
    PROVE  SetupInv'
<1>1. UNCHANGED <<holds, made>>
  BY DEF Crash
<1>2. ASSUME NEW z \in Executors
      PROVE  /\ run'[z] \in Attempts /\ run'[z].at = run[z].at /\ run'[z].applied = run[z].applied
             /\ run'[z].before = run[z].before
             /\ run'[z] = run[z] \/ run'[z].status = "dead"
  <2>1. run[z] \in Attempts /\ "dead" \in Endings
    BY DEF SetupInv, TypeOK, Endings
  <2>2. run'[z] = IF Running(z) THEN [run[z] EXCEPT !.status = "dead"] ELSE run[z]
    BY DEF Crash
  <2> QED
    BY <2>1, <2>2 DEF Attempts
<1>3. run' \in [Executors -> Attempts]
  BY <1>2 DEF Crash
<1>4. TypeOK'
  BY <1>1, <1>2, <1>3 DEF SetupInv, TypeOK
<1>5. \A z \in Executors : Early(run'[z]) => run'[z] = run[z]
  BY <1>2 DEF Early
<1>6. \A z \in Executors, t \in Targets : PutBack(z, t) => PutBack(z, t)'
  BY <1>2 DEF PutBack
<1>7. MarksAreKnown'
  <2> SUFFICES ASSUME NEW z \in Executors, NEW k \in DOMAIN Plan, z \in holds[Plan[k]]
               PROVE  \/ Left(run'[z], k) /\ ~WasThere(run'[z], Plan[k])
                      \/ PutBack(z, Plan[k])'
    BY <1>1 DEF MarksAreKnown, Left, WasThere
  <2>1. Left(run[z], k) => Left(run'[z], k)
    BY <1>2 DEF Left
  <2>2. WasThere(run'[z], Plan[k]) => WasThere(run[z], Plan[k])
    BY <1>2 DEF WasThere
  <2> QED
    BY <1>6, <2>1, <2>2, WhereTheyAre
<1>8. NoneBeforeWriting'
  <2> SUFFICES ASSUME NEW z \in Executors, Early(run'[z]), NEW t \in Targets
               PROVE  z \notin holds[t] /\ \A y \in Executors : z \notin run'[y].before[t]
    BY <1>1 DEF NoneBeforeWriting, Early
  <2>1. Early(run[z])
    BY <1>5
  <2> QED
    BY <1>2, <2>1 DEF SetupInv, NoneBeforeWriting
<1>9. NeverItsOwn'
  BY <1>2 DEF SetupInv, NeverItsOwn
<1>10. PreparedInOrder'
  <2> SUFFICES ASSUME NEW z \in Executors, Early(run'[z])
               PROVE  /\ run'[z].status = "proposed" => run'[z].step = "prepare"
                      /\ Early(run'[z]) /\ run'[z].step = "prepare" =>
                            \A k \in DOMAIN Plan : k >= run'[z].at => run'[z].before[Plan[k]] = None
    BY DEF PreparedInOrder, Early
  <2> QED
    BY <1>5 DEF SetupInv, PreparedInOrder
<1>11. RestoresWhatItWrote'
  <2> SUFFICES ASSUME NEW z \in Executors,
                      run'[z].status = "rolling_back", run'[z].step = "restore"
               PROVE  Kind[Plan[run'[z].at]] # "directory" /\ run'[z].seen = After(z, Plan[run[z].at])'
    BY <1>2 DEF RestoresWhatItWrote, IsAt, Target, After
  <2>1. run'[z] = run[z]
    BY <1>2
  <2>2. Kind[Target(z)] # "directory" /\ run[z].seen = After(z, Target(z))
    BY <2>1 DEF SetupInv, RestoresWhatItWrote, IsAt
  <2> QED
    BY <2>1, <2>2 DEF Target, After
<1> QED
  BY <1>4, <1>7, <1>8, <1>9, <1>10, <1>11 DEF SetupInv

LEMMA InitEstablishes == Init => SetupInv
<1> SUFFICES ASSUME Init PROVE SetupInv
  OBVIOUS
<1>1. Proposed \in Attempts
  BY DEF Proposed, Attempts, Contents
<1>2. /\ \A x \in Executors : run[x] = Proposed
      /\ \A x \in Executors, t \in Targets : x \notin holds[t] /\ x \notin None
  BY DEF Init, None
<1>3. TypeOK
  BY <1>1, PlanIs DEF Init, TypeOK, Contents, Proposed
<1>4. NeverItsOwn /\ NoneBeforeWriting /\ MarksAreKnown
  BY <1>2, PlanIs DEF NeverItsOwn, NoneBeforeWriting, MarksAreKnown, Proposed
<1>5. PreparedInOrder /\ RestoresWhatItWrote
  BY <1>2, PlanIs DEF PreparedInOrder, RestoresWhatItWrote, IsAt, Proposed
<1> QED
  BY <1>3, <1>4, <1>5 DEF SetupInv

LEMMA StepKeeps == SetupInv /\ [Next]_vars => SetupInv'
<1> SUFFICES ASSUME SetupInv, [Next]_vars PROVE SetupInv'
  OBVIOUS
<1>1. ASSUME NEW x \in Executors, Apply(x) PROVE SetupInv'
  BY <1>1, PreparingKeeps, PreparingEnds, WriteTargetKeeps, WritingEnds, VerifyingEnds DEF Apply
<1>2. ASSUME NEW x \in Executors, RollBack(x) PROVE SetupInv'
  BY <1>2, CheckTargetKeeps, RestoreTargetKeeps, RemoveDirectoryKeeps DEF RollBack
<1>3. ASSUME NEW x \in Executors, Fails(x) PROVE SetupInv'
  BY <1>3, PreparingEnds, WritingEnds, VerifyingEnds, RestoreFailsKeeps DEF Fails
<1>4. ASSUME NEW t \in Targets, NEW e \in Edits, Edit(t, e) \/ Remove(t, e) PROVE SetupInv'
  BY <1>4, UserKeeps
<1>5. ASSUME Crash PROVE SetupInv'
  BY <1>5, CrashKeeps
<1>6. ASSUME UNCHANGED vars PROVE SetupInv'
  <2>1. UNCHANGED <<holds, made, run>>
    BY <1>6 DEF vars
  <2>2. TypeOK' /\ MarksAreKnown' /\ NoneBeforeWriting' /\ NeverItsOwn'
    BY <2>1 DEF SetupInv, TypeOK, MarksAreKnown, Left, WasThere, PutBack, NoneBeforeWriting,
                Early, NeverItsOwn
  <2>3. PreparedInOrder' /\ RestoresWhatItWrote'
    BY <2>1 DEF SetupInv, PreparedInOrder, Early, RestoresWhatItWrote, IsAt, Target, After
  <2> QED
    BY <2>2, <2>3 DEF SetupInv
<1> QED
  BY <1>1, <1>2, <1>3, <1>4, <1>5, <1>6 DEF Next

\* What a step takes from a target: the user's removals apart, only an executor that
\* had not seen the edit when it last read the target, or that sets a variable.
LEMMA OnlyUnseenAreLost ==
    ASSUME SetupInv, [Next]_vars, NEW t \in Targets, NEW e \in Edits,
           e \in holds[t], e \notin holds'[t], made' = made
    PROVE  \E x \in Executors :
               /\ Running(x) /\ Target(x) = t
               /\ \/ run[x].status = "applying" /\ Kind[t] = "environment"
                  \/ run[x].status = "applying" /\ e \notin run[x].before[t]
                  \/ IsAt(x, "rolling_back", "restore") /\ e \notin run[x].seen
<1> DEFINE Loses(x) ==
               /\ Running(x) /\ Target(x) = t
               /\ \/ run[x].status = "applying" /\ Kind[t] = "environment"
                  \/ run[x].status = "applying" /\ e \notin run[x].before[t]
                  \/ IsAt(x, "rolling_back", "restore") /\ e \notin run[x].seen
<1>1. holds \in [Targets -> Contents] /\ e \notin None
  BY DEF SetupInv, TypeOK, None
<1>2. ~UNCHANGED holds
  OBVIOUS
<1>3. \A x \in Executors, u \in Targets : \A new :
          holds' = [holds EXCEPT ![u] = new] => u = t /\ e \notin new
  BY <1>1
<1>4. ASSUME NEW x \in Executors, WriteTarget(x) \/ WriteFails(x) PROVE Loses(x)
  <2>1. /\ run[x].status = "applying" /\ Target(x) \in Targets
        /\ holds' = [holds EXCEPT ![Target(x)] = After(x, Target(x))]
        /\ Writes(x)
    BY <1>2, <1>4, Types DEF WriteTarget, WriteFails, IsAt, Writes
  <2>2. Target(x) = t /\ e \notin After(x, t)
    BY <1>3, <2>1
  <2>3. Kind[t] # "directory"
    BY <1>1, <2>1, <2>2 DEF Writes
  <2>4. Kind[t] \in Kinds
    BY PlanIs
  <2> QED
    BY <2>1, <2>2, <2>3, <2>4 DEF After, Kinds, Running
<1>5. ASSUME NEW x \in Executors, RestoreTarget(x) \/ RestoreFails(x) PROVE Loses(x)
  <2>1. /\ IsAt(x, "rolling_back", "restore") /\ Target(x) \in Targets
        /\ holds' = [holds EXCEPT ![Target(x)] = run[x].before[Target(x)]]
    BY <1>2, <1>5, Types DEF RestoreTarget, RestoreFails, IsAt
  <2>2. Target(x) = t /\ e \notin run[x].before[t]
    BY <1>3, <2>1
  <2>3. run[x].seen = After(x, t)
    BY <2>1, <2>2 DEF SetupInv, RestoresWhatItWrote
  <2>4. e \notin run[x].seen
    BY <2>2, <2>3 DEF After
  <2> QED
    BY <2>1, <2>2, <2>4 DEF Running, IsAt
<1>6. ASSUME NEW x \in Executors, RemoveDirectory(x) PROVE FALSE
  <2>1. /\ Target(x) \in Targets /\ holds' = [holds EXCEPT ![Target(x)] = None]
        /\ holds[Target(x)] \cap Edits = {}
    BY <1>2, <1>6, Types DEF RemoveDirectory
  <2> QED
    BY <1>3, <2>1
<1>7. ASSUME NEW x \in Executors,
             \/ Start(x) \/ Prepare(x) \/ BackUp(x) \/ ReadBack(x) \/ Verify(x) \/ CheckTarget(x)
             \/ PrepareFails(x) \/ ReadBackFails(x) \/ VerifyFails(x)
      PROVE  FALSE
  BY <1>2, <1>7 DEF Start, Prepare, BackUp, ReadBack, Verify, CheckTarget, PrepareFails,
                    ReadBackFails, VerifyFails
<1>8. ASSUME NEW u \in Targets, NEW f \in Edits, Edit(u, f) \/ Remove(u, f) PROVE FALSE
  BY <1>8 DEF Edit, Remove
<1>9. Crash \/ UNCHANGED vars => FALSE
  BY <1>2 DEF Crash, vars
<1>10. \E x \in Executors : Apply(x) \/ RollBack(x) \/ Fails(x)
  BY <1>8, <1>9 DEF Next
<1>11. \E x \in Executors : Loses(x)
  BY <1>4, <1>5, <1>6, <1>7, <1>10 DEF Apply, RollBack, Fails
<1> QED
  BY <1>11

-----------------------------------------------------------------------------
(***************************************************************************)
(* The theorems.                                                           *)
(***************************************************************************)

\* The inductive invariant: every target that may hold the values of an attempt is
\* one its rollback still reaches or reports, or another attempt put them back.
THEOREM SetupInvariant == Spec => []SetupInv
<1>1. Init => SetupInv
  BY InitEstablishes
<1>2. SetupInv /\ [Next]_vars => SetupInv'
  BY StepKeeps
<1> QED
  BY <1>1, <1>2, PTL DEF Spec

\* A rollback that ended leaves no value of its plan behind, but for the targets it
\* reports, the one whose writing failed and what another executor put back
\* (fail_and_rollback, rollback).
THEOREM RollbackIsComplete == Spec => []RollbackReachesAll
<1>1. SetupInv => RollbackReachesAll
  <2> SUFFICES ASSUME SetupInv, NEW x \in Executors, NEW k \in DOMAIN Plan,
                      run[x].status \in {"rolled_back", "failed"}, x \in holds[Plan[k]]
               PROVE  \/ run[x].status = "failed" /\ Plan[k] \in run[x].errors
                      \/ k = run[x].applied + 1
                      \/ \E y \in Executors \ {x} : x \in run[y].before[Plan[k]]
    BY DEF RollbackReachesAll, SetupInv
  <2>1. Left(run[x], k) \/ PutBack(x, Plan[k])
    BY DEF SetupInv, MarksAreKnown
  <2> QED
    BY <2>1 DEF Left, PutBack
<1> QED
  BY <1>1, SetupInvariant, PTL

\* No edit of the user is lost that an executor could have seen when it last read
\* the target: only the gap between a reading and the writing after it loses any.
THEOREM SeenEditsStay == Spec => OnlyUnseenEditsAreLost
<1> DEFINE Lost == \A t \in Targets, e \in Edits :
                       e \in holds[t] /\ e \notin holds'[t] /\ made' = made
                       => \E x \in Executors :
                             /\ Running(x) /\ Target(x) = t
                             /\ \/ run[x].status = "applying" /\ Kind[t] = "environment"
                                \/ run[x].status = "applying" /\ e \notin run[x].before[t]
                                \/ IsAt(x, "rolling_back", "restore") /\ e \notin run[x].seen
<1>1. SetupInv /\ [Next]_vars => [Lost]_vars
  BY OnlyUnseenAreLost
<1> QED
  BY <1>1, SetupInvariant, PTL DEF Spec, OnlyUnseenEditsAreLost

=============================================================================
