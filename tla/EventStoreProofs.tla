-------------------------- MODULE EventStoreProofs --------------------------
(***************************************************************************)
(* The safety of EventStore for every set of events, tokens and lanes.     *)
(*                                                                         *)
(* None of the invariants is inductive alone: the counts stay natural      *)
(* numbers because only applied peers are subtracted (CountedExactlyOnce), *)
(* an event enters with its lanes untouched (Pristine), and the loss count *)
(* is the tally of what was deleted unfinished (LostTally).  StoreInv is   *)
(* their conjunction, and each part of it is preserved by every action.    *)
(***************************************************************************)
EXTENDS EventStore, FiniteSetTheorems, TLAPS

\* An event nobody stored yet has no history.
Pristine == \A e \in Events : row[e] = "absent" => status[e] = InsertedStatus(e)

\* What expired_incomplete_event_count adds up to.
LostTally == lost = Cardinality({e \in Events : row[e] = "gone" /\ Incomplete(e)})

StoreInv ==
    /\ TypeOK
    /\ NoLaneForgotten
    /\ CountedExactlyOnce
    /\ NewestRevisionCounts
    /\ Pristine
    /\ LostTally

USE StoreAssumption DEF Lanes

\* The rows of processing_tasks the code writes are well formed.
LEMMA TaskRowsTyped ==
    /\ NoTask \in TaskRows
    /\ CancelledTask \in TaskRows
    /\ \A when \in {"null", "later", "due"} : OpenTask(when) \in TaskRows
    /\ \A t \in Tokens : LeasedTask(t) \in TaskRows
BY DEF NoTask, CancelledTask, OpenTask, LeasedTask, TaskRows

LEMMA InsertedTyped ==
    ASSUME NEW e \in Events
    PROVE  /\ InsertedStatus(e) \in [Lanes -> Statuses]
           /\ InsertedTasks(e) \in [Lanes -> TaskRows]
BY TaskRowsTyped DEF InsertedStatus, InsertedTasks, Statuses

-----------------------------------------------------------------------------

\* The initial state satisfies every part of the invariant.
LEMMA InitStore == Init => StoreInv
<1> SUFFICES ASSUME Init PROVE StoreInv
  OBVIOUS
<1>1. TypeOK
  BY InsertedTyped, TaskRowsTyped DEF Init, TypeOK
<1>2. NoLaneForgotten
  BY DEF Init, NoLaneForgotten, HasItsTask, Live, InsertedStatus
<1>3. CountedExactlyOnce
  BY DEF Init, CountedExactlyOnce, InsertedStatus
<1>4. NewestRevisionCounts
  BY DEF Init, NewestRevisionCounts, InsertedStatus, Live
<1>5. Pristine
  BY DEF Init, Pristine
<1>6. LostTally
  <2>1. {e \in Events : row[e] = "gone" /\ Incomplete(e)} = {}
    BY DEF Init
  <2> QED
    BY <2>1, FS_EmptySet DEF LostTally, Init
<1> QED
  BY <1>1, <1>2, <1>3, <1>4, <1>5, <1>6 DEF StoreInv

-----------------------------------------------------------------------------

\* Expiry counts natural numbers of events.
LEMMA LostWithTyped ==
    ASSUME NEW S \in SUBSET Events
    PROVE  LostWith(S) \in Nat
BY FS_Subset, FS_CardinalityType DEF LostWith

\* Every action keeps the stored rows well formed.
LEMMA TypeStep ==
    ASSUME StoreInv, [Next]_vars
    PROVE  TypeOK'
<1> USE DEF TypeOK
<1>0. TypeOK /\ CountedExactlyOnce
  BY DEF StoreInv
<1>1. ASSUME NEW S \in (SUBSET Events) \ {{}}, CommitSource(S)
      PROVE  TypeOK'
  BY <1>0, <1>1, InsertedTyped DEF CommitSource
<1>2. ASSUME NEW c \in Lanes, NEW S \in (SUBSET Events) \ {{}}, NEW tok \in [S -> Tokens],
             ClaimTasks(c, S, tok)
      PROVE  TypeOK'
  <2>1. task' \in [Events -> [Lanes -> TaskRows]]
    BY <1>0, <1>2, TaskRowsTyped DEF ClaimTasks
  <2>2. status' \in [Events -> [Lanes -> Statuses]]
    BY <1>0, <1>2 DEF ClaimTasks, Statuses
  <2>3. held' \subseteq Leases
    BY <1>0, <1>2 DEF ClaimTasks, Leases
  <2> QED
    BY <1>0, <1>2, <2>1, <2>2, <2>3 DEF ClaimTasks
<1>3. ASSUME NEW l \in held, NEW outcome \in UploadOutcomes, CompleteTask(l, outcome)
      PROVE  TypeOK'
  BY <1>0, <1>3, TaskRowsTyped DEF CompleteTask, UploadOutcomes, Statuses, Leases
<1>4. ASSUME NEW l \in held, ApplyMetrics(l)
      PROVE  TypeOK'
  <2>1. l.event \in Events /\ l.lane \in MetricLanes
    BY <1>0, <1>4 DEF Leases, ApplyMetrics
  <2>2. task' \in [Events -> [Lanes -> TaskRows]]
    BY <1>0, <1>4, <2>1, TaskRowsTyped DEF ApplyMetrics
  <2>3. status' \in [Events -> [Lanes -> Statuses]]
    <3>0. "applied" \in Statuses /\ "not_applicable" \in Statuses
      BY DEF Statuses
    <3>1. CASE Superseded(l.event, l.lane)
      <4>1. status' = [status EXCEPT ![l.event][l.lane] = "not_applicable"]
        BY <1>4, <3>1 DEF ApplyMetrics
      <4> QED
        BY <1>0, <2>1, <3>0, <4>1
    <3>2. CASE ~Superseded(l.event, l.lane)
      <4>1. status' = [f \in Events |-> [d \in Lanes |->
                          IF d # l.lane THEN status[f][d]
                          ELSE IF f = l.event THEN "applied"
                          ELSE IF f \in Replaced(l.event, l.lane) THEN "not_applicable"
                          ELSE status[f][l.lane]]]
        BY <1>4, <3>2 DEF ApplyMetrics
      <4> QED
        BY <1>0, <2>1, <3>0, <4>1
    <3> QED
      BY <3>1, <3>2
  <2>4. counted' \in [Events -> [MetricLanes -> Nat]]
    <3>1. CASE Superseded(l.event, l.lane)
      BY <1>0, <1>4, <3>1 DEF ApplyMetrics
    <3>2. CASE ~Superseded(l.event, l.lane)
      <4>1. \A f \in Replaced(l.event, l.lane) : counted[f][l.lane] = 1
        BY <1>0, <2>1 DEF Replaced, AppliedPeers, CountedExactlyOnce
      <4> QED
        BY <1>0, <1>4, <2>1, <3>2, <4>1 DEF ApplyMetrics
    <3> QED
      BY <3>1, <3>2
  <2> QED
    BY <1>0, <1>4, <2>2, <2>3, <2>4 DEF ApplyMetrics
<1>5. ASSUME NEW l \in held, NEW when \in {"later", "due"}, RetryTask(l, when)
      PROVE  TypeOK'
  BY <1>0, <1>5, TaskRowsTyped DEF RetryTask, Statuses, Leases
<1>6. ASSUME NEW l \in held, RefuseAnswer(l) \/ AbandonLease(l)
      PROVE  TypeOK'
  BY <1>0, <1>6 DEF RefuseAnswer, AbandonLease
<1>7. CASE ReclaimExpiredLeases
  BY <1>0, <1>7, TaskRowsTyped DEF ReclaimExpiredLeases, Statuses
<1>8. ASSUME NEW S \in SUBSET Events, ExpireDueEvents(S)
      PROVE  TypeOK'
  <2>1. task' \in [Events -> [Lanes -> TaskRows]]
    BY <1>0, <1>8, TaskRowsTyped DEF ExpireDueEvents
  <2>2. status' \in [Events -> [Lanes -> Statuses]]
    BY <1>0, <1>8 DEF ExpireDueEvents, Statuses
  <2>3. lost' \in Nat
    <3>1. LostWith(S) \in Nat
      BY LostWithTyped
    <3>2. lost' = lost + LostWith(S)
      BY <1>8 DEF ExpireDueEvents
    <3> QED
      BY <1>0, <3>1, <3>2
  <2> QED
    BY <1>0, <1>8, <2>1, <2>2, <2>3 DEF ExpireDueEvents
<1>9. CASE RegisterSkill
  BY <1>0, <1>9, TaskRowsTyped DEF RegisterSkill, Statuses, ResentTask
<1>10. ASSUME NEW e \in Events, NEW c \in Lanes, TaskBecomesDue(e, c) \/ LeaseLapses(e, c)
       PROVE  TypeOK'
  <2>1. task[e][c] \in TaskRows
    BY <1>0
  <2>2. [task[e][c] EXCEPT !.lapsed = TRUE] \in TaskRows
    BY <2>1 DEF TaskRows
  <2>3. CASE TaskBecomesDue(e, c)
    BY <1>0, <2>3, TaskRowsTyped DEF TaskBecomesDue
  <2>4. CASE LeaseLapses(e, c)
    BY <1>0, <2>2, <2>4 DEF LeaseLapses
  <2> QED
    BY <1>10, <2>3, <2>4
<1>11. ASSUME NEW e \in Events, EventExpires(e)
       PROVE  TypeOK'
  BY <1>0, <1>11 DEF EventExpires
<1>12. CASE UNCHANGED vars
  BY <1>0, <1>12 DEF vars
<1> QED
  BY <1>1, <1>2, <1>3, <1>4, <1>5, <1>6, <1>7, <1>8, <1>9, <1>10, <1>11, <1>12
  DEF Next, Claim, Answer, ClockStep

-----------------------------------------------------------------------------

\* A lane an action leaves alone keeps its task.
LEMMA UntouchedLane ==
    ASSUME NEW e \in Events, NEW c \in Lanes, HasItsTask(e, c),
           row'[e] = row[e], status'[e][c] = status[e][c], task'[e][c] = task[e][c]
    PROVE  HasItsTask(e, c)'
BY DEF HasItsTask, Live

\* Every action writes a lane's status and its task together.
LEMMA LaneStep ==
    ASSUME StoreInv, [Next]_vars
    PROVE  NoLaneForgotten'
<1> USE DEF TypeOK
<1>0. TypeOK /\ NoLaneForgotten /\ Pristine
  BY DEF StoreInv
<1> SUFFICES ASSUME NEW e \in Events, NEW c \in Lanes
             PROVE  HasItsTask(e, c)'
  BY DEF NoLaneForgotten
<1>a. HasItsTask(e, c)
  BY <1>0 DEF NoLaneForgotten
<1>1. ASSUME NEW S \in (SUBSET Events) \ {{}}, CommitSource(S)
      PROVE  HasItsTask(e, c)'
  <2>1. CASE e \in S
    <3>1. row'[e] = "live" /\ status'[e] = InsertedStatus(e) /\ task'[e] = InsertedTasks(e)
      BY <1>0, <1>1, <2>1 DEF CommitSource
    <3> QED
      BY <3>1 DEF HasItsTask, Live, InsertedStatus, InsertedTasks
  <2>2. CASE e \notin S
    BY <1>0, <1>1, <1>a, <2>2, UntouchedLane DEF CommitSource
  <2> QED
    BY <2>1, <2>2
<1>2. ASSUME NEW d \in Lanes, NEW S \in (SUBSET Events) \ {{}}, NEW tok \in [S -> Tokens],
             ClaimTasks(d, S, tok)
      PROVE  HasItsTask(e, c)'
  <2>1. CASE e \in S /\ c = d
    <3>1. /\ row'[e] = "live"
          /\ status'[e][c] = "in_flight"
          /\ task'[e][c] = LeasedTask(tok[e])
      BY <1>0, <1>2, <2>1 DEF ClaimTasks, Claimable, Live
    <3>2. tok[e] \in Tokens
      BY <2>1
    <3> QED
      BY <3>1, <3>2 DEF HasItsTask, Live, LeasedTask
  <2>2. CASE ~(e \in S /\ c = d)
    <3>1. status'[e][c] = status[e][c] /\ task'[e][c] = task[e][c] /\ row'[e] = row[e]
      BY <1>0, <1>2, <2>2 DEF ClaimTasks
    <3> QED
      BY <1>a, <3>1, UntouchedLane
  <2> QED
    BY <2>1, <2>2
<1>3. ASSUME NEW l \in held, NEW outcome \in UploadOutcomes, CompleteTask(l, outcome)
      PROVE  HasItsTask(e, c)'
  <2>0. l.event \in Events /\ l.lane = Upload
    BY <1>0, <1>3 DEF Leases, CompleteTask
  <2>1. CASE e = l.event /\ c = Upload
    <3>1. status'[e][c] = outcome /\ task'[e][c] = NoTask
      BY <1>0, <1>3, <2>0, <2>1 DEF CompleteTask
    <3> QED
      BY <2>1, <3>1 DEF HasItsTask, UploadOutcomes
  <2>2. CASE ~(e = l.event /\ c = Upload)
    BY <1>0, <1>3, <1>a, <2>0, <2>2, UntouchedLane DEF CompleteTask
  <2> QED
    BY <2>1, <2>2
<1>4. ASSUME NEW l \in held, ApplyMetrics(l)
      PROVE  HasItsTask(e, c)'
  <2>0. l.event \in Events /\ l.lane \in MetricLanes
    BY <1>0, <1>4 DEF Leases, ApplyMetrics
  <2>1. /\ row' = row
        /\ task' = [task EXCEPT ![l.event][l.lane] = NoTask]
    BY <1>4 DEF ApplyMetrics
  <2>2. CASE e = l.event /\ c = l.lane
    <3>1. status'[e][c] \in {"applied", "not_applicable"}
      BY <1>0, <1>4, <2>0, <2>2 DEF ApplyMetrics
    <3>2. task'[e][c] = NoTask
      BY <1>0, <2>0, <2>1, <2>2
    <3> QED
      BY <3>1, <3>2 DEF HasItsTask
  <2>3. CASE ~(e = l.event /\ c = l.lane)
    <3>1. task'[e][c] = task[e][c]
      BY <1>0, <2>0, <2>1, <2>3
    <3>2. CASE status'[e][c] = status[e][c]
      BY <1>a, <2>1, <3>1, <3>2, UntouchedLane
    <3>3. CASE status'[e][c] # status[e][c]
      <4>1. status[e][c] = "applied" /\ status'[e][c] = "not_applicable"
        BY <1>0, <1>4, <2>0, <2>3, <3>3 DEF ApplyMetrics, Replaced, AppliedPeers
      <4> QED
        BY <1>a, <3>1, <4>1 DEF HasItsTask
    <3> QED
      BY <3>2, <3>3
  <2> QED
    BY <2>2, <2>3
<1>5. ASSUME NEW l \in held, NEW when \in {"later", "due"}, RetryTask(l, when)
      PROVE  HasItsTask(e, c)'
  <2>0. l.event \in Events /\ l.lane \in Lanes /\ Live(l.event)
    BY <1>0, <1>5 DEF Leases, RetryTask, Verified
  <2>1. CASE e = l.event /\ c = l.lane
    <3>1. status'[e][c] = "retry" /\ task'[e][c] = OpenTask(when) /\ row'[e] = "live"
      BY <1>0, <1>5, <2>0, <2>1 DEF RetryTask, Live
    <3> QED
      BY <3>1 DEF HasItsTask, Live
  <2>2. CASE ~(e = l.event /\ c = l.lane)
    BY <1>0, <1>5, <1>a, <2>0, <2>2, UntouchedLane DEF RetryTask
  <2> QED
    BY <2>1, <2>2
<1>6. ASSUME NEW l \in held, RefuseAnswer(l) \/ AbandonLease(l)
      PROVE  HasItsTask(e, c)'
  BY <1>6, <1>a, UntouchedLane DEF RefuseAnswer, AbandonLease
<1>7. CASE ReclaimExpiredLeases
  <2>1. CASE LeaseLapsed(e, c)
    <3>1. /\ row'[e] = row[e] /\ task'[e][c] = OpenTask("due")
          /\ status'[e][c] = IF status[e][c] = "in_flight" THEN "retry" ELSE status[e][c]
      BY <1>7, <2>1 DEF ReclaimExpiredLeases
    <3>2. status[e][c] \in Statuses /\ task[e][c].token # NoToken
      BY <1>0, <2>1 DEF LeaseLapsed
    <3>3. Live(e) /\ status[e][c] = "in_flight"
      BY <1>a, <3>2
      DEF HasItsTask, LeaseLapsed, NoTask, CancelledTask, OpenTask, Statuses
    <3> QED
      BY <3>1, <3>3 DEF HasItsTask, Live
  <2>2. CASE ~LeaseLapsed(e, c)
    BY <1>7, <1>a, <2>2, UntouchedLane DEF ReclaimExpiredLeases
  <2> QED
    BY <2>1, <2>2
<1>8. ASSUME NEW S \in SUBSET Events, ExpireDueEvents(S)
      PROVE  HasItsTask(e, c)'
  <2>1. /\ row'[e] = IF e \in S THEN "gone" ELSE row[e]
        /\ status'[e][c] = IF Dependent(S, e, c) THEN "blocked" ELSE status[e][c]
        /\ task'[e][c] = IF e \in S THEN NoTask
                        ELSE IF Dependent(S, e, c) THEN CancelledTask ELSE task[e][c]
    BY <1>8 DEF ExpireDueEvents
  <2>2. CASE e \in S
    <3>1. ~Dependent(S, e, c)
      BY <1>8, <2>2 DEF ExpireDueEvents, Dependent
    <3> QED
      BY <2>1, <2>2, <3>1 DEF HasItsTask, Live
  <2>3. CASE e \notin S /\ Dependent(S, e, c)
    BY <2>1, <2>3 DEF HasItsTask, Dependent, Live
  <2>4. CASE e \notin S /\ ~Dependent(S, e, c)
    BY <1>a, <2>1, <2>4, UntouchedLane
  <2> QED
    BY <2>2, <2>3, <2>4
<1>9. CASE RegisterSkill
  <2>0. row' = row
    BY <1>9 DEF RegisterSkill
  <2>1. CASE Resent(e) /\ c = Upload
    <3>1. status'[e][c] = "pending" /\ task'[e][c] = OpenTask("due")
      BY <1>0, <1>9, <2>1 DEF RegisterSkill, ResentTask
    <3> QED
      BY <2>0, <2>1, <3>1 DEF HasItsTask, Live, Resent
  <2>2. CASE ~(Resent(e) /\ c = Upload)
    <3>1. status'[e][c] = status[e][c] /\ task'[e][c] = task[e][c]
      BY <1>0, <1>9, <2>2 DEF RegisterSkill
    <3> QED
      BY <1>a, <2>0, <3>1, UntouchedLane
  <2> QED
    BY <2>1, <2>2
<1>10. ASSUME NEW f \in Events, NEW d \in Lanes, TaskBecomesDue(f, d) \/ LeaseLapses(f, d)
       PROVE  HasItsTask(e, c)'
  <2>0. row' = row /\ status' = status
    BY <1>10 DEF TaskBecomesDue, LeaseLapses
  <2>1. CASE ~(e = f /\ c = d)
    <3>1. task'[e][c] = task[e][c]
      BY <1>0, <1>10, <2>1 DEF TaskBecomesDue, LeaseLapses
    <3> QED
      BY <1>a, <2>0, <3>1, UntouchedLane
  <2>2. CASE e = f /\ c = d /\ TaskBecomesDue(f, d)
    <3>1. task[e][c] = OpenTask("later") /\ task'[e][c] = OpenTask("due")
      BY <1>0, <2>2 DEF TaskBecomesDue
    <3>2. /\ NoTask.runnable = "null" /\ CancelledTask.runnable = "null"
          /\ OpenTask("later").runnable = "later"
      BY DEF NoTask, CancelledTask, OpenTask
    <3>3. status[e][c] \in Statuses
      BY <1>0
    <3>4. Live(e) /\ status[e][c] \in {"pending", "retry"}
      BY <1>a, <3>1, <3>2, <3>3 DEF HasItsTask, Statuses
    <3> QED
      BY <2>0, <3>1, <3>4 DEF HasItsTask, Live
  <2>3. CASE e = f /\ c = d /\ LeaseLapses(f, d)
    <3>1. task[e][c].token # NoToken /\ task'[e][c] = [task[e][c] EXCEPT !.lapsed = TRUE]
      BY <1>0, <2>3 DEF LeaseLapses
    <3>2. status[e][c] \in Statuses /\ task[e][c] \in TaskRows
      BY <1>0
    <3>3. Live(e) /\ status[e][c] = "in_flight"
      BY <1>a, <3>1, <3>2
      DEF HasItsTask, NoTask, CancelledTask, OpenTask, Statuses
    <3>4. /\ task'[e][c].row = task[e][c].row
          /\ task'[e][c].runnable = task[e][c].runnable
          /\ task'[e][c].token = task[e][c].token
      BY <3>1, <3>2 DEF TaskRows
    <3> QED
      BY <1>a, <2>0, <3>3, <3>4 DEF HasItsTask, Live
  <2> QED
    BY <1>10, <2>1, <2>2, <2>3
<1>11. ASSUME NEW f \in Events, EventExpires(f)
       PROVE  HasItsTask(e, c)'
  BY <1>11, <1>a, UntouchedLane DEF EventExpires
<1>12. CASE UNCHANGED vars
  BY <1>12, <1>a, UntouchedLane DEF vars
<1> QED
  BY <1>1, <1>2, <1>3, <1>4, <1>5, <1>6, <1>7, <1>8, <1>9, <1>10, <1>11, <1>12
  DEF Next, Claim, Answer, ClockStep

-----------------------------------------------------------------------------

\* A step that applies nothing leaves the counts alone, and neither applies a
\* metric lane nor takes one out.
Quiet(e, c) ==
    /\ counted' = counted
    /\ (status'[e][c] = "applied") <=> (status[e][c] = "applied")
    /\ (status'[e][c] = "not_applicable") <=> (status[e][c] = "not_applicable")
    /\ row'[e] = "live" => row[e] \in {"live", "absent"}
    /\ row'[e] = "absent" => row[e] = "absent" /\ status'[e] = status[e]

\* Insertion gives an event the status it is assumed to have before.
LEMMA CommitKeepsStatus ==
    ASSUME StoreInv, NEW S \in SUBSET Events, CommitSource(S)
    PROVE  status' = status
<1>1. status \in [Events -> [Lanes -> Statuses]] /\ Pristine
  BY DEF StoreInv, TypeOK
<1>2. status' = [e \in Events |-> IF e \in S THEN InsertedStatus(e) ELSE status[e]]
  BY DEF CommitSource
<1>3. \A e \in Events : (IF e \in S THEN InsertedStatus(e) ELSE status[e]) = status[e]
  BY <1>1 DEF CommitSource, Pristine
<1> QED
  BY <1>1, <1>2, <1>3

LEMMA QuietStep ==
    ASSUME StoreInv, [Next]_vars, NEW e \in Events, NEW c \in MetricLanes,
           ~ \E l \in held : ApplyMetrics(l)
    PROVE  Quiet(e, c)
<1> USE DEF TypeOK
<1>0. TypeOK /\ NoLaneForgotten
  BY DEF StoreInv
<1>a. c \in Lanes /\ c # Upload
  OBVIOUS
<1>1. ASSUME NEW S \in (SUBSET Events) \ {{}}, CommitSource(S)
      PROVE  Quiet(e, c)
  <2>1. status' = status
    BY <1>1, CommitKeepsStatus
  <2> QED
    BY <1>0, <1>1, <2>1 DEF CommitSource, Quiet
<1>2. ASSUME NEW d \in Lanes, NEW S \in (SUBSET Events) \ {{}}, NEW tok \in [S -> Tokens],
             ClaimTasks(d, S, tok)
      PROVE  Quiet(e, c)
  <2>1. \/ status'[e][c] = status[e][c]
        \/ status[e][c] \in {"pending", "retry"} /\ status'[e][c] = "in_flight" /\ e \in S
    BY <1>0, <1>2 DEF ClaimTasks, Claimable
  <2>2. row' = row /\ counted' = counted /\ (row[e] = "absent" => e \notin S)
    BY <1>2 DEF ClaimTasks, Claimable, Live
  <2>3. e \notin S => status'[e] = status[e]
    BY <1>2 DEF ClaimTasks
  <2> QED
    BY <2>1, <2>2, <2>3 DEF Quiet
<1>3. ASSUME NEW l \in held, \/ \E outcome \in UploadOutcomes : CompleteTask(l, outcome)
                            \/ \E when \in {"later", "due"} : RetryTask(l, when)
      PROVE  Quiet(e, c)
  <2>1. l.event \in Events /\ l.lane \in Lanes /\ Live(l.event)
    BY <1>0, <1>3 DEF Leases, CompleteTask, RetryTask, Verified
  <2>2. row' = row /\ counted' = counted
    BY <1>3 DEF CompleteTask, RetryTask
  <2>3. e # l.event => status'[e] = status[e]
    BY <1>0, <1>3, <2>1 DEF CompleteTask, RetryTask
  <2>4. \/ status'[e][c] = status[e][c]
        \/ status[e][c] = "in_flight" /\ status'[e][c] = "retry"
    <3>1. ASSUME NEW outcome \in UploadOutcomes, CompleteTask(l, outcome)
          PROVE  status'[e][c] = status[e][c]
      BY <1>0, <1>a, <2>1, <3>1 DEF CompleteTask
    <3>2. ASSUME NEW when \in {"later", "due"}, RetryTask(l, when)
          PROVE  \/ status'[e][c] = status[e][c]
                 \/ status[e][c] = "in_flight" /\ status'[e][c] = "retry"
      <4>1. CASE e = l.event /\ c = l.lane
        BY <1>0, <1>a, <2>1, <3>2, <4>1 DEF RetryTask, Verified
      <4>2. CASE ~(e = l.event /\ c = l.lane)
        BY <1>0, <1>a, <2>1, <3>2, <4>2 DEF RetryTask
      <4> QED
        BY <4>1, <4>2
    <3> QED
      BY <1>3, <3>1, <3>2
  <2> QED
    BY <2>1, <2>2, <2>3, <2>4 DEF Quiet, Live
<1>4. ASSUME NEW l \in held, RefuseAnswer(l) \/ AbandonLease(l)
      PROVE  Quiet(e, c)
  BY <1>4 DEF RefuseAnswer, AbandonLease, Quiet
<1>5. CASE ReclaimExpiredLeases
  <2>1. \/ status'[e][c] = status[e][c]
        \/ status[e][c] = "in_flight" /\ status'[e][c] = "retry"
    BY <1>5 DEF ReclaimExpiredLeases
  <2>2. row[e] = "absent" => \A d \in Lanes : ~LeaseLapsed(e, d)
    <3>1. NoTask.token = NoToken
      BY DEF NoTask
    <3> QED
      BY <1>0, <3>1 DEF NoLaneForgotten, HasItsTask, Live, LeaseLapsed
  <2>3. row[e] = "absent" => status'[e] = status[e]
    <3>1. status'[e] = [d \in Lanes |-> IF LeaseLapsed(e, d) /\ status[e][d] = "in_flight"
                                       THEN "retry" ELSE status[e][d]]
      BY <1>5 DEF ReclaimExpiredLeases
    <3> QED
      BY <1>0, <2>2, <3>1
  <2> QED
    BY <1>5, <2>1, <2>3 DEF ReclaimExpiredLeases, Quiet
<1>6. ASSUME NEW S \in SUBSET Events, ExpireDueEvents(S)
      PROVE  Quiet(e, c)
  <2>1. \/ status'[e][c] = status[e][c]
        \/ status[e][c] \in Unfinished /\ status'[e][c] = "blocked"
    BY <1>6 DEF ExpireDueEvents, Dependent
  <2>2. row'[e] = (IF e \in S THEN "gone" ELSE row[e]) /\ counted' = counted
    BY <1>6 DEF ExpireDueEvents
  <2>3. row[e] = "absent" => status'[e] = status[e]
    <3>1. status'[e] = [d \in Lanes |-> IF Dependent(S, e, d) THEN "blocked" ELSE status[e][d]]
      BY <1>6 DEF ExpireDueEvents
    <3>2. row[e] = "absent" => \A d \in Lanes : ~Dependent(S, e, d)
      BY DEF Dependent, Live
    <3> QED
      BY <1>0, <3>1, <3>2
  <2> QED
    BY <2>1, <2>2, <2>3 DEF Quiet, Unfinished
<1>7. CASE RegisterSkill
  <2>1. row' = row /\ counted' = counted /\ status'[e][c] = status[e][c]
    BY <1>0, <1>7, <1>a DEF RegisterSkill
  <2>2. row[e] = "absent" => status'[e] = status[e]
    BY <1>0, <1>7 DEF RegisterSkill, Resent, Live
  <2> QED
    BY <2>1, <2>2 DEF Quiet
<1>8. ASSUME NEW f \in Events, \/ EventExpires(f)
                               \/ \E d \in Lanes : TaskBecomesDue(f, d) \/ LeaseLapses(f, d)
      PROVE  Quiet(e, c)
  BY <1>8 DEF TaskBecomesDue, LeaseLapses, EventExpires, Quiet
<1>9. CASE UNCHANGED vars
  BY <1>9 DEF vars, Quiet
<1> QED
  BY <1>1, <1>2, <1>3, <1>4, <1>5, <1>6, <1>7, <1>8, <1>9
  DEF Next, Claim, Answer, ClockStep

\* What applying a lane does to the statuses and the counts of that lane.
LEMMA ApplyEffect ==
    ASSUME StoreInv, NEW l \in held, ApplyMetrics(l), NEW f \in Events, NEW d \in MetricLanes
    PROVE  LET e == l.event
               c == l.lane
           IN  /\ e \in Events /\ c \in MetricLanes
               /\ row' = row /\ row[e] = "live" /\ status[e][c] = "in_flight"
               /\ d # c \/ (f # e /\ f \notin Replaced(e, c)) \/ (f # e /\ Superseded(e, c))
                     => status'[f][d] = status[f][d] /\ counted'[f][d] = counted[f][d]
               /\ Superseded(e, c)
                     => status'[e][c] = "not_applicable" /\ counted'[e][c] = counted[e][c]
               /\ ~Superseded(e, c)
                     => status'[e][c] = "applied" /\ counted'[e][c] = counted[e][c] + 1
               /\ ~Superseded(e, c) /\ f \in Replaced(e, c)
                     => /\ f # e /\ status'[f][c] = "not_applicable"
                        /\ counted'[f][c] = counted[f][c] - 1
<1>0. TypeOK
  BY DEF StoreInv
<1>1. l.event \in Events /\ l.lane \in MetricLanes
  BY <1>0 DEF TypeOK, Leases, ApplyMetrics
<1>2. row' = row /\ row[l.event] = "live" /\ status[l.event][l.lane] = "in_flight"
  BY DEF ApplyMetrics, Verified, Live
<1>3. CASE Superseded(l.event, l.lane)
  <2>1. status' = [status EXCEPT ![l.event][l.lane] = "not_applicable"] /\ counted' = counted
    BY <1>3 DEF ApplyMetrics
  <2> QED
    BY <1>0, <1>1, <1>2, <1>3, <2>1 DEF TypeOK
<1>4. CASE ~Superseded(l.event, l.lane)
  <2>1. status'[f][d] = IF d # l.lane THEN status[f][d]
                        ELSE IF f = l.event THEN "applied"
                        ELSE IF f \in Replaced(l.event, l.lane) THEN "not_applicable"
                        ELSE status[f][l.lane]
    BY <1>4 DEF ApplyMetrics
  <2>2. counted'[f][d] = IF d # l.lane THEN counted[f][d]
                         ELSE IF f = l.event THEN counted[f][l.lane] + 1
                         ELSE IF f \in Replaced(l.event, l.lane) THEN counted[f][l.lane] - 1
                         ELSE counted[f][l.lane]
    BY <1>4 DEF ApplyMetrics
  <2>3. status'[l.event][l.lane] = "applied"
    BY <1>1, <1>4 DEF ApplyMetrics
  <2>4. counted'[l.event][l.lane] = counted[l.event][l.lane] + 1
    BY <1>1, <1>4 DEF ApplyMetrics
  <2>5. l.event \notin Replaced(l.event, l.lane)
    BY DEF Replaced, AppliedPeers
  <2>6. f \in Replaced(l.event, l.lane) => status'[f][l.lane] = "not_applicable"
    BY <1>1, <1>4, <2>5 DEF ApplyMetrics
  <2>7. f \in Replaced(l.event, l.lane) => counted'[f][l.lane] = counted[f][l.lane] - 1
    BY <1>1, <1>4, <2>5 DEF ApplyMetrics
  <2> QED
    BY <1>1, <1>2, <1>4, <2>1, <2>2, <2>3, <2>4, <2>5, <2>6, <2>7
<1> QED
  BY <1>3, <1>4

-----------------------------------------------------------------------------

\* A lane is counted when it is applied and uncounted when it is taken out.
LEMMA CountStep ==
    ASSUME StoreInv, [Next]_vars
    PROVE  CountedExactlyOnce'
<1>0. CountedExactlyOnce
  BY DEF StoreInv
<1> SUFFICES ASSUME NEW e \in Events, NEW c \in MetricLanes
             PROVE  /\ counted'[e][c] \in {0, 1}
                    /\ counted'[e][c] = 1 <=> status'[e][c] = "applied"
  BY DEF CountedExactlyOnce
<1>1. CASE \E l \in held : ApplyMetrics(l)
  <2> PICK l \in held : ApplyMetrics(l)
    BY <1>1
  <2>1. \A f \in Replaced(l.event, l.lane) : f \in Events /\ status[f][l.lane] = "applied"
    BY DEF Replaced, AppliedPeers
  <2> QED
    BY <1>0, <2>1, ApplyEffect DEF CountedExactlyOnce
<1>2. CASE ~ \E l \in held : ApplyMetrics(l)
  BY <1>0, <1>2, QuietStep DEF CountedExactlyOnce, Quiet
<1> QED
  BY <1>1, <1>2

\* No action touches an event before it is inserted.
LEMMA PristineStep ==
    ASSUME StoreInv, [Next]_vars
    PROVE  Pristine'
<1>0. TypeOK /\ Pristine
  BY DEF StoreInv
<1> SUFFICES ASSUME NEW e \in Events, row'[e] = "absent"
             PROVE  status'[e] = InsertedStatus(e)
  BY DEF Pristine, InsertedStatus
<1>1. CASE \E l \in held : ApplyMetrics(l)
  <2> PICK l \in held : ApplyMetrics(l)
    BY <1>1
  <2>1. row' = row /\ row[l.event] = "live" /\ l.event \in Events
    BY <1>0 DEF ApplyMetrics, Verified, Live, TypeOK, Leases
  <2>2. e # l.event /\ e \notin Replaced(l.event, l.lane)
    BY <2>1 DEF Replaced, AppliedPeers, Live
  <2>3. status'[e] = status[e]
    <3>1. CASE Superseded(l.event, l.lane)
      <4>1. status' = [status EXCEPT ![l.event][l.lane] = "not_applicable"]
        BY <3>1 DEF ApplyMetrics
      <4> QED
        BY <1>0, <2>2, <4>1 DEF TypeOK
    <3>2. CASE ~Superseded(l.event, l.lane)
      <4>1. status'[e] = [d \in Lanes |->
                             IF d # l.lane THEN status[e][d]
                             ELSE IF e = l.event THEN "applied"
                             ELSE IF e \in Replaced(l.event, l.lane) THEN "not_applicable"
                             ELSE status[e][l.lane]]
        BY <3>2 DEF ApplyMetrics
      <4>2. status[e] \in [Lanes -> Statuses]
        BY <1>0 DEF TypeOK
      <4> QED
        BY <2>2, <4>1, <4>2
    <3> QED
      BY <3>1, <3>2
  <2> QED
    BY <1>0, <2>1, <2>3 DEF Pristine
<1>2. CASE ~ \E l \in held : ApplyMetrics(l)
  <2> PICK c \in MetricLanes : TRUE
    OBVIOUS
  <2>1. Quiet(e, c)
    BY <1>2, QuietStep
  <2> QED
    BY <1>0, <2>1 DEF Pristine, Quiet
<1> QED
  BY <1>1, <1>2

\* A revision goes in only where no newer stored one is counted, and takes the
\* older ones out; whatever it leaves out stays outdone.
LEMMA NewestStep ==
    ASSUME StoreInv, [Next]_vars
    PROVE  NewestRevisionCounts'
<1>0. TypeOK /\ CountedExactlyOnce /\ NewestRevisionCounts /\ Pristine
  BY DEF StoreInv
<1> DEFINE Newer(e, g) == Fact[g] = Fact[e] /\ Revision[g] > Revision[e]
<1> SUFFICES ASSUME NEW e \in Events, NEW c \in MetricLanes
             PROVE  /\ \A f \in Revised \ {e} :
                          /\ e \in Revised /\ Fact[e] = Fact[f] /\ row'[e] = "live" /\ row'[f] = "live"
                          /\ status'[e][c] = "applied"
                          => status'[f][c] # "applied"
                    /\ c \in Applicable[e] /\ status'[e][c] = "not_applicable"
                       => \E g \in Events : Newer(e, g) /\ counted'[g][c] = 1
  BY DEF NewestRevisionCounts, Live
<1>a. e \in Events /\ \A g \in Events : Revision[g] \in Nat
  OBVIOUS
<1>b. \A f \in Revised \ {e} :
          (/\ e \in Revised /\ Fact[e] = Fact[f]
           /\ row[e] = "live" /\ row[f] = "live" /\ status[e][c] = "applied")
          => status[f][c] # "applied"
  BY <1>0 DEF NewestRevisionCounts, Live
<1>c. c \in Applicable[e] /\ status[e][c] = "not_applicable"
      => \E g \in Events : Newer(e, g) /\ counted[g][c] = 1
  BY <1>0 DEF NewestRevisionCounts
<1>1. CASE \E l \in held : ApplyMetrics(l)
  <2> PICK l \in held : ApplyMetrics(l)
    BY <1>1
  <2> DEFINE e0 == l.event
             c0 == l.lane
  <2>0. /\ e0 \in Events /\ c0 \in MetricLanes
        /\ row' = row /\ row[e0] = "live" /\ status[e0][c0] = "in_flight"
        /\ counted[e0][c0] = 0
    BY <1>0, <1>a, ApplyEffect DEF CountedExactlyOnce
  <2>1. CASE c # c0
    <3>1. \A f \in Events : status'[f][c] = status[f][c] /\ counted'[f][c] = counted[f][c]
      BY <2>1, ApplyEffect
    <3> QED
      BY <1>a, <1>b, <1>c, <2>0, <3>1
  <2>2. CASE c = c0 /\ Superseded(e0, c0)
    <3>1. \A f \in Events : /\ counted'[f][c] = counted[f][c]
                            /\ f # e0 => status'[f][c] = status[f][c]
      BY <2>2, ApplyEffect
    <3>2. status'[e0][c] = "not_applicable"
      BY <2>0, <2>2, ApplyEffect
    <3>3. CASE e = e0
      <4>1. PICK p \in AppliedPeers(e0, c0) : Revision[p] > Revision[e0]
        BY <2>2 DEF Superseded
      <4>2. p \in Events /\ Fact[p] = Fact[e] /\ counted[p][c] = 1
        BY <1>0, <2>0, <2>2, <3>3, <4>1 DEF AppliedPeers, CountedExactlyOnce
      <4> QED
        BY <3>1, <3>2, <3>3, <4>1, <4>2
    <3>4. CASE e # e0
      BY <1>a, <1>b, <1>c, <2>0, <3>1, <3>2, <3>4
    <3> QED
      BY <3>3, <3>4
  <2>3. CASE c = c0 /\ ~Superseded(e0, c0)
    <3>0. \A f \in Replaced(e0, c0) :
             /\ e0 \in Revised /\ f \in Events /\ f # e0
             /\ Fact[f] = Fact[e0] /\ Revision[e0] > Revision[f]
      <4> SUFFICES ASSUME NEW f \in Replaced(e0, c0)
                   PROVE  /\ e0 \in Revised /\ f \in Events /\ f # e0
                          /\ Fact[f] = Fact[e0] /\ Revision[e0] > Revision[f]
        OBVIOUS
      <4>1. e0 \in Revised /\ f \in AppliedPeers(e0, c0)
        BY DEF Replaced
      <4>2. f \in Events /\ f # e0 /\ Fact[f] = Fact[e0]
        BY <4>1 DEF AppliedPeers
      <4>3. ~(Revision[f] > Revision[e0]) /\ Revision[f] # Revision[e0]
        BY <2>0, <2>3, <4>1, <4>2 DEF Superseded
      <4> QED
        BY <1>a, <2>0, <4>1, <4>2, <4>3
    <3>1. \A f \in Events : f # e0 /\ f \notin Replaced(e0, c0)
             => status'[f][c] = status[f][c] /\ counted'[f][c] = counted[f][c]
      BY <2>3, ApplyEffect
    <3>2. status'[e0][c] = "applied" /\ counted'[e0][c] = 1
      BY <2>0, <2>3, ApplyEffect
    <3>3. \A f \in Replaced(e0, c0) : status'[f][c] = "not_applicable"
      BY <2>3, <3>0, ApplyEffect
    <3>4. ASSUME NEW f \in Revised \ {e}, e \in Revised, Fact[e] = Fact[f],
                 row[e] = "live", row[f] = "live",
                 status'[e][c] = "applied", status'[f][c] = "applied"
          PROVE  FALSE
      <4>1. e \notin Replaced(e0, c0) /\ f \notin Replaced(e0, c0) /\ f \in Events
        BY <3>3, <3>4
      <4>2. CASE e = e0
        <5>1. status[f][c] = "applied"
          BY <3>1, <3>4, <4>1, <4>2
        <5> QED
          BY <2>3, <3>4, <4>1, <4>2, <5>1 DEF Replaced, AppliedPeers, Live
      <4>3. CASE f = e0
        <5>1. status[e][c] = "applied"
          BY <1>a, <3>1, <3>4, <4>1, <4>3
        <5> QED
          BY <1>a, <2>3, <3>4, <4>1, <4>3, <5>1 DEF Replaced, AppliedPeers, Live
      <4>4. CASE e # e0 /\ f # e0
        BY <1>a, <1>b, <3>1, <3>4, <4>1, <4>4
      <4> QED
        BY <4>2, <4>3, <4>4
    <3>5. ASSUME c \in Applicable[e], status'[e][c] = "not_applicable"
          PROVE  \E g \in Events : Newer(e, g) /\ counted'[g][c] = 1
      <4>1. e # e0
        BY <3>2, <3>5
      <4>2. CASE e \in Replaced(e0, c0)
        BY <2>0, <3>0, <3>2, <4>2
      <4>3. CASE e \notin Replaced(e0, c0)
        <5>1. PICK g \in Events : Newer(e, g) /\ counted[g][c] = 1
          BY <1>a, <1>c, <3>1, <3>5, <4>1, <4>3
        <5>2. CASE g \in Replaced(e0, c0)
          <6>1. Fact[e0] = Fact[e] /\ Revision[e0] > Revision[g] /\ Revision[g] > Revision[e]
            BY <3>0, <5>1, <5>2
          <6>2. Revision[e0] > Revision[e]
            BY <1>a, <2>0, <6>1
          <6> QED
            BY <2>0, <3>2, <6>1, <6>2
        <5>3. CASE g \notin Replaced(e0, c0)
          BY <2>0, <2>3, <3>1, <5>1, <5>3
        <5> QED
          BY <5>2, <5>3
      <4> QED
        BY <4>2, <4>3
    <3> QED
      BY <2>0, <3>4, <3>5
  <2> QED
    BY <2>1, <2>2, <2>3
<1>2. CASE ~ \E l \in held : ApplyMetrics(l)
  <2>1. \A f \in Events : Quiet(f, c)
    BY <1>2, QuietStep
  <2>2. \A f \in Events : row[f] = "absent" => status[f][c] # "applied"
    BY <1>0 DEF Pristine, InsertedStatus
  <2>3. \A f \in Events : row'[f] = "live" /\ status'[f][c] = "applied"
                          => row[f] = "live" /\ status[f][c] = "applied"
    BY <2>1, <2>2 DEF Quiet
  <2>4. counted' = counted /\ (status'[e][c] = "not_applicable" => status[e][c] = "not_applicable")
    BY <1>a, <2>1 DEF Quiet
  <2> QED
    BY <1>a, <1>b, <1>c, <2>3, <2>4
<1> QED
  BY <1>1, <1>2

-----------------------------------------------------------------------------

Gone == {e \in Events : row[e] = "gone"}

LostEvents == {e \in Gone : Incomplete(e)}

\* Outside expiry no row is deleted.
LEMMA OnlyExpiryDeletes ==
    ASSUME StoreInv, [Next]_vars, ~ \E S \in SUBSET Events : ExpireDueEvents(S),
           NEW e \in Events
    PROVE  row'[e] = "gone" <=> row[e] = "gone"
<1>0. TypeOK
  BY DEF StoreInv
<1>1. \A S \in SUBSET Events : CommitSource(S) => (row'[e] = "gone" <=> row[e] = "gone")
  BY <1>0 DEF CommitSource, TypeOK
<1> QED
  BY <1>1 DEF Next, Claim, Answer, ClockStep, vars, ClaimTasks, CompleteTask, ApplyMetrics,
     RetryTask, RefuseAnswer, AbandonLease, ReclaimExpiredLeases, RegisterSkill,
     TaskBecomesDue, LeaseLapses, EventExpires

\* Nothing writes the status of a deleted row.
LEMMA DeletedStay ==
    ASSUME StoreInv, [Next]_vars, NEW e \in Events, row[e] = "gone"
    PROVE  row'[e] = "gone" /\ status'[e] = status[e]
<1> USE DEF TypeOK
<1>0. TypeOK /\ NoLaneForgotten /\ status[e] \in [Lanes -> Statuses]
  BY DEF StoreInv
<1>a. ~Live(e)
  BY DEF Live
<1>1. row'[e] = "gone"
  <2>1. ASSUME NEW S \in SUBSET Events, ExpireDueEvents(S)
        PROVE  row'[e] = "gone"
    <3>1. e \notin S
      BY <2>1 DEF ExpireDueEvents, Live
    <3> QED
      BY <2>1, <3>1 DEF ExpireDueEvents
  <2> QED
    BY <2>1, OnlyExpiryDeletes
<1>2. ASSUME NEW S \in SUBSET Events, CommitSource(S)
      PROVE  status'[e] = status[e] /\ row'[e] = "gone"
  BY <1>2, CommitKeepsStatus DEF CommitSource, TypeOK, StoreInv
<1>3. ASSUME NEW c \in Lanes, NEW S \in SUBSET Events, NEW tok \in [S -> Tokens],
             ClaimTasks(c, S, tok)
      PROVE  status'[e] = status[e]
  BY <1>0, <1>a, <1>3 DEF ClaimTasks, Claimable
<1>4. ASSUME NEW l \in held, \/ \E outcome \in UploadOutcomes : CompleteTask(l, outcome)
                            \/ \E when \in {"later", "due"} : RetryTask(l, when)
      PROVE  status'[e] = status[e]
  BY <1>0, <1>a, <1>4 DEF CompleteTask, RetryTask, Verified, Leases
<1>5. ASSUME NEW l \in held, ApplyMetrics(l)
      PROVE  status'[e] = status[e]
  <2>1. e # l.event /\ e \notin Replaced(l.event, l.lane) /\ l.event \in Events
    BY <1>0, <1>a, <1>5 DEF ApplyMetrics, Verified, Replaced, AppliedPeers, Leases
  <2>2. CASE Superseded(l.event, l.lane)
    <3>1. status' = [status EXCEPT ![l.event][l.lane] = "not_applicable"]
      BY <1>5, <2>2 DEF ApplyMetrics
    <3> QED
      BY <1>0, <2>1, <3>1
  <2>3. CASE ~Superseded(l.event, l.lane)
    <3>1. status'[e] = [d \in Lanes |->
                           IF d # l.lane THEN status[e][d]
                           ELSE IF e = l.event THEN "applied"
                           ELSE IF e \in Replaced(l.event, l.lane) THEN "not_applicable"
                           ELSE status[e][l.lane]]
      BY <1>5, <2>3 DEF ApplyMetrics
    <3> QED
      BY <1>0, <2>1, <3>1
  <2> QED
    BY <2>2, <2>3
<1>6. ASSUME ReclaimExpiredLeases
      PROVE  status'[e] = status[e]
  <2>1. NoTask.token = NoToken
    BY DEF NoTask
  <2>2. \A d \in Lanes : ~LeaseLapsed(e, d)
    BY <1>0, <1>a, <2>1 DEF NoLaneForgotten, HasItsTask, LeaseLapsed
  <2>3. status'[e] = [d \in Lanes |-> IF LeaseLapsed(e, d) /\ status[e][d] = "in_flight"
                                     THEN "retry" ELSE status[e][d]]
    BY <1>6 DEF ReclaimExpiredLeases
  <2> QED
    BY <1>0, <2>2, <2>3
<1>7. ASSUME NEW S \in SUBSET Events, ExpireDueEvents(S)
      PROVE  status'[e] = status[e]
  <2>1. status'[e] = [d \in Lanes |-> IF Dependent(S, e, d) THEN "blocked" ELSE status[e][d]]
    BY <1>7 DEF ExpireDueEvents
  <2>2. \A d \in Lanes : ~Dependent(S, e, d)
    BY <1>a DEF Dependent
  <2> QED
    BY <1>0, <2>1, <2>2
<1>8. ASSUME RegisterSkill
      PROVE  status'[e] = status[e]
  BY <1>0, <1>a, <1>8 DEF RegisterSkill, Resent
<1>9. ASSUME NEW l \in held, Answer(l)
      PROVE  status'[e] = status[e]
  <2>1. CASE RefuseAnswer(l) \/ AbandonLease(l)
    BY <2>1 DEF RefuseAnswer, AbandonLease
  <2> QED
    BY <1>4, <1>5, <1>9, <2>1 DEF Answer
<1>10. ASSUME ClockStep \/ UNCHANGED vars
       PROVE  status'[e] = status[e]
  BY <1>10 DEF ClockStep, vars, TaskBecomesDue, LeaseLapses, EventExpires
<1>11. ASSUME NEW c \in Lanes, Claim(c)
       PROVE  status'[e] = status[e]
  BY <1>3, <1>11 DEF Claim
<1>12. status'[e] = status[e]
  BY <1>2, <1>6, <1>7, <1>8, <1>9, <1>10, <1>11 DEF Next
<1> QED
  BY <1>1, <1>12

\* Expiry adds what it deletes unfinished, each event once.
LEMMA TallyStep ==
    ASSUME StoreInv, [Next]_vars
    PROVE  LostTally'
<1>0. TypeOK /\ lost = Cardinality(LostEvents)
  BY DEF StoreInv, LostTally, LostEvents, Gone
<1>a. \A e \in Events : row[e] = "gone" => (Incomplete(e)' <=> Incomplete(e))
  BY DeletedStay DEF Incomplete
<1> SUFFICES lost' = Cardinality(LostEvents')
  <2>1. LostEvents' = {e \in Events : row'[e] = "gone" /\ Incomplete(e)'}
    BY DEF LostEvents, Gone
  <2> QED
    BY <2>1 DEF LostTally
<1>1. ASSUME NEW S \in SUBSET Events, ExpireDueEvents(S)
      PROVE  lost' = Cardinality(LostEvents')
  <2> DEFINE New == {e \in S : Incomplete(e)}
  <2>1. \A e \in S : row[e] = "live" /\ row'[e] = "gone"
    BY <1>1 DEF ExpireDueEvents, Live
  <2>2. \A e \in Events \ S : row'[e] = row[e]
    BY <1>1 DEF ExpireDueEvents
  <2>3. \A e \in S : Incomplete(e)' <=> Incomplete(e)
    <3>1. \A e \in S, c \in Lanes : status'[e][c] = status[e][c]
      BY <1>1 DEF ExpireDueEvents, Dependent
    <3> QED
      BY <3>1 DEF Incomplete
  <2>4. LostEvents' = LostEvents \cup New
    BY <1>a, <2>1, <2>2, <2>3 DEF LostEvents, Gone
  <2>5. LostEvents \cap New = {}
    BY <2>1 DEF LostEvents, Gone
  <2>6. IsFiniteSet(LostEvents) /\ IsFiniteSet(New)
    BY FS_Subset DEF LostEvents, Gone
  <2>7. Cardinality(LostEvents \cup New) = Cardinality(LostEvents) + Cardinality(New)
    <3>1. Cardinality(LostEvents \cup New)
             = Cardinality(LostEvents) + Cardinality(New) - Cardinality(LostEvents \cap New)
      BY <2>6, FS_Union
    <3>2. Cardinality(LostEvents \cap New) = 0
      BY <2>5, FS_EmptySet
    <3>3. Cardinality(LostEvents) \in Nat /\ Cardinality(New) \in Nat
      BY <2>6, FS_CardinalityType
    <3> QED
      BY <3>1, <3>2, <3>3
  <2>8. lost' = lost + Cardinality(New)
    BY <1>1 DEF ExpireDueEvents, LostWith
  <2> QED
    BY <1>0, <2>4, <2>7, <2>8
<1>2. CASE ~ \E S \in SUBSET Events : ExpireDueEvents(S)
  <2>1. \A e \in Events : row'[e] = "gone" <=> row[e] = "gone"
    BY <1>2, OnlyExpiryDeletes
  <2>2. LostEvents' = LostEvents
    BY <1>a, <2>1 DEF LostEvents, Gone
  <2>3. lost' = lost
    BY <1>2 DEF Next, Claim, Answer, ClockStep, vars, CommitSource, ClaimTasks, CompleteTask,
       ApplyMetrics, RetryTask, RefuseAnswer, AbandonLease, ReclaimExpiredLeases,
       RegisterSkill, TaskBecomesDue, LeaseLapses, EventExpires
  <2> QED
    BY <1>0, <2>2, <2>3
<1> QED
  BY <1>1, <1>2

-----------------------------------------------------------------------------

\* The strengthened invariant holds in every reachable state.
THEOREM StoreInvariant == Spec => []StoreInv
<1>1. StoreInv /\ [Next]_vars => StoreInv'
  BY TypeStep, LaneStep, CountStep, NewestStep, PristineStep, TallyStep DEF StoreInv
<1> QED
  BY <1>1, InitStore, PTL DEF Spec

\* The stored rows, the tasks and the leases are always well formed.
THEOREM TypeCorrect == Spec => []TypeOK
<1>1. StoreInv => TypeOK
  BY DEF StoreInv
<1> QED
  BY <1>1, StoreInvariant, PTL

\* status_json and processing_tasks never disagree, however many events, lanes
\* and lease tokens there are.
THEOREM NoLaneIsForgotten == Spec => []NoLaneForgotten
<1>1. StoreInv => NoLaneForgotten
  BY DEF StoreInv
<1> QED
  BY <1>1, StoreInvariant, PTL

\* No lane ever counts an event twice, or one it has taken out.
THEOREM CountingIsExact == Spec => []CountedExactlyOnce
<1>1. StoreInv => CountedExactlyOnce
  BY DEF StoreInv
<1> QED
  BY <1>1, StoreInvariant, PTL

\* Of the stored revisions of a fact a lane counts one at most, and what it left
\* out is outdone by a newer counted one, in whatever order they were applied.
THEOREM NewestCounts == Spec => []NewestRevisionCounts
<1>1. StoreInv => NewestRevisionCounts
  BY DEF StoreInv
<1> QED
  BY <1>1, StoreInvariant, PTL

\* Whatever TTL deletion takes out of the metrics is in the loss counter.
THEOREM NoSilentLoss == Spec => []LossIsReported
<1>1. ASSUME StoreInv
      PROVE  LossIsReported
  <2> DEFINE uncounted == {e \in Gone : \E c \in Applicable[e] \ {Upload} :
                        /\ counted[e][c] = 0
                        /\ ~ \E f \in Events : /\ Fact[f] = Fact[e]
                                              /\ Revision[f] > Revision[e]
                                              /\ counted[f][c] = 1}
  <2>0. TypeOK /\ CountedExactlyOnce /\ lost = Cardinality(LostEvents)
    BY <1>1 DEF StoreInv, LostTally, LostEvents, Gone
  <2>1. uncounted \subseteq LostEvents
    <3> SUFFICES ASSUME NEW e \in uncounted PROVE Incomplete(e)
      BY DEF LostEvents
    <3>1. e \in Events
      BY DEF Gone
    <3>2. PICK c \in Applicable[e] \ {Upload} :
              /\ counted[e][c] = 0
              /\ ~ \E f \in Events : /\ Fact[f] = Fact[e]
                                    /\ Revision[f] > Revision[e]
                                    /\ counted[f][c] = 1
      OBVIOUS
    <3>3. c \in MetricLanes /\ c \in Lanes
      BY <3>1
    <3>4. status[e][c] \in Statuses \ {"applied", "not_applicable"}
      BY <1>1, <2>0, <3>1, <3>2, <3>3
      DEF TypeOK, CountedExactlyOnce, NewestRevisionCounts, StoreInv
    <3> QED
      BY <3>3, <3>4 DEF Incomplete, Statuses, Unfinished
  <2>2. LostEvents \subseteq Gone /\ IsFiniteSet(Gone) /\ IsFiniteSet(LostEvents)
    BY FS_Subset DEF LostEvents, Gone
  <2> QED
    BY <2>0, <2>1, <2>2, FS_Subset DEF LossIsReported, Gone
<1> QED
  BY <1>1, StoreInvariant, PTL

-----------------------------------------------------------------------------

\* The four ways in which the status of a lane of a stored event changes.
SettledByHolder(e, c) ==
    \E l \in held : /\ l.event = e /\ l.lane = c /\ Verified(l) /\ l \notin held'
                    /\ status[e][c] = "in_flight"

Rescheduled(e, c) ==
    /\ status[e][c] \in Unfinished
    /\ status'[e][c] \in {"in_flight", "retry"} \cup IF c = Upload THEN {} ELSE {"blocked"}

SentAgain(e, c) ==
    /\ c = Upload /\ status[e][c] \in {"pending", "retry", "in_flight", "applied"}
    /\ status'[e][c] = "pending" /\ ~named /\ named'

TakenOut(e, c) ==
    /\ c # Upload /\ status[e][c] = "applied" /\ status'[e][c] = "not_applicable"
    /\ \E f \in Events : /\ Fact[f] = Fact[e] /\ Revision[f] > Revision[e]
                         /\ status[f][c] = "in_flight" /\ status'[f][c] = "applied"

LEMMA StatusMoves ==
    ASSUME StoreInv, [Next]_vars, NEW e \in Events, NEW c \in Lanes, Live(e),
           status'[e][c] # status[e][c]
    PROVE  SettledByHolder(e, c) \/ Rescheduled(e, c) \/ SentAgain(e, c) \/ TakenOut(e, c)
<1>0. TypeOK /\ status \in [Events -> [Lanes -> Statuses]] /\ held \subseteq Leases
  BY DEF StoreInv, TypeOK
<1>1. ASSUME NEW S \in (SUBSET Events) \ {{}}, CommitSource(S)
      PROVE  FALSE
  BY <1>1, CommitKeepsStatus
<1>2. ASSUME NEW d \in Lanes, NEW S \in (SUBSET Events) \ {{}}, NEW tok \in [S -> Tokens],
             ClaimTasks(d, S, tok)
      PROVE  Rescheduled(e, c)
  <2>1. status[e][c] \in {"pending", "retry"} /\ status'[e][c] = "in_flight"
    BY <1>0, <1>2 DEF ClaimTasks, Claimable
  <2> QED
    BY <2>1 DEF Rescheduled, Unfinished
<1>3. ASSUME NEW l \in held, \/ \E outcome \in UploadOutcomes : CompleteTask(l, outcome)
                             \/ \E when \in {"later", "due"} : RetryTask(l, when)
      PROVE  SettledByHolder(e, c)
  <2>1. l.event \in Events /\ l.lane \in Lanes /\ Verified(l) /\ l \notin held'
    BY <1>0, <1>3 DEF Leases, CompleteTask, RetryTask
  <2>2. l.event = e /\ l.lane = c
    <3>1. PICK outcome : status' = [status EXCEPT ![l.event][l.lane] = outcome]
      BY <1>3 DEF CompleteTask, RetryTask
    <3> QED
      BY <1>0, <2>1, <3>1
  <2> QED
    BY <2>1, <2>2 DEF SettledByHolder, Verified
<1>4. ASSUME NEW l \in held, ApplyMetrics(l)
      PROVE  SettledByHolder(e, c) \/ TakenOut(e, c)
  <2>1. l.event \in Events /\ l.lane \in MetricLanes /\ Verified(l) /\ l \notin held'
    BY <1>0, <1>4 DEF Leases, ApplyMetrics
  <2>2. c = l.lane /\ (e = l.event \/ (~Superseded(l.event, l.lane) /\ e \in Replaced(l.event, l.lane)))
    <3>1. CASE Superseded(l.event, l.lane)
      <4>1. status' = [status EXCEPT ![l.event][l.lane] = "not_applicable"]
        BY <1>4, <3>1 DEF ApplyMetrics
      <4> QED
        BY <1>0, <2>1, <4>1
    <3>2. CASE ~Superseded(l.event, l.lane)
      <4>1. status'[e][c] = IF c # l.lane THEN status[e][c]
                            ELSE IF e = l.event THEN "applied"
                            ELSE IF e \in Replaced(l.event, l.lane) THEN "not_applicable"
                            ELSE status[e][l.lane]
        BY <1>4, <3>2 DEF ApplyMetrics
      <4> QED
        BY <3>2, <4>1
    <3> QED
      BY <3>1, <3>2
  <2>3. CASE e = l.event
    BY <2>1, <2>2, <2>3 DEF SettledByHolder, Verified
  <2>4. CASE e # l.event
    <3>1. /\ ~Superseded(l.event, c) /\ e \in Replaced(l.event, c) /\ c \in MetricLanes
          /\ l.event \in Events
      BY <2>1, <2>2, <2>4
    <3>2. l.event \in Revised /\ e \in AppliedPeers(l.event, c)
      BY <3>1 DEF Replaced
    <3>3. Fact[l.event] = Fact[e] /\ status[e][c] = "applied" /\ ~(Revision[e] > Revision[l.event])
      BY <3>1, <3>2 DEF AppliedPeers, Superseded
    <3>4. Revision[l.event] > Revision[e]
      <4>1. Revision[e] \in Nat /\ Revision[l.event] \in Nat /\ Revision[e] # Revision[l.event]
        BY <2>4, <3>1, <3>3
      <4> QED
        BY <3>3, <4>1
    <3>5. /\ status[l.event][c] = "in_flight" /\ status'[l.event][c] = "applied"
          /\ status'[e][c] = "not_applicable"
      BY <1>4, <2>2, <3>1, ApplyEffect
    <3> QED
      BY <3>1, <3>3, <3>4, <3>5 DEF TakenOut
  <2> QED
    BY <2>3, <2>4
<1>5. ASSUME NEW l \in held, RefuseAnswer(l) \/ AbandonLease(l)
      PROVE  FALSE
  BY <1>5 DEF RefuseAnswer, AbandonLease
<1>6. CASE ReclaimExpiredLeases
  <2>1. status[e][c] = "in_flight" /\ status'[e][c] = "retry"
    BY <1>0, <1>6 DEF ReclaimExpiredLeases
  <2> QED
    BY <2>1 DEF Rescheduled, Unfinished
<1>7. ASSUME NEW S \in SUBSET Events, ExpireDueEvents(S)
      PROVE  Rescheduled(e, c)
  <2>1. Dependent(S, e, c) /\ status'[e][c] = "blocked"
    BY <1>0, <1>7 DEF ExpireDueEvents
  <2> QED
    BY <2>1 DEF Rescheduled, Dependent
<1>8. CASE RegisterSkill
  <2>1. Resent(e) /\ c = Upload /\ status'[e][c] = "pending" /\ ~named /\ named'
    BY <1>0, <1>8 DEF RegisterSkill
  <2> QED
    BY <2>1 DEF Resent, SentAgain
<1>9. ASSUME NEW f \in Events, \/ EventExpires(f)
                               \/ \E d \in Lanes : TaskBecomesDue(f, d) \/ LeaseLapses(f, d)
      PROVE  FALSE
  BY <1>9 DEF TaskBecomesDue, LeaseLapses, EventExpires
<1>10. CASE UNCHANGED vars
  BY <1>10 DEF vars
<1> QED
  BY <1>1, <1>2, <1>3, <1>4, <1>5, <1>6, <1>7, <1>8, <1>9, <1>10
  DEF Next, Claim, Answer, ClockStep

\* Whoever answers late, after its lease was reclaimed or given to another worker,
\* settles nothing: only the holder of the current lease of a task does.
THEOREM LateAnswersSettleNothing == Spec => OnlyHolderSettles
<1> DEFINE Settles(e, c) ==
        /\ Live(e) /\ status[e][c] = "in_flight"
        /\ status'[e][c] \in {"applied", "not_applicable", "quarantined"}
                             \cup IF c = Upload THEN {"blocked"} ELSE {}
           ByHolder(e, c) ==
        LET l == [event |-> e, lane |-> c, token |-> task[e][c].token]
        IN  l \in held /\ l \notin held' /\ ~task[e][c].lapsed
           Step == \A e \in Events, c \in Lanes : Settles(e, c) => ByHolder(e, c)
<1>1. StoreInv /\ [Next]_vars => Step
  <2> SUFFICES ASSUME StoreInv, [Next]_vars, NEW e \in Events, NEW c \in Lanes, Settles(e, c)
               PROVE  ByHolder(e, c)
    OBVIOUS
  <2>1. status'[e][c] # status[e][c] /\ status'[e][c] \notin {"in_flight", "retry", "pending"}
    OBVIOUS
  <2>2. SettledByHolder(e, c)
    BY <2>1, StatusMoves DEF Rescheduled, SentAgain, TakenOut
  <2>3. PICK l \in held : l.event = e /\ l.lane = c /\ Verified(l) /\ l \notin held'
    BY <2>2 DEF SettledByHolder
  <2>4. l \in Leases
    BY DEF StoreInv, TypeOK
  <2>5. l = [event |-> e, lane |-> c, token |-> task[e][c].token] /\ ~task[e][c].lapsed
    BY <2>3, <2>4 DEF Leases, Verified
  <2> QED
    BY <2>3, <2>5
<1>2. StoreInv /\ [Next]_vars => [Step]_vars
  BY <1>1
<1> QED
  BY <1>2, StoreInvariant, PTL DEF Spec, OnlyHolderSettles

\* What is settled stays so: neither a late retry nor expiry nor insertion touches it,
\* only a newer revision that is applied takes an older one out, and only the naming
\* of a skill sends an accepted upload again.
THEOREM SettledStaysSettled == Spec => SettledLanesStay
<1> DEFINE Changes(e, c) ==
        /\ Live(e) /\ status[e][c] \notin Unfinished
        /\ status'[e][c] # status[e][c]
           Rightly(e, c) ==
        /\ status[e][c] = "applied"
        /\ IF c = Upload
           THEN status'[e][c] = "pending" /\ ~named /\ named'
           ELSE /\ status'[e][c] = "not_applicable"
                /\ \E f \in Events : /\ Fact[f] = Fact[e]
                                     /\ Revision[f] > Revision[e]
                                     /\ status[f][c] = "in_flight"
                                     /\ status'[f][c] = "applied"
           Step == \A e \in Events, c \in Lanes : Changes(e, c) => Rightly(e, c)
<1>1. StoreInv /\ [Next]_vars => Step
  <2> SUFFICES ASSUME StoreInv, [Next]_vars, NEW e \in Events, NEW c \in Lanes, Changes(e, c)
               PROVE  Rightly(e, c)
    OBVIOUS
  <2>1. SentAgain(e, c) \/ TakenOut(e, c)
    BY StatusMoves DEF Rescheduled, SettledByHolder, Unfinished
  <2> QED
    BY <2>1 DEF SentAgain, TakenOut, Unfinished
<1>2. StoreInv /\ [Next]_vars => [Step]_vars
  BY <1>1
<1> QED
  BY <1>2, StoreInvariant, PTL DEF Spec, SettledLanesStay

=============================================================================
