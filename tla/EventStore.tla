----------------------------- MODULE EventStore -----------------------------
(***************************************************************************)
(* The collector's SQLite event store (local_store/pipeline/store.rs and   *)
(* the status half of apply.rs): events, one processing task per event and *)
(* consumer lane, leases on tasks, TTL deletion and revision replacement.  *)
(*                                                                         *)
(* Every action is one transaction of the single writer thread, or a       *)
(* moment at which the writer's clock passes a stored deadline.  The code  *)
(* compares each deadline with the clock in complementary pairs            *)
(* (runnable_at <= now, lease_until > now / <= now, expire_at > now /      *)
(* <= now), so a deadline is kept as whether it has passed.                *)
(***************************************************************************)
EXTENDS Integers, FiniteSets

CONSTANTS
    Events,        \* events the sources can produce, one per (fact_key, fact_revision)
    MetricLanes,   \* the metric consumers: hour, day, month
    Upload,        \* the upload consumer
    Tokens,        \* lease tokens (UUIDs); a claim picks one nobody remembers
    NoToken,       \* lease_token IS NULL
    Applicable,    \* Applicable[e]: the lanes of e (applicable_consumers; production: all)
    Fact,          \* Fact[e]: the fact_key of e
    Revision,      \* Revision[e]: its fact_revision
    Revised,       \* model_usage_recorded and code_changed events
    SessionKey,    \* SessionKey[e]: session_key (within the harness) or NoKey
    CostScope,     \* CostScope[e]: cost_scope_key or NoKey
    NoKey,         \* the column is NULL
    SkillEvents    \* the events of the one skill that is still unnamed

ASSUME StoreAssumption ==
    /\ IsFiniteSet(Events)
    /\ MetricLanes # {} /\ Upload \notin MetricLanes
    /\ NoToken \notin Tokens
    /\ Revision \in [Events -> Nat]
    /\ Revised \subseteq Events
    /\ \A e \in Events : Applicable[e] \subseteq MetricLanes \cup {Upload}
    /\ SkillEvents \subseteq Events
    /\ \A e, f \in Events :
          (Fact[e] = Fact[f] /\ Revision[e] = Revision[f]) => e = f

Lanes == MetricLanes \cup {Upload}

Statuses == {"pending", "retry", "in_flight", "applied", "not_applicable",
             "blocked", "quarantined"}

Unfinished == {"pending", "retry", "in_flight"}

\* What complete_task accepts as the outcome of an upload.
UploadOutcomes == {"applied", "not_applicable", "blocked", "quarantined"}

Leases == [event: Events, lane: Lanes, token: Tokens]

TaskRows == [row: {"none", "open", "cancelled"},
             runnable: {"null", "later", "due"},
             token: Tokens \cup {NoToken},
             lapsed: BOOLEAN]

VARIABLES
    row,      \* row[e]: "absent" until inserted, "live", "gone" once its TTL deleted it
    expired,  \* expired[e]: expire_at <= now
    status,   \* status[e][c]: events.status_json; what it was, once the row is gone
    task,     \* task[e][c]: the processing_tasks row
    held,     \* leases some worker may still answer with
    counted,  \* counted[e][c]: times e's numbers are in lane c's metric tables
    named,    \* the skill of SkillEvents has its public name
    lost      \* collection_sources.expired_incomplete_event_count

vars == <<row, expired, status, task, held, counted, named, lost>>

-----------------------------------------------------------------------------
(* Rows of processing_tasks.                                               *)

NoTask == [row |-> "none", runnable |-> "null", token |-> NoToken, lapsed |-> FALSE]

OpenTask(when) ==
    [row |-> "open", runnable |-> when, token |-> NoToken, lapsed |-> FALSE]

LeasedTask(t) ==
    [row |-> "open", runnable |-> "null", token |-> t, lapsed |-> FALSE]

CancelledTask ==
    [row |-> "cancelled", runnable |-> "null", token |-> NoToken, lapsed |-> FALSE]

Live(e) == row[e] = "live"

-----------------------------------------------------------------------------
(* Insertion.                                                              *)

\* An event whose identity is already stored is a duplicate and changes nothing.
InsertedStatus(e) ==
    [c \in Lanes |-> IF c \in Applicable[e] THEN "pending" ELSE "not_applicable"]

InsertedTasks(e) ==
    [c \in Lanes |-> IF c \in Applicable[e] THEN OpenTask("due") ELSE NoTask]

\* commit_source and the cost backfill: the events S that are not stored yet
\* enter with one due task per applicable lane, in one transaction.
CommitSource(S) ==
    /\ \A e \in S : row[e] = "absent"
    /\ row' = [e \in Events |-> IF e \in S THEN "live" ELSE row[e]]
    /\ status' = [e \in Events |-> IF e \in S THEN InsertedStatus(e) ELSE status[e]]
    /\ task' = [e \in Events |-> IF e \in S THEN InsertedTasks(e) ELSE task[e]]
    /\ UNCHANGED <<expired, held, counted, named, lost>>

-----------------------------------------------------------------------------
(* Claiming and answering tasks.                                           *)

ClaimableOnce(e, c) ==   \* mutant: a lane that was retried is never claimed again
    /\ Live(e) /\ ~expired[e]
    /\ status[e][c] = "pending"
    /\ task[e][c].row = "open"
    /\ task[e][c].runnable = "due"
    /\ task[e][c].token = NoToken

Claimable(e, c) ==
    /\ Live(e) /\ ~expired[e]
    /\ status[e][c] \in {"pending", "retry"}
    /\ task[e][c].row = "open"
    /\ task[e][c].runnable = "due"
    /\ task[e][c].token = NoToken

Fresh(e, c, t) ==
    /\ task[e][c].token # t
    /\ [event |-> e, lane |-> c, token |-> t] \notin held

\* claim_tasks: one transaction leases a page S of due tasks, tok[e] being the
\* new token of e's.
ClaimTasks(c, S, tok) ==
    /\ \A e \in S : Claimable(e, c) /\ Fresh(e, c, tok[e])
    /\ task' = [e \in Events |-> IF e \in S THEN [task[e] EXCEPT ![c] = LeasedTask(tok[e])]
                                             ELSE task[e]]
    /\ status' = [e \in Events |-> IF e \in S THEN [status[e] EXCEPT ![c] = "in_flight"]
                                               ELSE status[e]]
    /\ held' = held \cup {[event |-> e, lane |-> c, token |-> tok[e]] : e \in S}
    /\ UNCHANGED <<row, expired, counted, named, lost>>

VerifiedByRowOnly(l) ==   \* mutant: the task is looked up by its id alone
    /\ task[l.event][l.lane].row = "open"
    /\ ~task[l.event][l.lane].lapsed
    /\ Live(l.event) /\ ~expired[l.event]
    /\ status[l.event][l.lane] = "in_flight"

VerifiedByEventOnly(l) ==   \* mutant: an answer only needs its event
    Live(l.event) /\ ~expired[l.event]

\* verify_task_lease and apply.rs's verify_lease_inflight: what every answer
\* must pass before it changes anything.
Verified(l) ==
    /\ task[l.event][l.lane].row = "open"
    /\ task[l.event][l.lane].token = l.token
    /\ ~task[l.event][l.lane].lapsed
    /\ Live(l.event) /\ ~expired[l.event]
    /\ status[l.event][l.lane] = "in_flight"

\* complete_task: the upload lane reaches a final status and its task goes.
CompleteTask(l, outcome) ==
    /\ l \in held /\ l.lane = Upload
    /\ Verified(l)
    /\ status' = [status EXCEPT ![l.event][Upload] = outcome]
    /\ task' = [task EXCEPT ![l.event][Upload] = NoTask]
    /\ held' = held \ {l}
    /\ UNCHANGED <<row, expired, counted, named, lost>>

PeersOfAnyStatus(e, c) ==   \* mutant: peers are subtracted whether applied or not
    {p \in Events \ {e} : Fact[p] = Fact[e] /\ Live(p)}

\* Stored revisions of e's fact that lane c has applied.
AppliedPeers(e, c) ==
    {p \in Events \ {e} : /\ Fact[p] = Fact[e]
                          /\ Live(p)
                          /\ status[p][c] = "applied"}

SupersededByOlder(e, c) ==   \* mutant: the comparison of revisions turned round
    e \in Revised /\ \E p \in AppliedPeers(e, c) : Revision[p] < Revision[e]

\* prepare_fact_revision: an older revision never replaces a newer one.
Superseded(e, c) ==
    e \in Revised /\ \E p \in AppliedPeers(e, c) : Revision[p] > Revision[e]

Replaced(e, c) == IF e \in Revised THEN AppliedPeers(e, c) ELSE {}

\* apply_and_complete_metrics: subtract the revisions this one replaces, add
\* its own numbers, settle the lane and delete the task, in one transaction.
ApplyMetrics(l) ==
    LET e == l.event
        c == l.lane
    IN  /\ l \in held /\ c \in MetricLanes
        /\ Verified(l)
        /\ IF Superseded(e, c)
           THEN /\ status' = [status EXCEPT ![e][c] = "not_applicable"]
                /\ UNCHANGED counted
           ELSE /\ status' = [f \in Events |-> [d \in Lanes |->
                       IF d # c THEN status[f][d]
                       ELSE IF f = e THEN "applied"
                       ELSE IF f \in Replaced(e, c) THEN "not_applicable" ELSE status[f][c]]]
                /\ counted' = [f \in Events |-> [d \in MetricLanes |->
                       IF d # c THEN counted[f][d]
                       ELSE IF f = e THEN counted[f][c] + 1
                       ELSE IF f \in Replaced(e, c) THEN counted[f][c] - 1 ELSE counted[f][c]]]
        /\ task' = [task EXCEPT ![e][c] = NoTask]
        /\ held' = held \ {l}
        /\ UNCHANGED <<row, expired, named, lost>>

\* retry_task: a failed apply, a transport error or a Retry acknowledgement.
RetryTask(l, when) ==
    /\ l \in held
    /\ Verified(l)
    /\ status' = [status EXCEPT ![l.event][l.lane] = "retry"]
    /\ task' = [task EXCEPT ![l.event][l.lane] = OpenTask(when)]
    /\ held' = held \ {l}
    /\ UNCHANGED <<row, expired, counted, named, lost>>

\* An answer that fails verification is refused and the worker forgets it.
RefuseAnswer(l) ==
    /\ l \in held
    /\ ~Verified(l)
    /\ held' = held \ {l}
    /\ UNCHANGED <<row, expired, status, task, counted, named, lost>>

\* The worker never answers: the process died, the response carried no
\* acknowledgement for the event, or the account changed meanwhile.
AbandonLease(l) ==
    /\ l \in held
    /\ held' = held \ {l}
    /\ UNCHANGED <<row, expired, status, task, counted, named, lost>>

-----------------------------------------------------------------------------
(* Compensation and expiry.                                                *)

LeaseLapsed(e, c) == task[e][c].token # NoToken /\ task[e][c].lapsed

\* reclaim_expired_leases: every lapsed lease at once.
ReclaimExpiredLeases ==
    /\ \E e \in Events, c \in Lanes : LeaseLapsed(e, c)
    /\ task' = [e \in Events |-> [c \in Lanes |->
                  IF LeaseLapsed(e, c) THEN OpenTask("due") ELSE task[e][c]]]
    /\ status' = [e \in Events |-> [c \in Lanes |->
                    IF LeaseLapsed(e, c) /\ status[e][c] = "in_flight"
                    THEN "retry" ELSE status[e][c]]]
    /\ UNCHANGED <<row, expired, held, counted, named, lost>>

Related(e, f) ==
    /\ e # f
    /\ \/ SessionKey[e] # NoKey /\ SessionKey[e] = SessionKey[f]
       \/ CostScope[e] # NoKey /\ CostScope[e] = CostScope[f]

\* block_dependent_tasks: unfinished metric lanes of what shares a session or
\* a cost scope with an event of S and is not due for deletion itself.
Dependent(S, e, c) ==
    /\ c \in MetricLanes
    /\ Live(e) /\ ~expired[e]
    /\ \E s \in S : Related(s, e)
    /\ status[e][c] \in Unfinished

Incomplete(e) ==
    \E c \in Lanes : status[e][c] \in Unfinished \cup {"blocked", "quarantined"}

UnfinishedOnly(S) ==   \* mutant: blocked and quarantined work does not count as lost
    Cardinality({e \in S : \E c \in Lanes : status[e][c] \in Unfinished})

LostWith(S) == Cardinality({e \in S : Incomplete(e)})

\* expire_due_events: one transaction deletes a page S of expired rows with
\* their tasks.
ExpireDueEvents(S) ==
    /\ S # {}
    /\ \A e \in S : Live(e) /\ expired[e]
    /\ row' = [e \in Events |-> IF e \in S THEN "gone" ELSE row[e]]
    /\ status' = [e \in Events |-> [c \in Lanes |->
                    IF Dependent(S, e, c) THEN "blocked" ELSE status[e][c]]]
    /\ task' = [e \in Events |-> [c \in Lanes |->
                  IF e \in S THEN NoTask
                  ELSE IF Dependent(S, e, c) THEN CancelledTask ELSE task[e][c]]]
    /\ lost' = lost + LostWith(S)
    /\ UNCHANGED <<expired, held, counted, named>>

ResentUnlessNotApplicable(e) ==   \* mutant: quarantined uploads are released too
    e \in SkillEvents /\ Live(e) /\ status[e][Upload] # "not_applicable"

\* The upload of e is sent again when its skill gets a name.
Resent(e) ==
    /\ e \in SkillEvents /\ Live(e)
    /\ status[e][Upload] \in {"pending", "retry", "in_flight", "applied"}

KeptTask(e) ==   \* mutant: ON CONFLICT DO NOTHING
    IF task[e][Upload] = NoTask THEN OpenTask("due") ELSE task[e][Upload]

\* The inserted row, or ON CONFLICT DO UPDATE of the one there: no lease survives.
ResentTask(e) == OpenTask("due")

\* register_skill with the first non-empty name of a skill.
RegisterSkill ==
    /\ ~named
    /\ named' = TRUE
    /\ status' = [e \in Events |->
                    IF Resent(e) THEN [status[e] EXCEPT ![Upload] = "pending"] ELSE status[e]]
    /\ task' = [e \in Events |->
                  IF Resent(e) THEN [task[e] EXCEPT ![Upload] = ResentTask(e)] ELSE task[e]]
    /\ UNCHANGED <<row, expired, held, counted, lost>>

-----------------------------------------------------------------------------
(* The writer's clock passes a deadline.                                   *)

TaskBecomesDue(e, c) ==
    /\ task[e][c] = OpenTask("later")
    /\ task' = [task EXCEPT ![e][c] = OpenTask("due")]
    /\ UNCHANGED <<row, expired, status, held, counted, named, lost>>

\* A lease that is renewed in time (renew_task_lease) simply does not lapse.
LeaseLapses(e, c) ==
    /\ task[e][c].token # NoToken /\ ~task[e][c].lapsed
    /\ task' = [task EXCEPT ![e][c].lapsed = TRUE]
    /\ UNCHANGED <<row, expired, status, held, counted, named, lost>>

\* created_at + 14 days: no update of the row postpones it.
EventExpires(e) ==
    /\ Live(e) /\ ~expired[e]
    /\ expired' = [expired EXCEPT ![e] = TRUE]
    /\ UNCHANGED <<row, status, task, held, counted, named, lost>>

-----------------------------------------------------------------------------

Init ==
    /\ row = [e \in Events |-> "absent"]
    /\ expired = [e \in Events |-> FALSE]
    /\ status = [e \in Events |-> InsertedStatus(e)]
    /\ task = [e \in Events |-> [c \in Lanes |-> NoTask]]
    /\ held = {}
    /\ counted = [e \in Events |-> [c \in MetricLanes |-> 0]]
    /\ named = FALSE
    /\ lost = 0

Claim(c) == \E S \in (SUBSET Events) \ {{}} : \E tok \in [S -> Tokens] : ClaimTasks(c, S, tok)

Answer(l) ==
    \/ \E outcome \in UploadOutcomes : CompleteTask(l, outcome)
    \/ ApplyMetrics(l)
    \/ \E when \in {"later", "due"} : RetryTask(l, when)
    \/ RefuseAnswer(l)
    \/ AbandonLease(l)

ClockStep ==
    \/ \E e \in Events, c \in Lanes : TaskBecomesDue(e, c) \/ LeaseLapses(e, c)
    \/ \E e \in Events : EventExpires(e)

Next ==
    \/ \E S \in (SUBSET Events) \ {{}} : CommitSource(S)
    \/ \E c \in Lanes : Claim(c)
    \/ \E l \in held : Answer(l)
    \/ ReclaimExpiredLeases
    \/ \E S \in SUBSET Events : ExpireDueEvents(S)
    \/ RegisterSkill
    \/ ClockStep

Spec == Init /\ [][Next]_vars

(* Fairness.  The writer runs compensation every five seconds even when    *)
(* its channel is busy; claims take due tasks oldest first; every request  *)
(* and every apply ends, one way or the other; a lease nobody renews       *)
(* lapses.  EventualSuccess adds that a lane whose answers are accepted    *)
(* again and again is not answered with a failure for ever.                *)

ClaimOf(e, c) ==
    \E S \in SUBSET Events : \E tok \in [S -> Tokens] : e \in S /\ ClaimTasks(c, S, tok)

ExpiryOf(e) == \E S \in SUBSET Events : e \in S /\ ExpireDueEvents(S)

AbandonedLeaseLapses(e, c) ==
    /\ ~ \E l \in held : l.event = e /\ l.lane = c /\ l.token = task[e][c].token
    /\ LeaseLapses(e, c)

Settle(e, c) ==
    \E l \in held :
        /\ l.event = e /\ l.lane = c
        /\ ApplyMetrics(l) \/ \E outcome \in UploadOutcomes : CompleteTask(l, outcome)

Fairness ==
    /\ \A e \in Events, c \in Lanes :
          /\ WF_vars(TaskBecomesDue(e, c))
          /\ WF_vars(AbandonedLeaseLapses(e, c))
          /\ WF_vars(ClaimOf(e, c))
    /\ \A l \in Leases : WF_vars(Answer(l))
    /\ \A e \in Events : WF_vars(ExpiryOf(e))
    /\ WF_vars(ReclaimExpiredLeases)

EventualSuccess == \A e \in Events, c \in Lanes : SF_vars(Settle(e, c))

FairSpec == Spec /\ Fairness /\ EventualSuccess

-----------------------------------------------------------------------------
(* Properties.                                                             *)

\* Type correctness of the stored rows and of the leases given out.
TypeOK ==
    /\ row \in [Events -> {"absent", "live", "gone"}]
    /\ expired \in [Events -> BOOLEAN]
    /\ status \in [Events -> [Lanes -> Statuses]]
    /\ task \in [Events -> [Lanes -> TaskRows]]
    /\ held \subseteq Leases
    /\ counted \in [Events -> [MetricLanes -> Nat]]
    /\ named \in BOOLEAN
    /\ lost \in Nat

\* What processing_tasks must hold for a lane, given events.status_json.
HasItsTask(e, c) ==
    /\ ~Live(e) => task[e][c] = NoTask
    /\ Live(e) /\ status[e][c] \in {"pending", "retry"}
       => task[e][c] \in {OpenTask("due"), OpenTask("later")}
    /\ Live(e) /\ status[e][c] = "in_flight"
       => /\ task[e][c].row = "open"
          /\ task[e][c].runnable = "null"
          /\ task[e][c].token # NoToken
    /\ Live(e) /\ status[e][c] = "blocked"
       => task[e][c] = IF c = Upload THEN NoTask ELSE CancelledTask
    /\ status[e][c] \in {"applied", "not_applicable", "quarantined"}
       => task[e][c] = NoTask

\* events.status_json and processing_tasks never disagree: an unfinished lane
\* of a stored event has exactly one task, either runnable or leased, and a
\* lane is in flight exactly while its task is leased; a settled lane has none
\* left to run.  A lane that broke this would never be processed again, or be
\* processed twice.
NoLaneForgotten == \A e \in Events, c \in Lanes : HasItsTask(e, c)

\* An event's numbers are in a metric lane once if the lane is applied and not at
\* all otherwise, whatever was retried, reclaimed, answered late or replaced by
\* another revision; deletion of the row leaves them as they are.
CountedExactlyOnce ==
    \A e \in Events, c \in MetricLanes :
        /\ counted[e][c] \in {0, 1}
        /\ counted[e][c] = 1 <=> status[e][c] = "applied"

\* In whatever order a lane processes the revisions of a fact: no two that are
\* stored are counted, and one that was left out is outdone by a newer one whose
\* numbers are in the lane.
NewestRevisionCounts ==
    \A e \in Events, c \in MetricLanes :
        /\ \A f \in Revised \ {e} :
              (/\ e \in Revised /\ Fact[e] = Fact[f]
               /\ Live(e) /\ Live(f) /\ status[e][c] = "applied")
              => status[f][c] # "applied"
        /\ c \in Applicable[e] /\ status[e][c] = "not_applicable"
           => \E g \in Events : /\ Fact[g] = Fact[e]
                               /\ Revision[g] > Revision[e]
                               /\ counted[g][c] = 1

\* Numbers do not vanish in silence: an event that was deleted with a metric lane
\* neither counted nor replaced by a newer revision was reported in
\* expired_incomplete_event_count, which reports a deleted event once.
LossIsReported ==
    LET gone == {e \in Events : row[e] = "gone"}
        uncounted == {e \in gone : \E c \in Applicable[e] \ {Upload} :
                        /\ counted[e][c] = 0
                        /\ ~ \E f \in Events : /\ Fact[f] = Fact[e]
                                              /\ Revision[f] > Revision[e]
                                              /\ counted[f][c] = 1}
    IN  Cardinality(uncounted) <= lost /\ lost <= Cardinality(gone)

\* Only the worker that holds the task's current, unlapsed lease settles an
\* in-flight lane; an answer sent under an earlier lease changes nothing.  Expiry
\* of a related event blocks a lane without asking.
OnlyHolderSettles ==
    [][\A e \in Events, c \in Lanes :
          (/\ Live(e) /\ status[e][c] = "in_flight"
           /\ status'[e][c] \in {"applied", "not_applicable", "quarantined"}
                                \cup IF c = Upload THEN {"blocked"} ELSE {})
          => LET l == [event |-> e, lane |-> c, token |-> task[e][c].token]
             IN  l \in held /\ l \notin held' /\ ~task[e][c].lapsed]_vars

\* A settled metric lane is final, except that applying a newer revision of the
\* same fact takes an older one out; an upload the server has taken is sent
\* again only because its skill got a name, and a refused one never.
SettledLanesStay ==
    [][\A e \in Events, c \in Lanes :
          (/\ Live(e) /\ status[e][c] \notin Unfinished
           /\ status'[e][c] # status[e][c])
          => /\ status[e][c] = "applied"
             /\ IF c = Upload
                THEN status'[e][c] = "pending" /\ ~named /\ named'
                ELSE /\ status'[e][c] = "not_applicable"
                     /\ \E f \in Events : /\ Fact[f] = Fact[e]
                                          /\ Revision[f] > Revision[e]
                                          /\ status[f][c] = "in_flight"
                                          /\ status'[f][c] = "applied"]_vars

\* Every lane of every stored event is settled in the end, or its event's time
\* to live runs out.
EveryLaneSettles ==
    \A e \in Events, c \in Lanes :
        (Live(e) /\ status[e][c] \in Unfinished)
            ~> ~(Live(e) /\ status[e][c] \in Unfinished)

=============================================================================
