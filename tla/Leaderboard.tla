---------------------------- MODULE Leaderboard -----------------------------
(***************************************************************************)
(* How the statistics of a user's days become the user's place in the      *)
(* leaderboard: aggregate_dirty_days, user_window_scores, ranking_outbox   *)
(* and the Redis index.  Any number of worker processes run the same pass  *)
(* over the same tables: refresh dirty days, backfill scores, deliver the  *)
(* outbox, publish the hot snapshot.                                       *)
(*                                                                         *)
(* One user, window and generation.  A refresh is a REPEATABLE READ        *)
(* transaction: its first read fixes what it sees of the account and of    *)
(* the days, the score row is locked and written at the end.  The revision *)
(* of a score is the index of its outbox row less one.                     *)
(***************************************************************************)
EXTENDS RankingIndex, Sequences, FiniteSets, Functions

CONSTANTS
    Days,
    Workers,
    Nobody,
    MaxCounts,    \* bound on the changes of the day statistics
    MaxStatuses,  \* bound on the changes of the account status
    MaxMishaps    \* bound on crashes, failures and lapsed leases of busy workers

ASSUME LeaderboardAssumption ==
    /\ Nobody \notin Workers /\ IsFiniteSet(Days)
    /\ MaxCounts \in Nat /\ MaxStatuses \in Nat /\ MaxMishaps \in Nat

VARIABLES
    counted,   \* counted[d]: tokens in the statistics of day d
    active,    \* account_status = 'active'
    day,       \* day[d]: its row in aggregate_dirty_days
    score,     \* the row in user_window_scores
    outbox,    \* the rows of ranking_outbox
    held,      \* held[w][d]: the version w claimed d at, 0 if it did not
    work,      \* work[w]: the transaction or delivery w is in
    statuses, mishaps,  \* the bounds
    torn,      \* the last refresh wrote what was overtaken while it ran, and none is due
    unmarked   \* a stopped worker took the dirty mark along, and nothing changed since

tables == <<counted, active, day, score, outbox>>
history == <<torn, unmarked>>
vars == <<index, tables, held, work, statuses, mishaps, history>>

DayRows == [version : Nat, applied : Nat, due : BOOLEAN, claim : Workers \cup {Nobody}]
NewDay == [version |-> 0, applied |-> 0, due |-> FALSE, claim |-> Nobody]

Total(view) == FoldFunction(LAMBDA a, b : a + b, 0, view)

Idle == [pc |-> "idle"]
Free(w) == work[w] = Idle /\ \A d \in Days : held[w][d] = 0
Becomes(w, doing) == work' = [work EXCEPT ![w] = doing]

Mishap == mishaps < MaxMishaps /\ mishaps' = mishaps + 1

-----------------------------------------------------------------------------
(* Statistics and account.                                                 *)

\* The NULL of a claimed day stays: the claim's confirmation will requeue it.
Marked(row) ==
    [row EXCEPT !.version = @ + 1, !.due = row.claim = Nobody]

\* A day task changes the statistics of d and marks it dirty in its transaction.
Count(d) ==
    /\ Total(counted) < MaxCounts
    /\ counted' = [counted EXCEPT ![d] = @ + 1]
    /\ day' = [day EXCEPT ![d] = Marked(@)]
    /\ UNCHANGED <<index, active, score, outbox, held, work, statuses, mishaps, history>>

\* A score that changes takes the next revision, with an outbox row of the same
\* transaction.
Rescored(tokens, eligible) ==
    /\ score' = [tokens |-> tokens, eligible |-> eligible, revision |-> score.revision + 1]
    /\ outbox' = Append(outbox, [tokens |-> tokens, listed |-> eligible,
                                 revision |-> score.revision + 1,
                                 status |-> "pending", by |-> Nobody])

SetStatusOnly ==   \* mutant: the scores keep the eligibility they have
    /\ statuses < MaxStatuses /\ statuses' = statuses + 1
    /\ active' = ~active
    /\ UNCHANGED <<index, counted, day, score, outbox, held, work, mishaps, history>>

\* SetAccountStatusTx with SyncWindowScoreEligibilityTx
SetStatus ==
    /\ statuses < MaxStatuses /\ statuses' = statuses + 1
    /\ active' = ~active
    /\ IF score.eligible = active' THEN UNCHANGED <<score, outbox>>
       ELSE Rescored(score.tokens, active')
    /\ UNCHANGED <<index, counted, day, held, work, mishaps, history>>

-----------------------------------------------------------------------------
(* Dirty days.                                                             *)

\* Nobody works on the claim of d any more.
Abandoned(d) == day[d].claim \in Workers /\ held[day[d].claim][d] = 0

Released(row) == [row EXCEPT !.due = TRUE, !.claim = Nobody]

\* ReclaimExpiredDirtyDayLeases; a lease may also lapse under a slow worker.
Reclaim(w) ==
    /\ Free(w)
    /\ \E d \in Days :
          /\ day[d].claim # Nobody
          /\ day' = [day EXCEPT ![d] = Released(@)]
          /\ IF Abandoned(d) THEN UNCHANGED mishaps ELSE Mishap
    /\ UNCHANGED <<index, counted, active, score, outbox, held, work, statuses, history>>

Due(d) == day[d].due /\ day[d].applied < day[d].version

\* ClaimDirtyDays passes over rows another transaction has locked.
ClaimDays(w) ==
    /\ Free(w)
    /\ \E some \in SUBSET {d \in Days : Due(d)} \ {{}} :
          /\ day' = [d \in Days |-> IF d \in some
                                    THEN [day[d] EXCEPT !.due = FALSE, !.claim = w]
                                    ELSE day[d]]
          /\ held' = [held EXCEPT ![w] = [d \in Days |-> IF d \in some THEN day[d].version
                                                         ELSE 0]]
    /\ UNCHANGED <<index, counted, active, score, outbox, work, statuses, mishaps, history>>

Refreshed == \A d \in Days : day[d].applied = day[d].version

\* refreshDirtyDay: the first read of the transaction fixes its view.
BeginRefresh(w) ==
    /\ work[w] = Idle
    /\ \E d \in Days :
          /\ held[w][d] > 0
          /\ Becomes(w, [pc |-> "refreshing", day |-> d, view |-> counted, active |-> active])
    /\ UNCHANGED <<index, tables, held, statuses, mishaps, history>>

\* writeUserWindowScoresTx once the score row is locked.
WriteScore(tokens, eligible) ==
    IF score.tokens = tokens /\ score.eligible = eligible /\ score.revision > 0
    THEN UNCHANGED <<score, outbox>>
    ELSE Rescored(tokens, eligible)

ConfirmedAsIs(row, version) ==   \* mutant: whatever the row's version is now
    [row EXCEPT !.applied = row.version, !.claim = Nobody, !.due = FALSE]

RequeuedLater(row, version) ==   \* mutant: a grown version is left for the next mark
    IF row.version > version THEN [row EXCEPT !.claim = Nobody]
    ELSE [row EXCEPT !.applied = version, !.claim = Nobody, !.due = FALSE]

\* ConfirmDirtyDayAtVersionTx while the claim still stands
Confirmed(row, version) ==
    IF row.version > version THEN Released(row)
    ELSE [row EXCEPT !.applied = version, !.claim = Nobody, !.due = FALSE]

\* The scores are written even if the claim is lost.
CommitRefresh(w) ==
    /\ work[w].pc = "refreshing"
    /\ LET d == work[w].day IN
       /\ WriteScore(Total(work[w].view), work[w].active)
       /\ day' = IF day[d].claim = w THEN [day EXCEPT ![d] = Confirmed(@, held[w][d])]
                 ELSE day
       /\ held' = [held EXCEPT ![w][d] = 0]
    /\ torn' = (Refreshed' /\ (work[w].view # counted \/ work[w].active # active))
    /\ Becomes(w, Idle)
    /\ UNCHANGED <<index, counted, active, statuses, mishaps, unmarked>>

\* BackfillWindowScores: users whose score was never computed
BeginBackfill(w) ==
    /\ Free(w)
    /\ active /\ score.revision = 0
    /\ Becomes(w, [pc |-> "backfilling", view |-> counted])
    /\ UNCHANGED <<index, tables, held, statuses, mishaps, history>>

CommitBackfill(w) ==
    /\ work[w].pc = "backfilling"
    /\ WriteScore(IF score.tokens > 0 THEN score.tokens ELSE Total(work[w].view), TRUE)
    /\ torn' = (torn \/ (Refreshed /\ (work[w].view # counted \/ ~active)))
    /\ Becomes(w, Idle)
    /\ UNCHANGED <<index, counted, active, day, held, statuses, mishaps, unmarked>>

-----------------------------------------------------------------------------
(* The outbox.                                                             *)

Delivers(w, k) == work[w].pc \in {"claimed", "sent"} /\ work[w].row = k

UnleasedRow(k) == outbox[k].status = "pending"   \* mutant: leased rows are left alone

\* A pending row, or one whose worker does not deliver it any more.
Claimable(k) ==
    \/ outbox[k].status = "pending"
    \/ outbox[k].status = "leased" /\ ~Delivers(outbox[k].by, k)

\* processRankingOutbox, one row of the batch at a time and in any order: rows
\* whose retry is not due yet are passed over.
ClaimRow(w) ==
    /\ Free(w)
    /\ \E k \in DOMAIN outbox :
          /\ outbox[k].status # "applied"
          /\ IF Claimable(k) THEN UNCHANGED mishaps
             ELSE outbox[k].status = "leased" /\ Mishap
          /\ outbox' = [outbox EXCEPT ![k].status = "leased", ![k].by = w]
          /\ Becomes(w, [pc |-> "claimed", row |-> k])
    /\ UNCHANGED <<index, counted, active, day, score, held, statuses, history>>

SendRow(w) ==
    /\ work[w].pc = "claimed"
    /\ Apply(outbox[work[w].row])
    /\ unmarked' = (unmarked /\ changes' = changes)
    /\ Becomes(w, [pc |-> "sent", row |-> work[w].row])
    /\ UNCHANGED <<tables, held, statuses, mishaps, torn>>

\* ackRankingTask and retryRankingTask change the row only while it is leased by w.
Answered(w, status) ==
    LET k == work[w].row IN
    outbox' = IF outbox[k].status = "leased" /\ outbox[k].by = w
              THEN [outbox EXCEPT ![k].status = status, ![k].by = Nobody] ELSE outbox

AckRow(w) ==
    /\ work[w].pc = "sent"
    /\ Answered(w, "applied")
    /\ Becomes(w, Idle)
    /\ UNCHANGED <<index, counted, active, day, score, held, statuses, mishaps, history>>

\* Redis did not take the row, or took it and the answer is lost.
RetryRow(w) ==
    /\ work[w].pc \in {"claimed", "sent"} /\ Mishap
    /\ Answered(w, "pending")
    /\ Becomes(w, Idle)
    /\ UNCHANGED <<index, counted, active, day, score, held, statuses, history>>

-----------------------------------------------------------------------------
(* The hot snapshot.                                                       *)

\* PublishDirtyWindows finds the window dirty or never published.
SeeWindow(w) ==
    /\ Free(w)
    /\ changes > 0 /\ (dirty \/ hot = NoHot)
    /\ Becomes(w, [pc |-> IF dirty THEN "seen" ELSE "cleared", wasDirty |-> dirty])
    /\ UNCHANGED <<index, tables, held, statuses, mishaps, history>>

ClearDirty(w) ==
    /\ work[w].pc = "seen"
    /\ dirty' = FALSE
    /\ Becomes(w, [work[w] EXCEPT !.pc = "cleared"])
    /\ UNCHANGED <<member, changes, hot, tables, held, statuses, mishaps, history>>

\* PublishHot has nothing to do if this revision is published.
Capture(w) ==
    /\ work[w].pc = "cleared"
    /\ Becomes(w, IF hot.changes = changes THEN Idle
                  ELSE [pc |-> "captured", wasDirty |-> work[w].wasDirty,
                        snapshot |-> Captured])
    /\ UNCHANGED <<index, tables, held, statuses, mishaps, history>>

PublishHot(w) ==
    /\ work[w].pc = "captured"
    /\ Publish(work[w].snapshot, work[w].wasDirty)
    /\ Becomes(w, Idle)
    /\ UNCHANGED <<tables, held, statuses, mishaps, history>>

\* Redis fails before the snapshot is published.
PublishFails(w) ==
    /\ work[w].pc \in {"cleared", "captured"} /\ Mishap
    /\ dirty' = (dirty \/ work[w].wasDirty)
    /\ Becomes(w, Idle)
    /\ UNCHANGED <<member, changes, hot, tables, held, statuses, history>>

-----------------------------------------------------------------------------

\* A refresh that fails drops the rest of its batch; a process that dies or is shut
\* down, whatever it was in.
Stop(w) ==
    /\ ~Free(w) /\ Mishap
    /\ held' = [held EXCEPT ![w] = [d \in Days |-> 0]]
    /\ unmarked' = (unmarked \/ (work[w].pc \in {"cleared", "captured"} /\ work[w].wasDirty))
    /\ Becomes(w, Idle)
    /\ UNCHANGED <<index, tables, statuses, torn>>

\* InsertZeroWindowScoresTx has put revision 0 into the outbox.
Init ==
    /\ InitIndex
    /\ counted = [d \in Days |-> 0] /\ active = TRUE
    /\ day = [d \in Days |-> NewDay]
    /\ score = [tokens |-> 0, eligible |-> TRUE, revision |-> 0]
    /\ outbox = <<[tokens |-> 0, listed |-> TRUE, revision |-> 0,
                   status |-> "pending", by |-> Nobody]>>
    /\ held = [w \in Workers |-> [d \in Days |-> 0]] /\ work = [w \in Workers |-> Idle]
    /\ statuses = 0 /\ mishaps = 0
    /\ torn = FALSE /\ unmarked = FALSE

Pass(w) ==
    \/ Reclaim(w) \/ ClaimDays(w) \/ BeginBackfill(w) \/ ClaimRow(w) \/ SeeWindow(w)

InProgress(w) ==
    \/ BeginRefresh(w) \/ CommitRefresh(w) \/ CommitBackfill(w)
    \/ SendRow(w) \/ AckRow(w)
    \/ ClearDirty(w) \/ Capture(w) \/ PublishHot(w)

Next ==
    \/ \E d \in Days : Count(d)
    \/ SetStatus
    \/ \E w \in Workers : Pass(w) \/ InProgress(w) \/ RetryRow(w) \/ PublishFails(w) \/ Stop(w)

\* Every worker runs a pass each two seconds; what it may find to do comes to an end.
Fairness == \A w \in Workers : WF_vars(Pass(w) \/ InProgress(w))

Spec == Init /\ [][Next]_vars /\ Fairness

-----------------------------------------------------------------------------
(* Properties.                                                             *)

Drained == \A k \in DOMAIN outbox : outbox[k].status = "applied"

\* Type correctness; a worker's batch is remembered at versions the days have had.
TypeOK ==
    /\ counted \in [Days -> Nat] /\ active \in BOOLEAN
    /\ day \in [Days -> DayRows]
    /\ held \in [Workers -> [Days -> Nat]]
    /\ \A w \in Workers, d \in Days : held[w][d] <= day[d].version
    /\ \A d \in Days : day[d].applied <= day[d].version

\* Types hold, and a day whose statistics changed since they were last refreshed is
\* queued or claimed, so some worker will refresh it.
NoDayForgotten ==
    /\ TypeOK
    /\ \A d \in Days : day[d].applied < day[d].version => day[d].due \/ day[d].claim # Nobody

\* A day is confirmed at a version whose statistics the refresh has read: a change
\* made while it ran is not taken for published.
ConfirmsWhatItRead ==
    [][\A d \in Days :
          day'[d].applied # day[d].applied
          => \E w \in Workers :
                /\ work[w].pc = "refreshing" /\ work[w].day = d
                /\ work[w].view[d] >= day'[d].applied]_vars

\* What readers rely on when they find no undelivered outbox row: the index then
\* holds the score as it is in the database, in whatever order, how often and by
\* whom the rows were delivered.
DrainedIsCurrent ==
    Drained => /\ member.revision = score.revision
               /\ member.listed = score.eligible
               /\ member.listed => member.tokens = score.tokens

\* Readers never see the hot snapshot go back, whichever worker publishes last.
HotNeverRewinds == [][hot'.changes >= hot.changes]_vars

\* Once statistics and accounts rest, each change has been refreshed, delivered and
\* published to anonymous readers, unless the worker that had removed the dirty mark
\* of the index's last change stopped before it published (index.go:319).
EverythingIsDelivered ==
    <>[](Refreshed /\ Drained /\ (hot.changes = changes \/ unmarked))

\* When everything is refreshed and delivered and no worker is busy, the leaderboard
\* shows the user's tokens, and shows them only if the account is active, unless the
\* last refresh wrote what statistics or account had overtaken.
RankingIsCurrent ==
    (Refreshed /\ Drained /\ (\A w \in Workers : Free(w)) /\ ~torn)
    => /\ member.listed => active
       /\ member.listed => member.tokens = Total(counted)

=============================================================================
