---------------------------- MODULE UsageCount -----------------------------
(***************************************************************************)
(* How the usage events of one user's devices become the numbers in the    *)
(* hour, day and month buckets: telemetry_events, telemetry_tasks and the  *)
(* metric tables.  Uploads, aggregation workers, the deletion of a device  *)
(* and the usage identity backfill run as transactions over these tables.  *)
(*                                                                         *)
(* A transaction that locks all it reads is one action.  Two are not:      *)
(*  - an upload holds its rows from the insert to the commit, and the row  *)
(*    id, which decides which copy of a usage counts, is given at the      *)
(*    insert;                                                              *)
(*  - a deletion chooses the rows it reopens from a snapshot taken before  *)
(*    its delete is visible to others.                                     *)
(* An execution and an upload of the same device exclude one another: both *)
(* lock the row of the installation.                                       *)
(***************************************************************************)
EXTENDS FiniteSets, FiniteSetsExt, Integers

CONSTANTS
    Events,       \* numbered in the order of their event ids
    Devices,
    Grains,       \* the consumers: hour, day, month
    NoHash, Zero, \* usage_identity_hash: NULL, thirty-two zero bytes
    DeviceOf,     \* the installation an event comes from
    FactOf,       \* fact_key
    RevisionOf,   \* fact_revision
    IdentityOf,   \* the hash of its wire usageIdentity, if it is sent with one
    ContentOf,    \* its time, model and numbers, by which the backfill groups
    NoTask, Due,
    NoDevice,
    MaxBatch,     \* bound on the events of an upload
    MaxUploads,   \* bound on the uploads in progress
    MaxClaims,    \* bound on the claims in progress
    MaxDeletions, \* bound on the deletions of a device
    MaxMishaps    \* bound on failures, deaths and lapsed leases of busy workers

Pending == 0
Applied == 3
NotApplicable == 4
Tokens == 1 .. MaxMishaps + 1

\* The hash the backfill gives to events of this content.
Backfilled(e) == <<"backfill", ContentOf[e]>>

ASSUME UsageCountAssumption ==
    /\ Events \subseteq Nat /\ IsFiniteSet(Events)
    /\ MaxMishaps \in Nat
    /\ DeviceOf \in [Events -> Devices] /\ NoDevice \notin Devices
    /\ RevisionOf \in [Events -> Nat]
    /\ NoTask \notin Tokens \cup {Due} /\ Due \notin Tokens

\* fact_key is an HMAC under a secret of the device; the two kinds of identity hash
\* are HMACs over fields that begin with different tags.
ASSUME KeysAssumption ==
    /\ \A x, e \in Events : FactOf[x] = FactOf[e] => DeviceOf[x] = DeviceOf[e]
    /\ \A x, e \in Events : IdentityOf[e] \notin {NoHash, Zero, Backfilled(x)}
    /\ \A e \in Events : Backfilled(e) \notin {NoHash, Zero}

VARIABLES
    id,        \* id[e]: the id of its row, 0 if it has none
    uploads,   \* the transactions in progress
    acked,     \* the events whose acknowledgement reached the device
    hash,      \* hash[e]: usage_identity_hash
    status,    \* status[e][g]: status_json
    task,      \* task[e][g]: no task, runnable, or the token of its lease
    claims,    \* the claims workers have yet to execute
    counted,   \* counted[e][g]: how often the bucket contains the event
    deletion,  \* the deletion in progress and the rows it will reopen
    misjudged, \* history: rows settled on a view of the copies that was not final
    recounted, \* history: rows reopened in a grain that already counts them
    deletions, mishaps   \* the bounds

rows == <<id, hash>>
work == <<status, task, counted>>
history == <<misjudged, recounted>>
vars == <<rows, work, uploads, acked, claims, deletion, history, deletions, mishaps>>

Rows == {e \in Events : id[e] > 0}

Committed == Rows \ UNION {u.new : u \in uploads}

Uploading(d) == \E u \in uploads : u.device = d
NoDeletion == [device |-> NoDevice, reopen |-> {}]

\* The revisions of a fact, and the earlier copies of a usage, that others see.
SameFact(x, e) == DeviceOf[x] = DeviceOf[e] /\ FactOf[x] = FactOf[e]
EarlierCopies(e) ==
    {x \in Committed : /\ hash[e] # NoHash /\ hash[x] = hash[e]
                       /\ id[x] < id[e] /\ FactOf[x] # FactOf[e]}

\* f with the value v for the arguments in S.
Put(f, S, v) == [x \in DOMAIN f |-> IF x \in S THEN v ELSE f[x]]

Mishap == mishaps < MaxMishaps /\ mishaps' = mishaps + 1

-----------------------------------------------------------------------------
(* Uploads.                                                                *)

\* identified: the events the collector sends with their identity.  One of them
\* in the batch gives every other event of it the zero hash.
BatchHash(e, identified) ==
    IF e \in identified THEN IdentityOf[e]
    ELSE IF identified # {} THEN Zero ELSE NoHash

\* Insert the events of the batch that have no row.  One that another upload
\* holds makes this one wait.
InsertBatch(d, batch, identified) ==
    LET new == batch \ Rows
        last == Max({0} \cup {id[x] : x \in Events})
    IN
    /\ Cardinality(uploads) < MaxUploads /\ deletion.device # d
    /\ batch \ Committed = new
    /\ id' = [e \in Events |-> IF e \in new
                 THEN last + Cardinality({x \in new : x <= e}) ELSE id[e]]
    /\ hash' = [e \in Events |-> IF e \in new THEN BatchHash(e, identified) ELSE hash[e]]
    /\ status' = Put(status, new, [g \in Grains |-> Pending])
    /\ task' = Put(task, new, [g \in Grains |-> Due])
    /\ uploads' = uploads \cup {[device |-> d, new |-> new, batch |-> batch]}
    /\ UNCHANGED <<counted, acked, claims, deletion, history, deletions, mishaps>>

\* Rows that were settled before this commit made an earlier copy visible.
Overtaken(new) ==
    {e \in Committed : /\ \E g \in Grains : status[e][g] # Pending
                       /\ \E x \in new : /\ hash[e] # NoHash /\ hash[x] = hash[e]
                                         /\ id[x] < id[e] /\ FactOf[x] # FactOf[e]}

\* The commit; its answer may be lost.
CommitBatch(u) ==
    /\ uploads' = uploads \ {u}
    /\ \/ acked' = acked \cup u.batch /\ UNCHANGED mishaps
       \/ Mishap /\ UNCHANGED acked
    /\ misjudged' = misjudged \cup Overtaken(u.new)
    /\ UNCHANGED <<rows, work, claims, deletion, recounted, deletions>>

AbortBatch(u) ==
    /\ uploads' = uploads \ {u}
    /\ id' = Put(id, u.new, 0)
    /\ hash' = Put(hash, u.new, NoHash)
    /\ task' = Put(task, u.new, [g \in Grains |-> NoTask])
    /\ Mishap
    /\ UNCHANGED <<status, counted, acked, claims, deletion, history, deletions>>

-----------------------------------------------------------------------------
(* Aggregation workers.                                                    *)

\* A random token: one no worker still holds for this task.
FreshToken(e, g) == Min({n \in Tokens : <<e, g, n>> \notin claims})

Claim(e, g) ==
    /\ e \in Committed /\ task[e][g] = Due /\ Cardinality(claims) < MaxClaims
    /\ task' = [task EXCEPT ![e][g] = FreshToken(e, g)]
    /\ claims' = claims \cup {<<e, g, FreshToken(e, g)>>}
    /\ UNCHANGED <<rows, status, counted, uploads, acked, deletion, history,
                   deletions, mishaps>>

LeasedNever(e, g) == FALSE   \* mutant: a lapsed lease is not found

Leased(e, g) == task[e][g] \in Tokens
Held(e, g) == <<e, g, task[e][g]>> \in claims

\* A lease lapses: nobody executes the claim any more, or its worker is slow.
Reclaim(e, g) ==
    /\ Leased(e, g)
    /\ task' = [task EXCEPT ![e][g] = Due]
    /\ IF Held(e, g) THEN Mishap ELSE UNCHANGED mishaps
    /\ UNCHANGED <<rows, status, counted, uploads, acked, claims, deletion, history,
                   deletions>>

PeersPending(e, g) ==   \* mutant: revisions yet to be executed are retired too
    {x \in Committed : SameFact(x, e) /\ x # e /\ status[x][g] # NotApplicable}

\* Applied revisions of the same fact in the same grain.
Peers(e, g) ==
    {x \in Committed : SameFact(x, e) /\ x # e /\ status[x][g] = Applied}
Superseded(e, g) == \E x \in Peers(e, g) : RevisionOf[x] > RevisionOf[e]
RetiredNone(e, g) == {}   \* mutant: older revisions stay applied

Retired(e, g) == IF Superseded(e, g) THEN {} ELSE Peers(e, g)
CountsEveryCopy(e, g) == ~Superseded(e, g)   \* mutant: the copies are not looked for

Counts(e, g) == ~Superseded(e, g) /\ EarlierCopies(e) = {}

OfDevice(d) == {e \in Committed : DeviceOf[e] = d}

HoldsAny(c) == c \in claims   \* mutant: the token is not compared

\* The claimed task, of a row whose locks no upload or deletion holds.
Holds(c) == c \in claims /\ task[c[1]][c[2]] = c[3]
Unlocked(e) == ~Uploading(DeviceOf[e]) /\ deletion.device # DeviceOf[e]

\* Revisions of the fact are retired also when the event itself is shadowed.
Execute(c) ==
    LET e == c[1]
        g == c[2]
        settled == IF Counts(e, g) THEN Applied ELSE NotApplicable
    IN
    /\ Holds(c) /\ Unlocked(e)
    /\ status' = [x \in Events |-> [h \in Grains |->
           IF h = g /\ x = e THEN settled
           ELSE IF h = g /\ x \in Retired(e, g) THEN NotApplicable ELSE status[x][h]]]
    /\ counted' = [x \in Events |-> [h \in Grains |->
           IF h = g /\ x = e /\ Counts(e, g) THEN counted[x][h] + 1
           ELSE IF h = g /\ x \in Retired(e, g) THEN counted[x][h] - 1
           ELSE counted[x][h]]]
    /\ task' = [task EXCEPT ![e][g] = NoTask]
    /\ claims' = claims \ {c}
    /\ misjudged' = misjudged \cup
           IF /\ EarlierCopies(e) # {}
              /\ EarlierCopies(e) \subseteq OfDevice(deletion.device) \/ Retired(e, g) # {}
           THEN {e} ELSE {}
    /\ UNCHANGED <<rows, uploads, acked, deletion, recounted, deletions, mishaps>>

FailDrops(c) ==   \* mutant: a failed task is removed
    /\ Holds(c) /\ Mishap
    /\ task' = [task EXCEPT ![c[1]][c[2]] = NoTask]
    /\ claims' = claims \ {c}
    /\ UNCHANGED <<rows, status, counted, uploads, acked, deletion, history, deletions>>

\* The transaction fails; the task is runnable again if it is still this claim's.
Fail(c) ==
    /\ Holds(c) /\ Mishap
    /\ task' = [task EXCEPT ![c[1]][c[2]] = Due]
    /\ claims' = claims \ {c}
    /\ UNCHANGED <<rows, status, counted, uploads, acked, deletion, history, deletions>>

\* A claim that lost its lease finds no row, or its worker dies.
GiveUp(c) ==
    /\ c \in claims
    /\ IF Holds(c) THEN Mishap ELSE UNCHANGED mishaps
    /\ claims' = claims \ {c}
    /\ UNCHANGED <<rows, work, uploads, acked, deletion, history, deletions>>

-----------------------------------------------------------------------------
(* Deletion of a device and the usage identity backfill.                   *)

ReopenableNone(gone) == {}   \* mutant: shadowed rows stay shadowed

\* Shadowed rows whose earlier copies are gone and whose fact counts nowhere.
Reopenable(gone) ==
    {e \in Committed \ gone :
        /\ hash[e] # NoHash
        /\ \E g \in Grains : status[e][g] = NotApplicable
        /\ EarlierCopies(e) \subseteq gone
        /\ ~\E x \in Committed \ gone : /\ FactOf[x] = FactOf[e]
                                        /\ \E g \in Grains : status[x][g] = Applied}

DeletionStarts(d) ==
    /\ deletions < MaxDeletions /\ deletions' = deletions + 1
    /\ deletion = NoDeletion /\ ~Uploading(d) /\ OfDevice(d) # {}
    /\ deletion' = [device |-> d, reopen |-> Reopenable(OfDevice(d))]
    /\ UNCHANGED <<rows, work, uploads, acked, claims, history, mishaps>>

\* Rows that lose the last of their earlier copies and stay shadowed in a grain,
\* because their fact counts in another one.
Stranded(gone, reopen) ==
    {e \in Committed \ reopen :
        LET revisions == {x \in Committed : SameFact(x, e)} IN
        /\ EarlierCopies(e) # {} /\ EarlierCopies(e) \subseteq gone
        /\ \E g \in Grains : /\ status[e][g] = NotApplicable
                            /\ \A x \in revisions : status[x][g] # Applied
        /\ \E g \in Grains, x \in revisions : status[x][g] = Applied}

\* Executed after it was chosen, in a grain that had been pending: the reset makes
\* its task due again and leaves the bucket as it is.
Recounted(reopen) == {e \in reopen : \E g \in Grains : status[e][g] = Applied}

\* A leased task of a reopened row cannot become runnable: a CHECK forbids it.
DeletionCommits ==
    LET gone == OfDevice(deletion.device)
        reopen == deletion.reopen
    IN
    /\ deletion # NoDeletion
    /\ \A e \in reopen, g \in Grains : ~Leased(e, g)
    /\ id' = Put(id, gone, 0)
    /\ hash' = Put(hash, gone, NoHash)
    /\ status' = Put(status, gone \cup reopen, [g \in Grains |-> Pending])
    /\ task' = Put(Put(task, gone, [g \in Grains |-> NoTask]), reopen, [g \in Grains |-> Due])
    /\ counted' = Put(counted, gone, [g \in Grains |-> 0])
    /\ claims' = {c \in claims : c[1] \notin gone}
    /\ acked' = acked \ gone
    /\ misjudged' = (misjudged \cup Stranded(gone, reopen)) \ gone
    /\ recounted' = (recounted \cup Recounted(reopen)) \ gone
    /\ deletion' = NoDeletion
    /\ UNCHANGED <<uploads, deletions, mishaps>>

DeletionFails ==
    /\ deletion # NoDeletion
    /\ \E e \in deletion.reopen, g \in Grains : Leased(e, g)
    /\ deletion' = NoDeletion /\ deletions' = deletions - 1
    /\ UNCHANGED <<rows, work, uploads, acked, claims, history, mishaps>>

\* Copies without an identity on several devices become copies of the first.
\* Their rows are locked first: one that an upload holds makes the backfill wait.
Group(e) == {x \in Rows : ContentOf[x] = ContentOf[e]}

Backfill(e) ==
    LET members == Group(e)
        owner == CHOOSE x \in members : \A y \in members : id[x] <= id[y]
        others == {x \in members : FactOf[x] # FactOf[owner]}
    IN
    /\ Cardinality({DeviceOf[x] : x \in {y \in members : hash[y] = NoHash}}) > 1
    /\ \A x \in members : Unlocked(x)
    /\ hash' = [x \in Events |-> IF x \in members /\ hash[x] = NoHash
                   THEN Backfilled(e) ELSE hash[x]]
    /\ status' = [x \in Events |-> [g \in Grains |->
           IF x \in others /\ status[x][g] = Applied THEN NotApplicable ELSE status[x][g]]]
    /\ counted' = [x \in Events |-> [g \in Grains |->
           IF x \in others /\ status[x][g] = Applied THEN counted[x][g] - 1
           ELSE counted[x][g]]]
    /\ misjudged' = misjudged \cup {x \in others : hash'[x] # hash'[owner]}
    /\ UNCHANGED <<id, task, uploads, acked, claims, deletion, recounted, deletions,
                   mishaps>>

-----------------------------------------------------------------------------
Init ==
    /\ id = [e \in Events |-> 0]
    /\ hash = [e \in Events |-> NoHash]
    /\ status = [e \in Events |-> [g \in Grains |-> Pending]]
    /\ task = [e \in Events |-> [g \in Grains |-> NoTask]]
    /\ counted = [e \in Events |-> [g \in Grains |-> 0]]
    /\ uploads = {} /\ acked = {} /\ claims = {}
    /\ misjudged = {} /\ recounted = {}
    /\ deletion = NoDeletion
    /\ deletions = 0 /\ mishaps = 0

Batches(d) ==
    {b \in SUBSET {e \in Events \ acked : DeviceOf[e] = d} :
        b # {} /\ Cardinality(b) <= MaxBatch}

Next ==
    \/ \E d \in Devices : \E batch \in Batches(d) :
           \E identified \in SUBSET batch : InsertBatch(d, batch, identified)
    \/ \E u \in uploads : CommitBatch(u) \/ AbortBatch(u)
    \/ \E e \in Events, g \in Grains : Claim(e, g) \/ Reclaim(e, g)
    \/ \E c \in claims : Execute(c) \/ Fail(c) \/ GiveUp(c)
    \/ \E d \in Devices : DeletionStarts(d)
    \/ DeletionCommits \/ DeletionFails
    \/ \E e \in Events : Backfill(e)

\* Workers poll without end; a transaction that began comes to an end.
Fairness ==
    /\ WF_vars(\E u \in uploads : CommitBatch(u) \/ AbortBatch(u))
    /\ WF_vars(DeletionCommits \/ DeletionFails)
    /\ \A e \in Events, g \in Grains :
        /\ WF_vars(Claim(e, g))
        /\ WF_vars(~Held(e, g) /\ Reclaim(e, g))
        /\ SF_vars(\E c \in claims : c[1] = e /\ c[2] = g /\ (Execute(c) \/ Fail(c)))

Spec == Init /\ [][Next]_vars /\ Fairness

-----------------------------------------------------------------------------
(* Properties.                                                             *)

\* Every variable has its type.
TypeOK ==
    /\ id \in [Events -> Nat]
    /\ uploads \subseteq [device : Devices, new : SUBSET Events, batch : SUBSET Events]
    /\ acked \subseteq Events /\ misjudged \subseteq Events /\ recounted \subseteq Events
    /\ hash \in [Events -> {NoHash, Zero} \cup {IdentityOf[e] : e \in Events}
                              \cup {Backfilled(e) : e \in Events}]
    /\ status \in [Events -> [Grains -> {Pending, Applied, NotApplicable}]]
    /\ task \in [Events -> [Grains -> Tokens \cup {NoTask, Due}]]
    /\ claims \subseteq Events \X Grains \X Tokens
    /\ counted \in [Events -> [Grains -> Int]]
    /\ deletion \in [device : Devices \cup {NoDevice}, reopen : SUBSET Events]
    /\ deletions \in Nat /\ mishaps \in Nat

\* A bucket contains an event once if its row says applied and not at all
\* otherwise, through retirement, reopening, deletion and backfill; except a row
\* that was reopened in a grain where it counted.
BucketsAreApplied ==
    \A e \in Events \ recounted, g \in Grains :
        counted[e][g] = IF status[e][g] = Applied THEN 1 ELSE 0

\* Two revisions of one fact never count together in a grain.
OneRevisionCounts ==
    \A x, e \in Rows, g \in Grains :
        SameFact(x, e) /\ status[x][g] = Applied /\ status[e][g] = Applied => x = e

\* A pending row has a task and a settled row has none: no row waits for a task
\* that was dropped, no task is left over.
NoTaskForgotten ==
    \A e \in Rows, g \in Grains : status[e][g] = Pending <=> task[e][g] # NoTask

\* What the device saw acknowledged is stored until the device is deleted.
AckedIsStored == acked \subseteq Committed

\* Rows, buckets, tasks and answers agree, whatever is aborted, retried or deleted.
RowsAreConsistent == TypeOK /\ BucketsAreApplied /\ NoTaskForgotten /\ AckedIsStored

\* Revisions of one fact, or copies: some of their revisions have one identity.
SameUsage(x, e) ==
    \/ SameFact(x, e)
    \/ \E y, z \in Committed : /\ SameFact(y, x) /\ SameFact(z, e)
                               /\ hash[y] = hash[z] /\ hash[z] \notin {NoHash, Zero}

Quiet ==
    /\ uploads = {} /\ deletion = NoDeletion
    /\ \A e \in Events, g \in Grains : task[e][g] = NoTask

Lost(e, g) == \A x \in Committed : SameUsage(x, e) => counted[x][g] = 0

\* A copy of e, found by the backfill, that came between two revisions of its fact.
Straddled(e, x) ==
    hash[e] = Backfilled(e) /\ \E w \in Committed : SameFact(w, e) /\ id[w] < id[x]

\* Two copies of a usage count together only if the earlier one was committed
\* after the later one was settled, or the later one was reopened where it counted,
\* or the backfill kept a revision that is later than the copy (the shadowing in
\* executeTelemetryTask, repairUsageIdentityGroup).
CountedTwiceOnlyIfLate ==
    \A e \in Committed, g \in Grains : \A x \in EarlierCopies(e) :
        counted[x][g] > 0 /\ counted[e][g] > 0 =>
            e \in misjudged \cup recounted \/ Straddled(e, x)

\* A revision of e's fact, or of a copy's, has the zero hash or another hash.
Misidentified(e) ==
    \E x, y \in Committed :
        SameUsage(x, e) /\ SameFact(x, y) /\ (hash[x] = Zero \/ hash[x] # hash[y])

\* A usage is lost only if a hash is not the usage's, or a row of it was settled on
\* a view that was not final: a shadowed revision retired an applied one, a row was
\* shadowed by what a deletion was removing, or stayed shadowed because its fact
\* counts in another grain, or the backfill gave way to a copy of another hash.
LostOnlyForAReason ==
    Quiet => \A e \in Committed, g \in Grains :
        Lost(e, g) => \/ Misidentified(e)
                      \/ \E x \in misjudged : SameUsage(x, e)

\* Every stored event is settled in each grain or deleted.
EveryTaskSettles ==
    \A e \in Events, g \in Grains :
        (e \in Committed) ~> (e \notin Committed \/ status[e][g] # Pending)
=============================================================================
