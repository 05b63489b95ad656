# TokenDance in TLA+

TokenDance collects AI-usage statistics. A Rust collector (desktop application or
command line) reads the logs of coding harnesses, keeps their events in a local SQLite
database and uploads them; a Go server counts them in MySQL and ranks users through a
Redis index; a React application shows the result. This directory models the parts of
that chain whose correctness depends on order, concurrency and failure, checks the
models with TLC and proves the most important results with TLAPS.

Paths below are relative to the repository. `PIPE` stands for
`collector/apps/service/src/local_store/pipeline`, `SRV` for `server/internal`.

## 1. The system

### How an observation travels

    harness log ── Acquisition ──> SourceLease ──> EventStore ──(upload)──> UsageCount
    (file, db)     which source    one read and    events, lanes            ingest, tasks,
         │         is read when    its commit      and tasks                buckets
         │                                            │                        │
         └─ command line: WalSpool ─────(upload)──>   local                  dirty days
            segments, snapshot,                       statistics               │
            upload queue                                                  Leaderboard
                                                                          scores, outbox,
                                                                          Redis, hot lists
    SetupPlan writes the harnesses' configuration.   DataDeletion takes everything away
    again.   Team says whose numbers are shown to whom.

### Components

| component | state | operations | what is hard | what makes it correct |
|---|---|---|---|---|
| Event store (`PIPE/store.rs`, `apply.rs`) | `events` with a status per lane, `processing_tasks`, bucket tables, loss counter | commit a batch, claim, complete, retry, apply a revision, reclaim, expire, rename a skill | late answers, lapsed leases, deletion after the time to live while a worker holds a task, revisions in any order | each lane has its task, each event is counted once, the newest revision counts, no silent loss |
| Single writer (`PIPE/writer.rs`) | queue of 16 commands | run one command in a transaction; compensate every 5 s | a full queue, compensation under load | commands are atomic; compensation is not starved |
| Source runner (`PIPE/runner/engine.rs`, `jsonl.rs`, `admission.rs`) | lease, cursor, decoder state, `commit_seq` of a source | lease, load checkpoint, read, decode, commit, release | a second runner, stalls, midnight, files that vanish | every record is read once, only the leaseholder commits |
| Acquisition runtime (`PIPE/runtime.rs`, `runner/scheduler.rs`) | known sources, queue entries, turns, permits | discover, refresh, take, look, run, finish | a file that changes while it is read; permits; a source that always fails | no wakeup is lost, no source starves, workers rest |
| Full reconstruction (`PIPE/reconstruction.rs`) | the process-wide rebuild flag | begin, discover, reconcile | sources that never finish | nothing is dropped by the day rule while it runs |
| Rollout (`PIPE/rollout.rs`) | phase and gates | advance, roll back | partial roll-back | not modelled |
| Encrypted spool (`crates/wal-spool`, `crates/uploader`, `crates/acquisition`) | segments, snapshot, queue, checkpoint of the command-line collector | collect, upload, settle, compact, open | torn writes, crashes inside a compaction, lost answers, refused batches | what the checkpoint has passed is queued, acknowledged or given up, before and after a restart |
| Setup executor (`crates/config-executor`) | files, variables and directories of the user; back-ups in memory | prepare, back up, write, read back, verify, roll back | the user and other executors at the same targets; errors after the effect | only unseen edits are lost, a rollback reaches all it wrote |
| Upload consumer (`apps/service/src/upload_pipeline.rs`) | claimed page, back-off | encode, send, apply acknowledgements | lost answers, partial acknowledgements | an answer settles only what it holds |
| Device service and ingest (`SRV/device`, `SRV/store/mysql/telemetry_ingest.go`) | `telemetry_events` with fact, revision and identity hash | accept a batch once, give its events their identity | mirrored copies, concurrent uploads, lost answers | a row and its tasks appear together, what was acknowledged is stored |
| Telemetry tasks (`SRV/worker/telemetry_aggregation.go`, `SRV/store/mysql/telemetry_tasks.go`, `usage_identity_backfill.go`) | `telemetry_tasks`, buckets by hour, day, month; dirty days | claim, apply, retire revisions, shadow copies, fail, reopen, backfill; refresh and confirm a day | several worker processes, slow workers, revisions and copies in any order, views of snapshots | buckets say what the rows say, one revision counts, no change of a day is lost |
| Window scores and ranking (`SRV/store/mysql/window_scores.go`, `SRV/worker/ranking_outbox.go`, `SRV/ranking`) | scores with revisions, outbox, Redis entries, hot snapshot | refresh, backfill, suspend, deliver, publish | reordered and repeated rows, crashes between two stores | Redis shows what MySQL holds, readers see it |
| Deletion (`SRV/worker/deletion.go`, `SRV/store/mysql/privacy.go`, `export.go`) | requests with cursor and claim, object keys, team barriers | request, cancel, six phases, objects, export jobs | takeovers between phases, objects outside the database, uploads and joins between the phases | what is deleted stays deleted, barriers cover it, the request ends |
| Teams (`SRV/store/mysql/teams.go`, `team_invite_links.go`, `team_analysis.go`, `SRV/worker/team_exports.go`) | teams with `auth_revision`, memberships, invitations, links, `team_export_jobs` | create, invite, resend, accept, join by link, change roles, remove, leave, transfer, dissolve; suspend or delete an account; queue, claim, write, publish, download an export | what is in force outlives who issued it; the team changes while its export is written; late workers | nothing is left in force without authority, nobody returns uninvited, a download shows the present team |

`PROJECT.json` lists every component, those not modelled with the reason: decoders,
schema repairs, read-only queries, conversions of payloads to numbers, the windows of the
desktop shell, platform calls, the analyses of teams, accounts and web API, and the web
application. Its `hazards` name, at the line where it bites, what a test would hardly
reach.

### How they interact

- Acquisition workers (threads) share the queue under one mutex and the writer through
  its channel; the writer alone touches SQLite. Whatever a worker does between two
  requests to the writer may interleave with everything else.
- `commit_source` is the one hand-over from runner to store: events, tasks, cursor,
  decoder state and `commit_seq` in one transaction.
- The local statistics loop and the upload loop claim tasks from the same table, each
  in its own lane, and answer them later under a lease.
- The server's worker processes share MySQL and Redis only. There is no leader: each
  pass may run in any number of processes.
- Uploads, aggregation, deletion and backfill meet in the rows of `telemetry_events`; the
  row of the installation keeps an upload and an execution of one device apart.
- A command on a team is one transaction that locks the team's row. The worker that
  writes an export only reads the team, before and after: `auth_revision` is what tells it
  that a command came between.
- The command-line collector has one loop: it collects all sources, flushes, waits. It
  shares nothing with the event store but the server.

## 2. Modules

| module | models | checked by | proved in |
|---|---|---|---|
| `EventStore` | the local database and its workers | `EventStoreSafety`, `EventStoreLiveness` | `EventStoreProofs` |
| `SourceLog` | what reading a source promises, abstractly | through `SourceLease` | |
| `SourceLease` | lease, read and commit of one source | `SourceLeaseSafety` | `CollectorProofs` |
| `Acquisition` | which source is read when | `AcquisitionQueue` | `AcquisitionProofs` |
| `RankingIndex` | the Redis scripts on one window | through `Leaderboard` | |
| `Leaderboard` | from a changed day to the hot snapshot | `LeaderboardSafety`, `LeaderboardDelivery` | `LeaderboardProofs` |
| `UsageCount` | from an upload to the buckets, one user | `UsageCountSafety`, `UsageCountSettles` | `UsageCountProofs` |
| `DataDeletion` | deletion requests, their workers and what they race with | `DataDeletionEnds` | `DataDeletionProofs` |
| `Team` | membership, invitations, links and the export of one team | `TeamExports` | `TeamProofs` |
| `SetupPlan` | writing and rolling back a user's configuration | `SetupPlanApply` | `SetupPlanProofs` |
| `Outbox` | what a spool promises, abstractly | through `WalSpool` | |
| `WalSpool` | the tick of the command-line collector over its spool | `MCWalSpool`, `WalSpoolTick` | `CollectorProofs` |

`MC*` modules hold the instances. `CollectorProofs` holds the proofs of two modules that
share no state: the two ways the collector takes records in.

### EventStore

An event is a model value with a fact, a revision, a session and a cost scope. `row[e]`
says whether it is stored, `status[e][c]` is `status_json`, `task[e][c]` the row of
`processing_tasks` and `held` the leases some worker remembers; a lease stays in `held`
until its worker answers it or gives it up, also when the task has long been given to
another. Each action is one transaction, because one writer thread runs them all.
Deadlines are kept as whether they have passed: the code compares each one with the
clock in complementary pairs. What an answer does is decided by `Verified` (lease token,
deadline, event still stored), and `Replaced` is the revision rule of
`prepare_fact_revision`: a newer revision takes an older applied one out of the buckets.
`counted[e][c]` is the number of times an event's numbers are in a lane's tables, so
adding and subtracting amounts is abstracted to counting. A renewed lease is one that
has not lapsed. `ExpireDueEvents` deletes events after their time to live, blocks the
related ones and counts what was lost. Left out: `repair_cost_upload_hashes`,
`backfill_derived_metrics`, a deleted event that is stored a second time, and what a
reconstruction deletes.

### SourceLease and SourceLog

Records are numbered in file order, the cursor is how many are consumed, and the decoder
state is how many it has seen. An attempt runs `LeaseSource`, `LoadCheckpoint`,
`ReadSource`, `CommitSource`, each apart, so leases lapse and another runner takes over
between any two. `CanCommit` is the compare-and-swap on token and `commit_seq`;
`Admitted` is the rule that only records of the day of admission become events, unless
the source is being rebuilt. Two runners at once are the contract of the commit (tests
`cas_reject_keeps_previous_committed_cursor` and `commit_seq_cas_rejects_stale_writer`);
the queue of one process and the instance lock normally keep attempts apart. `SourceLog`
says the same without runners: records are written, each is settled once and in order
as event or ignored, and a reconstruction starts over. `ReadAsPromised` is the
refinement, with `fates` computed from cursor and events. Left out: identity changes of
a file, records that yield several events, and switching off during a reconstruction.

### Acquisition

`entry[s]` is the queue entry of a source (observed fingerprint, ready, idle, in
flight), `served` the rank of its last turn among the sources taken, `turns` and `next`
the fairness counters, `work[w]` what a worker is
doing and `check` the refresh of one source, which lists under the mutex, looks at the
file without it and comes back. A fingerprint is a pair of the number of whole records
and whether an incomplete line follows. `Take` is `acquire_one` up to the permit: the
next harness in turn, in it a never or least recently served source on each
`FairEvery`-th turn and the most recently changed one otherwise; which files changed
today is left open. `Look`, `Read`, `Commit`, `Finish` and `DropPermit` follow the code;
failures are `Failed`, `Refused` and `AttemptFails`. Left out: `collection_paused`, the
lifecycle lock, truncated files (see `SourceLease`), and a failing database write of
`set_harness_enabled`. The instance has one harness, so the rotation over harnesses is
modelled and only exercised with one.

### RankingIndex and Leaderboard

`RankingIndex` has one step per Lua script: `Apply` compares revisions and keeps
tombstones, `Captured` reads entries and the index's revision at once, `Publish` refuses
older snapshots. `Leaderboard` adds the tables and the worker processes for one user,
window and generation. A refresh is a REPEATABLE READ transaction, so it is two steps:
`BeginRefresh` fixes what it sees of account and days, `CommitRefresh` locks the score
and the claim, writes and confirms. Rows of the outbox are delivered one at a time and
in any order, which includes the batches of the code. A worker's lease on a claim or a
row lapses freely once the worker has given it up; under a working one it is a mishap.
Left out: the generation's change at midnight and its promotion, the publication fence
(two snapshots of one revision have the same rows), rows that fail for good, deletion of
the user, the community outbox, and unbinding a device, whose own score write marks its
days dirty and is repaired by the next refresh. `unmarked` and `torn` are history: a
worker stopped between taking the dirty mark and publishing, and a refresh wrote what had
been overtaken.

### UsageCount

The events of one user on two devices. `id[e]` is the row id, `hash[e]` the
`usage_identity_hash`, `status[e][g]` and `task[e][g]` a grain's status and task, and
`counted[e][g]` how often the bucket contains the event. What locks all it reads is one
action: `Claim`, `Execute` (which is `Superseded`, `Retired`, `Counts` in the order of
`executeTelemetryTask`), `Fail`, `Reclaim`, `Backfill`. Two transactions are not: an
upload has its row ids from `InsertBatch` and is seen after `CommitBatch`, and a deletion
chooses what it reopens from a snapshot in `DeletionStarts` and does it in
`DeletionCommits`. `Unlocked` is the lock on the installation's row that keeps an
execution and an upload of one device apart. A worker keeps its claim in `claims` after
its lease lapsed, and `Holds` decides when it comes back. `BatchHash` is the rule of
`computeUsageIdentities`: one identity in a batch gives every other event of it thirty-two
zero bytes. `misjudged` is history: rows settled while a copy was not visible, or a
visible one about to go, and rows a deletion leaves shadowed (`Stranded`); so is
`recounted`: rows reopened in a grain that counts them.
Left out: amounts, the session, skill and cost tables,
quarantine.

### DataDeletion

One user with devices, teams, avatars and export jobs. `req[r]` is the request's row with
its cursor and claim token; `claims` what workers are executing, also those whose lease
has passed on. A claim first registers the barriers, then runs the phases from the cursor:
`RevokeAccess`, `DeleteEvents`, `DeleteAggregates`, the objects, `DeleteIdentity`,
`Complete`. Each is one transaction behind `Fence`; the objects phase is `QueueKeys`, then
`Renew`, `DeleteObject`, `MarkDeleted` for each key, because the object storage is outside
the transaction, and `FinishObjects`. Against them run `Upload`, `Aggregate`, `Rebind`,
`Join` and the export workers, which write an object before they record its key.
`Referenced` is the foreign key that `telemetry_skills` holds on a device. `unsettled` is
history: the exports that were not over when the keys were listed.

### Team

One team and one export job. `role[u]` is `base_role` of the membership, and who owns the
team is in `team`, so that `PublicRole` is the code's `publicRole`. `invited[x]` is the
pending invitation to the address of `x`, `links[l]` an open link with those who joined by
it, `account[u]` the account's status. Each command is one action with all its effects:
`closeMembership` is `Close` with `InvitationsWithout`, and `bumpAuth` is `Bumped`. Of
`auth_revision` only one thing is read, whether it is still the one the job was queued at
(`job.fresh`). A worker's attempt is `ClaimExport`, then `Authorize`, `Write`, `Authorize`
again and `Complete`, each apart; `Fail` and `Revoke` are the other ends, and a lease may
lapse under any attempt. `ready` is whether the snapshot of the job is ready and of its
revision; a snapshot with a job to come does not expire (`team_cleanup.go:91`). History is
in `before` of an invitation (issued before its recipient last left): every exit, which is
leaving, being removed, the end of the team and the deletion of the account, sets it on
each invitation to those who go that survives the exit (`Aged`). `departed` are the users
whose last exit was the deletion of their account. Left out: which numbers the sharing
flags show, profile and avatar, versions and receipts of commands, the delivery of mail,
refreshes and analyses, the expiry of exports. The barriers of a deletion are in
`DataDeletion`.

### SetupPlan

A target holds marks: one per edit of the user and the mark of the executor whose values
it has, so that a merge keeps edits and a restored back-up drops what came later. `run[x]`
is one executor: `Prepare` reads each target, `WriteTarget` renames what prepare worked
out over whatever is there, `ReadBack` and `Verify` look again. A rollback looks at a
target (`CheckTarget`) and restores it afterwards (`RestoreTarget`), in reverse order and
past errors. Two executors run at once because the control commands of the desktop take
no common lock (`state.rs:1315`). Back-ups live in `run[x].before` and die with the
process.

### WalSpool and Outbox

The records of one source are 1..n; a frame carries a set of them. `segments` and
`snapshot` are the disk, `memory` what `WalStore` holds, `writer` the segment being
written, `loop` where the tick stands. `Collect` reads from the checkpoint and appends a
transaction; `Flush`, `Upload`, `Settle`, `NextBatch`, `Compact`, `Sweep` are the second
half. An append may leave nothing, a torn frame or a whole frame and fail, with or without
the process dying (`AppendGoesWrong`), or succeed and return the error of the snapshot
that was due (`AppendedWithoutSnapshot`); an error ends the flush, and one inside
`compact`, which nobody looks at, ends the sweep (`CompactionFails`). `Open` is
`open_with_limits`: snapshot, replay of what is `Readable`, then repair, where a torn
frame with others behind it is cut off with them or isolated, or (`OpenFails`) keeps the
store from opening at this and every later start.

`settings` has the limits, chosen initially and then fixed: `payload`, the records a frame
holds, and `events` and `segments`, which stand for `hard_events` and `hard_bytes`. A
spool at a limit is `Full`, and the tick reads nothing; dead letters count
(`store.rs:251-260`). A transaction that is `TooLarge` is refused before anything is
written and the tick goes on (`CollectNothing`), or, if it is only its nonce and tag that
take it past the limit, written as an `Overlong` frame, which every reader refuses
(`Collect`). `Outbox` says the same without a disk: a checkpoint, a queue, and
acknowledged and given-up records, all of which only grow. `OutboxUntilDamaged` is the
refinement under `View`, which is the memory while the process is up and what opening
would recover while it is down. `behind`, `damaged` and `stray` are history: the records
in frames no replay reads, written behind a torn one or overlong, whether there is any
such frame, and the records in frames that are whole although their append failed, which
`Outbox` sees as `ahead`: known, perhaps, before the checkpoint has passed them. Replay is
two recursive functions, as `replay_all` is two loops: `LogUpTo` reads the segments one
after the other, `Replayed` applies the frames.

## 3. Runs

All bounds are the constants of the `.cfg` files; deadlock is not checked because every
bounded instance comes to rest. A mishap is a failure, a crash or a lease that lapses
under a live worker; `MaxMishaps` bounds them together, so every single one and (in
`wal_spool`) every pair is tried at every point.

| run | question | instance and why it is enough | distinct states |
|---|---|---|---|
| `store_safety` | do lanes, tasks, counts and losses stay consistent? | two revisions of one fact and a skill event in one session, two tokens. Two revisions give every order of replacement, two tokens give a late answer beside a new lease, the shared session gives blocking by expiry. | 520 000 |
| `store_liveness` | do lanes settle? | one metric and one upload lane under fairness. | 14 000 |
| `lease_safety` | is each record read once, who commits over which checkpoint, is `SourceLog` implemented? | two runners, two tokens, three records, three commits, two days, a file that stays or that comes and goes. Takeover needs two runners; midnight needs two days. | 1 018 000 |
| `acquisition_queue` | lost wakeups, starvation, rest | a log that grows and a store that always fails, two workers, one crash, failure, switch or slow read. | 361 000 |
| `leaderboard_safety` | is Redis right when the outbox is empty, does the resting list show the truth, can snapshots go back? | two workers, one day that changes, one suspension, one mishap; workers interchangeable. | 4 331 000 |
| `leaderboard_delivery` | is every change refreshed as read, delivered and published? | two workers, two changes of one day (the second during the refresh of the first), one mishap; under fairness. | 1 543 000 |
| `usage_counts` | which revisions and copies count, and do the buckets say what the rows say? | two revisions of a usage on one device and its copy on another, each sent with or without identity, two uploads at once, two grains, a deletion, the backfill, two claims at once. Two revisions and a copy are the least in which shadowing and retirement meet; two grains the least in which a row is half settled. | 389 000 |
| `usage_settles` | do rows, tasks and batches agree when things fail, and does every row settle? | a usage and its copy, two claims at once, one mishap, a deletion; under fairness. | 7 600 |
| `deletion_ends` | do phases hold across takeovers, are teams barred, is everything gone, and does a request end? | one request of any scope over a device and a team, an avatar, an export, two workers, one mishap; under fairness. A takeover needs two claims, an object out of order an export beside the objects phase. | 118 000 |
| `team_exports` | who may let whom in, who comes back, what does a download show, does an export end? | a founder, a member-to-be who is invited and one who is not, one invitation or link open at a time, one export of two attempts; exits, changes of role, owner or account, failures, deaths and takeovers, two in all. Two are the least in which an exit meets a suspension, or a takeover a demotion. | 363 000 |
| `setup_plan` | what can a setup destroy, what does a rollback leave? | two executors, a file, a variable and a directory, one edit or removal, one mishap. One target of each kind, because each is checked and restored differently. | 229 000 |
| `wal_spool` | is anything lost or repeated across crashes, compaction and replay? | two records, segments of one frame (every append rotates, so that compaction and order across segments matter), batches of two, two mishaps: one to tear a frame, one to restart. Three settings: limits out of reach, with a first tick that starts over and without, and limits the first records meet (a frame of one record; one event or two segments count as full). | 241 000 |

Every property of a run has a mutant: a change to a mapped definition, such as a
dropped comparison or a requeue that is forgotten, under which TLC finds the property
violated.

### Exceptions the properties name

Where the code does not do the obvious thing the property says exactly when, and holds
otherwise. Each exception was found by the run without it.

- *A slow read* (`slow`, in `QueueIsSound`'s `NoLostWakeup` and `EveryRecordIsRead`). If
  50 ms pass between the start of a read and its first record (a suspended machine, a
  loaded disk), nothing is read, the source goes idle with the new fingerprint, and the
  record waits for the file's next change (`runner/jsonl.rs:133`).
- *A missing file* (`stays`, in `ReadAsPromised`, where it is a start-over). A JSONL file
  that is missing for a moment is read as offset 0, which is committed; when it returns
  it is read from the start. `docs/event-pipeline-refactor-technical-plan-v1.md:134` says
  a cursor does not go back.
- *A torn refresh* (`torn`, in `RankingIsCurrent`). A refresh or backfill reads account
  and days before it locks the score row. A suspension in between is overwritten: the user
  is listed again with a newer revision than the removal, and nothing remains to repair
  it.
- *A dirty mark that is taken along* (`unmarked`, in `EverythingIsDelivered`).
  `PublishDirtyWindows` deletes the mark before it publishes (`ranking/index.go:319`). A
  failure sets it again; a process that dies does not, and the hot list stays behind until
  the window's next change.
- *Late copies* (`misjudged`, `recounted`, `Straddled`, in `CountedTwiceOnlyIfLate`). Which
  copy counts is decided by row id; ids follow insertion, visibility follows the commit. A
  copy with a smaller id that commits later counts beside the one already applied, and so
  may a copy between two revisions of a fact. A row reopened where it counts already is not
  taken out of the bucket if by then such a copy is there to shadow it.
- *Lost usage* (`Misidentified`, `misjudged`, in `LostOnlyForAReason`). A later revision
  that is shadowed by a copy has already retired the applied one
  (`telemetry_aggregation.go:301-335`); then none counts. The zero hash makes strangers
  copies of each other. A copy executed while a deletion runs is shadowed by a row about
  to go. Rows are reopened as a whole, and only if their fact counts in no grain
  (`usage_identity_backfill.go:521-560`): of a row shadowed in one grain, with its fact
  counted in another, the first grain is not reopened (`Stranded`). A revision sent without its
  identity after the backfill is no copy any more, and the backfill leaves members of the
  owner's fact out.
- *Recounted rows* (`recounted`, in `BucketsAreApplied`). The deletion of a device reopens
  the copies its rows shadowed. Which ones is read without a lock
  (`usage_identity_backfill.go:521`). A grain of a chosen row that was pending may be
  executed before the reset, which makes its task due again and leaves the bucket as it
  is: the row is counted a second time.
- *Cancelled deletions* (`departed`, in `NoReturnByOldInvitation`). Deleting an account
  revokes what the user issued but leaves the invitations to the user pending
  (`closeUserTeamOnAccountDeletion`, `privacy.go:542-599`, does not call
  `revokePendingInvitesForUserEmail` as every other exit does); after cancelling, the old
  invitation lets him in. `docs/tokendance-teams-technical-design-v1.md:618` says he needs
  a new one.
- *An unfinished export* (`unsettled`, in `DeletedIsGone`). Its key is not recorded when
  the keys are listed (`deletion.go:433`); its object is written later and stays.
- *Obstructed deletions* (`Obstructed`, in `DeletionEnds`). `telemetry_skills` refers to
  the device (`0011_telemetry_event_pipeline.sql:32`) and no phase deletes its rows, so
  the identity phase of an account or device that ever reported a skill fails for good.
  The all-usage and installation scopes leave uploads open, and an event that arrives
  behind the events phase makes the reconciliation fail, while the cursor does not go
  back. `docs/tokendance-user-system-technical-design.md:1224-1226`
  has a failed deletion retried from its cursor until nothing is left.
- *Unseen edits* (in `OnlyUnseenEditsAreLost`). An edit between prepare and the rename is
  overwritten; so is one between the rollback's look and its restoration. With two
  executors the back-up of one holds the other's values and a rollback puts them back
  (`RollbackReachesAll`).
- *A failed write* (`k = applied + 1` in `RollbackReachesAll`). `write_atomic` may return
  an error after the rename, a variable may read back differently: the mutation is not
  counted as applied, the target keeps the plan's values and the status is `RolledBack`.
- *A dead setup* (`dead`). Back-ups are in memory, so a crash leaves the targets half
  written; `docs/collector-plugin-architecture-and-acceptance.md:322-330` keeps them on
  disk.
- *Frames behind a torn one* (`behind`, `damaged`, in the properties of `WalSpool`). After
  an append that failed while the process went on, nothing repairs the segment; later
  frames are synced behind torn bytes and cut off or isolated at the next start. If a
  snapshot has their checkpoint they are lost. `needs_rescan`, which
  `docs/collector-plugin-architecture-and-acceptance.md:1219` relies on, is read nowhere.
- *A failed append that is whole* (`stray`, in `OutboxUntilDamaged`). When only the sync
  fails, the frame is there, the process goes on and the next frame, an acknowledgement
  say, takes the same sequence number. A snapshot then counts both as covered, so a restart
  ignores the checkpoint of the first (`sequence > snapshot_seq`, `store.rs:649`) but
  queues its events, although by
  `docs/collector-plugin-architecture-and-acceptance.md:579` both take effect or neither.
  The source is read again from the older checkpoint, and the server sorts the repetition
  out by event id.
- *Undelivered records* (in `EveryRecordIsDelivered`). Five things keep a record from
  ever arriving or being given up; without any one of the exceptions TLC finds the
  property violated.
  - *Paused uploads* (`loop.paused`). Refused credentials stop the uploader until the
    process restarts.
  - *An oversized backlog* (`Overgrown`). `write_payload` refuses more than 4 MiB of plain
    text (`store.rs:416-418`), but a realtime poll and the first poll of Codex put all
    that is unread into one transaction (`crates/acquisition/src/jsonl.rs:94`,
    `pipeline.rs:193-209`). A backlog above the limit is refused in the same way on every
    tick, at every start.
  - *The last 28 bytes* (`behind`). The limit is compared with the plain text when
    writing (`store.rs:416`) and with nonce and tag when reading (`codec.rs:121`). A
    transaction in between is reported as appended; the next start isolates its segment and
    reads neither it nor what follows it there. With a snapshot in between the checkpoint
    is past it, and its records are lost without any mishap but the restart.
  - *A store that does not open* (`unopenable`). A write torn after seven bytes, with a
    frame behind it, has the `T` of that frame's magic where the flags are. `read_frame`
    takes it for plain text (`codec.rs:113`), `replay_all` passes the error on
    (`store.rs:585`), and opening fails at every start.
  - *A spool that stays full* (`Clogged`). Dead letters count as pending and nothing drops
    them (`store.rs:251-260`); segments are dropped by compaction only, which a flush of
    an empty queue does not reach (`client.rs:60-63`). Either can hold backpressure for
    ever.

Four more divergences are visible in the models without an exception: the comment at
`PIPE/store.rs:1500` says no lane is applied with a missing historical contribution, but
`block_dependent_tasks` reaches only related events that are stored; and the day that
admits a batch is fixed before decoding (`PIPE/runner/engine.rs:277`), not by the
transaction that stores it (`docs/event-time-admission-v1.md:102`); a suspended inviter's
links are revoked but his mail invitations stay acceptable, since `canGrantRole` looks at
the role only (`docs/tokendance-teams-product-design-v1.md:180`); and the object of a
team export that is uploaded and not published is on no list of objects to clean up
(`docs/tokendance-teams-technical-design-v1.md:580`).

### Fairness

- *EventStore.* The writer's compensation keeps an absolute deadline of 5 s, so it runs
  under load; claims take due tasks oldest first; every request ends; a lease nobody
  renews lapses. `EventualSuccess` adds that a lane is not answered with a failure for
  ever, which the code cannot guarantee and which `EveryLaneSettles` needs.
- *Acquisition.* Workers poll at least every 500 ms, the tick runs every second and the
  refresh every 5 s; leases lapse. The step of a tick is strongly fair for a source,
  because one tick lists all sources that are not in flight and a source in flight comes
  back.
- *Leaderboard.* Every worker process runs a pass each 2 s; a pass looks at every kind
  of work, and the bounded instance has only so much of it, so weak fairness of "the
  worker does something" is enough. Restarting after a crash is part of it.
- *UsageCount.* Transactions end; every pass claims the oldest due tasks and reclaims
  lapsed leases. Executing is strongly fair, because an upload or deletion of the same
  device disables it again and again but holds its locks for a moment only.
- *DataDeletion.* The cancel window closes, every pass claims a due request, a claimed one
  is carried on; weak fairness each, for steps that use no mishap.
- *Team.* Every pass of a worker claims a due export and carries it to its end; nothing is
  assumed of what people do.
- *WalSpool.* The timer ticks, and the process is started again; opening is fair as long
  as it is possible at all.
- `SourceLease` and `SetupPlan` state no liveness.

## 4. Proofs

Each `*Proofs` module proves the safety of what it extends for every value of the
constants: any number of events, lanes, tokens, runners, days, workers, users, devices,
requests, executors, sources and harnesses, and any bound on mishaps. What is assumed of
the constants is the module's `ASSUME`, which TLC evaluates on every instance. Beyond
types these say: events, days, users, requests and sources are finitely many; an event is
determined by fact and revision, and applicable lanes exist (`StoreAssumption`); a read
has a positive budget (`LeaseAssumption`), segments, batches and frames take at least one
entry and a spool has room for an event and for two segments (`SpoolAssumption`); a plan
is a non-empty sequence that names no target twice, and the user's edits are not the
executors' marks (`SetupAssumption`); there is a harness (`AcquisitionAssumption`); no
identity is the zero hash, which a hash is only with negligible probability
(`UsageCountAssumption`); a fact's key is a keyed hash under a secret of its device, so
facts of two devices differ, and hashes of the two kinds of identity differ as well
(`KeysAssumption`); the objects of uploads are not those of exports
(`DataDeletionAssumption`).

No safety property the runs check is inductive. Every module therefore states an
invariant that is, `...Inv`, whose parts TLC checked on the instances first; it proves
that the initial states satisfy it, that each action preserves it (one lemma per action or
group of actions that touch the same state), and that it implies the properties.

**EventStore.** `StoreInv` is type correctness, `NoLaneForgotten`, `CountedExactlyOnce`
and `NewestRevisionCounts`, with `Pristine` (an event that was never stored has untouched
lanes) and `LostTally` (the loss counter is the number of deleted events with unfinished
lanes). Counts stay natural numbers only because a revision subtracts applied peers alone,
so none of the parts is inductive without the others. Most steps leave most lanes as they
are (`UntouchedLane`); applying a revision is the hard one, because it changes several
events at once (`ApplyEffect`). The theorems are `TypeCorrect`, `NoLaneIsForgotten`,
`CountingIsExact`, `NewestCounts` and `NoSilentLoss`. The action properties follow from
`StatusMoves`, which finds the four ways a stored lane's status changes: its holder
answers, it is rescheduled or blocked, it is sent again for its skill's name, a newer
revision takes it out. Only the first ends a lane in flight (`LateAnswersSettleNothing`),
only the last two change a settled one (`SettledStaysSettled`).

**SourceLease.** A commit writes what a runner remembers, so `LeaseInv` adds
`HolderIsCurrent` (the runner whose token is in the row remembers the
row's checkpoint) and `ReadInside` (a read ends within the file as long as the file
stays). From it follow `SourceReadOnce`, `ReconstructionKeepsAll`, the action property
`CommitsAreCurrent`, and `SourceReadAsPromised`: every step of `SourceLease` is a step of
`SourceLog` or changes nothing that it shows.

**Acquisition.** A file only grows, so a fingerprint taken earlier is not above the
present one (`NotAhead`; `NotAfter` is the order), and if it equals it the file has not
changed since. `ReadsToTheEnd` says, for a worker whose fingerprint is still the file's,
that a read without more to come ended at the end of the file. `Finish` turns that into
the entry, which nobody else writes meanwhile because no two workers have one source
(`OneReader`, from the permits). Any growth of a file makes every fingerprint somebody
remembers differ from it, which is why no wakeup is lost (`QueueStaysSound`).

**Leaderboard.** Three arguments share `LeaderboardInv`. `DaysRefreshed`: the version of a
day counts its changes, and a refresh reads it after its claim, so it confirms no more
than it read (`NoDayIsForgotten`, `RefreshesConfirmWhatTheyRead`). `IndexFollows`: the
outbox holds the revisions of the score in order, the index one of its rows, at least as
new as any that was sent; if all are applied that is the last (`DrainedMeansCurrent`).
`ScoreFollows`: a score that is due for no day shows the present statistics and account,
unless the last refresh was torn (`RankingBecomesCurrent`). `HotStaysOrAdvances` needs the
first part's types only.

**UsageCount.** A row is settled only while its task is claimed, hence pending, and only
rows others see are settled (`UncommittedAreNew`); uploads in progress hold disjoint rows
of devices that are not being deleted (`UploadsApart`). A claim takes a token nobody holds
any more, and there is one because each lease lost under a worker was a mishap
(`StaleAreCounted`). From `CountInv` with these parts follow `RowsAgree`,
`BucketsFollowTheRows` and `RevisionsExcludeOneAnother`.

Which copies count needs a second invariant on top, `CopiesInv`. A row that is applied has
no earlier copy, but for those that became visible late and those between the revisions of
its fact (`AppliedIsFirst`). A row that is not counted has an earlier copy or is
`Explained` (`ShadowedForAReason`): some revision of its fact counts, was misjudged, or
has a hash that can no longer become the row's. While a deletion is under way, a row that
only the deleted device shadows is chosen to be reopened, or is explained, or its fact
counts in some grain (`DeletionReopens`); in the last case the commit finds it `Stranded`.
`CellsInv` says which hashes a row can have, that row ids are apart and that what is
applied is in the bucket. `CopiesCountOnce` is `AppliedIsFirst` for two copies;
`LossHasAReason` looks at the row with the least id of a usage that counts nowhere, which
has no earlier copy. The proof corrected both properties: an instance of four events on
three devices refuted `CountedTwiceOnlyIfLate` without `recounted` (15 states) and
`LostOnlyForAReason` without `Stranded` (19 states).

**DataDeletion.** A claim that has its token remembers what the row says (`ClaimsFollow`),
and only it moves the cursor; tokens are apart because each takeover is a mishap
(`TokensAreApart`, `TokensAreCounted`). What a committed phase removed stays removed since
the account is not active from the request on (`AccountGoesOnce`, `PhasesLast`), an object
is listed, stored under a listed key, or of an export that was not over
(`ObjectsAreKnown`), and teams are barred by each claim before its first phase and by each
joining (`BarriersStand`). The theorems are `PhasesAreKept`, `BarriersHold` and
`WhatIsDeletedIsGone`.

**Team.** `AuthorityHolds` is inductive with `IssuersAreUsers`: each command that takes
somebody's authority closes what he opened. `ExportFollows` says that what an attempt has
written lists the present members while its job is fresh: every change of the members
moves the revision on. The theorems are `AuthorityAlwaysHolds`,
`OldInvitationsLetNobodyBack` and `DownloadsShowTheTeam`. The second rests on
`closeMembership` clearing the invitations to the leaver (`NothingAges`): an exit that
leaves one pending would mark it, with nobody `departed`.

**SetupPlan.** The values of an executor are only where its own attempt can still tell
(`Left`: up to the target it is at while it writes, down to it while it rolls back, and
the targets it reported) or where another executor's back-up put them (`MarksAreKnown`).
An executor never reads its own values (`NeverItsOwn`), because it reads every target
before it writes the first (`NoneBeforeWriting`). The theorems are `RollbackIsComplete`
and `SeenEditsStay`.

**WalSpool.** `NothingIsLost` speaks of memory and of what opening recovers; the invariant
`SpoolInv` says it of the disk. Its first half, `StoreInv`, has for every state: what is
acknowledged anywhere is at the server (`Delivered`); no checkpoint, of the snapshot, of a
transaction or of memory, is ahead of the records the disk holds (`Covered`); snapshot and
frames are of memory's past (`SnapshotBehind`). Until there is damage it adds that only
the end of a segment is torn and nothing is known before its time (`Undamaged`), and that
the transactions newer than the snapshot end at memory's checkpoint (`Reaches`, in
`UpToDate`). The second half, `LoopInv`, ties the tick to the store: batches in flight are
disjoint and queued (`Apart`), the sweep follows a snapshot of what memory still knows.

The proof goes in four layers. `LogIs` gives each frame of a replayed log its place in the
segments; `RecoveredIs` and `ReachesIs` say what opening recovers without mentioning the
log: sets of events by kind of frame, and a checkpoint. `WroteFrames`, `OpenReads` and
`RestIs` say which frames an append, a repair and a compaction leave readable; `SentIs`
relates the frame an append was asked for to the one it writes, which may be overlong. One
lemma per action then keeps the invariant (`AppendedKeeps`, `WrongKeeps`, `CrashKeeps`,
`OpenKeeps`, `CompactKeeps`, `SweepKeeps`), and `Advances` turns that into a step of
`Outbox`. Nothing in it bounds records, segments, frames, batches or mishaps. The theorems
are `SpoolInvariant`, `SpoolLosesNothing` and `SpoolIsAnOutbox`. The attempt corrected the
model twice: `OutboxUntilDamaged` without `stray` is false with three mishaps (10 states),
which two do not reach; and a torn frame behind a torn one has to count as damage. The
parts of the invariant, with bounded quantifiers in place of those over all places, were
checked by TLC on an instance of three mishaps first (2 725 000 distinct states).

Where a proof needs induction over data it is replaced by a least counterexample: a sum
over no days is zero (`NothingCounted`), row ids are bounded (`IdsAreBounded`) and a set
of natural numbers has a least one (`LeastNatural`), so `FreshToken` is what it says
(`FreshTokenIsFresh`); a statement passes on from each length of a log to the next
(`UpTo`).

Only model-checked:

- liveness (`EveryLaneSettles`, `EveryRecordIsRead`, `EverythingIsDelivered`,
  `EveryTaskSettles`, `DeletionEnds`, `EveryExportEnds`, `EveryRecordIsDelivered`): fairness
  and `ENABLED` are beyond the prover.

## 5. What is left out, and the plan

Left out of the modelled components, besides what section 2 says of each:

- *DataDeletion*: the time-range scope (which also leaves `telemetry_events` behind), the
  earlier daily tables, the user revoking a device, the expiry of exports, keys of team
  exports, attempt limits, and what a deletion does to scores; reopened copies are in
  `UsageCount`.
- *Team*: what section 2 says, a second export (jobs of one team share nothing but the
  team), and accounts that are not yet verified, which only narrows the guards.
- *SetupPlan*: the syntax of files, endpoints and switches. Which of two controls wins
  when two commands persist one at the same time is not stated: the older may.
- *WalSpool*: damaged media and power loss between rename and sync (a snapshot that does
  not decode makes acknowledgements and checkpoints compacted away unknown, and after an
  isolation an older segment is written on), sources that are truncated or rotated, driver
  sources, records without an event, single events above the uploader's limit (they end as
  dead letters, as refused ones do; the spool's limit for a transaction is modelled), soft
  backpressure, limits that change, lost keys, `purge_local_queue`.

Not modelled at all: decoders and the parsing of third-party formats, rendering, request
handling of one transaction each, read-only queries, migrations. They make up most of the
lines of the repository and have no interleaving of their own; the models cover the parts
whose state several actors share, which is well below a third of all lines.

Known hazards without a property: a full writer queue when a harness is switched
(`PIPE/runtime.rs:238`), a batch denser than its bound (`PIPE/store.rs:1254`), a record no
decoder accepts, which stops its source (`PIPE/runner/engine.rs:351`; such a source is in
`acquisition_queue`, as the one that must not starve the others), a claimed event that
cannot be encoded, which aborts its batch (`upload_pipeline.rs:251`), and a
reconstruction that waits for a quarantined event (`PIPE/reconstruction.rs:115`).

Done, in this order: `EventStore`, `SourceLog` and `SourceLease` with their proofs,
`Acquisition`, `RankingIndex` and `Leaderboard`, `UsageCount`, `DataDeletion`,
`SetupPlan`, `Outbox` and `WalSpool`, `Team`, and the proofs of section 4. Next:

modules for the reconstruction over several sources, the roll-out's gates and the
promotion of generations.
