---------------------------- MODULE SourceLease ----------------------------
(***************************************************************************)
(* How one collection source is read (runner/engine.rs) and its checkpoint *)
(* committed (lease_source, load_source_checkpoint and commit_source of    *)
(* store.rs).  A runner leases the source, loads the checkpoint, reads and *)
(* decodes outside the writer, and commits events, cursor and decoder      *)
(* state together; the commit is refused unless the runner's token and     *)
(* commit_seq are still those of the row.  Leases lapse, runners stall,    *)
(* die or come back late, and another one takes over.                      *)
(*                                                                         *)
(* Records are numbered in file order, the cursor counts those consumed    *)
(* and the decoder state is the number of records it has seen.             *)
(***************************************************************************)
EXTENDS Integers, Sequences, FiniteSets

CONSTANTS
    Runners,    \* acquisition workers, of this process or of one that died
    Tokens,     \* lease tokens; a lease picks one no runner remembers
    NoToken,    \* lease_token IS NULL
    Budget,     \* records one read may return
    MaxLen,     \* bound on the records of the source
    MaxSeq,     \* bound on commit_seq
    MaxDay      \* bound on the days that pass

ASSUME LeaseAssumption ==
    /\ NoToken \notin Tokens
    /\ Budget \in Nat \ {0}
    /\ MaxLen \in Nat /\ MaxSeq \in Nat /\ MaxDay \in Nat \ {0}

VARIABLES
    \* the outside world
    days,        \* days[i]: the Beijing day of the i-th record
    present,     \* the file exists
    today,
    stays,       \* the file never goes missing, chosen once and for all
    \* the collection_sources row, and the events of this source
    enabled,
    token,       \* lease_token
    lapsed,      \* lease_until <= now
    cursor,      \* cursor_json
    decoder,     \* decoder_state_json
    seq,         \* commit_seq
    rebuilding,  \* observed_boundary_json._rebuild_pending
    ignored,     \* ignored_record_count
    events,      \* records stored as events
    \* the runners
    run          \* run[r]: what runner r knows of its attempt

world == <<days, present, today, stays>>
lease == <<token, lapsed>>
checkpoint == <<cursor, decoder, seq, rebuilding, ignored, events>>
vars == <<world, enabled, lease, checkpoint, run>>

Day == 1 .. MaxDay

Attempts == [pc: {"idle", "leased", "loaded", "read", "failed"},
             token: Tokens \cup {NoToken},
             seq: Nat, cursor: Nat, decoder: Nat, rebuilding: BOOLEAN,
             upto: Nat, more: BOOLEAN, day: Day]

Idle == [pc |-> "idle", token |-> NoToken, seq |-> 0, cursor |-> 0, decoder |-> 0,
         rebuilding |-> FALSE, upto |-> 0, more |-> FALSE, day |-> 1]

RunnerBecomes(r, attempt) == run' = [q \in Runners |-> IF q = r THEN attempt ELSE run[q]]

-----------------------------------------------------------------------------
(* The source and the clock.                                               *)

WriteRecord ==
    /\ present /\ Len(days) < MaxLen
    /\ days' = Append(days, today)
    /\ UNCHANGED <<present, today, stays, enabled, lease, checkpoint, run>>

FileComesAndGoes ==
    /\ ~stays
    /\ present' = ~present
    /\ UNCHANGED <<days, today, stays, enabled, lease, checkpoint, run>>

Midnight ==
    /\ today < MaxDay
    /\ today' = today + 1
    /\ UNCHANGED <<days, present, stays, enabled, lease, checkpoint, run>>

LeaseLapses ==
    /\ token # NoToken /\ ~lapsed
    /\ lapsed' = TRUE
    /\ UNCHANGED <<world, enabled, token, checkpoint, run>>

-----------------------------------------------------------------------------
(* One attempt of one runner: run_source_once.                             *)

Fresh(t) == token # t /\ \A r \in Runners : run[r].token # t

\* lease_source
LeaseSource(r, t) ==
    /\ run[r].pc = "idle" /\ seq < MaxSeq
    /\ enabled
    /\ token = NoToken \/ lapsed
    /\ Fresh(t)
    /\ token' = t /\ lapsed' = FALSE
    /\ RunnerBecomes(r, [pc |-> "leased", token |-> t, seq |-> seq, cursor |-> 0,
                         decoder |-> 0, rebuilding |-> FALSE, upto |-> 0,
                         more |-> FALSE, day |-> 1])
    /\ UNCHANGED <<world, enabled, checkpoint>>

\* load_source_checkpoint: a command of its own, which asks for no lease.
LoadCheckpoint(r) ==
    /\ run[r].pc = "leased"
    /\ RunnerBecomes(r, [pc |-> "loaded", token |-> run[r].token, seq |-> run[r].seq,
                         cursor |-> cursor, decoder |-> decoder,
                         rebuilding |-> rebuilding, upto |-> 0, more |-> FALSE,
                         day |-> 1])
    /\ UNCHANGED <<world, enabled, lease, checkpoint>>

\* The read ends with record n; admission_now is fixed before the first record
\* is decoded.
ReadUpTo(r, n, more) ==
    /\ RunnerBecomes(r, [pc |-> "read", token |-> run[r].token, seq |-> run[r].seq,
                         cursor |-> run[r].cursor, decoder |-> run[r].decoder,
                         rebuilding |-> run[r].rebuilding, upto |-> n, more |-> more,
                         day |-> today])
    /\ UNCHANGED <<world, enabled, lease, checkpoint>>

\* A budgeted read; the time budget may even run out before the first record.
ReadSource(r, n) ==
    /\ run[r].pc = "loaded" /\ present
    /\ n \in run[r].cursor .. run[r].cursor + Budget
    /\ n <= Len(days)
    /\ ReadUpTo(r, n, n < Len(days))

\* read_jsonl_budgeted_with_state on a path that does not exist.
ReadMissingFile(r) ==
    /\ run[r].pc = "loaded" /\ ~present
    /\ ReadUpTo(r, 0, FALSE)

\* The source changed, the read failed or a record cannot be decoded.
ReadFails(r) ==
    /\ run[r].pc = "loaded"
    /\ RunnerBecomes(r, [pc |-> "failed", token |-> run[r].token, seq |-> run[r].seq,
                         cursor |-> run[r].cursor, decoder |-> run[r].decoder,
                         rebuilding |-> run[r].rebuilding, upto |-> run[r].cursor,
                         more |-> FALSE, day |-> 1])
    /\ UNCHANGED <<world, enabled, lease, checkpoint>>

CanCommitUnleased(r) ==   \* mutant: the row is looked up by its id alone
    /\ enabled
    /\ run[r].pc \in {"read", "failed"}

\* The checks of commit_source; whether the lease lapsed is not one of them.
CanCommit(r) ==
    /\ enabled
    /\ token = run[r].token
    /\ seq = run[r].seq

Batch(r) == run[r].cursor + 1 .. run[r].upto

AdmittedOfToday(r) == {i \in Batch(r) : days[i] = run[r].day}   \* mutant: also in a reconstruction

\* Records of the day, or all of them during a reconstruction.
Admitted(r) == {i \in Batch(r) : run[r].rebuilding \/ days[i] = run[r].day}

IgnoredByOffsets(r) ==   \* mutant: counted from the cursors, not from the batch
    ignored + run[r].upto - run[r].cursor - Cardinality(Admitted(r))

IgnoredAfter(r) == ignored + Cardinality(Batch(r) \ Admitted(r))

DecoderStays(r) == run[r].decoder   \* mutant: the decoder state is not stored

DecoderAfter(r) == run[r].decoder + Cardinality(Batch(r))

\* commit_source: events, cursor, decoder state and counters in one transaction,
\* which also gives the lease back.
CommitSource(r) ==
    /\ run[r].pc = "read"
    /\ CanCommit(r)
    /\ events' = events \cup Admitted(r)
    /\ ignored' = IgnoredAfter(r)
    /\ cursor' = run[r].upto
    /\ decoder' = DecoderAfter(r)
    /\ rebuilding' = (run[r].rebuilding /\ run[r].more)
    /\ seq' = seq + 1
    /\ token' = NoToken /\ lapsed' = FALSE
    /\ RunnerBecomes(r, Idle)
    /\ UNCHANGED <<world, enabled>>

\* try_release_lease_unchanged: the snapshot is committed as it was loaded.
ReleaseUnchanged(r) ==
    /\ run[r].pc = "failed"
    /\ CanCommit(r)
    /\ cursor' = run[r].cursor
    /\ decoder' = run[r].decoder
    /\ rebuilding' = run[r].rebuilding
    /\ seq' = seq + 1
    /\ token' = NoToken /\ lapsed' = FALSE
    /\ RunnerBecomes(r, Idle)
    /\ UNCHANGED <<world, enabled, ignored, events>>

\* The commit is refused: the checkpoint is as it was, and so is the lease.
CommitRefused(r) ==
    /\ run[r].pc \in {"read", "failed"}
    /\ ~CanCommit(r)
    /\ RunnerBecomes(r, Idle)
    /\ UNCHANGED <<world, enabled, lease, checkpoint>>

\* A stored record decoded in another decoder state has another content hash:
\* IdentityContentConflict.
CommitConflicts(r) ==
    /\ run[r].pc = "read"
    /\ CanCommit(r)
    /\ run[r].decoder # run[r].cursor /\ Admitted(r) \cap events # {}
    /\ RunnerBecomes(r, Idle)
    /\ UNCHANGED <<world, enabled, lease, checkpoint>>

\* The runner dies, or its process does.
RunnerDies(r) ==
    /\ run[r].pc # "idle"
    /\ RunnerBecomes(r, Idle)
    /\ UNCHANGED <<world, enabled, lease, checkpoint>>

-----------------------------------------------------------------------------
(* The user.                                                               *)

\* set_harness_sources_enabled
SwitchHarness ==
    /\ enabled' = ~enabled
    /\ UNCHANGED <<world, lease, checkpoint, run>>

\* PipelineRuntime::rebuild takes the lifecycle lock for writing, which waits for
\* every attempt; the next discovery registers the source anew.
Rebuild ==
    /\ enabled
    /\ \A r \in Runners : run[r].pc = "idle"
    /\ cursor' = 0 /\ decoder' = 0 /\ seq' = 0
    /\ ignored' = 0 /\ events' = {}
    /\ rebuilding' = TRUE
    /\ token' = NoToken /\ lapsed' = FALSE
    /\ UNCHANGED <<world, enabled, run>>

-----------------------------------------------------------------------------

Init ==
    /\ days = <<>> /\ present = TRUE /\ today = 1 /\ stays \in BOOLEAN
    /\ enabled = TRUE /\ token = NoToken /\ lapsed = FALSE
    /\ cursor = 0 /\ decoder = 0 /\ seq = 0
    /\ rebuilding \in BOOLEAN
    /\ ignored = 0 /\ events = {}
    /\ run = [r \in Runners |-> Idle]

Attempt(r) ==
    \/ \E t \in Tokens : LeaseSource(r, t)
    \/ LoadCheckpoint(r)
    \/ \E n \in 0 .. MaxLen : ReadSource(r, n)
    \/ ReadMissingFile(r)
    \/ ReadFails(r)
    \/ CommitSource(r)
    \/ ReleaseUnchanged(r)
    \/ CommitRefused(r)
    \/ CommitConflicts(r)
    \/ RunnerDies(r)

Next ==
    \/ WriteRecord \/ FileComesAndGoes \/ Midnight \/ LeaseLapses
    \/ \E r \in Runners : Attempt(r)
    \/ SwitchHarness \/ Rebuild

Spec == Init /\ [][Next]_vars

-----------------------------------------------------------------------------
(* Properties.                                                             *)

\* Type correctness of the row and of what the runners remember.
TypeOK ==
    /\ days \in Seq(Day) /\ present \in BOOLEAN /\ today \in Day /\ stays \in BOOLEAN
    /\ enabled \in BOOLEAN /\ token \in Tokens \cup {NoToken} /\ lapsed \in BOOLEAN
    /\ cursor \in Nat /\ decoder \in Nat /\ seq \in Nat /\ rebuilding \in BOOLEAN
    /\ ignored \in Nat /\ events \subseteq 1 .. Len(days)
    /\ run \in [Runners -> Attempts]

\* A source that stays in place is read once: the records before the cursor, and
\* no others, are stored or counted as ignored, and the decoder state is the one
\* left by exactly those records, however runners stall, die and take over.
ReadOnce ==
    stays =>
        /\ cursor <= Len(days)
        /\ decoder = cursor
        /\ events \subseteq 1 .. cursor
        /\ Cardinality(events) + ignored = cursor

\* A reconstruction ignores no record until it has reached the end of the source.
RebuildKeepsAll == stays /\ rebuilding => events = 1 .. cursor

\* A commit replaces the very checkpoint its runner started from, by the runner
\* that leased the source last, even when the file was missing meanwhile.
CommitsOnItsCheckpoint ==
    [][seq' = seq + 1 =>
          \E r \in Runners :
              /\ run[r].pc \in {"read", "failed"} /\ run'[r] = Idle
              /\ run[r].token = token
              /\ run[r].cursor = cursor /\ run[r].decoder = decoder
              /\ run[r].rebuilding = rebuilding]_vars

\* What the promise of SourceLog is kept with.
Fates == [i \in 1 .. cursor |-> IF i \in events THEN "event" ELSE "ignored"]

Log == INSTANCE SourceLog WITH written <- Len(days), fates <- Fates

\* The source is read as SourceLog promises: what was settled stays settled, unless the
\* whole source starts over, after a reconstruction began or the file was missing.
ReadAsPromised == Log!Spec

=============================================================================
