------------------------------ MODULE WalSpool ------------------------------
(***************************************************************************)
(* The encrypted spool of the command-line collector (crates/wal-spool),  *)
(* filled by its ticks and drained by crates/uploader.  One source file   *)
(* is followed; a record yields one event.  Every change is appended as a *)
(* frame to the active segment; a snapshot lets compaction drop frames,   *)
(* and opening the store replays the snapshot and what segments hold.     *)
(***************************************************************************)
EXTENDS Integers, Sequences, FiniteSets, FiniteSetsExt, SequencesExt

CONSTANTS Length,           \* bound: records the source may come to hold
          RotateFrames,     \* frames a segment takes before the next is opened
          BatchEvents,      \* events in an upload
          MaxMishaps,       \* bound: crashes, failed writes and failed uploads
          Settings          \* what differs between adapters and sizes of records:
                            \* whether the first tick reads from the start, the records
                            \* a frame holds, and hard_events and hard_bytes, the latter
                            \* in segments

ASSUME SpoolAssumption ==
  /\ Length \in Nat
  /\ RotateFrames \in Nat \ {0}
  /\ BatchEvents \in Nat \ {0}
  /\ MaxMishaps \in Nat
  /\ Settings \subseteq [replays : BOOLEAN, payload : Nat \ {0}, events : Nat \ {0},
                         segments : Nat \ {0, 1}]

Records == 1..Length

VARIABLES
  written,      \* records the harness has appended to its file
  received,     \* records the server holds
  segments,     \* disk: segment id -> the frames of its file
  snapshot,     \* disk: the newest snapshot
  up,           \* whether the process runs
  unopenable,   \* whether opening the store has failed, as it then always will
  settings,     \* the one of Settings that holds
  memory,       \* WalStore: [offset, queued, acked, dead]
  writer,       \* WalStore: [id, frames, next, isolated]
  loop,         \* the tick: [at, fresh, paused, batches, ack, dead, sweep]
  behind,       \* records in whole frames that no replay reads
  damaged,      \* whether any frame was written where, or as, no replay reads it
  stray,        \* records in whole frames whose append failed
  mishaps

history == <<behind, damaged, stray>>
spoolVars == <<written, received, segments, snapshot, up, unopenable, settings, memory,
          writer, loop, history, mishaps>>

Nothing == [offset |-> 0, queued |-> {}, acked |-> {}, dead |-> {}]
AtStart == [at |-> "collect", fresh |-> TRUE, paused |-> FALSE,
            batches |-> <<>>, ack |-> {}, dead |-> {}, sweep |-> {}]

SpoolInit ==
  /\ written = 0
  /\ received = {}
  /\ segments = [id \in {1} |-> <<>>]
  /\ snapshot = [last |-> 0, offset |-> 0, acked |-> {}, dead |-> {}]
  /\ up = TRUE
  /\ unopenable = FALSE
  /\ settings \in Settings
  /\ memory = Nothing
  /\ writer = [id |-> 1, frames |-> 0, next |-> 1, isolated |-> {}]
  /\ loop = AtStart
  /\ behind = {}
  /\ damaged = FALSE
  /\ stray = {}
  /\ mishaps = 0

-----------------------------------------------------------------------------
(* Frames, and what a store learns from them.                              *)

Frame(kind, events, upTo) ==
  [kind |-> kind, seq |-> writer.next, events |-> events, offset |-> upTo]

Torn == [kind |-> "torn", seq |-> 0, events |-> {}, offset |-> 0]

\* With nonce and tag, which only the reader counts, the payload is over the limit.
Overlong(f) == [f EXCEPT !.kind = "overlong"]

Unreadable(frames) ==
  {i \in DOMAIN frames : frames[i].kind \in {"torn", "overlong", "corrupt"}}

\* The frames a reader gets before the first that does not decode.
Readable(frames) ==
  IF Unreadable(frames) = {} THEN frames
  ELSE SubSeq(frames, 1, Min(Unreadable(frames)) - 1)

\* Mutant: a transaction is applied without looking at what is settled.
WithTxnAgain(m, events, upTo) ==
  [m EXCEPT !.queued = @ \union events, !.offset = upTo]

WithTxn(m, events, upTo) ==
  [m EXCEPT !.queued = @ \union (events \ (m.acked \union m.dead)),
            !.offset = upTo]

WithAck(m, events) ==
  [m EXCEPT !.queued = @ \ events, !.acked = @ \union events]

WithDead(m, events) ==
  [m EXCEPT !.queued = @ \ events, !.dead = @ \union events]

\* A checkpoint is taken from a frame newer than the snapshot, or when
\* there is none yet; events, acknowledgements and dead letters always are.
Decoded(m, f, last) ==
  CASE f.kind = "txn" ->
         WithTxn(m, f.events,
                 IF f.seq > last \/ m.offset = 0 THEN f.offset ELSE m.offset)
    [] f.kind = "ack" -> WithAck(m, f.events)
    [] f.kind = "dead" -> WithDead(m, f.events)

InOrder(ids) ==
  [i \in 1..Cardinality(ids) |->
     CHOOSE id \in ids : Cardinality({other \in ids : other < id}) = i - 1]

\* What opening the store reads in the first n of these segments, for each n.
LogUpTo(ids, segs) ==
  LET upTo[n \in 0..Len(ids)] ==
        IF n = 0 THEN <<>> ELSE upTo[n - 1] \o Readable(segs[ids[n]])
  IN upTo

ReadableLog(segs) ==
  LET ids == InOrder(DOMAIN segs) IN LogUpTo(ids, segs)[Len(ids)]

\* What the store knows after the first n frames of a log, for each n.
Replayed(log, snap) ==
  LET after[n \in 0..Len(log)] ==
        IF n = 0 THEN [offset |-> snap.offset, queued |-> {},
                       acked |-> snap.acked, dead |-> snap.dead]
        ELSE Decoded(after[n - 1], log[n], snap.last)
  IN after

Recovered(segs, snap) ==
  LET log == ReadableLog(segs) IN Replayed(log, snap)[Len(log)]

-----------------------------------------------------------------------------
(* Appending a frame.                                                      *)

NextId == Max(DOMAIN segments \union writer.isolated) + 1

Rotates == writer.frames >= RotateFrames
Target == IF Rotates THEN NextId ELSE writer.id
Held(id) == IF id \in DOMAIN segments THEN segments[id] ELSE <<>>

\* The segment file gets the frames `added`; `counted` says the append
\* succeeded, so that the writer counts it and the next sequence is taken.
WriteToSegment(added, counted) ==
  LET unread == \/ Unreadable(Held(Target)) # {}
                \/ \E i \in DOMAIN added : added[i].kind = "overlong"
      late == IF unread THEN added ELSE <<>>
  IN /\ segments' = [id \in DOMAIN segments \union {Target} |->
                       IF id = Target THEN Held(id) \o added ELSE segments[id]]
     /\ writer' = [writer EXCEPT
                     !.id = Target,
                     !.frames = (IF Rotates THEN 0 ELSE @) + (IF counted THEN 1 ELSE 0),
                     !.next = IF counted THEN @ + 1 ELSE @]
     /\ damaged' = (damaged \/ late # <<>>)
     /\ behind' = behind \union UNION {late[i].events : i \in
                                         {j \in DOMAIN late :
                                            late[j].kind \in {"txn", "overlong"}}}

SnapshotOf(m, last) ==
  [last |-> last, offset |-> m.offset, acked |-> m.acked, dead |-> m.dead]

Mishap == mishaps < MaxMishaps /\ mishaps' = mishaps + 1

\* Appended and synced, and memory follows.
AppendsAnd(f, after) ==
  /\ WriteToSegment(<<f>>, TRUE)
  /\ memory' = after
  /\ UNCHANGED <<up, stray>>

\* A snapshot may then be due.
Appended(f, after, mayBeDue) ==
  /\ AppendsAnd(f, after)
  /\ snapshot' \in {snapshot} \union
                    {s \in {SnapshotOf(after, writer.next)} : mayBeDue}
  /\ UNCHANGED mishaps

\* It is due and fails: an error, though the frame is appended.
AppendedWithoutSnapshot(f, after) ==
  /\ AppendsAnd(f, after)
  /\ Mishap
  /\ UNCHANGED snapshot

\* The write or its sync fails, or the process dies in it: nothing, a part
\* or the whole frame is in the file, and memory has not moved.
AppendGoesWrong(f) ==
  /\ Mishap
  /\ \E added \in {<<>>, <<Torn>>, <<f>>} :
       /\ WriteToSegment(added, FALSE)
       /\ \/ /\ UNCHANGED <<up, memory>>
             /\ stray' = stray \union (IF added = <<f>> THEN f.events ELSE {})
          \/ up' = FALSE /\ memory' = Nothing /\ UNCHANGED stray
  /\ UNCHANGED snapshot

-----------------------------------------------------------------------------
(* The source and the tick's first half: collect.                          *)

Grow ==
  /\ written < Length
  /\ written' = written + 1
  /\ UNCHANGED <<received, segments, snapshot, up, unopenable, settings, memory, writer,
                 loop, history, mishaps>>

\* The first record a poll reads again: the first tick of some adapters
\* starts over, and every other poll goes on at the checkpoint.
From == IF loop.fresh /\ settings.replays THEN 0 ELSE memory.offset

\* Where a poll stops: the end of the file, or the historical limit.
StopsAt ==
  IF loop.fresh /\ ~settings.replays THEN memory.offset..written ELSE {written}

\* Hard backpressure: nothing is read.  Dead letters count and are never dropped.
Full == \/ Cardinality(memory.queued) + Cardinality(memory.dead) >= settings.events
        \/ Cardinality(DOMAIN segments) >= settings.segments

ToFlush == loop' = [loop EXCEPT !.at = "flush", !.fresh = FALSE]

\* The transaction keeps only events the server has not acknowledged.
TxnOf(upTo) == Frame("txn", ((From + 1)..upTo) \ memory.acked, upTo)

TooLarge(f) == Cardinality(f.events) > settings.payload

Collect ==
  /\ up
  /\ loop.at = "collect"
  /\ ~Full
  /\ \E upTo \in StopsAt :
       /\ upTo > From \/ upTo # memory.offset
       /\ LET txn == TxnOf(upTo)
              f == IF TooLarge(txn) THEN Overlong(txn) ELSE txn
          IN \/ /\ Appended(f, WithTxn(memory, txn.events, upTo), TRUE)
                /\ ToFlush
             \/ /\ AppendGoesWrong(f)
                /\ IF up' THEN ToFlush ELSE loop' = AtStart
  /\ UNCHANGED <<written, received, unopenable, settings>>

\* Nothing is new, or nothing is read, or the transaction, already too large without
\* nonce and tag, is refused before anything is written.
CollectNothing ==
  /\ up
  /\ loop.at = "collect"
  /\ \/ Full
     \/ written = memory.offset /\ From = memory.offset
     \/ \E upTo \in StopsAt : TooLarge(TxnOf(upTo))
  /\ ToFlush
  /\ UNCHANGED <<written, received, segments, snapshot, up, unopenable, settings, memory,
                 writer, history, mishaps>>

-----------------------------------------------------------------------------
(* The tick's second half: flush, upload, settle, compact.                 *)

\* Mutant: events that do not fill a batch are not put into one.
FullBatchesOf(events) ==
  LET s == InOrder(events)
  IN [i \in 1..(Len(s) \div BatchEvents) |->
        {s[j] : j \in (BatchEvents * (i - 1) + 1)..(BatchEvents * i)}]

BatchesOf(events) ==
  LET s == InOrder(events)
      size == Len(s)
  IN [i \in 1..((size + BatchEvents - 1) \div BatchEvents) |->
        {s[j] : j \in (BatchEvents * (i - 1) + 1)..Min({BatchEvents * i, size})}]

EndTick == [loop EXCEPT !.at = "collect", !.batches = <<>>, !.ack = {}, !.dead = {}]

Flush ==
  /\ up
  /\ loop.at = "flush"
  /\ loop' = IF loop.paused \/ memory.queued = {} THEN EndTick
             ELSE [loop EXCEPT !.at = "upload", !.batches = BatchesOf(memory.queued)]
  /\ UNCHANGED <<written, received, segments, snapshot, up, unopenable, settings, memory,
                 writer, history, mishaps>>

Uploads == up /\ loop.at = "upload" /\ loop.batches # <<>>

\* The server answers: some events are accepted, some refused for good;
\* the ones it asks to send again stay queued until a later flush.
Answered(again) ==
  LET batch == Head(loop.batches)
  IN \E accepted \in SUBSET (batch \ again) :
       /\ received' = received \union accepted
       /\ loop' = [loop EXCEPT !.at = "settle", !.batches = Tail(@),
                               !.ack = accepted,
                               !.dead = (batch \ again) \ accepted]

Upload ==
  /\ Uploads
  /\ \/ Answered({}) /\ UNCHANGED mishaps
     \/ /\ mishaps < MaxMishaps
        /\ mishaps' = mishaps + 1
        /\ \E again \in SUBSET Head(loop.batches) \ {{}} : Answered(again)
  /\ UNCHANGED <<written, segments, snapshot, up, unopenable, settings, memory, writer,
                 history>>

Halves(batch) ==
  LET s == InOrder(batch)
  IN <<{s[i] : i \in 1..(Len(s) \div 2)}, {s[i] : i \in (Len(s) \div 2 + 1)..Len(s)}>>

\* HTTP 400: the batch is halved, down to one event, which is given up.
UploadRefused ==
  /\ Uploads
  /\ loop' = IF Cardinality(Head(loop.batches)) > 1
             THEN [loop EXCEPT !.batches = Halves(Head(@)) \o Tail(@)]
             ELSE [loop EXCEPT !.at = "settle", !.batches = Tail(@),
                               !.dead = Head(loop.batches)]
  /\ UNCHANGED <<written, received, segments, snapshot, up, unopenable, settings, memory,
                 writer, history, mishaps>>

\* No usable answer arrives, whatever the server took: the batch is sent
\* again, the flush is given up, or the credentials are refused and the
\* uploader pauses until the process restarts.
UploadFails ==
  /\ Uploads
  /\ mishaps < MaxMishaps
  /\ mishaps' = mishaps + 1
  /\ \/ /\ \E some \in SUBSET Head(loop.batches) : received' = received \union some
        /\ loop' \in {loop, EndTick}
     \/ loop' = [EndTick EXCEPT !.paused = TRUE] /\ UNCHANGED received
  /\ UNCHANGED <<written, segments, snapshot, up, unopenable, settings, memory, writer,
                 history>>

\* One frame for the acknowledged events, then one for each given up; an
\* error, of the snapshot too, ends the flush.
Settles(f, after, mayBeDue, settled) ==
  \/ /\ Appended(f, after, mayBeDue)
     /\ loop' = settled
  \/ /\ mayBeDue
     /\ AppendedWithoutSnapshot(f, after)
     /\ loop' = EndTick
  \/ /\ AppendGoesWrong(f)
     /\ loop' = IF up' THEN EndTick ELSE AtStart

Settle ==
  /\ up
  /\ loop.at = "settle"
  /\ \/ /\ loop.ack # {}
        /\ Settles(Frame("ack", loop.ack, 0), WithAck(memory, loop.ack), TRUE,
                   [loop EXCEPT !.ack = {}])
     \/ /\ loop.ack = {}
        /\ loop.dead # {}
        /\ LET e == Min(loop.dead)
           IN Settles(Frame("dead", {e}, 0), WithDead(memory, {e}), FALSE,
                      [loop EXCEPT !.dead = @ \ {e}])
  /\ UNCHANGED <<written, received, unopenable, settings>>

NextBatch ==
  /\ up
  /\ loop.at = "settle"
  /\ loop.ack = {}
  /\ loop.dead = {}
  /\ loop' = [loop EXCEPT !.at = IF loop.batches # <<>> THEN "upload" ELSE "compact"]
  /\ UNCHANGED <<written, received, segments, snapshot, up, unopenable, settings, memory,
                 writer, history, mishaps>>

\* Compaction first makes durable what it is about to drop the frames of.
Compact ==
  /\ up
  /\ loop.at = "compact"
  /\ snapshot' = SnapshotOf(memory, writer.next - 1)
  /\ loop' = [loop EXCEPT !.at = "sweep",
                          !.sweep = DOMAIN segments \ ({writer.id} \union writer.isolated)]
  /\ UNCHANGED <<written, received, segments, up, unopenable, settings, memory, writer,
                 history, mishaps>>

\* Mutant: a transaction goes with its first acknowledged event.
KeptWhole(f) == f.kind = "dead" \/ f.events \intersect memory.acked = {}

\* frames_to_keep: an acknowledgement or a transaction that still says
\* something about an event not acknowledged, and every dead letter.
Kept(f) == f.kind = "dead" \/ ~ (f.events \subseteq memory.acked)

\* The frames of a segment that compaction keeps.
Rest(id) ==
  LET frames == Readable(segments[id])
      kept == InOrder({i \in DOMAIN frames : Kept(frames[i])})
  IN [k \in DOMAIN kept |-> frames[kept[k]]]

Sweep ==
  /\ up
  /\ loop.at = "sweep"
  /\ loop.sweep # {}
  /\ LET id == Min(loop.sweep)
     IN /\ segments' =
             IF Rest(id) = <<>> THEN [i \in DOMAIN segments \ {id} |-> segments[i]]
             ELSE IF Rest(id) = Readable(segments[id]) THEN segments
             ELSE [segments EXCEPT ![id] = Rest(id)]
        /\ loop' = [loop EXCEPT !.sweep = @ \ {id}]
  /\ UNCHANGED <<written, received, snapshot, up, unopenable, settings, memory, writer,
                 history, mishaps>>

\* The frame a reader of the segment stops at is of this kind.
StopsAtKind(id, kind) ==
  /\ Unreadable(segments[id]) # {}
  /\ segments[id][Min(Unreadable(segments[id]))].kind = kind

TornInside(id) ==
  /\ StopsAtKind(id, "torn")
  /\ Min(Unreadable(segments[id])) < Len(segments[id])

\* An error ends compaction, and nobody looks at it: a file cannot be read or written,
\* or it holds a torn frame of the kind no store can be opened with.
CompactionFails ==
  /\ up
  /\ \/ loop.at \in {"compact", "sweep"} /\ Mishap
     \/ /\ loop.at = "sweep"
        /\ loop.sweep # {}
        /\ TornInside(Min(loop.sweep))
        /\ UNCHANGED mishaps
  /\ loop' = [EndTick EXCEPT !.sweep = {}]
  /\ UNCHANGED <<written, received, segments, snapshot, up, unopenable, settings, memory,
                 writer, history>>

Swept ==
  /\ up
  /\ loop.at = "sweep"
  /\ loop.sweep = {}
  /\ loop' = EndTick
  /\ UNCHANGED <<written, received, segments, snapshot, up, unopenable, settings, memory,
                 writer, history, mishaps>>

-----------------------------------------------------------------------------
(* Stopping and opening.                                                   *)

Crash ==
  /\ up
  /\ mishaps < MaxMishaps
  /\ mishaps' = mishaps + 1
  /\ up' = FALSE
  /\ memory' = Nothing
  /\ loop' = AtStart
  /\ UNCHANGED <<written, received, segments, snapshot, unopenable, settings, writer,
                 history>>

\* A torn frame at the end of a file is cut off.  With frames behind it,
\* what the torn bytes look like decides: they are cut off too, or the
\* segment is isolated and never written or compacted again, or the store
\* cannot be opened.  A frame that is too long isolates its segment.
Corrupt(id) == StopsAtKind(id, "corrupt")
TooLong(id) == StopsAtKind(id, "overlong")

MarkCorrupt(frames) ==
  [frames EXCEPT ![Min(Unreadable(frames))].kind = "corrupt"]

Repaired(isolated) ==
  [id \in DOMAIN segments |->
     IF Corrupt(id) THEN segments[id]
     ELSE IF id \in isolated THEN MarkCorrupt(segments[id])
     ELSE Readable(segments[id])]

LastSequence ==
  LET log == ReadableLog(segments)
  IN Max({snapshot.last} \union {log[i].seq : i \in DOMAIN log})

\* The last segment that is not isolated is written on; else a new one.
Reopened(isolated) ==
  LET healthy == DOMAIN segments \ isolated
  IN IF healthy # {} THEN Max(healthy) ELSE Max(DOMAIN segments \union {0}) + 1

Open ==
  /\ ~up
  /\ ~unopenable
  /\ up' = TRUE
  /\ memory' = Recovered(segments, snapshot)
  /\ \E newly \in SUBSET {id \in DOMAIN segments : TornInside(id)} :
       LET isolated == newly \union {id \in DOMAIN segments : Corrupt(id) \/ TooLong(id)}
           id == Reopened(isolated)
       IN /\ segments' = [i \in DOMAIN segments \union {id} |->
                            IF i \in DOMAIN segments THEN Repaired(isolated)[i] ELSE <<>>]
          /\ writer' = [id |-> id, frames |-> 0, next |-> LastSequence + 1,
                        isolated |-> isolated]
  /\ loop' = AtStart
  /\ UNCHANGED <<written, received, snapshot, unopenable, settings, history, mishaps>>

\* A frame torn before its flags, with another behind it, reads as one in plain text:
\* an error, at every start.
OpenFails ==
  /\ ~up
  /\ ~unopenable
  /\ \E id \in DOMAIN segments : TornInside(id)
  /\ unopenable' = TRUE
  /\ UNCHANGED <<written, received, segments, snapshot, up, settings, memory,
                 writer, loop, history, mishaps>>

-----------------------------------------------------------------------------

Tick ==
  \/ Collect \/ CollectNothing
  \/ Flush \/ Upload \/ UploadRefused \/ UploadFails
  \/ Settle \/ NextBatch
  \/ Compact \/ Sweep \/ CompactionFails \/ Swept

SpoolNext == Grow \/ Tick \/ Crash \/ Open \/ OpenFails

\* The service manager starts the process again and its timer keeps
\* ticking; nothing is assumed of the harness or of failures.
Fairness == WF_spoolVars(Tick) /\ WF_spoolVars(Open)

SpoolSpec == SpoolInit /\ [][SpoolNext]_spoolVars /\ Fairness

-----------------------------------------------------------------------------
(* Properties.                                                             *)

\* What the collector knows: while it is down, what opening will recover.
View == IF up THEN memory ELSE Recovered(segments, snapshot)

Frames == [kind : {"txn", "ack", "dead", "torn", "overlong", "corrupt"}, seq : Nat,
           events : SUBSET Records, offset : Records \union {0}]
Knowledge == [offset : Records \union {0}, queued : SUBSET Records,
              acked : SUBSET Records, dead : SUBSET Records]

SpoolTypeOK ==
  /\ written \in Records \union {0}
  /\ received \subseteq Records
  /\ \A id \in DOMAIN segments : id \in Nat /\ segments[id] \in Seq(Frames)
  /\ snapshot \in [last : Nat, offset : Records \union {0},
                   acked : SUBSET Records, dead : SUBSET Records]
  /\ memory \in Knowledge
  /\ loop.at \in {"collect", "flush", "settle", "upload", "compact", "sweep"}
  /\ behind \subseteq Records

\* Every record the checkpoint has passed waits for upload, was acknowledged
\* or was given up, and what counts as acknowledged is at the server: before
\* and after a restart, and whichever frames a snapshot let compaction drop
\* (append_txn, compact, frames_to_keep, replay_all).  Excepted are records
\* of frames that no replay reads: written behind a torn one, or too long.
NothingIsLost ==
  /\ SpoolTypeOK
  /\ 1..View.offset \subseteq View.queued \union View.acked \union View.dead \union behind
  /\ View.acked \subseteq received

Promise == INSTANCE Outbox WITH
  offset <- View.offset, queued <- View.queued, acked <- View.acked,
  dead <- View.dead, ahead <- stray

\* Until a frame is written that no replay reads, the spool is the outbox it
\* promises: no step, not a crash, a replay, a torn tail or a compaction cut
\* short, moves the checkpoint back, queues an event again that is settled,
\* or forgets an acknowledgement or a dead letter.
OutboxUntilDamaged == [][damaged' \/ Promise!Next]_(Promise!outbox)

\* The transaction of all that is unread does not fit a frame.
Overgrown == Cardinality(((View.offset + 1)..written) \ View.acked) > settings.payload

\* Nothing is read, and not because events wait to be uploaded.
Clogged == \/ Cardinality(View.dead) >= settings.events
           \/ Cardinality(DOMAIN segments) >= settings.segments

\* A record in the file reaches the server or is given up: failed uploads, lost
\* answers, restarts and a full queue only delay it.  Unless the uploader stays paused
\* for refused credentials (flush), a torn frame keeps the store from being opened
\* (read_frame), or the record stays unread for ever, in a backlog that does not fit a
\* frame (write_payload) or before a spool that is full of what settling and
\* compaction do not take away (backpressure).
EveryRecordIsDelivered ==
  \/ <>[](loop.paused)
  \/ <>[]unopenable
  \/ \A r \in Records :
       \/ <>[](r > View.offset /\ (Overgrown \/ Clogged))
       \/ r <= written ~> r \in received \union View.dead \union behind
=============================================================================
