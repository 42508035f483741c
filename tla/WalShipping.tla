---------------------------- MODULE WalShipping -----------------------------
(***************************************************************************)
(* How a forklift leader ships its SQLite WAL to the object store          *)
(* (objstore/metasync/walship.rs, with objstore/walfmt.rs).                *)
(*                                                                         *)
(* The leader uploads a base copy of the database file and, after it, the  *)
(* committed WAL frames as numbered segments; together they are a          *)
(* generation.  A segment says only how many frames of its generation come *)
(* before it, so frames that get into the file without having been read    *)
(* leave a gap that no reader can see.  Checkpoints, the restarts of the   *)
(* WAL they allow and the reading cursor are modelled frame by frame; what *)
(* a frame holds is not.                                                   *)
(*                                                                         *)
(* One process and one term.  Frames are numbered in commit order from the *)
(* start of the term.  The file holds frames 1 .. file; the WAL holds      *)
(* first .. end, those up to file backfilled.  The salts and offsets of    *)
(* the WAL are kept as far as they are compared: restarted is TRUE when    *)
(* its salts are not the cursor's any more.                                *)
(***************************************************************************)
EXTENDS Integers, FiniteSets

CONSTANTS
    SegmentFrames,   \* SEGMENT_FRAME_BYTES = CAPTURE_BYTES, in frames
    MaxSegments,     \* MAX_SEGMENTS, where a generation is replaced
    MaxPending,      \* MAX_PENDING_BYTES, in segments
    MaxRounds,       \* MAX_ROUNDS
    TruncateMayFail, \* whether the file system may refuse to truncate the WAL
    MaxFrames,       \* bound on the frames of the term, for model checking
    MaxGenerations   \* bound on its generations, for model checking

ASSUME LimitsAssumption ==
    /\ SegmentFrames \in Nat \ {0}
    /\ MaxSegments \in Nat \ {0}
    /\ MaxPending \in Nat \ {0}
    /\ MaxRounds \in Nat \ {0}
    /\ TruncateMayFail \in BOOLEAN
    /\ MaxFrames \in Nat
    /\ MaxGenerations \in Nat

VARIABLES
    end,          \* frames committed so far
    commits,      \* the frames that end a transaction
    file,         \* frames in the database file
    first,        \* first frame of the WAL; end + 1 when it is truncated
    restarted,    \* the WAL has other salts than the cursor
    gen,          \* Shipper.generation; id 0 is None
    cursor,       \* Shipper.cursor: the next frame to read; 0 is None
    restartOk,    \* Shipper.restart_ok
    pending,      \* Shipper.pending
    stored,       \* the segment objects in the bucket
    base,         \* the base object: generation (0 when none) and content
    content,      \* history: frames in the base of each generation
    cycle,        \* the ship call under way
    shipped       \* history: the last ship call and what had been committed
                  \* when it began

sqlite == <<end, commits, file, first>>
bucket == <<stored, base>>
reading == <<cursor, restarted, restartOk>>
vars == <<sqlite, gen, reading, pending, bucket, content, cycle, shipped>>

Generation == [id : Nat, base : {"none", "local", "published"},
               broken : BOOLEAN, nextSeq : Nat, read : Nat, segments : Nat]
NoGeneration == [id |-> 0, base |-> "none", broken |-> FALSE,
                 nextSeq |-> 0, read |-> 0, segments |-> 0]
Segment == [gen : Nat, seq : Nat, from : Nat, to : Nat]

Steps == {"idle", "capture", "start", "upload", "clean"}
Idle == [at |-> "idle", final |-> FALSE, round |-> 0, again |-> FALSE,
         whole |-> FALSE]

Init ==
    /\ end = 0 /\ commits = {} /\ file = 0 /\ first = 1
    /\ restarted = FALSE
    /\ gen = NoGeneration
    /\ cursor = 0
    /\ restartOk = FALSE
    /\ pending = {}
    /\ stored = {}
    /\ base = [gen |-> 0, content |-> 0]
    /\ content = [g \in 0 .. MaxGenerations |-> 0]
    /\ cycle = Idle
    /\ shipped = [result |-> "none", final |-> FALSE, upTo |-> 0]

-----------------------------------------------------------------------------
(* SQLite.                                                                 *)

\* A transaction of n frames commits, unless capture has the connection.
\* Once everything is backfilled and no reader needs the WAL, the writer
\* restarts it under new salts.
Commit(n) ==
    /\ end + n <= MaxFrames
    /\ end' = end + n
    /\ commits' = commits \cup {end + n}
    /\ \/ UNCHANGED <<first, restarted>>
       \/ /\ file = end /\ first <= end
          /\ first' = end + 1
          /\ restarted' = TRUE
    /\ UNCHANGED <<file, gen, cursor, restartOk, pending, bucket, content, cycle,
                   shipped>>

\* PRAGMA wal_checkpoint(TRUNCATE) completes: everything is in the file, the
\* WAL is empty, and capture forgets its cursor.
Truncated ==
    /\ file' = end
    /\ first' = end + 1
    /\ cursor' = 0
    /\ restarted' = FALSE
    /\ restartOk' = FALSE
    /\ UNCHANGED <<end, commits>>

\* It is busy: readers let it backfill some frames, perhaps all of them.
Busy ==
    /\ file' \in file .. end
    /\ UNCHANGED <<end, commits, first>>

-----------------------------------------------------------------------------
(* Shipper.                                                                *)

Usable(g) == g.id # 0 /\ ~g.broken

\* Mutant of RotationWanted: a broken generation is kept.
RotationUnlessBroken(final) ==
    \/ gen.id = 0
    \/ ~final /\ gen.base = "published" /\ gen.segments >= MaxSegments

\* Shipper::rotation_wanted; the byte limits have the shape of the count.
RotationWanted(final) ==
    \/ gen.id = 0
    \/ gen.broken
    \/ ~final /\ gen.base = "published" /\ gen.segments >= MaxSegments

MarkBroken(g) == IF g.id = 0 THEN g ELSE [g EXCEPT !.broken = TRUE]

OfGeneration(s, g) == {x \in s : x.gen = g}

GoTo(step) == cycle' = [cycle EXCEPT !.at = step] /\ UNCHANGED shipped

Return(result) == cycle' = Idle /\ shipped' = [shipped EXCEPT !.result = result]

-----------------------------------------------------------------------------
(* capture, on the write connection: it reads, and checkpoints.            *)

\* WalRead::Reset: the WAL does not continue the cursor.
CursorGone == cursor # 0 /\ restarted

\* A WAL restarted after it was read to its end is read from its start.
ReadFrom == IF cursor = 0 \/ CursorGone THEN first ELSE cursor

\* The last frame read: all there is, or a segment's worth.
ReadTo == IF end < ReadFrom + SegmentFrames THEN end ELSE ReadFrom + SegmentFrames - 1

Reset == CursorGone /\ ~restartOk
Drained == ReadTo = end
Progressed == ReadFrom <= ReadTo

\* The cursor after reading; an empty WAL file has none.
Advance ==
    /\ cursor' = IF first > end THEN 0 ELSE ReadTo + 1
    /\ restarted' = FALSE

\* restart_ok, after reading and perhaps a checkpoint that was busy.
RestartAllowed(attempted) ==
    \/ attempted /\ Drained
    \/ restartOk /\ ~CursorGone /\ ~Progressed

\* Mutant of Queue: a full queue skips the segment and the generation goes on.
QueueSkips(g, from, to) ==
    IF from > to \/ ~Usable(g) \/ Cardinality(pending) >= MaxPending
    THEN gen' = g /\ UNCHANGED pending
    ELSE /\ gen' = [g EXCEPT !.nextSeq = @ + 1, !.read = to]
         /\ pending' = pending \cup
                {[gen |-> g.id, seq |-> g.nextSeq, from |-> from, to |-> to]}

\* queue_segments: frames from .. to become the next segment of g.
Queue(g, from, to) ==
    LET seg == [gen |-> g.id, seq |-> g.nextSeq, from |-> from, to |-> to]
        counted == [g EXCEPT !.nextSeq = @ + 1, !.read = to]
    IN  \/ /\ from > to \/ ~Usable(g)
           /\ gen' = g
           /\ UNCHANGED pending
        \/ /\ from <= to /\ Usable(g)
           /\ Cardinality(pending) < MaxPending
           /\ gen' = counted
           /\ pending' = pending \cup {seg}
        \/ /\ from <= to /\ Usable(g)
           /\ Cardinality(pending) >= MaxPending
           /\ gen' = MarkBroken(counted)
           /\ pending' = pending \ OfGeneration(pending, g.id)
        \/ /\ from <= to /\ Usable(g)       \* it could not be encoded
           /\ gen' = MarkBroken(g)
           /\ UNCHANGED pending

\* What ship does next: whole says that every committed frame was read or is
\* in the file a new generation is made from.
Proceed(rotated, whole, stuck) ==
    cycle' = [cycle EXCEPT !.at = IF rotated THEN "start" ELSE "upload",
                           !.again = ~whole /\ ~stuck /\ cycle.round + 1 < MaxRounds,
                           !.whole = whole,
                           !.round = @ + 1]

\* No usable generation: only checkpoint.
CaptureNothing ==
    /\ ~Usable(gen)
    /\ \/ RotationWanted(cycle.final) /\ Truncated /\ Proceed(TRUE, TRUE, FALSE)
       \/ Busy /\ UNCHANGED reading /\ Proceed(FALSE, FALSE, TRUE)
    /\ UNCHANGED <<gen, pending>>

\* The WAL was restarted under an unread tail: the generation is abandoned.
\* A rotation that was due is attempted all the same.
CaptureReset ==
    /\ Usable(gen) /\ Reset
    /\ gen' = MarkBroken(gen)
    /\ \/ /\ RotationWanted(cycle.final)
          /\ Truncated
          /\ Proceed(TRUE, TRUE, FALSE)
       \/ /\ IF RotationWanted(cycle.final) THEN Busy ELSE UNCHANGED sqlite
          /\ cursor' = 0 /\ restarted' = FALSE /\ restartOk' = FALSE
          /\ Proceed(FALSE, FALSE, FALSE)
    /\ UNCHANGED pending

\* A truncation with frames still unread leaves a gap in the generation.
Truncating == IF Drained THEN gen ELSE MarkBroken(gen)

\* Read up to a segment of frames; checkpoint when a rotation is due, or when
\* everything is read and the WAL is large.
CaptureFrames ==
    /\ Usable(gen) /\ ~Reset
    /\ LET rotate == RotationWanted(cycle.final)
           checkpoint == rotate \/ (Drained /\ first <= end)
       IN  \/ /\ checkpoint /\ Truncated
              /\ Queue(Truncating, ReadFrom, ReadTo)
              /\ Proceed(rotate, TRUE, FALSE)
           \/ /\ checkpoint /\ Busy
              /\ Advance
              /\ restartOk' = RestartAllowed(TRUE)
              /\ Queue(gen, ReadFrom, ReadTo)
              /\ Proceed(FALSE, Drained, ~Progressed)
           \/ /\ ~rotate /\ UNCHANGED sqlite
              /\ Advance
              /\ restartOk' = RestartAllowed(FALSE)
              /\ Queue(gen, ReadFrom, ReadTo)
              /\ Proceed(FALSE, Drained, ~Progressed)

Capture ==
    /\ cycle.at = "capture"
    /\ CaptureNothing \/ CaptureReset \/ CaptureFrames
    /\ UNCHANGED <<bucket, content, shipped>>

\* capture fails on reading the WAL or on the checkpoint: what it read is
\* dropped, and the shipper's state is as before.  A checkpoint that copied
\* everything may still fail, on truncating the WAL.
CaptureFails ==
    /\ cycle.at = "capture"
    /\ \/ UNCHANGED file
       \/ TruncateMayFail /\ file' = end
    /\ Return("error")
    /\ UNCHANGED <<end, commits, first, gen, reading, pending, bucket, content>>

-----------------------------------------------------------------------------
(* ship, from one await to the next.                                       *)

\* A cycle of the sync loop, or the final flush of demote and final_sync.
BeginShip(final) ==
    /\ cycle.at = "idle"
    /\ cycle' = [Idle EXCEPT !.at = "capture", !.final = final]
    /\ shipped' = [result |-> "running", final |-> final, upTo |-> end]
    /\ UNCHANGED <<sqlite, gen, reading, pending, bucket, content>>

\* start_generation copies the file that the checkpoint has just completed;
\* commits go to the WAL meanwhile.
StartGeneration ==
    /\ cycle.at = "start"
    /\ gen.id < MaxGenerations
    /\ gen' = [NoGeneration EXCEPT !.id = gen.id + 1, !.base = "local",
                                   !.read = file]
    /\ content' = [content EXCEPT ![gen.id + 1] = file]
    /\ GoTo("upload")
    /\ UNCHANGED <<sqlite, reading, pending, bucket>>

\* The copy fails and the old generation is abandoned, or there is no
\* directory to copy to and it is kept.
StartGenerationFails ==
    /\ cycle.at = "start"
    /\ gen' \in {gen, MarkBroken(gen)}
    /\ Return("error")
    /\ UNCHANGED <<sqlite, reading, pending, bucket, content>>

\* The segment upload_pending takes next: the lowest of the oldest generation.
Front(x) ==
    /\ x \in pending
    /\ \A y \in pending : x.gen < y.gen \/ (x.gen = y.gen /\ x.seq <= y.seq)

Superseded(x) == x.gen # gen.id /\ gen.base = "published"

Pop(x) ==
    /\ pending' = pending \ {x}
    /\ gen' = IF x.gen = gen.id THEN [gen EXCEPT !.segments = @ + 1] ELSE gen

\* PUT with If-None-Match.  A 412 for the same bytes is a success too: an
\* earlier attempt landed and its response was lost.  A superseded segment is
\* dropped instead; as pending is empty when a base is published, and what is
\* queued later is of the generation of that base, none ever is.
PutSegment ==
    /\ cycle.at = "upload"
    /\ \E x \in pending :
          /\ Front(x)
          /\ stored' = IF Superseded(x) THEN stored ELSE stored \cup {x}
          /\ Pop(x)
    /\ UNCHANGED <<sqlite, reading, base, content, cycle, shipped>>

\* Mutant of PutSegmentFails: a failed upload is not retried.
PutSegmentForgets ==
    /\ cycle.at = "upload"
    /\ \E x \in pending :
          /\ Front(x) /\ ~Superseded(x)
          /\ pending' = pending \ {x}
    /\ UNCHANGED <<sqlite, gen, reading, bucket, content, cycle, shipped>>

\* The PUT fails, or its response is lost: the cycle ends, the segment stays.
PutSegmentFails ==
    /\ cycle.at = "upload"
    /\ \E x \in pending :
          /\ Front(x) /\ ~Superseded(x)
          /\ stored' \in {stored, stored \cup {x}}
    /\ Return("error")
    /\ UNCHANGED <<sqlite, gen, reading, pending, base, content>>

\* The object is there, and same_object could not read it: it counts as
\* another writer's.
PutSegmentConflict ==
    /\ cycle.at = "upload"
    /\ \E x \in pending :
          /\ Front(x) /\ ~Superseded(x)
          /\ x \in stored
          /\ gen' = IF x.gen = gen.id THEN MarkBroken(gen) ELSE gen
          /\ pending' = pending \ OfGeneration(pending, x.gen)
    /\ Return("error")
    /\ UNCHANGED <<sqlite, reading, bucket, content>>

\* The end of a round: ship goes round again or returns.
EndRound ==
    \/ cycle.again /\ GoTo("capture")
    \/ ~cycle.again /\ Return(IF cycle.whole THEN "whole" ELSE "part")

\* Everything is uploaded and there is no base to publish.
NothingToPublish ==
    /\ cycle.at = "upload" /\ pending = {}
    /\ gen.base # "local"
    /\ EndRound
    /\ UNCHANGED <<sqlite, gen, reading, pending, bucket, content>>

\* put_fenced succeeds; who may publish is MetaSync's concern.
PublishBase ==
    /\ cycle.at = "upload" /\ pending = {}
    /\ gen.base = "local"
    /\ base' = [gen |-> gen.id, content |-> content[gen.id]]
    /\ gen' = [gen EXCEPT !.base = "published"]
    /\ GoTo("clean")
    /\ UNCHANGED <<sqlite, reading, pending, stored, content>>

\* It fails, or its response is lost.
PublishFails ==
    /\ cycle.at = "upload" /\ pending = {}
    /\ gen.base = "local"
    /\ base' \in {base, [gen |-> gen.id, content |-> content[gen.id]]}
    /\ Return("error")
    /\ UNCHANGED <<sqlite, gen, reading, pending, stored, content>>

\* Mutant of Stale: nothing is kept, as after a snapshot upload.
StaleAll(x) == TRUE

\* What delete_generations_except deletes, one object after the other.
Stale(x) == x.gen # gen.id

DeleteStale ==
    /\ cycle.at = "clean"
    /\ \E x \in stored : Stale(x) /\ stored' = stored \ {x}
    /\ UNCHANGED <<sqlite, gen, reading, pending, base, content, cycle, shipped>>

\* Nothing is left to delete, or a request failed.
EndClean ==
    /\ cycle.at = "clean"
    /\ EndRound
    /\ UNCHANGED <<sqlite, gen, reading, pending, bucket, content>>

-----------------------------------------------------------------------------
ShipStep ==
    \/ Capture \/ CaptureFails
    \/ StartGeneration \/ StartGenerationFails
    \/ PutSegment \/ PutSegmentFails \/ PutSegmentConflict
    \/ NothingToPublish \/ PublishBase \/ PublishFails
    \/ DeleteStale \/ EndClean

Next ==
    \/ \E n \in 1 .. MaxFrames : Commit(n)
    \/ \E final \in BOOLEAN : BeginShip(final)
    \/ ShipStep

Spec == Init /\ [][Next]_vars

\* The sync loop goes on, and what it retries is not refused for ever: neither
\* the checkpoint by readers, nor the copy by the disk, nor the PUTs by the
\* bucket.
FairSpec ==
    /\ Spec
    /\ WF_vars(BeginShip(FALSE))
    /\ WF_vars(ShipStep)
    /\ SF_vars(Capture)
    /\ SF_vars(Capture /\ cycle'.at = "start")
    /\ SF_vars(StartGeneration)
    /\ SF_vars(PutSegment)
    /\ SF_vars(PublishBase)

-----------------------------------------------------------------------------
(* Properties.                                                             *)

TypeOK ==
    /\ end \in Nat /\ file \in Nat /\ first \in Nat
    /\ commits \subseteq Nat
    /\ restarted \in BOOLEAN /\ restartOk \in BOOLEAN
    /\ cursor \in Nat
    /\ gen \in Generation
    /\ pending \subseteq Segment /\ stored \subseteq Segment
    /\ base \in [gen : Nat, content : Nat]
    /\ content \in [0 .. MaxGenerations -> Nat]
    /\ cycle \in [at : Steps, final : BOOLEAN, round : Nat, again : BOOLEAN,
                  whole : BOOLEAN]
    /\ shipped \in [result : {"none", "running", "whole", "part", "error"},
                    final : BOOLEAN, upTo : Nat]

\* Every variable has its type, and the segments of a generation, those in the
\* bucket and those still to be uploaded, continue its base and one another
\* frame by frame: replaying a prefix of them never skips a frame, whatever
\* was checkpointed, restarted or truncated meanwhile.
NoHiddenGap ==
    LET known == pending \cup stored
    IN  TypeOK /\ \A x \in known :
          /\ x.from <= x.to
          /\ x.seq = 0 => x.from = content[x.gen] + 1
          /\ \A y \in known :
                x.gen = y.gen /\ y.seq = x.seq + 1 => y.from = x.to + 1

\* As long as a generation takes segments, the next frame capture will read is
\* the one that follows what the generation has, or capture will notice that
\* it cannot be read any more.
CursorContinues ==
    Usable(gen) /\ ~Reset => ReadFrom = gen.read + 1

\* The segments of the base's generation that a reader can apply: numbered
\* from 0 without a hole.
Contiguous ==
    LET own == OfGeneration(stored, base.gen)
    IN  {x \in own : \A n \in 0 .. x.seq : \E y \in own : y.seq = n}

\* Where a restore ends: a segment that ends inside a transaction waits for
\* the one that ends it.
Restored ==
    LET ends == {base.content} \cup {x.to : x \in {y \in Contiguous : y.to \in commits}}
    IN  CHOOSE n \in ends : \A k \in ends : k <= n

\* A ship call that read everything and returned without an error has made
\* everything durable that was committed before it, unless it had to abandon
\* the generation it was writing.
WholeCycleIsDurable ==
    shipped.result = "whole" /\ ~gen.broken => Restored >= shipped.upTo

\* What a restore gives is a whole number of transactions and never goes back, at
\* no point of an upload, a rotation or a cleanup: base, segments and replay rules
\* together implement the log a reader relies on.
Log == INSTANCE DurableLog WITH commits <- commits, durable <- Restored
ImplementsLog == Log!Spec

\* Whatever is committed reaches the bucket in the end.
EverythingIsShipped ==
    \A n \in 1 .. MaxFrames : (n \in commits) ~> (Restored >= n)

\* "a final flush leaves nothing behind" (MAX_ROUNDS): a final flush that
\* returns without an error has made everything durable.
FinalFlushLeavesNothing ==
    shipped.final /\ shipped.result \in {"whole", "part"}
        => Restored >= shipped.upTo

=============================================================================
