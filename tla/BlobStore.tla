----------------------------- MODULE BlobStore ------------------------------
(***************************************************************************)
(* forklift's content-addressed blob store, the reference counts its       *)
(* metadata database keeps about it, and the sweeper that reclaims bytes   *)
(* nobody refers to any more (meta/artifact.rs, meta/blob.rs,              *)
(* meta/publication.rs, repo.rs, repo/sweeper.rs).                         *)
(*                                                                         *)
(* Bytes are deleted for good while the database is only replicated now    *)
(* and then: another leader starts from the last durable copy and finds    *)
(* artifacts that were deleted since.  The grace period is what stands     *)
(* between the two.                                                        *)
(*                                                                         *)
(* Times are kept as ages.  A tick of the clock makes everything one       *)
(* older, up to an age past which nothing tells two ages apart.            *)
(***************************************************************************)
EXTENDS Integers, FiniteSets

CONSTANTS
    Blobs,         \* the digests there are
    Repos,         \* the repositories
    Paths,         \* the paths an artifact may have in a repository
    Requests,      \* the requests that run at a time
    None,          \* no digest, no row, no artifact, no plan
    Grace,         \* BLOB_GC_GRACE, in ticks
    MaxLag,        \* how old the durable copy of the database gets
    PlanLife,      \* how long a retained conflict plan can be confirmed
    MaxSweep,      \* how long a sweep takes from its cutoff to its last digest
    SweepBatch,    \* the digests one sweep asks for (256 in the code)
    MaxLeak        \* bound: references to a blob that outlive their artifacts

\* config.rs refuses a sync interval that is not shorter than the grace; a
\* plan is good for 30 minutes, the grace is a day.
ASSUME BlobAssumption ==
    /\ None \notin Blobs
    /\ IsFiniteSet(Repos) /\ IsFiniteSet(Paths)
    /\ {Grace, MaxLag, PlanLife, MaxSweep, SweepBatch, MaxLeak} \subseteq Nat
    /\ MaxLag < Grace /\ PlanLife < Grace /\ SweepBatch > 0

VARIABLES
    db,        \* the leader's database
    durable,   \* its last copy that another leader would start from
    copyAge,   \* how old that copy is
    bytes,     \* the digests whose bytes the store holds
    req,       \* the requests that are running
    sweep,     \* the sweeper
    late,      \* the digests that sweeps of deposed leaders are yet to delete
    exposed    \* history: the digests whose bytes neither guard nor grace keeps

vars == <<db, durable, copyAge, bytes, req, sweep, late, exposed>>

Slots == Repos \X Paths
RepoOf(s) == s[1]

MaxAge == Grace + MaxSweep
Older(age) == IF age < MaxAge THEN age + 1 ELSE age

\* A row of blobs: ref_count, and the age of unreferenced_since (None: NULL).
\* created_at is left out: a row's unreferenced_since is never before it.
Row == [refs: 0..(Cardinality(Slots) + MaxLeak), free: (0..MaxAge) \cup {None}]

\* An upload request in state conflict with the replacement it retains.
\* covered is history: the grace of the staged blob's row outlasted the plan.
Plan == [slot: Slots, blob: Blobs, age: 0..PlanLife, covered: BOOLEAN]

Database == [rows: [Blobs -> Row \cup {None}],
             arts: [Slots -> Blobs \cup {None}],
             plan: Plan \cup {None}]

\* Where a request puts its bytes matters only when it records them.
Request == [pc: {"locked", "stored", "leased", "mounting"}, blob: Blobs \cup {None}]

\* None is told apart from everything it stands beside.
ASSUME NoneAssumption ==
    None \notin (0..MaxAge) \cup Row \cup Plan \cup Request

TypeOK ==
    /\ db \in Database /\ durable \in Database
    /\ copyAge \in 0..MaxLag
    /\ bytes \subseteq Blobs
    /\ req \in [Requests -> Request \cup {None}]
    /\ sweep \in [pc: {"idle", "listed", "waiting", "deleting"},
                  todo: SUBSET Blobs, blob: Blobs \cup {None}, age: 0..MaxSweep]
    /\ late \subseteq Blobs /\ exposed \subseteq Blobs

NoRequest == None
Idle == [pc |-> "idle", todo |-> {}, blob |-> None, age |-> 0]

Init ==
    /\ db = [rows |-> [b \in Blobs |-> None], arts |-> [s \in Slots |-> None], plan |-> None]
    /\ durable = db
    /\ copyAge = 0
    /\ bytes = {}
    /\ req = [q \in Requests |-> NoRequest]
    /\ sweep = Idle
    /\ late = {} /\ exposed = {}

-----------------------------------------------------------------------------
(* The statements the transactions are made of. *)

\* Mutant of EnsureBlob: the row is written over.
EnsureBlobAgain(rows, b) == [rows EXCEPT ![b] = [refs |-> 0, free |-> 0]]

\* INSERT INTO blobs ... ON CONFLICT DO NOTHING: a row that is there keeps
\* its count and its stamp.
EnsureBlob(rows, b) ==
    IF rows[b] = None THEN [rows EXCEPT ![b] = [refs |-> 0, free |-> 0]] ELSE rows

\* The stamp beside a count: kept if there is one, now if there is none.
Stamp(row, refs) == IF refs > 0 THEN None
                    ELSE IF row.free = None THEN 0 ELSE row.free

\* ADJUST_REF_SQL with +1 and with -1; no row, nothing adjusted.
AddRef(rows, b) ==
    IF rows[b] = None THEN rows
    ELSE [rows EXCEPT ![b] = [refs |-> @.refs + 1, free |-> Stamp(@, @.refs + 1)]]

DropRef(rows, b) ==
    IF rows[b] = None THEN rows
    ELSE [rows EXCEPT ![b] = [refs |-> @.refs - 1, free |-> Stamp(@, @.refs - 1)]]

\* put_artifact and put_batch_artifact: the artifact now at s is b; the
\* reference moves only if the digest changes.
PutAt(d, s, b) ==
    LET old == d.arts[s]
        rows == EnsureBlob(d.rows, b)
        moved == CASE old = None -> AddRef(rows, b)
                   [] old \in Blobs \ {b} -> DropRef(AddRef(rows, b), old)
                   [] OTHER -> rows
    IN  [d EXCEPT !.rows = moved, !.arts[s] = b]

IsFree(row) == row # None /\ row.refs <= 0 /\ row.free # None

\* The artifacts that are this blob, and those of them in a repository.
Holders(d, b) == {s \in Slots : d.arts[s] = b}
SlotsOf(d, r, b) == {s \in Holders(d, b) : RepoOf(s) = r}

-----------------------------------------------------------------------------
(* Requests that bring bytes: the read guard of gc_mu is held from before  *)
(* the bytes are stored until the reference to them is.  The lock is fair: *)
(* a waiting writer keeps new readers out.                                 *)

Readers == {q \in Requests : req[q] # NoRequest /\ req[q].pc \in {"locked", "stored", "leased"}}

\* Mutant of ReadLock: the guard does not wait for the sweeper.
ReadLockUnguarded(q) ==
    /\ req[q] = NoRequest
    /\ req' = [req EXCEPT ![q] = [pc |-> "locked", blob |-> None]]
    /\ UNCHANGED <<db, durable, copyAge, bytes, sweep, late, exposed>>

ReadLock(q) ==
    /\ req[q] = NoRequest
    /\ sweep.pc \notin {"waiting", "deleting"}
    /\ req' = [req EXCEPT ![q] = [pc |-> "locked", blob |-> None]]
    /\ UNCHANGED <<db, durable, copyAge, bytes, sweep, late, exposed>>

\* BlobStore::put skips the write when the object is there.  The guard is of
\* this process: a deposed leader's sweep knows nothing of it.
StoreBytes(q, b) ==
    /\ req[q] # NoRequest /\ req[q].pc = "locked"
    /\ bytes' = bytes \cup {b}
    /\ req' = [req EXCEPT ![q] = [pc |-> "stored", blob |-> b]]
    /\ exposed' = IF b \in late THEN exposed \cup {b} ELSE exposed \ {b}
    /\ UNCHANGED <<db, durable, copyAge, sweep, late>>

Done(q) == req' = [req EXCEPT ![q] = NoRequest]

StoreFails(q) ==
    /\ req[q] # NoRequest /\ req[q].pc = "locked"
    /\ Done(q)
    /\ UNCHANGED <<db, durable, copyAge, bytes, sweep, late, exposed>>

Stored(q) == req[q] # NoRequest /\ req[q].pc = "stored"
Leased(q) == req[q] # NoRequest /\ req[q].pc = "leased"

\* store_artifact, record_upload, apply_artifact_batch.
RecordArtifact(q, s) ==
    /\ Stored(q)
    /\ db' = PutAt(db, s, req[q].blob)
    /\ Done(q)
    /\ UNCHANGED <<durable, copyAge, bytes, sweep, late, exposed>>

\* A publication owns the path, or the database fails: the transaction is
\* rolled back and the bytes stay without a record.
RecordRefused(q) ==
    /\ Stored(q) \/ Leased(q)
    /\ Done(q)
    /\ UNCHANGED <<db, durable, copyAge, bytes, sweep, late, exposed>>

\* The upload is refused after its bytes arrived: abandon_blob.
AbandonBlob(q) ==
    /\ Stored(q)
    /\ db' = [db EXCEPT !.rows = EnsureBlob(db.rows, req[q].blob)]
    /\ Done(q)
    /\ UNCHANGED <<durable, copyAge, bytes, sweep, late, exposed>>

\* The publication is there with other bytes: lease_upload_blob gives the
\* staged blob a row, and leaves the stamp of one that is there ...
LeaseBlob(q) ==
    /\ Stored(q)
    /\ \E s \in Slots : db.arts[s] \in Blobs \ {req[q].blob}
    /\ db' = [db EXCEPT !.rows = EnsureBlob(db.rows, req[q].blob)]
    /\ req' = [req EXCEPT ![q].pc = "leased"]
    /\ UNCHANGED <<durable, copyAge, bytes, sweep, late, exposed>>

\* A row that is free stays beyond the life of the plan that stages it.
OutlivesPlan(b) ==
    IsFree(db.rows[b]) => db.rows[b].free + PlanLife < Grace

\* ... and another transaction keeps the plan for the user to confirm.
RetainConflict(q, s) ==
    /\ Leased(q)
    /\ db.plan = None
    /\ db' = [db EXCEPT !.plan = [slot |-> s, blob |-> req[q].blob, age |-> 0,
                                  covered |-> OutlivesPlan(req[q].blob)]]
    /\ Done(q)
    /\ UNCHANGED <<durable, copyAge, bytes, sweep, late, exposed>>

-----------------------------------------------------------------------------
(* Requests that bring no bytes, and take no guard. *)

Actionable(p) == p # None /\ p.age < PlanLife

\* The digests whose bytes somebody is about to delete.
Victims == late \cup {b \in Blobs : sweep.pc = "deleting" /\ sweep.blob = b}

\* A plan that the grace does not cover, and whose bytes are gone or going.
Unkept(p) == ~p.covered /\ p.blob \notin bytes \ Victims

\* commit_maven_conflict: the publication must still own the path.  Nobody
\* looks whether the staged bytes are there.
CommitConflict ==
    /\ Actionable(db.plan)
    /\ db.arts[db.plan.slot] # None
    /\ db' = [PutAt(db, db.plan.slot, db.plan.blob) EXCEPT !.plan = None]
    /\ exposed' = IF Unkept(db.plan) THEN exposed \cup {db.plan.blob} ELSE exposed
    /\ UNCHANGED <<durable, copyAge, bytes, req, sweep, late>>

\* cancel_upload_conflict.
CancelConflict ==
    /\ db.plan # None
    /\ db' = [db EXCEPT !.plan = None]
    /\ UNCHANGED <<durable, copyAge, bytes, req, sweep, late, exposed>>

\* oci_open_upload with ?mount=: the digest is read from one path ...
Mount(q, from) ==
    /\ req[q] = NoRequest
    /\ db.arts[from] # None
    /\ req' = [req EXCEPT ![q] = [pc |-> "mounting", blob |-> db.arts[from]]]
    /\ UNCHANGED <<db, durable, copyAge, bytes, sweep, late, exposed>>

\* ... and recorded at another.
RecordMount(q, s) ==
    /\ req[q] # NoRequest /\ req[q].pc = "mounting"
    /\ db' = PutAt(db, s, req[q].blob)
    /\ Done(q)
    /\ UNCHANGED <<durable, copyAge, bytes, sweep, late, exposed>>

\* delete_artifact, for users, evict_lru, the reaper and the OCI prune, and
\* delete_owned_artifact of a publication's paths.
DeleteArtifact(s) ==
    /\ db.arts[s] # None
    /\ db' = [db EXCEPT !.rows = DropRef(db.rows, db.arts[s]), !.arts[s] = None]
    /\ UNCHANGED <<durable, copyAge, bytes, req, sweep, late, exposed>>

\* purge_artifacts subtracts what the repository holds of each blob.
PurgedRefs(b, r) == Cardinality(SlotsOf(db, r, b))

\* The stamp purge_artifacts and delete_repository write: not cleared.
Unpin(row, n) == [refs |-> row.refs - n,
                  free |-> IF row.refs - n <= 0 /\ row.free = None THEN 0 ELSE row.free]

PurgeArtifacts(r) ==
    /\ \E s \in Slots : RepoOf(s) = r /\ db.arts[s] # None
    /\ db' = [db EXCEPT
                !.rows = [b \in Blobs |-> IF SlotsOf(db, r, b) = {} \/ @[b] = None THEN @[b]
                                          ELSE Unpin(@[b], PurgedRefs(b, r))],
                !.arts = [s \in Slots |-> IF RepoOf(s) = r THEN None ELSE @[s]]]
    /\ UNCHANGED <<durable, copyAge, bytes, req, sweep, late, exposed>>

\* delete_repository subtracts one, however many artifacts share the blob;
\* artifacts and upload requests go with the repository.
DeleteRepository(r) ==
    /\ \A b \in Blobs : SlotsOf(db, r, b) # {}
                        => db.rows[b].refs - 1 <= MaxLeak + Cardinality(Holders(db, b) \ SlotsOf(db, r, b))
    /\ \E s \in Slots : RepoOf(s) = r /\ db.arts[s] # None
    /\ db' = [db EXCEPT
                !.rows = [b \in Blobs |-> IF SlotsOf(db, r, b) = {} \/ @[b] = None THEN @[b]
                                          ELSE Unpin(@[b], 1)],
                !.arts = [s \in Slots |-> IF RepoOf(s) = r THEN None ELSE @[s]],
                !.plan = IF @ # None /\ RepoOf(@.slot) = r THEN None ELSE @]
    /\ UNCHANGED <<durable, copyAge, bytes, req, sweep, late, exposed>>

-----------------------------------------------------------------------------
(* The sweeper. *)

\* Mutant of Reclaimable: no grace.
ReclaimableAtOnce(row, age) == IsFree(row)

\* Free since before the cutoff of a sweep that began age ticks ago.
Reclaimable(row, age) == IsFree(row) /\ row.free >= Grace + age

\* sweep_once: list_unreferenced_blobs.
ListUnreferenced(todo) ==
    /\ sweep.pc = "idle"
    /\ todo # {} /\ Cardinality(todo) <= SweepBatch
    /\ \A b \in todo : Reclaimable(db.rows[b], 0)
    /\ Cardinality(todo) < SweepBatch
           => \A b \in Blobs \ todo : ~Reclaimable(db.rows[b], 0)
    /\ sweep' = [pc |-> "listed", todo |-> todo, blob |-> None, age |-> 0]
    /\ UNCHANGED <<db, durable, copyAge, bytes, req, late, exposed>>

\* reclaim_blob asks for the write guard ...
WriteLock(b) ==
    /\ sweep.pc = "listed"
    /\ b \in sweep.todo
    /\ sweep' = [sweep EXCEPT !.pc = "waiting", !.todo = @ \ {b}, !.blob = b]
    /\ UNCHANGED <<db, durable, copyAge, bytes, req, late, exposed>>

NextDigest == IF sweep.todo = {} THEN Idle
              ELSE [sweep EXCEPT !.pc = "listed", !.blob = None]

\* Mutant of DeleteBlobRecord: the grace is not looked at again.
DeleteFreeRecord ==
    /\ sweep.pc = "waiting"
    /\ Readers = {}
    /\ IF IsFree(db.rows[sweep.blob])
       THEN /\ db' = [db EXCEPT !.rows[sweep.blob] = None]
            /\ sweep' = [sweep EXCEPT !.pc = "deleting"]
       ELSE /\ sweep' = NextDigest
            /\ UNCHANGED db
    /\ UNCHANGED <<durable, copyAge, bytes, req, late, exposed>>

\* ... and with it deletes the record, under the conditions it was listed by.
DeleteBlobRecord ==
    /\ sweep.pc = "waiting"
    /\ Readers = {}
    /\ IF Reclaimable(db.rows[sweep.blob], sweep.age)
       THEN /\ db' = [db EXCEPT !.rows[sweep.blob] = None]
            /\ sweep' = [sweep EXCEPT !.pc = "deleting"]
       ELSE /\ sweep' = NextDigest
            /\ UNCHANGED db
    /\ UNCHANGED <<durable, copyAge, bytes, req, late, exposed>>

DeleteBytes ==
    /\ sweep.pc = "deleting"
    /\ bytes' = bytes \ {sweep.blob}
    /\ sweep' = NextDigest
    /\ UNCHANGED <<db, durable, copyAge, req, late, exposed>>

\* The store refuses: the record is gone and the bytes stay.
DeleteBytesFails ==
    /\ sweep.pc = "deleting"
    /\ sweep' = NextDigest
    /\ UNCHANGED <<db, durable, copyAge, bytes, req, late, exposed>>

-----------------------------------------------------------------------------
(* Time, replication and failover. *)

AgedRow(row) == IF IsFree(row) THEN [row EXCEPT !.free = Older(row.free)] ELSE row

\* An expired plan can no more be confirmed: it is as good as none.
AgedPlan(p) == IF p # None /\ p.age + 1 < PlanLife THEN [p EXCEPT !.age = @ + 1] ELSE None

Aged(d) == [d EXCEPT !.rows = [b \in Blobs |-> AgedRow(d.rows[b])], !.plan = AgedPlan(d.plan)]

\* A request without the guard takes less than a tick, a sweep at most
\* MaxSweep, and the database is copied in time.
Tick ==
    /\ copyAge < MaxLag
    /\ sweep.pc = "idle" \/ sweep.age < MaxSweep
    /\ \A q \in Requests : req[q] # NoRequest => req[q].pc # "mounting"
    /\ db' = Aged(db) /\ durable' = Aged(durable)
    /\ copyAge' = copyAge + 1
    /\ sweep' = IF sweep.pc = "idle" THEN sweep ELSE [sweep EXCEPT !.age = @ + 1]
    /\ UNCHANGED <<bytes, req, late, exposed>>

\* The metadata database is replicated to the bucket.
Replicate ==
    /\ durable # db \/ copyAge > 0
    /\ durable' = db
    /\ copyAge' = 0
    /\ UNCHANGED <<db, bytes, req, sweep, late, exposed>>

\* What a leader's sweep goes on to delete once it is deposed: run_sweeper
\* awaits sweep_once in the body of its select branch, so the pass runs through
\* its list whatever became of the term, and looks at its own database only.
Orphaned ==
    {b \in Blobs : Reclaimable(db.rows[b], 0) \/ (sweep.pc = "deleting" /\ sweep.blob = b)}

\* The leader goes, with its requests; the next one starts from the durable
\* copy.  The old one's sweep may live on.
Failover ==
    /\ db' = durable
    /\ req' = [q \in Requests |-> NoRequest]
    /\ sweep' = Idle
    /\ \E list \in SUBSET Orphaned : late' = late \cup list
    /\ UNCHANGED <<durable, copyAge, bytes, exposed>>

LateDelete(b) ==
    /\ b \in late
    /\ bytes' = bytes \ {b}
    /\ late' = late \ {b}
    /\ UNCHANGED <<db, durable, copyAge, req, sweep, exposed>>

-----------------------------------------------------------------------------
RequestStep(q) ==
    \/ \E b \in Blobs : StoreBytes(q, b)
    \/ StoreFails(q) \/ AbandonBlob(q) \/ RecordRefused(q) \/ LeaseBlob(q)
    \/ \E s \in Slots : RecordArtifact(q, s) \/ RetainConflict(q, s) \/ RecordMount(q, s)

SweepStep == \/ \E todo \in SUBSET Blobs : ListUnreferenced(todo)
             \/ \E b \in Blobs : WriteLock(b)
             \/ DeleteBlobRecord \/ DeleteBytes \/ DeleteBytesFails

Next ==
    \/ \E q \in Requests : ReadLock(q) \/ RequestStep(q)
    \/ \E q \in Requests, from \in Slots : Mount(q, from)
    \/ CommitConflict \/ CancelConflict
    \/ \E s \in Slots : DeleteArtifact(s)
    \/ \E r \in Repos : PurgeArtifacts(r) \/ DeleteRepository(r)
    \/ SweepStep
    \/ Tick \/ Replicate \/ Failover
    \/ \E b \in Blobs : LateDelete(b)

Spec == Init /\ [][Next]_vars

-----------------------------------------------------------------------------
(* What the grace period and the guard are for. *)

\* Every artifact of the database can be served: however uploads, deletions,
\* sweeps and failovers to an older copy of the database interleave, no
\* record points at bytes that are gone (repo/sweeper.rs: "a dangling
\* reference that no code path can repair").  Two things the guard and the
\* grace do not reach are excepted, digest by digest: bytes last uploaded while
\* a deposed leader's sweep was still to delete them, and a plan confirmed
\* although its staged blob had been reclaimed.
NoDangling == \A s \in Slots : db.arts[s] # None => db.arts[s] \in bytes \cup exposed

\* The same without the exceptions, which the code does not keep.
EveryArtifactServed == \A s \in Slots : db.arts[s] # None => db.arts[s] \in bytes

\* Every variable has its type; the count of a blob is never below its
\* artifacts, and a blob is stamped as unreferenced exactly while its count
\* says so: what the sweeper decides by.
RowsCoverArtifacts ==
    /\ TypeOK
    /\ \A b \in Blobs :
        /\ Holders(db, b) # {} => db.rows[b] # None
        /\ db.rows[b] # None => /\ db.rows[b].refs >= Cardinality(Holders(db, b))
                                /\ (db.rows[b].refs = 0) = (db.rows[b].free # None)

\* Bytes go, by the leader's sweep or by that of a deposed one, only when
\* neither the database nor the copy that a failover would bring back has an
\* artifact of them, nor a request that is about to record one; except for the
\* digests NoDangling excepts.
BytesOutliveRollback ==
    [][\A b \in bytes \ (bytes' \cup exposed) :
          /\ Holders(db, b) = {} /\ Holders(durable, b) = {}
          /\ \A q \in Requests : req[q] # NoRequest /\ req[q].pc # "locked" => req[q].blob # b]_vars

\* The bytes of a plan the user can still confirm are kept when the row of the
\* staged blob was new, counted, or young enough when the plan was retained.
StagedBytesKept ==
    Actionable(db.plan) /\ db.plan.covered => db.plan.blob \in bytes \cup exposed

\* What meta/publication.rs promises of every plan ("so sweepers preserve it
\* while an actionable conflict plan is live"), and the code does not keep: a
\* row that has been free for long is leased as it is.
StagedBytesPreserved == Actionable(db.plan) => db.plan.blob \in bytes
=============================================================================
