# A TLA+ verification project for younsl/addons

The repository is a collection of independent programs, one per directory of
`box/addons/` and `box/cli/`. The largest, and the only one that is itself a
distributed system with replicated state, is **forklift**, an artifact
repository (112k of the repository's 236k lines of Rust). The project covers
first the part of forklift where an error loses or corrupts everybody's data:
the election of the one pod that may write, and what that pod does to the
metadata database it shares, through an object store, with the others; then what
the database says about the bytes (blob store, OCI registry, proxy cache); and
the two other programs that change something in the world step by step and must
survive being interrupted: the kubernetes-upgrade-operator and the
volume-autoscaler.

All source paths below are relative to `box/addons/forklift/src/` unless they
start with `box/`.

## 1. Inventory

### 1.1 forklift, high availability and metadata

| Component | State | Operations | Talks to |
|---|---|---|---|
| Election (`cluster.rs`) | the Lease; per pod the cached Lease, `observed_record`, `observed_time`, timers, `TermState` | acquire, renew (fast and slow path), release, step_down, shutdown, crash | API server (conditional writes); calls on_started / on_stopped |
| Leadership (`bin/forklift/leadership.rs`, `main.rs`, `cluster/podlabel.rs`) | `leader_state`, gauge, readiness, the pod's role label, the term's background jobs | start_leading, refuse_to_lead, stop_leading, set_pod_role, demote_peers | spawned by the election's callbacks; reads the Lease; calls MetaSync |
| WAL shipper (`objstore/metasync/walship.rs`, `objstore/walfmt.rs`) | generation, chain, cursor in the SQLite WAL, `known_end`, `restart_ok`, `broken`, spooled segments, next sequence | ship, capture, checkpoint, start_generation, upload_pending, publish_base | SQLite's WAL; object store |
| Metadata sync (`objstore/metasync.rs`) | `is_leader`, fence, ETag, current generation and sequence of a standby, snapshot restore | restore_on_boot, promote, demote, follow, snapshot upload, final_sync | object store (conditional PUTs), SQLite |
| Replication (`replication.rs`) | epoch, applied snapshot | poll, fetch, promote, demote | leader pod over HTTP |

How they interact: the election's callbacks *spawn* `start_leading` and
`stop_leading` as independent tasks. `start_leading` reads the Lease again to
get its fencing token, promotes the metadata sync with it, re-applies the
declarative state, labels the pod and strips the label from its peers, and only
then starts the background jobs. `stop_leading` flushes and demotes the sync and
relabels. The sync loop runs all the time and does a leader's or a standby's
cycle depending on a flag. The object store is the only thing the pods share: a
base object carrying the fence, and segment objects per generation.

What is hard here: stalls past the Lease; writes whose response is lost, or that
land after their sender has gone; a start and a stop of the same term that
overlap; a token read after the fact; a standby that reads objects while the
leader replaces the generation they belong to; a crash between an upload and the
publication of what was uploaded; SQLite resetting its WAL behind the shipper.

### 1.2 forklift, the artifact repository

| Component | State | Operations | Hard behaviour |
|---|---|---|---|
| Blob store and sweeper (`storage.rs`, `meta/artifact.rs`, `meta/blob.rs`, `repo.rs`, `repo/sweeper.rs`) | bytes by digest; `blobs` rows with `ref_count` and `unreferenced_since`; `artifacts` rows; `gc_mu` | put, record, replace, delete, purge, delete a repository, mount, sweep | a reference made while the sweep decides; bytes deleted for good while the database may still go back |
| Publication conflicts (`meta/publication.rs`, `repo/uiupload_maven.rs`) | upload requests, retained plans, staged blobs | retain, confirm, cancel, expire | a plan confirmed after its bytes were swept |
| OCI registry (`repo/oci_push.rs`, `repo/oci.rs`, `repo/oci_prune.rs`, `meta/oci.rs`) | blob and manifest rows, tags | push, tag, delete, prune | check, store and tag are separate statements; the prune deletes by what it read before |
| Proxy cache and request coalescing (`repo.rs`, `repo/flight.rs`) | cached row, validators, negative cache, cooldown, in-flight calls | serve, fetch, revalidate, answer stale | clients that leave, fetches that fail, panic or outlive their client; writes in two statements |
| Approval (`meta/approval.rs`, `repo/approvalgate.rs`) | pending approvals, votes, expiry | request, decide, expire | two deciders at once, expiry racing a decision |
| Upload sessions (`repo/oci_push.rs`, `repo/uiupload*.rs`) | sessions, offsets, per-user slots | open, append, finish, abandon | offset races, abandoned sessions |
| Migration (`migrate*.rs`) | the target bucket, the held Lease | preflight, copy, verify, upload, postflight | restart in the middle, a writer that comes back |
| Replication (`replication.rs`) | epoch, applied snapshot | poll, fetch, promote | a replica that promotes itself between two polls |
| Audit and notification batches (`audit.rs`, `notify/batch.rs`) | bounded queues | push, flush | overflow, flush at shutdown |

### 1.3 The other programs

| Program | What it does | State it must keep right |
|---|---|---|
| kubernetes-upgrade-operator | reconciles an EKSUpgrade through phases; restarts resume from update ids in the status | the status, merge-patched from a cache that lags; EKS updates that go on without it |
| volume-autoscaler | grows EBS volumes and PVCs over SSM and the Kubernetes API, with cooldowns and a protective cordon | none of its own: EC2, the filesystem and the Node's mark are all a new leader has |
| trivy-collector | hub that pulls reports from edge clusters, stores, alerts | one SQLite database |
| kagent-gateway | Alertmanager webhook to Slack to agent and back | deduplication, conversations |
| argocd-canary-gate | admission webhook that blocks syncs during a canary | none |
| aws-health-event-notifier, aurora-database-insights-exporter, filesystem-cleaner | pollers | what they reported last |
| ij, valcon, vlt (`box/cli/`) | command line tools | none |

## 2. Modules and the code they model

| Module | Models | Notes |
|---|---|---|
| `Terms` | the contract of the election | abstract: a Lease whose changes of hands are counted, terms that start and stop |
| `LeaderElection` | `cluster.rs` | implements `Terms` |
| `Leadership` | `bin/forklift/leadership.rs`, callbacks of `main.rs`, `cluster/podlabel.rs` | built on `Terms` (`Election == INSTANCE Terms`) |
| `WalShipping` | `objstore/metasync/walship.rs` (writer), `objstore/walfmt.rs` | one leader, SQLite's WAL, the bucket |
| `MetaSync` | `objstore/metasync.rs`, `walship.rs` (readers, publication, cleanup) | several pods around one bucket |
| `DurableLog` | the contract of WAL shipping | abstract: transactions become durable one after the other; `WalShipping` implements it |
| `BlobStore` | `meta/artifact.rs`, `meta/blob.rs`, `meta/publication.rs`, `storage.rs`, `repo.rs`, `repo/sweeper.rs`, parts of `repo/oci_push.rs`, `repo/uiupload_maven.rs`, `meta/repository.rs` | the database, its durable copy and the bytes |
| `OciRegistry` | `repo/oci_push.rs`, `repo/oci.rs`, `repo/oci_prune.rs`, `meta/oci.rs` | one image name of a hosted repository |
| `ProxyCache` | `repo.rs` (serve, fetch_and_serve, fetch_and_store), `repo/flight.rs` | one metadata document of a proxy |
| `KubernetesUpgrade` | `box/addons/kubernetes-upgrade-operator/src/` (controller, phases, status) | one EKSUpgrade, EKS, Karpenter |
| `VolumeAutoscaler` | `box/addons/volume-autoscaler/src/` (instance resizer, cordon, policy) | one instance, EC2, SSM, its Node |
| `<Module>Proofs` of each of the forklift modules but `Terms` and `DurableLog` | | TLAPS proofs |
| `OperatorProofs` | | TLAPS proofs about `VolumeAutoscaler` and `KubernetesUpgrade`; since it extends both, the names they would share (`Init`, `Spec`, `vars`, ...) are `UpgradeInit`, `UpgradeSpec`, `upgradeVars` in the second |
| `MC*` | | instances for TLC |

`LeaderElection`, `Leadership` and `MetaSync` are three views of one protocol:
the first is detailed about the Lease and time, the second about the tasks and
labels, the third about the bucket. They meet in two interfaces. `Terms` is
proved to be implemented by the first and is what the second runs on. The
promote and demote calls that `Leadership` orders in `queue` are the `requests`
of `MetaSync`; the three values of its constant `Handover` are what
`LeaderElection` and `Leadership` leave possible ("orderly" when the old leader
was done, "released" when it had given the Lease up, "stalled" when it had not
noticed yet).

### 2.1 `LeaderElection`

One pod is a `role` in `Elector::run` (down, backoff, acquire, renew, sleep,
release) and a `step` in `try_acquire_or_renew` (fast path, slow path, update,
create, landed). A write to the API server is two events: it lands, and its
response arrives; either may be lost, and a request nobody waits for any more
(`abandoned`) may still land as long as its resourceVersion is current. Of the
timestamps and versions only the two comparisons the code makes are kept: is my
cached object the current one (`fresh`), is the record the one I observed
(`seen`). Time is relative and discrete: `obsAge`, `wait`, `deadline`; `Tick`
cannot pass a timer that is due in a pod that may not stall.

`TimingAssumption` is `validate()` plus one condition it does not check and
mutual exclusion needs: `lease_duration > renew_deadline + retry_period +` the
time a response takes. The defaults (15 s, 10 s, 2 s) satisfy it for responses
faster than 3 s.

### 2.2 `Leadership`

`on_started` and `on_stopped` spawn tasks; a task is a record with the await it
is at. `sync_mu` is a FIFO queue. `stop_leading` that times out leaves a detached
demotion behind, which keeps its place in the queue. Labels are in the API server
and survive a container restart. `s3` chooses the topology once and for all.

But for `sync_mu` nothing in the code makes one task wait for another, and nothing
in the model does: the tasks of successive terms of a pod and those of different pods overlap
in any way. The one thing assumed is that a spawned task has been polled once
before the same pod's next term begins, which is at least a `retry_period`
later. The background jobs look at their token between two passes only, so
`OnStopped` leaves them in `jobs` and each returns when its pass is over
(`JobsReturn`), whatever its pod has become meanwhile. `late` is history: the
label (or, on a shared volume, the readiness) of a pod was last written by a task
whose term was over. A write in time clears it.

### 2.3 `WalShipping`

Frames are numbered through the life of the database. `end` is the last
committed frame, `file` how much of it the database file has, `first` the frame
the WAL starts at. A capture reads from the cursor (or from the start, when the
WAL was restarted and `restart_ok` or no cursor says so), queues segments and
checkpoints; a checkpoint that readers keep busy is `Busy`. Copying the file,
each PUT, the publication and each delete are steps, with their failures: a PUT
that fails may or may not have landed. `TruncateMayFail` adds the failure of
the last step of a checkpoint.

### 2.4 `MetaSync`

Every request to the bucket is a step. `op` is what holds `sync_mu`: kind of
operation, step, what HEAD returned, what was listed. `base` has a `version` in
place of a unique upload and `gen` for the generation it names; a database is
the set of writes it holds. `op.floor` is a history variable: what a restore
would have given when a promotion or boot looked at the bucket; every promotion
and boot that succeeds is compared with it (`TookOver`), whether or not it had to
change the database. `orderly` is another: whether every pod was elected after the others had stood down.
`ContentETags` makes ETags equal when the bytes are; `CleanupMayLag` lets a
cleanup go on after another pod's base replaced the one it was made for.

### 2.5 `BlobStore`

`db` is the leader's database, `durable` the copy another leader would start
from, `bytes` the object store. A transaction is one step, a request is several
(lock, store, record; for a conflict lock, store, lease the blob, retain the
plan), and the sweeper is four (list, wait for the guard, delete the row under the
conditions it was listed by, delete the bytes). Times are ages: `copyAge` of the
copy, `free` of a row's `unreferenced_since`, `age` of a sweep's cutoff and of a
plan. `Failover` throws away the requests and goes back to `durable`; the deposed
leader's sweep goes on through its list, by its own database and without the
guard of the new leader: `late` is what it is yet to delete. `MetaSync` says what
`durable` is and that it never goes back.

Two things the guard and the grace do not reach are followed by history
variables instead of being excluded: `exposed` has the digests last uploaded while
a deposed leader's sweep was still to delete them, and those of a plan confirmed
after its bytes had gone; `covered` says of a plan that the row of its staged blob
was new, counted or young enough when it was retained.

### 2.6 `OciRegistry`

`rows` has blobs and manifests with the age of `cached_at`; a push checks what
its manifest names one by one, stores the row, then sets the tag; the deletion of
a manifest deletes tags and row in two statements. A prune pass reads the tags,
then the rows, computes the dead (`Walk`) and deletes them path by path, at most a
batch and manifests first, and ends at the first error. Pushes and deletions go on
while it runs. Three history variables say what a pass could not know: `since`
has the tags and manifests that have been there since it read the tags and what
was stored since it read the rows; `taken` what it deleted although it had come
into use, or had been pushed again, in the meantime (`Raced`); `struck` what
clients deleted themselves.

### 2.7 `ProxyCache`

A request looks at the row and at the negative cache, joins the call registered
under its key or starts one, and waits; the fetch is a task of its own with its
reads, its answer and its two writes as steps, and publishes what it found to
whoever waits. `upstream.lag` tells how long ago the upstream had each content:
what is answered can be compared with what was true. `asof` is a history
variable: the change of the upstream a row stems from.

### 2.8 `KubernetesUpgrade`

A reconcile is one step: it reads `seen`, calls EKS and patches `status` with a
merge patch, which can fail after the calls were made. `Watch` brings `seen` up to
date. A permanent error whose own patch fails is not requeued: the resource is
`parked` until something delivers it again (`Watch`, `Restart`). `IncompletePlan`
is a plan made from lists that dropped components (a describe call that failed, an
add-on without a compatible version); `omitted` is history: what a plan left out
although it was not at the target, and no update has reached since.
`updating` and `failed` are what EKS does by itself. `abandoned` is history:
an update runs that the status does not know (`Unknown`). `moved` is history too:
the last move of the control plane. `Specs` are the edits a user may
make; each raises the generation and, once observed, resets the run.

### 2.9 `VolumeAutoscaler`

`pass` is the leader's pass over the instance, named by the call it makes next;
each call may fail with or without having taken effect, and the pass may be
dropped at any of them. EBS modifies in its own time, the script runs on the
instance in its own. `owner` is history: who put the cordon that is on the Node,
addon or operator, whatever the mark says. `late` is history too: the operator has
edited the Node since the pass listed it, so that what the pass is about to patch
rests on a Node that is no more.

## 3. Runs

Passing:

| Run | What it shows | Bounds |
|---|---|---|
| `election` | no Lease is taken from a renewing leader; counters of self-believed leaders differ; a leader's counter stays the one of its term; no handover is uncounted; `Terms` is implemented | 2 pods, durations 5/2/1, response time 1: the smallest that satisfy the timing assumption with a response that takes time; 2 transitions, so that a pod can lose and regain the Lease |
| `leadership_tasks` | while a term lasts its jobs, which change shared state, run on a promoted database; a term that lasts gets to them | 1 pod, since tasks of different pods share nothing these properties speak of; 2 terms, 1 failing request; tasks of both terms overlap and jobs outlive their term (408k states) |
| `leadership_routing` | the Service ends up routing to the leader only, in both topologies, unless a task whose term was over wrote last | 2 pods that lead once each, one after the other or the one while the other has not noticed, 3 transitions, no failing request (the property is about none), crashes that keep or lose the label (967k states); a pod that leads several times is the theorem's |
| `wal` | segments continue their base frame by frame; a cycle that read everything made it durable; `DurableLog` is implemented: what a restore gives is a whole number of transactions and never goes back; every committed frame reaches it | 3 frames, 8 generations so that they do not run out, segments of one frame, rotation after one segment, a queue of 1, 2 rounds: rotations fall due while frames are unread, the queue overflows, generations are abandoned. The safety part was also checked with 4 frames, a queue of 2 and 4 generations |
| `sync_safety` | the base never returns to an earlier term; every promotion or boot has everything the bucket held when it looked, or fails; with orderly handovers a restore never loses a write | 2 pods, 2 terms, 1 crash, 1 write, 2 generations, pods elected at any time, standbys that follow |
| `sync_live` | what a leader commits reaches the bucket | 2 pods, 2 terms, orderly handovers |
| `blob_safety` | no artifact's bytes are gone, but for digests of `exposed`; counts cover the artifacts; bytes outlive every copy of the database a failover may bring back; the bytes of a covered conflict plan are there while it can be confirmed | 2 digests, 2 paths of 1 repository, 1 request at a time beside the sweeper, grace 2, copies up to 1 old, sweeps within a tick, one plan, any number of failovers with sweeps that outlive them: replacing, sharing and re-uploading a digest all happen, before, during and after a sweep. `MaxLeak = 0`: a repository whose artifacts share a blob is not deleted in this run |
| `oci` | a tagged manifest keeps all it names, and a client has the grace between its blobs and its manifest, but for what a pass took from under a push; the prune takes nothing that tags have reached since before it read; garbage goes | a layer, an image, an index that lists the image and is attached to it, 1 tag, 1 client, grace 1, batches of 2 out of 3 rows, so that a batch can be full, one thing deleted by clients at a time (149k states) |
| `proxy` | what is answered as fresh is recent, what is answered as stale is within its bound; no waiter and no key is left behind; the row never goes back | 2 clients, 2 contents, 2 fetches that may overlap, all times 1, 2 changes of the upstream |
| `kuo` | nodes are never ahead of the control plane and Completed means upgraded, but for what a plan left out; no second rollback; runs end | 2 node groups, 3 minor versions, 3 generations of the resource chosen among upgrades by one and two minors, rollbacks, a dry run and a no-op; 1 error, which may be a lost patch, a failed call or an incomplete plan (858k states) |
| `vas` | volume and filesystem stay within bounds; modifications are spaced; a cordon without the mark is left alone by any pass that listed it; the cordon follows usage, and the Node is schedulable again; a full filesystem gets a larger volume | a volume of 2 GiB that can grow to 4, cooldown 1, 2 faults (failed calls, failed modifications, dropped passes), 2 steps of the operator, in the middle of a pass too (443k states) |

One write is enough in `MetaSync` because a database is a set: a property
about losing writes is violated by one lost write. `MaxGenerations` bounds only
voluntary rotations; a term always starts its own. `PublishLost` happens once
per base, which bounds the versions.
Deadlock is not checked in the `Leadership` runs, where pods have nothing left to
do when the bounds on terms are used up, and in the `KubernetesUpgrade` runs,
where a run that ended waits for an edit.

A violation, where the code and a document disagree:

| Run | What happens |
|---|---|
| `kuo_karpenter` | the Karpenter phase is not among the phases that are reconciled without an edit (`controller.rs:91`), although it "advances one step and requeues" (`phases/karpenter.rs:8`): a run that enters it stays there, and each edit lets it take one step |

Other behaviours the models exhibit, by changing one constant or stating one
property more; they are not kept as runs:

| Setting | Property | What happens |
|---|---|---|
| `election` as it is | `SingleLeader` | the Lease is released before `on_stopped` runs, so two pods lead during every step-down and shutdown |
| `leadership_tasks` with `MaxFaults = 1` | `RefusalIsFollowedByATerm` | a pod that refuses to lead keeps renewing the Lease: no other replica takes over and no next term starts |
| `leadership_tasks` | `JobsEndWithTheTerm` | a job awaits a whole pass in the body of its `select!` branch (`repo/sweeper.rs:31`, `repo/oci_prune.rs:46`, `repo/reaper.rs:76`): a sweep goes on deleting after its term is over and its sync demoted, although the jobs are "each bound to the term's `cancel` token" (`bin/forklift/leadership.rs:160`) "so only one instance mutates the blob store" (`repo/sweeper.rs:13`) |
| `leadership_routing` | `NothingElseRoutes` | a `start_leading` that outlives its term labels its pod and strips the label of the leader (`bin/forklift/leadership.rs:138`), or (`MaxTurns = 2`) a slow `stop_leading` unlabels a pod that leads again; nothing corrects it until the next change. `RoutedToTheLeader` excepts pods a late task wrote last, and nothing else |
| `leadership_routing` | `StaleLeaderHasLowerFence` | the token is read after the acquisition it stands for: a pod superseded by then uploads under its successor's token |
| `wal` | `FinalFlushLeavesNothing` | a final flush of a term without a generation returns `Ok` with nothing shipped when a reader keeps the checkpoint busy |
| `wal` with `TruncateMayFail = TRUE`, 4 frames | `NoHiddenGap` | every frame is checkpointed and the truncation fails: the frames just read are dropped, and the next segment continues past them |
| `sync_live` with `Handover = "released"`, `MaxGenerations = 1` | `LeaderShips` | the old leader's final flush publishes its base and cleans up; it deletes segments the new leader uploaded ahead of its own base, which are never uploaded again |
| `sync_live` with `TokenMayFail = TRUE`, 1 pod, 3 terms | `LeaderShips` | the fencing token cannot be read, the term runs under fence 0, and `put_fenced` refuses every base of it |
| `sync_safety` with `Handover = "released"` and the guard `orderly` dropped | `DurableStaysDurable` | the final flush lands after the new leader's last look at the bucket, and its first base drops it |
| the same with `CleanupMayLag = TRUE` | `CleanupSparesTheCurrent` | a superseded leader lists after its PUT and deletes the current generation's segments |
| `sync_safety` with `ContentETags = TRUE` | `FenceNeverGoesBack` | the fence is metadata and not part of the ETag: a base of the same bytes meets a stale `If-Match` |
| `blob_safety` | `StagedBytesPreserved` | a plan stages a blob whose row has been free for almost the grace; the lease does not restamp it and the sweeper does not look at leases, so the bytes go while the plan can still be confirmed (`meta/publication.rs:293` says they are preserved). `StagedBytesKept` is about the plans this does not concern |
| `blob_safety` | `EveryArtifactServed` | such a plan is confirmed; or a deposed leader's sweep deletes bytes the new leader has stored and recorded since. `NoDangling` excepts these digests |
| `oci` | `VerifiedAlwaysThere` | a pass deletes by path what its snapshot called dead, after a push has verified or tagged it. `VerifiedStaysThere` excepts what was taken this way |
| `oci` | `PushWindowAlways` | a row that is pushed again while a pass has it on its list is new and is deleted, although the grace "protects the push window" (`repo/oci_prune.rs:27`) |
| `oci` | `TaggedImagePullable` | a push of an index checks that its children exist, not that their layers still do: the grace of a manifest does not extend to the blobs it names |
| `oci` without the second premise | `GarbageGoes` | clients push new dead manifests for ever; they go first and fill every batch, so that a dead blob is never reached |
| `kuo` | `NoNodeEverAhead` | `list_nodegroups` drops a group whose describe call failed (`eks/nodegroup.rs:46`): the rollback leaves it out, and the control plane goes below it |
| `kuo` | `CompletedMeansAllUpgraded` | for the same reason, and for add-ons (`eks/addon.rs:88` and `240`), a run reports Completed, or "All components already at target version" (`phases/planning.rs:138`), with a component at another version |
| `kuo` without `parked` | `EndsUnlessLost` | a permanent error whose own patch fails is logged and not requeued (`controller.rs:459`, `481`): the run waits for an edit or a restart |
| `kuo` with forward specs 1, 2 and rollback specs 0, 1 | `RollbackFollowsUpgrade` | a forward run that had nothing to upgrade re-arms the rollback guard (`phases/transition.rs:23`) |
| `vas` | `OperatorCordonNeverUndone` | a cordon the operator puts between the listing of the Nodes and the patch of this one gets the addon's mark, one whose mark the operator removes in that time is released, and one put where a mark was left has it already; a pass lifts it, although "a cordon set by an operator ... is never undone" (`k8s/cordon.rs:3`). `ForeignCordonKept` excepts edits after the listing |

Seen while reading and modelled as the code has it, or left out (section 6):
`delete_repository` subtracts one reference per blob, however many artifacts of
the repository share it, and leaks the others (`meta/repository.rs:163`,
`MaxLeak`); the deletion of bytes may fail after their row went, and the bytes
are then lost space; in `KubernetesUpgrade` an update whose id was lost (a patch
that failed after the call, a status written back from a stale cache, a timeout)
is not found again, and the four properties of `kuo` say nothing once that has
happened (`abandoned`); in `VolumeAutoscaler` no
pass runs the script alone after ModifyVolume succeeded and the script did not,
so the filesystem waits for the next growth and at `maxCapacity` for ever.

## 4. Fairness

Safety runs assume none. The liveness runs assume:

- `Leadership`: every task is polled (weak fairness per pod), a free Lease is
  acquired, and a pod that lost it notices (what `LeaderElection` gives by its
  deadlines).
- `WalShipping`: the sync loop and a cycle go on (weak); a checkpoint, the copy of
  the file and the PUTs succeed if tried again and again (strong): the loop
  retries on each tick and nothing in the code gives up for good.
- `MetaSync`: a pod that holds `sync_mu` goes on and the loop ticks (weak);
  waiting promotions and demotions get the lock although cycles compete for it
  (strong), because a tokio `Mutex` is FIFO; and requests fail finitely often.

- `OciRegistry`: time passes, passes begin and are walked (strong, since a pass
  may be cut short by an error), a pass that runs goes on, pushes and deletions
  finish (weak). That clients do not for ever delete what a pass is about to
  delete, and that dead manifests do not for ever fill the batch, are premises of
  `GarbageGoes` itself.
- `KubernetesUpgrade`: the watch delivers in the end (strong: edits and patches
  come between), the controller reconciles what it requeued, EKS ends each
  update and Karpenter replaces its node (weak).
- `VolumeAutoscaler`: passes go on, EBS and the script end, time passes (weak);
  faults and edits are bounded, which is how "does not fail for ever" is said.

`BlobStore` and `ProxyCache` are checked for safety only.

## 5. Proofs

All of them hold for every set of pods, clients or fetches and every value of the
other constants. Where a property excepts something by a history variable, the
theorem proves it with that exception, and section 3 says what happens in it.

**Election** (`LeaderElectionProofs`). Assumed: `PodsAssumption`,
`TimingAssumption`. The inductive invariant `IInv` has eight parts. What carries
the argument:

- `Knowledge`, `Intent`: a pod whose cache is current knows the holder and the
  counter, and the record it is about to write is a renewal, or a takeover with
  the next counter of a Lease it has watched for `lease_duration`.
- `LateWritesLawful`: a request its sender gave up and that could still be
  accepted is such a record too. This is needed because the safety of a late
  write does not follow from what its sender knows now.
- `Exclusion`: the time a leader may still go on counting on the Lease, plus the
  age of what any other pod has seen of it, stays within `reply delay +
  retry_period + renew_deadline`, which is less than `lease_duration`: nobody
  may take it before the leader has stopped.
- `TermClaims`, `OwnCounter`: no two pods lead, or are about to learn that they
  do, under the same counter.

From it: `RenewingLeaderAlone`, `TermsUnique`, `FenceCurrent`,
`HandoversCounted`; and `TypeCorrect` by itself.

**Refinement** (in the same module): `ElectionImplementsTerms`. Beyond
`IInv` it takes `LastWrites`: while a pod waits for the response to a write that
has landed, nobody else can make it the holder, so the counter it will start its
term under is the current one if the Lease is still its own. The TLC run
checks the refinement for pods that serve their timers; the theorem is for
stalled ones too.

**Metadata sync** (`MetaSyncProofs`): `TypeCorrect`, and the rest assuming
`~ContentETags`, without which a conditional PUT or a re-check compares nothing
(section 3 has the counterexample). Four arguments:

- `FenceMonotone`: a HEAD is never newer than the base, and a pod in front of a
  PUT whose condition would be met has a fence no lower than the base's. It is
  inductive because the fence of a pod changes only under `sync_mu` (promotion)
  or with the loss of the operation (crash), never between a HEAD and its PUT.
- `TakesOverWhatWasThere`, which also assumes `~CleanupMayLag`, as do the next two:
  whoever follows the base misses nothing. `FollowInv` has the names of the
  segments (`Names`: a generation has one writer, and what is still to be uploaded
  comes after what is there and after what any replica has applied, so no
  replica skips a segment that arrives late), the copies (`Copy`: a replica of the
  current base has all its segments below the next one) and the stages of a
  takeover (`Floor`: what the bucket held at HEAD is still there, then listed or
  copied, then copied, as long as the base is the one of the HEAD).
- `CleanupInTimeSpares`: while the base stays, no step of any pod takes anything
  from what a restore gives. With `CleanupMayLag` section 3 has the counterexample.
- `DurableIsKept`: what a restore gives never shrinks while elections are orderly.
  `DurInv` adds that a pod then leads alone (`OneActive`), that a generation is
  part of its database (`Taken`), that a leader has all a restore gives, and so
  has the base it is about to publish together with what it still uploads to the
  generation before (`Carried`), and that nothing is written while a pod takes
  over (`Seen`). `Roles` says who may do what with the lock; it holds however
  leadership is handed over.

**Proxy cache** (`ProxyCacheProofs`). Assumed: `ProxyAssumption`, which only says
that the settings are natural numbers, zero included. `IInv` says that the fetch
that runs is the registered one (`OneFlight`), that who waits, waits for it
(`Registered`), and that an answer still to be written is no older than the row
(`Recent`). The last would not be inductive with two fetches under one key: the
slower would write last. From it: `NoVainWait`, `RowNeverGoesBack`, and
`TypeCorrect` by itself.

`AgeInv` adds what the age of an answer rests on. A copy `a` ticks old was the
upstream's at most `a + FetchBound` ticks ago (`Copies`), also the one a client
carries through its wait; a body that is streamed was the upstream's within the
age of its fetch (`Streaming`); a 304 is about the blob the row still refers to,
because the condition was sent only for validators of that blob and no other
fetch has replaced the row since (`Conditions`); and no tick separates the write
of a row from the answers it gives rise to (`Written`, `Told`), the model's
assumption that only waiting takes time. From it: `FreshAnswersAreRecent` and
`StaleAnswersAreBounded`.

**Leadership** (`LeadershipProofs`). Neither theorem has a hypothesis but
the types of the constants. `JobsOnPromotedData`: the property itself says nothing of the tasks that
could break it later, so `JobInv` does, process by process: tasks and places in
the queue belong to turns that have begun, and while a pod leads its
`stop_leading` tasks are of earlier turns and have asked for the lock already
(`OldTurns`); each turn has one demotion, which keeps its place when nobody waits
for it any more (`OneDemotion`); every demotion that is due comes before the
promotion of the current turn (`DemotionsFirst`, where the FIFO lock enters);
hence, once the current turn has its promotion, no demotion is left
(`PromotionLasts`). `TrafficFollowsTheLeader`: `RouteInv` adds that one pod at
most leads under the current counter (`Holding`, from `Terms`), what a task may be
about (`Business`: it never demotes itself, and refuses only after a failure), and
how far the `start_leading` of the current term has got (`Labels`): its own label is
set before it lists the others, and every other one that is set is on its list or
was set by a late task. On a shared volume `Readiness` says the same of the ready
flag: a leader that has started is ready, and a pod that is ready and does not lead
has its `stop_leading` still to run, or a late task wrote last. A late task may write
at any time; the invariant is inductive because whatever it writes is marked.

**WAL shipping** (`WalShippingProofs`). `ShippingImplementsLog` has no
hypothesis. Its invariant `LogInv` keeps the content of every base and
generation at the end of a transaction, and objects in the order of their
generations; the maximum that `Restored` chooses exists because its set is finite
and not empty, and grows because no step removes what the current base needs.
`SegmentsHideNoGap` and `WholeCallsAreDurable` assume `~TruncateMayFail` (false
without, section 3). They need to know where the next capture reads: `CursorInv`
says that, as long as the generation is usable, the frame after the cursor is the
one after what the generation has, or the capture will notice that it is not,
through checkpoints, restarts and truncations of the WAL between its steps. With
it, `ChainInv` (segments, queued or stored, are consecutive) is inductive, and
`WholeInv` relates what a call has read to what it has queued and stored.

**Blob store** (`BlobStoreProofs`). `CountsCoverArtifacts` has no hypothesis; its
`CountInv` is about both databases, since a failover makes the copy the current
one. The other three have none either: what the guard and the grace do not reach
is excepted by the history (`exposed`, `covered`). `SweepInv` is the argument of the grace period: what the durable
copy needs was needed by the current database at most `copyAge` ago, so a row
that has been free for the grace, which is longer, is free in both; and a sweep
that has listed such a row decides again under the guard, by the stamp it listed.
Its centre is `Safe`: what either database, a covered plan or a request past its
guard needs is there and on nobody's list to delete, the deposed leaders' lists
included, or is exposed. A deposed leader can only list what is `Reclaimable` in
its own database, which by `Copied` is free in the durable copy as well.

**OCI registry** (`OciRegistryProofs`), without hypothesis, pushes and passes in
any order. `OciInv`: what a pass is about to delete is not reached by the tags and
manifests that have been there since it read, and is past its grace unless it was
stored since (`PassSees`); what is gone and was neither struck by a client nor
taken from under a push is past its grace (`GoneIsOld`); what tags and pushes have
verified is there, struck or taken (`TagsVerified`, `PushesVerified`). Nothing
reached since before the pass can lose its way there without leaving `Settled`,
because manifests are immutable and the history only shrinks. The walk of
`prune_oci_repo` is a recursive function that grows a set once per manifest.
`LiveIsClosed` shows for every graph that so many rounds reach the fixpoint: the
set grows in each round before it is closed, and cannot have more members than
there are manifests.

**Volume autoscaler** (`OperatorProofs`, part one), for every set of policies that
satisfies `Configuration`. `IInv` relates what a pass remembers to what has become
of the volume since: sizes only grow, so a target computed from an old size is
checked against the limit and against the size again (`Grows`); while a pass is
between its check of the cooldown and its call no other pass modifies the volume
(`Checked`); a pass that listed the Node after the operator's last edit of it knows
of a cordon without the mark that it is one, and of a mark without a cordon that
there is none (`ForeignCordon`, `Tells`), so none of its patches marks or lifts it.

**Upgrade operator** (`OperatorProofs`, part two), for every set of node groups,
wishes, versions, generations and errors. Assumed: `Bounds`, which types the
wishes, and `NamesDiffer`, which keeps `None` and the names of the resources
apart. The difficulty is that a reconcile acts on the cached status, patches the
stored one, and may lose the patch after EKS has taken the call. `UpgradeInv` is
the types (`Typed`), which hold in every state, and, as long as no update is
unknown to the status (`~abandoned`, what the properties themselves require):

- `Sound`, of the stored and of the cached status: in each phase the plan says of
  each component either that it is where the wish wants it, or that a later phase
  of this run will take it there, or that a plan left it out (`Exact`: the plan that
  would be made of the cluster as it is, but for `omitted`). A step of the control plane that counts as done
  is done; a node group is in the plan, at the target or omitted; the order of the phases is
  the one of `after_preflight`, nodes last forward and first on a rollback.
- `Follows`: how far the stored status can be ahead of the cached one. It is in the
  same run with the same plan, and an update it has on record belongs to the phase
  the cache shows, so that a reconcile from an old cache repeats a call EKS has
  taken already, or makes the update unknown.
- `Nodes`: no node that plans did not leave out, and no update of one, is ahead of the control plane or of the
  version the control plane is being taken to, and the two are never updated at
  once. This is what makes `NodesBehindTheControlPlane` inductive: the versions by
  themselves say nothing of the update that will end next.
- `Guarded`: when the last move of the control plane was a rollback and no forward
  run has completed since, the status says so, stored and cached, or is in the run
  that will write it. From it `NoRollbackAfterRollback`.

The proof that a step keeps it goes by the phase of the cached status: in `Calm`
phases nothing is being updated and the plan is exact or absent; in a run
(`InRun`) a reconcile keeps the plan. `CompletedIsUpgraded` follows from `Sound`
at the phases that can be the last.

Induction over data is done here by hand, from the least counterexample
(`WFMin` on the natural numbers): `MaxExists`, `BoundedMax`, `UpTo`. The
induction theorems of the library that take an operator as a parameter cannot be
used with the installed provers.

**Only model-checked**: the liveness properties (`LeaderGetsToWork`,
`EverythingIsShipped`, `LeaderShips`, `GarbageGoes`, `EndsUnlessLost`,
`CordonFollowsUsage`, `GrowsWhenFull`), since fairness and ENABLED are beyond the
prover. Every invariant, action property and refinement of the passing runs is
stated by a theorem.

## 6. Not modelled

`PROJECT.json` lists every component. In the parts that are modelled:

- Everywhere: encodings, checksums and compression (a conversion that fails is a
  failing step; one that is wrong is not modelled), metrics, logging, notification
  texts and configuration parsing.
- High availability: the snapshot mode of the sync (the one without WAL
  shipping), deletion of the Lease object by hand.
- `BlobStore`: which artifacts the reaper and `evict_lru` choose (any deletion may
  happen), the states of an upload request before and after its conflict plan,
  limits on concurrent console uploads.
- `OciRegistry`: upload sessions and their offsets, several image names (rows of
  different names share only bytes, which `BlobStore` has), idle pruning's choice
  of tags (any tag may be deleted).
- `ProxyCache`: immutable artifacts and pass-through of large bodies, which
  rows eviction takes (any may go), more than one URL (keys are independent but for the cooldown).
- `KubernetesUpgrade`: edits of mode or target in the middle of a run (the run
  goes on along its plan, and the generation counts as observed); the content of
  preflight checks (they pass or fail); rendering and notification.
- `VolumeAutoscaler`: PVCs, throughput alone, the scan for unused volumes, status
  writing, several policies that select one instance, and its Lease election.

Components left out: approval and replication (next in the plan); storage
migration, whose guard is the election and whose copy is a sequence of
idempotent steps ended by one conditional PUT; audit and notification queues;
policies and scanners, which are decisions over fetched data; the API and the
console, which keep no state of their own; the pollers and command line tools,
which are sequential.

## 7. Plan

Model: `Approval`; `Replication`; upload sessions; storage migration; the
snapshot mode of `MetaSync`.
