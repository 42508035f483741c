---------------------------- MODULE OciRegistry -----------------------------
(***************************************************************************)
(* A hosted OCI repository of forklift: pushes of blobs, manifests and     *)
(* tags, deletions, and the pass that prunes what no tag reaches           *)
(* (repo/oci_push.rs, repo/oci.rs, repo/oci_prune.rs, repo/oci_idle.rs,    *)
(* meta/oci.rs), for one image name.                                       *)
(*                                                                         *)
(* A push checks, stores and tags in separate statements, and the prune    *)
(* reads the tags, then the rows, walks them and then deletes by path,     *)
(* while pushes go on: each works on what it read before.                  *)
(***************************************************************************)
EXTENDS Naturals, FiniteSets

CONSTANTS
    Layers,        \* the blobs there are: configs and layers
    Manifests,     \* the manifests and indexes there are
    Tags,          \* the tags
    Clients,       \* who pushes manifests
    None,          \* no tag, no manifest, no work
    LayersOf(_),   \* the blobs a manifest names
    ChildrenOf(_), \* the manifests an index names
    SubjectOf(_),  \* the manifest a referrer is about, or None
    Grace,         \* OCI_PRUNE_GRACE, in ticks
    PruneBatch,    \* OCI_PRUNE_BATCH
    MaxStruck      \* bound: what clients have deleted at any one time

ASSUME OciAssumption ==
    /\ None \notin Layers \cup Manifests \cup Tags
    /\ Layers \cap Manifests = {}
    /\ IsFiniteSet(Manifests) /\ IsFiniteSet(Layers)
    /\ \A x \in Manifests : /\ LayersOf(x) \subseteq Layers
                            /\ ChildrenOf(x) \subseteq Manifests
                            /\ SubjectOf(x) \in Manifests \cup {None}
    /\ {Grace, PruneBatch, MaxStruck} \subseteq Nat /\ PruneBatch > 0

VARIABLES
    rows,    \* the artifact rows: whether there is one, and the age of cached_at
    tags,    \* the manifest each tag points at
    push,    \* the manifest pushes in progress
    del,     \* a manifest whose tags a client has deleted and whose row is next
    prune,   \* the prune pass
    struck,  \* history: what clients have deleted themselves since its last push
    since,   \* history: the tags and manifests there all along since a pass began,
             \* and what was stored since it read the rows
    taken    \* history: what a pass deleted from under a push, until pushed again

history == <<struck, since, taken>>
vars == <<rows, tags, push, del, prune, struck, since, taken>>

Items == Layers \cup Manifests
Needs(x) == LayersOf(x) \cup ChildrenOf(x)

Pass == [pc: {"idle", "tags", "delete"},
         tags: [Tags -> Manifests \cup {None}],
         todo: SUBSET Items]

Pushing == [pc: {"checking", "tagging"}, manifest: Manifests, tag: Tags \cup {None},
            left: SUBSET Items]

ASSUME NoneAssumption == None \notin Pushing

TypeOK ==
    /\ rows \in [Items -> [there: BOOLEAN, age: 0..Grace]]
    /\ tags \in [Tags -> Manifests \cup {None}]
    /\ push \in [Clients -> Pushing \cup {None}]
    /\ del \in Manifests \cup {None}
    /\ prune \in Pass
    /\ struck \subseteq Items /\ taken \subseteq Items
    /\ since \in [tags: [Tags -> Manifests \cup {None}], there: SUBSET Manifests,
                 stored: SUBSET Items]

Untagged == [t \in Tags |-> None]
NoRows == [x \in Items |-> [there |-> FALSE, age |-> Grace]]
PruneIdle == [pc |-> "idle", tags |-> Untagged, todo |-> {}]
Nothing == [tags |-> Untagged, there |-> {}, stored |-> {}]

Init ==
    /\ rows = NoRows
    /\ tags = Untagged
    /\ push = [c \in Clients |-> None]
    /\ del = None
    /\ prune = PruneIdle
    /\ struck = {} /\ since = Nothing /\ taken = {}

There(x) == rows[x].there

\* put_artifact stamps cached_at again whether or not the row was there.
Stored(x) == [rows EXCEPT ![x] = [there |-> TRUE, age |-> 0]]
Removed(x) == [rows EXCEPT ![x].there = FALSE]

\* History.  What was there when the pass read the tags, and is since.
Present == {x \in Manifests : There(x)}
Settle ==
    since' = IF prune'.pc = "idle" THEN Nothing
             ELSE [tags |-> [t \in Tags |-> IF tags'[t] = since.tags[t] THEN tags'[t] ELSE None],
                   there |-> since.there \cap Present', stored |-> since.stored]

\* A row that is stored again is no more deleted, and newer than a pass's list.
Restored(x) ==
    /\ struck' = struck \ {x} /\ taken' = taken \ {x}
    /\ since' = [since EXCEPT !.stored = IF prune.pc = "delete" THEN @ \cup {x} ELSE @]

-----------------------------------------------------------------------------
(* What clients do. *)

\* oci_store_blob, however the bytes came: in one request, by a session or
\* by a mount.
PushBlob(l) ==
    /\ rows' = Stored(l)
    /\ Restored(l)
    /\ UNCHANGED <<tags, push, del, prune>>

\* oci_put_manifest, by tag or (tag None) by digest: the references are looked
\* up one after the other.
PushManifest(c, x, t) ==
    /\ push[c] = None
    /\ push' = [push EXCEPT ![c] = [pc |-> "checking", manifest |-> x, tag |-> t, left |-> Needs(x)]]
    /\ UNCHANGED <<rows, tags, del, prune, history>>

Checking(c) == push[c] # None /\ push[c].pc = "checking"

CheckReference(c, x) ==
    /\ Checking(c)
    /\ x \in push[c].left /\ There(x)
    /\ push' = [push EXCEPT ![c].left = @ \ {x}]
    /\ UNCHANGED <<rows, tags, del, prune, history>>

\* MANIFEST_BLOB_UNKNOWN.
RefusePush(c) ==
    /\ Checking(c)
    /\ \E x \in push[c].left : ~There(x)
    /\ push' = [push EXCEPT ![c] = None]
    /\ UNCHANGED <<rows, tags, del, prune, history>>

\* The manifest's row first ...
PutManifest(c) ==
    /\ Checking(c)
    /\ push[c].left = {}
    /\ rows' = Stored(push[c].manifest)
    /\ Restored(push[c].manifest)
    /\ push' = [push EXCEPT ![c] = IF push[c].tag = None THEN None ELSE [@ EXCEPT !.pc = "tagging"]]
    /\ UNCHANGED <<tags, del, prune>>

Tagging(c) == push[c] # None /\ push[c].pc = "tagging"

\* ... then its tag.
PutTag(c) ==
    /\ Tagging(c)
    /\ tags' = [tags EXCEPT ![push[c].tag] = push[c].manifest]
    /\ push' = [push EXCEPT ![c] = None]
    /\ UNCHANGED <<rows, del, prune, struck, taken>>
    /\ Settle

PutTagFails(c) ==
    /\ Tagging(c)
    /\ push' = [push EXCEPT ![c] = None]
    /\ UNCHANGED <<rows, tags, del, prune, history>>

\* DELETE .../manifests/{tag}, and the reaper of idle tags.
DeleteTag(t) ==
    /\ tags[t] # None
    /\ tags' = [tags EXCEPT ![t] = None]
    /\ UNCHANGED <<rows, push, del, prune, struck, taken>>
    /\ Settle

\* DELETE .../manifests/{digest}: the tags that point at it ...
DeleteTagsByDigest(x) ==
    /\ del = None /\ Cardinality(struck) < MaxStruck
    /\ del' = x
    /\ tags' = [t \in Tags |-> IF tags[t] = x THEN None ELSE tags[t]]
    /\ UNCHANGED <<rows, push, prune, struck, taken>>
    /\ Settle

\* ... and then its row, if there is one.
DeleteManifestRow ==
    /\ del # None
    /\ rows' = Removed(del)
    /\ struck' = struck \cup {del}
    /\ del' = None
    /\ UNCHANGED <<tags, push, prune, taken>>
    /\ Settle

\* DELETE .../blobs/{digest}; what refers to it is not looked at.
DeleteBlob(l) ==
    /\ There(l) /\ Cardinality(struck) < MaxStruck
    /\ rows' = Removed(l)
    /\ struck' = struck \cup {l}
    /\ UNCHANGED <<tags, push, del, prune, since, taken>>

-----------------------------------------------------------------------------
(* prune_oci_repo. *)

\* Mutant of Grow: an index does not reach its children.
GrowReferrers(live, present) ==
    live \cup {x \in present : \E y \in live : SubjectOf(x) = y}

\* Mutant of Grow: no referrer pass.
GrowChildren(live, present) ==
    live \cup {x \in present : \E y \in live : x \in ChildrenOf(y)}

\* What mark_live adds to the manifests it has: the children of an index; and
\* what the referrer pass adds: those whose subject is live.
Grow(live, present) ==
    live \cup {x \in present : \E y \in live : x \in ChildrenOf(y) \/ SubjectOf(x) = y}

\* The manifests some tag of ts reaches among the rows rs.
LiveManifests(ts, rs) ==
    LET present == {x \in Manifests : rs[x].there}
        live[n \in 0..Cardinality(Manifests)] ==
            IF n = 0 THEN {x \in present : \E t \in Tags : ts[t] = x}
                     ELSE Grow(live[n - 1], present)
    IN  live[Cardinality(Manifests)]

Live(ts, rs) == LET ms == LiveManifests(ts, rs) IN ms \cup UNION {LayersOf(x) : x \in ms}

\* Mutant of Dead: no grace.
DeadAtOnce(ts, rs) == {x \in Items : rs[x].there} \ Live(ts, rs)

\* Mutant of Dead: blobs are not looked at.
DeadManifests(ts, rs) == {x \in Manifests : rs[x].there /\ rs[x].age >= Grace} \ Live(ts, rs)

\* The rows to delete: past the grace and not reached.
Dead(ts, rs) == {x \in Items : rs[x].there /\ rs[x].age >= Grace} \ Live(ts, rs)

\* list_oci_tag_rows.
ReadTags ==
    /\ prune.pc = "idle"
    /\ prune' = [PruneIdle EXCEPT !.pc = "tags", !.tags = tags]
    /\ since' = [tags |-> tags, there |-> Present, stored |-> {}]
    /\ UNCHANGED <<rows, tags, push, del, struck, taken>>

\* list_artifacts, and the walk from the tags over the rows it returned: all
\* the walk reads later is manifests, which never change.  Manifests are deleted
\* first, and no more than a batch in all.
Walk(todo) ==
    /\ prune.pc = "tags"
    /\ LET dead == Dead(prune.tags, rows) IN
         /\ todo \subseteq dead /\ Cardinality(todo) <= PruneBatch
         /\ Cardinality(todo) < PruneBatch => todo = dead
         /\ todo \cap Layers # {} => dead \cap Manifests \subseteq todo
    /\ prune' = IF todo = {} THEN PruneIdle
                ELSE [PruneIdle EXCEPT !.pc = "delete", !.todo = todo]
    /\ UNCHANGED <<rows, tags, push, del, struck, taken>>
    /\ Settle

\* A manifest cannot be read: the repository is left unpruned.
WalkFails ==
    /\ prune.pc = "tags"
    /\ prune' = PruneIdle
    /\ UNCHANGED <<rows, tags, push, del, struck, taken>>
    /\ Settle

\* What the tags ts reach where these manifests are there: the least set of
\* manifests that holds the tagged ones, the children of its indexes and the
\* referrers of its members, and their blobs.
Closed(ms, ts, there) == \A x \in there :
    /\ (\E t \in Tags : ts[t] = x) => x \in ms
    /\ (\E y \in ms : x \in ChildrenOf(y) \/ SubjectOf(x) = y) => x \in ms

ReachedBy(ts, there) ==
    LET ms == {x \in there : \A s \in SUBSET Manifests : Closed(s, ts, there) => x \in s}
    IN  ms \cup UNION {LayersOf(x) : x \in ms}

\* What tags reach now, and what they have reached all along since the pass
\* read the tags, by way of the same tags and manifests.
Reached == ReachedBy(tags, Present)
Settled == ReachedBy(since.tags, since.there)

\* What pushes under way have verified or stored, and count on.
Verifying ==
    {push[c].manifest : c \in {d \in Clients : Tagging(d)}}
        \cup UNION {Needs(push[c].manifest) \ push[c].left : c \in {d \in Clients : push[d] # None}}

\* x came into use, or was pushed again, only after the pass had read.
Raced(x) == x \notin Settled /\ x \in Reached \cup Verifying \cup since.stored

\* delete_artifact by path, whatever is there now; a path that is gone ends
\* the pass.
PruneRow(x) ==
    /\ prune.pc = "delete"
    /\ x \in prune.todo
    /\ x \in Layers => prune.todo \subseteq Layers
    /\ IF There(x)
       THEN /\ rows' = Removed(x)
            /\ prune' = IF prune.todo = {x} THEN PruneIdle ELSE [prune EXCEPT !.todo = @ \ {x}]
            /\ taken' = IF Raced(x) THEN taken \cup {x} ELSE taken
       ELSE /\ prune' = PruneIdle
            /\ UNCHANGED <<rows, taken>>
    /\ UNCHANGED <<tags, push, del, struck>>
    /\ Settle

-----------------------------------------------------------------------------
\* Requests and prune passes are short against the grace of a day.
Tick ==
    /\ prune.pc = "idle" /\ del = None /\ \A c \in Clients : push[c] = None
    /\ rows' = [x \in Items |-> [rows[x] EXCEPT !.age = IF @ < Grace THEN @ + 1 ELSE @]]
    /\ rows' # rows
    /\ UNCHANGED <<tags, push, del, prune, history>>

PushStep(c) == \/ \E x \in Items : CheckReference(c, x)
               \/ RefusePush(c) \/ PutManifest(c) \/ PutTag(c) \/ PutTagFails(c)

PruneStep == \/ ReadTags \/ WalkFails
             \/ \E todo \in SUBSET Items : Walk(todo)
             \/ \E x \in Items : PruneRow(x)

Next ==
    \/ \E l \in Layers : PushBlob(l) \/ DeleteBlob(l)
    \/ \E c \in Clients, x \in Manifests, t \in Tags \cup {None} : PushManifest(c, x, t)
    \/ \E c \in Clients : PushStep(c)
    \/ \E t \in Tags : DeleteTag(t)
    \/ \E x \in Manifests : DeleteTagsByDigest(x)
    \/ DeleteManifestRow
    \/ PruneStep
    \/ Tick

Spec == Init /\ [][Next]_vars
\* Time passes, the pass is run again and again and can read the manifests in
\* the end, and requests finish.
FairSpec == Spec /\ SF_vars(Tick) /\ SF_vars(ReadTags) /\ WF_vars(PruneStep)
                 /\ SF_vars(\E todo \in SUBSET Items : Walk(todo))
                 /\ WF_vars(DeleteManifestRow)
                 /\ \A c \in Clients : WF_vars(PushStep(c))

-----------------------------------------------------------------------------
\* Everything an image consists of.
Image(x) == {x} \cup Needs(x) \cup UNION {LayersOf(y) : y \in ChildrenOf(x)}

Untouched(x) == Image(x) \cap struck = {}
Unraced(x) == Image(x) \cap taken = {}

\* Every variable has its type, and what a push has verified stays there for
\* as long as its tag, whatever is retagged, deleted and pruned around it: the
\* manifest and all it names; unless a client has deleted a part of the image
\* itself, or a pass that had read the repository before the part was pushed,
\* verified or tagged took it from under the push.
VerifiedStaysThere ==
    TypeOK /\ \A t \in Tags : tags[t] # None /\ Untouched(tags[t]) /\ Unraced(tags[t])
                    => \A x \in {tags[t]} \cup Needs(tags[t]) : There(x)

\* The same whenever the pass read, which the code does not keep.
VerifiedAlwaysThere ==
    \A t \in Tags : tags[t] # None /\ Untouched(tags[t])
                    => \A x \in {tags[t]} \cup Needs(tags[t]) : There(x)

\* A tag that exists is an image that can be pulled, the layers of an index's
\* children included (oci_put_manifest: "what makes 'the tag exists' imply 'the
\* image is pullable'"); the code does not keep it.
TaggedImagePullable ==
    \A t \in Tags : tags[t] # None /\ Untouched(tags[t]) /\ Unraced(tags[t])
                    => \A x \in Image(tags[t]) : There(x)

\* What a row goes by when a pass deletes it.
Prunes(x) == x \in prune.todo /\ There(x) /\ ~rows'[x].there /\ prune' # prune

\* The prune, which works on what it has read, takes nothing that is reached by
\* way of tags and manifests that were there before it read and still are: not
\* a child of a tagged index, not a signature of a tagged image.
PruneSparesTheLive == [][\A x \in Items : Prunes(x) => x \notin Settled]_vars

\* A push is refused only for a blob that was not pushed within the grace: the
\* prune leaves a client that long between its blobs and its manifest; unless
\* the blob was pushed, or verified, while a pass already had it on its list.
PushWindowProtected ==
    [][\A c \in Clients : Checking(c) /\ push'[c] = None /\ push[c].left # {}
          => \E x \in push[c].left :
                ~There(x) /\ (x \in struck \cup taken \/ rows[x].age >= Grace)]_vars

\* What oci_prune.rs says of every row ("It protects the push window"), and the
\* code does not keep: a row that is pushed again while a pass runs is deleted
\* by its path.
PushWindowAlways == [][\A x \in Items : Prunes(x) => rows[x].age >= Grace]_vars

\* A blob that no tag reaches, nor a tag a pass has just read, and that no client
\* pushes again goes in the end, if clients do not for ever delete what a pass is
\* about to delete (which ends it) and dead manifests, which go first, do not for
\* ever fill the batch.
GarbageGoes ==
    /\ <>[][~DeleteManifestRow /\ \A l \in Layers : ~DeleteBlob(l)]_vars
    /\ []<><<\E todo \in SUBSET Items : Walk(todo) /\ Cardinality(todo) < PruneBatch>>_vars
    => \A x \in Layers :
          <>[](x \notin Reached \cup ReachedBy(prune.tags, Present) /\ rows[x].age >= Grace)
              => <>[](~There(x))
=============================================================================
