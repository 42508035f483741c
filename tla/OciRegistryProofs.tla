------------------------- MODULE OciRegistryProofs --------------------------
(***************************************************************************)
(* Theorems about a hosted OCI repository, for every set of images,        *)
(* indexes, referrers, tags and clients, every grace and batch.            *)
(***************************************************************************)
EXTENDS OciRegistry, FiniteSetTheorems, NaturalsInduction, TLAPS

-----------------------------------------------------------------------------
(* mark_live: the fixpoint of Grow.                                        *)

\* A set of natural numbers that holds 0 and is closed under the successor up
\* to N holds all numbers up to N.
LEMMA UpTo ==
    ASSUME NEW N \in Nat, NEW P \in SUBSET Nat,
           0 \in P, \A n \in 0 .. N : n # 0 /\ n - 1 \in P => n \in P
    PROVE  0 .. N \subseteq P
<1> DEFINE R == {ss \in Nat \X Nat : ss[1] < ss[2]}
           Bad == (0 .. N) \ P
<1> SUFFICES ASSUME Bad # {} PROVE FALSE
  OBVIOUS
<1>1. IsWellFoundedOn(R, Nat)
  BY NatLessThanWellFounded DEF OpToRel
<1>2. Bad \subseteq Nat
  OBVIOUS
<1>3. PICK m \in Bad : \A x \in Bad : ~(<<x, m>> \in R)
  <2> HIDE DEF R, Bad
  <2> QED BY <1>1, <1>2, WFMin
<1>4. m \in 0 .. N /\ m \notin P /\ m # 0
  BY <1>3
<1>5. m - 1 \in 0 .. N /\ m - 1 < m
  BY <1>4
<1>6. <<m - 1, m>> \in R
  BY <1>4, <1>5
<1>7. m - 1 \in P
  BY <1>3, <1>5, <1>6
<1> QED BY <1>4, <1>7

\* The manifests that are present, and the marks: what mark_live and the
\* referrer pass have reached after each round.
PresentIn(rs) == {x \in Manifests : rs[x].there}
TaggedIn(ts, rs) == {x \in PresentIn(rs) : \E t \in Tags : ts[t] = x}
IsMarks(f, ts, rs, N) ==
    f = [n \in 0 .. N |-> IF n = 0 THEN TaggedIn(ts, rs) ELSE Grow(f[n - 1], PresentIn(rs))]

LEMMA MarksExist ==
    ASSUME NEW ts, NEW rs, NEW N \in Nat
    PROVE  \E f : IsMarks(f, ts, rs, N)
<1> DEFINE P == {k \in Nat : \E f : IsMarks(f, ts, rs, k)}
<1>1. 0 \in P
  <2> DEFINE f == [n \in 0 .. 0 |-> TaggedIn(ts, rs)]
  <2>1. IsMarks(f, ts, rs, 0)
    BY DEF IsMarks
  <2> QED BY <2>1
<1>2. ASSUME NEW k \in 0 .. N, k # 0, k - 1 \in P PROVE k \in P
  <2>1. PICK f : IsMarks(f, ts, rs, k - 1)
    BY <1>2
  <2> DEFINE g == [n \in 0 .. k |-> IF n = k THEN Grow(f[k - 1], PresentIn(rs)) ELSE f[n]]
  <2>2. k \in Nat /\ k - 1 \in Nat
    BY <1>2
  <2>3. ASSUME NEW n \in 0 .. k
        PROVE  g[n] = IF n = 0 THEN TaggedIn(ts, rs) ELSE Grow(g[n - 1], PresentIn(rs))
    <3>1. CASE n = k
      <4>1. k - 1 \in 0 .. k /\ k - 1 # k
        BY <2>2
      <4>2. g[k - 1] = f[k - 1] /\ g[n] = Grow(f[k - 1], PresentIn(rs))
        BY <3>1, <4>1
      <4> QED BY <1>2, <3>1, <4>2
    <3>2. CASE n # k
      <4>1. n \in 0 .. (k - 1) /\ g[n] = f[n]
        BY <2>2, <3>2
      <4>2. f[n] = IF n = 0 THEN TaggedIn(ts, rs) ELSE Grow(f[n - 1], PresentIn(rs))
        BY <2>1, <4>1 DEF IsMarks
      <4>3. n # 0 => n - 1 \in 0 .. k /\ n - 1 # k
        BY <2>2, <4>1
      <4>4. n # 0 => g[n - 1] = f[n - 1]
        BY <4>3
      <4> QED BY <4>1, <4>2, <4>4
    <3> QED BY <3>1, <3>2
  <2>4. IsMarks(g, ts, rs, k)
    <3>1. g = [n \in 0 .. k |-> g[n]]
      OBVIOUS
    <3> HIDE DEF g
    <3>2. [n \in 0 .. k |-> g[n]] =
            [n \in 0 .. k |-> IF n = 0 THEN TaggedIn(ts, rs) ELSE Grow(g[n - 1], PresentIn(rs))]
      BY <2>3
    <3> QED BY <3>1, <3>2 DEF IsMarks
  <2> QED BY <2>2, <2>4
<1>3. P \in SUBSET Nat
  OBVIOUS
<1>4. 0 .. N \subseteq P
  <2> HIDE DEF P
  <2> QED BY <1>1, <1>2, <1>3, UpTo
<1> QED BY <1>4

\* What the walk finds live holds the tagged manifests that are present and is
\* closed: as many rounds as there are manifests reach the fixpoint.
LEMMA LiveIsClosed ==
    ASSUME NEW ts, NEW rs
    PROVE  /\ TaggedIn(ts, rs) \subseteq LiveManifests(ts, rs)
           /\ Grow(LiveManifests(ts, rs), PresentIn(rs)) = LiveManifests(ts, rs)
           /\ LiveManifests(ts, rs) \subseteq Manifests
<1> DEFINE N == Cardinality(Manifests)
           f == CHOOSE g : IsMarks(g, ts, rs, N)
           G(s) == Grow(s, PresentIn(rs))
<1>1. N \in Nat
  BY FS_CardinalityType, OciAssumption
<1>2. IsMarks(f, ts, rs, N)
  BY <1>1, MarksExist
<1>3. LiveManifests(ts, rs) = f[N]
  BY DEF LiveManifests, IsMarks, TaggedIn, PresentIn
<1> HIDE DEF f
<1>4. /\ f[0] = TaggedIn(ts, rs)
      /\ \A n \in 0 .. N : n # 0 => f[n] = G(f[n - 1])
  BY <1>1, <1>2 DEF IsMarks
<1> HIDE DEF N
<1>5. \A s : s \subseteq G(s) /\ G(s) \subseteq s \cup PresentIn(rs) /\ G({}) = {}
  BY DEF Grow
<1>6. TaggedIn(ts, rs) \subseteq Manifests /\ PresentIn(rs) \subseteq Manifests
  BY DEF TaggedIn, PresentIn
<1> HIDE DEF G
<1> DEFINE P == {n \in 0 .. N : TaggedIn(ts, rs) \subseteq f[n] /\ f[n] \subseteq Manifests}
           Q == {n \in 0 .. N : Cardinality(f[n]) >= n + 1 \/ G(f[n]) = f[n]}
<1>7. 0 .. N \subseteq P
  <2>1. 0 \in P
    BY <1>1, <1>4, <1>6
  <2>2. \A n \in 0 .. N : n # 0 /\ n - 1 \in P => n \in P
    BY <1>1, <1>4, <1>5, <1>6
  <2>3. P \in SUBSET Nat
    BY <1>1
  <2> HIDE DEF P
  <2> QED BY <1>1, <2>1, <2>2, <2>3, UpTo
<1>8. \A n \in 0 .. N : f[n] \subseteq Manifests /\ IsFiniteSet(f[n]) /\ Cardinality(f[n]) \in Nat
                        /\ Cardinality(f[n]) <= N
  <2> TAKE n \in 0 .. N
  <2>1. f[n] \in SUBSET Manifests /\ IsFiniteSet(Manifests)
    BY <1>7, OciAssumption
  <2> QED BY <2>1, FS_Subset, FS_CardinalityType DEF N
<1>9. 0 .. N \subseteq Q
  <2>1. 0 \in Q
    <3>1. CASE f[0] = {}
      BY <1>1, <1>5, <3>1
    <3>2. CASE f[0] # {}
      <4>1. Cardinality(f[0]) # 0 /\ Cardinality(f[0]) \in Nat
        BY <1>1, <1>8, <3>2, FS_EmptySet
      <4> QED BY <1>1, <4>1
    <3> QED BY <3>1, <3>2
  <2>2. ASSUME NEW n \in 0 .. N, n # 0, n - 1 \in Q PROVE n \in Q
    <3>0. n - 1 \in 0 .. N /\ f[n] = G(f[n - 1])
      BY <1>1, <1>4, <2>2
    <3>1. CASE G(f[n - 1]) = f[n - 1]
      BY <3>0, <3>1
    <3>2. CASE G(f[n - 1]) # f[n - 1] /\ Cardinality(f[n - 1]) >= (n - 1) + 1
      <4>1. f[n - 1] \in SUBSET f[n] /\ f[n - 1] # f[n]
        BY <1>5, <3>0, <3>2
      <4>2. /\ Cardinality(f[n - 1]) <= Cardinality(f[n])
            /\ Cardinality(f[n]) # Cardinality(f[n - 1])
        BY <1>8, <3>0, <4>1, FS_Subset
      <4>3. Cardinality(f[n - 1]) \in Nat /\ Cardinality(f[n]) \in Nat /\ n \in Nat
        BY <1>1, <1>8, <3>0
      <4>4. Cardinality(f[n]) >= n + 1
        BY <3>2, <4>2, <4>3
      <4> QED BY <4>4
    <3> QED BY <2>2, <3>1, <3>2
  <2>3. Q \in SUBSET Nat
    BY <1>1
  <2> HIDE DEF Q
  <2> QED BY <1>1, <2>1, <2>2, <2>3, UpTo
<1>10. G(f[N]) = f[N]
  BY <1>1, <1>8, <1>9
<1> QED BY <1>1, <1>3, <1>7, <1>10 DEF G

-----------------------------------------------------------------------------
(* The inductive invariant.                                                *)

Row == [there: BOOLEAN, age: 0..Grace]
TagMap == [Tags -> Manifests \cup {None}]
Since == [tags: TagMap, there: SUBSET Manifests, stored: SUBSET Items]

\* What a pass is about to delete was not reached all along since it read the
\* tags, and is past its grace but for what was stored since it read the rows.
PassSees ==
    /\ since.there \subseteq Present
    /\ prune.pc = "tags" => \A t \in Tags : since.tags[t] \in {None, prune.tags[t]}
    /\ prune.pc = "delete" => \A x \in prune.todo :
          x \notin Settled /\ (x \in since.stored \/ rows[x].age >= Grace)
    /\ prune.pc # "delete" => prune.todo = {}

\* A manifest that is there has all it names, but for what a client has deleted
\* itself and what a pass took from under a push.
Accounted(x) == There(x) \/ x \in struck \cup taken
Verified(m) ==
    /\ Accounted(m)
    /\ There(m) => \A x \in Needs(m) : Accounted(x)

\* What is gone otherwise is past its grace.
GoneIsOld == \A x \in Items : Accounted(x) \/ rows[x].age >= Grace

TagsVerified == \A t \in Tags : tags[t] # None => Verified(tags[t])

PushVerified(c) ==
    /\ Tagging(c) => Verified(push[c].manifest) /\ push[c].left = {}
    /\ Checking(c) => \A x \in Needs(push[c].manifest) \ push[c].left : Accounted(x)
PushesVerified == \A c \in Clients : PushVerified(c)

Kept == GoneIsOld /\ TagsVerified /\ PushesVerified

OciInv == TypeOK /\ PassSees /\ Kept

LEMMA PassTypes ==
    /\ PruneIdle \in Pass /\ PruneIdle.pc = "idle" /\ PruneIdle.todo = {}
    /\ Nothing \in Since /\ Nothing.there = {} /\ \A t \in Tags : Nothing.tags[t] = None
    /\ Untagged \in TagMap
<1>1. Untagged \in TagMap /\ \A t \in Tags : Untagged[t] = None
  BY DEF Untagged, TagMap
<1> QED BY <1>1 DEF PruneIdle, Pass, Nothing, Since, TagMap

LEMMA OciInvInit == Init => OciInv
<1> SUFFICES ASSUME Init PROVE OciInv
  OBVIOUS
<1>0. Grace \in Nat
  BY OciAssumption
<1>1. NoRows \in [Items -> Row]
  BY <1>0 DEF NoRows, Row
<1>2. TypeOK
  BY <1>1, PassTypes DEF Init, TypeOK, Row, TagMap, Since
<1>3. GoneIsOld
  BY <1>0 DEF Init, NoRows, GoneIsOld
<1>4. TagsVerified
  BY DEF Init, Untagged, TagsVerified
<1>5. PushesVerified
  BY DEF Init, PushesVerified, PushVerified, Tagging, Checking
<1>6. PassSees
  BY PassTypes DEF Init, PassSees
<1> QED BY <1>2, <1>3, <1>4, <1>5, <1>6 DEF OciInv, Kept

-----------------------------------------------------------------------------
(* What tags reach.                                                        *)

\* A tagged manifest that is there is reached, and what it names too.
LEMMA TaggedIsReached ==
    ASSUME TypeOK, NEW t \in Tags, tags[t] # None, There(tags[t])
    PROVE  /\ tags[t] \in Reached
           /\ \A x \in Needs(tags[t]) : There(x) => x \in Reached
<1> DEFINE m == tags[t]
           ms == {x \in Present : \A s \in SUBSET Manifests : Closed(s, tags, Present) => x \in s}
<1>1. m \in Manifests /\ LayersOf(m) \subseteq Layers /\ ChildrenOf(m) \subseteq Manifests
  BY OciAssumption DEF TypeOK
<1>2. m \in ms
  BY <1>1 DEF Closed, Present
<1>3. \A x \in ChildrenOf(m) : There(x) => x \in ms
  <2> SUFFICES ASSUME NEW x \in ChildrenOf(m), There(x),
                      NEW s \in SUBSET Manifests, Closed(s, tags, Present)
               PROVE  x \in s
    BY <1>1 DEF Present
  <2>1. m \in s
    BY <1>2
  <2> QED BY <1>1, <2>1 DEF Closed, Present
<1>4. Reached = ms \cup UNION {LayersOf(x) : x \in ms}
  BY DEF Reached, ReachedBy
<1> HIDE DEF ms
<1> QED BY <1>2, <1>3, <1>4 DEF Needs

\* With fewer tags and manifests, no more is reached.
LEMMA ReachedShrinks ==
    ASSUME NEW ts, NEW us, NEW th, NEW uh, uh \subseteq th, th \subseteq Manifests,
           \A t \in Tags : us[t] \in {None, ts[t]}
    PROVE  ReachedBy(us, uh) \subseteq ReachedBy(ts, th)
<1>1. ASSUME NEW s \in SUBSET Manifests, Closed(s, ts, th) PROVE Closed(s, us, uh)
  BY <1>1, OciAssumption DEF Closed
<1> DEFINE ms == {x \in th : \A s \in SUBSET Manifests : Closed(s, ts, th) => x \in s}
           ns == {x \in uh : \A s \in SUBSET Manifests : Closed(s, us, uh) => x \in s}
<1>2. ns \subseteq ms
  BY <1>1
<1>3. ReachedBy(ts, th) = ms \cup UNION {LayersOf(x) : x \in ms}
  BY DEF ReachedBy
<1>4. ReachedBy(us, uh) = ns \cup UNION {LayersOf(x) : x \in ns}
  BY DEF ReachedBy
<1> HIDE DEF ms, ns
<1> QED BY <1>2, <1>3, <1>4

\* The walk spares what has been reached since the pass read the tags.
LEMMA WalkSpares ==
    ASSUME TypeOK, PassSees, prune.pc = "tags"
    PROVE  Settled \subseteq Live(prune.tags, rows)
<1> DEFINE L == LiveManifests(prune.tags, rows)
           ms == {x \in since.there : \A s \in SUBSET Manifests :
                      Closed(s, since.tags, since.there) => x \in s}
<1>1. /\ TaggedIn(prune.tags, rows) \subseteq L
      /\ Grow(L, PresentIn(rows)) = L
      /\ L \in SUBSET Manifests
  BY LiveIsClosed
<1> HIDE DEF L
<1>2. Closed(L, since.tags, since.there)
  <2> SUFFICES ASSUME NEW x \in since.there
               PROVE  /\ (\E t \in Tags : since.tags[t] = x) => x \in L
                      /\ (\E y \in L : x \in ChildrenOf(y) \/ SubjectOf(x) = y) => x \in L
    BY DEF Closed
  <2>1. x \in PresentIn(rows) /\ x \in Manifests
    BY DEF PassSees, Present, PresentIn, There
  <2>2. ASSUME NEW t \in Tags, since.tags[t] = x PROVE x \in L
    <3>1. prune.tags[t] = x
      BY <2>1, <2>2, OciAssumption DEF PassSees
    <3> QED BY <1>1, <2>1, <3>1 DEF TaggedIn
  <2>3. (\E y \in L : x \in ChildrenOf(y) \/ SubjectOf(x) = y) => x \in Grow(L, PresentIn(rows))
    BY <2>1 DEF Grow
  <2> QED BY <1>1, <2>2, <2>3
<1>3. ms \subseteq L
  BY <1>1, <1>2
<1>4. Settled = ms \cup UNION {LayersOf(x) : x \in ms}
  BY DEF Settled, ReachedBy
<1>5. Live(prune.tags, rows) = L \cup UNION {LayersOf(x) : x \in L}
  BY DEF Live, L
<1> HIDE DEF ms
<1> QED BY <1>3, <1>4, <1>5

-----------------------------------------------------------------------------
(* Types, and what a pass has seen.                                        *)

\* Under a pass, what was there all along only shrinks.
Shrinks ==
    /\ \A t \in Tags : since'.tags[t] \in {None, since.tags[t]}
    /\ since'.there \subseteq since.there
    /\ since'.there \subseteq Present'

LEMMA SettleShrinks ==
    ASSUME TypeOK, Settle, tags' \in TagMap
    PROVE  /\ since' \in Since /\ Shrinks
           /\ prune'.pc # "idle" => since'.stored = since.stored
<1>0. since \in Since
  BY DEF TypeOK, Since, TagMap
<1>1. CASE prune'.pc = "idle"
  BY <1>1, PassTypes DEF Settle, Shrinks
<1>2. CASE prune'.pc # "idle"
  <2> DEFINE ts == [t \in Tags |-> IF tags'[t] = since.tags[t] THEN tags'[t] ELSE None]
  <2>1. ts \in TagMap /\ \A t \in Tags : ts[t] \in {None, since.tags[t]}
    BY DEF TagMap
  <2>2. since' = [tags |-> ts, there |-> since.there \cap Present', stored |-> since.stored]
    BY <1>2 DEF Settle
  <2> HIDE DEF ts
  <2> QED BY <1>0, <2>1, <2>2 DEF Since, Shrinks
<1> QED BY <1>1, <1>2

LEMMA StoredRow ==
    ASSUME TypeOK, NEW z \in Items
    PROVE  /\ Stored(z) \in [Items -> Row] /\ Stored(z)[z].there
           /\ \A x \in Items : x # z => Stored(z)[x] = rows[x]
<1> rows \in [Items -> Row] /\ Grace \in Nat
  BY OciAssumption DEF TypeOK, Row
<1> QED BY DEF Stored, Row

LEMMA RemovedRow ==
    ASSUME TypeOK, NEW z \in Items
    PROVE  /\ Removed(z) \in [Items -> Row]
           /\ \A x \in Items : Removed(z)[x].age = rows[x].age
           /\ \A x \in Items : x # z => Removed(z)[x] = rows[x]
           /\ ~Removed(z)[z].there
<1>1. rows \in [Items -> Row]
  BY DEF TypeOK, Row
<1> DEFINE r == rows[z]
           e == [r EXCEPT !.there = FALSE]
<1>2. r \in Row
  BY <1>1
<1>3. e \in Row /\ e.age = r.age /\ ~e.there
  <2> HIDE DEF r
  <2> QED BY <1>2 DEF Row
<1>4. Removed(z) = [rows EXCEPT ![z] = e]
  BY DEF Removed
<1> HIDE DEF e
<1> QED BY <1>1, <1>3, <1>4

LEMMA RestoredSince ==
    ASSUME TypeOK, NEW z \in Items, Restored(z), rows' = Stored(z), PassSees
    PROVE  /\ since' \in Since /\ Shrinks /\ since.stored \subseteq since'.stored
           /\ prune.pc = "delete" => z \in since'.stored
<1>0. since \in Since
  BY DEF TypeOK, Since, TagMap
<1> DEFINE st == IF prune.pc = "delete" THEN since.stored \cup {z} ELSE since.stored
<1>1. since' = [since EXCEPT !.stored = st] /\ st \subseteq Items /\ since.stored \subseteq st
  BY <1>0 DEF Restored, Since
<1>2. since'.tags = since.tags /\ since'.there = since.there /\ since'.stored = st /\ since' \in Since
  <2> HIDE DEF st
  <2> QED BY <1>0, <1>1 DEF Since
<1>3. Present \subseteq Present'
  BY StoredRow DEF Present, There, Items
<1> QED BY <1>1, <1>2, <1>3 DEF Shrinks, PassSees

\* The pass stays as it is.
LEMMA PassStays ==
    ASSUME TypeOK, PassSees, prune' = prune, Shrinks,
           since.stored \subseteq since'.stored,
           prune.pc = "delete" => \A x \in Items : x \in since'.stored \/ rows'[x].age = rows[x].age
    PROVE  PassSees'
<1>1. since'.there \subseteq Present'
  BY DEF Shrinks
<1>2. prune.pc = "tags" => \A t \in Tags : since'.tags[t] \in {None, prune.tags[t]}
  BY DEF Shrinks, PassSees
<1>3. Settled' \subseteq Settled
  <2>1. since.there \subseteq Manifests
    BY DEF TypeOK
  <2> QED BY <2>1, ReachedShrinks DEF Shrinks, Settled
<1>4. prune.todo \subseteq Items
  BY DEF TypeOK, Pass
<1> QED BY <1>1, <1>2, <1>3, <1>4 DEF PassSees

\* Nothing changes that a pass or its history is about.
LEMMA SinceStays ==
    ASSUME TypeOK, PassSees, since' = since, rows' = rows
    PROVE  Shrinks
BY DEF Shrinks, PassSees, Present, There

\* What a step does to the types and to the pass.
Sound == TypeOK' /\ PassSees'

LEMMA SoundDelete ==
    ASSUME TypeOK, PassSees,
           \/ \E t \in Tags : DeleteTag(t)
           \/ \E x \in Manifests : DeleteTagsByDigest(x)
           \/ DeleteManifestRow
           \/ \E l \in Layers : DeleteBlob(l)
    PROVE  Sound
<1>0. rows \in [Items -> Row] /\ tags \in TagMap /\ since \in Since
  BY DEF TypeOK, Row, TagMap, Since
<1>1. ASSUME rows' = rows, push' = push, prune' = prune, struck' = struck, taken' = taken,
             del' \in Manifests \cup {None}, tags' \in TagMap, Settle
      PROVE  Sound
  <2>1. since' \in Since /\ Shrinks /\ (prune.pc # "idle" => since'.stored = since.stored)
    BY <1>1, SettleShrinks
  <2>2. TypeOK'
    BY <1>0, <1>1, <2>1 DEF TypeOK, TagMap, Since
  <2>3. PassSees'
    <3>1. CASE prune.pc = "idle"
      BY <1>1, <2>1, <3>1 DEF PassSees, Shrinks
    <3>2. CASE prune.pc # "idle"
      BY <1>1, <2>1, <3>2, PassStays
    <3> QED BY <3>1, <3>2
  <2> QED BY <2>2, <2>3 DEF Sound
<1>2. ASSUME NEW z \in Items, rows' = Removed(z), push' = push, prune' = prune, taken' = taken,
             struck' = struck \cup {z}, tags' = tags, del' \in {del, None},
             Settle \/ (z \in Layers /\ since' = since)
      PROVE  Sound
  <2>1. since' \in Since /\ Shrinks /\ (prune.pc # "idle" => since'.stored = since.stored)
    <3>1. CASE Settle
      BY <1>0, <1>2, <3>1, SettleShrinks
    <3>2. CASE z \in Layers /\ since' = since
      <4>1. Present' = Present
        BY <1>2, <3>2, RemovedRow, OciAssumption DEF Present, There, Items
      <4> QED BY <1>0, <3>2, <4>1 DEF Shrinks, PassSees
    <3> QED BY <1>2, <3>1, <3>2
  <2>2. TypeOK'
    BY <1>0, <1>2, <2>1, RemovedRow DEF TypeOK, Row, Since, TagMap
  <2>3. PassSees'
    <3>1. CASE prune.pc = "idle"
      BY <1>2, <2>1, <3>1 DEF PassSees, Shrinks
    <3>2. CASE prune.pc # "idle"
      BY <1>2, <2>1, <3>2, RemovedRow, PassStays
    <3> QED BY <3>1, <3>2
  <2> QED BY <2>2, <2>3 DEF Sound
<1>3. ASSUME NEW t \in Tags, DeleteTag(t) PROVE Sound
  <2>1. tags' \in TagMap
    BY <1>0, <1>3 DEF DeleteTag, TagMap
  <2> QED BY <1>1, <1>3, <2>1 DEF DeleteTag, TypeOK
<1>4. ASSUME NEW x \in Manifests, DeleteTagsByDigest(x) PROVE Sound
  <2>1. tags' \in TagMap
    BY <1>0, <1>4 DEF DeleteTagsByDigest, TagMap
  <2> QED BY <1>1, <1>4, <2>1 DEF DeleteTagsByDigest
<1>5. ASSUME DeleteManifestRow PROVE Sound
  <2>1. PICK z \in Items : z = del
    BY <1>5 DEF DeleteManifestRow, TypeOK, Items
  <2> QED BY <1>2, <1>5, <2>1 DEF DeleteManifestRow
<1>6. ASSUME NEW l \in Layers, DeleteBlob(l) PROVE Sound
  BY <1>2, <1>6 DEF DeleteBlob, Items
<1> QED BY <1>3, <1>4, <1>5, <1>6

LEMMA SoundPush ==
    ASSUME TypeOK, PassSees,
           \/ \E l \in Layers : PushBlob(l)
           \/ \E c \in Clients, x \in Manifests, t \in Tags \cup {None} : PushManifest(c, x, t)
           \/ \E c \in Clients : PushStep(c)
    PROVE  Sound
<1>0. /\ rows \in [Items -> Row] /\ tags \in TagMap /\ since \in Since
      /\ push \in [Clients -> Pushing \cup {None}]
  BY DEF TypeOK, Row, TagMap, Since
<1>1. ASSUME NEW z \in Items, rows' = Stored(z), Restored(z),
             UNCHANGED <<tags, del, prune>>, push' \in [Clients -> Pushing \cup {None}]
      PROVE  Sound
  <2>1. /\ since' \in Since /\ Shrinks /\ since.stored \subseteq since'.stored
        /\ prune.pc = "delete" => z \in since'.stored
    BY <1>1, RestoredSince
  <2>2. TypeOK'
    <3>1. struck' \subseteq Items /\ taken' \subseteq Items
      BY <1>1 DEF Restored, TypeOK
    <3> QED BY <1>0, <1>1, <2>1, <3>1, StoredRow DEF TypeOK, Row, Since, TagMap
  <2>3. PassSees'
    BY <1>1, <2>1, StoredRow, PassStays
  <2> QED BY <2>2, <2>3 DEF Sound
<1>2. ASSUME UNCHANGED <<rows, tags, del, prune, history>>,
             push' \in [Clients -> Pushing \cup {None}]
      PROVE  Sound
  <2>1. TypeOK'
    BY <1>2 DEF TypeOK, history
  <2>2. PassSees'
    BY <1>2, PassStays, SinceStays DEF history
  <2> QED BY <2>1, <2>2 DEF Sound
<1>3. ASSUME NEW l \in Layers, PushBlob(l) PROVE Sound
  BY <1>0, <1>1, <1>3 DEF PushBlob, Items
<1>4. ASSUME NEW c \in Clients, NEW x \in Manifests, NEW t \in Tags \cup {None}, PushManifest(c, x, t)
      PROVE  Sound
  <2> DEFINE r == [pc |-> "checking", manifest |-> x, tag |-> t, left |-> Needs(x)]
  <2>1. r \in Pushing
    BY OciAssumption DEF Pushing, Needs, Items
  <2>2. push' = [push EXCEPT ![c] = r]
    BY <1>4 DEF PushManifest
  <2> HIDE DEF r
  <2>3. push' \in [Clients -> Pushing \cup {None}]
    BY <1>0, <2>1, <2>2
  <2> QED BY <1>2, <1>4, <2>3 DEF PushManifest
<1>5. ASSUME NEW c \in Clients, PushStep(c) PROVE Sound
  <2> DEFINE p == push[c]
  <2>0. p \in Pushing
    BY <1>0, <1>5 DEF PushStep, CheckReference, RefusePush, PutManifest, PutTag, PutTagFails,
       Checking, Tagging
  <2>1. ASSUME NEW x \in Items, CheckReference(c, x) PROVE Sound
    <3> DEFINE r == [p EXCEPT !.left = p.left \ {x}]
    <3>1. r \in Pushing
      <4> HIDE DEF p
      <4> QED BY <2>0 DEF Pushing
    <3>2. push' = [push EXCEPT ![c] = r]
      BY <2>1 DEF CheckReference
    <3> HIDE DEF r
    <3>3. push' \in [Clients -> Pushing \cup {None}]
      BY <1>0, <3>1, <3>2
    <3> QED BY <1>2, <2>1, <3>3 DEF CheckReference
  <2>2. CASE RefusePush(c) \/ PutTagFails(c)
    <3>1. push' = [push EXCEPT ![c] = None]
      BY <2>2 DEF RefusePush, PutTagFails
    <3>2. push' \in [Clients -> Pushing \cup {None}]
      BY <1>0, <3>1
    <3> QED BY <1>2, <2>2, <3>2 DEF RefusePush, PutTagFails
  <2>3. CASE PutManifest(c)
    <3> DEFINE r == IF p.tag = None THEN None ELSE [p EXCEPT !.pc = "tagging"]
    <3>1. r \in Pushing \cup {None}
      <4> HIDE DEF p
      <4> QED BY <2>0 DEF Pushing
    <3>2. push' = [push EXCEPT ![c] = r]
      BY <2>3 DEF PutManifest
    <3> HIDE DEF r
    <3>3. push' \in [Clients -> Pushing \cup {None}]
      BY <1>0, <3>1, <3>2
    <3>4. push[c].manifest \in Items
      BY <2>0 DEF Pushing, Items
    <3> QED BY <1>1, <2>3, <3>3, <3>4 DEF PutManifest
  <2>4. CASE PutTag(c)
    <3>1. /\ push' = [push EXCEPT ![c] = None] /\ tags' = [tags EXCEPT ![p.tag] = p.manifest]
          /\ UNCHANGED <<rows, del, prune, struck, taken>> /\ Settle
      BY <2>4 DEF PutTag
    <3>2. push' \in [Clients -> Pushing \cup {None}] /\ tags' \in TagMap
      <4>1. p.tag \in Tags \cup {None} /\ p.manifest \in Manifests
        BY <2>0 DEF Pushing
      <4> HIDE DEF p
      <4> QED BY <1>0, <3>1, <4>1 DEF TagMap
    <3>3. since' \in Since /\ Shrinks /\ (prune.pc # "idle" => since'.stored = since.stored)
      BY <3>1, <3>2, SettleShrinks
    <3>4. TypeOK'
      BY <1>0, <3>1, <3>2, <3>3 DEF TypeOK, TagMap, Since
    <3>5. PassSees'
      <4>1. CASE prune.pc = "idle"
        BY <3>1, <3>3, <4>1 DEF PassSees, Shrinks
      <4>2. CASE prune.pc # "idle"
        BY <3>1, <3>3, <4>2, PassStays
      <4> QED BY <4>1, <4>2
    <3> QED BY <3>4, <3>5 DEF Sound
  <2> QED BY <1>5, <2>1, <2>2, <2>3, <2>4 DEF PushStep
<1> QED BY <1>3, <1>4, <1>5

LEMMA SoundPrune ==
    ASSUME TypeOK, PassSees, PruneStep
    PROVE  Sound
<1>0. /\ rows \in [Items -> Row] /\ tags \in TagMap /\ since \in Since /\ prune \in Pass
      /\ PruneIdle \in Pass
  BY PassTypes DEF TypeOK, Row, TagMap, Since
<1>1. CASE ReadTags
  <2>1. /\ UNCHANGED <<rows, tags, push, del, struck, taken>>
        /\ prune' = [PruneIdle EXCEPT !.pc = "tags", !.tags = tags]
        /\ since' = [tags |-> tags, there |-> Present, stored |-> {}]
    BY <1>1 DEF ReadTags
  <2>2. prune' \in Pass /\ prune'.pc = "tags" /\ prune'.tags = tags /\ prune'.todo = {}
    BY <1>0, <2>1, PassTypes DEF Pass, TagMap
  <2>3. since' \in Since /\ since'.tags = tags /\ since'.there = Present /\ Present' = Present
    BY <1>0, <2>1 DEF Since, Present, There
  <2>4. TypeOK'
    BY <1>0, <2>1, <2>2, <2>3 DEF TypeOK, Since, TagMap
  <2> QED BY <2>2, <2>3, <2>4 DEF PassSees, Sound
<1>2. ASSUME UNCHANGED <<rows, tags, push, del, struck>>, prune' = PruneIdle, Settle,
             taken' \subseteq Items
      PROVE  Sound
  <2>1. since' \in Since /\ Shrinks
    BY <1>0, <1>2, SettleShrinks
  <2>2. TypeOK'
    BY <1>0, <1>2, <2>1 DEF TypeOK, Since, TagMap
  <2> QED BY <1>2, <2>1, <2>2, PassTypes DEF PassSees, Shrinks, Sound
<1>3. CASE WalkFails
  BY <1>2, <1>3 DEF WalkFails, TypeOK
<1>4. ASSUME NEW todo \in SUBSET Items, Walk(todo) PROVE Sound
  <2>1. /\ UNCHANGED <<rows, tags, push, del, struck, taken>> /\ prune.pc = "tags" /\ Settle
        /\ todo \subseteq Dead(prune.tags, rows)
        /\ prune' = PruneIdle \/ prune' = [PruneIdle EXCEPT !.pc = "delete", !.todo = todo]
    BY <1>4 DEF Walk
  <2>2. CASE prune' = PruneIdle
    BY <1>2, <2>1, <2>2 DEF TypeOK
  <2>3. CASE prune' = [PruneIdle EXCEPT !.pc = "delete", !.todo = todo]
    <3>1. prune' \in Pass /\ prune'.pc = "delete" /\ prune'.todo = todo
      BY <1>0, <2>3, PassTypes DEF Pass
    <3>2. since' \in Since /\ Shrinks
      BY <1>0, <2>1, SettleShrinks
    <3>3. Settled' \subseteq Settled
      <4>1. since.there \subseteq Manifests
        BY <1>0 DEF Since
      <4> QED BY <3>2, <4>1, ReachedShrinks DEF Shrinks, Settled
    <3>4. \A x \in todo : rows'[x].age >= Grace /\ x \notin Settled'
      BY <2>1, <3>3, WalkSpares DEF Dead
    <3>5. TypeOK'
      BY <1>0, <2>1, <3>1, <3>2 DEF TypeOK, Since, TagMap
    <3> QED BY <3>1, <3>2, <3>4, <3>5 DEF PassSees, Shrinks, Sound
  <2> QED BY <2>1, <2>2, <2>3
<1>5. ASSUME NEW z \in Items, PruneRow(z) PROVE Sound
  <2>1. /\ prune.pc = "delete" /\ z \in prune.todo
        /\ tags' = tags /\ push' = push /\ del' = del /\ struck' = struck /\ Settle
        /\ rows' \in {rows, Removed(z)}
        /\ prune' = PruneIdle \/ prune' = [prune EXCEPT !.todo = prune.todo \ {z}]
        /\ taken' \in {taken, taken \cup {z}}
    BY <1>0, <1>5 DEF PruneRow, Pass
  <2>2. /\ prune' \in Pass
        /\ \/ prune'.pc = "idle" /\ prune'.todo = {}
           \/ prune'.pc = "delete" /\ prune'.todo \subseteq prune.todo
    <3>1. CASE prune' = PruneIdle
      BY <3>1, PassTypes
    <3>2. CASE prune' = [prune EXCEPT !.todo = prune.todo \ {z}]
      BY <1>0, <2>1, <3>2 DEF Pass
    <3> QED BY <2>1, <3>1, <3>2
  <2>3. since' \in Since /\ Shrinks /\ (prune'.pc # "idle" => since'.stored = since.stored)
    BY <1>0, <2>1, SettleShrinks
  <2>4. rows' \in [Items -> Row] /\ \A x \in Items : rows'[x].age = rows[x].age
    BY <1>0, <2>1, RemovedRow
  <2>5. TypeOK'
    BY <1>0, <2>1, <2>2, <2>3, <2>4 DEF TypeOK, Row, Since, TagMap
  <2>6. Settled' \subseteq Settled
    <3>1. since.there \subseteq Manifests
      BY <1>0 DEF Since
    <3> QED BY <2>3, <3>1, ReachedShrinks DEF Shrinks, Settled
  <2>7. prune.todo \subseteq Items
    BY <1>0 DEF Pass
  <2>8. prune'.pc = "delete" => \A x \in prune'.todo :
            x \notin Settled' /\ (x \in since'.stored \/ rows'[x].age >= Grace)
    BY <2>1, <2>2, <2>3, <2>4, <2>6, <2>7 DEF PassSees
  <2> QED BY <2>2, <2>3, <2>5, <2>8 DEF PassSees, Shrinks, Sound
<1> QED BY <1>1, <1>3, <1>4, <1>5 DEF PruneStep

LEMMA TickRows ==
    ASSUME TypeOK, Tick
    PROVE  /\ rows' \in [Items -> Row]
           /\ \A x \in Items : rows'[x].there = rows[x].there /\ rows'[x].age >= rows[x].age
<1>0. rows \in [Items -> Row] /\ Grace \in Nat
  BY OciAssumption DEF TypeOK, Row
<1>1. ASSUME NEW r \in Row
      PROVE  LET q == [r EXCEPT !.age = IF @ < Grace THEN @ + 1 ELSE @]
             IN  q \in Row /\ q.there = r.there /\ q.age >= r.age
  <2>1. r.age \in 0..Grace
    BY DEF Row
  <2> DEFINE a == IF r.age < Grace THEN r.age + 1 ELSE r.age
  <2>2. a \in 0..Grace /\ a >= r.age
    BY <1>0, <2>1
  <2>3. [r EXCEPT !.age = IF @ < Grace THEN @ + 1 ELSE @] = [r EXCEPT !.age = a]
    BY DEF Row
  <2> HIDE DEF a
  <2> QED BY <2>2, <2>3 DEF Row
<1> QED BY <1>0, <1>1 DEF Tick

LEMMA SoundStep ==
    ASSUME TypeOK, PassSees, [Next]_vars
    PROVE  Sound
<1>1. CASE UNCHANGED vars
  <2>1. TypeOK'
    BY <1>1 DEF vars, TypeOK
  <2>2. PassSees'
    BY <1>1, PassStays, SinceStays DEF vars
  <2> QED BY <2>1, <2>2 DEF Sound
<1>2. CASE Tick
  <2>1. UNCHANGED <<tags, push, del, prune, history>> /\ prune.pc = "idle"
    BY <1>2 DEF Tick
  <2>2. TypeOK'
    BY <1>2, <2>1, TickRows DEF TypeOK, Row, history
  <2>3. Present' = Present
    BY <1>2, TickRows DEF Present, There, Items
  <2> QED BY <2>1, <2>2, <2>3 DEF PassSees, history, Sound
<1> QED BY <1>1, <1>2, SoundDelete, SoundPush, SoundPrune DEF Next

-----------------------------------------------------------------------------
(* What was verified is kept.                                              *)

\* Rows and tags only go; a row goes because a client deletes it, or in the
\* prune, which is written down when tags or pushes count on it.
Takes ==
    /\ push' = push /\ struck \subseteq struck' /\ taken \subseteq taken'
    /\ \A x \in Items : rows'[x].age = rows[x].age /\ (There(x)' => There(x))
    /\ \A x \in Items : There(x) /\ ~There(x)' =>
          \/ x \in struck' \cup taken'
          \/ x \notin Reached \cup Verifying /\ rows[x].age >= Grace
    /\ \A t \in Tags : tags'[t] \in {None, tags[t]}

LEMMA ManifestItems ==
    \A m \in Manifests : m \in Items /\ Needs(m) \subseteq Items
BY OciAssumption DEF Items, Needs

LEMMA TakesKeeps ==
    ASSUME OciInv, Takes
    PROVE  Kept'
<1>0. TypeOK
  BY DEF OciInv
<1>1. GoneIsOld'
  BY DEF OciInv, Kept, GoneIsOld, Takes, Accounted
<1>2. ASSUME NEW m \in Manifests, Verified(m), There(m) => m \in Reached \cup Verifying,
             There(m) => \A x \in Needs(m) : There(x) => x \in Reached \cup Verifying
      PROVE  Verified(m)'
  <2>1. Accounted(m)'
    BY <1>2, ManifestItems DEF Takes, Verified, Accounted
  <2>2. ASSUME There(m)', NEW x \in Needs(m) PROVE Accounted(x)'
    <3>1. There(m) /\ Accounted(x) /\ x \in Items
      BY <1>2, <2>2, ManifestItems DEF Takes, Verified
    <3> QED BY <1>2, <3>1 DEF Takes, Accounted
  <2> QED BY <2>1, <2>2 DEF Verified
<1>3. TagsVerified'
  <2> SUFFICES ASSUME NEW t \in Tags, tags'[t] # None PROVE Verified(tags[t])'
    BY DEF TagsVerified
  <2>1. PICK m \in Manifests : m = tags[t] /\ m = tags'[t]
    BY <1>0 DEF Takes, TypeOK
  <2>2. Verified(m)
    BY <2>1, OciAssumption DEF OciInv, Kept, TagsVerified
  <2>3. Verified(m)'
    BY <1>0, <1>2, <2>1, <2>2, TaggedIsReached, OciAssumption
  <2> QED BY <2>1, <2>3 DEF Verified, Accounted, There
<1>4. ASSUME NEW c \in Clients PROVE PushVerified(c)'
  <2> SUFFICES ASSUME Tagging(c) \/ Checking(c) PROVE PushVerified(c)'
    BY DEF PushVerified, Takes, Tagging, Checking
  <2>1. push[c] # None /\ push[c] \in Pushing
    BY <1>0 DEF TypeOK, Tagging, Checking
  <2>2. PICK m \in Manifests : m = push[c].manifest
    BY <2>1 DEF Pushing
  <2>3. \A x \in Needs(m) \ push[c].left : x \in Verifying
    BY <2>1, <2>2 DEF Verifying
  <2>4. Tagging(c) => m \in Verifying
    BY <2>2 DEF Verifying, Tagging
  <2>5. PushVerified(c)
    BY DEF OciInv, Kept, PushesVerified
  <2>6. Tagging(c) => Verified(m)' /\ push[c].left = {}
    BY <1>2, <2>2, <2>3, <2>4, <2>5 DEF PushVerified
  <2>7. Checking(c) => \A x \in Needs(m) \ push[c].left : Accounted(x)'
    <3> SUFFICES ASSUME Checking(c), NEW x \in Needs(m) \ push[c].left PROVE Accounted(x)'
      OBVIOUS
    <3>1. Accounted(x) /\ x \in Items /\ x \in Verifying
      BY <2>2, <2>3, <2>5, ManifestItems DEF PushVerified
    <3> QED BY <3>1 DEF Takes, Accounted
  <2>8. push' = push
    BY DEF Takes
  <2>9. Tagging(c) => Verified(push[c].manifest)'
    BY <2>2, <2>6, <2>8 DEF Verified, Accounted, There
  <2> QED BY <2>2, <2>6, <2>7, <2>8, <2>9 DEF PushVerified, Tagging, Checking
<1> QED BY <1>1, <1>3, <1>4 DEF Kept, PushesVerified

LEMMA KeptDelete ==
    ASSUME OciInv,
           \/ \E t \in Tags : DeleteTag(t)
           \/ \E x \in Manifests : DeleteTagsByDigest(x)
           \/ DeleteManifestRow
           \/ \E l \in Layers : DeleteBlob(l)
    PROVE  Kept'
<1>0. TypeOK /\ tags \in TagMap
  BY DEF OciInv, TypeOK, TagMap
<1>1. ASSUME rows' = rows, push' = push, struck' = struck, taken' = taken,
             \A t \in Tags : tags'[t] \in {None, tags[t]}
      PROVE  Kept'
  <2>1. Takes
    BY <1>1 DEF Takes, There
  <2> QED BY <2>1, TakesKeeps
<1>2. ASSUME NEW z \in Items, rows' = Removed(z), push' = push, taken' = taken,
             struck' = struck \cup {z}, tags' = tags
      PROVE  Kept'
  <2>1. \A x \in Items : There(x)' => There(x)
    BY <1>0, <1>2, RemovedRow DEF There
  <2>2. \A x \in Items : There(x) /\ ~There(x)' => x = z
    BY <1>0, <1>2, RemovedRow DEF There
  <2>3. Takes
    BY <1>0, <1>2, <2>1, <2>2, RemovedRow DEF Takes
  <2> QED BY <2>3, TakesKeeps
<1>3. ASSUME NEW t \in Tags, DeleteTag(t) PROVE Kept'
  BY <1>0, <1>1, <1>3 DEF DeleteTag, TagMap
<1>4. ASSUME NEW x \in Manifests, DeleteTagsByDigest(x) PROVE Kept'
  BY <1>0, <1>1, <1>4 DEF DeleteTagsByDigest, TagMap
<1>5. ASSUME DeleteManifestRow PROVE Kept'
  <2>1. del \in Items
    BY <1>0, <1>5 DEF DeleteManifestRow, TypeOK, Items
  <2>2. /\ rows' = Removed(del) /\ struck' = struck \cup {del}
        /\ push' = push /\ taken' = taken /\ tags' = tags
    BY <1>5 DEF DeleteManifestRow
  <2> QED BY <1>2, <2>1, <2>2
<1>6. ASSUME NEW l \in Layers, DeleteBlob(l) PROVE Kept'
  BY <1>2, <1>6 DEF DeleteBlob, Items
<1> QED BY <1>3, <1>4, <1>5, <1>6

\* The prune deletes by path what its list says; what was settled is not on it,
\* and the rest is written down or old.
LEMMA KeptPruneRow ==
    ASSUME OciInv, NEW z \in Items, PruneRow(z)
    PROVE  Kept'
<1>0. /\ TypeOK /\ PassSees /\ prune.pc = "delete" /\ z \in prune.todo
      /\ tags' = tags /\ push' = push /\ struck' = struck
      /\ z \notin Settled /\ (z \in since.stored \/ rows[z].age >= Grace)
  BY DEF PruneRow, OciInv, PassSees
<1>1. CASE ~There(z)
  <2>1. rows' = rows /\ taken' = taken
    BY <1>1 DEF PruneRow
  <2>2. Takes
    BY <1>0, <2>1 DEF Takes, There
  <2> QED BY <2>2, TakesKeeps
<1>2. CASE There(z)
  <2>1. rows' = Removed(z) /\ taken' = IF Raced(z) THEN taken \cup {z} ELSE taken
    BY <1>2 DEF PruneRow
  <2>2. \A x \in Items : There(x)' => There(x)
    BY <1>0, <2>1, RemovedRow DEF There
  <2>3. \A x \in Items : There(x) /\ ~There(x)' => x = z
    BY <1>0, <2>1, RemovedRow DEF There
  <2>4. z \in taken' \/ (z \notin Reached \cup Verifying /\ rows[z].age >= Grace)
    <3>1. CASE Raced(z)
      BY <2>1, <3>1
    <3>2. CASE ~Raced(z)
      BY <1>0, <3>2 DEF Raced
    <3> QED BY <3>1, <3>2
  <2>5. Takes
    BY <1>0, <2>1, <2>2, <2>3, <2>4, RemovedRow DEF Takes
  <2> QED BY <2>5, TakesKeeps
<1> QED BY <1>1, <1>2

\* Nothing is verified less when a row is stored, if what is stored is a blob
\* or a manifest whose references were there.
LEMMA StoredKeeps ==
    ASSUME OciInv, NEW z \in Items, rows' = Stored(z), Restored(z),
           z \in Manifests => \A x \in Needs(z) : Accounted(x)
    PROVE  /\ GoneIsOld'
           /\ \A x \in Items : Accounted(x) => Accounted(x)'
           /\ \A m \in Manifests : Verified(m) => Verified(m)'
           /\ z \in Manifests => Verified(z)'
<1>0. TypeOK
  BY DEF OciInv
<1>1. /\ rows'[z].there /\ \A x \in Items : x # z => rows'[x] = rows[x]
      /\ struck' = struck \ {z} /\ taken' = taken \ {z}
  BY <1>0, StoredRow DEF Restored
<1>2. \A x \in Items : Accounted(x) => Accounted(x)'
  BY <1>1 DEF Accounted, There
<1>3. GoneIsOld'
  BY <1>1 DEF OciInv, Kept, GoneIsOld, Accounted, There
<1>4. ASSUME NEW m \in Manifests, m = z \/ Verified(m) PROVE Verified(m)'
  <2>1. Accounted(m)'
    BY <1>1, <1>2, <1>4, ManifestItems DEF Verified, Accounted, There
  <2>2. ASSUME There(m)', NEW x \in Needs(m) PROVE Accounted(x)'
    <3>1. m = z \/ There(m)
      BY <1>1, <2>2, ManifestItems DEF There
    <3>2. Accounted(x)
      BY <1>4, <2>2, <3>1 DEF Verified
    <3> QED BY <1>2, <2>2, <3>2, ManifestItems
  <2> QED BY <2>1, <2>2 DEF Verified
<1> QED BY <1>2, <1>3, <1>4

\* A push changes at most its own record; nothing else is verified less.
LEMMA KeptPush ==
    ASSUME OciInv, NEW c \in Clients, GoneIsOld', TagsVerified',
           \A d \in Clients : d # c => push'[d] = push[d],
           \A x \in Items : Accounted(x) => Accounted(x)',
           \A m \in Manifests : Verified(m) => Verified(m)',
           PushVerified(c)'
    PROVE  Kept'
<1>1. ASSUME NEW d \in Clients, d # c PROVE PushVerified(d)'
  <2>1. push'[d] = push[d] /\ PushVerified(d)
    BY <1>1 DEF OciInv, Kept, PushesVerified
  <2>2. PICK m : m = push[d].manifest
    OBVIOUS
  <2>3. push'[d].manifest = m /\ push'[d].left = push[d].left
    BY <2>1, <2>2
  <2>4. (Tagging(d)' <=> Tagging(d)) /\ (Checking(d)' <=> Checking(d))
    BY <2>1 DEF Tagging, Checking
  <2>5. Tagging(d) \/ Checking(d) => m \in Manifests /\ Needs(m) \subseteq Items
    BY <2>2, ManifestItems DEF OciInv, TypeOK, Pushing, Tagging, Checking
  <2>6. Tagging(d) => Verified(m)' /\ push[d].left = {}
    BY <2>1, <2>2, <2>5 DEF PushVerified
  <2>7. Checking(d) => \A x \in Needs(m) \ push[d].left : Accounted(x)'
    BY <2>1, <2>2, <2>5 DEF PushVerified
  <2>8. Tagging(d) => Verified(push[d].manifest)'
    BY <2>3, <2>6 DEF Verified, Accounted, There
  <2> QED BY <2>3, <2>4, <2>6, <2>7, <2>8 DEF PushVerified
<1> QED BY <1>1 DEF Kept, PushesVerified

\* Tags stay, and what they point at is verified no less.
LEMMA TagsStay ==
    ASSUME OciInv, tags' = tags, \A m \in Manifests : Verified(m) => Verified(m)'
    PROVE  TagsVerified'
<1> SUFFICES ASSUME NEW t \in Tags, tags[t] # None PROVE Verified(tags[t])'
  BY DEF TagsVerified
<1>1. PICK m \in Manifests : m = tags[t]
  BY DEF OciInv, TypeOK
<1>2. Verified(m)'
  BY <1>1 DEF OciInv, Kept, TagsVerified
<1> QED BY <1>1, <1>2 DEF Verified, Accounted, There

LEMMA KeptPushBlob ==
    ASSUME OciInv, NEW l \in Layers, PushBlob(l)
    PROVE  Kept'
<1>1. /\ push' = push /\ tags' = tags /\ rows' = Stored(l) /\ Restored(l)
      /\ l \in Items /\ l \notin Manifests
  BY OciAssumption DEF PushBlob, Items
<1>2. /\ GoneIsOld' /\ \A x \in Items : Accounted(x) => Accounted(x)'
      /\ \A m \in Manifests : Verified(m) => Verified(m)'
  BY <1>1, StoredKeeps
<1>3. TagsVerified'
  BY <1>1, <1>2, TagsStay
<1>4. ASSUME NEW c \in Clients PROVE PushVerified(c)'
  <2>1. PushVerified(c)
    BY DEF OciInv, Kept, PushesVerified
  <2>2. PICK m : m = push[c].manifest
    OBVIOUS
  <2>3. Tagging(c) \/ Checking(c) => m \in Manifests /\ Needs(m) \subseteq Items
    BY <2>2, ManifestItems DEF OciInv, TypeOK, Pushing, Tagging, Checking
  <2>4. Tagging(c) => Verified(m)' /\ push[c].left = {}
    BY <1>2, <2>1, <2>2, <2>3 DEF PushVerified
  <2>5. Checking(c) => \A x \in Needs(m) \ push[c].left : Accounted(x)'
    BY <1>2, <2>1, <2>2, <2>3 DEF PushVerified
  <2>6. Tagging(c) => Verified(push[c].manifest)'
    BY <1>1, <2>2, <2>4 DEF Verified, Accounted, There
  <2> QED BY <1>1, <2>2, <2>4, <2>5, <2>6 DEF PushVerified, Tagging, Checking
<1> QED BY <1>2, <1>3, <1>4 DEF Kept, PushesVerified

\* Only the record of one push changes.
LEMMA KeptRecord ==
    ASSUME OciInv, NEW c \in Clients, UNCHANGED <<rows, tags, history>>,
           NEW r, push' = [push EXCEPT ![c] = r],
           \/ r = None
           \/ /\ r.pc = "checking"
              /\ \A x \in Needs(r.manifest) \ r.left : Accounted(x)
    PROVE  Kept'
<1>0. push'[c] = r /\ \A d \in Clients : d # c => push'[d] = push[d]
  BY DEF OciInv, TypeOK
<1>1. /\ \A x \in Items : Accounted(x) => Accounted(x)'
      /\ \A m \in Manifests : Verified(m) => Verified(m)'
  BY DEF Verified, Accounted, There, history
<1>2. GoneIsOld' /\ TagsVerified'
  BY DEF OciInv, Kept, GoneIsOld, TagsVerified, Verified, Accounted, There, history
<1>3. PushVerified(c)'
  BY <1>0 DEF PushVerified, Tagging, Checking, Accounted, There, history
<1> QED BY <1>0, <1>1, <1>2, <1>3, KeptPush

LEMMA KeptPushManifest ==
    ASSUME OciInv, NEW c \in Clients, NEW x \in Manifests, NEW t \in Tags \cup {None},
           PushManifest(c, x, t)
    PROVE  Kept'
<1> DEFINE r == [pc |-> "checking", manifest |-> x, tag |-> t, left |-> Needs(x)]
<1>1. UNCHANGED <<rows, tags, history>> /\ push' = [push EXCEPT ![c] = r]
  BY DEF PushManifest
<1>2. r.pc = "checking" /\ r.manifest = x /\ r.left = Needs(x)
  OBVIOUS
<1> HIDE DEF r
<1> QED BY <1>1, <1>2, KeptRecord

LEMMA KeptPushStep ==
    ASSUME OciInv, NEW c \in Clients, PushStep(c)
    PROVE  Kept'
<1> DEFINE p == push[c]
<1>0. /\ TypeOK /\ push \in [Clients -> Pushing \cup {None}]
      /\ tags \in TagMap /\ PushVerified(c)
  BY DEF OciInv, TypeOK, TagMap, Kept, PushesVerified
<1>1. p \in Pushing /\ p # None
  BY <1>0 DEF PushStep, CheckReference, RefusePush, PutManifest, PutTag, PutTagFails,
     Checking, Tagging
<1>2. PICK m \in Manifests : m = p.manifest
  BY <1>1 DEF Pushing
<1>3. ASSUME NEW x \in Items, CheckReference(c, x) PROVE Kept'
  <2> DEFINE r == [p EXCEPT !.left = p.left \ {x}]
  <2>1. p.pc = "checking" /\ There(x) /\ UNCHANGED <<rows, tags, history>>
        /\ push' = [push EXCEPT ![c] = r]
    BY <1>3 DEF CheckReference, Checking
  <2>2. r.pc = "checking" /\ r.manifest = p.manifest /\ r.left = p.left \ {x}
    <3> HIDE DEF p
    <3> QED BY <1>1, <2>1 DEF Pushing
  <2>3. \A y \in Needs(p.manifest) \ p.left : Accounted(y)
    BY <1>0, <1>1, <2>1 DEF PushVerified, Checking
  <2> HIDE DEF r, p
  <2>4. \A y \in Needs(r.manifest) \ r.left : Accounted(y)
    BY <2>1, <2>2, <2>3 DEF Accounted
  <2> QED BY <2>1, <2>2, <2>4, KeptRecord
<1>4. ASSUME RefusePush(c) \/ PutTagFails(c) PROVE Kept'
  <2>1. UNCHANGED <<rows, tags, history>> /\ push' = [push EXCEPT ![c] = None]
    BY <1>4 DEF RefusePush, PutTagFails
  <2> QED BY <2>1, KeptRecord
<1>5. ASSUME PutTag(c) PROVE Kept'
  <2>1. /\ rows' = rows /\ struck' = struck /\ taken' = taken
        /\ push' = [push EXCEPT ![c] = None] /\ Tagging(c)
        /\ tags' = [tags EXCEPT ![p.tag] = m]
    BY <1>2, <1>5 DEF PutTag
  <2>2. push'[c] = None /\ \A d \in Clients : d # c => push'[d] = push[d]
    BY <1>0, <2>1
  <2>3. \A t \in Tags : tags'[t] = tags[t] \/ tags'[t] = m
    BY <1>0, <2>1 DEF TagMap
  <2>4. /\ \A x \in Items : Accounted(x) => Accounted(x)'
        /\ \A k : Verified(k) => Verified(k)'
    BY <2>1 DEF Verified, Accounted, There
  <2>5. Verified(m)
    BY <1>0, <1>2, <2>1 DEF PushVerified
  <2>6. TagsVerified'
    <3> SUFFICES ASSUME NEW t \in Tags, tags'[t] # None PROVE Verified(tags[t])'
      BY DEF TagsVerified
    <3>1. PICK k : k = tags'[t]
      OBVIOUS
    <3>2. Verified(k)
      BY <2>3, <2>5, <3>1 DEF OciInv, Kept, TagsVerified
    <3>3. Verified(k)'
      BY <2>4, <3>2
    <3> QED BY <3>1, <3>3 DEF Verified, Accounted, There
  <2>7. GoneIsOld'
    BY <2>1 DEF OciInv, Kept, GoneIsOld, Accounted, There
  <2>8. PushVerified(c)'
    BY <2>2 DEF PushVerified, Tagging, Checking
  <2> QED BY <2>2, <2>4, <2>6, <2>7, <2>8, KeptPush
<1>6. ASSUME PutManifest(c) PROVE Kept'
  <2> DEFINE r == IF p.tag = None THEN None ELSE [p EXCEPT !.pc = "tagging"]
  <2>1. /\ Checking(c) /\ p.left = {}
        /\ rows' = Stored(m) /\ Restored(m) /\ tags' = tags
        /\ push' = [push EXCEPT ![c] = r]
    BY <1>2, <1>6 DEF PutManifest
  <2>2. \/ r = None
        \/ r \in Pushing /\ r.pc = "tagging" /\ r.manifest = m /\ r.left = {}
    <3> HIDE DEF p
    <3> QED BY <1>1, <1>2, <2>1 DEF Pushing
  <2>3. \A x \in Needs(m) : Accounted(x)
    BY <1>0, <1>2, <2>1 DEF PushVerified
  <2>4. /\ GoneIsOld' /\ \A x \in Items : Accounted(x) => Accounted(x)'
        /\ \A k \in Manifests : Verified(k) => Verified(k)'
        /\ Verified(m)'
    BY <2>1, <2>3, ManifestItems, StoredKeeps
  <2> HIDE DEF r
  <2>5. push'[c] = r /\ \A d \in Clients : d # c => push'[d] = push[d]
    BY <1>0, <2>1
  <2>6. TagsVerified'
    BY <2>1, <2>4, TagsStay
  <2>7. PushVerified(c)'
    <3>1. CASE r = None
      BY <2>5, <3>1 DEF PushVerified, Tagging, Checking
    <3>2. CASE r.pc = "tagging" /\ r.manifest = m /\ r.left = {}
      <4>1. Verified(push[c].manifest)'
        BY <2>4, <2>5, <3>2 DEF Verified, Accounted, There
      <4> QED BY <2>5, <3>2, <4>1 DEF PushVerified, Checking
    <3> QED BY <2>2, <3>1, <3>2
  <2> QED BY <2>4, <2>5, <2>6, <2>7, KeptPush
<1> QED BY <1>3, <1>4, <1>5, <1>6 DEF PushStep

\* Nothing changes but the pass.
LEMMA KeptRead ==
    ASSUME OciInv, UNCHANGED <<rows, tags, push, struck, taken>>
    PROVE  Kept'
<1>1. GoneIsOld' /\ TagsVerified'
  BY DEF OciInv, Kept, GoneIsOld, TagsVerified, Verified, Accounted, There
<1>2. PushesVerified'
  BY DEF OciInv, Kept, PushesVerified, PushVerified, Tagging, Checking, Verified, Accounted, There
<1> QED BY <1>1, <1>2 DEF Kept

LEMMA KeptTick ==
    ASSUME OciInv, Tick
    PROVE  Kept'
<1>0. /\ TypeOK /\ Grace \in Nat /\ rows \in [Items -> Row] /\ rows' \in [Items -> Row]
      /\ UNCHANGED <<tags, push, struck, taken>> /\ \A c \in Clients : push[c] = None
      /\ \A x \in Items : rows'[x].there = rows[x].there /\ rows'[x].age >= rows[x].age
  BY TickRows, OciAssumption DEF OciInv, TypeOK, Row, Tick, history
<1>1. \A x \in Items : Accounted(x)' <=> Accounted(x)
  BY <1>0 DEF Accounted, There
<1>2. GoneIsOld'
  <2> SUFFICES ASSUME NEW x \in Items, ~Accounted(x)' PROVE rows'[x].age >= Grace
    BY DEF GoneIsOld
  <2>1. rows[x].age >= Grace
    BY <1>1 DEF OciInv, Kept, GoneIsOld
  <2>2. rows[x].age \in Int /\ rows'[x].age \in Int
    BY <1>0 DEF Row
  <2> QED BY <1>0, <2>1, <2>2
<1>3. ASSUME NEW m \in Manifests, Verified(m) PROVE Verified(m)'
  <2>1. There(m)' => There(m)
    BY <1>0, ManifestItems DEF There
  <2> QED BY <1>1, <1>3, <2>1, ManifestItems DEF Verified
<1>4. TagsVerified'
  BY <1>0, <1>3, TagsStay
<1>5. PushesVerified'
  BY <1>0 DEF PushesVerified, PushVerified, Tagging, Checking
<1> QED BY <1>2, <1>4, <1>5 DEF Kept

LEMMA OciInvStep ==
    ASSUME OciInv, [Next]_vars
    PROVE  OciInv'
<1>1. TypeOK' /\ PassSees'
  BY SoundStep DEF OciInv, Sound
<1>2. Kept'
  <2>1. CASE UNCHANGED vars
    BY <2>1, KeptRead DEF vars
  <2>2. ASSUME PruneStep PROVE Kept'
    BY <2>2, KeptRead, KeptPruneRow DEF PruneStep, ReadTags, WalkFails, Walk
  <2>3. CASE Next
    BY <2>2, <2>3, KeptDelete, KeptPushBlob, KeptPushManifest, KeptPushStep, KeptTick DEF Next
  <2> QED BY <2>1, <2>3
<1> QED BY <1>1, <1>2 DEF OciInv

-----------------------------------------------------------------------------
\* What a push has verified stays there for as long as its tag, with pushes and
\* passes in any order, unless a client deletes a part of it or a pass that had
\* read before takes it: oci_put_manifest tags only what it has found, and the
\* walk of prune_oci_repo reaches everything a tag does, in any graph of indexes,
\* children and referrers.
THEOREM TaggedStaysComplete ==
    Spec => []VerifiedStaysThere
<1>1. OciInv /\ [Next]_vars => OciInv'
  BY OciInvStep
<1>2. OciInv => VerifiedStaysThere
  <2> SUFFICES ASSUME OciInv, NEW t \in Tags, tags[t] # None,
                      Untouched(tags[t]), Unraced(tags[t]),
                      NEW x \in {tags[t]} \cup Needs(tags[t])
               PROVE  There(x)
    BY DEF VerifiedStaysThere, OciInv
  <2>1. Verified(tags[t])
    BY DEF OciInv, Kept, TagsVerified
  <2>2. {tags[t]} \cup Needs(tags[t]) \subseteq Image(tags[t])
    BY DEF Image
  <2>3. x \notin struck \cup taken /\ tags[t] \notin struck \cup taken
    BY <2>2 DEF Untouched, Unraced
  <2> QED BY <2>1, <2>3 DEF Verified, Accounted
<1> QED BY <1>1, <1>2, OciInvInit, PTL DEF Spec

\* The prune takes nothing that has been reached, by the same tags and manifests,
\* since before it read, though it deletes by path, from a list made before, and
\* pushes go on (prune_oci_repo).
THEOREM PruneTakesOnlyGarbage ==
    Spec => PruneSparesTheLive
<1>1. OciInv /\ [Next]_vars => OciInv'
  BY OciInvStep
<1>2. OciInv => [\A x \in Items : Prunes(x) => x \notin Settled]_vars
  BY DEF OciInv, PassSees, Prunes
<1> QED BY <1>1, <1>2, OciInvInit, PTL DEF Spec, PruneSparesTheLive

\* A push is refused only for a reference that a client deleted, that was not
\* pushed within OCI_PRUNE_GRACE, or that a pass deleted which had read before the
\* reference was pushed or verified.
THEOREM PushesHaveTheGrace ==
    Spec => PushWindowProtected
<1>1. OciInv /\ [Next]_vars => OciInv'
  BY OciInvStep
<1> DEFINE Protected ==
        \A c \in Clients : Checking(c) /\ push'[c] = None /\ push[c].left # {}
            => \E x \in push[c].left : ~There(x) /\ (x \in struck \cup taken \/ rows[x].age >= Grace)
<1>2. OciInv /\ [Next]_vars => [Protected]_vars
  <2> SUFFICES ASSUME OciInv, Next, NEW c \in Clients, Checking(c), push'[c] = None,
                      push[c].left # {}
               PROVE  \E x \in push[c].left : ~There(x) /\ (x \in struck \cup taken \/ rows[x].age >= Grace)
    OBVIOUS
  <2>0. push \in [Clients -> Pushing \cup {None}] /\ push[c] # None /\ push[c] \in Pushing
        /\ push[c].pc = "checking"
    BY DEF OciInv, TypeOK, Checking
  <2>1. push' # push
    BY <2>0
  <2>2. \/ \E d \in Clients : PushStep(d)
        \/ \E d \in Clients, x \in Manifests, t \in Tags \cup {None} : PushManifest(d, x, t)
    BY <2>1 DEF Next, PushBlob, DeleteBlob, DeleteTag, DeleteTagsByDigest, DeleteManifestRow,
       PruneStep, ReadTags, WalkFails, Walk, PruneRow, Tick
  <2>3. ASSUME NEW d \in Clients, NEW x \in Manifests, NEW t \in Tags \cup {None}, PushManifest(d, x, t)
        PROVE  FALSE
    <3>1. d # c /\ push' = [push EXCEPT ![d] =
              [pc |-> "checking", manifest |-> x, tag |-> t, left |-> Needs(x)]]
      BY <2>0, <2>3 DEF PushManifest
    <3> QED BY <2>0, <3>1
  <2>4. PICK d \in Clients : PushStep(d)
    BY <2>2, <2>3
  <2>5. \E r : push' = [push EXCEPT ![d] = r]
    <3>1. ASSUME NEW x \in Items, CheckReference(d, x)
          PROVE  push' = [push EXCEPT ![d] = [push[d] EXCEPT !.left = push[d].left \ {x}]]
      BY <3>1 DEF CheckReference
    <3>2. ASSUME PutManifest(d)
          PROVE  push' = [push EXCEPT ![d] =
                    IF push[d].tag = None THEN None ELSE [push[d] EXCEPT !.pc = "tagging"]]
      BY <3>2 DEF PutManifest
    <3> QED BY <2>4, <3>1, <3>2 DEF PushStep, RefusePush, PutTag, PutTagFails
  <2>6. d = c
    BY <2>0, <2>5
  <2>7. ASSUME NEW x \in Items, CheckReference(c, x) PROVE FALSE
    <3> DEFINE p == push[c]
               r == [p EXCEPT !.left = p.left \ {x}]
    <3>1. r \in Pushing
      <4>1. p \in Pushing
        BY <2>0
      <4> HIDE DEF p
      <4> QED BY <4>1 DEF Pushing
    <3>2. push' = [push EXCEPT ![c] = r]
      BY <2>7 DEF CheckReference
    <3> HIDE DEF r
    <3>3. push'[c] = r
      BY <2>0, <3>2
    <3> QED BY <3>1, <3>3, NoneAssumption
  <2>8. RefusePush(c)
    BY <2>0, <2>4, <2>6, <2>7 DEF PushStep, PutManifest, PutTag, PutTagFails, Tagging
  <2>9. PICK x \in push[c].left : ~There(x)
    BY <2>8 DEF RefusePush
  <2>10. x \in Items
    BY <2>0, <2>9 DEF Pushing
  <2> QED BY <2>9, <2>10 DEF OciInv, Kept, GoneIsOld, Accounted
<1>3. [Protected]_vars => [\A c \in Clients : Checking(c) /\ push'[c] = None /\ push[c].left # {}
          => \E x \in push[c].left : ~There(x) /\ (x \in struck \cup taken \/ rows[x].age >= Grace)]_vars
  OBVIOUS
<1> QED BY <1>1, <1>2, <1>3, OciInvInit, PTL DEF Spec, PushWindowProtected

=============================================================================
