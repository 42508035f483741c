-------------------------- MODULE BlobStoreProofs ---------------------------
(***************************************************************************)
(* Theorems about the blob store, for every number of digests,             *)
(* repositories, paths and requests and every grace period, age of the     *)
(* durable copy, life of a plan and length of a sweep.                     *)
(***************************************************************************)
EXTENDS BlobStore, FiniteSetTheorems, TLAPS

\* A count and its stamp beside the number of artifacts they stand for: not
\* below them nor more than MaxLeak above, stamped exactly when zero.
Consistent(row, n) ==
    row # None => /\ row.refs - n \in 0..MaxLeak
                  /\ (row.refs = 0) = (row.free # None)

\* What the rows of a database say of its artifacts.
Covers(d) ==
    \A b \in Blobs : /\ Holders(d, b) # {} => d.rows[b] # None
                     /\ Consistent(d.rows[b], Cardinality(Holders(d, b)))

\* A row that is counted, or free since this very tick.
Fresh(row) == row # None /\ (IsFree(row) => row.free = 0)

\* What a transaction does to the rows: those it touches are fresh.
Renews(d, e) == \A b \in Blobs : e.rows[b] = d.rows[b] \/ Fresh(e.rows[b])

\* A request past its lock, and a sweep past its list, have a digest in hand.
InHand ==
    /\ \A q \in Requests : req[q] # NoRequest /\ req[q].pc # "locked" => req[q].blob \in Blobs
    /\ sweep.pc \in {"waiting", "deleting"} => sweep.blob \in Blobs

\* The inductive invariant behind RowsCoverArtifacts.  The durable copy is part
\* of it because a failover makes it the leader's database.
CountInv == TypeOK /\ Covers(db) /\ Covers(durable) /\ InHand

-----------------------------------------------------------------------------
(***************************************************************************)
(* Artifacts that share a blob, and the rows that count them.              *)
(***************************************************************************)
LEMMA Finite == IsFiniteSet(Slots) /\ Cardinality(Slots) \in Nat
<1>1. IsFiniteSet(Slots)
  BY BlobAssumption, FS_Product DEF Slots
<1> QED BY <1>1, FS_CardinalityType

LEMMA HoldersFinite ==
    ASSUME NEW d, NEW b
    PROVE  /\ IsFiniteSet(Holders(d, b)) /\ Cardinality(Holders(d, b)) \in Nat
           /\ Cardinality(Holders(d, b)) <= Cardinality(Slots)
           /\ Cardinality(Holders(d, b)) = 0 <=> Holders(d, b) = {}
<1>1. Holders(d, b) \in SUBSET Slots
  BY DEF Holders
<1>2. IsFiniteSet(Holders(d, b)) /\ Cardinality(Holders(d, b)) <= Cardinality(Slots)
  BY <1>1, Finite, FS_Subset
<1> QED BY <1>2, FS_CardinalityType, FS_EmptySet

\* The artifacts of a blob when the artifact of one path becomes another.
LEMMA HoldersMove ==
    ASSUME NEW d \in Database, NEW e, NEW s \in Slots, NEW n \in Blobs \cup {None},
           e.arts = [d.arts EXCEPT ![s] = n], NEW b \in Blobs
    PROVE  /\ b = n => Holders(e, b) = Holders(d, b) \cup {s}
           /\ b # n => Holders(e, b) = Holders(d, b) \ {s}
           /\ (s \in Holders(d, b)) = (d.arts[s] = b)
           /\ b # n /\ d.arts[s] # b => Holders(e, b) = Holders(d, b)
BY DEF Holders, Database

LEMMA RowIsNotNone == ASSUME NEW r \in Row PROVE r # None
BY NoneAssumption

LEMMA AgeIsNotNone == ASSUME NEW a \in 0..MaxAge PROVE a # None
BY NoneAssumption

LEMMA Constants ==
    /\ Grace \in Nat /\ MaxLag \in Nat /\ PlanLife \in Nat /\ MaxSweep \in Nat
    /\ SweepBatch \in Nat /\ MaxLeak \in Nat /\ MaxAge \in Nat /\ MaxAge >= Grace
    /\ MaxLag < Grace /\ PlanLife < Grace
BY BlobAssumption DEF MaxAge

\* A new row, and a row whose count goes up or down.
LEMMA NewRow ==
    ASSUME NEW r, r = [refs |-> 0, free |-> 0]
    PROVE  r \in Row /\ Consistent(r, 0) /\ Fresh(r)
<1>1. 0 \in 0..MaxAge /\ 0 \in 0..(Cardinality(Slots) + MaxLeak)
  BY Constants, Finite
<1>2. r \in Row
  BY <1>1 DEF Row
<1>3. r.refs = 0 /\ r.free = 0 /\ 0 # None /\ r # None
  BY <1>1, <1>2, AgeIsNotNone, RowIsNotNone
<1> QED BY <1>2, <1>3, Constants DEF Consistent, Fresh

LEMMA RowUp ==
    ASSUME NEW r \in Row, NEW n \in Nat, n + 1 <= Cardinality(Slots), Consistent(r, n),
           NEW u, u = [refs |-> r.refs + 1, free |-> Stamp(r, r.refs + 1)]
    PROVE  u \in Row /\ Consistent(u, n + 1) /\ Fresh(u)
<1>1. r.refs \in Nat /\ r.refs - n \in 0..MaxLeak
  BY Constants, Finite, RowIsNotNone DEF Row, Consistent
<1>2. Stamp(r, r.refs + 1) = None
  BY <1>1 DEF Stamp
<1>3. u = [refs |-> r.refs + 1, free |-> None]
  BY <1>2
<1>4. r.refs + 1 \in 0..(Cardinality(Slots) + MaxLeak) /\ r.refs + 1 - (n + 1) \in 0..MaxLeak
  BY <1>1, Constants, Finite
<1>5. u \in Row
  BY <1>3, <1>4 DEF Row
<1>6. u.refs = r.refs + 1 /\ u.free = None
  BY <1>3
<1> QED BY <1>1, <1>4, <1>5, <1>6, RowIsNotNone DEF Consistent, Fresh, IsFree

\* The row r with k of its references gone, and j of its n artifacts.
LEMMA RowDown ==
    ASSUME NEW r \in Row, NEW n \in Nat, Consistent(r, n),
           NEW k \in Nat, k > 0, NEW j \in 0..n, r.refs - k - (n - j) \in 0..MaxLeak,
           NEW u, \/ u = [refs |-> r.refs - k, free |-> Stamp(r, r.refs - k)]
                  \/ u = Unpin(r, k)
    PROVE  u \in Row /\ Consistent(u, n - j) /\ Fresh(u)
<1>1. r.refs \in 0..(Cardinality(Slots) + MaxLeak) /\ r.refs - k \in Nat /\ r.refs > 0
  BY Constants, Finite DEF Row
<1>2. r.free = None
  BY <1>1, RowIsNotNone DEF Consistent
<1>3. u = [refs |-> r.refs - k, free |-> IF r.refs - k = 0 THEN 0 ELSE None]
  BY <1>1, <1>2 DEF Stamp, Unpin
<1>4. r.refs - k \in 0..(Cardinality(Slots) + MaxLeak) /\ 0 \in 0..MaxAge
  BY <1>1, Constants, Finite
<1>5. u \in Row
  BY <1>3, <1>4 DEF Row
<1>6. u.refs = r.refs - k /\ u.free = IF r.refs - k = 0 THEN 0 ELSE None
  BY <1>3
<1>7. 0 # None
  BY <1>4, AgeIsNotNone
<1>8. Consistent(u, n - j)
  BY <1>1, <1>6, <1>7 DEF Consistent
<1> QED BY <1>1, <1>5, <1>6, <1>7, <1>8, RowIsNotNone DEF Fresh, IsFree

-----------------------------------------------------------------------------
(***************************************************************************)
(* The transactions on a database d that keeps its counts.                 *)
(***************************************************************************)
Good(d) == d \in Database /\ Covers(d)

\* A database is good when its parts are typed and each row fits its artifacts.
LEMMA GoodByRows ==
    ASSUME NEW d, NEW rows, NEW arts \in [Slots -> Blobs \cup {None}], NEW plan \in Plan \cup {None},
           d = [rows |-> rows, arts |-> arts, plan |-> plan],
           rows = [b \in Blobs |-> rows[b]],
           \A b \in Blobs : \/ rows[b] = None /\ Holders(d, b) = {}
                            \/ rows[b] \in Row /\ Consistent(rows[b], Cardinality(Holders(d, b)))
    PROVE  Good(d)
<1>1. rows \in [Blobs -> Row \cup {None}]
  OBVIOUS
<1>2. d \in Database
  BY <1>1 DEF Database
<1>3. d.rows = rows
  OBVIOUS
<1>4. Covers(d)
  BY <1>3, RowIsNotNone DEF Covers, Consistent
<1> QED BY <1>2, <1>4 DEF Good

LEMMA GoodRow ==
    ASSUME NEW d, Good(d), NEW b \in Blobs
    PROVE  /\ d.rows[b] \in Row \cup {None}
           /\ Holders(d, b) # {} => d.rows[b] # None /\ d.rows[b] \in Row
           /\ Consistent(d.rows[b], Cardinality(Holders(d, b)))
           /\ d.rows[b] = None => Holders(d, b) = {}
BY DEF Good, Database, Covers

\* EnsureBlob gives a blob a row and leaves every other row as it is.
LEMMA EnsureBlobRow ==
    ASSUME NEW d, Good(d), NEW b \in Blobs
    PROVE  /\ EnsureBlob(d.rows, b) \in [Blobs -> Row \cup {None}]
           /\ \A c \in Blobs \ {b} : EnsureBlob(d.rows, b)[c] = d.rows[c]
           /\ EnsureBlob(d.rows, b)[b] \in Row
           /\ Consistent(EnsureBlob(d.rows, b)[b], Cardinality(Holders(d, b)))
           /\ EnsureBlob(d.rows, b)[b] = d.rows[b] \/ Fresh(EnsureBlob(d.rows, b)[b])
           /\ d.rows[b] # None => EnsureBlob(d.rows, b) = d.rows
           /\ d.rows[b] = None => EnsureBlob(d.rows, b)[b].free = 0
<1>1. d.rows \in [Blobs -> Row \cup {None}]
  BY DEF Good, Database
<1>2. CASE d.rows[b] # None
  <2>1. EnsureBlob(d.rows, b) = d.rows
    BY <1>2 DEF EnsureBlob
  <2> QED BY <1>1, <1>2, <2>1, GoodRow
<1>3. CASE d.rows[b] = None
  <2> DEFINE z == [refs |-> 0, free |-> 0]
  <2>1. EnsureBlob(d.rows, b) = [d.rows EXCEPT ![b] = z]
    BY <1>3 DEF EnsureBlob
  <2>2. z \in Row /\ Consistent(z, 0) /\ Fresh(z) /\ z.free = 0
    BY NewRow
  <2>3. Cardinality(Holders(d, b)) = 0
    BY <1>3, GoodRow, FS_EmptySet
  <2> HIDE DEF z
  <2> QED BY <1>1, <1>3, <2>1, <2>2, <2>3
<1> QED BY <1>2, <1>3

\* The database with a row for b and with this plan.
Ensured(d, b, plan) == [d EXCEPT !.rows = EnsureBlob(d.rows, b), !.plan = plan]

LEMMA EnsureBlobGood ==
    ASSUME NEW d, Good(d), NEW b \in Blobs, NEW plan \in Plan \cup {None},
           NEW e, e = Ensured(d, b, plan)
    PROVE  Good(e) /\ Renews(d, e) /\ e.arts = d.arts /\ e.plan = plan
           /\ e.rows = EnsureBlob(d.rows, b)
<1>1. e = [rows |-> EnsureBlob(d.rows, b), arts |-> d.arts, plan |-> plan]
      /\ d.arts \in [Slots -> Blobs \cup {None}]
  BY DEF Good, Database, Ensured
<1>2. \A c : Holders(e, c) = Holders(d, c)
  BY <1>1 DEF Holders
<1>3. EnsureBlob(d.rows, b) \in [Blobs -> Row \cup {None}]
  BY EnsureBlobRow
<1>4. ASSUME NEW c \in Blobs
      PROVE  \/ EnsureBlob(d.rows, b)[c] = None /\ Holders(e, c) = {}
             \/ /\ EnsureBlob(d.rows, b)[c] \in Row
                /\ Consistent(EnsureBlob(d.rows, b)[c], Cardinality(Holders(e, c)))
  BY <1>2, GoodRow, EnsureBlobRow
<1>5. Good(e)
  <2> DEFINE rows == EnsureBlob(d.rows, b)
  <2>1. rows = [c \in Blobs |-> rows[c]]
    BY <1>3
  <2>2. e = [rows |-> rows, arts |-> d.arts, plan |-> plan]
    BY <1>1
  <2>3. \A c \in Blobs : \/ rows[c] = None /\ Holders(e, c) = {}
                         \/ rows[c] \in Row /\ Consistent(rows[c], Cardinality(Holders(e, c)))
    BY <1>4
  <2> HIDE DEF rows
  <2> QED BY <1>1, <2>1, <2>2, <2>3, GoodByRows
<1>6. e.rows = EnsureBlob(d.rows, b) /\ e.arts = d.arts /\ e.plan = plan
  BY <1>1
<1>7. Renews(d, e)
  BY <1>6, EnsureBlobRow DEF Renews
<1> QED BY <1>5, <1>6, <1>7

\* A row with one reference more, and with one less.
Up(r) == [refs |-> r.refs + 1, free |-> Stamp(r, r.refs + 1)]
Down(r) == [refs |-> r.refs - 1, free |-> Stamp(r, r.refs - 1)]

LEMMA PutAtGood ==
    ASSUME NEW d, Good(d), NEW s \in Slots, NEW b \in Blobs,
           NEW e, e = PutAt(d, s, b)
    PROVE  /\ Good(e) /\ Renews(d, e)
           /\ e.arts = [d.arts EXCEPT ![s] = b] /\ e.plan = d.plan
<1> DEFINE old == d.arts[s]
           arts == [d.arts EXCEPT ![s] = b]
           R0 == EnsureBlob(d.rows, b)
           R == CASE old = None -> AddRef(R0, b)
                  [] old \in Blobs \ {b} -> DropRef(AddRef(R0, b), old)
                  [] OTHER -> R0
<1>1. /\ d \in Database /\ d.rows \in [Blobs -> Row \cup {None}]
      /\ d.arts \in [Slots -> Blobs \cup {None}] /\ d.plan \in Plan \cup {None}
      /\ old \in Blobs \cup {None} /\ arts \in [Slots -> Blobs \cup {None}]
  BY DEF Good, Database
<1>2. e = [rows |-> R, arts |-> arts, plan |-> d.plan]
  BY <1>1 DEF PutAt, Database
<1>3. /\ R0 \in [Blobs -> Row \cup {None}] /\ \A c \in Blobs \ {b} : R0[c] = d.rows[c]
      /\ R0[b] \in Row /\ Consistent(R0[b], Cardinality(Holders(d, b)))
      /\ R0[b] = d.rows[b] \/ Fresh(R0[b])
  BY EnsureBlobRow
<1>4. R0[b] # None /\ None \notin Blobs
  BY <1>3, RowIsNotNone, BlobAssumption
<1> HIDE DEF R0
<1>5. AddRef(R0, b) = [R0 EXCEPT ![b] = Up(R0[b])]
  BY <1>4 DEF AddRef, Up
<1>6. old # b => /\ Cardinality(Holders(e, b)) = Cardinality(Holders(d, b)) + 1
                 /\ Cardinality(Holders(d, b)) + 1 <= Cardinality(Slots)
  <2> SUFFICES ASSUME old # b PROVE /\ Cardinality(Holders(e, b)) = Cardinality(Holders(d, b)) + 1
                                    /\ Cardinality(Holders(d, b)) + 1 <= Cardinality(Slots)
    OBVIOUS
  <2>1. e.arts = [d.arts EXCEPT ![s] = b]
    BY <1>2
  <2>2. Holders(e, b) = Holders(d, b) \cup {s} /\ s \notin Holders(d, b)
    BY <1>1, <2>1, HoldersMove
  <2>3. Cardinality(Holders(e, b)) = Cardinality(Holders(d, b)) + 1
    BY <2>2, HoldersFinite, FS_AddElement
  <2> QED BY <2>3, HoldersFinite
<1>7. old # b => /\ Up(R0[b]) \in Row /\ Fresh(Up(R0[b]))
                 /\ Consistent(Up(R0[b]), Cardinality(Holders(e, b)))
  BY <1>3, <1>6, RowUp, HoldersFinite DEF Up
<1>8. old \in Blobs \ {b} =>
        /\ d.rows[old] # None
        /\ Down(d.rows[old]) \in Row /\ Fresh(Down(d.rows[old]))
        /\ Consistent(Down(d.rows[old]), Cardinality(Holders(e, old)))
  <2> SUFFICES ASSUME old \in Blobs \ {b}
               PROVE  /\ d.rows[old] # None
                      /\ Down(d.rows[old]) \in Row /\ Fresh(Down(d.rows[old]))
                      /\ Consistent(Down(d.rows[old]), Cardinality(Holders(e, old)))
    OBVIOUS
  <2>1. e.arts = [d.arts EXCEPT ![s] = b]
    BY <1>2
  <2>2. Holders(e, old) = Holders(d, old) \ {s} /\ s \in Holders(d, old)
    BY <1>1, <2>1, HoldersMove
  <2> DEFINE n == Cardinality(Holders(d, old))
             r == d.rows[old]
  <2>3. Cardinality(Holders(e, old)) = n - 1 /\ n \in Nat /\ n > 0
    <3>1. IsFiniteSet(Holders(d, old)) /\ n \in Nat /\ (n = 0 <=> Holders(d, old) = {})
      BY HoldersFinite
    <3>2. Cardinality(Holders(d, old) \ {s}) = n - 1
      BY <2>2, <3>1, FS_RemoveElement
    <3> QED BY <2>2, <3>1, <3>2
  <2>4. r # None /\ r \in Row /\ Consistent(r, n)
    BY <2>2, GoodRow
  <2> HIDE DEF n, r, old
  <2>5. r.refs - n \in 0..MaxLeak /\ r.refs \in Nat
    BY <2>4, Finite, Constants DEF Consistent, Row
  <2>6. r.refs - 1 - (n - 1) \in 0..MaxLeak
    BY <2>3, <2>5, Constants
  <2>7. Down(r) \in Row /\ Consistent(Down(r), n - 1) /\ Fresh(Down(r))
    BY <2>3, <2>4, <2>6, RowDown, 1 \in 0..n DEF Down
  <2> QED BY <2>3, <2>4, <2>7 DEF n, r
<1>9. \A c \in Blobs \ {b, old} : Holders(e, c) = Holders(d, c)
  <2>1. e.arts = [d.arts EXCEPT ![s] = b]
    BY <1>2
  <2> QED BY <1>1, <2>1, HoldersMove
<1>10. old = b => Holders(e, b) = Holders(d, b)
  <2>1. e.arts = [d.arts EXCEPT ![s] = b]
    BY <1>2
  <2>2. /\ Holders(e, b) = Holders(d, b) \cup {s}
        /\ old = b => s \in Holders(d, b)
    BY <1>1, <2>1, HoldersMove
  <2> QED BY <2>2
<1>11. /\ R \in [Blobs -> Row \cup {None}]
       /\ R[b] \in Row /\ Consistent(R[b], Cardinality(Holders(e, b)))
       /\ R[b] = d.rows[b] \/ Fresh(R[b])
       /\ old \in Blobs \ {b} => /\ R[old] \in Row /\ Fresh(R[old])
                                 /\ Consistent(R[old], Cardinality(Holders(e, old)))
       /\ \A c \in Blobs \ {b, old} : R[c] = d.rows[c]
  <2>1. CASE old = b
    <3>1. R = R0
      BY <1>4, <2>1
    <3> QED BY <1>3, <1>10, <2>1, <3>1
  <2>2. CASE old = None
    <3>1. R = [R0 EXCEPT ![b] = Up(R0[b])]
      BY <1>4, <1>5, <2>2
    <3>2. old # b
      BY <1>4, <2>2
    <3> HIDE DEF R, old
    <3> QED BY <1>3, <1>4, <1>7, <2>2, <3>1, <3>2
  <2>3. CASE old \in Blobs \ {b}
    <3>1. R = DropRef(AddRef(R0, b), old)
      BY <1>4, <2>3
    <3>2. AddRef(R0, b)[old] = d.rows[old]
      BY <1>3, <1>5, <2>3
    <3>3. DropRef(AddRef(R0, b), old) = [AddRef(R0, b) EXCEPT ![old] = Down(d.rows[old])]
      BY <1>8, <2>3, <3>2 DEF DropRef, Down
    <3>4. R = [[R0 EXCEPT ![b] = Up(R0[b])] EXCEPT ![old] = Down(d.rows[old])]
      BY <1>5, <3>1, <3>3
    <3> HIDE DEF R, old
    <3> QED BY <1>3, <1>7, <1>8, <2>3, <3>4
  <2> QED BY <1>1, <2>1, <2>2, <2>3
<1> HIDE DEF R, old, arts
<1>12. \A c \in Blobs : \/ R[c] = None /\ Holders(e, c) = {}
                        \/ R[c] \in Row /\ Consistent(R[c], Cardinality(Holders(e, c)))
  BY <1>9, <1>11, GoodRow
<1>13. Good(e)
  <2>1. R = [c \in Blobs |-> R[c]]
    BY <1>11
  <2> QED BY <1>1, <1>2, <1>12, <2>1, GoodByRows
<1>14. e.rows = R /\ e.arts = arts /\ e.plan = d.plan
  BY <1>2
<1>15. Renews(d, e)
  BY <1>11, <1>14 DEF Renews
<1> QED BY <1>13, <1>14, <1>15 DEF arts

LEMMA DeleteGood ==
    ASSUME NEW d, Good(d), NEW s \in Slots, d.arts[s] # None,
           NEW e, e = [d EXCEPT !.rows = DropRef(d.rows, d.arts[s]), !.arts[s] = None]
    PROVE  /\ Good(e) /\ Renews(d, e)
           /\ e.arts = [d.arts EXCEPT ![s] = None] /\ e.plan = d.plan
<1> DEFINE old == d.arts[s]
           n == Cardinality(Holders(d, old))
           r == d.rows[old]
           R == [d.rows EXCEPT ![old] = Down(r)]
           arts == [d.arts EXCEPT ![s] = None]
<1>1. /\ d \in Database /\ d.rows \in [Blobs -> Row \cup {None}]
      /\ d.arts \in [Slots -> Blobs \cup {None}] /\ d.plan \in Plan \cup {None}
      /\ old \in Blobs /\ arts \in [Slots -> Blobs \cup {None}]
  BY DEF Good, Database
<1>2. s \in Holders(d, old)
  BY DEF Holders
<1>3. r \in Row /\ r # None /\ Consistent(r, n)
  BY <1>1, <1>2, GoodRow
<1>4. e = [rows |-> R, arts |-> arts, plan |-> d.plan]
  <2>1. DropRef(d.rows, old) = R
    BY <1>3 DEF DropRef, Down
  <2> QED BY <1>1, <2>1 DEF Database
<1>5. e.rows = R /\ e.arts = arts /\ e.plan = d.plan
  <2> HIDE DEF R, arts
  <2> QED BY ONLY <1>4
<1>6. None \notin Blobs
  BY BlobAssumption
<1>7. Holders(e, old) = Holders(d, old) \ {s} /\ \A c \in Blobs \ {old} : Holders(e, c) = Holders(d, c)
  <2>1. e.arts = [d.arts EXCEPT ![s] = None]
    BY <1>5
  <2> HIDE DEF R, arts
  <2>2. \A c \in Blobs : /\ Holders(e, c) = Holders(d, c) \ {s}
                         /\ d.arts[s] # c => Holders(e, c) = Holders(d, c)
    <3> TAKE c \in Blobs
    <3>1. c # None
      BY <1>6
    <3>2. d \in Database
      BY <1>1
    <3> QED BY ONLY <3>2, <2>1, <3>1, s \in Slots, c \in Blobs DEF Holders, Database
  <2> QED BY <1>1, <2>2
<1>8. n \in Nat /\ n > 0 /\ Cardinality(Holders(e, old)) = n - 1
  <2>1. IsFiniteSet(Holders(d, old)) /\ n \in Nat /\ (n = 0 <=> Holders(d, old) = {})
    BY HoldersFinite
  <2>2. Cardinality(Holders(d, old) \ {s}) = n - 1
    BY <1>2, <2>1, FS_RemoveElement
  <2> QED BY <1>2, <1>7, <2>1, <2>2
<1> HIDE DEF n, r
<1>9. Down(r) \in Row /\ Consistent(Down(r), n - 1) /\ Fresh(Down(r))
  <2>1. r.refs - n \in 0..MaxLeak /\ r.refs \in Nat
    BY <1>3, Finite, Constants DEF Consistent, Row
  <2>2. r.refs - 1 - (n - 1) \in 0..MaxLeak /\ 1 \in 0..n
    BY <1>8, <2>1, Constants
  <2> QED BY <1>3, <1>8, <2>2, RowDown DEF Down
<1>10. R \in [Blobs -> Row \cup {None}] /\ R[old] = Down(r)
       /\ \A c \in Blobs \ {old} : R[c] = d.rows[c]
  BY <1>1, <1>9
<1> HIDE DEF R, old, arts
<1>11. \A c \in Blobs : \/ R[c] = None /\ Holders(e, c) = {}
                        \/ R[c] \in Row /\ Consistent(R[c], Cardinality(Holders(e, c)))
  BY <1>7, <1>8, <1>9, <1>10, GoodRow
<1>12. Good(e)
  <2>1. R = [c \in Blobs |-> R[c]]
    BY <1>10
  <2> QED BY <1>1, <1>4, <1>11, <2>1, GoodByRows
<1>13. Renews(d, e)
  BY <1>5, <1>9, <1>10 DEF Renews
<1> QED BY <1>5, <1>12, <1>13 DEF arts

\* The artifacts of a repository go; k says what is taken off each count.
Cleared(d, r, k, plan) ==
    [rows |-> [b \in Blobs |-> IF SlotsOf(d, r, b) = {} \/ d.rows[b] = None THEN d.rows[b]
                               ELSE Unpin(d.rows[b], k[b])],
     arts |-> [s \in Slots |-> IF RepoOf(s) = r THEN None ELSE d.arts[s]],
     plan |-> plan]

\* What is taken off leaves the count right.
Affordable(d, r, k) ==
    \A b \in Blobs : SlotsOf(d, r, b) # {} /\ d.rows[b] # None =>
        /\ k[b] > 0
        /\ d.rows[b].refs - k[b]
             - (Cardinality(Holders(d, b)) - Cardinality(SlotsOf(d, r, b))) \in 0..MaxLeak

LEMMA ClearGood ==
    ASSUME NEW d, Good(d), NEW r \in Repos, NEW k \in [Blobs -> Nat],
           NEW plan \in Plan \cup {None}, Affordable(d, r, k),
           NEW e, e = Cleared(d, r, k, plan)
    PROVE  /\ Good(e) /\ Renews(d, e) /\ e.plan = plan
           /\ \A b \in Blobs : Holders(e, b) \subseteq Holders(d, b)
<1> DEFINE R == [b \in Blobs |-> IF SlotsOf(d, r, b) = {} \/ d.rows[b] = None THEN d.rows[b]
                                 ELSE Unpin(d.rows[b], k[b])]
           arts == [s \in Slots |-> IF RepoOf(s) = r THEN None ELSE d.arts[s]]
<1>1. /\ d.rows \in [Blobs -> Row \cup {None}]
      /\ d.arts \in [Slots -> Blobs \cup {None}] /\ arts \in [Slots -> Blobs \cup {None}]
  BY DEF Good, Database
<1>2. e.rows = R /\ e.arts = arts /\ e.plan = plan
  BY DEF Cleared
<1>3. None \notin Blobs
  BY BlobAssumption
<1>4. ASSUME NEW b \in Blobs
      PROVE  /\ Holders(e, b) = Holders(d, b) \ SlotsOf(d, r, b)
             /\ SlotsOf(d, r, b) \subseteq Holders(d, b)
             /\ Cardinality(SlotsOf(d, r, b)) \in Nat
             /\ Cardinality(SlotsOf(d, r, b)) <= Cardinality(Holders(d, b))
             /\ Cardinality(Holders(e, b)) = Cardinality(Holders(d, b)) - Cardinality(SlotsOf(d, r, b))
  <2>1. Holders(e, b) = Holders(d, b) \ SlotsOf(d, r, b)
    BY <1>1, <1>2, <1>3 DEF Holders, SlotsOf
  <2>2. SlotsOf(d, r, b) \in SUBSET Holders(d, b)
    BY DEF SlotsOf
  <2>3. IsFiniteSet(Holders(d, b)) /\ Cardinality(Holders(d, b)) \in Nat
    BY HoldersFinite
  <2>4. IsFiniteSet(SlotsOf(d, r, b)) /\ Cardinality(SlotsOf(d, r, b)) <= Cardinality(Holders(d, b))
    BY <2>2, <2>3, FS_Subset
  <2>5. Holders(d, b) \cap SlotsOf(d, r, b) = SlotsOf(d, r, b)
    BY <2>2
  <2>6. Cardinality(Holders(d, b) \ SlotsOf(d, r, b))
          = Cardinality(Holders(d, b)) - Cardinality(Holders(d, b) \cap SlotsOf(d, r, b))
    BY <2>3, FS_Difference
  <2>7. Cardinality(SlotsOf(d, r, b)) \in Nat
    BY <2>4, FS_CardinalityType
  <2> QED BY <2>1, <2>2, <2>4, <2>5, <2>6, <2>7
<1>5. ASSUME NEW b \in Blobs
      PROVE  /\ \/ R[b] = None /\ Holders(e, b) = {}
                \/ R[b] \in Row /\ Consistent(R[b], Cardinality(Holders(e, b)))
             /\ R[b] = d.rows[b] \/ Fresh(R[b])
  <2>1. CASE d.rows[b] = None
    <3>1. Holders(d, b) = {} /\ R[b] = None
      BY <2>1, GoodRow
    <3> QED BY <1>4, <2>1, <3>1
  <2>2. CASE d.rows[b] # None /\ SlotsOf(d, r, b) = {}
    <3>1. Holders(e, b) = Holders(d, b) /\ R[b] = d.rows[b]
      BY <1>4, <2>2
    <3> QED BY <2>2, <3>1, GoodRow
  <2>3. CASE d.rows[b] # None /\ SlotsOf(d, r, b) # {}
    <3> DEFINE row == d.rows[b]
               n == Cardinality(Holders(d, b))
               j == Cardinality(SlotsOf(d, r, b))
    <3>1. R[b] = Unpin(row, k[b])
      BY <2>3
    <3>2. row \in Row /\ Consistent(row, n) /\ n \in Nat /\ j \in 0..n /\ k[b] \in Nat
      <4>1. n \in Nat
        BY HoldersFinite
      <4>2. j \in Nat /\ j <= n
        BY <1>4
      <4>3. row \in Row /\ Consistent(row, n)
        BY <2>3, GoodRow
      <4> QED BY <4>1, <4>2, <4>3
    <3>3. k[b] > 0 /\ row.refs - k[b] - (n - j) \in 0..MaxLeak
      BY <2>3 DEF Affordable
    <3>4. Cardinality(Holders(e, b)) = n - j
      BY <1>4
    <3> HIDE DEF row, n, j, R
    <3> QED BY <3>1, <3>2, <3>3, <3>4, RowDown
  <2> QED BY <2>1, <2>2, <2>3
<1>6. Good(e)
  <2>1. R = [c \in Blobs |-> R[c]]
    OBVIOUS
  <2>2. e = [rows |-> R, arts |-> arts, plan |-> plan]
    BY DEF Cleared
  <2> HIDE DEF R, arts
  <2> QED BY <1>1, <1>5, <2>1, <2>2, GoodByRows
<1>7. Renews(d, e)
  BY <1>2, <1>5 DEF Renews
<1> QED BY <1>2, <1>4, <1>6, <1>7

\* A tick makes the stamps of a database older and nothing else.
LEMMA AgedGood ==
    ASSUME NEW d, Good(d)
    PROVE  /\ Good(Aged(d)) /\ Aged(d).arts = d.arts
           /\ \A b \in Blobs : Holders(Aged(d), b) = Holders(d, b)
           /\ \A b \in Blobs :
                /\ IsFree(Aged(d).rows[b]) = IsFree(d.rows[b])
                /\ IsFree(d.rows[b]) => Aged(d).rows[b] = [d.rows[b] EXCEPT !.free = Older(d.rows[b].free)]
                /\ ~IsFree(d.rows[b]) => Aged(d).rows[b] = d.rows[b]
           /\ Aged(d).plan = AgedPlan(d.plan)
<1> DEFINE R == [b \in Blobs |-> IF IsFree(d.rows[b])
                                 THEN [d.rows[b] EXCEPT !.free = Older(d.rows[b].free)]
                                 ELSE d.rows[b]]
           plan == AgedPlan(d.plan)
           e == Aged(d)
<1>1. /\ d \in Database /\ d.rows \in [Blobs -> Row \cup {None}]
      /\ d.arts \in [Slots -> Blobs \cup {None}] /\ d.plan \in Plan \cup {None}
  BY DEF Good, Database
<1>2. e = [rows |-> R, arts |-> d.arts, plan |-> plan]
  <2>1. e = [d EXCEPT !.rows = R, !.plan = plan]
    BY DEF Aged, AgedRow
  <2> HIDE DEF e, R, plan
  <2> QED BY <1>1, <2>1 DEF Database
<1> HIDE DEF e
<1>3. e.rows = R /\ e.arts = d.arts /\ e.plan = plan
  <2> HIDE DEF R, plan
  <2> QED BY <1>2
<1>4. \A b \in Blobs : Holders(e, b) = Holders(d, b)
  BY <1>3 DEF Holders
<1>5. ASSUME NEW a \in 0..MaxAge PROVE Older(a) \in 0..MaxAge
  BY Constants DEF Older
<1>6. plan \in Plan \cup {None}
  <2>1. CASE d.plan = None \/ ~(d.plan.age + 1 < PlanLife)
    BY <2>1 DEF AgedPlan
  <2>2. CASE d.plan # None /\ d.plan.age + 1 < PlanLife
    <3>1. d.plan \in Plan /\ d.plan.age + 1 \in 0..PlanLife
      BY <1>1, <2>2, Constants DEF Plan
    <3> QED BY <2>2, <3>1 DEF Plan, AgedPlan
  <2> QED BY <2>1, <2>2
<1>7. ASSUME NEW b \in Blobs
      PROVE  /\ \/ R[b] = None /\ Holders(e, b) = {}
                \/ R[b] \in Row /\ Consistent(R[b], Cardinality(Holders(e, b)))
             /\ IsFree(R[b]) = IsFree(d.rows[b])
  <2>1. CASE ~IsFree(d.rows[b])
    <3>1. R[b] = d.rows[b]
      BY <2>1
    <3> QED BY <1>4, <3>1, GoodRow
  <2>2. CASE IsFree(d.rows[b])
    <3>1. d.rows[b] \in Row /\ d.rows[b].free # None /\ d.rows[b].refs <= 0
      BY <2>2, GoodRow DEF IsFree
    <3>2. d.rows[b].free \in 0..MaxAge
      BY <3>1 DEF Row
    <3> DEFINE a == Older(d.rows[b].free)
    <3>3. a \in 0..MaxAge /\ a # None
      BY <1>5, <3>2, AgeIsNotNone
    <3>4. R[b] = [d.rows[b] EXCEPT !.free = a]
      BY <2>2
    <3> HIDE DEF a, R
    <3>5. R[b] \in Row /\ R[b].refs = d.rows[b].refs /\ R[b].free = a
      BY <3>1, <3>3, <3>4 DEF Row
    <3>6. Consistent(d.rows[b], Cardinality(Holders(d, b)))
      BY GoodRow
    <3>7. Consistent(R[b], Cardinality(Holders(e, b))) /\ IsFree(R[b])
      BY <1>4, <3>1, <3>3, <3>5, <3>6, RowIsNotNone DEF Consistent, IsFree
    <3> QED BY <2>2, <3>5, <3>7
  <2> QED BY <2>1, <2>2
<1>8. Good(e)
  <2>1. R = [c \in Blobs |-> R[c]]
    OBVIOUS
  <2> HIDE DEF R, plan
  <2> QED BY <1>1, <1>2, <1>6, <1>7, <2>1, GoodByRows
<1> QED BY <1>3, <1>4, <1>7, <1>8 DEF e

-----------------------------------------------------------------------------
(***************************************************************************)
(* The counts: CountInv is inductive.                                      *)
(***************************************************************************)
\* What is left of the type when the databases are good.
Rest ==
    /\ copyAge \in 0..MaxLag
    /\ bytes \subseteq Blobs
    /\ req \in [Requests -> Request \cup {None}]
    /\ sweep \in [pc: {"idle", "listed", "waiting", "deleting"},
                  todo: SUBSET Blobs, blob: Blobs \cup {None}, age: 0..MaxSweep]
    /\ late \subseteq Blobs /\ exposed \subseteq Blobs

LEMMA CountInvParts == CountInv <=> Good(db) /\ Good(durable) /\ Rest /\ InHand
BY DEF CountInv, TypeOK, Good, Rest

\* Requests come and go one by one.
LEMMA DoneRest ==
    ASSUME CountInv, NEW q \in Requests, Done(q), UNCHANGED <<copyAge, bytes, sweep, late, exposed>>
    PROVE  Rest' /\ InHand'
<1>1. req' = [req EXCEPT ![q] = None] /\ req \in [Requests -> Request \cup {None}]
  BY DEF Done, NoRequest, CountInv, TypeOK
<1>2. Rest'
  BY <1>1, CountInvParts DEF Rest
<1>3. InHand'
  BY <1>1 DEF InHand, CountInv, NoRequest
<1> QED BY <1>2, <1>3

LEMMA RequestIsNotNone == ASSUME NEW r \in Request PROVE r # None
BY NoneAssumption

LEMMA EnterRest ==
    ASSUME CountInv, NEW q \in Requests, NEW r \in Request, req' = [req EXCEPT ![q] = r],
           r.pc # "locked" => r.blob \in Blobs,
           UNCHANGED <<copyAge, sweep, late>>, bytes' \subseteq Blobs,
           exposed' \subseteq exposed \cup Blobs
    PROVE  Rest' /\ InHand'
<1>1. req \in [Requests -> Request \cup {None}]
  BY DEF CountInv, TypeOK
<1>2. Rest'
  BY <1>1, CountInvParts DEF Rest
<1>3. InHand'
  BY <1>1 DEF InHand, CountInv, NoRequest
<1> QED BY <1>2, <1>3

\* What a transaction of a request leaves behind.
LEMMA TransactionCounts ==
    ASSUME CountInv, NEW q \in Requests, Good(db'), Done(q),
           UNCHANGED <<durable, copyAge, bytes, sweep, late, exposed>>
    PROVE  CountInv'
<1>1. Rest' /\ InHand'
  BY DoneRest
<1>2. Good(durable)'
  BY CountInvParts DEF Good, Covers, Consistent, Holders
<1>3. Good(db)'
  BY DEF Good, Covers, Consistent, Holders
<1> QED BY <1>1, <1>2, <1>3, CountInvParts, PTL

\* Steps outside requests that leave the sweeper alone.
LEMMA QuietCounts ==
    ASSUME CountInv, Good(db'), UNCHANGED <<durable, copyAge, bytes, req, sweep, late>>,
           exposed' \subseteq exposed \cup Blobs
    PROVE  CountInv'
<1>1. Good(durable)'
  BY CountInvParts DEF Good, Covers, Consistent, Holders
<1>2. Rest' /\ InHand'
  BY CountInvParts DEF Rest, InHand
<1>3. Good(db)'
  BY DEF Good, Covers, Consistent, Holders
<1> QED BY <1>1, <1>2, <1>3, CountInvParts, PTL

\* Steps that leave both databases alone.
LEMMA OutsideCounts ==
    ASSUME CountInv, UNCHANGED <<db, durable>>, Rest', InHand'
    PROVE  CountInv'
<1>1. Good(durable)' /\ Good(db)'
  BY CountInvParts DEF Good, Covers, Consistent, Holders
<1> QED BY <1>1, CountInvParts, PTL

LEMMA StoredBlob ==
    ASSUME CountInv, NEW q \in Requests, req[q] # NoRequest, req[q].pc \in {"stored", "leased", "mounting"}
    PROVE  req[q].blob \in Blobs /\ req[q] \in Request
BY DEF CountInv, InHand, TypeOK, NoRequest

LEMMA ReadLockCounts == ASSUME CountInv, NEW q \in Requests, ReadLock(q) PROVE CountInv'
<1> DEFINE r == [pc |-> "locked", blob |-> None]
<1>1. r \in Request /\ r.pc = "locked"
  BY DEF Request
<1>2. req' = [req EXCEPT ![q] = r] /\ UNCHANGED <<db, durable, copyAge, bytes, sweep, late, exposed>>
  BY DEF ReadLock
<1>3. bytes' \subseteq Blobs
  BY <1>2 DEF CountInv, TypeOK
<1> HIDE DEF r
<1> QED BY <1>1, <1>2, <1>3, EnterRest, OutsideCounts

LEMMA StoreBytesCounts ==
    ASSUME CountInv, NEW q \in Requests, NEW b \in Blobs, StoreBytes(q, b) PROVE CountInv'
<1> DEFINE r == [pc |-> "stored", blob |-> b]
<1>1. r \in Request /\ r.blob = b
  BY DEF Request
<1>2. req' = [req EXCEPT ![q] = r] /\ UNCHANGED <<db, durable, copyAge, sweep, late>>
  BY DEF StoreBytes
<1>3. bytes' \subseteq Blobs /\ exposed' \subseteq exposed \cup Blobs
  BY DEF CountInv, TypeOK, StoreBytes
<1> HIDE DEF r
<1> QED BY <1>1, <1>2, <1>3, EnterRest, OutsideCounts

LEMMA MountCounts ==
    ASSUME CountInv, NEW q \in Requests, NEW from \in Slots, Mount(q, from) PROVE CountInv'
<1> DEFINE r == [pc |-> "mounting", blob |-> db.arts[from]]
<1>1. db.arts[from] \in Blobs
  BY DEF CountInv, TypeOK, Database, Mount
<1>2. r \in Request /\ r.blob \in Blobs
  BY <1>1 DEF Request
<1>3. req' = [req EXCEPT ![q] = r] /\ UNCHANGED <<db, durable, copyAge, bytes, sweep, late, exposed>>
  BY DEF Mount
<1>4. bytes' \subseteq Blobs
  BY <1>3 DEF CountInv, TypeOK
<1> HIDE DEF r
<1> QED BY <1>2, <1>3, <1>4, EnterRest, OutsideCounts

LEMMA GivesUpCounts ==
    ASSUME CountInv, NEW q \in Requests, StoreFails(q) \/ RecordRefused(q) PROVE CountInv'
BY DoneRest, OutsideCounts DEF StoreFails, RecordRefused

\* What the transactions do, with the facts both invariants need.
LEMMA RecordFacts ==
    ASSUME CountInv, NEW q \in Requests, NEW s \in Slots,
           RecordArtifact(q, s) \/ RecordMount(q, s)
    PROVE  /\ CountInv' /\ Good(db') /\ Renews(db, db') /\ req[q].blob \in Blobs
           /\ db'.arts = [db.arts EXCEPT ![s] = req[q].blob] /\ db'.plan = db.plan
           /\ Done(q) /\ UNCHANGED <<durable, copyAge, bytes, sweep, late, exposed>>
<1>1. /\ req[q].blob \in Blobs /\ db' = PutAt(db, s, req[q].blob)
      /\ Done(q) /\ UNCHANGED <<durable, copyAge, bytes, sweep, late, exposed>>
  BY StoredBlob DEF RecordArtifact, RecordMount, Stored
<1>2. /\ Good(db') /\ Renews(db, db')
      /\ db'.arts = [db.arts EXCEPT ![s] = req[q].blob] /\ db'.plan = db.plan
  BY <1>1, CountInvParts, PutAtGood
<1> QED BY <1>1, <1>2, TransactionCounts

LEMMA AbandonFacts ==
    ASSUME CountInv, NEW q \in Requests, AbandonBlob(q)
    PROVE  /\ CountInv' /\ Good(db') /\ Renews(db, db')
           /\ db'.arts = db.arts /\ db'.plan = db.plan
           /\ Done(q) /\ UNCHANGED <<durable, copyAge, bytes, sweep, late, exposed>>
<1>1. /\ req[q].blob \in Blobs /\ db' = [db EXCEPT !.rows = EnsureBlob(db.rows, req[q].blob)]
      /\ Done(q) /\ UNCHANGED <<durable, copyAge, bytes, sweep, late, exposed>>
  BY StoredBlob DEF AbandonBlob, Stored
<1>2. db' = Ensured(db, req[q].blob, db.plan) /\ db.plan \in Plan \cup {None}
  BY <1>1 DEF CountInv, TypeOK, Database, Ensured
<1>3. Good(db') /\ Renews(db, db') /\ db'.arts = db.arts /\ db'.plan = db.plan
  BY <1>1, <1>2, CountInvParts, EnsureBlobGood
<1> QED BY <1>1, <1>3, TransactionCounts

LEMMA GoodPrimed ==
    ASSUME Good(db'), Good(durable'), Rest', InHand'
    PROVE  CountInv'
<1>1. Good(durable)' /\ Good(db)'
  BY DEF Good, Covers, Consistent, Holders
<1> QED BY <1>1, CountInvParts, PTL

LEMMA LeaseFacts ==
    ASSUME CountInv, NEW q \in Requests, LeaseBlob(q)
    PROVE  /\ CountInv' /\ Good(db') /\ Renews(db, db') /\ req[q].blob \in Blobs
           /\ db'.arts = db.arts /\ db'.plan = db.plan
           /\ Stored(q) /\ req' = [req EXCEPT ![q].pc = "leased"]
           /\ UNCHANGED <<durable, copyAge, bytes, sweep, late, exposed>>
<1> DEFINE r == [req[q] EXCEPT !.pc = "leased"]
<1>1. /\ req[q].blob \in Blobs /\ db' = [db EXCEPT !.rows = EnsureBlob(db.rows, req[q].blob)]
      /\ Stored(q) /\ req' = [req EXCEPT ![q].pc = "leased"] /\ req[q] \in Request
      /\ UNCHANGED <<durable, copyAge, bytes, sweep, late, exposed>>
  BY StoredBlob DEF LeaseBlob, Stored
<1>2. db' = Ensured(db, req[q].blob, db.plan) /\ db.plan \in Plan \cup {None}
  BY <1>1 DEF CountInv, TypeOK, Database, Ensured
<1>3. Good(db') /\ Renews(db, db') /\ db'.arts = db.arts /\ db'.plan = db.plan
  BY <1>1, <1>2, CountInvParts, EnsureBlobGood
<1>4. r \in Request /\ r.blob \in Blobs /\ req' = [req EXCEPT ![q] = r]
  BY <1>1 DEF Request, CountInv, TypeOK
<1>5. bytes' \subseteq Blobs
  BY <1>1 DEF CountInv, TypeOK
<1> HIDE DEF r
<1>6. Rest' /\ InHand'
  BY <1>1, <1>4, <1>5, EnterRest
<1>7. Good(durable')
  BY <1>1, CountInvParts
<1> QED BY <1>1, <1>3, <1>6, <1>7, GoodPrimed

\* The database with another plan.
Planned(d, plan) == [d EXCEPT !.plan = plan]

LEMMA PlannedGood ==
    ASSUME NEW d, Good(d), NEW plan \in Plan \cup {None}
    PROVE  /\ Good(Planned(d, plan)) /\ Planned(d, plan).plan = plan
           /\ Planned(d, plan).rows = d.rows /\ Planned(d, plan).arts = d.arts
<1> DEFINE e == Planned(d, plan)
<1>1. d \in Database
  BY DEF Good
<1>2. e \in Database /\ e.plan = plan /\ e.rows = d.rows /\ e.arts = d.arts
  BY <1>1 DEF Database, Planned
<1> HIDE DEF e
<1>3. \A b \in Blobs : Holders(e, b) = Holders(d, b)
  BY <1>2 DEF Holders
<1>4. Covers(e)
  BY <1>2, <1>3 DEF Covers, Good
<1> QED BY <1>2, <1>4 DEF Good, e

LEMMA RetainFacts ==
    ASSUME CountInv, NEW q \in Requests, NEW s \in Slots, RetainConflict(q, s)
    PROVE  /\ CountInv' /\ Good(db') /\ Renews(db, db') /\ req[q].blob \in Blobs
           /\ db'.arts = db.arts /\ db'.rows = db.rows
           /\ db'.plan.blob = req[q].blob /\ db'.plan.age = 0
           /\ db'.plan.covered => OutlivesPlan(req[q].blob)
           /\ Leased(q) /\ Done(q) /\ UNCHANGED <<durable, copyAge, bytes, sweep, late, exposed>>
<1> DEFINE c == OutlivesPlan(req[q].blob)
           plan == [slot |-> s, blob |-> req[q].blob, age |-> 0, covered |-> c]
<1>1. /\ req[q].blob \in Blobs /\ db' = Planned(db, plan)
      /\ Leased(q) /\ Done(q) /\ UNCHANGED <<durable, copyAge, bytes, sweep, late, exposed>>
  BY StoredBlob DEF RetainConflict, Leased, Planned
<1>2. c \in BOOLEAN
  BY DEF OutlivesPlan
<1>3. plan \in Plan /\ plan.blob = req[q].blob /\ plan.age = 0 /\ plan.covered = c
  <2> HIDE DEF c
  <2> QED BY <1>1, <1>2, Constants DEF Plan
<1> HIDE DEF plan
<1>4. Good(db') /\ db'.arts = db.arts /\ db'.plan = plan /\ db'.rows = db.rows
  BY <1>1, <1>3, CountInvParts, PlannedGood
<1>5. Renews(db, db')
  BY <1>4 DEF Renews
<1> QED BY <1>1, <1>3, <1>4, <1>5, TransactionCounts

LEMMA CommitFacts ==
    ASSUME CountInv, CommitConflict
    PROVE  /\ CountInv' /\ Good(db') /\ Renews(db, db')
           /\ Actionable(db.plan) /\ db.plan.blob \in Blobs /\ db.plan.slot \in Slots
           /\ db'.arts = [db.arts EXCEPT ![db.plan.slot] = db.plan.blob] /\ db'.plan = None
           /\ exposed' = IF Unkept(db.plan) THEN exposed \cup {db.plan.blob} ELSE exposed
           /\ UNCHANGED <<durable, copyAge, bytes, req, sweep, late>>
<1> DEFINE e == PutAt(db, db.plan.slot, db.plan.blob)
<1>1. /\ Actionable(db.plan) /\ db.plan.blob \in Blobs /\ db.plan.slot \in Slots
      /\ exposed' = IF Unkept(db.plan) THEN exposed \cup {db.plan.blob} ELSE exposed
      /\ UNCHANGED <<durable, copyAge, bytes, req, sweep, late>> /\ db' = Planned(e, None)
  BY DEF CommitConflict, Actionable, CountInv, TypeOK, Database, Plan, Planned
<1>2. Good(e) /\ Renews(db, e) /\ e.arts = [db.arts EXCEPT ![db.plan.slot] = db.plan.blob]
  BY <1>1, CountInvParts, PutAtGood
<1> HIDE DEF e
<1>3. Good(db') /\ db'.plan = None /\ db'.rows = e.rows /\ db'.arts = e.arts
  BY <1>1, <1>2, PlannedGood
<1>4. Renews(db, db')
  BY <1>2, <1>3 DEF Renews
<1> QED BY <1>1, <1>2, <1>3, <1>4, QuietCounts

LEMMA CancelFacts ==
    ASSUME CountInv, CancelConflict
    PROVE  /\ CountInv' /\ Good(db') /\ Renews(db, db') /\ db'.arts = db.arts /\ db'.plan = None
           /\ UNCHANGED <<durable, copyAge, bytes, req, sweep, late, exposed>>
<1>1. db' = Planned(db, None) /\ UNCHANGED <<durable, copyAge, bytes, req, sweep, late, exposed>>
  BY DEF CancelConflict, Planned
<1>2. Good(db') /\ db'.plan = None /\ db'.rows = db.rows /\ db'.arts = db.arts
  BY <1>1, CountInvParts, PlannedGood
<1>3. Renews(db, db')
  BY <1>2 DEF Renews
<1> QED BY <1>1, <1>2, <1>3, QuietCounts

LEMMA DeleteFacts ==
    ASSUME CountInv, NEW s \in Slots, DeleteArtifact(s)
    PROVE  /\ CountInv' /\ Good(db') /\ Renews(db, db')
           /\ db'.arts = [db.arts EXCEPT ![s] = None] /\ db'.plan = db.plan
           /\ UNCHANGED <<durable, copyAge, bytes, req, sweep, late, exposed>>
<1>1. /\ db.arts[s] # None /\ db' = [db EXCEPT !.rows = DropRef(db.rows, db.arts[s]), !.arts[s] = None]
      /\ UNCHANGED <<durable, copyAge, bytes, req, sweep, late, exposed>>
  BY DEF DeleteArtifact
<1>2. /\ Good(db') /\ Renews(db, db')
      /\ db'.arts = [db.arts EXCEPT ![s] = None] /\ db'.plan = db.plan
  BY <1>1, CountInvParts, DeleteGood
<1> QED BY <1>1, <1>2, QuietCounts

LEMMA SlotsOfCard ==
    ASSUME NEW d, NEW r, NEW b
    PROVE  /\ Cardinality(SlotsOf(d, r, b)) \in Nat
           /\ SlotsOf(d, r, b) # {} => Cardinality(SlotsOf(d, r, b)) > 0
           /\ Cardinality(Holders(d, b) \ SlotsOf(d, r, b))
                = Cardinality(Holders(d, b)) - Cardinality(SlotsOf(d, r, b))
<1>1. SlotsOf(d, r, b) \in SUBSET Holders(d, b)
  BY DEF SlotsOf
<1>2. IsFiniteSet(Holders(d, b))
  BY HoldersFinite
<1>3. IsFiniteSet(SlotsOf(d, r, b))
  BY <1>1, <1>2, FS_Subset
<1>4. Cardinality(SlotsOf(d, r, b)) \in Nat /\ (Cardinality(SlotsOf(d, r, b)) = 0 <=> SlotsOf(d, r, b) = {})
  BY <1>3, FS_CardinalityType, FS_EmptySet
<1>5. Holders(d, b) \cap SlotsOf(d, r, b) = SlotsOf(d, r, b)
  BY <1>1
<1>6. Cardinality(Holders(d, b) \ SlotsOf(d, r, b))
        = Cardinality(Holders(d, b)) - Cardinality(Holders(d, b) \cap SlotsOf(d, r, b))
  BY <1>2, FS_Difference
<1> QED BY <1>4, <1>5, <1>6

LEMMA PurgeFacts ==
    ASSUME CountInv, NEW r \in Repos, PurgeArtifacts(r)
    PROVE  /\ CountInv' /\ Good(db') /\ Renews(db, db') /\ db'.plan = db.plan
           /\ \A b \in Blobs : Holders(db', b) \subseteq Holders(db, b)
           /\ UNCHANGED <<durable, copyAge, bytes, req, sweep, late, exposed>>
<1> DEFINE k == [b \in Blobs |-> PurgedRefs(b, r)]
<1>1. Good(db) /\ db \in Database /\ db.plan \in Plan \cup {None}
  BY CountInvParts DEF Good, Database
<1>2. k \in [Blobs -> Nat]
  BY SlotsOfCard DEF PurgedRefs
<1>3. UNCHANGED <<durable, copyAge, bytes, req, sweep, late, exposed>>
  BY DEF PurgeArtifacts
<1>4. db' = Cleared(db, r, k, db.plan)
  BY <1>1 DEF PurgeArtifacts, Database, Cleared
<1>5. Affordable(db, r, k)
  <2> SUFFICES ASSUME NEW b \in Blobs, SlotsOf(db, r, b) # {}, db.rows[b] # None
               PROVE  /\ k[b] > 0
                      /\ db.rows[b].refs - k[b]
                           - (Cardinality(Holders(db, b)) - Cardinality(SlotsOf(db, r, b)))
                             \in 0..MaxLeak
    BY DEF Affordable
  <2>1. k[b] = Cardinality(SlotsOf(db, r, b))
    BY DEF PurgedRefs
  <2> HIDE DEF k
  <2>2. k[b] \in Nat /\ k[b] > 0 /\ Cardinality(Holders(db, b)) \in Nat
    <3>1. Cardinality(Holders(db, b)) \in Nat
      BY HoldersFinite
    <3>2. Cardinality(SlotsOf(db, r, b)) \in Nat /\ Cardinality(SlotsOf(db, r, b)) > 0
      BY SlotsOfCard
    <3> QED BY <2>1, <3>1, <3>2
  <2>3. Consistent(db.rows[b], Cardinality(Holders(db, b))) /\ db.rows[b] \in Row
    BY <1>1, GoodRow
  <2>4. db.rows[b].refs - Cardinality(Holders(db, b)) \in 0..MaxLeak /\ db.rows[b].refs \in Nat
    BY <2>3, Finite, Constants DEF Consistent, Row
  <2> QED BY <2>1, <2>2, <2>4, Constants
<1> HIDE DEF k
<1>6. /\ Good(db') /\ Renews(db, db') /\ db'.plan = db.plan
      /\ \A b \in Blobs : Holders(db', b) \subseteq Holders(db, b)
  BY <1>1, <1>2, <1>4, <1>5, ClearGood
<1> QED BY <1>3, <1>6, QuietCounts

LEMMA DeleteRepositoryFacts ==
    ASSUME CountInv, NEW r \in Repos, DeleteRepository(r)
    PROVE  /\ CountInv' /\ Good(db') /\ Renews(db, db') /\ db'.plan \in {db.plan, None}
           /\ \A b \in Blobs : Holders(db', b) \subseteq Holders(db, b)
           /\ UNCHANGED <<durable, copyAge, bytes, req, sweep, late, exposed>>
<1> DEFINE k == [b \in Blobs |-> 1]
           plan == IF db.plan # None /\ RepoOf(db.plan.slot) = r THEN None ELSE db.plan
<1>1. Good(db) /\ db \in Database /\ plan \in Plan \cup {None} /\ plan \in {db.plan, None}
  BY CountInvParts DEF Good, Database
<1>2. k \in [Blobs -> Nat]
  OBVIOUS
<1>3. UNCHANGED <<durable, copyAge, bytes, req, sweep, late, exposed>>
  BY DEF DeleteRepository
<1>4. db' = Cleared(db, r, k, plan)
  BY <1>1 DEF DeleteRepository, Database, Cleared
<1>5. Affordable(db, r, k)
  <2> SUFFICES ASSUME NEW b \in Blobs, SlotsOf(db, r, b) # {}, db.rows[b] # None
               PROVE  /\ k[b] > 0
                      /\ db.rows[b].refs - k[b]
                           - (Cardinality(Holders(db, b)) - Cardinality(SlotsOf(db, r, b)))
                             \in 0..MaxLeak
    BY DEF Affordable
  <2> DEFINE n == Cardinality(Holders(db, b))
             j == Cardinality(SlotsOf(db, r, b))
             row == db.rows[b]
  <2>1. n \in Nat /\ j \in Nat /\ j > 0
    BY SlotsOfCard, HoldersFinite
  <2>2. row.refs - 1 <= MaxLeak + (n - j)
    <3>1. row.refs - 1 <= MaxLeak + Cardinality(Holders(db, b) \ SlotsOf(db, r, b))
      BY DEF DeleteRepository
    <3>2. Cardinality(Holders(db, b) \ SlotsOf(db, r, b)) = n - j
      BY SlotsOfCard
    <3> QED BY <3>1, <3>2
  <2>3. Consistent(row, n) /\ row \in Row
    BY <1>1, GoodRow
  <2>4. row.refs - n \in 0..MaxLeak /\ row.refs \in Nat
    BY <2>3, Finite, Constants DEF Consistent, Row
  <2>5. k[b] = 1
    OBVIOUS
  <2> HIDE DEF k, n, j, row
  <2>6. row.refs - 1 - (n - j) \in 0..MaxLeak
    BY <2>1, <2>2, <2>4, Constants
  <2> QED BY <2>5, <2>6 DEF n, j, row
<1> HIDE DEF k, plan
<1>6. /\ Good(db') /\ Renews(db, db') /\ db'.plan = plan
      /\ \A b \in Blobs : Holders(db', b) \subseteq Holders(db, b)
  BY <1>1, <1>2, <1>4, <1>5, ClearGood
<1> QED BY <1>1, <1>3, <1>6, QuietCounts

\* The sweeper's record of itself.
SweepType == [pc: {"idle", "listed", "waiting", "deleting"},
              todo: SUBSET Blobs, blob: Blobs \cup {None}, age: 0..MaxSweep]

LEMMA SweeperRest ==
    ASSUME CountInv, sweep' \in SweepType, UNCHANGED <<copyAge, req, late, exposed>>, bytes' \subseteq Blobs,
           sweep'.pc \in {"waiting", "deleting"} => sweep'.blob \in Blobs
    PROVE  Rest' /\ InHand'
<1>1. Rest'
  BY CountInvParts DEF Rest, SweepType
<1>2. InHand'
  BY DEF InHand, CountInv
<1> QED BY <1>1, <1>2

LEMMA IdleSweep == Idle \in SweepType /\ Idle.pc = "idle"
BY Constants DEF Idle, SweepType

LEMMA NextDigestType ==
    ASSUME CountInv
    PROVE  NextDigest \in SweepType /\ NextDigest.pc \in {"idle", "listed"} /\ bytes \subseteq Blobs
<1>1. sweep \in SweepType /\ bytes \subseteq Blobs
  BY DEF CountInv, TypeOK, SweepType
<1>2. CASE sweep.todo = {}
  BY <1>1, <1>2, IdleSweep DEF NextDigest
<1>3. CASE sweep.todo # {}
  BY <1>1, <1>3 DEF NextDigest, SweepType
<1> QED BY <1>2, <1>3

LEMMA ListCounts ==
    ASSUME CountInv, NEW todo \in SUBSET Blobs, ListUnreferenced(todo) PROVE CountInv'
<1> DEFINE w == [pc |-> "listed", todo |-> todo, blob |-> None, age |-> 0]
<1>1. w \in SweepType /\ w.pc = "listed"
  BY Constants DEF SweepType
<1>2. sweep' = w /\ UNCHANGED <<db, durable, copyAge, bytes, req, late, exposed>>
  BY DEF ListUnreferenced
<1>3. bytes' \subseteq Blobs
  BY <1>2 DEF CountInv, TypeOK
<1> HIDE DEF w
<1> QED BY <1>1, <1>2, <1>3, SweeperRest, OutsideCounts

LEMMA WriteLockCounts ==
    ASSUME CountInv, NEW b \in Blobs, WriteLock(b) PROVE CountInv'
<1>1. sweep \in SweepType /\ bytes \subseteq Blobs
  BY DEF CountInv, TypeOK, SweepType
<1>2. sweep' \in SweepType /\ sweep'.blob = b
  BY <1>1 DEF WriteLock, SweepType
<1>3. UNCHANGED <<db, durable, copyAge, bytes, req, late, exposed>>
  BY DEF WriteLock
<1> QED BY <1>1, <1>2, <1>3, SweeperRest, OutsideCounts

\* The record goes only if no artifact has it.
LEMMA FreeIsUnheld ==
    ASSUME NEW d, Good(d), NEW b \in Blobs, IsFree(d.rows[b])
    PROVE  Holders(d, b) = {} /\ d.rows[b] \in Row /\ d.rows[b].free \in 0..MaxAge
<1>1. /\ d.rows[b] \in Row /\ d.rows[b].refs <= 0 /\ d.rows[b].free # None
      /\ Consistent(d.rows[b], Cardinality(Holders(d, b)))
  BY GoodRow DEF IsFree
<1>2. d.rows[b].refs \in Nat /\ d.rows[b].refs - Cardinality(Holders(d, b)) \in 0..MaxLeak
  BY <1>1, RowIsNotNone, Finite, Constants DEF Row, Consistent
<1>3. Cardinality(Holders(d, b)) = 0
  BY <1>1, <1>2, HoldersFinite, Constants
<1> QED BY <1>1, <1>3, HoldersFinite DEF Row

LEMMA DeleteRecordFacts ==
    ASSUME CountInv, DeleteBlobRecord, Reclaimable(db.rows[sweep.blob], sweep.age)
    PROVE  /\ CountInv' /\ Good(db') /\ sweep.blob \in Blobs
           /\ db'.arts = db.arts /\ db'.plan = db.plan /\ db'.rows[sweep.blob] = None
           /\ \A b \in Blobs \ {sweep.blob} : db'.rows[b] = db.rows[b]
           /\ sweep'.pc = "deleting" /\ sweep'.blob = sweep.blob
           /\ Readers = {} /\ UNCHANGED <<durable, copyAge, bytes, req, late, exposed>>
<1>1. /\ sweep.pc = "waiting" /\ Readers = {} /\ sweep.blob \in Blobs
      /\ db' = [db EXCEPT !.rows[sweep.blob] = None]
      /\ sweep' = [sweep EXCEPT !.pc = "deleting"]
      /\ UNCHANGED <<durable, copyAge, bytes, req, late, exposed>>
  BY DEF DeleteBlobRecord, CountInv, InHand
<1> DEFINE x == sweep.blob
           R == [db.rows EXCEPT ![x] = None]
<1>2. Good(db) /\ db \in Database /\ sweep \in SweepType /\ bytes \subseteq Blobs
  BY CountInvParts DEF Good, Rest, SweepType
<1>3. db' = [rows |-> R, arts |-> db.arts, plan |-> db.plan]
  BY <1>1, <1>2 DEF Database
<1>4. Holders(db, x) = {}
  BY <1>1, <1>2, FreeIsUnheld DEF Reclaimable
<1>5. /\ db.rows \in [Blobs -> Row \cup {None}] /\ R[x] = None
      /\ \A b \in Blobs \ {x} : R[b] = db.rows[b]
      /\ R \in [Blobs -> Row \cup {None}]
      /\ db.arts \in [Slots -> Blobs \cup {None}] /\ db.plan \in Plan \cup {None}
  BY <1>1, <1>2 DEF Database
<1>6. db'.rows = R /\ db'.arts = db.arts /\ db'.plan = db.plan
  <2> HIDE DEF R
  <2> QED BY ONLY <1>3
<1>7. \A b \in Blobs : Holders(db', b) = Holders(db, b)
  BY <1>6 DEF Holders
<1> HIDE DEF R, x
<1>8. Good(db')
  <2>1. R = [b \in Blobs |-> R[b]]
    BY <1>5
  <2>2. \A b \in Blobs : \/ R[b] = None /\ Holders(db', b) = {}
                         \/ R[b] \in Row /\ Consistent(R[b], Cardinality(Holders(db', b)))
    BY <1>2, <1>4, <1>5, <1>7, GoodRow
  <2> QED BY <1>3, <1>5, <2>1, <2>2, GoodByRows
<1>9. sweep' \in SweepType /\ sweep'.pc = "deleting" /\ sweep'.blob = x
  BY <1>1, <1>2 DEF SweepType, x
<1>10. Rest' /\ InHand'
  BY <1>1, <1>2, <1>9, SweeperRest DEF x
<1>11. Good(durable)'
  BY <1>1, CountInvParts DEF Good, Covers, Consistent, Holders
<1>12. Good(db)'
  BY <1>8 DEF Good, Covers, Consistent, Holders
<1>13. CountInv'
  BY <1>10, <1>11, <1>12, CountInvParts, PTL
<1> QED BY <1>1, <1>5, <1>6, <1>8, <1>9, <1>13 DEF x

\* The steps that take the sweeper to its next digest.
LEMMA MovesOnCounts ==
    ASSUME CountInv, sweep' = NextDigest, bytes' \subseteq bytes,
           UNCHANGED <<db, durable, copyAge, req, late, exposed>>
    PROVE  CountInv' /\ sweep'.pc \in {"idle", "listed"}
<1>1. sweep' \in SweepType /\ sweep'.pc \in {"idle", "listed"} /\ bytes' \subseteq Blobs
  BY NextDigestType
<1>2. Rest' /\ InHand'
  BY <1>1, SweeperRest
<1> QED BY <1>1, <1>2, OutsideCounts

LEMMA TickFacts ==
    ASSUME CountInv, Tick
    PROVE  /\ CountInv' /\ db' = Aged(db) /\ durable' = Aged(durable) /\ copyAge' = copyAge + 1
           /\ sweep'.pc = sweep.pc /\ sweep'.blob = sweep.blob /\ UNCHANGED <<bytes, req, late, exposed>>
           /\ \A q \in Requests : req[q] # NoRequest => req[q].pc # "mounting"
<1>1. /\ copyAge < MaxLag /\ (sweep.pc = "idle" \/ sweep.age < MaxSweep)
      /\ db' = Aged(db) /\ durable' = Aged(durable) /\ copyAge' = copyAge + 1
      /\ sweep' = IF sweep.pc = "idle" THEN sweep ELSE [sweep EXCEPT !.age = sweep.age + 1]
      /\ UNCHANGED <<bytes, req, late, exposed>>
      /\ \A q \in Requests : req[q] # NoRequest => req[q].pc # "mounting"
  BY DEF Tick
<1>2. Good(db') /\ Good(durable')
  BY <1>1, CountInvParts, AgedGood
<1>3. sweep \in SweepType /\ Rest /\ InHand
  BY CountInvParts DEF Rest, SweepType
<1>4. sweep' \in SweepType /\ sweep'.pc = sweep.pc /\ sweep'.blob = sweep.blob
  <2>1. CASE sweep.pc = "idle"
    BY <1>1, <1>3, <2>1
  <2>2. CASE sweep.pc # "idle"
    <3>1. sweep.age + 1 \in 0..MaxSweep
      BY <1>1, <1>3, <2>2, Constants DEF SweepType
    <3> QED BY <1>1, <1>3, <2>2, <3>1 DEF SweepType
  <2> QED BY <2>1, <2>2
<1>5. copyAge' \in 0..MaxLag
  BY <1>1, <1>3, Constants DEF Rest
<1>6. Rest' /\ InHand'
  BY <1>1, <1>3, <1>4, <1>5 DEF Rest, InHand, SweepType
<1> QED BY <1>1, <1>2, <1>4, <1>6, GoodPrimed

LEMMA ReplicateCounts == ASSUME CountInv, Replicate PROVE CountInv'
<1>1. db' = db /\ durable' = db /\ copyAge' = 0 /\ UNCHANGED <<bytes, req, sweep, late, exposed>>
  BY DEF Replicate
<1>2. Good(db') /\ Good(durable') /\ Rest /\ InHand
  BY <1>1, CountInvParts
<1>3. Rest' /\ InHand'
  BY <1>1, <1>2, Constants DEF Rest, InHand
<1> QED BY <1>2, <1>3, GoodPrimed

LEMMA FailoverFacts ==
    ASSUME CountInv, Failover
    PROVE  /\ CountInv' /\ db' = durable /\ sweep'.pc = "idle"
           /\ \A q \in Requests : req'[q] = NoRequest
           /\ late' \subseteq late \cup Orphaned
           /\ UNCHANGED <<durable, copyAge, bytes, exposed>>
<1>1. /\ db' = durable /\ req' = [q \in Requests |-> NoRequest] /\ sweep' = Idle
      /\ late' \subseteq late \cup Orphaned
      /\ UNCHANGED <<durable, copyAge, bytes, exposed>>
  BY DEF Failover
<1>2. Good(db') /\ Good(durable') /\ Rest /\ InHand
  BY <1>1, CountInvParts
<1>3. sweep' \in SweepType /\ sweep'.pc = "idle"
  BY <1>1, IdleSweep
<1>4. late' \subseteq Blobs
  BY <1>1, <1>2 DEF Rest, Orphaned
<1>5. req' \in [Requests -> Request \cup {None}] /\ \A q \in Requests : req'[q] = NoRequest
  BY <1>1 DEF NoRequest
<1>6. Rest' /\ InHand'
  BY <1>1, <1>2, <1>3, <1>4, <1>5 DEF Rest, InHand, SweepType
<1> QED BY <1>1, <1>2, <1>3, <1>5, <1>6, GoodPrimed

LEMMA LateDeleteCounts == ASSUME CountInv, NEW b \in Blobs, LateDelete(b) PROVE CountInv'
<1>1. Rest' /\ InHand'
  BY CountInvParts DEF LateDelete, Rest, InHand
<1> QED BY <1>1, OutsideCounts DEF LateDelete

LEMMA InitCounts == ASSUME Init PROVE CountInv
<1> DEFINE z == [rows |-> [b \in Blobs |-> None], arts |-> [s \in Slots |-> None], plan |-> None]
<1>1. /\ z \in Database /\ \A b \in Blobs : z.rows[b] = None /\ Holders(z, b) = {}
  <2>1. None \notin Blobs
    BY BlobAssumption
  <2> QED BY <2>1 DEF Database, Holders
<1>2. Good(z)
  BY <1>1 DEF Good, Covers, Consistent
<1>3. Good(db) /\ Good(durable)
  BY <1>2 DEF Init
<1>4. Rest /\ InHand
  BY IdleSweep, Constants DEF Init, Rest, InHand, SweepType, NoRequest
<1> QED BY <1>3, <1>4, CountInvParts

LEMMA CountsKept == ASSUME CountInv, [Next]_vars PROVE CountInv'
<1>1. CASE UNCHANGED vars
  <2>1. Rest' /\ InHand'
    BY <1>1, CountInvParts DEF vars, Rest, InHand
  <2> QED BY <1>1, <2>1, OutsideCounts DEF vars
<1>2. ASSUME NEW q \in Requests, ReadLock(q) \/ RequestStep(q) PROVE CountInv'
  BY <1>2, ReadLockCounts, StoreBytesCounts, GivesUpCounts, AbandonFacts, RecordFacts, LeaseFacts,
     RetainFacts
     DEF RequestStep
<1>3. ASSUME SweepStep PROVE CountInv'
  <2>1. CASE DeleteBlobRecord
    <3>1. CASE Reclaimable(db.rows[sweep.blob], sweep.age)
      BY <2>1, <3>1, DeleteRecordFacts
    <3>2. CASE ~Reclaimable(db.rows[sweep.blob], sweep.age)
      BY <2>1, <3>2, MovesOnCounts DEF DeleteBlobRecord
    <3> QED BY <3>1, <3>2
  <2>2. CASE DeleteBytes \/ DeleteBytesFails
    BY <2>2, MovesOnCounts DEF DeleteBytes, DeleteBytesFails
  <2> QED BY <1>3, <2>1, <2>2, ListCounts, WriteLockCounts DEF SweepStep
<1> QED BY <1>1, <1>2, <1>3, MountCounts, CommitFacts, CancelFacts, DeleteFacts, PurgeFacts,
           DeleteRepositoryFacts, TickFacts, ReplicateCounts, FailoverFacts, LateDeleteCounts
        DEF Next

\* meta/artifact.rs and meta/blob.rs: through uploads, overwrites, deletions,
\* purges, sweeps and failovers to an older copy, the count of a blob is never
\* below its artifacts, and the stamp the sweeper decides by agrees with it.
THEOREM CountsCoverArtifacts == Spec => []RowsCoverArtifacts
<1>1. Spec => []CountInv
  BY InitCounts, CountsKept, PTL DEF Spec
<1>2. CountInv => RowsCoverArtifacts
  <2> SUFFICES ASSUME CountInv, NEW b \in Blobs
               PROVE  /\ Holders(db, b) # {} => db.rows[b] # None
                      /\ db.rows[b] # None => /\ db.rows[b].refs >= Cardinality(Holders(db, b))
                                              /\ (db.rows[b].refs = 0) = (db.rows[b].free # None)
    BY DEF CountInv, RowsCoverArtifacts
  <2>1. Good(db)
    BY CountInvParts
  <2>2. ASSUME db.rows[b] # None PROVE db.rows[b].refs >= Cardinality(Holders(db, b))
    <3>1. db.rows[b] \in Row /\ db.rows[b].refs - Cardinality(Holders(db, b)) \in 0..MaxLeak
      BY <2>1, <2>2, GoodRow DEF Consistent
    <3>2. db.rows[b].refs \in Nat
      BY <3>1, Finite, Constants DEF Row
    <3> QED BY <3>1, <3>2, HoldersFinite, Constants
  <2> QED BY <2>1, <2>2, GoodRow DEF Consistent
<1> QED BY <1>1, <1>2, PTL

-----------------------------------------------------------------------------
(***************************************************************************)
(* The grace period.  RowsCoverArtifacts says what the sweeper reads;      *)
(* what it may delete also depends on the copy of the database a failover  *)
(* brings back, on plans and on requests without the guard.                *)
(***************************************************************************)
\* A plan that can still be confirmed and that the grace covers.
Kept(p) == Actionable(p) /\ p.covered

\* What a database needs the bytes of: its artifacts and such a plan.
Uses(d) == {b \in Blobs : Holders(d, b) # {} \/ (Kept(d.plan) /\ d.plan.blob = b)}

\* The digests of requests that are about to record them.
Recording(q) == req[q] # NoRequest /\ req[q].pc # "locked"
InFlight == {b \in Blobs : \E q \in Requests : Recording(q) /\ req[q].blob = b}

Needed == Uses(db) \cup Uses(durable) \cup InFlight

\* Whatever is needed is there, and nobody is about to delete it; or it is one
\* of the digests the guard and the grace do not reach.
Safe == Needed \subseteq (bytes \ Victims) \cup exposed

\* A row of the leader's that is free for longer than the durable copy is old
\* is in that copy as it is here.
Copied ==
    \A b \in Blobs : IsFree(db.rows[b]) =>
        db.rows[b].free <= copyAge \/ durable.rows[b] = db.rows[b]

\* The row of a staged blob is not reclaimable before a covered plan expires.
PlanKept(d) ==
    Kept(d.plan) /\ IsFree(d.rows[d.plan.blob]) =>
        d.rows[d.plan.blob].free + PlanLife - d.plan.age < Grace

\* The digest being mounted was held within this tick.
MountsFresh ==
    \A q \in Requests :
        req[q] # NoRequest /\ req[q].pc = "mounting" => Fresh(db.rows[req[q].blob])

Guarded == sweep.pc = "deleting" => Readers = {}

SweepInv ==
    /\ CountInv
    /\ Safe /\ Copied /\ PlanKept(db) /\ PlanKept(durable) /\ MountsFresh /\ Guarded

LEMMA PlanType ==
    ASSUME NEW d, Good(d), Actionable(d.plan)
    PROVE  /\ d.plan \in Plan /\ d.plan.blob \in Blobs /\ d.plan.slot \in Slots
           /\ d.plan.age \in Nat /\ d.plan.age < PlanLife
BY Constants DEF Good, Database, Actionable, Plan

\* A transaction that keeps or drops the plan does not shorten its life.
LEMMA PlanRenewed ==
    ASSUME NEW d, Good(d), PlanKept(d), NEW e, Renews(d, e), e.plan \in {d.plan, None}
    PROVE  PlanKept(e)
<1> SUFFICES ASSUME Kept(e.plan), IsFree(e.rows[e.plan.blob])
             PROVE  e.rows[e.plan.blob].free + PlanLife - e.plan.age < Grace
  BY DEF PlanKept
<1>1. e.plan = d.plan /\ Kept(d.plan)
  BY DEF Actionable, Kept
<1>2. d.plan.blob \in Blobs /\ d.plan.age \in Nat
  BY <1>1, PlanType DEF Kept
<1>3. CASE e.rows[d.plan.blob] = d.rows[d.plan.blob]
  BY <1>1, <1>3 DEF PlanKept
<1>4. CASE Fresh(e.rows[d.plan.blob])
  <2>1. 0 + PlanLife - d.plan.age < Grace
    BY <1>2, Constants
  <2> QED BY <1>1, <1>4, <2>1 DEF Fresh
<1> QED BY <1>2, <1>3, <1>4 DEF Renews

\* Recording a digest at a path makes a database need that digest, no other.
LEMMA UsesMove ==
    ASSUME NEW d, Good(d), NEW e, NEW s \in Slots, NEW n \in Blobs \cup {None},
           e.arts = [d.arts EXCEPT ![s] = n], e.plan \in {d.plan, None}
    PROVE  Uses(e) \subseteq Uses(d) \cup {n}
<1> SUFFICES ASSUME NEW b \in Uses(e), b # n PROVE b \in Uses(d)
  OBVIOUS
<1>1. b \in Blobs /\ (Holders(e, b) # {} \/ (Kept(e.plan) /\ e.plan.blob = b))
  BY DEF Uses
<1>2. CASE Holders(e, b) # {}
  <2>1. Holders(e, b) = Holders(d, b) \ {s}
    BY <1>1, HoldersMove DEF Good
  <2> QED BY <1>1, <1>2, <2>1 DEF Uses
<1>3. CASE Kept(e.plan) /\ e.plan.blob = b
  BY <1>1, <1>3 DEF Uses, Actionable, Kept
<1> QED BY <1>1, <1>2, <1>3

LEMMA UsesLess ==
    ASSUME NEW d, NEW e, \A b \in Blobs : Holders(e, b) \subseteq Holders(d, b),
           e.plan \in {d.plan, None}
    PROVE  Uses(e) \subseteq Uses(d)
BY DEF Uses, Actionable, Kept

\* A transaction on the leader's database that needs nothing new.
LEMMA TransactionSafe ==
    ASSUME SweepInv, CountInv', Renews(db, db'), PlanKept(db'),
           Uses(db') \subseteq Needed \cup (bytes \ Victims) \cup exposed',
           \A q \in Requests : req'[q] \in {req[q], NoRequest},
           exposed \subseteq exposed', UNCHANGED <<durable, copyAge, bytes, sweep, late>>
    PROVE  SweepInv'
<1>1. Uses(db)' = Uses(db') /\ Uses(durable)' = Uses(durable)
  BY DEF Uses, Holders, Actionable, Kept
<1>2. InFlight' \subseteq InFlight
  BY DEF InFlight, Recording, NoRequest
<1>3. Victims' = Victims
  BY DEF Victims
<1>4. Safe'
  BY <1>1, <1>2, <1>3 DEF Safe, Needed, SweepInv
<1>5. Copied'
  <2> SUFFICES ASSUME NEW b \in Blobs, IsFree(db'.rows[b])
               PROVE  db'.rows[b].free <= copyAge \/ durable.rows[b] = db'.rows[b]
    BY DEF Copied, IsFree
  <2>1. CASE db'.rows[b] = db.rows[b]
    BY <2>1 DEF SweepInv, Copied
  <2>2. CASE Fresh(db'.rows[b])
    <3>1. 0 <= copyAge
      BY Constants DEF SweepInv, CountInv, TypeOK
    <3> QED BY <2>2, <3>1 DEF Fresh
  <2> QED BY <2>1, <2>2 DEF Renews
<1>6. PlanKept(db)' /\ PlanKept(durable)'
  BY DEF SweepInv, PlanKept, Kept, Actionable, IsFree
<1>7. MountsFresh'
  <2> SUFFICES ASSUME NEW q \in Requests, req'[q] # NoRequest, req'[q].pc = "mounting"
               PROVE  Fresh(db'.rows[req'[q].blob])
    BY DEF MountsFresh, Fresh, IsFree, NoRequest
  <2>1. req'[q] = req[q] /\ req[q].blob \in Blobs
    BY StoredBlob DEF SweepInv
  <2>2. Fresh(db.rows[req[q].blob])
    BY <2>1 DEF SweepInv, MountsFresh
  <2> QED BY <2>1, <2>2 DEF Renews
<1>8. Guarded'
  BY DEF SweepInv, Guarded, Readers, NoRequest
<1> QED BY <1>4, <1>5, <1>6, <1>7, <1>8 DEF SweepInv

LEMMA DoneRequests ==
    ASSUME CountInv, NEW q \in Requests, Done(q)
    PROVE  \A p \in Requests : req'[p] \in {req[p], NoRequest}
BY DEF Done, CountInv, TypeOK

LEMMA RecordingInFlight ==
    ASSUME CountInv, NEW q \in Requests, Recording(q)
    PROVE  req[q].blob \in InFlight
BY DEF InFlight, Recording, CountInv, InHand

LEMMA RecordSafe ==
    ASSUME SweepInv, NEW q \in Requests, NEW s \in Slots,
           RecordArtifact(q, s) \/ RecordMount(q, s)
    PROVE  SweepInv'
<1>1. CountInv /\ Good(db) /\ PlanKept(db)
  BY CountInvParts DEF SweepInv
<1>2. /\ CountInv' /\ Renews(db, db') /\ req[q].blob \in Blobs
      /\ db'.arts = [db.arts EXCEPT ![s] = req[q].blob] /\ db'.plan = db.plan
      /\ Done(q) /\ UNCHANGED <<durable, copyAge, bytes, sweep, late, exposed>>
  BY <1>1, RecordFacts
<1>3. req[q].blob \in InFlight
  BY <1>1, RecordingInFlight DEF RecordArtifact, RecordMount, Stored, Recording
<1>4. Uses(db') \subseteq Uses(db) \cup {req[q].blob}
  BY <1>1, <1>2, UsesMove
<1>5. Uses(db') \subseteq Needed
  BY <1>3, <1>4 DEF Needed
<1>6. PlanKept(db')
  BY <1>1, <1>2, PlanRenewed
<1> QED BY <1>1, <1>2, <1>5, <1>6, DoneRequests, TransactionSafe

LEMMA AbandonSafe ==
    ASSUME SweepInv, NEW q \in Requests, AbandonBlob(q) PROVE SweepInv'
<1>1. CountInv /\ Good(db) /\ PlanKept(db)
  BY CountInvParts DEF SweepInv
<1>2. /\ CountInv' /\ Renews(db, db') /\ db'.arts = db.arts /\ db'.plan = db.plan
      /\ Done(q) /\ UNCHANGED <<durable, copyAge, bytes, sweep, late, exposed>>
  BY <1>1, AbandonFacts
<1>3. Uses(db') \subseteq Needed
  BY <1>2 DEF Uses, Holders, Needed
<1>4. PlanKept(db')
  BY <1>1, <1>2, PlanRenewed
<1> QED BY <1>1, <1>2, <1>3, <1>4, DoneRequests, TransactionSafe

\* The digest of a request that goes on to another step stays in flight.
LEMMA LeaseSafe ==
    ASSUME SweepInv, NEW q \in Requests, LeaseBlob(q) PROVE SweepInv'
<1>1. CountInv /\ Good(db) /\ PlanKept(db)
  BY CountInvParts DEF SweepInv
<1>2. /\ CountInv' /\ Renews(db, db') /\ db'.arts = db.arts /\ db'.plan = db.plan
      /\ Stored(q) /\ req' = [req EXCEPT ![q].pc = "leased"]
      /\ UNCHANGED <<durable, copyAge, bytes, sweep, late, exposed>>
  BY <1>1, LeaseFacts
<1>3. /\ req \in [Requests -> Request \cup {None}] /\ req[q] \in Request
      /\ req[q] # NoRequest /\ req[q].pc = "stored"
  BY <1>1, <1>2 DEF CountInv, TypeOK, Stored, NoRequest
<1>4. /\ \A p \in Requests \ {q} : req'[p] = req[p]
      /\ req'[q].pc = "leased" /\ req'[q].blob = req[q].blob
  BY <1>2, <1>3 DEF Request
<1>5. Uses(db)' = Uses(db) /\ Uses(durable)' = Uses(durable)
  BY <1>2 DEF Uses, Holders, Actionable, Kept
<1>6. InFlight' \subseteq InFlight /\ Victims' = Victims
  BY <1>2, <1>3, <1>4 DEF InFlight, Recording, NoRequest, Victims
<1>7. Safe'
  BY <1>2, <1>5, <1>6 DEF Safe, Needed, SweepInv
<1>8. Copied'
  <2> SUFFICES ASSUME NEW b \in Blobs, IsFree(db'.rows[b])
               PROVE  db'.rows[b].free <= copyAge \/ durable.rows[b] = db'.rows[b]
    BY <1>2 DEF Copied, IsFree
  <2>1. CASE db'.rows[b] = db.rows[b]
    BY <2>1 DEF SweepInv, Copied
  <2>2. CASE Fresh(db'.rows[b])
    <3>1. 0 <= copyAge
      BY Constants DEF SweepInv, CountInv, TypeOK
    <3> QED BY <2>2, <3>1 DEF Fresh
  <2> QED BY <1>2, <2>1, <2>2 DEF Renews
<1>9. PlanKept(db)' /\ PlanKept(durable)'
  <2>1. PlanKept(db')
    BY <1>1, <1>2, PlanRenewed
  <2> QED BY <1>2, <2>1 DEF SweepInv, PlanKept, Kept, Actionable, IsFree
<1>10. MountsFresh'
  <2> SUFFICES ASSUME NEW p \in Requests, req'[p] # NoRequest, req'[p].pc = "mounting"
               PROVE  Fresh(db'.rows[req'[p].blob])
    BY DEF MountsFresh, Fresh, IsFree, NoRequest
  <2>1. req'[p] = req[p] /\ req[p].blob \in Blobs
    BY <1>1, <1>4, StoredBlob
  <2>2. Fresh(db.rows[req[p].blob])
    BY <2>1 DEF SweepInv, MountsFresh
  <2> QED BY <1>2, <2>1, <2>2 DEF Renews
<1>11. Guarded'
  BY <1>2, <1>3, <1>4 DEF SweepInv, Guarded, Readers, NoRequest
<1> QED BY <1>2, <1>7, <1>8, <1>9, <1>10, <1>11 DEF SweepInv

\* A covered plan has a row that outlives it.
LEMMA RetainSafe ==
    ASSUME SweepInv, NEW q \in Requests, NEW s \in Slots, RetainConflict(q, s)
    PROVE  SweepInv'
<1> DEFINE b == req[q].blob
<1>1. CountInv /\ Good(db)
  BY CountInvParts DEF SweepInv
<1>2. /\ CountInv' /\ Renews(db, db') /\ b \in Blobs
      /\ db'.arts = db.arts /\ db'.rows = db.rows
      /\ db'.plan.blob = b /\ db'.plan.age = 0 /\ (db'.plan.covered => OutlivesPlan(b))
      /\ Leased(q) /\ Done(q) /\ UNCHANGED <<durable, copyAge, bytes, sweep, late, exposed>>
  BY <1>1, RetainFacts
<1>3. b \in InFlight
  BY <1>1, <1>2, RecordingInFlight DEF Leased, Recording
<1> HIDE DEF b
<1>4. Uses(db') \subseteq Uses(db) \cup {b}
  BY <1>2 DEF Uses, Holders
<1>5. Uses(db') \subseteq Needed
  BY <1>3, <1>4 DEF Needed
<1>6. PlanKept(db')
  <2> SUFFICES ASSUME db'.plan.covered, IsFree(db.rows[b])
               PROVE  db.rows[b].free + PlanLife - 0 < Grace
    BY <1>2 DEF PlanKept, Kept
  <2>1. db.rows[b].free + PlanLife < Grace /\ db.rows[b].free \in 0..MaxAge
    BY <1>1, <1>2, FreeIsUnheld DEF OutlivesPlan
  <2> QED BY <2>1, Constants
<1> QED BY <1>1, <1>2, <1>5, <1>6, DoneRequests, TransactionSafe

\* A plan that is confirmed is covered, or its bytes are there, or it is one of
\* those that are excepted.
LEMMA CommitSafe == ASSUME SweepInv, CommitConflict PROVE SweepInv'
<1>1. CountInv /\ Good(db) /\ PlanKept(db)
  BY CountInvParts DEF SweepInv
<1>2. /\ CountInv' /\ Renews(db, db') /\ Actionable(db.plan)
      /\ db.plan.blob \in Blobs /\ db.plan.slot \in Slots
      /\ db'.arts = [db.arts EXCEPT ![db.plan.slot] = db.plan.blob] /\ db'.plan = None
      /\ exposed' = IF Unkept(db.plan) THEN exposed \cup {db.plan.blob} ELSE exposed
      /\ UNCHANGED <<durable, copyAge, bytes, req, sweep, late>>
  BY <1>1, CommitFacts
<1>3. Uses(db') \subseteq Uses(db) \cup {db.plan.blob}
  BY <1>1, <1>2, UsesMove
<1>4. db.plan.blob \in Uses(db) \cup (bytes \ Victims) \cup exposed' /\ exposed \subseteq exposed'
  <2>1. CASE Unkept(db.plan)
    BY <1>2, <2>1
  <2>2. CASE ~Unkept(db.plan)
    BY <1>2, <2>2 DEF Uses, Unkept, Kept
  <2> QED BY <2>1, <2>2
<1>5. Uses(db') \subseteq Needed \cup (bytes \ Victims) \cup exposed'
  BY <1>3, <1>4 DEF Needed
<1>6. PlanKept(db')
  BY <1>1, <1>2, PlanRenewed
<1> QED BY <1>2, <1>4, <1>5, <1>6, TransactionSafe

LEMMA RemovalSafe ==
    ASSUME SweepInv, CancelConflict \/ (\E s \in Slots : DeleteArtifact(s))
                     \/ (\E r \in Repos : PurgeArtifacts(r) \/ DeleteRepository(r))
    PROVE  SweepInv'
<1>1. CountInv /\ Good(db) /\ PlanKept(db)
  BY CountInvParts DEF SweepInv
<1>2. ASSUME CountInv', Renews(db, db'), db'.plan \in {db.plan, None}, Uses(db') \subseteq Uses(db),
             UNCHANGED <<durable, copyAge, bytes, req, sweep, late, exposed>>
      PROVE  SweepInv'
  <2>1. PlanKept(db')
    BY <1>1, <1>2, PlanRenewed
  <2>2. Uses(db') \subseteq Needed
    BY <1>2 DEF Needed
  <2> QED BY <1>2, <2>1, <2>2, TransactionSafe
<1>3. CASE CancelConflict
  <2>1. /\ CountInv' /\ Renews(db, db') /\ db'.arts = db.arts /\ db'.plan = None
        /\ UNCHANGED <<durable, copyAge, bytes, req, sweep, late, exposed>>
    BY <1>1, <1>3, CancelFacts
  <2>2. Uses(db') \subseteq Uses(db)
    BY <2>1, UsesLess DEF Holders
  <2> QED BY <1>2, <2>1, <2>2
<1>4. ASSUME NEW s \in Slots, DeleteArtifact(s) PROVE SweepInv'
  <2>1. /\ CountInv' /\ Renews(db, db')
        /\ db'.arts = [db.arts EXCEPT ![s] = None] /\ db'.plan = db.plan
        /\ UNCHANGED <<durable, copyAge, bytes, req, sweep, late, exposed>>
    BY <1>1, <1>4, DeleteFacts
  <2>2. Uses(db') \subseteq Uses(db) \cup {None}
    BY <1>1, <2>1, UsesMove
  <2>3. Uses(db') \subseteq Uses(db)
    BY <2>2, BlobAssumption DEF Uses
  <2> QED BY <1>2, <2>1, <2>3
<1>5. ASSUME NEW r \in Repos, PurgeArtifacts(r) \/ DeleteRepository(r) PROVE SweepInv'
  <2>1. /\ CountInv' /\ Renews(db, db') /\ db'.plan \in {db.plan, None}
        /\ \A b \in Blobs : Holders(db', b) \subseteq Holders(db, b)
        /\ UNCHANGED <<durable, copyAge, bytes, req, sweep, late, exposed>>
    BY <1>1, <1>5, PurgeFacts, DeleteRepositoryFacts
  <2>2. Uses(db') \subseteq Uses(db)
    BY <2>1, UsesLess
  <2> QED BY <1>2, <2>1, <2>2
<1> QED BY <1>3, <1>4, <1>5

-----------------------------------------------------------------------------
(* Steps that leave both databases alone. *)

LEMMA DatabasesKept ==
    ASSUME SweepInv, CountInv', UNCHANGED <<db, durable, copyAge>>,
           InFlight' \subseteq InFlight \cup Uses(db) \cup (bytes' \ Victims') \cup exposed',
           (bytes \ Victims) \cup exposed \subseteq (bytes' \ Victims') \cup exposed',
           \A q \in Requests : req'[q] # NoRequest /\ req'[q].pc = "mounting" =>
               req'[q] = req[q] \/ Fresh(db.rows[req'[q].blob]),
           Guarded'
    PROVE  SweepInv'
<1>1. Uses(db)' = Uses(db) /\ Uses(durable)' = Uses(durable)
  BY DEF Uses, Holders, Actionable, Kept
<1>2. Safe'
  BY <1>1 DEF Safe, Needed, SweepInv
<1>3. Copied' /\ PlanKept(db)' /\ PlanKept(durable)'
  BY DEF SweepInv, Copied, PlanKept, Kept, Actionable, IsFree
<1>4. MountsFresh'
  BY DEF SweepInv, MountsFresh, Fresh, IsFree, NoRequest
<1> QED BY <1>2, <1>3, <1>4 DEF SweepInv

LEMMA GivesUpSafe ==
    ASSUME SweepInv, NEW q \in Requests, StoreFails(q) \/ RecordRefused(q) PROVE SweepInv'
<1>1. CountInv /\ CountInv' /\ Done(q) /\ UNCHANGED <<db, durable, copyAge, bytes, sweep, late, exposed>>
  BY GivesUpCounts DEF SweepInv, StoreFails, RecordRefused
<1>2. \A p \in Requests : req'[p] \in {req[p], NoRequest}
  BY <1>1, DoneRequests
<1>3. InFlight' \subseteq InFlight /\ Victims' = Victims
  BY <1>1, <1>2 DEF InFlight, Recording, NoRequest, Victims
<1>4. Guarded'
  BY <1>1, <1>2 DEF SweepInv, Guarded, Readers, NoRequest
<1> QED BY <1>1, <1>2, <1>3, <1>4, DatabasesKept

LEMMA ReadLockSafe == ASSUME SweepInv, NEW q \in Requests, ReadLock(q) PROVE SweepInv'
<1>1. /\ CountInv /\ CountInv' /\ UNCHANGED <<db, durable, copyAge, bytes, sweep, late, exposed>>
      /\ req' = [req EXCEPT ![q] = [pc |-> "locked", blob |-> None]]
      /\ sweep.pc \notin {"waiting", "deleting"} /\ req \in [Requests -> Request \cup {None}]
  BY ReadLockCounts DEF SweepInv, ReadLock, CountInv, TypeOK
<1>2. \A p \in Requests : req'[p] = req[p] \/ (req'[p] = [pc |-> "locked", blob |-> None])
  BY <1>1
<1>3. \A p \in Requests : req'[p] = req[p] \/ req'[p].pc = "locked"
  BY <1>2
<1>4. InFlight' \subseteq InFlight /\ Victims' = Victims
  BY <1>1, <1>3 DEF InFlight, Recording, Victims, NoRequest
<1>5. Guarded'
  BY <1>1 DEF Guarded
<1> QED BY <1>1, <1>3, <1>4, <1>5, DatabasesKept

\* Bytes arrive only while this leader's sweeper does not delete; those a
\* deposed leader's sweep is yet to delete are excepted.
LEMMA StoreBytesSafe ==
    ASSUME SweepInv, NEW q \in Requests, NEW b \in Blobs, StoreBytes(q, b)
    PROVE  SweepInv'
<1>1. /\ CountInv /\ CountInv' /\ UNCHANGED <<db, durable, copyAge, sweep, late>>
      /\ bytes' = bytes \cup {b} /\ req[q] # NoRequest /\ req[q].pc = "locked"
      /\ req' = [req EXCEPT ![q] = [pc |-> "stored", blob |-> b]]
      /\ exposed' = IF b \in late THEN exposed \cup {b} ELSE exposed \ {b}
      /\ req \in [Requests -> Request \cup {None}]
  BY StoreBytesCounts DEF SweepInv, StoreBytes, CountInv, TypeOK
<1>2. q \in Readers
  BY <1>1 DEF Readers
<1>3. sweep.pc # "deleting"
  BY <1>2 DEF SweepInv, Guarded
<1>4. \A p \in Requests : req'[p] = req[p] \/ (req'[p].pc = "stored" /\ req'[p].blob = b)
  BY <1>1
<1>5. Victims' = Victims /\ (b \in Victims => b \in late)
  BY <1>1, <1>3 DEF Victims
<1>6. InFlight' \subseteq InFlight \cup {b}
  BY <1>4 DEF InFlight, Recording, NoRequest
<1>7. b \in (bytes' \ Victims') \cup exposed'
  BY <1>1, <1>5
<1>8. (bytes \ Victims) \cup exposed \subseteq (bytes' \ Victims') \cup exposed'
  BY <1>1, <1>5, <1>7
<1>9. Guarded'
  BY <1>1, <1>3 DEF Guarded
<1> QED BY <1>1, <1>4, <1>6, <1>7, <1>8, <1>9, DatabasesKept

\* What is mounted is held when it is read, so its row is counted.
LEMMA HeldIsFresh ==
    ASSUME NEW d, Good(d), NEW b \in Blobs, Holders(d, b) # {}
    PROVE  Fresh(d.rows[b])
<1>1. d.rows[b] # None
  BY GoodRow
<1>2. ~IsFree(d.rows[b])
  BY FreeIsUnheld
<1> QED BY <1>1, <1>2 DEF Fresh

LEMMA MountSafe ==
    ASSUME SweepInv, NEW q \in Requests, NEW from \in Slots, Mount(q, from) PROVE SweepInv'
<1> DEFINE b == db.arts[from]
<1>1. /\ CountInv /\ CountInv' /\ UNCHANGED <<db, durable, copyAge, bytes, sweep, late, exposed>>
      /\ req[q] = NoRequest /\ b # None
      /\ req' = [req EXCEPT ![q] = [pc |-> "mounting", blob |-> b]]
      /\ req \in [Requests -> Request \cup {None}] /\ Good(db)
  BY MountCounts, CountInvParts DEF SweepInv, Mount, CountInv, TypeOK
<1>2. b \in Blobs /\ Holders(db, b) # {}
  BY <1>1 DEF Good, Database, Holders
<1>3. Fresh(db.rows[b]) /\ b \in Uses(db)
  BY <1>1, <1>2, HeldIsFresh DEF Uses
<1> HIDE DEF b
<1>4. \A p \in Requests : req'[p] = req[p] \/ (req'[p].pc = "mounting" /\ req'[p].blob = b)
  BY <1>1
<1>5. Victims' = Victims
  BY <1>1 DEF Victims
<1>6. InFlight' \subseteq InFlight \cup {b}
  BY <1>4 DEF InFlight, Recording, NoRequest
<1>7. Guarded'
  BY <1>1, <1>4 DEF SweepInv, Guarded, Readers, NoRequest
<1> QED BY <1>1, <1>3, <1>4, <1>5, <1>6, <1>7, DatabasesKept

-----------------------------------------------------------------------------
(* The sweeper, time and failover. *)

\* The sweeper before its deletes, and after one that failed.
LEMMA SweeperSafe ==
    ASSUME SweepInv, CountInv', UNCHANGED <<db, durable, copyAge, bytes, req, late, exposed>>,
           sweep'.pc # "deleting"
    PROVE  SweepInv'
<1>1. InFlight' = InFlight /\ Victims' \subseteq Victims
  BY DEF InFlight, Recording, NoRequest, Victims
<1>2. Guarded'
  BY DEF Guarded
<1> QED BY <1>1, <1>2, DatabasesKept

\* The heart of it: a row that is free for longer than the grace is free in the
\* durable copy too, and neither database needs its digest.
LEMMA ReclaimableUnused ==
    ASSUME SweepInv, NEW x \in Blobs, NEW age \in Nat, Reclaimable(db.rows[x], age)
    PROVE  x \notin Uses(db) /\ x \notin Uses(durable)
<1> DEFINE row == db.rows[x]
<1>1. CountInv /\ Good(db) /\ Good(durable) /\ copyAge \in 0..MaxLag
  BY CountInvParts DEF SweepInv, CountInv, TypeOK
<1>2. IsFree(row) /\ row.free >= Grace + age
  BY DEF Reclaimable
<1>3. row.free \in Nat /\ row.free >= Grace /\ Holders(db, x) = {}
  <2>1. row.free \in 0..MaxAge /\ Holders(db, x) = {}
    BY <1>1, <1>2, FreeIsUnheld
  <2> QED BY <1>1, <1>2, <2>1, Constants
<1>4. durable.rows[x] = row
  <2>1. ~(row.free <= copyAge)
    BY <1>1, <1>3, Constants
  <2> QED BY <1>2, <2>1 DEF SweepInv, Copied
<1>5. Holders(durable, x) = {}
  BY <1>1, <1>2, <1>4, FreeIsUnheld
<1> HIDE DEF row
<1>6. ASSUME NEW d, Good(d), PlanKept(d), d.rows[x] = row, Kept(d.plan)
      PROVE  d.plan.blob # x
  <2> SUFFICES ASSUME d.plan.blob = x PROVE FALSE
    OBVIOUS
  <2>1. row.free + PlanLife - d.plan.age < Grace
    BY <1>2, <1>6 DEF PlanKept
  <2>2. d.plan.age \in Nat /\ d.plan.age < PlanLife
    BY <1>6, PlanType DEF Kept
  <2> QED BY <1>3, <2>1, <2>2, Constants
<1>7. /\ Kept(db.plan) => db.plan.blob # x
      /\ Kept(durable.plan) => durable.plan.blob # x
  <2>1. PlanKept(db) /\ PlanKept(durable) /\ db.rows[x] = row
    BY DEF SweepInv, row
  <2> QED BY <1>1, <1>4, <1>6, <2>1
<1> QED BY <1>3, <1>5, <1>7 DEF Uses

\* The sweeper's record delete: no mount has the digest and no reader is in.
LEMMA DeleteRecordSafe ==
    ASSUME SweepInv, DeleteBlobRecord, Reclaimable(db.rows[sweep.blob], sweep.age)
    PROVE  SweepInv'
<1> DEFINE x == sweep.blob
           row == db.rows[x]
<1>1. CountInv /\ Good(db) /\ Good(durable) /\ copyAge \in 0..MaxLag /\ sweep.age \in Nat
  BY CountInvParts, Constants DEF SweepInv, CountInv, TypeOK
<1>2. /\ CountInv' /\ x \in Blobs
      /\ db'.arts = db.arts /\ db'.plan = db.plan /\ db'.rows[x] = None
      /\ \A b \in Blobs \ {x} : db'.rows[b] = db.rows[b]
      /\ sweep'.pc = "deleting" /\ sweep'.blob = x
      /\ Readers = {} /\ UNCHANGED <<durable, copyAge, bytes, req, late, exposed>>
  BY <1>1, DeleteRecordFacts
<1>3. IsFree(row) /\ row.free >= Grace + sweep.age
  BY DEF Reclaimable
<1>4. row.free \in Nat /\ row.free >= Grace
  <2>1. row.free \in 0..MaxAge
    BY <1>1, <1>2, <1>3, FreeIsUnheld
  <2> QED BY <1>1, <1>3, <2>1, Constants
<1>8. x \notin Uses(db) /\ x \notin Uses(durable)
  BY <1>1, <1>2, ReclaimableUnused
<1> HIDE DEF x, row
<1>9. ASSUME NEW q \in Requests, Recording(q) PROVE req[q].blob # x
  <2>1. req[q].pc = "mounting"
    <3>1. q \notin Readers
      BY <1>2
    <3>2. req[q] \in Request
      BY <1>1, <1>9 DEF Recording, CountInv, TypeOK, NoRequest
    <3> QED BY <1>9, <3>1, <3>2 DEF Readers, Recording, Request
  <2>2. Fresh(db.rows[req[q].blob])
    BY <1>9, <2>1 DEF SweepInv, MountsFresh, Recording
  <2>3. ~Fresh(row)
    BY <1>3, <1>4, Constants DEF Fresh
  <2> QED BY <2>2, <2>3 DEF row
<1>10. x \notin Needed
  BY <1>8, <1>9 DEF Needed, InFlight
<1>11. Victims' \subseteq Victims \cup {x}
  BY <1>2 DEF Victims
<1>12. Uses(db)' = Uses(db) /\ Uses(durable)' = Uses(durable) /\ InFlight' = InFlight
  BY <1>2 DEF Uses, Holders, Actionable, Kept, InFlight, Recording, NoRequest
<1>13. Safe'
  BY <1>2, <1>10, <1>11, <1>12 DEF Safe, Needed, SweepInv
<1>14. Copied'
  <2> SUFFICES ASSUME NEW b \in Blobs, IsFree(db'.rows[b])
               PROVE  db'.rows[b].free <= copyAge \/ durable.rows[b] = db'.rows[b]
    BY <1>2 DEF Copied, IsFree
  <2>1. b # x
    BY <1>2 DEF IsFree
  <2> QED BY <1>2, <2>1 DEF SweepInv, Copied
<1>15. PlanKept(db)' /\ PlanKept(durable)'
  <2>1. Kept(db.plan) => db.plan.blob \in Blobs
    BY <1>1, PlanType DEF Kept
  <2>2. PlanKept(db')
    BY <1>2, <2>1 DEF SweepInv, PlanKept, IsFree
  <2> QED BY <1>2, <2>2 DEF SweepInv, PlanKept, Kept, Actionable, IsFree
<1>16. MountsFresh'
  <2> SUFFICES ASSUME NEW q \in Requests, req[q] # NoRequest, req[q].pc = "mounting"
               PROVE  Fresh(db'.rows[req[q].blob])
    BY <1>2 DEF MountsFresh, Fresh, IsFree, NoRequest
  <2>1. req[q].blob # x /\ req[q].blob \in Blobs
    BY <1>1, <1>9, StoredBlob DEF Recording
  <2> QED BY <1>2, <2>1 DEF SweepInv, MountsFresh
<1>17. Guarded'
  BY <1>2 DEF Guarded, Readers, NoRequest
<1> QED BY <1>2, <1>13, <1>14, <1>15, <1>16, <1>17 DEF SweepInv

LEMMA SweepStepSafe == ASSUME SweepInv, SweepStep PROVE SweepInv'
<1>0. CountInv
  BY DEF SweepInv
<1>1. ASSUME NEW todo \in SUBSET Blobs, ListUnreferenced(todo) PROVE SweepInv'
  BY <1>0, <1>1, ListCounts, SweeperSafe DEF ListUnreferenced
<1>2. ASSUME NEW b \in Blobs, WriteLock(b) PROVE SweepInv'
  <2>1. sweep'.pc = "waiting"
    BY <1>0, <1>2 DEF WriteLock, CountInv, TypeOK
  <2> QED BY <1>0, <1>2, <2>1, WriteLockCounts, SweeperSafe DEF WriteLock
<1>3. CASE DeleteBlobRecord
  <2>1. CASE Reclaimable(db.rows[sweep.blob], sweep.age)
    BY <1>3, <2>1, DeleteRecordSafe
  <2>2. CASE ~Reclaimable(db.rows[sweep.blob], sweep.age)
    BY <1>0, <1>3, <2>2, MovesOnCounts, SweeperSafe DEF DeleteBlobRecord
  <2> QED BY <2>1, <2>2
<1>4. CASE DeleteBytesFails
  BY <1>0, <1>4, MovesOnCounts, SweeperSafe DEF DeleteBytesFails
<1>5. CASE DeleteBytes
  <2>1. /\ sweep.pc = "deleting" /\ bytes' = bytes \ {sweep.blob} /\ sweep' = NextDigest
        /\ UNCHANGED <<db, durable, copyAge, req, late, exposed>>
    BY <1>5 DEF DeleteBytes
  <2>2. CountInv' /\ sweep'.pc \in {"idle", "listed"} /\ sweep.blob \in Blobs
    BY <1>0, <2>1, MovesOnCounts DEF CountInv, InHand
  <2>3. sweep.blob \in Victims /\ Victims' \subseteq Victims
    BY <2>1, <2>2 DEF Victims
  <2>4. InFlight' = InFlight /\ Guarded'
    BY <2>1, <2>2 DEF InFlight, Recording, NoRequest, Guarded
  <2> QED BY <2>1, <2>2, <2>3, <2>4, DatabasesKept
<1> QED BY <1>1, <1>2, <1>3, <1>4, <1>5 DEF SweepStep

LEMMA LateDeleteSafe == ASSUME SweepInv, NEW b \in Blobs, LateDelete(b) PROVE SweepInv'
<1>1. /\ CountInv' /\ b \in late /\ bytes' = bytes \ {b} /\ late' = late \ {b}
      /\ UNCHANGED <<db, durable, copyAge, req, sweep, exposed>>
  BY LateDeleteCounts DEF SweepInv, LateDelete
<1>2. b \in Victims /\ Victims' \subseteq Victims
  BY <1>1 DEF Victims
<1>3. InFlight' = InFlight /\ Guarded'
  BY <1>1 DEF InFlight, Recording, NoRequest, Guarded, Readers, SweepInv
<1> QED BY <1>1, <1>2, <1>3, DatabasesKept

\* A database that grows older needs no more, and its plan stays ahead of the
\* grace.
LEMMA AgedKept ==
    ASSUME NEW d, Good(d), PlanKept(d)
    PROVE  Uses(Aged(d)) \subseteq Uses(d) /\ PlanKept(Aged(d))
<1> DEFINE e == Aged(d)
<1>1. /\ \A b \in Blobs : Holders(e, b) = Holders(d, b)
      /\ \A b \in Blobs :
           /\ IsFree(e.rows[b]) = IsFree(d.rows[b])
           /\ IsFree(d.rows[b]) => e.rows[b] = [d.rows[b] EXCEPT !.free = Older(d.rows[b].free)]
           /\ ~IsFree(d.rows[b]) => e.rows[b] = d.rows[b]
      /\ e.plan = AgedPlan(d.plan)
      /\ Good(e)
  BY AgedGood
<1> HIDE DEF e
<1>2. ASSUME Kept(e.plan)
      PROVE  /\ Kept(d.plan) /\ e.plan.blob = d.plan.blob
             /\ d.plan.blob \in Blobs /\ e.plan.age = d.plan.age + 1 /\ d.plan.age \in Nat
  <2>1. d.plan # None /\ d.plan.age + 1 < PlanLife /\ e.plan = [d.plan EXCEPT !.age = d.plan.age + 1]
    BY <1>1, <1>2 DEF AgedPlan, Actionable, Kept
  <2>2. d.plan \in Plan
    BY <2>1 DEF Good, Database
  <2>3. /\ e.plan.blob = d.plan.blob /\ e.plan.age = d.plan.age + 1 /\ e.plan.covered = d.plan.covered
        /\ d.plan.age \in 0..PlanLife /\ d.plan.blob \in Blobs
    BY <2>1, <2>2 DEF Plan
  <2>4. d.plan.age < PlanLife /\ d.plan.age \in Nat
    BY <2>1, <2>3, Constants
  <2> QED BY <1>2, <2>1, <2>3, <2>4 DEF Actionable, Kept
<1>3. Uses(e) \subseteq Uses(d)
  BY <1>1, <1>2 DEF Uses
<1>4. PlanKept(e)
  <2> SUFFICES ASSUME Kept(e.plan), IsFree(e.rows[e.plan.blob])
               PROVE  e.rows[e.plan.blob].free + PlanLife - e.plan.age < Grace
    BY DEF PlanKept
  <2> DEFINE b == d.plan.blob
  <2>1. b \in Blobs /\ e.plan.blob = b /\ e.plan.age = d.plan.age + 1 /\ d.plan.age \in Nat
    BY <1>2
  <2>2. IsFree(d.rows[b])
    BY <1>1, <2>1
  <2>3. d.rows[b].free + PlanLife - d.plan.age < Grace
    BY <1>2, <2>2 DEF PlanKept
  <2> HIDE DEF b
  <2>4. d.rows[b] \in Row /\ d.rows[b].free \in 0..MaxAge
    BY <2>1, <2>2, FreeIsUnheld
  <2>5. e.rows[b] = [d.rows[b] EXCEPT !.free = Older(d.rows[b].free)]
    BY <1>1, <2>1, <2>2
  <2>6. e.rows[b].free = Older(d.rows[b].free)
    BY <2>4, <2>5 DEF Row
  <2>7. Older(d.rows[b].free) <= d.rows[b].free + 1 /\ Older(d.rows[b].free) \in Nat
    BY <2>4, Constants DEF Older
  <2>8. e.rows[b].free + PlanLife - e.plan.age < Grace
    BY <2>1, <2>3, <2>4, <2>6, <2>7, Constants
  <2> QED BY <2>1, <2>8
<1> QED BY <1>3, <1>4 DEF e

LEMMA TickSafe == ASSUME SweepInv, Tick PROVE SweepInv'
<1>1. CountInv /\ Good(db) /\ Good(durable) /\ PlanKept(db) /\ PlanKept(durable)
      /\ copyAge \in 0..MaxLag
  BY CountInvParts DEF SweepInv, CountInv, TypeOK
<1>2. /\ CountInv' /\ db' = Aged(db) /\ durable' = Aged(durable) /\ copyAge' = copyAge + 1
      /\ sweep'.pc = sweep.pc /\ sweep'.blob = sweep.blob /\ UNCHANGED <<bytes, req, late, exposed>>
      /\ \A q \in Requests : req[q] # NoRequest => req[q].pc # "mounting"
  BY <1>1, TickFacts
<1>3. /\ Uses(db') \subseteq Uses(db) /\ PlanKept(db')
      /\ Uses(durable') \subseteq Uses(durable) /\ PlanKept(durable')
  BY <1>1, <1>2, AgedKept
<1>4. Uses(db)' = Uses(db') /\ Uses(durable)' = Uses(durable') /\ InFlight' = InFlight
  BY <1>2 DEF Uses, Holders, Actionable, Kept, InFlight, Recording, NoRequest
<1>5. Safe'
  <2>1. Victims' = Victims
    BY <1>2 DEF Victims
  <2> QED BY <1>2, <1>3, <1>4, <2>1 DEF Safe, Needed, SweepInv
<1>6. PlanKept(db)' /\ PlanKept(durable)'
  BY <1>3 DEF PlanKept, Kept, Actionable, IsFree
<1>7. Copied'
  <2> SUFFICES ASSUME NEW b \in Blobs, IsFree(db'.rows[b])
               PROVE  db'.rows[b].free <= copyAge + 1 \/ durable'.rows[b] = db'.rows[b]
    BY <1>2 DEF Copied, IsFree
  <2>1. IsFree(db.rows[b]) /\ db'.rows[b] = [db.rows[b] EXCEPT !.free = Older(db.rows[b].free)]
    BY <1>1, <1>2, AgedGood
  <2>2. CASE durable.rows[b] = db.rows[b]
    <3>1. IsFree(durable.rows[b])
      BY <2>1, <2>2
    <3>2. durable'.rows[b] = [durable.rows[b] EXCEPT !.free = Older(durable.rows[b].free)]
      BY <1>1, <1>2, <3>1, AgedGood
    <3> QED BY <2>1, <2>2, <3>2
  <2>3. CASE db.rows[b].free <= copyAge
    <3>1. db.rows[b] \in Row /\ db.rows[b].free \in 0..MaxAge
      BY <1>1, <2>1, FreeIsUnheld
    <3>2. db'.rows[b].free = Older(db.rows[b].free)
      BY <2>1, <3>1 DEF Row
    <3>3. Older(db.rows[b].free) <= db.rows[b].free + 1 /\ Older(db.rows[b].free) \in Nat
      BY <3>1, Constants DEF Older
    <3> QED BY <1>1, <2>3, <3>1, <3>2, <3>3, Constants
  <2> QED BY <2>1, <2>2, <2>3 DEF SweepInv, Copied
<1>8. MountsFresh' /\ Guarded'
  BY <1>2 DEF MountsFresh, Guarded, Readers, NoRequest, SweepInv
<1> QED BY <1>2, <1>5, <1>6, <1>7, <1>8 DEF SweepInv

LEMMA ReplicateSafe == ASSUME SweepInv, Replicate PROVE SweepInv'
<1>1. CountInv' /\ db' = db /\ durable' = db /\ UNCHANGED <<bytes, req, sweep, late, exposed>>
  BY ReplicateCounts DEF Replicate, SweepInv
<1>2. Safe'
  BY <1>1 DEF SweepInv, Safe, Needed, Uses, Holders, Actionable, Kept, InFlight, Recording, NoRequest, Victims
<1>3. Copied' /\ PlanKept(db)' /\ PlanKept(durable)'
  BY <1>1 DEF SweepInv, Copied, PlanKept, Kept, Actionable, IsFree
<1>4. MountsFresh' /\ Guarded'
  BY <1>1 DEF SweepInv, MountsFresh, Fresh, IsFree, NoRequest, Guarded, Readers
<1> QED BY <1>1, <1>2, <1>3, <1>4 DEF SweepInv

LEMMA FailoverSafe == ASSUME SweepInv, Failover PROVE SweepInv'
<1>1. /\ CountInv' /\ db' = durable /\ sweep'.pc = "idle"
      /\ \A q \in Requests : req'[q] = NoRequest
      /\ late' \subseteq late \cup Orphaned
      /\ UNCHANGED <<durable, copyAge, bytes, exposed>>
  BY FailoverFacts DEF SweepInv
<1>2. Uses(db)' = Uses(durable) /\ Uses(durable)' = Uses(durable) /\ InFlight' = {}
  BY <1>1 DEF Uses, Holders, Actionable, Kept, InFlight, Recording, NoRequest
<1>3. ASSUME NEW b \in Victims' PROVE b \in Victims \/ b \notin Uses(durable)
  <2>1. b \in late \/ (b \in Blobs /\ (Reclaimable(db.rows[b], 0) \/ b \in Victims))
    BY <1>1 DEF Victims, Orphaned
  <2> QED BY <2>1, ReclaimableUnused DEF Victims
<1>4. Safe'
  BY <1>1, <1>2, <1>3 DEF SweepInv, Safe, Needed
<1>5. Copied' /\ PlanKept(db)' /\ PlanKept(durable)'
  BY <1>1 DEF SweepInv, Copied, PlanKept, Kept, Actionable, IsFree
<1>6. MountsFresh' /\ Guarded'
  BY <1>1 DEF MountsFresh, NoRequest, Guarded
<1> QED BY <1>1, <1>4, <1>5, <1>6 DEF SweepInv

-----------------------------------------------------------------------------
LEMMA InitSafe == ASSUME Init PROVE SweepInv
<1>1. CountInv
  BY InitCounts
<1>2. /\ db = [rows |-> [b \in Blobs |-> None], arts |-> [s \in Slots |-> None], plan |-> None]
      /\ durable = db /\ sweep.pc = "idle" /\ \A q \in Requests : req[q] = NoRequest
  BY IdleSweep DEF Init
<1>3. ~Actionable(db.plan) /\ \A b \in Blobs : ~IsFree(db.rows[b]) /\ Holders(db, b) = {}
  BY <1>2, BlobAssumption DEF Actionable, IsFree, Holders
<1>4. Needed = {}
  BY <1>2, <1>3 DEF Needed, Uses, Kept, InFlight, Recording
<1> QED BY <1>1, <1>2, <1>3, <1>4 DEF SweepInv, Safe, Copied, PlanKept, Kept, MountsFresh, Guarded

LEMMA SafetyKept == ASSUME SweepInv, [Next]_vars PROVE SweepInv'
<1>1. CASE UNCHANGED vars
  <2>1. CountInv'
    BY <1>1, CountsKept DEF SweepInv
  <2>2. InFlight' = InFlight /\ Victims' = Victims /\ Guarded'
    BY <1>1 DEF vars, InFlight, Recording, NoRequest, Victims, Guarded, Readers, SweepInv
  <2> QED BY <1>1, <2>1, <2>2, DatabasesKept DEF vars
<1>2. ASSUME NEW q \in Requests, ReadLock(q) \/ RequestStep(q) PROVE SweepInv'
  BY <1>2, ReadLockSafe, StoreBytesSafe, GivesUpSafe, AbandonSafe, RecordSafe, LeaseSafe,
     RetainSafe
     DEF RequestStep
<1> QED BY <1>1, <1>2, MountSafe, CommitSafe, RemovalSafe, SweepStepSafe, TickSafe, ReplicateSafe,
           FailoverSafe, LateDeleteSafe
        DEF Next

LEMMA SweepInvariant == Spec => []SweepInv
<1>1. SweepInv /\ [Next]_vars => SweepInv'
  BY SafetyKept
<1> QED BY <1>1, InitSafe, PTL DEF Spec

\* No artifact of the database points at bytes that are gone, however uploads,
\* mounts, deletions, sweeps, failovers and the sweeps of deposed leaders
\* interleave (repo/sweeper.rs), for every grace longer than the age of the
\* durable copy; but for the digests that were uploaded under the eyes of a
\* deposed leader's sweep and the plans confirmed after their bytes had gone.
THEOREM ArtifactsHaveBytes == Spec => []NoDangling
<1>1. SweepInv => NoDangling
  BY DEF SweepInv, Safe, Needed, Uses, Holders, NoDangling, CountInv, TypeOK, Database
<1> QED BY <1>1, SweepInvariant, PTL

\* The staged bytes of a conflict are there as long as the user can confirm it,
\* for the plans whose row the grace covered when they were retained
\* (meta/publication.rs, lease_upload_blob).
THEOREM StagedBytesSurvive == Spec => []StagedBytesKept
<1>1. SweepInv => StagedBytesKept
  <2> SUFFICES ASSUME SweepInv, Actionable(db.plan), db.plan.covered
               PROVE  db.plan.blob \in bytes \cup exposed
    BY DEF StagedBytesKept
  <2>1. db.plan.blob \in Blobs
    BY CountInvParts, PlanType DEF SweepInv
  <2> QED BY <2>1 DEF SweepInv, Safe, Needed, Uses, Kept
<1> QED BY <1>1, SweepInvariant, PTL

\* Bytes are deleted, by the leader or by a deposed one, only when neither the
\* database nor the copy a failover brings back nor a request under way has
\* them (repo/sweeper.rs, reclaim_blob), with the exceptions of ArtifactsHaveBytes.
THEOREM DeletionsOutliveRollback == Spec => BytesOutliveRollback
<1> DEFINE Unneeded ==
      \A b \in bytes \ (bytes' \cup exposed) :
          /\ Holders(db, b) = {} /\ Holders(durable, b) = {}
          /\ \A q \in Requests : req[q] # NoRequest /\ req[q].pc # "locked" => req[q].blob # b
<1>1. SweepInv /\ [Next]_vars => [Unneeded]_vars
  <2> SUFFICES ASSUME SweepInv, Next, NEW b \in bytes \ (bytes' \cup exposed)
               PROVE  /\ Holders(db, b) = {} /\ Holders(durable, b) = {}
                      /\ \A q \in Requests : req[q] # NoRequest /\ req[q].pc # "locked"
                                                => req[q].blob # b
    OBVIOUS
  <2>1. b \in Blobs
    BY DEF SweepInv, CountInv, TypeOK
  <2>2. b \in Victims
    <3>1. bytes' # bytes /\ ~(bytes \subseteq bytes')
      OBVIOUS
    <3>2. CASE DeleteBytes
      BY <2>1, <3>2 DEF DeleteBytes, Victims
    <3>3. ASSUME NEW c \in Blobs, LateDelete(c) PROVE b \in Victims
      BY <2>1, <3>3 DEF LateDelete, Victims
    <3> QED BY <3>1, <3>2, <3>3
            DEF Next, RequestStep, SweepStep, ReadLock, StoreBytes, StoreFails, AbandonBlob,
                RecordRefused, RecordArtifact, LeaseBlob, RetainConflict, RecordMount, Mount,
                CommitConflict, CancelConflict, DeleteArtifact, PurgeArtifacts, DeleteRepository,
                ListUnreferenced, WriteLock, DeleteBlobRecord, DeleteBytesFails, Tick, Replicate,
                Failover
  <2>3. b \notin Needed
    BY <2>2 DEF SweepInv, Safe
  <2> QED BY <2>1, <2>3 DEF Needed, Uses, InFlight, Recording
<1> QED BY <1>1, SweepInvariant, PTL DEF Spec, BytesOutliveRollback
=============================================================================
