--------------------------- MODULE MetaSyncProofs ---------------------------
(* Proofs about the metadata sync, for every set of pods, every number of   *)
(* terms, crashes and writes, and every way of handing leadership over.     *)
EXTENDS MetaSync, TLAPS

-----------------------------------------------------------------------------
(* Types.                                                                   *)

\* The values things start from and are reset to have their types.
LEMMA Resets ==
    /\ NoObject \in Object
    /\ NoShip \in Ship
    /\ NoReplica \in Replica
    /\ NoOp \in Op
    /\ \A k \in Kinds, a \in Steps : [NoOp EXCEPT !.kind = k, !.at = a] \in Op
<1>1. {} \in Data /\ <<>> \in Seq(Segment)
  BY DEF Data
<1>2. NoObject \in Object
  BY <1>1 DEF NoObject, Object
<1>3. NoShip \in Ship
  BY <1>1 DEF NoShip, Ship
<1>4. NoReplica \in Replica
  BY <1>1, <1>2 DEF NoReplica, Replica
<1>5. NoOp \in Op
  BY <1>1, <1>2 DEF NoOp, Op, Kinds, Steps
<1>6. \A k \in Kinds, a \in Steps : [NoOp EXCEPT !.kind = k, !.at = a] \in Op
  BY <1>5 DEF NoOp, Op
<1> QED BY <1>2, <1>3, <1>4, <1>5, <1>6

\* What a restore gives is a set of writes.
LEMMA RestoredType == TypeOK => Restored \in Data
<1> SUFFICES ASSUME TypeOK PROVE Restored \in Data
  OBVIOUS
<1>1. base.content \in Data /\ \A x \in segs : x.data \in Data
  BY DEF TypeOK, Object, Segment
<1> QED BY <1>1 DEF Restored, Data

-----------------------------------------------------------------------------
(* Types are preserved.                                                     *)

\* The election, the clients and the crashes.
LEMMA TypePod ==
    ASSUME TypeOK, NEW p \in Pods, Elect(p) \/ Depose(p) \/ Write(p) \/ Crash(p)
    PROVE  TypeOK'
<1> USE ModesAssumption DEF TypeOK, bucket, election, counters
<1>1. CASE Elect(p)
  <2>1. \A t \in Nat : Append(requests[p], [call |-> "promote", fence |-> t]) \in Seq(Request)
    BY DEF Request
  <2>2. requests' \in [Pods -> Seq(Request)]
    BY <1>1, <2>1 DEF Elect
  <2> QED BY <1>1, <2>2 DEF Elect, OthersStoodDown
<1>2. CASE Depose(p)
  <2>1. Append(requests[p], [call |-> "demote", fence |-> 0]) \in Seq(Request)
    BY DEF Request
  <2> QED BY <1>2, <2>1 DEF Depose
<1>3. CASE Write(p)
  <2>1. db[p] \cup {writes + 1} \in Data
    BY <1>3 DEF Write, Data
  <2> QED BY <1>3, <2>1 DEF Write
<1>4. CASE Crash(p)
  <2>1. NoShip \in Ship /\ NoReplica \in Replica /\ NoOp \in Op
    BY Resets
  <2>4. {} \in Data /\ <<>> \in Seq(Request)
    BY DEF Data
  <2>2. /\ db' \in [Pods -> Data] /\ fence' \in [Pods -> Nat]
        /\ ship' \in [Pods -> Ship] /\ replica' \in [Pods -> Replica]
        /\ requests' \in [Pods -> Seq(Request)] /\ op' \in [Pods -> Op]
    BY <1>4, <2>1, <2>4 DEF Crash
  <2>3. /\ up' \in [Pods -> BOOLEAN] /\ holds' \in [Pods -> BOOLEAN]
        /\ isLeader' \in [Pods -> BOOLEAN]
    BY <1>4 DEF Crash
  <2> QED BY <1>4, <2>2, <2>3 DEF Crash
<1> QED BY <1>1, <1>2, <1>3, <1>4

\* What is done with the lock keeps the type of the operation.
LEMMA OpType ==
    ASSUME TypeOK, NEW p \in Pods
    PROVE  /\ \A k \in Kinds, a \in Steps : Begin(p, k, a) => op' \in [Pods -> Op]
           /\ \A a \in Steps : GoTo(p, a) => op' \in [Pods -> Op]
           /\ Release(p) => op' \in [Pods -> Op]
<1>1. op \in [Pods -> Op] /\ op[p] \in Op
  BY DEF TypeOK
<1>2. \A k \in Kinds, a \in Steps : Begin(p, k, a) => op' \in [Pods -> Op]
  BY <1>1, Resets DEF Begin
<1>3. \A a \in Steps : [op[p] EXCEPT !.at = a] \in Op
  BY <1>1 DEF Op
<1>4. \A a \in Steps : GoTo(p, a) => op' \in [Pods -> Op]
  BY <1>1, <1>3 DEF GoTo
<1>5. Release(p) => op' \in [Pods -> Op]
  BY <1>1, Resets DEF Release
<1> QED BY <1>2, <1>4, <1>5

\* Whoever takes the lock.
LEMMA TypeBegin ==
    ASSUME TypeOK, NEW p \in Pods,
           BeginPromote(p) \/ BeginDemote(p) \/ BeginCycle(p) \/ BeginBoot(p)
    PROVE  TypeOK'
<1> USE DEF TypeOK, bucket, election, counters
<1>1. ASSUME requests[p] # <<>>
      PROVE  Tail(requests[p]) \in Seq(Request) /\ Head(requests[p]).fence \in Nat
  <2>1. requests[p] \in Seq(Request)
    OBVIOUS
  <2>2. Head(requests[p]) \in Request /\ Tail(requests[p]) \in Seq(Request)
    BY <1>1, <2>1
  <2> QED BY <2>2 DEF Request
<1>2. CASE BeginPromote(p)
  <2>1. op' \in [Pods -> Op]
    BY <1>2, OpType DEF BeginPromote, Kinds, Steps
  <2> QED BY <1>1, <1>2, <2>1 DEF BeginPromote
<1>3. CASE BeginDemote(p)
  <2>1. op' \in [Pods -> Op]
    BY <1>3, OpType DEF BeginDemote, Kinds, Steps
  <2>2. ship' \in [Pods -> Ship]
    BY <1>3, Resets DEF BeginDemote
  <2> QED BY <1>1, <1>3, <2>1, <2>2 DEF BeginDemote
<1>4. CASE BeginCycle(p)
  <2>1. op' \in [Pods -> Op]
    BY <1>4, OpType DEF BeginCycle, Kinds, Steps
  <2> QED BY <1>4, <2>1 DEF BeginCycle
<1>5. CASE BeginBoot(p)
  <2>1. op' \in [Pods -> Op]
    BY <1>5, OpType DEF BeginBoot, Kinds, Steps
  <2> QED BY <1>5, <2>1 DEF BeginBoot
<1> QED BY <1>2, <1>3, <1>4, <1>5

\* The end of a cycle or of a demotion.
LEMMA TypeEndShip ==
    ASSUME TypeOK, NEW p \in Pods, EndShip(p)
    PROVE  /\ op' \in [Pods -> Op]
           /\ isLeader' \in [Pods -> BOOLEAN]
           /\ ship' \in [Pods -> Ship]
<1>1. op' \in [Pods -> Op]
  BY OpType DEF EndShip
<1>2. isLeader' \in [Pods -> BOOLEAN]
  BY DEF EndShip, TypeOK
<1>3. ship' \in [Pods -> Ship]
  BY Resets DEF EndShip, TypeOK
<1> QED BY <1>1, <1>2, <1>3

\* A leader's cycle, up to its uploads.
LEMMA TypeCapture ==
    ASSUME TypeOK, NEW p \in Pods, Capture(p)
    PROVE  TypeOK'
<1> USE DEF TypeOK, bucket, election, counters
<1>1. op' \in [Pods -> Op]
  BY OpType DEF Capture, Steps
<1>2. ship[p] \in Ship /\ db[p] \in Data /\ generations + 1 \in Nat
  OBVIOUS
<1>3. [ship[p] EXCEPT !.gen = generations + 1, !.base = "local",
                      !.content = db[p], !.captured = db[p], !.nextSeq = 0] \in Ship
  BY <1>2 DEF Ship
<1>4. [ship[p] EXCEPT !.captured = db[p], !.nextSeq = @ + 1,
          !.pending = Append(@, [gen |-> ship[p].gen, seq |-> ship[p].nextSeq,
                                 data |-> db[p] \ ship[p].captured])] \in Ship
  <2>1. db[p] \ ship[p].captured \in Data
    BY <1>2 DEF Data
  <2>2. [gen |-> ship[p].gen, seq |-> ship[p].nextSeq,
         data |-> db[p] \ ship[p].captured] \in Segment
    BY <1>2, <2>1 DEF Ship, Segment
  <2>3. Append(ship[p].pending, [gen |-> ship[p].gen, seq |-> ship[p].nextSeq,
                                 data |-> db[p] \ ship[p].captured]) \in Seq(Segment)
    BY <1>2, <2>2 DEF Ship
  <2>4. \A q \in Seq(Segment), n \in Nat :
           [ship[p] EXCEPT !.captured = db[p], !.nextSeq = n, !.pending = q] \in Ship
    BY <1>2 DEF Ship
  <2>5. ship[p].nextSeq + 1 \in Nat
    BY <1>2 DEF Ship
  <2> QED BY <2>3, <2>4, <2>5
<1>5. ship' \in [Pods -> Ship] /\ generations' \in Nat
  BY <1>2, <1>3, <1>4 DEF Capture
<1> QED BY <1>1, <1>5 DEF Capture

\* Its uploads, its publication and its cleanup.
LEMMA TypeShip ==
    ASSUME TypeOK, NEW p \in Pods, ShipStep(p)
    PROVE  TypeOK'
<1> USE DEF TypeOK, bucket, election, counters
<1>0. op[p] \in Op /\ ship[p] \in Ship /\ base \in Object
  OBVIOUS
<1>1. CASE Capture(p)
  BY <1>1, TypeCapture
<1>2. CASE PutSegment(p)
  <2>1. ship[p].pending \in Seq(Segment) /\ ship[p] \in Ship
    BY DEF Ship
  <2>2. /\ Head(ship[p].pending) \in Segment
        /\ Tail(ship[p].pending) \in Seq(Segment)
    BY <1>2, <2>1 DEF PutSegment
  <2>3. [ship[p] EXCEPT !.pending = Tail(@)] \in Ship
    BY <2>1, <2>2 DEF Ship
  <2> QED BY <1>2, <2>2, <2>3 DEF PutSegment
<1>3. CASE PublishHead(p)
  <2>1. [op[p] EXCEPT !.at = "put", !.head = base] \in Op
    BY ONLY <1>0 DEF Op, Steps
  <2> QED BY <1>3, <2>1 DEF PublishHead
<1>4. NewBase(p) \in Object
  BY DEF NewBase, Object, Ship
<1>5. CASE PublishPut(p)
  <2>1. [op[p] EXCEPT !.at = "clean", !.head = NoObject] \in Op
    <3>1. NoObject \in Object
      BY Resets
    <3> QED BY ONLY <1>0, <3>1 DEF Op, Steps
  <2>2. [ship[p] EXCEPT !.base = "published"] \in Ship
    BY ONLY <1>0 DEF Ship
  <2> QED BY <1>4, <1>5, <2>1, <2>2 DEF PublishPut
<1>6. CASE PublishLost(p)
  BY <1>4, <1>6, TypeEndShip DEF PublishLost
<1>7. CASE CleanList(p)
  <2>1. {x \in segs : x.gen # ship[p].gen} \in SUBSET Segment
    OBVIOUS
  <2>2. [op[p] EXCEPT !.at = "delete", !.list = {x \in segs : x.gen # ship[p].gen}] \in Op
    BY ONLY <1>0, <2>1 DEF Op, Steps
  <2> QED BY <1>7, <2>2 DEF CleanList
<1>8. CASE CleanDelete(p)
  <2>1. PICK x \in op[p].list : /\ segs' = segs \ {x}
                                /\ op' = [op EXCEPT ![p].list = @ \ {x}]
    BY <1>8 DEF CleanDelete
  <2>2. [op[p] EXCEPT !.list = @ \ {x}] \in Op
    BY DEF Op
  <2>3. segs' \subseteq Segment /\ op' \in [Pods -> Op]
    BY <2>1, <2>2
  <2> QED BY <1>8, <2>3 DEF CleanDelete
<1>9. CASE ShipEnds(p)
  BY <1>9, TypeEndShip DEF ShipEnds
<1>10. CASE ShipFails(p)
  BY <1>10, TypeEndShip DEF ShipFails
<1> QED BY <1>1, <1>2, <1>3, <1>5, <1>6, <1>7, <1>8, <1>9, <1>10 DEF ShipStep

\* Whoever reads the bucket.
LEMMA TypeFollow ==
    ASSUME TypeOK, NEW p \in Pods, FollowStep(p)
    PROVE  TypeOK'
<1> USE DEF TypeOK, bucket, election, counters
<1>0. op[p] \in Op /\ base \in Object
  OBVIOUS
<1>1. CASE FollowNothing(p)
  <2>1. op' \in [Pods -> Op]
    BY <1>1, OpType DEF FollowNothing
  <2>2. replica' \in [Pods -> Replica]
    BY <1>1, Resets DEF FollowNothing
  <2>3. isLeader' \in [Pods -> BOOLEAN] /\ up' \in [Pods -> BOOLEAN]
    BY <1>1 DEF FollowNothing
  <2> QED BY <1>1, <2>1, <2>2, <2>3 DEF FollowNothing
<1>2. CASE FollowHead(p)
  <2>1. \A a \in {"list", "get"}, f \in Data :
           [op[p] EXCEPT !.at = a, !.head = base, !.floor = f] \in Op
    BY ONLY <1>0 DEF Op, Steps
  <2>2. (IF Verify(p) THEN Restored ELSE {}) \in Data
    BY RestoredType DEF Data
  <2>3. op' \in [Pods -> Op]
    BY <1>2, <2>1, <2>2 DEF FollowHead
  <2> QED BY <1>2, <2>3 DEF FollowHead
<1>3. CASE FollowGet(p)
  <2>1. op' \in [Pods -> Op]
    BY <1>3, OpType DEF FollowGet, Steps
  <2>2. [gen |-> op[p].head.gen, head |-> op[p].head, next |-> 0,
         data |-> base.content] \in Replica
    BY DEF Op, Object, Replica
  <2> QED BY <1>3, <2>1, <2>2 DEF FollowGet
<1>4. CASE FollowList(p)
  <2>1. \A l \in SUBSET Segment : [op[p] EXCEPT !.at = "apply", !.list = l] \in Op
    BY ONLY <1>0 DEF Op, Steps
  <2>2. {x \in segs : x.gen = replica[p].gen /\ x.seq >= replica[p].next} \in SUBSET Segment
    OBVIOUS
  <2> QED BY <1>4, <2>1, <2>2 DEF FollowList
<1>5. CASE FollowApply(p)
  <2>1. PICK x \in op[p].list :
           /\ x \in segs
           /\ replica' = [replica EXCEPT ![p].next = @ + 1, ![p].data = @ \cup x.data]
           /\ op' = [op EXCEPT ![p].list = @ \ {x}]
    BY <1>5 DEF FollowApply
  <2>2. [op[p] EXCEPT !.list = @ \ {x}] \in Op
    BY DEF Op
  <2>3. x.data \in Data
    BY <2>1 DEF Segment
  <2>4. [replica[p] EXCEPT !.next = @ + 1, !.data = @ \cup x.data] \in Replica
    <3>1. replica[p].data \cup x.data \in Data
      BY <2>3 DEF Replica, Data
    <3>2. \A n \in Nat, d \in Data : [replica[p] EXCEPT !.next = n, !.data = d] \in Replica
      BY DEF Replica
    <3>3. replica[p].next + 1 \in Nat
      BY DEF Replica
    <3> QED BY <3>1, <3>2, <3>3
  <2> QED BY <1>5, <2>1, <2>2, <2>4 DEF FollowApply
<1>6. CASE FollowEnds(p)
  BY <1>6, OpType DEF FollowEnds
<1>7. CASE Recheck(p)
  BY <1>7, OpType DEF Recheck, Steps
<1>8. CASE Swap(p)
  <2>1. op' \in [Pods -> Op]
    BY <1>8, OpType DEF Swap
  <2>2. TakenOver(p) \in Data
    BY DEF TakenOver, Replica
  <2>3. db' \in [Pods -> Data] /\ replica' \in [Pods -> Replica]
    BY <1>8, <2>2, Resets DEF Swap
  <2>4. ship' \in [Pods -> Ship]
    BY <1>8, Resets DEF Swap
  <2>5. isLeader' \in [Pods -> BOOLEAN] /\ up' \in [Pods -> BOOLEAN]
    BY <1>8 DEF Swap
  <2> QED BY <1>8, <2>1, <2>3, <2>4, <2>5 DEF Swap
<1>9. CASE FollowFails(p)
  <2>1. op' \in [Pods -> Op]
    BY <1>9, OpType DEF FollowFails
  <2>2. replica' \in [Pods -> Replica]
    BY <1>9, Resets DEF FollowFails
  <2> QED BY <1>9, <2>1, <2>2 DEF FollowFails
<1> QED BY <1>1, <1>2, <1>3, <1>4, <1>5, <1>6, <1>7, <1>8, <1>9 DEF FollowStep

\* Every variable of the sync stays in its type (objstore/metasync.rs and
\* walship.rs): fences and sequence numbers are never negative, what a pod
\* holds, spools or has applied is made of committed writes.
THEOREM TypeCorrect == Spec => []TypeOK
<1>1. Init => TypeOK
  <2> SUFFICES ASSUME Init PROVE TypeOK
    OBVIOUS
  <2>1. /\ base \in Object /\ ship \in [Pods -> Ship] /\ replica \in [Pods -> Replica]
        /\ op \in [Pods -> Op]
    BY Resets DEF Init
  <2>2. segs \subseteq Segment /\ db \in [Pods -> Data] /\ requests \in [Pods -> Seq(Request)]
    BY DEF Init, Data
  <2> QED BY <2>1, <2>2 DEF Init, TypeOK
<1>2. TypeOK /\ [Next]_vars => TypeOK'
  <2> SUFFICES ASSUME TypeOK, [Next]_vars PROVE TypeOK'
    OBVIOUS
  <2>1. CASE UNCHANGED vars
    BY <2>1 DEF vars, bucket, election, counters, TypeOK
  <2>2. ASSUME NEW p \in Pods, PodStep(p) PROVE TypeOK'
    BY <2>2, TypePod, TypeBegin, TypeShip, TypeFollow DEF PodStep
  <2> QED BY <2>1, <2>2 DEF Next
<1> QED BY <1>1, <1>2, PTL DEF Spec

-----------------------------------------------------------------------------
(* The fence.                                                               *)

\* Before there is a base there is no fence, and a pod's HEAD is of the base
\* or of one before it.
HeadsArePast ==
    /\ base.version = 0 => base.fence = 0
    /\ \A p \in Pods : op[p].head.version <= base.version

\* A pod about to PUT, whose condition would be met, may replace the base.
PutsAreDue ==
    \A p \in Pods :
        op[p].at = "put" /\ op[p].head.version = base.version =>
            base.version = 0 \/ base.fence <= fence[p]

FenceInv == HeadsArePast /\ PutsAreDue

\* A PUT whose condition is met replaces the object that HEAD described.
LEMMA ConditionMeansUnchanged ==
    ASSUME ~ContentETags, NEW p \in Pods, Precondition(p)
    PROVE  op[p].head.version = base.version
BY DEF Precondition, SameETag

\* Whoever publishes has a fence no lower than the one it replaces.
LEMMA PublishRaisesFence ==
    ASSUME ~ContentETags, TypeOK, FenceInv, NEW p \in Pods,
           op[p].at = "put", Precondition(p), base' = NewBase(p)
    PROVE  /\ base'.fence >= base.fence
           /\ base'.version = base.version + 1
<1>1. /\ base'.fence = fence[p] /\ base'.version = base.version + 1
      /\ base.fence \in Nat /\ fence[p] \in Nat /\ base.version \in Nat
  BY DEF NewBase, TypeOK, Object
<1>2. op[p].head.version = base.version
  BY ConditionMeansUnchanged
<1> QED BY <1>1, <1>2 DEF FenceInv, HeadsArePast, PutsAreDue

\* A step that publishes, and leaves no pod behind in front of a PUT that its
\* condition would let through.
LEMMA PublishKeepsInv ==
    ASSUME ~ContentETags, TypeOK, FenceInv, NEW p \in Pods,
           op[p].at = "put", Precondition(p), base' = NewBase(p),
           op'[p].at # "put", op'[p].head.version = 0,
           \A q \in Pods \ {p} : op'[q] = op[q]
    PROVE  FenceInv'
<1>1. base'.version = base.version + 1 /\ base.version \in Nat
  BY PublishRaisesFence DEF TypeOK, Object
<1>2. \A q \in Pods \ {p} : /\ op[q].head.version \in Nat
                            /\ op'[q].head.version <= base.version
  BY DEF FenceInv, HeadsArePast, TypeOK, Op, Object
<1> QED BY <1>1, <1>2 DEF FenceInv, HeadsArePast, PutsAreDue

\* A step that does not publish keeps the invariant if what p does leaves its
\* HEAD and its PUT in order.
LEMMA OtherKeepsInv ==
    ASSUME TypeOK, FenceInv, NEW p \in Pods, UNCHANGED base,
           \A q \in Pods \ {p} : op'[q] = op[q] /\ fence'[q] = fence[q],
           op'[p].head.version <= base.version,
           op'[p].at = "put" /\ op'[p].head.version = base.version =>
               base.version = 0 \/ base.fence <= fence'[p]
    PROVE  FenceInv'
BY DEF FenceInv, HeadsArePast, PutsAreDue

\* Between HEAD and PUT a pod's fence stays what it was: only the next
\* promotion sets it, under the lock, and a crash forgets both.
LEMMA FenceStep ==
    ASSUME ~ContentETags, TypeOK, FenceInv, [Next]_vars
    PROVE  FenceInv' /\ [base'.fence >= base.fence]_base
<1> USE DEF bucket, election, counters
<1>1. base.version \in Nat /\ base.fence \in Nat /\ base \in Object
  BY DEF TypeOK, Object
<1>2. ASSUME NEW p \in Pods
      PROVE  /\ op[p] \in Op /\ op \in [Pods -> Op]
             /\ op[p].head.version <= base.version
             /\ op[p].at = "put" /\ op[p].head.version = base.version =>
                   base.version = 0 \/ base.fence <= fence[p]
  BY DEF FenceInv, HeadsArePast, PutsAreDue, TypeOK
<1>3. NoOp.head.version = 0 /\ NoOp.at = "idle" /\ NoObject.version = 0
  BY DEF NoOp, NoObject
<1>4. CASE UNCHANGED vars
  BY <1>4 DEF vars, FenceInv, HeadsArePast, PutsAreDue
<1>5. ASSUME NEW p \in Pods, PublishPut(p) \/ PublishLost(p)
      PROVE  FenceInv' /\ base'.fence >= base.fence
  <2>1. op[p].at = "put" /\ Precondition(p) /\ base' = NewBase(p)
    BY <1>5 DEF PublishPut, PublishLost
  <2>2. /\ op'[p].at # "put" /\ op'[p].head.version = 0
        /\ \A q \in Pods \ {p} : op'[q] = op[q]
    BY <1>2, <1>3, <1>5 DEF PublishPut, PublishLost, EndShip, Release, Op
  <2> QED BY <2>1, <2>2, PublishRaisesFence, PublishKeepsInv
<1>6. ASSUME NEW p \in Pods, PodStep(p), ~PublishPut(p), ~PublishLost(p)
      PROVE  FenceInv' /\ UNCHANGED base
  <2>1. UNCHANGED base
    BY <1>6 DEF PodStep, Elect, Depose, Write, Crash, BeginPromote, BeginDemote, BeginCycle,
         BeginBoot, ShipStep, Capture, PutSegment, PublishHead, CleanList, CleanDelete,
         ShipEnds, ShipFails, FollowStep, FollowNothing, FollowHead, FollowGet, FollowList,
         FollowApply, FollowEnds, Recheck, Swap, FollowFails
  <2>2. CASE op' = op /\ fence' = fence
    BY <1>1, <1>2, <2>1, <2>2, OtherKeepsInv
  <2>3. CASE Elect(p) \/ Depose(p) \/ Write(p) \/ PutSegment(p)
    BY <2>2, <2>3 DEF Elect, Depose, Write, PutSegment
  <2>4. ASSUME \A q \in Pods \ {p} : fence'[q] = fence[q],
               Release(p) \/ \E k \in Kinds, a \in Steps \ {"put"} : Begin(p, k, a)
        PROVE  FenceInv'
    <3>1. op'[p].head.version = 0 /\ op'[p].at # "put" /\ \A q \in Pods \ {p} : op'[q] = op[q]
      BY <1>2, <1>3, <2>4 DEF Release, Begin, NoOp, Steps
    <3> QED BY <1>1, <2>1, <2>4, <3>1, OtherKeepsInv
  <2>5. ASSUME fence' = fence, op'[p].at # "put",
               op'[p].head = op[p].head \/ op'[p].head = base,
               \A q \in Pods \ {p} : op'[q] = op[q]
        PROVE  FenceInv'
    BY <1>1, <1>2, <2>1, <2>5, OtherKeepsInv
  <2>6. CASE Crash(p)
    BY <2>4, <2>6 DEF Crash, Release, TypeOK
  <2>7. CASE BeginPromote(p)
    BY <2>4, <2>7 DEF BeginPromote, Kinds, Steps, TypeOK
  <2>8. CASE BeginDemote(p) \/ BeginCycle(p) \/ BeginBoot(p)
    <3>1. fence' = fence
      BY <2>8 DEF BeginDemote, BeginCycle, BeginBoot
    <3>2. op' = op \/ \E k \in Kinds, a \in Steps \ {"put"} : Begin(p, k, a)
      BY <2>8 DEF BeginDemote, BeginCycle, BeginBoot, Kinds, Steps
    <3> QED BY <2>1, <2>2, <2>4, <3>1, <3>2
  <2>9. CASE \/ ShipEnds(p) \/ ShipFails(p) \/ FollowNothing(p) \/ FollowEnds(p)
             \/ Swap(p) \/ FollowFails(p)
    BY <2>4, <2>9 DEF ShipEnds, ShipFails, EndShip, FollowNothing, FollowEnds, Swap, FollowFails
  <2>10. CASE Capture(p) \/ FollowGet(p) \/ Recheck(p)
    <3>1. /\ fence' = fence
          /\ GoTo(p, "upload") \/ GoTo(p, "list") \/ GoTo(p, "swap")
      BY <2>10 DEF Capture, FollowGet, Recheck
    <3>2. /\ op'[p].at # "put" /\ op'[p].head = op[p].head
          /\ \A q \in Pods \ {p} : op'[q] = op[q]
      BY <1>2, <3>1 DEF GoTo, Op
    <3> QED BY <2>1, <2>5, <3>1, <3>2
  <2>11. CASE CleanList(p) \/ FollowList(p)
    <3>1. /\ op'[p].at # "put" /\ op'[p].head = op[p].head /\ fence' = fence
          /\ \A q \in Pods \ {p} : op'[q] = op[q]
      BY <1>2, <2>11 DEF CleanList, FollowList, Op
    <3> QED BY <2>1, <2>5, <3>1
  <2>12. CASE CleanDelete(p) \/ FollowApply(p)
    <3>1. /\ op'[p].at = op[p].at /\ op'[p].head = op[p].head /\ fence' = fence
          /\ \A q \in Pods \ {p} : op'[q] = op[q]
      BY <1>2, <2>12 DEF CleanDelete, FollowApply, Op
    <3>2. op[p].at # "put"
      BY <2>12 DEF CleanDelete, FollowApply
    <3> QED BY <2>1, <2>5, <3>1, <3>2
  <2>13. CASE FollowHead(p)
    <3>1. /\ op'[p].at # "put" /\ op'[p].head = base /\ fence' = fence
          /\ \A q \in Pods \ {p} : op'[q] = op[q]
      BY <1>2, <2>13 DEF FollowHead, Op
    <3> QED BY <2>1, <2>5, <3>1
  <2>14. CASE PublishHead(p)
    <3>1. /\ op'[p].head = base /\ fence' = fence /\ fence[p] \in Nat
          /\ \A q \in Pods \ {p} : op'[q] = op[q]
      BY <1>2, <2>14 DEF PublishHead, Op, TypeOK
    <3>2. base.version = 0 \/ base.fence <= fence[p]
      BY <1>1, <2>14, <3>1 DEF PublishHead, Fenced
    <3> QED BY <1>1, <2>1, <3>1, <3>2, OtherKeepsInv
  <2> QED BY <1>6, <2>1, <2>3, <2>6, <2>7, <2>8, <2>9, <2>10, <2>11, <2>12, <2>13, <2>14
             DEF PodStep, ShipStep, FollowStep
<1> QED BY <1>4, <1>5, <1>6 DEF Next, vars

\* Where an ETag identifies an upload, the base in the bucket never goes back
\* to an earlier term: put_fenced's HEAD, comparison and conditional PUT are
\* enough for every number of pods, however many of them act as leaders at
\* once, stall between any two requests, crash, or publish without learning
\* that they did.
THEOREM FenceMonotone ==
    ASSUME ~ContentETags
    PROVE  Spec => FenceNeverGoesBack
<1>1. Init => FenceInv
  BY DEF Init, FenceInv, HeadsArePast, PutsAreDue, NoOp, NoObject
<1>2. TypeOK /\ FenceInv /\ [Next]_vars => FenceInv' /\ [base'.fence >= base.fence]_base
  BY FenceStep
<1> QED BY <1>1, <1>2, TypeCorrect, PTL DEF Spec, FenceNeverGoesBack

-----------------------------------------------------------------------------
(* The names of the segments: whose a generation is, and in which order its *)
(* segments are uploaded.                                                   *)

\* The segments of a spool.
Named(s) == {s[i] : i \in DOMAIN s}

Spool(p) == Named(ship[p].pending)

\* A spool is in the order of the sequence numbers.
Increasing(s) ==
    \A i, j \in DOMAIN s : i < j /\ s[i].gen = s[j].gen => s[i].seq < s[j].seq

\* p may still upload a segment of generation g.
Writes(p, g) == ship[p].gen = g \/ \E y \in Spool(p) : y.gen = g

\* p uploads no segment of generation g before the n-th.
Ahead(p, g, n) ==
    /\ ship[p].gen = g => n <= ship[p].nextSeq
    /\ \A y \in Spool(p) : y.gen = g => n <= y.seq

\* Generations are numbered from 1.
Known ==
    /\ base.gen <= generations
    /\ \A x \in segs : x.gen \in 1 .. generations
    /\ \A p \in Pods :
          /\ ship[p].gen <= generations
          /\ replica[p].gen <= generations
          /\ \A y \in Spool(p) : y.gen \in 1 .. generations

\* A generation has one writer.
Owned ==
    \A p, q \in Pods : \A g \in Nat \ {0} : Writes(p, g) /\ Writes(q, g) => p = q

\* A name has one content.
Unique == \A x, z \in segs : x.gen = z.gen /\ x.seq = z.seq => x = z

InOrder(p) ==
    /\ Increasing(ship[p].pending)
    /\ \A y \in Spool(p) : y.gen = ship[p].gen => y.seq < ship[p].nextSeq

\* What is uploaded comes after what is there and after what was read.
Above(p) ==
    /\ \A x \in segs : Ahead(p, x.gen, x.seq + 1)
    /\ \A q \in Pods : replica[q].gen # 0 => Ahead(p, replica[q].gen, replica[q].next)

Names == Known /\ Owned /\ Unique /\ \A p \in Pods : InOrder(p) /\ Above(p)

\* A segment appended to a spool comes last, the one taken from it first.
LEMMA SpoolFacts ==
    ASSUME NEW s \in Seq(Segment)
    PROVE  /\ Named(s) \subseteq Segment
           /\ \A e \in Segment :
                /\ Named(Append(s, e)) = Named(s) \cup {e}
                /\ Increasing(s) /\ (\A y \in Named(s) : y.gen = e.gen => y.seq < e.seq)
                     => Increasing(Append(s, e))
           /\ s # <<>> =>
                /\ Head(s) \in Named(s) /\ Named(Tail(s)) \subseteq Named(s)
                /\ Increasing(s) =>
                     /\ Increasing(Tail(s))
                     /\ \A y \in Named(Tail(s)) : y.gen = Head(s).gen => Head(s).seq < y.seq
<1>1. Named(s) \subseteq Segment
  BY DEF Named
<1>2. ASSUME NEW e \in Segment
      PROVE  /\ Named(Append(s, e)) = Named(s) \cup {e}
             /\ Increasing(s) /\ (\A y \in Named(s) : y.gen = e.gen => y.seq < e.seq)
                  => Increasing(Append(s, e))
  <2>1. /\ DOMAIN Append(s, e) = 1 .. Len(s) + 1 /\ DOMAIN s = 1 .. Len(s) /\ Len(s) \in Nat
        /\ \A i \in 1 .. Len(s) : Append(s, e)[i] = s[i]
        /\ Append(s, e)[Len(s) + 1] = e
    OBVIOUS
  <2>2. Named(Append(s, e)) = Named(s) \cup {e}
    BY <2>1 DEF Named
  <2>3. ASSUME Increasing(s), \A y \in Named(s) : y.gen = e.gen => y.seq < e.seq
        PROVE  Increasing(Append(s, e))
    <3>1. \A i \in 1 .. Len(s) : s[i] \in Named(s)
      BY <2>1 DEF Named
    <3> SUFFICES ASSUME NEW i \in 1 .. Len(s) + 1, NEW j \in 1 .. Len(s) + 1, i < j,
                        Append(s, e)[i].gen = Append(s, e)[j].gen
                 PROVE  Append(s, e)[i].seq < Append(s, e)[j].seq
      BY <2>1 DEF Increasing
    <3>2. i \in 1 .. Len(s)
      BY <2>1
    <3>3. CASE j = Len(s) + 1
      BY <2>1, <2>3, <3>1, <3>2, <3>3
    <3>4. CASE j \in 1 .. Len(s)
      BY <2>1, <2>3, <3>2, <3>4 DEF Increasing
    <3> QED BY <2>1, <3>3, <3>4
  <2> QED BY <2>2, <2>3
<1>3. ASSUME s # <<>>
      PROVE  /\ Head(s) \in Named(s) /\ Named(Tail(s)) \subseteq Named(s)
             /\ Increasing(s) =>
                  /\ Increasing(Tail(s))
                  /\ \A y \in Named(Tail(s)) : y.gen = Head(s).gen => Head(s).seq < y.seq
  <2>1. /\ DOMAIN s = 1 .. Len(s) /\ Len(s) \in Nat /\ Len(s) > 0
        /\ DOMAIN Tail(s) = 1 .. Len(s) - 1 /\ Head(s) = s[1]
        /\ \A i \in 1 .. Len(s) - 1 : Tail(s)[i] = s[i + 1] /\ i + 1 \in 1 .. Len(s)
    BY <1>3
  <2>2. Head(s) \in Named(s) /\ Named(Tail(s)) \subseteq Named(s)
    BY <2>1 DEF Named
  <2>3. ASSUME Increasing(s) PROVE Increasing(Tail(s))
    <3> SUFFICES ASSUME NEW i \in 1 .. Len(s) - 1, NEW j \in 1 .. Len(s) - 1, i < j,
                        Tail(s)[i].gen = Tail(s)[j].gen
                 PROVE  Tail(s)[i].seq < Tail(s)[j].seq
      BY <2>1 DEF Increasing
    <3>1. i + 1 < j + 1 /\ i + 1 \in DOMAIN s /\ j + 1 \in DOMAIN s
      BY <2>1
    <3> QED BY <2>1, <2>3, <3>1 DEF Increasing
  <2>4. ASSUME Increasing(s), NEW y \in Named(Tail(s)), y.gen = Head(s).gen
        PROVE  Head(s).seq < y.seq
    <3>1. PICK i \in 1 .. Len(s) - 1 : y = s[i + 1]
      BY <2>1 DEF Named
    <3>2. 1 \in DOMAIN s /\ i + 1 \in DOMAIN s /\ 1 < i + 1
      BY <2>1
    <3> QED BY <2>1, <2>4, <3>1, <3>2 DEF Increasing
  <2> QED BY <2>2, <2>3, <2>4
<1> QED BY <1>1, <1>2, <1>3

\* Generations and sequence numbers are numbers.
LEMMA NumberTypes ==
    ASSUME TypeOK
    PROVE  /\ base.gen \in Nat /\ base.version \in Nat /\ generations \in Nat
           /\ \A x \in segs : x.gen \in Nat /\ x.seq \in Nat
           /\ \A p \in Pods :
                /\ ship[p].gen \in Nat /\ ship[p].nextSeq \in Nat
                /\ ship[p].pending \in Seq(Segment)
                /\ replica[p].gen \in Nat /\ replica[p].next \in Nat
                /\ \A y \in Spool(p) : y \in Segment /\ y.gen \in Nat /\ y.seq \in Nat
<1>1. \A p \in Pods : ship[p] \in Ship /\ replica[p] \in Replica
  BY DEF TypeOK
<1>2. \A p \in Pods : ship[p].pending \in Seq(Segment)
  BY <1>1 DEF Ship
<1>3. \A p \in Pods : \A y \in Spool(p) : y \in Segment
  BY <1>2, SpoolFacts DEF Spool
<1>4. \A y \in Segment : y.gen \in Nat /\ y.seq \in Nat
  BY DEF Segment
<1>5. base.gen \in Nat /\ base.version \in Nat /\ generations \in Nat /\ segs \subseteq Segment
  BY DEF TypeOK, Object
<1>6. \A p \in Pods : /\ ship[p].gen \in Nat /\ ship[p].nextSeq \in Nat
                      /\ replica[p].gen \in Nat /\ replica[p].next \in Nat
  BY <1>1 DEF Ship, Replica
<1> QED BY <1>2, <1>3, <1>4, <1>5, <1>6

\* What uploads nothing and names nothing new keeps the names, whatever it
\* deletes, forgets or reads, as long as it reads only what is there.
LEMMA NamesLess ==
    ASSUME TypeOK, TypeOK', Names,
           segs' \subseteq segs, generations' = generations, base'.gen <= generations,
           \A q \in Pods :
             /\ \/ ship'[q].gen = 0
                \/ ship'[q].gen = ship[q].gen /\ ship'[q].nextSeq = ship[q].nextSeq
             /\ Spool(q)' \subseteq Spool(q) /\ Increasing(ship'[q].pending),
           \A q \in Pods :
             /\ replica'[q].gen <= generations
             /\ replica'[q].gen # 0 =>
                  \A p \in Pods : Ahead(p, replica'[q].gen, replica'[q].next)
    PROVE  Names'
<1>1. /\ \A x \in segs : x.gen \in 1 .. generations /\ x.gen \in Nat \ {0}
      /\ \A p \in Pods : \A y \in Spool(p) : y.gen \in 1 .. generations /\ y.gen \in Nat \ {0}
  BY NumberTypes DEF Names, Known
<1>2. \A p \in Pods : \A g \in Nat \ {0} :
        /\ Writes(p, g)' => Writes(p, g)
        /\ \A n : Ahead(p, g, n) => Ahead(p, g, n)'
  BY DEF Writes, Ahead
<1>3. Known'
  BY <1>1, NumberTypes DEF Names, Known
<1>4. Owned' /\ Unique'
  BY <1>2 DEF Names, Owned, Unique
<1>5. ASSUME NEW p \in Pods PROVE InOrder(p)'
  BY <1>1 DEF Names, InOrder
<1>6. ASSUME NEW p \in Pods PROVE Above(p)'
  <2>1. \A x \in segs' : Ahead(p, x.gen, x.seq + 1)'
    BY <1>1, <1>2 DEF Names, Above
  <2>2. \A q \in Pods : (replica[q].gen # 0 => Ahead(p, replica[q].gen, replica[q].next))'
    <3> TAKE q \in Pods
    <3>1. replica'[q].gen \in Nat
      BY DEF TypeOK, Replica
    <3>2. replica'[q].gen # 0 =>
            \A g, n : g = replica'[q].gen /\ n = replica'[q].next => Ahead(p, g, n)'
      BY <1>2, <3>1
    <3> QED BY <3>2 DEF Ahead
  <2> QED BY <2>1, <2>2 DEF Above
<1> QED BY <1>3, <1>4, <1>5, <1>6 DEF Names

\* A new generation is nobody's, and nothing is there of it.
LEMMA NamesNewGeneration ==
    ASSUME TypeOK, TypeOK', Names, NEW p \in Pods,
           UNCHANGED <<base, segs, replica>>, generations' = generations + 1,
           ship'[p].gen = generations + 1, ship'[p].nextSeq = 0,
           ship'[p].pending = ship[p].pending,
           \A q \in Pods \ {p} : ship'[q] = ship[q]
    PROVE  Names'
<1>1. \A q \in Pods : Spool(q)' = Spool(q)
  BY DEF Spool
<1>2. /\ \A x \in segs : x.gen \in Nat \ {0} /\ x.gen # generations + 1
      /\ \A q \in Pods : /\ ship[q].gen # generations + 1 /\ replica[q].gen # generations + 1
                         /\ \A y \in Spool(q) : y.gen # generations + 1
  BY NumberTypes DEF Names, Known
<1>3. \A q \in Pods : \A g \in Nat \ {0} :
        /\ q # p \/ g # generations + 1 => (Writes(q, g)' => Writes(q, g))
        /\ ~Writes(q, generations + 1)
        /\ \A n : g # generations + 1 /\ Ahead(q, g, n) => Ahead(q, g, n)'
  BY <1>1, <1>2 DEF Writes, Ahead
<1>4. Known'
  BY <1>1, NumberTypes DEF Names, Known
<1>5. Owned'
  BY <1>3 DEF Names, Owned
<1>6. Unique'
  BY DEF Names, Unique
<1>7. \A q \in Pods : InOrder(q)'
  BY <1>1, <1>2 DEF Names, InOrder
<1>8. ASSUME NEW q \in Pods PROVE Above(q)'
  <2>1. Above(q) /\ \A r \in Pods : replica[r].gen \in Nat
    BY NumberTypes DEF Names
  <2>2. \A x \in segs' : Ahead(q, x.gen, x.seq + 1)'
    BY <1>2, <1>3, <2>1 DEF Above
  <2>3. \A r \in Pods : (replica[r].gen # 0 => Ahead(q, replica[r].gen, replica[r].next))'
    <3> TAKE r \in Pods
    <3>1. replica[r].gen # 0 =>
            \A g, n : g = replica[r].gen /\ n = replica[r].next => Ahead(q, g, n)'
      BY <1>2, <1>3, <2>1 DEF Above
    <3> QED BY <3>1 DEF Ahead
  <2> QED BY <2>2, <2>3 DEF Above
<1> QED BY <1>4, <1>5, <1>6, <1>7, <1>8 DEF Names

\* The next segment of a generation is spooled behind the others.
LEMMA NamesSpool ==
    ASSUME TypeOK, TypeOK', Names, NEW p \in Pods,
           UNCHANGED <<base, segs, replica, generations>>,
           NEW e \in Segment, e.gen = ship[p].gen, e.seq = ship[p].nextSeq,
           ship[p].gen # 0, ship'[p].gen = ship[p].gen,
           ship'[p].nextSeq = ship[p].nextSeq + 1,
           ship'[p].pending = Append(ship[p].pending, e),
           \A q \in Pods \ {p} : ship'[q] = ship[q]
    PROVE  Names'
<1>1. ship[p].pending \in Seq(Segment) /\ e.gen \in Nat /\ e.gen # 0 /\ e.seq \in Nat
  BY NumberTypes
<1>2. Spool(p)' = Spool(p) \cup {e} /\ \A q \in Pods \ {p} : Spool(q)' = Spool(q)
  BY <1>1, SpoolFacts DEF Spool
<1>3. \A q \in Pods : \A g \in Nat \ {0} :
        /\ Writes(q, g)' => Writes(q, g)
        /\ \A n \in Nat : Ahead(q, g, n) => Ahead(q, g, n)'
  <2>1. \A q \in Pods : \A g \in Nat \ {0} : Writes(q, g)' => Writes(q, g)
    BY <1>2 DEF Writes
  <2>2. \A q \in Pods \ {p} : \A g \in Nat \ {0} : \A n \in Nat : Ahead(q, g, n) => Ahead(q, g, n)'
    BY <1>2 DEF Ahead
  <2>3. \A g \in Nat \ {0} : \A n \in Nat : Ahead(p, g, n) => Ahead(p, g, n)'
    <3>1. ship[p].nextSeq \in Nat
      BY NumberTypes
    <3> QED BY <1>2, <3>1 DEF Ahead
  <2> QED BY <2>1, <2>2, <2>3
<1>4. Known'
  BY <1>1, <1>2, NumberTypes DEF Names, Known
<1>5. Owned' /\ Unique'
  BY <1>3 DEF Names, Owned, Unique
<1>6. InOrder(p)'
  <2>1. InOrder(p) /\ ship[p].nextSeq \in Nat /\ \A y \in Spool(p) : y.seq \in Nat
    BY NumberTypes DEF Names
  <2>2. \A y \in Named(ship[p].pending) : y.gen = e.gen => y.seq < e.seq
    BY <2>1 DEF InOrder, Spool
  <2>3. Increasing(ship'[p].pending)
    BY <1>1, <2>1, <2>2, SpoolFacts DEF InOrder
  <2>4. \A y \in Spool(p)' : y.gen = ship'[p].gen => y.seq < ship'[p].nextSeq
    BY <1>1, <1>2, <2>1 DEF InOrder
  <2> QED BY <2>3, <2>4 DEF InOrder
<1>7. \A q \in Pods \ {p} : InOrder(q)'
  BY <1>2 DEF Names, InOrder
<1>8. ASSUME NEW q \in Pods PROVE Above(q)'
  <2>1. /\ \A x \in segs : x.gen \in Nat \ {0} /\ x.seq + 1 \in Nat
        /\ \A r \in Pods : replica[r].gen \in Nat /\ replica[r].next \in Nat
    BY NumberTypes DEF Names, Known
  <2> QED BY <1>3, <2>1 DEF Names, Above
<1> QED BY <1>4, <1>5, <1>6, <1>7, <1>8 DEF Names

\* The first segment of a spool is uploaded: what is there of its generation
\* comes before it, and nobody has read as far.
LEMMA NamesPut ==
    ASSUME TypeOK, TypeOK', Names, NEW p \in Pods, ship[p].pending # <<>>,
           NEW e, e = Head(ship[p].pending), segs' = segs \cup {e},
           UNCHANGED <<base, replica, generations>>,
           ship'[p].gen = ship[p].gen, ship'[p].nextSeq = ship[p].nextSeq,
           ship'[p].pending = Tail(ship[p].pending),
           \A q \in Pods \ {p} : ship'[q] = ship[q]
    PROVE  /\ Names'
           /\ e \in Segment /\ e.gen \in 1 .. generations
           /\ \A x \in segs : x.gen = e.gen => x.seq < e.seq
           /\ \A q \in Pods : replica[q].gen = e.gen => replica[q].next <= e.seq
<1>1. /\ ship[p].pending \in Seq(Segment) /\ InOrder(p)
      /\ \A q \in Pods : \A y \in Spool(q) : y \in Segment /\ y.gen \in Nat \ {0} /\ y.seq \in Nat
      /\ \A x \in segs : x.gen \in Nat \ {0} /\ x.seq \in Nat
      /\ \A q \in Pods : /\ ship[q].nextSeq \in Nat /\ ship[q].gen \in Nat
                         /\ replica[q].gen \in Nat /\ replica[q].next \in Nat
  BY NumberTypes DEF Names, Known
<1>2. /\ e \in Spool(p) /\ Spool(p)' \subseteq Spool(p) /\ Increasing(ship'[p].pending)
      /\ \A y \in Spool(p)' : y.gen = e.gen => e.seq < y.seq
      /\ \A q \in Pods \ {p} : Spool(q)' = Spool(q)
  BY <1>1, SpoolFacts DEF Spool, InOrder
<1>3. e \in Segment /\ e.gen \in 1 .. generations /\ e.gen \in Nat \ {0} /\ e.seq \in Nat
  BY <1>1, <1>2 DEF Names, Known
<1>4. \A x \in segs : x.gen = e.gen => x.seq < e.seq
  BY <1>1, <1>2, <1>3 DEF Names, Above, Ahead
<1>5. \A q \in Pods : replica[q].gen = e.gen => replica[q].next <= e.seq
  BY <1>2, <1>3 DEF Names, Above, Ahead
<1>6. \A q \in Pods : \A g \in Nat \ {0} :
        /\ Writes(q, g)' => Writes(q, g)
        /\ \A n : Ahead(q, g, n) => Ahead(q, g, n)'
  BY <1>2 DEF Writes, Ahead
<1>7. Known'
  BY <1>2, <1>3 DEF Names, Known
<1>8. Owned'
  BY <1>6 DEF Names, Owned
<1>9. Unique'
  BY <1>1, <1>3, <1>4 DEF Names, Unique
<1>10. \A q \in Pods : InOrder(q)'
  BY <1>2 DEF Names, InOrder
<1>11. ASSUME NEW q \in Pods PROVE Ahead(q, e.gen, e.seq + 1)'
  <2>1. CASE q # p
    <3>1. ~Writes(q, e.gen)
      BY <1>2, <1>3, <2>1 DEF Names, Owned, Writes
    <3> QED BY <1>2, <2>1, <3>1 DEF Writes, Ahead
  <2>2. CASE q = p
    <3>1. ship[p].gen = e.gen => e.seq < ship[p].nextSeq
      BY <1>1, <1>2 DEF InOrder
    <3>2. \A y \in Spool(p)' : y.seq \in Nat
      BY <1>1, <1>2
    <3> QED BY <1>1, <1>2, <1>3, <2>2, <3>1, <3>2 DEF Ahead
  <2> QED BY <2>1, <2>2
<1>12. ASSUME NEW q \in Pods PROVE Above(q)'
  BY <1>1, <1>6, <1>11 DEF Names, Above
<1> QED BY <1>3, <1>4, <1>5, <1>7, <1>8, <1>9, <1>10, <1>12 DEF Names

-----------------------------------------------------------------------------
(* Taking over: what a pod that follows the base has read of it.            *)

\* The base and all there is of its generation.
Everything == base.content \cup UNION {x.data : x \in {z \in segs : z.gen = base.gen}}

\* o is the base or an object before it.
Dated(o) == o.version <= base.version /\ (o.version = base.version => o = base)

\* A copy of the base has the base and all the segments below its next one.
Copy(p) ==
    replica[p].head.version = base.version =>
        /\ base.content \subseteq replica[p].data
        /\ \A x \in segs : x.gen = base.gen /\ x.seq < replica[p].next => x.data \subseteq replica[p].data

\* While the base is the one that HEAD described, what the bucket held then
\* is still there, then listed or copied, and in the end copied.
Floor(p) ==
    /\ op[p].head.version = base.version =>
         /\ op[p].at \in {"get", "list"} => op[p].floor \subseteq Everything
         /\ op[p].at \in {"list", "apply"} => replica[p].head.version = base.version
         /\ op[p].at = "apply" =>
              op[p].floor \subseteq replica[p].data \cup UNION {x.data : x \in op[p].list}
    /\ op[p].at = "apply" => \A x \in op[p].list : x.gen = replica[p].gen
    /\ op[p].at = "swap" => op[p].floor \subseteq replica[p].data

\* A cleanup deletes nothing of the generation it was made for.
Spared(p) == op[p].at = "delete" => \A x \in op[p].list : x.gen # ship[p].gen

Follows(p) ==
    /\ Dated(op[p].head) /\ Dated(replica[p].head)
    /\ replica[p].gen = replica[p].head.gen
    /\ Copy(p) /\ Floor(p) /\ Spared(p)

NothingFirst == base.version = 0 => base = NoObject

FollowInv == Names /\ NothingFirst /\ \A p \in Pods : Follows(p)

\* The bucket either has a later base or still has everything, and what it
\* has beyond that nobody has read past.
Advances ==
    \/ base'.version = base.version + 1
    \/ /\ base' = base /\ Everything \subseteq Everything'
       /\ \A x \in segs' \ segs : \A q \in Pods :
             replica[q].gen = x.gen => replica[q].next <= x.seq

\* And so are versions.
LEMMA VersionTypes ==
    ASSUME TypeOK
    PROVE  /\ base.version \in Nat
           /\ \A p \in Pods : op[p].head.version \in Nat /\ replica[p].head.version \in Nat
<1>1. \A p \in Pods : op[p] \in Op /\ replica[p] \in Replica
  BY DEF TypeOK
<1>2. \A p \in Pods : op[p].head \in Object /\ replica[p].head \in Object
  BY <1>1 DEF Op, Replica
<1>3. base \in Object
  BY DEF TypeOK
<1> QED BY <1>2, <1>3 DEF Object

\* A pod that does nothing follows the base as before, whatever the others do.
LEMMA FollowsOther ==
    ASSUME TypeOK, TypeOK', FollowInv, Advances, NEW q \in Pods,
           op'[q] = op[q], replica'[q] = replica[q], ship'[q] = ship[q]
    PROVE  Follows(q)'
<1>1. /\ base.version \in Nat /\ op[q].head.version \in Nat /\ replica[q].head.version \in Nat
      /\ replica[q].next \in Nat /\ \A x \in segs' : x.seq \in Nat
  <2>1. \A x \in segs' : x.seq \in Nat
    BY DEF TypeOK, Segment
  <2> QED BY <2>1, VersionTypes, NumberTypes
<1>2. Follows(q)
  BY DEF FollowInv
<1>3. Spared(q)'
  BY <1>2 DEF Follows, Spared
<1>4. CASE base'.version = base.version + 1
  <2>1. Dated(op[q].head)' /\ Dated(replica[q].head)'
    BY <1>1, <1>2, <1>4 DEF Follows, Dated
  <2>2. op'[q].head.version # base'.version /\ replica'[q].head.version # base'.version
    BY <1>1, <1>2, <1>4 DEF Follows, Dated
  <2>3. Copy(q)' /\ Floor(q)'
    BY <1>2, <2>2 DEF Follows, Copy, Floor
  <2> QED BY <1>2, <1>3, <2>1, <2>3 DEF Follows
<1>5. CASE /\ base' = base /\ Everything \subseteq Everything'
           /\ \A x \in segs' \ segs : \A r \in Pods :
                 replica[r].gen = x.gen => replica[r].next <= x.seq
  <2>1. Dated(op[q].head)' /\ Dated(replica[q].head)'
    BY <1>2, <1>5 DEF Follows, Dated
  <2>2. Copy(q)'
    <3> SUFFICES ASSUME replica[q].head.version = base.version,
                        NEW x \in segs', x.gen = base.gen, x.seq < replica[q].next, x \notin segs
                 PROVE  FALSE
      BY <1>2, <1>5 DEF Follows, Copy
    <3>1. replica[q].gen = base.gen
      BY <1>2 DEF Follows, Dated
    <3> QED BY <1>1, <1>5, <3>1
  <2>3. Floor(q)'
    BY <1>2, <1>5 DEF Follows, Floor
  <2> QED BY <1>2, <1>3, <2>1, <2>2, <2>3 DEF Follows
<1> QED BY <1>4, <1>5 DEF Advances

\* Nor does a pod lose track that begins, gives up or ships.
LEMMA FollowsAside ==
    ASSUME TypeOK, TypeOK', FollowInv, Advances, NothingFirst', NEW p \in Pods,
           op'[p].at \notin {"get", "list", "apply", "swap", "delete"},
           \/ op'[p].head = NoObject \/ op'[p].head = op[p].head
           \/ base' = base /\ op'[p].head = base,
           replica'[p] = replica[p] \/ replica'[p] = NoReplica
    PROVE  Follows(p)'
<1>1. /\ base.version \in Nat /\ op[p].head.version \in Nat /\ replica[p].head.version \in Nat
      /\ replica[p].next \in Nat /\ \A x \in segs' : x.seq \in Nat
      /\ base'.version \in Nat
  <2>1. base'.version \in Nat /\ \A x \in segs' : x.seq \in Nat
    BY DEF TypeOK, Object, Segment
  <2> QED BY <2>1, VersionTypes, NumberTypes
<1>2. Follows(p)
  BY DEF FollowInv
<1>3. Spared(p)' /\ Floor(p)'
  BY DEF Spared, Floor
<1>4. NoObject.version = 0 /\ NoObject.gen = 0 /\ NoObject.content = {}
      /\ NoReplica.gen = 0 /\ NoReplica.head = NoObject /\ NoReplica.next = 0
  BY DEF NoObject, NoReplica
<1>5. base'.version = base.version + 1 \/ base' = base
  BY DEF Advances
<1>6. \A o : Dated(o) /\ o.version \in Nat => (base' = base \/ o.version < base'.version)
  BY <1>1, <1>5 DEF Dated
<1>7. \A o : Dated(o) /\ o.version \in Nat => o.version <= base'.version /\ (o.version = base'.version => o = base')
  BY <1>1, <1>6 DEF Dated
<1>8. 0 <= base'.version /\ (0 = base'.version => NoObject = base')
  BY <1>1 DEF NothingFirst
<1>9. Dated(op[p].head)'
  BY <1>1, <1>2, <1>4, <1>7, <1>8 DEF Follows, Dated
<1>10. Dated(replica[p].head)' /\ replica'[p].gen = replica'[p].head.gen
  BY <1>1, <1>2, <1>4, <1>7, <1>8 DEF Follows, Dated
<1>11. Copy(p)'
  <2>1. CASE replica'[p] = NoReplica
    <3>1. \A x \in segs' : ~(x.seq < replica'[p].next)
      BY <1>1, <1>4, <2>1
    <3>2. replica'[p].head.version = base'.version => base'.content = {}
      BY <1>4, <2>1 DEF NothingFirst
    <3> QED BY <3>1, <3>2 DEF Copy
  <2>2. CASE replica'[p] = replica[p] /\ base'.version = base.version + 1
    BY <1>1, <1>2, <2>2 DEF Follows, Dated, Copy
  <2>3. CASE replica'[p] = replica[p] /\ base' = base /\ base'.version # base.version + 1
    <3> SUFFICES ASSUME replica[p].head.version = base.version,
                        NEW x \in segs', x.gen = base.gen, x.seq < replica[p].next, x \notin segs
                 PROVE  FALSE
      BY <1>2, <2>3 DEF Follows, Copy
    <3>1. replica[p].gen = base.gen
      BY <1>2 DEF Follows, Dated
    <3> QED BY <1>1, <2>3, <3>1 DEF Advances
  <2> QED BY <1>1, <1>5, <2>1, <2>2, <2>3
<1> QED BY <1>3, <1>9, <1>10, <1>11 DEF Follows

\* A step of a pod leaves the other pods alone.
Elsewhere(p) ==
    \A q \in Pods \ {p} :
        /\ op'[q] = op[q] /\ replica'[q] = replica[q] /\ ship'[q] = ship[q]
        /\ db'[q] = db[q] /\ isLeader'[q] = isLeader[q] /\ up'[q] = up[q]
        /\ holds'[q] = holds[q] /\ requests'[q] = requests[q]

\* Every step is of one pod.
LEMMA StepIsLocal ==
    ASSUME TypeOK, NEW p \in Pods, PodStep(p)
    PROVE  Elsewhere(p)
<1> USE DEF bucket, election, counters
<1>1. /\ op \in [Pods -> Op] /\ replica \in [Pods -> Replica] /\ ship \in [Pods -> Ship]
      /\ db \in [Pods -> Data] /\ isLeader \in [Pods -> BOOLEAN] /\ up \in [Pods -> BOOLEAN]
      /\ holds \in [Pods -> BOOLEAN] /\ requests \in [Pods -> Seq(Request)]
  BY DEF TypeOK
<1>2. CASE Elect(p) \/ Depose(p) \/ Write(p)
  BY <1>1, <1>2 DEF Elect, Depose, Write, Elsewhere
<1>3. CASE Crash(p)
  BY <1>1, <1>3 DEF Crash, Elsewhere
<1>4. CASE BeginPromote(p) \/ BeginDemote(p) \/ BeginCycle(p) \/ BeginBoot(p)
  BY <1>1, <1>4 DEF BeginPromote, BeginDemote, BeginCycle, BeginBoot, Begin, Elsewhere
<1>5. CASE Capture(p)
  BY <1>1, <1>5 DEF Capture, GoTo, Elsewhere
<1>6. CASE PutSegment(p) \/ PublishHead(p) \/ PublishPut(p) \/ CleanList(p) \/ CleanDelete(p)
  BY <1>1, <1>6 DEF PutSegment, PublishHead, PublishPut, CleanList, CleanDelete, Elsewhere
<1>7. CASE PublishLost(p) \/ ShipEnds(p) \/ ShipFails(p)
  BY <1>1, <1>7 DEF PublishLost, ShipEnds, ShipFails, EndShip, Release, Elsewhere
<1>8. CASE FollowNothing(p) \/ FollowHead(p) \/ FollowGet(p) \/ FollowList(p)
  BY <1>1, <1>8 DEF FollowNothing, FollowHead, FollowGet, FollowList, GoTo, Release, Elsewhere
<1>9. CASE FollowApply(p) \/ FollowEnds(p) \/ Recheck(p) \/ Swap(p) \/ FollowFails(p)
  BY <1>1, <1>9 DEF FollowApply, FollowEnds, Recheck, Swap, FollowFails, GoTo, Release, Elsewhere
<1> QED BY <1>2, <1>3, <1>4, <1>5, <1>6, <1>7, <1>8, <1>9 DEF PodStep, ShipStep, FollowStep

\* It is enough to look at the pod that takes the step.
LEMMA FollowKept ==
    ASSUME TypeOK, TypeOK', FollowInv, NEW p \in Pods, Elsewhere(p), Advances,
           Names', NothingFirst', Follows(p)'
    PROVE  FollowInv'
<1>1. \A q \in Pods \ {p} : Follows(q)'
  BY FollowsOther DEF Elsewhere
<1> QED BY <1>1 DEF FollowInv

\* A step that uploads and reads nothing.
LEMMA NamesQuiet ==
    ASSUME TypeOK, TypeOK', Names, NEW p \in Pods, Elsewhere(p),
           segs' \subseteq segs, generations' = generations, base'.gen <= generations,
           \/ ship'[p].gen = 0 /\ ship'[p].pending = <<>>
           \/ /\ ship'[p].gen = ship[p].gen /\ ship'[p].nextSeq = ship[p].nextSeq
              /\ ship'[p].pending = ship[p].pending,
           replica'[p] = replica[p] \/ replica'[p] = NoReplica
    PROVE  Names'
<1>1. Named(<<>>) = {} /\ Increasing(<<>>)
  BY DEF Named, Increasing
<1>2. \A q \in Pods :
        /\ \/ ship'[q].gen = 0
           \/ ship'[q].gen = ship[q].gen /\ ship'[q].nextSeq = ship[q].nextSeq
        /\ Spool(q)' \subseteq Spool(q) /\ Increasing(ship'[q].pending)
  <2> TAKE q \in Pods
  <2>1. CASE q = p
    BY <1>1, <2>1 DEF Names, InOrder, Spool
  <2>2. CASE q # p
    BY <2>2 DEF Names, InOrder, Spool, Elsewhere
  <2> QED BY <2>1, <2>2
<1>3. \A q \in Pods : replica'[q] = replica[q] \/ replica'[q] = NoReplica
  BY DEF Elsewhere
<1>4. NoReplica.gen = 0 /\ 0 <= generations
  BY NumberTypes DEF NoReplica
<1>5. \A q \in Pods :
        /\ replica'[q].gen <= generations
        /\ replica'[q].gen # 0 => \A r \in Pods : Ahead(r, replica'[q].gen, replica'[q].next)
  BY <1>3, <1>4 DEF Names, Known, Above
<1> QED BY <1>2, <1>5, NamesLess

\* A step that ends, or begins, an operation.
LEMMA FollowQuiet ==
    ASSUME TypeOK, TypeOK', FollowInv, NEW p \in Pods, Elsewhere(p),
           UNCHANGED <<base, segs, generations>>,
           ship'[p] = ship[p] \/ ship'[p] = NoShip,
           replica'[p] = replica[p] \/ replica'[p] = NoReplica,
           op'[p].at \notin {"get", "list", "apply", "swap", "delete"},
           op'[p].head = NoObject \/ op'[p].head = op[p].head \/ op'[p].head = base
    PROVE  FollowInv'
<1>1. Advances
  BY DEF Advances, Everything
<1>2. NoShip.gen = 0 /\ NoShip.pending = <<>>
  BY DEF NoShip
<1>3. Names'
  BY <1>2, NamesQuiet DEF FollowInv, Names, Known
<1>4. NothingFirst'
  BY DEF FollowInv, NothingFirst
<1>5. Follows(p)'
  BY <1>1, <1>4, FollowsAside
<1> QED BY <1>1, <1>3, <1>4, <1>5, FollowKept

\* A capture names a new generation or spools one segment.
LEMMA FollowCapture ==
    ASSUME TypeOK, TypeOK', FollowInv, NEW p \in Pods, Capture(p)
    PROVE  FollowInv'
<1> USE DEF bucket, election, counters
<1>1. Elsewhere(p)
  BY StepIsLocal DEF PodStep, ShipStep
<1>2. /\ UNCHANGED <<base, segs, replica>> /\ op \in [Pods -> Op]
      /\ op'[p].at = "upload" /\ op'[p].head = op[p].head
  BY DEF Capture, GoTo, TypeOK, Op
<1>3. Advances
  BY <1>2 DEF Advances, Everything
<1>4. NothingFirst'
  BY <1>2 DEF FollowInv, NothingFirst
<1>5. Follows(p)'
  BY <1>2, <1>3, <1>4, FollowsAside
<1>6. ship \in [Pods -> Ship] /\ ship[p] \in Ship
  BY DEF TypeOK
<1>7. \A q \in Pods \ {p} : ship'[q] = ship[q]
  BY <1>1 DEF Elsewhere
<1>8. CASE /\ generations' = generations + 1
           /\ ship' = [ship EXCEPT ![p] =
                 [ship[p] EXCEPT !.gen = generations + 1, !.base = "local",
                                 !.content = db[p], !.captured = db[p], !.nextSeq = 0]]
  <2>1. /\ ship'[p].gen = generations + 1 /\ ship'[p].nextSeq = 0
        /\ ship'[p].pending = ship[p].pending
    BY <1>6, <1>8 DEF Ship
  <2>2. Names'
    BY <1>2, <1>7, <1>8, <2>1, NamesNewGeneration DEF FollowInv
  <2> QED BY <1>1, <1>3, <1>4, <1>5, <2>2, FollowKept
<1>9. CASE UNCHANGED <<ship, generations>>
  BY <1>1, <1>2, <1>9, FollowQuiet
<1>10. CASE /\ ship[p].gen # 0 /\ UNCHANGED generations
            /\ ship' = [ship EXCEPT ![p] =
                  [ship[p] EXCEPT !.captured = db[p], !.nextSeq = @ + 1,
                     !.pending = Append(@, [gen |-> ship[p].gen, seq |-> ship[p].nextSeq,
                                            data |-> db[p] \ ship[p].captured])]]
  <2> DEFINE e == [gen |-> ship[p].gen, seq |-> ship[p].nextSeq,
                   data |-> db[p] \ ship[p].captured]
  <2>1. e \in Segment /\ e.gen = ship[p].gen /\ e.seq = ship[p].nextSeq
    <3>1. db[p] \ ship[p].captured \in Data
      BY DEF TypeOK, Data
    <3> QED BY <1>6, <3>1 DEF Segment, Ship
  <2>2. /\ ship'[p].gen = ship[p].gen /\ ship'[p].nextSeq = ship[p].nextSeq + 1
        /\ ship'[p].pending = Append(ship[p].pending, e)
    BY <1>6, <1>10 DEF Ship
  <2> HIDE DEF e
  <2>3. Names'
    BY <1>2, <1>7, <1>10, <2>1, <2>2, NamesSpool DEF FollowInv
  <2> QED BY <1>1, <1>3, <1>4, <1>5, <2>3, FollowKept
<1> QED
  <2>1. ship \in [Pods -> Ship] => [ship EXCEPT ![p] = ship[p]] = ship
    OBVIOUS
  <2> QED BY <1>6, <1>8, <1>9, <1>10, <2>1 DEF Capture

\* An upload adds to what may be read.
LEMMA FollowPut ==
    ASSUME TypeOK, TypeOK', FollowInv, NEW p \in Pods, PutSegment(p)
    PROVE  FollowInv'
<1> USE DEF bucket, election, counters
<1>1. Elsewhere(p)
  BY StepIsLocal DEF PodStep, ShipStep
<1>2. /\ UNCHANGED <<base, replica, generations, op>> /\ op[p].at = "upload"
      /\ ship[p].pending # <<>> /\ segs' = segs \cup {Head(ship[p].pending)}
  BY DEF PutSegment
<1>3. /\ ship'[p].gen = ship[p].gen /\ ship'[p].nextSeq = ship[p].nextSeq
      /\ ship'[p].pending = Tail(ship[p].pending)
      /\ \A q \in Pods \ {p} : ship'[q] = ship[q]
  BY DEF PutSegment, TypeOK, Ship
<1> DEFINE e == Head(ship[p].pending)
<1>4. Names' /\ \A q \in Pods : replica[q].gen = e.gen => replica[q].next <= e.seq
  BY <1>2, <1>3, NamesPut DEF FollowInv
<1>5. Advances
  BY <1>2, <1>4 DEF Advances, Everything
<1>6. NothingFirst'
  BY <1>2 DEF FollowInv, NothingFirst
<1>7. Follows(p)'
  BY <1>2, <1>5, <1>6, FollowsAside
<1> QED BY <1>1, <1>4, <1>5, <1>6, <1>7, FollowKept

\* A publication makes every copy one of the past.
LEMMA FollowPublish ==
    ASSUME TypeOK, TypeOK', FollowInv, NEW p \in Pods, PublishPut(p) \/ PublishLost(p)
    PROVE  FollowInv'
<1> USE DEF bucket, election, counters
<1>1. Elsewhere(p)
  BY StepIsLocal DEF PodStep, ShipStep
<1>2. /\ base' = NewBase(p) /\ UNCHANGED <<segs, replica, generations>>
      /\ base'.version = base.version + 1 /\ base'.gen = ship[p].gen
  BY DEF PublishPut, PublishLost, NewBase
<1>3. /\ op'[p].at \in {"clean", "idle"} /\ op'[p].head = NoObject
      /\ op \in [Pods -> Op]
  BY DEF PublishPut, PublishLost, EndShip, Release, NoOp, TypeOK, Op
<1>4. \/ ship'[p].gen = 0 /\ ship'[p].pending = <<>>
      \/ /\ ship'[p].gen = ship[p].gen /\ ship'[p].nextSeq = ship[p].nextSeq
         /\ ship'[p].pending = ship[p].pending
  <2>1. ship \in [Pods -> Ship] /\ ship[p] \in Ship
    BY DEF TypeOK
  <2>2. CASE PublishPut(p)
    BY <2>1, <2>2 DEF PublishPut, Ship
  <2>3. CASE PublishLost(p)
    <3>1. ship' = ship \/ ship' = [ship EXCEPT ![p] = NoShip]
      BY <2>3 DEF PublishLost, EndShip
    <3> QED BY <2>1, <3>1 DEF NoShip
  <2> QED BY <2>2, <2>3
<1>5. Names'
  BY <1>1, <1>2, <1>4, NamesQuiet DEF FollowInv, Names, Known
<1>6. Advances
  BY <1>2 DEF Advances
<1>7. NothingFirst'
  BY <1>2, VersionTypes DEF NothingFirst
<1>8. Follows(p)'
  BY <1>2, <1>3, <1>6, <1>7, FollowsAside
<1> QED BY <1>1, <1>5, <1>6, <1>7, <1>8, FollowKept

\* The cleanup of a base that is still the current one deletes none of its
\* segments.
LEMMA CleanupSpares ==
    ASSUME ~CleanupMayLag, NEW p \in Pods, Spared(p), CleanDelete(p)
    PROVE  \E x \in op[p].list : /\ segs' = segs \ {x} /\ x.gen # base.gen
                                 /\ op' = [op EXCEPT ![p].list = @ \ {x}]
BY DEF CleanDelete, CleanupInTime, Spared

\* A cleanup in time takes nothing that is still to be read.
LEMMA FollowClean ==
    ASSUME ~CleanupMayLag, TypeOK, TypeOK', FollowInv, NEW p \in Pods,
           CleanList(p) \/ CleanDelete(p)
    PROVE  FollowInv'
<1> USE DEF bucket, election, counters
<1>1. Elsewhere(p)
  BY StepIsLocal DEF PodStep, ShipStep
<1>2. UNCHANGED <<base, replica, ship, generations>> /\ op[p] \in Op /\ op \in [Pods -> Op]
  BY DEF CleanList, CleanDelete, TypeOK
<1>3. /\ op'[p].at = "delete" /\ op'[p].head = op[p].head
      /\ \A x \in op'[p].list : x.gen # ship[p].gen
  <2>1. CASE CleanList(p)
    BY <1>2, <2>1 DEF CleanList, Op
  <2>2. CASE CleanDelete(p)
    BY <1>2, <2>2 DEF CleanDelete, Op, FollowInv, Follows, Spared
  <2> QED BY <2>1, <2>2
<1>4. segs' \subseteq segs /\ \A x \in segs \ segs' : x.gen # base.gen
  <2>1. CASE CleanList(p)
    BY <2>1 DEF CleanList
  <2>2. CASE CleanDelete(p)
    BY <2>2, CleanupSpares DEF FollowInv, Follows
  <2> QED BY <2>1, <2>2
<1>5. Advances
  BY <1>2, <1>4 DEF Advances, Everything
<1>6. Names'
  BY <1>1, <1>2, <1>4, NamesQuiet DEF FollowInv, Names, Known
<1>7. NothingFirst'
  BY <1>2 DEF FollowInv, NothingFirst
<1>8. Follows(p)'
  <2>1. Follows(p)
    BY DEF FollowInv
  <2>2. Copy(p)'
    BY <1>2, <1>4, <2>1 DEF Follows, Copy
  <2>3. Floor(p)' /\ Spared(p)'
    BY <1>2, <1>3 DEF Floor, Spared
  <2> QED BY <1>2, <1>3, <2>1, <2>2, <2>3 DEF Follows, Dated
<1> QED BY <1>1, <1>5, <1>6, <1>7, <1>8, FollowKept

\* HEAD, LIST and the re-check of the base.
LEMMA FollowFollows ==
    ASSUME ~ContentETags, TypeOK, TypeOK', FollowInv, NEW p \in Pods,
           FollowHead(p) \/ FollowList(p) \/ Recheck(p)
    PROVE  FollowInv'
<1> USE DEF bucket, election, counters
<1>1. Elsewhere(p)
  BY StepIsLocal DEF PodStep, FollowStep
<1>2. UNCHANGED <<base, segs, replica, ship, generations>>
  BY DEF FollowHead, FollowList, Recheck
<1>3. Advances
  BY <1>2 DEF Advances, Everything
<1>4. Names'
  BY <1>1, <1>2, NamesQuiet DEF FollowInv, Names, Known
<1>5. NothingFirst'
  BY <1>2 DEF FollowInv, NothingFirst
<1>6. Follows(p) /\ op \in [Pods -> Op] /\ op[p] \in Op
  BY DEF FollowInv, TypeOK
<1>7. Copy(p)'
  BY <1>2, <1>6 DEF Follows, Copy
<1>8. Everything' = Everything
  BY <1>2 DEF Everything
<1>9. CASE FollowHead(p)
  <2>1. /\ op'[p].head = base /\ op'[p].at = (IF Reusable(p) THEN "list" ELSE "get")
        /\ op'[p].floor = (IF Verify(p) THEN Restored ELSE {})
    BY <1>6, <1>9 DEF FollowHead, Op
  <2>2. op'[p].floor \subseteq Everything
    BY <2>1 DEF Restored, Everything
  <2>3. op'[p].at = "list" => replica[p].head.version = base.version
    BY <2>1 DEF Reusable, SameETag
  <2>4. Floor(p)' /\ Spared(p)'
    BY <1>2, <1>8, <2>1, <2>2, <2>3 DEF Floor, Spared
  <2>5. Dated(op[p].head)' /\ Dated(replica[p].head)'
    BY <1>2, <1>6, <2>1, VersionTypes DEF Follows, Dated
  <2>6. Follows(p)'
    BY <1>2, <1>6, <1>7, <2>4, <2>5 DEF Follows
  <2> QED BY <1>1, <1>3, <1>4, <1>5, <2>6, FollowKept
<1>10. CASE FollowList(p)
  <2>1. /\ op[p].at = "list" /\ op'[p].at = "apply"
        /\ op'[p].head = op[p].head /\ op'[p].floor = op[p].floor
        /\ op'[p].list = {x \in segs : x.gen = replica[p].gen /\ x.seq >= replica[p].next}
    BY <1>6, <1>10 DEF FollowList, Op
  <2>2. ASSUME op[p].head.version = base.version
        PROVE  op[p].floor \subseteq replica[p].data \cup UNION {x.data : x \in op'[p].list}
    <3>1. /\ op[p].floor \subseteq Everything /\ replica[p].head.version = base.version
          /\ replica[p].gen = base.gen
      BY <1>6, <2>1, <2>2 DEF Follows, Floor, Dated
    <3>2. \A x \in segs : x.gen = base.gen =>
             x \in op'[p].list \/ x.data \subseteq replica[p].data
      <4> TAKE x \in segs
      <4>1. x.seq \in Nat /\ replica[p].next \in Nat
        BY NumberTypes
      <4> QED BY <1>6, <2>1, <3>1, <4>1 DEF Follows, Copy
    <3>3. base.content \subseteq replica[p].data
      BY <1>6, <3>1 DEF Follows, Copy
    <3> QED BY <3>1, <3>2, <3>3 DEF Everything
  <2>3. op[p].head.version = base.version => replica[p].head.version = base.version
    BY <1>6, <2>1 DEF Follows, Floor
  <2>4. Floor(p)' /\ Spared(p)'
    BY <1>2, <2>1, <2>2, <2>3 DEF Floor, Spared
  <2>5. Follows(p)'
    BY <1>2, <1>6, <1>7, <2>1, <2>4 DEF Follows, Dated
  <2> QED BY <1>1, <1>3, <1>4, <1>5, <2>5, FollowKept
<1>11. CASE Recheck(p)
  <2>1. /\ op[p].at = "apply" /\ op[p].list = {} /\ op[p].head.version = base.version
        /\ op'[p].at = "swap" /\ op'[p].head = op[p].head /\ op'[p].floor = op[p].floor
    BY <1>6, <1>11 DEF Recheck, GoTo, SameETag, Op
  <2>2. op[p].floor \subseteq replica[p].data
    BY <1>6, <2>1 DEF Follows, Floor
  <2>3. Floor(p)' /\ Spared(p)'
    BY <1>2, <2>1, <2>2 DEF Floor, Spared
  <2>4. Follows(p)'
    BY <1>2, <1>6, <1>7, <2>1, <2>3 DEF Follows, Dated
  <2> QED BY <1>1, <1>3, <1>4, <1>5, <2>4, FollowKept
<1> QED BY <1>9, <1>10, <1>11

\* The GET of the base, and of a segment.
LEMMA FollowReads ==
    ASSUME ~ContentETags, TypeOK, TypeOK', FollowInv, NEW p \in Pods,
           FollowGet(p) \/ FollowApply(p)
    PROVE  FollowInv'
<1> USE DEF bucket, election, counters
<1>1. Elsewhere(p)
  BY StepIsLocal DEF PodStep, FollowStep
<1>2. UNCHANGED <<base, segs, ship, generations>>
  BY DEF FollowGet, FollowApply
<1>3. Advances
  BY <1>2 DEF Advances, Everything
<1>4. NothingFirst'
  BY <1>2 DEF FollowInv, NothingFirst
<1>5. /\ Follows(p) /\ op \in [Pods -> Op] /\ op[p] \in Op
      /\ replica \in [Pods -> Replica] /\ replica[p] \in Replica
  BY DEF FollowInv, TypeOK
<1>6. ASSUME replica'[p].gen <= generations,
             replica'[p].gen # 0 => \A r \in Pods : Ahead(r, replica'[p].gen, replica'[p].next)
      PROVE  Names'
  <2>1. \A q \in Pods : Spool(q)' = Spool(q) /\ Increasing(ship'[q].pending)
    BY <1>2 DEF Spool, FollowInv, Names, InOrder
  <2>2. \A q \in Pods :
          /\ replica'[q].gen <= generations
          /\ replica'[q].gen # 0 => \A r \in Pods : Ahead(r, replica'[q].gen, replica'[q].next)
    BY <1>1, <1>6 DEF Elsewhere, FollowInv, Names, Known, Above
  <2>3. base'.gen <= generations
    BY <1>2 DEF FollowInv, Names, Known
  <2> QED BY <1>2, <2>1, <2>2, <2>3, NamesLess DEF FollowInv
<1>7. CASE FollowGet(p)
  <2>1. /\ op[p].at = "get" /\ op[p].head.version = base.version
        /\ op'[p].at = "list" /\ op'[p].head = op[p].head /\ op'[p].floor = op[p].floor
        /\ replica'[p] = [gen |-> op[p].head.gen, head |-> op[p].head, next |-> 0,
                          data |-> base.content]
    BY <1>5, <1>7 DEF FollowGet, GoTo, SameETag, Op
  <2>2. op[p].head = base /\ op[p].floor \subseteq Everything
    BY <1>5, <2>1 DEF Follows, Dated, Floor
  <2>3. /\ replica'[p].gen = base.gen /\ replica'[p].head = base /\ replica'[p].next = 0
        /\ replica'[p].data = base.content
    BY <2>1, <2>2
  <2>4. Names'
    <3>1. \A r \in Pods : Ahead(r, base.gen, 0)
      <4>1. \A r \in Pods : ship[r].nextSeq \in Nat /\ \A y \in Spool(r) : y.seq \in Nat
        BY NumberTypes
      <4> QED BY <4>1 DEF Ahead
    <3> QED BY <1>6, <2>3, <3>1 DEF FollowInv, Names, Known
  <2>5. Copy(p)'
    <3>1. \A x \in segs : ~(x.seq < 0)
      BY NumberTypes
    <3> QED BY <1>2, <2>3, <3>1 DEF Copy
  <2>6. Everything' = Everything
    BY <1>2 DEF Everything
  <2>7. Floor(p)' /\ Spared(p)'
    BY <1>2, <2>1, <2>2, <2>3, <2>6 DEF Floor, Spared
  <2>8. Dated(op[p].head)' /\ Dated(replica[p].head)'
    BY <1>2, <1>5, <2>1, <2>2, <2>3, VersionTypes DEF Follows, Dated
  <2>9. Follows(p)'
    BY <2>3, <2>5, <2>7, <2>8 DEF Follows
  <2> QED BY <1>1, <1>3, <1>4, <2>4, <2>9, FollowKept
<1>8. CASE FollowApply(p)
  <2>1. PICK x \in op[p].list :
           /\ op[p].at = "apply" /\ x.seq = replica[p].next /\ x \in segs
           /\ replica' = [replica EXCEPT ![p].next = @ + 1, ![p].data = @ \cup x.data]
           /\ op' = [op EXCEPT ![p].list = @ \ {x}]
    BY <1>8 DEF FollowApply
  <2>2. /\ replica'[p].gen = replica[p].gen /\ replica'[p].head = replica[p].head
        /\ replica'[p].next = replica[p].next + 1
        /\ replica'[p].data = replica[p].data \cup x.data
    BY <1>5, <2>1 DEF Replica
  <2>3. /\ op'[p].at = "apply" /\ op'[p].head = op[p].head /\ op'[p].floor = op[p].floor
        /\ op'[p].list = op[p].list \ {x}
    BY <1>5, <2>1 DEF Op
  <2>4. x.gen = replica[p].gen /\ \A z \in op[p].list : z.gen = replica[p].gen
    BY <1>5, <2>1 DEF Follows, Floor
  <2>5. Names'
    <3>1. \A r \in Pods : Ahead(r, x.gen, x.seq + 1)
      BY <2>1 DEF FollowInv, Names, Above
    <3>2. replica[p].gen <= generations
      BY DEF FollowInv, Names, Known
    <3> QED BY <1>6, <2>1, <2>2, <2>4, <3>1, <3>2
  <2>6. Copy(p)'
    <3> SUFFICES ASSUME replica[p].head.version = base.version
                 PROVE  /\ base.content \subseteq replica[p].data \cup x.data
                        /\ \A z \in segs : z.gen = base.gen /\ z.seq < replica[p].next + 1
                              => z.data \subseteq replica[p].data \cup x.data
      BY <1>2, <2>2 DEF Copy
    <3>1. replica[p].gen = base.gen
      BY <1>5 DEF Follows, Dated
    <3>2. \A z \in segs : z.gen = base.gen /\ z.seq < replica[p].next + 1
            => z.seq < replica[p].next \/ z = x
      <4> TAKE z \in segs
      <4>1. z.seq \in Nat /\ replica[p].next \in Nat
        BY NumberTypes
      <4>2. z.gen = base.gen /\ z.seq = x.seq => z = x
        BY <2>1, <2>4, <3>1 DEF FollowInv, Names, Unique
      <4> QED BY <2>1, <4>1, <4>2
    <3> QED BY <1>5, <3>2 DEF Follows, Copy
  <2>7. Floor(p)'
    <3>1. op[p].head.version = base.version =>
            /\ replica[p].head.version = base.version
            /\ op[p].floor \subseteq (replica[p].data \cup x.data)
                  \cup UNION {z.data : z \in op[p].list \ {x}}
      BY <1>5, <2>1 DEF Follows, Floor
    <3> QED BY <1>2, <2>2, <2>3, <2>4, <3>1 DEF Floor
  <2>8. Spared(p)'
    BY <2>3 DEF Spared
  <2>9. Follows(p)'
    BY <1>2, <1>5, <2>2, <2>3, <2>6, <2>7, <2>8 DEF Follows, Dated
  <2> QED BY <1>1, <1>3, <1>4, <2>5, <2>9, FollowKept
<1> QED BY <1>7, <1>8

-----------------------------------------------------------------------------
(* Who does what with the lock.                                             *)

Shipping == {"capture", "upload", "put", "clean", "delete"}
Following == {"head", "get", "list", "apply", "recheck", "swap"}

\* Only a leader ships, a pod that is not one has forgotten its generation,
\* and a pod that boots has nothing else to do.
Roles(p) ==
    /\ op[p].at \in Shipping => op[p].kind \in {"cycle", "demote"}
    /\ op[p].at \in Following => op[p].kind \in {"promote", "standby", "boot"}
    /\ op[p].kind \in {"cycle", "demote"} => isLeader[p]
    /\ op[p].kind \in {"promote", "standby"} => up[p]
    /\ op[p].kind = "boot" => ~up[p]
    /\ isLeader[p] => up[p]
    /\ ~isLeader[p] => ship[p] = NoShip
    /\ ship[p].gen = 0 => ship[p] = NoShip
    /\ op[p].at = "put" => ship[p].base = "local"

AllRoles == \A p \in Pods : Roles(p)

\* Every step of a pod keeps its role.
LEMMA RolesKept ==
    ASSUME TypeOK, AllRoles, NEW p \in Pods, PodStep(p)
    PROVE  AllRoles'
<1> USE DEF bucket, election, counters, Shipping, Following
<1>1. Elsewhere(p)
  BY StepIsLocal
<1>2. \A q \in Pods \ {p} : Roles(q)'
  BY <1>1 DEF Elsewhere, AllRoles, Roles
<1> SUFFICES Roles(p)'
  BY <1>2 DEF AllRoles
<1>3. /\ op \in [Pods -> Op] /\ op[p] \in Op /\ ship \in [Pods -> Ship] /\ ship[p] \in Ship
      /\ isLeader \in [Pods -> BOOLEAN] /\ up \in [Pods -> BOOLEAN] /\ Roles(p)
  BY DEF TypeOK, AllRoles
<1>4. NoOp.at = "idle" /\ NoOp.kind = "none" /\ NoShip.gen = 0
  BY DEF NoOp, NoShip
<1>5. /\ Release(p) => op'[p].at = "idle" /\ op'[p].kind = "none"
      /\ \A k \in Kinds, a \in Steps : Begin(p, k, a) => op'[p].at = a /\ op'[p].kind = k
      /\ \A a \in Steps : GoTo(p, a) => op'[p].at = a /\ op'[p].kind = op[p].kind
  <2>1. Release(p) => op'[p].at = "idle" /\ op'[p].kind = "none"
    BY <1>3, <1>4 DEF Release
  <2>2. \A k \in Kinds, a \in Steps : Begin(p, k, a) => op'[p].at = a /\ op'[p].kind = k
    BY <1>3 DEF Begin, NoOp
  <2>3. \A a \in Steps : GoTo(p, a) => op'[p].at = a /\ op'[p].kind = op[p].kind
    BY <1>3 DEF GoTo, Op
  <2> QED BY <2>1, <2>2, <2>3
<1>6. CASE Elect(p) \/ Depose(p) \/ Write(p)
  BY <1>3, <1>6 DEF Elect, Depose, Write, Roles
<1>7. CASE Crash(p)
  <2>1. /\ op'[p] = NoOp /\ ship'[p] = NoShip /\ isLeader'[p] = FALSE
    BY <1>3, <1>7 DEF Crash
  <2> QED BY <1>4, <2>1 DEF Roles
<1>8. CASE BeginPromote(p) \/ BeginCycle(p) \/ BeginBoot(p)
  <2>1. UNCHANGED <<ship, isLeader, up>>
    BY <1>8 DEF BeginPromote, BeginCycle, BeginBoot
  <2>2. \/ up[p] /\ op'[p].at = "head" /\ op'[p].kind \in {"promote", "standby"}
        \/ ~up[p] /\ op'[p].at = "head" /\ op'[p].kind = "boot"
        \/ isLeader[p] /\ op'[p].at = "capture" /\ op'[p].kind = "cycle"
        \/ op' = op
    BY <1>5, <1>8 DEF BeginPromote, BeginCycle, BeginBoot, Kinds, Steps
  <2> QED BY <1>3, <2>1, <2>2 DEF Roles
<1>9. CASE BeginDemote(p)
  <2>1. UNCHANGED <<isLeader, up>>
    BY <1>9 DEF BeginDemote
  <2>2. \/ isLeader[p] /\ op'[p].at = "capture" /\ op'[p].kind = "demote" /\ ship' = ship
        \/ ~isLeader[p] /\ op[p].kind = "none" /\ op' = op /\ ship'[p] = NoShip
    BY <1>3, <1>5, <1>9 DEF BeginDemote, Free, Kinds, Steps
  <2> QED BY <1>3, <1>4, <2>1, <2>2 DEF Roles
<1>10. CASE Capture(p)
  <2>1. /\ UNCHANGED <<isLeader, up>> /\ op[p].at = "capture"
        /\ op'[p].at = "upload" /\ op'[p].kind = op[p].kind
    BY <1>5, <1>10 DEF Capture, Steps
  <2>2. ship'[p].gen # 0
    <3>1. generations + 1 # 0
      BY DEF TypeOK
    <3>2. \/ ship'[p] = ship[p] /\ ship[p].gen # 0
          \/ ship'[p] = [ship[p] EXCEPT !.gen = generations + 1, !.base = "local",
                            !.content = db[p], !.captured = db[p], !.nextSeq = 0]
          \/ /\ ship[p].gen # 0
             /\ ship'[p] = [ship[p] EXCEPT !.captured = db[p], !.nextSeq = @ + 1,
                  !.pending = Append(@, [gen |-> ship[p].gen, seq |-> ship[p].nextSeq,
                                         data |-> db[p] \ ship[p].captured])]
      BY <1>3, <1>10 DEF Capture
    <3> QED BY <1>3, <3>1, <3>2 DEF Ship
  <2> QED BY <1>3, <2>1, <2>2 DEF Roles
<1>11. CASE PutSegment(p) \/ PublishPut(p)
  <2>1. /\ UNCHANGED <<isLeader, up>> /\ op'[p].kind = op[p].kind /\ op'[p].at \in {"upload", "clean"}
        /\ op[p].at \in {"upload", "put"}
    BY <1>3, <1>11 DEF PutSegment, PublishPut, Op
  <2>2. ship'[p].gen = ship[p].gen
    BY <1>3, <1>11 DEF PutSegment, PublishPut, Ship
  <2>3. ship[p].gen # 0
    <3>1. NoShip.pending = <<>> /\ NoShip.base = "none"
      BY DEF NoShip
    <3>2. ship[p] # NoShip
      BY <1>3, <1>11, <3>1 DEF PutSegment, PublishPut, Roles
    <3> QED BY <1>3, <3>2 DEF Roles
  <2> QED BY <1>3, <2>1, <2>2, <2>3 DEF Roles
<1>12. CASE PublishHead(p) \/ CleanList(p) \/ CleanDelete(p)
  <2>1. UNCHANGED <<isLeader, up, ship>> /\ op'[p].kind = op[p].kind
    BY <1>3, <1>12 DEF PublishHead, CleanList, CleanDelete, Op
  <2>2. /\ op[p].at \in Shipping
        /\ op'[p].at = "delete" \/ (op'[p].at = "put" /\ ship[p].base = "local")
    BY <1>3, <1>12 DEF PublishHead, CleanList, CleanDelete, Op
  <2> QED BY <1>3, <2>1, <2>2 DEF Roles
<1>13. CASE PublishLost(p) \/ ShipEnds(p) \/ ShipFails(p)
  <2>1. EndShip(p) /\ UNCHANGED up
    BY <1>13 DEF PublishLost, ShipEnds, ShipFails
  <2>2. /\ op'[p].at = "idle" /\ op'[p].kind = "none"
        /\ \/ UNCHANGED <<isLeader, ship>>
           \/ isLeader'[p] = FALSE /\ ship'[p] = NoShip
    BY <1>3, <1>5, <2>1 DEF EndShip
  <2> QED BY <1>3, <1>4, <2>1, <2>2 DEF Roles
<1>14. CASE FollowNothing(p)
  <2>1. /\ UNCHANGED ship /\ op'[p].at = "idle" /\ op'[p].kind = "none" /\ up'[p] = TRUE
        /\ isLeader[p] => isLeader'[p]
    BY <1>3, <1>5, <1>14 DEF FollowNothing
  <2> QED BY <1>3, <2>1 DEF Roles
<1>15. CASE FollowHead(p) \/ FollowGet(p) \/ FollowList(p) \/ FollowApply(p) \/ Recheck(p)
  <2>1. UNCHANGED <<isLeader, up, ship>> /\ op[p].at \in Following
    BY <1>15 DEF FollowHead, FollowGet, FollowList, FollowApply, Recheck
  <2>2. op'[p].kind = op[p].kind /\ op'[p].at \in Following
    BY <1>3, <1>5, <1>15 DEF FollowHead, FollowGet, FollowList, FollowApply, Recheck, Op, Steps
  <2> QED BY <1>3, <2>1, <2>2 DEF Roles
<1>16. CASE FollowEnds(p) \/ FollowFails(p)
  <2>1. UNCHANGED <<isLeader, up, ship>> /\ op'[p].at = "idle" /\ op'[p].kind = "none"
    BY <1>5, <1>16 DEF FollowEnds, FollowFails
  <2> QED BY <1>3, <2>1 DEF Roles
<1>17. CASE Swap(p)
  <2>1. /\ op'[p].at = "idle" /\ op'[p].kind = "none"
        /\ \/ op[p].kind = "promote" /\ ship'[p] = NoShip /\ isLeader'[p] = TRUE /\ up' = up
           \/ up'[p] = TRUE /\ UNCHANGED <<ship, isLeader>>
    BY <1>3, <1>5, <1>17 DEF Swap
  <2> QED BY <1>3, <1>4, <2>1 DEF Roles
<1> QED BY <1>6, <1>7, <1>8, <1>9, <1>10, <1>11, <1>12, <1>13, <1>14, <1>15, <1>16, <1>17
           DEF PodStep, ShipStep, FollowStep

\* Roles are kept from the start, however leadership is handed over.
LEMMA RolesAlways == Spec => []AllRoles
<1>1. Init => AllRoles
  BY DEF Init, AllRoles, Roles, NoOp, NoShip, Shipping, Following
<1>2. TypeOK /\ AllRoles /\ [Next]_vars => AllRoles'
  <2>1. ASSUME AllRoles, UNCHANGED vars PROVE AllRoles'
    BY <2>1 DEF vars, AllRoles, Roles
  <2> QED BY <2>1, RolesKept DEF Next
<1> QED BY <1>1, <1>2, TypeCorrect, PTL DEF Spec

-----------------------------------------------------------------------------
(* Taking over is complete.                                                *)

\* Every step of a pod keeps what the pods that follow rely on.
LEMMA FollowStepKept ==
    ASSUME ~ContentETags, ~CleanupMayLag, TypeOK, TypeOK', AllRoles, FollowInv,
           NEW p \in Pods, PodStep(p)
    PROVE  FollowInv'
<1> USE DEF bucket, election, counters
<1>1. Elsewhere(p)
  BY StepIsLocal
<1>2. /\ op \in [Pods -> Op] /\ op[p] \in Op /\ ship \in [Pods -> Ship]
      /\ replica \in [Pods -> Replica]
  BY DEF TypeOK
<1>3. /\ NoOp.at = "idle" /\ NoOp.head = NoObject
      /\ \A k \in Kinds, a \in {"head", "capture"} :
           Begin(p, k, a) => op'[p].at = a /\ op'[p].head = NoObject
  BY <1>2 DEF NoOp, Begin
<1>4. ASSUME UNCHANGED <<base, segs, generations, ship, replica, op>> PROVE FollowInv'
  <2>1. Names'
    BY <1>4 DEF FollowInv, Names, Known, Owned, Unique, InOrder, Above, Ahead, Writes, Spool
  <2>2. NothingFirst' /\ \A q \in Pods : Follows(q)'
    BY <1>4 DEF FollowInv, NothingFirst, Follows, Dated, Copy, Floor, Spared, Everything
  <2> QED BY <2>1, <2>2 DEF FollowInv
<1>5. ASSUME UNCHANGED <<base, segs, generations>>,
             ship' = ship \/ ship' = [ship EXCEPT ![p] = NoShip],
             replica'[p] = replica[p] \/ replica'[p] = NoReplica,
             Release(p) \/ \E k \in Kinds, a \in {"head", "capture"} : Begin(p, k, a)
      PROVE  FollowInv'
  <2>1. op'[p].at \in {"idle", "head", "capture"} /\ op'[p].head = NoObject
    BY <1>2, <1>3, <1>5 DEF Release
  <2>2. ship'[p] = ship[p] \/ ship'[p] = NoShip
    BY <1>2, <1>5
  <2> QED BY <1>1, <1>5, <2>1, <2>2, FollowQuiet
<1>6. CASE Elect(p) \/ Depose(p) \/ Write(p)
  BY <1>4, <1>6 DEF Elect, Depose, Write
<1>7. CASE Crash(p)
  BY <1>2, <1>5, <1>7 DEF Crash, Release
<1>8. CASE BeginPromote(p) \/ BeginCycle(p) \/ BeginBoot(p)
  BY <1>4, <1>5, <1>8 DEF BeginPromote, BeginCycle, BeginBoot, Kinds
<1>9. CASE BeginDemote(p)
  <2>1. CASE op' = op
    <3>1. /\ op[p].at = op'[p].at /\ op'[p].head = op[p].head
          /\ ship'[p] = ship[p] \/ ship'[p] = NoShip
          /\ UNCHANGED <<base, segs, generations, replica>>
      BY <1>2, <1>9, <2>1 DEF BeginDemote
    <3>2. op[p].at \notin Shipping \cup Following
      BY <1>9 DEF BeginDemote, Free, AllRoles, Roles
    <3> QED BY <1>1, <2>1, <3>1, <3>2, FollowQuiet DEF Shipping, Following
  <2>2. CASE Begin(p, "demote", "capture")
    BY <1>5, <1>9, <2>2 DEF BeginDemote, Kinds
  <2> QED BY <1>9, <2>1, <2>2 DEF BeginDemote
<1>10. CASE PublishHead(p)
  <2>1. /\ op'[p].at = "put" /\ op'[p].head = base
        /\ UNCHANGED <<base, segs, generations, ship, replica>>
    BY <1>2, <1>10 DEF PublishHead, Op
  <2> QED BY <1>1, <2>1, FollowQuiet
<1>11. CASE ShipEnds(p) \/ ShipFails(p)
  BY <1>5, <1>11 DEF ShipEnds, ShipFails, EndShip
<1>12. CASE FollowNothing(p) \/ FollowEnds(p) \/ FollowFails(p)
  BY <1>2, <1>5, <1>12 DEF FollowNothing, FollowEnds, FollowFails
<1>13. CASE Swap(p)
  BY <1>2, <1>5, <1>13 DEF Swap
<1> QED BY <1>6, <1>7, <1>8, <1>9, <1>10, <1>11, <1>12, <1>13, FollowCapture, FollowPut,
           FollowPublish, FollowClean, FollowFollows, FollowReads
           DEF PodStep, ShipStep, FollowStep

\* So does every step of the system.
LEMMA FollowInvStep ==
    ASSUME ~ContentETags, ~CleanupMayLag, TypeOK, TypeOK', AllRoles, FollowInv, [Next]_vars
    PROVE  FollowInv'
<1>1. CASE UNCHANGED vars
  <2>1. UNCHANGED <<base, segs, generations, ship, replica, op>>
    BY <1>1 DEF vars, bucket, counters
  <2>2. Names'
    BY <2>1 DEF FollowInv, Names, Known, Owned, Unique, InOrder, Above, Ahead, Writes, Spool
  <2>3. NothingFirst' /\ \A q \in Pods : Follows(q)'
    BY <2>1 DEF FollowInv, NothingFirst, Follows, Dated, Copy, Floor, Spared, Everything
  <2> QED BY <2>2, <2>3 DEF FollowInv
<1> QED BY <1>1, FollowStepKept DEF Next

\* Nothing is read before the first base.
LEMMA FollowInit == Init => FollowInv
<1> SUFFICES ASSUME Init PROVE FollowInv
  OBVIOUS
<1>1. /\ \A p \in Pods : ship[p] = NoShip /\ replica[p] = NoReplica /\ op[p] = NoOp
      /\ base = NoObject /\ segs = {} /\ generations = 0
  BY DEF Init
<1>2. /\ NoShip.gen = 0 /\ NoShip.pending = <<>> /\ NoReplica.gen = 0
      /\ NoReplica.head = NoObject /\ NoOp.head = NoObject /\ NoOp.at = "idle"
      /\ NoObject.version = 0 /\ NoObject.gen = 0 /\ NoObject.content = {}
  BY DEF NoShip, NoReplica, NoOp, NoObject
<1>3. \A p \in Pods : Spool(p) = {} /\ Increasing(ship[p].pending)
  BY <1>1, <1>2 DEF Spool, Named, Increasing
<1>4. Names
  BY <1>1, <1>2, <1>3 DEF Names, Known, Owned, Unique, InOrder, Above, Writes
<1>5. NothingFirst
  BY <1>1 DEF NothingFirst
<1>6. \A p \in Pods : Follows(p)
  BY <1>1, <1>2 DEF Follows, Dated, Copy, Floor, Spared
<1> QED BY <1>4, <1>5, <1>6 DEF FollowInv

\* A pod that has not looked yet owes nothing.
NotLooked == \A p \in Pods : op[p].at = "head" => op[p].floor = {}

LEMMA NotLookedStep == TypeOK /\ NotLooked /\ [Next]_vars => NotLooked'
<1> SUFFICES ASSUME TypeOK, NotLooked, [Next]_vars, NEW q \in Pods, op'[q].at = "head"
             PROVE  op'[q].floor = {}
  BY DEF NotLooked
<1>1. op \in [Pods -> Op] /\ NoOp.at = "idle" /\ NoOp.floor = {}
  BY DEF TypeOK, NoOp
<1>2. CASE op'[q] = op[q]
  BY <1>2 DEF NotLooked
<1>3. ASSUME NEW p \in Pods, PodStep(p) PROVE op'[q].floor = {}
  <2>1. CASE p # q
    BY <1>2, <1>3, <2>1, StepIsLocal DEF Elsewhere
  <2>2. CASE UNCHANGED op
    BY <1>2, <2>2
  <2>3. CASE Release(p)
    BY <1>1, <1>2, <2>3 DEF Release
  <2>4. CASE \E k, a : Begin(p, k, a)
    BY <1>1, <1>2, <2>4 DEF Begin, NoOp
  <2>5. CASE \E a \in {"list", "upload", "swap"} : GoTo(p, a)
    BY <1>1, <1>2, <2>5 DEF GoTo, Op
  <2>6. CASE Elect(p) \/ Depose(p) \/ Write(p)
    BY <2>2, <2>6 DEF Elect, Depose, Write
  <2>7. CASE Crash(p)
    BY <2>3, <2>7 DEF Crash, Release
  <2>8. CASE BeginPromote(p) \/ BeginDemote(p) \/ BeginCycle(p) \/ BeginBoot(p)
    BY <2>2, <2>4, <2>8 DEF BeginPromote, BeginDemote, BeginCycle, BeginBoot
  <2>9. CASE Capture(p) \/ PutSegment(p)
    BY <2>2, <2>5, <2>9 DEF Capture, PutSegment
  <2>10. CASE PublishHead(p) \/ PublishPut(p) \/ CleanList(p) \/ FollowHead(p) \/ FollowList(p)
    BY <1>1, <1>2, <2>10 DEF PublishHead, PublishPut, CleanList, FollowHead, FollowList, Op
  <2>11. CASE PublishLost(p) \/ ShipEnds(p) \/ ShipFails(p)
    BY <2>3, <2>11 DEF PublishLost, ShipEnds, ShipFails, EndShip
  <2>12. CASE CleanDelete(p) \/ FollowApply(p)
    BY <1>1, <1>2, <2>12 DEF CleanDelete, FollowApply, Op
  <2>13. CASE FollowGet(p) \/ Recheck(p)
    BY <2>5, <2>13 DEF FollowGet, Recheck
  <2>14. CASE FollowNothing(p) \/ FollowEnds(p) \/ Swap(p) \/ FollowFails(p)
    BY <2>3, <2>14 DEF FollowNothing, FollowEnds, Swap, FollowFails
  <2> QED BY <1>3, <2>6, <2>7, <2>8, <2>9, <2>10, <2>11, <2>12, <2>13, <2>14
             DEF PodStep, ShipStep, FollowStep
<1> QED BY <1>2, <1>3 DEF Next, vars

\* Where an ETag identifies an upload and a cleanup does not outlast the base
\* it was made for, a pod that is promoted or boots serves everything the
\* bucket held when it looked (follow_generation and its re-check of the base),
\* for every number of pods that ship, rotate, stall or crash meanwhile.
THEOREM TakesOverWhatWasThere ==
    ASSUME ~ContentETags, ~CleanupMayLag
    PROVE  Spec => TakesOverEverything
<1> DEFINE Whole == \A p \in Pods : TookOver(p) => op[p].floor \subseteq db'[p]
<1>1. TypeOK /\ AllRoles /\ FollowInv /\ TypeOK' /\ [Next]_vars => FollowInv'
  BY FollowInvStep
<1>2. TypeOK /\ FollowInv /\ NotLooked /\ [Next]_vars => [Whole]_vars
  <2> SUFFICES ASSUME TypeOK, FollowInv, NotLooked, NEW q \in Pods, PodStep(q), NEW p \in Pods,
                      TookOver(p)
               PROVE  op[p].floor \subseteq db'[p]
    BY DEF Next
  <2>1. p = q
    BY StepIsLocal DEF Elsewhere, TookOver
  <2>2. CASE Swap(p)
    <3>1. db'[p] = replica[p].data
      BY <2>2 DEF Swap, TakenOver, TypeOK
    <3> QED BY <2>2, <3>1 DEF FollowInv, Follows, Floor, Swap
  <2>3. CASE FollowNothing(p)
    BY <2>3 DEF FollowNothing, NotLooked
  <2>4. CASE Crash(p)
    BY <2>4 DEF Crash, TypeOK, TookOver
  <2>5. CASE ~Swap(p) /\ ~FollowNothing(p) /\ ~Crash(p)
    <3>1. up' = up /\ \A r \in Pods : isLeader'[r] => isLeader[r]
      BY <2>1, <2>5 DEF PodStep, Elect, Depose, Write, BeginPromote, BeginDemote, BeginCycle,
           BeginBoot, ShipStep, Capture, PutSegment, PublishHead, PublishPut, PublishLost,
           EndShip, CleanList, CleanDelete, ShipEnds, ShipFails, FollowStep, FollowHead,
           FollowGet, FollowList, FollowApply, FollowEnds, Recheck, FollowFails, TypeOK
    <3> QED BY <3>1 DEF TookOver
  <2> QED BY <2>2, <2>3, <2>4, <2>5
<1>3. Init => NotLooked
  BY DEF Init, NotLooked, NoOp
<1> QED BY <1>1, <1>2, <1>3, NotLookedStep, FollowInit, TypeCorrect, RolesAlways, PTL
           DEF Spec, TakesOverEverything

-----------------------------------------------------------------------------
(* What a restore gives.                                                    *)

\* The segments that continue the base without a hole.
Run == {x \in segs : /\ x.gen = base.gen
                     /\ \A n \in 0 .. x.seq : \E y \in segs : y.gen = base.gen /\ y.seq = n}

\* A restore gives the base and its run of segments.
LEMMA RestoredIs ==
    /\ Restored = base.content \cup UNION {x.data : x \in Run}
    /\ Restored' = base'.content \cup UNION {x.data : x \in Run'}
BY DEF Restored, Run

\* Nothing is lost as long as the base and its segments stay.
LEMMA RestoredGrows ==
    ASSUME base' = base, \A x \in segs : x.gen = base.gen => x \in segs'
    PROVE  Restored \subseteq Restored'
<1>1. \A x \in Run : x \in Run'
  BY DEF Run
<1> QED BY <1>1, RestoredIs

\* A segment that comes after the others of its generation adds its own
\* writes and reconnects nothing.
LEMMA RestoredAdds ==
    ASSUME TypeOK, NEW e \in Segment, base' = base, segs' = segs \cup {e},
           \A x \in segs : x.gen = e.gen => x.seq < e.seq
    PROVE  /\ Restored' \subseteq Restored \cup e.data
           /\ e.gen # base.gen => Restored' = Restored
<1>1. e.seq \in Nat /\ \A x \in segs : x.seq \in Nat
  BY DEF TypeOK, Segment
<1>2. ASSUME NEW x \in Run', x # e PROVE x \in Run
  <2>1. x \in segs /\ x.gen = base.gen
    BY <1>2 DEF Run
  <2>2. ASSUME NEW n \in 0 .. x.seq PROVE \E y \in segs : y.gen = base.gen /\ y.seq = n
    <3>1. PICK y \in segs' : y.gen = base.gen /\ y.seq = n
      BY <1>2, <2>2 DEF Run
    <3>2. CASE y = e
      BY <1>1, <2>1, <3>1, <3>2
    <3> QED BY <3>1, <3>2
  <2> QED BY <2>1, <2>2 DEF Run
<1>3. Restored' \subseteq Restored \cup e.data
  BY <1>2, RestoredIs
<1>4. ASSUME e.gen # base.gen PROVE Restored' = Restored
  <2>1. e \notin Run'
    BY <1>4 DEF Run
  <2>2. Restored' \subseteq Restored
    BY <1>2, <2>1, RestoredIs
  <2>3. Restored \subseteq Restored'
    BY RestoredGrows
  <2> QED BY <2>2, <2>3
<1> QED BY <1>3, <1>4

\* Deletions of other generations change nothing.
LEMMA RestoredSpared ==
    ASSUME base' = base, segs' \subseteq segs, \A x \in segs \ segs' : x.gen # base.gen
    PROVE  Restored' = Restored
<1>1. Restored \subseteq Restored'
  BY RestoredGrows
<1>2. \A x \in Run' : x \in Run
  BY DEF Run
<1> QED BY <1>1, <1>2, RestoredIs

\* The base is not replaced, or it is by a publication.
LEMMA BucketSteps ==
    ASSUME ~CleanupMayLag, TypeOK, FollowInv, NEW p \in Pods, PodStep(p),
           ~PublishPut(p), ~PublishLost(p)
    PROVE  base' = base /\ Restored \subseteq Restored'
<1> USE DEF bucket, election, counters
<1>1. CASE PutSegment(p)
  <2>1. base' = base /\ segs \subseteq segs'
    BY <1>1 DEF PutSegment
  <2> QED BY <2>1, RestoredGrows
<1>2. CASE CleanDelete(p)
  <2>1. base' = base /\ segs' \subseteq segs /\ \A x \in segs \ segs' : x.gen # base.gen
    <3>1. UNCHANGED base
      BY <1>2 DEF CleanDelete
    <3> QED BY <1>2, <3>1, CleanupSpares DEF FollowInv, Follows
  <2> QED BY <2>1, RestoredSpared
<1>3. CASE ~PutSegment(p) /\ ~CleanDelete(p)
  <2>1. UNCHANGED <<base, segs>>
    BY <1>3 DEF PodStep, Elect, Depose, Write, Crash, BeginPromote, BeginDemote, BeginCycle,
         BeginBoot, ShipStep, Capture, PublishHead, CleanList,
         ShipEnds, ShipFails, FollowStep, FollowNothing, FollowHead, FollowGet, FollowList,
         FollowApply, FollowEnds, Recheck, Swap, FollowFails
  <2> QED BY <2>1, RestoredGrows
<1> QED BY <1>1, <1>2, <1>3

\* A cleanup that is over before another base is published "drops what the
\* previous generation left" and nothing else: while the base stays, no step
\* of any pod takes anything from what a restore gives
\* (delete_generations_except in objstore/metasync/walship.rs).
THEOREM CleanupInTimeSpares ==
    ASSUME ~ContentETags, ~CleanupMayLag
    PROVE  Spec => CleanupSparesTheCurrent
<1>1. TypeOK /\ AllRoles /\ FollowInv /\ TypeOK' /\ [Next]_vars => FollowInv'
  BY FollowInvStep
<1>2. TypeOK /\ FollowInv /\ [Next]_vars => [base' = base => Restored \subseteq Restored']_bucket
  <2> SUFFICES ASSUME TypeOK, FollowInv, NEW p \in Pods, PodStep(p), base' = base
               PROVE  Restored \subseteq Restored'
    BY DEF Next, vars, bucket
  <2>1. CASE PublishPut(p) \/ PublishLost(p)
    <3>1. base'.version = base.version + 1
      BY <2>1 DEF PublishPut, PublishLost, NewBase
    <3> QED BY <3>1, VersionTypes
  <2> QED BY <2>1, BucketSteps
<1> QED BY <1>1, <1>2, FollowInit, TypeCorrect, RolesAlways, PTL DEF Spec, CleanupSparesTheCurrent

-----------------------------------------------------------------------------
(* Durability across handovers.                                             *)

\* A pod that leads, is about to, or has not finished standing down.
Active(p) ==
    \/ holds[p] \/ isLeader[p] \/ requests[p] # <<>>
    \/ op[p].kind \in {"cycle", "demote", "promote"}

\* Elected after the others stood down, a pod leads alone.
OneActive == orderly => \A p, q \in Pods : Active(p) /\ Active(q) => p = q

\* A generation's base and segments, uploaded or not, are of the database.
Taken(p) ==
    /\ ship[p].captured \subseteq db[p]
    /\ ship[p].content \subseteq ship[p].captured
    /\ \A y \in Spool(p) : y.data \subseteq ship[p].captured
    /\ \A x \in segs : x.gen = ship[p].gen => x.data \subseteq ship[p].captured
    /\ base.gen = ship[p].gen /\ base.gen # 0 => base.content = ship[p].content

\* A leader has everything a restore gives, and so has the base it is about
\* to publish, with what it uploads to the generation before until then.
Carried(p) ==
    orderly /\ isLeader[p] =>
        /\ Restored \subseteq db[p]
        /\ ship[p].base = "local" /\ base.gen # ship[p].gen =>
              /\ Restored \subseteq ship[p].content
              /\ \A y \in Spool(p) : y.gen # ship[p].gen => y.data \subseteq ship[p].content

\* What a restore gives does not grow while a pod takes over.
Seen(p) ==
    orderly /\ op[p].kind = "promote" /\ op[p].at \in {"get", "list", "apply", "swap"} =>
        Restored \subseteq op[p].floor

DurInv == OneActive /\ \A p \in Pods : Taken(p) /\ Carried(p) /\ Seen(p)

\* Only an election makes a pod active.
LEMMA ActiveKept ==
    ASSUME TypeOK, AllRoles, OneActive, NEW p \in Pods, PodStep(p)
    PROVE  OneActive' /\ (orderly' => orderly)
<1> USE DEF bucket, election, counters
<1>1. Elsewhere(p)
  BY StepIsLocal
<1>2. \A q \in Pods \ {p} : Active(q)' <=> Active(q)
  BY <1>1 DEF Elsewhere, Active
<1>3. CASE Elect(p)
  <2>1. orderly' => orderly /\ OthersStoodDown(p)
    BY <1>3 DEF Elect
  <2>2. OthersStoodDown(p) => \A q \in Pods \ {p} : ~Active(q)
    BY DEF OthersStoodDown, Active
  <2> QED BY <1>2, <2>1, <2>2 DEF OneActive
<1>4. ASSUME ~Elect(p) PROVE orderly' = orderly /\ (Active(p)' => Active(p))
  <2>1. /\ op \in [Pods -> Op] /\ op[p] \in Op /\ requests \in [Pods -> Seq(Request)]
        /\ holds \in [Pods -> BOOLEAN] /\ isLeader \in [Pods -> BOOLEAN]
    BY DEF TypeOK
  <2>2. /\ NoOp.kind = "none"
        /\ \A k \in Kinds, a \in Steps : Begin(p, k, a) => op'[p].kind = k
        /\ \A a \in Steps : GoTo(p, a) => op'[p].kind = op[p].kind
        /\ Release(p) => op'[p].kind = "none"
    <3>1. NoOp.kind = "none" /\ \A k \in Kinds, a \in Steps : Begin(p, k, a) => op'[p].kind = k
      BY <2>1 DEF NoOp, Begin
    <3>2. \A a \in Steps : GoTo(p, a) => op'[p].kind = op[p].kind
      BY <2>1 DEF GoTo, Op
    <3>3. Release(p) => op'[p].kind = "none"
      BY <2>1, <3>1 DEF Release
    <3> QED BY <3>1, <3>2, <3>3
  <2>3. CASE Depose(p) \/ Write(p)
    BY <2>3 DEF Depose, Write, Active
  <2>4. CASE Crash(p)
    <3>1. /\ holds'[p] = FALSE /\ isLeader'[p] = FALSE /\ requests'[p] = <<>> /\ op'[p] = NoOp
          /\ orderly' = orderly
      BY <2>1, <2>4 DEF Crash
    <3> QED BY <2>2, <3>1 DEF Active
  <2>5. CASE BeginPromote(p) \/ BeginDemote(p)
    BY <2>5 DEF BeginPromote, BeginDemote, Active
  <2>6. CASE BeginCycle(p) \/ BeginBoot(p)
    <3>1. \/ op'[p].kind \in {"standby", "boot"} \/ op' = op
          \/ isLeader[p]
      BY <2>2, <2>6 DEF BeginCycle, BeginBoot, Kinds, Steps
    <3>2. UNCHANGED <<holds, isLeader, requests, orderly>>
      BY <2>6 DEF BeginCycle, BeginBoot
    <3> QED BY <3>1, <3>2 DEF Active
  <2>7. CASE ShipStep(p)
    <3>1. Active(p)
      <4>1. op[p].kind \in {"cycle", "demote"}
        BY <2>7 DEF ShipStep, Capture, PutSegment, PublishHead, PublishPut, PublishLost, CleanList,
             CleanDelete, ShipEnds, Done, ShipFails, AllRoles, Roles, Shipping
      <4> QED BY <4>1 DEF Active
    <3>2. orderly' = orderly
      BY <2>7 DEF ShipStep, Capture, PutSegment, PublishHead, PublishPut, PublishLost, CleanList,
           CleanDelete, ShipEnds, ShipFails
    <3> QED BY <3>1, <3>2
  <2>8. CASE FollowNothing(p) \/ Swap(p)
    <3>1. UNCHANGED <<holds, requests, orderly>> /\ op'[p].kind = "none"
      BY <2>2, <2>8 DEF FollowNothing, Swap
    <3>2. op[p].kind = "promote" \/ isLeader'[p] = isLeader[p]
      BY <2>1, <2>8 DEF FollowNothing, Swap
    <3> QED BY <3>1, <3>2 DEF Active
  <2>9. CASE \/ FollowHead(p) \/ FollowGet(p) \/ FollowList(p) \/ FollowApply(p) \/ FollowEnds(p)
             \/ Recheck(p) \/ FollowFails(p)
    <3>1. UNCHANGED <<holds, requests, orderly, isLeader>>
      BY <2>9 DEF FollowHead, FollowGet, FollowList, FollowApply, FollowEnds, Recheck, FollowFails
    <3>2. op'[p].kind = op[p].kind \/ op'[p].kind = "none"
      BY <2>1, <2>2, <2>9 DEF FollowHead, FollowGet, FollowList, FollowApply, FollowEnds, Recheck,
           FollowFails, Op, Steps
    <3> QED BY <3>1, <3>2 DEF Active
  <2> QED BY <1>4, <2>3, <2>4, <2>5, <2>6, <2>7, <2>8, <2>9 DEF PodStep, FollowStep
<1>5. CASE ~Elect(p)
  BY <1>2, <1>4, <1>5 DEF OneActive
<1> QED BY <1>3, <1>4, <1>5 DEF Elect

\* Whoever changes the bucket leads, and where pods were elected in order
\* nobody else does.
LEMMA WriterIsAlone ==
    ASSUME AllRoles, OneActive, NEW p \in Pods, op[p].at \in Shipping
    PROVE  /\ isLeader[p]
           /\ orderly => \A q \in Pods \ {p} : ~isLeader[q] /\ op[q].kind # "promote"
BY DEF AllRoles, Roles, OneActive, Active

\* A pod that goes on with its generation.
LEMMA TakenSame ==
    ASSUME NEW q \in Pods, Taken(q), ship'[q] = ship[q], db[q] \subseteq db'[q],
           \A x \in segs' \ segs : x.gen # ship[q].gen,
           base' = base \/ base'.gen # ship[q].gen \/ base'.gen = 0
    PROVE  Taken(q)'
BY DEF Taken, Spool

\* A pod that has forgotten its generation.
LEMMA TakenReset ==
    ASSUME NEW q \in Pods, ship'[q] = NoShip, Names'
    PROVE  Taken(q)'
<1>1. /\ NoShip.captured = {} /\ NoShip.content = {} /\ NoShip.pending = <<>> /\ NoShip.gen = 0
  BY DEF NoShip
<1>2. Spool(q)' = {}
  BY <1>1 DEF Spool, Named
<1>3. \A x \in segs' : x.gen # 0
  BY DEF Names, Known
<1> QED BY <1>1, <1>2, <1>3 DEF Taken

\* A step that neither captures, uploads nor publishes leaves a generation
\* and the bucket alone, or forgets the generation.
LEMMA ShipKept ==
    ASSUME TypeOK, NEW p \in Pods, PodStep(p), ~Capture(p), ~PutSegment(p), ~PublishPut(p)
    PROVE  /\ ship'[p] = ship[p] \/ ship'[p] = NoShip
           /\ segs' \subseteq segs
           /\ base' = base \/ PublishLost(p)
<1> USE DEF bucket, election, counters
<1>1. ship \in [Pods -> Ship]
  BY DEF TypeOK
<1>2. CASE Elect(p) \/ Depose(p) \/ Write(p) \/ Crash(p)
  BY <1>1, <1>2 DEF Elect, Depose, Write, Crash
<1>3. CASE BeginPromote(p) \/ BeginDemote(p) \/ BeginCycle(p) \/ BeginBoot(p)
  BY <1>1, <1>3 DEF BeginPromote, BeginDemote, BeginCycle, BeginBoot
<1>4. CASE PublishLost(p) \/ ShipEnds(p) \/ ShipFails(p)
  BY <1>1, <1>4 DEF PublishLost, ShipEnds, ShipFails, EndShip
<1>5. CASE PublishHead(p) \/ CleanList(p) \/ CleanDelete(p)
  BY <1>5 DEF PublishHead, CleanList, CleanDelete
<1>6. CASE FollowStep(p)
  BY <1>1, <1>6 DEF FollowStep, FollowNothing, FollowHead, FollowGet, FollowList, FollowApply,
       FollowEnds, Recheck, Swap, FollowFails
<1> QED BY <1>2, <1>3, <1>4, <1>5, <1>6 DEF PodStep, ShipStep

\* A pod that keeps its generation keeps its database.
LEMMA DatabaseKept ==
    ASSUME TypeOK, NEW p \in Pods, PodStep(p)
    PROVE  db[p] \subseteq db'[p] \/ Crash(p) \/ Swap(p)
<1> USE DEF bucket, election, counters
<1>1. CASE Write(p)
  BY <1>1 DEF Write, TypeOK
<1>2. CASE ~Write(p) /\ ~Crash(p) /\ ~Swap(p)
  <2>1. db' = db
    BY <1>2 DEF PodStep, Elect, Depose, BeginPromote, BeginDemote, BeginCycle, BeginBoot,
         ShipStep, Capture, PutSegment, PublishHead, PublishPut, PublishLost, CleanList,
         CleanDelete, ShipEnds, ShipFails, FollowStep, FollowNothing, FollowHead, FollowGet,
         FollowList, FollowApply, FollowEnds, Recheck, FollowFails
  <2> QED BY <2>1
<1> QED BY <1>1, <1>2

\* Generations stay parts of the databases they are captured from.
LEMMA TakenKept ==
    ASSUME TypeOK, TypeOK', AllRoles, FollowInv, FollowInv', \A q \in Pods : Taken(q),
           NEW p \in Pods, PodStep(p)
    PROVE  \A q \in Pods : Taken(q)'
<1> USE DEF bucket, election, counters
<1>1. Elsewhere(p)
  BY StepIsLocal
<1>2. /\ ship \in [Pods -> Ship] /\ ship[p] \in Ship /\ op[p] \in Op
      /\ \A q \in Pods : ship[q].gen \in Nat
      /\ Names /\ Names'
  BY NumberTypes DEF TypeOK, FollowInv
<1>3. CASE Capture(p)
  <2>1. UNCHANGED <<base, segs, db>> /\ db[p] \subseteq db'[p]
    BY <1>3 DEF Capture
  <2>2. \A q \in Pods \ {p} : Taken(q)'
    BY <1>1, <2>1, TakenSame DEF Elsewhere
  <2>3. CASE /\ generations' = generations + 1
             /\ ship' = [ship EXCEPT ![p] =
                   [ship[p] EXCEPT !.gen = generations + 1, !.base = "local",
                                   !.content = db[p], !.captured = db[p], !.nextSeq = 0]]
    <3>1. /\ ship'[p].gen = generations + 1 /\ ship'[p].content = db[p]
          /\ ship'[p].captured = db[p] /\ ship'[p].pending = ship[p].pending
      BY <1>2, <2>3 DEF Ship
    <3>2. base.gen # generations + 1 /\ \A x \in segs : x.gen # generations + 1
      BY <1>2, NumberTypes DEF Names, Known
    <3>3. Taken(p)'
      BY <2>1, <3>1, <3>2 DEF Taken, Spool
    <3> QED BY <2>2, <3>3
  <2>4. CASE ship' = ship
    BY <2>1, <2>4, TakenSame
  <2>5. CASE ship' = [ship EXCEPT ![p] =
                [ship[p] EXCEPT !.captured = db[p], !.nextSeq = @ + 1,
                   !.pending = Append(@, [gen |-> ship[p].gen, seq |-> ship[p].nextSeq,
                                          data |-> db[p] \ ship[p].captured])]]
    <3> DEFINE e == [gen |-> ship[p].gen, seq |-> ship[p].nextSeq,
                     data |-> db[p] \ ship[p].captured]
    <3>1. e \in Segment /\ e.data \subseteq db[p]
      <4>1. db[p] \ ship[p].captured \in Data
        BY DEF TypeOK, Data
      <4> QED BY <1>2, <4>1 DEF Segment, Ship
    <3>2. /\ ship'[p].gen = ship[p].gen /\ ship'[p].content = ship[p].content
          /\ ship'[p].captured = db[p] /\ ship'[p].pending = Append(ship[p].pending, e)
      BY <1>2, <2>5 DEF Ship
    <3> HIDE DEF e
    <3>3. Spool(p)' = Spool(p) \cup {e}
      BY <3>1, <3>2, NumberTypes, SpoolFacts DEF Spool
    <3>4. Taken(p)'
      BY <2>1, <3>1, <3>2, <3>3 DEF Taken
    <3> QED BY <2>2, <3>4
  <2>6. [ship EXCEPT ![p] = ship[p]] = ship
    BY <1>2
  <2> QED BY <1>3, <2>3, <2>4, <2>5, <2>6 DEF Capture
<1>4. CASE PutSegment(p)
  <2>1. /\ UNCHANGED <<base, db>> /\ ship[p].pending # <<>>
        /\ segs' = segs \cup {Head(ship[p].pending)}
        /\ ship'[p] = [ship[p] EXCEPT !.pending = Tail(@)]
    BY <1>2, <1>4 DEF PutSegment
  <2>2. /\ ship'[p].gen = ship[p].gen /\ ship'[p].content = ship[p].content
        /\ ship'[p].captured = ship[p].captured /\ ship'[p].pending = Tail(ship[p].pending)
    BY <1>2, <2>1 DEF Ship
  <2> DEFINE e == Head(ship[p].pending)
  <2>3. e \in Spool(p) /\ Spool(p)' \subseteq Spool(p)
    BY <2>1, <2>2, NumberTypes, SpoolFacts DEF Spool
  <2>4. Taken(p)'
    BY <2>1, <2>2, <2>3 DEF Taken
  <2>5. ASSUME NEW q \in Pods \ {p} PROVE Taken(q)'
    <3>1. e.gen \in Nat \ {0}
      BY <2>3, NumberTypes, <1>2 DEF Names, Known
    <3>2. e.gen # ship[q].gen
      BY <1>2, <2>3, <2>5, <3>1 DEF Names, Owned, Writes
    <3> QED BY <1>1, <2>1, <2>5, <3>2, TakenSame DEF Elsewhere
  <2> QED BY <2>4, <2>5
<1>5. ASSUME NEW q \in Pods \ {p}, PublishPut(p) \/ PublishLost(p)
      PROVE  base'.gen # ship[q].gen \/ base'.gen = 0
  <2>1. base'.gen = ship[p].gen
    BY <1>5 DEF PublishPut, PublishLost, NewBase
  <2> QED BY <1>2, <1>5, <2>1 DEF Names, Owned, Writes
<1>6. CASE PublishPut(p)
  <2>1. /\ UNCHANGED <<segs, db>> /\ base' = NewBase(p)
        /\ ship'[p] = [ship[p] EXCEPT !.base = "published"]
    BY <1>2, <1>6 DEF PublishPut
  <2>2. /\ ship'[p].gen = ship[p].gen /\ ship'[p].content = ship[p].content
        /\ ship'[p].captured = ship[p].captured /\ ship'[p].pending = ship[p].pending
    BY <1>2, <2>1 DEF Ship
  <2>3. base'.content = ship[p].content
    BY <2>1 DEF NewBase
  <2>4. Taken(p)'
    BY <2>1, <2>2, <2>3 DEF Taken, Spool
  <2>5. \A q \in Pods \ {p} : Taken(q)'
    BY <1>1, <1>5, <1>6, <2>1, TakenSame DEF Elsewhere
  <2> QED BY <2>4, <2>5
<1>7. CASE ~Capture(p) /\ ~PutSegment(p) /\ ~PublishPut(p)
  <2>1. /\ ship'[p] = ship[p] \/ ship'[p] = NoShip
        /\ segs' \subseteq segs
        /\ base' = base \/ PublishLost(p)
    BY <1>7, ShipKept
  <2>2. \A q \in Pods \ {p} : Taken(q)'
    BY <1>1, <1>5, <2>1, TakenSame DEF Elsewhere
  <2>3. CASE ship'[p] = NoShip
    BY <1>2, <2>2, <2>3, TakenReset
  <2>4. CASE ship'[p] # NoShip
    <3>1. ship'[p] = ship[p] /\ ship[p] # NoShip
      BY <2>1, <2>4
    <3>2. ~Crash(p) /\ ~Swap(p)
      <4>1. ~Crash(p)
        BY <1>2, <2>4 DEF Crash
      <4>2. CASE Swap(p)
        <5>1. op[p].kind = "boot"
          BY <1>2, <2>4, <4>2 DEF Swap
        <5> QED BY <3>1, <5>1 DEF AllRoles, Roles
      <4> QED BY <4>1, <4>2
    <3>3. db[p] \subseteq db'[p]
      BY <3>2, DatabaseKept
    <3>4. CASE PublishLost(p)
      <4>1. /\ UNCHANGED segs /\ base'.content = ship[p].content
        BY <3>4 DEF PublishLost, NewBase
      <4>2. Taken(p)'
        BY <3>1, <3>3, <4>1 DEF Taken, Spool
      <4> QED BY <2>2, <4>2
    <3>5. CASE base' = base
      BY <2>1, <2>2, <3>1, <3>3, <3>5, TakenSame
    <3> QED BY <2>1, <3>4, <3>5
  <2> QED BY <2>3, <2>4
<1> QED BY <1>3, <1>4, <1>6, <1>7

\* The steps that write to the bucket are of a leader that ships.
LEMMA BucketWriter ==
    ASSUME NEW p \in Pods, PodStep(p)
    PROVE  UNCHANGED <<base, segs>> \/ op[p].at \in Shipping
<1> USE DEF bucket, election, counters
<1>1. CASE PutSegment(p) \/ PublishPut(p) \/ PublishLost(p) \/ CleanDelete(p)
  BY <1>1 DEF PutSegment, PublishPut, PublishLost, CleanDelete, Shipping
<1>2. CASE ~PutSegment(p) /\ ~PublishPut(p) /\ ~PublishLost(p) /\ ~CleanDelete(p)
  BY <1>2 DEF PodStep, Elect, Depose, Write, Crash, BeginPromote, BeginDemote, BeginCycle,
       BeginBoot, ShipStep, Capture, PublishHead, CleanList,
       ShipEnds, ShipFails, FollowStep, FollowNothing, FollowHead, FollowGet, FollowList,
       FollowApply, FollowEnds, Recheck, Swap, FollowFails
<1> QED BY <1>1, <1>2

\* A new base has everything the old one and its segments gave, and no more
\* than its pod's database.
LEMMA PublishCarries ==
    ASSUME AllRoles, DurInv, NEW p \in Pods, orderly, op[p].at = "put", base' = NewBase(p),
           segs' = segs
    PROVE  Restored \subseteq Restored' /\ Restored' \subseteq db[p]
<1>1. /\ base'.gen = ship[p].gen /\ base'.content = ship[p].content
  BY DEF NewBase
<1>2. ship[p].base = "local" /\ ship[p].gen # 0 /\ isLeader[p]
  <2>1. ship[p].base = "local" /\ isLeader[p]
    BY DEF AllRoles, Roles, Shipping
  <2>2. ship[p] # NoShip
    BY <2>1 DEF NoShip
  <2> QED BY <2>1, <2>2 DEF AllRoles, Roles
<1>3. Taken(p) /\ Carried(p)
  BY DEF DurInv
<1>4. Restored' \subseteq db[p]
  <2>1. \A x \in Run' : x.data \subseteq ship[p].captured
    BY <1>1, <1>3 DEF Run, Taken
  <2>2. base'.content \subseteq db[p] /\ ship[p].captured \subseteq db[p]
    BY <1>1, <1>3 DEF Taken
  <2> QED BY <2>1, <2>2, RestoredIs
<1>5. CASE base.gen = ship[p].gen
  <2>1. base'.gen = base.gen /\ base'.content = base.content
    BY <1>1, <1>2, <1>3, <1>5 DEF Taken
  <2>2. Run' = Run
    BY <2>1 DEF Run
  <2> QED BY <1>4, <2>1, <2>2, RestoredIs
<1>6. CASE base.gen # ship[p].gen
  <2>1. Restored \subseteq base'.content
    BY <1>1, <1>2, <1>3, <1>6 DEF Carried
  <2> QED BY <1>4, <2>1, RestoredIs
<1> QED BY <1>5, <1>6

\* A leader's database never lacks what the bucket gives.
LEMMA CarriedKept ==
    ASSUME ~CleanupMayLag, TypeOK, TypeOK', AllRoles, FollowInv, FollowInv', DurInv,
           NEW p \in Pods, PodStep(p), orderly' => orderly
    PROVE  Carried(p)'
<1> USE DEF bucket, election, counters
<1> SUFFICES ASSUME orderly, orderly', isLeader'[p]
             PROVE  /\ Restored' \subseteq db'[p]
                    /\ ship'[p].base = "local" /\ base'.gen # ship'[p].gen =>
                         /\ Restored' \subseteq ship'[p].content
                         /\ \A y \in Spool(p)' : y.gen # ship'[p].gen => y.data \subseteq ship'[p].content
  BY DEF Carried
<1>1. /\ ship \in [Pods -> Ship] /\ ship[p] \in Ship /\ op \in [Pods -> Op] /\ op[p] \in Op
      /\ isLeader \in [Pods -> BOOLEAN] /\ db \in [Pods -> Data]
      /\ Taken(p) /\ Carried(p) /\ Seen(p) /\ Names /\ Roles(p)
  BY DEF TypeOK, FollowInv, DurInv, AllRoles
<1>2. UNCHANGED <<base, segs>> => Restored' = Restored
  BY RestoredSpared
<1>3. NoShip.base = "none"
  BY DEF NoShip
<1>4. CASE Capture(p)
  <2>1. /\ UNCHANGED <<base, segs, db, isLeader>> /\ Restored' = Restored
        /\ Restored \subseteq db[p]
    <3>1. UNCHANGED <<base, segs, db, isLeader>>
      BY <1>4 DEF Capture
    <3> QED BY <1>1, <1>2, <1>3, <3>1 DEF Carried
  <2>2. CASE /\ ship' = [ship EXCEPT ![p] =
                   [ship[p] EXCEPT !.gen = generations + 1, !.base = "local",
                                   !.content = db[p], !.captured = db[p], !.nextSeq = 0]]
    <3>1. ship'[p].content = db[p] /\ ship'[p].pending = ship[p].pending
      BY <1>1, <2>2 DEF Ship
    <3>2. \A y \in Spool(p)' : y.data \subseteq db[p]
      BY <1>1, <3>1 DEF Taken, Spool
    <3> QED BY <2>1, <3>1, <3>2
  <2>3. CASE ship' = ship
    BY <1>1, <2>1, <2>3 DEF Carried, Spool
  <2>4. CASE ship' = [ship EXCEPT ![p] =
                [ship[p] EXCEPT !.captured = db[p], !.nextSeq = @ + 1,
                   !.pending = Append(@, [gen |-> ship[p].gen, seq |-> ship[p].nextSeq,
                                          data |-> db[p] \ ship[p].captured])]]
    <3> DEFINE e == [gen |-> ship[p].gen, seq |-> ship[p].nextSeq,
                     data |-> db[p] \ ship[p].captured]
    <3>1. e \in Segment /\ e.gen = ship[p].gen
      <4>1. db[p] \ ship[p].captured \in Data
        BY DEF TypeOK, Data
      <4> QED BY <1>1, <4>1 DEF Segment, Ship
    <3>2. /\ ship'[p].gen = ship[p].gen /\ ship'[p].content = ship[p].content
          /\ ship'[p].base = ship[p].base /\ ship'[p].pending = Append(ship[p].pending, e)
      BY <1>1, <2>4 DEF Ship
    <3> HIDE DEF e
    <3>3. Spool(p)' = Spool(p) \cup {e}
      BY <3>1, <3>2, NumberTypes, SpoolFacts DEF Spool
    <3> QED BY <1>1, <2>1, <3>1, <3>2, <3>3 DEF Carried
  <2>5. [ship EXCEPT ![p] = ship[p]] = ship
    BY <1>1
  <2> QED BY <1>4, <2>2, <2>3, <2>4, <2>5 DEF Capture
<1>5. CASE PutSegment(p)
  <2>1. /\ UNCHANGED <<base, db, isLeader, replica, generations>> /\ ship[p].pending # <<>>
        /\ segs' = segs \cup {Head(ship[p].pending)}
        /\ ship'[p] = [ship[p] EXCEPT !.pending = Tail(@)]
        /\ \A q \in Pods \ {p} : ship'[q] = ship[q]
    BY <1>1, <1>5 DEF PutSegment
  <2>2. /\ ship'[p].gen = ship[p].gen /\ ship'[p].content = ship[p].content
        /\ ship'[p].base = ship[p].base /\ ship'[p].pending = Tail(ship[p].pending)
        /\ ship'[p].nextSeq = ship[p].nextSeq
    BY <1>1, <2>1 DEF Ship
  <2> DEFINE e == Head(ship[p].pending)
  <2>3. e \in Spool(p) /\ Spool(p)' \subseteq Spool(p)
    BY <2>1, <2>2, NumberTypes, SpoolFacts DEF Spool
  <2>4. e \in Segment /\ \A x \in segs : x.gen = e.gen => x.seq < e.seq
    BY <1>1, <2>1, <2>2, NamesPut
  <2>5. Restored' \subseteq Restored \cup e.data /\ (e.gen # base.gen => Restored' = Restored)
    BY <2>1, <2>4, RestoredAdds
  <2>6. e.data \subseteq db[p]
    BY <1>1, <2>3 DEF Taken
  <2>7. isLeader[p] /\ Restored \subseteq db[p]
    BY <1>1, <2>1 DEF Carried
  <2>8. ASSUME ship[p].base = "local", base.gen # ship[p].gen
        PROVE  Restored' \subseteq ship[p].content
    <3>1. /\ Restored \subseteq ship[p].content
          /\ e.gen # ship[p].gen => e.data \subseteq ship[p].content
      BY <1>1, <2>3, <2>7, <2>8 DEF Carried
    <3> QED BY <2>5, <2>8, <3>1
  <2>9. ship[p].base = "local" /\ base.gen # ship[p].gen =>
          \A y \in Spool(p)' : y.gen # ship[p].gen => y.data \subseteq ship[p].content
    BY <1>1, <2>3, <2>7 DEF Carried
  <2> QED BY <2>1, <2>2, <2>5, <2>6, <2>7, <2>8, <2>9
<1>6. CASE PublishPut(p) \/ PublishLost(p)
  <2>1. op[p].at = "put" /\ base' = NewBase(p) /\ UNCHANGED <<segs, db>>
    BY <1>6 DEF PublishPut, PublishLost
  <2>2. Restored' \subseteq db'[p]
    BY <2>1, PublishCarries
  <2>3. ship'[p].base # "local" \/ base'.gen = ship'[p].gen
    <3>1. CASE PublishPut(p)
      BY <1>1, <3>1 DEF PublishPut, Ship
    <3>2. CASE PublishLost(p)
      BY <1>1, <1>3, <3>2 DEF PublishLost, EndShip, NewBase
    <3> QED BY <1>6, <3>1, <3>2
  <2> QED BY <2>2, <2>3
<1>7. CASE CleanDelete(p)
  <2>1. /\ UNCHANGED <<base, db, ship, isLeader>> /\ segs' \subseteq segs
        /\ \A x \in segs \ segs' : x.gen # base.gen
    <3>1. UNCHANGED <<base, db, ship, isLeader>>
      BY <1>7 DEF CleanDelete
    <3> QED BY <1>7, <3>1, CleanupSpares DEF FollowInv, Follows
  <2>2. Restored' = Restored
    BY <2>1, RestoredSpared
  <2> QED BY <1>1, <2>1, <2>2 DEF Carried, Spool
<1>8. CASE Swap(p)
  <2>1. UNCHANGED <<base, segs>> /\ db'[p] = replica[p].data /\ op[p].at = "swap"
    BY <1>1, <1>8 DEF Swap, TakenOver
  <2>2. op[p].kind = "promote" /\ ship'[p] = NoShip
    <3>1. CASE op[p].kind = "boot"
      <4>1. isLeader' = isLeader
        BY <1>8, <3>1 DEF Swap
      <4> QED BY <1>1, <3>1, <4>1 DEF Roles
    <3> QED BY <1>1, <1>8, <3>1 DEF Swap
  <2>3. Restored \subseteq replica[p].data
    <3>1. op[p].floor \subseteq replica[p].data
      BY <2>1 DEF FollowInv, Follows, Floor
    <3> QED BY <1>1, <2>1, <2>2, <3>1 DEF Seen
  <2> QED BY <1>2, <1>3, <2>1, <2>2, <2>3
<1>9. CASE FollowNothing(p)
  <2>1. UNCHANGED <<base, segs, db, ship>> /\ base.version = 0
    BY <1>9 DEF FollowNothing
  <2>2. Restored' = {}
    <3>1. base.content = {} /\ base.gen = 0
      BY <2>1 DEF FollowInv, NothingFirst, NoObject
    <3>2. Run = {}
      BY <1>1, <3>1 DEF Run, Names, Known
    <3> QED BY <1>2, <1>3, <2>1, <3>1, <3>2, RestoredIs
  <2>3. CASE isLeader[p]
    BY <1>1, <2>1, <2>2, <2>3 DEF Carried, Spool
  <2>4. CASE ~isLeader[p]
    BY <1>1, <1>3, <2>1, <2>2, <2>4 DEF Roles
  <2> QED BY <2>3, <2>4
<1>10. CASE /\ ~Capture(p) /\ ~PutSegment(p) /\ ~PublishPut(p) /\ ~PublishLost(p)
            /\ ~CleanDelete(p) /\ ~Swap(p) /\ ~FollowNothing(p)
  <2>1. ~Crash(p)
    BY <1>1 DEF Crash
  <2>2. db[p] \subseteq db'[p]
    BY <1>10, <2>1, DatabaseKept
  <2>3. UNCHANGED <<base, segs>> /\ isLeader[p]
    BY <1>1, <1>10, <2>1 DEF PodStep, Elect, Depose, Write, BeginPromote, BeginDemote, BeginCycle,
         BeginBoot, ShipStep, PublishHead, CleanList, ShipEnds, ShipFails, EndShip,
         FollowStep, FollowHead, FollowGet, FollowList, FollowApply, FollowEnds, Recheck, FollowFails
  <2>4. ship'[p] = ship[p] \/ ship'[p] = NoShip
    BY <1>10, ShipKept
  <2> QED BY <1>1, <1>2, <1>3, <2>2, <2>3, <2>4 DEF Carried, Spool
<1> QED BY <1>4, <1>5, <1>6, <1>7, <1>8, <1>9, <1>10

\* A pod that takes over misses nothing that is written meanwhile.
LEMMA SeenKept ==
    ASSUME TypeOK, AllRoles, DurInv, NEW p \in Pods, PodStep(p), orderly' => orderly
    PROVE  Seen(p)'
<1> USE DEF bucket, election, counters
<1> SUFFICES ASSUME orderly, orderly', op'[p].kind = "promote",
                    op'[p].at \in {"get", "list", "apply", "swap"}
             PROVE  Restored' \subseteq op'[p].floor
  BY DEF Seen
<1>1. op \in [Pods -> Op] /\ op[p] \in Op /\ Seen(p) /\ Roles(p)
  BY DEF TypeOK, DurInv, AllRoles
<1>2. NoOp.kind = "none"
  BY DEF NoOp
<1>3. op[p].at \notin Shipping
  <2> SUFFICES ASSUME op[p].at \in Shipping PROVE op'[p].kind # "promote"
    OBVIOUS
  <2>1. op[p].kind \in {"cycle", "demote"}
    BY <1>1 DEF Roles
  <2>2. op'[p].kind = op[p].kind \/ op'[p] = NoOp
    <3>1. CASE ShipStep(p)
      BY <1>1, <3>1 DEF ShipStep, Capture, PutSegment, PublishHead, PublishPut, PublishLost,
           CleanList, CleanDelete, ShipEnds, ShipFails, EndShip, Release, GoTo, Op
    <3>2. CASE FollowStep(p)
      BY <1>1, <3>2 DEF FollowStep, FollowNothing, FollowHead, FollowGet, FollowList, FollowApply,
           FollowEnds, Recheck, Swap, FollowFails, Release, GoTo, Op
    <3>3. CASE Elect(p) \/ Depose(p) \/ Write(p) \/ Crash(p)
      BY <1>1, <3>3 DEF Elect, Depose, Write, Crash
    <3>4. CASE BeginPromote(p) \/ BeginDemote(p) \/ BeginCycle(p) \/ BeginBoot(p)
      BY <2>1, <3>4 DEF BeginPromote, BeginDemote, BeginCycle, BeginBoot, Free
    <3> QED BY <3>1, <3>2, <3>3, <3>4 DEF PodStep
  <2> QED BY <1>2, <2>1, <2>2
<1>4. UNCHANGED <<base, segs>> /\ Restored' = Restored
  <2>1. UNCHANGED <<base, segs>>
    BY <1>3, BucketWriter
  <2> QED BY <2>1, RestoredSpared
<1>5. CASE FollowHead(p)
  <2>1. op'[p].kind = op[p].kind /\ op'[p].floor = (IF Verify(p) THEN Restored ELSE {})
    BY <1>1, <1>5 DEF FollowHead, Op
  <2> QED BY <1>4, <2>1 DEF Verify
<1>6. CASE FollowGet(p) \/ FollowList(p) \/ FollowApply(p) \/ Recheck(p)
  <2>1. op'[p].kind = op[p].kind /\ op'[p].floor = op[p].floor
    BY <1>1, <1>6 DEF FollowGet, FollowList, FollowApply, Recheck, GoTo, Op
  <2>2. op[p].at \in {"get", "list", "apply"}
    BY <1>6 DEF FollowGet, FollowList, FollowApply, Recheck
  <2> QED BY <1>1, <1>4, <2>1, <2>2 DEF Seen
<1>7. CASE op' = op
  BY <1>1, <1>4, <1>7 DEF Seen
<1>8. CASE Elect(p) \/ Depose(p) \/ Write(p)
  BY <1>7, <1>8 DEF Elect, Depose, Write
<1>9. CASE BeginPromote(p) \/ BeginDemote(p) \/ BeginCycle(p) \/ BeginBoot(p)
  <2>1. op' = op \/ Begin(p, "promote", "head") \/ Begin(p, "demote", "capture")
        \/ Begin(p, "cycle", "capture") \/ Begin(p, "standby", "head") \/ Begin(p, "boot", "head")
    BY <1>9 DEF BeginPromote, BeginDemote, BeginCycle, BeginBoot
  <2>2. op' # op => op'[p].at \in {"head", "capture"}
    BY <1>1, <2>1 DEF Begin, NoOp
  <2> QED BY <1>7, <2>2
<1>10. CASE \/ Crash(p) \/ FollowNothing(p) \/ FollowEnds(p) \/ Swap(p) \/ FollowFails(p)
  <2>1. op'[p] = NoOp
    BY <1>1, <1>10 DEF Crash, FollowNothing, FollowEnds, Swap, FollowFails, Release
  <2> QED BY <1>2, <2>1
<1>11. CASE ShipStep(p)
  <2>1. CASE ShipFails(p) \/ ShipEnds(p)
    <3>1. op'[p] = NoOp
      BY <1>1, <2>1 DEF ShipFails, ShipEnds, EndShip, Release
    <3> QED BY <1>2, <3>1
  <2>2. CASE ~ShipFails(p) /\ ~ShipEnds(p)
    BY <1>3, <1>11, <2>2 DEF ShipStep, Capture, PutSegment, PublishHead, PublishPut, PublishLost,
         CleanList, CleanDelete, Shipping
  <2> QED BY <2>1, <2>2
<1> QED BY <1>5, <1>6, <1>8, <1>9, <1>10, <1>11 DEF PodStep, FollowStep

\* Every step keeps the durability invariant.
LEMMA DurStep ==
    ASSUME ~CleanupMayLag, TypeOK, TypeOK', AllRoles, FollowInv, FollowInv', DurInv,
           NEW p \in Pods, PodStep(p)
    PROVE  DurInv'
<1>1. OneActive' /\ (orderly' => orderly)
  BY ActiveKept DEF DurInv
<1>2. \A q \in Pods : Taken(q)'
  BY TakenKept DEF DurInv
<1>3. Carried(p)' /\ Seen(p)'
  BY <1>1, CarriedKept, SeenKept
<1>4. Elsewhere(p)
  BY StepIsLocal
<1>5. ASSUME NEW q \in Pods \ {p} PROVE Carried(q)' /\ Seen(q)'
  <2>1. Carried(q) /\ Seen(q)
    BY DEF DurInv
  <2>2. /\ op'[q] = op[q] /\ ship'[q] = ship[q] /\ db'[q] = db[q] /\ isLeader'[q] = isLeader[q]
    BY <1>4 DEF Elsewhere
  <2>3. CASE UNCHANGED <<base, segs>>
    <3>1. Restored' = Restored
      BY <2>3, RestoredSpared
    <3> QED BY <1>1, <2>1, <2>2, <2>3, <3>1 DEF Carried, Seen, Spool
  <2>4. CASE op[p].at \in Shipping
    <3>1. orderly => ~isLeader[q] /\ op[q].kind # "promote"
      BY <2>4, WriterIsAlone DEF DurInv
    <3> QED BY <1>1, <2>2, <3>1 DEF Carried, Seen
  <2> QED BY <2>3, <2>4, BucketWriter
<1> QED BY <1>1, <1>2, <1>3, <1>5 DEF DurInv

\* As long as pods were elected after the others stood down, what a restore
\* from the bucket gives never shrinks, across crashes at any point, handovers,
\* rotations, publications whose response is lost and cleanups: every new base
\* carries what the bucket held (ship, promote and demote in
\* objstore/metasync.rs), for every number of pods, writes and generations,
\* where an ETag identifies an upload and no cleanup outlasts its base.
THEOREM DurableIsKept ==
    ASSUME ~ContentETags, ~CleanupMayLag
    PROVE  Spec => DurableStaysDurable
<1>1. Init => DurInv
  <2> SUFFICES ASSUME Init PROVE DurInv
    OBVIOUS
  <2>1. FollowInv
    BY FollowInit
  <2>2. \A p \in Pods : /\ ship[p] = NoShip /\ op[p] = NoOp /\ holds[p] = FALSE
                        /\ isLeader[p] = FALSE /\ requests[p] = <<>>
    BY DEF Init
  <2>3. NoOp.kind = "none" /\ NoOp.at = "idle"
    BY DEF NoOp
  <2>4. OneActive
    BY <2>2, <2>3 DEF OneActive, Active
  <2>5. ASSUME NEW p \in Pods PROVE Taken(p)
    <3>1. NoShip.captured = {} /\ NoShip.content = {} /\ NoShip.pending = <<>> /\ NoShip.gen = 0
      BY DEF NoShip
    <3>2. Spool(p) = {} /\ segs = {} /\ base.gen = 0
      BY <2>2, <3>1 DEF Spool, Named, Init, NoObject
    <3> QED BY <2>2, <3>1, <3>2 DEF Taken
  <2>6. \A p \in Pods : Carried(p) /\ Seen(p)
    BY <2>2, <2>3 DEF Carried, Seen
  <2> QED BY <2>4, <2>5, <2>6 DEF DurInv
<1>2. TypeOK /\ AllRoles /\ FollowInv /\ TypeOK' /\ [Next]_vars => FollowInv'
  BY FollowInvStep
<1>3. TypeOK /\ TypeOK' /\ AllRoles /\ FollowInv /\ FollowInv' /\ DurInv /\ [Next]_vars => DurInv'
  <2>1. ASSUME DurInv, UNCHANGED vars PROVE DurInv'
    BY <2>1 DEF vars, bucket, election, counters, DurInv, OneActive, Active, Taken, Carried, Seen,
         Spool, Restored
  <2> QED BY <2>1, DurStep DEF Next
<1>4. TypeOK /\ AllRoles /\ FollowInv /\ DurInv /\ [Next]_vars
        => [orderly => Restored \subseteq Restored']_bucket
  <2> SUFFICES ASSUME TypeOK, AllRoles, FollowInv, DurInv, NEW p \in Pods, PodStep(p), orderly
               PROVE  Restored \subseteq Restored'
    BY DEF Next, vars, bucket
  <2>1. CASE PublishPut(p) \/ PublishLost(p)
    <3>1. op[p].at = "put" /\ base' = NewBase(p) /\ segs' = segs
      BY <2>1 DEF PublishPut, PublishLost
    <3> QED BY <3>1, PublishCarries
  <2> QED BY <2>1, BucketSteps
<1> QED BY <1>1, <1>2, <1>3, <1>4, FollowInit, TypeCorrect, RolesAlways, PTL
       DEF Spec, DurableStaysDurable

=============================================================================
