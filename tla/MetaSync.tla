------------------------------ MODULE MetaSync ------------------------------
(***************************************************************************)
(* The metadata database of forklift's s3 backend, shared by the pods      *)
(* through a bucket (objstore/metasync.rs, with the reading side of        *)
(* objstore/metasync/walship.rs), in WAL mode.                             *)
(*                                                                         *)
(* Every request to the bucket is a step, and so is what a pod does        *)
(* between two of them.  One operation at a time holds a pod's sync_mu: a  *)
(* cycle (leader or standby), a promotion, a demotion or the boot restore. *)
(* How a leader reads its WAL is WalShipping; here a capture takes every   *)
(* write there is.  A database is the set of the writes it holds.          *)
(***************************************************************************)
EXTENDS Integers, FiniteSets, Sequences

CONSTANTS
    Pods,
    Handover,        \* when a pod may be elected: "orderly", every other pod has
                     \* stood down; "released", none holds the Lease; "stalled",
                     \* at any time
    TokenMayFail,    \* whether reading the fencing token may fail
    CleanupMayLag,   \* whether a cleanup may outlast the base it was made for
    ContentETags,    \* whether equal bytes have equal ETags
    Polling,         \* whether the interval of standbys ever elapses
    MaxTerms,        \* bound on the terms, for model checking
    MaxCrashes,      \* bound on the crashes, for model checking
    MaxWrites,       \* bound on the writes, for model checking
    MaxGenerations   \* bound past which none is replaced, for model checking

ASSUME ModesAssumption ==
    /\ Handover \in {"orderly", "released", "stalled"}
    /\ TokenMayFail \in BOOLEAN
    /\ CleanupMayLag \in BOOLEAN
    /\ ContentETags \in BOOLEAN
    /\ Polling \in BOOLEAN
    /\ MaxTerms \in Nat /\ MaxCrashes \in Nat
    /\ MaxWrites \in Nat /\ MaxGenerations \in Nat

VARIABLES
    base,        \* the object at the snapshot key; version 0 when there is none
    segs,        \* the segment objects
    holds,       \* whether a pod has a term of the election
    terms,       \* terms so far: the next fencing token
    orderly,     \* whether every pod was elected after the others stood down
    up,          \* whether a pod has restored its database and serves
    db,          \* its database
    isLeader,    \* MetaSync.is_leader
    fence,       \* MetaSync.fence
    ship,        \* SyncState.ship
    replica,     \* SyncState.replica; gen 0 is None
    requests,    \* promote and demote calls waiting for sync_mu
    op,          \* what holds sync_mu
    generations, \* generations so far, the ids are unique
    writes,      \* writes so far
    crashes      \* crashes so far

bucket == <<base, segs>>
election == <<holds, terms, orderly>>
counters == <<generations, writes, crashes>>
vars == <<bucket, election, up, db, isLeader, fence, ship, replica, requests, op,
          counters>>

Data == SUBSET (1 .. MaxWrites)
Object == [version : Nat, fence : Nat, gen : Nat, content : Data]
NoObject == [version |-> 0, fence |-> 0, gen |-> 0, content |-> {}]
Segment == [gen : Nat, seq : Nat, data : Data]

Ship == [gen : Nat, base : {"none", "local", "published"}, content : Data,
         captured : Data, nextSeq : Nat, pending : Seq(Segment)]
Replica == [gen : Nat, head : Object, next : Nat, data : Data]
Request == [call : {"promote", "demote"}, fence : Nat]

NoShip == [gen |-> 0, base |-> "none", content |-> {}, captured |-> {},
           nextSeq |-> 0, pending |-> <<>>]
NoReplica == [gen |-> 0, head |-> NoObject, next |-> 0, data |-> {}]

Kinds == {"none", "cycle", "demote", "promote", "standby", "boot"}
Steps == {"idle", "capture", "upload", "put", "clean", "delete",
          "head", "get", "list", "apply", "recheck", "swap"}
Op == [kind : Kinds, at : Steps, head : Object, list : SUBSET Segment, floor : Data]
NoOp == [kind |-> "none", at |-> "idle", head |-> NoObject, list |-> {},
         floor |-> {}]

\* Whether two ETags are equal.
SameETag(a, b) == IF ContentETags THEN a.content = b.content ELSE a.version = b.version

\* What a restore from the bucket gives: the base and the segments that
\* continue it without a hole.
Restored ==
    LET own == {x \in segs : x.gen = base.gen}
        run == {x \in own : \A n \in 0 .. x.seq : \E y \in own : y.seq = n}
    IN  base.content \cup UNION {x.data : x \in run}

Init ==
    /\ base = NoObject /\ segs = {}
    /\ holds = [p \in Pods |-> FALSE] /\ terms = 0 /\ orderly = TRUE
    /\ up = [p \in Pods |-> FALSE]
    /\ db = [p \in Pods |-> {}]
    /\ isLeader = [p \in Pods |-> FALSE]
    /\ fence = [p \in Pods |-> 0]
    /\ ship = [p \in Pods |-> NoShip]
    /\ replica = [p \in Pods |-> NoReplica]
    /\ requests = [p \in Pods |-> <<>>]
    /\ op = [p \in Pods |-> NoOp]
    /\ generations = 0 /\ writes = 0 /\ crashes = 0

-----------------------------------------------------------------------------
(* The election and the pods.                                              *)

\* Every other pod has given up its term and has nothing left to upload.
OthersStoodDown(p) ==
    \A q \in Pods \ {p} :
        /\ ~holds[q] /\ ~isLeader[q] /\ requests[q] = <<>>
        /\ op[q].kind \in {"none", "standby", "boot"}

MayElect(p) ==
    \/ Handover = "stalled"
    \/ Handover = "released" /\ \A q \in Pods : ~holds[q]
    \/ Handover = "orderly" /\ OthersStoodDown(p)

\* start_leading reads its token and asks for the promotion.
Elect(p) ==
    /\ up[p] /\ ~holds[p] /\ MayElect(p)
    /\ terms < MaxTerms
    /\ holds' = [holds EXCEPT ![p] = TRUE]
    /\ terms' = terms + 1
    /\ orderly' = (orderly /\ OthersStoodDown(p))
    /\ \E token \in {terms} \cup (IF TokenMayFail THEN {0} ELSE {}) :
          requests' = [requests EXCEPT ![p] = Append(@, [call |-> "promote", fence |-> token])]
    /\ UNCHANGED <<bucket, up, db, isLeader, fence, ship, replica, op, counters>>

\* The term ends: stop_leading asks for the demotion.
Depose(p) ==
    /\ holds[p]
    /\ holds' = [holds EXCEPT ![p] = FALSE]
    /\ requests' = [requests EXCEPT ![p] = Append(@, [call |-> "demote", fence |-> 0])]
    /\ UNCHANGED <<bucket, terms, orderly, up, db, isLeader, fence, ship, replica, op, counters>>

\* A request of a client is committed.
Write(p) ==
    /\ up[p] /\ isLeader[p]
    /\ writes < MaxWrites
    /\ writes' = writes + 1
    /\ db' = [db EXCEPT ![p] = @ \cup {writes + 1}]
    /\ UNCHANGED <<bucket, election, up, isLeader, fence, ship, replica, requests, op,
                   generations, crashes>>

\* The process dies, and its volume with it.
Crash(p) ==
    /\ up[p]
    /\ crashes < MaxCrashes
    /\ crashes' = crashes + 1
    /\ up' = [up EXCEPT ![p] = FALSE]
    /\ holds' = [holds EXCEPT ![p] = FALSE]
    /\ db' = [db EXCEPT ![p] = {}]
    /\ isLeader' = [isLeader EXCEPT ![p] = FALSE]
    /\ fence' = [fence EXCEPT ![p] = 0]
    /\ ship' = [ship EXCEPT ![p] = NoShip]
    /\ replica' = [replica EXCEPT ![p] = NoReplica]
    /\ requests' = [requests EXCEPT ![p] = <<>>]
    /\ op' = [op EXCEPT ![p] = NoOp]
    /\ UNCHANGED <<bucket, terms, orderly, generations, writes>>

-----------------------------------------------------------------------------
(* Who takes sync_mu.                                                      *)

Free(p) == op[p].kind = "none"

Begin(p, kind, at) == op' = [op EXCEPT ![p] = [NoOp EXCEPT !.kind = kind, !.at = at]]

GoTo(p, step) == op' = [op EXCEPT ![p].at = step]

Release(p) == op' = [op EXCEPT ![p] = NoOp]

\* The fence of a term is stored under the lock, so that a cycle of the term
\* before ends under its own.
BeginPromote(p) ==
    /\ up[p] /\ Free(p)
    /\ requests[p] # <<>> /\ Head(requests[p]).call = "promote"
    /\ requests' = [requests EXCEPT ![p] = Tail(@)]
    /\ fence' = [fence EXCEPT ![p] = Head(requests[p]).fence]
    /\ Begin(p, "promote", "head")
    /\ UNCHANGED <<bucket, election, up, db, isLeader, ship, replica, counters>>

BeginDemote(p) ==
    /\ up[p] /\ Free(p)
    /\ requests[p] # <<>> /\ Head(requests[p]).call = "demote"
    /\ requests' = [requests EXCEPT ![p] = Tail(@)]
    /\ \/ isLeader[p] /\ Begin(p, "demote", "capture") /\ UNCHANGED ship
       \/ ~isLeader[p] /\ UNCHANGED op /\ ship' = [ship EXCEPT ![p] = NoShip]
    /\ UNCHANGED <<bucket, election, up, db, isLeader, fence, replica, counters>>

\* A tick of the sync loop, or final_sync.
BeginCycle(p) ==
    /\ up[p] /\ Free(p)
    /\ \/ isLeader[p] /\ Begin(p, "cycle", "capture")
       \/ ~isLeader[p] /\ Polling /\ Begin(p, "standby", "head")
       \/ ~isLeader[p] /\ ~Polling /\ UNCHANGED op
    /\ UNCHANGED <<bucket, election, up, db, isLeader, fence, ship, replica, requests,
                   counters>>

\* restore_on_boot, again and again until it succeeds.
BeginBoot(p) ==
    /\ ~up[p] /\ Free(p)
    /\ Begin(p, "boot", "head")
    /\ UNCHANGED <<bucket, election, up, db, isLeader, fence, ship, replica, requests,
                   counters>>

-----------------------------------------------------------------------------
(* ship: a leader's cycle and the final flush of a demotion.               *)

\* The operation ends; a demotion gives leadership up, whatever came of it.
EndShip(p) ==
    /\ Release(p)
    /\ \/ op[p].kind = "cycle" /\ UNCHANGED <<isLeader, ship>>
       \/ /\ op[p].kind = "demote"
          /\ isLeader' = [isLeader EXCEPT ![p] = FALSE]
          /\ ship' = [ship EXCEPT ![p] = NoShip]

\* A term's first generation, or one that replaces an abandoned or full one.
StartsGeneration(p) ==
    \/ ship[p].gen = 0
    \/ /\ op[p].kind = "cycle" /\ ship[p].base = "published"
       /\ generations < MaxGenerations

\* Everything written is taken: as a base or as the next segment.
Capture(p) ==
    /\ op[p].at = "capture"
    /\ LET s == ship[p]
           new == db[p] \ s.captured
       IN  \/ /\ StartsGeneration(p)
              /\ generations' = generations + 1
              /\ ship' = [ship EXCEPT ![p] =
                    [s EXCEPT !.gen = generations + 1, !.base = "local",
                              !.content = db[p], !.captured = db[p], !.nextSeq = 0]]
           \/ /\ s.gen # 0
              /\ ship' = [ship EXCEPT ![p] =
                    IF new = {} THEN s
                    ELSE [s EXCEPT !.captured = db[p], !.nextSeq = @ + 1,
                                   !.pending = Append(@, [gen |-> s.gen, seq |-> s.nextSeq,
                                                          data |-> new])]]
              /\ UNCHANGED generations
    /\ GoTo(p, "upload")
    /\ UNCHANGED <<bucket, election, up, db, isLeader, fence, replica, requests, writes, crashes>>

\* PUT with If-None-Match; nobody else has the generation's name.
PutSegment(p) ==
    /\ op[p].at = "upload" /\ ship[p].pending # <<>>
    /\ segs' = segs \cup {Head(ship[p].pending)}
    /\ ship' = [ship EXCEPT ![p].pending = Tail(@)]
    /\ UNCHANGED <<base, election, up, db, isLeader, fence, replica, requests, op, counters>>

\* Mutant of Fenced: a base of the same term is not replaced either.
FencedByEqual(p) == base.version # 0 /\ base.fence >= fence[p]

\* put_fenced: a newer term's base is not replaced.
Fenced(p) == base.version # 0 /\ base.fence > fence[p]

PublishHead(p) ==
    /\ op[p].at = "upload" /\ ship[p].pending = <<>>
    /\ ship[p].base = "local"
    /\ ~Fenced(p)
    /\ op' = [op EXCEPT ![p].at = "put", ![p].head = base]
    /\ UNCHANGED <<bucket, election, up, db, isLeader, fence, ship, replica, requests,
                   counters>>

\* Mutant of NewBase: it is tagged with the term before.
NewBaseLate(p) ==
    [version |-> base.version + 1, fence |-> fence[p] - 1, gen |-> ship[p].gen,
     content |-> ship[p].content]

\* The base this pod would publish.
NewBase(p) ==
    [version |-> base.version + 1, fence |-> fence[p], gen |-> ship[p].gen,
     content |-> ship[p].content]

\* Mutant of Precondition: an unconditional PUT.
NoPrecondition(p) == TRUE

\* If-Match on the ETag that HEAD returned, If-None-Match when there was none.
Precondition(p) ==
    IF base.version = 0 \/ op[p].head.version = 0
      THEN base.version = op[p].head.version
      ELSE SameETag(base, op[p].head)

PublishPut(p) ==
    /\ op[p].at = "put" /\ Precondition(p)
    /\ base' = NewBase(p)
    /\ ship' = [ship EXCEPT ![p].base = "published"]
    /\ op' = [op EXCEPT ![p].at = "clean", ![p].head = NoObject]
    /\ UNCHANGED <<segs, election, up, db, isLeader, fence, replica, requests, counters>>

\* It lands and the response is lost; once per base, to bound the versions.
PublishLost(p) ==
    /\ op[p].at = "put" /\ Precondition(p)
    /\ base.gen # ship[p].gen
    /\ base' = NewBase(p)
    /\ EndShip(p)
    /\ UNCHANGED <<segs, election, up, db, fence, replica, requests, counters>>

CleanupInTime(p) == CleanupMayLag \/ base.gen = ship[p].gen

\* delete_generations_except lists, then deletes one object after the other.
CleanList(p) ==
    /\ op[p].at = "clean" /\ CleanupInTime(p)
    /\ op' = [op EXCEPT ![p].at = "delete", ![p].list = {x \in segs : x.gen # ship[p].gen}]
    /\ UNCHANGED <<bucket, election, up, db, isLeader, fence, ship, replica, requests,
                   counters>>

CleanDelete(p) ==
    /\ op[p].at = "delete" /\ CleanupInTime(p)
    /\ \E x \in op[p].list :
          /\ segs' = segs \ {x}
          /\ op' = [op EXCEPT ![p].list = @ \ {x}]
    /\ UNCHANGED <<base, election, up, db, isLeader, fence, ship, replica, requests, counters>>

\* There is no base to publish, or another pod's was found, by its fence or by
\* its ETag, or the cleanup is over.
Done(p) ==
    \/ /\ op[p].at = "upload" /\ ship[p].pending = <<>>
       /\ ship[p].base = "local" => Fenced(p)
    \/ op[p].at = "put" /\ ~Precondition(p)
    \/ op[p].at \in {"clean", "delete"} /\ ~CleanupInTime(p)
    \/ op[p].at = "delete" /\ op[p].list = {}

ShipEnds(p) ==
    /\ Done(p)
    /\ EndShip(p)
    /\ UNCHANGED <<bucket, election, up, db, fence, replica, requests, counters>>

\* A request fails, on its way there.
ShipFails(p) ==
    /\ op[p].kind \in {"cycle", "demote"} /\ ~Done(p)
    /\ EndShip(p)
    /\ UNCHANGED <<bucket, election, up, db, fence, replica, requests, counters>>

ShipStep(p) ==
    \/ Capture(p) \/ PutSegment(p)
    \/ PublishHead(p) \/ PublishPut(p) \/ PublishLost(p)
    \/ CleanList(p) \/ CleanDelete(p)
    \/ ShipEnds(p) \/ ShipFails(p)

-----------------------------------------------------------------------------
(* follow_generation: a standby's cycle, a promotion and the boot restore. *)

Verify(p) == op[p].kind \in {"promote", "boot"}

\* The bucket is empty: local data is all there is.
FollowNothing(p) ==
    /\ op[p].at = "head" /\ base.version = 0
    /\ isLeader' = [isLeader EXCEPT ![p] = @ \/ op[p].kind = "promote"]
    /\ up' = [up EXCEPT ![p] = TRUE]
    /\ replica' = [replica EXCEPT ![p] = IF op[p].kind = "standby" THEN NoReplica ELSE @]
    /\ Release(p)
    /\ UNCHANGED <<bucket, election, db, fence, ship, requests, counters>>

\* The copy at hand is of the current base.
Reusable(p) == replica[p].gen = base.gen /\ SameETag(replica[p].head, base)

FollowHead(p) ==
    /\ op[p].at = "head" /\ base.version # 0
    /\ op' = [op EXCEPT ![p].at = IF Reusable(p) THEN "list" ELSE "get",
                        ![p].head = base, ![p].floor = IF Verify(p) THEN Restored ELSE {}]
    /\ UNCHANGED <<bucket, election, up, db, isLeader, fence, ship, replica, requests,
                   counters>>

\* download: the object must be the one HEAD described.
FollowGet(p) ==
    /\ op[p].at = "get" /\ SameETag(base, op[p].head)
    /\ replica' = [replica EXCEPT ![p] = [gen |-> op[p].head.gen, head |-> op[p].head,
                                          next |-> 0, data |-> base.content]]
    /\ GoTo(p, "list")
    /\ UNCHANGED <<bucket, election, up, db, isLeader, fence, ship, requests, counters>>

FollowList(p) ==
    /\ op[p].at = "list"
    /\ op' = [op EXCEPT ![p].at = "apply",
                        ![p].list = {x \in segs : /\ x.gen = replica[p].gen
                                                  /\ x.seq >= replica[p].next}]
    /\ UNCHANGED <<bucket, election, up, db, isLeader, fence, ship, replica, requests,
                   counters>>

\* GET of the next segment listed, if it is still there.
FollowApply(p) ==
    /\ op[p].at = "apply"
    /\ \E x \in op[p].list :
          /\ x.seq = replica[p].next
          /\ x \in segs
          /\ replica' = [replica EXCEPT ![p].next = @ + 1, ![p].data = @ \cup x.data]
          /\ op' = [op EXCEPT ![p].list = @ \ {x}]
    /\ UNCHANGED <<bucket, election, up, db, isLeader, fence, ship, requests, counters>>

\* A standby is done for now, at the end of the list or at a gap.
FollowEnds(p) ==
    /\ op[p].at = "apply" /\ ~Verify(p)
    /\ \A x \in op[p].list : x.seq # replica[p].next
    /\ Release(p)
    /\ UNCHANGED <<bucket, election, up, db, isLeader, fence, ship, replica, requests,
                   counters>>

\* Mutant of Recheck: the base is not looked at again.
NoRecheck(p) ==
    /\ op[p].at = "apply" /\ op[p].list = {} /\ Verify(p)
    /\ GoTo(p, "swap")
    /\ UNCHANGED <<bucket, election, up, db, isLeader, fence, ship, replica, requests,
                   counters>>

\* Everything listed is applied and the base is still the one it began with.
Recheck(p) ==
    /\ op[p].at = "apply" /\ op[p].list = {} /\ Verify(p)
    /\ SameETag(base, op[p].head)
    /\ GoTo(p, "swap")
    /\ UNCHANGED <<bucket, election, up, db, isLeader, fence, ship, replica, requests,
                   counters>>

\* Mutant of TakenOver: a pod serves what it has.
LocalData(p) == db[p]

\* The database a pod takes over: never its own.
TakenOver(p) == replica[p].data

\* The copy becomes the database.
Swap(p) ==
    /\ op[p].at = "swap"
    /\ db' = [db EXCEPT ![p] = TakenOver(p)]
    /\ replica' = [replica EXCEPT ![p] = NoReplica]
    /\ \/ /\ op[p].kind = "promote"
          /\ ship' = [ship EXCEPT ![p] = NoShip]
          /\ isLeader' = [isLeader EXCEPT ![p] = TRUE]
          /\ UNCHANGED up
       \/ /\ op[p].kind = "boot"
          /\ up' = [up EXCEPT ![p] = TRUE]
          /\ UNCHANGED <<ship, isLeader>>
    /\ Release(p)
    /\ UNCHANGED <<bucket, election, fence, requests, counters>>

\* A request fails, a segment is missing, or the base was replaced.
FollowFails(p) ==
    /\ op[p].kind \in {"promote", "standby", "boot"}
    /\ replica' = [replica EXCEPT ![p] =
          IF op[p].kind = "promote" \/ op[p].at = "get" THEN NoReplica ELSE @]
    /\ Release(p)
    /\ UNCHANGED <<bucket, election, up, db, isLeader, fence, ship, requests, counters>>

FollowStep(p) ==
    \/ FollowNothing(p) \/ FollowHead(p) \/ FollowGet(p)
    \/ FollowList(p) \/ FollowApply(p) \/ FollowEnds(p)
    \/ Recheck(p) \/ Swap(p)
    \/ FollowFails(p)

-----------------------------------------------------------------------------
PodStep(p) ==
    \/ Elect(p) \/ Depose(p) \/ Write(p) \/ Crash(p)
    \/ BeginPromote(p) \/ BeginDemote(p) \/ BeginCycle(p) \/ BeginBoot(p)
    \/ ShipStep(p) \/ FollowStep(p)

Next == \E p \in Pods : PodStep(p)

Spec == Init /\ [][Next]_vars

\* The loop goes on, sync_mu is handed over in order, and a bucket that fails
\* now and then does answer in the end.
FairSpec ==
    /\ Spec
    /\ \A p \in Pods :
          /\ WF_vars(ShipStep(p) \/ FollowStep(p))
          /\ WF_vars(BeginCycle(p))
          /\ SF_vars(BeginPromote(p) \/ BeginDemote(p))
    /\ <>[][\A p \in Pods : ~ShipFails(p) /\ ~PublishLost(p)]_vars

-----------------------------------------------------------------------------
(* Properties.                                                             *)

TypeOK ==
    /\ base \in Object
    /\ segs \subseteq Segment
    /\ holds \in [Pods -> BOOLEAN] /\ terms \in Nat /\ orderly \in BOOLEAN
    /\ up \in [Pods -> BOOLEAN]
    /\ db \in [Pods -> Data]
    /\ isLeader \in [Pods -> BOOLEAN]
    /\ fence \in [Pods -> Nat]
    /\ ship \in [Pods -> Ship]
    /\ replica \in [Pods -> Replica]
    /\ requests \in [Pods -> Seq(Request)]
    /\ op \in [Pods -> Op]
    /\ generations \in Nat /\ writes \in Nat /\ crashes \in Nat

\* The base never goes back to an earlier term, whoever is stalled between
\* its HEAD and its PUT.
FenceNeverGoesBack == [][base'.fence >= base.fence]_base

\* A promotion or a boot has succeeded: a failed one changes neither flag.
TookOver(p) == (~isLeader[p] /\ isLeader'[p]) \/ (~up[p] /\ up'[p])

\* A pod that takes over, or boots, has everything the bucket held when it
\* looked, however the bucket was written meanwhile and whatever it had itself.
TakesOverEverything ==
    [][\A p \in Pods : TookOver(p) => op[p].floor \subseteq db'[p]]_vars

\* As long as pods were elected after the others stood down, what a restore
\* gives is never less than before: not after a crash, a handover, a rotation
\* or a cleanup.
DurableStaysDurable == [][orderly => Restored \subseteq Restored']_bucket

\* As long as nobody publishes, nothing that the current base needs is
\* deleted: a cleanup "drops what the previous generation left".
CleanupSparesTheCurrent ==
    [][base' = base => Restored \subseteq Restored']_bucket

\* What a leader commits reaches the bucket, unless its term ends first.
LeaderShips ==
    \A p \in Pods : \A w \in 1 .. MaxWrites :
        (isLeader[p] /\ w \in db[p]) ~> (w \in Restored \/ ~isLeader[p] \/ w \notin db[p])

=============================================================================
