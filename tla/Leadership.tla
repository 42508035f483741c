----------------------------- MODULE Leadership -----------------------------
(***************************************************************************)
(* What a forklift pod does when it gains or loses leadership              *)
(* (bin/forklift/leadership.rs, the callbacks in bin/forklift/main.rs,     *)
(* cluster/podlabel.rs).                                                   *)
(*                                                                         *)
(* The election is its contract, Terms.  Its two callbacks only spawn      *)
(* tasks: nothing awaits them, nothing cancels them, and a start_leading   *)
(* may still be on its way when the stop_leading of the same term, or the  *)
(* next term's start_leading, runs.  They meet in the metadata sync's FIFO *)
(* lock and in the pod labels kept by the API server.                      *)
(*                                                                         *)
(* With s3 it is the object-storage topology: a metadata sync to promote   *)
(* and label routing.  Without, it is the shared-volume topology: neither, *)
(* and readiness is what routes traffic.                                   *)
(***************************************************************************)
EXTENDS Integers, Sequences

CONSTANTS
    Pods,
    NoPod,
    Topologies,      \* the values of s3 to consider
    MaxTransitions,  \* bound on leaderTransitions, for model checking
    MaxTurns,        \* bound on the terms of one process, for model checking
    MaxFaults        \* bound on failing requests, for model checking

ASSUME LeadershipAssumption ==
    /\ NoPod \notin Pods
    /\ Topologies \subseteq BOOLEAN
    /\ MaxTransitions \in Nat /\ MaxTurns \in Nat /\ MaxFaults \in Nat

VARIABLES
    s3,           \* metadata sync and label routing, or shared volume
    lease, leading, term,   \* the election: see Terms
    turn,         \* how many terms this process has had; names its tokens
    tasks,        \* the start_leading and stop_leading tasks of a pod
    queue,        \* those waiting for sync_mu, in order of arrival
    leaderState,  \* Leadership.leader_state
    sync,         \* MetaSync: is_leader and fence
    ready,        \* server::Ready
    label,        \* the pod's forklift.io/role label, in the API server
    jobs,         \* the turns whose background jobs have not returned yet
    late,         \* history: what routes traffic to the pod was last set by a
                  \* task whose term was over
    faults        \* requests that have failed so far

election == <<lease, leading, term>>
outside == <<s3, election>>
local == <<leaderState, sync, ready, jobs>>
routing == <<label, late>>
vars == <<outside, turn, tasks, queue, local, routing, faults>>

Election == INSTANCE Terms WITH Pods <- Pods, NoPod <- NoPod,
            lease <- lease, leading <- leading, term <- term

StartSteps == {"spawned", "token", "answer", "promote", "apply", "label",
               "list", "peers", "refuse"}
StopSteps == {"spawned", "demote", "detached", "label"}

Task ==
    [kind : {"start"}, turn : Nat, at : StartSteps, fence : Nat,
     peers : SUBSET Pods]
    \cup
    [kind : {"stop"}, turn : Nat, at : StopSteps, fence : {0}, peers : {{}}]

Spawned(k, n) ==
    [kind |-> k, turn |-> n, at |-> "spawned", fence |-> 0, peers |-> {}]

Init ==
    /\ s3 \in Topologies
    /\ Election!Init
    /\ turn = [p \in Pods |-> 0]
    /\ tasks = [p \in Pods |-> {}]
    /\ queue = [p \in Pods |-> <<>>]
    /\ leaderState = [p \in Pods |-> FALSE]
    /\ sync = [p \in Pods |-> [leader |-> FALSE, fence |-> 0]]
    /\ ready = [p \in Pods |-> s3]
    /\ label = [p \in Pods |-> "standby"]
    /\ jobs = [p \in Pods |-> {}]
    /\ late = [p \in Pods |-> FALSE]
    /\ faults = 0

\* The pods the Service sends traffic to.
Routed(p) == IF s3 THEN label[p] = "leader" ELSE ready[p]

-----------------------------------------------------------------------------
(* The election, the callbacks of main.rs, and the process.                *)

GrantLease(p) ==
    /\ lease.transitions < MaxTransitions \/ lease.holder = p
    /\ Election!Grant(p)
    /\ UNCHANGED <<s3, turn, tasks, queue, local, routing, faults>>

VacateLease ==
    /\ Election!Vacate
    /\ UNCHANGED <<s3, turn, tasks, queue, local, routing, faults>>

\* on_started spawns start_leading.  Between two terms the election backs off
\* for at least retry_period, which a spawned task needs to be first polled.
OnStarted(p) ==
    /\ turn[p] < MaxTurns
    /\ lease.holder = p
    /\ \A t \in tasks[p] : t.at # "spawned"
    /\ Election!Start(p)
    /\ turn' = [turn EXCEPT ![p] = @ + 1]
    /\ tasks' = [tasks EXCEPT ![p] = @ \cup {Spawned("start", turn'[p])}]
    /\ UNCHANGED <<s3, queue, local, routing, faults>>

\* The term's token is cancelled and on_stopped spawns stop_leading.  A job
\* looks at the token between two passes only: see JobsReturn.
OnStopped(p) ==
    /\ Election!Stop(p)
    /\ tasks' = [tasks EXCEPT ![p] = @ \cup {Spawned("stop", turn[p])}]
    /\ UNCHANGED <<s3, turn, queue, local, routing, faults>>

\* The process dies.  A restarted container keeps the labels of its pod, a
\* replaced pod has those of the template.
Crash(p) ==
    /\ leading[p] \/ tasks[p] # {}
    /\ leading' = [leading EXCEPT ![p] = FALSE]
    /\ term' = [term EXCEPT ![p] = 0]
    /\ tasks' = [tasks EXCEPT ![p] = {}]
    /\ queue' = [queue EXCEPT ![p] = <<>>]
    /\ leaderState' = [leaderState EXCEPT ![p] = FALSE]
    /\ sync' = [sync EXCEPT ![p] = [leader |-> FALSE, fence |-> 0]]
    /\ ready' = [ready EXCEPT ![p] = s3]
    /\ jobs' = [jobs EXCEPT ![p] = {}]
    /\ \/ UNCHANGED label /\ late' = [late EXCEPT ![p] = s3 /\ @]
       \/ label' = [label EXCEPT ![p] = "standby"] /\ late' = [late EXCEPT ![p] = FALSE]
    /\ UNCHANGED <<s3, lease, turn, faults>>

-----------------------------------------------------------------------------
(* Steps of a task.                                                        *)

Replace(p, t, successors) ==
    tasks' = [tasks EXCEPT ![p] = (@ \ {t}) \cup successors]

At(t, s) == [t EXCEPT !.at = s]

Fault == faults < MaxFaults /\ faults' = faults + 1

\* The term a task is about has ended, whether or not its pod has noticed.
Over(p, t) ==
    IF t.kind = "start"
      THEN ~(leading[p] /\ t.turn = turn[p] /\ term[p] = lease.transitions)
      ELSE t.turn # turn[p]

\* A strategic-merge patch of q's role label, by a task of p; a failure is
\* logged and otherwise ignored.
SetPodRole(p, t, q, value) ==
    \/ /\ label' = [label EXCEPT ![q] = value]
       /\ late' = [late EXCEPT ![q] = Over(p, t)]
       /\ UNCHANGED faults
    \/ UNCHANGED routing /\ Fault

\* server::Ready, which routes on a shared volume only.
SetReady(p, t, value) ==
    /\ ready' = [ready EXCEPT ![p] = value]
    /\ late' = IF s3 THEN late ELSE [late EXCEPT ![p] = Over(p, t)]

\* sync_mu.lock(): the callers get it in the order they asked for it.
Enqueue(p, t) == queue' = [queue EXCEPT ![p] = Append(@, <<t.kind, t.turn>>)]

\* Mutant of HoldsLock: whoever is polled first gets the lock.
HoldsLockUnfair(p, t) == \E i \in DOMAIN queue[p] : queue[p][i] = <<t.kind, t.turn>>

HoldsLock(p, t) == queue[p] # <<>> /\ Head(queue[p]) = <<t.kind, t.turn>>

Unlock(p) == queue' = [queue EXCEPT ![p] = Tail(@)]

-----------------------------------------------------------------------------
(* start_leading, from one await to the next.                              *)

StartBegin(p, t) ==
    /\ t.kind = "start" /\ t.at = "spawned"
    /\ leaderState' = [leaderState EXCEPT ![p] = TRUE]
    /\ Replace(p, t, {At(t, IF s3 THEN "token" ELSE "apply")})
    /\ UNCHANGED <<outside, turn, queue, sync, ready, jobs, routing, faults>>

\* Elector::fencing_token: the counter the Lease has now, not the one this
\* term was acquired under; 0 when the read fails.
ReadToken(p, t) ==
    /\ t.at = "token"
    /\ \/ /\ Replace(p, t, {[At(t, "answer") EXCEPT !.fence = lease.transitions]})
          /\ UNCHANGED faults
       \/ Replace(p, t, {[At(t, "answer") EXCEPT !.fence = 0]}) /\ Fault
    /\ UNCHANGED <<outside, turn, queue, local, routing>>

\* The answer arrives and sync.promote(fence) asks for the lock.
AskToPromote(p, t) ==
    /\ t.at = "answer"
    /\ Replace(p, t, {At(t, "promote")})
    /\ Enqueue(p, t)
    /\ UNCHANGED <<outside, turn, local, routing, faults>>

\* MetaSync::promote took the current state of the bucket.
Promoted(p, t) ==
    /\ t.at = "promote" /\ HoldsLock(p, t)
    /\ sync' = [sync EXCEPT ![p] = [leader |-> TRUE, fence |-> t.fence]]
    /\ Unlock(p)
    /\ Replace(p, t, {At(t, "apply")})
    /\ UNCHANGED <<outside, turn, leaderState, ready, jobs, routing, faults>>

\* It could not: the process stays what it was, and refuses to lead.
PromoteFails(p, t) ==
    /\ t.at = "promote" /\ HoldsLock(p, t)
    /\ Fault
    /\ sync' = [sync EXCEPT ![p].fence = t.fence]
    /\ Unlock(p)
    /\ Replace(p, t, {At(t, "refuse")})
    /\ UNCHANGED <<outside, turn, leaderState, ready, jobs, routing>>

\* apply_declarative_state on the promoted database.
Applied(p, t) ==
    /\ t.at = "apply"
    /\ SetReady(p, t, TRUE)
    /\ IF s3
         THEN Replace(p, t, {At(t, "label")}) /\ UNCHANGED jobs
         ELSE /\ Replace(p, t, {})
              /\ jobs' = [jobs EXCEPT ![p] =
                    IF leading[p] /\ t.turn = turn[p] THEN @ \cup {t.turn} ELSE @]
    /\ UNCHANGED <<outside, turn, queue, leaderState, sync, label, faults>>

ApplyFails(p, t) ==
    /\ t.at = "apply"
    /\ Fault
    /\ Replace(p, t, {At(t, "refuse")})
    /\ UNCHANGED <<outside, turn, queue, local, routing>>

\* refuse_to_lead.  The Lease is kept and goes on being renewed.
RefuseToLead(p, t) ==
    /\ t.at = "refuse"
    /\ IF s3 THEN SetPodRole(p, t, p, "standby") ELSE UNCHANGED <<routing, faults>>
    /\ leaderState' = [leaderState EXCEPT ![p] = FALSE]
    /\ Replace(p, t, {})
    /\ UNCHANGED <<outside, turn, queue, sync, ready, jobs>>

LabelLeader(p, t) ==
    /\ t.kind = "start" /\ t.at = "label"
    /\ SetPodRole(p, t, p, "leader")
    /\ Replace(p, t, {At(t, "list")})
    /\ UNCHANGED <<outside, turn, queue, local>>

\* Mutant of ListPeers: the new leader does not look for its peers' labels.
ForgetPeers(p, t) ==
    /\ t.at = "list"
    /\ Replace(p, t, {[At(t, "peers") EXCEPT !.peers = {}]})
    /\ UNCHANGED <<outside, turn, queue, local, routing, faults>>

\* demote_peers lists the pods labelled leader ...
ListPeers(p, t) ==
    /\ t.at = "list"
    /\ \/ /\ Replace(p, t, {[At(t, "peers") EXCEPT !.peers =
                {q \in Pods \ {p} : label[q] = "leader"}]})
          /\ UNCHANGED faults
       \/ Replace(p, t, {At(t, "peers")}) /\ Fault
    /\ UNCHANGED <<outside, turn, queue, local, routing>>

\* ... and patches them one by one, whatever has become of them since.
DemotePeer(p, t) ==
    /\ t.at = "peers"
    /\ \E q \in t.peers :
          /\ SetPodRole(p, t, q, "standby")
          /\ Replace(p, t, {[t EXCEPT !.peers = @ \ {q}]})
    /\ UNCHANGED <<outside, turn, queue, local>>

\* spawn_leader_jobs: with a cancelled token they end at once.
SpawnJobs(p, t) ==
    /\ t.at = "peers" /\ t.peers = {}
    /\ jobs' = [jobs EXCEPT ![p] =
          IF leading[p] /\ t.turn = turn[p] THEN @ \cup {t.turn} ELSE @]
    /\ Replace(p, t, {})
    /\ UNCHANGED <<outside, turn, queue, leaderState, sync, ready, routing, faults>>

\* A background job (run_sweeper, run_oci_prune, run_idle_reaper ...) chooses
\* between its token and its next tick and awaits a whole pass in between, so
\* it returns at some time after the token was cancelled, whatever its pod has
\* become meanwhile.
JobsReturn(p) ==
    /\ \E n \in jobs[p] :
          /\ ~(leading[p] /\ n = turn[p])
          /\ jobs' = [jobs EXCEPT ![p] = @ \ {n}]
    /\ UNCHANGED <<outside, turn, tasks, queue, leaderState, sync, ready, routing, faults>>

-----------------------------------------------------------------------------
(* stop_leading.                                                           *)

StopBegin(p, t) ==
    /\ t.kind = "stop" /\ t.at = "spawned"
    /\ leaderState' = [leaderState EXCEPT ![p] = FALSE]
    /\ IF s3
         THEN /\ Enqueue(p, t)
              /\ Replace(p, t, {At(t, "demote")})
              /\ UNCHANGED <<ready, late>>
         ELSE /\ SetReady(p, t, FALSE)
              /\ Replace(p, t, {})
              /\ UNCHANGED queue
    /\ UNCHANGED <<outside, turn, sync, jobs, label, faults>>

\* Mutant of Demoted: a demotion nobody waits for never gives the lock back.
DemotedWhileAwaited(p, t) ==
    /\ t.at \in {"demote", "detached"} /\ HoldsLock(p, t)
    /\ sync' = [sync EXCEPT ![p].leader = FALSE]
    /\ IF t.at = "demote" THEN Unlock(p) ELSE UNCHANGED queue
    /\ Replace(p, t, IF t.at = "demote" THEN {At(t, "label")} ELSE {})
    /\ UNCHANGED <<outside, turn, leaderState, ready, jobs, routing, faults>>

\* MetaSync::demote, which runs to its end whether or not anyone waits.
Demoted(p, t) ==
    /\ t.at \in {"demote", "detached"} /\ HoldsLock(p, t)
    /\ sync' = [sync EXCEPT ![p].leader = FALSE]
    /\ Unlock(p)
    /\ Replace(p, t, IF t.at = "demote" THEN {At(t, "label")} ELSE {})
    /\ UNCHANGED <<outside, turn, leaderState, ready, jobs, routing, faults>>

\* FINAL_SYNC_TIMEOUT.
DemoteTimeout(p, t) ==
    /\ t.at = "demote"
    /\ Replace(p, t, {At(t, "detached"), At(t, "label")})
    /\ UNCHANGED <<outside, turn, queue, local, routing, faults>>

LabelStandby(p, t) ==
    /\ t.kind = "stop" /\ t.at = "label"
    /\ SetPodRole(p, t, p, "standby")
    /\ Replace(p, t, {})
    /\ UNCHANGED <<outside, turn, queue, local>>

-----------------------------------------------------------------------------
TaskStep(p, t) ==
    \/ StartBegin(p, t) \/ ReadToken(p, t) \/ AskToPromote(p, t)
    \/ Promoted(p, t) \/ PromoteFails(p, t)
    \/ Applied(p, t) \/ ApplyFails(p, t) \/ RefuseToLead(p, t)
    \/ LabelLeader(p, t) \/ ListPeers(p, t) \/ DemotePeer(p, t) \/ SpawnJobs(p, t)
    \/ StopBegin(p, t) \/ Demoted(p, t) \/ DemoteTimeout(p, t) \/ LabelStandby(p, t)

Working(p) == \E t \in tasks[p] : TaskStep(p, t)

Next ==
    \/ \E p \in Pods :
          GrantLease(p) \/ OnStarted(p) \/ OnStopped(p) \/ Crash(p) \/ Working(p)
          \/ JobsReturn(p)
    \/ VacateLease

Spec == Init /\ [][Next]_vars

\* The runtime polls every task; a Lease nobody holds is acquired by someone,
\* and a pod that no longer holds it finds out within renew_deadline.
FairSpec ==
    /\ Spec
    /\ \A p \in Pods : WF_vars(Working(p))
    /\ \A p \in Pods : WF_vars(OnStarted(p))
    /\ \A p \in Pods : WF_vars(lease.holder # p /\ OnStopped(p))
    /\ WF_vars(lease.holder = NoPod /\ \E p \in Pods : GrantLease(p))

-----------------------------------------------------------------------------
(* Properties.                                                             *)

TypeOK ==
    /\ lease \in [exists : BOOLEAN, holder : Pods \cup {NoPod}, transitions : Nat]
    /\ leading \in [Pods -> BOOLEAN]
    /\ term \in [Pods -> Nat]
    /\ turn \in [Pods -> Nat] /\ s3 \in BOOLEAN
    /\ tasks \in [Pods -> SUBSET Task]
    /\ queue \in [Pods -> Seq({"start", "stop"} \X Nat)]
    /\ leaderState \in [Pods -> BOOLEAN]
    /\ sync \in [Pods -> [leader : BOOLEAN, fence : Nat]]
    /\ ready \in [Pods -> BOOLEAN]
    /\ label \in [Pods -> {"leader", "standby"}]
    /\ jobs \in [Pods -> SUBSET Nat]
    /\ late \in [Pods -> BOOLEAN]
    /\ faults \in Nat

\* Every variable has its type, and while a term lasts its jobs, which mutate
\* shared state, run on a database that was promoted for leading and has not
\* been demoted since, however the tasks of successive terms overlap.  It says
\* nothing of a pass that outlives its term: JobsEndWithTheTerm does.
JobsRunOnPromotedData ==
    /\ TypeOK
    /\ \A p \in Pods :
          leading[p] /\ turn[p] \in jobs[p] => (s3 => sync[p].leader)

\* "each bound to the term's `cancel` token", "leader-gated by the caller in HA
\* mode so only one instance mutates the blob store" (spawn_leader_jobs,
\* run_sweeper): the jobs of a term are gone when it is.
JobsEndWithTheTerm ==
    \A p \in Pods : jobs[p] # {} => leading[p] /\ jobs[p] = {turn[p]}

\* When nothing is under way and no request has failed, the Service routes to
\* the pod that leads the current term and to no other, whatever tasks of
\* earlier terms did before, died in or left behind; unless one of them wrote
\* last: late says of which pods that is true.
RoutedToTheLeader ==
    \A p \in Pods :
        /\ faults = 0 /\ (\A q \in Pods : tasks[q] = {} /\ ~late[q])
        /\ leading[p] /\ term[p] = lease.transitions
        /\ \A q \in Pods \ {p} : ~leading[q]
        => {q \in Pods : Routed(q)} = {p}

\* "strip it so the Service routes to this pod only" (start_leading): the same
\* with nothing excepted.
NothingElseRoutes ==
    \A p \in Pods :
        /\ faults = 0 /\ (\A q \in Pods : tasks[q] = {})
        /\ leading[p] /\ term[p] = lease.transitions
        /\ \A q \in Pods \ {p} : ~leading[q]
        => {q \in Pods : Routed(q)} = {p}

\* "a stale former leader carries a lower token" (fencing_token): of two pods
\* whose sync uploads as leader, both with a token they could read, the one
\* elected earlier has the lower fence.
StaleLeaderHasLowerFence ==
    \A p, q \in Pods :
        /\ faults = 0
        /\ leading[p] /\ sync[p].leader
        /\ leading[q] /\ sync[q].leader
        /\ term[p] < term[q]
        => sync[p].fence < sync[q].fence

\* A term that lasts gets to work: unless a request fails or the term ends,
\* its jobs run in the end, behind however many earlier tasks its promotion
\* queues for the lock.
LeaderGetsToWork ==
    \A p \in Pods :
        leading[p] ~> (~leading[p] \/ faults > 0 \/ turn[p] \in jobs[p])

\* "another replica (or this one, on the next term) can take over cleanly"
\* (start_leading, on a promotion that failed): a pod that refuses to lead does
\* not go on holding the Lease.
RefusalIsFollowedByATerm ==
    \A p \in Pods :
        (leading[p] /\ \E t \in tasks[p] : t.at = "refuse")
            ~> (~leading[p] \/ turn[p] \in jobs[p])

=============================================================================
