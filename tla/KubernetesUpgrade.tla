-------------------------- MODULE KubernetesUpgrade --------------------------
(***************************************************************************)
(* The reconcile loop of the kubernetes-upgrade-operator: one EKSUpgrade   *)
(* resource is driven through its phases by a controller that reads the    *)
(* resource from a watch cache, calls EKS and merge-patches the status.    *)
(*                                                                         *)
(* A version is the minor version of the cluster; an EKS update is named   *)
(* by the version it leads to, which is unique within one run.  The add-ons*)
(* are one component, the Karpenter nodes one pool with one NodeClaim.     *)
(***************************************************************************)
EXTENDS Naturals, Sequences

CONSTANTS
    Specs,              \* the desired states a user may write
    NodeGroups,         \* the managed node groups
    MaxVersion,         \* bound: minor versions are 0..MaxVersion
    MaxGeneration,      \* bound: edits of the resource
    MaxErrors,          \* bound: failed calls, failed patches, incomplete plans
    None

ASSUME Bounds ==
    /\ MaxVersion \in Nat /\ MaxGeneration \in Nat \ {0} /\ MaxErrors \in Nat
    /\ \A s \in Specs : /\ s.mode \in {"Forward", "Rollback"} /\ s.target \in 0..MaxVersion
                        /\ s.dry \in BOOLEAN /\ s.karp \in BOOLEAN

VARIABLES
    spec,       \* the stored spec and its generation
    status,     \* the stored status
    seen,       \* the controller's cached copy of both
    cluster,    \* the versions that really run
    updating,   \* the updates EKS is carrying out, by resource
    failed,     \* the updates that ended in failure, by resource
    errors,     \* failures so far
    parked,     \* the controller waits for a change: nothing requeues the resource
    omitted,    \* history: what a plan left out although it was not at the
                \* target, and no update has succeeded for since
    abandoned,  \* history: an update runs, or ran, that the status does not know
    moved       \* history: [dir, since]: the last move of the control plane, and
                \* whether a forward run has completed since

upgradeVars == <<spec, status, seen, cluster, updating, failed, errors, parked, omitted,
                 abandoned, moved>>

Versions == 0..MaxVersion
VersionOrNone == Versions \cup {None}
Resources == {"cp", "addons"} \cup NodeGroups
ComponentStatus == {"Pending", "InProgress", "Completed", "Failed"}

ControlPlanePhases == {"UpgradingControlPlane", "RollingBackControlPlane"}
AddonPhases == {"UpgradingAddons", "RollingBackAddons"}
NodeGroupPhases == {"UpgradingNodeGroups", "RollingBackNodeGroups"}
Terminal == {"Completed", "Failed"}
Phases == {"Pending", "Planning", "PreflightChecking", "UpgradingKarpenterNodePools"}
    \cup ControlPlanePhases \cup AddonPhases \cup NodeGroupPhases \cup Terminal

(***************************************************************************)
(* The status a new resource has; path is the plan's list of versions, and *)
(* step is absent until there is a plan.                                   *)
(***************************************************************************)
NewStatus ==
    [phase |-> "Pending", obs |-> 0, path |-> <<>>, step |-> None, cpId |-> None,
     planned |-> None, addons |-> None, ng |-> <<>>, karp |-> None,
     batch |-> None, last |-> None]

StatusType ==
    [phase : Phases, obs : 0..MaxGeneration,
     path : UNION {[1..n -> Versions] : n \in 0..MaxVersion},
     step : 0..(MaxVersion + 1) \cup {None}, cpId : VersionOrNone, planned : VersionOrNone,
     addons : ComponentStatus \cup {None},
     ng : UNION {[D -> [st : ComponentStatus, id : VersionOrNone]] : D \in SUBSET NodeGroups},
     karp : ComponentStatus \cup {None},
     batch : {None, "Draining", "WaitingControllerStable"},
     last : {None, "Forward", "Rollback"}]

\* None is no version, no state and no node group, and the resources are distinct.
ASSUME NamesDiffer ==
    /\ None \notin 0..(MaxVersion + 1) /\ None \notin NodeGroups /\ None \notin ComponentStatus
    /\ None \notin {"Draining", "WaitingControllerStable", "Forward", "Rollback"}
    /\ {"cp", "addons"} \cap NodeGroups = {}

-----------------------------------------------------------------------------
(***************************************************************************)
(* The plan.                                                               *)
(***************************************************************************)
\* The forward path steps up one minor at a time; the rollback path is one
\* minor down.  PlanPossible is the absence of UpgradeNotPossible.
UpgradePath(mode, from, to) ==
    IF mode = "Forward" THEN [i \in 1..(to - from) |-> from + i]
    ELSE IF to = from THEN <<>> ELSE <<to>>

PlanPossible(mode, from, to) ==
    IF mode = "Forward" THEN to >= from ELSE to = from \/ to + 1 = from

\* Add-ons follow any difference forward and only go down in a rollback.
AddonsPlanned(mode, to) ==
    IF mode = "Forward" THEN cluster.addons # to ELSE to < cluster.addons

StaleNodeGroups(to) == {n \in NodeGroups : cluster.ng[n] # to}

IsConsecutiveRollback(mode, last) == mode = "Rollback" /\ last = "Rollback"

-----------------------------------------------------------------------------
(***************************************************************************)
(* The order of the phases.                                                *)
(***************************************************************************)
HasCpSteps(s) == s.path # <<>>
HasAddons(s) == s.addons # None
HasNodeGroups(s) == DOMAIN s.ng # {}
HasKarpenter(s) == s.karp # None

AfterNodeGroups(s, mode) ==
    CASE mode = "Forward" /\ HasKarpenter(s) -> "UpgradingKarpenterNodePools"
      [] mode = "Rollback" /\ HasAddons(s) -> "RollingBackAddons"
      [] mode = "Rollback" /\ ~HasAddons(s) /\ HasCpSteps(s) -> "RollingBackControlPlane"
      [] OTHER -> "Completed"

AfterAddons(s, mode) ==
    IF mode = "Forward"
    THEN IF HasNodeGroups(s) THEN "UpgradingNodeGroups" ELSE AfterNodeGroups(s, mode)
    ELSE IF HasCpSteps(s) THEN "RollingBackControlPlane" ELSE "Completed"

AfterControlPlane(s, mode) ==
    CASE mode = "Rollback" -> "Completed"
      [] mode = "Forward" /\ HasAddons(s) -> "UpgradingAddons"
      [] OTHER -> AfterAddons(s, mode)

\* Mutant of AfterPreflight: a rollback starts with the control plane too.
ControlPlaneFirst(s, mode) ==
    IF HasCpSteps(s)
    THEN IF mode = "Forward" THEN "UpgradingControlPlane" ELSE "RollingBackControlPlane"
    ELSE IF mode = "Forward" THEN AfterControlPlane(s, mode)
    ELSE IF HasNodeGroups(s) THEN "RollingBackNodeGroups" ELSE AfterNodeGroups(s, mode)

AfterPreflight(s, mode) ==
    IF mode = "Forward"
    THEN IF HasCpSteps(s) THEN "UpgradingControlPlane" ELSE AfterControlPlane(s, mode)
    ELSE IF HasNodeGroups(s) THEN "RollingBackNodeGroups" ELSE AfterNodeGroups(s, mode)

-----------------------------------------------------------------------------
(***************************************************************************)
(* Which reconciles do anything, and how they save.                        *)
(***************************************************************************)
HasActiveUpdate(s) == s.cpId # None \/ \E n \in DOMAIN s.ng : s.ng[n].id # None

\* Mutant of PollingPhases: the node group phases are not in the list.
NotNodeGroups == {"Planning", "PreflightChecking"} \cup ControlPlanePhases \cup AddonPhases

PollingPhases ==
    {"Planning", "PreflightChecking"} \cup ControlPlanePhases \cup AddonPhases \cup NodeGroupPhases

\* The cached resource is at phase P, its reconcile is due and is not skipped.
Reconciles(P) ==
    /\ ~parked
    /\ seen.status.phase \in P \ Terminal
    /\ \/ seen.status.obs < seen.spec.gen
       \/ seen.status.phase \in {"Pending"} \cup PollingPhases
       \/ HasActiveUpdate(seen.status)

\* A merge patch leaves what the new status omits: absent options, empty lists.
MergePatch(s) ==
    [s EXCEPT !.path = IF @ = <<>> THEN status.path ELSE @,
              !.step = IF @ = None THEN status.step ELSE @,
              !.cpId = IF s.step = None THEN status.cpId ELSE @,
              !.planned = IF @ = None THEN status.planned ELSE @,
              !.addons = IF @ = None THEN status.addons ELSE @,
              !.ng = IF DOMAIN @ = {} THEN status.ng ELSE @,
              !.karp = IF @ = None THEN status.karp ELSE @,
              !.batch = IF s.karp = None THEN status.batch ELSE @,
              !.last = IF @ = None THEN status.last ELSE @]

\* The end of a reconcile: the generation is noted, and on reaching Completed
\* the transition.
Write(s) ==
    /\ status' = MergePatch([s EXCEPT !.obs = seen.spec.gen,
                     !.last = IF s.phase = "Completed" THEN seen.spec.mode ELSE @])
    /\ moved' = [moved EXCEPT !.since = @ \/ (s.phase = "Completed" /\ seen.spec.mode = "Forward")]
    /\ UNCHANGED <<spec, seen, parked>>

Save(s) == Write(s) /\ UNCHANGED errors

\* The same when the patch fails, or the operator stops before it.
SaveFails == /\ errors < MaxErrors
             /\ errors' = errors + 1
             /\ UNCHANGED <<spec, status, seen, parked, moved>>

\* A failing step writes back the status it started from: phase kept when the
\* error is transient (p is the phase written).
SaveError(p) ==
    /\ status' = MergePatch([seen.status EXCEPT !.obs = seen.spec.gen, !.phase = p])
    /\ UNCHANGED <<spec, seen, cluster, updating, failed, parked, omitted, moved>>

Quiet == UNCHANGED <<cluster, updating, failed, omitted>>
Old == seen.status
Mode == seen.spec.mode

\* EKS accepts an update of resource r to version v.
StartUpdate(r, v) ==
    /\ updating[r] = None
    /\ updating' = [updating EXCEPT ![r] = v]
    /\ failed' = [failed EXCEPT ![r] = None]
    /\ UNCHANGED <<cluster, omitted>>

\* What polling the update of r to v answers.
Poll(r, v) ==
    CASE updating[r] = v -> "InProgress"
      [] updating[r] # v /\ failed[r] = v -> "Failed"
      [] OTHER -> "Successful"

-----------------------------------------------------------------------------
(***************************************************************************)
(* The phase handlers.                                                     *)
(***************************************************************************)
\* Mutant of Reset: the last transition is cleared with the rest.
ResetAll ==
    /\ Old.phase \in Terminal /\ Old.obs < seen.spec.gen
    /\ status' = [NewStatus EXCEPT !.obs = seen.spec.gen, !.karp = status.karp, !.batch = status.batch]
    /\ Quiet /\ UNCHANGED <<spec, seen, errors, parked, moved>>

\* A terminal resource whose spec was edited starts again.  The Karpenter plan
\* and the last transition are not among the fields that are cleared.
Reset ==
    /\ Old.phase \in Terminal /\ Old.obs < seen.spec.gen
    /\ status' = [NewStatus EXCEPT !.obs = seen.spec.gen, !.karp = status.karp,
                                   !.batch = status.batch, !.last = status.last]
    /\ Quiet /\ UNCHANGED <<spec, seen, errors, parked, moved>>

StartPending ==
    /\ Reconciles({"Pending"})
    /\ Save([Old EXCEPT !.phase = "Planning"])
    /\ Quiet

\* planning::execute, when the plan can be made.  A node group or an add-on
\* whose describe call fails is dropped from the list the plan is made from, and
\* so is an add-on without a compatible version: skipped is what is dropped.
Planned(skipped) ==
    LET path == UpgradePath(Mode, cluster.cp, seen.spec.target)
        s == [Old EXCEPT
                !.path = path, !.step = IF path = <<>> THEN 0 ELSE 1, !.cpId = None,
                !.planned = seen.spec.target,
                !.addons = IF AddonsPlanned(Mode, seen.spec.target) /\ "addons" \notin skipped
                           THEN "Pending" ELSE None,
                !.ng = [n \in StaleNodeGroups(seen.spec.target) \ skipped |->
                           [st |-> "Pending", id |-> None]],
                !.karp = IF seen.spec.karp THEN "Pending" ELSE @,
                !.batch = IF seen.spec.karp THEN None ELSE @]
        empty == path = <<>> /\ ~HasAddons(s) /\ ~HasNodeGroups(s) /\ ~seen.spec.karp
    IN  [s EXCEPT !.phase = IF empty THEN "Completed" ELSE "PreflightChecking"]

\* What of it was not at the target, and so belonged in the plan.
LeftOut(skipped) ==
    {r \in skipped : \/ r \in StaleNodeGroups(seen.spec.target)
                     \/ r = "addons" /\ AddonsPlanned(Mode, seen.spec.target)}

Plan ==
    /\ Reconciles({"Planning"})
    /\ IF IsConsecutiveRollback(Mode, Old.last)
       THEN Save([Old EXCEPT !.phase = "Failed"]) /\ Quiet
       ELSE IF PlanPossible(Mode, cluster.cp, seen.spec.target)
       THEN Save(Planned({})) /\ Quiet
       ELSE SaveError("Failed") /\ UNCHANGED errors

\* The same when some of the components are dropped from the lists.
IncompletePlan ==
    /\ Reconciles({"Planning"})
    /\ ~IsConsecutiveRollback(Mode, Old.last)
    /\ PlanPossible(Mode, cluster.cp, seen.spec.target)
    /\ errors < MaxErrors /\ errors' = errors + 1
    /\ \E skipped \in SUBSET (Resources \ {"cp"}) :
          /\ LeftOut(skipped) # {}
          /\ Write(Planned(skipped))
          /\ omitted' = omitted \cup LeftOut(skipped)
    /\ UNCHANGED <<cluster, updating, failed>>

\* preflight::execute: a mandatory check may fail; a dry run stops here.
Preflight ==
    /\ Reconciles({"PreflightChecking"})
    /\ \/ Save([Old EXCEPT !.phase = "Failed"])
       \/ Save([Old EXCEPT !.phase =
                   IF seen.spec.dry THEN "Completed" ELSE AfterPreflight(Old, Mode)])
    /\ Quiet

\* control_plane::execute, no update on record: ask EKS for the next step (at
\* step 0, which a plan made twice can leave, the index underflows and panics).
InitiateControlPlane ==
    /\ Reconciles(ControlPlanePhases)
    /\ Old.cpId = None /\ Old.step \in 1..Len(Old.path)
    /\ LET v == Old.path[Old.step]
       IN  /\ cluster.cp # v
           /\ StartUpdate("cp", v)
           /\ \/ Save([Old EXCEPT !.cpId = v])
              \/ SaveFails

\* Mutant of UpdateSucceeded: the last step is taken for done one early.
LastStepSkipped ==
    LET s == [Old EXCEPT !.step = @ + 1, !.cpId = None]
    IN  IF Old.step + 1 >= Len(Old.path) THEN [s EXCEPT !.phase = AfterControlPlane(s, Mode)] ELSE s

\* process_update_result for a successful update.
UpdateSucceeded ==
    LET s == [Old EXCEPT !.step = @ + 1, !.cpId = None]
    IN  IF Old.step + 1 > Len(Old.path) THEN [s EXCEPT !.phase = AfterControlPlane(s, Mode)] ELSE s

\* control_plane::execute, an update on record: give up on time, or poll it.
PollControlPlane ==
    /\ Reconciles(ControlPlanePhases)
    /\ Old.cpId # None
    /\ \/ /\ Poll("cp", Old.cpId) = "Successful"
          /\ Save(UpdateSucceeded)
       \/ /\ Poll("cp", Old.cpId) = "Failed"
          /\ Save([Old EXCEPT !.cpId = None, !.phase = "Failed"])
    /\ Quiet

ControlPlaneTimeout ==
    /\ Reconciles(ControlPlanePhases)
    /\ Old.cpId # None
    /\ errors < MaxErrors /\ errors' = errors + 1
    /\ status' = MergePatch([Old EXCEPT !.cpId = None, !.phase = "Failed", !.obs = seen.spec.gen])
    /\ Quiet /\ UNCHANGED <<spec, seen, parked, moved>>

-----------------------------------------------------------------------------
\* addons::execute.  An add-on has no update id: its own status is polled.
Addons ==
    /\ Reconciles(AddonPhases)
    /\ \/ /\ Old.addons \in {None, "Completed"}
          /\ Save([Old EXCEPT !.phase = AfterAddons(Old, Mode)])
          /\ Quiet
       \/ /\ Old.addons = "Pending"
          /\ StartUpdate("addons", Old.planned)
          /\ Save([Old EXCEPT !.addons = "InProgress"]) \/ SaveFails
       \/ /\ Old.addons = "InProgress" /\ updating["addons"] = None
          /\ IF failed["addons"] = None
             THEN Save([Old EXCEPT !.addons = "Completed"])
             ELSE Save([Old EXCEPT !.addons = "Failed", !.phase = "Failed"])
          /\ Quiet

\* find_active_nodegroup: the first of the list that is not done; the order of
\* the list is arbitrary.
ActiveNodeGroup(s) ==
    LET open == {n \in DOMAIN s.ng : s.ng[n].st # "Completed"}
    IN  IF open = {} THEN None ELSE CHOOSE n \in open : TRUE

NodeGroupsDone ==
    /\ Reconciles(NodeGroupPhases)
    /\ ActiveNodeGroup(Old) = None
    /\ Save([Old EXCEPT !.phase = AfterNodeGroups(Old, Mode)])
    /\ Quiet

\* nodegroups::execute for a group that waits to be updated.
InitiateNodeGroup ==
    /\ Reconciles(NodeGroupPhases)
    /\ LET n == ActiveNodeGroup(Old)
       IN  /\ n # None /\ Old.ng[n].st = "Pending"
           /\ StartUpdate(n, Old.planned)
           /\ \/ Save([Old EXCEPT !.ng[n] = [st |-> "InProgress", id |-> Old.planned]])
              \/ SaveFails

\* ... and for one being updated.
PollNodeGroup ==
    /\ Reconciles(NodeGroupPhases)
    /\ LET n == ActiveNodeGroup(Old)
       IN  /\ n # None /\ Old.ng[n].st = "InProgress"
           /\ \/ /\ Poll(n, Old.ng[n].id) = "Successful"
                 /\ Save([Old EXCEPT !.ng[n] = [st |-> "Completed", id |-> None]])
              \/ /\ Poll(n, Old.ng[n].id) = "Failed"
                 /\ Save([Old EXCEPT !.ng[n] = [st |-> "Failed", id |-> None], !.phase = "Failed"])
    /\ Quiet

NodeGroupTimeout ==
    /\ Reconciles(NodeGroupPhases)
    /\ errors < MaxErrors /\ errors' = errors + 1
    /\ LET n == ActiveNodeGroup(Old)
       IN  /\ n # None /\ Old.ng[n].st = "InProgress"
           /\ status' = MergePatch([Old EXCEPT !.ng[n] = [st |-> "Failed", id |-> None],
                                       !.phase = "Failed", !.obs = seen.spec.gen])
    /\ Quiet /\ UNCHANGED <<spec, seen, parked, moved>>

\* EKS refuses what is asked for: an update of that resource is running, or the
\* control plane has that version already.  An AwsSdk error is transient, so the
\* status is written back as it was read.
UpdateRefused ==
    /\ \/ /\ Reconciles(ControlPlanePhases)
          /\ Old.cpId = None /\ Old.step \in 1..Len(Old.path)
          /\ updating["cp"] # None \/ cluster.cp = Old.path[Old.step]
       \/ /\ Reconciles(AddonPhases)
          /\ Old.addons = "Pending" /\ updating["addons"] # None
       \/ /\ Reconciles(NodeGroupPhases)
          /\ LET n == ActiveNodeGroup(Old)
             IN  n # None /\ Old.ng[n].st = "Pending" /\ updating[n] # None
    /\ SaveError(Old.phase)
    /\ UNCHANGED errors

-----------------------------------------------------------------------------
\* karpenter::execute: the pool is done; or its next stale node is deleted, or
\* there is none; or the deleted one is waited for (decide_entry).
KarpenterDone ==
    /\ Reconciles({"UpgradingKarpenterNodePools"}) /\ seen.spec.karp
    /\ Old.karp \in {None, "Completed", "Failed"}
    /\ Save([Old EXCEPT !.phase = "Completed"])
    /\ Quiet

StartNextBatch ==
    /\ Reconciles({"UpgradingKarpenterNodePools"}) /\ seen.spec.karp
    /\ Old.karp \in {"Pending", "InProgress"} /\ Old.batch = None
    /\ IF cluster.kn.version < seen.spec.target
       THEN /\ cluster' = [cluster EXCEPT !.kn.draining = TRUE]
            /\ Save([Old EXCEPT !.karp = "InProgress", !.batch = "Draining"])
            /\ UNCHANGED <<updating, failed, omitted>>
       ELSE Save([Old EXCEPT !.karp = "Completed"]) /\ Quiet

\* The old node is gone: its workloads are ready again, or not yet, or too late;
\* a node that does not drain in time fails the run as well.
AdvanceBatch ==
    /\ Reconciles({"UpgradingKarpenterNodePools"}) /\ seen.spec.karp
    /\ Old.karp \in {"Pending", "InProgress"} /\ Old.batch # None
    /\ \/ ~cluster.kn.draining /\ Save([Old EXCEPT !.karp = "InProgress", !.batch = None])
       \/ ~cluster.kn.draining /\ Save([Old EXCEPT !.batch = "WaitingControllerStable"])
       \/ Save([Old EXCEPT !.karp = "Failed", !.phase = "Failed"])
    /\ Quiet

-----------------------------------------------------------------------------
\* A call fails in a way the controller retries, or in a way it reports as Failed
\* (the AWS client, the identity, a permission).
TransientError ==
    /\ Reconciles(Phases) /\ errors < MaxErrors /\ errors' = errors + 1
    /\ SaveError(Old.phase)

\* The error of a phase is not retried then, and neither is its patch: when that
\* fails too the resource keeps its phase and waits for a change.
PermanentError ==
    /\ Reconciles(Phases) /\ errors < MaxErrors /\ errors' = errors + 1
    /\ \/ SaveError("Failed")
       \/ /\ parked' = TRUE
          /\ Quiet /\ UNCHANGED <<spec, status, seen, moved>>

-----------------------------------------------------------------------------
(***************************************************************************)
(* Around the controller.                                                  *)
(***************************************************************************)
\* The user writes another spec once the resource is terminal and the watch has
\* said so, or touches one that is not (a timeout, the notifications): the
\* generation moves.
Edit ==
    /\ spec.gen < MaxGeneration
    /\ \/ /\ status.phase \in Terminal /\ seen.status = status
          /\ \E s \in Specs : spec' = [gen |-> spec.gen + 1, mode |-> s.mode,
                 target |-> s.target, dry |-> s.dry, karp |-> s.karp]
       \/ /\ status.phase \notin Terminal
          /\ spec' = [spec EXCEPT !.gen = @ + 1]
    /\ UNCHANGED <<status, seen, cluster, updating, failed, errors, parked, omitted, moved>>

\* The watch delivers the stored resource, and with it a reconcile.
Deliver ==
    /\ seen' = [spec |-> spec, status |-> status]
    /\ parked' = FALSE
    /\ UNCHANGED <<spec, status, cluster, updating, failed, errors, omitted, moved>>

Watch == seen # [spec |-> spec, status |-> status] /\ Deliver

\* A restarted operator lists every resource and reconciles it.
Restart == parked /\ Deliver

\* EKS ends an update, and the version is there, or it is not.
UpdateEnds(r) ==
    /\ updating[r] # None
    /\ updating' = [updating EXCEPT ![r] = None]
    /\ \/ /\ cluster' = CASE r = "cp" -> [cluster EXCEPT !.cp = updating[r]]
                          [] r = "addons" -> [cluster EXCEPT !.addons = updating[r]]
                          [] OTHER -> [cluster EXCEPT !.ng[r] = updating[r]]
          /\ moved' = IF r # "cp" THEN moved
                      ELSE [dir |-> IF updating[r] > cluster.cp THEN "up" ELSE "down",
                            since |-> FALSE]
          /\ omitted' = omitted \ {r}
          /\ UNCHANGED failed
       \/ /\ failed' = [failed EXCEPT ![r] = updating[r]]
          /\ UNCHANGED <<cluster, omitted, moved>>
    /\ UNCHANGED <<spec, status, seen, errors, parked>>

\* Karpenter drains the deleted node and starts one of the cluster's version.
Reprovision ==
    /\ cluster.kn.draining
    /\ cluster' = [cluster EXCEPT !.kn = [version |-> cluster.cp, draining |-> FALSE]]
    /\ UNCHANGED <<spec, status, seen, updating, failed, errors, parked, omitted, moved>>

-----------------------------------------------------------------------------
UpgradeInit ==
    /\ \E s \in Specs : spec = [gen |-> 1, mode |-> s.mode, target |-> s.target,
                                dry |-> s.dry, karp |-> s.karp]
    /\ status = NewStatus
    /\ seen = [spec |-> spec, status |-> NewStatus]
    /\ cluster = [cp |-> 0, addons |-> 0, ng |-> [n \in NodeGroups |-> 0],
                  kn |-> [version |-> 0, draining |-> FALSE]]
    /\ updating = [r \in Resources |-> None]
    /\ failed = [r \in Resources |-> None]
    /\ errors = 0
    /\ parked = FALSE
    /\ omitted = {}
    /\ abandoned = FALSE
    /\ moved = [dir |-> "none", since |-> FALSE]

\* The reconciles that advance a run.
Progress ==
    \/ Reset \/ StartPending \/ Plan \/ Preflight
    \/ InitiateControlPlane \/ PollControlPlane
    \/ Addons \/ NodeGroupsDone \/ InitiateNodeGroup \/ PollNodeGroup
    \/ KarpenterDone \/ StartNextBatch \/ AdvanceBatch

Step ==
    \/ Progress
    \/ IncompletePlan \/ UpdateRefused \/ ControlPlaneTimeout \/ NodeGroupTimeout
    \/ TransientError \/ PermanentError
    \/ Edit \/ Watch \/ Restart \/ Reprovision
    \/ \E r \in Resources : UpdateEnds(r)

\* The status does not know of an update that runs, or that has made the step
\* it counts as open.
Unknown ==
    \/ updating["cp"] # None /\ status.cpId # updating["cp"]
    \/ updating["addons"] \notin {None, status.planned}
    \/ \E n \in NodeGroups :
          /\ updating[n] # None
          /\ n \in DOMAIN status.ng => status.ng[n].id # updating[n]
    \/ /\ status.cpId = None \/ status.phase \in Terminal
       /\ status.step \in 1..Len(status.path) /\ cluster.cp = status.path[status.step]

Remember == abandoned' = (abandoned \/ Unknown')

UpgradeNext == Step /\ Remember

UpgradeSpec == UpgradeInit /\ [][UpgradeNext]_upgradeVars

\* Requeues and the watch bring every enabled reconcile, the watch is not always
\* later than the next reconcile, EKS ends what it began.
FairUpgradeSpec ==
    /\ UpgradeSpec
    /\ WF_upgradeVars(Progress /\ Remember) /\ SF_upgradeVars(Watch /\ Remember) /\ WF_upgradeVars(Reprovision /\ Remember)
    /\ \A r \in Resources : WF_upgradeVars(UpdateEnds(r) /\ Remember)

-----------------------------------------------------------------------------
UpgradeTypeOK ==
    /\ spec.gen \in 1..MaxGeneration
    /\ status \in StatusType /\ seen.status \in StatusType
    /\ updating \in [Resources -> VersionOrNone]
    /\ failed \in [Resources -> VersionOrNone]
    /\ cluster.cp \in Versions /\ cluster.addons \in Versions
    /\ cluster.ng \in [NodeGroups -> Versions] /\ cluster.kn.version \in Versions
    /\ errors \in 0..MaxErrors /\ parked \in BOOLEAN /\ omitted \subseteq Resources

Behind(n) == cluster.ng[n] <= cluster.cp

\* Every variable has its type, and a managed node never runs a newer version
\* than the control plane, whatever upgrades and rollbacks succeed, fail half
\* way and follow each other; except a group that a plan left out and that has
\* not been updated since, and except after an update whose id was lost or that
\* was given up.  after_preflight and the transitions that follow it order the
\* phases for that.
NodesNeverAhead ==
    UpgradeTypeOK /\ (~abandoned => \A n \in NodeGroups \ omitted : Behind(n))

\* The same of every group.  Does not hold: list_nodegroups drops a group whose
\* describe call failed, and the rollback goes below it.
NoNodeEverAhead == ~abandoned => \A n \in NodeGroups : Behind(n)

Completes == status.phase # "Completed" /\ status'.phase = "Completed" /\ ~seen.spec.dry

\* The run asked for no update of component r, which a plan left out.
Overlooked(r) ==
    /\ r \in omitted'
    /\ IF r = "addons" THEN status'.addons \in {None, "Pending"}
       ELSE r \in DOMAIN status'.ng => status'.ng[r].st = "Pending"

\* A run that was not a dry run reports Completed only when the control plane is
\* where the spec wants it and so is every component, but for one that a plan
\* left out and the run did not touch; except after an update whose id was lost
\* or that was given up.
CompletedMeansUpgraded ==
    [][Completes /\ ~abandoned
       => /\ cluster.cp = seen.spec.target
          /\ \A n \in NodeGroups : cluster.ng[n] = seen.spec.target \/ Overlooked(n)
          /\ Mode = "Forward" => cluster.addons = seen.spec.target \/ Overlooked("addons")
          /\ Mode = "Forward" /\ seen.spec.karp => cluster.kn.version >= seen.spec.target]_upgradeVars

\* The same of every component, which is what the message of an empty plan says.
\* Does not hold: a component whose describe call failed is left out.
CompletedMeansAllUpgraded ==
    [][Completes /\ ~abandoned
       => /\ \A n \in NodeGroups : cluster.ng[n] = seen.spec.target
          /\ Mode = "Forward" => cluster.addons = seen.spec.target]_upgradeVars

StartsRollback == updating["cp"] = None /\ updating'["cp"] # None /\ updating'["cp"] < cluster.cp

\* No rollback of the control plane begins when its last move was a rollback
\* and no forward run has completed since: the record survives the reset that
\* every edit of the spec makes (reset_status_patch); except after an update
\* whose id was lost or that was given up.
NoSecondRollback == [][StartsRollback /\ ~abandoned => moved.dir # "down" \/ moved.since]_upgradeVars

\* The guardrail as its comment states it: a forward upgrade in between, not
\* just a forward run, is what makes a rollback possible again.
RollbackFollowsUpgrade == [][StartsRollback /\ ~abandoned => moved.dir = "up"]_upgradeVars

\* Every run ends, whatever the order of cache, patches and updates, unless the
\* id of an update was lost, the patch that reports a permanent error failed, or
\* it enters the Karpenter phase.
EndsUnlessLost ==
    status.phase \notin Terminal
        ~> status.phase \in Terminal \cup {"UpgradingKarpenterNodePools"} \/ abandoned \/ parked

\* Every run ends, the Karpenter phase included.
UpgradeEnds == status.phase \notin Terminal ~> status.phase \in Terminal \/ abandoned \/ parked
=============================================================================
