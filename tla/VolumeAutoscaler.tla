-------------------------- MODULE VolumeAutoscaler --------------------------
(***************************************************************************)
(* The resize loop of the volume-autoscaler for one EC2 instance that is a *)
(* Node of the cluster: a periodic pass measures the root filesystem over  *)
(* SSM, cordons the Node while usage is high, grows the EBS volume within  *)
(* its cooldown and its maximum, extends the filesystem and lifts its own  *)
(* cordon.  Instances share nothing, so one stands for each of them.       *)
(*                                                                         *)
(* Every call to EC2, SSM or Kubernetes is a step of its own, which may    *)
(* fail, also after it took effect.  A pass is dropped at any of them when *)
(* the leader's term ends or its Pod dies; the next leader starts afresh.  *)
(***************************************************************************)
EXTENDS Integers, FiniteSetsExt

CONSTANTS
    Steps,          \* the scale-up policies: [kind : {"Percent", "GiB"}, value]
    SelectMin,      \* selectPolicy is Min
    InitialSize,    \* GiB
    MaxSize,        \* maxCapacity, GiB
    Threshold,      \* averageUtilization, percent
    Cooldown,       \* ticks between two modifications
    MaxFaults,      \* bound: failed calls, failed modifications, dropped passes
    MaxEdits        \* bound: steps of the operator

ASSUME Configuration ==
    /\ Steps # {} /\ IsFiniteSet(Steps)
    /\ \A s \in Steps : s.kind \in {"Percent", "GiB"} /\ s.value \in Nat \ {0}
    /\ SelectMin \in BOOLEAN
    /\ InitialSize \in Nat \ {0} /\ MaxSize \in Nat /\ InitialSize <= MaxSize
    /\ Threshold \in 1..100 /\ Cooldown \in Nat \ {0}
    /\ MaxFaults \in Nat /\ MaxEdits \in Nat

VARIABLES
    volume,     \* the EBS volume and its last modification
    fs,         \* the size of the root filesystem
    used,       \* what it holds
    script,     \* the resize script on the instance
    node,       \* the Node object
    paused,     \* selectPolicy is Disabled
    dryRun,     \* the configuration's dryRun
    pass,       \* the leader's pass
    faults,     \* failures so far
    edits,      \* the operator's steps so far
    owner,      \* history: who put the cordon that is on the Node
    late        \* history: the operator has edited the Node since it was listed

vars == <<volume, fs, used, script, node, paused, dryRun, pass, faults, edits, owner, late>>

Sizes == InitialSize..MaxSize
CordonNode == [unschedulable : BOOLEAN, protective : BOOLEAN,
               condition : {"none", "True", "False"}]

\* The states of a pass, named by the call it makes next.
Idle == [at |-> "idle"]
Points == {"listNodes", "measure", "cordon", "uncordon", "condition", "checkGrowth",
           "modify", "wait", "sendScript", "awaitScript", "verify"}

\* A request for the size alone, one that carries a throughput recommendation
\* along, or the request for the size alone after such a one failed.
Requests == {"size", "combined", "fallback"}

\* What Kubernetes knows of the Node when the listing failed: nothing.
Unlisted == [unschedulable |-> FALSE, protective |-> FALSE, condition |-> "unlisted"]

PassType ==
    {Idle} \cup
    [at : Points, current : Sizes, paused : BOOLEAN, high : BOOLEAN,
     request : Requests, node : CordonNode \cup {Unlisted}]

-----------------------------------------------------------------------------
(***************************************************************************)
(* Sizes and percentages.                                                  *)
(***************************************************************************)
\* Each policy proposes a step, percentages rounded up to whole GiB; at least
\* one GiB is added.
StepUp(current) ==
    LET sizes == {IF s.kind = "Percent" THEN (current * s.value + 99) \div 100
                                        ELSE s.value : s \in Steps}
    IN  current + Max({1, IF SelectMin THEN Min(sizes) ELSE Max(sizes)})

\* df rounds the used share up.
UsagePercent == (used * 100 + fs - 1) \div fs
High == UsagePercent >= Threshold

Moves(point) == pass' = [pass EXCEPT !.at = point]
Ends == pass' = Idle
At(point) == pass.at = point

\* A call that fails.
Fault ==
    /\ faults < MaxFaults
    /\ faults' = faults + 1

Infrastructure == <<volume, fs, used, script>>
Settings == <<paused, dryRun, edits>>

-----------------------------------------------------------------------------
(***************************************************************************)
(* A pass: discovery, the list of Nodes, the measurement.                  *)
(***************************************************************************)
\* The autoscalers are listed and the instances described.
StartPass ==
    /\ At("idle")
    /\ pass' = [at |-> "listNodes", current |-> volume.size, paused |-> paused,
                high |-> FALSE, request |-> "size", node |-> Unlisted]
    /\ UNCHANGED <<Infrastructure, Settings, node, faults, owner, late>>

\* The Nodes are listed once per pass; a failed list costs the pass its cordon
\* decisions.  A paused policy ends the work on the instance here.
ListNodes ==
    /\ At("listNodes")
    /\ \/ /\ pass' = IF pass.paused THEN Idle ELSE [pass EXCEPT !.at = "measure", !.node = node]
          /\ UNCHANGED faults
       \/ /\ pass' = IF pass.paused THEN Idle ELSE [pass EXCEPT !.at = "measure"]
          /\ Fault
    /\ late' = FALSE
    /\ UNCHANGED <<Infrastructure, Settings, node, owner>>

Measure ==
    /\ At("measure")
    /\ \/ /\ pass' = [pass EXCEPT !.high = High, !.at = IF High THEN "cordon" ELSE "uncordon"]
          /\ UNCHANGED faults
       \/ Ends /\ Fault
    /\ UNCHANGED <<Infrastructure, Settings, node, owner, late>>

-----------------------------------------------------------------------------
(***************************************************************************)
(* The protective cordon.  Decisions are taken on the pass's snapshot of   *)
(* the Node; the patches are unconditional.                                *)
(***************************************************************************)
Listed == pass.node # Unlisted

\* Mutant of LeavesAlone: someone else's cordon is taken over.
TakesOver(n) == n.protective \/ dryRun \/ ~Listed

\* The Node is marked by us already, cordoned by someone else, or not known.
LeavesAlone(n) == n.protective \/ n.unschedulable \/ dryRun \/ ~Listed

ApplyCordon ==
    /\ At("cordon")
    /\ \/ /\ LeavesAlone(pass.node)
          /\ Moves("condition")
          /\ UNCHANGED <<node, faults, owner>>
       \/ /\ ~LeavesAlone(pass.node)
          /\ node' = [node EXCEPT !.unschedulable = TRUE, !.protective = TRUE]
          /\ owner' = IF node.unschedulable THEN owner ELSE "addon"
          /\ \/ /\ pass' = [pass EXCEPT !.at = "condition", !.node.unschedulable = TRUE,
                                        !.node.protective = TRUE]
                /\ UNCHANGED faults
             \/ Fault /\ Moves("condition")
       \/ /\ ~LeavesAlone(pass.node)
          /\ Fault /\ Moves("condition")
          /\ UNCHANGED <<node, owner>>
    /\ UNCHANGED <<Infrastructure, Settings, late>>

\* Mutant of Uncordoned: the mark goes and the Node stays unschedulable.
StillCordoned(n) == [n EXCEPT !.protective = FALSE]

Uncordoned(n) == [n EXCEPT !.unschedulable = FALSE, !.protective = FALSE]

\* The mark of a Node that was uncordoned by hand is dropped, and nothing else.
Forgotten(n) == [n EXCEPT !.protective = FALSE]

\* The patch that releases the Node n was seen as, applied to m.
Release(n, m) == IF n.unschedulable THEN Uncordoned(m) ELSE Forgotten(m)

ReleaseCordon ==
    /\ At("uncordon")
    /\ \/ /\ ~pass.node.protective \/ dryRun
          /\ Moves("condition")
          /\ UNCHANGED <<node, faults, owner>>
       \/ /\ pass.node.protective /\ ~dryRun
          /\ node' = Release(pass.node, node)
          /\ owner' = IF node'.unschedulable THEN owner ELSE "nobody"
          /\ \/ /\ pass' = [pass EXCEPT !.at = "condition", !.node = Release(pass.node, pass.node)]
                /\ UNCHANGED faults
             \/ Fault /\ Moves("condition")
       \/ /\ pass.node.protective /\ ~dryRun
          /\ Fault /\ Moves("condition")
          /\ UNCHANGED <<node, owner>>
    /\ UNCHANGED <<Infrastructure, Settings, late>>

\* The condition is written when it disagrees with the mark; one that was never
\* written waits for a measurement under the threshold.
ConditionOf(n) == IF n.protective THEN "True" ELSE "False"
ConditionStands(n) ==
    \/ n.condition = ConditionOf(n)
    \/ ~n.protective /\ n.condition = "none" /\ pass.high
    \/ dryRun \/ ~Listed

AfterCondition(n) == IF pass.high THEN [pass EXCEPT !.at = "checkGrowth", !.node = n] ELSE Idle

SyncCondition ==
    /\ At("condition")
    /\ \/ /\ ~ConditionStands(pass.node)
          /\ node' = [node EXCEPT !.condition = ConditionOf(pass.node)]
          /\ \/ /\ pass' = AfterCondition([pass.node EXCEPT !.condition = ConditionOf(pass.node)])
                /\ UNCHANGED faults
             \/ pass' = AfterCondition(pass.node) /\ Fault
       \/ /\ IF ConditionStands(pass.node) THEN UNCHANGED faults ELSE Fault
          /\ pass' = AfterCondition(pass.node)
          /\ UNCHANGED node
    /\ UNCHANGED <<Infrastructure, Settings, owner, late>>

-----------------------------------------------------------------------------
(***************************************************************************)
(* The resize.                                                             *)
(***************************************************************************)
\* Mutant of Exceeds: the current size is compared instead of the target.
ExceededAlready(target) == pass.current > MaxSize

Exceeds(target) == target > MaxSize

\* Mutant of InCooldown: a finished modification no longer counts.
InProgress == volume.state \in {"modifying", "optimizing"}

\* Mutant of InCooldown: only a completed modification ever ends.
NotCompleted ==
    volume.state # "none" /\ ~(volume.state = "completed" /\ volume.since = Cooldown)

\* The last modification, whoever made it, is still under way or recent.
InCooldown ==
    \/ volume.state \in {"modifying", "optimizing"}
    \/ volume.state # "none" /\ volume.since < Cooldown

CheckGrowth ==
    /\ At("checkGrowth")
    /\ \/ /\ Exceeds(StepUp(pass.current)) \/ InCooldown \/ dryRun
          /\ Ends /\ UNCHANGED faults
       \/ /\ ~Exceeds(StepUp(pass.current)) /\ ~InCooldown /\ ~dryRun
          /\ \E r \in {"size", "combined"} : pass' = [pass EXCEPT !.at = "modify", !.request = r]
          /\ UNCHANGED faults
       \/ ~Exceeds(StepUp(pass.current)) /\ Ends /\ Fault
    /\ UNCHANGED <<Infrastructure, Settings, node, owner, late>>

\* EC2 takes a larger size for a volume no modification of which is under way.
Acceptable(target) ==
    volume.state \notin {"modifying", "optimizing"} /\ target > volume.size

\* The modification begins; the size is the volume's from "optimizing" on.
Modified == [volume EXCEPT !.state = "modifying", !.since = 0, !.next = StepUp(pass.current)]

\* A combined request that fails is sent again for the size alone.
ModifyFails ==
    pass' = IF pass.request = "combined" THEN [pass EXCEPT !.request = "fallback"] ELSE Idle

ModifyVolume ==
    /\ At("modify")
    /\ \/ /\ Acceptable(StepUp(pass.current))
          /\ volume' = Modified
          /\ \/ Moves("wait") /\ UNCHANGED faults
             \/ ModifyFails /\ Fault
       \/ /\ IF Acceptable(StepUp(pass.current)) THEN Fault ELSE UNCHANGED faults
          /\ ModifyFails
          /\ UNCHANGED volume
    /\ UNCHANGED <<fs, used, script, Settings, node, owner, late>>

WaitForModification ==
    /\ At("wait")
    /\ \/ volume.state \in {"optimizing", "completed"} /\ Moves("sendScript") /\ UNCHANGED faults
       \/ volume.state = "failed" /\ Ends /\ UNCHANGED faults
       \/ Ends /\ Fault
    /\ UNCHANGED <<Infrastructure, Settings, node, owner, late>>

SendScript ==
    /\ At("sendScript")
    /\ \/ script' = "running" /\ Moves("awaitScript") /\ UNCHANGED faults
       \/ UNCHANGED script /\ Ends /\ Fault
    /\ UNCHANGED <<volume, fs, used, Settings, node, owner, late>>

AwaitScript ==
    /\ At("awaitScript")
    /\ \/ script = "ok" /\ Moves("verify") /\ UNCHANGED faults
       \/ script = "failed" /\ Ends /\ UNCHANGED faults
       \/ Ends /\ Fault
    /\ UNCHANGED <<Infrastructure, Settings, node, owner, late>>

\* The cordon is lifted when the measurement after the resize is low.
Verify ==
    /\ At("verify")
    /\ \/ /\ pass' = IF High THEN Idle ELSE [pass EXCEPT !.high = FALSE, !.at = "uncordon"]
          /\ UNCHANGED faults
       \/ Ends /\ Fault
    /\ UNCHANGED <<Infrastructure, Settings, node, owner, late>>

\* The term of the leader ends, or its Pod: every task of the pass is aborted.
DropPass ==
    /\ ~At("idle")
    /\ Ends /\ Fault
    /\ UNCHANGED <<Infrastructure, Settings, node, owner, late>>

-----------------------------------------------------------------------------
(***************************************************************************)
(* AWS, the workload and the operator.                                     *)
(***************************************************************************)
Controller == <<node, pass, owner, late>>

EbsModifies ==
    /\ \/ /\ volume.state = "modifying"
          /\ volume' = [volume EXCEPT !.state = "optimizing", !.size = volume.next]
          /\ UNCHANGED faults
       \/ volume.state = "modifying" /\ volume' = [volume EXCEPT !.state = "failed"] /\ Fault
       \/ /\ volume.state = "optimizing"
          /\ volume' = [volume EXCEPT !.state = "completed"] /\ UNCHANGED faults
    /\ UNCHANGED <<fs, used, script, Settings, Controller>>

\* growpart and resize2fs or xfs_growfs extend the filesystem to the volume.
ScriptRuns ==
    /\ script = "running"
    /\ \/ script' = "ok" /\ fs' = volume.size /\ UNCHANGED faults
       \/ script' = "failed" /\ UNCHANGED fs /\ Fault
    /\ UNCHANGED <<volume, used, Settings, Controller>>

\* The workload fills the filesystem or empties it; what a pass sees of it is on
\* which side of the threshold it is.
UseDisk ==
    /\ \E u \in {0, fs} : u # used /\ used' = u
    /\ UNCHANGED <<volume, fs, script, Settings, faults, Controller>>

Tick ==
    /\ volume.since < Cooldown
    /\ volume' = [volume EXCEPT !.since = @ + 1]
    /\ UNCHANGED <<fs, used, script, Settings, faults, Controller>>

\* The operator cordons the Node or uncordons it, or takes the mark off and so
\* makes the cordon their own; or pauses the policy.
OperatorEdits ==
    /\ edits < MaxEdits /\ edits' = edits + 1
    /\ \/ /\ node' = [node EXCEPT !.unschedulable = ~@]
          /\ owner' = IF node.unschedulable THEN "nobody" ELSE "operator"
          /\ late' = TRUE /\ UNCHANGED paused
       \/ /\ node.protective
          /\ node' = [node EXCEPT !.protective = FALSE]
          /\ owner' = IF node.unschedulable THEN "operator" ELSE "nobody"
          /\ late' = TRUE /\ UNCHANGED paused
       \/ paused' = ~paused /\ UNCHANGED <<node, owner, late>>
    /\ UNCHANGED <<Infrastructure, dryRun, pass, faults>>

-----------------------------------------------------------------------------
Init ==
    /\ volume = [size |-> InitialSize, state |-> "none", since |-> Cooldown, next |-> InitialSize]
    /\ fs = InitialSize /\ used = 0 /\ script = "none"
    /\ node = [unschedulable |-> FALSE, protective |-> FALSE, condition |-> "none"]
    /\ paused \in BOOLEAN /\ dryRun \in BOOLEAN
    /\ pass = Idle /\ faults = 0 /\ edits = 0 /\ owner = "nobody" /\ late = FALSE

\* The steps of a pass.
Pass ==
    \/ StartPass \/ ListNodes \/ Measure \/ ApplyCordon \/ ReleaseCordon \/ SyncCondition
    \/ CheckGrowth \/ ModifyVolume \/ WaitForModification \/ SendScript \/ AwaitScript \/ Verify

Next ==
    Pass \/ DropPass \/ EbsModifies \/ ScriptRuns \/ UseDisk \/ Tick \/ OperatorEdits

\* The loop runs a pass at every interval, and every call it makes returns; a
\* modification and a script end; time goes on.  Nothing is assumed of the
\* workload and of the operator.
Spec == Init /\ [][Next]_vars
FairSpec ==
    /\ Spec
    /\ WF_vars(Pass) /\ WF_vars(EbsModifies) /\ WF_vars(ScriptRuns) /\ WF_vars(Tick)

-----------------------------------------------------------------------------
TypeOK ==
    /\ volume \in [size : Sizes, next : Sizes, since : 0..Cooldown,
                   state : {"none", "modifying", "optimizing", "completed", "failed"}]
    /\ fs \in Sizes /\ used \in 0..fs
    /\ script \in {"none", "running", "ok", "failed"}
    /\ node \in CordonNode /\ pass \in PassType
    /\ paused \in BOOLEAN /\ dryRun \in BOOLEAN
    /\ faults \in 0..MaxFaults /\ edits \in 0..MaxEdits
    /\ owner \in {"nobody", "addon", "operator"} /\ late \in BOOLEAN

\* Every variable has its type, the volume stays within maxCapacity, and the
\* filesystem never exceeds the volume: what reconcile_instance computes from a
\* size read minutes before, and after passes dropped in the middle of a resize.
NeverOvergrown == TypeOK /\ fs <= volume.size /\ volume.next <= MaxSize

\* Two modifications begin at least the cooldown apart (cooldown_block: EC2
\* allows four per day), whichever passes ask for them and however they end, and
\* each makes the volume larger.  The fallback of a combined request is not held
\* back: the request may have been taken and have failed since.
ModificationsSpaced ==
    [][volume'.state = "modifying" /\ volume.state # "modifying" =>
        /\ volume.state # "none" /\ pass.request # "fallback" => volume.since = Cooldown
        /\ volume'.next > volume.size]_vars

Foreign == node.unschedulable /\ ~node.protective

\* A cordon without the addon's mark is neither marked nor lifted by the addon
\* ("a Node that is already unschedulable without the addon's mark ... is left
\* alone"), by any pass that listed the Node after the operator's last edit of
\* it, minutes before it patches it; the operator alone ends it then.
ForeignCordonKept == [][Foreign /\ ~late /\ edits' = edits => Foreign']_vars

\* "A cordon set by an operator ... is never undone".  Does not hold: one put or
\* claimed between the listing and the patch is marked or lifted by the patch,
\* and one put where the mark was left has it already; a later pass lifts both.
OperatorCordonNeverUndone ==
    [][owner = "operator" /\ owner' # "operator" => edits' = edits + 1]_vars

Active == ~paused /\ ~dryRun

\* Once usage stays under the threshold the addon gives up its cordon, so that the
\* Node is schedulable unless an operator put the cordon, and says so in the
\* condition, whatever was dropped, failed or edited before; once it stays at or
\* above, the Node is cordoned, through the cooldown and at the maximal size too,
\* unless an operator lifted the cordon and left the mark.
CordonFollowsUsage ==
    /\ <>[](Active /\ ~High) =>
           <>[](/\ ~node.protective /\ node.condition = "False"
                /\ node.unschedulable => owner = "operator")
    /\ <>[](Active /\ High) => <>[](node.unschedulable \/ node.protective)

\* A filesystem that stays full gets a larger volume, failed modifications and
\* dropped passes notwithstanding, as long as the maximum allows a step.
GrowsWhenFull ==
    \A s \in Sizes :
        volume.size = s /\ High /\ Active /\ StepUp(s) <= MaxSize
            ~> volume.size > s \/ ~High \/ ~Active
=============================================================================
