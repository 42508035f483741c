--------------------------- MODULE OperatorProofs ---------------------------
(***************************************************************************)
(* Theorems about the two operators that change a cluster, each for every  *)
(* value of its constants: the volume-autoscaler's resize loop (every list *)
(* of policies, size, cooldown, number of faults and of edits) and the     *)
(* kubernetes-upgrade-operator's reconcile loop (every set of wishes and   *)
(* node groups, number of versions, generations and errors).  The two      *)
(* share no state; each theorem is about one of the specifications.        *)
(***************************************************************************)
EXTENDS VolumeAutoscaler, KubernetesUpgrade, FiniteSetTheorems, NaturalsInduction, TLAPS

(***************************************************************************)
(* Part one: the volume-autoscaler.                                        *)
(***************************************************************************)
\* A finite set of natural numbers that is not empty has a largest element ...
LEMMA MaxExists ==
    ASSUME NEW S \in SUBSET Nat, IsFiniteSet(S), S # {}
    PROVE  Max(S) \in S /\ \A x \in S : x <= Max(S)
<1> DEFINE Bad == {U \in SUBSET S : U # {} /\ ~\E m \in U : \A x \in U : x <= m}
<1>1. Bad = {}
  <2> SUFFICES ASSUME Bad # {} PROVE FALSE
    OBVIOUS
  <2>1. IsWellFoundedOn(StrictSubsetOrdering(S), SUBSET S)
    BY FS_StrictSubsetOrderingWellFounded, FS_FiniteSubsetsOfFinite
  <2>2. PICK U \in Bad : \A V \in Bad : ~(<<V, U>> \in StrictSubsetOrdering(S))
    <3> HIDE DEF Bad
    <3>1. Bad \subseteq SUBSET S
      BY DEF Bad
    <3> QED BY <2>1, <3>1, WFMin
  <2>3. PICK x \in U : TRUE
    OBVIOUS
  <2>4. U \ {x} \notin Bad
    BY <2>2, <2>3 DEF StrictSubsetOrdering
  <2>5. CASE U \ {x} = {}
    BY <2>3, <2>5
  <2>6. CASE U \ {x} # {}
    <3>1. PICK m \in U \ {x} : \A y \in U \ {x} : y <= m
      BY <2>3, <2>4, <2>6
    <3>2. m \in Nat /\ x \in Nat /\ \A y \in U : y \in Nat
      BY <2>2, <2>3, <3>1
    <3>3. CASE x <= m
      BY <3>1, <3>2, <3>3
    <3>4. CASE m < x
      <4>1. \A y \in U : y <= x
        BY <3>1, <3>2, <3>4
      <4> QED BY <2>3, <4>1
    <3> QED BY <3>2, <3>3, <3>4
  <2> QED BY <2>5, <2>6
<1>2. \E m \in S : \A x \in S : x <= m
  BY <1>1
<1>3. \E m \in S : \A x \in S : m >= x
  BY <1>2
<1> QED BY <1>3 DEF Max

\* ... and a smallest one.
LEMMA MinExists ==
    ASSUME NEW S \in SUBSET Nat, S # {}
    PROVE  Min(S) \in S
<1> DEFINE R == {ss \in Nat \X Nat : ss[1] < ss[2]}
<1>1. IsWellFoundedOn(R, Nat)
  BY NatLessThanWellFounded DEF OpToRel
<1>2. PICK m \in S : \A x \in S : ~(<<x, m>> \in R)
  <2> HIDE DEF R
  <2> QED BY <1>1, WFMin
<1>3. ASSUME NEW x \in S PROVE m <= x
  <2>1. x \in Nat /\ m \in Nat
    BY <1>2
  <2>2. x < m => <<x, m>> \in R
    BY <2>1
  <2>3. ~(<<x, m>> \in R)
    BY <1>2
  <2> QED BY <2>1, <2>2, <2>3
<1>4. \E x \in S : \A y \in S : x <= y
  BY <1>2, <1>3
<1> QED BY <1>4 DEF Min

\* compute_new_size: whatever the policies, the step is at least one GiB up.
LEMMA StepUpGrows ==
    ASSUME NEW current \in Nat
    PROVE  StepUp(current) \in Nat /\ StepUp(current) > current
<1> DEFINE step(s) == IF s.kind = "Percent" THEN (current * s.value + 99) \div 100 ELSE s.value
           sizes == {step(s) : s \in Steps}
           m == IF SelectMin THEN Min(sizes) ELSE Max(sizes)
<1>1. \A s \in Steps : step(s) \in Nat
  <2> TAKE s \in Steps
  <2>1. s.value \in Nat
    BY Configuration
  <2>2. current * s.value \in Nat
    BY <2>1
  <2>3. (current * s.value + 99) \div 100 \in Nat
    BY <2>2
  <2> QED BY <2>1, <2>3
<1>2. sizes \in SUBSET Nat /\ sizes # {}
  BY <1>1, Configuration
<1>3. IsFiniteSet(sizes)
  <2> DEFINE f == [s \in Steps |-> step(s)]
  <2>1. f \in Surjection(Steps, sizes)
    BY DEF Surjection
  <2> HIDE DEF f, sizes
  <2> QED BY <2>1, FS_Surjection, Configuration
<1>4. m \in Nat
  <2> HIDE DEF sizes
  <2>1. Min(sizes) \in Nat
    BY <1>2, MinExists
  <2>2. Max(sizes) \in Nat
    BY <1>2, <1>3, MaxExists
  <2> QED BY <2>1, <2>2
<1>5. Max({1, m}) \in {1, m} /\ 1 <= Max({1, m})
  <2> HIDE DEF m
  <2>1. IsFiniteSet({1, m})
    <3>1. IsFiniteSet({1})
      BY FS_Singleton
    <3>2. IsFiniteSet({1} \cup {m})
      BY <3>1, FS_AddElement
    <3>3. {1, m} = {1} \cup {m}
      OBVIOUS
    <3> QED BY <3>2, <3>3
  <2> QED BY <1>4, <2>1, MaxExists
<1>6. StepUp(current) = current + Max({1, m})
  BY DEF StepUp
<1> HIDE DEF m
<1> QED BY <1>4, <1>5, <1>6

-----------------------------------------------------------------------------
(***************************************************************************)
(* The inductive invariant.                                                *)
(***************************************************************************)
\* A modification under way makes the volume larger, and the filesystem is never
\* larger than the volume.
Grows ==
    /\ fs <= volume.size
    /\ volume.state = "modifying" => volume.next > volume.size

\* A pass about to ask for a modification has checked the maximum and, unless it
\* falls back, the cooldown; nothing ends a cooldown but time.
Checked ==
    pass.at = "modify" =>
        /\ StepUp(pass.current) <= MaxSize
        /\ \/ pass.request = "fallback"
           \/ volume.state = "none"
           \/ volume.state \in {"completed", "failed"} /\ volume.since = Cooldown

\* What a pass that listed the Node after the operator's last edit of it knows: a
\* cordon without our mark is listed as one, and a mark without a cordon too.
Tells(n) ==
    /\ Foreign => n.unschedulable /\ ~n.protective
    /\ n.protective /\ ~n.unschedulable => ~node.unschedulable

ForeignCordon ==
    /\ pass.at = "listNodes" => pass.node = Unlisted
    /\ pass.at # "idle" /\ pass.node # Unlisted /\ ~late => Tells(pass.node)

IInv == TypeOK /\ Grows /\ Checked /\ ForeignCordon

\* A pass that is under way.
Open == [at : Points, current : Sizes, paused : BOOLEAN, high : BOOLEAN,
         request : Requests, node : CordonNode \cup {Unlisted}]

LEMMA PassIsOpen ==
    ASSUME pass \in PassType, pass # Idle
    PROVE  pass \in Open
BY DEF PassType, Open

LEMMA PointIsOpen ==
    ASSUME pass \in PassType, pass.at \in Points
    PROVE  pass \in Open
<1>1. Idle.at = "idle"
  BY DEF Idle
<1>2. pass # Idle
  BY <1>1 DEF Points
<1> QED BY <1>2, PassIsOpen

\* A pass that goes on stays a pass.
LEMMA Continues ==
    ASSUME NEW p \in Open, NEW point \in Points
    PROVE  /\ [p EXCEPT !.at = point] \in PassType
           /\ [p EXCEPT !.at = point].at = point
           /\ [p EXCEPT !.at = point].node = p.node
           /\ [p EXCEPT !.at = point].request = p.request
           /\ [p EXCEPT !.at = point].current = p.current
BY DEF PassType, Open

LEMMA IdleType == Idle \in PassType /\ Idle.at = "idle"
BY DEF PassType, Idle

\* The steps of a pass that change nothing but the pass and the count of faults.
LEMMA FaultType ==
    ASSUME IInv, Fault \/ UNCHANGED faults
    PROVE  faults' \in 0..MaxFaults
BY Configuration DEF IInv, TypeOK, Fault

LEMMA QuietStep ==
    ASSUME IInv, UNCHANGED <<Infrastructure, Settings, node, owner>>, late' \in {late, FALSE},
           Fault \/ UNCHANGED faults, pass' \in PassType,
           pass'.at # "modify",
           \/ pass'.at = "idle"
           \/ pass.at # "idle" /\ pass'.at # "listNodes" /\ pass'.node = pass.node /\ late' = late
           \/ pass'.at # "listNodes" /\ pass'.node = node
           \/ pass'.node = Unlisted
    PROVE  IInv'
<1>1. faults' \in 0..MaxFaults
  BY FaultType
<1>2. TypeOK'
  BY <1>1 DEF IInv, TypeOK, Infrastructure, Settings
<1>3. Grows' /\ Checked'
  BY DEF IInv, Grows, Checked, Infrastructure
<1>4. ForeignCordon'
  BY IdleType DEF IInv, ForeignCordon, Tells, Foreign
<1> QED BY <1>2, <1>3, <1>4 DEF IInv

LEMMA StartPassStep == ASSUME IInv, StartPass PROVE IInv'
<1> DEFINE p == [at |-> "listNodes", current |-> volume.size, paused |-> paused,
                 high |-> FALSE, request |-> "size", node |-> Unlisted]
<1>1. p \in PassType /\ p.at = "listNodes" /\ p.node = Unlisted
  BY DEF PassType, Points, Requests, IInv, TypeOK
<1>2. pass' = p /\ UNCHANGED <<Infrastructure, Settings, node, owner, late>> /\ UNCHANGED faults
  BY DEF StartPass
<1> HIDE DEF p
<1> QED BY <1>1, <1>2, QuietStep

LEMMA ListNodesStep == ASSUME IInv, ListNodes PROVE IInv'
<1>1. pass \in Open
  BY PointIsOpen DEF ListNodes, At, Points, IInv, TypeOK
<1>2. /\ UNCHANGED <<Infrastructure, Settings, node, owner>>
      /\ Fault \/ UNCHANGED faults
      /\ pass.at = "listNodes" /\ late' = FALSE
  BY DEF ListNodes, At
<1>3. CASE pass' = Idle
  BY <1>2, <1>3, IdleType, QuietStep
<1>4. CASE pass' = [pass EXCEPT !.at = "measure", !.node = node]
  <2>1. pass' \in PassType /\ pass'.at = "measure" /\ pass'.node = node
    BY <1>1, <1>4 DEF Open, PassType, Points, IInv, TypeOK
  <2> QED BY <1>2, <2>1, QuietStep
<1>5. CASE pass' = [pass EXCEPT !.at = "measure"] /\ Fault
  <2>1. pass' \in PassType /\ pass'.at = "measure" /\ pass'.node = Unlisted
    BY <1>1, <1>2, <1>5, Continues DEF Points, IInv, ForeignCordon
  <2> QED BY <1>2, <2>1, QuietStep
<1> QED BY <1>3, <1>4, <1>5 DEF ListNodes

LEMMA MeasureStep == ASSUME IInv, Measure PROVE IInv'
<1>1. pass \in Open
  BY PointIsOpen DEF Measure, At, Points, IInv, TypeOK
<1>2. /\ UNCHANGED <<Infrastructure, Settings, node, owner, late>>
      /\ Fault \/ UNCHANGED faults
      /\ pass.at = "measure"
  BY DEF Measure, At
<1>3. CASE pass' = Idle
  BY <1>2, <1>3, IdleType, QuietStep
<1>4. CASE pass' = [pass EXCEPT !.high = High, !.at = IF High THEN "cordon" ELSE "uncordon"]
  <2>1. pass' \in PassType /\ pass'.at \in {"cordon", "uncordon"} /\ pass'.node = pass.node
    <3>1. High \in BOOLEAN
      BY DEF High
    <3> QED BY <1>1, <1>4, <3>1 DEF Open, PassType, Points
  <2> QED BY <1>2, <2>1, QuietStep
<1> QED BY <1>3, <1>4 DEF Measure, Ends, Moves

LEMMA WaitForModificationStep == ASSUME IInv, WaitForModification PROVE IInv'
<1>1. pass \in Open
  BY PointIsOpen DEF WaitForModification, At, Points, IInv, TypeOK
<1>2. /\ UNCHANGED <<Infrastructure, Settings, node, owner, late>>
      /\ Fault \/ UNCHANGED faults
      /\ pass.at = "wait"
  BY DEF WaitForModification, At
<1>3. CASE pass' = Idle
  BY <1>2, <1>3, IdleType, QuietStep
<1>4. CASE pass' = [pass EXCEPT !.at = "sendScript"]
  <2>1. pass' \in PassType /\ pass'.at = "sendScript" /\ pass'.node = pass.node
    BY <1>1, <1>4 DEF Open, PassType, Points
  <2> QED BY <1>2, <2>1, QuietStep
<1> QED BY <1>3, <1>4 DEF WaitForModification, Ends, Moves

LEMMA AwaitScriptStep == ASSUME IInv, AwaitScript PROVE IInv'
<1>1. pass \in Open
  BY PointIsOpen DEF AwaitScript, At, Points, IInv, TypeOK
<1>2. /\ UNCHANGED <<Infrastructure, Settings, node, owner, late>>
      /\ Fault \/ UNCHANGED faults
      /\ pass.at = "awaitScript"
  BY DEF AwaitScript, At
<1>3. CASE pass' = Idle
  BY <1>2, <1>3, IdleType, QuietStep
<1>4. CASE pass' = [pass EXCEPT !.at = "verify"]
  <2>1. pass' \in PassType /\ pass'.at = "verify" /\ pass'.node = pass.node
    BY <1>1, <1>4 DEF Open, PassType, Points
  <2> QED BY <1>2, <2>1, QuietStep
<1> QED BY <1>3, <1>4 DEF AwaitScript, Ends, Moves

LEMMA VerifyStep == ASSUME IInv, Verify PROVE IInv'
<1>1. pass \in Open
  BY PointIsOpen DEF Verify, At, Points, IInv, TypeOK
<1>2. /\ UNCHANGED <<Infrastructure, Settings, node, owner, late>>
      /\ Fault \/ UNCHANGED faults
      /\ pass.at = "verify"
  BY DEF Verify, At
<1>3. CASE pass' = Idle
  BY <1>2, <1>3, IdleType, QuietStep
<1>4. CASE pass' = [pass EXCEPT !.high = FALSE, !.at = "uncordon"]
  <2>1. pass' \in PassType /\ pass'.at = "uncordon" /\ pass'.node = pass.node
    BY <1>1, <1>4 DEF Open, PassType, Points
  <2> QED BY <1>2, <2>1, QuietStep
<1> QED BY <1>3, <1>4 DEF Verify, Ends, Moves

LEMMA DropPassStep == ASSUME IInv, DropPass PROVE IInv'
BY IdleType, QuietStep DEF DropPass, Ends

\* Steps on the Node: what they may do to an operator's cordon.
LEMMA NodeStep ==
    ASSUME IInv, UNCHANGED <<Infrastructure, Settings>>, Fault \/ UNCHANGED faults,
           pass' \in PassType, pass'.at \notin {"modify", "listNodes"},
           UNCHANGED late,
           node' \in CordonNode, owner' \in {"nobody", "addon", "operator"},
           pass'.at # "idle" /\ pass'.node # Unlisted /\ ~late =>
               /\ node'.unschedulable /\ ~node'.protective =>
                      pass'.node.unschedulable /\ ~pass'.node.protective
               /\ pass'.node.protective /\ ~pass'.node.unschedulable => ~node'.unschedulable
    PROVE  IInv'
<1>1. faults' \in 0..MaxFaults
  BY FaultType
<1>2. TypeOK'
  BY <1>1 DEF IInv, TypeOK, Infrastructure, Settings
<1>3. Grows' /\ Checked'
  BY DEF IInv, Grows, Checked, Infrastructure
<1>4. ForeignCordon'
  BY DEF ForeignCordon, Tells, Foreign
<1> QED BY <1>2, <1>3, <1>4 DEF IInv

\* What the invariant says of the Node, once it is listed.
LEMMA ListedNode ==
    ASSUME IInv, pass.at # "idle", pass.node # Unlisted, ~late
    PROVE  /\ node.unschedulable /\ ~node.protective => pass.node.unschedulable /\ ~pass.node.protective
           /\ pass.node.protective /\ ~pass.node.unschedulable => ~node.unschedulable
BY DEF IInv, ForeignCordon, Tells, Foreign

LEMMA ApplyCordonStep == ASSUME IInv, ApplyCordon PROVE IInv'
<1>1. pass \in Open /\ pass.at = "cordon"
  BY PointIsOpen DEF ApplyCordon, At, Points, IInv, TypeOK
<1>2. UNCHANGED <<Infrastructure, Settings, late>> /\ (Fault \/ UNCHANGED faults)
  BY DEF ApplyCordon
<1>3. /\ [pass EXCEPT !.at = "condition"] \in PassType
      /\ [pass EXCEPT !.at = "condition"].at = "condition"
      /\ [pass EXCEPT !.at = "condition"].node = pass.node
  BY <1>1, Continues DEF Points
<1>4. node \in CordonNode /\ owner \in {"nobody", "addon", "operator"}
  BY DEF IInv, TypeOK
<1>5. CASE Moves("condition") /\ UNCHANGED <<node, owner>>
  BY <1>1, <1>2, <1>3, <1>4, <1>5, NodeStep, ListedNode DEF Moves
<1>6. CASE /\ ~LeavesAlone(pass.node)
           /\ node' = [node EXCEPT !.unschedulable = TRUE, !.protective = TRUE]
           /\ owner' = IF node.unschedulable THEN owner ELSE "addon"
           /\ \/ pass' = [pass EXCEPT !.at = "condition", !.node.unschedulable = TRUE,
                                      !.node.protective = TRUE]
              \/ Moves("condition")
  <2>1. node' \in CordonNode /\ node'.unschedulable /\ node'.protective
    BY <1>4, <1>6 DEF CordonNode
  <2>2. pass.node \in CordonNode
    BY <1>1, <1>6 DEF LeavesAlone, Listed, Open
  <2>3. pass' \in PassType /\ pass'.at = "condition" /\ (pass'.node.protective => pass'.node.unschedulable)
    <3>1. CASE Moves("condition")
      BY <1>3, <1>6, <3>1 DEF Moves, LeavesAlone
    <3>2. CASE pass' = [pass EXCEPT !.at = "condition", !.node.unschedulable = TRUE,
                                    !.node.protective = TRUE]
      <4> DEFINE n == [pass.node EXCEPT !.unschedulable = TRUE, !.protective = TRUE]
      <4>1. n \in CordonNode /\ n.unschedulable
        BY <2>2 DEF CordonNode
      <4>2. pass' = [pass EXCEPT !.at = "condition", !.node = n]
        BY <1>1, <2>2, <3>2 DEF Open, CordonNode
      <4> HIDE DEF n
      <4> QED BY <1>1, <4>1, <4>2 DEF Open, PassType, Points
    <3> QED BY <1>6, <3>1, <3>2
  <2> QED BY <1>2, <1>4, <1>6, <2>1, <2>3, NodeStep
<1> QED BY <1>5, <1>6 DEF ApplyCordon

LEMMA ReleaseType ==
    ASSUME NEW n \in CordonNode, NEW m \in CordonNode
    PROVE  /\ Release(n, m) \in CordonNode /\ ~Release(n, m).protective
           /\ Release(n, m).unschedulable <=> ~n.unschedulable /\ m.unschedulable
BY DEF Release, Uncordoned, Forgotten, CordonNode

LEMMA ReleaseCordonStep == ASSUME IInv, ReleaseCordon PROVE IInv'
<1>1. pass \in Open /\ pass.at = "uncordon"
  BY PointIsOpen DEF ReleaseCordon, At, Points, IInv, TypeOK
<1>2. UNCHANGED <<Infrastructure, Settings, late>> /\ (Fault \/ UNCHANGED faults)
  BY DEF ReleaseCordon
<1>3. /\ [pass EXCEPT !.at = "condition"] \in PassType
      /\ [pass EXCEPT !.at = "condition"].at = "condition"
      /\ [pass EXCEPT !.at = "condition"].node = pass.node
  BY <1>1, Continues DEF Points
<1>4. node \in CordonNode /\ owner \in {"nobody", "addon", "operator"}
  BY DEF IInv, TypeOK
<1>5. CASE Moves("condition") /\ UNCHANGED <<node, owner>>
  BY <1>1, <1>2, <1>3, <1>4, <1>5, NodeStep, ListedNode DEF Moves
<1>6. CASE /\ pass.node.protective
           /\ node' = Release(pass.node, node)
           /\ owner' = IF node'.unschedulable THEN owner ELSE "nobody"
           /\ \/ pass' = [pass EXCEPT !.at = "condition", !.node = Release(pass.node, pass.node)]
              \/ Moves("condition")
  <2>1. pass.node # Unlisted /\ pass.node \in CordonNode
    BY <1>1, <1>6 DEF Unlisted, Open
  <2>2. /\ node' \in CordonNode /\ Release(pass.node, pass.node) \in CordonNode
        /\ node'.unschedulable <=> ~pass.node.unschedulable /\ node.unschedulable
        /\ ~Release(pass.node, pass.node).protective
    BY <1>4, <1>6, <2>1, ReleaseType
  <2>3. /\ pass' \in PassType /\ pass'.at = "condition"
        /\ ~pass'.node.protective \/ pass'.node = pass.node
    BY <1>1, <1>3, <1>6, <2>2 DEF Moves, Open, PassType, Points
  <2>4. ~late => ~node'.unschedulable
    BY <1>1, <1>6, <2>1, <2>2, ListedNode
  <2>5. owner' \in {"nobody", "addon", "operator"}
    BY <1>4, <1>6
  <2> QED BY <1>2, <2>2, <2>3, <2>4, <2>5, NodeStep
<1> QED BY <1>5, <1>6 DEF ReleaseCordon

LEMMA SyncConditionStep == ASSUME IInv, SyncCondition PROVE IInv'
<1>1. pass \in Open /\ pass.at = "condition"
  BY PointIsOpen DEF SyncCondition, At, Points, IInv, TypeOK
<1>2. UNCHANGED <<Infrastructure, Settings, owner, late>> /\ (Fault \/ UNCHANGED faults)
  BY DEF SyncCondition
<1>3. ASSUME NEW n \in CordonNode \cup {Unlisted}
      PROVE  /\ AfterCondition(n) \in PassType
             /\ AfterCondition(n).at \in {"idle", "checkGrowth"}
             /\ AfterCondition(n).at = "checkGrowth" => AfterCondition(n).node = n
  <2>1. CASE pass.high
    BY <1>1, <2>1 DEF AfterCondition, Open, PassType, Points
  <2>2. CASE ~pass.high
    BY <2>2, IdleType DEF AfterCondition
  <2> QED BY <2>1, <2>2
<1>4. node \in CordonNode /\ owner \in {"nobody", "addon", "operator"}
  BY DEF IInv, TypeOK
<1>5. pass.node \in CordonNode \cup {Unlisted}
  BY <1>1 DEF Open
<1>6. CASE pass' = AfterCondition(pass.node) /\ UNCHANGED node
  <2>1. /\ pass' \in PassType /\ pass'.at \in {"idle", "checkGrowth"}
        /\ pass'.at = "checkGrowth" => pass'.node = pass.node
    BY <1>3, <1>5, <1>6
  <2> QED BY <1>1, <1>2, <1>4, <1>6, <2>1, NodeStep, ListedNode
<1>7. CASE /\ ~ConditionStands(pass.node)
           /\ node' = [node EXCEPT !.condition = ConditionOf(pass.node)]
           /\ \/ pass' = AfterCondition([pass.node EXCEPT !.condition = ConditionOf(pass.node)])
              \/ pass' = AfterCondition(pass.node)
  <2> DEFINE c == ConditionOf(pass.node)
  <2>1. pass.node \in CordonNode /\ pass.node # Unlisted
    <3>1. pass.node # Unlisted
      BY <1>7 DEF ConditionStands, Listed
    <3> QED BY <1>5, <3>1
  <2>2. c \in {"True", "False"}
    BY DEF ConditionOf
  <2>3. PICK n : /\ pass' = AfterCondition(n)
                 /\ n = [pass.node EXCEPT !.condition = c] \/ n = pass.node
    BY <1>7
  <2> HIDE DEF c
  <2>4. /\ n \in CordonNode
        /\ n.unschedulable = pass.node.unschedulable /\ n.protective = pass.node.protective
    BY <2>1, <2>2, <2>3 DEF CordonNode
  <2>5. /\ node' \in CordonNode
        /\ node'.unschedulable = node.unschedulable /\ node'.protective = node.protective
    BY <1>4, <1>7, <2>2 DEF CordonNode, c
  <2>6. /\ pass' \in PassType /\ pass'.at \in {"idle", "checkGrowth"}
        /\ pass'.at = "checkGrowth" => pass'.node = n
    BY <1>3, <2>3, <2>4
  <2> QED BY <1>1, <1>2, <1>4, <2>1, <2>4, <2>5, <2>6, NodeStep, ListedNode
<1> QED BY <1>6, <1>7 DEF SyncCondition

-----------------------------------------------------------------------------
(***************************************************************************)
(* The resize and its surroundings.                                        *)
(***************************************************************************)
LEMMA CheckGrowthStep == ASSUME IInv, CheckGrowth PROVE IInv'
<1>1. pass \in Open /\ pass.at = "checkGrowth"
  BY PointIsOpen DEF CheckGrowth, At, Points, IInv, TypeOK
<1>2. UNCHANGED <<Infrastructure, Settings, node, owner, late>> /\ (Fault \/ UNCHANGED faults)
  BY DEF CheckGrowth
<1>3. CASE pass' = Idle
  BY <1>2, <1>3, IdleType, QuietStep
<1>4. ASSUME ~Exceeds(StepUp(pass.current)), ~InCooldown,
             NEW r \in {"size", "combined"},
             pass' = [pass EXCEPT !.at = "modify", !.request = r]
      PROVE  IInv'
  <2>1. /\ pass' \in PassType /\ pass'.at = "modify" /\ pass'.node = pass.node
        /\ pass'.current = pass.current
    BY <1>1, <1>4 DEF Open, PassType, Points, Requests
  <2>2. TypeOK'
    BY <1>2, <2>1, FaultType DEF IInv, TypeOK, Infrastructure, Settings
  <2>3. StepUp(pass.current) <= MaxSize
    <3>1. pass.current \in Nat
      BY <1>1, Configuration DEF Open, Sizes
    <3> QED BY <1>4, <3>1, StepUpGrows, Configuration DEF Exceeds
  <2>4. volume.state = "none"
        \/ (volume.state \in {"completed", "failed"} /\ volume.since = Cooldown)
    BY <1>4, Configuration DEF InCooldown, IInv, TypeOK
  <2>5. StepUp(pass'.current) <= MaxSize
    BY <2>1, <2>3
  <2>6. Grows' /\ Checked'
    BY <1>2, <2>4, <2>5 DEF Grows, Checked, IInv, Infrastructure, StepUp
  <2>7. ForeignCordon'
    BY <1>1, <1>2, <2>1 DEF IInv, ForeignCordon, Tells, Foreign
  <2> QED BY <2>2, <2>6, <2>7 DEF IInv
<1> QED BY <1>3, <1>4 DEF CheckGrowth, Ends

LEMMA ModifyFailsType ==
    ASSUME pass \in Open, pass.at = "modify", ModifyFails
    PROVE  /\ pass' \in PassType
           /\ \/ pass' = Idle
              \/ /\ pass'.at = "modify" /\ pass'.request = "fallback"
                 /\ pass'.current = pass.current /\ pass'.node = pass.node
BY IdleType DEF ModifyFails, Open, PassType, Requests

LEMMA ModifyVolumeStep == ASSUME IInv, ModifyVolume PROVE IInv'
<1>1. pass \in Open /\ pass.at = "modify"
  BY PointIsOpen DEF ModifyVolume, At, Points, IInv, TypeOK
<1>2. /\ UNCHANGED <<fs, used, script, Settings, node, owner, late>>
      /\ Fault \/ UNCHANGED faults
  BY DEF ModifyVolume
<1>3. /\ pass' \in PassType
      /\ \/ pass'.at \in {"idle", "wait"}
         \/ /\ pass'.at = "modify" /\ pass'.request = "fallback" /\ pass'.current = pass.current
      /\ pass'.at # "idle" => pass'.node = pass.node
  <2>1. CASE Moves("wait")
    BY <1>1, <2>1, Continues DEF Moves, Points
  <2>2. CASE ModifyFails
    BY <1>1, <2>2, ModifyFailsType, IdleType
  <2> QED BY <2>1, <2>2 DEF ModifyVolume
<1>4. /\ pass.current \in Nat /\ StepUp(pass.current) \in Nat
      /\ StepUp(pass.current) > pass.current /\ pass.current >= InitialSize
      /\ StepUp(pass.current) <= MaxSize
  BY <1>1, Configuration, StepUpGrows DEF Open, Sizes, IInv, Checked
<1>5. StepUp(pass.current) \in Sizes
  BY <1>4, Configuration DEF Sizes
<1>6. ForeignCordon'
  BY <1>1, <1>2, <1>3 DEF IInv, ForeignCordon, Tells, Foreign
<1>7. pass'.at = "modify" => StepUp(pass'.current) <= MaxSize
  BY <1>3, <1>4
<1>8. Checked'
  BY <1>3, <1>7 DEF Checked, StepUp
<1>9. volume' \in [size : Sizes, next : Sizes, since : 0..Cooldown,
                   state : {"none", "modifying", "optimizing", "completed", "failed"}]
      /\ Grows'
  <2>1. CASE UNCHANGED volume
    BY <1>2, <2>1 DEF IInv, TypeOK, Grows
  <2>2. CASE volume' = Modified /\ Acceptable(StepUp(pass.current))
    <3> DEFINE t == StepUp(pass.current)
    <3>1. volume' = [volume EXCEPT !.state = "modifying", !.since = 0, !.next = t]
      BY <2>2 DEF Modified
    <3>2. t > volume.size /\ t \in Sizes
      BY <1>5, <2>2 DEF Acceptable
    <3> HIDE DEF t
    <3>3. volume'.size = volume.size /\ volume'.next = t
      BY <3>1 DEF IInv, TypeOK
    <3>4. fs' <= volume'.size
      BY <1>2, <3>3 DEF IInv, Grows
    <3>5. volume' \in [size : Sizes, next : Sizes, since : 0..Cooldown,
                        state : {"none", "modifying", "optimizing", "completed", "failed"}]
      <4>1. 0 \in 0..Cooldown
        BY Configuration
      <4> QED BY <3>1, <3>2, <4>1 DEF IInv, TypeOK
    <3> QED BY <3>2, <3>3, <3>4, <3>5 DEF Grows
  <2> QED BY <2>1, <2>2 DEF ModifyVolume
<1>10. TypeOK'
  BY <1>2, <1>3, <1>9, FaultType DEF IInv, TypeOK, Settings
<1> QED BY <1>6, <1>8, <1>9, <1>10 DEF IInv

LEMMA SendScriptStep == ASSUME IInv, SendScript PROVE IInv'
<1>1. pass \in Open /\ pass.at = "sendScript"
  BY PointIsOpen DEF SendScript, At, Points, IInv, TypeOK
<1>2. /\ UNCHANGED <<volume, fs, used, Settings, node, owner, late>>
      /\ Fault \/ UNCHANGED faults
      /\ script' \in {script, "running"}
  BY DEF SendScript
<1>3. /\ pass' \in PassType /\ pass'.at \in {"idle", "awaitScript"}
      /\ pass'.at # "idle" => pass'.node = pass.node
  <2>1. CASE Moves("awaitScript")
    BY <1>1, <2>1, Continues DEF Moves, Points
  <2>2. CASE Ends
    BY <2>2, IdleType DEF Ends
  <2> QED BY <2>1, <2>2 DEF SendScript
<1>4. TypeOK'
  BY <1>2, <1>3, FaultType DEF IInv, TypeOK, Settings
<1>5. Grows' /\ Checked' /\ ForeignCordon'
  BY <1>1, <1>2, <1>3 DEF IInv, Grows, Checked, ForeignCordon, Tells, Foreign
<1> QED BY <1>4, <1>5 DEF IInv

\* Steps outside the controller: the volume, the filesystem and what it holds.
LEMMA OutsideStep ==
    ASSUME IInv, UNCHANGED <<Settings, Controller>>, Fault \/ UNCHANGED faults,
           volume' \in [size : Sizes, next : Sizes, since : 0..Cooldown,
                        state : {"none", "modifying", "optimizing", "completed", "failed"}],
           fs' \in Sizes, used' \in 0..fs', script' \in {"none", "running", "ok", "failed"},
           Grows',
           \/ volume.state \in {"modifying", "optimizing"}
           \/ volume'.state = volume.state /\ (volume'.since = volume.since \/ volume.since < Cooldown)
    PROVE  IInv'
<1>1. TypeOK'
  BY FaultType DEF IInv, TypeOK, Settings, Controller
<1>2. pass' = pass /\ StepUp(pass'.current) = StepUp(pass.current)
  BY DEF Controller
<1>3. volume.since \in 0..Cooldown /\ Cooldown \in Nat
  BY Configuration DEF IInv, TypeOK
<1>4. ~(volume.since = Cooldown /\ volume.since < Cooldown)
  BY <1>3
<1>5. pass.at = "modify" =>
        /\ StepUp(pass'.current) <= MaxSize
        /\ \/ pass.request = "fallback"
           \/ volume'.state = "none"
           \/ volume'.state \in {"completed", "failed"} /\ volume'.since = Cooldown
  BY <1>2, <1>4 DEF IInv, Checked
<1>6. Checked'
  BY <1>2, <1>5 DEF Checked, StepUp
<1>7. ForeignCordon'
  BY DEF IInv, ForeignCordon, Tells, Foreign, Controller
<1> QED BY <1>1, <1>6, <1>7 DEF IInv

LEMMA EbsModifiesStep == ASSUME IInv, EbsModifies PROVE IInv'
<1>1. /\ UNCHANGED <<fs, used, script, Settings, Controller>>
      /\ Fault \/ UNCHANGED faults
      /\ volume.state \in {"modifying", "optimizing"}
  BY DEF EbsModifies
<1>2. volume \in [size : Sizes, next : Sizes, since : 0..Cooldown,
                  state : {"none", "modifying", "optimizing", "completed", "failed"}]
      /\ fs \in Sizes /\ used \in 0..fs /\ script \in {"none", "running", "ok", "failed"}
      /\ Grows
  BY DEF IInv, TypeOK
<1>3. /\ volume' \in [size : Sizes, next : Sizes, since : 0..Cooldown,
                      state : {"none", "modifying", "optimizing", "completed", "failed"}]
      /\ volume'.state # "modifying" /\ volume'.size \in {volume.size, volume.next}
      /\ volume'.size = volume.next => volume.next = volume.size \/ volume.state = "modifying"
  BY <1>2 DEF EbsModifies
<1>4. volume.size \in Nat /\ volume.next \in Nat /\ fs \in Nat
  BY <1>2, Configuration DEF Sizes
<1>5. fs' <= volume'.size
  <2>1. fs' = fs /\ fs <= volume.size
    BY <1>1, <1>2 DEF Grows
  <2>2. CASE volume'.size = volume.size
    BY <2>1, <2>2
  <2>3. CASE volume'.size = volume.next /\ volume.next > volume.size
    BY <1>4, <2>1, <2>3
  <2> QED BY <1>2, <1>3, <2>2, <2>3 DEF Grows
<1>6. Grows'
  BY <1>3, <1>5 DEF Grows
<1>7. fs' \in Sizes /\ used' \in 0..fs' /\ script' \in {"none", "running", "ok", "failed"}
      /\ UNCHANGED <<Settings, Controller>>
  BY <1>1, <1>2
<1> QED BY <1>1, <1>3, <1>6, <1>7, OutsideStep

LEMMA ScriptRunsStep == ASSUME IInv, ScriptRuns PROVE IInv'
<1>1. /\ UNCHANGED <<volume, used, Settings, Controller>>
      /\ Fault \/ UNCHANGED faults
      /\ script' \in {"ok", "failed"} /\ fs' \in {fs, volume.size}
  BY DEF ScriptRuns
<1>2. volume \in [size : Sizes, next : Sizes, since : 0..Cooldown,
                  state : {"none", "modifying", "optimizing", "completed", "failed"}]
      /\ fs \in Sizes /\ used \in 0..fs /\ Grows
  BY DEF IInv, TypeOK
<1>3. volume.size \in Nat /\ fs \in Nat /\ fs <= volume.size
  BY <1>2, Configuration DEF Sizes, Grows
<1>4. fs' \in Sizes /\ used' \in 0..fs' /\ Grows'
  BY <1>1, <1>2, <1>3 DEF Grows
<1> QED BY <1>1, <1>2, <1>4, OutsideStep

LEMMA UseDiskStep == ASSUME IInv, UseDisk PROVE IInv'
<1>1. /\ UNCHANGED <<volume, fs, script, Settings, faults, Controller>>
      /\ used' \in {0, fs}
  BY DEF UseDisk
<1>2. fs \in Nat
  BY Configuration DEF IInv, TypeOK, Sizes
<1>3. Grows'
  BY <1>1 DEF IInv, Grows
<1> QED BY <1>1, <1>2, <1>3, OutsideStep DEF IInv, TypeOK

LEMMA TickStep == ASSUME IInv, Tick PROVE IInv'
<1>1. /\ UNCHANGED <<fs, used, script, Settings, faults, Controller>>
      /\ volume.since < Cooldown
      /\ volume' = [volume EXCEPT !.since = volume.since + 1]
  BY DEF Tick
<1>2. volume.since + 1 \in 0..Cooldown
  BY <1>1, Configuration DEF IInv, TypeOK
<1>3. volume' \in [size : Sizes, next : Sizes, since : 0..Cooldown,
                   state : {"none", "modifying", "optimizing", "completed", "failed"}]
      /\ volume'.state = volume.state /\ volume'.size = volume.size /\ volume'.next = volume.next
  BY <1>1, <1>2 DEF IInv, TypeOK
<1>4. Grows'
  BY <1>1, <1>3 DEF IInv, Grows
<1> QED BY <1>1, <1>3, <1>4, OutsideStep DEF IInv, TypeOK

LEMMA OperatorEditsStep == ASSUME IInv, OperatorEdits PROVE IInv'
<1>1. /\ UNCHANGED <<Infrastructure, dryRun, pass, faults>>
      /\ edits' \in 0..MaxEdits
  BY Configuration DEF OperatorEdits, IInv, TypeOK
<1>2. node \in CordonNode /\ owner \in {"nobody", "addon", "operator"}
      /\ paused \in BOOLEAN /\ late \in BOOLEAN /\ ForeignCordon
  BY DEF IInv, TypeOK
<1>3. \/ UNCHANGED <<node, late>>
      \/ late' = TRUE
  BY DEF OperatorEdits
<1>4. /\ node' \in CordonNode /\ late' \in BOOLEAN
      /\ owner' \in {"nobody", "addon", "operator"} /\ paused' \in BOOLEAN
  <2>1. CASE /\ node' = [node EXCEPT !.unschedulable = ~@]
             /\ owner' = IF node.unschedulable THEN "nobody" ELSE "operator"
             /\ late' = TRUE /\ UNCHANGED paused
    BY <1>2, <2>1 DEF CordonNode
  <2>2. CASE /\ node' = [node EXCEPT !.protective = FALSE]
             /\ owner' = IF node.unschedulable THEN "operator" ELSE "nobody"
             /\ late' = TRUE /\ UNCHANGED paused
    BY <1>2, <2>2 DEF CordonNode
  <2>3. CASE paused' = ~paused /\ UNCHANGED <<node, owner, late>>
    BY <1>2, <2>3
  <2> QED BY <2>1, <2>2, <2>3 DEF OperatorEdits
<1>5. TypeOK'
  BY <1>1, <1>4 DEF IInv, TypeOK, Infrastructure
<1>6. Grows' /\ Checked'
  BY <1>1 DEF IInv, Grows, Checked, Infrastructure, StepUp
<1>7. ForeignCordon'
  BY <1>1, <1>2, <1>3 DEF ForeignCordon, Tells, Foreign
<1> QED BY <1>5, <1>6, <1>7 DEF IInv

-----------------------------------------------------------------------------
LEMMA Initially == ASSUME Init PROVE IInv
<1>1. TypeOK
  <2>1. node \in CordonNode /\ owner = "nobody" /\ late \in BOOLEAN
        /\ paused \in BOOLEAN /\ dryRun \in BOOLEAN /\ script = "none" /\ pass = Idle
    BY DEF Init, CordonNode
  <2>2. faults \in 0..MaxFaults /\ edits \in 0..MaxEdits /\ fs \in Sizes /\ used \in 0..fs
    BY Configuration DEF Init, Sizes
  <2>3. volume \in [size : Sizes, next : Sizes, since : 0..Cooldown,
                    state : {"none", "modifying", "optimizing", "completed", "failed"}]
    BY Configuration DEF Init, Sizes
  <2> QED BY <2>1, <2>2, <2>3, IdleType DEF TypeOK
<1>2. Grows /\ Checked /\ ForeignCordon
  BY Configuration, IdleType DEF Init, Grows, Checked, ForeignCordon
<1> QED BY <1>1, <1>2 DEF IInv

LEMMA EveryStep == ASSUME IInv, [Next]_vars PROVE IInv'
<1>1. CASE UNCHANGED vars
  BY <1>1 DEF vars, IInv, TypeOK, Grows, Checked, ForeignCordon, Tells, Foreign, StepUp
<1>2. CASE Next
  BY <1>2, StartPassStep, ListNodesStep, MeasureStep, ApplyCordonStep, ReleaseCordonStep,
     SyncConditionStep, CheckGrowthStep, ModifyVolumeStep, WaitForModificationStep,
     SendScriptStep, AwaitScriptStep, VerifyStep, DropPassStep, EbsModifiesStep,
     ScriptRunsStep, UseDiskStep, TickStep, OperatorEditsStep
     DEF Next, Pass
<1> QED BY <1>1, <1>2

LEMMA Inductive == Spec => []IInv
BY Initially, EveryStep, PTL DEF Spec

\* Whatever the policies are, however stale the size a pass computes from and
\* wherever passes are dropped, the volume stays within maxCapacity and the
\* filesystem within the volume.
THEOREM VolumeNeverOvergrown == Spec => []NeverOvergrown
<1>1. IInv => NeverOvergrown
  BY Configuration DEF IInv, TypeOK, Grows, NeverOvergrown, Sizes
<1> QED BY <1>1, Inductive, PTL

\* Between CheckGrowth and ModifyVolume the cooldown that was checked still holds,
\* so two modifications begin at least the cooldown apart (resizer.rs,
\* cooldown_block), and each one grows the volume.
THEOREM CooldownRespected == Spec => ModificationsSpaced
<1> DEFINE Spaced ==
      volume'.state = "modifying" /\ volume.state # "modifying" =>
        /\ volume.state # "none" /\ pass.request # "fallback" => volume.since = Cooldown
        /\ volume'.next > volume.size
<1>1. IInv /\ [Next]_vars => [Spaced]_vars
  <2> SUFFICES ASSUME IInv, Next, volume'.state = "modifying", volume.state # "modifying"
               PROVE  Spaced
    BY DEF vars
  <2>1. volume' # volume
    OBVIOUS
  <2>2. CASE ModifyVolume
    <3>1. /\ pass.at = "modify" /\ volume' = Modified /\ Acceptable(StepUp(pass.current))
      BY <2>1, <2>2 DEF ModifyVolume, At
    <3>2. volume'.next = StepUp(pass.current)
      BY <3>1 DEF Modified, IInv, TypeOK
    <3> QED BY <3>1, <3>2 DEF Acceptable, IInv, Checked
  <2>3. CASE EbsModifies
    BY <2>3 DEF EbsModifies, IInv, TypeOK
  <2>4. CASE Tick
    BY <2>4 DEF Tick, IInv, TypeOK
  <2> QED BY <2>1, <2>2, <2>3, <2>4
          DEF Next, Pass, StartPass, ListNodes, Measure, ApplyCordon, ReleaseCordon,
              SyncCondition, CheckGrowth, WaitForModification, SendScript, AwaitScript,
              Verify, DropPass, ScriptRuns, UseDisk, OperatorEdits, Infrastructure
<1> QED BY <1>1, Inductive, PTL DEF Spec, ModificationsSpaced

\* The decisions that cordon.rs takes on a listing minutes old are safe where the
\* operator has not edited the Node since: a cordon without our mark is neither
\* marked nor lifted, through failed calls, dropped passes and whatever was edited
\* before.
THEOREM OperatorCordonKept == Spec => ForeignCordonKept
<1>1. IInv /\ [Next]_vars => [Foreign /\ ~late /\ edits' = edits => Foreign']_vars
  <2> SUFFICES ASSUME IInv, Next, Foreign, ~late, edits' = edits
               PROVE  Foreign'
    BY DEF vars, Foreign
  <2>1. /\ pass.at # "idle" /\ pass.node # Unlisted =>
              pass.node.unschedulable /\ ~pass.node.protective
    BY ListedNode DEF Foreign
  <2>2. ApplyCordon => UNCHANGED node
    <3> SUFFICES ASSUME ApplyCordon PROVE UNCHANGED node
      OBVIOUS
    <3>1. LeavesAlone(pass.node)
      BY <2>1 DEF ApplyCordon, At, LeavesAlone, Listed
    <3> QED BY <3>1 DEF ApplyCordon
  <2>3. ReleaseCordon => UNCHANGED node
    <3> SUFFICES ASSUME ReleaseCordon PROVE UNCHANGED node
      OBVIOUS
    <3>1. ~pass.node.protective
      BY <2>1 DEF ReleaseCordon, At, Unlisted
    <3> QED BY <3>1 DEF ReleaseCordon
  <2>4. SyncCondition => Foreign'
    BY DEF SyncCondition, Foreign, IInv, TypeOK, CordonNode
  <2>5. ~OperatorEdits
    BY DEF OperatorEdits, IInv, TypeOK
  <2> QED BY <2>2, <2>3, <2>4, <2>5
          DEF Next, Pass, StartPass, ListNodes, Measure, CheckGrowth,
              ModifyVolume, WaitForModification, SendScript, AwaitScript, Verify, DropPass,
              EbsModifies, ScriptRuns, UseDisk, Tick, Controller, Foreign
<1> QED BY <1>1, Inductive, PTL DEF Spec, ForeignCordonKept

-----------------------------------------------------------------------------
(***************************************************************************)
(* Part two: the kubernetes-upgrade-operator.                              *)
(*                                                                         *)
(* The invariant relates four things that move at different times: the     *)
(* stored status, the copy of it the controller acts on, the updates EKS   *)
(* carries out and the cluster.  Sound says what a status promises of the  *)
(* cluster in each phase, Follows how far the stored status can be ahead   *)
(* of the cached one.  The proof goes by the phase of the cached status:   *)
(* before the run (Calm) nothing is updated and a plan is exact or absent; *)
(* in a run, a reconcile keeps the plan and either saves a status that the *)
(* cluster bears out or loses its patch, and then the update it asked for  *)
(* is on record already, or unknown.                                       *)
(***************************************************************************)
\* The phases before anything of the cluster is touched.
Calm == {"Pending", "Planning", "PreflightChecking"}
\* The run of the resource is not over.
Running(s) == s.phase \notin Terminal

\* The type of the variables that UpgradeTypeOK states in part only.
SpecType == [gen : 1..MaxGeneration, mode : {"Forward", "Rollback"}, target : Versions,
             dry : BOOLEAN, karp : BOOLEAN]

ClusterType == [cp : Versions, addons : Versions, ng : [NodeGroups -> Versions],
                kn : [version : Versions, draining : BOOLEAN]]

\* The update a status has on record is the one of its current step, and a
\* status without a step has no plan.
Recorded(s) ==
    /\ s.cpId # None => s.step \in 1..Len(s.path) /\ s.cpId = s.path[s.step]
    /\ s.step = None => s.path = <<>> /\ s.cpId = None

\* The type of the whole state.
Typed ==
    /\ spec \in SpecType
    /\ status \in StatusType
    /\ seen \in [spec : SpecType, status : StatusType]
    /\ cluster \in ClusterType
    /\ updating \in [Resources -> VersionOrNone]
    /\ failed \in [Resources -> VersionOrNone]
    /\ errors \in 0..MaxErrors
    /\ parked \in BOOLEAN /\ omitted \subseteq Resources
    /\ abandoned \in BOOLEAN
    /\ moved \in [dir : {"none", "up", "down"}, since : BOOLEAN]
    /\ Recorded(status) /\ Recorded(seen.status)

\* A status that holds no plan.
Blank(s) ==
    /\ s.step = None /\ s.path = <<>> /\ s.cpId = None /\ s.planned = None
    /\ s.addons = None /\ DOMAIN s.ng = {}

\* The entry of a node group that the plan has just made.
Waiting == [st |-> "Pending", id |-> None]

\* The plan that planning::execute would make of the cluster as it is now, but
\* for what is in K, which it may leave out.
ExactBut(s, K) ==
    /\ PlanPossible(spec.mode, cluster.cp, spec.target)
    /\ s.path = UpgradePath(spec.mode, cluster.cp, spec.target)
    /\ s.step = IF s.path = <<>> THEN 0 ELSE 1
    /\ s.cpId = None /\ s.planned = spec.target
    /\ s.addons \in {None, "Pending"}
    /\ s.addons = None /\ AddonsPlanned(spec.mode, spec.target) => "addons" \in K
    /\ \A n \in DOMAIN s.ng : s.ng[n] = Waiting
    /\ \A n \in NodeGroups \ DOMAIN s.ng : cluster.ng[n] = spec.target \/ n \in K

\* The plan with nothing missing but what the history counts as left out.
Exact(s) == ExactBut(s, omitted)

\* The phases of a forward run that change the cluster.
ForwardPhases == {"UpgradingControlPlane", "UpgradingAddons", "UpgradingNodeGroups",
                  "UpgradingKarpenterNodePools"}

\* The path counts up to the target one minor at a time, and down by one step.
PathPart(s) ==
    /\ s.planned = spec.target /\ s.step # None
    /\ \A i \in 1..Len(s.path) : s.path[i] + Len(s.path) = spec.target + i
    /\ spec.mode = "Rollback" => Len(s.path) <= 1

\* The version from which one step leads to v.
Before(v) == IF spec.mode = "Forward" THEN v - 1 ELSE v + 1

\* The control plane is at the step the status counts: before it or after it.
\* Its update is on record in its own phase only, and the later phases of a
\* forward run find it at the target.
CpPart(s) ==
    /\ \/ s.step = 0 /\ s.path = <<>> /\ cluster.cp = spec.target
       \/ s.step \in 1..Len(s.path) /\ cluster.cp \in {Before(s.path[s.step]), s.path[s.step]}
       \/ s.path # <<>> /\ s.step = Len(s.path) + 1 /\ cluster.cp = spec.target
    /\ s.phase \notin ControlPlanePhases => s.cpId = None
    /\ spec.mode = "Forward" /\ s.phase # "UpgradingControlPlane" => cluster.cp = spec.target
    /\ s.cpId # None => s.cpId \in {updating["cp"], failed["cp"], cluster.cp}

\* A node group is where its entry says; none is begun before its phase, and all
\* are done after it.
NgPart(s) ==
    /\ \A n \in NodeGroups \ DOMAIN s.ng : cluster.ng[n] = spec.target \/ n \in omitted
    /\ \A n \in DOMAIN s.ng :
          \/ s.ng[n] = Waiting
          \/ /\ s.ng[n] = [st |-> "Completed", id |-> None]
             /\ cluster.ng[n] = spec.target
          \/ /\ s.ng[n] = [st |-> "InProgress", id |-> spec.target]
             /\ spec.target \in {updating[n], failed[n], cluster.ng[n]}
    /\ s.phase \in {"UpgradingControlPlane", "UpgradingAddons"} =>
          \A n \in DOMAIN s.ng : s.ng[n] = Waiting
    /\ s.phase \in {"UpgradingKarpenterNodePools", "RollingBackAddons", "RollingBackControlPlane"} =>
          \A n \in DOMAIN s.ng : s.ng[n].st = "Completed"

\* The add-ons are where their entry says, and done when the node groups begin.
AddonPart(s) ==
    /\ s.addons = None /\ spec.mode = "Forward" =>
          cluster.addons = spec.target \/ "addons" \in omitted
    /\ s.addons = "Completed" => cluster.addons = spec.target
    /\ s.addons = "InProgress" => \/ updating["addons"] # None \/ failed["addons"] # None
                                  \/ cluster.addons = spec.target
    /\ s.phase \in {"UpgradingNodeGroups", "UpgradingKarpenterNodePools"} =>
          s.addons \in {None, "Completed"}

\* The Karpenter pool is reported done when its node has the target version.
KarpPart(s) ==
    spec.karp => \/ s.karp \in {"Pending", "InProgress"}
                 \/ /\ s.karp = "Completed" /\ s.phase = "UpgradingKarpenterNodePools"
                    /\ cluster.kn.version >= spec.target

\* The status of a run that has passed its preflight checks.
Underway(s) ==
    /\ ~spec.dry
    /\ s.phase \in ForwardPhases <=> spec.mode = "Forward"
    /\ PathPart(s) /\ CpPart(s) /\ NgPart(s) /\ AddonPart(s) /\ KarpPart(s)

\* A rollback whose last transition was one has nothing to roll back.
LastPart(s) ==
    s.step # None /\ spec.mode = "Rollback" /\ s.last = "Rollback" =>
        spec.dry \/ cluster.cp = spec.target

\* What the status says of the cluster, phase by phase.
Sound(s) ==
    /\ s.phase = "Pending" => Blank(s)
    /\ s.phase = "Planning" => Blank(s) \/ Exact(s)
    /\ s.phase = "PreflightChecking" => Exact(s) /\ (spec.karp => s.karp = "Pending")
    /\ s.phase \notin Calm => Underway(s)
    /\ LastPart(s)

\* Two specs that differ in their generation only.
SameWish(a, b) == a.mode = b.mode /\ a.target = b.target /\ a.dry = b.dry /\ a.karp = b.karp

\* t is a later status of the run s is in.
SamePlan(s, t) ==
    /\ t.step # None /\ t.path = s.path /\ t.planned = s.planned
    /\ DOMAIN t.ng = DOMAIN s.ng
    /\ t.addons = None <=> s.addons = None

\* What the stored status t can be when the cache still shows s: the cache never
\* lags behind by more than the phase in which an update was asked for.
Follows(s, t) ==
    /\ s.phase \in Calm => Blank(t) \/ Exact(t)
    /\ s.phase = "Pending" => Blank(t)
    /\ s.phase = "PreflightChecking" => SamePlan(s, t)
    /\ s.phase \notin Calm => SamePlan(s, t) /\ t.phase \notin Calm
    /\ t.cpId # None => s.phase \in ControlPlanePhases /\ t.step = s.step
    /\ \A n \in DOMAIN t.ng : t.ng[n].id # None =>
          s.phase \in NodeGroupPhases /\ t.ng[n].id = spec.target
    /\ spec.mode = "Rollback" /\ t.last = "Rollback" =>
          s.last = "Rollback" \/ spec.dry \/ cluster.cp = spec.target
    /\ spec.mode = "Rollback" /\ s.last = "Rollback" /\ s.step = None => Blank(t)

\* No node that plans did not leave out, and no update of one, is ahead of the
\* control plane or of where the control plane is being taken; the two are never
\* updated at once.
Nodes ==
    /\ \A n \in NodeGroups :
          /\ n \in omitted \/ cluster.ng[n] <= cluster.cp
          /\ updating[n] # None => updating["cp"] = None /\ updating[n] <= cluster.cp
          /\ updating["cp"] # None => n \in omitted \/ cluster.ng[n] <= updating["cp"]
    /\ updating["cp"] # None => updating["cp"] # cluster.cp

\* A rollback that has moved the control plane and has not reported it yet.
AtTarget(s) ==
    /\ Running(s) /\ spec.mode = "Rollback" /\ Len(s.path) = 1 /\ s.step = 1
    /\ cluster.cp = spec.target

\* Once the control plane has been rolled back, the record that forbids the next
\* rollback is there, or the run that will write it is.
Guarded(s) == moved.dir = "down" /\ ~moved.since => s.last = "Rollback" \/ AtTarget(s)

\* The invariant as long as no update is unknown to the status.
Core ==
    /\ ~Unknown
    /\ Nodes
    /\ status.phase \in Calm \/ seen.status.phase \in Calm => \A r \in Resources : updating[r] = None
    /\ Running(status) => Sound(status)
    /\ Running(seen.status) =>
          /\ SameWish(seen.spec, spec) /\ Sound(seen.status) /\ Follows(seen.status, status)
          /\ Guarded(seen.status)
    /\ ~Running(seen.status) => status.phase \in Terminal \cup {"Pending"}
    /\ Guarded(status)

\* The inductive invariant.
UpgradeInv == Typed /\ (~abandoned => Core)
-----------------------------------------------------------------------------
\* The types of the fields of a status.
Paths == UNION {[1..n -> Versions] : n \in 0..MaxVersion}
GroupState == [st : ComponentStatus, id : VersionOrNone]
GroupMaps == UNION {[D -> GroupState] : D \in SUBSET NodeGroups}
StepNumbers == 0..(MaxVersion + 1) \cup {None}
Batches == {None, "Draining", "WaitingControllerStable"}
Modes == {"Forward", "Rollback"}
States == ComponentStatus \cup {None}
Transitions == Modes \cup {None}
Generations == 0..MaxGeneration

\* The fields of a status, one by one.
LEMMA StatusIs ==
    StatusType =
      [phase : Phases, obs : Generations, path : Paths, step : StepNumbers,
       cpId : VersionOrNone, planned : VersionOrNone, addons : States,
       ng : GroupMaps, karp : States, batch : Batches, last : Transitions]
<1>1. {None, "Forward", "Rollback"} = Transitions
  BY DEF Modes, Transitions
<1> QED BY <1>1 DEF StatusType, Paths, GroupState, GroupMaps, StepNumbers, Batches, Generations, States

\* A path is a sequence of versions.
LEMMA PathIs ==
    ASSUME NEW p \in Paths
    PROVE  /\ p \in Seq(Versions) /\ Len(p) \in 0..MaxVersion
           /\ \A i \in 1..Len(p) : p[i] \in Versions
           /\ p = <<>> <=> Len(p) = 0
<1>1. PICK n \in 0..MaxVersion : p \in [1..n -> Versions]
  BY DEF Paths
<1>2. n \in Nat
  BY <1>1, Bounds
<1>3. p \in Seq(Versions) /\ Len(p) = n
  BY <1>1, <1>2
<1> QED BY <1>1, <1>2, <1>3

\* The empty path is one.
LEMMA EmptyPath == <<>> \in Paths
<1>1. <<>> \in [1..0 -> Versions]
  OBVIOUS
<1> QED BY <1>1, Bounds DEF Paths

\* What the plan is made of is a path.
LEMMA UpgradePathIs ==
    ASSUME NEW mode \in Modes, NEW from \in Versions, NEW to \in Versions,
           PlanPossible(mode, from, to)
    PROVE  UpgradePath(mode, from, to) \in Paths
<1> USE Bounds DEF Versions
<1>1. CASE mode = "Forward"
  <2>1. to - from \in 0..MaxVersion /\ \A i \in 1..(to - from) : from + i \in Versions
    BY <1>1 DEF PlanPossible
  <2>2. [i \in 1..(to - from) |-> from + i] \in [1..(to - from) -> Versions]
    BY <2>1
  <2> QED BY <1>1, <2>1, <2>2 DEF UpgradePath, Paths
<1>2. CASE mode # "Forward" /\ to # from
  <2>1. 1 \in 0..MaxVersion
    BY <1>2 DEF PlanPossible
  <2>2. <<to>> \in [1..1 -> Versions]
    OBVIOUS
  <2> QED BY <1>2, <2>1, <2>2 DEF UpgradePath, Paths
<1> QED BY <1>1, <1>2, EmptyPath DEF UpgradePath

\* The group map of a status, with one entry replaced.
LEMMA GroupsAre ==
    /\ \A D \in SUBSET NodeGroups : \A f \in [D -> GroupState] : f \in GroupMaps
    /\ \A m \in GroupMaps : /\ DOMAIN m \in SUBSET NodeGroups
                            /\ m \in [DOMAIN m -> GroupState]
                            /\ \A n \in DOMAIN m : m[n] \in GroupState
    /\ \A m \in GroupMaps : \A n \in DOMAIN m : \A e \in GroupState : [m EXCEPT ![n] = e] \in GroupMaps
<1>1. \A m \in GroupMaps : DOMAIN m \in SUBSET NodeGroups /\ m \in [DOMAIN m -> GroupState]
  BY DEF GroupMaps
<1>2. \A D \in SUBSET NodeGroups : \A f \in [D -> GroupState] : f \in GroupMaps
  BY DEF GroupMaps
<1>3. \A m \in GroupMaps : \A n \in DOMAIN m : \A e \in GroupState : [m EXCEPT ![n] = e] \in GroupMaps
  <2> TAKE m \in GroupMaps
  <2> TAKE n \in DOMAIN m
  <2> TAKE e \in GroupState
  <2>1. [m EXCEPT ![n] = e] \in [DOMAIN m -> GroupState]
    BY <1>1
  <2> QED BY <1>1, <1>2, <2>1
<1> QED BY <1>1, <1>2, <1>3
-----------------------------------------------------------------------------
\* What a reconcile patches the status with.
Noted(s) == [s EXCEPT !.obs = seen.spec.gen,
                      !.last = IF s.phase = "Completed" THEN seen.spec.mode ELSE @]
\* What a failing step patches it with.
Erred(p) == [Old EXCEPT !.obs = seen.spec.gen, !.phase = p]

\* A status that may be written.
Writable(s) == s \in StatusType /\ Recorded(s)

\* The fields a merge patch writes, and the ones it leaves.
LEMMA MergeFields ==
    ASSUME NEW x \in StatusType
    PROVE  /\ MergePatch(x).phase = x.phase
           /\ MergePatch(x).obs = x.obs
           /\ MergePatch(x).path = IF x.path = <<>> THEN status.path ELSE x.path
           /\ MergePatch(x).step = IF x.step = None THEN status.step ELSE x.step
           /\ MergePatch(x).cpId = IF x.step = None THEN status.cpId ELSE x.cpId
           /\ MergePatch(x).planned = IF x.planned = None THEN status.planned ELSE x.planned
           /\ MergePatch(x).addons = IF x.addons = None THEN status.addons ELSE x.addons
           /\ MergePatch(x).ng = IF DOMAIN x.ng = {} THEN status.ng ELSE x.ng
           /\ MergePatch(x).karp = IF x.karp = None THEN status.karp ELSE x.karp
           /\ MergePatch(x).last = IF x.last = None THEN status.last ELSE x.last
BY StatusIs DEF MergePatch

\* Merging a status into the stored one gives a status.
LEMMA MergeWritable ==
    ASSUME Typed, NEW x, Writable(x)
    PROVE  Writable(MergePatch(x))
<1>1. x \in StatusType /\ status \in StatusType /\ Recorded(x) /\ Recorded(status)
  BY DEF Writable, Typed
<1>2. MergePatch(x) \in StatusType
  <2>1. \A s \in {x, status} :
           /\ s.phase \in Phases /\ s.obs \in Generations /\ s.path \in Paths
           /\ s.step \in StepNumbers /\ s.cpId \in VersionOrNone /\ s.planned \in VersionOrNone
           /\ s.addons \in States /\ s.ng \in GroupMaps
           /\ s.karp \in States /\ s.batch \in Batches
           /\ s.last \in Transitions
    BY <1>1, StatusIs
  <2> DEFINE a == IF x.path = <<>> THEN status.path ELSE x.path
             b == IF x.step = None THEN status.step ELSE x.step
             c == IF x.step = None THEN status.cpId ELSE x.cpId
             d == IF x.planned = None THEN status.planned ELSE x.planned
             e == IF x.addons = None THEN status.addons ELSE x.addons
             f == IF DOMAIN x.ng = {} THEN status.ng ELSE x.ng
             g == IF x.karp = None THEN status.karp ELSE x.karp
             h == IF x.karp = None THEN status.batch ELSE x.batch
             i == IF x.last = None THEN status.last ELSE x.last
  <2>2. /\ a \in Paths /\ b \in StepNumbers /\ c \in VersionOrNone /\ d \in VersionOrNone
        /\ e \in States /\ f \in GroupMaps /\ g \in States /\ h \in Batches /\ i \in Transitions
    BY ONLY <2>1
  <2>3. MergePatch(x) = [x EXCEPT !.path = a, !.step = b, !.cpId = c, !.planned = d, !.addons = e,
                                  !.ng = f, !.karp = g, !.batch = h, !.last = i]
    BY DEF MergePatch
  <2> HIDE DEF a, b, c, d, e, f, g, h, i
  <2> QED BY ONLY <1>1, <2>2, <2>3, StatusIs
<1>3. Recorded(MergePatch(x))
  <2>1. x.path \in Paths
    BY <1>1, StatusIs
  <2>2. CASE x.step = None
    BY <1>1, <2>2, MergeFields DEF Recorded
  <2>3. CASE x.step # None /\ x.path = <<>>
    <3>1. x.cpId = None
      BY <1>1, <2>1, <2>3, PathIs DEF Recorded
    <3> QED BY <1>1, <2>3, <3>1, MergeFields DEF Recorded
  <2>4. CASE x.step # None /\ x.path # <<>>
    BY <1>1, <2>4, MergeFields DEF Recorded
  <2> QED BY <2>2, <2>3, <2>4
<1> QED BY <1>2, <1>3 DEF Writable

\* The fields that noting the generation leaves alone.
LEMMA NotedFields ==
    ASSUME Typed, NEW x \in StatusType
    PROVE  /\ Noted(x) \in StatusType
           /\ Noted(x).phase = x.phase /\ Noted(x).path = x.path /\ Noted(x).step = x.step
           /\ Noted(x).cpId = x.cpId /\ Noted(x).planned = x.planned
           /\ Noted(x).addons = x.addons /\ Noted(x).ng = x.ng /\ Noted(x).karp = x.karp
           /\ Noted(x).last = IF x.phase = "Completed" THEN seen.spec.mode ELSE x.last
<1>1. seen.spec.gen \in Generations /\ seen.spec.mode \in Transitions
  BY Bounds DEF Typed, SpecType, Generations, Modes, Transitions
<1>2. x.last \in Transitions
  BY StatusIs
<1> QED BY ONLY <1>1, <1>2, x \in StatusType, StatusIs DEF Noted

\* The noted status may be written.
LEMMA NotedWritable ==
    ASSUME Typed, NEW x, Writable(x)
    PROVE  Writable(Noted(x))
<1>1. x \in StatusType
  BY DEF Writable
<1> QED BY <1>1, NotedFields DEF Writable, Recorded

\* The same for a failing step.
LEMMA ErredFields ==
    ASSUME Typed, NEW p \in Phases
    PROVE  /\ Erred(p) \in StatusType
           /\ Erred(p).phase = p /\ Erred(p).path = Old.path /\ Erred(p).step = Old.step
           /\ Erred(p).cpId = Old.cpId /\ Erred(p).planned = Old.planned
           /\ Erred(p).addons = Old.addons /\ Erred(p).ng = Old.ng /\ Erred(p).karp = Old.karp
           /\ Erred(p).last = Old.last
           /\ Writable(Erred(p))
<1>1. seen.spec.gen \in Generations /\ Old \in StatusType /\ Recorded(Old)
  BY Bounds DEF Typed, SpecType, Generations, Old
<1>2. /\ Erred(p) \in StatusType
      /\ Erred(p).phase = p /\ Erred(p).path = Old.path /\ Erred(p).step = Old.step
      /\ Erred(p).cpId = Old.cpId /\ Erred(p).planned = Old.planned
      /\ Erred(p).addons = Old.addons /\ Erred(p).ng = Old.ng /\ Erred(p).karp = Old.karp
      /\ Erred(p).last = Old.last
  BY <1>1, StatusIs DEF Erred
<1> QED BY <1>1, <1>2 DEF Writable, Recorded
-----------------------------------------------------------------------------
\* The fields of the cached status.
LEMMA OldIs ==
    ASSUME Typed
    PROVE  /\ Old \in StatusType /\ Recorded(Old) /\ Writable(Old)
           /\ Old.phase \in Phases /\ Old.path \in Paths /\ Old.step \in StepNumbers
           /\ Old.cpId \in VersionOrNone /\ Old.planned \in VersionOrNone
           /\ Old.addons \in States /\ Old.ng \in GroupMaps /\ Old.karp \in States
           /\ Old.batch \in Batches /\ Old.last \in Transitions
           /\ Mode \in Modes /\ seen.spec.target \in Versions
<1>1. Old \in StatusType /\ Recorded(Old)
  BY DEF Typed, Old
<1>2. Mode \in Modes /\ seen.spec.target \in Versions
  BY DEF Typed, SpecType, Modes, Mode
<1> QED BY <1>1, <1>2, StatusIs DEF Writable

\* Every handler goes on to a phase.
LEMMA PhasesAre ==
    /\ \A s, m : /\ AfterNodeGroups(s, m) \in Phases /\ AfterAddons(s, m) \in Phases
                 /\ AfterControlPlane(s, m) \in Phases /\ AfterPreflight(s, m) \in Phases
    /\ {"Pending", "Planning", "PreflightChecking", "Completed", "Failed"} \subseteq Phases
<1> USE DEF Phases, ControlPlanePhases, AddonPhases, NodeGroupPhases, Terminal
<1>1. {"Pending", "Planning", "PreflightChecking", "Completed", "Failed"} \subseteq Phases
  OBVIOUS
<1>2. ASSUME NEW s, NEW m PROVE AfterNodeGroups(s, m) \in Phases
  BY DEF AfterNodeGroups
<1>3. ASSUME NEW s, NEW m PROVE AfterAddons(s, m) \in Phases
  BY <1>2 DEF AfterAddons
<1>4. ASSUME NEW s, NEW m PROVE AfterControlPlane(s, m) \in Phases
  BY <1>3 DEF AfterControlPlane
<1>5. ASSUME NEW s, NEW m PROVE AfterPreflight(s, m) \in Phases
  BY <1>2, <1>4 DEF AfterPreflight
<1> QED BY <1>1, <1>2, <1>3, <1>4, <1>5

\* The variants of the status that the handlers write.
LEMMA PhaseVariant ==
    ASSUME Typed, NEW p \in Phases, NEW x, x = [Old EXCEPT !.phase = p]
    PROVE  /\ Writable(x) /\ x \in StatusType
           /\ x.phase = p /\ x.path = Old.path /\ x.step = Old.step /\ x.cpId = Old.cpId
           /\ x.planned = Old.planned /\ x.addons = Old.addons /\ x.ng = Old.ng
           /\ x.karp = Old.karp /\ x.last = Old.last
<1>1. /\ x \in StatusType
      /\ x.phase = p /\ x.path = Old.path /\ x.step = Old.step /\ x.cpId = Old.cpId
      /\ x.planned = Old.planned /\ x.addons = Old.addons /\ x.ng = Old.ng
      /\ x.karp = Old.karp /\ x.last = Old.last
  BY OldIs, StatusIs
<1> QED BY <1>1, OldIs DEF Writable, Recorded

\* ... with the update of the control plane replaced,
LEMMA UpdateVariant ==
    ASSUME Typed, NEW p \in Phases, NEW v \in VersionOrNone, NEW x,
           x = [Old EXCEPT !.cpId = v, !.phase = p],
           v # None => Old.step \in 1..Len(Old.path) /\ v = Old.path[Old.step]
    PROVE  /\ Writable(x) /\ x \in StatusType
           /\ x.phase = p /\ x.path = Old.path /\ x.step = Old.step /\ x.cpId = v
           /\ x.planned = Old.planned /\ x.addons = Old.addons /\ x.ng = Old.ng
           /\ x.karp = Old.karp /\ x.last = Old.last
<1>1. /\ x \in StatusType
      /\ x.phase = p /\ x.path = Old.path /\ x.step = Old.step /\ x.cpId = v
      /\ x.planned = Old.planned /\ x.addons = Old.addons /\ x.ng = Old.ng
      /\ x.karp = Old.karp /\ x.last = Old.last
  BY OldIs, StatusIs
<1>2. Old.step = None => v = None
  <2>1. None \notin 1..Len(Old.path)
    BY OldIs, PathIs, NamesDiffer, Bounds
  <2> QED BY <2>1
<1> QED BY <1>1, <1>2, OldIs DEF Writable, Recorded

\* ... with the step counted up,
LEMMA StepVariant ==
    ASSUME Typed, Old.cpId # None, NEW p \in Phases, NEW x,
           x = [Old EXCEPT !.step = Old.step + 1, !.cpId = None, !.phase = p]
    PROVE  /\ Writable(x) /\ x \in StatusType
           /\ x.phase = p /\ x.path = Old.path /\ x.step = Old.step + 1 /\ x.cpId = None
           /\ x.planned = Old.planned /\ x.addons = Old.addons /\ x.ng = Old.ng
           /\ x.karp = Old.karp /\ x.last = Old.last
           /\ x.step # None
<1>1. Old.step \in 1..Len(Old.path) /\ Len(Old.path) \in 0..MaxVersion
  BY OldIs, PathIs DEF Recorded
<1>2. Old.step + 1 \in 0..(MaxVersion + 1)
  BY <1>1, Bounds
<1>3. Old.step + 1 \in StepNumbers /\ Old.step + 1 # None /\ None \in VersionOrNone
  BY <1>2, NamesDiffer DEF StepNumbers, VersionOrNone
<1>4. /\ x \in StatusType
      /\ x.phase = p /\ x.path = Old.path /\ x.step = Old.step + 1 /\ x.cpId = None
      /\ x.planned = Old.planned /\ x.addons = Old.addons /\ x.ng = Old.ng
      /\ x.karp = Old.karp /\ x.last = Old.last
  BY <1>3, OldIs, StatusIs
<1> QED BY <1>3, <1>4 DEF Writable, Recorded

\* ... with the state of the add-ons replaced,
LEMMA AddonVariant ==
    ASSUME Typed, NEW p \in Phases, NEW a \in States, NEW x, x = [Old EXCEPT !.addons = a, !.phase = p]
    PROVE  /\ Writable(x) /\ x \in StatusType
           /\ x.phase = p /\ x.path = Old.path /\ x.step = Old.step /\ x.cpId = Old.cpId
           /\ x.planned = Old.planned /\ x.addons = a /\ x.ng = Old.ng
           /\ x.karp = Old.karp /\ x.last = Old.last
<1>1. /\ x \in StatusType
      /\ x.phase = p /\ x.path = Old.path /\ x.step = Old.step /\ x.cpId = Old.cpId
      /\ x.planned = Old.planned /\ x.addons = a /\ x.ng = Old.ng
      /\ x.karp = Old.karp /\ x.last = Old.last
  BY OldIs, StatusIs
<1> QED BY <1>1, OldIs DEF Writable, Recorded

\* ... with one node group replaced,
LEMMA GroupVariant ==
    ASSUME Typed, NEW p \in Phases, NEW n \in DOMAIN Old.ng, NEW e \in GroupState, NEW x,
           x = [Old EXCEPT !.ng[n] = e, !.phase = p]
    PROVE  /\ Writable(x) /\ x \in StatusType
           /\ x.phase = p /\ x.path = Old.path /\ x.step = Old.step /\ x.cpId = Old.cpId
           /\ x.planned = Old.planned /\ x.addons = Old.addons
           /\ x.ng = [Old.ng EXCEPT ![n] = e]
           /\ x.karp = Old.karp /\ x.last = Old.last
<1>1. [Old.ng EXCEPT ![n] = e] \in GroupMaps
  BY OldIs, GroupsAre
<1>2. x = [Old EXCEPT !.ng = [Old.ng EXCEPT ![n] = e], !.phase = p]
  BY OldIs, StatusIs
<1>3. /\ x \in StatusType
      /\ x.phase = p /\ x.path = Old.path /\ x.step = Old.step /\ x.cpId = Old.cpId
      /\ x.planned = Old.planned /\ x.addons = Old.addons
      /\ x.ng = [Old.ng EXCEPT ![n] = e]
      /\ x.karp = Old.karp /\ x.last = Old.last
  BY <1>1, <1>2, OldIs, StatusIs
<1> QED BY <1>3, OldIs DEF Writable, Recorded

\* ... with the Karpenter pool replaced,
LEMMA PoolVariant ==
    ASSUME Typed, NEW p \in Phases, NEW k \in States, NEW b \in Batches, NEW x,
           x = [Old EXCEPT !.karp = k, !.batch = b, !.phase = p]
    PROVE  /\ Writable(x) /\ x \in StatusType
           /\ x.phase = p /\ x.path = Old.path /\ x.step = Old.step /\ x.cpId = Old.cpId
           /\ x.planned = Old.planned /\ x.addons = Old.addons /\ x.ng = Old.ng
           /\ x.karp = k /\ x.last = Old.last
<1>1. /\ x \in StatusType
      /\ x.phase = p /\ x.path = Old.path /\ x.step = Old.step /\ x.cpId = Old.cpId
      /\ x.planned = Old.planned /\ x.addons = Old.addons /\ x.ng = Old.ng
      /\ x.karp = k /\ x.last = Old.last
  BY OldIs, StatusIs
<1> QED BY <1>1, OldIs DEF Writable, Recorded
\* ... and with the plan just made.
LEMMA PlannedVariant ==
    ASSUME Typed, NEW K, NEW x, x = Planned(K), PlanPossible(Mode, cluster.cp, seen.spec.target)
    PROVE  /\ Writable(x) /\ x \in StatusType
           /\ x.path = UpgradePath(Mode, cluster.cp, seen.spec.target)
           /\ x.step = (IF x.path = <<>> THEN 0 ELSE 1) /\ x.step # None
           /\ x.cpId = None /\ x.planned = seen.spec.target
           /\ x.addons = (IF AddonsPlanned(Mode, seen.spec.target) /\ "addons" \notin K
                         THEN "Pending" ELSE None)
           /\ DOMAIN x.ng = StaleNodeGroups(seen.spec.target) \ K
           /\ \A n \in DOMAIN x.ng : x.ng[n] = Waiting
           /\ x.karp = IF seen.spec.karp THEN "Pending" ELSE Old.karp
           /\ x.last = Old.last
           /\ x.phase \in {"Completed", "PreflightChecking"}
           /\ x.phase = "Completed" <=>
                /\ x.path = <<>> /\ x.addons = None /\ DOMAIN x.ng = {}
                /\ ~seen.spec.karp
<1> DEFINE path == UpgradePath(Mode, cluster.cp, seen.spec.target)
           step == IF path = <<>> THEN 0 ELSE 1
           addons == IF AddonsPlanned(Mode, seen.spec.target) /\ "addons" \notin K
                     THEN "Pending" ELSE None
           ng == [n \in StaleNodeGroups(seen.spec.target) \ K |-> [st |-> "Pending", id |-> None]]
           karp == IF seen.spec.karp THEN "Pending" ELSE Old.karp
           batch == IF seen.spec.karp THEN None ELSE Old.batch
           s == [Old EXCEPT !.path = path, !.step = step, !.cpId = None,
                            !.planned = seen.spec.target, !.addons = addons, !.ng = ng,
                            !.karp = karp, !.batch = batch]
           empty == path = <<>> /\ ~HasAddons(s) /\ ~HasNodeGroups(s) /\ ~seen.spec.karp
           p == IF empty THEN "Completed" ELSE "PreflightChecking"
<1>1. x = [s EXCEPT !.phase = p]
  BY DEF Planned
<1>2. path \in Paths
  BY OldIs, UpgradePathIs DEF Typed, ClusterType
<1>3. step \in StepNumbers /\ step # None /\ None \in VersionOrNone
  BY Bounds, NamesDiffer DEF StepNumbers, VersionOrNone
<1>4. addons \in States /\ karp \in States /\ batch \in Batches
  BY OldIs DEF States, ComponentStatus, Batches
<1>5. ng \in GroupMaps
  <2>1. StaleNodeGroups(seen.spec.target) \ K \in SUBSET NodeGroups
    BY DEF StaleNodeGroups
  <2>2. ng \in [StaleNodeGroups(seen.spec.target) \ K -> GroupState]
    BY <1>3 DEF GroupState, ComponentStatus
  <2> QED BY <2>1, <2>2, GroupsAre
<1>6. seen.spec.target \in VersionOrNone
  BY OldIs DEF VersionOrNone
<1>7. p \in Phases
  BY PhasesAre
<1> HIDE DEF path, step, addons, ng, karp, batch
<1>8. /\ s \in StatusType
      /\ s.path = path /\ s.step = step /\ s.cpId = None /\ s.planned = seen.spec.target
      /\ s.addons = addons /\ s.ng = ng /\ s.karp = karp /\ s.last = Old.last
  BY <1>2, <1>3, <1>4, <1>5, <1>6, OldIs, StatusIs
<1> HIDE DEF s
<1>9. empty <=> path = <<>> /\ addons = None /\ DOMAIN ng = {} /\ ~seen.spec.karp
  BY <1>8 DEF HasAddons, HasNodeGroups
<1> HIDE DEF empty
<1>10. p \in {"Completed", "PreflightChecking"} /\ (p = "Completed" <=> empty)
  OBVIOUS
<1> HIDE DEF p
<1>11. /\ x \in StatusType
       /\ x.path = path /\ x.step = step /\ x.cpId = None
       /\ x.planned = seen.spec.target /\ x.addons = addons /\ x.ng = ng
       /\ x.karp = karp /\ x.last = Old.last /\ x.phase = p
  BY <1>1, <1>7, <1>8, StatusIs
<1>12. Writable(x)
  BY <1>3, <1>11 DEF Writable, Recorded
<1> QED BY <1>3, <1>9, <1>10, <1>11, <1>12 DEF path, step, addons, ng, karp, Waiting

-----------------------------------------------------------------------------
\* The type of the history of moves.
MovedType == [dir : {"none", "up", "down"}, since : BOOLEAN]

\* What a save leaves and keeps.
LEMMA WriteTyped ==
    ASSUME Typed, NEW x, Writable(x), Write(x)
    PROVE  /\ Writable(status') /\ moved' \in MovedType
           /\ spec' = spec /\ seen' = seen /\ parked' \in BOOLEAN
<1>1. status' = MergePatch(Noted(x))
  BY DEF Write, Noted
<1>2. Writable(status')
  BY <1>1, NotedWritable, MergeWritable
<1>3. moved' \in MovedType
  BY DEF Write, Typed, MovedType
<1>4. parked' = parked /\ parked \in BOOLEAN
  BY DEF Write, Typed
<1> QED BY <1>2, <1>3, <1>4 DEF Write

\* ... with no error counted.
LEMMA SaveTyped ==
    ASSUME Typed, NEW x, Writable(x), Save(x)
    PROVE  /\ Writable(status') /\ moved' \in MovedType
           /\ spec' = spec /\ seen' = seen /\ parked' \in BOOLEAN /\ errors' \in 0..MaxErrors
BY WriteTyped DEF Save, Typed

\* What a failing step leaves and keeps.
LEMMA ErrorTyped ==
    ASSUME Typed, NEW p \in Phases, SaveError(p)
    PROVE  /\ Writable(status') /\ moved' \in MovedType
           /\ spec' = spec /\ seen' = seen
           /\ cluster' = cluster /\ updating' = updating /\ failed' = failed
           /\ parked' \in BOOLEAN /\ omitted' \subseteq Resources
<1>1. status' = MergePatch(Erred(p))
  BY DEF SaveError, Erred, Old
<1>2. parked' = parked /\ parked \in BOOLEAN
  BY DEF SaveError, Typed
<1> QED BY <1>1, <1>2, ErredFields, MergeWritable DEF SaveError, Typed, MovedType

\* What a lost patch leaves and keeps.
LEMMA SaveFailsTyped ==
    ASSUME Typed, SaveFails
    PROVE  /\ Writable(status') /\ moved' \in MovedType
           /\ spec' = spec /\ seen' = seen /\ parked' \in BOOLEAN /\ errors' \in 0..MaxErrors
<1>1. parked' = parked /\ parked \in BOOLEAN
  BY DEF SaveFails, Typed
<1> QED BY <1>1, Bounds DEF SaveFails, Typed, Writable, MovedType

\* The parts of the state a step of the controller can disturb.
LEMMA TypedParts ==
    ASSUME Typed, Writable(status'), moved' \in MovedType, spec' = spec, seen' = seen,
           errors' \in 0..MaxErrors, cluster' \in ClusterType,
           updating' \in [Resources -> VersionOrNone], failed' \in [Resources -> VersionOrNone],
           parked' \in BOOLEAN, omitted' \subseteq Resources, abandoned' \in BOOLEAN
    PROVE  Typed'
<1>1. Recorded(status)' /\ Recorded(seen.status)'
  BY DEF Typed, Writable, Recorded
<1> QED BY <1>1 DEF Typed, Writable, MovedType, SpecType, ClusterType
\* An update that EKS accepts keeps the types.
LEMMA StartTyped ==
    ASSUME Typed, NEW r \in Resources, NEW v \in VersionOrNone, StartUpdate(r, v)
    PROVE  /\ cluster' \in ClusterType
           /\ updating' \in [Resources -> VersionOrNone] /\ failed' \in [Resources -> VersionOrNone]
           /\ omitted' \subseteq Resources
BY DEF StartUpdate, Typed, VersionOrNone

\* A step that leaves the cluster alone keeps the types.
LEMMA QuietTyped ==
    ASSUME Typed, Quiet
    PROVE  /\ cluster' \in ClusterType
           /\ updating' \in [Resources -> VersionOrNone] /\ failed' \in [Resources -> VersionOrNone]
           /\ omitted' \subseteq Resources
BY DEF Quiet, Typed

\* The node group that is next.
LEMMA ActiveIs ==
    ASSUME Typed, ActiveNodeGroup(Old) # None
    PROVE  /\ ActiveNodeGroup(Old) \in DOMAIN Old.ng
           /\ Old.ng[ActiveNodeGroup(Old)].st # "Completed"
           /\ ActiveNodeGroup(Old) \in NodeGroups /\ ActiveNodeGroup(Old) \in Resources
<1>1. DOMAIN Old.ng \subseteq NodeGroups
  BY OldIs, GroupsAre
<1> QED BY <1>1 DEF ActiveNodeGroup, Resources

\* No node group is next when all are done.
LEMMA NoneActive ==
    ASSUME Typed, ActiveNodeGroup(Old) = None
    PROVE  \A n \in DOMAIN Old.ng : Old.ng[n].st = "Completed"
<1>1. DOMAIN Old.ng \subseteq NodeGroups /\ None \notin NodeGroups
  BY OldIs, GroupsAre, NamesDiffer
<1> QED BY <1>1 DEF ActiveNodeGroup

\* What process_update_result writes when an update succeeded.
LEMMA SucceededVariant ==
    ASSUME Typed, Old.cpId # None
    PROVE  /\ Writable(UpdateSucceeded) /\ UpdateSucceeded \in StatusType
           /\ UpdateSucceeded.path = Old.path /\ UpdateSucceeded.step = Old.step + 1
           /\ UpdateSucceeded.step # None
           /\ UpdateSucceeded.cpId = None /\ UpdateSucceeded.planned = Old.planned
           /\ UpdateSucceeded.addons = Old.addons /\ UpdateSucceeded.ng = Old.ng
           /\ UpdateSucceeded.karp = Old.karp /\ UpdateSucceeded.last = Old.last
           /\ UpdateSucceeded.phase = IF Old.step + 1 > Len(Old.path)
                                      THEN AfterControlPlane(Old, Mode) ELSE Old.phase
<1> DEFINE s == [Old EXCEPT !.step = Old.step + 1, !.cpId = None]
<1>1. s = [Old EXCEPT !.step = Old.step + 1, !.cpId = None, !.phase = Old.phase]
  BY OldIs, StatusIs
<1>2. /\ s \in StatusType /\ s.addons = Old.addons /\ s.ng = Old.ng /\ s.path = Old.path
      /\ s.karp = Old.karp
  BY <1>1, OldIs, StepVariant
<1>3. AfterControlPlane(s, Mode) = AfterControlPlane(Old, Mode)
  <2>1. /\ HasAddons(s) = HasAddons(Old) /\ HasNodeGroups(s) = HasNodeGroups(Old)
        /\ HasKarpenter(s) = HasKarpenter(Old) /\ HasCpSteps(s) = HasCpSteps(Old)
    BY <1>2 DEF HasAddons, HasNodeGroups, HasKarpenter, HasCpSteps
  <2>2. AfterNodeGroups(s, Mode) = AfterNodeGroups(Old, Mode)
    BY <2>1 DEF AfterNodeGroups
  <2>3. AfterAddons(s, Mode) = AfterAddons(Old, Mode)
    BY <2>1, <2>2 DEF AfterAddons
  <2> QED BY <2>1, <2>3 DEF AfterControlPlane
<1>4. CASE Old.step + 1 > Len(Old.path)
  <2>1. UpdateSucceeded = [s EXCEPT !.phase = AfterControlPlane(Old, Mode)]
    BY <1>3, <1>4 DEF UpdateSucceeded
  <2>2. UpdateSucceeded = [Old EXCEPT !.step = Old.step + 1, !.cpId = None,
                                      !.phase = AfterControlPlane(Old, Mode)]
    BY <2>1, OldIs, StatusIs
  <2> DEFINE q == AfterControlPlane(Old, Mode)
  <2>3. q \in Phases
    BY PhasesAre
  <2>4. UpdateSucceeded = [Old EXCEPT !.step = Old.step + 1, !.cpId = None, !.phase = q]
    BY <2>2
  <2> HIDE DEF q
  <2>5. /\ Writable(UpdateSucceeded) /\ UpdateSucceeded \in StatusType
        /\ UpdateSucceeded.path = Old.path /\ UpdateSucceeded.step = Old.step + 1
        /\ UpdateSucceeded.step # None
        /\ UpdateSucceeded.cpId = None /\ UpdateSucceeded.planned = Old.planned
        /\ UpdateSucceeded.addons = Old.addons /\ UpdateSucceeded.ng = Old.ng
        /\ UpdateSucceeded.karp = Old.karp /\ UpdateSucceeded.last = Old.last
        /\ UpdateSucceeded.phase = q
    BY <2>3, <2>4, StepVariant
  <2> QED BY <1>4, <2>5 DEF q
<1>5. CASE ~(Old.step + 1 > Len(Old.path))
  <2>1. UpdateSucceeded = [Old EXCEPT !.step = Old.step + 1, !.cpId = None, !.phase = Old.phase]
    BY <1>1, <1>5 DEF UpdateSucceeded
  <2> QED BY <1>5, <2>1, StepVariant, OldIs
<1> QED BY <1>4, <1>5
\* The reconciles up to the control plane keep the types.
LEMMA ControllerTyped ==
    ASSUME Typed, abandoned' \in BOOLEAN,
           \/ StartPending \/ Plan \/ IncompletePlan \/ Preflight
           \/ InitiateControlPlane \/ PollControlPlane \/ ControlPlaneTimeout
           \/ UpdateRefused \/ TransientError \/ PermanentError
    PROVE  Typed'
<1> USE OldIs
<1>0. \A p \in Phases : Writable([Old EXCEPT !.phase = p])
  BY PhaseVariant
<1>1. CASE StartPending
  <2>1. Writable([Old EXCEPT !.phase = "Planning"])
    BY <1>0, PhasesAre
  <2> QED BY <1>1, <2>1, SaveTyped, QuietTyped, TypedParts DEF StartPending
<1>2. CASE Plan
  <2>1. Writable([Old EXCEPT !.phase = "Failed"])
    BY <1>0, PhasesAre
  <2>2. CASE IsConsecutiveRollback(Mode, Old.last)
    BY <1>2, <2>1, <2>2, SaveTyped, QuietTyped, TypedParts DEF Plan
  <2>3. CASE ~IsConsecutiveRollback(Mode, Old.last) /\ PlanPossible(Mode, cluster.cp, seen.spec.target)
    BY <1>2, <2>3, PlannedVariant, SaveTyped, QuietTyped, TypedParts DEF Plan
  <2>4. CASE ~IsConsecutiveRollback(Mode, Old.last) /\ ~PlanPossible(Mode, cluster.cp, seen.spec.target)
    <3>1. SaveError("Failed") /\ errors' = errors
      BY <1>2, <2>4 DEF Plan
    <3> QED BY <3>1, PhasesAre, ErrorTyped, TypedParts DEF Typed
  <2> QED BY <2>2, <2>3, <2>4
<1>3. CASE Preflight
  <2>1. PICK p \in Phases : Save([Old EXCEPT !.phase = p])
    <3>1. AfterPreflight(Old, Mode) \in Phases /\ "Failed" \in Phases /\ "Completed" \in Phases
      BY PhasesAre
    <3> QED BY <1>3, <3>1 DEF Preflight
  <2> QED BY <1>0, <1>3, <2>1, SaveTyped, QuietTyped, TypedParts DEF Preflight
<1>4. CASE InitiateControlPlane
  <2> DEFINE v == Old.path[Old.step]
  <2>1. Old.step \in 1..Len(Old.path) /\ v \in VersionOrNone /\ StartUpdate("cp", v)
    BY <1>4, PathIs DEF InitiateControlPlane, VersionOrNone
  <2>2. Writable([Old EXCEPT !.cpId = v])
    <3>1. v # None => Old.step \in 1..Len(Old.path) /\ v = Old.path[Old.step]
      BY <2>1
    <3> HIDE DEF v
    <3>2. [Old EXCEPT !.cpId = v] = [Old EXCEPT !.cpId = v, !.phase = Old.phase]
      BY StatusIs
    <3> QED BY <2>1, <3>1, <3>2, UpdateVariant
  <2>3. Save([Old EXCEPT !.cpId = v]) \/ SaveFails
    BY <1>4 DEF InitiateControlPlane
  <2>4. "cp" \in Resources
    BY DEF Resources
  <2> HIDE DEF v
  <2> QED BY <2>1, <2>2, <2>3, <2>4, StartTyped, SaveTyped, SaveFailsTyped, TypedParts
<1>5. CASE PollControlPlane
  <2>1. Old.cpId # None /\ Quiet
    BY <1>5 DEF PollControlPlane
  <2>2. Writable(UpdateSucceeded)
    BY <2>1, SucceededVariant
  <2>3. Writable([Old EXCEPT !.cpId = None, !.phase = "Failed"])
    <3>1. None \in VersionOrNone /\ "Failed" \in Phases
      BY PhasesAre DEF VersionOrNone
    <3> QED BY <3>1, UpdateVariant
  <2>4. Save(UpdateSucceeded) \/ Save([Old EXCEPT !.cpId = None, !.phase = "Failed"])
    BY <1>5 DEF PollControlPlane
  <2> QED BY <2>1, <2>2, <2>3, <2>4, SaveTyped, QuietTyped, TypedParts
<1>6. CASE ControlPlaneTimeout
  <2> DEFINE y == [Old EXCEPT !.cpId = None, !.phase = "Failed"]
             x == [Old EXCEPT !.cpId = None, !.phase = "Failed", !.obs = seen.spec.gen]
  <2>0. None \in VersionOrNone /\ "Failed" \in Phases
    BY PhasesAre DEF VersionOrNone
  <2>1. Writable(y)
    BY <2>0, UpdateVariant
  <2>2. seen.spec.gen \in Generations
    BY Bounds DEF Typed, SpecType, Generations
  <2>3. x = [y EXCEPT !.obs = seen.spec.gen]
    BY StatusIs
  <2> HIDE DEF x, y
  <2>4. x \in StatusType /\ x.path = y.path /\ x.step = y.step /\ x.cpId = y.cpId
    BY <2>1, <2>2, <2>3, StatusIs DEF Writable
  <2>5. Writable(x)
    BY <2>1, <2>4 DEF Writable, Recorded
  <2>6. /\ status' = MergePatch(x) /\ Quiet /\ spec' = spec /\ seen' = seen /\ moved' = moved
        /\ errors' \in 0..MaxErrors /\ parked' = parked
    BY <1>6, Bounds DEF ControlPlaneTimeout, x, Typed
  <2> QED BY <2>5, <2>6, MergeWritable, QuietTyped, TypedParts DEF Typed, MovedType
<1>7. CASE UpdateRefused
  <2>1. SaveError(Old.phase) /\ errors' = errors
    BY <1>7 DEF UpdateRefused
  <2> QED BY <2>1, ErrorTyped, TypedParts DEF Typed
<1>8. CASE TransientError
  <2>1. SaveError(Old.phase) /\ errors' \in 0..MaxErrors
    BY <1>8, Bounds DEF TransientError, Typed
  <2> QED BY <2>1, ErrorTyped, TypedParts DEF Typed
<1>9. CASE PermanentError
  <2>1. errors' \in 0..MaxErrors
    BY <1>9, Bounds DEF PermanentError, Typed
  <2>2. CASE SaveError("Failed")
    BY <2>1, <2>2, PhasesAre, ErrorTyped, TypedParts DEF Typed
  <2>3. CASE ~SaveError("Failed")
    <3>1. /\ parked' = TRUE /\ Quiet
          /\ UNCHANGED <<spec, status, seen, moved>>
      BY <1>9, <2>3 DEF PermanentError
    <3>2. parked' \in BOOLEAN
      BY <3>1
    <3>3. Writable(status') /\ moved' \in MovedType
      BY <3>1 DEF Typed, Writable, MovedType
    <3> QED BY <2>1, <3>1, <3>2, <3>3, QuietTyped, TypedParts
  <2> QED BY <2>2, <2>3
<1>10. CASE IncompletePlan
  <2>1. PICK K \in SUBSET (Resources \ {"cp"}) :
           Write(Planned(K)) /\ omitted' = omitted \cup LeftOut(K)
    BY <1>10 DEF IncompletePlan
  <2>2. Writable(Planned(K))
    BY <1>10, PlannedVariant DEF IncompletePlan
  <2>3. omitted' \subseteq Resources
    BY <2>1 DEF LeftOut, Typed
  <2>4. /\ errors' \in 0..MaxErrors /\ cluster' \in ClusterType
        /\ updating' \in [Resources -> VersionOrNone] /\ failed' \in [Resources -> VersionOrNone]
    BY <1>10, Bounds DEF IncompletePlan, Typed
  <2> QED BY <2>1, <2>2, <2>3, <2>4, WriteTyped, TypedParts
<1> QED BY <1>1, <1>2, <1>3, <1>4, <1>5, <1>6, <1>7, <1>8, <1>9, <1>10
\* The reconciles after the control plane keep the types.
LEMMA ComponentsTyped ==
    ASSUME Typed, abandoned' \in BOOLEAN,
           \/ Addons \/ NodeGroupsDone \/ InitiateNodeGroup \/ PollNodeGroup \/ NodeGroupTimeout
           \/ KarpenterDone \/ StartNextBatch \/ AdvanceBatch
    PROVE  Typed'
<1> USE OldIs
<1>0. \A p \in Phases : Writable([Old EXCEPT !.phase = p])
  BY PhaseVariant
<1>1. CASE Addons
  <2>1. \A a \in States : Writable([Old EXCEPT !.addons = a])
    <3> TAKE a \in States
    <3>1. [Old EXCEPT !.addons = a] = [Old EXCEPT !.addons = a, !.phase = Old.phase]
      BY StatusIs
    <3> QED BY <3>1, AddonVariant
  <2>2. "Failed" \in Phases /\ {"InProgress", "Completed", "Failed"} \subseteq States
    BY PhasesAre DEF States, ComponentStatus
  <2>3. Writable([Old EXCEPT !.addons = "Failed", !.phase = "Failed"])
    BY <2>2, AddonVariant
  <2>4. CASE Quiet
    <3>1. \/ Save([Old EXCEPT !.phase = AfterAddons(Old, Mode)])
          \/ Save([Old EXCEPT !.addons = "Completed"])
          \/ Save([Old EXCEPT !.addons = "Failed", !.phase = "Failed"])
          \/ Save([Old EXCEPT !.addons = "InProgress"])
          \/ SaveFails
      BY <1>1 DEF Addons
    <3>2. Writable([Old EXCEPT !.phase = AfterAddons(Old, Mode)])
      BY <1>0, PhasesAre
    <3> QED BY <2>1, <2>2, <2>3, <2>4, <3>1, <3>2, SaveTyped, SaveFailsTyped, QuietTyped, TypedParts
  <2>5. CASE StartUpdate("addons", Old.planned) /\ (Save([Old EXCEPT !.addons = "InProgress"]) \/ SaveFails)
    <3>1. "addons" \in Resources
      BY DEF Resources
    <3> QED BY <2>1, <2>2, <2>5, <3>1, SaveTyped, SaveFailsTyped, StartTyped, TypedParts
  <2> QED BY <1>1, <2>4, <2>5 DEF Addons
<1>2. CASE NodeGroupsDone
  <2>1. Writable([Old EXCEPT !.phase = AfterNodeGroups(Old, Mode)])
    BY <1>0, PhasesAre
  <2> QED BY <1>2, <2>1, SaveTyped, QuietTyped, TypedParts DEF NodeGroupsDone
<1>3. ASSUME NEW n, n = ActiveNodeGroup(Old), n # None, NEW e \in GroupState, NEW p \in Phases
      PROVE  Writable([Old EXCEPT !.ng[n] = e, !.phase = p]) /\ Writable([Old EXCEPT !.ng[n] = e])
  <2>1. n \in DOMAIN Old.ng
    BY <1>3, ActiveIs
  <2>2. [Old EXCEPT !.ng[n] = e] = [Old EXCEPT !.ng[n] = e, !.phase = Old.phase]
    BY StatusIs
  <2>3. Writable([Old EXCEPT !.ng[n] = e, !.phase = p])
    BY <2>1, GroupVariant
  <2>4. Writable([Old EXCEPT !.ng[n] = e])
    <3>1. Writable([Old EXCEPT !.ng[n] = e, !.phase = Old.phase])
      BY <2>1, GroupVariant
    <3> QED BY <2>2, <3>1
  <2> QED BY <2>3, <2>4
<1>4. /\ [st |-> "InProgress", id |-> Old.planned] \in GroupState
      /\ [st |-> "Completed", id |-> None] \in GroupState
      /\ [st |-> "Failed", id |-> None] \in GroupState
      /\ "Failed" \in Phases
  BY PhasesAre DEF GroupState, ComponentStatus, VersionOrNone
<1>5. CASE InitiateNodeGroup
  <2>1. PICK n : /\ n = ActiveNodeGroup(Old) /\ n # None /\ StartUpdate(n, Old.planned)
                 /\ \/ Save([Old EXCEPT !.ng[n] = [st |-> "InProgress", id |-> Old.planned]])
                    \/ SaveFails
    BY <1>5 DEF InitiateNodeGroup
  <2>2. n \in Resources
    BY <2>1, ActiveIs
  <2>3. Writable([Old EXCEPT !.ng[n] = [st |-> "InProgress", id |-> Old.planned]])
    BY <1>3, <1>4, <2>1
  <2> QED BY <2>1, <2>2, <2>3, StartTyped, SaveTyped, SaveFailsTyped, TypedParts
<1>6. CASE PollNodeGroup
  <2>1. PICK n : /\ n = ActiveNodeGroup(Old) /\ n # None
                 /\ \/ Save([Old EXCEPT !.ng[n] = [st |-> "Completed", id |-> None]])
                    \/ Save([Old EXCEPT !.ng[n] = [st |-> "Failed", id |-> None], !.phase = "Failed"])
    BY <1>6 DEF PollNodeGroup
  <2>2. Writable([Old EXCEPT !.ng[n] = [st |-> "Completed", id |-> None]])
    BY <1>3, <1>4, <2>1
  <2>3. Writable([Old EXCEPT !.ng[n] = [st |-> "Failed", id |-> None], !.phase = "Failed"])
    BY <1>3, <1>4, <2>1
  <2>4. Quiet
    BY <1>6 DEF PollNodeGroup
  <2> QED BY <2>1, <2>2, <2>3, <2>4, SaveTyped, QuietTyped, TypedParts
<1>7. CASE NodeGroupTimeout
  <2>1. PICK n : /\ n = ActiveNodeGroup(Old) /\ n # None
                 /\ status' = MergePatch([Old EXCEPT !.ng[n] = [st |-> "Failed", id |-> None],
                                             !.phase = "Failed", !.obs = seen.spec.gen])
    BY <1>7 DEF NodeGroupTimeout
  <2> DEFINE y == [Old EXCEPT !.ng[n] = [st |-> "Failed", id |-> None], !.phase = "Failed"]
             x == [Old EXCEPT !.ng[n] = [st |-> "Failed", id |-> None], !.phase = "Failed",
                              !.obs = seen.spec.gen]
  <2>2. Writable(y)
    BY <1>3, <1>4, <2>1
  <2>3. x = [y EXCEPT !.obs = seen.spec.gen]
    OBVIOUS
  <2>4. seen.spec.gen \in Generations
    BY Bounds DEF Typed, SpecType, Generations
  <2>5. status' = MergePatch(x)
    BY <2>1
  <2> HIDE DEF x, y
  <2>6. x \in StatusType /\ x.path = y.path /\ x.step = y.step /\ x.cpId = y.cpId
    BY <2>2, <2>3, <2>4, StatusIs DEF Writable
  <2>7. Writable(x)
    BY <2>2, <2>6 DEF Writable, Recorded
  <2>8. /\ Quiet /\ spec' = spec /\ seen' = seen /\ moved' = moved
        /\ errors' \in 0..MaxErrors /\ parked' = parked
    BY <1>7, Bounds DEF NodeGroupTimeout, Typed
  <2> QED BY <2>5, <2>7, <2>8, MergeWritable, QuietTyped, TypedParts DEF Typed, MovedType
<1>8. ASSUME NEW k \in States, NEW b \in Batches, NEW p \in Phases
      PROVE  /\ Writable([Old EXCEPT !.karp = k, !.batch = b])
             /\ Writable([Old EXCEPT !.karp = k, !.phase = p])
             /\ Writable([Old EXCEPT !.karp = k]) /\ Writable([Old EXCEPT !.batch = b])
  <2>1. /\ [Old EXCEPT !.karp = k, !.batch = b] = [Old EXCEPT !.karp = k, !.batch = b, !.phase = Old.phase]
        /\ [Old EXCEPT !.karp = k, !.phase = p] = [Old EXCEPT !.karp = k, !.batch = Old.batch, !.phase = p]
        /\ [Old EXCEPT !.karp = k] = [Old EXCEPT !.karp = k, !.batch = Old.batch, !.phase = Old.phase]
        /\ [Old EXCEPT !.batch = b] = [Old EXCEPT !.karp = Old.karp, !.batch = b, !.phase = Old.phase]
    BY StatusIs
  <2>2. Writable([Old EXCEPT !.karp = k, !.batch = b, !.phase = Old.phase])
    BY PoolVariant
  <2>3. Writable([Old EXCEPT !.karp = k, !.batch = Old.batch, !.phase = p])
    BY PoolVariant
  <2>4. Writable([Old EXCEPT !.karp = k, !.batch = Old.batch, !.phase = Old.phase])
    BY PoolVariant
  <2>5. Writable([Old EXCEPT !.karp = Old.karp, !.batch = b, !.phase = Old.phase])
    BY PoolVariant
  <2> QED BY <2>1, <2>2, <2>3, <2>4, <2>5
<1>9. /\ {"InProgress", "Completed", "Failed"} \subseteq States
      /\ {"Draining", "WaitingControllerStable", None} \subseteq Batches
  BY DEF States, ComponentStatus, Batches
<1>10. CASE KarpenterDone
  <2>1. Writable([Old EXCEPT !.phase = "Completed"])
    BY <1>0, PhasesAre
  <2> QED BY <1>10, <2>1, SaveTyped, QuietTyped, TypedParts DEF KarpenterDone
<1>11. CASE StartNextBatch
  <2>1. CASE cluster.kn.version < seen.spec.target
    <3>1. /\ cluster' = [cluster EXCEPT !.kn.draining = TRUE] /\ updating' = updating /\ failed' = failed
          /\ Save([Old EXCEPT !.karp = "InProgress", !.batch = "Draining"]) /\ omitted' = omitted
      BY <1>11, <2>1 DEF StartNextBatch
    <3>2. cluster' \in ClusterType
      BY <3>1 DEF Typed, ClusterType
    <3> QED BY <1>8, <1>9, <3>1, <3>2, SaveTyped, TypedParts DEF Typed
  <2>2. CASE ~(cluster.kn.version < seen.spec.target)
    <3>1. Save([Old EXCEPT !.karp = "Completed"]) /\ Quiet
      BY <1>11, <2>2 DEF StartNextBatch
    <3> QED BY <1>8, <1>9, <3>1, SaveTyped, QuietTyped, TypedParts
  <2> QED BY <2>1, <2>2
<1>12. CASE AdvanceBatch
  <2>1. /\ Quiet
        /\ \/ Save([Old EXCEPT !.karp = "InProgress", !.batch = None])
           \/ Save([Old EXCEPT !.batch = "WaitingControllerStable"])
           \/ Save([Old EXCEPT !.karp = "Failed", !.phase = "Failed"])
    BY <1>12 DEF AdvanceBatch
  <2> QED BY <1>4, <1>8, <1>9, <2>1, SaveTyped, QuietTyped, TypedParts
<1> QED BY <1>1, <1>2, <1>5, <1>6, <1>7, <1>10, <1>11, <1>12
\* The status of a new resource.
LEMMA NewStatusIs ==
    /\ NewStatus \in StatusType /\ Recorded(NewStatus) /\ Blank(NewStatus)
    /\ NewStatus.phase = "Pending"
<1>1. /\ "Pending" \in Phases /\ 0 \in Generations /\ None \in StepNumbers
      /\ None \in VersionOrNone /\ None \in States /\ <<>> \in Paths /\ None \in Batches
      /\ None \in Transitions
  BY PhasesAre, EmptyPath, Bounds
     DEF StepNumbers, VersionOrNone, States, Batches, Transitions, Generations
<1>2. <<>> \in GroupMaps
  <2>1. <<>> \in [{} -> GroupState]
    OBVIOUS
  <2> QED BY <2>1, GroupsAre
<1> QED BY <1>1, <1>2, StatusIs DEF NewStatus, Recorded, Blank

\* The status after a reset.
LEMMA ResetIs ==
    ASSUME Typed, Reset
    PROVE  /\ Writable(status') /\ Blank(status') /\ status'.phase = "Pending"
           /\ status'.last = status.last
<1> DEFINE x == [NewStatus EXCEPT !.obs = seen.spec.gen, !.karp = status.karp,
                                  !.batch = status.batch, !.last = status.last]
<1>1. seen.spec.gen \in Generations
  BY Bounds DEF Typed, SpecType, Generations
<1>2. status.karp \in States /\ status.batch \in Batches /\ status.last \in Transitions
  BY StatusIs DEF Typed
<1>3. /\ x \in StatusType /\ x.phase = NewStatus.phase /\ x.path = NewStatus.path
      /\ x.step = NewStatus.step /\ x.cpId = NewStatus.cpId /\ x.planned = NewStatus.planned
      /\ x.addons = NewStatus.addons /\ x.ng = NewStatus.ng /\ x.last = status.last
  BY <1>1, <1>2, NewStatusIs, StatusIs
<1>4. status' = x
  BY DEF Reset
<1> HIDE DEF x
<1> QED BY <1>3, <1>4, NewStatusIs DEF Writable, Recorded, Blank

\* The steps around the controller keep the types.
LEMMA SurroundingsTyped ==
    ASSUME Typed, abandoned' \in BOOLEAN,
           \/ Reset \/ Edit \/ Deliver \/ Reprovision \/ \E r \in Resources : UpdateEnds(r)
    PROVE  Typed'
<1>1. CASE Reset
  <2>1. parked' \in BOOLEAN
    BY <1>1 DEF Reset, Typed
  <2> QED BY <1>1, <2>1, ResetIs, QuietTyped, TypedParts DEF Reset, Typed, MovedType
<1>2. CASE Edit
  <2>1. spec' \in SpecType
    <3>1. spec.gen + 1 \in 1..MaxGeneration
      BY <1>2, Bounds DEF Edit, Typed, SpecType
    <3>2. CASE \E s \in Specs : spec' = [gen |-> spec.gen + 1, mode |-> s.mode,
                 target |-> s.target, dry |-> s.dry, karp |-> s.karp]
      BY <3>1, <3>2, Bounds DEF SpecType, Versions
    <3>3. CASE spec' = [spec EXCEPT !.gen = @ + 1]
      BY <3>1, <3>3 DEF Typed, SpecType
    <3> QED BY <1>2, <3>2, <3>3 DEF Edit
  <2>2. parked' \in BOOLEAN
    BY <1>2 DEF Edit, Typed
  <2> QED BY <1>2, <2>1, <2>2 DEF Edit, Typed, Recorded
<1>3. CASE Deliver
  <2>1. parked' \in BOOLEAN
    BY <1>3 DEF Deliver
  <2> QED BY <1>3, <2>1 DEF Deliver, Typed, Recorded
<1>4. CASE Reprovision
  <2>1. cluster' \in ClusterType
    BY <1>4 DEF Reprovision, Typed, ClusterType
  <2>2. parked' \in BOOLEAN
    BY <1>4 DEF Reprovision, Typed
  <2> QED BY <1>4, <2>1, <2>2, TypedParts DEF Reprovision, Typed, Writable, MovedType
<1>5. ASSUME NEW r \in Resources, UpdateEnds(r) PROVE Typed'
  <2>1. updating[r] \in Versions
    BY <1>5 DEF UpdateEnds, Typed, VersionOrNone
  <2>2. /\ updating' \in [Resources -> VersionOrNone]
        /\ failed' \in [Resources -> VersionOrNone]
    BY <1>5 DEF UpdateEnds, Typed, VersionOrNone
  <2>3. cluster' \in ClusterType
    <3>1. CASE cluster' = cluster
      BY <3>1 DEF Typed
    <3>2. CASE r = "cp" /\ cluster' = [cluster EXCEPT !.cp = updating[r]]
      BY <2>1, <3>2 DEF Typed, ClusterType
    <3>3. CASE r = "addons" /\ cluster' = [cluster EXCEPT !.addons = updating[r]]
      BY <2>1, <3>3 DEF Typed, ClusterType
    <3>4. CASE r \notin {"cp", "addons"} /\ cluster' = [cluster EXCEPT !.ng[r] = updating[r]]
      <4>1. r \in NodeGroups
        BY <3>4 DEF Resources
      <4> QED BY <2>1, <3>4, <4>1 DEF Typed, ClusterType
    <3> QED BY <1>5, <3>1, <3>2, <3>3, <3>4 DEF UpdateEnds
  <2>4. moved' \in MovedType
    <3>1. \/ moved' = moved \/ moved' = [dir |-> "up", since |-> FALSE]
          \/ moved' = [dir |-> "down", since |-> FALSE]
      BY <1>5 DEF UpdateEnds
    <3>2. FALSE \in BOOLEAN
      OBVIOUS
    <3>3. \A f \in BOOLEAN : /\ [dir |-> "up", since |-> f] \in MovedType
                             /\ [dir |-> "down", since |-> f] \in MovedType
      BY DEF MovedType
    <3>4. moved \in MovedType
      BY DEF Typed, MovedType
    <3> QED BY <3>1, <3>2, <3>3, <3>4
  <2>5. parked' \in BOOLEAN /\ omitted' \subseteq Resources
    BY <1>5 DEF UpdateEnds, Typed
  <2> QED BY <1>5, <2>2, <2>3, <2>4, <2>5, TypedParts DEF UpdateEnds, Typed, Writable
<1> QED BY <1>1, <1>2, <1>3, <1>4, <1>5

\* Every step keeps the types.
LEMMA TypedNext ==
    ASSUME Typed, UpgradeNext
    PROVE  Typed'
<1>1. abandoned' \in BOOLEAN
  BY DEF UpgradeNext, Remember
<1>2. Step
  BY DEF UpgradeNext
<1> QED BY <1>1, <1>2, ControllerTyped, ComponentsTyped, SurroundingsTyped
        DEF Step, Progress, Watch, Restart

\* The types hold at first.
LEMMA TypedInit == UpgradeInit => Typed
<1> SUFFICES ASSUME UpgradeInit PROVE Typed
  OBVIOUS
<1>1. PICK s \in Specs : spec = [gen |-> 1, mode |-> s.mode, target |-> s.target,
                                 dry |-> s.dry, karp |-> s.karp]
  BY DEF UpgradeInit
<1>2. spec \in SpecType
  BY <1>1, Bounds DEF SpecType, Versions
<1>4. cluster \in ClusterType
  BY Bounds DEF UpgradeInit, ClusterType, Versions
<1>5. /\ updating \in [Resources -> VersionOrNone] /\ failed \in [Resources -> VersionOrNone]
      /\ errors \in 0..MaxErrors
  BY Bounds DEF UpgradeInit, VersionOrNone
<1>8. abandoned \in BOOLEAN /\ parked \in BOOLEAN /\ omitted \subseteq Resources
  BY DEF UpgradeInit
<1>7. moved \in [dir : {"none", "up", "down"}, since : BOOLEAN]
  <2>1. \A f \in BOOLEAN : [dir |-> "none", since |-> f] \in [dir : {"none", "up", "down"}, since : BOOLEAN]
    OBVIOUS
  <2> QED BY <2>1 DEF UpgradeInit
<1>6. status = NewStatus /\ seen = [spec |-> spec, status |-> NewStatus]
  BY DEF UpgradeInit
<1> QED BY <1>2, <1>4, <1>5, <1>6, <1>7, <1>8, NewStatusIs DEF Typed
-----------------------------------------------------------------------------
\* Two statuses that differ in nothing a run depends on.
Mirrors(x, m) ==
    /\ m.phase = x.phase /\ m.path = x.path /\ m.step = x.step /\ m.cpId = x.cpId
    /\ m.planned = x.planned /\ m.addons = x.addons
    /\ DOMAIN m.ng = DOMAIN x.ng /\ \A n \in DOMAIN x.ng : m.ng[n] = x.ng[n]
    /\ x.karp # None => m.karp = x.karp

\* What the run depends on has not changed.
Still ==
    /\ spec' = spec /\ updating' = updating /\ failed' = failed
    /\ cluster'.cp = cluster.cp /\ cluster'.addons = cluster.addons /\ cluster'.ng = cluster.ng
    /\ cluster'.kn.version = cluster.kn.version /\ omitted \subseteq omitted'

\* A run is under way whichever of two such statuses tells of it.
LEMMA UnderwayMirror ==
    ASSUME NEW x, NEW m, Mirrors(x, m)
    PROVE  /\ Underway(x) => Underway(m)
           /\ Underway(x)' => Underway(m)'
<1>1. ASSUME Underway(x) PROVE Underway(m)
  <2>1. PathPart(m) /\ CpPart(m)
    BY <1>1 DEF Underway, Mirrors, PathPart, CpPart
  <2>2. NgPart(m)
    BY <1>1 DEF Underway, Mirrors, NgPart
  <2>3. AddonPart(m)
    BY <1>1 DEF Underway, Mirrors, AddonPart
  <2>4. KarpPart(m)
    BY <1>1, NamesDiffer DEF Underway, Mirrors, KarpPart, ComponentStatus
  <2> QED BY <1>1, <2>1, <2>2, <2>3, <2>4 DEF Underway, Mirrors
<1>2. ASSUME Underway(x)' PROVE Underway(m)'
  <2>1. PathPart(m)' /\ CpPart(m)'
    BY <1>2 DEF Underway, Mirrors, PathPart, CpPart, Before
  <2>2. NgPart(m)'
    BY <1>2 DEF Underway, Mirrors, NgPart
  <2>3. AddonPart(m)'
    BY <1>2 DEF Underway, Mirrors, AddonPart
  <2>4. KarpPart(m)'
    BY <1>2, NamesDiffer DEF Underway, Mirrors, KarpPart, ComponentStatus
  <2> QED BY <1>2, <2>1, <2>2, <2>3, <2>4 DEF Underway, Mirrors
<1> QED BY <1>1, <1>2

\* ... so a run stays under way,
LEMMA StillUnderway ==
    ASSUME Still, NEW s, Underway(s)
    PROVE  Underway(s)'
<1>1. PathPart(s)' /\ CpPart(s)'
  BY DEF Still, Underway, PathPart, CpPart, Before
<1>2. NgPart(s)' /\ AddonPart(s)' /\ KarpPart(s)'
  BY DEF Still, Underway, NgPart, AddonPart, KarpPart
<1> QED BY <1>1, <1>2 DEF Still, Underway

\* ... a plan stays exact,
LEMMA StillExact ==
    ASSUME Still, NEW s, Exact(s)
    PROVE  Exact(s)'
BY DEF Still, Exact, PlanPossible, UpgradePath, AddonsPlanned, ExactBut

\* ... or becomes so when the history counts what it left out,
LEMMA NowExact ==
    ASSUME Still, NEW s, NEW K, K = omitted', ExactBut(s, K)
    PROVE  Exact(s)'
BY DEF Still, Exact, PlanPossible, UpgradePath, AddonsPlanned, ExactBut

\* ... and no node gets ahead.
LEMMA StillNodes ==
    ASSUME Still, Nodes
    PROVE  Nodes'
BY DEF Still, Nodes

\* A status whose plan is that of the cached one keeps all it is given.
LEMMA MergeMirrors ==
    ASSUME Typed, SamePlan(Old, status), NEW x, Writable(x),
           x.step # None, x.path = Old.path, x.planned = Old.planned, x.planned # None,
           DOMAIN x.ng = DOMAIN Old.ng, x.addons = None <=> Old.addons = None
    PROVE  /\ Mirrors(x, MergePatch(Noted(x)))
           /\ MergePatch(Noted(x)).last =
                IF x.phase = "Completed" THEN Mode ELSE IF x.last = None THEN status.last ELSE x.last
<1>1. x \in StatusType
  BY DEF Writable
<1> DEFINE y == Noted(x)
<1>2. /\ y \in StatusType
      /\ y.phase = x.phase /\ y.path = x.path /\ y.step = x.step
      /\ y.cpId = x.cpId /\ y.planned = x.planned
      /\ y.addons = x.addons /\ y.ng = x.ng /\ y.karp = x.karp
      /\ y.last = IF x.phase = "Completed" THEN Mode ELSE x.last
  BY <1>1, NotedFields DEF Mode
<1> HIDE DEF y
<1>3. Mode # None
  BY OldIs, NamesDiffer DEF Modes
<1>4. MergePatch(y).last =
        IF x.phase = "Completed" THEN Mode ELSE IF x.last = None THEN status.last ELSE x.last
  BY <1>2, <1>3, MergeFields
<1>5. Mirrors(x, MergePatch(y))
  BY <1>2, MergeFields DEF Mirrors, SamePlan
<1> QED BY <1>4, <1>5 DEF y
-----------------------------------------------------------------------------
\* What a save does to the history of the control plane's moves.
LEMMA SaveMoves ==
    ASSUME Typed, NEW x, Write(x)
    PROVE  /\ moved'.dir = moved.dir /\ (moved.since => moved'.since)
           /\ x.phase = "Completed" /\ Mode = "Forward" => moved'.since
           /\ status' = MergePatch(Noted(x)) /\ spec' = spec /\ seen' = seen
<1>1. moved' = [moved EXCEPT !.since = @ \/ (x.phase = "Completed" /\ seen.spec.mode = "Forward")]
  BY DEF Write
<1>2. DOMAIN moved = {"dir", "since"}
  BY DEF Typed
<1>3. moved'.dir = moved.dir
  BY <1>1, <1>2
<1>4. moved'.since = (moved.since \/ (x.phase = "Completed" /\ seen.spec.mode = "Forward"))
  BY <1>1, <1>2, Zenon
<1> QED BY <1>3, <1>4 DEF Write, Noted, Mode

\* A failing step saves its status with another phase.
LEMMA ErrorNoted ==
    ASSUME Typed, NEW p \in Phases, p # "Completed", NEW x, x = [Old EXCEPT !.phase = p]
    PROVE  Noted(x) = Erred(p)
<1>1. x.phase = p /\ x.last = Old.last
  BY PhaseVariant
<1> QED BY <1>1, OldIs, StatusIs DEF Noted, Erred

\* The cached resource is in a run that has passed its preflight checks.
InRun ==
    /\ Typed /\ Core /\ Old.phase \notin Calm /\ Old.phase \notin Terminal

\* What the invariant says of such a resource.
LEMMA InRunIs ==
    ASSUME InRun
    PROVE  /\ Typed /\ Core /\ Running(Old) /\ Underway(Old) /\ LastPart(Old) /\ Guarded(Old)
           /\ Mode = spec.mode /\ seen.spec.target = spec.target /\ seen.spec.karp = spec.karp
           /\ seen.spec.dry = spec.dry
           /\ Old.planned = spec.target /\ spec.target # None /\ Old.step # None
           /\ spec.target \in Versions /\ spec.mode \in Modes
           /\ Follows(Old, status) /\ SamePlan(Old, status) /\ status.phase \notin Calm
           /\ (Running(status) => Underway(status))
<1>1. /\ Typed /\ Core /\ Running(Old)
  BY DEF InRun, Running
<1>2. /\ SameWish(seen.spec, spec) /\ Sound(Old) /\ Follows(Old, status) /\ Guarded(Old)
  BY <1>1 DEF Core, Old
<1>3. Underway(Old) /\ LastPart(Old) /\ SamePlan(Old, status) /\ status.phase \notin Calm
  BY <1>2 DEF InRun, Sound, Follows
<1>4. Old.planned = spec.target /\ Old.step # None
  BY <1>3 DEF Underway, PathPart
<1>5. spec.target \in Versions /\ spec.target # None /\ spec.mode \in Modes
  BY <1>1, NamesDiffer, Bounds DEF Typed, SpecType, Versions, Modes
<1>6. Running(status) => Underway(status)
  BY <1>1, <1>3 DEF Core, Sound
<1> QED BY <1>1, <1>2, <1>3, <1>4, <1>5, <1>6 DEF SameWish, Mode

\* A reconcile of such a resource saves x, which keeps the plan.
KeepsPlan(x) ==
    /\ Writable(x) /\ x.phase \notin Calm
    /\ x.step # None /\ x.path = Old.path /\ x.planned = Old.planned /\ x.last = Old.last
    /\ DOMAIN x.ng = DOMAIN Old.ng /\ (x.addons = None <=> Old.addons = None)
    /\ x.cpId # None => Old.phase \in ControlPlanePhases /\ x.step = Old.step
    /\ \A n \in DOMAIN x.ng : x.ng[n].id # None =>
          Old.phase \in NodeGroupPhases /\ x.ng[n].id = spec.target
    /\ x.phase = "Completed" => cluster.cp = spec.target
    /\ x.step = Old.step \/ ~AtTarget(Old) \/ x.phase = "Completed"

\* The step leaves the resource's spec, the cache and the control plane alone.
Steady ==
    /\ spec' = spec /\ seen' = seen /\ cluster'.cp = cluster.cp
    /\ moved'.dir = moved.dir /\ (moved.since => moved'.since)

\* The cached half of the invariant is kept by such a step.
LEMMA SeenKept ==
    ASSUME InRun, Steady, Underway(Old)'
    PROVE  Sound(Old)' /\ Guarded(Old)' /\ LastPart(Old)' /\ SameWish(seen.spec, spec)'
<1> USE InRunIs DEF Steady
<1>1. LastPart(Old)'
  BY DEF LastPart, Old
<1>2. Guarded(Old)'
  BY DEF Guarded, Old, AtTarget, Running
<1>3. Sound(Old)'
  BY <1>1 DEF InRun, Sound, Old, Calm
<1>4. SameWish(seen.spec, spec)'
  BY DEF Core, Old, SameWish
<1> QED BY <1>1, <1>2, <1>3, <1>4
\* A save in a run keeps the invariant, when the components it names are where
\* the new status says they are.
LEMMA Advance ==
    ASSUME InRun, Steady, Nodes', ~Unknown', Underway(Old)',
           NEW x, KeepsPlan(x), status' = MergePatch(Noted(x)),
           x.phase = "Completed" /\ Mode = "Forward" => moved'.since,
           x.phase \notin Terminal => Underway(x)'
    PROVE  Core'
<1> USE InRunIs
<1>1. PICK m : m = status'
  OBVIOUS
<1>2. Writable(x) /\ x.planned # None /\ x.step # None /\ x.path = Old.path
      /\ x.planned = Old.planned /\ DOMAIN x.ng = DOMAIN Old.ng
      /\ (x.addons = None <=> Old.addons = None) /\ x.last = Old.last /\ x.phase \notin Calm
  BY DEF KeepsPlan
<1>3. /\ Mirrors(x, m)
      /\ m.last = IF x.phase = "Completed" THEN Mode ELSE IF x.last = None THEN status.last ELSE x.last
  BY <1>1, <1>2, MergeMirrors
<1>4. m.phase = x.phase /\ m.phase \notin Calm /\ m.step = x.step /\ m.cpId = x.cpId
      /\ m.path = x.path
  BY <1>2, <1>3 DEF Mirrors
<1>5. m.phase # "Completed" /\ spec.mode = "Rollback" /\ m.last = "Rollback" =>
         spec.dry \/ cluster.cp = spec.target
  BY <1>2, <1>3, <1>4 DEF Follows, LastPart
<1>6. m.phase \notin Terminal => Underway(m)' /\ LastPart(m)' /\ Sound(m)'
  <2> SUFFICES ASSUME m.phase \notin Terminal PROVE Underway(m)' /\ LastPart(m)' /\ Sound(m)'
    OBVIOUS
  <2>1. Underway(m)'
    BY <1>3, <1>4, UnderwayMirror
  <2>2. LastPart(m)'
    BY <1>5 DEF LastPart, Steady, Terminal
  <2> QED BY <1>4, <2>1, <2>2 DEF Sound, Calm
<1>7. Follows(Old, m)'
  <2>1. SamePlan(Old, m)'
    BY <1>2, <1>3, <1>4 DEF SamePlan, Mirrors, Steady, Old
  <2>2. m.cpId # None => Old.phase \in ControlPlanePhases /\ m.step = Old.step
    BY <1>4 DEF KeepsPlan
  <2>3. \A n \in DOMAIN m.ng : m.ng[n].id # None =>
          Old.phase \in NodeGroupPhases /\ m.ng[n].id = spec.target
    BY <1>3 DEF KeepsPlan, Mirrors
  <2>4. spec.mode = "Rollback" /\ m.last = "Rollback" =>
          Old.last = "Rollback" \/ spec.dry \/ cluster.cp = spec.target
    BY <1>4, <1>5 DEF KeepsPlan
  <2> QED BY <1>4, <2>1, <2>2, <2>3, <2>4 DEF Follows, Steady, InRun, Old, Calm
<1>8. Guarded(m)'
  <2> SUFFICES ASSUME moved.dir = "down", ~moved.since, ~moved'.since, m.last # "Rollback"
               PROVE  AtTarget(m)'
    BY DEF Guarded, Steady
  <2>1. Old.last = "Rollback" \/ AtTarget(Old)
    BY DEF Guarded
  <2>2. m.phase # "Completed"
    BY <1>3, <1>4 DEF Modes
  <2>3. Old.last # "Rollback"
    BY <1>2, <1>3, <1>4, <2>2, NamesDiffer
  <2>4. AtTarget(Old) /\ m.step = 1 /\ m.path = Old.path /\ Len(m.path) = 1
    BY <1>2, <1>4, <2>1, <2>2, <2>3 DEF KeepsPlan, AtTarget
  <2>5. m.phase \notin Terminal
    <3> SUFFICES ASSUME m.phase \in Terminal PROVE FALSE
      OBVIOUS
    <3>1. Old.path[1] = spec.target
      <4>1. Old.path[1] \in Versions /\ Old.path[1] + 1 = spec.target + 1
        BY <2>4, OldIs, PathIs DEF Underway, PathPart
      <4> QED BY <4>1, Bounds DEF Versions
    <3>2. m.step \in 1..Len(m.path) /\ cluster.cp = m.path[m.step]
      BY <2>4, <3>1 DEF AtTarget
    <3> QED BY <1>1, <3>2 DEF Unknown, Steady
  <2> QED BY <2>4, <2>5 DEF AtTarget, Running, Steady
<1>9. Sound(Old)' /\ Guarded(Old)' /\ SameWish(seen.spec, spec)'
  BY SeenKept
<1>10. Old' = Old /\ seen'.status = Old
  BY DEF Old, Steady
<1> QED BY <1>1, <1>4, <1>6, <1>7, <1>8, <1>9, <1>10 DEF Core, Running, InRun, Old

\* So does a step whose patch is lost.
LEMMA Stay ==
    ASSUME InRun, Steady, Nodes', ~Unknown', Underway(Old)', status' = status, moved' = moved,
           Running(status) => Underway(status)'
    PROVE  Core'
<1> USE InRunIs
<1>1. Sound(Old)' /\ Guarded(Old)' /\ SameWish(seen.spec, spec)'
  BY SeenKept
<1>2. Old' = Old /\ seen'.status = Old
  BY DEF Old, Steady
<1>3. Follows(Old, status)'
  BY <1>2 DEF Follows, SamePlan, Steady, InRun
<1>4. Guarded(status)'
  BY DEF Core, Guarded, AtTarget, Running, Steady
<1>5. Running(status) => Sound(status)'
  BY DEF Core, Sound, LastPart, Steady, Calm
<1> QED BY <1>1, <1>2, <1>3, <1>4, <1>5 DEF Core, Running, InRun, Old
-----------------------------------------------------------------------------
\* Every component is where the run wants it, but for some of K that status x
\* has no update for.
Arrived(x, K) ==
    /\ cluster.cp = spec.target
    /\ \A n \in NodeGroups : \/ cluster.ng[n] = spec.target
                             \/ n \in K /\ (n \in DOMAIN x.ng => x.ng[n].st = "Pending")
    /\ spec.mode = "Forward" => \/ cluster.addons = spec.target
                                \/ "addons" \in K /\ x.addons \in {None, "Pending"}
    /\ spec.mode = "Forward" /\ spec.karp => cluster.kn.version >= spec.target

\* What Underway says of a status between two phases, before the Karpenter one.
Ready(s) ==
    /\ ~spec.dry /\ PathPart(s) /\ s.cpId = None
    /\ \/ s.step = 0 /\ s.path = <<>> /\ cluster.cp = spec.target
       \/ s.step \in 1..Len(s.path) /\ cluster.cp \in {Before(s.path[s.step]), s.path[s.step]}
       \/ s.path # <<>> /\ s.step = Len(s.path) + 1 /\ cluster.cp = spec.target
    /\ \A n \in NodeGroups \ DOMAIN s.ng : cluster.ng[n] = spec.target \/ n \in omitted
    /\ \A n \in DOMAIN s.ng :
          \/ s.ng[n] = Waiting
          \/ /\ s.ng[n] = [st |-> "Completed", id |-> None]
             /\ cluster.ng[n] = spec.target
          \/ /\ s.ng[n] = [st |-> "InProgress", id |-> spec.target]
             /\ spec.target \in {updating[n], failed[n], cluster.ng[n]}
    /\ s.addons = None /\ spec.mode = "Forward" =>
          cluster.addons = spec.target \/ "addons" \in omitted
    /\ s.addons = "Completed" => cluster.addons = spec.target
    /\ s.addons = "InProgress" => \/ updating["addons"] # None \/ failed["addons"] # None
                                  \/ cluster.addons = spec.target
    /\ spec.karp => s.karp \in {"Pending", "InProgress"}

\* The phases that change the cluster.
UnderwayPhases == Phases \ (Calm \cup Terminal)

\* Where the next phase leaves the run: at work in it, or at its end.
Proceeds(x) ==
    \/ x.phase \in UnderwayPhases /\ Underway(x)
    \/ x.phase = "Completed" /\ Arrived(x, omitted)

\* All node groups are done.
GroupsDone(x) == \A n \in DOMAIN x.ng : x.ng[n].st = "Completed"
\* No node group is begun.
GroupsWait(x) == \A n \in DOMAIN x.ng : x.ng[n] = Waiting

\* The phases that change the cluster, one by one.
LEMMA UnderwayPhasesAre ==
    UnderwayPhases = {"UpgradingControlPlane", "UpgradingAddons", "UpgradingNodeGroups",
                      "UpgradingKarpenterNodePools", "RollingBackControlPlane",
                      "RollingBackAddons", "RollingBackNodeGroups"}
BY DEF UnderwayPhases, Phases, Calm, Terminal, ControlPlanePhases, AddonPhases, NodeGroupPhases

\* A status that is ready and whose phase has what it needs is under way.
LEMMA ReadyUnderway ==
    ASSUME NEW x, Ready(x), x.phase \in UnderwayPhases,
           x.phase \in ForwardPhases <=> spec.mode = "Forward",
           spec.mode = "Forward" /\ x.phase # "UpgradingControlPlane" => cluster.cp = spec.target,
           x.phase \in {"UpgradingControlPlane", "UpgradingAddons"} => GroupsWait(x),
           x.phase \in {"UpgradingKarpenterNodePools", "RollingBackAddons", "RollingBackControlPlane"} =>
              GroupsDone(x),
           x.phase \in {"UpgradingNodeGroups", "UpgradingKarpenterNodePools"} =>
              x.addons \in {None, "Completed"}
    PROVE  Underway(x)
<1>1. PathPart(x) /\ CpPart(x)
  BY DEF Ready, CpPart
<1>2. NgPart(x)
  BY DEF Ready, NgPart, GroupsWait, GroupsDone
<1>3. AddonPart(x) /\ KarpPart(x)
  BY DEF Ready, AddonPart, KarpPart
<1> QED BY <1>1, <1>2, <1>3 DEF Underway, Ready

\* Node groups that are done are at the target, and the others were left out.
LEMMA GroupsArrived ==
    ASSUME NEW x, Ready(x), GroupsDone(x)
    PROVE  \A n \in NodeGroups : cluster.ng[n] = spec.target \/ n \in omitted \ DOMAIN x.ng
BY DEF Ready, GroupsDone, Waiting

\* A plan without control plane steps finds it at the target.
LEMMA EmptyPathArrived ==
    ASSUME NEW x, Ready(x), x.path = <<>>
    PROVE  cluster.cp = spec.target
BY DEF Ready

\* After the node groups.
LEMMA NodeGroupsProceed ==
    ASSUME Typed, NEW x, Ready(x), GroupsDone(x),
           spec.mode = "Forward" => cluster.cp = spec.target /\ x.addons \in {None, "Completed"},
           x.phase = AfterNodeGroups(x, spec.mode)
    PROVE  Proceeds(x)
<1>0. spec.mode \in {"Forward", "Rollback"}
  BY DEF Typed, SpecType
<1>1. CASE spec.mode = "Forward" /\ x.karp # None
  <2>1. x.phase = "UpgradingKarpenterNodePools"
    BY <1>1 DEF AfterNodeGroups, HasKarpenter
  <2> QED BY <1>1, <2>1, ReadyUnderway, UnderwayPhasesAre DEF ForwardPhases, Proceeds
<1>2. CASE spec.mode = "Forward" /\ x.karp = None
  <2>1. x.phase = "Completed"
    BY <1>2 DEF AfterNodeGroups, HasKarpenter
  <2>2. ~spec.karp /\ (cluster.addons = spec.target \/ ("addons" \in omitted /\ x.addons = None))
    BY <1>2, NamesDiffer DEF Ready, ComponentStatus
  <2> QED BY <1>2, <2>1, <2>2, GroupsArrived DEF Proceeds, Arrived
<1>3. CASE spec.mode = "Rollback" /\ x.addons # None
  <2>1. x.phase = "RollingBackAddons"
    BY <1>3 DEF AfterNodeGroups, HasAddons
  <2> QED BY <1>3, <2>1, ReadyUnderway, UnderwayPhasesAre DEF ForwardPhases, Proceeds
<1>4. CASE spec.mode = "Rollback" /\ x.addons = None /\ x.path # <<>>
  <2>1. x.phase = "RollingBackControlPlane"
    BY <1>4 DEF AfterNodeGroups, HasAddons, HasCpSteps
  <2> QED BY <1>4, <2>1, ReadyUnderway, UnderwayPhasesAre DEF ForwardPhases, Proceeds
<1>5. CASE spec.mode = "Rollback" /\ x.addons = None /\ x.path = <<>>
  <2>1. x.phase = "Completed"
    BY <1>5 DEF AfterNodeGroups, HasAddons, HasCpSteps
  <2> QED BY <1>5, <2>1, GroupsArrived, EmptyPathArrived DEF Proceeds, Arrived
<1> QED BY <1>0, <1>1, <1>2, <1>3, <1>4, <1>5

\* After the add-ons.
LEMMA AddonsProceed ==
    ASSUME Typed, NEW x, Ready(x), spec.mode = "Rollback" => GroupsDone(x),
           spec.mode = "Forward" => cluster.cp = spec.target /\ x.addons \in {None, "Completed"},
           x.phase = AfterAddons(x, spec.mode)
    PROVE  Proceeds(x)
<1>0. spec.mode \in {"Forward", "Rollback"}
  BY DEF Typed, SpecType
<1>1. CASE spec.mode = "Forward" /\ DOMAIN x.ng # {}
  <2>1. x.phase = "UpgradingNodeGroups"
    BY <1>1 DEF AfterAddons, HasNodeGroups
  <2> QED BY <1>1, <2>1, ReadyUnderway, UnderwayPhasesAre DEF ForwardPhases, Proceeds
<1>2. CASE spec.mode = "Forward" /\ DOMAIN x.ng = {}
  <2>1. x.phase = AfterNodeGroups(x, spec.mode) /\ GroupsDone(x)
    BY <1>2 DEF AfterAddons, HasNodeGroups, GroupsDone
  <2> QED BY <2>1, NodeGroupsProceed
<1>3. CASE spec.mode = "Rollback" /\ x.path # <<>>
  <2>1. x.phase = "RollingBackControlPlane"
    BY <1>3 DEF AfterAddons, HasCpSteps
  <2> QED BY <1>3, <2>1, ReadyUnderway, UnderwayPhasesAre DEF ForwardPhases, Proceeds
<1>4. CASE spec.mode = "Rollback" /\ x.path = <<>>
  <2>1. x.phase = "Completed"
    BY <1>4 DEF AfterAddons, HasCpSteps
  <2> QED BY <1>4, <2>1, GroupsArrived, EmptyPathArrived DEF Proceeds, Arrived
<1> QED BY <1>0, <1>1, <1>2, <1>3, <1>4

\* After the control plane.
LEMMA ControlPlaneProceeds ==
    ASSUME Typed, NEW x, Ready(x), cluster.cp = spec.target,
           spec.mode = "Rollback" => GroupsDone(x), spec.mode = "Forward" => GroupsWait(x),
           x.phase = AfterControlPlane(x, spec.mode)
    PROVE  Proceeds(x)
<1>0. spec.mode \in {"Forward", "Rollback"}
  BY DEF Typed, SpecType
<1>1. CASE spec.mode = "Rollback"
  <2>1. x.phase = "Completed"
    BY <1>1 DEF AfterControlPlane
  <2> QED BY <1>1, <2>1, GroupsArrived DEF Proceeds, Arrived
<1>2. CASE spec.mode = "Forward" /\ x.addons # None
  <2>1. x.phase = "UpgradingAddons"
    BY <1>2 DEF AfterControlPlane, HasAddons
  <2> QED BY <1>2, <2>1, ReadyUnderway, UnderwayPhasesAre DEF ForwardPhases, Proceeds
<1>3. CASE spec.mode = "Forward" /\ x.addons = None
  <2>1. x.phase = AfterAddons(x, spec.mode)
    BY <1>3 DEF AfterControlPlane, HasAddons
  <2> QED BY <1>3, <2>1, AddonsProceed
<1> QED BY <1>0, <1>1, <1>2, <1>3

\* After the preflight checks.
LEMMA PreflightProceeds ==
    ASSUME Typed, NEW x, Ready(x), GroupsWait(x), x.phase = AfterPreflight(x, spec.mode)
    PROVE  Proceeds(x)
<1>0. spec.mode \in {"Forward", "Rollback"}
  BY DEF Typed, SpecType
<1>1. CASE spec.mode = "Forward" /\ x.path # <<>>
  <2>1. x.phase = "UpgradingControlPlane"
    BY <1>1 DEF AfterPreflight, HasCpSteps
  <2> QED BY <1>1, <2>1, ReadyUnderway, UnderwayPhasesAre DEF ForwardPhases, Proceeds
<1>2. CASE spec.mode = "Forward" /\ x.path = <<>>
  <2>1. x.phase = AfterControlPlane(x, spec.mode)
    BY <1>2 DEF AfterPreflight, HasCpSteps
  <2> QED BY <1>2, <2>1, ControlPlaneProceeds, EmptyPathArrived
<1>3. CASE spec.mode = "Rollback" /\ DOMAIN x.ng # {}
  <2>1. x.phase = "RollingBackNodeGroups"
    BY <1>3 DEF AfterPreflight, HasNodeGroups
  <2> QED BY <1>3, <2>1, ReadyUnderway, UnderwayPhasesAre DEF ForwardPhases, Proceeds
<1>4. CASE spec.mode = "Rollback" /\ DOMAIN x.ng = {}
  <2>1. x.phase = AfterNodeGroups(x, spec.mode) /\ GroupsDone(x)
    BY <1>4 DEF AfterPreflight, HasNodeGroups, GroupsDone
  <2> QED BY <1>4, <2>1, NodeGroupsProceed
<1> QED BY <1>0, <1>1, <1>2, <1>3, <1>4

\* The next phase depends on which parts of the plan there are.
LEMMA SameNextPhase ==
    ASSUME NEW x, NEW y, NEW m, x.path = y.path, x.addons = None <=> y.addons = None,
           DOMAIN x.ng = DOMAIN y.ng, x.karp = y.karp
    PROVE  /\ AfterNodeGroups(x, m) = AfterNodeGroups(y, m) /\ AfterAddons(x, m) = AfterAddons(y, m)
           /\ AfterControlPlane(x, m) = AfterControlPlane(y, m)
           /\ AfterPreflight(x, m) = AfterPreflight(y, m)
<1>1. /\ HasAddons(x) = HasAddons(y) /\ HasNodeGroups(x) = HasNodeGroups(y)
      /\ HasKarpenter(x) = HasKarpenter(y) /\ HasCpSteps(x) = HasCpSteps(y)
  BY DEF HasAddons, HasNodeGroups, HasKarpenter, HasCpSteps
<1>2. AfterNodeGroups(x, m) = AfterNodeGroups(y, m)
  BY <1>1 DEF AfterNodeGroups
<1>3. AfterAddons(x, m) = AfterAddons(y, m)
  BY <1>1, <1>2 DEF AfterAddons
<1>4. AfterControlPlane(x, m) = AfterControlPlane(y, m)
  BY <1>1, <1>3 DEF AfterControlPlane
<1> QED BY <1>1, <1>2, <1>3, <1>4 DEF AfterPreflight
-----------------------------------------------------------------------------
\* A run knows of the updates of its own phase only.
LEMMA OwnUpdates ==
    ASSUME NEW s, Underway(s), s.phase \in UnderwayPhases
    PROVE  /\ s.cpId # None => s.phase \in ControlPlanePhases
           /\ \A n \in DOMAIN s.ng : s.ng[n].id # None =>
                 s.phase \in NodeGroupPhases /\ s.ng[n].id = spec.target
<1>1. s.cpId # None => s.phase \in ControlPlanePhases
  BY DEF Underway, CpPart
<1>2. ASSUME NEW n \in DOMAIN s.ng, s.ng[n].id # None
      PROVE  s.phase \in NodeGroupPhases /\ s.ng[n].id = spec.target
  <2>1. s.ng[n] = [st |-> "InProgress", id |-> spec.target]
    BY <1>2 DEF Underway, NgPart, Waiting
  <2>2. s.ng[n] # Waiting /\ s.ng[n].st # "Completed"
    BY <2>1 DEF Waiting
  <2> QED BY <2>1, <2>2, UnderwayPhasesAre DEF Underway, NgPart, NodeGroupPhases
<1> QED BY <1>1, <1>2

\* The phase of a cached run.
LEMMA InRunPhase ==
    ASSUME InRun
    PROVE  Old.phase \in UnderwayPhases
BY InRunIs, OldIs DEF InRun, UnderwayPhases

\* A status that only drops updates keeps the plan.
LEMMA PlanKept ==
    ASSUME InRun, NEW x, Writable(x), x.phase \notin Calm, x.path = Old.path, x.step = Old.step,
           x.planned = Old.planned, x.last = Old.last, x.cpId \in {Old.cpId, None},
           DOMAIN x.ng = DOMAIN Old.ng, \A n \in DOMAIN x.ng : x.ng[n].id \in {None, Old.ng[n].id},
           x.addons = None <=> Old.addons = None, x.phase = "Completed" => cluster.cp = spec.target
    PROVE  KeepsPlan(x)
BY InRunIs, InRunPhase, OwnUpdates DEF KeepsPlan

\* The reconcile ends with x saved, in the phase that follows or failed.
Saves(x) ==
    /\ Steady /\ status' = MergePatch(Noted(x))
    /\ x.phase = "Completed" /\ Mode = "Forward" => moved'.since
    /\ KeepsPlan(x)
    /\ Proceeds(x) \/ x.phase = "Failed"

\* Such an end of a reconcile keeps the invariant.
LEMMA SavesKept ==
    ASSUME InRun, ~Unknown', Still, NEW x, Saves(x)
    PROVE  Core'
<1>1. Nodes'
  BY InRunIs, StillNodes DEF Core
<1>2. Underway(Old)'
  <2>1. PICK o : o = Old
    OBVIOUS
  <2>2. Underway(o)'
    BY <2>1, InRunIs, StillUnderway
  <2>3. Old' = o
    BY <2>1 DEF Saves, Steady, Old
  <2> QED BY <2>2, <2>3
<1>3. x.phase \notin Terminal => Underway(x)'
  BY StillUnderway DEF Saves, Proceeds, Terminal
<1> QED BY <1>1, <1>2, <1>3, Advance DEF Saves

\* What is saved with Save is saved in that sense.
LEMMA SaveSaves ==
    ASSUME InRun, cluster'.cp = cluster.cp, NEW x, Save(x), KeepsPlan(x), Proceeds(x) \/ x.phase = "Failed"
    PROVE  Saves(x)
BY InRunIs, SaveMoves DEF Saves, Steady, Save

\* ... and so is a status that is written back, by an error or a timeout.
LEMMA PatchSaves ==
    ASSUME InRun, UNCHANGED <<spec, seen, cluster, moved>>, NEW x, status' = MergePatch(Noted(x)),
           KeepsPlan(x), x.phase = "Failed" \/ (x.phase \in UnderwayPhases /\ Underway(x))
    PROVE  Saves(x)
BY DEF Saves, Steady, Proceeds, UnderwayPhases, Terminal

\* A step that leaves the cluster alone changes nothing a run depends on.
LEMMA QuietStill ==
    ASSUME Quiet, spec' = spec
    PROVE  Still /\ cluster'.cp = cluster.cp
BY DEF Quiet, Still

\* A run that fails, or goes on as it was.
LEMMA PhaseKept ==
    ASSUME InRun, NEW p \in Phases, p \notin Calm, NEW x, x = [Old EXCEPT !.phase = p],
           p = "Completed" => cluster.cp = spec.target
    PROVE  KeepsPlan(x)
<1>1. /\ Writable(x) /\ x.phase = p /\ x.path = Old.path /\ x.step = Old.step /\ x.cpId = Old.cpId
      /\ x.planned = Old.planned /\ x.addons = Old.addons /\ x.ng = Old.ng /\ x.last = Old.last
  BY InRunIs, PhaseVariant
<1> QED BY <1>1, PlanKept

\* A failing step ends so: the phase is kept, or Failed.
LEMMA ErrorSaves ==
    ASSUME InRun, NEW p \in {Old.phase, "Failed"}, SaveError(p)
    PROVE  Still /\ \E x : Saves(x)
<1>1. p \in Phases /\ p \notin Calm /\ p # "Completed"
  BY InRunIs, OldIs, PhasesAre DEF InRun, Calm, Terminal
<1>2. PICK x : x = [Old EXCEPT !.phase = p]
  OBVIOUS
<1>3. Noted(x) = Erred(p)
  BY <1>1, <1>2, InRunIs, ErrorNoted
<1>4. status' = MergePatch(Noted(x))
  BY <1>3 DEF SaveError, Erred, Old
<1>5. KeepsPlan(x)
  BY <1>1, <1>2, PhaseKept
<1>6. x.phase = p /\ (p = Old.phase => x = Old)
  BY <1>1, <1>2, InRunIs, PhaseVariant, OldIs, StatusIs
<1>7. x.phase = "Failed" \/ (x.phase \in UnderwayPhases /\ Underway(x))
  BY <1>6, InRunIs, InRunPhase
<1>8. Saves(x)
  BY <1>4, <1>5, <1>7, PatchSaves DEF SaveError
<1> QED BY <1>8 DEF SaveError, Still

\* A run between two phases.
LEMMA UnderwayReady ==
    ASSUME NEW s, Underway(s), s.phase \notin ControlPlanePhases, s.phase # "UpgradingKarpenterNodePools"
    PROVE  Ready(s) /\ (spec.mode = "Forward" => cluster.cp = spec.target)
<1>1. s.phase # "UpgradingControlPlane"
  BY DEF ControlPlanePhases
<1>2. PathPart(s) /\ CpPart(s) /\ NgPart(s) /\ AddonPart(s) /\ KarpPart(s) /\ ~spec.dry
  BY DEF Underway
<1> QED BY <1>1, <1>2 DEF CpPart, NgPart, AddonPart, KarpPart, Ready

\* Ready does not depend on the phase.
LEMMA ReadyPhase ==
    ASSUME NEW s, NEW x, Ready(s), x.path = s.path, x.step = s.step, x.cpId = s.cpId,
           x.planned = s.planned, x.addons = s.addons, x.ng = s.ng, x.karp = s.karp
    PROVE  Ready(x)
BY DEF Ready, PathPart

\* A change of phase keeps the plan.
LEMMA ProceedsKept ==
    ASSUME InRun, NEW p \in Phases, NEW x, x = [Old EXCEPT !.phase = p], Proceeds(x)
    PROVE  KeepsPlan(x)
<1>1. x.phase = p
  BY InRunIs, PhaseVariant
<1>2. p \notin Calm /\ (p = "Completed" => cluster.cp = spec.target)
  BY <1>1 DEF Proceeds, UnderwayPhases, Arrived, Calm, Terminal
<1> QED BY <1>2, PhaseKept
-----------------------------------------------------------------------------
\* The control plane's update has been made: the next step, or the next phase.
LEMMA SucceededProceeds ==
    ASSUME InRun, Old.phase \in ControlPlanePhases, Old.cpId # None, Old.cpId = cluster.cp
    PROVE  KeepsPlan(UpdateSucceeded) /\ Proceeds(UpdateSucceeded)
<1> USE InRunIs
<1>1. PICK x : x = UpdateSucceeded
  OBVIOUS
<1>2. /\ Writable(x) /\ x.path = Old.path /\ x.step = Old.step + 1 /\ x.step # None
      /\ x.cpId = None /\ x.planned = Old.planned /\ x.addons = Old.addons /\ x.ng = Old.ng
      /\ x.karp = Old.karp /\ x.last = Old.last
      /\ x.phase = IF Old.step + 1 > Len(Old.path) THEN AfterControlPlane(Old, Mode) ELSE Old.phase
  BY <1>1, SucceededVariant
<1>3. /\ Old.step \in 1..Len(Old.path) /\ cluster.cp = Old.path[Old.step]
      /\ Len(Old.path) \in Nat /\ Old.path # <<>> /\ Old.step \in Nat
      /\ \A i \in 1..Len(Old.path) : Old.path[i] \in Nat
  BY OldIs, PathIs, Bounds DEF Recorded, Versions
<1>4. /\ PathPart(Old) /\ CpPart(Old) /\ NgPart(Old) /\ AddonPart(Old) /\ KarpPart(Old) /\ ~spec.dry
      /\ (Old.phase \in ForwardPhases <=> spec.mode = "Forward")
  BY DEF Underway
<1>5. /\ spec.mode = "Forward" => GroupsWait(x) /\ Old.phase = "UpgradingControlPlane"
      /\ spec.mode = "Rollback" => GroupsDone(x)
  BY <1>2, <1>4 DEF ControlPlanePhases, ForwardPhases, NgPart, GroupsWait, GroupsDone
<1>6. spec.karp => x.karp \in {"Pending", "InProgress"}
  BY <1>2, <1>4 DEF KarpPart, ControlPlanePhases
<1>7. PathPart(x)
  BY <1>2, <1>4 DEF PathPart
<1>8. spec.target \in Nat
  BY Bounds DEF Versions
<1>9. CASE Old.step + 1 > Len(Old.path)
  <2>1. Old.step = Len(Old.path)
    BY <1>3, <1>9
  <2>2. cluster.cp = spec.target
    <3>1. Old.path[Old.step] + Len(Old.path) = spec.target + Old.step
      BY <1>3, <1>4 DEF PathPart
    <3> QED BY <1>3, <1>8, <2>1, <3>1
  <2>3. Ready(x)
    BY <1>2, <1>3, <1>4, <1>6, <1>7, <2>1, <2>2 DEF Ready, NgPart, AddonPart
  <2>4. x.phase = AfterControlPlane(x, spec.mode)
    BY <1>2, <1>9, SameNextPhase
  <2>5. Proceeds(x)
    BY <1>5, <2>2, <2>3, <2>4, ControlPlaneProceeds
  <2>6. spec.mode = "Rollback" => x.phase = "Completed"
    BY <2>4 DEF AfterControlPlane
  <2>7. x.step = Old.step \/ ~AtTarget(Old) \/ x.phase = "Completed"
    BY <2>6 DEF AtTarget
  <2>8. x.phase \notin Calm
    BY <2>5 DEF Proceeds, UnderwayPhases, Calm
  <2>9. \A n \in DOMAIN x.ng : x.ng[n].id # None =>
          Old.phase \in NodeGroupPhases /\ x.ng[n].id = spec.target
    BY <1>2, InRunPhase, OwnUpdates
  <2>10. KeepsPlan(x)
    BY <1>2, <2>2, <2>7, <2>8, <2>9 DEF KeepsPlan
  <2> QED BY <1>1, <2>5, <2>10
<1>10. CASE ~(Old.step + 1 > Len(Old.path))
  <2>1. x.phase = Old.phase /\ Old.step + 1 \in 1..Len(Old.path)
    BY <1>2, <1>3, <1>10
  <2>2. spec.mode = "Forward"
    <3>1. spec.mode # "Rollback"
      BY <1>3, <1>4, <2>1 DEF PathPart
    <3> QED BY <3>1 DEF Modes
  <2>3. cluster.cp = Before(x.path[x.step]) /\ x.step \in 1..Len(x.path)
    <3>1. /\ Old.path[Old.step] + Len(Old.path) = spec.target + Old.step
          /\ Old.path[Old.step + 1] + Len(Old.path) = spec.target + (Old.step + 1)
      BY <1>3, <1>4, <2>1 DEF PathPart
    <3>2. Old.path[Old.step + 1] = Old.path[Old.step] + 1
      <4>1. Old.path[Old.step] \in Nat /\ Old.path[Old.step + 1] \in Nat
        BY <1>3, <2>1
      <4>2. \A a, b, l, t, k \in Nat : a + l = t + k /\ b + l = t + (k + 1) => b = a + 1
        OBVIOUS
      <4>3. PICK a, b, l, t, k \in Nat : /\ a = Old.path[Old.step] /\ b = Old.path[Old.step + 1]
                                         /\ l = Len(Old.path) /\ t = spec.target /\ k = Old.step
        BY <1>3, <1>8, <4>1
      <4>4. a + l = t + k /\ b + l = t + (k + 1)
        BY <3>1, <4>3
      <4>5. b = a + 1
        BY ONLY <4>2, <4>4, a \in Nat, b \in Nat, l \in Nat, t \in Nat, k \in Nat
      <4> QED BY ONLY <4>3, <4>5
    <3>3. cluster.cp \in Nat
      BY <1>3
    <3> QED BY <1>2, <1>3, <2>1, <2>2, <3>2, <3>3 DEF Before
  <2>4. Ready(x)
    BY <1>2, <1>4, <1>6, <1>7, <2>3 DEF Ready, NgPart, AddonPart
  <2>5. Underway(x)
    BY <1>5, <2>1, <2>2, <2>4, InRunPhase, ReadyUnderway DEF ForwardPhases
  <2>6. Proceeds(x)
    BY <2>1, <2>5, InRunPhase DEF Proceeds
  <2>7. \A n \in DOMAIN x.ng : x.ng[n].id # None =>
          Old.phase \in NodeGroupPhases /\ x.ng[n].id = spec.target
    BY <1>2, InRunPhase, OwnUpdates
  <2>8. x.phase \notin Calm /\ x.phase # "Completed"
    BY <2>1 DEF InRun, Terminal
  <2>9. KeepsPlan(x)
    BY <1>2, <2>2, <2>7, <2>8 DEF KeepsPlan, AtTarget
  <2> QED BY <1>1, <2>6, <2>9
<1> QED BY <1>9, <1>10

\* Polling the update of the control plane, or giving up on it.
LEMMA ControlPlaneSaves ==
    ASSUME InRun, PollControlPlane \/ ControlPlaneTimeout
    PROVE  Still /\ \E x : Saves(x)
<1> USE InRunIs
<1>1. PICK y : y = [Old EXCEPT !.cpId = None, !.phase = "Failed"]
  OBVIOUS
<1>2. None \in VersionOrNone /\ "Failed" \in Phases
  BY PhasesAre DEF VersionOrNone
<1>3. /\ Writable(y) /\ y \in StatusType /\ y.phase = "Failed" /\ y.path = Old.path
      /\ y.step = Old.step /\ y.cpId = None
      /\ y.planned = Old.planned /\ y.addons = Old.addons /\ y.ng = Old.ng /\ y.last = Old.last
  <2>1. /\ y \in StatusType /\ y.phase = "Failed" /\ y.path = Old.path
        /\ y.step = Old.step /\ y.cpId = None
        /\ y.planned = Old.planned /\ y.addons = Old.addons /\ y.ng = Old.ng /\ y.last = Old.last
    BY <1>1, <1>2, OldIs, StatusIs
  <2> QED BY <2>1, OldIs DEF Writable, Recorded
<1>4. KeepsPlan(y)
  BY <1>3, PlanKept DEF Calm
<1>5. CASE PollControlPlane
  <2>1. Quiet /\ Old.cpId # None /\ Old.phase \in ControlPlanePhases
    BY <1>5 DEF PollControlPlane, Reconciles, Old
  <2>2. CASE Save(y)
    <3>1. spec' = spec
      BY <2>2 DEF Save, Write
    <3> QED BY <1>3, <1>4, <2>1, <2>2, <3>1, QuietStill, SaveSaves
  <2>3. CASE Poll("cp", Old.cpId) = "Successful" /\ Save(UpdateSucceeded)
    <3>1. updating["cp"] # Old.cpId /\ failed["cp"] # Old.cpId
      BY <2>3 DEF Poll
    <3>2. Old.cpId = cluster.cp
      BY <2>1, <3>1 DEF Underway, CpPart
    <3>3. KeepsPlan(UpdateSucceeded) /\ Proceeds(UpdateSucceeded)
      BY <2>1, <3>2, SucceededProceeds
    <3>4. spec' = spec
      BY <2>3 DEF Save, Write
    <3>5. PICK x : x = UpdateSucceeded
      OBVIOUS
    <3>6. Saves(x)
      BY <2>1, <2>3, <3>3, <3>4, <3>5, QuietStill, SaveSaves
    <3> QED BY <2>1, <3>4, <3>6, QuietStill
  <2> QED BY <1>1, <1>5, <2>2, <2>3 DEF PollControlPlane
<1>6. CASE ControlPlaneTimeout
  <2>1. /\ Quiet /\ UNCHANGED <<spec, seen, moved>>
        /\ status' = MergePatch([Old EXCEPT !.cpId = None, !.phase = "Failed", !.obs = seen.spec.gen])
    BY <1>6 DEF ControlPlaneTimeout
  <2>2. Noted(y) = [Old EXCEPT !.cpId = None, !.phase = "Failed", !.obs = seen.spec.gen]
    BY <1>1, <1>3, OldIs, StatusIs DEF Noted
  <2>3. Saves(y)
    BY <1>3, <1>4, <2>1, <2>2, PatchSaves DEF Quiet
  <2> QED BY <2>1, <2>3, QuietStill
<1> QED BY <1>5, <1>6

\* The add-ons, once they are asked for.
LEMMA AddonsSave ==
    ASSUME InRun, Addons, Quiet, Old.addons # "Pending"
    PROVE  Still /\ \E x : Saves(x)
<1> USE InRunIs
<1>1. Old.phase \in AddonPhases
  BY DEF Addons, Reconciles, Old
<1>2. /\ Ready(Old) /\ (spec.mode = "Forward" => cluster.cp = spec.target)
      /\ spec.mode = "Rollback" => GroupsDone(Old)
      /\ spec.mode = "Forward" => GroupsWait(Old)
      /\ (Old.phase \in ForwardPhases <=> spec.mode = "Forward")
  <2>1. Old.phase \notin ControlPlanePhases /\ Old.phase # "UpgradingKarpenterNodePools"
    BY <1>1 DEF AddonPhases, ControlPlanePhases
  <2> QED BY <1>1, <2>1, UnderwayReady
      DEF Underway, NgPart, GroupsDone, GroupsWait, AddonPhases, ForwardPhases
<1>3. CASE Old.addons \in {None, "Completed"} /\ Save([Old EXCEPT !.phase = AfterAddons(Old, Mode)])
  <2>1. PICK p : p = AfterAddons(Old, Mode)
    OBVIOUS
  <2>2. p \in Phases
    BY <2>1, PhasesAre
  <2>3. PICK x : x = [Old EXCEPT !.phase = p]
    OBVIOUS
  <2>4. /\ x.phase = p /\ x.path = Old.path /\ x.step = Old.step /\ x.cpId = Old.cpId
        /\ x.planned = Old.planned /\ x.addons = Old.addons /\ x.ng = Old.ng
        /\ x.karp = Old.karp
    BY <2>2, <2>3, PhaseVariant
  <2>5. Ready(x) /\ x.phase = AfterAddons(x, spec.mode)
    BY <1>2, <2>1, <2>4, ReadyPhase, SameNextPhase
  <2>6. Proceeds(x)
    BY <1>2, <1>3, <2>4, <2>5, AddonsProceed DEF GroupsDone
  <2>7. Save(x) /\ spec' = spec
    BY <1>3, <2>1, <2>3 DEF Save, Write
  <2>8. Saves(x)
    BY <2>2, <2>3, <2>6, <2>7, ProceedsKept, QuietStill, SaveSaves
  <2> QED BY <2>7, <2>8, QuietStill
<1>4. ASSUME NEW a \in {"Completed", "Failed"}, NEW p \in {Old.phase, "Failed"}, Old.addons = "InProgress",
             NEW x, x = [Old EXCEPT !.addons = a, !.phase = p]
      PROVE  KeepsPlan(x) /\ x.phase = p /\ (p # "Failed" /\ cluster.addons = spec.target /\ a = "Completed" => Underway(x))
  <2>1. a \in States /\ p \in Phases /\ p \notin Calm
    BY OldIs, PhasesAre DEF States, ComponentStatus, InRun, Calm
  <2>2. /\ Writable(x) /\ x.phase = p /\ x.path = Old.path /\ x.step = Old.step /\ x.cpId = Old.cpId
        /\ x.planned = Old.planned /\ x.addons = a /\ x.ng = Old.ng
        /\ x.karp = Old.karp /\ x.last = Old.last
    <3>1. /\ x \in StatusType /\ x.phase = p /\ x.path = Old.path /\ x.step = Old.step
          /\ x.cpId = Old.cpId /\ x.planned = Old.planned /\ x.addons = a /\ x.ng = Old.ng
          /\ x.karp = Old.karp /\ x.last = Old.last
      BY <1>4, <2>1, OldIs, StatusIs
    <3> QED BY <3>1, OldIs DEF Writable, Recorded
  <2>3. a # None /\ Old.addons # None
    BY <1>4, NamesDiffer DEF ComponentStatus
  <2>4. x.phase # "Completed"
    BY <1>4, <2>2 DEF InRun, Terminal
  <2>5. KeepsPlan(x)
    BY <2>1, <2>2, <2>3, <2>4, PlanKept
  <2>6. ASSUME p # "Failed", cluster.addons = spec.target, a = "Completed" PROVE Underway(x)
    <3>1. Ready(x)
      BY <1>2, <2>2, <2>6 DEF Ready, PathPart
    <3>2. x.phase = Old.phase /\ x.phase \in UnderwayPhases
      BY <1>4, <2>2, <2>6, InRunPhase
    <3>3. /\ x.phase \in ForwardPhases <=> spec.mode = "Forward"
          /\ spec.mode = "Forward" => cluster.cp = spec.target
          /\ x.phase \in {"UpgradingControlPlane", "UpgradingAddons"} => GroupsWait(x)
          /\ x.phase \in {"UpgradingKarpenterNodePools", "RollingBackAddons", "RollingBackControlPlane"} =>
                GroupsDone(x)
      BY <1>1, <1>2, <2>2, <3>2 DEF AddonPhases, ForwardPhases, GroupsWait, GroupsDone, Modes
    <3>4. x.phase \notin {"UpgradingNodeGroups", "UpgradingKarpenterNodePools"}
      BY <1>1, <3>2 DEF AddonPhases
    <3> QED BY ONLY <3>1, <3>2, <3>3, <3>4, ReadyUnderway
  <2> QED BY <2>2, <2>5, <2>6
<1>5. CASE Old.addons = "InProgress" /\ updating["addons"] = None
  <2>1. CASE failed["addons"] = None /\ Save([Old EXCEPT !.addons = "Completed"])
    <3>1. cluster.addons = spec.target
      BY <1>2, <1>5, <2>1 DEF Ready
    <3>2. PICK x : x = [Old EXCEPT !.addons = "Completed", !.phase = Old.phase]
      OBVIOUS
    <3>3. x = [Old EXCEPT !.addons = "Completed"]
      BY <3>2, OldIs, StatusIs
    <3>4. KeepsPlan(x) /\ x.phase = Old.phase /\ Underway(x)
      BY <1>4, <1>5, <3>1, <3>2 DEF InRun, Terminal
    <3>5. Save(x) /\ spec' = spec
      BY <2>1, <3>3 DEF Save, Write
    <3>6. Saves(x)
      BY <3>4, <3>5, InRunPhase, QuietStill, SaveSaves DEF Proceeds
    <3> QED BY <3>5, <3>6, QuietStill
  <2>2. CASE Save([Old EXCEPT !.addons = "Failed", !.phase = "Failed"])
    <3>1. PICK x : x = [Old EXCEPT !.addons = "Failed", !.phase = "Failed"]
      OBVIOUS
    <3>2. KeepsPlan(x) /\ x.phase = "Failed"
      BY <1>4, <1>5, <3>1
    <3>3. Save(x) /\ spec' = spec
      BY <2>2, <3>1 DEF Save, Write
    <3>4. Saves(x)
      BY <3>2, <3>3, QuietStill, SaveSaves
    <3> QED BY <3>3, <3>4, QuietStill
  <2> QED BY <1>5, <2>1, <2>2, NamesDiffer DEF Addons, ComponentStatus
<1> QED BY <1>3, <1>5 DEF Addons
\* The node groups, once they are asked for.
LEMMA GroupPhaseIs ==
    ASSUME InRun, Old.phase \in NodeGroupPhases
    PROVE  /\ Ready(Old) /\ (spec.mode = "Forward" => cluster.cp = spec.target)
           /\ spec.mode = "Forward" => Old.addons \in {None, "Completed"}
           /\ (Old.phase \in ForwardPhases <=> spec.mode = "Forward")
<1> USE InRunIs
<1>1. Old.phase \notin ControlPlanePhases /\ Old.phase # "UpgradingKarpenterNodePools"
  BY DEF NodeGroupPhases, ControlPlanePhases
<1>2. spec.mode = "Forward" => Old.addons \in {None, "Completed"}
  BY DEF Underway, AddonPart, NodeGroupPhases, ForwardPhases
<1> QED BY <1>1, <1>2, UnderwayReady DEF Underway

\* All node groups are done.
LEMMA NodeGroupsDoneSaves ==
    ASSUME InRun, NodeGroupsDone
    PROVE  Still /\ \E x : Saves(x)
<1> USE InRunIs
<1>1. Old.phase \in NodeGroupPhases /\ ActiveNodeGroup(Old) = None /\ Quiet
  BY DEF NodeGroupsDone, Reconciles, Old
<1>2. GroupsDone(Old)
  BY <1>1, NoneActive DEF GroupsDone
<1>3. PICK p : p = AfterNodeGroups(Old, Mode)
  OBVIOUS
<1>4. p \in Phases
  BY <1>3, PhasesAre
<1>5. PICK x : x = [Old EXCEPT !.phase = p]
  OBVIOUS
<1>6. /\ x.phase = p /\ x.path = Old.path /\ x.step = Old.step /\ x.cpId = Old.cpId
      /\ x.planned = Old.planned /\ x.addons = Old.addons /\ x.ng = Old.ng
      /\ x.karp = Old.karp
  BY <1>4, <1>5, PhaseVariant
<1>7. Ready(x) /\ x.phase = AfterNodeGroups(x, spec.mode) /\ GroupsDone(x)
  BY <1>1, <1>2, <1>3, <1>6, GroupPhaseIs, ReadyPhase, SameNextPhase DEF GroupsDone
<1>8. Proceeds(x)
  BY <1>1, <1>6, <1>7, GroupPhaseIs, NodeGroupsProceed
<1>9. Save(x) /\ spec' = spec
  BY <1>3, <1>5 DEF NodeGroupsDone, Save, Write
<1>10. Saves(x)
  BY <1>1, <1>4, <1>5, <1>8, <1>9, ProceedsKept, QuietStill, SaveSaves
<1> QED BY <1>1, <1>9, <1>10, QuietStill

\* The status with the entry of one node group replaced.
WithGroup(n, e, p) == [Old EXCEPT !.ng[n] = e, !.phase = p]

\* Such a status keeps the plan.
LEMMA GroupKept ==
    ASSUME InRun, Old.phase \in NodeGroupPhases, NEW n \in DOMAIN Old.ng, NEW e \in GroupState,
           NEW p \in {Old.phase, "Failed"}, NEW x, x = WithGroup(n, e, p),
           e.id \in {None, spec.target}
    PROVE  /\ KeepsPlan(x) /\ x.phase = p
           /\ x.path = Old.path /\ x.step = Old.step /\ x.cpId = Old.cpId
           /\ x.planned = Old.planned /\ x.addons = Old.addons /\ x.karp = Old.karp
           /\ DOMAIN x.ng = DOMAIN Old.ng /\ x.ng[n] = e
           /\ \A m \in DOMAIN Old.ng : m # n => x.ng[m] = Old.ng[m]
<1> USE InRunIs
<1>1. p \in Phases /\ p \notin Calm /\ p # "Completed"
  BY OldIs, PhasesAre DEF InRun, Calm, Terminal
<1>2. /\ Writable(x) /\ x.phase = p /\ x.path = Old.path /\ x.step = Old.step /\ x.cpId = Old.cpId
      /\ x.planned = Old.planned /\ x.addons = Old.addons
      /\ x.ng = [Old.ng EXCEPT ![n] = e] /\ x.karp = Old.karp /\ x.last = Old.last
  <2>1. PICK g : g = [Old.ng EXCEPT ![n] = e]
    OBVIOUS
  <2>2. g \in GroupMaps
    BY <2>1, OldIs, GroupsAre
  <2>3. x = [Old EXCEPT !.ng = g, !.phase = p]
    BY <2>1, OldIs, StatusIs DEF WithGroup
  <2>4. /\ x \in StatusType /\ x.phase = p /\ x.path = Old.path /\ x.step = Old.step
        /\ x.cpId = Old.cpId /\ x.planned = Old.planned /\ x.addons = Old.addons
        /\ x.ng = g /\ x.karp = Old.karp /\ x.last = Old.last
    BY <1>1, <2>2, <2>3, OldIs, StatusIs
  <2> QED BY <2>1, <2>4, OldIs DEF Writable, Recorded
<1>3. /\ DOMAIN x.ng = DOMAIN Old.ng /\ x.ng[n] = e
      /\ \A m \in DOMAIN Old.ng : m # n => x.ng[m] = Old.ng[m]
  <2>1. Old.ng \in [DOMAIN Old.ng -> GroupState]
    BY OldIs, GroupsAre
  <2> QED BY <1>2, <2>1
<1>4. \A m \in DOMAIN x.ng : x.ng[m].id # None =>
          Old.phase \in NodeGroupPhases /\ x.ng[m].id = spec.target
  BY <1>3, InRunPhase, OwnUpdates
<1>5. x.cpId = None
  BY <1>2, InRunPhase, OwnUpdates DEF NodeGroupPhases, ControlPlanePhases
<1>6. KeepsPlan(x)
  BY <1>1, <1>2, <1>3, <1>4, <1>5 DEF KeepsPlan
<1> QED BY <1>2, <1>3, <1>6

\* Polling the update of a node group, or giving up on it.
LEMMA PollNodeGroupSaves ==
    ASSUME InRun, PollNodeGroup \/ NodeGroupTimeout
    PROVE  Still /\ \E x : Saves(x)
<1> USE InRunIs
<1>1. Old.phase \in NodeGroupPhases /\ Quiet
  BY DEF PollNodeGroup, NodeGroupTimeout, Reconciles, Old
<1>2. PICK n : /\ n = ActiveNodeGroup(Old) /\ n # None /\ Old.ng[n].st = "InProgress"
  BY DEF PollNodeGroup, NodeGroupTimeout
<1>3. n \in DOMAIN Old.ng
  BY <1>2, ActiveIs
<1>4. /\ [st |-> "Completed", id |-> None] \in GroupState
      /\ [st |-> "Failed", id |-> None] \in GroupState
  BY DEF GroupState, ComponentStatus, VersionOrNone
<1>5. PICK y : y = [Old EXCEPT !.ng[n] = [st |-> "Failed", id |-> None], !.phase = "Failed"]
  OBVIOUS
<1>6. KeepsPlan(y) /\ y.phase = "Failed"
  <2>1. PICK e \in GroupState : e = [st |-> "Failed", id |-> None]
    BY <1>4
  <2>2. e.id \in {None, spec.target} /\ y = WithGroup(n, e, "Failed")
    BY <1>5, <2>1 DEF WithGroup
  <2> QED BY <1>1, <1>3, <2>2, GroupKept
<1>7. CASE PollNodeGroup /\ Poll(n, Old.ng[n].id) = "Successful"
           /\ Save([Old EXCEPT !.ng[n] = [st |-> "Completed", id |-> None]])
  <2>1. PICK e \in GroupState : e = [st |-> "Completed", id |-> None]
    BY <1>4
  <2>2. PICK x : x = WithGroup(n, e, Old.phase)
    OBVIOUS
  <2>3. x = [Old EXCEPT !.ng[n] = e]
    BY <2>2, OldIs, StatusIs DEF WithGroup
  <2>4. e.id \in {None, spec.target} /\ e.id = None /\ e.st = "Completed"
    BY <2>1
  <2>5. /\ KeepsPlan(x) /\ x.phase = Old.phase
        /\ x.path = Old.path /\ x.step = Old.step /\ x.cpId = Old.cpId
        /\ x.planned = Old.planned /\ x.addons = Old.addons /\ x.karp = Old.karp
        /\ DOMAIN x.ng = DOMAIN Old.ng /\ x.ng[n] = e
        /\ \A m \in DOMAIN Old.ng : m # n => x.ng[m] = Old.ng[m]
    BY <1>1, <1>3, <2>2, <2>4, GroupKept
  <2>6. cluster.ng[n] = spec.target
    <3>1. Old.ng[n] = [st |-> "InProgress", id |-> spec.target]
          /\ spec.target \in {updating[n], failed[n], cluster.ng[n]}
      BY <1>2, <1>3 DEF Underway, NgPart, Waiting
    <3>2. updating[n] # spec.target /\ failed[n] # spec.target
      BY <1>7, <3>1 DEF Poll
    <3> QED BY <3>1, <3>2
  <2>7. Ready(x)
    BY <1>1, <2>1, <2>5, <2>6, GroupPhaseIs DEF Ready, PathPart
  <2>8. Underway(x)
    <3>1. /\ x.phase \in UnderwayPhases /\ (x.phase \in ForwardPhases <=> spec.mode = "Forward")
          /\ (spec.mode = "Forward" => cluster.cp = spec.target /\ x.addons \in {None, "Completed"})
      BY <1>1, <2>5, GroupPhaseIs, InRunPhase
    <3>2. x.phase \in {"UpgradingNodeGroups", "RollingBackNodeGroups"}
      BY <1>1, <2>5 DEF NodeGroupPhases
    <3>3. x.phase = "UpgradingNodeGroups" => spec.mode = "Forward"
      BY <3>1 DEF ForwardPhases
    <3> QED BY ONLY <2>7, <3>1, <3>2, <3>3, ReadyUnderway
  <2>9. Save(x) /\ spec' = spec
    BY <1>7, <2>1, <2>3 DEF Save, Write
  <2>10. Saves(x)
    BY <1>1, <2>5, <2>8, <2>9, InRunPhase, QuietStill, SaveSaves DEF Proceeds
  <2> QED BY <1>1, <2>9, <2>10, QuietStill
<1>8. CASE Save(y)
  <2>1. spec' = spec
    BY <1>8 DEF Save, Write
  <2>2. Saves(y)
    BY <1>1, <1>6, <1>8, <2>1, QuietStill, SaveSaves
  <2> QED BY <1>1, <2>1, <2>2, QuietStill
<1>9. CASE NodeGroupTimeout
  <2>1. /\ UNCHANGED <<spec, seen, moved>>
        /\ status' = MergePatch([Old EXCEPT !.ng[n] = [st |-> "Failed", id |-> None],
                                    !.phase = "Failed", !.obs = seen.spec.gen])
    BY <1>2, <1>9 DEF NodeGroupTimeout
  <2>2. y \in StatusType /\ y.phase = "Failed"
    BY <1>6 DEF KeepsPlan, Writable
  <2>3. Noted(y) = [y EXCEPT !.obs = seen.spec.gen]
    BY <2>2, StatusIs DEF Noted
  <2>4. [y EXCEPT !.obs = seen.spec.gen]
           = [Old EXCEPT !.ng[n] = [st |-> "Failed", id |-> None], !.phase = "Failed",
                         !.obs = seen.spec.gen]
    BY <1>5
  <2>5. Saves(y)
    BY <1>1, <1>6, <2>1, <2>3, <2>4, PatchSaves DEF Quiet
  <2> QED BY <1>1, <2>1, <2>5, QuietStill
<1> QED BY <1>2, <1>5, <1>7, <1>8, <1>9 DEF PollNodeGroup
\* The status with the entry of the Karpenter pool replaced.
WithPool(k, b, p) == [Old EXCEPT !.karp = k, !.batch = b, !.phase = p]

\* Such a status keeps the plan, and the run under way.
LEMMA PoolKept ==
    ASSUME InRun, Old.phase = "UpgradingKarpenterNodePools", NEW k \in States, NEW b \in Batches,
           NEW p \in {Old.phase, "Failed"}, NEW x, x = WithPool(k, b, p)
    PROVE  /\ KeepsPlan(x) /\ x.phase = p
           /\ p # "Failed" /\ \/ k \in {"Pending", "InProgress"}
                              \/ k = "Completed" /\ cluster.kn.version >= spec.target
              => Proceeds(x)
<1> USE InRunIs
<1>1. p \in Phases /\ p \notin Calm /\ p # "Completed"
  BY OldIs, PhasesAre DEF InRun, Calm, Terminal
<1>2. /\ x \in StatusType /\ x.phase = p /\ x.path = Old.path /\ x.step = Old.step
      /\ x.cpId = Old.cpId /\ x.planned = Old.planned /\ x.addons = Old.addons
      /\ x.ng = Old.ng /\ x.karp = k /\ x.last = Old.last
  BY <1>1, OldIs, StatusIs DEF WithPool
<1>3. Writable(x)
  BY <1>2, OldIs DEF Writable, Recorded
<1>4. KeepsPlan(x)
  BY <1>1, <1>2, <1>3, PlanKept
<1>5. ASSUME p # "Failed", \/ k \in {"Pending", "InProgress"}
                           \/ k = "Completed" /\ cluster.kn.version >= spec.target
      PROVE  Underway(x)
  <2>1. x.phase = Old.phase
    BY <1>2, <1>5
  <2>2. PathPart(x) /\ CpPart(x)
    BY <1>2, <2>1 DEF Underway, PathPart, CpPart
  <2>3. NgPart(x) /\ AddonPart(x)
    BY <1>2, <2>1 DEF Underway, NgPart, AddonPart
  <2>4. KarpPart(x)
    BY <1>2, <1>5, <2>1 DEF KarpPart
  <2> QED BY <2>1, <2>2, <2>3, <2>4 DEF Underway
<1> QED BY <1>2, <1>4, <1>5, InRunPhase DEF Proceeds

\* The Karpenter phase.
LEMMA KarpenterSaves ==
    ASSUME InRun, KarpenterDone \/ StartNextBatch \/ AdvanceBatch
    PROVE  Still /\ \E x : Saves(x)
<1> USE InRunIs
<1>1. Old.phase = "UpgradingKarpenterNodePools" /\ spec.karp
  BY DEF KarpenterDone, StartNextBatch, AdvanceBatch, Reconciles, Old
<1>2. /\ {"InProgress", "Completed", "Failed"} \subseteq States /\ Old.karp \in States
      /\ {"Draining", "WaitingControllerStable", None} \subseteq Batches /\ Old.batch \in Batches
  BY OldIs DEF States, ComponentStatus, Batches
<1>3. CASE KarpenterDone
  <2>1. Quiet /\ Save([Old EXCEPT !.phase = "Completed"]) /\ Old.karp \in {None, "Completed", "Failed"}
    BY <1>3 DEF KarpenterDone
  <2>2. /\ PathPart(Old) /\ CpPart(Old) /\ NgPart(Old) /\ AddonPart(Old) /\ KarpPart(Old)
        /\ spec.mode = "Forward"
    BY <1>1 DEF Underway, ForwardPhases
  <2>3. Arrived(Old, omitted)
    <3>1. cluster.cp = spec.target
      BY <1>1, <2>2 DEF CpPart
    <3>2. cluster.addons = spec.target \/ ("addons" \in omitted /\ Old.addons = None)
      BY <1>1, <2>2 DEF AddonPart
    <3>3. cluster.kn.version >= spec.target
      BY <1>1, <2>1, <2>2, NamesDiffer DEF KarpPart, ComponentStatus
    <3>4. \A n \in NodeGroups : cluster.ng[n] = spec.target \/ n \in omitted \ DOMAIN Old.ng
      BY <1>1, <2>2 DEF NgPart, Waiting
    <3> QED BY <3>1, <3>2, <3>3, <3>4 DEF Arrived
  <2>4. PICK x : x = [Old EXCEPT !.phase = "Completed"]
    OBVIOUS
  <2>5. "Completed" \in Phases
    BY PhasesAre
  <2>6. Proceeds(x)
    BY <2>3, <2>4, <2>5, PhaseVariant DEF Proceeds, Arrived
  <2>7. KeepsPlan(x)
    BY <2>4, <2>5, <2>6, ProceedsKept
  <2>8. Save(x) /\ spec' = spec
    BY <2>1, <2>4 DEF Save, Write
  <2>9. Saves(x)
    BY <2>1, <2>6, <2>7, <2>8, QuietStill, SaveSaves
  <2> QED BY <2>1, <2>8, <2>9, QuietStill
<1>4. ASSUME NEW k \in States, NEW b \in Batches, NEW p \in {Old.phase, "Failed"},
             Save(WithPool(k, b, p)), cluster'.cp = cluster.cp,
             \/ p = "Failed"
             \/ k \in {"Pending", "InProgress"}
             \/ k = "Completed" /\ cluster.kn.version >= spec.target
      PROVE  \E x : Saves(x)
  <2>1. PICK x : x = WithPool(k, b, p)
    OBVIOUS
  <2>2. KeepsPlan(x) /\ (Proceeds(x) \/ x.phase = "Failed")
    BY <1>1, <1>4, <2>1, PoolKept
  <2> QED BY <1>4, <2>1, <2>2, SaveSaves
<1>5. ASSUME NEW k \in States, NEW b \in Batches, NEW p \in Phases
      PROVE  /\ [Old EXCEPT !.karp = k, !.batch = b] = WithPool(k, b, Old.phase)
             /\ [Old EXCEPT !.karp = k, !.phase = p] = WithPool(k, Old.batch, p)
             /\ [Old EXCEPT !.karp = k] = WithPool(k, Old.batch, Old.phase)
             /\ [Old EXCEPT !.batch = b] = WithPool(Old.karp, b, Old.phase)
  BY OldIs, StatusIs DEF WithPool
<1>6. CASE StartNextBatch
  <2>1. CASE cluster.kn.version < seen.spec.target
    <3>1. /\ cluster' = [cluster EXCEPT !.kn.draining = TRUE] /\ updating' = updating /\ failed' = failed
          /\ Save([Old EXCEPT !.karp = "InProgress", !.batch = "Draining"]) /\ omitted' = omitted
      BY <1>6, <2>1 DEF StartNextBatch
    <3>2. Save(WithPool("InProgress", "Draining", Old.phase))
      BY <1>2, <1>5, <3>1, OldIs
    <3>3. Still
      BY <3>1 DEF Save, Write, Still, Typed, ClusterType
    <3> QED BY <1>2, <1>4, <3>2, <3>3 DEF Still
  <2>2. CASE ~(cluster.kn.version < seen.spec.target)
    <3>1. Save([Old EXCEPT !.karp = "Completed"]) /\ Quiet
      BY <1>6, <2>2 DEF StartNextBatch
    <3>2. Save(WithPool("Completed", Old.batch, Old.phase))
      BY <1>2, <1>5, <3>1, OldIs
    <3>3. Still
      BY <3>1, QuietStill DEF Save, Write
    <3>4. cluster.kn.version >= spec.target
      BY <2>2, Bounds DEF Typed, ClusterType, Versions
    <3> QED BY <1>2, <1>4, <3>2, <3>3, <3>4 DEF Still
  <2> QED BY <2>1, <2>2
<1>7. CASE AdvanceBatch
  <2>1. Old.karp \in {"Pending", "InProgress"} /\ Quiet
    BY <1>7 DEF AdvanceBatch
  <2>2. CASE Save([Old EXCEPT !.karp = "InProgress", !.batch = None])
    <3>1. Save(WithPool("InProgress", None, Old.phase))
      BY <1>2, <1>5, <2>2, OldIs
    <3>2. Still
      BY <2>1, <2>2, QuietStill DEF Save, Write
    <3> QED BY <1>2, <1>4, <3>1, <3>2 DEF Still
  <2>3. CASE Save([Old EXCEPT !.batch = "WaitingControllerStable"])
    <3>1. Save(WithPool(Old.karp, "WaitingControllerStable", Old.phase))
      BY <1>2, <1>5, <2>3, OldIs
    <3>2. Still
      BY <2>1, <2>3, QuietStill DEF Save, Write
    <3> QED BY <1>2, <1>4, <2>1, <3>1, <3>2 DEF Still
  <2>4. CASE Save([Old EXCEPT !.karp = "Failed", !.phase = "Failed"])
    <3>1. Save(WithPool("Failed", Old.batch, "Failed"))
      BY <1>2, <1>5, <2>4, PhasesAre
    <3>2. Still
      BY <2>1, <2>4, QuietStill DEF Save, Write
    <3> QED BY <1>2, <1>4, <3>1, <3>2 DEF Still
  <2> QED BY <1>7, <2>2, <2>3, <2>4 DEF AdvanceBatch
<1> QED BY <1>3, <1>6, <1>7

\* The reconciles of a run that ask EKS for nothing new.
LEMMA RunSaves ==
    ASSUME InRun,
           \/ PollControlPlane \/ ControlPlaneTimeout
           \/ Addons /\ Quiet /\ Old.addons # "Pending"
           \/ NodeGroupsDone \/ PollNodeGroup \/ NodeGroupTimeout
           \/ KarpenterDone \/ StartNextBatch \/ AdvanceBatch
           \/ UpdateRefused \/ TransientError \/ SaveError("Failed")
    PROVE  Still /\ \E x : Saves(x)
<1>1. CASE UpdateRefused \/ TransientError
  BY <1>1, ErrorSaves DEF UpdateRefused, TransientError
<1>2. CASE SaveError("Failed")
  BY <1>2, ErrorSaves
<1> QED BY <1>1, <1>2, ControlPlaneSaves, AddonsSave, NodeGroupsDoneSaves, PollNodeGroupSaves,
           KarpenterSaves
-----------------------------------------------------------------------------
\* EKS carries out no other updates than those of the phase.
LEMMA NoOtherUpdates ==
    ASSUME InRun
    PROVE  /\ Old.phase \notin NodeGroupPhases => \A n \in NodeGroups : updating[n] = None
           /\ Old.phase \notin ControlPlanePhases => updating["cp"] = None
<1> USE InRunIs
<1>1. ~Unknown
  BY DEF Core
<1>2. ASSUME NEW n \in NodeGroups, updating[n] # None PROVE Old.phase \in NodeGroupPhases
  <2>1. n \in DOMAIN status.ng /\ status.ng[n].id = updating[n]
    BY <1>1, <1>2 DEF Unknown
  <2> QED BY <1>2, <2>1 DEF Follows
<1>3. ASSUME updating["cp"] # None PROVE Old.phase \in ControlPlanePhases
  <2>1. status.cpId = updating["cp"]
    BY <1>1, <1>3 DEF Unknown
  <2> QED BY <1>3, <2>1 DEF Follows
<1> QED BY <1>2, <1>3

\* A new update leaves a run under way.
LEMMA StartUnderway ==
    ASSUME Typed, NEW r \in Resources, NEW v \in Versions, StartUpdate(r, v), spec' = spec,
           NEW s \in StatusType, Underway(s),
           r = "cp" => s.cpId \in {None, v},
           r \in DOMAIN s.ng => s.ng[r].id \in {None, v}
    PROVE  Underway(s)'
<1>0. /\ DOMAIN s.ng \subseteq NodeGroups /\ "cp" \notin NodeGroups /\ "addons" \notin NodeGroups
      /\ NodeGroups \subseteq Resources /\ {"cp", "addons"} \subseteq Resources
  BY StatusIs, GroupsAre, NamesDiffer DEF Resources
<1>1. /\ updating'[r] = v /\ v # None
      /\ \A q \in Resources : q # r => updating'[q] = updating[q] /\ failed'[q] = failed[q]
      /\ cluster' = cluster /\ omitted' = omitted
  BY NamesDiffer, Bounds DEF StartUpdate, Typed, Versions
<1>2. PathPart(s)' /\ KarpPart(s)'
  BY <1>1 DEF Underway, PathPart, KarpPart
<1>3. CpPart(s)'
  <2>1. s.cpId # None => s.cpId \in {updating'["cp"], failed'["cp"], cluster.cp}
    BY <1>0, <1>1 DEF Underway, CpPart
  <2> QED BY <1>1, <2>1 DEF Underway, CpPart, Before
<1>4. NgPart(s)'
  <2>1. ASSUME NEW n \in DOMAIN s.ng, s.ng[n] = [st |-> "InProgress", id |-> spec.target],
               spec.target \in {updating[n], failed[n], cluster.ng[n]}
        PROVE  spec.target \in {updating'[n], failed'[n], cluster.ng[n]}
    <3>1. CASE n # r
      BY <1>0, <1>1, <2>1, <3>1
    <3>2. CASE n = r
      <4>1. spec.target # None
        BY NamesDiffer, Bounds DEF Typed, SpecType, Versions
      <4> QED BY <1>1, <2>1, <3>2, <4>1
    <3> QED BY <3>1, <3>2
  <2> QED BY <1>1, <2>1 DEF Underway, NgPart
<1>5. AddonPart(s)'
  <2>1. s.addons = "InProgress" => \/ updating'["addons"] # None \/ failed'["addons"] # None
                                   \/ cluster.addons = spec.target
    BY <1>0, <1>1 DEF Underway, AddonPart
  <2> QED BY <1>1, <2>1 DEF Underway, AddonPart
<1> QED BY <1>2, <1>3, <1>4, <1>5 DEF Underway

\* The step either saves what it asked for, or is lost.
LEMMA StartKept ==
    ASSUME InRun, ~Unknown', NEW r \in Resources, NEW v \in Versions, StartUpdate(r, v), Nodes',
           r = "cp" => Old.cpId \in {None, v} /\ status.cpId \in {None, v},
           r \in DOMAIN Old.ng => Old.ng[r].id \in {None, v},
           r \in DOMAIN status.ng => status.ng[r].id \in {None, v},
           SaveFails
    PROVE  Core'
<1> USE InRunIs
<1>1. Steady /\ status' = status /\ moved' = moved
  BY DEF SaveFails, StartUpdate, Steady
<1>2. PICK o, t : o = Old /\ t = status
  OBVIOUS
<1>3. o \in StatusType /\ t \in StatusType
  BY <1>2, OldIs DEF Typed
<1>4. Underway(o)'
  BY <1>1, <1>2, <1>3, StartUnderway DEF Steady
<1>5. Running(status) => Underway(t)'
  BY <1>1, <1>2, <1>3, StartUnderway DEF Steady
<1>6. Old' = o /\ status' = t
  BY <1>1, <1>2 DEF Steady, Old
<1> QED BY <1>1, <1>4, <1>5, <1>6, Stay

\* The control plane is asked for: every node is where the next version allows it.
LEMMA InitiateControlPlaneKept ==
    ASSUME InRun, InitiateControlPlane, ~Unknown'
    PROVE  Core'
<1> USE InRunIs
<1>1. PICK v : /\ v = Old.path[Old.step] /\ cluster.cp # v /\ StartUpdate("cp", v)
               /\ Save([Old EXCEPT !.cpId = v]) \/ SaveFails
  BY DEF InitiateControlPlane
<1>2. /\ Old.phase \in ControlPlanePhases /\ Old.cpId = None /\ Old.step \in 1..Len(Old.path)
      /\ v \in Versions /\ v # None /\ "cp" \in Resources /\ Old.step # None
  <2>1. Old.phase \in ControlPlanePhases /\ Old.cpId = None /\ Old.step \in 1..Len(Old.path)
    BY DEF InitiateControlPlane, Reconciles, Old
  <2>2. v \in Versions /\ "cp" \in Resources
    BY <1>1, <2>1, OldIs, PathIs DEF Resources
  <2>3. v # None
    BY <2>2, NamesDiffer, Bounds DEF Versions
  <2> QED BY <2>1, <2>2, <2>3
<1>3. \A n \in NodeGroups : updating[n] = None
  BY <1>2, NoOtherUpdates DEF ControlPlanePhases, NodeGroupPhases
<1>4. /\ updating'["cp"] = v /\ \A n \in NodeGroups : updating'[n] = updating[n]
      /\ cluster' = cluster /\ omitted' = omitted /\ "cp" \notin NodeGroups
  BY <1>1, <1>2, NamesDiffer DEF StartUpdate, Typed, Resources
<1>5. \A n \in NodeGroups \ omitted : cluster.ng[n] <= v
  <2>1. /\ PathPart(Old) /\ CpPart(Old) /\ NgPart(Old)
        /\ (Old.phase \in ForwardPhases <=> spec.mode = "Forward")
    BY DEF Underway
  <2>2. v \in Nat /\ cluster.cp \in Nat /\ spec.target \in Nat /\ \A n \in NodeGroups : cluster.ng[n] \in Nat
    BY <1>2, Bounds DEF Versions, Typed, ClusterType
  <2>3. CASE spec.mode = "Forward"
    <3>1. cluster.cp = v - 1
      <4>1. Old.step # 0 /\ Old.step # Len(Old.path) + 1
        BY <1>2, OldIs, PathIs
      <4> QED BY <1>1, <2>1, <2>3, <4>1 DEF CpPart, Before
    <3>2. \A n \in NodeGroups \ omitted : cluster.ng[n] <= cluster.cp
      BY DEF Core, Nodes
    <3> QED BY <2>2, <3>1, <3>2
  <2>4. CASE spec.mode = "Rollback"
    <3>1. Old.phase = "RollingBackControlPlane"
      BY <1>2, <2>1, <2>4 DEF ControlPlanePhases, ForwardPhases
    <3>2. \A n \in NodeGroups \ omitted : cluster.ng[n] = spec.target
      BY <2>1, <3>1 DEF NgPart, Waiting
    <3>3. v = spec.target
      <4>1. Old.step = 1 /\ Len(Old.path) = 1
        <5>1. Len(Old.path) <= 1 /\ Len(Old.path) \in Nat
          BY <2>1, <2>4, OldIs, PathIs, Bounds DEF PathPart
        <5>2. \A l \in Nat : \A k \in 1..l : l <= 1 => k = 1 /\ l = 1
          OBVIOUS
        <5> QED BY ONLY <1>2, <5>1, <5>2
      <4>2. v + 1 = spec.target + 1
        BY <1>1, <2>1, <4>1 DEF PathPart
      <4> QED BY <2>2, <4>2
    <3> QED BY <2>2, <3>2, <3>3
  <2> QED BY <2>3, <2>4 DEF Modes
<1>6. Nodes'
  BY <1>1, <1>3, <1>4, <1>5 DEF Core, Nodes
<1>7. CASE SaveFails
  <2>1. status' = status
    BY <1>7 DEF SaveFails
  <2>2. status.cpId = v
    BY <1>2, <1>4, <2>1 DEF Unknown
  <2>3. "cp" \notin DOMAIN Old.ng /\ "cp" \notin DOMAIN status.ng
    BY <1>4, OldIs, GroupsAre, StatusIs DEF Typed
  <2> QED BY <1>1, <1>2, <1>6, <1>7, <2>2, <2>3, StartKept
<1>8. CASE Save([Old EXCEPT !.cpId = v])
  <2>1. PICK x : x = [Old EXCEPT !.cpId = v]
    OBVIOUS
  <2>2. v \in VersionOrNone
    BY <1>2 DEF VersionOrNone
  <2>3. /\ x \in StatusType /\ x.phase = Old.phase /\ x.path = Old.path /\ x.step = Old.step /\ x.cpId = v
        /\ x.planned = Old.planned /\ x.addons = Old.addons /\ x.ng = Old.ng
        /\ x.karp = Old.karp /\ x.last = Old.last
    BY <2>1, <2>2, OldIs, StatusIs
  <2>4. Writable(x)
    BY <1>1, <1>2, <2>3, OldIs DEF Writable, Recorded
  <2>5. /\ x.phase \notin Calm /\ x.phase # "Completed" /\ x.step # None
        /\ \A n \in DOMAIN x.ng : x.ng[n].id # None =>
               Old.phase \in NodeGroupPhases /\ x.ng[n].id = spec.target
    BY <2>3, InRunPhase, OwnUpdates DEF InRun, Terminal
  <2>6. KeepsPlan(x)
    BY <1>2, <2>3, <2>4, <2>5 DEF KeepsPlan
  <2>7. Steady /\ status' = MergePatch(Noted(x))
    BY <1>4, <1>8, <2>1, SaveMoves DEF Steady, Save
  <2>8. PICK o : o = Old
    OBVIOUS
  <2>9. "cp" \notin DOMAIN o.ng
    BY <1>4, <2>8, OldIs, GroupsAre
  <2>10. Underway(o)'
    BY <1>1, <1>2, <2>7, <2>8, <2>9, OldIs, StartUnderway DEF Steady
  <2>11. Old' = o
    BY <2>7, <2>8 DEF Steady, Old
  <2>12. Underway(x)'
    <3>1. PathPart(x)' /\ KarpPart(x)'
      BY <2>3, <2>8, <2>10 DEF Underway, PathPart, KarpPart
    <3>2. CpPart(x)'
      BY <1>2, <1>4, <2>3, <2>8, <2>10 DEF Underway, CpPart, Before
    <3>3. NgPart(x)' /\ AddonPart(x)'
      BY <2>3, <2>8, <2>10 DEF Underway, NgPart, AddonPart
    <3> QED BY <2>3, <2>8, <2>10, <3>1, <3>2, <3>3 DEF Underway
  <2> QED BY <1>6, <2>5, <2>6, <2>7, <2>10, <2>11, <2>12, Advance
<1> QED BY <1>1, <1>7, <1>8
\* The add-ons are asked for.
LEMMA StartAddonsKept ==
    ASSUME InRun, Addons, Old.addons = "Pending", ~Unknown'
    PROVE  Core'
<1> USE InRunIs
<1>1. /\ StartUpdate("addons", spec.target) /\ Old.phase \in AddonPhases
      /\ Save([Old EXCEPT !.addons = "InProgress"]) \/ SaveFails
  BY NamesDiffer DEF Addons, Reconciles, Old, ComponentStatus
<1>2. "addons" \in Resources /\ "addons" \notin NodeGroups /\ "cp" \in Resources /\ NodeGroups \subseteq Resources
  BY NamesDiffer DEF Resources
<1>3. /\ updating'["addons"] = spec.target /\ updating'["cp"] = updating["cp"]
      /\ \A n \in NodeGroups : updating'[n] = updating[n]
      /\ cluster' = cluster /\ omitted' = omitted
  BY <1>1, <1>2 DEF StartUpdate, Typed
<1>4. Nodes'
  BY <1>3 DEF Core, Nodes
<1>5. "addons" \notin DOMAIN Old.ng /\ "addons" \notin DOMAIN status.ng
  BY <1>2, OldIs, GroupsAre, StatusIs DEF Typed
<1>6. CASE SaveFails
  BY <1>1, <1>2, <1>4, <1>5, <1>6, StartKept
<1>7. CASE Save([Old EXCEPT !.addons = "InProgress"])
  <2>1. PICK x : x = [Old EXCEPT !.addons = "InProgress"]
    OBVIOUS
  <2>2. "InProgress" \in States /\ "InProgress" # None /\ Old.addons # None
    BY NamesDiffer DEF States, ComponentStatus
  <2>3. /\ x \in StatusType /\ x.phase = Old.phase /\ x.path = Old.path /\ x.step = Old.step
        /\ x.cpId = Old.cpId
        /\ x.planned = Old.planned /\ x.addons = "InProgress" /\ x.ng = Old.ng
        /\ x.karp = Old.karp /\ x.last = Old.last
    BY <2>1, <2>2, OldIs, StatusIs
  <2>4. Writable(x)
    BY <2>3, OldIs DEF Writable, Recorded
  <2>5. x.phase \notin Calm /\ x.phase # "Completed"
    BY <2>3 DEF InRun, Terminal
  <2>6. KeepsPlan(x)
    BY <2>2, <2>3, <2>4, <2>5, PlanKept
  <2>7. Steady /\ status' = MergePatch(Noted(x))
    BY <1>3, <1>7, <2>1, SaveMoves DEF Steady, Save
  <2>8. PICK o : o = Old
    OBVIOUS
  <2>9. Underway(o)'
    BY <1>1, <1>2, <1>5, <2>7, <2>8, OldIs, StartUnderway DEF Steady
  <2>10. Old' = o
    BY <2>7, <2>8 DEF Steady, Old
  <2>11. Underway(x)'
    <3>1. PathPart(x)' /\ KarpPart(x)' /\ CpPart(x)'
      BY <2>3, <2>8, <2>9 DEF Underway, PathPart, KarpPart, CpPart, Before
    <3>2. NgPart(x)'
      BY <2>3, <2>8, <2>9 DEF Underway, NgPart
    <3>3. AddonPart(x)'
      BY <1>1, <1>3, <2>2, <2>3 DEF AddonPart, AddonPhases
    <3> QED BY <2>3, <2>8, <2>9, <3>1, <3>2, <3>3 DEF Underway
  <2> QED BY <1>4, <2>5, <2>6, <2>7, <2>9, <2>10, <2>11, Advance
<1> QED BY <1>1, <1>6, <1>7

\* A node group is asked for: the control plane stands still and is not behind.
LEMMA InitiateNodeGroupKept ==
    ASSUME InRun, InitiateNodeGroup, ~Unknown'
    PROVE  Core'
<1> USE InRunIs
<1>1. PICK n : /\ n = ActiveNodeGroup(Old) /\ n # None /\ Old.ng[n].st = "Pending"
               /\ StartUpdate(n, spec.target)
               /\ \/ Save([Old EXCEPT !.ng[n] = [st |-> "InProgress", id |-> spec.target]])
                  \/ SaveFails
  BY DEF InitiateNodeGroup
<1>2. /\ Old.phase \in NodeGroupPhases /\ n \in DOMAIN Old.ng /\ n \in NodeGroups /\ n \in Resources
      /\ n # "cp" /\ "cp" \in Resources /\ NodeGroups \subseteq Resources
  BY <1>1, ActiveIs, NamesDiffer DEF InitiateNodeGroup, Reconciles, Old, Resources
<1>3. /\ updating'[n] = spec.target /\ updating'["cp"] = updating["cp"]
      /\ \A m \in NodeGroups : m # n => updating'[m] = updating[m]
      /\ \A m \in NodeGroups : m # n => failed'[m] = failed[m]
      /\ cluster' = cluster /\ omitted' = omitted
  BY <1>1, <1>2 DEF StartUpdate, Typed
<1>4. updating["cp"] = None
  BY <1>2, NoOtherUpdates DEF NodeGroupPhases, ControlPlanePhases
<1>5. spec.target <= cluster.cp
  <2>1. spec.target \in Nat /\ cluster.cp \in Nat
    BY Bounds DEF Versions, Typed, ClusterType
  <2>2. CASE spec.mode = "Forward"
    BY <1>2, <2>1, <2>2, GroupPhaseIs
  <2>3. CASE spec.mode = "Rollback"
    <3>1. PathPart(Old) /\ CpPart(Old)
      BY DEF Underway
    <3>2. CASE Old.step \in 1..Len(Old.path) /\ cluster.cp \in {Before(Old.path[Old.step]), Old.path[Old.step]}
      <4>1. Old.step = 1 /\ Len(Old.path) = 1
        <5>1. Len(Old.path) <= 1 /\ Len(Old.path) \in Nat
          BY <2>3, <3>1, OldIs, PathIs, Bounds DEF PathPart
        <5>2. \A l \in Nat : \A k \in 1..l : l <= 1 => k = 1 /\ l = 1
          OBVIOUS
        <5> QED BY ONLY <3>2, <5>1, <5>2
      <4>2. Old.path[1] \in Nat /\ Old.path[1] + 1 = spec.target + 1
        BY <3>1, <4>1, OldIs, PathIs, Bounds DEF PathPart, Versions
      <4>3. Old.path[1] = spec.target
        BY <2>1, <4>2
      <4>4. cluster.cp \in {spec.target + 1, spec.target}
        BY <2>3, <3>2, <4>1, <4>3 DEF Before
      <4> QED BY <2>1, <4>4
    <3> QED BY <2>1, <3>1, <3>2 DEF CpPart
  <2> QED BY <2>2, <2>3 DEF Modes
<1>6. Nodes'
  BY <1>2, <1>3, <1>4, <1>5 DEF Core, Nodes
<1>7. CASE SaveFails
  <2>1. status' = status
    BY <1>7 DEF SaveFails
  <2>2. status.ng[n].id = spec.target
    BY <1>2, <1>3, <2>1 DEF Unknown
  <2>3. Old.ng[n].id = None
    BY <1>1, <1>2 DEF Underway, NgPart, Waiting
  <2> QED BY <1>1, <1>2, <1>6, <1>7, <2>2, <2>3, StartKept
<1>8. CASE Save([Old EXCEPT !.ng[n] = [st |-> "InProgress", id |-> spec.target]])
  <2>1. PICK e : e = [st |-> "InProgress", id |-> spec.target]
    OBVIOUS
  <2>2. e \in GroupState /\ e.id = spec.target /\ e.st = "InProgress"
    BY <2>1 DEF GroupState, ComponentStatus, VersionOrNone
  <2>3. PICK x : x = WithGroup(n, e, Old.phase)
    OBVIOUS
  <2>4. x = [Old EXCEPT !.ng[n] = e]
    BY <2>3, OldIs, StatusIs DEF WithGroup
  <2>5. /\ KeepsPlan(x) /\ x.phase = Old.phase
        /\ x.path = Old.path /\ x.step = Old.step /\ x.cpId = Old.cpId
        /\ x.planned = Old.planned /\ x.addons = Old.addons /\ x.karp = Old.karp
        /\ DOMAIN x.ng = DOMAIN Old.ng /\ x.ng[n] = e
        /\ \A m \in DOMAIN Old.ng : m # n => x.ng[m] = Old.ng[m]
    BY <1>2, <2>2, <2>3, GroupKept
  <2>6. Steady /\ status' = MergePatch(Noted(x))
    BY <1>3, <1>8, <2>1, <2>4, SaveMoves DEF Steady, Save
  <2>7. PICK o : o = Old
    OBVIOUS
  <2>8. Underway(o)'
    <3>1. Old.ng[n].id = None
      BY <1>1, <1>2 DEF Underway, NgPart, Waiting
    <3> QED BY <1>1, <1>2, <2>6, <2>7, <3>1, OldIs, StartUnderway DEF Steady
  <2>9. Old' = o
    BY <2>6, <2>7 DEF Steady, Old
  <2>10. Underway(x)'
    <3>1. PathPart(x)' /\ KarpPart(x)' /\ CpPart(x)'
      BY <2>5, <2>7, <2>8 DEF Underway, PathPart, KarpPart, CpPart, Before
    <3>2. AddonPart(x)'
      BY <2>5, <2>7, <2>8 DEF Underway, AddonPart
    <3>3. NgPart(x)'
      <4>1. x.phase \in {"UpgradingNodeGroups", "RollingBackNodeGroups"}
        BY <1>2, <2>5 DEF NodeGroupPhases
      <4> QED BY <1>3, <2>1, <2>5, <2>6, <2>7, <2>8, <4>1 DEF Underway, NgPart, Steady
    <3> QED BY <2>5, <2>7, <2>8, <3>1, <3>2, <3>3 DEF Underway
  <2>11. x.phase # "Completed"
    BY <2>5 DEF InRun, Terminal
  <2> QED BY <1>6, <2>5, <2>6, <2>8, <2>9, <2>10, <2>11, Advance
<1> QED BY <1>1, <1>7, <1>8

\* Every reconcile of a run.
LEMMA RunKept ==
    ASSUME InRun, ~Unknown',
           \/ PollControlPlane \/ ControlPlaneTimeout \/ InitiateControlPlane \/ Addons
           \/ NodeGroupsDone \/ InitiateNodeGroup \/ PollNodeGroup \/ NodeGroupTimeout
           \/ KarpenterDone \/ StartNextBatch \/ AdvanceBatch
           \/ UpdateRefused \/ TransientError \/ SaveError("Failed")
    PROVE  Core'
<1>1. CASE InitiateControlPlane
  BY <1>1, InitiateControlPlaneKept
<1>2. CASE InitiateNodeGroup
  BY <1>2, InitiateNodeGroupKept
<1>3. CASE Addons /\ Old.addons = "Pending"
  BY <1>3, StartAddonsKept
<1>4. CASE Addons /\ Old.addons # "Pending"
  <2>1. Quiet
    BY <1>4 DEF Addons
  <2> QED BY <1>4, <2>1, RunSaves, SavesKept
<1> QED BY <1>1, <1>2, <1>3, <1>4, RunSaves, SavesKept
-----------------------------------------------------------------------------
\* The cached resource has no plan yet, or one that no update has begun.
BeforeRun == Typed /\ Core /\ Old.phase \in Calm

\* What the invariant says of such a resource.
LEMMA BeforeRunIs ==
    ASSUME BeforeRun
    PROVE  /\ Typed /\ Core /\ Running(Old) /\ (Blank(Old) \/ Exact(Old)) /\ LastPart(Old) /\ Guarded(Old)
           /\ Mode = spec.mode /\ seen.spec.target = spec.target /\ seen.spec.karp = spec.karp
           /\ seen.spec.dry = spec.dry /\ Sound(Old)
           /\ spec.target \in Versions /\ spec.target # None /\ spec.mode \in Modes
           /\ Follows(Old, status) /\ (Blank(status) \/ Exact(status))
           /\ \A r \in Resources : updating[r] = None
           /\ SameWish(seen.spec, spec)
<1>1. Typed /\ Core /\ Running(Old)
  BY DEF BeforeRun, Running, Calm, Terminal
<1>2. SameWish(seen.spec, spec) /\ Sound(Old) /\ Follows(Old, status) /\ Guarded(Old)
  BY <1>1 DEF Core, Old
<1>3. (Blank(Old) \/ Exact(Old)) /\ LastPart(Old) /\ (Blank(status) \/ Exact(status))
  BY <1>2 DEF BeforeRun, Sound, Follows, Calm
<1>4. spec.target \in Versions /\ spec.target # None /\ spec.mode \in Modes
  BY <1>1, NamesDiffer, Bounds DEF Typed, SpecType, Versions, Modes
<1>5. \A r \in Resources : updating[r] = None
  BY <1>1 DEF BeforeRun, Core, Old
<1> QED BY <1>1, <1>2, <1>3, <1>4, <1>5 DEF SameWish, Mode

\* A plan that is exact but for K stays so when it is merged into what was stored.
LEMMA CalmMerge ==
    ASSUME BeforeRun, NEW K, omitted \subseteq K, NEW x, Writable(x), Blank(x) \/ ExactBut(x, K),
           NEW m, m = MergePatch(Noted(x))
    PROVE  /\ m.phase = x.phase
           /\ m.last = IF x.phase = "Completed" THEN Mode ELSE IF x.last = None THEN status.last ELSE x.last
           /\ m.karp = IF x.karp = None THEN status.karp ELSE x.karp
           /\ ExactBut(x, K) => ExactBut(m, K)
           /\ Blank(x) => (Blank(status) => Blank(m)) /\ (Exact(status) => ExactBut(m, K))
           /\ Old.phase = "PreflightChecking" /\ SamePlan(Old, x) => Mirrors(x, m)
<1> USE BeforeRunIs
<1>1. x \in StatusType /\ Recorded(x) /\ status \in StatusType
  BY DEF Writable, Typed
<1>2. PICK y : y = Noted(x)
  OBVIOUS
<1>3. /\ y \in StatusType
      /\ y.phase = x.phase /\ y.path = x.path /\ y.step = x.step
      /\ y.cpId = x.cpId /\ y.planned = x.planned
      /\ y.addons = x.addons /\ y.ng = x.ng /\ y.karp = x.karp
      /\ y.last = IF x.phase = "Completed" THEN Mode ELSE x.last
  BY <1>1, <1>2, NotedFields DEF Mode
<1>4. /\ m.phase = x.phase
      /\ m.path = IF x.path = <<>> THEN status.path ELSE x.path
      /\ m.step = IF x.step = None THEN status.step ELSE x.step
      /\ m.cpId = IF x.step = None THEN status.cpId ELSE x.cpId
      /\ m.planned = IF x.planned = None THEN status.planned ELSE x.planned
      /\ m.addons = IF x.addons = None THEN status.addons ELSE x.addons
      /\ m.ng = IF DOMAIN x.ng = {} THEN status.ng ELSE x.ng
      /\ m.karp = IF x.karp = None THEN status.karp ELSE x.karp
      /\ m.last = IF y.last = None THEN status.last ELSE y.last
  BY <1>2, <1>3, MergeFields
<1>5. m.last = IF x.phase = "Completed" THEN Mode ELSE IF x.last = None THEN status.last ELSE x.last
  BY <1>3, <1>4, NamesDiffer DEF Modes
<1>6. ASSUME Blank(x) PROVE (Blank(status) => Blank(m)) /\ (Exact(status) => ExactBut(m, K))
  <2>1. /\ m.path = status.path /\ m.step = status.step /\ m.cpId = status.cpId
        /\ m.planned = status.planned /\ m.addons = status.addons /\ m.ng = status.ng
    BY <1>4, <1>6 DEF Blank
  <2> QED BY <2>1 DEF Blank, Exact, ExactBut
<1>7. ASSUME ExactBut(x, K) PROVE ExactBut(m, K)
  <2>1. x.step # None /\ x.planned # None
    BY <1>7, NamesDiffer, Bounds DEF ExactBut
  <2>2. m.step = x.step /\ m.cpId = x.cpId /\ m.planned = x.planned
    BY <1>4, <2>1
  <2>3. m.path = x.path
    BY <1>4, <1>7 DEF Blank, Exact, ExactBut
  <2>4. status.addons \in {None, "Pending"} /\ \A n \in DOMAIN status.ng : status.ng[n] = Waiting
    BY DEF Blank, Exact, ExactBut
  <2>5. /\ m.addons \in {None, "Pending"} /\ (m.addons = None => x.addons = None)
        /\ \A n \in DOMAIN m.ng : m.ng[n] = Waiting
        /\ DOMAIN x.ng \subseteq DOMAIN m.ng
    BY <1>4, <1>7, <2>4 DEF ExactBut
  <2> QED BY <1>7, <2>2, <2>3, <2>5 DEF ExactBut
<1>8. ASSUME Old.phase = "PreflightChecking", SamePlan(Old, x) PROVE Mirrors(x, m)
  <2>1. SamePlan(Old, status)
    BY <1>8 DEF Follows
  <2> QED BY <1>4, <1>8, <2>1 DEF SamePlan, Mirrors
<1> QED BY <1>4, <1>5, <1>6, <1>7, <1>8

\* What a reconcile before the run may save, when K is left out.
Proposes(x, K) ==
    /\ Writable(x) /\ (Blank(x) \/ ExactBut(x, K)) /\ x.last = Old.last
    /\ Old.phase = "Pending" => Blank(x)
    /\ Old.phase = "PreflightChecking" => SamePlan(Old, x)
    /\ spec.mode = "Rollback" /\ Old.last = "Rollback" /\ Old.step = None => Blank(x)
    /\ x.phase = "Pending" => Old.phase = "Pending"
    /\ x.phase = "PreflightChecking" => ExactBut(x, K) /\ (spec.karp => x.karp = "Pending")
    /\ x.phase \notin Calm \cup Terminal => Underway(x) /\ Old.phase = "PreflightChecking"
    /\ x.phase = "Completed" => spec.dry \/ (Arrived(x, K) /\ ExactBut(x, K))

\* Such a save keeps the invariant.
LEMMA CalmKept ==
    ASSUME BeforeRun, ~Unknown', Still, Steady, NEW K, K = omitted', NEW x, Proposes(x, K), status' = MergePatch(Noted(x)),
           x.phase = "Completed" /\ Mode = "Forward" => moved'.since
    PROVE  Core'
<1> USE BeforeRunIs
<1>0. cluster'.cp = cluster.cp /\ spec' = spec
  BY DEF Still
<1>1. PICK m, o : m = status' /\ o = Old
  OBVIOUS
<1>2. /\ m.phase = x.phase
      /\ m.last = IF x.phase = "Completed" THEN Mode ELSE IF x.last = None THEN status.last ELSE x.last
      /\ m.karp = IF x.karp = None THEN status.karp ELSE x.karp
      /\ ExactBut(x, K) => ExactBut(m, K)
      /\ Blank(x) => (Blank(status) => Blank(m)) /\ (Exact(status) => ExactBut(m, K))
      /\ Old.phase = "PreflightChecking" => Mirrors(x, m)
  <2>1. omitted \subseteq K
    BY DEF Still
  <2> QED BY <1>1, <2>1, CalmMerge DEF Proposes
<1>3. Blank(m) \/ ExactBut(m, K)
  BY <1>2 DEF Proposes
<1>4. /\ Old.phase = "Pending" => Blank(m)
      /\ spec.mode = "Rollback" /\ Old.last = "Rollback" /\ Old.step = None => Blank(m)
  BY <1>2 DEF Proposes, Follows
<1>5. Blank(m) => m.step = None /\ m.path = <<>>
  BY DEF Blank
<1>6. ExactBut(m, K) => m.step # None /\ m.cpId = None /\ \A n \in DOMAIN m.ng : m.ng[n].id = None
  BY NamesDiffer, Bounds DEF ExactBut, Waiting
<1>7. /\ (Blank(m) => Blank(m)') /\ (ExactBut(m, K) => Exact(m)')
      /\ (Blank(o) => Blank(o)') /\ (Exact(o) => Exact(o)')
  BY StillExact, NowExact DEF Blank
<1>8. m.phase # "Completed" /\ spec.mode = "Rollback" /\ m.last = "Rollback" /\ m.step # None =>
         spec.dry \/ cluster.cp = spec.target
  BY <1>2, <1>4, <1>5 DEF Follows, LastPart, Proposes
<1>9. m.phase \notin Terminal => Sound(m)'
  <2> SUFFICES ASSUME m.phase \notin Terminal PROVE Sound(m)'
    OBVIOUS
  <2>1. LastPart(m)'
    BY <1>0, <1>8 DEF LastPart, Terminal
  <2>2. m.phase = "Pending" => Blank(m)'
    BY <1>2, <1>4, <1>7 DEF Proposes
  <2>3. m.phase = "Planning" => Blank(m)' \/ Exact(m)'
    BY <1>3, <1>7
  <2>4. m.phase = "PreflightChecking" => Exact(m)' /\ (spec.karp => m.karp = "Pending")
    <3>1. m.phase = "PreflightChecking" => ExactBut(x, K) /\ (spec.karp => x.karp = "Pending")
      BY <1>2 DEF Proposes
    <3>2. ExactBut(x, K) => Exact(m)' /\ (x.karp = "Pending" => m.karp = "Pending")
      BY <1>2, <1>7, NamesDiffer DEF ComponentStatus
    <3> QED BY <3>1, <3>2
  <2>5. m.phase \notin Calm => Underway(m)'
    <3> SUFFICES ASSUME m.phase \notin Calm PROVE Underway(m)'
      OBVIOUS
    <3>1. Underway(x) /\ Old.phase = "PreflightChecking"
      BY <1>2 DEF Proposes
    <3>2. Mirrors(x, m)
      BY <1>2, <3>1
    <3>3. Underway(x)'
      BY <3>1, StillUnderway
    <3> QED BY <3>2, <3>3, UnderwayMirror
  <2> QED BY <1>0, <2>1, <2>2, <2>3, <2>4, <2>5 DEF Sound
<1>10. LastPart(o)' /\ Sound(o)'
  <2>1. LastPart(o)'
    BY <1>0, <1>1 DEF LastPart
  <2>2. o.phase \in Calm
    BY <1>1 DEF BeforeRun
  <2> QED BY <1>0, <1>1, <1>7, <2>1, <2>2 DEF Sound, Calm
<1>11. ~AtTarget(Old)
  <2> SUFFICES ASSUME AtTarget(Old) PROVE FALSE
    OBVIOUS
  <2>1. ~Blank(Old)
    BY NamesDiffer, Bounds DEF Blank, AtTarget
  <2>2. Old.path = <<>>
    BY <2>1 DEF Exact, ExactBut, AtTarget, UpgradePath
  <2> QED BY <2>2 DEF AtTarget
<1>12. moved.dir = "down" /\ ~moved.since => Old.last = "Rollback"
  BY <1>11 DEF Guarded
<1>13. Guarded(o)' /\ Guarded(m)'
  <2>1. moved'.dir = "down" /\ ~moved'.since => Old.last = "Rollback"
    BY <1>12 DEF Steady
  <2>2. moved'.dir = "down" /\ ~moved'.since => m.last = "Rollback"
    BY <1>2, <2>1, NamesDiffer DEF Proposes, Modes
  <2> QED BY <1>1, <2>1, <2>2 DEF Guarded
<1>14. Follows(o, m)'
  <2>1. m.cpId = None /\ \A n \in DOMAIN m.ng : m.ng[n].id = None
    BY <1>3, <1>6 DEF Blank
  <2>2. o.phase \in Calm
    BY <1>1 DEF BeforeRun
  <2>3. spec.mode = "Rollback" /\ m.last = "Rollback" =>
          o.last = "Rollback" \/ spec.dry \/ cluster.cp = spec.target
    <3>1. CASE m.phase = "Completed"
      BY <1>2, <3>1 DEF Proposes, Arrived
    <3>2. CASE m.phase # "Completed"
      BY <1>1, <1>2, <3>2 DEF Proposes, Follows
    <3> QED BY <3>1, <3>2
  <2>4. o.phase = "PreflightChecking" => SamePlan(o, m)'
    BY <1>1, <1>2 DEF Proposes, SamePlan, Mirrors
  <2> QED BY <1>0, <1>1, <1>3, <1>4, <1>7, <2>1, <2>2, <2>3, <2>4 DEF Follows
<1>15. Old' = o /\ seen'.status = o /\ SameWish(seen.spec, spec)'
  BY <1>1 DEF Steady, Old, SameWish
<1>16. Nodes' /\ \A r \in Resources : updating'[r] = None
  BY StillNodes DEF Core, Still
<1>17. o.phase \notin Terminal
  BY <1>1 DEF Running
<1> QED BY <1>1, <1>9, <1>10, <1>13, <1>14, <1>15, <1>16, <1>17 DEF Core, Running
-----------------------------------------------------------------------------
\* The forward path ends at the target and the rollback path is one step.
LEMMA PathArith ==
    ASSUME NEW mode \in Modes, NEW from \in Versions, NEW to \in Versions, PlanPossible(mode, from, to),
           NEW path, path = UpgradePath(mode, from, to)
    PROVE  /\ path = <<>> <=> to = from
           /\ \A i \in 1..Len(path) : path[i] + Len(path) = to + i
           /\ mode = "Rollback" => Len(path) <= 1
           /\ path # <<>> => 1 \in 1..Len(path) /\ from = IF mode = "Forward" THEN path[1] - 1 ELSE path[1] + 1
<1>0. from \in Nat /\ to \in Nat
  BY Bounds DEF Versions
<1>1. CASE mode = "Forward"
  <2>1. to >= from
    BY <1>1 DEF PlanPossible
  <2>2. PICK k : k = to - from
    OBVIOUS
  <2>3. k \in Nat /\ from + k = to /\ (k = 0 <=> to = from)
    BY <1>0, <2>1, <2>2
  <2>4. path = [i \in 1..k |-> from + i]
    BY <1>1, <2>2 DEF UpgradePath
  <2>5. Len(path) = k /\ path \in Seq(Nat) /\ \A i \in 1..k : path[i] = from + i
    BY <1>0, <2>3, <2>4
  <2>6. path = <<>> <=> k = 0
    BY <2>3, <2>5
  <2>7. \A i \in 1..k : (from + i) + k = to + i
    BY <1>0, <2>3
  <2>8. path # <<>> => 1 \in 1..k /\ from = path[1] - 1
    BY <1>0, <2>3, <2>5, <2>6
  <2> QED BY <1>1, <2>3, <2>5, <2>6, <2>7, <2>8
<1>2. CASE mode = "Rollback" /\ to = from
  BY <1>0, <1>2 DEF UpgradePath
<1>3. CASE mode = "Rollback" /\ to # from
  <2>1. path = <<to>> /\ to + 1 = from
    BY <1>3 DEF UpgradePath, PlanPossible
  <2>2. Len(path) = 1 /\ path[1] = to /\ path # <<>>
    BY <2>1
  <2>3. \A i \in 1..Len(path) : path[i] + Len(path) = to + i
    <3>1. \A i \in 1..Len(path) : i = 1
      BY <2>2
    <3> QED BY <2>2, <3>1
  <2>4. from = path[1] + 1 /\ 1 \in 1..Len(path) /\ Len(path) <= 1
    BY <2>1, <2>2
  <2> QED BY <1>3, <2>2, <2>3, <2>4
<1> QED BY <1>1, <1>2, <1>3 DEF Modes

\* An exact plan is one a run can be started from.
LEMMA ExactReady ==
    ASSUME BeforeRun, NEW x, Exact(x), ~spec.dry, spec.karp => x.karp = "Pending"
    PROVE  Ready(x) /\ GroupsWait(x)
<1> USE BeforeRunIs
<1>1. /\ PlanPossible(spec.mode, cluster.cp, spec.target) /\ cluster.cp \in Versions
      /\ x.path = UpgradePath(spec.mode, cluster.cp, spec.target)
      /\ x.step = (IF x.path = <<>> THEN 0 ELSE 1)
      /\ x.cpId = None /\ x.planned = spec.target
      /\ x.addons \in {None, "Pending"}
      /\ x.addons = None /\ AddonsPlanned(spec.mode, spec.target) => "addons" \in omitted
      /\ \A n \in DOMAIN x.ng : x.ng[n] = Waiting
      /\ \A n \in NodeGroups \ DOMAIN x.ng : cluster.ng[n] = spec.target \/ n \in omitted
  BY DEF Exact, ExactBut, Typed, ClusterType
<1>2. PICK path : path = x.path
  OBVIOUS
<1>3. /\ path = <<>> <=> spec.target = cluster.cp
      /\ \A i \in 1..Len(path) : path[i] + Len(path) = spec.target + i
      /\ spec.mode = "Rollback" => Len(path) <= 1
      /\ path # <<>> => 1 \in 1..Len(path)
                        /\ cluster.cp = IF spec.mode = "Forward" THEN path[1] - 1 ELSE path[1] + 1
  BY <1>1, <1>2, PathArith
<1>4. x.step # None
  BY <1>1, NamesDiffer, Bounds
<1>5. PathPart(x)
  BY <1>1, <1>2, <1>3, <1>4 DEF PathPart
<1>6. \/ x.step = 0 /\ x.path = <<>> /\ cluster.cp = spec.target
      \/ x.step \in 1..Len(x.path) /\ cluster.cp \in {Before(x.path[x.step]), x.path[x.step]}
  BY <1>1, <1>2, <1>3 DEF Before
<1>7. /\ x.addons \in {None, "Pending"}
      /\ x.addons = None /\ spec.mode = "Forward" =>
            cluster.addons = spec.target \/ "addons" \in omitted
  BY <1>1, NamesDiffer DEF AddonsPlanned, ComponentStatus
<1>8. GroupsWait(x)
  BY <1>1 DEF GroupsWait
<1>9. "Pending" # None /\ "Completed" # None /\ "InProgress" # None
  BY NamesDiffer DEF ComponentStatus
<1> QED BY <1>1, <1>5, <1>6, <1>7, <1>8, <1>9 DEF Ready, GroupsWait

\* A status whose phase alone changes.
LEMMA SamePlanProposes ==
    ASSUME BeforeRun, NEW p \in Phases, NEW x, x = [Old EXCEPT !.phase = p]
    PROVE  /\ Writable(x) /\ x.phase = p /\ x.last = Old.last /\ x.karp = Old.karp
           /\ x.path = Old.path /\ x.addons = Old.addons /\ DOMAIN x.ng = DOMAIN Old.ng
           /\ (Blank(Old) => Blank(x)) /\ (Exact(Old) => Exact(x)) /\ (Blank(x) \/ Exact(x))
           /\ Old.phase = "Pending" => Blank(x)
           /\ Old.phase = "PreflightChecking" => SamePlan(Old, x)
           /\ spec.mode = "Rollback" /\ Old.last = "Rollback" /\ Old.step = None => Blank(x)
<1> USE BeforeRunIs
<1>1. /\ Writable(x) /\ x.phase = p /\ x.path = Old.path /\ x.step = Old.step /\ x.cpId = Old.cpId
      /\ x.planned = Old.planned /\ x.addons = Old.addons /\ x.ng = Old.ng
      /\ x.karp = Old.karp /\ x.last = Old.last
  BY PhaseVariant
<1>2. (Blank(Old) => Blank(x)) /\ (Exact(Old) => Exact(x))
  BY <1>1 DEF Blank, Exact, ExactBut
<1>3. Old.phase = "Pending" => Blank(Old)
  BY DEF Sound
<1>4. Old.step = None => Blank(Old)
  BY NamesDiffer, Bounds DEF Exact, ExactBut
<1>5. Old.phase = "PreflightChecking" => SamePlan(Old, x)
  <2>1. Old.phase = "PreflightChecking" => Old.step # None
    BY NamesDiffer, Bounds DEF Sound, Exact, ExactBut
  <2> QED BY <1>1, <2>1 DEF SamePlan
<1> QED BY <1>1, <1>2, <1>3, <1>4, <1>5

\* A failing step before the run keeps the plan.
LEMMA ErrorProposes ==
    ASSUME BeforeRun, NEW p \in {Old.phase, "Failed"}, NEW x, x = [Old EXCEPT !.phase = p]
    PROVE  Proposes(x, omitted) /\ p \in Phases /\ p # "Completed"
<1> USE BeforeRunIs
<1>1. p \in Phases /\ p # "Completed" /\ (p \in Calm \/ p = "Failed")
  BY OldIs, PhasesAre DEF BeforeRun, Calm
<1>2. Old.phase = "PreflightChecking" => Exact(Old) /\ (spec.karp => Old.karp = "Pending")
  BY DEF Sound
<1>3. x.phase = p
  BY <1>1, SamePlanProposes
<1>4. x.phase = "PreflightChecking" => Old.phase = "PreflightChecking"
  BY <1>3
<1>5. x.phase = "Pending" => Old.phase = "Pending"
  BY <1>3
<1>6. x.phase \in Calm \cup Terminal /\ x.phase # "Completed"
  BY <1>1, <1>3 DEF Terminal
<1> QED BY <1>1, <1>2, <1>4, <1>5, <1>6, SamePlanProposes DEF Proposes, Exact

\* The reconcile before the run ends with x saved.
CalmSaves(x) ==
    /\ Steady /\ Still /\ Proposes(x, omitted') /\ status' = MergePatch(Noted(x))
    /\ x.phase = "Completed" /\ Mode = "Forward" => moved'.since

\* What is saved with Save is saved in that sense.
LEMMA CalmSaveSaves ==
    ASSUME BeforeRun, Quiet, NEW x, Save(x), Proposes(x, omitted)
    PROVE  CalmSaves(x)
<1>1. Write(x) /\ omitted' = omitted
  BY DEF Save, Quiet
<1>2. Steady
  BY <1>1, BeforeRunIs, SaveMoves DEF Quiet, Steady
<1>3. Still
  BY <1>2, QuietStill DEF Steady
<1> QED BY <1>1, <1>2, <1>3, BeforeRunIs, SaveMoves DEF CalmSaves

\* ... and so is the status of a failing step.
LEMMA CalmErrorSaves ==
    ASSUME BeforeRun, NEW p \in {Old.phase, "Failed"}, SaveError(p)
    PROVE  \E x : CalmSaves(x)
<1>1. PICK x : x = [Old EXCEPT !.phase = p]
  OBVIOUS
<1>2. Proposes(x, omitted) /\ p \in Phases /\ p # "Completed"
  BY <1>1, ErrorProposes
<1>3. Noted(x) = Erred(p)
  BY <1>1, <1>2, BeforeRunIs, ErrorNoted
<1>4. status' = MergePatch(Noted(x))
  BY <1>3 DEF SaveError, Erred, Old
<1>5. Steady /\ Still /\ x.phase = p /\ omitted' = omitted
  BY <1>1, <1>2, BeforeRunIs, SamePlanProposes DEF SaveError, Steady, Still
<1> QED BY <1>2, <1>4, <1>5 DEF CalmSaves

\* The plan, with L left out, is one that may be saved.
LEMMA PlannedProposes ==
    ASSUME BeforeRun, Old.phase = "Planning", ~IsConsecutiveRollback(Mode, Old.last),
           PlanPossible(Mode, cluster.cp, seen.spec.target),
           NEW K, NEW x, x = Planned(K), NEW L, LeftOut(K) \subseteq L
    PROVE  Proposes(x, L)
<1>0. Typed
  BY BeforeRunIs
<1> USE BeforeRunIs
<1>1. /\ Writable(x) /\ x \in StatusType
      /\ x.path = UpgradePath(Mode, cluster.cp, seen.spec.target)
      /\ x.step = (IF x.path = <<>> THEN 0 ELSE 1) /\ x.step # None
      /\ x.cpId = None /\ x.planned = seen.spec.target
      /\ x.addons = (IF AddonsPlanned(Mode, seen.spec.target) /\ "addons" \notin K
                     THEN "Pending" ELSE None)
      /\ DOMAIN x.ng = StaleNodeGroups(seen.spec.target) \ K
      /\ \A n \in DOMAIN x.ng : x.ng[n] = Waiting
      /\ x.karp = (IF seen.spec.karp THEN "Pending" ELSE Old.karp)
      /\ x.last = Old.last
      /\ x.phase \in {"Completed", "PreflightChecking"}
      /\ x.phase = "Completed" <=>
           /\ x.path = <<>> /\ x.addons = None /\ DOMAIN x.ng = {}
           /\ ~seen.spec.karp
  BY ONLY <1>0, x = Planned(K), PlanPossible(Mode, cluster.cp, seen.spec.target), PlannedVariant
<1>2. ExactBut(x, L)
  <2>1. x.addons \in {None, "Pending"}
    BY <1>1
  <2>2. x.addons = None /\ AddonsPlanned(spec.mode, spec.target) => "addons" \in L
    BY <1>1, NamesDiffer DEF LeftOut, ComponentStatus
  <2>3. \A n \in NodeGroups \ DOMAIN x.ng : cluster.ng[n] = spec.target \/ n \in L
    BY <1>1 DEF LeftOut, StaleNodeGroups
  <2>4. \A n \in DOMAIN x.ng : x.ng[n] = Waiting
    BY <1>1
  <2> QED BY <1>1, <2>1, <2>2, <2>3, <2>4 DEF ExactBut
<1>3. ~(spec.mode = "Rollback" /\ Old.last = "Rollback")
  BY DEF IsConsecutiveRollback
<1>4. x.phase = "Completed" => Arrived(x, L)
  <2> SUFFICES ASSUME x.phase = "Completed" PROVE Arrived(x, L)
    OBVIOUS
  <2>1. x.path = <<>> /\ x.addons = None /\ DOMAIN x.ng = {} /\ ~spec.karp
    BY <1>1
  <2>2. cluster.cp = spec.target
    <3>1. cluster.cp \in Versions
      BY DEF Typed, ClusterType
    <3>2. PlanPossible(spec.mode, cluster.cp, spec.target) /\ x.path = UpgradePath(spec.mode, cluster.cp, spec.target)
      BY <1>2 DEF ExactBut
    <3> QED BY <2>1, <3>1, <3>2, PathArith
  <2>3. \A n \in NodeGroups : cluster.ng[n] = spec.target \/ n \in L
    BY <1>2, <2>1 DEF ExactBut
  <2>4. spec.mode = "Forward" => cluster.addons = spec.target \/ "addons" \in L
    BY <1>2, <2>1 DEF ExactBut, AddonsPlanned
  <2> QED BY <2>1, <2>2, <2>3, <2>4 DEF Arrived
<1> QED BY <1>1, <1>2, <1>3, <1>4 DEF Proposes, Calm, Terminal

\* Making the plan, or refusing to.
LEMMA PlanSaves ==
    ASSUME BeforeRun, Plan
    PROVE  \E x : CalmSaves(x)
<1> USE BeforeRunIs
<1>1. Old.phase = "Planning"
  BY DEF Plan, Reconciles, Old
<1>2. CASE IsConsecutiveRollback(Mode, Old.last)
  <2>1. PICK x : x = [Old EXCEPT !.phase = "Failed"]
    OBVIOUS
  <2>2. Save(x) /\ Quiet
    BY <1>2, <2>1 DEF Plan
  <2>3. Proposes(x, omitted)
    BY <2>1, ErrorProposes
  <2> QED BY <2>2, <2>3, CalmSaveSaves
<1>3. CASE ~IsConsecutiveRollback(Mode, Old.last) /\ ~PlanPossible(Mode, cluster.cp, seen.spec.target)
  <2>1. SaveError("Failed")
    BY <1>3 DEF Plan
  <2> QED BY <2>1, CalmErrorSaves
<1>4. CASE ~IsConsecutiveRollback(Mode, Old.last) /\ PlanPossible(Mode, cluster.cp, seen.spec.target)
  <2>1. PICK x : x = Planned({})
    OBVIOUS
  <2>2. Save(x) /\ Quiet
    BY <1>4, <2>1 DEF Plan
  <2>3. LeftOut({}) \subseteq omitted
    BY DEF LeftOut
  <2>4. Proposes(x, omitted)
    BY <1>1, <1>4, <2>1, <2>3, PlannedProposes
  <2> QED BY <2>2, <2>4, CalmSaveSaves
<1> QED BY <1>2, <1>3, <1>4

\* Making it from lists that some components are missing from.
LEMMA IncompletePlanSaves ==
    ASSUME BeforeRun, IncompletePlan
    PROVE  \E x : CalmSaves(x)
<1> USE BeforeRunIs
<1>1. /\ Old.phase = "Planning" /\ ~IsConsecutiveRollback(Mode, Old.last)
      /\ PlanPossible(Mode, cluster.cp, seen.spec.target)
      /\ UNCHANGED <<cluster, updating, failed>>
  BY DEF IncompletePlan, Reconciles, Old
<1>2. PICK K : Write(Planned(K)) /\ omitted' = omitted \cup LeftOut(K)
  BY DEF IncompletePlan
<1>3. PICK x, L : x = Planned(K) /\ L = omitted'
  OBVIOUS
<1>4. Proposes(x, L)
  BY <1>1, <1>2, <1>3, PlannedProposes
<1>5. Steady /\ Still
  BY <1>1, <1>2, SaveMoves DEF Steady, Still
<1> QED BY <1>2, <1>3, <1>4, <1>5, SaveMoves DEF CalmSaves

\* The preflight checks.
LEMMA PreflightSaves ==
    ASSUME BeforeRun, Preflight
    PROVE  \E x : CalmSaves(x)
<1> USE BeforeRunIs
<1>1. Old.phase = "PreflightChecking" /\ Quiet
  BY DEF Preflight, Reconciles, Old
<1>2. Exact(Old) /\ (spec.karp => Old.karp = "Pending")
  BY <1>1 DEF Sound
<1>3. CASE Save([Old EXCEPT !.phase = "Failed"])
  <2>1. PICK x : x = [Old EXCEPT !.phase = "Failed"]
    OBVIOUS
  <2>2. Proposes(x, omitted)
    BY <2>1, ErrorProposes
  <2> QED BY <1>1, <1>3, <2>1, <2>2, CalmSaveSaves
<1>4. CASE Save([Old EXCEPT !.phase =
                   IF seen.spec.dry THEN "Completed" ELSE AfterPreflight(Old, Mode)])
  <2>1. PICK p : p = IF seen.spec.dry THEN "Completed" ELSE AfterPreflight(Old, Mode)
    OBVIOUS
  <2>2. p \in Phases
    BY <2>1, PhasesAre
  <2>3. PICK x : x = [Old EXCEPT !.phase = p]
    OBVIOUS
  <2>4. /\ Writable(x) /\ x.phase = p /\ x.last = Old.last /\ x.karp = Old.karp
        /\ x.path = Old.path /\ x.addons = Old.addons /\ DOMAIN x.ng = DOMAIN Old.ng /\ Exact(x)
        /\ SamePlan(Old, x)
        /\ spec.mode = "Rollback" /\ Old.last = "Rollback" /\ Old.step = None => Blank(x)
    BY <1>1, <1>2, <2>2, <2>3, SamePlanProposes
  <2>5. CASE spec.dry
    <3>1. x.phase = "Completed"
      BY <2>1, <2>4, <2>5
    <3> QED BY <1>1, <1>4, <2>1, <2>3, <2>4, <2>5, <3>1, CalmSaveSaves DEF Proposes, Terminal, Exact
  <2>6. CASE ~spec.dry
    <3>1. Ready(x) /\ GroupsWait(x)
      BY <1>2, <2>4, <2>6, ExactReady
    <3>2. x.phase = AfterPreflight(x, spec.mode)
      BY <2>1, <2>4, <2>6, SameNextPhase
    <3>3. Proceeds(x)
      BY <3>1, <3>2, PreflightProceeds
    <3>4. Proposes(x, omitted)
      BY <1>1, <2>4, <3>3 DEF Proposes, Proceeds, UnderwayPhases, Calm, Terminal, Exact
    <3> QED BY <1>1, <1>4, <2>1, <2>3, <3>4, CalmSaveSaves
  <2> QED BY <2>5, <2>6
<1> QED BY <1>3, <1>4 DEF Preflight

\* Every reconcile before the run.
LEMMA BeforeRunSaves ==
    ASSUME BeforeRun,
           \/ StartPending \/ Plan \/ IncompletePlan \/ Preflight
           \/ UpdateRefused \/ TransientError \/ SaveError("Failed")
    PROVE  \E x : CalmSaves(x)
<1> USE BeforeRunIs
<1>1. CASE StartPending
  <2>1. Old.phase = "Pending" /\ Quiet
    BY <1>1 DEF StartPending, Reconciles, Old
  <2>2. PICK x : x = [Old EXCEPT !.phase = "Planning"]
    OBVIOUS
  <2>3. Save(x)
    BY <1>1, <2>2 DEF StartPending
  <2>4. "Planning" \in Phases
    BY PhasesAre
  <2>5. Proposes(x, omitted)
    BY <2>2, <2>4, SamePlanProposes DEF Proposes, Calm, Exact
  <2> QED BY <2>1, <2>3, <2>5, CalmSaveSaves
<1>2. CASE UpdateRefused \/ TransientError
  BY <1>2, CalmErrorSaves DEF UpdateRefused, TransientError
<1>3. CASE SaveError("Failed")
  BY <1>3, CalmErrorSaves
<1> QED BY <1>1, <1>2, <1>3, PlanSaves, IncompletePlanSaves, PreflightSaves

\* Every reconcile before the run keeps the invariant.
LEMMA BeforeRunKept ==
    ASSUME BeforeRun, ~Unknown', NEW x, CalmSaves(x)
    PROVE  Core'
<1>1. PICK K : K = omitted'
  OBVIOUS
<1> QED BY <1>1, CalmKept DEF CalmSaves
-----------------------------------------------------------------------------
\* The watch delivers what is stored.
LEMMA DeliverKept ==
    ASSUME Typed, Core, Deliver, ~Unknown'
    PROVE  Core'
<1>1. PICK m : m = status
  OBVIOUS
<1>2. /\ spec' = spec /\ status' = m /\ cluster' = cluster /\ updating' = updating /\ failed' = failed
      /\ moved' = moved /\ omitted' = omitted /\ seen'.spec = spec /\ seen'.status = m
  BY <1>1 DEF Deliver
<1>3. Still
  BY <1>2 DEF Still
<1>4. m \in StatusType
  BY <1>1 DEF Typed
<1>5. Guarded(m)'
  BY <1>1, <1>2 DEF Core, Guarded, AtTarget
<1>6. ASSUME m.phase \notin Terminal PROVE Sound(m)' /\ Follows(m, m)' /\ SameWish(seen.spec, spec)'
  <2>1. Sound(m)
    BY <1>1, <1>6 DEF Core, Running
  <2>2. /\ Blank(m) => Blank(m)' /\ m.step = None /\ m.cpId = None /\ DOMAIN m.ng = {}
        /\ Exact(m) => /\ Exact(m)' /\ m.step # None /\ m.cpId = None
                       /\ \A n \in DOMAIN m.ng : m.ng[n].id = None
        /\ Underway(m) => Underway(m)' /\ m.step # None
    <3>1. Exact(m) => m.step # None /\ m.cpId = None /\ \A n \in DOMAIN m.ng : m.ng[n].id = None
      BY NamesDiffer, Bounds DEF Exact, ExactBut, Waiting
    <3> QED BY <1>3, <3>1, StillExact, StillUnderway DEF Blank, Underway, PathPart
  <2>3. Sound(m)'
    BY <1>2, <2>1, <2>2 DEF Sound, LastPart
  <2>4. SameWish(seen.spec, spec)'
    BY <1>2 DEF SameWish
  <2>5. Follows(m, m)'
    <3>1. CASE m.phase \in Calm
      BY <1>2, <2>1, <2>2, <3>1 DEF Sound, Follows, SamePlan, Calm
    <3>2. CASE m.phase \notin Calm
      <4>1. Underway(m) /\ m.phase \in UnderwayPhases
        BY <1>4, <1>6, <2>1, <3>2, StatusIs DEF Sound, UnderwayPhases
      <4>2. /\ m.cpId # None => m.phase \in ControlPlanePhases
            /\ \A n \in DOMAIN m.ng : m.ng[n].id # None =>
                  m.phase \in NodeGroupPhases /\ m.ng[n].id = spec.target
        BY <4>1, OwnUpdates
      <4> QED BY <1>2, <2>2, <3>2, <4>1, <4>2 DEF Follows, SamePlan, Calm
    <3> QED BY <3>1, <3>2
  <2> QED BY <2>3, <2>4, <2>5
<1>7. Nodes'
  BY <1>3, StillNodes DEF Core
<1>8. m.phase \in Calm => \A r \in Resources : updating'[r] = None
  BY <1>1, <1>2 DEF Core
<1> QED BY <1>2, <1>5, <1>6, <1>7, <1>8 DEF Core, Running

\* An edit: a new wish when the run is over, or the same wish again.
LEMMA EditKept ==
    ASSUME Typed, Core, Edit, ~Unknown'
    PROVE  Core'
<1>1. PICK m, o : m = status /\ o = seen.status
  OBVIOUS
<1>2. /\ status' = m /\ seen' = seen /\ seen'.status = o
      /\ cluster' = cluster /\ updating' = updating /\ failed' = failed /\ moved' = moved
      /\ omitted' = omitted
  BY <1>1 DEF Edit
<1>3. Nodes'
  BY <1>2 DEF Core, Nodes
<1>4. CASE status.phase \in Terminal /\ seen.status = status
  <2>1. Guarded(m)'
    BY <1>1, <1>2, <1>4 DEF Core, Guarded, AtTarget, Running
  <2>2. m.phase \in Terminal /\ o.phase \in Terminal /\ m.phase \notin Calm
    BY <1>1, <1>4 DEF Terminal, Calm
  <2> QED BY <1>1, <1>2, <1>3, <1>4, <2>1, <2>2 DEF Core, Running
<1>5. CASE spec' = [spec EXCEPT !.gen = @ + 1]
  <2>1. /\ spec'.mode = spec.mode /\ spec'.target = spec.target /\ spec'.dry = spec.dry
        /\ spec'.karp = spec.karp
    BY <1>5 DEF Typed, SpecType
  <2>2. \A s : /\ Exact(s) => Exact(s)'
               /\ Underway(s) => Underway(s)'
               /\ Blank(s) => Blank(s)'
    <3> TAKE s
    <3>1. Exact(s) => Exact(s)'
      BY <1>2, <2>1 DEF Exact, ExactBut, PlanPossible, UpgradePath, AddonsPlanned
    <3>2. PathPart(s) /\ CpPart(s) /\ KarpPart(s) => PathPart(s)' /\ CpPart(s)' /\ KarpPart(s)'
      BY <1>2, <2>1 DEF PathPart, CpPart, KarpPart, Before
    <3>3. NgPart(s) /\ AddonPart(s) => NgPart(s)' /\ AddonPart(s)'
      BY <1>2, <2>1 DEF NgPart, AddonPart
    <3>4. Underway(s) => Underway(s)'
      BY <2>1, <3>2, <3>3 DEF Underway
    <3> QED BY <3>1, <3>4 DEF Blank
  <2>3. \A s : Sound(s) => Sound(s)'
    <3> TAKE s
    <3> QED BY <1>2, <2>1, <2>2 DEF Sound, LastPart
  <2>4. \A s : Guarded(s) => Guarded(s)'
    <3> TAKE s
    <3> QED BY <1>2, <2>1 DEF Guarded, AtTarget
  <2>5. Follows(o, m) => Follows(o, m)'
    BY <1>2, <2>1, <2>2 DEF Follows
  <2>6. SameWish(seen.spec, spec) => SameWish(seen.spec, spec)'
    BY <1>2, <2>1 DEF SameWish
  <2> QED BY <1>1, <1>2, <1>3, <2>3, <2>4, <2>5, <2>6 DEF Core, Running
<1> QED BY <1>4, <1>5 DEF Edit

\* The operator starts again on a resource whose run is over.
LEMMA ResetKept ==
    ASSUME Typed, Core, Reset, ~Unknown'
    PROVE  Core'
<1>1. PICK m, o : m = status' /\ o = seen.status
  OBVIOUS
<1>2. Blank(m) /\ m.phase = "Pending" /\ m.last = status.last
  BY <1>1, ResetIs
<1>3. /\ spec' = spec /\ seen' = seen /\ seen'.status = o /\ cluster' = cluster
      /\ updating' = updating /\ failed' = failed /\ moved' = moved /\ o.phase \in Terminal
      /\ omitted' = omitted
  BY <1>1 DEF Reset, Quiet, Old
<1>4. \A r \in Resources : updating[r] = None
  <2>1. updating["cp"] = None /\ updating["addons"] = None
    BY <1>1, <1>2, <1>3 DEF Unknown, Blank
  <2>2. \A n \in NodeGroups : updating[n] = None
    BY <1>1, <1>2, <1>3 DEF Unknown, Blank
  <2> QED BY <2>1, <2>2 DEF Resources
<1>5. Sound(m)'
  BY <1>2 DEF Sound, Blank, LastPart, Calm
<1>6. Guarded(m)'
  <2>1. ~AtTarget(status)
    <3> SUFFICES ASSUME AtTarget(status) PROVE FALSE
      OBVIOUS
    <3>1. status.phase = "Pending" /\ Running(status)
      BY <1>1, <1>3 DEF Core, AtTarget, Running
    <3>2. status.step = None
      BY <3>1 DEF Core, Sound, Blank
    <3> QED BY <3>2, NamesDiffer, Bounds DEF AtTarget
  <2> QED BY <1>2, <1>3, <2>1 DEF Core, Guarded
<1>7. Nodes'
  BY <1>3 DEF Core, Nodes
<1> QED BY <1>1, <1>2, <1>3, <1>4, <1>5, <1>6, <1>7 DEF Core, Running

\* A node that Karpenter starts has the version of the control plane.
LEMMA ReprovisionKept ==
    ASSUME Typed, Core, Reprovision, ~Unknown'
    PROVE  Core'
<1>1. PICK m, o : m = status /\ o = seen.status
  OBVIOUS
<1>2. /\ status' = m /\ seen' = seen /\ seen'.status = o /\ spec' = spec /\ updating' = updating
      /\ failed' = failed /\ moved' = moved /\ omitted' = omitted
      /\ cluster'.cp = cluster.cp /\ cluster'.addons = cluster.addons /\ cluster'.ng = cluster.ng
      /\ cluster'.kn.version = cluster.cp
  BY <1>1 DEF Reprovision, Typed, ClusterType
<1>3. \A s : /\ Exact(s) => Exact(s)' /\ (Blank(s) => Blank(s)')
             /\ Underway(s) => Underway(s)'
  <2> TAKE s
  <2>1. Exact(s) => Exact(s)'
    BY <1>2 DEF Exact, ExactBut, PlanPossible, UpgradePath, AddonsPlanned
  <2>2. PathPart(s) /\ CpPart(s) => PathPart(s)' /\ CpPart(s)'
    BY <1>2 DEF PathPart, CpPart, Before
  <2>3. NgPart(s) /\ AddonPart(s) => NgPart(s)' /\ AddonPart(s)'
    BY <1>2 DEF NgPart, AddonPart
  <2>4. Underway(s) => KarpPart(s)'
    <3> SUFFICES ASSUME Underway(s) PROVE KarpPart(s)'
      OBVIOUS
    <3>1. s.phase = "UpgradingKarpenterNodePools" => cluster.cp = spec.target
      BY DEF Underway, CpPart, ForwardPhases
    <3>2. cluster.cp \in Nat
      BY Bounds DEF Typed, ClusterType, Versions
    <3>3. s.phase = "UpgradingKarpenterNodePools" => cluster'.kn.version >= spec.target
      BY <1>2, <3>1, <3>2
    <3> QED BY <1>2, <3>3 DEF Underway, KarpPart
  <2> QED BY <1>2, <2>1, <2>2, <2>3, <2>4 DEF Underway, Blank
<1>4. \A s : Sound(s) => Sound(s)'
  <2> TAKE s
  <2> QED BY <1>2, <1>3 DEF Sound, LastPart
<1>5. \A s : Guarded(s) => Guarded(s)'
  <2> TAKE s
  <2> QED BY <1>2 DEF Guarded, AtTarget
<1>6. Follows(o, m) => Follows(o, m)'
  BY <1>2, <1>3 DEF Follows
<1>7. SameWish(seen.spec, spec) => SameWish(seen.spec, spec)'
  BY <1>2 DEF SameWish
<1>8. Nodes'
  BY <1>2 DEF Core, Nodes
<1> QED BY <1>1, <1>2, <1>4, <1>5, <1>6, <1>7, <1>8 DEF Core, Running
-----------------------------------------------------------------------------
\* While EKS works, the stored and the cached resource are past their preflight.
LEMMA WhileUpdating ==
    ASSUME Typed, Core, NEW r \in Resources, updating[r] # None
    PROVE  /\ status.phase \notin Calm /\ seen.status.phase \notin Calm
           /\ Running(status) => Underway(status) /\ LastPart(status)
           /\ Running(Old) => /\ Underway(Old) /\ LastPart(Old) /\ Follows(Old, status)
                              /\ SamePlan(Old, status) /\ SameWish(seen.spec, spec) /\ Guarded(Old)
           /\ ~Running(Old) => status.phase \in Terminal
           /\ spec.target \in Versions /\ spec.target # None /\ spec.mode \in Modes
           /\ updating[r] \in Versions
<1>1. status.phase \notin Calm /\ seen.status.phase \notin Calm
  BY DEF Core
<1>2. Running(status) => Underway(status) /\ LastPart(status)
  BY <1>1 DEF Core, Sound
<1>3. Running(Old) => /\ Underway(Old) /\ LastPart(Old) /\ Follows(Old, status) /\ SamePlan(Old, status)
                      /\ SameWish(seen.spec, spec) /\ Guarded(Old)
  BY <1>1 DEF Core, Sound, Old, Follows
<1>4. ~Running(Old) => status.phase \in Terminal
  BY <1>1 DEF Core, Old, Calm
<1>5. spec.target \in Versions /\ spec.target # None /\ spec.mode \in Modes
  BY NamesDiffer, Bounds DEF Typed, SpecType, Versions, Modes
<1>6. updating[r] \in Versions
  BY DEF Typed, VersionOrNone
<1> QED BY <1>1, <1>2, <1>3, <1>4, <1>5, <1>6

\* An update ends, and the control plane stays where it is.
LEMMA EndKept ==
    ASSUME Typed, Core, ~Unknown', NEW r \in Resources, updating[r] # None,
           UNCHANGED <<spec, status, seen, moved>>, cluster'.cp = cluster.cp, Nodes',
           NEW m, NEW o, m = status, o = Old,
           Running(m) => Underway(m)', Running(o) => Underway(o)'
    PROVE  Core'
<1> USE WhileUpdating
<1>1. status' = m /\ seen'.status = o /\ Old' = o
  BY DEF Old
<1>2. Running(m) => Sound(m)'
  BY DEF Sound, LastPart, Calm
<1>3. Running(o) => Sound(o)'
  BY DEF Sound, LastPart, Calm, Old
<1>4. Running(o) => Follows(o, m)' /\ SameWish(seen.spec, spec)'
  <2> SUFFICES ASSUME Running(o) PROVE Follows(o, m)' /\ SameWish(seen.spec, spec)'
    OBVIOUS
  <2>1. Follows(o, m) /\ o.phase \notin Calm
    BY DEF Old
  <2> QED BY <2>1 DEF Follows, SameWish, SamePlan, Calm
<1>5. Guarded(m)' /\ (Running(o) => Guarded(o)')
  BY DEF Core, Guarded, AtTarget
<1> QED BY <1>1, <1>2, <1>3, <1>4, <1>5 DEF Core, Running, Old

\* The update of the add-ons ends.
LEMMA AddonsEndKept ==
    ASSUME Typed, Core, UpdateEnds("addons"), ~Unknown'
    PROVE  Core'
<1>0. /\ "addons" \in Resources /\ "addons" \notin NodeGroups /\ "cp" \in Resources
      /\ NodeGroups \subseteq Resources /\ updating["addons"] # None
  BY NamesDiffer DEF Resources, UpdateEnds
<1> USE WhileUpdating
<1>1. /\ UNCHANGED <<spec, status, seen, moved>>
      /\ cluster'.cp = cluster.cp /\ cluster'.ng = cluster.ng /\ cluster'.kn = cluster.kn
      /\ updating'["cp"] = updating["cp"] /\ failed'["cp"] = failed["cp"]
      /\ \A n \in NodeGroups : updating'[n] = updating[n] /\ failed'[n] = failed[n]
      /\ \A n \in NodeGroups : n \in omitted' <=> n \in omitted
      /\ \/ cluster'.addons = updating["addons"] /\ failed' = failed
         \/ cluster'.addons = cluster.addons /\ failed'["addons"] # None /\ omitted' = omitted
  BY <1>0 DEF UpdateEnds, Typed, ClusterType
<1>2. Nodes'
  BY <1>1 DEF Core, Nodes
<1>3. updating["addons"] = status.planned
  BY <1>0 DEF Core, Unknown
<1>4. ASSUME NEW s \in StatusType, Underway(s), updating["addons"] = spec.target PROVE Underway(s)'
  <2>0. DOMAIN s.ng \subseteq NodeGroups
    BY StatusIs, GroupsAre
  <2>1. PathPart(s)' /\ KarpPart(s)' /\ CpPart(s)'
    BY <1>1, <1>4 DEF Underway, PathPart, KarpPart, CpPart, Before
  <2>2. NgPart(s)'
    BY <1>1, <1>4, <2>0 DEF Underway, NgPart
  <2>3. AddonPart(s)'
    <3>1. CASE cluster'.addons = updating["addons"]
      BY <1>1, <1>4, <3>1 DEF Underway, AddonPart
    <3>2. CASE cluster'.addons = cluster.addons /\ failed'["addons"] # None /\ omitted' = omitted
      BY <1>1, <1>4, <3>2 DEF Underway, AddonPart
    <3> QED BY <1>1, <3>1, <3>2
  <2> QED BY <1>1, <1>4, <2>1, <2>2, <2>3 DEF Underway
<1>5. PICK m, o : m = status /\ o = Old
  OBVIOUS
<1>6. m \in StatusType /\ o \in StatusType
  BY <1>5, OldIs DEF Typed
<1>7. Running(m) => Underway(m)'
  BY <1>0, <1>3, <1>4, <1>5, <1>6 DEF Underway, PathPart
<1>8. Running(o) => Underway(o)'
  BY <1>0, <1>3, <1>4, <1>5, <1>6 DEF Underway, PathPart, SamePlan
<1> QED BY <1>0, <1>1, <1>2, <1>5, <1>7, <1>8, EndKept

\* The update of a node group ends.
LEMMA GroupEndKept ==
    ASSUME Typed, Core, NEW n \in NodeGroups, UpdateEnds(n), ~Unknown'
    PROVE  Core'
<1>0. /\ "addons" \in Resources /\ "addons" \notin NodeGroups /\ "cp" \in Resources
      /\ "cp" \notin NodeGroups
      /\ NodeGroups \subseteq Resources /\ n \in Resources /\ updating[n] # None
      /\ n # "cp" /\ n # "addons"
  BY NamesDiffer DEF Resources, UpdateEnds
<1> USE WhileUpdating
<1>1. /\ UNCHANGED <<spec, status, seen, moved>>
      /\ cluster'.cp = cluster.cp /\ cluster'.addons = cluster.addons /\ cluster'.kn = cluster.kn
      /\ updating'["cp"] = updating["cp"] /\ failed'["cp"] = failed["cp"]
      /\ updating'["addons"] = updating["addons"] /\ failed'["addons"] = failed["addons"]
      /\ \A k \in NodeGroups : k # n => /\ updating'[k] = updating[k] /\ failed'[k] = failed[k]
                                        /\ cluster'.ng[k] = cluster.ng[k]
      /\ updating'[n] = None
      /\ "addons" \in omitted' <=> "addons" \in omitted
      /\ \A k \in NodeGroups : k # n => (k \in omitted' <=> k \in omitted)
      /\ \/ cluster'.ng[n] = updating[n] /\ failed'[n] = failed[n]
         \/ cluster'.ng[n] = cluster.ng[n] /\ failed'[n] = updating[n] /\ omitted' = omitted
  BY <1>0 DEF UpdateEnds, Typed, ClusterType
<1>2. Nodes'
  BY <1>0, <1>1 DEF Core, Nodes
<1>3. n \in DOMAIN status.ng /\ status.ng[n].id = updating[n]
  BY <1>0 DEF Core, Unknown
<1>4. ASSUME NEW s \in StatusType, Underway(s), updating[n] = spec.target PROVE Underway(s)'
  <2>0. DOMAIN s.ng \subseteq NodeGroups
    BY StatusIs, GroupsAre
  <2>1. PathPart(s)' /\ KarpPart(s)' /\ CpPart(s)'
    BY <1>1, <1>4 DEF Underway, PathPart, KarpPart, CpPart, Before
  <2>2. NgPart(s)'
    <3>0. NgPart(s)
      BY <1>4 DEF Underway
    <3>1. CASE cluster'.ng[n] = spec.target
      BY <1>1, <2>0, <3>0, <3>1 DEF NgPart
    <3>2. CASE cluster'.ng[n] = cluster.ng[n] /\ failed'[n] = spec.target /\ omitted' = omitted
      BY <1>1, <2>0, <3>0, <3>2 DEF NgPart
    <3> QED BY <1>1, <1>4, <3>1, <3>2
  <2>3. AddonPart(s)'
    BY <1>1, <1>4 DEF Underway, AddonPart
  <2> QED BY <1>1, <1>4, <2>1, <2>2, <2>3 DEF Underway
<1>5. PICK m, o : m = status /\ o = Old
  OBVIOUS
<1>6. m \in StatusType /\ o \in StatusType
  BY <1>5, OldIs DEF Typed
<1>7. Running(m) => Underway(m)'
  <2> SUFFICES ASSUME Running(m) PROVE Underway(m)'
    OBVIOUS
  <2>1. Underway(m) /\ m.phase \in UnderwayPhases
    BY <1>0, <1>5, <1>6, StatusIs DEF UnderwayPhases, Running
  <2>2. updating[n] = spec.target
    BY <1>0, <1>3, <1>5, <2>1, OwnUpdates
  <2> QED BY <1>4, <1>6, <2>1, <2>2
<1>8. Running(o) => Underway(o)'
  <2> SUFFICES ASSUME Running(o) PROVE Underway(o)'
    OBVIOUS
  <2>1. Underway(o) /\ Follows(Old, status)
    BY <1>0, <1>5
  <2>2. updating[n] = spec.target
    BY <1>0, <1>3, <2>1 DEF Follows
  <2> QED BY <1>4, <1>6, <2>1, <2>2
<1> QED BY <1>0, <1>1, <1>2, <1>5, <1>7, <1>8, EndKept
\* The update of the control plane ends: a step up leaves no node ahead, and a
\* step down finds every node at the target.
LEMMA ControlPlaneEndKept ==
    ASSUME Typed, Core, UpdateEnds("cp"), ~Unknown'
    PROVE  Core'
<1>0. /\ "addons" \in Resources /\ "cp" \in Resources /\ "cp" \notin NodeGroups /\ "cp" # "addons"
      /\ NodeGroups \subseteq Resources /\ updating["cp"] # None
  BY NamesDiffer DEF Resources, UpdateEnds
<1> USE WhileUpdating
<1>1. PICK m, o, v : m = status /\ o = Old /\ v = updating["cp"]
  OBVIOUS
<1>2. m \in StatusType /\ o \in StatusType /\ Recorded(m) /\ Recorded(o) /\ v \in Versions /\ v # None
  BY <1>0, <1>1, OldIs DEF Typed
<1>3. /\ m.cpId = v /\ m.step \in 1..Len(m.path) /\ v = m.path[m.step]
  BY <1>0, <1>1, <1>2 DEF Core, Unknown, Recorded
<1>4. /\ UNCHANGED <<spec, status, seen>>
      /\ updating'["cp"] = None /\ updating'["addons"] = updating["addons"]
      /\ failed'["addons"] = failed["addons"]
      /\ \A n \in NodeGroups : updating'[n] = updating[n] /\ failed'[n] = failed[n]
      /\ \A r \in NodeGroups \cup {"addons"} : r \in omitted' <=> r \in omitted
      /\ \/ /\ cluster' = [cluster EXCEPT !.cp = v] /\ failed' = failed
            /\ moved'.dir = (IF v > cluster.cp THEN "up" ELSE "down") /\ moved'.since = FALSE
         \/ cluster' = cluster /\ failed'["cp"] = v /\ moved' = moved
  <2>1. /\ UNCHANGED <<spec, status, seen>>
        /\ updating' = [updating EXCEPT !["cp"] = None]
        /\ omitted' = omitted \ {"cp"} \/ omitted' = omitted
        /\ \/ /\ cluster' = [cluster EXCEPT !.cp = v] /\ failed' = failed
              /\ moved' = [dir |-> IF v > cluster.cp THEN "up" ELSE "down", since |-> FALSE]
           \/ cluster' = cluster /\ failed' = [failed EXCEPT !["cp"] = v] /\ moved' = moved
    BY <1>1 DEF UpdateEnds
  <2>2. moved' = [dir |-> IF v > cluster.cp THEN "up" ELSE "down", since |-> FALSE] =>
           moved'.dir = (IF v > cluster.cp THEN "up" ELSE "down") /\ moved'.since = FALSE
    OBVIOUS
  <2>3. updating \in [Resources -> VersionOrNone] /\ failed \in [Resources -> VersionOrNone]
    BY DEF Typed
  <2> QED BY <1>0, <2>1, <2>2, <2>3
<1>5. /\ v # cluster.cp
      /\ \A n \in NodeGroups : (n \in omitted \/ cluster.ng[n] <= v) /\ updating[n] = None
  BY <1>0, <1>1 DEF Core, Nodes
<1>6. ASSUME NEW s \in {m, o}, Running(s)
      PROVE  /\ Underway(s) /\ s.path = m.path /\ s.step = m.step /\ s.phase \in ControlPlanePhases
             /\ s.cpId \in {None, v} /\ s.step \in 1..Len(s.path) /\ v = s.path[s.step]
             /\ LastPart(s) /\ s \in StatusType /\ s.phase \notin Calm
  <2>1. CASE s = m
    <3>1. Underway(m) /\ LastPart(m) /\ m.phase \notin Calm
      BY <1>0, <1>1, <1>6, <2>1
    <3>2. m.phase \in ControlPlanePhases
      BY <1>2, <1>3, <3>1 DEF Underway, CpPart
    <3> QED BY <1>2, <1>3, <2>1, <3>1, <3>2
  <2>2. CASE s = o
    <3>1. Underway(o) /\ LastPart(o) /\ Follows(o, m) /\ SamePlan(o, m) /\ o.phase \notin Calm
      BY <1>0, <1>1, <1>6, <2>2 DEF Old
    <3>2. o.phase \in ControlPlanePhases /\ o.step = m.step /\ o.path = m.path
      BY <1>2, <1>3, <3>1 DEF Follows, SamePlan
    <3>3. o.cpId # None => o.cpId = v
      BY <1>2, <1>3, <3>2 DEF Recorded
    <3> QED BY <1>2, <1>3, <2>2, <3>1, <3>2, <3>3
  <2> QED BY <1>6, <2>1, <2>2
<1>7. CASE cluster' = cluster /\ failed'["cp"] = v /\ moved' = moved
  <2>1. Nodes'
    BY <1>4, <1>5, <1>7 DEF Core, Nodes
  <2>2. ASSUME NEW s \in {m, o}, Running(s) PROVE Underway(s)'
    <3>0. Underway(s) /\ s.cpId \in {None, v} /\ DOMAIN s.ng \subseteq NodeGroups
      BY <1>6, <2>2, StatusIs, GroupsAre
    <3>1. PathPart(s)' /\ KarpPart(s)'
      BY <1>4, <1>7, <3>0 DEF Underway, PathPart, KarpPart
    <3>2. CpPart(s)'
      BY <1>4, <1>7, <3>0 DEF Underway, CpPart, Before
    <3>3. NgPart(s)' /\ AddonPart(s)'
      BY <1>4, <1>7, <3>0 DEF Underway, NgPart, AddonPart
    <3> QED BY <1>4, <3>0, <3>1, <3>2, <3>3 DEF Underway
  <2> QED BY <1>0, <1>1, <1>4, <1>7, <2>1, <2>2, EndKept
<1>8. CASE /\ cluster' = [cluster EXCEPT !.cp = v] /\ failed' = failed
           /\ moved'.dir = (IF v > cluster.cp THEN "up" ELSE "down") /\ moved'.since = FALSE
  <2>1. /\ cluster'.cp = v /\ cluster'.ng = cluster.ng /\ cluster'.addons = cluster.addons
        /\ cluster'.kn = cluster.kn
    BY <1>8 DEF Typed, ClusterType
  <2>2. Running(m) /\ Running(o)
    <3>1. Running(m)
      <4>1. status' = m
        BY <1>1, <1>4
      <4> QED BY <1>3, <2>1, <4>1 DEF Unknown, Running
    <3>2. Running(o)
      BY <1>0, <1>1, <3>1 DEF Running
    <3> QED BY <3>1, <3>2
  <2>3. ASSUME NEW s \in {m, o} PROVE Underway(s)'
    <3>0. /\ Underway(s) /\ s.cpId \in {None, v} /\ s.step \in 1..Len(s.path) /\ v = s.path[s.step]
          /\ s.phase \in ControlPlanePhases /\ DOMAIN s.ng \subseteq NodeGroups
      BY <1>6, <2>2, <2>3, StatusIs, GroupsAre
    <3>1. PathPart(s)' /\ KarpPart(s)'
      BY <1>4, <2>1, <3>0 DEF Underway, PathPart, KarpPart
    <3>2. CpPart(s)'
      <4>1. spec.mode = "Forward" => s.phase = "UpgradingControlPlane"
        BY <3>0 DEF Underway, ForwardPhases, ControlPlanePhases
      <4> QED BY <1>4, <2>1, <3>0, <4>1 DEF CpPart, Before
    <3>3. NgPart(s)' /\ AddonPart(s)'
      BY <1>4, <1>8, <2>1, <3>0 DEF Underway, NgPart, AddonPart
    <3> QED BY <1>4, <3>0, <3>1, <3>2, <3>3 DEF Underway
  <2>4. v \in Nat /\ cluster.cp \in Nat /\ spec.target \in Nat
    BY <1>0, <1>2, Bounds DEF Versions, Typed, ClusterType
  <2>5. ~spec.dry
    BY <1>6, <2>2 DEF Underway
  <2>6. spec.mode = "Rollback" => v = spec.target /\ m.step = 1 /\ Len(m.path) = 1
    <3> SUFFICES ASSUME spec.mode = "Rollback" PROVE v = spec.target /\ m.step = 1 /\ Len(m.path) = 1
      OBVIOUS
    <3>1. PathPart(m) /\ m.path \in Paths
      BY <1>2, <1>6, <2>2, StatusIs DEF Underway
    <3>2. Len(m.path) <= 1 /\ Len(m.path) \in Nat
      BY <3>1, PathIs, Bounds DEF PathPart
    <3>3. \A l \in Nat : \A k \in 1..l : l <= 1 => k = 1 /\ l = 1
      OBVIOUS
    <3>4. m.step = 1 /\ Len(m.path) = 1
      BY ONLY <1>3, <3>2, <3>3
    <3>5. v + 1 = spec.target + 1
      BY <1>3, <3>1, <3>4 DEF PathPart
    <3> QED BY <2>4, <3>4, <3>5
  <2>7. spec.mode = "Forward" => v > cluster.cp
    <3> SUFFICES ASSUME spec.mode = "Forward" PROVE v > cluster.cp
      OBVIOUS
    <3>1. CpPart(m) /\ m.path \in Paths
      BY <1>2, <1>6, <2>2, StatusIs DEF Underway
    <3>2. m.step # 0 /\ m.step # Len(m.path) + 1
      BY <1>3, <3>1, PathIs, Bounds
    <3>3. cluster.cp = v - 1
      BY <1>3, <1>5, <3>1, <3>2 DEF CpPart, Before
    <3> QED BY <2>4, <3>3
  <2>8. ASSUME NEW s \in {m, o} PROVE Guarded(s)' /\ Sound(s)'
    <3>1. /\ s.path = m.path /\ s.step = m.step /\ LastPart(s) /\ s.phase \notin Calm /\ Running(s)
      BY <1>6, <2>2, <2>8
    <3>2. moved'.dir = "down" => AtTarget(s)'
      <4> SUFFICES ASSUME moved'.dir = "down" PROVE AtTarget(s)'
        OBVIOUS
      <4>1. spec.mode = "Rollback"
        BY <1>0, <1>8, <2>7 DEF Modes
      <4> QED BY <1>4, <2>1, <2>6, <3>1, <4>1 DEF AtTarget, Running
    <3>3. LastPart(s)'
      BY <1>4, <1>5, <2>1, <2>5, <2>6, <3>1 DEF LastPart
    <3> QED BY <2>3, <2>8, <3>1, <3>2, <3>3 DEF Guarded, Sound, Calm
  <2>9. Follows(o, m)'
    <3>1. Follows(o, m) /\ o.phase \notin Calm
      BY <1>0, <1>1, <2>2 DEF Old
    <3>2. ~(spec.mode = "Rollback" /\ cluster.cp = spec.target)
      BY <1>5, <2>6
    <3> QED BY <1>4, <2>5, <3>1, <3>2 DEF Follows, SamePlan, Calm
  <2>10. SameWish(seen.spec, spec)'
    BY <1>0, <1>1, <1>4, <2>2 DEF SameWish
  <2>11. Nodes'
    BY <1>4, <1>5, <2>1 DEF Nodes
  <2>12. m.phase \notin Calm /\ o.phase \notin Calm /\ status' = m /\ seen'.status = o
    BY <1>1, <1>4, <1>6, <2>2 DEF Old
  <2> QED BY <2>2, <2>8, <2>9, <2>10, <2>11, <2>12 DEF Core, Running
<1> QED BY <1>4, <1>7, <1>8
-----------------------------------------------------------------------------
\* The invariant holds at first.
LEMMA CoreInit == UpgradeInit => Core
<1> SUFFICES ASSUME UpgradeInit PROVE Core
  OBVIOUS
<1>0. PICK m : m = NewStatus
  OBVIOUS
<1>1. Blank(m) /\ m.phase = "Pending" /\ status = m /\ seen.status = m /\ seen.spec = spec
      /\ m.last = None
  BY <1>0, NewStatusIs DEF UpgradeInit, NewStatus
<1>2. \A r \in Resources : updating[r] = None
  BY DEF UpgradeInit
<1>3. "cp" \in Resources /\ "addons" \in Resources /\ NodeGroups \subseteq Resources
  BY DEF Resources
<1>4. ~Unknown
  <2>1. status.step \notin 1..Len(status.path)
    BY <1>1 DEF Blank
  <2> QED BY <1>2, <1>3, <2>1 DEF Unknown
<1>5. Nodes
  <2>1. \A n \in NodeGroups : cluster.ng[n] = 0 /\ cluster.cp = 0
    BY DEF UpgradeInit
  <2> QED BY <1>2, <1>3, <2>1 DEF Nodes
<1>6. Guarded(m)
  BY DEF UpgradeInit, Guarded
<1>7. Sound(m) /\ Follows(m, m)
  BY <1>1 DEF Sound, Follows, Blank, LastPart, Calm
<1> QED BY <1>1, <1>2, <1>4, <1>5, <1>6, <1>7 DEF Core, Running, SameWish, Terminal

\* Which reconciles belong to which part of the life of the resource.
LEMMA ReconcilesWhen ==
    ASSUME Typed, Core
    PROVE  /\ StartPending \/ Plan \/ IncompletePlan \/ Preflight => BeforeRun
           /\ \/ PollControlPlane \/ ControlPlaneTimeout \/ InitiateControlPlane \/ Addons
              \/ NodeGroupsDone \/ InitiateNodeGroup \/ PollNodeGroup \/ NodeGroupTimeout
              \/ KarpenterDone \/ StartNextBatch \/ AdvanceBatch \/ UpdateRefused
              => InRun
           /\ TransientError \/ PermanentError => BeforeRun \/ InRun
<1>1. \A P : Reconciles(P) => Old.phase \in P /\ Old.phase \notin Terminal
  BY DEF Reconciles, Old
<1>2. StartPending \/ Plan \/ IncompletePlan \/ Preflight => BeforeRun
  BY <1>1 DEF StartPending, Plan, IncompletePlan, Preflight, BeforeRun, Calm
<1>3. PollControlPlane \/ ControlPlaneTimeout \/ InitiateControlPlane => InRun
  BY <1>1 DEF PollControlPlane, ControlPlaneTimeout, InitiateControlPlane, InRun, Calm, ControlPlanePhases
<1>4. Addons => InRun
  BY <1>1 DEF Addons, InRun, Calm, AddonPhases
<1>5. NodeGroupsDone \/ InitiateNodeGroup \/ PollNodeGroup \/ NodeGroupTimeout => InRun
  BY <1>1 DEF NodeGroupsDone, InitiateNodeGroup, PollNodeGroup, NodeGroupTimeout, InRun, Calm,
              NodeGroupPhases
<1>6. KarpenterDone \/ StartNextBatch \/ AdvanceBatch => InRun
  BY <1>1 DEF KarpenterDone, StartNextBatch, AdvanceBatch, InRun, Calm
<1>7. UpdateRefused => InRun
  BY <1>1 DEF UpdateRefused, InRun, Calm, ControlPlanePhases, AddonPhases, NodeGroupPhases
<1>8. TransientError \/ PermanentError => BeforeRun \/ InRun
  BY <1>1 DEF TransientError, PermanentError, BeforeRun, InRun
<1> QED BY <1>2, <1>3, <1>4, <1>5, <1>6, <1>7, <1>8

\* The invariant is about the resource, its cache and the cluster only.
LEMMA CoreUnchanged ==
    ASSUME UNCHANGED <<spec, status, seen, cluster, updating, failed, omitted, moved>>
    PROVE  Core <=> Core'
<1>1. PICK m, o : m = status /\ o = seen.status
  OBVIOUS
<1>2. /\ status' = m /\ seen' = seen /\ seen'.status = o /\ spec' = spec /\ cluster' = cluster
      /\ updating' = updating /\ failed' = failed /\ omitted' = omitted /\ moved' = moved
  BY <1>1
<1>3. Unknown' = Unknown /\ Nodes' = Nodes
  BY <1>1, <1>2 DEF Unknown, Nodes
<1>4. \A s : Guarded(s)' = Guarded(s)
  BY <1>2 DEF Guarded, AtTarget, Running
<1>5. \A s : Exact(s)' = Exact(s) /\ Blank(s)' = Blank(s)
  BY <1>2 DEF Exact, ExactBut, Blank, PlanPossible, UpgradePath, AddonsPlanned
<1>6. \A s : Sound(s)' = Sound(s)
  <2> TAKE s
  <2>1. PathPart(s)' = PathPart(s) /\ CpPart(s)' = CpPart(s) /\ KarpPart(s)' = KarpPart(s)
    BY <1>2 DEF PathPart, CpPart, KarpPart, Before
  <2>2. NgPart(s)' = NgPart(s) /\ AddonPart(s)' = AddonPart(s)
    BY <1>2 DEF NgPart, AddonPart
  <2>3. Underway(s)' = Underway(s)
    BY <1>2, <2>1, <2>2 DEF Underway
  <2> QED BY <1>2, <1>5, <2>3 DEF Sound, LastPart
<1>7. Follows(o, m)' = Follows(o, m)
  BY <1>2, <1>5 DEF Follows, SamePlan
<1>8. SameWish(seen.spec, spec)' = SameWish(seen.spec, spec)
  BY <1>2 DEF SameWish
<1> QED BY <1>1, <1>2, <1>3, <1>4, <1>6, <1>7, <1>8 DEF Core, Running

\* A permanent error is reported, or the resource is left as it is.
LEMMA PermanentErrorIs ==
    ASSUME PermanentError
    PROVE  \/ SaveError("Failed")
           \/ UNCHANGED <<spec, status, seen, cluster, updating, failed, omitted, moved>>
BY DEF PermanentError, Quiet

\* Every step that leaves no update unknown keeps the invariant.
LEMMA CoreNext ==
    ASSUME Typed, Core, Step, ~Unknown'
    PROVE  Core'
<1>1. CASE StartPending \/ Plan \/ IncompletePlan \/ Preflight
  BY <1>1, ReconcilesWhen, BeforeRunSaves, BeforeRunKept
<1>2. CASE \/ PollControlPlane \/ ControlPlaneTimeout \/ InitiateControlPlane \/ Addons
           \/ NodeGroupsDone \/ InitiateNodeGroup \/ PollNodeGroup \/ NodeGroupTimeout
           \/ KarpenterDone \/ StartNextBatch \/ AdvanceBatch \/ UpdateRefused
  BY <1>2, ReconcilesWhen, RunKept
<1>3. CASE TransientError \/ PermanentError
  <2>1. CASE UNCHANGED <<spec, status, seen, cluster, updating, failed, omitted, moved>>
    BY <2>1, CoreUnchanged
  <2>2. CASE TransientError \/ SaveError("Failed")
    <3>1. CASE BeforeRun
      BY <2>2, <3>1, BeforeRunSaves, BeforeRunKept
    <3>2. CASE InRun
      BY <2>2, <3>2, RunKept
    <3> QED BY <1>3, <3>1, <3>2, ReconcilesWhen
  <2> QED BY <1>3, <2>1, <2>2, PermanentErrorIs
<1>4. CASE Reset \/ Edit \/ Deliver \/ Reprovision
  BY <1>4, ResetKept, EditKept, DeliverKept, ReprovisionKept
<1>5. ASSUME NEW r \in Resources, UpdateEnds(r) PROVE Core'
  BY <1>5, ControlPlaneEndKept, AddonsEndKept, GroupEndKept DEF Resources
<1> QED BY <1>1, <1>2, <1>3, <1>4, <1>5 DEF Step, Progress, Watch, Restart

\* The reconcile loop, whatever order the watch, the patches, the errors and the
\* updates of EKS come in: the state is well typed, and as long as no update is
\* unknown to the status the stored and the cached status tell the truth about
\* the cluster (UpgradeInv).
THEOREM UpgradeInvariant == UpgradeSpec => []UpgradeInv
<1>1. UpgradeInit => UpgradeInv
  BY TypedInit, CoreInit DEF UpgradeInv
<1>2. UpgradeInv /\ [UpgradeNext]_upgradeVars => UpgradeInv'
  <2> SUFFICES ASSUME UpgradeInv, [UpgradeNext]_upgradeVars PROVE UpgradeInv'
    OBVIOUS
  <2>1. CASE UpgradeNext
    <3>1. Typed'
      BY <2>1, TypedNext DEF UpgradeInv
    <3>2. ~abandoned' => Core'
      BY <2>1, CoreNext DEF UpgradeInv, UpgradeNext, Remember
    <3> QED BY <3>1, <3>2 DEF UpgradeInv
  <2>2. CASE UNCHANGED upgradeVars
    <3>1. Typed'
      BY <2>2 DEF UpgradeInv, upgradeVars, Typed, Recorded
    <3>2. Core <=> Core'
      BY <2>2, CoreUnchanged DEF upgradeVars
    <3> QED BY <2>2, <3>1, <3>2 DEF UpgradeInv, upgradeVars
  <2> QED BY <2>1, <2>2
<1> QED BY <1>1, <1>2, PTL DEF UpgradeSpec

\* The order of the phases (after_preflight and its successors) holds no managed
\* node group ahead of the control plane, through upgrades and rollbacks that
\* succeed, fail half way and follow each other, but for a group that a plan left
\* out and no update has reached since; and every variable has its type.
THEOREM NodesBehindTheControlPlane == UpgradeSpec => []NodesNeverAhead
<1>1. UpgradeInv => NodesNeverAhead
  <2> SUFFICES ASSUME UpgradeInv PROVE NodesNeverAhead
    OBVIOUS
  <2>1. UpgradeTypeOK
    BY DEF UpgradeInv, Typed, UpgradeTypeOK, SpecType, ClusterType
  <2>2. ~abandoned => \A n \in NodeGroups \ omitted : Behind(n)
    BY DEF UpgradeInv, Core, Nodes, Behind
  <2> QED BY <2>1, <2>2 DEF NodesNeverAhead
<1> QED BY <1>1, UpgradeInvariant, PTL

\* The phase a patch writes.
LEMMA PatchPhase ==
    ASSUME Typed, NEW x \in StatusType, status' = MergePatch(Noted(x))
    PROVE  status'.phase = x.phase
BY NotedFields, MergeFields

\* A reconcile that asks for an update does not report Completed.
LEMMA StartPhase ==
    ASSUME InRun, InitiateControlPlane \/ (Addons /\ Old.addons = "Pending") \/ InitiateNodeGroup
    PROVE  status' = status \/ status'.phase # "Completed"
<1> USE InRunIs
<1>1. Old.phase # "Completed"
  BY DEF InRun, Terminal
<1>2. CASE SaveFails
  BY <1>2 DEF SaveFails
<1>3. ASSUME NEW x \in StatusType, x.phase = Old.phase, Save(x) PROVE status'.phase # "Completed"
  BY <1>1, <1>3, SaveMoves, PatchPhase DEF Save
<1>4. CASE InitiateControlPlane
  <2>1. PICK v : v = Old.path[Old.step] /\ (Save([Old EXCEPT !.cpId = v]) \/ SaveFails)
                 /\ Old.step \in 1..Len(Old.path)
    BY <1>4 DEF InitiateControlPlane
  <2>2. v \in VersionOrNone
    BY <2>1, OldIs, PathIs DEF VersionOrNone
  <2>3. PICK x : x = [Old EXCEPT !.cpId = v]
    OBVIOUS
  <2>4. x \in StatusType /\ x.phase = Old.phase
    BY <2>2, <2>3, OldIs, StatusIs
  <2> QED BY <1>2, <1>3, <2>1, <2>3, <2>4
<1>5. CASE Addons /\ Old.addons = "Pending"
  <2>1. Save([Old EXCEPT !.addons = "InProgress"]) \/ SaveFails
    BY <1>5, NamesDiffer DEF Addons, ComponentStatus
  <2>2. PICK x : x = [Old EXCEPT !.addons = "InProgress"]
    OBVIOUS
  <2>3. x \in StatusType /\ x.phase = Old.phase
    BY <2>2, OldIs, StatusIs DEF States, ComponentStatus
  <2> QED BY <1>2, <1>3, <2>1, <2>2, <2>3
<1>6. CASE InitiateNodeGroup
  <2>1. PICK n, e : /\ n = ActiveNodeGroup(Old) /\ n # None /\ e = [st |-> "InProgress", id |-> Old.planned]
                    /\ Save([Old EXCEPT !.ng[n] = e]) \/ SaveFails
    BY <1>6 DEF InitiateNodeGroup
  <2>2. n \in DOMAIN Old.ng /\ e \in GroupState
    BY <2>1, ActiveIs, OldIs DEF GroupState, ComponentStatus
  <2>3. PICK g : g = [Old.ng EXCEPT ![n] = e]
    OBVIOUS
  <2>4. g \in GroupMaps
    BY <2>2, <2>3, OldIs, GroupsAre
  <2>5. PICK x : x = [Old EXCEPT !.ng = g]
    OBVIOUS
  <2>6. x \in StatusType /\ x.phase = Old.phase /\ x = [Old EXCEPT !.ng[n] = e]
    BY <2>3, <2>4, <2>5, OldIs, StatusIs
  <2> QED BY <1>2, <1>3, <2>1, <2>6
<1> QED BY <1>4, <1>5, <1>6

\* A reconcile that reports Completed does so when every component has arrived,
\* but for what plans left out.
LEMMA CompletedArrived ==
    ASSUME Typed, Core, Step, NEW m, m = status', NEW K, K = omitted',
           status.phase # "Completed", m.phase = "Completed", ~seen.spec.dry
    PROVE  Arrived(m, K) /\ (InRun \/ BeforeRun)
<1>1. ASSUME InRun, Still, NEW x, Saves(x) PROVE Arrived(m, K)
  <2> USE <1>1, InRunIs
  <2>1. /\ Writable(x) /\ x \in StatusType /\ m = MergePatch(Noted(x))
        /\ (Proceeds(x) \/ x.phase = "Failed")
    BY DEF Saves, KeepsPlan, Writable
  <2>2. x.phase = "Completed"
    BY <2>1, PatchPhase
  <2>3. Arrived(x, omitted)
    BY <2>1, <2>2 DEF Proceeds, UnderwayPhases, Terminal
  <2>4. Mirrors(x, m)
    BY <2>1, MergeMirrors DEF Saves, KeepsPlan
  <2>5. omitted \subseteq K
    BY DEF Still
  <2> QED BY <2>3, <2>4, <2>5 DEF Arrived, Mirrors
<1>2. ASSUME BeforeRun, NEW x, CalmSaves(x) PROVE Arrived(m, K)
  <2> USE <1>2, BeforeRunIs
  <2>1. /\ Writable(x) /\ x \in StatusType /\ m = MergePatch(Noted(x)) /\ omitted \subseteq K
        /\ (x.phase = "Completed" => spec.dry \/ (Arrived(x, K) /\ ExactBut(x, K)))
    BY DEF CalmSaves, Proposes, Writable, Still
  <2>2. Arrived(x, K) /\ ExactBut(x, K)
    BY <2>1, PatchPhase
  <2>3. ExactBut(m, K)
    BY <2>1, <2>2, CalmMerge
  <2>4. m.addons \in {None, "Pending"} /\ \A n \in DOMAIN m.ng : m.ng[n].st = "Pending"
    BY <2>3 DEF ExactBut, Waiting
  <2> QED BY <2>2, <2>4 DEF Arrived
<1>3. CASE StartPending \/ Plan \/ IncompletePlan \/ Preflight
  BY <1>2, <1>3, ReconcilesWhen, BeforeRunSaves
<1>4. CASE InitiateControlPlane \/ (Addons /\ Old.addons = "Pending") \/ InitiateNodeGroup
  BY <1>4, ReconcilesWhen, StartPhase
<1>5. CASE Addons /\ Old.addons # "Pending"
  <2>1. Quiet
    BY <1>5 DEF Addons
  <2> QED BY <1>1, <1>5, <2>1, ReconcilesWhen, RunSaves
<1>6. CASE \/ PollControlPlane \/ ControlPlaneTimeout
           \/ NodeGroupsDone \/ PollNodeGroup \/ NodeGroupTimeout
           \/ KarpenterDone \/ StartNextBatch \/ AdvanceBatch \/ UpdateRefused
  BY <1>1, <1>6, ReconcilesWhen, RunSaves
<1>7. CASE TransientError \/ PermanentError
  <2>1. TransientError \/ SaveError("Failed")
    BY <1>7, PermanentErrorIs
  <2>2. CASE InRun
    BY <1>1, <2>1, <2>2, RunSaves
  <2>3. CASE BeforeRun
    BY <1>2, <2>1, <2>3, BeforeRunSaves
  <2> QED BY <1>7, <2>2, <2>3, ReconcilesWhen
<1>8. ~Reset
  <2> SUFFICES ASSUME Reset PROVE FALSE
    OBVIOUS
  <2> QED BY ResetIs
<1>9. ~(Edit \/ Watch \/ Restart \/ Reprovision \/ \E r \in Resources : UpdateEnds(r))
  BY DEF Edit, Watch, Restart, Deliver, Reprovision, UpdateEnds
<1> QED BY <1>3, <1>4, <1>5, <1>6, <1>7, <1>8, <1>9 DEF Step, Progress

\* A reconcile reports Completed only when the control plane, the node groups,
\* and in a forward run the add-ons and the Karpenter pool, are where the cached
\* spec wants them, but for a component that a plan left out and for which the
\* run asked no update: what merge patches leave behind never stands for one.
THEOREM CompletedIsUpgraded == UpgradeSpec => CompletedMeansUpgraded
<1>1. ASSUME UpgradeInv, [UpgradeNext]_upgradeVars, Completes, ~abandoned
      PROVE  /\ cluster.cp = seen.spec.target
             /\ \A n \in NodeGroups : cluster.ng[n] = seen.spec.target \/ Overlooked(n)
             /\ Mode = "Forward" => cluster.addons = seen.spec.target \/ Overlooked("addons")
             /\ Mode = "Forward" /\ seen.spec.karp => cluster.kn.version >= seen.spec.target
  <2>1. Typed /\ Core /\ Step
    BY <1>1 DEF UpgradeInv, UpgradeNext, upgradeVars, Completes
  <2>2. PICK m, K : m = status' /\ K = omitted'
    OBVIOUS
  <2>3. Arrived(m, K) /\ (InRun \/ BeforeRun)
    BY <1>1, <2>1, <2>2, CompletedArrived DEF Completes
  <2>4. Mode = spec.mode /\ seen.spec.target = spec.target /\ seen.spec.karp = spec.karp
    BY <2>3, InRunIs, BeforeRunIs
  <2>5. \A n \in NodeGroups : n # "addons"
    BY NamesDiffer
  <2> QED BY <2>2, <2>3, <2>4, <2>5 DEF Arrived, Overlooked
<1>2. UpgradeInv /\ [UpgradeNext]_upgradeVars =>
        [Completes /\ ~abandoned
         => /\ cluster.cp = seen.spec.target
            /\ \A n \in NodeGroups : cluster.ng[n] = seen.spec.target \/ Overlooked(n)
            /\ Mode = "Forward" => cluster.addons = seen.spec.target \/ Overlooked("addons")
            /\ Mode = "Forward" /\ seen.spec.karp => cluster.kn.version >= seen.spec.target]_upgradeVars
  BY <1>1
<1> QED BY <1>2, UpgradeInvariant, PTL DEF UpgradeSpec, CompletedMeansUpgraded

\* Only one reconcile begins an update of the control plane.
LEMMA OnlyInitiateStarts ==
    ASSUME Typed, Step, updating["cp"] = None, updating'["cp"] # None
    PROVE  InitiateControlPlane
<1>0. "cp" \in Resources /\ "addons" \in Resources /\ "cp" \notin NodeGroups
      /\ updating \in [Resources -> VersionOrNone]
  BY NamesDiffer DEF Resources, Typed
<1> SUFFICES ASSUME ~InitiateControlPlane PROVE FALSE
  OBVIOUS
<1>1. CASE Quiet \/ updating' = updating
  BY <1>1 DEF Quiet
<1>2. CASE StartPending \/ Preflight \/ Reset \/ PollControlPlane \/ ControlPlaneTimeout \/ NodeGroupsDone
           \/ PollNodeGroup \/ NodeGroupTimeout \/ KarpenterDone \/ AdvanceBatch
  BY <1>1, <1>2 DEF StartPending, Preflight, Reset, PollControlPlane, ControlPlaneTimeout, NodeGroupsDone,
                    PollNodeGroup, NodeGroupTimeout, KarpenterDone, AdvanceBatch
<1>3. CASE Plan \/ IncompletePlan \/ StartNextBatch \/ UpdateRefused \/ TransientError \/ PermanentError
  BY <1>1, <1>3 DEF Plan, IncompletePlan, StartNextBatch, UpdateRefused, TransientError, PermanentError,
                    SaveError
<1>4. CASE Edit \/ Watch \/ Restart \/ Reprovision
  BY <1>1, <1>4 DEF Edit, Watch, Restart, Deliver, Reprovision
<1>5. CASE \E r \in Resources : UpdateEnds(r)
  BY <1>0, <1>5 DEF UpdateEnds
<1>6. ASSUME NEW r, r # "cp", NEW v, StartUpdate(r, v) PROVE FALSE
  BY <1>0, <1>6 DEF StartUpdate
<1>7. CASE Addons
  BY <1>1, <1>6, <1>7 DEF Addons
<1>8. CASE InitiateNodeGroup
  <2>1. PICK n : n = ActiveNodeGroup(Old) /\ n # None /\ StartUpdate(n, Old.planned)
    BY <1>8 DEF InitiateNodeGroup
  <2>2. n # "cp"
    BY <1>0, <2>1, ActiveIs
  <2> QED BY <1>6, <2>1, <2>2
<1> QED BY <1>2, <1>3, <1>4, <1>5, <1>7, <1>8 DEF Step, Progress

\* is_consecutive_rollback holds across resets: no update that takes the control
\* plane down begins after one that did, unless a forward run has completed since.
THEOREM NoRollbackAfterRollback == UpgradeSpec => NoSecondRollback
<1>1. ASSUME UpgradeInv, [UpgradeNext]_upgradeVars, StartsRollback, ~abandoned
      PROVE  moved.dir # "down" \/ moved.since
  <2>0. SUFFICES ASSUME moved.dir = "down", ~moved.since PROVE FALSE
    OBVIOUS
  <2>1. Typed /\ Core /\ Step /\ updating["cp"] = None /\ updating'["cp"] # None
        /\ updating'["cp"] < cluster.cp
    BY <1>1 DEF UpgradeInv, UpgradeNext, upgradeVars, StartsRollback
  <2>2. InitiateControlPlane
    BY <2>1, OnlyInitiateStarts
  <2>3. InRun
    BY <2>1, <2>2, ReconcilesWhen
  <2> USE <2>3, InRunIs
  <2>4. PICK v : /\ v = Old.path[Old.step] /\ cluster.cp # v /\ StartUpdate("cp", v)
                 /\ Old.step \in 1..Len(Old.path)
    BY <2>2 DEF InitiateControlPlane
  <2>5. updating'["cp"] = v
    BY <2>4 DEF StartUpdate, Typed, Resources
  <2>6. v \in Nat /\ cluster.cp \in Nat /\ spec.target \in Nat /\ v < cluster.cp
    BY <2>1, <2>4, <2>5, OldIs, PathIs, Bounds DEF Versions, Typed, ClusterType
  <2>7. PathPart(Old) /\ CpPart(Old) /\ ~spec.dry
    BY DEF Underway
  <2>8. spec.mode = "Rollback"
    <3> SUFFICES ASSUME spec.mode = "Forward" PROVE FALSE
      BY DEF Modes
    <3>1. Old.step # 0 /\ Old.step # Len(Old.path) + 1
      BY <2>4, OldIs, PathIs, Bounds
    <3>2. cluster.cp = v - 1
      BY <2>4, <2>7, <3>1 DEF CpPart, Before
    <3> QED BY <2>6, <3>2
  <2>9. v = spec.target
    <3>1. Len(Old.path) <= 1 /\ Len(Old.path) \in Nat
      BY <2>7, <2>8, OldIs, PathIs, Bounds DEF PathPart
    <3>2. \A l \in Nat : \A k \in 1..l : l <= 1 => k = 1 /\ l = 1
      OBVIOUS
    <3>3. Old.step = 1 /\ Len(Old.path) = 1
      BY ONLY <2>4, <3>1, <3>2
    <3>4. v + 1 = spec.target + 1
      BY <2>4, <2>7, <3>3 DEF PathPart
    <3> QED BY <2>6, <3>4
  <2>10. Old.last = "Rollback" \/ AtTarget(Old)
    BY <2>0 DEF Guarded
  <2> QED BY <2>4, <2>7, <2>8, <2>9, <2>10 DEF AtTarget, LastPart
<1>2. UpgradeInv /\ [UpgradeNext]_upgradeVars =>
        [StartsRollback /\ ~abandoned => moved.dir # "down" \/ moved.since]_upgradeVars
  BY <1>1
<1> QED BY <1>2, UpgradeInvariant, PTL DEF UpgradeSpec, NoSecondRollback
=============================================================================
