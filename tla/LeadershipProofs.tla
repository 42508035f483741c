------------------------- MODULE LeadershipProofs ---------------------------
(* Proofs about what a pod does when it gains or loses leadership, for any  *)
(* number of pods, terms and failing requests, in both topologies.          *)
EXTENDS Leadership, TLAPS

-----------------------------------------------------------------------------
(* Jobs run on promoted data: the inductive invariant, in parts.  All of it  *)
(* is about one process, and about its tasks overlapping in any way.         *)

Starts(p) == {t \in tasks[p] : t.kind = "start"}
Stops(p) == {t \in tasks[p] : t.kind = "stop"}

\* The stop_leading tasks whose demotion has not begun, or is under way with
\* or without anyone waiting for it.
Demoting(p) == {t \in Stops(p) : t.at \in {"demote", "detached"}}

\* The start_leading tasks past their promotion.
Past(p) == {t \in Starts(p) : t.at \in {"apply", "label", "list", "peers"}}

\* Tasks and requests for the lock belong to turns that have begun; those of
\* a stop_leading, while the pod leads, to earlier turns, and they have asked
\* for the lock already.
OldTurns(p) ==
    /\ \A t \in tasks[p] : t.turn <= turn[p]
    /\ \A i \in DOMAIN queue[p] : queue[p][i][2] <= turn[p]
    /\ leading[p] => \A t \in Stops(p) : t.turn < turn[p] /\ t.at # "spawned"

\* Each turn has one demotion, and it keeps its place in the queue.
OneDemotion(p) ==
    /\ \A t, u \in Stops(p) :
          t.turn = u.turn /\ t.at # "label" /\ u.at # "label" => t = u
    /\ \A t \in Demoting(p) :
          \E i \in DOMAIN queue[p] : queue[p][i] = <<"stop", t.turn>>

\* The lock is fair: every demotion that is due comes before the promotion of
\* the current turn.
DemotionsFirst(p) ==
    leading[p] =>
        \A i, j \in DOMAIN queue[p] :
            queue[p][i][1] = "stop" /\ queue[p][j] = <<"start", turn[p]>> => i < j

\* Once the current turn has its promotion, nothing is left that could take
\* it back.  Jobs that are still in a pass belong to turns that have begun.
PromotionLasts(p) ==
    /\ \A n \in jobs[p] : n <= turn[p]
    /\ s3 /\ leading[p] /\ (turn[p] \in jobs[p] \/ \E t \in Past(p) : t.turn = turn[p]) =>
          sync[p].leader /\ Demoting(p) = {}

JobInv(p) == OldTurns(p) /\ OneDemotion(p) /\ DemotionsFirst(p) /\ PromotionLasts(p)

JobsInv == TypeOK /\ \A p \in Pods : JobInv(p)

-----------------------------------------------------------------------------
(* Routing: the inductive invariant.  Tasks of terms that are over may write *)
(* at any time; what they write is late, and a write in time undoes it.      *)

\* p leads under the counter the Lease has now.
Current(p) == leading[p] /\ term[p] = lease.transitions

\* The start_leading of the pod's latest turn, if it has not ended.
Latest(p) == {t \in Starts(p) : t.turn = turn[p]}

\* What a task may be about: it demotes others than itself, it refuses to lead
\* only after a failure, and on a shared volume it neither promotes nor labels.
Business(p) ==
    \A t \in tasks[p] :
        /\ p \notin t.peers
        /\ t.at = "refuse" => faults > 0
        /\ ~s3 => t.at \in {"spawned", "apply", "refuse"}

\* Nobody leads under a counter that was not reached, and one pod at most under
\* the current one.
Holding ==
    /\ \A p \in Pods : leading[p] => term[p] <= lease.transitions
    /\ \A p, q \in Pods : Current(p) /\ Current(q) => p = q

\* The labels, as far as the start_leading of the current term has got: its own
\* is set before it looks at the others, and the others that are set are on its
\* list, or were set by a late task.
Labels(p) ==
    s3 /\ faults = 0 /\ Current(p) =>
        /\ (\A t \in Latest(p) : t.at \in {"list", "peers"}) =>
              late[p] \/ label[p] = "leader"
        /\ \A q \in Pods \ {p} : label[q] = "leader" =>
              late[q] \/ \E t \in Latest(p) : t.at # "peers" \/ q \in t.peers

\* Readiness on a shared volume: of a leader that has started, and of no
\* process that has stopped.
Readiness(p) ==
    ~s3 /\ faults = 0 =>
        /\ leading[p] /\ Latest(p) = {} => ready[p] \/ late[p]
        /\ ready[p] /\ ~leading[p] =>
              late[p] \/ \E t \in Stops(p) : t.at = "spawned" /\ t.turn = turn[p]

RouteInv ==
    /\ JobsInv /\ Holding
    /\ \A p \in Pods : Business(p) /\ Labels(p) /\ Readiness(p)

-----------------------------------------------------------------------------
(* Tasks.                                                                    *)

\* The steps that only one kind of task takes.
LEMMA KindOfStep ==
    ASSUME NEW t \in Task
    PROVE  /\ t.kind \in {"start", "stop"} /\ t.turn \in Nat /\ t.fence \in Nat
           /\ t.peers \subseteq Pods
           /\ t.at \in {"token", "answer", "promote", "apply", "list", "peers", "refuse"}
                 => t.kind = "start"
           /\ t.at \in {"demote", "detached"} => t.kind = "stop"
           /\ t.kind = "start" => t.at \in StartSteps
           /\ t.kind = "stop" => t.at \in StopSteps
BY DEF Task, StartSteps, StopSteps

\* A task that moves on is the same task at another step.
LEMMA AtFacts ==
    ASSUME NEW t \in Task, NEW s
    PROVE  /\ At(t, s).kind = t.kind /\ At(t, s).turn = t.turn /\ At(t, s).at = s
           /\ At(t, s).fence = t.fence /\ At(t, s).peers = t.peers
           /\ t.kind = "start" /\ s \in StartSteps => At(t, s) \in Task
           /\ t.kind = "stop" /\ s \in StopSteps => At(t, s) \in Task
BY DEF Task, At

\* So is one that has read its token, or its list of peers.
LEMMA WithFence ==
    ASSUME NEW t \in Task, t.kind = "start", NEW n \in Nat
    PROVE  LET u == [At(t, "answer") EXCEPT !.fence = n] IN
           /\ u \in Task /\ u.kind = "start" /\ u.turn = t.turn
           /\ u.at = "answer" /\ u.peers = t.peers /\ u.fence = n
BY DEF Task, At, StartSteps

LEMMA WithPeers ==
    ASSUME NEW t \in Task, t.kind = "start", NEW P \in SUBSET Pods
    PROVE  LET u == [At(t, "peers") EXCEPT !.peers = P] IN
           /\ u \in Task /\ u.kind = "start" /\ u.turn = t.turn
           /\ u.at = "peers" /\ u.peers = P
BY DEF Task, At, StartSteps

LEMMA FewerPeers ==
    ASSUME NEW t \in Task, t.kind = "start", NEW q
    PROVE  LET u == [t EXCEPT !.peers = @ \ {q}] IN
           /\ u \in Task /\ u.kind = "start" /\ u.turn = t.turn
           /\ u.at = t.at /\ u.peers = t.peers \ {q}
BY DEF Task

LEMMA SpawnedFacts ==
    ASSUME NEW k \in {"start", "stop"}, NEW n \in Nat
    PROVE  /\ Spawned(k, n) \in Task /\ Spawned(k, n).kind = k
           /\ Spawned(k, n).turn = n /\ Spawned(k, n).at = "spawned"
           /\ Spawned(k, n).peers = {}
BY DEF Spawned, Task, StartSteps, StopSteps

-----------------------------------------------------------------------------
(* Types.                                                                    *)

\* Replacing a task by tasks keeps the type.
LEMMA ReplaceType ==
    ASSUME TypeOK, NEW p \in Pods, NEW t, NEW S \in SUBSET Task, Replace(p, t, S)
    PROVE  /\ tasks' \in [Pods -> SUBSET Task]
           /\ tasks'[p] = (tasks[p] \ {t}) \cup S
           /\ \A q \in Pods \ {p} : tasks'[q] = tasks[q]
BY DEF TypeOK, Replace

\* So does asking for the lock, and giving it back.
LEMMA EnqueueType ==
    ASSUME TypeOK, NEW p \in Pods, NEW t \in Task, Enqueue(p, t)
    PROVE  /\ queue' \in [Pods -> Seq({"start", "stop"} \X Nat)]
           /\ queue'[p] = Append(queue[p], <<t.kind, t.turn>>)
           /\ \A q \in Pods \ {p} : queue'[q] = queue[q]
<1>1. <<t.kind, t.turn>> \in {"start", "stop"} \X Nat
  BY KindOfStep
<1> QED BY <1>1 DEF TypeOK, Enqueue

LEMMA UnlockType ==
    ASSUME TypeOK, NEW p \in Pods, queue[p] # <<>>, Unlock(p)
    PROVE  /\ queue' \in [Pods -> Seq({"start", "stop"} \X Nat)]
           /\ queue'[p] = Tail(queue[p])
           /\ \A q \in Pods \ {p} : queue'[q] = queue[q]
BY DEF TypeOK, Unlock

\* A failed request is counted.
LEMMA FaultType == ASSUME faults \in Nat, Fault PROVE faults' \in Nat /\ faults' > 0
BY DEF Fault

\* Whether a term is over is true or false.
LEMMA OverType == ASSUME NEW p, NEW t PROVE Over(p, t) \in BOOLEAN
BY DEF Over

\* A role patch changes one label, or nothing and a request has failed.
LEMMA SetPodRoleType ==
    ASSUME TypeOK, NEW p, NEW t, NEW q \in Pods, NEW v \in {"leader", "standby"},
           SetPodRole(p, t, q, v)
    PROVE  /\ label' \in [Pods -> {"leader", "standby"}] /\ faults' \in Nat
           /\ late' \in [Pods -> BOOLEAN]
           /\ \A r \in Pods \ {q} : label'[r] = label[r] /\ late'[r] = late[r]
           /\ faults' = 0 => label'[q] = v /\ late'[q] = Over(p, t)
<1>1. /\ faults \in Nat /\ q \in Pods
      /\ label \in [Pods -> {"leader", "standby"}] /\ late \in [Pods -> BOOLEAN]
  BY DEF TypeOK
<1>2. ASSUME label' = [label EXCEPT ![q] = v], UNCHANGED faults,
             NEW b \in BOOLEAN, b = Over(p, t), late' = [late EXCEPT ![q] = b]
      PROVE  /\ label' \in [Pods -> {"leader", "standby"}] /\ faults' \in Nat
             /\ late' \in [Pods -> BOOLEAN]
             /\ \A r \in Pods \ {q} : label'[r] = label[r] /\ late'[r] = late[r]
             /\ label'[q] = v /\ late'[q] = b
  BY <1>1, <1>2
<1>3. CASE UNCHANGED routing /\ Fault
  BY <1>1, <1>3, FaultType DEF routing
<1> QED BY <1>2, <1>3, OverType DEF SetPodRole

\* So does a change of readiness.
LEMMA SetReadyType ==
    ASSUME TypeOK, NEW p \in Pods, NEW t, NEW v \in BOOLEAN, SetReady(p, t, v)
    PROVE  /\ ready' \in [Pods -> BOOLEAN] /\ late' \in [Pods -> BOOLEAN]
           /\ \A r \in Pods \ {p} : ready'[r] = ready[r] /\ late'[r] = late[r]
           /\ ready'[p] = v
           /\ ~s3 => late'[p] = Over(p, t)
           /\ s3 => UNCHANGED late
<1>1. ready \in [Pods -> BOOLEAN] /\ late \in [Pods -> BOOLEAN]
  BY DEF TypeOK
<1>2. ASSUME NEW b \in BOOLEAN, b = Over(p, t), late' = [late EXCEPT ![p] = b]
      PROVE  /\ late' \in [Pods -> BOOLEAN] /\ late'[p] = b
             /\ \A r \in Pods \ {p} : late'[r] = late[r]
  BY <1>1, <1>2
<1>3. ready' = [ready EXCEPT ![p] = v]
  BY DEF SetReady
<1>4. /\ ready' \in [Pods -> BOOLEAN] /\ ready'[p] = v
      /\ \A r \in Pods \ {p} : ready'[r] = ready[r]
  BY <1>1, <1>3
<1> QED BY <1>1, <1>2, <1>4, OverType DEF SetReady

\* What the step of a task leaves alone.
LEMMA TaskStepFrame ==
    ASSUME TypeOK, NEW p \in Pods, NEW t \in tasks[p], TaskStep(p, t)
    PROVE  /\ UNCHANGED <<s3, lease, leading, term, turn>>
           /\ \A q \in Pods \ {p} :
                 /\ tasks'[q] = tasks[q] /\ queue'[q] = queue[q]
                 /\ sync'[q] = sync[q] /\ ready'[q] = ready[q] /\ jobs'[q] = jobs[q]
<1> USE DEF outside, election, local, routing, Replace, TypeOK
<1>1. CASE StartBegin(p, t) \/ ReadToken(p, t)
  BY <1>1 DEF StartBegin, ReadToken
<1>2. CASE AskToPromote(p, t) \/ Promoted(p, t) \/ PromoteFails(p, t)
  BY <1>2 DEF AskToPromote, Promoted, PromoteFails, Enqueue, Unlock
<1>3. CASE Applied(p, t)
  <2>1. \A q \in Pods \ {p} : ready'[q] = ready[q]
    BY <1>3, SetReadyType DEF Applied
  <2> QED BY <1>3, <2>1 DEF Applied
<1>4. CASE ApplyFails(p, t) \/ RefuseToLead(p, t)
  BY <1>4 DEF ApplyFails, RefuseToLead
<1>5. CASE LabelLeader(p, t) \/ ListPeers(p, t)
  BY <1>5 DEF LabelLeader, ListPeers
<1>6. CASE DemotePeer(p, t) \/ SpawnJobs(p, t)
  BY <1>6 DEF DemotePeer, SpawnJobs
<1>7. CASE StopBegin(p, t)
  <2>1. \A q \in Pods \ {p} : ready'[q] = ready[q]
    BY <1>7, SetReadyType DEF StopBegin
  <2> QED BY <1>7, <2>1 DEF StopBegin, Enqueue
<1>8. CASE Demoted(p, t) \/ DemoteTimeout(p, t) \/ LabelStandby(p, t)
  BY <1>8 DEF Demoted, DemoteTimeout, LabelStandby, Unlock
<1> QED BY <1>1, <1>2, <1>3, <1>4, <1>5, <1>6, <1>7, <1>8 DEF TaskStep

LEMMA TypeTaskStep ==
    ASSUME TypeOK, NEW p \in Pods, NEW t \in tasks[p], TaskStep(p, t)
    PROVE  TypeOK'
<1>1. t \in Task
  BY DEF TypeOK
<1>2. /\ lease' \in [exists : BOOLEAN, holder : Pods \cup {NoPod}, transitions : Nat]
      /\ leading' \in [Pods -> BOOLEAN] /\ term' \in [Pods -> Nat]
      /\ turn' \in [Pods -> Nat] /\ s3' \in BOOLEAN
  BY TaskStepFrame DEF TypeOK
<1> USE DEF local, routing, StartSteps, StopSteps
<1>3. CASE StartBegin(p, t)
  <2>1. At(t, IF s3 THEN "token" ELSE "apply") \in Task
    BY <1>1, <1>3, AtFacts DEF StartBegin
  <2>2. tasks' \in [Pods -> SUBSET Task]
    BY <1>3, <2>1, ReplaceType DEF StartBegin
  <2> QED BY <1>2, <1>3, <2>2 DEF StartBegin, TypeOK
<1>4. CASE ReadToken(p, t)
  <2>1. t.kind = "start"
    BY <1>1, <1>4, KindOfStep DEF ReadToken
  <2>2. PICK n \in Nat : Replace(p, t, {[At(t, "answer") EXCEPT !.fence = n]})
    BY <1>4 DEF ReadToken, TypeOK
  <2>3. [At(t, "answer") EXCEPT !.fence = n] \in Task
    BY <1>1, <2>1, WithFence
  <2>4. tasks' \in [Pods -> SUBSET Task]
    BY <2>2, <2>3, ReplaceType
  <2>5. faults' \in Nat
    BY <1>4, FaultType DEF ReadToken, TypeOK
  <2> QED BY <1>2, <1>4, <2>4, <2>5 DEF ReadToken, TypeOK
<1>5. CASE AskToPromote(p, t)
  <2>1. At(t, "promote") \in Task
    BY <1>1, <1>5, KindOfStep, AtFacts DEF AskToPromote
  <2>2. tasks' \in [Pods -> SUBSET Task]
    BY <1>5, <2>1, ReplaceType DEF AskToPromote
  <2>3. queue' \in [Pods -> Seq({"start", "stop"} \X Nat)]
    BY <1>1, <1>5, EnqueueType DEF AskToPromote
  <2> QED BY <1>2, <1>5, <2>2, <2>3 DEF AskToPromote, TypeOK
<1>6. CASE Promoted(p, t) \/ PromoteFails(p, t)
  <2>1. At(t, "apply") \in Task /\ At(t, "refuse") \in Task /\ t.fence \in Nat
    BY <1>1, <1>6, KindOfStep, AtFacts DEF Promoted, PromoteFails
  <2>2. tasks' \in [Pods -> SUBSET Task]
    BY <1>6, <2>1, ReplaceType DEF Promoted, PromoteFails
  <2>3. queue' \in [Pods -> Seq({"start", "stop"} \X Nat)]
    BY <1>6, UnlockType DEF Promoted, PromoteFails, HoldsLock
  <2>4. sync' \in [Pods -> [leader : BOOLEAN, fence : Nat]]
    <3>1. CASE Promoted(p, t)
      BY <3>1, <2>1 DEF Promoted, TypeOK
    <3>2. CASE PromoteFails(p, t)
      BY <3>2, <2>1 DEF PromoteFails, TypeOK
    <3> QED BY <1>6, <3>1, <3>2
  <2>5. faults' \in Nat
    BY <1>6, FaultType DEF Promoted, PromoteFails, TypeOK
  <2> QED BY <1>2, <1>6, <2>2, <2>3, <2>4, <2>5 DEF Promoted, PromoteFails, TypeOK
<1>7. CASE Applied(p, t)
  <2>1. At(t, "label") \in Task /\ t.turn \in Nat
    BY <1>1, <1>7, KindOfStep, AtFacts DEF Applied
  <2>2. tasks' \in [Pods -> SUBSET Task]
    <3>1. Replace(p, t, {At(t, "label")}) \/ Replace(p, t, {})
      BY <1>7 DEF Applied
    <3> QED BY <3>1, <2>1, ReplaceType
  <2>3. jobs' \in [Pods -> SUBSET Nat]
    <3>1. UNCHANGED jobs \/ \E J \in SUBSET Nat : jobs' = [jobs EXCEPT ![p] = J]
      BY <1>7, <2>1 DEF Applied, TypeOK
    <3> QED BY <3>1 DEF TypeOK
  <2>4. ready' \in [Pods -> BOOLEAN] /\ late' \in [Pods -> BOOLEAN]
    BY <1>7, SetReadyType DEF Applied
  <2> QED BY <1>2, <1>7, <2>2, <2>3, <2>4 DEF Applied, TypeOK
<1>8. CASE ApplyFails(p, t)
  <2>1. At(t, "refuse") \in Task
    BY <1>1, <1>8, KindOfStep, AtFacts DEF ApplyFails
  <2>2. tasks' \in [Pods -> SUBSET Task]
    BY <1>8, <2>1, ReplaceType DEF ApplyFails
  <2>3. faults' \in Nat
    BY <1>8, FaultType DEF ApplyFails, TypeOK
  <2> QED BY <1>2, <1>8, <2>2, <2>3 DEF ApplyFails, TypeOK
<1>9. CASE RefuseToLead(p, t)
  <2>1. tasks' \in [Pods -> SUBSET Task]
    BY <1>9, ReplaceType DEF RefuseToLead
  <2>2. label' \in [Pods -> {"leader", "standby"}] /\ faults' \in Nat /\ late' \in [Pods -> BOOLEAN]
    <3>1. SetPodRole(p, t, p, "standby") \/ UNCHANGED <<label, late, faults>>
      BY <1>9 DEF RefuseToLead
    <3> QED BY <3>1, SetPodRoleType DEF TypeOK
  <2> QED BY <1>2, <1>9, <2>1, <2>2 DEF RefuseToLead, TypeOK
<1>10. CASE LabelLeader(p, t)
  <2>1. At(t, "list") \in Task
    BY <1>1, <1>10, AtFacts DEF LabelLeader
  <2>2. tasks' \in [Pods -> SUBSET Task]
    BY <1>10, <2>1, ReplaceType DEF LabelLeader
  <2>3. label' \in [Pods -> {"leader", "standby"}] /\ faults' \in Nat /\ late' \in [Pods -> BOOLEAN]
    BY <1>10, SetPodRoleType DEF LabelLeader
  <2> QED BY <1>2, <1>10, <2>2, <2>3 DEF LabelLeader, TypeOK
<1>11. CASE ListPeers(p, t)
  <2>1. t.kind = "start"
    BY <1>1, <1>11, KindOfStep DEF ListPeers
  <2>2. PICK u \in Task : Replace(p, t, {u})
    <3>1. /\ [At(t, "peers") EXCEPT !.peers =
                {q \in Pods \ {p} : label[q] = "leader"}] \in Task
          /\ At(t, "peers") \in Task
      BY <1>1, <2>1, WithPeers, AtFacts
    <3> QED BY <1>11, <3>1 DEF ListPeers
  <2>3. tasks' \in [Pods -> SUBSET Task]
    BY <2>2, ReplaceType
  <2>4. faults' \in Nat
    BY <1>11, FaultType DEF ListPeers, TypeOK
  <2> QED BY <1>2, <1>11, <2>3, <2>4 DEF ListPeers, TypeOK
<1>12. CASE DemotePeer(p, t)
  <2>1. t.kind = "start" /\ t.peers \subseteq Pods
    BY <1>1, <1>12, KindOfStep DEF DemotePeer
  <2>2. PICK q \in Pods : /\ SetPodRole(p, t, q, "standby")
                          /\ Replace(p, t, {[t EXCEPT !.peers = @ \ {q}]})
    BY <1>12, <2>1 DEF DemotePeer
  <2>3. [t EXCEPT !.peers = @ \ {q}] \in Task
    BY <1>1, <2>1, FewerPeers
  <2>4. tasks' \in [Pods -> SUBSET Task]
    BY <2>2, <2>3, ReplaceType
  <2>5. label' \in [Pods -> {"leader", "standby"}] /\ faults' \in Nat /\ late' \in [Pods -> BOOLEAN]
    BY <2>2, SetPodRoleType
  <2> QED BY <1>2, <1>12, <2>4, <2>5 DEF DemotePeer, TypeOK
<1>13. CASE SpawnJobs(p, t)
  <2>1. tasks' \in [Pods -> SUBSET Task]
    BY <1>13, ReplaceType DEF SpawnJobs
  <2>2. jobs' \in [Pods -> SUBSET Nat]
    BY <1>1, <1>13, KindOfStep DEF SpawnJobs, TypeOK
  <2> QED BY <1>2, <1>13, <2>1, <2>2 DEF SpawnJobs, TypeOK
<1>14. CASE StopBegin(p, t)
  <2>1. At(t, "demote") \in Task
    BY <1>1, <1>14, AtFacts DEF StopBegin
  <2>2. tasks' \in [Pods -> SUBSET Task]
    <3>1. Replace(p, t, {At(t, "demote")}) \/ Replace(p, t, {})
      BY <1>14 DEF StopBegin
    <3> QED BY <3>1, <2>1, ReplaceType
  <2>3. queue' \in [Pods -> Seq({"start", "stop"} \X Nat)]
    <3>1. Enqueue(p, t) \/ UNCHANGED queue
      BY <1>14 DEF StopBegin
    <3> QED BY <1>1, <3>1, EnqueueType DEF TypeOK
  <2>4. ready' \in [Pods -> BOOLEAN] /\ late' \in [Pods -> BOOLEAN]
    BY <1>14, SetReadyType DEF StopBegin, TypeOK
  <2> QED BY <1>2, <1>14, <2>2, <2>3, <2>4 DEF StopBegin, TypeOK
<1>15. CASE Demoted(p, t)
  <2>1. At(t, "label") \in Task
    BY <1>1, <1>15, KindOfStep, AtFacts DEF Demoted
  <2>2. tasks' \in [Pods -> SUBSET Task]
    BY <1>15, <2>1, ReplaceType DEF Demoted
  <2>3. queue' \in [Pods -> Seq({"start", "stop"} \X Nat)]
    BY <1>15, UnlockType DEF Demoted, HoldsLock
  <2>4. sync' \in [Pods -> [leader : BOOLEAN, fence : Nat]]
    BY <1>15 DEF Demoted, TypeOK
  <2> QED BY <1>2, <1>15, <2>2, <2>3, <2>4 DEF Demoted, TypeOK
<1>16. CASE DemoteTimeout(p, t)
  <2>1. At(t, "label") \in Task /\ At(t, "detached") \in Task
    BY <1>1, <1>16, KindOfStep, AtFacts DEF DemoteTimeout
  <2>2. tasks' \in [Pods -> SUBSET Task]
    BY <1>16, <2>1, ReplaceType DEF DemoteTimeout
  <2> QED BY <1>2, <1>16, <2>2 DEF DemoteTimeout, TypeOK
<1>17. CASE LabelStandby(p, t)
  <2>1. tasks' \in [Pods -> SUBSET Task]
    BY <1>17, ReplaceType DEF LabelStandby
  <2>2. label' \in [Pods -> {"leader", "standby"}] /\ faults' \in Nat /\ late' \in [Pods -> BOOLEAN]
    BY <1>17, SetPodRoleType DEF LabelStandby
  <2> QED BY <1>2, <1>17, <2>1, <2>2 DEF LabelStandby, TypeOK
<1> QED
  BY <1>3, <1>4, <1>5, <1>6, <1>7, <1>8, <1>9, <1>10, <1>11, <1>12, <1>13, <1>14,
     <1>15, <1>16, <1>17 DEF TaskStep

\* The steps of the election, of the callbacks and of the process.
LEMMA TypeStep == TypeOK /\ [Next]_vars => TypeOK'
<1> SUFFICES ASSUME TypeOK, [Next]_vars PROVE TypeOK'
  OBVIOUS
<1> USE DEF local, routing, TypeOK
<1>1. ASSUME NEW p \in Pods, GrantLease(p) PROVE TypeOK'
  <2>1. lease' \in [exists : BOOLEAN, holder : Pods \cup {NoPod}, transitions : Nat]
    BY <1>1 DEF GrantLease, Election!Grant
  <2> QED BY <1>1, <2>1 DEF GrantLease, Election!Grant
<1>2. CASE VacateLease
  <2>1. lease' \in [exists : BOOLEAN, holder : Pods \cup {NoPod}, transitions : Nat]
    BY <1>2 DEF VacateLease, Election!Vacate
  <2> QED BY <1>2, <2>1 DEF VacateLease, Election!Vacate
<1>3. ASSUME NEW p \in Pods, OnStarted(p) PROVE TypeOK'
  <2>1. turn' \in [Pods -> Nat] /\ turn'[p] \in Nat
    BY <1>3 DEF OnStarted
  <2>2. tasks' \in [Pods -> SUBSET Task]
    BY <1>3, <2>1, SpawnedFacts DEF OnStarted
  <2>3. UNCHANGED lease /\ leading' \in [Pods -> BOOLEAN]
    BY <1>3 DEF OnStarted, Election!Start
  <2>4. term' \in [Pods -> Nat]
    <3>1. PICK n \in 0 .. lease.transitions : term' = [term EXCEPT ![p] = n]
      BY <1>3 DEF OnStarted, Election!Start
    <3> QED BY <3>1
  <2> QED BY <1>3, <2>1, <2>2, <2>3, <2>4 DEF OnStarted
<1>4. ASSUME NEW p \in Pods, OnStopped(p) PROVE TypeOK'
  <2>1. tasks' \in [Pods -> SUBSET Task]
    BY <1>4, SpawnedFacts DEF OnStopped
  <2>2. UNCHANGED lease /\ leading' \in [Pods -> BOOLEAN] /\ term' \in [Pods -> Nat]
    BY <1>4 DEF OnStopped, Election!Stop
  <2> QED BY <1>4, <2>1, <2>2 DEF OnStopped
<1>5. ASSUME NEW p \in Pods, Crash(p) PROVE TypeOK'
  <2>1. tasks' \in [Pods -> SUBSET Task]
        /\ queue' \in [Pods -> Seq({"start", "stop"} \X Nat)]
    BY <1>5 DEF Crash
  <2>2. sync' \in [Pods -> [leader : BOOLEAN, fence : Nat]]
    BY <1>5 DEF Crash
  <2>3. label' \in [Pods -> {"leader", "standby"}]
    BY <1>5 DEF Crash
  <2>4. late' \in [Pods -> BOOLEAN]
    <3>1. \E b \in BOOLEAN : late' = [late EXCEPT ![p] = b]
      BY <1>5 DEF Crash
    <3> QED BY <3>1
  <2> QED BY <1>5, <2>1, <2>2, <2>3, <2>4 DEF Crash
<1>6. ASSUME NEW p \in Pods, Working(p) PROVE TypeOK'
  BY <1>6, TypeTaskStep DEF Working
<1>7. ASSUME NEW p \in Pods, JobsReturn(p) PROVE TypeOK'
  <2>1. jobs' \in [Pods -> SUBSET Nat]
    BY <1>7 DEF JobsReturn
  <2> QED BY <1>7, <2>1 DEF JobsReturn, outside, election
<1>8. CASE UNCHANGED vars
  BY <1>8 DEF vars, outside, election
<1> QED BY <1>1, <1>2, <1>3, <1>4, <1>5, <1>6, <1>7, <1>8 DEF Next

-----------------------------------------------------------------------------
(* Jobs run on promoted data.                                                *)

\* The parts of the state that the invariant of a process speaks of.
LEMMA JobFrame ==
    ASSUME NEW q \in Pods, JobInv(q), UNCHANGED s3,
           leading'[q] = leading[q], turn'[q] = turn[q], tasks'[q] = tasks[q],
           queue'[q] = queue[q], sync'[q].leader = sync[q].leader, jobs'[q] = jobs[q]
    PROVE  JobInv(q)'
BY DEF JobInv, OldTurns, OneDemotion, DemotionsFirst, PromotionLasts, Starts, Stops,
       Demoting, Past

\* A start_leading that moves on, ends, or spawns the jobs of its turn, apart
\* from its promotion.
LEMMA StartMoves ==
    ASSUME TypeOK, NEW p \in Pods, JobInv(p), NEW t \in Starts(p), NEW S \in SUBSET Task,
           tasks'[p] = (tasks[p] \ {t}) \cup S,
           \A u \in S : /\ u.kind = "start" /\ u.turn = t.turn
                        /\ s3 /\ u.at \in {"apply", "label", "list", "peers"} => t \in Past(p),
           UNCHANGED s3, leading'[p] = leading[p], turn'[p] = turn[p],
           queue'[p] = queue[p], sync'[p].leader = sync[p].leader,
           \/ jobs'[p] = jobs[p]
           \/ /\ leading[p] /\ t.turn = turn[p] /\ jobs'[p] = jobs[p] \cup {t.turn}
              /\ s3 => t \in Past(p)
    PROVE  JobInv(p)'
<1>1. /\ Stops(p)' = Stops(p) /\ Demoting(p)' = Demoting(p)
      /\ \A u \in tasks'[p] : \E v \in tasks[p] : u.turn = v.turn
      /\ s3 => \A u \in Past(p)' : \E v \in Past(p) : v.turn = u.turn
  BY DEF Stops, Demoting, Starts, Past
<1>2. OldTurns(p)'
  BY <1>1 DEF JobInv, OldTurns
<1>3. OneDemotion(p)' /\ DemotionsFirst(p)'
  BY <1>1 DEF JobInv, OneDemotion, DemotionsFirst
<1>4. PromotionLasts(p)'
  <2>1. /\ turn[p] \in Nat /\ \A n \in jobs[p] : n <= turn[p]
        /\ \A n \in jobs'[p] : n \in jobs[p] \/ (n = turn[p] /\ leading[p])
    BY DEF JobInv, PromotionLasts, TypeOK
  <2>2. \A n \in jobs'[p] : n <= turn'[p]
    BY <2>1
  <2>3. ASSUME s3', leading'[p],
               turn'[p] \in jobs'[p] \/ \E u \in Past(p)' : u.turn = turn'[p]
        PROVE  sync'[p].leader /\ Demoting(p)' = {}
    <3>1. turn[p] \in jobs[p] \/ \E v \in Past(p) : v.turn = turn[p]
      BY <1>1, <2>3
    <3> QED BY <1>1, <2>3, <3>1 DEF JobInv, PromotionLasts
  <2> QED BY <2>2, <2>3 DEF PromotionLasts
<1> QED BY <1>2, <1>3, <1>4 DEF JobInv

\* Places in the queue: the last one is new, or the first one is gone.
LEMMA AppendPlaces ==
    ASSUME NEW T, NEW s \in Seq(T), NEW e \in T, NEW i \in DOMAIN Append(s, e)
    PROVE  \/ i \in DOMAIN s /\ Append(s, e)[i] = s[i]
           \/ i = Len(s) + 1 /\ Append(s, e)[i] = e
OBVIOUS

LEMMA AppendKeeps ==
    ASSUME NEW T, NEW s \in Seq(T), NEW e \in T, NEW i \in DOMAIN s
    PROVE  /\ i \in DOMAIN Append(s, e) /\ Append(s, e)[i] = s[i]
           /\ i < Len(s) + 1 /\ i \in Nat
           /\ Len(s) + 1 \in DOMAIN Append(s, e) /\ Append(s, e)[Len(s) + 1] = e
OBVIOUS

LEMMA TailPlaces ==
    ASSUME NEW T, NEW s \in Seq(T), s # <<>>, NEW i \in DOMAIN Tail(s)
    PROVE  i \in Nat /\ i + 1 \in DOMAIN s /\ Tail(s)[i] = s[i + 1]
OBVIOUS

LEMMA TailKeeps ==
    ASSUME NEW T, NEW s \in Seq(T), s # <<>>, NEW i \in DOMAIN s
    PROVE  /\ i = 1 => s[i] = Head(s)
           /\ i # 1 => i - 1 \in DOMAIN Tail(s) /\ Tail(s)[i - 1] = s[i]
OBVIOUS

\* The promotion takes its place behind every demotion that is due.
LEMMA AskStep ==
    ASSUME TypeOK, NEW p \in Pods, JobInv(p), NEW t \in tasks[p], AskToPromote(p, t)
    PROVE  JobInv(p)'
<1> DEFINE Q == queue[p]
           E == <<t.kind, t.turn>>
<1>1. t \in Task /\ t.kind = "start" /\ t.at = "answer" /\ t.turn \in Nat
  BY KindOfStep DEF TypeOK, AskToPromote
<1>2. /\ Q \in Seq({"start", "stop"} \X Nat) /\ E \in {"start", "stop"} \X Nat
      /\ queue'[p] = Append(Q, E)
  BY <1>1, EnqueueType DEF TypeOK, AskToPromote
<1>3. tasks'[p] = (tasks[p] \ {t}) \cup {At(t, "promote")}
      /\ At(t, "promote").kind = "start" /\ At(t, "promote").turn = t.turn
      /\ At(t, "promote").at = "promote"
  BY <1>1, AtFacts, ReplaceType DEF AskToPromote, StartSteps
<1>4. /\ UNCHANGED s3 /\ leading'[p] = leading[p] /\ turn'[p] = turn[p]
      /\ sync'[p] = sync[p] /\ jobs'[p] = jobs[p] /\ turn[p] \in Nat
  BY DEF AskToPromote, outside, election, local, TypeOK
<1>5. /\ Stops(p)' = Stops(p) /\ Demoting(p)' = Demoting(p) /\ Past(p)' = Past(p)
      /\ \A u \in tasks'[p] : \E v \in tasks[p] : u.turn = v.turn
  BY <1>1, <1>3 DEF Stops, Demoting, Starts, Past
<1>6. OldTurns(p)'
  <2>1. \A i \in DOMAIN queue'[p] : queue'[p][i][2] <= turn[p]
    BY <1>1, <1>2, AppendPlaces DEF JobInv, OldTurns
  <2> QED BY <1>4, <1>5, <2>1 DEF JobInv, OldTurns
<1>7. OneDemotion(p)'
  <2>1. ASSUME NEW u \in Demoting(p)
        PROVE  \E i \in DOMAIN queue'[p] : queue'[p][i] = <<"stop", u.turn>>
    <3>1. PICK i \in DOMAIN Q : Q[i] = <<"stop", u.turn>>
      BY DEF JobInv, OneDemotion
    <3>2. i \in DOMAIN Append(Q, E) /\ Append(Q, E)[i] = Q[i]
      BY <1>2, AppendKeeps
    <3> QED BY <1>2, <3>1, <3>2
  <2> QED BY <1>5, <2>1 DEF JobInv, OneDemotion
<1>8. DemotionsFirst(p)'
  <2> SUFFICES ASSUME leading[p], NEW i \in DOMAIN queue'[p], NEW j \in DOMAIN queue'[p],
                      queue'[p][i][1] = "stop", queue'[p][j] = <<"start", turn[p]>>
               PROVE  i < j
    BY <1>4 DEF DemotionsFirst
  <2>1. i \in DOMAIN Q /\ Q[i][1] = "stop"
    BY <1>1, <1>2, AppendPlaces
  <2>2. i \in Nat /\ i < Len(Q) + 1
    BY <1>2, <2>1, AppendKeeps
  <2>3. CASE j \in DOMAIN Q /\ Append(Q, E)[j] = Q[j]
    BY <1>2, <2>1, <2>3 DEF JobInv, DemotionsFirst
  <2>4. CASE j = Len(Q) + 1
    BY <2>2, <2>4
  <2> QED BY <1>2, <2>3, <2>4, AppendPlaces
<1>9. PromotionLasts(p)'
  BY <1>4, <1>5 DEF JobInv, PromotionLasts
<1> QED BY <1>6, <1>7, <1>8, <1>9 DEF JobInv

\* What giving the lock back leaves in the queue.
LEMMA UnlockStep ==
    ASSUME TypeOK, NEW p \in Pods, JobInv(p), queue[p] # <<>>, Unlock(p),
           leading'[p] = leading[p], turn'[p] = turn[p]
    PROVE  /\ \A i \in DOMAIN queue'[p] : queue'[p][i][2] <= turn[p]
           /\ \A k \in {"start", "stop"}, n \in Nat :
                 /\ \E i \in DOMAIN queue[p] : queue[p][i] = <<k, n>>
                 /\ <<k, n>> # Head(queue[p])
                 => \E i \in DOMAIN queue'[p] : queue'[p][i] = <<k, n>>
           /\ DemotionsFirst(p)'
<1> DEFINE Q == queue[p]
<1>1. Q \in Seq({"start", "stop"} \X Nat) /\ queue'[p] = Tail(Q)
  BY UnlockType DEF TypeOK
<1>2. \A i \in DOMAIN queue'[p] : queue'[p][i][2] <= turn[p]
  BY <1>1, TailPlaces DEF JobInv, OldTurns
<1>3. ASSUME NEW k \in {"start", "stop"}, NEW n \in Nat,
             NEW i \in DOMAIN Q, Q[i] = <<k, n>>, <<k, n>> # Head(Q)
      PROVE  \E h \in DOMAIN queue'[p] : queue'[p][h] = <<k, n>>
  BY <1>1, <1>3, TailKeeps
<1>4. DemotionsFirst(p)'
  <2> SUFFICES ASSUME leading[p], NEW i \in DOMAIN queue'[p], NEW j \in DOMAIN queue'[p],
                      queue'[p][i][1] = "stop", queue'[p][j] = <<"start", turn[p]>>
               PROVE  i < j
    BY DEF DemotionsFirst
  <2>1. /\ i \in Nat /\ i + 1 \in DOMAIN Q /\ Q[i + 1][1] = "stop"
        /\ j \in Nat /\ j + 1 \in DOMAIN Q /\ Q[j + 1] = <<"start", turn[p]>>
    BY <1>1, TailPlaces
  <2>2. i + 1 < j + 1
    BY <2>1 DEF JobInv, DemotionsFirst
  <2> QED BY <2>1, <2>2
<1> QED BY <1>2, <1>3, <1>4

\* When the promotion of the current turn gets the lock, no demotion is left.
LEMMA PromoteStep ==
    ASSUME TypeOK, NEW p \in Pods, JobInv(p), NEW t \in tasks[p],
           Promoted(p, t) \/ PromoteFails(p, t)
    PROVE  JobInv(p)'
<1>1. t \in Task /\ t.kind = "start" /\ t.at = "promote" /\ t.turn \in Nat
  BY KindOfStep DEF TypeOK, Promoted, PromoteFails
<1>2. /\ queue[p] \in Seq({"start", "stop"} \X Nat)
      /\ queue[p] # <<>> /\ Head(queue[p]) = <<"start", t.turn>> /\ Unlock(p)
  BY <1>1 DEF TypeOK, Promoted, PromoteFails, HoldsLock
<1>3. PICK s \in {"apply", "refuse"} :
         /\ tasks'[p] = (tasks[p] \ {t}) \cup {At(t, s)}
         /\ At(t, s).kind = "start" /\ At(t, s).turn = t.turn /\ At(t, s).at = s
         /\ s = "apply" => sync'[p].leader
         /\ sync[p].leader => sync'[p].leader
  <2>1. CASE Promoted(p, t)
    <3>1. tasks'[p] = (tasks[p] \ {t}) \cup {At(t, "apply")}
      BY <1>1, <2>1, AtFacts, ReplaceType DEF Promoted, StartSteps
    <3>2. sync'[p].leader
      BY <2>1 DEF Promoted, TypeOK
    <3> QED BY <1>1, <3>1, <3>2, AtFacts
  <2>2. CASE PromoteFails(p, t)
    <3>1. tasks'[p] = (tasks[p] \ {t}) \cup {At(t, "refuse")}
      BY <1>1, <2>2, AtFacts, ReplaceType DEF PromoteFails, StartSteps
    <3>2. sync'[p].leader = sync[p].leader
      BY <2>2 DEF PromoteFails, TypeOK
    <3> QED BY <1>1, <3>1, <3>2, AtFacts
  <2> QED BY <2>1, <2>2
<1>4. /\ UNCHANGED s3 /\ leading'[p] = leading[p] /\ turn'[p] = turn[p]
      /\ jobs'[p] = jobs[p] /\ turn[p] \in Nat
  BY DEF Promoted, PromoteFails, outside, election, TypeOK
<1>5. /\ Stops(p)' = Stops(p) /\ Demoting(p)' = Demoting(p)
      /\ \A u \in tasks'[p] : \E v \in tasks[p] : u.turn = v.turn
      /\ \A u \in Past(p)' : u \in Past(p) \/ (u.turn = t.turn /\ sync'[p].leader)
  BY <1>1, <1>3 DEF Stops, Demoting, Starts, Past
<1>6. OldTurns(p)' /\ DemotionsFirst(p)'
  BY <1>2, <1>4, <1>5, UnlockStep DEF JobInv, OldTurns
<1>7. OneDemotion(p)'
  <2>1. ASSUME NEW u \in Demoting(p)
        PROVE  \E i \in DOMAIN queue'[p] : queue'[p][i] = <<"stop", u.turn>>
    <3>1. /\ \E i \in DOMAIN queue[p] : queue[p][i] = <<"stop", u.turn>>
          /\ u.turn \in Nat
      BY KindOfStep DEF JobInv, OneDemotion, Demoting, Stops, TypeOK
    <3>2. <<"stop", u.turn>> # Head(queue[p])
      BY <1>2
    <3> QED BY <1>2, <1>4, <3>1, <3>2, UnlockStep
  <2> QED BY <1>5, <2>1 DEF JobInv, OneDemotion
<1>8. PromotionLasts(p)'
  <2>1. leading[p] /\ t.turn = turn[p] => Demoting(p) = {}
    <3> SUFFICES ASSUME leading[p], t.turn = turn[p], NEW u \in Demoting(p) PROVE FALSE
      OBVIOUS
    <3>1. PICK i \in DOMAIN queue[p] : queue[p][i] = <<"stop", u.turn>>
      BY DEF JobInv, OneDemotion
    <3>2. 1 \in DOMAIN queue[p] /\ queue[p][1] = <<"start", turn[p]>>
      BY <1>2
    <3>3. i < 1 /\ i \in Nat \ {0}
      BY <1>2, <3>1, <3>2 DEF JobInv, DemotionsFirst
    <3> QED BY <3>3
  <2> QED BY <1>3, <1>4, <1>5, <2>1 DEF JobInv, PromotionLasts
<1> QED BY <1>6, <1>7, <1>8 DEF JobInv

\* stop_leading asks for the lock; a pod that leads has none that is new.
LEMMA StopBeginStep ==
    ASSUME TypeOK, NEW p \in Pods, JobInv(p), NEW t \in tasks[p], StopBegin(p, t)
    PROVE  JobInv(p)'
<1> DEFINE Q == queue[p]
           E == <<t.kind, t.turn>>
<1>1. t \in Task /\ t.kind = "stop" /\ t.at = "spawned" /\ t.turn \in Nat
  BY KindOfStep DEF TypeOK, StopBegin
<1>2. ~leading[p]
  BY <1>1 DEF JobInv, OldTurns, Stops
<1>3. /\ UNCHANGED s3 /\ leading'[p] = leading[p] /\ turn'[p] = turn[p]
      /\ jobs'[p] = jobs[p] /\ turn[p] \in Nat
  BY DEF StopBegin, outside, election, TypeOK
<1>4. DemotionsFirst(p)' /\ PromotionLasts(p)'
  BY <1>2, <1>3 DEF JobInv, DemotionsFirst, PromotionLasts
<1>5. CASE s3
  <2>1. /\ Q \in Seq({"start", "stop"} \X Nat) /\ E \in {"start", "stop"} \X Nat
        /\ queue'[p] = Append(Q, E)
    BY <1>1, <1>5, EnqueueType DEF TypeOK, StopBegin
  <2>2. /\ tasks'[p] = (tasks[p] \ {t}) \cup {At(t, "demote")}
        /\ At(t, "demote").kind = "stop" /\ At(t, "demote").turn = t.turn
        /\ At(t, "demote").at = "demote"
    BY <1>1, <1>5, AtFacts, ReplaceType DEF StopBegin, StopSteps
  <2>3. OldTurns(p)'
    <3>1. \A i \in DOMAIN queue'[p] : queue'[p][i][2] <= turn[p]
      BY <1>1, <2>1, AppendPlaces DEF JobInv, OldTurns
    <3> QED BY <1>2, <1>3, <2>2, <3>1 DEF JobInv, OldTurns
  <2>4. ASSUME NEW u \in Demoting(p)'
        PROVE  \E i \in DOMAIN queue'[p] : queue'[p][i] = <<"stop", u.turn>>
    <3>1. CASE u \in Demoting(p)
      <4>1. PICK i \in DOMAIN Q : Q[i] = <<"stop", u.turn>>
        BY <3>1 DEF JobInv, OneDemotion
      <4>2. i \in DOMAIN Append(Q, E) /\ Append(Q, E)[i] = Q[i]
        BY <2>1, AppendKeeps
      <4> QED BY <2>1, <4>1, <4>2
    <3>2. CASE u = At(t, "demote")
      <4>1. Len(Q) + 1 \in DOMAIN Append(Q, E) /\ Append(Q, E)[Len(Q) + 1] = E
        BY <2>1
      <4> QED BY <1>1, <2>1, <2>2, <3>2, <4>1
    <3> QED BY <2>2, <3>1, <3>2 DEF Demoting, Stops
  <2>5. OneDemotion(p)'
    <3>1. \A u \in Stops(p)' : u \in Stops(p) \ {t} \/ u = At(t, "demote")
      BY <2>2 DEF Stops
    <3>2. \A u \in Stops(p) \ {t} : u.at # "label" => u.turn # t.turn
      BY <1>1 DEF JobInv, OneDemotion, Stops
    <3>3. \A u, v \in Stops(p)' :
             u.turn = v.turn /\ u.at # "label" /\ v.at # "label" => u = v
      BY <2>2, <3>1, <3>2 DEF JobInv, OneDemotion
    <3> QED BY <2>4, <3>3 DEF OneDemotion
  <2> QED BY <1>4, <2>3, <2>5 DEF JobInv
<1>6. CASE ~s3
  <2>1. tasks'[p] = tasks[p] \ {t} /\ queue'[p] = queue[p]
    BY <1>6, ReplaceType DEF StopBegin
  <2>2. OldTurns(p)' /\ OneDemotion(p)'
    BY <1>2, <1>3, <2>1 DEF JobInv, OldTurns, OneDemotion, Demoting, Stops
  <2> QED BY <1>4, <2>2 DEF JobInv
<1> QED BY <1>5, <1>6

\* A demotion takes the sync back only while the current turn has no use of it.
LEMMA DemotedStep ==
    ASSUME TypeOK, NEW p \in Pods, JobInv(p), NEW t \in tasks[p], Demoted(p, t)
    PROVE  JobInv(p)'
<1>1. /\ t \in Task /\ t.kind = "stop" /\ t.at \in {"demote", "detached"} /\ t.turn \in Nat
      /\ t \in Demoting(p)
  BY KindOfStep DEF TypeOK, Demoted, Demoting, Stops
<1>2. /\ queue[p] \in Seq({"start", "stop"} \X Nat)
      /\ queue[p] # <<>> /\ Head(queue[p]) = <<"stop", t.turn>> /\ Unlock(p)
  BY <1>1 DEF TypeOK, Demoted, HoldsLock
<1>3. /\ UNCHANGED s3 /\ leading'[p] = leading[p] /\ turn'[p] = turn[p]
      /\ jobs'[p] = jobs[p] /\ turn[p] \in Nat
  BY DEF Demoted, outside, election, TypeOK
<1>4. PICK S \in SUBSET {At(t, "label")} : tasks'[p] = (tasks[p] \ {t}) \cup S
  <2>1. At(t, "label") \in Task
    BY <1>1, AtFacts DEF StopSteps
  <2> QED BY <2>1, ReplaceType DEF Demoted
<1>5. /\ At(t, "label").kind = "stop" /\ At(t, "label").turn = t.turn
      /\ At(t, "label").at = "label"
  BY <1>1, AtFacts
<1>6. /\ Past(p)' = Past(p) /\ Demoting(p)' = Demoting(p) \ {t}
      /\ \A u \in Stops(p)' : u \in Stops(p) \ {t} \/ u = At(t, "label")
      /\ \A u \in tasks'[p] : u \in tasks[p] \/ u = At(t, "label")
  BY <1>1, <1>4, <1>5 DEF Stops, Demoting, Starts, Past
<1>7. OldTurns(p)' /\ DemotionsFirst(p)'
  <2>1. \A u \in tasks'[p] : u.turn <= turn[p]
    BY <1>5, <1>6 DEF JobInv, OldTurns
  <2>2. leading[p] => \A u \in Stops(p)' : u.turn < turn[p] /\ u.at # "spawned"
    BY <1>1, <1>5, <1>6 DEF JobInv, OldTurns, Demoting
  <2> QED BY <1>2, <1>3, <2>1, <2>2, UnlockStep DEF OldTurns
<1>8. OneDemotion(p)'
  <2>1. ASSUME NEW u \in Demoting(p)'
        PROVE  \E i \in DOMAIN queue'[p] : queue'[p][i] = <<"stop", u.turn>>
    <3>1. u \in Demoting(p) /\ u # t
      BY <1>6
    <3>2. /\ \E i \in DOMAIN queue[p] : queue[p][i] = <<"stop", u.turn>>
          /\ u.turn \in Nat
      BY <3>1, KindOfStep DEF JobInv, OneDemotion, Demoting, Stops, TypeOK
    <3>3. u.turn # t.turn
      BY <1>1, <3>1 DEF JobInv, OneDemotion, Demoting
    <3>4. <<"stop", u.turn>> # Head(queue[p])
      BY <1>2, <3>3
    <3> QED BY <1>2, <1>3, <3>2, <3>4, UnlockStep
  <2>2. \A u, v \in Stops(p)' :
           u.turn = v.turn /\ u.at # "label" /\ v.at # "label" => u = v
    BY <1>5, <1>6 DEF JobInv, OneDemotion
  <2> QED BY <2>1, <2>2 DEF OneDemotion
<1>9. PromotionLasts(p)'
  BY <1>1, <1>3, <1>6 DEF JobInv, PromotionLasts
<1> QED BY <1>7, <1>8, <1>9 DEF JobInv

\* The timeout leaves the demotion where it is in the queue.
LEMMA DemoteTimeoutStep ==
    ASSUME TypeOK, NEW p \in Pods, JobInv(p), NEW t \in tasks[p], DemoteTimeout(p, t)
    PROVE  JobInv(p)'
<1> DEFINE d == At(t, "detached")
           l == At(t, "label")
<1>1. t \in Task /\ t.kind = "stop" /\ t.at = "demote" /\ t.turn \in Nat
  BY KindOfStep DEF TypeOK, DemoteTimeout
<1>2. /\ UNCHANGED s3 /\ leading'[p] = leading[p] /\ turn'[p] = turn[p]
      /\ jobs'[p] = jobs[p] /\ queue'[p] = queue[p] /\ sync'[p] = sync[p]
  BY DEF DemoteTimeout, outside, election, local
<1>3. /\ d \in Task /\ d.kind = "stop" /\ d.turn = t.turn /\ d.at = "detached"
      /\ l \in Task /\ l.kind = "stop" /\ l.turn = t.turn /\ l.at = "label"
  BY <1>1, AtFacts DEF StopSteps
<1> HIDE DEF d, l
<1>4. tasks'[p] = (tasks[p] \ {t}) \cup {d, l}
  BY <1>3, ReplaceType DEF DemoteTimeout, d, l
<1>5. /\ Past(p)' = Past(p) /\ Demoting(p)' = (Demoting(p) \ {t}) \cup {d}
      /\ t \in Demoting(p) /\ t \in Stops(p)
      /\ Stops(p)' = (Stops(p) \ {t}) \cup {d, l}
  BY <1>1, <1>3, <1>4 DEF Stops, Demoting, Starts, Past
<1>6. OldTurns(p)'
  BY <1>2, <1>3, <1>4, <1>5 DEF JobInv, OldTurns
<1>7. OneDemotion(p)'
  <2>1. \A u \in Stops(p) \ {t} : u.at # "label" => u.turn # t.turn
    BY <1>1, <1>5 DEF JobInv, OneDemotion
  <2>2. \A u, v \in Stops(p)' :
           u.turn = v.turn /\ u.at # "label" /\ v.at # "label" => u = v
    BY <1>3, <1>5, <2>1 DEF JobInv, OneDemotion
  <2>3. \A u \in Demoting(p)' :
           \E i \in DOMAIN queue'[p] : queue'[p][i] = <<"stop", u.turn>>
    BY <1>2, <1>3, <1>5 DEF JobInv, OneDemotion
  <2> QED BY <2>2, <2>3 DEF OneDemotion
<1>8. DemotionsFirst(p)' /\ PromotionLasts(p)'
  BY <1>2, <1>5 DEF JobInv, DemotionsFirst, PromotionLasts
<1> QED BY <1>6, <1>7, <1>8 DEF JobInv

\* Every step of a task keeps the invariant of its process.
LEMMA JobTaskStep ==
    ASSUME TypeOK, NEW p \in Pods, JobInv(p), NEW t \in tasks[p], TaskStep(p, t)
    PROVE  JobInv(p)'
<1>1. /\ t \in Task
      /\ UNCHANGED s3 /\ leading'[p] = leading[p] /\ turn'[p] = turn[p]
  BY TaskStepFrame DEF TypeOK
<1> USE DEF local, StartSteps, Starts, Past
<1>2. CASE StartBegin(p, t)
  <2>1. PICK u \in Task : /\ u.kind = "start" /\ u.turn = t.turn
                          /\ u.at = IF s3 THEN "token" ELSE "apply"
                          /\ Replace(p, t, {u})
    BY <1>1, <1>2, AtFacts DEF StartBegin
  <2>2. tasks'[p] = (tasks[p] \ {t}) \cup {u}
    BY <2>1, ReplaceType
  <2> QED BY <1>1, <1>2, <2>1, <2>2, StartMoves DEF StartBegin
<1>3. CASE ReadToken(p, t)
  <2>1. t.kind = "start"
    BY <1>1, <1>3, KindOfStep DEF ReadToken
  <2>2. PICK n \in Nat : Replace(p, t, {[At(t, "answer") EXCEPT !.fence = n]})
    BY <1>3 DEF ReadToken, TypeOK
  <2>3. PICK u \in Task : /\ u.kind = "start" /\ u.turn = t.turn /\ u.at = "answer"
                          /\ Replace(p, t, {u})
    BY <1>1, <2>1, <2>2, WithFence
  <2>4. tasks'[p] = (tasks[p] \ {t}) \cup {u}
    BY <2>3, ReplaceType
  <2> QED BY <1>1, <1>3, <2>1, <2>3, <2>4, StartMoves DEF ReadToken
<1>4. CASE Applied(p, t)
  <2>1. t.kind = "start" /\ t.at = "apply" /\ At(t, "label") \in Task
    BY <1>1, <1>4, KindOfStep, AtFacts DEF Applied
  <2>2. CASE s3
    <3>1. PICK u \in Task : u.kind = "start" /\ u.turn = t.turn /\ Replace(p, t, {u})
      BY <1>1, <1>4, <2>1, <2>2, AtFacts DEF Applied
    <3>2. tasks'[p] = (tasks[p] \ {t}) \cup {u}
      BY <3>1, ReplaceType
    <3> QED BY <1>1, <1>4, <2>1, <2>2, <3>1, <3>2, StartMoves DEF Applied
  <2>3. CASE ~s3
    <3>1. tasks'[p] = (tasks[p] \ {t}) \cup {}
      BY <1>4, <2>3, ReplaceType DEF Applied
    <3>2. \/ jobs'[p] = jobs[p]
          \/ leading[p] /\ t.turn = turn[p] /\ jobs'[p] = jobs[p] \cup {t.turn}
      BY <1>4, <2>3 DEF Applied, TypeOK
    <3> QED BY <1>1, <1>4, <2>1, <2>3, <3>1, <3>2, StartMoves DEF Applied
  <2> QED BY <2>2, <2>3
<1>5. CASE ApplyFails(p, t) \/ LabelLeader(p, t)
  <2>1. t.kind = "start" /\ t.at \in {"apply", "label"}
    BY <1>1, <1>5, KindOfStep DEF ApplyFails, LabelLeader
  <2>2. PICK u \in Task : u.kind = "start" /\ u.turn = t.turn /\ Replace(p, t, {u})
    BY <1>1, <1>5, <2>1, AtFacts DEF ApplyFails, LabelLeader
  <2>3. tasks'[p] = (tasks[p] \ {t}) \cup {u}
    BY <2>2, ReplaceType
  <2> QED BY <1>1, <1>5, <2>1, <2>2, <2>3, StartMoves DEF ApplyFails, LabelLeader
<1>6. CASE RefuseToLead(p, t) \/ SpawnJobs(p, t)
  <2>1. t.kind = "start" /\ tasks'[p] = (tasks[p] \ {t}) \cup {}
    BY <1>1, <1>6, KindOfStep, ReplaceType DEF RefuseToLead, SpawnJobs
  <2>2. \/ jobs'[p] = jobs[p]
        \/ /\ leading[p] /\ t.turn = turn[p] /\ jobs'[p] = jobs[p] \cup {t.turn}
           /\ t.at = "peers"
    BY <1>6 DEF RefuseToLead, SpawnJobs, TypeOK
  <2> QED BY <1>1, <1>6, <2>1, <2>2, StartMoves DEF RefuseToLead, SpawnJobs
<1>7. CASE ListPeers(p, t)
  <2>1. t.kind = "start" /\ t.at = "list"
    BY <1>1, <1>7, KindOfStep DEF ListPeers
  <2>2. PICK u \in Task : u.kind = "start" /\ u.turn = t.turn /\ Replace(p, t, {u})
    <3>1. LET v == [At(t, "peers") EXCEPT !.peers =
                      {q \in Pods \ {p} : label[q] = "leader"}]
          IN  v \in Task /\ v.kind = "start" /\ v.turn = t.turn
      BY <1>1, <2>1, WithPeers
    <3>2. /\ At(t, "peers") \in Task /\ At(t, "peers").kind = "start"
          /\ At(t, "peers").turn = t.turn
      BY <1>1, <2>1, AtFacts
    <3> QED BY <1>7, <3>1, <3>2 DEF ListPeers
  <2>3. tasks'[p] = (tasks[p] \ {t}) \cup {u}
    BY <2>2, ReplaceType
  <2> QED BY <1>1, <1>7, <2>1, <2>2, <2>3, StartMoves DEF ListPeers
<1>8. CASE DemotePeer(p, t)
  <2>1. t.kind = "start" /\ t.at = "peers"
    BY <1>1, <1>8, KindOfStep DEF DemotePeer
  <2>2. PICK u \in Task : u.kind = "start" /\ u.turn = t.turn /\ Replace(p, t, {u})
    <3>1. PICK q : Replace(p, t, {[t EXCEPT !.peers = @ \ {q}]})
      BY <1>8 DEF DemotePeer
    <3> QED BY <1>1, <2>1, <3>1, FewerPeers
  <2>3. tasks'[p] = (tasks[p] \ {t}) \cup {u}
    BY <2>2, ReplaceType
  <2> QED BY <1>1, <1>8, <2>1, <2>2, <2>3, StartMoves DEF DemotePeer
<1>9. CASE LabelStandby(p, t)
  <2>1. tasks'[p] = tasks[p] \ {t} /\ t.kind = "stop" /\ t.at = "label"
    BY <1>9, ReplaceType DEF LabelStandby
  <2>2. /\ Past(p)' = Past(p) /\ Demoting(p)' = Demoting(p)
        /\ Stops(p)' = Stops(p) \ {t}
    BY <2>1 DEF Stops, Demoting
  <2>3. queue'[p] = queue[p] /\ sync'[p] = sync[p] /\ jobs'[p] = jobs[p]
    BY <1>9 DEF LabelStandby
  <2> QED
    <3>1. OldTurns(p)'
      BY <1>1, <2>1, <2>2, <2>3 DEF JobInv, OldTurns
    <3>2. OneDemotion(p)' /\ DemotionsFirst(p)'
      BY <1>1, <2>2, <2>3 DEF JobInv, OneDemotion, DemotionsFirst
    <3>3. PromotionLasts(p)'
      BY <1>1, <2>2, <2>3 DEF JobInv, PromotionLasts
    <3> QED BY <3>1, <3>2, <3>3 DEF JobInv
<1> QED
  BY <1>2, <1>3, <1>4, <1>5, <1>6, <1>7, <1>8, <1>9, AskStep, PromoteStep, StopBeginStep,
     DemotedStep, DemoteTimeoutStep DEF TaskStep

\* A new turn: nothing of it is under way yet.
LEMMA JobStarted ==
    ASSUME TypeOK, NEW p \in Pods, JobInv(p), OnStarted(p)
    PROVE  JobInv(p)'
<1> DEFINE n == turn[p] + 1
<1>1. /\ UNCHANGED s3 /\ ~leading[p] /\ leading'[p] /\ turn[p] \in Nat /\ turn'[p] = n
      /\ queue'[p] = queue[p] /\ sync'[p] = sync[p] /\ jobs'[p] = jobs[p]
      /\ \A t \in tasks[p] : t.at # "spawned"
      /\ tasks'[p] = tasks[p] \cup {Spawned("start", n)}
  BY DEF OnStarted, Election!Start, local, TypeOK
<1>2. PICK v \in Task : /\ v.kind = "start" /\ v.turn = n /\ v.at = "spawned"
                        /\ tasks'[p] = tasks[p] \cup {v}
  BY <1>1, SpawnedFacts
<1>3. \A t \in tasks[p] : t.turn \in Nat /\ t.turn < n
  BY <1>1, KindOfStep DEF JobInv, OldTurns, TypeOK
<1>4. /\ Stops(p)' = Stops(p) /\ Demoting(p)' = Demoting(p)
      /\ \A u \in Past(p)' : u.turn # n
  BY <1>1, <1>2, <1>3 DEF Stops, Demoting, Starts, Past
<1>5. \A i \in DOMAIN queue[p] : queue[p][i][2] \in Nat /\ queue[p][i][2] < n
  <2>1. \A i \in DOMAIN queue[p] : queue[p][i] \in {"start", "stop"} \X Nat
    BY DEF TypeOK
  <2> QED BY <1>1, <2>1 DEF JobInv, OldTurns
<1>6. OldTurns(p)'
  BY <1>1, <1>2, <1>3, <1>4, <1>5 DEF OldTurns, Stops
<1>7. OneDemotion(p)'
  BY <1>1, <1>4 DEF JobInv, OneDemotion
<1>8. DemotionsFirst(p)'
  BY <1>1, <1>5 DEF DemotionsFirst
<1>9. PromotionLasts(p)'
  <2>1. \A k \in jobs[p] : k \in Nat /\ k <= turn[p]
    BY DEF JobInv, PromotionLasts, TypeOK
  <2>2. \A k \in jobs[p] : k <= n /\ k # n
    BY <1>1, <2>1
  <2> QED BY <1>1, <1>4, <2>2 DEF PromotionLasts
<1> QED BY <1>6, <1>7, <1>8, <1>9 DEF JobInv

\* The end of a turn, whose demotion is the newest.
LEMMA JobStopped ==
    ASSUME TypeOK, NEW p \in Pods, JobInv(p), OnStopped(p)
    PROVE  JobInv(p)'
<1>1. /\ UNCHANGED s3 /\ leading[p] /\ ~leading'[p] /\ turn[p] \in Nat
      /\ turn'[p] = turn[p] /\ queue'[p] = queue[p] /\ jobs'[p] = jobs[p]
      /\ tasks'[p] = tasks[p] \cup {Spawned("stop", turn[p])}
  BY DEF OnStopped, Election!Stop, TypeOK, local
<1>2. PICK v \in Task : /\ v.kind = "stop" /\ v.turn = turn[p] /\ v.at = "spawned"
                        /\ tasks'[p] = tasks[p] \cup {v}
  BY <1>1, SpawnedFacts
<1>3. Stops(p)' = Stops(p) \cup {v} /\ Demoting(p)' = Demoting(p)
  BY <1>2 DEF Stops, Demoting
<1>4. \A u \in Stops(p) : u.turn # v.turn
  <2>1. \A u \in Stops(p) : u.turn \in Nat /\ u.turn < turn[p]
    BY <1>1, KindOfStep DEF JobInv, OldTurns, Stops, TypeOK
  <2> QED BY <1>1, <1>2, <2>1
<1>5. OldTurns(p)'
  BY <1>1, <1>2 DEF JobInv, OldTurns
<1>6. OneDemotion(p)'
  BY <1>1, <1>3, <1>4 DEF JobInv, OneDemotion
<1>7. DemotionsFirst(p)' /\ PromotionLasts(p)'
  BY <1>1 DEF JobInv, DemotionsFirst, PromotionLasts
<1> QED BY <1>5, <1>6, <1>7 DEF JobInv

\* A dead process has no tasks.
LEMMA JobCrash ==
    ASSUME TypeOK, NEW p \in Pods, Crash(p)
    PROVE  JobInv(p)'
<1>1. /\ ~leading'[p] /\ tasks'[p] = {} /\ queue'[p] = <<>> /\ jobs'[p] = {}
  BY DEF Crash, TypeOK
<1> QED
  BY <1>1 DEF JobInv, OldTurns, OneDemotion, DemotionsFirst, PromotionLasts, Stops,
              Demoting, Starts, Past

LEMMA JobsStep == JobsInv /\ [Next]_vars => JobsInv'
<1> SUFFICES ASSUME JobsInv, [Next]_vars, NEW q \in Pods PROVE JobInv(q)'
  BY TypeStep DEF JobsInv
<1>1. TypeOK /\ JobInv(q)
  BY DEF JobsInv
<1>2. ASSUME NEW p \in Pods, GrantLease(p) PROVE JobInv(q)'
  BY <1>1, <1>2, JobFrame DEF GrantLease, Election!Grant, local
<1>3. CASE VacateLease
  BY <1>1, <1>3, JobFrame DEF VacateLease, Election!Vacate, local
<1>4. ASSUME NEW p \in Pods, OnStarted(p) PROVE JobInv(q)'
  <2>1. CASE q # p
    BY <1>1, <1>4, <2>1, JobFrame DEF OnStarted, Election!Start, local, TypeOK
  <2> QED BY <1>1, <1>4, <2>1, JobStarted
<1>5. ASSUME NEW p \in Pods, OnStopped(p) PROVE JobInv(q)'
  <2>1. CASE q # p
    BY <1>1, <1>5, <2>1, JobFrame DEF OnStopped, Election!Stop, TypeOK, local
  <2> QED BY <1>1, <1>5, <2>1, JobStopped
<1>6. ASSUME NEW p \in Pods, Crash(p) PROVE JobInv(q)'
  <2>1. CASE q # p
    BY <1>1, <1>6, <2>1, JobFrame DEF Crash, TypeOK
  <2> QED BY <1>1, <1>6, <2>1, JobCrash
<1>7. ASSUME NEW p \in Pods, Working(p) PROVE JobInv(q)'
  <2>1. PICK t \in tasks[p] : TaskStep(p, t)
    BY <1>7 DEF Working
  <2>2. CASE q # p
    BY <1>1, <2>1, <2>2, TaskStepFrame, JobFrame
  <2> QED BY <1>1, <2>1, <2>2, JobTaskStep
<1>8. ASSUME NEW p \in Pods, JobsReturn(p) PROVE JobInv(q)'
  <2>1. CASE q # p
    BY <1>1, <1>8, <2>1, JobFrame DEF JobsReturn, TypeOK, outside, election
  <2>2. CASE q = p
    <3>1. /\ jobs'[q] \subseteq jobs[q] /\ turn'[q] = turn[q] /\ leading'[q] = leading[q]
          /\ tasks'[q] = tasks[q] /\ queue'[q] = queue[q] /\ sync'[q] = sync[q] /\ UNCHANGED s3
      BY <1>8, <2>2 DEF JobsReturn, TypeOK, outside, election
    <3> QED BY <1>1, <3>1 DEF JobInv, OldTurns, OneDemotion, DemotionsFirst, PromotionLasts,
                              Starts, Stops, Demoting, Past
  <2> QED BY <2>1, <2>2
<1>9. CASE UNCHANGED vars
  BY <1>1, <1>9, JobFrame DEF vars, outside, election, local
<1> QED BY <1>2, <1>3, <1>4, <1>5, <1>6, <1>7, <1>8, <1>9 DEF Next

LEMMA JobsInit == Init => JobsInv
<1> SUFFICES ASSUME Init PROVE JobsInv
  OBVIOUS
<1>1. TypeOK
  BY LeadershipAssumption DEF Init, Election!Init, TypeOK
<1>2. ASSUME NEW p \in Pods PROVE JobInv(p)
  <2>1. ~leading[p] /\ tasks[p] = {} /\ queue[p] = <<>> /\ jobs[p] = {}
    BY DEF Init, Election!Init
  <2> QED BY <2>1 DEF JobInv, OldTurns, OneDemotion, DemotionsFirst, PromotionLasts,
                      Stops, Demoting, Starts, Past
<1> QED BY <1>1, <1>2 DEF JobsInv

\* While a term lasts, Leadership's jobs of it (spawn_leader_jobs), the sweeper
\* above all, run on the database that was promoted for leading: a stop_leading
\* of an earlier term that is still on its way, or whose demotion outlived
\* FINAL_SYNC_TIMEOUT, has had the lock before the promotion gets it.  For any
\* number of pods and terms, tasks overlapping in any way, any requests failing
\* and jobs of earlier terms still in their last pass.
THEOREM JobsOnPromotedData == Spec => []JobsRunOnPromotedData
<1>1. JobsInv => JobsRunOnPromotedData
  BY DEF JobsInv, JobInv, PromotionLasts, JobsRunOnPromotedData
<1> QED BY <1>1, JobsInit, JobsStep, PTL DEF Spec

-----------------------------------------------------------------------------
(* Routing.                                                                  *)

\* What becomes of a task: it stays of its kind and turn and minds its business.
Heirs(p, t, S) ==
    /\ S \subseteq Task /\ tasks'[p] = (tasks[p] \ {t}) \cup S
    /\ \A u \in S : /\ u.kind = t.kind /\ u.turn = t.turn /\ p \notin u.peers
                    /\ u.at = "refuse" => faults' > 0
                    /\ ~s3 => u.at \in {"spawned", "apply", "refuse"}

LEMMA SoleHeir ==
    ASSUME TypeOK, NEW p \in Pods, NEW t \in tasks[p], NEW u \in Task, Replace(p, t, {u}),
           u.kind = t.kind, u.turn = t.turn, p \notin u.peers, u.at = "refuse" => faults' > 0,
           ~s3 => u.at \in {"spawned", "apply", "refuse"}
    PROVE  \E S : Heirs(p, t, S)
<1>1. tasks'[p] = (tasks[p] \ {t}) \cup {u}
  BY ReplaceType
<1>2. Heirs(p, t, {u})
  BY <1>1 DEF Heirs
<1> QED BY <1>2

LEMMA NoHeir ==
    ASSUME TypeOK, NEW p \in Pods, NEW t \in tasks[p], Replace(p, t, {})
    PROVE  \E S : Heirs(p, t, S)
<1>1. tasks'[p] = (tasks[p] \ {t}) \cup {}
  BY ReplaceType
<1>2. Heirs(p, t, {})
  BY <1>1 DEF Heirs
<1> QED BY <1>2

LEMMA TaskHeirs ==
    ASSUME TypeOK, NEW p \in Pods, Business(p), NEW t \in tasks[p], TaskStep(p, t)
    PROVE  \E S : Heirs(p, t, S)
<1>1. /\ t \in Task /\ p \notin t.peers /\ faults \in Nat
      /\ ~s3 => t.at \in {"spawned", "apply", "refuse"}
  BY DEF TypeOK, Business
<1> USE DEF StartSteps, StopSteps
<1>2. CASE StartBegin(p, t)
  BY <1>1, <1>2, AtFacts, SoleHeir DEF StartBegin
<1>3. CASE ReadToken(p, t)
  <2>1. t.kind = "start" /\ s3
    BY <1>1, <1>3, KindOfStep DEF ReadToken
  <2>2. PICK n \in Nat : Replace(p, t, {[At(t, "answer") EXCEPT !.fence = n]})
    BY <1>3 DEF ReadToken, TypeOK
  <2>3. PICK u \in Task : /\ u.kind = "start" /\ u.turn = t.turn
                          /\ u.at = "answer" /\ u.peers = t.peers
                          /\ Replace(p, t, {u})
    BY <1>1, <2>1, <2>2, WithFence
  <2> QED BY <1>1, <2>1, <2>3, SoleHeir
<1>4. CASE AskToPromote(p, t)
  BY <1>1, <1>4, KindOfStep, AtFacts, SoleHeir DEF AskToPromote
<1>5. CASE Promoted(p, t)
  BY <1>1, <1>5, KindOfStep, AtFacts, SoleHeir DEF Promoted
<1>6. CASE PromoteFails(p, t) \/ ApplyFails(p, t)
  <2>1. t.kind = "start" /\ faults' > 0 /\ Replace(p, t, {At(t, "refuse")})
    BY <1>1, <1>6, KindOfStep, FaultType DEF PromoteFails, ApplyFails
  <2> QED BY <1>1, <2>1, AtFacts, SoleHeir
<1>7. CASE Applied(p, t)
  <2>1. t.kind = "start" /\ (Replace(p, t, {}) \/ (s3 /\ Replace(p, t, {At(t, "label")})))
    BY <1>1, <1>7, KindOfStep DEF Applied
  <2> QED BY <1>1, <2>1, AtFacts, SoleHeir, NoHeir
<1>8. CASE RefuseToLead(p, t) \/ SpawnJobs(p, t) \/ LabelStandby(p, t)
  BY <1>8, NoHeir DEF RefuseToLead, SpawnJobs, LabelStandby
<1>9. CASE LabelLeader(p, t)
  BY <1>1, <1>9, AtFacts, SoleHeir DEF LabelLeader
<1>10. CASE ListPeers(p, t)
  <2>1. t.kind = "start" /\ s3
    BY <1>1, <1>10, KindOfStep DEF ListPeers
  <2>2. PICK P \in SUBSET (Pods \ {p}) :
           Replace(p, t, {[At(t, "peers") EXCEPT !.peers = P]}) \/ Replace(p, t, {At(t, "peers")})
    BY <1>10 DEF ListPeers
  <2>3. PICK u \in Task : /\ u.kind = "start" /\ u.turn = t.turn
                          /\ u.at = "peers" /\ p \notin u.peers
                          /\ Replace(p, t, {u})
    <3>1. CASE Replace(p, t, {[At(t, "peers") EXCEPT !.peers = P]})
      <4>1. P \in SUBSET Pods /\ p \notin P
        OBVIOUS
      <4>2. LET v == [At(t, "peers") EXCEPT !.peers = P] IN
            v \in Task /\ v.kind = "start" /\ v.turn = t.turn /\ v.at = "peers" /\ v.peers = P
        BY <1>1, <2>1, <4>1, WithPeers
      <4> QED BY <3>1, <4>1, <4>2
    <3>2. CASE Replace(p, t, {At(t, "peers")})
      BY <1>1, <2>1, <3>2, AtFacts
    <3> QED BY <2>2, <3>1, <3>2
  <2> QED BY <1>1, <2>1, <2>3, SoleHeir
<1>11. CASE DemotePeer(p, t)
  <2>1. t.kind = "start" /\ s3 /\ t.at = "peers"
    BY <1>1, <1>11, KindOfStep DEF DemotePeer
  <2>2. PICK q : Replace(p, t, {[t EXCEPT !.peers = @ \ {q}]})
    BY <1>11 DEF DemotePeer
  <2>3. PICK u \in Task : /\ u.kind = "start" /\ u.turn = t.turn
                          /\ u.at = "peers" /\ p \notin u.peers
                          /\ Replace(p, t, {u})
    BY <1>1, <2>1, <2>2, FewerPeers
  <2> QED BY <1>1, <2>1, <2>3, SoleHeir
<1>12. CASE StopBegin(p, t)
  <2>1. t.kind = "stop" /\ (Replace(p, t, {}) \/ (s3 /\ Replace(p, t, {At(t, "demote")})))
    BY <1>12 DEF StopBegin
  <2> QED BY <1>1, <2>1, AtFacts, SoleHeir, NoHeir
<1>13. CASE Demoted(p, t)
  <2>1. /\ t.kind = "stop" /\ s3
        /\ Replace(p, t, {}) \/ Replace(p, t, {At(t, "label")})
    BY <1>1, <1>13, KindOfStep DEF Demoted
  <2> QED BY <1>1, <2>1, AtFacts, SoleHeir, NoHeir
<1>14. CASE DemoteTimeout(p, t)
  <2>1. t.kind = "stop" /\ s3
    BY <1>1, <1>14, KindOfStep DEF DemoteTimeout
  <2>2. PICK d \in Task, l \in Task :
           /\ d.kind = "stop" /\ d.turn = t.turn /\ d.peers = t.peers /\ d.at = "detached"
           /\ l.kind = "stop" /\ l.turn = t.turn /\ l.peers = t.peers /\ l.at = "label"
           /\ Replace(p, t, {d, l})
    BY <1>1, <1>14, <2>1, AtFacts DEF DemoteTimeout
  <2>3. tasks'[p] = (tasks[p] \ {t}) \cup {d, l}
    BY <2>2, ReplaceType
  <2>4. Heirs(p, t, {d, l})
    BY <1>1, <2>1, <2>2, <2>3 DEF Heirs
  <2> QED BY <2>4
<1> QED
  BY <1>2, <1>3, <1>4, <1>5, <1>6, <1>7, <1>8, <1>9, <1>10, <1>11, <1>12, <1>13, <1>14
     DEF TaskStep

\* Failures are never forgotten.
LEMMA FaultsGrow ==
    ASSUME TypeOK, [Next]_vars PROVE faults' \in Nat /\ (faults > 0 => faults' > 0)
<1> USE DEF local, routing
<1>1. faults \in Nat
  BY DEF TypeOK
<1>2. CASE UNCHANGED faults
  BY <1>1, <1>2
<1>3. CASE Fault
  BY <1>1, <1>3 DEF Fault
<1>4. UNCHANGED faults \/ Fault
  <2>1. ASSUME NEW p \in Pods, NEW t \in tasks[p], TaskStep(p, t)
        PROVE  UNCHANGED faults \/ Fault
    BY <2>1 DEF TaskStep, StartBegin, ReadToken, AskToPromote, Promoted, PromoteFails,
                Applied, ApplyFails, RefuseToLead, LabelLeader, ListPeers, DemotePeer,
                SpawnJobs, StopBegin, Demoted, DemoteTimeout, LabelStandby, SetPodRole
  <2>2. ASSUME NEW p \in Pods, \/ GrantLease(p) \/ OnStarted(p) \/ OnStopped(p) \/ Crash(p)
                               \/ JobsReturn(p)
        PROVE  UNCHANGED faults
    BY <2>2 DEF GrantLease, OnStarted, OnStopped, Crash, JobsReturn
  <2> QED BY <2>1, <2>2 DEF Next, Working, VacateLease, vars
<1> QED BY <1>2, <1>3, <1>4

\* The Lease, the terms and the topology are no business of tasks and jobs.
LEMMA JobsReturnFrame ==
    ASSUME NEW p \in Pods, JobsReturn(p)
    PROVE  UNCHANGED <<s3, lease, leading, term, turn, tasks, ready, label, late, faults>>
BY DEF JobsReturn, outside, election, routing

\* Tasks keep to their business.
LEMMA BusinessStep ==
    ASSUME TypeOK, NEW q \in Pods, Business(q), [Next]_vars
    PROVE  Business(q)'
<1>1. faults \in Nat /\ faults' \in Nat /\ (faults > 0 => faults' > 0)
  BY FaultsGrow DEF TypeOK
<1>2. CASE UNCHANGED s3 /\ tasks'[q] = tasks[q]
  BY <1>1, <1>2 DEF Business
<1>3. CASE \/ \E p \in Pods : GrantLease(p) \/ JobsReturn(p)
           \/ VacateLease \/ UNCHANGED vars
  BY <1>2, <1>3, JobsReturnFrame DEF GrantLease, VacateLease, vars, outside
<1>4. ASSUME NEW p \in Pods, OnStarted(p) \/ OnStopped(p) PROVE Business(q)'
  <2>1. CASE q # p
    BY <1>2, <1>4, <2>1 DEF OnStarted, OnStopped, TypeOK
  <2>2. CASE q = p
    <3>1. /\ UNCHANGED s3 /\ turn[q] \in Nat /\ turn[q] + 1 \in Nat
          /\ \E k \in {"start", "stop"}, n \in {turn[q], turn[q] + 1} :
                tasks'[q] = tasks[q] \cup {Spawned(k, n)}
      BY <1>4, <2>2 DEF OnStarted, OnStopped, TypeOK
    <3>2. PICK v \in Task : /\ v.at = "spawned" /\ v.peers = {}
                            /\ tasks'[q] = tasks[q] \cup {v}
      BY <3>1, SpawnedFacts
    <3> QED BY <1>1, <3>1, <3>2 DEF Business
  <2> QED BY <2>1, <2>2
<1>5. ASSUME NEW p \in Pods, Crash(p) PROVE Business(q)'
  <2>1. CASE q # p
    BY <1>2, <1>5, <2>1 DEF Crash, TypeOK
  <2>2. CASE q = p
    BY <1>5, <2>2 DEF Crash, TypeOK, Business
  <2> QED BY <2>1, <2>2
<1>6. ASSUME NEW p \in Pods, NEW t \in tasks[p], TaskStep(p, t) PROVE Business(q)'
  <2>1. UNCHANGED s3 /\ (q # p => tasks'[q] = tasks[q])
    BY <1>6, TaskStepFrame
  <2>2. CASE q = p
    <3>1. PICK S : Heirs(q, t, S)
      BY <1>6, <2>2, TaskHeirs
    <3> QED BY <1>1, <2>1, <3>1 DEF Heirs, Business
  <2> QED BY <1>2, <2>1, <2>2
<1> QED BY <1>3, <1>4, <1>5, <1>6 DEF Next, Working

\* No step makes a pod that leads already the leader of the current term.
LEMMA CurrentBefore ==
    ASSUME TypeOK, Holding, [Next]_vars, NEW q \in Pods, Current(q)'
    PROVE  Current(q) \/ OnStarted(q)
<1> USE DEF Holding, Current, TypeOK
<1>1. CASE UNCHANGED <<lease, leading, term>>
  BY <1>1
<1>2. ASSUME NEW p \in Pods, GrantLease(p) PROVE Current(q)
  <2>1. UNCHANGED <<leading, term>> /\ term[q] <= lease.transitions
    BY <1>2 DEF GrantLease, Election!Grant
  <2>2. lease'.transitions \in {lease.transitions, lease.transitions + 1}
    BY <1>2 DEF GrantLease, Election!Grant
  <2> QED BY <2>1, <2>2
<1>3. CASE VacateLease
  BY <1>3 DEF VacateLease, Election!Vacate
<1>4. ASSUME NEW p \in Pods \ {q}, OnStarted(p) PROVE Current(q)
  BY <1>4 DEF OnStarted, Election!Start
<1>5. ASSUME NEW p \in Pods, OnStopped(p) \/ Crash(p) PROVE Current(q)
  BY <1>5 DEF OnStopped, Election!Stop, Crash
<1>6. ASSUME NEW p \in Pods, Working(p) \/ JobsReturn(p) PROVE Current(q)
  BY <1>1, <1>6, TaskStepFrame, JobsReturnFrame DEF Working
<1> QED BY <1>1, <1>2, <1>3, <1>4, <1>5, <1>6 DEF Next, vars, outside, election

\* The Lease and the terms.
LEMMA HoldingStep ==
    ASSUME TypeOK, Holding, [Next]_vars PROVE Holding'
<1> USE DEF TypeOK
<1>1. CASE UNCHANGED <<lease, leading, term>>
  BY <1>1 DEF Holding, Current
<1>2. ASSUME NEW p \in Pods, OnStarted(p) PROVE Holding'
  <2>1. PICK n \in 0 .. lease.transitions :
           /\ \A q \in Pods : leading[q] => term[q] # n
           /\ term' = [term EXCEPT ![p] = n]
           /\ lease.holder = p => n = lease.transitions
    BY <1>2 DEF OnStarted, Election!Start
  <2>2. /\ UNCHANGED lease /\ n = lease.transitions /\ term'[p] = n
        /\ \A q \in Pods \ {p} : term'[q] = term[q] /\ leading'[q] = leading[q]
    BY <1>2, <2>1 DEF OnStarted, Election!Start
  <2>3. \A q \in Pods : Current(q)' => q = p
    BY <2>1, <2>2 DEF Current
  <2>4. \A q \in Pods : leading'[q] => term'[q] <= lease.transitions
    <3>1. lease.transitions \in Nat
      OBVIOUS
    <3>2. \A q \in Pods : leading[q] => term[q] <= lease.transitions
      BY DEF Holding
    <3> HIDE DEF TypeOK
    <3> QED BY <2>2, <3>1, <3>2
  <2> QED BY <2>2, <2>3, <2>4 DEF Holding
<1>3. ASSUME \A p \in Pods : ~OnStarted(p),
             \A p \in Pods : leading'[p] => leading[p] /\ term'[p] = term[p],
             lease'.transitions \in {lease.transitions, lease.transitions + 1}
      PROVE  Holding'
  <2>1. \A q \in Pods : Current(q)' => Current(q)
    BY <1>3, CurrentBefore
  <2>2. lease.transitions \in Nat /\ \A q \in Pods : term[q] \in Nat
    OBVIOUS
  <2> HIDE DEF TypeOK
  <2>3. \A q \in Pods : leading'[q] => term'[q] <= lease'.transitions
    BY <1>3, <2>2 DEF Holding
  <2> QED BY <2>1, <2>3 DEF Holding
<1>4. ASSUME NEW p \in Pods, \A q \in Pods : ~OnStarted(q),
             GrantLease(p) \/ VacateLease \/ OnStopped(p) \/ Crash(p)
      PROVE  Holding'
  <2>1. lease'.transitions \in {lease.transitions, lease.transitions + 1}
    BY <1>4 DEF GrantLease, Election!Grant, VacateLease, Election!Vacate, OnStopped,
                Election!Stop, Crash
  <2>2. \A q \in Pods : leading'[q] => leading[q] /\ term'[q] = term[q]
    BY <1>4 DEF GrantLease, Election!Grant, VacateLease, Election!Vacate, OnStopped,
                Election!Stop, Crash
  <2> QED BY <1>3, <1>4, <2>1, <2>2
<1>5. ASSUME NEW p \in Pods, Working(p) \/ JobsReturn(p) PROVE Holding'
  BY <1>1, <1>5, TaskStepFrame, JobsReturnFrame DEF Working
<1>6. CASE Pods = {}
  BY <1>6 DEF Holding
<1> QED BY <1>1, <1>2, <1>4, <1>5, <1>6 DEF Next, vars, outside, election

\* What one task may do to the traffic of the pod r: nothing, or a write that
\* is late when the task's term is over.
LEMMA OneWriter ==
    ASSUME TypeOK, NEW p \in Pods, NEW t \in tasks[p], TaskStep(p, t), s3, faults' = 0,
           NEW r \in Pods
    PROVE  \/ label'[r] = label[r] /\ late'[r] = late[r]
           \/ /\ late'[r] = Over(p, t)
              /\ \/ LabelLeader(p, t) /\ r = p /\ label'[r] = "leader"
                 \/ label'[r] = "standby" /\ (DemotePeer(p, t) \/ r = p)
<1> DEFINE Goal == \/ label'[r] = label[r] /\ late'[r] = late[r]
                   \/ /\ late'[r] = Over(p, t)
                      /\ \/ LabelLeader(p, t) /\ r = p /\ label'[r] = "leader"
                         \/ label'[r] = "standby" /\ (DemotePeer(p, t) \/ r = p)
<1>1. CASE UNCHANGED routing \/ UNCHANGED <<label, late>>
  BY <1>1 DEF routing
<1>2. t \in Task
  BY DEF TypeOK
<1>3. CASE \/ StartBegin(p, t) \/ ReadToken(p, t) \/ AskToPromote(p, t) \/ Promoted(p, t)
           \/ PromoteFails(p, t) \/ ApplyFails(p, t) \/ ListPeers(p, t) \/ SpawnJobs(p, t)
           \/ Demoted(p, t) \/ DemoteTimeout(p, t)
  BY <1>1, <1>3 DEF StartBegin, ReadToken, AskToPromote, Promoted, PromoteFails, ApplyFails,
                    ListPeers, SpawnJobs, Demoted, DemoteTimeout
<1>4. CASE Applied(p, t)
  <2>1. UNCHANGED <<label, late>>
    BY <1>4 DEF Applied, SetReady
  <2> QED BY <1>1, <2>1
<1>5. CASE StopBegin(p, t)
  <2>1. UNCHANGED <<label, late>>
    BY <1>5 DEF StopBegin
  <2> QED BY <1>1, <2>1
<1>6. CASE RefuseToLead(p, t) \/ LabelStandby(p, t)
  <2>1. SetPodRole(p, t, p, "standby")
    BY <1>6 DEF RefuseToLead, LabelStandby
  <2> QED BY <2>1, SetPodRoleType
<1>7. CASE LabelLeader(p, t)
  <2>1. SetPodRole(p, t, p, "leader")
    BY <1>7 DEF LabelLeader
  <2> QED BY <1>7, <2>1, SetPodRoleType
<1>8. CASE DemotePeer(p, t)
  <2>1. PICK q \in t.peers : SetPodRole(p, t, q, "standby")
    BY <1>8 DEF DemotePeer
  <2>2. q \in Pods
    BY <1>2, <2>1, KindOfStep
  <2> QED BY <1>8, <2>1, <2>2, SetPodRoleType
<1> QED BY <1>3, <1>4, <1>5, <1>6, <1>7, <1>8 DEF TaskStep

\* Who stands in for whom among the start_leading of the latest turn.
LEMMA LatestHeirs ==
    ASSUME NEW p \in Pods, NEW t \in tasks[p], NEW S, Heirs(p, t, S), turn'[p] = turn[p]
    PROVE  Latest(p)' = (Latest(p) \ {t}) \cup (IF t \in Latest(p) THEN S ELSE {})
BY DEF Latest, Starts, Heirs

\* The labels, when the start_leading of the current term takes a step.
LEMMA OwnLabels ==
    ASSUME TypeOK, NEW p \in Pods, Business(p), Labels(p), s3, Current(p),
           NEW t \in Latest(p), TaskStep(p, t), faults = 0, faults' = 0
    PROVE  Labels(p)'
<1>1. /\ t \in tasks[p] /\ t \in Task /\ t.kind = "start" /\ t.turn = turn[p]
      /\ UNCHANGED <<s3, lease, leading, term, turn>>
  BY TaskStepFrame DEF TypeOK, Latest, Starts
<1>2. p \notin t.peers /\ t.at # "refuse" /\ ~Over(p, t)
  BY <1>1 DEF Business, Over, Current
<1>3. ~Fault
  BY FaultType DEF TypeOK
<1>4. /\ (\A u \in Latest(p) : u.at \in {"list", "peers"}) => late[p] \/ label[p] = "leader"
      /\ \A q \in Pods \ {p} : label[q] = "leader" =>
            late[q] \/ \E u \in Latest(p) : u.at # "peers" \/ q \in u.peers
  BY DEF Labels
<1>5. ASSUME NEW u \in Task, u.kind = "start", u.turn = t.turn, Replace(p, t, {u}),
             u.at \in {"list", "peers"} =>
                \/ label'[p] = "leader"
                \/ t.at \in {"list", "peers"} /\ label'[p] = label[p] /\ late'[p] = late[p],
             \A q \in Pods \ {p} :
                label'[q] = "leader" => u.at # "peers" \/ q \in u.peers
                                        \/ (late'[q] = late[q] /\ label[q] = "leader" /\ t.at = "peers" /\ q \notin t.peers)
      PROVE  Labels(p)'
  <2>1. Latest(p)' = (Latest(p) \ {t}) \cup {u}
    BY <1>1, <1>5, ReplaceType DEF Latest, Starts
  <2>2. (\A v \in Latest(p)' : v.at \in {"list", "peers"}) => late'[p] \/ label'[p] = "leader"
    BY <1>4, <1>5, <2>1
  <2>3. ASSUME NEW q \in Pods \ {p}, label'[q] = "leader"
        PROVE  late'[q] \/ \E v \in Latest(p)' : v.at # "peers" \/ q \in v.peers
    BY <1>4, <1>5, <2>1, <2>3
  <2> QED BY <2>2, <2>3 DEF Labels
<1> USE DEF local, StartSteps
<1>6. CASE \/ StartBegin(p, t) \/ AskToPromote(p, t) \/ Promoted(p, t) \/ Applied(p, t)
  <2>1. \E s \in {"token", "promote", "apply", "label"} : Replace(p, t, {At(t, s)})
    BY <1>1, <1>6 DEF StartBegin, AskToPromote, Promoted, Applied
  <2> QED BY <1>1, <1>5, <2>1, AtFacts
<1>7. CASE ReadToken(p, t)
  <2>1. PICK n \in Nat : Replace(p, t, {[At(t, "answer") EXCEPT !.fence = n]})
    BY <1>7 DEF ReadToken, TypeOK
  <2>2. PICK u \in Task : u.kind = "start" /\ u.turn = t.turn /\ u.at = "answer"
                          /\ Replace(p, t, {u})
    BY <1>1, <2>1, WithFence
  <2> QED BY <1>5, <2>2
<1>8. CASE LabelLeader(p, t)
  <2>1. Replace(p, t, {At(t, "list")}) /\ label'[p] = "leader"
    BY <1>8, SetPodRoleType DEF LabelLeader
  <2> QED BY <1>1, <1>5, <2>1, AtFacts
<1>9. CASE ListPeers(p, t)
  <2> DEFINE P == {q \in Pods \ {p} : label[q] = "leader"}
  <2>1. Replace(p, t, {[At(t, "peers") EXCEPT !.peers = P]}) /\ UNCHANGED <<label, late>>
        /\ t.at = "list" /\ P \in SUBSET Pods
    BY <1>3, <1>9 DEF ListPeers, routing
  <2>2. PICK u \in Task : /\ u.kind = "start" /\ u.turn = t.turn /\ u.at = "peers"
                          /\ u.peers = P /\ Replace(p, t, {u})
    <3> HIDE DEF P
    <3>1. LET v == [At(t, "peers") EXCEPT !.peers = P] IN
          v \in Task /\ v.kind = "start" /\ v.turn = t.turn /\ v.at = "peers" /\ v.peers = P
      BY <1>1, <2>1, WithPeers
    <3> QED BY <2>1, <3>1
  <2> QED BY <1>5, <2>1, <2>2
<1>10. CASE DemotePeer(p, t)
  <2>1. PICK q \in t.peers : /\ SetPodRole(p, t, q, "standby") /\ t.at = "peers"
                             /\ Replace(p, t, {[t EXCEPT !.peers = @ \ {q}]})
    BY <1>10 DEF DemotePeer
  <2>2. PICK u \in Task : /\ u.kind = "start" /\ u.turn = t.turn /\ u.at = "peers"
                          /\ u.peers = t.peers \ {q} /\ Replace(p, t, {u})
    BY <1>1, <2>1, FewerPeers
  <2>3. /\ q \in Pods /\ q # p /\ label'[q] = "standby"
        /\ \A r \in Pods \ {q} : label'[r] = label[r] /\ late'[r] = late[r]
    BY <1>1, <1>2, <2>1, KindOfStep, SetPodRoleType
  <2> QED BY <1>5, <2>1, <2>2, <2>3
<1>11. CASE SpawnJobs(p, t)
  <2>1. tasks'[p] = tasks[p] \ {t} /\ UNCHANGED <<label, late>> /\ t.at = "peers" /\ t.peers = {}
    BY <1>11, ReplaceType DEF SpawnJobs, routing
  <2>2. Latest(p)' = Latest(p) \ {t}
    BY <1>1, <2>1 DEF Latest, Starts
  <2> QED BY <1>4, <2>1, <2>2 DEF Labels
<1> QED
  BY <1>1, <1>2, <1>3, <1>6, <1>7, <1>8, <1>9, <1>10, <1>11, KindOfStep
     DEF TaskStep, PromoteFails, ApplyFails, RefuseToLead, StopBegin, Demoted,
         DemoteTimeout, LabelStandby

\* The labels are right once start_leading has ended, and stay so until a late
\* task writes one.
LEMMA LabelsStep ==
    ASSUME RouteInv, [Next]_vars, NEW q \in Pods PROVE Labels(q)'
<1>1. /\ TypeOK /\ Holding /\ Labels(q)
      /\ \A p \in Pods : OldTurns(p) /\ Business(p)
  BY DEF RouteInv, JobsInv, JobInv
<1>2. faults \in Nat /\ faults' \in Nat /\ (faults > 0 => faults' > 0)
  BY <1>1, FaultsGrow DEF TypeOK
<1> SUFFICES ASSUME s3', faults' = 0, Current(q)' PROVE Labels(q)'
  BY DEF Labels
<1>3. faults = 0
  BY <1>2
<1>4. CASE OnStarted(q)
  <2>1. /\ turn[q] + 1 \in Nat /\ turn'[q] = turn[q] + 1
        /\ tasks'[q] = tasks[q] \cup {Spawned("start", turn[q] + 1)}
    BY <1>1, <1>4 DEF OnStarted, TypeOK
  <2>2. PICK v \in Latest(q)' : v.at = "spawned"
    BY <2>1, SpawnedFacts DEF Latest, Starts
  <2> QED BY <2>2 DEF Labels
<1>5. ASSUME s3, Current(q), Latest(q)' = Latest(q),
             late'[q] \/ (label'[q] = label[q] /\ late'[q] = late[q]),
             \A r \in Pods \ {q} : \/ label'[r] = label[r] /\ late'[r] = late[r]
                                   \/ label'[r] = "standby" \/ late'[r]
      PROVE  Labels(q)'
  <2>1. /\ (\A t \in Latest(q) : t.at \in {"list", "peers"}) => late[q] \/ label[q] = "leader"
        /\ \A r \in Pods \ {q} : label[r] = "leader" =>
              late[r] \/ \E t \in Latest(q) : t.at # "peers" \/ r \in t.peers
    BY <1>1, <1>3, <1>5 DEF Labels
  <2> QED BY <1>5, <2>1 DEF Labels
<1>6. CASE ~OnStarted(q)
  <2>1. Current(q)
    BY <1>1, <1>6, CurrentBefore
  <2>2. ASSUME NEW p \in Pods, GrantLease(p) PROVE Labels(q)'
    BY <1>5, <2>1, <2>2 DEF GrantLease, routing, Latest, Starts
  <2>3. CASE VacateLease
    BY <1>5, <2>1, <2>3 DEF VacateLease, routing, Latest, Starts
  <2>4. ASSUME NEW p \in Pods \ {q}, OnStarted(p) PROVE Labels(q)'
    BY <1>1, <1>5, <2>1, <2>4 DEF OnStarted, TypeOK, routing, Latest, Starts
  <2>5. ASSUME NEW p \in Pods, OnStopped(p) \/ Crash(p) PROVE Labels(q)'
    <3>1. p # q
      BY <1>1, <2>5 DEF Current, OnStopped, Election!Stop, Crash, TypeOK
    <3>2. s3 /\ tasks'[q] = tasks[q] /\ turn'[q] = turn[q]
      BY <1>1, <2>5, <3>1 DEF OnStopped, Crash, TypeOK
    <3>3. \A r \in Pods : \/ label'[r] = label[r] /\ late'[r] = late[r]
                          \/ r = p /\ label'[r] = "standby"
      <4>1. CASE OnStopped(p)
        BY <4>1 DEF OnStopped, routing
      <4>2. CASE Crash(p)
        <5>1. CASE UNCHANGED label /\ late' = [late EXCEPT ![p] = s3 /\ @]
          <6>1. \A r \in Pods \ {p} : late'[r] = late[r]
            BY <1>1, <5>1 DEF TypeOK
          <6>2. late'[p] = (s3 /\ late[p]) /\ late[p] \in BOOLEAN
            BY <1>1, <5>1 DEF TypeOK
          <6> QED BY <3>2, <5>1, <6>1, <6>2
        <5>2. CASE label' = [label EXCEPT ![p] = "standby"] /\ late' = [late EXCEPT ![p] = FALSE]
          BY <1>1, <5>2 DEF TypeOK
        <5> QED BY <4>2, <5>1, <5>2 DEF Crash
      <4> QED BY <2>5, <4>1, <4>2
    <3> QED BY <1>5, <2>1, <3>1, <3>2, <3>3 DEF Latest, Starts
  <2>6. ASSUME NEW p \in Pods, NEW t \in tasks[p], TaskStep(p, t) PROVE Labels(q)'
    <3>1. /\ UNCHANGED <<s3, turn>> /\ (p # q => tasks'[q] = tasks[q])
          /\ t \in Task /\ t.kind \in {"start", "stop"} /\ t.turn \in Nat /\ turn[p] \in Nat
      BY <1>1, <2>6, TaskStepFrame, KindOfStep DEF TypeOK
    <3>2. CASE p = q /\ t \in Latest(q)
      BY <1>1, <1>3, <2>1, <2>6, <3>1, <3>2, OwnLabels
    <3>3. CASE ~(p = q /\ t \in Latest(q))
      <4>1. Latest(q)' = Latest(q)
        <5>1. CASE p # q
          BY <3>1, <5>1 DEF Latest, Starts
        <5>2. CASE p = q
          <6>1. PICK S : Heirs(q, t, S)
            BY <1>1, <2>6, <5>2, TaskHeirs
          <6> QED BY <2>6, <3>1, <3>3, <5>2, <6>1, LatestHeirs
        <5> QED BY <5>1, <5>2
      <4>2. Over(p, t) \/ (p # q /\ t.kind = "stop")
        <5>1. CASE t.kind = "start"
          <6>1. leading[p] /\ t.turn = turn[p] /\ term[p] = lease.transitions =>
                   p = q /\ t \in Latest(q)
            BY <1>1, <2>1, <2>6, <5>1 DEF Holding, Current, Latest, Starts
          <6> QED BY <3>3, <5>1, <6>1 DEF Over
        <5>2. CASE t.kind = "stop"
          <6>1. CASE p = q
            <7>1. leading[p] /\ t \in Stops(p)
              BY <2>1, <2>6, <5>2, <6>1 DEF Current, Stops
            <7>2. t.turn < turn[p]
              BY <1>1, <7>1 DEF OldTurns
            <7> QED BY <3>1, <5>2, <7>2 DEF Over
          <6> QED BY <5>2, <6>1
        <5> QED BY <3>1, <5>1, <5>2
      <4>3. ASSUME NEW r \in Pods
            PROVE  \/ label'[r] = label[r] /\ late'[r] = late[r]
                   \/ late'[r]
                   \/ r # q /\ label'[r] = "standby"
        <5>1. \/ label'[r] = label[r] /\ late'[r] = late[r]
              \/ /\ late'[r] = Over(p, t)
                 /\ \/ LabelLeader(p, t) /\ r = p /\ label'[r] = "leader"
                    \/ label'[r] = "standby" /\ (DemotePeer(p, t) \/ r = p)
          BY <1>1, <2>6, <3>1, OneWriter
        <5>2. CASE Over(p, t)
          BY <5>1, <5>2
        <5>3. CASE p # q /\ t.kind = "stop"
          <6>1. ~LabelLeader(p, t) /\ ~DemotePeer(p, t)
            BY <3>1, <5>3, KindOfStep DEF LabelLeader, DemotePeer
          <6> QED BY <5>1, <5>3, <6>1
        <5> QED BY <4>2, <5>2, <5>3
      <4> QED BY <1>5, <2>1, <3>1, <4>1, <4>3
    <3> QED BY <3>2, <3>3
  <2>7. CASE UNCHANGED vars
    BY <1>5, <2>1, <2>7 DEF vars, outside, routing, Latest, Starts
  <2>8. ASSUME NEW p \in Pods, JobsReturn(p) PROVE Labels(q)'
    BY <1>5, <2>1, <2>8, JobsReturnFrame DEF Latest, Starts
  <2> QED BY <1>6, <2>2, <2>3, <2>4, <2>5, <2>6, <2>7, <2>8 DEF Next, Working
<1> QED BY <1>4, <1>6

\* Readiness follows the terms where it is what routes.
LEMMA ReadinessStep ==
    ASSUME RouteInv, [Next]_vars, NEW q \in Pods PROVE Readiness(q)'
<1>1. TypeOK /\ Readiness(q) /\ OldTurns(q) /\ Business(q)
  BY DEF RouteInv, JobsInv, JobInv
<1>2. faults \in Nat /\ faults' \in Nat /\ (faults > 0 => faults' > 0)
  BY <1>1, FaultsGrow DEF TypeOK
<1> SUFFICES ASSUME ~s3' PROVE Readiness(q)'
  BY DEF Readiness
<1>3. CASE /\ UNCHANGED s3 /\ leading'[q] = leading[q] /\ tasks'[q] = tasks[q]
           /\ ready'[q] = ready[q] /\ late'[q] = late[q] /\ turn'[q] = turn[q]
  BY <1>1, <1>2, <1>3 DEF Readiness, Stops, Latest, Starts
<1>4. CASE (\E p \in Pods : GrantLease(p) \/ JobsReturn(p)) \/ VacateLease \/ UNCHANGED vars
  BY <1>3, <1>4, JobsReturnFrame
     DEF GrantLease, Election!Grant, VacateLease, Election!Vacate, vars, outside, election,
         local, routing
<1>5. ASSUME NEW p \in Pods, OnStarted(p) PROVE Readiness(q)'
  <2>1. CASE p # q
    BY <1>1, <1>3, <1>5, <2>1 DEF OnStarted, Election!Start, local, routing, TypeOK
  <2>2. CASE p = q
    <3>1. /\ turn[q] + 1 \in Nat /\ turn'[q] = turn[q] + 1 /\ leading'[q]
          /\ tasks'[q] = tasks[q] \cup {Spawned("start", turn[q] + 1)}
      BY <1>1, <1>5, <2>2 DEF OnStarted, Election!Start, TypeOK
    <3>2. Latest(q)' # {}
      BY <3>1, SpawnedFacts DEF Latest, Starts
    <3> QED BY <3>1, <3>2 DEF Readiness
  <2> QED BY <2>1, <2>2
<1>6. ASSUME NEW p \in Pods, OnStopped(p) PROVE Readiness(q)'
  <2>1. CASE p # q
    BY <1>1, <1>3, <1>6, <2>1 DEF OnStopped, Election!Stop, TypeOK, local, routing
  <2>2. CASE p = q
    <3>1. /\ ~leading'[q] /\ turn[q] \in Nat /\ turn'[q] = turn[q]
          /\ Spawned("stop", turn[q]) \in tasks'[q]
      BY <1>1, <1>6, <2>2 DEF OnStopped, Election!Stop, TypeOK
    <3>2. \E t \in Stops(q)' : t.at = "spawned" /\ t.turn = turn'[q]
      BY <3>1, SpawnedFacts DEF Stops
    <3> QED BY <3>1, <3>2 DEF Readiness
  <2> QED BY <2>1, <2>2
<1>7. ASSUME NEW p \in Pods, Crash(p) PROVE Readiness(q)'
  <2>1. CASE p # q
    <3>1. late'[q] = late[q]
      BY <1>1, <1>7, <2>1 DEF Crash, TypeOK
    <3> QED BY <1>1, <1>3, <1>7, <2>1, <3>1 DEF Crash, TypeOK
  <2>2. CASE p = q
    <3>1. ~leading'[q] /\ ready'[q] = s3 /\ UNCHANGED s3
      BY <1>1, <1>7, <2>2 DEF Crash, TypeOK
    <3> QED BY <3>1 DEF Readiness
  <2> QED BY <2>1, <2>2
<1>8. ASSUME NEW p \in Pods, NEW t \in tasks[p], TaskStep(p, t) PROVE Readiness(q)'
  <2>1. UNCHANGED <<s3, leading, turn>>
        /\ (p # q => tasks'[q] = tasks[q] /\ ready'[q] = ready[q])
    BY <1>1, <1>8, TaskStepFrame
  <2> SUFFICES ASSUME faults' = 0 PROVE Readiness(q)'
    BY DEF Readiness
  <2>2. t \in Task /\ ~Fault /\ (t.kind = "start" \/ t.kind = "stop")
    BY <1>1, <1>8, KindOfStep, FaultType DEF TypeOK
  <2>3. t.at \in {"spawned", "apply"} \/ p # q
    BY <1>1, <1>2, <1>8, <2>1 DEF Business
  <2>4. CASE p # q
    <3>1. late'[q] = late[q]
      <4>1. CASE Applied(p, t) \/ StopBegin(p, t)
        BY <1>1, <2>1, <2>4, <4>1, SetReadyType DEF Applied, StopBegin
      <4>2. CASE t.at \notin {"spawned", "apply"}
        <5>1. Business(p)
          BY DEF RouteInv
        <5>2. t.at = "refuse" /\ faults > 0
          BY <1>8, <2>1, <4>2, <5>1 DEF Business
        <5> QED BY <1>2, <5>2
      <4>3. CASE StartBegin(p, t) \/ ApplyFails(p, t)
        BY <4>3 DEF StartBegin, ApplyFails, routing
      <4> QED
        BY <1>8, <2>2, <4>1, <4>2, <4>3, KindOfStep
           DEF TaskStep, ReadToken, AskToPromote, Promoted, PromoteFails, RefuseToLead,
               LabelLeader, ListPeers, DemotePeer, SpawnJobs, Demoted, DemoteTimeout,
               LabelStandby
    <3> QED BY <1>3, <2>1, <2>4, <3>1
  <2>5. CASE p = q
    <3>1. PICK S : Heirs(q, t, S)
      BY <1>1, <1>8, <2>5, TaskHeirs
    <3>2. Latest(q)' = (Latest(q) \ {t}) \cup (IF t \in Latest(q) THEN S ELSE {})
      BY <1>8, <2>1, <2>5, <3>1, LatestHeirs
    <3>3. CASE StartBegin(q, t)
      <4>1. At(t, "apply") \in Task /\ At(t, "apply").kind = "start" /\ At(t, "apply").turn = t.turn
        BY <2>2, <3>3, AtFacts DEF StartBegin, StartSteps
      <4>2. /\ tasks'[q] = (tasks[q] \ {t}) \cup {At(t, "apply")} /\ t.kind = "start"
            /\ ready'[q] = ready[q] /\ late'[q] = late[q] /\ UNCHANGED faults
        BY <1>1, <2>1, <3>3, <4>1, ReplaceType DEF StartBegin, routing
      <4>3. Stops(q)' = Stops(q) /\ (Latest(q)' = {} => Latest(q) = {})
        BY <1>8, <2>1, <2>5, <4>1, <4>2 DEF Stops, Latest, Starts
      <4> QED BY <1>1, <2>1, <4>2, <4>3 DEF Readiness
    <3>4. CASE Applied(q, t)
      <4>1. t.kind = "start" /\ ready'[q] /\ late'[q] = Over(q, t)
        BY <1>1, <2>1, <2>2, <3>4, SetReadyType, KindOfStep DEF Applied
      <4> QED BY <2>1, <4>1 DEF Readiness, Over
    <3>5. CASE StopBegin(q, t)
      <4>1. t \in Stops(q) /\ t.at = "spawned" /\ ~ready'[q]
        BY <1>1, <1>8, <2>1, <2>5, <3>5, SetReadyType DEF StopBegin, Stops
      <4>2. ~leading[q]
        BY <1>1, <4>1 DEF OldTurns
      <4> QED BY <2>1, <4>1, <4>2 DEF Readiness
    <3> QED
      BY <1>8, <2>2, <2>3, <2>5, <3>3, <3>4, <3>5, KindOfStep
         DEF TaskStep, ReadToken, AskToPromote, Promoted, PromoteFails, ApplyFails,
             RefuseToLead, LabelLeader, ListPeers, DemotePeer, SpawnJobs, Demoted,
             DemoteTimeout, LabelStandby
  <2> QED BY <2>4, <2>5
<1> QED BY <1>4, <1>5, <1>6, <1>7, <1>8 DEF Next, Working

\* "so the Service routes to this pod only" (start_leading): once all is quiet,
\* no request has failed and no pod was last written to by a task whose term
\* was over, the Service sends traffic to the pod that leads the current term
\* and to no other, by its label or by its readiness, whatever pods crashed,
\* restarted with an old label or led before and however their tasks overlapped.
\* So a late write, which NothingElseRoutes does not except, is the only way for
\* traffic to go astray.
THEOREM TrafficFollowsTheLeader == Spec => []RoutedToTheLeader
<1>1. Init => RouteInv
  <2> SUFFICES ASSUME Init PROVE RouteInv
    OBVIOUS
  <2>1. JobsInv
    BY JobsInit
  <2>2. /\ \A p \in Pods : ~leading[p] /\ tasks[p] = {} /\ ready[p] = s3
        /\ lease.holder = NoPod
    BY DEF Init, Election!Init
  <2>3. Holding
    BY <2>2 DEF Holding, Current
  <2>4. \A p \in Pods : Business(p) /\ Labels(p) /\ Readiness(p)
    BY <2>2 DEF Business, Labels, Readiness, Current
  <2> QED BY <2>1, <2>3, <2>4 DEF RouteInv
<1>2. RouteInv /\ [Next]_vars => RouteInv'
  <2> SUFFICES ASSUME RouteInv, [Next]_vars PROVE RouteInv'
    OBVIOUS
  <2>1. JobsInv' /\ Holding'
    BY JobsStep, HoldingStep DEF RouteInv, JobsInv
  <2>2. \A p \in Pods : Business(p)'
    BY BusinessStep DEF RouteInv, JobsInv
  <2>3. \A p \in Pods : Labels(p)' /\ Readiness(p)'
    BY LabelsStep, ReadinessStep
  <2> QED BY <2>1, <2>2, <2>3 DEF RouteInv
<1>3. RouteInv => RoutedToTheLeader
  <2> SUFFICES ASSUME RouteInv, NEW p \in Pods, faults = 0,
                      \A q \in Pods : tasks[q] = {} /\ ~late[q], Current(p),
                      \A q \in Pods \ {p} : ~leading[q]
               PROVE  \A q \in Pods : Routed(q) <=> q = p
    BY DEF RoutedToTheLeader, Current
  <2>1. Labels(p) /\ \A q \in Pods : Readiness(q) /\ Latest(q) = {}
    BY DEF RouteInv, Latest, Starts
  <2>2. CASE s3
    BY <2>1, <2>2 DEF Labels, Routed
  <2>3. CASE ~s3
    BY <2>1, <2>3 DEF Readiness, Routed, Stops, Current
  <2> QED BY <2>2, <2>3
<1> QED BY <1>1, <1>2, <1>3, PTL DEF Spec

=============================================================================
