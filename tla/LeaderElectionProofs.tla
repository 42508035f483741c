----------------------- MODULE LeaderElectionProofs -------------------------
(* Proofs about the Lease election, for every set of pods and every timing  *)
(* that satisfies the assumptions of LeaderElection.                        *)
EXTENDS LeaderElection, TLAPS

-----------------------------------------------------------------------------
(* The inductive invariant, in parts.                                       *)

\* Nothing is under way outside an attempt, a response is waited for at most
\* ReplyDelay, a leader sleeps at most RetryPeriod, and only a pod that is
\* past its acquisition believes it leads.
Orderly ==
    \A p \in Pods :
        /\ ~Attempting(p) => step[p] = "start"
        /\ Landed(p) => wait[p] <= ReplyDelay
        /\ role[p] = "sleep" => wait[p] <= RetryPeriod
        /\ leading[p] <=> role[p] \in {"renew", "sleep", "release", "released"}

\* Before the Lease exists nobody has observed, written or led.
Unborn ==
    ~lease.exists =>
        /\ lease.holder = NoPod /\ lease.transitions = 0
        /\ \A p \in Pods : /\ ~fresh[p] /\ ~seen[p] /\ ~Landed(p) /\ ~leading[p]
                           /\ observed[p] = NoRecord

\* What a pod knows of the current Lease.
Knows(p) ==
    /\ seen[p] => observed[p] = [holder |-> lease.holder,
                                 transitions |-> lease.transitions]
    /\ fresh[p] /\ observed[p].holder = p =>
          lease.holder = p /\ lease.transitions = observed[p].transitions
    /\ Landed(p) => ~seen[p]
    /\ fresh[p] /\ Landed(p) =>
          lease.holder = p /\ lease.transitions = request[p]

Knowledge == \A p \in Pods : Knows(p)

\* What the write a pod is about to make says.
Intends(p) ==
    /\ step[p] = "fast" => observed[p].holder = p
    /\ step[p] \in {"fast", "fastLanded", "update", "landed"}
         /\ observed[p].holder = p => request[p] = observed[p].transitions
    /\ step[p] = "create" => request[p] = 0
    /\ step[p] = "update" /\ fresh[p] =>
          /\ seen[p]
          /\ lease.holder \in {p, NoPod} \/ obsAge[p] = LeaseDuration
          /\ request[p] = IF lease.holder = p THEN lease.transitions
                                             ELSE lease.transitions + 1

Intent == \A p \in Pods : Attempting(p) => Intends(p)

\* A record that may overwrite the Lease without breaking its counter.
Lawful(r) ==
    \/ /\ lease.exists
       /\ r.transitions = lease.transitions /\ r.holder \in {lease.holder, NoPod}
    \/ /\ lease.exists
       /\ r.transitions = lease.transitions + 1 /\ r.holder \in Pods \ {lease.holder}
    \/ ~lease.exists /\ r.transitions = 0 /\ r.holder \in Pods

LateWritesLawful == \A r \in abandoned : Lawful(r)

\* p may count on the Lease: it holds it and has not given up.
Protected(p) ==
    \/ role[p] \in {"renew", "sleep"}
    \/ role[p] = "acquire" /\ Landed(p)

\* The longest p may go on counting on it without another write.
Remaining(p) ==
    IF Landed(p) THEN wait[p] + RetryPeriod + RenewDeadline
    ELSE IF role[p] = "sleep" THEN wait[p] + RenewDeadline
    ELSE deadline[p]

\* A protected pod that serves its timers holds the Lease, no late write can
\* take it, and it gives up before anyone who watches it may.
Secure(p) ==
    Protected(p) =>
        /\ lease.holder = p
        /\ \A r \in abandoned : r.holder = p
        /\ \A q \in Pods \ {p} : seen[q] =>
              obsAge[q] + Remaining(p) <= ReplyDelay + RetryPeriod + RenewDeadline

Exclusion == \A p \in Pods \ MayStall : Secure(p)

\* p leads, or is about to learn that it does, under counter n.
Claims(p, n) ==
    \/ leading[p] /\ term[p] = n
    \/ role[p] = "acquire" /\ Landed(p) /\ request[p] = n

\* No two pods claim the same counter, and the current one is claimed only
\* by the pod that holds, or has just vacated, the Lease.
TermClaims ==
    \A p \in Pods : \A n \in Nat : Claims(p, n) =>
        /\ n <= lease.transitions
        /\ n = lease.transitions => lease.holder \in {p, NoPod}
        /\ \A q \in Pods : Claims(q, n) => q = p

\* A leader that serves its timers writes only the counter of its term.
OwnCounter ==
    \A p \in Pods \ MayStall : \A n \in Nat : Claims(p, n) =>
        /\ lease.holder = p => lease.transitions = n
        /\ \A r \in abandoned : r.holder = p => r.transitions = n

IInv == /\ Orderly /\ Unborn /\ Knowledge /\ Intent /\ LateWritesLawful
        /\ Exclusion /\ TermClaims /\ OwnCounter

-----------------------------------------------------------------------------
\* Every variable of the election stays in its type (cluster.rs: timers
\* within the configured durations, records with a pod or nobody as holder).
THEOREM TypeCorrect == Spec => []TypeOK
<1> USE PodsAssumption, TimingAssumption, MaxTransitionsAssumption
<1>1. Init => TypeOK
  BY DEF Init, TypeOK, NoRecord, Record, Roles, Steps
<1>2. TypeOK /\ [Next]_vars => TypeOK'
  <2> SUFFICES ASSUME TypeOK, [Next]_vars PROVE TypeOK'
    OBVIOUS
  <2> USE DEF TypeOK, Record, NoRecord, Roles, Steps, server, view, flags
  <2>1. ASSUME NEW p \in Pods, StartProcess(p) \/ StartTerm(p) PROVE TypeOK'
    BY <2>1 DEF StartProcess, StartTerm
  <2>2. ASSUME NEW p \in Pods, EndTerm(p) PROVE TypeOK'
    <3>1. Pending(p) \subseteq Record
      BY DEF Pending
    <3>2. /\ lease' \in [exists : BOOLEAN, holder : Pods \cup {NoPod}, transitions : Nat]
          /\ abandoned' \subseteq Record
      BY <2>2, <3>1 DEF EndTerm, Abandon
    <3>3. PICK r \in Roles, w \in 0 .. LeaseDuration + RetryPeriod :
            role' = [role EXCEPT ![p] = r] /\ wait' = [wait EXCEPT ![p] = w]
      BY <2>2 DEF EndTerm
    <3> QED BY <2>2, <3>2, <3>3 DEF EndTerm, ForgetTerm
  <2>3. ASSUME NEW p \in Pods, StepDown(p) PROVE TypeOK'
    BY <2>3 DEF StepDown
  <2>17. ASSUME NEW p \in Pods, Shutdown(p) PROVE TypeOK'
    <3>1. CASE role[p] = "backoff"
      BY <2>17, <3>1 DEF Shutdown
    <3>2. CASE role[p] # "backoff"
      BY <2>17, <3>2 DEF Shutdown
    <3> QED BY <3>1, <3>2
  <2>4. ASSUME NEW p \in Pods, Crash(p) PROVE TypeOK'
    BY <2>4 DEF Crash, Abandon, Pending, ForgetTerm
  <2>5. ASSUME NEW p \in Pods, StartAttempt(p) PROVE TypeOK'
    <3>1. CASE IsLeader(p) /\ IsLeaseValid(p)
      <4>1. observed[p].transitions \in Nat
        OBVIOUS
      <4> QED BY <2>5, <3>1, <4>1 DEF StartAttempt, GoTo
    <3>2. CASE ~(IsLeader(p) /\ IsLeaseValid(p))
      BY <2>5, <3>2 DEF StartAttempt, GoTo
    <3> QED BY <3>1, <3>2
  <2>6. ASSUME NEW p \in Pods, GetRecord(p) PROVE TypeOK'
    <3>1. /\ fresh' \in [Pods -> BOOLEAN]
          /\ seen' \in [Pods -> BOOLEAN]
          /\ observed' \in [Pods -> Record]
          /\ obsAge' \in [Pods -> 0 .. LeaseDuration]
      <4>1. fresh' = [fresh EXCEPT ![p] = TRUE] /\ seen' = [seen EXCEPT ![p] = TRUE]
        BY <2>6 DEF GetRecord
      <4>2. \/ UNCHANGED <<observed, obsAge>>
            \/ /\ observed' = [observed EXCEPT ![p] =
                    [holder |-> lease.holder, transitions |-> lease.transitions]]
               /\ obsAge' = [obsAge EXCEPT ![p] = 0]
        BY ONLY <2>6 DEF GetRecord
      <4>3. [holder |-> lease.holder, transitions |-> lease.transitions] \in Record
        OBVIOUS
      <4>4. observed' \in [Pods -> Record]
        BY <4>2, <4>3
      <4>5. obsAge' \in [Pods -> 0 .. LeaseDuration]
        BY <4>2
      <4> QED BY <4>1, <4>4, <4>5
    <3>2. UNCHANGED <<server, role, deadline, flags>>
      BY <2>6 DEF GetRecord, GoTo, Failed
    <3>3. /\ step' \in [Pods -> Steps]
          /\ wait' \in [Pods -> 0 .. LeaseDuration + RetryPeriod]
      <4>1. \/ step' = [step EXCEPT ![p] = "start"] /\ wait' = [wait EXCEPT ![p] = RetryPeriod]
            \/ step' = [step EXCEPT ![p] = "update"] /\ wait' = wait
        BY ONLY <2>6 DEF GetRecord, GoTo, Failed
      <4> QED BY <4>1
    <3>4. request' \in [Pods -> Nat]
      <4>1. NextTransitions(p, lease.transitions) \in Nat
        BY DEF NextTransitions
      <4>2. \/ UNCHANGED request
            \/ request' = [request EXCEPT ![p] = NextTransitions(p, lease.transitions)]
        BY ONLY <2>6 DEF GetRecord
      <4> QED BY <4>1, <4>2
    <3> QED BY <3>1, <3>2, <3>3, <3>4
  <2>7. ASSUME NEW p \in Pods, GetNotFound(p) PROVE TypeOK'
    BY <2>7 DEF GetNotFound, GoTo
  <2>18. ASSUME NEW p \in Pods, GetError(p) PROVE TypeOK'
    BY <2>18 DEF GetError, Failed
  <2>8. ASSUME NEW p \in Pods, LandWrite(p) PROVE TypeOK'
    BY <2>8 DEF LandWrite, Write
  <2>9. ASSUME NEW p \in Pods, ReplyArrives(p) PROVE TypeOK'
    <3>1. [holder |-> p, transitions |-> request[p]] \in Record
      OBVIOUS
    <3>2. /\ observed' \in [Pods -> Record]
          /\ obsAge' \in [Pods -> 0 .. LeaseDuration]
          /\ UNCHANGED <<server, request, fresh, seen>>
      BY <2>9, <3>1 DEF ReplyArrives
    <3>3. /\ step' \in [Pods -> Steps]
          /\ UNCHANGED <<steppingDown, cancelled, shutdown>>
      BY <2>9 DEF ReplyArrives, Succeeded
    <3>4. /\ role' \in [Pods -> Roles]
          /\ term' \in [Pods -> Nat]
      BY <2>9 DEF ReplyArrives, Succeeded
    <3>7. leading' \in [Pods -> BOOLEAN]
      BY <2>9 DEF ReplyArrives, Succeeded
    <3>5. wait' \in [Pods -> 0 .. LeaseDuration + RetryPeriod]
      <4>1. 0 \in 0 .. LeaseDuration + RetryPeriod /\ RetryPeriod \in 0 .. LeaseDuration + RetryPeriod
        OBVIOUS
      <4> QED BY <2>9, <4>1 DEF ReplyArrives, Succeeded
    <3>6. deadline' \in [Pods -> 0 .. RenewDeadline]
      <4>1. 0 \in 0 .. RenewDeadline /\ RenewDeadline \in 0 .. RenewDeadline
        OBVIOUS
      <4> QED BY <2>9, <4>1 DEF ReplyArrives, Succeeded
    <3> QED BY <3>2, <3>3, <3>4, <3>5, <3>6, <3>7
  <2>10. ASSUME NEW p \in Pods, RequestFails(p) PROVE TypeOK'
    <3>1. abandoned' \subseteq Record /\ UNCHANGED lease
      BY <2>10 DEF RequestFails, Abandon, Pending
    <3>2. fresh' \in [Pods -> BOOLEAN]
      BY <2>10 DEF RequestFails, DropResponse, Landed, Attempting
    <3>3. /\ step' \in [Pods -> Steps]
          /\ wait' \in [Pods -> 0 .. LeaseDuration + RetryPeriod]
      <4>1. \/ step' = [step EXCEPT ![p] = "slow"] /\ wait' = [wait EXCEPT ![p] = 0]
            \/ step' = [step EXCEPT ![p] = "start"] /\ wait' = [wait EXCEPT ![p] = RetryPeriod]
        BY ONLY <2>10 DEF RequestFails
      <4>2. step' \in [Pods -> Steps]
        BY <4>1
      <4>3. wait' \in [Pods -> 0 .. LeaseDuration + RetryPeriod]
        BY <4>1
      <4> QED BY <4>2, <4>3
    <3> QED BY <2>10, <3>1, <3>2, <3>3 DEF RequestFails
  <2>11. ASSUME NEW p \in Pods, NextWindow(p) PROVE TypeOK'
    BY <2>11 DEF NextWindow
  <2>12. ASSUME NEW p \in Pods, StopRenewing(p) PROVE TypeOK'
    BY <2>12 DEF StopRenewing, Abandon, Pending, DropResponse, Landed, Attempting
  <2>13. ASSUME NEW p \in Pods, ReleaseLands(p) PROVE TypeOK'
    BY <2>13 DEF ReleaseLands, Write
  <2>14. CASE LandAbandoned
    BY <2>14 DEF LandAbandoned, Write
  <2>15. CASE Tick
    <3>1. obsAge' \in [Pods -> 0 .. LeaseDuration]
      <4>1. \A n \in 0 .. LeaseDuration : Older(n) \in 0 .. LeaseDuration
        BY DEF Older
      <4> QED BY <2>15, <4>1 DEF Tick
    <3>2. wait' \in [Pods -> 0 .. LeaseDuration + RetryPeriod]
      <4>1. \A n \in 0 .. LeaseDuration + RetryPeriod :
               Less(n) \in 0 .. LeaseDuration + RetryPeriod
        BY DEF Less
      <4> QED BY <2>15, <4>1 DEF Tick
    <3>3. deadline' \in [Pods -> 0 .. RenewDeadline]
      <4>1. \A n \in 0 .. RenewDeadline : Less(n) \in 0 .. RenewDeadline
        BY DEF Less
      <4> QED BY <2>15, <4>1 DEF Tick
    <3> QED BY <2>15, <3>1, <3>2, <3>3 DEF Tick
  <2>16. CASE UNCHANGED vars
    BY <2>16 DEF vars
  <2> QED
    BY <2>1, <2>2, <2>3, <2>4, <2>5, <2>6, <2>7, <2>8, <2>9, <2>10, <2>11,
       <2>12, <2>13, <2>14, <2>15, <2>16, <2>17, <2>18
       DEF Next, PodStep, TryAcquireOrRenew
<1> QED
  BY <1>1, <1>2, PTL DEF Spec


-----------------------------------------------------------------------------
\* What an accepted write leaves behind.
LEMMA WriteEffect ==
    ASSUME NEW r, NEW w, Write(r, w)
    PROVE  /\ lease'.exists /\ lease'.holder = r.holder
           /\ lease'.transitions = r.transitions
           /\ abandoned' = {}
           /\ \A q \in Pods : ~seen'[q] /\ (fresh'[q] <=> q = w)
BY DEF Write

\* The age of an observation stops at LeaseDuration.
LEMMA SaturatedAge ==
    \A n \in 0 .. LeaseDuration : ~(n < LeaseDuration) => n = LeaseDuration
BY TimingAssumption

\* No step leaves a request under way outside an attempt, or a timer beyond
\* its duration.
LEMMA OrderlyStep == TypeOK /\ Orderly /\ [Next]_vars => Orderly'
<1> USE PodsAssumption, TimingAssumption
<1> SUFFICES ASSUME TypeOK, Orderly, [Next]_vars PROVE Orderly'
  OBVIOUS
<1> USE DEF Orderly, Attempting, Landed, TypeOK, Record, NoRecord, server, view, flags
<1>1. ASSUME NEW p \in Pods, StartProcess(p) PROVE Orderly'
  BY <1>1 DEF StartProcess
<1>2. ASSUME NEW p \in Pods, StartTerm(p) PROVE Orderly'
  BY <1>2 DEF StartTerm
<1>3. ASSUME NEW p \in Pods, EndTerm(p) PROVE Orderly'
  BY <1>3 DEF EndTerm, ForgetTerm, Abandon, Pending
<1>4. ASSUME NEW p \in Pods, StepDown(p) PROVE Orderly'
  BY <1>4 DEF StepDown
<1>5. ASSUME NEW p \in Pods, Shutdown(p) PROVE Orderly'
  BY <1>5 DEF Shutdown
<1>6. ASSUME NEW p \in Pods, Crash(p) PROVE Orderly'
  BY <1>6 DEF Crash, ForgetTerm, Abandon, Pending
<1>7. ASSUME NEW p \in Pods, StartAttempt(p) PROVE Orderly'
  BY <1>7 DEF StartAttempt, GoTo, IsLeader
<1>8. ASSUME NEW p \in Pods, GetRecord(p) PROVE Orderly'
  BY <1>8 DEF GetRecord, GoTo, Failed, NextTransitions, IsLeader, IsLeaseValid
<1>9. ASSUME NEW p \in Pods, GetNotFound(p) PROVE Orderly'
  BY <1>9 DEF GetNotFound, GoTo
<1>10. ASSUME NEW p \in Pods, GetError(p) PROVE Orderly'
  BY <1>10 DEF GetError, Failed
<1>11. ASSUME NEW p \in Pods, LandWrite(p) PROVE Orderly'
  BY <1>11 DEF LandWrite, Write, Sending
<1>12. ASSUME NEW p \in Pods, ReplyArrives(p) PROVE Orderly'
  BY <1>12 DEF ReplyArrives, Succeeded
<1>13. ASSUME NEW p \in Pods, RequestFails(p) PROVE Orderly'
  BY <1>13 DEF RequestFails, Abandon, Pending, DropResponse
<1>14. ASSUME NEW p \in Pods, NextWindow(p) PROVE Orderly'
  BY <1>14 DEF NextWindow
<1>15. ASSUME NEW p \in Pods, StopRenewing(p) PROVE Orderly'
  BY <1>15 DEF StopRenewing, Abandon, Pending, DropResponse
<1>16. ASSUME NEW p \in Pods, ReleaseLands(p) PROVE Orderly'
  BY <1>16 DEF ReleaseLands, Write, Releasing, IsLeader
<1>17. CASE LandAbandoned
  BY <1>17 DEF LandAbandoned, Write
<1>18. CASE Tick
  BY <1>18 DEF Tick, Less, Older
<1>19. CASE UNCHANGED vars
  BY <1>19 DEF vars
<1> QED
  BY <1>1, <1>2, <1>3, <1>4, <1>5, <1>6, <1>7, <1>8, <1>9, <1>10,
     <1>11, <1>12, <1>13, <1>14, <1>15, <1>16, <1>17, <1>18, <1>19
     DEF Next, PodStep, TryAcquireOrRenew

\* Only the creation of the Lease ends the time before it.
LEMMA UnbornStep == TypeOK /\ Orderly /\ Unborn /\ [Next]_vars => Unborn'
<1> USE PodsAssumption, TimingAssumption
<1> SUFFICES ASSUME TypeOK, Orderly, Unborn, [Next]_vars PROVE Unborn'
  OBVIOUS
<1> USE DEF Orderly, Unborn, Attempting, Landed, TypeOK, Record, NoRecord, server, view, flags
<1>1. ASSUME NEW p \in Pods, StartProcess(p) PROVE Unborn'
  BY <1>1 DEF StartProcess
<1>2. ASSUME NEW p \in Pods, StartTerm(p) PROVE Unborn'
  BY <1>2 DEF StartTerm
<1>3. ASSUME NEW p \in Pods, EndTerm(p) PROVE Unborn'
  BY <1>3 DEF EndTerm, ForgetTerm, Abandon, Pending
<1>4. ASSUME NEW p \in Pods, StepDown(p) PROVE Unborn'
  BY <1>4 DEF StepDown
<1>5. ASSUME NEW p \in Pods, Shutdown(p) PROVE Unborn'
  BY <1>5 DEF Shutdown
<1>6. ASSUME NEW p \in Pods, Crash(p) PROVE Unborn'
  BY <1>6 DEF Crash, ForgetTerm, Abandon, Pending
<1>7. ASSUME NEW p \in Pods, StartAttempt(p) PROVE Unborn'
  BY <1>7 DEF StartAttempt, GoTo, IsLeader
<1>8. ASSUME NEW p \in Pods, GetRecord(p) PROVE Unborn'
  BY <1>8 DEF GetRecord, GoTo, Failed, NextTransitions, IsLeader, IsLeaseValid
<1>9. ASSUME NEW p \in Pods, GetNotFound(p) PROVE Unborn'
  BY <1>9 DEF GetNotFound, GoTo
<1>10. ASSUME NEW p \in Pods, GetError(p) PROVE Unborn'
  BY <1>10 DEF GetError, Failed
<1>11. ASSUME NEW p \in Pods, LandWrite(p) PROVE Unborn'
  BY <1>11 DEF LandWrite, Write, Sending
<1>12. ASSUME NEW p \in Pods, ReplyArrives(p) PROVE Unborn'
  BY <1>12 DEF ReplyArrives, Succeeded
<1>13. ASSUME NEW p \in Pods, RequestFails(p) PROVE Unborn'
  BY <1>13 DEF RequestFails, Abandon, Pending, DropResponse
<1>14. ASSUME NEW p \in Pods, NextWindow(p) PROVE Unborn'
  BY <1>14 DEF NextWindow
<1>15. ASSUME NEW p \in Pods, StopRenewing(p) PROVE Unborn'
  BY <1>15 DEF StopRenewing, Abandon, Pending, DropResponse
<1>16. ASSUME NEW p \in Pods, ReleaseLands(p) PROVE Unborn'
  BY <1>16 DEF ReleaseLands, Write, Releasing, IsLeader
<1>17. CASE LandAbandoned
  BY <1>17 DEF LandAbandoned, Write
<1>18. CASE Tick
  BY <1>18 DEF Tick, Less, Older
<1>19. CASE UNCHANGED vars
  BY <1>19 DEF vars
<1> QED
  BY <1>1, <1>2, <1>3, <1>4, <1>5, <1>6, <1>7, <1>8, <1>9, <1>10,
     <1>11, <1>12, <1>13, <1>14, <1>15, <1>16, <1>17, <1>18, <1>19
     DEF Next, PodStep, TryAcquireOrRenew

\* A write invalidates what every other pod knows of the Lease.
LEMMA KnowledgeStep ==
    TypeOK /\ Orderly /\ Unborn /\ Knowledge /\ Intent /\ [Next]_vars => Knowledge'
<1> USE PodsAssumption, TimingAssumption
<1> SUFFICES ASSUME TypeOK, Orderly, Unborn, Knowledge, Intent, [Next]_vars PROVE Knowledge'
  OBVIOUS
<1> USE DEF Orderly, Unborn, Knowledge, Intent, Knows, Intends, Attempting, Landed,
            TypeOK, Record, NoRecord, server, view, flags
<1>1. ASSUME NEW p \in Pods, StartProcess(p) PROVE Knowledge'
  BY <1>1 DEF StartProcess
<1>2. ASSUME NEW p \in Pods, StartTerm(p) PROVE Knowledge'
  BY <1>2 DEF StartTerm
<1>3. ASSUME NEW p \in Pods, EndTerm(p) PROVE Knowledge'
  BY <1>3 DEF EndTerm, ForgetTerm, Abandon, Pending
<1>4. ASSUME NEW p \in Pods, StepDown(p) PROVE Knowledge'
  BY <1>4 DEF StepDown
<1>5. ASSUME NEW p \in Pods, Shutdown(p) PROVE Knowledge'
  BY <1>5 DEF Shutdown
<1>6. ASSUME NEW p \in Pods, Crash(p) PROVE Knowledge'
  BY <1>6 DEF Crash, ForgetTerm, Abandon, Pending
<1>7. ASSUME NEW p \in Pods, StartAttempt(p) PROVE Knowledge'
  BY <1>7 DEF StartAttempt, GoTo, IsLeader
<1>8. ASSUME NEW p \in Pods, GetRecord(p) PROVE Knowledge'
  BY <1>8 DEF GetRecord, GoTo, Failed, NextTransitions, IsLeader, IsLeaseValid
<1>9. ASSUME NEW p \in Pods, GetNotFound(p) PROVE Knowledge'
  BY <1>9 DEF GetNotFound, GoTo
<1>10. ASSUME NEW p \in Pods, GetError(p) PROVE Knowledge'
  BY <1>10 DEF GetError, Failed
<1>11. ASSUME NEW p \in Pods, LandWrite(p) PROVE Knowledge'
  <2> DEFINE r == [holder |-> p, transitions |-> request[p]]
  <2>1. Write(r, p) /\ Sending(p) /\ UNCHANGED <<role, request, observed>>
    BY <1>11 DEF LandWrite
  <2>2. /\ lease'.holder = p /\ lease'.transitions = request[p]
        /\ \A q \in Pods : ~seen'[q] /\ (fresh'[q] <=> q = p)
    BY <2>1, WriteEffect
  <2>3. observed[p].holder = p => request[p] = observed[p].transitions
    BY <2>1 DEF Sending
  <2> QED
    BY <2>1, <2>2, <2>3
<1>12. ASSUME NEW p \in Pods, ReplyArrives(p) PROVE Knowledge'
  <2>1. /\ observed'[p] = [holder |-> p, transitions |-> request[p]]
        /\ \A q \in Pods \ {p} : observed'[q] = observed[q]
        /\ UNCHANGED <<server, request, fresh, seen>>
        /\ Landed(p)
    BY <1>12 DEF ReplyArrives
  <2>2. ~Landed(p)' /\ \A q \in Pods \ {p} : Landed(q)' => Landed(q)
    BY <1>12 DEF ReplyArrives, Succeeded
  <2> QED
    BY <2>1, <2>2
<1>13. ASSUME NEW p \in Pods, RequestFails(p) PROVE Knowledge'
  BY <1>13 DEF RequestFails, Abandon, Pending, DropResponse
<1>14. ASSUME NEW p \in Pods, NextWindow(p) PROVE Knowledge'
  BY <1>14 DEF NextWindow
<1>15. ASSUME NEW p \in Pods, StopRenewing(p) PROVE Knowledge'
  BY <1>15 DEF StopRenewing, Abandon, Pending, DropResponse
<1>16. ASSUME NEW p \in Pods, ReleaseLands(p) PROVE Knowledge'
  BY <1>16 DEF ReleaseLands, Write, Releasing, IsLeader
<1>17. CASE LandAbandoned
  <2>1. PICK r \in abandoned : Write(r, NoPod)
    BY <1>17 DEF LandAbandoned
  <2>2. \A q \in Pods : ~seen'[q] /\ ~fresh'[q]
    BY <2>1, WriteEffect
  <2> QED
    BY <2>2
<1>18. CASE Tick
  BY <1>18 DEF Tick, Less, Older
<1>19. CASE UNCHANGED vars
  BY <1>19 DEF vars
<1> QED
  BY <1>1, <1>2, <1>3, <1>4, <1>5, <1>6, <1>7, <1>8, <1>9, <1>10,
     <1>11, <1>12, <1>13, <1>14, <1>15, <1>16, <1>17, <1>18, <1>19
     DEF Next, PodStep, TryAcquireOrRenew

\* The record a pod is about to write stays right as long as its cached
\* version does.
LEMMA IntentStep ==
    TypeOK /\ Orderly /\ Unborn /\ Knowledge /\ Intent /\ [Next]_vars => Intent'
<1> USE PodsAssumption, TimingAssumption
<1> SUFFICES ASSUME TypeOK, Orderly, Unborn, Knowledge, Intent, [Next]_vars PROVE Intent'
  OBVIOUS
<1> USE DEF Orderly, Unborn, Knowledge, Intent, Knows, Intends, Attempting, Landed,
            TypeOK, Record, NoRecord, server, view, flags
<1>1. ASSUME NEW p \in Pods, StartProcess(p) PROVE Intent'
  BY <1>1 DEF StartProcess
<1>2. ASSUME NEW p \in Pods, StartTerm(p) PROVE Intent'
  BY <1>2 DEF StartTerm
<1>3. ASSUME NEW p \in Pods, EndTerm(p) PROVE Intent'
  BY <1>3 DEF EndTerm, ForgetTerm, Abandon, Pending
<1>4. ASSUME NEW p \in Pods, StepDown(p) PROVE Intent'
  BY <1>4 DEF StepDown
<1>5. ASSUME NEW p \in Pods, Shutdown(p) PROVE Intent'
  BY <1>5 DEF Shutdown
<1>6. ASSUME NEW p \in Pods, Crash(p) PROVE Intent'
  BY <1>6 DEF Crash, ForgetTerm, Abandon, Pending
<1>7. ASSUME NEW p \in Pods, StartAttempt(p) PROVE Intent'
  BY <1>7 DEF StartAttempt, GoTo, IsLeader
<1>8. ASSUME NEW p \in Pods, GetRecord(p) PROVE Intent'
  <2>1. /\ fresh'[p] /\ seen'[p]
        /\ observed'[p] = [holder |-> lease.holder, transitions |-> lease.transitions]
        /\ UNCHANGED <<server, role>>
    BY <1>8 DEF GetRecord, GoTo, Failed
  <2>2. \A q \in Pods \ {p} : /\ Attempting(q)' = Attempting(q) /\ step'[q] = step[q]
                             /\ request'[q] = request[q] /\ fresh'[q] = fresh[q]
                             /\ seen'[q] = seen[q] /\ observed'[q] = observed[q]
                             /\ obsAge'[q] = obsAge[q]
    BY <1>8 DEF GetRecord, GoTo, Failed
  <2>3. CASE lease.holder # NoPod /\ IsLeaseValid(p)' /\ ~IsLeader(p)'
    <3>1. step'[p] = "start"
      BY <1>8, <2>3 DEF GetRecord, Failed
    <3> QED BY <2>1, <2>2, <3>1
  <2>4. CASE ~(lease.holder # NoPod /\ IsLeaseValid(p)' /\ ~IsLeader(p)')
    <3>1. /\ step'[p] = "update"
          /\ request'[p] = NextTransitions(p, lease.transitions)
      BY <1>8, <2>4 DEF GetRecord, GoTo
    <3>2. IsLeader(p)' <=> lease.holder = p
      BY <2>1 DEF IsLeader
    <3>3. request'[p] = IF lease.holder = p THEN lease.transitions
                                            ELSE lease.transitions + 1
      BY <3>1, <3>2 DEF NextTransitions
    <3>4. obsAge'[p] \in 0 .. LeaseDuration
      BY <1>8 DEF GetRecord
    <3>5. lease.holder \in {p, NoPod} \/ obsAge'[p] = LeaseDuration
      <4>1. IsLeaseValid(p)' <=> obsAge'[p] < LeaseDuration
        BY DEF IsLeaseValid
      <4>2. lease.holder = NoPod \/ ~(obsAge'[p] < LeaseDuration) \/ lease.holder = p
        BY <2>4, <3>2, <4>1
      <4> QED BY <3>4, <4>2, SaturatedAge
    <3> QED BY <2>1, <2>2, <3>1, <3>3, <3>5
  <2> QED BY <2>3, <2>4
<1>9. ASSUME NEW p \in Pods, GetNotFound(p) PROVE Intent'
  BY <1>9 DEF GetNotFound, GoTo
<1>10. ASSUME NEW p \in Pods, GetError(p) PROVE Intent'
  BY <1>10 DEF GetError, Failed
<1>11. ASSUME NEW p \in Pods, LandWrite(p) PROVE Intent'
  <2> DEFINE r == [holder |-> p, transitions |-> request[p]]
  <2>1. Write(r, p) /\ Sending(p) /\ UNCHANGED <<role, request, observed, obsAge>>
    BY <1>11 DEF LandWrite
  <2>2. \A q \in Pods : ~seen'[q] /\ (fresh'[q] <=> q = p)
    BY <2>1, WriteEffect
  <2>3. /\ step'[p] \in {"fastLanded", "landed"}
        /\ \A q \in Pods \ {p} : step'[q] = step[q]
    BY <1>11 DEF LandWrite
  <2>4. observed[p].holder = p => request[p] = observed[p].transitions
    BY <2>1 DEF Sending
  <2> QED
    BY <2>1, <2>2, <2>3, <2>4
<1>12. ASSUME NEW p \in Pods, ReplyArrives(p) PROVE Intent'
  BY <1>12 DEF ReplyArrives, Succeeded
<1>13. ASSUME NEW p \in Pods, RequestFails(p) PROVE Intent'
  BY <1>13 DEF RequestFails, Abandon, Pending, DropResponse
<1>14. ASSUME NEW p \in Pods, NextWindow(p) PROVE Intent'
  BY <1>14 DEF NextWindow
<1>15. ASSUME NEW p \in Pods, StopRenewing(p) PROVE Intent'
  BY <1>15 DEF StopRenewing, Abandon, Pending, DropResponse
<1>16. ASSUME NEW p \in Pods, ReleaseLands(p) PROVE Intent'
  <2>1. \A q \in Pods : ~fresh'[q]
    BY <1>16, WriteEffect DEF ReleaseLands
  <2>2. /\ role'[p] = "released"
        /\ \A q \in Pods \ {p} : role'[q] = role[q] /\ observed'[q] = observed[q]
        /\ UNCHANGED <<step, request>>
    BY <1>16 DEF ReleaseLands
  <2> QED
    BY <2>1, <2>2
<1>17. CASE LandAbandoned
  <2>1. PICK r \in abandoned : Write(r, NoPod)
    BY <1>17 DEF LandAbandoned
  <2>2. \A q \in Pods : ~fresh'[q]
    BY <2>1, WriteEffect
  <2> QED
    BY <1>17, <2>2 DEF LandAbandoned
<1>18. CASE Tick
  BY <1>18 DEF Tick, Less, Older
<1>19. CASE UNCHANGED vars
  BY <1>19 DEF vars
<1> QED
  BY <1>1, <1>2, <1>3, <1>4, <1>5, <1>6, <1>7, <1>8, <1>9, <1>10,
     <1>11, <1>12, <1>13, <1>14, <1>15, <1>16, <1>17, <1>18, <1>19
     DEF Next, PodStep, TryAcquireOrRenew

\* The Lease is only ever overwritten by a write some pod has pending or has
\* abandoned, and such a write empties the set of abandoned ones.
LEMMA PodServerStep ==
    ASSUME NEW p \in Pods, PodStep(p)
    PROVE  \/ UNCHANGED server
           \/ Abandon(p)
           \/ \E r \in Pending(p) : Write(r, p) \/ Write(r, NoPod)
<1> USE DEF server
<1>1. CASE LandWrite(p)
  BY <1>1 DEF LandWrite, Pending
<1>2. CASE ReleaseLands(p)
  BY <1>2 DEF ReleaseLands, Pending
<1>3. CASE EndTerm(p) \/ Crash(p) \/ RequestFails(p) \/ StopRenewing(p)
  BY <1>3 DEF EndTerm, Crash, RequestFails, StopRenewing
<1>4. CASE \/ StartProcess(p) \/ StartTerm(p) \/ StepDown(p) \/ Shutdown(p)
           \/ StartAttempt(p) \/ GetRecord(p) \/ GetNotFound(p) \/ GetError(p)
           \/ ReplyArrives(p) \/ NextWindow(p)
  BY <1>4 DEF StartProcess, StartTerm, StepDown, Shutdown, StartAttempt, GetRecord,
              GetNotFound, GetError, ReplyArrives, NextWindow
<1> QED
  BY <1>1, <1>2, <1>3, <1>4 DEF PodStep, TryAcquireOrRenew

\* The same for any step of the system.
LEMMA ServerStep ==
    ASSUME [Next]_vars
    PROVE  \/ UNCHANGED server
           \/ UNCHANGED lease /\ \E p \in Pods : abandoned' = abandoned \cup Pending(p)
           \/ \E r : /\ r \in abandoned \/ \E p \in Pods : r \in Pending(p)
                     /\ lease' = [exists |-> TRUE, holder |-> r.holder,
                                  transitions |-> r.transitions]
                     /\ abandoned' = {}
<1> USE DEF server
<1>1. CASE Tick
  BY <1>1 DEF Tick
<1>2. CASE UNCHANGED vars
  BY <1>2 DEF vars
<1>3. CASE LandAbandoned
  BY <1>3 DEF LandAbandoned, Write
<1>4. ASSUME NEW p \in Pods, PodStep(p)
      PROVE  \/ UNCHANGED server
             \/ Abandon(p)
             \/ \E r \in Pending(p) : Write(r, p) \/ Write(r, NoPod)
  BY <1>4, PodServerStep
<1> QED
  BY <1>1, <1>2, <1>3, <1>4 DEF Next, Abandon, Write

\* Whatever a pod has on the wire respects the counter.
LEMMA PendingLawful ==
    ASSUME TypeOK, Unborn, Knowledge, Intent, NEW p \in Pods, NEW r \in Pending(p)
    PROVE  Lawful(r)
<1> USE DEF Lawful
<1>1. CASE Sending(p) /\ r = [holder |-> p, transitions |-> request[p]]
  <2>1. CASE step[p] = "fast" /\ fresh[p]
    BY <1>1, <2>1 DEF Sending, Unborn, Knowledge, Knows, Intent, Intends
  <2>2. CASE step[p] = "update" /\ fresh[p]
    BY <1>1, <2>2 DEF Sending, Unborn, Intent, Intends
  <2>3. CASE step[p] = "create" /\ ~lease.exists
    BY <1>1, <2>3 DEF Sending, Intent, Intends
  <2> QED BY <1>1, <2>1, <2>2, <2>3 DEF Sending
<1>2. CASE Releasing(p) /\ r = [holder |-> NoPod, transitions |-> observed[p].transitions]
  BY <1>2 DEF Releasing, IsLeader, Unborn, Knowledge, Knows
<1> QED BY <1>1, <1>2 DEF Pending

\* Writes given up by their sender stay lawful until another write lands.
LEMMA LateWritesLawfulStep ==
    TypeOK /\ Unborn /\ Knowledge /\ Intent /\ LateWritesLawful /\ [Next]_vars
        => LateWritesLawful'
<1> SUFFICES ASSUME TypeOK, Unborn, Knowledge, Intent, LateWritesLawful, [Next]_vars
             PROVE  LateWritesLawful'
  OBVIOUS
<1>1. CASE UNCHANGED server
  BY <1>1 DEF LateWritesLawful, Lawful, server
<1>2. CASE UNCHANGED lease /\ \E p \in Pods : abandoned' = abandoned \cup Pending(p)
  BY <1>2, PendingLawful DEF LateWritesLawful, Lawful
<1>3. CASE abandoned' = {}
  BY <1>3 DEF LateWritesLawful
<1> QED BY <1>1, <1>2, <1>3, ServerStep

\* Nobody else can have a write on the wire that would take the Lease from a
\* protected pod.
LEMMA NoThreat ==
    ASSUME TypeOK, Unborn, Knowledge, Intent, NEW p \in Pods, Protected(p), Secure(p),
           NEW q \in Pods \ {p}
    PROVE  Pending(q) = {}
<1> USE PodsAssumption, TimingAssumption
<1>1. lease.holder = p /\ p # NoPod
  BY DEF Secure
<1>2. ~Releasing(q)
  BY <1>1 DEF Releasing, IsLeader, Knowledge, Knows
<1>3. ~(Attempting(q) /\ step[q] = "fast" /\ fresh[q])
  BY <1>1 DEF Knowledge, Knows, Intent, Intends
<1>4. ~(Attempting(q) /\ step[q] = "update" /\ fresh[q])
  <2> SUFFICES ASSUME Attempting(q), step[q] = "update", fresh[q] PROVE FALSE
    OBVIOUS
  <2>1. seen[q] /\ obsAge[q] = LeaseDuration
    BY <1>1 DEF Intent, Intends
  <2>2. LeaseDuration + Remaining(p) <= ReplyDelay + RetryPeriod + RenewDeadline
    BY <2>1 DEF Secure
  <2>3. Remaining(p) \in Nat
    BY DEF Remaining, TypeOK
  <2> QED BY <2>2, <2>3
<1>5. ~(step[q] = "create" /\ ~lease.exists)
  BY <1>1 DEF Unborn
<1> QED BY <1>2, <1>3, <1>4, <1>5 DEF Pending, Sending

\* A protected pod gives up in time, whatever it is doing.
LEMMA RemainingBound ==
    ASSUME TypeOK, Orderly, NEW p \in Pods, Protected(p)
    PROVE  /\ Remaining(p) \in Nat
           /\ Remaining(p) <= ReplyDelay + RetryPeriod + RenewDeadline
<1> USE PodsAssumption, TimingAssumption
<1>1. CASE Landed(p)
  BY <1>1 DEF Remaining, TypeOK, Orderly
<1>2. CASE ~Landed(p) /\ role[p] = "sleep"
  BY <1>2 DEF Remaining, TypeOK, Orderly
<1>3. CASE ~Landed(p) /\ role[p] # "sleep"
  BY <1>3 DEF Remaining, TypeOK
<1> QED BY <1>1, <1>2, <1>3

\* A step of one pod leaves every other pod's own variables alone.
LEMMA Frame ==
    ASSUME TypeOK, NEW a \in Pods, PodStep(a), NEW p \in Pods \ {a}
    PROVE  /\ role'[p] = role[p] /\ step'[p] = step[p] /\ request'[p] = request[p]
           /\ wait'[p] = wait[p] /\ deadline'[p] = deadline[p]
           /\ leading'[p] = leading[p] /\ term'[p] = term[p]
<1> USE DEF TypeOK, server, view, flags
<1>1. CASE StartProcess(a)
  BY <1>1 DEF StartProcess
<1>2. CASE StartTerm(a)
  BY <1>2 DEF StartTerm
<1>3. CASE EndTerm(a)
  BY <1>3 DEF EndTerm, ForgetTerm
<1>4. CASE StepDown(a)
  BY <1>4 DEF StepDown
<1>5. CASE Shutdown(a)
  BY <1>5 DEF Shutdown
<1>6. CASE Crash(a)
  BY <1>6 DEF Crash, ForgetTerm
<1>7. CASE StartAttempt(a)
  BY <1>7 DEF StartAttempt, GoTo
<1>8. CASE GetRecord(a)
  BY <1>8 DEF GetRecord, GoTo, Failed
<1>9. CASE GetNotFound(a)
  BY <1>9 DEF GetNotFound, GoTo
<1>10. CASE GetError(a)
  BY <1>10 DEF GetError, Failed
<1>11. CASE LandWrite(a)
  BY <1>11 DEF LandWrite
<1>12. CASE ReplyArrives(a)
  BY <1>12 DEF ReplyArrives, Succeeded
<1>13. CASE RequestFails(a)
  BY <1>13 DEF RequestFails
<1>14. CASE NextWindow(a)
  BY <1>14 DEF NextWindow
<1>15. CASE StopRenewing(a)
  BY <1>15 DEF StopRenewing
<1>16. CASE ReleaseLands(a)
  BY <1>16 DEF ReleaseLands
<1> QED
  BY <1>1, <1>2, <1>3, <1>4, <1>5, <1>6, <1>7, <1>8, <1>9, <1>10,
     <1>11, <1>12, <1>13, <1>14, <1>15, <1>16
     DEF PodStep, TryAcquireOrRenew

\* What a pod has seen of the current record ages only with time.
LEMMA Watching ==
    ASSUME TypeOK, NEW a \in Pods, PodStep(a), NEW q \in Pods, seen'[q]
    PROVE  (seen[q] /\ obsAge'[q] = obsAge[q]) \/ obsAge'[q] = 0
<1> USE DEF TypeOK, server, view, flags
<1>1. CASE StartProcess(a)
  BY <1>1 DEF StartProcess
<1>2. CASE StartTerm(a)
  BY <1>2 DEF StartTerm
<1>3. CASE EndTerm(a)
  BY <1>3 DEF EndTerm, ForgetTerm
<1>4. CASE StepDown(a)
  BY <1>4 DEF StepDown
<1>5. CASE Shutdown(a)
  BY <1>5 DEF Shutdown
<1>6. CASE Crash(a)
  BY <1>6 DEF Crash, ForgetTerm
<1>7. CASE StartAttempt(a)
  BY <1>7 DEF StartAttempt, GoTo
<1>8. CASE GetRecord(a)
  BY <1>8 DEF GetRecord, GoTo, Failed
<1>9. CASE GetNotFound(a)
  BY <1>9 DEF GetNotFound, GoTo
<1>10. CASE GetError(a)
  BY <1>10 DEF GetError, Failed
<1>11. CASE LandWrite(a)
  BY <1>11 DEF LandWrite, Write
<1>12. CASE ReplyArrives(a)
  BY <1>12 DEF ReplyArrives, Succeeded
<1>13. CASE RequestFails(a)
  BY <1>13 DEF RequestFails, DropResponse
<1>14. CASE NextWindow(a)
  BY <1>14 DEF NextWindow
<1>15. CASE StopRenewing(a)
  BY <1>15 DEF StopRenewing, DropResponse
<1>16. CASE ReleaseLands(a)
  BY <1>16 DEF ReleaseLands, Write
<1> QED
  BY <1>1, <1>2, <1>3, <1>4, <1>5, <1>6, <1>7, <1>8, <1>9, <1>10,
     <1>11, <1>12, <1>13, <1>14, <1>15, <1>16
     DEF PodStep, TryAcquireOrRenew

\* Exclusion is preserved: by a step of another pod, ...
LEMMA SecureOther ==
    ASSUME TypeOK, Orderly, Unborn, Knowledge, Intent,
           NEW p \in Pods \ MayStall, Secure(p),
           NEW a \in Pods \ {p}, PodStep(a)
    PROVE  Secure(p)'
<1> USE PodsAssumption
<1> SUFFICES ASSUME Protected(p)'
             PROVE  Secure(p)'
  BY DEF Secure
<1>1. /\ role'[p] = role[p] /\ step'[p] = step[p]
      /\ wait'[p] = wait[p] /\ deadline'[p] = deadline[p]
  BY Frame
<1>2. Protected(p) /\ Remaining(p)' = Remaining(p)
  BY <1>1 DEF Protected, Remaining, Landed, Attempting
<1>3. Pending(a) = {}
  BY <1>2, NoThreat
<1>4. UNCHANGED lease /\ abandoned' = abandoned
  BY <1>3, PodServerStep DEF server, Abandon
<1>5. ASSUME NEW q \in Pods \ {p}, seen'[q]
      PROVE  obsAge'[q] + Remaining(p) <= ReplyDelay + RetryPeriod + RenewDeadline
  <2>1. CASE seen[q] /\ obsAge'[q] = obsAge[q]
    BY <1>2, <2>1 DEF Secure
  <2>2. CASE obsAge'[q] = 0
    BY <1>2, <2>2, RemainingBound
  <2> QED BY <1>5, <2>1, <2>2, Watching
<1> QED
  BY <1>2, <1>4, <1>5 DEF Secure

\* ... by a step of the pod itself, ...
LEMMA SecureSelf ==
    ASSUME TypeOK, Orderly, Unborn, Knowledge, Intent,
           NEW p \in Pods \ MayStall, Secure(p), PodStep(p)
    PROVE  Secure(p)'
<1> USE PodsAssumption, TimingAssumption
<1> SUFFICES ASSUME Protected(p)' PROVE Secure(p)'
  BY DEF Secure
<1> DEFINE Calm == /\ Protected(p) /\ UNCHANGED lease
                   /\ Remaining(p)' \in Nat /\ Remaining(p)' <= Remaining(p)
<1>1. ASSUME Calm, abandoned' \subseteq abandoned \cup {[holder |-> p, transitions |-> request[p]]}
      PROVE  Secure(p)'
  <2>1. ASSUME NEW q \in Pods \ {p}, seen'[q]
        PROVE  obsAge'[q] + Remaining(p)' <= ReplyDelay + RetryPeriod + RenewDeadline
    <3>1. Remaining(p) \in Nat /\ Remaining(p) <= ReplyDelay + RetryPeriod + RenewDeadline
      BY <1>1, RemainingBound
    <3>2. CASE seen[q] /\ obsAge'[q] = obsAge[q]
      BY <1>1, <3>1, <3>2 DEF Secure, TypeOK
    <3>3. CASE obsAge'[q] = 0
      BY <1>1, <3>1, <3>3
    <3> QED BY <2>1, <3>2, <3>3, Watching
  <2> QED BY <1>1, <2>1 DEF Secure
<1> USE DEF Protected, Remaining, Landed, Attempting, Orderly, TypeOK, server, view, flags
<1>2. CASE LandWrite(p)
  BY <1>2, WriteEffect DEF LandWrite, Secure
<1>3. CASE StartProcess(p) \/ StartTerm(p)
  BY <1>3 DEF StartProcess, StartTerm
<1>4. CASE EndTerm(p) \/ Crash(p)
  BY <1>4 DEF EndTerm, Crash, ForgetTerm
<1>5. CASE StopRenewing(p)
  BY <1>5 DEF StopRenewing
<1>6. CASE ReleaseLands(p)
  BY <1>6 DEF ReleaseLands
<1>7. CASE StepDown(p) \/ Shutdown(p)
  BY <1>1, <1>7 DEF StepDown, Shutdown
<1>8. CASE StartAttempt(p) \/ GetNotFound(p) \/ GetError(p)
  BY <1>1, <1>8 DEF StartAttempt, GetNotFound, GetError, GoTo, Failed
<1>9. CASE GetRecord(p)
  BY <1>1, <1>9 DEF GetRecord, GoTo, Failed
<1>10. CASE ReplyArrives(p)
  BY <1>1, <1>10 DEF ReplyArrives, Succeeded
<1>11. CASE RequestFails(p)
  <2>1. abandoned' \subseteq abandoned \cup {[holder |-> p, transitions |-> request[p]]}
    BY <1>11 DEF RequestFails, Abandon, Pending, Releasing
  <2> QED BY <1>1, <1>11, <2>1 DEF RequestFails, Abandon
<1>12. CASE NextWindow(p)
  BY <1>1, <1>12 DEF NextWindow
<1> QED
  BY <1>2, <1>3, <1>4, <1>5, <1>6, <1>7, <1>8, <1>9, <1>10, <1>11, <1>12
     DEF PodStep, TryAcquireOrRenew

\* ... by a late write, and by time.
LEMMA ExclusionStep ==
    TypeOK /\ Orderly /\ Unborn /\ Knowledge /\ Intent /\ Exclusion /\ [Next]_vars
        => Exclusion'
<1> USE PodsAssumption, TimingAssumption
<1> SUFFICES ASSUME TypeOK, Orderly, Unborn, Knowledge, Intent, Exclusion, [Next]_vars,
                    NEW p \in Pods \ MayStall
             PROVE  Secure(p)'
  BY DEF Exclusion
<1>1. Secure(p)
  BY DEF Exclusion
<1>2. ASSUME NEW a \in Pods, PodStep(a) PROVE Secure(p)'
  BY <1>1, <1>2, SecureOther, SecureSelf
<1>3. CASE LandAbandoned
  <2>1. PICK r \in abandoned : Write(r, NoPod)
    BY <1>3 DEF LandAbandoned
  <2>2. Protected(p)' <=> Protected(p)
    BY <1>3 DEF LandAbandoned, Protected, Landed, Attempting
  <2> QED
    BY <1>1, <2>1, <2>2, WriteEffect DEF Secure
<1>4. CASE Tick
  <2> SUFFICES ASSUME Protected(p)' PROVE Secure(p)'
    BY DEF Secure
  <2>1. Protected(p) /\ UNCHANGED server /\ UNCHANGED seen
    BY <1>4 DEF Tick, Protected, Landed, Attempting
  <2>2. Remaining(p) > 0 /\ Remaining(p)' = Remaining(p) - 1
    BY <1>4, <2>1 DEF Tick, Due, Less, Protected, Remaining, Landed, Attempting, TypeOK
  <2>3. Remaining(p) \in Nat
    BY <2>1, RemainingBound
  <2>4. \A q \in Pods : obsAge[q] \in Nat /\ obsAge'[q] \in Nat /\ obsAge'[q] <= obsAge[q] + 1
    BY <1>4 DEF Tick, Older, TypeOK
  <2> QED
    BY <1>1, <2>1, <2>2, <2>3, <2>4 DEF Secure, server
<1>5. CASE UNCHANGED vars
  BY <1>1, <1>5 DEF vars, server, view, flags, Secure, Protected, Remaining, Landed, Attempting
<1> QED
  BY <1>2, <1>3, <1>4, <1>5 DEF Next

\* A claim is old, or it is made by the landing of an acquisition.
LEMMA ClaimStep ==
    ASSUME TypeOK, Orderly, [Next]_vars, NEW p \in Pods, NEW n \in Nat, Claims(p, n)'
    PROVE  Claims(p, n) \/ (LandWrite(p) /\ request[p] = n)
<1> USE DEF Claims, Landed, Attempting, TypeOK, Orderly, server, view, flags
<1>1. ASSUME NEW a \in Pods \ {p}, PodStep(a) PROVE Claims(p, n)
  <2>1. /\ role'[p] = role[p] /\ step'[p] = step[p] /\ request'[p] = request[p]
        /\ leading'[p] = leading[p] /\ term'[p] = term[p]
    BY <1>1, Frame
  <2> QED BY <2>1
<1>2. CASE LandWrite(p)
  BY <1>2 DEF LandWrite
<1>3. CASE StartProcess(p) \/ StartTerm(p) \/ StepDown(p) \/ NextWindow(p)
  BY <1>3 DEF StartProcess, StartTerm, StepDown, NextWindow
<1>4. CASE EndTerm(p) \/ Crash(p)
  BY <1>4 DEF EndTerm, Crash, ForgetTerm
<1>5. CASE StopRenewing(p) \/ ReleaseLands(p) \/ RequestFails(p)
  BY <1>5 DEF StopRenewing, ReleaseLands, RequestFails
<1>6. CASE Shutdown(p)
  BY <1>6 DEF Shutdown
<1>7. CASE StartAttempt(p) \/ GetNotFound(p) \/ GetError(p)
  BY <1>7 DEF StartAttempt, GetNotFound, GetError, GoTo, Failed
<1>8. CASE GetRecord(p)
  BY <1>8 DEF GetRecord, GoTo, Failed
<1>9. CASE ReplyArrives(p)
  BY <1>9 DEF ReplyArrives, Succeeded
<1>10. CASE LandAbandoned
  BY <1>10 DEF LandAbandoned
<1>11. CASE Tick
  BY <1>11 DEF Tick
<1>12. CASE UNCHANGED vars
  BY <1>12 DEF vars
<1> QED
  BY <1>1, <1>2, <1>3, <1>4, <1>5, <1>6, <1>7, <1>8, <1>9, <1>10, <1>11, <1>12
     DEF Next, PodStep, TryAcquireOrRenew

\* A claim is never overtaken by a Lease with the same counter and another
\* holder.
LEMMA OldClaim ==
    ASSUME TypeOK, Unborn, Knowledge, Intent, LateWritesLawful, TermClaims,
           [Next]_vars, NEW p \in Pods, NEW n \in Nat, Claims(p, n)
    PROVE  /\ n <= lease'.transitions
           /\ n = lease'.transitions => lease'.holder \in {p, NoPod}
<1>1. n <= lease.transitions /\ (n = lease.transitions => lease.holder \in {p, NoPod})
  BY DEF TermClaims
<1>2. lease.exists /\ lease.transitions \in Nat
  BY DEF Unborn, Claims, TypeOK
<1>3. CASE UNCHANGED lease
  BY <1>1, <1>3
<1>4. ASSUME NEW r, r \in abandoned \/ (\E q \in Pods : r \in Pending(q)),
             lease' = [exists |-> TRUE, holder |-> r.holder, transitions |-> r.transitions]
      PROVE  /\ n <= lease'.transitions
             /\ n = lease'.transitions => lease'.holder \in {p, NoPod}
  <2>1. Lawful(r)
    BY <1>4, PendingLawful DEF LateWritesLawful
  <2>2. lease'.holder = r.holder /\ lease'.transitions = r.transitions
    BY <1>4
  <2> QED BY <1>1, <1>2, <2>1, <2>2 DEF Lawful
<1> QED BY <1>3, <1>4, ServerStep DEF server

\* Counters stay unique among claimants.
LEMMA TermClaimsStep ==
    TypeOK /\ Orderly /\ Unborn /\ Knowledge /\ Intent /\ LateWritesLawful /\ TermClaims
        /\ [Next]_vars => TermClaims'
<1> USE PodsAssumption
<1> SUFFICES ASSUME TypeOK, Orderly, Unborn, Knowledge, Intent, LateWritesLawful,
                    TermClaims, [Next]_vars
             PROVE  TermClaims'
  OBVIOUS
<1>1. ASSUME NEW p \in Pods, NEW n \in Nat, Claims(p, n)'
      PROVE  /\ n <= lease'.transitions
             /\ n = lease'.transitions => lease'.holder \in {p, NoPod}
  <2>1. CASE Claims(p, n)
    BY <2>1, OldClaim
  <2>2. CASE LandWrite(p) /\ request[p] = n
    <3>1. lease'.holder = p /\ lease'.transitions = n
      BY <2>2, WriteEffect DEF LandWrite
    <3> QED BY <3>1
  <2> QED BY <1>1, <2>1, <2>2, ClaimStep
<1>2. ASSUME NEW p \in Pods, NEW q \in Pods, NEW n \in Nat, Claims(p, n)', Claims(q, n)'
      PROVE  q = p
  <2>1. CASE Claims(p, n) /\ Claims(q, n)
    BY <2>1 DEF TermClaims
  <2>2. ASSUME NEW a \in Pods, LandWrite(a), request[a] = n
        PROVE  lease'.holder = a /\ lease'.transitions = n
    BY <2>2, WriteEffect DEF LandWrite
  <2>3. CASE LandWrite(p) /\ request[p] = n
    BY <1>1, <1>2, <2>2, <2>3
  <2>4. CASE LandWrite(q) /\ request[q] = n
    BY <1>1, <1>2, <2>2, <2>4
  <2> QED BY <1>2, <2>1, <2>3, <2>4, ClaimStep
<1> QED BY <1>1, <1>2 DEF TermClaims

\* What a leader that serves its timers has on the wire carries its counter.
LEMMA OwnPending ==
    ASSUME TypeOK, Orderly, Unborn, Knowledge, Intent, Exclusion, OwnCounter,
           NEW p \in Pods \ MayStall, NEW n \in Nat, Claims(p, n),
           NEW a \in Pods, NEW r \in Pending(a), r.holder = p
    PROVE  r.transitions = n
<1> USE PodsAssumption
<1>1. a = p /\ Sending(p) /\ r.transitions = request[p]
  BY DEF Pending
<1>2. role[p] = "renew" /\ ~Landed(p)
  BY <1>1 DEF Sending, Claims, Landed, Attempting, Orderly
<1>3. lease.holder = p
  BY <1>2 DEF Exclusion, Secure, Protected
<1>4. lease.transitions = n
  BY <1>3 DEF OwnCounter
<1>5. request[p] = lease.transitions
  <2>1. CASE step[p] = "fast" /\ fresh[p]
    BY <1>1, <2>1 DEF Sending, Knowledge, Knows, Intent, Intends
  <2>2. CASE step[p] = "update" /\ fresh[p]
    BY <1>1, <1>3, <2>2 DEF Sending, Intent, Intends
  <2>3. CASE ~lease.exists
    BY <1>3, <2>3 DEF Unborn
  <2> QED BY <1>1, <2>1, <2>2, <2>3 DEF Sending
<1> QED BY <1>1, <1>4, <1>5

\* A leader that serves its timers keeps its counter.
LEMMA OwnCounterStep ==
    TypeOK /\ Orderly /\ Unborn /\ Knowledge /\ Intent /\ Exclusion /\ OwnCounter
        /\ [Next]_vars => OwnCounter'
<1> USE PodsAssumption
<1> SUFFICES ASSUME TypeOK, Orderly, Unborn, Knowledge, Intent, Exclusion, OwnCounter,
                    [Next]_vars, NEW p \in Pods \ MayStall, NEW n \in Nat, Claims(p, n)'
             PROVE  /\ lease'.holder = p => lease'.transitions = n
                    /\ \A r \in abandoned' : r.holder = p => r.transitions = n
  BY DEF OwnCounter
<1>1. CASE LandWrite(p) /\ request[p] = n
  BY <1>1, WriteEffect DEF LandWrite
<1>2. CASE Claims(p, n)
  <2>1. CASE UNCHANGED server
    BY <1>2, <2>1 DEF OwnCounter, server
  <2>2. CASE UNCHANGED lease /\ \E a \in Pods : abandoned' = abandoned \cup Pending(a)
    BY <1>2, <2>2, OwnPending DEF OwnCounter
  <2>3. ASSUME NEW r, r \in abandoned \/ (\E a \in Pods : r \in Pending(a)),
               lease' = [exists |-> TRUE, holder |-> r.holder, transitions |-> r.transitions],
               abandoned' = {}
        PROVE  /\ lease'.holder = p => lease'.transitions = n
               /\ \A t \in abandoned' : t.holder = p => t.transitions = n
    <3>1. r.holder = p => r.transitions = n
      BY <1>2, <2>3, OwnPending DEF OwnCounter
    <3>2. lease'.holder = r.holder /\ lease'.transitions = r.transitions
      BY <2>3
    <3> QED BY <2>3, <3>1, <3>2
  <2> QED BY <2>1, <2>2, <2>3, ServerStep
<1> QED BY <1>1, <1>2, ClaimStep

-----------------------------------------------------------------------------
\* The invariant holds in every reachable state of the election.
THEOREM Inductive == Spec => []IInv
<1>1. Init => IInv
  BY PodsAssumption, TimingAssumption
     DEF Init, IInv, Orderly, Unborn, Knowledge, Knows, Intent, Intends,
         LateWritesLawful, Exclusion, Secure, Protected, TermClaims, OwnCounter,
         Claims, Attempting, Landed, NoRecord
<1>2. TypeOK /\ IInv /\ [Next]_vars => IInv'
  BY OrderlyStep, UnbornStep, KnowledgeStep, IntentStep, LateWritesLawfulStep,
     ExclusionStep, TermClaimsStep, OwnCounterStep DEF IInv
<1> QED
  BY <1>1, <1>2, TypeCorrect, PTL DEF Spec

\* No Lease is taken from a leader that serves its timers: of two pods that
\* both believe they lead, one has stopped renewing (cluster.rs renew and
\* try_acquire_or_renew), whatever writes are lost or land late, as long as
\* lease_duration exceeds renew_deadline + retry_period + the response time.
THEOREM RenewingLeaderAlone == Spec => []RenewingLeaderIsAlone
<1>1. IInv => RenewingLeaderIsAlone
  BY PodsAssumption
     DEF IInv, RenewingLeaderIsAlone, Orderly, Exclusion, Secure, Protected
<1> QED
  BY <1>1, Inductive, PTL

\* leaderTransitions works as a fencing token: two pods that believe they
\* lead, stalled ones included, were elected under different counters.
THEOREM TermsUnique == Spec => []TermsDiffer
<1>1. TypeOK /\ IInv => TermsDiffer
  BY DEF IInv, TermsDiffer, TermClaims, Claims, TypeOK
<1> QED
  BY <1>1, Inductive, TypeCorrect, PTL

\* A leader that serves its timers and holds the Lease holds it under the
\* counter its term began with: it never re-takes a lost Lease mid-term.
THEOREM FenceCurrent == Spec => []FenceStaysCurrent
<1>1. TypeOK /\ IInv => FenceStaysCurrent
  BY DEF IInv, FenceStaysCurrent, OwnCounter, Claims, TypeOK
<1> QED
  BY <1>1, Inductive, TypeCorrect, PTL

\* The counter never goes back and counts every handover, although writes may
\* land long after their sender gave them up.
THEOREM HandoversCounted == Spec => HandoverCounted
<1> DEFINE Counted == /\ lease'.transitions >= lease.transitions
                      /\ lease.exists /\ lease'.holder \notin {lease.holder, NoPod}
                           => lease'.transitions = lease.transitions + 1
<1>1. TypeOK /\ IInv /\ [Next]_vars => [Counted]_lease
  <2> SUFFICES ASSUME TypeOK, IInv, [Next]_vars, lease' # lease PROVE Counted
    OBVIOUS
  <2>1. PICK r : /\ r \in abandoned \/ \E p \in Pods : r \in Pending(p)
                 /\ lease' = [exists |-> TRUE, holder |-> r.holder,
                              transitions |-> r.transitions]
    BY ServerStep DEF server
  <2>2. Lawful(r)
    BY <2>1, PendingLawful DEF IInv, LateWritesLawful
  <2>3. lease'.holder = r.holder /\ lease'.transitions = r.transitions
    BY <2>1
  <2>4. lease.transitions \in Nat /\ (~lease.exists => lease.transitions = 0)
    BY DEF TypeOK, IInv, Unborn
  <2> QED
    BY <2>2, <2>3, <2>4 DEF Lawful
<1> QED
  BY <1>1, Inductive, TypeCorrect, PTL DEF Spec, HandoverCounted

-----------------------------------------------------------------------------
(* The election implements Terms, the contract that Leadership is built on: *)
(* what that needs beyond the inductive invariant.                          *)

\* The counter of a term goes with the term.
TermsEnd == \A p \in Pods : ~leading[p] => term[p] = 0

\* While a pod waits for the response to a write that has landed, nobody else
\* can make it the holder: either its write is still the last one, or the
\* Lease is not its own.
LastWrite(p) ==
    Landed(p) => /\ \A r \in abandoned : r.holder # p
                 /\ lease.holder = p => fresh[p]

LastWrites == \A p \in Pods : LastWrite(p)

-----------------------------------------------------------------------------
\* Every step that ends a term forgets its counter.
LEMMA TermsEndStep == TypeOK /\ TermsEnd /\ [Next]_vars => TermsEnd'
<1> SUFFICES ASSUME TypeOK, TermsEnd, [Next]_vars PROVE TermsEnd'
  OBVIOUS
<1> USE DEF TypeOK, TermsEnd, flags
<1>1. ASSUME NEW p \in Pods, EndTerm(p) \/ Crash(p) PROVE TermsEnd'
  BY <1>1 DEF EndTerm, Crash, ForgetTerm
<1>2. ASSUME NEW p \in Pods, ReplyArrives(p) PROVE TermsEnd'
  BY <1>2 DEF ReplyArrives, Succeeded
<1>3. ASSUME NEW p \in Pods, StepDown(p) \/ Shutdown(p) PROVE TermsEnd'
  BY <1>3 DEF StepDown, Shutdown
<1>4. ASSUME NEW p \in Pods,
             \/ StartProcess(p) \/ StartTerm(p) \/ NextWindow(p) \/ StopRenewing(p)
             \/ ReleaseLands(p) \/ LandWrite(p) \/ RequestFails(p)
      PROVE  TermsEnd'
  BY <1>4 DEF StartProcess, StartTerm, NextWindow, StopRenewing, ReleaseLands, LandWrite,
              RequestFails
<1>5. ASSUME NEW p \in Pods,
             StartAttempt(p) \/ GetRecord(p) \/ GetNotFound(p) \/ GetError(p)
      PROVE  TermsEnd'
  BY <1>5 DEF StartAttempt, GetRecord, GetNotFound, GetError, GoTo, Failed
<1>6. CASE LandAbandoned \/ Tick \/ UNCHANGED vars
  BY <1>6 DEF LandAbandoned, Tick, vars
<1> QED
  BY <1>1, <1>2, <1>3, <1>4, <1>5, <1>6 DEF Next, PodStep, TryAcquireOrRenew

\* A request names its sender or nobody as the holder.
LEMMA PendingHolder ==
    ASSUME NEW a \in Pods, NEW r \in Pending(a) PROVE r.holder \in {a, NoPod}
BY DEF Pending

\* A step of another pod cannot make p the holder, nor set p's cache back
\* unless it writes.
LEMMA LastWriteOther ==
    ASSUME TypeOK, NEW p \in Pods, LastWrite(p), NEW a \in Pods \ {p}, PodStep(a)
    PROVE  LastWrite(p)'
<1> USE PodsAssumption
<1> SUFFICES ASSUME Landed(p)'
             PROVE  /\ \A r \in abandoned' : r.holder # p
                    /\ lease'.holder = p => fresh'[p]
  BY DEF LastWrite
<1>1. Landed(p)
  BY Frame DEF Landed, Attempting
<1>2. /\ \A r \in abandoned : r.holder # p
      /\ lease.holder = p => fresh[p]
  BY <1>1 DEF LastWrite
<1>3. CASE \E r \in Pending(a) : Write(r, a) \/ Write(r, NoPod)
  BY <1>3, PendingHolder DEF Write
<1>4. CASE ~\E r \in Pending(a) : Write(r, a) \/ Write(r, NoPod)
  <2>1. UNCHANGED lease /\ abandoned' \subseteq abandoned \cup Pending(a)
    BY <1>4, PodServerStep DEF server, Abandon
  <2>2. fresh'[p] = fresh[p]
    <3> USE DEF TypeOK, view
    <3>1. CASE LandWrite(a) \/ ReleaseLands(a)
      BY <1>4, <3>1 DEF LandWrite, ReleaseLands, Pending
    <3>2. CASE EndTerm(a) \/ Crash(a)
      BY <3>2 DEF EndTerm, Crash, ForgetTerm
    <3>3. CASE StopRenewing(a) \/ RequestFails(a)
      BY <3>3 DEF StopRenewing, RequestFails, DropResponse
    <3>4. CASE GetRecord(a)
      BY <3>4 DEF GetRecord
    <3>5. CASE \/ StartProcess(a) \/ StartTerm(a) \/ StepDown(a) \/ Shutdown(a)
               \/ StartAttempt(a) \/ GetNotFound(a) \/ GetError(a)
               \/ ReplyArrives(a) \/ NextWindow(a)
      BY <3>5 DEF StartProcess, StartTerm, StepDown, Shutdown, StartAttempt, GetNotFound,
                  GetError, ReplyArrives, NextWindow
    <3> QED BY <3>1, <3>2, <3>3, <3>4, <3>5 DEF PodStep, TryAcquireOrRenew
  <2> QED BY <1>2, <2>1, <2>2, PendingHolder
<1> QED BY <1>3, <1>4

\* Nor can p itself, while it waits.
LEMMA LastWriteSelf ==
    ASSUME TypeOK, Orderly, NEW p \in Pods, LastWrite(p), PodStep(p)
    PROVE  LastWrite(p)'
<1> USE DEF LastWrite, Orderly, Landed, Attempting, TypeOK, server, view, flags
<1>1. CASE LandWrite(p)
  BY <1>1 DEF LandWrite, Write
<1>2. CASE ReleaseLands(p)
  BY <1>2 DEF ReleaseLands
<1>3. CASE EndTerm(p) \/ Crash(p)
  BY <1>3 DEF EndTerm, Crash, ForgetTerm
<1>4. CASE StopRenewing(p) \/ RequestFails(p)
  BY <1>4 DEF StopRenewing, RequestFails
<1>5. CASE StartProcess(p) \/ StartTerm(p) \/ StepDown(p) \/ NextWindow(p)
  BY <1>5 DEF StartProcess, StartTerm, StepDown, NextWindow
<1>6. CASE Shutdown(p)
  BY <1>6 DEF Shutdown
<1>7. CASE StartAttempt(p) \/ GetNotFound(p) \/ GetError(p)
  BY <1>7 DEF StartAttempt, GetNotFound, GetError, GoTo, Failed
<1>8. CASE GetRecord(p)
  BY <1>8 DEF GetRecord, GoTo, Failed
<1>9. CASE ReplyArrives(p)
  BY <1>9 DEF ReplyArrives, Succeeded
<1> QED
  BY <1>1, <1>2, <1>3, <1>4, <1>5, <1>6, <1>7, <1>8, <1>9 DEF PodStep, TryAcquireOrRenew

\* Together, with the steps that no pod takes.
LEMMA LastWritesStep == TypeOK /\ Orderly /\ LastWrites /\ [Next]_vars => LastWrites'
<1> SUFFICES ASSUME TypeOK, Orderly, LastWrites, [Next]_vars, NEW p \in Pods
             PROVE  LastWrite(p)'
  BY DEF LastWrites
<1>1. LastWrite(p)
  BY DEF LastWrites
<1>2. ASSUME NEW a \in Pods, PodStep(a) PROVE LastWrite(p)'
  BY <1>1, <1>2, LastWriteOther, LastWriteSelf
<1>3. CASE LandAbandoned
  BY <1>1, <1>3, PodsAssumption DEF LandAbandoned, Write, LastWrite, Landed, Attempting
<1>4. CASE Tick \/ UNCHANGED vars
  BY <1>1, <1>4 DEF Tick, vars, server, view, LastWrite, Landed, Attempting
<1> QED BY <1>2, <1>3, <1>4 DEF Next

-----------------------------------------------------------------------------
(* Steps of the election as steps of the contract.                          *)

\* A write that lands is a grant or a vacation.
LEMMA WriteIsGrantOrVacate ==
    ASSUME TypeOK, IInv, UNCHANGED <<leading, term>>,
           NEW r \in Record, Lawful(r),
           lease' = [exists |-> TRUE, holder |-> r.holder, transitions |-> r.transitions]
    PROVE  Contract!Next
<1> USE PodsAssumption
<1>1. lease.transitions \in Nat
  BY DEF TypeOK
<1>2. ~lease.exists => lease.holder = NoPod /\ lease.transitions = 0
  BY DEF IInv, Unborn
<1>3. CASE r.holder \in Pods
  <2>1. r.transitions = IF lease.exists /\ lease.holder # r.holder
                          THEN lease.transitions + 1 ELSE lease.transitions
    BY <1>1, <1>2, <1>3 DEF Lawful
  <2>2. Contract!Grant(r.holder)
    BY <2>1 DEF Contract!Grant
  <2> QED BY <1>3, <2>2 DEF Contract!Next
<1>4. CASE r.holder = NoPod
  <2>1. lease.exists /\ r.transitions = lease.transitions
    BY <1>4 DEF Lawful
  <2>2. lease' = [exists |-> lease.exists, holder |-> NoPod,
                  transitions |-> lease.transitions]
    BY <1>4, <2>1
  <2> QED BY <2>2 DEF Contract!Next, Contract!Vacate
<1> QED BY <1>3, <1>4 DEF Record

\* The acquisition's response starts a term under a counter that nobody else
\* leads under, the current one if the Lease is still the pod's.
LEMMA ReplyIsStart ==
    ASSUME TypeOK, IInv, LastWrites, NEW p \in Pods, ReplyArrives(p), role[p] = "acquire"
    PROVE  Contract!Start(p)
<1>1. /\ UNCHANGED lease
      /\ leading' = [leading EXCEPT ![p] = TRUE]
      /\ term' = [term EXCEPT ![p] = request[p]]
      /\ Landed(p)
  BY DEF ReplyArrives, Succeeded, server
<1>2. ~leading[p]
  BY DEF IInv, Orderly
<1>3. request[p] \in Nat /\ Claims(p, request[p]) /\ lease.transitions \in Nat
  BY <1>1 DEF Claims, TypeOK
<1>4. request[p] \in 0 .. lease.transitions
  BY <1>3 DEF IInv, TermClaims
<1>5. lease.holder = p => request[p] = lease.transitions
  BY <1>1 DEF LastWrites, LastWrite, IInv, Knowledge, Knows
<1>6. \A q \in Pods : leading[q] => term[q] # request[p]
  BY <1>2, <1>3 DEF IInv, TermClaims, Claims
<1> QED BY <1>1, <1>2, <1>4, <1>5, <1>6 DEF Contract!Start

\* A term ends, or there was none.
LEMMA ForgetIsStop ==
    ASSUME TypeOK, TermsEnd, NEW p \in Pods, ForgetTerm(p), UNCHANGED lease
    PROVE  Contract!Stop(p) \/ UNCHANGED Contract!vars
<1>1. CASE leading[p]
  BY <1>1 DEF ForgetTerm, Contract!Stop
<1>2. CASE ~leading[p]
  <2>1. leading' = leading /\ term' = term
    BY <1>2 DEF ForgetTerm, TermsEnd, TypeOK
  <2> QED BY <2>1 DEF Contract!vars
<1> QED BY <1>1, <1>2

\* Every step of the election is a step of the contract or changes nothing
\* that the contract speaks of.
LEMMA StepRefines ==
    ASSUME TypeOK, IInv, TermsEnd, LastWrites, [Next]_vars
    PROVE  [Contract!Next]_(Contract!vars)
<1> USE DEF Contract!vars
<1>1. ASSUME NEW p \in Pods, EndTerm(p) \/ Crash(p)
      PROVE  [Contract!Next]_(Contract!vars)
  <2>1. ForgetTerm(p) /\ UNCHANGED lease
    BY <1>1 DEF EndTerm, Crash, Abandon
  <2> QED BY <2>1, ForgetIsStop DEF Contract!Next
<1>2. ASSUME NEW p \in Pods, ReplyArrives(p)
      PROVE  [Contract!Next]_(Contract!vars)
  <2>1. CASE role[p] = "acquire"
    BY <1>2, <2>1, ReplyIsStart DEF Contract!Next
  <2>2. CASE role[p] # "acquire"
    BY <1>2, <2>2 DEF ReplyArrives, Succeeded, server
  <2> QED BY <2>1, <2>2
<1>3. ASSUME NEW p \in Pods, LandWrite(p) \/ ReleaseLands(p)
      PROVE  [Contract!Next]_(Contract!vars)
  <2>1. PICK r \in Pending(p) : Write(r, p) \/ Write(r, NoPod)
    BY <1>3 DEF LandWrite, ReleaseLands, Pending
  <2>2. r \in Record /\ Lawful(r)
    BY PendingLawful DEF Pending, Record, TypeOK, IInv
  <2>3. UNCHANGED <<leading, term>>
    BY <1>3 DEF LandWrite, ReleaseLands, flags
  <2> QED BY <2>1, <2>2, <2>3, WriteIsGrantOrVacate DEF Write
<1>4. CASE LandAbandoned
  <2>1. PICK r \in abandoned : Write(r, NoPod)
    BY <1>4 DEF LandAbandoned
  <2>2. r \in Record /\ Lawful(r)
    BY DEF TypeOK, IInv, LateWritesLawful
  <2>3. UNCHANGED <<leading, term>>
    BY <1>4 DEF LandAbandoned, flags
  <2> QED BY <2>1, <2>2, <2>3, WriteIsGrantOrVacate DEF Write
<1>5. ASSUME NEW p \in Pods,
             \/ StartProcess(p) \/ StartTerm(p) \/ StepDown(p) \/ Shutdown(p)
             \/ NextWindow(p) \/ StopRenewing(p) \/ RequestFails(p)
      PROVE  [Contract!Next]_(Contract!vars)
  BY <1>5 DEF StartProcess, StartTerm, StepDown, Shutdown, NextWindow, StopRenewing,
              RequestFails, Abandon, server, flags
<1>6. ASSUME NEW p \in Pods,
             StartAttempt(p) \/ GetRecord(p) \/ GetNotFound(p) \/ GetError(p)
      PROVE  [Contract!Next]_(Contract!vars)
  BY <1>6 DEF StartAttempt, GetRecord, GetNotFound, GetError, GoTo, Failed, server, flags
<1>7. CASE Tick \/ UNCHANGED vars
  BY <1>7 DEF Tick, vars, server, flags
<1> QED
  BY <1>1, <1>2, <1>3, <1>4, <1>5, <1>6, <1>7 DEF Next, PodStep, TryAcquireOrRenew

-----------------------------------------------------------------------------
\* The Lease protocol of cluster.rs implements the contract: whatever is lost,
\* lands late or stalls, all that Leadership ever sees of it is a Lease whose
\* changes of hands are counted and terms under counters of their own.
THEOREM ElectionImplementsTerms == Spec => ImplementsTerms
<1>1. Init => Contract!Init /\ TermsEnd /\ LastWrites
  BY DEF Init, Contract!Init, TermsEnd, LastWrites, LastWrite, Landed, Attempting
<1>2. /\ TypeOK /\ TermsEnd /\ [Next]_vars => TermsEnd'
      /\ TypeOK /\ IInv /\ LastWrites /\ [Next]_vars => LastWrites'
      /\ TypeOK /\ IInv /\ TermsEnd /\ LastWrites /\ [Next]_vars
            => [Contract!Next]_(Contract!vars)
  BY TermsEndStep, LastWritesStep, StepRefines DEF IInv
<1> QED
  BY <1>1, <1>2, TypeCorrect, Inductive, PTL DEF Spec, ImplementsTerms, Contract!Spec

=============================================================================
