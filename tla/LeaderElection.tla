--------------------------- MODULE LeaderElection ---------------------------
(***************************************************************************)
(* forklift's active/standby election over one Kubernetes Lease            *)
(* (box/addons/forklift/src/cluster.rs).                                   *)
(*                                                                         *)
(* Every pod runs Elector::run: it contends (acquire), leads while it can  *)
(* renew (renew), gives the Lease up (release) and backs off.  The Lease   *)
(* lives in the API server and is written with optimistic concurrency.  A  *)
(* write is a request that lands, or never does, and a response that       *)
(* arrives, or never does; a request whose sender stopped waiting for it   *)
(* may still land later.                                                   *)
(*                                                                         *)
(* Time is discrete and relative: obsAge is how long ago a pod last set    *)
(* observed_record, wait and deadline count down.  A Lease write carries   *)
(* fresh timestamps and a fresh resourceVersion, so every write is         *)
(* distinguishable; only two comparisons with those values are ever made,  *)
(* and each is kept as one Boolean per pod: fresh (the cached object has   *)
(* the current resourceVersion) and seen (observed_raw equals the current  *)
(* record).                                                                *)
(***************************************************************************)
EXTENDS Naturals

CONSTANTS
    Pods,            \* identities contending for the Lease
    NoPod,           \* the empty holder identity
    LeaseDuration,   \* HAConfig.lease_duration, in ticks
    RenewDeadline,   \* HAConfig.renew_deadline
    RetryPeriod,     \* HAConfig.retry_period
    ReplyDelay,      \* how long the response to a landed write may take
    MayStall,        \* pods whose timers may fire arbitrarily late
    MaxTransitions   \* bound on leaderTransitions, for model checking

ASSUME PodsAssumption == NoPod \notin Pods /\ MayStall \subseteq Pods

\* The first three lines are LeaderElectionConfig::validate in whole ticks.
\* The last is what mutual exclusion rests on; the defaults (15s, 10s, 2s)
\* give it for responses faster than 3s, and validate does not ask for it.
ASSUME TimingAssumption ==
    /\ LeaseDuration \in Nat /\ RenewDeadline \in Nat
    /\ RetryPeriod \in Nat /\ ReplyDelay \in Nat
    /\ RetryPeriod > 0 /\ RenewDeadline > RetryPeriod
    /\ LeaseDuration > RenewDeadline + RetryPeriod + ReplyDelay

ASSUME MaxTransitionsAssumption == MaxTransitions \in Nat

VARIABLES
    lease,         \* the Lease object: exists, holder, transitions
    abandoned,     \* records of writes nobody waits for any more and that
                   \* carry the current resourceVersion
    role,          \* where a pod is in Elector::run / LeaderElector::run
    step,          \* where it is inside try_acquire_or_renew
    request,       \* leader_transitions of the record being written
    observed,      \* observed_record
    obsAge,        \* time since observed_time, saturating at LeaseDuration
    fresh,         \* the cached Lease carries the current resourceVersion
    seen,          \* observed_raw is the current record
    wait,          \* time left of the current sleep or until the response
    deadline,      \* time left of the renew window, or of release's timeout
    leading,       \* TermState.leading
    steppingDown,  \* TermState.stepping_down
    cancelled,     \* the term's token is cancelled
    shutdown,      \* the process token is cancelled
    term           \* history: transitions written by the acquisition that
                   \* started the current term

server == <<lease, abandoned>>
view   == <<observed, obsAge, fresh, seen>>
flags  == <<leading, steppingDown, cancelled, shutdown, term>>
vars   == <<server, role, step, request, view, wait, deadline, flags>>

Roles == {"down", "backoff", "acquire", "renew", "sleep", "release", "released"}
Steps == {"start", "fast", "fastLanded", "slow", "update", "create", "landed"}
Record == [holder : Pods \cup {NoPod}, transitions : Nat]
NoRecord == [holder |-> NoPod, transitions |-> 0]

Init ==
    /\ lease = [exists |-> FALSE, holder |-> NoPod, transitions |-> 0]
    /\ abandoned = {}
    /\ role = [p \in Pods |-> "down"]
    /\ step = [p \in Pods |-> "start"]
    /\ request = [p \in Pods |-> 0]
    /\ observed = [p \in Pods |-> NoRecord]
    /\ obsAge = [p \in Pods |-> LeaseDuration]
    /\ fresh = [p \in Pods |-> FALSE]
    /\ seen = [p \in Pods |-> FALSE]
    /\ wait = [p \in Pods |-> 0]
    /\ deadline = [p \in Pods |-> 0]
    /\ leading = [p \in Pods |-> FALSE]
    /\ steppingDown = [p \in Pods |-> FALSE]
    /\ cancelled = [p \in Pods |-> FALSE]
    /\ shutdown = [p \in Pods |-> FALSE]
    /\ term = [p \in Pods |-> 0]

-----------------------------------------------------------------------------
(* The Lease in the API server.                                            *)

IsLeader(p) == observed[p].holder = p

\* Mutant of IsLeaseValid: expiry measured against renew_deadline.
IsLeaseValidShort(p) == obsAge[p] < RenewDeadline

IsLeaseValid(p) == obsAge[p] < LeaseDuration

\* The API server accepts record r; only its writer, if it still waits for
\* the response, can come to hold the new resourceVersion.
Write(r, writer) ==
    /\ lease' = [exists |-> TRUE, holder |-> r.holder,
                 transitions |-> r.transitions]
    /\ abandoned' = {}
    /\ fresh' = [q \in Pods |-> q = writer]
    /\ seen' = [q \in Pods |-> FALSE]

Attempting(p) == role[p] \in {"acquire", "renew"}

\* Mutant of Sending: updates without a resourceVersion.
SendingUnconditionally(p) ==
    /\ Attempting(p)
    /\ step[p] \in {"fast", "update", "create"}

\* p has a create or replace on the wire that the API server would accept.
Sending(p) ==
    /\ Attempting(p)
    /\ \/ step[p] \in {"fast", "update"} /\ fresh[p]
       \/ step[p] = "create" /\ ~lease.exists

Releasing(p) == role[p] = "release" /\ IsLeader(p) /\ fresh[p]

Pending(p) ==
    {r \in {[holder |-> p, transitions |-> request[p]]} : Sending(p)}
    \cup
    {r \in {[holder |-> NoPod, transitions |-> observed[p].transitions]} :
        Releasing(p)}

\* p stops waiting for its request, which is lost or lands later.
Abandon(p) ==
    /\ \/ UNCHANGED abandoned
       \/ abandoned' = abandoned \cup Pending(p)
    /\ UNCHANGED lease

LandAbandoned ==
    /\ \E r \in abandoned : Write(r, NoPod)
    /\ UNCHANGED <<role, step, request, observed, obsAge, wait, deadline, flags>>

-----------------------------------------------------------------------------
(* Elector::run: the process and its terms.                                *)

\* A new LeaderElector, or none: nothing observed, nothing under way.  The
\* LeaseLock cache outlives the term, but a new term reads the Lease before
\* it writes, so what the cache held is never used.
ForgetTerm(p) ==
    /\ step' = [step EXCEPT ![p] = "start"]
    /\ request' = [request EXCEPT ![p] = 0]
    /\ observed' = [observed EXCEPT ![p] = NoRecord]
    /\ obsAge' = [obsAge EXCEPT ![p] = LeaseDuration]
    /\ fresh' = [fresh EXCEPT ![p] = FALSE]
    /\ seen' = [seen EXCEPT ![p] = FALSE]
    /\ deadline' = [deadline EXCEPT ![p] = 0]
    /\ leading' = [leading EXCEPT ![p] = FALSE]
    /\ steppingDown' = [steppingDown EXCEPT ![p] = FALSE]
    /\ cancelled' = [cancelled EXCEPT ![p] = FALSE]
    /\ term' = [term EXCEPT ![p] = 0]

Landed(p) == Attempting(p) /\ step[p] \in {"fastLanded", "landed"}

\* The LeaseLock cache misses the version of a write whose response is
\* dropped.
DropResponse(p) == fresh' = [fresh EXCEPT ![p] = @ /\ ~Landed(p)]

\* The process starts Elector::run.
StartProcess(p) ==
    /\ role[p] = "down"
    /\ role' = [role EXCEPT ![p] = "backoff"]
    /\ UNCHANGED <<server, step, request, view, wait, deadline, flags>>

\* One iteration of the election loop.
StartTerm(p) ==
    /\ role[p] = "backoff"
    /\ wait[p] = 0
    /\ role' = [role EXCEPT ![p] = "acquire"]
    /\ UNCHANGED <<server, step, request, view, wait, deadline, flags>>

\* The term ends and on_stopped runs: after release() returned, whatever it
\* achieved, or because a contender was cancelled.  A voluntary step-down
\* backs off longer than a standby needs to take over; a process that is
\* shutting down leaves the loop.
EndTerm(p) ==
    /\ \/ role[p] \in {"release", "released"}
       \/ role[p] = "acquire" /\ cancelled[p]
    /\ Abandon(p)
    /\ ForgetTerm(p)
    /\ IF shutdown[p]
         THEN /\ role' = [role EXCEPT ![p] = "down"]
              /\ wait' = [wait EXCEPT ![p] = 0]
         ELSE /\ role' = [role EXCEPT ![p] = "backoff"]
              /\ wait' = [wait EXCEPT ![p] =
                    IF steppingDown[p] THEN LeaseDuration + RetryPeriod
                                       ELSE RetryPeriod]
    /\ shutdown' = [shutdown EXCEPT ![p] = FALSE]

\* Elector::step_down, the console's manual failover.
StepDown(p) ==
    /\ leading[p]
    /\ steppingDown' = [steppingDown EXCEPT ![p] = TRUE]
    /\ cancelled' = [cancelled EXCEPT ![p] = TRUE]
    /\ UNCHANGED <<server, role, step, request, view, wait, deadline, leading,
                   shutdown, term>>

\* SIGTERM: the process token cancels the term; a loop between terms ends.
Shutdown(p) ==
    /\ role[p] # "down"
    /\ ~shutdown[p]
    /\ IF role[p] = "backoff"
         THEN /\ role' = [role EXCEPT ![p] = "down"]
              /\ wait' = [wait EXCEPT ![p] = 0]
              /\ UNCHANGED <<cancelled, shutdown>>
         ELSE /\ cancelled' = [cancelled EXCEPT ![p] = TRUE]
              /\ shutdown' = [shutdown EXCEPT ![p] = TRUE]
              /\ UNCHANGED <<role, wait>>
    /\ UNCHANGED <<server, step, request, view, deadline, leading,
                   steppingDown, term>>

\* The process dies without a word; the Lease keeps naming it.
Crash(p) ==
    /\ role[p] # "down"
    /\ Abandon(p)
    /\ ForgetTerm(p)
    /\ role' = [role EXCEPT ![p] = "down"]
    /\ wait' = [wait EXCEPT ![p] = 0]
    /\ shutdown' = [shutdown EXCEPT ![p] = FALSE]

-----------------------------------------------------------------------------
(* try_acquire_or_renew, called by acquire and by renew.                   *)

GoTo(p, s) ==
    /\ step' = [step EXCEPT ![p] = s]
    /\ UNCHANGED <<role, wait, deadline, flags>>

\* Mutant of Succeeded: the first renew window lasts lease_duration.
SucceededLongWindow(p) ==
    /\ step' = [step EXCEPT ![p] = "start"]
    /\ role' = [role EXCEPT ![p] = IF role[p] = "acquire" THEN "renew" ELSE "sleep"]
    /\ wait' = [wait EXCEPT ![p] = IF role[p] = "acquire" THEN 0 ELSE RetryPeriod]
    /\ deadline' = [deadline EXCEPT ![p] = LeaseDuration]
    /\ leading' = [leading EXCEPT ![p] = TRUE]
    /\ term' = [term EXCEPT ![p] = request[p]]
    /\ UNCHANGED <<steppingDown, cancelled, shutdown>>

\* It returned true.  A contender starts leading and opens its first renew
\* window at once; a leader sleeps retry_period.
Succeeded(p) ==
    /\ step' = [step EXCEPT ![p] = "start"]
    /\ \/ /\ role[p] = "acquire"
          /\ role' = [role EXCEPT ![p] = "renew"]
          /\ wait' = [wait EXCEPT ![p] = 0]
          /\ deadline' = [deadline EXCEPT ![p] = RenewDeadline]
          /\ leading' = [leading EXCEPT ![p] = TRUE]
          /\ term' = [term EXCEPT ![p] = request[p]]
       \/ /\ role[p] = "renew"
          /\ role' = [role EXCEPT ![p] = "sleep"]
          /\ wait' = [wait EXCEPT ![p] = RetryPeriod]
          /\ deadline' = [deadline EXCEPT ![p] = 0]
          /\ UNCHANGED <<leading, term>>
    /\ UNCHANGED <<steppingDown, cancelled, shutdown>>

\* It returned false: retry after retry_period.
Failed(p) ==
    /\ step' = [step EXCEPT ![p] = "start"]
    /\ wait' = [wait EXCEPT ![p] = RetryPeriod]
    /\ UNCHANGED <<role, deadline, flags>>

\* 1. Fast path: a leader whose observation is still valid updates the
\*    cached object without reading it first.
StartAttempt(p) ==
    /\ Attempting(p) /\ step[p] = "start" /\ wait[p] = 0
    /\ IF IsLeader(p) /\ IsLeaseValid(p)
         THEN /\ GoTo(p, "fast")
              /\ request' = [request EXCEPT ![p] = observed[p].transitions]
         ELSE GoTo(p, "slow") /\ UNCHANGED request
    /\ UNCHANGED <<server, view>>

\* Mutants of NextTransitions: a takeover keeps the counter; a renewal counts.
TakeoverKeeps(p, n) == n
RenewalCounts(p, n) == n + 1

\* leader_transitions of an update: a takeover counts, a renewal does not.
NextTransitions(p, n) == IF IsLeader(p)' THEN n ELSE n + 1

\* 2. - 4. Read the record, note it when it changed, decide whether it may
\*    be taken and what the update is to say.
GetRecord(p) ==
    /\ Attempting(p) /\ step[p] = "slow"
    /\ lease.exists
    /\ lease.transitions < MaxTransitions \/ lease.holder = p
    /\ fresh' = [fresh EXCEPT ![p] = TRUE]
    /\ seen' = [seen EXCEPT ![p] = TRUE]
    /\ IF seen[p]
         THEN UNCHANGED <<observed, obsAge>>
         ELSE /\ observed' = [observed EXCEPT ![p] =
                    [holder |-> lease.holder, transitions |-> lease.transitions]]
              /\ obsAge' = [obsAge EXCEPT ![p] = 0]
    /\ IF lease.holder # NoPod /\ IsLeaseValid(p)' /\ ~IsLeader(p)'
         THEN Failed(p) /\ UNCHANGED request
         ELSE /\ GoTo(p, "update")
              /\ request' = [request EXCEPT ![p] =
                    NextTransitions(p, lease.transitions)]
    /\ UNCHANGED server

GetNotFound(p) ==
    /\ Attempting(p) /\ step[p] = "slow"
    /\ ~lease.exists
    /\ GoTo(p, "create")
    /\ request' = [request EXCEPT ![p] = 0]
    /\ UNCHANGED <<server, view>>

\* The read failed for another reason.
GetError(p) ==
    /\ Attempting(p) /\ step[p] = "slow"
    /\ Failed(p)
    /\ UNCHANGED <<server, request, view>>

\* The API server applies p's create or replace; the response is to come.
LandWrite(p) ==
    /\ Sending(p)
    /\ Write([holder |-> p, transitions |-> request[p]], p)
    /\ step' = [step EXCEPT ![p] =
          IF step[p] = "fast" THEN "fastLanded" ELSE "landed"]
    /\ wait' = [wait EXCEPT ![p] = ReplyDelay]
    /\ UNCHANGED <<role, request, observed, obsAge, deadline, flags>>

ReplyArrives(p) ==
    /\ Landed(p)
    /\ observed' = [observed EXCEPT ![p] =
          [holder |-> p, transitions |-> request[p]]]
    /\ obsAge' = [obsAge EXCEPT ![p] = 0]
    /\ Succeeded(p)
    /\ UNCHANGED <<server, request, fresh, seen>>

\* The request was refused, or its outcome is not known: the fast path falls
\* through to the slow one, any other write gives the attempt up.
RequestFails(p) ==
    /\ Attempting(p)
    /\ \/ step[p] \in {"fast", "fastLanded"} /\ step' = [step EXCEPT ![p] = "slow"]
          /\ wait' = [wait EXCEPT ![p] = 0]
       \/ step[p] \in {"update", "create", "landed"}
          /\ step' = [step EXCEPT ![p] = "start"]
          /\ wait' = [wait EXCEPT ![p] = RetryPeriod]
    /\ Abandon(p)
    /\ DropResponse(p)
    /\ UNCHANGED <<role, request, observed, obsAge, seen, deadline, flags>>

TryAcquireOrRenew(p) ==
    \/ StartAttempt(p)
    \/ GetRecord(p) \/ GetNotFound(p) \/ GetError(p)
    \/ LandWrite(p) \/ ReplyArrives(p) \/ RequestFails(p)

-----------------------------------------------------------------------------
(* The renew loop and release.                                             *)

\* The next renew window opens after the retry_period sleep.
NextWindow(p) ==
    /\ role[p] = "sleep"
    /\ wait[p] = 0
    /\ ~cancelled[p]
    /\ role' = [role EXCEPT ![p] = "renew"]
    /\ deadline' = [deadline EXCEPT ![p] = RenewDeadline]
    /\ UNCHANGED <<server, step, request, view, wait, flags>>

\* The loop ends: the window's deadline passed or the term was cancelled.
\* release() is given renew_deadline to finish.
StopRenewing(p) ==
    /\ \/ role[p] = "renew" /\ deadline[p] = 0
       \/ role[p] \in {"renew", "sleep"} /\ cancelled[p]
    /\ role' = [role EXCEPT ![p] = "release"]
    /\ step' = [step EXCEPT ![p] = "start"]
    /\ wait' = [wait EXCEPT ![p] = 0]
    /\ deadline' = [deadline EXCEPT ![p] = RenewDeadline]
    /\ Abandon(p)
    /\ DropResponse(p)
    /\ UNCHANGED <<request, observed, obsAge, seen, flags>>

\* The release lands while its response is still on the way, so the pod has
\* not stopped leading yet.
ReleaseLands(p) ==
    /\ Releasing(p)
    /\ Write([holder |-> NoPod, transitions |-> observed[p].transitions], NoPod)
    /\ role' = [role EXCEPT ![p] = "released"]
    /\ observed' = [observed EXCEPT ![p].holder = NoPod]
    /\ UNCHANGED <<step, request, obsAge, wait, deadline, flags>>

-----------------------------------------------------------------------------
\* A timer of p has fired, or the response it waits for is due.
Due(p) ==
    \/ role[p] \in {"renew", "release", "released"} /\ deadline[p] = 0
    \/ role[p] \in {"renew", "sleep"} /\ cancelled[p]
    \/ role[p] = "sleep" /\ wait[p] = 0
    \/ Landed(p) /\ wait[p] = 0

Less(n) == IF n = 0 THEN 0 ELSE n - 1
Older(n) == IF n = LeaseDuration THEN n ELSE n + 1

\* Time passes unless a pod that may not stall has a timer to serve.
Tick ==
    /\ \A p \in Pods \ MayStall : ~Due(p)
    /\ obsAge' = [p \in Pods |-> Older(obsAge[p])]
    /\ wait' = [p \in Pods |-> Less(wait[p])]
    /\ deadline' = [p \in Pods |-> Less(deadline[p])]
    /\ UNCHANGED <<server, role, step, request, observed, fresh, seen, flags>>

PodStep(p) ==
    \/ StartProcess(p) \/ StartTerm(p) \/ EndTerm(p)
    \/ StepDown(p) \/ Shutdown(p) \/ Crash(p)
    \/ TryAcquireOrRenew(p)
    \/ NextWindow(p) \/ StopRenewing(p) \/ ReleaseLands(p)

Next ==
    \/ \E p \in Pods : PodStep(p)
    \/ LandAbandoned
    \/ Tick

Spec == Init /\ [][Next]_vars

-----------------------------------------------------------------------------
(* Properties.                                                             *)

\* Every variable stays in its type: timers within the configured durations,
\* the counters within the bound.
TypeOK ==
    /\ lease \in [exists : BOOLEAN, holder : Pods \cup {NoPod}, transitions : Nat]
    /\ abandoned \subseteq Record
    /\ role \in [Pods -> Roles]
    /\ step \in [Pods -> Steps]
    /\ request \in [Pods -> Nat]
    /\ observed \in [Pods -> Record]
    /\ obsAge \in [Pods -> 0 .. LeaseDuration]
    /\ fresh \in [Pods -> BOOLEAN]
    /\ seen \in [Pods -> BOOLEAN]
    /\ wait \in [Pods -> 0 .. LeaseDuration + RetryPeriod]
    /\ deadline \in [Pods -> 0 .. RenewDeadline]
    /\ leading \in [Pods -> BOOLEAN]
    /\ steppingDown \in [Pods -> BOOLEAN]
    /\ cancelled \in [Pods -> BOOLEAN]
    /\ shutdown \in [Pods -> BOOLEAN]
    /\ term \in [Pods -> Nat]

\* leaderTransitions is a fencing token: two pods that both believe they
\* lead, one of them stalled past its Lease included, were elected under
\* different counters, and the Lease has reached both.
TermsDiffer ==
    \A p, q \in Pods :
        leading[p] => /\ term[p] <= lease.transitions
                      /\ leading[q] /\ p # q => term[p] # term[q]

\* While a pod that serves its timers is renewing, every other pod that
\* believes it leads has stopped renewing and is on its way out (or is
\* stalled): Leases of live leaders are never taken from them.
RenewingLeaderIsAlone ==
    \A p, q \in Pods \ MayStall :
        p # q /\ leading[p] /\ leading[q] =>
            \/ role[p] \in {"release", "released"}
            \/ role[q] \in {"release", "released"}

\* A leader that serves its timers and still holds the Lease holds it under
\* the counter it was elected with: the fence it published stays current for
\* its whole term.
FenceStaysCurrent ==
    \A p \in Pods \ MayStall :
        leading[p] /\ lease.holder = p => lease.transitions = term[p]

\* The counter never goes back, and the Lease never passes from one holder,
\* live or gone, to another without counting it: a late write that belongs to
\* an earlier version of the Lease changes nothing.
HandoverCounted ==
    [][ /\ lease'.transitions >= lease.transitions
        /\ lease.exists /\ lease'.holder \notin {lease.holder, NoPod}
             => lease'.transitions = lease.transitions + 1 ]_lease

Contract == INSTANCE Terms WITH Pods <- Pods, NoPod <- NoPod,
            lease <- lease, leading <- leading, term <- term

\* The election implements what Leadership is built on: whatever lands late,
\* is lost or is stalled, every step is a counted grant of the Lease, its
\* vacation, or the start or stop of one pod's term under a counter no other
\* running term has.
ImplementsTerms == Contract!Spec

\* "guarantees a single writer": at most one pod believes it leads
\* (cluster.rs, module comment).
SingleLeader ==
    \A p, q \in Pods : leading[p] /\ leading[q] => p = q

=============================================================================
