------------------------------- MODULE Terms --------------------------------
(***************************************************************************)
(* What the election promises to the code that leads: one Lease whose      *)
(* holders are numbered, and terms that start and stop in each pod.        *)
(* LeaderElection implements this specification; Leadership is built on    *)
(* it.  It says nothing about time: a term may outlive its hold on the     *)
(* Lease, which is what a stalled pod does.                                *)
(***************************************************************************)
EXTENDS Naturals

CONSTANTS
    Pods,
    NoPod            \* the empty holder identity

VARIABLES
    lease,           \* exists, holder, transitions
    leading,         \* TermState.leading, between on_started and on_stopped
    term             \* the counter the current term was acquired under

vars == <<lease, leading, term>>

Init ==
    /\ lease = [exists |-> FALSE, holder |-> NoPod, transitions |-> 0]
    /\ leading = [p \in Pods |-> FALSE]
    /\ term = [p \in Pods |-> 0]

\* The Lease becomes p's: a change of hands is counted, and only that.
Grant(p) ==
    /\ lease' = [exists |-> TRUE, holder |-> p,
                 transitions |-> IF lease.exists /\ lease.holder # p
                                   THEN lease.transitions + 1
                                   ELSE lease.transitions]
    /\ UNCHANGED <<leading, term>>

\* Its holder gives the Lease up.
Vacate ==
    /\ lease' = [exists |-> lease.exists, holder |-> NoPod,
                 transitions |-> lease.transitions]
    /\ UNCHANGED <<leading, term>>

\* on_started: the counter was reached, no other term under way has it, and
\* it is the current one unless the Lease has been taken away already.
Start(p) ==
    /\ ~leading[p]
    /\ \E t \in 0 .. lease.transitions :
          /\ lease.holder = p => t = lease.transitions
          /\ \A q \in Pods : leading[q] => term[q] # t
          /\ term' = [term EXCEPT ![p] = t]
    /\ leading' = [leading EXCEPT ![p] = TRUE]
    /\ UNCHANGED lease

\* on_stopped, or the process is gone.
Stop(p) ==
    /\ leading[p]
    /\ leading' = [leading EXCEPT ![p] = FALSE]
    /\ term' = [term EXCEPT ![p] = 0]
    /\ UNCHANGED lease

Next ==
    \/ \E p \in Pods : Grant(p) \/ Start(p) \/ Stop(p)
    \/ Vacate

Spec == Init /\ [][Next]_vars

=============================================================================
