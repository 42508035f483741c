----------------------------- MODULE DurableLog -----------------------------
(***************************************************************************)
(* What shipping the WAL promises to whoever restores the database from    *)
(* the bucket: transactions are committed one after the other, and what a  *)
(* restore gives is a prefix of them that only grows.  WalShipping         *)
(* implements this specification with its base, its segments and the rules *)
(* by which a reader combines them.                                        *)
(***************************************************************************)
EXTENDS Naturals

VARIABLES
    commits,    \* the frames that end a transaction
    durable     \* the last frame a restore gives

vars == <<commits, durable>>

Init == commits = {} /\ durable = 0

\* A transaction ends with a later frame than all before it.
Commit ==
    /\ \E n \in commits' : commits' = commits \cup {n} /\ \A k \in commits : k < n
    /\ UNCHANGED durable

\* Whole transactions become durable.
Ship ==
    /\ durable' \in commits /\ durable' > durable
    /\ UNCHANGED commits

Next == Commit \/ Ship

Spec == Init /\ [][Next]_vars
=============================================================================
