------------------------ MODULE MCKubernetesUpgrade ------------------------
EXTENDS KubernetesUpgrade

Wish(mode, target, dry, karp) == [mode |-> mode, target |-> target, dry |-> dry, karp |-> karp]

\* Upgrades by two minors, rollbacks by one and by two, and a dry run.
MCSpecs ==
    {Wish("Forward", 2, FALSE, FALSE), Wish("Forward", 1, FALSE, TRUE),
     Wish("Rollback", 1, FALSE, FALSE), Wish("Rollback", 0, FALSE, FALSE),
     Wish("Rollback", 1, TRUE, FALSE), Wish("Forward", 0, FALSE, TRUE)}

\* One upgrade of a cluster with a Karpenter pool.
MCKarpenter == {Wish("Forward", 1, FALSE, TRUE)}
=============================================================================
