------------------------ MODULE MCVolumeAutoscaler ------------------------
EXTENDS VolumeAutoscaler

\* The default policies: ten percent and one GiB, the larger of them.
DefaultSteps == {[kind |-> "Percent", value |-> 10], [kind |-> "GiB", value |-> 1]}
=============================================================================
