--------------------------- MODULE MCHostTemplate ---------------------------
(* Instances of HostTemplate for TLC.                                    *)
EXTENDS HostTemplate

Standalone == {<<1>>}
StandaloneOrCluster == {<<1>>, <<1, 2, 3>>}
=============================================================================
