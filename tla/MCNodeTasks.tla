----------------------------- MODULE MCNodeTasks -----------------------------
(* Instances of NodeTasks for TLC.                                       *)
EXTENDS NodeTasks

TwoAddresses == {"10.0.1.2", "10.0.1.5"}
=============================================================================
