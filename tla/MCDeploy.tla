------------------------------ MODULE MCDeploy ------------------------------
(* Instances of Deploy for TLC.                                            *)
EXTENDS Deploy

Everything == Prerequisites
=============================================================================
