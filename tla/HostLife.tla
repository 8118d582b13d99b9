------------------------------ MODULE HostLife ------------------------------
(***************************************************************************)
(* The life of the LXC hosts as the scripts can make it: a host is         *)
(* created, given its disk, started once, and when it goes down, or is     *)
(* given up before its first start, nothing but its deletion follows.      *)
(***************************************************************************)
CONSTANT Hosts
VARIABLE phase

Init == phase = [h \in Hosts |-> "none"]

Step(h, from, to) ==
  /\ phase[h] \in from
  /\ phase' = [phase EXCEPT ![h] = to]

Create(h) == Step(h, {"none"}, "created")
Attach(h) == Step(h, {"created"}, "starting")
Start(h) == Step(h, {"starting"}, "up")
Fall(h) == Step(h, {"starting", "up"}, "down")
Delete(h) == Step(h, {"created", "down"}, "none")

Next == \E h \in Hosts : Create(h) \/ Attach(h) \/ Start(h) \/ Fall(h)

\* Without the destroy scripts ...
Spec == Init /\ [][Next]_phase
\* ... and with them.
DestroySpec == Init /\ [][Next \/ \E h \in Hosts : Delete(h)]_phase
=============================================================================
