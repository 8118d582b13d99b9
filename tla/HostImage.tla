------------------------------ MODULE HostImage ------------------------------
(***************************************************************************)
(* What the rest of the deployment expects of the image bcm-template: it   *)
(* appears once, complete unless the run that built it was disturbed by an *)
(* interruption or by another session; it is not replaced, and once it has *)
(* been deleted it never comes back.                                       *)
(***************************************************************************)
VARIABLES image, disturbed

Init == image = "none"

PublishComplete == image = "none" /\ image' = "ready"
PublishPartial == image = "none" /\ disturbed /\ image' \in {"bare", "docker"}

Next == PublishComplete \/ PublishPartial

Delete == image \in {"bare", "docker", "ready"} /\ image' = "lost"

Spec == Init /\ [][Next \/ Delete]_image
=============================================================================
