------------------------------ MODULE Teardown ------------------------------
(***************************************************************************)
(* 'tier destroy': the scripts that take a tier down again, between runs   *)
(* of bcm (Deploy).  Deploy's pc, tier and chain are shared: one session   *)
(* either deploys or destroys.  A script that gets to its end goes back to *)
(* "idle", as one that is refused or interrupted does.                     *)
(*                                                                         *)
(* The scripts look for hosts and volumes in the project lxc is switched   *)
(* to, and for profiles and images in that project or the default one; what*)
(* they do not see they silently skip.                                     *)
(***************************************************************************)
EXTENDS Deploy

Destroys == {"rmBroker", "rmZookeeper", "rmNode", "stopHost", "rmHost",
             "rmVolume", "rmGateway", "rmNet", "rmProfile", "rmLocalnet",
             "rmImage", "rmPrivileged", "rmUnprivileged", "switchBack",
             "rmProject"}

InProject == current = "bcm"
ProfilesVisible == current = "default" \/ project = "ready"
ImagesVisible == current = "default" \/ project \in {"images", "ready"}
NoHosts == \A t \in Tiers : host[t] = "none"

\* The volume of a bitcoin tier is named after BCM_ACTIVE_CHAIN, whichever
\* tier is destroyed.
DiskOf(t) == IF t \in Chains THEN chain ELSE t

\* Bug: the host, too, is named after BCM_ACTIVE_CHAIN.
BugHostOf(t) == IF t \in Chains THEN chain ELSE t
HostOf(t) == t

(* What LXD requires of the command at each label.  The profiles           *)
(* bcm-privileged and bcm-unprivileged of install.sh always answer to the  *)
(* grep for 'privileged', with no user: 'lxc profile delete privileged' is *)
(* issued whether or not there is one, and so is the next.                 *)
Allowed ==
  /\ pc = "rmVolume" /\ InProject => DiskOf(tier) \notin attached
  /\ pc = "rmPrivileged" /\ ProfilesVisible =>
       "profiles" \in provided /\ NoHosts
  /\ pc = "rmUnprivileged" /\ ProfilesVisible => "unprivileged" \in provided
  /\ pc = "rmProject" => volumes = {} /\ NoHosts

Issue(here, next) ==
  /\ pc = here /\ Allowed
  /\ IF next = "idle" THEN Halt ELSE pc' = next /\ UNCHANGED <<tier, stack, chain>>
  /\ UNCHANGED faults

\* Bug: all bitcoin tiers go through bitcoin/destroy.sh, which names 'bitcoin'.
BugBeginDestroy(t) ==
  /\ pc \in {"idle", "done"}
  /\ pc' = CASE t = "manager" -> "stopHost"
             [] t = "kafka" -> "rmBroker"
             [] OTHER -> "rmNode"
  /\ tier' = IF t \in Chains THEN "bitcoin" ELSE t
  /\ stack' = <<>> /\ chain' \in Chains
  /\ UNCHANGED <<setup, profile, nets, hosts, docker, faults>>
\* tier/entrypoint.sh destroy t, with any BCM_ACTIVE_CHAIN.
BeginDestroy(t) ==
  /\ pc \in {"idle", "done"}
  /\ pc' = CASE t = "manager" -> "stopHost"
             [] t = "kafka" -> "rmBroker"
             [] OTHER -> "rmNode"
  /\ tier' = t /\ stack' = <<>> /\ chain' \in Chains
  /\ UNCHANGED <<setup, profile, nets, hosts, docker, faults>>

\* Services are removed only where the swarm's manager is seen to answer.
RemoveServices ==
  /\ \/ /\ Issue("rmBroker", "rmZookeeper")
        /\ deployed' = IF InProject /\ SwarmUp THEN deployed \ {"broker"}
                       ELSE deployed
     \/ /\ Issue("rmZookeeper", "rmNode")
        /\ deployed' = IF InProject /\ SwarmUp THEN deployed \ {"zookeeper"}
                       ELSE deployed
  /\ UNCHANGED <<setup, profile, nets, hosts, member, nodes>>

(* remove_docker_node.sh: its 'set -Eeu pipefail' replaces the script's    *)
(* arguments by "pipefail", so that NODE_NAME stays empty, every node      *)
(* matches it, the manager among them, and none is removed.                *)
RemoveNode ==
  /\ Issue("rmNode", "stopHost")
  /\ UNCHANGED <<setup, profile, nets, hosts, docker>>

\* Bug: 'lxc delete --force' in place of 'lxc stop'.
BugStopTierHost ==
  /\ Issue("stopHost", "rmHost")
  /\ UNCHANGED <<setup, profile, nets, hosts, docker>>
StopTierHost ==
  /\ Issue("stopHost", "rmHost")
  /\ host' = IF InProject /\ Running(HostOf(tier))
             THEN [host EXCEPT ![HostOf(tier)] = "stopped"] ELSE host
  /\ UNCHANGED <<setup, profile, nets, volumes, attached, dockerless, docker>>

DeleteHost ==
  /\ Issue("rmHost", "rmVolume")
  /\ IF InProject
     THEN /\ host' = [host EXCEPT ![HostOf(tier)] = "none"]
          /\ attached' = attached \ {HostOf(tier)}
          /\ dockerless' = dockerless \ {HostOf(tier)}
     ELSE UNCHANGED <<host, attached, dockerless>>
  /\ UNCHANGED <<setup, profile, nets, volumes, docker>>

AfterVolume == IF tier = "manager" THEN "rmGateway" ELSE "rmProfile"

SkipVolume ==
  /\ Issue("rmVolume", AfterVolume)
  /\ ~InProject \/ DiskOf(tier) \notin volumes
  /\ UNCHANGED <<setup, profile, nets, hosts, docker>>

\* With the manager's volume goes the swarm; the others still believe in it.
DeleteVolume ==
  /\ Issue("rmVolume", AfterVolume) /\ InProject /\ DiskOf(tier) \in volumes
  /\ volumes' = volumes \ {DiskOf(tier)}
  /\ IF tier = "manager"
     THEN /\ member' = [t \in Tiers |->
               IF t = "manager" THEN "none"
               ELSE IF member[t] = "current" THEN "old" ELSE member[t]]
          /\ nodes' = {} /\ deployed' = {}
     ELSE /\ member' = [member EXCEPT ![DiskOf(tier)] = "none"]
          /\ UNCHANGED <<nodes, deployed>>
  /\ UNCHANGED <<setup, profile, nets, host, attached, dockerless>>

AfterRemoval == CASE tier = "manager" -> "rmImage"
                  [] tier = "underlay" -> "rmLocalnet"
                  [] OTHER -> "idle"

\* Bug: the profile is looked for under a name it does not have.
BugDeleteProfile ==
  /\ Issue("rmProfile", AfterRemoval)
  /\ UNCHANGED <<setup, profile, nets, hosts, docker>>
(* The tier's own profile, if no host uses it.  For a bitcoin tier that is *)
(* bcm-bitcoin-CHAIN: remove_tier.sh sets PROFILE_NAME to 'bcm-bitcoin',   *)
(* and tiers/env.sh, which it sources for each endpoint, sets it anew.     *)
DeleteProfile ==
  /\ Issue("rmProfile", AfterRemoval)
  /\ profile' = IF host[tier] = "none" /\ ProfilesVisible
                THEN [profile EXCEPT ![tier] = "none"] ELSE profile
  /\ UNCHANGED <<setup, nets, hosts, docker>>

\* delete_lxc_network.sh: only a network with no user; whether a profile
\* counts as one depends on the version of LXD.
UsersOf(n) == {t \in Tiers : profile[t] = "full" /\ n \in Parents(t)}
DropNetwork(n) ==
  \/ nets' = nets \ {n} /\ \A t \in UsersOf(n) : host[t] = "none"
  \/ nets' = nets /\ UsersOf(n) # {}

DeleteNetworks ==
  /\ \/ Issue("rmGateway", "rmNet") /\ DropNetwork("bcmbrGWNat")
     \/ Issue("rmNet", "rmProfile") /\ DropNetwork("bcmNet")
     \/ Issue("rmLocalnet", "idle") /\ DropNetwork("bcmLocalnet")
  /\ UNCHANGED <<setup, profile, hosts, docker>>

\* Bug: the image is kept by default.
BugDeleteImage ==
  /\ Issue("rmImage", "rmPrivileged")
  /\ UNCHANGED <<setup, profile, nets, hosts, docker>>
(* The container bcm-template and its snapshot stay behind, so the image   *)
(* is never published again (HostTemplate, ImplementsHostImage).           *)
DeleteImage ==
  /\ Issue("rmImage", "rmPrivileged")
  /\ IF ImagesVisible /\ image \notin {"none", "lost"}
     THEN Template!Delete ELSE UNCHANGED image
  /\ UNCHANGED <<provided, project, current, profile, nets, hosts, docker>>

DeleteSharedProfiles ==
  /\ \/ /\ Issue("rmPrivileged", "rmUnprivileged")
        /\ provided' = IF ProfilesVisible THEN provided \ {"profiles"}
                       ELSE provided
     \/ /\ Issue("rmUnprivileged", "switchBack")
        /\ provided' = IF ProfilesVisible THEN provided \ {"unprivileged"}
                       ELSE provided
  /\ UNCHANGED <<image, project, current, profile, nets, hosts, docker>>

SwitchBack ==
  /\ Issue("switchBack", IF InProject THEN "rmProject" ELSE "idle")
  /\ current' = "default"
  /\ UNCHANGED <<provided, image, project, profile, nets, hosts, docker>>

DeleteProject ==
  /\ Issue("rmProject", "idle")
  /\ project' = "none"
  /\ UNCHANGED <<provided, image, current, profile, nets, hosts, docker>>

\* set -e, in a destroy script.
Disallowed ==
  /\ pc \in Destroys /\ ~Allowed /\ Halt
  /\ UNCHANGED <<setup, profile, nets, hosts, docker, faults>>

Removal == RemoveServices \/ RemoveNode \/ StopTierHost \/ DeleteHost
             \/ SkipVolume \/ DeleteVolume \/ DeleteProfile
             \/ DeleteNetworks \/ DeleteImage \/ DeleteSharedProfiles
             \/ SwitchBack \/ DeleteProject \/ Disallowed

Destroy == Removal \/ \E t \in Tiers : BeginDestroy(t)

\* Deploying and destroying in any order.
AnyOrder == Init /\ [][Next \/ Destroy]_vars
-----------------------------------------------------------------------------
(* What an operator can do about a tier that a run of bcm cannot repair.   *)
Broken(t) ==
  /\ InProject
  /\ \/ t # "manager" /\ t \in attached /\ host[t] = "stopped"
     \/ t = "underlay" /\ profile[t] = "empty"
     \/ t = "manager" /\ project = "bare"

Redeploy == Begin /\ ~\E t \in Tiers : Broken(t)
Rebuild == \E t \in Tiers : Broken(t) /\ BeginDestroy(t)
Repair == Redeploy \/ Rebuild \/ Removal \/ Prologue \/ Tiering \/ Profiling
            \/ Hosting \/ Swarming \/ Serving \/ Refused

\* Destroy the tier that is broken, else run bcm.
Runbook == Init /\ [][Repair \/ Fault]_vars /\ WF_vars(Repair)
-----------------------------------------------------------------------------
TeardownTypeOK ==
  /\ pc \in Labels \cup Destroys /\ tier \in Tiers /\ chain \in Chains
  /\ provided \subseteq Prerequisites /\ image \in Images
  /\ project \in {"none", "bare", "images", "ready"}
  /\ profile \in [Tiers -> {"none", "empty", "full"}]
  /\ volumes \subseteq Tiers /\ attached \subseteq Tiers
  /\ host \in [Tiers -> {"none", "stopped", "running"}]
  /\ member \in [Tiers -> {"none", "current", "old"}]
  /\ nodes \subseteq Tiers /\ deployed \subseteq Services

(* With destroy scripts in between, a host is still created, given its     *)
(* disk and started at most once before it is deleted.                     *)
HostsLiveAndDie == Life!DestroySpec

(* Destroying a tier stops and deletes no other tier's host, and takes no  *)
(* volume away from one, though a bitcoin tier's script may go for the     *)
(* volume of another chain.                                                *)
LeaveOthers ==
  \A t \in Tiers \ {tier} :
    host'[t] = host[t] /\ (t \in attached => t \in (attached \cap volumes)')
OthersKeepTheirs ==
  [][(pc \in Destroys) /\ faults' = faults => LeaveOthers]_vars

(* What neither bcm nor the destroy scripts recover from: destroying the   *)
(* manager takes the image with it, so only a 'bare' project, which does   *)
(* not see the image, can be thrown away with the manager.                 *)
Hopeless ==
  \/ image \in {"bare", "lost"}
  \/ project = "images"
  \/ profile["manager"] = "empty"
  \/ "manager" \in attached /\ host["manager"] = "stopped"
  \/ Running("manager") /\ ~ManagerServes

(* Once faults have left something Hopeless, no sequence of bcm runs and   *)
(* tier destructions, in any order and for any chain, completes a          *)
(* deployment.                                                             *)
HopelessForGood == [](Quiet /\ Hopeless => [](pc # "done"))

(* From any other leftover, destroying what is broken and running bcm      *)
(* again completes it.                                                     *)
RunbookDeploys == (Quiet /\ ~Hopeless) ~> (pc = "done" \/ image = "bare")
=============================================================================
