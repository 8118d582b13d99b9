------------------------------- MODULE Deploy -------------------------------
(***************************************************************************)
(* project/deploy.sh and the scripts it calls: how a run of bcm brings up  *)
(* the tiers (manager, kafka, underlay, and one bitcoin tier per chain) on *)
(* the single LXD endpoint of a standalone machine.                        *)
(*                                                                         *)
(* pc is the command the run issues next, tier the tier whose script it is *)
(* in, stack the scripts that called that one.  'set -e' ends the run at   *)
(* the first command LXD or dockerd refuses (Refused); an operator, a lost *)
(* connection or a reboot ends it anywhere (Interrupt), and a host may be  *)
(* stopped at any moment (StopHost).  The only recovery is to run bcm      *)
(* again (Begin), which looks at what exists and skips it.                 *)
(***************************************************************************)
EXTENDS Naturals, Sequences

CONSTANTS Chains,     \* values of BCM_ACTIVE_CHAIN, one bitcoin tier each
          Provided,   \* what of Prerequisites is there before the first run
          MaxFaults   \* bound on Interrupt, StopHost and lost joins

FixedTiers == {"manager", "kafka", "underlay"}
Tiers == FixedTiers \cup Chains

(* The storage pool 'bcm' and the profiles 'bcm_disk' and 'privileged' are *)
(* used but created by no script; BCM_BACKUP_DIR is read but set by none.  *)
(* The profile 'unprivileged' is used by none, only deleted.               *)
Prerequisites == {"pool", "profiles", "backupDir", "unprivileged"}

ASSUME DeployAssumption ==
  /\ Chains # {} /\ Chains \cap FixedTiers = {}
  /\ Provided \subseteq Prerequisites
  /\ MaxFaults \in Nat

VARIABLES
  pc, tier, stack,  \* control of the running script
  chain,            \* BCM_ACTIVE_CHAIN of this run
  provided,         \* what of Prerequisites is there
  image,            \* contents of the image bcm-template, or why there is none
  project,          \* the bcm project, and which features are set in it
  current,          \* the project lxc is switched to
  profile,          \* the profile of each tier
  nets,             \* the managed networks that exist
  volumes,          \* tiers with a docker volume
  host,             \* state of each tier's LXC host
  attached,         \* hosts with their docker volume attached
  dockerless,       \* hosts made from an image without dockerd
  member,           \* swarm membership recorded on each docker volume
  nodes,            \* hosts 'docker node ls' lists
  deployed,         \* what runs on, or is served by, the swarm
  faults            \* number of faults so far

control == <<pc, tier, stack, chain>>
setup == <<provided, image, project, current>>
hosts == <<volumes, host, attached, dockerless>>
docker == <<member, nodes, deployed>>
vars == <<control, setup, profile, nets, hosts, docker, faults>>

Frames == [pc : {"deploy", "profile", "toronion"}, tier : Tiers]
Labels == {"idle", "done", "image", "project", "setImages", "setProfiles",
           "switch", "deploy", "up", "profile", "fill", "gateway", "network",
           "volume", "init", "attach", "localnet", "start", "wait",
           "prepare", "swarm", "restart", "mirror", "privreg", "base",
           "tokens", "join", "zookeeper", "broker", "toronion"}
Images == {"none", "bare", "docker", "ready", "lost"}
Networks == {"bcmbrGWNat", "bcmNet", "bcmLocalnet"}
Services == {"mirror", "privreg", "base", "zookeeper", "broker", "toronion"}

Init ==
  /\ pc = "idle" /\ tier = "manager" /\ stack = <<>> /\ chain \in Chains
  /\ provided = Provided
  /\ image = "none" /\ project = "none" /\ current = "default"
  /\ profile = [t \in Tiers |-> "none"]
  /\ nets = {} /\ volumes = {} /\ attached = {} /\ dockerless = {}
  /\ host = [t \in Tiers |-> "none"]
  /\ member = [t \in Tiers |-> "none"]
  /\ nodes = {} /\ deployed = {}
  /\ faults = 0

Running(t) == host[t] = "running"
SwarmUp == Running("manager") /\ member["manager"] = "current"
OnNetwork(t) == Running(t) /\ profile[t] = "full"
\* The other tiers reach the swarm's port and the registries by the
\* manager's name.
ManagerReached == SwarmUp /\ OnNetwork("manager")

\* The tier whose host the script of tier t checks, or deploys, first.
Lower(t) == CASE t = "kafka" -> "manager"
              [] t = "underlay" -> "kafka"
              [] OTHER -> "underlay"

\* The parents of the interfaces in the tier's lxc_profile.yml.
Parents(t) == CASE t = "manager" -> {"bcmbrGWNat", "bcmNet"}
                [] t = "underlay" -> {"bcmNet", "bcmLocalnet"}
                [] OTHER -> {"bcmNet"}
-----------------------------------------------------------------------------
(* Operators named Bug... are mutants: the definition that follows each    *)
(* one, with a plausible bug in the code it models.                        *)

\* Bug: a base image found in the local docker daemon is good enough.
BugBaseImageServed == TRUE
BaseImageServed == {"privreg", "base"} \subseteq deployed

\* Bug: ask 'lxc config device show' before attaching the volume.
BugAttachable(t) == TRUE
Attachable(t) == t \notin attached

(* What LXD, dockerd and wait-for-it require of the command at each label. *)
Feasible ==
  /\ pc = "image" => image # "lost"
  /\ pc \in {"volume", "attach"} => "pool" \in provided
  /\ pc = "init" /\ host[tier] = "none" =>
       "profiles" \in provided /\ project = "ready" /\ image # "none"
  /\ pc = "attach" => Attachable(tier)
  /\ pc = "localnet" => "bcmLocalnet" \notin nets
  /\ pc = "start" /\ host[tier] = "stopped" =>
       (profile[tier] = "full" => Parents(tier) \subseteq nets)
  /\ pc = "prepare" => OnNetwork("manager")
  /\ pc = "swarm" => Running("manager") /\ member["manager"] = "none"
  /\ pc \in {"restart", "mirror", "privreg", "base"} => OnNetwork("manager")
  /\ pc = "tokens" => SwarmUp
  /\ pc = "join" => ManagerReached /\ OnNetwork(tier) /\ "mirror" \in deployed
  /\ pc \in {"zookeeper", "broker"} =>
       ManagerReached /\ OnNetwork("kafka") /\ "privreg" \in deployed
  /\ pc = "toronion" =>
       "backupDir" \in provided /\ ManagerReached /\ OnNetwork("underlay")
         /\ BaseImageServed

Command(here, next) ==
  /\ pc = here /\ Feasible /\ pc' = next
  /\ UNCHANGED <<tier, stack, chain, faults>>

\* Run the script of tier t; when it returns, go on at label next of caller.
Call(t, next, caller) ==
  /\ stack' = <<[pc |-> next, tier |-> caller]>> \o stack
  /\ pc' = "up" /\ tier' = t

\* The script of this tier ends: go on in the one that called it.
Return ==
  /\ pc' = Head(stack).pc /\ tier' = Head(stack).tier /\ stack' = Tail(stack)
  /\ UNCHANGED chain

\* The run ends.
Halt == pc' = "idle" /\ tier' = "manager" /\ stack' = <<>> /\ UNCHANGED chain

\* bcm, on an operator's command: deploy.sh from the top.
Begin ==
  /\ pc \in {"idle", "done"}
  /\ pc' = "image" /\ tier' = "manager" /\ stack' = <<>> /\ chain' \in Chains
  /\ current' = "default"
  /\ UNCHANGED <<provided, image, project, profile, nets, hosts, docker, faults>>

(* create_bcm_host_template.sh as a whole, see HostTemplate: complete, or  *)
(* with what a disturbed run left, or skipped since the image is there.    *)
Template == INSTANCE HostImage WITH disturbed <- faults > 0
BuildImage ==
  /\ Command("image", "project")
  /\ image = "none" /\ Template!Next
  /\ UNCHANGED <<provided, project, current, profile, nets, hosts, docker>>

SkipImage ==
  /\ Command("image", "project") /\ image # "none"
  /\ UNCHANGED <<setup, profile, nets, hosts, docker>>

CreateProject ==
  /\ Command("project", "setImages") /\ project = "none"
  /\ project' = "bare"
  /\ UNCHANGED <<provided, image, current, profile, nets, hosts, docker>>

SkipProject ==
  /\ Command("project", "switch") /\ project # "none"
  /\ UNCHANGED <<setup, profile, nets, hosts, docker>>

ShareImages ==
  /\ Command("setImages", "setProfiles")
  /\ project' = "images"
  /\ UNCHANGED <<provided, image, current, profile, nets, hosts, docker>>

ShareProfiles ==
  /\ Command("setProfiles", "switch")
  /\ project' = "ready"
  /\ UNCHANGED <<provided, image, current, profile, nets, hosts, docker>>

SwitchProject ==
  /\ Command("switch", "deploy")
  /\ current' = "bcm"
  /\ UNCHANGED <<provided, image, project, profile, nets, hosts, docker>>

\* deploy.sh, one tier after the other.
Above(t) == CASE t = "manager" -> "kafka"
              [] t = "kafka" -> "underlay"
              [] OTHER -> chain
NextLabel(t) == IF t \in Chains THEN "toronion" ELSE "deploy"

SkipTier ==
  /\ pc = "deploy" /\ Running(tier)
  /\ pc' = NextLabel(tier) /\ tier' = Above(tier)
  /\ UNCHANGED <<stack, chain, setup, profile, nets, hosts, docker, faults>>

DeployTier ==
  /\ pc = "deploy" /\ ~Running(tier)
  /\ Call(tier, NextLabel(tier), Above(tier))
  /\ UNCHANGED <<chain, setup, profile, nets, hosts, docker, faults>>

\* The first lines of kafka/up.sh, underlay/up.sh and bitcoin/up.sh.
UpLower ==
  /\ pc = "up" /\ tier # "manager" /\ ~Running(Lower(tier))
  /\ Call(Lower(tier), "profile", tier)
  /\ UNCHANGED <<chain, setup, profile, nets, hosts, docker, faults>>

UpTier ==
  /\ (tier # "manager" => Running(Lower(tier)))
  /\ Command("up", "profile")
  /\ UNCHANGED <<setup, profile, nets, hosts, docker>>

AfterProfile == IF tier = "manager" THEN "gateway" ELSE "volume"

\* In a project without the default project's profiles, 'lxc profile' makes
\* a profile of that project's own, which no host will ever use.
LocalProfile ==
  /\ Command("profile", AfterProfile) /\ project # "ready"
  /\ UNCHANGED <<setup, profile, nets, hosts, docker>>

\* Bug: the profile of a bitcoin tier named after its directory.
BugCreateProfile ==
  /\ Command("profile", "fill") /\ project = "ready" /\ profile[tier] = "none"
  /\ profile' = IF tier \in Chains
       THEN [t \in Tiers \cup {"bitcoin"} |->
              IF t = "bitcoin" THEN "empty" ELSE profile[t]]
       ELSE [profile EXCEPT ![tier] = "empty"]
  /\ UNCHANGED <<setup, nets, hosts, docker>>
CreateProfile ==
  /\ Command("profile", "fill") /\ project = "ready" /\ profile[tier] = "none"
  /\ profile' = [profile EXCEPT ![tier] = "empty"]
  /\ UNCHANGED <<setup, nets, hosts, docker>>

\* Bug: the profile is created without asking whether it exists.
BugSkipProfile ==
  /\ pc = "profile" /\ project = "ready" /\ profile[tier] # "none" /\ Halt
  /\ UNCHANGED <<setup, profile, nets, hosts, docker, faults>>
SkipProfile ==
  /\ Command("profile", AfterProfile)
  /\ project = "ready" /\ profile[tier] # "none"
  /\ UNCHANGED <<setup, profile, nets, hosts, docker>>

FillProfile ==
  /\ Command("fill", AfterProfile)
  /\ profile' = [profile EXCEPT ![tier] = "full"]
  /\ UNCHANGED <<setup, nets, hosts, docker>>

CreateNetworks ==
  /\ \/ Command("gateway", "network") /\ nets' = nets \cup {"bcmbrGWNat"}
     \/ Command("network", "volume") /\ nets' = nets \cup {"bcmNet"}
  /\ UNCHANGED <<setup, profile, hosts, docker>>
-----------------------------------------------------------------------------
\* spread_lxc_hosts.sh: volume, container and attachment.
CreateVolume ==
  /\ Command("volume", "init")
  /\ volumes' = volumes \cup {tier}
  /\ UNCHANGED <<setup, profile, nets, host, attached, dockerless, docker>>

InitHost ==
  /\ Command("init", "attach") /\ host[tier] = "none"
  /\ host' = [host EXCEPT ![tier] = "stopped"]
  /\ dockerless' = IF image = "bare" THEN dockerless \cup {tier} ELSE dockerless
  /\ UNCHANGED <<setup, profile, nets, volumes, attached, docker>>

SkipInit ==
  /\ Command("init", "attach") /\ host[tier] # "none"
  /\ UNCHANGED <<setup, profile, nets, hosts, docker>>

\* Bug: the test of the volume's location fails and the script goes on.
BugAttachVolume ==
  /\ Command("attach", IF tier = "underlay" THEN "localnet" ELSE "start")
  /\ UNCHANGED <<setup, profile, nets, hosts, docker>>
(* Issued whether or not the volume is attached: the test for ",0, " never *)
(* matches a line of 'lxc storage volume list --format csv'.               *)
AttachVolume ==
  /\ Command("attach", IF tier = "underlay" THEN "localnet" ELSE "start")
  /\ attached' = attached \cup {tier}
  /\ UNCHANGED <<setup, profile, nets, volumes, host, dockerless, docker>>

\* create_tier.sh for a tier of type 2: bcmLocalnet must not exist yet.
CreateLocalnet ==
  /\ Command("localnet", "start")
  /\ nets' = nets \cup {"bcmLocalnet"}
  /\ UNCHANGED <<setup, profile, hosts, docker>>

StartHost ==
  /\ Command("start", "wait") /\ host[tier] = "stopped"
  /\ host' = [host EXCEPT ![tier] = "running"]
  /\ UNCHANGED <<setup, profile, nets, volumes, attached, dockerless, docker>>

\* wait_for_dockerd.sh: the host has a docker0 bridge.
DockerUp == Running(tier) /\ tier \notin dockerless
WaitForDocker ==
  /\ Command("wait", IF tier = "manager" THEN "prepare" ELSE "tokens")
  /\ DockerUp
  /\ UNCHANGED <<setup, profile, nets, hosts, docker>>
\* ... and if it never has one, the loop never ends.
KeepWaiting == pc = "wait" /\ ~DockerUp /\ UNCHANGED vars
-----------------------------------------------------------------------------
\* manager/up.sh, once dockerd answers.
PrepareManager ==
  /\ Command("prepare", "swarm")
  /\ UNCHANGED <<setup, profile, nets, hosts, docker>>

InitSwarm ==
  /\ Command("swarm", "restart")
  /\ member' = [member EXCEPT !["manager"] = "current"]
  /\ UNCHANGED <<setup, profile, nets, hosts, nodes, deployed>>

\* The new daemon.json, 'lxc restart', and the wait for dockerd.
RestartManager ==
  /\ Command("restart", "mirror")
  /\ UNCHANGED <<setup, profile, nets, hosts, docker>>

DeployRegistries ==
  /\ \/ Command("mirror", "privreg") /\ deployed' = deployed \cup {"mirror"}
     \/ Command("privreg", "base") /\ deployed' = deployed \cup {"privreg"}
  /\ UNCHANGED <<setup, profile, nets, hosts, member, nodes>>

\* Build and push bcm-docker-base; the script ends.
PushBaseImage ==
  /\ pc = "base" /\ Feasible /\ Return
  /\ deployed' = deployed \cup {"base"}
  /\ UNCHANGED <<setup, profile, nets, hosts, member, nodes, faults>>

\* get_docker_swarm_tokens.sh, and a host that was RUNNING already.
GetTokens ==
  /\ Command("tokens", "join")
  /\ UNCHANGED <<setup, profile, nets, hosts, docker>>

AfterJoin ==
  \/ tier = "kafka" /\ pc' = "zookeeper" /\ UNCHANGED <<tier, stack, chain>>
  \/ tier # "kafka" /\ Return

\* 'docker swarm join || true': refused on a volume that is in a swarm.
JoinSwarm ==
  /\ pc = "join" /\ Feasible /\ AfterJoin
  /\ member' = [member EXCEPT ![tier] = IF @ = "none" THEN "current" ELSE @]
  /\ nodes' = IF member[tier] = "none" THEN nodes \cup {tier} ELSE nodes
  /\ UNCHANGED <<setup, profile, nets, hosts, deployed, faults>>

\* ... or failing for any other reason, and '|| true' hides that too.
LoseJoin ==
  /\ pc = "join" /\ Feasible /\ AfterJoin /\ faults < MaxFaults
  /\ faults' = faults + 1
  /\ UNCHANGED <<setup, profile, nets, hosts, docker>>

DeployZookeeper ==
  /\ Command("zookeeper", "broker")
  /\ deployed' = deployed \cup {"zookeeper"}
  /\ UNCHANGED <<setup, profile, nets, hosts, member, nodes>>

\* The brokers; the stacks that follow have nothing to build or deploy.
DeployBroker ==
  /\ pc = "broker" /\ Feasible /\ Return
  /\ deployed' = deployed \cup {"broker"}
  /\ UNCHANGED <<setup, profile, nets, hosts, member, nodes, faults>>

DeployToronion ==
  /\ Command("toronion", "done")
  /\ deployed' = deployed \cup {"toronion"}
  /\ UNCHANGED <<setup, profile, nets, hosts, member, nodes>>
-----------------------------------------------------------------------------
\* set -e: the run ends at the first command that is refused.
Refused ==
  /\ pc \notin {"idle", "done"} /\ ~Feasible /\ Halt
  /\ UNCHANGED <<setup, profile, nets, hosts, docker, faults>>

\* The template script, cut short, may leave what it cannot start over from
\* (HostTemplate!Stuck).
Interrupt ==
  /\ pc \notin {"idle", "done"} /\ faults < MaxFaults /\ Halt
  /\ faults' = faults + 1
  /\ image' \in {image} \cup
        (IF pc = "image" /\ image = "none" THEN {"lost"} ELSE {})
  /\ UNCHANGED <<provided, project, current, profile, nets, hosts, docker>>

StopHost(t) ==
  /\ Running(t) /\ faults < MaxFaults
  /\ host' = [host EXCEPT ![t] = "stopped"]
  /\ faults' = faults + 1
  /\ UNCHANGED <<control, setup, profile, nets, volumes, attached, dockerless,
                 docker>>

Prologue == BuildImage \/ SkipImage \/ CreateProject \/ SkipProject
              \/ ShareImages \/ ShareProfiles \/ SwitchProject
Tiering == SkipTier \/ DeployTier \/ UpLower \/ UpTier
Profiling == LocalProfile \/ CreateProfile \/ SkipProfile \/ FillProfile
Hosting == CreateNetworks \/ CreateVolume \/ InitHost \/ SkipInit
             \/ AttachVolume \/ CreateLocalnet \/ StartHost \/ WaitForDocker
             \/ KeepWaiting
Swarming == PrepareManager \/ InitSwarm \/ RestartManager \/ GetTokens
              \/ JoinSwarm
Serving == DeployRegistries \/ PushBaseImage \/ DeployZookeeper
             \/ DeployBroker \/ DeployToronion

Run == Begin \/ Prologue \/ Tiering \/ Profiling \/ Hosting \/ Swarming
         \/ Serving \/ Refused
Fault == Interrupt \/ LoseJoin \/ \E t \in Tiers : StopHost(t)

Next == Run \/ Fault

(* A command that can be issued is, and the operator runs bcm again: each  *)
(* run is one process that does nothing but issue its next command.        *)
Fairness == WF_vars(Run)

Spec == Init /\ [][Next]_vars /\ Fairness
-----------------------------------------------------------------------------
TypeOK ==
  /\ pc \in Labels /\ tier \in Tiers /\ stack \in Seq(Frames) /\ chain \in Chains
  /\ provided \subseteq Prerequisites /\ image \in Images
  /\ project \in {"none", "bare", "images", "ready"}
  /\ current \in {"default", "bcm"}
  /\ profile \in [Tiers -> {"none", "empty", "full"}]
  /\ nets \subseteq Networks
  /\ volumes \subseteq Tiers /\ attached \subseteq Tiers
  /\ dockerless \subseteq Tiers
  /\ host \in [Tiers -> {"none", "stopped", "running"}]
  /\ member \in [Tiers -> {"none", "current", "old"}]
  /\ nodes \subseteq Tiers
  /\ deployed \subseteq Services
  /\ faults \in 0..MaxFaults

(* A host never runs on its root disk alone: docker's volume is attached   *)
(* before the first start, whatever was interrupted and run again.         *)
RunningHasDisk == \A t \in Tiers : Running(t) => t \in attached \cap volumes

(* deploy.sh takes a RUNNING manager for a deployed one, yet no run gets   *)
(* to its end over a manager whose own script was cut short.               *)
ManagerServes == {"mirror", "privreg", "base"} \subseteq deployed
ManagerComplete == pc = "done" => ManagerServes

Starting(t) == tier = t /\ pc \in {"localnet", "start"}
Phase(t) == IF host[t] = "none" THEN "none"
            ELSE IF Running(t) THEN "up"
            ELSE IF t \notin attached THEN "created"
            ELSE IF Starting(t) THEN "starting" ELSE "down"
Life == INSTANCE HostLife WITH Hosts <- Tiers,
                               phase <- [t \in Tiers |-> Phase(t)]

(* Each host is created, given its disk and started once; the scripts      *)
(* never start it again after it went down or its run was cut short.       *)
HostLives == Life!Spec

Quiet == faults = MaxFaults /\ pc = "idle"

(* What a cut-short run or a stopped host leaves behind that running bcm   *)
(* again, with BCM_ACTIVE_CHAIN = c, cannot repair.                        *)
Blocked(c) ==
  \/ image \in {"bare", "lost"}
  \/ project \in {"bare", "images"}
  \/ \E t \in {"manager", "underlay"} : profile[t] = "empty"
  \/ \E t \in attached \cap (FixedTiers \cup {c}) : host[t] = "stopped"
  \/ Running("manager") /\ ~ManagerServes

(* With no more faults, running bcm again, for whichever chains, completes *)
(* a deployment from any state that is not Blocked for one of them, unless *)
(* the image it had to build comes out bare, of the template an earlier    *)
(* run left half installed ...                                             *)
RerunDeploys ==
  (Quiet /\ \A c \in Chains : ~Blocked(c)) ~> (pc = "done" \/ image = "bare")

(* ... and from a state that is Blocked for a chain no sequence of runs,   *)
(* those for other chains included, ever gets to the end for that chain.   *)
BlockedForGood ==
  \A c \in Chains : [](Quiet /\ Blocked(c) => [](pc = "done" => chain # c))

(* The comment in deploy.sh has it that each script ends when its service  *)
(* is active, so that a finished deployment has kafka and joined hosts.    *)
DoneMeansActive ==
  pc = "done" => /\ Services \subseteq deployed
                 /\ \A t \in FixedTiers \cup {chain} : member[t] = "current"

=============================================================================
