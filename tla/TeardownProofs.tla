--------------------------- MODULE TeardownProofs ---------------------------
(***************************************************************************)
(* Proofs about Teardown: runs of bcm and destroy scripts in any order,    *)
(* for any chains, prerequisites and number of faults.                     *)
(*                                                                         *)
(* While a script of Deploy runs, the lemmas of DeployProofs say what its  *)
(* steps keep; what is added here is that the destroy scripts keep it too, *)
(* and that an interruption or a stopped host is all that can come between *)
(* their commands.                                                         *)
(***************************************************************************)
EXTENDS Teardown, DeployProofs

Typed ==
  /\ TeardownTypeOK
  /\ stack \in Seq(Frames) /\ current \in {"default", "bcm"}
  /\ nets \subseteq Networks /\ dockerless \subseteq Tiers
  /\ faults \in 0..MaxFaults

(* A destroy script calls no other, and has stopped its host before it     *)
(* deletes it.                                                             *)
DestroyOK ==
  /\ pc \in Labels => StackOK
  /\ pc \in Destroys => stack = <<>>
  /\ pc = "rmHost" /\ InProject => host[tier] # "running"

TeardownInv ==
  /\ Typed /\ DestroyOK
  /\ DiskOK /\ ServeOK /\ ImageOK /\ ProjectOK /\ ControlOK

(* In a script of Deploy this is what the lemmas of DeployProofs ask for.  *)
LEMMA InLabels ==
  ASSUME TeardownInv, pc \in Labels
  PROVE  TypeOK /\ StackOK /\ BlockedInv
BY DEF TeardownInv, Typed, TeardownTypeOK, DestroyOK, TypeOK, BlockedInv, Inv

(* A step of a deployment between two removals is one of Deploy.           *)
LEMMA DeployingKeeps ==
  ASSUME TeardownInv, pc \in Labels, Next
  PROVE  TeardownInv'
<1>1. TypeOK /\ StackOK /\ DiskOK /\ ServeOK /\ ImageOK /\ ProjectOK /\ ControlOK
  BY InLabels DEF TeardownInv
<1>2. TypeOK' /\ StackOK'
  BY <1>1, SetupTypes, HostTypes, SwarmTypes, FaultTypes DEF Next, Run, Fault
<1>3. DiskOK' /\ ServeOK' /\ ImageOK' /\ ProjectOK' /\ ControlOK'
  BY <1>1, DiskStep, ServeStep, ImageStep, ProjectStep, ControlStep
<1>4. pc' \in Labels /\ pc' \notin Destroys
  BY <1>2 DEF TypeOK, Labels, Destroys
<1> QED
  BY <1>2, <1>3, <1>4
     DEF TeardownInv, Typed, TeardownTypeOK, DestroyOK, TypeOK, Destroys

(* Between the commands of a destroy script only faults happen.            *)
LEMMA OnlyFaults ==
  ASSUME pc \in Destroys, Next
  PROVE  Interrupt \/ \E t \in Tiers : StopHost(t)
<1> USE DEF Destroys
<1>1. Feasible
  BY DEF Feasible
<1>2. ~(Begin \/ Prologue \/ Tiering \/ Profiling)
  BY DEF Begin, Prologue, BuildImage, SkipImage, CreateProject, SkipProject,
     ShareImages, ShareProfiles, SwitchProject, Tiering, SkipTier, DeployTier,
     UpLower, UpTier, Profiling, LocalProfile, CreateProfile, SkipProfile,
     FillProfile, Command
<1>3. ~(Hosting \/ Swarming \/ Serving \/ LoseJoin)
  BY DEF Hosting, CreateNetworks, CreateVolume, InitHost, SkipInit,
     AttachVolume, CreateLocalnet, StartHost, WaitForDocker, KeepWaiting,
     Swarming, PrepareManager, InitSwarm, RestartManager, GetTokens, JoinSwarm,
     Serving, DeployRegistries, PushBaseImage, DeployZookeeper, DeployBroker,
     DeployToronion, LoseJoin, Command
<1> QED BY <1>1, <1>2, <1>3 DEF Next, Run, Fault, Refused

(* A fault during a removal: it is interrupted, or a host stops.           *)
LEMMA FaultKeeps ==
  ASSUME TeardownInv, pc \in Destroys,
         Interrupt \/ \E t \in Tiers : StopHost(t)
  PROVE  TeardownInv'
<1> USE DeployAssumption DEF DeployAssumption, TeardownInv
<1>1. CASE Interrupt
  <2>1. /\ pc' = "idle" /\ stack' = <<>> /\ tier' = "manager"
        /\ UNCHANGED <<chain, provided, image, project, current, profile, nets,
                       hosts, docker>>
        /\ faults' = faults + 1 /\ faults < MaxFaults
    BY <1>1 DEF Interrupt, Halt, Destroys
  <2>2. Typed'
    <3>1. <<>> \in Seq(Frames)
      OBVIOUS
    <3> QED
      BY <2>1, <3>1 DEF Typed, TeardownTypeOK, Labels, Tiers, FixedTiers, hosts,
         docker
  <2>3. DestroyOK'
    BY <2>1 DEF DestroyOK, StackOK, Before, Destroys
  <2>4. DiskOK' /\ ServeOK' /\ ImageOK' /\ ProjectOK' /\ ControlOK'
    BY <2>1 DEF DiskOK, ServeOK, ManagerServes, ImageOK, ProjectOK, ControlOK,
       PastWait, ManagerLabels, Opening, Labels, hosts, docker
  <2> QED BY <2>2, <2>3, <2>4
<1>2. ASSUME NEW t \in Tiers, StopHost(t) PROVE TeardownInv'
  <2>1. Typed'
    BY <1>2 DEF Typed, TeardownTypeOK, StopHost, control, setup, docker
  <2>2. DestroyOK'
    BY <1>2 DEF DestroyOK, StackOK, Typed, TeardownTypeOK, InProject, StopHost,
       control, setup
  <2>3. DiskOK' /\ ServeOK'
    BY <1>2 DEF DiskOK, ServeOK, ManagerServes, Typed, TeardownTypeOK, StopHost,
       Running, control, docker
  <2>4. ImageOK' /\ ProjectOK' /\ ControlOK'
    BY <1>2 DEF ImageOK, ProjectOK, ControlOK, Typed, TeardownTypeOK, StopHost,
       Running, control, setup, docker
  <2> QED BY <2>1, <2>2, <2>3, <2>4
<1> QED BY <1>1, <1>2
-----------------------------------------------------------------------------
(* A command of a destroy script goes on to the next one or ends the run.  *)
LEMMA RemovalControl ==
  ASSUME Removal, DestroyOK
  PROVE  /\ pc \in Destroys /\ stack = <<>> /\ stack' = <<>>
         /\ UNCHANGED <<chain, faults>>
         /\ \/ pc' \in Destroys /\ tier' = tier
            \/ pc' = "idle" /\ tier' = "manager"
<1> USE DEF Issue, Halt, Destroys, DestroyOK
<1>1. CASE RemoveServices \/ RemoveNode \/ StopTierHost \/ DeleteHost
  BY <1>1 DEF RemoveServices, RemoveNode, StopTierHost, DeleteHost
<1>2. CASE SkipVolume \/ DeleteVolume \/ DeleteProfile
  BY <1>2 DEF SkipVolume, DeleteVolume, DeleteProfile, AfterVolume, AfterRemoval
<1>3. CASE DeleteNetworks \/ DeleteImage \/ DeleteSharedProfiles \/ SwitchBack
             \/ DeleteProject \/ Disallowed
  BY <1>3 DEF DeleteNetworks, DeleteImage, DeleteSharedProfiles, SwitchBack,
     DeleteProject, Disallowed
<1> QED BY <1>1, <1>2, <1>3 DEF Removal

(* What the commands do to the data of Typed, and to what is deployed.     *)
LEMMA RemovalTypes ==
  ASSUME Typed, DestroyOK, Removal
  PROVE  Typed'
<1>0. /\ stack' = stack /\ UNCHANGED <<chain, faults>>
      /\ pc' \in Labels \cup Destroys /\ tier' \in Tiers
  BY RemovalControl DEF Typed, TeardownTypeOK, Labels, Tiers, FixedTiers
<1> USE <1>0 DEF Typed, TeardownTypeOK
<1>1. CASE RemoveServices
  BY <1>1 DEF RemoveServices, setup, hosts
<1>2. CASE RemoveNode \/ SkipVolume \/ Disallowed
  BY <1>2 DEF RemoveNode, SkipVolume, Disallowed, setup, hosts, docker
<1>3. CASE StopTierHost \/ DeleteHost
  BY <1>3 DEF StopTierHost, DeleteHost, HostOf, setup, hosts, docker
<1>4. CASE DeleteVolume
  BY <1>4 DEF DeleteVolume, setup
<1>5. CASE DeleteProfile
  BY <1>5 DEF DeleteProfile, setup, hosts, docker
<1>6. CASE DeleteNetworks
  BY <1>6 DEF DeleteNetworks, DropNetwork, setup, hosts, docker
<1>7. CASE DeleteImage
  BY <1>7 DEF DeleteImage, Template!Delete, Images, hosts, docker
<1>8. CASE DeleteSharedProfiles \/ SwitchBack \/ DeleteProject
  BY <1>8 DEF DeleteSharedProfiles, SwitchBack, DeleteProject, hosts, docker
<1> QED
  BY <1>1, <1>2, <1>3, <1>4, <1>5, <1>6, <1>7, <1>8 DEF Removal

(* Volumes go only where no host holds them, and hosts with their disk.    *)
LEMMA RemovalDisks ==
  ASSUME Typed, DestroyOK, DiskOK, Removal
  PROVE  DiskOK'
<1>0. pc' \in Destroys \cup {"idle"}
  BY RemovalControl
<1> USE <1>0 DEF DiskOK, Destroys
<1>1. CASE StopTierHost \/ DeleteHost
  BY <1>1 DEF StopTierHost, DeleteHost, HostOf, Running, Typed, TeardownTypeOK,
     hosts
<1>2. CASE DeleteVolume
  BY <1>2 DEF DeleteVolume, Issue, Allowed
<1>3. CASE ~(StopTierHost \/ DeleteHost \/ DeleteVolume)
  BY <1>3 DEF Removal, RemoveServices, RemoveNode, SkipVolume, DeleteProfile,
     DeleteNetworks, DeleteImage, DeleteSharedProfiles, SwitchBack,
     DeleteProject, Disallowed, hosts
<1> QED BY <1>1, <1>2, <1>3

(* Nothing is deployed, created or published by a destroy script.          *)
LEMMA RemovalSetup ==
  ASSUME Typed, DestroyOK, ServeOK, ImageOK, ProjectOK, Removal
  PROVE  ServeOK' /\ ImageOK' /\ ProjectOK'
<1>0. pc' \in Destroys \cup {"idle"}
  BY RemovalControl
<1> USE <1>0 DEF ServeOK, ManagerServes, ImageOK, ProjectOK, Destroys, Labels,
                 PastWait, ManagerLabels
<1>1. CASE RemoveServices
  BY <1>1 DEF RemoveServices, setup, hosts
<1>2. CASE RemoveNode \/ SkipVolume \/ DeleteNetworks \/ Disallowed
  BY <1>2 DEF RemoveNode, SkipVolume, DeleteNetworks, Disallowed, setup, hosts,
     docker
<1>3. CASE StopTierHost \/ DeleteHost
  BY <1>3 DEF StopTierHost, DeleteHost, HostOf, Running, Typed, TeardownTypeOK,
     setup, docker
<1>4. CASE DeleteVolume
  BY <1>4 DEF DeleteVolume, setup
<1>5. CASE DeleteProfile
  BY <1>5 DEF DeleteProfile, Typed, TeardownTypeOK, setup, hosts, docker
<1>6. CASE DeleteImage
  BY <1>6 DEF DeleteImage, Template!Delete, hosts, docker
<1>7. CASE DeleteSharedProfiles \/ SwitchBack
  BY <1>7 DEF DeleteSharedProfiles, SwitchBack, hosts, docker
<1>8. CASE DeleteProject
  BY <1>8 DEF DeleteProject, Issue, Allowed, NoHosts, hosts, docker
<1> QED
  BY <1>1, <1>2, <1>3, <1>4, <1>5, <1>6, <1>7, <1>8 DEF Removal

(* A step of a removal takes away, and calls nobody.                       *)
LEMMA RemovalKeeps ==
  ASSUME TeardownInv, Removal
  PROVE  TeardownInv'
<1>1. /\ pc \in Destroys /\ stack = <<>> /\ stack' = <<>>
      /\ \/ pc' \in Destroys /\ tier' = tier
         \/ pc' = "idle" /\ tier' = "manager"
  BY RemovalControl DEF TeardownInv
<1>2. Typed' /\ DiskOK' /\ ServeOK' /\ ImageOK' /\ ProjectOK'
  BY RemovalTypes, RemovalDisks, RemovalSetup DEF TeardownInv
<1>3. ControlOK'
  BY <1>1 DEF ControlOK, Destroys, Before, Opening, ManagerLabels
<1>4. DestroyOK'
  <2>1. pc' = "rmHost" => StopTierHost
    BY DEF Removal, RemoveServices, RemoveNode, DeleteHost, SkipVolume,
       DeleteVolume, DeleteProfile, DeleteNetworks, DeleteImage,
       DeleteSharedProfiles, SwitchBack, DeleteProject, Disallowed, Issue,
       Halt, AfterVolume, AfterRemoval
  <2>2. StopTierHost /\ InProject' => host'[tier] # "running"
    BY DEF StopTierHost, HostOf, InProject, Running, TeardownInv, Typed,
       TeardownTypeOK, setup
  <2>3. pc' = "rmHost" => tier' = tier
    BY <1>1
  <2>4. pc' \in Labels => StackOK'
    BY <1>1 DEF Labels, Destroys, StackOK, Before
  <2> QED BY <1>1, <2>1, <2>2, <2>3, <2>4 DEF DestroyOK
<1> QED BY <1>2, <1>3, <1>4 DEF TeardownInv

(* A removal begins where nothing is being deployed.                       *)
LEMMA BeginDestroyKeeps ==
  ASSUME TeardownInv, NEW t \in Tiers, BeginDestroy(t)
  PROVE  TeardownInv'
<1>1. /\ pc' \in {"stopHost", "rmBroker", "rmNode"}
      /\ tier' = t /\ stack' = <<>> /\ chain' \in Chains
      /\ UNCHANGED <<setup, profile, nets, hosts, docker, faults>>
  BY DEF BeginDestroy
<1>2. <<>> \in Seq(Frames)
  OBVIOUS
<1>3. Typed'
  BY <1>1, <1>2
     DEF TeardownInv, Typed, TeardownTypeOK, Destroys, setup, hosts, docker
<1>4. DestroyOK'
  BY <1>1 DEF DestroyOK, Labels
<1>5. DiskOK' /\ ServeOK' /\ ImageOK' /\ ProjectOK' /\ ControlOK'
  BY <1>1 DEF TeardownInv, DiskOK, ServeOK, ManagerServes, ImageOK, ProjectOK,
     ControlOK, Before, Opening, ManagerLabels, PastWait, Labels, setup, hosts,
     docker
<1> QED BY <1>3, <1>4, <1>5 DEF TeardownInv

(* The invariant holds of deployments and removals in any order.           *)
LEMMA TeardownInvariance == AnyOrder => []TeardownInv
<1>1. Init => TeardownInv
  <2>1. <<>> \in Seq(Frames)
    OBVIOUS
  <2> QED
    BY <2>1, DeployAssumption
       DEF Init, TeardownInv, Typed, TeardownTypeOK, DestroyOK, StackOK, DiskOK,
           ServeOK, ImageOK, ProjectOK, ControlOK, DeployAssumption, Before,
           Opening, ManagerLabels, PastWait, Labels, Destroys, Tiers,
           FixedTiers, Images
<1>2. TeardownInv /\ [Next \/ Destroy]_vars => TeardownInv'
  <2>1. ASSUME TeardownInv, UNCHANGED vars PROVE TeardownInv'
    BY <2>1 DEF TeardownInv, Typed, TeardownTypeOK, DestroyOK, StackOK, DiskOK,
       ServeOK, ManagerServes, ImageOK, ProjectOK, ControlOK, InProject, vars,
       control, setup, hosts, docker
  <2>2. ASSUME TeardownInv, Next PROVE TeardownInv'
    <3>1. pc \in Labels \/ pc \in Destroys
      BY <2>2 DEF TeardownInv, Typed, TeardownTypeOK
    <3> QED BY <2>2, <3>1, DeployingKeeps, OnlyFaults, FaultKeeps
  <2>3. ASSUME TeardownInv, Destroy PROVE TeardownInv'
    BY <2>3, RemovalKeeps, BeginDestroyKeeps DEF Destroy
  <2> QED BY <2>1, <2>2, <2>3
<1> QED BY <1>1, <1>2, PTL DEF AnyOrder

(* Every variable keeps its type when tiers are destroyed in between.      *)
THEOREM AnyOrderTypeOK == AnyOrder => []TeardownTypeOK
<1>1. TeardownInv => TeardownTypeOK
  BY DEF TeardownInv, Typed
<1> QED BY <1>1, TeardownInvariance, PTL

(* Hosts run on their volumes, and bcm only reports success over a manager *)
(* that serves, whatever is destroyed in between.                          *)
THEOREM AnyOrderKeepsDisks == AnyOrder => [](RunningHasDisk /\ ManagerComplete)
<1>1. TeardownInv => RunningHasDisk /\ ManagerComplete
  BY DEF TeardownInv, Typed, TeardownTypeOK, DiskOK, ServeOK, RunningHasDisk,
     Running, ManagerComplete
<1> QED BY <1>1, TeardownInvariance, PTL

(* Destroying a tier stops and deletes no other tier's host and takes no   *)
(* volume away from one: a bitcoin tier's script that goes for the volume  *)
(* of another chain is refused while that chain's host has it.             *)
THEOREM AnyOrderOthersKeepTheirs == AnyOrder => OthersKeepTheirs
<1>1. ASSUME TeardownInv, Removal PROVE LeaveOthers
  <2> USE <1>1 DEF LeaveOthers, TeardownInv, DiskOK
  <2>1. CASE StopTierHost \/ DeleteHost
    BY <2>1 DEF StopTierHost, DeleteHost, HostOf, Typed, TeardownTypeOK, hosts
  <2>2. CASE DeleteVolume
    BY <2>2 DEF DeleteVolume, Issue, Allowed
  <2>3. CASE ~(StopTierHost \/ DeleteHost \/ DeleteVolume)
    BY <2>3 DEF Removal, RemoveServices, RemoveNode, SkipVolume, DeleteProfile,
       DeleteNetworks, DeleteImage, DeleteSharedProfiles, SwitchBack,
       DeleteProject, Disallowed, hosts
  <2> QED BY <2>1, <2>2, <2>3
<1>2. ASSUME TeardownInv, pc \in Destroys, faults' = faults, Next \/ Destroy
      PROVE  LeaveOthers
  <2>1. ~Next
    BY <1>2, OnlyFaults
       DEF Interrupt, StopHost, TeardownInv, Typed
  <2>2. \A t \in Tiers : ~BeginDestroy(t)
    BY <1>2 DEF BeginDestroy, Destroys
  <2> QED BY <1>1, <1>2, <2>1, <2>2 DEF Destroy
<1>3. TeardownInv /\ [Next \/ Destroy]_vars
      => [(pc \in Destroys) /\ faults' = faults => LeaveOthers]_vars
  BY <1>2
<1> QED BY <1>3, TeardownInvariance, PTL DEF AnyOrder, OthersKeepTheirs
-----------------------------------------------------------------------------
LifeNext == Life!Next \/ \E h \in Tiers : Life!Delete(h)

(* A stopped host falls, an interrupted destroy script leaves every host   *)
(* where it is in its life.                                                *)
LEMMA FaultLives ==
  ASSUME TeardownInv, pc \in Destroys,
         Interrupt \/ \E t \in Tiers : StopHost(t)
  PROVE  [LifeNext]_Phases
<1>1. CASE Interrupt
  BY <1>1, SamePhase DEF Interrupt, Halt, Destroys, hosts
<1>2. ASSUME NEW h \in Tiers, StopHost(h) PROVE [LifeNext]_Phases
  <2>1. Phase(h) = "up" /\ Phase(h)' = "down"
    BY <1>2 DEF TeardownInv, Typed, TeardownTypeOK, DiskOK, StopHost, Phase,
       Starting, Running, control, Destroys
  <2>2. \A t \in Tiers \ {h} : Phase(t)' = Phase(t)
    BY <1>2 DEF StopHost, TeardownInv, Typed, TeardownTypeOK, Phase, Starting,
       Running, control
  <2> QED BY <2>1, <2>2, LifeOfOne DEF LifeNext, Life!Next, Life!Fall
<1> QED BY <1>1, <1>2

(* The destroy scripts stop their host, which then falls, and delete it    *)
(* when it is down or was never given its disk.                            *)
LEMMA RemovalLives ==
  ASSUME TeardownInv, Removal
  PROVE  [LifeNext]_Phases
<1>0. /\ pc \in Destroys /\ pc' \in Destroys \cup {"idle"}
      /\ tier \in Tiers
  BY RemovalControl DEF TeardownInv, Typed, TeardownTypeOK
<1>1. pc \notin {"localnet", "start"} /\ pc' \notin {"localnet", "start"}
  BY <1>0 DEF Destroys
<1> PICK h \in Tiers : h = tier
  BY <1>0
<1>2. CASE StopTierHost
  <2>1. CASE InProject /\ Running(h)
    <3>1. host' = [host EXCEPT ![h] = "stopped"] /\ attached' = attached
      BY <1>2, <2>1 DEF StopTierHost, HostOf
    <3>2. Phase(h) = "up" /\ Phase(h)' = "down"
      BY <1>0, <1>1, <2>1, <3>1 DEF TeardownInv, Typed, TeardownTypeOK, DiskOK,
         Phase, Starting, Running
    <3>3. \A t \in Tiers \ {h} : Phase(t)' = Phase(t)
      BY <1>1, <3>1 DEF TeardownInv, Typed, TeardownTypeOK, Phase, Starting,
         Running
    <3>4. Life!Step(h, {"starting", "up"}, "down")
      BY <1>0, <3>2, <3>3, LifeOfOne
    <3> QED BY <1>0, <3>4 DEF LifeNext, Life!Next, Life!Fall
  <2>2. CASE ~(InProject /\ Running(h))
    BY <1>1, <1>2, <2>2, SamePhase DEF StopTierHost, HostOf
  <2> QED BY <2>1, <2>2
<1>3. CASE DeleteHost
  <2>1. CASE InProject /\ host[h] # "none"
    <3>1. /\ host' = [host EXCEPT ![h] = "none"]
          /\ attached' = attached \ {h}
          /\ host[h] = "stopped"
      BY <1>0, <1>3, <2>1 DEF DeleteHost, Issue, HostOf, TeardownInv, DestroyOK,
         Typed, TeardownTypeOK
    <3>2. Phase(h) \in {"created", "down"} /\ Phase(h)' = "none"
      BY <1>0, <1>1, <3>1 DEF TeardownInv, Typed, TeardownTypeOK, Phase,
         Starting, Running
    <3>3. \A t \in Tiers \ {h} : Phase(t)' = Phase(t)
      BY <1>1, <3>1 DEF TeardownInv, Typed, TeardownTypeOK, Phase, Starting,
         Running
    <3>4. Life!Step(h, {"created", "down"}, "none")
      BY <1>0, <3>2, <3>3, LifeOfOne
    <3> QED BY <1>0, <3>4 DEF LifeNext, Life!Delete
  <2>2. CASE InProject /\ host[h] = "none"
    <3>1. host' = [host EXCEPT ![h] = "none"] /\ attached' = attached \ {h}
      BY <1>3, <2>2 DEF DeleteHost, HostOf
    <3>2. /\ host \in [Tiers -> {"none", "stopped", "running"}]
          /\ h \notin attached
      BY <2>2 DEF TeardownInv, Typed, TeardownTypeOK, DiskOK
    <3>3. host' = host
      BY <2>2, <3>1, <3>2
    <3>4. attached' = attached
      BY <3>1, <3>2
    <3> QED BY <1>1, <3>3, <3>4, SamePhase
  <2>3. CASE ~InProject
    BY <1>1, <1>3, <2>3, SamePhase DEF DeleteHost
  <2> QED BY <2>1, <2>2, <2>3
<1>4. CASE ~(StopTierHost \/ DeleteHost)
  <2>1. UNCHANGED <<host, attached>>
    BY <1>4 DEF Removal, RemoveServices, RemoveNode, SkipVolume, DeleteVolume,
       DeleteProfile, DeleteNetworks, DeleteImage, DeleteSharedProfiles,
       SwitchBack, DeleteProject, Disallowed, hosts
  <2> QED BY <1>1, <2>1, SamePhase
<1> QED BY <1>2, <1>3, <1>4

(* With the destroy scripts in between, in any order, each host is still   *)
(* created, given its disk and started at most once before it is deleted.  *)
THEOREM AnyOrderHostsLiveAndDie == AnyOrder => HostsLiveAndDie
<1>1. Init => Life!Init
  BY DEF Init, Life!Init, Phase, Starting
<1>2. TeardownInv /\ [Next \/ Destroy]_vars => [LifeNext]_Phases
  <2>1. ASSUME UNCHANGED vars PROVE Phases' = Phases
    BY <2>1 DEF Phases, Phase, Starting, Running, vars, control, hosts
  <2>2. ASSUME TeardownInv, Next PROVE [LifeNext]_Phases
    <3>1. CASE pc \in Labels
      BY <2>2, <3>1, InLabels, LifeStep DEF TeardownInv, LifeNext
    <3>2. CASE pc \in Destroys
      BY <2>2, <3>2, OnlyFaults, FaultLives
    <3> QED BY <2>2, <3>1, <3>2 DEF TeardownInv, Typed, TeardownTypeOK
  <2>3. ASSUME TeardownInv, NEW t \in Tiers, BeginDestroy(t)
        PROVE  Phases' = Phases
    <3>1. /\ pc \notin {"localnet", "start"} /\ pc' \notin {"localnet", "start"}
          /\ UNCHANGED <<host, attached>>
      BY <2>3 DEF BeginDestroy, hosts
    <3> QED BY <3>1, SamePhase
  <2> QED BY <2>1, <2>2, <2>3, RemovalLives DEF Destroy
<1> QED
  BY <1>1, <1>2, TeardownInvariance, PTL
     DEF AnyOrder, HostsLiveAndDie, Life!DestroySpec, LifeNext, Phases
-----------------------------------------------------------------------------
(* What a Hopeless state becomes as tiers are destroyed and bcm is run     *)
(* again without more faults.  While the manager's script is taking its    *)
(* host, volume and profile away nothing of it is left to be Hopeless; but *)
(* the image is still there, seen by the script, and will go with them.    *)
LostImage == image = "lost" /\ pc \in {"idle", "image"} \cup Destroys
HalfShared ==
  /\ project = "images"
  /\ pc \notin {"setImages", "setProfiles", "rmPrivileged", "rmUnprivileged",
                "switchBack", "rmProject"}
Unregistered ==
  /\ Running("manager") /\ ~ManagerServes
  /\ pc \notin Before \cup Destroys => tier # "manager"
TakingImage ==
  /\ pc \in {"rmVolume", "rmGateway", "rmNet", "rmProfile", "rmImage"}
  /\ tier = "manager" /\ "manager" \notin attached
  /\ image # "none" /\ ImagesVisible

Ruin == \/ LostImage \/ image = "bare" \/ HalfShared \/ Hollow("manager")
        \/ Down("manager") \/ Unregistered \/ TakingImage

Doomed == faults = MaxFaults /\ pc # "done" /\ Ruin

(* When the faults are spent and nothing runs, what is Hopeless is ruin.   *)
LEMMA HopelessIsRuin ==
  ASSUME Quiet, Hopeless
  PROVE  Doomed
BY DEF Quiet, Hopeless, Doomed, Ruin, LostImage, HalfShared, Unregistered,
   Hollow, Down, Starting, Before

(* Deploying repairs none of it, and ends well over none of it.            *)
LEMMA DeployingDoomed ==
  ASSUME TeardownInv, Doomed, pc \in Labels, Next
  PROVE  Doomed'
<1>1. TypeOK /\ StackOK /\ ServeOK /\ ImageOK /\ ProjectOK /\ ControlOK
  BY InLabels DEF TeardownInv
<1>2. pc \notin Destroys /\ "manager" \in Tiers
  BY DEF Labels, Destroys, Tiers, FixedTiers
<1>3. pc' \notin Destroys
  <2>1. pc' \in Labels
    BY <1>1, SetupTypes, HostTypes, SwarmTypes, FaultTypes
       DEF Next, Run, Fault, TypeOK
  <2> QED BY <2>1 DEF Labels, Destroys
<1>4. ~TakingImage
  BY <1>2 DEF TakingImage, Destroys
<1>5. Ruin'
  <2>1. CASE LostImage \/ image = "bare"
    BY <1>1, <1>2, <2>1, SetupStays DEF LostImage, Lost, Ruin
  <2>2. CASE HalfShared
    <3>1. HalfMade /\ project = "images"
      BY <2>2 DEF HalfShared, HalfMade
    <3>2. HalfMade' /\ project' = project
      BY <1>1, <3>1, SetupStays
    <3> QED BY <1>3, <3>1, <3>2 DEF HalfShared, HalfMade, Ruin, Destroys
  <2>3. CASE Hollow("manager") \/ Down("manager")
    BY <1>1, <1>2, <2>3, HollowStays, DownStays DEF Ruin
  <2>4. CASE Unregistered
    <3>1. Unserved
      BY <1>2, <2>4 DEF Unregistered, Unserved
    <3>2. Unserved'
      BY <1>1, <3>1, UnservedStays DEF Doomed
    <3> QED BY <3>2 DEF Unregistered, Unserved, Ruin
  <2> QED BY <1>4, <2>1, <2>2, <2>3, <2>4 DEF Doomed, Ruin
<1>6. pc' # "done"
  <2>1. SUFFICES ASSUME pc' = "done" PROVE FALSE
    OBVIOUS
  <2>2. DeployToronion
    BY <1>1, <2>1, OnlyToronion DEF Doomed
  <2>3. /\ image # "bare" /\ project = "ready"
        /\ Running("manager") /\ ManagerServes /\ profile["manager"] = "full"
    BY <1>1, <2>2, DoneNeeds
  <2>4. ~LostImage
    BY <2>2 DEF DeployToronion, Command, LostImage, Destroys
  <2> QED
    BY <1>4, <2>3, <2>4
       DEF Doomed, Ruin, HalfShared, Unregistered, Hollow, Down, Running
<1>7. faults' = MaxFaults
  BY FaultsSpent, DeployAssumption DEF Doomed, DeployAssumption
<1> QED BY <1>5, <1>6, <1>7 DEF Doomed

(* The destroy scripts exchange ruin for ruin: with the manager's host and *)
(* profile, and with a bare image, goes the image; a project that does not *)
(* see the profiles outlives the image.                                    *)
LEMMA RemovalDoomed ==
  ASSUME TeardownInv, Doomed, Removal
  PROVE  Doomed'
<1>0. /\ pc \in Destroys /\ faults' = faults
      /\ \/ pc' \in Destroys /\ tier' = tier
         \/ pc' = "idle" /\ tier' = "manager"
  BY RemovalControl DEF TeardownInv
<1>1. /\ pc \notin Before /\ pc' \notin {"done", "localnet", "start", "fill"}
      /\ "manager" \in Tiers /\ "manager" \notin Chains
  BY <1>0, DeployAssumption
     DEF DeployAssumption, Destroys, Before, Tiers, FixedTiers
<1> SUFFICES Ruin'
  BY <1>0, <1>1, DeployAssumption DEF Doomed, DeployAssumption
<1> USE DEF Destroys, Before
<1>2. CASE LostImage \/ image = "bare"
  <2>1. CASE DeleteImage
    BY <1>0, <1>2, <2>1 DEF DeleteImage, Template!Delete, LostImage, Ruin
  <2>2. CASE ~DeleteImage
    <3>1. image' = image
      BY <2>2 DEF Removal, RemoveServices, RemoveNode, StopTierHost,
         DeleteHost, SkipVolume, DeleteVolume, DeleteProfile, DeleteNetworks,
         DeleteSharedProfiles, SwitchBack, DeleteProject, Disallowed, setup
    <3> QED BY <1>0, <1>2, <3>1 DEF LostImage, Ruin
  <2> QED BY <2>1, <2>2
<1>3. CASE HalfShared
  <2>1. CASE DeleteImage
    <3>1. image # "none"
      BY <1>3 DEF HalfShared, TeardownInv, ImageOK
    <3>2. image' = "lost" /\ pc' \in Destroys
      BY <1>3, <2>1, <3>1
         DEF DeleteImage, Issue, Allowed, HalfShared, ImagesVisible,
             Template!Delete, Destroys, TeardownInv, Typed, TeardownTypeOK,
             Images
    <3> QED BY <3>2 DEF LostImage, Ruin
  <2>2. CASE ~DeleteImage
    <3>1. project' = project
      BY <1>3, <2>2 DEF Removal, RemoveServices, RemoveNode, StopTierHost,
         DeleteHost, SkipVolume, DeleteVolume, DeleteProfile, DeleteNetworks,
         DeleteSharedProfiles, SwitchBack, DeleteProject, Disallowed, setup,
         HalfShared, Issue
    <3>2. pc' \notin {"rmPrivileged", "rmUnprivileged", "switchBack",
                      "rmProject"}
      BY <1>3, <2>2 DEF Removal, RemoveServices, RemoveNode, StopTierHost,
         DeleteHost, SkipVolume, DeleteVolume, DeleteProfile, DeleteNetworks,
         DeleteSharedProfiles, SwitchBack, DeleteProject, Disallowed,
         HalfShared, Issue, Halt, AfterVolume, AfterRemoval
    <3> QED BY <1>0, <1>3, <3>1, <3>2 DEF HalfShared, Ruin, Destroys
  <2> QED BY <2>1, <2>2
<1>4. CASE Hollow("manager")
  <2>1. CASE DeleteProfile /\ tier = "manager"
    <3>1. CASE profile'["manager"] = "empty"
      BY <1>1, <3>1 DEF Hollow, Ruin
    <3>2. CASE profile'["manager"] # "empty"
      <4>1. host["manager"] = "none" /\ ProfilesVisible
        BY <1>4, <2>1, <3>2 DEF DeleteProfile, Hollow
      <4>2. image # "none"
        BY <1>1, <1>4 DEF Hollow, TeardownInv, ImageOK
      <4>3. "manager" \notin attached
        BY <4>1 DEF TeardownInv, DiskOK
      <4>4. ImagesVisible
        BY <4>1 DEF ProfilesVisible, ImagesVisible
      <4>5. pc' = "rmImage" /\ tier' = "manager"
        BY <1>1, <2>1 DEF DeleteProfile, Issue, AfterRemoval
      <4>6. UNCHANGED <<image, project, current, attached>>
        BY <2>1 DEF DeleteProfile, setup, hosts
      <4> QED BY <4>2, <4>3, <4>4, <4>5, <4>6 DEF TakingImage, ImagesVisible, Ruin
    <3> QED BY <3>1, <3>2
  <2>2. CASE ~(DeleteProfile /\ tier = "manager")
    <3>1. profile'["manager"] = profile["manager"]
      BY <1>1, <2>2 DEF Removal, RemoveServices, RemoveNode, StopTierHost,
         DeleteHost, SkipVolume, DeleteVolume, DeleteProfile, DeleteNetworks,
         DeleteImage, DeleteSharedProfiles, SwitchBack, DeleteProject,
         Disallowed, TeardownInv, Typed, TeardownTypeOK
    <3> QED BY <1>1, <1>4, <3>1 DEF Hollow, Ruin
  <2> QED BY <2>1, <2>2
<1>5. CASE Down("manager")
  <2>1. CASE DeleteHost /\ tier = "manager" /\ InProject
    <3>1. project = "ready" /\ image # "none"
      BY <1>1, <1>5 DEF Down, TeardownInv, ProjectOK, ImageOK
    <3>2. /\ pc' = "rmVolume" /\ tier' = "manager" /\ "manager" \notin attached'
          /\ UNCHANGED <<image, project, current>>
      BY <2>1 DEF DeleteHost, Issue, HostOf, setup
    <3> QED BY <3>1, <3>2 DEF TakingImage, ImagesVisible, Ruin
  <2>2. CASE ~(DeleteHost /\ tier = "manager" /\ InProject)
    <3>1. /\ host'["manager"] = "stopped" /\ "manager" \in attached'
      BY <1>1, <1>5, <2>2
         DEF Down, Removal, RemoveServices, RemoveNode, StopTierHost,
             DeleteHost, SkipVolume, DeleteVolume, DeleteProfile,
             DeleteNetworks, DeleteImage, DeleteSharedProfiles, SwitchBack,
             DeleteProject, Disallowed, HostOf, hosts, TeardownInv, Typed,
             TeardownTypeOK
    <3> QED BY <1>1, <3>1 DEF Down, Starting, Ruin
  <2> QED BY <2>1, <2>2
<1>6. CASE Unregistered
  <2>1. "manager" \in attached
    BY <1>1, <1>6 DEF Unregistered, Running, TeardownInv, DiskOK
  <2>2. CASE StopTierHost
    <3>1. /\ host'["manager"] \in {"running", "stopped"}
          /\ "manager" \in attached' /\ deployed' = deployed
      BY <1>1, <1>6, <2>1, <2>2
         DEF StopTierHost, HostOf, Unregistered, Running, docker, TeardownInv,
             Typed, TeardownTypeOK
    <3>2. CASE host'["manager"] = "stopped"
      BY <1>1, <3>1, <3>2 DEF Down, Starting, Ruin
    <3>3. CASE host'["manager"] = "running"
      BY <1>0, <1>6, <3>1, <3>3
         DEF Unregistered, Running, ManagerServes, Before, Ruin
    <3> QED BY <3>1, <3>2, <3>3
  <2>3. CASE ~StopTierHost
    <3>1. host'["manager"] = "running"
      BY <1>1, <1>6, <2>3
         DEF Unregistered, Running, Removal, RemoveServices, RemoveNode,
             DeleteHost, SkipVolume, DeleteVolume, DeleteProfile,
             DeleteNetworks, DeleteImage, DeleteSharedProfiles, SwitchBack,
             DeleteProject, Disallowed, HostOf, Issue, hosts, TeardownInv,
             Typed, TeardownTypeOK, DestroyOK
    <3>2. deployed' \subseteq deployed
          /\ (deployed' # deployed => RemoveServices \/ DeleteVolume)
      BY <2>3 DEF Removal, RemoveServices, RemoveNode, DeleteHost, SkipVolume,
         DeleteVolume, DeleteProfile, DeleteNetworks, DeleteImage,
         DeleteSharedProfiles, SwitchBack, DeleteProject, Disallowed, docker
    <3>3. ~ManagerServes'
      BY <1>6, <3>2 DEF Unregistered, ManagerServes
    <3> QED BY <1>0, <3>1, <3>3 DEF Unregistered, Running, Before, Ruin
  <2> QED BY <2>2, <2>3
<1>7. CASE TakingImage
  <2>1. Allowed
    BY <1>1, <1>7 DEF TakingImage, Allowed, DiskOf
  <2>2. CASE DeleteImage
    <3>1. image' = "lost" /\ pc' \in Destroys
      BY <1>7, <2>1, <2>2 DEF DeleteImage, Issue, TakingImage, Template!Delete,
         Destroys, TeardownInv, Typed, TeardownTypeOK, Images
    <3> QED BY <3>1 DEF LostImage, Ruin
  <2>3. CASE ~DeleteImage
    <3>1. /\ UNCHANGED <<image, project, current, attached>>
          /\ tier' = "manager"
          /\ pc' \in {"rmGateway", "rmNet", "rmProfile", "rmImage"}
      BY <1>1, <1>7, <2>1, <2>3
         DEF TakingImage, Removal, RemoveServices, RemoveNode, StopTierHost,
             DeleteHost, SkipVolume, DeleteVolume, DeleteProfile,
             DeleteNetworks, DeleteSharedProfiles, SwitchBack, DeleteProject,
             Disallowed, Issue, AfterVolume, AfterRemoval, setup, hosts
    <3> QED BY <1>7, <3>1 DEF TakingImage, ImagesVisible, Ruin
  <2> QED BY <2>2, <2>3
<1> QED
  BY <1>2, <1>3, <1>4, <1>5, <1>6, <1>7 DEF Doomed, Ruin

(* Once faults have left something Hopeless, no sequence of bcm runs and   *)
(* tier destructions completes a deployment: the destroy scripts can take  *)
(* a broken manager away, but only together with the image, which no       *)
(* script publishes again.                                                 *)
THEOREM AnyOrderHopelessForGood == AnyOrder => HopelessForGood
<1>1. ASSUME TeardownInv, Doomed, Next PROVE Doomed'
  <2>1. CASE pc \in Labels
    BY <1>1, <2>1, DeployingDoomed
  <2>2. CASE pc \in Destroys
    BY <1>1, <2>2, OnlyFaults, DeployAssumption
       DEF Doomed, DeployAssumption, Interrupt, StopHost
  <2> QED BY <1>1, <2>1, <2>2 DEF TeardownInv, Typed, TeardownTypeOK
<1>2. ASSUME TeardownInv, Doomed, NEW t \in Tiers, BeginDestroy(t)
      PROVE  Doomed'
  <2>1. /\ pc = "idle" /\ pc' \in {"stopHost", "rmBroker", "rmNode"}
        /\ UNCHANGED <<image, project, profile, attached, host, deployed, faults>>
    BY <1>2 DEF Doomed, BeginDestroy, setup, hosts, docker
  <2> QED
    BY <1>2, <2>1
       DEF Doomed, Ruin, LostImage, HalfShared, Hollow, Down, Starting,
           Unregistered, Running, ManagerServes, TakingImage, Destroys
<1>3. ASSUME Doomed, UNCHANGED vars PROVE Doomed'
  BY <1>3 DEF Doomed, Ruin, LostImage, HalfShared, Hollow, Down, Starting,
     Unregistered, Running, ManagerServes, TakingImage, ImagesVisible, vars,
     control, setup, hosts, docker
<1>4. TeardownInv /\ Doomed /\ [Next \/ Destroy]_vars => Doomed'
  BY <1>1, <1>2, <1>3, RemovalDoomed DEF Destroy
<1>5. Quiet /\ Hopeless => Doomed
  BY HopelessIsRuin
<1>6. Doomed => pc # "done"
  BY DEF Doomed
<1> QED
  BY <1>4, <1>5, <1>6, TeardownInvariance, PTL DEF AnyOrder, HopelessForGood
=============================================================================
