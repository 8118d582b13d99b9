---------------------------- MODULE DeployProofs ----------------------------
(***************************************************************************)
(* Proofs about Deploy, for any chains, prerequisites and number of faults.*)
(*                                                                         *)
(* TypeOK alone is not inductive: a script that ends pops a frame, so one  *)
(* must know that there is one (StackOK).  DiskOK says how far the script  *)
(* has brought its host at each label between volume and start.            *)
(***************************************************************************)
EXTENDS Deploy, TLAPS

Before == {"idle", "done", "image", "project", "setImages", "setProfiles",
           "switch", "deploy", "toronion"}

\* Every script but deploy.sh was called, deploy.sh first.
StackOK ==
  /\ pc \notin Before => stack # <<>>
  /\ \A i \in 1..Len(stack) : stack[i].pc = "profile" => i < Len(stack)

DiskOK ==
  /\ attached \subseteq volumes
  /\ \A t \in attached : host[t] # "none"
  /\ \A t \in Tiers : host[t] = "running" => t \in attached
  /\ pc \in {"init", "attach"} => tier \in volumes
  /\ pc = "attach" => host[tier] # "none"
  /\ pc \in {"localnet", "start"} => tier \in attached /\ host[tier] = "stopped"

Inv == TypeOK /\ StackOK /\ DiskOK

(* What the steps of deploy.sh and of the scripts name is a tier.          *)
LEMMA TierNames ==
  ASSUME chain \in Chains, NEW t \in Tiers
  PROVE  Above(t) \in Tiers /\ (t # "manager" => Lower(t) \in Tiers)
BY DEF Above, Lower, Tiers, FixedTiers

(* A frame is put on a stack: the others move up by one.                   *)
LEMMA Push ==
  ASSUME NEW f \in Frames, NEW s \in Seq(Frames)
  PROVE  /\ <<f>> \o s \in Seq(Frames)
         /\ Len(<<f>> \o s) = Len(s) + 1
         /\ (<<f>> \o s)[1] = f
         /\ \A i \in 2..(Len(s) + 1) : (<<f>> \o s)[i] = s[i - 1]
OBVIOUS

(* A frame is taken off a stack: the others move down by one.              *)
LEMMA Pop ==
  ASSUME NEW s \in Seq(Frames), s # <<>>
  PROVE  /\ Head(s) \in Frames /\ Head(s) = s[1]
         /\ Tail(s) \in Seq(Frames)
         /\ Len(Tail(s)) = Len(s) - 1
         /\ \A i \in 1..(Len(s) - 1) : Tail(s)[i] = s[i + 1]
OBVIOUS

(* A call keeps the stack well formed.                                     *)
LEMMA CallKeepsStack ==
  ASSUME TypeOK, StackOK,
         NEW t \in Tiers, NEW c \in Tiers,
         NEW n \in {"deploy", "profile", "toronion"},
         n = "profile" => stack # <<>>,
         Call(t, n, c)
  PROVE  /\ StackOK' /\ stack' \in Seq(Frames)
         /\ pc' \in Labels /\ tier' \in Tiers
PROOF
<1> DEFINE f == [pc |-> n, tier |-> c]
<1>1. f \in Frames
  BY DEF Frames
<1>2. stack' = <<f>> \o stack /\ pc' = "up" /\ tier' = t
  BY DEF Call
<1>3. /\ stack' \in Seq(Frames) /\ Len(stack') = Len(stack) + 1
      /\ stack'[1] = f
      /\ \A i \in 2..(Len(stack) + 1) : stack'[i] = stack[i - 1]
  BY <1>1, <1>2, Push DEF TypeOK
<1>4. stack' # <<>>
  BY <1>3 DEF TypeOK
<1>5. \A i \in 1..Len(stack') : stack'[i].pc = "profile" => i < Len(stack')
  <2> SUFFICES ASSUME NEW i \in 1..Len(stack'), stack'[i].pc = "profile"
               PROVE  i < Len(stack')
    OBVIOUS
  <2>1. Len(stack) \in Nat
    BY DEF TypeOK
  <2>2. CASE i = 1
    <3>1. n = "profile"
      BY <2>2, <1>3
    <3>2. Len(stack) > 0
      BY <3>1 DEF TypeOK
    <3> QED BY <2>2, <3>2, <2>1, <1>3
  <2>3. CASE i # 1
    <3>1. i - 1 \in 1..Len(stack) /\ stack[i - 1].pc = "profile"
      BY <2>3, <2>1, <1>3
    <3>2. i - 1 < Len(stack)
      BY <3>1 DEF StackOK
    <3> QED BY <3>2, <2>1, <1>3
  <2> QED BY <2>2, <2>3
<1> QED
  BY <1>2, <1>3, <1>4, <1>5 DEF StackOK, Labels

(* ... and so does the end of a script, which has a frame to return to.    *)
LEMMA ReturnKeepsStack ==
  ASSUME TypeOK, StackOK, pc \notin Before, Return
  PROVE  /\ StackOK' /\ stack' \in Seq(Frames)
         /\ pc' \in {"deploy", "profile", "toronion"} /\ tier' \in Tiers
         /\ chain' = chain
PROOF
<1>1. stack # <<>> /\ stack \in Seq(Frames)
  BY DEF TypeOK, StackOK
<1>2. /\ Head(stack) \in Frames /\ Head(stack) = stack[1]
      /\ Tail(stack) \in Seq(Frames) /\ Len(Tail(stack)) = Len(stack) - 1
      /\ \A i \in 1..(Len(stack) - 1) : Tail(stack)[i] = stack[i + 1]
  BY <1>1, Pop
<1>3. Len(stack) \in Nat /\ Len(stack) > 0
  BY <1>1
<1>4. pc' = stack[1].pc /\ tier' = stack[1].tier /\ stack' = Tail(stack)
  BY <1>2 DEF Return
<1>5. pc' = "profile" => stack' # <<>>
  <2>1. SUFFICES ASSUME pc' = "profile" PROVE Len(stack) > 1
    BY <1>2, <1>4, <1>3
  <2>2. 1 \in 1..Len(stack)
    BY <1>3
  <2> QED BY <2>1, <2>2, <1>4 DEF StackOK
<1>6. \A i \in 1..Len(stack') : stack'[i].pc = "profile" => i < Len(stack')
  <2> SUFFICES ASSUME NEW i \in 1..Len(stack'), stack'[i].pc = "profile"
               PROVE  i < Len(stack')
    OBVIOUS
  <2>1. i + 1 \in 1..Len(stack) /\ stack[i + 1].pc = "profile"
    BY <1>2, <1>3, <1>4
  <2>2. i + 1 < Len(stack)
    BY <2>1 DEF StackOK
  <2> QED BY <2>2, <1>2, <1>3, <1>4
<1>7. pc' \in {"deploy", "profile", "toronion"} /\ tier' \in Tiers
  BY <1>2, <1>4 DEF Frames
<1> QED
  BY <1>2, <1>4, <1>5, <1>6, <1>7 DEF StackOK, Before, Return

(* Control outside calls and returns: the stack is left alone, or emptied. *)
LEMMA StepKeepsStack ==
  ASSUME StackOK,
         \/ stack' = <<>> /\ pc' \in Before
         \/ stack' = stack /\ (pc' \in Before \/ pc \notin Before)
  PROVE  StackOK'
BY DEF StackOK

(* The prologue, tiering and profile steps keep types and stack.           *)
LEMMA SetupTypes ==
  ASSUME TypeOK, StackOK, Begin \/ Prologue \/ Tiering \/ Profiling
  PROVE  TypeOK' /\ StackOK'
<1> USE DeployAssumption DEF DeployAssumption
<1>1. CASE Begin
  <2>1. <<>> \in Seq(Frames)
    OBVIOUS
  <2>2. TypeOK'
    BY <1>1, <2>1 DEF TypeOK, Begin, Labels, Tiers, FixedTiers, hosts, docker
  <2>3. StackOK'
    BY <1>1, StepKeepsStack DEF Begin, Before
  <2> QED BY <2>2, <2>3
<1>2. CASE BuildImage
  <2>1. TypeOK'
    BY <1>2 DEF TypeOK, BuildImage, Command, Labels, Images, hosts, docker,
       Template!Next, Template!PublishComplete, Template!PublishPartial
  <2>2. StackOK'
    BY <1>2, StepKeepsStack DEF BuildImage, Command, Before
  <2> QED BY <2>1, <2>2
<1>3. CASE SkipImage \/ SkipProject
  <2>1. TypeOK'
    BY <1>3 DEF TypeOK, SkipImage, SkipProject, Command, Labels, setup, hosts,
       docker
  <2>2. StackOK'
    BY <1>3, StepKeepsStack DEF SkipImage, SkipProject, Command, Before
  <2> QED BY <2>1, <2>2
<1>4. CASE CreateProject \/ ShareImages \/ ShareProfiles \/ SwitchProject
  <2>1. TypeOK'
    BY <1>4 DEF TypeOK, CreateProject, ShareImages, ShareProfiles,
       SwitchProject, Command, Labels, hosts, docker
  <2>2. StackOK'
    BY <1>4, StepKeepsStack DEF CreateProject, ShareImages, ShareProfiles,
       SwitchProject, Command, Before
  <2> QED BY <2>1, <2>2
<1>5. CASE SkipTier
  <2>1. Above(tier) \in Tiers
    BY TierNames DEF TypeOK
  <2>2. TypeOK'
    BY <1>5, <2>1 DEF TypeOK, SkipTier, NextLabel, Labels, setup, hosts, docker
  <2>3. StackOK'
    BY <1>5, StepKeepsStack DEF SkipTier, NextLabel, Before
  <2> QED BY <2>2, <2>3
<1>6. CASE DeployTier
  <2>1. Above(tier) \in Tiers /\ tier \in Tiers
    BY TierNames DEF TypeOK
  <2>2. /\ StackOK' /\ stack' \in Seq(Frames)
        /\ pc' \in Labels /\ tier' \in Tiers
    <3>1. NextLabel(tier) \in {"deploy", "profile", "toronion"}
          /\ NextLabel(tier) # "profile"
      BY DEF NextLabel
    <3>2. Call(tier, NextLabel(tier), Above(tier))
      BY <1>6 DEF DeployTier
    <3> QED BY <2>1, <3>1, <3>2, CallKeepsStack
  <2> QED BY <1>6, <2>2 DEF TypeOK, DeployTier, setup, hosts, docker
<1>7. CASE UpLower
  <2>1. Lower(tier) \in Tiers /\ tier \in Tiers
    BY <1>7, TierNames DEF TypeOK, UpLower
  <2>2. /\ StackOK' /\ stack' \in Seq(Frames)
        /\ pc' \in Labels /\ tier' \in Tiers
    <3>1. stack # <<>>
      BY <1>7 DEF StackOK, UpLower, Before
    <3>2. Call(Lower(tier), "profile", tier)
      BY <1>7 DEF UpLower
    <3> QED BY <2>1, <3>1, <3>2, CallKeepsStack
  <2> QED BY <1>7, <2>2 DEF TypeOK, UpLower, setup, hosts, docker
<1>8. CASE UpTier \/ LocalProfile \/ SkipProfile
  <2>1. TypeOK'
    BY <1>8 DEF TypeOK, UpTier, LocalProfile, SkipProfile, AfterProfile,
       Command, Labels, setup, hosts, docker
  <2>2. StackOK'
    BY <1>8, StepKeepsStack DEF UpTier, LocalProfile, SkipProfile, Command,
       Before
  <2> QED BY <2>1, <2>2
<1>9. CASE CreateProfile \/ FillProfile
  <2>1. TypeOK'
    BY <1>9 DEF TypeOK, CreateProfile, FillProfile, AfterProfile, Command,
       Labels, setup, hosts, docker
  <2>2. StackOK'
    BY <1>9, StepKeepsStack DEF CreateProfile, FillProfile, Command, Before
  <2> QED BY <2>1, <2>2
<1> QED
  BY <1>1, <1>2, <1>3, <1>4, <1>5, <1>6, <1>7, <1>8, <1>9
     DEF Prologue, Tiering, Profiling

(* So do the steps that create and start the hosts.                        *)
LEMMA HostTypes ==
  ASSUME TypeOK, StackOK, Hosting
  PROVE  TypeOK' /\ StackOK'
<1>1. CASE CreateNetworks \/ CreateLocalnet
  <2>1. TypeOK'
    BY <1>1 DEF TypeOK, CreateNetworks, CreateLocalnet, Command, Labels,
       Networks, setup, hosts, docker
  <2>2. StackOK'
    BY <1>1, StepKeepsStack DEF CreateNetworks, CreateLocalnet, Command, Before
  <2> QED BY <2>1, <2>2
<1>2. CASE CreateVolume \/ AttachVolume
  <2>1. TypeOK'
    BY <1>2 DEF TypeOK, CreateVolume, AttachVolume, Command, Labels, setup,
       docker
  <2>2. StackOK'
    BY <1>2, StepKeepsStack DEF CreateVolume, AttachVolume, Command, Before
  <2> QED BY <2>1, <2>2
<1>3. CASE InitHost
  <2>1. TypeOK'
    BY <1>3 DEF TypeOK, InitHost, Command, Labels, setup, docker
  <2>2. StackOK'
    BY <1>3, StepKeepsStack DEF InitHost, Command, Before
  <2> QED BY <2>1, <2>2
<1>4. CASE StartHost
  <2>1. TypeOK'
    BY <1>4 DEF TypeOK, StartHost, Command, Labels, setup, docker
  <2>2. StackOK'
    BY <1>4, StepKeepsStack DEF StartHost, Command, Before
  <2> QED BY <2>1, <2>2
<1>5. CASE SkipInit \/ WaitForDocker
  <2>1. TypeOK'
    BY <1>5 DEF TypeOK, SkipInit, WaitForDocker, Command, Labels, setup, hosts,
       docker
  <2>2. StackOK'
    BY <1>5, StepKeepsStack DEF SkipInit, WaitForDocker, Command, Before
  <2> QED BY <2>1, <2>2
<1>6. CASE KeepWaiting
  BY <1>6 DEF TypeOK, StackOK, KeepWaiting, vars, control, setup, hosts, docker
<1> QED
  BY <1>1, <1>2, <1>3, <1>4, <1>5, <1>6 DEF Hosting

(* ... those that deploy to the swarm, whose scripts may end ...           *)
LEMMA SwarmTypes ==
  ASSUME TypeOK, StackOK, Swarming \/ Serving \/ LoseJoin
  PROVE  TypeOK' /\ StackOK'
<1> USE DeployAssumption DEF DeployAssumption
<1>1. CASE PrepareManager \/ RestartManager \/ GetTokens
  <2>1. TypeOK'
    BY <1>1 DEF TypeOK, PrepareManager, RestartManager, GetTokens, Command,
       Labels, setup, hosts, docker
  <2>2. StackOK'
    BY <1>1, StepKeepsStack DEF PrepareManager, RestartManager, GetTokens,
       Command, Before
  <2> QED BY <2>1, <2>2
<1>2. CASE InitSwarm
  <2>1. TypeOK'
    BY <1>2 DEF TypeOK, InitSwarm, Command, Labels, setup, hosts
  <2>2. StackOK'
    BY <1>2, StepKeepsStack DEF InitSwarm, Command, Before
  <2> QED BY <2>1, <2>2
<1>3. CASE DeployRegistries \/ DeployZookeeper \/ DeployToronion
  <2>1. TypeOK'
    BY <1>3 DEF TypeOK, DeployRegistries, DeployZookeeper, DeployToronion,
       Command, Labels, Services, setup, hosts
  <2>2. StackOK'
    BY <1>3, StepKeepsStack DEF DeployRegistries, DeployZookeeper,
       DeployToronion, Command, Before
  <2> QED BY <2>1, <2>2
<1>4. CASE PushBaseImage \/ DeployBroker
  <2>1. pc \notin Before /\ Return
    BY <1>4 DEF PushBaseImage, DeployBroker, Before
  <2>2. /\ StackOK' /\ stack' \in Seq(Frames)
        /\ pc' \in {"deploy", "profile", "toronion"} /\ tier' \in Tiers
        /\ chain' = chain
    BY <2>1, ReturnKeepsStack
  <2>3. TypeOK'
    BY <1>4, <2>2 DEF TypeOK, PushBaseImage, DeployBroker, Labels, Services,
       setup, hosts
  <2> QED BY <2>2, <2>3
<1>5. CASE JoinSwarm \/ LoseJoin
  <2>1. pc = "join" /\ AfterJoin
    BY <1>5 DEF JoinSwarm, LoseJoin
  <2>2. /\ StackOK' /\ stack' \in Seq(Frames)
        /\ pc' \in Labels /\ tier' \in Tiers
        /\ chain' = chain
    <3>1. CASE Return
      BY <2>1, <3>1, ReturnKeepsStack DEF Before, Labels
    <3>2. CASE ~Return
      <4>1. pc' = "zookeeper" /\ UNCHANGED <<tier, stack, chain>>
        BY <2>1, <3>2 DEF AfterJoin
      <4>2. StackOK'
        BY <2>1, <4>1, StepKeepsStack DEF Before
      <4> QED BY <4>1, <4>2 DEF TypeOK, Labels
    <3> QED BY <3>1, <3>2
  <2>3. CASE JoinSwarm
    BY <2>2, <2>3 DEF TypeOK, JoinSwarm, setup, hosts
  <2>4. CASE LoseJoin
    BY <2>2, <2>4 DEF TypeOK, LoseJoin, setup, hosts, docker
  <2> QED BY <1>5, <2>3, <2>4
<1> QED
  BY <1>1, <1>2, <1>3, <1>4, <1>5 DEF Swarming, Serving

(* ... and the end of a run, or of a host.                                 *)
LEMMA FaultTypes ==
  ASSUME TypeOK, StackOK,
         Refused \/ Interrupt \/ \E t \in Tiers : StopHost(t)
  PROVE  TypeOK' /\ StackOK'
<1> USE DeployAssumption DEF DeployAssumption
<1>1. ASSUME Halt
      PROVE  /\ StackOK' /\ stack' \in Seq(Frames)
             /\ pc' \in Labels /\ tier' \in Tiers /\ chain' = chain
  <2>1. <<>> \in Seq(Frames)
    OBVIOUS
  <2>2. StackOK'
    BY <1>1, StepKeepsStack DEF Halt, Before
  <2> QED BY <1>1, <2>1, <2>2 DEF Halt, Labels, Tiers, FixedTiers
<1>2. CASE Refused
  BY <1>2, <1>1 DEF TypeOK, Refused, setup, hosts, docker
<1>3. CASE Interrupt
  BY <1>3, <1>1 DEF TypeOK, Interrupt, Images, hosts, docker
<1>4. ASSUME NEW t \in Tiers, StopHost(t) PROVE TypeOK' /\ StackOK'
  BY <1>4 DEF TypeOK, StackOK, StopHost, control, setup, docker
<1> QED BY <1>2, <1>3, <1>4

(* Types and the order of calls hold of every behaviour.                   *)
LEMMA TypesInvariant == Spec => [](TypeOK /\ StackOK)
<1>1. Init => TypeOK /\ StackOK
  <2>1. <<>> \in Seq(Frames)
    OBVIOUS
  <2> QED
    BY <2>1, DeployAssumption DEF Init, TypeOK, StackOK, Before, Labels, Tiers,
       FixedTiers, Images, DeployAssumption
<1>2. TypeOK /\ StackOK /\ [Next]_vars => (TypeOK /\ StackOK)'
  <2>1. ASSUME TypeOK, StackOK, UNCHANGED vars PROVE (TypeOK /\ StackOK)'
    BY <2>1 DEF TypeOK, StackOK, vars, control, setup, hosts, docker
  <2>2. ASSUME TypeOK, StackOK, Next PROVE (TypeOK /\ StackOK)'
    BY <2>2, SetupTypes, HostTypes, SwarmTypes, FaultTypes
       DEF Next, Run, Fault
  <2> QED BY <2>1, <2>2
<1> QED BY <1>1, <1>2, PTL DEF Spec

(* Every variable keeps its type; the calls between scripts and their      *)
(* returns always find the script they return to.                          *)
THEOREM DeployTypeOK == Spec => []TypeOK
BY TypesInvariant, PTL
-----------------------------------------------------------------------------
(* DiskOK is kept by every step; only the steps of spread_lxc_hosts.sh and *)
(* the start and stop of a host touch what it speaks of.                   *)
LEMMA DiskStep ==
  ASSUME TypeOK, StackOK, DiskOK, Next
  PROVE  DiskOK'
<1> USE DEF DiskOK
<1>1. CASE Begin \/ Prologue \/ Refused \/ Interrupt
  BY <1>1 DEF Begin, Prologue, BuildImage, SkipImage, CreateProject,
     SkipProject, ShareImages, ShareProfiles, SwitchProject, Refused,
     Interrupt, Halt, Command, setup, hosts
<1>2. CASE Tiering \/ Profiling
  BY <1>2 DEF Tiering, Profiling, SkipTier, DeployTier, UpLower, UpTier,
     LocalProfile, CreateProfile, SkipProfile, FillProfile, AfterProfile,
     NextLabel, Call, Command, hosts
<1>3. CASE CreateNetworks \/ SkipInit \/ CreateLocalnet \/ WaitForDocker
             \/ KeepWaiting
  BY <1>3 DEF CreateNetworks, SkipInit, CreateLocalnet, WaitForDocker,
     KeepWaiting, Command, hosts, vars, control
<1>4. CASE CreateVolume
  BY <1>4 DEF CreateVolume, Command, TypeOK
<1>5. CASE InitHost
  BY <1>5 DEF InitHost, Command, TypeOK
<1>6. CASE AttachVolume
  BY <1>6 DEF AttachVolume, Command, Feasible, Attachable, TypeOK
<1>7. CASE StartHost
  BY <1>7 DEF StartHost, Command, TypeOK
<1>8. ASSUME Return, pc \notin Before, UNCHANGED hosts PROVE DiskOK'
  <2>1. pc' \in {"deploy", "profile", "toronion"}
    BY <1>8, ReturnKeepsStack
  <2> QED BY <1>8, <2>1 DEF hosts
<1>9. CASE Swarming \/ Serving \/ LoseJoin
  <2>1. CASE PrepareManager \/ InitSwarm \/ RestartManager \/ GetTokens
    BY <2>1 DEF PrepareManager, InitSwarm, RestartManager, GetTokens, Command,
       hosts
  <2>2. CASE DeployRegistries \/ DeployZookeeper \/ DeployToronion
    BY <2>2 DEF DeployRegistries, DeployZookeeper, DeployToronion, Command,
       hosts
  <2>3. CASE PushBaseImage \/ DeployBroker
    BY <2>3, <1>8 DEF PushBaseImage, DeployBroker, Before
  <2>4. CASE JoinSwarm \/ LoseJoin
    <3>1. CASE Return
      BY <2>4, <3>1, <1>8 DEF JoinSwarm, LoseJoin, Before
    <3>2. CASE ~Return
      BY <2>4, <3>2 DEF JoinSwarm, LoseJoin, AfterJoin, hosts
    <3> QED BY <3>1, <3>2
  <2> QED BY <1>9, <2>1, <2>2, <2>3, <2>4 DEF Swarming, Serving
<1>10. ASSUME NEW t \in Tiers, StopHost(t) PROVE DiskOK'
  BY <1>10 DEF StopHost, Running, control, TypeOK
<1> QED
  BY <1>1, <1>2, <1>3, <1>4, <1>5, <1>6, <1>7, <1>9, <1>10
     DEF Next, Run, Fault, Hosting

(* So does the whole invariant.                                            *)
LEMMA Invariance == Spec => []Inv
<1>1. Init => DiskOK
  BY DEF Init, DiskOK
<1>2. TypeOK /\ StackOK /\ DiskOK /\ [Next]_vars => DiskOK'
  <2>1. ASSUME DiskOK, UNCHANGED vars PROVE DiskOK'
    BY <2>1 DEF DiskOK, vars, control, hosts
  <2> QED BY <2>1, DiskStep
<1> QED BY <1>1, <1>2, TypesInvariant, PTL DEF Spec, Inv

(* No host ever runs on its root disk alone, for any number of chains,     *)
(* interruptions and stopped hosts.                                        *)
THEOREM DeployRunningHasDisk == Spec => []RunningHasDisk
<1>1. Inv => RunningHasDisk
  BY DEF Inv, TypeOK, DiskOK, RunningHasDisk, Running
<1> QED BY <1>1, Invariance, PTL
-----------------------------------------------------------------------------
(* How far the manager's script has got, from what it has deployed.        *)
ServeOK ==
  /\ pc = "privreg" => "mirror" \in deployed
  /\ pc = "base" => {"mirror", "privreg"} \subseteq deployed
  /\ "base" \in deployed => ManagerServes
  /\ pc = "done" => ManagerServes

(* A step keeps that the manager serves once its base was deployed.        *)
LEMMA ServeStep ==
  ASSUME TypeOK, StackOK, ServeOK, Next
  PROVE  ServeOK'
<1> USE DEF ServeOK, ManagerServes
<1>1. CASE Begin \/ Prologue \/ Refused \/ Interrupt
  BY <1>1 DEF Begin, Prologue, BuildImage, SkipImage, CreateProject,
     SkipProject, ShareImages, ShareProfiles, SwitchProject, Refused,
     Interrupt, Halt, Command, docker
<1>2. CASE Tiering \/ Profiling
  BY <1>2 DEF Tiering, Profiling, SkipTier, DeployTier, UpLower, UpTier,
     LocalProfile, CreateProfile, SkipProfile, FillProfile, AfterProfile,
     NextLabel, Call, Command, docker
<1>3. CASE Hosting
  BY <1>3 DEF Hosting, CreateNetworks, CreateVolume, InitHost, SkipInit,
     AttachVolume, CreateLocalnet, StartHost, WaitForDocker, KeepWaiting,
     Command, docker, vars, control
<1>4. CASE PrepareManager \/ InitSwarm \/ RestartManager \/ GetTokens
  BY <1>4 DEF PrepareManager, InitSwarm, RestartManager, GetTokens, Command,
     docker
<1>5. CASE DeployRegistries \/ DeployZookeeper
  BY <1>5 DEF DeployRegistries, DeployZookeeper, Command
<1>6. CASE DeployToronion
  BY <1>6 DEF DeployToronion, Command, Feasible, BaseImageServed
<1>7. CASE PushBaseImage \/ DeployBroker
  <2>1. pc' \in {"deploy", "profile", "toronion"}
    BY <1>7, ReturnKeepsStack DEF PushBaseImage, DeployBroker, Before
  <2> QED BY <1>7, <2>1 DEF PushBaseImage, DeployBroker
<1>8. CASE JoinSwarm \/ LoseJoin
  <2>1. pc' \in {"deploy", "profile", "toronion", "zookeeper"}
    BY <1>8, ReturnKeepsStack DEF JoinSwarm, LoseJoin, AfterJoin, Before
  <2> QED BY <1>8, <2>1 DEF JoinSwarm, LoseJoin, docker
<1>9. ASSUME NEW t \in Tiers, StopHost(t) PROVE ServeOK'
  BY <1>9 DEF StopHost, control, docker
<1> QED
  BY <1>1, <1>2, <1>3, <1>4, <1>5, <1>6, <1>7, <1>8, <1>9
     DEF Next, Run, Fault, Swarming, Serving

(* bcm never reports success over a manager that lacks its registries or   *)
(* the base image, although it takes a RUNNING manager for a complete one. *)
THEOREM DeployManagerComplete == Spec => []ManagerComplete
<1>1. Init => ServeOK
  BY DEF Init, ServeOK
<1>2. TypeOK /\ StackOK /\ ServeOK /\ [Next]_vars => ServeOK'
  <2>1. ASSUME ServeOK, UNCHANGED vars PROVE ServeOK'
    BY <2>1 DEF ServeOK, ManagerServes, vars, control, docker
  <2> QED BY <2>1, ServeStep
<1>3. ServeOK => ManagerComplete
  BY DEF ServeOK, ManagerComplete
<1> QED BY <1>1, <1>2, <1>3, TypesInvariant, PTL DEF Spec
-----------------------------------------------------------------------------
Phases == [t \in Tiers |-> Phase(t)]

(* A step that neither touches hosts nor enters or leaves the stretch from *)
(* attachment to start leaves every host where it is in its life.          *)
LEMMA SamePhase ==
  ASSUME UNCHANGED <<host, attached>>,
         pc \notin {"localnet", "start"}, pc' \notin {"localnet", "start"}
  PROVE  Phases' = Phases
<1>1. ASSUME NEW t \in Tiers PROVE Phase(t)' = Phase(t)
  BY DEF Phase, Starting, Running
<1> QED BY <1>1 DEF Phases

(* When one host changes phase and the others do not, it is a Step of its. *)
LEMMA LifeOfOne ==
  ASSUME NEW h \in Tiers, NEW from, NEW to,
         Phase(h) \in from, Phase(h)' = to,
         \A t \in Tiers \ {h} : Phase(t)' = Phase(t)
  PROVE  Life!Step(h, from, to)
<1>1. Phases' = [Phases EXCEPT ![h] = to]
  BY DEF Phases
<1> QED BY <1>1 DEF Life!Step, Phases

(* Interrupted or refused between attachment and start, a host is given up. *)
LEMMA HaltPhase ==
  ASSUME TypeOK, DiskOK, Halt, UNCHANGED <<host, attached>>
  PROVE  [Life!Next]_Phases
<1>1. CASE pc \in {"localnet", "start"}
  <2>0. PICK h \in Tiers : h = tier
    BY DEF TypeOK
  <2>1. Phase(h) = "starting" /\ Phase(h)' = "down"
    BY <1>1, <2>0 DEF TypeOK, DiskOK, Halt, Phase, Starting, Running
  <2>2. \A t \in Tiers \ {h} : Phase(t)' = Phase(t)
    BY <1>1, <2>0 DEF Halt, Phase, Starting, Running
  <2> QED
    BY <2>1, <2>2, LifeOfOne DEF Life!Next, Life!Fall
<1>2. CASE pc \notin {"localnet", "start"}
  BY <1>2, SamePhase DEF Halt
<1> QED BY <1>1, <1>2

(* Every step of the scripts is a step in the life of at most one host.    *)
LEMMA LifeStep ==
  ASSUME TypeOK, StackOK, DiskOK, Next
  PROVE  [Life!Next]_Phases
<1>1. CASE Begin \/ Prologue
  BY <1>1, SamePhase DEF Begin, Prologue, BuildImage, SkipImage, CreateProject,
     SkipProject, ShareImages, ShareProfiles, SwitchProject, Command, hosts
<1>2. CASE Refused \/ Interrupt
  BY <1>2, HaltPhase DEF Refused, Interrupt, hosts
<1>3. CASE Tiering \/ Profiling
  BY <1>3, SamePhase DEF Tiering, Profiling, SkipTier, DeployTier, UpLower,
     UpTier, LocalProfile, CreateProfile, SkipProfile, FillProfile,
     AfterProfile, NextLabel, Call, Command, hosts
<1>4. CASE CreateNetworks \/ CreateVolume \/ SkipInit \/ WaitForDocker
             \/ KeepWaiting
  BY <1>4, SamePhase DEF CreateNetworks, CreateVolume, SkipInit, WaitForDocker,
     KeepWaiting, Command, hosts, vars, control
<1>5. CASE InitHost
  <2>0. PICK h \in Tiers : h = tier
    BY DEF TypeOK
  <2>1. Phase(h) = "none" /\ Phase(h)' = "created"
    BY <1>5, <2>0 DEF InitHost, Command, TypeOK, DiskOK, Phase, Starting, Running
  <2>2. \A t \in Tiers \ {h} : Phase(t)' = Phase(t)
    BY <1>5, <2>0 DEF InitHost, Command, TypeOK, Phase, Starting, Running
  <2> QED BY <2>1, <2>2, LifeOfOne DEF Life!Next, Life!Create
<1>6. CASE AttachVolume
  <2>0. PICK h \in Tiers : h = tier
    BY DEF TypeOK
  <2>1. Phase(h) = "created" /\ Phase(h)' = "starting"
    BY <1>6, <2>0 DEF AttachVolume, Command, Feasible, Attachable, TypeOK, DiskOK,
       Phase, Starting, Running
  <2>2. \A t \in Tiers \ {h} : Phase(t)' = Phase(t)
    BY <1>6, <2>0 DEF AttachVolume, Command, TypeOK, Phase, Starting, Running
  <2> QED BY <2>1, <2>2, LifeOfOne DEF Life!Next, Life!Attach
<1>7. CASE CreateLocalnet
  <2>1. \A t \in Tiers : Phase(t)' = Phase(t)
    BY <1>7 DEF CreateLocalnet, Command, Phase, Starting, Running, hosts
  <2> QED BY <2>1 DEF Phases
<1>8. CASE StartHost
  <2>0. PICK h \in Tiers : h = tier
    BY DEF TypeOK
  <2>1. Phase(h) = "starting" /\ Phase(h)' = "up"
    BY <1>8, <2>0 DEF StartHost, Command, TypeOK, DiskOK, Phase, Starting, Running
  <2>2. \A t \in Tiers \ {h} : Phase(t)' = Phase(t)
    BY <1>8, <2>0 DEF StartHost, Command, TypeOK, Phase, Starting, Running
  <2> QED BY <2>1, <2>2, LifeOfOne DEF Life!Next, Life!Start
<1>9. CASE Swarming \/ Serving \/ LoseJoin
  <2>1. pc \notin {"localnet", "start"} /\ UNCHANGED <<host, attached>>
    BY <1>9 DEF Swarming, Serving, PrepareManager, InitSwarm, RestartManager,
       GetTokens, JoinSwarm, LoseJoin, DeployRegistries, PushBaseImage,
       DeployZookeeper, DeployBroker, DeployToronion, Command, hosts
  <2>2. pc' \notin {"localnet", "start"}
    <3>1. ASSUME Return, pc \notin Before PROVE pc' \notin {"localnet", "start"}
      BY <3>1, ReturnKeepsStack
    <3> QED
      BY <1>9, <3>1 DEF Swarming, Serving, PrepareManager, InitSwarm,
         RestartManager, GetTokens, JoinSwarm, LoseJoin, AfterJoin,
         DeployRegistries, PushBaseImage, DeployZookeeper, DeployBroker,
         DeployToronion, Command, Before
  <2> QED BY <2>1, <2>2, SamePhase
<1>10. ASSUME NEW h \in Tiers, StopHost(h) PROVE [Life!Next]_Phases
  <2>1. Phase(h) = "up" /\ Phase(h)' = "down"
    BY <1>10 DEF StopHost, TypeOK, DiskOK, Phase, Starting, Running, control
  <2>2. \A t \in Tiers \ {h} : Phase(t)' = Phase(t)
    BY <1>10 DEF StopHost, TypeOK, Phase, Starting, Running, control
  <2> QED BY <2>1, <2>2, LifeOfOne DEF Life!Next, Life!Fall
<1> QED
  BY <1>1, <1>2, <1>3, <1>4, <1>5, <1>6, <1>7, <1>8, <1>9, <1>10
     DEF Next, Run, Fault, Hosting

(* The scripts implement HostLife: a host that went down, or whose run was *)
(* cut short before its first start, is never started again.               *)
THEOREM DeployHostLives == Spec => HostLives
<1>1. Init => Life!Init
  BY DEF Init, Life!Init, Phase, Starting
<1>2. Inv /\ [Next]_vars => [Life!Next]_Phases
  <2>1. ASSUME UNCHANGED vars PROVE Phases' = Phases
    BY <2>1 DEF Phases, Phase, Starting, Running, vars, control, hosts
  <2> QED BY <2>1, LifeStep DEF Inv
<1> QED BY <1>1, <1>2, Invariance, PTL DEF Spec, HostLives, Life!Spec, Phases
-----------------------------------------------------------------------------
(* What is left behind for good.  Three invariants say what an image that  *)
(* came out bare, a project without its features and the manager's script  *)
(* imply; the lemmas after them, that without further faults no step       *)
(* repairs what Blocked lists.                                             *)

Opening == {"image", "project", "setImages", "setProfiles", "switch"}
ManagerLabels == {"prepare", "swarm", "restart", "mirror", "privreg", "base"}
PastWait == ManagerLabels \cup {"tokens", "join", "zookeeper", "broker"}

\* Nothing is made before the image is there; and with a bare image every
\* host lacks dockerd, so that no script gets past its wait.
ImageOK ==
  /\ image = "none" =>
       /\ pc \notin Labels \ {"idle", "image"} /\ project = "none"
       /\ \A t \in Tiers : host[t] = "none" /\ profile[t] = "none"
  /\ image \in {"none", "bare"} =>
       /\ \A t \in Tiers : host[t] # "none" => t \in dockerless
       /\ deployed = {} /\ pc \notin PastWait \cup {"done"}

ProjectOK ==
  /\ project # "ready" => \A t \in Tiers : host[t] = "none"
  /\ pc = "setImages" => project = "bare"
  /\ pc = "setProfiles" => project = "images"

\* deploy.sh waits at the bottom of the stack for the script it called, the
\* other scripts above it for the tier below theirs.
ControlOK ==
  /\ pc \in Before => stack = <<>>
  /\ pc \in Opening \cup ManagerLabels => tier = "manager"
  /\ \A i \in 1..Len(stack) :
       /\ i < Len(stack) => stack[i].pc = "profile"
       /\ stack[i].pc = "profile" => stack[i].tier # "manager"

(* The steps that deploy to the swarm go on to another of theirs, end the  *)
(* run or return to a script, and leave the hosts and their set-up alone.  *)
LEMMA SwarmLeaves ==
  ASSUME TypeOK, StackOK, Swarming \/ Serving \/ LoseJoin
  PROVE  /\ pc' \in PastWait \cup {"done", "deploy", "profile", "toronion"}
         /\ UNCHANGED <<chain, setup, profile, nets, hosts>>
<1> USE DEF PastWait, ManagerLabels
<1>1. CASE PrepareManager \/ InitSwarm \/ RestartManager \/ GetTokens
             \/ DeployRegistries \/ DeployZookeeper \/ DeployToronion
  BY <1>1 DEF PrepareManager, InitSwarm, RestartManager, GetTokens,
     DeployRegistries, DeployZookeeper, DeployToronion, Command
<1>2. CASE PushBaseImage \/ DeployBroker
  BY <1>2, ReturnKeepsStack DEF PushBaseImage, DeployBroker, Before
<1>3. CASE JoinSwarm \/ LoseJoin
  BY <1>3, ReturnKeepsStack DEF JoinSwarm, LoseJoin, AfterJoin, Before
<1> QED BY <1>1, <1>2, <1>3 DEF Swarming, Serving

(* A step keeps what is missing as long as the image is, or is bare.       *)
LEMMA ImageStep ==
  ASSUME TypeOK, StackOK, ImageOK, Next
  PROVE  ImageOK'
<1> USE DEF ImageOK, PastWait, ManagerLabels
<1>1. CASE BuildImage
  BY <1>1 DEF BuildImage, Command, Labels, hosts, docker, Template!Next,
     Template!PublishComplete, Template!PublishPartial
<1>2. CASE Begin \/ SkipImage \/ CreateProject \/ SkipProject \/ ShareImages
             \/ ShareProfiles \/ SwitchProject \/ Refused \/ Interrupt
  BY <1>2 DEF Begin, SkipImage, CreateProject, SkipProject, ShareImages,
     ShareProfiles, SwitchProject, Refused, Interrupt, Halt, Command, Labels,
     TypeOK, setup, hosts, docker
<1>3. CASE Tiering
  BY <1>3 DEF Tiering, SkipTier, DeployTier, UpLower, UpTier, NextLabel, Call,
     Command, Labels, setup, hosts, docker
<1>4. CASE Profiling
  BY <1>4 DEF Profiling, LocalProfile, CreateProfile, SkipProfile, FillProfile,
     AfterProfile, Command, Labels, TypeOK, setup, hosts, docker
<1>5. CASE CreateNetworks \/ CreateVolume \/ SkipInit \/ AttachVolume
             \/ CreateLocalnet \/ StartHost \/ KeepWaiting
  BY <1>5 DEF CreateNetworks, CreateVolume, SkipInit, AttachVolume,
     CreateLocalnet, StartHost, KeepWaiting, Command, Labels, TypeOK, setup,
     hosts, docker, vars, control
<1>6. CASE InitHost
  BY <1>6 DEF InitHost, Command, Feasible, Labels, TypeOK, setup, docker
<1>7. CASE WaitForDocker
  BY <1>7 DEF WaitForDocker, DockerUp, Running, Command, Labels, TypeOK, setup,
     hosts, docker
<1>8. CASE DeployToronion
  BY <1>8 DEF DeployToronion, Command, Feasible, BaseImageServed, Labels, setup,
     hosts
<1>9. CASE Swarming \/ LoseJoin \/ DeployRegistries \/ PushBaseImage
             \/ DeployZookeeper \/ DeployBroker
  BY <1>9 DEF Swarming, LoseJoin, DeployRegistries, PushBaseImage,
     DeployZookeeper, DeployBroker, PrepareManager, InitSwarm, RestartManager,
     GetTokens, JoinSwarm, Command, Labels, TypeOK, setup, hosts
<1>10. ASSUME NEW t \in Tiers, StopHost(t) PROVE ImageOK'
  BY <1>10 DEF StopHost, Running, control, setup, docker, TypeOK
<1> QED
  BY <1>1, <1>2, <1>3, <1>4, <1>5, <1>6, <1>7, <1>8, <1>9, <1>10
     DEF Next, Run, Fault, Prologue, Hosting, Serving

(* A step keeps that no host is made before the project is ready.          *)
LEMMA ProjectStep ==
  ASSUME TypeOK, StackOK, ProjectOK, Next
  PROVE  ProjectOK'
<1> USE DEF ProjectOK
<1>1. CASE Begin \/ Prologue \/ Refused \/ Interrupt
  BY <1>1 DEF Begin, Prologue, BuildImage, SkipImage, CreateProject,
     SkipProject, ShareImages, ShareProfiles, SwitchProject, Refused,
     Interrupt, Halt, Command, setup, hosts
<1>2. CASE Tiering \/ Profiling
  BY <1>2 DEF Tiering, Profiling, SkipTier, DeployTier, UpLower, UpTier,
     LocalProfile, CreateProfile, SkipProfile, FillProfile, AfterProfile,
     NextLabel, Call, Command, setup, hosts
<1>3. CASE Hosting
  BY <1>3 DEF Hosting, CreateNetworks, CreateVolume, InitHost, SkipInit,
     AttachVolume, CreateLocalnet, StartHost, WaitForDocker, KeepWaiting,
     Command, Feasible, TypeOK, setup, hosts, vars, control
<1>5. CASE Swarming \/ Serving \/ LoseJoin
  BY <1>5, SwarmLeaves DEF Before, PastWait, ManagerLabels, setup, hosts
<1>6. ASSUME NEW t \in Tiers, StopHost(t) PROVE ProjectOK'
  BY <1>6 DEF StopHost, Running, control, setup, TypeOK
<1> QED
  BY <1>1, <1>2, <1>3, <1>5, <1>6 DEF Next, Run, Fault

(* Calls and returns keep that order of the scripts ...                    *)
LEMMA CallKeepsControl ==
  ASSUME TypeOK, ControlOK,
         NEW t \in Tiers, NEW c \in Tiers,
         NEW n \in {"deploy", "profile", "toronion"},
         IF n = "profile" THEN c # "manager" ELSE stack = <<>>,
         Call(t, n, c)
  PROVE  ControlOK'
<1> DEFINE f == [pc |-> n, tier |-> c]
<1>1. f \in Frames
  BY DEF Frames
<1>2. stack' = <<f>> \o stack /\ pc' = "up"
  BY DEF Call
<1>3. /\ Len(stack') = Len(stack) + 1 /\ stack'[1] = f
      /\ \A i \in 2..(Len(stack) + 1) : stack'[i] = stack[i - 1]
  BY <1>1, <1>2, Push DEF TypeOK
<1>4. ASSUME NEW i \in 1..Len(stack')
      PROVE  /\ i < Len(stack') => stack'[i].pc = "profile"
             /\ stack'[i].pc = "profile" => stack'[i].tier # "manager"
  <2>1. Len(stack) \in Nat
    BY DEF TypeOK
  <2>2. CASE i = 1
    BY <2>1, <2>2, <1>3 DEF TypeOK
  <2>3. CASE i # 1
    <3>1. i - 1 \in 1..Len(stack) /\ stack'[i] = stack[i - 1]
      BY <2>1, <2>3, <1>3
    <3> QED BY <3>1, <2>1, <1>3 DEF ControlOK
  <2> QED BY <2>2, <2>3
<1> QED BY <1>2, <1>4 DEF ControlOK, Before, Opening, ManagerLabels

(* A return finds its caller where the call left it.                       *)
LEMMA ReturnKeepsControl ==
  ASSUME TypeOK, StackOK, ControlOK, pc \notin Before, Return
  PROVE  ControlOK'
<1>1. stack # <<>> /\ stack \in Seq(Frames)
  BY DEF TypeOK, StackOK
<1>2. /\ Head(stack) = stack[1] /\ Len(Tail(stack)) = Len(stack) - 1
      /\ Tail(stack) \in Seq(Frames)
      /\ \A i \in 1..(Len(stack) - 1) : Tail(stack)[i] = stack[i + 1]
  BY <1>1, Pop
<1>3. Len(stack) \in Nat /\ Len(stack) > 0
  BY <1>1
<1>4. pc' = stack[1].pc /\ stack' = Tail(stack)
  BY <1>2 DEF Return
<1>5. pc' \in {"deploy", "profile", "toronion"}
  BY ReturnKeepsStack
<1>6. pc' \in Before => stack' = <<>>
  <2>1. SUFFICES ASSUME pc' \in Before PROVE Len(stack) = 1
    BY <1>2, <1>3, <1>4
  <2>2. 1 \in 1..Len(stack) /\ stack[1].pc # "profile"
    BY <2>1, <1>3, <1>4 DEF Before
  <2>3. ~(1 < Len(stack))
    BY <2>2 DEF ControlOK
  <2> QED BY <2>3, <1>3
<1>7. ASSUME NEW i \in 1..Len(stack')
      PROVE  /\ i < Len(stack') => stack'[i].pc = "profile"
             /\ stack'[i].pc = "profile" => stack'[i].tier # "manager"
  <2>1. i + 1 \in 1..Len(stack) /\ stack'[i] = stack[i + 1]
    BY <1>2, <1>3, <1>4
  <2> QED BY <2>1, <1>2, <1>3, <1>4 DEF ControlOK
<1> QED BY <1>5, <1>6, <1>7 DEF ControlOK, Opening, ManagerLabels

(* ... and no other step disturbs it.                                      *)
LEMMA ControlStep ==
  ASSUME TypeOK, StackOK, ControlOK, Next
  PROVE  ControlOK'
<1> USE DEF Before, Opening, ManagerLabels
<1>1. CASE Begin \/ Prologue \/ Refused \/ Interrupt
  BY <1>1 DEF Begin, Prologue, BuildImage, SkipImage, CreateProject,
     SkipProject, ShareImages, ShareProfiles, SwitchProject, Refused,
     Interrupt, Halt, Command, ControlOK
<1>2. CASE SkipTier
  BY <1>2 DEF SkipTier, NextLabel, ControlOK
<1>3. CASE DeployTier
  <2>1. Above(tier) \in Tiers /\ tier \in Tiers
    BY TierNames DEF TypeOK
  <2>2. /\ NextLabel(tier) \in {"deploy", "profile", "toronion"} \ {"profile"}
        /\ stack = <<>>
    BY <1>3 DEF NextLabel, DeployTier, ControlOK
  <2> QED BY <1>3, <2>1, <2>2, CallKeepsControl DEF DeployTier
<1>4. CASE UpLower
  <2>1. Lower(tier) \in Tiers /\ tier \in Tiers
    BY <1>4, TierNames DEF TypeOK, UpLower
  <2> QED BY <1>4, <2>1, CallKeepsControl DEF UpLower
<1>5. CASE UpTier \/ Profiling
  BY <1>5 DEF Profiling, UpTier, LocalProfile, CreateProfile, SkipProfile,
     FillProfile, AfterProfile, Command, ControlOK
<1>6. CASE Hosting
  BY <1>6 DEF Hosting, CreateNetworks, CreateVolume, InitHost, SkipInit,
     AttachVolume, CreateLocalnet, StartHost, WaitForDocker, KeepWaiting,
     Command, vars, control, ControlOK
<1>7. CASE PrepareManager \/ InitSwarm \/ RestartManager \/ GetTokens
             \/ DeployRegistries \/ DeployZookeeper \/ DeployToronion
  BY <1>7 DEF PrepareManager, InitSwarm, RestartManager, GetTokens,
     DeployRegistries, DeployZookeeper, DeployToronion, Command, ControlOK
<1>8. CASE PushBaseImage \/ DeployBroker
  BY <1>8, ReturnKeepsControl DEF PushBaseImage, DeployBroker
<1>9. CASE JoinSwarm \/ LoseJoin
  <2>1. CASE Return
    BY <1>9, <2>1, ReturnKeepsControl DEF JoinSwarm, LoseJoin
  <2>2. CASE ~Return
    BY <1>9, <2>2 DEF JoinSwarm, LoseJoin, AfterJoin, ControlOK
  <2> QED BY <2>1, <2>2
<1>10. ASSUME NEW t \in Tiers, StopHost(t) PROVE ControlOK'
  BY <1>10 DEF StopHost, control, ControlOK
<1> QED
  BY <1>1, <1>2, <1>3, <1>4, <1>5, <1>6, <1>7, <1>8, <1>9, <1>10
     DEF Next, Run, Fault, Tiering, Swarming, Serving
-----------------------------------------------------------------------------
(* How far deploy.sh has got: with no more hosts being stopped, the tiers  *)
(* it is past are up, except the one whose script it is waiting for.       *)

\* The tiers deploy.sh has dealt with when it comes to label l with tier t.
Passed(l, t) ==
  CASE l = "deploy" /\ t = "manager" -> {}
    [] l = "deploy" /\ t = "kafka" -> {"manager"}
    [] l = "deploy" /\ t = "underlay" -> {"manager", "kafka"}
    [] l = "deploy" /\ t \in Chains -> (FixedTiers \cup {chain}) \ {t}
    [] l \in {"toronion", "done"} -> FixedTiers \cup {chain}
    [] OTHER -> {}

\* The frame of deploy.sh, and the tier it called the script of.
Bottom == stack[Len(stack)]
Callee == IF Len(stack) = 1 THEN tier ELSE stack[Len(stack) - 1].tier

PassedOK ==
  /\ pc \in Before => \A t \in Passed(pc, tier) : Running(t)
  /\ stack # <<>> =>
       \A t \in Passed(Bottom.pc, Bottom.tier) \ {Callee} : Running(t)
  /\ pc \in {"wait"} \cup PastWait => Running(tier)

(* Past tier t, deploy.sh has dealt with t and with what it had before.    *)
LEMMA PassedNext ==
  ASSUME TypeOK, NEW t \in Tiers
  PROVE  /\ Passed(NextLabel(t), Above(t)) \subseteq Passed("deploy", t) \cup {t}
         /\ \A l : Passed(l, t) \subseteq Tiers
BY DeployAssumption
   DEF DeployAssumption, TypeOK, Passed, NextLabel, Above, Tiers, FixedTiers

(* Only a fault stops a host.                                              *)
LEMMA StillUp ==
  ASSUME TypeOK, faults = MaxFaults, Next
  PROVE  \A t \in Tiers : Running(t) => Running(t)'
<1> USE DEF Running
<1>1. CASE InitHost \/ StartHost
  BY <1>1 DEF InitHost, StartHost, TypeOK
<1>2. CASE ~(InitHost \/ StartHost)
  <2>1. ~Interrupt /\ ~LoseJoin /\ \A t \in Tiers : ~StopHost(t)
    BY DeployAssumption DEF DeployAssumption, Interrupt, LoseJoin, StopHost
  <2>2. host' = host
    BY <1>2, <2>1
       DEF Next, Run, Fault, Begin, Prologue, BuildImage, SkipImage,
           CreateProject, SkipProject, ShareImages, ShareProfiles,
           SwitchProject, Tiering, SkipTier, DeployTier, UpLower, UpTier,
           Profiling, LocalProfile, CreateProfile, SkipProfile, FillProfile,
           Hosting, CreateNetworks, CreateVolume, SkipInit, AttachVolume,
           CreateLocalnet, WaitForDocker, KeepWaiting, Swarming,
           PrepareManager, InitSwarm, RestartManager, GetTokens, JoinSwarm,
           Serving, DeployRegistries, PushBaseImage, DeployZookeeper,
           DeployBroker, DeployToronion, Refused, hosts, vars
  <2> QED BY <2>2
<1> QED BY <1>1, <1>2

(* A stack has one frame, two or more.                                     *)
LEMMA Lengths ==
  ASSUME NEW n \in Nat, n > 0
  PROVE  /\ n = 1 \/ n > 1
         /\ n > 1 => n # 1 /\ (n = 2 \/ n > 2)
         /\ n > 2 => n # 2 /\ n - 1 # 1
OBVIOUS

(* A call puts off what deploy.sh is past, or asks for the tier below ...  *)
LEMMA CallKeepsPassed ==
  ASSUME TypeOK, PassedOK, UNCHANGED <<chain, host>>,
         NEW t \in Tiers, NEW c \in Tiers,
         NEW n \in {"deploy", "profile", "toronion"},
         IF stack = <<>> THEN \A v \in Passed(n, c) \ {t} : Running(v)
         ELSE c = tier,
         Call(t, n, c)
  PROVE  PassedOK'
<1> DEFINE f == [pc |-> n, tier |-> c]
<1>1. f \in Frames
  BY DEF Frames
<1>2. stack' = <<f>> \o stack /\ pc' = "up" /\ tier' = t
  BY DEF Call
<1>3. /\ Len(stack') = Len(stack) + 1 /\ stack'[1] = f
      /\ \A i \in 2..(Len(stack) + 1) : stack'[i] = stack[i - 1]
      /\ Len(stack) \in Nat
  BY <1>1, <1>2, Push DEF TypeOK
<1>4. \A v \in (Passed(Bottom.pc, Bottom.tier) \ {Callee})' : Running(v)
  <2>1. CASE stack = <<>>
    <3>1. Len(stack') = 1
      BY <2>1, <1>3
    <3>2. Bottom' = f /\ Callee' = t
      BY <3>1, <1>2, <1>3 DEF Bottom, Callee
    <3> QED BY <2>1, <3>2 DEF Passed
  <2>2. CASE stack # <<>>
    <3>1. Len(stack) > 0
      BY <2>2 DEF TypeOK
    <3>2. Bottom' = Bottom
      <4>1. Len(stack) + 1 \in 2..(Len(stack) + 1)
        BY <3>1, <1>3
      <4>2. stack'[Len(stack) + 1] = stack[(Len(stack) + 1) - 1]
        BY <4>1, <1>3
      <4>3. (Len(stack) + 1) - 1 = Len(stack)
        BY <1>3
      <4> QED BY <4>2, <4>3, <1>3 DEF Bottom
    <3>3. Callee' = stack'[Len(stack)].tier
      <4>1. Len(stack') # 1 /\ Len(stack') - 1 = Len(stack)
        BY <3>1, <1>3
      <4> QED BY <4>1 DEF Callee
    <3>4. Callee' = Callee
      <4>1. CASE Len(stack) = 1
        BY <4>1, <3>3, <2>2, <1>3 DEF Callee
      <4>2. CASE Len(stack) > 1
        <5>1. Len(stack) \in 2..(Len(stack) + 1)
          BY <4>2, <3>1, <1>3
        <5>2. stack'[Len(stack)] = stack[Len(stack) - 1]
          BY <5>1, <1>3
        <5>3. Len(stack) # 1
          BY <4>2, <1>3, Lengths
        <5> QED BY <5>2, <5>3, <3>3 DEF Callee
      <4> QED BY <4>1, <4>2, <3>1, <1>3, Lengths
    <3> QED BY <2>2, <3>2, <3>4 DEF PassedOK, Passed
  <2> QED BY <2>1, <2>2
<1> QED
  BY <1>2, <1>4 DEF PassedOK, Running, Before, PastWait, ManagerLabels

(* ... and a script returns only when its own tier is up.                  *)
LEMMA ReturnKeepsPassed ==
  ASSUME TypeOK, StackOK, ControlOK, PassedOK, UNCHANGED host,
         pc \in PastWait, Return
  PROVE  PassedOK'
<1>1. stack # <<>> /\ stack \in Seq(Frames) /\ pc \notin Before
  BY DEF TypeOK, StackOK, Before, PastWait, ManagerLabels
<1>2. /\ Head(stack) = stack[1] /\ Len(Tail(stack)) = Len(stack) - 1
      /\ \A i \in 1..(Len(stack) - 1) : Tail(stack)[i] = stack[i + 1]
  BY <1>1, Pop
<1>3. Len(stack) \in Nat /\ Len(stack) > 0
  BY <1>1
<1>4. /\ pc' = stack[1].pc /\ tier' = stack[1].tier
      /\ stack' = Tail(stack) /\ chain' = chain
  BY <1>2 DEF Return
<1>5. pc' \in {"deploy", "profile", "toronion"}
  BY <1>1, ReturnKeepsStack
<1>6. /\ Running(tier)
      /\ \A t \in Passed(Bottom.pc, Bottom.tier) \ {Callee} : Running(t)
  BY <1>1 DEF PassedOK
<1>7. CASE Len(stack) = 1
  <2>1. Bottom = stack[1] /\ Callee = tier
    BY <1>7 DEF Bottom, Callee
  <2>2. stack' = <<>>
    BY <1>7, <1>1, <1>4
  <2>3. \A t \in Passed(pc, tier)' : Running(t)'
    BY <2>1, <1>4, <1>6 DEF Passed, Running
  <2> QED BY <2>2, <2>3, <1>5 DEF PassedOK, PastWait, ManagerLabels
<1>8. CASE Len(stack) > 1
  <2>0. Len(stack) # 1 /\ (Len(stack) = 2 \/ Len(stack) > 2)
    BY <1>3, <1>8, Lengths
  <2>1. 1 < Len(stack) /\ 1 \in 1..Len(stack)
    BY <1>8, <1>3
  <2>2. pc' = "profile"
    BY <2>1, <1>4 DEF ControlOK
  <2>3. Len(stack') = Len(stack) - 1
    BY <1>2, <1>4
  <2>4. Bottom' = Bottom
    <3>1. Len(stack) - 1 \in 1..(Len(stack) - 1)
      BY <2>1, <1>3
    <3>2. (Len(stack) - 1) + 1 = Len(stack)
      BY <1>3
    <3> QED BY <3>1, <3>2, <2>3, <1>2, <1>4 DEF Bottom
  <2>5. Callee' = Callee
    <3>1. CASE Len(stack) = 2
      <4>1. Len(stack) - 1 = 1
        BY <3>1
      <4> QED BY <4>1, <2>3, <1>4, <2>0 DEF Callee
    <3>2. CASE Len(stack) > 2
      <4>1. (Len(stack) - 1) - 1 \in 1..(Len(stack) - 1)
        BY <3>2, <2>1, <1>3
      <4>2. ((Len(stack) - 1) - 1) + 1 = Len(stack) - 1
        BY <1>3
      <4>3. stack'[(Len(stack) - 1) - 1] = stack[Len(stack) - 1]
        BY <4>1, <4>2, <1>2, <1>4
      <4>4. Len(stack) - 1 # 1
        BY <3>2, <1>3, Lengths
      <4> QED BY <4>3, <4>4, <2>3, <2>0 DEF Callee
    <3> QED BY <3>1, <3>2, <2>0
  <2> QED
    BY <2>2, <2>4, <2>5, <1>4, <1>6
       DEF PassedOK, Passed, Running, Before, PastWait, ManagerLabels
<1> QED BY <1>7, <1>8, <1>3, Lengths

(* With no more faults, no step takes deploy.sh past a tier that is down.  *)
LEMMA PassedStep ==
  ASSUME TypeOK, StackOK, ControlOK, PassedOK, faults = MaxFaults, Next
  PROVE  PassedOK'
<1> USE DEF Before, PastWait, ManagerLabels
<1>1. \A t \in Tiers : Running(t) => Running(t)'
  BY StillUp
<1>2. ~Interrupt /\ ~LoseJoin /\ \A t \in Tiers : ~StopHost(t)
  BY DeployAssumption DEF DeployAssumption, Interrupt, LoseJoin, StopHost
<1>3. CASE Begin \/ Prologue \/ Refused
  <2>1. stack' = <<>> /\ pc' \in {"idle", "deploy"} \cup Opening
    BY <1>3 DEF Begin, Prologue, BuildImage, SkipImage, CreateProject,
       SkipProject, ShareImages, ShareProfiles, SwitchProject, Refused, Halt,
       Command, ControlOK, Opening
  <2>2. tier' = "manager"
    BY <1>3 DEF Begin, Prologue, BuildImage, SkipImage, CreateProject,
       SkipProject, ShareImages, ShareProfiles, SwitchProject, Refused, Halt,
       Command, ControlOK, Opening
  <2>3. Passed(pc, tier)' = {}
    BY <2>1, <2>2, DeployAssumption
       DEF Passed, Opening, DeployAssumption, FixedTiers
  <2> QED BY <2>1, <2>3 DEF PassedOK, Opening
<1>4. CASE SkipTier
  <2>1. tier \in Tiers /\ stack = <<>> /\ pc = "deploy"
    BY <1>4 DEF SkipTier, TypeOK, ControlOK
  <2>2. \A t \in Passed(NextLabel(tier), Above(tier)) : Running(t)
    BY <1>4, <2>1, PassedNext DEF SkipTier, PassedOK
  <2>3. Passed(pc, tier)' = Passed(NextLabel(tier), Above(tier))
    BY <1>4 DEF SkipTier, Passed
  <2>4. host' = host /\ stack' = <<>> /\ pc' \in {"deploy", "toronion"}
    BY <1>4, <2>1 DEF SkipTier, NextLabel, hosts
  <2> QED BY <2>2, <2>3, <2>4 DEF PassedOK, Running
<1>5. CASE DeployTier
  <2>1. /\ tier \in Tiers /\ Above(tier) \in Tiers
        /\ stack = <<>> /\ pc = "deploy"
    BY <1>5, TierNames DEF DeployTier, TypeOK, ControlOK
  <2>2. \A t \in Passed(NextLabel(tier), Above(tier)) \ {tier} : Running(t)
    BY <2>1, PassedNext DEF PassedOK
  <2>3. NextLabel(tier) \in {"deploy", "profile", "toronion"}
    BY DEF NextLabel
  <2> QED BY <1>5, <2>1, <2>2, <2>3, CallKeepsPassed DEF DeployTier, hosts
<1>6. CASE UpLower
  <2>1. Lower(tier) \in Tiers /\ tier \in Tiers /\ stack # <<>>
    BY <1>6, TierNames DEF TypeOK, UpLower, StackOK
  <2> QED BY <1>6, <2>1, CallKeepsPassed DEF UpLower, hosts
<1>7. ASSUME UNCHANGED <<tier, stack, chain>>, pc \notin Before,
             pc' \notin Before,
             pc' \in {"wait"} \cup PastWait => Running(tier)'
      PROVE  PassedOK'
  <2>1. \A t \in (Passed(Bottom.pc, Bottom.tier) \ {Callee})' :
          stack # <<>> => Running(t)
    BY <1>7 DEF PassedOK, Passed, Bottom, Callee
  <2>2. stack # <<>> => Bottom.tier \in Tiers
    <3>1. stack # <<>> => Len(stack) \in 1..Len(stack)
      BY DEF TypeOK
    <3>2. stack # <<>> => stack[Len(stack)] \in Frames
      BY <3>1 DEF TypeOK
    <3> QED BY <3>2 DEF Bottom, Frames
  <2>3. stack # <<>> => Passed(Bottom.pc, Bottom.tier) \subseteq Tiers
    BY <2>2, PassedNext
  <2> QED BY <1>7, <1>1, <2>1, <2>3 DEF PassedOK, Passed, Bottom, Callee
<1>8. CASE UpTier \/ Profiling
  BY <1>8, <1>7 DEF Profiling, UpTier, LocalProfile, CreateProfile, SkipProfile,
     FillProfile, AfterProfile, Command
<1>9. CASE Hosting
  BY <1>9, <1>7 DEF Hosting, CreateNetworks, CreateVolume, InitHost, SkipInit,
     AttachVolume, CreateLocalnet, StartHost, WaitForDocker, KeepWaiting,
     DockerUp, Running, TypeOK, Command, vars, control, hosts, PassedOK
<1>10. CASE PrepareManager \/ InitSwarm \/ RestartManager \/ GetTokens
              \/ DeployRegistries \/ DeployZookeeper
  BY <1>10, <1>7 DEF PrepareManager, InitSwarm, RestartManager, GetTokens,
     DeployRegistries, DeployZookeeper, Command, hosts, Running, PassedOK
<1>11. CASE DeployToronion
  <2>1. /\ stack' = <<>> /\ pc' = "done" /\ host' = host
        /\ Passed(pc, tier)' = Passed(pc, tier)
    BY <1>11 DEF DeployToronion, Command, ControlOK, hosts, Passed
  <2> QED BY <1>11, <2>1 DEF DeployToronion, Command, PassedOK, Running
<1>12. CASE PushBaseImage \/ DeployBroker
  BY <1>12, ReturnKeepsPassed DEF PushBaseImage, DeployBroker, hosts
<1>13. CASE JoinSwarm
  <2>1. CASE Return
    BY <1>13, <2>1, ReturnKeepsPassed DEF JoinSwarm, hosts
  <2>2. CASE ~Return
    BY <1>13, <2>2, <1>7 DEF JoinSwarm, AfterJoin, hosts, Running, PassedOK
  <2> QED BY <2>1, <2>2
<1> QED
  BY <1>2, <1>3, <1>4, <1>5, <1>6, <1>8, <1>9, <1>10, <1>11, <1>12, <1>13
     DEF Next, Run, Fault, Tiering, Swarming, Serving
-----------------------------------------------------------------------------
(* The leftovers that running bcm does not repair.                         *)

Lost == image = "lost" /\ pc \in {"idle", "image"}
HalfMade ==
  project \in {"bare", "images"} /\ pc \notin {"setImages", "setProfiles"}
Hollow(t) == profile[t] = "empty" /\ ~(pc = "fill" /\ tier = t)
Down(t) == t \in attached /\ host[t] = "stopped" /\ ~Starting(t)
Unserved ==
  /\ Running("manager") /\ ~ManagerServes
  /\ pc \notin Before => tier # "manager"

(* An image that was lost or came out bare is not built again, a project   *)
(* that exists is not set up again.                                        *)
LEMMA SetupStays ==
  ASSUME TypeOK, StackOK, Next
  PROVE  /\ Lost => Lost'
         /\ image = "bare" => image' = "bare"
         /\ HalfMade => HalfMade' /\ project' = project
<1> USE DEF Lost, HalfMade
<1>1. CASE Prologue
  BY <1>1 DEF Prologue, BuildImage, SkipImage, CreateProject, SkipProject,
     ShareImages, ShareProfiles, SwitchProject, Command, Feasible, setup,
     Template!Next, Template!PublishComplete, Template!PublishPartial
<1>2. CASE Begin \/ Refused \/ Interrupt
  BY <1>2 DEF Begin, Refused, Interrupt, Halt, setup
<1>3. CASE Tiering \/ Profiling
  BY <1>3 DEF Tiering, Profiling, SkipTier, DeployTier, UpLower, UpTier,
     LocalProfile, CreateProfile, SkipProfile, FillProfile, AfterProfile,
     NextLabel, Call, Command, setup
<1>4. CASE Hosting
  BY <1>4 DEF Hosting, CreateNetworks, CreateVolume, InitHost, SkipInit,
     AttachVolume, CreateLocalnet, StartHost, WaitForDocker, KeepWaiting,
     Command, setup, vars, control
<1>5. CASE Swarming \/ Serving \/ LoseJoin
  <2>1. pc \notin {"idle", "image"}
    BY <1>5 DEF Swarming, Serving, PrepareManager, InitSwarm, RestartManager,
       GetTokens, JoinSwarm, LoseJoin, DeployRegistries, PushBaseImage,
       DeployZookeeper, DeployBroker, DeployToronion, Command
  <2> QED BY <1>5, <2>1, SwarmLeaves DEF PastWait, ManagerLabels, setup
<1>6. ASSUME NEW t \in Tiers, StopHost(t)
      PROVE  UNCHANGED <<pc, image, project>>
  BY <1>6 DEF StopHost, control, setup
<1> QED
  BY <1>1, <1>2, <1>3, <1>4, <1>5, <1>6 DEF Next, Run, Fault

(* A profile whose filling was cut short is taken for a filled one.        *)
LEMMA HollowStays ==
  ASSUME TypeOK, StackOK, Next, NEW t \in Tiers, Hollow(t)
  PROVE  Hollow(t)'
<1> USE DEF Hollow
<1>1. CASE Begin \/ Prologue \/ Refused \/ Interrupt
  BY <1>1 DEF Begin, Prologue, BuildImage, SkipImage, CreateProject,
     SkipProject, ShareImages, ShareProfiles, SwitchProject, Refused,
     Interrupt, Halt, Command
<1>2. CASE Tiering
  BY <1>2 DEF Tiering, SkipTier, DeployTier, UpLower, UpTier, NextLabel, Call,
     Command
<1>3. CASE Profiling
  BY <1>3 DEF Profiling, LocalProfile, CreateProfile, SkipProfile, FillProfile,
     AfterProfile, Command, TypeOK
<1>4. CASE Hosting
  BY <1>4 DEF Hosting, CreateNetworks, CreateVolume, InitHost, SkipInit,
     AttachVolume, CreateLocalnet, StartHost, WaitForDocker, KeepWaiting,
     Command, vars, control
<1>5. CASE Swarming \/ Serving \/ LoseJoin
  BY <1>5, SwarmLeaves DEF PastWait, ManagerLabels
<1>6. CASE \E u \in Tiers : StopHost(u)
  BY <1>6 DEF StopHost, control
<1> QED
  BY <1>1, <1>2, <1>3, <1>4, <1>5, <1>6 DEF Next, Run, Fault

(* A host that is stopped with its volume attached is never started: the   *)
(* volume cannot be attached again.                                        *)
LEMMA DownStays ==
  ASSUME TypeOK, StackOK, Next, NEW t \in Tiers, Down(t)
  PROVE  Down(t)'
<1> USE DEF Down, Starting
<1>1. CASE Begin \/ Prologue \/ Refused \/ Interrupt
  BY <1>1 DEF Begin, Prologue, BuildImage, SkipImage, CreateProject,
     SkipProject, ShareImages, ShareProfiles, SwitchProject, Refused,
     Interrupt, Halt, Command, hosts
<1>2. CASE Tiering \/ Profiling
  BY <1>2 DEF Tiering, Profiling, SkipTier, DeployTier, UpLower, UpTier,
     LocalProfile, CreateProfile, SkipProfile, FillProfile, AfterProfile,
     NextLabel, Call, Command, hosts
<1>3. CASE Hosting
  BY <1>3 DEF Hosting, CreateNetworks, CreateVolume, InitHost, SkipInit,
     AttachVolume, CreateLocalnet, StartHost, WaitForDocker, KeepWaiting,
     Command, Feasible, Attachable, TypeOK, hosts, vars, control
<1>4. CASE Swarming \/ Serving \/ LoseJoin
  BY <1>4, SwarmLeaves DEF PastWait, ManagerLabels, hosts
<1>5. CASE \E u \in Tiers : StopHost(u)
  BY <1>5 DEF StopHost, Running, control, TypeOK
<1> QED
  BY <1>1, <1>2, <1>3, <1>4, <1>5 DEF Next, Run, Fault

(* No script returns to the manager's: that one calls no other.            *)
LEMMA ReturnToOther ==
  ASSUME TypeOK, StackOK, ControlOK, pc \notin Before, Return
  PROVE  pc' \notin Before => tier' # "manager"
<1>1. stack # <<>> /\ stack \in Seq(Frames)
  BY DEF TypeOK, StackOK
<1>2. pc' = stack[1].pc /\ tier' = stack[1].tier
  BY <1>1, Pop DEF Return
<1>3. pc' \in {"deploy", "profile", "toronion"} /\ 1 \in 1..Len(stack)
  BY <1>1, ReturnKeepsStack
<1>4. pc' = "profile" => tier' # "manager"
  BY <1>2, <1>3 DEF ControlOK
<1> QED BY <1>3, <1>4 DEF Before

(* A running manager is taken for a deployed one: its script does not run  *)
(* again, and what it has not deployed stays missing.                      *)
LEMMA UnservedStays ==
  ASSUME TypeOK, StackOK, ControlOK, faults = MaxFaults, Next, Unserved
  PROVE  Unserved'
<1>1. Running("manager")' /\ "manager" \in Tiers
  BY StillUp DEF Unserved, Tiers, FixedTiers
<1>2. ~Interrupt /\ ~LoseJoin /\ \A t \in Tiers : ~StopHost(t)
  BY DeployAssumption DEF DeployAssumption, Interrupt, LoseJoin, StopHost
<1>3. pc \in ManagerLabels => tier = "manager" /\ pc \notin Before
  BY DEF ControlOK, ManagerLabels, Before
<1>4. ~ManagerServes'
  <2>1. CASE Swarming \/ DeployZookeeper \/ DeployBroker \/ DeployToronion
    BY <2>1 DEF Swarming, PrepareManager, InitSwarm, RestartManager,
       GetTokens, JoinSwarm, DeployZookeeper, DeployBroker, DeployToronion,
       docker, Unserved, ManagerServes
  <2>2. CASE DeployRegistries \/ PushBaseImage
    BY <2>2, <1>3 DEF DeployRegistries, PushBaseImage, Command, ManagerLabels,
       Unserved
  <2>3. CASE ~(Swarming \/ Serving)
    <3>1. deployed' = deployed
      BY <1>2, <2>3
         DEF Next, Run, Fault, Begin, Prologue, BuildImage, SkipImage,
             CreateProject, SkipProject, ShareImages, ShareProfiles,
             SwitchProject, Tiering, SkipTier, DeployTier, UpLower, UpTier,
             Profiling, LocalProfile, CreateProfile, SkipProfile, FillProfile,
             Hosting, CreateNetworks, CreateVolume, InitHost, SkipInit,
             AttachVolume, CreateLocalnet, StartHost, WaitForDocker,
             KeepWaiting, Refused, docker, vars
    <3> QED BY <3>1 DEF Unserved, ManagerServes
  <2> QED BY <2>1, <2>2, <2>3 DEF Serving
<1>5. pc' \notin Before => tier' # "manager"
  <2>1. CASE Begin \/ Prologue \/ Refused
    BY <2>1 DEF Begin, Prologue, BuildImage, SkipImage, CreateProject,
       SkipProject, ShareImages, ShareProfiles, SwitchProject, Refused, Halt,
       Command, Before
  <2>2. CASE Tiering
    BY <2>2 DEF Tiering, SkipTier, DeployTier, UpLower, UpTier, NextLabel, Call,
       Command, Unserved, Before
  <2>3. CASE Profiling
    BY <2>3 DEF Profiling, LocalProfile, CreateProfile, SkipProfile,
       FillProfile, AfterProfile, Command, Unserved, Before
  <2>4. CASE Hosting
    BY <2>4 DEF Hosting, CreateNetworks, CreateVolume, InitHost, SkipInit,
       AttachVolume, CreateLocalnet, StartHost, WaitForDocker, KeepWaiting,
       Command, vars, control, Unserved, Before
  <2>5. CASE PrepareManager \/ InitSwarm \/ RestartManager \/ GetTokens
               \/ DeployRegistries \/ DeployZookeeper \/ DeployToronion
    BY <2>5 DEF PrepareManager, InitSwarm, RestartManager, GetTokens,
       DeployRegistries, DeployZookeeper, DeployToronion, Command, Unserved,
       Before
  <2>6. CASE PushBaseImage \/ DeployBroker
    BY <2>6, ReturnToOther DEF PushBaseImage, DeployBroker, Before
  <2>7. CASE JoinSwarm
    BY <2>7, ReturnToOther DEF JoinSwarm, AfterJoin, Unserved, Before
  <2> QED
    BY <1>2, <2>1, <2>2, <2>3, <2>4, <2>5, <2>6, <2>7
       DEF Next, Run, Fault, Swarming, Serving
<1> QED BY <1>1, <1>4, <1>5 DEF Unserved

(* A run only ends well when 'toronion' is deployed ...                    *)
LEMMA OnlyToronion ==
  ASSUME TypeOK, StackOK, Next, pc # "done", pc' = "done"
  PROVE  DeployToronion
<1>1. CASE Begin \/ Prologue \/ Refused \/ Interrupt
  BY <1>1 DEF Begin, Prologue, BuildImage, SkipImage, CreateProject,
     SkipProject, ShareImages, ShareProfiles, SwitchProject, Refused,
     Interrupt, Halt, Command
<1>2. CASE Tiering \/ Profiling
  BY <1>2 DEF Tiering, Profiling, SkipTier, DeployTier, UpLower, UpTier,
     LocalProfile, CreateProfile, SkipProfile, FillProfile, AfterProfile,
     NextLabel, Call, Command
<1>3. CASE Hosting
  BY <1>3 DEF Hosting, CreateNetworks, CreateVolume, InitHost, SkipInit,
     AttachVolume, CreateLocalnet, StartHost, WaitForDocker, KeepWaiting,
     Command, vars, control
<1>4. CASE PrepareManager \/ InitSwarm \/ RestartManager \/ GetTokens
             \/ DeployRegistries \/ DeployZookeeper
  BY <1>4 DEF PrepareManager, InitSwarm, RestartManager, GetTokens,
     DeployRegistries, DeployZookeeper, Command
<1>5. CASE PushBaseImage \/ DeployBroker \/ JoinSwarm \/ LoseJoin
  BY <1>5, ReturnKeepsStack DEF PushBaseImage, DeployBroker, JoinSwarm,
     LoseJoin, AfterJoin, Before
<1>6. CASE \E t \in Tiers : StopHost(t)
  BY <1>6 DEF StopHost, control
<1> QED
  BY <1>1, <1>2, <1>3, <1>4, <1>5, <1>6 DEF Next, Run, Fault, Swarming, Serving

(* ... which takes a manager that serves, a network and an image.          *)
LEMMA DoneNeeds ==
  ASSUME ServeOK, ImageOK, ProjectOK, DeployToronion
  PROVE  /\ ~Lost /\ image # "bare" /\ project = "ready"
         /\ Running("manager") /\ ManagerServes
         /\ profile["manager"] = "full" /\ profile["underlay"] = "full"
BY DEF DeployToronion, Command, Feasible, ManagerReached, SwarmUp, OnNetwork,
   BaseImageServed, Running, ServeOK, ImageOK, ProjectOK, Lost, Tiers,
   FixedTiers

(* Once the faults are spent, every step is one of the scripts.            *)
LEMMA FaultsSpent ==
  ASSUME faults = MaxFaults, Next
  PROVE  Run /\ faults' = faults
<1>1. ~Interrupt /\ ~LoseJoin /\ \A t \in Tiers : ~StopHost(t)
  BY DeployAssumption DEF DeployAssumption, Interrupt, LoseJoin, StopHost
<1> QED
  BY <1>1
     DEF Next, Run, Fault, Begin, Prologue, BuildImage, SkipImage,
         CreateProject, SkipProject, ShareImages, ShareProfiles,
         SwitchProject, Tiering, SkipTier, DeployTier, UpLower, UpTier,
         Profiling, LocalProfile, CreateProfile, SkipProfile, FillProfile,
         Hosting, CreateNetworks, CreateVolume, InitHost, SkipInit,
         AttachVolume, CreateLocalnet, StartHost, WaitForDocker,
         KeepWaiting, Swarming, PrepareManager, InitSwarm, RestartManager,
         GetTokens, JoinSwarm, Serving, DeployRegistries, PushBaseImage,
         DeployZookeeper, DeployBroker, DeployToronion, Refused, Command,
         vars

(* What a Blocked state becomes as bcm is run again without more faults.   *)
LeftBehind(c) ==
  /\ faults = MaxFaults /\ (pc = "done" => chain # c)
  /\ \/ Lost \/ image = "bare" \/ HalfMade \/ Unserved
     \/ Hollow("manager") \/ Hollow("underlay")
     \/ PassedOK /\ \E t \in FixedTiers \cup {c} : Down(t)

BlockedInv == Inv /\ ServeOK /\ ImageOK /\ ProjectOK /\ ControlOK

(* When the faults are spent and no run is on, what Blocked lists is left. *)
LEMMA BlockedIsLeft ==
  ASSUME TypeOK, ControlOK, NEW c \in Chains, Quiet, Blocked(c)
  PROVE  LeftBehind(c)
<1>1. pc = "idle" /\ stack = <<>> /\ faults = MaxFaults
  BY DEF Quiet, ControlOK, Before
<1>2. PassedOK
  BY <1>1 DEF PassedOK, Passed, PastWait, ManagerLabels
<1> QED
  BY <1>1, <1>2
     DEF Blocked, LeftBehind, Lost, HalfMade, Hollow, Unserved, Down, Starting,
         Before

(* Nothing in a deployment takes back what an interrupted one left behind. *)
LEMMA LeftBehindStays ==
  ASSUME BlockedInv, NEW c \in Chains, LeftBehind(c), [Next]_vars
  PROVE  LeftBehind(c)'
<1>0. CASE UNCHANGED vars
  BY <1>0 DEF LeftBehind, Lost, HalfMade, Hollow, Unserved, Down, Starting,
     Running, ManagerServes, PassedOK, Passed, Bottom, Callee, vars, control,
     setup, hosts, docker
<1>1. CASE Next
  <2> USE <1>1 DEF BlockedInv, Inv
  <2>0. /\ FixedTiers \cup {c} \subseteq Tiers
        /\ "manager" \in Tiers /\ "underlay" \in Tiers
    BY DEF Tiers, FixedTiers
  <2>1. faults' = faults
    BY <1>1, FaultsSpent DEF LeftBehind
  <2>2. \/ Lost' \/ image' = "bare" \/ HalfMade' \/ Unserved'
        \/ Hollow("manager")' \/ Hollow("underlay")'
        \/ PassedOK' /\ \E t \in FixedTiers \cup {c} : Down(t)'
    BY <2>0, SetupStays, UnservedStays, HollowStays, DownStays, PassedStep
       DEF LeftBehind
  <2>3. pc' = "done" => chain' # c
    <3>1. CASE pc = "done"
      <4>1. pc' # "done" \/ chain' = chain
        BY <1>1, <3>1
           DEF Next, Run, Fault, Begin, Prologue, BuildImage, SkipImage,
               CreateProject, SkipProject, ShareImages, ShareProfiles,
               SwitchProject, Tiering, SkipTier, DeployTier, UpLower, UpTier,
               Profiling, LocalProfile, CreateProfile, SkipProfile,
               FillProfile, Hosting, CreateNetworks, CreateVolume, InitHost,
               SkipInit, AttachVolume, CreateLocalnet, StartHost,
               WaitForDocker, KeepWaiting, Swarming, PrepareManager, InitSwarm,
               RestartManager, GetTokens, JoinSwarm, Serving, DeployRegistries,
               PushBaseImage, DeployZookeeper, DeployBroker, DeployToronion,
               Refused, Interrupt, LoseJoin, StopHost, Command, Halt, vars,
               control
      <4> QED BY <3>1, <4>1 DEF LeftBehind
    <3>2. CASE pc # "done" /\ pc' = "done"
      <4>1. DeployToronion
        BY <3>2, OnlyToronion
      <4>2. PassedOK /\ \E t \in FixedTiers \cup {c} : Down(t)
        BY <4>1, DoneNeeds DEF LeftBehind, HalfMade, Unserved, Hollow
      <4>3. \A t \in FixedTiers \cup {chain} : Running(t)
        BY <4>1, <4>2 DEF DeployToronion, Command, PassedOK, Before, Passed
      <4>4. chain' = chain
        BY <4>1 DEF DeployToronion, Command
      <4> QED BY <4>2, <4>3, <4>4 DEF Down, Running
    <3> QED BY <3>1, <3>2
  <2> QED BY <2>1, <2>2, <2>3 DEF LeftBehind
<1> QED BY <1>0, <1>1

(* What the argument rests on holds of every behaviour.                    *)
LEMMA BlockedInvariance == Spec => []BlockedInv
<1>1. Init => ServeOK /\ ImageOK /\ ProjectOK /\ ControlOK
  BY DEF Init, ServeOK, ImageOK, ProjectOK, ControlOK, Opening, ManagerLabels,
     PastWait, Labels
<1>2. /\ Inv /\ ServeOK /\ ImageOK /\ ProjectOK /\ ControlOK /\ [Next]_vars
      => (ServeOK /\ ImageOK /\ ProjectOK /\ ControlOK)'
  <2>1. ASSUME ServeOK, ImageOK, ProjectOK, ControlOK, UNCHANGED vars
        PROVE  (ServeOK /\ ImageOK /\ ProjectOK /\ ControlOK)'
    BY <2>1 DEF ServeOK, ManagerServes, ImageOK, ProjectOK, ControlOK, vars,
       control, setup, hosts, docker
  <2> QED
    BY <2>1, ServeStep, ImageStep, ProjectStep, ControlStep DEF Inv
<1> QED BY <1>1, <1>2, Invariance, PTL DEF Spec, BlockedInv

(* From a state that is Blocked for a chain, with no more faults, no       *)
(* sequence of runs of bcm, for whichever chains, gets to the end for that *)
(* chain: in the mapped scripts nothing repairs what Blocked lists.        *)
THEOREM DeployBlockedForGood == Spec => BlockedForGood
<1> SUFFICES ASSUME NEW c \in Chains
             PROVE  Spec => [](Quiet /\ Blocked(c)
                                 => [](pc = "done" => chain # c))
  BY DEF BlockedForGood
<1>1. BlockedInv /\ Quiet /\ Blocked(c) => LeftBehind(c)
  BY BlockedIsLeft DEF BlockedInv, Inv
<1>2. BlockedInv /\ LeftBehind(c) /\ [Next]_vars => LeftBehind(c)'
  BY LeftBehindStays
<1>3. LeftBehind(c) => (pc = "done" => chain # c)
  BY DEF LeftBehind
<1> QED BY <1>1, <1>2, <1>3, BlockedInvariance, PTL DEF Spec
=============================================================================
