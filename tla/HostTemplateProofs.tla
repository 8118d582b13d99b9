------------------------- MODULE HostTemplateProofs -------------------------
(* Proofs about HostTemplate, for any sessions, endpoints and faults.      *)
EXTENDS HostTemplate, FiniteSetTheorems, TLAPS

(* The loop of the script only visits members of the cluster.              *)
LEMMA LoopMember ==
  ASSUME NEW l \in Seq(Members), l # <<>>
  PROVE  Head(l) \in Members /\ Tail(l) \in Seq(Members)
OBVIOUS

(* Every variable keeps its type: the run of the script moves between its  *)
(* commands and LXD holds values of the kinds the commands produce.        *)
THEOREM HostTemplateTypeOK == Spec => []TypeOK
<1> USE HostTemplateAssumption DEF HostTemplateAssumption
<1>1. Init => TypeOK
  <2>1. <<>> \in Seq(Members)
    OBVIOUS
  <2> QED BY <2>1 DEF Init, TypeOK, Labels, Software, Contents
<1>2. TypeOK /\ [Next]_vars => TypeOK'
  <2> SUFFICES ASSUME TypeOK, [Next]_vars PROVE TypeOK'
    OBVIOUS
  <2>0. endpoints' = endpoints
    BY DEF Next, Work, Begin, DefineBridge, CreateBridge, InitTemplate,
       StartTemplate, SkipPreparation, InstallDocker, Prepare, StopTemplate,
       RemoveProfile, DetachNetwork, TakeSnapshot, Publish, Refused,
       Interrupt, DeleteImage, Command, vars, lxdVars
  <2>m. Members' = Members
    BY <2>0 DEF Members
  <2> USE <2>0, <2>m
  <2>1. ASSUME NEW s \in Sessions, Begin(s) PROVE TypeOK'
    <3>1. endpoints \in Seq(Members) /\ <<>> \in Seq(Members)
      BY DEF TypeOK, Members
    <3> QED BY <2>1, <3>1 DEF TypeOK, Begin, lxdVars, Labels
  <2>2. ASSUME NEW s \in Sessions, DefineBridge(s) PROVE TypeOK'
    BY <2>2, LoopMember DEF TypeOK, DefineBridge, Command, Labels
  <2>3. ASSUME NEW s \in Sessions,
               CreateBridge(s) \/ InitTemplate(s) \/ StartTemplate(s)
                 \/ SkipPreparation(s) \/ StopTemplate(s)
        PROVE  TypeOK'
    BY <2>3 DEF TypeOK, Command, Labels, CreateBridge, InitTemplate,
       StartTemplate, SkipPreparation, StopTemplate
  <2>4. ASSUME NEW s \in Sessions, InstallDocker(s) \/ Prepare(s)
        PROVE  TypeOK'
    BY <2>4 DEF TypeOK, Command, Labels, Software, InstallDocker, Prepare
  <2>5. ASSUME NEW s \in Sessions, RemoveProfile(s) \/ DetachNetwork(s)
        PROVE  TypeOK'
    BY <2>5 DEF TypeOK, Command, Labels, RemoveProfile, DetachNetwork
  <2>7. ASSUME NEW s \in Sessions, TakeSnapshot(s) \/ Publish(s)
        PROVE  TypeOK'
    BY <2>7 DEF TypeOK, Command, Labels, Contents, TakeSnapshot, Publish
  <2>8. ASSUME NEW s \in Sessions, Refused(s) PROVE TypeOK'
    BY <2>8 DEF TypeOK, Labels, Refused, lxdVars
  <2>9. ASSUME NEW s \in Sessions, Interrupt(s) PROVE TypeOK'
    BY <2>9 DEF TypeOK, Labels, Interrupt, lxdVars
  <2>6. CASE UNCHANGED vars
    BY <2>6 DEF TypeOK, vars, lxdVars
  <2>10. CASE DeleteImage
    BY <2>10 DEF TypeOK, DeleteImage
  <2> QED
    BY <2>1, <2>2, <2>3, <2>4, <2>5, <2>6, <2>7, <2>8, <2>9, <2>10
       DEF Next, Work
<1> QED
  BY <1>1, <1>2, PTL DEF Spec
-----------------------------------------------------------------------------
(* How far each session has brought the template, which no other session   *)
(* can take back.                                                          *)
OrderOK ==
  /\ CleanupIsLast
  /\ \A s \in Sessions :
       /\ pc[s] \notin {"idle", "network", "init"} => template # "none"
       /\ pc[s] \in {"stop", "unprivilege", "detach"} => software = "ready"
       /\ pc[s] = "detach" => "bcm-privileged" \notin applied

(* Every step of a session keeps the order in which it makes the template. *)
LEMMA OrderStep == TypeOK /\ OrderOK /\ [Next]_vars => OrderOK'
<1> SUFFICES ASSUME TypeOK, OrderOK, [Next]_vars PROVE OrderOK'
  OBVIOUS
<1> USE DEF TypeOK, OrderOK, CleanupIsLast
<1>1. ASSUME NEW s \in Sessions,
             Begin(s) \/ Refused(s) \/ Interrupt(s)
      PROVE  OrderOK'
  BY <1>1 DEF Begin, Refused, Interrupt, lxdVars
<1>2. ASSUME NEW s \in Sessions,
             DefineBridge(s) \/ CreateBridge(s) \/ StartTemplate(s)
               \/ SkipPreparation(s) \/ StopTemplate(s)
      PROVE  OrderOK'
  BY <1>2 DEF Command, DefineBridge, CreateBridge, StartTemplate,
     SkipPreparation, StopTemplate
<1>3. ASSUME NEW s \in Sessions, InitTemplate(s) PROVE OrderOK'
  BY <1>3 DEF Command, InitTemplate, Fixtures
<1>4. ASSUME NEW s \in Sessions, InstallDocker(s) \/ Prepare(s)
      PROVE  OrderOK'
  BY <1>4 DEF Command, InstallDocker, Prepare
<1>5. ASSUME NEW s \in Sessions, RemoveProfile(s) \/ DetachNetwork(s)
      PROVE  OrderOK'
  BY <1>5 DEF Command, RemoveProfile, DetachNetwork
<1>6. ASSUME NEW s \in Sessions, TakeSnapshot(s) \/ Publish(s)
      PROVE  OrderOK'
  BY <1>6 DEF Command, TakeSnapshot, Publish
<1>7. CASE DeleteImage
  BY <1>7 DEF DeleteImage
<1>8. CASE UNCHANGED vars
  BY <1>8 DEF vars, lxdVars
<1> QED
  BY <1>1, <1>2, <1>3, <1>4, <1>5, <1>6, <1>7, <1>8 DEF Next, Work

(* Whatever the interleaving of sessions, the privileged profile goes only *)
(* from a template with everything installed, the network only after it.   *)
THEOREM HostTemplateCleanupIsLast == Spec => []CleanupIsLast
<1>1. Init => OrderOK
  BY DEF Init, OrderOK, CleanupIsLast
<1>2. OrderOK => CleanupIsLast
  BY DEF OrderOK
<1> QED
  BY <1>1, <1>2, OrderStep, HostTemplateTypeOK, PTL DEF Spec
-----------------------------------------------------------------------------
(* The snapshot's fixed name is a lock: whoever holds it publishes first,  *)
(* and it is never given back.                                             *)
LockOK ==
  /\ OnePublisher
  /\ \A s \in Sessions :
       pc[s] = "publish" => snapshot # "none" /\ image = "none"
  /\ image # "none" => snapshot # "none"

(* Every step keeps that one session publishes at a time.                  *)
LEMMA LockStep == TypeOK /\ LockOK /\ [Next]_vars => LockOK'
<1> SUFFICES ASSUME TypeOK, LockOK, [Next]_vars PROVE LockOK'
  OBVIOUS
<1> USE DEF TypeOK, LockOK, OnePublisher
<1>1. ASSUME NEW s \in Sessions,
             Begin(s) \/ Refused(s) \/ Interrupt(s)
      PROVE  LockOK'
  BY <1>1 DEF Begin, Refused, Interrupt, lxdVars
<1>2. ASSUME NEW s \in Sessions,
             DefineBridge(s) \/ CreateBridge(s) \/ InitTemplate(s)
               \/ StartTemplate(s) \/ SkipPreparation(s) \/ InstallDocker(s)
      PROVE  LockOK'
  BY <1>2 DEF Command, DefineBridge, CreateBridge, InitTemplate,
     StartTemplate, SkipPreparation, InstallDocker
<1>3. ASSUME NEW s \in Sessions,
             Prepare(s) \/ StopTemplate(s) \/ RemoveProfile(s)
               \/ DetachNetwork(s)
      PROVE  LockOK'
  BY <1>3 DEF Command, Prepare, StopTemplate, RemoveProfile, DetachNetwork
<1>4. ASSUME NEW s \in Sessions, TakeSnapshot(s) PROVE LockOK'
  <2>1. snapshot = "none" /\ snapshot' # "none"
    BY <1>4 DEF TakeSnapshot, Command, Feasible, SnapshotNameFree, Software
  <2> QED BY <2>1, <1>4 DEF TakeSnapshot, Command
<1>5. ASSUME NEW s \in Sessions, Publish(s) PROVE LockOK'
  BY <1>5 DEF Publish, Command
<1>6. CASE DeleteImage
  BY <1>6 DEF DeleteImage, ImageListed
<1>7. CASE UNCHANGED vars
  BY <1>7 DEF vars, lxdVars
<1> QED
  BY <1>1, <1>2, <1>3, <1>4, <1>5, <1>6, <1>7 DEF Next, Work

(* At first nobody publishes.                                              *)
LEMMA LockInit == Init => LockOK
BY DEF Init, LockOK, OnePublisher

(* Two sessions never get as far as publishing.                            *)
THEOREM HostTemplateOnePublisher == Spec => []OnePublisher
<1>1. LockOK => OnePublisher
  BY DEF LockOK
<1> QED
  BY <1>1, LockInit, LockStep, HostTemplateTypeOK, PTL DEF Spec
-----------------------------------------------------------------------------
(* An undisturbed session finds the template running only while it works   *)
(* on it, or when it has finished with it.                                 *)
AtWork == {"install", "prepare", "stop"}
SoloOK ==
  ~Disturbed => \A s \in Sessions :
    /\ pc[s] \in AtWork => template = "running"
    /\ pc[s] \notin AtWork /\ template = "running" => software = "ready"
    /\ pc[s] = "snapshot" => software = "ready"
    /\ pc[s] = "publish" => snapshot = "ready"

(* Undisturbed, all sessions are one.                                      *)
LEMMA Solo ==
  ASSUME ~Disturbed, NEW s \in Sessions, NEW t \in Sessions
  PROVE  s = t
<1>1. IsFiniteSet(Sessions) /\ Cardinality(Sessions) \in Nat
  BY FS_CardinalityType, HostTemplateAssumption DEF HostTemplateAssumption
<1>2. Cardinality(Sessions) <= 1
  BY <1>1 DEF Disturbed
<1>3. Cardinality(Sessions) # 0
  BY <1>1, FS_EmptySet
<1>4. PICK x : Sessions = {x}
  BY <1>1, <1>2, <1>3, FS_Singleton
<1> QED
  BY <1>4

(* A step of a session that is alone finds what it left.                   *)
LEMMA SoloStep == TypeOK /\ OrderOK /\ SoloOK /\ [Next]_vars => SoloOK'
<1> SUFFICES ASSUME TypeOK, OrderOK, SoloOK, [Next]_vars, ~Disturbed'
             PROVE  SoloOK'
  BY DEF SoloOK
<1>1. ~Disturbed /\ faults' = faults
  BY DEF Disturbed, TypeOK, Next, Work, Begin, DefineBridge, CreateBridge,
     InitTemplate, StartTemplate, SkipPreparation, InstallDocker, Prepare,
     StopTemplate, RemoveProfile, DetachNetwork, TakeSnapshot, Publish,
     Refused, Interrupt, DeleteImage, Command, vars
<1>2. \A s, t \in Sessions : s = t
  BY <1>1, Solo
<1> USE <1>1, <1>2 DEF TypeOK, SoloOK, AtWork
<1>3. ASSUME NEW s \in Sessions,
             Begin(s) \/ DefineBridge(s) \/ CreateBridge(s)
               \/ StartTemplate(s) \/ SkipPreparation(s)
      PROVE  SoloOK'
  BY <1>3 DEF Begin, DefineBridge, CreateBridge, StartTemplate,
     SkipPreparation, Command, lxdVars, OrderOK
<1>10. ASSUME NEW s \in Sessions, InitTemplate(s) PROVE SoloOK'
  BY <1>10 DEF InitTemplate, Command
<1>4. ASSUME NEW s \in Sessions,
             InstallDocker(s) \/ Prepare(s) \/ StopTemplate(s)
      PROVE  SoloOK'
  BY <1>4 DEF InstallDocker, Prepare, StopTemplate, Command
<1>5. ASSUME NEW s \in Sessions,
             RemoveProfile(s) \/ DetachNetwork(s) \/ TakeSnapshot(s)
               \/ Publish(s)
      PROVE  SoloOK'
  BY <1>5 DEF RemoveProfile, DetachNetwork, TakeSnapshot, Publish, Command,
     OrderOK
<1>6. ASSUME NEW s \in Sessions, Refused(s) PROVE SoloOK'
  <2>1. pc[s] \in AtWork => software = "ready"
    BY <1>6 DEF Refused, Feasible, OrderOK, CleanupIsLast, Fixtures
  <2> QED BY <2>1, <1>6 DEF Refused, lxdVars
<1>7. CASE DeleteImage
  BY <1>7 DEF DeleteImage
<1>8. CASE UNCHANGED vars
  BY <1>8 DEF vars, lxdVars
<1>9. ASSUME NEW s \in Sessions, Interrupt(s) PROVE FALSE
  BY <1>9 DEF Interrupt
<1> QED
  BY <1>3, <1>4, <1>5, <1>6, <1>7, <1>8, <1>9, <1>10 DEF Next, Work

(* Every step publishes or deletes the image as HostImage has it, or       *)
(* leaves it alone.                                                        *)
LEMMA ImageStep ==
  TypeOK /\ LockOK /\ SoloOK /\ [Next]_vars
    => [Promise!Next \/ Promise!Delete]_image
<1> SUFFICES ASSUME TypeOK, LockOK, SoloOK, [Next]_vars
             PROVE  [Promise!Next \/ Promise!Delete]_image
  OBVIOUS
<1>1. ASSUME NEW s \in Sessions, Publish(s)
      PROVE  Promise!Next
  <2>1. image = "none" /\ image' = snapshot /\ snapshot \in Software
    BY <1>1 DEF Publish, Command, LockOK, TypeOK, Contents
  <2>2. Disturbed \/ snapshot = "ready"
    BY <1>1 DEF Publish, Command, SoloOK
  <2> QED
    BY <2>1, <2>2 DEF Promise!Next, Promise!PublishComplete,
       Promise!PublishPartial, Software
<1>2. CASE DeleteImage
  BY <1>2 DEF DeleteImage, ImageListed, TypeOK, Contents, Software,
     Promise!Delete
<1>3. ASSUME NEW s \in Sessions, Work(s) \/ Interrupt(s), ~Publish(s)
      PROVE  image' = image
  BY <1>3 DEF Work, Begin, DefineBridge, CreateBridge, InitTemplate,
     StartTemplate, SkipPreparation, InstallDocker, Prepare, StopTemplate,
     RemoveProfile, DetachNetwork, TakeSnapshot, Refused, Interrupt, lxdVars
<1> QED
  BY <1>1, <1>2, <1>3 DEF Next, vars, lxdVars

(* The template script implements HostImage, for any sessions, endpoints   *)
(* and interruptions: the image is never replaced, an undisturbed session  *)
(* publishes a complete one, and a deleted one never comes back.           *)
THEOREM HostTemplateImplementsHostImage == Spec => ImplementsHostImage
<1>1. Init => OrderOK /\ SoloOK /\ Promise!Init
  BY DEF Init, OrderOK, CleanupIsLast, SoloOK, AtWork, Promise!Init
<1> QED
  BY <1>1, LockInit, OrderStep, LockStep, SoloStep, ImageStep,
     HostTemplateTypeOK, PTL DEF Spec, ImplementsHostImage, Promise!Spec
-----------------------------------------------------------------------------
(* On a cluster the loop leaves bcmbr0 PENDING, and a template attached to *)
(* it never starts.                                                        *)
ClusterOK ==
  IsCluster =>
    /\ bridge # "up" /\ template # "running"
    /\ snapshot = "none" /\ image = "none"
    /\ template # "none" => "bcmbr0" \in applied
    /\ \A s \in Sessions :
         /\ pc[s] \in {"idle", "network", "init", "start"}
         /\ pc[s] = "network" /\ todo[s] = <<>> => bridge # "none"

(* No session gets further on a cluster.                                   *)
LEMMA ClusterStep == TypeOK /\ OrderOK /\ ClusterOK /\ [Next]_vars => ClusterOK'
<1>0. ASSUME [Next]_vars PROVE IsCluster' = IsCluster
  BY <1>0 DEF Next, Work, Begin, DefineBridge, CreateBridge, InitTemplate,
     StartTemplate, SkipPreparation, InstallDocker, Prepare, StopTemplate,
     RemoveProfile, DetachNetwork, TakeSnapshot, Publish, Refused, Interrupt,
     DeleteImage, Command, vars, lxdVars, IsCluster
<1> SUFFICES ASSUME TypeOK, OrderOK, ClusterOK, [Next]_vars, IsCluster
             PROVE  ClusterOK'
  BY <1>0 DEF ClusterOK
<1> USE DEF TypeOK, ClusterOK
<1>1. ASSUME NEW s \in Sessions, Begin(s) PROVE ClusterOK'
  <2>1. endpoints # <<>>
    BY HostTemplateAssumption DEF HostTemplateAssumption
  <2> QED BY <1>1, <2>1 DEF Begin, lxdVars
<1>2. ASSUME NEW s \in Sessions, DefineBridge(s) \/ CreateBridge(s)
      PROVE  ClusterOK'
  BY <1>2 DEF DefineBridge, CreateBridge, Command
<1>3. ASSUME NEW s \in Sessions, InitTemplate(s) PROVE ClusterOK'
  BY <1>3 DEF InitTemplate, Fixtures, Command
<1>4. ASSUME NEW s \in Sessions, StartTemplate(s) \/ SkipPreparation(s)
      PROVE  FALSE
  BY <1>4 DEF StartTemplate, SkipPreparation, Command, Feasible, OrderOK
<1>5. ASSUME NEW s \in Sessions,
             InstallDocker(s) \/ Prepare(s) \/ StopTemplate(s)
               \/ RemoveProfile(s) \/ DetachNetwork(s) \/ TakeSnapshot(s)
               \/ Publish(s)
      PROVE  FALSE
  BY <1>5 DEF InstallDocker, Prepare, StopTemplate, RemoveProfile,
     DetachNetwork, TakeSnapshot, Publish, Command
<1>6. ASSUME NEW s \in Sessions, Refused(s) \/ Interrupt(s) PROVE ClusterOK'
  BY <1>6 DEF Refused, Interrupt, lxdVars
<1>7. CASE DeleteImage
  BY <1>7 DEF DeleteImage, ImageListed
<1>8. CASE UNCHANGED vars
  BY <1>8 DEF vars, lxdVars, IsCluster
<1> QED
  BY <1>1, <1>2, <1>3, <1>4, <1>5, <1>6, <1>7, <1>8 DEF Next, Work

\* A template without its profile is started again, and no run gets past
\* removing the profile.
HalfCleaned ==
  /\ faults = MaxFaults /\ "bcm-privileged" \notin applied
  /\ \A s \in Sessions :
       /\ pc[s] \notin {"detach", "snapshot", "publish"}
       /\ template = IF pc[s] \in AtWork THEN "running" ELSE "stopped"

(* What is Stuck while nothing runs, as a session goes on from it.         *)
Wedged ==
  /\ image = "none"
  /\ \/ IsCluster
     \/ snapshot # "none" /\ \A s \in Sessions : pc[s] # "publish"
     \/ template = "none" /\ baseImage = "none"
     \/ HalfCleaned

(* A single session never gets the image out of such a state.              *)
LEMMA WedgedStep ==
  ASSUME Cardinality(Sessions) = 1,
         TypeOK, OrderOK, LockOK, ClusterOK, ClusterOK', Wedged, [Next]_vars
  PROVE  Wedged'
<1>1. \A s, t \in Sessions : s = t
  <2>1. IsFiniteSet(Sessions)
    BY HostTemplateAssumption DEF HostTemplateAssumption
  <2>2. PICK x : Sessions = {x}
    BY <2>1, FS_Singleton
  <2> QED BY <2>2
<1>2. ASSUME ~\E s \in Sessions : Publish(s) PROVE image' = "none"
  BY <1>2 DEF Wedged, Next, Work, Begin, DefineBridge, CreateBridge,
     InitTemplate, StartTemplate, SkipPreparation, InstallDocker, Prepare,
     StopTemplate, RemoveProfile, DetachNetwork, TakeSnapshot, Refused,
     Interrupt, DeleteImage, ImageListed, vars, lxdVars
<1>3. CASE IsCluster
  <2>1. IsCluster'
    BY <1>3 DEF Next, Work, Begin, DefineBridge, CreateBridge, InitTemplate,
       StartTemplate, SkipPreparation, InstallDocker, Prepare, StopTemplate,
       RemoveProfile, DetachNetwork, TakeSnapshot, Publish, Refused, Interrupt,
       DeleteImage, Command, vars, lxdVars, IsCluster
  <2> QED BY <2>1 DEF ClusterOK, Wedged
<1>4. CASE snapshot # "none" /\ \A s \in Sessions : pc[s] # "publish"
  <2>1. \A s \in Sessions : ~Publish(s) /\ ~TakeSnapshot(s)
    BY <1>4 DEF Publish, TakeSnapshot, Command, Feasible, SnapshotNameFree
  <2>2. snapshot' = snapshot /\ \A s \in Sessions : pc'[s] # "publish"
    BY <1>4, <2>1 DEF Next, Work, Begin, DefineBridge, CreateBridge,
       InitTemplate, StartTemplate, SkipPreparation, InstallDocker, Prepare,
       StopTemplate, RemoveProfile, DetachNetwork, Refused, Interrupt,
       DeleteImage, Command, vars, lxdVars, TypeOK
  <2> QED BY <1>2, <1>4, <2>1, <2>2 DEF Wedged
<1>5. CASE template = "none" /\ baseImage = "none"
  <2>1. \A s \in Sessions : pc[s] \in {"idle", "network", "init"}
    BY <1>5 DEF OrderOK, TypeOK
  <2>2. ~\E s \in Sessions : Publish(s)
    BY <2>1 DEF Publish, Command
  <2>3. template' = "none" /\ baseImage' = "none"
    BY <1>5, <2>1 DEF Next, Work, Begin, DefineBridge, CreateBridge,
       InitTemplate, StartTemplate, SkipPreparation, InstallDocker, Prepare,
       StopTemplate, RemoveProfile, DetachNetwork, TakeSnapshot, Publish,
       Refused, Interrupt, DeleteImage, Command, Feasible, vars, lxdVars
  <2> QED BY <1>2, <2>2, <2>3 DEF Wedged
<1>6. CASE HalfCleaned
  <2> USE <1>1, <1>6 DEF TypeOK, AtWork, HalfCleaned
  <2>1. ASSUME NEW s \in Sessions,
               Begin(s) \/ DefineBridge(s) \/ CreateBridge(s)
                 \/ InitTemplate(s)
        PROVE  HalfCleaned'
    BY <2>1 DEF Begin, DefineBridge, CreateBridge, InitTemplate, Command,
       lxdVars
  <2>2. ASSUME NEW s \in Sessions,
               StartTemplate(s) \/ InstallDocker(s) \/ Prepare(s)
                 \/ StopTemplate(s)
        PROVE  HalfCleaned'
    BY <2>2 DEF StartTemplate, InstallDocker, Prepare, StopTemplate, Command
  <2>3. ASSUME NEW s \in Sessions,
               SkipPreparation(s) \/ RemoveProfile(s) \/ DetachNetwork(s)
                 \/ TakeSnapshot(s) \/ Publish(s) \/ Interrupt(s)
        PROVE  FALSE
    BY <2>3, HostTemplateAssumption
       DEF SkipPreparation, RemoveProfile, DetachNetwork, TakeSnapshot,
           Publish, Interrupt, Command, Feasible, HostTemplateAssumption
  <2>4. ASSUME NEW s \in Sessions, Refused(s) PROVE HalfCleaned'
    BY <2>4 DEF Refused, Feasible, lxdVars
  <2>5. ASSUME DeleteImage \/ UNCHANGED vars PROVE HalfCleaned'
    BY <2>5 DEF DeleteImage, vars, lxdVars
  <2>6. HalfCleaned'
    BY <2>1, <2>2, <2>3, <2>4, <2>5 DEF Next, Work
  <2> QED BY <1>2, <2>3, <2>6 DEF Wedged
<1> QED BY <1>3, <1>4, <1>5, <1>6 DEF Wedged

(* What one session, its interruptions over, leaves Stuck, no number of    *)
(* runs of bcm by one operator gets out of it.                             *)
THEOREM HostTemplateStuckForGood ==
  ASSUME Cardinality(Sessions) = 1
  PROVE  Spec => StuckForGood
<1>1. Init => OrderOK /\ ClusterOK
  BY DEF Init, OrderOK, CleanupIsLast, ClusterOK
<1>2. TypeOK /\ Quiet /\ image = "none" /\ Stuck => Wedged
  BY DEF TypeOK, Quiet, Stuck, Wedged, HalfCleaned, AtWork
<1>3. /\ TypeOK /\ OrderOK /\ LockOK /\ ClusterOK /\ ClusterOK' /\ Wedged
      /\ [Next]_vars
      => Wedged'
  BY WedgedStep
<1>4. Wedged => image = "none"
  BY DEF Wedged
<1> QED
  BY <1>1, <1>2, <1>3, <1>4, LockInit, OrderStep, LockStep, ClusterStep,
     HostTemplateTypeOK, PTL DEF Spec, StuckForGood
=============================================================================
