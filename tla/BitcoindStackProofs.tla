------------------------- MODULE BitcoindStackProofs -------------------------
(* Proofs about BitcoindStack, for any chains and number of disturbances.  *)
EXTENDS BitcoindStack, TLAPS

(* The chain and ~/.bitcoin are what they were when the operator began.    *)
LEMMA OperatorFixed == [Next]_vars => operator' = operator
BY DEF Next, Up, Swarm, Disturbance, Begin, PrepareImage, MakeVolume,
   PullWallet, PullData, PushPiece, DeployBitcoind, Refused, Command, StartOther,
   StartTask, StopTask, Interrupt, Stop, RemoveByHand, RebuildTier, MountBackup,
   vars, operator

(* Every variable keeps its type; in particular a stack is only ever       *)
(* listed under the full name it was deployed with.                        *)
THEOREM BitcoindStackTypeOK == Spec => []TypeOK
<1> USE BitcoindStackAssumption DEF BitcoindStackAssumption
<1>1. Init => TypeOK
  <2> SUFFICES ASSUME Init PROVE TypeOK
    OBVIOUS
  <2>1. backupDir \in BOOLEAN /\ newInstall \in BOOLEAN /\ task \in BOOLEAN
    BY Zenon DEF Init
  <2>2. /\ chain \in Chains /\ local \subseteq Pieces /\ pc \in Labels
        /\ volume \in [Saved -> {"none", "empty", "node"}]
        /\ faults \in 0..MaxFaults
    BY DEF Init, Labels
  <2>3. /\ seed \subseteq Pieces \cup {"part"} /\ backup \subseteq Saved
        /\ stacks \subseteq Names /\ nets \subseteq Others
    BY Zenon DEF Init
  <2> QED BY <2>1, <2>2, <2>3, Zenon DEF TypeOK
<1>2. TypeOK /\ [Next]_vars => TypeOK'
  <2> SUFFICES ASSUME TypeOK, [Next]_vars PROVE TypeOK'
    OBVIOUS
  <2>0. chain' = chain /\ local' = local
    BY OperatorFixed DEF operator
  <2> USE <2>0 DEF TypeOK
  <2>1. CASE Begin \/ PrepareImage \/ Refused
    BY <2>1 DEF Begin, PrepareImage, Refused, Command, docker, Labels
  <2>2. CASE MakeVolume
    BY <2>2 DEF MakeVolume, Command, Labels
  <2>3. CASE PullWallet \/ PullData
    BY <2>3 DEF PullWallet, PullData, Pull, Command, Labels, Saved
  <2>4. CASE PushPiece
    BY <2>4 DEF PushPiece, Command, Labels, Pieces
  <2>5. CASE DeployBitcoind
    BY <2>5 DEF DeployBitcoind, Command, Labels, NameOf, Names
  <2>6. ASSUME NEW s \in Others, StartOther(s) PROVE TypeOK'
    <3>1. NameOf(s) \in Names
      BY DEF NameOf, Names, Others
    <3> QED BY <2>6, <3>1 DEF StartOther
  <2>7. CASE StartTask \/ StopTask
    BY <2>7 DEF StartTask, StopTask
  <2>8. CASE Interrupt
    BY <2>8 DEF Interrupt, Disturb, Labels
  <2>9. CASE RemoveByHand
    BY <2>9 DEF RemoveByHand, Disturb
  <2>12. CASE RebuildTier
    <3>1. faults' \in 0..MaxFaults
      BY <2>12 DEF RebuildTier, Disturb
    <3> QED BY <2>12, <3>1, Zenon DEF RebuildTier
  <2>13. CASE MountBackup
    <3>1. faults' \in 0..MaxFaults
      BY <2>13 DEF MountBackup, Disturb
    <3> QED BY <2>13, <3>1, Zenon DEF MountBackup, docker
  <2>10. ASSUME NEW s \in Others \cup {"bitcoind"}, Stop(s) PROVE TypeOK'
    BY <2>10 DEF Stop, Disturb
  <2>11. CASE UNCHANGED vars
    BY <2>11 DEF vars, docker, operator
  <2> QED
    BY <2>1, <2>2, <2>3, <2>4, <2>5, <2>6, <2>7, <2>8, <2>9, <2>10, <2>11,
       <2>12, <2>13 DEF Next, Up, Swarm, Disturbance
<1> QED
  BY <1>1, <1>2, PTL DEF Spec
-----------------------------------------------------------------------------
(* SeedsOnlyFresh speaks of the two labels at which something is pushed    *)
(* and what would be; NEW_INSTALL is decided before, when no node can have *)
(* written anything, and the stack is not removed while up.sh runs.        *)
NewIsFresh ==
  pc \in Pieces \cup {"pullWallet", "pullData", "deploy"} /\ newInstall /\ Used
    => Listed

(* Every step keeps that a new install was not used, unless its stack      *)
(* runs.                                                                   *)
LEMMA NewIsFreshStep == TypeOK /\ NewIsFresh /\ [Next]_vars => NewIsFresh'
<1> SUFFICES ASSUME TypeOK, NewIsFresh, [Next]_vars PROVE NewIsFresh'
  OBVIOUS
<1>0. chain' = chain
  BY OperatorFixed DEF operator
<1> USE <1>0 DEF TypeOK, NewIsFresh, Pieces, Used, Listed, NameOf
<1>1. CASE Begin \/ PrepareImage \/ Refused
  BY <1>1 DEF Begin, PrepareImage, Refused, Command, docker
<1>2. CASE MakeVolume
  BY <1>2 DEF MakeVolume, Command, Saved
<1>3. CASE PullWallet \/ PullData
  BY <1>3 DEF PullWallet, PullData, Command
<1>4. CASE PushPiece \/ DeployBitcoind
  BY <1>4 DEF PushPiece, DeployBitcoind, Command
<1>5. ASSUME NEW s \in Others, StartOther(s) PROVE NewIsFresh'
  <2>1. Listed => Listed'
    BY <1>5 DEF StartOther
  <2> QED BY <2>1, <1>5 DEF StartOther
<1>6. CASE StartTask \/ StopTask
  <2>1. Listed' <=> Listed
    BY <1>6 DEF StartTask, StopTask
  <2>2. CASE StartTask
    BY <2>1, <2>2 DEF StartTask
  <2>3. CASE StopTask
    BY <2>1, <2>3 DEF StopTask
  <2> QED BY <1>6, <2>2, <2>3
<1>7. CASE Disturbance
  BY <1>7 DEF Disturbance, Disturb, Interrupt, RemoveByHand, RebuildTier,
     MountBackup, Stop, docker
<1>8. CASE UNCHANGED vars
  BY <1>8 DEF vars, docker
<1> QED
  BY <1>1, <1>2, <1>3, <1>4, <1>5, <1>6, <1>7, <1>8 DEF Next, Up, Swarm

(* Pushed files never land on a node's, unless the swarm kept the stack of *)
(* a rebuilt tier: for any chain, any ~/.bitcoin and any disturbances.     *)
THEOREM BitcoindStackSeedsOnlyFresh == Spec => []SeedsOnlyFresh
<1>1. Init => NewIsFresh
  BY DEF Init, NewIsFresh, Pieces
<1>2. NewIsFresh => SeedsOnlyFresh
  BY DEF NewIsFresh, SeedsOnlyFresh, Pushes
<1> QED
  BY <1>1, <1>2, NewIsFreshStep, BitcoindStackTypeOK, PTL DEF Spec
-----------------------------------------------------------------------------
(* Once the disturbances are over, a start that finds the volume 'data'    *)
(* there is no new install.                                                *)
SeedKept(pieces) ==
  /\ faults = MaxFaults /\ volume["data"] # "none" /\ seed = pieces
  /\ pc # "idle" => ~newInstall

(* Without further disturbances the volume stays, and nothing is pushed.   *)
LEMMA SeedKeptStep ==
  ASSUME NEW pieces, TypeOK, SeedKept(pieces), [Next]_vars
  PROVE  SeedKept(pieces)'
<1> USE DEF TypeOK, SeedKept
<1>1. CASE Begin \/ PrepareImage \/ Refused
  BY <1>1 DEF Begin, PrepareImage, Refused, Command, docker
<1>2. CASE MakeVolume
  <2>1. pc # "idle" /\ newInstall' = FALSE
    BY <1>2 DEF MakeVolume, Command
  <2>2. volume'["data"] = volume["data"]
    BY <1>2 DEF MakeVolume, Saved
  <2>3. faults' = faults /\ seed' = seed
    BY <1>2 DEF MakeVolume, Command
  <2> QED BY <2>1, <2>2, <2>3
<1>3. CASE PullWallet \/ PullData \/ DeployBitcoind
  BY <1>3 DEF PullWallet, PullData, DeployBitcoind, Command
<1>4. CASE PushPiece
  <2>1. ~newInstall /\ newInstall' = newInstall
    BY <1>4 DEF PushPiece, Command
  <2>2. faults' = faults /\ volume' = volume
    BY <1>4 DEF PushPiece, Command
  <2>3. seed' = seed
    BY <1>4, <2>1 DEF PushPiece, Pushes
  <2> QED BY <2>1, <2>2, <2>3
<1>5. ASSUME NEW s \in Others, StartOther(s) PROVE SeedKept(pieces)'
  BY <1>5 DEF StartOther
<1>6. CASE StartTask \/ StopTask
  BY <1>6 DEF StartTask, StopTask, Saved
<1>7. CASE Disturbance
  <2>1. faults < MaxFaults
    BY <1>7 DEF Disturbance, Disturb, Interrupt, RemoveByHand, RebuildTier,
       MountBackup, Stop
  <2> QED BY <2>1, BitcoindStackAssumption DEF BitcoindStackAssumption
<1>8. CASE UNCHANGED vars
  BY <1>8 DEF vars, docker
<1> QED
  BY <1>1, <1>2, <1>3, <1>4, <1>5, <1>6, <1>7, <1>8 DEF Next, Up, Swarm

(* If a start was cut short after it made the volume 'data', whatever part *)
(* of ~/.bitcoin it had pushed is all that any later start will have.      *)
THEOREM BitcoindStackOneChanceToSeed == Spec => OneChanceToSeed
<1> SUFFICES ASSUME NEW pieces \in SUBSET (Pieces \cup {"part"})
             PROVE  Spec => [](Quiet /\ volume["data"] # "none" /\ seed = pieces
                                 => [](seed = pieces))
  BY DEF OneChanceToSeed
<1>1. Quiet /\ volume["data"] # "none" /\ seed = pieces => SeedKept(pieces)
  BY DEF Quiet, SeedKept
<1>2. TypeOK /\ SeedKept(pieces) /\ [Next]_vars => SeedKept(pieces)'
  BY SeedKeptStep
<1>3. SeedKept(pieces) => seed = pieces
  BY DEF SeedKept
<1> QED BY <1>1, <1>2, <1>3, BitcoindStackTypeOK, PTL DEF Spec
=============================================================================
