---------------------------- MODULE BitcoindStack ----------------------------
(***************************************************************************)
(* 'bcm stack start bitcoind' and what surrounds it, for one chain on a    *)
(* deployed tier: stacks/bitcoind/up.sh fills docker volumes on the tier's *)
(* LXC host, backs them up, and hands the stack to the swarm, which starts *)
(* and stops bitcoind when it gets to it.                                  *)
(*                                                                         *)
(* pc is the command up.sh issues next.  A refused command ends it, and so *)
(* does an Interrupt; volumes keep what was put in them.  The commands on  *)
(* the two other stacks, which bitcoind needs for their networks, are a    *)
(* single 'docker stack' each.                                             *)
(***************************************************************************)
EXTENDS Naturals

CONSTANTS Chains,     \* values of BCM_ACTIVE_CHAIN
          MaxFaults   \* bound on what disturbs the operator's starts

ASSUME BitcoindStackAssumption ==
  /\ Chains \subseteq {"mainnet", "testnet", "regtest"} /\ MaxFaults \in Nat

VARIABLES
  chain,       \* BCM_ACTIVE_CHAIN
  local,       \* what there is in the operator's ~/.bitcoin
  backupDir,   \* BCM_BACKUP_DIR is a directory
  pc,          \* the command up.sh issues next
  newInstall,  \* NEW_INSTALL of the running up.sh
  volume,      \* contents of the docker volumes wallet and data
  seed,        \* what has been pushed into the volume blocks
  backup,      \* volumes with a backup of a node's data
  stacks,      \* names 'docker stack list' shows
  nets,        \* stacks whose overlay network exists
  task,        \* a bitcoind container runs
  faults       \* number of disturbances so far

operator == <<chain, local>>
docker == <<volume, seed, backup, stacks, nets, task>>
vars == <<operator, backupDir, pc, newInstall, docker, faults>>

Labels == {"idle", "image", "volume", "pullWallet", "pullData", "blocks",
           "chainstate", "deploy"}
Saved == {"wallet", "data"}
Pieces == {"blocks", "chainstate"}
Others == {"torproxy", "toronion"}

\* The name a stack is deployed under.
NameOf(s) == IF s = "toronion" THEN <<s>> ELSE <<s, chain>>
Names == {<<"toronion">>} \cup ({"torproxy", "bitcoind"} \X Chains)
Listed == NameOf("bitcoind") \in stacks

Used == volume["data"] = "node"

Init ==
  /\ chain \in Chains /\ local \in SUBSET Pieces /\ backupDir \in BOOLEAN
  /\ pc = "idle" /\ newInstall = FALSE
  /\ volume = [v \in Saved |-> "none"]
  /\ seed = {} /\ backup = {}
  /\ stacks = {} /\ nets = {} /\ task = FALSE
  /\ faults = 0
-----------------------------------------------------------------------------
(* Operators named Bug... are mutants: the definition that follows each    *)
(* one, with a plausible bug in the code it models.                        *)

\* Bug: a volume that does not exist is an error of backup_restore.sh.
BugFeasible ==
  /\ pc \in {"pullWallet", "pullData"} => volume["wallet"] # "none" /\ ~Listed
  /\ pc = "deploy" => nets = Others
(* What dockerd requires of a command, and the 'exit 1' of                 *)
(* backup_restore.sh where a stack to be backed up is running.             *)
Feasible ==
  /\ pc = "pullWallet" => volume["wallet"] = "none" \/ ~Listed
  /\ pc = "pullData" => ~Listed
  /\ pc = "deploy" => nets = Others

Command(here, next) ==
  /\ pc = here /\ Feasible /\ pc' = next
  /\ UNCHANGED <<operator, backupDir, faults>>

Begin ==
  /\ pc = "idle" /\ pc' = "image" /\ newInstall' = FALSE
  /\ UNCHANGED <<operator, backupDir, docker, faults>>

\* docker_image_ops.sh builds and pushes; the stack file goes to the manager.
PrepareImage ==
  /\ Command("image", "volume")
  /\ UNCHANGED <<newInstall, docker>>

\* Bug: NEW_INSTALL is set whether or not the volume was there.
BugMakeVolume ==
  /\ Command("volume", IF backupDir THEN "pullWallet" ELSE "blocks")
  /\ newInstall' = TRUE
  /\ volume' = [volume EXCEPT !["data"] = IF @ = "none" THEN "empty" ELSE @]
  /\ UNCHANGED <<seed, backup, stacks, nets, task>>
(* The volume list, and NEW_INSTALL.  Where BCM_BACKUP_DIR exists, the     *)
(* test for "bitcoind-CHAIN-data", which no volume is called, goes to      *)
(* backup_restore.sh without its --restore; nothing is then pushed.        *)
MakeVolume ==
  /\ Command("volume", IF backupDir THEN "pullWallet" ELSE "blocks")
  /\ newInstall' = (volume["data"] = "none")
  /\ volume' = [volume EXCEPT !["data"] = IF @ = "none" THEN "empty" ELSE @]
  /\ UNCHANGED <<seed, backup, stacks, nets, task>>

\* A volume that does not exist ends backup_restore.sh, successfully.
Pull(v) == IF volume[v] = "node" THEN backup \cup {v} ELSE backup

PullWallet ==
  /\ Command("pullWallet",
             IF volume["wallet"] = "none" THEN "deploy" ELSE "pullData")
  /\ backup' = Pull("wallet")
  /\ UNCHANGED <<newInstall, volume, seed, stacks, nets, task>>

PullData ==
  /\ Command("pullData", "deploy")
  /\ backup' = Pull("data")
  /\ UNCHANGED <<newInstall, volume, seed, stacks, nets, task>>

\* UPLOAD_BLOCKS and UPLOAD_CHAINSTATE.
Uploads ==
  local \cap CASE chain = "mainnet" -> {"blocks"}
               [] chain = "testnet" -> Pieces
               [] OTHER -> {}

\* Bug: NEW_INSTALL is not looked at.
BugPushes(p) == pc = p /\ p \in Uploads
Pushes(p) == pc = p /\ newInstall /\ p \in Uploads

\* Both are pushed into the volume 'blocks'.
PushPiece ==
  /\ \/ Command("blocks", "chainstate")
     \/ Command("chainstate", "deploy")
  /\ seed' = IF Pushes(pc) THEN seed \cup {pc} ELSE seed
  /\ UNCHANGED <<newInstall, volume, backup, stacks, nets, task>>

\* Bug: the stack is deployed under a name without its chain.
BugDeployBitcoind ==
  /\ Command("deploy", "idle")
  /\ stacks' = stacks \cup {<<"bitcoind">>}
  /\ UNCHANGED <<newInstall, volume, seed, backup, nets, task>>
DeployBitcoind ==
  /\ Command("deploy", "idle")
  /\ stacks' = stacks \cup {NameOf("bitcoind")}
  /\ UNCHANGED <<newInstall, volume, seed, backup, nets, task>>

\* set -e.
Refused ==
  /\ pc # "idle" /\ ~Feasible /\ pc' = "idle"
  /\ UNCHANGED <<operator, backupDir, newInstall, docker, faults>>

\* 'bcm stack start' of the other two: push the stack file and deploy it.
StartOther(s) ==
  /\ pc = "idle"
  /\ stacks' = stacks \cup {NameOf(s)} /\ nets' = nets \cup {s}
  /\ UNCHANGED <<operator, backupDir, pc, newInstall, volume, seed, backup,
                 task, faults>>
-----------------------------------------------------------------------------
(* The swarm, which acts on its list of services when it gets to it: a     *)
(* container's volumes are made when it is created.                        *)
StartTask ==
  /\ Listed /\ ~task /\ task' = TRUE
  /\ volume' = [v \in Saved |-> "node"]
  /\ UNCHANGED <<operator, backupDir, pc, newInstall, seed, backup, stacks,
                 nets, faults>>

StopTask ==
  /\ task /\ ~Listed /\ task' = FALSE
  /\ UNCHANGED <<operator, backupDir, pc, newInstall, volume, seed, backup,
                 stacks, nets, faults>>
-----------------------------------------------------------------------------
Disturb == faults < MaxFaults /\ faults' = faults + 1

\* A push cut short leaves some of the files.
Interrupt ==
  /\ Disturb /\ pc # "idle" /\ pc' = "idle"
  /\ \/ UNCHANGED seed
     \/ Pushes(pc) /\ seed' = seed \cup {"part"}
  /\ UNCHANGED <<operator, backupDir, newInstall, volume, backup, stacks, nets,
                 task>>

(* 'bcm stack stop s': 'docker stack remove s', which knows only full      *)
(* names, so that toronion is the one it can remove; a network in use is   *)
(* kept.  With --delete, the host of the volumes is looked for under a     *)
(* name no host has, and 'stack clear' ends there.                         *)
Stop(s) ==
  /\ Disturb /\ pc = "idle"
  /\ stacks' = stacks \ {<<s>>}
  /\ nets' = IF s = "toronion" /\ ~Listed THEN nets \ {s} ELSE nets
  /\ UNCHANGED <<operator, backupDir, pc, newInstall, volume, seed, backup,
                 task>>

\* An operator who removes the stack by its full name.
RemoveByHand ==
  /\ Disturb /\ pc = "idle" /\ Listed
  /\ stacks' = stacks \ {NameOf("bitcoind")}
  /\ UNCHANGED <<operator, backupDir, pc, newInstall, volume, seed, backup,
                 nets, task>>

(* The bitcoin tier destroyed and deployed again (Teardown): its docker    *)
(* volumes are gone, the swarm's list of stacks is what it was.            *)
RebuildTier ==
  /\ Disturb /\ pc = "idle" /\ task' = FALSE
  /\ volume' = [v \in Saved |-> "none"] /\ seed' = {}
  /\ UNCHANGED <<operator, backupDir, pc, newInstall, backup, stacks, nets>>

\* The disk with the backups is mounted, or unmounted.
MountBackup ==
  /\ Disturb /\ pc = "idle" /\ backupDir' = ~backupDir
  /\ UNCHANGED <<operator, pc, newInstall, docker>>

Up == Begin \/ PrepareImage \/ MakeVolume \/ PullWallet \/ PullData
        \/ PushPiece \/ DeployBitcoind \/ Refused
Swarm == StartTask \/ StopTask
Disturbance == Interrupt \/ RemoveByHand \/ RebuildTier \/ MountBackup
                 \/ \E s \in Others \cup {"bitcoind"} : Stop(s)

Next == Up \/ Swarm \/ Disturbance \/ \E s \in Others : StartOther(s)

(* up.sh issues its next command, the swarm acts on its list, and the      *)
(* operator, undisturbed, starts each of the three stacks again and again. *)
Fairness ==
  /\ WF_vars(Up) /\ WF_vars(Swarm)
  /\ \A s \in Others : SF_vars(StartOther(s))

Spec == Init /\ [][Next]_vars /\ Fairness
-----------------------------------------------------------------------------
TypeOK ==
  /\ chain \in Chains /\ local \subseteq Pieces /\ backupDir \in BOOLEAN
  /\ pc \in Labels /\ newInstall \in BOOLEAN
  /\ volume \in [Saved -> {"none", "empty", "node"}]
  /\ seed \subseteq Pieces \cup {"part"} /\ backup \subseteq Saved
  /\ stacks \subseteq Names
  /\ nets \subseteq Others /\ task \in BOOLEAN
  /\ faults \in 0..MaxFaults

(* Files from ~/.bitcoin are pushed, into the volume 'blocks', on account  *)
(* of the volume 'data' being new.  They never land on files a node has    *)
(* written, unless the swarm brought a node up on a rebuilt tier meanwhile.*)
SeedsOnlyFresh == (\E p \in Pieces : Pushes(p)) /\ Used => Listed

Quiet == faults = MaxFaults /\ pc = "idle"

(* Whatever happened, an operator who starts the three stacks again and    *)
(* again, in any order, gets a running bitcoind.                           *)
StartsBringItUp == Quiet ~> task

(* One chance to seed: if a start was cut short, or found a directory for  *)
(* backups, after it made the volume 'data', no later one pushes anything. *)
OneChanceToSeed ==
  \A pieces \in SUBSET (Pieces \cup {"part"}) :
    [](Quiet /\ volume["data"] # "none" /\ seed = pieces => [](seed = pieces))

(* A backup of a node's data, once complete, is there when the stack is    *)
(* next started over new volumes: then up.sh's comment says "we will       *)
(* restore THAT first".                                                    *)
RestoredFirst ==
  pc = "deploy" /\ newInstall /\ backupDir /\ backup = Saved => Used
=============================================================================
