---------------------------- MODULE HostTemplate ----------------------------
(***************************************************************************)
(* project/create_bcm_host_template.sh, and the test in project/deploy.sh  *)
(* that decides to run it: how the LXD image bcm-template is built.        *)
(*                                                                         *)
(* A session is one running copy of bcm.  Its script is a list of lxc      *)
(* commands under 'set -e': pc[s] is the command it will issue next, a     *)
(* command LXD refuses ends the script (Refused), and so does an operator, *)
(* a lost connection or a failing server at any point (Interrupt).  What   *)
(* was done stays done; the only recovery is to run bcm again (Begin).     *)
(* A test and the command it guards are one step: had another session      *)
(* slipped in between, the command would fail, which is Interrupt.         *)
(***************************************************************************)
EXTENDS Naturals, Sequences, FiniteSets

CONSTANTS Sessions,   \* the copies of bcm running against the same LXD
          EndpointLists, \* the values CLUSTER_ENDPOINTS may have
          MaxFaults   \* bound on Interrupt, a bound of the model only

ASSUME HostTemplateAssumption ==
  /\ Sessions # {} /\ IsFiniteSet(Sessions)
  /\ EndpointLists \subseteq Seq(Nat) \ {<<>>}
  /\ MaxFaults \in Nat

VARIABLES
  endpoints,   \* CLUSTER_ENDPOINTS, the list of cluster members
  pc,          \* the command each session issues next
  todo,        \* endpoints left in the loop that defines bcmbr0
  baseImage,   \* the image bcm-lxc-base in the local image store
  bridge,      \* state of the network bcmbr0
  definedAt,   \* endpoints where it has been defined with --target
  template,    \* state of the container bcm-template
  software,    \* what has been installed in it
  applied,     \* the profile and the network it is attached to
  snapshot,    \* what bcm-template/bcmHostSnapshot contains
  image,       \* what the published image bcm-template contains, or contained
  faults       \* number of interrupted runs

lxdVars == <<endpoints, baseImage, bridge, definedAt, template, software,
             applied, snapshot, image>>
vars == <<pc, todo, lxdVars, faults>>

Labels == {"idle", "network", "init", "start", "install", "prepare", "stop",
           "unprivilege", "detach", "snapshot", "publish"}
Software == {"bare", "docker", "ready"}
Contents == Software \cup {"none"}
Fixtures == {"bcm-privileged", "bcmbr0"}

Members == {endpoints[i] : i \in 1..Len(endpoints)}
IsCluster == Len(endpoints) > 1

Init ==
  /\ endpoints \in EndpointLists
  /\ pc = [s \in Sessions |-> "idle"]
  /\ todo = [s \in Sessions |-> <<>>]
  /\ baseImage \in {"none", "present"}
  /\ bridge = "none" /\ definedAt = {}
  /\ template = "none" /\ software = "bare"
  /\ applied = {}
  /\ snapshot = "none" /\ image = "none"
  /\ faults = 0
-----------------------------------------------------------------------------
(* Operators named Bug... are mutants: the definition that follows each    *)
(* one, with a plausible bug in the code it models.                        *)

\* 'lxc network create --target e' is refused where bcmbr0 is defined.
Definable(e) == e \notin definedAt

ImageListed == image \notin {"none", "lost"}

\* Bug: snapshots named after the time instead of bcmHostSnapshot.
BugSnapshotNameFree == TRUE
SnapshotNameFree == snapshot = "none"

(* What LXD requires of the command at each label, beyond its arguments.   *)
(* The commands run inside the template only need it to run: 'apt-get      *)
(* update' does not fail without a network, nor 'apt-get install' when     *)
(* there is nothing to fetch, and a template that has lost its network has *)
(* everything installed (CleanupIsLast).                                   *)
Feasible(s) ==
  /\ pc[s] = "network" /\ todo[s] # <<>> => Definable(Head(todo[s]))
  /\ pc[s] = "init" /\ template = "none" => baseImage = "present"
  /\ pc[s] = "start" /\ template = "stopped" =>
       ("bcmbr0" \in applied => bridge = "up")
  /\ pc[s] \in {"install", "prepare", "stop"} => template = "running"
  /\ pc[s] = "unprivilege" => "bcm-privileged" \in applied
  /\ pc[s] = "detach" => "bcmbr0" \in applied
  /\ pc[s] = "snapshot" => SnapshotNameFree
  /\ pc[s] = "publish" => ~ImageListed

Command(s, here, next) ==
  /\ pc[s] = here /\ Feasible(s)
  /\ pc' = [pc EXCEPT ![s] = next]
  /\ UNCHANGED <<endpoints, baseImage, faults>>

\* Bug: look for the container instead of the image.
BugBegin(s) ==
  /\ pc[s] = "idle" /\ template = "none"
  /\ pc' = [pc EXCEPT ![s] = "network"]
  /\ todo' = [todo EXCEPT ![s] = IF IsCluster THEN endpoints ELSE <<>>]
  /\ UNCHANGED <<lxdVars, faults>>
\* deploy.sh: if the image list has no bcm-template, build it.
Begin(s) ==
  /\ pc[s] = "idle" /\ ~ImageListed
  /\ pc' = [pc EXCEPT ![s] = "network"]
  /\ todo' = [todo EXCEPT ![s] = IF IsCluster THEN endpoints ELSE <<>>]
  /\ UNCHANGED <<lxdVars, faults>>

\* lxc network create --target ENDPOINT bcmbr0, on a cluster.
DefineBridge(s) ==
  /\ todo[s] # <<>> /\ Command(s, "network", "network")
  /\ bridge' = "pending"
  /\ definedAt' = definedAt \cup {Head(todo[s])}
  /\ todo' = [todo EXCEPT ![s] = Tail(@)]
  /\ UNCHANGED <<template, software, applied, snapshot, image>>

\* Create bcmbr0 unless 'lxc network list' has a line for it, PENDING or not.
CreateBridge(s) ==
  /\ todo[s] = <<>> /\ Command(s, "network", "init")
  /\ bridge' = IF bridge = "none" THEN "up" ELSE bridge
  /\ UNCHANGED <<todo, definedAt, template, software, applied,
                 snapshot, image>>

InitTemplate(s) ==
  LET fresh == template = "none"
  IN  /\ Command(s, "init", "start")
      /\ template' = IF fresh THEN "stopped" ELSE template
      /\ applied' = IF fresh THEN Fixtures ELSE applied
      /\ UNCHANGED <<todo, bridge, definedAt, software, snapshot, image>>

StartTemplate(s) ==
  /\ template = "stopped" /\ Command(s, "start", "install")
  /\ template' = "running"
  /\ UNCHANGED <<todo, bridge, definedAt, software, applied,
                 snapshot, image>>

\* Bug: the test for STOPPED is lost.
BugSkipPreparation(s) ==
  /\ Command(s, "start", "snapshot")
  /\ UNCHANGED <<todo, bridge, definedAt, template, software, applied,
                 snapshot, image>>
\* A template that is not STOPPED is taken to be prepared.
SkipPreparation(s) ==
  /\ template # "stopped" /\ Command(s, "start", "snapshot")
  /\ UNCHANGED <<todo, bridge, definedAt, template, software, applied,
                 snapshot, image>>

InstallDocker(s) ==
  /\ Command(s, "install", "prepare")
  /\ software' = IF software = "bare" THEN "docker" ELSE software
  /\ UNCHANGED <<todo, bridge, definedAt, template, applied, snapshot,
                 image>>

\* Debug tools, /.dockerenv, /etc/docker, apt clean-up, dockerd enabled.
Prepare(s) ==
  /\ Command(s, "prepare", "stop")
  /\ software' = "ready"
  /\ UNCHANGED <<todo, bridge, definedAt, template, applied, snapshot,
                 image>>

StopTemplate(s) ==
  /\ Command(s, "stop", "unprivilege")
  /\ template' = "stopped"
  /\ UNCHANGED <<todo, bridge, definedAt, software, applied, snapshot,
                 image>>

\* Bug: the two clean-up commands swapped.
BugRemoveProfile(s) ==
  /\ Command(s, "unprivilege", "detach")
  /\ applied' = applied \ {"bcmbr0"}
  /\ UNCHANGED <<todo, bridge, definedAt, template, software, snapshot, image>>
RemoveProfile(s) ==
  /\ Command(s, "unprivilege", "detach")
  /\ applied' = applied \ {"bcm-privileged"}
  /\ UNCHANGED <<todo, bridge, definedAt, template, software, snapshot, image>>

DetachNetwork(s) ==
  /\ Command(s, "detach", "snapshot")
  /\ applied' = applied \ {"bcmbr0"}
  /\ UNCHANGED <<todo, bridge, definedAt, template, software, snapshot, image>>

TakeSnapshot(s) ==
  /\ Command(s, "snapshot", "publish")
  /\ snapshot' = software
  /\ UNCHANGED <<todo, bridge, definedAt, template, software, applied,
                 image>>

\* Bug: publish the container, not its snapshot.
BugPublish(s) ==
  /\ Command(s, "publish", "idle")
  /\ image' = template
  /\ UNCHANGED <<todo, bridge, definedAt, template, software, applied,
                 snapshot>>
Publish(s) ==
  /\ Command(s, "publish", "idle")
  /\ image' = snapshot
  /\ UNCHANGED <<todo, bridge, definedAt, template, software, applied,
                 snapshot>>

\* Bug: '|| true' after lxc snapshot.
BugRefused(s) ==
  /\ pc[s] # "idle" /\ ~Feasible(s)
  /\ pc' = [pc EXCEPT ![s] = IF @ = "snapshot" THEN "publish" ELSE "idle"]
  /\ UNCHANGED <<todo, lxdVars, faults>>
\* set -e: the script ends at the first command LXD refuses.
Refused(s) ==
  /\ pc[s] # "idle" /\ ~Feasible(s)
  /\ pc' = [pc EXCEPT ![s] = "idle"]
  /\ UNCHANGED <<todo, lxdVars, faults>>

Interrupt(s) ==
  /\ pc[s] # "idle" /\ faults < MaxFaults
  /\ pc' = [pc EXCEPT ![s] = "idle"]
  /\ faults' = faults + 1
  /\ UNCHANGED <<todo, lxdVars>>

\* manager/destroy.sh deletes the image, and neither container nor snapshot.
DeleteImage ==
  /\ ImageListed /\ image' = "lost"
  /\ UNCHANGED <<pc, todo, endpoints, baseImage, bridge, definedAt, template,
                 software, applied, snapshot, faults>>

Work(s) ==
  \/ Begin(s) \/ DefineBridge(s) \/ CreateBridge(s) \/ InitTemplate(s)
  \/ StartTemplate(s) \/ SkipPreparation(s) \/ InstallDocker(s) \/ Prepare(s)
  \/ StopTemplate(s) \/ RemoveProfile(s) \/ DetachNetwork(s)
  \/ TakeSnapshot(s) \/ Publish(s) \/ Refused(s)

Next == DeleteImage \/ \E s \in Sessions : Work(s) \/ Interrupt(s)

\* Every command returns, and an operator who lacks the image runs bcm again.
Fairness == \A s \in Sessions : WF_vars(Work(s))

Spec == Init /\ [][Next]_vars /\ Fairness
-----------------------------------------------------------------------------
TypeOK ==
  /\ endpoints \in EndpointLists
  /\ pc \in [Sessions -> Labels]
  /\ todo \in [Sessions -> Seq(Members)]
  /\ baseImage \in {"none", "present"}
  /\ bridge \in {"none", "pending", "up"}
  /\ definedAt \subseteq Members
  /\ template \in {"none", "stopped", "running"}
  /\ software \in Software
  /\ applied \subseteq Fixtures
  /\ snapshot \in Contents /\ image \in Contents \cup {"lost"}
  /\ faults \in 0..MaxFaults

(* The clean-up before publication is done in order and last: a template   *)
(* that lost its network interface has lost the privileged profile, and    *)
(* one that lost the profile has everything installed, whatever the        *)
(* interruptions and the interleaving of sessions.                         *)
CleanupIsLast ==
  template # "none" =>
    /\ "bcmbr0" \notin applied => "bcm-privileged" \notin applied
    /\ "bcm-privileged" \notin applied => software = "ready"

(* The fixed name bcmHostSnapshot works as a lock between sessions: two of  *)
(* them never get as far as publishing, so no image can be overwritten.    *)
OnePublisher ==
  \A s, t \in Sessions : pc[s] = "publish" /\ pc[t] = "publish" => s = t

Disturbed == faults > 0 \/ Cardinality(Sessions) > 1
Promise == INSTANCE HostImage WITH disturbed <- Disturbed

(* What deploy.sh relies on: the image is published once and never         *)
(* replaced by another run, a run nothing disturbed publishes a complete   *)
(* one, and after its deletion no run ever publishes another.              *)
ImplementsHostImage == Promise!Spec

Quiet == faults = MaxFaults /\ \A s \in Sessions : pc[s] = "idle"

(* The states an interrupted run leaves behind in which running bcm again  *)
(* can never publish: 'lxc snapshot' finds bcmHostSnapshot, or 'lxc        *)
(* profile remove' finds the profile gone from a stopped template, its     *)
(* network taken away too or not, or the base image is missing.  On a      *)
(* cluster every state is one of them: the bridge the template needs never *)
(* leaves PENDING, whether it is defined on every endpoint or an           *)
(* interrupted run left some of them out.                                  *)
Stuck ==
  \/ IsCluster
  \/ image = "none" /\ snapshot # "none"
  \/ template = "stopped" /\ "bcm-privileged" \notin applied
  \/ template = "none" /\ baseImage = "none"

(* A single session with no more interruptions publishes the image from    *)
(* every state that is not Stuck ...                                       *)
RerunPublishes == (Quiet /\ ~Stuck) ~> (image # "none")

(* ... and Stuck is exactly the rest: no number of runs gets out of it.    *)
StuckForGood == [](Quiet /\ image = "none" /\ Stuck => [](image = "none"))
=============================================================================
