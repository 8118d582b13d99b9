------------------------------ MODULE NodeTasks ------------------------------
(***************************************************************************)
(* The containers of one chain's tier, once their stacks are listed by the *)
(* swarm (BitcoindStack): torproxy, and the two nodes that use it.  Each   *)
(* node's entrypoint.sh looks up the address of the alias 'torsocks' once, *)
(* waits for tor's two ports there, and hands that address to its node;    *)
(* clightning then waits for bitcoind, which it goes on calling by name.   *)
(* A wait that times out ends the container, and the swarm starts another. *)
(*                                                                         *)
(* The chain is a test network.  On mainnet clightning's entrypoint ends   *)
(* its command with an empty "$CHAIN_TEXT", an argument lightningd does    *)
(* not take.                                                               *)
(***************************************************************************)
EXTENDS Naturals

CONSTANTS Addresses,  \* what the swarm may give the service torproxy
          MaxFaults   \* bound on crashes and removals

Nodes == {"bitcoind", "clightning"}
Stacks == Nodes \cup {"torproxy"}

ASSUME NodeTasksAssumption ==
  /\ Addresses # {} /\ "none" \notin Addresses /\ MaxFaults \in Nat

VARIABLES
  hostname,  \* the operator has exported LXC_HOSTNAME
  listed,    \* stacks 'docker stack list' shows
  nets,      \* stacks whose overlay network exists
  vip,       \* the address of the service torproxy
  step,      \* where the entrypoint of a stack's container is
  proxy,     \* the address a node's entrypoint took 'torsocks' for
  faults     \* number of faults so far

swarm == <<listed, nets, vip>>
vars == <<hostname, swarm, step, proxy, faults>>

Waits == {"socks", "control", "rpc"}
Steps == {"down", "resolve", "run"} \cup Waits

Init ==
  /\ hostname \in BOOLEAN
  /\ listed = {} /\ nets = {} /\ vip = "none"
  /\ step = [s \in Stacks |-> "down"]
  /\ proxy = [n \in Nodes |-> "none"]
  /\ faults = 0

\* The stacks whose networks the stack's yml calls external.
Needs(s) == CASE s = "bitcoind" -> {"torproxy"}
              [] s = "clightning" -> {"torproxy", "bitcoind"}
              [] OTHER -> {}

Answers(a) == step["torproxy"] = "run" /\ a = vip
-----------------------------------------------------------------------------
(* The operator's 'bcm stack start'.                                       *)
DeployTor ==
  /\ "torproxy" \notin listed
  /\ listed' = listed \cup {"torproxy"} /\ nets' = nets \cup {"torproxy"}
  /\ vip' \in Addresses
  /\ UNCHANGED <<hostname, step, proxy, faults>>

Deploy(n) ==
  /\ n \notin listed /\ Needs(n) \subseteq nets
  /\ listed' = listed \cup {n} /\ nets' = nets \cup {n}
  /\ UNCHANGED <<hostname, vip, step, proxy, faults>>

DeployBitcoind == Deploy("bitcoind")

(* clightning/up.sh: its test for bitcoind is a 'grep -q' reading from a   *)
(* 'grep -q', so bitcoind/up.sh always runs first; then LXC_HOSTNAME,      *)
(* which bcm does not export, is expanded under 'set -u'.                  *)
DeployClightning ==
  \/ DeployBitcoind
  \/ hostname /\ "bitcoind" \in listed /\ Deploy("clightning")
-----------------------------------------------------------------------------
(* A container and its entrypoint.                                         *)
Go(s, from, to) == step[s] = from /\ step' = [step EXCEPT ![s] = to]

StartContainer(s) ==
  /\ s \in listed /\ Go(s, "down", IF s \in Nodes THEN "resolve" ELSE "run")
  /\ UNCHANGED <<hostname, swarm, proxy, faults>>

StopContainer(s) ==
  /\ s \notin listed /\ step[s] # "down" /\ Go(s, step[s], "down")
  /\ UNCHANGED <<hostname, swarm, proxy, faults>>

\* Bug: an empty answer is taken for an address.
BugEmpty(n) ==
  /\ n \in listed /\ Go(n, "resolve", "socks")
  /\ proxy' = [proxy EXCEPT ![n] = IF step["torproxy"] = "run" THEN vip
                                   ELSE ""]
  /\ UNCHANGED <<hostname, swarm, faults>>
\* 'getent hosts torsocks | awk ...' is empty, and no error, where the alias
\* is not known.
Resolve(n) ==
  /\ n \in listed /\ Go(n, "resolve", "socks")
  /\ proxy' = [proxy EXCEPT ![n] = IF step["torproxy"] = "run" THEN vip
                                   ELSE "none"]
  /\ UNCHANGED <<hostname, swarm, faults>>

\* What the wait-for-it at this step waits for.
Ready(n) == IF step[n] = "rpc" THEN step["bitcoind"] = "run"
            ELSE Answers(proxy[n])

\* Bug: lightningd is started without waiting for bitcoind.
BugAfterWait(n) == IF step[n] = "socks" THEN "control" ELSE "run"
AfterWait(n) == CASE step[n] = "socks" -> "control"
                  [] step[n] = "control" /\ n = "clightning" -> "rpc"
                  [] OTHER -> "run"

\* Bug: the result of wait-for-it is not looked at.
BugWait(n) ==
  /\ n \in listed /\ step[n] \in Waits /\ Go(n, step[n], AfterWait(n))
  /\ UNCHANGED <<hostname, swarm, proxy, faults>>
Wait(n) ==
  /\ n \in listed /\ step[n] \in Waits /\ Ready(n)
  /\ Go(n, step[n], AfterWait(n))
  /\ UNCHANGED <<hostname, swarm, proxy, faults>>

\* Bug: a wait without a timeout, for the address once looked up.
BugTimeOut(n) ==
  /\ n \in listed /\ step[n] = "rpc" /\ ~Ready(n) /\ Go(n, "rpc", "down")
  /\ UNCHANGED <<hostname, swarm, proxy, faults>>
\* 'set -e' ends the entrypoint, and its container.
TimeOut(n) ==
  /\ n \in listed /\ step[n] \in Waits /\ ~Ready(n) /\ Go(n, step[n], "down")
  /\ UNCHANGED <<hostname, swarm, proxy, faults>>

\* lightningd gives up on a bitcoind that does not answer, sooner or later.
GiveUp ==
  /\ step["bitcoind"] # "run" /\ Go("clightning", "run", "down")
  /\ UNCHANGED <<hostname, swarm, proxy, faults>>
-----------------------------------------------------------------------------
Fault == faults < MaxFaults /\ faults' = faults + 1

\* A container dies, or the tier's LXC host restarts under it.
Crash(s) ==
  /\ Fault /\ step[s] # "down" /\ Go(s, step[s], "down")
  /\ UNCHANGED <<hostname, swarm, proxy>>

(* 'docker stack remove' with the stack's full name; a network that other  *)
(* services are attached to is kept.                                       *)
RemoveByHand(s) ==
  /\ Fault /\ s \in listed /\ listed' = listed \ {s}
  /\ nets' = IF \E u \in listed : s \in Needs(u) THEN nets ELSE nets \ {s}
  /\ UNCHANGED <<hostname, vip, step, proxy>>

Entrypoint(n) == Resolve(n) \/ Wait(n) \/ TimeOut(n)
Progress(s) == StartContainer(s) \/ StopContainer(s)
                 \/ (s \in Nodes /\ Entrypoint(s))
Operate == DeployTor \/ DeployBitcoind \/ DeployClightning

Next == Operate \/ GiveUp \/ \E s \in Stacks :
          Progress(s) \/ Crash(s) \/ RemoveByHand(s)

\* The swarm starts what is listed; an entrypoint goes on or times out.
Spec == Init /\ [][Next]_vars /\ \A s \in Stacks : WF_vars(Progress(s))
-----------------------------------------------------------------------------
TypeOK ==
  /\ hostname \in BOOLEAN
  /\ listed \subseteq Stacks /\ nets \subseteq Stacks
  /\ vip \in Addresses \cup {"none"}
  /\ step \in [Stacks -> Steps]
  /\ proxy \in [Nodes -> Addresses \cup {"none"}]
  /\ faults \in 0..MaxFaults

(* No node is ever started on an empty proxy address, whatever was started *)
(* first, and as long as nothing has failed each one is behind a tor that  *)
(* answers.                                                                *)
BehindTor ==
  \A n \in Nodes : step[n] \in {"control", "rpc", "run"} =>
    proxy[n] # "none" /\ (faults = 0 => Answers(proxy[n]))

Quiet == faults = MaxFaults /\ Stacks \subseteq listed

\* A node that is past looking, on an address that is tor's no longer.
Past(n) == step[n] \in {"rpc", "run"} /\ proxy[n] # vip

(* When failures are over, each node comes up behind the tor that runs,    *)
(* and stays, unless it is past looking for one.                           *)
NodesComeUp ==
  \A n \in Nodes : (Quiet /\ ~Past(n)) ~> [](step[n] = "run" /\ Answers(proxy[n]))

(* clightning is started only on a bitcoind that runs.                     *)
ClightningAfterBitcoind ==
  [][(step["clightning"] # "run" /\ step'["clightning"] = "run")
       => step["bitcoind"] = "run"]_vars
=============================================================================
