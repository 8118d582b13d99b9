--------------------------- MODULE NodeTasksProofs ---------------------------
(* Theorems about NodeTasks, for any addresses and any number of faults.   *)
EXTENDS NodeTasks, TLAPS

(* A torproxy that is listed, or still has a container, has an address.    *)
TorOK == ("torproxy" \in listed \/ step["torproxy"] # "down") => vip # "none"

(* Until something fails a torproxy only comes up: DeployTor, which may    *)
(* change its address, comes before its container and before every node    *)
(* that is past waiting for it.                                            *)
FirstOK == faults = 0 /\ "torproxy" \notin listed => step["torproxy"] = "down"

IInv == TypeOK /\ TorOK /\ FirstOK /\ BehindTor

(* In the initial states nothing is listed and nothing runs.               *)
LEMMA NodesInit == Init => IInv
  BY NodeTasksAssumption, SMT DEF Init, IInv, TypeOK, TorOK, FirstOK,
     BehindTor, Stacks, Nodes, Steps, Waits

(* The shape of a step of one container: its entrypoint's place changes.   *)
LEMMA GoType ==
  ASSUME TypeOK, NEW s \in Stacks, NEW from, NEW to \in Steps, Go(s, from, to)
  PROVE  step' \in [Stacks -> Steps] /\ step'[s] = to
           /\ \A u \in Stacks \ {s} : step'[u] = step[u]
  BY SMT DEF Go, TypeOK

(* Every step of the specification preserves the type invariant.           *)
LEMMA NodesType == TypeOK /\ [Next]_vars => TypeOK'
<1> SUFFICES ASSUME TypeOK, [Next]_vars PROVE TypeOK'
  OBVIOUS
<1> USE NodeTasksAssumption
<1>1. CASE UNCHANGED vars
  BY <1>1, SMT DEF TypeOK, vars, swarm
<1>2. CASE DeployTor
  BY <1>2, SMT DEF DeployTor, TypeOK, Stacks, Nodes
<1>3. ASSUME NEW n \in Nodes, Deploy(n) PROVE TypeOK'
  BY <1>3, SMT DEF Deploy, TypeOK, Stacks
<1>4. ASSUME NEW s \in Stacks, StartContainer(s) PROVE TypeOK'
  BY <1>4, GoType, SMT DEF StartContainer, TypeOK, Steps, swarm
<1>5. ASSUME NEW s \in Stacks, StopContainer(s) PROVE TypeOK'
  BY <1>5, GoType, SMT DEF StopContainer, TypeOK, Steps, swarm
<1>6. ASSUME NEW n \in Nodes, Resolve(n) PROVE TypeOK'
  <2>1. step' \in [Stacks -> Steps]
    BY <1>6, GoType, SMT DEF Resolve, Steps, Waits, Stacks
  <2>2. proxy' \in [Nodes -> Addresses \cup {"none"}]
    BY <1>6, SMT DEF Resolve, TypeOK
  <2> QED
    BY <1>6, <2>1, <2>2, SMT DEF Resolve, TypeOK, swarm
<1>7. ASSUME NEW n \in Nodes, Wait(n) PROVE TypeOK'
  BY <1>7, GoType, SMT DEF Wait, TypeOK, AfterWait, Steps, Waits, Stacks, swarm
<1>8. ASSUME NEW n \in Nodes, TimeOut(n) PROVE TypeOK'
  BY <1>8, GoType, SMT DEF TimeOut, TypeOK, Steps, Stacks, swarm
<1>9. CASE GiveUp
  BY <1>9, GoType, SMT DEF GiveUp, TypeOK, Steps, Stacks, Nodes, swarm
<1>10. ASSUME NEW s \in Stacks, Crash(s) PROVE TypeOK'
  BY <1>10, GoType, SMT DEF Crash, Fault, TypeOK, Steps, swarm
<1>11. ASSUME NEW s \in Stacks, RemoveByHand(s) PROVE TypeOK'
  BY <1>11, SMT DEF RemoveByHand, Fault, TypeOK
<1> QED
  BY <1>1, <1>2, <1>3, <1>4, <1>5, <1>6, <1>7, <1>8, <1>9, <1>10, <1>11, Zenon
     DEF Next, Operate, Progress, Entrypoint, DeployBitcoind,
         DeployClightning, Nodes

(* What BehindTor says of one node, and what it needs of its step: a node  *)
(* gets past a wait only by an answer at the address it looked up.         *)
LEMMA NodesStep == IInv /\ [Next]_vars => (TorOK /\ FirstOK /\ BehindTor)'
<1> SUFFICES ASSUME IInv, [Next]_vars PROVE (TorOK /\ FirstOK /\ BehindTor)'
  OBVIOUS
<1> USE NodeTasksAssumption
<1>t. TypeOK
  BY DEF IInv
<1>n. "torproxy" \in Stacks /\ "torproxy" \notin Nodes /\ Nodes \subseteq Stacks
  BY SMT DEF Stacks, Nodes
<1>1. CASE UNCHANGED vars
  BY <1>1, SMT DEF IInv, TorOK, FirstOK, BehindTor, Answers, vars, swarm
<1>2. CASE DeployTor
  BY <1>2, SMT DEF DeployTor, IInv, TypeOK, TorOK, FirstOK, BehindTor, Answers
<1>3. ASSUME NEW n \in Nodes, Deploy(n) PROVE (TorOK /\ FirstOK /\ BehindTor)'
  BY <1>3, <1>n, SMT DEF Deploy, IInv, TorOK, FirstOK, BehindTor, Answers
<1>4. ASSUME NEW s \in Stacks, StartContainer(s)
      PROVE  (TorOK /\ FirstOK /\ BehindTor)'
  <2> DEFINE to == IF s \in Nodes THEN "resolve" ELSE "run"
  <2>1. /\ to \in Steps /\ Go(s, "down", to)
    BY <1>4, SMT DEF StartContainer, Steps
  <2>2. /\ step'[s] = to /\ \A u \in Stacks \ {s} : step'[u] = step[u]
    BY <2>1, <1>t, GoType
  <2>3. step[s] = "down"
    BY <2>1 DEF Go
  <2> QED
    BY <1>4, <1>n, <2>2, <2>3, SMT
       DEF StartContainer, IInv, TorOK, FirstOK, BehindTor, Answers, swarm
<1>5. ASSUME NEW s \in Stacks, StopContainer(s)
      PROVE  (TorOK /\ FirstOK /\ BehindTor)'
  <2>1. /\ step'[s] = "down" /\ \A u \in Stacks \ {s} : step'[u] = step[u]
    BY <1>5, <1>t, GoType, SMT DEF StopContainer, Steps
  <2> QED
    BY <1>5, <1>n, <2>1, SMT
       DEF StopContainer, IInv, TorOK, FirstOK, BehindTor, Answers, swarm
<1>6. ASSUME NEW n \in Nodes, Resolve(n) PROVE (TorOK /\ FirstOK /\ BehindTor)'
  <2>1. /\ step'[n] = "socks" /\ \A u \in Stacks \ {n} : step'[u] = step[u]
    BY <1>6, <1>t, <1>n, GoType, SMT DEF Resolve, Steps, Waits
  <2>2. \A u \in Nodes \ {n} : proxy'[u] = proxy[u]
    BY <1>6, <1>t, SMT DEF Resolve, TypeOK
  <2> QED
    BY <1>6, <1>n, <2>1, <2>2, SMT
       DEF Resolve, IInv, TorOK, FirstOK, BehindTor, Answers, swarm
<1>7. ASSUME NEW n \in Nodes, Wait(n) PROVE (TorOK /\ FirstOK /\ BehindTor)'
  <2>1. \A u \in Stacks \ {n} : step'[u] = step[u]
    BY <1>7, <1>t, <1>n, GoType, SMT DEF Wait, AfterWait, Steps, Waits
  <2>2. proxy[n] # "none" /\ (faults = 0 => Answers(proxy[n]))
    BY <1>7, <1>n, SMT DEF Wait, Ready, Answers, Waits, IInv, TorOK, BehindTor
  <2> QED
    BY <1>7, <1>n, <2>1, <2>2, SMT
       DEF Wait, IInv, TorOK, FirstOK, BehindTor, Answers, swarm
<1>8. ASSUME NEW n \in Nodes, TimeOut(n) PROVE (TorOK /\ FirstOK /\ BehindTor)'
  <2>1. /\ step'[n] = "down" /\ \A u \in Stacks \ {n} : step'[u] = step[u]
    BY <1>8, <1>t, <1>n, GoType, SMT DEF TimeOut, Steps
  <2> QED
    BY <1>8, <1>n, <2>1, SMT
       DEF TimeOut, IInv, TorOK, FirstOK, BehindTor, Answers, swarm
<1>9. CASE GiveUp
  <2>1. /\ step'["clightning"] = "down"
        /\ \A u \in Stacks \ {"clightning"} : step'[u] = step[u]
    BY <1>9, <1>t, GoType, SMT DEF GiveUp, Steps, Stacks, Nodes
  <2> QED
    BY <1>9, <1>n, <2>1, SMT
       DEF GiveUp, IInv, TorOK, FirstOK, BehindTor, Answers, swarm, Nodes
<1>10. ASSUME NEW s \in Stacks, Crash(s)
       PROVE  (TorOK /\ FirstOK /\ BehindTor)'
  <2>1. /\ step'[s] = "down" /\ \A u \in Stacks \ {s} : step'[u] = step[u]
    BY <1>10, <1>t, GoType, SMT DEF Crash, Steps
  <2>2. faults' # 0
    BY <1>10, <1>t, SMT DEF Crash, Fault, TypeOK
  <2> QED
    BY <1>10, <1>n, <2>1, <2>2, SMT
       DEF Crash, IInv, TorOK, FirstOK, BehindTor, Answers, swarm
<1>11. ASSUME NEW s \in Stacks, RemoveByHand(s)
       PROVE  (TorOK /\ FirstOK /\ BehindTor)'
  <2>1. faults' # 0
    BY <1>11, <1>t, SMT DEF RemoveByHand, Fault, TypeOK
  <2> QED
    BY <1>11, <1>n, <2>1, SMT
       DEF RemoveByHand, IInv, TorOK, FirstOK, BehindTor, Answers
<1> QED
  BY <1>1, <1>2, <1>3, <1>4, <1>5, <1>6, <1>7, <1>8, <1>9, <1>10, <1>11, Zenon
     DEF Next, Operate, Progress, Entrypoint, DeployBitcoind,
         DeployClightning, Nodes

(* The inductive invariant holds in every reachable state.                 *)
LEMMA NodesInductive == Spec => []IInv
<1>1. IInv /\ [Next]_vars => IInv'
  BY NodesType, NodesStep DEF IInv
<1> QED
  BY <1>1, NodesInit, PTL DEF Spec

(* The state of the tier's containers and their addresses is well typed.   *)
THEOREM NodesTypeOK == Spec => []TypeOK
  BY NodesInductive, PTL DEF IInv

(* For any addresses and any number of faults, no node's daemon is started *)
(* without a proxy address, and before the first fault none without a tor  *)
(* that answers there.                                                     *)
THEOREM NodesBehindTor == Spec => []BehindTor
  BY NodesInductive, PTL DEF IInv

(* The steps that start lightningd find bitcoind running.                  *)
THEOREM ClightningWaits == Spec => ClightningAfterBitcoind
<1> DEFINE A == (step["clightning"] # "run" /\ step'["clightning"] = "run")
                   => step["bitcoind"] = "run"
<1>1. TypeOK /\ [Next]_vars => [A]_vars
  <2> SUFFICES ASSUME TypeOK, Next, step["clightning"] # "run",
                      step'["clightning"] = "run"
               PROVE  step["bitcoind"] = "run"
    BY DEF A
  <2>1. \A s \in Stacks : \A from, to :
          Go(s, from, to) => s = "clightning" /\ to = "run" /\ step[s] = from
    BY SMT DEF Go, TypeOK, Stacks, Nodes
  <2>2. Wait("clightning") \/ UNCHANGED step
    BY <2>1, SMT DEF Next, Operate, Progress, Entrypoint, DeployTor,
       DeployBitcoind, DeployClightning, Deploy, StartContainer,
       StopContainer, Resolve, TimeOut, GiveUp, Crash, RemoveByHand,
       Stacks, Nodes, Wait
  <2>3. Wait("clightning")
    BY <2>2
  <2>4. AfterWait("clightning") = "run"
    BY <2>1, <2>3, SMT DEF Wait, Stacks, Nodes
  <2> QED
    BY <2>3, <2>4, SMT DEF Wait, AfterWait, Ready, Waits
<1>2. Spec => []TypeOK
  BY NodesTypeOK
<1> QED
  BY <1>1, <1>2, PTL DEF Spec, ClightningAfterBitcoind
=============================================================================
