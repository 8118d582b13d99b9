----------------------------- MODULE SearchProofs ---------------------------
(* Theorems about ZeroFrame and Search, for any number of commands, pings, *)
(* patches and searches.                                                   *)
EXTENDS Search, TLAPS

ToWrapper == [cmd : {"innerReady", "command", "response"}, id : Nat]
ToPage == [cmd : {"wrapperReady", "ping", "response"}, to : Nat, result : Results]

(* What the channel's state is made of.                                    *)
ChannelOK ==
  /\ nextId \in Nat
  /\ waiting \subseteq Nat \X {"code", "key"}
  /\ heard \subseteq Nat \X Results
  /\ gave \subseteq Nat \X Results
  /\ owes \subseteq Nat
  /\ toWrapper \in Seq(ToWrapper)
  /\ toPage \in Seq(ToPage)

(* Numbers are given out one after the other: those of commands on their   *)
(* way, owed or answered are used up, ...                                  *)
IdsUsed ==
  /\ ~listening => nextId = NoId /\ waiting = {}
  /\ \A w \in waiting : w[1] < nextId
  /\ \A i \in 1 .. Len(toWrapper) :
       toWrapper[i].cmd = "command" => toWrapper[i].id < nextId
  /\ \A id \in owes : id < nextId
  /\ \A g \in gave : g[1] < nextId

(* ... and a number is in one of these places only, and there once.        *)
IdsApart ==
  /\ \A i, j \in 1 .. Len(toWrapper) :
       toWrapper[i].cmd = "command" /\ toWrapper[j].cmd = "command" /\ i # j
         => toWrapper[i].id # toWrapper[j].id
  /\ \A i \in 1 .. Len(toWrapper) :
       toWrapper[i].cmd = "command" =>
         /\ toWrapper[i].id \notin owes
         /\ \A g \in gave : g[1] # toWrapper[i].id
  /\ \A id \in owes, g \in gave : g[1] # id
  /\ \A g, h \in gave : g[1] = h[1] => g = h

(* What the page is told was answered.                                     *)
AnswersGiven ==
  \A i \in 1 .. Len(toPage) :
    toPage[i].cmd = "response" => <<toPage[i].to, toPage[i].result>> \in gave

IInv == ChannelOK /\ IdsUsed /\ IdsApart /\ AnswersGiven /\ SettledByItsAnswer

(* Appending to a queue and taking its head, element by element.           *)
LEMMA Appended ==
  ASSUME NEW S, NEW q \in Seq(S), NEW m \in S
  PROVE  /\ Append(q, m) \in Seq(S)
         /\ Len(Append(q, m)) = Len(q) + 1
         /\ \A i \in 1 .. Len(q) : Append(q, m)[i] = q[i]
         /\ Append(q, m)[Len(q) + 1] = m
  BY SMT

(* Taking the head of a queue moves the others down by one.                *)
LEMMA Taken ==
  ASSUME NEW S, NEW q \in Seq(S), q # <<>>
  PROVE  /\ Len(q) \in Nat /\ Len(q) > 0
         /\ Head(q) = q[1] /\ Head(q) \in S
         /\ Tail(q) \in Seq(S)
         /\ Len(Tail(q)) = Len(q) - 1
         /\ \A i \in 1 .. Len(q) - 1 : Tail(q)[i] = q[i + 1]
  BY SMT

(* The elements of a queue are what it is a queue of.                      *)
LEMMA Elements ==
  ASSUME NEW S, NEW q \in Seq(S) PROVE Len(q) \in Nat /\ \A i \in 1 .. Len(q) : q[i] \in S
  BY SMT

(* At first nothing is asked, and nothing on its way.                      *)
LEMMA ChannelInit == Init => IInv
<1> SUFFICES ASSUME Init PROVE IInv
  OBVIOUS
<1>1. /\ listening = FALSE /\ nextId = 0 /\ waiting = {} /\ heard = {}
      /\ gave = {} /\ owes = {} /\ toWrapper = <<>> /\ toPage = <<>>
  BY Zenon DEF Init, FrameInit, NoId
<1>2. ChannelOK
  <2>1. /\ nextId \in Nat /\ waiting \subseteq Nat \X {"code", "key"}
        /\ heard \subseteq Nat \X Results /\ gave \subseteq Nat \X Results
        /\ owes \subseteq Nat
    BY <1>1, SMT
  <2>2. toWrapper \in Seq(ToWrapper) /\ toPage \in Seq(ToPage)
    BY <1>1, SMT
  <2> QED
    BY <2>1, <2>2, Zenon DEF ChannelOK
<1>3. IdsUsed
  BY <1>1, SMT DEF IdsUsed, NoId
<1>4. IdsApart
  BY <1>1, SMT DEF IdsApart
<1>5. AnswersGiven
  BY <1>1, SMT DEF AnswersGiven
<1>6. SettledByItsAnswer
  BY <1>1, Zenon DEF SettledByItsAnswer
<1> QED
  BY <1>2, <1>3, <1>4, <1>5, <1>6, Zenon DEF IInv

(* Taking the oldest message leaves only answers that were given.          *)
LEMMA TakenAnswers ==
  ASSUME IInv, toPage # <<>>, toPage' = Tail(toPage), gave' = gave
  PROVE  toPage' \in Seq(ToPage) /\ AnswersGiven'
<1>1. /\ Len(toPage) \in Nat /\ Tail(toPage) \in Seq(ToPage)
      /\ Len(Tail(toPage)) = Len(toPage) - 1
      /\ \A i \in 1 .. Len(toPage) - 1 : Tail(toPage)[i] = toPage[i + 1]
  BY Taken, SMT DEF IInv, ChannelOK
<1>2. \A i \in 1 .. Len(toPage') : i + 1 \in 1 .. Len(toPage) /\ toPage'[i] = toPage[i + 1]
  BY <1>1, SMT
<1> QED
  BY <1>1, <1>2, Zenon DEF IInv, AnswersGiven

(* So does taking the oldest message to the wrapper: the rest keep apart.  *)
LEMMA TakenCommands ==
  ASSUME IInv, toWrapper # <<>>, toWrapper' = Tail(toWrapper),
         UNCHANGED <<nextId, gave>>, NEW taken, owes' = owes \/ owes' = owes \cup {taken},
         owes' # owes => Head(toWrapper).cmd = "command" /\ taken = Head(toWrapper).id
  PROVE  /\ toWrapper' \in Seq(ToWrapper) /\ IdsApart'
         /\ owes' \subseteq Nat /\ \A id \in owes' : id < nextId
         /\ \A i \in 1 .. Len(toWrapper') :
              toWrapper'[i].cmd = "command" => toWrapper'[i].id < nextId
<1>1. /\ Len(toWrapper) \in Nat /\ Len(toWrapper) > 0
      /\ Head(toWrapper) = toWrapper[1] /\ Head(toWrapper) \in ToWrapper
      /\ Tail(toWrapper) \in Seq(ToWrapper)
      /\ Len(Tail(toWrapper)) = Len(toWrapper) - 1
      /\ \A i \in 1 .. Len(toWrapper) - 1 : Tail(toWrapper)[i] = toWrapper[i + 1]
  BY Taken, SMT DEF IInv, ChannelOK
<1>2. \A i \in 1 .. Len(toWrapper') :
        i + 1 \in 1 .. Len(toWrapper) /\ i + 1 # 1 /\ toWrapper'[i] = toWrapper[i + 1]
  BY <1>1, SMT
<1>3. 1 \in 1 .. Len(toWrapper) /\ toWrapper[1].id \in Nat
  BY <1>1, SMT DEF ToWrapper
<1>4. \A i, j \in 1 .. Len(toWrapper') : i # j => i + 1 # j + 1
  BY SMT
<1>5. owes' # owes => /\ taken = toWrapper[1].id /\ toWrapper[1].cmd = "command"
                      /\ taken < nextId /\ taken \in Nat
  BY <1>1, <1>3, Zenon DEF IInv, IdsUsed
<1>6. (\A i, j \in 1 .. Len(toWrapper) :
         toWrapper[i].cmd = "command" /\ toWrapper[j].cmd = "command" /\ i # j
           => toWrapper[i].id # toWrapper[j].id)'
  <2> SUFFICES ASSUME NEW i \in 1 .. Len(toWrapper'), NEW j \in 1 .. Len(toWrapper'), i # j,
                      toWrapper'[i].cmd = "command", toWrapper'[j].cmd = "command"
               PROVE  toWrapper'[i].id # toWrapper'[j].id
    BY Zenon
  <2>1. /\ i + 1 \in 1 .. Len(toWrapper) /\ toWrapper'[i] = toWrapper[i + 1]
        /\ j + 1 \in 1 .. Len(toWrapper) /\ toWrapper'[j] = toWrapper[j + 1]
        /\ i + 1 # j + 1
    BY <1>2, <1>4
  <2>2. toWrapper[i + 1].cmd = "command" /\ toWrapper[j + 1].cmd = "command"
    BY <2>1, Zenon
  <2>3. toWrapper[i + 1].id # toWrapper[j + 1].id
    BY <2>1, <2>2, Zenon DEF IInv, IdsApart
  <2> QED
    BY <2>1, <2>3, Zenon
<1>7. (\A i \in 1 .. Len(toWrapper) : toWrapper[i].cmd = "command" =>
         toWrapper[i].id \notin owes /\ \A g \in gave : g[1] # toWrapper[i].id)'
  <2> SUFFICES ASSUME NEW i \in 1 .. Len(toWrapper'), toWrapper'[i].cmd = "command"
               PROVE  /\ toWrapper'[i].id \notin owes'
                      /\ \A g \in gave' : g[1] # toWrapper'[i].id
    BY Zenon
  <2>1. i + 1 \in 1 .. Len(toWrapper) /\ i + 1 # 1 /\ toWrapper'[i] = toWrapper[i + 1]
    BY <1>2
  <2>2. toWrapper[i + 1].cmd = "command"
    BY <2>1, Zenon
  <2>3. /\ toWrapper[i + 1].id \notin owes
        /\ \A g \in gave : g[1] # toWrapper[i + 1].id
    BY <2>1, <2>2, Zenon DEF IInv, IdsApart
  <2>4. toWrapper[1].cmd = "command" => toWrapper[1].id # toWrapper[i + 1].id
    BY <1>3, <2>1, <2>2, Zenon DEF IInv, IdsApart
  <2> QED
    BY <1>5, <2>1, <2>3, <2>4, Zenon
<1>8. (\A id \in owes, g \in gave : g[1] # id)'
  BY <1>3, <1>5, Zenon DEF IInv, IdsApart
<1>9. IdsApart'
  BY <1>6, <1>7, <1>8, Zenon DEF IInv, IdsApart
<1>10. owes' \subseteq Nat /\ \A id \in owes' : id < nextId
  BY <1>5, Zenon DEF IInv, ChannelOK, IdsUsed
<1> QED
  BY <1>1, <1>2, <1>9, <1>10, Zenon DEF IInv, IdsUsed

(* A message to the wrapper: a command uses up the next number, which the  *)
(* page may from then on be waiting for.                                   *)
LEMMA SentKeeps ==
  ASSUME IInv, NEW m \in ToWrapper, toWrapper' = Append(toWrapper, m),
         m.cmd = "command" => m.id = nextId,
         nextId' \in Nat, nextId' = nextId + 1 \/ (m.cmd # "command" /\ nextId' > nextId),
         waiting' \subseteq waiting \cup {<<nextId, "code">>, <<nextId, "key">>},
         listening', UNCHANGED <<heard, owes, gave>>,
         toPage' = toPage \/ (toPage # <<>> /\ toPage' = Tail(toPage))
  PROVE  IInv'
<1>1. /\ toWrapper' \in Seq(ToWrapper)
      /\ Len(toWrapper) \in Nat /\ Len(toWrapper') = Len(toWrapper) + 1
      /\ \A i \in 1 .. Len(toWrapper) : toWrapper'[i] = toWrapper[i]
      /\ toWrapper'[Len(toWrapper) + 1] = m
  BY Appended, SMT DEF IInv, ChannelOK
<1>2. ChannelOK'
  <2>1. toPage' \in Seq(ToPage)
    BY TakenAnswers, Zenon DEF IInv, ChannelOK
  <2>2. waiting' \subseteq Nat \X {"code", "key"}
    BY SMT DEF IInv, ChannelOK
  <2> QED
    BY <1>1, <2>1, <2>2, Zenon DEF IInv, ChannelOK
<1>3. IdsUsed'
  <2>1. (\A i \in 1 .. Len(toWrapper) : toWrapper[i].cmd = "command" => toWrapper[i].id < nextId)'
    <3> SUFFICES ASSUME NEW i \in 1 .. Len(toWrapper'), toWrapper'[i].cmd = "command"
                 PROVE  toWrapper'[i].id < nextId'
      BY Zenon
    <3>1. CASE i \in 1 .. Len(toWrapper)
      <4>1. toWrapper'[i] = toWrapper[i] /\ toWrapper[i].id < nextId
        BY <1>1, <3>1, Zenon DEF IInv, IdsUsed
      <4>2. toWrapper[i].id \in Nat /\ nextId \in Nat
        <5>1. toWrapper[i] \in ToWrapper /\ nextId \in Nat
          BY <3>1, Elements, Zenon DEF IInv, ChannelOK
        <5> QED
          BY <5>1, Zenon DEF ToWrapper
      <4> QED
        BY <4>1, <4>2, SMT
    <3>2. CASE i = Len(toWrapper) + 1
      BY <1>1, <3>2, SMT DEF IInv, ChannelOK
    <3> QED
      BY <1>1, <3>1, <3>2, SMT
  <2>2. (\A w \in waiting : w[1] < nextId)'
    BY SMT DEF IInv, IdsUsed, ChannelOK
  <2>3. (\A id \in owes : id < nextId)' /\ (\A g \in gave : g[1] < nextId)'
    BY SMT DEF IInv, IdsUsed, ChannelOK
  <2> QED
    BY <2>1, <2>2, <2>3, Zenon DEF IdsUsed
<1>4. IdsApart'
  <2>1. \A i \in 1 .. Len(toWrapper') : toWrapper'[i].cmd = "command" =>
          \/ i \in 1 .. Len(toWrapper) /\ toWrapper'[i] = toWrapper[i]
          \/ i = Len(toWrapper) + 1 /\ toWrapper'[i].id = nextId
    BY <1>1, SMT
  <2>2. \A i \in 1 .. Len(toWrapper) : toWrapper[i].cmd = "command" => toWrapper[i].id # nextId
    BY SMT DEF IInv, IdsUsed, ChannelOK
  <2>3. nextId \notin owes /\ \A g \in gave : g[1] # nextId
    BY SMT DEF IInv, IdsUsed, ChannelOK
  <2>4. (\A i, j \in 1 .. Len(toWrapper) :
           toWrapper[i].cmd = "command" /\ toWrapper[j].cmd = "command" /\ i # j
             => toWrapper[i].id # toWrapper[j].id)'
    BY <2>1, <2>2, SMT DEF IInv, IdsApart
  <2>5. (\A i \in 1 .. Len(toWrapper) : toWrapper[i].cmd = "command" =>
           toWrapper[i].id \notin owes /\ \A g \in gave : g[1] # toWrapper[i].id)'
    BY <2>1, <2>3, Zenon DEF IInv, IdsApart
  <2> QED
    BY <2>4, <2>5, Zenon DEF IInv, IdsApart
<1>5. AnswersGiven'
  <2>1. CASE toPage' = toPage
    BY <2>1, Zenon DEF IInv, AnswersGiven
  <2>2. CASE toPage # <<>> /\ toPage' = Tail(toPage)
    BY <2>2, TakenAnswers
  <2> QED
    BY <2>1, <2>2
<1>6. SettledByItsAnswer'
  <2>1. \A h \in heard : h[1] # nextId
    BY SMT DEF IInv, IdsUsed, ChannelOK, SettledByItsAnswer
  <2> QED
    BY <2>1, SMT DEF IInv, SettledByItsAnswer
<1> QED
  BY <1>2, <1>3, <1>4, <1>5, <1>6, Zenon DEF IInv

(* The page opens the channel.                                             *)
LEMMA ConstructKeeps == ASSUME IInv, Construct PROVE IInv'
<1> DEFINE m == [cmd |-> "innerReady", id |-> NoId]
<1>1. m \in ToWrapper /\ m.cmd # "command"
  BY SMT DEF ToWrapper, NoId
<1>2. /\ toWrapper' = Append(toWrapper, m) /\ nextId' = 1 /\ listening'
      /\ UNCHANGED <<waiting, heard, owes, gave, toPage>>
  BY Zenon DEF Construct, wrapperVars
<1>3. nextId = 0
  BY Zenon DEF Construct, IInv, IdsUsed, NoId
<1> QED
  BY <1>1, <1>2, <1>3, SentKeeps, SMT

(* A command takes an id that no message had before.                       *)
LEMMA CommandKeeps == ASSUME IInv, NEW callback \in BOOLEAN, Command(callback) PROVE IInv'
<1> DEFINE m == [cmd |-> "command", id |-> nextId]
<1>1. m \in ToWrapper /\ m.id = nextId /\ nextId \in Nat
  BY SMT DEF ToWrapper, IInv, ChannelOK
<1>2. /\ toWrapper' = Append(toWrapper, m) /\ nextId' = nextId + 1 /\ listening'
      /\ waiting' \subseteq waiting \cup {<<nextId, "code">>, <<nextId, "key">>}
      /\ UNCHANGED <<heard, owes, gave, toPage>>
  BY Zenon DEF Command, Send, wrapperVars
<1> QED
  BY <1>1, <1>2, SentKeeps, SMT

(* So does the command that asks for the key of ajax calls.                *)
LEMMA PatchKeeps == ASSUME IInv, MonkeyPatchAjax PROVE IInv'
<1> DEFINE m == [cmd |-> "command", id |-> nextId]
<1>1. m \in ToWrapper /\ m.id = nextId /\ nextId \in Nat
  BY SMT DEF ToWrapper, IInv, ChannelOK
<1>2. /\ toWrapper' = Append(toWrapper, m) /\ nextId' = nextId + 1 /\ listening'
      /\ waiting' \subseteq waiting \cup {<<nextId, "code">>, <<nextId, "key">>}
      /\ UNCHANGED <<heard, owes, gave, toPage>>
  BY Zenon DEF MonkeyPatchAjax, Send, wrapperVars
<1> QED
  BY <1>1, <1>2, SentKeeps, SMT

(* The page replies to a message that is no response.                      *)
LEMMA ReplyKeeps ==
  ASSUME IInv, OnMessage, Head(toPage).cmd # "response" PROVE IInv'
<1> DEFINE m == [cmd |-> IF Head(toPage).cmd = "ping" THEN "response" ELSE "innerReady",
                 id |-> nextId]
<1>1. m \in ToWrapper /\ m.cmd # "command" /\ nextId \in Nat
  BY SMT DEF ToWrapper, IInv, ChannelOK
<1>2. /\ toWrapper' = Append(toWrapper, m) /\ nextId' = nextId + 1 /\ listening'
      /\ toPage # <<>> /\ toPage' = Tail(toPage)
      /\ UNCHANGED <<waiting, heard, owes, gave>>
  BY Zenon DEF OnMessage, Reply, Send, wrapperVars
<1> QED
  BY <1>1, <1>2, SentKeeps, SMT

(* A response settles the callback that waits under its id, if one does.   *)
LEMMA ResponseKeeps ==
  ASSUME IInv, OnMessage, Head(toPage).cmd = "response" PROVE IInv'
<1> DEFINE m == Head(toPage)
<1>1. /\ toPage # <<>> /\ toPage' = Tail(toPage)
      /\ heard' = heard \cup {<<m.to, m.result>> : w \in {v \in waiting : v[1] = m.to}}
      /\ waiting' = {v \in waiting : v[1] # m.to}
      /\ UNCHANGED <<listening, nextId, gave, owes, toWrapper>>
  BY Zenon DEF OnMessage, Response, wrapperVars
<1>2. listening
  BY Zenon DEF OnMessage
<1>3. toPage \in Seq(ToPage) /\ m \in ToPage /\ <<m.to, m.result>> \in gave
  BY <1>1, Taken, SMT DEF IInv, ChannelOK, AnswersGiven
<1>4. /\ heard' \subseteq heard \cup {<<m.to, m.result>>}
      /\ \A h \in heard' \ heard : h = <<m.to, m.result>>
  BY <1>1, Zenon
<1>5. ChannelOK'
  BY <1>1, <1>2, <1>3, <1>4, Taken, SMT DEF IInv, ChannelOK, ToPage
<1>6. IdsUsed' /\ IdsApart'
  BY <1>1, <1>2, SMT DEF IInv, IdsUsed, IdsApart
<1>7. AnswersGiven'
  BY <1>1, <1>3, Taken, SMT DEF IInv, AnswersGiven
<1>8. SettledByItsAnswer'
  <2>1. (heard \subseteq gave)'
    BY <1>1, <1>3, <1>4, Zenon DEF IInv, SettledByItsAnswer
  <2>2. (\A h, g \in heard : h[1] = g[1] => h = g)'
    BY <2>1, <1>1, Zenon DEF IInv, IdsApart
  <2>3. (\A w \in waiting, h \in heard : w[1] # h[1])'
    BY <1>1, <1>3, <1>4, SMT DEF IInv, SettledByItsAnswer
  <2> QED
    BY <2>1, <2>2, <2>3, Zenon DEF SettledByItsAnswer
<1> QED
  BY <1>5, <1>6, <1>7, <1>8, Zenon DEF IInv

(* The wrapper posts something that is not an answer.                      *)
LEMMA PostKeeps ==
  ASSUME IInv, NEW m \in ToPage, m.cmd # "response", Posts(m),
         UNCHANGED <<pageVars, owes, gave, toWrapper>>
  PROVE  IInv'
<1>1. /\ UNCHANGED <<listening, nextId, waiting, heard, owes, gave, toWrapper>>
      /\ toPage' = Append(toPage, m)
  BY Zenon DEF pageVars, Posts
<1> QED
  BY <1>1, Appended, SMT DEF IInv, ChannelOK, IdsUsed, IdsApart, AnswersGiven,
     SettledByItsAnswer

(* The wrapper answers what it owes, once.                                 *)
LEMMA AnswerKeeps ==
  ASSUME IInv, NEW id \in owes, NEW result \in Results, Answer(id, result)
  PROVE  IInv'
<1> DEFINE m == [cmd |-> "response", to |-> id, result |-> result]
<1>1. /\ UNCHANGED <<listening, nextId, waiting, heard, toWrapper>>
      /\ owes' = owes \ {id}
      /\ gave' = gave \cup {<<id, result>>}
      /\ toPage' = Append(toPage, m)
  BY Zenon DEF Answer, Posts, pageVars
<1>2. m \in ToPage /\ id \in Nat /\ id < nextId
  BY SMT DEF ToPage, IInv, ChannelOK, IdsUsed
<1>3. /\ toPage' \in Seq(ToPage) /\ Len(toPage) \in Nat
      /\ Len(toPage') = Len(toPage) + 1
      /\ \A i \in 1 .. Len(toPage) : toPage'[i] = toPage[i]
      /\ toPage'[Len(toPage) + 1] = m
  BY <1>1, <1>2, Appended, SMT DEF IInv, ChannelOK
<1>4. ChannelOK'
  BY <1>1, <1>2, <1>3, SMT DEF IInv, ChannelOK
<1>5. IdsUsed'
  BY <1>1, <1>2, SMT DEF IInv, IdsUsed
<1>6. IdsApart'
  BY <1>1, <1>2, SMT DEF IInv, IdsApart
<1>7. AnswersGiven'
  <2>1. \A i \in 1 .. Len(toPage') : toPage'[i] = m \/ (i \in 1 .. Len(toPage) /\ toPage'[i] = toPage[i])
    BY <1>3, SMT
  <2>2. m.to = id /\ m.result = result
    OBVIOUS
  <2> QED
    BY <1>1, <2>1, <2>2, Zenon DEF IInv, AnswersGiven
<1>8. SettledByItsAnswer'
  BY <1>1, Zenon DEF IInv, SettledByItsAnswer
<1> QED
  BY <1>4, <1>5, <1>6, <1>7, <1>8, Zenon DEF IInv

(* The wrapper hears a message, or it is lost before the wrapper is up.    *)
LEMMA HearsKeeps == ASSUME IInv, WrapperHears \/ LostToWrapper PROVE IInv'
<1>1. /\ UNCHANGED <<listening, nextId, waiting, heard, gave, toPage>>
      /\ toWrapper # <<>> /\ toWrapper' = Tail(toWrapper)
      /\ \/ owes' = owes
         \/ Head(toWrapper).cmd = "command" /\ owes' = owes \cup {Head(toWrapper).id}
  BY Zenon DEF WrapperHears, LostToWrapper, pageVars, wrapperVars
<1>2. PICK taken : /\ owes' = owes \/ owes' = owes \cup {taken}
                   /\ owes' # owes => Head(toWrapper).cmd = "command" /\ taken = Head(toWrapper).id
  BY <1>1, Zenon
<1>3. /\ toWrapper' \in Seq(ToWrapper) /\ IdsApart'
      /\ owes' \subseteq Nat /\ \A id \in owes' : id < nextId
      /\ \A i \in 1 .. Len(toWrapper') :
           toWrapper'[i].cmd = "command" => toWrapper'[i].id < nextId
  BY <1>1, <1>2, TakenCommands, Zenon
<1> QED
  BY <1>1, <1>3, Zenon DEF IInv, ChannelOK, IdsUsed, AnswersGiven, SettledByItsAnswer

(* A message to a page that does not listen yet is lost.                   *)
LEMMA LostKeeps == ASSUME IInv, LostToPage PROVE IInv'
<1>1. /\ UNCHANGED <<listening, nextId, waiting, heard, gave, owes, toWrapper>>
      /\ toPage # <<>> /\ toPage' = Tail(toPage)
  BY Zenon DEF LostToPage, pageVars, wrapperVars
<1>2. toPage' \in Seq(ToPage) /\ AnswersGiven'
  BY <1>1, TakenAnswers, Zenon
<1> QED
  BY <1>1, <1>2, Zenon DEF IInv, ChannelOK, IdsUsed, IdsApart, SettledByItsAnswer

(* What does not touch the channel keeps its invariant.                    *)
LEMMA UnchangedKeeps == ASSUME IInv, UNCHANGED frameVars PROVE IInv'
<1>1. UNCHANGED <<listening, nextId, waiting, heard, owes, gave, toWrapper, toPage>>
  BY Zenon DEF frameVars, pageVars, wrapperVars
<1> QED
  BY <1>1, Zenon DEF IInv, ChannelOK, IdsUsed, IdsApart, AnswersGiven, SettledByItsAnswer

(* Every step of the site keeps the channel in order.                      *)
LEMMA ChannelKeeps == IInv /\ [Next]_vars => IInv'
<1> SUFFICES ASSUME IInv, [Next]_vars PROVE IInv'
  OBVIOUS
<1>1. CASE UNCHANGED vars \/ Site
  <2>1. UNCHANGED frameVars
    BY <1>1, Zenon DEF vars, Site, Load, Arrives, Fails, Submit
  <2> QED
    BY <2>1, UnchangedKeeps
<1>2. CASE PageCode
  BY <1>2, ConstructKeeps, CommandKeeps, PatchKeeps, Zenon DEF PageCode
<1>3. CASE Wrapper
  <2>1. CASE WrapperUp
    <3> DEFINE m == [cmd |-> "wrapperReady", to |-> NoId, result |-> "ok"]
    <3>1. m \in ToPage /\ m.cmd # "response"
      BY SMT DEF ToPage, NoId, Results
    <3>2. Posts(m) /\ UNCHANGED <<pageVars, owes, gave, toWrapper>>
      BY <2>1, Zenon DEF WrapperUp
    <3> QED
      BY <3>1, <3>2, PostKeeps
  <2>2. CASE Ping
    <3> DEFINE m == [cmd |-> "ping", to |-> NoId, result |-> "ok"]
    <3>1. m \in ToPage /\ m.cmd # "response"
      BY SMT DEF ToPage, NoId, Results
    <3>2. Posts(m) /\ UNCHANGED <<pageVars, owes, gave, toWrapper>>
      BY <2>2, Zenon DEF Ping
    <3> QED
      BY <3>1, <3>2, PostKeeps
  <2>3. CASE WrapperHears
    BY <2>3, HearsKeeps
  <2>4. CASE Answers
    BY <2>4, AnswerKeeps, Zenon DEF Answers
  <2> QED
    BY <1>3, <2>1, <2>2, <2>3, <2>4, Zenon DEF Wrapper
<1>4. CASE Delivery
  <2>1. CASE OnMessage
    BY <2>1, ResponseKeeps, ReplyKeeps, Zenon
  <2> QED
    BY <1>4, <2>1, HearsKeeps, LostKeeps, Zenon DEF Delivery
<1> QED
  BY <1>1, <1>2, <1>3, <1>4, Zenon DEF Next, Frame

(* However answers come, a callback is run at most once, with the answer   *)
(* to its own command, and is not kept (onMessage of ZeroFrame.js).        *)
THEOREM AnswersSettle == Spec => []SettledByItsAnswer
<1>1. IInv => SettledByItsAnswer
  BY DEF IInv
<1> QED
  BY ChannelInit, ChannelKeeps, <1>1, PTL DEF Spec

-----------------------------------------------------------------------------
(* Which numbers are those of commands for a key, and what has come of     *)
(* them: the key is one that was heard, if any was, and a promise is       *)
(* fulfilled only by one that was.                                         *)
KeyOK ==
  /\ promise \in [Ids -> {"none", "pending", "fulfilled", "rejected"}]
  /\ listening => nextId >= 1
  /\ \A id \in Ids : id >= nextId => promise[id] = "none"
  /\ \A w \in waiting : w[1] \in Ids /\ (w[2] = "key" <=> promise[w[1]] # "none")
  /\ \A h \in heard : h[1] \in Ids
  /\ KeysHeard = {} => ajaxKey = NoKey
  /\ KeysHeard # {} => ajaxKey \in KeysHeard
  /\ \A id \in Ids : promise[id] = "fulfilled" => KeysHeard # {}

(* At first there is no key and nothing was asked for one.                 *)
LEMMA KeyInit == Init => KeyOK
  BY SMT DEF Init, FrameInit, KeyOK, KeysHeard

(* A new command for a key is one nothing was heard of.                    *)
LEMMA KeyAsked == ASSUME IInv, KeyOK, MonkeyPatchAjax PROVE KeyOK'
<1>1. /\ nextId \in Ids /\ nextId' = nextId + 1 /\ nextId \in Nat
      /\ promise' = [promise EXCEPT ![nextId] = "pending"]
      /\ waiting' = waiting \cup {<<nextId, "key">>}
      /\ UNCHANGED <<listening, heard, ajaxKey>>
  BY SMT, ZeroFrameAssumption DEF MonkeyPatchAjax, Send, KeyOK, Ids, IInv, ChannelOK,
     ZeroFrameAssumption
<1>2. \A h \in heard : h[1] # nextId
  BY <1>1, SMT DEF IInv, SettledByItsAnswer, IdsUsed, ChannelOK
<1>3. \A id \in Ids : id # nextId => promise'[id] = promise[id]
  BY <1>1, SMT DEF KeyOK
<1>4. promise'[nextId] = "pending"
  BY <1>1, SMT DEF KeyOK
<1>5. KeysHeard' = KeysHeard
  BY <1>1, <1>2, <1>3, Zenon DEF KeysHeard, KeyOK
<1>6. \A w \in waiting : w[1] # nextId
  BY <1>1, SMT DEF IInv, IdsUsed, ChannelOK
<1>7. (\A w \in waiting : w[1] \in Ids /\ (w[2] = "key" <=> promise[w[1]] # "none"))'
  <2> SUFFICES ASSUME NEW w \in waiting'
               PROVE  w[1] \in Ids /\ (w[2] = "key" <=> promise'[w[1]] # "none")
    BY Zenon
  <2>1. CASE w \in waiting
    BY <1>3, <1>6, <2>1, SMT DEF KeyOK
  <2>2. CASE w = <<nextId, "key">>
    BY <1>1, <1>4, <2>2, SMT
  <2> QED
    BY <1>1, <2>1, <2>2, Zenon
<1>8. (\A id \in Ids : id >= nextId => promise[id] = "none")'
  BY <1>1, <1>3, SMT DEF KeyOK, Ids
<1>9. (\A id \in Ids : promise[id] = "fulfilled" => KeysHeard # {})'
  BY <1>3, <1>4, <1>5, SMT DEF KeyOK
<1>10. /\ promise' \in [Ids -> {"none", "pending", "fulfilled", "rejected"}]
       /\ nextId' >= 1
  BY <1>1, SMT DEF KeyOK, Ids
<1> QED
  BY <1>1, <1>5, <1>7, <1>8, <1>9, <1>10, Zenon DEF KeyOK

(* An answer to such a command is the key, unless it is an error, and it   *)
(* is heard in the step that fulfils the promise.                          *)
LEMMA KeyGiven ==
  ASSUME IInv, KeyOK, OnMessage, Head(toPage).cmd = "response" PROVE KeyOK'
<1> DEFINE m == Head(toPage)
<1>1. /\ heard' = heard \cup {<<m.to, m.result>> : w \in {v \in waiting : v[1] = m.to}}
      /\ ajaxKey' = NewKey(m) /\ promise' = Settled(m)
      /\ waiting' = {v \in waiting : v[1] # m.to}
      /\ UNCHANGED <<listening, nextId>>
  BY Zenon DEF OnMessage, Response, wrapperVars
<1>2. m.to \in Nat /\ m.result \in Results
  <2>1. m \in ToPage
    BY Taken, Zenon DEF OnMessage, IInv, ChannelOK
  <2> QED
    BY <2>1, SMT DEF ToPage
<1>3. waiting \subseteq Nat \X {"code", "key"}
  BY Zenon DEF IInv, ChannelOK
<1> HIDE DEF m
<1>4. CASE AnswersKey(m)
  <2>1. m.to \in Ids /\ promise[m.to] # "none" /\ m.to < nextId
    <3>1. \A w \in waiting : w = <<m.to, "key">> => w[1] = m.to /\ w[2] = "key"
      BY SMT
    <3>2. PICK w \in waiting : w[1] = m.to /\ w[2] = "key"
      BY <1>4, <3>1, Zenon DEF AnswersKey
    <3>3. w[1] \in Ids /\ promise[w[1]] # "none"
      BY <3>2, SMT DEF KeyOK
    <3>4. w[1] < nextId
      BY <3>2, Zenon DEF IInv, IdsUsed
    <3> QED
      BY <3>2, <3>3, <3>4, Zenon
  <2>2. heard' = heard \cup {<<m.to, m.result>>}
    BY <1>1, <1>4, SMT DEF AnswersKey
  <2>3. /\ promise' \in [Ids -> {"none", "pending", "fulfilled", "rejected"}]
        /\ \A id \in Ids : id # m.to => promise'[id] = promise[id]
        /\ promise'[m.to] = IF m.result # "error" THEN "fulfilled" ELSE "rejected"
    BY <1>1, <1>4, <2>1, SMT DEF Settled, Resolves, KeyOK
  <2>4. \A id \in Ids : promise'[id] # "none" <=> promise[id] # "none"
    BY <2>1, <2>3, SMT
  <2>5. KeysHeard' = KeysHeard \cup (IF m.result = "ok" THEN {<<m.to, m.result>>} ELSE {})
    BY <2>1, <2>2, <2>4, SMT DEF KeysHeard, KeyOK
  <2>6. ajaxKey' = IF m.result = "ok" THEN <<m.to, m.result>> ELSE ajaxKey
    BY <1>1, <1>2, <1>4, SMT DEF NewKey, Resolves, Results
  <2>7. (\A w \in waiting : w[1] \in Ids /\ (w[2] = "key" <=> promise[w[1]] # "none"))'
    <3> SUFFICES ASSUME NEW w \in waiting'
                 PROVE  w[1] \in Ids /\ (w[2] = "key" <=> promise'[w[1]] # "none")
      BY Zenon
    <3>1. w \in waiting
      BY <1>1, Zenon
    <3> QED
      BY <2>4, <3>1, SMT DEF KeyOK
  <2>8. (\A id \in Ids : id >= nextId => promise[id] = "none")'
    BY <1>1, <2>1, <2>4, SMT DEF KeyOK
  <2>9. (\A id \in Ids : promise[id] = "fulfilled" => KeysHeard # {})'
    <3>1. m.result # "error" => KeysHeard' # {}
      <4>1. m.result # "error" => m.result = "ok"
        BY <1>2, SMT DEF Results
      <4> QED
        BY <4>1, <2>5, Zenon
    <3>2. KeysHeard # {} => KeysHeard' # {}
      BY <2>5, Zenon
    <3>3. m.result = "error" => promise'[m.to] # "fulfilled"
      BY <2>3, SMT
    <3> QED
      BY <2>3, <3>1, <3>2, <3>3, Zenon DEF KeyOK
  <2>10. (\A h \in heard : h[1] \in Ids)'
    BY <2>1, <2>2, SMT DEF KeyOK
  <2>11. /\ KeysHeard' = {} => ajaxKey' = NoKey
         /\ KeysHeard' # {} => ajaxKey' \in KeysHeard'
    BY <2>5, <2>6, SMT DEF KeyOK
  <2> QED
    BY <1>1, <2>3, <2>7, <2>8, <2>9, <2>10, <2>11, Zenon DEF KeyOK
<1>5. CASE ~AnswersKey(m)
  <2>1. promise' = promise /\ ajaxKey' = ajaxKey
    BY <1>1, <1>5, Zenon DEF Settled, NewKey
  <2>2. \A w \in waiting : w[1] = m.to => m.to \in Ids /\ promise[m.to] = "none"
    <3> SUFFICES ASSUME NEW w \in waiting, w[1] = m.to
                 PROVE  m.to \in Ids /\ promise[m.to] = "none"
      BY Zenon
    <3>1. w = <<m.to, w[2]>>
      BY <1>3, SMT
    <3>2. w[2] # "key"
      BY <1>5, <3>1, Zenon DEF AnswersKey
    <3> QED
      BY <3>2, SMT DEF KeyOK
  <2>3. \A h \in heard' \ heard :
          h = <<m.to, m.result>> /\ m.to \in Ids /\ promise[m.to] = "none"
    BY <1>1, <2>2, Zenon
  <2>4. heard \subseteq heard'
    BY <1>1, Zenon
  <2>5. KeysHeard' = KeysHeard
    BY <2>1, <2>3, <2>4, SMT DEF KeysHeard
  <2>6. (\A h \in heard : h[1] \in Ids)'
    BY <2>3, SMT DEF KeyOK
  <2> QED
    BY <1>1, <2>1, <2>5, <2>6, Zenon DEF KeyOK
<1> QED
  BY <1>4, <1>5

(* A key is there only after it was asked for and given.                   *)
LEMMA KeyKeeps == ASSUME IInv, KeyOK, [Next]_vars PROVE KeyOK'
<1>1. CASE UNCHANGED <<listening, nextId, waiting, heard, promise, ajaxKey>>
  BY <1>1, Zenon DEF KeyOK, KeysHeard
<1>2. CASE Construct
  <2>1. /\ nextId = 0 /\ nextId' = 1
        /\ UNCHANGED <<waiting, heard, promise, ajaxKey>>
    BY <1>2, Zenon DEF Construct, IInv, IdsUsed, NoId
  <2>2. KeysHeard' = KeysHeard
    BY <2>1, Zenon DEF KeysHeard
  <2>3. \A id \in Ids : id >= nextId
    BY <2>1, SMT, ZeroFrameAssumption DEF Ids, ZeroFrameAssumption
  <2>4. nextId' >= 1
    BY <2>1, SMT
  <2> QED
    BY <2>1, <2>2, <2>3, <2>4, Zenon DEF KeyOK
<1>3. ASSUME NEW callback \in BOOLEAN, Command(callback) PROVE KeyOK'
  <2>1. /\ nextId \in Ids /\ nextId' = nextId + 1 /\ nextId \in Nat
        /\ waiting' \subseteq waiting \cup {<<nextId, "code">>}
        /\ UNCHANGED <<listening, heard, promise, ajaxKey>>
    BY <1>3, SMT, ZeroFrameAssumption DEF Command, Send, KeyOK, Ids, IInv, ChannelOK,
       ZeroFrameAssumption
  <2>2. KeysHeard' = KeysHeard
    BY <2>1, Zenon DEF KeysHeard
  <2>3. promise[nextId] = "none"
    BY <2>1, SMT DEF KeyOK
  <2>4. (\A w \in waiting : w[1] \in Ids /\ (w[2] = "key" <=> promise[w[1]] # "none"))'
    <3> SUFFICES ASSUME NEW w \in waiting'
                 PROVE  w[1] \in Ids /\ (w[2] = "key" <=> promise'[w[1]] # "none")
      BY Zenon
    <3>1. CASE w \in waiting
      BY <2>1, <3>1, SMT DEF KeyOK
    <3>2. CASE w = <<nextId, "code">>
      BY <2>1, <2>3, <3>2, SMT
    <3> QED
      BY <2>1, <3>1, <3>2, Zenon
  <2>5. (\A id \in Ids : id >= nextId => promise[id] = "none")' /\ nextId' >= 1
    BY <2>1, SMT DEF KeyOK, Ids
  <2> QED
    BY <2>1, <2>2, <2>4, <2>5, Zenon DEF KeyOK
<1>4. CASE OnMessage
  <2>1. CASE Head(toPage).cmd = "response"
    BY <1>4, <2>1, KeyGiven
  <2>2. CASE Head(toPage).cmd # "response"
    <3>1. /\ nextId' = nextId + 1 /\ nextId \in Nat
          /\ UNCHANGED <<listening, waiting, heard, promise, ajaxKey>>
      BY <1>4, <2>2, Zenon DEF OnMessage, Reply, Send, IInv, ChannelOK
    <3>2. KeysHeard' = KeysHeard
      BY <3>1, Zenon DEF KeysHeard
    <3> QED
      BY <3>1, <3>2, SMT DEF KeyOK, Ids
  <2> QED
    BY <2>1, <2>2
<1> QED
  BY <1>1, <1>2, <1>3, <1>4, KeyAsked, Zenon DEF Next, Frame, Site, Load, PageCode, Wrapper,
     Delivery, WrapperUp, Ping, WrapperHears, Answers, Answer,
     LostToWrapper, LostToPage, Arrives, Fails, Submit, vars, frameVars, pageVars

(* A page that patched once asks for its data with the key the wrapper has *)
(* answered it with, if it has, and does not ask before that if it awaits  *)
(* monkeyPatchAjax (ZeroFrame.js 1.4.0, search.js).                        *)
THEOREM AwaitedKey == Spec => RequestIsKeyed
<1> DEFINE Keyed == carried' # carried /\ patches = 1 =>
                      IF KeysHeard = {} THEN carried' = NoKey /\ ~awaits
                                        ELSE carried' \in KeysHeard
<1>1. KeyOK /\ [Next]_vars => [Keyed]_vars
  <2> SUFFICES ASSUME KeyOK, Next, carried' # carried, patches = 1
               PROVE  IF KeysHeard = {} THEN carried' = NoKey /\ ~awaits
                                        ELSE carried' \in KeysHeard
    BY Zenon
  <2>1. Load
    BY Zenon DEF Next, Frame, Site, Arrives, Fails, Submit, searchVars
  <2>2. carried' = ajaxKey
    BY <2>1, SMT DEF Load, Carried
  <2>3. awaits => KeysHeard # {}
    BY <2>1, Zenon DEF Load, KeyOK
  <2> QED
    BY <2>2, <2>3, Zenon DEF KeyOK
<1> QED
  BY ChannelInit, ChannelKeeps, KeyInit, KeyKeeps, <1>1, PTL DEF Spec, RequestIsKeyed

-----------------------------------------------------------------------------
(* A search is pending until the data are there, the last one last; a      *)
(* search of the whole index has what the index has, an earlier one none.  *)
States == {"none", "loading", "loaded", "failed"}
Searches == [query : Queries, index : States, results : {{}} \cup {Hits[q] : q \in Queries}]

SearchOK ==
  /\ data \in States
  /\ pending \in Seq(Searches)
  /\ data = "none" => last = <<>>
  /\ data = "loading" /\ last # <<>> => pending # <<>> /\ pending[Len(pending)] = last
  /\ last # <<>> =>
       last.results = IF last.index = "loaded" THEN Hits[last.query] ELSE {}
  /\ data = "loaded" /\ last # <<>> => shown = last

(* At first no index is loaded and nothing shown.                          *)
LEMMA SearchInit == Init => SearchOK
<1> SUFFICES ASSUME Init PROVE SearchOK
  OBVIOUS
<1>1. data = "none" /\ last = <<>> /\ pending = <<>>
  BY Zenon DEF Init
<1>2. <<>> \in Seq(Searches)
  BY SMT
<1> QED
  BY <1>1, <1>2, Zenon DEF SearchOK, States

(* A search is answered by the index, at once or when it is loaded.        *)
LEMMA SearchKeeps == ASSUME SearchOK, [Next]_vars PROVE SearchOK'
<1>1. CASE UNCHANGED <<data, pending, shown, last>>
  BY <1>1, Zenon DEF SearchOK
<1>2. CASE Load
  BY <1>2, SMT DEF Load, SearchOK, States
<1>3. CASE Arrives
  <2>1. <<>> \in Seq(Searches)
    BY SMT
  <2> QED
    BY <1>3, <2>1, SMT DEF Arrives, SearchOK, States
<1>4. CASE Fails
  BY <1>4, SMT DEF Fails, SearchOK, States
<1>5. ASSUME NEW query \in Queries, Submit(query) PROVE SearchOK'
  <2> DEFINE search == [query |-> query, index |-> data,
                        results |-> IF data = "loaded" THEN Hits[query] ELSE {}]
  <2>1. /\ search \in Searches
        /\ search.results = IF search.index = "loaded" THEN Hits[search.query] ELSE {}
    BY SMT DEF SearchOK, Searches
  <2>2. data # "none" /\ data' = data /\ last' = search
    BY <1>5, Zenon DEF Submit
  <2>3. CASE data = "loaded"
    <3>1. shown' = search /\ pending' = pending
      BY <1>5, <2>3, Zenon DEF Submit
    <3> HIDE DEF search
    <3> QED
      BY <2>1, <2>2, <2>3, <3>1, SMT DEF SearchOK
  <2>4. CASE data # "loaded"
    <3>1. pending' = Append(pending, search)
      BY <1>5, <2>4, Zenon DEF Submit
    <3> HIDE DEF search
    <3>2. /\ pending' \in Seq(Searches)
          /\ pending' # <<>> /\ pending'[Len(pending')] = search
      BY <2>1, <3>1, Appended, SMT DEF SearchOK
    <3> QED
      BY <2>1, <2>2, <2>4, <3>2, Zenon DEF SearchOK
  <2> QED
    BY <2>3, <2>4
<1> QED
  BY <1>1, <1>2, <1>3, <1>4, <1>5, Zenon DEF Next, Frame, Site, vars, searchVars

(* When the data are there, the last search is on display, and with what   *)
(* there is if it was made after they arrived, else with nothing           *)
(* (search.js).                                                            *)
THEOREM LastSearchShown == Spec => []SearchesAreRight
<1>1. SearchOK => SearchesAreRight
  BY SMT DEF SearchOK, SearchesAreRight
<1> QED
  BY SearchInit, SearchKeeps, <1>1, PTL DEF Spec
=============================================================================
