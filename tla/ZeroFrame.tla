------------------------------ MODULE ZeroFrame -----------------------------
(***************************************************************************)
(* js/ZeroFrame.js: a page in a frame and the wrapper around it talk by    *)
(* messages.  Commands carry a number, an answer names the number it is    *)
(* for; a page may have its ajax requests carry a key of the wrapper's.    *)
(*                                                                         *)
(* The wrapper is external: it may listen before the page does or after,   *)
(* says when it is up, and answers commands in any order, well or not, but *)
(* once.  What one side posts arrives in order, and is lost if the other   *)
(* is not listening yet.  Requests that are only logged are left out.      *)
(***************************************************************************)
EXTENDS Integers, Sequences

CONSTANTS
  MaxId,        \* bound: page code issues commands up to this number
  MaxPatches,   \* bound: calls of monkeyPatchAjax
  MaxPings      \* bound: pings of the wrapper

ASSUME ZeroFrameAssumption == MaxId \in Nat /\ MaxPatches \in Nat /\ MaxPings \in Nat

VARIABLES
  listening,    \* the page has constructed its ZeroFrame
  nextId,       \* next_message_id
  waiting,      \* waiting_cb: numbers, and whose callback waits for them
  heard,        \* numbers, and the result their callback was run with
  patches,      \* how many times open and fetch are patched
  promise,      \* the promises of monkeyPatchAjax, by its commands' numbers
  ajaxKey,      \* ajax_key: the answer it is, as the number and the result
  up,           \* the wrapper is listening
  ready,        \* the wrapper has heard innerReady
  owes,         \* the commands it has yet to answer
  gave,         \* the answers it gave
  pings,        \* how many times it sent a ping
  toWrapper, toPage  \* messages on their way, oldest first

pageVars == <<listening, nextId, waiting, heard, patches, promise, ajaxKey>>
wrapperVars == <<up, ready, owes, gave, pings>>
frameVars == <<pageVars, wrapperVars, toWrapper, toPage>>

NoId == 0       \* the number of the very first message is not defined yet
Ids == 1 .. MaxId

\* What a request may carry other than a key of the wrapper's.
NoKey == <<NoId, "undefined">>
Unpatched == <<NoId, "nothing">>
Overflow == <<NoId, "overflow">>

FrameInit ==
  /\ listening = FALSE /\ nextId = NoId
  /\ waiting = {} /\ heard = {}
  /\ patches = 0 /\ promise = [id \in Ids |-> "none"] /\ ajaxKey = NoKey
  /\ up = FALSE /\ ready = FALSE
  /\ owes = {} /\ gave = {} /\ pings = 0
  /\ toWrapper = <<>> /\ toPage = <<>>

-----------------------------------------------------------------------------
(* The page.                                                               *)

Send(cmd) ==
  /\ toWrapper' = Append(toWrapper, [cmd |-> cmd, id |-> nextId])
  /\ nextId' = nextId + 1

\* connect() says innerReady before the numbers start at 1.
Construct ==
  /\ ~listening
  /\ listening' = TRUE
  /\ toWrapper' = Append(toWrapper, [cmd |-> "innerReady", id |-> NoId])
  /\ nextId' = 1
  /\ UNCHANGED <<waiting, heard, patches, promise, ajaxKey, wrapperVars, toPage>>

\* cmd without a callback, or cmdp, whose promise is the callback.
Command(callback) ==
  /\ listening /\ nextId <= MaxId
  /\ Send("command")
  /\ waiting' = IF callback THEN waiting \cup {<<nextId, "code">>} ELSE waiting
  /\ UNCHANGED <<listening, heard, patches, promise, ajaxKey, wrapperVars, toPage>>

\* Requests are patched at once; the promise returned is that of the key.
MonkeyPatchAjax ==
  /\ listening /\ nextId <= MaxId /\ patches < MaxPatches
  /\ patches' = patches + 1
  /\ Send("command")
  /\ waiting' = waiting \cup {<<nextId, "key">>}
  /\ promise' = [promise EXCEPT ![nextId] = "pending"]
  /\ UNCHANGED <<listening, heard, ajaxKey, wrapperVars, toPage>>

BugResolves(result) == TRUE

\* cmdp: a result with an error rejects the promise.
Resolves(result) == result # "error"

AnswersKey(m) == <<m.to, "key">> \in waiting

\* What awaits the answer is resumed when onMessage returns: ajax_key is
\* assigned, and only then is monkeyPatchAjax's own promise fulfilled.
NewKey(m) ==
  IF AnswersKey(m) /\ Resolves(m.result) THEN <<m.to, m.result>> ELSE ajaxKey
Settled(m) ==
  IF AnswersKey(m)
  THEN [promise EXCEPT ![m.to] = IF Resolves(m.result) THEN "fulfilled" ELSE "rejected"]
  ELSE promise

BugResponse(m) ==
  /\ heard' = heard \cup {<<m.to, m.result>> : w \in {v \in waiting : v[1] = m.to}}
  /\ ajaxKey' = NewKey(m) /\ promise' = Settled(m)
  /\ UNCHANGED <<waiting, nextId, toWrapper>>

\* The callback is run and deleted; an answer nothing waits for is logged.
Response(m) ==
  /\ heard' = heard \cup {<<m.to, m.result>> : w \in {v \in waiting : v[1] = m.to}}
  /\ ajaxKey' = NewKey(m) /\ promise' = Settled(m)
  /\ waiting' = {v \in waiting : v[1] # m.to}
  /\ UNCHANGED <<nextId, toWrapper>>

BugReply(m) ==
  /\ IF m.cmd = "ping" THEN Send("response") ELSE UNCHANGED <<nextId, toWrapper>>
  /\ UNCHANGED <<waiting, heard, promise, ajaxKey>>

\* wrapperReady and ping are replied to.
Reply(m) ==
  /\ Send(IF m.cmd = "ping" THEN "response" ELSE "innerReady")
  /\ UNCHANGED <<waiting, heard, promise, ajaxKey>>

OnMessage ==
  /\ listening /\ toPage # <<>>
  /\ toPage' = Tail(toPage)
  /\ IF Head(toPage).cmd = "response" THEN Response(Head(toPage)) ELSE Reply(Head(toPage))
  /\ UNCHANGED <<listening, patches, wrapperVars>>

(* What a request of the page carries: patched twice, open calls itself    *)
(* for ever, since realOpen is then the first patch.                       *)
Carried ==
  IF patches = 0 THEN Unpatched ELSE IF patches = 1 THEN ajaxKey ELSE Overflow

-----------------------------------------------------------------------------
(* The wrapper, and messages nobody listens to.                            *)

Posts(message) == toPage' = Append(toPage, message)

WrapperUp ==
  /\ ~up
  /\ up' = TRUE
  /\ Posts([cmd |-> "wrapperReady", to |-> NoId, result |-> "ok"])
  /\ UNCHANGED <<pageVars, ready, owes, gave, pings, toWrapper>>

Ping ==
  /\ up /\ pings < MaxPings
  /\ pings' = pings + 1
  /\ Posts([cmd |-> "ping", to |-> NoId, result |-> "ok"])
  /\ UNCHANGED <<pageVars, up, ready, owes, gave, toWrapper>>

WrapperHears ==
  /\ up /\ toWrapper # <<>>
  /\ toWrapper' = Tail(toWrapper)
  /\ ready' = (ready \/ Head(toWrapper).cmd = "innerReady")
  /\ owes' = IF Head(toWrapper).cmd = "command" THEN owes \cup {Head(toWrapper).id} ELSE owes
  /\ UNCHANGED <<pageVars, up, gave, pings, toPage>>

Answer(id, result) ==
  /\ owes' = owes \ {id}
  /\ gave' = gave \cup {<<id, result>>}
  /\ Posts([cmd |-> "response", to |-> id, result |-> result])
  /\ UNCHANGED <<pageVars, up, ready, pings, toWrapper>>

LostToWrapper ==
  /\ ~up /\ toWrapper # <<>>
  /\ toWrapper' = Tail(toWrapper)
  /\ UNCHANGED <<pageVars, wrapperVars, toPage>>

LostToPage ==
  /\ ~listening /\ toPage # <<>>
  /\ toPage' = Tail(toPage)
  /\ UNCHANGED <<pageVars, wrapperVars, toWrapper>>

Results == {"ok", "error"}
Answers == \E id \in owes, result \in Results : Answer(id, result)
Wrapper == WrapperUp \/ Ping \/ WrapperHears \/ Answers
Delivery == OnMessage \/ LostToWrapper \/ LostToPage
PageCode == Construct \/ (\E callback \in BOOLEAN : Command(callback)) \/ MonkeyPatchAjax

-----------------------------------------------------------------------------
(* Properties of the channel.                                              *)

(* However answers come, late, in another order, for commands without a    *)
(* callback: a callback is run at most once, with the answer to its own    *)
(* command, and does not stay behind (1.3.1, "Fix memory leak").           *)
SettledByItsAnswer ==
  /\ heard \subseteq gave
  /\ \A h, g \in heard : h[1] = g[1] => h = g
  /\ \A w \in waiting, h \in heard : w[1] # h[1]

Posted(id) == \E i \in 1 .. Len(toWrapper) :
                toWrapper[i].cmd = "command" /\ toWrapper[i].id = id
Answered(id) == \E i \in 1 .. Len(toPage) :
                  toPage[i].cmd = "response" /\ toPage[i].to = id
UnderWay(id) == Posted(id) \/ id \in owes \/ Answered(id)
Waits(id) == \E w \in waiting : w[1] = id
Lost(id) == Waits(id) /\ ~UnderWay(id)

(* Whichever side is up first, the wrapper gets to hear that the page is   *)
(* ready, and a command under way while it is up settles its callback.     *)
(* One posted before the wrapper listened may be lost, and the callback of *)
(* a lost command waits for ever: nothing repeats it.                      *)
ComesUp ==
  /\ <>ready
  /\ \A id \in Ids : up /\ UnderWay(id) ~> ~Waits(id)
  /\ [][\A id \in Ids : Lost(id) => Lost(id)']_frameVars
=============================================================================
