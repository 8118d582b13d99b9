-------------------------------- MODULE Search ------------------------------
(***************************************************************************)
(* js/search.js on a page of the site with js/ZeroFrame.js: the data to    *)
(* search are requested once, with what ajax requests then carry, and a    *)
(* search looks into an index that is empty until they are there.          *)
(*                                                                         *)
(* A page that awaits monkeyPatchAjax starts its search after that, any    *)
(* other at any time.  lunr is external: it finds what the index holds.    *)
(***************************************************************************)
EXTENDS ZeroFrame

CONSTANTS
  Queries,      \* what a reader may search for
  Hits,         \* query -> the documents the whole index has for it
  MaxSearches   \* bound: searches before the data are there

VARIABLES
  awaits,       \* the page waits for the promise of monkeyPatchAjax
  carried,      \* what the request for the data carried, or NotSent
  data,         \* "none", "loading", "loaded" or "failed"
  pending,      \* searches that wait for the data to be displayed
  shown,        \* the search displayed, or <<>>
  last          \* the last search submitted, or <<>>

searchVars == <<awaits, carried, data, pending, shown, last>>
vars == <<frameVars, searchVars>>

NotSent == <<NoId, "none">>

Init ==
  /\ FrameInit
  /\ awaits \in BOOLEAN
  /\ carried = NotSent /\ data = "none"
  /\ pending = <<>> /\ shown = <<>> /\ last = <<>>

(* The index is made and the data are requested.  A page that awaits a     *)
(* call of monkeyPatchAjax gets here when its promise has been fulfilled,  *)
(* and never if it is rejected.                                            *)
Load ==
  /\ data = "none"
  /\ awaits => \E id \in Ids : promise[id] = "fulfilled"
  /\ carried' = Carried
  /\ data' = IF Carried = Overflow THEN "failed" ELSE "loading"
  /\ UNCHANGED <<frameVars, awaits, pending, shown, last>>

BugArrives ==
  /\ data = "loading" /\ carried # NoKey
  /\ data' = "loaded"
  /\ pending' = <<>>
  /\ shown' = IF pending = <<>> THEN shown ELSE Head(pending)
  /\ UNCHANGED <<frameVars, awaits, carried, last>>

(* The data arrive, which they do not for an undefined key: they fill the  *)
(* index, then every pending search is displayed over the one before it.   *)
Arrives ==
  /\ data = "loading" /\ carried # NoKey
  /\ data' = "loaded"
  /\ pending' = <<>>
  /\ shown' = IF pending = <<>> THEN shown ELSE pending[Len(pending)]
  /\ UNCHANGED <<frameVars, awaits, carried, last>>

\* Any request may fail.
Fails ==
  /\ data = "loading"
  /\ data' = "failed"
  /\ UNCHANGED <<frameVars, awaits, carried, pending, shown, last>>

\* The index is searched at once, the outcome is displayed with the data.
Submit(query) ==
  LET search == [query |-> query, index |-> data,
                 results |-> IF data = "loaded" THEN Hits[query] ELSE {}]
  IN  /\ data # "none"
      /\ last' = search
      /\ IF data = "loaded"
         THEN shown' = search /\ UNCHANGED pending
         ELSE /\ Len(pending) < MaxSearches
              /\ pending' = Append(pending, search)
              /\ UNCHANGED shown
      /\ UNCHANGED <<frameVars, awaits, carried, data>>

Frame == (PageCode \/ Wrapper \/ Delivery) /\ UNCHANGED searchVars
Site == Load \/ Arrives \/ Fails \/ \E q \in Queries : Submit(q)

Next == Frame \/ Site

(* Scripts are run, both sides' messages are delivered, and the wrapper    *)
(* comes up and answers what it was asked.                                 *)
Fairness ==
  /\ WF_vars(Construct /\ UNCHANGED searchVars)
  /\ WF_vars(WrapperUp /\ UNCHANGED searchVars)
  /\ WF_vars(WrapperHears /\ UNCHANGED searchVars)
  /\ WF_vars(Answers /\ UNCHANGED searchVars)
  /\ WF_vars(OnMessage /\ UNCHANGED searchVars)

Spec == Init /\ [][Next]_vars /\ Fairness

-----------------------------------------------------------------------------
(* Properties.                                                             *)

(* The answers to the page's requests for a key that gave it one.          *)
KeysHeard == {h \in heard : promise[h[1]] # "none" /\ h[2] = "ok"}

(* 1.4.0 made monkeyPatchAjax awaitable.  A page that patched once asks    *)
(* for its data with the key the wrapper answered that command with, if    *)
(* it has been answered; 'undefined' is carried only while it has not,     *)
(* or by an error, and never by a page that awaits the promise, whatever   *)
(* other commands are answered before or in between.                       *)
RequestIsKeyed ==
  [][carried' # carried /\ patches = 1 =>
       IF KeysHeard = {} THEN carried' = NoKey /\ ~awaits
                         ELSE carried' \in KeysHeard]_vars

(* Once the data are there, the last search is on display, whenever it was *)
(* submitted: with what there is if it was made after they arrived, with   *)
(* nothing, whatever there is, if it was made before.                      *)
SearchesAreRight ==
  data = "loaded" /\ last # <<>> =>
    /\ shown = last
    /\ shown.results = IF shown.index = "loaded" THEN Hits[shown.query] ELSE {}
=============================================================================
