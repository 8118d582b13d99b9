-------------------------------- MODULE Deck --------------------------------
(***************************************************************************)
(* A reveal.js deck in a page: the scripts it waits for, the keys, clicks, *)
(* wheel steps and touches it answers, the overview, the black screen, the *)
(* auto-slide and the hash of the URL.  Every action is one JavaScript     *)
(* task: a handler, or a timer that fires, with all that it calls.         *)
(***************************************************************************)
EXTENDS DeckSlides

CONSTANTS
  Hashes,       \* configuration -> what a reader puts behind the # of the URL
  MaxResets,    \* bound: pending timers that reset the stacks
  MaxEvents,    \* bound: pending hashchange events
  MaxFingers    \* bound: fingers on the screen

(* A hash is a pair of numbers or a name; the one event of a start fits.   *)
ASSUME HashAssumption ==
  \A c \in Configs : \A hash \in Hashes[c] :
    \/ hash[1] = "index" /\ hash[2] \in Int \ {Undefined} /\ hash[3] \in Int
    \/ hash[1] = "name" /\ hash[2] \in DOMAIN Leading

ASSUME BoundsAssumption ==
  MaxResets \in Nat /\ MaxEvents \in Nat \ {0} /\ MaxFingers \in Nat

VARIABLES
  deck,         \* the deck, and what the page shows of it
  loader,       \* the scripts the deck depends on
  touch         \* the fingers on the screen and the gesture they make

vars == <<deck, loader, touch>>

Keys == {"prev", "next", "left", "right", "up", "down", "home", "end", "space",
         "shift-space", "return", "pause", "overview"}
Arrows == {"left", "right", "up", "down", "prev", "next"}
Swipes == {"left", "right", "up", "down"}

-----------------------------------------------------------------------------
(* Navigation.                                                             *)

\* A step goes to another slide only when no fragment was moved for it.
StepTo(d, moved, open, h, v) ==
  IF (d.overview \/ ~Moved(d, moved)) /\ open
  THEN Slide(IF d.overview THEN d ELSE moved, h, v)
  ELSE IF d.overview THEN d ELSE moved

NavigateLeft(d) ==
  IF d.config.rtl
  THEN StepTo(d, NextFragment(d), AvailableRoutes(d).left, d.h + 1, Undefined)
  ELSE StepTo(d, PreviousFragment(d), AvailableRoutes(d).left, d.h - 1, Undefined)

BugNavigateRight(d) ==
  StepTo(d, PreviousFragment(d), AvailableRoutes(d).right, d.h + 1, Undefined)

NavigateRight(d) ==
  IF d.config.rtl
  THEN StepTo(d, PreviousFragment(d), AvailableRoutes(d).right, d.h - 1, Undefined)
  ELSE StepTo(d, NextFragment(d), AvailableRoutes(d).right, d.h + 1, Undefined)

NavigateUp(d) ==
  StepTo(d, PreviousFragment(d), AvailableRoutes(d).up, d.h, d.v - 1)

NavigateDown(d) ==
  StepTo(d, NextFragment(d), AvailableRoutes(d).down, d.h, d.v + 1)

(* navigatePrev looks for the column before among those marked past: there *)
(* is none in a deck read from right to left.  It enters a stack at its    *)
(* last row, but one of a single row where it was left.                    *)
NavigatePrev(d) ==
  LET back == PreviousFragment(d)
      lastRow == IF Stack[d.h - 1] = 1 THEN Undefined ELSE Stack[d.h - 1] - 1
  IN  IF Moved(d, back) THEN back
      ELSE IF AvailableRoutes(back).up THEN NavigateUp(back)
      ELSE IF d.h > 0 /\ ~d.config.rtl THEN Slide(back, d.h - 1, lastRow)
      ELSE back

BugNavigateNext(d) ==
  LET on == NextFragment(d)
  IN  IF Moved(d, on) THEN on
      ELSE IF AvailableRoutes(on).down THEN NavigateDown(on)
      ELSE NavigateRight(on)

NavigateNext(d) ==
  LET on == NextFragment(d)
  IN  CueAutoSlide(IF Moved(d, on) THEN on
                   ELSE IF AvailableRoutes(on).down THEN NavigateDown(on)
                   ELSE NavigateRight(on))

-----------------------------------------------------------------------------
(* The auto-slide, the black screen and the overview.                      *)

PauseAutoSlide(d) ==
  SetPlaying([CancelAutoSlide(d) EXCEPT !.autoSlidePaused = TRUE], FALSE)

ResumeAutoSlide(d) == CueAutoSlide([d EXCEPT !.autoSlidePaused = FALSE])

\* onUserInput: any input stops the auto-slide, if it is stoppable.
UserInput(d) == IF d.config.stoppable THEN PauseAutoSlide(d) ELSE d

TogglePause(d) ==
  IF d.paused THEN CueAutoSlide([d EXCEPT !.paused = FALSE])
  ELSE [CancelAutoSlide(d) EXCEPT !.paused = TRUE]

DeactivateOverview(d) ==
  IF d.config.overview
  THEN CueAutoSlide(Slide([d EXCEPT !.overview = FALSE, !.overviewTimer = FALSE,
                                    !.laidOut = FALSE], d.h, d.v))
  ELSE d

\* A link opens in a frame over the deck if it says so, or if all of them do.
Previews(d, s) ==
  {link \in Links[s] : link = "preview" \/ d.config.previewLinks}

OpenPreview(d) == [d EXCEPT !.preview = TRUE]
ClosePreview(d) == [d EXCEPT !.preview = FALSE]

ToggleOverview(d) == IF d.overview THEN DeactivateOverview(d) ELSE ActivateOverview(d)

-----------------------------------------------------------------------------
(* The hash of the URL.                                                    *)

\* The section whose id is a name.
Named(name) == {x \in Sections : Id[x] = name}

\* getIndices: any section but a vertical slide gets the row of the current.
Indices(d, x) == IF x \in Verticals THEN x ELSE <<x[1], d.v>>

(* Where a hash points to: a name that parseInt reads no number from is an *)
(* id, and one of no slide stands for the current slide.                   *)
Target(d, hash) ==
  CASE hash[1] = "index" -> <<hash[2], hash[3]>>
    [] hash[1] = "name" /\ Leading[hash[2]] # None -> <<Leading[hash[2]], 0>>
    [] OTHER -> IF Named(hash[2]) # {} THEN Indices(d, CHOOSE x \in Named(hash[2]) : TRUE)
                ELSE IF Started(d) THEN Current(d) ELSE <<0, 0>>

\* Whether a hash is taken for a name.
IsName(hash) == hash[1] = "name" /\ Leading[hash[2]] = None

(* readURL: a name always calls slide(), a pair of indices when it is not  *)
(* the current one.                                                        *)
ReadURL(d) ==
  LET to == Target(d, d.hash)
  IN  IF IsName(d.hash) \/ to # Current(d) THEN Slide(d, to[1], to[2]) ELSE d

-----------------------------------------------------------------------------
(* Loading and starting.                                                   *)

Blank(config) ==
  [config |-> config, h |-> Undefined, v |-> Undefined,
   resume |-> [h \in Columns |-> 0],
   shown |-> [s \in Slides |-> {}], number |-> Fragments, present |-> {},
   state |-> <<>>, classes |-> {}, controls |-> {}, progress |-> 0, playing |-> {},
   displayed |-> {}, backdrop |-> {},
   preview |-> FALSE, overview |-> FALSE, overviewTimer |-> FALSE, laidOut |-> FALSE,
   paused |-> FALSE, autoSlidePaused |-> FALSE, autoTimer |-> FALSE, player |-> "none",
   hash |-> <<"index", 0, 0>>, hashEvents |-> 0, resets |-> 0]

(* configure: a deck with a configured duration that input may stop gets a *)
(* player.                                                                 *)
Configure(d) ==
  LET played == Cardinality(Sections) > 1 /\ d.config.autoSlide > 0 /\ d.config.stoppable
  IN  SortAllFragments(IF played THEN [d EXCEPT !.player = "stopped",
                                                !.autoSlidePaused = FALSE]
                       ELSE d)

Start(d) == UpdateBackground(ReadURL(Configure(d)), TRUE)

\* The scripts of the configuration: some before the deck, some after it.
Sync(config) == {s \in DOMAIN config.dependencies : config.dependencies[s] = "sync"}
Async(config) == DOMAIN config.dependencies \ Sync(config)

(* load(): without a script to wait for, the deck starts at once and the   *)
(* asynchronous scripts are asked for.                                     *)
Load(config, hash) ==
  LET d == [Blank(config) EXCEPT !.hash = hash]
      first == Sync(config)
  IN  /\ loader = [toPreload |-> Cardinality(first),
                   waiting |-> IF first = {} THEN Async(config) ELSE first,
                   starts |-> IF first = {} THEN 1 ELSE 0]
      /\ deck = IF first = {} THEN Start(d) ELSE d

Init ==
  /\ \E config \in Configs : \E hash \in Hashes[config] : Load(config, hash)
  /\ touch = [fingers |-> 0, startCount |-> 0, captured |-> FALSE, acts |-> 0]

BugScriptReady(s) ==
  LET left == loader.toPreload - 1
  IN  /\ s \in loader.waiting
      /\ loader' = [toPreload |-> left,
                    waiting |-> (loader.waiting \ {s}) \cup
                                (IF left = 0 THEN Async(deck.config) ELSE {}),
                    starts |-> IF left <= 0 THEN loader.starts + 1 ELSE loader.starts]
      /\ deck' = IF left <= 0 THEN Start(deck) ELSE deck
      /\ UNCHANGED touch

(* A script is there: the count goes down for every one, the asynchronous  *)
(* ones below zero, and the deck starts when it is zero.                   *)
ScriptReady(s) ==
  LET left == loader.toPreload - 1
  IN  /\ s \in loader.waiting
      /\ loader' = [toPreload |-> left,
                    waiting |-> (loader.waiting \ {s}) \cup
                                (IF left = 0 THEN Async(deck.config) ELSE {}),
                    starts |-> IF left = 0 THEN loader.starts + 1 ELSE loader.starts]
      /\ deck' = IF left = 0 THEN Start(deck) ELSE deck
      /\ UNCHANGED touch

-----------------------------------------------------------------------------
(* Input.                                                                  *)

\* A task of a started deck, within the bounds on pending timers and events.
Becomes(new) ==
  /\ Started(deck)
  /\ deck' = new
  /\ deck'.resets <= MaxResets
  /\ deck'.hashEvents <= MaxEvents
  /\ UNCHANGED loader

\* The switch of onDocumentKeyDown over the keys.
Press(d, key) ==
  CASE key = "prev" -> NavigatePrev(d)
    [] key = "next" -> NavigateNext(d)
    [] key = "left" -> NavigateLeft(d)
    [] key = "right" -> NavigateRight(d)
    [] key = "up" -> NavigateUp(d)
    [] key = "down" -> NavigateDown(d)
    [] key = "home" -> Slide(d, 0, Undefined)
    [] key = "end" -> Slide(d, MaxValue, Undefined)
    [] key = "space" -> IF d.overview THEN DeactivateOverview(d) ELSE NavigateNext(d)
    [] key = "shift-space" -> IF d.overview THEN DeactivateOverview(d) ELSE NavigatePrev(d)
    [] key = "return" -> IF d.overview THEN DeactivateOverview(d) ELSE d
    [] key = "pause" -> TogglePause(d)
    [] key = "overview" -> IF d.preview THEN ClosePreview(d) ELSE ToggleOverview(d)

(* onDocumentKeyDown: under the black screen a key other than its own only *)
(* stops the auto-slide ...                                                *)
KeyDown(key) ==
  LET d == UserInput(deck)
  IN  /\ deck.config.keyboard
      /\ Becomes(IF d.paused /\ key # "pause" THEN d ELSE CueAutoSlide(Press(d, key)))
      /\ UNCHANGED touch

\* ... and so does any that is pressed in a field, or with a modifier.
KeyElsewhere ==
  /\ deck.config.keyboard
  /\ Becomes(UserInput(deck))
  /\ UNCHANGED touch

\* The function a control arrow, or a swipe, calls.
Navigate(d, arrow) ==
  CASE arrow = "left" -> NavigateLeft(d)
    [] arrow = "right" -> NavigateRight(d)
    [] arrow = "up" -> NavigateUp(d)
    [] arrow = "down" -> NavigateDown(d)
    [] arrow = "prev" -> NavigatePrev(d)
    [] arrow = "next" -> NavigateNext(d)

ControlClicked(arrow) ==
  /\ deck.config.controls /\ ~deck.preview
  /\ Becomes(Navigate(UserInput(deck), arrow))
  /\ UNCHANGED touch

\* A click on the progress bar, at any fraction of its width.
ProgressClicked ==
  /\ deck.config.progress /\ ~deck.preview
  /\ \E h \in 0 .. Width : Becomes(Slide(UserInput(deck), h, Undefined))
  /\ UNCHANGED touch

\* The wheel moves the deck without counting as input.
MouseScroll ==
  /\ deck.config.mouseWheel
  /\ Becomes(NavigateNext(deck)) \/ Becomes(NavigatePrev(deck))
  /\ UNCHANGED touch

(* A click on a slide of the overview, once it is laid out.  A plain slide *)
(* has no vertical index: NaN, which a column without rows turns into 0.   *)
OverviewSlideClicked(s) ==
  /\ deck.overview /\ deck.laidOut /\ ~deck.preview
  /\ Becomes(Slide(DeactivateOverview(deck), s[1], s[2]))
  /\ UNCHANGED touch

(* A link of the current slide is clicked, or one of the two buttons of    *)
(* the preview, which covers all that could be clicked before.  The deck   *)
(* goes on under it: no input is counted, and keys are heard.              *)
PreviewLinkClicked ==
  /\ Started(deck) /\ ~deck.overview /\ ~deck.preview
  /\ Previews(deck, Current(deck)) # {}
  /\ Becomes(OpenPreview(deck))
  /\ UNCHANGED touch

PreviewClosed ==
  /\ deck.preview
  /\ Becomes(ClosePreview(deck))
  /\ UNCHANGED touch

AutoSlidePlayerClick ==
  /\ deck.player # "none" /\ ~deck.preview
  /\ Becomes(IF IsLastSlide(deck) /\ ~deck.config.loop
               THEN ResumeAutoSlide(Slide(deck, 0, 0))
             ELSE IF deck.autoSlidePaused THEN ResumeAutoSlide(deck)
             ELSE PauseAutoSlide(deck))
  /\ UNCHANGED touch

-----------------------------------------------------------------------------
(* Touch.                                                                  *)

TouchStart ==
  /\ deck.config.touch /\ Started(deck)
  /\ touch.fingers < MaxFingers
  /\ touch' = [touch EXCEPT !.fingers = @ + 1, !.startCount = touch.fingers + 1,
                            !.acts = 0]
  /\ UNCHANGED <<deck, loader>>

\* A move is input until it has made a gesture.
TouchMoves(gesture, new) ==
  /\ touch.fingers > 0 /\ ~touch.captured
  /\ Becomes(new)
  /\ touch' = IF gesture THEN [touch EXCEPT !.captured = TRUE, !.acts = @ + 1] ELSE touch

Wiggle == TouchMoves(FALSE, UserInput(deck))

Pinch ==
  /\ touch.fingers = 2 /\ touch.startCount = 2 /\ deck.config.overview
  /\ \/ TouchMoves(TRUE, ActivateOverview(UserInput(deck)))
     \/ TouchMoves(TRUE, DeactivateOverview(UserInput(deck)))

BugSwipe(direction) ==
  /\ touch.fingers = 1
  /\ TouchMoves(TRUE, Navigate(UserInput(deck), direction))

Swipe(direction) ==
  /\ touch.fingers = 1 /\ touch.startCount # 2
  /\ TouchMoves(TRUE, Navigate(UserInput(deck), direction))

TouchEnd ==
  /\ touch.fingers > 0
  /\ touch' = [touch EXCEPT !.fingers = @ - 1, !.captured = FALSE,
                            !.acts = IF touch.fingers = 1 THEN 0 ELSE @]
  /\ UNCHANGED <<deck, loader>>

\* The system takes the touch over: no handler hears of it.
TouchCancel ==
  /\ touch.fingers > 0
  /\ touch' = [touch EXCEPT !.fingers = 0, !.acts = 0]
  /\ UNCHANGED <<deck, loader>>

-----------------------------------------------------------------------------
(* Timers and events.                                                      *)

AutoSlide ==
  /\ deck.autoTimer
  /\ Becomes(NavigateNext([deck EXCEPT !.autoTimer = FALSE]))
  /\ UNCHANGED touch

LayOutOverview ==
  /\ deck.overviewTimer
  /\ Becomes(UpdateSlidesVisibility([deck EXCEPT !.overviewTimer = FALSE, !.laidOut = TRUE]))
  /\ UNCHANGED touch

ResetStacks ==
  /\ deck.resets > 0
  /\ Becomes([deck EXCEPT !.resets = @ - 1,
                          !.resume = [h \in Columns |-> 0]])
  /\ UNCHANGED touch

\* The reader edits the URL, or goes through the browser's history.
HashEdited(hash) ==
  /\ hash # deck.hash
  /\ Becomes([deck EXCEPT !.hash = hash, !.hashEvents = @ + 1])
  /\ UNCHANGED touch

\* A handler reads the hash of now, which may not be the one of its event.
HashChange ==
  /\ deck.hashEvents > 0
  /\ Becomes(ReadURL([deck EXCEPT !.hashEvents = @ - 1]))
  /\ UNCHANGED touch

-----------------------------------------------------------------------------
Input ==
  \/ \E key \in Keys : KeyDown(key)
  \/ KeyElsewhere
  \/ \E arrow \in Arrows : ControlClicked(arrow)
  \/ ProgressClicked
  \/ MouseScroll
  \/ \E s \in Slides : OverviewSlideClicked(s)
  \/ PreviewLinkClicked \/ PreviewClosed
  \/ AutoSlidePlayerClick
  \/ TouchStart \/ Wiggle \/ Pinch \/ TouchEnd \/ TouchCancel
  \/ \E direction \in Swipes : Swipe(direction)
  \/ \E hash \in Hashes[deck.config] : HashEdited(hash)

Page ==
  \/ \E s \in loader.waiting : ScriptReady(s)
  \/ AutoSlide
  \/ LayOutOverview
  \/ ResetStacks
  \/ HashChange

Next ==
  \/ Input
  \/ Page

(* The browser runs every timer and event in the end, and every script     *)
(* that is asked for is loaded: what is pending again and again is run     *)
(* again and again.  This is weak fairness with ENABLED written out.       *)
Fairness ==
  /\ []<>(loader.waiting = {}) \/ []<><<\E s \in loader.waiting : ScriptReady(s)>>_vars
  /\ []<>(~deck.autoTimer) \/ []<><<AutoSlide>>_vars
  /\ []<>(~deck.overviewTimer) \/ []<><<LayOutOverview>>_vars
  /\ []<>(deck.resets = 0) \/ []<><<ResetStacks>>_vars
  /\ []<>(deck.hashEvents = 0) \/ []<><<HashChange>>_vars

Spec == Init /\ [][Next]_vars /\ Fairness

-----------------------------------------------------------------------------
(* Properties.                                                             *)

(* What the deck, the loader and the touch are made of; the deck is        *)
(* started once, however the scripts come in (load).                       *)
DeckTypeOK ==
  /\ deck.config \in Configs
  /\ Started(deck) => Current(deck) \in Slides
  /\ \A h \in Columns : deck.resume[h] \in 0 .. Rows(h) - 1
  /\ \A s \in Slides : deck.shown[s] \subseteq All(s)
  /\ deck.present \subseteq Verticals
  /\ deck.controls \subseteq Arrows
  /\ deck.player \in {"none", "stopped", "playing"}
  /\ deck.preview => \E s \in Slides : Previews(deck, s) # {}
  /\ deck.laidOut \/ deck.overviewTimer => deck.overview
  /\ deck.resets \in 0 .. MaxResets /\ deck.hashEvents \in 0 .. MaxEvents
  /\ loader.starts = (IF Started(deck) THEN 1 ELSE 0)
  /\ touch.fingers \in 0 .. MaxFingers /\ touch.captured \in BOOLEAN

\* Whether a handler showed another slide or fragment.
Acts(d, new) == Current(new) # Current(d) \/ Moved(d, new)

\* The arrows that would.
Effective == {arrow \in Arrows : Acts(deck, Navigate(deck, arrow))}

\* No arrow is lit in vain, and prev and next are lit when they act.
LitAsEffective(lit, effective) ==
  lit \subseteq effective /\ effective \cap {"prev", "next"} \subseteq lit

(* What the page shows of the position is the position: the progress bar   *)
(* counts the slides before the current one, whatever rows were visited    *)
(* and marked before (updateProgress), the current slide is displayed and  *)
(* its background the one marked present; outside the overview, in a deck  *)
(* that neither loops nor is reversed, an arrow that is lit does something *)
(* when it is clicked, and prev and next are lit whenever they would.      *)
ViewIsCurrent ==
  Started(deck) =>
    /\ deck.progress = Cardinality(Before(Current(deck)))
    /\ {<<deck.h>>, Section(Current(deck))} \subseteq deck.displayed
    /\ {x \in deck.backdrop : Len(x) = 1 \/ x[1] = deck.h} =
         {<<deck.h>>, Section(Current(deck))}
    /\ ~deck.overview /\ ~deck.config.loop /\ ~deck.config.rtl =>
         LitAsEffective(deck.controls, Effective)

(* The auto-slide timer is set exactly when the deck may go on by itself,  *)
(* through every input, pause, overview, fragment and slide (cueAutoSlide  *)
(* and its callers), and the player shows it as playing just then.         *)
AutoSlideIsArmed ==
  Started(deck) =>
    /\ deck.autoTimer = Eligible(deck)
    /\ deck.player # "none" => (deck.player = "playing") = deck.autoTimer

(* Slides leave nothing behind: the classes of the document are the states *)
(* of the current slide, no media plays on another, and at the first       *)
(* column, once its timers have fired, no stack remembers a row.           *)
NothingLeftBehind ==
  Started(deck) =>
    /\ deck.classes = ToSet(StatesOf(Current(deck)))
    /\ deck.playing \subseteq {Current(deck)}
    /\ deck.h = 0 /\ deck.resets = 0 => \A h \in Columns \ {0} : deck.resume[h] = 0

(* With history on, once every hashchange was answered, reading the hash   *)
(* would stay on the slide: it names the current one (writeURL, readURL),  *)
(* as long as the ids are distinct and parseInt reads no number from one.  *)
HashNamesCurrent ==
  Started(deck) /\ deck.config.history /\ deck.hashEvents = 0 =>
    Target(deck, deck.hash) = Current(deck)

(* "Each touch should only trigger one action": between two fingers put    *)
(* down the deck answers at most one gesture, however many are lifted.     *)
OneActionPerTouch == touch.acts <= 1

(* Left alone, a deck that does not loop comes to rest: the auto-slide     *)
(* goes fragment by fragment and row by row to an end and is not armed any *)
(* more, whatever hash events and timers fall between.                     *)
AutoSlideEnds ==
  (~deck.config.loop /\ ~deck.config.rtl /\ <>[][Page]_vars) => <>[](~deck.autoTimer)
=============================================================================
