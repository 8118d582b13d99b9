----------------------------- MODULE DeckSlides -----------------------------
(***************************************************************************)
(* The slides of a reveal.js deck and what it takes to move between them:  *)
(* slide() with everything it calls, fragments, the progress bar, the      *)
(* controls, the URL and the auto-slide timer.  A deck is a grid: columns  *)
(* of one plain slide or of a stack of vertical ones.                      *)
(*                                                                         *)
(* JavaScript runs a handler to its end, and one handler calls several of  *)
(* these functions in a row: each is an operator from a deck (a record) to *)
(* the deck it leaves, and Deck.tla composes them into actions.            *)
(*                                                                         *)
(* Left out: sizes and positions, what the backgrounds look like and their *)
(* parallax, the slide number.  A mobile device is a view distance.        *)
(***************************************************************************)
EXTENDS Integers, Sequences, SequencesExt, FiniteSetsExt

CONSTANTS
  Stack,          \* column -> number of its vertical slides, 0 for a plain one
  Fragments,      \* slide -> data-fragment-index of its fragments in order
  DataState,      \* section -> the names in its data-state
  DataAutoSlide,  \* section -> its data-autoslide, None if it has none
  StartRow,       \* column -> its data-start-indexv, None if it has none
  Links,          \* slide -> its links that lead elsewhere: "plain", "preview"
  Autoplay,       \* the slides that hold media with data-autoplay
  Id,             \* section -> its id, NoName if it has none
  Leading,        \* name -> the number parseInt reads from it, None if none
  Configs,        \* the configurations under study
  MaxValue,       \* Number.MAX_VALUE: beyond every column, its rest kept
  NoName

None == -1
Undefined == -99

Columns == DOMAIN Stack
Width == Cardinality(Columns)
IsStack(h) == Stack[h] > 0
Rows(h) == IF IsStack(h) THEN Stack[h] ELSE 1
Slides == UNION {{h} \X (0 .. Rows(h) - 1) : h \in Columns}
Column(h) == {s \in Slides : s[1] = h}
Verticals == {s \in Slides : IsStack(s[1])}
Section(s) == IF IsStack(s[1]) THEN s ELSE <<s[1]>>
Sections == {<<h>> : h \in Columns} \cup Verticals
All(s) == 1 .. Len(Fragments[s])
Distance(i, j) == IF i < j THEN j - i ELSE i - j
Precedes(t, s) == t[1] < s[1] \/ (t[1] = s[1] /\ t[2] < s[2])
Before(s) == {t \in Slides : Precedes(t, s)}

\* The states a slide carries: its column's, then its own.
StatesOf(s) == DataState[<<s[1]>>] \o (IF IsStack(s[1]) THEN DataState[s] ELSE <<>>)

(* A deck whose slide and column name the same state is no subject here:   *)
(* slide() counts occurrences, and takes a class off that is still named.  *)
ASSUME StatesDistinct == \A s \in Slides : IsInjective(StatesOf(s))
ASSUME MaxValueBeyond == MaxValue \in Int /\ MaxValue >= Width

(* Columns are numbered from 0; a deck without any starts nothing.         *)
ASSUME GridAssumption ==
  /\ IsFiniteSet(Columns) /\ Columns # {} /\ Columns = 0 .. Width - 1
  /\ Stack \in [Columns -> Nat]

ASSUME MarkupAssumption ==
  /\ Fragments \in [Slides -> Seq(Nat \cup {None})]
  /\ StartRow \in [Columns -> Int]
  /\ Leading \in [DOMAIN Leading -> Int] /\ NoName \notin DOMAIN Leading
  /\ \A x \in Sections : Id[x] \in DOMAIN Leading \cup {NoName}

ASSUME ConfigAssumption ==
  \A c \in Configs : c.viewDistance \in Nat /\ IsFiniteSet(DOMAIN c.dependencies)

Started(d) == d.h # Undefined
Current(d) == <<d.h, d.v>>

\* A slide with a right or a parent's right neighbour is not the last.
IsLastSlide(d) == d.h + 1 = Width /\ (IsStack(d.h) => d.v + 1 = Stack[d.h])

-----------------------------------------------------------------------------
(* Fragments.                                                              *)

(* sortFragments: the groups of one index in order, then the fragments     *)
(* without an index, numbered anew without gaps.                           *)
SortFragments(number, some) ==
  LET given == {number[i] : i \in some} \ {None}
  IN  [i \in DOMAIN number |->
         IF i \notin some THEN number[i]
         ELSE IF number[i] # None THEN Cardinality({g \in given : g < number[i]})
         ELSE Cardinality(given) + Cardinality({j \in some : j < i /\ number[j] = None})]

SortAllFragments(d) ==
  [d EXCEPT !.number = [s \in Slides |-> SortFragments(d.number[s], All(s))]]

AvailableFragments(d) ==
  LET s == Current(d)
  IN  [prev |-> Started(d) /\ d.config.fragments /\ d.shown[s] # {},
       next |-> Started(d) /\ d.config.fragments /\ d.shown[s] # All(s)]

AvailableRoutes(d) ==
  LET back  == d.h > 0 \/ d.config.loop
      forth == d.h < Width - 1 \/ d.config.loop
  IN  [left  |-> IF d.config.rtl THEN forth ELSE back,
       right |-> IF d.config.rtl THEN back ELSE forth,
       up    |-> d.v > 0,
       down  |-> IsStack(d.h) /\ d.v < Stack[d.h] - 1]

(* The arrows that are lit: a route, or a fragment along the slide's axis. *)
Lit(route, fragment, upright) ==
  LET lit == [left  |-> route.left \/ (fragment.prev /\ ~upright),
              right |-> route.right \/ (fragment.next /\ ~upright),
              up    |-> route.up \/ (fragment.prev /\ upright),
              down  |-> route.down \/ (fragment.next /\ upright),
              prev  |-> route.left \/ route.up \/ fragment.prev,
              next  |-> route.right \/ route.down \/ fragment.next]
  IN  {arrow \in DOMAIN lit : lit[arrow]}

UpdateControls(d) ==
  [d EXCEPT !.controls = Lit(AvailableRoutes(d), AvailableFragments(d), IsStack(d.h))]

\* Show what is numbered up to the last visible fragment and the offset.
ShowUpTo(d, s, number, offset) ==
  LET index == Max({None} \cup {number[i] : i \in d.shown[s]}) + offset
  IN  [d EXCEPT !.number[s] = number, !.shown[s] = {i \in All(s) : number[i] <= index}]

(* navigateFragment(null, offset): the fragments of the current slide are  *)
(* numbered, then the visible ones among them, and some shown or hidden.   *)
NavigateFragment(d, offset) ==
  LET s == Current(d)
  IN  IF d.config.fragments /\ All(s) # {}
      THEN UpdateControls(ShowUpTo(d, s,
             SortFragments(SortFragments(d.number[s], All(s)), d.shown[s]), offset))
      ELSE d

NextFragment(d) == NavigateFragment(d, 1)
PreviousFragment(d) == NavigateFragment(d, -1)

\* Whether navigateFragment says it changed anything.
Moved(old, new) == old.shown # new.shown

-----------------------------------------------------------------------------
(* What slide() refreshes.                                                 *)

(* updateProgress: the slides before the first that is marked present, in  *)
(* the columns up to the current one.                                      *)
UpdateProgress(d) ==
  LET marked == IF IsStack(d.h) THEN d.present ELSE d.present \cup {<<d.h, 0>>}
  IN  [d EXCEPT !.progress =
         Cardinality({s \in Slides : s[1] <= d.h /\ \A t \in marked : Precedes(s, t)})]

BugWriteURL(d) ==
  LET hash == <<"index", d.h, 0>>
  IN  IF d.config.history /\ hash # d.hash
      THEN [d EXCEPT !.hash = hash, !.hashEvents = @ + 1]
      ELSE d

(* writeURL: the name of the slide if it has one, otherwise its indices.   *)
(* The browser queues a hashchange when the hash is another.               *)
WriteURL(d) ==
  LET name == Id[Section(Current(d))]
      hash == IF name # NoName THEN <<"name", name>> ELSE <<"index", d.h, d.v>>
  IN  IF d.config.history /\ hash # d.hash
      THEN [d EXCEPT !.hash = hash, !.hashEvents = @ + 1]
      ELSE d

(* The time after which the current slide goes on by itself, 0 for never:  *)
(* its own attribute, that of its stack, the configured one.               *)
Duration(d) ==
  LET s == Current(d)
  IN  CASE DataAutoSlide[Section(s)] # None -> DataAutoSlide[Section(s)]
        [] DataAutoSlide[Section(s)] = None /\ IsStack(d.h)
             /\ DataAutoSlide[<<d.h>>] # None -> DataAutoSlide[<<d.h>>]
        [] OTHER -> d.config.autoSlide

Eligible(d) ==
  /\ Duration(d) > 0
  /\ ~d.autoSlidePaused
  /\ ~d.paused
  /\ ~d.overview
  /\ ~IsLastSlide(d) \/ d.config.loop

CancelAutoSlide(d) == [d EXCEPT !.autoTimer = FALSE]

SetPlaying(d, playing) ==
  [d EXCEPT !.player = IF @ = "none" THEN "none"
                       ELSE IF playing THEN "playing" ELSE "stopped"]

CueAutoSlide(d) ==
  IF Started(d)
  THEN LET armed == [d EXCEPT !.autoTimer = Eligible(d)]
       IN  SetPlaying(armed, armed.autoTimer)
  ELSE CancelAutoSlide(d)

(* The overview stops the auto-slide; its layout is made 10 ms later, by a *)
(* timer that each activation starts anew.                                 *)
ActivateOverview(d) ==
  IF d.config.overview
  THEN [CancelAutoSlide(d) EXCEPT !.overview = TRUE, !.overviewTimer = TRUE]
  ELSE d

-----------------------------------------------------------------------------
(* Moving to a slide.                                                      *)

\* setPreviousVerticalIndex, of a column that is a stack.
Remember(d, h, v) == IF IsStack(h) THEN [d EXCEPT !.resume[h] = v] ELSE d

(* getPreviousVerticalIndex: of no column, or of a plain one, it is 0.     *)
PreviousVertical(d, h) ==
  IF h \in Columns /\ IsStack(h)
  THEN IF StartRow[h] # None THEN StartRow[h] ELSE d.resume[h]
  ELSE 0

(* updateSlidesVisibility: the sections near enough to the current slide.  *)
(* Columns are counted in a circle, rows of other columns from the one the *)
(* column is resumed at; the rest of a division by zero counts as zero.    *)
UpdateSlidesVisibility(d) ==
  LET far == IF d.overview THEN 10 ELSE d.config.viewDistance
      circle == Distance(Width, far)
      across(h) == IF circle = 0 THEN 0 ELSE Distance(d.h, h) % circle
      down(s) == Distance(s[2], IF s[1] = d.h THEN d.v ELSE PreviousVertical(d, s[1]))
  IN  [d EXCEPT !.displayed = {<<h>> : h \in {k \in Columns : across(k) <= far}}
                              \cup {s \in Verticals : across(s[1]) + down(s) <= far}]

(* updateBackground: the backgrounds marked present, of columns always, of *)
(* rows only in the current column unless all are included.                *)
UpdateBackground(d, includeAll) ==
  [d EXCEPT !.backdrop =
     {<<d.h>>} \cup {s \in Verticals : IF includeAll \/ s[1] = d.h THEN s[2] = d.v ELSE s \in @}]

\* updateSlides: the index an index in 0 .. length - 1 stands for.
Bounded(d, index, length) ==
  LET i == IF d.config.loop THEN index % length ELSE index
  IN  IF i < 0 THEN 0 ELSE IF i < length THEN i ELSE length - 1

(* updateSlides for the columns, then for the rows of the present one:     *)
(* every earlier slide shows all of its fragments, every later one none.   *)
(* Rows of other columns keep the class present they have.                 *)
UpdateSlides(d, h, v) ==
  LET column == Bounded(d, h, Width)
      row == IF IsStack(column) THEN Bounded(d, v, Stack[column]) ELSE 0
      to == <<column, row>>
  IN  [d EXCEPT
        !.h = column,
        !.v = row,
        !.shown = [s \in Slides |-> IF s = to THEN d.shown[s]
                                    ELSE IF Precedes(s, to) THEN All(s) ELSE {}],
        !.present = (@ \ Column(column)) \cup ({to} \cap Verticals),
        !.state = StatesOf(to)]

(* The classes of the document: a state is added when the slide names it   *)
(* more often than the slide before did, and removed when less often.      *)
ApplyState(old, d) ==
  LET times(names, x) == Cardinality({i \in DOMAIN names : names[i] = x})
      gone == {x \in ToSet(old.state) : times(old.state, x) > times(d.state, x)}
      new  == {x \in ToSet(d.state) : times(d.state, x) > times(old.state, x)}
  IN  [d EXCEPT !.classes = (@ \cup new) \ gone]

BugPlayMedia(d, from) ==
  [d EXCEPT !.playing = @ \cup ({Current(d)} \cap Autoplay)]

(* stop- and startEmbeddedContent, for the media that start by themselves. *)
PlayMedia(d, from) ==
  [d EXCEPT !.playing = (@ \ {from}) \cup ({Current(d)} \cap Autoplay)]

BugLeaveSlide(d, from) ==
  [d EXCEPT !.resets = IF d.h = 0 THEN @ + 1 ELSE @]

(* When the deck arrives at the first column, a timer of 0 ms is set that  *)
(* makes every stack forget where it was left.                             *)
LeaveSlide(d, from) ==
  [d EXCEPT !.present = @ \ {from}, !.resets = IF d.h = 0 THEN @ + 1 ELSE @]

\* In the overview every move lays it out anew.
StayInOverview(d) == IF d.overview THEN ActivateOverview(d) ELSE d

(* What a move from d to another slide does besides; an arrival at the     *)
(* slide that was shown, at first the very first one, changes no media.    *)
Arrive(d, at) ==
  IF Current(at) = (IF Started(d) THEN Current(d) ELSE <<0, 0>>) THEN at
  ELSE PlayMedia(IF Started(d) THEN LeaveSlide(at, Current(d)) ELSE at, Current(d))

\* What slide() refreshes last, in this order.
Refresh(d) ==
  CueAutoSlide(WriteURL(UpdateBackground(UpdateProgress(UpdateControls(d)), FALSE)))

(* slide(h, v): v is read before the stack that is left is told its row.   *)
Slide(d, h, v) ==
  LET row == IF v = Undefined THEN PreviousVertical(d, h) ELSE v
      left == IF Started(d) THEN Remember(d, d.h, d.v) ELSE d
  IN  Refresh(Arrive(d, StayInOverview(ApplyState(d,
        UpdateSlidesVisibility(UpdateSlides(left, h, row))))))
=============================================================================
