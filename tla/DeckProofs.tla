------------------------------ MODULE DeckProofs ------------------------------
(***************************************************************************)
(* Proofs about Deck, for every deck, configuration and bound.             *)
(***************************************************************************)
EXTENDS Deck, FiniteSetTheorems, WellFoundedInduction, TLAPS

DeckFields ==
  {"config", "h", "v", "resume", "shown", "number", "present", "state", "classes",
   "controls", "progress", "playing", "displayed", "backdrop", "preview", "overview",
   "overviewTimer", "laidOut", "paused", "autoSlidePaused", "autoTimer", "player",
   "hash", "hashEvents", "resets"}

IsDeck(d) == d = [field \in DeckFields |-> d[field]]

\* A deck n that differs from d in some fields at most.
Differs(n, d, fields) ==
  /\ IsDeck(n)
  /\ \A field \in DeckFields \ fields : n[field] = d[field]

-----------------------------------------------------------------------------
(* The grid.                                                               *)

(* Columns are numbered from 0, and each has a row.                        *)
LEMMA Grid ==
  /\ Width \in Nat \ {0} /\ Columns = 0 .. Width - 1 /\ 0 \in Columns
  /\ \A h \in Columns : /\ Stack[h] \in Nat /\ Rows(h) \in Nat \ {0}
                        /\ IsStack(h) => Rows(h) = Stack[h]
                        /\ ~IsStack(h) => Rows(h) = 1
<1>1. Width \in Nat
  BY GridAssumption, FS_CardinalityType DEF Width
<1>2. Width # 0
  BY GridAssumption, FS_EmptySet DEF Width
<1>. QED
  BY <1>1, <1>2, GridAssumption DEF Rows, IsStack

(* A slide is a pair of a column and one of its rows.                      *)
LEMMA SlidePairs ==
  /\ \A h, v : <<h, v>> \in Slides <=> h \in Columns /\ v \in 0 .. Rows(h) - 1
  /\ \A s \in Slides : /\ s = <<s[1], s[2]>>
                       /\ s[1] \in Columns /\ s[1] \in Nat
                       /\ s[2] \in 0 .. Rows(s[1]) - 1 /\ s[2] \in Nat
<1>1. ASSUME NEW h, NEW v
      PROVE  <<h, v>> \in Slides <=> h \in Columns /\ v \in 0 .. Rows(h) - 1
  BY DEF Slides
<1>2. ASSUME NEW s \in Slides
      PROVE  s = <<s[1], s[2]>> /\ s[1] \in Columns /\ s[2] \in 0 .. Rows(s[1]) - 1
  BY DEF Slides
<1>. QED
  BY <1>1, <1>2, Grid

(* The slide of every deck that has started is on the grid.                *)
LEMMA CurrentPair ==
  ASSUME NEW d, Current(d) \in Slides
  PROVE  /\ d.h \in Columns /\ d.v \in 0 .. Rows(d.h) - 1 /\ d.h \in Nat /\ d.v \in Nat
         /\ Started(d)
         /\ ~IsStack(d.h) => d.v = 0
<1>1. d.h \in Columns /\ d.v \in 0 .. Rows(d.h) - 1
  BY SlidePairs DEF Current
<1>. QED
  BY <1>1, Grid DEF Started, Undefined

(* cueAutoSlide sets the timer and the player, and nothing else.           *)
LEMMA CueDiffers ==
  ASSUME NEW d, IsDeck(d), Started(d)
  PROVE  LET n == CueAutoSlide(d)
         IN  /\ Differs(n, d, {"autoTimer", "player"})
             /\ n.autoTimer = Eligible(d)
             /\ n.player = IF d.player = "none" THEN "none"
                           ELSE IF Eligible(d) THEN "playing" ELSE "stopped"
<1>1. Eligible(d) \in BOOLEAN
  BY DEF Eligible
<1>. DEFINE armed == [d EXCEPT !.autoTimer = Eligible(d)]
<1>2. IsDeck(armed) /\ Differs(armed, d, {"autoTimer"}) /\ armed.autoTimer = Eligible(d)
  BY DEF Differs, IsDeck, DeckFields
<1>3. CueAutoSlide(d) = [armed EXCEPT !.player = IF armed.player = "none" THEN "none"
                          ELSE IF armed.autoTimer THEN "playing" ELSE "stopped"]
  BY DEF CueAutoSlide, SetPlaying
<1>. QED
  BY <1>1, <1>2, <1>3 DEF Differs, IsDeck, DeckFields

-----------------------------------------------------------------------------
(* Moving to a slide, step by step: what slide() makes of the deck.        *)

ResumeOK(d) == /\ d.resume \in [Columns -> Nat]
               /\ \A k \in Columns : d.resume[k] < Rows(k)
ShownOK(d) == /\ d.shown = [s \in Slides |-> d.shown[s]]
              /\ \A s \in Slides : d.shown[s] \subseteq All(s)
NumberOK(d) == /\ d.number = [s \in Slides |-> d.number[s]]
               /\ \A s \in Slides : d.number[s] \in [All(s) -> Nat \cup {None}]
OthersForgotten(d) == \A k \in Columns \ {0} : d.resume[k] = 0

(* An index is brought into the range it is an index of.                   *)
LEMMA BoundedInRange ==
  ASSUME NEW d, NEW index \in Int, NEW length \in Nat \ {0}
  PROVE  Bounded(d, index, length) \in 0 .. length - 1
<1>1. index % length \in 0 .. length - 1
  OBVIOUS
<1>. QED
  BY <1>1 DEF Bounded

(* The row a column is resumed at is a number.                             *)
LEMMA PreviousVerticalInt ==
  ASSUME NEW d, NEW h, ResumeOK(d)
  PROVE  PreviousVertical(d, h) \in Int
BY MarkupAssumption DEF PreviousVertical, ResumeOK

(* The stack that is left is told its row, no other column is touched.     *)
LEMMA RememberDiffers ==
  ASSUME NEW d, IsDeck(d), ResumeOK(d), Current(d) \in Slides
  PROVE  LET n == Remember(d, d.h, d.v)
         IN  /\ Differs(n, d, {"resume"}) /\ ResumeOK(n)
             /\ \A k \in Columns : k # d.h => n.resume[k] = d.resume[k]
<1>1. d.h \in Columns /\ d.v \in Nat /\ d.v < Rows(d.h)
  BY CurrentPair, Grid
<1>. QED
  BY <1>1 DEF Remember, Differs, IsDeck, DeckFields, ResumeOK

(* updateSlides puts the deck on a slide of the grid.                      *)
LEMMA UpdateSlidesDiffers ==
  ASSUME NEW d, IsDeck(d), ShownOK(d), NEW h \in Int, NEW v \in Int
  PROVE  LET n == UpdateSlides(d, h, v)
         IN  /\ Differs(n, d, {"h", "v", "shown", "present", "state"})
             /\ Current(n) \in Slides /\ ShownOK(n)
             /\ n.present = (d.present \ Column(n.h)) \cup ({Current(n)} \cap Verticals)
             /\ n.state = StatesOf(Current(n))
             /\ n.h = Bounded(d, h, Width)
             /\ IsStack(n.h) => n.v = Bounded(d, v, Stack[n.h])
<1>. DEFINE column == Bounded(d, h, Width)
            row == IF IsStack(column) THEN Bounded(d, v, Stack[column]) ELSE 0
            to == <<column, row>>
            shown == [s \in Slides |-> IF s = to THEN d.shown[s]
                                       ELSE IF Precedes(s, to) THEN All(s) ELSE {}]
            n == [d EXCEPT
                   !.h = column,
                   !.v = row,
                   !.shown = shown,
                   !.present = (@ \ Column(column)) \cup ({to} \cap Verticals),
                   !.state = StatesOf(to)]
<1>1. column \in Columns
  BY BoundedInRange, Grid
<1>2. row \in 0 .. Rows(column) - 1
  <2>1. CASE IsStack(column)
    <3>1. Stack[column] \in Nat \ {0} /\ Rows(column) = Stack[column]
      BY <1>1, <2>1, Grid DEF IsStack
    <3>2. Bounded(d, v, Stack[column]) \in 0 .. Stack[column] - 1
      BY <3>1, BoundedInRange
    <3>. QED
      BY <2>1, <3>1, <3>2
  <2>2. CASE ~IsStack(column)
    BY <1>1, <2>2, Grid
  <2>. QED
    BY <2>1, <2>2
<1>3. to \in Slides
  BY <1>1, <1>2, SlidePairs
<1>4. \A s \in Slides : shown[s] \subseteq All(s)
  BY DEF ShownOK
<1>5. n = UpdateSlides(d, h, v)
  BY DEF UpdateSlides
<1>. HIDE DEF column, row, shown
<1>6. /\ Differs(n, d, {"h", "v", "shown", "present", "state"})
      /\ n.h = column /\ n.v = row /\ n.shown = shown
      /\ n.present = (d.present \ Column(column)) \cup ({to} \cap Verticals)
      /\ n.state = StatesOf(to)
  BY DEF Differs, IsDeck, DeckFields
<1>. HIDE DEF n
<1>7. Current(n) = to
  BY <1>6 DEF Current
<1>8. ShownOK(n)
  BY <1>4, <1>6 DEF ShownOK, shown
<1>9. n.h = Bounded(d, h, Width) /\ (IsStack(n.h) => n.v = Bounded(d, v, Stack[n.h]))
  BY <1>6 DEF column, row
<1>. QED
  BY <1>3, <1>5, <1>6, <1>7, <1>8, <1>9

(* Whatever is displayed, the current slide and its column are.            *)
LEMMA VisibilityDiffers ==
  ASSUME NEW d, IsDeck(d), d.config \in Configs, Current(d) \in Slides
  PROVE  LET n == UpdateSlidesVisibility(d)
         IN  /\ Differs(n, d, {"displayed"})
             /\ {<<d.h>>, Section(Current(d))} \subseteq n.displayed
<1>. DEFINE far == IF d.overview THEN 10 ELSE d.config.viewDistance
            circle == Distance(Width, far)
            across(k) == IF circle = 0 THEN 0 ELSE Distance(d.h, k) % circle
            down(s) == Distance(s[2], IF s[1] = d.h THEN d.v ELSE PreviousVertical(d, s[1]))
            displayed == {<<k>> : k \in {k \in Columns : across(k) <= far}}
                         \cup {s \in Verticals : across(s[1]) + down(s) <= far}
<1>1. far \in Nat
  BY ConfigAssumption
<1>2. circle \in Nat
  BY <1>1, Grid DEF Distance
<1>3. d.h \in Columns /\ d.h \in Nat /\ d.v \in Nat
  BY CurrentPair
<1>. HIDE DEF far, circle
<1>4. across(d.h) = 0
  <2>1. Distance(d.h, d.h) = 0
    BY <1>3 DEF Distance
  <2>2. circle # 0 => 0 % circle = 0
    BY <1>2
  <2>. QED
    BY <2>1, <2>2
<1>5. down(Current(d)) = 0
  BY <1>3 DEF Distance, Current
<1>. HIDE DEF across, down
<1>6. <<d.h>> \in displayed
  BY <1>1, <1>3, <1>4
<1>7. Section(Current(d)) \in displayed
  <2>1. CASE IsStack(d.h)
    <3>1. Current(d) \in Verticals /\ Current(d)[1] = d.h /\ Section(Current(d)) = Current(d)
      BY <2>1 DEF Verticals, Current, Section
    <3>. QED
      BY <1>1, <1>4, <1>5, <3>1
  <2>2. CASE ~IsStack(d.h)
    BY <1>6, <2>2 DEF Section, Current
  <2>. QED
    BY <2>1, <2>2
<1>8. UpdateSlidesVisibility(d) = [d EXCEPT !.displayed = displayed]
  BY DEF UpdateSlidesVisibility, far, circle, across, down
<1>. HIDE DEF displayed
<1>. QED
  BY <1>6, <1>7, <1>8 DEF Differs, IsDeck, DeckFields

(* A name occurs once in a list of distinct names, or not at all.          *)
LEMMA OccursOnce ==
  ASSUME NEW names, IsInjective(names), NEW x
  PROVE  Cardinality({i \in DOMAIN names : names[i] = x})
           = IF x \in ToSet(names) THEN 1 ELSE 0
<1>. DEFINE at == {i \in DOMAIN names : names[i] = x}
<1>1. CASE x \in ToSet(names)
  <2>1. PICK i \in DOMAIN names : names[i] = x
    BY <1>1 DEF ToSet
  <2>2. at = {i}
    BY <2>1 DEF IsInjective
  <2>. QED
    BY <1>1, <2>2, FS_Singleton
<1>2. CASE x \notin ToSet(names)
  <2>1. at = {}
    BY <1>2 DEF ToSet
  <2>. QED
    BY <1>2, <2>1, FS_EmptySet
<1>. QED
  BY <1>1, <1>2

(* Of distinct states the classes of the document become the new ones.     *)
LEMMA ApplyStateDiffers ==
  ASSUME NEW old, NEW d, IsDeck(d), d.classes = ToSet(old.state),
         IsInjective(old.state), IsInjective(d.state)
  PROVE  LET n == ApplyState(old, d)
         IN  Differs(n, d, {"classes"}) /\ n.classes = ToSet(d.state)
<1>. DEFINE times(names, x) == Cardinality({i \in DOMAIN names : names[i] = x})
            gone == {x \in ToSet(old.state) : times(old.state, x) > times(d.state, x)}
            new == {x \in ToSet(d.state) : times(d.state, x) > times(old.state, x)}
<1>1. \A x : /\ times(old.state, x) = IF x \in ToSet(old.state) THEN 1 ELSE 0
             /\ times(d.state, x) = IF x \in ToSet(d.state) THEN 1 ELSE 0
  BY OccursOnce
<1>2. ApplyState(old, d) = [d EXCEPT !.classes = (@ \cup new) \ gone]
  BY DEF ApplyState
<1>. HIDE DEF times
<1>3. (d.classes \cup new) \ gone = ToSet(d.state)
  BY <1>1
<1>. HIDE DEF new, gone
<1>. QED
  BY <1>2, <1>3 DEF Differs, IsDeck, DeckFields

(* The overview stays, and its layout is pending.                          *)
LEMMA OverviewDiffers ==
  ASSUME NEW d, IsDeck(d), d.laidOut \/ d.overviewTimer => d.overview
  PROVE  LET n == ActivateOverview(d)
             m == StayInOverview(d)
         IN  /\ Differs(n, d, {"overview", "overviewTimer", "autoTimer"})
             /\ n.laidOut \/ n.overviewTimer => n.overview
             /\ d.config.overview => n.overview /\ n.autoTimer = FALSE
             /\ ~d.config.overview => n = d
             /\ m = IF d.overview THEN n ELSE d
BY DEF StayInOverview, ActivateOverview, CancelAutoSlide, Differs, IsDeck, DeckFields

(* What is marked present and plays, once the slide left is cleared: the   *)
(* current slide at most.  At the first column either a timer is pending,  *)
(* or the deck was there before.                                           *)
LEMMA ArriveDiffers ==
  ASSUME NEW d, NEW at, IsDeck(at), Current(at) \in Slides,
         IF Started(d) THEN Current(d) \in Slides
                       ELSE Current(d) = <<Undefined, Undefined>>,
         at.present = ((({Current(d)} \cap Verticals) \ Column(at.h))
                        \cup ({Current(at)} \cap Verticals)),
         at.playing \subseteq {Current(d)} \cap Slides,
         at.resets \in Nat
  PROVE  LET n == Arrive(d, at)
         IN  /\ Differs(n, at, {"present", "resets", "playing"})
             /\ n.present = {Current(n)} \cap Verticals
             /\ n.playing \subseteq {Current(n)}
             /\ n.resets \in Nat
             /\ at.h = 0 /\ n.resets = 0 => at.resets = 0 /\ (Started(d) => d.h = 0)
             /\ ~Started(d) => n.resets = at.resets
<1>. DEFINE first == IF Started(d) THEN Current(d) ELSE <<0, 0>>
            left == LeaveSlide(at, Current(d))
            cleared == IF Started(d) THEN left ELSE at
            n == Arrive(d, at)
<1>1. /\ Differs(left, at, {"present", "resets"})
      /\ left.present = at.present \ {Current(d)}
      /\ left.resets = IF at.h = 0 THEN at.resets + 1 ELSE at.resets
  BY DEF LeaveSlide, Differs, IsDeck, DeckFields
<1>. HIDE DEF left
<1>2. at.h \in Columns /\ at.h \in Nat /\ at.v \in Nat
  BY CurrentPair
<1>3. ~Started(d) => Current(d) \notin Slides
  BY SlidePairs, Grid DEF Undefined
<1>4. Verticals \subseteq Slides
  BY DEF Verticals
<1>5. CASE Current(at) = first
  <2>1. n = at
    BY <1>5 DEF Arrive
  <2>2. at.present = {Current(at)} \cap Verticals /\ at.playing \subseteq {Current(at)}
    BY <1>3, <1>4, <1>5
  <2>3. Started(d) => d.h = at.h
    BY <1>5 DEF Current
  <2>. QED
    BY <2>1, <2>2, <2>3 DEF Differs
<1>6. CASE Current(at) # first
  <2>1. n = PlayMedia(cleared, Current(d))
    BY <1>6 DEF Arrive, left
  <2>2. /\ Differs(cleared, at, {"present", "resets"})
        /\ cleared.present = {Current(at)} \cap Verticals
        /\ cleared.resets = IF Started(d) /\ at.h = 0 THEN at.resets + 1 ELSE at.resets
    <3>1. CASE Started(d)
      BY <1>1, <1>6, <3>1
    <3>2. CASE ~Started(d)
      BY <1>3, <1>4, <3>2 DEF Differs
    <3>. QED
      BY <3>1, <3>2
  <2>. HIDE DEF cleared
  <2>3. Current(cleared) = Current(at) /\ cleared.playing = at.playing
    BY <2>2 DEF Differs, DeckFields, Current
  <2>4. /\ Differs(n, cleared, {"playing"})
        /\ n.playing = (cleared.playing \ {Current(d)}) \cup ({Current(cleared)} \cap Autoplay)
    BY <2>1, <2>2 DEF PlayMedia, Differs, IsDeck, DeckFields
  <2>. HIDE DEF n
  <2>5. Differs(n, at, {"present", "resets", "playing"})
    BY <2>2, <2>4 DEF Differs
  <2>6. Current(n) = Current(at) /\ n.present = cleared.present /\ n.resets = cleared.resets
    BY <2>2, <2>4 DEF Differs, DeckFields, Current
  <2>7. n.playing \subseteq {Current(n)}
    BY <2>3, <2>4, <2>6
  <2>. QED
    BY <2>2, <2>5, <2>6, <2>7 DEF n
<1>. QED
  BY <1>5, <1>6

-----------------------------------------------------------------------------
(* What slide() refreshes.                                                 *)

LitArrows(d) == Lit(AvailableRoutes(d), AvailableFragments(d), IsStack(d.h))

(* The lit arrows depend on the configuration, the slide and what is shown *)
(* of it.                                                                  *)
LEMMA SameArrows ==
  ASSUME NEW n, NEW d, n.config = d.config, n.h = d.h, n.v = d.v, n.shown = d.shown
  PROVE  LitArrows(n) = LitArrows(d)
<1>1. AvailableRoutes(n) = AvailableRoutes(d)
  BY DEF AvailableRoutes
<1>2. AvailableFragments(n) = AvailableFragments(d)
  BY DEF AvailableFragments, Current, Started
<1>. QED
  BY <1>1, <1>2 DEF LitArrows

(* updateControls lights the arrows.                                       *)
LEMMA ControlsDiffers ==
  ASSUME NEW d, IsDeck(d)
  PROVE  LET n == UpdateControls(d)
         IN  Differs(n, d, {"controls"}) /\ n.controls = LitArrows(d)
BY DEF UpdateControls, LitArrows, Differs, IsDeck, DeckFields

(* Where only the current slide is marked the bar counts what is before it.*)
LEMMA ProgressDiffers ==
  ASSUME NEW d, IsDeck(d), Current(d) \in Slides, d.present = {Current(d)} \cap Verticals
  PROVE  LET n == UpdateProgress(d)
         IN  Differs(n, d, {"progress"}) /\ n.progress = Cardinality(Before(Current(d)))
<1>. DEFINE marked == IF IsStack(d.h) THEN d.present ELSE d.present \cup {<<d.h, 0>>}
            counted == {s \in Slides : s[1] <= d.h /\ \A t \in marked : Precedes(s, t)}
<1>1. marked = {Current(d)}
  <2>1. CASE IsStack(d.h)
    BY <2>1 DEF Verticals, Current
  <2>2. CASE ~IsStack(d.h)
    BY <2>2, CurrentPair DEF Verticals, Current
  <2>. QED
    BY <2>1, <2>2
<1>. HIDE DEF marked
<1>2. counted = Before(Current(d))
  <2>1. \A s \in Slides : Precedes(s, Current(d)) => s[1] <= d.h
    BY CurrentPair, SlidePairs DEF Precedes, Current
  <2>. QED
    BY <1>1, <2>1 DEF Before
<1>3. UpdateProgress(d) = [d EXCEPT !.progress = Cardinality(counted)]
  BY DEF UpdateProgress, marked
<1>. HIDE DEF counted
<1>. QED
  BY <1>2, <1>3 DEF Differs, IsDeck, DeckFields

BackdropOK(d) ==
  {x \in d.backdrop : Len(x) = 1 \/ x[1] = d.h} = {<<d.h>>, Section(Current(d))}

(* The backgrounds of the current column and slide are marked present, and *)
(* no other one of the column is.                                          *)
LEMMA BackgroundDiffers ==
  ASSUME NEW d, IsDeck(d), Current(d) \in Slides, NEW all
  PROVE  LET n == UpdateBackground(d, all)
         IN  Differs(n, d, {"backdrop"}) /\ BackdropOK(n)
<1>. DEFINE backdrop == {<<d.h>>} \cup {s \in Verticals :
              IF all \/ s[1] = d.h THEN s[2] = d.v ELSE s \in d.backdrop}
            n == UpdateBackground(d, all)
<1>1. n = [d EXCEPT !.backdrop = backdrop]
  BY DEF UpdateBackground
<1>2. \A s \in Verticals : s \in Slides /\ Len(s) = 2 /\ s = <<s[1], s[2]>>
  BY SlidePairs DEF Verticals
<1>3. d.h \in Columns /\ Len(<<d.h>>) = 1
  BY CurrentPair
<1>4. {x \in backdrop : Len(x) = 1 \/ x[1] = d.h} = {<<d.h>>, Section(Current(d))}
  <2>1. CASE IsStack(d.h)
    <3>1. Current(d) \in Verticals /\ Section(Current(d)) = Current(d)
      BY <2>1 DEF Verticals, Section, Current
    <3>2. \A s \in Verticals : s[1] = d.h /\ s[2] = d.v <=> s = Current(d)
      BY <1>2, <3>1 DEF Current
    <3>. QED
      BY <1>2, <1>3, <3>1, <3>2
  <2>2. CASE ~IsStack(d.h)
    <3>1. Section(Current(d)) = <<d.h>>
      BY <2>2 DEF Section, Current
    <3>2. \A s \in Verticals : s[1] # d.h
      BY <2>2 DEF Verticals
    <3>. QED
      BY <1>2, <1>3, <3>1, <3>2
  <2>. QED
    BY <2>1, <2>2
<1>. HIDE DEF backdrop
<1>5. Differs(n, d, {"backdrop"}) /\ n.backdrop = backdrop
  BY <1>1 DEF Differs, IsDeck, DeckFields
<1>6. n.h = d.h /\ Current(n) = Current(d)
  BY <1>5 DEF Differs, DeckFields, Current
<1>. QED
  BY <1>4, <1>5, <1>6 DEF BackdropOK

(* The ids are distinct, and parseInt takes none of them for a number.     *)
IdsAreNames ==
  \A x \in Sections : Id[x] # NoName =>
    Leading[Id[x]] = None /\ \A y \in Sections : Id[y] = Id[x] => y = x

HashOK(hash) == \/ hash[1] = "index" /\ hash[2] \in Int /\ hash[3] \in Int
                \/ hash[1] = "name" /\ hash[2] \in DOMAIN Leading

Points(d) == d.config.history /\ d.hashEvents = 0 => Target(d, d.hash) = Current(d)

(* writeURL leaves a hash that points to the current slide.                *)
LEMMA URLDiffers ==
  ASSUME NEW d, IsDeck(d), Current(d) \in Slides, HashOK(d.hash), d.hashEvents \in Nat
  PROVE  LET n == WriteURL(d)
         IN  /\ Differs(n, d, {"hash", "hashEvents"})
             /\ HashOK(n.hash) /\ n.hashEvents \in {d.hashEvents, d.hashEvents + 1}
             /\ IdsAreNames => Points(n)
<1>. DEFINE section == Section(Current(d))
            name == Id[section]
            hash == IF name # NoName THEN <<"name", name>> ELSE <<"index", d.h, d.v>>
            n == WriteURL(d)
<1>1. section \in Sections /\ d.h \in Nat /\ d.v \in Nat
  BY CurrentPair DEF Section, Sections, Verticals, Current
<1>2. HashOK(hash)
  BY <1>1, MarkupAssumption DEF HashOK
<1>3. /\ Differs(n, d, {"hash", "hashEvents"})
      /\ n.hash = IF d.config.history THEN hash ELSE d.hash
      /\ n.hashEvents \in {d.hashEvents, d.hashEvents + 1}
  BY DEF WriteURL, Differs, IsDeck, DeckFields
<1>4. ASSUME IdsAreNames
      PROVE  Target(d, hash) = Current(d)
  <2>1. CASE name = NoName
    BY <2>1 DEF Target, Current
  <2>2. CASE name # NoName
    <3>1. Leading[name] = None /\ Named(name) = {section}
      BY <1>1, <1>4, <2>2 DEF IdsAreNames, Named
    <3>2. hash[1] = "name" /\ hash[2] = name
      BY <2>2
    <3>. HIDE DEF hash, name
    <3>3. Target(d, hash) = Indices(d, section)
      BY <3>1, <3>2 DEF Target
    <3>4. CASE IsStack(d.h)
      BY <3>3, <3>4 DEF Indices, Section, Current, Verticals
    <3>5. CASE ~IsStack(d.h)
      <4>1. section = <<d.h>> /\ section[1] = d.h
        BY <3>5 DEF Section, Current
      <4>2. section \notin Verticals
        BY <3>5, <4>1 DEF Verticals
      <4>. QED
        BY <3>3, <4>1, <4>2 DEF Indices, Current
    <3>. QED
      BY <3>4, <3>5
  <2>. QED
    BY <2>1, <2>2
<1>. HIDE DEF hash
<1>5. /\ n.config = d.config /\ n.h = d.h /\ n.v = d.v
      /\ n.hash = IF d.config.history THEN hash ELSE d.hash
  BY <1>3 DEF Differs, DeckFields
<1>. HIDE DEF n
<1>6. Target(n, hash) = Target(d, hash) /\ Current(n) = Current(d)
  BY <1>5 DEF Target, Indices, Started, Current
<1>7. IdsAreNames => Points(n)
  BY <1>4, <1>5, <1>6 DEF Points
<1>8. HashOK(n.hash)
  BY <1>2, <1>5
<1>. QED
  BY <1>3, <1>7, <1>8 DEF n

-----------------------------------------------------------------------------
(* The invariant of a deck, and slide() as a whole.                        *)

\* What holds of the deck's own state, before it starts as well ...
Basics(d) ==
  /\ IsDeck(d) /\ d.config \in Configs
  /\ IF Started(d) THEN Current(d) \in Slides ELSE Current(d) = <<Undefined, Undefined>>
  /\ ResumeOK(d) /\ ShownOK(d) /\ NumberOK(d)
  /\ d.present = {Current(d)} \cap Verticals
  /\ d.state = IF Started(d) THEN StatesOf(Current(d)) ELSE <<>>
  /\ d.classes = ToSet(d.state)
  /\ d.playing \subseteq {Current(d)} \cap Slides
  /\ (Started(d) => d.h = 0) /\ d.resets = 0 => OthersForgotten(d)
  /\ d.laidOut \/ d.overviewTimer => d.overview
  /\ d.player \in {"none", "stopped", "playing"} /\ (d.player # "none" => d.config.stoppable)
  /\ d.preview => \E s \in Slides : Previews(d, s) # {}
  /\ d.resets \in Nat /\ d.hashEvents \in Nat /\ HashOK(d.hash)

\* ... and of what the page shows of it, once it has started.
Looks(d) ==
  /\ d.progress = Cardinality(Before(Current(d)))
  /\ {<<d.h>>, Section(Current(d))} \subseteq d.displayed
  /\ BackdropOK(d)
  /\ d.controls = LitArrows(d)
  /\ IdsAreNames => Points(d)

Placed(d) == Basics(d) /\ Started(d) /\ Looks(d)

Armed(d) ==
  /\ d.autoTimer = Eligible(d)
  /\ d.player # "none" => d.player = IF Eligible(d) THEN "playing" ELSE "stopped"

(* Whether the deck may go on by itself depends on these fields.           *)
LEMMA SameEligible ==
  ASSUME NEW n, NEW d, n.config = d.config, n.h = d.h, n.v = d.v,
         n.autoSlidePaused = d.autoSlidePaused, n.paused = d.paused,
         n.overview = d.overview
  PROVE  Eligible(n) = Eligible(d)
<1>1. Duration(n) = Duration(d)
  BY DEF Duration, Current
<1>. QED
  BY <1>1 DEF Eligible, IsLastSlide

(* What slide() refreshes last: the page shows the slide the deck is on,   *)
(* and the auto-slide is armed if it may go on.                            *)
LEMMA RefreshDiffers ==
  ASSUME NEW d, IsDeck(d), Current(d) \in Slides, d.present = {Current(d)} \cap Verticals,
         HashOK(d.hash), d.hashEvents \in Nat,
         {<<d.h>>, Section(Current(d))} \subseteq d.displayed
  PROVE  LET n == Refresh(d)
         IN  /\ Differs(n, d, {"controls", "progress", "backdrop", "hash", "hashEvents",
                               "autoTimer", "player"})
             /\ Looks(n) /\ Armed(n)
             /\ HashOK(n.hash) /\ n.hashEvents \in {d.hashEvents, d.hashEvents + 1}
             /\ n.player \in {d.player, "playing", "stopped"}
             /\ d.player = "none" => n.player = "none"
<1>. DEFINE a == UpdateControls(d)
            b == UpdateProgress(a)
            c == UpdateBackground(b, FALSE)
            e == WriteURL(c)
            n == CueAutoSlide(e)
<1>1. Differs(a, d, {"controls"}) /\ a.controls = LitArrows(d)
  BY ControlsDiffers
<1>. HIDE DEF a
<1>2. /\ IsDeck(a) /\ a.h = d.h /\ a.v = d.v /\ Current(a) = Current(d)
      /\ a.present = d.present
  BY <1>1 DEF Differs, DeckFields, Current
<1>3. Differs(b, a, {"progress"}) /\ b.progress = Cardinality(Before(Current(d)))
  BY <1>2, ProgressDiffers
<1>. HIDE DEF b
<1>4. IsDeck(b) /\ b.h = d.h /\ b.v = d.v /\ Current(b) = Current(d)
  BY <1>2, <1>3 DEF Differs, DeckFields, Current
<1>5. Differs(c, b, {"backdrop"}) /\ BackdropOK(c)
  BY <1>4, BackgroundDiffers
<1>. HIDE DEF c
<1>6. /\ IsDeck(c) /\ c.h = d.h /\ c.v = d.v /\ Current(c) = Current(d)
      /\ c.hash = d.hash /\ c.hashEvents = d.hashEvents
  BY <1>1, <1>2, <1>3, <1>4, <1>5 DEF Differs, DeckFields, Current
<1>7. /\ Differs(e, c, {"hash", "hashEvents"})
      /\ HashOK(e.hash) /\ e.hashEvents \in {d.hashEvents, d.hashEvents + 1}
      /\ IdsAreNames => Points(e)
  BY <1>6, URLDiffers
<1>. HIDE DEF e
<1>8. /\ IsDeck(e) /\ e.h = d.h /\ e.v = d.v /\ Current(e) = Current(d)
      /\ e.player = d.player /\ Started(e)
  BY <1>1, <1>3, <1>5, <1>6, <1>7, CurrentPair DEF Differs, DeckFields, Current, Started
<1>9. /\ Differs(n, e, {"autoTimer", "player"})
      /\ n.autoTimer = Eligible(e)
      /\ n.player = IF e.player = "none" THEN "none"
                    ELSE IF Eligible(e) THEN "playing" ELSE "stopped"
  BY <1>8, CueDiffers
<1>. HIDE DEF n
<1>10. Differs(n, d, {"controls", "progress", "backdrop", "hash", "hashEvents",
                      "autoTimer", "player"})
  BY <1>1, <1>3, <1>5, <1>7, <1>9 DEF Differs
<1>11. /\ n.config = e.config /\ n.config = d.config
       /\ n.h = d.h /\ n.v = d.v /\ n.h = e.h /\ n.v = e.v /\ n.h = c.h
       /\ n.shown = d.shown /\ Current(n) = Current(d) /\ Current(n) = Current(e)
       /\ n.autoSlidePaused = e.autoSlidePaused /\ n.paused = e.paused
       /\ n.overview = e.overview
       /\ n.displayed = d.displayed
       /\ n.hash = e.hash /\ n.hashEvents = e.hashEvents
  BY <1>6, <1>8, <1>9, <1>10 DEF Differs, DeckFields, Current
<1>12. /\ n.controls = a.controls /\ n.progress = b.progress /\ n.backdrop = c.backdrop
  BY <1>3, <1>5, <1>7, <1>9 DEF Differs, DeckFields
<1>13. Armed(n)
  <2>1. Eligible(n) = Eligible(e)
    BY <1>11, SameEligible
  <2>. QED
    BY <1>9, <2>1 DEF Armed
<1>14. Looks(n)
  <2>1. n.controls = LitArrows(n)
    BY <1>1, <1>11, <1>12, SameArrows
  <2>2. BackdropOK(n)
    BY <1>5, <1>6, <1>11, <1>12 DEF BackdropOK
  <2>3. IdsAreNames => Points(n)
    <3>1. Target(n, n.hash) = Target(e, e.hash)
      BY <1>11 DEF Target, Indices, Started, Current
    <3>. QED
      BY <1>7, <1>11, <3>1 DEF Points
  <2>. QED
    BY <1>3, <1>11, <1>12, <2>1, <2>2, <2>3 DEF Looks
<1>15. n = Refresh(d)
  BY DEF Refresh, a, b, c, e, n
<1>. QED
  BY <1>7, <1>8, <1>9, <1>10, <1>11, <1>13, <1>14, <1>15

(* Wherever it is sent, slide() leaves a deck that is somewhere, shows it, *)
(* and has left nothing behind.                                            *)
LEMMA SlidePlaces ==
  ASSUME NEW d, Basics(d), NEW h \in Int, NEW v \in Int
  PROVE  LET n == Slide(d, h, v)
         IN  /\ Placed(n) /\ Armed(n)
             /\ n.h = Bounded(d, h, Width)
             /\ v # Undefined /\ IsStack(n.h) => n.v = Bounded(d, v, Stack[n.h])
             /\ n.config = d.config
             /\ n.hashEvents \in {d.hashEvents, d.hashEvents + 1}
             /\ ~Started(d) => n.resets = d.resets
<1>. DEFINE row == IF v = Undefined THEN PreviousVertical(d, h) ELSE v
            left == IF Started(d) THEN Remember(d, d.h, d.v) ELSE d
            moved == UpdateSlides(left, h, row)
            seen == UpdateSlidesVisibility(moved)
            named == ApplyState(d, seen)
            laid == StayInOverview(named)
            there == Arrive(d, laid)
            n == Refresh(there)
<1>1. row \in Int
  BY PreviousVerticalInt DEF Basics
<1>. HIDE DEF row
<1>2. /\ Differs(left, d, {"resume"}) /\ ResumeOK(left)
      /\ IF Started(d) THEN \A k \in Columns : k # d.h => left.resume[k] = d.resume[k]
                       ELSE left = d
  <2>1. CASE Started(d)
    BY <2>1, RememberDiffers DEF Basics
  <2>2. CASE ~Started(d)
    BY <2>2 DEF Basics, Differs
  <2>. QED
    BY <2>1, <2>2
<1>. HIDE DEF left
<1>3. /\ IsDeck(left) /\ ShownOK(left) /\ left.shown = d.shown /\ left.config = d.config
      /\ left.present = d.present
  BY <1>2 DEF Differs, DeckFields, Basics, ShownOK
<1>4. /\ Differs(moved, left, {"h", "v", "shown", "present", "state"})
      /\ Current(moved) \in Slides /\ ShownOK(moved)
      /\ moved.present = (left.present \ Column(moved.h)) \cup ({Current(moved)} \cap Verticals)
      /\ moved.state = StatesOf(Current(moved))
      /\ moved.h = Bounded(left, h, Width)
      /\ IsStack(moved.h) => moved.v = Bounded(left, row, Stack[moved.h])
  BY <1>1, <1>3, UpdateSlidesDiffers
<1>. HIDE DEF moved
<1>5. /\ IsDeck(moved) /\ moved.config = d.config /\ moved.config \in Configs
      /\ moved.classes = d.classes
  BY <1>2, <1>4 DEF Differs, DeckFields, Basics
<1>6. /\ Differs(seen, moved, {"displayed"})
      /\ {<<moved.h>>, Section(Current(moved))} \subseteq seen.displayed
  BY <1>4, <1>5, VisibilityDiffers
<1>. HIDE DEF seen
<1>7. /\ IsDeck(seen) /\ seen.h = moved.h /\ seen.v = moved.v
      /\ seen.state = moved.state /\ seen.classes = d.classes
  BY <1>5, <1>6 DEF Differs, DeckFields
<1>8. IsInjective(d.state) /\ IsInjective(seen.state)
  <2>1. IsInjective(<<>>)
    BY DEF IsInjective
  <2>. QED
    BY <1>4, <1>7, <2>1, StatesDistinct DEF Basics
<1>9. Differs(named, seen, {"classes"}) /\ named.classes = ToSet(seen.state)
  BY <1>7, <1>8, ApplyStateDiffers DEF Basics
<1>. HIDE DEF named
<1>10. IsDeck(named) /\ (named.laidOut \/ named.overviewTimer => named.overview)
  BY <1>2, <1>4, <1>6, <1>9 DEF Differs, DeckFields, Basics
<1>11. /\ Differs(laid, named, {"overview", "overviewTimer", "autoTimer"})
       /\ laid.laidOut \/ laid.overviewTimer => laid.overview
  <2>1. /\ Differs(ActivateOverview(named), named, {"overview", "overviewTimer", "autoTimer"})
        /\ LET m == ActivateOverview(named) IN m.laidOut \/ m.overviewTimer => m.overview
        /\ laid = IF named.overview THEN ActivateOverview(named) ELSE named
    BY <1>10, OverviewDiffers
  <2>2. Differs(named, named, {"overview", "overviewTimer", "autoTimer"})
    BY <1>10 DEF Differs
  <2>. HIDE DEF laid
  <2>. QED
    BY <1>10, <2>1, <2>2
<1>. HIDE DEF laid
<1>12. Differs(laid, d, {"resume", "h", "v", "shown", "present", "state", "displayed",
                         "classes", "overview", "overviewTimer", "autoTimer"})
  BY <1>2, <1>4, <1>6, <1>9, <1>11 DEF Differs
<1>13. /\ laid.h = moved.h /\ laid.v = moved.v /\ Current(laid) = Current(moved)
       /\ laid.resume = left.resume /\ laid.shown = moved.shown
       /\ laid.present = moved.present /\ laid.state = moved.state
       /\ laid.displayed = seen.displayed /\ laid.classes = named.classes
       /\ laid.playing = d.playing /\ laid.resets = d.resets
  BY <1>2, <1>4, <1>6, <1>9, <1>11 DEF Differs, DeckFields, Current
<1>14. /\ Differs(there, laid, {"present", "resets", "playing"})
       /\ there.present = {Current(there)} \cap Verticals
       /\ there.playing \subseteq {Current(there)}
       /\ there.resets \in Nat
       /\ laid.h = 0 /\ there.resets = 0 => laid.resets = 0 /\ (Started(d) => d.h = 0)
       /\ ~Started(d) => there.resets = laid.resets
  <2>1. /\ IsDeck(laid) /\ Current(laid) \in Slides /\ laid.resets \in Nat
        /\ IF Started(d) THEN Current(d) \in Slides ELSE Current(d) = <<Undefined, Undefined>>
        /\ laid.playing \subseteq {Current(d)} \cap Slides
    BY <1>4, <1>12, <1>13 DEF Differs, Basics
  <2>2. laid.present = (({Current(d)} \cap Verticals) \ Column(laid.h))
                         \cup ({Current(laid)} \cap Verticals)
    BY <1>3, <1>4, <1>13 DEF Basics
  <2>. QED
    BY <2>1, <2>2, ArriveDiffers
<1>. HIDE DEF there
<1>15. Differs(there, d, {"resume", "h", "v", "shown", "present", "state", "displayed",
                          "classes", "overview", "overviewTimer", "autoTimer",
                          "resets", "playing"})
  BY <1>12, <1>14 DEF Differs
<1>16. /\ IsDeck(there) /\ there.h = moved.h /\ there.v = moved.v
       /\ Current(there) = Current(moved)
       /\ there.hash = d.hash /\ there.hashEvents = d.hashEvents
       /\ there.player = d.player
       /\ there.displayed = seen.displayed
  BY <1>13, <1>14, <1>15 DEF Differs, DeckFields, Current
<1>17. /\ Differs(n, there, {"controls", "progress", "backdrop", "hash", "hashEvents",
                             "autoTimer", "player"})
       /\ Looks(n) /\ Armed(n)
       /\ HashOK(n.hash) /\ n.hashEvents \in {there.hashEvents, there.hashEvents + 1}
       /\ n.player \in {there.player, "playing", "stopped"}
       /\ there.player = "none" => n.player = "none"
  BY <1>4, <1>6, <1>14, <1>16, RefreshDiffers DEF Basics
<1>. HIDE DEF n
<1>18. Differs(n, d, {"resume", "h", "v", "shown", "present", "state", "displayed",
                      "classes", "overview", "overviewTimer", "autoTimer",
                      "resets", "playing", "controls", "progress", "backdrop", "hash",
                      "hashEvents", "player"})
  BY <1>15, <1>17 DEF Differs
<1>19. /\ n.h = moved.h /\ n.v = moved.v /\ Current(n) = Current(moved)
       /\ n.resume = left.resume /\ n.shown = moved.shown
       /\ n.present = there.present /\ n.state = moved.state
       /\ n.classes = named.classes /\ n.playing = there.playing /\ n.resets = there.resets
       /\ n.laidOut = laid.laidOut /\ n.overviewTimer = laid.overviewTimer
       /\ n.overview = laid.overview
       /\ Current(n) = Current(there)
  BY <1>13, <1>14, <1>16, <1>17 DEF Differs, DeckFields, Current
<1>20. /\ n.config = d.config /\ n.number = d.number /\ n.preview = d.preview
  BY <1>18 DEF Differs, DeckFields
<1>21. Basics(n)
  <2>1. IsDeck(n) /\ n.config \in Configs /\ Started(n) /\ Current(n) \in Slides
    BY <1>4, <1>18, <1>19, <1>20, CurrentPair DEF Differs, Basics
  <2>2. ResumeOK(n) /\ ShownOK(n) /\ NumberOK(n)
    BY <1>2, <1>4, <1>19, <1>20 DEF Basics, ResumeOK, ShownOK, NumberOK
  <2>3. /\ n.present = {Current(n)} \cap Verticals
        /\ n.state = StatesOf(Current(n)) /\ n.classes = ToSet(n.state)
        /\ n.playing \subseteq {Current(n)} \cap Slides
    BY <1>4, <1>7, <1>9, <1>14, <1>19
  <2>4. n.h = 0 /\ n.resets = 0 => OthersForgotten(n)
    <3>. SUFFICES ASSUME n.h = 0, n.resets = 0
                  PROVE  OthersForgotten(n)
      OBVIOUS
    <3>1. d.resets = 0 /\ (Started(d) => d.h = 0)
      BY <1>13, <1>14, <1>19
    <3>2. OthersForgotten(d)
      BY <3>1 DEF Basics
    <3>. QED
      BY <1>2, <1>19, <3>1, <3>2 DEF OthersForgotten
  <2>5. n.laidOut \/ n.overviewTimer => n.overview
    BY <1>11, <1>19
  <2>6. /\ n.player \in {"none", "stopped", "playing"}
        /\ n.player # "none" => n.config.stoppable
    BY <1>16, <1>17, <1>20 DEF Basics
  <2>7. n.preview => \E s \in Slides : Previews(n, s) # {}
    BY <1>20 DEF Basics, Previews
  <2>8. n.resets \in Nat /\ n.hashEvents \in Nat /\ HashOK(n.hash)
    BY <1>14, <1>16, <1>17, <1>19 DEF Basics
  <2>. QED
    BY <2>1, <2>2, <2>3, <2>4, <2>5, <2>6, <2>7, <2>8 DEF Basics
<1>22. Placed(n)
  BY <1>4, <1>17, <1>19, <1>21, CurrentPair DEF Placed
<1>23. \A i, length : Bounded(left, i, length) = Bounded(d, i, length)
  BY <1>3 DEF Bounded
<1>24. n = Slide(d, h, v)
  BY DEF Slide, row, left, moved, seen, named, laid, there, n
<1>25. /\ n.h = Bounded(d, h, Width)
       /\ v # Undefined /\ IsStack(n.h) => n.v = Bounded(d, v, Stack[n.h])
  BY <1>4, <1>19, <1>23 DEF row
<1>26. /\ n.config = d.config
       /\ n.hashEvents \in {d.hashEvents, d.hashEvents + 1}
       /\ ~Started(d) => n.resets = d.resets
  BY <1>13, <1>14, <1>16, <1>17, <1>19, <1>20
<1>. QED
  BY <1>17, <1>22, <1>24, <1>25, <1>26 DEF row

-----------------------------------------------------------------------------
(* Fragments: the numbers they are given have no gaps, so that one more or *)
(* one less is always another set of fragments.                            *)

(* A nonempty set of naturals has a least element: nothing is below it.    *)
LEMMA LeastNat ==
  ASSUME NEW S, S # {}, \A x \in S : x \in Nat
  PROVE  \E x \in S : \A y \in S : x <= y
<1>. DEFINE below(x) == {y \in S : y < x}
            T == {below(x) : x \in S}
            R == StrictSubsetOrdering(S)
<1>1. ASSUME NEW x \in S
      PROVE  IsFiniteSet(below(x)) /\ below(x) \subseteq S
  <2>1. IsFiniteSet(0 .. x)
    BY FS_Interval
  <2>2. below(x) \subseteq 0 .. x
    OBVIOUS
  <2>. QED
    BY <2>1, <2>2, FS_Subset
<1>2. T \subseteq FiniteSubsetsOf(S) /\ T # {}
  BY <1>1 DEF FiniteSubsetsOf
<1>3. IsWellFoundedOn(R, FiniteSubsetsOf(S))
  BY FS_StrictSubsetOrderingWellFounded
<1>. HIDE DEF T, R
<1>4. PICK least \in T : \A U \in T : ~(<<U, least>> \in R)
  BY <1>2, <1>3, WFMin
<1>5. PICK x \in S : least = below(x)
  BY DEF T
<1>6. ASSUME NEW y \in S, y < x
      PROVE  FALSE
  <2>1. below(y) \subseteq below(x) /\ y \in below(x) /\ y \notin below(y)
    BY <1>6
  <2>2. below(y) \in T
    BY DEF T
  <2>3. <<below(y), below(x)>> \in R
    BY <1>1, <2>1 DEF R, StrictSubsetOrdering
  <2>. QED
    BY <1>4, <1>5, <2>2, <2>3
<1>. QED
  BY <1>6

(* A nonempty finite set of integers has a greatest element: the one that  *)
(* fewest are above.                                                       *)
LEMMA GreatestInt ==
  ASSUME NEW S, IsFiniteSet(S), S # {}, \A x \in S : x \in Int
  PROVE  Max(S) \in S /\ \A y \in S : y <= Max(S)
<1>. DEFINE above(x) == {y \in S : y > x}
            ranks == {Cardinality(above(x)) : x \in S}
<1>1. \A x \in S : IsFiniteSet(above(x)) /\ Cardinality(above(x)) \in Nat
  BY FS_Subset, FS_CardinalityType
<1>2. ranks # {} /\ \A r \in ranks : r \in Nat
  BY <1>1
<1>3. PICK r \in ranks : \A q \in ranks : r <= q
  BY <1>2, LeastNat
<1>4. PICK x \in S : r = Cardinality(above(x))
  OBVIOUS
<1>5. ASSUME NEW y \in S, y > x
      PROVE  FALSE
  <2>1. above(y) \subseteq above(x) /\ y \in above(x) /\ y \notin above(y)
    BY <1>5
  <2>2. /\ Cardinality(above(y)) <= Cardinality(above(x))
        /\ Cardinality(above(y)) # Cardinality(above(x))
    BY <1>1, <2>1, FS_Subset
  <2>3. Cardinality(above(x)) <= Cardinality(above(y))
    BY <1>3, <1>4
  <2>. QED
    BY <1>1, <2>2, <2>3
<1>6. \A y \in S : x >= y
  BY <1>5
<1>. QED
  BY <1>6 DEF Max

(* What a function makes of a finite set is finite.                        *)
LEMMA ImageFinite ==
  ASSUME NEW f, NEW S, IsFiniteSet(S)
  PROVE  IsFiniteSet({f[i] : i \in S})
<1>. DEFINE T == {f[i] : i \in S}
            g == [i \in S |-> f[i]]
<1>1. g \in Surjection(S, T)
  BY DEF Surjection
<1>. QED
  BY <1>1, FS_Surjection

(* One element of a finite set of integers has all others below it.        *)
LEMMA LastOne ==
  ASSUME NEW G, IsFiniteSet(G), G # {}, \A g \in G : g \in Int
  PROVE  \E m \in G : /\ \A g \in G : g <= m
                      /\ Cardinality({g \in G : g < m}) = Cardinality(G) - 1
                      /\ Cardinality(G) \in Nat
<1>. DEFINE m == Max(G)
            below == {g \in G : g < m}
<1>1. m \in G /\ \A g \in G : g <= m
  BY GreatestInt
<1>2. IsFiniteSet(below) /\ Cardinality(below) \in Nat
  BY FS_Subset, FS_CardinalityType
<1>. HIDE DEF m
<1>3. G = below \cup {m} /\ m \notin below
  BY <1>1
<1>. HIDE DEF below
<1>4. Cardinality(G) = Cardinality(below) + 1
  BY <1>2, <1>3, FS_AddElement
<1>5. Cardinality({g \in G : g < m}) = Cardinality(G) - 1 /\ Cardinality(G) \in Nat
  <2>1. Cardinality(below) = Cardinality(G) - 1 /\ Cardinality(G) \in Nat
    BY <1>2, <1>4
  <2>. QED
    BY <2>1 DEF below
<1>. USE <1>1
<1>. WITNESS m \in G
<1>. QED
  BY <1>5

(* A slide has finitely many fragments.                                    *)
LEMMA AllFinite ==
  ASSUME NEW s \in Slides
  PROVE  /\ IsFiniteSet(All(s)) /\ \A i \in All(s) : i \in Int
         /\ \A some \in SUBSET All(s) : IsFiniteSet(some)
<1>1. Len(Fragments[s]) \in Nat
  BY MarkupAssumption
<1>2. IsFiniteSet(All(s)) /\ \A i \in All(s) : i \in Int
  BY <1>1, FS_Interval DEF All
<1>. QED
  BY <1>2, FS_Subset

(* Sorting numbers every fragment it is given, and leaves no gap.          *)
LEMMA SortDense ==
  ASSUME NEW s \in Slides, NEW number \in [All(s) -> Nat \cup {None}],
         NEW some \in SUBSET All(s)
  PROVE  LET f == SortFragments(number, some)
         IN  /\ f \in [All(s) -> Nat \cup {None}]
             /\ \A i \in some : f[i] \in Nat
             /\ \A i \in All(s) \ some : f[i] = number[i]
             /\ \A i \in some : f[i] > 0 => \E j \in some : f[j] = f[i] - 1
             /\ (\A i \in some : number[i] # None) =>
                  \A i \in some :
                    f[i] = Cardinality({g \in {number[j] : j \in some} : g < number[i]})
<1>. DEFINE given == {number[i] : i \in some} \ {None}
            under(x) == {g \in given : g < x}
            unnumbered(i) == {j \in some : j < i /\ number[j] = None}
            f == SortFragments(number, some)
<1>1. IsFiniteSet(some) /\ \A i \in some : i \in Int
  BY AllFinite
<1>2. IsFiniteSet(given) /\ (\A x \in given : x \in Nat) /\ Cardinality(given) \in Nat
  <2>1. IsFiniteSet({number[i] : i \in some})
    BY <1>1, ImageFinite
  <2>. QED
    BY <2>1, FS_Subset, FS_CardinalityType
<1>3. \A x : IsFiniteSet(under(x)) /\ Cardinality(under(x)) \in Nat
  BY <1>2, FS_Subset, FS_CardinalityType
<1>4. \A i : IsFiniteSet(unnumbered(i)) /\ Cardinality(unnumbered(i)) \in Nat
  BY <1>1, FS_Subset, FS_CardinalityType
<1>5. /\ f = [i \in All(s) |-> f[i]]
      /\ \A i \in All(s) \ some : f[i] = number[i]
      /\ \A i \in some : f[i] = IF number[i] # None THEN Cardinality(under(number[i]))
                                ELSE Cardinality(given) + Cardinality(unnumbered(i))
  BY DEF SortFragments
<1>6. \A x \in given : \E i \in some : number[i] = x /\ x # None
  OBVIOUS
<1>7. (\A i \in some : number[i] # None) => given = {number[i] : i \in some}
  OBVIOUS
<1>8. \A i \in some : number[i] # None => number[i] \in Nat
  OBVIOUS
<1>. HIDE DEF f, given
<1>9. \A y \in Nat : \A x \in under(y) :
        x \in given /\ x \in Nat /\ {g \in under(y) : g < x} = under(x)
  BY <1>2
<1>10. \A i \in some : \A j \in unnumbered(i) :
         /\ j \in some /\ j \in Int /\ number[j] = None
         /\ {k \in unnumbered(i) : k < j} = unnumbered(j)
  BY <1>1
<1>11. \A x : {g \in given : g < x} = under(x)
  OBVIOUS
<1>. HIDE DEF under, unnumbered
<1>12. \A i \in some : f[i] \in Nat
  BY <1>2, <1>3, <1>4, <1>5
<1>13. f \in [All(s) -> Nat \cup {None}]
  BY <1>5, <1>12
<1>14. ASSUME NEW i \in some, f[i] > 0
       PROVE  \E j \in some : f[j] = f[i] - 1
  <2>1. CASE number[i] # None
    <3>1. number[i] \in Nat /\ f[i] = Cardinality(under(number[i]))
      BY <1>5, <1>8, <2>1
    <3>2. under(number[i]) # {}
      BY <1>14, <3>1, FS_EmptySet
    <3>3. \A g \in under(number[i]) : g \in Int
      BY <1>9, <3>1
    <3>4. PICK m \in under(number[i]) :
            Cardinality({g \in under(number[i]) : g < m}) = Cardinality(under(number[i])) - 1
      BY <1>3, <3>2, <3>3, LastOne
    <3>5. {g \in under(number[i]) : g < m} = under(m) /\ m \in given
      BY <1>9, <3>1
    <3>6. PICK j \in some : number[j] = m /\ m # None
      BY <1>6, <3>5
    <3>7. f[j] = Cardinality(under(m))
      BY <1>5, <3>6
    <3>. QED
      BY <3>1, <3>4, <3>5, <3>7
  <2>2. CASE number[i] = None /\ unnumbered(i) # {}
    <3>1. \A j \in unnumbered(i) : j \in Int
      BY <1>10
    <3>2. PICK j \in unnumbered(i) :
            Cardinality({k \in unnumbered(i) : k < j}) = Cardinality(unnumbered(i)) - 1
      BY <1>4, <2>2, <3>1, LastOne
    <3>3. /\ j \in some /\ number[j] = None
          /\ {k \in unnumbered(i) : k < j} = unnumbered(j)
      BY <1>10
    <3>4. f[i] = Cardinality(given) + Cardinality(unnumbered(i))
      BY <1>5, <2>2
    <3>5. f[j] = Cardinality(given) + Cardinality(unnumbered(j))
      BY <1>5, <3>3
    <3>6. Cardinality(unnumbered(j)) = Cardinality(unnumbered(i)) - 1
      BY <3>2, <3>3
    <3>7. f[j] = f[i] - 1
      BY <1>2, <1>4, <3>4, <3>5, <3>6
    <3>. QED
      BY <3>3, <3>7
  <2>3. CASE number[i] = None /\ unnumbered(i) = {}
    <3>1. f[i] = Cardinality(given)
      <4>1. f[i] = Cardinality(given) + Cardinality(unnumbered(i))
        BY <1>5, <2>3
      <4>2. Cardinality(unnumbered(i)) = 0
        BY <2>3, FS_EmptySet
      <4>. QED
        BY <1>2, <4>1, <4>2
    <3>2. given # {}
      BY <1>14, <3>1, FS_EmptySet
    <3>3. \A g \in given : g \in Int
      BY <1>2
    <3>4. PICK m \in given : Cardinality({g \in given : g < m}) = Cardinality(given) - 1
      BY <1>2, <3>2, <3>3, LastOne
    <3>5. PICK j \in some : number[j] = m /\ m # None
      BY <1>6
    <3>6. f[j] = Cardinality(under(m))
      BY <1>5, <3>5
    <3>. QED
      BY <1>11, <3>1, <3>4, <3>6
  <2>. QED
    BY <2>1, <2>2, <2>3
<1>15. (\A i \in some : number[i] # None) =>
         \A i \in some :
           f[i] = Cardinality({g \in {number[j] : j \in some} : g < number[i]})
  BY <1>5, <1>7, <1>11
<1>. QED
  BY <1>5, <1>12, <1>13, <1>14, <1>15 DEF f

(* Numbers without a gap: every smaller one is given, too.                 *)
LEMMA Attained ==
  ASSUME NEW A, NEW f, \A i \in A : f[i] \in Nat,
         \A i \in A : f[i] > 0 => \E j \in A : f[j] = f[i] - 1,
         NEW i \in A, NEW v \in 0 .. f[i]
  PROVE  \E k \in A : f[k] = v
<1>. DEFINE missing == {w \in 0 .. f[i] : \A k \in A : f[k] # w}
<1>1. /\ IsFiniteSet(missing) /\ \A w \in missing : w \in Int
  <2>1. f[i] \in Nat
    OBVIOUS
  <2>2. IsFiniteSet(0 .. f[i])
    BY <2>1, FS_Interval
  <2>. QED
    BY <2>1, <2>2, FS_Subset
<1>2. missing = {}
  <2>. SUFFICES ASSUME missing # {}
                PROVE  FALSE
    OBVIOUS
  <2>1. PICK w \in missing : \A u \in missing : u <= w
    BY <1>1, GreatestInt
  <2>2. w \in 0 .. f[i] /\ w # f[i] /\ f[i] \in Nat /\ w + 1 \in 0 .. f[i]
    OBVIOUS
  <2>3. w + 1 \notin missing
    BY <2>1, <2>2
  <2>4. PICK k \in A : f[k] = w + 1
    BY <2>2, <2>3
  <2>5. \E j \in A : f[j] = w
    BY <2>2, <2>4
  <2>. QED
    BY <2>5
<1>. QED
  BY <1>2

\* What navigateFragment makes of the numbers and the shown fragments.
Renumber(s, number, some) == SortFragments(SortFragments(number, All(s)), some)
Shows(s, number, some, offset) ==
  {i \in All(s) : Renumber(s, number, some)[i]
                    <= Max({None} \cup {Renumber(s, number, some)[j] : j \in some}) + offset}

(* navigateFragment shows more exactly when some are hidden, and hides     *)
(* some exactly when any are shown.                                        *)
LEMMA OneMoreOneLess ==
  ASSUME NEW s \in Slides, NEW number \in [All(s) -> Nat \cup {None}],
         NEW some \in SUBSET All(s)
  PROVE  /\ Renumber(s, number, some) \in [All(s) -> Nat \cup {None}]
         /\ Shows(s, number, some, 1) = some <=> some = All(s)
         /\ Shows(s, number, some, -1) = some <=> some = {}
<1>. DEFINE f == SortFragments(number, All(s))
            g == SortFragments(f, some)
            given == {f[j] : j \in some}
            numbers == {g[i] : i \in some}
            top == Max({None} \cup numbers)
            more == {i \in All(s) : g[i] <= top + 1}
            less == {i \in All(s) : g[i] <= top + -1}
<1>1. /\ f \in [All(s) -> Nat \cup {None}]
      /\ \A i \in All(s) : f[i] \in Nat
      /\ \A i \in All(s) : f[i] > 0 => \E j \in All(s) : f[j] = f[i] - 1
  BY SortDense
<1>2. IsFiniteSet(some)
  BY AllFinite
<1>. HIDE DEF f
<1>3. \A i \in some : f[i] # None
  BY <1>1 DEF None
<1>4. /\ g \in [All(s) -> Nat \cup {None}]
      /\ \A i \in some : g[i] \in Nat
      /\ \A i \in All(s) \ some : g[i] = f[i]
      /\ \A i \in some : g[i] = Cardinality({x \in given : x < f[i]})
  BY <1>1, <1>3, SortDense
<1>. HIDE DEF g
<1>5. IsFiniteSet(given) /\ IsFiniteSet(numbers)
  BY <1>2, ImageFinite
<1>6. IsFiniteSet({None} \cup numbers)
  BY <1>5, FS_Singleton, FS_Union
<1>7. \A x \in {None} \cup numbers : x \in Int
  BY <1>4 DEF None
<1>8. /\ top \in {None} \cup numbers /\ top \in Int /\ top >= -1
      /\ \A i \in some : g[i] <= top
      /\ some # {} => top \in numbers
  <2>1. /\ top \in {None} \cup numbers
        /\ \A x \in {None} \cup numbers : x <= top
    BY <1>6, <1>7, GreatestInt
  <2>. HIDE DEF top
  <2>2. top \in Int /\ top >= -1
    BY <1>7, <2>1 DEF None
  <2>3. \A i \in some : g[i] <= top
    BY <2>1
  <2>4. some # {} => top \in numbers
    BY <1>4, <2>1, <2>3 DEF None
  <2>. QED
    BY <2>1, <2>2, <2>3, <2>4
<1>. HIDE DEF top
<1>9. some = All(s) => more = some
  BY <1>4, <1>8
<1>10. ASSUME some # All(s)
       PROVE  more # some
  <2>. DEFINE hidden == {f[i] : i \in All(s) \ some}
  <2>1. hidden # {} /\ \A x \in hidden : x \in Nat
    BY <1>1, <1>10
  <2>2. PICK x \in hidden : \A y \in hidden : x <= y
    BY <2>1, LeastNat
  <2>3. PICK i \in All(s) \ some : x = f[i]
    OBVIOUS
  <2>4. g[i] = f[i] /\ f[i] \in Nat
    BY <1>1, <1>4
  <2>5. ASSUME NEW k \in All(s), f[k] < f[i]
        PROVE  k \in some
    <3>. SUFFICES ASSUME k \notin some
                  PROVE  FALSE
      OBVIOUS
    <3>1. f[k] \in hidden
      OBVIOUS
    <3>2. f[i] <= f[k]
      BY <2>2, <2>3, <3>1
    <3>. QED
      BY <1>1, <2>4, <2>5, <3>2
  <2>6. f[i] <= top + 1
    <3>1. CASE f[i] = 0
      BY <1>8, <3>1
    <3>2. CASE f[i] > 0
      <4>1. PICK j \in All(s) : f[j] = f[i] - 1
        BY <1>1, <3>2
      <4>2. j \in some
        BY <1>1, <2>4, <2>5, <4>1
      <4>3. \A v \in 0 .. f[j] - 1 : v \in given
        <5>. SUFFICES ASSUME NEW v \in 0 .. f[j] - 1
                      PROVE  v \in given
          OBVIOUS
        <5>1. v \in 0 .. f[j] /\ v \in Int /\ v < f[i]
          BY <1>1, <2>4, <4>1
        <5>2. PICK k \in All(s) : f[k] = v
          BY <1>1, <5>1, Attained
        <5>3. k \in some
          BY <2>5, <5>1, <5>2
        <5>. QED
          BY <5>2, <5>3
      <4>. DEFINE under == {v \in given : v < f[j]}
      <4>4. 0 .. f[j] - 1 \subseteq under
        BY <1>1, <4>3
      <4>5. IsFiniteSet(under)
        BY <1>5, FS_Subset
      <4>. HIDE DEF under
      <4>6. Cardinality(0 .. f[j] - 1) = f[j]
        BY <1>1, FS_Interval
      <4>7. f[j] <= Cardinality(under)
        BY <4>4, <4>5, <4>6, FS_Subset
      <4>8. g[j] = Cardinality(under)
        BY <1>4, <4>2 DEF under
      <4>. QED
        BY <1>1, <1>4, <1>8, <2>4, <4>1, <4>2, <4>7, <4>8
    <3>. QED
      BY <2>4, <3>1, <3>2
  <2>. QED
    BY <2>3, <2>4, <2>6
<1>11. some = {} => less = some
  <2>. SUFFICES ASSUME some = {}, NEW i \in All(s), g[i] <= top + -1
                PROVE  FALSE
    OBVIOUS
  <2>1. top = -1
    BY <1>8 DEF None
  <2>. QED
    BY <1>1, <1>4, <2>1
<1>12. ASSUME some # {}
       PROVE  less # some
  <2>1. PICK i \in some : top = g[i]
    BY <1>8, <1>12
  <2>2. i \notin less
    BY <1>8, <2>1
  <2>. QED
    BY <2>2
<1>. QED
  <2>1. Renumber(s, number, some) = g
    BY DEF Renumber, f, g
  <2>2. Shows(s, number, some, 1) = more /\ Shows(s, number, some, -1) = less
    BY <2>1 DEF Shows, top
  <2>. HIDE DEF more, less
  <2>. QED
    BY <1>4, <1>9, <1>10, <1>11, <1>12, <2>1, <2>2

-----------------------------------------------------------------------------
(* Steps that leave the deck on its slide.                                 *)

(* A hash points where it did before, from the same slide.                 *)
LEMMA SameTarget ==
  ASSUME NEW n, NEW d, n.h = d.h, n.v = d.v, NEW hash
  PROVE  Target(n, hash) = Target(d, hash) /\ Current(n) = Current(d)
BY DEF Target, Indices, Started, Current

(* What a change has to respect that leaves the deck on its slide.         *)
LEMMA PlacedKept ==
  ASSUME NEW n, NEW d, Placed(d),
         Differs(n, d, {"shown", "number", "resume", "controls", "displayed", "preview",
                        "overview", "overviewTimer", "laidOut", "paused",
                        "autoSlidePaused", "autoTimer", "player", "hash", "hashEvents",
                        "resets"}),
         ShownOK(n), NumberOK(n), ResumeOK(n),
         n.h = 0 /\ n.resets = 0 => OthersForgotten(n),
         n.controls = LitArrows(n),
         {<<d.h>>, Section(Current(d))} \subseteq n.displayed,
         n.laidOut \/ n.overviewTimer => n.overview,
         n.player \in {"none", "stopped", "playing"},
         n.player # "none" => d.config.stoppable,
         n.preview => \E s \in Slides : Previews(d, s) # {},
         n.resets \in Nat, n.hashEvents \in Nat, HashOK(n.hash),
         IdsAreNames => Points(n)
  PROVE  Placed(n)
<1>1. /\ IsDeck(n) /\ n.config = d.config /\ n.h = d.h /\ n.v = d.v
      /\ Current(n) = Current(d) /\ Started(n) /\ Started(d)
      /\ n.present = d.present /\ n.state = d.state /\ n.classes = d.classes
      /\ n.playing = d.playing /\ n.progress = d.progress /\ n.backdrop = d.backdrop
  BY DEF Differs, DeckFields, Current, Started, Placed
<1>2. n.preview => \E s \in Slides : Previews(n, s) # {}
  BY <1>1 DEF Previews
<1>3. Basics(n)
  BY <1>1, <1>2 DEF Placed, Basics
<1>4. Looks(n)
  BY <1>1 DEF Placed, Looks, BackdropOK
<1>. QED
  BY <1>1, <1>3, <1>4 DEF Placed

(* Flags and timers, as far as they agree, are free.                       *)
LEMMA FlagsKept ==
  ASSUME NEW n, NEW d, Placed(d),
         Differs(n, d, {"preview", "overview", "overviewTimer", "laidOut", "paused",
                        "autoSlidePaused", "autoTimer", "player"}),
         n.laidOut \/ n.overviewTimer => n.overview,
         n.player \in {"none", "stopped", "playing"},
         n.player # "none" => d.config.stoppable,
         n.preview => \E s \in Slides : Previews(d, s) # {}
  PROVE  Placed(n)
<1>1. Differs(n, d, {"shown", "number", "resume", "controls", "displayed", "preview",
                     "overview", "overviewTimer", "laidOut", "paused",
                     "autoSlidePaused", "autoTimer", "player", "hash", "hashEvents",
                     "resets"})
  BY DEF Differs
<1>2. /\ n.config = d.config /\ n.h = d.h /\ n.v = d.v /\ n.shown = d.shown
      /\ n.number = d.number /\ n.resume = d.resume /\ n.controls = d.controls
      /\ n.displayed = d.displayed /\ n.resets = d.resets
      /\ n.hash = d.hash /\ n.hashEvents = d.hashEvents
  BY DEF Differs, DeckFields
<1>3. n.controls = LitArrows(n)
  BY <1>2, SameArrows DEF Placed, Looks
<1>4. IdsAreNames => Points(n)
  BY <1>2, SameTarget DEF Placed, Looks, Points
<1>5. ShownOK(n) /\ NumberOK(n) /\ ResumeOK(n)
  BY <1>2 DEF Placed, Basics, ShownOK, NumberOK, ResumeOK
<1>6. n.h = 0 /\ n.resets = 0 => OthersForgotten(n)
  BY <1>2 DEF Placed, Basics, OthersForgotten
<1>. QED
  BY <1>1, <1>2, <1>3, <1>4, <1>5, <1>6, PlacedKept DEF Placed, Basics, Looks

(* navigateFragment keeps the deck in order, and says whether it did       *)
(* anything: a fragment more is shown if one was hidden, one less if any   *)
(* was shown.                                                              *)
LEMMA FragmentPlaces ==
  ASSUME NEW d, Placed(d), NEW offset \in {1, -1}
  PROVE  LET n == NavigateFragment(d, offset)
         IN  /\ Placed(n) /\ (Armed(d) => Armed(n))
             /\ n.config = d.config /\ n.h = d.h /\ n.v = d.v
             /\ n.hashEvents = d.hashEvents
             /\ n.overview = d.overview
             /\ Moved(d, n) <=>
                  IF offset = 1 THEN AvailableFragments(d).next ELSE AvailableFragments(d).prev
<1>. DEFINE s == Current(d)
            g == Renumber(s, d.number[s], d.shown[s])
            new == Shows(s, d.number[s], d.shown[s], offset)
            m == ShowUpTo(d, s, g, offset)
            n == NavigateFragment(d, offset)
<1>1. /\ s \in Slides /\ IsDeck(d) /\ Started(d)
      /\ ShownOK(d) /\ NumberOK(d)
      /\ d.number[s] \in [All(s) -> Nat \cup {None}] /\ d.shown[s] \in SUBSET All(s)
  BY DEF Placed, Basics, ShownOK, NumberOK
<1>2. /\ AvailableFragments(d).next <=> d.config.fragments /\ d.shown[s] # All(s)
      /\ AvailableFragments(d).prev <=> d.config.fragments /\ d.shown[s] # {}
  BY <1>1 DEF AvailableFragments
<1>3. /\ g \in [All(s) -> Nat \cup {None}]
      /\ new = d.shown[s] <=> IF offset = 1 THEN d.shown[s] = All(s) ELSE d.shown[s] = {}
  BY <1>1, OneMoreOneLess
<1>. HIDE DEF g, new
<1>4. CASE ~(d.config.fragments /\ All(s) # {})
  <2>1. n = d
    BY <1>4 DEF NavigateFragment
  <2>2. ~Moved(d, n)
    BY <2>1 DEF Moved
  <2>3. ~AvailableFragments(d).next /\ ~AvailableFragments(d).prev
    BY <1>1, <1>2, <1>4
  <2>. QED
    BY <2>1, <2>2, <2>3
<1>5. CASE d.config.fragments /\ All(s) # {}
  <2>1. n = UpdateControls(m)
    BY <1>5 DEF NavigateFragment, Renumber, g
  <2>2. m = [d EXCEPT !.number[s] = g, !.shown[s] = new]
    BY DEF ShowUpTo, Renumber, Shows, g, new
  <2>3. /\ Differs(m, d, {"number", "shown"})
        /\ m.number = [d.number EXCEPT ![s] = g]
        /\ m.shown = [d.shown EXCEPT ![s] = new]
    BY <1>1, <2>2 DEF Differs, IsDeck, DeckFields
  <2>. HIDE DEF m
  <2>4. Differs(n, m, {"controls"}) /\ n.controls = LitArrows(m)
    BY <2>1, <2>3, ControlsDiffers DEF Differs
  <2>. HIDE DEF n
  <2>5. Differs(n, d, {"shown", "number", "controls"})
    BY <2>3, <2>4 DEF Differs
  <2>6. Differs(n, d, {"shown", "number", "resume", "controls", "displayed", "preview",
                       "overview", "overviewTimer", "laidOut", "paused",
                       "autoSlidePaused", "autoTimer", "player", "hash", "hashEvents",
                       "resets"})
    BY <2>5 DEF Differs
  <2>7. /\ n.number = m.number /\ n.shown = m.shown
        /\ n.config = m.config /\ n.h = m.h /\ n.v = m.v
        /\ n.config = d.config /\ n.h = d.h /\ n.v = d.v /\ n.resume = d.resume
        /\ n.displayed = d.displayed /\ n.laidOut = d.laidOut
        /\ n.overviewTimer = d.overviewTimer /\ n.overview = d.overview
        /\ n.player = d.player /\ n.preview = d.preview /\ n.resets = d.resets
        /\ n.hash = d.hash /\ n.hashEvents = d.hashEvents
        /\ n.autoTimer = d.autoTimer /\ n.paused = d.paused
        /\ n.autoSlidePaused = d.autoSlidePaused
    BY <2>4, <2>5 DEF Differs, DeckFields
  <2>8. ShownOK(n)
    BY <1>1, <2>3, <2>7 DEF ShownOK, Shows, new
  <2>9. NumberOK(n)
    BY <1>1, <1>3, <2>3, <2>7 DEF NumberOK
  <2>10. ResumeOK(n) /\ (n.h = 0 /\ n.resets = 0 => OthersForgotten(n))
    BY <2>7 DEF Placed, Basics, ResumeOK, OthersForgotten
  <2>11. n.controls = LitArrows(n)
    BY <2>4, <2>7, SameArrows
  <2>12. IdsAreNames => Points(n)
    BY <2>7, SameTarget DEF Placed, Looks, Points
  <2>13. Placed(n)
    BY <2>6, <2>7, <2>8, <2>9, <2>10, <2>11, <2>12, PlacedKept DEF Placed, Basics, Looks
  <2>14. Armed(d) => Armed(n)
    BY <2>7, SameEligible DEF Armed
  <2>15. Moved(d, n) <=> new # d.shown[s]
    <3>1. n.shown = [d.shown EXCEPT ![s] = new]
      BY <2>3, <2>7
    <3>. QED
      BY <1>1, <3>1 DEF Moved, ShownOK
  <2>16. Moved(d, n) <=>
           IF offset = 1 THEN AvailableFragments(d).next ELSE AvailableFragments(d).prev
    BY <1>2, <1>3, <1>5, <2>15
  <2>. QED
    BY <2>7, <2>13, <2>14, <2>16 DEF n
<1>. QED
  BY <1>4, <1>5

-----------------------------------------------------------------------------
(* The handlers.  Armed(d) => Armed(n) says that a handler leaves the      *)
(* auto-slide as armed as it found it.                                     *)

(* cueAutoSlide arms the auto-slide, or disarms it, as it should.          *)
LEMMA CuePlaces ==
  ASSUME NEW d, Placed(d)
  PROVE  Placed(CueAutoSlide(d)) /\ Armed(CueAutoSlide(d))
<1>. DEFINE n == CueAutoSlide(d)
<1>1. /\ Differs(n, d, {"autoTimer", "player"})
      /\ n.autoTimer = Eligible(d)
      /\ n.player = IF d.player = "none" THEN "none"
                    ELSE IF Eligible(d) THEN "playing" ELSE "stopped"
  BY CueDiffers DEF Placed, Basics
<1>. HIDE DEF n
<1>2. /\ n.config = d.config /\ n.h = d.h /\ n.v = d.v /\ n.autoSlidePaused = d.autoSlidePaused
      /\ n.paused = d.paused /\ n.overview = d.overview /\ n.preview = d.preview
      /\ n.laidOut = d.laidOut /\ n.overviewTimer = d.overviewTimer
  BY <1>1 DEF Differs, DeckFields
<1>3. Differs(n, d, {"preview", "overview", "overviewTimer", "laidOut", "paused",
                     "autoSlidePaused", "autoTimer", "player"})
  BY <1>1 DEF Differs
<1>4. Placed(n)
  BY <1>1, <1>2, <1>3, FlagsKept DEF Placed, Basics
<1>5. Armed(n)
  BY <1>1, <1>2, SameEligible DEF Armed
<1>. QED
  BY <1>4, <1>5 DEF n

(* Input stops the auto-slide, if it is stoppable at all.                  *)
LEMMA PausePlaces ==
  ASSUME NEW d, Placed(d)
  PROVE  LET n == PauseAutoSlide(d)
         IN  Placed(n) /\ Armed(n) /\ n.player # "playing"
<1>. DEFINE m == [CancelAutoSlide(d) EXCEPT !.autoSlidePaused = TRUE]
            n == PauseAutoSlide(d)
<1>1. IsDeck(d)
  BY DEF Placed, Basics
<1>2. Differs(m, d, {"autoTimer", "autoSlidePaused"}) /\ m.autoTimer = FALSE
      /\ m.autoSlidePaused = TRUE
  BY <1>1 DEF CancelAutoSlide, Differs, IsDeck, DeckFields
<1>3. n = [m EXCEPT !.player = IF @ = "none" THEN "none" ELSE "stopped"]
  BY DEF PauseAutoSlide, SetPlaying
<1>. HIDE DEF m
<1>4. /\ Differs(n, m, {"player"})
      /\ n.player = IF m.player = "none" THEN "none" ELSE "stopped"
  BY <1>2, <1>3 DEF Differs, IsDeck, DeckFields
<1>. HIDE DEF n
<1>5. /\ n.config = d.config /\ n.laidOut = d.laidOut /\ n.overviewTimer = d.overviewTimer
      /\ n.overview = d.overview /\ n.preview = d.preview
      /\ n.player = IF d.player = "none" THEN "none" ELSE "stopped"
      /\ n.autoTimer = FALSE /\ n.autoSlidePaused = TRUE
  BY <1>2, <1>4 DEF Differs, DeckFields
<1>6. Differs(n, d, {"preview", "overview", "overviewTimer", "laidOut", "paused",
                     "autoSlidePaused", "autoTimer", "player"})
  BY <1>2, <1>4 DEF Differs
<1>7. Placed(n)
  BY <1>5, <1>6, FlagsKept DEF Placed, Basics
<1>8. Armed(n)
  <2>1. ~Eligible(n)
    BY <1>5 DEF Eligible
  <2>2. Eligible(n) = FALSE
    BY <2>1 DEF Eligible
  <2>. QED
    BY <1>5, <2>2 DEF Armed
<1>. QED
  BY <1>5, <1>7, <1>8 DEF n

(* Input leaves the deck in place, and the auto-slide stopped where it may *)
(* be.                                                                     *)
LEMMA InputPlaces ==
  ASSUME NEW d, Placed(d)
  PROVE  LET n == UserInput(d)
         IN  /\ Placed(n) /\ (Armed(d) => Armed(n))
             /\ n.config.stoppable => n.player # "playing"
<1>1. CASE d.config.stoppable
  BY <1>1, PausePlaces DEF UserInput
<1>2. CASE ~d.config.stoppable
  BY <1>2 DEF UserInput
<1>. QED
  BY <1>1, <1>2

(* The overview is laid out later; a player that was stopped stays so.     *)
LEMMA ActivatePlaces ==
  ASSUME NEW d, Placed(d)
  PROVE  LET n == ActivateOverview(d)
         IN  Placed(n) /\ (Armed(d) /\ d.player # "playing" => Armed(n))
<1>. DEFINE n == ActivateOverview(d)
<1>1. /\ Differs(n, d, {"overview", "overviewTimer", "autoTimer"})
      /\ n.laidOut \/ n.overviewTimer => n.overview
      /\ d.config.overview => n.overview /\ n.autoTimer = FALSE
      /\ ~d.config.overview => n = d
  BY OverviewDiffers DEF Placed, Basics
<1>. HIDE DEF n
<1>2. n.config = d.config /\ n.player = d.player /\ n.preview = d.preview
  BY <1>1 DEF Differs, DeckFields
<1>3. Differs(n, d, {"preview", "overview", "overviewTimer", "laidOut", "paused",
                     "autoSlidePaused", "autoTimer", "player"})
  BY <1>1 DEF Differs
<1>4. Placed(n)
  BY <1>1, <1>2, <1>3, FlagsKept DEF Placed, Basics
<1>5. ASSUME Armed(d), d.player # "playing"
      PROVE  Armed(n)
  <2>1. CASE d.config.overview
    <3>1. ~Eligible(n) /\ Eligible(n) = FALSE
      BY <1>1, <2>1 DEF Eligible
    <3>2. n.player # "none" => n.player = "stopped"
      BY <1>2, <1>5 DEF Placed, Basics
    <3>. QED
      BY <1>1, <2>1, <3>1, <3>2 DEF Armed
  <2>2. CASE ~d.config.overview
    BY <1>1, <1>5, <2>2
  <2>. QED
    BY <2>1, <2>2
<1>. QED
  BY <1>4, <1>5 DEF n

(* The indices of a placed deck, as slide() takes them.                    *)
LEMMA PlacedIndices ==
  ASSUME NEW d, Placed(d)
  PROVE  /\ Basics(d) /\ Current(d) \in Slides
         /\ d.h \in Columns /\ d.h \in Nat /\ d.v \in Nat /\ d.v \in 0 .. Rows(d.h) - 1
         /\ Undefined \in Int
<1>1. Basics(d) /\ Current(d) \in Slides
  BY DEF Placed, Basics
<1>. QED
  BY <1>1, CurrentPair DEF Undefined

(* Closing the overview slides to where the deck is.                       *)
LEMMA DeactivatePlaces ==
  ASSUME NEW d, Placed(d)
  PROVE  LET n == DeactivateOverview(d) IN Placed(n) /\ (Armed(d) => Armed(n))
<1>. DEFINE m == [d EXCEPT !.overview = FALSE, !.overviewTimer = FALSE, !.laidOut = FALSE]
<1>1. /\ Differs(m, d, {"overview", "overviewTimer", "laidOut"})
      /\ m.overview = FALSE /\ m.overviewTimer = FALSE /\ m.laidOut = FALSE
  BY DEF Differs, IsDeck, DeckFields, Placed, Basics
<1>2. DeactivateOverview(d) = IF d.config.overview THEN CueAutoSlide(Slide(m, d.h, d.v)) ELSE d
  BY DEF DeactivateOverview
<1>. HIDE DEF m
<1>3. m.player = d.player /\ m.preview = d.preview
  BY <1>1 DEF Differs, DeckFields
<1>4. Differs(m, d, {"preview", "overview", "overviewTimer", "laidOut", "paused",
                     "autoSlidePaused", "autoTimer", "player"})
  BY <1>1 DEF Differs
<1>5. Placed(m)
  BY <1>1, <1>3, <1>4, FlagsKept DEF Placed, Basics
<1>6. Placed(Slide(m, d.h, d.v))
  BY <1>5, PlacedIndices, SlidePlaces
<1>. QED
  BY <1>2, <1>6, CuePlaces

(* A step moves a fragment or the deck.                                    *)
LEMMA StepPlaces ==
  ASSUME NEW d, Placed(d), NEW moved, Placed(moved), Armed(d) => Armed(moved),
         NEW open, NEW h \in Int, NEW v \in Int
  PROVE  LET n == StepTo(d, moved, open, h, v) IN Placed(n) /\ (Armed(d) => Armed(n))
<1>. DEFINE from == IF d.overview THEN d ELSE moved
<1>1. Placed(from) /\ (Armed(d) => Armed(from))
  OBVIOUS
<1>. HIDE DEF from
<1>2. Placed(Slide(from, h, v)) /\ Armed(Slide(from, h, v))
  BY <1>1, SlidePlaces DEF Placed
<1>3. StepTo(d, moved, open, h, v) \in {from, Slide(from, h, v)}
  BY DEF StepTo, from
<1>. QED
  BY <1>1, <1>2, <1>3

(* A fragment is shown or hidden without a change of slide.                *)
LEMMA FragmentsPlace ==
  ASSUME NEW d, Placed(d)
  PROVE  /\ Placed(NextFragment(d)) /\ (Armed(d) => Armed(NextFragment(d)))
         /\ Placed(PreviousFragment(d)) /\ (Armed(d) => Armed(PreviousFragment(d)))
BY FragmentPlaces DEF NextFragment, PreviousFragment

(* The arrows leave the deck in order, whatever they do.                   *)
LEMMA ArrowsPlace ==
  ASSUME NEW d, Placed(d)
  PROVE  /\ Placed(NavigateLeft(d)) /\ (Armed(d) => Armed(NavigateLeft(d)))
         /\ Placed(NavigateRight(d)) /\ (Armed(d) => Armed(NavigateRight(d)))
         /\ Placed(NavigateUp(d)) /\ (Armed(d) => Armed(NavigateUp(d)))
         /\ Placed(NavigateDown(d)) /\ (Armed(d) => Armed(NavigateDown(d)))
<1>1. /\ d.h + 1 \in Int /\ d.h - 1 \in Int /\ d.v - 1 \in Int /\ d.v + 1 \in Int
      /\ d.h \in Int /\ Undefined \in Int
  BY PlacedIndices
<1>2. /\ Placed(NextFragment(d)) /\ (Armed(d) => Armed(NextFragment(d)))
      /\ Placed(PreviousFragment(d)) /\ (Armed(d) => Armed(PreviousFragment(d)))
  BY FragmentsPlace
<1>3. Placed(NavigateLeft(d)) /\ (Armed(d) => Armed(NavigateLeft(d)))
  BY <1>1, <1>2, StepPlaces DEF NavigateLeft
<1>4. Placed(NavigateRight(d)) /\ (Armed(d) => Armed(NavigateRight(d)))
  BY <1>1, <1>2, StepPlaces DEF NavigateRight
<1>5. Placed(NavigateUp(d)) /\ (Armed(d) => Armed(NavigateUp(d)))
  BY <1>1, <1>2, StepPlaces DEF NavigateUp
<1>6. Placed(NavigateDown(d)) /\ (Armed(d) => Armed(NavigateDown(d)))
  BY <1>1, <1>2, StepPlaces DEF NavigateDown
<1>. QED
  BY <1>3, <1>4, <1>5, <1>6

(* The steps back and on through rows and columns end in place; the step   *)
(* on cues the auto-slide last.                                            *)
LEMMA PrevNextPlace ==
  ASSUME NEW d, Placed(d)
  PROVE  /\ Placed(NavigatePrev(d)) /\ (Armed(d) => Armed(NavigatePrev(d)))
         /\ Placed(NavigateNext(d)) /\ Armed(NavigateNext(d))
<1>. DEFINE back == PreviousFragment(d)
            on == NextFragment(d)
            lastRow == IF Stack[d.h - 1] = 1 THEN Undefined ELSE Stack[d.h - 1] - 1
<1>1. d.h \in Columns /\ d.h \in Nat /\ Undefined \in Int
  BY PlacedIndices
<1>2. /\ Placed(back) /\ (Armed(d) => Armed(back)) /\ Placed(on)
  BY FragmentsPlace
<1>3. d.h > 0 => d.h - 1 \in Int /\ lastRow \in Int
  BY <1>1, Grid
<1>. HIDE DEF back, on, lastRow
<1>4. Placed(NavigatePrev(d)) /\ (Armed(d) => Armed(NavigatePrev(d)))
  <2>1. /\ Placed(NavigateUp(back)) /\ (Armed(back) => Armed(NavigateUp(back)))
    BY <1>2, ArrowsPlace
  <2>2. d.h > 0 => /\ Placed(Slide(back, d.h - 1, lastRow))
                   /\ Armed(Slide(back, d.h - 1, lastRow))
    BY <1>2, <1>3, SlidePlaces DEF Placed
  <2>3. \/ NavigatePrev(d) \in {back, NavigateUp(back)}
        \/ d.h > 0 /\ NavigatePrev(d) = Slide(back, d.h - 1, lastRow)
    BY DEF NavigatePrev, back, lastRow
  <2>. QED
    BY <1>2, <2>1, <2>2, <2>3
<1>5. Placed(NavigateNext(d)) /\ Armed(NavigateNext(d))
  <2>1. Placed(NavigateDown(on)) /\ Placed(NavigateRight(on))
    BY <1>2, ArrowsPlace
  <2>2. \E m \in {on, NavigateDown(on), NavigateRight(on)} : NavigateNext(d) = CueAutoSlide(m)
    BY DEF NavigateNext, on
  <2>. QED
    BY <1>2, <2>1, <2>2, CuePlaces
<1>. QED
  BY <1>4, <1>5

(* The black screen comes and goes over the same slide.                    *)
LEMMA TogglePauses ==
  ASSUME NEW d, Placed(d)
  PROVE  Placed(TogglePause(d))
<1>. DEFINE on == [d EXCEPT !.paused = FALSE]
            off == [CancelAutoSlide(d) EXCEPT !.paused = TRUE]
<1>1. IsDeck(d)
  BY DEF Placed, Basics
<1>2. Differs(on, d, {"paused"}) /\ Differs(off, d, {"paused", "autoTimer"})
  BY <1>1 DEF CancelAutoSlide, Differs, IsDeck, DeckFields
<1>. HIDE DEF on, off
<1>3. ASSUME NEW n \in {on, off}
      PROVE  Placed(n)
  <2>1. Differs(n, d, {"paused", "autoTimer"})
    BY <1>2 DEF Differs
  <2>2. Differs(n, d, {"preview", "overview", "overviewTimer", "laidOut", "paused",
                       "autoSlidePaused", "autoTimer", "player"})
    BY <2>1 DEF Differs
  <2>3. /\ n.laidOut = d.laidOut /\ n.overviewTimer = d.overviewTimer
        /\ n.overview = d.overview /\ n.player = d.player /\ n.preview = d.preview
    BY <2>1 DEF Differs, DeckFields
  <2>. QED
    BY <2>2, <2>3, FlagsKept DEF Placed, Basics
<1>. QED
  BY <1>3, CuePlaces DEF TogglePause, on, off

(* A preview only opens where a link may, and covers the deck.             *)
LEMMA PreviewPlaces ==
  ASSUME NEW d, Placed(d), NEW open \in BOOLEAN, open => Previews(d, Current(d)) # {}
  PROVE  LET n == [d EXCEPT !.preview = open] IN Placed(n) /\ (Armed(d) => Armed(n))
<1>. DEFINE n == [d EXCEPT !.preview = open]
<1>1. Differs(n, d, {"preview"}) /\ n.preview = open
  BY DEF Placed, Basics, Differs, IsDeck, DeckFields
<1>. HIDE DEF n
<1>2. Differs(n, d, {"preview", "overview", "overviewTimer", "laidOut", "paused",
                     "autoSlidePaused", "autoTimer", "player"})
  BY <1>1 DEF Differs
<1>3. /\ n.config = d.config /\ n.h = d.h /\ n.v = d.v
      /\ n.laidOut = d.laidOut /\ n.overviewTimer = d.overviewTimer
      /\ n.overview = d.overview /\ n.player = d.player
      /\ n.autoTimer = d.autoTimer /\ n.paused = d.paused
      /\ n.autoSlidePaused = d.autoSlidePaused
  BY <1>1 DEF Differs, DeckFields
<1>4. n.preview => \E s \in Slides : Previews(d, s) # {}
  BY <1>1, PlacedIndices
<1>5. Placed(n)
  BY <1>2, <1>3, <1>4, FlagsKept DEF Placed, Basics
<1>6. Armed(d) => Armed(n)
  BY <1>3, SameEligible DEF Armed
<1>. QED
  BY <1>5, <1>6 DEF n

(* Every key, and every arrow or swipe.                                    *)
LEMMA PressPlaces ==
  ASSUME NEW d, Placed(d), NEW key \in Keys
  PROVE  Placed(Press(d, key))
<1>1. Placed(Slide(d, 0, Undefined)) /\ Placed(Slide(d, MaxValue, Undefined))
  BY PlacedIndices, SlidePlaces, MaxValueBeyond
<1>2. Placed(ClosePreview(d))
  BY PreviewPlaces DEF ClosePreview
<1>3. Placed(ToggleOverview(d))
  BY DeactivatePlaces, ActivatePlaces DEF ToggleOverview
<1>4. /\ Placed(NavigatePrev(d)) /\ Placed(NavigateNext(d)) /\ Placed(NavigateLeft(d))
      /\ Placed(NavigateRight(d)) /\ Placed(NavigateUp(d)) /\ Placed(NavigateDown(d))
      /\ Placed(DeactivateOverview(d)) /\ Placed(TogglePause(d))
  BY ArrowsPlace, PrevNextPlace, DeactivatePlaces, TogglePauses
<1>. QED
  BY <1>1, <1>2, <1>3, <1>4 DEF Press, Keys

(* Any control arrow leaves the deck in place.                             *)
LEMMA NavigatePlaces ==
  ASSUME NEW d, Placed(d), NEW arrow \in Arrows
  PROVE  Placed(Navigate(d, arrow)) /\ (Armed(d) => Armed(Navigate(d, arrow)))
<1>1. /\ Placed(NavigateLeft(d)) /\ (Armed(d) => Armed(NavigateLeft(d)))
      /\ Placed(NavigateRight(d)) /\ (Armed(d) => Armed(NavigateRight(d)))
      /\ Placed(NavigateUp(d)) /\ (Armed(d) => Armed(NavigateUp(d)))
      /\ Placed(NavigateDown(d)) /\ (Armed(d) => Armed(NavigateDown(d)))
      /\ Placed(NavigatePrev(d)) /\ (Armed(d) => Armed(NavigatePrev(d)))
      /\ Placed(NavigateNext(d)) /\ Armed(NavigateNext(d))
  BY ArrowsPlace, PrevNextPlace
<1>. QED
  BY <1>1 DEF Navigate, Arrows

-----------------------------------------------------------------------------
(* The hash, and the start.                                                *)

(* Only where the hash counts do these two fields matter.                  *)
LEMMA HashKept ==
  ASSUME NEW n, NEW d, Basics(d), Differs(n, d, {"hash", "hashEvents"}),
         HashOK(n.hash), n.hashEvents \in Nat
  PROVE  Basics(n)
<1>1. /\ IsDeck(n) /\ n.config = d.config /\ n.h = d.h /\ n.v = d.v
      /\ Current(n) = Current(d) /\ (Started(n) <=> Started(d))
      /\ n.present = d.present /\ n.state = d.state /\ n.classes = d.classes
      /\ n.playing = d.playing /\ n.resume = d.resume /\ n.shown = d.shown
      /\ n.number = d.number /\ n.resets = d.resets
      /\ n.laidOut = d.laidOut /\ n.overviewTimer = d.overviewTimer
      /\ n.overview = d.overview /\ n.player = d.player /\ n.preview = d.preview
  BY DEF Differs, DeckFields, Current, Started
<1>2. ResumeOK(n) /\ ShownOK(n) /\ NumberOK(n)
  BY <1>1 DEF Basics, ResumeOK, ShownOK, NumberOK
<1>3. n.preview => \E s \in Slides : Previews(n, s) # {}
  BY <1>1 DEF Basics, Previews
<1>4. (Started(n) => n.h = 0) /\ n.resets = 0 => OthersForgotten(n)
  BY <1>1 DEF Basics, OthersForgotten
<1>. QED
  BY <1>1, <1>2, <1>3, <1>4 DEF Basics

(* A hash points to a pair of numbers.                                     *)
LEMMA TargetInt ==
  ASSUME NEW d, Basics(d), NEW hash, HashOK(hash)
  PROVE  Target(d, hash)[1] \in Int /\ Target(d, hash)[2] \in Int
<1>1. d.h \in Int /\ d.v \in Int
  <2>1. CASE Started(d)
    BY <2>1, CurrentPair DEF Basics
  <2>2. CASE ~Started(d)
    BY <2>2 DEF Basics, Current, Undefined
  <2>. QED
    BY <2>1, <2>2
<1>2. \A x \in Sections : Indices(d, x)[1] \in Int /\ Indices(d, x)[2] \in Int
  BY <1>1, SlidePairs, Grid DEF Sections, Verticals, Indices
<1>3. CASE hash[1] = "index"
  BY <1>3 DEF Target, HashOK
<1>4. CASE hash[1] = "name" /\ Leading[hash[2]] # None
  BY <1>4, MarkupAssumption DEF Target, HashOK
<1>5. CASE hash[1] = "name" /\ Leading[hash[2]] = None
  <2>1. Named(hash[2]) \subseteq Sections
    BY DEF Named
  <2>2. Target(d, hash) =
          IF Named(hash[2]) # {} THEN Indices(d, CHOOSE x \in Named(hash[2]) : TRUE)
          ELSE IF Started(d) THEN Current(d) ELSE <<0, 0>>
    BY <1>5 DEF Target
  <2>3. CASE Named(hash[2]) # {}
    <3>1. (CHOOSE x \in Named(hash[2]) : TRUE) \in Named(hash[2])
      BY <2>3
    <3>. QED
      BY <1>2, <2>1, <2>2, <2>3, <3>1
  <2>4. CASE Named(hash[2]) = {}
    BY <1>1, <2>2, <2>4 DEF Current
  <2>. QED
    BY <2>3, <2>4
<1>. QED
  BY <1>3, <1>4, <1>5 DEF HashOK

(* readURL goes to where the hash points, or the deck is there.            *)
LEMMA ReadPlaces ==
  ASSUME NEW d, Basics(d)
  PROVE  LET n == ReadURL(d)
         IN  \/ /\ Placed(n) /\ Armed(n)
                /\ n.hashEvents \in {d.hashEvents, d.hashEvents + 1}
                /\ ~Started(d) => n.resets = d.resets
             \/ n = d /\ Target(d, d.hash) = Current(d) /\ ~IsName(d.hash)
<1>. DEFINE to == Target(d, d.hash)
<1>1. to[1] \in Int /\ to[2] \in Int
  BY TargetInt DEF Basics
<1>. HIDE DEF to
<1>2. CASE IsName(d.hash) \/ to # Current(d)
  <2>1. ReadURL(d) = Slide(d, to[1], to[2])
    BY <1>2 DEF ReadURL, to
  <2>. QED
    BY <1>1, <2>1, SlidePlaces
<1>3. CASE ~(IsName(d.hash) \/ to # Current(d))
  BY <1>3 DEF ReadURL, to
<1>. QED
  BY <1>2, <1>3

(* After the handler of a hashchange the deck is where the hash points.    *)
LEMMA HashChangePlaces ==
  ASSUME NEW d, Placed(d), d.hashEvents > 0
  PROVE  LET n == ReadURL([d EXCEPT !.hashEvents = @ - 1])
         IN  Placed(n) /\ (Armed(d) => Armed(n))
<1>. DEFINE e == [d EXCEPT !.hashEvents = @ - 1]
<1>1. Differs(e, d, {"hashEvents"}) /\ e.hashEvents = d.hashEvents - 1
  BY DEF Differs, IsDeck, DeckFields, Placed, Basics
<1>. HIDE DEF e
<1>2. /\ e.hashEvents \in Nat
      /\ e.config = d.config /\ e.h = d.h /\ e.v = d.v /\ e.hash = d.hash
      /\ e.shown = d.shown /\ e.number = d.number /\ e.resume = d.resume
      /\ e.controls = d.controls /\ e.displayed = d.displayed /\ e.resets = d.resets
      /\ e.laidOut = d.laidOut /\ e.overviewTimer = d.overviewTimer
      /\ e.overview = d.overview /\ e.player = d.player /\ e.preview = d.preview
      /\ e.autoTimer = d.autoTimer /\ e.paused = d.paused
      /\ e.autoSlidePaused = d.autoSlidePaused
  BY <1>1 DEF Differs, DeckFields, Placed, Basics
<1>3. Basics(e)
  <2>1. Differs(e, d, {"hash", "hashEvents"})
    BY <1>1 DEF Differs
  <2>. QED
    BY <1>2, <2>1, HashKept DEF Placed, Basics
<1>4. ASSUME Target(e, e.hash) = Current(e)
      PROVE  Placed(e)
  <2>1. Differs(e, d, {"shown", "number", "resume", "controls", "displayed", "preview",
                       "overview", "overviewTimer", "laidOut", "paused",
                       "autoSlidePaused", "autoTimer", "player", "hash", "hashEvents",
                       "resets"})
    BY <1>1 DEF Differs
  <2>2. e.controls = LitArrows(e)
    BY <1>2, SameArrows DEF Placed, Looks
  <2>3. ShownOK(e) /\ NumberOK(e) /\ ResumeOK(e) /\ HashOK(e.hash)
    BY <1>3 DEF Basics
  <2>4. e.h = 0 /\ e.resets = 0 => OthersForgotten(e)
    BY <1>3 DEF Basics
  <2>5. Points(e)
    BY <1>4 DEF Points
  <2>. QED
    BY <1>2, <2>1, <2>2, <2>3, <2>4, <2>5, PlacedKept DEF Placed, Basics, Looks
<1>5. Armed(d) => Armed(e)
  BY <1>2, SameEligible DEF Armed
<1>6. \/ Placed(ReadURL(e)) /\ Armed(ReadURL(e))
      \/ ReadURL(e) = e /\ Target(e, e.hash) = Current(e)
  BY <1>3, ReadPlaces
<1>. QED
  BY <1>4, <1>5, <1>6 DEF e

\* A deck that waits for its scripts.
Fresh(d) ==
  /\ Basics(d) /\ ~Started(d)
  /\ d.hashEvents = 0 /\ d.resets = 0 /\ d.controls = {}
  /\ d.hash[1] = "index" => d.hash[2] # Undefined

(* The deck before it starts shows nothing and remembers nothing.          *)
LEMMA BlankFresh ==
  ASSUME NEW config \in Configs, NEW hash \in Hashes[config]
  PROVE  LET d == [Blank(config) EXCEPT !.hash = hash]
         IN  Fresh(d) /\ d.config = config
<1>. DEFINE d == [Blank(config) EXCEPT !.hash = hash]
<1>1. /\ IsDeck(d) /\ d.config = config /\ d.h = Undefined /\ d.v = Undefined
      /\ d.resume = [h \in Columns |-> 0] /\ d.shown = [s \in Slides |-> {}]
      /\ d.number = Fragments /\ d.present = {} /\ d.state = <<>> /\ d.classes = {}
      /\ d.playing = {} /\ d.preview = FALSE /\ d.laidOut = FALSE
      /\ d.overviewTimer = FALSE /\ d.player = "none"
      /\ d.hash = hash /\ d.hashEvents = 0 /\ d.resets = 0 /\ d.controls = {}
  BY DEF Blank, IsDeck, DeckFields
<1>. HIDE DEF d
<1>2. ~Started(d) /\ Current(d) = <<Undefined, Undefined>>
  BY <1>1 DEF Started, Current
<1>3. <<Undefined, Undefined>> \notin Slides
  BY SlidePairs, Grid DEF Undefined
<1>4. Current(d) \notin Verticals
  BY <1>2, <1>3 DEF Verticals
<1>5. ResumeOK(d) /\ OthersForgotten(d)
  BY <1>1, Grid DEF ResumeOK, OthersForgotten
<1>6. ShownOK(d)
  BY <1>1 DEF ShownOK
<1>7. NumberOK(d)
  <2>1. \A s \in Slides : Fragments[s] \in [All(s) -> Nat \cup {None}]
    BY MarkupAssumption DEF All
  <2>2. Fragments = [s \in Slides |-> Fragments[s]]
    BY MarkupAssumption
  <2>. QED
    BY <1>1, <2>1, <2>2 DEF NumberOK
<1>8. ToSet(<<>>) = {}
  BY DEF ToSet
<1>9. /\ HashOK(d.hash)
      /\ d.hash[1] = "index" => d.hash[2] # Undefined
  BY <1>1, HashAssumption DEF HashOK
<1>10. Basics(d)
  BY <1>1, <1>2, <1>4, <1>5, <1>6, <1>7, <1>8, <1>9 DEF Basics
<1>. QED
  BY <1>1, <1>2, <1>9, <1>10 DEF Fresh, d

(* configure numbers the fragments and may add a player.                   *)
LEMMA ConfigureFresh ==
  ASSUME NEW d, Fresh(d)
  PROVE  Fresh(Configure(d))
<1>. DEFINE played == Cardinality(Sections) > 1 /\ d.config.autoSlide > 0 /\ d.config.stoppable
            m == IF played THEN [d EXCEPT !.player = "stopped", !.autoSlidePaused = FALSE]
                 ELSE d
            n == Configure(d)
<1>1. IsDeck(d)
  BY DEF Fresh, Basics
<1>2. /\ Differs(m, d, {"player", "autoSlidePaused"})
      /\ m.player \in {"none", "stopped", "playing"}
      /\ m.player # "none" => d.config.stoppable
  <2>1. CASE played
    BY <1>1, <2>1 DEF Differs, IsDeck, DeckFields
  <2>2. CASE ~played
    BY <1>1, <2>2 DEF Differs, Fresh, Basics
  <2>. QED
    BY <2>1, <2>2
<1>3. n = SortAllFragments(m)
  BY DEF Configure
<1>. HIDE DEF m
<1>4. /\ Differs(n, m, {"number"})
      /\ n.number = [s \in Slides |-> SortFragments(m.number[s], All(s))]
  BY <1>2, <1>3 DEF SortAllFragments, Differs, IsDeck, DeckFields
<1>. HIDE DEF n
<1>5. Differs(n, d, {"player", "autoSlidePaused", "number"})
  BY <1>2, <1>4 DEF Differs
<1>6. /\ IsDeck(n) /\ n.config = d.config /\ n.h = d.h /\ n.v = d.v
      /\ Current(n) = Current(d) /\ ~Started(n) /\ ~Started(d)
      /\ n.present = d.present /\ n.state = d.state /\ n.classes = d.classes
      /\ n.playing = d.playing /\ n.resume = d.resume /\ n.shown = d.shown
      /\ n.resets = d.resets /\ n.laidOut = d.laidOut
      /\ n.overviewTimer = d.overviewTimer /\ n.overview = d.overview
      /\ n.preview = d.preview /\ n.hash = d.hash /\ n.hashEvents = d.hashEvents
      /\ n.controls = d.controls /\ n.player = m.player /\ m.number = d.number
  BY <1>2, <1>4, <1>5 DEF Differs, DeckFields, Current, Started, Fresh
<1>7. NumberOK(n)
  <2>1. \A s \in Slides : d.number[s] \in [All(s) -> Nat \cup {None}]
    BY DEF Fresh, Basics, NumberOK
  <2>2. \A s \in Slides : SortFragments(d.number[s], All(s)) \in [All(s) -> Nat \cup {None}]
    BY <2>1, SortDense
  <2>. QED
    BY <1>4, <1>6, <2>2 DEF NumberOK
<1>8. ResumeOK(n) /\ ShownOK(n) /\ OthersForgotten(n)
  BY <1>6 DEF Fresh, Basics, ResumeOK, ShownOK, OthersForgotten
<1>9. n.preview => \E s \in Slides : Previews(n, s) # {}
  BY <1>6 DEF Fresh, Basics, Previews
<1>10. Basics(n)
  BY <1>2, <1>6, <1>7, <1>8, <1>9 DEF Fresh, Basics
<1>. QED
  BY <1>6, <1>10 DEF Fresh, n

(* The deck starts at a slide, and its auto-slide with it.                 *)
LEMMA StartPlaces ==
  ASSUME NEW d, Fresh(d)
  PROVE  LET n == Start(d)
         IN  Placed(n) /\ Armed(n) /\ n.hashEvents \in {0, 1} /\ n.resets = 0
<1>. DEFINE c == Configure(d)
            r == ReadURL(c)
            n == Start(d)
<1>1. Fresh(c)
  BY ConfigureFresh
<1>. HIDE DEF c
<1>2. ~(Target(c, c.hash) = Current(c) /\ ~IsName(c.hash))
  <2>1. Current(c) = <<Undefined, Undefined>> /\ HashOK(c.hash)
    BY <1>1 DEF Fresh, Basics
  <2>2. CASE c.hash[1] = "index"
    BY <1>1, <2>1, <2>2 DEF Fresh, Target
  <2>3. CASE c.hash[1] = "name" /\ Leading[c.hash[2]] # None
    BY <2>1, <2>3 DEF Target, Undefined
  <2>4. CASE c.hash[1] = "name" /\ Leading[c.hash[2]] = None
    BY <2>4 DEF IsName
  <2>. QED
    BY <2>1, <2>2, <2>3, <2>4 DEF HashOK
<1>3. /\ Placed(r) /\ Armed(r) /\ r.hashEvents \in {0, 1} /\ r.resets = 0
  BY <1>1, <1>2, ReadPlaces DEF Fresh
<1>. HIDE DEF r
<1>4. n = UpdateBackground(r, TRUE)
  BY DEF Start, r, c
<1>5. Differs(n, r, {"backdrop"}) /\ BackdropOK(n)
  BY <1>3, <1>4, BackgroundDiffers DEF Placed, Basics
<1>. HIDE DEF n
<1>6. /\ IsDeck(n) /\ n.config = r.config /\ n.h = r.h /\ n.v = r.v
      /\ Current(n) = Current(r) /\ Started(n)
      /\ n.present = r.present /\ n.state = r.state /\ n.classes = r.classes
      /\ n.playing = r.playing /\ n.resume = r.resume /\ n.shown = r.shown
      /\ n.number = r.number /\ n.resets = r.resets /\ n.laidOut = r.laidOut
      /\ n.overviewTimer = r.overviewTimer /\ n.overview = r.overview
      /\ n.player = r.player /\ n.preview = r.preview /\ n.hash = r.hash
      /\ n.hashEvents = r.hashEvents /\ n.progress = r.progress
      /\ n.displayed = r.displayed /\ n.controls = r.controls
      /\ n.autoTimer = r.autoTimer /\ n.paused = r.paused
      /\ n.autoSlidePaused = r.autoSlidePaused
  BY <1>3, <1>5 DEF Differs, DeckFields, Current, Started, Placed
<1>7. Basics(n)
  <2>1. Differs(n, r, {"backdrop"}) /\ Basics(r)
    BY <1>3, <1>5 DEF Placed
  <2>2. ResumeOK(n) /\ ShownOK(n) /\ NumberOK(n)
    BY <1>6, <2>1 DEF Basics, ResumeOK, ShownOK, NumberOK
  <2>3. n.preview => \E s \in Slides : Previews(n, s) # {}
    BY <1>6, <2>1 DEF Basics, Previews
  <2>4. (Started(n) => n.h = 0) /\ n.resets = 0 => OthersForgotten(n)
    BY <1>3, <1>6, <2>1 DEF Basics, OthersForgotten
  <2>. QED
    BY <1>3, <1>6, <2>1, <2>2, <2>3, <2>4 DEF Basics, Placed
<1>8. Looks(n)
  <2>1. n.controls = LitArrows(n)
    BY <1>3, <1>6, SameArrows DEF Placed, Looks
  <2>2. IdsAreNames => Points(n)
    BY <1>3, <1>6, SameTarget DEF Placed, Looks, Points
  <2>. QED
    BY <1>3, <1>5, <1>6, <2>1, <2>2 DEF Placed, Looks
<1>9. Armed(n)
  BY <1>3, <1>6, SameEligible DEF Armed
<1>. QED
  BY <1>3, <1>6, <1>7, <1>8, <1>9 DEF Placed, n

-----------------------------------------------------------------------------
(* Timers and the rest of the input.                                       *)

(* The auto-slide goes on from the slide it was paused at.                 *)
LEMMA ResumePlaces ==
  ASSUME NEW d, Placed(d)
  PROVE  Placed(ResumeAutoSlide(d)) /\ Armed(ResumeAutoSlide(d))
<1>. DEFINE m == [d EXCEPT !.autoSlidePaused = FALSE]
<1>1. Differs(m, d, {"autoSlidePaused"})
  BY DEF Placed, Basics, Differs, IsDeck, DeckFields
<1>. HIDE DEF m
<1>2. Differs(m, d, {"preview", "overview", "overviewTimer", "laidOut", "paused",
                     "autoSlidePaused", "autoTimer", "player"})
  BY <1>1 DEF Differs
<1>3. /\ m.laidOut = d.laidOut /\ m.overviewTimer = d.overviewTimer
      /\ m.overview = d.overview /\ m.player = d.player /\ m.preview = d.preview
  BY <1>1 DEF Differs, DeckFields
<1>4. Placed(m)
  BY <1>2, <1>3, FlagsKept DEF Placed, Basics
<1>. QED
  BY <1>4, CuePlaces DEF ResumeAutoSlide, m

(* The timer of the auto-slide fires.                                      *)
LEMMA AutoSlidePlaces ==
  ASSUME NEW d, Placed(d)
  PROVE  LET n == NavigateNext([d EXCEPT !.autoTimer = FALSE]) IN Placed(n) /\ Armed(n)
<1>. DEFINE m == [d EXCEPT !.autoTimer = FALSE]
<1>1. Differs(m, d, {"autoTimer"})
  BY DEF Placed, Basics, Differs, IsDeck, DeckFields
<1>. HIDE DEF m
<1>2. Differs(m, d, {"preview", "overview", "overviewTimer", "laidOut", "paused",
                     "autoSlidePaused", "autoTimer", "player"})
  BY <1>1 DEF Differs
<1>3. /\ m.laidOut = d.laidOut /\ m.overviewTimer = d.overviewTimer
      /\ m.overview = d.overview /\ m.player = d.player /\ m.preview = d.preview
  BY <1>1 DEF Differs, DeckFields
<1>4. Placed(m)
  BY <1>2, <1>3, FlagsKept DEF Placed, Basics
<1>. QED
  BY <1>4, PrevNextPlace DEF m

(* The overview is laid out.                                               *)
LEMMA LayOutPlaces ==
  ASSUME NEW d, Placed(d), d.overviewTimer
  PROVE  LET n == UpdateSlidesVisibility([d EXCEPT !.overviewTimer = FALSE, !.laidOut = TRUE])
         IN  Placed(n) /\ (Armed(d) => Armed(n))
<1>. DEFINE m == [d EXCEPT !.overviewTimer = FALSE, !.laidOut = TRUE]
            n == UpdateSlidesVisibility(m)
<1>1. Differs(m, d, {"overviewTimer", "laidOut"})
  BY DEF Placed, Basics, Differs, IsDeck, DeckFields
<1>. HIDE DEF m
<1>2. /\ IsDeck(m) /\ m.config = d.config /\ m.h = d.h /\ m.v = d.v
      /\ Current(m) = Current(d)
  BY <1>1 DEF Differs, DeckFields, Current
<1>3. /\ Differs(n, m, {"displayed"})
      /\ {<<d.h>>, Section(Current(d))} \subseteq n.displayed
  BY <1>2, VisibilityDiffers DEF Placed, Basics
<1>. HIDE DEF n
<1>4. Differs(n, d, {"displayed", "overviewTimer", "laidOut"})
  BY <1>1, <1>3 DEF Differs
<1>5. Differs(n, d, {"shown", "number", "resume", "controls", "displayed", "preview",
                     "overview", "overviewTimer", "laidOut", "paused",
                     "autoSlidePaused", "autoTimer", "player", "hash", "hashEvents",
                     "resets"})
  BY <1>4 DEF Differs
<1>6. /\ n.config = d.config /\ n.h = d.h /\ n.v = d.v
      /\ n.shown = d.shown /\ n.number = d.number /\ n.resume = d.resume
      /\ n.controls = d.controls /\ n.overview = d.overview /\ n.player = d.player
      /\ n.preview = d.preview /\ n.resets = d.resets /\ n.hash = d.hash
      /\ n.hashEvents = d.hashEvents /\ n.autoTimer = d.autoTimer
      /\ n.paused = d.paused /\ n.autoSlidePaused = d.autoSlidePaused
  BY <1>4 DEF Differs, DeckFields
<1>7. n.overview
  BY <1>6 DEF Placed, Basics
<1>8. ShownOK(n) /\ NumberOK(n) /\ ResumeOK(n)
  BY <1>6 DEF Placed, Basics, ShownOK, NumberOK, ResumeOK
<1>9. n.h = 0 /\ n.resets = 0 => OthersForgotten(n)
  BY <1>6 DEF Placed, Basics, OthersForgotten
<1>10. n.controls = LitArrows(n)
  BY <1>6, SameArrows DEF Placed, Looks
<1>11. IdsAreNames => Points(n)
  BY <1>6, SameTarget DEF Placed, Looks, Points
<1>12. Placed(n)
  BY <1>3, <1>5, <1>6, <1>7, <1>8, <1>9, <1>10, <1>11, PlacedKept DEF Placed, Basics
<1>13. Armed(d) => Armed(n)
  BY <1>6, SameEligible DEF Armed
<1>. QED
  BY <1>12, <1>13 DEF m, n

(* The stacks forget where they were left.                                 *)
LEMMA ResetPlaces ==
  ASSUME NEW d, Placed(d), d.resets > 0
  PROVE  LET n == [d EXCEPT !.resets = @ - 1, !.resume = [h \in Columns |-> 0]]
         IN  Placed(n) /\ (Armed(d) => Armed(n))
<1>. DEFINE n == [d EXCEPT !.resets = @ - 1, !.resume = [h \in Columns |-> 0]]
<1>1. /\ Differs(n, d, {"resets", "resume"})
      /\ n.resets = d.resets - 1 /\ n.resume = [h \in Columns |-> 0]
  BY DEF Placed, Basics, Differs, IsDeck, DeckFields
<1>. HIDE DEF n
<1>2. Differs(n, d, {"shown", "number", "resume", "controls", "displayed", "preview",
                     "overview", "overviewTimer", "laidOut", "paused",
                     "autoSlidePaused", "autoTimer", "player", "hash", "hashEvents",
                     "resets"})
  BY <1>1 DEF Differs
<1>3. /\ n.config = d.config /\ n.h = d.h /\ n.v = d.v
      /\ n.shown = d.shown /\ n.number = d.number /\ n.displayed = d.displayed
      /\ n.controls = d.controls /\ n.overview = d.overview /\ n.player = d.player
      /\ n.laidOut = d.laidOut /\ n.overviewTimer = d.overviewTimer
      /\ n.preview = d.preview /\ n.hash = d.hash
      /\ n.hashEvents = d.hashEvents /\ n.autoTimer = d.autoTimer
      /\ n.paused = d.paused /\ n.autoSlidePaused = d.autoSlidePaused
  BY <1>1 DEF Differs, DeckFields
<1>4. n.resets \in Nat
  BY <1>1 DEF Placed, Basics
<1>5. ShownOK(n) /\ NumberOK(n)
  BY <1>3 DEF Placed, Basics, ShownOK, NumberOK
<1>6. ResumeOK(n) /\ OthersForgotten(n)
  BY <1>1, Grid DEF ResumeOK, OthersForgotten
<1>7. n.controls = LitArrows(n)
  BY <1>3, SameArrows DEF Placed, Looks
<1>8. IdsAreNames => Points(n)
  BY <1>3, SameTarget DEF Placed, Looks, Points
<1>9. Placed(n)
  BY <1>2, <1>3, <1>4, <1>5, <1>6, <1>7, <1>8, PlacedKept DEF Placed, Basics, Looks
<1>10. Armed(d) => Armed(n)
  BY <1>3, SameEligible DEF Armed
<1>. QED
  BY <1>9, <1>10 DEF n

(* The reader edits the hash: an event is pending.                         *)
LEMMA EditPlaces ==
  ASSUME NEW d, Placed(d), NEW hash, HashOK(hash)
  PROVE  LET n == [d EXCEPT !.hash = hash, !.hashEvents = @ + 1]
         IN  Placed(n) /\ (Armed(d) => Armed(n))
<1>. DEFINE n == [d EXCEPT !.hash = hash, !.hashEvents = @ + 1]
<1>1. /\ Differs(n, d, {"hash", "hashEvents"})
      /\ n.hash = hash /\ n.hashEvents = d.hashEvents + 1
  BY DEF Placed, Basics, Differs, IsDeck, DeckFields
<1>. HIDE DEF n
<1>2. Differs(n, d, {"shown", "number", "resume", "controls", "displayed", "preview",
                     "overview", "overviewTimer", "laidOut", "paused",
                     "autoSlidePaused", "autoTimer", "player", "hash", "hashEvents",
                     "resets"})
  BY <1>1 DEF Differs
<1>3. /\ n.config = d.config /\ n.h = d.h /\ n.v = d.v /\ n.resume = d.resume
      /\ n.shown = d.shown /\ n.number = d.number /\ n.displayed = d.displayed
      /\ n.controls = d.controls /\ n.overview = d.overview /\ n.player = d.player
      /\ n.laidOut = d.laidOut /\ n.overviewTimer = d.overviewTimer
      /\ n.preview = d.preview /\ n.resets = d.resets
      /\ n.autoTimer = d.autoTimer
      /\ n.paused = d.paused /\ n.autoSlidePaused = d.autoSlidePaused
  BY <1>1 DEF Differs, DeckFields
<1>4. n.hashEvents \in Nat /\ n.hashEvents > 0
  BY <1>1 DEF Placed, Basics
<1>5. ShownOK(n) /\ NumberOK(n) /\ ResumeOK(n)
  BY <1>3 DEF Placed, Basics, ShownOK, NumberOK, ResumeOK
<1>6. n.h = 0 /\ n.resets = 0 => OthersForgotten(n)
  BY <1>3 DEF Placed, Basics, OthersForgotten
<1>7. n.controls = LitArrows(n)
  BY <1>3, SameArrows DEF Placed, Looks
<1>8. Points(n)
  BY <1>4 DEF Points
<1>9. Placed(n)
  BY <1>1, <1>2, <1>3, <1>4, <1>5, <1>6, <1>7, <1>8, PlacedKept DEF Placed, Basics, Looks
<1>10. Armed(d) => Armed(n)
  BY <1>3, SameEligible DEF Armed
<1>. QED
  BY <1>9, <1>10 DEF n

-----------------------------------------------------------------------------
(* The invariant of the page.                                              *)

\* The scripts that are still needed before a start, none after it.
DeckInv ==
  \/ /\ Fresh(deck) /\ loader.starts = 0
     /\ IsFiniteSet(loader.waiting) /\ loader.waiting # {}
     /\ loader.toPreload = Cardinality(loader.waiting)
  \/ /\ Placed(deck) /\ Armed(deck) /\ loader.starts = 1
     /\ loader.toPreload \in Int /\ loader.toPreload <= 0
     /\ deck.resets <= MaxResets /\ deck.hashEvents <= MaxEvents

\* A gesture was made by the fingers that are down, or by two of which one
\* is still: it cannot make another.
IsTouch(t) == t = [field \in {"fingers", "startCount", "captured", "acts"} |-> t[field]]

TouchInv ==
  /\ IsTouch(touch)
  /\ touch.fingers \in 0 .. MaxFingers /\ touch.startCount \in Int
  /\ touch.captured \in BOOLEAN /\ touch.acts \in {0, 1}
  /\ touch.acts = 1 =>
       \/ touch.fingers = 1 /\ touch.captured
       \/ touch.fingers = 2 /\ touch.startCount = 2 /\ touch.captured
       \/ touch.fingers = 1 /\ touch.startCount = 2

(* Without a script to wait for the deck starts in place; with one it      *)
(* waits, untouched.                                                       *)
LEMMA DeckInit == Init => DeckInv /\ TouchInv
<1>. SUFFICES ASSUME NEW config \in Configs, NEW hash \in Hashes[config],
                     Load(config, hash),
                     touch = [fingers |-> 0, startCount |-> 0, captured |-> FALSE, acts |-> 0]
              PROVE  DeckInv /\ TouchInv
  BY DEF Init
<1>. DEFINE d == [Blank(config) EXCEPT !.hash = hash]
            first == Sync(config)
<1>1. Fresh(d)
  BY BlankFresh
<1>2. IsFiniteSet(first)
  BY ConfigAssumption, FS_Subset DEF Sync
<1>3. /\ loader = [toPreload |-> Cardinality(first),
                   waiting |-> IF first = {} THEN Async(config) ELSE first,
                   starts |-> IF first = {} THEN 1 ELSE 0]
      /\ deck = IF first = {} THEN Start(d) ELSE d
  BY DEF Load
<1>. HIDE DEF d, first
<1>4. DeckInv
  <2>1. CASE first = {}
    <3>1. Placed(deck) /\ Armed(deck) /\ deck.hashEvents \in {0, 1} /\ deck.resets = 0
      BY <1>1, <1>3, <2>1, StartPlaces
    <3>2. loader.starts = 1 /\ loader.toPreload = 0
      BY <1>3, <2>1, FS_EmptySet
    <3>. QED
      BY <3>1, <3>2, BoundsAssumption DEF DeckInv
  <2>2. CASE first # {}
    BY <1>1, <1>2, <1>3, <2>2 DEF DeckInv
  <2>. QED
    BY <2>1, <2>2
<1>5. TouchInv
  <2>1. IsTouch(touch)
    BY DEF IsTouch
  <2>2. touch.fingers = 0 /\ touch.startCount = 0 /\ touch.captured = FALSE /\ touch.acts = 0
    OBVIOUS
  <2>. QED
    BY <2>1, <2>2, BoundsAssumption DEF TouchInv
<1>. QED
  BY <1>4, <1>5

\* What a task of a started deck has to leave.
Kept ==
  /\ Placed(deck') /\ Armed(deck')
  /\ deck'.resets <= MaxResets /\ deck'.hashEvents <= MaxEvents
  /\ UNCHANGED loader

(* A deck that has started is in place with its auto-slide, and stays so   *)
(* by any step that leaves it in place again.                              *)
LEMMA Running ==
  ASSUME DeckInv, Started(deck)
  PROVE  Placed(deck) /\ Armed(deck) /\ (Kept => DeckInv')
BY DEF DeckInv, Fresh, Kept

(* Input leaves the invariant of a running deck.                           *)
LEMMA KeysKeep ==
  ASSUME DeckInv, \/ \E key \in Keys : KeyDown(key)
                  \/ KeyElsewhere
                  \/ \E arrow \in Arrows : ControlClicked(arrow)
                  \/ ProgressClicked
                  \/ MouseScroll
  PROVE  DeckInv'
<1>1. Started(deck)
  BY DEF KeyDown, KeyElsewhere, ControlClicked, ProgressClicked, MouseScroll, Becomes
<1>2. Placed(deck) /\ Armed(deck)
  BY <1>1, Running
<1>3. Placed(UserInput(deck)) /\ Armed(UserInput(deck))
  BY <1>2, InputPlaces
<1>4. ASSUME NEW key \in Keys, KeyDown(key)
      PROVE  Kept
  <2>. DEFINE d == UserInput(deck)
  <2>1. Becomes(IF d.paused /\ key # "pause" THEN d ELSE CueAutoSlide(Press(d, key)))
    BY <1>4 DEF KeyDown
  <2>. HIDE DEF d
  <2>2. Placed(d) /\ Armed(d)
    BY <1>3 DEF d
  <2>3. Placed(CueAutoSlide(Press(d, key))) /\ Armed(CueAutoSlide(Press(d, key)))
    BY <2>2, PressPlaces, CuePlaces
  <2>. QED
    BY <2>1, <2>2, <2>3 DEF Becomes, Kept
<1>5. ASSUME KeyElsewhere
      PROVE  Kept
  BY <1>3, <1>5 DEF KeyElsewhere, Becomes, Kept
<1>6. ASSUME NEW arrow \in Arrows, ControlClicked(arrow)
      PROVE  Kept
  <2>1. Placed(Navigate(UserInput(deck), arrow)) /\ Armed(Navigate(UserInput(deck), arrow))
    BY <1>3, NavigatePlaces
  <2>. QED
    BY <1>6, <2>1 DEF ControlClicked, Becomes, Kept
<1>7. ASSUME ProgressClicked
      PROVE  Kept
  <2>1. PICK h \in 0 .. Width : Becomes(Slide(UserInput(deck), h, Undefined))
    BY <1>7 DEF ProgressClicked
  <2>2. h \in Int /\ Undefined \in Int
    BY Grid DEF Undefined
  <2>3. /\ Placed(Slide(UserInput(deck), h, Undefined))
        /\ Armed(Slide(UserInput(deck), h, Undefined))
    BY <1>3, <2>2, SlidePlaces DEF Placed
  <2>. QED
    BY <2>1, <2>3 DEF Becomes, Kept
<1>8. ASSUME MouseScroll
      PROVE  Kept
  BY <1>2, <1>8, PrevNextPlace DEF MouseScroll, Becomes, Kept
<1>. QED
  BY <1>1, <1>4, <1>5, <1>6, <1>7, <1>8, Running

(* Clicks in the overview, on links, on the player, and edits of the URL.  *)
LEMMA ClicksKeep ==
  ASSUME DeckInv, \/ \E s \in Slides : OverviewSlideClicked(s)
                  \/ PreviewLinkClicked \/ PreviewClosed
                  \/ AutoSlidePlayerClick
                  \/ \E hash \in Hashes[deck.config] : HashEdited(hash)
  PROVE  DeckInv'
<1>1. Started(deck)
  BY DEF OverviewSlideClicked, PreviewLinkClicked, PreviewClosed, AutoSlidePlayerClick,
         HashEdited, Becomes
<1>2. Placed(deck) /\ Armed(deck)
  BY <1>1, Running
<1>3. ASSUME NEW s \in Slides, OverviewSlideClicked(s)
      PROVE  Kept
  <2>1. s[1] \in Int /\ s[2] \in Int
    BY SlidePairs
  <2>2. Placed(DeactivateOverview(deck))
    BY <1>2, DeactivatePlaces
  <2>3. /\ Placed(Slide(DeactivateOverview(deck), s[1], s[2]))
        /\ Armed(Slide(DeactivateOverview(deck), s[1], s[2]))
    BY <2>1, <2>2, SlidePlaces DEF Placed
  <2>. QED
    BY <1>3, <2>3 DEF OverviewSlideClicked, Becomes, Kept
<1>4. ASSUME PreviewLinkClicked
      PROVE  Kept
  <2>1. Previews(deck, Current(deck)) # {} /\ Becomes(OpenPreview(deck))
    BY <1>4 DEF PreviewLinkClicked
  <2>2. Placed(OpenPreview(deck)) /\ Armed(OpenPreview(deck))
    BY <1>2, <2>1, PreviewPlaces DEF OpenPreview
  <2>. QED
    BY <2>1, <2>2 DEF Becomes, Kept
<1>5. ASSUME PreviewClosed
      PROVE  Kept
  <2>1. Placed(ClosePreview(deck)) /\ Armed(ClosePreview(deck))
    BY <1>2, PreviewPlaces DEF ClosePreview
  <2>. QED
    BY <1>5, <2>1 DEF PreviewClosed, Becomes, Kept
<1>6. ASSUME AutoSlidePlayerClick
      PROVE  Kept
  <2>1. Placed(Slide(deck, 0, 0))
    BY <1>2, SlidePlaces DEF Placed
  <2>2. /\ Placed(ResumeAutoSlide(Slide(deck, 0, 0))) /\ Armed(ResumeAutoSlide(Slide(deck, 0, 0)))
        /\ Placed(ResumeAutoSlide(deck)) /\ Armed(ResumeAutoSlide(deck))
        /\ Placed(PauseAutoSlide(deck)) /\ Armed(PauseAutoSlide(deck))
    BY <1>2, <2>1, ResumePlaces, PausePlaces
  <2>. QED
    BY <1>6, <2>2 DEF AutoSlidePlayerClick, Becomes, Kept
<1>7. ASSUME NEW hash \in Hashes[deck.config], HashEdited(hash)
      PROVE  Kept
  <2>1. HashOK(hash)
    BY <1>2, HashAssumption DEF HashOK, Placed, Basics
  <2>. DEFINE n == [deck EXCEPT !.hash = hash, !.hashEvents = @ + 1]
  <2>2. Placed(n) /\ Armed(n)
    BY <1>2, <2>1, EditPlaces
  <2>3. Becomes(n)
    BY <1>7 DEF HashEdited
  <2>. QED
    BY <2>2, <2>3 DEF Becomes, Kept
<1>. QED
  BY <1>1, <1>3, <1>4, <1>5, <1>6, <1>7, Running

(* Touches move the deck as the keys do.                                   *)
LEMMA TouchesKeep ==
  ASSUME DeckInv, \/ TouchStart \/ Wiggle \/ Pinch \/ TouchEnd \/ TouchCancel
                  \/ \E direction \in Swipes : Swipe(direction)
  PROVE  DeckInv'
<1>1. ASSUME NEW direction \in Swipes, Swipe(direction)
      PROVE  DeckInv'
  <2>1. Becomes(Navigate(UserInput(deck), direction)) /\ direction \in Arrows /\ Started(deck)
    BY <1>1 DEF Swipe, TouchMoves, Becomes, Swipes, Arrows
  <2>2. Placed(UserInput(deck)) /\ Armed(UserInput(deck))
    BY <2>1, Running, InputPlaces
  <2>3. /\ Placed(Navigate(UserInput(deck), direction))
        /\ Armed(Navigate(UserInput(deck), direction))
    BY <2>1, <2>2, NavigatePlaces
  <2>. QED
    BY <2>1, <2>3, Running DEF Becomes, Kept
<1>2. CASE Wiggle
  <2>1. Becomes(UserInput(deck)) /\ Started(deck)
    BY <1>2 DEF Wiggle, TouchMoves, Becomes
  <2>2. Placed(UserInput(deck)) /\ Armed(UserInput(deck))
    BY <2>1, Running, InputPlaces
  <2>. QED
    BY <2>1, <2>2, Running DEF Becomes, Kept
<1>3. CASE Pinch
  <2>. DEFINE d == UserInput(deck)
  <2>1. Becomes(ActivateOverview(d)) \/ Becomes(DeactivateOverview(d))
    BY <1>3 DEF Pinch, TouchMoves
  <2>2. Started(deck)
    BY <2>1 DEF Becomes
  <2>3. Placed(d) /\ Armed(d) /\ (d.config.stoppable => d.player # "playing")
    BY <2>2, Running, InputPlaces
  <2>. HIDE DEF d
  <2>4. d.player # "playing"
    BY <2>3 DEF Placed, Basics
  <2>5. /\ Placed(ActivateOverview(d)) /\ Armed(ActivateOverview(d))
        /\ Placed(DeactivateOverview(d)) /\ Armed(DeactivateOverview(d))
    BY <2>3, <2>4, ActivatePlaces, DeactivatePlaces
  <2>. QED
    BY <2>1, <2>2, <2>5, Running DEF Becomes, Kept
<1>4. CASE TouchStart \/ TouchEnd \/ TouchCancel
  <2>1. UNCHANGED <<deck, loader>>
    BY <1>4 DEF TouchStart, TouchEnd, TouchCancel
  <2>. QED
    BY <2>1 DEF DeckInv
<1>. QED
  BY <1>1, <1>2, <1>3, <1>4

(* The deck starts with the last script that is needed for it, once.       *)
LEMMA ScriptKeeps ==
  ASSUME DeckInv, NEW s \in loader.waiting, ScriptReady(s)
  PROVE  DeckInv'
<1>. DEFINE left == loader.toPreload - 1
<1>1. /\ loader' = [toPreload |-> left,
                    waiting |-> (loader.waiting \ {s}) \cup
                                (IF left = 0 THEN Async(deck.config) ELSE {}),
                    starts |-> IF left = 0 THEN loader.starts + 1 ELSE loader.starts]
      /\ deck' = IF left = 0 THEN Start(deck) ELSE deck
  BY DEF ScriptReady
<1>2. CASE Started(deck)
  <2>1. left \in Int /\ left < 0 /\ Placed(deck)
    BY <1>2 DEF DeckInv, Fresh
  <2>2. /\ loader'.toPreload = left /\ loader'.starts = loader.starts /\ deck' = deck
    BY <1>1, <2>1
  <2>. QED
    BY <1>2, <2>1, <2>2 DEF DeckInv, Fresh
<1>3. CASE ~Started(deck)
  <2>1. /\ Fresh(deck) /\ loader.starts = 0
        /\ IsFiniteSet(loader.waiting) /\ loader.waiting # {}
        /\ loader.toPreload = Cardinality(loader.waiting)
    BY <1>3 DEF DeckInv, Placed
  <2>2. /\ IsFiniteSet(loader.waiting \ {s}) /\ Cardinality(loader.waiting \ {s}) = left
        /\ left \in Nat
    <3>1. /\ IsFiniteSet(loader.waiting \ {s})
          /\ Cardinality(loader.waiting \ {s}) = Cardinality(loader.waiting) - 1
      BY <2>1, FS_RemoveElement
    <3>2. Cardinality(loader.waiting \ {s}) \in Nat
      BY <3>1, FS_CardinalityType
    <3>. QED
      BY <2>1, <3>1, <3>2
  <2>3. CASE left = 0
    <3>1. /\ Placed(deck') /\ Armed(deck') /\ deck'.hashEvents \in {0, 1} /\ deck'.resets = 0
      BY <1>1, <2>1, <2>3, StartPlaces
    <3>2. loader'.toPreload = 0 /\ loader'.starts = 1
      BY <1>1, <2>1, <2>3
    <3>. QED
      BY <3>1, <3>2, BoundsAssumption DEF DeckInv
  <2>4. CASE left # 0
    <3>1. /\ deck' = deck /\ loader'.toPreload = left /\ loader'.starts = 0
          /\ loader'.waiting = loader.waiting \ {s}
      BY <1>1, <2>1, <2>4
    <3>2. loader.waiting \ {s} # {}
      BY <2>2, <2>4, FS_EmptySet
    <3>. QED
      BY <2>1, <2>2, <3>1, <3>2 DEF DeckInv
  <2>. QED
    BY <2>3, <2>4
<1>. QED
  BY <1>2, <1>3

(* Timers and events find the deck in place, however late they come, and   *)
(* leave it so.                                                            *)
LEMMA TimersKeep ==
  ASSUME DeckInv, AutoSlide \/ LayOutOverview \/ ResetStacks \/ HashChange
  PROVE  DeckInv'
<1>1. Started(deck)
  BY DEF AutoSlide, LayOutOverview, ResetStacks, HashChange, Becomes
<1>2. Placed(deck) /\ Armed(deck)
  BY <1>1, Running
<1>3. ASSUME AutoSlide
      PROVE  Kept
  BY <1>2, <1>3, AutoSlidePlaces DEF AutoSlide, Becomes, Kept
<1>4. ASSUME LayOutOverview
      PROVE  Kept
  BY <1>2, <1>4, LayOutPlaces DEF LayOutOverview, Becomes, Kept
<1>5. ASSUME ResetStacks
      PROVE  Kept
  BY <1>2, <1>5, ResetPlaces DEF ResetStacks, Becomes, Kept
<1>6. ASSUME HashChange
      PROVE  Kept
  BY <1>2, <1>6, HashChangePlaces DEF HashChange, Becomes, Kept
<1>. QED
  BY <1>1, <1>3, <1>4, <1>5, <1>6, Running

(* A touch makes one gesture at most.                                      *)
LEMMA TouchStep ==
  ASSUME TouchInv, [Next]_vars
  PROVE  TouchInv'
<1>. USE BoundsAssumption
<1>1. CASE TouchStart
  <2>1. /\ IsTouch(touch) /\ touch.fingers < MaxFingers
        /\ touch' = [touch EXCEPT !.fingers = touch.fingers + 1,
                                  !.startCount = touch.fingers + 1, !.acts = 0]
    BY <1>1 DEF TouchInv, TouchStart
  <2>2. /\ IsTouch(touch') /\ touch'.fingers = touch.fingers + 1 /\ touch'.acts = 0
        /\ touch'.startCount = touch.fingers + 1 /\ touch'.captured = touch.captured
    BY <2>1 DEF IsTouch
  <2>3. touch'.acts # 1
    BY <2>2
  <2>. QED
    BY <2>1, <2>2, <2>3 DEF TouchInv
<1>2. CASE Wiggle
  BY <1>2 DEF TouchInv, Wiggle, TouchMoves
<1>3. ASSUME \/ touch.fingers = 1 /\ touch.startCount # 2
             \/ touch.fingers = 2 /\ touch.startCount = 2,
             ~touch.captured,
             touch' = [touch EXCEPT !.captured = TRUE, !.acts = @ + 1]
      PROVE  TouchInv'
  <2>1. IsTouch(touch) /\ touch.acts = 0
    BY <1>3 DEF TouchInv
  <2>2. /\ IsTouch(touch') /\ touch'.fingers = touch.fingers
        /\ touch'.startCount = touch.startCount /\ touch'.captured = TRUE
    BY <1>3, <2>1 DEF IsTouch
  <2>3. touch'.acts = 1
    BY <1>3, <2>1 DEF IsTouch
  <2>4. \/ touch'.fingers = 1
        \/ touch'.fingers = 2 /\ touch'.startCount = 2
    BY <1>3, <2>2
  <2>. QED
    BY <2>2, <2>3, <2>4 DEF TouchInv
<1>4. CASE Pinch
  BY <1>3, <1>4 DEF Pinch, TouchMoves
<1>5. CASE \E direction \in Swipes : Swipe(direction)
  <2>1. touch.fingers = 1 /\ touch.startCount # 2 /\ ~touch.captured
    BY <1>5 DEF Swipe, TouchMoves
  <2>2. touch' = [touch EXCEPT !.captured = TRUE, !.acts = @ + 1]
    BY <1>5 DEF Swipe, TouchMoves
  <2>. QED
    BY <1>3, <2>1, <2>2
<1>6. CASE TouchEnd
  <2>1. /\ IsTouch(touch) /\ touch.fingers > 0
        /\ touch' = [touch EXCEPT !.fingers = touch.fingers - 1, !.captured = FALSE,
                                  !.acts = IF touch.fingers = 1 THEN 0 ELSE touch.acts]
    BY <1>6 DEF TouchInv, TouchEnd
  <2>2. /\ IsTouch(touch') /\ touch'.fingers = touch.fingers - 1
        /\ touch'.startCount = touch.startCount /\ touch'.captured = FALSE
        /\ touch'.acts = IF touch.fingers = 1 THEN 0 ELSE touch.acts
    BY <2>1 DEF IsTouch
  <2>3. touch'.fingers \in 0 .. MaxFingers /\ touch'.startCount \in Int
        /\ touch'.acts \in {0, 1}
    BY <2>1, <2>2 DEF TouchInv
  <2>4. touch'.acts = 1 => touch'.fingers = 1 /\ touch'.startCount = 2
    BY <2>1, <2>2 DEF TouchInv
  <2>. QED
    BY <2>2, <2>3, <2>4 DEF TouchInv
<1>7. CASE TouchCancel
  <2>1. IsTouch(touch) /\ touch' = [touch EXCEPT !.fingers = 0, !.acts = 0]
    BY <1>7 DEF TouchInv, TouchCancel
  <2>2. /\ IsTouch(touch') /\ touch'.fingers = 0 /\ touch'.acts = 0
        /\ touch'.startCount = touch.startCount /\ touch'.captured = touch.captured
    BY <2>1 DEF IsTouch
  <2>3. touch'.acts # 1
    BY <2>2
  <2>. QED
    BY <2>2, <2>3 DEF TouchInv
<1>8. CASE UNCHANGED touch
  BY <1>8 DEF TouchInv
<1>9. \/ TouchStart \/ Wiggle \/ Pinch \/ TouchEnd \/ TouchCancel
      \/ \E direction \in Swipes : Swipe(direction)
      \/ UNCHANGED touch
  BY DEF vars, Next, Input, Page, KeyDown, KeyElsewhere, ControlClicked, ProgressClicked,
         MouseScroll, OverviewSlideClicked, PreviewLinkClicked, PreviewClosed,
         AutoSlidePlayerClick, HashEdited, ScriptReady, AutoSlide, LayOutOverview,
         ResetStacks, HashChange
<1>. QED
  BY <1>1, <1>2, <1>3, <1>4, <1>5, <1>6, <1>7, <1>8, <1>9

(* Every task of the page keeps the deck in place.                         *)
LEMMA DeckStep ==
  ASSUME DeckInv, [Next]_vars
  PROVE  DeckInv'
<1>1. CASE UNCHANGED vars
  BY <1>1 DEF DeckInv, vars
<1>2. CASE Next
  BY <1>2, KeysKeep, ClicksKeep, TouchesKeep, ScriptKeeps, TimersKeep DEF Next, Input, Page
<1>. QED
  BY <1>1, <1>2

(* The invariant holds of every behaviour.                                 *)
LEMMA DeckInvariance == Spec => [](DeckInv /\ TouchInv)
<1>1. Init => DeckInv /\ TouchInv
  BY DeckInit
<1>2. DeckInv /\ TouchInv /\ [Next]_vars => (DeckInv /\ TouchInv)'
  BY DeckStep, TouchStep
<1>. QED
  BY <1>1, <1>2, PTL DEF Spec
-----------------------------------------------------------------------------
(* The properties of the run, for every deck.                              *)

(* The state follows from what the invariant says of it.                   *)
LEMMA InvTypeOK ==
  ASSUME DeckInv, TouchInv
  PROVE  DeckTypeOK
<1>1. Basics(deck)
  BY DEF DeckInv, Fresh, Placed
<1>2. deck.controls \subseteq Arrows
  <2>1. CASE Started(deck)
    <3>1. deck.controls = LitArrows(deck)
      BY <2>1 DEF DeckInv, Fresh, Placed, Looks
    <3>. QED
      BY <3>1 DEF LitArrows, Lit, Arrows
  <2>2. CASE ~Started(deck)
    BY <2>2 DEF DeckInv, Fresh, Placed
  <2>. QED
    BY <2>1, <2>2
<1>3. /\ deck.resets \in 0 .. MaxResets /\ deck.hashEvents \in 0 .. MaxEvents
      /\ loader.starts = (IF Started(deck) THEN 1 ELSE 0)
  BY <1>1, BoundsAssumption DEF DeckInv, Fresh, Placed, Basics
<1>4. /\ \A h \in Columns : deck.resume[h] \in 0 .. Rows(h) - 1
      /\ \A s \in Slides : deck.shown[s] \subseteq All(s)
  BY <1>1, Grid DEF Basics, ResumeOK, ShownOK
<1>5. /\ touch.fingers \in 0 .. MaxFingers /\ touch.captured \in BOOLEAN
  BY DEF TouchInv
<1>6. deck.present \subseteq Verticals
  BY <1>1 DEF Basics
<1>. QED
  BY <1>1, <1>2, <1>3, <1>4, <1>5, <1>6 DEF Basics, DeckTypeOK

(* The type invariant: the current slide is always one of the deck, every  *)
(* stack is resumed at a row it has, only fragments that exist are shown,  *)
(* and the deck starts exactly once, whatever scripts it waits for and in  *)
(* whatever order they come in (load, slide).                              *)
THEOREM DeckTypeInvariant == Spec => []DeckTypeOK
<1>1. DeckInv /\ TouchInv => DeckTypeOK
  BY InvTypeOK
<1>. QED
  BY <1>1, DeckInvariance, PTL

(* The auto-slide is armed exactly when the deck may go on by itself, for  *)
(* every deck: each of the handlers that changes the slide, the fragments, *)
(* the overview, the black screen or the pause ends by cueing the timer    *)
(* anew, or changes nothing that it depends on (cueAutoSlide).             *)
THEOREM DeckAutoSlideIsArmed == Spec => []AutoSlideIsArmed
<1>1. DeckInv => AutoSlideIsArmed
  <2>. SUFFICES ASSUME DeckInv, Started(deck)
                PROVE  /\ deck.autoTimer = Eligible(deck)
                       /\ deck.player # "none" => (deck.player = "playing") = deck.autoTimer
    BY DEF AutoSlideIsArmed
  <2>1. Armed(deck)
    BY DEF DeckInv, Fresh
  <2>2. Eligible(deck) \in BOOLEAN
    BY DEF Eligible
  <2>. QED
    BY <2>1, <2>2 DEF Armed
<1>. QED
  BY <1>1, DeckInvariance, PTL

(* Slides leave nothing behind: neither the states of a slide that was     *)
(* left, nor its media, nor, at the first column, a row of a stack (slide, *)
(* stopEmbeddedContent).                                                   *)
THEOREM DeckLeavesNothingBehind == Spec => []NothingLeftBehind
<1>1. DeckInv => NothingLeftBehind
  <2>. SUFFICES ASSUME DeckInv, Started(deck)
                PROVE  NothingLeftBehind
    BY DEF NothingLeftBehind
  <2>1. Basics(deck)
    BY DEF DeckInv, Fresh, Placed
  <2>2. deck.classes = ToSet(StatesOf(Current(deck))) /\ deck.playing \subseteq {Current(deck)}
    BY <2>1 DEF Basics
  <2>3. deck.h = 0 /\ deck.resets = 0 => \A h \in Columns \ {0} : deck.resume[h] = 0
    BY <2>1 DEF Basics, OthersForgotten
  <2>. QED
    BY <2>2, <2>3 DEF NothingLeftBehind
<1>. QED
  BY <1>1, DeckInvariance, PTL

(* With history on the hash names the current slide once every hashchange  *)
(* was answered, in every deck whose ids are its own and start with no     *)
(* number: readURL takes one that does for a column (writeURL, readURL).   *)
THEOREM DeckHashNamesCurrent ==
  ASSUME IdsAreNames
  PROVE  Spec => []HashNamesCurrent
<1>1. DeckInv => HashNamesCurrent
  <2>1. DeckInv /\ Started(deck) => Points(deck)
    BY IdsAreNames DEF DeckInv, Fresh, Placed, Looks
  <2>. QED
    BY <2>1 DEF HashNamesCurrent, Points
<1>. QED
  BY <1>1, DeckInvariance, PTL

(* One touch makes one gesture at most, with any number of fingers: the    *)
(* fingers a gesture was begun with, and that it was captured, say so      *)
(* until all are lifted or another is put down (onTouchStart, onTouchMove, *)
(* onTouchEnd).                                                            *)
THEOREM DeckOneActionPerTouch == Spec => []OneActionPerTouch
<1>1. TouchInv => OneActionPerTouch
  BY DEF TouchInv, OneActionPerTouch
<1>. QED
  BY <1>1, DeckInvariance, PTL

-----------------------------------------------------------------------------
(* The arrows do what they promise, outside the overview and in a deck     *)
(* that neither loops nor is reversed.                                     *)

Plain(d) == Placed(d) /\ ~d.overview /\ ~d.config.loop /\ ~d.config.rtl

\* Whether a step back, -1, or on, 1, finds a fragment to hide or to show.
FragmentLeft(d, offset) ==
  IF offset = 1 THEN AvailableFragments(d).next ELSE AvailableFragments(d).prev

(* A step acts when it finds a fragment, or the slide it asks for is       *)
(* another one of the deck; without either it does nothing.                *)
LEMMA StepActs ==
  ASSUME NEW d, Plain(d), NEW offset \in {1, -1}, NEW open, NEW h \in Int, NEW v \in Int
  PROVE  LET n == StepTo(d, NavigateFragment(d, offset), open, h, v)
         IN  /\ FragmentLeft(d, offset) => Acts(d, n)
             /\ open /\ h # d.h /\ h \in 0 .. Width - 1 => Acts(d, n)
             /\ open /\ h = d.h /\ IsStack(h) /\ v # d.v /\ v \in 0 .. Stack[h] - 1
                  => Acts(d, n)
             /\ ~FragmentLeft(d, offset) /\ ~open => ~Acts(d, n)
<1>. DEFINE moved == NavigateFragment(d, offset)
            n == StepTo(d, moved, open, h, v)
<1>1. /\ Placed(moved) /\ moved.config = d.config /\ moved.h = d.h /\ moved.v = d.v
      /\ Moved(d, moved) <=> FragmentLeft(d, offset)
  BY FragmentPlaces DEF Plain, FragmentLeft
<1>2. Current(moved) = Current(d)
  BY <1>1 DEF Current
<1>3. n = IF ~Moved(d, moved) /\ open THEN Slide(moved, h, v) ELSE moved
  BY DEF StepTo, Plain
<1>. HIDE DEF moved, n
<1>4. CASE Moved(d, moved)
  BY <1>1, <1>3, <1>4 DEF Acts, n, moved
<1>5. CASE ~Moved(d, moved) /\ ~open
  BY <1>1, <1>2, <1>3, <1>5 DEF Acts, n, moved
<1>6. CASE ~Moved(d, moved) /\ open
  <2>. DEFINE to == Slide(moved, h, v)
  <2>1. /\ to.h = Bounded(moved, h, Width)
        /\ v # Undefined /\ IsStack(to.h) => to.v = Bounded(moved, v, Stack[to.h])
    BY <1>1, SlidePlaces DEF Placed
  <2>2. n = to
    BY <1>3, <1>6
  <2>. HIDE DEF to
  <2>3. ASSUME h # d.h, h \in 0 .. Width - 1
        PROVE  Acts(d, n)
    <3>1. to.h = h
      BY <1>1, <2>1, <2>3, Grid DEF Bounded, Plain
    <3>. QED
      BY <2>2, <2>3, <3>1 DEF Acts, Current
  <2>4. ASSUME h = d.h, IsStack(h), v # d.v, v \in 0 .. Stack[h] - 1
        PROVE  Acts(d, n)
    <3>1. h \in 0 .. Width - 1
      BY <2>4, CurrentPair, Grid DEF Plain, Placed, Basics
    <3>2. to.h = h
      BY <1>1, <2>1, <3>1, Grid DEF Bounded, Plain
    <3>3. to.v = v
      BY <1>1, <2>1, <2>4, <3>1, <3>2, Grid DEF Bounded, Plain, Undefined
    <3>. QED
      BY <2>2, <2>4, <3>3 DEF Acts, Current
  <2>. QED
    BY <1>1, <1>6, <2>3, <2>4 DEF n, moved
<1>. QED
  BY <1>4, <1>5, <1>6

(* Whether a handler acts is seen from any deck that shows the same.       *)
LEMMA SameActs ==
  ASSUME NEW d, NEW e, NEW n, Current(e) = Current(d), e.shown = d.shown
  PROVE  Acts(e, n) <=> Acts(d, n)
BY DEF Acts, Moved

(* Left, right, up and down act when they are lit, and right without a     *)
(* column to the right does not act unless there is a fragment to show.    *)
LEMMA FourActs ==
  ASSUME NEW d, Plain(d)
  PROVE  /\ d.h > 0 \/ AvailableFragments(d).prev => Acts(d, NavigateLeft(d))
         /\ d.h < Width - 1 \/ AvailableFragments(d).next <=> Acts(d, NavigateRight(d))
         /\ d.v > 0 \/ AvailableFragments(d).prev => Acts(d, NavigateUp(d))
         /\ (IsStack(d.h) /\ d.v < Stack[d.h] - 1) \/ AvailableFragments(d).next
              => Acts(d, NavigateDown(d))
<1>1. /\ d.h \in 0 .. Width - 1 /\ d.h \in Int /\ d.v \in 0 .. Rows(d.h) - 1 /\ d.v \in Int
      /\ d.h \in Columns
      /\ ~IsStack(d.h) => d.v = 0
  BY CurrentPair, Grid DEF Plain, Placed, Basics
<1>2. /\ AvailableRoutes(d).left = (d.h > 0) /\ AvailableRoutes(d).right = (d.h < Width - 1)
      /\ AvailableRoutes(d).up = (d.v > 0)
      /\ AvailableRoutes(d).down = (IsStack(d.h) /\ d.v < Stack[d.h] - 1)
  BY DEF AvailableRoutes, Plain
<1>3. Undefined \in Int /\ Width \in Nat
  BY Grid DEF Undefined
<1>4. d.h > 0 \/ AvailableFragments(d).prev => Acts(d, NavigateLeft(d))
  <2>1. NavigateLeft(d) = StepTo(d, NavigateFragment(d, -1), AvailableRoutes(d).left,
                                 d.h - 1, Undefined)
    BY DEF NavigateLeft, PreviousFragment, Plain
  <2>2. d.h > 0 => d.h - 1 \in 0 .. Width - 1
    BY <1>1, <1>3
  <2>3. d.h - 1 \in Int /\ Undefined \in Int
    BY <1>1, <1>3
  <2>4. /\ FragmentLeft(d, -1) => Acts(d, NavigateLeft(d))
        /\ AvailableRoutes(d).left /\ d.h - 1 # d.h /\ d.h - 1 \in 0 .. Width - 1 => Acts(d, NavigateLeft(d))
    BY <1>1, <2>1, <2>3, StepActs
  <2>5. FragmentLeft(d, -1) <=> AvailableFragments(d).prev
    BY DEF FragmentLeft
  <2>6. AvailableRoutes(d).left <=> d.h > 0
    BY <1>2
  <2>7. d.h + 1 # d.h /\ d.h - 1 # d.h /\ d.v - 1 # d.v /\ d.v + 1 # d.v
    BY <1>1
  <2>. QED
    BY <2>2, <2>4, <2>5, <2>6, <2>7
<1>5. d.h < Width - 1 \/ AvailableFragments(d).next <=> Acts(d, NavigateRight(d))
  <2>1. NavigateRight(d) = StepTo(d, NavigateFragment(d, 1), AvailableRoutes(d).right,
                                  d.h + 1, Undefined)
    BY DEF NavigateRight, NextFragment, Plain
  <2>2. d.h < Width - 1 => d.h + 1 \in 0 .. Width - 1
    BY <1>1, <1>3
  <2>3. d.h + 1 \in Int /\ Undefined \in Int
    BY <1>1, <1>3
  <2>4. /\ FragmentLeft(d, 1) => Acts(d, NavigateRight(d))
        /\ AvailableRoutes(d).right /\ d.h + 1 # d.h /\ d.h + 1 \in 0 .. Width - 1 => Acts(d, NavigateRight(d))
        /\ ~FragmentLeft(d, 1) /\ ~AvailableRoutes(d).right => ~Acts(d, NavigateRight(d))
    BY <1>1, <2>1, <2>3, StepActs
  <2>5. FragmentLeft(d, 1) <=> AvailableFragments(d).next
    BY DEF FragmentLeft
  <2>6. AvailableRoutes(d).right <=> d.h < Width - 1
    BY <1>2
  <2>7. d.h + 1 # d.h /\ d.h - 1 # d.h /\ d.v - 1 # d.v /\ d.v + 1 # d.v
    BY <1>1
  <2>. QED
    BY <2>2, <2>4, <2>5, <2>6, <2>7
<1>6. d.v > 0 \/ AvailableFragments(d).prev => Acts(d, NavigateUp(d))
  <2>1. NavigateUp(d) = StepTo(d, NavigateFragment(d, -1), AvailableRoutes(d).up,
                               d.h, d.v - 1)
    BY DEF NavigateUp, PreviousFragment
  <2>2. d.v > 0 => IsStack(d.h) /\ d.v - 1 \in 0 .. Stack[d.h] - 1
    BY <1>1, Grid
  <2>3. d.v - 1 \in Int
    BY <1>1, <1>3
  <2>4. /\ FragmentLeft(d, -1) => Acts(d, NavigateUp(d))
        /\ AvailableRoutes(d).up /\ IsStack(d.h) /\ d.v - 1 # d.v /\ d.v - 1 \in 0 .. Stack[d.h] - 1
             => Acts(d, NavigateUp(d))
    BY <1>1, <2>1, <2>3, StepActs
  <2>5. FragmentLeft(d, -1) <=> AvailableFragments(d).prev
    BY DEF FragmentLeft
  <2>6. AvailableRoutes(d).up <=> d.v > 0
    BY <1>2
  <2>7. d.h + 1 # d.h /\ d.h - 1 # d.h /\ d.v - 1 # d.v /\ d.v + 1 # d.v
    BY <1>1
  <2>. QED
    BY <2>2, <2>4, <2>5, <2>6, <2>7
<1>7. (IsStack(d.h) /\ d.v < Stack[d.h] - 1) \/ AvailableFragments(d).next
        => Acts(d, NavigateDown(d))
  <2>1. NavigateDown(d) = StepTo(d, NavigateFragment(d, 1), AvailableRoutes(d).down,
                                 d.h, d.v + 1)
    BY DEF NavigateDown, NextFragment
  <2>2. IsStack(d.h) /\ d.v < Stack[d.h] - 1 => d.v + 1 \in 0 .. Stack[d.h] - 1
    BY <1>1, Grid
  <2>3. d.v + 1 \in Int
    BY <1>1, <1>3
  <2>4. /\ FragmentLeft(d, 1) => Acts(d, NavigateDown(d))
        /\ AvailableRoutes(d).down /\ IsStack(d.h) /\ d.v + 1 # d.v /\ d.v + 1 \in 0 .. Stack[d.h] - 1
             => Acts(d, NavigateDown(d))
    BY <1>1, <2>1, <2>3, StepActs
  <2>5. FragmentLeft(d, 1) <=> AvailableFragments(d).next
    BY DEF FragmentLeft
  <2>6. AvailableRoutes(d).down <=> (IsStack(d.h) /\ d.v < Stack[d.h] - 1)
    BY <1>2
  <2>7. d.h + 1 # d.h /\ d.h - 1 # d.h /\ d.v - 1 # d.v /\ d.v + 1 # d.v
    BY <1>1
  <2>. QED
    BY <2>2, <2>4, <2>5, <2>6, <2>7
<1>. QED
  BY <1>4, <1>5, <1>6, <1>7

(* prev and next act exactly when they are lit.                            *)
LEMMA PrevNextAct ==
  ASSUME NEW d, Plain(d)
  PROVE  /\ Acts(d, NavigatePrev(d)) <=> d.h > 0 \/ d.v > 0 \/ AvailableFragments(d).prev
         /\ Acts(d, NavigateNext(d)) <=>
              \/ d.h < Width - 1
              \/ IsStack(d.h) /\ d.v < Stack[d.h] - 1
              \/ AvailableFragments(d).next
<1>1. /\ d.h \in 0 .. Width - 1 /\ d.h \in Int /\ d.v \in Nat
  BY CurrentPair, Grid DEF Plain, Placed, Basics
<1>2. ASSUME NEW offset \in {1, -1}
      PROVE  LET m == NavigateFragment(d, offset)
             IN  /\ Moved(d, m) <=> FragmentLeft(d, offset)
                 /\ Current(m) = Current(d) /\ m.h = d.h /\ m.v = d.v
                 /\ m.config = d.config /\ Plain(m)
                 /\ ~Moved(d, m) => m.shown = d.shown
                                    /\ AvailableFragments(m) = AvailableFragments(d)
  <2>. DEFINE m == NavigateFragment(d, offset)
  <2>1. /\ Placed(m) /\ m.config = d.config /\ m.h = d.h /\ m.v = d.v
        /\ m.overview = d.overview
        /\ Moved(d, m) <=> FragmentLeft(d, offset)
    BY FragmentPlaces DEF Plain, FragmentLeft
  <2>. HIDE DEF m
  <2>2. Plain(m) /\ Current(m) = Current(d)
    BY <2>1 DEF Plain, Current
  <2>3. ~Moved(d, m) => m.shown = d.shown /\ AvailableFragments(m) = AvailableFragments(d)
    BY <2>1 DEF Moved, AvailableFragments, Current, Started
  <2>. QED
    BY <2>1, <2>2, <2>3 DEF m
<1>3. Acts(d, NavigatePrev(d)) <=> d.h > 0 \/ d.v > 0 \/ AvailableFragments(d).prev
  <2>. DEFINE back == PreviousFragment(d)
              lastRow == IF Stack[d.h - 1] = 1 THEN Undefined ELSE Stack[d.h - 1] - 1
  <2>1. /\ Moved(d, back) <=> AvailableFragments(d).prev
        /\ Current(back) = Current(d) /\ back.h = d.h /\ back.v = d.v
        /\ back.config = d.config /\ Plain(back)
        /\ ~Moved(d, back) => back.shown = d.shown
    BY <1>2 DEF PreviousFragment, FragmentLeft
  <2>2. NavigatePrev(d) = IF Moved(d, back) THEN back
                          ELSE IF d.v > 0 THEN NavigateUp(back)
                          ELSE IF d.h > 0 THEN Slide(back, d.h - 1, lastRow)
                          ELSE back
    BY <2>1 DEF NavigatePrev, AvailableRoutes, Plain
  <2>. HIDE DEF back, lastRow
  <2>3. CASE Moved(d, back)
    BY <2>1, <2>2, <2>3 DEF Acts
  <2>4. CASE ~Moved(d, back) /\ d.v > 0
    <3>1. Acts(back, NavigateUp(back))
      BY <2>1, <2>4, FourActs
    <3>. QED
      BY <2>1, <2>2, <2>4, <3>1, SameActs
  <2>5. CASE ~Moved(d, back) /\ ~(d.v > 0) /\ d.h > 0
    <3>1. d.h - 1 \in 0 .. Width - 1 /\ lastRow \in Int
      BY <1>1, <2>5, Grid DEF lastRow, Undefined
    <3>2. Slide(back, d.h - 1, lastRow).h = Bounded(back, d.h - 1, Width)
      BY <2>1, <3>1, SlidePlaces DEF Plain, Placed
    <3>3. Slide(back, d.h - 1, lastRow).h = d.h - 1
      BY <2>1, <3>1, <3>2, Grid DEF Bounded, Plain
    <3>. QED
      BY <1>1, <2>2, <2>5, <3>3 DEF Acts, Current
  <2>6. CASE ~Moved(d, back) /\ ~(d.v > 0) /\ ~(d.h > 0)
    BY <2>1, <2>2, <2>6 DEF Acts
  <2>. QED
    BY <2>3, <2>4, <2>5, <2>6
<1>4. Acts(d, NavigateNext(d)) <=> \/ d.h < Width - 1
                                   \/ IsStack(d.h) /\ d.v < Stack[d.h] - 1
                                   \/ AvailableFragments(d).next
  <2>. DEFINE on == NextFragment(d)
              n == IF Moved(d, on) THEN on
                   ELSE IF IsStack(d.h) /\ d.v < Stack[d.h] - 1 THEN NavigateDown(on)
                   ELSE NavigateRight(on)
  <2>1. /\ Moved(d, on) <=> AvailableFragments(d).next
        /\ Current(on) = Current(d) /\ on.h = d.h /\ on.v = d.v
        /\ on.config = d.config /\ Plain(on)
        /\ ~Moved(d, on) => on.shown = d.shown
                            /\ AvailableFragments(on) = AvailableFragments(d)
    BY <1>2 DEF NextFragment, FragmentLeft
  <2>2. NavigateNext(d) = CueAutoSlide(n)
    BY <2>1 DEF NavigateNext, AvailableRoutes
  <2>3. Placed(n)
    BY <2>1, ArrowsPlace DEF Plain
  <2>. HIDE DEF on
  <2>4. Acts(d, n) <=> \/ d.h < Width - 1
                       \/ IsStack(d.h) /\ d.v < Stack[d.h] - 1
                       \/ AvailableFragments(d).next
    <3>1. CASE Moved(d, on)
      BY <2>1, <3>1 DEF Acts
    <3>2. CASE ~Moved(d, on) /\ IsStack(d.h) /\ d.v < Stack[d.h] - 1
      <4>1. Acts(on, NavigateDown(on))
        BY <2>1, <3>2, FourActs
      <4>. QED
        BY <2>1, <3>2, <4>1, SameActs
    <3>3. CASE ~Moved(d, on) /\ ~(IsStack(d.h) /\ d.v < Stack[d.h] - 1)
      <4>1. Acts(on, NavigateRight(on)) <=> d.h < Width - 1 \/ AvailableFragments(d).next
        BY <2>1, <3>3, FourActs
      <4>2. Acts(on, NavigateRight(on)) <=> Acts(d, NavigateRight(on))
        BY <2>1, <3>3, SameActs
      <4>. QED
        BY <3>3, <4>1, <4>2
    <3>. QED
      BY <3>1, <3>2, <3>3
  <2>. HIDE DEF n
  <2>5. CueAutoSlide(n).h = n.h /\ CueAutoSlide(n).v = n.v /\ CueAutoSlide(n).shown = n.shown
    BY <2>3, CueDiffers DEF Placed, Basics, Differs, DeckFields
  <2>6. Acts(d, CueAutoSlide(n)) <=> Acts(d, n)
    BY <2>5 DEF Acts, Moved, Current
  <2>. QED
    BY <2>2, <2>4, <2>6
<1>. QED
  BY <1>3, <1>4

(* An arrow that is lit acts, and prev and next are lit when they act.     *)
LEMMA LitActs ==
  ASSUME NEW d, Plain(d)
  PROVE  /\ \A arrow \in LitArrows(d) : arrow \in Arrows /\ Acts(d, Navigate(d, arrow))
         /\ \A arrow \in {"prev", "next"} :
              Acts(d, Navigate(d, arrow)) => arrow \in LitArrows(d)
<1>1. /\ AvailableRoutes(d).left = (d.h > 0) /\ AvailableRoutes(d).right = (d.h < Width - 1)
      /\ AvailableRoutes(d).up = (d.v > 0)
      /\ AvailableRoutes(d).down = (IsStack(d.h) /\ d.v < Stack[d.h] - 1)
  BY DEF AvailableRoutes, Plain
<1>. DEFINE fragment == AvailableFragments(d)
<1>2. /\ LitArrows(d) \subseteq Arrows
      /\ "left" \in LitArrows(d) => d.h > 0 \/ fragment.prev
      /\ "right" \in LitArrows(d) => d.h < Width - 1 \/ fragment.next
      /\ "up" \in LitArrows(d) => d.v > 0 \/ fragment.prev
      /\ "down" \in LitArrows(d) => (IsStack(d.h) /\ d.v < Stack[d.h] - 1) \/ fragment.next
      /\ "prev" \in LitArrows(d) <=> d.h > 0 \/ d.v > 0 \/ fragment.prev
      /\ "next" \in LitArrows(d) <=> \/ d.h < Width - 1
                                     \/ IsStack(d.h) /\ d.v < Stack[d.h] - 1
                                     \/ fragment.next
  BY <1>1 DEF LitArrows, Lit, Arrows
<1>3. /\ Navigate(d, "left") = NavigateLeft(d) /\ Navigate(d, "right") = NavigateRight(d)
      /\ Navigate(d, "up") = NavigateUp(d) /\ Navigate(d, "down") = NavigateDown(d)
      /\ Navigate(d, "prev") = NavigatePrev(d) /\ Navigate(d, "next") = NavigateNext(d)
  BY DEF Navigate
<1>4. ASSUME NEW arrow \in LitArrows(d)
      PROVE  arrow \in Arrows /\ Acts(d, Navigate(d, arrow))
  <2>1. arrow \in Arrows
    BY <1>2
  <2>. QED
    BY <1>2, <1>3, <2>1, FourActs, PrevNextAct DEF Arrows
<1>5. ASSUME NEW arrow \in {"prev", "next"}, Acts(d, Navigate(d, arrow))
      PROVE  arrow \in LitArrows(d)
  BY <1>2, <1>3, <1>5, PrevNextAct
<1>. QED
  BY <1>4, <1>5

(* What the page shows is where the deck is: the progress bar, the slides  *)
(* and backgrounds that are displayed and the arrows follow the current    *)
(* slide and its fragments, for every deck (updateProgress,                *)
(* updateSlidesVisibility, updateBackground, updateControls).              *)
THEOREM DeckViewIsCurrent == Spec => []ViewIsCurrent
<1>1. DeckInv => ViewIsCurrent
  <2>. SUFFICES ASSUME DeckInv, Started(deck)
                PROVE  ViewIsCurrent
    BY DEF ViewIsCurrent
  <2>1. Placed(deck)
    BY DEF DeckInv, Fresh
  <2>2. ~deck.overview /\ ~deck.config.loop /\ ~deck.config.rtl =>
          LitAsEffective(deck.controls, Effective)
    <3>. SUFFICES ASSUME Plain(deck)
                  PROVE  LitAsEffective(deck.controls, Effective)
      BY <2>1 DEF Plain
    <3>1. deck.controls = LitArrows(deck)
      BY <2>1 DEF Placed, Looks
    <3>. QED
      BY <3>1, LitActs DEF LitAsEffective, Effective
  <2>. QED
    BY <2>1, <2>2 DEF ViewIsCurrent, Placed, Looks, BackdropOK
<1>. QED
  BY <1>1, DeckInvariance, PTL
=============================================================================
