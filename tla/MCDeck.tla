------------------------------- MODULE MCDeck -------------------------------
(* Instances of Deck for TLC: a plain slide with two fragments, a stack of *)
(* two, a plain slide.                                                     *)
EXTENDS Deck

ThreeColumns == [h \in 0 .. 2 |-> IF h = 1 THEN 2 ELSE 0]
SomeFragments == [s \in Slides |-> CASE s = <<0, 0>> -> <<None, 3>>
                                     [] s = <<1, 1>> -> <<None>>
                                     [] OTHER -> <<>>]
SomeStates == [x \in Sections |-> CASE x = <<1>> -> <<"dim">>
                                    [] x = <<1, 1>> -> <<"wide">>
                                    [] x = <<2>> -> <<"dim">>
                                    [] OTHER -> <<>>]
\* The last slide of the stack has a time of its own.
SomeAutoSlide == [x \in Sections |-> IF x = <<1, 1>> THEN 9 ELSE None]
NoStartRow == [h \in 0 .. 2 |-> None]
SomeLinks == [s \in Slides |-> IF s = <<1, 1>> THEN {"plain"} ELSE {}]
MediaSlides == {<<1, 0>>, <<2, 0>>}
SomeIds == [x \in Sections |-> CASE x = <<1>> -> "chapter" [] x = <<1, 1>> -> "details"
                                 [] OTHER -> "none"]
NoLeading == [n \in {"chapter", "details", "elsewhere"} |-> None]
Defaults ==
  [loop |-> FALSE, rtl |-> FALSE, history |-> FALSE, autoSlide |-> 0,
   stoppable |-> TRUE, fragments |-> TRUE, overview |-> TRUE, keyboard |-> TRUE,
   controls |-> FALSE, progress |-> FALSE, mouseWheel |-> FALSE, touch |-> FALSE,
   viewDistance |-> 3, previewLinks |-> FALSE,
   dependencies |-> <<>>]
TwoScripts == [s \in {"marked", "notes"} |-> IF s = "marked" THEN "sync" ELSE "async"]

Linked == [Defaults EXCEPT !.history = TRUE, !.viewDistance = 1,
                           !.previewLinks = TRUE,
                           !.dependencies = TwoScripts]
Timed == [Defaults EXCEPT !.autoSlide = 5, !.mouseWheel = TRUE, !.controls = TRUE]
Looped == [Defaults EXCEPT !.loop = TRUE, !.autoSlide = 5, !.stoppable = FALSE,
                           !.progress = TRUE]
Reversed == [Defaults EXCEPT !.rtl = TRUE, !.controls = TRUE, !.autoSlide = 5]
Touched == [Defaults EXCEPT !.touch = TRUE, !.keyboard = FALSE, !.autoSlide = 5,
                             !.fragments = FALSE]

AllConfigs == {Linked, Timed, Looped, Reversed, Touched}

\* Two of the readers know all kinds of links, the one who touches the deck
\* does not see the URL.
SomeHashes == [config \in AllConfigs |->
  {<<"index", 0, 0>>}
  \cup (IF config = Touched THEN {} ELSE {<<"index", 9, 9>>})
  \cup (IF config \in {Linked, Timed} THEN {<<"name", n>> : n \in DOMAIN NoLeading} ELSE {})]
=============================================================================
