\* A deck of three columns in five configurations.  A deck that nobody
\* touches rests in its last slide: deadlock is not an error.
CONSTANTS
  Stack <- ThreeColumns
  Fragments <- SomeFragments
  DataState <- SomeStates
  DataAutoSlide <- SomeAutoSlide
  StartRow <- NoStartRow
  Links <- SomeLinks
  Autoplay <- MediaSlides
  Id <- SomeIds
  Leading <- NoLeading
  Configs <- AllConfigs
  MaxValue = 1000001
  NoName = "none"
  Hashes <- SomeHashes
  MaxResets = 1
  MaxEvents = 2
  MaxFingers = 3
SPECIFICATION Spec
INVARIANTS DeckTypeOK ViewIsCurrent AutoSlideIsArmed NothingLeftBehind HashNamesCurrent OneActionPerTouch
PROPERTIES AutoSlideEnds
CHECK_DEADLOCK FALSE
