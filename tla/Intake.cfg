\* Clocks and counters are finite: once they are used up nothing is left to ask.
CHECK_DEADLOCK FALSE
SPECIFICATION Spec
CONSTANTS
  Nil = Nil
  Gone = Gone
  Unborn = Unborn
  NoBook = NoBook
  NoCover = NoCover
  Remote = Remote
  NoIsbn = NoIsbn
  NoGroup = NoGroup
  this = this
  that = that
  former = former
  latter = latter
  Parts = {"readwise", "reading", "imports"}
SYMMETRY AlikeApart
INVARIANTS
  TypeOK
  PulledAndKept
PROPERTIES
  WritesKnowWhatIsThere
