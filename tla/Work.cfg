\* A feed, a search and a harvest are over at some time.
CHECK_DEADLOCK FALSE
SPECIFICATION Spec
CONSTANTS
  Nil = Nil
  Null = Null
  Closing = Closing
  Parts = {"backfill", "ceilings", "feed", "z3950", "server", "senders"}
INVARIANTS
  TypeOK
  WorkIsSound
PROPERTIES
  StepsAreSound
  WorkEnds
