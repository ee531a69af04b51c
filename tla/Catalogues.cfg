\* Clocks, writes and questions are finite: once they are used up nothing is left to ask.
CHECK_DEADLOCK FALSE
SPECIFICATION Spec
CONSTANTS
  Nil = Nil
  this = this
  that = that
  Parts = {"lookups", "settings", "credentials", "matches", "answers", "targets"}
SYMMETRY Alike
INVARIANTS
  TypeOK
  AnswersAreTrue
  AskedAsConfigured
PROPERTIES
  NothingIsOverheard
