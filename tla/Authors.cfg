\* Merges and questions are finite: once they are used up nothing is left to ask.
CHECK_DEADLOCK FALSE
SPECIFICATION Spec
CONSTANTS
  Nil = Nil
  this = this
  that = that
  Parts = {"authorship", "suggestions", "authority", "links", "records", "enrichment"}
SYMMETRY Alike
INVARIANTS
  TypeOK
  PeopleAreOne
PROPERTIES
  DecisionsStay
