\* Once every Book is gone nothing is left to ask for.
CHECK_DEADLOCK FALSE
SPECIFICATION Spec
CONSTANTS
  alone = alone
  pair = pair
  wise = wise
  b1 = b1
  b2 = b2
  p1 = p1
  p2 = p2
  NoBook = NoBook
  NoKey = NoKey
  NoText = NoText
  Books = {b1, b2}
  Keys = {alone, pair, wise}
  Former <- OneRekeyed
  Sent <- OneMarkEach
  Short = {"short"}
  Long = {"long"}
  Procs = {p1, p2}
  Apart <- OneImportNoShareInMerge
  Attempts = 2
  MaxRow = 2
  MaxDeleted = 1
SYMMETRY Interchangeable
INVARIANTS
  TypeOK
  HighlightsHaveBooks
PROPERTIES
  DeletedStaysDeleted
  SharedWhereChosen
