\* Clocks and counters are finite: a last request may find no tick left.
CHECK_DEADLOCK FALSE
SPECIFICATION Spec
CONSTANTS
  Quiet = TRUE
  Missing = Missing
  Nil = Nil
  this = this
  that = that
  Parts = {"accounts", "membership", "limits", "signIn", "archive", "walks"}
SYMMETRY Alike
INVARIANTS
  TypeOK
  EntryIsEarned
  LimitsHold
  WhatLeavesIsWhole
PROPERTIES
  StepsKeepToTheirOwn
