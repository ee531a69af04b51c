\* The ids are finite: once every Book is gone nothing is left to ask for.
CHECK_DEADLOCK FALSE
SPECIFICATION Spec
CONSTANTS
  ada = ada
  bo = bo
  b1 = b1
  b2 = b2
  b3 = b3
  p1 = p1
  p2 = p2
  NoBook = NoBook
  NoUser = NoUser
  Users = {ada, bo}
  Admins = {ada}
  Books = {b1, b2}
  AddedBy <- TwoBooks
  Digital = {}
  Procs = {p1, p2}
  MaxLoan = 2
  MaxNow = 2
SYMMETRY Interchangeable
INVARIANTS
  TypeOK
  OneOpenLoanPerBook
  LoansHaveBooks
PROPERTIES
  ClosedStaysClosed
  KeepsCustody
