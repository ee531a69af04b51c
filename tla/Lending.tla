------------------------------ MODULE Lending ------------------------------
(***************************************************************************)
(* Lending, the trash, and merging: every handler of the Endpaper backend  *)
(* that opens a loan, closes one, or moves or deletes the Book it is on.   *)
(*                                                                         *)
(* FastAPI runs each of these handlers in a thread of its own, with a      *)
(* database session of its own.  Sessions do not autoflush and, on SQLite, *)
(* a SELECT opens no transaction, so a handler reads in one or more steps  *)
(* and then writes everything it changed in one transaction.  Any other    *)
(* handler may run between two steps.  One request is one value of `req`:  *)
(* the step it has reached and the rows it holds in memory.                *)
(*                                                                         *)
(* A commit is refused as a whole when an UPDATE finds its row gone (the   *)
(* ORM's StaleDataError), when a foreign key dangles, or when one of its   *)
(* statements breaks the partial unique index on open loans.               *)
(*                                                                         *)
(* Left out: what a loan says (borrower, lender, due date), which of the   *)
(* refusals a member is shown, and the NEVER willingness, which a request  *)
(* passes by acknowledging it.                                             *)
(***************************************************************************)
EXTENDS Naturals, FiniteSets

CONSTANTS
  Books,      \* ids of the Books the catalogue starts with
  Users,      \* accounts
  Admins,     \* the accounts that are admins
  AddedBy,    \* who added each Book; NoUser where nobody is recorded
  Digital,    \* the Books whose copy is a file, which is requested, not lent
  Procs,      \* the requests that may be in flight at once
  MaxLoan,    \* bound on loan ids
  MaxNow,     \* bound on the clock
  NoBook,     \* the book of a loan row that does not exist
  NoUser

ASSUME LendingAssumption ==
  /\ Admins \subseteq Users
  /\ AddedBy \in [Books -> Users \cup {NoUser}]
  /\ Digital \subseteq Books
  /\ MaxLoan \in Nat
  /\ MaxNow \in Nat \ {0}
  /\ NoBook \notin Books
  /\ NoUser \notin Users

VARIABLES
  shelf,      \* [Books -> "live" | "trashed" | "gone"]
  private,    \* [Books -> BOOLEAN]
  loanBook,   \* [LoanIds -> the Book the row is on, NoBook if there is no row]
  returned,   \* [LoanIds -> when the Book came back, 0 while it is out]
  now,        \* the clock handlers stamp with
  req         \* [Procs -> the request being served]

vars == <<shelf, private, loanBook, returned, now, req>>

LoanIds == 1 .. MaxLoan

----------------------------------------------------------------------------
(* Rows *)

Exists(l) == loanBook[l] # NoBook
IsOpen(l) == Exists(l) /\ returned[l] = 0
LoansOn(B) == {l \in LoanIds : loanBook[l] \in B}
OpenOn(B) == {l \in LoansOn(B) : IsOpen(l)}

VisibleTo(u, b) == shelf[b] = "live" /\ (~ private[b] \/ AddedBy[b] = u)
InTrashFor(u, b) == shelf[b] = "trashed" /\ (~ private[b] \/ AddedBy[b] = u)
OwnsOrAdministers(u, b) == u \in Admins \/ AddedBy[b] = u
PurgeableBy(u, b) ==
  IF AddedBy[b] = NoUser THEN u \in Admins ELSE AddedBy[b] = u

(* What the partial unique index on open loans allows. *)
OneOpenEach(onBook, back) ==
  \A i, j \in LoanIds :
    /\ onBook[i] # NoBook /\ back[i] = 0
    /\ onBook[j] = onBook[i] /\ back[j] = 0
    => i = j

(* SQLite gives an insert one more than the largest id there is, so the id *)
(* of a deleted row is used again once it was the largest.                 *)
IsNewId(l) == \A m \in LoanIds : Exists(m) => m < l
NewestFirstFree(l) ==
  /\ IsNewId(l)
  /\ \A m \in LoanIds : IsNewId(m) => l <= m

----------------------------------------------------------------------------
(* Requests *)

Steps == {"idle", "lend", "lendFree", "return", "delete", "deleteLoans",
          "restore", "purge", "purgeLoans", "setPrivacy", "merge", "fold"}

(* `books` and `loans` are rows read, `keep` the Book a merge keeps,       *)
(* `close` the loans a merge will close, `at` the clock it read, `flag`    *)
(* the privacy asked for.                                                  *)
Request == [step : Steps, books : SUBSET Books, keep : Books \cup {NoBook},
            loans : SUBSET LoanIds, close : SUBSET LoanIds,
            at : 0 .. MaxNow, flag : BOOLEAN]

Idle == [step |-> "idle", books |-> {}, keep |-> NoBook, loans |-> {},
         close |-> {}, at |-> 0, flag |-> FALSE]

Serving(p, step) == req[p].step = step
Start(p, r) == Serving(p, "idle") /\ req' = [req EXCEPT ![p] = r]
Advance(p, r) == req' = [req EXCEPT ![p] = r]
Finish(p) == req' = [req EXCEPT ![p] = Idle]
rows == <<shelf, private, loanBook, returned, now>>

(* As StillThere for an UPDATE whose row count nobody compares. *)
StillThere_Unchecked(B, L) == TRUE

(* An UPDATE that finds its row gone refuses the whole commit. *)
StillThere(B, L) == (\A b \in B : shelf[b] # "gone") /\ (\A l \in L : Exists(l))

----------------------------------------------------------------------------
(* create_loan *)

LookUpToLend(p, u, b) ==
  /\ VisibleTo(u, b)
  /\ b \notin Digital
  /\ Start(p, [Idle EXCEPT !.step = "lend", !.books = {b}])
  /\ UNCHANGED rows

FindNoOpenLoan(p) ==
  /\ Serving(p, "lend")
  /\ OpenOn(req[p].books) = {}
  /\ Advance(p, [req[p] EXCEPT !.step = "lendFree"])
  /\ UNCHANGED rows

(* As InsertLoan without the partial unique index. *)
InsertLoan_NoIndex(p) ==
  /\ Serving(p, "lendFree")
  /\ \E b \in req[p].books, l \in LoanIds :
       /\ shelf[b] # "gone"
       /\ NewestFirstFree(l)
       /\ loanBook' = [loanBook EXCEPT ![l] = b]
       /\ returned' = [returned EXCEPT ![l] = 0]
  /\ Finish(p)
  /\ UNCHANGED <<shelf, private, now>>

(* The insert names a row that must exist and meets the index. *)
InsertLoan(p) ==
  /\ Serving(p, "lendFree")
  /\ \E b \in req[p].books, l \in LoanIds :
       /\ shelf[b] # "gone"
       /\ OpenOn({b}) = {}
       /\ NewestFirstFree(l)
       /\ loanBook' = [loanBook EXCEPT ![l] = b]
       /\ returned' = [returned EXCEPT ![l] = 0]
  /\ Finish(p)
  /\ UNCHANGED <<shelf, private, now>>

(* return_loan, whose refusal of a loan already back is judged on the row  *)
(* it read.                                                                *)

(* As LookUpToReturn without the refusal of lending.close. *)
LookUpToReturn_AnyLoan(p, u, l) ==
  /\ Exists(l)
  /\ VisibleTo(u, loanBook[l])
  /\ Start(p, [Idle EXCEPT !.step = "return", !.loans = {l}, !.at = now])
  /\ UNCHANGED rows

LookUpToReturn(p, u, l) ==
  /\ Exists(l)
  /\ VisibleTo(u, loanBook[l])
  /\ IsOpen(l)
  /\ Start(p, [Idle EXCEPT !.step = "return", !.loans = {l}, !.at = now])
  /\ UNCHANGED rows

CommitReturn(p) ==
  /\ Serving(p, "return")
  /\ StillThere({}, req[p].loans)
  /\ returned' = [l \in LoanIds |->
                    IF l \in req[p].loans THEN req[p].at ELSE returned[l]]
  /\ Finish(p)
  /\ UNCHANGED <<shelf, private, loanBook, now>>

(* delete_book with one Book, bulk_action with several: the Books asked    *)
(* for that the member cannot see are skipped.                             *)

LookUpToDelete(p, u, asked) ==
  LET seen == {b \in asked : VisibleTo(u, b)} IN
  /\ seen # {}
  /\ Start(p, [Idle EXCEPT !.step = "delete", !.books = seen])
  /\ UNCHANGED rows

(* As ReadLoansToClose before _trash closed the loan. *)
ReadLoansToClose_None(p) ==
  /\ Serving(p, "delete")
  /\ Advance(p, [req[p] EXCEPT !.step = "deleteLoans", !.at = now])
  /\ UNCHANGED rows

ReadLoansToClose(p) ==
  /\ Serving(p, "delete")
  /\ Advance(p, [req[p] EXCEPT !.step = "deleteLoans",
                               !.loans = OpenOn(req[p].books), !.at = now])
  /\ UNCHANGED rows

CommitDelete(p) ==
  /\ Serving(p, "deleteLoans")
  /\ StillThere(req[p].books, req[p].loans)
  /\ shelf' = [b \in Books |->
                 IF b \in req[p].books THEN "trashed" ELSE shelf[b]]
  /\ returned' = [l \in LoanIds |->
                    IF l \in req[p].loans THEN req[p].at ELSE returned[l]]
  /\ Finish(p)
  /\ UNCHANGED <<private, loanBook, now>>

(* restore_book *)

LookUpToRestore(p, u, b) ==
  /\ InTrashFor(u, b)
  /\ Start(p, [Idle EXCEPT !.step = "restore", !.books = {b}])
  /\ UNCHANGED rows

CommitRestore(p) ==
  /\ Serving(p, "restore")
  /\ StillThere(req[p].books, {})
  /\ shelf' = [b \in Books |->
                 IF b \in req[p].books THEN "live" ELSE shelf[b]]
  /\ Finish(p)
  /\ UNCHANGED <<private, loanBook, returned, now>>

(* purge_book with one Book, empty_trash with all the caller may purge.    *)

LookUpToPurge(p, u, asked) ==
  LET mine == {b \in asked : InTrashFor(u, b) /\ PurgeableBy(u, b)} IN
  /\ Cardinality(asked) = 1 \/ asked = Books
  /\ mine # {}
  /\ Start(p, [Idle EXCEPT !.step = "purge", !.books = mine])
  /\ UNCHANGED rows

(* The delete cascade loads the loans it will take with the Book. *)
ReadLoansToPurge(p) ==
  /\ Serving(p, "purge")
  /\ Advance(p, [req[p] EXCEPT !.step = "purgeLoans",
                               !.loans = LoansOn(req[p].books)])
  /\ UNCHANGED rows

(* As CommitPurge with SQLite's default, foreign_keys off. *)
CommitPurge_NoForeignKeys(p) ==
  /\ Serving(p, "purgeLoans")
  /\ shelf' = [b \in Books |-> IF b \in req[p].books THEN "gone" ELSE shelf[b]]
  /\ loanBook' = [l \in LoanIds |->
                    IF l \in req[p].loans THEN NoBook ELSE loanBook[l]]
  /\ returned' = [l \in LoanIds |->
                    IF l \in req[p].loans THEN 0 ELSE returned[l]]
  /\ Finish(p)
  /\ UNCHANGED <<private, now>>

(* A loan the cascade did not load leaves a dangling key and refuses the   *)
(* commit; a row already gone does not.                                    *)
CommitPurge(p) ==
  /\ Serving(p, "purgeLoans")
  /\ LoansOn(req[p].books) \subseteq req[p].loans
  /\ shelf' = [b \in Books |-> IF b \in req[p].books THEN "gone" ELSE shelf[b]]
  /\ loanBook' = [l \in LoanIds |->
                    IF l \in req[p].loans THEN NoBook ELSE loanBook[l]]
  /\ returned' = [l \in LoanIds |->
                    IF l \in req[p].loans THEN 0 ELSE returned[l]]
  /\ Finish(p)
  /\ UNCHANGED <<private, now>>

(* set_privacy *)

LookUpToSetPrivacy(p, u, b) ==
  /\ VisibleTo(u, b)
  /\ OwnsOrAdministers(u, b)
  /\ Start(p, [Idle EXCEPT !.step = "setPrivacy", !.books = {b},
                           !.flag = ~ private[b]])
  /\ UNCHANGED rows

CommitSetPrivacy(p) ==
  /\ Serving(p, "setPrivacy")
  /\ StillThere(req[p].books, {})
  /\ private' = [b \in Books |->
                   IF b \in req[p].books THEN req[p].flag ELSE private[b]]
  /\ Finish(p)
  /\ UNCHANGED <<shelf, loanBook, returned, now>>

(* merge_books.  `books` are the losers. *)

LookUpToMerge(p, u, asked, keep) ==
  LET found == {b \in asked : VisibleTo(u, b)}
      losers == found \ {keep} IN
  /\ keep \in found
  /\ losers # {}
  /\ \A b \in losers : OwnsOrAdministers(u, b)
  /\ Start(p, [Idle EXCEPT !.step = "merge", !.books = losers, !.keep = keep])
  /\ UNCHANGED rows

(* _carry_loans: every loan of a loser moves, and of the loans then open   *)
(* all but the earliest are closed.                                        *)
(* As Later, keeping the newest loan open. *)
Later_Newest(L) == {l \in L : \E m \in L : l < m}

Later(L) == {l \in L : \E m \in L : m < l}

(* As ReadLoansToFold, closing by Book id instead of by loan. *)
ReadLoansToFold_ByBook(p) ==
  /\ Serving(p, "merge")
  /\ Advance(p, [req[p] EXCEPT !.step = "fold", !.close = req[p].books,
                               !.loans = LoansOn(req[p].books), !.at = now])
  /\ UNCHANGED rows

ReadLoansToFold(p) ==
  LET moved == LoansOn(req[p].books)
      open == OpenOn(req[p].books \cup {req[p].keep}) IN
  /\ Serving(p, "merge")
  /\ StillThere({req[p].keep}, {})
  /\ Advance(p, [req[p] EXCEPT !.step = "fold", !.loans = moved,
                               !.close = Later(open), !.at = now])
  /\ UNCHANGED rows

(* The loans after the UPDATEs of a fold up to loan `upto`: the flush      *)
(* sends them one by one, in the order of their ids.                       *)
FoldedBook(r, upto) ==
  [l \in LoanIds |-> IF l \in r.loans /\ l <= upto THEN r.keep ELSE loanBook[l]]
FoldedReturned(r, upto) ==
  [l \in LoanIds |-> IF l \in r.close /\ l <= upto THEN r.at ELSE returned[l]]

(* As FlushKeepsIndex without the index. *)
FlushKeepsIndex_NoIndex(r) == TRUE

FlushKeepsIndex(r) ==
  \A upto \in LoanIds : OneOpenEach(FoldedBook(r, upto), FoldedReturned(r, upto))

(* After the flush each loser is deleted, and the cascade reads its loans  *)
(* again: one inserted since the fold read them goes with the loser.  A    *)
(* keeper gone meanwhile refuses the commit as soon as a loan names it.    *)
CommitMerge(p) ==
  LET r == req[p]
      cascade == LoansOn(r.books) \ r.loans IN
  /\ Serving(p, "fold")
  /\ StillThere(r.books, r.loans \cup r.close)
  /\ r.loans = {} \/ shelf[r.keep] # "gone"
  /\ FlushKeepsIndex(r)
  /\ shelf' = [b \in Books |-> IF b \in r.books THEN "gone" ELSE shelf[b]]
  /\ loanBook' = [l \in LoanIds |-> IF l \in cascade THEN NoBook
                                    ELSE FoldedBook(r, MaxLoan)[l]]
  /\ returned' = [l \in LoanIds |-> IF l \in cascade THEN 0
                                    ELSE FoldedReturned(r, MaxLoan)[l]]
  /\ Finish(p)
  /\ UNCHANGED <<private, now>>

----------------------------------------------------------------------------
(* A request that is refused at its commit, fails, or dies with its        *)
(* process leaves no trace: its transaction is rolled back.                *)
RollBack(p) ==
  /\ ~ Serving(p, "idle")
  /\ Finish(p)
  /\ UNCHANGED rows

Tick ==
  /\ now < MaxNow
  /\ now' = now + 1
  /\ UNCHANGED <<shelf, private, loanBook, returned, req>>

Init ==
  /\ shelf = [b \in Books |-> "live"]
  /\ private \in [Books -> BOOLEAN]
  /\ \A b \in Books : private[b] => AddedBy[b] # NoUser
  /\ loanBook = [l \in LoanIds |-> NoBook]
  /\ returned = [l \in LoanIds |-> 0]
  /\ now = 1
  /\ req = [p \in Procs |-> Idle]

Lend(p) ==
  \/ \E u \in Users, b \in Books : LookUpToLend(p, u, b)
  \/ FindNoOpenLoan(p)
  \/ InsertLoan(p)

Return(p) ==
  \/ \E u \in Users, l \in LoanIds : LookUpToReturn(p, u, l)
  \/ CommitReturn(p)

Delete(p) ==
  \/ \E u \in Users, asked \in SUBSET Books : LookUpToDelete(p, u, asked)
  \/ ReadLoansToClose(p)
  \/ CommitDelete(p)

Restore(p) ==
  \/ \E u \in Users, b \in Books : LookUpToRestore(p, u, b)
  \/ CommitRestore(p)

Purge(p) ==
  \/ \E u \in Users, asked \in SUBSET Books : LookUpToPurge(p, u, asked)
  \/ ReadLoansToPurge(p)
  \/ CommitPurge(p)

SetPrivacy(p) ==
  \/ \E u \in Users, b \in Books : LookUpToSetPrivacy(p, u, b)
  \/ CommitSetPrivacy(p)

Merge(p) ==
  \/ \E u \in Users, asked \in SUBSET Books, keep \in Books :
       LookUpToMerge(p, u, asked, keep)
  \/ ReadLoansToFold(p)
  \/ CommitMerge(p)

Next ==
  \/ \E p \in Procs : \/ Lend(p) \/ Return(p) \/ Delete(p) \/ Restore(p)
                      \/ Purge(p) \/ SetPrivacy(p) \/ Merge(p) \/ RollBack(p)
  \/ Tick

Spec == Init /\ [][Next]_vars

----------------------------------------------------------------------------
(* What holds whatever the interleaving *)

TypeOK ==
  /\ shelf \in [Books -> {"live", "trashed", "gone"}]
  /\ private \in [Books -> BOOLEAN]
  /\ loanBook \in [LoanIds -> Books \cup {NoBook}]
  /\ returned \in [LoanIds -> 0 .. MaxNow]
  /\ now \in 1 .. MaxNow
  /\ req \in [Procs -> Request]

(* A Book has at most one open loan, however requests interleave and       *)
(* whatever a merge brings onto it: uq_loans_one_open_per_book.            *)
OneOpenLoanPerBook == OneOpenEach(loanBook, returned)

(* No loan row outlives its Book: purges and merges take or move every     *)
(* loan, and a loan is never inserted on, nor moved to, a Book gone.       *)
LoansHaveBooks == \A l \in LoanIds : Exists(l) => shelf[loanBook[l]] # "gone"

(* A loan that has come back is never open again, whatever stale row a     *)
(* request writes back; and a Book deleted for good stays deleted.         *)
NothingComesBack ==
  /\ \A l \in LoanIds :
       Exists(l) /\ returned[l] # 0 /\ Exists(l)' => returned'[l] # 0
  /\ \A b \in Books : shelf[b] = "gone" => shelf'[b] = "gone"
ClosedStaysClosed == [][NothingComesBack]_vars

----------------------------------------------------------------------------
(* What the handlers promise, and keep when requests do not overlap *)

(* _trash: "Closing it is the honest end".  A trashed Book has no open     *)
(* loan, so nobody holds a Book that no member can return.                 *)
TrashedBooksAreIn == \A b \in Books : shelf[b] = "trashed" => OpenOn({b}) = {}

(* lending.AlreadyClosed: the date a Book came back does not move.         *)
ReturnDateIsKept ==
  \A l \in LoanIds : returned[l] # 0 /\ Exists(l)' => returned'[l] = returned[l]
ReturnDateNeverMoves == [][ReturnDateIsKept]_vars

(* Only a trashed Book is deleted for good, unless it is merged away       *)
(* (_purgeable_by).  And by a merge (merge_books) no loan is lost, and if  *)
(* any of the Books was out, the keeper is out on the loan that had been   *)
(* open longest.                                                           *)
PurgeSparesTheLiving(p) ==
  CommitPurge(p) => \A b \in Books : shelf[b] = "live" => shelf'[b] = "live"

MergeCarriesLoans(p) ==
  CommitMerge(p) =>
    /\ \A l \in LoanIds : Exists(l) => Exists(l)'
    /\ \E keep \in Books, open \in SUBSET LoanIds :
         /\ keep = req[p].keep
         /\ open = OpenOn(req[p].books \cup {keep})
         /\ OpenOn({keep})' = {l \in open : \A m \in open : l <= m}

NothingIsLost ==
  [][ \A p \in Procs : PurgeSparesTheLiving(p) /\ MergeCarriesLoans(p) ]_vars

(* A merge that reached its fold is not refused by the index when no other *)
(* request ran: two Books that are both out can be merged.                 *)
MergeOfLentBooksCommits ==
  \A p \in Procs : Serving(p, "fold") => FlushKeepsIndex(req[p])

----------------------------------------------------------------------------
(* What lending promises of each Book, without requests, rows or the trash *)

(* The Book's loan in the row that says it is out, 0 when it is in.        *)
OutOn == [b \in Books |-> IF OpenOn({b}) = {} THEN 0
                          ELSE CHOOSE l \in OpenOn({b}) : TRUE]

C == INSTANCE Custody WITH Loans <- LoanIds, In <- 0, out <- OutOn

(* Whatever the interleaving, the rows keep the custody of every Book: it  *)
(* changes hands only by coming back first, or by a merge                  *)
(* (routers/loans.py, lending.py, folding.py).                             *)
KeepsCustody == C!Spec
=============================================================================
