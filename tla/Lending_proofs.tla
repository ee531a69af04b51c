-------------------------- MODULE Lending_proofs --------------------------
(***************************************************************************)
(* The lending invariants, for every catalogue, every set of accounts and  *)
(* any number of requests in flight.                                       *)
(***************************************************************************)
EXTENDS Lending, TLAPS

(* What a request in flight remembers of the checks it passed: a request   *)
(* that will stamp a return has read the clock, and a merge never keeps a  *)
(* Book it is about to delete.                                             *)
Remembers(r) ==
  /\ r \in Request
  /\ r.step \in {"return", "deleteLoans", "fold"} => r.at # 0
  /\ r.step \in {"merge", "fold"} => r.keep \in Books /\ r.keep \notin r.books

IInv ==
  /\ TypeOK
  /\ \A p \in Procs : Remembers(req[p])
  /\ OneOpenLoanPerBook
  /\ LoansHaveBooks

(* A request that has written nothing yet may not break anything: only    *)
(* what it remembers is new.                                               *)
LEMMA ReadingIsHarmless ==
  ASSUME IInv, NEW p \in Procs, NEW r, Remembers(r),
         req' = [req EXCEPT ![p] = r], UNCHANGED rows
  PROVE  IInv'
<1>1. TypeOK'
  BY DEF IInv, TypeOK, Remembers, rows
<1>2. \A q \in Procs : Remembers(req'[q])
  BY DEF IInv, TypeOK
<1>3. (\A q \in Procs : Remembers(req[q]))'
  BY <1>2 DEF Remembers, Request
<1>4. OneOpenLoanPerBook' /\ LoansHaveBooks'
  BY DEF IInv, OneOpenLoanPerBook, OneOpenEach, LoansHaveBooks, Exists, rows
<1> QED BY <1>1, <1>3, <1>4 DEF IInv

LEMMA IdleRemembers == Remembers(Idle)
  BY LendingAssumption DEF Remembers, Idle, Request, Steps

LEMMA IdleIsRequest == Idle \in Request
BY IdleRemembers DEF Remembers

LEMMA ClockIsRead == ASSUME IInv PROVE now \in 0 .. MaxNow /\ now # 0
BY LendingAssumption DEF IInv, TypeOK

LEMMA InitInv == Init => IInv
<1> SUFFICES ASSUME Init PROVE IInv
  OBVIOUS
<1>1. TypeOK
  BY LendingAssumption, IdleRemembers DEF Init, TypeOK, Remembers
<1>2. \A p \in Procs : Remembers(req[p])
  BY IdleRemembers DEF Init
<1>3. OneOpenLoanPerBook /\ LoansHaveBooks
  BY DEF Init, OneOpenLoanPerBook, OneOpenEach, LoansHaveBooks, Exists
<1> QED BY <1>1, <1>2, <1>3 DEF IInv

(* A commit leaves its request idle, and the others as they were. *)
LEMMA FinishedRemembers ==
  ASSUME IInv, NEW p \in Procs, Finish(p)
  PROVE  /\ req' \in [Procs -> Request]
         /\ \A q \in Procs : Remembers(req'[q])
BY IdleRemembers DEF IInv, TypeOK, Finish, Remembers

LEMMA StepInv == IInv /\ [Next]_vars => IInv'
<1> SUFFICES ASSUME IInv, [Next]_vars PROVE IInv'
  OBVIOUS
<1> USE LendingAssumption
<1>a. ASSUME NEW p \in Procs, Lend(p) PROVE IInv'
  <2>1. ASSUME NEW u \in Users, NEW b \in Books, LookUpToLend(p, u, b)
        PROVE  IInv'
    <3> DEFINE r == [Idle EXCEPT !.step = "lend", !.books = {b}]
    <3>1. Remembers(r)
      BY IdleIsRequest DEF Remembers, Request, Steps
    <3> QED BY <2>1, <3>1, ReadingIsHarmless DEF LookUpToLend, Start
  <2>2. CASE FindNoOpenLoan(p)
    <3> DEFINE r == [req[p] EXCEPT !.step = "lendFree"]
    <3>1. Remembers(r)
      BY DEF IInv, TypeOK, Remembers, Request, Steps
    <3> QED BY <2>2, <3>1, ReadingIsHarmless DEF FindNoOpenLoan, Advance
  <2>3. CASE InsertLoan(p)
    <3>1. PICK b \in Books, l \in LoanIds :
            /\ shelf[b] # "gone"
            /\ OpenOn({b}) = {}
            /\ loanBook' = [loanBook EXCEPT ![l] = b]
            /\ returned' = [returned EXCEPT ![l] = 0]
      BY <2>3 DEF InsertLoan, IInv, TypeOK, Request
    <3>2. TypeOK'
      BY <2>3, <3>1, FinishedRemembers DEF InsertLoan, IInv, TypeOK
    <3>3. OneOpenLoanPerBook'
      BY <3>1 DEF IInv, TypeOK, OneOpenLoanPerBook, OneOpenEach,
                  OpenOn, LoansOn, IsOpen, Exists
    <3>4. LoansHaveBooks'
      BY <2>3, <3>1 DEF InsertLoan, IInv, TypeOK, LoansHaveBooks, Exists
    <3>5. (\A q \in Procs : Remembers(req[q]))'
      BY <2>3, FinishedRemembers DEF InsertLoan, Remembers, Request
    <3> QED BY <3>2, <3>3, <3>4, <3>5 DEF IInv
  <2> QED BY <1>a, <2>1, <2>2, <2>3 DEF Lend
<1>b. ASSUME NEW p \in Procs, Return(p) PROVE IInv'
  <2>1. ASSUME NEW u \in Users, NEW l \in LoanIds, LookUpToReturn(p, u, l)
        PROVE  IInv'
    <3> DEFINE r == [Idle EXCEPT !.step = "return", !.loans = {l}, !.at = now]
    <3>1. Remembers(r)
      BY IdleIsRequest, ClockIsRead DEF Remembers, Request, Steps
    <3> QED BY <2>1, <3>1, ReadingIsHarmless DEF LookUpToReturn, Start
  <2>2. CASE CommitReturn(p)
    <3>1. TypeOK'
      BY <2>2, FinishedRemembers DEF CommitReturn, IInv, TypeOK, Request
    <3>2. OneOpenLoanPerBook'
      BY <2>2 DEF CommitReturn, Serving, IInv, TypeOK, Remembers, Request,
                  OneOpenLoanPerBook, OneOpenEach
    <3>3. LoansHaveBooks'
      BY <2>2 DEF CommitReturn, IInv, LoansHaveBooks, Exists
    <3>4. (\A q \in Procs : Remembers(req[q]))'
      BY <2>2, FinishedRemembers DEF CommitReturn, Remembers, Request
    <3> QED BY <3>1, <3>2, <3>3, <3>4 DEF IInv
  <2> QED BY <1>b, <2>1, <2>2 DEF Return
<1>c. ASSUME NEW p \in Procs, Delete(p) PROVE IInv'
  <2>1. ASSUME NEW u \in Users, NEW asked \in SUBSET Books,
               LookUpToDelete(p, u, asked)
        PROVE  IInv'
    <3> DEFINE r == [Idle EXCEPT !.step = "delete",
                                 !.books = {b \in asked : VisibleTo(u, b)}]
    <3>1. Remembers(r)
      BY IdleIsRequest DEF Remembers, Request, Steps
    <3> QED BY <2>1, <3>1, ReadingIsHarmless DEF LookUpToDelete, Start
  <2>2. CASE ReadLoansToClose(p)
    <3> DEFINE r == [req[p] EXCEPT !.step = "deleteLoans",
                       !.loans = OpenOn(req[p].books), !.at = now]
    <3>1. OpenOn(req[p].books) \subseteq LoanIds
      BY DEF OpenOn, LoansOn
    <3>2. Remembers(r)
      BY <3>1, ClockIsRead DEF IInv, TypeOK, Remembers, Request, Steps
    <3> QED BY <2>2, <3>2, ReadingIsHarmless DEF ReadLoansToClose, Advance
  <2>3. CASE CommitDelete(p)
    <3>1. TypeOK'
      BY <2>3, FinishedRemembers DEF CommitDelete, IInv, TypeOK, Request
    <3>2. OneOpenLoanPerBook'
      BY <2>3 DEF CommitDelete, Serving, IInv, TypeOK, Remembers, Request,
                  OneOpenLoanPerBook, OneOpenEach
    <3>3. LoansHaveBooks'
      BY <2>3 DEF CommitDelete, IInv, TypeOK, LoansHaveBooks, Exists
    <3>4. (\A q \in Procs : Remembers(req[q]))'
      BY <2>3, FinishedRemembers DEF CommitDelete, Remembers, Request
    <3> QED BY <3>1, <3>2, <3>3, <3>4 DEF IInv
  <2> QED BY <1>c, <2>1, <2>2, <2>3 DEF Delete
<1>d. ASSUME NEW p \in Procs, Restore(p) PROVE IInv'
  <2>1. ASSUME NEW u \in Users, NEW b \in Books, LookUpToRestore(p, u, b)
        PROVE  IInv'
    <3> DEFINE r == [Idle EXCEPT !.step = "restore", !.books = {b}]
    <3>1. Remembers(r)
      BY IdleIsRequest DEF Remembers, Request, Steps
    <3> QED BY <2>1, <3>1, ReadingIsHarmless DEF LookUpToRestore, Start
  <2>2. CASE CommitRestore(p)
    <3>1. TypeOK'
      BY <2>2, FinishedRemembers DEF CommitRestore, IInv, TypeOK
    <3>2. OneOpenLoanPerBook'
      BY <2>2 DEF CommitRestore, IInv, OneOpenLoanPerBook, OneOpenEach
    <3>3. LoansHaveBooks'
      BY <2>2 DEF CommitRestore, IInv, TypeOK, LoansHaveBooks, Exists
    <3>4. (\A q \in Procs : Remembers(req[q]))'
      BY <2>2, FinishedRemembers DEF CommitRestore, Remembers, Request
    <3> QED BY <3>1, <3>2, <3>3, <3>4 DEF IInv
  <2> QED BY <1>d, <2>1, <2>2 DEF Restore
<1>e. ASSUME NEW p \in Procs, Purge(p) PROVE IInv'
  <2>1. ASSUME NEW u \in Users, NEW asked \in SUBSET Books,
               LookUpToPurge(p, u, asked)
        PROVE  IInv'
    <3> DEFINE r == [Idle EXCEPT !.step = "purge",
                       !.books = {b \in asked : InTrashFor(u, b)
                                                /\ PurgeableBy(u, b)}]
    <3>1. Remembers(r)
      BY IdleIsRequest DEF Remembers, Request, Steps
    <3> QED BY <2>1, <3>1, ReadingIsHarmless DEF LookUpToPurge, Start
  <2>2. CASE ReadLoansToPurge(p)
    <3> DEFINE r == [req[p] EXCEPT !.step = "purgeLoans",
                                   !.loans = LoansOn(req[p].books)]
    <3>1. Remembers(r)
      BY DEF IInv, TypeOK, Remembers, Request, Steps, LoansOn
    <3> QED BY <2>2, <3>1, ReadingIsHarmless DEF ReadLoansToPurge, Advance
  <2>3. CASE CommitPurge(p)
    <3>1. TypeOK'
      BY <2>3, FinishedRemembers DEF CommitPurge, IInv, TypeOK
    <3>2. OneOpenLoanPerBook'
      BY <2>3 DEF CommitPurge, IInv, TypeOK, OneOpenLoanPerBook, OneOpenEach
    <3>3. LoansHaveBooks'
      BY <2>3 DEF CommitPurge, IInv, TypeOK, LoansHaveBooks, Exists, LoansOn
    <3>4. (\A q \in Procs : Remembers(req[q]))'
      BY <2>3, FinishedRemembers DEF CommitPurge, Remembers, Request
    <3> QED BY <3>1, <3>2, <3>3, <3>4 DEF IInv
  <2> QED BY <1>e, <2>1, <2>2, <2>3 DEF Purge
<1>f. ASSUME NEW p \in Procs, SetPrivacy(p) PROVE IInv'
  <2>1. ASSUME NEW u \in Users, NEW b \in Books, LookUpToSetPrivacy(p, u, b)
        PROVE  IInv'
    <3> DEFINE r == [Idle EXCEPT !.step = "setPrivacy", !.books = {b},
                                 !.flag = ~ private[b]]
    <3>1. Remembers(r)
      BY IdleIsRequest DEF Remembers, Request, Steps
    <3> QED BY <2>1, <3>1, ReadingIsHarmless DEF LookUpToSetPrivacy, Start
  <2>2. CASE CommitSetPrivacy(p)
    <3>1. \A b \in Books :
            (IF b \in req[p].books THEN req[p].flag ELSE private[b]) \in BOOLEAN
      BY DEF IInv, TypeOK, Request
    <3>2. TypeOK'
      BY <2>2, <3>1, FinishedRemembers DEF CommitSetPrivacy, IInv, TypeOK
    <3>3. OneOpenLoanPerBook' /\ LoansHaveBooks'
      BY <2>2 DEF CommitSetPrivacy, IInv, OneOpenLoanPerBook, OneOpenEach,
                  LoansHaveBooks, Exists
    <3>4. (\A q \in Procs : Remembers(req[q]))'
      BY <2>2, FinishedRemembers DEF CommitSetPrivacy, Remembers, Request
    <3> QED BY <3>2, <3>3, <3>4 DEF IInv
  <2> QED BY <1>f, <2>1, <2>2 DEF SetPrivacy
<1>g. ASSUME NEW p \in Procs, Merge(p) PROVE IInv'
  <2>1. ASSUME NEW u \in Users, NEW asked \in SUBSET Books, NEW keep \in Books,
               LookUpToMerge(p, u, asked, keep)
        PROVE  IInv'
    <3> DEFINE losers == {b \in asked : VisibleTo(u, b)} \ {keep}
               r == [Idle EXCEPT !.step = "merge", !.books = losers,
                                 !.keep = keep]
    <3>1. Remembers(r)
      BY IdleIsRequest DEF Remembers, Request, Steps
    <3> QED BY <2>1, <3>1, ReadingIsHarmless DEF LookUpToMerge, Start
  <2>2. CASE ReadLoansToFold(p)
    <3> DEFINE open == OpenOn(req[p].books \cup {req[p].keep})
               r == [req[p] EXCEPT !.step = "fold",
                       !.loans = LoansOn(req[p].books),
                       !.close = Later(open), !.at = now]
    <3>1. Later(open) \subseteq LoanIds /\ LoansOn(req[p].books) \subseteq LoanIds
      BY DEF Later, OpenOn, LoansOn
    <3>2. /\ req[p] \in Request
          /\ req[p].keep \in Books /\ req[p].keep \notin req[p].books
      BY <2>2 DEF ReadLoansToFold, Serving, IInv, Remembers
    <3>3. Remembers(r)
      BY <3>1, <3>2, ClockIsRead DEF Remembers, Request, Steps
    <3> QED BY <2>2, <3>3, ReadingIsHarmless DEF ReadLoansToFold, Advance
  <2>3. CASE CommitMerge(p)
    <3> DEFINE r == req[p]
               cascade == LoansOn(r.books) \ r.loans
    <3>1. /\ r \in Request /\ r.at # 0
          /\ r.keep \in Books /\ r.keep \notin r.books
      BY <2>3 DEF CommitMerge, Serving, IInv, Remembers
    <3>2. /\ shelf' = [b \in Books |-> IF b \in r.books THEN "gone" ELSE shelf[b]]
          /\ loanBook' = [l \in LoanIds |->
                            IF l \in cascade THEN NoBook
                            ELSE IF l \in r.loans THEN r.keep ELSE loanBook[l]]
          /\ returned' = [l \in LoanIds |->
                            IF l \in cascade THEN 0
                            ELSE IF l \in r.close THEN r.at ELSE returned[l]]
      BY <2>3 DEF CommitMerge, FoldedBook, FoldedReturned, LoanIds
    <3>3. TypeOK'
      BY <2>3, <3>1, <3>2, FinishedRemembers
         DEF CommitMerge, IInv, TypeOK, Request
    <3>4. OneOpenLoanPerBook'
      <4>1. CASE MaxLoan = 0
        BY <4>1 DEF OneOpenLoanPerBook, OneOpenEach, LoanIds
      <4>2. CASE MaxLoan # 0
        <5>1. OneOpenEach(FoldedBook(r, MaxLoan), FoldedReturned(r, MaxLoan))
          BY <2>3, <4>2 DEF CommitMerge, FlushKeepsIndex, LoanIds
        <5>2. \A l \in LoanIds : l <= MaxLoan
          BY DEF LoanIds
        <5> QED BY <3>2, <5>1, <5>2
                DEF OneOpenLoanPerBook, OneOpenEach, FoldedBook, FoldedReturned
      <4> QED BY <4>1, <4>2
    <3>5. LoansHaveBooks'
      <4> SUFFICES ASSUME NEW l \in LoanIds, loanBook'[l] # NoBook
                   PROVE  shelf'[loanBook'[l]] # "gone"
        BY DEF LoansHaveBooks, Exists
      <4>1. CASE l \in r.loans
        <5>1. loanBook'[l] = r.keep /\ shelf[r.keep] # "gone"
          BY <2>3, <3>2, <4>1 DEF CommitMerge
        <5> QED BY <3>1, <3>2, <5>1
      <4>2. CASE l \notin r.loans
        <5>1. loanBook'[l] = loanBook[l] /\ loanBook[l] \notin r.books
          BY <3>2, <4>2 DEF LoansOn
        <5> QED BY <3>2, <5>1 DEF IInv, TypeOK, LoansHaveBooks, Exists
      <4> QED BY <4>1, <4>2
    <3>6. (\A q \in Procs : Remembers(req[q]))'
      BY <2>3, FinishedRemembers DEF CommitMerge, Remembers, Request
    <3> QED BY <3>3, <3>4, <3>5, <3>6 DEF IInv
  <2> QED BY <1>g, <2>1, <2>2, <2>3 DEF Merge
<1>h. ASSUME NEW p \in Procs, RollBack(p) PROVE IInv'
  BY <1>h, IdleRemembers, ReadingIsHarmless DEF RollBack, Finish
<1>i. CASE Tick
  <2>1. TypeOK'
    BY <1>i DEF Tick, IInv, TypeOK
  <2>2. OneOpenLoanPerBook' /\ LoansHaveBooks'
    BY <1>i DEF Tick, IInv, OneOpenLoanPerBook, OneOpenEach, LoansHaveBooks, Exists
  <2>3. (\A q \in Procs : Remembers(req[q]))'
    BY <1>i DEF Tick, IInv, Remembers, Request
  <2> QED BY <2>1, <2>2, <2>3 DEF IInv
<1>j. CASE UNCHANGED vars
  <2>1. TypeOK'
    BY <1>j DEF vars, IInv, TypeOK
  <2>2. OneOpenLoanPerBook' /\ LoansHaveBooks'
    BY <1>j DEF vars, IInv, OneOpenLoanPerBook, OneOpenEach, LoansHaveBooks, Exists
  <2>3. (\A q \in Procs : Remembers(req[q]))'
    BY <1>j DEF vars, IInv, Remembers, Request
  <2> QED BY <2>1, <2>2, <2>3 DEF IInv
<1> QED BY <1>a, <1>b, <1>c, <1>d, <1>e, <1>f, <1>g, <1>h, <1>i, <1>j DEF Next

(* The invariant behind the theorems below. *)
THEOREM Inductive == Spec => []IInv
BY InitInv, StepInv, PTL DEF Spec

(* Every variable keeps its type. *)
THEOREM TypesHold == Spec => []TypeOK
BY Inductive, PTL DEF IInv

(* create_loan, return_loan, the trash and merge_books: however they       *)
(* interleave, a Book never has two open loans.                            *)
THEOREM OneOpenLoanHolds == Spec => []OneOpenLoanPerBook
BY Inductive, PTL DEF IInv

(* Purges and merges never leave a loan on a Book that is gone, nor does a *)
(* loan reach one.                                                         *)
THEOREM LoansHaveBooksHolds == Spec => []LoansHaveBooks
BY Inductive, PTL DEF IInv

(* What a step must keep for a loan to stay closed and a Book deleted.     *)
LEMMA StepKeepsClosed == IInv /\ [Next]_vars => [NothingComesBack]_vars
<1> SUFFICES ASSUME IInv, Next PROVE NothingComesBack
  BY DEF vars
<1>1. ASSUME UNCHANGED <<shelf, returned>> PROVE NothingComesBack
  BY <1>1 DEF NothingComesBack
<1>2. ASSUME NEW p \in Procs, InsertLoan(p) PROVE NothingComesBack
  <2>1. PICK l \in LoanIds : /\ NewestFirstFree(l)
                             /\ returned' = [returned EXCEPT ![l] = 0]
    BY <1>2 DEF InsertLoan
  <2>2. ~ Exists(l)
    BY <2>1 DEF NewestFirstFree, IsNewId, LoanIds
  <2> QED BY <1>2, <2>1, <2>2 DEF InsertLoan, NothingComesBack, IInv, TypeOK
<1>3. ASSUME NEW p \in Procs, CommitReturn(p) PROVE NothingComesBack
  BY <1>3 DEF CommitReturn, Serving, IInv, Remembers, NothingComesBack
<1>4. ASSUME NEW p \in Procs, CommitDelete(p) PROVE NothingComesBack
  BY <1>4 DEF CommitDelete, Serving, StillThere, IInv, Remembers, NothingComesBack
<1>5. ASSUME NEW p \in Procs, CommitRestore(p) PROVE NothingComesBack
  BY <1>5 DEF CommitRestore, StillThere, NothingComesBack
<1>6. ASSUME NEW p \in Procs, CommitPurge(p) PROVE NothingComesBack
  BY <1>6 DEF CommitPurge, NothingComesBack, Exists
<1>7. ASSUME NEW p \in Procs, CommitMerge(p) PROVE NothingComesBack
  <2>1. req[p].at # 0
    BY <1>7 DEF CommitMerge, Serving, IInv, Remembers
  <2>2. \A l \in LoanIds : returned[l] # 0 /\ Exists(l)' => returned'[l] # 0
    BY <1>7, <2>1 DEF CommitMerge, FoldedReturned, Exists
  <2>3. \A b \in Books : shelf[b] = "gone" => shelf'[b] = "gone"
    BY <1>7 DEF CommitMerge
  <2> QED BY <2>2, <2>3 DEF NothingComesBack
<1> QED
  BY <1>1, <1>2, <1>3, <1>4, <1>5, <1>6, <1>7
     DEF Next, Lend, Return, Delete, Restore, Purge, SetPrivacy, Merge, RollBack,
         Tick, rows, LookUpToLend, FindNoOpenLoan, LookUpToReturn, LookUpToDelete,
         ReadLoansToClose, LookUpToRestore, LookUpToPurge, ReadLoansToPurge,
         LookUpToSetPrivacy, CommitSetPrivacy, LookUpToMerge, ReadLoansToFold

(* A stale row written back by a return, a delete or a merge never opens a *)
(* loan that had come back, and nothing undoes a purge.                    *)
THEOREM ClosedStaysClosedHolds == Spec => ClosedStaysClosed
BY Inductive, StepKeepsClosed, PTL DEF Spec, ClosedStaysClosed

----------------------------------------------------------------------------
(* Lending implements Custody. *)

(* The custody of a Book is the one open loan on it: the CHOOSE of OutOn   *)
(* has one loan to choose.                                                 *)
OutIsOpenLoan ==
  /\ OutOn \in [Books -> LoanIds \cup {0}]
  /\ \A b \in Books, l \in LoanIds :
       OutOn[b] = l <=> loanBook[l] = b /\ returned[l] = 0

LEMMA NoLoanIsZero == 0 \notin LoanIds
BY DEF LoanIds

LEMMA OutSays == IInv => OutIsOpenLoan
<1> SUFFICES ASSUME IInv PROVE OutIsOpenLoan
  OBVIOUS
<1>1. \A b \in Books : OpenOn({b}) =
        {l \in LoanIds : loanBook[l] = b /\ returned[l] = 0}
  BY LendingAssumption DEF OpenOn, LoansOn, IsOpen, Exists
<1>2. \A b \in Books : \A i, j \in OpenOn({b}) : i = j
  BY <1>1, LendingAssumption DEF IInv, OneOpenLoanPerBook, OneOpenEach
<1>3. ASSUME NEW b \in Books
      PROVE  /\ OutOn[b] \in LoanIds \cup {0}
             /\ \A l \in LoanIds : OutOn[b] = l <=> l \in OpenOn({b})
  <2>1. CASE OpenOn({b}) = {}
    BY <2>1, NoLoanIsZero DEF OutOn
  <2>2. CASE OpenOn({b}) # {}
    <3>1. OutOn[b] = CHOOSE l \in OpenOn({b}) : TRUE
      BY <2>2 DEF OutOn
    <3>2. OutOn[b] \in OpenOn({b})
      BY <2>2, <3>1
    <3> QED BY <1>1, <1>2, <3>2
  <2> QED BY <2>1, <2>2
<1>4. OutOn \in [Books -> LoanIds \cup {0}]
  BY <1>3 DEF OutOn
<1>5. ASSUME NEW b \in Books, NEW l \in LoanIds
      PROVE  OutOn[b] = l <=> loanBook[l] = b /\ returned[l] = 0
  <2>1. l \in OpenOn({b}) <=> loanBook[l] = b /\ returned[l] = 0
    BY <1>1
  <2> QED BY <1>3, <2>1
<1> QED BY <1>4, <1>5 DEF OutIsOpenLoan

LEMMA OutSaysNext == IInv' => OutIsOpenLoan'
BY OutSays, PTL

(* A step that closes or takes the loans of L, and opens none, brings the  *)
(* Books out on them back.                                                 *)
LEMMA ClosingBringsBack ==
  ASSUME OutIsOpenLoan, OutIsOpenLoan', NEW L,
         \A b \in Books, l \in LoanIds :
           loanBook'[l] = b /\ returned'[l] = 0 <=>
             l \notin L /\ loanBook[l] = b /\ returned[l] = 0
  PROVE  C!Next
<1> DEFINE B == {b \in Books : OutOn[b] \in L /\ OutOn[b] # 0}
<1>1. ASSUME NEW b \in Books
      PROVE  OutOn'[b] = IF b \in B THEN 0 ELSE OutOn[b]
  BY NoLoanIsZero DEF OutIsOpenLoan
<1>2. OutOn' = [b \in Books |-> IF b \in B THEN 0 ELSE OutOn[b]]
  BY <1>1 DEF OutIsOpenLoan
<1>3. C!ComeBack(B)
  BY <1>2 DEF C!ComeBack
<1> QED BY <1>3 DEF C!Next

(* Reads, refusals, the clock and the switches leave custody alone. *)
LEMMA LoansRuleCustody ==
  ASSUME UNCHANGED <<loanBook, returned>> PROVE UNCHANGED OutOn
BY DEF OutOn, OpenOn, LoansOn, IsOpen, Exists

LEMMA InsertLends ==
  ASSUME IInv, OutIsOpenLoan, OutIsOpenLoan', NEW p \in Procs, InsertLoan(p)
  PROVE  C!Next
<1>1. PICK b \in Books, l \in LoanIds :
        /\ OpenOn({b}) = {}
        /\ NewestFirstFree(l)
        /\ loanBook' = [loanBook EXCEPT ![l] = b]
        /\ returned' = [returned EXCEPT ![l] = 0]
  BY DEF InsertLoan, IInv, TypeOK, Request
<1>2. loanBook[l] = NoBook
  BY <1>1 DEF NewestFirstFree, IsNewId, Exists, LoanIds
<1>3. OutOn[b] = 0
  BY <1>1 DEF OutOn
<1>4. \A c \in Books : OutOn[c] # l
  BY <1>2, LendingAssumption DEF OutIsOpenLoan
<1>5. \A k \in LoanIds, c \in Books :
        loanBook'[k] = c /\ returned'[k] = 0 <=>
          IF k = l THEN c = b ELSE loanBook[k] = c /\ returned[k] = 0
  BY <1>1, <1>2, LendingAssumption DEF IInv, TypeOK
<1>6. ASSUME NEW c \in Books
      PROVE  OutOn'[c] = IF c = b THEN l ELSE OutOn[c]
  <2>1. CASE c = b
    BY <1>5, <2>1 DEF OutIsOpenLoan
  <2>2. CASE c # b
    BY <1>4, <1>5, <2>2, NoLoanIsZero DEF OutIsOpenLoan
  <2> QED BY <2>1, <2>2
<1>7. OutOn' = [OutOn EXCEPT ![b] = l]
  BY <1>6 DEF OutIsOpenLoan
<1> QED BY <1>3, <1>4, <1>7 DEF C!Next, C!Lend

LEMMA MergeFolds ==
  ASSUME IInv, OutIsOpenLoan, OutIsOpenLoan', NEW p \in Procs, CommitMerge(p)
  PROVE  C!Next
<1> DEFINE r == req[p]
           cascade == LoansOn(r.books) \ r.loans
           left == r.loans \cup r.close \cup cascade
           absorbed == {b \in Books \ {r.keep} : OutOn[b] \in left /\ OutOn[b] # 0}
<1>1. /\ r \in Request /\ r.at # 0
      /\ r.keep \in Books /\ r.keep \notin r.books
  BY DEF CommitMerge, Serving, IInv, Remembers
<1>2. /\ loanBook' = [l \in LoanIds |->
                        IF l \in cascade THEN NoBook
                        ELSE IF l \in r.loans THEN r.keep ELSE loanBook[l]]
      /\ returned' = [l \in LoanIds |->
                        IF l \in cascade THEN 0
                        ELSE IF l \in r.close THEN r.at ELSE returned[l]]
      /\ \A l \in r.loans : loanBook[l] # NoBook
  BY DEF CommitMerge, FoldedBook, FoldedReturned, LoanIds, StillThere, Exists
<1> HIDE DEF r, cascade
<1>3. ASSUME NEW b \in Books, b # r.keep, NEW l \in LoanIds
      PROVE  loanBook'[l] = b /\ returned'[l] = 0 <=>
               l \notin left /\ loanBook[l] = b /\ returned[l] = 0
  BY <1>1, <1>2, <1>3, LendingAssumption
<1>4. ASSUME NEW b \in Books, b # r.keep
      PROVE  OutOn'[b] = IF b \in absorbed THEN 0 ELSE OutOn[b]
  BY <1>3, <1>4, NoLoanIsZero DEF OutIsOpenLoan
<1>5. OutOn'[r.keep] \in {0, OutOn[r.keep]} \cup {OutOn[b] : b \in absorbed}
  <2>1. CASE OutOn'[r.keep] = 0
    BY <2>1
  <2>2. CASE OutOn'[r.keep] # 0
    <3> DEFINE l == OutOn'[r.keep]
    <3>1. /\ l \in LoanIds
          /\ loanBook'[l] = r.keep /\ returned'[l] = 0
      BY <1>1, <2>2 DEF OutIsOpenLoan
    <3> HIDE DEF l
    <3>2. /\ returned[l] = 0
          /\ l \in r.loans \/ loanBook[l] = r.keep
      BY <1>1, <1>2, <3>1, LendingAssumption
    <3>3. loanBook[l] \in Books
      BY <1>1, <1>2, <3>1, <3>2 DEF IInv, TypeOK
    <3>4. OutOn[loanBook[l]] = l
      BY <3>1, <3>2, <3>3 DEF OutIsOpenLoan
    <3>5. l = OutOn'[r.keep]
      BY DEF l
    <3>6. CASE loanBook[l] = r.keep
      BY <3>4, <3>5, <3>6
    <3>7. CASE loanBook[l] # r.keep
      <4>1. loanBook[l] \in absorbed
        BY <2>2, <3>2, <3>3, <3>4, <3>5, <3>7
      <4> QED BY <3>4, <3>5, <4>1
    <3> QED BY <3>6, <3>7
  <2> QED BY <2>1, <2>2
<1>6. OutOn' = [b \in Books |-> IF b = r.keep THEN OutOn'[r.keep]
                                ELSE IF b \in absorbed THEN 0 ELSE OutOn[b]]
  BY <1>1, <1>4 DEF OutIsOpenLoan
<1>7. r.keep \notin absorbed /\ absorbed \in SUBSET Books
  OBVIOUS
<1> HIDE DEF absorbed
<1>8. C!FoldInto(r.keep, absorbed)
  BY <1>5, <1>6, <1>7 DEF C!FoldInto
<1> QED BY <1>1, <1>7, <1>8 DEF C!Next

LEMMA InitIsIn == Init => C!Init
<1> SUFFICES ASSUME Init PROVE C!Init
  OBVIOUS
<1>1. \A b \in Books : OpenOn({b}) = {}
  BY DEF Init, OpenOn, LoansOn, IsOpen, Exists
<1> QED BY <1>1 DEF C!Init, OutOn

(* Every step of the rows is a step of custody or leaves it alone. *)
LEMMA StepKeepsCustody == IInv /\ IInv' /\ [Next]_vars => [C!Next]_OutOn
<1> SUFFICES ASSUME IInv, IInv', [Next]_vars PROVE C!Next \/ UNCHANGED OutOn
  OBVIOUS
<1>0. OutIsOpenLoan /\ OutIsOpenLoan'
  BY OutSays, OutSaysNext
<1>1. ASSUME UNCHANGED <<loanBook, returned>> PROVE UNCHANGED OutOn
  BY <1>1, LoansRuleCustody
<1>2. ASSUME NEW p \in Procs, InsertLoan(p) PROVE C!Next
  BY <1>0, <1>2, InsertLends
<1>3. ASSUME NEW p \in Procs, CommitReturn(p) PROVE C!Next
  <2>1. req[p].at # 0
    BY <1>3 DEF CommitReturn, Serving, IInv, Remembers
  <2>2. \A b \in Books, l \in LoanIds :
          loanBook'[l] = b /\ returned'[l] = 0 <=>
            l \notin req[p].loans /\ loanBook[l] = b /\ returned[l] = 0
    BY <1>3, <2>1 DEF CommitReturn
  <2> QED BY <1>0, <2>2, ClosingBringsBack
<1>4. ASSUME NEW p \in Procs, CommitDelete(p) PROVE C!Next
  <2>1. req[p].at # 0
    BY <1>4 DEF CommitDelete, Serving, IInv, Remembers
  <2>2. \A b \in Books, l \in LoanIds :
          loanBook'[l] = b /\ returned'[l] = 0 <=>
            l \notin req[p].loans /\ loanBook[l] = b /\ returned[l] = 0
    BY <1>4, <2>1 DEF CommitDelete
  <2> QED BY <1>0, <2>2, ClosingBringsBack
<1>5. ASSUME NEW p \in Procs, CommitPurge(p) PROVE C!Next
  <2>1. \A b \in Books, l \in LoanIds :
          loanBook'[l] = b /\ returned'[l] = 0 <=>
            l \notin req[p].loans /\ loanBook[l] = b /\ returned[l] = 0
    BY <1>5, LendingAssumption DEF CommitPurge
  <2> QED BY <1>0, <2>1, ClosingBringsBack
<1>6. ASSUME NEW p \in Procs, CommitMerge(p) PROVE C!Next
  BY <1>0, <1>6, MergeFolds
<1> QED
  BY <1>1, <1>2, <1>3, <1>4, <1>5, <1>6
     DEF Next, vars, Lend, Return, Delete, Restore, Purge, SetPrivacy, Merge,
         RollBack, Tick, rows, LookUpToLend, FindNoOpenLoan, LookUpToReturn,
         LookUpToDelete, ReadLoansToClose, LookUpToRestore, CommitRestore,
         LookUpToPurge, ReadLoansToPurge, LookUpToSetPrivacy, CommitSetPrivacy,
         LookUpToMerge, ReadLoansToFold

(* Whatever the interleaving of the handlers, a Book that is out changes   *)
(* hands only by coming back first or by a merge.                          *)
THEOREM KeepsCustodyHolds == Spec => KeepsCustody
BY Inductive, InitIsIn, StepKeepsCustody, PTL DEF Spec, KeepsCustody, C!Spec

(* And no loan has two Books out, at any time. *)
THEOREM OneBookPerLoanHolds == Spec => []C!OneBookPerLoan
<1>1. OutIsOpenLoan => C!OneBookPerLoan
  BY DEF OutIsOpenLoan, C!OneBookPerLoan
<1> QED BY Inductive, OutSays, <1>1, PTL

----------------------------------------------------------------------------
(* What the handlers promise when requests do not overlap *)

OneAtATime == \A p, q \in Procs : p = q

(* What a request read is still so when it commits, if no other ran.       *)
UpToDate(r) ==
  /\ r.step \in {"lend", "lendFree", "setPrivacy", "delete", "deleteLoans",
                 "merge", "fold"} => \A b \in r.books : shelf[b] = "live"
  /\ r.step \in {"restore", "purge", "purgeLoans"} =>
       \A b \in r.books : shelf[b] = "trashed"
  /\ r.step \in {"merge", "fold"} => shelf[r.keep] = "live"
  /\ r.step = "return" => \A l \in r.loans : IsOpen(l)
  /\ r.step = "deleteLoans" => r.loans = OpenOn(r.books)
  /\ r.step = "purgeLoans" => r.loans = LoansOn(r.books)
  /\ r.step = "fold" => /\ r.loans = LoansOn(r.books)
                        /\ r.close = Later(OpenOn(r.books \cup {r.keep}))

(* An id that has no row carries no date. *)
NoRowNoDate == \A l \in LoanIds : ~ Exists(l) => returned[l] = 0

SerialInv ==
  /\ IInv
  /\ \A p \in Procs : UpToDate(req[p])
  /\ NoRowNoDate
  /\ TrashedBooksAreIn

LEMMA IdleIsUpToDate == UpToDate(Idle)
BY DEF UpToDate, Idle

LEMMA ReadIsUpToDate ==
  ASSUME SerialInv, NEW p \in Procs, OneAtATime, NEW r, UpToDate(r), r \in Request,
         req' = [req EXCEPT ![p] = r], UNCHANGED rows
  PROVE  /\ (\A q \in Procs : UpToDate(req[q]))'
         /\ NoRowNoDate' /\ TrashedBooksAreIn'
<1>1. req'[p] = r
  BY DEF SerialInv, IInv, TypeOK
<1>2. UpToDate(req[p])'
  BY <1>1 DEF UpToDate, rows, IsOpen, Exists, OpenOn, LoansOn, Later
<1>3. (\A q \in Procs : UpToDate(req[q]))'
  BY <1>2 DEF OneAtATime
<1>4. NoRowNoDate' /\ TrashedBooksAreIn'
  BY DEF SerialInv, NoRowNoDate, TrashedBooksAreIn, rows, IsOpen, Exists,
         OpenOn, LoansOn
<1> QED BY <1>3, <1>4

LEMMA CommitIsUpToDate ==
  ASSUME SerialInv, NEW p \in Procs, OneAtATime, Finish(p)
  PROVE  (\A q \in Procs : UpToDate(req[q]))'
<1>1. req'[p] = Idle
  BY DEF SerialInv, IInv, TypeOK, Finish
<1>2. UpToDate(req[p])'
  BY <1>1 DEF UpToDate, Idle
<1> QED BY <1>2 DEF OneAtATime

LEMMA SerialStep ==
  OneAtATime /\ SerialInv /\ IInv' /\ [Next]_vars => SerialInv'
<1> SUFFICES ASSUME OneAtATime, SerialInv, IInv', [Next]_vars PROVE SerialInv'
  OBVIOUS
<1> DEFINE Kept == /\ (\A q \in Procs : UpToDate(req[q]))'
                   /\ NoRowNoDate' /\ TrashedBooksAreIn'
<1> SUFFICES Kept
  BY DEF SerialInv
<1>0. \A p \in Procs : req[p] \in Request
  BY DEF SerialInv, IInv, TypeOK
<1>a. ASSUME NEW p \in Procs, Lend(p) PROVE Kept
  <2>1. ASSUME NEW u \in Users, NEW b \in Books, LookUpToLend(p, u, b)
        PROVE  Kept
    <3> DEFINE r == [Idle EXCEPT !.step = "lend", !.books = {b}]
    <3>1. UpToDate(r) /\ r \in Request
      BY <2>1, IdleIsRequest DEF LookUpToLend, VisibleTo, UpToDate, Request, Steps
    <3> QED BY <2>1, <3>1, ReadIsUpToDate DEF LookUpToLend, Start
  <2>2. CASE FindNoOpenLoan(p)
    <3> DEFINE r == [req[p] EXCEPT !.step = "lendFree"]
    <3>1. UpToDate(r) /\ r \in Request
      BY <1>0, <2>2 DEF FindNoOpenLoan, Serving, SerialInv, UpToDate, Request, Steps
    <3> QED BY <2>2, <3>1, ReadIsUpToDate DEF FindNoOpenLoan, Advance
  <2>3. CASE InsertLoan(p)
    <3>1. PICK b \in Books, l \in LoanIds :
            /\ shelf[b] = "live"
            /\ loanBook' = [loanBook EXCEPT ![l] = b]
            /\ returned' = [returned EXCEPT ![l] = 0]
      BY <1>0, <2>3 DEF InsertLoan, Serving, SerialInv, UpToDate, Request
    <3>2. NoRowNoDate'
      BY <3>1 DEF SerialInv, IInv, TypeOK, NoRowNoDate, Exists
    <3>3. TrashedBooksAreIn'
      BY <2>3, <3>1 DEF InsertLoan, SerialInv, IInv, TypeOK, TrashedBooksAreIn,
                        OpenOn, LoansOn, IsOpen, Exists
    <3> QED BY <2>3, <3>2, <3>3, CommitIsUpToDate DEF InsertLoan
  <2> QED BY <1>a, <2>1, <2>2, <2>3 DEF Lend
<1>b. ASSUME NEW p \in Procs, Return(p) PROVE Kept
  <2>1. ASSUME NEW u \in Users, NEW l \in LoanIds, LookUpToReturn(p, u, l)
        PROVE  Kept
    <3> DEFINE r == [Idle EXCEPT !.step = "return", !.loans = {l}, !.at = now]
    <3>1. UpToDate(r) /\ r \in Request
      BY <2>1, IdleIsRequest, ClockIsRead
         DEF LookUpToReturn, SerialInv, UpToDate, Request, Steps
    <3> QED BY <2>1, <3>1, ReadIsUpToDate DEF LookUpToReturn, Start
  <2>2. CASE CommitReturn(p)
    <3>1. NoRowNoDate' /\ TrashedBooksAreIn'
      BY <2>2 DEF CommitReturn, StillThere, Serving, SerialInv, IInv, Remembers,
                  NoRowNoDate, TrashedBooksAreIn, OpenOn, LoansOn, IsOpen, Exists
    <3> QED BY <2>2, <3>1, CommitIsUpToDate DEF CommitReturn
  <2> QED BY <1>b, <2>1, <2>2 DEF Return
<1>c. ASSUME NEW p \in Procs, Delete(p) PROVE Kept
  <2>1. ASSUME NEW u \in Users, NEW asked \in SUBSET Books,
               LookUpToDelete(p, u, asked)
        PROVE  Kept
    <3> DEFINE r == [Idle EXCEPT !.step = "delete",
                                 !.books = {b \in asked : VisibleTo(u, b)}]
    <3>1. UpToDate(r) /\ r \in Request
      BY <2>1, IdleIsRequest DEF VisibleTo, UpToDate, Request, Steps
    <3> QED BY <2>1, <3>1, ReadIsUpToDate DEF LookUpToDelete, Start
  <2>2. CASE ReadLoansToClose(p)
    <3> DEFINE r == [req[p] EXCEPT !.step = "deleteLoans",
                       !.loans = OpenOn(req[p].books), !.at = now]
    <3>1. OpenOn(req[p].books) \subseteq LoanIds
      BY DEF OpenOn, LoansOn
    <3>2. r \in Request
      BY <1>0, <3>1, ClockIsRead DEF SerialInv, Request, Steps
    <3>3. /\ r.step = "deleteLoans" /\ r.books = req[p].books
          /\ r.loans = OpenOn(req[p].books)
      BY <1>0 DEF Request
    <3>4. \A b \in req[p].books : shelf[b] = "live"
      BY <2>2 DEF ReadLoansToClose, Serving, SerialInv, UpToDate
    <3>5. req' = [req EXCEPT ![p] = r] /\ UNCHANGED rows
      BY <2>2 DEF ReadLoansToClose, Advance
    <3> HIDE DEF r
    <3>6. UpToDate(r)
      BY <3>3, <3>4 DEF UpToDate
    <3> QED BY <3>2, <3>5, <3>6, ReadIsUpToDate
  <2>3. CASE CommitDelete(p)
    <3>1. /\ req[p].at # 0
          /\ req[p].loans = OpenOn(req[p].books)
          /\ shelf' = [b \in Books |->
                         IF b \in req[p].books THEN "trashed" ELSE shelf[b]]
          /\ returned' = [l \in LoanIds |->
                            IF l \in req[p].loans THEN req[p].at ELSE returned[l]]
          /\ loanBook' = loanBook
      BY <2>3 DEF CommitDelete, Serving, SerialInv, IInv, Remembers, UpToDate
    <3>2. NoRowNoDate'
      BY <3>1 DEF SerialInv, NoRowNoDate, OpenOn, IsOpen, Exists
    <3>3. TrashedBooksAreIn'
      BY <3>1 DEF SerialInv, TrashedBooksAreIn, OpenOn, LoansOn, IsOpen, Exists
    <3> QED BY <2>3, <3>2, <3>3, CommitIsUpToDate DEF CommitDelete
  <2> QED BY <1>c, <2>1, <2>2, <2>3 DEF Delete
<1>d. ASSUME NEW p \in Procs, Restore(p) PROVE Kept
  <2>1. ASSUME NEW u \in Users, NEW b \in Books, LookUpToRestore(p, u, b)
        PROVE  Kept
    <3> DEFINE r == [Idle EXCEPT !.step = "restore", !.books = {b}]
    <3>1. UpToDate(r) /\ r \in Request
      BY <2>1, IdleIsRequest
         DEF LookUpToRestore, InTrashFor, UpToDate, Request, Steps
    <3> QED BY <2>1, <3>1, ReadIsUpToDate DEF LookUpToRestore, Start
  <2>2. CASE CommitRestore(p)
    <3>1. NoRowNoDate' /\ TrashedBooksAreIn'
      BY <2>2 DEF CommitRestore, SerialInv, NoRowNoDate, TrashedBooksAreIn,
                  OpenOn, LoansOn, IsOpen, Exists
    <3> QED BY <2>2, <3>1, CommitIsUpToDate DEF CommitRestore
  <2> QED BY <1>d, <2>1, <2>2 DEF Restore
<1>e. ASSUME NEW p \in Procs, Purge(p) PROVE Kept
  <2>1. ASSUME NEW u \in Users, NEW asked \in SUBSET Books,
               LookUpToPurge(p, u, asked)
        PROVE  Kept
    <3> DEFINE r == [Idle EXCEPT !.step = "purge",
                       !.books = {b \in asked : InTrashFor(u, b)
                                                /\ PurgeableBy(u, b)}]
    <3>1. UpToDate(r) /\ r \in Request
      BY <2>1, IdleIsRequest DEF InTrashFor, UpToDate, Request, Steps
    <3> QED BY <2>1, <3>1, ReadIsUpToDate DEF LookUpToPurge, Start
  <2>2. CASE ReadLoansToPurge(p)
    <3> DEFINE r == [req[p] EXCEPT !.step = "purgeLoans",
                                   !.loans = LoansOn(req[p].books)]
    <3>1. LoansOn(req[p].books) \subseteq LoanIds
      BY DEF LoansOn
    <3>2. r \in Request
      BY <1>0, <3>1 DEF Request, Steps
    <3>3. /\ r.step = "purgeLoans" /\ r.books = req[p].books
          /\ r.loans = LoansOn(req[p].books)
      BY <1>0 DEF Request
    <3>4. \A b \in req[p].books : shelf[b] = "trashed"
      BY <2>2 DEF ReadLoansToPurge, Serving, SerialInv, UpToDate
    <3>5. req' = [req EXCEPT ![p] = r] /\ UNCHANGED rows
      BY <2>2 DEF ReadLoansToPurge, Advance
    <3> HIDE DEF r
    <3>6. UpToDate(r)
      BY <3>3, <3>4 DEF UpToDate
    <3> QED BY <3>2, <3>5, <3>6, ReadIsUpToDate
  <2>3. CASE CommitPurge(p)
    <3>1. NoRowNoDate' /\ TrashedBooksAreIn'
      BY <2>3, LendingAssumption
         DEF CommitPurge, SerialInv, NoRowNoDate, TrashedBooksAreIn,
             OpenOn, LoansOn, IsOpen, Exists
    <3> QED BY <2>3, <3>1, CommitIsUpToDate DEF CommitPurge
  <2> QED BY <1>e, <2>1, <2>2, <2>3 DEF Purge
<1>f. ASSUME NEW p \in Procs, SetPrivacy(p) PROVE Kept
  <2>1. ASSUME NEW u \in Users, NEW b \in Books, LookUpToSetPrivacy(p, u, b)
        PROVE  Kept
    <3> DEFINE r == [Idle EXCEPT !.step = "setPrivacy", !.books = {b},
                                 !.flag = ~ private[b]]
    <3>1. UpToDate(r) /\ r \in Request
      BY <2>1, IdleIsRequest
         DEF LookUpToSetPrivacy, VisibleTo, UpToDate, Request, Steps
    <3> QED BY <2>1, <3>1, ReadIsUpToDate DEF LookUpToSetPrivacy, Start
  <2>2. CASE CommitSetPrivacy(p)
    <3>1. NoRowNoDate' /\ TrashedBooksAreIn'
      BY <2>2 DEF CommitSetPrivacy, SerialInv, NoRowNoDate, TrashedBooksAreIn,
                  OpenOn, LoansOn, IsOpen, Exists
    <3> QED BY <2>2, <3>1, CommitIsUpToDate DEF CommitSetPrivacy
  <2> QED BY <1>f, <2>1, <2>2 DEF SetPrivacy
<1>g. ASSUME NEW p \in Procs, Merge(p) PROVE Kept
  <2>1. ASSUME NEW u \in Users, NEW asked \in SUBSET Books, NEW keep \in Books,
               LookUpToMerge(p, u, asked, keep)
        PROVE  Kept
    <3> DEFINE losers == {b \in asked : VisibleTo(u, b)} \ {keep}
               r == [Idle EXCEPT !.step = "merge", !.books = losers,
                                 !.keep = keep]
    <3>1. UpToDate(r) /\ r \in Request
      BY <2>1, IdleIsRequest
         DEF LookUpToMerge, VisibleTo, UpToDate, Request, Steps
    <3> QED BY <2>1, <3>1, ReadIsUpToDate DEF LookUpToMerge, Start
  <2>2. CASE ReadLoansToFold(p)
    <3> DEFINE open == OpenOn(req[p].books \cup {req[p].keep})
               r == [req[p] EXCEPT !.step = "fold",
                       !.loans = LoansOn(req[p].books),
                       !.close = Later(open), !.at = now]
    <3>1. Later(open) \subseteq LoanIds /\ LoansOn(req[p].books) \subseteq LoanIds
      BY DEF Later, OpenOn, LoansOn
    <3>2. r \in Request
      BY <1>0, <3>1, ClockIsRead DEF SerialInv, Request, Steps
    <3>3. /\ r.step = "fold" /\ r.books = req[p].books /\ r.keep = req[p].keep
          /\ r.loans = LoansOn(req[p].books) /\ r.close = Later(open)
      BY <1>0 DEF Request
    <3>4. shelf[req[p].keep] = "live" /\ \A b \in req[p].books : shelf[b] = "live"
      BY <2>2 DEF ReadLoansToFold, Serving, SerialInv, UpToDate
    <3>5. req' = [req EXCEPT ![p] = r] /\ UNCHANGED rows
      BY <2>2 DEF ReadLoansToFold, Advance
    <3> HIDE DEF r
    <3>6. UpToDate(r)
      BY <3>3, <3>4 DEF UpToDate
    <3> QED BY <3>2, <3>5, <3>6, ReadIsUpToDate
  <2>3. CASE CommitMerge(p)
    <3> DEFINE r == req[p]
    <3>1. UpToDate(r) /\ r.step = "fold"
      BY <2>3 DEF CommitMerge, Serving, SerialInv
    <3>2. /\ r.keep \in Books /\ shelf[r.keep] = "live"
          /\ r.loans = LoansOn(r.books)
      BY <2>3, <3>1 DEF CommitMerge, Serving, SerialInv, IInv, Remembers, UpToDate
    <3>3. /\ r.close = Later(OpenOn(r.books \cup {r.keep})) /\ r.at # 0
      BY <2>3, <3>1 DEF CommitMerge, Serving, SerialInv, IInv, Remembers, UpToDate
    <3>4. /\ shelf' = [b \in Books |-> IF b \in r.books THEN "gone" ELSE shelf[b]]
          /\ loanBook' = [l \in LoanIds |->
                            IF l \in r.loans THEN r.keep ELSE loanBook[l]]
          /\ returned' = [l \in LoanIds |->
                            IF l \in r.close THEN r.at ELSE returned[l]]
          /\ Finish(p)
      BY <2>3, <3>2 DEF CommitMerge, FoldedBook, FoldedReturned, LoanIds
    <3>5. \A l \in r.close : l \in LoanIds /\ Exists(l)
      BY <3>3 DEF Later, OpenOn, LoansOn, IsOpen
    <3> HIDE DEF r
    <3>6. NoRowNoDate'
      BY <3>2, <3>4, <3>5, LendingAssumption DEF SerialInv, NoRowNoDate, Exists
    <3>7. TrashedBooksAreIn'
      BY <3>2, <3>3, <3>4 DEF SerialInv, TrashedBooksAreIn, OpenOn, LoansOn, IsOpen,
                              Exists
    <3> QED BY <3>4, <3>6, <3>7, CommitIsUpToDate
  <2> QED BY <1>g, <2>1, <2>2, <2>3 DEF Merge
<1>h. ASSUME NEW p \in Procs, RollBack(p) PROVE Kept
  BY <1>h, IdleIsUpToDate, IdleIsRequest, ReadIsUpToDate DEF RollBack, Finish
<1>i. CASE UNCHANGED <<shelf, loanBook, returned, req>>
  <2>1. \A q \in Procs : UpToDate(req[q])'
    BY <1>i DEF SerialInv, UpToDate, IsOpen, Exists, OpenOn, LoansOn, Later
  <2>2. NoRowNoDate' /\ TrashedBooksAreIn'
    BY <1>i DEF SerialInv, NoRowNoDate, TrashedBooksAreIn, IsOpen, Exists,
                OpenOn, LoansOn
  <2> QED BY <2>1, <2>2
<1> QED BY <1>a, <1>b, <1>c, <1>d, <1>e, <1>f, <1>g, <1>h, <1>i
        DEF Next, Tick, vars

THEOREM SerialInductive == ASSUME OneAtATime PROVE Spec => []SerialInv
<1>1. Init => SerialInv
  BY InitInv DEF Init, SerialInv, NoRowNoDate, TrashedBooksAreIn, UpToDate, Idle,
                 Exists
<1>2. SerialInv /\ IInv' /\ [Next]_vars => SerialInv'
  BY SerialStep
<1> QED BY Inductive, <1>1, <1>2, PTL DEF Spec

(* _trash closes the loan of a Book thrown away, and nothing lends, merges *)
(* or restores a loan onto it: nobody holds a Book that is in the trash.   *)
THEOREM TrashedBooksAreInHolds ==
  ASSUME OneAtATime PROVE Spec => []TrashedBooksAreIn
<1>1. SerialInv => TrashedBooksAreIn
  BY DEF SerialInv
<1> QED BY SerialInductive, <1>1, PTL

(* The date a Book came back is written once: return_loan refuses a loan   *)
(* that is back, and _trash and _carry_loans close open loans only.        *)
THEOREM ReturnDateNeverMovesHolds ==
  ASSUME OneAtATime PROVE Spec => ReturnDateNeverMoves
<1>1. SerialInv /\ [Next]_vars => [ReturnDateIsKept]_vars
  <2> SUFFICES ASSUME SerialInv, Next PROVE ReturnDateIsKept
    BY DEF vars
  <2>1. ASSUME UNCHANGED returned PROVE ReturnDateIsKept
    BY <2>1 DEF ReturnDateIsKept
  <2>2. ASSUME NEW p \in Procs, InsertLoan(p) PROVE ReturnDateIsKept
    <3>1. PICK l \in LoanIds : /\ NewestFirstFree(l)
                               /\ returned' = [returned EXCEPT ![l] = 0]
      BY <2>2 DEF InsertLoan
    <3>2. ~ Exists(l)
      BY <3>1 DEF NewestFirstFree, IsNewId, LoanIds
    <3> QED BY <3>1, <3>2 DEF SerialInv, NoRowNoDate, IInv, TypeOK, ReturnDateIsKept
  <2>3. ASSUME NEW p \in Procs, CommitReturn(p) PROVE ReturnDateIsKept
    BY <2>3 DEF CommitReturn, Serving, SerialInv, UpToDate, IsOpen, ReturnDateIsKept
  <2>4. ASSUME NEW p \in Procs, CommitDelete(p) PROVE ReturnDateIsKept
    <3>1. req[p].loans = OpenOn(req[p].books)
      BY <2>4 DEF CommitDelete, Serving, SerialInv, UpToDate
    <3>2. \A l \in req[p].loans : returned[l] = 0
      BY <3>1 DEF OpenOn, IsOpen
    <3> QED BY <2>4, <3>2 DEF CommitDelete, ReturnDateIsKept
  <2>5. ASSUME NEW p \in Procs, CommitPurge(p) PROVE ReturnDateIsKept
    BY <2>5 DEF CommitPurge, Exists, ReturnDateIsKept
  <2>6. ASSUME NEW p \in Procs, CommitMerge(p) PROVE ReturnDateIsKept
    <3>1. req[p].close = Later(OpenOn(req[p].books \cup {req[p].keep}))
      BY <2>6 DEF CommitMerge, Serving, SerialInv, UpToDate
    <3>2. \A l \in req[p].close : returned[l] = 0
      BY <3>1 DEF Later, OpenOn, IsOpen
    <3> QED BY <2>6, <3>2 DEF CommitMerge, FoldedReturned, Exists, ReturnDateIsKept
  <2> QED
    BY <2>1, <2>2, <2>3, <2>4, <2>5, <2>6
       DEF Next, Lend, Return, Delete, Restore, Purge, SetPrivacy, Merge, RollBack,
           Tick, rows, LookUpToLend, FindNoOpenLoan, LookUpToReturn, LookUpToDelete,
           ReadLoansToClose, LookUpToRestore, CommitRestore, LookUpToPurge,
           ReadLoansToPurge, LookUpToSetPrivacy, CommitSetPrivacy, LookUpToMerge,
           ReadLoansToFold
<1> QED BY SerialInductive, <1>1, PTL DEF Spec, ReturnDateNeverMoves

(* Only a trashed Book is purged, and a merge carries every loan: if any   *)
(* of its Books was out, the keeper is out on the earliest open loan.      *)
THEOREM NothingIsLostHolds == ASSUME OneAtATime PROVE Spec => NothingIsLost
<1>1. ASSUME SerialInv, NEW p \in Procs, CommitPurge(p), NEW b \in Books,
             shelf[b] = "live"
      PROVE  shelf'[b] = "live"
  <2>1. \A c \in req[p].books : shelf[c] = "trashed"
    BY <1>1 DEF CommitPurge, Serving, SerialInv, UpToDate
  <2> QED BY <1>1, <2>1 DEF CommitPurge
<1>2. ASSUME SerialInv, NEW p \in Procs, CommitMerge(p), NEW keep \in Books,
             NEW open \in SUBSET LoanIds, keep = req[p].keep,
             open = OpenOn(req[p].books \cup {keep})
      PROVE  /\ \A l \in LoanIds : Exists(l) => Exists(l)'
             /\ OpenOn({keep})' = {l \in open : \A m \in open : l <= m}
  <2> DEFINE r == req[p]
  <2>1. r.step = "fold" /\ r \in Request /\ UpToDate(r) /\ Remembers(r)
    BY <1>2 DEF CommitMerge, Serving, SerialInv, IInv, TypeOK
  <2>2. /\ r.at # 0 /\ r.books \subseteq Books
        /\ r.loans = LoansOn(r.books) /\ r.close = Later(open)
    BY <1>2, <2>1 DEF Remembers, UpToDate, Request
  <2>3. /\ loanBook' = [l \in LoanIds |->
                          IF l \in r.loans THEN keep ELSE loanBook[l]]
        /\ returned' = [l \in LoanIds |->
                          IF l \in r.close THEN r.at ELSE returned[l]]
    BY <1>2, <2>2 DEF CommitMerge, FoldedBook, FoldedReturned, LoanIds
  <2>4. open = {l \in LoanIds : loanBook[l] \in r.books \cup {keep} /\ returned[l] = 0}
    BY <1>2, <2>2, LendingAssumption DEF OpenOn, LoansOn, IsOpen, Exists
  <2>5. OpenOn({keep})' = {l \in LoanIds : loanBook'[l] = keep /\ returned'[l] = 0}
    BY LendingAssumption DEF OpenOn, LoansOn, IsOpen, Exists
  <2> HIDE DEF r
  <2>6. \A l \in LoanIds : Exists(l) => Exists(l)'
    BY <2>3, LendingAssumption DEF Exists
  <2>7. \A l \in open : l \notin Later(open) <=> \A m \in open : l <= m
    BY <2>4 DEF Later, LoanIds
  <2>8. ASSUME NEW l \in LoanIds
        PROVE  loanBook'[l] = keep /\ returned'[l] = 0 <=>
                 l \in open /\ l \notin Later(open)
    BY <2>2, <2>3, <2>4 DEF LoansOn, Later
  <2>9. OpenOn({keep})' = {l \in open : \A m \in open : l <= m}
    BY <2>4, <2>5, <2>7, <2>8
  <2> QED BY <2>6, <2>9
<1>3. SerialInv => \A p \in Procs : PurgeSparesTheLiving(p) /\ MergeCarriesLoans(p)
  <2> SUFFICES ASSUME SerialInv, NEW p \in Procs
               PROVE  PurgeSparesTheLiving(p) /\ MergeCarriesLoans(p)
    OBVIOUS
  <2>1. PurgeSparesTheLiving(p)
    BY <1>1 DEF PurgeSparesTheLiving
  <2>2. ASSUME CommitMerge(p)
        PROVE  /\ \A l \in LoanIds : Exists(l) => Exists(l)'
               /\ \E keep \in Books, open \in SUBSET LoanIds :
                    /\ keep = req[p].keep
                    /\ open = OpenOn(req[p].books \cup {keep})
                    /\ OpenOn({keep})' = {l \in open : \A m \in open : l <= m}
    <3>1. PICK keep \in Books : keep = req[p].keep
      BY <2>2 DEF CommitMerge, Serving, SerialInv, IInv, Remembers
    <3>2. PICK open \in SUBSET LoanIds : open = OpenOn(req[p].books \cup {keep})
      BY DEF OpenOn, LoansOn
    <3>3. /\ \A l \in LoanIds : Exists(l) => Exists(l)'
          /\ OpenOn({keep})' = {l \in open : \A m \in open : l <= m}
      BY <1>2, <2>2, <3>1, <3>2
    <3> QED BY <3>1, <3>2, <3>3
  <2> QED BY <2>1, <2>2 DEF MergeCarriesLoans
<1> QED BY SerialInductive, <1>3, PTL DEF NothingIsLost
=============================================================================
