------------------------- MODULE Highlights_proofs -------------------------
(***************************************************************************)
(* The highlight ledger's invariants, for any Books, marks and number of   *)
(* requests in flight; SharedWhereChosen, where merges and shares are kept *)
(* apart; and DeletedStaysDeleted, where imports are.                      *)
(***************************************************************************)
EXTENDS Highlights, TLAPS

(* What a request in flight remembers of the rows it passed: an import or  *)
(* a share is for a Book, a hand delete knows its key, and a merge keeps   *)
(* another Book than the one it deletes.                                   *)
Remembers(r) ==
  /\ r \in Request
  /\ r.step \in {"rows", "keys", "write", "share"} => r.book \in Books
  /\ r.step \in {"known", "delete"} => r.own \in Keys
  /\ r.step = "merge" => r.keep \in Books /\ r.keep # r.book

IInv ==
  /\ TypeOK
  /\ \A p \in Procs : Remembers(req[p])
  /\ HighlightsHaveBooks

LEMMA IdleRemembers == Remembers(Idle)
BY HighlightsAssumption DEF Remembers, Idle, Request, NothingLoaded, Kinds

LEMMA IdleIsRequest == Idle \in Request /\ Idle.step = "idle" /\ Idle.kind = "none"
BY IdleRemembers DEF Remembers, Idle

LEMMA NoRowIsNoRow == NoRow \notin Row
BY HighlightsAssumption DEF NoRow, Row

(* A row that is there has a key, a Book and a text. *)
LEMMA RowThere ==
  ASSUME TypeOK, NEW i \in RowIds, rows[i].book \in Books
  PROVE  rows[i] \in Row
BY HighlightsAssumption DEF TypeOK, NoRow

LEMMA LoadedRows ==
  ASSUME TypeOK, NEW R
  PROVE  Load(R) \in [RowIds -> Row \cup {NoRow}]
BY DEF TypeOK, Load

(* A request that has written nothing yet may not break anything.          *)
LEMMA ReadingIsHarmless ==
  ASSUME IInv, NEW p \in Procs, NEW r, Remembers(r),
         req' = [req EXCEPT ![p] = r], UNCHANGED tables
  PROVE  IInv'
<1>1. TypeOK'
  BY DEF IInv, TypeOK, Remembers, tables, UniqueKeys
<1>2. \A q \in Procs : Remembers(req'[q])
  BY DEF IInv, TypeOK
<1>3. (\A q \in Procs : Remembers(req[q]))'
  BY <1>2 DEF Remembers, Request
<1>4. HighlightsHaveBooks'
  BY DEF IInv, HighlightsHaveBooks, Exists, tables
<1> QED BY <1>1, <1>3, <1>4 DEF IInv

(* A commit leaves its request idle, and the others as they were. *)
LEMMA FinishedRemembers ==
  ASSUME IInv, NEW p \in Procs, Finish(p)
  PROVE  /\ req' \in [Procs -> Request]
         /\ (\A q \in Procs : Remembers(req[q]))'
<1>1. \A q \in Procs : Remembers(req'[q])
  BY IdleRemembers DEF IInv, TypeOK, Finish
<1> QED BY <1>1, IdleRemembers DEF IInv, TypeOK, Finish, Remembers, Request

(* Deleting rows leaves the keys of the others unique. *)
LEMMA WithoutKeepsTypes ==
  ASSUME TypeOK, NEW R
  PROVE  /\ Without(R) \in [RowIds -> Row \cup {NoRow}]
         /\ UniqueKeys(Without(R))
BY DEF TypeOK, Without, UniqueKeys, NoRow

LEMMA InitInv == Init => IInv
<1> SUFFICES ASSUME Init PROVE IInv
  OBVIOUS
<1>1. TypeOK
  BY IdleRemembers DEF Init, TypeOK, Remembers, UniqueKeys
<1>2. \A p \in Procs : Remembers(req[p])
  BY IdleRemembers DEF Init
<1>3. HighlightsHaveBooks
  BY DEF Init, HighlightsHaveBooks, Exists
<1> QED BY <1>1, <1>2, <1>3 DEF IInv

(* Every row an import leaves behind is a row, or none. *)
LEMMA ImportedRows ==
  ASSUME IInv, NEW p \in Procs, Serving(p, "write"),
         NEW id \in [Created(req[p]) -> RowIds], Accepted(req[p], id)
  PROVE  Imported(req[p], id) \in [RowIds -> Row \cup {NoRow}]
<1> DEFINE r == req[p]
<1>1. r \in Request /\ r.book \in Books
  BY DEF IInv, Remembers, Serving
<1>2. \A k \in Written(r) : k \in Keys /\ r.marks[k] \in Texts
  BY <1>1 DEF Written, Carried, Request
<1>3. SUFFICES ASSUME NEW i \in RowIds
               PROVE  Imported(r, id)[i] \in Row \cup {NoRow}
  BY DEF Imported
<1>4. CASE \E k \in Created(r) : id[k] = i
  <2> DEFINE k == CHOOSE c \in Created(r) : id[c] = i
  <2>1. k \in Created(r)
    BY <1>4
  <2>2. Imported(r, id)[i] = [key |-> k, book |-> r.book, text |-> r.marks[k],
                              shared |-> FALSE]
    BY <1>4 DEF Imported
  <2> HIDE DEF k
  <2>3. k \in Keys /\ r.marks[k] \in Texts
    BY <1>2, <2>1 DEF Created
  <2>4. [key |-> k, book |-> r.book, text |-> r.marks[k], shared |-> FALSE] \in Row
    BY <1>1, <2>3 DEF Row
  <2> QED BY <2>2, <2>4
<1>5. CASE ~ (\E k \in Created(r) : id[k] = i) /\ i \in Flushed(r)
  <2>1. rows[i] \in Row /\ i \notin Removed(r)
    BY <1>5 DEF Accepted, Exists, IInv, TypeOK
  <2>2. MarkOf(r, i) \in Written(r)
    BY <1>5 DEF Flushed, Found, MarkOf
  <2>3. Imported(r, id)[i] = Updated(r, i)
    BY <1>5, <2>1 DEF Imported
  <2> QED BY <1>1, <1>2, <2>1, <2>2, <2>3 DEF Updated, Row
<1>6. CASE ~ (\E k \in Created(r) : id[k] = i) /\ i \notin Flushed(r)
  BY <1>6 DEF Imported, IInv, TypeOK
<1> QED BY <1>4, <1>5, <1>6

LEMMA ImportInv == ASSUME IInv, NEW p \in Procs, Import(p) PROVE IInv'
<1> USE HighlightsAssumption
<1>1. ASSUME NEW b \in Books, NEW sent \in Sent, BeginImport(p, b, sent)
      PROVE  IInv'
  <2> DEFINE r == [[Idle EXCEPT !.step = "rows", !.book = b, !.marks = sent.marks,
                                !.removes = sent.removes] EXCEPT !.kind = "import"]
  <2>1. Remembers(r)
    BY IdleIsRequest DEF Remembers, Request, Kinds
  <2> QED BY <1>1, <2>1, ReadingIsHarmless DEF BeginImport, Start
<1>2. CASE ReadTables(p)
  <2>1. CASE Serving(p, "rows")
    <3> DEFINE r == [req[p] EXCEPT !.step = "keys",
                                   !.held = Load(RowsUnder(Wanted(req[p])))]
    <3>a. Load(RowsUnder(Wanted(req[p]))) \in [RowIds -> Row \cup {NoRow}]
      BY LoadedRows DEF IInv
    <3>b. req[p] \in Request /\ req[p].book \in Books
      BY <2>1 DEF IInv, Remembers, Serving
    <3>c. r \in Request /\ r.step = "keys" /\ r.book \in Books
      BY <3>a, <3>b DEF Request
    <3>1. Remembers(r)
      BY <3>c DEF Remembers
    <3>2. req' = [req EXCEPT ![p] = r] /\ UNCHANGED tables
      BY <1>2, <2>1 DEF ReadTables, Serving, Advance
    <3> QED BY <3>1, <3>2, ReadingIsHarmless
  <2>2. CASE Serving(p, "keys")
    <3> DEFINE r == [req[p] EXCEPT !.step = "write",
                                   !.gone = remembered \cap Wanted(req[p])]
    <3>a. req[p] \in Request /\ req[p].book \in Books /\ remembered \subseteq Keys
      BY <2>2 DEF IInv, TypeOK, Remembers, Serving
    <3>b. r \in Request /\ r.step = "write" /\ r.book \in Books
      BY <3>a DEF Request
    <3>1. Remembers(r)
      BY <3>b DEF Remembers
    <3>2. req' = [req EXCEPT ![p] = r] /\ UNCHANGED tables
      BY <1>2, <2>2 DEF ReadTables, Serving, Advance
    <3> QED BY <3>1, <3>2, ReadingIsHarmless
  <2> QED BY <1>2, <2>1, <2>2 DEF ReadTables
<1>3. CASE CommitImport(p)
  <2>1. PICK id \in [Created(req[p]) -> RowIds] :
          Accepted(req[p], id) /\ rows' = Imported(req[p], id)
    BY <1>3 DEF CommitImport
  <2>2. TypeOK'
    BY <1>3, <2>1, ImportedRows, FinishedRemembers
       DEF CommitImport, Accepted, IInv, TypeOK, UniqueKeys
  <2>3. HighlightsHaveBooks'
    BY <1>3, <2>1 DEF CommitImport, Accepted, IInv, HighlightsHaveBooks, Exists
  <2> QED BY <1>3, <2>2, <2>3, FinishedRemembers DEF CommitImport, IInv
<1>4. CASE ImportIsBeaten(p)
  <2>1. CASE MayRetry(req[p])
    <3> DEFINE r == [req[p] EXCEPT !.step = "rows", !.held = NothingLoaded,
                                   !.gone = {}, !.tries = @ + 1]
    <3>1. req[p].tries + 1 \in 0 .. Attempts - 1
      BY <2>1 DEF MayRetry, IInv, Remembers, Request
    <3>a. req[p] \in Request /\ req[p].book \in Books
      BY <1>4 DEF ImportIsBeaten, Serving, IInv, Remembers
    <3>b. NothingLoaded \in [RowIds -> Row \cup {NoRow}]
      BY DEF NothingLoaded
    <3>c. r \in Request /\ r.step = "rows" /\ r.book \in Books
      BY <3>1, <3>a, <3>b DEF Request
    <3>2. Remembers(r)
      BY <3>c DEF Remembers
    <3> QED BY <1>4, <2>1, <3>2, ReadingIsHarmless DEF ImportIsBeaten, Advance
  <2>2. CASE ~ MayRetry(req[p])
    BY <1>4, <2>2, IdleRemembers, ReadingIsHarmless DEF ImportIsBeaten, Finish
  <2> QED BY <2>1, <2>2
<1> QED BY <1>1, <1>2, <1>3, <1>4 DEF Import

LEMMA DeleteInv == ASSUME IInv, NEW p \in Procs, DeleteOwn(p) PROVE IInv'
<1>1. ASSUME NEW b \in Books, NEW i \in RowIds, FindOwn(p, b, i) PROVE IInv'
  <2> DEFINE r == [[Idle EXCEPT !.step = "known", !.book = b, !.ids = {i},
                                !.own = rows[i].key] EXCEPT !.kind = "delete"]
  <2>1. rows[i].key \in Keys
    BY <1>1, RowThere DEF FindOwn, IInv, Row
  <2>2. Remembers(r)
    BY <2>1, IdleIsRequest DEF Remembers, Request, Kinds
  <2> QED BY <1>1, <2>2, ReadingIsHarmless DEF FindOwn, Start
<1>2. CASE ReadWhetherKnown(p)
  <2> DEFINE r == [req[p] EXCEPT !.step = "delete",
                                 !.gone = remembered \cap {req[p].own}]
  <2>a. req[p] \in Request /\ req[p].own \in Keys
    BY <1>2 DEF ReadWhetherKnown, Serving, IInv, Remembers
  <2>b. r \in Request /\ r.step = "delete" /\ r.own \in Keys
    BY <2>a DEF Request
  <2>1. Remembers(r)
    BY <2>b DEF Remembers
  <2> QED BY <1>2, <2>1, ReadingIsHarmless DEF ReadWhetherKnown, Advance
<1>3. CASE CommitDelete(p)
  <2>1. req[p].own \in Keys
    BY <1>3 DEF CommitDelete, Serving, IInv, Remembers
  <2>2. TypeOK'
    BY <1>3, <2>1, WithoutKeepsTypes, FinishedRemembers
       DEF CommitDelete, Taken, IInv, TypeOK, UniqueKeys
  <2>3. HighlightsHaveBooks'
    BY <1>3 DEF CommitDelete, Without, IInv, HighlightsHaveBooks, Exists
  <2> QED BY <1>3, <2>2, <2>3, FinishedRemembers DEF CommitDelete, IInv
<1> QED BY <1>1, <1>2, <1>3 DEF DeleteOwn

LEMMA ShareInv == ASSUME IInv, NEW p \in Procs, Share(p) PROVE IInv'
<1>1. ASSUME NEW b \in Books, NEW i \in RowIds, NEW flag \in BOOLEAN,
             FindToShare(p, b, i, flag)
      PROVE  IInv'
  <2> DEFINE r == [[Idle EXCEPT !.step = "share", !.book = b, !.ids = {i},
                                !.flag = flag] EXCEPT !.kind = "share"]
  <2>1. Remembers(r)
    BY IdleIsRequest DEF Remembers, Request, Kinds
  <2> QED BY <1>1, <2>1, ReadingIsHarmless DEF FindToShare, Start
<1>2. CASE CommitShare(p)
  <2>1. PICK i \in RowIds : /\ MayShare(req[p], i)
                            /\ rows' = [rows EXCEPT ![i].shared = req[p].flag]
    BY <1>2 DEF CommitShare, IInv, Remembers, Request
  <2>2. rows[i] \in Row
    BY <1>2, <2>1, RowThere DEF CommitShare, Serving, MayShare, IInv, Remembers
  <2>3. req[p].flag \in BOOLEAN
    BY DEF IInv, Remembers, Request
  <2>4. rows' \in [RowIds -> Row \cup {NoRow}]
    BY <2>1, <2>2, <2>3 DEF IInv, TypeOK, Row
  <2>5. \A j \in RowIds : /\ rows'[j].key = rows[j].key /\ rows'[j].book = rows[j].book
                          /\ rows'[j] # NoRow <=> rows[j] # NoRow
    <3>1. rows'[i] \in Row /\ rows'[i].key = rows[i].key /\ rows'[i].book = rows[i].book
      BY <2>1, <2>2, <2>3 DEF IInv, TypeOK, Row
    <3>2. \A j \in RowIds \ {i} : rows'[j] = rows[j]
      BY <2>1 DEF IInv, TypeOK
    <3> QED BY <2>2, <3>1, <3>2, NoRowIsNoRow
  <2>6. TypeOK'
    BY <1>2, <2>4, <2>5, FinishedRemembers DEF CommitShare, IInv, TypeOK, UniqueKeys
  <2>7. HighlightsHaveBooks'
    BY <1>2, <2>5 DEF CommitShare, IInv, HighlightsHaveBooks, Exists
  <2> QED BY <1>2, <2>6, <2>7, FinishedRemembers DEF CommitShare, IInv
<1> QED BY <1>1, <1>2 DEF Share

LEMMA PurgeInv == ASSUME IInv, NEW p \in Procs, Purge(p) PROVE IInv'
<1>1. ASSUME NEW b \in Books, ReadToPurge(p, b) PROVE IInv'
  <2> DEFINE r == [[Idle EXCEPT !.step = "purge", !.book = b, !.ids = RowsOn(b)]
                    EXCEPT !.kind = "purge"]
  <2>1. Remembers(r)
    BY IdleIsRequest DEF Remembers, Request, Kinds, RowsOn
  <2> QED BY <1>1, <2>1, ReadingIsHarmless DEF ReadToPurge, Start
<1>2. CASE CommitPurge(p)
  <2>1. TypeOK'
    BY <1>2, WithoutKeepsTypes, FinishedRemembers DEF CommitPurge, IInv, TypeOK, UniqueKeys
  <2>2. HighlightsHaveBooks'
    BY <1>2 DEF CommitPurge, Without, RowsOn, IInv, HighlightsHaveBooks, Exists
  <2> QED BY <1>2, <2>1, <2>2, FinishedRemembers DEF CommitPurge, IInv
<1> QED BY <1>1, <1>2 DEF Purge

LEMMA MergeInv == ASSUME IInv, NEW p \in Procs, Merge(p) PROVE IInv'
<1>1. ASSUME NEW b \in Books, NEW keep \in Books, ReadToMerge(p, b, keep) PROVE IInv'
  <2> DEFINE r == [[Idle EXCEPT !.step = "merge", !.book = b, !.keep = keep,
                                !.ids = RowsOn(b), !.wasShared = Shared(RowsOn(b))]
                    EXCEPT !.kind = "merge"]
  <2>1. Remembers(r)
    BY <1>1, IdleIsRequest DEF ReadToMerge, Remembers, Request, Kinds, RowsOn, Shared
  <2> QED BY <1>1, <2>1, ReadingIsHarmless DEF ReadToMerge, Start
<1>2. CASE CommitMerge(p)
  <2> DEFINE r == req[p]
             left == RowsOn(r.book) \ r.ids
  <2>1. r \in Request /\ r.keep \in Books /\ r.keep # r.book
    BY <1>2 DEF CommitMerge, Serving, IInv, Remembers
  <2>2. rows' = [i \in RowIds |-> IF i \in r.ids THEN Folded(r, i) ELSE Without(left)[i]]
    BY <1>2 DEF CommitMerge
  <2>3. \A i \in r.ids : i \in RowIds /\ rows[i] \in Row
    BY <1>2, <2>1 DEF CommitMerge, Request, Exists, IInv, TypeOK
  <2>4. \A i \in r.ids : /\ Folded(r, i) \in Row /\ Folded(r, i) # NoRow
                         /\ Folded(r, i).key = rows[i].key /\ Folded(r, i).book = r.keep
    BY <2>1, <2>3, HighlightsAssumption DEF Folded, Row, NoRow
  <2>5. rows' \in [RowIds -> Row \cup {NoRow}]
    BY <2>2, <2>4, WithoutKeepsTypes DEF IInv
  <2>6. \A i \in RowIds : rows'[i] # NoRow => rows[i] # NoRow /\ rows'[i].key = rows[i].key
    <3>1. \A i \in RowIds \ r.ids : rows'[i] # NoRow => rows'[i] = rows[i]
      BY <2>2 DEF Without
    <3> QED BY <2>2, <2>3, <2>4, <3>1, NoRowIsNoRow
  <2>7. TypeOK'
    <3>1. UniqueKeys(rows)'
      BY <2>6 DEF IInv, TypeOK, UniqueKeys
    <3> QED BY <1>2, <2>5, <3>1, FinishedRemembers DEF CommitMerge, IInv, TypeOK
  <2>8. HighlightsHaveBooks'
    <3> SUFFICES ASSUME NEW i \in RowIds, rows'[i] # NoRow
                 PROVE  rows'[i].book \in there'
      BY DEF HighlightsHaveBooks, Exists
    <3>1. there' = there \ {r.book} /\ (r.keep \in there \/ r.ids = {})
      BY <1>2 DEF CommitMerge
    <3>2. CASE i \in r.ids
      BY <2>1, <2>2, <2>4, <3>1, <3>2
    <3>3. CASE i \notin r.ids
      <4>1. rows'[i] = rows[i] /\ i \notin left /\ rows[i] # NoRow
        BY <2>2, <3>3 DEF Without
      <4> QED BY <3>1, <3>3, <4>1 DEF RowsOn, IInv, HighlightsHaveBooks, Exists
    <3> QED BY <3>2, <3>3
  <2> QED BY <1>2, <2>7, <2>8, FinishedRemembers DEF CommitMerge, IInv
<1> QED BY <1>1, <1>2 DEF Merge

LEMMA StepInv == IInv /\ [Next]_vars => IInv'
<1> SUFFICES ASSUME IInv, [Next]_vars PROVE IInv'
  OBVIOUS
<1>1. ASSUME NEW p \in Procs, RollBack(p) PROVE IInv'
  BY <1>1, IdleRemembers, ReadingIsHarmless DEF RollBack, Finish
<1>2. CASE UNCHANGED vars
  BY <1>2 DEF vars, IInv, TypeOK, UniqueKeys, Remembers, Request, HighlightsHaveBooks, Exists
<1> QED
  BY <1>1, <1>2, ImportInv, DeleteInv, ShareInv, PurgeInv, MergeInv DEF Next

THEOREM Inductive == Spec => []IInv
BY InitInv, StepInv, PTL DEF Spec

(* Every variable keeps its type, and one key is in one row. *)
THEOREM TypesHold == Spec => []TypeOK
<1>1. IInv => TypeOK
  BY DEF IInv
<1> QED BY <1>1, Inductive, PTL

(* However imports, deletes, purges and merges interleave, no highlight is *)
(* left on, written on or moved to a Book deleted for good.                *)
THEOREM HighlightsHaveBooksHolds == Spec => []HighlightsHaveBooks
<1>1. IInv => HighlightsHaveBooks
  BY DEF IInv
<1> QED BY <1>1, Inductive, PTL

----------------------------------------------------------------------------
(* Sharing.  A merge makes private what it read as shared, so none may be  *)
(* in flight while a share is.                                             *)

Knows(r) ==
  /\ r.step = "share" => r.kind = "share"
  /\ r.step = "merge" => r.kind = "merge"

(* A merge in flight read every row it carries that is shared as shared.   *)
SeesShares(p) ==
  req[p].step = "merge" => \A i \in req[p].ids : rows[i].shared => i \in req[p].wasShared

SharesInv ==
  /\ IInv
  /\ \A i \in RowIds : rows[i].shared => rows[i].text \in Short
  /\ \A p \in Procs : Knows(req[p]) /\ SeesShares(p)
  /\ \A p, q \in Procs : ~ (req[p].kind = "merge" /\ req[q].kind = "share")

(* What a step does to the requests: one of them ends, goes on with its    *)
(* reads, or begins where none it must not meet is in flight.              *)
Moves(p) ==
  /\ \A q \in Procs \ {p} : req'[q] = req[q]
  /\ \/ req'[p] = Idle
     \/ /\ req'[p].kind = req[p].kind
        /\ req'[p].step \notin {"share", "merge"}
     \/ /\ rows' = rows
        /\ \A q \in Procs : {req'[p].kind, req[q].kind} \notin Apart
        /\ Knows(req'[p])
        /\ req'[p].step = "merge" =>
             \A i \in req'[p].ids : rows[i].shared => i \in req'[p].wasShared

LEMMA StepMoves == ASSUME IInv, Next PROVE \E p \in Procs : Moves(p)
<1> USE IdleIsRequest
<1>0. PICK p \in Procs : \/ Import(p) \/ DeleteOwn(p) \/ Share(p)
                         \/ Purge(p) \/ Merge(p) \/ RollBack(p)
  BY DEF Next
<1>1. req \in [Procs -> Request]
  BY DEF IInv, TypeOK
<1>2. ASSUME Finish(p) PROVE Moves(p)
  BY <1>1, <1>2 DEF Finish, Moves
<1>3. ASSUME NEW r, Advance(p, r), r.kind = req[p].kind, r.step \notin {"share", "merge"}
      PROVE  Moves(p)
  BY <1>1, <1>3 DEF Advance, Moves
<1>4. CASE Import(p)
  <2>1. ASSUME NEW b \in Books, NEW sent \in Sent, BeginImport(p, b, sent) PROVE Moves(p)
    BY <1>1, <2>1 DEF BeginImport, Start, Moves, Knows, tables, Request
  <2>2. CASE ReadTables(p)
    <3> DEFINE r == [req[p] EXCEPT !.step = "keys", !.held = Load(RowsUnder(Wanted(req[p])))]
               s == [req[p] EXCEPT !.step = "write", !.gone = remembered \cap Wanted(req[p])]
    <3>1. r.kind = req[p].kind /\ r.step = "keys" /\ s.kind = req[p].kind /\ s.step = "write"
      BY <1>1 DEF Request
    <3>2. Advance(p, r) \/ Advance(p, s)
      BY <2>2 DEF ReadTables
    <3> HIDE DEF r, s
    <3> QED BY <1>3, <3>1, <3>2
  <2>3. CASE CommitImport(p)
    BY <1>2, <2>3 DEF CommitImport
  <2>4. CASE ImportIsBeaten(p)
    <3> DEFINE r == [req[p] EXCEPT !.step = "rows", !.held = NothingLoaded,
                                   !.gone = {}, !.tries = @ + 1]
    <3>1. r.kind = req[p].kind /\ r.step = "rows"
      BY <1>1 DEF Request
    <3>2. Advance(p, r) \/ Finish(p)
      BY <2>4 DEF ImportIsBeaten
    <3> HIDE DEF r
    <3> QED BY <1>2, <1>3, <3>1, <3>2
  <2> QED BY <1>4, <2>1, <2>2, <2>3, <2>4 DEF Import
<1>5. CASE DeleteOwn(p)
  <2>1. ASSUME NEW b \in Books, NEW i \in RowIds, FindOwn(p, b, i) PROVE Moves(p)
    BY <1>1, <2>1 DEF FindOwn, Start, Moves, Knows, tables, Request
  <2>2. CASE ReadWhetherKnown(p)
    BY <1>1, <2>2 DEF ReadWhetherKnown, Advance, Moves, Request
  <2>3. CASE CommitDelete(p)
    BY <1>2, <2>3 DEF CommitDelete
  <2> QED BY <1>5, <2>1, <2>2, <2>3 DEF DeleteOwn
<1>6. CASE Share(p)
  <2>1. ASSUME NEW b \in Books, NEW i \in RowIds, NEW flag \in BOOLEAN,
               FindToShare(p, b, i, flag)
        PROVE  Moves(p)
    BY <1>1, <2>1 DEF FindToShare, Start, Moves, Knows, tables, Request
  <2>2. CASE CommitShare(p)
    BY <1>2, <2>2 DEF CommitShare
  <2> QED BY <1>6, <2>1, <2>2 DEF Share
<1>7. CASE Purge(p)
  <2>1. ASSUME NEW b \in Books, ReadToPurge(p, b) PROVE Moves(p)
    BY <1>1, <2>1 DEF ReadToPurge, Start, Moves, Knows, tables, Request
  <2>2. CASE CommitPurge(p)
    BY <1>2, <2>2 DEF CommitPurge
  <2> QED BY <1>7, <2>1, <2>2 DEF Purge
<1>8. CASE Merge(p)
  <2>1. ASSUME NEW b \in Books, NEW keep \in Books, ReadToMerge(p, b, keep) PROVE Moves(p)
    BY <1>1, <2>1 DEF ReadToMerge, Start, Moves, Knows, Shared, tables, Request
  <2>2. CASE CommitMerge(p)
    BY <1>2, <2>2 DEF CommitMerge
  <2> QED BY <1>8, <2>1, <2>2 DEF Merge
<1>9. CASE RollBack(p)
  BY <1>2, <1>9 DEF RollBack
<1> QED BY <1>0, <1>4, <1>5, <1>6, <1>7, <1>8, <1>9

(* What is shared after an import was shared on that Book before it.       *)
LEMMA ImportShares ==
  ASSUME SharesInv, NEW p \in Procs, CommitImport(p)
  PROVE  ShareIsChosen
<1> DEFINE r == req[p]
<1>1. PICK id \in [Created(r) -> RowIds] : Accepted(r, id) /\ rows' = Imported(r, id)
  BY DEF CommitImport
<1>2. r \in Request
  BY DEF SharesInv, IInv, Remembers
<1>3. SUFFICES ASSUME NEW i \in RowIds, rows'[i].shared
               PROVE  /\ rows'[i].text \in Short
                      /\ rows[i].shared /\ rows[i].book = rows'[i].book
  BY DEF ShareIsChosen
<1>4. ~ \E k \in Created(r) : id[k] = i
  BY <1>1, <1>3 DEF Imported
<1>5. i \notin Removed(r)
  BY <1>1, <1>3, <1>4 DEF Imported, NoRow
<1>6. CASE i \notin Flushed(r)
  BY <1>1, <1>3, <1>4, <1>5, <1>6 DEF Imported, SharesInv
<1>7. CASE i \in Flushed(r)
  <2>1. rows'[i] = Updated(r, i)
    BY <1>1, <1>4, <1>5, <1>7 DEF Imported
  <2>2. rows[i].shared /\ rows[i].text \in Short /\ ~ MadePrivate(r, i)
    <3>1. Updated(r, i).shared
      BY <1>3, <2>1, Zenon
    <3>2. Updated(r, i).shared = (rows[i].shared /\ ~ MadePrivate(r, i))
      BY DEF Updated
    <3> QED BY <3>1, <3>2 DEF SharesInv
  <2>3. r.marks[MarkOf(r, i)] \in Texts
    BY <1>2, <1>7 DEF Flushed, Found, MarkOf, Written, Carried, Request
  <2>4. CASE Differs(r, i)
    BY <2>1, <2>2, <2>3, <2>4 DEF MadePrivate, Updated, Texts
  <2>5. CASE ~ Differs(r, i)
    BY <2>1, <2>2, <2>5 DEF Differs, Updated
  <2> QED BY <2>2, <2>4, <2>5
<1> QED BY <1>6, <1>7

LEMMA StepShares == ASSUME SharesInv, Next PROVE ShareIsChosen
<1>0. PICK p \in Procs : \/ Import(p) \/ DeleteOwn(p) \/ Share(p)
                         \/ Purge(p) \/ Merge(p) \/ RollBack(p)
  BY DEF Next
<1>1. req[p] \in Request /\ SeesShares(p)
  BY DEF SharesInv, IInv, Remembers
<1>2. ASSUME UNCHANGED rows PROVE ShareIsChosen
  BY <1>2 DEF ShareIsChosen, SharesInv
<1>3. ASSUME NEW R, rows' = Without(R) PROVE ShareIsChosen
  BY <1>3 DEF ShareIsChosen, SharesInv, Without, NoRow
<1>4. CASE CommitShare(p)
  <2>1. PICK j \in req[p].ids : /\ MayShare(req[p], j)
                                /\ rows' = [rows EXCEPT ![j].shared = req[p].flag]
    BY <1>4 DEF CommitShare
  <2>2. j \in RowIds /\ rows[j] \in Row \cup {NoRow} /\ rows \in [RowIds -> Row \cup {NoRow}]
    BY <1>1, <2>1 DEF Request, SharesInv, IInv, TypeOK
  <2>3. \A i \in RowIds \ {j} : rows'[i] = rows[i]
    BY <2>1, <2>2
  <2>4. /\ rows'[j].shared = req[p].flag
        /\ rows'[j].text = rows[j].text /\ rows'[j].book = rows[j].book
    BY <2>1, <2>2 DEF Row, NoRow
  <2>5. AuthorShares(j, rows'[j].book)
    BY <1>4, <2>1, <2>4 DEF AuthorShares, MayShare
  <2>6. rows'[j].shared => rows'[j].text \in Short
    BY <2>1, <2>4 DEF MayShare
  <2> QED BY <2>3, <2>5, <2>6 DEF ShareIsChosen, SharesInv
<1>5. CASE CommitMerge(p)
  <2> DEFINE r == req[p]
             left == RowsOn(r.book) \ r.ids
  <2>1. rows' = [i \in RowIds |-> IF i \in r.ids THEN Folded(r, i) ELSE Without(left)[i]]
    BY <1>5 DEF CommitMerge
  <2>2. \A i \in RowIds : i \in r.ids => ~ rows'[i].shared
    <3>1. \A i \in r.ids : rows[i].shared => i \in r.wasShared
      BY <1>1, <1>5 DEF CommitMerge, Serving, SeesShares
    <3>2. \A i \in r.ids : rows[i] \in Row
      BY <1>1, <1>5 DEF CommitMerge, Exists, Request, SharesInv, IInv, TypeOK
    <3> QED BY <2>1, <3>1, <3>2 DEF Folded, Row
  <2>3. \A i \in RowIds : i \notin r.ids => rows'[i] = rows[i] \/ ~ rows'[i].shared
    BY <2>1 DEF Without, NoRow
  <2> QED BY <2>2, <2>3 DEF ShareIsChosen, SharesInv
<1> QED
  BY <1>0, <1>2, <1>3, <1>4, <1>5, ImportShares
     DEF Import, DeleteOwn, Share, Purge, Merge, RollBack, tables, BeginImport, ReadTables,
         ImportIsBeaten, FindOwn, ReadWhetherKnown, CommitDelete, FindToShare, ReadToPurge,
         CommitPurge, ReadToMerge

LEMMA SharesStep ==
  ASSUME {"merge", "share"} \in Apart
  PROVE  SharesInv /\ [Next]_vars => SharesInv'
<1> SUFFICES ASSUME SharesInv, [Next]_vars PROVE SharesInv'
  OBVIOUS
<1>1. CASE UNCHANGED vars
  BY <1>1, StepInv DEF vars, SharesInv, SeesShares, Knows
<1>2. CASE Next
  <2>1. IInv'
    BY <1>2, StepInv DEF SharesInv
  <2>2. ShareIsChosen
    BY <1>2, StepShares
  <2>3. PICK p \in Procs : Moves(p)
    BY <1>2, StepMoves DEF SharesInv
  <2>4. \A i \in RowIds : rows'[i].shared => rows'[i].text \in Short
    BY <2>2 DEF ShareIsChosen
  <2>5. \A q \in Procs : Knows(req'[q])
    BY <2>3, IdleIsRequest DEF Moves, Knows, SharesInv
  <2>6. \A q, s \in Procs : ~ (req'[q].kind = "merge" /\ req'[s].kind = "share")
    <3>1. CASE req'[p] = Idle \/ req'[p].kind = req[p].kind
      BY <2>3, <3>1, IdleIsRequest DEF Moves, SharesInv
    <3>2. CASE \A q \in Procs : {req'[p].kind, req[q].kind} \notin Apart
      <4>1. \A q \in Procs : /\ req'[p].kind = "merge" => req[q].kind # "share"
                             /\ req'[p].kind = "share" => req[q].kind # "merge"
        BY <3>2
      <4> QED BY <2>3, <4>1 DEF Moves, SharesInv
    <3> QED BY <2>3, <3>1, <3>2 DEF Moves
  <2>7. ASSUME NEW q \in Procs, req'[q].step = "merge",
               NEW i \in req'[q].ids, rows'[i].shared
        PROVE  i \in req'[q].wasShared
    <3>0. i \in RowIds
      BY <2>1, <2>7 DEF IInv, TypeOK, Request
    <3>1. CASE req'[q] = req[q]
      <4>1. rows[i].shared
        <5>1. ASSUME AuthorShares(i, rows'[i].book) PROVE FALSE
          <6>1. PICK s \in Procs : req[s].step = "share"
            BY <5>1 DEF AuthorShares, CommitShare, Serving
          <6>2. req[s].kind = "share" /\ req[q].kind = "merge"
            BY <2>7, <3>1, <6>1 DEF SharesInv, Knows
          <6> QED BY <6>2 DEF SharesInv
        <5> QED BY <2>2, <2>7, <3>0, <5>1 DEF ShareIsChosen
      <4> QED BY <2>7, <3>1, <4>1 DEF SharesInv, SeesShares
    <3>2. CASE req'[q] # req[q]
      <4>1. p = q
        BY <2>3, <3>2 DEF Moves
      <4> QED BY <2>3, <2>7, <4>1, IdleIsRequest DEF Moves
    <3> QED BY <3>1, <3>2
  <2>8. \A q \in Procs : SeesShares(q)'
    BY <2>7 DEF SeesShares
  <2>9. (\A q \in Procs : Knows(req[q]))'
    BY <2>5 DEF Knows
  <2> QED BY <2>1, <2>4, <2>6, <2>8, <2>9 DEF SharesInv
<1> QED BY <1>1, <1>2

LEMMA InitShares == Init => SharesInv
<1> SUFFICES ASSUME Init PROVE SharesInv
  OBVIOUS
<1>1. \A p \in Procs : req[p] = Idle
  BY DEF Init
<1>2. \A i \in RowIds : ~ rows[i].shared
  BY DEF Init, NoRow
<1> QED BY <1>1, <1>2, InitInv, IdleIsRequest DEF SharesInv, Knows, SeesShares

(* Where no merge is in flight beside a share, a highlight is shared only  *)
(* on the Book its author shared it on, whatever imports move or lengthen  *)
(* it and whatever Books are merged and purged meanwhile.                  *)
THEOREM SharedWhereChosenHolds ==
  ASSUME {"merge", "share"} \in Apart
  PROVE  Spec => SharedWhereChosen
<1>1. SharesInv /\ [Next]_vars => SharesInv'
  BY SharesStep
<1>2. SharesInv /\ [Next]_vars => [ShareIsChosen]_vars
  BY StepShares
<1> QED BY <1>1, <1>2, InitShares, PTL DEF Spec, SharedWhereChosen

----------------------------------------------------------------------------
(* Hand deletes.  Only an import makes a row or gives one another key, so  *)
(* between the reads of an import and its commit no other may run.         *)

(* An import that has read the rows holds every row it wants under the key *)
(* the row has, one key once; and when it has read the deleted keys too,   *)
(* a key deleted is one it read, or one it holds a row of that is gone.    *)
Informed(r) ==
  /\ r.step \in {"rows", "keys", "write"} => r.kind = "import"
  /\ r.step \in {"keys", "write"} =>
       /\ UniqueKeys(r.held)
       /\ \A i \in RowIds :
            Exists(i) /\ rows[i].key \in Wanted(r) => r.held[i].key = rows[i].key
  /\ r.step = "write" =>
       \A k \in deleted \cap Wanted(r) :
         k \in r.gone \/ \E i \in RowIds : r.held[i].key = k /\ ~ Exists(i)
  /\ r.step = "delete" => r.gone \subseteq remembered

DeletesInv ==
  /\ IInv
  /\ deleted \subseteq remembered
  /\ \A p \in Procs : Informed(req[p])
  /\ \A p, q \in Procs : req[p].kind = "import" /\ req[q].kind = "import" => p = q

(* A step of anyone but an import only loses rows. *)
OnlyLoses ==
  \A i \in RowIds : Exists(i)' => Exists(i) /\ rows'[i].key = rows[i].key

(* A key an import brings back was neither deleted nor re-keyed from one   *)
(* that was.                                                               *)
LEMMA ImportLeavesDeleted ==
  ASSUME DeletesInv, NEW p \in Procs, CommitImport(p)
  PROVE  \A k \in HeldKeys' \ HeldKeys : {k, Former[k]} \cap deleted' = {}
<1> DEFINE r == req[p]
<1>1. PICK id \in [Created(r) -> RowIds] : Accepted(r, id) /\ rows' = Imported(r, id)
  BY DEF CommitImport
<1>2. /\ r.step = "write" /\ UniqueKeys(r.held)
      /\ r.held \in [RowIds -> Row \cup {NoRow}]
      /\ deleted' = deleted /\ deleted \subseteq Keys
      /\ \A k \in deleted \cap Wanted(r) :
           k \in r.gone \/ \E i \in RowIds : r.held[i].key = k /\ ~ Exists(i)
  BY DEF CommitImport, Serving, DeletesInv, Informed, IInv, TypeOK, Remembers, Request
<1> SUFFICES ASSUME NEW k \in HeldKeys' \ HeldKeys, NEW d \in {k, Former[k]}, d \in deleted
             PROVE  FALSE
  BY <1>2
<1>3. PICK j \in RowIds : rows'[j] # NoRow /\ rows'[j].key = k
  BY DEF HeldKeys, Exists
<1>4. d # NoKey
  BY <1>2, HighlightsAssumption
<1>5. k \in Written(r) => d \in Wanted(r) /\ d \notin r.gone
  BY <1>4 DEF Written, LeftDeleted, Wanted, FormerKeys
<1>6. ASSUME k \in Written(r)
      PROVE  \E i \in RowIds : i \in Under(r, d) /\ ~ Exists(i)
  BY <1>2, <1>4, <1>5, <1>6 DEF Under
<1>7. CASE \E c \in Created(r) : id[c] = j
  <2> DEFINE c == CHOOSE x \in Created(r) : id[x] = j
  <2>1. c \in Created(r)
    BY <1>7
  <2>2. rows'[j] = [key |-> c, book |-> r.book, text |-> r.marks[c], shared |-> FALSE]
    BY <1>1, <1>7 DEF Imported
  <2> HIDE DEF c
  <2>3. c = k
    BY <1>3, <2>2
  <2>4. k \in Written(r) /\ Under(r, k) = {} /\ Under(r, Former[k]) = {}
    BY <2>1, <2>3 DEF Created, FoundIn
  <2> QED BY <1>6, <2>4
<1>8. CASE ~ \E c \in Created(r) : id[c] = j
  <2>1. j \in Flushed(r) /\ j \notin Removed(r) /\ rows'[j] = Updated(r, j)
    <3>1. j \notin Removed(r)
      BY <1>1, <1>3, <1>8 DEF Imported
    <3>2. CASE j \notin Flushed(r)
      <4>1. rows'[j] = rows[j]
        BY <1>1, <1>8, <3>1, <3>2 DEF Imported
      <4> QED BY <1>3, <4>1 DEF HeldKeys, Exists
    <3> QED BY <1>1, <1>8, <3>1, <3>2 DEF Imported
  <2>2. Exists(j)
    BY <1>1, <2>1 DEF Accepted
  <2>3. Updated(r, j).key = IF Rekeyed(r, j) THEN MarkOf(r, j) ELSE rows[j].key
    BY DEF Updated
  <2>4. Rekeyed(r, j) /\ MarkOf(r, j) = k
    BY <1>3, <2>1, <2>2, <2>3 DEF HeldKeys
  <2>5. k \in Written(r) /\ j \in FoundIn(r, k)
    BY <2>1, <2>4 DEF Flushed, Found, MarkOf
  <2>6. Under(r, k) = {} /\ j \in Under(r, Former[k])
    BY <2>4, <2>5 DEF FoundIn, Under, Rekeyed
  <2>7. PICK i \in RowIds : i \in Under(r, d) /\ ~ Exists(i)
    BY <1>6, <2>5
  <2>8. d = Former[k]
    BY <2>6, <2>7
  <2>9. i = j
    BY <1>2, <1>4, <2>6, <2>7, <2>8, HighlightsAssumption DEF Under, UniqueKeys, NoRow
  <2> QED BY <2>2, <2>7, <2>9
<1> QED BY <1>7, <1>8

(* No other step brings a row back. *)
LEMMA OthersOnlyLose ==
  ASSUME IInv, Next, \A p \in Procs : ~ CommitImport(p) PROVE OnlyLoses
<1>0. PICK p \in Procs : \/ Import(p) \/ DeleteOwn(p) \/ Share(p)
                         \/ Purge(p) \/ Merge(p) \/ RollBack(p)
  BY DEF Next
<1>1. req[p] \in Request /\ rows \in [RowIds -> Row \cup {NoRow}]
  BY DEF IInv, TypeOK, Remembers
<1>2. ASSUME UNCHANGED rows PROVE OnlyLoses
  BY <1>2 DEF OnlyLoses, Exists
<1>3. ASSUME NEW R, rows' = Without(R) PROVE OnlyLoses
  BY <1>3 DEF OnlyLoses, Exists, Without
<1>4. CASE CommitShare(p)
  <2>1. PICK j \in req[p].ids : /\ MayShare(req[p], j)
                                /\ rows' = [rows EXCEPT ![j].shared = req[p].flag]
    BY <1>4 DEF CommitShare
  <2>2. j \in RowIds /\ rows[j].book = req[p].book /\ req[p].book \in Books
    BY <1>1, <1>4, <2>1 DEF Request, MayShare, CommitShare, Serving, IInv, Remembers
  <2>3. rows[j] \in Row
    BY <2>2, RowThere DEF IInv
  <2>4. Exists(j) /\ rows'[j].key = rows[j].key
    BY <1>1, <2>1, <2>2, <2>3, NoRowIsNoRow DEF Exists, Row
  <2>5. \A i \in RowIds \ {j} : rows'[i] = rows[i]
    BY <1>1, <2>1
  <2> QED BY <2>4, <2>5 DEF OnlyLoses, Exists
<1>5. CASE CommitMerge(p)
  <2> DEFINE r == req[p]
             left == RowsOn(r.book) \ r.ids
  <2>1. rows' = [i \in RowIds |-> IF i \in r.ids THEN Folded(r, i) ELSE Without(left)[i]]
    BY <1>5 DEF CommitMerge
  <2>2. \A i \in r.ids : i \in RowIds /\ Exists(i) /\ rows[i] \in Row
    BY <1>1, <1>5 DEF CommitMerge, Exists, Request
  <2>3. \A i \in r.ids : Folded(r, i).key = rows[i].key
    BY <2>2 DEF Folded, Row
  <2>4. \A i \in RowIds : i \notin r.ids => rows'[i] \in {NoRow, rows[i]}
    BY <2>1 DEF Without
  <2> QED BY <2>1, <2>2, <2>3, <2>4 DEF OnlyLoses, Exists
<1> QED
  BY <1>0, <1>2, <1>3, <1>4, <1>5
     DEF Import, DeleteOwn, Share, Purge, Merge, RollBack, tables, BeginImport, ReadTables,
         ImportIsBeaten, FindOwn, ReadWhetherKnown, CommitDelete, FindToShare, ReadToPurge,
         CommitPurge, ReadToMerge

LEMMA StepLeavesDeleted ==
  ASSUME DeletesInv, Next
  PROVE  \A k \in HeldKeys' \ HeldKeys : {k, Former[k]} \cap deleted' = {}
<1>1. CASE \E p \in Procs : CommitImport(p)
  BY <1>1, ImportLeavesDeleted
<1>2. CASE ~ \E p \in Procs : CommitImport(p)
  <2>1. OnlyLoses
    BY <1>2, OthersOnlyLose DEF DeletesInv
  <2>2. HeldKeys' \ HeldKeys = {}
    BY <2>1 DEF OnlyLoses, HeldKeys, Exists
  <2> QED BY <2>2
<1> QED BY <1>1, <1>2

(* What a step that only loses rows, and deletes the keys of rows it loses *)
(* alone, leaves of what an import knows.                                  *)
LEMMA LosingKeepsInformed ==
  ASSUME NEW r, Informed(r), OnlyLoses,
         remembered \subseteq remembered',
         \A k \in deleted' \ deleted : \E i \in RowIds : /\ Exists(i) /\ rows[i].key = k
                                                        /\ ~ Exists(i)'
  PROVE  /\ r.step \in {"rows", "keys", "write"} => r.kind = "import"
         /\ r.step \in {"keys", "write"} =>
              /\ UniqueKeys(r.held)
              /\ \A i \in RowIds :
                   Exists(i)' /\ rows'[i].key \in Wanted(r) => r.held[i].key = rows'[i].key
         /\ r.step = "write" =>
              \A k \in deleted' \cap Wanted(r) :
                k \in r.gone \/ \E i \in RowIds : r.held[i].key = k /\ ~ Exists(i)'
         /\ r.step = "delete" => r.gone \subseteq remembered'
<1>1. ASSUME r.step = "write", NEW k \in deleted' \cap Wanted(r), k \notin r.gone
      PROVE  \E i \in RowIds : r.held[i].key = k /\ ~ Exists(i)'
  <2>1. CASE k \in deleted
    <3>1. PICK i \in RowIds : r.held[i].key = k /\ ~ Exists(i)
      BY <1>1, <2>1 DEF Informed
    <3> QED BY <3>1 DEF OnlyLoses
  <2>2. CASE k \notin deleted
    <3>1. PICK i \in RowIds : Exists(i) /\ rows[i].key = k /\ ~ Exists(i)'
      BY <1>1, <2>2
    <3>2. r.held[i].key = k
      BY <1>1, <3>1 DEF Informed
    <3> QED BY <3>1, <3>2
  <2> QED BY <2>1, <2>2
<1>2. \A i \in RowIds : r.step \in {"keys", "write"} /\ Exists(i)'
                        /\ rows'[i].key \in Wanted(r) => r.held[i].key = rows'[i].key
  BY DEF Informed, OnlyLoses
<1> QED BY <1>1, <1>2 DEF Informed

(* A step that writes nothing keeps what the others know. *)
LEMMA ReadingKeepsDeletes ==
  ASSUME DeletesInv, IInv', NEW p \in Procs, NEW r, Informed(r),
         req' = [req EXCEPT ![p] = r], UNCHANGED tables,
         r.kind = "import" => \A q \in Procs \ {p} : req[q].kind # "import"
  PROVE  DeletesInv'
<1>1. \A q \in Procs : req'[q] = IF q = p THEN r ELSE req[q]
  BY DEF IInv, DeletesInv, TypeOK
<1>2. UNCHANGED <<rows, remembered, deleted>>
  BY DEF tables
<1>3. \A q \in Procs : Informed(req[q])'
  <2> TAKE q \in Procs
  <2>1. Informed(req'[q])
    BY <1>1 DEF DeletesInv
  <2> QED BY <1>2, <2>1 DEF Informed, Exists, Wanted, Carried, UniqueKeys
<1>4. \A q, s \in Procs : req'[q].kind = "import" /\ req'[s].kind = "import" => q = s
  BY <1>1 DEF DeletesInv
<1> QED BY <1>2, <1>3, <1>4 DEF DeletesInv

LEMMA IdleIsInformed == Informed(Idle)
BY IdleIsRequest DEF Informed

(* A commit that loses rows, and remembers every key it deletes. *)
LEMMA LosingKeepsDeletes ==
  ASSUME DeletesInv, IInv', NEW p \in Procs, Finish(p), OnlyLoses,
         remembered \subseteq remembered', deleted' \subseteq remembered',
         \A k \in deleted' \ deleted : \E i \in RowIds : /\ Exists(i) /\ rows[i].key = k
                                                        /\ ~ Exists(i)'
  PROVE  DeletesInv'
<1>1. \A q \in Procs : req'[q] = IF q = p THEN Idle ELSE req[q]
  BY DEF Finish, IInv, DeletesInv, TypeOK
<1>2. \A q \in Procs : Informed(req[q])'
  <2> TAKE q \in Procs
  <2>1. Informed(req'[q])
    BY <1>1, IdleIsInformed DEF DeletesInv
  <2> QED BY <2>1, LosingKeepsInformed DEF Informed, Exists, Wanted, Carried, UniqueKeys
<1>3. \A q, s \in Procs : req'[q].kind = "import" /\ req'[s].kind = "import" => q = s
  BY <1>1, IdleIsRequest DEF DeletesInv
<1> QED BY <1>2, <1>3 DEF DeletesInv

(* Nobody else imports while one import commits. *)
LEMMA ImportKeepsDeletes ==
  ASSUME DeletesInv, IInv', NEW p \in Procs, CommitImport(p) PROVE DeletesInv'
<1>1. \A q \in Procs : req'[q] = IF q = p THEN Idle ELSE req[q]
  BY DEF CommitImport, Finish, IInv, DeletesInv, TypeOK
<1>2. UNCHANGED <<remembered, deleted>>
  BY DEF CommitImport
<1>3. \A q \in Procs : req'[q].step \notin {"rows", "keys", "write"}
  BY <1>1, IdleIsRequest DEF CommitImport, Serving, DeletesInv, Informed
<1>4. \A q \in Procs : req'[q].step = "delete" => req'[q].gone \subseteq remembered
  BY <1>1, IdleIsRequest DEF DeletesInv, Informed
<1>5. \A q \in Procs : Informed(req[q])'
  BY <1>2, <1>3, <1>4 DEF Informed
<1>6. \A q, s \in Procs : req'[q].kind = "import" /\ req'[s].kind = "import" => q = s
  BY <1>1, IdleIsRequest DEF DeletesInv
<1> QED BY <1>2, <1>5, <1>6 DEF DeletesInv

LEMMA DeletesStep ==
  ASSUME {"import"} \in Apart
  PROVE  DeletesInv /\ IInv' /\ [Next]_vars => DeletesInv'
<1> SUFFICES ASSUME DeletesInv, IInv', [Next]_vars PROVE DeletesInv'
  OBVIOUS
<1>1. CASE UNCHANGED vars
  <2>1. UNCHANGED <<rows, remembered, deleted, req>>
    BY <1>1 DEF vars
  <2>2. ASSUME NEW q \in Procs PROVE Informed(req[q])'
    <3>1. Informed(req[q])
      BY DEF DeletesInv
    <3> QED BY <2>1, <3>1 DEF Informed, Exists, Wanted, Carried, UniqueKeys
  <2> QED BY <2>1, <2>2 DEF DeletesInv
<1>2. CASE Next
  <2>0. PICK p \in Procs : \/ Import(p) \/ DeleteOwn(p) \/ Share(p)
                           \/ Purge(p) \/ Merge(p) \/ RollBack(p)
    BY <1>2 DEF Next
  <2>1. req[p] \in Request /\ Informed(req[p]) /\ rows \in [RowIds -> Row \cup {NoRow}]
    BY DEF DeletesInv, IInv, TypeOK
  <2>2. ASSUME NEW r, Informed(r), req' = [req EXCEPT ![p] = r], UNCHANGED tables,
               \A q \in Procs : {r.kind, req[q].kind} \notin Apart
        PROVE  DeletesInv'
    <3>1. \A q \in Procs : req[q].kind = "import" => {"import", req[q].kind} = {"import"}
      OBVIOUS
    <3>2. r.kind = "import" => \A q \in Procs : req[q].kind # "import"
      BY <2>2, <3>1
    <3> QED BY <2>2, <3>2, ReadingKeepsDeletes
  <2>3. ASSUME NEW r, Informed(r), Advance(p, r), r.kind = req[p].kind, UNCHANGED tables
        PROVE  DeletesInv'
    <3>1. r.kind = "import" => \A q \in Procs \ {p} : req[q].kind # "import"
      BY <2>3 DEF DeletesInv
    <3> QED BY <2>3, <3>1, ReadingKeepsDeletes DEF Advance
  <2>4. ASSUME Finish(p), UNCHANGED tables PROVE DeletesInv'
    BY <2>4, IdleIsInformed, IdleIsRequest, ReadingKeepsDeletes DEF Finish
  <2>5. ASSUME Finish(p), \A q \in Procs : ~ CommitImport(q),
               UNCHANGED <<remembered, deleted>>
        PROVE  DeletesInv'
    BY <1>2, <2>5, OthersOnlyLose, LosingKeepsDeletes DEF DeletesInv
  <2>6. CASE \E q \in Procs : CommitImport(q)
    BY <2>6, ImportKeepsDeletes
  <2>7. CASE ~ \E q \in Procs : CommitImport(q)
    <3>1. ASSUME NEW b \in Books, NEW sent \in Sent, BeginImport(p, b, sent)
          PROVE  DeletesInv'
      <4> DEFINE r == [[Idle EXCEPT !.step = "rows", !.book = b, !.marks = sent.marks,
                                    !.removes = sent.removes] EXCEPT !.kind = "import"]
      <4>1. r.step = "rows" /\ r.kind = "import"
        BY IdleIsRequest DEF Request
      <4>2. req' = [req EXCEPT ![p] = r] /\ UNCHANGED tables
            /\ \A q \in Procs : {"import", req[q].kind} \notin Apart
        BY <3>1 DEF BeginImport, Start
      <4> HIDE DEF r
      <4> QED BY <2>2, <4>1, <4>2 DEF Informed
    <3>2. CASE ReadTables(p)
      <4> DEFINE r == [req[p] EXCEPT !.step = "keys",
                                     !.held = Load(RowsUnder(Wanted(req[p])))]
                 s == [req[p] EXCEPT !.step = "write",
                                     !.gone = remembered \cap Wanted(req[p])]
      <4>1. CASE Serving(p, "rows") /\ Advance(p, r)
        <5>1. /\ r.step = "keys" /\ r.kind = req[p].kind
              /\ r.held = Load(RowsUnder(Wanted(req[p]))) /\ r.marks = req[p].marks
          BY <2>1 DEF Request
        <5> HIDE DEF r
        <5>2. r.kind = "import" /\ Wanted(r) = Wanted(req[p])
          BY <2>1, <4>1, <5>1 DEF Serving, Informed, Wanted, Carried
        <5>3. UniqueKeys(r.held)
          BY <5>1 DEF Load, UniqueKeys, DeletesInv, IInv, TypeOK
        <5>4. \A i \in RowIds : Exists(i) /\ rows[i].key \in Wanted(r) =>
                                  r.held[i].key = rows[i].key
          BY <5>1, <5>2 DEF Load, RowsUnder
        <5>5. Informed(r)
          BY <5>1, <5>2, <5>3, <5>4 DEF Informed
        <5> QED BY <2>3, <3>2, <4>1, <5>1, <5>5 DEF ReadTables
      <4>2. CASE Serving(p, "keys") /\ Advance(p, s)
        <5>1. /\ s.step = "write" /\ s.kind = req[p].kind /\ s.held = req[p].held
              /\ s.gone = remembered \cap Wanted(req[p]) /\ s.marks = req[p].marks
          BY <2>1 DEF Request
        <5> HIDE DEF s
        <5>2. Wanted(s) = Wanted(req[p])
          BY <5>1 DEF Wanted, Carried
        <5>3. \A k \in deleted \cap Wanted(s) : k \in s.gone
          BY <5>1, <5>2 DEF DeletesInv
        <5>4. Informed(s)
          BY <2>1, <4>2, <5>1, <5>2, <5>3 DEF Informed, Serving
        <5> QED BY <2>3, <3>2, <4>2, <5>1, <5>4 DEF ReadTables
      <4> QED BY <3>2, <4>1, <4>2 DEF ReadTables
    <3>3. CASE ImportIsBeaten(p)
      <4> DEFINE r == [req[p] EXCEPT !.step = "rows", !.held = NothingLoaded,
                                     !.gone = {}, !.tries = @ + 1]
      <4>1. r.step = "rows" /\ r.kind = req[p].kind
        BY <2>1 DEF Request
      <4>2. Advance(p, r) \/ Finish(p)
        BY <3>3 DEF ImportIsBeaten
      <4>3. req[p].kind = "import" /\ UNCHANGED tables
        BY <2>1, <3>3 DEF ImportIsBeaten, Serving, Informed
      <4> HIDE DEF r
      <4> QED BY <2>3, <2>4, <4>1, <4>2, <4>3 DEF Informed
    <3>4. ASSUME NEW b \in Books, NEW i \in RowIds, FindOwn(p, b, i) PROVE DeletesInv'
      <4> DEFINE r == [[Idle EXCEPT !.step = "known", !.book = b, !.ids = {i},
                                    !.own = rows[i].key] EXCEPT !.kind = "delete"]
      <4>1. r.step = "known" /\ r.kind = "delete"
        BY IdleIsRequest DEF Request
      <4>2. req' = [req EXCEPT ![p] = r] /\ UNCHANGED tables
            /\ \A q \in Procs : {"delete", req[q].kind} \notin Apart
        BY <3>4 DEF FindOwn, Start
      <4> HIDE DEF r
      <4> QED BY <2>2, <4>1, <4>2 DEF Informed
    <3>5. CASE ReadWhetherKnown(p)
      <4> DEFINE r == [req[p] EXCEPT !.step = "delete",
                                     !.gone = remembered \cap {req[p].own}]
      <4>1. /\ r.step = "delete" /\ r.kind = req[p].kind
            /\ r.gone = remembered \cap {req[p].own}
        BY <2>1 DEF Request
      <4>2. Advance(p, r) /\ UNCHANGED tables
        BY <3>5 DEF ReadWhetherKnown
      <4> HIDE DEF r
      <4> QED BY <2>3, <4>1, <4>2 DEF Informed
    <3>6. CASE CommitDelete(p)
      <4>1. OnlyLoses
        BY <1>2, <2>7, OthersOnlyLose DEF DeletesInv
      <4>2. req[p].own \in Keys /\ req[p].ids \subseteq RowIds
            /\ req[p].gone \subseteq remembered
        BY <2>1, <3>6 DEF CommitDelete, Serving, DeletesInv, IInv, Remembers, Informed,
                          Request
      <4>3. /\ remembered' = remembered \cup ({req[p].own} \ req[p].gone)
            /\ deleted' = deleted \cup Taken(req[p])
            /\ rows' = Without(req[p].ids)
            /\ Finish(p)
        BY <3>6 DEF CommitDelete
      <4>4. deleted' \subseteq remembered'
        BY <4>2, <4>3 DEF Taken, DeletesInv
      <4>5. ASSUME NEW k \in deleted' \ deleted
            PROVE  \E i \in RowIds : Exists(i) /\ rows[i].key = k /\ ~ Exists(i)'
        <5>1. PICK i \in req[p].ids : rows[i].key = k
          BY <4>3 DEF Taken
        <5>2. k \in Keys
          BY <4>2, <4>3 DEF Taken
        <5>3. Exists(i)
          BY <5>1, <5>2, HighlightsAssumption DEF Exists, NoRow
        <5>4. ~ Exists(i)'
          BY <4>2, <4>3 DEF Without, Exists
        <5> QED BY <4>2, <5>1, <5>3, <5>4
      <4> QED BY <4>1, <4>3, <4>4, <4>5, LosingKeepsDeletes
    <3>7. ASSUME NEW b \in Books, NEW i \in RowIds, NEW flag \in BOOLEAN,
                 FindToShare(p, b, i, flag)
          PROVE  DeletesInv'
      <4> DEFINE r == [[Idle EXCEPT !.step = "share", !.book = b, !.ids = {i},
                                    !.flag = flag] EXCEPT !.kind = "share"]
      <4>1. r.step = "share" /\ r.kind = "share"
        BY IdleIsRequest DEF Request
      <4>2. req' = [req EXCEPT ![p] = r] /\ UNCHANGED tables
            /\ \A q \in Procs : {"share", req[q].kind} \notin Apart
        BY <3>7 DEF FindToShare, Start
      <4> HIDE DEF r
      <4> QED BY <2>2, <4>1, <4>2 DEF Informed
    <3>8. ASSUME NEW b \in Books, ReadToPurge(p, b) PROVE DeletesInv'
      <4> DEFINE r == [[Idle EXCEPT !.step = "purge", !.book = b,
                                    !.ids = RowsOn(b)] EXCEPT !.kind = "purge"]
      <4>1. r.step = "purge" /\ r.kind = "purge"
        BY IdleIsRequest DEF Request
      <4>2. req' = [req EXCEPT ![p] = r] /\ UNCHANGED tables
            /\ \A q \in Procs : {"purge", req[q].kind} \notin Apart
        BY <3>8 DEF ReadToPurge, Start
      <4> HIDE DEF r
      <4> QED BY <2>2, <4>1, <4>2 DEF Informed
    <3>9. ASSUME NEW b \in Books, NEW keep \in Books, ReadToMerge(p, b, keep)
          PROVE  DeletesInv'
      <4> DEFINE r == [[Idle EXCEPT !.step = "merge", !.book = b, !.keep = keep,
                                    !.ids = RowsOn(b), !.wasShared = Shared(RowsOn(b))]
                       EXCEPT !.kind = "merge"]
      <4>1. r.step = "merge" /\ r.kind = "merge"
        BY IdleIsRequest DEF Request
      <4>2. req' = [req EXCEPT ![p] = r] /\ UNCHANGED tables
            /\ \A q \in Procs : {"merge", req[q].kind} \notin Apart
        BY <3>9 DEF ReadToMerge, Start
      <4> HIDE DEF r
      <4> QED BY <2>2, <4>1, <4>2 DEF Informed
    <3>10. CASE CommitShare(p) \/ CommitPurge(p) \/ CommitMerge(p)
      BY <2>5, <2>7, <3>10 DEF CommitShare, CommitPurge, CommitMerge
    <3>11. CASE RollBack(p)
      BY <2>4, <3>11 DEF RollBack
    <3> QED
      BY <2>0, <2>7, <3>1, <3>2, <3>3, <3>4, <3>5, <3>6, <3>7, <3>8, <3>9, <3>10, <3>11
         DEF Import, DeleteOwn, Share, Purge, Merge
  <2> QED BY <2>6, <2>7
<1> QED BY <1>1, <1>2

LEMMA InitDeletes == Init => DeletesInv
<1> SUFFICES ASSUME Init PROVE DeletesInv
  OBVIOUS
<1>1. \A p \in Procs : req[p] = Idle
  BY DEF Init
<1> QED BY <1>1, InitInv, IdleIsInformed, IdleIsRequest DEF Init, DeletesInv

(* Where imports do not overlap, a mark its member deleted here does not   *)
(* come back with any import, under its key or under a key it was given    *)
(* since, whatever deletes, shares, purges and merges run beside them.     *)
THEOREM DeletedStaysDeletedHolds ==
  ASSUME {"import"} \in Apart
  PROVE  Spec => DeletedStaysDeleted
<1>1. DeletesInv /\ IInv' /\ [Next]_vars => DeletesInv'
  BY DeletesStep
<1>2. DeletesInv /\ [Next]_vars =>
        [\A k \in HeldKeys' \ HeldKeys : {k, Former[k]} \cap deleted' = {}]_vars
  BY StepLeavesDeleted
<1> QED BY Inductive, <1>1, <1>2, InitDeletes, PTL DEF Spec, DeletedStaysDeleted
=============================================================================
