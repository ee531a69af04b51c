----------------------------- MODULE Highlights -----------------------------
(***************************************************************************)
(* The highlight ledger of the Endpaper backend: how imports, hand         *)
(* deletes, shares, merges and purges write the highlight rows of one      *)
(* member, each a request in a thread and a session of its own.            *)
(*                                                                         *)
(* A row is one mark, found by the key its source gave it.  An import      *)
(* looks up the rows of its marks, then the keys the member deleted here,  *)
(* and writes what changed in one commit.  highlights.settled runs the     *)
(* three again when the commit is refused, because an UPDATE found its row *)
(* gone or an INSERT met a key or a missing Book.                          *)
(*                                                                         *)
(* Left out: note, page, chapter and time of a mark, which are written as  *)
(* its text is; which Books the member may read; other members, whose rows *)
(* no request of this member finds.                                        *)
(***************************************************************************)
EXTENDS Naturals, FiniteSets

CONSTANTS
  Books,
  Keys,       \* keys of the marks the member's sources hold
  Former,     \* the key a mark had before its source re-keyed it, or NoKey
  Sent,       \* what one import may carry: marks, and deletions to report
  Short,      \* passages within QUOTE_TEXT_MAX
  Long,       \* passages past it
  Procs,      \* the requests that may be in flight at once
  Apart,      \* sets of kinds of request that never overlap
  Attempts,   \* how often settled runs one unit
  MaxRow,     \* bound on row ids
  MaxDeleted, \* bound on the marks deleted by hand
  NoBook, NoKey, NoText

Kinds == {"import", "delete", "share", "purge", "merge"}
Texts == Short \cup Long

ASSUME HighlightsAssumption ==
  /\ Former \in [Keys -> Keys \cup {NoKey}]
  /\ \A sent \in Sent :
       /\ sent.marks \in [Keys -> Texts \cup {NoText}]
       /\ sent.removes \subseteq Keys
       /\ \A k \in Keys : sent.marks[k] # NoText =>
            /\ k \notin sent.removes
            /\ Former[k] # NoKey => sent.marks[Former[k]] = NoText
  /\ Short \cap Long = {}
  /\ Apart \subseteq SUBSET Kinds
  /\ Attempts \in Nat \ {0}
  /\ MaxRow \in Nat
  /\ MaxDeleted \in Nat
  /\ NoBook \notin Books /\ NoKey \notin Keys /\ NoText \notin Texts

VARIABLES
  there,      \* the Books not deleted for good
  rows,       \* [RowIds -> the highlight row, NoRow if there is none]
  remembered, \* the keys in deleted_highlights
  deleted,    \* history: the keys of the rows hand deletes took
  req         \* [Procs -> the request being served]

tables == <<there, rows, remembered, deleted>>
vars == <<there, rows, remembered, deleted, req>>

RowIds == 1 .. MaxRow
Row == [key : Keys, book : Books, text : Texts, shared : BOOLEAN]
NoRow == [key |-> NoKey, book |-> NoBook, text |-> NoText, shared |-> FALSE]

Exists(r) == rows[r] # NoRow
RowsOn(b) == {r \in RowIds : rows[r].book = b}
HeldKeys == {rows[r].key : r \in {i \in RowIds : Exists(i)}}

----------------------------------------------------------------------------
(* Requests *)

(* `marks` gives the text of each mark an import carries, `removes` the    *)
(* deletions it reports, `held` the rows it loaded, `gone` the deleted     *)
(* keys it read, `tries` how often its commit was refused.  The others     *)
(* keep of the rows they loaded the ids, the one key (`own`), and which    *)
(* were shared.                                                            *)
Request ==
  [kind : Kinds \cup {"none"},
   step : {"idle", "rows", "keys", "write", "known", "delete", "share",
           "purge", "merge"},
   book : Books \cup {NoBook}, keep : Books \cup {NoBook},
   marks : [Keys -> Texts \cup {NoText}], removes : SUBSET Keys,
   held : [RowIds -> Row \cup {NoRow}], gone : SUBSET Keys,
   ids : SUBSET RowIds, own : Keys \cup {NoKey}, wasShared : SUBSET RowIds,
   flag : BOOLEAN, tries : 0 .. Attempts - 1]

NothingLoaded == [r \in RowIds |-> NoRow]

Idle == [kind |-> "none", step |-> "idle", book |-> NoBook, keep |-> NoBook,
         marks |-> [k \in Keys |-> NoText], removes |-> {},
         held |-> NothingLoaded, gone |-> {}, ids |-> {}, own |-> NoKey,
         wasShared |-> {}, flag |-> FALSE, tries |-> 0]

Serving(p, step) == req[p].step = step
Load(R) == [r \in RowIds |-> IF r \in R THEN rows[r] ELSE NoRow]
Shared(R) == {i \in R : rows[i].shared}
Without(R) == [i \in RowIds |-> IF i \in R THEN NoRow ELSE rows[i]]

Start(p, kind, r) ==
  /\ Serving(p, "idle")
  /\ \A q \in Procs : {kind, req[q].kind} \notin Apart
  /\ req' = [req EXCEPT ![p] = [r EXCEPT !.kind = kind]]
Advance(p, r) == req' = [req EXCEPT ![p] = r]
Finish(p) == req' = [req EXCEPT ![p] = Idle]

----------------------------------------------------------------------------
(* import_koreader and one page of a Readwise pull *)

Carried(r) == {k \in Keys : r.marks[k] # NoText}
FormerKeys(K) == {Former[k] : k \in K} \ {NoKey}

BeginImport(p, b, sent) ==
  /\ b \in there
  /\ Start(p, "import", [Idle EXCEPT !.step = "rows", !.book = b,
                                     !.marks = sent.marks, !.removes = sent.removes])
  /\ UNCHANGED tables

Wanted(r) == Carried(r) \cup FormerKeys(Carried(r))
RowsUnder(K) == {i \in RowIds : rows[i].key \in K}

(* As ReadTables with the two reads swapped. *)
ReadTables_KeysFirst(p) ==
  /\ \/ /\ Serving(p, "rows")
        /\ Advance(p, [req[p] EXCEPT !.step = "keys",
                                     !.gone = remembered \cap Wanted(req[p])])
     \/ /\ Serving(p, "keys")
        /\ Advance(p, [req[p] EXCEPT !.step = "write",
                                     !.held = Load(RowsUnder(Wanted(req[p])))])
  /\ UNCHANGED tables

(* highlights.write reads the rows, and then the deleted keys. *)
ReadTables(p) ==
  /\ \/ /\ Serving(p, "rows")
        /\ Advance(p, [req[p] EXCEPT !.step = "keys",
                                     !.held = Load(RowsUnder(Wanted(req[p])))])
     \/ /\ Serving(p, "keys")
        /\ Advance(p, [req[p] EXCEPT !.step = "write",
                                     !.gone = remembered \cap Wanted(req[p])])
  /\ UNCHANGED tables

(* The marks an import writes, and the row each is found in: under its     *)
(* key, else under its former key.                                         *)
LeftDeleted(r, k) == k \in r.gone \/ Former[k] \in r.gone
Written(r) == {k \in Carried(r) : ~ LeftDeleted(r, k)}
Under(r, k) == {i \in RowIds : k # NoKey /\ r.held[i].key = k}
FoundIn(r, k) == IF Under(r, k) # {} THEN Under(r, k) ELSE Under(r, Former[k])
Found(r) == UNION {FoundIn(r, k) : k \in Written(r)}
MarkOf(r, i) == CHOOSE k \in Written(r) : i \in FoundIn(r, k)
Created(r) == {k \in Written(r) : FoundIn(r, k) = {}}

Rekeyed(r, i) == r.held[i].key # MarkOf(r, i)
Differs(r, i) ==
  \/ r.held[i].book # r.book
  \/ r.held[i].text # r.marks[MarkOf(r, i)]
MadePrivate(r, i) ==
  /\ r.held[i].book # r.book \/ r.marks[MarkOf(r, i)] \in Long
  /\ Differs(r, i) \/ r.held[i].shared
Flushed(r) == {i \in Found(r) : Rekeyed(r, i) \/ Differs(r, i) \/ MadePrivate(r, i)}

(* As Updated without the statement that clears the share whatever the row *)
(* said when it was loaded: the flush writes only what differs from that.  *)
Updated_ByFlush(r, i) ==
  [key    |-> IF Rekeyed(r, i) THEN MarkOf(r, i) ELSE rows[i].key,
   book   |-> IF r.held[i].book # r.book THEN r.book ELSE rows[i].book,
   text   |-> IF r.held[i].text # r.marks[MarkOf(r, i)]
                THEN r.marks[MarkOf(r, i)] ELSE rows[i].text,
   shared |-> rows[i].shared /\ ~ (MadePrivate(r, i) /\ r.held[i].shared)]

(* The flush writes the columns that differ from the row as loaded; the    *)
(* share is cleared by a statement of its own.                             *)
Updated(r, i) ==
  [key    |-> IF Rekeyed(r, i) THEN MarkOf(r, i) ELSE rows[i].key,
   book   |-> IF r.held[i].book # r.book THEN r.book ELSE rows[i].book,
   text   |-> IF r.held[i].text # r.marks[MarkOf(r, i)]
                THEN r.marks[MarkOf(r, i)] ELSE rows[i].text,
   shared |-> rows[i].shared /\ ~ MadePrivate(r, i)]

Removed(r) == {i \in RowIds : rows[i].key \in r.removes}

(* SQLite gives an insert one more than the largest id there is.           *)
Top(R) == CHOOSE n \in 0 .. MaxRow :
            (\A i \in R : i <= n) /\ (n # 0 => n \in R)
NewIds(r) ==
  LET kept == {i \in RowIds : Exists(i)} \ Removed(r) IN
  Top(kept) + 1 .. Top(kept) + Cardinality(Created(r))

UniqueKeys(table) ==
  \A i, j \in RowIds :
    table[i] # NoRow /\ table[j] # NoRow /\ table[i].key = table[j].key => i = j

(* The rows after an import's statements, its new rows under the ids `id`. *)
Imported(r, id) ==
  [i \in RowIds |->
     IF \E k \in Created(r) : id[k] = i
       THEN LET k == CHOOSE c \in Created(r) : id[c] = i IN
            [key |-> k, book |-> r.book, text |-> r.marks[k], shared |-> FALSE]
     ELSE IF i \in Removed(r) THEN NoRow
     ELSE IF i \in Flushed(r) THEN Updated(r, i)
     ELSE rows[i]]

(* As Accepted with SQLite's default, foreign_keys off. *)
Accepted_NoForeignKeys(r, id) ==
  /\ \A i \in Flushed(r) : Exists(i) /\ i \notin Removed(r)
  /\ UniqueKeys(Imported(r, id))

(* What the database does not refuse: every row flushed is still there, no *)
(* key is taken twice, and the Book of a new or moved row is there.        *)
Accepted(r, id) ==
  LET new == Imported(r, id) IN
  /\ \A i \in Flushed(r) : Exists(i) /\ i \notin Removed(r)
  /\ UniqueKeys(new)
  /\ \A i \in RowIds : new[i] \notin {rows[i], NoRow} => new[i].book \in there

CommitImport(p) ==
  LET r == req[p] IN
  /\ Serving(p, "write")
  /\ \E id \in [Created(r) -> RowIds] :
       /\ {id[k] : k \in Created(r)} = NewIds(r)
       /\ Accepted(r, id)
       /\ rows' = Imported(r, id)
  /\ Finish(p)
  /\ UNCHANGED <<there, remembered, deleted>>

(* As MayRetry with one run too many. *)
MayRetry_OnceMore(r) == r.tries < Attempts

MayRetry(r) == r.tries + 1 < Attempts

(* settled: the unit is run again, until it has been refused Attempts      *)
(* times and the error is the answer.                                      *)
ImportIsBeaten(p) ==
  LET r == req[p] IN
  /\ Serving(p, "write")
  /\ \A id \in [Created(r) -> RowIds] :
       {id[k] : k \in Created(r)} = NewIds(r) => ~ Accepted(r, id)
  /\ NewIds(r) \subseteq RowIds
  /\ IF MayRetry(r)
       THEN Advance(p, [r EXCEPT !.step = "rows", !.held = NothingLoaded,
                                 !.gone = {}, !.tries = @ + 1])
       ELSE Finish(p)
  /\ UNCHANGED tables

----------------------------------------------------------------------------
(* delete_own *)

FindOwn(p, b, i) ==
  /\ Cardinality(remembered) < MaxDeleted
  /\ b \in there
  /\ rows[i].book = b
  /\ Start(p, "delete", [Idle EXCEPT !.step = "known", !.book = b, !.ids = {i},
                                     !.own = rows[i].key])
  /\ UNCHANGED tables

(* The key of the row a delete is about to take, if the row still holds    *)
(* the mark under the key it loaded.                                       *)
Taken(r) == {rows[i].key : i \in r.ids} \cap {r.own}

ReadWhetherKnown(p) ==
  /\ Serving(p, "known")
  /\ Advance(p, [req[p] EXCEPT !.step = "delete", !.gone = remembered \cap {req[p].own}])
  /\ UNCHANGED tables

(* The key goes in first, so a second delete of the row is refused by the  *)
(* index on it and finds nothing; the row is deleted by its id.            *)
CommitDelete(p) ==
  LET new == {req[p].own} \ req[p].gone IN
  /\ Serving(p, "delete")
  /\ new \cap remembered = {}
  /\ remembered' = remembered \cup new
  /\ deleted' = deleted \cup Taken(req[p])
  /\ rows' = Without(req[p].ids)
  /\ Finish(p)
  /\ UNCHANGED there

----------------------------------------------------------------------------
(* set_highlight_sharing *)

FindToShare(p, b, i, flag) ==
  /\ b \in there
  /\ rows[i].book = b
  /\ Start(p, "share", [Idle EXCEPT !.step = "share", !.book = b, !.ids = {i},
                                    !.flag = flag])
  /\ UNCHANGED tables

(* The row is still on the Book, and a passage past the ceiling is rolled  *)
(* back, judged as the write found it.                                     *)
MayShare(r, i) == rows[i].book = r.book /\ (r.flag => rows[i].text \in Short)

CommitShare(p) ==
  /\ Serving(p, "share")
  /\ \E i \in req[p].ids :
       /\ MayShare(req[p], i)
       /\ rows' = [rows EXCEPT ![i].shared = req[p].flag]
  /\ Finish(p)
  /\ UNCHANGED <<there, remembered, deleted>>

----------------------------------------------------------------------------
(* A purge of a Book, and a merge of one Book into another *)

ReadToPurge(p, b) ==
  /\ b \in there
  /\ Start(p, "purge", [Idle EXCEPT !.step = "purge", !.book = b, !.ids = RowsOn(b)])
  /\ UNCHANGED tables

(* The cascade deletes the rows it loaded by their ids, and a row inserted *)
(* since keeps the Book there.                                             *)
CommitPurge(p) ==
  /\ Serving(p, "purge")
  /\ RowsOn(req[p].book) \subseteq req[p].ids
  /\ there' = there \ {req[p].book}
  /\ rows' = Without(req[p].ids)
  /\ Finish(p)
  /\ UNCHANGED <<remembered, deleted>>

(* _carry_highlights loads the loser's rows. *)
ReadToMerge(p, b, keep) ==
  /\ {b, keep} \subseteq there /\ b # keep
  /\ Start(p, "merge", [Idle EXCEPT !.step = "merge", !.book = b, !.keep = keep,
                                    !.ids = RowsOn(b), !.wasShared = Shared(RowsOn(b))])
  /\ UNCHANGED tables

(* The flush writes the Book, and the share only if it was loaded shared.  *)
Folded(r, i) == [rows[i] EXCEPT !.book = r.keep, !.shared = @ /\ i \notin r.wasShared]

(* Then the loser is deleted, with the rows on it that were not carried.   *)
CommitMerge(p) ==
  LET r == req[p]
      left == RowsOn(r.book) \ r.ids IN
  /\ Serving(p, "merge")
  /\ \A i \in r.ids : Exists(i)
  /\ r.book \in there
  /\ r.keep \in there \/ r.ids = {}
  /\ there' = there \ {r.book}
  /\ rows' = [i \in RowIds |-> IF i \in r.ids THEN Folded(r, i) ELSE Without(left)[i]]
  /\ Finish(p)
  /\ UNCHANGED <<remembered, deleted>>

(* A request refused at its commit, or that dies with its process.         *)
RollBack(p) ==
  /\ ~ Serving(p, "idle")
  /\ Finish(p)
  /\ UNCHANGED tables

----------------------------------------------------------------------------
Init ==
  /\ there = Books
  /\ rows = [i \in RowIds |-> NoRow]
  /\ remembered = {}
  /\ deleted = {}
  /\ req = [p \in Procs |-> Idle]

Import(p) ==
  \/ \E b \in Books, sent \in Sent : BeginImport(p, b, sent)
  \/ ReadTables(p)
  \/ CommitImport(p)
  \/ ImportIsBeaten(p)

DeleteOwn(p) ==
  \/ \E b \in Books, i \in RowIds : FindOwn(p, b, i)
  \/ ReadWhetherKnown(p)
  \/ CommitDelete(p)

Share(p) ==
  \/ \E b \in Books, i \in RowIds, flag \in BOOLEAN : FindToShare(p, b, i, flag)
  \/ CommitShare(p)

Purge(p) == (\E b \in Books : ReadToPurge(p, b)) \/ CommitPurge(p)

Merge(p) == (\E b, keep \in Books : ReadToMerge(p, b, keep)) \/ CommitMerge(p)

Next == \E p \in Procs : \/ Import(p) \/ DeleteOwn(p) \/ Share(p)
                         \/ Purge(p) \/ Merge(p) \/ RollBack(p)

Spec == Init /\ [][Next]_vars

----------------------------------------------------------------------------
(* Row ids, keys, texts and requests stay in their sets, and one key is in *)
(* one row: uq_highlights_member_source_key.                               *)
TypeOK ==
  /\ there \subseteq Books
  /\ rows \in [RowIds -> Row \cup {NoRow}]
  /\ UniqueKeys(rows)
  /\ remembered \subseteq Keys
  /\ deleted \subseteq Keys
  /\ req \in [Procs -> Request]

(* highlights.py, "A member deletes their own highlight here, by hand":    *)
(* whatever an import read before the delete, no row comes to be held      *)
(* under a key the member deleted, nor under one whose former key they     *)
(* deleted.                                                                *)
DeletedStaysDeleted ==
  [][ \A k \in HeldKeys' \ HeldKeys : {k, Former[k]} \cap deleted' = {} ]_vars

(* models.Highlight.is_shared: whoever reads the Book reads a shared row,  *)
(* so a row comes to be shared on a Book only by its author's request,     *)
(* which named that Book, and a shared passage is within the ceiling,      *)
(* however imports, shares and merges interleave.                          *)
AuthorShares(i, b) == \E p \in Procs : /\ CommitShare(p)
                                       /\ i \in req[p].ids /\ req[p].book = b
ShareIsChosen ==
  \A i \in RowIds :
    rows'[i].shared =>
      /\ rows'[i].text \in Short
      /\ \/ rows[i].shared /\ rows[i].book = rows'[i].book
         \/ AuthorShares(i, rows'[i].book)
SharedWhereChosen == [][ShareIsChosen]_vars

(* No highlight outlives its Book, whatever was imported or moved onto it  *)
(* while it was being deleted.                                             *)
HighlightsHaveBooks == \A i \in RowIds : Exists(i) => rows[i].book \in there
=============================================================================
