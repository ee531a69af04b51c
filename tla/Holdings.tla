------------------------------ MODULE Holdings ------------------------------
(***************************************************************************)
(* Which rows of books may hold one ISBN, and which rows are copies of     *)
(* each other.                                                             *)
(*                                                                         *)
(* An ISBN is unique among the rows that carry no copy group.  The add     *)
(* door and the imports ask first which Book a record already is; a copy   *)
(* is made on purpose and joins its original's group; a purge or a merge   *)
(* takes rows away and frees the last copy of a group from it.  The trash  *)
(* keeps a row's claim on its ISBN.                                        *)
(*                                                                         *)
(* A request reads, then writes and commits in one transaction: from its   *)
(* first write no other request writes.  A row's id is never given again.  *)
(* Identifiers other than the ISBN, titles, and what a Book carries beside *)
(* its ISBN are left out.                                                  *)
(***************************************************************************)
EXTENDS Naturals, FiniteSets, FiniteSetsExt

CONSTANTS
  Rows,         \* ids a Book may be given
  Isbns, NoIsbn, NoGroup,
  Members, Requests,
  Reshaping,    \* the requests that do more than trash a Book
  Absorbing,    \* whether a merge may keep a Book without an ISBN
  Absent

HoldingsAssumption ==
  /\ Reshaping \subseteq Requests /\ Absorbing \in BOOLEAN
  /\ NoIsbn \notin Isbns /\ NoGroup \notin Rows /\ IsFiniteSet(Rows) /\ Rows \subseteq Nat

VARIABLES
  books,    \* [Rows -> the Book, or Absent]
  used,     \* the ids given so far
  req       \* [Requests -> the request in flight]

vars == <<books, used, req>>

Idle == [kind |-> "idle", by |-> Absent, isbn |-> NoIsbn,
         rows |-> {}, groups |-> {}, book |-> Absent]
Kinds == {"idle", "add", "copy", "import", "trash", "restore", "private", "purge", "merge"}

Present == {x \in Rows : books[x] # Absent}
Of(x) == books[x]

(* The database counts up. *)
NextRow == {x \in Rows \ used : \A y \in Rows \ used : x <= y}

----------------------------------------------------------------------------
(* Who sees what, and recognition *)

Mine(m, x) == ~ Of(x).private \/ Of(x).owner = m
Seen(m) == {x \in Present : ~ Of(x).trashed /\ Mine(m, x)}
Trash(m) == {x \in Present : Of(x).trashed /\ Mine(m, x)}
Holders(isbn) == {x \in Present : isbn # NoIsbn /\ Of(x).isbn = isbn}

(* recognition.Index.recognise, by ISBN: the table is asked past the       *)
(* member's shelf, for the number is unique there.                         *)
Unknown(m, isbn) == Holders(isbn) = {}
InTrash(m, isbn) == Holders(isbn) # {} /\ Holders(isbn) \subseteq Trash(m)

PurgeableBy(m, x) == Of(x).owner = m

(* uq_books_isbn_single_copy *)
Unique(b) ==
  \A x, y \in Rows :
    x # y /\ b[x] # Absent /\ b[y] # Absent /\ b[x].group = NoGroup /\ b[y].group = NoGroup =>
      b[x].isbn # b[y].isbn \/ b[x].isbn = NoIsbn

----------------------------------------------------------------------------
(* Groups *)

InGroup(b, token) == {x \in Rows : b[x] # Absent /\ b[x].group = token}

(* _normalise_copy_group: the last row of a group is a Book like any       *)
(* other, unless another such Book holds its ISBN.                         *)
Normalised(token, b) ==
  LET left == InGroup(b, token)
      clash == \E x \in left, y \in Rows :
                 b[y] # Absent /\ b[y].group = NoGroup /\ b[y].isbn = b[x].isbn /\ b[x].isbn # NoIsbn
  IN IF Cardinality(left) # 1 \/ clash THEN b
     ELSE [x \in Rows |-> IF x \in left THEN [b[x] EXCEPT !.group = NoGroup] ELSE b[x]]

(* _purge of each: the groups are those read with the rows. *)
Purged(b, rows, groups) ==
  FoldSet(Normalised, [x \in Rows |-> IF x \in rows THEN Absent ELSE b[x]], groups)

GroupsOf(rows) == {Of(x).group : x \in rows} \ {NoGroup}

----------------------------------------------------------------------------
(* Requests *)

Begin(r, rec) ==
  /\ req[r] = Idle
  /\ req' = [req EXCEPT ![r] = rec]
  /\ UNCHANGED <<books, used>>

(* The transaction commits, or the database refuses it. *)
Commit(r, b) ==
  /\ Unique(b)
  /\ books' = b
  /\ req' = [req EXCEPT ![r] = Idle]

(* A constraint refuses the write, a row it updates is gone, or it dies. *)
Refused(r) ==
  /\ req[r] # Idle
  /\ req' = [req EXCEPT ![r] = Idle]
  /\ UNCHANGED <<books, used>>

NewBook(q, isbn, group, private) ==
  [isbn |-> isbn, group |-> group, trashed |-> FALSE, private |-> private, owner |-> q.by]

(* The ISBN is free, or is freed by purging what this member trashed.      *)
MayFree(m, isbn) ==
  Unknown(m, isbn) \/ (InTrash(m, isbn) /\ \A x \in Holders(isbn) : PurgeableBy(m, x))

(* _create_book *)
ReadToAdd(r, m, isbn) ==
  /\ MayFree(m, isbn)
  /\ Begin(r, [Idle EXCEPT !.kind = "add", !.by = m, !.isbn = isbn,
                           !.rows = Holders(isbn), !.groups = GroupsOf(Holders(isbn))])

(* An import of a reading history or a catalogue: what is in the trash is  *)
(* reported and left there.                                                *)
ReadToImport(r, m, isbn) ==
  /\ Unknown(m, isbn)
  /\ Begin(r, [Idle EXCEPT !.kind = "import", !.by = m, !.isbn = isbn])

(* The door may take private with the payload; an import may not. *)
CommitCreate(r) ==
  /\ req[r].kind \in {"add", "import"}
  /\ \E x \in NextRow, private \in BOOLEAN :
       /\ private => req[r].kind = "add"
       /\ Commit(r, [Purged(books, req[r].rows, req[r].groups)
                       EXCEPT ![x] = NewBook(req[r], req[r].isbn, NoGroup, private)])
       /\ used' = used \cup {x}

(* add_copy: the group of the original, if it had one when it was read. *)
ReadToCopy(r, m, x) ==
  /\ x \in Seen(m)
  /\ Begin(r, [Idle EXCEPT !.kind = "copy", !.by = m, !.book = x, !.isbn = Of(x).isbn,
                           !.groups = GroupsOf({x}), !.rows = IF Of(x).private THEN {x} ELSE {}])

(* A new token is written on both rows; without one only the copy is new.  *)
CommitCopy(r) ==
  /\ req[r].kind = "copy"
  /\ \E x \in NextRow :
       LET q == req[r]
           token == IF q.groups = {} THEN x ELSE CHOOSE g \in q.groups : TRUE
           copied == [books EXCEPT ![x] = NewBook(q, q.isbn, token, q.rows # {})]
       IN /\ IF q.groups # {} THEN Commit(r, copied)
             ELSE Of(q.book) # Absent /\ Commit(r, [copied EXCEPT ![q.book].group = token])
          /\ used' = used \cup {x}

(* delete_book, restore_book and set_privacy: one column of one row. *)
ReadToMark(r, m, kind, x) ==
  /\ CASE kind = "trash" -> x \in Seen(m)
       [] kind = "restore" -> x \in Trash(m)
       [] kind = "private" -> x \in Seen(m) /\ Of(x).owner = m
  /\ Begin(r, [Idle EXCEPT !.kind = kind, !.book = x])

CommitMark(r) ==
  LET x == req[r].book
  IN /\ req[r].kind \in {"trash", "restore", "private"} /\ Of(x) # Absent
     /\ Commit(r, CASE req[r].kind = "trash" -> [books EXCEPT ![x].trashed = TRUE]
                    [] req[r].kind = "restore" -> [books EXCEPT ![x].trashed = FALSE]
                    [] req[r].kind = "private" -> [books EXCEPT ![x].private = ~ @])
     /\ UNCHANGED used

(* purge_book of one row, empty_trash of all that are this member's. *)
ReadToPurge(r, m, rows) ==
  /\ rows # {} /\ \A x \in rows : x \in Trash(m) /\ PurgeableBy(m, x)
  /\ Begin(r, [Idle EXCEPT !.kind = "purge", !.by = m, !.rows = rows, !.groups = GroupsOf(rows)])

CommitPurge(r) ==
  /\ req[r].kind = "purge"
  /\ Commit(r, Purged(books, req[r].rows, req[r].groups))
  /\ UNCHANGED used

(* merge_books, of one loser: folding.fold hands its ISBN to a keeper      *)
(* that has none.                                                          *)
ReadToMerge(r, m, keep, loser) ==
  /\ keep # loser /\ {keep, loser} \subseteq Seen(m) /\ Of(loser).owner = m
  /\ Of(keep).isbn = NoIsbn => Absorbing
  /\ Begin(r, [Idle EXCEPT !.kind = "merge", !.by = m, !.book = keep, !.rows = {loser},
                           !.groups = GroupsOf({loser}),
                           !.isbn = IF Of(keep).isbn = NoIsbn THEN Of(loser).isbn ELSE NoIsbn])

CommitMerge(r) ==
  /\ req[r].kind = "merge" /\ Of(req[r].book) # Absent
  /\ LET q == req[r]
         kept == IF q.isbn = NoIsbn THEN books ELSE [books EXCEPT ![q.book].isbn = q.isbn]
     IN Commit(r, Purged(kept, q.rows, q.groups))
  /\ UNCHANGED used

----------------------------------------------------------------------------
Init ==
  /\ books = [x \in Rows |-> Absent] /\ used = {}
  /\ req = [r \in Requests |-> Idle]

Reshape(r, m) ==
  /\ r \in Reshaping /\ req[r] = Idle
  /\ \/ \E isbn \in Isbns \cup {NoIsbn} : ReadToAdd(r, m, isbn) \/ ReadToImport(r, m, isbn)
     \/ \E x \in Rows : ReadToCopy(r, m, x) \/ ReadToMark(r, m, "restore", x) \/ ReadToMark(r, m, "private", x)
     \/ \E rows \in {{x} : x \in Rows} \cup {{x \in Trash(m) : PurgeableBy(m, x)}} : ReadToPurge(r, m, rows)
     \/ \E keep, loser \in Rows : ReadToMerge(r, m, keep, loser)

Next ==
  \E r \in Requests :
    \/ \E m \in Members : Reshape(r, m) \/ \E x \in Rows : ReadToMark(r, m, "trash", x)
    \/ CommitCreate(r) \/ CommitCopy(r) \/ CommitMark(r) \/ CommitPurge(r) \/ CommitMerge(r)
    \/ Refused(r)

Spec == Init /\ [][Next]_vars

----------------------------------------------------------------------------
(* Properties *)

TypeOK ==
  /\ \A x \in Present : /\ Of(x).isbn \in Isbns \cup {NoIsbn} /\ Of(x).group \in Rows \cup {NoGroup}
                        /\ Of(x).owner \in Members /\ {Of(x).trashed, Of(x).private} \subseteq BOOLEAN
  /\ Present \subseteq used /\ used \subseteq Rows
  /\ \A r \in Requests : /\ req[r].kind \in Kinds /\ req[r].rows \subseteq Rows
                         /\ req[r].book \in Rows \cup {Absent} /\ Cardinality(req[r].groups) <= Cardinality(req[r].rows) + 1

(* "A group of one is a book like any other and should be exclusive        *)
(* again": whatever was trashed, restored, hidden, purged and merged in    *)
(* between, a token is carried by two rows or by none.                     *)
GroupsAreShared == \A x \in Present : Of(x).group # NoGroup => Cardinality(InGroup(books, Of(x).group)) > 1

(* Two rows of one ISBN are copies of one another by a member's decision:  *)
(* no chain of adds, imports, copies and purges makes two groups of it.    *)
OneGroupPerIsbn ==
  \A x, y \in Present : Of(x).isbn = Of(y).isbn /\ Of(x).isbn # NoIsbn => Of(x).group = Of(y).group

(* Nothing leaves the shelf for good but by a merge: what a purge or the   *)
(* add door deletes was in the trash.                                      *)
PurgedWasInTrash ==
  \A x \in Present : books'[x] = Absent =>
    Of(x).trashed \/ \E r \in Requests : req[r].kind = "merge" /\ req'[r] = Idle

(* The door frees an ISBN at no other member's cost. *)
NobodyElsesIsPurged ==
  \A x \in Present : books'[x] = Absent =>
    \E r \in Requests : req'[r] # req[r] /\ req[r].by = Of(x).owner
=============================================================================
