---------------------------- MODULE ShelfWalks ----------------------------
(***************************************************************************)
(* The shelf as it is read: exported page by page, listed page by page, in *)
(* the published catalogue too, and counted by heading, while others add,  *)
(* retitle, hide, trash and purge what is on it.                           *)
(*                                                                         *)
(* A Book is its id.  Of its columns the model keeps those a walk orders   *)
(* or narrows by: a title, the reader's own status, the classes it bears;  *)
(* the last two stay.  The formats of a file differ in what they write of  *)
(* a Book.  One reader walks at a time, for readers never meet.            *)
(***************************************************************************)
EXTENDS Naturals, FiniteSets, FiniteSetsExt

CONSTANTS
  MaxId,      \* bound: ids are 1 .. MaxId
  Members,
  Owner,      \* [1 .. MaxId -> Members]
  Titles,     \* numbers, in the order they file
  Heads,      \* [1 .. MaxId -> sets of headings]
  Division,   \* [heading -> its division]
  Status,     \* [1 .. MaxId -> what the reader has said of it, or None]
  PageSize,   \* of a file and of a list
  Public, None

VARIABLES
  place,      \* [Ids -> "none", "shared", "private", "trash" or "purged"]
  title,      \* [Ids -> Titles], None of an id with no Book
  published,  \* whether the catalogue is published
  walk        \* the file or list being read, or None

vars == <<place, title, published, walk>>

Ids == 1 .. MaxId
Readers == Members \cup {Public}
There == {b \in Ids : place[b] \notin {"none", "purged"}}
Statuses == {"unread", "reading"}
Filters == {"all"} \cup Statuses

(* Shelf.seen_by and Shelf.seen_by_the_public *)
Visible(b, r) == place[b] = "shared" \/ (place[b] = "private" /\ r = Owner[b])

Seen(r) == {b \in Ids : Visible(b, r)}

(* A Book the reader has no row for is unread. *)
WithStatus(filter) ==
  {b \in Ids : \/ filter = "all" \/ Status[b] = filter
               \/ filter = "unread" /\ Status[b] = None}

Matching(r, filter) == Seen(r) \cap WithStatus(filter)

(* Every order ends in the id, so two pages are cut from one list. *)
Before(b, c, tie) == title[b] < title[c] \/ (title[b] = title[c] /\ b < c)

(* The rows of books that offset and limit leave. *)
Window(books, offset, tie) ==
  {b \in books : LET at == Cardinality({c \in books : Before(c, b, tie)}) IN
                 offset <= at /\ at < offset + PageSize}

----------------------------------------------------------------------------
(* Files *)

(* As NextPage, and the walk resumes where the count of what it wrote points. *)
NextPage_Offset(r, after, wrote) ==
  {b \in Seen(r) : LET at == Cardinality({c \in Seen(r) : c < b}) IN
                   Cardinality(wrote) <= at /\ at < Cardinality(wrote) + PageSize}

(* The PageSize lowest ids after the last that was written. *)
NextPage(r, after, wrote) ==
  LET rest == {b \in Seen(r) : b > after} IN
  {b \in rest : Cardinality({c \in rest : c < b}) < PageSize}

StartExport(m) ==
  /\ walk = None /\ m \in Members
  /\ walk' = [op |-> "export", by |-> m, after |-> 0, page |-> {}, last |-> FALSE,
              wrote |-> {}, twice |-> FALSE, steady |-> Seen(m), ever |-> Seen(m)]
  /\ UNCHANGED <<place, title, published>>

(* The rows of a page are read, and the place the next resumes from. *)
ReadPage ==
  /\ walk # None /\ walk.op = "export" /\ walk.page = {} /\ ~ walk.last
  /\ LET page == NextPage(walk.by, walk.after, walk.wrote) IN
     walk' = [walk EXCEPT !.page = page, !.after = IF page = {} THEN @ ELSE Max(page),
                          !.last = Cardinality(page) < PageSize]
  /\ UNCHANGED <<place, title, published>>

(* Their statuses are read and they are handed on. *)
WritePage ==
  /\ walk # None /\ walk.op = "export" /\ walk.page # {}
  /\ walk' = [walk EXCEPT !.wrote = @ \cup walk.page, !.page = {},
                          !.twice = @ \/ walk.page \cap walk.wrote # {}]
  /\ UNCHANGED <<place, title, published>>

Written == walk # None /\ walk.op = "export" /\ walk.page = {} /\ walk.last

----------------------------------------------------------------------------
(* Lists *)

StartList(r, filter) ==
  /\ walk = None /\ (r = Public => published /\ filter = "all")
  /\ walk' = [op |-> "list", by |-> r, filter |-> filter, offset |-> 0, total |-> MaxId,
              got |-> {}, twice |-> FALSE, still |-> TRUE]
  /\ UNCHANGED <<place, title, published>>

(* Shelf.page: the count and the rows, the next page of a client's walk. *)
ListPage(tie) ==
  /\ walk # None /\ walk.op = "list" /\ walk.offset < walk.total
  /\ walk.by = Public => published
  /\ LET books == Matching(walk.by, walk.filter)
         page == Window(books, walk.offset, tie) IN
     walk' = [walk EXCEPT !.offset = @ + PageSize, !.total = Cardinality(books),
                          !.twice = @ \/ page \cap walk.got # {}, !.got = @ \cup page]
  /\ UNCHANGED <<place, title, published>>

Listed == walk # None /\ walk.op = "list" /\ walk.offset >= walk.total

EndWalk ==
  /\ walk # None /\ walk' = None /\ UNCHANGED <<place, title, published>>

----------------------------------------------------------------------------
(* Facets *)

Facets(r) == {h \in UNION {Heads[b] : b \in Ids} : \E b \in Seen(r) : h \in Heads[b]}

(* A Book with two headings of one division counts once. *)
DivisionCount(r, d) ==
  Cardinality({bh[1] : bh \in {x \in Seen(r) \X Facets(r) : x[2] \in Heads[x[1]] /\ Division[x[2]] = d}})

(* What Shelf.matching finds for a division. *)
InDivision(r, d) == {b \in Seen(r) : \E h \in Heads[b] : Division[h] = d}

----------------------------------------------------------------------------
(* Meanwhile.  Of a file it is remembered what its reader could see from   *)
(* its first page to now, and what at any time.                            *)

Moved == IF walk = None THEN None
         ELSE IF walk.op = "list" THEN [walk EXCEPT !.still = FALSE]
         ELSE LET now == {b \in Ids : \/ place'[b] = "shared"
                                      \/ place'[b] = "private" /\ Owner[b] = walk.by} IN
              [walk EXCEPT !.steady = @ \cap now, !.ever = @ \cup now]

Move(b, to) ==
  /\ \/ place[b] \in {"shared", "private"} /\ to \in {"shared", "private", "trash"} \ {place[b]}
     \/ place[b] = "trash" /\ to \in {"shared", "purged"}
  /\ place' = [place EXCEPT ![b] = to] /\ walk' = Moved
  /\ title' = IF to = "purged" THEN [title EXCEPT ![b] = None] ELSE title
  /\ UNCHANGED published

(* An id above every other there has been. *)
Add(b, t) ==
  /\ place[b] = "none" /\ \A c \in Ids : place[c] # "none" => c < b
  /\ place' = [place EXCEPT ![b] = "shared"] /\ title' = [title EXCEPT ![b] = t]
  /\ walk' = Moved
  /\ UNCHANGED published

Retitle(b, t) ==
  /\ b \in There /\ t # title[b]
  /\ title' = [title EXCEPT ![b] = t] /\ place' = place /\ walk' = Moved
  /\ UNCHANGED published

Publish == published' = ~ published /\ UNCHANGED <<place, title, walk>>

Init ==
  /\ place \in [Ids -> {"none", "shared", "private"}]
  /\ title \in {f \in [Ids -> Titles \cup {None}] : \A b \in Ids : f[b] = None <=> b \notin There}
  /\ published = FALSE /\ walk = None

Next ==
  \/ \E r \in Readers : \/ StartExport(r)
                        \/ \E f \in Filters : StartList(r, f)
  \/ ReadPage \/ WritePage \/ (\E tie \in BOOLEAN : ListPage(tie)) \/ EndWalk
  \/ \E b \in Ids : \/ \E to \in {"shared", "private", "trash", "purged"} : Move(b, to)
                    \/ \E t \in Titles : Add(b, t) \/ Retitle(b, t)
  \/ Publish

Spec == Init /\ [][Next]_vars

----------------------------------------------------------------------------
(* Properties *)

(* A walk resumes after everything it read, and a list is no longer than   *)
(* the table.                                                              *)
TypeOK ==
  /\ \A b \in Ids : /\ place[b] \in {"none", "shared", "private", "trash", "purged"}
                     /\ b \in There => title[b] \in Titles
  /\ walk # None /\ walk.op = "export" => walk.page \cup walk.wrote \subseteq 1 .. walk.after
  /\ walk # None /\ walk.op = "list" => walk.total \in 0 .. MaxId

(* A Book its reader could see from the first page of a file to the last   *)
(* is in the file, one they could at no time see is not, and no Book is in *)
(* it twice, whatever the shelf did.                                       *)
FileIsWhole ==
  /\ walk # None /\ walk.op = "export" => /\ ~ walk.twice
                                         /\ walk.wrote \subseteq walk.ever
  /\ Written => walk.steady \subseteq walk.wrote

(* Where nothing moved between its pages a list names every Book it        *)
(* matches, once; pages cut from lists in two orders do not.               *)
ListIsWhole ==
  walk # None /\ walk.op = "list" /\ walk.still =>
    ~ walk.twice /\ (Listed => walk.got = Matching(walk.by, walk.filter))

(* A division says how many Books picking it will list, to each reader.    *)
FacetsAgree ==
  \A r \in Readers : \A d \in {Division[h] : h \in Facets(r)} :
    DivisionCount(r, d) = Cardinality(InDivision(r, d))
=============================================================================
