----------------------------- MODULE Enrichment -----------------------------
(***************************************************************************)
(* What outside catalogues may write to a Book that is already held, while *)
(* members edit it.  One Book: no handler here touches two.                *)
(*                                                                         *)
(* enrich_book and refresh_metadata are coroutines: they load the Book,    *)
(* await one catalogue after another, apply what was found to the Book AS  *)
(* LOADED under a policy (module evidence), await the cover, and commit.   *)
(* apply_enrichment, an edit and an upload load and commit at once, in a   *)
(* thread.  A commit writes the columns that differ from the row as loaded *)
(* (Flush).                                                                *)
(*                                                                         *)
(* A column stands for those that are treated alike: `author` for subtitle,*)
(* publisher, year and description, `language` for page_count, and `id`,   *)
(* which is google_books_id, for the series and categories where nothing   *)
(* is said of volumes.  A field a column cannot hold (_bounded_match,      *)
(* Record.__post_init__) is one the record does not carry.  Headings, tags *)
(* and what the reply says are left out; so is the cover's file, which is  *)
(* the subject of module CoverFiles: a local cover is taken to have one.   *)
(***************************************************************************)
EXTENDS Naturals, FiniteSets

CONSTANTS
  Requests,
  Answers,     \* the records that catalogues answer with
  MaxEdits,    \* bound on commits that change the row
  MaxWalks     \* bound on requests that ask catalogues

VARIABLES
  hasIsbn,     \* the Book carries an ISBN
  hasVolume,   \* an import gave it a Google volume id among its identifiers
  row,         \* the columns of its row as committed, or Gone
  req,         \* [Requests -> the request in flight]
  filed,       \* spellings that have an authority identifier from a catalogue
  credited,    \* spellings the row's author column has held
  edits, walks

vars == <<hasIsbn, hasVolume, row, req, filed, credited, edits, walks>>

----------------------------------------------------------------------------
(* Columns and values *)

Columns == {"title", "author", "language", "id", "cover"}

WorkDetail == {"author", "language", "id"}
Refreshed == {"title", "author", "language"}
SelectedOnly == WorkDetail \ Refreshed
ClearedByRefresh == {"author", "cover"}

(* Whose a value is: a member's, a catalogue's, and for a volume id        *)
(* whether it is the one the identifiers name.  `stored` is a cover that   *)
(* was fetched, `upload` one that was uploaded; both are local paths.      *)
Empty == "empty"
Values(c) == CASE c = "id"    -> {Empty, "member", "own", "other"}
               [] c = "cover" -> {Empty, "upload", "stored", "remote"}
               [] c = "title" -> {"member", "record"}
               [] OTHER       -> {Empty, "member", "record"}

IsLocal(cover) == cover \in {"upload", "stored"}
Gone == [gone |-> TRUE]
RowSpace == {r \in [Columns -> UNION {Values(c) : c \in Columns}] :
               \A c \in Columns : r[c] \in Values(c)}

(* What a catalogue answers, and whether it asserts an identifier for the  *)
(* author it names.                                                        *)
Records == {[title |-> t, author |-> a, language |-> l, id |-> i, cover |-> c, asserts |-> s] :
              t \in {Empty, "record"}, a \in {Empty, "record"}, l \in {Empty, "record"},
              i \in {Empty, "own", "other"}, c \in {Empty, "remote"}, s \in BOOLEAN}

EnrichmentAssumption ==
  Answers \subseteq Records /\ MaxEdits \in Nat /\ MaxWalks \in Nat

Idle == [kind |-> "idle", step |-> "none", held |-> Gone, new |-> Gone, asserts |-> FALSE]
Walkers == {"fill", "overwrite", "refresh"}
Kinds == Walkers \cup {"edit", "confirm"}

----------------------------------------------------------------------------
(* evidence.py *)

(* _write: an absent value asserts nothing, except where a refresh reads   *)
(* the silence of the source as a clear.                                   *)
Written(policy, c, current, incoming) ==
  IF incoming = Empty
  THEN IF policy = "refresh" /\ c \in ClearedByRefresh THEN Empty ELSE current
  ELSE IF policy = "fill" /\ current # Empty THEN current ELSE incoming

(* _write over the columns a door opens, and _write_cover.                 *)
Applied(policy, held, record, columns) ==
  [c \in Columns |->
     IF c \in columns \/ (c = "cover" /\ ~ IsLocal(held.cover))
     THEN Written(policy, c, held[c], record[c]) ELSE held[c]]

(* apply_record *)
ApplyRecord(policy, held, record) ==
  Applied(policy, held, record,
          IF policy = "refresh" THEN Refreshed ELSE WorkDetail \ SelectedOnly)

(* apply_own_volume: the id too, where the record carries the id asked for. *)
ApplyOwnVolume(policy, held, record) ==
  Applied(policy, held, record,
          (WorkDetail \ SelectedOnly) \cup (IF record.id = "own" THEN {"id"} ELSE {}))

(* confirm: a member selected the record; its id is then the member's.     *)
Confirm(policy, held, record) ==
  Applied(policy, held, [record EXCEPT !.id = IF @ = Empty THEN Empty ELSE "member"], WorkDetail)

(* _store_cover: what the row's cover is after the fetch.  A local one is  *)
(* kept; a remote one is stored or stays; without one the ISBN may find    *)
(* some.                                                                   *)
StoredCover(cover) ==
  IF IsLocal(cover) THEN {cover}
  ELSE IF cover = "remote" THEN {"remote", "stored"}
  ELSE IF hasIsbn THEN {Empty, "remote", "stored"} ELSE {Empty}

(* The ORM's UPDATE. *)
Flush(held, new) == [c \in Columns |-> IF new[c] # held[c] THEN new[c] ELSE row[c]]

----------------------------------------------------------------------------
(* Requests *)

Set(r, rec) == req' = [req EXCEPT ![r] = rec]
OnlyRequests == UNCHANGED <<hasIsbn, hasVolume, row, filed, credited, edits>>

(* enrich_book, refresh_metadata: the Book is loaded, and one Enquiry is   *)
(* made; it says whether any catalogue is switched on.                     *)
BeginWalk(r, kind) ==
  /\ req[r] = Idle /\ row # Gone
  /\ walks < MaxWalks /\ walks' = walks + 1
  /\ kind = "refresh" => hasIsbn
  /\ Set(r, [Idle EXCEPT !.kind = kind, !.step = IF hasIsbn THEN "isbn" ELSE "volume",
                         !.held = row])
  /\ OnlyRequests

(* Nothing found anywhere: the reply says so, or the refresh is an error.  *)
GiveUp(r) ==
  /\ req[r].step \in {"isbn", "title"}
  /\ req[r].step = "isbn" => req[r].kind = "refresh"
  /\ Set(r, Idle)
  /\ OnlyRequests /\ UNCHANGED walks

(* The ISBN, then the Book's own volume, then its title.                   *)
AskNext(r) ==
  /\ req[r].kind \in {"fill", "overwrite"}
  /\ \/ req[r].step = "isbn" /\ Set(r, [req[r] EXCEPT !.step = "volume"])
     \/ req[r].step = "volume" /\ Set(r, [req[r] EXCEPT !.step = "title"])
  /\ OnlyRequests /\ UNCHANGED walks

(* Only an answer to the ISBN says who wrote this Book. *)
Door(r, record) ==
  IF req[r].step = "volume" THEN ApplyOwnVolume(req[r].kind, req[r].held, record)
  ELSE ApplyRecord(req[r].kind, req[r].held, record)

(* Found: applied at once to the row as loaded.  A fill that changes       *)
(* nothing is not committed; a refresh always is.                          *)
Find(r, record) ==
  LET new == Door(r, record) IN
  /\ req[r].step \in {"isbn", "volume", "title"}
  /\ req[r].step = "volume" => hasVolume
  /\ Set(r, [req[r] EXCEPT !.new = new,
               !.asserts = req[r].step = "isbn" /\ record.asserts,
               !.step = IF new = req[r].held /\ req[r].kind # "refresh"
                        THEN "credit" ELSE "cover"])
  /\ OnlyRequests /\ UNCHANGED walks

(* The cover has been fetched on a thread; the commit.                     *)
CommitWalk(r) ==
  /\ req[r].step = "cover" /\ row # Gone
  /\ edits < MaxEdits /\ edits' = edits + 1
  /\ \E cover \in StoredCover(req[r].new.cover) :
       row' = Flush(req[r].held, [req[r].new EXCEPT !.cover = cover])
  /\ credited' = credited \cup {row'.author}
  /\ Set(r, [req[r] EXCEPT !.step = "credit"])
  /\ UNCHANGED <<hasIsbn, hasVolume, filed, walks>>

(* The row is gone: the UPDATE finds none, and nothing is kept.            *)
CommitFails(r) ==
  /\ req[r].step \in {"cover", "write"} /\ row = Gone
  /\ Set(r, Idle)
  /\ OnlyRequests /\ UNCHANGED walks

(* record_catalogue_assertions: the credit line is read again, and only a  *)
(* name that is in it is filed.                                            *)
Credited(r) == IF row # Gone THEN {"record"} \cap {row.author} ELSE {}

FileAssertions(r) ==
  /\ req[r].step = "credit"
  /\ filed' = IF req[r].asserts THEN filed \cup Credited(r) ELSE filed
  /\ Set(r, Idle)
  /\ UNCHANGED <<hasIsbn, hasVolume, row, credited, edits, walks>>

----------------------------------------------------------------------------
(* Members *)

(* update_book_details, upload_cover: load, set one column, commit. *)
BeginEdit(r, c, value) ==
  /\ req[r] = Idle /\ row # Gone
  /\ \/ c \in {"title", "author"} /\ value = "member"
     \/ c = "author" /\ value = Empty
     \/ c = "cover" /\ value = "upload"
  /\ Set(r, [Idle EXCEPT !.kind = "edit", !.step = "write", !.held = row,
                         !.new = [row EXCEPT ![c] = value]])
  /\ OnlyRequests /\ UNCHANGED walks

(* apply_enrichment: a record the member selected. *)
BeginConfirm(r, policy, record) ==
  /\ req[r] = Idle /\ row # Gone
  /\ policy \in {"fill", "overwrite"}
  /\ \E new \in {Confirm(policy, row, record)} :
     \E cover \in StoredCover(new.cover) :
       /\ new # row
       /\ Set(r, [Idle EXCEPT !.kind = "confirm", !.step = "write", !.held = row,
                              !.new = [new EXCEPT !.cover = cover]])
  /\ OnlyRequests /\ UNCHANGED walks

CommitEdit(r) ==
  /\ req[r].step = "write" /\ row # Gone
  /\ edits < MaxEdits /\ edits' = edits + 1
  /\ row' = Flush(req[r].held, req[r].new)
  /\ credited' = credited \cup {row'.author}
  /\ Set(r, Idle)
  /\ UNCHANGED <<hasIsbn, hasVolume, filed, walks>>

(* purge_book, by anybody. *)
Purge ==
  /\ row # Gone /\ row' = Gone
  /\ UNCHANGED <<hasIsbn, hasVolume, req, filed, credited, edits, walks>>

----------------------------------------------------------------------------
Init ==
  /\ hasIsbn \in BOOLEAN /\ hasVolume \in BOOLEAN
  /\ row \in {[title |-> "member", author |-> a, language |-> l, id |-> Empty, cover |-> c] :
                a \in {Empty, "member"}, l \in {Empty, "member"}, c \in {Empty, "upload"}}
  /\ req = [r \in Requests |-> Idle]
  /\ filed = {} /\ credited = {row.author}
  /\ edits = 0 /\ walks = 0

Step(r) ==
  \/ \E kind \in Walkers : BeginWalk(r, kind)
  \/ GiveUp(r) \/ AskNext(r) \/ CommitWalk(r) \/ CommitFails(r) \/ FileAssertions(r)
  \/ \E record \in Answers : Find(r, record)
  \/ \E c \in Columns, value \in {Empty, "member", "upload"} : BeginEdit(r, c, value)
  \/ \E policy \in Walkers, record \in Answers : BeginConfirm(r, policy, record)
  \/ CommitEdit(r)

Next == Purge \/ \E r \in Requests : Step(r)

Spec == Init /\ [][Next]_vars

----------------------------------------------------------------------------
(* Properties *)

TypeOK ==
  /\ hasIsbn \in BOOLEAN /\ hasVolume \in BOOLEAN
  /\ row \in RowSpace \cup {Gone}
  /\ \A r \in Requests :
       /\ req[r].kind \in Kinds \cup {"idle"}
       /\ req[r].step \in {"none", "isbn", "volume", "title", "cover", "credit", "write"}
       /\ req[r].held \in RowSpace \cup {Gone} /\ req[r].new \in RowSpace \cup {Gone}
  /\ filed \subseteq {"record"} /\ credited \subseteq Values("author")

(* A volume id that no member selected is the one the Book's identifiers   *)
(* name: whatever Google, a title search or an overlapping edit answers.   *)
(* A wrong one would drop the Book out of the identifier backfill.         *)
IdIsOwn == row # Gone => row.id # "other"

(* An identifier from a catalogue is filed under a spelling that the Book  *)
(* has carried: nowhere a member could not see and delete it.              *)
FiledWasCredited == filed \subseteq credited

Committing(r) == req[r].step = "cover" /\ req'[r].step = "credit"

(* A fill takes away no value that was there when it began, and one that   *)
(* was typed since only where it had found a gap.                        *)
FillFillsGaps ==
  \A r \in Requests : Committing(r) /\ req[r].kind = "fill" =>
    \A c \in Columns \ {"cover"} :
      row'[c] # row[c] => row[c] = Empty \/ req[r].held[c] = Empty

(* No catalogue, under any policy, empties a title or a language: a source *)
(* that does not say leaves them, whatever was edited meanwhile.           *)
NothingLost ==
  row' # Gone /\ row # Gone =>
    \A c \in {"title", "language", "id"} : row[c] # Empty => row'[c] # Empty
=============================================================================
