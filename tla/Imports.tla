------------------------------ MODULE Imports ------------------------------
(***************************************************************************)
(* Files of a member's books brought in: a reading history as CSV, a       *)
(* catalogue as MARC, the pages of a household feed.  Every record is      *)
(* recognised on what the member may see and the import itself has made;   *)
(* it fills the gaps of the Book it is, makes a Book of its own, or is     *)
(* only counted.  The file lands whole or not at all.                      *)
(*                                                                         *)
(* A record is an ISBN, a title, an author and whether a review comes with *)
(* it; titles are as identity folds them, and one is longer than its       *)
(* column.  Copy groups (Holdings), what else a file fills, tags, headings *)
(* and links (Vocabulary, Ceilings) and reading records (Reading) are left *)
(* out.  An import reads the shelf, loads and fills what it matched, and   *)
(* commits; members change their Books by hand between the three.  Two     *)
(* imports at once are Holdings'.                                          *)
(***************************************************************************)
EXTENDS Naturals, Sequences, FiniteSets, SequencesExt

CONSTANTS
  Ids,         \* bound: Books there ever are
  Members,
  Importers,   \* bound: those who import
  Shelves,     \* the shelves to begin with
  Files,       \* sequences of records
  LongTitle, CutTitle,
  MaxImports,  \* bound: imports begun
  MaxEdits,    \* bound: changes made by hand
  NoIsbn, NoAuthor, None

VARIABLES
  books,     \* [Ids -> the Book, or None]
  notes,     \* [Members \X Ids -> how many reviews]
  req,       \* the import in flight, or None
  begun, edits

vars == <<books, notes, req, begun, edits>>

Present(b) == {x \in Ids : b[x] # None}
Mine(b, m, x) == ~ b[x].private \/ b[x].owner = m
Seen(b, m) == {x \in Present(b) : ~ b[x].trashed /\ Mine(b, m, x)}
Trash(b, m) == {x \in Present(b) : b[x].trashed /\ Mine(b, m, x)}

Init ==
  /\ books \in Shelves
  /\ notes = [k \in Members \X Ids |-> 0]
  /\ req = None
  /\ begun = 0 /\ edits = 0

----------------------------------------------------------------------------
(* Recognition *)

(* _LADDERS: a catalogue's records are known by title and author, a        *)
(* reading history's and a feed's by title alone.                          *)
Key(kind, title, author) == IF kind = "marc" THEN <<title, author>> ELSE <<title>>

Entry(kind, x, book) == [id |-> x, isbn |-> book.isbn, key |-> Key(kind, book.title, book.author)]

(* Index.build, and the Books the member has a note on. *)
Index(b, m, kind) ==
  [seen |-> {Entry(kind, x, b[x]) : x \in Seen(b, m)},
   trash |-> {<<x, b[x].isbn>> : x \in Trash(b, m)},
   anywhere |-> {<<x, b[x].isbn>> : x \in Present(b)},
   noted |-> {x \in Ids : notes[m, x] > 0}]

(* As Remember, and the next record does not find the Book. *)
Remember_Nothing(ix, kind, x, book) == ix

Remember(ix, kind, x, book) ==
  [ix EXCEPT !.seen = @ \cup {Entry(kind, x, book)}, !.anywhere = @ \cup {<<x, book.isbn>>}]

Cut(title) == IF title = LongTitle THEN CutTitle ELSE title

(* stored_record: a record is recognised by what its Book would hold. *)
Asked(row) == [row EXCEPT !.title = Cut(@)]

(* Index.recognise.  Two Books of one name are a tie. *)
Settle(ids) == IF Cardinality(ids) = 1 THEN [is |-> "seen", ids |-> ids] ELSE [is |-> "tied", ids |-> ids]

Recognise(ix, kind, row) ==
  LET Bearing(pairs) == {q[1] : q \in {r \in pairs : r[2] = row.isbn /\ row.isbn # NoIsbn}}
      numbered == {e.id : e \in {f \in ix.seen : f.isbn = row.isbn /\ row.isbn # NoIsbn}}
      named == {e.id : e \in {f \in ix.seen : f.key = Key(kind, row.title, row.author)}}
      hidden == (Bearing(ix.anywhere) \ Bearing(ix.trash)) \ {e.id : e \in ix.seen}
  IN IF numbered # {} THEN Settle(numbered)
     ELSE IF named # {} THEN Settle(named)
     ELSE [is |-> IF hidden # {} THEN "hidden"
                  ELSE IF Bearing(ix.trash) # {} THEN "inTrash" ELSE "unknown",
           ids |-> {}]

----------------------------------------------------------------------------
(* One record *)

(* A feed lists what the household holds; a file says nothing of that. *)
Held(kind) == kind = "opds"

(* As Created, with nobody's name on it. *)
Created_Nobodys(kind, m, row) ==
  [isbn |-> row.isbn, title |-> Cut(row.title), author |-> row.author,
   owned |-> Held(kind), private |-> FALSE, owner |-> None, trashed |-> FALSE]

(* Import._create, MarcImport._create and OpdsImport._create. *)
Created(kind, m, row) ==
  [isbn |-> row.isbn, title |-> Cut(row.title), author |-> row.author,
   owned |-> Held(kind), private |-> FALSE, owner |-> m, trashed |-> FALSE]

(* _fill_marc_gaps and _fill_opds_gaps; a reading history fills neither.   *)
Fills(kind, book, row) ==
  (IF kind # "csv" /\ book.author = NoAuthor /\ row.author # NoAuthor THEN {"author"} ELSE {})
    \cup (IF Held(kind) /\ ~ book.owned THEN {"owned"} ELSE {})

Filled(kind, book, row) ==
  [book EXCEPT !.author = IF "author" \in Fills(kind, book, row) THEN row.author ELSE @,
               !.owned = @ \/ "owned" \in Fills(kind, book, row)]

(* _keep_review: where the member has said nothing yet. *)
Reviewed(acc, kind, x, row) ==
  IF kind = "csv" /\ row.review /\ x \notin acc.ix.noted
  THEN [acc EXCEPT !.reviews = Append(@, x), !.ix.noted = @ \cup {x}] ELSE acc

(* _settle_one.  acc is the session: the Books as it holds them, the       *)
(* columns it has changed, those it made, and its index.                   *)
Settled(acc, kind, m, create, row) ==
  LET answer == Recognise(acc.ix, kind, Asked(row))
      known == CHOOSE x \in answer.ids : TRUE
      book == acc.held[known]
      free == {x \in Ids : acc.held[x] = None /\ x \notin acc.made}
      fresh == CHOOSE x \in free : \A y \in free : x <= y
  IN CASE answer.is = "seen" ->
            IF book = None THEN [acc EXCEPT !.gone = TRUE]
            ELSE Reviewed([acc EXCEPT !.held[known] = Filled(kind, book, row),
                                      !.wrote = @ \cup {<<known, c>> : c \in Fills(kind, book, row)}],
                          kind, known, row)
       [] answer.is = "unknown" /\ create ->
            Reviewed([acc EXCEPT !.held[fresh] = Created(kind, m, row),
                                 !.made = @ \cup {fresh},
                                 !.ix = Remember(@, kind, fresh, Created(kind, m, row))],
                     kind, fresh, row)
       [] OTHER -> acc    \* counted, or listed

Applied(b, q) ==
  FoldLeft(LAMBDA acc, row : Settled(acc, q.kind, q.by, q.create, row),
           [ix |-> q.ix, held |-> b, wrote |-> {}, made |-> {}, reviews |-> <<>>, gone |-> FALSE],
           q.file)

----------------------------------------------------------------------------
(* The import *)

(* import_csv, import_marc and sync_server, up to the index. *)
Read ==
  /\ req = None /\ begun < MaxImports
  /\ \E m \in Importers, kind \in {"csv", "marc", "opds"}, file \in Files, create \in BOOLEAN :
       req' = [step |-> "read", by |-> m, kind |-> kind, file |-> file, create |-> create,
               ix |-> Index(books, m, kind), acc |-> None, unseen |-> Ids \ Seen(books, m),
               met |-> FALSE]
  /\ begun' = begun + 1
  /\ UNCHANGED <<books, notes, edits>>

(* The rows, one after the other.  A match that is gone ends the import.   *)
Apply ==
  /\ req # None /\ req.step = "read"
  /\ LET acc == Applied(books, req) IN
       req' = IF acc.gone THEN None ELSE [req EXCEPT !.step = "applied", !.ix = None, !.acc = acc]
  /\ UNCHANGED <<books, notes, begun, edits>>

(* The columns written, over the rows as they are by now. *)
Written(acc) ==
  [x \in Ids |->
     IF x \in acc.made THEN acc.held[x]
     ELSE IF books[x] = None THEN None
     ELSE [books[x] EXCEPT
             !.author = IF <<x, "author">> \in acc.wrote THEN acc.held[x].author ELSE @,
             !.owned = @ \/ <<x, "owned">> \in acc.wrote]]

(* A row to update is gone, an ISBN or an id is taken, or all of it stands. *)
Commit ==
  /\ req # None /\ req.step = "applied"
  /\ LET acc == req.acc
         Times(x) == Cardinality({k \in 1 .. Len(acc.reviews) : acc.reviews[k] = x})
         kept == /\ \A w \in acc.wrote : w[1] \in acc.made \/ books[w[1]] # None
                 /\ \A x \in Ids \ acc.made : Times(x) > 0 => books[x] # None
                 /\ \A x \in acc.made, y \in Present(books) :
                      books[y].isbn # acc.held[x].isbn \/ books[y].isbn = NoIsbn
     IN IF kept
        THEN /\ books' = Written(acc)
             /\ notes' = [k \in Members \X Ids |->
                            IF k[1] = req.by THEN notes[k] + Times(k[2]) ELSE notes[k]]
        ELSE UNCHANGED <<books, notes>>
  /\ req' = None
  /\ UNCHANGED <<begun, edits>>

(* What members do to their Books by hand, between two steps. *)
Edit ==
  /\ edits < MaxEdits /\ edits' = edits + 1
  /\ \E x \in Present(books) :
       \/ \E b \in {[books[x] EXCEPT !.private = ~ @], [books[x] EXCEPT !.trashed = ~ @]} :
            books' = [books EXCEPT ![x] = b] /\ UNCHANGED notes
       \/ /\ books' = [books EXCEPT ![x] = None]
          /\ notes' = [k \in Members \X Ids |-> IF k[2] = x THEN 0 ELSE notes[k]]
  /\ req' = IF req = None THEN None ELSE [req EXCEPT !.met = TRUE]
  /\ UNCHANGED begun

Next == Read \/ Apply \/ Commit \/ Edit

Spec == Init /\ [][Next]_vars

----------------------------------------------------------------------------
TypeOK ==
  /\ \A x \in Present(books) :
       books[x].owner \in Members /\ books[x].owned \in BOOLEAN /\ books[x].private \in BOOLEAN
  /\ notes \in [Members \X Ids -> Nat]
  /\ req = None \/ req.step \in {"read", "applied"}

Landing == req # None /\ req.step = "applied" /\ req' = None
New == Present(books') \ Present(books)

(* A file imported with the adding of books asked for, and met by no hand  *)
(* change, leaves none of its records unknown: the same file imported      *)
(* again adds nothing, whatever its titles lost to their column.           *)
RowsAreAnswered ==
  Landing /\ req.create /\ ~ req.met =>
    \A k \in 1 .. Len(req.file) :
      Recognise(Index(books', req.by, req.kind), req.kind,
                [req.file[k] EXCEPT !.title = Cut(@)]).is # "unknown"

(* Met by no hand change, a Book an import makes is a double of none on    *)
(* its member's shelf, by ISBN or by what its ladder goes by, and so of    *)
(* none the same file made.  A Book whose author that import filled in has *)
(* another name than it had, and is set apart.                             *)
NoDouble ==
  Landing /\ ~ req.met =>
    \A x \in New, y \in Seen(books', req.by) :
      x # y =>
        /\ books'[x].isbn = NoIsbn \/ books'[x].isbn # books'[y].isbn
        /\ \/ Entry(req.kind, x, books'[x]).key # Entry(req.kind, y, books'[y]).key
           \/ {<<x, "author">>, <<y, "author">>} \cap req.acc.wrote # {}

(* An import changes no Book its member could not see, or had in the       *)
(* trash, when it read the shelf, though it asks the whole table for an    *)
(* ISBN and whatever is hidden or shared meanwhile.                        *)
HiddenUntouched ==
  Landing => \A x \in Present(books) \cap req.unseen : books'[x] = books[x]

(* A member has one imported review of a Book at most, however often the   *)
(* files that hold it name that Book.                                      *)
OneReview == \A k \in Members \X Ids : notes[k] <= 1
=============================================================================
