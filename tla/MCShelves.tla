---------------------------- MODULE MCShelves -----------------------------
(* Small instances of what a shelf keeps: covers, copies, digital copies,  *)
(* words and fields, and what it says of its senders; and of what comes    *)
(* in: Readwise pulls, reading records and imports.  They share no state   *)
(* and are checked side by side.                                           *)
EXTENDS Naturals, Sequences, FiniteSets, TLC

CONSTANTS Parts, Nil, Gone, Unborn, NoBook, NoCover, Remote, NoIsbn, NoGroup,
          this, that, former, latter

VARIABLES part, row, file, coverReq, writes, crashes, excused, books, used,
          holdingReq, place, refs, asks, digitalReq, about, digitalOverlap,
          kind, entries, carried, seen, wordReq, wordOverlap, kinds, rows,
          written, restores, on, answer, due, record, run, admin, mishaps,
          streak, unheard, now, remote, wiseShelf, held, erased, linked,
          account, pull, deeds, readShelf, marked, log, doc, today, readReq,
          overlap, setBack, imported, notes, importReq, begun, edits

Unused == 0
Threads == {"p1", "p2"}

(* Two that are alike in each part that has them, and two more that are    *)
(* alike beside them.                                                      *)
Pair == {this, that}
ThePair == {former, latter}
Alike == Permutations(Pair)
AlikeApart == Permutations(Pair) \cup Permutations(ThePair)

----------------------------------------------------------------------------
(* CoverFiles: two Books, two requests, one of which may die *)
TwoFormats == <<"jpg", "png">>

CoverFiles == INSTANCE CoverFiles WITH Books <- Pair, Formats <- TwoFormats,
  Requests <- Threads, MaxWrites <- 1, MaxCrashes <- 1, req <- coverReq
coverVars == <<row, file, coverReq, writes, crashes, excused>>
coverRests == row = Unused /\ file = Unused /\ coverReq = Unused /\
              writes = Unused /\ crashes = Unused /\ excused = Unused

----------------------------------------------------------------------------
(* Holdings: one of the requests may do more than trash a Book *)
OneIsbn == {"i"}
ThreeRows == {1, 2, 3}

Holdings == INSTANCE Holdings WITH Rows <- ThreeRows, Isbns <- OneIsbn,
  Members <- Pair, Requests <- Threads, Reshaping <- {"p1"},
  Absorbing <- FALSE, Absent <- Gone, req <- holdingReq
holdingVars == <<books, used, holdingReq>>
holdingRests == books = Unused /\ used = Unused /\ holdingReq = Unused

----------------------------------------------------------------------------
(* DigitalCopies *)
TwoMembers == {"m1", "m2"}
TwoBooks == {"b1", "b2"}
Digests2 == {"d1", "d2"}
FirstOwnsBoth == [b \in TwoBooks |-> "m1"]

DigitalCopies == INSTANCE DigitalCopies WITH Procs <- Threads,
  Members <- TwoMembers, Books <- TwoBooks, Digests <- Digests2,
  Admin <- "m2", Owner <- FirstOwnsBoth, Ebooks <- {"b1"}, MaxAsks <- 2,
  None <- Nil, req <- digitalReq, overlap <- digitalOverlap
digitalVars == <<place, refs, asks, digitalReq, about, digitalOverlap>>
digitalRests == place = Unused /\ refs = Unused /\ asks = Unused /\
                digitalReq = Unused /\ about = Unused /\
                digitalOverlap = Unused

----------------------------------------------------------------------------
(* Vocabulary *)
EachOwnsOne == [b \in TwoBooks |-> IF b = "b1" THEN "m1" ELSE "m2"]
WordNames == {"fantasy", "Fantasy", "crime"}
LowerCased == [n \in WordNames |-> IF n = "Fantasy" THEN "fantasy" ELSE n]

Vocabulary == INSTANCE Vocabulary WITH Procs <- Pair, Members <- TwoMembers,
  Books <- TwoBooks, Admin <- "m1", Owner <- EachOwnsOne,
  Names <- WordNames, Fold <- LowerCased, MaxId <- 2, MaxFields <- 1,
  MaxTags <- 1, None <- Nil, req <- wordReq, overlap <- wordOverlap
wordVars == <<kind, entries, carried, seen, wordReq, wordOverlap>>
wordRests == kind = Unused /\ entries = Unused /\ carried = Unused /\
             seen = Unused /\ wordReq = Unused /\ wordOverlap = Unused

----------------------------------------------------------------------------
(* FieldValues *)
ThreeBooks == {"b1", "b2", "b3"}
TwoFields == {"f1", "f2"}
Address(scheme, login, host) ==
  [scheme |-> scheme, login |-> login, readable |-> TRUE, host |-> host]
(* One that is followed once it is rewritten, and two refused.             *)
TheTexts ==
  {Address("web", FALSE, "foreignDots"), Address("web", FALSE, "foreignBad"),
   Address("web", TRUE, "plain")}
TheKinds == [f \in TwoFields |-> IF f = "f1" THEN "url" ELSE "text"]
Held(id, b, f, host) == [id |-> id, book |-> b, field |-> f, text |-> Address("web", FALSE, host)]
(* Of a release that has a kind this one does not know. *)
TheArchives ==
  {[kinds |-> [f \in TwoFields |-> IF f = "f1" THEN "url" ELSE "unknown"],
    rows |-> {Held(1, "b1", "f1", "foreignDots"), Held(2, "b2", "f1", "plain"),
              Held(3, "b2", "f2", "plain")}]}

FieldValues == INSTANCE FieldValues WITH Books <- ThreeBooks,
  Fields <- TwoFields, Texts <- TheTexts, InitialKinds <- TheKinds,
  Archives <- TheArchives, MaxId <- 3, MaxRestores <- 1
fieldVars == <<kinds, rows, written, restores>>
fieldRests == kinds = Unused /\ rows = Unused /\ written = Unused /\
              restores = Unused

----------------------------------------------------------------------------
(* SenderHealth: two channels, mail first *)
TwoChannels == <<"mail", "webhook">>
TheTicker == {"ticker"}
OneAdmin == {"admin"}
TwoOutcomes == {"sent", "unreachable"}

SenderHealth == INSTANCE SenderHealth WITH Channels <- TwoChannels,
  Runners <- TheTicker, Ticker <- "ticker", Admins <- OneAdmin,
  Outcomes <- TwoOutcomes, Window <- 1, MinFailures <- 2, MaxMishaps <- 1
sendVars == <<on, answer, due, record, run, admin, mishaps, streak,
              unheard>>
sendRests == on = Unused /\ answer = Unused /\ due = Unused /\
             record = Unused /\ run = Unused /\ admin = Unused /\
             mishaps = Unused /\ streak = Unused /\ unheard = Unused

----------------------------------------------------------------------------
(* Readwise: two pages, of which the first is a book with two marks that   *)
(* either of two Books may be recognised as. Marks have last changed at 1, *)
(* or at 2, when it begins, or at 3: a pull of 3 is synced through 2       *)
FirstPage == [h \in Pair |-> 1]
OneTitle == [b \in ThePair |-> 1]

Readwise == INSTANCE Readwise WITH Highlights <- Pair, Books <- ThePair,
  Pages <- 2, BookOf <- FirstPage, Title <- OneTitle, Overlap <- 1,
  MaxNow <- 3, MaxDeeds <- 3, shelf <- wiseShelf, login <- account
wiseVars == <<now, remote, wiseShelf, held, erased, linked, account,
              pull, deeds>>
wiseRests == now = Unused /\ remote = Unused /\ wiseShelf = Unused /\
             held = Unused /\ erased = Unused /\ linked = Unused /\
             account = Unused /\ pull = Unused /\ deeds = Unused

----------------------------------------------------------------------------
(* Reading: imports take turns with other requests only in the run that    *)
(* asks for it                                                             *)
MarkedInEach == [o \in BOOLEAN |-> IF o THEN {"unread"} ELSE {"unread", "read"}]
LogBounds == [o \in BOOLEAN |-> IF o THEN 1 ELSE 2]
JustOne == {1}
PushedInEach == [o \in BOOLEAN |-> IF o THEN {2} ELSE {1, 2}]

Reading == INSTANCE Reading WITH Books <- Pair, Requests <- Threads,
  Main <- {"p1"}, Days <- 2, MaxLog <- LogBounds, Pushed <- PushedInEach,
  ImportsInTurns <- FALSE, Carriers <- Pair, Typed <- JustOne,
  Marked <- MarkedInEach, None <- Nil, shelf <- readShelf, rows <- marked,
  req <- readReq
readVars == <<readShelf, marked, log, doc, today, readReq, overlap, setBack>>
readRests == readShelf = Unused /\ marked = Unused /\ log = Unused /\
             doc = Unused /\ today = Unused /\ readReq = Unused /\
             overlap = Unused /\ setBack = Unused

----------------------------------------------------------------------------
(* Imports *)
NoNumber == "no isbn"
NoAuthor == "no author"
LongTitle == "long"
CutTitle == "lon"
SixIds == 1 .. 6
FileRow(isbn, title, author, review) ==
  [isbn |-> isbn, title |-> title, author |-> author, review |-> review]
FileRows ==
  {FileRow("x", "t", NoAuthor, TRUE), FileRow(NoNumber, "t", "a", TRUE),
   FileRow("x", LongTitle, "a", FALSE), FileRow(NoNumber, LongTitle, "a", FALSE),
   FileRow("y", "t", "b", FALSE)}
UpToTwo == {<<r>> : r \in FileRows} \cup {<<r, s>> : r \in FileRows, s \in FileRows}
OnShelf(isbn, title, author, owner, private, trashed) ==
  [isbn |-> isbn, title |-> title, author |-> author, owned |-> FALSE,
   private |-> private, owner |-> owner, trashed |-> trashed]
On(list) == [x \in SixIds |-> IF x <= Len(list) THEN list[x] ELSE Nil]
Begins ==
  {On(<<>>),
   On(<<OnShelf("x", "t", NoAuthor, "m1", FALSE, FALSE)>>),
   On(<<OnShelf("x", "t", NoAuthor, "m2", TRUE, FALSE),
        OnShelf(NoNumber, CutTitle, "a", "m1", FALSE, FALSE)>>),
   On(<<OnShelf("x", "s", "a", "m1", FALSE, TRUE), OnShelf("y", "t", "b", "m2", FALSE, FALSE)>>)}

Imports == INSTANCE Imports WITH Ids <- SixIds, Members <- TwoMembers,
  Importers <- {"m1"}, Shelves <- Begins, Files <- UpToTwo, MaxImports <- 2,
  MaxEdits <- 1, None <- Nil, NoIsbn <- NoNumber, books <- imported,
  req <- importReq
importVars == <<imported, notes, importReq, begun, edits>>
importRests == imported = Unused /\ notes = Unused /\ importReq = Unused /\
               begun = Unused /\ edits = Unused

----------------------------------------------------------------------------
(* One part runs from an initial state of its own; the others rest.        *)
OthersRest(p) ==
  /\ p # "covers" => coverRests
  /\ p # "holdings" => holdingRests
  /\ p # "digital" => digitalRests
  /\ p # "vocabulary" => wordRests
  /\ p # "fields" => fieldRests
  /\ p # "senders" => sendRests
  /\ p # "readwise" => wiseRests
  /\ p # "reading" => readRests
  /\ p # "imports" => importRests

Init ==
  /\ part \in Parts
  /\ \/ part = "covers" /\ CoverFiles!Init /\ OthersRest(part)
     \/ part = "holdings" /\ Holdings!Init /\ OthersRest(part)
     \/ part = "digital" /\ DigitalCopies!Init /\ OthersRest(part)
     \/ part = "vocabulary" /\ Vocabulary!Init /\ OthersRest(part)
     \/ part = "fields" /\ FieldValues!Init /\ OthersRest(part)
     \/ part = "senders" /\ SenderHealth!Init /\ OthersRest(part)
     \/ part = "readwise" /\ Readwise!Init /\ OthersRest(part)
     \/ part = "reading" /\ Reading!Init /\ OthersRest(part)
     \/ part = "imports" /\ Imports!Init /\ OthersRest(part)

OthersStay(p) ==
  /\ UNCHANGED part
  /\ p # "covers" => UNCHANGED coverVars
  /\ p # "holdings" => UNCHANGED holdingVars
  /\ p # "digital" => UNCHANGED digitalVars
  /\ p # "vocabulary" => UNCHANGED wordVars
  /\ p # "fields" => UNCHANGED fieldVars
  /\ p # "senders" => UNCHANGED sendVars
  /\ p # "readwise" => UNCHANGED wiseVars
  /\ p # "reading" => UNCHANGED readVars
  /\ p # "imports" => UNCHANGED importVars

Next ==
  \/ part = "covers" /\ CoverFiles!Next /\ OthersStay(part)
  \/ part = "holdings" /\ Holdings!Next /\ OthersStay(part)
  \/ part = "digital" /\ DigitalCopies!Next /\ OthersStay(part)
  \/ part = "vocabulary" /\ Vocabulary!Next /\ OthersStay(part)
  \/ part = "fields" /\ FieldValues!Next /\ OthersStay(part)
  \/ part = "senders" /\ SenderHealth!Next /\ OthersStay(part)
  \/ part = "readwise" /\ Readwise!Next /\ OthersStay(part)
  \/ part = "reading" /\ Reading!Next /\ OthersStay(part)
  \/ part = "imports" /\ Imports!Next /\ OthersStay(part)

vars == <<part, coverVars, holdingVars, digitalVars, wordVars, fieldVars,
          sendVars, wiseVars, readVars, importVars>>

Spec == Init /\ [][Next]_vars

----------------------------------------------------------------------------
ASSUME ConstantsAreFit ==
  /\ CoverFiles!CoverAssumption /\ Holdings!HoldingsAssumption
  /\ SenderHealth!HealthAssumption /\ Readwise!ReadwiseAssumption
  /\ Vocabulary!VocabularyAssumption

TypeOK ==
  /\ part = "covers" => CoverFiles!TypeOK
  /\ part = "holdings" => Holdings!TypeOK
  /\ part = "digital" => DigitalCopies!TypeOK
  /\ part = "vocabulary" => Vocabulary!TypeOK
  /\ part = "fields" => FieldValues!TypeOK
  /\ part = "senders" => SenderHealth!TypeOK
  /\ part = "readwise" => Readwise!TypeOK
  /\ part = "reading" => Reading!TypeOK
  /\ part = "imports" => Imports!TypeOK

(* A Book whose row names a cover has the file, and no file is left that   *)
(* no row names once nothing runs (cover_store.py); Books of one ISBN are  *)
(* one group, which is more than one Book (identity.py).                   *)
FilesAndRowsAgree ==
  /\ part = "covers" =>
       /\ CoverFiles!NamedCoverIsThere
       /\ CoverFiles!NothingLeftBehind
  /\ part = "holdings" =>
       /\ Holdings!OneGroupPerIsbn
       /\ Holdings!GroupsAreShared

(* A member has one open request for a copy (routers/books.py); a word     *)
(* stands once, however it is spelled, and fields stay within their number *)
(* (tags.py, fields.py); a value shown as a link is where it leads, and    *)
(* one written as a link stays one (custom_fields.py); nobody is           *)
(* interrupted over one failed send (notifications.py).                    *)
SaidOnceAndMeant ==
  /\ part = "digital" => DigitalCopies!AskedOnce
  /\ part = "vocabulary" =>
       /\ Vocabulary!OneEntryPerName
       /\ Vocabulary!FieldsAreFew
  /\ part = "fields" =>
       /\ FieldValues!LeadsWhereItSays
       /\ FieldValues!WrittenStaysALink
  /\ part = "senders" => SenderHealth!NoFalseAlarm

(* A Book is purged out of the trash only, and by its owner's request      *)
(* (shelf.py, routers/books.py); a look at a file is not undone            *)
(* (file_references.py); what a member asked of the words discloses none   *)
(* (disclosure.py); a merge loses no field's last value                    *)
(* (custom_fields.py).                                                     *)
NothingGoesUnasked ==
  [][ /\ part = "holdings" =>
           /\ Holdings!PurgedWasInTrash
           /\ Holdings!NobodyElsesIsPurged
      /\ part = "digital" => DigitalCopies!LooksStand
      /\ part = "vocabulary" => Vocabulary!OwnRequestsDiscloseNothing
      /\ part = "fields" => FieldValues!MergeKeepsAValue ]_vars

(* What a pull says it took is held, what is deleted there is gone here,   *)
(* and what a member deleted here does not come back (readwise.py); a Book *)
(* read to its end on a day is read and stays as it was set by hand after, *)
(* with one entry a day (kosync.py, reading.py); a file is reviewed once   *)
(* (importing.py).                                                         *)
PulledAndKept ==
  /\ part = "readwise" =>
       /\ Readwise!PulledIsHeld
       /\ Readwise!DeletedThereIsGoneHere
       /\ Readwise!NothingComesBack
  /\ part = "reading" =>
       /\ Reading!FinishedIsRead
       /\ Reading!SetBackStands
       /\ Reading!OneADay
  /\ part = "imports" => Imports!OneReview

(* A document is linked to a Book by hand alone (kosync.py); each row of a *)
(* file is answered, makes no second Book of one that is there, and        *)
(* touches none its member does not see (importing.py, recognition.py).    *)
WritesKnowWhatIsThere ==
  [][ /\ part = "reading" => Reading!LinkedByHand
      /\ part = "imports" =>
           /\ Imports!RowsAreAnswered
           /\ Imports!NoDouble
           /\ Imports!HiddenUntouched ]_vars
=============================================================================
