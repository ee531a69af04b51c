------------------------------ MODULE Readwise ------------------------------
(***************************************************************************)
(* Pulling one member's Readwise highlights: readwise.sync as a task on    *)
(* the event loop, stopped by a bound, a refusal or a crash and resumed by *)
(* a later pull, beside the member's own changes to their Books and to     *)
(* their highlights, and beside changes made at Readwise while it runs.    *)
(*                                                                         *)
(* A pull walks the export page by page from synced_through or from the    *)
(* cursor an earlier pull kept, then asks by id for the Readwise books     *)
(* whose whole history it owes.  Each page is fetched, and then written    *)
(* and committed with the cursor.  `_running` keeps pulls apart, and       *)
(* refuses a new token while one is under way.                             *)
(*                                                                         *)
(* Times are ticks, and a mark's content is the time it last changed.      *)
(* Left out: what a page says of a book (its ASIN, title and author always *)
(* recognise the same Books), marks with no text to store, one mark listed *)
(* under two books, books deleted at Readwise or moved out of its          *)
(* category, another account's token, and who is due a daily pull.  How a  *)
(* page's rows meet another request's is module Highlights.                *)
(***************************************************************************)
EXTENDS Naturals, FiniteSets

CONSTANTS
  Highlights, \* marks at Readwise
  Pages,      \* the export has pages 1 .. Pages, one Readwise book each
  BookOf,     \* the Readwise book (its page) each mark is under
  Books,      \* Books here, each added once
  Title,      \* the Readwise book each Book is recognised as
  Overlap,    \* OVERLAP, in ticks
  MaxNow,     \* bound on the clock
  MaxDeeds,   \* bound on the member's changes and those at Readwise together
  NoBook

ReadwiseBooks == 1 .. Pages
Times == 0 .. MaxNow

ReadwiseAssumption ==
  /\ Pages \in Nat \ {0}
  /\ BookOf \in [Highlights -> ReadwiseBooks]
  /\ Title \in [Books -> ReadwiseBooks]
  /\ Overlap \in Nat \ {0}
  /\ MaxNow \in Nat /\ MaxNow > Overlap
  /\ MaxDeeds \in Nat
  /\ NoBook \notin Books

VARIABLES
  now,
  remote,     \* [Highlights -> the mark at Readwise]
  shelf,      \* [Books -> "new" | "seen" | "unseen" | "gone"]
  held,       \* [Highlights -> the row here: its Book and its content]
  erased,     \* the marks the member deleted here
  linked,     \* [ReadwiseBooks -> the ReadwiseBook row]
  login,      \* the MemberLogin row
  pull,       \* the pull under way
  deeds       \* those changes so far

here == <<shelf, held, erased, linked>>
vars == <<now, remote, shelf, held, erased, linked, login, pull, deeds>>

Mark == [state : {"none", "live", "deleted"}, at : Times]
NoMark == [state |-> "none", at |-> 0]
NoRow == [book |-> NoBook, at |-> 0]
NoLink == [known |-> FALSE, book |-> NoBook, pending |-> FALSE]

(* `through` is synced_through and `walk` walk_started_at, 0 for null;     *)
(* `cursor` the page the walk resumes from, 0 for none.                    *)
Fresh == [token |-> TRUE, through |-> 0, cursor |-> 0, walk |-> 0]
NoLogin == [Fresh EXCEPT !.token = FALSE]

Off == [step |-> "off", walk |-> 0, cursor |-> 0, keeping |-> TRUE,
        first |-> TRUE, index |-> {}, asked |-> {}, chunk |-> {},
        listed |-> {}, page |-> [h \in Highlights |-> NoMark]]

----------------------------------------------------------------------------
(* recognition: the Book a Readwise book goes on, in an index of the Books *)
(* the member could see when it was built.  Two answers are no answer.     *)

Seen == {b \in Books : shelf[b] = "seen"}
There(b) == shelf[b] \in {"seen", "unseen"}
Matches(index, u) == {b \in index : Title[b] = u}
Matched(index, u) ==
  IF Cardinality(Matches(index, u)) = 1
    THEN CHOOSE b \in Books : b \in Matches(index, u) ELSE NoBook

(* The Readwise books to ask for by id.                                    *)
Rematched(index) ==
  {u \in ReadwiseBooks :
     /\ linked[u].known
     /\ \/ linked[u].pending /\ linked[u].book \in index
        \/ linked[u].book \notin index /\ Matched(index, u) # NoBook}

----------------------------------------------------------------------------
(* One pull *)

At(step) == pull.step = step
Whole == login.through = 0

(* As WalkStarted, with the resumed walk's own start. *)
WalkStarted_Now == now

(* A resumed walk keeps the time it first started. *)
WalkStarted ==
  IF login.cursor # 0 /\ login.walk # 0 THEN login.walk ELSE now

(* sync up to its first page. *)
Begin ==
  /\ At("off")
  /\ login.token
  /\ pull' = [Off EXCEPT !.step = "walk", !.walk = WalkStarted,
                         !.cursor = IF login.cursor # 0 THEN login.cursor ELSE 1,
                         !.first = TRUE, !.index = Seen, !.asked = Rematched(Seen)]
  /\ UNCHANGED <<now, remote, here, login>>

(* What the export says of a book's marks: those changed since, with the   *)
(* deletions, or by id every one that is live.                             *)
Since(u, time) == {h \in Highlights : /\ BookOf[h] = u /\ remote[h].state # "none"
                                      /\ remote[h].at > time}
Live(u) == {h \in Highlights : BookOf[h] = u /\ remote[h].state = "live"}
Snapshot(H) == [h \in Highlights |-> IF h \in H THEN remote[h] ELSE NoMark]

(* _page, for the walk.  A cursor may be too long to keep, and then none   *)
(* is kept for the rest of the walk.                                       *)
FetchPage ==
  LET u == pull.cursor
      changed == Since(u, login.through) IN
  /\ At("walk")
  /\ \E short \in BOOLEAN :
       pull' = [pull EXCEPT !.step = "apply", !.first = FALSE,
                            !.cursor = IF u < Pages THEN u + 1 ELSE 0,
                            !.keeping = @ /\ short,
                            !.listed = IF changed # {} THEN {u} ELSE {},
                            !.page = Snapshot(changed)]
  /\ UNCHANGED <<now, remote, here, login>>

(* _placed: a book newly matched on a page that does not list its every    *)
(* mark is owed the others.                                                *)
Placed(u, whole) ==
  LET row == linked[u]
      book == IF row.book \in pull.index THEN row.book ELSE Matched(pull.index, u) IN
  [known |-> TRUE, book |-> book,
   pending |-> row.pending \/ (row.book \notin pull.index /\ book # NoBook /\ ~ whole)]

Newly(whole) == {u \in pull.listed : /\ linked[u].book \notin pull.index
                                     /\ Placed(u, whole).book # NoBook /\ ~ whole}

(* The marks highlights.write has a row for after the page. *)
Written(placed) ==
  {h \in Highlights : /\ pull.page[h].state = "live"
                      /\ placed[BookOf[h]].book # NoBook
                      /\ h \notin erased}

(* _apply_once: deletions go whatever the book; a live mark is written on  *)
(* the Book its book is placed on, unless the member deleted it here.  A   *)
(* Book deleted for good since the index was built refuses the page.       *)
WritePage(whole) ==
  LET placed == [u \in ReadwiseBooks |->
                   IF u \in pull.listed THEN Placed(u, whole) ELSE linked[u]]
      removed == {h \in Highlights : pull.page[h].state = "deleted"} IN
  /\ \A u \in pull.listed : placed[u].book # NoBook => There(placed[u].book)
  /\ linked' = placed
  /\ held' = [h \in Highlights |->
                IF h \in Written(placed) THEN [book |-> placed[BookOf[h]].book,
                                       at |-> pull.page[h].at]
                ELSE IF h \in removed THEN NoRow ELSE held[h]]
  /\ UNCHANGED <<now, remote, shelf, erased>>

Applied(step, asked) ==
  pull' = [pull EXCEPT !.step = step, !.asked = asked, !.listed = {},
                       !.page = Snapshot({})]

Resuming(kept) == [login EXCEPT !.walk = pull.walk, !.cursor = kept]

(* apply_page with carry: the page and the walk's cursor in one commit. *)
ApplyPage ==
  /\ At("apply")
  /\ WritePage(Whole)
  /\ login' = Resuming(IF pull.keeping THEN pull.cursor ELSE 0)
  /\ Applied(IF pull.cursor # 0 THEN "walk" ELSE "ask", pull.asked \cup Newly(Whole))

(* _pending: these Readwise books are owed their whole history, or paid it. *)
Owe(ids, owed) ==
  linked' = [u \in ReadwiseBooks |->
               IF u \in ids /\ linked[u].known THEN [linked[u] EXCEPT !.pending = owed]
               ELSE linked[u]]

(* The ids are asked for in requests of IDS_PER_REQUEST, here of one. *)
AskForBook ==
  /\ At("ask")
  /\ \E u \in pull.asked :
       /\ Owe({u}, TRUE)
       /\ pull' = [pull EXCEPT !.step = "ids", !.chunk = {u}, !.asked = @ \ {u}]
  /\ UNCHANGED <<now, remote, shelf, held, erased, login>>

FetchBook ==
  /\ At("ids")
  /\ \E u \in pull.chunk :
       pull' = [pull EXCEPT !.step = "applyIds", !.listed = {u},
                            !.page = Snapshot(Live(u))]
  /\ UNCHANGED <<now, remote, here, login>>

ApplyBook ==
  /\ At("applyIds")
  /\ WritePage(TRUE)
  /\ Applied("paid", pull.asked)
  /\ UNCHANGED login

ClearDebt ==
  /\ At("paid")
  /\ Owe(pull.chunk, FALSE)
  /\ pull' = [pull EXCEPT !.step = "ask", !.chunk = {}]
  /\ UNCHANGED <<now, remote, shelf, held, erased, login>>

SyncedThrough == pull.walk - Overlap

(* _finish with SYNCED. *)
FinishSynced ==
  /\ At("ask")
  /\ pull.asked = {}
  /\ login' = [login EXCEPT !.through = SyncedThrough, !.cursor = 0, !.walk = 0]
  /\ pull' = Off
  /\ UNCHANGED <<now, remote, here>>

(* _finish with anything else: a bound reached, a refusal, or a page that  *)
(* could not be read; the first page of a resumed walk not read for want   *)
(* of Readwise drops the cursor.                                           *)
Stop ==
  /\ pull.step \in {"walk", "ids"}
  /\ \E unavailable \in BOOLEAN :
       login' = [login EXCEPT !.walk = pull.walk,
                              !.cursor = IF unavailable /\ At("walk") /\ pull.first
                                           THEN 0 ELSE @]
  /\ pull' = Off
  /\ UNCHANGED <<now, remote, here>>

(* The process dies, or the page is refused until the pull raises. *)
Die ==
  /\ ~ At("off")
  /\ pull' = Off
  /\ UNCHANGED <<now, remote, here, login>>

----------------------------------------------------------------------------
(* The token: both are refused while a pull is under way *)

(* save_readwise_token, the first one and replace_token alike. *)
SaveToken ==
  /\ At("off")
  /\ login' = Fresh
  /\ linked' = IF login.token THEN [u \in ReadwiseBooks |-> NoLink] ELSE linked
  /\ UNCHANGED <<now, remote, shelf, held, erased, pull>>

Forget ==
  /\ At("off")
  /\ login' = NoLogin
  /\ linked' = [u \in ReadwiseBooks |-> NoLink]
  /\ UNCHANGED <<now, remote, shelf, held, erased, pull>>

----------------------------------------------------------------------------
(* Other requests of the member, each one commit *)

Unmoved == <<now, remote, login, pull>>

AddBook(b) ==
  /\ shelf[b] = "new"
  /\ shelf' = [shelf EXCEPT ![b] = "seen"]
  /\ UNCHANGED <<Unmoved, held, erased, linked>>

(* Trashed, or made private by another member; and back. *)
HideBook(b) ==
  /\ shelf[b] = "seen"
  /\ shelf' = [shelf EXCEPT ![b] = "unseen"]
  /\ UNCHANGED <<Unmoved, held, erased, linked>>

ShowBook(b) ==
  /\ shelf[b] = "unseen"
  /\ shelf' = [shelf EXCEPT ![b] = "seen"]
  /\ UNCHANGED <<Unmoved, held, erased, linked>>

(* The highlights go with the Book, and its Readwise book waits. *)
PurgeBook(b) ==
  /\ shelf[b] = "unseen"
  /\ shelf' = [shelf EXCEPT ![b] = "gone"]
  /\ held' = [h \in Highlights |-> IF held[h].book = b THEN NoRow ELSE held[h]]
  /\ linked' = [u \in ReadwiseBooks |-> IF linked[u].book = b
                                          THEN [linked[u] EXCEPT !.book = NoBook]
                                          ELSE linked[u]]
  /\ UNCHANGED <<Unmoved, erased>>

(* folding.TRANSFERS moves the highlights and the link. *)
MergeBook(b, keep) ==
  /\ {b, keep} \subseteq Seen /\ b # keep
  /\ shelf' = [shelf EXCEPT ![b] = "gone"]
  /\ held' = [h \in Highlights |-> IF held[h].book = b
                                     THEN [held[h] EXCEPT !.book = keep] ELSE held[h]]
  /\ linked' = [u \in ReadwiseBooks |-> IF linked[u].book = b
                                          THEN [linked[u] EXCEPT !.book = keep]
                                          ELSE linked[u]]
  /\ UNCHANGED <<Unmoved, erased>>

(* highlights.delete_own *)
EraseHighlight(h) ==
  /\ held[h] # NoRow
  /\ held' = [held EXCEPT ![h] = NoRow]
  /\ erased' = erased \cup {h}
  /\ UNCHANGED <<Unmoved, shelf, linked>>

----------------------------------------------------------------------------
(* Readwise, and the clock *)

ChangeAtReadwise(h) ==
  /\ \/ /\ remote[h].state # "deleted"
        /\ remote' = [remote EXCEPT ![h] = [state |-> "live", at |-> now]]
     \/ /\ remote[h].state = "live"
        /\ remote' = [remote EXCEPT ![h] = [state |-> "deleted", at |-> now]]
  /\ UNCHANGED <<now, here, login, pull>>

Tick ==
  /\ now < MaxNow
  /\ now' = now + 1
  /\ UNCHANGED <<remote, here, login, pull>>

Init ==
  /\ now = Overlap + 1
  /\ remote \in [Highlights -> {NoMark, [state |-> "live", at |-> 1]}]
  /\ shelf \in [Books -> {"new", "seen"}]
  /\ held = [h \in Highlights |-> NoRow]
  /\ erased = {}
  /\ linked = [u \in ReadwiseBooks |-> NoLink]
  /\ login = NoLogin
  /\ pull = Off
  /\ deeds = 0

Pull == \/ Begin \/ FetchPage \/ ApplyPage \/ AskForBook \/ FetchBook
        \/ ApplyBook \/ ClearDebt \/ FinishSynced \/ Stop \/ Die

Token == SaveToken \/ Forget

Deed == \/ \E b \in Books : \/ AddBook(b) \/ HideBook(b) \/ ShowBook(b) \/ PurgeBook(b)
                            \/ \E keep \in Books : MergeBook(b, keep)
        \/ \E h \in Highlights : EraseHighlight(h) \/ ChangeAtReadwise(h)

Next == \/ Pull /\ UNCHANGED deeds
        \/ Token /\ UNCHANGED deeds
        \/ Tick /\ UNCHANGED deeds
        \/ Deed /\ deeds < MaxDeeds /\ deeds' = deeds + 1

Spec == Init /\ [][Next]_vars

----------------------------------------------------------------------------
(* Every row has its shape, and a walk kept to be resumed keeps the time   *)
(* it started.                                                             *)
TypeOK ==
  /\ deeds \in 0 .. MaxDeeds
  /\ now \in Times
  /\ remote \in [Highlights -> Mark]
  /\ shelf \in [Books -> {"new", "seen", "unseen", "gone"}]
  /\ held \in [Highlights -> [book : Books \cup {NoBook}, at : Times]]
  /\ erased \subseteq Highlights
  /\ linked \in [ReadwiseBooks -> [known : BOOLEAN, book : Books \cup {NoBook},
                                   pending : BOOLEAN]]
  /\ login \in [token : BOOLEAN, through : Times, cursor : 0 .. Pages, walk : Times]
  /\ pull \in [step : {"off", "walk", "apply", "ask", "ids", "applyIds", "paid"},
               walk : Times, cursor : 0 .. Pages, keeping : BOOLEAN, first : BOOLEAN,
               index : SUBSET Books, asked : SUBSET ReadwiseBooks,
               chunk : SUBSET ReadwiseBooks, listed : SUBSET ReadwiseBooks,
               page : [Highlights -> Mark]]
  /\ login.cursor # 0 => login.walk # 0

(* Where the member's pulls say a Readwise book is paid up: it is on a     *)
(* Book they see, and no debt is left.                                     *)
PaidUp(u) == linked[u].book \in Seen /\ ~ linked[u].pending

(* synced_through: whatever had last changed at Readwise by then is held,  *)
(* as it is there, on the Book of its book, unless the member deleted it,  *)
(* however pulls stopped, resumed and died and Books came and went.        *)
PulledIsHeld ==
  \A h \in Highlights :
    /\ remote[h].state = "live"
    /\ remote[h].at <= login.through
    /\ PaidUp(BookOf[h])
    /\ h \notin erased
    => held[h] = [book |-> linked[BookOf[h]].book, at |-> remote[h].at]

(* "A deletion removes the row": what was deleted at Readwise by           *)
(* synced_through is held nowhere, whatever page was in hand.              *)
DeletedThereIsGoneHere ==
  \A h \in Highlights :
    remote[h].state = "deleted" /\ remote[h].at <= login.through => held[h] = NoRow

(* No row is written on, or left on, a Book deleted for good, and what the *)
(* member deleted here no page brings back.                                *)
NothingComesBack ==
  \A h \in Highlights : /\ held[h].book # NoBook => There(held[h].book)
                        /\ h \in erased => held[h] = NoRow
=============================================================================
