------------------------------ MODULE Reading ------------------------------
(***************************************************************************)
(* One member's reading of their Books: the record of each (a status, the  *)
(* day it was started and the day it was finished), the log of sittings,   *)
(* and where their KOReader last was in one document.                      *)
(*                                                                         *)
(* A push of a position is stored as it is, and applied to the Book the    *)
(* document is linked to: a row in the log when the percent moved, once a  *)
(* day, and READ when the end is crossed.  The member marks, rates, types  *)
(* a sitting, imports an export, links and unlinks; others hide, merge and *)
(* purge the Books.                                                        *)
(*                                                                         *)
(* A request makes its reads in one step and commits in another.  The ORM  *)
(* writes by primary key the columns that differ from what it read.        *)
(* Ratings, notes, device names and the server's timestamp are left out.   *)
(***************************************************************************)
EXTENDS Naturals, FiniteSets, FiniteSetsExt

CONSTANTS
  Books, Requests,
  Main,         \* the requests that are not pushes only, which overlap these
  Carriers,     \* the Books that carry the document's fingerprint
  Days,         \* the days of a behaviour, 1..n
  MaxLog,       \* bounds on the rows of the log, overlapping and in turns
  Marked,       \* the statuses set by hand and by files, overlapping and in turns
  Typed,        \* the percents the member types
  Pushed,       \* the positions a device pushes, overlapping and in turns
  ImportsInTurns,   \* whether imports are among requests that take turns
  None

VARIABLES
  shelf,    \* [Books -> "seen", "hidden" (in the trash, or not theirs) or "gone"]
  rows,     \* user_books, by the Book a row was made for: Nothing, or its columns
  log,      \* reading_progress
  doc,      \* the document's row, or Nothing
  today,
  req,      \* [Requests -> the request in flight]
  overlap,  \* whether requests overlap, or take turns
  setBack   \* the Books set back since the document came to rest at their end

vars == <<shelf, rows, log, doc, today, req, overlap, setBack>>

(* What a push can say: the start, the middle, the end, or past it. *)
Middle == 1  End == 2  Beyond == 3
Positions == {0, Middle, End, Beyond}

Statuses == {"unread", "want_to_read", "reading", "read", "did_not_finish"}
StandingStart == {"unread", "want_to_read", "did_not_finish"}
NoRow == [book |-> None, status |-> "unread", finished |-> FALSE]
NoDoc == [at |-> None, book |-> None]
NoChange == [book |-> None, row |-> None, seen |-> NoRow, new |-> NoRow]
Nothing == [percent |-> 0, change |-> NoChange]
Idle == [kind |-> "idle", book |-> None, plan |-> Nothing, doc |-> NoDoc, at |-> None]
Kinds == {"idle", "push", "link", "unlink", "mark", "type", "erase", "import"}

Seen == {b \in Books : shelf[b] = "seen"}

----------------------------------------------------------------------------
(* reading.py *)

(* _mark with _stamp_reading_dates *)
Stamped(row, status) ==
  [row EXCEPT !.status = status,
     !.finished = status = "read"]

Begun(row) == IF row.status \in StandingStart THEN Stamped(row, "reading") ELSE row
Finished(row) == IF row.status = "read" THEN row ELSE Stamped(row, "read")

(* The row of a Book, if it has one; Records.open makes one.               *)
RowOf(b) == {o \in Books : b # None /\ rows[o].book = b}
Opened(b) == IF RowOf(b) = {} THEN [NoRow EXCEPT !.book = b]
             ELSE rows[CHOOSE o \in RowOf(b) : TRUE]

(* A change of a Book's record from what is read to `new`. *)
Change(b, new) ==
  [book |-> b, new |-> new, seen |-> IF RowOf(b) = {} THEN NoRow ELSE Opened(b),
   row |-> IF RowOf(b) = {} THEN b ELSE CHOOSE o \in RowOf(b) : TRUE]

(* The unique index and the foreign key hold, and the row is still there.  *)
Writable(c) ==
  CASE c.new = c.seen -> TRUE
    [] c.new # c.seen /\ c.seen = NoRow -> shelf[c.book] # "gone" /\ RowOf(c.book) = {} /\ rows[c.row] = NoRow
    [] OTHER -> rows[c.row] # NoRow

Written(c) ==
  LET now == IF c.seen = NoRow THEN c.new ELSE rows[c.row]
      differs(was, is, kept) == IF was = is THEN kept ELSE is
  IN IF c.new = c.seen THEN rows
     ELSE [rows EXCEPT ![c.row] =
             [book |-> now.book, status |-> differs(c.seen.status, c.new.status, now.status),
              finished |-> differs(c.seen.finished, c.new.finished, now.finished)]]

----------------------------------------------------------------------------
(* reading_progress *)

Tick == IF log = {} THEN 1 ELSE 1 + Max({e.at : e \in log})
Latest(b) == {e \in log : e.book = b /\ \A f \in log : f.book = b => f.at <= e.at}
Entry(b, percent, from) ==
  [at |-> Tick, day |-> today, book |-> b, percent |-> percent, from |-> from]

----------------------------------------------------------------------------
(* kosync.py *)

Applied_If(b, at, moved, crossed) ==
  [percent |-> IF moved THEN at ELSE 0,
   change |-> CASE crossed -> Change(b, Finished(Opened(b)))
                [] moved /\ at < End -> Change(b, Begun(Opened(b)))
                [] OTHER -> NoChange]

Crossed(at, before) == at = End /\ (before = None \/ before < End)

Moved(b, at) == at \in {Middle, End} /\ \A e \in Latest(b) : e.day # today /\ e.percent # at

(* apply: what a position does to the log and the record of its Book.  One *)
(* outside 0 to 1 applies nothing, and is no crossing for the next.        *)
Applied(b, at, before) == Applied_If(b, at, Moved(b, at), Crossed(at, before))

(* _the_one_holder *)
Carrying == Carriers \cap Seen
Holder == IF Cardinality(Carrying) = 1 THEN CHOOSE b \in Carrying : TRUE ELSE None

----------------------------------------------------------------------------
(* Requests *)

Begin(r, rec) ==
  /\ req[r] = Idle
  /\ ~ overlap => \A s \in Requests : req[s] = Idle
  /\ req' = [req EXCEPT ![r] = rec]
  /\ UNCHANGED <<shelf, rows, log, doc, today, overlap, setBack>>

ReadPush(r, at) ==
  Begin(r, [Idle EXCEPT !.kind = "push", !.at = at, !.doc = doc, !.book = Holder,
              !.plan = IF doc.book \in Seen THEN Applied(doc.book, at, doc.at) ELSE Nothing])

ReadLink(r, b) ==
  /\ b \in Seen /\ doc # NoDoc
  /\ Begin(r, [Idle EXCEPT !.kind = "link", !.book = b, !.doc = doc, !.plan = Applied(b, doc.at, None)])

ReadUnlink(r, b) ==
  /\ b \in Seen /\ doc.book = b
  /\ Begin(r, [Idle EXCEPT !.kind = "unlink", !.doc = doc])

(* update_status, and each Book of a bulk edit *)
ReadMark(r, b, status) ==
  /\ b \in Seen
  /\ Begin(r, [Idle EXCEPT !.kind = "mark", !.book = b,
                           !.plan.change = Change(b, Stamped(Opened(b), status))])

(* add_progress *)
ReadType(r, b, percent) ==
  /\ b \in Seen
  /\ Begin(r, [Idle EXCEPT !.kind = "type", !.book = b,
                           !.plan = [percent |-> percent, change |-> Change(b, Begun(Opened(b)))]])

(* delete_progress *)
ReadErase(r, e) ==
  /\ e.book \in Seen
  /\ Begin(r, [Idle EXCEPT !.kind = "erase", !.at = e.at])

(* _apply_reading_record: the file's status as it is, and its date for a   *)
(* Book it calls read.                                                     *)
ReadImport(r, b, status, dated) ==
  /\ (overlap \/ ImportsInTurns) /\ b \in Seen
  /\ Begin(r, [Idle EXCEPT !.kind = "import", !.book = b,
                           !.plan.change = Change(b, [Opened(b) EXCEPT !.status = status,
                                                           !.finished = @ \/ (dated /\ status = "read")])])

SetBack(q) ==
  LET b == q.plan.change.book
      to == q.plan.change.new.status
  IN IF doc'.at \in {None, 0, Middle} \/ q.kind = "link" THEN {}
     ELSE IF q.kind \notin {"mark", "import"} THEN setBack
     ELSE IF to = "read" THEN setBack \ {b}
     ELSE IF doc.book = b THEN setBack \cup {b} ELSE setBack

(* The flush and the commit of what a request planned, with the document's *)
(* row; a log row goes to Book b. *)
Commit(r, plan, b, row) ==
  LET kind == req[r].kind
  IN /\ Writable(plan.change)
     /\ plan.percent # 0 => shelf[b] # "gone" /\ Tick <= MaxLog[overlap]
     /\ rows' = Written(plan.change)
     /\ log' = IF plan.percent = 0 THEN {e \in log : kind # "erase" \/ e.at # req[r].at}
               ELSE log \cup {Entry(b, plan.percent, IF kind = "type" THEN "member" ELSE "device")}
     /\ doc' = row
     /\ setBack' = SetBack(req[r])
     /\ req' = [req EXCEPT ![r] = Idle]
     /\ UNCHANGED <<shelf, today, overlap>>

CommitChange(r) ==
  /\ req[r].kind \in {"mark", "type", "erase", "import"}
  /\ Commit(r, req[r].plan, req[r].book, doc)

(* _write on a row that was there: the columns that differ. *)
Repositioned(q) == IF q.doc.at = q.at THEN doc ELSE [doc EXCEPT !.at = q.at]

CommitPush(r) ==
  LET q == req[r]
  IN /\ q.kind = "push" /\ q.doc # NoDoc
     /\ Commit(r, q.plan, q.doc.book, Repositioned(q))

(* The insert takes the write lock, and what it then applies is read under *)
(* it.  Refused by the index, the row another push made is written to.     *)
CommitFirstPush(r) ==
  LET q == req[r]
      row == IF doc = NoDoc THEN [at |-> q.at, book |-> q.book] ELSE [doc EXCEPT !.at = q.at]
      plan == IF row.book \in Seen THEN Applied(row.book, q.at, doc.at) ELSE Nothing
  IN /\ q.kind = "push" /\ q.doc = NoDoc
     /\ doc = NoDoc /\ q.book # None => shelf[q.book] # "gone"
     /\ Commit(r, plan, row.book, row)

CommitLink(r) ==
  LET q == req[r]
  IN /\ q.kind = "link" /\ shelf[q.book] # "gone"
     /\ Commit(r, q.plan, q.book, IF q.doc.book = q.book THEN doc ELSE [doc EXCEPT !.book = q.book])

CommitUnlink(r) ==
  /\ req[r].kind = "unlink"
  /\ Commit(r, Nothing, None, [doc EXCEPT !.book = None])

Refused(r) ==
  /\ req[r] # Idle
  /\ req' = [req EXCEPT ![r] = Idle]
  /\ UNCHANGED <<shelf, rows, log, doc, today, overlap, setBack>>

----------------------------------------------------------------------------
(* What others do to the Books, each in one step *)

Others == ~ overlap => \A r \in Requests : req[r] = Idle

Hide(b) ==
  /\ Others /\ b \in Seen
  /\ shelf' = [shelf EXCEPT ![b] = "hidden"]
  /\ UNCHANGED <<rows, log, doc, today, req, overlap, setBack>>

Show(b) ==
  /\ Others /\ shelf[b] = "hidden"
  /\ shelf' = [shelf EXCEPT ![b] = "seen"]
  /\ UNCHANGED <<rows, log, doc, today, req, overlap, setBack>>

(* The cascade of _purge; the document goes back to the inbox. *)
Purge(b) ==
  /\ Others /\ shelf[b] = "hidden"
  /\ shelf' = [shelf EXCEPT ![b] = "gone"]
  /\ rows' = [o \in Books |-> IF rows[o].book = b THEN NoRow ELSE rows[o]]
  /\ log' = {e \in log : e.book # b}
  /\ doc' = IF doc.book = b THEN [doc EXCEPT !.book = None] ELSE doc
  /\ setBack' = setBack \ {b}
  /\ UNCHANGED <<today, req, overlap>>

(* resolve_merge, and the transfers of the log and of the document.  A row *)
(* another Book had is no longer one a device gave this Book.              *)
Merge(keep, loser) ==
  /\ Others /\ keep # loser /\ {keep, loser} \subseteq Seen
  /\ shelf' = [shelf EXCEPT ![loser] = "gone"]
  /\ rows' = [o \in Books |-> IF rows[o].book # loser THEN rows[o]
                              ELSE IF RowOf(keep) = {} THEN [rows[o] EXCEPT !.book = keep] ELSE NoRow]
  /\ log' = {IF e.book = loser THEN [e EXCEPT !.book = keep, !.from = "another"] ELSE e : e \in log}
  /\ doc' = IF doc.book = loser THEN [doc EXCEPT !.book = keep] ELSE doc
  /\ setBack' = {}
  /\ UNCHANGED <<today, req, overlap>>

NextDay ==
  /\ today < Days /\ ~ overlap /\ Others
  /\ today' = today + 1
  /\ UNCHANGED <<shelf, rows, log, doc, req, overlap, setBack>>

----------------------------------------------------------------------------
Init ==
  /\ shelf = [b \in Books |-> "seen"]
  /\ rows = [b \in Books |-> NoRow] /\ log = {} /\ doc = NoDoc /\ today = 1
  /\ req = [r \in Requests |-> Idle]
  /\ overlap \in BOOLEAN
  /\ setBack = {}

(* While requests overlap, only what touches the document or its Book. *)
ByMember(r) ==
  \/ \E b \in Books : ReadLink(r, b) \/ ReadUnlink(r, b)
  \/ \E b \in Books, s \in Marked[overlap] : ReadMark(r, b, s)
  \/ \E b \in Books, s \in Marked[overlap], dated \in BOOLEAN : ReadImport(r, b, s, dated)
  \/ /\ ~ overlap
     /\ \/ \E b \in Books, percent \in Typed : ReadType(r, b, percent)
        \/ \E e \in log : ReadErase(r, e)

Next ==
  \/ \E r \in Requests :
       \/ r \in Main /\ ByMember(r)
       \/ (r \in Main \/ overlap) /\ \E at \in Pushed[overlap] : ReadPush(r, at)
       \/ CommitChange(r) \/ CommitPush(r) \/ CommitFirstPush(r) \/ CommitLink(r) \/ CommitUnlink(r)
       \/ Refused(r)
  \/ \E b \in Books : Hide(b) \/ Show(b) \/ Purge(b)
  \/ \E keep, loser \in Books : Merge(keep, loser)
  \/ NextDay

Spec == Init /\ [][Next]_vars

----------------------------------------------------------------------------
(* Properties *)

(* What is kept names Books that are kept: the record, the log and the     *)
(* document's link, whatever was merged and purged under them.             *)
TypeOK ==
  /\ \A o \in Books : /\ rows[o] # NoRow => shelf[rows[o].book] # "gone"
                      /\ rows[o].status \in Statuses
                      /\ rows[o].finished \in BOOLEAN
                      /\ rows[o] # NoRow => Cardinality(RowOf(rows[o].book)) = 1
  /\ \A e \in log : shelf[e.book] # "gone" /\ e.day \in 1..today /\ e.percent \in {Middle, End}
  /\ doc = NoDoc \/ doc.at \in Positions
  /\ doc.book # None => shelf[doc.book] # "gone"
  /\ \A r \in Requests : req[r].kind \in Kinds

(* "Anything other than READ means it is not finished": the Books counted  *)
(* as finished are those the shelf shows as read, through every chain of   *)
(* marks, sittings, pushes and merges.  An import writes the status alone. *)
FinishedIsRead ==
  ~ overlap /\ ~ ImportsInTurns => \A o \in Books : rows[o].finished <=> rows[o].status = "read"

(* "A member who set the status back must not be overruled by the next     *)
(* one": a device resting on the last page marks nothing read.             *)
SetBackStands ==
  ~ overlap => \A b \in setBack : \A o \in RowOf(b) : rows[o].status # "read"

(* The log is of sittings: a device adds the first row of a Book's day or  *)
(* none, whatever was typed, deleted and linked that day.                  *)
OneADay ==
  ~ overlap => \A e, f \in log :
    e.at < f.at /\ f.from = "device" /\ e.from # "another" /\ e.book = f.book => e.day # f.day

(* "The fingerprint links a document once": a document the member took off *)
(* its Book, or that lost its Book, is linked again by hand or not at all. *)
LinkedByHand ==
  doc # NoDoc /\ doc.book = None /\ doc'.book # None =>
    \E r \in Requests : req[r].kind = "link" /\ req'[r] = Idle
=============================================================================
