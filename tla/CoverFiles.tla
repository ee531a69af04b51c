----------------------------- MODULE CoverFiles -----------------------------
(***************************************************************************)
(* Cover images are files named by book id and format, beside the row      *)
(* whose cover_url points at one of them: cover_store.py, covers.py and    *)
(* the handlers of routers/books.py that write, copy, move and remove      *)
(* covers.                                                                 *)
(*                                                                         *)
(* A file is written before the commit that names it.  What destroys       *)
(* another file waits for the commit, and what undoes the write waits for  *)
(* the rollback: on_commit and on_rollback of database.py, here the steps  *)
(* `finishing` and `undoing`.  Requests run in threads and interleave      *)
(* between any two of their steps; a process death ends them all.          *)
(*                                                                         *)
(* Bytes are abstracted to the identity `_identity` gives a file: every    *)
(* write makes a new one.  A failed download, a full volume and a file     *)
(* that is not an image are one outcome.                                   *)
(***************************************************************************)
EXTENDS Naturals, Sequences, FiniteSetsExt

CONSTANTS
  Books,
  Formats,      \* ALLOWED_IMAGE_EXTENSIONS, in the order `sorted` gives
  Requests,
  NoCover, Remote,   \* cover_url of a Book with no image here
  Unborn, Gone,      \* no row: an id not issued yet, a row deleted
  MaxWrites,    \* bound on files written
  MaxCrashes    \* bound on process deaths

Format == {Formats[i] : i \in DOMAIN Formats}

CoverAssumption ==
  /\ \A i, j \in DOMAIN Formats : Formats[i] = Formats[j] => i = j
  /\ MaxWrites \in Nat
  /\ MaxCrashes \in Nat

VARIABLES
  row,      \* [Books -> cover_url of the row, or why there is none]
  file,     \* [Books -> [Format -> identity of the file, 0 for none]]
  req,      \* [Requests -> the request in flight]
  writes,
  crashes,
  excused   \* history: the books two requests wrote at once, or a crash caught

vars == <<row, file, req, writes, crashes, excused>>

NoRow == {Unborn, Gone}
Local == Books \X Format
Url == {NoCover, Remote} \cup Local
Exists(b) == row[b] \notin NoRow
Present(b) == {f \in Format : file[b][f] # 0}

(* path_of: the file found for a book, in whatever format.                 *)
First(fs) == Formats[Min({i \in DOMAIN Formats : Formats[i] \in fs})]

NoFormat == "none"
Idle == [op |-> "none", at |-> "idle", book |-> "none", from |-> "none",
         fmt |-> NoFormat, before |-> {}, cover |-> NoCover, url |-> NoCover,
         written |-> 0]

Writing == {"upload", "fetch", "backfill", "copy", "merge"}
Touches(q) == IF req[q].op = "merge" THEN {req[q].book, req[q].from}
              ELSE IF req[q].op \in Writing THEN {req[q].book} ELSE {}
TouchedBy(others) == UNION {Touches(q) : q \in others}
(* The history: a request that writes a book another one is writing, or    *)
(* merges a book that was excused, excuses every book of both.             *)
Contended(q, books) ==
  LET met == {p \in Requests \ {q} : Touches(p) \cap books # {}} IN
  IF met = {} /\ books \cap excused = {} THEN excused
  ELSE excused \cup books \cup TouchedBy(met)

(* upload_cover awaits nothing from its first look at the disk to its end, *)
(* so one upload holds the event loop against the others.                  *)
LoopIsFree(q) ==
  req[q].op = "upload" =>
    \A p \in Requests \ {q} : req[p].op = "upload" => req[p].at = "looking"

----------------------------------------------------------------------------
(* Uploads, fetches and the backfill: look up, look at the disk, write,    *)
(* settle, commit.                                                         *)

LookUpToWrite(q, op, b) ==
  /\ req[q] = Idle
  /\ Exists(b)
  /\ op \in {"upload", "fetch"}
  /\ req' = [req EXCEPT ![q] = [Idle EXCEPT !.op = op, !.at = "looking", !.book = b,
                                            !.cover = row[b]]]
  /\ excused' = Contended(q, {b})
  /\ UNCHANGED <<row, file, writes, crashes>>

(* A fetch leaves alone a cover already held here.                         *)
LookAtDisk(q) ==
  LET b == req[q].book
      held == req[q].op = "fetch" /\ req[q].cover \in Local /\ Present(b) # {}
  IN
  /\ req[q].at = "looking"
  /\ LoopIsFree(q)
  /\ req' = [req EXCEPT ![q] = IF held THEN Idle
                               ELSE [@ EXCEPT !.at = "writing", !.before = Present(b)]]
  /\ UNCHANGED <<row, file, writes, crashes, excused>>

(* The backfill's candidates are the books with no file, and `before` is   *)
(* what made the book one.                                                 *)
LookForMissing(q, b) ==
  /\ req[q] = Idle
  /\ Exists(b)
  /\ Present(b) = {}
  /\ req' = [req EXCEPT ![q] = [Idle EXCEPT !.op = "backfill", !.at = "writing",
                                            !.book = b, !.cover = row[b]]]
  /\ excused' = Contended(q, {b})
  /\ UNCHANGED <<row, file, writes, crashes>>

Write(q, f) ==
  LET b == req[q].book IN
  /\ req[q].at = "writing"
  /\ LoopIsFree(q)
  /\ writes < MaxWrites
  /\ writes' = writes + 1
  /\ file' = [file EXCEPT ![b][f] = writes + 1]
  /\ req' = [req EXCEPT ![q].at = "settling", ![q].fmt = f, ![q].url = <<b, f>>]
  /\ UNCHANGED <<row, crashes, excused>>

(* An upload fails; a fetch falls back to the remote URL it resolved, if   *)
(* it resolved one.  A URL the row holds already is nothing to commit.     *)
WriteFails(q) ==
  /\ req[q].at = "writing"
  /\ LoopIsFree(q)
  /\ \/ req' = [req EXCEPT ![q] = Idle]
     \/ /\ req[q].op # "upload"
        /\ req[q].cover # Remote
        /\ req' = [req EXCEPT ![q].at = "committing", ![q].url = Remote]
  /\ UNCHANGED <<row, file, writes, crashes, excused>>

(* As Settle with the other formats swept before the commit.               *)
Settle_SweepsFirst(q) ==
  LET b == req[q].book
      f == req[q].fmt
      written == IF f \in req[q].before THEN 0 ELSE file[b][f]
  IN
  /\ req[q].at = "settling"
  /\ LoopIsFree(q)
  /\ file' = [file EXCEPT ![b] = [g \in Format |-> IF g = f THEN @[g] ELSE 0]]
  /\ req' = [req EXCEPT ![q].at = "committing", ![q].written = written]
  /\ UNCHANGED <<row, writes, crashes, excused>>

(* settle: the sweep is queued for the commit, and the discard for the     *)
(* rollback if the name is new and the file still there.                   *)
Settle(q) ==
  LET b == req[q].book
      f == req[q].fmt
      written == IF f \in req[q].before THEN 0 ELSE file[b][f]
  IN
  /\ req[q].at = "settling"
  /\ LoopIsFree(q)
  /\ req' = [req EXCEPT ![q].at = "committing", ![q].written = written]
  /\ UNCHANGED <<row, file, writes, crashes, excused>>

(* A row that is gone refuses its UPDATE, and an unchanged cover_url sends *)
(* none.                                                                   *)
Commit(q) ==
  LET b == req[q].book
      changed == req[q].url # req[q].cover
  IN
  /\ req[q].at = "committing"
  /\ LoopIsFree(q)
  /\ changed => Exists(b)
  /\ row' = IF changed THEN [row EXCEPT ![b] = req[q].url] ELSE row
  /\ req' = [req EXCEPT ![q].at = "finishing"]
  /\ UNCHANGED <<file, writes, crashes, excused>>

CommitFails(q) ==
  /\ req[q].at = "committing"
  /\ LoopIsFree(q)
  /\ req' = [req EXCEPT ![q].at = "undoing"]
  /\ UNCHANGED <<row, file, writes, crashes, excused>>

(* After the commit: the file is the book's only cover.                    *)
Sweep(q) ==
  LET b == req[q].book
      f == req[q].fmt
  IN
  /\ req[q].at = "finishing"
  /\ req[q].op # "purge"
  /\ LoopIsFree(q)
  /\ file' = IF f = NoFormat THEN file
             ELSE [file EXCEPT ![b] = [g \in Format |-> IF g = f THEN @[g] ELSE 0]]
  /\ req' = [req EXCEPT ![q] = Idle]
  /\ UNCHANGED <<row, writes, crashes, excused>>

(* After a rollback: the file goes if it is still the one settle saw.      *)
Discard(q) ==
  LET b == req[q].book
      f == req[q].fmt
  IN
  /\ req[q].at = "undoing"
  /\ LoopIsFree(q)
  /\ file' = IF req[q].written # 0 /\ file[b][f] = req[q].written
             THEN [file EXCEPT ![b][f] = 0] ELSE file
  /\ req' = [req EXCEPT ![q] = Idle]
  /\ UNCHANGED <<row, writes, crashes, excused>>

----------------------------------------------------------------------------
(* add_copy: the row first, for its id, then the image under that id.      *)

InsertCopy(q, b, c) ==
  /\ req[q] = Idle
  /\ Exists(b)
  /\ row[c] = Unborn
  /\ row' = [row EXCEPT ![c] = NoCover]
  /\ req' = [req EXCEPT ![q] = [Idle EXCEPT !.op = "copy", !.at = "copying",
                                            !.book = c, !.from = b]]
  /\ UNCHANGED <<file, writes, crashes, excused>>

(* The row of the source is read again after the commit.                   *)
CopyImage(q) ==
  LET b == req[q].from
      c == req[q].book
      f == First(Present(b))
  IN
  /\ req[q].at = "copying"
  /\ row[b] \in Local
  /\ Present(b) # {}
  /\ writes < MaxWrites
  /\ writes' = writes + 1
  /\ file' = [file EXCEPT ![c] = [g \in Format |-> IF g = f THEN writes + 1 ELSE 0]]
  /\ req' = [req EXCEPT ![q].at = "settling", ![q].before = Present(c),
                        ![q].fmt = f, ![q].url = <<c, f>>]
  /\ UNCHANGED <<row, crashes, excused>>

(* The source has a remote cover, which the copy then takes and fetches    *)
(* for itself, or none, or is gone, or its file cannot be read.            *)
CopyNoImage(q) ==
  LET b == req[q].from IN
  /\ req[q].at = "copying"
  /\ req' = [req EXCEPT ![q] = IF Exists(b) /\ row[b] \notin Local
                               THEN [@ EXCEPT !.at = "looking", !.cover = row[b]] ELSE Idle]
  /\ UNCHANGED <<row, file, writes, crashes, excused>>

----------------------------------------------------------------------------
(* A Book goes for good: the row, then every file of it. *)

LookUpToPurge(q, b) ==
  /\ req[q] = Idle
  /\ Exists(b)
  /\ req' = [req EXCEPT ![q] = [Idle EXCEPT !.op = "purge", !.at = "purging", !.book = b]]
  /\ UNCHANGED <<row, file, writes, crashes, excused>>

Purge(q) ==
  /\ req[q].at = "purging"
  /\ IF Exists(req[q].book)
     THEN /\ row' = [row EXCEPT ![req[q].book] = Gone]
          /\ req' = [req EXCEPT ![q].at = "finishing"]
     ELSE /\ req' = [req EXCEPT ![q] = Idle]
          /\ UNCHANGED row
  /\ UNCHANGED <<file, writes, crashes, excused>>

NoFiles == [f \in Format |-> 0]

RemoveFiles(q) ==
  /\ req[q].at = "finishing"
  /\ req[q].op = "purge"
  /\ file' = [file EXCEPT ![req[q].book] = NoFiles]
  /\ req' = [req EXCEPT ![q] = Idle]
  /\ UNCHANGED <<row, writes, crashes, excused>>

----------------------------------------------------------------------------
(* merge_books, for one loser.  _MergeCovers plans before the commit and   *)
(* moves after it.                                                         *)

(* The keeper without a cover takes the loser's, and when that is a file   *)
(* of the loser's, the name the file is going to have.                     *)
PlanMerge(q, k, l) ==
  LET taken == IF row[k] = NoCover THEN row[l] ELSE row[k]
      here == Present(l) # {}
      adopts == here /\ taken = <<l, First(Present(l))>>
  IN
  /\ req[q] = Idle
  /\ k # l
  /\ Exists(k) /\ Exists(l)
  /\ req' = [req EXCEPT ![q] =
       [Idle EXCEPT !.op = "merge", !.at = "merging", !.book = k, !.from = l,
                    !.cover = row[k],
                    !.fmt = IF adopts THEN First(Present(l)) ELSE NoFormat,
                    !.url = IF adopts THEN <<k, First(Present(l))>> ELSE taken]]
  /\ excused' = Contended(q, {k, l})
  /\ UNCHANGED <<row, file, writes, crashes>>

(* A row gone meanwhile, or any other refusal, and nothing has moved.      *)
MergeFails(q) ==
  /\ req[q].at = "merging"
  /\ req' = [req EXCEPT ![q] = Idle]
  /\ UNCHANGED <<row, file, writes, crashes, excused>>

CommitMerge(q) ==
  LET k == req[q].book
      l == req[q].from
      changed == req[q].url # req[q].cover
  IN
  /\ req[q].at = "merging"
  /\ Exists(l)
  /\ changed => Exists(k)
  /\ row' = [row EXCEPT ![l] = Gone, ![k] = IF changed THEN req[q].url ELSE @]
  /\ req' = [req EXCEPT ![q].at = IF req[q].fmt = NoFormat THEN "clearing" ELSE "moving"]
  /\ UNCHANGED <<file, writes, crashes, excused>>

MoveFile(q) ==
  LET k == req[q].book
      l == req[q].from
      f == First(Present(l))
  IN
  /\ req[q].at = "moving"
  /\ Present(l) # {}
  /\ writes < MaxWrites
  /\ writes' = writes + 1
  /\ file' = [file EXCEPT ![k] = [g \in Format |-> IF g = f THEN writes + 1 ELSE 0],
                          ![l][f] = 0]
  /\ req' = [req EXCEPT ![q].at = "clearing"]
  /\ UNCHANGED <<row, crashes, excused>>

(* The bytes stay under the loser's id, the only copy there is, and the    *)
(* keeper's row stops promising them.                                      *)
MoveFails(q) ==
  /\ req[q].at = "moving"
  /\ req' = [req EXCEPT ![q].at = "correcting"]
  /\ UNCHANGED <<row, file, writes, crashes, excused>>

ClearLoser(q) ==
  /\ req[q].at = "clearing"
  /\ file' = [file EXCEPT ![req[q].from] = NoFiles]
  /\ req' = [req EXCEPT ![q] = Idle]
  /\ UNCHANGED <<row, writes, crashes, excused>>

CorrectKeeper(q) ==
  LET k == req[q].book IN
  /\ req[q].at = "correcting"
  /\ row' = IF Exists(k) THEN [row EXCEPT ![k] = NoCover] ELSE row
  /\ req' = [req EXCEPT ![q] = Idle]
  /\ UNCHANGED <<file, writes, crashes, excused>>

----------------------------------------------------------------------------

(* The process dies: what was queued for a commit or a rollback never runs *)
Crash ==
  /\ crashes < MaxCrashes
  /\ crashes' = crashes + 1
  /\ excused' = excused \cup TouchedBy(Requests)
  /\ req' = [q \in Requests |-> Idle]
  /\ UNCHANGED <<row, file, writes>>

Init ==
  /\ row \in [Books -> {Unborn, NoCover, Remote} \cup Local]
  /\ \A b \in Books : row[b] \in Local => row[b][1] = b
  /\ file = [b \in Books |-> [f \in Format |-> IF row[b] = <<b, f>> THEN MaxWrites + 1 ELSE 0]]
  /\ req = [q \in Requests |-> Idle]
  /\ writes = 0
  /\ crashes = 0
  /\ excused = {}

Start(q) ==
  \/ \E b \in Books : \/ \E op \in {"upload", "fetch"} : LookUpToWrite(q, op, b)
                      \/ LookForMissing(q, b) \/ LookUpToPurge(q, b)
  \/ \E b, c \in Books : InsertCopy(q, b, c) \/ PlanMerge(q, b, c)

Step(q) ==
  \/ LookAtDisk(q) \/ (\E f \in Format : Write(q, f)) \/ WriteFails(q) \/ Settle(q)
  \/ Commit(q) \/ CommitFails(q) \/ Sweep(q) \/ Discard(q)
  \/ CopyImage(q) \/ CopyNoImage(q) \/ Purge(q) \/ RemoveFiles(q)
  \/ CommitMerge(q) \/ MergeFails(q) \/ MoveFile(q) \/ MoveFails(q)
  \/ ClearLoser(q) \/ CorrectKeeper(q)

Next == (\E q \in Requests : Start(q) \/ Step(q)) \/ Crash

Spec == Init /\ [][Next]_vars

----------------------------------------------------------------------------

Request ==
  [op : Writing \cup {"none", "purge"},
   at : {"idle", "looking", "writing", "settling", "committing", "finishing", "undoing",
         "copying", "purging", "merging", "moving", "clearing", "correcting"},
   book : Books \cup {"none"}, from : Books \cup {"none"},
   fmt : Format \cup {NoFormat}, before : SUBSET Format,
   cover : Url, url : Url, written : 0 .. MaxWrites + 1]

TypeOK ==
  /\ row \in [Books -> Url \cup NoRow]
  /\ file \in [Books -> [Format -> 0 .. MaxWrites + 1]]
  /\ req \in [Requests -> Request]
  /\ writes \in 0 .. MaxWrites
  /\ crashes \in 0 .. MaxCrashes
  /\ excused \subseteq Books

(* A row that names a cover here has the file, whatever uploads, copies    *)
(* and merges failed half way, and whatever was purged meanwhile.  Between *)
(* its commit and its move a merge is the exception.                       *)
NamedCoverIsThere ==
  \A b \in Books \ excused :
    row[b] \in Local /\ (\A q \in Requests : req[q].at \in {"moving", "correcting"}
                                              => req[q].book # b) =>
      row[b][1] = b /\ file[b][row[b][2]] # 0

(* A Book nobody is writing has no cover but the one its row names: what a *)
(* later copy or merge finds on the disk is never an image whose upload    *)
(* failed.                                                                 *)
NothingLeftBehind ==
  \A b \in Books \ (excused \cup TouchedBy(Requests)) :
    Exists(b) => \A f \in Present(b) : row[b] = <<b, f>>
=============================================================================
