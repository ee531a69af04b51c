------------------------------ MODULE Backfill ------------------------------
(***************************************************************************)
(* The two backfills a member presses again and again: the covers of Books *)
(* that have none, and the Books a store's own identifier can fill in.     *)
(*                                                                         *)
(* A press takes a batch of candidates past a cursor, asks about them in   *)
(* waves until its deadline, commits, and replies with the cursor to go on *)
(* from: the last Book of the unbroken run it has a verdict on, or 0 at    *)
(* the end.  Other requests delete candidates, and make and unmake them,   *)
(* while a press waits.                                                    *)
(*                                                                         *)
(* The two routes differ in how they select, in what of the batch is       *)
(* written, and in when they commit; the variable `route` says which one   *)
(* this is.  What a verdict writes is the subject of module Enrichment,    *)
(* and the files a cover writes that of CoverFiles.                        *)
(***************************************************************************)
EXTENDS Naturals, FiniteSets, Sequences, FiniteSetsExt, SequencesExt

CONSTANTS
  NumBooks,    \* ids 1 .. NumBooks
  MaxBatch,    \* MAX_BACKFILL_BOOKS, MAX_IDENTIFIER_BACKFILL
  Wave,        \* MAX_CONCURRENT_FETCHES, IDENTIFIER_BACKFILL_CONCURRENCY
  MaxArise     \* bound on Books that become candidates meanwhile

VARIABLES
  route,     \* "covers" or "identifiers"
  shelf,     \* [BookIds -> "candidate", "settled", "gone"]
  cursor,    \* the page's after_id
  remaining, \* what the last press said was left, or more than there are
  press,     \* the run in flight
  due,       \* those that are candidates since the cursor was last 0
  seen,      \* those of them this walk has a verdict on
  tried,     \* what the last press has a verdict on
  arisen

vars == <<route, shelf, cursor, remaining, press, due, seen, tried, arisen>>

BookIds == 1 .. NumBooks
Unasked == "unasked"
Verdicts == {"done", "tried", Unasked}

Idle == [step |-> "idle", total |-> 0, batch |-> << >>, verdict |-> << >>]
Candidates == {b \in BookIds : shelf[b] = "candidate"}

Past(after) == {b \in Candidates : b > after}
Ascending(set) == SetToSortSeq(set, <)

----------------------------------------------------------------------------
(* A press *)

(* backfill_from_identifiers counts the candidates before it reads a page  *)
(* of them; backfill_covers reads them all.                                *)
Press ==
  /\ press = Idle
  /\ press' = [Idle EXCEPT !.step = "page", !.total = Cardinality(Past(cursor))]
  /\ remaining' = NumBooks + 1
  /\ IF cursor = 0 THEN due' = Candidates /\ seen' = {} ELSE UNCHANGED <<due, seen>>
  /\ tried' = {}
  /\ UNCHANGED <<route, shelf, cursor, arisen>>

Page ==
  LET found == Ascending(Past(cursor))
      batch == SubSeq(found, 1, Min({MaxBatch, Len(found)})) IN
  /\ press.step = "page"
  /\ press' = [press EXCEPT !.step = "ask", !.batch = batch,
                            !.total = IF route = "covers" THEN Len(found) ELSE @]
  /\ UNCHANGED <<route, shelf, cursor, remaining, due, seen, tried, arisen>>

WaveSize(at) == Min({Wave, Len(press.batch) - at})

(* One wave.  Each Book of it is answered, or was still waiting for a slot *)
(* when the time was up; if any was, the run is cut short.  What a slot's  *)
(* holder had begun is read for its answer.                                *)
AskWave ==
  LET size == WaveSize(Len(press.verdict)) IN
  /\ press.step = "ask" /\ size > 0
  /\ \E answers \in [1 .. size -> Verdicts] :
       press' = [press EXCEPT !.verdict = @ \o answers,
                   !.step = IF \E i \in 1 .. size : answers[i] = Unasked
                            THEN "commit" ELSE "ask"]
  /\ UNCHANGED <<route, shelf, cursor, remaining, due, seen, tried, arisen>>

(* The batch is done, or the deadline has passed between two waves. *)
LeaveOff ==
  /\ press.step = "ask"
  /\ press' = [press EXCEPT !.step = "commit"]
  /\ UNCHANGED <<route, shelf, cursor, remaining, due, seen, tried, arisen>>

WithVerdict(v) == {press.batch[i] : i \in {j \in DOMAIN press.verdict : press.verdict[j] = v}}

(* The rows the run has changed: each it filled, and of the covers that    *)
(* could not be fetched those whose URL is now another.                    *)
Dirty(urls) == WithVerdict("done") \cup (IF route = "covers" THEN urls ELSE {})

(* As Cleared, with the verdicts after the first Book without one counted. *)
Cleared_Counted(verdict) == Cardinality({i \in DOMAIN verdict : verdict[i] # Unasked})

(* The unbroken run of verdicts from the front. *)
Cleared(verdict) ==
  IF \E i \in DOMAIN verdict : verdict[i] = Unasked
  THEN Min({i \in DOMAIN verdict : verdict[i] = Unasked}) - 1
  ELSE Len(verdict)

(* next_after_id *)
NextAfter(examined) ==
  IF press.total <= examined THEN 0
  ELSE IF examined = 0 THEN cursor ELSE press.batch[examined]

(* The commit, and the reply: the page keeps the cursor it is given. *)
Reply(urls) ==
  LET answered == WithVerdict("done") \cup WithVerdict("tried") IN
  /\ press.step = "commit"
  /\ urls \subseteq WithVerdict("tried")
  /\ \A b \in Dirty(urls) : shelf[b] # "gone"
  /\ shelf' = [b \in BookIds |-> IF b \in WithVerdict("done") THEN "settled" ELSE shelf[b]]
  /\ remaining' = press.total - Cleared(press.verdict)
  /\ cursor' = NextAfter(Cleared(press.verdict))
  /\ seen' = seen \cup answered
  /\ tried' = answered
  /\ due' = due \ WithVerdict("done")
  /\ press' = Idle
  /\ UNCHANGED <<route, arisen>>

(* A row the run changed is gone: the whole commit is refused, the press   *)
(* is an error and the page keeps its cursor.                              *)
CommitFails(urls) ==
  /\ press.step = "commit"
  /\ urls \subseteq WithVerdict("tried")
  /\ \E b \in Dirty(urls) : shelf[b] = "gone"
  /\ press' = Idle
  /\ UNCHANGED <<route, shelf, cursor, remaining, due, seen, tried, arisen>>

----------------------------------------------------------------------------
(* Other requests *)

(* A Book is purged, or filled in by hand or by another member's press. *)
Leave(b) ==
  /\ shelf[b] = "candidate"
  /\ \E to \in {"gone", "settled"} : shelf' = [shelf EXCEPT ![b] = to]
  /\ due' = due \ {b}
  /\ UNCHANGED <<route, cursor, remaining, press, seen, tried, arisen>>

(* An import adds an identifier to a Book, or a cover is removed.  Not     *)
(* between the count and the page of one press: see WalkMissesNothing.     *)
Arise(b) ==
  /\ shelf[b] = "settled" /\ press.step # "page"
  /\ arisen < MaxArise /\ arisen' = arisen + 1
  /\ shelf' = [shelf EXCEPT ![b] = "candidate"]
  /\ UNCHANGED <<route, cursor, remaining, press, due, seen, tried>>

----------------------------------------------------------------------------
Init ==
  /\ route \in {"covers", "identifiers"}
  /\ shelf \in [BookIds -> {"candidate", "settled"}]
  /\ cursor = 0 /\ remaining = NumBooks + 1 /\ press = Idle
  /\ due = {} /\ seen = {} /\ tried = {} /\ arisen = 0

Run == Press \/ Page \/ AskWave \/ LeaveOff
Commit == \E urls \in SUBSET BookIds : Reply(urls) \/ CommitFails(urls)
Next == Run \/ Commit \/ \E b \in BookIds : Leave(b) \/ Arise(b)

(* The member presses on, and a press that asks has, again and again, an   *)
(* answer on its first Book before its time is up.                         *)
FirstIsAnswered == AskWave /\ press'.verdict[1] # Unasked
Fairness ==
  /\ WF_vars(Press) /\ WF_vars(Page) /\ WF_vars(LeaveOff) /\ WF_vars(Commit)
  /\ SF_vars(FirstIsAnswered)

Spec == Init /\ [][Next]_vars /\ Fairness

----------------------------------------------------------------------------
(* Properties *)

TypeOK ==
  /\ route \in {"covers", "identifiers"}
  /\ shelf \in [BookIds -> {"candidate", "settled", "gone"}]
  /\ cursor \in 0 .. NumBooks /\ remaining \in 0 .. NumBooks + 1
  /\ press.step \in {"idle", "page", "ask", "commit"}
  /\ press.total \in 0 .. NumBooks
  /\ press.batch \in Seq(BookIds) /\ press.verdict \in Seq(Verdicts)
  /\ Len(press.verdict) <= Len(press.batch)
  /\ due \subseteq BookIds /\ seen \subseteq BookIds /\ tried \subseteq BookIds

(* The cursor passes no Book that has been a candidate since the walk      *)
(* began and that no press has a verdict on, nor does a walk end before    *)
(* it: "a short run moves the cursor over exactly those".  A Book that     *)
(* becomes a candidate between the count and the page of one press makes   *)
(* the count one too small, and may end a walk one Book early.             *)
WalkMissesNothing ==
  \A b \in due : remaining = 0 \/ b <= cursor => b \in seen

(* What cannot be filled in does not keep the rest from being tried: a     *)
(* Book that stays a candidate is asked about again and again.             *)
EveryoneIsTried ==
  \A b \in BookIds : []<>(shelf[b] # "candidate" \/ b \in tried)
=============================================================================
