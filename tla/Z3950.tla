------------------------------- MODULE Z3950 -------------------------------
(***************************************************************************)
(* One association with a Z39.50 target: the coroutines that search        *)
(* through it, the one worker thread their calls run on, and the session   *)
(* the client keeps on that thread.  A call that has started cannot be     *)
(* taken back, so an open or a search nobody waits for any more still      *)
(* ends some time, and what it leaves must be tidied up behind it.         *)
(*                                                                         *)
(* A query is the coroutine that asks it; a record is the query it answers *)
(* and its position.  A step of the event loop is one action, a call on    *)
(* the worker thread starts in one and ends in another.                    *)
(***************************************************************************)
EXTENDS Naturals, Sequences, FiniteSets, SequencesExt

CONSTANTS
  Askers,     \* coroutines that each search once through the association
  Hits,       \* [Askers -> Nat]: what the target holds of each query
  Wanted,     \* records asked for: records, at most MAX_RECORDS
  None

VARIABLES
  opener,     \* who entered the association: see Openers
  opened,     \* what the open came to, once it has ended
  watched,    \* a session that arrives is to be closed
  ended,      \* _ended: the association raises from here on
  session,    \* _session is there
  queue,      \* calls handed to the worker and not started
  running,    \* calls started and not ended
  shut,       \* the executor takes no more calls
  lock,       \* the asker whose exchange it is
  pc,         \* where an asker is: see Stages
  reply,      \* what an asker's call came to
  got,        \* records of an asker's answer
  due,        \* askers whose deadline is past, and the opener's
  connection, \* the client's connection: none, live, freed
  resultset,  \* the query whose result set the session holds
  latched,    \* _failed of the session
  broken      \* the target refused once: searches then find nothing, silently

assoc == <<opener, opened, watched, ended, session>>
worker == <<queue, running, shut>>
client == <<connection, resultset, latched, broken>>
asking == <<lock, pc, reply, got>>
vars == <<assoc, worker, client, asking, due>>

Openers == {"new", "opening", "open", "left", "failed"}
Stages == {"out", "waiting", "searching", "fetching", "answered", "failed"}
Over == {"answered", "failed"}
Opener == "opener"
Job(op, who) == [op |-> op, who |-> who]
Said(is, what) == [is |-> is, what |-> what]
Silence == Said("nothing", None)

Init ==
  /\ opener = "new" /\ opened = None /\ watched = FALSE
  /\ ended = FALSE /\ session = FALSE
  /\ queue = <<>> /\ running = {} /\ shut = FALSE
  /\ lock = None /\ pc = [a \in Askers |-> "out"]
  /\ reply = [a \in Askers |-> Silence] /\ got = [a \in Askers |-> <<>>]
  /\ due = {}
  /\ connection = "none" /\ resultset = None
  /\ latched = FALSE /\ broken = FALSE

(* A deadline passes; the association's is the latest of them all. *)
Tick(who) ==
  /\ who \notin due
  /\ due' = IF who = Opener THEN Askers \cup {Opener} ELSE due \cup {who}
  /\ UNCHANGED <<assoc, worker, client, asking>>

----------------------------------------------------------------------------
(* The open, on the event loop.                                            *)

Begin ==
  /\ opener = "new"
  /\ IF Opener \in due
     THEN opener' = "failed" /\ ended' = TRUE /\ shut' = TRUE /\ UNCHANGED queue
     ELSE opener' = "opening" /\ queue' = Append(queue, Job("open", Opener))
          /\ UNCHANGED <<ended, shut>>
  /\ UNCHANGED <<opened, watched, session, running, client, asking, due>>

Arrive ==
  /\ opener = "opening" /\ opened # None
  /\ IF opened = "session"
     THEN opener' = "open" /\ session' = TRUE /\ UNCHANGED <<ended, shut>>
     ELSE opener' = "failed" /\ ended' = TRUE /\ shut' = TRUE /\ UNCHANGED session
  /\ UNCHANGED <<opened, watched, queue, running, client, asking, due>>

(* close_it, when the open it waits for came to outcome. *)
CloseIt(outcome, waiting) ==
  /\ queue' = IF outcome = "session" THEN Append(waiting, Job("close", Opener))
                                     ELSE waiting
  /\ shut' = TRUE

(* A deadline of the open, or of whoever awaits it, passes first.  A call  *)
(* still queued is cancelled, one that is running tidies up when it ends.  *)
GiveUp ==
  /\ opener = "opening"
  /\ opener' = "failed" /\ ended' = TRUE
  /\ IF Job("open", Opener) \in running
     THEN watched' = TRUE /\ UNCHANGED <<queue, shut>>
     ELSE /\ CloseIt(opened, SelectSeq(queue, LAMBDA j : j.op # "open"))
          /\ UNCHANGED watched
  /\ UNCHANGED <<opened, session, running, client, asking, due>>

(* _end: the first reason wins, and the close goes behind what is there. *)
End(waiting) ==
  /\ ended' = TRUE
  /\ session' = FALSE
  /\ queue' = IF ~ ended /\ session THEN Append(waiting, Job("close", Opener))
                                    ELSE waiting
  /\ shut' = (shut \/ ~ ended)

(* The body of the association is left, whatever still searches through it. *)
Leave ==
  /\ opener = "open"
  /\ opener' = "left"
  /\ End(queue)
  /\ UNCHANGED <<opened, watched, running, client, asking, due>>

----------------------------------------------------------------------------
(* A search, on the event loop.                                            *)

Ask(a) ==
  /\ pc[a] = "out" /\ opener \in {"open", "left"}
  /\ pc' = [pc EXCEPT ![a] = "waiting"]
  /\ UNCHANGED <<assoc, worker, client, lock, reply, got, due>>

(* _call: an ended association raises, and so does one out of time. *)
Call(a, op, stage) ==
  /\ reply' = [reply EXCEPT ![a] = Silence]
  /\ IF ended \/ ~ session \/ a \in due
     THEN /\ pc' = [pc EXCEPT ![a] = "failed"] /\ lock' = None
          /\ UNCHANGED queue
     ELSE /\ pc' = [pc EXCEPT ![a] = stage] /\ lock' = a
          /\ queue' = Append(queue, Job(op, a))

Free == lock = None

Enter(a) ==
  /\ pc[a] = "waiting" /\ Free
  /\ Call(a, "search", "searching")
  /\ UNCHANGED <<assoc, running, shut, client, got, due>>

Settle(a, stage) == pc' = [pc EXCEPT ![a] = stage] /\ lock' = None

(* The hit count is there: nothing to read, or the first record is. *)
Counted(a) ==
  /\ pc[a] = "searching" /\ reply[a].is = "count"
  /\ IF reply[a].what = 0
     THEN Settle(a, "answered") /\ UNCHANGED <<queue, reply>>
     ELSE Call(a, "fetch", "fetching")
  /\ got' = got
  /\ UNCHANGED <<assoc, running, shut, client, due>>

Least(m, n) == IF m < n THEN m ELSE n

(* A record is there: too much of an answer is refused whole. *)
Read(a) ==
  /\ pc[a] = "fetching" /\ reply[a].is = "record"
  /\ \/ /\ Settle(a, "failed")
        /\ got' = [got EXCEPT ![a] = <<>>] /\ UNCHANGED <<queue, reply>>
     \/ /\ got' = [got EXCEPT ![a] = Append(@, reply[a].what)]
        /\ IF Len(got'[a]) = Least(Hits[a], Wanted)
           THEN Settle(a, "answered") /\ UNCHANGED <<queue, reply>>
           ELSE Call(a, "fetch", "fetching")
  /\ UNCHANGED <<assoc, running, shut, client, due>>

Raised(a) ==
  /\ pc[a] \in {"searching", "fetching"} /\ reply[a].is = "raised"
  /\ Settle(a, "failed")
  /\ UNCHANGED <<assoc, worker, client, reply, got, due>>

(* What of an asker is queued and not started is cancelled with it. *)
Without(a) == SelectSeq(queue, LAMBDA j : j.who # a)

(* The deadline passes while the call runs: the association ends. *)
TimeOut(a) ==
  /\ pc[a] \in {"searching", "fetching"} /\ a \in due /\ reply[a] = Silence
  /\ Settle(a, "failed")
  /\ End(Without(a))
  /\ UNCHANGED <<opener, opened, watched, running, client, reply, got, due>>

(* Whoever awaits the search is cancelled: the association stays as it is. *)
Cancel(a) ==
  /\ pc[a] \in {"waiting", "searching", "fetching"}
  /\ pc' = [pc EXCEPT ![a] = "failed"]
  /\ lock' = IF lock = a THEN None ELSE lock
  /\ queue' = Without(a)
  /\ UNCHANGED <<assoc, running, shut, client, reply, got, due>>

----------------------------------------------------------------------------
(* The worker thread.                                                      *)

(* As Take, on an executor with more threads than one. *)
Take_Shared ==
  /\ queue # <<>>
  /\ running' = running \cup {Head(queue)} /\ queue' = Tail(queue)
  /\ UNCHANGED <<assoc, shut, client, asking, due>>

Take ==
  /\ queue # <<>> /\ running = {}
  /\ running' = {Head(queue)} /\ queue' = Tail(queue)
  /\ UNCHANGED <<assoc, shut, client, asking, due>>

Done(op) == \E j \in running : j.op = op /\ running' = running \ {j}

(* The client's open: a connection that reports an error is freed again. *)
Opened ==
  /\ Done("open")
  /\ \E outcome \in {"session", "raised"} :
       /\ opened' = outcome
       /\ connection' = IF outcome = "session" THEN "live" ELSE "freed"
       /\ IF watched THEN CloseIt(outcome, queue) ELSE UNCHANGED <<queue, shut>>
  /\ UNCHANGED <<opener, watched, ended, session, resultset, latched, broken,
                 asking, due>>

Tell(a, what) ==
  reply' = [reply EXCEPT ![a] = IF pc[a] \in Over THEN @ ELSE what]

(* A target that has refused answers the next search with no error and no  *)
(* hits.                                                                   *)
Count(a) == IF broken THEN 0 ELSE Hits[a]

Refuse(a) ==
  /\ latched' = TRUE /\ broken' = TRUE
  /\ Tell(a, Said("raised", None))

Latched == latched

Searched(a) ==
  /\ Job("search", a) \in running /\ running' = running \ {Job("search", a)}
  /\ IF Latched
     THEN Tell(a, Said("raised", None)) /\ UNCHANGED <<resultset, latched, broken>>
     ELSE \/ Refuse(a) /\ resultset' = None
          \/ /\ resultset' = a /\ Tell(a, Said("count", Count(a)))
             /\ UNCHANGED <<latched, broken>>
  /\ UNCHANGED <<assoc, queue, shut, connection, lock, pc, got, due>>

Fetched(a) ==
  /\ Job("fetch", a) \in running /\ running' = running \ {Job("fetch", a)}
  /\ IF Latched \/ resultset = None
     THEN Tell(a, Said("raised", None)) /\ UNCHANGED <<latched, broken>>
     ELSE \/ Refuse(a)
          \/ Tell(a, Said("record", <<resultset, Len(got[a])>>)) /\ UNCHANGED <<latched, broken>>
  /\ UNCHANGED <<assoc, queue, shut, connection, resultset, lock, pc, got, due>>

Closed ==
  /\ Done("close")
  /\ resultset' = None /\ connection' = "freed" /\ latched' = TRUE
  /\ UNCHANGED <<assoc, queue, shut, broken, asking, due>>

----------------------------------------------------------------------------
Work == Take \/ Opened \/ Closed \/ \E a \in Askers : Searched(a) \/ Fetched(a)

Answer(a) == Enter(a) \/ Counted(a) \/ Read(a) \/ Raised(a) \/ TimeOut(a)

Next ==
  \/ Begin \/ Arrive \/ GiveUp \/ Leave \/ Work
  \/ Tick(Opener)
  \/ \E a \in Askers : Tick(a) \/ Ask(a) \/ Answer(a) \/ Cancel(a)

(* A call ends: the socket has a timeout of its own.  The loop and the     *)
(* clock go on.                                                            *)
Spec ==
  /\ Init /\ [][Next]_vars
  /\ WF_vars(Work)
  /\ \A a \in Askers : WF_vars(Answer(a)) /\ WF_vars(Tick(a))

----------------------------------------------------------------------------
(* The types, and that an association that has ended holds no session. *)
TypeOK ==
  /\ opener \in Openers /\ opened \in {None, "session", "raised"}
  /\ {watched, ended, session, shut, latched, broken} \subseteq BOOLEAN
  /\ running \subseteq [op : {"open", "search", "fetch", "close"},
                        who : Askers \cup {Opener}]
  /\ pc \in [Askers -> Stages]
  /\ session => opener \in {"open", "left"} /\ ~ ended

(* An answer is its own: the count is what the target holds of the query,  *)
(* and the records are the first of that query in order.  Two searches     *)
(* through one session, or one after a refusal, would give others          *)
(* (z3950.Association, _YazSession).                                       *)
AnswersAreOwn ==
  \A a \in Askers :
    pc[a] = "answered" =>
      got[a] = [i \in 1..Least(Hits[a], Wanted) |-> <<a, i - 1>>]

(* The connection is never freed beneath a call that is still in the       *)
(* client, whoever has stopped waiting for it: a signal ends the process   *)
(* (z3950.Association, _YazSession.close).                                 *)
FreedBeneathNobody ==
  connection = "live" /\ connection' = "freed" => running' = {}

(* An association that has ended, on whichever door, is let go of in the   *)
(* end: its connection is freed and its thread stops (z3950._end,          *)
(* _close_on_arrival).                                                     *)
EndedIsReleased ==
  ended ~> (connection # "live" /\ shut /\ queue = <<>> /\ running = {})

(* Whoever searches is answered or refused in the end, also behind a call  *)
(* nobody waits for (z3950.search).                                        *)
SearchesEnd == \A a \in Askers : pc[a] = "waiting" ~> pc[a] \in Over
=============================================================================
