---------------------------- MODULE SenderHealth ----------------------------
(***************************************************************************)
(* The record each digest run leaves of its channels, and the alarm read   *)
(* from it: record_run, forget_health and _is_broken of notifications.py.  *)
(*                                                                         *)
(* The record is one JSON value holding every channel's entry.  A run      *)
(* reads it and writes it back whole once its deliveries are over; so does *)
(* an admin's settings write, in a thread of its own.  OverdueDigest says which    *)
(* loans a run chases; here a run attempts the channels that are on when   *)
(* something is due, and a delivery leaves nothing due.                    *)
(***************************************************************************)
EXTENDS Naturals, Sequences, SequencesExt

CONSTANTS
  Channels,       \* the senders that push, in the order of OverdueSender
  Runners, Ticker,
  Admins,         \* threads serving an admin's settings writes
  Outcomes,       \* what a delivery may come to
  Window,         \* BROKEN_AFTER_HOURS, in ticks of the model's clock
  MinFailures,    \* MIN_FAILURES_TO_INTERRUPT
  MaxMishaps      \* bound on settings writes and lost runs, taken together

Pushing == ToSet(Channels)

HealthAssumption ==
  /\ IsInjective(Channels)
  /\ Ticker \in Runners
  /\ Outcomes \subseteq {"sent", "refused", "unexpected", "unreachable"}
  /\ Window \in Nat
  /\ MinFailures \in Nat
  /\ MaxMishaps \in Nat

VARIABLES
  on,       \* the channels switched on
  answer,   \* [Pushing -> what a delivery would come to now]
  due,      \* whether a loan is waiting to be chased
  record,   \* SENDER_HEALTH: [Pushing -> the channel's entry]
  run,      \* [Runners -> the run in progress]
  admin,    \* [Admins -> the settings write in progress]
  mishaps,
  streak,   \* history: [Pushing -> the failed deliveries since the last that
            \* succeeded, and the age of the first of them]
  unheard   \* history: the channels whose entry may miss a success

vars == <<on, answer, due, record, run, admin, mishaps, streak, unheard>>

Ages == 0 .. Window
Older(age) == IF age < Window THEN age + 1 ELSE age
More(n) == IF n < MinFailures THEN n + 1 ELSE n

NoEntry == [outcome |-> "none", since |-> 0, failures |-> 0]
Entry == [outcome : Outcomes \cup {"none"}, since : Ages, failures : 0 .. MinFailures]
Record == [Pushing -> Entry]
Nothing == [s \in Pushing |-> NoEntry]

Failing(entry) == entry.outcome \notin {"sent", "none"}

(* _is_broken: what the app refused to send, or did not foresee, at once;  *)
(* a destination out of reach once it has failed twice, for a day.         *)
IsBroken(entry) ==
  \/ entry.outcome \in {"refused", "unexpected"}
  \/ /\ entry.outcome = "unreachable"
     /\ entry.failures >= MinFailures
     /\ entry.since >= Window

Idle == [at |-> "idle", age |-> 0, todo |-> <<>>, result |-> Nothing,
         read |-> Nothing]
LoopIsFree(r) == \A q \in Runners \ {r} : run[q].at \notin {"reading", "writing"}

Begin(r) ==
  LET channels == SelectSeq(Channels, LAMBDA s : s \in on) IN
  /\ run[r].at = "idle"
  /\ LoopIsFree(r)
  /\ run' = [run EXCEPT ![r] =
       [Idle EXCEPT !.at = IF due /\ channels # <<>> THEN "sending" ELSE "reading",
                    !.todo = IF due THEN channels ELSE <<>>]]
  /\ UNCHANGED <<on, answer, due, record, admin, mishaps, streak, unheard>>

Deliver(r) ==
  LET s == Head(run[r].todo)
      todo == Tail(run[r].todo)
      failed == answer[s] # "sent"
  IN
  /\ run[r].at = "sending"
  /\ LoopIsFree(r)
  /\ run' = [run EXCEPT ![r].todo = todo,
                        ![r].result[s].outcome = answer[s],
                        ![r].at = IF todo = <<>> THEN "reading" ELSE "sending"]
  /\ due' = (due /\ failed)
  /\ unheard' = IF failed THEN unheard ELSE unheard \cup {s}
  /\ streak' = [streak EXCEPT ![s] =
       IF failed THEN [failures |-> More(@.failures),
                       since |-> IF @.failures = 0 THEN run[r].age ELSE @.since]
       ELSE [failures |-> 0, since |-> 0]]
  /\ UNCHANGED <<on, answer, record, admin, mishaps>>

ReadRecord(r) ==
  /\ run[r].at = "reading"
  /\ run' = [run EXCEPT ![r].at = "writing", ![r].read = record]
  /\ UNCHANGED <<on, answer, due, record, admin, mishaps, streak, unheard>>

(* record_run for one channel, given its entry before the run. *)
Recorded(previous, outcome, age) ==
  IF outcome = "sent" THEN [NoEntry EXCEPT !.outcome = "sent"]
  ELSE IF Failing(previous)
       THEN [outcome |-> outcome, since |-> previous.since,
             failures |-> More(previous.failures)]
       ELSE [outcome |-> outcome, since |-> age, failures |-> 1]

Attempted(r) == {s \in Pushing : run[r].result[s].outcome # "none"}
Sent(r) == {s \in Pushing : run[r].result[s].outcome = "sent"}

(* Only the channels the run attempted are rewritten; the others go back   *)
(* as they were read.  With none attempted the row's value is the one that *)
(* was read, and no UPDATE is sent.                                        *)
WriteRecord(r) ==
  /\ run[r].at = "writing"
  /\ record' = IF Attempted(r) = {} THEN record
               ELSE [s \in Pushing |->
                       IF s \in Attempted(r)
                       THEN Recorded(run[r].read[s], run[r].result[s].outcome, run[r].age)
                       ELSE run[r].read[s]]
  /\ unheard' = unheard \ Sent(r)
  /\ run' = [run EXCEPT ![r] = Idle]
  /\ UNCHANGED <<on, answer, due, admin, mishaps, streak>>

(* The process dies, or a deleted loan refuses the commit of the stamps:   *)
(* the run records nothing, not even of the channels that failed.          *)
Lose(r) ==
  /\ run[r].at # "idle"
  /\ mishaps < MaxMishaps
  /\ mishaps' = mishaps + 1
  /\ run' = [run EXCEPT ![r] = Idle]
  /\ UNCHANGED <<on, answer, due, record, admin, streak, unheard>>

----------------------------------------------------------------------------
(* _store for a setting of a channel, its switch or another: the setting   *)
(* is committed, then the record is read and written back without the      *)
(* channel.                                                                *)

NoWrite == [at |-> "idle", channel |-> "none", read |-> Nothing]

Configure(a, s) ==
  /\ admin[a].at = "idle"
  /\ mishaps < MaxMishaps
  /\ mishaps' = mishaps + 1
  /\ on' \in {on, on \ {s}, on \cup {s}}
  /\ admin' = [admin EXCEPT ![a] = [NoWrite EXCEPT !.at = "reading", !.channel = s]]
  /\ UNCHANGED <<answer, due, record, run, streak, unheard>>

ReadToForget(a) ==
  /\ admin[a].at = "reading"
  /\ admin' = [admin EXCEPT ![a].at = "writing", ![a].read = record]
  /\ UNCHANGED <<on, answer, due, record, run, mishaps, streak, unheard>>

Forget(a) ==
  LET s == admin[a].channel IN
  /\ admin[a].at = "writing"
  /\ record' = IF admin[a].read[s] = NoEntry THEN record
               ELSE [admin[a].read EXCEPT ![s] = NoEntry]
  /\ unheard' = unheard \cup {t \in Pushing \ {s} : /\ Failing(admin[a].read[t])
                                                  /\ admin[a].read[t] # record[t]}
  /\ admin' = [admin EXCEPT ![a] = NoWrite]
  /\ UNCHANGED <<on, answer, due, run, mishaps, streak>>

Weather ==
  /\ \E s \in Pushing, o \in Outcomes : answer' = [answer EXCEPT ![s] = o]
  /\ UNCHANGED <<on, due, record, run, admin, mishaps, streak, unheard>>

(* The interval has passed on a loan still out, or another has fallen due. *)
FallDue ==
  /\ ~ due
  /\ due' = TRUE
  /\ UNCHANGED <<on, answer, record, run, admin, mishaps, streak, unheard>>

OlderRecord(rec) ==
  [s \in Pushing |-> IF Failing(rec[s]) THEN [rec[s] EXCEPT !.since = Older(@)]
                     ELSE rec[s]]

(* A run is over within the hour, and the window is a day.                 *)
Tick ==
  /\ \A r \in Runners : run[r].at = "idle" \/ run[r].age < Window
  /\ record' = OlderRecord(record)
  /\ run' = [r \in Runners |->
       IF run[r].at = "idle" THEN run[r]
       ELSE [run[r] EXCEPT !.age = Older(@), !.read = OlderRecord(@)]]
  /\ admin' = [a \in Admins |-> [admin[a] EXCEPT !.read = OlderRecord(@)]]
  /\ streak' = [s \in Pushing |-> IF streak[s].failures = 0 THEN streak[s]
                                  ELSE [streak[s] EXCEPT !.since = Older(@)]]
  /\ UNCHANGED <<on, answer, due, mishaps, unheard>>

Init ==
  /\ on = Pushing
  /\ answer \in [Pushing -> Outcomes]
  /\ due = FALSE
  /\ record = Nothing
  /\ run = [r \in Runners |-> Idle]
  /\ admin = [a \in Admins |-> NoWrite]
  /\ mishaps = 0
  /\ unheard = {}
  /\ streak = [s \in Pushing |-> [failures |-> 0, since |-> 0]]

RunStep(r) == Begin(r) \/ Deliver(r) \/ ReadRecord(r) \/ WriteRecord(r) \/ Lose(r)
AdminStep(a) == (\E s \in Pushing : Configure(a, s)) \/ ReadToForget(a) \/ Forget(a)

Next ==
  \/ \E r \in Runners : RunStep(r)
  \/ \E a \in Admins : AdminStep(a)
  \/ Weather \/ FallDue \/ Tick

Spec == Init /\ [][Next]_vars

(* The ticker runs for ever, time passes, and loans keep falling due.      *)
Fairness == /\ \A r \in Runners : SF_vars(Deliver(r)) /\ WF_vars(ReadRecord(r))
                                  /\ WF_vars(WriteRecord(r))
            /\ SF_vars(Begin(Ticker)) /\ WF_vars(Tick) /\ WF_vars(FallDue)

FairSpec == Spec /\ Fairness

----------------------------------------------------------------------------

TypeOK ==
  /\ on \subseteq Pushing
  /\ answer \in [Pushing -> Outcomes]
  /\ due \in BOOLEAN
  /\ record \in Record
  /\ \A r \in Runners : run[r].read \in Record /\ run[r].todo \in Seq(Pushing)
  /\ \A a \in Admins : admin[a].read \in Record
  /\ mishaps \in 0 .. MaxMishaps
  /\ unheard \subseteq Pushing

(* "One failed send is a network": the app interrupts nobody about a       *)
(* destination out of reach unless its last two deliveries both failed and *)
(* the first of them is a day old.  The exception is a channel that        *)
(* delivered in a run that was lost or has yet to be recorded, or whose    *)
(* entry a settings write of another channel undid.                        *)
NoFalseAlarm ==
  \A s \in Pushing :
    record[s].outcome = "unreachable" /\ IsBroken(record[s]) =>
      \/ streak[s].failures >= MinFailures /\ streak[s].since >= Window
      \/ s \in unheard

(* "Every send failing for a day is a configuration": a channel that stays *)
(* on and never delivers is reported broken, also beside one that works,   *)
(* whatever runs are lost and whichever settings writes undo a record.     *)
BrokenIsReported ==
  \A s \in Pushing :
    s \in on /\ answer[s] # "sent"
      ~> IsBroken(record[s]) \/ s \notin on \/ answer[s] = "sent"
=============================================================================
