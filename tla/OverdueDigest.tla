--------------------------- MODULE OverdueDigest ---------------------------
(***************************************************************************)
(* The overdue digest of notifications.py: the hourly ticker, and an       *)
(* admin's "Send now", each select the loans to chase, hand them to every  *)
(* channel that is switched on, and stamp notified_at if one delivery      *)
(* succeeded.                                                              *)
(*                                                                         *)
(* Runs are coroutines of one event loop: another run can only step in     *)
(* while a delivery is awaited.  Handlers in the thread pool (a return, a  *)
(* purge, a Book made private, a settings write) step in anywhere.         *)
(*                                                                         *)
(* Clocks are ages: how long ago, up to a cap past which nothing changes,  *)
(* so the model needs no bound on time.  What a digest says, and which     *)
(* exception a failed delivery raised, are left out; SenderHealth has the  *)
(* record of failures.                                                     *)
(***************************************************************************)
EXTENDS Naturals, Sequences, SequencesExt

CONSTANTS
  Loans,        \* loans with a due date
  Channels,     \* the senders that push, in the order of OverdueSender
  InApp,        \* the sender that does not push
  Runners,      \* the ticker, and the "Send now" requests in flight
  Ticker,
  Interval,     \* overdue_reminder_days, in ticks of the model's clock
  Reissued,     \* the ids given out again once purged: SQLite's largest, or none
  MaxCrashes    \* bound on process deaths

Pushing == ToSet(Channels)

ASSUME DigestAssumption ==
  /\ IsInjective(Channels)
  /\ InApp \notin Pushing
  /\ Ticker \in Runners
  /\ Interval \in Nat
  /\ Reissued \subseteq Loans
  /\ MaxCrashes \in Nat

VARIABLES
  loan,       \* [Loans -> "lent" | "overdue" | "back" | "gone"], by id
  hidden,     \* [Loans -> BOOLEAN]: its Book is private
  notified,   \* [Loans -> age of notified_at, Never for NULL]
  on,         \* the senders switched on
  up,         \* the channels whose next delivery would succeed
  run,        \* [Runners -> the run in progress]
  crashes,
  told,       \* history: [Pushing -> [Loans -> age of the newest run that told]]
  unstamped,  \* history: loans told by a run that died before its commit
  mistaken    \* history: loans stamped for the one that had their id before

vars ==
  <<loan, hidden, notified, on, up, run, crashes, told, unstamped, mistaken>>
shop == <<loan, hidden, on, up, crashes>>
history == <<told, unstamped, mistaken>>

Cap == Interval + 1
Ages == 0 .. Cap
Never == Cap + 1
Sooner(a, b) == IF a < b THEN a ELSE b
Older(age) == IF age < Cap THEN age + 1 ELSE age

----------------------------------------------------------------------------
(* Runs *)

(* A run holds the ids it selected; in `same` are those that still name    *)
(* the loan it selected, and no later one.                                 *)
Idle == [at |-> "idle", age |-> 0, loans |-> {}, same |-> {},
         todo |-> {}, sent |-> {}]

Run == [at : {"idle", "sending", "stamping"}, age : Ages, loans : SUBSET Loans,
        same : SUBSET Loans, todo : SUBSET Pushing, sent : SUBSET Pushing]

(* No run is between its last delivery and its return. *)
LoopIsFree(r) == \A q \in Runners \ {r} : run[q].at # "stamping"

(* due_for_reminder: open, past its date, on a Book a channel may name, and *)
(* not chased within the interval.                                         *)
IsOverdue(l) == loan[l] = "overdue"
ForAChannel(l) == ~ hidden[l]

(* As DueForReminder for a query that forgets the interval. *)
DueForReminder_EveryRun == {l \in Loans : IsOverdue(l) /\ ForAChannel(l)}

DueForReminder == {l \in Loans : /\ IsOverdue(l)
                                 /\ ForAChannel(l)
                                 /\ notified[l] > Interval}

(* As Select attempting every sender that is on. *)
Select_InAppToo(r) ==
  /\ run[r].at = "idle" /\ LoopIsFree(r)
  /\ on # {} /\ DueForReminder # {}
  /\ run' = [run EXCEPT ![r] = [at |-> "sending", age |-> 0, sent |-> {},
                                loans |-> DueForReminder,
                                same |-> DueForReminder, todo |-> on]]
  /\ UNCHANGED <<shop, notified, history>>

(* A run with no channel on, or nothing to chase, ends where it began. *)
Select(r) ==
  /\ run[r].at = "idle"
  /\ LoopIsFree(r)
  /\ on \cap Pushing # {}
  /\ DueForReminder # {}
  /\ run' = [run EXCEPT ![r] =
               [at |-> "sending", age |-> 0, sent |-> {},
                loans |-> DueForReminder, same |-> DueForReminder,
                todo |-> on \cap Pushing]]
  /\ UNCHANGED <<shop, notified, history>>

(* As MayStamp over every outcome, the in app entry's with them. *)
MayStamp_InAppToo(sent) == sent # {} \/ InApp \in on

(* Only a channel that pushes, and only one that delivered, lets the run   *)
(* stamp.                                                                  *)
MayStamp(sent) == sent # {}

(* The channels are tried one after the other, as the enum lists them.     *)
Precedes(s, t) ==
  \E i, j \in DOMAIN Channels : i <= j /\ Channels[i] = s /\ Channels[j] = t
IsNext(r, s) == s \in run[r].todo /\ \A t \in run[r].todo : Precedes(s, t)

(* One awaited delivery ends.  The last one is followed, with nothing      *)
(* awaited, by the stamp.                                                  *)
Deliver(r, s) ==
  LET sent == run[r].sent \cup ({s} \cap up)
      todo == run[r].todo \ {s}
      next == [run[r] EXCEPT !.todo = todo, !.sent = sent]
  IN
  /\ run[r].at = "sending"
  /\ LoopIsFree(r)
  /\ IsNext(r, s)
  /\ run' = [run EXCEPT ![r] =
               IF todo # {} THEN next
               ELSE IF MayStamp(sent) THEN [next EXCEPT !.at = "stamping"]
               ELSE Idle]
  /\ told' = IF s \in up
             THEN [told EXCEPT ![s] = [l \in Loans |->
                     IF l \in run[r].same THEN Sooner(run[r].age, told[s][l])
                     ELSE told[s][l]]]
             ELSE told
  /\ UNCHANGED <<shop, notified, unstamped, mistaken>>

(* The commit stamps every id selected, with the clock the run read: the   *)
(* UPDATE names the id, and finds whichever loan has it by now.            *)
Stamp(r) ==
  /\ run[r].at = "stamping"
  /\ \A l \in run[r].loans : loan[l] # "gone"
  /\ notified' = [l \in Loans |->
                    IF l \in run[r].loans THEN run[r].age ELSE notified[l]]
  /\ unstamped' = unstamped \ run[r].loans
  /\ mistaken' = (mistaken \ run[r].same) \cup (run[r].loans \ run[r].same)
  /\ run' = [run EXCEPT ![r] = Idle]
  /\ UNCHANGED <<shop, told>>

(* As StampRefused when the ticker does not swallow the error: its task is *)
(* left where it was.                                                      *)
StampRefused_KillsTicker(r) ==
  /\ run[r].at = "stamping"
  /\ \E l \in run[r].loans : loan[l] = "gone"
  /\ unstamped' = unstamped \cup run[r].same
  /\ UNCHANGED <<shop, run, notified, told, mistaken>>

(* An id that names no loan any more refuses the commit, and with it the  *)
(* stamps of all the others.                                               *)
StampRefused(r) ==
  /\ run[r].at = "stamping"
  /\ \E l \in run[r].loans : loan[l] = "gone"
  /\ unstamped' = unstamped \cup run[r].same
  /\ run' = [run EXCEPT ![r] = Idle]
  /\ UNCHANGED <<shop, notified, told, mistaken>>

----------------------------------------------------------------------------
(* Everything else that happens *)

FallDue(l) == loan[l] = "lent" /\ loan' = [loan EXCEPT ![l] = "overdue"]
Return(l) == loan[l] \in {"lent", "overdue"} /\ loan' = [loan EXCEPT ![l] = "back"]

LoanMoves ==
  /\ \E l \in Loans : FallDue(l) \/ Return(l)
  /\ UNCHANGED <<hidden, notified, on, up, run, crashes, history>>

(* Its Book is purged, which trashing closed the loan for: the row goes,   *)
(* and what was said of it.  A run in flight keeps the id.                 *)
Purge(l) ==
  /\ loan[l] = "back"
  /\ loan' = [loan EXCEPT ![l] = "gone"]
  /\ hidden' = [hidden EXCEPT ![l] = FALSE]
  /\ notified' = [notified EXCEPT ![l] = Never]
  /\ told' = [s \in Pushing |-> [told[s] EXCEPT ![l] = Never]]
  /\ unstamped' = unstamped \ {l}
  /\ mistaken' = mistaken \ {l}
  /\ run' = [r \in Runners |-> [run[r] EXCEPT !.same = @ \ {l}]]
  /\ UNCHANGED <<on, up, crashes>>

(* loans.id is no AUTOINCREMENT: on SQLite a new loan, of any Book, may be *)
(* given the id of a purged one.                                           *)
LendAgain ==
  /\ \E l \in Reissued, private \in BOOLEAN :
       /\ loan[l] = "gone"
       /\ loan' = [loan EXCEPT ![l] = "lent"]
       /\ hidden' = [hidden EXCEPT ![l] = private]
  /\ UNCHANGED <<notified, on, up, run, crashes, history>>

SetPrivacy ==
  /\ \E l \in Loans :
       loan[l] # "gone" /\ hidden' = [hidden EXCEPT ![l] = ~ @]
  /\ UNCHANGED <<loan, notified, on, up, run, crashes, history>>

Switch ==
  /\ \E s \in Pushing \cup {InApp} :
       on' = IF s \in on THEN on \ {s} ELSE on \cup {s}
  /\ UNCHANGED <<loan, hidden, notified, up, run, crashes, history>>

(* A destination breaks or comes back, or its configuration is mended. *)
Weather ==
  /\ \E s \in Pushing : up' = IF s \in up THEN up \ {s} ELSE up \cup {s}
  /\ UNCHANGED <<loan, hidden, notified, on, run, crashes, history>>

OlderOrNever(age) == IF age = Never THEN Never ELSE Older(age)

(* Every delivery times out within seconds, and an interval is a day at    *)
(* least: no run outlives one.                                             *)
RunsAreShort == \A r \in Runners : run[r].at = "idle" \/ run[r].age < Interval

Tick ==
  /\ RunsAreShort
  /\ notified' = [l \in Loans |-> OlderOrNever(notified[l])]
  /\ told' = [s \in Pushing |-> [l \in Loans |-> OlderOrNever(told[s][l])]]
  /\ run' = [r \in Runners |-> IF run[r].at = "idle" THEN Idle
                               ELSE [run[r] EXCEPT !.age = Older(@)]]
  /\ UNCHANGED <<shop, unstamped, mistaken>>

(* The process dies: runs end, and a loan one of them had told stays       *)
(* without its stamp.                                                      *)
Crash ==
  /\ crashes < MaxCrashes
  /\ crashes' = crashes + 1
  /\ run' = [r \in Runners |-> Idle]
  /\ unstamped' = unstamped \cup
       UNION {IF run[r].sent = {} THEN {} ELSE run[r].same : r \in Runners}
  /\ UNCHANGED <<loan, hidden, notified, on, up, told, mistaken>>

Init ==
  /\ loan = [l \in Loans |-> "lent"]
  /\ hidden \in [Loans -> BOOLEAN]
  /\ notified = [l \in Loans |-> Never]
  /\ on \in {{}, {InApp}, Pushing}
  /\ up = Pushing
  /\ run = [r \in Runners |-> Idle]
  /\ crashes = 0
  /\ told = [s \in Pushing |-> [l \in Loans |-> Never]]
  /\ unstamped = {}
  /\ mistaken = {}

DeliverNext(r) == \E s \in Pushing : Deliver(r, s)
Flush(r) == Stamp(r) \/ StampRefused(r)
RunStep(r) == Select(r) \/ DeliverNext(r) \/ Flush(r)

Next ==
  \/ \E r \in Runners : RunStep(r)
  \/ LoanMoves \/ LendAgain \/ (\E l \in Loans : Purge(l))
  \/ SetPrivacy \/ Switch \/ Weather \/ Tick \/ Crash

Spec == Init /\ [][Next]_vars

(* The ticker's loop never ends, a delivery times out, and the event loop  *)
(* runs whatever is ready in turn: no run that may step waits for ever.    *)
Fairness ==
  /\ SF_vars(Select(Ticker))
  /\ \A r \in Runners : SF_vars(DeliverNext(r)) /\ WF_vars(Flush(r))

FairSpec == Spec /\ Fairness

----------------------------------------------------------------------------

TypeOK ==
  /\ loan \in [Loans -> {"lent", "overdue", "back", "gone"}]
  /\ hidden \in [Loans -> BOOLEAN]
  /\ notified \in [Loans -> Ages \cup {Never}]
  /\ on \subseteq Pushing \cup {InApp}
  /\ up \subseteq Pushing
  /\ run \in [Runners -> Run]
  /\ crashes \in 0 .. MaxCrashes
  /\ told \in [Pushing -> [Loans -> Ages \cup {Never}]]
  /\ unstamped \subseteq Loans
  /\ mistaken \subseteq Loans

(* Loan.notified_at: "When an overdue reminder last went out for this      *)
(* loan".  A stamp is never newer than the last run that told somebody of  *)
(* the loan, even when two runs commit out of order.  The exception is a   *)
(* loan whose id another had when the run selected it: it is stamped for   *)
(* the other one, and nobody was told of it.                               *)
WasTold(l) == \E s \in Pushing : told[s][l] <= notified[l]
StampedWasTold ==
  \A l \in Loans : notified[l] # Never => WasTold(l) \/ l \in mistaken

(* A channel is told of a loan once per interval.  The exception is a loan *)
(* whose earlier run died before its commit: that one is told again.       *)
ToldOncePerInterval ==
  [][ \A r \in Runners, s \in Pushing, l \in Loans :
        Deliver(r, s) /\ s \in up /\ l \in run[r].same =>
          told[s][l] > Interval \/ l \in unstamped ]_vars

(* A loan that stays overdue on a public Book is chased, as long as one    *)
(* channel stays switched on and reachable: failures of the others, dead   *)
(* runs and deleted loans only delay it.  Only loans purged under one run  *)
(* after the other, for ever, could put it off for ever.  (A loan stamped  *)
(* for another that had its id leaves the selection untold, for one        *)
(* interval.)                                                              *)
OverdueIsChased ==
  []<><<LendAgain>>_vars \/ \A s \in Pushing, l \in Loans :
    l \in DueForReminder /\ s \in on /\ s \in up
      ~> l \notin DueForReminder \/ s \notin on \/ s \notin up
=============================================================================
