----------------------- MODULE OverdueDigest_proofs -----------------------
(***************************************************************************)
(* The overdue digest, for every set of loans and channels and any         *)
(* interval: what a stamp means, whoever runs beside the ticker, and how   *)
(* often a channel is told of a loan, when nobody does.                    *)
(***************************************************************************)
EXTENDS OverdueDigest, TLAPS

(* What a run in progress has done: of the loans that are still the ones   *)
(* it selected, who it sent to was told no longer ago than it began, and   *)
(* it stamps only if it sent to somebody.                                  *)
RunRemembers(r) ==
  /\ run[r].at = "idle" => run[r] = Idle
  /\ run[r].at = "stamping" => run[r].sent # {}
  /\ run[r].same \subseteq run[r].loans
  /\ \A s \in run[r].sent, l \in run[r].same : told[s][l] <= run[r].age

(* An id no longer names the loan selected only where ids are given out    *)
(* again, or while it names none.                                          *)
ChangedHands ==
  /\ \A r \in Runners, l \in Loans \ Reissued :
       l \in run[r].loans \ run[r].same => loan[l] = "gone"
  /\ mistaken \subseteq Reissued

IInv ==
  /\ TypeOK
  /\ \A r \in Runners : RunRemembers(r)
  /\ StampedWasTold
  /\ ChangedHands

LEMMA AgesAreNumbers ==
  /\ Interval \in Nat
  /\ \A a \in Ages \cup {Never} : a \in Nat
  /\ \A a \in Ages : Older(a) \in Ages /\ a <= Older(a)
  /\ \A a \in Ages \cup {Never} : /\ OlderOrNever(a) \in Ages \cup {Never}
                                  /\ OlderOrNever(a) = Never <=> a = Never
                                  /\ a <= OlderOrNever(a)
  /\ \A a, b \in Ages \cup {Never} : /\ Sooner(a, b) \in {a, b}
                                     /\ Sooner(a, b) <= a /\ Sooner(a, b) <= b
                                     /\ a <= b => OlderOrNever(a) <= OlderOrNever(b)
  /\ \A a \in Ages, b \in Ages \cup {Never} :
       /\ a <= b => Older(a) <= OlderOrNever(b)
       /\ b <= a => OlderOrNever(b) <= Older(a)
  /\ 0 \in Ages /\ Never \notin Ages
BY DigestAssumption DEF Ages, Cap, Never, Older, OlderOrNever, Sooner

LEMMA IdleIsRun == Idle \in Run
BY AgesAreNumbers DEF Idle, Run

LEMMA IdleHasSentNothing ==
  /\ Idle.at = "idle" /\ Idle.sent = {} /\ Idle.loans = {} /\ Idle.todo = {}
  /\ Idle.same = {}
BY DEF Idle

LEMMA InitInv == Init => IInv
<1> SUFFICES ASSUME Init PROVE IInv
  OBVIOUS
<1>1. TypeOK
  BY DigestAssumption, IdleIsRun DEF Init, TypeOK
<1>2. \A r \in Runners : RunRemembers(r)
  BY IdleHasSentNothing DEF Init, RunRemembers
<1>3. StampedWasTold
  BY DEF Init, StampedWasTold
<1>4. ChangedHands
  BY IdleHasSentNothing DEF Init, ChangedHands
<1> QED BY <1>1, <1>2, <1>3, <1>4 DEF IInv

(* What only moves loans, switches or destinations leaves runs and clocks  *)
(* alone.                                                                  *)
LEMMA OthersKeepInv ==
  ASSUME IInv, TypeOK', UNCHANGED <<run, notified, told, mistaken>>,
         \A l \in Loans \ Reissued : loan[l] = "gone" => loan'[l] = "gone"
  PROVE  IInv'
<1>1. (\A r \in Runners : RunRemembers(r))'
  BY DEF IInv, RunRemembers
<1>2. StampedWasTold'
  BY DEF IInv, StampedWasTold, WasTold
<1>3. ChangedHands'
  BY DEF IInv, ChangedHands
<1> QED BY <1>1, <1>2, <1>3 DEF IInv

(* A run that ends leaves the others as they were. *)
LEMMA EndKeepsRuns ==
  ASSUME IInv, NEW r \in Runners, run' = [run EXCEPT ![r] = Idle], UNCHANGED told
  PROVE  /\ run' \in [Runners -> Run]
         /\ (\A q \in Runners : RunRemembers(q))'
         /\ \A q \in Runners : run'[q] \in {run[q], Idle}
<1>1. run' \in [Runners -> Run]
  BY IdleIsRun DEF IInv, TypeOK
<1>2. ASSUME NEW q \in Runners PROVE RunRemembers(q)'
  <2>1. CASE q = r
    <3>1. run'[q] = Idle
      BY <2>1 DEF IInv, TypeOK
    <3> QED BY <3>1, IdleHasSentNothing DEF RunRemembers
  <2>2. CASE q # r
    <3>1. run'[q] = run[q]
      BY <2>2 DEF IInv, TypeOK
    <3> QED BY <3>1 DEF IInv, RunRemembers
  <2> QED BY <2>1, <2>2
<1>3. \A q \in Runners : run'[q] \in {run[q], Idle}
  BY DEF IInv, TypeOK
<1> QED BY <1>1, <1>2, <1>3

LEMMA SelectKeepsInv == ASSUME IInv, NEW r \in Runners, Select(r) PROVE IInv'
<1> DEFINE new == [at |-> "sending", age |-> 0, sent |-> {},
                   loans |-> DueForReminder, same |-> DueForReminder,
                   todo |-> on \cap Pushing]
<1>1. run' = [run EXCEPT ![r] = new]
  BY DEF Select
<1>2. /\ new.at = "sending" /\ new.sent = {} /\ new.same = new.loans
      /\ new \in Run
  BY AgesAreNumbers DEF Run, DueForReminder
<1> HIDE DEF new
<1>3. TypeOK'
  BY <1>1, <1>2 DEF Select, shop, history, IInv, TypeOK
<1>4. ASSUME NEW q \in Runners PROVE RunRemembers(q)'
  <2>1. UNCHANGED told
    BY DEF Select, history
  <2>2. run'[q] = IF q = r THEN new ELSE run[q]
    BY <1>1 DEF IInv, TypeOK
  <2> QED BY <1>2, <2>1, <2>2 DEF IInv, RunRemembers
<1>5. StampedWasTold'
  BY DEF Select, history, IInv, StampedWasTold, WasTold
<1>6. ChangedHands'
  BY <1>1, <1>2 DEF Select, shop, history, IInv, TypeOK, ChangedHands
<1> QED BY <1>3, <1>4, <1>5, <1>6 DEF IInv

(* What a delivery makes of its run and of what was told. *)
LEMMA DeliverDoes ==
  ASSUME IInv, NEW r \in Runners, NEW s \in Pushing, Deliver(r, s)
  PROVE  /\ run[r].at = "sending" /\ s \in run[r].todo
         /\ run' \in [Runners -> Run]
         /\ \A q \in Runners \ {r} : run'[q] = run[q]
         /\ \/ run'[r] = Idle /\ run[r].sent = {} /\ s \notin up
            \/ /\ run'[r].at \in {"sending", "stamping"}
               /\ run'[r].at = "stamping" => run'[r].sent # {}
               /\ run'[r].age = run[r].age /\ run'[r].loans = run[r].loans
               /\ run'[r].same = run[r].same
               /\ run'[r].todo = run[r].todo \ {s}
               /\ run'[r].sent = run[r].sent \cup ({s} \cap up)
         /\ told' = IF s \in up
                    THEN [told EXCEPT ![s] = [l \in Loans |->
                            IF l \in run[r].same
                            THEN Sooner(run[r].age, told[s][l]) ELSE told[s][l]]]
                    ELSE told
<1> DEFINE sent == run[r].sent \cup ({s} \cap up)
           todo == run[r].todo \ {s}
           next == [run[r] EXCEPT !.todo = todo, !.sent = sent]
           stamping == [next EXCEPT !.at = "stamping"]
           new == IF todo # {} THEN next
                  ELSE IF sent # {} THEN stamping ELSE Idle
<1>1. /\ run[r].at = "sending" /\ s \in run[r].todo
      /\ run' = [run EXCEPT ![r] = new]
      /\ told' = IF s \in up
                 THEN [told EXCEPT ![s] = [l \in Loans |->
                         IF l \in run[r].same
                         THEN Sooner(run[r].age, told[s][l]) ELSE told[s][l]]]
                 ELSE told
  BY DEF Deliver, IsNext, MayStamp
<1>2. run[r] \in Run /\ sent \subseteq Pushing /\ todo \subseteq Pushing
  BY DEF IInv, TypeOK, Run
<1> HIDE DEF sent, todo
<1>3. /\ next \in Run /\ next.at = run[r].at
      /\ next.age = run[r].age /\ next.loans = run[r].loans
      /\ next.same = run[r].same
      /\ next.todo = todo /\ next.sent = sent
  BY <1>2 DEF Run
<1>4. /\ stamping \in Run /\ stamping.at = "stamping"
      /\ stamping.age = run[r].age /\ stamping.loans = run[r].loans
      /\ stamping.same = run[r].same
      /\ stamping.todo = todo /\ stamping.sent = sent
  BY <1>2 DEF Run
<1> HIDE DEF next, stamping
<1>5. new \in Run
  BY <1>3, <1>4, IdleIsRun
<1>6. \/ new = Idle /\ sent = {}
      \/ /\ new.at \in {"sending", "stamping"}
         /\ new.at = "stamping" => new.sent # {}
         /\ new.age = run[r].age /\ new.loans = run[r].loans
         /\ new.same = run[r].same
         /\ new.todo = todo /\ new.sent = sent
  BY <1>1, <1>3, <1>4
<1> HIDE DEF new
<1>7. /\ run' \in [Runners -> Run] /\ run'[r] = new
      /\ \A q \in Runners \ {r} : run'[q] = run[q]
  BY <1>1, <1>5 DEF IInv, TypeOK
<1> QED BY <1>1, <1>6, <1>7 DEF sent, todo

(* A delivery never makes what was told look older. *)
LEMMA DeliverTells ==
  ASSUME IInv, NEW r \in Runners, NEW s \in Pushing, Deliver(r, s)
  PROVE  /\ told' \in [Pushing -> [Loans -> Ages \cup {Never}]]
         /\ \A t \in Pushing, l \in Loans : told'[t][l] <= told[t][l]
         /\ s \in up => \A l \in run[r].same : told'[s][l] <= run[r].age
<1>1. /\ run[r].age \in Ages /\ run[r].same \subseteq Loans
      /\ told \in [Pushing -> [Loans -> Ages \cup {Never}]]
  BY DEF IInv, TypeOK, Run
<1> DEFINE row == [l \in Loans |-> IF l \in run[r].same
                                   THEN Sooner(run[r].age, told[s][l])
                                   ELSE told[s][l]]
<1>2. told' = IF s \in up THEN [told EXCEPT ![s] = row] ELSE told
  BY DeliverDoes
<1>3. ASSUME NEW l \in Loans
      PROVE  /\ row[l] \in Ages \cup {Never} /\ row[l] <= told[s][l]
             /\ l \in run[r].same => row[l] <= run[r].age
  BY <1>1, AgesAreNumbers
<1>4. row \in [Loans -> Ages \cup {Never}]
  BY <1>3
<1> HIDE DEF row
<1>5. told' \in [Pushing -> [Loans -> Ages \cup {Never}]]
  BY <1>1, <1>2, <1>4
<1>6. ASSUME NEW t \in Pushing, NEW l \in Loans PROVE told'[t][l] <= told[t][l]
  <2>1. told[t][l] \in Nat
    BY <1>1, AgesAreNumbers
  <2>2. (t = s /\ told'[t] = row) \/ told'[t] = told[t]
    BY <1>1, <1>2
  <2> QED BY <1>3, <2>1, <2>2
<1>7. ASSUME s \in up, NEW l \in run[r].same PROVE told'[s][l] <= run[r].age
  BY <1>1, <1>2, <1>3, <1>7
<1> QED BY <1>5, <1>6, <1>7

LEMMA DeliverKeepsInv ==
  ASSUME IInv, NEW r \in Runners, NEW s \in Pushing, Deliver(r, s) PROVE IInv'
<1>1. TypeOK'
  BY DeliverDoes, DeliverTells DEF Deliver, shop, IInv, TypeOK
<1>2. ASSUME NEW t \in Pushing, NEW l \in Loans
      PROVE  told[t][l] \in Nat /\ told'[t][l] \in Nat
  BY DeliverTells, AgesAreNumbers DEF IInv, TypeOK
<1>3. ASSUME NEW q \in Runners PROVE RunRemembers(q)'
  <2>1. /\ run[q] \in Run /\ run[q].age \in Nat
        /\ run[q].sent \subseteq Pushing /\ run[q].same \subseteq Loans
    BY AgesAreNumbers DEF IInv, TypeOK, Run
  <2>2. \A t \in run[q].sent, l \in run[q].same : told'[t][l] <= run[q].age
    BY <1>2, <2>1, DeliverTells DEF IInv, RunRemembers
  <2>3. CASE q # r
    <3>1. run'[q] = run[q]
      BY <2>3, DeliverDoes
    <3> QED BY <2>2, <3>1 DEF IInv, RunRemembers
  <2>4. CASE q = r /\ run'[r] = Idle
    BY <2>4, IdleHasSentNothing DEF RunRemembers
  <2>5. CASE q = r /\ run'[r] # Idle
    <3>1. /\ run'[r].at \in {"sending", "stamping"}
          /\ run'[r].at = "stamping" => run'[r].sent # {}
          /\ run'[r].age = run[r].age /\ run'[r].loans = run[r].loans
          /\ run'[r].same = run[r].same
          /\ run'[r].sent = run[r].sent \cup ({s} \cap up)
      BY <2>5, DeliverDoes
    <3>2. \A t \in run'[r].sent, l \in run'[r].same : told'[t][l] <= run'[r].age
      BY <2>2, <2>5, <3>1, DeliverTells
    <3>3. run[r].same \subseteq run[r].loans
      BY DEF IInv, RunRemembers
    <3> QED BY <2>5, <3>1, <3>2, <3>3 DEF RunRemembers
  <2> QED BY <2>3, <2>4, <2>5
<1>4. StampedWasTold'
  <2> SUFFICES ASSUME NEW l \in Loans, notified'[l] # Never, l \notin mistaken'
               PROVE  \E t \in Pushing : told'[t][l] <= notified'[l]
    BY DEF StampedWasTold, WasTold
  <2>1. UNCHANGED <<notified, mistaken>> /\ notified[l] \in Nat
    BY AgesAreNumbers DEF Deliver, IInv, TypeOK
  <2>2. PICK t \in Pushing : told[t][l] <= notified[l]
    BY <2>1 DEF IInv, StampedWasTold, WasTold
  <2> QED BY <1>2, <2>1, <2>2, DeliverTells
<1>5. ChangedHands'
  <2>1. UNCHANGED <<loan, mistaken>>
    BY DEF Deliver, shop
  <2>2. ASSUME NEW q \in Runners
        PROVE  \/ run'[q].loans = run[q].loans /\ run'[q].same = run[q].same
               \/ run'[q].loans = {}
    BY DeliverDoes, IdleHasSentNothing
  <2> QED BY <2>1, <2>2 DEF IInv, ChangedHands
<1> QED BY <1>1, <1>3, <1>4, <1>5 DEF IInv

LEMMA StampKeepsInv == ASSUME IInv, NEW r \in Runners, Stamp(r) PROVE IInv'
<1>1. /\ run[r] \in Run /\ run[r].age \in Ages /\ run[r].loans \subseteq Loans
      /\ run[r].sent \subseteq Pushing /\ run[r].same \subseteq Loans
  BY DEF IInv, TypeOK, Run
<1>2. TypeOK' /\ (\A q \in Runners : RunRemembers(q))'
  BY <1>1, EndKeepsRuns DEF Stamp, shop, IInv, TypeOK
<1>3. StampedWasTold'
  <2> SUFFICES ASSUME NEW l \in Loans, notified'[l] # Never, l \notin mistaken'
               PROVE  \E s \in Pushing : told'[s][l] <= notified'[l]
    BY DEF StampedWasTold, WasTold
  <2>1. CASE l \in run[r].loans
    <3>1. l \in run[r].same
      BY <2>1 DEF Stamp
    <3>2. PICK s \in run[r].sent : TRUE
      BY DEF Stamp, IInv, RunRemembers
    <3>3. told[s][l] <= run[r].age
      BY <3>1, <3>2 DEF IInv, RunRemembers
    <3> QED BY <1>1, <2>1, <3>2, <3>3 DEF Stamp
  <2>2. CASE l \notin run[r].loans
    <3>1. l \notin mistaken
      BY <2>2 DEF Stamp, IInv, RunRemembers
    <3> QED BY <2>2, <3>1 DEF Stamp, IInv, StampedWasTold, WasTold
  <2> QED BY <2>1, <2>2
<1>4. ChangedHands'
  <2>1. UNCHANGED loan /\ \A q \in Runners : run'[q] \in {run[q], Idle}
    BY EndKeepsRuns DEF Stamp, shop
  <2>2. run[r].loans \ run[r].same \subseteq Reissued
    BY <1>1 DEF Stamp, IInv, ChangedHands
  <2>3. mistaken' \subseteq Reissued
    BY <2>2 DEF Stamp, IInv, ChangedHands
  <2> QED BY <2>1, <2>3, IdleHasSentNothing DEF IInv, ChangedHands
<1> QED BY <1>2, <1>3, <1>4 DEF IInv

LEMMA RefusalKeepsInv ==
  ASSUME IInv, NEW r \in Runners, StampRefused(r) PROVE IInv'
<1>1. run[r].same \subseteq Loans
  BY DEF IInv, TypeOK, Run
<1>2. TypeOK' /\ (\A q \in Runners : RunRemembers(q))'
  BY <1>1, EndKeepsRuns DEF StampRefused, shop, IInv, TypeOK
<1>3. StampedWasTold'
  BY DEF StampRefused, IInv, StampedWasTold, WasTold
<1>4. ChangedHands'
  BY EndKeepsRuns, IdleHasSentNothing DEF StampRefused, shop, IInv, ChangedHands
<1> QED BY <1>2, <1>3, <1>4 DEF IInv

(* What a tick makes of a run. *)
LEMMA TickDoes ==
  ASSUME IInv, Tick, NEW r \in Runners
  PROVE  /\ run'[r] \in Run
         /\ \/ run[r] = Idle /\ run'[r] = Idle
            \/ /\ run'[r].at = run[r].at /\ run'[r].at # "idle"
               /\ run'[r].age = Older(run[r].age)
               /\ run'[r].sent = run[r].sent /\ run'[r].loans = run[r].loans
               /\ run'[r].todo = run[r].todo /\ run'[r].same = run[r].same
<1>1. run[r] \in Run /\ (run[r].at = "idle" => run[r] = Idle)
  BY DEF IInv, TypeOK, RunRemembers
<1>2. run'[r] = IF run[r].at = "idle" THEN Idle
                ELSE [run[r] EXCEPT !.age = Older(run[r].age)]
  BY DEF Tick
<1>3. run[r].age \in Ages
  BY <1>1 DEF Run
<1>4. CASE run[r].at = "idle"
  BY <1>1, <1>2, <1>4, IdleIsRun
<1>5. CASE run[r].at # "idle"
  <2> DEFINE old == run[r]
             new == [old EXCEPT !.age = Older(old.age)]
  <2>1. old \in Run /\ Older(old.age) \in Ages
    BY <1>1, <1>3, AgesAreNumbers
  <2> HIDE DEF old
  <2>2. /\ new \in Run /\ new.at = old.at /\ new.age = Older(old.age)
        /\ new.sent = old.sent /\ new.loans = old.loans /\ new.todo = old.todo
        /\ new.same = old.same
    BY <2>1 DEF Run
  <2>3. run'[r] = new
    BY <1>2, <1>5 DEF old
  <2> HIDE DEF new
  <2> QED BY <1>5, <2>2, <2>3 DEF old
<1> QED BY <1>4, <1>5

LEMMA TickKeepsInv == ASSUME IInv, Tick PROVE IInv'
<1>1. /\ notified' \in [Loans -> Ages \cup {Never}]
      /\ told' \in [Pushing -> [Loans -> Ages \cup {Never}]]
      /\ \A l \in Loans : notified'[l] = OlderOrNever(notified[l])
      /\ \A s \in Pushing, l \in Loans : told'[s][l] = OlderOrNever(told[s][l])
  BY AgesAreNumbers DEF Tick, IInv, TypeOK
<1>2. run' \in [Runners -> Run]
  BY TickDoes DEF Tick
<1>3. TypeOK'
  BY <1>1, <1>2 DEF Tick, shop, IInv, TypeOK
<1>4. ASSUME NEW r \in Runners PROVE RunRemembers(r)'
  <2>1. CASE run'[r] = Idle
    BY <2>1, IdleHasSentNothing DEF RunRemembers
  <2>2. CASE run'[r] # Idle
    <3>1. /\ run'[r].at = run[r].at /\ run'[r].at # "idle"
          /\ run'[r].age = Older(run[r].age)
          /\ run'[r].sent = run[r].sent /\ run'[r].loans = run[r].loans
          /\ run'[r].same = run[r].same
      BY <2>2, TickDoes
    <3>2. /\ run[r].age \in Ages /\ run[r].sent \subseteq Pushing
          /\ run[r].same \subseteq Loans
      BY DEF IInv, TypeOK, Run
    <3>3. ASSUME NEW s \in run[r].sent, NEW l \in run[r].same
          PROVE  told'[s][l] <= run'[r].age
      <4>1. told[s][l] <= run[r].age
        BY DEF IInv, RunRemembers
      <4>2. told[s][l] \in Ages \cup {Never}
        BY <3>2 DEF IInv, TypeOK
      <4> QED BY <1>1, <3>1, <3>2, <4>1, <4>2, AgesAreNumbers
    <3>4. /\ run[r].same \subseteq run[r].loans
          /\ run[r].at = "stamping" => run[r].sent # {}
      BY DEF IInv, RunRemembers
    <3> QED BY <3>1, <3>3, <3>4 DEF RunRemembers
  <2> QED BY <2>1, <2>2
<1>5. StampedWasTold'
  <2> SUFFICES ASSUME NEW l \in Loans, notified'[l] # Never, l \notin mistaken'
               PROVE  \E s \in Pushing : told'[s][l] <= notified'[l]
    BY DEF StampedWasTold, WasTold
  <2>1. notified[l] \in Ages \cup {Never} /\ notified[l] # Never
    BY <1>1, AgesAreNumbers DEF IInv, TypeOK
  <2>2. PICK s \in Pushing : told[s][l] <= notified[l]
    BY <2>1 DEF Tick, IInv, StampedWasTold, WasTold
  <2>3. told[s][l] \in Ages \cup {Never}
    BY DEF IInv, TypeOK
  <2> QED BY <1>1, <2>1, <2>2, <2>3, AgesAreNumbers
<1>6. ChangedHands'
  <2>1. UNCHANGED <<loan, mistaken>>
    BY DEF Tick, shop
  <2>2. ASSUME NEW q \in Runners
        PROVE  \/ run'[q].loans = run[q].loans /\ run'[q].same = run[q].same
               \/ run'[q].loans = {}
    BY TickDoes, IdleHasSentNothing
  <2> QED BY <2>1, <2>2 DEF IInv, ChangedHands
<1> QED BY <1>3, <1>4, <1>5, <1>6 DEF IInv

LEMMA CrashKeepsInv == ASSUME IInv, Crash PROVE IInv'
<1>1. unstamped' \subseteq Loans
  BY DEF Crash, IInv, TypeOK, Run
<1>2. crashes' \in 0 .. MaxCrashes
  BY DigestAssumption DEF Crash, IInv, TypeOK
<1>3. TypeOK'
  BY <1>1, <1>2, IdleIsRun DEF Crash, IInv, TypeOK
<1>4. (\A r \in Runners : RunRemembers(r))'
  BY IdleHasSentNothing DEF Crash, RunRemembers
<1>5. StampedWasTold'
  BY DEF Crash, IInv, StampedWasTold, WasTold
<1>6. ChangedHands'
  BY IdleHasSentNothing DEF Crash, IInv, ChangedHands
<1> QED BY <1>3, <1>4, <1>5, <1>6 DEF IInv

(* What a purge makes of a run: the id stays, the loan does not. *)
LEMMA PurgeDoes ==
  ASSUME IInv, NEW l \in Loans, Purge(l), NEW r \in Runners
  PROVE  /\ run'[r] \in Run /\ run[r] \in Run
         /\ run'[r].at = run[r].at /\ run'[r].age = run[r].age
         /\ run'[r].loans = run[r].loans /\ run'[r].sent = run[r].sent
         /\ run'[r].todo = run[r].todo /\ run'[r].same = run[r].same \ {l}
         /\ run[r].at = "idle" => run'[r] = Idle /\ run[r] = Idle
<1> DEFINE old == run[r]
           new == [old EXCEPT !.same = old.same \ {l}]
<1>1. old \in Run /\ old.same \ {l} \in SUBSET Loans
  BY DEF IInv, TypeOK, Run
<1>2. run'[r] = new
  BY DEF Purge
<1>3. old.at = "idle" => old = Idle
  BY DEF IInv, RunRemembers
<1> HIDE DEF old
<1>4. /\ new \in Run /\ new.at = old.at /\ new.age = old.age
      /\ new.loans = old.loans /\ new.sent = old.sent
      /\ new.todo = old.todo /\ new.same = old.same \ {l}
  BY <1>1 DEF Run
<1>5. old = Idle => new = Idle
  BY DEF Idle
<1> HIDE DEF new
<1> QED BY <1>1, <1>2, <1>3, <1>4, <1>5 DEF old

(* What it makes of what was told and stamped. *)
LEMMA PurgeForgets ==
  ASSUME IInv, NEW l \in Loans, Purge(l)
  PROVE  /\ told' \in [Pushing -> [Loans -> Ages \cup {Never}]]
         /\ notified' \in [Loans -> Ages \cup {Never}]
         /\ notified'[l] = Never /\ \A s \in Pushing : told'[s][l] = Never
         /\ \A k \in Loans \ {l} : /\ notified'[k] = notified[k]
                                   /\ \A s \in Pushing : told'[s][k] = told[s][k]
BY DEF Purge, IInv, TypeOK

LEMMA PurgeKeepsInv == ASSUME IInv, NEW l \in Loans, Purge(l) PROVE IInv'
<1>1. run' \in [Runners -> Run]
  BY PurgeDoes DEF Purge
<1>2. TypeOK'
  <2>1. /\ loan' \in [Loans -> {"lent", "overdue", "back", "gone"}]
        /\ hidden' \in [Loans -> BOOLEAN]
        /\ unstamped' \subseteq Loans /\ mistaken' \subseteq Loans
        /\ UNCHANGED <<on, up, crashes>>
    BY DEF Purge, IInv, TypeOK
  <2> QED BY <1>1, <2>1, PurgeForgets DEF IInv, TypeOK
<1>3. ASSUME NEW r \in Runners PROVE RunRemembers(r)'
  <2>1. /\ run[r].at = "stamping" => run[r].sent # {}
        /\ run[r].same \subseteq run[r].loans /\ run[r].same \subseteq Loans
        /\ run[r].sent \subseteq Pushing
        /\ \A s \in run[r].sent, k \in run[r].same : told[s][k] <= run[r].age
    BY DEF IInv, TypeOK, Run, RunRemembers
  <2>2. \A s \in run'[r].sent, k \in run'[r].same : told'[s][k] <= run'[r].age
    BY <2>1, PurgeDoes, PurgeForgets
  <2> QED BY <2>1, <2>2, PurgeDoes DEF RunRemembers
<1>4. StampedWasTold'
  BY PurgeForgets DEF Purge, IInv, StampedWasTold, WasTold
<1>5. ChangedHands'
  <2>1. /\ loan'[l] = "gone" /\ \A k \in Loans \ {l} : loan'[k] = loan[k]
        /\ mistaken' \subseteq mistaken
    BY DEF Purge, IInv, TypeOK
  <2>2. \A r \in Runners, k \in Loans \ {l} :
          k \in run'[r].loans \ run'[r].same <=> k \in run[r].loans \ run[r].same
    BY PurgeDoes
  <2> QED BY <2>1, <2>2 DEF IInv, ChangedHands
<1> QED BY <1>2, <1>3, <1>4, <1>5 DEF IInv

LEMMA StepInv == IInv /\ [Next]_vars => IInv'
<1> SUFFICES ASSUME IInv, [Next]_vars PROVE IInv'
  OBVIOUS
<1>1. CASE LoanMoves
  <2>1. TypeOK'
    BY <1>1 DEF LoanMoves, FallDue, Return, history, IInv, TypeOK
  <2>2. \A l \in Loans \ Reissued : loan[l] = "gone" => loan'[l] = "gone"
    BY <1>1 DEF LoanMoves, FallDue, Return, IInv, TypeOK
  <2> QED BY <1>1, <2>1, <2>2, OthersKeepInv DEF LoanMoves, history
<1>6. CASE LendAgain
  <2>1. TypeOK'
    BY <1>6 DEF LendAgain, history, IInv, TypeOK
  <2>2. \A l \in Loans \ Reissued : loan[l] = "gone" => loan'[l] = "gone"
    BY <1>6 DEF LendAgain, IInv, TypeOK
  <2> QED BY <1>6, <2>1, <2>2, OthersKeepInv DEF LendAgain, history
<1>2. CASE SetPrivacy
  <2>1. PICK l \in Loans : hidden' = [hidden EXCEPT ![l] = ~ hidden[l]]
    BY <1>2 DEF SetPrivacy
  <2>2. hidden' \in [Loans -> BOOLEAN]
    BY <2>1 DEF IInv, TypeOK
  <2>3. TypeOK'
    BY <1>2, <2>2 DEF SetPrivacy, history, IInv, TypeOK
  <2> QED BY <1>2, <2>3, OthersKeepInv DEF SetPrivacy, history
<1>3. CASE Switch
  <2>1. TypeOK'
    BY <1>3 DEF Switch, history, IInv, TypeOK
  <2> QED BY <1>3, <2>1, OthersKeepInv DEF Switch, history
<1>4. CASE Weather
  <2>1. TypeOK'
    BY <1>4 DEF Weather, history, IInv, TypeOK
  <2> QED BY <1>4, <2>1, OthersKeepInv DEF Weather, history
<1>5. CASE UNCHANGED vars
  <2>1. TypeOK'
    BY <1>5 DEF vars, shop, history, IInv, TypeOK
  <2> QED BY <1>5, <2>1, OthersKeepInv DEF vars, history
<1> QED
  BY <1>1, <1>2, <1>3, <1>4, <1>5, <1>6, SelectKeepsInv, DeliverKeepsInv,
     StampKeepsInv, RefusalKeepsInv, PurgeKeepsInv, TickKeepsInv, CrashKeepsInv
     DEF Next, RunStep, DeliverNext, Flush

(* The invariant behind the theorems below. *)
THEOREM Inductive == Spec => []IInv
BY InitInv, StepInv, PTL DEF Spec

(* Every variable keeps its type: a run hands its digest to senders that   *)
(* push, and to no other.                                                  *)
THEOREM TypesHold == Spec => []TypeOK
BY Inductive, PTL DEF IInv

(* Loan.notified_at says that somebody was told of the loan, or of the one *)
(* that had its id when the run selected it, however many runs are in      *)
(* flight and in whatever order they commit.                               *)
THEOREM StampedWasToldHolds == Spec => []StampedWasTold
BY Inductive, PTL DEF IInv

(* Where no id is given out again, as on Postgres, it says that somebody   *)
(* was told of this very loan.                                             *)
EveryStampWasTold == \A l \in Loans : notified[l] # Never => WasTold(l)

THEOREM WithoutReissueStampsAreTrue ==
  ASSUME Reissued = {} PROVE Spec => []EveryStampWasTold
<1>1. IInv => EveryStampWasTold
  BY DEF IInv, ChangedHands, StampedWasTold, EveryStampWasTold
<1> QED BY Inductive, <1>1, PTL

----------------------------------------------------------------------------
(* The ticker alone *)

TickerAlone == Runners = {Ticker}

(* A loan whose stamp is older than what was told is one the run in        *)
(* progress has told of, or one an earlier run left unstamped; so what the *)
(* ticker selected, it has yet to tell.                                    *)
StampsFollow ==
  \A s \in Pushing, l \in Loans :
    \/ notified[l] <= told[s][l]
    \/ l \in unstamped
    \/ l \in run[Ticker].same /\ s \in run[Ticker].sent
YetToTell ==
  \A s \in run[Ticker].todo, l \in run[Ticker].same :
    told[s][l] > Interval \/ l \in unstamped
NobodyToldSince ==
  run[Ticker].at # "idle" =>
    \A s \in Pushing, l \in Loans : run[Ticker].age <= told[s][l]

OnceInv == IInv /\ StampsFollow /\ YetToTell /\ NobodyToldSince

LEMMA StepOnce == ASSUME TickerAlone, OnceInv, IInv', [Next]_vars PROVE OnceInv'
<1> DEFINE r == run[Ticker]
           Kept == StampsFollow' /\ YetToTell' /\ NobodyToldSince'
<1> SUFFICES Kept
  BY DEF OnceInv
<1>0. /\ Ticker \in Runners
      /\ r \in Run /\ r.age \in Ages /\ r.loans \subseteq Loans
      /\ r.sent \subseteq Pushing /\ r.todo \subseteq Pushing
      /\ r.same \subseteq r.loans
      /\ r.at = "idle" => r = Idle
      /\ \A s \in Pushing, l \in Loans : told[s][l] \in Ages \cup {Never}
      /\ \A s \in Pushing, l \in Loans : told[s][l] \in Nat
      /\ \A l \in Loans : notified[l] \in Ages \cup {Never}
      /\ r.age \in Nat /\ Interval \in Nat
  BY DigestAssumption, AgesAreNumbers DEF OnceInv, IInv, TypeOK, Run, RunRemembers
<1>1. CASE UNCHANGED <<run, notified, told, unstamped>>
  BY <1>1 DEF OnceInv, StampsFollow, YetToTell, NobodyToldSince
<1>2. CASE Select(Ticker)
  <2>1. /\ r = Idle
        /\ run'[Ticker].age = 0
        /\ run'[Ticker].same = DueForReminder
        /\ UNCHANGED <<notified, told, unstamped>>
        /\ run'[Ticker].todo \subseteq Pushing
    BY <1>0, <1>2 DEF Select, history, OnceInv, IInv, TypeOK
  <2>2. StampsFollow'
    BY <2>1, IdleHasSentNothing DEF OnceInv, StampsFollow
  <2>3. YetToTell'
    BY <1>0, <2>1, IdleHasSentNothing, AgesAreNumbers
       DEF OnceInv, StampsFollow, YetToTell, DueForReminder
  <2>4. NobodyToldSince'
    BY <1>0, <2>1 DEF NobodyToldSince
  <2> QED BY <2>2, <2>3, <2>4
<1>3. ASSUME NEW s \in Pushing, Deliver(Ticker, s) PROVE Kept
  <2>1. /\ r.at = "sending" /\ s \in r.todo
        /\ \/ run'[Ticker] = Idle /\ r.sent = {} /\ s \notin up
           \/ /\ run'[Ticker].at # "idle"
              /\ run'[Ticker].age = r.age /\ run'[Ticker].same = r.same
              /\ run'[Ticker].todo = r.todo \ {s}
              /\ run'[Ticker].sent = r.sent \cup ({s} \cap up)
    BY <1>0, <1>3, DeliverDoes DEF OnceInv
  <2>2. \A t \in Pushing, l \in Loans :
          \/ told'[t][l] = told[t][l]
          \/ /\ t = s /\ s \in up /\ l \in r.same
             /\ told'[t][l] = Sooner(r.age, told[s][l])
    <3> DEFINE row == [l \in Loans |-> IF l \in r.same
                                       THEN Sooner(r.age, told[s][l])
                                       ELSE told[s][l]]
    <3>1. told' = IF s \in up THEN [told EXCEPT ![s] = row] ELSE told
      BY <1>0, <1>3, DeliverDoes DEF OnceInv
    <3>2. told \in [Pushing -> [Loans -> Ages \cup {Never}]]
      BY DEF OnceInv, IInv, TypeOK
    <3>3. \A l \in Loans :
            \/ row[l] = told[s][l]
            \/ l \in r.same /\ row[l] = Sooner(r.age, told[s][l])
      OBVIOUS
    <3> HIDE DEF row
    <3> QED BY <3>1, <3>2, <3>3
  <2>3. UNCHANGED <<notified, unstamped>>
    BY <1>3 DEF Deliver
  <2>4. ASSUME NEW t \in Pushing, NEW l \in Loans PROVE r.age <= told'[t][l]
    <3>1. r.age <= told[t][l] /\ r.age <= told[s][l]
      BY <2>1 DEF OnceInv, NobodyToldSince
    <3>2. told[s][l] \in Ages \cup {Never} /\ r.age \in Ages \cup {Never}
      BY <1>0
    <3>3. Sooner(r.age, told[s][l]) \in {r.age, told[s][l]}
      BY <3>2, AgesAreNumbers
    <3> QED BY <1>0, <2>2, <3>1, <3>3
  <2>5. StampsFollow'
    BY <1>0, <2>1, <2>2, <2>3, IdleHasSentNothing DEF OnceInv, StampsFollow
  <2>6. YetToTell'
    BY <1>0, <2>1, <2>2, <2>3, IdleHasSentNothing DEF OnceInv, YetToTell
  <2>7. NobodyToldSince'
    BY <2>1, <2>4, IdleHasSentNothing DEF NobodyToldSince
  <2> QED BY <2>5, <2>6, <2>7
<1>4. CASE Stamp(Ticker)
  <2>1. /\ r.at = "stamping" /\ run'[Ticker] = Idle
        /\ \A l \in Loans : notified'[l] =
             IF l \in r.loans THEN r.age ELSE notified[l]
        /\ unstamped' = unstamped \ r.loans /\ UNCHANGED told
    BY <1>0, <1>4 DEF Stamp, OnceInv, IInv, TypeOK
  <2>2. StampsFollow'
    BY <1>0, <2>1 DEF OnceInv, StampsFollow, NobodyToldSince
  <2>3. YetToTell' /\ NobodyToldSince'
    BY <2>1, IdleHasSentNothing DEF YetToTell, NobodyToldSince
  <2> QED BY <2>2, <2>3
<1>5. CASE StampRefused(Ticker)
  <2>1. /\ run'[Ticker] = Idle /\ UNCHANGED <<notified, told>>
        /\ unstamped' = unstamped \cup r.same
    BY <1>0, <1>5 DEF StampRefused, OnceInv, IInv, TypeOK
  <2> QED BY <2>1, IdleHasSentNothing
          DEF OnceInv, StampsFollow, YetToTell, NobodyToldSince
<1>6. CASE Tick
  <2>1. /\ \A l \in Loans : notified'[l] = OlderOrNever(notified[l])
        /\ \A s \in Pushing, l \in Loans : told'[s][l] = OlderOrNever(told[s][l])
        /\ UNCHANGED unstamped
    BY <1>6 DEF Tick
  <2>2. \/ r = Idle /\ run'[Ticker] = Idle
        \/ /\ run'[Ticker].at = r.at /\ r.at # "idle"
           /\ run'[Ticker].age = Older(r.age)
           /\ run'[Ticker].sent = r.sent /\ run'[Ticker].same = r.same
           /\ run'[Ticker].todo = r.todo
    BY <1>0, <1>6, TickDoes DEF OnceInv
  <2>3. StampsFollow'
    BY <1>0, <2>1, <2>2, AgesAreNumbers, IdleHasSentNothing
       DEF OnceInv, StampsFollow
  <2>4. \A s \in Pushing, l \in Loans : /\ told'[s][l] \in Nat
                                        /\ told[s][l] <= told'[s][l]
    BY <1>0, <2>1, AgesAreNumbers
  <2>5. YetToTell'
    BY <1>0, <2>1, <2>2, <2>4, IdleHasSentNothing DEF OnceInv, YetToTell
  <2>6. NobodyToldSince'
    BY <1>0, <2>1, <2>2, AgesAreNumbers, IdleHasSentNothing
       DEF OnceInv, NobodyToldSince
  <2> QED BY <2>3, <2>5, <2>6
<1>7. CASE Crash
  <2>1. /\ run'[Ticker] = Idle /\ UNCHANGED <<notified, told>>
        /\ unstamped' = unstamped \cup (IF r.sent = {} THEN {} ELSE r.same)
    BY <1>0, <1>7 DEF Crash, TickerAlone
  <2> QED BY <2>1, IdleHasSentNothing
          DEF OnceInv, StampsFollow, YetToTell, NobodyToldSince
<1>8. ASSUME NEW k \in Loans, Purge(k) PROVE Kept
  <2>1. /\ run'[Ticker].at = r.at /\ run'[Ticker].age = r.age
        /\ run'[Ticker].sent = r.sent /\ run'[Ticker].todo = r.todo
        /\ run'[Ticker].same = r.same \ {k}
    BY <1>0, <1>8, PurgeDoes DEF OnceInv
  <2>2. /\ notified'[k] = Never /\ \A s \in Pushing : told'[s][k] = Never
        /\ \A l \in Loans \ {k} :
             /\ notified'[l] = notified[l]
             /\ \A s \in Pushing : told'[s][l] = told[s][l]
        /\ unstamped' = unstamped \ {k}
    BY <1>8, PurgeForgets DEF Purge, OnceInv
  <2>3. StampsFollow'
    BY <1>0, <2>1, <2>2, AgesAreNumbers DEF OnceInv, StampsFollow
  <2>4. YetToTell'
    BY <1>0, <2>1, <2>2 DEF OnceInv, YetToTell
  <2>5. NobodyToldSince'
    <3>1. r.age <= Never
      BY <1>0, AgesAreNumbers DEF Ages, Cap, Never
    <3>2. ASSUME r.at # "idle", NEW s \in Pushing, NEW l \in Loans
          PROVE  r.age <= told'[s][l]
      <4>1. r.age <= told[s][l]
        BY <3>2 DEF OnceInv, NobodyToldSince
      <4> QED BY <2>2, <3>1, <4>1
    <3> QED BY <2>1, <3>2 DEF NobodyToldSince
  <2> QED BY <2>3, <2>4, <2>5
<1> QED
  BY <1>1, <1>2, <1>3, <1>4, <1>5, <1>6, <1>7, <1>8
     DEF TickerAlone, Next, RunStep, DeliverNext, Flush, LoanMoves, LendAgain,
         SetPrivacy, Switch, Weather, vars, history

(* The interval of overdue_reminder_days holds for every channel, as long  *)
(* as the ticker is the only runner: failures of other channels, refused   *)
(* stamps and crashes included.                                            *)
THEOREM ToldOncePerIntervalHolds ==
  ASSUME TickerAlone PROVE Spec => ToldOncePerInterval
<1>1. Init => OnceInv
  BY InitInv, IdleHasSentNothing, DigestAssumption, AgesAreNumbers
     DEF Init, OnceInv, StampsFollow, YetToTell, NobodyToldSince
<1>2. OnceInv /\ IInv' /\ [Next]_vars => OnceInv'
  BY StepOnce
<1>3. OnceInv => \A r \in Runners, s \in Pushing, l \in Loans :
                   Deliver(r, s) /\ s \in up /\ l \in run[r].same =>
                     told[s][l] > Interval \/ l \in unstamped
  BY DEF TickerAlone, OnceInv, YetToTell, Deliver, IsNext
<1> QED BY Inductive, <1>1, <1>2, <1>3, PTL DEF Spec, ToldOncePerInterval
=============================================================================
