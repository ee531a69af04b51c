----------------------------- MODULE Ceilings -----------------------------
(***************************************************************************)
(* The capped rows of a Book under concurrent transactions: file           *)
(* references, by `table`, or the headings and links a catalogue gave it.  *)
(*                                                                         *)
(* A report adds one reference; a confirmed enrichment adds to one Book, a *)
(* MARC import to one after the other and commits once; a merge carries a  *)
(* loser's rows onto its keeper and deletes the loser.  Postgres holds a   *)
(* Book's row lock from hold_book_ceilings to the end of the transaction,  *)
(* and aborts one side of a deadlock.  SQLite holds no such lock: it lets  *)
(* one transaction write at a time, from its first write to its end, and a *)
(* writer that waits too long gives up.                                    *)
(*                                                                         *)
(* Left out: a Book that two merges are both folding away, and a row that  *)
(* is forgotten in the middle of a merge of its Book.                      *)
(***************************************************************************)
EXTENDS Naturals, FiniteSets, FiniteSetTheorems, TLAPS

CONSTANTS Procs, Books, Keys, Ceiling, None

CeilingsAssumption == Ceiling \in Nat /\ IsFiniteSet(Keys) /\ None \notin Books

VARIABLES
  engine,   \* "postgres" or "sqlite"
  table,    \* "references" or "headings"
  rows,     \* the committed rows: pairs of a Book and a key
  gone,     \* the Books that were folded away
  tx        \* [Procs -> its transaction]

vars == <<engine, table, rows, gone, tx>>

Of(set, b) == {k \in Keys : <<b, k>> \in set}

Nobody ==
  [kind |-> "idle", pc |-> "idle", at |-> None, key |-> None, loser |-> None,
   saw |-> {}, held |-> {}, added |-> {}, rest |-> {}, writing |-> FALSE]

Set(p, r) == tx' = [tx EXCEPT ![p] = r]

(* As Ended, by a session left open, which holds on to what it locked. *)
Ended_HoldsOn(p) == [Nobody EXCEPT !.held = tx[p].held]

(* A commit or a rollback lets go of everything the transaction held. *)
Ended(p) == Nobody

Abandon(p) == Set(p, Ended(p)) /\ UNCHANGED <<engine, table, rows, gone>>

(* What p's transaction reads. *)
Visible(p) == rows \cup tx[p].added

(* Whether p may lock the row of b, and whether it may write. *)
LockFree(p, b) == engine = "postgres" => \A q \in Procs \ {p} : b \notin tx[q].held
WriterFree(p) == engine = "sqlite" => \A q \in Procs \ {p} : ~ tx[q].writing

----------------------------------------------------------------------------
(* Requests begin with what they load, which nothing holds still. *)

Adds(set, b, k) == k \notin Of(set, b) /\ Cardinality(Of(set, b)) < Ceiling

BeginReport(p, b, k) ==
  /\ table = "references" /\ tx[p].kind = "idle" /\ b \notin gone /\ <<b, k>> \notin rows
  /\ Set(p, [Nobody EXCEPT !.kind = "report", !.pc = "lock", !.at = b, !.key = k])
  /\ UNCHANGED <<engine, table, rows, gone>>

(* The Books it may turn to next. *)
Visited(kind, b) == IF kind = "import" THEN Books \ {b} ELSE {}

BeginHeadings(p, kind, b, k) ==
  /\ table = "headings" /\ tx[p].kind = "idle" /\ b \notin gone /\ Adds(rows, b, k)
  /\ Set(p, [Nobody EXCEPT !.kind = kind, !.pc = "lock", !.at = b, !.key = k,
                           !.saw = Of(rows, b), !.rest = Visited(kind, b)])
  /\ UNCHANGED <<engine, table, rows, gone>>

BeginMerge(p, keeper, loser) ==
  /\ tx[p].kind = "idle" /\ keeper # loser /\ {keeper, loser} \cap gone = {}
  /\ \A q \in Procs : tx[q].kind = "merge" => loser # tx[q].loser
  /\ Set(p, [Nobody EXCEPT !.kind = "merge", !.pc = "lock", !.at = keeper, !.loser = loser,
                           !.saw = Of(rows, keeper)])
  /\ UNCHANGED <<engine, table, rows, gone>>

(* A member forgets a row: one statement. *)
Forget(b, k) ==
  /\ <<b, k>> \in rows
  /\ engine = "sqlite" => \A q \in Procs : ~ tx[q].writing
  /\ \A q \in Procs : tx[q].kind = "merge" => b \notin {tx[q].at, tx[q].loser}
  /\ rows' = rows \ {<<b, k>>}
  /\ UNCHANGED <<engine, table, gone, tx>>

----------------------------------------------------------------------------
(* The steps of a transaction *)

(* hold_book_ceilings.  The lock of a Book that is gone is the lock of no row. *)
Lock(p) ==
  LET t == tx[p] IN
  /\ t.pc = "lock" /\ LockFree(p, t.at)
  /\ Set(p, [t EXCEPT !.held = IF engine = "postgres" /\ t.at \notin gone THEN @ \cup {t.at} ELSE @,
                      !.pc = IF t.kind = "report" THEN "insert" ELSE "count"])
  /\ UNCHANGED <<engine, table, rows, gone>>

Reread(p) == Of(Visible(p), tx[p].at)

(* Every writer but the report counts and then writes. *)
Count(p) ==
  LET t == tx[p]
      saw == Reread(p)
      add == t.kind # "merge" /\ t.key \notin saw /\ Cardinality(saw) < Ceiling IN
  /\ t.pc = "count" /\ t.kind # "report"
  /\ IF t.at \in gone THEN Abandon(p)
     ELSE /\ Set(p, [t EXCEPT !.saw = saw, !.pc = CASE t.kind = "merge" -> "carry"
                                                   [] add -> "insert"
                                                   [] OTHER -> "next"])
          /\ UNCHANGED <<engine, table, rows, gone>>

(* The row of a Book that is gone is refused, and so is one that is there. *)
Insert(p) ==
  LET t == tx[p] IN
  /\ t.pc = "insert" /\ WriterFree(p)
  /\ IF t.at \in gone \/ <<t.at, t.key>> \in rows THEN Abandon(p)
     ELSE /\ Set(p, [t EXCEPT !.added = @ \cup {<<t.at, t.key>>}, !.writing = TRUE,
                              !.pc = IF t.kind = "report" THEN "count" ELSE "next"])
          /\ UNCHANGED <<engine, table, rows, gone>>

(* The report counts what it wrote, and takes it back past the ceiling. *)
CountReport(p) ==
  LET t == tx[p] IN
  /\ t.pc = "count" /\ t.kind = "report"
  /\ IF Cardinality(Of(Visible(p), t.at)) > Ceiling THEN Abandon(p)
     ELSE Set(p, [t EXCEPT !.pc = "next"]) /\ UNCHANGED <<engine, table, rows, gone>>

(* An import turns to another Book, which it recognised when it began. *)
Visit(p, b, k) ==
  LET t == tx[p] IN
  /\ t.pc = "next" /\ b \in t.rest
  /\ IF b \in gone THEN Abandon(p)
     ELSE /\ Adds(Visible(p), b, k)
          /\ Set(p, [t EXCEPT !.pc = "lock", !.at = b, !.key = k,
                              !.saw = Of(Visible(p), b), !.rest = @ \ {b}])
          /\ UNCHANGED <<engine, table, rows, gone>>

Commit(p) ==
  /\ tx[p].pc = "next"
  /\ rows' = Visible(p)
  /\ Set(p, Ended(p)) /\ UNCHANGED <<engine, table, gone>>

(* What fits of the loser's rows, in the order of their ids. *)
Carried(p) ==
  LET new == Of(rows, tx[p].loser) \ tx[p].saw
      room == IF Ceiling > Cardinality(tx[p].saw) THEN Ceiling - Cardinality(tx[p].saw) ELSE 0
      fits == IF Cardinality(new) < room THEN Cardinality(new) ELSE room
  IN {s \in SUBSET new : Cardinality(s) = fits}

Carry(p) ==
  LET t == tx[p] IN
  /\ t.pc = "carry" /\ WriterFree(p)
  /\ IF t.at \in gone THEN Abandon(p)
     ELSE /\ \E s \in Carried(p) :
               Set(p, [t EXCEPT !.added = {t.at} \X s, !.writing = TRUE, !.pc = "delete"])
          /\ UNCHANGED <<engine, table, rows, gone>>

(* The loser's row goes with every row it still has. *)
WithoutLoser(p) == {r \in Visible(p) : r[1] # tx[p].loser}

DeleteLoser(p) ==
  LET t == tx[p] IN
  /\ t.pc = "delete" /\ LockFree(p, t.loser)
  /\ rows' = WithoutLoser(p)
  /\ gone' = gone \cup {t.loser}
  /\ Set(p, Ended(p)) /\ UNCHANGED <<engine, table>>

----------------------------------------------------------------------------
(* Waiting.  Postgres aborts a transaction that waits in a circle.         *)

Wants(p) ==
  CASE tx[p].pc = "lock" -> {tx[p].at} [] tx[p].pc = "delete" -> {tx[p].loser} [] OTHER -> {}

Deadlocked(p) ==
  /\ engine = "postgres"
  /\ \E circle \in SUBSET Procs :
       /\ p \in circle
       /\ \A q \in circle :
            /\ \E r \in circle \ {q} : Wants(q) \cap tx[r].held # {}
            /\ \E r \in circle \ {q} : Wants(r) \cap tx[q].held # {}

Abort(p) == Deadlocked(p) /\ Abandon(p)

GiveUp(p) == tx[p].pc \in {"insert", "carry"} /\ ~ WriterFree(p) /\ Abandon(p)

Init ==
  /\ engine \in {"postgres", "sqlite"} /\ table \in {"references", "headings"}
  /\ rows = {} /\ gone = {} /\ tx = [p \in Procs |-> Nobody]

Begin(p) ==
  \/ \E b \in Books, k \in Keys :
       \/ BeginReport(p, b, k)
       \/ \E kind \in {"enrich", "import"} : BeginHeadings(p, kind, b, k)
  \/ \E keeper, loser \in Books : BeginMerge(p, keeper, loser)

Advance(p) ==
  \/ Lock(p) \/ Count(p) \/ Insert(p) \/ CountReport(p) \/ Commit(p)
  \/ Carry(p) \/ DeleteLoser(p) \/ Abort(p) \/ GiveUp(p)

Next ==
  \/ \E p \in Procs : Begin(p) \/ Advance(p) \/ \E b \in Books, k \in Keys : Visit(p, b, k)
  \/ \E b \in Books, k \in Keys : Forget(b, k)

(* A lock that is free again and again is granted: waiters queue. *)
Fairness == \A p \in Procs : SF_vars(Advance(p))

Spec == Init /\ [][Next]_vars /\ Fairness

----------------------------------------------------------------------------
(* Properties *)

(* Rows are of Books that are there, whatever was in flight as one went. *)
TypeOK ==
  /\ rows \subseteq (Books \ gone) \X Keys
  /\ \A p \in Procs : tx[p].held \cup ({tx[p].at, tx[p].loser} \ {None}) \subseteq Books

(* No Book is past its ceiling: always on Postgres, and on SQLite until    *)
(* Books are merged and for the report, which counts what it wrote.        *)
CeilingHolds ==
  engine = "postgres" \/ (table = "references" /\ gone = {}) =>
    \A b \in Books : Cardinality(Of(rows, b)) <= Ceiling

(* Whatever Postgres aborts is a request that answers it with a 409: an    *)
(* import or a merge, never a report or an enrichment.                     *)
OnlyTheAnsweredDeadlock ==
  \A p \in Procs : Deadlocked(p) => tx[p].kind \in {"import", "merge"}

(* Every transaction ends. *)
TransactionsEnd == \A p \in Procs : tx[p].kind # "idle" ~> tx[p].kind = "idle"

----------------------------------------------------------------------------
(* Proofs: for any number of transactions, Books and keys. *)

Transaction ==
  [kind : {"idle", "report", "enrich", "import", "merge"},
   pc : {"idle", "lock", "count", "insert", "carry", "delete", "next"},
   at : Books \cup {None}, key : Keys \cup {None}, loser : Books \cup {None},
   saw : SUBSET Keys, held : SUBSET Books, added : SUBSET (Books \X Keys),
   rest : SUBSET Books, writing : BOOLEAN]

(* What a transaction is at each of its steps. *)
WellFormed(t) ==
  /\ t \in Transaction
  /\ t.kind = "idle" <=> t.pc = "idle"
  /\ t.kind # "idle" => t.at \in Books
  /\ t.kind = "merge" => /\ t.pc \in {"lock", "count", "carry", "delete"}
                         /\ t.at # t.loser /\ t.loser \in Books
                         /\ t.added \subseteq {t.at} \X Keys
                         /\ t.pc # "delete" => t.added = {}
  /\ t.kind # "merge" => t.pc \notin {"carry", "delete"}
  /\ t.kind \in {"report", "enrich", "import"} => t.key \in Keys
  /\ t.kind \in {"report", "enrich"} /\ t.pc = "lock" => t.held = {}
  /\ t.kind # "import" => t.rest = {}
  /\ t.kind = "report" => /\ t.added \subseteq {t.at} \X Keys /\ t.held \subseteq {t.at}
                          /\ t.pc \in {"count", "next"} => t.writing
  /\ t.pc = "delete" => t.writing
  /\ t.added # {} => t.writing
  /\ table = "references" => t.kind \in {"idle", "report", "merge"}

(* It holds what it wrote to, on Postgres, and no Book that is gone. *)
InPlace(t) ==
  /\ \A b \in Books, k \in Keys :
       <<b, k>> \in t.added => b \notin gone /\ (engine = "postgres" => b \in t.held)
  /\ t.held \cap gone = {}
  /\ engine = "sqlite" => t.held = {}
  /\ engine = "postgres" /\ t.pc \in {"count", "insert", "carry"} =>
       t.at \in t.held \cup gone

Sees(t, b) == Of(rows \cup t.added, b)
Fits(t, b) == Cardinality(Sees(t, b)) <= Ceiling

(* What it counted still holds when it writes, for nobody else writes the  *)
(* rows of a Book it holds.                                                *)
HasRoom(t) ==
  /\ engine = "postgres" =>
       /\ \A b \in t.held : (t.kind = "report" /\ t.pc = "count") \/ Fits(t, b)
       /\ t.kind # "report" /\ t.pc = "insert" /\ t.at \notin gone =>
            Cardinality(Sees(t, t.at)) < Ceiling
       /\ t.pc = "carry" /\ t.at \notin gone =>
            t.added = {} /\ Of(rows, t.at) \subseteq t.saw /\ Cardinality(t.saw) <= Ceiling
  /\ engine = "sqlite" /\ table = "references" /\ gone = {}
       /\ t.kind = "report" /\ t.pc = "next" => Fits(t, t.at)

Own(t) == WellFormed(t) /\ InPlace(t) /\ HasRoom(t)

(* Two transactions hold no Book together, on Postgres, and do not both    *)
(* write, on SQLite.                                                       *)
Apart(t, u) ==
  /\ engine = "postgres" => t.held \cap u.held = {}
  /\ engine = "sqlite" => ~ (t.writing /\ u.writing)

RowsInv ==
  /\ engine \in {"postgres", "sqlite"} /\ table \in {"references", "headings"}
  /\ gone \subseteq Books /\ rows \subseteq (Books \ gone) \X Keys
  /\ CeilingHolds

IInv ==
  /\ RowsInv
  /\ tx \in [Procs -> Transaction]
  /\ \A p \in Procs : Own(tx[p])
  /\ \A p, q \in Procs : p # q => Apart(tx[p], tx[q])

LEMMA OfIsFinite ==
  ASSUME CeilingsAssumption, NEW set, NEW b
  PROVE  /\ Of(set, b) \subseteq Keys /\ IsFiniteSet(Of(set, b))
         /\ Cardinality(Of(set, b)) \in Nat
<1>1. Of(set, b) \subseteq Keys
  BY DEF Of
<1> QED BY <1>1, FS_Subset, FS_CardinalityType DEF CeilingsAssumption

LEMMA FewerCount ==
  ASSUME CeilingsAssumption, NEW T \in SUBSET Keys, NEW S \in SUBSET T
  PROVE  /\ Cardinality(S) <= Cardinality(T)
         /\ Cardinality(S) \in Nat /\ Cardinality(T) \in Nat
         /\ IsFiniteSet(S) /\ IsFiniteSet(T)
<1>1. IsFiniteSet(T)
  BY FS_Subset DEF CeilingsAssumption
<1> QED BY <1>1, FS_Subset, FS_CardinalityType

LEMMA NobodyIsOwn == ASSUME CeilingsAssumption PROVE Own(Nobody)
<1>1. WellFormed(Nobody)
  BY DEF Nobody, WellFormed, Transaction
<1> QED BY <1>1 DEF Nobody, Own, InPlace, HasRoom

LEMMA NobodyIsApart == \A t : Apart(Nobody, t) /\ Apart(t, Nobody)
BY DEF Nobody, Apart

LEMMA InitInv == ASSUME CeilingsAssumption PROVE Init => IInv
<1> SUFFICES ASSUME Init PROVE IInv
  OBVIOUS
<1>1. \A b \in Books : Of(rows, b) = {}
  BY DEF Init, Of
<1>2. CeilingHolds
  BY <1>1, FS_EmptySet DEF CeilingHolds, CeilingsAssumption
<1>3. Nobody \in Transaction
  BY NobodyIsOwn DEF Own, WellFormed
<1> QED BY <1>2, <1>3, NobodyIsOwn, NobodyIsApart DEF Init, IInv, RowsInv

(* A transaction is as well off after a step that leaves what it reads. *)
LEMMA OwnStays ==
  ASSUME NEW q \in Procs, NEW x, Own(x), tx'[q] = x, UNCHANGED <<engine, table, rows, gone>>
  PROVE  Own(tx[q])'
<1>1. WellFormed(tx[q])'
  BY DEF Own, WellFormed, Transaction
<1>2. InPlace(tx[q])'
  BY DEF Own, InPlace
<1>3. \A b : Sees(tx[q], b)' = Sees(x, b)
  BY DEF Sees, Of
<1>4. Of(rows, tx[q].at)' = Of(rows, x.at)
  BY DEF Of
<1>5. HasRoom(tx[q])'
  BY <1>3, <1>4 DEF Own, HasRoom, Fits
<1> QED BY <1>1, <1>2, <1>5 DEF Own

(* One transaction takes a step of its own. *)
LEMMA OneMoves ==
  ASSUME IInv, NEW p \in Procs, NEW r, tx' = [tx EXCEPT ![p] = r],
         UNCHANGED <<engine, table, rows, gone>>, Own(r),
         \A q \in Procs \ {p} : Apart(r, tx[q])
  PROVE  IInv'
<1>1. r \in Transaction
  BY DEF Own, WellFormed
<1>2. tx' \in [Procs -> Transaction] /\ tx'[p] = r /\ \A q \in Procs \ {p} : tx'[q] = tx[q]
  BY <1>1 DEF IInv
<1>3. RowsInv'
  BY DEF IInv, RowsInv, CeilingHolds, Of
<1>4. ASSUME NEW q \in Procs PROVE Own(tx[q])'
  <2>1. CASE q = p
    <3>1. tx'[q] = r
      BY <1>2, <2>1
    <3> QED BY <3>1, OwnStays
  <2>2. CASE q # p
    <3>1. tx'[q] = tx[q]
      BY <1>2, <2>2
    <3>2. Own(tx[q])
      BY DEF IInv
    <3> QED BY <3>1, <3>2, OwnStays
  <2> QED BY <2>1, <2>2
<1>5. ASSUME NEW q \in Procs, NEW u \in Procs, q # u PROVE Apart(tx[q], tx[u])'
  <2>1. CASE q = p
    BY <1>2, <2>1, <1>5 DEF Apart
  <2>2. CASE u = p
    BY <1>2, <2>2, <1>5 DEF Apart
  <2>3. CASE q # p /\ u # p
    BY <1>2, <2>3, <1>5 DEF Apart, IInv
  <2> QED BY <2>1, <2>2, <2>3
<1> QED BY <1>2, <1>3, <1>4, <1>5 DEF IInv

LEMMA AbandonStep ==
  ASSUME CeilingsAssumption, IInv, NEW p \in Procs, Abandon(p) PROVE IInv'
BY NobodyIsOwn, NobodyIsApart, OneMoves DEF Abandon, Set, Ended

(* A request begins holding nothing. *)
LEMMA NewIsOwn ==
  ASSUME NEW r \in Transaction, WellFormed(r), r.pc = "lock",
         r.held = {}, r.added = {}
  PROVE  Own(r)
BY DEF Own, InPlace, HasRoom

LEMMA BeginStep ==
  ASSUME CeilingsAssumption, IInv, NEW p \in Procs, Begin(p) PROVE IInv'
<1>1. ASSUME NEW r, Set(p, r), UNCHANGED <<engine, table, rows, gone>>, WellFormed(r),
             r.pc = "lock", r.held = {}, r.added = {}, ~ r.writing
      PROVE  IInv'
  <2>1. r \in Transaction
    BY <1>1 DEF WellFormed
  <2>2. Own(r)
    BY <1>1, <2>1, NewIsOwn
  <2>3. \A q \in Procs \ {p} : Apart(r, tx[q])
    BY <1>1 DEF Apart
  <2> QED BY <1>1, <2>2, <2>3, OneMoves DEF Set
<1>2. ASSUME NEW b \in Books, NEW k \in Keys, BeginReport(p, b, k) PROVE IInv'
  <2> DEFINE r == [Nobody EXCEPT !.kind = "report", !.pc = "lock", !.at = b, !.key = k]
  <2>1. WellFormed(r)
    BY <1>2 DEF BeginReport, WellFormed, Nobody, Transaction
  <2>2. r.pc = "lock" /\ r.held = {} /\ r.added = {} /\ ~ r.writing
    BY DEF Nobody
  <2>3. Set(p, r) /\ UNCHANGED <<engine, table, rows, gone>>
    BY <1>2 DEF BeginReport
  <2> QED BY <1>1, <2>1, <2>2, <2>3
<1>3. ASSUME NEW b \in Books, NEW k \in Keys, NEW kind \in {"enrich", "import"},
             BeginHeadings(p, kind, b, k)
      PROVE  IInv'
  <2> DEFINE r == [Nobody EXCEPT !.kind = kind, !.pc = "lock", !.at = b, !.key = k,
                                 !.saw = Of(rows, b), !.rest = Visited(kind, b)]
  <2>1. WellFormed(r)
    BY <1>3 DEF BeginHeadings, WellFormed, Nobody, Transaction, Visited, Of
  <2>2. r.pc = "lock" /\ r.held = {} /\ r.added = {} /\ ~ r.writing
    BY DEF Nobody
  <2>3. Set(p, r) /\ UNCHANGED <<engine, table, rows, gone>>
    BY <1>3 DEF BeginHeadings
  <2> QED BY <1>1, <2>1, <2>2, <2>3
<1>4. ASSUME NEW keeper \in Books, NEW loser \in Books, BeginMerge(p, keeper, loser)
      PROVE  IInv'
  <2> DEFINE r == [Nobody EXCEPT !.kind = "merge", !.pc = "lock", !.at = keeper,
                                 !.loser = loser, !.saw = Of(rows, keeper)]
  <2>1. WellFormed(r)
    BY <1>4 DEF BeginMerge, WellFormed, Nobody, Transaction, Of
  <2>2. r.pc = "lock" /\ r.held = {} /\ r.added = {} /\ ~ r.writing
    BY DEF Nobody
  <2>3. Set(p, r) /\ UNCHANGED <<engine, table, rows, gone>>
    BY <1>4 DEF BeginMerge
  <2> QED BY <1>1, <2>1, <2>2, <2>3
<1> QED BY <1>2, <1>3, <1>4 DEF Begin

(* The facts about p's transaction that its steps start from. *)
LEMMA OfOwn ==
  ASSUME CeilingsAssumption, IInv, NEW p \in Procs
  PROVE  /\ tx[p] \in Transaction /\ Own(tx[p])
         /\ \A q \in Procs \ {p} : Apart(tx[p], tx[q]) /\ Apart(tx[q], tx[p])
         /\ \A b : /\ Sees(tx[p], b) \subseteq Keys /\ IsFiniteSet(Sees(tx[p], b))
                   /\ Cardinality(Sees(tx[p], b)) \in Nat
BY OfIsFinite DEF IInv, Sees

(* A Book just locked is as full as its committed rows. *)
LEMMA LockStep ==
  ASSUME CeilingsAssumption, IInv, NEW p \in Procs, Lock(p) PROVE IInv'
<1> DEFINE t == tx[p]
           held == IF engine = "postgres" /\ t.at \notin gone
                   THEN t.held \cup {t.at} ELSE t.held
           r == [t EXCEPT !.held = held, !.pc = IF t.kind = "report" THEN "insert" ELSE "count"]
<1>1. t \in Transaction /\ Own(t) /\ t.pc = "lock" /\ LockFree(p, t.at)
  BY OfOwn DEF Lock
<1>2. Set(p, r) /\ UNCHANGED <<engine, table, rows, gone>>
  BY DEF Lock
<1>3. /\ r.kind = t.kind /\ r.at = t.at /\ r.key = t.key /\ r.loser = t.loser
      /\ r.added = t.added /\ r.rest = t.rest /\ r.writing = t.writing /\ r.held = held
      /\ r.pc = IF t.kind = "report" THEN "insert" ELSE "count"
      /\ r \in Transaction
  BY <1>1 DEF Transaction, Own, WellFormed
<1>4. WellFormed(r)
  BY <1>1, <1>3 DEF WellFormed, Own
<1>5. InPlace(r)
  BY <1>1, <1>3 DEF InPlace, Own, WellFormed
<1>6. ASSUME engine = "postgres", NEW b \in held PROVE Fits(r, b)
  <2>1. Sees(r, b) = Sees(t, b)
    BY <1>3 DEF Sees
  <2>2. CASE b \in t.held
    BY <1>1, <1>6, <2>1, <2>2 DEF Own, HasRoom, Fits
  <2>3. CASE b \notin t.held
    <3>1. b \in Books
      BY <1>1, <1>6, <2>3 DEF Own, WellFormed
    <3>2. Of(rows \cup t.added, b) = Of(rows, b)
      BY <1>1, <1>6, <2>3, <3>1 DEF Own, InPlace, Of
    <3>3. Cardinality(Of(rows, b)) <= Ceiling
      BY <1>6, <3>1 DEF IInv, RowsInv, CeilingHolds
    <3> QED BY <2>1, <3>2, <3>3 DEF Fits, Sees
  <2> QED BY <2>2, <2>3
<1>7. HasRoom(r)
  BY <1>1, <1>3, <1>6 DEF HasRoom
<1>8. \A q \in Procs \ {p} : Apart(r, tx[q])
  BY <1>1, <1>3, OfOwn DEF Apart, LockFree
<1> HIDE DEF r
<1> QED BY <1>2, <1>4, <1>5, <1>7, <1>8, OneMoves DEF Set, Own

(* A writer that holds its Book counts what will still be there. *)
LEMMA CountStep ==
  ASSUME CeilingsAssumption, IInv, NEW p \in Procs, Count(p) PROVE IInv'
<1> DEFINE t == tx[p]
           saw == Reread(p)
           add == t.kind # "merge" /\ t.key \notin saw /\ Cardinality(saw) < Ceiling
           next == CASE t.kind = "merge" -> "carry" [] add -> "insert" [] OTHER -> "next"
           r == [t EXCEPT !.saw = saw, !.pc = next]
<1>1. t \in Transaction /\ Own(t) /\ t.pc = "count" /\ t.kind # "report"
  BY OfOwn DEF Count
<1>2. CASE t.at \in gone
  BY <1>2, AbandonStep DEF Count
<1>3. CASE t.at \notin gone
  <2>1. Set(p, r) /\ UNCHANGED <<engine, table, rows, gone>>
    BY <1>3 DEF Count
  <2>2. saw = Sees(t, t.at) /\ saw \subseteq Keys
    BY OfOwn DEF Reread, Visible, Sees
  <2>3. /\ r.kind = t.kind /\ r.at = t.at /\ r.key = t.key /\ r.loser = t.loser
        /\ r.added = t.added /\ r.rest = t.rest /\ r.writing = t.writing
        /\ r.held = t.held /\ r.saw = saw /\ r.pc = next /\ r \in Transaction
        /\ next \in {"carry", "insert", "next"}
        /\ (next = "carry" <=> t.kind = "merge") /\ (next = "insert" => add)
    <3>1. /\ next \in {"carry", "insert", "next"}
          /\ (next = "carry" <=> t.kind = "merge") /\ (next = "insert" => add)
      OBVIOUS
    <3> HIDE DEF saw, next
    <3>2. /\ r.kind = t.kind /\ r.at = t.at /\ r.key = t.key /\ r.loser = t.loser
          /\ r.added = t.added /\ r.rest = t.rest /\ r.writing = t.writing
          /\ r.held = t.held /\ r.saw = saw /\ r.pc = next
      BY <1>1 DEF Transaction
    <3>3. r \in Transaction
      BY <1>1, <2>2, <3>1 DEF Transaction
    <3> QED BY <3>1, <3>2, <3>3
  <2> HIDE DEF saw, next, r
  <2>4. WellFormed(r)
    BY <1>1, <2>3 DEF WellFormed, Own
  <2>5. InPlace(r)
    BY <1>1, <1>3, <2>3 DEF InPlace, Own
  <2>6. \A b : Sees(r, b) = Sees(t, b)
    BY <2>3 DEF Sees
  <2>7. engine = "postgres" => t.at \in t.held /\ Fits(t, t.at)
    BY <1>1, <1>3 DEF Own, InPlace, HasRoom
  <2>8. engine = "postgres" => \A b \in r.held : Fits(r, b)
    BY <1>1, <2>3, <2>6 DEF Own, HasRoom, Fits
  <2>9. Of(rows, t.at) \subseteq saw
    BY <2>2 DEF Sees, Of
  <2>10. next = "insert" => Cardinality(Sees(r, r.at)) < Ceiling
    BY <2>2, <2>3, <2>6
  <2>11. next = "carry" => r.added = {}
    BY <1>1, <2>3 DEF Own, WellFormed
  <2>12. engine = "postgres" => Cardinality(saw) <= Ceiling
    BY <2>2, <2>7 DEF Fits
  <2>13. HasRoom(r)
    BY <1>1, <2>3, <2>8, <2>9, <2>10, <2>11, <2>12 DEF HasRoom
  <2>14. \A q \in Procs \ {p} : Apart(r, tx[q])
    BY <2>3, OfOwn DEF Apart
  <2> QED BY <2>1, <2>4, <2>5, <2>13, <2>14, OneMoves DEF Set, Own
<1> QED BY <1>2, <1>3

(* The row it adds is the one it had room for. *)
LEMMA InsertStep ==
  ASSUME CeilingsAssumption, IInv, NEW p \in Procs, Insert(p) PROVE IInv'
<1> DEFINE t == tx[p]
           r == [t EXCEPT !.added = t.added \cup {<<t.at, t.key>>}, !.writing = TRUE,
                          !.pc = IF t.kind = "report" THEN "count" ELSE "next"]
<1>1. t \in Transaction /\ Own(t) /\ t.pc = "insert" /\ WriterFree(p)
  BY OfOwn DEF Insert
<1>2. CASE t.at \in gone \/ <<t.at, t.key>> \in rows
  BY <1>2, AbandonStep DEF Insert
<1>3. CASE ~ (t.at \in gone \/ <<t.at, t.key>> \in rows)
  <2>1. Set(p, r) /\ UNCHANGED <<engine, table, rows, gone>>
    BY <1>3 DEF Insert
  <2>2. t.at \in Books /\ t.key \in Keys /\ t.kind \in {"report", "enrich", "import"}
    BY <1>1 DEF Own, WellFormed, Transaction
  <2>3. /\ r.kind = t.kind /\ r.at = t.at /\ r.key = t.key /\ r.loser = t.loser
        /\ r.added = t.added \cup {<<t.at, t.key>>} /\ r.rest = t.rest
        /\ r.writing /\ r.held = t.held /\ r.saw = t.saw
        /\ r.pc = IF t.kind = "report" THEN "count" ELSE "next"
    BY <1>1 DEF Transaction
  <2>10. r \in Transaction
    <3>1. t.added \cup {<<t.at, t.key>>} \in SUBSET (Books \X Keys)
      BY <1>1, <2>2 DEF Transaction
    <3>2. (IF t.kind = "report" THEN "count" ELSE "next") \in {"count", "next"}
      OBVIOUS
    <3> QED BY <1>1, <3>1, <3>2 DEF Transaction
  <2> HIDE DEF r
  <2>4. WellFormed(r)
    BY <1>1, <2>2, <2>3, <2>10 DEF WellFormed, Own
  <2>5. engine = "postgres" => t.at \in t.held
    BY <1>1, <1>3 DEF Own, InPlace
  <2>6. InPlace(r)
    BY <1>1, <1>3, <2>3, <2>5 DEF InPlace, Own
  <2>7. ASSUME engine = "postgres", t.kind # "report", NEW b \in r.held PROVE Fits(r, b)
    <3>1. CASE b = t.at
      <4>1. Sees(r, b) = Sees(t, b) \cup {t.key}
        BY <2>2, <2>3, <3>1 DEF Sees, Of
      <4>2. Cardinality(Sees(t, b)) < Ceiling
        BY <1>1, <1>3, <2>7, <3>1 DEF Own, HasRoom
      <4>3. Cardinality(Sees(r, b)) <= Cardinality(Sees(t, b)) + 1
        <5>1. IsFiniteSet(Sees(t, b)) /\ Cardinality(Sees(t, b)) \in Nat
          BY OfIsFinite DEF Sees
        <5>2. Cardinality(Sees(t, b) \cup {t.key}) =
                IF t.key \in Sees(t, b) THEN Cardinality(Sees(t, b))
                ELSE Cardinality(Sees(t, b)) + 1
          BY <5>1, FS_AddElement
        <5> HIDE DEF r, t
        <5> QED BY <4>1, <5>1, <5>2
      <4>4. Cardinality(Sees(t, b)) \in Nat /\ Cardinality(Sees(r, b)) \in Nat
        BY OfIsFinite DEF Sees
      <4> QED BY <4>2, <4>3, <4>4 DEF Fits, CeilingsAssumption
    <3>2. CASE b # t.at
      <4>1. Sees(r, b) = Sees(t, b)
        BY <2>3, <3>2 DEF Sees, Of
      <4> QED BY <1>1, <2>3, <2>7, <4>1 DEF Own, HasRoom, Fits
    <3> QED BY <3>1, <3>2
  <2>8. HasRoom(r)
    BY <1>1, <2>3, <2>7 DEF HasRoom
  <2>9. \A q \in Procs \ {p} : Apart(r, tx[q])
    BY <1>1, <2>3, OfOwn DEF Apart, WriterFree
  <2> QED BY <2>1, <2>4, <2>6, <2>8, <2>9, OneMoves DEF Set, Own
<1> QED BY <1>2, <1>3

LEMMA CountReportStep ==
  ASSUME CeilingsAssumption, IInv, NEW p \in Procs, CountReport(p) PROVE IInv'
<1> DEFINE t == tx[p]
           r == [t EXCEPT !.pc = "next"]
<1>1. t \in Transaction /\ Own(t) /\ t.pc = "count" /\ t.kind = "report"
  BY OfOwn DEF CountReport
<1>2. CASE Cardinality(Of(Visible(p), t.at)) > Ceiling
  BY <1>2, AbandonStep DEF CountReport
<1>3. CASE ~ (Cardinality(Of(Visible(p), t.at)) > Ceiling)
  <2>1. Set(p, r) /\ UNCHANGED <<engine, table, rows, gone>>
    BY <1>3 DEF CountReport
  <2>2. Fits(t, t.at)
    BY <1>3, OfOwn DEF Visible, Sees, Fits, CeilingsAssumption
  <2>3. /\ r.kind = t.kind /\ r.at = t.at /\ r.key = t.key /\ r.loser = t.loser
        /\ r.added = t.added /\ r.rest = t.rest /\ r.writing = t.writing
        /\ r.held = t.held /\ r.saw = t.saw /\ r.pc = "next"
        /\ r \in Transaction
    BY <1>1 DEF Transaction
  <2> HIDE DEF r
  <2>4. WellFormed(r)
    BY <1>1, <2>3 DEF WellFormed, Own
  <2>5. InPlace(r)
    BY <1>1, <2>3 DEF InPlace, Own
  <2>6. r.held \subseteq {t.at}
    BY <1>1, <2>3 DEF Own, WellFormed
  <2>7. \A b \in {t.at} : Fits(r, b)
    BY <2>2, <2>3 DEF Fits, Sees
  <2>8. HasRoom(r)
    BY <2>3, <2>6, <2>7 DEF HasRoom
  <2>9. \A q \in Procs \ {p} : Apart(r, tx[q])
    BY <2>3, OfOwn DEF Apart
  <2> QED BY <2>1, <2>4, <2>5, <2>8, <2>9, OneMoves DEF Set, Own
<1> QED BY <1>2, <1>3

LEMMA VisitStep ==
  ASSUME CeilingsAssumption, IInv, NEW p \in Procs, NEW b \in Books, NEW k \in Keys,
         Visit(p, b, k)
  PROVE  IInv'
<1> DEFINE t == tx[p]
           saw == Of(Visible(p), b)
           r == [t EXCEPT !.pc = "lock", !.at = b, !.key = k, !.saw = saw,
                          !.rest = t.rest \ {b}]
<1>1. t \in Transaction /\ Own(t) /\ t.pc = "next" /\ t.kind = "import"
  BY OfOwn DEF Visit, Own, WellFormed
<1>2. CASE b \in gone
  BY <1>2, AbandonStep DEF Visit
<1>3. CASE b \notin gone
  <2>1. Set(p, r) /\ UNCHANGED <<engine, table, rows, gone>>
    BY <1>3 DEF Visit
  <2>2. saw \subseteq Keys
    BY DEF Of
  <2>3. /\ r.kind = t.kind /\ r.at = b /\ r.key = k /\ r.loser = t.loser
        /\ r.added = t.added /\ r.writing = t.writing
        /\ r.held = t.held /\ r.pc = "lock"
        /\ r \in Transaction
    BY <1>1, <2>2 DEF Transaction
  <2> HIDE DEF saw, r
  <2>4. WellFormed(r)
    BY <1>1, <2>3 DEF WellFormed, Own
  <2>5. InPlace(r)
    BY <1>1, <2>3 DEF InPlace, Own
  <2>6. \A c : Sees(r, c) = Sees(t, c)
    BY <2>3 DEF Sees
  <2>7. HasRoom(r)
    BY <1>1, <2>3, <2>6 DEF HasRoom, Own, Fits
  <2>8. \A q \in Procs \ {p} : Apart(r, tx[q])
    BY <2>3, OfOwn DEF Apart
  <2> QED BY <2>1, <2>4, <2>5, <2>7, <2>8, OneMoves DEF Set, Own
<1> QED BY <1>2, <1>3

(* A carry adds as many as there is room for beside what it counted. *)
LEMMA CarriedFits ==
  ASSUME CeilingsAssumption, NEW p \in Procs, NEW s \in Carried(p),
         tx[p].saw \subseteq Keys, Cardinality(tx[p].saw) <= Ceiling
  PROVE  s \subseteq Keys /\ Cardinality(tx[p].saw \cup s) <= Ceiling
<1> DEFINE saw == tx[p].saw
           new == Of(rows, tx[p].loser) \ saw
           n == Cardinality(saw)
           c == Cardinality(new)
           room == IF Ceiling > n THEN Ceiling - n ELSE 0
           fits == IF c < room THEN c ELSE room
<1>1. s \in SUBSET new /\ Cardinality(s) = fits
  BY DEF Carried
<1>2. s \subseteq Keys
  BY <1>1 DEF Of
<1>3. IsFiniteSet(saw) /\ IsFiniteSet(s) /\ IsFiniteSet(new) /\ n \in Nat /\ c \in Nat
  <2>1. new \subseteq Keys
    BY DEF Of
  <2> QED BY <1>2, <2>1, FS_Subset, FS_CardinalityType DEF CeilingsAssumption
<1>4. fits \in Nat /\ fits <= Ceiling - n
  <2>1. n <= Ceiling
    OBVIOUS
  <2> HIDE DEF n, c
  <2> QED BY <1>3, <2>1 DEF CeilingsAssumption
<1>5. Cardinality(saw \cup s) = n + Cardinality(s) - Cardinality(saw \cap s)
  BY <1>3, FS_Union
<1>6. saw \cap s = {}
  BY <1>1
<1>7. Cardinality(saw \cap s) = 0
  BY <1>6, FS_EmptySet
<1> HIDE DEF fits, n, saw
<1>8. Cardinality(saw \cup s) <= Ceiling
  BY <1>1, <1>3, <1>4, <1>5, <1>7 DEF CeilingsAssumption
<1> QED BY <1>2, <1>8 DEF saw

LEMMA CarryStep ==
  ASSUME CeilingsAssumption, IInv, NEW p \in Procs, Carry(p) PROVE IInv'
<1> DEFINE t == tx[p]
<1>1. /\ t \in Transaction /\ Own(t) /\ t.pc = "carry" /\ t.kind = "merge"
      /\ t.at \in Books /\ t.added = {} /\ WriterFree(p)
  BY OfOwn DEF Carry, Own, WellFormed
<1>2. CASE t.at \in gone
  BY <1>2, AbandonStep DEF Carry
<1>3. CASE t.at \notin gone
  <2>1. PICK s \in Carried(p) :
           Set(p, [t EXCEPT !.added = {t.at} \X s, !.writing = TRUE, !.pc = "delete"])
    BY <1>3 DEF Carry
  <2> DEFINE r == [t EXCEPT !.added = {t.at} \X s, !.writing = TRUE, !.pc = "delete"]
  <2>2. s \subseteq Keys
    BY DEF Carried, Of
  <2>3. /\ r.kind = t.kind /\ r.at = t.at /\ r.key = t.key /\ r.loser = t.loser
        /\ r.added = {t.at} \X s /\ r.rest = t.rest /\ r.writing
        /\ r.held = t.held /\ r.saw = t.saw /\ r.pc = "delete" /\ r \in Transaction
    <3>1. /\ r.kind = t.kind /\ r.at = t.at /\ r.key = t.key /\ r.loser = t.loser
          /\ r.added = {t.at} \X s /\ r.rest = t.rest /\ r.writing
          /\ r.held = t.held /\ r.saw = t.saw /\ r.pc = "delete"
      BY <1>1 DEF Transaction
    <3>2. {t.at} \X s \in SUBSET (Books \X Keys)
      BY <1>1, <2>2
    <3>3. r \in Transaction
      BY <1>1, <3>2 DEF Transaction
    <3> QED BY <3>1, <3>3
  <2>4. UNCHANGED <<engine, table, rows, gone>>
    BY <1>3 DEF Carry
  <2> HIDE DEF r
  <2>5. WellFormed(r)
    BY <1>1, <2>2, <2>3 DEF WellFormed, Own
  <2>6. engine = "postgres" => t.at \in t.held
    BY <1>1, <1>3 DEF Own, InPlace
  <2>7. InPlace(r)
    BY <1>1, <1>3, <2>3, <2>6 DEF InPlace, Own
  <2>8. ASSUME engine = "postgres", NEW b \in r.held PROVE Fits(r, b)
    <3>1. CASE b = t.at
      <4>1. Of(rows, b) \subseteq t.saw /\ Cardinality(t.saw) <= Ceiling /\ t.saw \subseteq Keys
        BY <1>1, <1>3, <2>8, <3>1 DEF Own, HasRoom, Transaction
      <4>2. Sees(r, b) \subseteq t.saw \cup s
        BY <2>3, <3>1, <4>1 DEF Sees, Of
      <4>3. t.saw \cup s \in SUBSET Keys /\ Cardinality(t.saw \cup s) <= Ceiling
        BY <4>1, CarriedFits
      <4>4. /\ Cardinality(Sees(r, b)) <= Cardinality(t.saw \cup s)
            /\ Cardinality(Sees(r, b)) \in Nat /\ Cardinality(t.saw \cup s) \in Nat
        BY <4>2, <4>3, FewerCount
      <4> HIDE DEF t
      <4> QED BY <4>3, <4>4 DEF Fits, CeilingsAssumption
    <3>2. CASE b # t.at
      <4>1. Sees(r, b) = Sees(t, b)
        BY <1>1, <2>3, <3>2 DEF Sees, Of
      <4> QED BY <1>1, <2>3, <2>8, <4>1 DEF Own, HasRoom, Fits
    <3> QED BY <3>1, <3>2
  <2>9. HasRoom(r)
    BY <2>3, <2>8 DEF HasRoom
  <2>10. \A q \in Procs \ {p} : Apart(r, tx[q])
    BY <1>1, <2>3, OfOwn DEF Apart, WriterFree
  <2> QED BY <2>1, <2>4, <2>5, <2>7, <2>9, <2>10, OneMoves DEF Set, Own, r
<1> QED BY <1>2, <1>3

(* Rows change, and a transaction that does not move keeps its own where   *)
(* the rows of the Books it holds do, or it is the one that writes.        *)
LEMMA OthersStay ==
  ASSUME CeilingsAssumption, NEW q \in Procs, Own(tx[q]), tx'[q] = tx[q],
         UNCHANGED <<engine, table>>,
         engine = "postgres" => \A b \in tx[q].held : Of(rows', b) \subseteq Of(rows, b),
         engine = "sqlite" /\ gone' = {} /\ tx[q].writing =>
            gone = {} /\ \A b \in Books : Of(rows', b) \subseteq Of(rows, b),
         gone \subseteq gone', tx[q].held \cap gone' = {},
         \A b \in Books, k \in Keys : <<b, k>> \in tx[q].added => b \notin gone'
  PROVE  Own(tx[q])'
<1> DEFINE t == tx[q]
<1>1. WellFormed(t) /\ InPlace(t) /\ HasRoom(t) /\ t \in Transaction
  BY DEF Own, WellFormed
<1>2. WellFormed(t)'
  BY <1>1 DEF WellFormed, Transaction
<1>3. InPlace(t)'
  BY <1>1 DEF InPlace
<1>4. ASSUME NEW b, Of(rows', b) \subseteq Of(rows, b)
      PROVE  /\ Of(rows' \cup t.added, b) \subseteq Sees(t, b)
             /\ Cardinality(Of(rows' \cup t.added, b)) <= Cardinality(Sees(t, b))
             /\ Cardinality(Of(rows' \cup t.added, b)) \in Nat
             /\ Cardinality(Sees(t, b)) \in Nat
  <2>1. Of(rows' \cup t.added, b) \subseteq Sees(t, b)
    BY <1>4 DEF Of, Sees
  <2>2. Sees(t, b) \in SUBSET Keys
    BY DEF Sees, Of
  <2> QED BY <2>1, <2>2, FewerCount
<1>5. ASSUME NEW b, Of(rows', b) \subseteq Of(rows, b), Fits(t, b)
      PROVE  Cardinality(Of(rows' \cup t.added, b)) <= Ceiling
  BY <1>4, <1>5 DEF Fits, CeilingsAssumption
<1>6. \A b : Sees(t, b)' = Of(rows' \cup t.added, b)
  BY DEF Sees, Of
<1>7. HasRoom(t)'
  <2>1. ASSUME engine = "postgres", NEW b \in t.held, ~ (t.kind = "report" /\ t.pc = "count")
        PROVE  Fits(t, b)'
    BY <1>1, <1>5, <1>6, <2>1 DEF HasRoom, Fits
  <2>2. ASSUME engine = "postgres", t.kind # "report", t.pc = "insert", t.at \notin gone'
        PROVE  Cardinality(Sees(t, t.at))' < Ceiling
    <3>1. t.at \notin gone /\ t.at \in t.held
      BY <1>1, <2>2 DEF InPlace
    <3>2. Cardinality(Sees(t, t.at)) < Ceiling
      BY <1>1, <2>2, <3>1 DEF HasRoom
    <3>3. Of(rows', t.at) \subseteq Of(rows, t.at)
      BY <2>2, <3>1
    <3>4. /\ Cardinality(Of(rows' \cup t.added, t.at)) <= Cardinality(Sees(t, t.at))
          /\ Cardinality(Of(rows' \cup t.added, t.at)) \in Nat
          /\ Cardinality(Sees(t, t.at)) \in Nat
      BY <1>4, <3>3
    <3>5. Cardinality(Of(rows' \cup t.added, t.at)) < Ceiling
      BY <3>2, <3>4 DEF CeilingsAssumption
    <3> QED BY <1>6, <3>5
  <2>3. ASSUME engine = "postgres", t.pc = "carry", t.at \notin gone'
        PROVE  t.added = {} /\ Of(rows', t.at) \subseteq t.saw /\ Cardinality(t.saw) <= Ceiling
    BY <1>1, <2>3 DEF HasRoom, InPlace
  <2>4. ASSUME engine = "sqlite", table = "references", gone' = {}, t.kind = "report",
               t.pc = "next"
        PROVE  Fits(t, t.at)'
    <3>1. t.writing /\ t.at \in Books /\ gone = {}
      BY <1>1, <2>4 DEF WellFormed
    <3> QED BY <1>1, <1>5, <1>6, <2>4, <3>1 DEF HasRoom, Fits
  <2>5. Of(rows, t.at)' = Of(rows', t.at)
    BY DEF Of
  <2> QED BY <2>1, <2>2, <2>3, <2>4, <2>5 DEF HasRoom
<1> QED BY <1>2, <1>3, <1>7 DEF Own

(* A member forgets a row: there are no more of any Book than before. *)
LEMMA ForgetStep ==
  ASSUME CeilingsAssumption, IInv, NEW b \in Books, NEW k \in Keys, Forget(b, k)
  PROVE  IInv'
<1>1. rows' \subseteq rows /\ UNCHANGED <<engine, table, gone, tx>>
  BY DEF Forget
<1>2. \A c : Of(rows', c) \subseteq Of(rows, c)
  BY <1>1 DEF Of
<1>3. ASSUME NEW q \in Procs PROVE Own(tx[q])'
  <2>1. Own(tx[q]) /\ tx'[q] = tx[q] /\ gone' = gone
    BY <1>1 DEF IInv
  <2>2. /\ tx[q].held \cap gone' = {}
        /\ \A c \in Books, j \in Keys : <<c, j>> \in tx[q].added => c \notin gone'
    BY <2>1 DEF Own, InPlace
  <2> QED BY <1>1, <1>2, <2>1, <2>2, OthersStay
<1>4. ASSUME NEW c \in Books
      PROVE  /\ Cardinality(Of(rows, c))' <= Cardinality(Of(rows, c))
             /\ Cardinality(Of(rows, c))' \in Nat /\ Cardinality(Of(rows, c)) \in Nat
  <2>1. Of(rows, c) \in SUBSET Keys /\ Of(rows', c) \in SUBSET Of(rows, c)
    BY <1>2 DEF Of
  <2>2. /\ Cardinality(Of(rows', c)) <= Cardinality(Of(rows, c))
        /\ Cardinality(Of(rows', c)) \in Nat /\ Cardinality(Of(rows, c)) \in Nat
    BY <2>1, FewerCount
  <2>3. Of(rows, c)' = Of(rows', c)
    BY DEF Of
  <2> QED BY <2>2, <2>3
<1>5. RowsInv'
  <2>1. CeilingHolds'
    BY <1>1, <1>4 DEF IInv, RowsInv, CeilingHolds, CeilingsAssumption
  <2> QED BY <1>1, <2>1 DEF IInv, RowsInv
<1>6. tx' \in [Procs -> Transaction]
  BY <1>1 DEF IInv
<1>7. \A q, u \in Procs : q # u => Apart(tx[q], tx[u])'
  BY <1>1 DEF IInv, Apart
<1> QED BY <1>3, <1>5, <1>6, <1>7 DEF IInv

(* What a commit leaves to the others: on Postgres the rows of the Books   *)
(* they hold, on SQLite, to a writer, everything.                          *)
LEMMA CommitStep ==
  ASSUME CeilingsAssumption, IInv, NEW p \in Procs, Commit(p) PROVE IInv'
<1> DEFINE t == tx[p]
<1>1. /\ t \in Transaction /\ Own(t) /\ t.pc = "next" /\ t.kind \notin {"merge", "idle"}
      /\ WellFormed(t) /\ InPlace(t) /\ HasRoom(t)
  BY OfOwn DEF Commit, Own, WellFormed, Transaction
<1>2. rows' = rows \cup t.added /\ UNCHANGED <<engine, table, gone>> /\ Set(p, Nobody)
  BY DEF Commit, Visible, Ended
<1>3. Nobody \in Transaction
  BY NobodyIsOwn DEF Own, WellFormed
<1>4. tx' \in [Procs -> Transaction] /\ tx'[p] = Nobody /\ \A q \in Procs \ {p} : tx'[q] = tx[q]
  BY <1>2, <1>3 DEF IInv, Set
<1>5. \A b : Of(rows', b) = Sees(t, b)
  BY <1>2 DEF Of, Sees
<1>6. rows' \subseteq (Books \ gone) \X Keys
  <2>1. t.added \subseteq Books \X Keys
    BY <1>1 DEF Transaction
  <2>2. \A b \in Books, k \in Keys : <<b, k>> \in t.added => b \notin gone
    BY <1>1 DEF InPlace
  <2>3. t.added \subseteq (Books \ gone) \X Keys
    BY <2>1, <2>2
  <2> QED BY <1>2, <2>3 DEF IInv, RowsInv
<1>7. \A b : t.added = {} => Of(rows', b) = Of(rows, b)
  BY <1>2 DEF Of
<1>8. ASSUME engine = "postgres", NEW b \in Books, b \notin t.held
      PROVE  Of(rows', b) = Of(rows, b)
  BY <1>1, <1>2, <1>8 DEF InPlace, Of
<1>9. ASSUME engine' = "postgres" \/ (table' = "references" /\ gone' = {}), NEW b \in Books
      PROVE  Cardinality(Of(rows', b)) <= Ceiling
  <2>1. Cardinality(Of(rows, b)) <= Ceiling
    BY <1>2, <1>9 DEF IInv, RowsInv, CeilingHolds
  <2>2. CASE engine = "postgres"
    <3>1. CASE b \in t.held
      BY <1>1, <1>5, <2>2, <3>1 DEF HasRoom, Fits
    <3>2. CASE b \notin t.held
      BY <1>8, <2>1, <2>2, <3>2
    <3> QED BY <3>1, <3>2
  <2>3. CASE engine = "sqlite"
    <3>1. t.kind = "report" /\ table = "references" /\ gone = {}
      BY <1>1, <1>2, <1>9, <2>3 DEF WellFormed
    <3>2. CASE b = t.at
      BY <1>1, <1>5, <2>3, <3>1, <3>2 DEF HasRoom, Fits
    <3>3. CASE b # t.at
      <4>1. Of(rows', b) = Of(rows, b)
        BY <1>1, <1>2, <3>1, <3>3 DEF WellFormed, Of
      <4> QED BY <2>1, <4>1
    <3> QED BY <3>2, <3>3
  <2> QED BY <2>2, <2>3 DEF IInv, RowsInv
<1>10. RowsInv'
  <2>1. \A b : Of(rows, b)' = Of(rows', b)
    BY DEF Of
  <2>2. CeilingHolds'
    BY <1>9, <2>1 DEF CeilingHolds
  <2> QED BY <1>2, <1>6, <2>2 DEF IInv, RowsInv
<1>11. ASSUME NEW q \in Procs PROVE Own(tx[q])'
  <2>1. CASE q = p
    <3>1. WellFormed(tx[q])'
      BY <1>4, <2>1 DEF Nobody, WellFormed, Transaction
    <3> QED BY <1>4, <2>1, <3>1 DEF Nobody, Own, InPlace, HasRoom
  <2>2. CASE q # p
    <3>1. Own(tx[q]) /\ tx'[q] = tx[q] /\ tx[q] \in Transaction /\ Apart(t, tx[q])
      BY <1>4, <2>2 DEF IInv
    <3>2. engine = "postgres" => \A b \in tx[q].held : Of(rows', b) \subseteq Of(rows, b)
      BY <1>8, <3>1 DEF Apart, Transaction
    <3>3. engine = "sqlite" /\ tx[q].writing => t.added = {}
      BY <1>1, <3>1 DEF Apart, WellFormed
    <3>4. engine = "sqlite" /\ tx[q].writing =>
             \A b \in Books : Of(rows', b) \subseteq Of(rows, b)
      BY <1>7, <3>3
    <3>5. /\ tx[q].held \cap gone' = {} /\ gone' = gone
          /\ \A c \in Books, j \in Keys : <<c, j>> \in tx[q].added => c \notin gone'
      BY <1>2, <3>1 DEF Own, InPlace
    <3> QED BY <1>2, <3>1, <3>2, <3>4, <3>5, OthersStay
  <2> QED BY <2>1, <2>2
<1>12. ASSUME NEW q \in Procs, NEW u \in Procs, q # u PROVE Apart(tx[q], tx[u])'
  <2>1. CASE q = p \/ u = p
    BY <1>4, <2>1 DEF Nobody, Apart
  <2>2. CASE q # p /\ u # p
    BY <1>2, <1>4, <2>2, <1>12 DEF Apart, IInv
  <2> QED BY <2>1, <2>2
<1> QED BY <1>4, <1>10, <1>11, <1>12 DEF IInv

(* The loser goes: nobody else holds it, and nobody else writes on SQLite. *)
LEMMA DeleteLoserStep ==
  ASSUME CeilingsAssumption, IInv, NEW p \in Procs, DeleteLoser(p) PROVE IInv'
<1> DEFINE t == tx[p]
           l == t.loser
<1>1. /\ t \in Transaction /\ Own(t) /\ t.pc = "delete" /\ t.kind = "merge" /\ l \in Books
      /\ t.at # l /\ t.writing /\ LockFree(p, l)
      /\ WellFormed(t) /\ InPlace(t) /\ HasRoom(t)
  BY OfOwn DEF DeleteLoser, Own, WellFormed
<1>2. /\ rows' = {r \in rows \cup t.added : r[1] # l} /\ gone' = gone \cup {l}
      /\ UNCHANGED <<engine, table>> /\ Set(p, Nobody)
  BY DEF DeleteLoser, WithoutLoser, Visible, Ended
<1>3. Nobody \in Transaction
  BY NobodyIsOwn DEF Own, WellFormed
<1>4. tx' \in [Procs -> Transaction] /\ tx'[p] = Nobody /\ \A q \in Procs \ {p} : tx'[q] = tx[q]
  BY <1>2, <1>3 DEF IInv, Set
<1>5. \A b : Of(rows', b) \subseteq Sees(t, b)
  BY <1>2 DEF Of, Sees
<1>6. rows' \subseteq (Books \ gone') \X Keys
  <2>1. t.added \subseteq Books \X Keys
    BY <1>1 DEF Transaction
  <2>2. \A b \in Books, k \in Keys : <<b, k>> \in t.added => b \notin gone
    BY <1>1 DEF InPlace
  <2>3. rows \cup t.added \subseteq (Books \ gone) \X Keys
    BY <2>1, <2>2 DEF IInv, RowsInv
  <2> QED BY <1>2, <2>3
<1>7. ASSUME engine = "postgres", NEW b \in Books, b \notin t.held
      PROVE  Of(rows', b) \subseteq Of(rows, b)
  BY <1>1, <1>2, <1>7 DEF InPlace, Of
<1>8. ASSUME engine = "postgres", NEW b \in Books
      PROVE  Cardinality(Of(rows', b)) <= Ceiling
  <2>1. CASE b \in t.held
    <3>1. Of(rows', b) \in SUBSET Sees(t, b) /\ Sees(t, b) \in SUBSET Keys
      BY <1>5, OfOwn
    <3>2. Cardinality(Sees(t, b)) <= Ceiling
      BY <1>1, <1>8, <2>1 DEF HasRoom, Fits
    <3> QED BY <3>1, <3>2, FewerCount DEF CeilingsAssumption
  <2>2. CASE b \notin t.held
    <3>1. Of(rows', b) \in SUBSET Of(rows, b) /\ Of(rows, b) \in SUBSET Keys
      BY <1>7, <1>8, <2>2 DEF Of
    <3>2. Cardinality(Of(rows, b)) <= Ceiling
      BY <1>8 DEF IInv, RowsInv, CeilingHolds
    <3> QED BY <3>1, <3>2, FewerCount DEF CeilingsAssumption
  <2> QED BY <2>1, <2>2
<1>9. RowsInv'
  <2>1. \A b : Of(rows, b)' = Of(rows', b)
    BY DEF Of
  <2>2. gone' # {} /\ gone' \subseteq Books
    BY <1>1, <1>2 DEF IInv, RowsInv
  <2>3. CeilingHolds'
    BY <1>2, <1>8, <2>1, <2>2 DEF CeilingHolds
  <2> QED BY <1>2, <1>6, <2>2, <2>3 DEF IInv, RowsInv
<1>10. ASSUME NEW q \in Procs PROVE Own(tx[q])'
  <2>1. CASE q = p
    <3>1. WellFormed(tx[q])'
      BY <1>4, <2>1 DEF Nobody, WellFormed, Transaction
    <3> QED BY <1>4, <2>1, <3>1 DEF Nobody, Own, InPlace, HasRoom
  <2>2. CASE q # p
    <3>1. /\ Own(tx[q]) /\ tx'[q] = tx[q] /\ tx[q] \in Transaction /\ Apart(t, tx[q])
          /\ InPlace(tx[q]) /\ WellFormed(tx[q])
      BY <1>4, <2>2 DEF IInv, Own
    <3>2. engine = "postgres" => \A b \in tx[q].held : Of(rows', b) \subseteq Of(rows, b)
      BY <1>7, <3>1 DEF Apart, Transaction
    <3>3. engine = "sqlite" => tx[q].added = {} /\ tx[q].held = {}
      BY <1>1, <3>1 DEF Apart, WellFormed, InPlace
    <3>4. engine = "postgres" => l \notin tx[q].held
      BY <1>1, <2>2 DEF LockFree
    <3>5. engine \in {"postgres", "sqlite"}
      BY DEF IInv, RowsInv
    <3>6. tx[q].held \cap gone' = {}
      BY <1>2, <3>1, <3>3, <3>4, <3>5 DEF InPlace
    <3>7. \A c \in Books, j \in Keys : <<c, j>> \in tx[q].added => c \notin gone'
      BY <1>2, <3>1, <3>3, <3>4, <3>5 DEF InPlace
    <3>8. gone' # {} /\ gone \subseteq gone'
      BY <1>2
    <3> QED BY <1>2, <3>1, <3>2, <3>6, <3>7, <3>8, OthersStay
  <2> QED BY <2>1, <2>2
<1>11. ASSUME NEW q \in Procs, NEW u \in Procs, q # u PROVE Apart(tx[q], tx[u])'
  <2>1. CASE q = p \/ u = p
    BY <1>4, <2>1 DEF Nobody, Apart
  <2>2. CASE q # p /\ u # p
    BY <1>2, <1>4, <2>2, <1>11 DEF Apart, IInv
  <2> QED BY <2>1, <2>2
<1> QED BY <1>4, <1>9, <1>10, <1>11 DEF IInv

LEMMA NextInv == ASSUME CeilingsAssumption, IInv, [Next]_vars PROVE IInv'
<1>1. ASSUME NEW p \in Procs, Begin(p) PROVE IInv'
  BY <1>1, BeginStep
<1>2. ASSUME NEW p \in Procs, Advance(p) PROVE IInv'
  <2>1. CASE Lock(p) BY <2>1, LockStep
  <2>2. CASE Count(p) BY <2>2, CountStep
  <2>3. CASE Insert(p) BY <2>3, InsertStep
  <2>4. CASE CountReport(p) BY <2>4, CountReportStep
  <2>5. CASE Commit(p) BY <2>5, CommitStep
  <2>6. CASE Carry(p) BY <2>6, CarryStep
  <2>7. CASE DeleteLoser(p) BY <2>7, DeleteLoserStep
  <2>8. CASE Abort(p) BY <2>8, AbandonStep DEF Abort
  <2>9. CASE GiveUp(p) BY <2>9, AbandonStep DEF GiveUp
  <2> QED BY <1>2, <2>1, <2>2, <2>3, <2>4, <2>5, <2>6, <2>7, <2>8, <2>9 DEF Advance
<1>3. ASSUME NEW p \in Procs, NEW b \in Books, NEW k \in Keys, Visit(p, b, k) PROVE IInv'
  BY <1>3, VisitStep
<1>4. ASSUME NEW b \in Books, NEW k \in Keys, Forget(b, k) PROVE IInv'
  BY <1>4, ForgetStep
<1>5. CASE UNCHANGED vars
  <2>1. \A q \in Procs : Own(tx[q]) /\ tx'[q] = tx[q]
    BY <1>5 DEF IInv, vars
  <2>2. \A q \in Procs : Own(tx[q])'
    BY <1>5, <2>1, OwnStays DEF vars
  <2>3. RowsInv'
    BY <1>5 DEF vars, IInv, RowsInv, CeilingHolds, Of
  <2>4. \A p, q \in Procs : p # q => Apart(tx[p], tx[q])'
    BY <1>5 DEF vars, IInv, Apart
  <2>5. tx' \in [Procs -> Transaction]
    BY <1>5 DEF vars, IInv
  <2> QED BY <2>2, <2>3, <2>4, <2>5 DEF IInv
<1> QED BY <1>1, <1>2, <1>3, <1>4, <1>5 DEF Next

(* The invariant, of every reachable state. *)
THEOREM Inductive == ASSUME CeilingsAssumption PROVE Spec => []IInv
<1>1. Init => IInv
  BY InitInv
<1>2. IInv /\ [Next]_vars => IInv'
  BY NextInv
<1> QED BY <1>1, <1>2, PTL DEF Spec

(* A row is of a Book that is there, and so is all that a transaction is   *)
(* at and holds (hold_book_ceilings and the cascade of merge_books).       *)
THEOREM TypesHold == ASSUME CeilingsAssumption PROVE Spec => []TypeOK
<1>1. IInv => TypeOK
  <2> SUFFICES ASSUME IInv PROVE TypeOK
    OBVIOUS
  <2>1. rows \subseteq (Books \ gone) \X Keys
    BY DEF IInv, RowsInv
  <2>2. \A p \in Procs : tx[p].held \cup ({tx[p].at, tx[p].loser} \ {None}) \subseteq Books
    BY DEF IInv, Transaction
  <2> QED BY <2>1, <2>2 DEF TypeOK
<1> QED BY <1>1, Inductive, PTL

(* No Book is past its ceiling (hold_book_ceilings before every count and  *)
(* the report's count after its insert): on Postgres whatever requests     *)
(* meet, on SQLite for the references until Books are merged.              *)
THEOREM CeilingHoldsAlways == ASSUME CeilingsAssumption PROVE Spec => []CeilingHolds
<1>1. IInv => CeilingHolds
  BY DEF IInv, RowsInv
<1> QED BY <1>1, Inductive, PTL

(* Whatever Postgres aborts answers a deadlock with a 409 (is_a_deadlock): *)
(* it waits for a Book while it holds one, as imports and merges alone do. *)
THEOREM OnlyTheAnsweredDeadlockHolds ==
  ASSUME CeilingsAssumption PROVE Spec => []OnlyTheAnsweredDeadlock
<1>1. IInv => OnlyTheAnsweredDeadlock
  <2> SUFFICES ASSUME IInv, NEW p \in Procs, Deadlocked(p)
               PROVE  tx[p].kind \in {"import", "merge"}
    BY DEF OnlyTheAnsweredDeadlock
  <2>1. Wants(p) # {} /\ tx[p].held # {}
    BY DEF Deadlocked
  <2>2. WellFormed(tx[p]) /\ tx[p] \in Transaction
    BY DEF IInv, Own
  <2>3. tx[p].pc \in {"lock", "delete"}
    BY <2>1 DEF Wants
  <2> QED BY <2>1, <2>2, <2>3 DEF WellFormed, Transaction
<1> QED BY <1>1, Inductive, PTL

=============================================================================
