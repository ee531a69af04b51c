---------------------------- MODULE RateLimit ----------------------------
(***************************************************************************)
(* SlidingWindowLimiter: the hits of each key inside a window, in a table  *)
(* of bounded size.                                                        *)
(*                                                                         *)
(* A hit is kept by its age in ticks, so that time needs no bound; one     *)
(* that is a window old or more is expired, and ages no further.  A key    *)
(* with no hits is not in the table.  A check is one step: what threads    *)
(* that check one key at once may do to the table is left out.             *)
(***************************************************************************)
EXTENDS Naturals, Sequences, FiniteSets, SequencesExt, FiniteSetsExt

CONSTANTS
  Keys,
  MaxAttempts,
  Seconds,     \* window_seconds
  PerSecond,   \* ticks in a second
  MaxKeys      \* the ceiling of the table

RateLimitAssumption ==
  /\ {MaxAttempts, Seconds, PerSecond, MaxKeys} \subseteq Nat \ {0}

VARIABLES
  hits,      \* [Keys -> the ages of its hits, oldest first]
  admitted,  \* [Keys -> the ages of the attempts it was allowed in a window]
  wait       \* [Keys -> the ticks left of the Retry-After it was told, or None]

vars == <<hits, admitted, wait>>

Window == Seconds * PerSecond
None == Window + PerSecond + 1

Live(ages) == SelectSeq(ages, LAMBDA a : a < Window)
Tracked(table) == {k \in Keys : table[k] # <<>>}

----------------------------------------------------------------------------
(* _prune *)
Prune(table, k) == [table EXCEPT ![k] = Live(@)]

(* _sweep: only of a table that is full. *)
Sweep(table) ==
  IF Cardinality(Tracked(table)) < MaxKeys THEN table
  ELSE [k \in Keys |-> Live(table[k])]

(* As RetryAfter, without the second that int() may have cut. *)
RetryAfter_Floor(oldest) == (Window - oldest) \div PerSecond

RetryAfter(oldest) == (Window - oldest) \div PerSecond + 1

HasRoom(table, k) == k \in Tracked(table) \/ Cardinality(Tracked(table)) < MaxKeys

Over(table, k) == Len(table[k]) >= MaxAttempts

(* A check that raises 429 for the key's own attempts. *)
RefuseKey(k) ==
  LET t == Prune(hits, k) IN
  /\ Over(t, k)
  /\ hits' = t
  /\ wait' = [wait EXCEPT ![k] = RetryAfter(t[k][1]) * PerSecond]
  /\ UNCHANGED admitted

(* A key the table does not know, and no room for it: it is told to wait a *)
(* whole window.                                                           *)
TurnedAway(k) ==
  LET t == Prune(hits, k) IN
  ~ Over(t, k) /\ ~ HasRoom(t, k) /\ ~ HasRoom(Sweep(t), k)

RefuseNew(k) ==
  /\ TurnedAway(k)
  /\ hits' = Sweep(Prune(hits, k))
  /\ wait' = [wait EXCEPT ![k] = Window]
  /\ UNCHANGED admitted

Admit(k) ==
  LET p == Prune(hits, k)
      t == IF HasRoom(p, k) THEN p ELSE Sweep(p)
  IN
  /\ ~ Over(p, k) /\ HasRoom(t, k)
  /\ hits' = [t EXCEPT ![k] = Append(@, 0)]
  /\ admitted' = [admitted EXCEPT ![k] = Append(@, 0)]
  /\ wait' = [wait EXCEPT ![k] = None]

(* reset, after a sign-in that succeeded. *)
Reset(k) ==
  /\ hits' = [hits EXCEPT ![k] = <<>>]
  /\ admitted' = [admitted EXCEPT ![k] = <<>>]
  /\ wait' = [wait EXCEPT ![k] = None]

Tick ==
  /\ hits' = [k \in Keys |-> [n \in DOMAIN hits[k] |-> Min({hits[k][n] + 1, Window})]]
  /\ admitted' = [k \in Keys |-> Live([n \in DOMAIN admitted[k] |-> admitted[k][n] + 1])]
  /\ wait' = [k \in Keys |-> IF wait[k] \in {0, None} THEN wait[k] ELSE wait[k] - 1]

Init ==
  /\ hits = [k \in Keys |-> <<>>] /\ admitted = [k \in Keys |-> <<>>]
  /\ wait = [k \in Keys |-> None]

Next == Tick \/ \E k \in Keys : RefuseKey(k) \/ RefuseNew(k) \/ Admit(k) \/ Reset(k)

Spec == Init /\ [][Next]_vars

----------------------------------------------------------------------------
(* Properties *)

(* Hits are kept oldest first, and the table never grows past its ceiling. *)
TypeOK ==
  /\ \A k \in Keys : /\ \A m, n \in DOMAIN hits[k] : m < n => hits[k][m] >= hits[k][n]
                     /\ \A n \in DOMAIN hits[k] : hits[k][n] \in 0 .. Window
                     /\ wait[k] \in 0 .. None
  /\ Cardinality(Tracked(hits)) <= MaxKeys

(* "The limit holds over any window of the given length": whatever others  *)
(* did to the table in the meantime.                                       *)
HoldsOverAnyWindow == \A k \in Keys : Len(admitted[k]) <= MaxAttempts

(* A key that waited as long as it was told is not over its own limit.  It *)
(* may be turned away, even again, by a table full of other keys.          *)
WaitedIsNotOver == \A k \in Keys : wait[k] = 0 => ~ Over(Prune(hits, k), k)

(* A new key is refused only while every record in the table is live.      *)
DeadRecordsMakeRoom ==
  \A k \in Keys : TurnedAway(k) => \A j \in Tracked(hits) : Live(hits[j]) # <<>>
=============================================================================
