------------------------------ MODULE Lookups ------------------------------
(***************************************************************************)
(* Which catalogues are asked about an ISBN, in what order, and what is    *)
(* remembered of their answers.                                            *)
(*                                                                         *)
(* A lookup reads the household's plan once, asks the leading sources      *)
(* together and the rest one at a time until one has a record, looks for a *)
(* cover, and stores what it learnt in a cache that every lookup shares.   *)
(* The administrator switches sources meanwhile, which empties the cache.  *)
(* A title search asks its roster together under a deadline; one search at *)
(* a time is granted the slow catalogues too.                              *)
(*                                                                         *)
(* Requests are tasks of one event loop: between two awaits a step is      *)
(* atomic.  What a record says, how records are merged and how rows are    *)
(* ranked are left out; the order of the sources is not changed.           *)
(***************************************************************************)
EXTENDS Naturals, FiniteSets, Sequences

CONSTANTS
  Sources,
  Place,          \* [Sources -> where the household put it]
  LookupSources, SearchSources, Metered, NeedsAKey, SlowSearches,
  Serves,         \* [Isbns -> the sources whose remit it is in]
  Isbns, Requests,
  Households,     \* which of them may be switched on to begin with
  AlwaysAsked,    \* how many sources lead
  HitTTL, MissTTL, MaxEntries,
  Quarter,        \* how many entries a full cache drops
  MaxTime, MaxWrites    \* bounds

LookupsAssumption ==
  /\ Place \in [Sources -> Nat]
  /\ LookupSources \cup SearchSources \cup Metered \cup NeedsAKey \subseteq Sources
  /\ Households \subseteq SUBSET Sources
  /\ SlowSearches \subseteq SearchSources
  /\ Serves \in [Isbns -> SUBSET Sources]
  /\ {AlwaysAsked, HitTTL, MissTTL, MaxTime, MaxWrites} \subseteq Nat
  /\ MaxEntries \in Nat /\ Quarter \in 1 .. MaxEntries

VARIABLES
  listed,    \* the sources switched on
  ready,     \* those of NeedsAKey that have one
  cache,     \* [Isbns -> what is remembered, or Nothing]
  kept,      \* the ISBNs in the cache, oldest insertion first
  req,       \* [Requests -> the request in flight]
  harder,    \* _HARDER_AT_ONCE.locked()
  clock, writes

vars == <<listed, ready, cache, kept, req, harder, clock, writes>>

(* Unavailable and rate limited are told apart only in what is said. *)
Outcomes == {"found", "not_found", "failed"}
Results == Outcomes \cup {"no_sources"}

Nothing == [outcome |-> "none", sources |-> {}, at |-> 0, late |-> FALSE]

NoAnswers == [s \in Sources |-> "none"]
Idle == [step |-> "idle", isbn |-> CHOOSE i \in Isbns : TRUE, plan |-> {}, answers |-> NoAnswers,
         since |-> 0, late |-> FALSE, slot |-> FALSE]
Steps == {"idle", "ask", "cover", "miss", "search"}

----------------------------------------------------------------------------
(* sources.Plan *)

(* settings_store.catalogue_sources: switched on, and able to answer. *)
Asked == {s \in listed : s \in NeedsAKey => s \in ready}

Chain(plan) == plan \cap LookupSources

(* The first AlwaysAsked of them. *)
Leading(group) == {s \in group : Cardinality({t \in group : Place[t] < Place[s]}) < AlwaysAsked}

(* Plan.lookup_together: the leading sources that cost nothing. *)
LookupTogether(plan) == Leading(Chain(plan) \ Metered)

(* _serves *)
Reached(plan, isbn) == plan \cap Serves[isbn]

(* As LookupInTurn, what stands behind the first AlwaysAsked. *)
LookupInTurn_Behind(plan, isbn) == Reached(Chain(plan) \ Leading(Chain(plan)), isbn)

(* Plan.lookup_in_turn: the others, if this book may be theirs. *)
LookupInTurn(plan, isbn) == Reached(Chain(plan) \ LookupTogether(plan), isbn)

Searched(plan, hard) ==
  {s \in plan : s \in SearchSources /\ (s \in SlowSearches => hard)}

----------------------------------------------------------------------------
(* The cache *)

TTL(result) == IF result.outcome = "found" THEN HitTTL ELSE MissTTL

Live(isbn) == cache[isbn] # Nothing /\ cache[isbn].at + TTL(cache[isbn]) >= clock

(* _cached: an expired entry is dropped by the lookup that meets it. *)
Cached(isbn) == Live(isbn)

Full == Len(kept) >= MaxEntries

(* _remember: a full cache drops its oldest insertions first, whether or   *)
(* not the ISBN is one it holds; a new value keeps the old one's place.    *)
Remember(isbn, result) ==
  LET left == IF Full THEN SubSeq(kept, Quarter + 1, Len(kept)) ELSE kept
      held == {left[n] : n \in 1 .. Len(left)}
  IN /\ kept' = IF isbn \in held THEN left ELSE Append(left, isbn)
     /\ cache' = [i \in Isbns |-> IF i = isbn THEN result
                                  ELSE IF i \in held THEN cache[i] ELSE Nothing]

(* clear_cache, and no lookup in flight is told. *)
ClearCache ==
  /\ cache' = [i \in Isbns |-> Nothing] /\ kept' = <<>>
  /\ req' = [r \in Requests |-> IF req[r].step = "idle" THEN Idle ELSE [req[r] EXCEPT !.late = TRUE]]

----------------------------------------------------------------------------
(* lookup *)

Answered(q) == {s \in Sources : q.answers[s] # "none"}
Found(q) == {s \in Sources : q.answers[s] = "found"}

(* The sources a lookup waits for: the leading ones together, then the     *)
(* first of the others.                                                    *)
Waiting(q) ==
  LET together == LookupTogether(q.plan) \ Answered(q)
      turn == LookupInTurn(q.plan, q.isbn) \ Answered(q)
  IN IF together # {} THEN together
     ELSE IF Found(q) # {} THEN {} ELSE {s \in turn : \A t \in turn : Place[s] <= Place[t]}

Advanced(q) ==
  [q EXCEPT !.step = IF Waiting(q) # {} THEN "ask" ELSE IF Found(q) # {} THEN "cover" ELSE "miss"]

(* lookup_isbn with what the cache holds, answered at once. *)
ServeCached(r, isbn) ==
  /\ req[r] = Idle /\ Cached(isbn)
  /\ UNCHANGED vars

BeginLookup(r, isbn) ==
  /\ req[r] = Idle /\ ~ Cached(isbn)
  /\ cache' = [cache EXCEPT ![isbn] = IF Live(isbn) THEN @ ELSE Nothing]
  /\ kept' = SelectSeq(kept, LAMBDA i : i # isbn \/ Live(i))
  /\ req' = [req EXCEPT ![r] = Advanced([Idle EXCEPT !.isbn = isbn, !.plan = Asked, !.since = clock])]
  /\ UNCHANGED <<listed, ready, harder, clock, writes>>

(* _lookup_one: a refusal or a diagnostic of the catalogue is no statement *)
(* about the book.                                                         *)
Answer(r, s, outcome) ==
  /\ req[r].step = "ask" /\ s \in Waiting(req[r])
  /\ req' = [req EXCEPT ![r] = Advanced([@ EXCEPT !.answers[s] = outcome])]
  /\ UNCHANGED <<listed, ready, cache, kept, harder, clock, writes>>

(* As Worst, of an answer without a record. *)
Worst_Missed(outcomes) == "not_found"

(* _worst *)
Worst(outcomes) == IF "failed" \in outcomes THEN "failed" ELSE "not_found"

(* No source to ask is told apart from a book nobody has. *)
Outcome(q) ==
  IF Found(q) # {} THEN "found"
  ELSE IF Chain(q.plan) = {} THEN "no_sources"
  ELSE Worst({q.answers[s] : s \in Answered(q)})

(* The cover is found or not; the answer is remembered and given. *)
FinishLookup(r) ==
  /\ req[r].step \in {"cover", "miss"}
  /\ Remember(req[r].isbn, [outcome |-> Outcome(req[r]), sources |-> Found(req[r]), at |-> clock,
                            late |-> req[r].late])
  /\ req' = [req EXCEPT ![r] = Idle]
  /\ UNCHANGED <<listed, ready, harder, clock, writes>>

----------------------------------------------------------------------------
(* title_search *)

(* The slow catalogues, if there are any to ask and nobody asks them now.  *)
Granted(wanted, plan) ==
  wanted /\ Searched(plan, TRUE) # Searched(plan, FALSE) /\ ~ harder

BeginSearch(r, wanted) ==
  /\ req[r] = Idle /\ Searched(Asked, TRUE) # {}
  /\ req' = [req EXCEPT ![r] = [Idle EXCEPT !.step = "search", !.plan = Asked,
                                            !.slot = Granted(wanted, Asked)]]
  /\ harder' = (harder \/ Granted(wanted, Asked))
  /\ UNCHANGED <<listed, ready, cache, kept, clock, writes>>

Released(q) == harder /\ ~ q.slot

(* Every source has answered or the deadline has cancelled those that did  *)
(* not; or the request was cancelled itself.                               *)
EndSearch(r) ==
  /\ req[r].step = "search"
  /\ harder' = Released(req[r])
  /\ req' = [req EXCEPT ![r] = Idle]
  /\ UNCHANGED <<listed, ready, cache, kept, clock, writes>>

----------------------------------------------------------------------------
(* The administrator, and time *)

(* update_settings: the list of sources. *)
SwitchSource(s) ==
  /\ writes < MaxWrites /\ writes' = writes + 1
  /\ listed' = IF s \in listed THEN listed \ {s} ELSE listed \cup {s}
  /\ ClearCache
  /\ UNCHANGED <<ready, harder, clock>>

(* The Google Books switch and key, and a catalogue's login. *)
SwitchKey(s) ==
  /\ writes < MaxWrites /\ writes' = writes + 1
  /\ ready' = IF s \in ready THEN ready \ {s} ELSE ready \cup {s}
  /\ ClearCache
  /\ UNCHANGED <<listed, harder, clock>>

Tick ==
  /\ clock < MaxTime /\ clock' = clock + 1
  /\ UNCHANGED <<listed, ready, cache, kept, req, harder, writes>>

----------------------------------------------------------------------------
Init ==
  /\ listed \in Households /\ ready = NeedsAKey
  /\ cache = [i \in Isbns |-> Nothing] /\ kept = <<>>
  /\ req = [r \in Requests |-> Idle] /\ harder = FALSE
  /\ clock = 0 /\ writes = 0

Proceed(r) ==
  \/ \E s \in Sources, o \in Outcomes : Answer(r, s, o)
  \/ FinishLookup(r) \/ EndSearch(r)

Next ==
  \/ \E r \in Requests : \/ Proceed(r)
                         \/ \E isbn \in Isbns : ServeCached(r, isbn) \/ BeginLookup(r, isbn)
                         \/ \E wanted \in BOOLEAN : BeginSearch(r, wanted)
  \/ \E s \in Sources : SwitchSource(s)
  \/ \E s \in NeedsAKey : SwitchKey(s)
  \/ Tick

Spec == Init /\ [][Next]_vars

----------------------------------------------------------------------------
(* Properties *)

TypeOK ==
  /\ listed \subseteq Sources /\ ready \subseteq NeedsAKey /\ harder \in BOOLEAN
  /\ kept \in Seq(Isbns) /\ {kept[n] : n \in 1 .. Len(kept)} = {i \in Isbns : cache[i] # Nothing}
  /\ \A i \in Isbns : cache[i] = Nothing \/ cache[i].outcome \in Results
  /\ \A r \in Requests : /\ req[r].step \in Steps /\ req[r].plan \subseteq Sources
                         /\ req[r].step = "ask" <=> Waiting(req[r]) # {} /\ req[r].step # "search"

(* The cache never holds more than its bound. *)
CacheIsBounded == Len(kept) <= MaxEntries

(* What a source supplied is not served once it is off, by whichever of    *)
(* the switches: unless a lookup in flight at the time stored it after.    *)
OffIsForgotten ==
  \A i \in Isbns : cache[i].late \/ cache[i].sources \subseteq Asked

(* "No catalogue has a record" is said once each that may have it was      *)
(* asked, whatever order the household chose.                              *)
EachIsAskedBeforeAMiss ==
  \A r \in Requests :
    req[r].step = "miss" =>
      {s \in req[r].plan \cap LookupSources : s \in Serves[req[r].isbn]} \subseteq Answered(req[r])

(* A metered source is asked about a book only when the leading free ones  *)
(* have all failed to answer.                                              *)
QuotaIsForTheTail ==
  \A r \in Requests :
    Answered(req[r]) \cap Metered # {} =>
      \A s \in Leading(Chain(req[r].plan) \ Metered) : req[r].answers[s] \notin {"none", "found"}

(* A failed catalogue is not reported, or remembered, as a book nobody has.*)
FailureIsNoMiss ==
  \A r \in Requests :
    req[r].step = "miss" /\ req'[r] = Idle
    /\ (\E s \in Sources : req[r].answers[s] = "failed") =>
      cache'[req[r].isbn].outcome # "not_found"

(* A record is lost to a miss only by a lookup that began before the       *)
(* record was stored.                                                      *)
HitsYieldOnlyToOlder ==
  \A i \in Isbns :
    Live(i) /\ cache[i].outcome = "found" /\ cache'[i].outcome \notin {"found", "none"} =>
      \E r \in Requests : req[r].isbn = i /\ req[r].step = "miss" /\ req[r].since <= cache[i].at

(* One search at a time asks the slow catalogues. *)
OneAsksHarder == Cardinality({r \in Requests : req[r].slot}) <= 1

(* Whatever becomes of it, the next may: nobody holds the slot but a       *)
(* search in flight.                                                       *)
HarderIsGivenBack == harder => \E r \in Requests : req[r].slot
=============================================================================
