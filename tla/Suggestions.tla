---------------------------- MODULE Suggestions ----------------------------
(***************************************************************************)
(* Which names of the author index are offered as one person: four rules   *)
(* that pair names, two of them bucket by bucket out of a shared budget;   *)
(* a union of what they paired; and the groups, cut to what a page holds.  *)
(*                                                                         *)
(* An author is its place in the index, in the order of its key and name.  *)
(* A name is its words, a word its letters.                                *)
(***************************************************************************)
EXTENDS Naturals, Sequences, FiniteSets, SequencesExt, FiniteSetsExt

CONSTANTS
  Names,          \* [places -> names], all different
  Isnis,          \* values a name's spellings may carry
  Confirmed,      \* bound: the places that may carry one
  Budgets,        \* MAX_COMPARISONS, as the run chooses it
  MaxBucket, MaxSuggestions

VARIABLES
  index,          \* the authors on the shelf: places
  spines,         \* [places -> sets of values]
  matcher,        \* the rules that run
  rule,           \* the rule running, a member of Rules, or a later phase
  buckets,        \* the buckets it has still to go through
  left,           \* comparisons left
  edges,          \* pairs found, in order: [a, b, reason]
  united,         \* edges gone through
  parent,         \* the forest of the union
  offered         \* the groups answered: [keys, reasons]

vars == <<index, spines, matcher, rule, buckets, left, edges, united, parent, offered>>
given == <<index, spines, matcher>>

Places == DOMAIN Names
Rules == <<"identity", "spelling", "initials", "fragment">>
Exact == {"identity", "spelling"}

(* The rule after this one, and what follows the last. *)
After(r) ==
  CASE r = "identity" -> "spelling" [] r = "spelling" -> "initials"
    [] r = "initials" -> "fragment" [] r = "fragment" -> "unite"

Squashed(a) == FlattenSeq(Names[a])
Surname(a) == Last(Names[a])
Initial(a) == Names[a][1][1]
WordsOf(a) == ToSet(Names[a])
Abbreviated(a) == \E i \in 1 .. Len(Names[a]) - 1 : Len(Names[a][i]) = 1

Edge(a, b, reason) == [a |-> a, b |-> b, reason |-> reason]
Grouped(keys) == {{a \in index : keys[a] = k} : k \in {keys[a] : a \in index}}

(* What a rule goes through, as sets of places.                            *)

(* An author with two values is a disagreement and belongs nowhere. *)
IdentityBuckets ==
  {{a \in index : spines[a] = {v}} : v \in Isnis} \ {{}}

FragmentBuckets == {{a \in index : w \in WordsOf(a)} : w \in UNION {WordsOf(a) : a \in index}}

Runs(r) == r \in matcher

BucketsOf(r) ==
  IF r \notin ToSet(Rules) \/ ~ Runs(r) THEN {}
  ELSE CASE r = "identity" -> IdentityBuckets
         [] r = "spelling" -> Grouped([a \in index |-> Squashed(a)])
         [] r = "initials" ->
              {{a \in b : Len(Names[a]) > 1} : b \in Grouped([a \in index |-> Surname(a)])} \ {{}}
         [] r = "fragment" -> FragmentBuckets

Init ==
  /\ index \in SUBSET Places
  /\ \E carried \in [index \cap Confirmed -> SUBSET Isnis] :
       spines = [a \in Places |-> IF a \in index \cap Confirmed THEN carried[a] ELSE {}]
  /\ matcher \in {ToSet(Rules), Exact}
  /\ rule = "identity" /\ buckets = BucketsOf("identity")
  /\ left \in Budgets /\ edges = <<>> /\ united = 0
  /\ parent = [a \in index |-> a] /\ offered = {}

----------------------------------------------------------------------------
(* A bucket is gone through when no other begins earlier; of those that    *)
(* begin alike, whichever the set of a name's words gives first.           *)
Turn(b) == b \in buckets /\ \A c \in buckets : Min(b) <= Min(c)

NextRule ==
  /\ rule \in ToSet(Rules) /\ buckets = {}
  /\ rule' = After(rule)
  /\ buckets' = BucketsOf(After(rule))
  /\ UNCHANGED <<given, left, edges, united, parent, offered>>

(* One value, one person: the first of a bucket with each of the others. *)
GroupAlike(b) ==
  /\ rule \in Exact /\ Turn(b)
  /\ edges' = edges \o [i \in 1 .. Cardinality(b) - 1 |->
                          Edge(Min(b), SetToSortSeq(b \ {Min(b)}, <)[i], rule)]
  /\ buckets' = buckets \ {b}
  /\ UNCHANGED <<given, rule, left, united, parent, offered>>

SameInitials(a, b) ==
  Surname(a) = Surname(b) /\ Initial(a) = Initial(b) /\ (Abbreviated(a) \/ Abbreviated(b))

Inside(a, b) == Cardinality(WordsOf(a)) >= 2 /\ WordsOf(a) \subseteq WordsOf(b) /\ WordsOf(a) # WordsOf(b)

Alike(r, a, b) == IF r = "initials" THEN SameInitials(a, b) ELSE Inside(a, b) \/ Inside(b, a)

Ahead(p, q) == p[1] < q[1] \/ (p[1] = q[1] /\ p[2] < q[2])
Pairs(b) ==
  LET all == {p \in b \X b : p[1] < p[2]} IN
  [i \in 1 .. Cardinality(all) |->
     CHOOSE p \in all : Cardinality({q \in all : Ahead(q, p)}) = i - 1]

Skipped(b) == Cardinality(b) > MaxBucket

(* Each pair of a bucket costs a comparison; with none left the rule ends. *)
ComparePairs(b) ==
  /\ rule \in {"initials", "fragment"} /\ Turn(b)
  /\ LET all == IF Skipped(b) THEN <<>> ELSE Pairs(b)
         compared == SubSeq(all, 1, Min({left, Len(all)}))
         like == SelectSeq(compared, LAMBDA p : Alike(rule, p[1], p[2])) IN
     /\ edges' = edges \o [i \in DOMAIN like |-> Edge(like[i][1], like[i][2], rule)]
     /\ left' = left - Len(compared)
     /\ buckets' = IF Len(compared) < Len(all) THEN {} ELSE buckets \ {b}
  /\ UNCHANGED <<given, rule, united, parent, offered>>

(* find: the root, and the forest with every other link of the way halved. *)
RECURSIVE Find(_, _)
Find(forest, a) ==
  IF forest[a] = a THEN [root |-> a, forest |-> forest]
  ELSE LET halved == [forest EXCEPT ![a] = forest[forest[a]]] IN Find(halved, halved[a])

Joined(e) ==
  LET one == Find(parent, e.a)
      two == Find(one.forest, e.b) IN
  IF one.root = two.root THEN two.forest ELSE [two.forest EXCEPT ![two.root] = one.root]

Unite ==
  /\ rule = "unite" /\ united < Len(edges)
  /\ parent' = Joined(edges[united + 1])
  /\ united' = united + 1
  /\ UNCHANGED <<given, rule, buckets, left, edges, offered>>

(* Every rule that paired two of a group, asked when the group is whole. *)
Reasons(keys, root) ==
  {edges[i].reason : i \in {j \in DOMAIN edges : Find(parent, edges[j].a).root = root}}

Groups ==
  LET roots == [a \in index |-> Find(parent, a).root] IN
  {[keys |-> g, reasons |-> Reasons(g, roots[Min(g)])] :
     g \in {h \in Grouped(roots) : Cardinality(h) > 1}}

(* Biggest first, then by name. *)
Leads(g, h) ==
  \/ Cardinality(g.keys) > Cardinality(h.keys)
  \/ Cardinality(g.keys) = Cardinality(h.keys) /\ Min(g.keys) < Min(h.keys)

FirstOf(groups) ==
  {g \in groups : Cardinality({h \in groups : Leads(h, g)}) < MaxSuggestions}

Offered == [keys : SUBSET index, reasons : SUBSET matcher]

Offer ==
  /\ rule = "unite" /\ united = Len(edges)
  /\ rule' = "done" /\ offered' = FirstOf(Groups)
  /\ UNCHANGED <<given, buckets, left, edges, united, parent>>

Next ==
  \/ NextRule \/ (\E b \in SUBSET index : GroupAlike(b) \/ ComparePairs(b))
  \/ Unite \/ Offer

Spec == Init /\ [][Next]_vars

----------------------------------------------------------------------------
(* What the rules say of two names, without buckets, budget or union.      *)

Ruled(r, a, b) ==
  CASE r = "identity" -> spines[a] = spines[b] /\ Cardinality(spines[a]) = 1
    [] r = "spelling" -> Squashed(a) = Squashed(b)
    [] r = "initials" -> Len(Names[a]) > 1 /\ Len(Names[b]) > 1 /\ SameInitials(a, b)
    [] r = "fragment" -> Inside(a, b) \/ Inside(b, a)

Bound(a, b, rules) == \E r \in rules : Ruled(r, a, b)

(* One person by a chain of such pairs, and no more: the finest partition. *)
Apart(split, rules) ==
  \A a \in split, b \in index \ split : ~ Bound(a, b, rules)

Together(a, b, rules) == \A split \in SUBSET index : a \in split /\ Apart(split, rules) => b \in split

InOne(a, b) == \E g \in offered : {a, b} \subseteq g.keys
Uncut == Cardinality(Groups) <= MaxSuggestions
NoneTooLarge ==
  \A b \in FragmentBuckets \cup Grouped([a \in index |-> Surname(a)]) : ~ Skipped(b)

(* The types: the forest has no circle, and the budget is never overdrawn. *)
TypeOK ==
  /\ index \subseteq Places /\ left \in Nat
  /\ \A i \in DOMAIN edges : edges[i].a < edges[i].b /\ edges[i].reason \in matcher
  /\ \A a \in index : Find(parent, a).root \in index
  /\ offered \subseteq Offered /\ Cardinality(offered) <= MaxSuggestions

(* With comparisons to spare two names are offered as one person exactly   *)
(* when a chain of pairs, each alike by some rule, joins them: the buckets *)
(* lose no pair and the union neither splits nor joins too much            *)
(* (authors.suggest_merges).                                               *)
OfferedIsAlike ==
  rule = "done" /\ left > 0 /\ NoneTooLarge /\ Uncut =>
    \A a, b \in index : a # b => (InOne(a, b) <=> Together(a, b, matcher))

(* Whatever is planted on the shelf, names that carry one value, or are    *)
(* one spelling, are offered: neither rule can be starved                  *)
(* (authors._RuleSpec).                                                    *)
ExactIsNeverStarved ==
  rule = "done" /\ Uncut =>
    \A a, b \in index : a # b /\ Bound(a, b, Exact) => InOne(a, b)

(* A group gives every reason it has, whatever root it was once under      *)
(* (authors.suggest_merges).                                               *)
EveryReasonIsGiven ==
  rule = "done" =>
    \A g \in offered :
      g.reasons = {edges[i].reason : i \in {j \in DOMAIN edges : edges[j].a \in g.keys}}

(* An author whose spellings carry two values is offered with nobody on    *)
(* account of them (authors._edges_on_identity).                           *)
DisagreementJoinsNobody ==
  \A i \in DOMAIN edges :
    edges[i].reason = "identity" => Cardinality(spines[edges[i].a] \cup spines[edges[i].b]) = 1
=============================================================================
