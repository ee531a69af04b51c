----------------------------- MODULE SruServer -----------------------------
(***************************************************************************)
(* The catalogue as other libraries' software searches it: a CQL query     *)
(* read token by token, weighed, compiled to a condition of SQL, and the   *)
(* answer taken page by page while the shelf changes.                      *)
(*                                                                         *)
(* A token is its kind and text, chosen when the parser first looks at it. *)
(* A text, of a term or a column, is its words.  Every refusal is one, for *)
(* which diagnostic it carries changes nothing.                            *)
(***************************************************************************)
EXTENDS Integers, Sequences, FiniteSets, SequencesExt, FiniteSetsExt

CONSTANTS
  Books,          \* ids, in the order of their titles and then themselves
  Column,         \* [columns -> [Books -> texts or Null]]
  Index,          \* [index names -> [columns, cost]]; "" is the server's choice
  Tokens,         \* tokens the parser may meet
  Words,          \* [token texts -> Seq of words]
  MaxTokens,      \* bound: tokens of a query
  MaxDepth, MaxClauses, MaxWords, Budget, MaxRecords,
  MaxMoves,       \* bound: changes of the shelf during a harvest
  None, Null, End

VARIABLES
  phase,      \* "parse", "refused", "parsed", "count", "page", "done"
  look,       \* the token peeked at, or None
  tokens,     \* tokens looked at so far
  stack,      \* an unfinished _query per open parenthesis: [left, op]
  expects,    \* what the parser is about to read
  held,       \* the clause being read: its first word and relation
  clauses,    \* clauses read
  matches,    \* Books the condition of an accepted query holds of
  public,     \* Books a public reader may see
  moves,
  request,    \* [start, max] of a page, and where the harvest began: from
  total,      \* what the page counted
  harvest,    \* records received, in order
  still       \* the shelf has not changed since the harvest began

parser == <<look, tokens, stack, expects, held, clauses>>
serving == <<request, total, harvest, still>>
shelf == <<public, moves>>
vars == <<phase, parser, matches, shelf, serving>>

Frame(left, op) == [left |-> left, op |-> op]
Nothing == [first |-> None, relation |-> None]

Init ==
  /\ phase = "parse" /\ look = None /\ tokens = <<>>
  /\ stack = <<Frame(None, None)>> /\ expects = "clause" /\ held = Nothing
  /\ clauses = 0 /\ matches = {}
  /\ public = {} /\ moves = 0
  /\ request = [from |-> 1, start |-> 1, max |-> 0] /\ total = 0 /\ harvest = <<>> /\ still = TRUE

----------------------------------------------------------------------------
(* Reading a query.                                                        *)

Booleans == {"and", "or", "not"}
RelationWords == {"any", "all", "exact"}

IsWord(t) == t # End /\ t.kind = "word"
IsTerm(t) == t # End /\ t.kind \in {"word", "quoted"}
IsBoolean(t) == IsWord(t) /\ t.text \in Booleans
IsRelation(t) == t # End /\ (t.kind = "relation" \/ (t.kind = "word" /\ t.text \in RelationWords))
Is(t, kind) == t # End /\ t.kind = kind

Refuse == phase' = "refused" /\ UNCHANGED <<parser, matches, shelf, serving>>

Step(lookTo, to, reading) ==
  /\ look' = lookTo /\ expects' = to /\ held' = reading
  /\ UNCHANGED <<phase, tokens, matches, shelf, serving>>

(* _peek *)
Look ==
  /\ phase = "parse" /\ look = None
  /\ \E t \in (IF Len(tokens) < MaxTokens THEN Tokens ELSE {}) \cup {End} :
       look' = t /\ tokens' = IF t = End THEN tokens ELSE Append(tokens, t)
  /\ UNCHANGED <<phase, stack, expects, held, clauses, matches, shelf, serving>>

Reading(what) == phase = "parse" /\ look # None /\ expects = what

Joined(frame, node) ==
  IF frame.op = None THEN node ELSE [is |-> frame.op, left |-> frame.left, right |-> node]

(* A node ends: what was read before it, its boolean and it are the left   *)
(* of what follows.                                                        *)
Attach(frames, node) ==
  Append(Front(frames), Frame(Joined(Last(frames), node), None))

(* As OpenParenthesis, however many are open. *)
OpenParenthesis_Deeper ==
  /\ Reading("clause") /\ Is(look, "open")
  /\ stack' = Append(stack, Frame(None, None)) /\ UNCHANGED clauses
  /\ Step(None, "clause", Nothing)

OpenParenthesis ==
  /\ Reading("clause") /\ Is(look, "open")
  /\ IF Len(stack) > MaxDepth THEN Refuse
     ELSE /\ stack' = Append(stack, Frame(None, None)) /\ UNCHANGED clauses
          /\ Step(None, "clause", Nothing)

NoClause ==
  /\ Reading("clause") /\ ~ Is(look, "open") /\ ~ IsTerm(look)
  /\ Refuse

FirstWord ==
  /\ Reading("clause") /\ IsTerm(look)
  /\ UNCHANGED <<stack, clauses>>
  /\ Step(None, "relation", [first |-> look, relation |-> None])

(* A clause is whole: one too many, or a term with nothing in it or too    *)
(* much, is refused.                                                       *)
Whole(name, relation, term, rest) ==
  IF clauses + 1 > MaxClauses \/ Len(Words[term]) \notin 1..MaxWords THEN Refuse
  ELSE /\ clauses' = clauses + 1
       /\ stack' = Attach(stack, [is |-> "clause", index |-> name,
                                  relation |-> relation, term |-> Words[term]])
       /\ Step(rest, "operator", Nothing)

Relation ==
  /\ Reading("relation") /\ IsRelation(look)
  /\ UNCHANGED <<stack, clauses>>
  /\ Step(None, "term", [held EXCEPT !.relation = look.text])

BareTerm ==
  /\ Reading("relation") /\ ~ IsRelation(look)
  /\ Whole("", "=", held.first.text, look)

RelatedTerm ==
  /\ Reading("term")
  /\ IF IsTerm(look) /\ IsWord(held.first)
     THEN Whole(held.first.text, held.relation, look.text, None)
     ELSE Refuse

Operator ==
  /\ Reading("operator") /\ IsBoolean(look)
  /\ stack' = Append(Front(stack), Frame(Last(stack).left, look.text))
  /\ UNCHANGED clauses
  /\ Step(None, "clause", Nothing)

CloseParenthesis ==
  /\ Reading("operator") /\ ~ IsBoolean(look) /\ Len(stack) > 1
  /\ IF Is(look, "close")
     THEN /\ stack' = Attach(Front(stack), Last(stack).left) /\ UNCHANGED clauses
          /\ Step(None, "operator", Nothing)
     ELSE Refuse

EndOfQuery ==
  /\ Reading("operator") /\ ~ IsBoolean(look) /\ Len(stack) = 1
  /\ IF look = End
     THEN phase' = "parsed" /\ UNCHANGED <<parser, matches, shelf, serving>>
     ELSE Refuse

Tree == Last(stack).left

----------------------------------------------------------------------------
(* Weighing it, and making a condition of it.                              *)

RECURSIVE Clauses(_)
Clauses(node) == IF node.is = "clause" THEN {node}
                 ELSE Clauses(node.left) \cup Clauses(node.right)

(* Words the clause compares: any and all take them one by one. *)
Compared(c) == IF c.relation \in {"any", "all"} THEN {<<w>> : w \in ToSet(c.term)}
               ELSE {c.term}

Charge(c) ==
  (IF c.relation \in {"any", "all"} THEN Len(c.term) ELSE 1)
    * Cardinality(Index[c.index].columns) * Index[c.index].cost

RECURSIVE Spent(_)
Spent(node) == IF node.is = "clause" THEN Charge(node)
               ELSE Spent(node.left) + Spent(node.right)

Affordable(node) == Spent(node) <= Budget

Known(node) == \A c \in Clauses(node) : c.index \in DOMAIN Index

(* SQL's logic: TRUE, FALSE and Null. *)
Not3(p) == IF p = Null THEN Null ELSE IF p = "T" THEN "F" ELSE "T"
And3(p, q) == IF "F" \in {p, q} THEN "F" ELSE IF Null \in {p, q} THEN Null ELSE "T"
Or3(p, q) == Not3(And3(Not3(p), Not3(q)))
Truth(p) == IF p THEN "T" ELSE "F"

Within(word, text) ==
  \E i \in 1 .. Len(text) - Len(word) + 1 : SubSeq(text, i, i + Len(word) - 1) = word

Like(text, word) == IF text = Null THEN Null ELSE Truth(Within(word, text))

(* _matches: a column that is empty does not match, and is not unknown. *)
Matched(text, word) == And3(Truth(text # Null), Like(text, word))

Any3(ps) == IF "T" \in ps THEN "T" ELSE IF Null \in ps THEN Null ELSE "F"
All3(ps) == Not3(Any3({Not3(p) : p \in ps}))

FieldHolds(c, word, b) ==
  Any3({Matched(Column[col][b], word) : col \in Index[c.index].columns})

ClauseHolds(c, b) ==
  LET each == {FieldHolds(c, word, b) : word \in Compared(c)} IN
  IF c.relation = "all" THEN All3(each) ELSE Any3(each)

RECURSIVE Condition(_, _)
Condition(node, b) ==
  IF node.is = "clause" THEN ClauseHolds(node, b)
  ELSE LET p == Condition(node.left, b)
           q == Condition(node.right, b) IN
       CASE node.is = "and" -> And3(p, q)
         [] node.is = "or"  -> Or3(p, q)
         [] node.is = "not" -> And3(p, Not3(q))

Matching(node) == {b \in Books : Condition(node, b) = "T"}

(* An accepted query is kept as what it finds, with the first page asked,  *)
(* of whatever shelf there is.                                             *)
Compile ==
  /\ phase = "parsed"
  /\ IF Known(Tree) /\ Affordable(Tree)
     THEN /\ phase' = "count" /\ matches' = Matching(Tree)
          /\ look' = None /\ tokens' = <<>> /\ stack' = <<Frame(None, None)>>
          /\ expects' = "clause" /\ held' = Nothing /\ clauses' = 0
          /\ \E max \in 0 .. MaxRecords + 1, start \in {1, 2} :
               request' = [from |-> start, start |-> start, max |-> Min({max, MaxRecords})]
          /\ public' \in SUBSET Books
          /\ UNCHANGED <<moves, total, harvest, still>>
     ELSE Refuse

----------------------------------------------------------------------------
(* Serving it.                                                             *)

Served == matches \cap public

InOrder(books) == SetToSortSeq(books, <)

(* Shelf.page: the count is one statement and the rows another. *)
Count ==
  /\ phase = "count" /\ phase' = "page"
  /\ total' = Cardinality(Served)
  /\ UNCHANGED <<parser, matches, shelf, request, harvest, still>>

Window == LET rows == InOrder(Served) IN
          SubSeq(rows, request.start, Min({Len(rows), request.start + request.max - 1}))

(* A page that holds a record and is not the last names the next. *)
Going(following) == Window # <<>> /\ following <= total

(* The rows, and the position a harvester goes on from. *)
Page ==
  /\ phase = "page"
  /\ LET following == request.start + Len(Window) IN
     IF ~ (total > 0 /\ request.start > total) /\ Going(following)
     THEN phase' = "count" /\ request' = [request EXCEPT !.start = following]
     ELSE phase' = "done" /\ UNCHANGED request
  /\ harvest' = IF total > 0 /\ request.start > total THEN harvest ELSE harvest \o Window
  /\ UNCHANGED <<parser, matches, shelf, total, still>>

(* Meanwhile a Book is published, hidden or trashed. *)
Move(b) ==
  /\ phase \in {"count", "page"} /\ moves < MaxMoves
  /\ public' = IF b \in public THEN public \ {b} ELSE public \cup {b}
  /\ moves' = moves + 1 /\ still' = FALSE
  /\ UNCHANGED <<phase, parser, matches, request, total, harvest>>

Serve == Count \/ Page

Next ==
  \/ Look \/ OpenParenthesis \/ NoClause \/ FirstWord \/ Relation \/ BareTerm
  \/ RelatedTerm \/ Operator \/ CloseParenthesis \/ EndOfQuery \/ Compile
  \/ Serve \/ \E b \in Books : Move(b)

(* A harvester asks for the page it was told of. *)
Spec == Init /\ [][Next]_vars /\ WF_vars(Serve)

----------------------------------------------------------------------------
(* What CQL says a query is, token by token: a clause, or a query, a       *)
(* boolean and a clause, so booleans bind from the left and none before    *)
(* another.                                                                *)

Leaf(name, relation, term) ==
  [is |-> "clause", index |-> name, relation |-> relation, term |-> Words[term]]

RECURSIVE Query(_, _, _)
Clause(i, j, depth) ==
  CASE i = j /\ IsTerm(tokens[i]) -> {Leaf("", "=", tokens[i].text)}
    [] j = i + 2 /\ IsWord(tokens[i]) /\ IsRelation(tokens[i + 1]) /\ IsTerm(tokens[j]) ->
         {Leaf(tokens[i].text, tokens[i + 1].text, tokens[j].text)}
    [] j > i /\ Is(tokens[i], "open") /\ Is(tokens[j], "close") /\ depth < MaxDepth ->
         Query(i + 1, j - 1, depth + 1)
    [] OTHER -> {}

Query(i, j, depth) ==
  Clause(i, j, depth) \cup
  UNION {{[is |-> tokens[k].text, left |-> l, right |-> r] :
            l \in Query(i, k - 1, depth), r \in Clause(k + 1, j, depth)} :
         k \in {n \in i + 1 .. j - 1 : IsBoolean(tokens[n])}}

RECURSIVE Length(_)
Length(node) == IF node.is = "clause" THEN 1 ELSE Length(node.left) + Length(node.right)

Short(node) ==
  Length(node) <= MaxClauses /\ \A c \in Clauses(node) : Len(c.term) \in 1..MaxWords

----------------------------------------------------------------------------
(* The types, and that a parser holds a frame per parenthesis it is in. *)
TypeOK ==
  /\ phase \in {"parse", "refused", "parsed", "count", "page", "done"}
  /\ Len(stack) \in 1 .. MaxDepth + 1 /\ clauses \in 0..MaxClauses
  /\ matches \subseteq Books /\ public \subseteq Books /\ total \in 0..Cardinality(Books)
  /\ request.max <= MaxRecords /\ expects \in {"clause", "relation", "term", "operator"}

(* What is accepted is what the grammar derives, read from the left, and   *)
(* a whole query the grammar derives is accepted (sru._Parser).            *)
ReadsAsWritten ==
  LET derived == Query(1, Len(tokens), 0) IN
  /\ phase = "parsed" => derived = {Tree}
  /\ phase = "refused" /\ look = End =>
       \A node \in derived : ~ Short(node) \/ ~ Known(node) \/ Spent(node) > Budget

RECURSIVE Found(_)
Found(node) ==
  IF node.is = "clause"
  THEN {b \in Books :
          LET Has(word) == \E col \in Index[node.index].columns :
                             Column[col][b] # Null /\ Within(word, Column[col][b]) IN
          CASE node.relation = "any" -> \E w \in ToSet(node.term) : Has(<<w>>)
            [] node.relation = "all" -> \A w \in ToSet(node.term) : Has(<<w>>)
            [] OTHER -> Has(node.term)}
  ELSE CASE node.is = "and" -> Found(node.left) \cap Found(node.right)
         [] node.is = "or"  -> Found(node.left) \cup Found(node.right)
         [] node.is = "not" -> Found(node.left) \ Found(node.right)

(* A condition finds what its words say, a Book with an empty column       *)
(* included: to leave out a publisher is not to leave out every Book that  *)
(* names none (sru._matches).                                              *)
EmptyIsNotUnknown ==
  phase = "parsed" /\ Known(Tree) => Matching(Tree) = Found(Tree)

(* No query that is run compares more than the budget buys (sru._Budget).  *)
WithinBudget ==
  phase = "parsed" /\ phase' = "count" => Spent(Tree) <= Budget

(* Whoever follows the positions to the end of a shelf that does not       *)
(* change has every published Book that matches, from where it began, once *)
(* and in order, and nothing else (sru._search_response).                  *)
HarvestIsWhole ==
  phase = "done" /\ still /\ request.max > 0 =>
    harvest = SubSeq(InOrder(matches \cap public), request.from,
                     Cardinality(matches \cap public))

(* A harvest ends, however the shelf changes below it. *)
HarvestEnds == phase = "count" ~> phase = "done"
=============================================================================
