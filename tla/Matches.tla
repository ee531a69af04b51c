------------------------------ MODULE Matches ------------------------------
(***************************************************************************)
(* The rows a member picks a book from: the answers of the catalogues      *)
(* folded into one row per book, one answer after the other in the order   *)
(* of the roster, ranked against the query, and set under the printings    *)
(* of one work that Open Library knows.                                    *)
(*                                                                         *)
(* A record is its source and the five fields two records meet or differ   *)
(* by; the other fields are filled as these are.  Titles, authors and      *)
(* query terms are as identity folds them, and a term hits a word it is:   *)
(* near misses, subtitles and series are left out.                         *)
(***************************************************************************)
EXTENDS Integers, Sequences, FiniteSets, SequencesExt

CONSTANTS
  Pool,           \* the records the catalogues may answer with
  MaxMatches,     \* bound: answers to a query
  Trust,          \* [sources -> place in _MATCH_PRECEDENCE, 0 the first]
  Secondary,      \* _SECONDARY_SOURCES
  Words,          \* [titles and authors -> their words]
  Wanted,         \* the terms of the query
  Limit,          \* rows a page shows
  None

VARIABLES
  queue,      \* the answers still to be folded in
  rows,       \* the rows so far
  byIsbn,     \* [isbn -> the slot of its row]
  byWork,     \* [work -> the slot of its row]
  ranked,     \* the slots in the order shown, or None
  shown       \* the candidates: the cluster and what the search adds

vars == <<queue, rows, byIsbn, byWork, ranked, shown>>

Fields == {"isbn", "title", "author", "year", "language"}

(* identity.printing_key *)
WorkOf(row) == <<row.title, row.author, row.year>>

Init ==
  /\ queue \in UNION {[1 .. n -> Pool] : n \in 0 .. MaxMatches}
  /\ rows = <<>> /\ byIsbn = <<>> /\ byWork = <<>>
  /\ ranked = None /\ shown = None

----------------------------------------------------------------------------
(* Folding *)

(* Record.filled_from: nothing is overwritten. *)
FilledFrom(row, other) == [f \in Fields |-> IF row[f] = None THEN other[f] ELSE row[f]]

Rank(row) == CHOOSE t \in {Trust[s] : s \in row.sources} : \A s \in row.sources : t <= Trust[s]

(* The more trusted of the two leads, and the row remembers both. *)
Fold(existing, match) ==
  LET lead == IF Rank(match) < Rank(existing) THEN match ELSE existing
      rest == IF lead = match THEN existing ELSE match
  IN [f \in Fields |-> FilledFrom(lead, rest)[f]] @@
     [sources |-> existing.sources \cup match.sources, from |-> existing.from \cup match.from]

(* The row a match is, or 0: by ISBN, else by work, unless both name a     *)
(* language and not the same one.                                          *)
SlotOf(match) ==
  LET slot == IF match.isbn \in DOMAIN byIsbn THEN byIsbn[match.isbn]
              ELSE IF WorkOf(match) \in DOMAIN byWork THEN byWork[WorkOf(match)] ELSE 0
  IN IF slot = 0 THEN 0
     ELSE IF None \notin {rows[slot].language, match.language}
               /\ rows[slot].language # match.language THEN 0
     ELSE slot

Registered(slot, row) ==
  /\ byIsbn' = IF row.isbn = None THEN byIsbn ELSE (row.isbn :> slot) @@ byIsbn
  /\ byWork' = (WorkOf(row) :> slot) @@ byWork

(* One turn of _merge_matches. *)
Take ==
  /\ queue # <<>>
  /\ LET answer == Head(queue)
         match == answer @@ [sources |-> {answer.source}, from |-> {answer}]
         slot == SlotOf(match)
     IN IF answer.title = None THEN UNCHANGED <<rows, byIsbn, byWork>>
        ELSE IF slot = 0
        THEN rows' = Append(rows, match) /\ Registered(Len(rows) + 1, match)
        ELSE rows' = [rows EXCEPT ![slot] = Fold(@, match)] /\ Registered(slot, rows'[slot])
  /\ queue' = Tail(queue)
  /\ UNCHANGED <<ranked, shown>>

----------------------------------------------------------------------------
(* Ranking *)

TermWeight == 3
PrecisionWeight == 4
BothHalvesBonus == 4
LanguageWeight == 3
SecondaryPenalty == 1

(* Python's round: a half goes to the even side. *)
Rounded(n, d) ==
  LET q == n \div d  r == 2 * (n % d) IN
  IF r > d \/ (r = d /\ q % 2 = 1) THEN q + 1 ELSE q

TitleWords(row) == Words[row.title]
AuthorWords(row) == IF row.author = None THEN {} ELSE Words[row.author]

(* The first part of _relevance: how much of the query a row accounts for. *)
Score(row, language) ==
  LET inTitle == Wanted \cap TitleWords(row)
      inAuthor == Wanted \cap AuthorWords(row)
  IN TermWeight * Cardinality(inTitle \cup inAuthor)
     + (IF inTitle # {} /\ inAuthor # {} THEN BothHalvesBonus ELSE 0)
     + Rounded(PrecisionWeight * Cardinality(inTitle), Cardinality(TitleWords(row)))
     + (IF language # None /\ row.language = language THEN LanguageWeight ELSE 0)
     - (IF row.sources \subseteq Secondary THEN SecondaryPenalty ELSE 0)

(* The other two: how pickable it is, and its year. *)
Pickable(row) == Cardinality({f \in {"author", "year", "isbn"} : row[f] # None})
Year(row) == IF row.year = None THEN 0 ELSE row.year

(* _ranked is a stable sort. *)
Above(i, j, language) ==
  LET si == Score(rows[i], language)  sj == Score(rows[j], language)
      pi == Pickable(rows[i])  pj == Pickable(rows[j])
      yi == Year(rows[i])  yj == Year(rows[j])
  IN \/ si > sj
     \/ si = sj /\ pi > pj
     \/ si = sj /\ pi = pj /\ (yi > yj \/ (yi = yj /\ i < j))

(* title_search, once every catalogue has answered or is late. *)
RankAll ==
  /\ queue = <<>> /\ ranked = None /\ rows # <<>>
  /\ \E language \in {None, "de"} :
       ranked' = SetToSortSeq(1 .. Len(rows), LAMBDA i, j : Above(i, j, language))
  /\ UNCHANGED <<queue, rows, byIsbn, byWork, shown>>

Page(list, n) == SubSeq(list, 1, IF Len(list) < n THEN Len(list) ELSE n)

ClusterRoom == Limit - 1

SearchRoom(cluster) == Limit - Len(cluster)

(* candidates: the cluster, one short of the page, and the rows of the     *)
(* search whose ISBN is not there yet.                                     *)
Candidates ==
  /\ ranked # None /\ shown = None
  /\ \E cluster \in SeqOf({r \in Pool : r.source = "open_library"}, ClusterRoom) :
       LET found == Page([k \in 1 .. Len(ranked) |-> rows[ranked[k]]], Limit)
           taken == {cluster[k].isbn : k \in 1 .. Len(cluster)}
           Repeats(k) == found[k].isbn # None /\
             found[k].isbn \in taken \cup {found[i].isbn : i \in 1 .. k - 1}
           fresh == SelectSeq([k \in 1 .. Len(found) |-> <<k, found[k]>>], LAMBDA p : ~ Repeats(p[1]))
       IN shown' = [cluster |-> cluster,
                    added |-> Page([k \in 1 .. Len(fresh) |-> fresh[k][2]], SearchRoom(cluster))]
  /\ UNCHANGED <<queue, rows, byIsbn, byWork, ranked>>

Next == Take \/ RankAll \/ Candidates

Spec == Init /\ [][Next]_vars

----------------------------------------------------------------------------
Slots == 1 .. Len(rows)

TypeOK ==
  /\ \A i \in DOMAIN byIsbn : byIsbn[i] \in Slots
  /\ \A w \in DOMAIN byWork : byWork[w] \in Slots
  /\ \A i \in Slots : rows[i].title # None /\ rows[i].sources \subseteq DOMAIN Trust
  /\ shown # None => Len(shown.cluster) + Len(shown.added) <= Limit

(* A German printing and an English one are never one row, through however *)
(* many records of no language they might have met.                        *)
TranslationsApart ==
  \A i \in Slots : Cardinality({m.language : m \in rows[i].from} \ {None}) <= 1

(* A row holds what its records hold and nothing else: no gap any of them  *)
(* could fill is left, the order they came in notwithstanding.             *)
GapsAreFilled ==
  \A i \in Slots, f \in Fields :
    /\ rows[i][f] # None => \E m \in rows[i].from : m[f] = rows[i][f]
    /\ rows[i][f] = None => \A m \in rows[i].from : m[f] = None

(* Two records that give one field differently, and no third: the row has  *)
(* the one of the catalogue believed before the other.                     *)
TrustedOfTwoIsBelieved ==
  \A i \in Slots, f \in Fields : \A m, n \in rows[i].from :
    rows[i].from = {m, n} /\ m[f] # None /\ Trust[m.source] < Trust[n.source] => rows[i][f] = m[f]

(* The novel is not below the book about it: a row all of whose title is   *)
(* asked for, and its author too, stands above one that has every term in  *)
(* a longer title and none in its author, in whatever language either is   *)
(* and whoever alone holds it.                                             *)
NovelLeads ==
  ranked # None =>
    \A a, b \in 1 .. Len(ranked) :
      LET novel == rows[ranked[a]]  guide == rows[ranked[b]] IN
      /\ TitleWords(novel) \subseteq Wanted /\ Wanted \cap AuthorWords(novel) # {}
      /\ Wanted \subseteq TitleWords(novel) \cup AuthorWords(novel)
      /\ Wanted \subseteq TitleWords(guide) /\ TitleWords(guide) # Wanted
      /\ Wanted \cap AuthorWords(guide) = {}
      => a < b

(* A work merged wrongly is never the whole answer: what the search found  *)
(* beside the cluster, it shows at least one row of.                       *)
WayOut ==
  shown # None =>
    LET taken == {shown.cluster[k].isbn : k \in 1 .. Len(shown.cluster)} IN
    (\E k \in 1 .. Len(Page(ranked, Limit)) :
       rows[ranked[k]].isbn = None \/ rows[ranked[k]].isbn \notin taken) => shown.added # <<>>
=============================================================================
