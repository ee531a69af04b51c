--------------------------- MODULE WikipediaLinks ---------------------------
(***************************************************************************)
(* Where a reader is sent for an author: the Wikipedia article in the      *)
(* first language the library prefers, or in any, or the Wikidata item     *)
(* itself.  Wikidata is asked in chunks, first for the preferred languages *)
(* only, then, for the items it had none of, a bounded number of times     *)
(* without that filter; any question may go unanswered.                    *)
(***************************************************************************)
EXTENDS Naturals, Sequences, FiniteSets

CONSTANTS
  Items,                       \* the items, in the order they are asked for
  Prefer,                      \* the languages preferred, the first foremost
  OtherLanguages,              \* the rest, the least of them first
  MaxItems,                    \* MAX_WIKIPEDIA_ITEMS
  PerRequest,                  \* _ITEMS_PER_REQUEST
  MaxUnfiltered,               \* MAX_UNFILTERED_ITEMS
  PerUnfilteredRequest         \* _UNFILTERED_ITEMS_PER_REQUEST

VARIABLES
  articles,   \* the languages Wikipedia has each item in
  pass,       \* "filtered", "unfiltered", or "end"
  toAsk,      \* the items of this pass that are still to be asked for
  answered,   \* the items a filtered request answered about
  found,      \* [the items heard about -> the languages heard]
  resolved    \* [Items -> the language it is linked in, or "item"]

vars == <<articles, pass, toAsk, answered, found, resolved>>

ListsAreBounded ==
  /\ PerRequest \in Nat \ {0} /\ PerUnfilteredRequest \in Nat \ {0}
  /\ MaxItems \in Nat /\ MaxUnfiltered \in Nat

ToSetOf(s) == {s[i] : i \in DOMAIN s}
Languages == ToSetOf(Prefer) \cup ToSetOf(OtherLanguages)
Wanted == ToSetOf(Items)

UpTo(s, n) == SubSeq(s, 1, IF Len(s) < n THEN Len(s) ELSE n)
After(s, n) == SubSeq(s, n + 1, Len(s))

(* The items a request answered about and had no article of: an item whose *)
(* request failed is not one without an article.                           *)
Leftover(heard, about) ==
  UpTo(SelectSeq(about, LAMBDA i : heard[i] = {}), MaxUnfiltered)

(* _preferred, of some languages *)
First(langs) ==
  LET order == Prefer \o OtherLanguages
  IN  order[CHOOSE k \in DOMAIN order :
              order[k] \in langs /\ \A j \in 1 .. k - 1 : order[j] \notin langs]

Heard(chunk, filter) ==
  [i \in ToSetOf(chunk) \cup DOMAIN found |->
     IF i \in ToSetOf(chunk) THEN articles[i] \cap filter ELSE found[i]]

----------------------------------------------------------------------------
(* _sitelinks, for the languages preferred *)
AskFiltered(answers) ==
  LET chunk == UpTo(toAsk, PerRequest) IN
  /\ pass = "filtered" /\ toAsk # <<>>
  /\ toAsk' = After(toAsk, PerRequest)
  /\ answered' = IF answers THEN answered \o chunk ELSE answered
  /\ found' = IF answers THEN Heard(chunk, ToSetOf(Prefer)) ELSE found
  /\ UNCHANGED <<articles, pass, resolved>>

TurnOver ==
  /\ pass = "filtered" /\ toAsk = <<>>
  /\ pass' = "unfiltered" /\ toAsk' = Leftover(found, answered)
  /\ UNCHANGED <<articles, answered, found, resolved>>

(* _sitelinks, in any language *)
AskUnfiltered(answers) ==
  LET chunk == UpTo(toAsk, PerUnfilteredRequest) IN
  /\ pass = "unfiltered" /\ toAsk # <<>>
  /\ toAsk' = After(toAsk, PerUnfilteredRequest)
  /\ found' = IF answers THEN Heard(chunk, Languages) ELSE found
  /\ UNCHANGED <<articles, pass, answered, resolved>>

(* Every item that was asked for has an address, heard of or not. *)
Resolve ==
  /\ pass = "unfiltered" /\ toAsk = <<>> /\ pass' = "end"
  /\ resolved' = [i \in Wanted |->
       IF i \in DOMAIN found /\ found[i] # {} THEN First(found[i]) ELSE "item"]
  /\ UNCHANGED <<articles, toAsk, answered, found>>

Init ==
  /\ articles \in [Wanted -> SUBSET Languages]
  /\ pass = "filtered" /\ toAsk = UpTo(Items, MaxItems) /\ answered = <<>>
  /\ found = <<>> /\ resolved = <<>>

Next ==
  \/ \E answers \in BOOLEAN : AskFiltered(answers) \/ AskUnfiltered(answers)
  \/ TurnOver \/ Resolve

Spec == Init /\ [][Next]_vars

----------------------------------------------------------------------------
(* Properties *)

(* What is heard of an item is an article it has; no pass asks past its    *)
(* bound.                                                                  *)
TypeOK ==
  /\ DOMAIN found \subseteq Wanted /\ \A i \in DOMAIN found : found[i] \subseteq articles[i]
  /\ pass = "unfiltered" => Len(toAsk) <= MaxUnfiltered

(* An outage is not bought the dear way: without a filter Wikidata is      *)
(* asked only of items it answered about and had nothing preferred of.     *)
OutageIsNotAbsence ==
  pass = "unfiltered" =>
    \A i \in ToSetOf(toAsk) : i \in ToSetOf(answered) /\ articles[i] \cap ToSetOf(Prefer) = {}

(* No reader is sent past an article in a language that comes before: the  *)
(* link of an item that was answered about is the first it has, unless it  *)
(* has none that is preferred; and every item has a link.                  *)
PreferredIsLinked ==
  pass = "end" =>
    /\ DOMAIN resolved = Wanted
    /\ \A i \in Wanted : resolved[i] # "item" => resolved[i] \in articles[i]
    /\ \A i \in ToSetOf(answered) : \A k \in DOMAIN Prefer :
         Prefer[k] \in articles[i] => \E j \in 1 .. k : resolved[i] = Prefer[j]
=============================================================================
