----------------------------- MODULE Authority -----------------------------
(***************************************************************************)
(* What a confirmed GND record is filed with.  lobid answers the record    *)
(* and the numbers it says other files give the same person; Wikidata says *)
(* which item carries the GND number, and what that item claims; VIAF says *)
(* what a cluster names, and is replaced by Wikidata only where it did not *)
(* answer.  Every question may go unanswered.  A number is written down    *)
(* only if nobody it was asked of contests it.                             *)
(*                                                                         *)
(* Numbers in the other files are 1 and 2, one of them another person's;   *)
(* a file with more than one number for a person is a set.  One national   *)
(* library stands for the six, which are read alike.  Left out: names,     *)
(* dates and descriptions, numbers no pattern takes, and the filing (in    *)
(* module Authorship).                                                     *)
(***************************************************************************)
EXTENDS Naturals, FiniteSets, TLC

CONSTANTS
  Numbers   \* the numbers the other files may give

VARIABLES
  step,       \* what is asked next
  certain,    \* a record resolved by its number, not found by its name
  sameAs,     \* what lobid says the other files call the person
  item,       \* the item Wikidata gives the GND number, or None
  claims,     \* what that item claims of VIAF and ISNI
  suggested,  \* the clusters VIAF suggests for the GND number, or Silence
  cluster,    \* the cluster asked for, or None
  named,      \* what the cluster names: its GND numbers and national ones
  national,   \* what the item claims of the national library, or Silence
  refs,       \* cross references to be filed
  numbers     \* national numbers to be filed

vars == <<step, certain, sameAs, item, claims, suggested, cluster, named, national,
          refs, numbers>>

None == "none"
Silence == {"silence"}
Unread == [gnd |-> Silence, national |-> Silence]
Files == {"viaf", "isni", "wikidata"}

(* The GND number that was confirmed, and another's. *)
GND == {"own", "other"}

----------------------------------------------------------------------------
(* _disagreements: the files lobid and Wikidata, both having spoken, give  *)
(* different numbers of.                                                   *)
Disagreements(said, i, c) ==
  {f \in Files :
     LET w == IF f = "wikidata" THEN i ELSE c[f] IN said[f] # None /\ w # None /\ said[f] # w}

Contested == Disagreements(sameAs, item, claims)

(* cross_references *)
CrossReferences ==
  [f \in {g \in Files \ Contested : sameAs[g] # None \/ (g = "wikidata" /\ item # None)} |->
     IF f = "wikidata" /\ item # None THEN item ELSE sameAs[f]]

(* The one number a file gives a person: one of two is none. *)
Single(said) == IF Cardinality(said) = 1 THEN CHOOSE n \in said : TRUE ELSE None

Filed(n) == IF n = None THEN {} ELSE {n}

----------------------------------------------------------------------------
Untold == [f \in Files |-> None]

(* _candidate, from lobid's answer by number (resolve) or by name (search); *)
(* no answer, or no record, ends it there.                                  *)
AskLobid(said, byNumber) ==
  /\ step = "lobid" /\ sameAs' = said /\ certain' = byNumber
  /\ step' = "item"
  /\ UNCHANGED <<item, claims, suggested, cluster, named, national, refs, numbers>>

LobidFails ==
  /\ step = "lobid" /\ step' = "end"
  /\ UNCHANGED <<certain, sameAs, item, claims, suggested, cluster, named, national, refs, numbers>>

(* _item_for.  A record found by its name is shown, and compares and files *)
(* nothing.                                                                *)
AskItem(i) ==
  /\ step = "item" /\ item' = i
  /\ step' = IF ~ certain THEN "end" ELSE IF i = None THEN "refer" ELSE "claims"
  /\ UNCHANGED <<certain, sameAs, claims, suggested, cluster, named, national, refs, numbers>>

(* _claims: a claim nobody answers is a claim nobody makes. *)
AskClaims(viaf, isni) ==
  /\ step = "claims" /\ claims' = [claims EXCEPT !["viaf"] = viaf, !["isni"] = isni]
  /\ step' = "refer"
  /\ UNCHANGED <<certain, sameAs, item, suggested, cluster, named, national, refs, numbers>>

(* national_identifiers: nothing about a contested cluster; the one lobid  *)
(* names, or the one VIAF finds.                                           *)
AskFor(said) ==
  IF "viaf" \in Contested THEN "end"
  ELSE IF said["viaf"] # None THEN "cluster" ELSE "suggest"

Refer ==
  /\ step = "refer" /\ refs' = CrossReferences
  /\ step' = AskFor(sameAs) /\ cluster' = sameAs["viaf"]
  /\ UNCHANGED <<certain, sameAs, item, claims, suggested, named, national, numbers>>

(* Where there is no cluster to read, Wikidata is asked only if VIAF was   *)
(* not heard.                                                              *)
Unclustered(said) == IF said = Silence THEN "wikidata" ELSE "end"

(* _viaf_cluster_by_gnd: the hits whose own GND number is the one that was *)
(* confirmed.  Two are none.                                               *)
Suggest(said) ==
  /\ step = "suggest" /\ suggested' = said
  /\ cluster' = IF said = Silence THEN None ELSE Single(said)
  /\ step' = IF cluster' # None THEN "cluster" ELSE Unclustered(said)
  /\ UNCHANGED <<certain, sameAs, item, claims, named, national, refs, numbers>>

(* The cluster names the GND number that was confirmed, and no other. *)
NamesBack(said) == said.gnd = {"own"}

(* _viaf_cluster_sources, by the brief record or, where VIAF cannot write  *)
(* that, the bare one.                                                     *)
AskCluster(said) ==
  /\ step = "cluster" /\ named' = said
  /\ IF said = Unread
     THEN step' = "wikidata" /\ UNCHANGED numbers
     ELSE /\ step' = "end"
          /\ numbers' = IF NamesBack(said) THEN Filed(Single(said.national)) ELSE {}
  /\ UNCHANGED <<certain, sameAs, item, claims, suggested, cluster, national, refs>>

(* _national_from_wikidata *)
AskNational(said) ==
  /\ step = "wikidata" /\ item # None /\ "wikidata" \notin Contested
  /\ national' = said /\ step' = "end"
  /\ numbers' = IF said = Silence THEN {} ELSE Filed(Single(said))
  /\ UNCHANGED <<certain, sameAs, item, claims, suggested, cluster, named, refs>>

NoItemToAsk ==
  /\ step = "wikidata" /\ (item = None \/ "wikidata" \in Contested) /\ step' = "end"
  /\ UNCHANGED <<certain, sameAs, item, claims, suggested, cluster, named, national, refs, numbers>>

Init ==
  /\ step = "lobid" /\ certain = FALSE /\ sameAs = Untold /\ item = None /\ claims = Untold
  /\ suggested = Silence /\ cluster = None /\ named = Unread /\ national = Silence
  /\ refs = <<>> /\ numbers = {}

Next ==
  \/ \E said \in [Files -> Numbers \cup {None}], b \in BOOLEAN : AskLobid(said, b)
  \/ LobidFails
  \/ \E i \in Numbers \cup {None} : AskItem(i)
  \/ \E v, i \in Numbers \cup {None} : AskClaims(v, i)
  \/ Refer
  \/ \E said \in (SUBSET Numbers) \cup {Silence} : Suggest(said) \/ AskNational(said)
  \/ \E said \in [gnd : SUBSET GND, national : SUBSET Numbers] \cup {Unread} : AskCluster(said)
  \/ NoItemToAsk

Spec == Init /\ [][Next]_vars

----------------------------------------------------------------------------
(* Properties *)

(* Numbers are numbers; a cluster that is asked for is one. *)
TypeOK ==
  /\ DOMAIN refs \subseteq Files /\ \A f \in DOMAIN refs : refs[f] \in Numbers
  /\ numbers \subseteq Numbers /\ Cardinality(numbers) <= 1
  /\ step = "cluster" => cluster \in Numbers

(* No file is filed about which lobid and Wikidata have both spoken and    *)
(* name two records: neither takes precedence.                             *)
ContestedIsUnsaid ==
  /\ \A f \in {"viaf", "isni"} :
       sameAs[f] # None /\ claims[f] # None /\ sameAs[f] # claims[f] => f \notin DOMAIN refs
  /\ sameAs["wikidata"] # None /\ item # None /\ sameAs["wikidata"] # item =>
       "wikidata" \notin DOMAIN refs /\ (numbers # {} => named # Unread)
  /\ sameAs["viaf"] # None /\ claims["viaf"] # None /\ sameAs["viaf"] # claims["viaf"] =>
       numbers = {}

(* A number read off a cluster is read off one that names the confirmed    *)
(* record back, and no other's beside it.                                  *)
NamedBack == numbers # {} /\ named # Unread => named.gnd = {"own"}

(* Whoever supplies it, the number filed is the only one that file gives:  *)
(* nothing picks one of two.                                               *)
NothingIsPicked ==
  numbers # {} => numbers = IF named # Unread THEN named.national ELSE national

(* One supplier speaks: Wikidata's numbers are filed only for a record     *)
(* that was resolved, where VIAF gave no answer; an answer that names      *)
(* nobody, or two, stands.                                                 *)
SilenceIsNotAnAnswer ==
  numbers # {} =>
    /\ certain
    /\ national # Silence => named = Unread /\ (suggested = Silence \/ cluster # None)
=============================================================================
