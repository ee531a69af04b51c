---------------------------- MODULE FieldValues ----------------------------
(***************************************************************************)
(* What the household's own fields hold on a Book, and where a value that  *)
(* is a web address leads.                                                 *)
(*                                                                         *)
(* A value is put in its stored form when it is written, and whether it is *)
(* a link is decided anew on each read, because an archive is restored     *)
(* past the write.  A merge carries the values of the Books it folds.      *)
(*                                                                         *)
(* An address is abstracted to what the rule asks of it; the text of a     *)
(* value that is no address, who may see a field and its definition, which *)
(* Vocabulary has, are left out.  Requests are served in turns.            *)
(***************************************************************************)
EXTENDS Naturals, FiniteSets

CONSTANTS
  Books, Fields,
  Texts,                     \* what may be typed or found in an archive
  InitialKinds,              \* what the fields were defined to hold
  Archives,                  \* the sets of rows an archive may hold
  MaxId, MaxRestores         \* bounds

VARIABLES
  kinds,      \* [Fields -> what the definition says it holds]
  rows,       \* custom_field_values
  written,    \* the ids of the rows last written by a request
  restores

vars == <<kinds, rows, written, restores>>

Kinds == {"text", "url"}
AllTexts ==
  [scheme : {"web", "other"}, login : BOOLEAN, readable : BOOLEAN,
   host : {"plain", "foreignDots", "foreignBad", "bad"}]
NoLink == [scheme |-> "none"]
Row == [id : Nat, book : Books, field : Fields, text : AllTexts]

----------------------------------------------------------------------------
(* web_link *)

(* A browser reads the full stops of other scripts as dots. *)
Dotted(host) ==
  CASE host = "foreignDots" -> "plain" [] host = "foreignBad" -> "bad" [] OTHER -> host

(* The address as it will be followed, or none: one of another scheme,     *)
(* with a name or a password in it, without a host a browser would agree   *)
(* on, or that does not parse.                                             *)
WebLink(t) ==
  IF t.readable /\ t.scheme = "web" /\ ~ t.login /\ Dotted(t.host) = "plain"
  THEN [t EXCEPT !.host = Dotted(@)] ELSE NoLink

(* _kind_of: a kind this release does not know never links. *)
KindOf(f) == IF kinds[f] \in Kinds THEN kinds[f] ELSE "text"

(* link_target *)
LinkTarget(f, t) == IF KindOf(f) = "url" THEN WebLink(t) ELSE NoLink

(* _stored_form *)
StoredForm(f, t) == IF KindOf(f) = "url" THEN LinkTarget(f, t) ELSE t

(* values_on: a link only where the text shown is the address followed. *)
Href(row) ==
  IF LinkTarget(row.field, row.text) = row.text THEN row.text ELSE NoLink

----------------------------------------------------------------------------
On(b, f) == {r \in rows : r.book = b /\ r.field = f}

(* The id the database gives a row it adds. *)
IdAbove(n) == \A r \in rows : r.id < n
NewId == CHOOSE n \in 1..MaxId : IdAbove(n) /\ \A o \in 1..MaxId : IdAbove(o) => n <= o

(* write, of a value that is refused if the field holds links and it is    *)
(* none.                                                                   *)
Write(b, f, t) ==
  /\ StoredForm(f, t) # NoLink
  /\ IF On(b, f) = {}
     THEN /\ IdAbove(MaxId)
          /\ rows' = rows \cup {[id |-> NewId, book |-> b, field |-> f, text |-> StoredForm(f, t)]}
          /\ written' = written \cup {NewId}
     ELSE /\ rows' = {IF r \in On(b, f) THEN [r EXCEPT !.text = StoredForm(f, t)] ELSE r : r \in rows}
          /\ written' = written \cup {r.id : r \in On(b, f)}
  /\ UNCHANGED <<kinds, restores>>

(* write, of nothing. *)
Clear(b, f) ==
  /\ On(b, f) # {}
  /\ rows' = rows \ On(b, f) /\ written' = written \ {r.id : r \in On(b, f)}
  /\ UNCHANGED <<kinds, restores>>

(* As Carried, where the keeper's own is not asked. *)
Carried_Over(k, losers) ==
  {r \in rows : /\ r.book \in losers /\ \E o \in rows : o.book = k
                /\ \A o \in rows : o.book \in losers /\ o.field = r.field => r.id <= o.id}

(* resolve_merge: of what the keeper lacks, the oldest row. *)
Carried(k, losers) ==
  {r \in rows : /\ r.book \in losers /\ On(k, r.field) = {}
                /\ \A o \in rows : o.book \in losers /\ o.field = r.field => r.id <= o.id}

(* The losers' rows are moved or deleted, and the losers with them. *)
Merge(k, losers) ==
  /\ rows' = {IF r \in Carried(k, losers) THEN [r EXCEPT !.book = k] ELSE r :
                r \in {x \in rows : x.book \in losers => x \in Carried(k, losers)}}
  /\ written' = written \cap {r.id : r \in rows'}
  /\ UNCHANGED <<kinds, restores>>

(* backup.restore: rows written by nobody's request, under definitions of  *)
(* another release.                                                        *)
Restore(archive) ==
  /\ restores < MaxRestores /\ restores' = restores + 1
  /\ kinds' = archive.kinds /\ rows' = archive.rows /\ written' = {}

Init ==
  /\ kinds = InitialKinds /\ rows = {} /\ written = {}
  /\ restores = 0

Next ==
  \/ \E b \in Books, f \in Fields : \/ Clear(b, f)
                                    \/ \E t \in Texts : Write(b, f, t)
  \/ \E k \in Books, losers \in SUBSET Books :
       losers # {} /\ k \notin losers /\ Merge(k, losers)
  \/ \E archive \in Archives : Restore(archive)

Spec == Init /\ [][Next]_vars

----------------------------------------------------------------------------
(* Properties *)

(* uq_custom_field_values_book_field: one value of a field on a Book. *)
TypeOK ==
  /\ rows \subseteq Row /\ written \subseteq {r.id : r \in rows}
  /\ \A r, o \in rows : r # o => r.id # o.id /\ <<r.book, r.field>> # <<o.book, o.field>>

(* A reader is sent where the text says: a link shown is the very address  *)
(* that is followed, on the web, with no name in it, and under a kind this *)
(* release knows; whatever the row went through.                           *)
LeadsWhereItSays ==
  \A r \in rows :
    Href(r) # NoLink =>
      /\ Href(r) = r.text /\ kinds[r.field] = "url"
      /\ r.text.scheme = "web" /\ ~ r.text.login /\ r.text.host = "plain" /\ r.text.readable

(* What a request wrote into a field of links is a link from then on,      *)
(* whichever Book it is carried to: the form it is stored in is one the    *)
(* rule leaves alone.                                                      *)
WrittenStaysALink ==
  \A r \in rows : r.id \in written /\ KindOf(r.field) = "url" => Href(r) # NoLink

(* A merge loses no field's last value, and takes nobody's: the keeper's   *)
(* own stands, and a field it lacked has one of those folded.              *)
MergeKeepsAValue ==
  rows' # rows /\ restores' = restores =>
  \A k \in Books, losers \in SUBSET Books :
    losers # {} /\ k \notin losers /\ Merge(k, losers) =>
      \A f \in Fields :
        /\ \A r \in On(k, f) : r \in rows'
        /\ (\E r \in rows : r.field = f /\ r.book \in losers \cup {k}) =>
             \E r \in rows' : r.field = f /\ r.book = k
=============================================================================
