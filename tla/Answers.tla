------------------------------ MODULE Answers ------------------------------
(***************************************************************************)
(* Which record of an SRU answer is the book that was asked for.           *)
(*                                                                         *)
(* A lookup is refused, interrupted or answered, and an answer is a page   *)
(* of records with or without the server's own word that it refused the    *)
(* question.  The reader named by the catalogue's row drops what it cannot *)
(* read, keeps what states the ISBN where the row asks that, and takes one *)
(* of the rest.                                                            *)
(*                                                                         *)
(* A record is abstracted to what the choice looks at; its fields, the     *)
(* XML and the codes a carrier is stated in are left out.                  *)
(***************************************************************************)
EXTENDS Naturals, Sequences

CONSTANTS MaxRecords, MaxFullness    \* bounds

VARIABLES
  decoding,   \* the row's reader and knobs
  response,   \* what the request came to
  refused,    \* the answer carries a diagnostic as a child of its root
  page,       \* the records, in the order served
  answer      \* what is made of them

vars == <<decoding, response, refused, page, answer>>

Readers == {"marc_gnd", "marc_plain", "dublin_core_bare"}

Decodings ==
  {d \in [reader : Readers, refusesParts : BOOLEAN, requiresClaim : BOOLEAN] :
     d.reader = "dublin_core_bare" => ~ d.refusesParts}

(* What a record says it is: "other" is an online edition, or a disc that  *)
(* only its codes name; "disc" says so in words; "slot" has the title of a *)
(* volume, or none.                                                        *)
Kinds == {"print", "other", "disc", "slot"}

Records == [part : BOOLEAN, kind : Kinds, claims : BOOLEAN, fullness : 0 .. MaxFullness]

Responses == {"timed_out", "limited", "error", "unparsed", "read"}

NoRecord == 0
Unread == [outcome |-> "none", taken |-> NoRecord]
Said(outcome) == [outcome |-> outcome, taken |-> NoRecord]

----------------------------------------------------------------------------
(* The readers *)

(* _marc_nodes *)
Nodes(d) == {n \in 1 .. Len(page) : d.refusesParts => ~ page[n].part}

(* Whether a record is made of a node at all: _dnb_record refuses a disc   *)
(* and a placeholder and ranks an online resource, _k10plus_record refuses *)
(* nothing, _nkp_record refuses what is not print.                         *)
Built(d, r) ==
  CASE d.reader = "marc_gnd" -> r.kind \notin {"disc", "slot"}
    [] d.reader = "marc_plain" -> TRUE
    [] d.reader = "dublin_core_bare" -> r.kind = "print"

(* Fields.describes_a_book: the codes, then the prose. *)
DescribesABook(r) == r.kind = "print"

Books(d) == {n \in Nodes(d) : Built(d, page[n])}

Claimed(d) == IF d.requiresClaim THEN {n \in Books(d) : page[n].claims} ELSE Books(d)

Rank(b) == IF b THEN 1 ELSE 0

(* Whether a is ranked over b: max and a stable sort both keep the first   *)
(* of two alike.                                                           *)
Over(d, a, b) ==
  LET x == page[a]  y == page[b]
      claims == ~ d.requiresClaim /\ d.reader # "dublin_core_bare"
      prints == d.reader # "dublin_core_bare"
  IN IF claims /\ x.claims # y.claims THEN x.claims
     ELSE IF prints /\ DescribesABook(x) # DescribesABook(y) THEN DescribesABook(x)
     ELSE x.fullness > y.fullness \/ (x.fullness = y.fullness /\ a < b)

(* _fullest_physical, the rank of a waived claim, and the bare reader's.   *)
Taken(d) == CHOOSE n \in Claimed(d) : \A o \in Claimed(d) \ {n} : Over(d, n, o)

(* _marc_lookup, _dublin_core_bare_lookup *)
Decoded(d) ==
  IF Claimed(d) = {} THEN Said("not_found") ELSE [outcome |-> "found", taken |-> Taken(d)]

----------------------------------------------------------------------------
(* _sru_lookup *)

(* A catalogue that refused the question has not said that it lacks the    *)
(* book; one that refused and still served it has.                         *)
Heard(decoded) ==
  IF decoded.outcome = "not_found" /\ refused THEN Said("unavailable") ELSE decoded

Init ==
  /\ decoding \in Decodings /\ response = "none" /\ refused \in BOOLEAN
  /\ page = <<>> /\ answer = Unread

Serve(r) ==
  /\ response = "none" /\ Len(page) < MaxRecords
  /\ page' = Append(page, r)
  /\ UNCHANGED <<decoding, response, refused, answer>>

Respond(how) ==
  /\ response = "none" /\ response' = how
  /\ UNCHANGED <<decoding, refused, page, answer>>

Fail ==
  /\ response \in {"timed_out", "error", "unparsed"} /\ answer = Unread
  /\ answer' = Said("unavailable")
  /\ UNCHANGED <<decoding, response, refused, page>>

Limited ==
  /\ response = "limited" /\ answer = Unread
  /\ answer' = Said("rate_limited")
  /\ UNCHANGED <<decoding, response, refused, page>>

Read ==
  /\ response = "read" /\ answer = Unread
  /\ answer' = Heard(Decoded(decoding))
  /\ UNCHANGED <<decoding, response, refused, page>>

Next ==
  \/ \E r \in Records : Serve(r)
  \/ \E how \in Responses : Respond(how)
  \/ Fail \/ Limited \/ Read

Spec == Init /\ [][Next]_vars

----------------------------------------------------------------------------
(* Properties *)

TypeOK ==
  /\ decoding \in Decodings /\ response \in Responses \cup {"none"}
  /\ page \in Seq(Records) /\ Len(page) <= MaxRecords
  /\ answer.outcome \in {"none", "found", "not_found", "rate_limited", "unavailable"}
  /\ answer.outcome = "found" <=> answer.taken # NoRecord
  /\ answer.taken \in 0 .. Len(page)

(* The book found is the one asked for: wherever the row asks for the      *)
(* claim, the record states the ISBN, and under the waiver a record that   *)
(* does not is taken only if none does.                                    *)
TheBookAskedFor ==
  answer.outcome = "found" =>
    \/ page[answer.taken].claims
    \/ ~ decoding.requiresClaim /\ \/ decoding.reader = "dublin_core_bare"
                                   \/ \A n \in Books(decoding) : ~ page[n].claims

(* An article in a volume is not taken for the volume. *)
NoComponentPart ==
  answer.outcome = "found" /\ decoding.refusesParts => ~ page[answer.taken].part

(* A disc or an online edition is taken only if no record in print could   *)
(* have been: the fullest record is often the other form's.                *)
PrintBeforeFullness ==
  answer.outcome = "found" /\ page[answer.taken].kind # "print" =>
    \A n \in Nodes(decoding) :
      page[n].kind = "print" => page[answer.taken].claims /\ ~ page[n].claims

(* That the catalogue does not hold the book is said only on its word.     *)
RefusalIsNotAbsence ==
  answer.outcome = "not_found" =>
    /\ response = "read" /\ ~ refused
    /\ \A n \in 1 .. Len(page) :
         page[n].kind = "print" /\ page[n].claims => decoding.refusesParts /\ page[n].part
=============================================================================
