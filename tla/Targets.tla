------------------------------ MODULE Targets ------------------------------
(***************************************************************************)
(* The table of catalogues: which row may be written into it, and whether  *)
(* what a row says it answers can be asked.                                *)
(*                                                                         *)
(* A row is refused by its own constructor, or by the seeding at startup,  *)
(* which looks for a reader; what is left is served.  Three other places   *)
(* read the row later and trust both: the door that dispatches a question, *)
(* the one that builds the query, and the one that decides whether the     *)
(* source has the credential it needs.  The rows modelled are the ones     *)
(* shipped and what a few edits to one make of it, an edit being another   *)
(* value of a field or the whole door of another row.                      *)
(*                                                                         *)
(* An index or a parameter is abstracted to whether it is one; the text of *)
(* a query and the answer to it are left out.                              *)
(***************************************************************************)
EXTENDS Naturals, FiniteSets

CONSTANT MaxEdits    \* bound

VARIABLES
  row,       \* the row
  stage,     \* "drafted", "accepted", "serving" or "refused"
  login,     \* a login for the source is sealed and can be opened
  key,       \* the Google Books key is set and the switch is on
  edits

vars == <<row, stage, login, key, edits>>

----------------------------------------------------------------------------
(* Rows *)

MarcReaders == {"marc_gnd", "marc_plain"}
ImportReaders == {"opds_atom"}
Readers == MarcReaders \cup ImportReaders
             \cup {"dublin_core", "dublin_core_bare", "mods", "open_library", "google_books"}

(* The fields that say how the source is reached and asked. *)
Door == [transport : {"sru", "z3950", "bespoke"},
         version : BOOLEAN, parameter : {"none", "own", "reserved"}, language : {"none", "cql", "pqf"},
         isbnIndex : BOOLEAN, isbnUse : BOOLEAN, isbnRecords : 0 .. 1,
         titleIndex : BOOLEAN, titleShape : BOOLEAN, titleRecords : 0 .. 1]
Asks == [lookup : BOOLEAN, search : BOOLEAN]
Reads == [reader : Readers, refusesParts : BOOLEAN, readsIdentifiers : BOOLEAN, claims : BOOLEAN]
Needs == [needsKey : BOOLEAN, secret : {"none", "google_books_key"}, shipped : BOOLEAN]

Rows == [source : {"dnb", "google_books", "other"}, door : Door, asks : Asks, reads : Reads, needs : Needs]

Bespoke == [transport |-> "bespoke", version |-> FALSE, parameter |-> "none", language |-> "none",
            isbnIndex |-> FALSE, isbnUse |-> FALSE, isbnRecords |-> 0,
            titleIndex |-> FALSE, titleShape |-> FALSE, titleRecords |-> 0]
Sru == [Bespoke EXCEPT !.transport = "sru", !.version = TRUE, !.parameter = "own", !.language = "cql"]
ByIsbn(door) == [door EXCEPT !.isbnIndex = TRUE, !.isbnRecords = 1]
ByTitle(door) == [door EXCEPT !.titleIndex = TRUE, !.titleShape = TRUE, !.titleRecords = 1]
Pqf == [Sru EXCEPT !.language = "pqf", !.isbnUse = TRUE, !.isbnRecords = 1]

Both == [lookup |-> TRUE, search |-> TRUE]
LookupOnly == [Both EXCEPT !.search = FALSE]
SearchOnly == [Both EXCEPT !.lookup = FALSE]

ReadBy(reader) == [reader |-> reader, refusesParts |-> FALSE, readsIdentifiers |-> FALSE, claims |-> TRUE]
Free == [needsKey |-> FALSE, secret |-> "none", shipped |-> FALSE]

Other(door, asks, reads) ==
  [source |-> "other", door |-> door, asks |-> asks, reads |-> reads, needs |-> Free]

Dnb == [source |-> "dnb", door |-> ByTitle(ByIsbn(Sru)), asks |-> Both, needs |-> Free,
        reads |-> [ReadBy("marc_gnd") EXCEPT !.readsIdentifiers = TRUE, !.claims = FALSE]]
K10plus == Other(ByTitle(ByIsbn(Sru)), Both, ReadBy("marc_plain"))
OpenLibrary == Other(Bespoke, Both, ReadBy("open_library"))
Nkp == Other(Pqf, LookupOnly, ReadBy("dublin_core_bare"))
Bne == Other(ByIsbn(Sru), LookupOnly, [ReadBy("marc_gnd") EXCEPT !.refusesParts = TRUE])
NlgAndOenb == Other(ByTitle(ByIsbn(Sru)), Both, [ReadBy("marc_gnd") EXCEPT !.refusesParts = TRUE])
Bna == [Nkp EXCEPT !.needs = [needsKey |-> TRUE, secret |-> "none", shipped |-> TRUE]]
GoogleBooks == [source |-> "google_books", door |-> Bespoke, asks |-> Both, reads |-> ReadBy("google_books"),
                needs |-> [needsKey |-> TRUE, secret |-> "google_books_key", shipped |-> FALSE]]
Bnf == Other(ByTitle(Sru), SearchOnly, ReadBy("dublin_core"))
Loc == Other(ByTitle(Sru), SearchOnly, ReadBy("mods"))

Seeded == {Dnb, K10plus, OpenLibrary, Nkp, Bne, NlgAndOenb, Bna, GoogleBooks, Bnf, Loc}

----------------------------------------------------------------------------
(* Target.__post_init__ *)

(* As LookupDoorStands, of a door in CQL. *)
LookupDoorStands_Cql(d) == d.isbnRecords >= 1 /\ d.isbnIndex

LookupDoorStands(d) ==
  d.isbnRecords >= 1 /\ IF d.language = "cql" THEN d.isbnIndex ELSE d.isbnUse

SearchDoorStands(d) ==
  d.language = "cql" /\ d.titleIndex /\ d.titleShape /\ d.titleRecords >= 1

(* _check_sru *)
SruStands(r) ==
  /\ r.door.version /\ r.door.parameter = "own" /\ r.door.language # "none"
  /\ r.asks.lookup => LookupDoorStands(r.door)
  /\ r.asks.search => SearchDoorStands(r.door)

(* _check_no_sru: the number of records and the language's own fields      *)
(* alone are not looked at.                                                *)
NoSruStands(r) ==
  /\ ~ r.door.version /\ r.door.parameter = "none" /\ r.door.language = "none"
  /\ ~ r.door.isbnIndex /\ ~ r.door.titleIndex /\ ~ r.door.isbnUse /\ ~ r.door.titleShape

(* _check_no_marc_knobs *)
NoMarcKnobs(r) == ~ r.reads.refusesParts /\ ~ r.reads.readsIdentifiers

(* _check_secret *)
SecretStands(r) == r.needs.secret # "none" => r.needs.needsKey /\ r.door.transport # "sru"

Constructed(r) ==
  /\ r.door.transport # "z3950"
  /\ r.reads.reader \notin ImportReaders
  /\ IF r.door.transport = "sru" THEN SruStands(r) ELSE NoSruStands(r)
  /\ r.reads.reader \notin MarcReaders => NoMarcKnobs(r)
  /\ r.reads.claims \/ r.source = "dnb"
  /\ r.needs.shipped => r.needs.needsKey
  /\ SecretStands(r)

----------------------------------------------------------------------------
(* metadata's dispatch *)

(* _LOOKUP_READERS, _KEYED_LOOKUPS and _FREE_LOOKUPS *)
LookupReaders(table) ==
  CASE table = "sru" -> MarcReaders \cup {"dublin_core_bare"}
    [] table = "keyed" -> {"google_books"}
    [] table = "free" -> {"open_library"}

(* _SEARCH_READERS, _METERED_SEARCHES and _FREE_SEARCHES *)
SearchReaders(table) ==
  CASE table = "sru" -> MarcReaders \cup {"dublin_core", "mods"}
    [] table = "keyed" -> {"google_books"}
    [] table = "free" -> {"open_library"}

(* _lookup_one and _search_one *)
Table(r) ==
  IF r.door.transport = "sru" THEN "sru"
  ELSE IF r.needs.secret = "google_books_key" THEN "keyed" ELSE "free"

(* resolve: a door for each question, and one that carries the login. *)
Resolved(r) ==
  /\ r.door.transport # "sru" /\ r.needs.needsKey => r.needs.secret # "none"
  /\ r.asks.lookup => r.reads.reader \in LookupReaders(Table(r))
  /\ r.asks.search => r.reads.reader \in SearchReaders(Table(r))

(* carries_a_credential: no other door takes a login. *)
CarriesLogin(r) == r.door.transport = "sru"

(* Target.isbn_query and title_query: an index, or the assertion, or       *)
(* BadQuery at the time of asking.                                         *)
IsbnQuery(d) == IF d.language = "pqf" THEN d.isbnUse ELSE d.isbnIndex
TitleQuery(d) == d.titleIndex /\ d.titleShape

(* Target.sru_params: the query under a parameter that no other of them    *)
(* overwrites.                                                             *)
SruParams(d) == d.version /\ d.parameter = "own"

(* Decoding.__post_init__, met at the first answer. *)
Decoded(r) == r.reads.reader \in MarcReaders \/ ~ (r.reads.refusesParts \/ r.reads.readsIdentifiers)

----------------------------------------------------------------------------
(* Credentials: settings_store *)

(* ready_sources: Google Books by its settings rows, the others by a login *)
(* that is sealed or shipped.                                              *)
Ready(r) ==
  r.needs.needsKey => IF r.source = "google_books" THEN key ELSE login \/ r.needs.shipped

(* catalogue_logins: for the doors that carry one. *)
SentLogin(r) == r.needs.needsKey /\ CarriesLogin(r) /\ (login \/ r.needs.shipped)

(* What the adapter for a keyed door is handed. *)
SentKey(r) == Table(r) = "keyed" /\ key

(* sources.STOCK_INSTALL_ASKS *)
StockInstallAsks(r) == r.asks.lookup /\ (r.needs.needsKey => r.needs.shipped)

----------------------------------------------------------------------------
Init ==
  /\ row \in Seeded /\ stage = "drafted" /\ edits = 0
  /\ login \in BOOLEAN /\ key \in BOOLEAN

Edit ==
  /\ stage = "drafted" /\ edits < MaxEdits /\ edits' = edits + 1
  /\ \/ \E f \in DOMAIN row.door : \E v \in {d[f] : d \in {s.door : s \in Seeded} \cup {Bespoke}} \cup
           (IF f = "transport" THEN {"z3950"} ELSE IF f = "parameter" THEN {"reserved"} ELSE {}) :
          row' = [row EXCEPT !.door[f] = v]
     \/ \E s \in Seeded : row' \in {[row EXCEPT !.door = s.door], [row EXCEPT !.asks = s.asks]}
     \/ \E r \in Readers : row' = [row EXCEPT !.reads.reader = r]
     \/ \E f \in {"refusesParts", "readsIdentifiers", "claims"} : row' = [row EXCEPT !.reads[f] = ~ @]
     \/ \E f \in {"needsKey", "shipped"} : row' = [row EXCEPT !.needs[f] = ~ @]
     \/ \E v \in {"none", "google_books_key"} : row' = [row EXCEPT !.needs.secret = v]
  /\ UNCHANGED <<stage, login, key>>

(* The table is built when the module is imported. *)
Construct ==
  /\ stage = "drafted" /\ stage' = IF Constructed(row) THEN "accepted" ELSE "refused"
  /\ UNCHANGED <<row, login, key, edits>>

(* seed_catalogue_targets: a row nobody can ask stops the startup. *)
Seed ==
  /\ stage = "accepted" /\ stage' = IF Resolved(row) THEN "serving" ELSE "refused"
  /\ UNCHANGED <<row, login, key, edits>>

Configure ==
  /\ stage = "serving" /\ \/ login' = ~ login /\ key' = key
                          \/ key' = ~ key /\ login' = login
  /\ UNCHANGED <<row, stage, edits>>

Next == Edit \/ Construct \/ Seed \/ Configure

Spec == Init /\ [][Next]_vars

----------------------------------------------------------------------------
(* Properties *)

TypeOK ==
  /\ row \in Rows /\ stage \in {"drafted", "accepted", "serving", "refused"}
  /\ login \in BOOLEAN /\ key \in BOOLEAN /\ edits \in 0 .. MaxEdits
  /\ row \in Seeded => stage # "refused"

(* What a row that is served says it answers can be asked: there is an     *)
(* adapter for its reader at the door the question takes, the query can be *)
(* written in the server's language, and it asks for at least one record.  *)
WhatIsServedCanBeAsked ==
  stage = "serving" =>
    /\ row.asks.lookup =>
         /\ row.reads.reader \in LookupReaders(Table(row))
         /\ row.door.transport = "sru" =>
              SruParams(row.door) /\ IsbnQuery(row.door) /\ row.door.isbnRecords > 0
    /\ row.asks.search =>
         /\ row.reads.reader \in SearchReaders(Table(row))
         /\ row.door.transport = "sru" =>
              SruParams(row.door) /\ TitleQuery(row.door) /\ row.door.titleRecords > 0

(* Reading the answer does not raise for a knob no reader turns: the       *)
(* table's check and the reader's own are two.                             *)
NothingRaisesLater == stage = "serving" => Decoded(row)

(* A source asked with a credential is sent exactly the one it is ready    *)
(* by, and no other source is sent any: unless the key of the deployment   *)
(* is named by a row of another source, or Google's own names none, which  *)
(* _SECRET_IS_A_SETTINGS_ROW lists and no check compares.                  *)
ReadyIsAuthenticated ==
  stage = "serving" /\ (row.source = "google_books" <=> row.needs.secret = "google_books_key") =>
    /\ row.needs.needsKey /\ Ready(row) => SentLogin(row) /= SentKey(row)
    /\ ~ row.needs.needsKey => ~ SentLogin(row) /\ ~ SentKey(row)

(* A deployment where nothing is configured is ready to ask all that the   *)
(* roster says it asks, unless a login is shipped for a door that carries  *)
(* none.                                                                   *)
StockIsReady ==
  stage = "serving" /\ StockInstallAsks(row) /\ ~ login /\ ~ key =>
    Ready(row) \/ ~ CarriesLogin(row)
=============================================================================
