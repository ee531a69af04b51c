---------------------------- MODULE Vocabulary ----------------------------
(***************************************************************************)
(* The names a library shares: its tags, its collections, or its custom    *)
(* fields, by `kind`.  Anyone may coin one; what a Book carries points at  *)
(* it; a member is told of one that a Book they see carries, or no Book,   *)
(* and an author of theirs (Disclosure).                                   *)
(*                                                                         *)
(* A request reads, and then writes in one commit, which the constraints   *)
(* may refuse; an id that is free is issued again.  Two names that differ  *)
(* in case fold to one.  `seen` says who sees a Book, on the shelf or in   *)
(* their trash.  Left out: the seeded tags, which everyone is told of, the *)
(* values a field holds, an import's budget of new tags.                   *)
(***************************************************************************)
EXTENDS Naturals, FiniteSets, FiniteSetTheorems, TLAPS

CONSTANTS
  Procs, Members, Books,
  Admin,     \* one of the members
  Owner,     \* [Books -> Members]
  Names,
  Fold,      \* [Names -> Names]: the same for names that differ in case
  MaxId,     \* bound on the ids of names
  MaxFields, \* MAX_CUSTOM_FIELDS
  MaxTags,   \* MAX_TAGS_PER_BOOK
  None

Entry == [name : Names, by : Members]
VocabularyAssumption ==
  /\ Admin \in Members /\ Owner \in [Books -> Members] /\ Fold \in [Names -> Names]
  /\ MaxId \in Nat /\ MaxFields \in Nat /\ None \notin Entry \cup Members

VARIABLES
  kind,     \* "tag", "collection" or "field"
  entries,  \* [Ids -> its name and the member who coined it, or None]
  carried,  \* [Books -> the ids it carries]
  seen,     \* [Books -> the members who see it]
  req,      \* [Procs -> the request it serves]
  overlap   \* whether requests overlap or take turns

vars == <<kind, entries, carried, seen, req, overlap>>

Kinds == {"tag", "collection", "field"}
Ids == 1 .. MaxId
Present == {e \in Ids : entries[e] # None}

Idle == [op |-> "idle", by |-> None, entry |-> 0, name |-> None, book |-> None]

----------------------------------------------------------------------------
(* Disclosure.may_be_told, with the arm of Fields *)

CarriedBy(books) == UNION {carried[b] : b \in books}

MayBeTold(m, e) ==
  \/ e \in CarriedBy({b \in Books : m \in seen[b]})
  \/ kind = "field" /\ entries[e].by = m
  \/ e \notin CarriedBy(Books)

(* The entries a member's request may name by their ids. *)
Resolved(m) == {e \in Present : MayBeTold(m, e)}

Matches(n) == {e \in Present : Fold[entries[e].name] = Fold[n]}

----------------------------------------------------------------------------
(* Requests.  A match of Create is handed back and nothing is written.     *)

MayBegin == overlap \/ \A q \in Procs : req[q] = Idle

Begin(p, m, op, e, n, b) ==
  /\ MayBegin /\ req[p] = Idle /\ (overlap => m = Admin)
  /\ req' = [req EXCEPT ![p] = [op |-> op, by |-> m, entry |-> e, name |-> n, book |-> b]]
  /\ UNCHANGED <<kind, entries, carried, seen, overlap>>

HasRoomFor == kind = "field" => Cardinality(Present) < MaxFields

ReadCreate(p, m, n) ==
  /\ Matches(n) = {} /\ HasRoomFor
  /\ Begin(p, m, "create", 0, n, None)

(* A field is relabelled by its author or an admin; a tag by nobody. *)
ReadRename(p, m, e, n) ==
  /\ kind # "tag" /\ e \in Resolved(m)
  /\ kind = "field" => entries[e].by = m \/ m = Admin
  /\ Matches(n) \subseteq {e}
  /\ Begin(p, m, "rename", e, n, None)

ReadDelete(p, e) == e \in Present /\ Begin(p, Admin, "delete", e, None, None)

(* attach: the ceiling is the tags' alone. *)
RoomOn(b) == kind = "tag" => Cardinality(carried[b]) < MaxTags

ReadAttach(p, m, b, e) ==
  /\ m \in seen[b] /\ e \in Resolved(m) \ carried[b] /\ RoomOn(b)
  /\ Begin(p, m, "attach", e, None, b)

(* Naming.tag: a name that is there is used if the member may be told of   *)
(* it; one that is not is coined.                                          *)
ReadAttachByName(p, m, b, n) ==
  /\ kind = "tag" /\ m \in seen[b] /\ RoomOn(b)
  /\ IF Matches(n) = {} THEN Begin(p, m, "coin", 0, n, b)
     ELSE \E e \in Matches(n) :
            /\ \A d \in Matches(n) : e <= d
            /\ e \in Resolved(m) \ carried[b] /\ Begin(p, m, "attach", e, None, b)

ReadDetach(p, m, b, e) ==
  /\ m \in seen[b] /\ e \in carried[b]
  /\ Begin(p, m, "detach", e, None, b)

----------------------------------------------------------------------------
(* Commits *)

(* The unique index: of a collection's folded name, of the others' own.    *)
NameIsFree(e, n) ==
  \A o \in Present \ {e} :
    IF kind = "collection" THEN Fold[entries[o].name] # Fold[n] ELSE entries[o].name # n

(* The id a request writes: a new one is next to the last. *)
Coins(r) == r.op \in {"create", "coin"}
NewIds == {e \in Ids : (\A o \in Present : o < e) /\ (e = 1 \/ e - 1 \in Present)}
Written(r) == IF Coins(r) THEN NewIds ELSE {r.entry}

Carrying(b, e) == IF kind = "collection" THEN {e} ELSE carried[b] \cup {e}

(* What the constraints allow: names that are free, and ids that exist.    *)
Allowed(r) ==
  /\ Coins(r) => NameIsFree(0, r.name) /\ NewIds # {}
  /\ r.op = "rename" => NameIsFree(r.entry, r.name)
  /\ r.op \in {"rename", "delete", "attach"} => r.entry \in Present
  /\ r.op \in {"coin", "attach"} => seen[r.book] # {}

(* As LetGo, and the Books are left as they were. *)
LetGo_Nothing(e) == carried

(* Whatever carries a deleted name lets go of it in the same commit. *)
LetGo(e) == [b \in Books |-> carried[b] \ {e}]

Entered(r, e) ==
  CASE Coins(r) -> [entries EXCEPT ![e] = [name |-> r.name, by |-> r.by]]
    [] r.op = "rename" -> [entries EXCEPT ![e].name = r.name]
    [] r.op = "delete" -> [entries EXCEPT ![e] = None]
    [] OTHER -> entries

Carried(r, e) ==
  CASE r.op \in {"coin", "attach"} -> [carried EXCEPT ![r.book] = Carrying(r.book, e)]
    [] r.op = "detach" -> [carried EXCEPT ![r.book] = @ \ {e}]
    [] r.op = "delete" -> LetGo(e)
    [] OTHER -> carried

(* A commit that is not allowed writes nothing. *)
Commit(p) ==
  LET r == req[p] IN
  /\ r # Idle
  /\ req' = [req EXCEPT ![p] = Idle]
  /\ IF Allowed(r) THEN \E e \in Written(r) : entries' = Entered(r, e) /\ carried' = Carried(r, e)
                   ELSE UNCHANGED <<entries, carried>>
  /\ UNCHANGED <<kind, seen, overlap>>

(* _union_tags, resolve_merge, _absorb_fields: no ceiling, and a Book is    *)
(* in one collection.                                                      *)
Merge(keeper, loser) ==
  /\ MayBegin /\ keeper # loser /\ seen[keeper] \cap seen[loser] # {}
  /\ carried' = [carried EXCEPT ![loser] = {}, ![keeper] =
       IF kind = "collection" /\ @ # {} THEN @ ELSE @ \cup carried[loser]]
  /\ seen' = [seen EXCEPT ![loser] = {}]
  /\ UNCHANGED <<kind, entries, req, overlap>>

(* A Book arrives, is shared, kept to its owner, or leaves for good.  Where *)
(* requests overlap every Book is everybody's and one member asks: no      *)
(* property would tell.                                                    *)
Show(b, whom) ==
  /\ MayBegin /\ (overlap => whom = {} \/ (whom = Members /\ seen[b] = {}))
  /\ seen' = [seen EXCEPT ![b] = whom]
  /\ carried' = IF whom = {} THEN [carried EXCEPT ![b] = {}] ELSE carried
  /\ UNCHANGED <<kind, entries, req, overlap>>

Init ==
  /\ kind \in Kinds /\ overlap \in BOOLEAN
  /\ entries = [e \in Ids |-> None] /\ carried = [b \in Books |-> {}]
  /\ seen = [b \in Books |-> {}] /\ req = [p \in Procs |-> Idle]

Next ==
  \/ \E p \in Procs, m \in Members, n \in Names :
       \/ ReadCreate(p, m, n)
       \/ \E e \in Ids : ReadRename(p, m, e, n)
       \/ \E b \in Books : ReadAttachByName(p, m, b, n)
  \/ \E p \in Procs, e \in Ids :
       \/ ReadDelete(p, e)
       \/ \E m \in Members, b \in Books : ReadAttach(p, m, b, e) \/ ReadDetach(p, m, b, e)
  \/ \E p \in Procs : Commit(p)
  \/ \E k, l \in Books : Merge(k, l)
  \/ \E b \in Books : \E whom \in {{}, {Owner[b]}, Members} \ {seen[b]} : Show(b, whom)

Spec == Init /\ [][Next]_vars

----------------------------------------------------------------------------
(* Properties *)

(* What a Book carries is there, one of them for a collection. *)
TypeOK ==
  /\ \A b \in Books : carried[b] \subseteq Present /\ seen[b] \subseteq Members
  /\ kind = "collection" => \A b \in Books : Cardinality(carried[b]) <= 1
  /\ \A e \in Present : entries[e].name \in Names /\ entries[e].by \in Members

(* Two names that fold to one are one name: always for collections, and    *)
(* for tags and fields while requests take turns.                          *)
OneEntryPerName ==
  kind = "collection" \/ ~ overlap =>
    \A d, e \in Present : Fold[entries[d].name] = Fold[entries[e].name] => d = e

(* Requests that take turns keep to the number of fields there may be. *)
FieldsAreFew == kind = "field" /\ ~ overlap => Cardinality(Present) <= MaxFields

(* What a member does not know of, no request of their own brings before   *)
(* them: another's private Books are all that carries it.                  *)
OwnRequestsDiscloseNothing ==
  ~ overlap => \A p \in Procs, m \in Members, e \in Present :
    req[p].by = m /\ req'[p] = Idle /\ e \in Present' /\ ~ MayBeTold(m, e)
      => ~ MayBeTold(m, e)'

----------------------------------------------------------------------------
(* Proofs: for any number of threads, members, Books, names and ids. *)

Request ==
  [op : {"idle", "create", "coin", "rename", "delete", "attach", "detach"},
   by : Members \cup {None}, entry : Ids \cup {0}, name : Names \cup {None},
   book : Books \cup {None}]

WellFormed(r) ==
  /\ r.op = "idle" <=> r = Idle
  /\ r.op # "idle" => r.by \in Members
  /\ Coins(r) \/ r.op = "rename" => r.name \in Names
  /\ r.op \in {"coin", "attach", "detach"} => r.book \in Books
  /\ r.op \in {"rename", "delete", "attach", "detach"} => r.entry \in Ids
  /\ r.op = "coin" => kind = "tag"

(* What a request read, while nothing else is in flight, is still so when  *)
(* it commits.                                                             *)
Current(r) ==
  /\ Coins(r) => Matches(r.name) = {}
  /\ r.op = "create" => HasRoomFor
  /\ r.op = "rename" => Matches(r.name) \subseteq {r.entry}
  /\ r.op \in {"coin", "attach", "detach"} => r.by \in seen[r.book]
  /\ r.op = "attach" => MayBeTold(r.by, r.entry)

TypeInv ==
  /\ kind \in Kinds /\ overlap \in BOOLEAN
  /\ entries \in [Ids -> Entry \cup {None}]
  /\ carried \in [Books -> SUBSET Ids] /\ \A b \in Books : carried[b] \subseteq Present
  /\ seen \in [Books -> SUBSET Members]
  /\ kind = "collection" => \A b \in Books : \A d, e \in carried[b] : d = e
RequestInv == req \in [Procs -> Request] /\ \A p \in Procs : WellFormed(req[p])
NamesInv == OneEntryPerName /\ FieldsAreFew
SerialInv ==
  ~ overlap =>
    /\ \A p, q \in Procs : req[p] # Idle /\ req[q] # Idle => p = q
    /\ \A p \in Procs : req[p] # Idle => Current(req[p])

IInv == TypeInv /\ RequestInv /\ NamesInv /\ SerialInv

LEMMA PresentIsFinite ==
  ASSUME VocabularyAssumption, NEW S \in SUBSET Ids
  PROVE  IsFiniteSet(S) /\ Cardinality(S) \in Nat
<1>1. IsFiniteSet(Ids)
  BY FS_Interval DEF VocabularyAssumption, Ids
<1> QED BY <1>1, FS_Subset, FS_CardinalityType

LEMMA IdleIsRequest ==
  ASSUME VocabularyAssumption
  PROVE  /\ Idle \in Request /\ WellFormed(Idle) /\ Idle.op = "idle" /\ Idle.by \notin Members
BY DEF VocabularyAssumption, Idle, Request, WellFormed, Coins

LEMMA InitInv == ASSUME VocabularyAssumption, Init PROVE IInv
<1>1. Present = {}
  BY DEF Init, Present
<1>2. TypeInv
  BY <1>1 DEF Init, TypeInv
<1>3. RequestInv /\ SerialInv
  BY IdleIsRequest DEF Init, RequestInv, SerialInv
<1>4. NamesInv
  BY <1>1, FS_EmptySet DEF NamesInv, OneEntryPerName, FieldsAreFew, VocabularyAssumption
<1> QED BY <1>2, <1>3, <1>4 DEF IInv

(* A request begins: it asks for what it may, as things are. *)
LEMMA BeginInv ==
  ASSUME VocabularyAssumption, IInv, NEW p \in Procs, NEW m, NEW op, NEW e, NEW n, NEW b,
         NEW r, r = [op |-> op, by |-> m, entry |-> e, name |-> n, book |-> b],
         Begin(p, m, op, e, n, b), r \in Request, WellFormed(r), ~ overlap => Current(r)
  PROVE  IInv'
<1>1. req' = [req EXCEPT ![p] = r] /\ UNCHANGED <<kind, entries, carried, seen, overlap>>
  BY DEF Begin
<1>2. req' \in [Procs -> Request] /\ req'[p] = r /\ \A q \in Procs \ {p} : req'[q] = req[q]
  BY <1>1 DEF IInv, RequestInv
<1>3. Present' = Present
  BY <1>1 DEF Present
<1>4. TypeInv'
  BY <1>1, <1>3 DEF IInv, TypeInv
<1>5. NamesInv'
  BY <1>1, <1>3 DEF IInv, NamesInv, OneEntryPerName, FieldsAreFew
<1>6. RequestInv'
  BY <1>1, <1>2 DEF IInv, RequestInv, WellFormed
<1>7. ASSUME ~ overlap' PROVE SerialInv'
  <2>1. \A q \in Procs : req[q] = Idle
    BY <1>1, <1>7 DEF Begin, MayBegin
  <2>2. \A q \in Procs \ {p} : req'[q] = Idle
    BY <1>2, <2>1
  <2>3. \A c : Matches(c)' = Matches(c)
    BY <1>1, <1>3 DEF Matches
  <2>4. \A d : MayBeTold(m, d)' = MayBeTold(m, d)
    BY <1>1 DEF MayBeTold, CarriedBy
  <2>5. HasRoomFor' = HasRoomFor
    BY <1>1, <1>3 DEF HasRoomFor
  <2>6. Current(r)
    BY <1>1, <1>7
  <2>7. Current(req[p])'
    BY <1>1, <1>2, <2>3, <2>4, <2>5, <2>6 DEF Current
  <2>8. Idle' = Idle
    BY DEF Idle
  <2> QED BY <2>2, <2>7, <2>8 DEF SerialInv
<1>8. SerialInv'
  BY <1>7 DEF SerialInv
<1> QED BY <1>4, <1>5, <1>6, <1>8 DEF IInv

LEMMA ReadStep ==
  ASSUME VocabularyAssumption, IInv, NEW p \in Procs,
         \/ \E m \in Members, n \in Names : ReadCreate(p, m, n)
         \/ \E m \in Members, n \in Names, e \in Ids : ReadRename(p, m, e, n)
         \/ \E m \in Members, n \in Names, b \in Books : ReadAttachByName(p, m, b, n)
         \/ \E e \in Ids : ReadDelete(p, e)
         \/ \E e \in Ids, m \in Members, b \in Books : ReadAttach(p, m, b, e) \/ ReadDetach(p, m, b, e)
  PROVE  IInv'
<1>1. ASSUME NEW m \in Members, NEW n \in Names, ReadCreate(p, m, n) PROVE IInv'
  <2> DEFINE r == [op |-> "create", by |-> m, entry |-> 0, name |-> n, book |-> None]
  <2>1. r \in Request /\ WellFormed(r)
    BY DEF Request, WellFormed, Coins, Idle
  <2>2. Current(r) /\ Begin(p, m, "create", 0, n, None)
    BY <1>1 DEF ReadCreate, Current, Coins
  <2> QED BY <2>1, <2>2, BeginInv
<1>2. ASSUME NEW m \in Members, NEW n \in Names, NEW e \in Ids, ReadRename(p, m, e, n)
      PROVE  IInv'
  <2> DEFINE r == [op |-> "rename", by |-> m, entry |-> e, name |-> n, book |-> None]
  <2>1. r \in Request /\ WellFormed(r)
    BY DEF Request, WellFormed, Coins, Idle
  <2>2. Current(r) /\ Begin(p, m, "rename", e, n, None)
    BY <1>2 DEF ReadRename, Current, Coins
  <2> QED BY <2>1, <2>2, BeginInv
<1>3. ASSUME NEW m \in Members, NEW b \in Books, NEW e \in Ids,
             m \in seen[b], MayBeTold(m, e), Begin(p, m, "attach", e, None, b)
      PROVE  IInv'
  <2> DEFINE r == [op |-> "attach", by |-> m, entry |-> e, name |-> None, book |-> b]
  <2>1. r \in Request /\ WellFormed(r)
    BY DEF Request, WellFormed, Coins, Idle
  <2>2. Current(r)
    BY <1>3 DEF Current, Coins
  <2> QED BY <1>3, <2>1, <2>2, BeginInv
<1>4. ASSUME NEW m \in Members, NEW b \in Books, NEW e \in Ids, ReadAttach(p, m, b, e)
      PROVE  IInv'
  BY <1>3, <1>4 DEF ReadAttach, Resolved
<1>5. ASSUME NEW m \in Members, NEW n \in Names, NEW b \in Books, ReadAttachByName(p, m, b, n)
      PROVE  IInv'
  <2>1. CASE Matches(n) = {}
    <3> DEFINE r == [op |-> "coin", by |-> m, entry |-> 0, name |-> n, book |-> b]
    <3>1. r \in Request /\ WellFormed(r)
      BY <1>5 DEF ReadAttachByName, Request, WellFormed, Coins, Idle
    <3>2. Current(r) /\ Begin(p, m, "coin", 0, n, b)
      BY <1>5, <2>1 DEF ReadAttachByName, Current, Coins
    <3> QED BY <3>1, <3>2, BeginInv
  <2>2. CASE Matches(n) # {}
    BY <1>3, <1>5, <2>2 DEF ReadAttachByName, Resolved, Present
  <2> QED BY <2>1, <2>2
<1>6. ASSUME NEW m \in Members, NEW b \in Books, NEW e \in Ids, ReadDetach(p, m, b, e)
      PROVE  IInv'
  <2> DEFINE r == [op |-> "detach", by |-> m, entry |-> e, name |-> None, book |-> b]
  <2>1. r \in Request /\ WellFormed(r)
    BY DEF Request, WellFormed, Coins, Idle
  <2>2. Current(r) /\ Begin(p, m, "detach", e, None, b)
    BY <1>6 DEF ReadDetach, Current, Coins
  <2> QED BY <2>1, <2>2, BeginInv
<1>7. ASSUME NEW e \in Ids, ReadDelete(p, e) PROVE IInv'
  <2> DEFINE r == [op |-> "delete", by |-> Admin, entry |-> e, name |-> None, book |-> None]
  <2>1. r \in Request /\ WellFormed(r)
    BY DEF Request, WellFormed, Coins, Idle, VocabularyAssumption
  <2>2. Current(r) /\ Begin(p, Admin, "delete", e, None, None)
    BY <1>7 DEF ReadDelete, Current, Coins
  <2> QED BY <2>1, <2>2, BeginInv
<1> QED BY <1>1, <1>2, <1>4, <1>5, <1>6, <1>7

(* A request is answered, and what is in the tables is in order. *)
LEMMA AnsweredInv ==
  ASSUME VocabularyAssumption, IInv, NEW p \in Procs, req[p] # Idle,
         req' = [req EXCEPT ![p] = Idle], UNCHANGED <<kind, seen, overlap>>,
         TypeInv', NamesInv'
  PROVE  IInv'
<1>1. req' \in [Procs -> Request] /\ req'[p] = Idle /\ \A q \in Procs \ {p} : req'[q] = req[q]
  BY IdleIsRequest DEF IInv, RequestInv
<1>2. RequestInv'
  BY <1>1, IdleIsRequest DEF IInv, RequestInv, WellFormed, Coins, Idle
<1>3. SerialInv'
  BY <1>1 DEF IInv, SerialInv, Idle
<1> QED BY <1>2, <1>3 DEF IInv

(* Only the names of those that are there matter to what is promised of    *)
(* them.                                                                   *)
LEMMA CoinStep ==
  ASSUME VocabularyAssumption, IInv, NEW p \in Procs, NEW e \in Written(req[p]),
         Coins(req[p]), Allowed(req[p]),
         entries' = Entered(req[p], e), carried' = Carried(req[p], e),
         UNCHANGED <<kind, seen, overlap>>
  PROVE  TypeInv' /\ NamesInv' /\ e \notin Present /\ Present' = Present \cup {e}
<1> DEFINE r == req[p]
           new == [name |-> r.name, by |-> r.by]
<1>1. r \in Request /\ WellFormed(r) /\ r.op \in {"create", "coin"} /\ r # Idle
  BY DEF IInv, RequestInv, Coins, Idle
<1>2. e \in Ids /\ \A o \in Present : o < e
  BY DEF Written, NewIds
<1>3. e \notin Present
  BY <1>2 DEF Ids
<1>4. new \in Entry /\ new # None
  BY <1>1 DEF WellFormed, Coins, Entry, VocabularyAssumption
<1>5. entries' = [entries EXCEPT ![e] = new]
  BY <1>1 DEF Entered, Coins
<1>6. /\ entries' \in [Ids -> Entry \cup {None}] /\ entries'[e] = new
      /\ \A o \in Ids \ {e} : entries'[o] = entries[o]
  BY <1>2, <1>4, <1>5 DEF IInv, TypeInv
<1>7. Present' = Present \cup {e}
  BY <1>2, <1>4, <1>6 DEF Present
<1>8. \/ carried' = carried
      \/ r.book \in Books /\ carried' = [carried EXCEPT ![r.book] = Carrying(r.book, e)]
  BY <1>1 DEF Carried, WellFormed
<1>9. TypeInv'
  <2>1. \A b \in Books : Carrying(b, e) \subseteq Present \cup {e} /\ Carrying(b, e) \subseteq Ids
    BY <1>2 DEF Carrying, IInv, TypeInv
  <2>2. Carrying(r.book, e) \in SUBSET Ids \/ r.book \notin Books
    BY <2>1
  <2>3. carried' \in [Books -> SUBSET Ids]
    BY <1>8, <2>2 DEF IInv, TypeInv
  <2>4. \A b \in Books : carried'[b] = carried[b] \/ carried'[b] = Carrying(b, e)
    BY <1>8 DEF IInv, TypeInv
  <2>5. \A b \in Books : carried'[b] \subseteq Present'
    BY <1>7, <2>1, <2>4 DEF IInv, TypeInv
  <2>6. ASSUME kind = "collection", NEW b \in Books, NEW d \in carried'[b], NEW f \in carried'[b]
        PROVE  d = f
    <3>1. CASE carried'[b] = carried[b]
      BY <2>6, <3>1 DEF IInv, TypeInv
    <3>2. CASE carried'[b] = Carrying(b, e)
      BY <2>6, <3>2 DEF Carrying
    <3> QED BY <2>4, <3>1, <3>2
  <2> QED BY <1>6, <2>3, <2>5, <2>6 DEF IInv, TypeInv
<1>10. ASSUME kind = "collection" \/ ~ overlap, NEW o \in Present
       PROVE  Fold[entries[o].name] # Fold[r.name]
  <2>1. CASE kind = "collection"
    <3>1. o # 0
      BY DEF Present, Ids
    <3> QED BY <2>1, <3>1 DEF Allowed, NameIsFree
  <2>2. CASE ~ overlap
    BY <1>1, <2>2 DEF IInv, SerialInv, Current, Matches
  <2> QED BY <1>10, <2>1, <2>2
<1>11. OneEntryPerName'
  BY <1>3, <1>6, <1>7, <1>10 DEF OneEntryPerName, IInv, NamesInv, Present
<1>12. FieldsAreFew'
  <2> SUFFICES ASSUME kind = "field", ~ overlap PROVE Cardinality(Present') <= MaxFields
    BY DEF FieldsAreFew
  <2>1. Cardinality(Present) < MaxFields
    BY <1>1 DEF IInv, SerialInv, Current, HasRoomFor, WellFormed
  <2>2. IsFiniteSet(Present) /\ Cardinality(Present) \in Nat
    BY PresentIsFinite DEF Present
  <2>3. Cardinality(Present \cup {e}) = Cardinality(Present) + 1
    BY <1>3, <2>2, FS_AddElement
  <2> QED BY <1>7, <2>1, <2>2, <2>3 DEF VocabularyAssumption
<1> QED BY <1>3, <1>7, <1>9, <1>11, <1>12 DEF NamesInv

(* Names stay as they are, or go. *)
LEMMA FewerNames ==
  ASSUME VocabularyAssumption, IInv, UNCHANGED <<kind, overlap>>, Present' \subseteq Present,
         \A e \in Present' : entries'[e].name = entries[e].name
  PROVE  NamesInv'
<1>1. OneEntryPerName'
  BY DEF IInv, NamesInv, OneEntryPerName
<1>2. Cardinality(Present') <= Cardinality(Present) /\ Cardinality(Present') \in Nat
      /\ Cardinality(Present) \in Nat
  BY PresentIsFinite, FS_Subset DEF Present
<1>3. FieldsAreFew'
  BY <1>2 DEF IInv, NamesInv, FieldsAreFew, VocabularyAssumption
<1> QED BY <1>1, <1>3 DEF NamesInv

LEMMA RenameStep ==
  ASSUME VocabularyAssumption, IInv, NEW p \in Procs, NEW e, e = req[p].entry,
         req[p].op = "rename", Allowed(req[p]),
         entries' = Entered(req[p], e), carried' = Carried(req[p], e),
         UNCHANGED <<kind, seen, overlap>>
  PROVE  TypeInv' /\ NamesInv' /\ Present' = Present /\ carried' = carried
         /\ \A d \in Present : entries'[d].by = entries[d].by
<1> DEFINE r == req[p]
           new == [entries[e] EXCEPT !.name = r.name]
<1>1. r \in Request /\ WellFormed(r) /\ r # Idle /\ e \in Present /\ e \in Ids
  BY DEF IInv, RequestInv, Idle, Allowed, Present
<1>2. entries[e] \in Entry
  BY <1>1 DEF IInv, TypeInv, Present
<1>3. new \in Entry /\ new # None /\ new.name = r.name /\ new.by = entries[e].by
  BY <1>1, <1>2 DEF WellFormed, Entry, VocabularyAssumption
<1>4. entries' = [entries EXCEPT ![e] = new] /\ carried' = carried
  BY DEF Entered, Carried, Coins
<1>5. /\ entries' \in [Ids -> Entry \cup {None}] /\ entries'[e] = new
      /\ \A o \in Ids \ {e} : entries'[o] = entries[o]
  BY <1>1, <1>3, <1>4 DEF IInv, TypeInv
<1>6. Present' = Present
  BY <1>1, <1>3, <1>5 DEF Present
<1>7. TypeInv'
  BY <1>4, <1>5, <1>6 DEF IInv, TypeInv
<1>8. ASSUME kind = "collection" \/ ~ overlap, NEW o \in Present \ {e}
      PROVE  Fold[entries[o].name] # Fold[r.name]
  <2>1. CASE kind = "collection"
    BY <2>1 DEF Allowed, NameIsFree
  <2>2. CASE ~ overlap
    BY <1>1, <2>2 DEF IInv, SerialInv, Current, Matches
  <2> QED BY <1>8, <2>1, <2>2
<1>9. OneEntryPerName'
  <2> SUFFICES ASSUME kind = "collection" \/ ~ overlap, NEW d \in Present, NEW f \in Present,
                      Fold[entries'[d].name] = Fold[entries'[f].name], d # f
               PROVE  FALSE
    BY <1>6 DEF OneEntryPerName
  <2>1. Fold[entries[d].name] # Fold[entries[f].name]
    BY DEF IInv, NamesInv, OneEntryPerName
  <2>2. \A o \in Present \ {e} : entries'[o] = entries[o]
    BY <1>5 DEF Present
  <2> HIDE DEF r, new
  <2>3. CASE d = e
    <3>1. f \in Present \ {e} /\ entries'[d].name = r.name /\ entries'[f] = entries[f]
      BY <1>3, <1>5, <2>2, <2>3
    <3>2. Fold[entries[f].name] # Fold[r.name]
      BY <1>8, <3>1
    <3> QED BY <3>1, <3>2
  <2>4. CASE f = e
    <3>1. d \in Present \ {e} /\ entries'[f].name = r.name /\ entries'[d] = entries[d]
      BY <1>3, <1>5, <2>2, <2>4
    <3>2. Fold[entries[d].name] # Fold[r.name]
      BY <1>8, <3>1
    <3> QED BY <3>1, <3>2
  <2> QED BY <2>1, <2>2, <2>3, <2>4
<1>10. FieldsAreFew'
  BY <1>6 DEF IInv, NamesInv, FieldsAreFew
<1>11. \A d \in Present : entries'[d].by = entries[d].by
  BY <1>3, <1>5 DEF Present
<1> QED BY <1>4, <1>6, <1>7, <1>9, <1>10, <1>11 DEF NamesInv

LEMMA DeleteStep ==
  ASSUME VocabularyAssumption, IInv, NEW p \in Procs, NEW e, e = req[p].entry,
         req[p].op = "delete", Allowed(req[p]),
         entries' = Entered(req[p], e), carried' = Carried(req[p], e),
         UNCHANGED <<kind, seen, overlap>>
  PROVE  TypeInv' /\ NamesInv' /\ Present' = Present \ {e}
         /\ carried' = LetGo(e) /\ \A d \in Ids \ {e} : entries'[d] = entries[d]
<1>1. e \in Present /\ e \in Ids
  BY DEF Allowed, Present
<1>2. entries' = [entries EXCEPT ![e] = None] /\ carried' = LetGo(e)
  BY DEF Entered, Carried, Coins
<1>3. /\ entries' \in [Ids -> Entry \cup {None}] /\ entries'[e] = None
      /\ \A o \in Ids \ {e} : entries'[o] = entries[o]
  BY <1>1, <1>2 DEF IInv, TypeInv
<1>4. Present' = Present \ {e}
  BY <1>1, <1>3 DEF Present
<1>5. TypeInv'
  BY <1>2, <1>3, <1>4 DEF IInv, TypeInv, LetGo
<1>6. NamesInv'
  <2>1. Present' \subseteq Present /\ \A o \in Present' : entries'[o].name = entries[o].name
    BY <1>3, <1>4 DEF Present
  <2> QED BY <2>1, FewerNames
<1> QED BY <1>2, <1>3, <1>4, <1>5, <1>6

LEMMA CarryStep ==
  ASSUME VocabularyAssumption, IInv, NEW p \in Procs, NEW e, e = req[p].entry,
         req[p].op \in {"attach", "detach"}, Allowed(req[p]),
         entries' = Entered(req[p], e), carried' = Carried(req[p], e),
         UNCHANGED <<kind, seen, overlap>>
  PROVE  TypeInv' /\ NamesInv' /\ entries' = entries
<1> DEFINE r == req[p]
           b == r.book
           now == IF r.op = "attach" THEN Carrying(b, e) ELSE carried[b] \ {e}
<1>1. r \in Request /\ WellFormed(r) /\ r # Idle /\ b \in Books
  BY DEF IInv, RequestInv, WellFormed, Idle
<1>2. entries' = entries /\ carried' = [carried EXCEPT ![b] = now]
  BY DEF Entered, Carried, Coins
<1>3. Present' = Present
  BY <1>2 DEF Present
<1>4. now \in SUBSET Ids /\ now \subseteq Present
      /\ (kind = "collection" => \A d, f \in now : d = f)
  BY <1>1 DEF Carrying, Allowed, IInv, TypeInv, Present
<1> HIDE DEF now
<1>5. /\ carried' \in [Books -> SUBSET Ids] /\ carried'[b] = now
      /\ \A c \in Books \ {b} : carried'[c] = carried[c]
  BY <1>1, <1>2, <1>4 DEF IInv, TypeInv
<1>6. TypeInv'
  <2>1. \A c \in Books : carried'[c] \subseteq Present
    BY <1>4, <1>5 DEF IInv, TypeInv
  <2>2. kind = "collection" => \A c \in Books : \A d, f \in carried'[c] : d = f
    BY <1>4, <1>5 DEF IInv, TypeInv
  <2> QED BY <1>2, <1>3, <1>5, <2>1, <2>2 DEF IInv, TypeInv
<1>7. NamesInv'
  BY <1>2, <1>3, FewerNames
<1> QED BY <1>2, <1>6, <1>7

LEMMA CommitStep ==
  ASSUME VocabularyAssumption, IInv, NEW p \in Procs, Commit(p) PROVE IInv'
<1> DEFINE r == req[p]
<1>1. /\ r # Idle /\ req' = [req EXCEPT ![p] = Idle] /\ UNCHANGED <<kind, seen, overlap>>
      /\ r \in Request /\ WellFormed(r)
  BY DEF Commit, IInv, RequestInv
<1>2. TypeInv' /\ NamesInv'
  <2>1. CASE ~ Allowed(r)
    <3>1. UNCHANGED <<kind, entries, carried, seen, overlap>>
      BY <1>1, <2>1 DEF Commit
    <3>2. Present' = Present
      BY <3>1 DEF Present
    <3> QED BY <3>1, <3>2 DEF IInv, TypeInv, NamesInv, OneEntryPerName, FieldsAreFew
  <2>2. CASE Allowed(r)
    <3>1. PICK e \in Written(r) : entries' = Entered(r, e) /\ carried' = Carried(r, e)
      BY <2>2 DEF Commit
    <3>2. CASE Coins(r)
      BY <1>1, <2>2, <3>1, <3>2, CoinStep
    <3>3. CASE ~ Coins(r)
      <4>1. e = r.entry
        BY <3>1, <3>3 DEF Written
      <4>2. r.op \in {"rename", "delete", "attach", "detach"}
        BY <1>1, <3>3 DEF Request, WellFormed, Coins
      <4>3. CASE r.op = "rename"
        BY <1>1, <2>2, <3>1, <4>1, <4>3, RenameStep
      <4>4. CASE r.op = "delete"
        BY <1>1, <2>2, <3>1, <4>1, <4>4, DeleteStep
      <4>5. CASE r.op \in {"attach", "detach"}
        BY <1>1, <2>2, <3>1, <4>1, <4>5, CarryStep
      <4> QED BY <4>2, <4>3, <4>4, <4>5
    <3> QED BY <3>2, <3>3
  <2> QED BY <2>1, <2>2
<1> QED BY <1>1, <1>2, AnsweredInv

(* A fold, or a Book that comes or goes: no names and no requests. *)
LEMMA MergeStep ==
  ASSUME VocabularyAssumption, IInv, NEW k \in Books, NEW l \in Books, Merge(k, l)
  PROVE  IInv'
<1> DEFINE now == IF kind = "collection" /\ carried[k] # {} THEN carried[k]
                  ELSE carried[k] \cup carried[l]
<1>1. /\ UNCHANGED <<kind, entries, req, overlap>> /\ k # l /\ MayBegin
      /\ carried' = [carried EXCEPT ![l] = {}, ![k] = now] /\ seen' = [seen EXCEPT ![l] = {}]
  BY DEF Merge, IInv, TypeInv
<1>2. now \in SUBSET Ids /\ now \subseteq Present
      /\ (kind = "collection" => \A d, f \in now : d = f)
  BY DEF IInv, TypeInv
<1> HIDE DEF now
<1>3. /\ carried' \in [Books -> SUBSET Ids]
      /\ \A b \in Books : carried'[b] \in {carried[b], {}, now}
      /\ seen' \in [Books -> SUBSET Members]
  BY <1>1, <1>2 DEF IInv, TypeInv
<1>4. Present' = Present
  BY <1>1 DEF Present
<1>5. TypeInv'
  <2>1. \A c \in Books : carried'[c] \subseteq Present
    BY <1>2, <1>3 DEF IInv, TypeInv
  <2>2. kind = "collection" => \A c \in Books : \A d, f \in carried'[c] : d = f
    BY <1>2, <1>3 DEF IInv, TypeInv
  <2> QED BY <1>1, <1>3, <1>4, <2>1, <2>2 DEF IInv, TypeInv
<1>6. NamesInv'
  BY <1>1, <1>4 DEF IInv, NamesInv, OneEntryPerName, FieldsAreFew
<1>7. RequestInv'
  BY <1>1 DEF IInv, RequestInv, WellFormed
<1>8. SerialInv'
  BY <1>1 DEF MayBegin, SerialInv, Idle
<1> QED BY <1>5, <1>6, <1>7, <1>8 DEF IInv

LEMMA ShowStep ==
  ASSUME VocabularyAssumption, IInv, NEW b \in Books, NEW whom \in SUBSET Members,
         Show(b, whom)
  PROVE  IInv'
<1>1. /\ UNCHANGED <<kind, entries, req, overlap>> /\ MayBegin
      /\ seen' = [seen EXCEPT ![b] = whom]
      /\ carried' = carried \/ carried' = [carried EXCEPT ![b] = {}]
  BY DEF Show
<1>2. /\ carried' \in [Books -> SUBSET Ids]
      /\ \A c \in Books : carried'[c] \in {carried[c], {}}
      /\ seen' \in [Books -> SUBSET Members]
  BY <1>1 DEF IInv, TypeInv
<1>3. Present' = Present
  BY <1>1 DEF Present
<1>4. TypeInv'
  <2>1. \A c \in Books : carried'[c] \subseteq Present
    BY <1>2 DEF IInv, TypeInv
  <2>2. kind = "collection" => \A c \in Books : \A d, f \in carried'[c] : d = f
    BY <1>2 DEF IInv, TypeInv
  <2> QED BY <1>1, <1>2, <1>3, <2>1, <2>2 DEF IInv, TypeInv
<1>5. NamesInv'
  BY <1>1, <1>3 DEF IInv, NamesInv, OneEntryPerName, FieldsAreFew
<1>6. RequestInv'
  BY <1>1 DEF IInv, RequestInv, WellFormed
<1>7. SerialInv'
  BY <1>1 DEF MayBegin, SerialInv, Idle
<1> QED BY <1>4, <1>5, <1>6, <1>7 DEF IInv

LEMMA NextInv == ASSUME VocabularyAssumption, IInv, [Next]_vars PROVE IInv'
<1>1. ASSUME NEW p \in Procs, Commit(p) PROVE IInv'
  BY <1>1, CommitStep
<1>2. ASSUME NEW k \in Books, NEW l \in Books, Merge(k, l) PROVE IInv'
  BY <1>2, MergeStep
<1>3. ASSUME NEW b \in Books, NEW whom \in {{}, {Owner[b]}, Members} \ {seen[b]}, Show(b, whom)
      PROVE  IInv'
  <2>1. whom \in SUBSET Members
    BY DEF VocabularyAssumption
  <2> QED BY <1>3, <2>1, ShowStep
<1>4. CASE UNCHANGED vars
  <2>1. UNCHANGED <<kind, entries, carried, seen, req, overlap>>
    BY <1>4 DEF vars
  <2>2. Present' = Present
    BY <2>1 DEF Present
  <2>3. TypeInv' /\ NamesInv'
    BY <2>1, <2>2 DEF IInv, TypeInv, NamesInv, OneEntryPerName, FieldsAreFew
  <2>4. RequestInv'
    BY <2>1 DEF IInv, RequestInv, WellFormed
  <2>5. \A r : Current(r)' = Current(r)
    BY <2>1 DEF Current, Matches, Present, HasRoomFor, MayBeTold, CarriedBy
  <2>6. SerialInv'
    BY <2>1, <2>5 DEF IInv, SerialInv, Idle
  <2> QED BY <2>3, <2>4, <2>6 DEF IInv
<1>5. ASSUME NEW p \in Procs, NEW m \in Members, NEW n \in Names,
             \/ ReadCreate(p, m, n)
             \/ \E e \in Ids : ReadRename(p, m, e, n)
             \/ \E b \in Books : ReadAttachByName(p, m, b, n)
      PROVE  IInv'
  BY <1>5, ReadStep
<1>6. ASSUME NEW p \in Procs, NEW e \in Ids,
             \/ ReadDelete(p, e)
             \/ \E m \in Members, b \in Books : ReadAttach(p, m, b, e) \/ ReadDetach(p, m, b, e)
      PROVE  IInv'
  BY <1>6, ReadStep
<1> QED BY <1>1, <1>2, <1>3, <1>4, <1>5, <1>6 DEF Next

(* The invariant, of every reachable state. *)
THEOREM Inductive == ASSUME VocabularyAssumption PROVE Spec => []IInv
BY InitInv, NextInv, PTL DEF Spec

(* What a Book carries is there, and a Book is in one collection at most,  *)
(* whatever is deleted, folded or purged meanwhile (the cascades of        *)
(* remove and delete_tag, set_collection).                                 *)
THEOREM TypesHold == ASSUME VocabularyAssumption PROVE Spec => []TypeOK
<1>1. IInv => TypeOK
  <2> SUFFICES ASSUME IInv PROVE TypeOK
    OBVIOUS
  <2>1. \A b \in Books : carried[b] \subseteq Present /\ seen[b] \subseteq Members
    BY DEF IInv, TypeInv
  <2>2. ASSUME kind = "collection", NEW b \in Books PROVE Cardinality(carried[b]) <= 1
    <3>1. CASE carried[b] = {}
      BY <3>1, FS_EmptySet
    <3>2. ASSUME NEW e \in carried[b] PROVE Cardinality(carried[b]) <= 1
      <4>1. carried[b] = {e}
        BY <2>2 DEF IInv, TypeInv
      <4>2. Cardinality({e}) = 1
        BY FS_Singleton
      <4> QED BY <4>1, <4>2
    <3> QED BY <3>1, <3>2
  <2>3. \A e \in Present : entries[e].name \in Names /\ entries[e].by \in Members
    BY DEF IInv, TypeInv, Present, Entry
  <2> QED BY <2>1, <2>2, <2>3 DEF TypeOK
<1> QED BY <1>1, Inductive, PTL

(* Names that fold to one are one: for collections by their index, however *)
(* requests overlap; for tags and fields while requests take turns, since  *)
(* define and Naming look the name up before they insert it.               *)
THEOREM OneEntryPerNameHolds == ASSUME VocabularyAssumption PROVE Spec => []OneEntryPerName
<1>1. IInv => OneEntryPerName
  BY DEF IInv, NamesInv
<1> QED BY <1>1, Inductive, PTL

(* define: requests that take turns keep to MAX_CUSTOM_FIELDS. *)
THEOREM FieldsAreFewHolds == ASSUME VocabularyAssumption PROVE Spec => []FieldsAreFew
<1>1. IInv => FieldsAreFew
  BY DEF IInv, NamesInv
<1> QED BY <1>1, Inductive, PTL

(* A member's own commit tells them of no name they might not be told of:  *)
(* what leaves every Book they do not see was on one they see.             *)
LEMMA CommitDisclosesNothing ==
  ASSUME VocabularyAssumption, IInv, ~ overlap, NEW p \in Procs, NEW m \in Members, Commit(p),
         req[p].by = m, NEW e \in Present, e \in Present', ~ MayBeTold(m, e)
  PROVE  ~ MayBeTold(m, e)'
<1> DEFINE r == req[p]
<1>1. r \in Request /\ WellFormed(r) /\ r # Idle /\ Current(r) /\ UNCHANGED <<kind, seen>>
  BY DEF Commit, IInv, RequestInv, SerialInv
<1>2. /\ \E b \in Books : e \in carried[b]
      /\ \A b \in Books : m \in seen[b] => e \notin carried[b]
      /\ kind = "field" => entries[e].by # m
  BY DEF MayBeTold, CarriedBy
<1>3. ASSUME \A b \in Books : m \notin seen[b] => carried'[b] = carried[b] \/ e \in carried'[b],
             \A b \in Books : m \in seen[b] => e \notin carried'[b],
             entries'[e].by = entries[e].by
      PROVE  ~ MayBeTold(m, e)'
  <2>1. \E b \in Books : e \in carried'[b]
    BY <1>2, <1>3
  <2>2. seen' = seen /\ kind' = kind
    BY <1>1
  <2> QED BY <1>2, <1>3, <2>1, <2>2 DEF MayBeTold, CarriedBy
<1>4. CASE ~ Allowed(r)
  BY <1>2, <1>3, <1>4 DEF Commit
<1>5. CASE Allowed(r)
  <2>1. PICK d \in Written(r) : entries' = Entered(r, d) /\ carried' = Carried(r, d)
    BY <1>5 DEF Commit
  <2>2. UNCHANGED <<kind, seen, overlap>>
    BY DEF Commit
  <2>3. CASE Coins(r)
    <3>1. d \notin Present /\ d # e
      BY <1>5, <2>1, <2>2, <2>3, CoinStep
    <3>2. d \in Ids /\ entries' = [entries EXCEPT ![d] = [name |-> r.name, by |-> r.by]]
      BY <1>1, <2>1, <2>3 DEF Written, NewIds, Entered, Coins
    <3>3. entries'[e] = entries[e]
      BY <3>1, <3>2 DEF IInv, TypeInv, Present
    <3>4. CASE r.op = "create"
      BY <1>2, <1>3, <2>1, <3>3, <3>4 DEF Carried
    <3>5. CASE r.op = "coin"
      <4>1. /\ r.book \in Books /\ m \in seen[r.book]
            /\ carried' = [carried EXCEPT ![r.book] = carried[r.book] \cup {d}]
        BY <1>1, <2>1, <3>5 DEF Carried, Carrying, WellFormed, Current
      <4>2. \A b \in Books : carried'[b] = carried[b] \/ (b = r.book /\ carried'[b] = carried[b] \cup {d})
        BY <4>1 DEF IInv, TypeInv
      <4> QED BY <1>2, <1>3, <3>1, <3>3, <4>1, <4>2
    <3> QED BY <2>3, <3>4, <3>5 DEF Coins
  <2>4. CASE ~ Coins(r)
    <3>1. d = r.entry /\ r.op \in {"rename", "delete", "attach", "detach"}
      BY <1>1, <2>1, <2>4 DEF Written, Request, WellFormed, Coins
    <3>2. CASE r.op = "rename"
      BY <1>2, <1>3, <1>5, <2>1, <2>2, <3>1, <3>2, RenameStep
    <3>3. CASE r.op = "delete"
      <4>1. e # d /\ carried' = LetGo(d) /\ entries'[e] = entries[e]
        BY <1>5, <2>1, <2>2, <3>1, <3>3, DeleteStep DEF Present
      <4>2. \A b \in Books : carried'[b] = carried[b] \ {d}
        BY <4>1 DEF LetGo
      <4>3. \A b \in Books : e \in carried'[b] <=> e \in carried[b]
        BY <4>1, <4>2
      <4>4. (\E b \in Books : e \in carried'[b]) /\ seen' = seen /\ kind' = kind
        BY <1>2, <2>2, <4>3
      <4> QED BY <1>2, <4>1, <4>3, <4>4 DEF MayBeTold, CarriedBy
    <3>4. CASE r.op \in {"attach", "detach"}
      <4>1. entries' = entries /\ r.book \in Books /\ m \in seen[r.book]
        BY <1>1, <1>5, <2>1, <2>2, <3>1, <3>4, CarryStep DEF WellFormed, Current
      <4>2. \A b \in Books : b # r.book => carried'[b] = carried[b]
        BY <2>1, <3>4, <4>1 DEF Carried, IInv, TypeInv
      <4>3. e \notin carried'[r.book]
        <5>1. CASE r.op = "attach"
          <6>1. d # e
            BY <1>1, <3>1, <5>1 DEF Current
          <6>2. carried'[r.book] = Carrying(r.book, d)
            BY <2>1, <4>1, <5>1 DEF Carried, IInv, TypeInv
          <6> QED BY <1>2, <4>1, <6>1, <6>2 DEF Carrying
        <5>2. CASE r.op = "detach"
          <6>1. carried'[r.book] = carried[r.book] \ {d}
            BY <2>1, <4>1, <5>2 DEF Carried, IInv, TypeInv
          <6> QED BY <1>2, <4>1, <6>1
        <5> QED BY <3>4, <5>1, <5>2
      <4> QED BY <1>2, <1>3, <4>1, <4>2, <4>3
    <3> QED BY <3>1, <3>2, <3>3, <3>4
  <2> QED BY <2>3, <2>4
<1> QED BY <1>4, <1>5

(* Disclosure.may_be_told: while requests take turns, no request of a      *)
(* member's own brings before them a name that only others' private Books  *)
(* carry.                                                                  *)
THEOREM OwnRequestsDiscloseNothingHolds ==
  ASSUME VocabularyAssumption PROVE Spec => [][OwnRequestsDiscloseNothing]_vars
<1>1. ASSUME IInv, [Next]_vars PROVE [OwnRequestsDiscloseNothing]_vars
  <2> SUFFICES ASSUME Next, ~ overlap, NEW p \in Procs, NEW m \in Members, NEW e \in Present,
                      req[p].by = m, req'[p] = Idle, e \in Present', ~ MayBeTold(m, e)
               PROVE  ~ MayBeTold(m, e)'
    BY <1>1 DEF OwnRequestsDiscloseNothing
  <2>1. req[p] # Idle
    BY IdleIsRequest
  <2>2. Commit(p)
    <3>1. ASSUME NEW q \in Procs, Commit(q) PROVE q = p
      BY <1>1, <2>1, <3>1 DEF Commit, IInv, RequestInv
    <3>2. ASSUME NEW q \in Procs, NEW c, NEW op, NEW d, NEW n, NEW b, Begin(q, c, op, d, n, b)
          PROVE  FALSE
      BY <2>1, <3>2 DEF Begin, MayBegin
    <3>3. req' # req
      BY <2>1
    <3> QED BY <3>1, <3>2, <3>3 DEF Next, ReadCreate, ReadRename, ReadDelete, ReadAttach,
                                    ReadAttachByName, ReadDetach, Merge, Show
  <2> QED BY <1>1, <2>2, CommitDisclosesNothing
<1> QED BY <1>1, Inductive, PTL DEF Spec

=============================================================================
