----------------------------- MODULE Authorship -----------------------------
(***************************************************************************)
(* Who a credited name means, and which record of an authority file it is. *)
(*                                                                         *)
(* Nothing here writes a Book.  A merge writes one alias row per spelling  *)
(* saying whom it means; deleting the row undoes it.  An identifier is     *)
(* filed under a spelling and is never retyped, only removed.  Both tables *)
(* are library wide; what a member may touch depends on the spellings of   *)
(* the Books they see.                                                     *)
(*                                                                         *)
(* A request reads both tables and the shelf, and writes and commits       *)
(* later: another request may commit between the two.  A spelling and its  *)
(* key are one here (author_key); a stored name is told from another only  *)
(* by its key.  The matcher that proposes merges, what a page shows of an  *)
(* author and the provenance of an identifier are left out.                *)
(***************************************************************************)
EXTENDS Naturals, FiniteSets

CONSTANTS
  Names,        \* spellings
  Members,
  Requests,
  Merging,      \* the requests that may merge or fold a batch
  Undoing,      \* the requests that may unmerge, or file or remove an identifier
  Numbers,      \* what identifies a record in an authority file
  NoRow,
  Shelves,      \* what each member may see to begin with
  MaxMerges, MaxFiled, MaxShelved    \* bounds

AuthorshipAssumption ==
  /\ NoRow \notin Names \cup Numbers
  /\ IsFiniteSet(Names)
  /\ Merging \subseteq Requests /\ Undoing \subseteq Requests
  /\ Shelves \subseteq [Members -> SUBSET Names]
  /\ MaxMerges \in Nat /\ MaxFiled \in Nat /\ MaxShelved \in Nat

VARIABLES
  aliases,    \* author_aliases: [Names -> the name it means, or NoRow]
  filed,      \* author_identifiers: [Names -> [Schemes -> Numbers or NoRow]]
  sees,       \* [Members -> the spellings on the Books they see]
  req,        \* [Requests -> the request in flight]
  carried,    \* spellings that a Book has carried
  merges, filings, shelved

vars == <<aliases, filed, sees, req, carried, merges, filings, shelved>>

(* The number a member confirms, and one that came with its record. *)
Schemes == {"gnd", "isni"}

(* At most one number of a scheme is filed under a spelling. *)
Identifiers == [Schemes -> Numbers \cup {NoRow}]

Idle == [kind |-> "idle", step |-> "none", by |-> CHOOSE m \in Members : TRUE,
         keys |-> {}, keep |-> NoRow, held |-> [k \in Names |-> NoRow],
         new |-> [k \in Names |-> NoRow], scheme |-> "gnd", number |-> NoRow]
Kinds == {"idle", "merge", "batch", "unmerge", "confirm", "assert", "forget"}

----------------------------------------------------------------------------
(* authors.py *)

(* One hop of the loop in resolve_alias_map. *)
Follow(a, name) == IF a[name] \in {NoRow, name} THEN name ELSE a[name]

(* resolve_alias_map: as many hops as there are rows; where a spelling has *)
(* no row, build_index takes its own key.                                  *)
Resolved(a) ==
  LET rows == Cardinality({k \in Names : a[k] # NoRow})
      hop[n \in 0 .. Cardinality(Names), name \in Names] ==
        IF n = 0 THEN name ELSE hop[n - 1, Follow(a, name)]
  IN [k \in Names |-> IF a[k] = NoRow THEN k ELSE hop[rows, a[k]]]

(* build_index: the spellings that mean this person on the Books seen. *)
Spellings(m, person) ==
  LET means == Resolved(aliases) IN {k \in sees[m] : means[k] = person}

(* _entry_for *)
EntryFor(name) == Resolved(aliases)[name]

Reachable(m) == {Resolved(aliases)[k] : k \in sees[m]} \cup {k \in sees[m] : aliases[k] # NoRow}

(* _evidenced_keys: entry.key is deliberately not among them. *)
EvidencedKeys(m, person) == Spellings(m, person)

VisibleKeys(m) == UNION {EvidencedKeys(m, p) : p \in Reachable(m)}

----------------------------------------------------------------------------
(* Merges *)

(* As KeepName, taking the name as it was sent. *)
KeepName_AsSent(keep, keys) == keep

(* As KeepName, trusting that a kept name is folded. *)
KeepName_NoRow(keep, keys) == IF keep \notin keys THEN aliases[keep] ELSE keep

(* _resolved_keep_name: followed one hop if it is itself folded, unless it *)
(* is being merged.                                                        *)
KeepName(keep, keys) ==
  IF aliases[keep] # NoRow /\ keep \notin keys THEN aliases[keep] ELSE keep

(* Authorship.merge: a row for each key, and every row that meant one of   *)
(* them now means the name that is kept.                                   *)
Folded(keys, keep) ==
  [k \in Names |-> IF k \in keys \/ (aliases[k] \in keys /\ k # keep) THEN keep ELSE aliases[k]]

Begin(r, rec) ==
  /\ req[r] = Idle
  /\ req' = [req EXCEPT ![r] = rec]
  /\ UNCHANGED <<aliases, filed, sees, carried, filings, shelved>>

ReadToMerge(r, m, keys, keep) ==
  /\ keys # {}
  /\ merges < MaxMerges /\ merges' = merges + 1
  /\ Begin(r, [Idle EXCEPT !.kind = "merge", !.step = "write", !.by = m, !.keys = keys,
                           !.keep = KeepName(keep, keys), !.held = aliases,
                           !.new = Folded(keys, KeepName(keep, keys))])

(* _would_repoint: a row for one of the keys, or at one of them, would     *)
(* mean somebody else.                                                     *)
WouldRepoint(keys, keep) ==
  \/ \E k \in keys : aliases[k] \notin {NoRow, keep}
  \/ \E k \in keys \ {keep}, other \in Names \ {keep} : aliases[other] = k

BeginFold(r, m, keys, keep, new) ==
  /\ Cardinality(keys) > 1 /\ keep \in keys
  /\ merges < MaxMerges /\ merges' = merges + 1
  /\ Begin(r, [Idle EXCEPT !.kind = "batch", !.step = "write", !.by = m, !.keys = keys,
                           !.keep = keep, !.held = aliases, !.new = new])

(* As ReadToFold, folding the group as a merge does. *)
ReadToFold_AsMerge(r, m, keys, keep) == BeginFold(r, m, keys, keep, Folded(keys, keep))

(* merge_batch, of one group: groups share no spelling.  It only adds rows.*)
ReadToFold(r, m, keys, keep) ==
  /\ ~ WouldRepoint(keys, keep)
  /\ BeginFold(r, m, keys, keep,
       [k \in Names |-> IF k \in keys /\ aliases[k] = NoRow THEN keep ELSE aliases[k]])

Changed(r) == {k \in Names : req[r].new[k] # req[r].held[k]}

(* An UPDATE finds its row, and an INSERT meets no row of its alias_key.   *)
Accepted(r) ==
  \A k \in Changed(r) : (aliases[k] = NoRow) <=> (req[r].held[k] = NoRow)

Finish(r) == req' = [req EXCEPT ![r] = Idle]

CommitMerge(r) ==
  /\ req[r].kind \in {"merge", "batch"} /\ Accepted(r)
  /\ aliases' = [k \in Names |-> IF k \in Changed(r) THEN req[r].new[k] ELSE aliases[k]]
  /\ Finish(r)
  /\ UNCHANGED <<filed, sees, carried, merges, filings, shelved>>

(* unmerge: the row of a spelling that is on a Book the member sees. *)
ReadToUnmerge(r, m, k) ==
  /\ aliases[k] # NoRow /\ k \in sees[m]
  /\ Begin(r, [Idle EXCEPT !.kind = "unmerge", !.step = "write", !.by = m, !.keys = {k}])
  /\ UNCHANGED merges

CommitUnmerge(r) ==
  /\ req[r].kind = "unmerge"
  /\ aliases' = [k \in Names |-> IF k \in req[r].keys THEN NoRow ELSE aliases[k]]
  /\ Finish(r)
  /\ UNCHANGED <<filed, sees, carried, merges, filings, shelved>>

----------------------------------------------------------------------------
(* Identifiers *)

(* _confirmable_key: the spelling most Books carry.  Which one that is     *)
(* changes with every Book, and the model leaves it open.                  *)
FilingKeys(m, person) == Spellings(m, person)

(* confirm_identifier, and after its await record_cross_references: the    *)
(* name is resolved again, the number of the other file is filed beside.   *)
ReadToConfirm(r, m, name, number) ==
  /\ \E k \in FilingKeys(m, EntryFor(name)) :
       /\ filed[k]["gnd"] \in {NoRow, number}
       /\ Begin(r, [Idle EXCEPT !.kind = "confirm", !.by = m, !.keys = {k}, !.keep = name,
                                !.step = IF filed[k]["gnd"] = NoRow THEN "file" ELSE "await",
                                !.scheme = "gnd", !.number = number])
  /\ UNCHANGED merges

(* record_catalogue_assertions: only a name of the credit line is filed    *)
(* (module Enrichment).                                                    *)
ReadToAssert(r, m, k, scheme, number) ==
  /\ k \in sees[m] /\ filed[k][scheme] = NoRow
  /\ Begin(r, [Idle EXCEPT !.kind = "assert", !.step = "file", !.by = m, !.keys = {k},
                           !.scheme = scheme, !.number = number])
  /\ UNCHANGED merges

(* The unique index on a spelling and a scheme admits the row. *)
Unfiled(k, scheme) == filed[k][scheme] = NoRow

FileIdentifier(r) ==
  /\ req[r].step = "file"
  /\ \A k \in req[r].keys : Unfiled(k, req[r].scheme)
  /\ filings < MaxFiled /\ filings' = filings + 1
  /\ filed' = [k \in Names |-> IF k \in req[r].keys
                               THEN [filed[k] EXCEPT ![req[r].scheme] = req[r].number]
                               ELSE filed[k]]
  /\ IF req[r].kind = "confirm" /\ req[r].scheme = "gnd"
     THEN req' = [req EXCEPT ![r].step = "await"]
     ELSE Finish(r)
  /\ UNCHANGED <<aliases, sees, carried, merges, shelved>>

(* The authority file has answered, or not. *)
ReadToCrossRefer(r, number) ==
  /\ req[r].step = "await"
  /\ \/ Finish(r)
     \/ \E k \in FilingKeys(req[r].by, EntryFor(req[r].keep)) :
          /\ filed[k]["isni"] = NoRow
          /\ req' = [req EXCEPT ![r].step = "file", ![r].keys = {k},
                                ![r].scheme = "isni", ![r].number = number]
  /\ UNCHANGED <<aliases, filed, sees, carried, merges, filings, shelved>>

(* forget_identifier *)
ReadToForget(r, m, k, scheme) ==
  /\ filed[k][scheme] # NoRow /\ k \in VisibleKeys(m)
  /\ Begin(r, [Idle EXCEPT !.kind = "forget", !.step = "write", !.by = m, !.keys = {k},
                           !.scheme = scheme])
  /\ UNCHANGED merges

CommitForget(r) ==
  /\ req[r].kind = "forget"
  /\ filed' = [k \in Names |-> IF k \in req[r].keys
                               THEN [filed[k] EXCEPT ![req[r].scheme] = NoRow] ELSE filed[k]]
  /\ Finish(r)
  /\ UNCHANGED <<aliases, sees, carried, merges, filings, shelved>>

(* The commit is refused, or the request dies before it. *)
Refused(r) ==
  /\ req[r].step \in {"write", "file"}
  /\ Finish(r)
  /\ UNCHANGED <<aliases, filed, sees, carried, merges, filings, shelved>>

----------------------------------------------------------------------------
(* The shelf *)

(* A Book is added, edited, made private or deleted. *)
Reshelve(m, k) ==
  /\ shelved < MaxShelved /\ shelved' = shelved + 1
  /\ sees' = [sees EXCEPT ![m] = IF k \in @ THEN @ \ {k} ELSE @ \cup {k}]
  /\ carried' = carried \cup {k}
  /\ UNCHANGED <<aliases, filed, req, merges, filings>>

----------------------------------------------------------------------------
Init ==
  /\ aliases = [k \in Names |-> NoRow]
  /\ filed = [k \in Names |-> [s \in Schemes |-> NoRow]]
  /\ sees \in Shelves
  /\ req = [r \in Requests |-> Idle]
  /\ carried = UNION {sees[m] : m \in Members}
  /\ merges = 0 /\ filings = 0 /\ shelved = 0

(* A member names only whom they reach. *)
Merge(r, m) ==
  /\ r \in Merging /\ req[r] = Idle
  /\ \E keys \in SUBSET Reachable(m), keep \in Names :
       ReadToMerge(r, m, keys, keep) \/ ReadToFold(r, m, keys, keep)

Undo(r, m) ==
  /\ r \in Undoing /\ req[r] = Idle
  /\ \E k \in Names, number \in Numbers, scheme \in Schemes :
       \/ ReadToConfirm(r, m, k, number)
       \/ ReadToAssert(r, m, k, scheme, number)
       \/ ReadToForget(r, m, k, scheme)
       \/ ReadToUnmerge(r, m, k)

Step(r) ==
  \/ \E m \in Members : Merge(r, m) \/ Undo(r, m)
  \/ CommitMerge(r) \/ CommitUnmerge(r) \/ FileIdentifier(r) \/ CommitForget(r) \/ Refused(r)
  \/ \E number \in Numbers : ReadToCrossRefer(r, number)

Next == (\E r \in Requests : Step(r)) \/ (\E m \in Members, k \in Names : Reshelve(m, k))

Spec == Init /\ [][Next]_vars

----------------------------------------------------------------------------
(* Properties *)

TypeOK ==
  /\ aliases \in [Names -> Names \cup {NoRow}]
  /\ filed \in [Names -> Identifiers]
  /\ sees \in [Members -> SUBSET Names] /\ carried \subseteq Names
  /\ \A r \in Requests : /\ req[r].kind \in Kinds /\ req[r].keys \subseteq Names
                         /\ req[r].step \in {"none", "write", "file", "await"}
                         /\ req[r].step = "await" => req[r].kind = "confirm"
                         /\ req[r].kind \in {"merge", "batch"} => req[r].keep \in Names

(* The map of aliases stays flat: one lookup names the person, whoever     *)
(* merged, undid or folded in which order.  It holds of merges that do not *)
(* overlap one another.                                                    *)
Flat == \A k \in Names : aliases[k] # NoRow => aliases[aliases[k]] \in {NoRow, aliases[k]}

(* A merge leaves nobody behind: every spelling that meant one of the      *)
(* names it folds, and that nobody unmerged meanwhile, means the one kept. *)
MergeFoldsAll ==
  \A r \in Requests :
    req[r].kind = "merge" /\ req'[r] = Idle /\ aliases' # aliases =>
      \A k \in Names : Resolved(aliases)[k] \in req[r].keys /\ aliases[k] = req[r].held[k] =>
                         Resolved(aliases')[k] = Resolved(aliases')[req[r].keep]

(* A batch applies a matcher's guess: it changes whom no standing row      *)
(* means.                                                                  *)
DecisionsStand ==
  \A r \in Requests :
    req[r].kind = "batch" /\ req'[r] = Idle =>
      \A k \in Names : aliases[k] # NoRow => Resolved(aliases')[k] = Resolved(aliases)[k]

(* "Nothing this app writes lands on an unevidenced key", where nobody     *)
(* could see it and nobody remove it.                                      *)
FiledUnderACredit == \A k \in Names, s \in Schemes : filed[k][s] # NoRow => k \in carried

(* A member may remove a number only under a spelling that is on a Book    *)
(* they see, whatever names they have merged theirs into.                  *)
ForgetsOnlyWhatIsSeen ==
  \A r \in Requests :
    req[r] = Idle /\ req'[r].kind = "forget" => req'[r].keys \subseteq sees[req'[r].by]
=============================================================================
