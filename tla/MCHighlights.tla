---------------------------- MODULE MCHighlights ----------------------------
(* Small instances of Highlights: a KOReader mark that was keyed `pair`    *)
(* while another shared its second and `alone` since, and a Readwise mark. *)
EXTENDS Highlights, TLC

CONSTANTS alone, pair, wise, b1, b2, p1, p2

OneRekeyed == alone :> pair @@ pair :> NoKey @@ wise :> NoKey

Nothing == [k \in Keys |-> NoText]
Marks(k, text) == [marks |-> [Nothing EXCEPT ![k] = text], removes |-> {}]

(* The passage made long is the one re-keyed; Readwise reports a deletion. *)
OneMarkEach ==
  {Marks(alone, "short"), Marks(alone, "long"), Marks(pair, "short"),
   Marks(wise, "short"), [marks |-> Nothing, removes |-> {wise}]}

(* Of requests that only take a Book away, one at a time. *)
OneImport == {{"import"}, {"purge"}, {"merge"}, {"purge", "merge"}}
OneImportNoShareInMerge == OneImport \cup {{"merge", "share"}}

Interchangeable == Permutations(Procs) \cup Permutations(Books)
=============================================================================
