--------------------------- MODULE DigitalCopies ---------------------------
(***************************************************************************)
(* Digital copies: where members say a file is, and who asks its holder    *)
(* for it.                                                                 *)
(*                                                                         *)
(* The references are those of Books at one location, rows at two never    *)
(* meeting but under the ceiling, which is in Ceilings.  A digest stands   *)
(* for the whole fingerprint of a file.  A look is one step: what two that *)
(* overlap make of one row is left out.  A request for access and its      *)
(* answer are read and then committed, in turns or overlapping, and `about`*)
(* says whether a behaviour is about them or about looks.                  *)
(***************************************************************************)
EXTENDS Naturals, FiniteSets

CONSTANTS
  Procs, Members, Books, Digests,
  Admin,    \* one of the members
  Owner,    \* [Books -> Members]
  Ebooks,   \* the other Books are audiobooks
  MaxAsks,  \* bound on the requests for access
  None

VARIABLES
  place,    \* [Books -> "shared", "private", "trash", the Book it was folded into, or "purged"]
  refs,     \* [Books -> its reference at the location, or None]
  asks,     \* [Ids -> an AccessRequest, or None]
  req,      \* [Procs -> the request it serves]
  about,    \* "looks" or "asks"
  overlap   \* whether requests overlap or take turns

vars == <<place, refs, asks, req, about, overlap>>

Ids == 1 .. MaxAsks
Held == {b \in Books : refs[b] # None}
Made == {i \in Ids : asks[i] # None}
Idle == [op |-> "idle"]

Sees(m, b) == place[b] = "shared" \/ (place[b] = "private" /\ Owner[b] = m)

(* lending.is_requested_not_lent *)
Digital(b) == b \in Ebooks \/ b \in Held

Quiet == \A p \in Procs : req[p] = Idle

Begin(p, r) ==
  /\ about = "asks" /\ req[p] = Idle /\ (overlap \/ Quiet)
  /\ req' = [req EXCEPT ![p] = r] /\ UNCHANGED <<place, refs, asks, about, overlap>>

----------------------------------------------------------------------------
(* Looks *)

(* A look fills what the row lacks and replaces nothing; a root that was   *)
(* once confirmed stays so.                                                *)
Settled(row, digest, sure) ==
  [digest |-> IF row.digest = None THEN digest ELSE row.digest,
   sure |-> row.sure \/ sure, missing |-> row.missing]

Found(row, digest, sure) == [Settled(row, digest, sure) EXCEPT !.missing = FALSE]

New(digest, sure) == [digest |-> digest, sure |-> sure, missing |-> FALSE]

(* _held_elsewhere, through the member's own shelf. *)
HeldElsewhere(m, b) == \E o \in Held \ {b} : Sees(m, o)

Row(b, row) == refs' = [refs EXCEPT ![b] = row] /\ UNCHANGED <<place, asks, req, about, overlap>>

(* Of a behaviour about requests the looks carry nothing. *)
Plain(digest, sure) == about = "looks" \/ (digest = None /\ ~ sure)

Report(m, b, digest, sure) ==
  /\ Quiet /\ Sees(m, b) /\ Plain(digest, sure)
  /\ IF b \in Held THEN Row(b, Found(refs[b], digest, sure))
     ELSE ~ HeldElsewhere(m, b) /\ Row(b, New(digest, sure))

Miss(m, b) ==
  /\ Quiet /\ Sees(m, b) /\ b \in Held /\ about = "looks"
  /\ Row(b, [refs[b] EXCEPT !.missing = TRUE])

(* A folder picked again: of the references the member may see, the files  *)
(* that were seen, with their digests, and those that were not.            *)
Sweep(m, seen, digest) ==
  LET rows == {b \in Held : Sees(m, b)} IN
  /\ Quiet /\ seen \subseteq rows /\ about = "looks"
  /\ refs' = [b \in Books |-> CASE b \in seen -> Found(refs[b], digest, TRUE)
                                [] b \in rows \ seen -> [refs[b] EXCEPT !.missing = TRUE]
                                [] OTHER -> refs[b]]
  /\ UNCHANGED <<place, asks, req, about, overlap>>

Forget(m, b) == Quiet /\ Sees(m, b) /\ b \in Held /\ Row(b, None)

----------------------------------------------------------------------------
(* Access requests *)

(* As OpenOf, and a request that was granted is not open. *)
OpenOf_Waiting(m, b) ==
  {i \in Made : asks[i].book = b /\ asks[i].by = m /\ asks[i].granted = "waiting"}

OpenOf(m, b) == {i \in Made : asks[i].book = b /\ asks[i].by = m /\ asks[i].granted # "declined"}

ReadAsk(p, m, b) ==
  /\ Sees(m, b) /\ Digital(b) /\ Owner[b] # m /\ OpenOf(m, b) = {}
  /\ Begin(p, [op |-> "ask", by |-> m, book |-> b])

ReadDecide(p, m, i, granted) ==
  /\ i \in Made /\ asks[i].holder = m /\ Sees(m, asks[i].book) /\ asks[i].granted = "waiting"
  /\ Begin(p, [op |-> "decide", ask |-> i, granted |-> granted])

CommitAsk(p) ==
  LET r == req[p] IN
  /\ r.op = "ask" /\ Made # Ids
  /\ \E i \in Ids \ Made :
       /\ \A j \in Ids \ Made : i <= j
       /\ asks' = [asks EXCEPT ![i] = [book |-> r.book, by |-> r.by, holder |-> Owner[r.book],
                                       granted |-> "waiting", first |-> r.book]]
  /\ req' = [req EXCEPT ![p] = Idle] /\ UNCHANGED <<place, refs, about, overlap>>

CommitDecide(p) ==
  /\ req[p].op = "decide"
  /\ asks' = [asks EXCEPT ![req[p].ask].granted = req[p].granted]
  /\ req' = [req EXCEPT ![p] = Idle] /\ UNCHANGED <<place, refs, about, overlap>>

----------------------------------------------------------------------------
(* The Books themselves *)

(* The loser's row is one more look at the location. *)
Absorbed(keeper, loser) ==
  CASE refs[keeper] = None -> refs[loser]
    [] refs[loser] = None -> refs[keeper]
    [] OTHER -> Settled(refs[keeper], refs[loser].digest, refs[loser].sure)

Repointed(keeper, loser) ==
  [i \in Ids |-> IF i \in Made /\ asks[i].book = loser
                 THEN [asks[i] EXCEPT !.book = keeper] ELSE asks[i]]

Merge(m, keeper, loser) ==
  /\ Quiet /\ keeper # loser /\ Sees(m, keeper) /\ Sees(m, loser) /\ m \in {Owner[loser], Admin}
  /\ refs' = [refs EXCEPT ![loser] = None, ![keeper] = Absorbed(keeper, loser)]
  /\ asks' = Repointed(keeper, loser)
  /\ place' = [place EXCEPT ![loser] = keeper]
  /\ UNCHANGED <<req, about, overlap>>

(* Its owner shares it, keeps it private or throws it away; from the trash *)
(* it comes back or is purged.                                             *)
Move(b, to) ==
  /\ Quiet
  /\ \/ place[b] \in {"shared", "private"} /\ to \in {"shared", "private", "trash"} \ {place[b]}
     \/ place[b] = "trash" /\ to \in {"shared", "private", "purged"}
  /\ place' = [place EXCEPT ![b] = to]
  /\ refs' = IF to = "purged" THEN [refs EXCEPT ![b] = None] ELSE refs
  /\ asks' = IF to = "purged" THEN [i \in Ids |-> IF i \in Made /\ asks[i].book = b THEN None ELSE asks[i]]
             ELSE asks
  /\ UNCHANGED <<req, about, overlap>>

Init ==
  /\ place \in [Books -> {"shared", "private"}]
  /\ about \in {"looks", "asks"} /\ overlap \in BOOLEAN /\ (overlap => about = "asks")
  /\ refs = [b \in Books |-> None] /\ asks = [i \in Ids |-> None] /\ req = [p \in Procs |-> Idle]

Next ==
  \/ \E m \in Members, b \in Books :
       \/ \E d \in Digests \cup {None}, sure \in BOOLEAN : Report(m, b, d, sure)
       \/ Miss(m, b) \/ Forget(m, b)
       \/ \E p \in Procs : ReadAsk(p, m, b)
  \/ \E m \in Members, seen \in SUBSET Books, d \in Digests \cup {None} : Sweep(m, seen, d)
  \/ \E p \in Procs, m \in Members, i \in Ids :
       \E granted \in {"granted", "declined"} : ReadDecide(p, m, i, granted)
  \/ \E p \in Procs : CommitAsk(p) \/ CommitDecide(p)
  \/ \E m \in Members, keeper, loser \in Books : Merge(m, keeper, loser)
  \/ \E b \in Books, to \in {"shared", "private", "trash", "purged"} : Move(b, to)

Spec == Init /\ [][Next]_vars

----------------------------------------------------------------------------
(* Properties *)

(* Nothing of a Book outlives it, and nobody asks themselves. *)
TypeOK ==
  /\ \A b \in Held : place[b] \in {"shared", "private", "trash"}
  /\ \A b \in Held : refs[b].digest \in Digests \cup {None}
  /\ \A i \in Made : place[asks[i].book] \in {"shared", "private", "trash"}
  /\ \A i \in Made : asks[i].holder # asks[i].by

(* What a look recorded is never lost: the digest of a file, and that its  *)
(* root was confirmed, stand through other members'                        *)
(* looks and through merges, until the reference is forgotten or its Book  *)
(* purged; only a keeper that has a digest of its own keeps that one.      *)
Keeps(b) == IF place'[b] \in Books THEN place'[b] ELSE b

LooksStand ==
  \A b \in Held :
    LET new == refs'[Keeps(b)]
        old == refs[Keeps(b)] IN
    new # None =>
      /\ refs[b].sure => new.sure
      /\ refs[b].digest # None =>
           new.digest = IF old # None /\ old.digest # None THEN old.digest ELSE refs[b].digest

(* A member has one open or granted request for each Book they asked for,  *)
(* two on one Book only where a merge brought them together, while         *)
(* requests take turns.                                                    *)
AskedOnce ==
  ~ overlap => \A i, j \in Made :
    /\ asks[i].by = asks[j].by /\ asks[i].first = asks[j].first
    /\ asks[i].granted # "declined" /\ asks[j].granted # "declined"
    => i = j

(* A decision is final. *)
DecisionsStand ==
  \A i \in Made : asks[i].granted # "waiting" /\ asks'[i] # None
    => asks'[i].granted = asks[i].granted
=============================================================================
