----------------------------- MODULE MCLending -----------------------------
(* Small instances of Lending: an admin and a member, Books of both.       *)
EXTENDS Lending, TLC

CONSTANTS ada, bo, b1, b2, b3, p1, p2

(* ada's, bo's, and one nobody is recorded as adding. *)
TwoBooks == b1 :> ada @@ b2 :> bo
ThreeBooks == b1 :> ada @@ b2 :> bo @@ b3 :> NoUser

Interchangeable == Permutations(Procs)
=============================================================================
