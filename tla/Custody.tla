------------------------------ MODULE Custody ------------------------------
(***************************************************************************)
(* What lending promises of each Book, without requests, rows or the       *)
(* trash: the Book is in, or out on one loan, and no loan has two Books    *)
(* out.  A Book changes hands only by coming back first, or by a merge,    *)
(* where the Book that is kept may take over the loan of one it absorbs.   *)
(***************************************************************************)
CONSTANTS Books, Loans, In

VARIABLE out      \* [Books -> the loan the Book is out on, In if it is not]

Lend(b, l) ==
  /\ out[b] = In
  /\ \A c \in Books : out[c] # l
  /\ out' = [out EXCEPT ![b] = l]

ComeBack(B) == out' = [b \in Books |-> IF b \in B THEN In ELSE out[b]]

FoldInto(keep, absorbed) ==
  /\ keep \notin absorbed
  /\ \E l \in {In, out[keep]} \cup {out[b] : b \in absorbed} :
       out' = [b \in Books |-> IF b = keep THEN l
                               ELSE IF b \in absorbed THEN In ELSE out[b]]

Init == out = [b \in Books |-> In]

Next ==
  \/ \E b \in Books, l \in Loans : Lend(b, l)
  \/ \E B \in SUBSET Books : ComeBack(B)
  \/ \E keep \in Books, absorbed \in SUBSET Books : FoldInto(keep, absorbed)

Spec == Init /\ [][Next]_out

(* Out on a loan, and on one no other Book is out on. *)
OneBookPerLoan ==
  /\ out \in [Books -> Loans \cup {In}]
  /\ \A b, c \in Books : out[b] = out[c] /\ out[b] # In => b = c
=============================================================================
