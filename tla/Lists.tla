------------------------------- MODULE Lists -------------------------------
(***************************************************************************)
(* Selecting entries of a list: CSequence::findBy() and removeIf().  The   *)
(* selection is a recursive function over the positions of the list, which *)
(* is what SelectSeq computes, in a form that proofs can expand.           *)
(***************************************************************************)
EXTENDS Integers, Sequences

\* The entries of the list l that are in the set f, in the order of l.
Matching(l, f) ==
    LET kept[i \in 0 .. Len(l)] ==
            IF i = 0 THEN <<>>
            ELSE IF l[i] \in f THEN Append(kept[i - 1], l[i])
            ELSE kept[i - 1]
    IN  kept[Len(l)]
=============================================================================
