---------------------------- MODULE MCValueCache ----------------------------
(* Instances of ValueCache for TLC. *)
EXTENDS ValueCache, TLC

CONSTANTS core, gui1, gui2, pa, pb, pc, k1, k2, v1, v2, v3

\* All pages in a single process.
ProcOfOne == [p \in Page |-> core]

\* One page in each of three processes.
ProcOfThree == (pa :> core) @@ (pb :> gui1) @@ (pc :> gui2)

\* The validator of pb rejects v2.
AcceptsSome == [p \in Page |-> [k \in Key |-> IF p = pb THEN Value \ {v2} ELSE Value]]
=============================================================================
