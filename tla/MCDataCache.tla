---------------------------- MODULE MCDataCache -----------------------------
(* The instances of DataCache for TLC. *)
EXTENDS DataCache

CONSTANTS a, b, c, k1, k2, k3, v1, v2, v3   \* processes, keys and values

\* Every process has a CData member for every key.
KnowsAll == [p \in Proc |-> Key]

\* Process a has members for all keys, the others for k2 only.
KnowsSome == [p \in Proc |-> IF p = a THEN Key ELSE {k2} \cap Key]

\* Each key is set by one process.
WritesOwn == [p \in Proc |-> CASE p = a -> {k1} [] p = b -> {k2, k3} \cap Key [] OTHER -> {}]

\* One process sets all keys, the others load them.
WritesA == [p \in Proc |-> IF p = a THEN Key ELSE {}]

-----------------------------------------------------------------------------
(* What one might expect of the code but it does not promise; README, section 5. *)

\* A value in memory is not replaced by an older one while the process runs.
MemoryForward ==
    [][\A p \in running \cap running', k \in Key : mem[p][k].ts <= mem'[p][k].ts]_vars

\* A key that the revision lists stays listed.
RevisionKeepsKeys == [][\A k \in Key : rev.ts[k] > 0 => rev'.ts[k] > 0]_vars

\* A process that starts has the pinned values that are on file.
PinnedLoaded ==
    [][\A p \in running' \ running, k \in Pinned :
          file[k] # NoValue => mem'[p][k].val = file[k]]_vars
=============================================================================
