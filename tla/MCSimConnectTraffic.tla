------------------------- MODULE MCSimConnectTraffic -------------------------
(* Instance of SimConnectTraffic for TLC. *)
EXTENDS SimConnectTraffic, TLC

CONSTANTS a, b, m1, m2

\* Aircraft a is added and then removed or changed while b is only added.
Asks == (a :> 2) @@ (b :> 1)
Matched == (a :> {m1, m2}) @@ (b :> {m1})
=============================================================================
