----------------------------- MODULE MCAirspace ------------------------------
(***************************************************************************)
(* Instances of Airspace for TLC.  Times keep the order of the code's      *)
(* 2, 6, 20 and 24 seconds.                                                *)
(***************************************************************************)
EXTENDS Airspace

CONSTANTS c1

MCCallsign == {c1}

=============================================================================
