-------------------------- MODULE MCFsdConnection ---------------------------
(***************************************************************************)
(* Instances of FsdConnection for TLC.  The timeout of 7.5 s and the check *)
(* after 9.375 s keep their ratio: four and five ticks.                    *)
(***************************************************************************)
EXTENDS FsdConnection

MCTimeout == 4
MCCheckAfter == 5

=============================================================================
