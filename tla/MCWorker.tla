------------------------------ MODULE MCWorker ------------------------------
(* The instances of Worker for TLC. *)
EXTENDS Worker

CONSTANTS f1, f2   \* functors
=============================================================================
