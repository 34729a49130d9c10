------------------------------ MODULE MCUBatching ------------------------------
(***************************************************************************)
(* The TLC instance of UBatching: the two micro-batches of the default,     *)
(* each of which yields three times.                                        *)
(***************************************************************************)
EXTENDS UBatching

MCN == 2
================================================================================
