---------------------------- MODULE MCShmBroadcast ----------------------------
(***************************************************************************)
(* The TLC instance of ShmBroadcast: two readers, one of which passes a   *)
(* timeout.                                                                 *)
(***************************************************************************)
EXTENDS ShmBroadcast

MCTimed == {1}
===============================================================================
