------------------------------ MODULE MCDPWave ------------------------------
(***************************************************************************)
(* The TLC instances of DPWave: one client, two engines, two requests, one  *)
(* of which may be aborted, and one pause.                                  *)
(***************************************************************************)
EXTENDS DPWave

CONSTANT c1

MCClients == {c1}
MCEarlyAbort == {"early_abort"}
=============================================================================
