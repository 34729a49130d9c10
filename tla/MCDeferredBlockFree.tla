------------------------ MODULE MCDeferredBlockFree ------------------------
(***************************************************************************)
(* The TLC instance of DeferredBlockFree: two requests that compete for two *)
(* blocks, two steps in flight.                                             *)
(***************************************************************************)
EXTENDS DeferredBlockFree

CONSTANTS r1, r2, b1, b2

MCRequests == {r1, r2}
MCBlocks == {b1, b2}
==============================================================================
