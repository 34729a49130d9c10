-------------------------- MODULE MCMultiprocExecutor --------------------------
(***************************************************************************)
(* The TLC instance of MultiprocExecutor: two workers, rings of one chunk,  *)
(* and calls of every kind that fail, time out, hang or are left in flight. *)
(***************************************************************************)
EXTENDS MultiprocExecutor

MCNWorkers == 2

MCMethods ==
  { [kind |-> "step", output_rank |-> OutputRank, timed |-> TRUE, non_block |-> TRUE],
    [kind |-> "step", output_rank |-> All, timed |-> TRUE, non_block |-> TRUE],
    [kind |-> "step", output_rank |-> OutputRank, timed |-> FALSE, non_block |-> FALSE],
    [kind |-> "utility", output_rank |-> All, timed |-> FALSE, non_block |-> FALSE] }
================================================================================
