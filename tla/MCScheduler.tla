---------------------------- MODULE MCScheduler ----------------------------
(* Small instances of the scheduler.  "a" and "b" are ordinary requests,    *)
(* "g" needs a grammar; Rank makes "b" the most urgent of them.             *)
EXTENDS Scheduler

MCPrompt == [r \in Requests |-> IF r = "b" THEN 2 ELSE 1]
MCMaxTokens == [r \in Requests |-> IF r = "b" THEN 2 ELSE 3]
MCRank == [r \in Requests |-> CASE r = "a" -> 2 [] r = "b" -> 1 [] OTHER -> 3]
=============================================================================
