---------------------------- MODULE BroadcastQueue ----------------------------
(***************************************************************************)
(* What MessageQueue promises its users: one writer broadcasts messages     *)
(* 1, 2, 3, ... and every reader receives all of them, once and in order;   *)
(* a reader is never more than Capacity messages and the one in its hands   *)
(* behind.  A reader whose call timed out halfway is broken: nothing is     *)
(* promised about what it receives from then on.                            *)
(***************************************************************************)
EXTENDS Naturals

CONSTANTS Readers, Capacity

VARIABLES sent, last, broken

vars == <<sent, last, broken>>

Init ==
  /\ sent = 0
  /\ last = [r \in Readers |-> 0]
  /\ broken = {}

Send ==
  /\ \A r \in Readers \ broken : sent <= last[r] + Capacity
  /\ sent' = sent + 1
  /\ UNCHANGED <<last, broken>>

Receive(r) ==
  /\ r \notin broken
  /\ last[r] < sent
  /\ last' = [last EXCEPT ![r] = @ + 1]
  /\ UNCHANGED <<sent, broken>>

ReceiveBroken(r) ==
  /\ r \in broken
  /\ \E k \in 1 .. sent : last' = [last EXCEPT ![r] = k]
  /\ UNCHANGED <<sent, broken>>

Break(r) ==
  /\ broken' = broken \union {r}
  /\ UNCHANGED <<sent, last>>

Next ==
  \/ Send
  \/ \E r \in Readers : Receive(r) \/ ReceiveBroken(r) \/ Break(r)

Spec == Init /\ [][Next]_vars
===============================================================================
