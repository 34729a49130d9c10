------------------------------- MODULE UBatching -------------------------------
(***************************************************************************)
(* Dual-batch overlap: the micro-batches of one forward pass run in threads *)
(* that hand the processor to each other in a ring with events, one running *)
(* while the communication of the others is under way.  Before it yields, a *)
(* thread leaves the hook that completes its own communication with the     *)
(* next thread (FusedMoEKernel), which runs it.                             *)
(*                                                                         *)
(* One action is one access to state the threads share.  Every thread runs  *)
(* the same model and so yields the same number of times, unless it raises. *)
(***************************************************************************)
EXTENDS Integers

CONSTANTS
  N,                       \* num_micro_batches
  Yields                   \* how often the model yields

ASSUME UBatchAssumption ==
  /\ N \in Nat \ {0, 1}
  /\ Yields \in Nat

Ids == 0 .. N - 1
None == N

(* The context whose event i signals: (i + 1) % num_micro_batches.          *)
Succ(i) == IF i = N - 1 THEN 0 ELSE i + 1

VARIABLES
  pc,
  main,                    \* _run_ubatches: "barrier", "kick", "join", "done"
  arrived,                 \* threads at ready_barrier
  event,                   \* cpu_wait_event of each context
  forward_context,         \* the global: whose context is installed
  current_contexts,        \* the ids present in _CURRENT_CONTEXTS
  recv_hook,               \* per context, the thread whose hook is registered
  unfinished,              \* history: threads whose last hook was not yet run
  yields                   \* how often each thread has yielded

shared == <<event, forward_context, current_contexts, recv_hook, unfinished>>
vars == <<pc, main, arrived, shared, yields>>

(* Between the wake-up of a thread and its signal to the next one.          *)
Running == {"clear", "restore", "resume", "hook", "register", "yield", "exit",
            "exit_hook", "exit_signal"}
Pcs == Running \union {"enter", "barrier", "wait", "exit_clear", "done", "failed"}

(* Types: hooks and contexts belong to threads of this pass, and no thread  *)
(* yields more often than the model does (UBatchContext).                   *)
TypeOK ==
  /\ pc \in [Ids -> Pcs]
  /\ main \in {"barrier", "kick", "join", "done"}
  /\ arrived \in SUBSET Ids
  /\ event \in [Ids -> BOOLEAN]
  /\ forward_context \in Ids \union {None}
  /\ current_contexts \in SUBSET Ids
  /\ recv_hook \in [Ids -> Ids \union {None}]
  /\ unfinished \in SUBSET Ids
  /\ yields \in [Ids -> 0 .. Yields]

Init ==
  /\ pc = [i \in Ids |-> "enter"]
  /\ main = "barrier"
  /\ arrived = {}
  /\ event = [i \in Ids |-> FALSE]
  /\ forward_context = None
  /\ current_contexts = {}
  /\ recv_hook = [i \in Ids |-> None]
  /\ unfinished = {}
  /\ yields = [i \in Ids |-> 0]

Goto(i, label) == pc' = [pc EXCEPT ![i] = label]

-----------------------------------------------------------------------------
(* __enter__                                                                *)

Enter(i) ==
  /\ pc[i] = "enter"
  /\ current_contexts' = current_contexts \union {i}
  /\ arrived' = arrived \union {i}
  /\ Goto(i, "barrier")
  /\ UNCHANGED <<main, event, forward_context, recv_hook, unfinished, yields>>

BarrierOpen == arrived = Ids

PassBarrier(i) ==
  /\ pc[i] = "barrier"
  /\ BarrierOpen
  /\ Goto(i, "wait")
  /\ UNCHANGED <<main, arrived, shared, yields>>

(* cpu_wait_event.wait, of __enter__ and of _cpu_yield                      *)
WaitEvent(i) ==
  /\ pc[i] = "wait"
  /\ event[i]
  /\ Goto(i, "clear")
  /\ UNCHANGED <<main, arrived, shared, yields>>

(* Mutant of ClearEvent: the event stays set.                               *)
ClearEvent_not(i) ==
  /\ pc[i] = "clear"
  /\ Goto(i, "restore")
  /\ UNCHANGED <<main, arrived, shared, yields>>

ClearEvent(i) ==
  /\ pc[i] = "clear"
  /\ event' = [event EXCEPT ![i] = FALSE]
  /\ Goto(i, "restore")
  /\ UNCHANGED <<main, arrived, forward_context, current_contexts, recv_hook,
                 unfinished, yields>>

_restore_context(i) ==
  /\ pc[i] = "restore"
  /\ forward_context' = i
  /\ Goto(i, "resume")
  /\ UNCHANGED <<main, arrived, event, current_contexts, recv_hook, unfinished,
                 yields>>

-----------------------------------------------------------------------------
(* The model                                                                *)

(* The receiver of the last communication; then on to the next one, or to   *)
(* the end of the model.                                                    *)
Resume(i) ==
  /\ pc[i] = "resume"
  /\ Goto(i, IF yields[i] = Yields THEN "exit" ELSE "hook")
  /\ UNCHANGED <<main, arrived, shared, yields>>

(* Any statement of the model may raise, which leads to __exit__.           *)
Raise(i) ==
  /\ pc[i] \in {"resume", "hook"}
  /\ Goto(i, "exit")
  /\ UNCHANGED <<main, arrived, shared, yields>>

(* Mutant of maybe_run_recv_hook: the hook is dropped.                      *)
maybe_run_recv_hook_drop(i) ==
  /\ recv_hook' = [recv_hook EXCEPT ![i] = None]
  /\ UNCHANGED unfinished

maybe_run_recv_hook(i) ==
  /\ unfinished' = unfinished \ {recv_hook[i]}
  /\ recv_hook' = [recv_hook EXCEPT ![i] = None]

dbo_maybe_run_recv_hook(i) ==
  /\ pc[i] = "hook"
  /\ maybe_run_recv_hook(i)
  /\ Goto(i, "register")
  /\ UNCHANGED <<main, arrived, event, forward_context, current_contexts, yields>>

(* The next context is gone once its thread has left: AttributeError.       *)
dbo_register_recv_hook(i) ==
  /\ pc[i] = "register"
  /\ IF Succ(i) \in current_contexts
     THEN /\ recv_hook' = [recv_hook EXCEPT ![Succ(i)] = i]
          /\ unfinished' = unfinished \union {i}
          /\ Goto(i, "yield")
     ELSE /\ Goto(i, "exit")
          /\ UNCHANGED <<recv_hook, unfinished>>
  /\ UNCHANGED <<main, arrived, event, forward_context, current_contexts, yields>>

(* The signal of _cpu_yield.  (YieldAlone says its assertions hold.)        *)
_cpu_yield(i) ==
  /\ pc[i] = "yield"
  /\ event' = [event EXCEPT ![Succ(i)] = TRUE]
  /\ yields' = [yields EXCEPT ![i] = @ + 1]
  /\ Goto(i, "wait")
  /\ UNCHANGED <<main, arrived, forward_context, current_contexts, recv_hook,
                 unfinished>>

-----------------------------------------------------------------------------
(* __exit__                                                                 *)

ExitContext(i) ==
  /\ pc[i] = "exit"
  /\ current_contexts' = current_contexts \ {i}
  /\ Goto(i, "exit_hook")
  /\ UNCHANGED <<main, arrived, event, forward_context, recv_hook, unfinished,
                 yields>>

ExitHook(i) ==
  /\ pc[i] = "exit_hook"
  /\ maybe_run_recv_hook(i)
  /\ Goto(i, "exit_signal")
  /\ UNCHANGED <<main, arrived, event, forward_context, current_contexts, yields>>

(* The hook raises here: the thread ends without a signal to the next one.  *)
RaiseInExit(i) ==
  /\ pc[i] = "exit_hook"
  /\ recv_hook[i] # None
  /\ Goto(i, "failed")
  /\ UNCHANGED <<main, arrived, shared, yields>>

(* Mutant of ExitSignal: the next thread is not woken.                      *)
ExitSignal_none(i) ==
  /\ pc[i] = "exit_signal"
  /\ Goto(i, "exit_clear")
  /\ UNCHANGED <<main, arrived, shared, yields>>

ExitSignal(i) ==
  /\ pc[i] = "exit_signal"
  /\ event' = [event EXCEPT ![Succ(i)] = TRUE]
  /\ Goto(i, "exit_clear")
  /\ UNCHANGED <<main, arrived, forward_context, current_contexts, recv_hook,
                 unfinished, yields>>

ExitClear(i) ==
  /\ pc[i] = "exit_clear"
  /\ event' = [event EXCEPT ![i] = FALSE]
  /\ Goto(i, "done")
  /\ UNCHANGED <<main, arrived, forward_context, current_contexts, recv_hook,
                 unfinished, yields>>

-----------------------------------------------------------------------------
(* _run_ubatches: wait at the barrier, wake thread 0, join.                 *)

MainPassBarrier ==
  /\ main = "barrier"
  /\ BarrierOpen
  /\ main' = "kick"
  /\ UNCHANGED <<pc, arrived, shared, yields>>

MainKick ==
  /\ main = "kick"
  /\ event' = [event EXCEPT ![0] = TRUE]
  /\ main' = "join"
  /\ UNCHANGED <<pc, arrived, forward_context, current_contexts, recv_hook,
                 unfinished, yields>>

MainJoin ==
  /\ main = "join"
  /\ \A i \in Ids : pc[i] \in {"done", "failed"}
  /\ main' = "done"
  /\ forward_context' = None
  /\ UNCHANGED <<pc, arrived, event, current_contexts, recv_hook, unfinished, yields>>

-----------------------------------------------------------------------------
ThreadStep(i) ==
  \/ Enter(i) \/ PassBarrier(i) \/ WaitEvent(i) \/ ClearEvent(i)
  \/ _restore_context(i) \/ Resume(i)
  \/ dbo_maybe_run_recv_hook(i) \/ dbo_register_recv_hook(i) \/ _cpu_yield(i)
  \/ ExitContext(i) \/ ExitHook(i) \/ ExitSignal(i) \/ ExitClear(i)

MainStep == MainPassBarrier \/ MainKick \/ MainJoin

Next == MainStep \/ \E i \in Ids : ThreadStep(i) \/ Raise(i) \/ RaiseInExit(i)

Spec == Init /\ [][Next]_vars

(* Threads and the main thread are scheduled by the operating system.       *)
FairSpec ==
  /\ Spec
  /\ WF_vars(MainStep)
  /\ \A i \in Ids : WF_vars(ThreadStep(i))

-----------------------------------------------------------------------------
(* Properties                                                               *)

(* "It is critical for correctness that only one thread is running at a     *)
(* time" (_cpu_yield): no two threads are between their wake-up and their   *)
(* signal, the one that runs the model has its own forward context, and its *)
(* event is not already set when it yields, whoever raised before.          *)
YieldAlone ==
  \A i \in Ids :
    /\ pc[i] \in Running => \A j \in Ids \ {i} : pc[j] \notin Running
    /\ pc[i] \in Running \ {"clear", "restore"} =>
         forward_context = i /\ ~event[i]

(* A thread that resumes after a yield finds its communication completed:   *)
(* the hook that it left with the next thread was run, although that thread *)
(* may have left early (maybe_run_recv_hook in __exit__).                   *)
HookRun == \A i \in Ids : pc[i] = "resume" => i \notin unfinished

(* Every thread leaves and _run_ubatches returns, also when a thread raises *)
(* in the middle of the model; only a hook that raises in __exit__, before  *)
(* the signal, may leave the next thread waiting.                           *)
AllFinish == <>(main = "done" \/ \E i \in Ids : pc[i] = "failed")
================================================================================
