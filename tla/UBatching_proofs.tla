--------------------------- MODULE UBatching_proofs ---------------------------
(***************************************************************************)
(* For every number of micro-batches and of yields: one thread runs at a    *)
(* time, and a thread that resumes finds its hook run.                      *)
(*                                                                         *)
(* The right to run is a token: the thread that runs has it, or the event   *)
(* that will wake a thread is set.  There is at most one, which is what     *)
(* keeps the threads apart; where it is says which hooks are still due.     *)
(***************************************************************************)
EXTENDS UBatching, TLAPS

Token(i) == event[i] \/ pc[i] \in Running

(* At most one token, none before the main thread has given it out and none *)
(* after a hook has raised in __exit__.                                     *)
OneToken ==
  /\ \A i, j \in Ids : Token(i) /\ Token(j) => i = j
  /\ main \in {"barrier", "kick"} => \A i \in Ids : ~Token(i)
  /\ \A i \in Ids : pc[i] = "failed" =>
       main \notin {"barrier", "kick"} /\ \A j \in Ids : ~Token(j)

(* What a thread owns once it has cleared its event and restored its        *)
(* context.                                                                 *)
OwnContext ==
  \A i \in Ids :
    /\ pc[i] \in Running \ {"clear"} => ~event[i]
    /\ pc[i] \in Running \ {"clear", "restore"} => forward_context = i

Registered ==
  \A i \in Ids :
    i \in current_contexts <=>
      pc[i] \notin {"enter", "exit_hook", "exit_signal", "exit_clear", "done", "failed"}

(* A hook that was not yet run is with the next thread, and the token is on *)
(* its way to that thread or there, before the place where it runs hooks,   *)
(* or is lost.                                                              *)
Due(i) ==
  /\ recv_hook[Succ(i)] = i
  /\ \/ pc[i] = "yield" /\ Succ(i) \in current_contexts
     \/ /\ pc[i] = "wait"
        /\ \/ event[Succ(i)] /\ pc[Succ(i)] \in {"barrier", "wait"}
           \/ pc[Succ(i)] \in {"clear", "restore", "resume", "hook", "exit",
                               "exit_hook", "failed"}

HooksDue == \A i \in unfinished : Due(i)

YieldsLeft ==
  \A i \in Ids : pc[i] \in {"hook", "register", "yield"} => yields[i] < Yields

Inv == TypeOK /\ OneToken /\ OwnContext /\ Registered /\ HooksDue /\ YieldsLeft

LEMMA SuccFacts ==
  ASSUME NEW i \in Ids
  PROVE /\ Succ(i) \in Ids
        /\ Succ(i) # i
        /\ \A j \in Ids : Succ(j) = Succ(i) => j = i
  BY UBatchAssumption DEF Ids, Succ

LEMMA NoneNotId == None \notin Ids
  BY UBatchAssumption DEF Ids, None

LEMMA InitInv == Init => Inv
  BY UBatchAssumption DEF Init, Inv, TypeOK, OneToken, Token, OwnContext,
    Registered, HooksDue, YieldsLeft, Pcs, Running, Ids, None

(* Types, and how often a thread may still yield.                           *)
LEMMA ThreadType ==
  ASSUME Inv, NEW i \in Ids, ThreadStep(i) \/ Raise(i) \/ RaiseInExit(i)
  PROVE TypeOK' /\ YieldsLeft'
  <1> USE SuccFacts, NoneNotId, UBatchAssumption
        DEF Inv, TypeOK, Goto, shared, Pcs, Running, YieldsLeft
  <1>1. CASE Enter(i)
    BY <1>1 DEF Enter
  <1>2. CASE PassBarrier(i)
    BY <1>2 DEF PassBarrier
  <1>3. CASE WaitEvent(i)
    BY <1>3 DEF WaitEvent
  <1>4. CASE ClearEvent(i)
    BY <1>4 DEF ClearEvent
  <1>5. CASE _restore_context(i)
    BY <1>5 DEF _restore_context
  <1>6. CASE Resume(i)
    BY <1>6 DEF Resume
  <1>7. CASE dbo_maybe_run_recv_hook(i)
    BY <1>7 DEF dbo_maybe_run_recv_hook, maybe_run_recv_hook
  <1>8. CASE dbo_register_recv_hook(i)
    BY <1>8 DEF dbo_register_recv_hook
  <1>9. CASE _cpu_yield(i)
    BY <1>9 DEF _cpu_yield
  <1>10. CASE ExitContext(i)
    BY <1>10 DEF ExitContext
  <1>11. CASE ExitHook(i)
    BY <1>11 DEF ExitHook, maybe_run_recv_hook
  <1>12. CASE ExitSignal(i)
    BY <1>12 DEF ExitSignal
  <1>13. CASE ExitClear(i)
    BY <1>13 DEF ExitClear
  <1>14. CASE Raise(i)
    BY <1>14 DEF Raise
  <1>15. CASE RaiseInExit(i)
    BY <1>15 DEF RaiseInExit
  <1> QED BY <1>1, <1>2, <1>3, <1>4, <1>5, <1>6, <1>7,
             <1>8, <1>9, <1>10, <1>11, <1>12, <1>13, <1>14, <1>15
          DEF ThreadStep

(* A thread gives the token away when it signals.                           *)
LEMMA ThreadToken ==
  ASSUME Inv, NEW i \in Ids, ThreadStep(i) \/ Raise(i) \/ RaiseInExit(i)
  PROVE OneToken'
  <1> USE SuccFacts
        DEF Inv, TypeOK, Goto, shared, OneToken, OwnContext, Token, Running
  <1>1. CASE Enter(i)
    BY <1>1 DEF Enter
  <1>2. CASE PassBarrier(i)
    BY <1>2 DEF PassBarrier
  <1>3. CASE WaitEvent(i)
    BY <1>3 DEF WaitEvent
  <1>4. CASE ClearEvent(i)
    BY <1>4 DEF ClearEvent
  <1>5. CASE _restore_context(i)
    BY <1>5 DEF _restore_context
  <1>6. CASE Resume(i)
    BY <1>6 DEF Resume
  <1>7. CASE dbo_maybe_run_recv_hook(i)
    BY <1>7 DEF dbo_maybe_run_recv_hook, maybe_run_recv_hook
  <1>8. CASE dbo_register_recv_hook(i)
    BY <1>8 DEF dbo_register_recv_hook
  <1>9. CASE _cpu_yield(i)
    BY <1>9 DEF _cpu_yield
  <1>10. CASE ExitContext(i)
    BY <1>10 DEF ExitContext
  <1>11. CASE ExitHook(i)
    BY <1>11 DEF ExitHook, maybe_run_recv_hook
  <1>12. CASE ExitSignal(i)
    BY <1>12 DEF ExitSignal
  <1>13. CASE ExitClear(i)
    BY <1>13 DEF ExitClear
  <1>14. CASE Raise(i)
    BY <1>14 DEF Raise
  <1>15. CASE RaiseInExit(i)
    BY <1>15 DEF RaiseInExit
  <1> QED BY <1>1, <1>2, <1>3, <1>4, <1>5, <1>6, <1>7,
             <1>8, <1>9, <1>10, <1>11, <1>12, <1>13, <1>14, <1>15
          DEF ThreadStep

(* Nobody else runs or signals a thread that runs.                          *)
LEMMA ThreadContext ==
  ASSUME Inv, NEW i \in Ids, ThreadStep(i) \/ Raise(i) \/ RaiseInExit(i)
  PROVE OwnContext'
  <1> USE SuccFacts
        DEF Inv, TypeOK, Goto, shared, OneToken, OwnContext, Token, Running
  <1>1. CASE Enter(i)
    BY <1>1 DEF Enter
  <1>2. CASE PassBarrier(i)
    BY <1>2 DEF PassBarrier
  <1>3. CASE WaitEvent(i)
    BY <1>3 DEF WaitEvent
  <1>4. CASE ClearEvent(i)
    BY <1>4 DEF ClearEvent
  <1>5. CASE _restore_context(i)
    BY <1>5 DEF _restore_context
  <1>6. CASE Resume(i)
    BY <1>6 DEF Resume
  <1>7. CASE dbo_maybe_run_recv_hook(i)
    BY <1>7 DEF dbo_maybe_run_recv_hook, maybe_run_recv_hook
  <1>8. CASE dbo_register_recv_hook(i)
    BY <1>8 DEF dbo_register_recv_hook
  <1>9. CASE _cpu_yield(i)
    BY <1>9 DEF _cpu_yield
  <1>10. CASE ExitContext(i)
    BY <1>10 DEF ExitContext
  <1>11. CASE ExitHook(i)
    BY <1>11 DEF ExitHook, maybe_run_recv_hook
  <1>12. CASE ExitSignal(i)
    BY <1>12 DEF ExitSignal
  <1>13. CASE ExitClear(i)
    BY <1>13 DEF ExitClear
  <1>14. CASE Raise(i)
    BY <1>14 DEF Raise
  <1>15. CASE RaiseInExit(i)
    BY <1>15 DEF RaiseInExit
  <1> QED BY <1>1, <1>2, <1>3, <1>4, <1>5, <1>6, <1>7,
             <1>8, <1>9, <1>10, <1>11, <1>12, <1>13, <1>14, <1>15
          DEF ThreadStep

(* A context is registered from __enter__ to __exit__.                      *)
LEMMA ThreadRegistered ==
  ASSUME Inv, NEW i \in Ids, ThreadStep(i) \/ Raise(i) \/ RaiseInExit(i)
  PROVE Registered'
  <1> USE NoneNotId DEF Inv, TypeOK, Goto, shared, Registered
  <1>1. CASE Enter(i)
    BY <1>1 DEF Enter
  <1>2. CASE PassBarrier(i)
    BY <1>2 DEF PassBarrier
  <1>3. CASE WaitEvent(i)
    BY <1>3 DEF WaitEvent
  <1>4. CASE ClearEvent(i)
    BY <1>4 DEF ClearEvent
  <1>5. CASE _restore_context(i)
    BY <1>5 DEF _restore_context
  <1>6. CASE Resume(i)
    BY <1>6 DEF Resume
  <1>7. CASE dbo_maybe_run_recv_hook(i)
    BY <1>7 DEF dbo_maybe_run_recv_hook, maybe_run_recv_hook
  <1>8. CASE dbo_register_recv_hook(i)
    BY <1>8 DEF dbo_register_recv_hook
  <1>9. CASE _cpu_yield(i)
    BY <1>9 DEF _cpu_yield
  <1>10. CASE ExitContext(i)
    BY <1>10 DEF ExitContext
  <1>11. CASE ExitHook(i)
    BY <1>11 DEF ExitHook, maybe_run_recv_hook
  <1>12. CASE ExitSignal(i)
    BY <1>12 DEF ExitSignal
  <1>13. CASE ExitClear(i)
    BY <1>13 DEF ExitClear
  <1>14. CASE Raise(i)
    BY <1>14 DEF Raise
  <1>15. CASE RaiseInExit(i)
    BY <1>15 DEF RaiseInExit
  <1> QED BY <1>1, <1>2, <1>3, <1>4, <1>5, <1>6, <1>7,
             <1>8, <1>9, <1>10, <1>11, <1>12, <1>13, <1>14, <1>15
          DEF ThreadStep

(* A hook is run by the next thread before the token moves on.              *)
LEMMA ThreadHooks ==
  ASSUME Inv, NEW i \in Ids, ThreadStep(i) \/ Raise(i) \/ RaiseInExit(i)
  PROVE HooksDue'
  <1> USE SuccFacts, NoneNotId DEF Inv, TypeOK, Goto, shared, OneToken, Token,
        Registered, HooksDue, Due, Running, Pcs
  <1>1. CASE Enter(i)
    BY <1>1 DEF Enter
  <1>2. CASE PassBarrier(i)
    BY <1>2 DEF PassBarrier
  <1>3. CASE WaitEvent(i)
    BY <1>3 DEF WaitEvent
  <1>4. CASE ClearEvent(i)
    BY <1>4 DEF ClearEvent
  <1>5. CASE _restore_context(i)
    BY <1>5 DEF _restore_context
  <1>6. CASE Resume(i)
    BY <1>6 DEF Resume
  <1>7. CASE dbo_maybe_run_recv_hook(i)
    BY <1>7 DEF dbo_maybe_run_recv_hook, maybe_run_recv_hook
  <1>8. CASE dbo_register_recv_hook(i)
    BY <1>8 DEF dbo_register_recv_hook
  <1>9. CASE _cpu_yield(i)
    BY <1>9 DEF _cpu_yield
  <1>10. CASE ExitContext(i)
    BY <1>10 DEF ExitContext
  <1>11. CASE ExitHook(i)
    BY <1>11 DEF ExitHook, maybe_run_recv_hook
  <1>12. CASE ExitSignal(i)
    BY <1>12 DEF ExitSignal
  <1>13. CASE ExitClear(i)
    BY <1>13 DEF ExitClear
  <1>14. CASE Raise(i)
    BY <1>14 DEF Raise
  <1>15. CASE RaiseInExit(i)
    BY <1>15 DEF RaiseInExit
  <1> QED BY <1>1, <1>2, <1>3, <1>4, <1>5, <1>6, <1>7,
             <1>8, <1>9, <1>10, <1>11, <1>12, <1>13, <1>14, <1>15
          DEF ThreadStep

(* The main thread gives out the token when nobody has it.                  *)
LEMMA MainInv ==
  ASSUME Inv, MainStep
  PROVE Inv'
  <1> USE SuccFacts DEF Inv, TypeOK, OneToken, Token, OwnContext, Registered,
        HooksDue, Due, YieldsLeft, Running, shared
  <1>1. CASE MainPassBarrier BY <1>1 DEF MainPassBarrier
  <1>2. CASE MainKick
    <2>1. 0 \in Ids BY UBatchAssumption DEF Ids
    <2>2. TypeOK' /\ OneToken' /\ OwnContext' /\ Registered' /\ YieldsLeft'
      BY <1>2, <2>1 DEF MainKick
    <2>3. HooksDue'
      BY <1>2, <2>1 DEF MainKick
    <2> QED BY <2>2, <2>3
  <1>3. CASE MainJoin BY <1>3 DEF MainJoin
  <1> QED BY <1>1, <1>2, <1>3 DEF MainStep

LEMMA StutterInv ==
  ASSUME Inv, UNCHANGED vars
  PROVE Inv'
  BY DEF Inv, TypeOK, OneToken, Token, OwnContext, Registered, HooksDue, Due,
    YieldsLeft, vars, shared

LEMMA InductiveInv == Spec => []Inv
  <1>1. Inv /\ [Next]_vars => Inv'
    <2> SUFFICES ASSUME Inv, [Next]_vars PROVE Inv'
      OBVIOUS
    <2>1. ASSUME NEW i \in Ids, ThreadStep(i) \/ Raise(i) \/ RaiseInExit(i) PROVE Inv'
      BY <2>1, ThreadType, ThreadToken, ThreadContext, ThreadRegistered,
         ThreadHooks DEF Inv
    <2> QED BY <2>1, MainInv, StutterInv DEF Next
  <1> QED BY InitInv, <1>1, PTL DEF Spec

(* Type correctness for every number of micro-batches and of yields.        *)
THEOREM TypeCorrect == Spec => []TypeOK
  <1>1. Inv => TypeOK BY DEF Inv
  <1> QED BY InductiveInv, <1>1, PTL

(* Only one thread runs at a time, with its own forward context and its     *)
(* event clear: the assertions of _cpu_yield, whoever raises.               *)
THEOREM OneRunner == Spec => []YieldAlone
  <1>1. Inv => YieldAlone
    BY DEF Inv, OneToken, Token, OwnContext, YieldAlone, Running
  <1> QED BY InductiveInv, <1>1, PTL

(* A thread that resumes after a yield finds the hook that it left with the *)
(* next thread run.                                                         *)
THEOREM HooksRun == Spec => []HookRun
  <1>1. Inv => HookRun
    BY DEF Inv, HooksDue, Due, HookRun
  <1> QED BY InductiveInv, <1>1, PTL
===============================================================================
