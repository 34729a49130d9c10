-------------------------------- MODULE DPWave --------------------------------
(***************************************************************************)
(* Data-parallel waves.  The engines of a mixture-of-experts model run      *)
(* every forward pass together: while one of them has a request all must    *)
(* step, and they may stop only together.  DPCoordinatorProc wakes them     *)
(* (START_DP_WAVE) when a client sends a request while they are idle; every *)
(* SyncInterval steps an all-reduce decides whether to go on, and also      *)
(* whether all of them have been told to pause.  A wave is the time between *)
(* two stops; the wave number that travels with a request or a notice tells *)
(* whether it is stale.                                                     *)
(*                                                                         *)
(* What requests compute is left out.  Sockets deliver in order per         *)
(* connection and in any order between connections.  Pauses keep the        *)
(* requests (mode "keep").                                                  *)
(***************************************************************************)
EXTENDS Naturals, Sequences, FiniteSets

CONSTANTS
  Clients,                 \* API server processes (DPAsyncMPClient)
  NEngines,                \* data_parallel_size
  SyncInterval,            \* steps between two all-reduces (32)
  MaxStep,                 \* bound: where step_counter goes back (0: never)
  MaxRequests,             \* bound on the requests of a client
  MaxAborts,               \* bound: a client aborts none but its first requests
  MaxPauses,               \* bound on the pauses of the engines
  Stress                   \* the adverse timings that may happen

(* "early_abort": a client aborts a request that its engine does not run    *)
(* yet or no longer; "late_notice": a client's stats task is held up for a  *)
(* whole wave; "busy_pause": requests are on their way while the engines    *)
(* are told to pause or to resume.                                          *)
Timings == {"early_abort", "late_notice", "busy_pause"}

ASSUME DPAssumption ==
  /\ Clients # {}
  /\ NEngines \in Nat \ {0}
  /\ SyncInterval \in Nat \ {0}
  /\ MaxStep \in Nat /\ (MaxStep = 0 \/ MaxStep >= SyncInterval)
  /\ MaxRequests \in Nat
  /\ MaxAborts \in Nat
  /\ MaxPauses \in Nat
  /\ Stress \subseteq Timings

Engines == 0 .. NEngines - 1
None == NEngines                     \* no engine is excluded from a wake-up
Requests == Clients \X (1 .. MaxRequests)
Admin == CHOOSE c \in Clients : TRUE \* the client that pauses and resumes

(* What travels on the sockets.                                             *)
Message == [type : {"ADD"}, req : Requests, wave : Nat]
             \union [type : {"ABORT"}, req : Requests]
             \union [type : {"PAUSE", "RESUME"}]
Notice == [wave : Nat, exclude : Engines \union {None}]
Report == [type : {"wave_complete", "start_wave"}, wave : Nat]
State == [wave : Nat, running : BOOLEAN]

(* The states of a pause or resume call on an engine.                       *)
Calls == {"none", "pausing", "callback", "paused", "resuming", "refused"}

VARIABLES
  cl_wave, cl_running,     \* client: current_wave, engines_running
  first_req,               \* client: FIRST_REQ notices for the stats task
  co_wave, co_running,     \* coordinator: current_wave, engines_running
  pc, wave, running,       \* engine: control, current_wave, engines_running
  step, reqs,              \* engine: step_counter, requests in the scheduler
  paused,                  \* engine: the scheduler's pause_state
  pending_pause, ignore_start_dp_wave,
  call, pauses,            \* the pause or resume call on each engine; pauses so far
  input,                   \* client to engine: ADD, ABORT, PAUSE, RESUME
  front,                   \* client to coordinator: a first request
  start,                   \* coordinator to engine: START_DP_WAVE
  output,                  \* engine to coordinator: wave_complete, start_wave
  stats,                   \* coordinator to client: wave and running
  sent                     \* the requests sent

client == <<cl_wave, cl_running, first_req>>
coordinator == <<co_wave, co_running>>
pausing == <<paused, pending_pause, ignore_start_dp_wave>>
engine == <<pc, wave, running, step, reqs, pausing>>
calls == <<call, pauses>>
sockets == <<input, front, start, output, stats>>
vars == <<client, coordinator, engine, calls, sockets, sent>>

Init ==
  /\ cl_wave = [c \in Clients |-> 0]
  /\ cl_running = [c \in Clients |-> FALSE]
  /\ first_req = [c \in Clients |-> <<>>]
  /\ co_wave = 0 /\ co_running = FALSE
  /\ pc = [e \in Engines |-> "input"]
  /\ wave = [e \in Engines |-> 0]
  /\ running = [e \in Engines |-> FALSE]
  /\ step = [e \in Engines |-> 0]
  /\ reqs = [e \in Engines |-> {}]
  /\ paused = [e \in Engines |-> FALSE]
  /\ pending_pause = [e \in Engines |-> FALSE]
  /\ ignore_start_dp_wave = [e \in Engines |-> FALSE]
  /\ call = [e \in Engines |-> "none"] /\ pauses = 0
  /\ input = [c \in Clients |-> [e \in Engines |-> <<>>]]
  /\ front = [c \in Clients |-> <<>>]
  /\ start = [e \in Engines |-> <<>>]
  /\ output = [e \in Engines |-> <<>>]
  /\ stats = [c \in Clients |-> <<>>]
  /\ sent = {}

(* No request and no notice about waves is on its way.                      *)
Settled ==
  /\ \A c \in Clients : /\ front[c] = <<>> /\ first_req[c] = <<>>
                        /\ \A e \in Engines : input[c][e] = <<>>
  /\ \A e \in Engines : start[e] = <<>> /\ output[e] = <<>>

(* has_unfinished_requests: a paused scheduler has none.                    *)
unfinished(e) == IF paused[e] THEN {} ELSE reqs[e]

has_work(e) == running[e] \/ unfinished(e) # {}

-----------------------------------------------------------------------------
(* Client                                                                   *)

(* add_request_async.  The load balancer may choose any engine.             *)
AddRequest(c, r, e) ==
  /\ r \notin sent /\ r[1] = c
  /\ \/ "busy_pause" \in Stress
     \/ \A f \in Engines : call[f] = "none"
     \/ \A f \in Engines : call[f] \in {"callback", "paused"}
  /\ sent' = sent \union {r}
  /\ input' = [input EXCEPT ![c][e] =
                 Append(@, [type |-> "ADD", req |-> r, wave |-> cl_wave[c]])]
  /\ first_req' = IF cl_running[c] THEN first_req
                  ELSE [first_req EXCEPT ![c] = Append(@, e)]
  /\ UNCHANGED <<cl_wave, cl_running, coordinator, engine, calls, front, start,
                 output, stats>>

(* abort_requests_async, to the engine that was chosen for the request.     *)
AbortRequest(c, r, e) ==
  LET onItsWay(type) == \E i \in 1 .. Len(input[c][e]) :
                          input[c][e][i].type = type /\ input[c][e][i].req = r
  IN
  /\ r[1] = c /\ r[2] <= MaxAborts
  /\ \/ r \in unfinished(e) /\ running[e]
     \/ "early_abort" \in Stress /\ (r \in reqs[e] \/ onItsWay("ADD"))
  /\ ~onItsWay("ABORT")
  /\ input' = [input EXCEPT ![c][e] = Append(@, [type |-> "ABORT", req |-> r])]
  /\ UNCHANGED <<client, coordinator, engine, calls, front, start, output, stats, sent>>

(* run_engine_stats_update_task: a FIRST_REQ notice.  The wave is the one   *)
(* known now, not the one the request was sent with.                        *)
SendFirstReq(c) ==
  /\ first_req[c] # <<>>
  /\ front' = [front EXCEPT ![c] =
                 Append(@, [exclude |-> Head(first_req[c]), wave |-> cl_wave[c]])]
  /\ first_req' = [first_req EXCEPT ![c] = Tail(@)]
  /\ cl_running' = [cl_running EXCEPT ![c] = TRUE]
  /\ UNCHANGED <<cl_wave, coordinator, engine, calls, input, start, output, stats, sent>>

(* run_engine_stats_update_task: a message of the coordinator.  A notice    *)
(* that is there too goes first unless the engines are believed to run.     *)
UpdateStats(c) ==
  /\ stats[c] # <<>>
  /\ \/ first_req[c] = <<>>
     \/ /\ cl_running[c]
        /\ Head(stats[c]).wave = cl_wave[c] \/ "late_notice" \in Stress
  /\ cl_wave' = [cl_wave EXCEPT ![c] = Head(stats[c]).wave]
  /\ cl_running' = [cl_running EXCEPT ![c] = Head(stats[c]).running]
  /\ stats' = [stats EXCEPT ![c] = <<>>]
  /\ UNCHANGED <<first_req, coordinator, engine, calls, input, front, start, output, sent>>

-----------------------------------------------------------------------------
(* Coordinator: process_input_socket                                        *)

_send_start_wave(w, excl) ==
  start' = [e \in Engines |-> Append(start[e], [wave |-> w, exclude |-> excl])]

(* The clients drain their socket and keep the last message only.           *)
publish_front(w, r) == stats' = [c \in Clients |-> <<[wave |-> w, running |-> r]>>]

(* Mutant of excluded: a stale notice excludes its engine all the same.     *)
excluded_stale(m) == m.exclude

(* The engine that START_DP_WAVE need not wake: the one that has the        *)
(* request, unless the notice is stale.                                     *)
excluded(m) == IF m.wave < co_wave THEN None ELSE m.exclude

HandleFront(c) ==
  /\ front[c] # <<>>
  /\ front' = [front EXCEPT ![c] = Tail(@)]
  /\ IF co_running
     THEN UNCHANGED <<co_running, start, stats>>
     ELSE /\ co_running' = TRUE
          /\ _send_start_wave(co_wave, excluded(Head(front[c])))
          /\ publish_front(co_wave, TRUE)
  /\ UNCHANGED <<client, co_wave, engine, calls, input, output, sent>>

(* Mutant of wave_ended: the wave the coordinator is in does not count.     *)
wave_ended_later(w) == co_wave < w

(* The engines have ended the coordinator's wave, or a later one.           *)
wave_ended(w) == co_wave <= w

HandleWaveComplete(e) ==
  /\ output[e] # <<>>
  /\ Head(output[e]).type = "wave_complete"
  /\ output' = [output EXCEPT ![e] = Tail(@)]
  /\ IF wave_ended(Head(output[e]).wave)
     THEN /\ co_wave' = Head(output[e]).wave + 1
          /\ co_running' = FALSE
          /\ publish_front(Head(output[e]).wave + 1, FALSE)
     ELSE UNCHANGED <<co_wave, co_running, stats>>
  /\ UNCHANGED <<client, engine, calls, input, front, start, sent>>

HandleStartWave(e) ==
  /\ output[e] # <<>>
  /\ Head(output[e]).type = "start_wave"
  /\ output' = [output EXCEPT ![e] = Tail(@)]
  /\ LET w == Head(output[e]).wave IN
     IF w > co_wave \/ (w = co_wave /\ ~co_running)
     THEN /\ co_wave' = w
          /\ co_running' = TRUE
          /\ _send_start_wave(w, e)
          /\ publish_front(w, TRUE)
     ELSE UNCHANGED <<co_wave, co_running, start, stats>>
  /\ UNCHANGED <<client, engine, calls, input, front, sent>>

(* The poll timed out: the state is published again.  Bound: only when a    *)
(* client does not have it and no message is on its way.                    *)
PublishStats ==
  /\ \A c \in Clients : stats[c] = <<>>
  /\ \E c \in Clients : cl_wave[c] # co_wave \/ cl_running[c] # co_running
  /\ publish_front(co_wave, co_running)
  /\ UNCHANGED <<client, coordinator, engine, calls, input, front, start, output, sent>>

-----------------------------------------------------------------------------
(* Engine: _process_input_queue                                             *)

(* The engine takes a message of a client from its input queue.             *)
Take(c, e, type) ==
  /\ pc[e] = "input"
  /\ input[c][e] # <<>>
  /\ Head(input[c][e]).type = type
  /\ input' = [input EXCEPT ![c][e] = Tail(@)]

(* Mutant of restarts: a stale request waits for the next wave.             *)
restarts_never(e, w) == FALSE

(* A request of a completed wave starts the next one.                       *)
restarts(e, w) == w < wave[e] /\ ~running[e] /\ ~paused[e]

HandleAdd(c, e) ==
  /\ Take(c, e, "ADD")
  /\ LET m == Head(input[c][e]) IN
       /\ reqs' = [reqs EXCEPT ![e] = @ \union {m.req}]
       /\ wave' = [wave EXCEPT ![e] = IF m.wave > @ THEN m.wave ELSE @]
       /\ IF restarts(e, m.wave)
          THEN /\ running' = [running EXCEPT ![e] = TRUE]
               /\ output' = [output EXCEPT ![e] =
                               Append(@, [type |-> "start_wave", wave |-> wave[e]])]
          ELSE UNCHANGED <<running, output>>
  /\ UNCHANGED <<client, coordinator, pc, step, pausing, calls, front, start, stats, sent>>

HandleAbort(c, e) ==
  /\ Take(c, e, "ABORT")
  /\ reqs' = [reqs EXCEPT ![e] = @ \ {Head(input[c][e]).req}]
  /\ UNCHANGED <<client, coordinator, pc, wave, running, step, pausing, calls, front,
                 start, output, stats, sent>>

HandleStartDPWave(e) ==
  /\ pc[e] = "input"
  /\ start[e] # <<>>
  /\ LET m == Head(start[e]) IN
       IF ~ignore_start_dp_wave[e] /\ m.exclude # e /\ m.wave >= wave[e]
       THEN /\ wave' = [wave EXCEPT ![e] = m.wave]
            /\ running' = [running EXCEPT ![e] = TRUE]
       ELSE UNCHANGED <<wave, running>>
  /\ start' = [start EXCEPT ![e] = Tail(@)]
  /\ UNCHANGED <<client, coordinator, pc, step, reqs, pausing, calls, input, front,
                 output, stats, sent>>

-----------------------------------------------------------------------------
(* Engine: run_busy_loop                                                    *)

(* There is work and the input queue looks empty: a step or a dummy batch   *)
(* begins, and waits for the other engines in its first collective.         *)
BeginStep(e) ==
  /\ pc[e] = "input"
  /\ has_work(e)
  /\ pc' = [pc EXCEPT ![e] = "forward"]
  /\ UNCHANGED <<client, coordinator, wave, running, step, reqs, pausing, calls,
                 sockets, sent>>

(* step_counter, which the code does not bound within a wave (MaxStep = 0): *)
(* past the bound it goes back by an interval, to a value of which          *)
(* everything the code asks, the remainder, is the same.                    *)
bounded(n) == IF MaxStep # 0 /\ n > MaxStep THEN n - SyncInterval ELSE n

(* Mutant of next_step: a dummy batch does not count as a step.             *)
next_step_busy(e) == IF unfinished(e) = {} THEN step[e] ELSE bounded(step[e] + 1)

(* _has_global_unfinished_reqs counts the step.                             *)
next_step(e) == bounded(step[e] + 1)

(* The forward pass of all engines, in which some requests finish, and      *)
(* _has_global_unfinished_reqs up to the all-reduce.                        *)
Forward(Finished) ==
  /\ \A e \in Engines : pc[e] = "forward"
  /\ reqs' = [e \in Engines |-> reqs[e] \ (Finished \intersect unfinished(e))]
  /\ step' = [e \in Engines |-> next_step(e)]
  /\ pc' = [e \in Engines |->
              IF step'[e] % SyncInterval = 0 THEN "reduce" ELSE "input"]
  /\ running' = [e \in Engines |-> TRUE]
  /\ UNCHANGED <<client, coordinator, wave, pausing, calls, sockets, sent>>

(* sync_dp_state: one sum over the engines of those with requests and of    *)
(* those told to pause.                                                     *)
pause_count == Cardinality({e \in Engines : pending_pause[e]})
pause_consensus == pause_count = NEngines
has_unfinished_global ==
  (\E e \in Engines : unfinished(e) # {}) \/ pause_count % NEngines # 0

(* Mutant of wave_complete: the wave is counted before it is reported.      *)
wave_complete_late == [type |-> "wave_complete", wave |-> wave[0] + 1]

(* What rank 0 tells the coordinator when all stop: the wave that ended.    *)
wave_complete == [type |-> "wave_complete", wave |-> wave[0]]

(* The all-reduce and the rest of the iteration: at the end of a wave the   *)
(* step counter starts again.                                               *)
AllReduce ==
  /\ \A e \in Engines : pc[e] = "reduce"
  /\ pc' = [e \in Engines |-> "input"]
  /\ IF pause_consensus
     THEN /\ ignore_start_dp_wave' = [e \in Engines |-> TRUE]
          /\ pending_pause' = [e \in Engines |-> FALSE]
     ELSE UNCHANGED <<ignore_start_dp_wave, pending_pause>>
  /\ IF has_unfinished_global
     THEN UNCHANGED <<wave, running, step, output>>
     ELSE /\ running' = [e \in Engines |-> FALSE]
          /\ wave' = [e \in Engines |-> wave[e] + 1]
          /\ step' = [e \in Engines |-> 0]
          /\ output' = [output EXCEPT ![0] = Append(@, wave_complete)]
  /\ UNCHANGED <<client, coordinator, reqs, paused, calls, input, front, start,
                 stats, sent>>

-----------------------------------------------------------------------------
(* pause_scheduler and resume_scheduler, called on every engine             *)

SendPause(e) ==
  /\ call' = [call EXCEPT ![e] = "pausing"]
  /\ input' = [input EXCEPT ![Admin][e] = Append(@, [type |-> "PAUSE"])]
  /\ UNCHANGED <<client, coordinator, engine, front, start, output, stats, sent>>

Pause(e) ==
  /\ \A f \in Engines : call[f] = "none"
  /\ pauses < MaxPauses
  /\ "busy_pause" \in Stress \/ Settled
  /\ pauses' = pauses + 1
  /\ SendPause(e)

(* The same call to the other engines.                                      *)
PauseOthers(e) ==
  /\ call[e] = "none"
  /\ \E f \in Engines : call[f] \in {"pausing", "callback"}
  /\ SendPause(e)
  /\ UNCHANGED pauses

(* The first phase: the engines are set running to reach the all-reduce.    *)
_pause_complete(e) ==
  /\ pending_pause' = [pending_pause EXCEPT ![e] = TRUE]
  /\ running' = [running EXCEPT ![e] = TRUE]

HandlePause(c, e) ==
  /\ Take(c, e, "PAUSE")
  /\ paused' = [paused EXCEPT ![e] = TRUE]
  /\ _pause_complete(e)
  /\ call' = [call EXCEPT ![e] = "callback"]
  /\ UNCHANGED <<client, coordinator, pc, wave, step, reqs, ignore_start_dp_wave, pauses,
                 front, start, output, stats, sent>>

(* _notify_idle_state_callbacks answers the call.                           *)
PauseDone(e) ==
  /\ pc[e] = "input"
  /\ ~has_work(e)
  /\ call[e] = "callback"
  /\ call' = [call EXCEPT ![e] = "paused"]
  /\ UNCHANGED <<client, coordinator, engine, pauses, sockets, sent>>

SendResume(e) ==
  /\ call' = [call EXCEPT ![e] = "resuming"]
  /\ input' = [input EXCEPT ![Admin][e] = Append(@, [type |-> "RESUME"])]
  /\ UNCHANGED <<client, coordinator, engine, pauses, front, start, output, stats, sent>>

Resume(e) ==
  /\ \A f \in Engines : call[f] = "paused"
  /\ "busy_pause" \in Stress \/ Settled
  /\ SendResume(e)

ResumeOthers(e) ==
  /\ call[e] = "paused"
  /\ \E f \in Engines : call[f] = "resuming"
  /\ SendResume(e)

(* Refused (an exception, or ignored) when the engine is not stopped;       *)
(* otherwise up to the barrier.                                             *)
HandleResume(c, e) ==
  /\ Take(c, e, "RESUME")
  /\ IF pending_pause[e] \/ running[e]
     THEN /\ call' = [call EXCEPT ![e] = "refused"]
          /\ UNCHANGED <<paused, ignore_start_dp_wave, pc>>
     ELSE /\ paused' = [paused EXCEPT ![e] = FALSE]
          /\ ignore_start_dp_wave' = [ignore_start_dp_wave EXCEPT ![e] = FALSE]
          /\ pc' = [pc EXCEPT ![e] = "resume"]
          /\ UNCHANGED call
  /\ UNCHANGED <<client, coordinator, running, wave, step, reqs, pending_pause, pauses,
                 front, start, output, stats, sent>>

(* The barrier of resume_scheduler: has_unfinished_dp.                      *)
ResumeBarrier ==
  /\ \A e \in Engines : pc[e] = "resume"
  /\ pc' = [e \in Engines |-> "input"]
  /\ running' = [e \in Engines |-> \E f \in Engines : unfinished(f) # {}]
  /\ call' = [e \in Engines |-> "none"]
  /\ UNCHANGED <<client, coordinator, wave, step, reqs, pausing, pauses, sockets, sent>>

-----------------------------------------------------------------------------
ClientStep(c) == SendFirstReq(c) \/ UpdateStats(c)

CoordinatorStep ==
  \/ \E c \in Clients : HandleFront(c)
  \/ \E e \in Engines : HandleWaveComplete(e) \/ HandleStartWave(e)

EngineInput(e) ==
  \/ HandleStartDPWave(e)
  \/ \E c \in Clients : \/ HandleAdd(c, e) \/ HandleAbort(c, e)
                        \/ HandlePause(c, e) \/ HandleResume(c, e)

EngineStep(e) == BeginStep(e) \/ PauseDone(e)

Collective == AllReduce \/ ResumeBarrier

(* pause_generation and resume_generation call every engine in turn.        *)
AdminStep == \E e \in Engines : PauseOthers(e) \/ Resume(e) \/ ResumeOthers(e)

Next ==
  \/ \E c \in Clients, r \in Requests, e \in Engines :
       AddRequest(c, r, e) \/ AbortRequest(c, r, e)
  \/ \E c \in Clients : ClientStep(c)
  \/ CoordinatorStep
  \/ PublishStats
  \/ \E e \in Engines : EngineInput(e) \/ EngineStep(e) \/ Pause(e)
  \/ AdminStep
  \/ \E Finished \in SUBSET Requests : Forward(Finished)
  \/ Collective

Spec == Init /\ [][Next]_vars

(* Every process goes on; an engine drains its input between two steps; the *)
(* model comes to the end of its requests; a call to pause reaches every    *)
(* engine and is followed by a resume.                                      *)
Fairness ==
  /\ \A c \in Clients : WF_vars(ClientStep(c))
  /\ WF_vars(CoordinatorStep)
  /\ \A e \in Engines : SF_vars(EngineInput(e)) /\ WF_vars(EngineStep(e))
  /\ SF_vars(Forward(Requests))
  /\ WF_vars(Collective)
  /\ WF_vars(AdminStep)

FairSpec == Spec /\ Fairness

-----------------------------------------------------------------------------
(* Properties                                                               *)

(* Type invariant; at most one state of the coordinator waits for a client. *)
TypeOK ==
  /\ cl_wave \in [Clients -> Nat] /\ cl_running \in [Clients -> BOOLEAN]
  /\ first_req \in [Clients -> Seq(Engines)]
  /\ co_wave \in Nat /\ co_running \in BOOLEAN
  /\ pc \in [Engines -> {"input", "forward", "reduce", "resume"}]
  /\ wave \in [Engines -> Nat] /\ running \in [Engines -> BOOLEAN]
  /\ step \in [Engines -> Nat]
  /\ reqs \in [Engines -> SUBSET sent] /\ sent \subseteq Requests
  /\ paused \in [Engines -> BOOLEAN] /\ pending_pause \in [Engines -> BOOLEAN]
  /\ ignore_start_dp_wave \in [Engines -> BOOLEAN]
  /\ call \in [Engines -> Calls] /\ pauses \in 0 .. MaxPauses
  /\ input \in [Clients -> [Engines -> Seq(Message)]]
  /\ front \in [Clients -> Seq(Notice)] /\ start \in [Engines -> Seq(Notice)]
  /\ output \in [Engines -> Seq(Report)]
  /\ stats \in [Clients -> Seq(State)] /\ \A c \in Clients : Len(stats[c]) <= 1

Msgs(q) == {q[i] : i \in 1 .. Len(q)}

(* The engines are always in the same wave, and no client, no coordinator   *)
(* and no request, notice or report on its way names a wave they have not   *)
(* reached; a wave reported complete is behind them.  A wave from the       *)
(* future would be taken over by the one engine it comes to                 *)
(* (add_request, START_DP_WAVE), which from then on ignores the wake-ups of *)
(* the others.                                                              *)
WavesReached ==
  \A e \in Engines :
    /\ wave[e] = wave[0]
    /\ co_wave <= wave[e]
    /\ \A m \in Msgs(start[e]) : m.wave <= wave[e]
    /\ \A m \in Msgs(output[e]) :
         IF m.type = "wave_complete" THEN m.wave < wave[e] ELSE m.wave <= wave[e]
    /\ \A c \in Clients :
         /\ cl_wave[c] <= wave[e]
         /\ \A m \in Msgs(front[c]) \union Msgs(stats[c]) : m.wave <= wave[e]
         /\ \A m \in Msgs(input[c][e]) : m.type = "ADD" => m.wave <= wave[e]

(* Two engines that both wait in a collective wait in the same one, at the  *)
(* same step count, and in the same wave when it is the all-reduce that     *)
(* ends it: otherwise run_busy_loop would match one engine's forward pass   *)
(* with another's sync_dp_state.  An engine that is stopped is at step 0:   *)
(* "on a fresh wave the counter is 0" (_should_throttle_prefills).          *)
(* resume_scheduler is never refused after the pause it follows has been    *)
(* answered by every engine.                                                *)
Lockstep ==
  \A e, f \in Engines :
    /\ pc[e] # "input" /\ pc[f] # "input" => pc[e] = pc[f] /\ step[e] = step[f]
    /\ pc[e] = "reduce" /\ pc[f] = "reduce" => wave[e] = wave[f]
    /\ ~running[e] => step[e] = 0
    /\ call[e] # "refused"

(* Nothing is on its way, and no pause or resume has reached only some of   *)
(* the engines.                                                             *)
Quiet ==
  /\ Settled
  /\ \A e, f \in Engines : <<call[e], call[f]>> \notin
       {<<"none", "pausing">>, <<"none", "callback">>, <<"paused", "resuming">>}

(* When one engine waits for the others in a collective and no message is   *)
(* on its way, every other engine is there too or has a reason to go there: *)
(* "Engines will move into running state when receiving a new request or    *)
(* START_DP_WAVE message" (DPCoordinator).  An idle one would leave the     *)
(* first one waiting for ever.                                              *)
NoneStranded ==
  Quiet /\ (\E e \in Engines : pc[e] # "input") =>
    \A e \in Engines : pc[e] # "input" \/ has_work(e)

(* When every engine is idle, none is paused and no message is on its way,  *)
(* the coordinator knows that they are idle and which wave comes next.      *)
(* With co_running left TRUE it would ignore the next FIRST_REQ; with a     *)
(* smaller wave the engines would ignore its START_DP_WAVE.                 *)
CoordinatorAgrees ==
  Quiet /\ (\A e \in Engines : pc[e] = "input" /\ ~has_work(e) /\ ~paused[e]) =>
    ~co_running /\ \A e \in Engines : co_wave = wave[e]

(* Every request, whenever and with whichever wave it was sent, is at last  *)
(* finished or aborted, through stops, restarts and pauses of the engines.  *)
AllServed ==
  <>[](\A e \in Engines : reqs[e] = {} /\ \A c \in Clients : input[c][e] = <<>>)
===============================================================================
