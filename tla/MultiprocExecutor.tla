--------------------------- MODULE MultiprocExecutor ---------------------------
(***************************************************************************)
(* MultiprocExecutor and its worker processes.  The engine thread           *)
(* broadcasts a call over rpc_broadcast_mq; every worker runs the calls in  *)
(* order and those asked for a reply put it on their own response queue,    *)
(* directly or through the output thread of async scheduling.  Replies      *)
(* carry no call number: a call takes from each queue the reply that comes  *)
(* next.  A monitor thread shuts everything down when a worker dies.        *)
(*                                                                         *)
(* The message queues are those of ShmBroadcast, at the grain that matters  *)
(* here: a ring of max_chunks messages that a writer waits for while it is  *)
(* full, and, for a message too large for a chunk, a marker in the ring and *)
(* then the payload over a socket.  A shutdown wakes a reader that waits    *)
(* for the ring, not one that waits for a payload and not a writer.         *)
(***************************************************************************)
EXTENDS Integers, Sequences

CONSTANTS
  NWorkers,                \* world_size
  Async,                   \* use_async_scheduling
  BatchQueueSize,          \* non-blocking steps the engine leaves in flight
  MaxChunks,               \* max_chunks of the rings
  Methods,                 \* the calls that are made
  MaxCalls                 \* bound on the calls of collective_rpc

Workers == 1 .. NWorkers

(* A step is made by the engine's own loop, and an exception ends the       *)
(* engine.  A utility call comes from a client, which is sent the exception.*)
Kinds == {"step", "utility"}

(* Who replies: every worker (output_rank None) or the first worker of the  *)
(* last pipeline stage.                                                     *)
All == 0
OutputRank == NWorkers

(* execute_model and sample_tokens have a deadline and may be left in       *)
(* flight; execute_dummy_batch and take_draft_token_ids have neither.  A    *)
(* client chooses whether its call has a deadline.                          *)
Call == [kind : Kinds, output_rank : {All, OutputRank},
         timed : BOOLEAN, non_block : BOOLEAN]

Callable(c) ==
  /\ c.non_block => c.timed
  /\ c.kind = "utility" => c.output_rank = All /\ ~c.non_block
  /\ c.kind = "step" /\ ~c.timed => c.output_rank = OutputRank

NoCall == [kind |-> "utility", output_rank |-> All, timed |-> FALSE,
           non_block |-> FALSE]

ASSUME ExecutorAssumption ==
  /\ NWorkers \in Nat \ {0}
  /\ Async \in BOOLEAN
  /\ BatchQueueSize \in Nat
  /\ MaxChunks \in Nat \ {0}
  /\ Methods \subseteq {c \in Call : Callable(c)}
  /\ MaxCalls \in Nat

VARIABLES
  calls,                   \* what was broadcast
  fut,                     \* per call its FutureWrapper: "pending", "done", "failed"
  replies,                 \* per call the replies aggregated so far, each as
                           \* the number of the call it answers
  futures_queue,           \* futures not yet waited for, oldest first
  batch_queue,             \* non-blocking steps whose result the engine has to take
  e_pc, e_call,            \* engine thread: control, the call it has to enqueue,
  e_target, e_cur,         \* the future whose result() it is in, the future it
                           \* collects replies for
  alive, w_pos,            \* workers: process alive, calls dequeued
  outputs,                 \* per worker, the outputs for enqueue_output, which
                           \* the output thread or the worker itself runs
  response_mq,             \* per worker, the ring; of an overflow entry the
                           \* reader sees only that it is one
  local_socket, sending,   \* per worker, the payloads of overflow entries, and
                           \* whether the last of them is still to be sent
  is_failed,
  shutting_down,           \* shutdown() went through the queues
  executor_failed          \* EXECUTOR_FAILED is in the engine's input queue

engine == <<e_pc, e_call, e_target, e_cur>>
response == <<response_mq, local_socket, sending>>
workers == <<alive, w_pos, outputs>>
monitor == <<is_failed, shutting_down, executor_failed>>
vars == <<calls, fut, replies, futures_queue, batch_queue, engine, workers,
          response, monitor>>

(* The number of the call is the model's own record, as replies have none.  *)
Reply == [call : 1 .. MaxCalls, ok : BOOLEAN, overflow : BOOLEAN]

(* The types; a future is pending exactly while it is queued or its replies *)
(* are being collected, so that result() never takes a future from an empty *)
(* queue and a failed call never leaves one pending.                        *)
TypeOK ==
  /\ calls \in Seq(Call) /\ e_call \in Call
  /\ Len(calls) <= MaxCalls
  /\ fut \in Seq({"pending", "done", "failed"})
  /\ replies \in Seq(Seq(1 .. MaxCalls))
  /\ Len(fut) = Len(calls) /\ Len(replies) = Len(calls)
  /\ futures_queue \in Seq(1 .. Len(calls))
  /\ batch_queue \in Seq(1 .. Len(calls))
  /\ Len(batch_queue) <= BatchQueueSize
  /\ e_pc \in {"idle", "enqueue", "result", "dequeue", "recv", "dead"}
  /\ {e_target, e_cur} \subseteq 0 .. Len(calls)
  /\ {k \in 1 .. Len(fut) : fut[k] = "pending"} =
       {futures_queue[i] : i \in 1 .. Len(futures_queue)} \union ({e_cur} \ {0})
  /\ alive \in [Workers -> BOOLEAN]
  /\ w_pos \in [Workers -> 0 .. Len(calls)]
  /\ outputs \in [Workers -> Seq(Reply)]
  /\ response_mq \in [Workers -> Seq(Reply)]
  /\ local_socket \in [Workers -> Seq(Reply)]
  /\ sending \in [Workers -> BOOLEAN]
  /\ \A w \in Workers :
       /\ Len(calls) - w_pos[w] <= MaxChunks
       /\ Len(response_mq[w]) <= MaxChunks
       /\ sending[w] => local_socket[w] # <<>>
  /\ {is_failed, shutting_down, executor_failed} \subseteq BOOLEAN

Init ==
  /\ calls = <<>> /\ fut = <<>> /\ replies = <<>>
  /\ futures_queue = <<>> /\ batch_queue = <<>>
  /\ e_pc = "idle" /\ e_call = NoCall /\ e_target = 0 /\ e_cur = 0
  /\ alive = [w \in Workers |-> TRUE]
  /\ w_pos = [w \in Workers |-> 0]
  /\ outputs = [w \in Workers |-> <<>>]
  /\ response_mq = [w \in Workers |-> <<>>]
  /\ local_socket = [w \in Workers |-> <<>>]
  /\ sending = [w \in Workers |-> FALSE]
  /\ is_failed = FALSE
  /\ shutting_down = FALSE
  /\ executor_failed = FALSE

-----------------------------------------------------------------------------
(* The engine thread                                                        *)

(* collective_rpc, up to the enqueue.                                       *)
collective_rpc(c) ==
  /\ e_pc = "idle"
  /\ Len(calls) < MaxCalls
  /\ ~is_failed
  /\ c.non_block => Len(batch_queue) < BatchQueueSize
  /\ e_call' = c
  /\ e_pc' = "enqueue"
  /\ UNCHANGED <<calls, fut, replies, futures_queue, batch_queue, e_target,
                 e_cur, workers, response, monitor>>

(* acquire_write: the chunk was read by every worker, dead ones included.   *)
RingHasRoom == \A w \in Workers : Len(calls) - w_pos[w] < MaxChunks

(* enqueue, then the rest of collective_rpc: a blocking call goes on in     *)
(* result().                                                                *)
Enqueue ==
  /\ e_pc = "enqueue"
  /\ RingHasRoom
  /\ LET k == Len(calls) + 1 IN
       /\ calls' = Append(calls, e_call)
       /\ fut' = Append(fut, "pending")
       /\ replies' = Append(replies, <<>>)
       /\ futures_queue' = Append(futures_queue, k)
       /\ batch_queue' = IF e_call.non_block THEN Append(batch_queue, k) ELSE batch_queue
       /\ e_pc' = IF e_call.non_block THEN "idle" ELSE "result"
       /\ e_target' = IF e_call.non_block THEN 0 ELSE k
  /\ e_call' = NoCall
  /\ UNCHANGED <<e_cur, workers, response, monitor>>

(* collective_rpc raises "Executor failed.": a step then ends the engine.   *)
collective_rpc_refused ==
  /\ e_pc = "idle"
  /\ is_failed
  /\ e_pc' = "dead"
  /\ UNCHANGED <<calls, fut, replies, futures_queue, batch_queue, e_call,
                 e_target, e_cur, workers, response, monitor>>

(* step_with_batch_queue takes the oldest step and asks for its result.     *)
TakeBatch ==
  /\ e_pc = "idle"
  /\ batch_queue # <<>>
  /\ e_target' = Head(batch_queue)
  /\ batch_queue' = Tail(batch_queue)
  /\ e_pc' = "result"
  /\ UNCHANGED <<calls, fut, replies, futures_queue, e_call, e_cur, workers,
                 response, monitor>>

(* FutureWrapper.result: the oldest future is waited for until this one is  *)
(* done.                                                                    *)
DrainFuture ==
  /\ e_pc = "result"
  /\ fut[e_target] = "pending"
  /\ e_cur' = Head(futures_queue)
  /\ futures_queue' = Tail(futures_queue)
  /\ e_pc' = "dequeue"
  /\ UNCHANGED <<calls, fut, replies, batch_queue, e_call, e_target, workers,
                 response, monitor>>

ReturnResult ==
  /\ e_pc = "result"
  /\ fut[e_target] # "pending"
  /\ e_pc' = IF fut[e_target] = "failed" /\ calls[e_target].kind = "step"
             THEN "dead" ELSE "idle"
  /\ e_target' = 0
  /\ UNCHANGED <<calls, fut, replies, futures_queue, batch_queue, e_call,
                 e_cur, workers, response, monitor>>

Asked(k) == IF calls[k].output_rank = All THEN NWorkers ELSE 1

(* The worker whose queue get_response reads next.                          *)
ReplyFrom(k) ==
  IF calls[k].output_rank = All THEN Len(replies[k]) + 1 ELSE calls[k].output_rank

(* Mutant of FutureEnds: an exception leaves the future as it is.           *)
FutureEnds_unmarked(how) ==
  /\ fut' = IF how = "failed" THEN fut ELSE [fut EXCEPT ![e_cur] = how]
  /\ e_pc' = "result"
  /\ e_cur' = 0

FutureEnds(how) ==
  /\ fut' = [fut EXCEPT ![e_cur] = how]
  /\ e_pc' = "result"
  /\ e_cur' = 0

(* get_response: one more reply is there.                                   *)
Collect(reply) ==
  IF reply.ok
  THEN /\ replies' = [replies EXCEPT ![e_cur] = Append(@, reply.call)]
       /\ IF Len(replies[e_cur]) + 1 = Asked(e_cur)
          THEN FutureEnds("done")
          ELSE /\ e_pc' = "dequeue"
               /\ UNCHANGED <<fut, e_cur>>
  ELSE FutureEnds("failed") /\ UNCHANGED replies

(* dequeue: acquire_read returns, with the reply or with a marker that      *)
(* sends the reader on to recv.                                             *)
DequeueResponse ==
  /\ e_pc = "dequeue"
  /\ LET w == ReplyFrom(e_cur) IN
       /\ response_mq[w] # <<>>
       /\ response_mq' = [response_mq EXCEPT ![w] = Tail(@)]
       /\ IF Head(response_mq[w]).overflow
          THEN /\ e_pc' = "recv"
               /\ UNCHANGED <<fut, replies, e_cur>>
          ELSE Collect(Head(response_mq[w]))
  /\ UNCHANGED <<calls, futures_queue, batch_queue, e_call, e_target, workers,
                 local_socket, sending, monitor>>

(* The payload of the oldest marker is there to be received.                *)
Arrived(w) == Len(local_socket[w]) > IF sending[w] THEN 1 ELSE 0

(* MessageQueue.recv.                                                       *)
Recv ==
  /\ e_pc = "recv"
  /\ LET w == ReplyFrom(e_cur) IN
       /\ Arrived(w)
       /\ local_socket' = [local_socket EXCEPT ![w] = Tail(@)]
       /\ Collect(Head(local_socket[w]))
  /\ UNCHANGED <<calls, futures_queue, batch_queue, e_call, e_target, workers,
                 response_mq, sending, monitor>>

(* The deadline passes in acquire_read or in recv: TimeoutError.            *)
DequeueTimeout ==
  /\ e_cur # 0
  /\ calls[e_cur].timed
  /\ \/ e_pc = "dequeue" /\ response_mq[ReplyFrom(e_cur)] = <<>>
     \/ e_pc = "recv" /\ ~Arrived(ReplyFrom(e_cur))
  /\ FutureEnds("failed")
  /\ UNCHANGED <<calls, replies, futures_queue, batch_queue, e_call, e_target,
                 workers, response, monitor>>

(* acquire_read, not recv, looks at shutting_down: RuntimeError("cancelled").*)
DequeueCancelled ==
  /\ e_pc = "dequeue"
  /\ shutting_down
  /\ response_mq[ReplyFrom(e_cur)] = <<>>
  /\ FutureEnds("failed")
  /\ UNCHANGED <<calls, replies, futures_queue, batch_queue, e_call, e_target,
                 workers, response, monitor>>

(* _handle_client_request: EXECUTOR_FAILED raises.                          *)
HandleExecutorFailed ==
  /\ e_pc = "idle"
  /\ executor_failed
  /\ e_pc' = "dead"
  /\ UNCHANGED <<calls, fut, replies, futures_queue, batch_queue, e_call,
                 e_target, e_cur, workers, response, monitor>>

-----------------------------------------------------------------------------
(* The workers                                                              *)

(* One round of worker_busy_loop: dequeue the next call and run it, which   *)
(* may raise; the workers asked for a reply give one.  Without the output   *)
(* thread the next round waits for the reply to be enqueued.                *)
WorkerRound(w, ok, asked) ==
  /\ alive[w]
  /\ w_pos[w] < Len(calls)
  /\ ~Async => outputs[w] = <<>> /\ ~sending[w]
  /\ w_pos' = [w_pos EXCEPT ![w] = @ + 1]
  /\ outputs' = IF asked
                THEN [outputs EXCEPT ![w] =
                        Append(@, [call |-> w_pos[w] + 1, ok |-> ok, overflow |-> FALSE])]
                ELSE outputs
  /\ UNCHANGED <<calls, fut, replies, futures_queue, batch_queue, engine,
                 alive, response, monitor>>

(* Mutant of worker_busy_loop: every worker replies to every call.          *)
worker_busy_loop_all(w, ok) == WorkerRound(w, ok, TRUE)

worker_busy_loop(w, ok) ==
  WorkerRound(w, ok, calls[w_pos[w] + 1].output_rank \in {All, w})

(* enqueue_output, of async_output_busy_loop or of handle_output, up to     *)
(* the end of acquire_write.  An output that cannot be fetched is a         *)
(* FAILURE, as if the method had raised.                                    *)
enqueue_output(w, overflow) ==
  /\ alive[w]
  /\ outputs[w] # <<>>
  /\ ~sending[w]
  /\ Len(response_mq[w]) < MaxChunks
  /\ LET reply == [Head(outputs[w]) EXCEPT !.overflow = overflow] IN
       /\ response_mq' = [response_mq EXCEPT ![w] = Append(@, reply)]
       /\ local_socket' = IF overflow
                          THEN [local_socket EXCEPT ![w] = Append(@, reply)]
                          ELSE local_socket
  /\ sending' = [sending EXCEPT ![w] = overflow]
  /\ outputs' = [outputs EXCEPT ![w] = Tail(@)]
  /\ UNCHANGED <<calls, fut, replies, futures_queue, batch_queue, engine,
                 alive, w_pos, monitor>>

(* enqueue: the payload follows the marker.                                 *)
SendPayload(w) ==
  /\ alive[w]
  /\ sending[w]
  /\ sending' = [sending EXCEPT ![w] = FALSE]
  /\ UNCHANGED <<calls, fut, replies, futures_queue, batch_queue, engine,
                 workers, response_mq, local_socket, monitor>>

WorkerDies(w) ==
  /\ alive[w]
  /\ alive' = [alive EXCEPT ![w] = FALSE]
  /\ UNCHANGED <<calls, fut, replies, futures_queue, batch_queue, engine, w_pos,
                 outputs, response, monitor>>

-----------------------------------------------------------------------------
(* monitor_workers: notice, then shut down, then call back.                 *)

MonitorNotices ==
  /\ \E w \in Workers : ~alive[w]
  /\ ~is_failed
  /\ is_failed' = TRUE
  /\ UNCHANGED <<calls, fut, replies, futures_queue, batch_queue, engine,
                 workers, response, shutting_down, executor_failed>>

(* Mutant of MonitorShutdown: the response queues are left alone.           *)
MonitorShutdown_quiet ==
  /\ is_failed
  /\ alive' = [w \in Workers |-> FALSE]
  /\ UNCHANGED <<calls, fut, replies, futures_queue, batch_queue, engine, w_pos,
                 outputs, response, monitor>>

(* shutdown: the workers are terminated, the queues' readers woken.         *)
MonitorShutdown ==
  /\ is_failed
  /\ ~shutting_down
  /\ alive' = [w \in Workers |-> FALSE]
  /\ shutting_down' = TRUE
  /\ UNCHANGED <<calls, fut, replies, futures_queue, batch_queue, engine, w_pos,
                 outputs, response, is_failed, executor_failed>>

(* Mutant of FailureCallback: no callback.                                  *)
FailureCallback_none == UNCHANGED vars

FailureCallback ==
  /\ shutting_down
  /\ ~executor_failed
  /\ executor_failed' = TRUE
  /\ UNCHANGED <<calls, fut, replies, futures_queue, batch_queue, engine,
                 workers, response, is_failed, shutting_down>>

-----------------------------------------------------------------------------
EngineWaits ==
  \/ Enqueue \/ DrainFuture \/ ReturnResult
  \/ DequeueResponse \/ Recv \/ DequeueTimeout \/ DequeueCancelled

WorkerStep(w) ==
  \E b \in BOOLEAN : worker_busy_loop(w, b) \/ enqueue_output(w, b)

Monitor == MonitorNotices \/ MonitorShutdown \/ FailureCallback

(* The engine's end closes the death pipes of the workers: nothing is       *)
(* followed beyond it.                                                      *)
Next ==
  \/ \E c \in Methods : collective_rpc(c)
  \/ collective_rpc_refused
  \/ TakeBatch
  \/ EngineWaits
  \/ HandleExecutorFailed
  \/ /\ e_pc # "dead"
     /\ Monitor \/ \E w \in Workers : WorkerStep(w) \/ SendPayload(w) \/ WorkerDies(w)

(* A method that runs a collective may hang when a peer is dead, so workers *)
(* are only fair while all of them live; nothing holds a payload back once  *)
(* its marker is written.                                                   *)
AllAlive == \A w \in Workers : alive[w]

Fairness ==
  /\ WF_vars(EngineWaits)
  /\ WF_vars(HandleExecutorFailed)
  /\ WF_vars(Monitor)
  /\ \A w \in Workers :
       /\ WF_vars(AllAlive /\ \E ok \in BOOLEAN : worker_busy_loop(w, ok))
       /\ WF_vars(AllAlive /\ \E b \in BOOLEAN : enqueue_output(w, b))
       /\ WF_vars(SendPayload(w))

Spec == Init /\ [][Next]_vars /\ Fairness

-----------------------------------------------------------------------------
(* Properties                                                               *)

(* The replies that call k returned are those of that very call.            *)
Own(k) == replies[k] = [i \in 1 .. Asked(k) |-> k]

(* Until a call fails, every call that returns is given the replies to that *)
(* very call by the workers it asked, although replies are matched to calls *)
(* only by their order (get_response, FutureWrapper.result), calls for one  *)
(* worker and for all are mixed, and steps are left in flight.              *)
OwnReplies ==
  \A k \in 1 .. Len(calls) :
    fut[k] = "done" /\ (\A j \in 1 .. k : fut[j] # "failed") => Own(k)

(* The two waits that no shutdown ends: for the payload of a call without   *)
(* a deadline whose worker died after the marker (recv), and for a full     *)
(* ring that some worker will not read (acquire_write), because it is dead  *)
(* or, without the output thread, itself waits for its full response ring.  *)
HeldInRecv ==
  /\ e_pc = "recv"
  /\ ~calls[e_cur].timed
  /\ LET w == ReplyFrom(e_cur) IN ~Arrived(w) /\ ~alive[w]

HeldInWrite ==
  /\ e_pc = "enqueue"
  /\ \E w \in Workers :
       /\ Len(calls) - w_pos[w] = MaxChunks
       /\ \/ ~alive[w]
          \/ ~Async /\ outputs[w] # <<>> /\ Len(response_mq[w]) = MaxChunks

Held == HeldInRecv \/ HeldInWrite

(* Once the engine has begun a call or waits for a result it goes on, with  *)
(* the result or with an error, although workers may die or hang (deadline, *)
(* or shutdown, which cancels the reads); Held says where it does not.      *)
NoHang ==
  e_pc \in {"enqueue", "result", "dequeue", "recv"} ~> e_pc \in {"idle", "dead"} \/ Held

(* A dead worker ends the engine (monitor_workers, EXECUTOR_FAILED), unless *)
(* the engine is held where it never comes back to its input queue.         *)
DeathNoticed == ~AllAlive ~> e_pc = "dead" \/ Held
================================================================================
