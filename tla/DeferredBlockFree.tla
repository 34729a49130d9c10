------------------------- MODULE DeferredBlockFree -------------------------
(***************************************************************************)
(* Deferred freeing of KV blocks (Scheduler with defer_block_free): steps   *)
(* overlap, and a consumer KV connector fills newly allocated blocks by     *)
(* loads that nothing orders against the steps in flight.  A freed block    *)
(* may return to the pool only when no step in flight can touch it.         *)
(*                                                                         *)
(* schedule(), update_from_output() and reset_prefix_cache() run to the end *)
(* in the engine's one thread; phase says which of them is under way, and   *)
(* every request they handle is one action.  The order of blocks plays no   *)
(* part here, so tables and entries are sets.                               *)
(***************************************************************************)
EXTENDS Integers, Sequences, FiniteSets

CONSTANTS
  Requests,
  Blocks,                  \* the pool without the null block
  MaxConcurrentBatches,    \* max_concurrent_batches
  MaxNewBlocks,            \* blocks one request may need in one step
  MaxSteps                 \* bound on sched_step_seq

ASSUME DeferAssumption ==
  /\ IsFiniteSet(Requests)
  /\ MaxConcurrentBatches \in Nat
  /\ MaxNewBlocks \in Nat
  /\ MaxSteps \in Nat

VARIABLES
  phase,
  status,                  \* see Statuses
  req_to_blocks,           \* [Requests -> SUBSET Blocks]
  loading,                 \* the blocks a connector load is filling
  ref_cnt,
  last_sched_seq,
  sched_step_seq, processed_step_seq,
  deferred_frees,          \* FIFO of [fence, blocks]
  batch,                   \* the requests of the step being built or processed
  pending_cow_copies,      \* copies queued in this pass, their endpoints
  batch_queue              \* issued steps, oldest first

vars == <<phase, status, req_to_blocks, loading, ref_cnt, last_sched_seq,
          sched_step_seq, processed_step_seq, deferred_frees, batch,
          pending_cow_copies, batch_queue>>

Phases == {"idle", "running", "preempting", "waiting", "update", "reset"}

(* received: the load is over and not yet noticed by schedule().            *)
(* draining: aborted during its load.  sending: finished, the connector     *)
(* still reads its blocks.                                                  *)
Statuses == {"waiting", "running", "loading", "received", "draining",
             "sending", "finished"}

Entry == [fence : Nat, blocks : SUBSET Blocks]
Retained == [blocks : SUBSET Blocks]
(* seq is the step whose completion implies this one's; a step without      *)
(* tokens takes no number of its own.                                       *)
Step == [seq : Nat, tokens : BOOLEAN, reqs : SUBSET Requests, uses : SUBSET Blocks]

Free == {b \in Blocks : ref_cnt[b] = 0}
FillTargets == UNION {loading[r] : r \in Requests}

TableBlocks(R) == UNION {req_to_blocks[r] : r \in R}
CopyBlocks == UNION {pending_cow_copies[i].blocks : i \in 1 .. Len(pending_cow_copies)}

Plus(rc, S) == [b \in Blocks |-> IF b \in S THEN rc[b] + 1 ELSE rc[b]]
Minus(rc, S) == [b \in Blocks |-> IF b \in S THEN rc[b] - 1 ELSE rc[b]]

(* How many entries of a queue hold block b.                                *)
Held(b, q) == Cardinality({i \in 1 .. Len(q) : b \in q[i].blocks})
InTables(b, tables) == Cardinality({r \in Requests : b \in tables[r]})

Init ==
  /\ phase = "idle"
  /\ status = [r \in Requests |-> "waiting"]
  /\ req_to_blocks = [r \in Requests |-> {}]
  /\ loading = [r \in Requests |-> {}]
  /\ ref_cnt = [b \in Blocks |-> 0]
  /\ last_sched_seq = [r \in Requests |-> 0]
  /\ sched_step_seq = 0
  /\ processed_step_seq = 0
  /\ deferred_frees = <<>>
  /\ batch = {}
  /\ pending_cow_copies = <<>>
  /\ batch_queue = <<>>

-----------------------------------------------------------------------------
(* Mutant of _free_request_blocks: the steps in flight are ignored.         *)
_free_request_blocks_unfenced(r) ==
  /\ req_to_blocks' = [req_to_blocks EXCEPT ![r] = {}]
  /\ ref_cnt' = Minus(ref_cnt, req_to_blocks[r])
  /\ UNCHANGED deferred_frees

(* Mutant of _free_request_blocks: a reference is dropped twice.            *)
_free_request_blocks_twice(r) ==
  /\ req_to_blocks' = [req_to_blocks EXCEPT ![r] = {}]
  /\ ref_cnt' = Minus(ref_cnt, req_to_blocks[r])
  /\ deferred_frees' =
       IF last_sched_seq[r] <= processed_step_seq \/ req_to_blocks[r] = {}
       THEN deferred_frees
       ELSE Append(deferred_frees, [fence |-> sched_step_seq,
                                    blocks |-> req_to_blocks[r]])

(* The blocks of r are freed now if its last step is processed, else when   *)
(* the latest step issued so far is.                                        *)
_free_request_blocks(r) ==
  /\ req_to_blocks' = [req_to_blocks EXCEPT ![r] = {}]
  /\ IF last_sched_seq[r] <= processed_step_seq
     THEN /\ ref_cnt' = Minus(ref_cnt, req_to_blocks[r])
          /\ UNCHANGED deferred_frees
     ELSE /\ deferred_frees' =
               IF req_to_blocks[r] = {} THEN deferred_frees
               ELSE Append(deferred_frees, [fence |-> sched_step_seq,
                                            blocks |-> req_to_blocks[r]])
          /\ UNCHANGED ref_cnt

(* Mutant of cow_fence: the fence of the step before the copies.            *)
cow_fence_early == sched_step_seq

(* The first step with tokens at or after this one.                         *)
cow_fence == sched_step_seq + 1

(* _free_cow_retained_blocks; the list of a pass is one entry per copy.     *)
CowEntries(fence) == [i \in 1 .. Len(pending_cow_copies) |->
                        [fence |-> fence, blocks |-> pending_cow_copies[i].blocks]]

_free_cow_retained_blocks(fence) ==
  IF fence <= processed_step_seq
  THEN /\ ref_cnt' = [b \in Blocks |-> ref_cnt[b] - Held(b, pending_cow_copies)]
       /\ UNCHANGED deferred_frees
  ELSE /\ deferred_frees' = deferred_frees \o CowEntries(fence)
       /\ UNCHANGED ref_cnt

(* Mutant of Drainable: the queue is never drained.                         *)
Drainable_none(q, processed) == 0

(* How many entries _drain_deferred_frees pops: it stops at the first fence *)
(* that is still pending.                                                   *)
Drainable(q, processed) ==
  CHOOSE n \in 0 .. Len(q) : /\ \A i \in 1 .. n : q[i].fence <= processed
                             /\ n < Len(q) => q[n + 1].fence > processed

_drain_deferred_frees(processed) ==
  LET n == Drainable(deferred_frees, processed)
  IN /\ deferred_frees' = SubSeq(deferred_frees, n + 1, Len(deferred_frees))
     /\ ref_cnt' = [b \in Blocks |->
                      ref_cnt[b] - Held(b, SubSeq(deferred_frees, 1, n))]

-----------------------------------------------------------------------------
(* schedule() starts with the running requests.                             *)
BeginSchedule ==
  /\ phase = "idle"
  /\ Len(batch_queue) < MaxConcurrentBatches
  /\ sched_step_seq < MaxSteps
  /\ \E r \in Requests : status[r] # "finished"
  /\ phase' = "running"
  /\ batch' = {}
  /\ UNCHANGED <<status, req_to_blocks, loading, ref_cnt, last_sched_seq,
                 sched_step_seq, processed_step_seq, deferred_frees,
                 pending_cow_copies, batch_queue>>

(* A running request gets the blocks of its next tokens.                    *)
ScheduleRunning(r, new) ==
  /\ phase \in {"running", "preempting"}
  /\ status[r] = "running" /\ r \notin batch
  /\ new \subseteq Free /\ Cardinality(new) <= MaxNewBlocks
  /\ batch' = batch \cup {r}
  /\ req_to_blocks' = [req_to_blocks EXCEPT ![r] = @ \cup new]
  /\ ref_cnt' = Plus(ref_cnt, new)
  /\ UNCHANGED <<phase, status, loading, last_sched_seq, sched_step_seq,
                 processed_step_seq, deferred_frees, pending_cow_copies, batch_queue>>

(* A running request is about to overwrite a cached block: the cache entry  *)
(* moves to a new block, which only the queued copy holds.                  *)
ScheduleRunningCow(r, src, dst) ==
  /\ phase \in {"running", "preempting"}
  /\ status[r] = "running" /\ r \notin batch
  /\ src \in req_to_blocks[r] /\ dst \in Free
  /\ batch' = batch \cup {r}
  /\ ref_cnt' = Plus(ref_cnt, {src, dst})
  /\ pending_cow_copies' = Append(pending_cow_copies, [blocks |-> {src, dst}])
  /\ UNCHANGED <<phase, status, req_to_blocks, loading, last_sched_seq,
                 sched_step_seq, processed_step_seq, deferred_frees, batch_queue>>

(* A waiting request is admitted with a prefix hit and new blocks.  With    *)
(* load it gets no tokens yet: the connector fills the new blocks first.    *)
(* Blocks being filled are not cached, so they are nobody's hit.            *)
ScheduleWaiting(r, hit, new, load) ==
  /\ phase \in {"running", "waiting"}
  /\ status[r] = "waiting"
  /\ req_to_blocks[r] # {} => hit = {} /\ ~load
  /\ load => new # {}
  /\ hit \subseteq Blocks \ FillTargets
  /\ new \subseteq Free \ hit /\ Cardinality(new) <= MaxNewBlocks
  /\ phase' = "waiting"
  /\ req_to_blocks' = [req_to_blocks EXCEPT ![r] = @ \cup hit \cup new]
  /\ ref_cnt' = Plus(ref_cnt, hit \cup new)
  /\ status' = [status EXCEPT ![r] = IF load THEN "loading" ELSE "running"]
  /\ loading' = [loading EXCEPT ![r] = IF load THEN new ELSE {}]
  /\ batch' = IF load THEN batch ELSE batch \cup {r}
  /\ UNCHANGED <<last_sched_seq, sched_step_seq, processed_step_seq,
                 deferred_frees, pending_cow_copies, batch_queue>>

(* A partial hit: the request works on a private copy dst of the cached     *)
(* block src, and both stay retained until the copy has run (_apply_cow).   *)
ScheduleWaitingCow(r, src, dst) ==
  /\ phase \in {"running", "waiting"}
  /\ status[r] = "waiting" /\ req_to_blocks[r] = {}
  /\ src \in Blocks \ FillTargets /\ dst \in Free \ {src}
  /\ phase' = "waiting"
  /\ req_to_blocks' = [req_to_blocks EXCEPT ![r] = {dst}]
  /\ ref_cnt' = Plus(Plus(ref_cnt, {src, dst}), {dst})
  /\ pending_cow_copies' = Append(pending_cow_copies, [blocks |-> {src, dst}])
  /\ status' = [status EXCEPT ![r] = "running"]
  /\ batch' = batch \cup {r}
  /\ UNCHANGED <<loading, last_sched_seq, sched_step_seq, processed_step_seq,
                 deferred_frees, batch_queue>>

(* _try_promote_blocked_waiting_request: a received load makes r            *)
(* schedulable again.  If nothing valid arrived its blocks are freed,       *)
(* without a fence.                                                         *)
PromoteReceived(r, valid) ==
  /\ phase \in {"running", "waiting"}
  /\ status[r] = "received"
  /\ phase' = "waiting"
  /\ status' = [status EXCEPT ![r] = "waiting"]
  /\ req_to_blocks' = [req_to_blocks EXCEPT ![r] = IF valid THEN @ ELSE {}]
  /\ ref_cnt' = IF valid THEN ref_cnt ELSE Minus(ref_cnt, req_to_blocks[r])
  /\ UNCHANGED <<loading, last_sched_seq, sched_step_seq, processed_step_seq,
                 deferred_frees, batch, pending_cow_copies, batch_queue>>

(* _preempt_request, for want of blocks in schedule(), where the victim may *)
(* be in the batch already, or by reset_prefix_cache.                       *)
Preempt(r) ==
  /\ status[r] = "running"
  /\ \/ phase \in {"running", "preempting"} /\ Cardinality(Free) < MaxNewBlocks
     \/ phase = "reset"
  /\ phase' = IF phase = "reset" THEN "reset" ELSE "preempting"
  /\ _free_request_blocks(r)
  /\ status' = [status EXCEPT ![r] = "waiting"]
  /\ batch' = batch \ {r}
  /\ UNCHANGED <<loading, last_sched_seq, sched_step_seq, processed_step_seq,
                 pending_cow_copies, batch_queue>>

(* The end of schedule(): retentions are handed over, the step is numbered  *)
(* if it has tokens, and queued.                                            *)
EndSchedule ==
  LET tokens == batch # {}
  IN /\ phase \in {"running", "preempting", "waiting"}
     /\ _free_cow_retained_blocks(cow_fence)
     /\ pending_cow_copies' = <<>>
     /\ sched_step_seq' = IF tokens THEN sched_step_seq + 1 ELSE sched_step_seq
     /\ last_sched_seq' = [r \in Requests |-> IF r \in batch THEN sched_step_seq + 1
                                              ELSE last_sched_seq[r]]
     /\ batch_queue' = Append(batch_queue,
          [seq |-> sched_step_seq + 1, tokens |-> tokens, reqs |-> batch,
           uses |-> TableBlocks(batch) \cup CopyBlocks])
     /\ batch' = {}
     /\ phase' = "idle"
     /\ UNCHANGED <<status, req_to_blocks, loading, processed_step_seq>>

-----------------------------------------------------------------------------
(* update_from_output() for the oldest step drains before anything else.    *)
BeginUpdate ==
  LET step == Head(batch_queue)
  IN /\ phase = "idle" /\ batch_queue # <<>>
     /\ phase' = "update"
     /\ batch' = step.reqs
     /\ batch_queue' = Tail(batch_queue)
     /\ IF step.tokens
        THEN /\ processed_step_seq' = processed_step_seq + 1
             /\ _drain_deferred_frees(processed_step_seq + 1)
        ELSE UNCHANGED <<processed_step_seq, deferred_frees, ref_cnt>>
     /\ UNCHANGED <<status, req_to_blocks, loading, last_sched_seq,
                    sched_step_seq, pending_cow_copies>>

(* A request leaves the engine (_free_request).  With keep the connector    *)
(* takes over its blocks; st is the status it waits in until then.          *)
_free_request(r, keep, st) ==
  /\ status' = [status EXCEPT ![r] = IF keep THEN st ELSE "finished"]
  /\ IF keep THEN UNCHANGED <<req_to_blocks, ref_cnt, deferred_frees>>
             ELSE _free_request_blocks(r)

(* The output of this step stops r.  r may have been preempted since.       *)
Finish(r, keep) ==
  /\ phase = "update" /\ r \in batch
  /\ status[r] \in {"running", "waiting"}
  /\ _free_request(r, keep, "sending")
  /\ batch' = batch \ {r}
  /\ UNCHANGED <<phase, loading, last_sched_seq, sched_step_seq,
                 processed_step_seq, pending_cow_copies, batch_queue>>

(* _update_from_kv_xfer_finished, after the requests of the step.           *)
FinishedRecving(r) ==
  /\ phase = "update"
  /\ loading' = [loading EXCEPT ![r] = {}]
  /\ \/ /\ status[r] = "loading"
        /\ status' = [status EXCEPT ![r] = "received"]
        /\ UNCHANGED <<req_to_blocks, ref_cnt, deferred_frees>>
     \/ /\ status[r] = "draining"
        /\ _free_request(r, FALSE, "finished")
  /\ batch' = {}
  /\ UNCHANGED <<phase, last_sched_seq, sched_step_seq,
                 processed_step_seq, pending_cow_copies, batch_queue>>

FinishedSending(r) ==
  /\ phase = "update"
  /\ status[r] = "sending"
  /\ _free_request(r, FALSE, "finished")
  /\ batch' = {}
  /\ UNCHANGED <<phase, loading, last_sched_seq, sched_step_seq,
                 processed_step_seq, pending_cow_copies, batch_queue>>

EndUpdate ==
  /\ phase = "update"
  /\ phase' = "idle"
  /\ batch' = {}
  /\ UNCHANGED <<status, req_to_blocks, loading, ref_cnt, last_sched_seq,
                 sched_step_seq, processed_step_seq, deferred_frees,
                 pending_cow_copies, batch_queue>>

(* finish_requests: the client aborts.  A request whose load is under way   *)
(* keeps its blocks until the connector is done with them.                  *)
Abort(r, keep) ==
  /\ phase = "idle"
  /\ status[r] \in {"waiting", "running", "loading", "received"}
  /\ IF status[r] = "loading" THEN _free_request(r, TRUE, "draining")
                              ELSE _free_request(r, keep, "sending")
  /\ UNCHANGED <<phase, loading, last_sched_seq, sched_step_seq,
                 processed_step_seq, batch, pending_cow_copies, batch_queue>>

(* reset_prefix_cache(reset_running_requests = True).                       *)
BeginReset ==
  /\ phase = "idle"
  /\ phase' = "reset"
  /\ UNCHANGED <<status, req_to_blocks, loading, ref_cnt, last_sched_seq,
                 sched_step_seq, processed_step_seq, deferred_frees, batch,
                 pending_cow_copies, batch_queue>>

EndReset ==
  /\ phase = "reset"
  /\ \A r \in Requests : status[r] # "running"
  /\ phase' = "idle"
  /\ UNCHANGED <<status, req_to_blocks, loading, ref_cnt, last_sched_seq,
                 sched_step_seq, processed_step_seq, deferred_frees, batch,
                 pending_cow_copies, batch_queue>>

Next ==
  \/ BeginSchedule \/ EndSchedule \/ BeginUpdate \/ EndUpdate
  \/ BeginReset \/ EndReset
  \/ \E r \in Requests :
       \/ \E new \in SUBSET Blocks : ScheduleRunning(r, new)
       \/ \E src, dst \in Blocks : \/ ScheduleRunningCow(r, src, dst)
                                   \/ ScheduleWaitingCow(r, src, dst)
       \/ \E hit, new \in SUBSET Blocks, load \in BOOLEAN :
            ScheduleWaiting(r, hit, new, load)
       \/ \E valid \in BOOLEAN : PromoteReceived(r, valid)
       \/ Preempt(r)
       \/ \E keep \in BOOLEAN : Finish(r, keep) \/ Abort(r, keep)
       \/ FinishedRecving(r)
       \/ FinishedSending(r)

Spec == Init /\ [][Next]_vars

(* The engine loop: a pass that began ends, and while a step is queued the  *)
(* loop comes back to wait for it between other work (run_busy_loop,        *)
(* has_work, step_with_batch_queue).                                        *)
FairSpec ==
  /\ Spec
  /\ WF_vars(EndSchedule) /\ WF_vars(EndUpdate)
  /\ WF_vars(EndReset) /\ WF_vars(phase = "reset" /\ \E r \in Requests : Preempt(r))
  /\ SF_vars(BeginUpdate)

-----------------------------------------------------------------------------
(* The types alone, from which TypeOK and the proofs start.                 *)
StateType ==
  /\ phase \in Phases
  /\ status \in [Requests -> Statuses]
  /\ req_to_blocks \in [Requests -> SUBSET Blocks]
  /\ loading \in [Requests -> SUBSET Blocks]
  /\ ref_cnt \in [Blocks -> Int]
  /\ last_sched_seq \in [Requests -> Nat]
  /\ sched_step_seq \in Nat
  /\ processed_step_seq \in Nat
  /\ deferred_frees \in Seq(Entry)
  /\ batch \in SUBSET Requests
  /\ pending_cow_copies \in Seq(Retained)
  /\ batch_queue \in Seq(Step)

(* The types, and no ref_cnt ever falls below zero: "ref_cnt" of a block is  *)
(* decremented only by a holder.                                            *)
TypeOK == StateType /\ \A b \in Blocks : ref_cnt[b] >= 0

(* The ref_cnt of a block is the number of its holders: tables, deferred     *)
(* entries and queued copies.  One decrement too few leaks the block for     *)
(* good, one too many returns it under a holder's feet.                      *)
RefCntExact ==
  \A b \in Blocks :
    ref_cnt[b] = InTables(b, req_to_blocks) + Held(b, deferred_frees)
                   + Held(b, pending_cow_copies)

(* What the fences are for: a block that a step in flight reads, writes or   *)
(* copies is not in the free pool, whatever became of its request.           *)
InFlightBlocksHeld ==
  \A i \in 1 .. Len(batch_queue) : \A b \in batch_queue[i].uses : b \notin Free

(* A connector load never fills a block that a step in flight touches, nor   *)
(* one that another request holds or a second load fills: the comment at     *)
(* defer_block_free in Scheduler.__init__.                                   *)
LoadsUndisturbed ==
  \A r \in Requests : \A b \in loading[r] :
    /\ \A i \in 1 .. Len(batch_queue) : b \notin batch_queue[i].uses
    /\ \A q \in Requests \ {r} : b \notin req_to_blocks[q]

(* "Any satisfied entry behind it is merely freed later": once step k + 1 is *)
(* issued, every entry with a fence up to k is eventually drained.           *)
HasFence(k) == \E i \in 1 .. Len(deferred_frees) : deferred_frees[i].fence <= k
DeferredDrained ==
  \A k \in 1 .. MaxSteps :
    (sched_step_seq > k /\ HasFence(k)) ~> ~HasFence(k)

==============================================================================
