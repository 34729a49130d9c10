# A TLA+ model of the vLLM V1 engine

This directory holds TLA+ specifications of the part of the repository that decides
*which request runs, in which memory, and what becomes of its output* (the scheduler,
the KV-cache manager with its block pool, the deferred freeing of blocks under
overlapping steps, the encoder cache), and of the protocols that carry out what it decides:
the shared-memory message queue, the executor and its workers, the waves of data-parallel
engines, and the threads of dual-batch overlap. The modules are translated from the code under
`src/vllm/`; `PROJECT.json` maps every definition to the lines it stands for.
TLC checks the modules on small instances, TLAPS proves thirty-two results for all instances.

## 1. The system

### 1.1 Components

| Part | State | Operations | Modelled in |
|---|---|---|---|
| `BlockPool`, `FreeKVCacheBlockQueue`, `BlockHashToBlockMap` | `ref_cnt` and hash of each block, LRU free queue, hash map, KV events | `get_new_blocks`, `touch`, `free_blocks`, `cache_full_blocks`, `reset_prefix_cache`, `emit_cached_block_events` | `BlockPool` |
| `KVCacheManager`, `UnitaryKVCacheCoordinator`, `FullAttentionManager`, `SlidingWindowManager` | block table and number of cached blocks per request | `get_computed_blocks`, `allocate_slots`, `free`, `remove_skipped_blocks` | `KVCacheManager` |
| Deferred freeing in `Scheduler` (`defer_block_free`) | `sched_step_seq`, `processed_step_seq`, `last_sched_seq`, `deferred_frees`, queued copies | `_free_request_blocks`, `_drain_deferred_frees`, `_free_cow_retained_blocks` | `DeferredBlockFree` |
| `Scheduler`, `AsyncScheduler`, request queues | request counters, three queues, issued steps | `schedule`, `update_from_output`, `finish_requests`, `add_request`, `reset_prefix_cache` | `Scheduler` |
| `EncoderCacheManager` and the workers' cache | entries, references, slot counters, freeable queue | `check_and_update_cache`, `can_allocate`, `allocate`, `free_encoder_input`, `free`, `reset` | `EncoderCache` |
| `MessageQueue`, `ShmRingBuffer`, `SpinCondition` | chunks with a written flag and one read flag per reader, indexes, sockets for payloads and pings | `enqueue`, `dequeue`, `acquire_write`, `acquire_read`, `recv`, `shutdown`, `wait_until_ready` | `ShmBroadcast`, abstractly `BroadcastQueue` |
| `MultiprocExecutor`, `FutureWrapper`, `WorkerProc` | futures not yet waited for, response queues, `is_failed` | `collective_rpc`, `result`, `worker_busy_loop`, `async_output_busy_loop`, `monitor_workers`, `shutdown` | `MultiprocExecutor` |
| `DPCoordinatorProc`, `DPEngineCoreProc`, `DPAsyncMPClient` | wave number and running flag of each, step counter, pause flags | requests and aborts, FIRST_REQ, START_DP_WAVE, all-reduce every 32 steps, pause and resume | `DPWave` |
| `UBatchContext`, `UBatchWrapper._run_ubatches` | events, forward context, receive hooks | enter, yield, register and run hooks, exit | `UBatching` |
| Hybrid and Mamba managers, KV connectors and offloading, model runner, structured output, drafters, output processing, API servers, kernels | | | not modelled, see section 7 |

### 1.2 How the parts interact

One thread of the engine core runs `schedule()`, `update_from_output()`, aborts, additions
and resets; none of them interrupts another. Concurrency comes from what runs beside that
thread:

* **Steps in flight.** `step_with_batch_queue` issues the next step before the last one's
  output is in. It processes the oldest output when the queue is full (two steps, or one more
  than the pipeline stages) or nothing is left to schedule. The scheduler therefore counts
  tokens it has not seen (`num_output_placeholders`) and drafts that may be rejected. It frees,
  preempts and aborts requests whose steps are still running.
* **Connector loads and sends** read and write KV blocks with no order relative to the steps.
* **Grammar compilation** ends at any time, with or without an error.
* **The workers' encoder cache** follows the manager's decisions one step later.

Around that thread there are more processes and threads, and these do interrupt each other:

* **Workers** receive each step through a ring in shared memory and answer through one ring each. A
  monitor thread beside the engine's notices the death of a worker and cancels what the engine waits for.
* **Data-parallel engines** of a mixture-of-experts model must enter every forward pass together. They stop by
  an all-reduce and are started again by a coordinator process that hears from clients and engines over
  separate sockets, so starts, stops, requests and pauses cross each other.
* **Micro-batches** of one forward pass run in threads that hand the processor to each other and complete
  each other's communication.

### 1.3 What is hard, and what must hold

The `hazards` list of `PROJECT.json` names each place. In short:

* a block may return to the pool only when no step in flight can touch it, and every
  reference must be dropped exactly once, whichever of the several paths a request leaves by;
* a cached block must contain what its hash says, although drafts were written to it;
* a freed sliding-window block must not be needed again after a rejection;
* an output that arrives after its request was preempted is delivered once or dropped once,
  without touching the counters that were reset;
* counters kept beside the data (placeholders, stale tokens, budget, encoder slots) must agree with it;
* every request must finish: no share that is never drained, no queue nobody looks at;
* every reader of the ring receives every message once, in order and whole, with nothing but flags to
  say so, and wakes up although pings are lost;
* a reply that carries no number must reach the call it answers, and no wait may outlive its worker;
* no engine may enter a collective that another has no reason to enter;
* one micro-batch runs at a time, and finds its communication completed when it resumes.

## 2. Modules

`MC*` modules define the small constants of the runs and nothing else. A definition named
`x_something` that is commented "Mutant of x" is a plausible bug in x. `PROJECT.json` pairs
each with the property it breaks; it takes no part in the specification.

**`BlockPool`** has no variables: the pool is a record (ref counts, free queue, map from hash to
blocks, events), and the operations are operators on it with the code's names. The linked list
is a sequence, with `popleft_n`, `remove`, `append_n` and `prepend_n`. Hashing is injective: a
block hash is the token prefix itself. The events are folded as a consumer would, into the set
of prefixes it believes cached.

**`KVCacheManager`** extends it with block tables and requests. `allocate_slots` is one
operator in the order of the code: full-length admission check, removal of skipped blocks,
capacity check, touch of the hit, new blocks, caching. The actions are the scheduler's calls:
admit, continue, process an output, preempt, finish, reset. `kv` records what every slot
holds, so that cache contents and attention reads can be compared with the truth; `Junk` is an
entry that depends on an unverified draft.

**`DeferredBlockFree`** treats tables and entries as sets of blocks, since their order plays no
part, and adds what makes the fences necessary: the blocks each queued step `uses`, and the
blocks a connector is `loading`. A pass is several actions, from `BeginSchedule` to
`EndSchedule` with one per request handled, because preemption in the middle of a pass matters
here. Nothing else runs in between; `phase` ensures it. The processing of an output and the reset are
split the same way. Copy-on-write appears in both forms: a hit on a partial block
(`ScheduleWaitingCow`) and a running request about to overwrite a cached block
(`ScheduleRunningCow`).

**`Scheduler`** is the control of `schedule()` and `update_from_output()`, with one action per
iteration of a loop. KV blocks are a count here and a prefix hit is a choice, so its
properties hold for whatever the KV-cache manager answers. A worker is what it samples.
`delivered` is the list of positions sent to the client. Placeholders, stale shares, drafts,
decode cadence (`next_decode_eligible_step`, kept relative to the current step so that it is
bounded), padding with drafts, grammar waits and both queue policies are all there.
Sampling of a step with a pending grammar token is not delayed: that changes when the
worker runs, not what is counted.

**`EncoderCache`** is the manager's record with its operations, `_try_schedule_encoder_inputs` with one action
per item of the chunk, and as much of the scheduler as drives it: the two loops of `schedule()` one request at a time,
`update_from_output` one request at a time. `worker` is the set of encoder
outputs the workers hold, changed when a step is issued, and `missed` the set of outputs that a
step read in vain. The engine core's reset clears both halves between steps. The loops inside the manager are closed forms
(the number of entries evicted, the slots of a set of entries as a cardinality), which can be reasoned about without induction.

**`BroadcastQueue`** is the abstract specification of a message queue: messages 1, 2, 3, ... sent by one
writer and received by every reader in order, with a bound on how far a reader is behind.

**`ShmBroadcast`** is `MessageQueue` for local readers, with one action per access to shared memory: the two
loads of `acquire_read`'s check, the two ends of writing and of reading a chunk (a chunk being written is
`Torn`), the read flags cleared one by one, the written flag. Messages too big for a chunk leave a marker in
it and go through a socket. Pings may be lost. Readers may time out, be shut down, and the writer may die
anywhere. It shows the queue under sequential consistency, which the code's `memory_fence` calls
are there to establish; weaker memory is not modelled. The writer's own check reads all read flags at
once: they only change in its favour while it looks.

**`MultiprocExecutor`** has the queues of `ShmBroadcast` at the grain that matters to the executor: a ring whose writer waits
while it is full, and for a big reply a marker in the ring followed by a payload on a socket (`sending` is the time in between).
A shutdown ends a wait in `acquire_read` only. The engine thread makes calls with or without a deadline, blocking
or not, to one worker or to all; `Methods` are those the code makes. `result()` collects the replies of older futures first. A reply is the
number of the call it answers, which the code does not have: the model uses it only to state the property. Workers may
raise, hang when a peer is dead, or die. The monitor's three steps interleave with everything.
The monitor replacing the queues in the middle of `collective_rpc` is not followed.

**`DPWave`** has clients, the coordinator and engines as separate processes, sockets in order per connection, the
wave numbers and the running flags that each of them keeps, and the pause protocol in mode "keep". A forward pass and an
all-reduce are collectives: an engine that begins one waits until all have. `Stress` names three
timings that the code is not prepared for (section 4); with `Stress = {}` they do not happen.

**`UBatching`** has one action per access to an event, the forward context or a hook, with the model reduced to
its pattern "run the other's hook, register my own, yield". A thread may raise anywhere in the model, and again in the hook that `__exit__` runs.

## 3. Runs

Every passing run explores its whole bounded state space. Deadlock checking is off where
the system may stop because every request is finished or a bound on the environment is reached.
It is on for `DeferredBlockFree`, where a reset is always possible between passes.

| Run | Instance | Shows |
|---|---|---|
| `kv_full_attention` | 2 requests with a shared prefix, 5 blocks of 2, drafts, 2 steps in flight, watermark, reserved admission, hits reported in full | `TypeOK`; `CacheMapConsistent` (hash map, blocks and queue agree, and the pool's assertions hold); `CacheTruth` (a cached block holds its prefix); `PrefixClosed` (eviction never strands an extension); `EventsSound` |
| `kv_sliding_window` | blocks of 1, window 3, EAGLE drop, drafts, 2 steps in flight | `BlockAccounting` (every block is free or held, never both, counts exact); `AttendsOwnPrefix` (a request reads its own KV) |
| `deferred_free` | 2 requests, 2 blocks, 2 steps in flight, 3 step numbers, fair | `RefCntExact`, `InFlightBlocksHeld`, `LoadsUndisturbed`, `DeferredDrained` |
| `sched_fcfs` | 3 requests, one with a grammar, 4 blocks, an abort, stale outputs dropped, fair | `RequestPlaced`, `AllFinish` |
| `sched_priority` | 3 requests, 3 steps in flight, preemption within a pass, prefix hits, an abort, a reset | `TypeOK`, `BudgetExact`, `NoExtraStep`, `AccountingExact`, `DeliveredInOrder`, `AdmitsMostUrgent` |
| `encoder_cache` | 3 requests share 3 images, a cache for two, EAGLE shift, preemption, abort, reset | `TypeOK`, `SlotsExact`, `NoOrphanReference`, `WorkerAgrees`, `NoEncoderMiss` |
| `encoder_live` | 2 requests, unsplit images, a reset, cache and budgets as small as `WindowsFit` allows, fair | `AllFinish` (under `WindowsFit`) |
| `shm_broadcast` | 2 readers, 2 chunks, 3 messages of either size, one reader with timeouts, fair | `Broadcast` (the ring implements `BroadcastQueue`), `Delivered`, `ShutdownWakes` |
| `executor` | 2 workers with output threads, 2 calls of four kinds, a queue of 2, rings of 1 chunk, big and small replies, fair | `TypeOK`, `OwnReplies`, `NoHang`, `DeathNoticed` |
| `dp_wave` | 2 engines, a client with 2 requests, an abort, a pause, all-reduce every 2 steps, fair | `WavesReached`, `Lockstep`, `NoneStranded`, `CoordinatorAgrees`, `AllServed` |
| `ubatch` | 2 threads, 3 yields each, either may raise, fair | `YieldAlone`, `HookRun`, `AllFinish` |

One more run, `dp_stranded`, ends in a violation; it is in section 4.

**Bounds.** Two requests suffice for most sharing hazards: one holds or frees what the other
takes. Three appear where a queue needs a middle (priorities, the second
waiting queue). In `kv_full_attention` one request fills three blocks of which it shares the first, so that
an extension could be left without its middle. Pools are one or two blocks short of what all requests need together, so
preemption and eviction happen; one block of each KV pool is the null block. Two steps in
flight is what async scheduling issues; three is pipeline parallelism of two.
`MaxPreemptions`, `MaxAborts`, `MaxResets` and `MaxSteps` bound the environment; a
reset beside preemptions lets a stale share meet a second preemption. Lengths are such that a prefill takes
more than one chunk and a decode more than one step. The instance of `deferred_free` is small because
its safety properties are also proved for all instances (section 5).
The cap on the blocks of a sliding-window request is larger than any request in these runs. `SkipReading` is empty: a request that
does not read the prefix cache only has fewer hits (both KV runs were also checked with one).
Three messages through two chunks is the least that wraps the ring and finds it full; `Broadcast` is proved for
every size. Two calls are enough for a reply to reach the wrong one, and with one chunk the second call finds the ring full
while a worker has not read the first. `encoder_live` has the cache (3) and the compute budget
(3) exactly as large as the two adjacent images of request 2 and the token budget as the longer one with the token before it; smaller ones stall (section 4). A fifth kind of call (a utility call with a deadline) and workers without output threads were also checked, with the
same result; they are left out of the run for time. In `dp_wave` two requests
let one arrive while the stop that follows the other is being reported, and an interval of two makes both kinds of step
happen; more waves repeat the same states with other numbers. The step counter, which the code never wraps, goes back by an interval
past `MaxStep` = 2: so 0 is seen only after a stop, and every remainder is kept. With three micro-batches a thread that raises leaves the
others waiting (section 4), so `ubatch` has the two that dual-batch overlap uses.

**Fairness.** `Scheduler` and `EncoderCache`: weak fairness of the engine's next step, which `run_busy_loop`
takes whenever there is work, and of the grammar compiler, each compilation of which ends.
Aborts, resets and arrivals are never fair.
`DeferredBlockFree`: weak fairness of the end of a pass, of an update and of a reset, whose code runs
to the end, and strong fairness of `BeginUpdate`: while a step is queued the loop comes back to
it between other work, though additions or aborts may come first each time. `DeferredDrained` asks for
a later step to be issued, because the last entries are drained only by the next output.
`ShmBroadcast`: weak fairness of each reader, whose process calls `dequeue` in a loop, and of the writer inside an
enqueue; not of starting one, nor of timeouts, pings, shutdown or death. The end of a poll is fair: that is the recheck interval.
`MultiprocExecutor`: weak fairness of the engine while it waits (deadlines do pass), of the monitor, of a payload once its marker is written, and of
workers only while all are alive, since a collective with a dead peer hangs. `DPWave`: weak fairness of every process, strong fairness of an
engine's input, which is drained between any two steps, and of a forward pass that comes to the end of its requests, since generation is
bounded; a pause reaches every engine and is followed by a resume. `UBatching`: weak fairness of each thread.

## 4. Findings

One run checks a statement of the repository that TLC refutes; `PROJECT.json` quotes the lines.

| Run | Statement | What the code does |
|---|---|---|
| `dp_stranded` | "Engines will move into running state when receiving a new request or START_DP_WAVE message" (`src/vllm/v1/engine/coordinator.py`) | the engine left out of START_DP_WAVE because it has the request does not run if the request's abort is drained with it; the other engines, woken, wait for it in the collective |

`DPWave` names two more timings under which `NoneStranded` fails in the same way. Set `Stress` in `DPStranded.cfg` to
see them:

* `late_notice`: `run_engine_stats_update_task` stamps a FIRST_REQ notice with the client's wave at the time it is sent,
  not with the request's. If the task is held up while the wave ends and the client hears of it, the notice
  excludes an engine that no longer has the request.
* `busy_pause`: a START_DP_WAVE that is on its way when a pause is agreed or a resume begins is ignored by the engines
  still paused and obeyed by the others. `ignore_start_dp_wave` protects against messages that arrive within the pause only.

Other places where the code does less than its text says. They were checked with TLC while the modules were
written and have no run of their own:

* `src/vllm/v1/core/sched/scheduler.py`: a waiting request padded with drafts exactly to `max_model_len` is given a share of -1 tokens
  in the next pass, against the assertion `num_tokens_scheduled > 0`. Reached with a prefix hit (`MaxHit`) next to
  the length limit. In the runs a hit and the drafts behind it stay below `MaxModelLen`; `HitsFit` (section 5) is that condition.
* `src/vllm/v1/core/sched/scheduler.py`, under the priority policy: a victim unscheduled in the pass that scheduled its image
  leaves a cache entry that no worker computes, and a later hit on it is an encoder cache miss. `Policy = "priority"` with `Shift = 0` in `Encoder.cfg` shows it.
* `_try_schedule_encoder_inputs` with the EAGLE shift: a chunk is cut one token before an item that cannot be had
  (`src/vllm/v1/core/sched/scheduler.py:1579`), but the item before it is given back only one token after its end (`:2138`). Two
  items less than two tokens apart are therefore needed together, and a request waits for ever, with 0 tokens in every pass, in three cases that
  `compute_mm_encoder_budget` accepts: they do not fit into the cache together (`CacheSize = 2` in `EncoderLive.cfg`: request 2 stops at position 1); they
  do not fit into the compute budget together and the first is not cached any more (`EncoderBudget = 2`, after a reset; a prefix hit that ends inside it does the same);
  an item that must not be split is as long as the token budget (`MaxNumScheduledTokens = 2`). The comment
  of the branch ("Because of prefix caching, num_computed_tokens is greater than start_pos", `:1586`) has another case in mind. `WindowsFit` in `EncoderCache` excludes
  the three cases and is the condition of `AllFinish`; to see them, check `AllFinish` without it. Of 567 small
  instances (cache, budgets, shift, layout of items, one reset) all 458 that satisfy `WindowsFit` finish, and 91 of the 109 others stall.
* `src/vllm/v1/executor/multiproc_executor.py`: a call that fails or times out leaves replies of other workers in their queues. A later utility call
  returns them as its own: "A list containing the results from each worker" (`src/vllm/v1/executor/abstract.py:179`). `OwnReplies` therefore speaks
  of calls before the first failure.
* `src/vllm/v1/worker/gpu_ubatch_wrapper.py`: the result of a micro-batch whose thread raised is missing from the concatenated output,
  and no error reaches the caller. A receive hook that raises in `__exit__` (`src/vllm/v1/worker/ubatching.py:69`) skips the signal of the
  next line: the other thread is not woken and `join` never returns (`RaiseInExit`, which `AllFinish` excepts). With three micro-batches the thread after a raising one finds its event cleared, and `join` never returns.
* `src/vllm/distributed/device_communicators/shm_broadcast.py`: a reader that times out between the marker and the payload of a big message takes
  the late payload for the next one (`broken` in `ShmBroadcast`). A writer in `acquire_write` does not look at `shutting_down`, and
  a reader in `recv` is not woken by it.
* `src/vllm/v1/executor/multiproc_executor.py`, as a consequence: two waits of the engine are ended by no shutdown, and then EXECUTOR_FAILED stays in
  an input queue that nobody reads. `HeldInRecv`: a worker dies between the marker and the payload of a big reply to a call
  without a deadline (`execute_dummy_batch`, `take_draft_token_ids`, a utility call). `HeldInWrite`: the broadcast ring is full and a worker that has
  not read it is dead. `NoHang` and `DeathNoticed` say that the engine comes back, and ends, everywhere else; both states are reached in the run.
  `HeldInWrite` has a second form with every process alive. Without output threads a worker whose
  response ring is full does not read the next call, while the engine waits for room for it. Rings have ten chunks and
  a batch is two calls, so this takes eleven batches in flight without async scheduling (a pipeline of eleven stages);
  with `Async = FALSE`, one worker, `BatchQueueSize = 4` and `MaxCalls = 4` TLC reaches it.

Four comments say more than the code does:

* `src/vllm/v1/kv_cache_interface.py:593` "Per-request real-held blocks plateau at this bound": the cap counts no lookahead slots, which
  `allocate_slots` does allocate, so a window request may hold a block more.
* `src/vllm/v1/core/block_pool.py:383` "the blocks are already cached": for a sliding-window hit the null placeholders left
  of the window are announced as well, evicted or not. `EventsSound` is therefore checked for windows only without full reports.
* `src/vllm/v1/core/sched/scheduler.py:2347` "always the case for a normal finish": a stop token usually arrives with the next step in
  flight, and the blocks are deferred, which `tests/v1/core/test_deferred_block_free.py` expects.
* `src/vllm/v1/core/sched/scheduler.py:2437` "we can make sure the reset is successful": with deferred frees and a step in flight the
  pool is not empty, and the reset is refused.

## 5. Proofs

The theorems hold for every value of the constants that satisfies the assumption of the module
(`DeferAssumption`: any set of blocks, any finite set of requests; `ShmAssumption`: any number of readers, chunks and messages;
`UBatchAssumption`: any number of micro-batches above one, any number of yields; `ExecutorAssumption`: any number of workers,
calls and chunks; `DPAssumption`: any number of engines, clients, requests and pauses, any interval between all-reduces, any of
the adverse timings; `EncoderAssumption`: any requests whose items lie one behind the other and fit into the cache and the budgets;
`SchedulerAssumption`: any requests with different ranks and a prompt below `max_model_len`, any budget, pool, depth of the batch
queue and number of drafts; `PoolAssumption` and `ManagerAssumption`: any number of blocks, any block size, any finite set of requests
with any tokens, any window but 1, any watermark, budget, lookahead, number of drafts and depth of the batch queue).
Two theorems on `EncoderCache` also assume `Policy = "fcfs"`, one on `Scheduler` assumes `Policy = "priority"`, and five
on `Scheduler` assume `HitsFit`, explained there. `EventsTrue` on `KVCacheManager` excludes windows with full reports, and
`NoExtensionStranded` is for full attention. There are no other assumptions.

* `KVCacheManager_proofs`: **`AccountingExact`** (`Spec => []BlockAccounting`), **`MapsAgree`** (`CacheMapConsistent`), **`CacheHolds`**
  (`CacheTruth`), **`WindowKept`** (`AttendsOwnPrefix`), **`EventsTrue`** (`EventsSound`), **`NoExtensionStranded`** (`PrefixClosed`)
  and **`TypeCorrect`**. They rest on one inductive invariant, `Inv`:
  - `Core`: what the pool and the tables owe to each other. Counts are exact, the queue holds the blocks without references once, the
    map and the hashes agree, no assertion has failed; the entries of a table are different blocks; a hash in a table is that of
    the request's own prefix, and blocks behind `num_cached_block` have none. A block *without* a hash is in one table only (`PrivateOK`):
    only a prefix hit shares blocks, so what a step overwrites is nobody else's;
  - `Linked`, a part of `Core` for full attention. `ChainOK`: a cached extension has a cached block of the prefix one block shorter.
    `QueueOK`: if the extension is free, one such block is in use or *behind* it in the free queue. Evictions take the front, so `ChainOK`
    survives them only by `QueueOK`, which in turn holds because `free` gives a table back tail first and blocks without a hash go to the front;
  - `RequestOK`: the placeholders are the outputs of the steps in flight, `num_computed_tokens` is where they put it, a table reaches as far as
    what is computed, no more blocks are cached than are known, and a null entry lies left of the window
    that begins where the oldest step in flight would leave it if all the drafts behind it were rejected;
  - `ContentOK` and `CacheTruth`: a table holds the right entries for the first `Known` positions, those that no rejection can take
    back, and a cached block holds those of its prefix. Neither is inductive alone: a block is cached
    because the table is right, and a table is right after a hit because the cache is.

  Each method of the pool (`RemoveHashes`, `get_new_blocks`, `touch`, `free_blocks`, `cache_full_blocks`, `reset_prefix_cache`) and of the
  managers is first shown to keep `Core`; each action is then put together from them in the order of `allocate_slots`. The free queue
  is handled through the members of `Only` and their order, and sums over the steps in flight as in `Scheduler_proofs`. TLC checked `Inv` on the
  constants of both runs and two more instances before it was proved.
  `EventsTrue` is stated for full attention, or without full reports: otherwise the pool announces placeholders too (section 4).
  `NoExtensionStranded` is false for a window: there the blocks behind it are freed, and evicted, first.

* `DeferredBlockFree_proofs`: **`RefCountsExact`** (`Spec => []RefCntExact`) and
  **`TypeCorrect`** (`Spec => []TypeOK`). The types (`StateType`) together with `RefCntExact` are inductive.
  That no count is negative needs the exact counts. Most of the work is in the lemmas on counting
  holders: what appending an entry (`HeldAppend`), joining two queues (`HeldConcat`), draining a
  prefix (`DrainType`), extending a table (`InTablesGrow`) or clearing it (`InTablesClear`) does to
  the number of holders.

  **`InFlightSafe`** (`Spec => []InFlightBlocksHeld`) and
  **`LoadsSafe`** (`Spec => []LoadsUndisturbed`) are in the same module. "Not free" says nothing of when a reference
  will be dropped, so the property is not inductive. The strengthening is `FenceInv`:
  - `StepsInOrder`: queued steps are numbered in order above `processed_step_seq`, without gaps, so
    the output being processed is always the next number;
  - `LastSeqIssued`: no request was scheduled in a step that is not issued;
  - `BatchRunning`: the requests of the step being built are running;
  - `Pinned`: every block of a queued step is in the table of a live request scheduled in that step or later, or
    in an entry fenced behind it.

  `_free_request_blocks` turns the first kind of pin into the second (`FreeKeepsPins`). A drain pops only entries
  fenced up to the step it processes (`DrainKeeps`), and the steps that remain have larger numbers. For the
  loads, `LoadsPrivate` adds that a block being filled is in the loading request's table and in no
  queued copy: a load starts on free blocks, which `InFlightSafe` keeps apart from all steps.

* `ShmBroadcast_proofs`: **`Implements`** (`Spec => Broadcast`, the refinement of `BroadcastQueue`) and **`TypeCorrect`**.
  The variables of `BroadcastQueue` are those of the same name, so what has to be shown is that every other action
  stutters, that `MarkWritten` is allowed to send and that `MarkRead` and `Recv` deliver the next message. The inductive
  invariant is `TypeOK` with
  - `RingOK`: where the chunks of the last messages lie and what their flags and data are;
  - `WriterOK`: what the writer knows of the chunk it is in, by control point;
  - `Place`, `Knows` and `Stream` for each reader: its index is that of the next message to take; what it has loaded is still true
    when it uses it (a chunk that it is about to read is not reused before its own flag is set); its socket holds the payloads
    it still needs, in order, unless it is `broken`.
* `UBatching_proofs`: **`OneRunner`** (`Spec => []YieldAlone`), **`HooksRun`** (`Spec => []HookRun`) and **`TypeCorrect`**. The
  strengthening counts one token: at most one of the running threads, the set events and the main thread's kick
  carries it, so a thread that wakes finds nobody else awake. A hook not yet run is registered with the next thread, which
  must run it before the token can come back.

* `MultiprocExecutor_proofs`: **`RepliesMatchCalls`** (`Spec => []OwnReplies`) and **`TypeCorrect`**. Nothing in a reply
  says which call it answers, so the invariant accounts for all replies still under way. Its parts beside the types are
  - `FuturesOK`: a future is pending exactly while it is in `futures_queue` or in hand, and the queue holds the latest calls in order;
  - `RepliesOK`: until a call fails, the entries of a worker's response ring, followed by the outputs not yet enqueued, are in the order
    of their calls, and they are exactly the replies, to calls the worker has run, that the engine has still to read; the payloads on
    the socket are those of the markers in the ring and of the marker in the engine's hand, in the same order;
  - `PartsOwn`: the replies collected so far in a wait are of the call being waited for.

  The reply at the head of a queue is then the smallest number the worker owes, and `result()` waits for the oldest
  future first, which asks for the same number.
* `DPWave_proofs`: **`EnginesInLockstep`** (`Spec => []Lockstep`) and **`WavesNeverAhead`** (`Spec => []WavesReached`), for every `MaxStep`
  and without it (`MaxStep = 0` is the code's counter). Engines decide alone whether to enter a
  collective. They agree because the step counter and the wave change only inside one, on all engines at once: `Uniform`. That they go on
  to the all-reduce together follows from the equal counters. `FreshAtZero`: a stopped engine has its counter back at 0, as
  prefill throttling supposes. `WavesBounded` says that no client, coordinator or message
  is ahead of the engines' wave, without which an engine could adopt a number the others do not have; `AddsKnown`, that requests on their way were sent.
  `ControlOK` (at most one pause or resume on its way, as the call says) and `PauseOK` (what a pause under way implies for the flags, and that engines
  stopped by the consensus are all stopped until all resume) keep a paused engine out of collectives and show that no
  resume is refused. The theorem holds for all of `Stress`: engines left out of a
  wave wait (`NoneStranded` fails), but never in different collectives.
* `EncoderCache_proofs`: **`SlotsAreExact`** (`SlotsExact`), **`ReferencesOwned`** (`NoOrphanReference`), **`WorkersFollow`**
  (`WorkerAgrees`), **`NoMiss`** (`NoEncoderMiss`) and **`TypeCorrect`**. The parts of the inductive invariant are
  - `ManagerOK`, kept by each of the manager's operations: both slot counters are what the entries leave over, and the
    freeable queue lists the entries without references, each once;
  - `Owned`: a reference is recorded with the request that holds it;
  - `QueuesOK`, `SchedOK`: a request is in one queue, once, and the requests of the step are running, before `req_index` in the loop;
  - `CurOK`: the inputs chosen so far have different hashes, none of them cached, and fit into the free slots together, so an
    eviction for the next item leaves room for all of them;
  - `Round`, under FCFS: every item in the window of a scheduled request, and every item of the chunk already scanned, has a
    reference of that request (or will be allocated with the chunk), so neither an eviction nor another request's end can remove it;
    and the manager's entries are the workers' without those evicted and with those the step encodes.

  Under the priority policy a request that is already in the step may be preempted; its new entries stay, and `Round` is false (section 4).
  The operators on sequences that the proofs need (`InOrder`, `Only`) are characterised by the rank of an element, and a set of slots by
  the cardinality of a union of disjoint sets (`SumPart`), because the prover cannot do induction.
* `Scheduler_proofs`. Two results rest on `Base`: the types, that a request is in one queue, once, exactly as its status
  says (`QueuesOK`), that the requests of the step are running and before `req_index` in the loop (`PassOK`), and that the
  queues of the priority policy are sorted. They are **`PlacedOnce`** (`Spec => []RequestPlaced`) and
  **`MostUrgentFirst`** (the action property `AdmitsMostUrgent`; it is about the priority policy).
  The other five, **`TypeCorrect`** (`TypeOK`), **`BudgetSpent`** (`BudgetExact`), **`InOrderDelivery`** (`DeliveredInOrder`), **`CountersExact`**
  (`AccountingExact`) and **`NeverTooMany`** (`NoExtraStep`), rest on `Inv`, which adds
  - `GrantsOK`: what is left of the budget and what the step was given make up the whole, and each grant stays below the length
    limit and has as many drafts as it reaches beyond the known tokens;
  - `StepsFit`: a step samples at most one token more than it has drafts;
  - `RequestsOK`: for each request there is a `k` such that the first `k` steps in flight are stale and the rest are not (`LiveFrom`). The
    stale counter is what the first `k` hold, the placeholders are what the others are waiting for, and the tokens in
    flight are what all hold (`Counts`). Behind the steps that will be dropped, each output begins
    where the one before it ends (`InOrder`). Steps that sample are `PpSize` apart,
    and `next_decode_eligible_step` has not run down before (`Spaced`). This is why no request is given a step for a token it may not have.

  A preemption or a reset makes all steps stale (`k` becomes the length of the queue), an output takes the first step away, and a request
  that is admitted again begins behind the stale ones. The prover has no induction, so sums over the queue
  are a recursive function (`RunningTotal`), and the induction along it is the least element of a set of counterexamples (`UpTo`).
  TLC checked `Inv` on the constants of both runs and two more instances before it was proved.
  `HitsFit` says that the longest prefix hit of a request, the token behind it and the drafts it is padded with
  stay below `max_model_len` (or that there are no drafts). Without it `Inv` is false: the code then gives out a share of -1 (section 4).

**Only model-checked.** `NoneStranded` and `CoordinatorAgrees` of `DPWave` (which hold only without
`Stress`), and all liveness properties: temporal reasoning under fairness and `ENABLED` are out of the prover's reach, and so
is induction over sequences through the library's higher-order induction theorems. No module uses
`RECURSIVE`; folds and `CHOOSE` are used instead, so that theorems may be added to any of them.

## 6. Running

    tlc -config SchedFcfs.cfg MCScheduler
    tlapm DeferredBlockFree_proofs.tla

Each `.cfg` is one run; `PROJECT.json` names its module.

## 7. Not modelled

* **Hybrid and Mamba managers, partial-block hits**: several groups with different block sizes; planned.
* **KV connectors, offloading, failed loads**: only the scheduler's view of transfers (`DeferredBlockFree`).
* **Engine core**: start-up handshakes, shutdown with draining, utility calls, sleep, the pause modes "abort" and
  "wait", elastic expert parallelism and load-balancing counts. One empty step that `schedule()` issues only to report finished
  requests to the workers is left out of `Scheduler`: it carries no share.
* **Message queues and executors**: readers on other nodes (a plain socket), process creation, the Ray and uniprocess executors.
* **Parts of the scheduler**: LoRA limits, pause states, streaming sessions, prefill throttling,
  Mamba chunk splitting, `EncoderDecoderCacheManager`, the encoder-cache connector.
* **Details left out of a module that has the rest**: `KVCacheManager` admits without draft padding (it is in `Scheduler`) and without
  `VLLM_PREFIX_CACHE_RETENTION_INTERVAL`, which only caches less. `EncoderCache` starts a request at token 0; a prefix hit that ends inside
  an image reaches the branch that a reset of the encoder cache reaches here. Every token of an image is an embedding (no `is_embed` mask).
* **Workers, models, kernels, samplers, drafters, grammars, API servers, output text**: numerical,
  library or sequential text code. The models choose freely what they answer.

## 8. Plan

Done: `BlockPool` and `KVCacheManager`, `DeferredBlockFree`, `Scheduler`, `EncoderCache`, `ShmBroadcast` with its abstract
specification, `MultiprocExecutor`, `DPWave`, `UBatching`, and the proofs above. Next, in order:

1. Proofs: `NoneStranded` and `CoordinatorAgrees` of `DPWave`, under the condition that
   none of `Stress` happens.
2. `KVConnector`: asynchronous loads, invalid blocks and the rollback of requests that share them;
   then the CPU offloading manager.
3. `HybridKVCache`: the common hit of several groups, partial blocks, copy-on-write and
   `move_block_hashes`; composition with `DeferredBlockFree`, which would also answer whether deferred
   frees let one shortage preempt every running request.
4. `FreeBlockQueue`: the doubly linked list with its sentinels, shown to implement the sequence that
   `BlockPool` uses (refinement).
5. Streaming sessions and pause states in `Scheduler`; an abstract specification of what a request
   sees (its tokens, once and in order) and `Scheduler` shown to implement it.
