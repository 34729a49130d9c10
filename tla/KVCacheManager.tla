--------------------------- MODULE KVCacheManager ---------------------------
(***************************************************************************)
(* Allocation and prefix caching for a model with one KV-cache group: the  *)
(* KVCacheManager, the UnitaryKVCacheCoordinator and one single-type       *)
(* manager, FullAttentionManager (SlidingWindow = 0) or                    *)
(* SlidingWindowManager, over the shared BlockPool.                        *)
(*                                                                         *)
(* The scheduler that drives it appears as the calls it makes: admit a     *)
(* waiting request, give a running one more tokens, process an output,     *)
(* preempt, finish, reset.  Steps are issued ahead of their outputs (async *)
(* scheduling), and a step may carry draft tokens that the model rejects.  *)
(*                                                                         *)
(* Tokens[r] is the sequence request r ends up with: its prompt and what   *)
(* greedy decoding yields.  kv[b][s] is the prefix whose KV entry slot s   *)
(* of block b holds once the steps issued so far have run, Junk if that    *)
(* depends on a draft nobody has verified.                                 *)
(***************************************************************************)
EXTENDS BlockPool

CONSTANTS
  Requests,
  Tokens,                  \* [Requests -> Seq(token)]
  NumPrompt,               \* num_prompt_tokens, [Requests -> Nat]
  MaxModelLen,             \* max_model_len
  BlockSize,               \* block_size = hash_block_size
  SlidingWindow,           \* sliding_window, 0 for full attention
  NumSpec,                 \* num_spec_tokens, drafts in a decode step
  NumLookahead,            \* num_lookahead_tokens
  UseEagle,                \* the group drops the last matched block
  ReserveFullISL,          \* scheduler_reserve_full_isl
  WatermarkBlocks,         \* watermark_blocks
  ReportFull,              \* kv_cache_report_mode = "full"
  SkipReading,             \* requests with skip_reading_prefix_cache
  MaxBatchedTokens,        \* max_num_batched_tokens
  MaxConcurrentBatches,    \* max_concurrent_batches
  MaxPreemptions           \* bound on the preemptions of one request

ASSUME ManagerAssumption ==
  /\ IsFiniteSet(Requests)
  /\ BlockSize \in Nat \ {0}
  /\ {MaxModelLen, NumSpec, NumLookahead, WatermarkBlocks, MaxBatchedTokens,
      MaxConcurrentBatches, MaxPreemptions} \subseteq Nat
  /\ {UseEagle, ReserveFullISL, ReportFull} \subseteq BOOLEAN
  /\ SlidingWindow \in Nat \ {1}
  /\ NumPrompt \in [Requests -> Nat]
  /\ \A r \in Requests : /\ Tokens[r] \in Seq(ToSet(Tokens[r]))
                          /\ NumPrompt[r] \in 1 .. Len(Tokens[r]) - 1
                          /\ Len(Tokens[r]) <= MaxModelLen
  /\ Hashes = UNION {{SubSeq(Tokens[r], 1, i * BlockSize) :
                        i \in 1 .. Len(Tokens[r]) \div BlockSize} : r \in Requests}

VARIABLES
  pool,
  req_to_blocks,           \* [Requests -> Seq(Blocks)]
  num_cached_block,        \* [Requests -> Int], -1 when r is not a key
  status, num_tokens, num_computed_tokens, num_output_placeholders,
  spec_token_ids,          \* number of drafts waiting to be scheduled
  in_flight,               \* [Requests -> Seq(issued step)], oldest first
  stale,                   \* how many of those were issued before a preemption
  num_preemptions,
  kv

reqVars == <<status, num_tokens, num_computed_tokens, num_output_placeholders,
             spec_token_ids, in_flight, stale, num_preemptions>>
vars == <<pool, req_to_blocks, num_cached_block, reqVars, kv>>

Junk == <<>>
cdiv(a, b) == (a + b - 1) \div b
Max0(a) == IF a > 0 THEN a ELSE 0
Lower(a, b) == IF a < b THEN a ELSE b
Upper(a, b) == IF a > b THEN a ELSE b
block_hashes(r) == [i \in 1 .. Len(Tokens[r]) \div BlockSize |->
                      SubSeq(Tokens[r], 1, i * BlockSize)]

-----------------------------------------------------------------------------
(* The attention type: what it skips and what counts as a prefix hit.       *)

get_num_skipped_tokens(n) ==
  IF SlidingWindow = 0 THEN 0 ELSE Max0(n - SlidingWindow + 1)

_contiguous_blocks_for_hit ==
  cdiv(SlidingWindow - 1, BlockSize) + (IF UseEagle THEN 1 ELSE 0)

(* FullAttentionManager: the longest run of cached blocks from the start,   *)
(* less one block for EAGLE.                                                *)
FullHit(hits, m) ==
  LET n == CHOOSE k \in 0 .. m : /\ \A i \in 1 .. k : hits[i] # null_block
                                 /\ k < m => hits[k + 1] = null_block
  IN SubSeq(hits, 1, IF UseEagle THEN Max0(n - 1) ELSE n)

(* SlidingWindowManager: scan from the right for a run that covers the      *)
(* window; what lies left of the run stays null.  Without such a run, the   *)
(* cached blocks at the very start are the hit.                             *)
WindowHit(hits, m) ==
  LET need == _contiguous_blocks_for_hit
      Ends == {e \in need .. m : \A i \in e - need + 1 .. e : hits[i] # null_block}
      end == CHOOSE e \in Ends : \A f \in Ends : f <= e
      start == CHOOSE k \in 0 .. m : /\ \A i \in 1 .. k : hits[i] # null_block
                                     /\ k < m => hits[k + 1] = null_block
      blocks == IF Ends # {}
                THEN [i \in 1 .. end |->
                        IF i > end - need THEN hits[i] ELSE null_block]
                ELSE SubSeq(hits, 1, start)
  IN IF UseEagle /\ blocks # <<>> THEN SubSeq(blocks, 1, Len(blocks) - 1)
                                  ELSE blocks

find_longest_cache_hit(p, hashes, max_length) ==
  LET m == max_length \div BlockSize
      hits == [i \in 1 .. m |-> get_cached_block(p, hashes[i])]
  IN IF SlidingWindow = 0 THEN FullHit(hits, m) ELSE WindowHit(hits, m)

(* SlidingWindowSpec.max_admission_blocks_per_request: the window and the   *)
(* tokens of every step in flight, one block more for the alignment.        *)
max_admission_blocks_per_request ==
  cdiv(Lower(SlidingWindow - 1 + MaxBatchedTokens * MaxConcurrentBatches,
             MaxModelLen), BlockSize) + 1

-----------------------------------------------------------------------------
prefix_cache_lookup_enabled(r) == EnableCaching /\ r \notin SkipReading

(* KVCacheManager.get_computed_blocks, without the statistics.  A hit never *)
(* covers the whole request: the last token is recomputed for its logits.   *)
get_computed_blocks(p, r) ==
  IF prefix_cache_lookup_enabled(r)
  THEN find_longest_cache_hit(p, block_hashes(r), num_tokens[r] - 1)
  ELSE <<>>

report_hit(p, r, computed) ==
  IF ReportFull /\ computed # <<>>
  THEN emit_cached_block_events(p, Len(computed), block_hashes(r))
  ELSE p

(* SingleTypeKVCacheManager.get_num_blocks_to_allocate.                     *)
get_num_blocks_to_allocate(p, r, blocks, need_slot, computed, total, cap) ==
  LET n == cdiv(need_slot, BlockSize)
      required == IF cap /\ SlidingWindow > 0
                  THEN Lower(n, max_admission_blocks_per_request) ELSE n
      have == Len(blocks)
      skipped == get_num_skipped_tokens(total) \div BlockSize
      inside == {i \in 1 .. Len(computed) : i > Max0(skipped - have)}
      evictable == {i \in inside :
                      computed[i] # null_block /\ p.ref_cnt[computed[i]] = 0}
  IN IF num_cached_block[r] >= 0
     THEN Max0(required - have)
     ELSE Max0(required - Upper(skipped, Len(computed) + have))
            + Cardinality(evictable)

(* remove_skipped_blocks and _remove_blocks_in_range: walk back from the    *)
(* last skipped block to the first null one, free what is passed.           *)
remove_skipped_blocks(p, blocks, processed) ==
  LET last == Lower(get_num_skipped_tokens(processed) \div BlockSize, Len(blocks))
      nulls == {i \in 1 .. last : blocks[i] = null_block}
      first == IF nulls = {} THEN 0 ELSE CHOOSE i \in nulls : \A j \in nulls : j <= i
      freed == Reverse(SubSeq(blocks, first + 1, last))
  IN [pool   |-> IF freed = <<>> THEN p ELSE free_blocks(p, freed),
      blocks |-> [i \in 1 .. Len(blocks) |->
                    IF i \in first + 1 .. last THEN null_block ELSE blocks[i]]]

RunningTotal(s) ==
  LET t[i \in 0 .. Len(s)] == IF i = 0 THEN 0 ELSE t[i - 1] + s[i] IN t
Total(s) == RunningTotal(s)[Len(s)]

(* num_in_flight_tokens: the tokens of the steps not processed yet.         *)
Sizes(steps) == [i \in 1 .. Len(steps) |-> steps[i].n]
InFlightTokens(r) == Total(Sizes(in_flight[r]))

(* Mutant of processed_tokens: the steps in flight are taken as certain.    *)
processed_tokens_optimistic(r, total) == total

(* The prefix of r whose outputs are processed: what a rejected draft can   *)
(* no longer take back.  Blocks are freed relative to it.                   *)
processed_tokens(r, total) == Max0(total - InFlightTokens(r))

(* Mutant of num_tokens_to_cache: drafts are cached as well.                *)
num_tokens_to_cache_uncapped(r, total) == total

(* The tokens that may be cached: drafts are not final.                     *)
num_tokens_to_cache(r, total) == Lower(total, num_tokens[r])

(* The blocks of a hit count as cached already.                             *)
cached_after_hit(blocks) == Len(blocks)

(* add_local_computed_blocks: hits outside the window are not taken.        *)
add_local_computed_blocks(p, computed) ==
  LET skipped == get_num_skipped_tokens(Len(computed) * BlockSize) \div BlockSize
      taken == SubSeq(computed, skipped + 1, Len(computed))
  IN [pool   |-> touch(p, taken),
      blocks |-> [i \in 1 .. skipped |-> null_block] \o taken]

allocate_new_blocks(p, blocks, need_slot) ==
  LET n == Max0(cdiv(need_slot, BlockSize) - Len(blocks))
  IN [pool |-> get_new_blocks(p, n), blocks |-> blocks \o NewBlocks(p, n)]

(* With one group, and without VLLM_PREFIX_CACHE_RETENTION_INTERVAL, every  *)
(* block can serve a hit: reachable_block_mask is None.                     *)
cache_blocks(p, r, blocks, done, upto) ==
  LET full == upto \div BlockSize
  IN IF EnableCaching /\ done < full
     THEN [pool |-> cache_full_blocks(p, blocks, done, full, block_hashes(r)),
           done |-> full]
     ELSE [pool |-> p, done |-> done]

(* KVCacheManager.allocate_slots for n new tokens after the prefix hit      *)
(* "computed" (empty for a running request).  The answer is ok = FALSE when *)
(* the code returns None; the pool may have changed even then.              *)
allocate_slots(p, r, n, computed, has_scheduled_reqs) ==
  LET total == num_computed_tokens[r] + Len(computed) * BlockSize
      need_slot == Lower(total + n + NumLookahead, MaxModelLen)
      fresh == num_cached_block[r] < 0
      watermark == IF has_scheduled_reqs /\ fresh THEN WatermarkBlocks ELSE 0
      full_fits ==
        (fresh /\ ReserveFullISL) =>
          get_num_blocks_to_allocate(p, r, req_to_blocks[r], num_tokens[r],
                                     computed, total, TRUE)
            + watermark <= get_num_free_blocks(p)
      kept == remove_skipped_blocks(p, req_to_blocks[r],
                                    processed_tokens(r, total))
      fits == get_num_blocks_to_allocate(kept.pool, r, kept.blocks, need_slot,
                                         computed, total, FALSE)
                + watermark <= get_num_free_blocks(kept.pool)
      hit == IF fresh THEN add_local_computed_blocks(kept.pool, computed) ELSE kept
      done == IF fresh THEN cached_after_hit(hit.blocks) ELSE num_cached_block[r]
      new == allocate_new_blocks(hit.pool, hit.blocks, need_slot)
      stored == cache_blocks(new.pool, r, new.blocks, done,
                             num_tokens_to_cache(r, total + n))
  IN IF ~full_fits
     THEN [ok |-> FALSE, pool |-> p, blocks |-> req_to_blocks[r],
           done |-> num_cached_block[r]]
     ELSE IF ~fits
     THEN [ok |-> FALSE, pool |-> kept.pool, blocks |-> kept.blocks,
           done |-> num_cached_block[r]]
     ELSE [ok |-> TRUE, pool |-> stored.pool, blocks |-> new.blocks,
           done |-> stored.done]

(* Mutant of free: the blocks are freed in table order.                     *)
free_head_first(p, r) == free_blocks(p, req_to_blocks[r])

(* KVCacheManager.free: tail blocks first, so that they are evicted first.  *)
free(p, r) == free_blocks(p, Reverse(req_to_blocks[r]))

-----------------------------------------------------------------------------
(* What the issued steps write.  Positions first .. last of r whose token   *)
(* is known hold that prefix, the others are Junk until they are verified.  *)
Written(content, blocks, r, first, last, known) ==
  LET At(b) == {pos \in first .. last : blocks[pos \div BlockSize + 1] = b}
      Pos(b, s) == CHOOSE pos \in At(b) : pos % BlockSize = s
  IN [b \in Blocks |->
       [s \in 0 .. BlockSize - 1 |->
          IF b # null_block /\ \E pos \in At(b) : pos % BlockSize = s
          THEN IF Pos(b, s) < known THEN SubSeq(Tokens[r], 1, Pos(b, s) + 1) ELSE Junk
          ELSE content[b][s]]]

Init ==
  /\ pool = PoolInit
  /\ req_to_blocks = [r \in Requests |-> <<>>]
  /\ num_cached_block = [r \in Requests |-> -1]
  /\ status = [r \in Requests |-> "WAITING"]
  /\ num_tokens = NumPrompt
  /\ num_computed_tokens = [r \in Requests |-> 0]
  /\ num_output_placeholders = [r \in Requests |-> 0]
  /\ spec_token_ids = [r \in Requests |-> 0]
  /\ in_flight = [r \in Requests |-> <<>>]
  /\ stale = [r \in Requests |-> 0]
  /\ num_preemptions = [r \in Requests |-> 0]
  /\ kv = [b \in Blocks |-> [s \in 0 .. BlockSize - 1 |-> Junk]]

(* Mutant of output_placeholders: the drafts are not counted.               *)
output_placeholders_sampled_only(spec) == 1

(* Outputs a decode step may produce: one sampled token and its drafts.     *)
output_placeholders(spec) == 1 + spec

(* A step of n tokens, spec of them drafts, is handed to the workers        *)
(* (_update_after_schedule of Scheduler and AsyncScheduler).  first is the  *)
(* number of computed tokens it starts from.                                *)
Issue(r, first, n, spec, blocks) ==
  LET chunk == first + n < num_tokens[r] + num_output_placeholders[r]
  IN /\ num_computed_tokens' = [num_computed_tokens EXCEPT ![r] = first + n]
     /\ in_flight' = [in_flight EXCEPT ![r] =
                        Append(@, [n |-> n, spec |-> spec, chunk |-> chunk])]
     /\ num_output_placeholders' =
          [num_output_placeholders EXCEPT ![r] = IF chunk THEN @ ELSE @ + output_placeholders(spec)]
     /\ spec_token_ids' = [spec_token_ids EXCEPT ![r] = IF chunk THEN 0 ELSE NumSpec]
     /\ kv' = Written(kv, blocks, r, first, first + n - 1, num_tokens[r])

(* schedule(): a request leaves the waiting queue.  It starts from the      *)
(* prefix hit and takes one chunk of what is left.  A preempted request     *)
(* waits until the outputs of its old steps are in.  The padding of a step  *)
(* for one token with drafts is in Scheduler, not here.                     *)
ScheduleWaiting(r, n, has_scheduled_reqs) ==
  /\ status[r] \in {"WAITING", "PREEMPTED"}
  /\ stale[r] = 0
  /\ LET computed == get_computed_blocks(pool, r)
         first == Len(computed) * BlockSize
         res == allocate_slots(report_hit(pool, r, computed), r, n, computed,
                               has_scheduled_reqs)
     IN /\ n <= num_tokens[r] - first
        /\ pool' = res.pool
        /\ req_to_blocks' = [req_to_blocks EXCEPT ![r] = res.blocks]
        /\ num_cached_block' = [num_cached_block EXCEPT ![r] = res.done]
        /\ IF res.ok
           THEN /\ Issue(r, first, n, 0, res.blocks)
                /\ status' = [status EXCEPT ![r] = "RUNNING"]
                /\ UNCHANGED <<num_tokens, stale, num_preemptions>>
           ELSE UNCHANGED <<reqVars, kv>>

(* schedule(): a running request gets its next chunk, or one decode step    *)
(* with drafts.  It is skipped when the steps in flight already reach the   *)
(* last token it can produce.                                               *)
AtMaxTokens(r) ==
  /\ num_output_placeholders[r] > 0
  /\ num_computed_tokens[r] + 2 - num_output_placeholders[r] >= Len(Tokens[r])

ScheduleRunning(r, n) ==
  /\ status[r] = "RUNNING"
  /\ Len(in_flight[r]) < MaxConcurrentBatches
  /\ ~AtMaxTokens(r)
  /\ LET left == num_tokens[r] + num_output_placeholders[r] - num_computed_tokens[r]
         n1 == Lower(n, MaxModelLen - num_computed_tokens[r] - 1)
         res == allocate_slots(pool, r, n1, <<>>, TRUE)
     IN /\ n <= left + spec_token_ids[r] /\ n1 > 0
        /\ pool' = res.pool
        /\ req_to_blocks' = [req_to_blocks EXCEPT ![r] = res.blocks]
        /\ num_cached_block' = [num_cached_block EXCEPT ![r] = res.done]
        /\ IF res.ok
           THEN /\ Issue(r, num_computed_tokens[r], n1, Max0(n1 - left), res.blocks)
                /\ UNCHANGED <<status, num_tokens, stale, num_preemptions>>
           ELSE UNCHANGED <<reqVars, kv>>

(* The request leaves the engine: its blocks are freed and the outputs of   *)
(* its steps in flight will be ignored.                                     *)
Leave(p, r, st) ==
  /\ pool' = free(p, r)
  /\ req_to_blocks' = [req_to_blocks EXCEPT ![r] = <<>>]
  /\ num_cached_block' = [num_cached_block EXCEPT ![r] = -1]
  /\ status' = [status EXCEPT ![r] = st]

(* update_from_output() for the oldest step of r; "accepted" of its drafts  *)
(* survive.  A stale output (issued before a preemption) is delivered but   *)
(* leaves the counters alone.                                               *)
UpdateFromOutput(r, accepted) ==
  LET step == Head(in_flight[r])
      is_stale == stale[r] > 0
      N == num_tokens[r]
      generated == IF step.chunk THEN 0 ELSE Lower(accepted + 1, Len(Tokens[r]) - N)
      rejected == IF step.chunk \/ is_stale THEN 0 ELSE step.spec - accepted
      computed == num_computed_tokens[r] - rejected
      holders == num_output_placeholders[r]
                   - (IF is_stale THEN 0 ELSE rejected + generated)
      certain == N + generated - (IF Len(in_flight[r]) > 1 THEN 1 ELSE 2)
      stored == IF is_stale \/ step.chunk
                THEN [pool |-> pool, done |-> num_cached_block[r]]
                ELSE cache_blocks(pool, r, req_to_blocks[r], num_cached_block[r],
                                  computed - holders)
      stopped == N + generated = Len(Tokens[r])
  IN /\ status[r] # "FINISHED"
     /\ in_flight[r] # <<>>
     /\ accepted <= step.spec
     /\ num_tokens' = [num_tokens EXCEPT ![r] = N + generated]
     /\ num_computed_tokens' = [num_computed_tokens EXCEPT ![r] = computed]
     /\ num_output_placeholders' = [num_output_placeholders EXCEPT ![r] = holders]
     /\ stale' = [stale EXCEPT ![r] = IF stopped THEN 0 ELSE Max0(@ - 1)]
     /\ kv' = IF is_stale \/ step.chunk
              THEN kv
              ELSE Written(kv, req_to_blocks[r], r, N - 1, certain, N + generated)
     /\ IF stopped
        THEN /\ Leave(stored.pool, r, "FINISHED")
             /\ in_flight' = [in_flight EXCEPT ![r] = <<>>]
        ELSE /\ pool' = stored.pool
             /\ num_cached_block' = [num_cached_block EXCEPT ![r] = stored.done]
             /\ in_flight' = [in_flight EXCEPT ![r] = Tail(@)]
             /\ UNCHANGED <<req_to_blocks, status>>
     /\ UNCHANGED <<spec_token_ids, num_preemptions>>

(* _preempt_request: the request starts over, its steps in flight are stale. *)
Preempt(r) ==
  /\ status[r] = "RUNNING"
  /\ num_preemptions[r] < MaxPreemptions
  /\ Leave(pool, r, "PREEMPTED")
  /\ num_computed_tokens' = [num_computed_tokens EXCEPT ![r] = 0]
  /\ num_output_placeholders' = [num_output_placeholders EXCEPT ![r] = 0]
  /\ spec_token_ids' = [spec_token_ids EXCEPT ![r] = 0]
  /\ stale' = [stale EXCEPT ![r] = Len(in_flight[r])]
  /\ num_preemptions' = [num_preemptions EXCEPT ![r] = @ + 1]
  /\ UNCHANGED <<num_tokens, in_flight, kv>>

(* finish_requests: the client aborts.                                      *)
Abort(r) ==
  /\ status[r] # "FINISHED"
  /\ Leave(pool, r, "FINISHED")
  /\ in_flight' = [in_flight EXCEPT ![r] = <<>>]
  /\ stale' = [stale EXCEPT ![r] = 0]
  /\ UNCHANGED <<num_tokens, num_computed_tokens, num_output_placeholders,
                 spec_token_ids, num_preemptions, kv>>

(* reset_prefix_cache without reset_running_requests.                       *)
Reset ==
  /\ CanReset(pool)
  /\ pool' = reset_prefix_cache(pool)
  /\ UNCHANGED <<req_to_blocks, num_cached_block, reqVars, kv>>

Next ==
  \/ \E r \in Requests, n \in 1 .. MaxBatchedTokens :
       \/ \E has \in BOOLEAN : ScheduleWaiting(r, n, has)
       \/ ScheduleRunning(r, n)
  \/ \E r \in Requests, a \in 0 .. NumSpec : UpdateFromOutput(r, a)
  \/ \E r \in Requests : Preempt(r) \/ Abort(r)
  \/ Reset

Spec == Init /\ [][Next]_vars

-----------------------------------------------------------------------------
(* The types of the tables and the counters; outputs never exceed what was  *)
(* reserved for them, and no position lies beyond max_model_len.            *)
TypeOK ==
  /\ PoolType(pool)
  /\ req_to_blocks \in [Requests -> Seq(Blocks)]
  /\ num_cached_block \in [Requests -> Int]
  /\ status \in [Requests -> {"WAITING", "RUNNING", "PREEMPTED", "FINISHED"}]
  /\ \A r \in Requests :
       /\ num_tokens[r] \in NumPrompt[r] .. Len(Tokens[r])
       /\ num_computed_tokens[r] \in 0 .. MaxModelLen
       /\ num_output_placeholders[r] \in Nat
       /\ stale[r] \in 0 .. Len(in_flight[r])

(* A block is in the free queue, once, exactly when no request's table       *)
(* holds it, and its ref_cnt is the number of tables that do.  A lost        *)
(* decrement leaks the block; a double one hands it to two owners.           *)
BlockAccounting ==
  /\ FreeExact(pool)
  /\ \A b \in Blocks \ {null_block} :
       pool.ref_cnt[b] =
         Cardinality({r \in Requests : b \in ToSet(req_to_blocks[r])})

(* The hash map and the hashes the blocks carry agree, so that an eviction   *)
(* always finds the entry it has to remove, and no assertion of the pool has *)
(* fired: a block about to be cached carries no hash yet (cache_full_blocks, *)
(* set_block_hash), and a block handed out has no owner (get_new_blocks).    *)
CacheMapConsistent == MapConsistent(pool) /\ ~pool.failed

(* What the prefix cache promises: a block found under a hash holds, once    *)
(* the steps already issued have run, the KV entries of exactly that         *)
(* prefix; never a rejected draft, never another prefix.                     *)
CacheTruth ==
  \A b \in Blocks :
    LET h == pool.block_hash[b] IN
    h # NoHash => \A s \in 0 .. BlockSize - 1 :
                    kv[b][s] = SubSeq(h, 1, Len(h) - BlockSize + s + 1)

(* A running request finds its own KV entries at every position that its     *)
(* steps in flight or its next step attend to: no block inside an attention   *)
(* window was freed too early, nulled or overwritten, even when a rejected    *)
(* draft moves the windows of the steps behind it back.                       *)
AttendsOwnPrefix ==
  \A r \in Requests : status[r] = "RUNNING" =>
    \A pos \in get_num_skipped_tokens(num_computed_tokens[r] - InFlightTokens(r))
               .. num_computed_tokens[r] - num_output_placeholders[r] - 1 :
      LET b == req_to_blocks[r][pos \div BlockSize + 1] IN
      /\ b # null_block
      /\ kv[b][pos % BlockSize] = SubSeq(Tokens[r], 1, pos + 1)

(* A consumer that replays the KV events never believes a prefix cached that *)
(* the pool no longer holds.                                                 *)
EventsSound == pool.view \subseteq CachedHashes(pool)

(* The comment in FullAttentionManager.find_longest_cache_hit: a missing     *)
(* block implies that every later block misses too.  It rests on the order   *)
(* in which blocks are freed and evicted.                                    *)
PrefixClosed ==
  \A h \in CachedHashes(pool) :
    Len(h) > BlockSize => SubSeq(h, 1, Len(h) - BlockSize) \in CachedHashes(pool)

==============================================================================
