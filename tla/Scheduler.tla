----------------------------- MODULE Scheduler -----------------------------
(***************************************************************************)
(* The AsyncScheduler: who runs, who waits, and which tokens are counted,   *)
(* delivered or dropped when steps are issued ahead of their outputs.       *)
(*                                                                         *)
(* One pass of schedule() is the actions from BeginSchedule to EndSchedule; *)
(* the engine's thread runs it to the end, so additions, aborts, resets and *)
(* outputs fall between passes.  KV blocks are a count (KVCacheManager has  *)
(* their contents): a prefix cache hit of some length is a choice, its      *)
(* blocks are taken from the pool like new ones, and freeing is immediate   *)
(* (defer_block_free is DeferredBlockFree's subject).  The worker is what   *)
(* it samples: a step that ends its request's known tokens yields one token *)
(* and as many more as it accepts drafts, at the positions after            *)
(* worker_len, the number of tokens the worker knows of.                    *)
(***************************************************************************)
EXTENDS Integers, Sequences, FiniteSets, SequencesExt

CONSTANTS
  Requests,
  NumPrompt,               \* num_prompt_tokens
  MaxTokens,               \* max_tokens
  Rank,                    \* the order of Request.__lt__, smaller first
  Structured,              \* requests that need a compiled grammar
  Policy,                  \* "fcfs" or "priority"
  RequiresKvDelivery,      \* requires_kv_delivery of the connector
  MaxNumScheduledTokens,   \* max_num_scheduled_tokens
  MaxNumRunningReqs,       \* max_num_running_reqs
  MaxModelLen,             \* max_model_len
  NumSpecTokens,           \* num_spec_tokens
  NumLookaheadTokens,      \* num_lookahead_tokens
  BlockSize, NumBlocks,    \* block_size, usable blocks of the pool
  ReserveFullIsl,          \* scheduler_reserve_full_isl
  MaxHit,                  \* longest prefix cache hit explored
  PpSize,                  \* pp_size, under the V2 model runner
  MaxAborts, MaxResets     \* bounds on the environment

ASSUME SchedulerAssumption ==
  /\ Policy \in {"fcfs", "priority"} /\ {RequiresKvDelivery, ReserveFullIsl} \subseteq BOOLEAN
  /\ {MaxNumScheduledTokens, MaxNumRunningReqs, MaxModelLen, NumSpecTokens, NumLookaheadTokens,
      NumBlocks, MaxHit, MaxAborts, MaxResets} \subseteq Nat
  /\ {BlockSize, PpSize} \subseteq Nat \ {0}
  /\ \A r \in Requests : /\ NumPrompt[r] \in 1 .. MaxModelLen - 1
                          /\ MaxTokens[r] \in Nat \ {0}
                          /\ Rank[r] \in Int
  /\ \A r, q \in Requests : Rank[r] = Rank[q] => r = q

VARIABLES
  req,                     \* the Request objects, see Init; the step
                           \* next_decode_eligible_step counts from the current one
  waiting, skipped_waiting, running,
  batch_queue,             \* issued steps, oldest first: request -> its share
  pass,                    \* the locals of schedule()
  aborts, resets

vars == <<req, waiting, skipped_waiting, running, batch_queue, pass, aborts, resets>>
envVars == <<aborts, resets>>

(* max_concurrent_batches with async scheduling.                             *)
batch_queue_size == PpSize + 1

Lower(a, b) == IF a < b THEN a ELSE b
cdiv(a, b) == (a + b - 1) \div b
Put(f, r, v) == [q \in DOMAIN f \cup {r} |-> IF q = r THEN v ELSE f[q]]
Drop(f, r) == [q \in DOMAIN f \ {r} |-> f[q]]
Blocked(r) == req[r].status = "WAITING_FOR_STRUCTURED_OUTPUT_GRAMMAR"
Unfinished == {r \in Requests : req[r].status \notin {"NEW", "FINISHED"}}

IdlePass == [phase |-> "idle", req_index |-> 1, token_budget |-> 0, cur |-> <<>>,
             sched |-> <<>>, preempted |-> FALSE, prefill |-> FALSE, skipped |-> <<>>]

Init ==
  /\ req = [r \in Requests |->
       [status |-> "NEW", num_tokens |-> NumPrompt[r], num_computed_tokens |-> 0,
        num_output_placeholders |-> 0, num_in_flight_tokens |-> 0,
        num_stale_output_tokens |-> 0, drop_stale_output |-> FALSE,
        spec_token_ids |-> 0, is_prefill_chunk |-> FALSE, grammar |-> "pending",
        next_decode_eligible_step |-> 0, num_blocks |-> 0, worker_len |-> 0, delivered |-> <<>>]]
  /\ waiting = <<>> /\ skipped_waiting = <<>> /\ running = <<>>
  /\ batch_queue = <<>>
  /\ pass = IdlePass
  /\ aborts = 0 /\ resets = 0

-----------------------------------------------------------------------------
(* The elements of q at the positions I, in the order before of positions.  *)
Arranged(q, I, before) ==
  [k \in 1 .. Cardinality(I) |->
     q[CHOOSE i \in I : Cardinality({j \in I : <<j, i>> \in before}) = k - 1]]
Without(q, S) ==
  LET I == {i \in 1 .. Len(q) : q[i] \notin S}
  IN Arranged(q, I, {p \in I \X I : p[1] < p[2]})

(* Request queues: a deque, or a heap whose order is that of the requests.  *)
Sorted(q) ==
  LET I == 1 .. Len(q)
      first(i, j) == \/ Rank[q[i]] < Rank[q[j]]
                     \/ Rank[q[i]] = Rank[q[j]] /\ i < j
  IN Arranged(q, I, {p \in I \X I : first(p[1], p[2])})
add_request(q, r) == IF Policy = "fcfs" THEN Append(q, r) ELSE Sorted(Append(q, r))
prepend_requests(q, s) == IF Policy = "fcfs" THEN s \o q ELSE Sorted(s \o q)

(* Mutant of SkippedFirst: the skipped queue comes first under any policy.  *)
SkippedFirst_always == skipped_waiting # <<>>

(* _select_waiting_queue_for_scheduling.                                    *)
SkippedFirst ==
  /\ skipped_waiting # <<>>
  /\ \/ Policy = "fcfs" \/ waiting = <<>>
     \/ Rank[Head(skipped_waiting)] < Rank[Head(waiting)]
NextWaiting == Head(IF SkippedFirst THEN skipped_waiting ELSE waiting)
PopWaiting ==
  IF SkippedFirst THEN skipped_waiting' = Tail(skipped_waiting) /\ UNCHANGED waiting
                  ELSE waiting' = Tail(waiting) /\ UNCHANGED skipped_waiting

(* allocate_slots: the blocks r holds once it has slots for n tokens after  *)
(* its first computed ones, and whether the pool can give what is missing.  *)
BlocksFor(r, computed, n) ==
  LET need == Lower(computed + n + NumLookaheadTokens, MaxModelLen)
  IN IF cdiv(need, BlockSize) > req[r].num_blocks THEN cdiv(need, BlockSize)
                                                   ELSE req[r].num_blocks
FreeBlocks == NumBlocks - FoldSet(LAMBDA r, acc : acc + req[r].num_blocks, 0, Requests)
CanAllocate(r, computed, n) == BlocksFor(r, computed, n) - req[r].num_blocks <= FreeBlocks

(* _preempt_request: what is in flight becomes stale, to be dropped or to   *)
(* be delivered; a share that is being dropped stays dropped.               *)
drop_on_preempt(q, drop) == drop \/ (q.drop_stale_output /\ q.num_stale_output_tokens > 0)
stale_on_preempt(q) == q.num_in_flight_tokens

_preempt_request(q, drop) ==
  [q EXCEPT !.status = "PREEMPTED", !.num_computed_tokens = 0, !.spec_token_ids = 0,
            !.drop_stale_output = drop_on_preempt(q, drop),
            !.num_stale_output_tokens = stale_on_preempt(q),
            !.num_output_placeholders = 0, !.num_blocks = 0]

-----------------------------------------------------------------------------
(* The environment: requests arrive, grammars are compiled, clients abort.  *)

add_new_request(r) ==
  /\ pass.phase = "idle" /\ req[r].status = "NEW"
  /\ IF r \in Structured
     THEN /\ req' = [req EXCEPT ![r].status = "WAITING_FOR_STRUCTURED_OUTPUT_GRAMMAR"]
          /\ skipped_waiting' = add_request(skipped_waiting, r)
          /\ UNCHANGED waiting
     ELSE /\ req' = [req EXCEPT ![r].status = "WAITING"]
          /\ waiting' = add_request(waiting, r)
          /\ UNCHANGED skipped_waiting
  /\ UNCHANGED <<running, batch_queue, pass, envVars>>

(* The future that grammar_init left with the request is done: compiled, or *)
(* with the error that _create_grammar raised.                              *)
GrammarCompiled(r, outcome) ==
  /\ Blocked(r) /\ req[r].grammar = "pending"
  /\ req' = [req EXCEPT ![r].grammar = outcome]
  /\ UNCHANGED <<waiting, skipped_waiting, running, batch_queue, pass, envVars>>

(* Mutant of RemoveFromQueues: the skipped queue is forgotten.              *)
RemoveFromQueues_not_skipped(S) ==
  /\ running' = Without(running, S)
  /\ waiting' = Without(waiting, S)
  /\ UNCHANGED skipped_waiting

(* The requests in S leave the engine: finish_requests, _free_request.      *)
(* Aborts are also handled right before an output is applied.               *)
Finished(q) == [q EXCEPT !.status = "FINISHED", !.num_blocks = 0]
RemoveFromQueues(S) ==
  /\ running' = Without(running, S)
  /\ waiting' = Without(waiting, S)
  /\ skipped_waiting' = Without(skipped_waiting, S)

finish_requests(r) ==
  /\ pass.phase \in {"idle", "updating"} /\ r \in Unfinished /\ aborts < MaxAborts
  /\ aborts' = aborts + 1
  /\ req' = [req EXCEPT ![r] = Finished(@)]
  /\ RemoveFromQueues({r})
  /\ UNCHANGED <<batch_queue, pass, resets>>

(* reset_prefix_cache(reset_running_requests = True) preempts everybody and *)
(* lets them resume at once, so their outputs in flight are dropped.        *)
reset_prefix_cache ==
  /\ pass.phase = "idle" /\ running # <<>> /\ resets < MaxResets
  /\ resets' = resets + 1
  /\ req' = [r \in Requests |-> IF r \in ToSet(running)
                                THEN _preempt_request(req[r], TRUE) ELSE req[r]]
  /\ waiting' = prepend_requests(waiting, running)
  /\ running' = <<>>
  /\ UNCHANGED <<skipped_waiting, batch_queue, pass, aborts>>

-----------------------------------------------------------------------------
(* schedule(), first loop: the running requests.                            *)

BeginSchedule ==
  /\ pass.phase = "idle" /\ Unfinished # {}
  /\ pass' = [IdlePass EXCEPT !.phase = "running", !.token_budget = MaxNumScheduledTokens]
  /\ req' = [r \in Requests |-> [req[r] EXCEPT
               !.next_decode_eligible_step = IF @ = 0 THEN 0 ELSE @ - 1]]
  /\ UNCHANGED <<waiting, skipped_waiting, running, batch_queue, envVars>>

(* Mutant of AtMaxTokens: the draft tokens are not taken off again.         *)
AtMaxTokens_with_drafts(q, r) ==
  q.num_computed_tokens >= NumPrompt[r] + MaxTokens[r]

(* The steps in flight reach max_tokens even if every draft is rejected.    *)
AtMaxTokens(q, r) ==
  /\ q.num_output_placeholders > 0
  /\ q.num_computed_tokens + 2 - q.num_output_placeholders >= NumPrompt[r] + MaxTokens[r]

num_new_tokens(r) ==
  LET q == req[r]
      left == q.num_tokens + q.spec_token_ids + q.num_output_placeholders
                - q.num_computed_tokens
  IN IF AtMaxTokens(q, r) \/ q.next_decode_eligible_step > 0 THEN 0
     ELSE Lower(Lower(left, pass.token_budget), MaxModelLen - q.num_computed_tokens - 1)

InRunningLoop ==
  /\ pass.phase = "running"
  /\ pass.req_index <= Len(running) /\ pass.token_budget > 0

SkipRunning ==
  /\ InRunningLoop
  /\ num_new_tokens(running[pass.req_index]) = 0
  /\ pass' = [pass EXCEPT !.req_index = @ + 1]
  /\ UNCHANGED <<req, waiting, skipped_waiting, running, batch_queue, envVars>>

PickRunning ==
  LET r == running[pass.req_index]
  IN /\ InRunningLoop
     /\ num_new_tokens(r) # 0
     /\ pass' = [pass EXCEPT !.phase = "allocating", !.cur = <<r, num_new_tokens(r)>>]
     /\ UNCHANGED <<req, waiting, skipped_waiting, running, batch_queue, envVars>>

(* The blocks are there: r gets n tokens, the ones beyond those known or    *)
(* expected are its drafts.                                                 *)
ScheduleRunning ==
  LET r == pass.cur[1]
      n == pass.cur[2]
      q == req[r]
      drafts == n + q.num_computed_tokens - q.num_tokens - q.num_output_placeholders
      spec == IF q.spec_token_ids > 0 /\ drafts > 0 THEN drafts ELSE 0
  IN /\ pass.phase = "allocating" /\ CanAllocate(r, q.num_computed_tokens, n)
     /\ pass' = [pass EXCEPT !.phase = "running", !.cur = <<>>,
                   !.req_index = @ + 1, !.token_budget = @ - n,
                   !.prefill = @ \/ q.is_prefill_chunk,
                   !.sched = Put(@, r, [n |-> n, spec |-> spec, resumed |-> FALSE])]
     /\ req' = [req EXCEPT ![r].num_blocks = BlocksFor(r, q.num_computed_tokens, n),
                           ![r].spec_token_ids = 0]
     /\ UNCHANGED <<waiting, skipped_waiting, running, batch_queue, envVars>>

(* Mutant of Unscheduled: a preempted request stays in the step.            *)
Unscheduled_kept(p, v) == [p EXCEPT !.token_budget = @ + p.sched[v].n, !.req_index = @ - 1]

(* Otherwise the last or the least urgent running request is preempted; the *)
(* pass goes on unless that is r itself.  A victim that was scheduled       *)
(* already in this pass gives its tokens back.                              *)
Victim == IF Policy = "fcfs" THEN Last(running)
          ELSE CHOOSE v \in ToSet(running) :
                 \A q \in ToSet(running) : Rank[q] <= Rank[v]

Unscheduled(p, v) == [p EXCEPT !.sched = Drop(@, v), !.req_index = @ - 1,
                               !.token_budget = @ + p.sched[v].n]

PreemptForBlocks ==
  LET r == pass.cur[1]
      v == Victim
      p == IF v \in DOMAIN pass.sched THEN Unscheduled(pass, v) ELSE pass
  IN /\ pass.phase = "allocating"
     /\ ~CanAllocate(r, req[r].num_computed_tokens, pass.cur[2])
     /\ running' = Without(running, {v})
     /\ waiting' = prepend_requests(waiting, <<v>>)
     /\ req' = [req EXCEPT ![v] = _preempt_request(@, RequiresKvDelivery)]
     /\ pass' = [p EXCEPT !.preempted = TRUE, !.cur = IF v = r THEN <<>> ELSE @,
                          !.phase = IF v = r THEN "closing" ELSE "allocating"]
     /\ UNCHANGED <<skipped_waiting, batch_queue, envVars>>

EndRunning ==
  /\ pass.phase = "running" /\ ~InRunningLoop
  /\ pass' = [pass EXCEPT !.phase = IF pass.preempted THEN "closing" ELSE "waiting"]
  /\ UNCHANGED <<req, waiting, skipped_waiting, running, batch_queue, envVars>>

-----------------------------------------------------------------------------
(* schedule(), second loop: the waiting requests.                           *)

InWaitingLoop ==
  /\ pass.phase = "waiting" /\ pass.token_budget > 0
  /\ waiting # <<>> \/ skipped_waiting # <<>>
  /\ Len(running) < MaxNumRunningReqs

(* Mutant of OutputsPending: a preempted request resumes at once.           *)
OutputsPending_ignored(q) == FALSE

(* A preempted request may not resume while one of its outputs is still to  *)
(* be delivered.                                                            *)
OutputsPending(q) == q.num_stale_output_tokens > 0 /\ ~q.drop_stale_output

NotSchedulable(r) == \/ Blocked(r) /\ req[r].grammar # "ready"
                     \/ OutputsPending(req[r])

SkipWaiting ==
  LET r == NextWaiting
  IN /\ InWaitingLoop
     /\ NotSchedulable(r)
     /\ PopWaiting
     /\ pass' = [pass EXCEPT !.skipped = Append(@, r)]
     /\ req' = [req EXCEPT ![r].grammar = IF Blocked(r) /\ @ = "error" THEN "reported" ELSE @]
     /\ UNCHANGED <<running, batch_queue, envVars>>

(* The prefix cache covers the first hit tokens, never all of them.         *)
Hits(r) == {h \in 0 .. Lower(MaxHit, req[r].num_tokens - 1) : h % BlockSize = 0}

(* A request with one token to compute is padded with drafts when the step  *)
(* is otherwise a pure decode step.                                         *)
PadSpecDecode(r, hit) ==
  /\ NumSpecTokens > 0 /\ req[r].num_tokens - hit = 1
  /\ ~pass.prefill
  /\ \E q \in DOMAIN pass.sched : ~pass.sched[q].resumed

WaitingTokens(r, hit) == IF PadSpecDecode(r, hit) THEN 1 + NumSpecTokens
                         ELSE Lower(req[r].num_tokens - hit, pass.token_budget)

Admissible(r, hit) ==
  /\ WaitingTokens(r, hit) <= pass.token_budget
  /\ PadSpecDecode(r, hit) => hit + WaitingTokens(r, hit) <= MaxModelLen
  /\ ReserveFullIsl => cdiv(Lower(req[r].num_tokens, MaxModelLen), BlockSize) <= FreeBlocks
  /\ CanAllocate(r, hit, WaitingTokens(r, hit))

ScheduleWaiting(hit) ==
  LET r == NextWaiting
      n == WaitingTokens(r, hit)
  IN /\ InWaitingLoop
     /\ ~NotSchedulable(r) /\ hit \in Hits(r) /\ Admissible(r, hit)
     /\ PopWaiting
     /\ running' = Append(running, r)
     /\ req' = [req EXCEPT ![r].status = "RUNNING", ![r].num_computed_tokens = hit,
                           ![r].num_blocks = BlocksFor(r, hit, n)]
     /\ pass' = [pass EXCEPT !.token_budget = @ - n,
          !.sched = Put(@, r, [n |-> n, resumed |-> TRUE,
                               spec |-> IF PadSpecDecode(r, hit) THEN NumSpecTokens ELSE 0])]
     /\ UNCHANGED <<batch_queue, envVars>>

(* The loop ends, at the latest with a head that cannot be placed: it keeps *)
(* its place, as an ordinary request if it was just promoted.               *)
HeadStuck ==
  /\ InWaitingLoop /\ ~NotSchedulable(NextWaiting)
  /\ \E hit \in Hits(NextWaiting) : ~Admissible(NextWaiting, hit)

EndWaiting ==
  /\ pass.phase = "waiting"
  /\ ~InWaitingLoop \/ HeadStuck
  /\ req' = IF HeadStuck /\ Blocked(NextWaiting)
            THEN [req EXCEPT ![NextWaiting].status = "WAITING"] ELSE req
  /\ skipped_waiting' = prepend_requests(skipped_waiting, pass.skipped)
  /\ pass' = [pass EXCEPT !.phase = "closing", !.skipped = <<>>]
  /\ UNCHANGED <<waiting, running, batch_queue, envVars>>

(* The end of schedule(): _update_after_schedule of both classes.  Which    *)
(* drafts the worker will accept is decided here, once and for all.  The    *)
(* engine waits for an output only when the batch queue is full.            *)
placeholders(spec) == 1 + spec

EndSchedule(accepted) ==
  LET sched == pass.sched
      Computed(r) == req[r].num_computed_tokens + sched[r].n
      Chunk(r) == Computed(r) < req[r].num_tokens + req[r].num_output_placeholders
      Base(r) == IF sched[r].resumed THEN req[r].num_tokens ELSE req[r].worker_len
      Sampled(r) == IF Chunk(r) THEN 0 ELSE 1 + accepted[r]
      After(r) ==
        [req[r] EXCEPT
           !.num_computed_tokens = Computed(r),
           !.num_in_flight_tokens = @ + sched[r].n,
           !.is_prefill_chunk = Chunk(r),
           !.num_output_placeholders = IF Chunk(r) THEN @ ELSE @ + placeholders(sched[r].spec),
           !.spec_token_ids = IF Chunk(r) THEN @ ELSE NumSpecTokens,
           !.next_decode_eligible_step = IF Chunk(r) THEN @ ELSE PpSize,
           !.worker_len = Base(r) + Sampled(r)]
  IN /\ pass.phase = "closing"
     /\ \A r \in DOMAIN sched : accepted[r] <= sched[r].spec
     /\ req' = [r \in Requests |-> IF r \in DOMAIN sched THEN After(r) ELSE req[r]]
     /\ batch_queue' = Append(batch_queue,
          [r \in DOMAIN sched |-> [n |-> sched[r].n, spec |-> sched[r].spec,
                                   first |-> Base(r) + 1, sampled |-> Sampled(r)]])
     /\ pass' = [IdlePass EXCEPT !.phase = IF Len(batch_queue') = batch_queue_size
                                           THEN "updating" ELSE "idle"]
     /\ UNCHANGED <<waiting, skipped_waiting, running, envVars>>

-----------------------------------------------------------------------------
(* update_from_output() for the oldest step.                                *)

(* Mutant of placeholders_after: a stale output counts like any other.      *)
placeholders_after_stale(q, stale, applied) == q.num_output_placeholders - applied

(* Mutant of stale_after: a preempted request's share is not drained.       *)
stale_after_running(q, n) ==
  IF q.num_stale_output_tokens > 0 /\ q.status = "RUNNING"
  THEN q.num_stale_output_tokens - n ELSE q.num_stale_output_tokens

stale_after(q, n) ==
  IF q.num_stale_output_tokens > 0 THEN q.num_stale_output_tokens - n ELSE 0

placeholders_after(q, stale, applied) ==
  IF stale THEN q.num_output_placeholders ELSE q.num_output_placeholders - applied

(* One request's share.  A stale output is delivered, or dropped, without   *)
(* touching the counters that the preemption reset.  stop: its last token   *)
(* is a stop token.                                                         *)
_update_request_with_output(q, r, share, stop) ==
  LET stale == q.num_stale_output_tokens > 0
      dropped == stale /\ q.drop_stale_output
      room == Lower(MaxModelLen, NumPrompt[r] + MaxTokens[r]) - q.num_tokens
      new == IF dropped THEN 0 ELSE Lower(share.sampled, room)
      rejected == IF stale \/ share.sampled = 0 THEN 0 ELSE share.spec + 1 - share.sampled
      stopped == new > 0 /\ (new = room \/ stop)
      out == [q EXCEPT
        !.num_in_flight_tokens = @ - share.n,
        !.num_stale_output_tokens = stale_after(q, share.n),
        !.num_computed_tokens = @ - rejected,
        !.num_output_placeholders = placeholders_after(q, stale, rejected + new),
        !.num_tokens = @ + new,
        !.delivered = @ \o [i \in 1 .. new |-> share.first + i - 1]]
  IN IF q.status = "FINISHED" THEN q
     ELSE IF stopped THEN Finished(out) ELSE out

update_from_output(stops) ==
  LET step == Head(batch_queue)
      errors == {r \in Requests : Blocked(r) /\ req[r].grammar = "reported"}
      After(r) == IF r \in errors THEN Finished(req[r])
                  ELSE IF r \in DOMAIN step
                  THEN _update_request_with_output(req[r], r, step[r], r \in stops)
                  ELSE req[r]
  IN /\ pass.phase = "updating" \/ (pass.phase = "idle" /\ Unfinished = {} /\ batch_queue # <<>>)
     /\ stops \subseteq DOMAIN step
     /\ batch_queue' = Tail(batch_queue)
     /\ req' = [r \in Requests |-> After(r)]
     /\ RemoveFromQueues({r \in Requests : After(r).status = "FINISHED"})
     /\ pass' = [pass EXCEPT !.phase = "idle"]
     /\ UNCHANGED envVars

-----------------------------------------------------------------------------
(* The engine core's thread; what its clients and the grammar compiler do.  *)
Engine ==
  \/ BeginSchedule \/ SkipRunning \/ PickRunning \/ ScheduleRunning
  \/ PreemptForBlocks \/ EndRunning \/ SkipWaiting \/ EndWaiting
  \/ \E hit \in 0 .. MaxHit : ScheduleWaiting(hit)
  \/ \E accepted \in [DOMAIN pass.sched -> 0 .. NumSpecTokens] : EndSchedule(accepted)
  \/ \E stops \in SUBSET Requests : update_from_output(stops)

Compiler == \E r \in Requests, outcome \in {"ready", "error"} : GrammarCompiled(r, outcome)

Next ==
  \/ Engine \/ Compiler \/ reset_prefix_cache
  \/ \E r \in Requests : add_new_request(r) \/ finish_requests(r)

Spec == Init /\ [][Next]_vars

(* run_busy_loop steps the engine as long as there is work, and every       *)
(* grammar compilation ends.                                                *)
FairSpec == Spec /\ WF_vars(Engine) /\ WF_vars(Compiler)

-----------------------------------------------------------------------------
(* What the issued steps hold for r, step by step: tokens, output           *)
(* placeholders, outputs that bring a token; and how it adds up.            *)
Tokens(steps, r) ==
  [i \in 1 .. Len(steps) |-> IF r \in DOMAIN steps[i] THEN steps[i][r].n ELSE 0]
Samples(step, r) == r \in DOMAIN step /\ step[r].sampled > 0
Expected(steps, r) ==
  [i \in 1 .. Len(steps) |-> IF Samples(steps[i], r) THEN 1 + steps[i][r].spec ELSE 0]
Sampling(steps, r) == [i \in 1 .. Len(steps) |-> IF Samples(steps[i], r) THEN 1 ELSE 0]
RunningTotal(s) ==
  LET t[i \in 0 .. Len(s)] == IF i = 0 THEN 0 ELSE t[i - 1] + s[i] IN t

(* The tokens a pass has handed out.                                        *)
Spent(sched) == Cardinality(UNION {{r} \X (1 .. sched[r].n) : r \in DOMAIN sched})

Statuses == {"NEW", "WAITING", "WAITING_FOR_STRUCTURED_OUTPUT_GRAMMAR", "PREEMPTED",
             "RUNNING", "FINISHED"}
Phases == {"idle", "running", "allocating", "waiting", "closing", "updating"}

(* TypeOK: every counter of a request is a natural number (they are         *)
(* decremented by outputs that arrive after the state they were issued in   *)
(* was reset), statuses and queues hold only requests.                      *)
TypeOK ==
  /\ \A r \in Requests :
       /\ req[r].status \in Statuses
       /\ {req[r].num_tokens, req[r].num_computed_tokens, req[r].num_output_placeholders,
           req[r].num_in_flight_tokens, req[r].num_stale_output_tokens,
           req[r].spec_token_ids, req[r].num_blocks} \subseteq Nat
  /\ {waiting, skipped_waiting, running} \subseteq Seq(Requests)
  /\ Len(batch_queue) \in 0 .. batch_queue_size
  /\ pass.phase \in Phases /\ pass.token_budget \in Nat

(* What the client is sent is exactly the positions after the prompt, in    *)
(* order, none twice and none missing, however often the request was        *)
(* preempted or reset with outputs in flight (update_from_output).          *)
DeliveredInOrder ==
  \A r \in Requests :
    /\ req[r].num_tokens = NumPrompt[r] + Len(req[r].delivered)
    /\ \A i \in DOMAIN req[r].delivered : req[r].delivered[i] = NumPrompt[r] + i

(* The counters of a live request agree with the steps in flight: in-flight *)
(* tokens are the sum of its shares, the stale ones are a prefix of them,   *)
(* and the output placeholders are what the rest will bring.                *)
(* step_with_batch_queue pops the queue when placeholders are pending and   *)
(* relies on one of these steps being there.                                *)
AccountingExact ==
  \A r \in Unfinished :
    LET issued == Len(batch_queue)
        tokens == RunningTotal(Tokens(batch_queue, r))
        expected == RunningTotal(Expected(batch_queue, r))
    IN /\ req[r].num_in_flight_tokens = tokens[issued]
       /\ \E k \in 0 .. issued :
            /\ req[r].num_stale_output_tokens = tokens[k]
            /\ req[r].num_output_placeholders = expected[issued] - expected[k]

(* No step is issued for a token past max_tokens, even if every draft in    *)
(* flight is rejected: the comment at the top of the running loop.  The     *)
(* outputs that count are those behind the stale ones.                      *)
NoExtraStep ==
  \A r \in Unfinished :
    LET issued == Len(batch_queue)
        tokens == RunningTotal(Tokens(batch_queue, r))
        sampling == RunningTotal(Sampling(batch_queue, r))
    IN \A k \in 0 .. issued :
         tokens[k] = req[r].num_stale_output_tokens =>
           req[r].num_tokens + sampling[issued] - sampling[k] <= NumPrompt[r] + MaxTokens[r]

(* A request that is not finished is in exactly one queue, the one of its   *)
(* status, once; a finished one is in none and holds no block.              *)
RequestPlaced ==
  pass.phase \in {"idle", "updating"} =>
    \A r \in Requests :
      LET queues == running \o waiting \o skipped_waiting
          places == {i \in 1 .. Len(queues) : queues[i] = r}
      IN /\ Cardinality(places) = (IF r \in Unfinished THEN 1 ELSE 0)
         /\ (r \in ToSet(running)) <=> (req[r].status = "RUNNING")
         /\ Blocked(r) => r \in ToSet(skipped_waiting)
         /\ req[r].num_blocks > 0 => req[r].status = "RUNNING"

(* The budget of a pass is spent exactly on what the step holds, refunds of *)
(* preempted requests included, so a step never exceeds                     *)
(* max_num_scheduled_tokens (the assertions after the waiting loop), and    *)
(* only running requests are in it.                                         *)
BudgetExact ==
  pass.phase \in {"running", "allocating", "waiting", "closing"} =>
    /\ pass.token_budget + Spent(pass.sched) = MaxNumScheduledTokens
    /\ DOMAIN pass.sched \subseteq ToSet(running)

(* Under the priority policy nobody is admitted ahead of a more urgent      *)
(* request that could run.                                                  *)
AdmitsMostUrgent ==
  [][\A r \in Requests :
       (req[r].status # "RUNNING" /\ req'[r].status = "RUNNING") =>
         \A q \in ToSet(waiting) \cup ToSet(skipped_waiting) :
           Rank[q] < Rank[r] => NotSchedulable(q)]_vars

(* Every request that is added finishes, in spite of preemptions: nobody is *)
(* preempted for ever, or left in a queue no pass looks at.                 *)
AllFinish == \A r \in Requests : (req[r].status # "NEW") ~> (req[r].status = "FINISHED")

=============================================================================
