---------------------------- MODULE EncoderCache ----------------------------
(***************************************************************************)
(* The encoder cache: EncoderCacheManager, the scheduler that consults it   *)
(* while it builds a step, and the dictionary of encoder outputs the        *)
(* workers keep in step with it.                                            *)
(*                                                                         *)
(* A request is a number, the larger the less urgent; it is a prompt with   *)
(* multimodal items and asks for one token.  Whether the KV cache has       *)
(* blocks is a choice (KvPressure).  The workers execute steps in the order *)
(* of issue, so a step's effect on their dictionary is applied when it is   *)
(* issued; its output comes back up to one step later.  The waiting queue   *)
(* is first come, first served under both policies: only the choice of the  *)
(* victim matters here.  A request starts at token 0: a prefix hit that     *)
(* ends inside an item starts it where a reset of the cache does.  Every    *)
(* token of an item is an embedding (no is_embed mask).                     *)
(***************************************************************************)
EXTENDS Integers, Sequences, FiniteSets, SequencesExt

CONSTANTS
  Requests,
  NumPrompt,               \* num_prompt_tokens
  mm_features,             \* items of a request by offset: [hash, offset, length]
  CacheSize,               \* cache_size
  EncoderBudget,           \* max_num_encoder_input_tokens
  MaxNumScheduledTokens,   \* max_num_scheduled_tokens
  DisableChunkedMmInput,   \* disable_chunked_mm_input
  Shift,                   \* 1 if use_eagle: the drafter reads one token ahead
  Policy,                  \* "fcfs" or "priority"
  KvPressure,              \* TRUE: allocate_slots may fail
  MaxAborts, MaxResets     \* bounds on the environment

Items == UNION {ToSet(mm_features[r]) : r \in Requests}
Hashes == {x.hash : x \in Items}
Embeds(h) == (CHOOSE x \in Items : x.hash = h).length
Inputs(r) == 1 .. Len(mm_features[r])
HashesOf(r, S) == {mm_features[r][i].hash : i \in S}

(* The items of a prompt lie one behind the other, and each fits into the   *)
(* budgets (compute_mm_encoder_budget sees to that).                        *)
ASSUME EncoderAssumption ==
  /\ Requests \subseteq Nat /\ Shift \in {0, 1} /\ Policy \in {"fcfs", "priority"}
  /\ {CacheSize, EncoderBudget, MaxNumScheduledTokens, MaxAborts, MaxResets} \subseteq Nat
  /\ {DisableChunkedMmInput, KvPressure} \subseteq BOOLEAN
  /\ \A r \in Requests :
       /\ NumPrompt[r] \in Nat /\ mm_features[r] \in Seq(Items)
       /\ \A i, j \in Inputs(r) :
            i < j => mm_features[r][i].offset + mm_features[r][i].length
                       <= mm_features[r][j].offset
  /\ \A x, y \in Items : x.hash = y.hash => x.length = y.length
  /\ \A x \in Items : /\ x.offset \in Nat /\ x.length \in Nat
                      /\ x.length <= CacheSize /\ x.length <= EncoderBudget
                      /\ DisableChunkedMmInput => x.length <= MaxNumScheduledTokens

VARIABLES
  manager,                 \* the EncoderCacheManager
  worker,                  \* hashes in the workers' encoder_cache
  missed,                  \* hashes a step has read in vain
  status, num_computed_tokens, waiting, running,
  batch_queue,             \* issued steps: their requests in order, and who samples
  pass,                    \* the locals of schedule()
  cur,                     \* the locals of _try_schedule_encoder_inputs
  sched,                   \* the step being built: request -> tokens and inputs
  aborts, resets

cacheVars == <<manager, worker, missed>>
queueVars == <<status, num_computed_tokens, waiting, running>>
passVars == <<pass, cur, sched>>
envVars == <<aborts, resets>>
vars == <<cacheVars, queueVars, batch_queue, passVars, envVars>>

Lower(a, b) == IF a < b THEN a ELSE b
Put(f, x, v) == [y \in DOMAIN f \cup {x} |-> IF y = x THEN v ELSE f[y]]
Drop(f, S) == [y \in DOMAIN f \ S |-> f[y]]
Unfinished == {r \in Requests : status[r] \notin {"NEW", "FINISHED"}}

(* A set of numbers in ascending order, and the members of S in the order   *)
(* they have in q.                                                          *)
InOrder(S) ==
  [k \in 1 .. Cardinality(S) |-> CHOOSE i \in S : Cardinality({j \in S : j < i}) = k - 1]
Only(q, S) ==
  LET kept == InOrder({i \in 1 .. Len(q) : q[i] \in S})
  IN [k \in 1 .. Len(kept) |-> q[kept[k]]]

(* The slots that the entries S take up, one for each embedding.            *)
SumEmbeds(S) == Cardinality(UNION {{h} \X (1 .. Embeds(h)) : h \in S})

-----------------------------------------------------------------------------
(* EncoderCacheManager, as functions of its state m.                        *)

EmptyManager == [cached |-> <<>>, request_cached_ids |-> [r \in Requests |-> {}],
                 freeable |-> <<>>, freed |-> {},
                 num_free_slots |-> CacheSize, num_freeable_slots |-> CacheSize]

(* Mutant of check_and_update_cache: a reference does not leave freeable.   *)
check_and_update_cache_freeable(m, r, i) ==
  LET h == mm_features[r][i].hash
  IN [m EXCEPT !.cached[h] = @ \cup {r}, !.request_cached_ids[r] = @ \cup {i}]

(* For a cached item: r refers to it, it is no longer freeable.             *)
check_and_update_cache(m, r, i) ==
  LET h == mm_features[r][i].hash
  IN [m EXCEPT !.cached[h] = @ \cup {r}, !.request_cached_ids[r] = @ \cup {i},
               !.freeable = Only(@, Hashes \ {h}),
               !.num_freeable_slots = IF m.cached[h] = {} THEN @ - Embeds(h) ELSE @]

(* Mutant of can_allocate: what could be reclaimed is not counted.          *)
can_allocate_free_only(m, h, budget, scheduled) ==
  /\ Embeds(h) <= budget
  /\ Embeds(h) + scheduled <= m.num_free_slots

(* can_allocate answers, and evicts the oldest freeable entries if need be. *)
can_allocate(m, h, budget, scheduled) ==
  /\ Embeds(h) <= budget
  /\ \/ Embeds(h) + scheduled <= m.num_free_slots
     \/ Embeds(h) + scheduled <= m.num_freeable_slots

(* An entry goes if those before it do not make enough room.                *)
num_evicted(m, need) ==
  Cardinality({k \in 1 .. Len(m.freeable) :
    m.num_free_slots + SumEmbeds({m.freeable[j] : j \in 1 .. k - 1}) < need})

(* Mutant of evict: the workers are not told.                               *)
evict_silently(m, need) ==
  LET k == num_evicted(m, need)
      S == {m.freeable[j] : j \in 1 .. k}
  IN [m EXCEPT !.cached = Drop(@, S), !.freeable = SubSeq(@, k + 1, Len(@)),
               !.num_free_slots = @ + SumEmbeds(S)]

evict(m, need) ==
  LET k == num_evicted(m, need)
      S == {m.freeable[j] : j \in 1 .. k}
  IN [m EXCEPT !.cached = Drop(@, S), !.freeable = SubSeq(@, k + 1, Len(@)),
               !.freed = @ \cup S, !.num_free_slots = @ + SumEmbeds(S)]

(* allocate for the inputs S of r, no two of which have the same hash.      *)
allocate(m, r, S) ==
  LET H == HashesOf(r, S)
  IN [m EXCEPT !.cached = [h \in DOMAIN @ \cup H |->
                             (IF h \in DOMAIN @ THEN @[h] ELSE {})
                               \cup (IF h \in H THEN {r} ELSE {})],
               !.request_cached_ids[r] = @ \cup S,
               !.num_free_slots = @ - SumEmbeds(H),
               !.num_freeable_slots = @ - SumEmbeds(H)]

(* free_encoder_input for the inputs S of r in turn.  An entry that r alone *)
(* referred to becomes freeable when the first input that shows it goes.    *)
free_encoder_input(m, r, S) ==
  LET hash(i) == mm_features[r][i].hash
      last == {i \in S : /\ hash(i) \in DOMAIN m.cached /\ m.cached[hash(i)] = {r}
                         /\ \A j \in S : j < i => hash(j) # hash(i)}
      order == InOrder(last)
  IN [m EXCEPT !.request_cached_ids[r] = @ \ S,
               !.cached = [h \in DOMAIN @ |-> IF h \in HashesOf(r, S) THEN @[h] \ {r} ELSE @[h]],
               !.freeable = @ \o [k \in 1 .. Len(order) |-> hash(order[k])],
               !.num_freeable_slots = @ + SumEmbeds(HashesOf(r, last))]

(* Mutant of free: the ids are forgotten, the references kept.              *)
free_ids_only(m, r) == [m EXCEPT !.request_cached_ids[r] = {}]

free(m, r) == free_encoder_input(m, r, m.request_cached_ids[r])

(* _free_encoder_inputs: the items that lie behind what is computed for     *)
(* good.  The last chunk's token is an output placeholder.                  *)
_free_encoder_inputs(m, r) ==
  LET computed == num_computed_tokens[r] - (IF num_computed_tokens[r] = NumPrompt[r] THEN 1 ELSE 0)
  IN free_encoder_input(m, r, {i \in m.request_cached_ids[r] :
       mm_features[r][i].offset + mm_features[r][i].length + Shift <= computed})

-----------------------------------------------------------------------------
IdlePass == [phase |-> "idle", req_index |-> 1, token_budget |-> 0,
             encoder_compute_budget |-> 0, preempted |-> FALSE]

Init ==
  /\ manager = EmptyManager /\ worker = {} /\ missed = {}
  /\ status = [r \in Requests |-> "NEW"]
  /\ num_computed_tokens = [r \in Requests |-> 0]
  /\ waiting = <<>> /\ running = <<>> /\ batch_queue = <<>>
  /\ pass = IdlePass /\ cur = <<>> /\ sched = <<>> /\ aborts = 0 /\ resets = 0

add_request(r) ==
  /\ pass.phase = "idle" /\ status[r] = "NEW"
  /\ status' = [status EXCEPT ![r] = "WAITING"]
  /\ waiting' = Append(waiting, r)
  /\ UNCHANGED <<cacheVars, num_computed_tokens, running, batch_queue, passVars, envVars>>

(* finish_requests, for an abort.                                           *)
finish_requests(r) ==
  /\ pass.phase \in {"idle", "updating"} /\ r \in Unfinished /\ aborts < MaxAborts
  /\ aborts' = aborts + 1
  /\ manager' = free(manager, r)
  /\ status' = [status EXCEPT ![r] = "FINISHED"]
  /\ waiting' = Only(waiting, Requests \ {r}) /\ running' = Only(running, Requests \ {r})
  /\ UNCHANGED <<worker, missed, num_computed_tokens, batch_queue, passVars, resets>>

(* Both halves of the cache are dropped; the engine core calls the manager  *)
(* and then the workers.                                                    *)
reset_encoder_cache ==
  /\ pass.phase = "idle" /\ resets < MaxResets
  /\ resets' = resets + 1
  /\ manager' = EmptyManager /\ worker' = {}
  /\ UNCHANGED <<missed, queueVars, batch_queue, passVars, aborts>>

-----------------------------------------------------------------------------
(* schedule(): the running requests in order, then the waiting ones unless  *)
(* somebody was preempted.                                                  *)

BeginSchedule ==
  /\ pass.phase = "idle" /\ Unfinished # {}
  /\ pass' = [IdlePass EXCEPT !.phase = "running", !.token_budget = MaxNumScheduledTokens,
                              !.encoder_compute_budget = EncoderBudget]
  /\ UNCHANGED <<cacheVars, queueVars, batch_queue, cur, sched, envVars>>

(* get_mm_features_in_window: the first and the last item, by bisection.    *)
first_in_window(r, start) ==
  Cardinality({i \in Inputs(r) : mm_features[r][i].offset + mm_features[r][i].length <= start}) + 1
last_in_window(r, end) == Cardinality({i \in Inputs(r) : mm_features[r][i].offset < end})

(* The chunk of r, before its encoder inputs are looked at: from item at to *)
(* item hi.  Nothing is left once its token is due.                         *)
Chunk(r, new) ==
  LET n == Lower(NumPrompt[r] - num_computed_tokens[r], pass.token_budget)
  IN [r |-> r, new |-> new, n |-> n, inputs |-> {}, hashes |-> {}, embeds |-> 0,
      budget |-> pass.encoder_compute_budget,
      at |-> first_in_window(r, num_computed_tokens[r]),
      hi |-> IF n = 0 THEN 0 ELSE last_in_window(r, num_computed_tokens[r] + n + Shift)]

InRunningLoop == pass.phase = "running" /\ pass.req_index <= Len(running) /\ pass.token_budget > 0

TryRunning ==
  /\ InRunningLoop
  /\ cur' = Chunk(running[pass.req_index], FALSE)
  /\ pass' = [pass EXCEPT !.phase = "scanning"]
  /\ UNCHANGED <<cacheVars, queueVars, batch_queue, sched, envVars>>

EndRunning ==
  /\ pass.phase = "running" /\ ~InRunningLoop
  /\ pass' = [pass EXCEPT !.phase = IF pass.preempted THEN "closing" ELSE "waiting"]
  /\ UNCHANGED <<cacheVars, queueVars, batch_queue, cur, sched, envVars>>

(* The head of the waiting queue.  With two steps in flight the outputs of  *)
(* a preempted request are in before the next pass, so none is passed over  *)
(* for them.                                                                *)
InWaitingLoop == pass.phase = "waiting" /\ waiting # <<>> /\ pass.token_budget > 0

TryWaiting ==
  /\ InWaitingLoop
  /\ cur' = Chunk(Head(waiting), TRUE)
  /\ pass' = [pass EXCEPT !.phase = "scanning"]
  /\ UNCHANGED <<cacheVars, queueVars, batch_queue, sched, envVars>>

EndWaiting ==
  /\ pass.phase = "waiting" /\ ~InWaitingLoop
  /\ pass' = [pass EXCEPT !.phase = "closing"]
  /\ UNCHANGED <<cacheVars, queueVars, batch_queue, cur, sched, envVars>>

-----------------------------------------------------------------------------
(* _try_schedule_encoder_inputs: an item is skipped, found in the cache,    *)
(* taken into the step, or cuts the chunk and ends the scan.                *)

Item == mm_features[cur.r][cur.at]
Computed == num_computed_tokens[cur.r]
Scanning == pass.phase = "scanning" /\ cur.at <= cur.hi
Wanted == Scanning /\ Item.hash \notin cur.hashes /\ Item.hash \notin DOMAIN manager.cached
Partly ==
  /\ DisableChunkedMmInput /\ Computed < Item.offset
  /\ Computed + cur.n < Item.offset + Item.length
Fits == can_allocate(manager, Item.hash, cur.budget, cur.embeds)
scanUnchanged == UNCHANGED <<worker, missed, queueVars, batch_queue, pass, sched, envVars>>

AlreadyTaken ==
  /\ Scanning /\ Item.hash \in cur.hashes
  /\ cur' = [cur EXCEPT !.at = @ + 1]
  /\ UNCHANGED manager /\ scanUnchanged

CacheHit ==
  /\ Scanning /\ Item.hash \notin cur.hashes /\ Item.hash \in DOMAIN manager.cached
  /\ manager' = check_and_update_cache(manager, cur.r, cur.at)
  /\ cur' = [cur EXCEPT !.at = @ + 1]
  /\ scanUnchanged

CutChunk ==
  LET before == Item.offset - (Computed + Shift)
  IN /\ Wanted /\ (Partly \/ ~Fits)
     /\ cur' = [cur EXCEPT !.n = IF before > 0 THEN before ELSE 0, !.at = cur.hi + 1]
     /\ UNCHANGED manager /\ scanUnchanged

(* Only the drafter's lookahead reaches the item: no embedding is due.      *)
LookAhead ==
  /\ Wanted /\ ~Partly /\ Fits /\ Computed + cur.n <= Item.offset
  /\ manager' = evict(manager, Embeds(Item.hash) + cur.embeds)
  /\ cur' = [cur EXCEPT !.at = @ + 1]
  /\ scanUnchanged

TakeInput ==
  /\ Wanted /\ ~Partly /\ Fits /\ Computed + cur.n > Item.offset
  /\ manager' = evict(manager, Embeds(Item.hash) + cur.embeds)
  /\ cur' = [cur EXCEPT !.at = @ + 1, !.inputs = @ \cup {cur.at}, !.hashes = @ \cup {Item.hash},
                        !.embeds = @ + Item.length, !.budget = @ - Item.length]
  /\ scanUnchanged

(* A running request without a chunk is passed over, a waiting one ends the *)
(* loop.                                                                    *)
EndScan ==
  /\ pass.phase = "scanning" /\ cur.at > cur.hi
  /\ \/ /\ cur.n = 0 /\ ~cur.new
        /\ pass' = [pass EXCEPT !.phase = "running", !.req_index = @ + 1] /\ cur' = <<>>
     \/ /\ cur.n = 0 /\ cur.new
        /\ pass' = [pass EXCEPT !.phase = "closing"] /\ cur' = <<>>
     \/ /\ cur.n > 0
        /\ pass' = [pass EXCEPT !.phase = "allocating"] /\ UNCHANGED cur
  /\ UNCHANGED <<cacheVars, queueVars, batch_queue, sched, envVars>>

-----------------------------------------------------------------------------
(* allocate_slots succeeds: the step takes the request, and the cache is    *)
(* charged for the inputs to encode.                                        *)
Scheduled ==
  /\ manager' = allocate(manager, cur.r, cur.inputs)
  /\ sched' = Put(sched, cur.r, [n |-> cur.n, inputs |-> cur.inputs])
  /\ cur' = <<>>
Charged(p) ==
  [p EXCEPT !.token_budget = @ - cur.n,
            !.encoder_compute_budget = IF cur.inputs # {} THEN cur.budget ELSE @]

ScheduleRunning ==
  /\ pass.phase = "allocating" /\ ~cur.new /\ Scheduled
  /\ pass' = [Charged(pass) EXCEPT !.phase = "running", !.req_index = @ + 1]
  /\ UNCHANGED <<worker, missed, queueVars, batch_queue, envVars>>

ScheduleWaiting ==
  /\ pass.phase = "allocating" /\ cur.new /\ Scheduled
  /\ pass' = [Charged(pass) EXCEPT !.phase = "waiting"]
  /\ status' = [status EXCEPT ![cur.r] = "RUNNING"]
  /\ waiting' = Tail(waiting) /\ running' = Append(running, cur.r)
  /\ UNCHANGED <<worker, missed, num_computed_tokens, batch_queue, envVars>>

(* It fails for a waiting request: its references are given back.           *)
NoBlocksForWaiting ==
  /\ KvPressure /\ pass.phase = "allocating" /\ cur.new
  /\ manager' = free(manager, cur.r)
  /\ pass' = [pass EXCEPT !.phase = "closing"] /\ cur' = <<>>
  /\ UNCHANGED <<worker, missed, queueVars, batch_queue, sched, envVars>>

(* It fails for a running one: a running request is preempted.  One that is *)
(* in the step already is taken out again, with its encoder inputs.         *)
Victim == IF Policy = "fcfs" THEN Last(running)
          ELSE CHOOSE v \in ToSet(running) : \A q \in ToSet(running) : q <= v
Unscheduled(p, v) ==
  IF v \notin DOMAIN sched THEN p
  ELSE [p EXCEPT !.req_index = @ - 1, !.token_budget = @ + sched[v].n,
                 !.encoder_compute_budget = @ + SumEmbeds(HashesOf(v, sched[v].inputs))]

PreemptForBlocks ==
  LET v == Victim
      self == v = cur.r
  IN /\ KvPressure /\ pass.phase = "allocating" /\ ~cur.new
     /\ manager' = free(manager, v)
     /\ num_computed_tokens' = [num_computed_tokens EXCEPT ![v] = 0]
     /\ status' = [status EXCEPT ![v] = "PREEMPTED"]
     /\ running' = IF Policy = "fcfs" THEN Front(running) ELSE Only(running, Requests \ {v})
     /\ waiting' = <<v>> \o waiting
     /\ sched' = Drop(sched, {v})
     /\ pass' = [Unscheduled(pass, v) EXCEPT !.preempted = TRUE,
                                             !.phase = IF self THEN "closing" ELSE @]
     /\ cur' = IF self THEN <<>> ELSE cur
     /\ UNCHANGED <<worker, missed, batch_queue, envVars>>

-----------------------------------------------------------------------------
(* Mutant of after_step: the evicted entries are dropped last.              *)
after_step_free_last(held, encoded, freed) == (held \cup encoded) \ freed

(* The workers' share of a step: drop what was evicted, run the encoders.   *)
after_step(held, encoded, freed) == (held \ freed) \cup encoded

(* The encoder outputs that r's scheduled tokens need.  The drafter, one    *)
(* token ahead, does without an item that starts behind them.               *)
gather_mm_embeddings(r, start, end) ==
  HashesOf(r, first_in_window(r, start) .. last_in_window(r, end))

Upto(r) == num_computed_tokens[r] + sched[r].n
Encoded == UNION {HashesOf(r, sched[r].inputs) : r \in DOMAIN sched}

EndSchedule ==
  LET order == Only(running, DOMAIN sched)
      read == UNION {gather_mm_embeddings(r, num_computed_tokens[r], Upto(r)) : r \in DOMAIN sched}
  IN /\ pass.phase = "closing"
     /\ worker' = after_step(worker, Encoded, manager.freed)
     /\ missed' = missed \cup (read \ worker')
     /\ manager' = [manager EXCEPT !.freed = {}]
     /\ num_computed_tokens' = [r \in Requests |-> IF r \in DOMAIN sched THEN Upto(r)
                                                   ELSE num_computed_tokens[r]]
     /\ batch_queue' = Append(batch_queue, [k \in 1 .. Len(order) |->
          [r |-> order[k], samples |-> Upto(order[k]) = NumPrompt[order[k]]]])
     /\ pass' = [IdlePass EXCEPT !.phase = IF Len(batch_queue') = 2 THEN "updating" ELSE "idle"]
     /\ sched' = <<>>
     /\ UNCHANGED <<status, waiting, running, cur, envVars>>

(* update_from_output, request by request: items that are done are freed; a *)
(* sampled token ends the request, preempted or not.                        *)
Updating ==
  \/ pass.phase \in {"updating", "applying"}
  \/ pass.phase = "idle" /\ Unfinished = {} /\ batch_queue # <<>>

UpdateRequest ==
  LET step == Head(batch_queue)
      out == Head(step)
      m == _free_encoder_inputs(manager, out.r)
      done == out.r \in Unfinished /\ out.samples
  IN /\ Updating /\ step # <<>>
     /\ batch_queue' = [batch_queue EXCEPT ![1] = Tail(@)]
     /\ manager' = IF out.r \notin Unfinished THEN manager
                   ELSE IF done THEN free(m, out.r) ELSE m
     /\ status' = IF done THEN [status EXCEPT ![out.r] = "FINISHED"] ELSE status
     /\ pass' = [pass EXCEPT !.phase = "applying"]
     /\ UNCHANGED <<worker, missed, num_computed_tokens, waiting, running, cur, sched, envVars>>

(* The requests that have stopped leave the queues.                         *)
EndUpdate ==
  /\ Updating /\ Head(batch_queue) = <<>>
  /\ batch_queue' = Tail(batch_queue)
  /\ waiting' = Only(waiting, Unfinished) /\ running' = Only(running, Unfinished)
  /\ pass' = [pass EXCEPT !.phase = "idle"]
  /\ UNCHANGED <<cacheVars, status, num_computed_tokens, cur, sched, envVars>>

Scan == AlreadyTaken \/ CacheHit \/ CutChunk \/ LookAhead \/ TakeInput \/ EndScan

Engine ==
  \/ BeginSchedule \/ TryRunning \/ EndRunning \/ TryWaiting \/ EndWaiting \/ Scan
  \/ ScheduleRunning \/ ScheduleWaiting \/ NoBlocksForWaiting \/ PreemptForBlocks
  \/ EndSchedule \/ UpdateRequest \/ EndUpdate

Next ==
  \/ Engine \/ reset_encoder_cache
  \/ \E r \in Requests : add_request(r) \/ finish_requests(r)

Spec == Init /\ [][Next]_vars

(* run_busy_loop steps the engine as long as there is work.                 *)
FairSpec == Spec /\ WF_vars(Engine)

-----------------------------------------------------------------------------
(* The types; the slot counters stay within the cache size, which is what   *)
(* allocate asserts before it charges an input, and no chunk exceeds its    *)
(* prompt or what is left of the token budget.                              *)
CacheMaps == UNION {[D -> SUBSET Requests] : D \in SUBSET Hashes}
Managers ==
  [cached : CacheMaps,
   request_cached_ids : [Requests -> SUBSET Nat],
   freeable : Seq(Hashes), freed : SUBSET Hashes,
   num_free_slots : 0 .. CacheSize, num_freeable_slots : 0 .. CacheSize]
Phases == {"idle", "running", "waiting", "scanning", "allocating", "closing", "updating", "applying"}
Passes == [phase : Phases, req_index : Nat \ {0}, token_budget : Nat,
           encoder_compute_budget : Int, preempted : BOOLEAN]

TypeOK ==
  /\ manager \in Managers
  /\ worker \subseteq Hashes /\ missed \subseteq Hashes
  /\ status \in [Requests -> {"NEW", "WAITING", "RUNNING", "PREEMPTED", "FINISHED"}]
  /\ num_computed_tokens \in [Requests -> Nat]
  /\ \A r \in Requests : num_computed_tokens[r] <= NumPrompt[r]
  /\ waiting \in Seq(Requests) /\ running \in Seq(Requests)
  /\ batch_queue \in Seq(Seq([r : Requests, samples : BOOLEAN]))
  /\ pass \in Passes
  /\ DOMAIN sched \subseteq Requests
  /\ \A r \in DOMAIN sched : sched[r].n \in 0 .. NumPrompt[r] - num_computed_tokens[r]
  /\ pass.phase \in {"scanning", "allocating"} =>
       cur.n \in 0 .. Lower(NumPrompt[cur.r] - num_computed_tokens[cur.r], pass.token_budget)

(* Slots are what the entries leave over; the freeable queue holds exactly  *)
(* the entries without a reference, each once, and its slots can be had.    *)
SlotsExact ==
  LET loose == {h \in DOMAIN manager.cached : manager.cached[h] = {}}
  IN /\ manager.num_free_slots = CacheSize - SumEmbeds(DOMAIN manager.cached)
     /\ manager.num_freeable_slots = manager.num_free_slots + SumEmbeds(loose)
     /\ ToSet(manager.freeable) = loose /\ Len(manager.freeable) = Cardinality(loose)

(* A reference always belongs to a live request that knows of it, so that   *)
(* free will drop it: no entry is pinned for ever.                          *)
NoOrphanReference ==
  \A h \in DOMAIN manager.cached : \A r \in manager.cached[h] :
    /\ r \in Unfinished
    /\ \E i \in manager.request_cached_ids[r] : mm_features[r][i].hash = h

(* Between passes the workers hold exactly the entries the manager counts,  *)
(* so their memory is bounded by cache_size, and a hit is a hit.            *)
WorkerAgrees == pass.phase \in {"idle", "updating"} => worker = DOMAIN manager.cached

(* No step reads an encoder output its workers do not have: they raise      *)
(* "Encoder cache miss".                                                    *)
NoEncoderMiss == missed = {}

(* With EAGLE's shift a request waits for item i one token before it, while *)
(* it needs or still refers to the items that end less than two tokens      *)
(* before i.  These and i must fit into the compute budget, and into the    *)
(* cache beside what the other requests may hold in the same way; and an    *)
(* item that is not to be split must fit into a step with the token before  *)
(* it.  Without the shift no two items are needed together.                 *)
HeldFor(r, i) ==
  {j \in 1 .. i - 1 :
     mm_features[r][j].offset + mm_features[r][j].length + Shift > mm_features[r][i].offset - Shift}
HeldByOthers(r) ==
  UNION {HashesOf(q, UNION {HeldFor(q, i) : i \in Inputs(q)}) : q \in Requests \ {r}}
WindowsFit ==
  \A r \in Requests : \A i \in Inputs(r) :
    LET together == HashesOf(r, HeldFor(r, i) \cup {i})
    IN /\ SumEmbeds(together) <= EncoderBudget
       /\ SumEmbeds(together \cup HeldByOthers(r)) <= CacheSize
       /\ DisableChunkedMmInput /\ mm_features[r][i].offset > 0 =>
            mm_features[r][i].length + Shift <= MaxNumScheduledTokens

(* Every request that is added gets its token, if the encoder cache is      *)
(* large enough for what requests hold while they wait for more:            *)
(* _try_schedule_encoder_inputs may cut a chunk again and again, but not    *)
(* for ever.                                                                *)
AllFinish ==
  WindowsFit => \A r \in Requests : (status[r] # "NEW") ~> (status[r] = "FINISHED")

=============================================================================
