------------------------------ MODULE BlockPool ------------------------------
(***************************************************************************)
(* The pool of KV-cache blocks (vllm/v1/core/block_pool.py) and the free   *)
(* queue it keeps (FreeKVCacheBlockQueue in kv_cache_utils.py).  The pool  *)
(* is one record, and every method of the class is an operator from pool   *)
(* to pool, so that a handler which calls several of them composes them.   *)
(*                                                                         *)
(*   ref_cnt     KVCacheBlock.ref_cnt                                      *)
(*   block_hash  KVCacheBlock.block_hash, NoHash when it is None           *)
(*   cached      cached_block_hash_to_block: for each hash the blocks      *)
(*               registered under it, oldest first (a Python dict keeps    *)
(*               its insertion order)                                      *)
(*   free        free_block_queue, in eviction order                       *)
(*   view        the set of hashes that a consumer holds after replaying   *)
(*               every KV event the pool has emitted, in order             *)
(*   failed      TRUE once an assertion of these methods would have fired  *)
(*                                                                         *)
(* A hash is the prefix of tokens it stands for: hashes are chained over   *)
(* the whole prefix and taken to be free of collisions.                    *)
(***************************************************************************)
EXTENDS Integers, Sequences, FiniteSets, SequencesExt

CONSTANTS NumBlocks,      \* num_gpu_blocks
          Hashes,         \* the block hashes that can arise
          EnableCaching   \* enable_caching

ASSUME PoolAssumption ==
  /\ NumBlocks \in Nat \ {0}
  /\ EnableCaching \in BOOLEAN
  /\ <<>> \notin Hashes

Blocks == 0 .. NumBlocks - 1
null_block == 0
NoHash == <<>>

PoolInit ==
  [ ref_cnt    |-> [b \in Blocks |-> 0],
    block_hash |-> [b \in Blocks |-> NoHash],
    cached     |-> [h \in Hashes |-> <<>>],
    free       |-> [i \in 1 .. NumBlocks - 1 |-> i],
    view       |-> {},
    failed     |-> FALSE ]

get_num_free_blocks(p) == Len(p.free)

(* A set of numbers in ascending order, and the members of S in the order   *)
(* they have in q.                                                          *)
InOrder(S) ==
  [k \in 1 .. Cardinality(S) |-> CHOOSE i \in S : Cardinality({j \in S : j < i}) = k - 1]
Only(q, S) ==
  LET kept == InOrder({i \in 1 .. Len(q) : q[i] \in S})
  IN [k \in 1 .. Len(kept) |-> q[kept[k]]]

(* FreeKVCacheBlockQueue, as functions of the queue q.                      *)
popleft_n(q, n) == SubSeq(q, n + 1, Len(q))
remove(q, S) == Only(q, Blocks \ S)
append_n(q, blocks) == q \o blocks
prepend_n(q, blocks) == blocks \o q

(* The first block registered under h, or null_block for a miss.           *)
get_cached_block(p, h) ==
  IF p.cached[h] = <<>> THEN null_block ELSE Head(p.cached[h])

CachedHashes(p) == {h \in Hashes : p.cached[h] # <<>>}

-----------------------------------------------------------------------------
(* Mutant of RemoveHashes: no BlockRemoved event is emitted.                *)
RemoveHashesSilently(p, S) ==
  [p EXCEPT
     !.cached     = [h \in Hashes |-> Only(@[h], Blocks \ S)],
     !.block_hash = [b \in Blocks |-> IF b \in S THEN NoHash ELSE @[b]]]

(* _remove_cached_block_hashes and the BlockRemoved events that follow it,  *)
(* for a set of blocks.  A consumer drops the hash on every such event.     *)
RemoveHashes(p, S) ==
  LET gone == {p.block_hash[b] : b \in S} \ {NoHash}
  IN [p EXCEPT
        !.cached     = [h \in Hashes |-> Only(@[h], Blocks \ S)],
        !.block_hash = [b \in Blocks |-> IF b \in S THEN NoHash ELSE @[b]],
        !.view       = @ \ gone]

(* get_new_blocks: pop the first n blocks, evict what they cache.  The      *)
(* caller has checked that n blocks are free.                               *)
NewBlocks(p, n) == SubSeq(p.free, 1, n)

(* Mutant of get_new_blocks: the block is still found under its old hash.   *)
get_new_blocks_unevicted(p, n) ==
  LET S == ToSet(NewBlocks(p, n))
  IN [p EXCEPT
        !.free       = popleft_n(@, n),
        !.block_hash = [b \in Blocks |-> IF b \in S THEN NoHash ELSE @[b]],
        !.ref_cnt    = [b \in Blocks |-> IF b \in S THEN @[b] + 1 ELSE @[b]]]

get_new_blocks(p, n) ==
  LET S == ToSet(NewBlocks(p, n))
      q == IF EnableCaching THEN RemoveHashes(p, S) ELSE p
  IN [q EXCEPT
        !.failed  = @ \/ \E b \in S : p.ref_cnt[b] # 0,
        !.free    = popleft_n(@, n),
        !.ref_cnt = [b \in Blocks |-> IF b \in S THEN @[b] + 1 ELSE @[b]]]

(* Mutant of touch: the block stays in the free queue.                      *)
touch_left_in_queue(p, blocks) ==
  LET S == ToSet(blocks) \ {null_block}
  IN [p EXCEPT !.ref_cnt = [b \in Blocks |-> IF b \in S THEN @[b] + 1 ELSE @[b]]]

(* touch: a hit takes a reference and leaves the free queue.                *)
touch(p, blocks) ==
  LET S == ToSet(blocks) \ {null_block}
  IN [p EXCEPT
        !.free    = remove(@, {b \in S : p.ref_cnt[b] = 0}),
        !.ref_cnt = [b \in Blocks |-> IF b \in S THEN @[b] + 1 ELSE @[b]]]

(* free_blocks: blocks that reach zero references go back to the queue,     *)
(* the ones without a hash to its front, the others to its back.            *)
free_blocks(p, ordered_blocks) ==
  LET S == ToSet(ordered_blocks) \ {null_block}
      zero == {b \in S : p.ref_cnt[b] = 1}
      to_front == {b \in zero : p.block_hash[b] = NoHash /\ EnableCaching}
      without_hash == Only(ordered_blocks, to_front)
      with_hash == Only(ordered_blocks, zero \ to_front)
  IN [p EXCEPT
        !.free    = append_n(prepend_n(@, without_hash), with_hash),
        !.ref_cnt = [b \in Blocks |-> IF b \in S THEN @[b] - 1 ELSE @[b]]]

(* cache_full_blocks: register blocks[first+1 .. last] under hashes[i] and  *)
(* emit one BlockStored event.  A null block is skipped; a block that has a  *)
(* hash already fails the assertion (with block_size = hash_block_size there *)
(* is no shorter entry it could be promoted from).                           *)
cache_full_blocks(p, blocks, first, last, hashes) ==
  LET new == {i \in first + 1 .. last : blocks[i] # null_block}
      HashOf(b) == hashes[CHOOSE i \in new : blocks[i] = b]
      owners == {blocks[i] : i \in new}
      For(h) == {b \in owners : HashOf(b) = h /\ b \notin ToSet(p.cached[h])}
  IN [p EXCEPT
        !.failed     = @ \/ \E b \in owners : p.block_hash[b] # NoHash,
        !.block_hash = [b \in Blocks |-> IF b \in owners THEN HashOf(b) ELSE @[b]],
        !.cached     = [h \in Hashes |-> @[h] \o SetToSeq(For(h))],
        !.view       = @ \cup {hashes[i] : i \in new}]

(* emit_cached_block_events: one BlockStored event for the first n hashes   *)
(* of the request; the pool itself does not change.                         *)
emit_cached_block_events(p, n, hashes) ==
  [p EXCEPT !.view = @ \cup {hashes[i] : i \in 1 .. n}]

(* reset_prefix_cache: refused while any block but the null block is used.  *)
CanReset(p) == NumBlocks - get_num_free_blocks(p) = 1

reset_prefix_cache(p) ==
  [p EXCEPT !.cached     = [h \in Hashes |-> <<>>],
            !.block_hash = [b \in Blocks |-> NoHash],
            !.view       = {}]

-----------------------------------------------------------------------------
PoolType(p) ==
  p \in [ ref_cnt : [Blocks -> Nat], block_hash : [Blocks -> Hashes \cup {NoHash}],
          cached : [Hashes -> Seq(Blocks)], free : Seq(Blocks),
          view : SUBSET Hashes, failed : BOOLEAN ]

(* The queue holds exactly the blocks nobody references, each once.         *)
FreeExact(p) ==
  /\ \A b \in Blocks :
       b \in ToSet(p.free) <=> (b # null_block /\ p.ref_cnt[b] = 0)
  /\ \A i, j \in 1 .. Len(p.free) : p.free[i] = p.free[j] => i = j

(* The map and the back pointers of the blocks say the same.                *)
MapConsistent(p) ==
  /\ \A h \in Hashes, b \in Blocks :
       b \in ToSet(p.cached[h]) <=> p.block_hash[b] = h
  /\ \A h \in Hashes : \A i, j \in 1 .. Len(p.cached[h]) :
       p.cached[h][i] = p.cached[h][j] => i = j
  /\ p.block_hash[null_block] = NoHash
==============================================================================
