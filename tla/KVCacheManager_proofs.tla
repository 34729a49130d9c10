------------------------ MODULE KVCacheManager_proofs ------------------------
(***************************************************************************)
(* Block accounting and prefix caching, for any number of blocks, requests  *)
(* and tokens, any block size, window and depth of the batch queue.         *)
(*                                                                         *)
(* Core is what the pool and the tables owe to each other: exact counts,    *)
(* the hash map, and that a block without a hash is in one table only, so   *)
(* that a request overwrites nobody else's entries.  Every method of the    *)
(* pool and of the managers is shown to keep it before any action is.       *)
(* RequestOK relates the counters of a request to its steps in flight, and  *)
(* bounds where a table may be null; ContentOK and CacheTruth say what the  *)
(* blocks hold: in a table the first Known entries, those that no rejected  *)
(* draft can take back, and under a hash the entries of its prefix.         *)
(***************************************************************************)
EXTENDS KVCacheManager, FiniteSetTheorems, TLAPS

-----------------------------------------------------------------------------
(* The inductive invariant                                                  *)

(* The nonnull entries of a table are different blocks.                     *)
Apart(s) == \A i, j \in 1 .. Len(s) : s[i] = s[j] /\ s[i] # null_block => i = j
Distinct(q) == \A i, j \in 1 .. Len(q) : q[i] = q[j] => i = j

Holders(t, b) == {r \in Requests : b \in ToSet(t[r])}

TablesOK(t) == t \in [Requests -> Seq(Blocks)] /\ \A r \in Requests : Apart(t[r])

(* The pool and the tables t: counts are exact, and a block without a hash  *)
(* is in one table at most, since only a prefix hit shares blocks.          *)
CountsOK(p, t) ==
  \A b \in Blocks \ {null_block} : p.ref_cnt[b] = Cardinality(Holders(t, b))
PrivateOK(p, t) ==
  \A b \in Blocks \ {null_block} :
    p.block_hash[b] = NoHash => \A r, q \in Holders(t, b) : r = q

PoolOK(p, t) ==
  /\ PoolType(p) /\ FreeExact(p) /\ MapConsistent(p) /\ p.failed = FALSE
  /\ CountsOK(p, t) /\ PrivateOK(p, t)
  /\ EnableCaching \/ \A b \in Blocks : p.block_hash[b] = NoHash

(* The table s of r, of which d blocks are cached: those behind d have no   *)
(* hash, and a hash in it is the hash of r's prefix.                        *)
HashesOK(p, s, r, d) ==
  \A i \in 1 .. Len(s) : s[i] # null_block /\ p.block_hash[s[i]] # NoHash =>
    /\ i <= d /\ i <= Len(Tokens[r]) \div BlockSize
    /\ p.block_hash[s[i]] = block_hashes(r)[i]

(* Full attention.  A table has no null entry, and its first d blocks are   *)
(* cached.  A free block that caches an extension has a block of the prefix *)
(* behind it: one that is in use or further from being evicted.             *)
ChainOK(p, s, d) ==
  /\ d \in Int /\ d <= Len(s)
  /\ \A i \in 1 .. Len(s) : s[i] # null_block /\ (i <= d => p.block_hash[s[i]] # NoHash)

Parent(h) == SubSeq(h, 1, Len(h) - BlockSize)
IsParent(bh, b, c) == c \in Blocks /\ bh[c] # NoHash /\ bh[c] = Parent(bh[b])
Extends(bh, b) == bh[b] # NoHash /\ Len(bh[b]) > BlockSize
QueueOK(bh, q) ==
  \A i \in 1 .. Len(q) : Extends(bh, q[i]) =>
    \E c : IsParent(bh, q[i], c) /\ \A j \in 1 .. i : q[j] # c

Linked(p, t, d) ==
  QueueOK(p.block_hash, p.free) /\ \A r \in Requests : ChainOK(p, t[r], d[r])

(* The pool, the tables t and the numbers d of cached blocks.               *)
Core(p, t, d) ==
  /\ TablesOK(t) /\ PoolOK(p, t)
  /\ \A r \in Requests : HashesOK(p, t[r], r, d[r])
  /\ SlidingWindow = 0 => Linked(p, t, d)

(* The KV entry of r that belongs in slot k of its i-th block, and the      *)
(* contents c that hold the first n of them in the table s.                 *)
Right(r, i, k) == SubSeq(Tokens[r], 1, (i - 1) * BlockSize + k + 1)
Holds(c, s, r, n) ==
  \A i \in 1 .. Len(s), k \in 0 .. BlockSize - 1 :
    s[i] # null_block /\ (i - 1) * BlockSize + k < n => c[s[i]][k] = Right(r, i, k)

StepType == [n : Nat, spec : Nat, chunk : BOOLEAN]
Outputs(steps) ==
  [i \in 1 .. Len(steps) |-> IF steps[i].chunk THEN 0 ELSE 1 + steps[i].spec]

(* The steps in flight; none of a prefill follows one that samples.         *)
StepsOK(steps) ==
  /\ \A i \in 1 .. Len(steps) : steps[i].spec <= steps[i].n
  /\ \A i, j \in 1 .. Len(steps) : i < j /\ steps[j].chunk => steps[i].chunk

(* The domains of the tables of requests.                                   *)
Types ==
  /\ num_cached_block \in [Requests -> Int]
  /\ status \in [Requests -> {"WAITING", "RUNNING", "PREEMPTED", "FINISHED"}]
  /\ num_tokens \in [Requests -> Nat] /\ num_computed_tokens \in [Requests -> Nat]
  /\ num_output_placeholders \in [Requests -> Nat] /\ spec_token_ids \in [Requests -> Nat]
  /\ in_flight \in [Requests -> Seq(StepType)] /\ stale \in [Requests -> Nat]

Bounds(r) ==
  /\ num_tokens[r] \in NumPrompt[r] .. Len(Tokens[r])
  /\ num_computed_tokens[r] \in 0 .. MaxModelLen
  /\ stale[r] \in 0 .. Len(in_flight[r])
  /\ StepsOK(in_flight[r])

(* With N tokens, C of them computed and P outputs awaited, the number of   *)
(* positions that the table holds for good.                                 *)
KnownOf(N, C, P) == IF P > 0 THEN N ELSE C
Known(r) == KnownOf(num_tokens[r], num_computed_tokens[r], num_output_placeholders[r])

CountersOK(N, C, P, x) ==
  /\ P = Total(Outputs(x)) /\ Total(Sizes(x)) <= C
  /\ IF P > 0 THEN C = N + P - 1 ELSE C < N

(* The table s, of which d blocks are cached, and the steps x in flight.    *)
TableOK(N, C, P, d, s, x) ==
  /\ d \in Nat /\ d <= Len(s) /\ d * BlockSize <= KnownOf(N, C, P)
  /\ C <= Len(s) * BlockSize
  /\ \A i \in 1 .. Len(s) : s[i] = null_block =>
       i <= get_num_skipped_tokens(C - Total(Sizes(x))) \div BlockSize

RunningOK(r) ==
  /\ stale[r] = 0
  /\ CountersOK(num_tokens[r], num_computed_tokens[r], num_output_placeholders[r], in_flight[r])
  /\ TableOK(num_tokens[r], num_computed_tokens[r], num_output_placeholders[r],
             num_cached_block[r], req_to_blocks[r], in_flight[r])

IdleOK(r) ==
  /\ req_to_blocks[r] = <<>> /\ num_cached_block[r] = -1
  /\ status[r] # "FINISHED" =>
       /\ stale[r] = Len(in_flight[r])
       /\ num_computed_tokens[r] = 0 /\ num_output_placeholders[r] = 0

RequestOK(r) ==
  /\ Bounds(r)
  /\ IF status[r] = "RUNNING" THEN RunningOK(r) ELSE IdleOK(r)

ContentOK(r) ==
  status[r] = "RUNNING" => Holds(kv, req_to_blocks[r], r, Known(r))

EventsOK == SlidingWindow = 0 \/ ~ReportFull => EventsSound

Inv ==
  /\ Core(pool, req_to_blocks, num_cached_block)
  /\ Types
  /\ \A r \in Requests : RequestOK(r)
  /\ EventsOK
  /\ CacheTruth /\ \A r \in Requests : ContentOK(r)

-----------------------------------------------------------------------------
(* Sets of numbers and sequences                                            *)

(* Numbers up to n of which all below a member are members: they are 1 ..   *)
(* k.                                                                       *)
LEMMA DownClosed ==
  ASSUME NEW n \in Nat, NEW D \in SUBSET (1 .. n),
         \A i \in D : \A j \in 1 .. i : j \in D
  PROVE /\ IsFiniteSet(D) /\ Cardinality(D) \in Nat /\ Cardinality(D) <= n
        /\ D = 1 .. Cardinality(D)
  <1>1. IsFiniteSet(1 .. n) /\ Cardinality(1 .. n) = n
    BY FS_Interval
  <1>2. IsFiniteSet(D) /\ Cardinality(D) \in Nat /\ Cardinality(D) <= n
    <2>1. D \subseteq 1 .. n
      OBVIOUS
    <2>2. IsFiniteSet(D) /\ Cardinality(D) <= Cardinality(1 .. n)
      BY <1>1, <2>1, FS_Subset
    <2> QED BY <1>1, <2>2, FS_CardinalityType
  <1> DEFINE c == Cardinality(D)
  <1>3. IsFiniteSet(1 .. c) /\ Cardinality(1 .. c) = c
    BY <1>2, FS_Interval
  <1>4. IsFiniteSet(1 .. c + 1) /\ Cardinality(1 .. c + 1) = c + 1
    <2>1. c + 1 \in Int /\ 1 \in Int /\ 1 <= c + 1
      BY <1>2
    <2> QED BY <1>2, <2>1, FS_Interval
  <1>5. c + 1 \notin D
    <2> SUFFICES ASSUME c + 1 \in D PROVE FALSE
      OBVIOUS
    <2>1. 1 .. c + 1 \subseteq D
      OBVIOUS
    <2> QED BY <1>2, <1>4, <2>1, FS_Subset
  <1>6. D \subseteq 1 .. c
    <2> SUFFICES ASSUME NEW i \in D, i > c PROVE FALSE
      BY <1>2
    <2>1. c + 1 \in 1 .. i
      BY <1>2
    <2> QED BY <1>5, <2>1
  <1> QED BY <1>2, <1>3, <1>6, FS_Subset

Rank(S, i) == Cardinality({j \in S : j < i})

(* The rank of a number in a finite set is a number.                        *)
LEMMA RankType ==
  ASSUME NEW S, IsFiniteSet(S), \A x \in S : x \in Nat, NEW i \in Nat
  PROVE /\ Rank(S, i) \in Nat
        /\ i \in S => Rank(S, i) < Cardinality(S)
  <1> DEFINE L == {j \in S : j < i}
  <1>1. IsFiniteSet(L) /\ Cardinality(L) \in Nat /\ Cardinality(L) <= Cardinality(S)
    BY FS_Subset, FS_CardinalityType
  <1>2. i \in S => L # S
    OBVIOUS
  <1>3. i \in S => Cardinality(L) # Cardinality(S)
    BY <1>2, FS_Subset
  <1>4. Cardinality(S) \in Nat
    BY FS_CardinalityType
  <1> QED BY <1>1, <1>3, <1>4 DEF Rank

(* Ranks grow with the members of the set.                                  *)
LEMMA RankMonotone ==
  ASSUME NEW S, IsFiniteSet(S), \A x \in S : x \in Nat, NEW i \in S, NEW j \in Nat, i < j
  PROVE Rank(S, i) < Rank(S, j)
  <1> DEFINE L == {k \in S : k < i}
             M == {k \in S : k < j}
  <1>1. IsFiniteSet(M) /\ Cardinality(M) \in Nat
    BY FS_Subset, FS_CardinalityType
  <1>2. L \subseteq M /\ i \in M /\ i \notin L
    OBVIOUS
  <1>3. Cardinality(L) \in Nat /\ Cardinality(L) <= Cardinality(M)
    BY <1>1, <1>2, FS_Subset, FS_CardinalityType
  <1>4. Cardinality(L) # Cardinality(M)
    BY <1>1, <1>2, FS_Subset
  <1> QED BY <1>1, <1>3, <1>4 DEF Rank

(* The ranks of n numbers are 0 .. n - 1.                                   *)
LEMMA RankOnto ==
  ASSUME NEW S, IsFiniteSet(S), \A x \in S : x \in Nat, NEW k \in 1 .. Cardinality(S)
  PROVE \E i \in S : Rank(S, i) = k - 1
  <1> DEFINE n == Cardinality(S)
             T == 1 .. n
             f == [i \in S |-> Rank(S, i) + 1]
  <1>1. n \in Nat /\ IsFiniteSet(T) /\ Cardinality(T) = n
    BY FS_CardinalityType, FS_Interval
  <1>2. \A i \in S : i \in Nat /\ Rank(S, i) \in Nat /\ Rank(S, i) < n
    BY RankType
  <1>3. ASSUME NEW i \in S PROVE Rank(S, i) + 1 \in T
    BY <1>2, <1>1
  <1>4. f \in [S -> T]
    BY <1>3
  <1>5. ASSUME NEW i \in S, NEW j \in S, f[i] = f[j] PROVE i = j
    <2>1. Rank(S, i) = Rank(S, j)
      BY <1>2, <1>5
    <2>2. ~(i < j) /\ ~(j < i)
      BY <1>2, <2>1, RankMonotone
    <2> QED BY <1>2, <2>2
  <1>6. f \in Injection(S, T)
    BY <1>4, <1>5 DEF Injection, IsInjective
  <1>7. f \in Surjection(S, T)
    BY <1>1, <1>6, FS_Injection
  <1>8. PICK i \in S : f[i] = k
    BY <1>7 DEF Surjection
  <1> QED BY <1>2, <1>8

(* InOrder lists the members of a finite set by rank, each once.            *)
LEMMA Ordered ==
  ASSUME NEW S, IsFiniteSet(S), \A x \in S : x \in Nat
  PROVE LET q == InOrder(S) IN
        /\ q \in Seq(S) /\ Len(q) = Cardinality(S) /\ Len(q) \in Nat
        /\ \A k \in 1 .. Len(q) : q[k] \in S /\ Rank(S, q[k]) = k - 1
        /\ \A i \in S : Rank(S, i) + 1 \in 1 .. Len(q) /\ q[Rank(S, i) + 1] = i
  <1> DEFINE q == InOrder(S)
             n == Cardinality(S)
  <1>1. n \in Nat
    BY FS_CardinalityType
  <1>2. \A i \in S : i \in Nat /\ Rank(S, i) \in Nat /\ Rank(S, i) < n
    BY RankType
  <1>3. ASSUME NEW k \in 1 .. n
        PROVE q[k] \in S /\ Rank(S, q[k]) = k - 1
    <2>1. q[k] = CHOOSE i \in S : Rank(S, i) = k - 1
      BY DEF InOrder, Rank
    <2> QED BY <2>1, RankOnto
  <1>4. q \in [1 .. n -> S]
    BY <1>3 DEF InOrder
  <1>5. q \in Seq(S) /\ Len(q) = n
    BY <1>1, <1>4
  <1>6. ASSUME NEW i \in S
        PROVE Rank(S, i) + 1 \in 1 .. n /\ q[Rank(S, i) + 1] = i
    <2>1. Rank(S, i) + 1 \in 1 .. n
      BY <1>2, <1>1
    <2> DEFINE j == q[Rank(S, i) + 1]
    <2>2. j \in S /\ Rank(S, j) = Rank(S, i)
      BY <1>2, <1>3, <2>1
    <2> HIDE DEF j
    <2>3. ~(i < j) /\ ~(j < i)
      BY <1>2, <2>2, RankMonotone
    <2>4. i = j
      BY <1>2, <2>2, <2>3
    <2> QED BY <2>1, <2>4 DEF j
  <1> QED BY <1>1, <1>3, <1>5, <1>6

(* A finite set of numbers that is not empty has a least member.            *)
LEMMA FirstShown ==
  ASSUME NEW S, IsFiniteSet(S), \A x \in S : x \in Nat, S # {}
  PROVE \E i \in S : \A j \in S : ~(j < i)
  <1>1. Cardinality(S) \in Nat /\ Cardinality(S) # 0
    BY FS_CardinalityType, FS_EmptySet
  <1>2. 1 \in 1 .. Cardinality(S)
    BY <1>1
  <1>3. PICK i \in S : Rank(S, i) = 1 - 1
    BY <1>2, RankOnto
  <1> DEFINE L == {j \in S : j < i}
  <1>4. IsFiniteSet(L) /\ Cardinality(L) = 0
    BY <1>3, FS_Subset DEF Rank
  <1>5. L = {}
    BY <1>4, FS_EmptySet
  <1> QED BY <1>5

(* Two queues without a common block, one behind the other.                 *)
LEMMA ConcatFacts ==
  ASSUME NEW T, NEW p \in Seq(T), NEW q \in Seq(T), Distinct(p), Distinct(q),
         ToSet(p) \cap ToSet(q) = {}
  PROVE /\ p \o q \in Seq(T) /\ Distinct(p \o q)
        /\ ToSet(p \o q) = ToSet(p) \cup ToSet(q)
  <1> DEFINE s == p \o q
  <1>1. /\ s \in Seq(T) /\ Len(s) = Len(p) + Len(q) /\ Len(p) \in Nat /\ Len(q) \in Nat
        /\ \A i \in 1 .. Len(p) : s[i] = p[i]
        /\ \A i \in 1 .. Len(s) : i > Len(p) => s[i] = q[i - Len(p)]
    OBVIOUS
  <1> HIDE DEF s
  <1>2. \A i \in 1 .. Len(p) : i \in 1 .. Len(s) /\ p[i] \in ToSet(p)
    BY <1>1 DEF ToSet
  <1>3. \A i \in 1 .. Len(s) : i > Len(p) =>
          i - Len(p) \in 1 .. Len(q) /\ s[i] \in ToSet(q)
    BY <1>1 DEF ToSet
  <1>4. \A i \in 1 .. Len(s) : i <= Len(p) => i \in 1 .. Len(p) /\ s[i] \in ToSet(p)
    BY <1>1, <1>2
  <1>5. Distinct(s)
    <2> SUFFICES ASSUME NEW i \in 1 .. Len(s), NEW j \in 1 .. Len(s), s[i] = s[j]
                 PROVE i = j
      BY DEF Distinct
    <2>1. CASE i <= Len(p) /\ j <= Len(p)
      BY <1>1, <1>4, <2>1 DEF Distinct
    <2>2. CASE i > Len(p) /\ j > Len(p)
      <3>1. PICK x \in 1 .. Len(q) : x = i - Len(p) /\ s[i] = q[x]
        BY <1>1, <1>3, <2>2
      <3>2. PICK y \in 1 .. Len(q) : y = j - Len(p) /\ s[j] = q[y]
        BY <1>1, <1>3, <2>2
      <3>3. x = y
        BY <3>1, <3>2 DEF Distinct
      <3> QED BY <1>1, <3>1, <3>2, <3>3
    <2>3. CASE i > Len(p) /\ j <= Len(p)
      BY <1>3, <1>4, <2>3
    <2>4. CASE i <= Len(p) /\ j > Len(p)
      BY <1>3, <1>4, <2>4
    <2>5. i <= Len(p) \/ i > Len(p)
      BY <1>1
    <2>6. j <= Len(p) \/ j > Len(p)
      BY <1>1
    <2> QED BY <2>1, <2>2, <2>3, <2>4, <2>5, <2>6, Zenon
  <1>6. ASSUME NEW x \in ToSet(s) PROVE x \in ToSet(p) \cup ToSet(q)
    <2>1. PICK i \in 1 .. Len(s) : x = s[i]
      BY <1>1 DEF ToSet
    <2>2. i <= Len(p) \/ i > Len(p)
      BY <1>1
    <2> QED BY <1>3, <1>4, <2>1, <2>2
  <1>7. ASSUME NEW x \in ToSet(p) PROVE x \in ToSet(s)
    <2>1. PICK i \in 1 .. Len(p) : x = p[i]
      BY DEF ToSet
    <2>2. i \in 1 .. Len(s) /\ s[i] = x
      BY <1>1, <1>2, <2>1
    <2>3. DOMAIN s = 1 .. Len(s)
      BY <1>1
    <2> QED BY <2>2, <2>3 DEF ToSet
  <1>8. ASSUME NEW x \in ToSet(q) PROVE x \in ToSet(s)
    <2>1. PICK i \in 1 .. Len(q) : x = q[i]
      BY DEF ToSet
    <2>2. i + Len(p) \in 1 .. Len(s) /\ i + Len(p) > Len(p) /\ (i + Len(p)) - Len(p) = i
      BY <1>1
    <2>3. s[i + Len(p)] = x
      BY <1>1, <2>1, <2>2
    <2> QED BY <1>1, <2>2, <2>3 DEF ToSet
  <1> QED BY <1>1, <1>5, <1>6, <1>7, <1>8 DEF s


(* A set that holds 0, and with each number the next, holds all of 0 .. n.  *)
LEMMA UpTo ==
  ASSUME NEW n, n \in Nat, NEW S, 0 \in S,
         \A i \in Nat : i < n /\ i \in S => i + 1 \in S
  PROVE \A i \in 0 .. n : i \in S
  <1> DEFINE D == {i \in 1 .. n + 1 : \A j \in 1 .. i : j - 1 \in S}
             c == Cardinality(D)
  <1>1. c \in Nat /\ c <= n + 1 /\ D = 1 .. c
    <2>1. D \in SUBSET (1 .. n + 1) /\ n + 1 \in Nat
      OBVIOUS
    <2>2. ASSUME NEW i \in D, NEW j \in 1 .. i PROVE j \in D
      <3>1. i \in 1 .. n + 1 /\ \A m \in 1 .. i : m - 1 \in S
        OBVIOUS
      <3>2. j \in 1 .. n + 1 /\ \A m \in 1 .. j : m \in 1 .. i
        BY <3>1
      <3> QED BY <3>1, <3>2
    <2> HIDE DEF D
    <2> QED BY <2>1, <2>2, DownClosed
  <1>2. 1 \in D
    OBVIOUS
  <1>3. c >= n + 1
    <2> SUFFICES ASSUME c < n + 1 PROVE FALSE
      BY <1>1
    <2>1. c \in D /\ c >= 1
      BY <1>1, <1>2
    <2>2. c - 1 \in S
      BY <1>1, <2>1
    <2>3. c \in S
      <3>1. c - 1 \in Nat /\ c - 1 < n /\ (c - 1) + 1 = c
        BY <1>1, <2>1
      <3> QED BY <2>2, <3>1
    <2>4. ASSUME NEW j \in 1 .. c + 1 PROVE j - 1 \in S
      <3>1. CASE j = c + 1
        <4>1. j - 1 = c
          BY <1>1, <3>1
        <4> QED BY <2>3, <4>1
      <3>2. CASE j \in 1 .. c
        BY <2>1, <3>2
      <3> QED BY <1>1, <3>1, <3>2
    <2>5. c + 1 \in D
      BY <1>1, <2>4
    <2> HIDE DEF D, c
    <2> QED BY <1>1, <2>5
  <1>4. TAKE i \in 0 .. n
  <1>5. i + 1 \in D
    <2>1. D = 1 .. n + 1
      BY <1>1, <1>3
    <2>2. i + 1 \in 1 .. n + 1
      OBVIOUS
    <2> QED BY <2>1, <2>2
  <1>6. i + 1 \in 1 .. i + 1 /\ (i + 1) - 1 = i
    OBVIOUS
  <1> QED BY <1>5, <1>6

(* The running totals, unfolded once.                                       *)
LEMMA TotalIs ==
  ASSUME NEW s, s \in Seq(Int)
  PROVE LET t == RunningTotal(s) IN
        /\ t \in [0 .. Len(s) -> Int] /\ t[0] = 0
        /\ \A i \in 1 .. Len(s) : t[i] = t[i - 1] + s[i]
  <1> DEFINE n == Len(s)
             Good(m, f) == /\ DOMAIN f = 0 .. m /\ \A i \in 0 .. m : f[i] \in Int
                           /\ f[0] = 0
                           /\ \A i \in 1 .. m : f[i] = f[i - 1] + s[i]
             Step(f) == [i \in 0 .. n |-> IF i = 0 THEN 0 ELSE f[i - 1] + s[i]]
             S == {m \in 0 .. n : \E f : Good(m, f) /\ f = [i \in 0 .. m |-> f[i]]}
  <1>1. n \in Nat /\ n \in Int /\ \A i \in 1 .. n : s[i] \in Int
    OBVIOUS
  <1>2. 0 \in S
    <2>1. PICK f : f = [i \in 0 .. 0 |-> 0]
      OBVIOUS
    <2>2. Good(0, f) /\ f = [i \in 0 .. 0 |-> f[i]]
      BY <2>1
    <2> HIDE DEF Good
    <2> QED BY <1>1, <2>2
  <1>3. \A m \in 0 .. n - 1 : m \in S => m + 1 \in S
    <2> TAKE m \in 0 .. n - 1
    <2> HAVE m \in S
    <2>1. PICK f : Good(m, f)
      OBVIOUS
    <2>2. PICK g : g = [i \in 0 .. m + 1 |-> IF i = m + 1 THEN f[m] + s[m + 1] ELSE f[i]]
      OBVIOUS
    <2>3. DOMAIN g = 0 .. m + 1 /\ g = [i \in 0 .. m + 1 |-> g[i]]
      BY <2>2
    <2>4. g[m + 1] = f[m] + s[m + 1] /\ \A i \in 0 .. m : g[i] = f[i]
      BY <2>2
    <2>5. m \in 0 .. m /\ m + 1 \in 1 .. n /\ m + 1 \in 0 .. n
      BY <1>1
    <2>6. ASSUME NEW i \in 0 .. m + 1 PROVE g[i] \in Int
      <3>1. f[m] \in Int /\ s[m + 1] \in Int
        BY <1>1, <2>1, <2>5
      <3>2. CASE i = m + 1
        BY <2>4, <3>1, <3>2
      <3>3. CASE i \in 0 .. m
        BY <2>1, <2>4, <3>3
      <3> QED BY <3>2, <3>3
    <2>7. g[0] = 0
      BY <2>1, <2>4
    <2>8. ASSUME NEW i \in 1 .. m + 1 PROVE g[i] = g[i - 1] + s[i]
      <3>1. i - 1 \in 0 .. m
        OBVIOUS
      <3>2. CASE i = m + 1
        <4>1. i - 1 = m
          BY <3>2
        <4> QED BY <2>4, <3>1, <3>2, <4>1
      <3>3. CASE i \in 1 .. m
        <4>1. i \in 0 .. m
          BY <3>3
        <4> QED BY <2>1, <2>4, <3>1, <3>3, <4>1
      <3> QED BY <3>2, <3>3
    <2>9. Good(m + 1, g)
      BY <2>3, <2>6, <2>7, <2>8
    <2> HIDE DEF Good
    <2> QED BY <2>3, <2>5, <2>9
  <1>4. n \in S
    <2>1. \A i \in Nat : i < n /\ i \in S => i + 1 \in S
      <3> HIDE DEF S
      <3> QED BY <1>1, <1>3
    <2> HIDE DEF S, n
    <2>2. \A i \in 0 .. n : i \in S
      BY <1>1, <1>2, <2>1, UpTo
    <2> QED BY <1>1, <2>2
  <1>5. PICK f : Good(n, f) /\ f = [i \in 0 .. n |-> f[i]]
    BY <1>4
  <1>6. f = Step(f)
    <2>1. ASSUME NEW i \in 0 .. n PROVE f[i] = Step(f)[i]
      <3>1. Step(f)[i] = IF i = 0 THEN 0 ELSE f[i - 1] + s[i]
        OBVIOUS
      <3>2. i # 0 => i \in 1 .. n
        BY <1>1
      <3> HIDE DEF Step, n
      <3> QED BY <1>5, <3>1, <3>2
    <2> DEFINE g == Step(f)
    <2>2. g = [i \in 0 .. n |-> g[i]] /\ \A i \in 0 .. n : f[i] = g[i]
      BY <2>1
    <2> HIDE DEF g
    <2>3. f = g
      BY <1>5, <2>2
    <2> QED BY <2>3 DEF g
  <1>7. RunningTotal(s) = CHOOSE t : t = Step(t)
    BY DEF RunningTotal
  <1>8. RunningTotal(s) = Step(RunningTotal(s))
    BY <1>6, <1>7
  <1>9. PICK t : t = RunningTotal(s) /\ t = Step(t)
    BY <1>8
  <1>10. t[0] = 0 /\ \A i \in 1 .. n : t[i] = t[i - 1] + s[i]
    BY <1>1, <1>9, SMTT(30)
  <1>11. \A i \in 0 .. n : t[i] \in Int
    <2> DEFINE U == {i \in 0 .. n : t[i] \in Int}
    <2>1. 0 \in U
      BY <1>1, <1>10
    <2>2. \A i \in 0 .. n - 1 : i \in U => i + 1 \in U
      <3> TAKE i \in 0 .. n - 1
      <3> HAVE i \in U
      <3>1. i + 1 \in 1 .. n /\ i + 1 \in 0 .. n /\ (i + 1) - 1 = i
        BY <1>1
      <3>2. t[i + 1] = t[i] + s[i + 1]
        BY <1>10, <3>1
      <3> QED BY <1>1, <3>1, <3>2
    <2>3. \A i \in Nat : i < n /\ i \in U => i + 1 \in U
      BY <1>1, <2>2
    <2> HIDE DEF U, n
    <2>4. \A i \in 0 .. n : i \in U
      BY <1>1, <2>1, <2>3, UpTo
    <2> QED BY <2>4 DEF U
  <1>12. t \in [0 .. n -> Int]
    BY <1>9, <1>11
  <1> QED BY <1>9, <1>10, <1>12

(* What a running total does between two places.                            *)
LEMMA TotalMono ==
  ASSUME NEW s, s \in Seq(Nat), NEW a, a \in 0 .. Len(s), NEW b, b \in 0 .. Len(s), a <= b
  PROVE LET t == RunningTotal(s) IN
        /\ t[a] \in Nat /\ t[b] \in Nat /\ t[a] <= t[b]
        /\ \A m \in a + 1 .. b : t[a] + s[m] <= t[b]
  <1>1. PICK t : t = RunningTotal(s)
    OBVIOUS
  <1>2. PICK n : n = Len(s) /\ n \in Nat
    OBVIOUS
  <1>3. \A i \in 1 .. n : s[i] \in Nat
    BY <1>2
  <1>4. t \in [0 .. n -> Int] /\ t[0] = 0 /\ \A i \in 1 .. n : t[i] = t[i - 1] + s[i]
    <2>1. s \in Seq(Int)
      BY <1>3
    <2> QED BY <1>1, <1>2, <2>1, TotalIs
  <1> DEFINE S == {i \in 0 .. n : t[i] \in Nat /\ \A j \in 0 .. i : t[j] <= t[i]}
  <1>5. 0 \in S
    BY <1>2, <1>4
  <1>6. ASSUME NEW i \in Nat, i < n, i \in S PROVE i + 1 \in S
    <2>1. i + 1 \in 1 .. n /\ i + 1 \in 0 .. n /\ (i + 1) - 1 = i
      BY <1>2, <1>6
    <2>2. t[i + 1] = t[i] + s[i + 1] /\ s[i + 1] \in Nat
      BY <1>3, <1>4, <2>1
    <2>3. t[i + 1] \in Nat /\ t[i] <= t[i + 1]
      BY <1>6, <2>2
    <2>4. ASSUME NEW j \in 0 .. i + 1 PROVE t[j] <= t[i + 1]
      <3>1. CASE j = i + 1
        BY <2>3, <3>1
      <3>2. CASE j \in 0 .. i
        <4>1. t[j] <= t[i] /\ t[j] \in Int /\ t[i] \in Int
          <5>1. i \in 0 .. n /\ j \in 0 .. n
            BY <1>2, <1>6, <3>2
          <5>2. \A m \in 0 .. i : t[m] <= t[i]
            BY <1>6
          <5> QED BY <1>4, <3>2, <5>1, <5>2
        <4> QED BY <2>3, <4>1
      <3> QED BY <3>1, <3>2
    <2> QED BY <2>1, <2>3, <2>4
  <1>7. \A i \in 0 .. n : i \in S
    <2> HIDE DEF S
    <2> QED BY <1>2, <1>5, <1>6, UpTo
  <1>8. \A i \in 0 .. n : t[i] \in Nat /\ \A j \in 0 .. i : t[j] <= t[i]
    BY <1>7
  <1>9. t[a] \in Nat /\ t[b] \in Nat /\ t[a] <= t[b]
    <2>1. a \in 0 .. n /\ b \in 0 .. n /\ a \in 0 .. b
      BY <1>2
    <2> QED BY <1>8, <2>1
  <1>10. ASSUME NEW m \in a + 1 .. b PROVE t[a] + s[m] <= t[b]
    <2>1. m \in 1 .. n /\ m - 1 \in 0 .. n /\ m \in 0 .. b /\ a \in 0 .. m - 1 /\ b \in 0 .. n /\ m \in 0 .. n
      BY <1>2
    <2>2. t[m] <= t[b] /\ t[a] <= t[m - 1] /\ t[m] \in Nat /\ t[m - 1] \in Nat
      BY <1>8, <2>1
    <2>3. t[m] = t[m - 1] + s[m] /\ s[m] \in Nat
      BY <1>3, <1>4, <2>1
    <2> QED BY <1>9, <2>2, <2>3, SMTT(30)
  <1> QED BY <1>1, <1>9, <1>10

(* One more at the end, one less at the front.                              *)
LEMMA TotalExtend ==
  ASSUME NEW s, s \in Seq(Nat), NEW w, w \in Seq(Nat), Len(w) = Len(s) + 1,
         \A i \in 1 .. Len(s) : w[i] = s[i]
  PROVE LET t == RunningTotal(s)
            u == RunningTotal(w) IN
        /\ \A i \in 0 .. Len(s) : u[i] = t[i]
        /\ u[Len(s) + 1] = t[Len(s)] + w[Len(s) + 1]
  <1>1. PICK t, u : t = RunningTotal(s) /\ u = RunningTotal(w)
    OBVIOUS
  <1>2. PICK n : n = Len(s) /\ n \in Nat
    OBVIOUS
  <1>3. w \in Seq(Nat) /\ Len(w) = n + 1 /\ \A i \in 1 .. n : w[i] = s[i]
    BY <1>1, <1>2
  <1>4. t \in [0 .. n -> Int] /\ t[0] = 0 /\ \A i \in 1 .. n : t[i] = t[i - 1] + s[i]
    <2>1. s \in Seq(Int)
      OBVIOUS
    <2> QED BY <1>1, <1>2, <2>1, TotalIs
  <1>5. u[0] = 0 /\ \A i \in 1 .. n + 1 : u[i] = u[i - 1] + w[i]
    <2>1. w \in Seq(Int)
      BY <1>3
    <2> QED BY <1>1, <1>3, <2>1, TotalIs
  <1> DEFINE S == {i \in 0 .. n : u[i] = t[i]}
  <1>6. 0 \in S
    BY <1>2, <1>4, <1>5
  <1>7. ASSUME NEW i \in Nat, i < n, i \in S PROVE i + 1 \in S
    <2>1. i + 1 \in 1 .. n /\ i + 1 \in 0 .. n /\ i + 1 \in 1 .. n + 1 /\ (i + 1) - 1 = i
      BY <1>2, <1>7
    <2>2. t[i + 1] = t[i] + s[i + 1] /\ u[i + 1] = u[i] + w[i + 1] /\ w[i + 1] = s[i + 1]
      BY <1>3, <1>4, <1>5, <2>1
    <2> QED BY <1>7, <2>1, <2>2
  <1>8. \A i \in 0 .. n : i \in S
    <2> HIDE DEF S
    <2> QED BY <1>2, <1>6, <1>7, UpTo
  <1>9. \A i \in 0 .. n : u[i] = t[i]
    BY <1>8
  <1>10. u[n + 1] = t[n] + w[n + 1]
    <2>1. n + 1 \in 1 .. n + 1 /\ (n + 1) - 1 = n /\ n \in 0 .. n
      BY <1>2
    <2> QED BY <1>3, <1>5, <1>9, <2>1
  <1> QED BY <1>1, <1>2, <1>9, <1>10

(* Without its first entry every running total is smaller by it.            *)
LEMMA TotalShift ==
  ASSUME NEW s, s \in Seq(Nat), NEW w, w \in Seq(Nat), Len(s) = Len(w) + 1,
         \A i \in 1 .. Len(w) : w[i] = s[i + 1]
  PROVE LET t == RunningTotal(s)
            u == RunningTotal(w) IN
        \A i \in 1 .. Len(s) : u[i - 1] = t[i] - t[1]
  <1>1. PICK t, u : t = RunningTotal(s) /\ u = RunningTotal(w)
    OBVIOUS
  <1>2. PICK n : n + 1 = Len(s) /\ n = Len(w) /\ n \in Nat
    BY SMTT(30)
  <1>3. w \in Seq(Nat) /\ Len(w) = n /\ \A i \in 1 .. n : w[i] = s[i + 1]
    BY <1>1, <1>2
  <1>4. t \in [0 .. n + 1 -> Int] /\ t[0] = 0 /\ \A i \in 1 .. n + 1 : t[i] = t[i - 1] + s[i]
    <2>1. s \in Seq(Int)
      OBVIOUS
    <2> QED BY <1>1, <1>2, <2>1, TotalIs
  <1>5. u[0] = 0 /\ \A i \in 1 .. n : u[i] = u[i - 1] + w[i]
    <2>1. w \in Seq(Int)
      BY <1>3
    <2> QED BY <1>1, <1>3, <2>1, TotalIs
  <1> DEFINE S == {i \in 0 .. n : u[i] = t[i + 1] - t[1]}
  <1>6. 0 \in S
    <2>1. t[1] \in Int
      BY <1>2, <1>4
    <2> QED BY <1>2, <1>5, <2>1
  <1>7. ASSUME NEW i \in Nat, i < n, i \in S PROVE i + 1 \in S
    <2>1. i + 1 \in 1 .. n /\ i + 1 \in 0 .. n /\ (i + 1) - 1 = i
          /\ (i + 1) + 1 \in 1 .. n + 1 /\ ((i + 1) + 1) - 1 = i + 1
      BY <1>2, <1>7
    <2>2. t[(i + 1) + 1] = t[i + 1] + s[(i + 1) + 1] /\ u[i + 1] = u[i] + w[i + 1]
          /\ w[i + 1] = s[(i + 1) + 1] /\ u[i] = t[i + 1] - t[1]
      BY <1>3, <1>4, <1>5, <1>7, <2>1
    <2>3. t[1] \in Int /\ t[i + 1] \in Int /\ s[(i + 1) + 1] \in Int
      <3>1. 1 \in 0 .. n + 1 /\ i + 1 \in 0 .. n + 1 /\ (i + 1) + 1 \in 1 .. Len(s)
        BY <1>2, <2>1
      <3>2. \A j \in 1 .. Len(s) : s[j] \in Int
        OBVIOUS
      <3> QED BY <1>4, <3>1, <3>2
    <2>4. u[i + 1] = t[(i + 1) + 1] - t[1]
      BY <2>2, <2>3
    <2> QED BY <2>1, <2>4
  <1>8. \A i \in 0 .. n : i \in S
    <2> HIDE DEF S
    <2> QED BY <1>2, <1>6, <1>7, UpTo
  <1>9. ASSUME NEW i \in 1 .. n + 1 PROVE u[i - 1] = t[i] - t[1]
    <2>1. i - 1 \in 0 .. n /\ (i - 1) + 1 = i
      BY <1>2
    <2>2. i - 1 \in S
      BY <1>8, <2>1
    <2> QED BY <2>1, <2>2
  <1> QED BY <1>1, <1>2, <1>9

(* The first running total is the first entry.                              *)
LEMMA TotalFirst ==
  ASSUME NEW s, s \in Seq(Nat), 1 \in 1 .. Len(s)
  PROVE RunningTotal(s)[0] = 0 /\ RunningTotal(s)[1] = s[1]
  <1>1. s \in Seq(Int) /\ s[1] \in Nat
    OBVIOUS
  <1>2. PICK t : t = RunningTotal(s)
    OBVIOUS
  <1>3. t[0] = 0 /\ \A i \in 1 .. Len(s) : t[i] = t[i - 1] + s[i]
    BY <1>1, <1>2, TotalIs
  <1>4. 1 - 1 = 0
    OBVIOUS
  <1>5. t[1] = t[0] + s[1]
    BY <1>3, <1>4
  <1> QED BY <1>1, <1>2, <1>3, <1>5

(* What is left of a sequence: its members in S, once if they are there     *)
(* once.                                                                    *)
LEMMA OnlyIs ==
  ASSUME NEW T, NEW q \in Seq(T), NEW S
  PROVE LET p == Only(q, S) IN
        /\ p \in Seq(T) /\ ToSet(p) = ToSet(q) \cap S
        /\ (\A i, j \in 1 .. Len(q) : q[i] = q[j] /\ q[i] \in S => i = j) => Distinct(p)
  <1> DEFINE p == Only(q, S)
             K == {i \in 1 .. Len(q) : q[i] \in S}
             o == InOrder(K)
  <1>1. Len(q) \in Nat /\ \A i \in 1 .. Len(q) : q[i] \in T
    OBVIOUS
  <1>2. IsFiniteSet(1 .. Len(q))
    BY <1>1, FS_Interval
  <1>3. (\A x \in K : x \in Nat) /\ IsFiniteSet(K) /\ K \subseteq 1 .. Len(q)
    BY <1>1, <1>2, FS_Subset
  <1>4. /\ Len(o) \in Nat
        /\ \A k \in 1 .. Len(o) : o[k] \in K /\ Rank(K, o[k]) = k - 1
        /\ \A i \in K : Rank(K, i) + 1 \in 1 .. Len(o) /\ o[Rank(K, i) + 1] = i
    BY <1>3, Ordered
  <1>5. p = [k \in 1 .. Len(o) |-> q[o[k]]]
    BY DEF Only
  <1> HIDE DEF p, K, o
  <1>6. PICK n \in Nat : n = Len(o)
    BY <1>4
  <1>7. p \in Seq(T) /\ Len(p) = Len(o)
    <2>1. p \in [1 .. n -> T]
      BY <1>1, <1>3, <1>4, <1>5, <1>6
    <2> QED BY <1>6, <2>1
  <1>8. ToSet(p) = ToSet(q) \cap S
    <2>1. ASSUME NEW k \in 1 .. Len(o) PROVE p[k] \in ToSet(q) \cap S
      <3>1. p[k] = q[o[k]] /\ o[k] \in K
        BY <1>4, <1>5
      <3>2. o[k] \in 1 .. Len(q) /\ q[o[k]] \in S
        BY <3>1 DEF K
      <3> QED BY <3>1, <3>2 DEF ToSet
    <2>2. ASSUME NEW i \in 1 .. Len(q), q[i] \in S PROVE q[i] \in ToSet(p)
      <3>1. i \in K
        BY <2>2 DEF K
      <3> DEFINE k == Rank(K, i) + 1
      <3>2. k \in 1 .. Len(o) /\ o[k] = i
        BY <1>4, <3>1
      <3> HIDE DEF k
      <3>3. p[k] = q[i]
        BY <1>5, <3>2
      <3> QED BY <1>7, <3>2, <3>3 DEF ToSet
    <2> QED BY <1>7, <2>1, <2>2 DEF ToSet
  <1>9. ASSUME \A i, j \in 1 .. Len(q) : q[i] = q[j] /\ q[i] \in S => i = j
        PROVE Distinct(p)
    <2> SUFFICES ASSUME NEW a \in 1 .. Len(p), NEW b \in 1 .. Len(p), p[a] = p[b]
                 PROVE a = b
      BY DEF Distinct
    <2>1. o[a] \in K /\ o[b] \in K /\ Rank(K, o[a]) = a - 1 /\ Rank(K, o[b]) = b - 1
      BY <1>4, <1>7
    <2>2. q[o[a]] = q[o[b]]
      BY <1>5, <1>7
    <2>3. q[o[a]] \in S /\ o[a] \in 1 .. Len(q) /\ o[b] \in 1 .. Len(q)
      BY <2>1 DEF K
    <2>4. o[a] = o[b]
      BY <1>9, <2>2, <2>3
    <2> QED BY <1>4, <1>7, <2>1, <2>4
  <1> QED BY <1>7, <1>8, <1>9 DEF p

(* They keep their order.                                                   *)
LEMMA OnlyOrder ==
  ASSUME NEW T, NEW q \in Seq(T), NEW S
  PROVE LET p == Only(q, S) IN
        \E o : /\ \A k \in 1 .. Len(p) : o[k] \in 1 .. Len(q) /\ p[k] = q[o[k]]
               /\ \A j, k \in 1 .. Len(p) : j < k => o[j] < o[k]
  <1> DEFINE p == Only(q, S)
             K == {i \in 1 .. Len(q) : q[i] \in S}
             o == InOrder(K)
  <1>1. Len(q) \in Nat
    OBVIOUS
  <1>2. IsFiniteSet(1 .. Len(q))
    BY <1>1, FS_Interval
  <1>3. (\A x \in K : x \in Nat) /\ IsFiniteSet(K) /\ K \subseteq 1 .. Len(q)
    BY <1>1, <1>2, FS_Subset
  <1>4. /\ Len(o) \in Nat
        /\ \A k \in 1 .. Len(o) : o[k] \in K /\ Rank(K, o[k]) = k - 1
    BY <1>3, Ordered
  <1>5. p = [k \in 1 .. Len(o) |-> q[o[k]]]
    BY DEF Only
  <1> HIDE DEF p, K, o
  <1>6. Len(p) = Len(o)
    BY <1>4, <1>5
  <1>7. \A k \in 1 .. Len(p) : o[k] \in 1 .. Len(q) /\ p[k] = q[o[k]]
    BY <1>3, <1>4, <1>5, <1>6
  <1>8. ASSUME NEW j \in 1 .. Len(p), NEW k \in 1 .. Len(p), j < k PROVE o[j] < o[k]
    <2>1. /\ o[j] \in K /\ o[k] \in K /\ o[j] \in Nat /\ o[k] \in Nat
          /\ Rank(K, o[j]) = j - 1 /\ Rank(K, o[k]) = k - 1
      BY <1>3, <1>4, <1>6
    <2>2. ~(Rank(K, o[k]) < Rank(K, o[j])) /\ Rank(K, o[k]) # Rank(K, o[j])
      BY <1>8, <2>1
    <2>3. ~(o[k] < o[j])
      BY <1>3, <2>1, <2>2, RankMonotone
    <2>4. o[k] # o[j]
      BY <2>2
    <2> QED BY <2>1, <2>3, <2>4
  <1> QED BY <1>7, <1>8 DEF p

(* The members of a sequence are its entries.                               *)
LEMMA MembersOf ==
  ASSUME NEW T, NEW q \in Seq(T), NEW x
  PROVE x \in ToSet(q) <=> \E i \in 1 .. Len(q) : x = q[i]
  BY DEF ToSet

(* The empty sequence.                                                      *)
LEMMA NoMembers ==
  /\ ToSet(<<>>) = {} /\ Distinct(<<>>) /\ Apart(<<>>) /\ Len(<<>>) = 0
  /\ \A T : <<>> \in Seq(T)
  BY DEF ToSet, Distinct, Apart

(* A sequence without repetitions has as many members as it is long.        *)
LEMMA LengthIs ==
  ASSUME NEW T, NEW q \in Seq(T), Distinct(q)
  PROVE IsFiniteSet(ToSet(q)) /\ Cardinality(ToSet(q)) = Len(q)
  <1> DEFINE S == ToSet(q)
  <1>1. Len(q) \in Nat /\ DOMAIN q = 1 .. Len(q)
    OBVIOUS
  <1>2. q \in [1 .. Len(q) -> S]
    BY <1>1 DEF ToSet
  <1>3. q \in Surjection(1 .. Len(q), S)
    BY <1>1, <1>2 DEF Surjection, ToSet
  <1>4. q \in Injection(1 .. Len(q), S)
    BY <1>2 DEF Injection, IsInjective, Distinct
  <1>5. q \in Bijection(1 .. Len(q), S)
    BY <1>3, <1>4 DEF Bijection
  <1>6. IsFiniteSet(1 .. Len(q)) /\ Cardinality(1 .. Len(q)) = Len(q)
    BY <1>1, FS_Interval
  <1>7. ExistsBijection(1 .. Len(q), S)
    BY <1>5 DEF ExistsBijection
  <1> QED BY <1>6, <1>7, FS_Bijection

(* What popleft_n and NewBlocks cut out of a queue.                         *)
LEMMA SubSeqIs ==
  ASSUME NEW T, NEW q \in Seq(T), NEW a \in Nat, NEW b \in Nat, b <= Len(q)
  PROVE LET p == SubSeq(q, a + 1, b) IN
        /\ p \in Seq(T) /\ Len(p) = IF a <= b THEN b - a ELSE 0
        /\ \A i \in 1 .. Len(p) : i + a \in a + 1 .. b /\ p[i] = q[i + a]
        /\ ToSet(p) = {q[i] : i \in a + 1 .. b}
  <1> DEFINE p == SubSeq(q, a + 1, b)
  <1>1. p \in Seq(T) /\ Len(p) = IF a <= b THEN b - a ELSE 0
    OBVIOUS
  <1>2. ASSUME NEW i \in 1 .. Len(p) PROVE i + a \in a + 1 .. b /\ p[i] = q[i + a]
    OBVIOUS
  <1>3. ASSUME NEW i \in a + 1 .. b PROVE i - a \in 1 .. Len(p) /\ p[i - a] = q[i]
    <2>1. i - a \in 1 .. Len(p) /\ (i - a) + a = i
      BY <1>1
    <2> QED BY <1>2, <2>1
  <1>4. DOMAIN p = 1 .. Len(p)
    BY <1>1
  <1> HIDE DEF p
  <1>5. ToSet(p) = {q[i] : i \in a + 1 .. b}
    <2>1. \A x \in ToSet(p) : \E i \in 1 .. Len(p) : x = p[i]
      BY <1>4 DEF ToSet
    <2>2. \A i \in 1 .. Len(p) : p[i] \in {q[j] : j \in a + 1 .. b}
      BY <1>2
    <2>3. \A i \in a + 1 .. b : q[i] \in ToSet(p)
      BY <1>3, <1>4 DEF ToSet
    <2> QED BY <2>1, <2>2, <2>3, Zenon
  <1> QED BY <1>1, <1>2, <1>5 DEF p

(* The tail-first order of KVCacheManager.free has the same blocks.         *)
LEMMA ReverseIs ==
  ASSUME NEW T, NEW q \in Seq(T)
  PROVE LET p == Reverse(q) IN
        /\ p \in Seq(T) /\ Len(p) = Len(q) /\ ToSet(p) = ToSet(q)
        /\ Apart(q) => Apart(p)
  <1> DEFINE p == Reverse(q)
             n == Len(q)
  <1>1. n \in Nat /\ p = [i \in 1 .. n |-> q[(n - i) + 1]]
    BY DEF Reverse
  <1>2. \A i \in 1 .. n : (n - i) + 1 \in 1 .. n /\ q[i] \in T
    BY <1>1
  <1>3. p \in [1 .. n -> T]
    BY <1>1, <1>2
  <1>4. p \in Seq(T) /\ Len(p) = n
    BY <1>1, <1>3
  <1>5. \A i \in 1 .. n : p[i] = q[(n - i) + 1]
    BY <1>1
  <1> HIDE DEF p
  <1>6. ASSUME NEW i \in 1 .. n PROVE q[i] \in ToSet(p) /\ p[i] \in ToSet(q)
    <2>1. (n - i) + 1 \in 1 .. n /\ (n - ((n - i) + 1)) + 1 = i
      BY <1>1
    <2>2. p[(n - i) + 1] = q[i]
      BY <1>5, <2>1
    <2> QED BY <1>4, <1>5, <2>1, <2>2, MembersOf
  <1>7. ToSet(p) = ToSet(q)
    <2>1. \A x \in ToSet(p) : \E i \in 1 .. n : x = p[i]
      BY <1>4, MembersOf
    <2>2. \A x \in ToSet(q) : \E i \in 1 .. n : x = q[i]
      BY MembersOf
    <2>3. \A x \in ToSet(p) : x \in ToSet(q)
      BY <1>6, <2>1
    <2>4. \A x \in ToSet(q) : x \in ToSet(p)
      BY <1>6, <2>2
    <2> QED BY <2>3, <2>4
  <1>8. ASSUME Apart(q), NEW i \in 1 .. n, NEW j \in 1 .. n, p[i] = p[j], p[i] # null_block
        PROVE i = j
    <2>1. (n - i) + 1 = (n - j) + 1
      BY <1>2, <1>5, <1>8 DEF Apart
    <2> QED BY <1>1, <2>1
  <1> QED BY <1>4, <1>7, <1>8 DEF p, Apart

(* A finite set as a sequence, each member once.                            *)
LEMMA SetToSeqIs ==
  ASSUME NEW S, IsFiniteSet(S)
  PROVE LET q == SetToSeq(S) IN q \in Seq(S) /\ ToSet(q) = S /\ Distinct(q)
  <1> DEFINE n == Cardinality(S)
             q == SetToSeq(S)
  <1>1. n \in Nat /\ IsFiniteSet(1 .. n) /\ Cardinality(1 .. n) = n
    BY FS_CardinalityType, FS_Interval
  <1>2. PICK f : f \in Bijection(1 .. n, S)
    BY <1>1, FS_CardinalityType DEF ExistsBijection
  <1>3. f \in [1 .. n -> S] /\ IsInjective(f)
    BY <1>2 DEF Bijection, Injection
  <1>4. q \in [1 .. n -> S] /\ IsInjective(q)
    BY <1>3 DEF SetToSeq
  <1>5. q \in Injection(1 .. n, S)
    BY <1>4 DEF Injection
  <1>6. q \in Surjection(1 .. n, S)
    BY <1>1, <1>5, FS_Injection
  <1> HIDE DEF q
  <1>7. q \in Seq(S) /\ Len(q) = n
    BY <1>1, <1>4
  <1>8. ToSet(q) = S
    BY <1>4, <1>6, <1>7 DEF Surjection, ToSet
  <1>9. Distinct(q)
    BY <1>4, <1>7 DEF IsInjective, Distinct
  <1> QED BY <1>7, <1>8, <1>9 DEF q

(* A set of numbers up to n that is not empty has a largest member.         *)
LEMMA LastShown ==
  ASSUME NEW n \in Nat, NEW S, S \subseteq 1 .. n, S # {}
  PROVE \E i \in S : \A j \in S : j <= i
  <1> DEFINE R == {(n - i) + 1 : i \in S}
  <1>1. R \subseteq 1 .. n
    OBVIOUS
  <1>2. IsFiniteSet(R)
    <2> HIDE DEF R
    <2>1. IsFiniteSet(1 .. n)
      <3>1. 1 \in Int /\ n \in Int
        OBVIOUS
      <3> QED BY <3>1, FS_Interval
    <2> QED BY <1>1, <2>1, FS_Subset
  <1>3. PICK i \in R : \A j \in R : ~(j < i)
    <2>1. R # {}
      OBVIOUS
    <2>2. \A x \in R : x \in Nat
      BY <1>1
    <2> HIDE DEF R
    <2> QED BY <1>2, <2>1, <2>2, FirstShown
  <1>4. PICK k \in S : i = (n - k) + 1
    BY <1>3
  <1>5. ASSUME NEW j \in S PROVE j <= k
    <2>1. ~((n - j) + 1 < i)
      BY <1>3
    <2> QED BY <1>4, <2>1
  <1> QED BY <1>5

(* Entries and members of a table that is extended.                         *)
LEMMA JoinIs ==
  ASSUME NEW T, NEW p \in Seq(T), NEW q \in Seq(T)
  PROVE /\ p \o q \in Seq(T) /\ Len(p \o q) = Len(p) + Len(q)
        /\ \A i \in 1 .. Len(p) : (p \o q)[i] = p[i]
        /\ \A i \in 1 .. Len(p \o q) :
             i > Len(p) => i - Len(p) \in 1 .. Len(q) /\ (p \o q)[i] = q[i - Len(p)]
        /\ ToSet(p \o q) = ToSet(p) \cup ToSet(q)
  <1> DEFINE s == p \o q
  <1>1. /\ s \in Seq(T) /\ Len(s) = Len(p) + Len(q) /\ Len(p) \in Nat /\ Len(q) \in Nat
        /\ \A i \in 1 .. Len(p) : s[i] = p[i]
        /\ \A i \in 1 .. Len(s) : i > Len(p) => s[i] = q[i - Len(p)]
    OBVIOUS
  <1> HIDE DEF s
  <1>2. \A i \in 1 .. Len(p) : i \in 1 .. Len(s)
    BY <1>1
  <1>3. \A i \in 1 .. Len(s) : i > Len(p) => i - Len(p) \in 1 .. Len(q)
    BY <1>1
  <1>4. ASSUME NEW x \in ToSet(s) PROVE x \in ToSet(p) \cup ToSet(q)
    <2>1. PICK i \in 1 .. Len(s) : x = s[i]
      BY <1>1, MembersOf
    <2>2. CASE i <= Len(p)
      <3>1. i \in 1 .. Len(p)
        BY <1>1, <2>2
      <3> QED BY <1>1, <2>1, <3>1, MembersOf
    <2>3. CASE i > Len(p)
      <3>1. i - Len(p) \in 1 .. Len(q) /\ x = q[i - Len(p)]
        BY <1>1, <1>3, <2>1, <2>3
      <3> QED BY <3>1, MembersOf
    <2> QED BY <1>1, <2>2, <2>3
  <1>5. ASSUME NEW x \in ToSet(p) PROVE x \in ToSet(s)
    <2>1. PICK i \in 1 .. Len(p) : x = p[i]
      BY MembersOf
    <2> QED BY <1>1, <1>2, <2>1, MembersOf
  <1>6. ASSUME NEW x \in ToSet(q) PROVE x \in ToSet(s)
    <2>1. PICK i \in 1 .. Len(q) : x = q[i]
      BY MembersOf
    <2>2. i + Len(p) \in 1 .. Len(s) /\ i + Len(p) > Len(p) /\ (i + Len(p)) - Len(p) = i
      BY <1>1
    <2>3. s[i + Len(p)] = x
      BY <1>1, <2>1, <2>2
    <2> QED BY <1>1, <2>2, <2>3, MembersOf
  <1> QED BY <1>1, <1>3, <1>4, <1>5, <1>6 DEF s

(* New blocks behind a table leave its entries different.                   *)
LEMMA JoinApart ==
  ASSUME NEW p \in Seq(Blocks), NEW q \in Seq(Blocks), Apart(p), Distinct(q),
         \A b \in ToSet(q) : b \notin ToSet(p)
  PROVE Apart(p \o q)
  <1> DEFINE s == p \o q
  <1>1. /\ s \in Seq(Blocks) /\ Len(s) = Len(p) + Len(q)
        /\ \A i \in 1 .. Len(p) : s[i] = p[i]
        /\ \A i \in 1 .. Len(s) :
             i > Len(p) => i - Len(p) \in 1 .. Len(q) /\ s[i] = q[i - Len(p)]
    BY JoinIs
  <1>2. Len(p) \in Nat
    OBVIOUS
  <1> HIDE DEF s
  <1> SUFFICES ASSUME NEW i \in 1 .. Len(s), NEW j \in 1 .. Len(s), s[i] = s[j], s[i] # null_block
               PROVE i = j
    BY DEF Apart, s
  <1>3. \A k \in 1 .. Len(s) : k <= Len(p) => k \in 1 .. Len(p) /\ s[k] \in ToSet(p)
    <2> SUFFICES ASSUME NEW k \in 1 .. Len(s), k <= Len(p)
                 PROVE k \in 1 .. Len(p) /\ s[k] \in ToSet(p)
      OBVIOUS
    <2>1. k \in 1 .. Len(p)
      BY <1>2
    <2> QED BY <1>1, <2>1, MembersOf
  <1>4. \A k \in 1 .. Len(s) : k > Len(p) => s[k] \in ToSet(q)
    BY <1>1, MembersOf
  <1>5. CASE i <= Len(p) /\ j <= Len(p)
    BY <1>1, <1>3, <1>5 DEF Apart
  <1>6. CASE i > Len(p) /\ j > Len(p)
    <2>1. i - Len(p) = j - Len(p)
      BY <1>1, <1>6 DEF Distinct
    <2> QED BY <1>2, <2>1
  <1>7. CASE i <= Len(p) /\ j > Len(p)
    BY <1>3, <1>4, <1>7
  <1>8. CASE i > Len(p) /\ j <= Len(p)
    BY <1>3, <1>4, <1>8
  <1>9. (i <= Len(p) \/ i > Len(p)) /\ (j <= Len(p) \/ j > Len(p))
    BY <1>2
  <1> QED BY <1>5, <1>6, <1>7, <1>8, <1>9

-----------------------------------------------------------------------------
(* Positions and blocks                                                     *)

(* Division with remainder.                                                 *)
LEMMA DivIs ==
  ASSUME NEW a \in Int, NEW b \in Nat, b >= 1
  PROVE /\ a \div b \in Int /\ (a \div b) * b <= a /\ a < (a \div b) * b + b
        /\ a % b = a - (a \div b) * b /\ a % b \in 0 .. b - 1
  OBVIOUS

(* A factor is cancelled.                                                   *)
LEMMA Cancel ==
  ASSUME NEW x \in Int, NEW y \in Int, NEW b \in Nat, b >= 1, x * b < y * b + b
  PROVE x <= y
  OBVIOUS

(* Both sides are multiplied.                                               *)
LEMMA Times ==
  ASSUME NEW x \in Int, NEW y \in Int, NEW b \in Nat, x <= y
  PROVE x * b <= y * b /\ x * b \in Int /\ y * b \in Int
  OBVIOUS

(* One block more or less.                                                  *)
LEMMA OneTimes ==
  ASSUME NEW x \in Int, NEW b \in Nat
  PROVE x * b \in Int /\ (x + 1) * b = x * b + b /\ (x - 1) * b = x * b - b /\ 0 * b = 0
  OBVIOUS

(* x blocks of b tokens end within a.                                       *)
LEMMA DivBelow ==
  ASSUME NEW a \in Int, NEW b \in Nat, b >= 1, NEW x \in Int
  PROVE x <= a \div b <=> x * b <= a
  <1> DEFINE d == a \div b
  <1>1. d \in Int /\ d * b <= a /\ a < d * b + b
    BY DivIs
  <1> HIDE DEF d
  <1>2. x * b \in Int /\ d * b \in Int
    BY <1>1
  <1>3. ASSUME x <= d PROVE x * b <= a
    <2>1. x * b <= d * b
      BY <1>1, <1>3, Times
    <2> QED BY <1>1, <1>2, <2>1
  <1>4. ASSUME x * b <= a PROVE x <= d
    <2>1. x * b < d * b + b
      BY <1>1, <1>2, <1>4
    <2> QED BY <1>1, <2>1, Cancel
  <1> QED BY <1>3, <1>4 DEF d

(* A quotient is no larger than the dividend.                               *)
LEMMA DivNat ==
  ASSUME NEW a \in Nat, NEW b \in Nat, b >= 1
  PROVE a \div b \in Nat /\ a \div b <= a
  <1> DEFINE d == a \div b
  <1>1. d \in Int /\ d * b <= a
    BY DivIs
  <1>2. 0 <= d
    BY DivBelow, OneTimes
  <1> HIDE DEF d
  <1>3. d <= d * b
    BY <1>1, <1>2
  <1>4. d * b \in Int
    BY <1>1
  <1> QED BY <1>1, <1>2, <1>3, <1>4 DEF d

(* Division is monotone.                                                    *)
LEMMA DivMono ==
  ASSUME NEW a \in Int, NEW c \in Int, a <= c, NEW b \in Nat, b >= 1
  PROVE a \div b <= c \div b
  <1>1. a \div b \in Int /\ (a \div b) * b <= a
    BY DivIs
  <1>2. (a \div b) * b \in Int
    BY <1>1
  <1>3. (a \div b) * b <= c
    BY <1>1, <1>2
  <1> QED BY <1>1, <1>3, DivBelow

(* The block of a position, and its place in it.                            *)
LEMMA PosIs ==
  ASSUME NEW pos \in Nat, NEW b \in Nat, b >= 1
  PROVE /\ pos \div b \in Nat /\ pos \div b + 1 \in Nat /\ pos % b \in 0 .. b - 1
        /\ pos % b = pos - (pos \div b) * b
        /\ \A n \in Nat : pos < n * b <=> pos \div b + 1 <= n
  <1> DEFINE d == pos \div b
  <1>1. /\ d \in Nat /\ d * b <= pos /\ pos < d * b + b /\ pos % b = pos - d * b
        /\ pos % b \in 0 .. b - 1
    <2>1. pos \in Int
      OBVIOUS
    <2> QED BY <2>1, DivIs, DivNat
  <1>2. ASSUME NEW n \in Nat PROVE pos < n * b <=> d + 1 <= n
    <2>1. n <= d <=> n * b <= pos
      BY DivBelow
    <2>2. n * b \in Int
      OBVIOUS
    <2> HIDE DEF d
    <2> QED BY <1>1, <2>1, <2>2
  <1> QED BY <1>1, <1>2

(* The position of slot s of block i.                                       *)
LEMMA PosOf ==
  ASSUME NEW i \in Nat, NEW b \in Nat, b >= 1, NEW s \in 0 .. b - 1
  PROVE i * b + s \in Nat /\ (i * b + s) \div b = i /\ (i * b + s) % b = s
  <1> DEFINE a == i * b + s
  <1>1. i * b \in Nat /\ a \in Nat
    OBVIOUS
  <1>2. (i + 1) * b = i * b + b
    BY OneTimes
  <1>3. i <= a \div b /\ ~(i + 1 <= a \div b)
    <2>1. i * b <= a /\ ~((i + 1) * b <= a)
      BY <1>1, <1>2
    <2>2. i \in Int /\ i + 1 \in Int /\ a \in Int
      BY <1>1
    <2> HIDE DEF a
    <2> QED BY <2>1, <2>2, DivBelow
  <1>4. a \div b \in Int /\ a % b = a - (a \div b) * b
    BY <1>1, DivIs
  <1>5. a \div b = i
    BY <1>3, <1>4
  <1>6. a % b = a - i * b
    BY <1>4, <1>5
  <1> QED BY <1>1, <1>5, <1>6

(* cdiv rounds up: the least number of blocks that hold a tokens.           *)
LEMMA CdivIs ==
  ASSUME NEW a \in Int, NEW b \in Nat, b >= 1
  PROVE cdiv(a, b) \in Int /\ \A n \in Int : cdiv(a, b) <= n <=> a <= n * b
  <1> DEFINE c == (a + b - 1) \div b
  <1>1. c \in Int /\ cdiv(a, b) = c
    BY DivIs DEF cdiv
  <1>2. ASSUME NEW n \in Int PROVE c <= n <=> a <= n * b
    <2>1. n + 1 <= c <=> (n + 1) * b <= a + b - 1
      BY DivBelow
    <2>2. (n + 1) * b = n * b + b /\ n * b \in Int
      BY OneTimes
    <2> HIDE DEF c
    <2> QED BY <1>1, <2>1, <2>2
  <1> QED BY <1>1, <1>2

-----------------------------------------------------------------------------
(* The operations of the pool                                               *)

(* The assumptions on the constants, in the form the proofs use.            *)
LEMMA Constants ==
  /\ NumBlocks \in Nat /\ null_block \in Blocks /\ NoHash \notin Hashes
  /\ EnableCaching \in BOOLEAN /\ IsFiniteSet(Requests) /\ IsFiniteSet(Blocks)
  /\ BlockSize \in Nat /\ BlockSize >= 1 /\ MaxModelLen \in Nat
  /\ NumSpec \in Nat /\ NumLookahead \in Nat /\ WatermarkBlocks \in Nat
  /\ MaxBatchedTokens \in Nat /\ MaxConcurrentBatches \in Nat
  /\ SlidingWindow \in Nat /\ SlidingWindow # 1
  /\ UseEagle \in BOOLEAN /\ ReserveFullISL \in BOOLEAN /\ ReportFull \in BOOLEAN
  /\ NumPrompt \in [Requests -> Nat]
  <1>1. NumBlocks \in Nat /\ null_block \in Blocks /\ NoHash \notin Hashes
    BY PoolAssumption DEF Blocks, null_block, NoHash
  <1>2. IsFiniteSet(Blocks)
    <2>1. 0 \in Int /\ NumBlocks - 1 \in Int
      BY <1>1
    <2> QED BY <2>1, FS_Interval DEF Blocks
  <1>3. /\ IsFiniteSet(Requests) /\ NumPrompt \in [Requests -> Nat]
        /\ BlockSize \in Nat \ {0} /\ SlidingWindow \in Nat \ {1}
    BY ManagerAssumption
  <1>4. BlockSize \in Nat /\ BlockSize >= 1
    BY <1>3
  <1>5. {MaxModelLen, NumSpec, NumLookahead, WatermarkBlocks, MaxBatchedTokens,
         MaxConcurrentBatches, MaxPreemptions} \subseteq Nat
    BY ManagerAssumption
  <1>6. {UseEagle, ReserveFullISL, ReportFull} \subseteq BOOLEAN
    BY ManagerAssumption
  <1>7. EnableCaching \in BOOLEAN
    BY PoolAssumption
  <1>8. SlidingWindow \in Nat /\ SlidingWindow # 1
    BY <1>3
  <1>9. UseEagle \in BOOLEAN /\ ReserveFullISL \in BOOLEAN /\ ReportFull \in BOOLEAN
    BY <1>6, Zenon
  <1> QED BY <1>1, <1>2, <1>3, <1>4, <1>5, <1>7, <1>8, <1>9, Zenon

(* The fields of a pool.                                                    *)
LEMMA PoolFields ==
  ASSUME NEW p, PoolType(p)
  PROVE /\ p.ref_cnt \in [Blocks -> Nat] /\ p.block_hash \in [Blocks -> Hashes \cup {NoHash}]
        /\ p.cached \in [Hashes -> Seq(Blocks)] /\ p.free \in Seq(Blocks)
        /\ p.view \in SUBSET Hashes /\ p.failed \in BOOLEAN
  BY DEF PoolType

(* Who holds b when the table of r becomes s.                               *)
HoldersBecome(t, r, s, b) ==
  LET u == [t EXCEPT ![r] = s] IN
     /\ Holders(u, b) = IF b \in ToSet(s) THEN Holders(t, b) \cup {r}
                                 ELSE Holders(t, b) \ {r}
     /\ IsFiniteSet(Holders(t, b)) /\ Cardinality(Holders(t, b)) \in Nat
     /\ b \in ToSet(t[r]) <=> r \in Holders(t, b)
     /\ b \in ToSet(s) /\ b \notin ToSet(t[r]) =>
          Cardinality(Holders(u, b)) = Cardinality(Holders(t, b)) + 1
     /\ b \notin ToSet(s) /\ b \in ToSet(t[r]) =>
          Cardinality(Holders(u, b)) = Cardinality(Holders(t, b)) - 1
     /\ (b \in ToSet(s) <=> b \in ToSet(t[r])) =>
          Cardinality(Holders(u, b)) = Cardinality(Holders(t, b))

(* The tables that hold b when r gets the table s.                          *)
LEMMA HoldersPut ==
  ASSUME NEW t, TablesOK(t), NEW r \in Requests, NEW s \in Seq(Blocks), NEW b
  PROVE HoldersBecome(t, r, s, b)
  <1> DEFINE u == [t EXCEPT ![r] = s]
  <1>1. t \in [Requests -> Seq(Blocks)]
    BY DEF TablesOK
  <1>2. u[r] = s /\ \A q \in Requests \ {r} : u[q] = t[q]
    BY <1>1
  <1> HIDE DEF u
  <1>3. Holders(u, b) = IF b \in ToSet(s) THEN Holders(t, b) \cup {r} ELSE Holders(t, b) \ {r}
    BY <1>2 DEF Holders
  <1>4. Holders(t, b) \subseteq Requests
    BY DEF Holders
  <1>5. IsFiniteSet(Holders(t, b)) /\ Cardinality(Holders(t, b)) \in Nat
    BY <1>4, Constants, FS_Subset, FS_CardinalityType
  <1>6. b \in ToSet(t[r]) <=> r \in Holders(t, b)
    BY DEF Holders
  <1>7. CASE b \in ToSet(s) /\ b \notin ToSet(t[r])
    BY <1>3, <1>5, <1>6, <1>7, FS_AddElement DEF u, HoldersBecome
  <1>8. CASE b \notin ToSet(s) /\ b \in ToSet(t[r])
    BY <1>3, <1>5, <1>6, <1>8, FS_RemoveElement DEF u, HoldersBecome
  <1>9. CASE b \in ToSet(s) <=> b \in ToSet(t[r])
    <2>1. Holders(u, b) = Holders(t, b)
      BY <1>3, <1>6, <1>9
    <2> QED BY <1>3, <1>5, <1>6, <1>9, <2>1 DEF u, HoldersBecome
  <1> QED BY <1>7, <1>8, <1>9

(* A table is replaced.                                                     *)
LEMMA TablesPut ==
  ASSUME NEW t, TablesOK(t), NEW r \in Requests, NEW s \in Seq(Blocks), Apart(s)
  PROVE LET u == [t EXCEPT ![r] = s] IN
        TablesOK(u) /\ u[r] = s /\ \A q \in Requests \ {r} : u[q] = t[q]
  BY DEF TablesOK

(* A block in a table is counted, so it is not in the free queue.           *)
LEMMA HeldNotFree ==
  ASSUME NEW p, NEW t, TablesOK(t), PoolOK(p, t), NEW r \in Requests,
         NEW b \in ToSet(t[r]), b # null_block
  PROVE b \in Blocks /\ p.ref_cnt[b] >= 1 /\ b \notin ToSet(p.free)
  <1>1. b \in Blocks
    BY MembersOf DEF TablesOK
  <1>2. r \in Holders(t, b)
    BY DEF Holders
  <1>3. IsFiniteSet(Holders(t, b)) /\ Cardinality(Holders(t, b)) \in Nat
    <2>1. Holders(t, b) \subseteq Requests
      BY DEF Holders
    <2> QED BY <2>1, Constants, FS_Subset, FS_CardinalityType
  <1>4. Cardinality(Holders(t, b)) # 0
    BY <1>2, <1>3, FS_EmptySet
  <1>5. p.ref_cnt[b] >= 1
    BY <1>1, <1>3, <1>4 DEF PoolOK, CountsOK
  <1> QED BY <1>1, <1>5 DEF PoolOK, FreeExact

(* A block in the free queue is in no table.                                *)
LEMMA FreeNotHeld ==
  ASSUME NEW p, NEW t, TablesOK(t), PoolOK(p, t), NEW b \in ToSet(p.free)
  PROVE /\ b \in Blocks /\ b # null_block /\ p.ref_cnt[b] = 0
        /\ \A r \in Requests : b \notin ToSet(t[r])
  <1>1. b \in Blocks
    BY MembersOf, PoolFields DEF PoolOK
  <1>2. b # null_block /\ p.ref_cnt[b] = 0
    BY <1>1 DEF PoolOK, FreeExact
  <1> QED BY <1>1, <1>2, HeldNotFree

(* free_blocks on its own: what becomes of the record.                      *)
LEMMA FreeFields ==
  ASSUME NEW p, PoolType(p), Distinct(p.free), NEW f \in Seq(Blocks), Apart(f),
         NEW S, S = ToSet(f) \ {null_block},
         \A b \in S : p.ref_cnt[b] >= 1 /\ b \notin ToSet(p.free)
  PROVE LET q == free_blocks(p, f) IN
        /\ PoolType(q) /\ Distinct(q.free)
        /\ ToSet(q.free) = ToSet(p.free) \cup {b \in S : p.ref_cnt[b] = 1}
        /\ \A b \in Blocks : q.ref_cnt[b] = IF b \in S THEN p.ref_cnt[b] - 1 ELSE p.ref_cnt[b]
        /\ q.block_hash = p.block_hash /\ q.cached = p.cached /\ q.view = p.view
        /\ q.failed = p.failed
  <1> DEFINE Z == {b \in S : p.ref_cnt[b] = 1}
             F == {b \in Z : p.block_hash[b] = NoHash /\ EnableCaching}
             x == Only(f, F)
             y == Only(f, Z \ F)
             c == [b \in Blocks |-> IF b \in S THEN p.ref_cnt[b] - 1 ELSE p.ref_cnt[b]]
             q == free_blocks(p, f)
  <1>1. q = [p EXCEPT !.free = (x \o p.free) \o y, !.ref_cnt = c]
    BY DEF free_blocks, append_n, prepend_n
  <1>2. \A i, j \in 1 .. Len(f) : f[i] = f[j] /\ f[i] \in S => i = j
    BY DEF Apart
  <1>3. F \subseteq S /\ Z \ F \subseteq S
    OBVIOUS
  <1>4. x \in Seq(Blocks) /\ ToSet(x) = ToSet(f) \cap F /\ Distinct(x)
    BY <1>2, <1>3, OnlyIs
  <1>5. y \in Seq(Blocks) /\ ToSet(y) = ToSet(f) \cap (Z \ F) /\ Distinct(y)
    BY <1>2, <1>3, OnlyIs
  <1>6. ToSet(x) = F /\ ToSet(y) = Z \ F
    BY <1>4, <1>5
  <1>7. c \in [Blocks -> Nat]
    <2>1. ASSUME NEW b \in Blocks, b \in S PROVE p.ref_cnt[b] - 1 \in Nat
      <3>1. p.ref_cnt[b] \in Nat /\ p.ref_cnt[b] >= 1
        BY <2>1, PoolFields
      <3> QED BY <3>1
    <2> QED BY <2>1, PoolFields
  <1>8. F \cap ToSet(p.free) = {} /\ (Z \ F) \cap (F \cup ToSet(p.free)) = {}
    OBVIOUS
  <1> HIDE DEF x, y, Z, F
  <1>9. PICK w : /\ w = x \o p.free /\ w \in Seq(Blocks) /\ Distinct(w)
                 /\ ToSet(w) = F \cup ToSet(p.free)
    <2>1. ToSet(x) \cap ToSet(p.free) = {} /\ p.free \in Seq(Blocks)
      BY <1>6, <1>8, PoolFields
    <2>2. /\ x \o p.free \in Seq(Blocks) /\ Distinct(x \o p.free)
          /\ ToSet(x \o p.free) = ToSet(x) \cup ToSet(p.free)
      BY <1>4, <2>1, ConcatFacts
    <2> QED BY <1>6, <2>2
  <1>10. PICK z : z = w \o y
    OBVIOUS
  <1>11. /\ z \in Seq(Blocks) /\ Distinct(z)
         /\ ToSet(z) = (F \cup ToSet(p.free)) \cup (Z \ F)
    <2>1. ToSet(w) \cap ToSet(y) = {}
      BY <1>6, <1>8, <1>9
    <2>2. w \in Seq(Blocks) /\ y \in Seq(Blocks) /\ Distinct(w) /\ Distinct(y)
      BY <1>5, <1>9
    <2>3. /\ w \o y \in Seq(Blocks) /\ Distinct(w \o y)
          /\ ToSet(w \o y) = ToSet(w) \cup ToSet(y)
      BY <2>1, <2>2, ConcatFacts
    <2> QED BY <1>6, <1>9, <1>10, <2>3
  <1>12. ToSet(z) = ToSet(p.free) \cup Z
    BY <1>3, <1>11 DEF F
  <1> HIDE DEF c, q
  <1>13. q = [p EXCEPT !.free = z, !.ref_cnt = c]
    BY <1>1, <1>9, <1>10
  <1>14. /\ PoolType(q) /\ q.free = z /\ q.ref_cnt = c /\ q.block_hash = p.block_hash
         /\ q.cached = p.cached /\ q.view = p.view /\ q.failed = p.failed
    BY <1>7, <1>11, <1>13 DEF PoolType
  <1>15. \A b \in Blocks : c[b] = IF b \in S THEN p.ref_cnt[b] - 1 ELSE p.ref_cnt[b]
    BY DEF c
  <1> QED BY <1>11, <1>12, <1>14, <1>15 DEF q, Z

(* The conjuncts of PoolOK.                                                 *)
LEMMA PoolParts ==
  ASSUME NEW p, NEW t, PoolOK(p, t)
  PROVE /\ PoolType(p) /\ FreeExact(p) /\ MapConsistent(p) /\ p.failed = FALSE
        /\ CountsOK(p, t) /\ PrivateOK(p, t) /\ Distinct(p.free)
        /\ EnableCaching \/ \A b \in Blocks : p.block_hash[b] = NoHash
  BY DEF PoolOK, FreeExact, Distinct

(* The hash map stays consistent when it and the hashes stay.               *)
LEMMA MapSame ==
  ASSUME NEW p, NEW q, MapConsistent(p), q.block_hash = p.block_hash, q.cached = p.cached
  PROVE MapConsistent(q)
  BY DEF MapConsistent

SamePool(p, q) == q.block_hash = p.block_hash /\ q.cached = p.cached /\ q.view = p.view

(* Blocks f of the table of r are given back; s is left of the table.       *)
Gives(t, r, f, s) ==
  /\ Apart(f) /\ Apart(s)
  /\ ToSet(f) \ {null_block} \subseteq ToSet(t[r])
  /\ ToSet(s) \ {null_block} = (ToSet(t[r]) \ ToSet(f)) \ {null_block}

(* free_blocks keeps the pool right when the table gives up the blocks.     *)
LEMMA FreeOK ==
  ASSUME NEW p, NEW t, TablesOK(t), PoolOK(p, t), NEW r \in Requests,
         NEW f \in Seq(Blocks), NEW s \in Seq(Blocks), Gives(t, r, f, s)
  PROVE LET u == [t EXCEPT ![r] = s]
            q == free_blocks(p, f) IN
        TablesOK(u) /\ PoolOK(q, u) /\ SamePool(p, q)
  <1> DEFINE u == [t EXCEPT ![r] = s]
             q == free_blocks(p, f)
             S == ToSet(f) \ {null_block}
  <1>1. /\ Apart(f) /\ Apart(s)
        /\ ToSet(f) \ {null_block} \subseteq ToSet(t[r])
        /\ ToSet(s) \ {null_block} = (ToSet(t[r]) \ ToSet(f)) \ {null_block}
    BY DEF Gives
  <1>2. PICK v : v = S
    OBVIOUS
  <1>3. \A b \in v : b \in Blocks /\ p.ref_cnt[b] >= 1 /\ b \notin ToSet(p.free) /\ b # null_block
    BY <1>1, <1>2, HeldNotFree
  <1>4. /\ PoolType(q) /\ Distinct(q.free)
        /\ ToSet(q.free) = ToSet(p.free) \cup {b \in v : p.ref_cnt[b] = 1}
        /\ \A b \in Blocks : q.ref_cnt[b] = IF b \in v THEN p.ref_cnt[b] - 1 ELSE p.ref_cnt[b]
        /\ q.block_hash = p.block_hash /\ q.cached = p.cached /\ q.view = p.view
        /\ q.failed = p.failed
    <2>1. PoolType(p) /\ Distinct(p.free)
      BY PoolParts
    <2>2. v = ToSet(f) \ {null_block} /\ \A b \in v : p.ref_cnt[b] >= 1 /\ b \notin ToSet(p.free)
      BY <1>2, <1>3
    <2> HIDE DEF S
    <2> QED BY <1>1, <2>1, <2>2, FreeFields
  <1>5. TablesOK(u)
    BY <1>1, TablesPut
  <1>6. ASSUME NEW b \in Blocks, b # null_block
        PROVE /\ q.ref_cnt[b] = Cardinality(Holders(u, b))
              /\ Holders(u, b) \subseteq Holders(t, b)
              /\ b \in ToSet(q.free) <=> q.ref_cnt[b] = 0
    <2>1. /\ Cardinality(Holders(t, b)) \in Nat
          /\ Holders(u, b) = IF b \in ToSet(s) THEN Holders(t, b) \cup {r}
                                               ELSE Holders(t, b) \ {r}
          /\ b \in ToSet(t[r]) <=> r \in Holders(t, b)
          /\ b \in ToSet(s) /\ b \notin ToSet(t[r]) =>
               Cardinality(Holders(u, b)) = Cardinality(Holders(t, b)) + 1
          /\ b \notin ToSet(s) /\ b \in ToSet(t[r]) =>
               Cardinality(Holders(u, b)) = Cardinality(Holders(t, b)) - 1
          /\ (b \in ToSet(s) <=> b \in ToSet(t[r])) =>
               Cardinality(Holders(u, b)) = Cardinality(Holders(t, b))
      <3>1. HoldersBecome(t, r, s, b)
        BY HoldersPut
      <3> QED BY <3>1 DEF HoldersBecome
    <2>2. p.ref_cnt[b] = Cardinality(Holders(t, b))
      BY <1>6, PoolParts DEF CountsOK
    <2>3. b \in ToSet(p.free) <=> p.ref_cnt[b] = 0
      BY <1>6, PoolParts DEF FreeExact
    <2>4. q.ref_cnt[b] = IF b \in v THEN p.ref_cnt[b] - 1 ELSE p.ref_cnt[b]
      BY <1>4
    <2>5. b \in ToSet(q.free) <=> b \in ToSet(p.free) \/ (b \in v /\ p.ref_cnt[b] = 1)
      BY <1>4
    <2> HIDE DEF q, u
    <2>6. CASE b \in v
      <3>1. b \in ToSet(t[r]) /\ b \notin ToSet(s)
        BY <1>1, <1>2, <2>6
      <3> QED BY <1>3, <2>1, <2>2, <2>3, <2>4, <2>5, <2>6, <3>1
    <2>7. CASE b \notin v
      <3>1. b \in ToSet(t[r]) <=> b \in ToSet(s)
        BY <1>1, <1>2, <1>6, <2>7
      <3> QED BY <2>1, <2>2, <2>3, <2>4, <2>5, <2>7, <3>1
    <2> QED BY <2>6, <2>7
  <1>7. FreeExact(q)
    <2>1. null_block \notin ToSet(q.free)
      <3>1. null_block \notin ToSet(p.free)
        BY PoolParts, Constants DEF FreeExact
      <3> QED BY <1>3, <1>4, <3>1
    <2> QED BY <1>4, <1>6, <2>1 DEF FreeExact, Distinct
  <1>8. CountsOK(q, u)
    BY <1>6 DEF CountsOK
  <1>9. PrivateOK(q, u)
    <2>1. PrivateOK(p, t)
      BY PoolParts
    <2> HIDE DEF q, u
    <2> QED BY <1>4, <1>6, <2>1 DEF PrivateOK
  <1>10. MapConsistent(q) /\ q.failed = FALSE
    BY <1>4, PoolParts, MapSame
  <1>11. EnableCaching \/ \A b \in Blocks : q.block_hash[b] = NoHash
    <2>1. EnableCaching \/ \A b \in Blocks : p.block_hash[b] = NoHash
      BY PoolParts
    <2> HIDE DEF q, u
    <2> QED BY <1>4, <2>1, Zenon
  <1> HIDE DEF q, u
  <1>12. PoolOK(q, u)
    BY <1>4, <1>7, <1>8, <1>9, <1>10, <1>11 DEF PoolOK
  <1> QED BY <1>4, <1>5, <1>12 DEF q, u, SamePool

(* The number of skipped blocks is a number.                                *)
LEMMA SkipIs ==
  ASSUME NEW n \in Nat
  PROVE /\ get_num_skipped_tokens(n) \in Nat /\ get_num_skipped_tokens(n) <= n
        /\ \A m \in Nat : n <= m => get_num_skipped_tokens(n) <= get_num_skipped_tokens(m)
        /\ get_num_skipped_tokens(n) \div BlockSize \in Nat
        /\ \A m \in Nat : n <= m =>
             get_num_skipped_tokens(n) \div BlockSize <= get_num_skipped_tokens(m) \div BlockSize
  <1>1. ASSUME NEW k \in Nat PROVE get_num_skipped_tokens(k) \in Nat
    BY Constants DEF get_num_skipped_tokens, Max0
  <1>2. /\ get_num_skipped_tokens(n) <= n
        /\ \A m \in Nat : n <= m => get_num_skipped_tokens(n) <= get_num_skipped_tokens(m)
    BY Constants DEF get_num_skipped_tokens, Max0
  <1>3. get_num_skipped_tokens(n) \div BlockSize \in Nat
    BY <1>1, Constants, DivNat
  <1>4. ASSUME NEW m \in Nat, n <= m
        PROVE get_num_skipped_tokens(n) \div BlockSize <= get_num_skipped_tokens(m) \div BlockSize
    <2>1. get_num_skipped_tokens(n) \in Int /\ get_num_skipped_tokens(m) \in Int
      BY <1>1
    <2> QED BY <1>2, <1>4, <2>1, Constants, DivMono
  <1> QED BY <1>1, <1>2, <1>3, <1>4

(* remove_skipped_blocks: blocks that no window reaches any more go.        *)
LEMMA SkippedOK ==
  ASSUME NEW p, NEW t, TablesOK(t), PoolOK(p, t), NEW r \in Requests, NEW processed \in Nat
  PROVE LET k == remove_skipped_blocks(p, t[r], processed)
            u == [t EXCEPT ![r] = k.blocks] IN
        /\ TablesOK(u) /\ PoolOK(k.pool, u)
        /\ k.pool.block_hash = p.block_hash /\ k.pool.cached = p.cached /\ k.pool.view = p.view
        /\ k.blocks \in Seq(Blocks) /\ Len(k.blocks) = Len(t[r])
        /\ \A i \in 1 .. Len(t[r]) :
             \/ k.blocks[i] = t[r][i]
             \/ k.blocks[i] = null_block /\ i <= get_num_skipped_tokens(processed) \div BlockSize
  <1> DEFINE b == t[r]
             skip == get_num_skipped_tokens(processed) \div BlockSize
             last == Lower(skip, Len(b))
             nulls == {i \in 1 .. last : b[i] = null_block}
             first == IF nulls = {} THEN 0 ELSE CHOOSE i \in nulls : \A j \in nulls : j <= i
             part == SubSeq(b, first + 1, last)
             freed == Reverse(part)
             s == [i \in 1 .. Len(b) |-> IF i \in first + 1 .. last THEN null_block ELSE b[i]]
             k == remove_skipped_blocks(p, b, processed)
             u == [t EXCEPT ![r] = s]
  <1>1. k = [pool |-> IF freed = <<>> THEN p ELSE free_blocks(p, freed), blocks |-> s]
    BY DEF remove_skipped_blocks
  <1>2. k.pool = (IF freed = <<>> THEN p ELSE free_blocks(p, freed)) /\ k.blocks = s
    BY <1>1
  <1>3. b \in Seq(Blocks) /\ Apart(b) /\ Len(b) \in Nat
    BY DEF TablesOK
  <1>4. skip \in Nat
    BY SkipIs
  <1> HIDE DEF b, skip, k
  <1>5. last \in Nat /\ last <= Len(b) /\ last <= skip
    BY <1>3, <1>4 DEF Lower
  <1>6. first \in Nat
    <2>1. CASE nulls = {}
      BY <2>1
    <2>2. CASE nulls # {}
      <3>1. \E i \in nulls : \A j \in nulls : j <= i
        <4>1. nulls \subseteq 1 .. last
          OBVIOUS
        <4> HIDE DEF nulls, last
        <4> QED BY <1>5, <2>2, <4>1, LastShown
      <3>2. first \in nulls
        BY <2>2, <3>1
      <3> QED BY <3>2
    <2> QED BY <2>1, <2>2
  <1> HIDE DEF last, first, nulls
  <1>7. /\ part \in Seq(Blocks) /\ \A i \in 1 .. Len(part) : i + first \in first + 1 .. last /\ part[i] = b[i + first]
        /\ ToSet(part) = {b[i] : i \in first + 1 .. last}
    BY <1>3, <1>5, <1>6, SubSeqIs
  <1> HIDE DEF part
  <1>8. \A i \in first + 1 .. last : i \in 1 .. Len(b)
    BY <1>3, <1>5, <1>6
  <1>9. Apart(part)
    <2> SUFFICES ASSUME NEW i \in 1 .. Len(part), NEW j \in 1 .. Len(part), part[i] = part[j],
                        part[i] # null_block
                 PROVE i = j
      BY DEF Apart
    <2>1. i + first = j + first
      BY <1>3, <1>7, <1>8 DEF Apart
    <2>2. i \in Int /\ j \in Int
      BY <1>7
    <2> QED BY <1>6, <2>1, <2>2
  <1>10. /\ freed \in Seq(Blocks) /\ Len(freed) = Len(part) /\ ToSet(freed) = ToSet(part)
         /\ Apart(freed)
    BY <1>7, <1>9, ReverseIs
  <1> HIDE DEF freed
  <1>11. s \in Seq(Blocks) /\ Len(s) = Len(b)
    <2>1. s \in [1 .. Len(b) -> Blocks]
      BY <1>3, Constants
    <2> QED BY <1>3, <2>1
  <1>12. \A i \in 1 .. Len(b) : s[i] = IF i \in first + 1 .. last THEN null_block ELSE b[i]
    OBVIOUS
  <1> HIDE DEF s
  <1>13. Apart(s)
    BY <1>3, <1>11, <1>12 DEF Apart
  <1>14. ToSet(s) \ {null_block} = (ToSet(b) \ ToSet(freed)) \ {null_block}
    <2>1. ASSUME NEW x \in ToSet(s), x # null_block
          PROVE x \in ToSet(b) /\ x \notin ToSet(freed)
      <3>1. PICK i \in 1 .. Len(b) : x = s[i]
        BY <1>11, MembersOf
      <3>2. i \notin first + 1 .. last /\ x = b[i]
        BY <1>12, <2>1, <3>1
      <3>3. \A j \in first + 1 .. last : b[j] # x
        BY <1>3, <1>8, <2>1, <3>2 DEF Apart
      <3> QED BY <1>3, <1>7, <1>10, <3>2, <3>3, MembersOf
    <2>2. ASSUME NEW x \in ToSet(b), x \notin ToSet(freed), x # null_block
          PROVE x \in ToSet(s)
      <3>1. PICK i \in 1 .. Len(b) : x = b[i]
        BY <1>3, MembersOf
      <3>2. i \notin first + 1 .. last
        BY <1>7, <1>10, <2>2, <3>1
      <3>3. s[i] = x
        BY <1>12, <3>1, <3>2
      <3> QED BY <1>11, <3>3, MembersOf
    <2> QED BY <2>1, <2>2
  <1>15. ToSet(freed) \ {null_block} \subseteq ToSet(b)
    <2>1. ASSUME NEW x \in ToSet(freed) PROVE x \in ToSet(b)
      <3>1. PICK i \in first + 1 .. last : x = b[i]
        BY <1>7, <1>10
      <3> QED BY <1>3, <1>8, <3>1, MembersOf
    <2> QED BY <2>1
  <1>16. \A i \in 1 .. Len(b) : s[i] = b[i] \/ (s[i] = null_block /\ i <= skip)
    <2>1. ASSUME NEW i \in 1 .. Len(b), i \in first + 1 .. last PROVE i <= skip
      BY <1>4, <1>5, <1>6, <2>1
    <2> QED BY <1>12, <2>1
  <1>17. CASE freed = <<>>
    <2>1. Len(part) = 0
      BY <1>10, <1>17
    <2>2. ~(first + 1 <= last)
      <3> SUFFICES ASSUME first + 1 <= last PROVE FALSE
        OBVIOUS
      <3>1. b[last] \in ToSet(part)
        BY <1>5, <1>6, <1>7
      <3>2. \E i \in 1 .. Len(part) : b[last] = part[i]
        BY <1>7, <3>1, MembersOf
      <3> QED BY <2>1, <3>2
    <2>3. \A i \in 1 .. Len(b) : s[i] = b[i]
      BY <1>5, <1>6, <1>12, <2>2
    <2>4. s = b
      BY <1>3, <1>11, <2>3
    <2>5. u = t
      BY <2>4 DEF b, TablesOK
    <2>6. k.pool = p
      BY <1>2, <1>17
    <2> QED BY <1>2, <1>11, <1>16, <2>5, <2>6 DEF b, k, skip
  <1>18. CASE freed # <<>>
    <2>1. k.pool = free_blocks(p, freed)
      BY <1>2, <1>18
    <2>2. /\ TablesOK(u) /\ PoolOK(k.pool, u)
          /\ k.pool.block_hash = p.block_hash /\ k.pool.cached = p.cached
          /\ k.pool.view = p.view
      <3>1. Gives(t, r, freed, s)
        BY <1>10, <1>13, <1>14, <1>15 DEF b, Gives
      <3> QED BY <1>10, <1>11, <2>1, <3>1, FreeOK DEF SamePool
    <2> QED BY <1>2, <1>11, <1>16, <2>2 DEF b, k, skip
  <1> QED BY <1>17, <1>18

(* touch on its own: what becomes of the record.                            *)
LEMMA TouchFields ==
  ASSUME NEW p, PoolType(p), Distinct(p.free), NEW f \in Seq(Blocks),
         NEW S, S = ToSet(f) \ {null_block}
  PROVE LET q == touch(p, f) IN
        /\ PoolType(q) /\ Distinct(q.free)
        /\ ToSet(q.free) = ToSet(p.free) \ {b \in S : p.ref_cnt[b] = 0}
        /\ \A b \in Blocks : q.ref_cnt[b] = IF b \in S THEN p.ref_cnt[b] + 1 ELSE p.ref_cnt[b]
        /\ q.block_hash = p.block_hash /\ q.cached = p.cached /\ q.view = p.view
        /\ q.failed = p.failed
  <1> DEFINE X == {b \in S : p.ref_cnt[b] = 0}
             x == Only(p.free, Blocks \ X)
             c == [b \in Blocks |-> IF b \in S THEN p.ref_cnt[b] + 1 ELSE p.ref_cnt[b]]
             q == touch(p, f)
  <1>1. q = [p EXCEPT !.free = x, !.ref_cnt = c]
    BY DEF touch, remove
  <1>2. p.free \in Seq(Blocks) /\ \A b \in ToSet(p.free) : b \in Blocks
    BY PoolFields, MembersOf
  <1>3. x \in Seq(Blocks) /\ ToSet(x) = ToSet(p.free) \cap (Blocks \ X) /\ Distinct(x)
    <2>1. \A i, j \in 1 .. Len(p.free) :
            p.free[i] = p.free[j] /\ p.free[i] \in Blocks \ X => i = j
      BY DEF Distinct
    <2> HIDE DEF X
    <2> QED BY <1>2, <2>1, OnlyIs
  <1>4. ToSet(x) = ToSet(p.free) \ X
    BY <1>2, <1>3
  <1>5. c \in [Blocks -> Nat]
    BY PoolFields
  <1>6. \A b \in Blocks : c[b] = IF b \in S THEN p.ref_cnt[b] + 1 ELSE p.ref_cnt[b]
    OBVIOUS
  <1> HIDE DEF x, c, q
  <1>7. /\ PoolType(q) /\ q.free = x /\ q.ref_cnt = c /\ q.block_hash = p.block_hash
        /\ q.cached = p.cached /\ q.view = p.view /\ q.failed = p.failed
    BY <1>1, <1>3, <1>5 DEF PoolType
  <1> QED BY <1>3, <1>4, <1>6, <1>7 DEF q

(* The free queue loses at most as many blocks as the hit has entries that  *)
(* nobody references.                                                       *)
LEMMA TouchLength ==
  ASSUME NEW p, PoolType(p), Distinct(p.free), NEW q, PoolType(q), Distinct(q.free),
         NEW f \in Seq(Blocks), NEW E \in SUBSET (1 .. Len(f)),
         \A b \in ToSet(p.free) : b \notin ToSet(q.free) => \E i \in E : f[i] = b
  PROVE /\ Cardinality(E) \in Nat /\ Len(p.free) \in Nat /\ Len(q.free) \in Nat
        /\ Len(p.free) <= Len(q.free) + Cardinality(E)
  <1> DEFINE A == ToSet(p.free)
             B == ToSet(q.free)
             X == A \ B
             g == [i \in E |-> f[i]]
             Y == {f[i] : i \in E}
  <1>1. /\ IsFiniteSet(A) /\ Cardinality(A) = Len(p.free)
        /\ IsFiniteSet(B) /\ Cardinality(B) = Len(q.free)
    BY PoolFields, LengthIs
  <1>2. Len(p.free) \in Nat /\ Len(q.free) \in Nat
    BY PoolFields
  <1>3. IsFiniteSet(E)
    <2>1. IsFiniteSet(1 .. Len(f))
      BY FS_Interval
    <2> QED BY <2>1, FS_Subset
  <1>4. g \in Surjection(E, Y)
    BY DEF Surjection
  <1>5. IsFiniteSet(Y) /\ Cardinality(Y) <= Cardinality(E)
    BY <1>3, <1>4, FS_Surjection
  <1>6. A \subseteq B \cup Y
    OBVIOUS
  <1> HIDE DEF A, B, Y
  <1>7. /\ IsFiniteSet(B \cup Y)
        /\ Cardinality(B \cup Y) = Cardinality(B) + Cardinality(Y) - Cardinality(B \cap Y)
    BY <1>1, <1>5, FS_Union
  <1>8. Cardinality(A) <= Cardinality(B \cup Y)
    BY <1>6, <1>7, FS_Subset
  <1>9. Cardinality(B \cap Y) \in Nat /\ Cardinality(Y) \in Nat /\ Cardinality(E) \in Nat
        /\ Cardinality(B \cup Y) \in Nat
    <2>1. IsFiniteSet(B \cap Y)
      BY <1>1, FS_Intersection, <1>5
    <2> QED BY <1>3, <1>5, <1>7, <2>1, FS_CardinalityType
  <1> QED BY <1>1, <1>2, <1>5, <1>7, <1>8, <1>9

(* A request without blocks takes a reference to the blocks f of a hit,     *)
(* which become its table s.                                                *)
Takes(p, t, r, f, s) ==
  /\ t[r] = <<>> /\ Apart(s)
  /\ \A b \in ToSet(f) : b # null_block => p.block_hash[b] # NoHash
  /\ ToSet(s) \ {null_block} = ToSet(f) \ {null_block}

(* touch keeps the pool right when the table takes the blocks.              *)
LEMMA TouchOK ==
  ASSUME NEW p, NEW t, TablesOK(t), PoolOK(p, t), NEW r \in Requests,
         NEW f \in Seq(Blocks), NEW s \in Seq(Blocks), Takes(p, t, r, f, s)
  PROVE LET u == [t EXCEPT ![r] = s]
            q == touch(p, f) IN
        /\ TablesOK(u) /\ PoolOK(q, u)
        /\ q.block_hash = p.block_hash /\ q.cached = p.cached /\ q.view = p.view
        /\ \A b \in ToSet(p.free) :
             b \notin ToSet(q.free) => b \in ToSet(f) /\ b # null_block /\ p.ref_cnt[b] = 0
  <1> DEFINE u == [t EXCEPT ![r] = s]
             q == touch(p, f)
  <1>1. PICK v : v = ToSet(f) \ {null_block}
    OBVIOUS
  <1>2. PoolType(p) /\ Distinct(p.free)
    BY PoolParts
  <1>3. /\ PoolType(q) /\ Distinct(q.free)
        /\ ToSet(q.free) = ToSet(p.free) \ {b \in v : p.ref_cnt[b] = 0}
        /\ \A b \in Blocks : q.ref_cnt[b] = IF b \in v THEN p.ref_cnt[b] + 1 ELSE p.ref_cnt[b]
        /\ q.block_hash = p.block_hash /\ q.cached = p.cached /\ q.view = p.view
        /\ q.failed = p.failed
    BY <1>1, <1>2, TouchFields
  <1>4. TablesOK(u)
    BY TablesPut DEF Takes
  <1>5. ASSUME NEW b \in Blocks, b # null_block
        PROVE /\ q.ref_cnt[b] = Cardinality(Holders(u, b))
              /\ b \notin v => Holders(u, b) = Holders(t, b)
              /\ b \in ToSet(q.free) <=> q.ref_cnt[b] = 0
    <2>1. /\ Cardinality(Holders(t, b)) \in Nat
          /\ Holders(u, b) = IF b \in ToSet(s) THEN Holders(t, b) \cup {r}
                                               ELSE Holders(t, b) \ {r}
          /\ b \in ToSet(t[r]) <=> r \in Holders(t, b)
          /\ b \in ToSet(s) /\ b \notin ToSet(t[r]) =>
               Cardinality(Holders(u, b)) = Cardinality(Holders(t, b)) + 1
          /\ b \notin ToSet(s) /\ b \in ToSet(t[r]) =>
               Cardinality(Holders(u, b)) = Cardinality(Holders(t, b)) - 1
          /\ (b \in ToSet(s) <=> b \in ToSet(t[r])) =>
               Cardinality(Holders(u, b)) = Cardinality(Holders(t, b))
      <3>1. HoldersBecome(t, r, s, b)
        BY HoldersPut
      <3> QED BY <3>1 DEF HoldersBecome
    <2>2. p.ref_cnt[b] = Cardinality(Holders(t, b))
      BY <1>5, PoolParts DEF CountsOK
    <2>3. b \in ToSet(p.free) <=> p.ref_cnt[b] = 0
      BY <1>5, PoolParts DEF FreeExact
    <2>4. q.ref_cnt[b] = IF b \in v THEN p.ref_cnt[b] + 1 ELSE p.ref_cnt[b]
      BY <1>3
    <2>5. b \in ToSet(q.free) <=> b \in ToSet(p.free) /\ ~(b \in v /\ p.ref_cnt[b] = 0)
      BY <1>3
    <2>6. b \notin ToSet(t[r])
      BY NoMembers DEF Takes
    <2>7. b \in v <=> b \in ToSet(s)
      BY <1>1, <1>5 DEF Takes
    <2> HIDE DEF q, u
    <2>8. CASE b \in v
      BY <2>1, <2>2, <2>3, <2>4, <2>5, <2>6, <2>7, <2>8
    <2>9. CASE b \notin v
      BY <2>1, <2>2, <2>3, <2>4, <2>5, <2>6, <2>7, <2>9
    <2> QED BY <2>8, <2>9
  <1> HIDE DEF q, u
  <1>6. FreeExact(q)
    <2>1. null_block \notin ToSet(q.free)
      <3>1. null_block \notin ToSet(p.free)
        BY PoolParts, Constants DEF FreeExact
      <3> QED BY <1>3, <3>1
    <2> QED BY <1>3, <1>5, <2>1 DEF FreeExact, Distinct
  <1>7. CountsOK(q, u)
    BY <1>5 DEF CountsOK
  <1>8. PrivateOK(q, u)
    <2> SUFFICES ASSUME NEW b \in Blocks \ {null_block}, q.block_hash[b] = NoHash
                 PROVE \A x, y \in Holders(u, b) : x = y
      BY DEF PrivateOK
    <2>1. b \notin v
      BY <1>1, <1>3 DEF Takes
    <2>2. Holders(u, b) = Holders(t, b)
      BY <1>5, <2>1
    <2>3. PrivateOK(p, t) /\ p.block_hash[b] = NoHash
      BY <1>3, PoolParts
    <2> QED BY <2>2, <2>3 DEF PrivateOK
  <1>9. MapConsistent(q) /\ q.failed = FALSE
    BY <1>3, PoolParts, MapSame
  <1>10. EnableCaching \/ \A b \in Blocks : q.block_hash[b] = NoHash
    <2>1. EnableCaching \/ \A b \in Blocks : p.block_hash[b] = NoHash
      BY PoolParts
    <2> QED BY <1>3, <2>1, Zenon
  <1>11. PoolOK(q, u)
    BY <1>3, <1>6, <1>7, <1>8, <1>9, <1>10 DEF PoolOK
  <1>12. \A b \in ToSet(p.free) :
           b \notin ToSet(q.free) => b \in ToSet(f) /\ b # null_block /\ p.ref_cnt[b] = 0
    BY <1>1, <1>3
  <1> QED BY <1>3, <1>4, <1>11, <1>12 DEF q, u

(* What the consumers of events believe is true.                            *)
Believed(p) == p.view \subseteq CachedHashes(p)

(* The blocks S lose their hashes, and nothing else changes.                *)
Evicted(p, q, S) ==
  /\ PoolType(q) /\ MapConsistent(q)
  /\ \A b \in Blocks : q.block_hash[b] = IF b \in S THEN NoHash ELSE p.block_hash[b]
  /\ q.free = p.free /\ q.ref_cnt = p.ref_cnt /\ q.failed = p.failed
  /\ Believed(p) => Believed(q)

(* RemoveHashes keeps the map consistent and the events sound.              *)
LEMMA RemoveOK ==
  ASSUME NEW p, PoolType(p), MapConsistent(p), NEW S \in SUBSET Blocks
  PROVE Evicted(p, RemoveHashes(p, S), S)
  <1> DEFINE gone == {p.block_hash[b] : b \in S} \ {NoHash}
             ca == [h \in Hashes |-> Only(p.cached[h], Blocks \ S)]
             bh == [b \in Blocks |-> IF b \in S THEN NoHash ELSE p.block_hash[b]]
             vi == p.view \ gone
             q == RemoveHashes(p, S)
  <1>1. q = [p EXCEPT !.cached = ca, !.block_hash = bh, !.view = vi]
    BY DEF RemoveHashes
  <1>2. ASSUME NEW h \in Hashes
        PROVE /\ ca[h] \in Seq(Blocks) /\ ToSet(ca[h]) = ToSet(p.cached[h]) \ S
              /\ Distinct(p.cached[h]) => Distinct(ca[h])
    <2>1. p.cached[h] \in Seq(Blocks)
      BY PoolFields
    <2>2. \A b \in ToSet(p.cached[h]) : b \in Blocks
      BY <2>1, MembersOf
    <2>3. ca[h] = Only(p.cached[h], Blocks \ S)
      OBVIOUS
    <2>4. /\ Only(p.cached[h], Blocks \ S) \in Seq(Blocks)
          /\ ToSet(Only(p.cached[h], Blocks \ S)) = ToSet(p.cached[h]) \cap (Blocks \ S)
      BY <2>1, OnlyIs
    <2>5. ASSUME Distinct(p.cached[h]) PROVE Distinct(Only(p.cached[h], Blocks \ S))
      <3>1. \A i, j \in 1 .. Len(p.cached[h]) :
              p.cached[h][i] = p.cached[h][j] /\ p.cached[h][i] \in Blocks \ S => i = j
        BY <2>5 DEF Distinct
      <3> QED BY <2>1, <3>1, OnlyIs
    <2> QED BY <2>2, <2>3, <2>4, <2>5
  <1>3. ca \in [Hashes -> Seq(Blocks)]
    BY <1>2
  <1>4. bh \in [Blocks -> Hashes \cup {NoHash}] /\ vi \in SUBSET Hashes
    BY PoolFields
  <1>5. \A b \in Blocks : bh[b] = IF b \in S THEN NoHash ELSE p.block_hash[b]
    OBVIOUS
  <1> HIDE DEF ca, bh, vi, q
  <1>6. /\ PoolType(q) /\ q.cached = ca /\ q.block_hash = bh /\ q.view = vi
        /\ q.free = p.free /\ q.ref_cnt = p.ref_cnt /\ q.failed = p.failed
    BY <1>1, <1>3, <1>4 DEF PoolType
  <1>7. MapConsistent(q)
    <2>1. ASSUME NEW h \in Hashes, NEW b \in Blocks
          PROVE b \in ToSet(q.cached[h]) <=> q.block_hash[b] = h
      <3>1. b \in ToSet(p.cached[h]) <=> p.block_hash[b] = h
        BY DEF MapConsistent
      <3>2. h # NoHash
        BY Constants
      <3>3. b \in ToSet(q.cached[h]) <=> b \in ToSet(p.cached[h]) /\ b \notin S
        BY <1>2, <1>6
      <3>4. q.block_hash[b] = IF b \in S THEN NoHash ELSE p.block_hash[b]
        BY <1>5, <1>6
      <3> QED BY <3>1, <3>2, <3>3, <3>4
    <2>2. ASSUME NEW h \in Hashes
          PROVE \A i, j \in 1 .. Len(q.cached[h]) : q.cached[h][i] = q.cached[h][j] => i = j
      <3>1. Distinct(p.cached[h])
        BY DEF MapConsistent, Distinct
      <3>2. Distinct(q.cached[h])
        BY <1>2, <1>6, <3>1
      <3> QED BY <3>2 DEF Distinct
    <2>3. q.block_hash[null_block] = NoHash
      BY <1>5, <1>6, Constants DEF MapConsistent
    <2> QED BY <2>1, <2>2, <2>3 DEF MapConsistent
  <1>8. ASSUME Believed(p) PROVE Believed(q)
    <2> SUFFICES ASSUME NEW h \in q.view PROVE h \in Hashes /\ q.cached[h] # <<>>
      BY DEF Believed, CachedHashes
    <2>1. h \in p.view /\ h \notin gone
      BY <1>6 DEF vi
    <2>2. h \in Hashes /\ p.cached[h] # <<>>
      BY <1>8, <2>1 DEF Believed, CachedHashes
    <2>3. p.cached[h] \in Seq(Blocks)
      BY <2>2, PoolFields
    <2>4. p.cached[h][1] \in ToSet(p.cached[h]) /\ p.cached[h][1] \in Blocks
      <3>1. 1 \in 1 .. Len(p.cached[h])
        BY <2>2, <2>3
      <3> QED BY <2>3, <3>1, MembersOf
    <2>5. p.block_hash[p.cached[h][1]] = h
      BY <2>2, <2>4 DEF MapConsistent
    <2>6. p.cached[h][1] \notin S
      BY <2>1, <2>2, <2>5, Constants
    <2>7. p.cached[h][1] \in ToSet(q.cached[h])
      BY <1>2, <1>6, <2>2, <2>4, <2>6
    <2> QED BY <2>2, <2>7, NoMembers
  <1> QED BY <1>5, <1>6, <1>7, <1>8 DEF Evicted, q

(* Evicting what new blocks cached keeps the map consistent.                *)
LEMMA EvictOK ==
  ASSUME NEW p, PoolType(p), MapConsistent(p), NEW S \in SUBSET Blocks,
         EnableCaching \/ \A b \in Blocks : p.block_hash[b] = NoHash
  PROVE Evicted(p, IF EnableCaching THEN RemoveHashes(p, S) ELSE p, S)
  <1>1. CASE EnableCaching
    BY <1>1, RemoveOK
  <1>2. CASE ~EnableCaching
    <2>1. \A b \in Blocks : p.block_hash[b] = NoHash
      BY <1>2
    <2>2. Evicted(p, p, S)
      BY <2>1 DEF Evicted
    <2> QED BY <1>2, <2>2
  <1> QED BY <1>1, <1>2

(* New blocks w are taken from the front of the queue.                      *)
New(p, q, w, n) ==
  /\ w \in Seq(Blocks) /\ Len(w) = n /\ Distinct(w)
  /\ \A b \in ToSet(w) : b \in ToSet(p.free)
  /\ \A b \in Blocks : q.block_hash[b] = IF b \in ToSet(w) THEN NoHash ELSE p.block_hash[b]
  /\ Believed(p) => Believed(q)
  /\ q.free = SubSeq(p.free, n + 1, Len(p.free))

(* get_new_blocks keeps the pool right, and its assertion does not fire.    *)
LEMMA NewOK ==
  ASSUME NEW p, NEW t, TablesOK(t), PoolOK(p, t), NEW r \in Requests,
         NEW n \in Nat, n <= Len(p.free)
  PROVE LET w == NewBlocks(p, n)
            q == get_new_blocks(p, n)
            u == [t EXCEPT ![r] = t[r] \o w] IN
        TablesOK(u) /\ PoolOK(q, u) /\ New(p, q, w, n)
  <1> DEFINE w == NewBlocks(p, n)
             S == ToSet(w)
             e == IF EnableCaching THEN RemoveHashes(p, S) ELSE p
             x == popleft_n(e.free, n)
             c == [b \in Blocks |-> IF b \in S THEN e.ref_cnt[b] + 1 ELSE e.ref_cnt[b]]
             fa == e.failed \/ \E b \in S : p.ref_cnt[b] # 0
             q == get_new_blocks(p, n)
             s == t[r] \o w
             u == [t EXCEPT ![r] = s]
  <1>1. q = [e EXCEPT !.failed = fa, !.free = x, !.ref_cnt = c]
    BY DEF get_new_blocks
  <1>2. p.free \in Seq(Blocks) /\ Len(p.free) \in Nat /\ Distinct(p.free)
    <2>1. PoolType(p) /\ Distinct(p.free)
      BY PoolParts
    <2>2. p.free \in Seq(Blocks)
      BY <2>1, PoolFields
    <2> QED BY <2>1, <2>2
  <1>3. /\ w \in Seq(Blocks) /\ Len(w) = n /\ \A i \in 1 .. Len(w) : i \in 1 .. Len(p.free) /\ w[i] = p.free[i]
        /\ S = {p.free[i] : i \in 1 .. n}
    <2>1. PICK z \in Nat : z = 0
      OBVIOUS
    <2>2. w = SubSeq(p.free, z + 1, n)
      <3>1. z + 1 = 1
        BY <2>1
      <3> QED BY <3>1 DEF NewBlocks
    <2> HIDE DEF w
    <2>3. /\ w \in Seq(Blocks) /\ Len(w) = IF z <= n THEN n - z ELSE 0
          /\ \A i \in 1 .. Len(w) : i + z \in z + 1 .. n /\ w[i] = p.free[i + z]
      <3>1. p.free \in Seq(Blocks) /\ z \in Nat /\ n \in Nat /\ n <= Len(p.free)
        BY <1>2, <2>1
      <3>2. w \in Seq(Blocks)
        BY <3>1, <2>2, SubSeqIs
      <3>3. Len(w) = IF z <= n THEN n - z ELSE 0
        BY <3>1, <2>2, SubSeqIs
      <3>4. \A i \in 1 .. Len(w) : i + z \in z + 1 .. n /\ w[i] = p.free[i + z]
        BY <3>1, <2>2, SubSeqIs
      <3> QED BY <3>2, <3>3, <3>4
    <2>4. Len(w) = n /\ \A i \in 1 .. Len(w) : i \in 1 .. Len(p.free) /\ w[i] = p.free[i]
      BY <1>2, <2>1, <2>3
    <2>5. \A b : b \in ToSet(w) <=> \E i \in 1 .. Len(w) : b = w[i]
      BY <2>3, MembersOf
    <2>6. ToSet(w) = {p.free[i] : i \in 1 .. n}
      BY <2>4, <2>5
    <2> QED BY <2>3, <2>4, <2>6
  <1> HIDE DEF w
  <1>4. Distinct(w)
    BY <1>2, <1>3 DEF Distinct
  <1>5. \A b \in S : b \in ToSet(p.free)
    BY <1>2, <1>3, MembersOf
  <1>6. S \in SUBSET Blocks
    BY <1>3, MembersOf
  <1>7. Evicted(p, e, S)
    BY <1>6, PoolParts, EvictOK
  <1> HIDE DEF e
  <1>8. \A b \in S : b # null_block /\ p.ref_cnt[b] = 0 /\ \A y \in Requests : b \notin ToSet(t[y])
    BY <1>5, FreeNotHeld
  <1>9. e.failed = FALSE /\ fa = FALSE
    BY <1>7, <1>8, PoolParts DEF Evicted
  <1>10. x = SubSeq(p.free, n + 1, Len(p.free))
    BY <1>7 DEF Evicted, popleft_n
  <1>11. /\ x \in Seq(Blocks)
         /\ \A i \in 1 .. Len(x) : i + n \in n + 1 .. Len(p.free) /\ x[i] = p.free[i + n]
         /\ ToSet(x) = {p.free[i] : i \in n + 1 .. Len(p.free)}
    <2> DEFINE fr == p.free
    <2> DEFINE m == Len(fr)
    <2>1. m \in Nat /\ m <= Len(fr) /\ n \in Nat /\ fr \in Seq(Blocks)
      BY <1>2
    <2>2. x = SubSeq(fr, n + 1, m)
      BY <1>10
    <2> HIDE DEF x, m, fr
    <2>3. x \in Seq(Blocks)
      BY <2>1, <2>2, SubSeqIs
    <2>4. \A i \in 1 .. Len(x) : i + n \in n + 1 .. m /\ x[i] = fr[i + n]
      BY <2>1, <2>2, SubSeqIs
    <2>5. ToSet(x) = {fr[i] : i \in n + 1 .. m}
      <3>1. ToSet(SubSeq(fr, n + 1, m)) = {fr[i] : i \in n + 1 .. m}
        BY <2>1, SubSeqIs
      <3> QED BY <3>1, <2>2
    <2> QED BY <2>3, <2>4, <2>5 DEF m, fr
  <1> HIDE DEF x
  <1>12. Distinct(x)
    <2> SUFFICES ASSUME NEW i \in 1 .. Len(x), NEW j \in 1 .. Len(x), x[i] = x[j] PROVE i = j
      BY DEF Distinct
    <2>1. i + n \in 1 .. Len(p.free) /\ j + n \in 1 .. Len(p.free) /\ i \in Int /\ j \in Int
      BY <1>2, <1>11
    <2>2. i + n = j + n
      BY <1>2, <1>11, <2>1 DEF Distinct
    <2> QED BY <2>1, <2>2
  <1>13. ToSet(x) = ToSet(p.free) \ S
    <2>1. ASSUME NEW b \in ToSet(x) PROVE b \in ToSet(p.free) /\ b \notin S
      <3>1. PICK i \in n + 1 .. Len(p.free) : b = p.free[i]
        BY <1>11
      <3>2. i \in 1 .. Len(p.free) /\ \A j \in 1 .. n : j \in 1 .. Len(p.free) /\ j # i
        BY <1>2
      <3>3. b \notin S
        BY <1>2, <1>3, <3>1, <3>2 DEF Distinct
      <3> QED BY <1>2, <3>1, <3>2, <3>3, MembersOf
    <2>2. ASSUME NEW b \in ToSet(p.free), b \notin S PROVE b \in ToSet(x)
      <3>1. PICK i \in 1 .. Len(p.free) : b = p.free[i]
        BY <1>2, MembersOf
      <3>2. i \notin 1 .. n
        BY <1>3, <2>2, <3>1
      <3>3. i \in n + 1 .. Len(p.free)
        BY <1>2, <3>2
      <3> QED BY <1>11, <3>1, <3>3
    <2> QED BY <2>1, <2>2
  <1>14. c \in [Blocks -> Nat] /\ \A b \in Blocks : c[b] = IF b \in S THEN p.ref_cnt[b] + 1 ELSE p.ref_cnt[b]
    BY <1>7, PoolParts, PoolFields DEF Evicted
  <1> HIDE DEF c, fa, q
  <1>15. /\ PoolType(q) /\ q.free = x /\ q.ref_cnt = c /\ q.failed = FALSE
         /\ q.block_hash = e.block_hash /\ q.cached = e.cached /\ q.view = e.view
    <2>1. PoolType(e)
      BY <1>7 DEF Evicted
    <2> QED BY <1>1, <1>9, <1>11, <1>14, <2>1 DEF PoolType
  <1>16. MapConsistent(q)
    BY <1>7, <1>15, MapSame DEF Evicted
  <1>17. \A b \in Blocks : q.block_hash[b] = IF b \in S THEN NoHash ELSE p.block_hash[b]
    BY <1>7, <1>15 DEF Evicted
  <1>18. Believed(p) => Believed(q)
    BY <1>7, <1>15 DEF Evicted, Believed, CachedHashes
  <1>19. New(p, q, w, n)
    BY <1>3, <1>4, <1>5, <1>10, <1>15, <1>17, <1>18 DEF New
  <1>20. /\ t[r] \in Seq(Blocks) /\ Apart(t[r])
    BY DEF TablesOK
  <1>21. /\ s \in Seq(Blocks) /\ ToSet(s) = ToSet(t[r]) \cup S
    BY <1>3, <1>20, JoinIs
  <1>22. Apart(s)
    <2>1. \A b \in S : b \notin ToSet(t[r])
      BY <1>8
    <2> QED BY <1>3, <1>4, <1>20, <2>1, JoinApart
  <1> HIDE DEF s
  <1>23. TablesOK(u)
    BY <1>21, <1>22, TablesPut
  <1>24. ASSUME NEW b \in Blocks, b # null_block
        PROVE /\ q.ref_cnt[b] = Cardinality(Holders(u, b))
              /\ b \notin S => Holders(u, b) = Holders(t, b)
              /\ b \in S => Holders(u, b) = {r}
              /\ b \in ToSet(q.free) <=> q.ref_cnt[b] = 0
    <2>1. HoldersBecome(t, r, s, b)
      BY <1>21, HoldersPut
    <2>2. p.ref_cnt[b] = Cardinality(Holders(t, b)) /\ p.ref_cnt[b] \in Nat
      <3>1. p.ref_cnt[b] = Cardinality(Holders(t, b))
        BY <1>24, PoolParts DEF CountsOK
      <3> QED BY <3>1, PoolParts, PoolFields
    <2>3. b \in ToSet(p.free) <=> p.ref_cnt[b] = 0
      BY <1>24, PoolParts DEF FreeExact
    <2>4. q.ref_cnt[b] = IF b \in S THEN p.ref_cnt[b] + 1 ELSE p.ref_cnt[b]
      BY <1>14, <1>15
    <2>5. b \in ToSet(q.free) <=> b \in ToSet(p.free) /\ b \notin S
      BY <1>13, <1>15
    <2>6. CASE b \in S
      <3>1. b \in ToSet(s) /\ b \notin ToSet(t[r])
        BY <1>8, <1>21, <2>6
      <3>2. Cardinality(Holders(u, b)) = Cardinality(Holders(t, b)) + 1
        BY <2>1, <3>1 DEF HoldersBecome
      <3>3. Holders(u, b) = Holders(t, b) \cup {r}
        BY <2>1, <3>1 DEF HoldersBecome
      <3>4. Holders(t, b) = {}
        BY <1>8, <2>6 DEF Holders
      <3>5. q.ref_cnt[b] = Cardinality(Holders(u, b)) /\ q.ref_cnt[b] # 0
        BY <2>2, <2>4, <2>6, <3>2
      <3> QED BY <2>5, <2>6, <3>3, <3>4, <3>5
    <2>7. CASE b \notin S
      <3>1. b \in ToSet(s) <=> b \in ToSet(t[r])
        BY <1>21, <2>7
      <3>2. Holders(u, b) = Holders(t, b)
        BY <2>1, <3>1 DEF HoldersBecome
      <3> QED BY <2>2, <2>3, <2>4, <2>5, <2>7, <3>2
    <2> QED BY <2>6, <2>7
  <1> HIDE DEF u
  <1>25. FreeExact(q)
    <2>1. null_block \notin ToSet(q.free)
      <3>1. null_block \notin ToSet(p.free)
        BY PoolParts, Constants DEF FreeExact
      <3> QED BY <1>13, <1>15, <3>1
    <2> QED BY <1>12, <1>15, <1>24, <2>1 DEF FreeExact, Distinct
  <1>26. CountsOK(q, u)
    BY <1>24 DEF CountsOK
  <1>27. PrivateOK(q, u)
    <2> SUFFICES ASSUME NEW b \in Blocks \ {null_block}, q.block_hash[b] = NoHash
                 PROVE \A y, z \in Holders(u, b) : y = z
      BY DEF PrivateOK
    <2>1. CASE b \in S
      BY <1>24, <2>1
    <2>2. CASE b \notin S
      <3>1. p.block_hash[b] = NoHash /\ Holders(u, b) = Holders(t, b)
        BY <1>17, <1>24, <2>2
      <3>2. PrivateOK(p, t)
        BY PoolParts
      <3> QED BY <3>1, <3>2 DEF PrivateOK
    <2> QED BY <2>1, <2>2
  <1>28. EnableCaching \/ \A b \in Blocks : q.block_hash[b] = NoHash
    <2>1. EnableCaching \/ \A b \in Blocks : p.block_hash[b] = NoHash
      BY PoolParts
    <2> QED BY <1>17, <2>1
  <1>29. PoolOK(q, u)
    BY <1>15, <1>16, <1>25, <1>26, <1>27, <1>28 DEF PoolOK
  <1> QED BY <1>19, <1>23, <1>29 DEF q, u, s, w
-----------------------------------------------------------------------------
(* Hashes                                                                   *)

(* A prefix of a sequence, and the prefixes of that.                        *)
LEMMA PrefixIs ==
  ASSUME NEW T, NEW q \in Seq(T), NEW n \in Nat, n <= Len(q)
  PROVE /\ SubSeq(q, 1, n) \in Seq(T) /\ Len(SubSeq(q, 1, n)) = n
        /\ \A i \in 1 .. n : SubSeq(q, 1, n)[i] = q[i]
        /\ \A m \in Nat : m <= n => SubSeq(SubSeq(q, 1, n), 1, m) = SubSeq(q, 1, m)
  OBVIOUS

(* The assumptions on one request.                                          *)
LEMMA RequestConstants ==
  ASSUME NEW r \in Requests
  PROVE /\ Tokens[r] \in Seq(ToSet(Tokens[r])) /\ Len(Tokens[r]) \in Nat
        /\ NumPrompt[r] \in Nat /\ NumPrompt[r] >= 1 /\ NumPrompt[r] < Len(Tokens[r])
        /\ Len(Tokens[r]) <= MaxModelLen
        /\ Len(Tokens[r]) \div BlockSize \in Nat
        /\ (Len(Tokens[r]) \div BlockSize) * BlockSize <= Len(Tokens[r])
  <1>1. /\ Tokens[r] \in Seq(ToSet(Tokens[r]))
        /\ NumPrompt[r] \in 1 .. Len(Tokens[r]) - 1 /\ Len(Tokens[r]) <= MaxModelLen
    BY ManagerAssumption
  <1>2. Len(Tokens[r]) \in Nat
    BY <1>1
  <1>3. NumPrompt[r] \in Nat /\ NumPrompt[r] >= 1 /\ NumPrompt[r] < Len(Tokens[r])
    BY <1>1, <1>2
  <1>4. BlockSize \in Nat /\ BlockSize >= 1
    BY Constants
  <1>5. Len(Tokens[r]) \div BlockSize \in Nat /\ (Len(Tokens[r]) \div BlockSize) * BlockSize <= Len(Tokens[r])
    <2>1. PICK n \in Nat : n = Len(Tokens[r])
      BY <1>2
    <2>2. n \div BlockSize \in Nat
      BY <1>4, DivNat
    <2>3. (n \div BlockSize) * BlockSize <= n
      BY <1>4, DivIs
    <2> QED BY <2>1, <2>2, <2>3
  <1> QED BY <1>1, <1>2, <1>3, <1>5

(* The i-th hash of r, and the entries that a block which carries it holds. *)
LEMMA HashIs ==
  ASSUME NEW r \in Requests, NEW i \in 1 .. Len(Tokens[r]) \div BlockSize
  PROVE LET h == block_hashes(r)[i] IN
        /\ h \in Hashes /\ h # NoHash /\ Len(h) = i * BlockSize
        /\ \A k \in 0 .. BlockSize - 1 : SubSeq(h, 1, Len(h) - BlockSize + k + 1) = Right(r, i, k)
  <1> DEFINE h == block_hashes(r)[i]
  <1>1. BlockSize \in Nat /\ BlockSize >= 1 /\ NoHash \notin Hashes
    BY Constants
  <1>2. /\ Tokens[r] \in Seq(ToSet(Tokens[r])) /\ Len(Tokens[r]) \in Nat
        /\ Len(Tokens[r]) \div BlockSize \in Nat
    BY RequestConstants
  <1>3. i \in Nat /\ i >= 1 /\ i <= Len(Tokens[r]) \div BlockSize
    BY <1>2
  <1>4. i * BlockSize \in Nat /\ (i - 1) * BlockSize = i * BlockSize - BlockSize
        /\ (i - 1) * BlockSize \in Nat
    <2>1. (i - 1) * BlockSize = i * BlockSize - BlockSize
      BY <1>1, <1>3, OneTimes
    <2>2. i * BlockSize \in Nat /\ (i - 1) * BlockSize \in Nat
      <3>1. \A a, b \in Nat : a * b \in Nat
        OBVIOUS
      <3>2. i - 1 \in Nat
        BY <1>3
      <3> QED BY <1>1, <1>3, <3>1, <3>2
    <2> QED BY <2>1, <2>2
  <1>5. i * BlockSize <= Len(Tokens[r])
    <2>1. PICK n \in Int : n = Len(Tokens[r])
      BY <1>2
    <2>2. i \in Int
      BY <1>3
    <2>3. i <= n \div BlockSize <=> i * BlockSize <= n
      BY <1>1, <2>2, DivBelow
    <2> QED BY <1>3, <2>1, <2>3
  <1>6. h = SubSeq(Tokens[r], 1, i * BlockSize)
    BY DEF block_hashes
  <1>7. h \in Hashes
    <2>1. Hashes = UNION {{SubSeq(Tokens[q], 1, j * BlockSize) :
                        j \in 1 .. Len(Tokens[q]) \div BlockSize} : q \in Requests}
      BY ManagerAssumption
    <2> DEFINE H == {SubSeq(Tokens[r], 1, j * BlockSize) : j \in 1 .. Len(Tokens[r]) \div BlockSize}
    <2>2. h \in H
      BY <1>6
    <2>3. H \in {{SubSeq(Tokens[q], 1, j * BlockSize) :
                        j \in 1 .. Len(Tokens[q]) \div BlockSize} : q \in Requests}
      OBVIOUS
    <2> HIDE DEF H, h
    <2> QED BY <2>1, <2>2, <2>3, Zenon
  <1> HIDE DEF h
  <1>8. Len(h) = i * BlockSize /\ \A m \in Nat : m <= i * BlockSize => SubSeq(h, 1, m) = SubSeq(Tokens[r], 1, m)
    BY <1>2, <1>4, <1>5, <1>6, PrefixIs
  <1>9. ASSUME NEW k \in 0 .. BlockSize - 1
        PROVE SubSeq(h, 1, Len(h) - BlockSize + k + 1) = Right(r, i, k)
    <2> DEFINE m == (i - 1) * BlockSize + k + 1
    <2>1. m \in Nat /\ m <= i * BlockSize /\ Len(h) - BlockSize + k + 1 = m
      BY <1>1, <1>4, <1>8
    <2> HIDE DEF m
    <2>2. SubSeq(h, 1, m) = SubSeq(Tokens[r], 1, m)
      BY <1>8, <2>1
    <2> QED BY <2>1, <2>2 DEF Right, m
  <1> QED BY <1>1, <1>7, <1>8, <1>9 DEF h

(* The blocks of the table s of r behind the first d, up to full, get the   *)
(* hashes of r's prefixes.                                                  *)
Stored(p, q, t, r, d, full) ==
  /\ PoolOK(q, t) /\ HashesOK(q, t[r], r, full)
  /\ \A b \in Blocks : b \notin ToSet(t[r]) => q.block_hash[b] = p.block_hash[b]
  /\ \A y \in Requests : y # r => \A i \in 1 .. Len(t[y]) :
       t[y][i] # null_block => q.block_hash[t[y][i]] = p.block_hash[t[y][i]]
  /\ Believed(p) => Believed(q)
  /\ q.free = p.free /\ \A b \in Blocks : p.block_hash[b] # NoHash => q.block_hash[b] = p.block_hash[b]
  /\ \A i \in d + 1 .. full : t[r][i] # null_block => q.block_hash[t[r][i]] # NoHash

(* cache_full_blocks keeps the pool right, and its assertion does not fire. *)
LEMMA StoreOK ==
  ASSUME NEW p, NEW t, TablesOK(t), PoolOK(p, t), NEW r \in Requests, EnableCaching,
         NEW d \in Nat, NEW full \in Nat, d < full, full <= Len(t[r]),
         full <= Len(Tokens[r]) \div BlockSize, HashesOK(p, t[r], r, d)
  PROVE Stored(p, cache_full_blocks(p, t[r], d, full, block_hashes(r)), t, r, d, full)
  <1> DEFINE s == t[r]
             hs == block_hashes(r)
             new == {i \in d + 1 .. full : s[i] # null_block}
             HashOf(b) == hs[CHOOSE i \in new : s[i] = b]
             owners == {s[i] : i \in new}
             For(h) == {b \in owners : HashOf(b) = h /\ b \notin ToSet(p.cached[h])}
             fa == p.failed \/ \E b \in owners : p.block_hash[b] # NoHash
             bh == [b \in Blocks |-> IF b \in owners THEN HashOf(b) ELSE p.block_hash[b]]
             ca == [h \in Hashes |-> p.cached[h] \o SetToSeq(For(h))]
             vi == p.view \cup {hs[i] : i \in new}
             q == cache_full_blocks(p, s, d, full, hs)
  <1>1. q = [p EXCEPT !.failed = fa, !.block_hash = bh, !.cached = ca, !.view = vi]
    BY DEF cache_full_blocks
  <1>2. s \in Seq(Blocks) /\ Apart(s) /\ Len(s) \in Nat
    BY DEF TablesOK
  <1>3. \A i \in d + 1 .. full : /\ i \in 1 .. Len(s) /\ i \in 1 .. Len(Tokens[r]) \div BlockSize
                                 /\ ~(i <= d) /\ s[i] \in Blocks /\ s[i] \in ToSet(s)
    <2>1. Len(Tokens[r]) \div BlockSize \in Nat
      BY RequestConstants
    <2>2. \A i \in d + 1 .. full : /\ i \in 1 .. Len(s) /\ i \in 1 .. Len(Tokens[r]) \div BlockSize
                                   /\ ~(i <= d)
      BY <1>2, <2>1
    <2> QED BY <1>2, <2>2, MembersOf
  <1>4. \A i \in new : hs[i] \in Hashes /\ hs[i] # NoHash
    BY <1>3, HashIs
  <1>5. \A i \in new : HashOf(s[i]) = hs[i]
    <2> SUFFICES ASSUME NEW i \in new PROVE HashOf(s[i]) = hs[i]
      OBVIOUS
    <2>1. \A j \in new : s[j] = s[i] => j = i
      BY <1>2, <1>3 DEF Apart
    <2>2. (CHOOSE j \in new : s[j] = s[i]) = i
      BY <2>1
    <2> QED BY <2>2
  <1> HIDE DEF HashOf, hs, s, new
  <1>6. owners \subseteq Blocks /\ null_block \notin owners /\ owners \subseteq ToSet(s)
    BY <1>3 DEF new
  <1>7. \A b \in owners : \E i \in new : b = s[i] /\ HashOf(b) = hs[i]
    BY <1>5
  <1>8. \A b \in owners : HashOf(b) \in Hashes /\ HashOf(b) # NoHash
    BY <1>4, <1>7
  <1>9. \A b \in owners : p.block_hash[b] = NoHash
    <2> SUFFICES ASSUME NEW i \in new PROVE p.block_hash[s[i]] = NoHash
      OBVIOUS
    <2> QED BY <1>3 DEF new, HashesOK, s
  <1> HIDE DEF owners
  <1>10. PoolType(p) /\ MapConsistent(p) /\ p.failed = FALSE /\ FreeExact(p)
         /\ CountsOK(p, t) /\ PrivateOK(p, t)
    BY PoolParts
  <1>11. fa = FALSE
    BY <1>9, <1>10
  <1>12. /\ p.ref_cnt \in [Blocks -> Nat] /\ p.block_hash \in [Blocks -> Hashes \cup {NoHash}]
         /\ p.cached \in [Hashes -> Seq(Blocks)] /\ p.free \in Seq(Blocks)
         /\ p.view \in SUBSET Hashes
    BY <1>10, PoolFields
  <1>13. bh \in [Blocks -> Hashes \cup {NoHash}]
         /\ \A b \in Blocks : bh[b] = IF b \in owners THEN HashOf(b) ELSE p.block_hash[b]
    BY <1>8, <1>12
  <1>14. vi \in SUBSET Hashes
    BY <1>4, <1>12
  <1>15. ASSUME NEW h \in Hashes
         PROVE /\ ca[h] \in Seq(Blocks) /\ Distinct(ca[h])
               /\ \A b \in Blocks : b \in ToSet(ca[h]) <=> b \in ToSet(p.cached[h]) \/ (b \in owners /\ HashOf(b) = h)
    <2> DEFINE x == SetToSeq(For(h))
    <2>1. For(h) \subseteq Blocks /\ For(h) \cap ToSet(p.cached[h]) = {}
      BY <1>6
    <2>2. IsFiniteSet(For(h))
      BY <2>1, Constants, FS_Subset
    <2> HIDE DEF For
    <2>3. x \in Seq(For(h)) /\ ToSet(x) = For(h) /\ Distinct(x)
      BY <2>2, SetToSeqIs
    <2> HIDE DEF x
    <2>4. x \in Seq(Blocks)
      BY <2>1, <2>3
    <2>5. p.cached[h] \in Seq(Blocks) /\ Distinct(p.cached[h])
      BY <1>10, <1>12 DEF MapConsistent, Distinct
    <2>6. ca[h] = p.cached[h] \o x
      BY DEF x
    <2>7. ToSet(p.cached[h]) \cap ToSet(x) = {}
      BY <2>1, <2>3
    <2> HIDE DEF ca
    <2>8. /\ p.cached[h] \o x \in Seq(Blocks) /\ Distinct(p.cached[h] \o x)
          /\ ToSet(p.cached[h] \o x) = ToSet(p.cached[h]) \cup ToSet(x)
      BY <2>3, <2>4, <2>5, <2>7, ConcatFacts
    <2>9. ToSet(ca[h]) = ToSet(p.cached[h]) \cup For(h)
      BY <2>3, <2>6, <2>8
    <2>10. \A b : b \in For(h) <=> b \in owners /\ HashOf(b) = h /\ b \notin ToSet(p.cached[h])
      BY DEF For
    <2> QED BY <2>6, <2>8, <2>9, <2>10
  <1>16. ca \in [Hashes -> Seq(Blocks)]
    BY <1>15
  <1> HIDE DEF fa, bh, ca, vi, q
  <1>17. /\ PoolType(q) /\ q.failed = FALSE /\ q.block_hash = bh /\ q.cached = ca /\ q.view = vi
         /\ q.free = p.free /\ q.ref_cnt = p.ref_cnt
    BY <1>1, <1>10, <1>11, <1>13, <1>14, <1>16 DEF PoolType
  <1>18. MapConsistent(q)
    <2>1. ASSUME NEW h \in Hashes, NEW b \in Blocks
          PROVE b \in ToSet(q.cached[h]) <=> q.block_hash[b] = h
      <3>1. b \in ToSet(p.cached[h]) <=> p.block_hash[b] = h
        BY <1>10 DEF MapConsistent
      <3>2. h # NoHash
        BY Constants
      <3>3. b \in ToSet(q.cached[h]) <=> b \in ToSet(p.cached[h]) \/ (b \in owners /\ HashOf(b) = h)
        BY <1>15, <1>17
      <3>4. q.block_hash[b] = IF b \in owners THEN HashOf(b) ELSE p.block_hash[b]
        BY <1>13, <1>17
      <3>5. b \in owners => p.block_hash[b] = NoHash
        BY <1>9
      <3> QED BY <3>1, <3>2, <3>3, <3>4, <3>5
    <2>2. ASSUME NEW h \in Hashes
          PROVE \A i, j \in 1 .. Len(q.cached[h]) : q.cached[h][i] = q.cached[h][j] => i = j
      BY <1>15, <1>17 DEF Distinct
    <2>3. q.block_hash[null_block] = NoHash
      BY <1>6, <1>10, <1>13, <1>17, Constants DEF MapConsistent
    <2> QED BY <2>1, <2>2, <2>3 DEF MapConsistent
  <1>19. FreeExact(q) /\ CountsOK(q, t)
    BY <1>10, <1>17 DEF FreeExact, CountsOK
  <1>20. \A b \in Blocks : q.block_hash[b] = NoHash => p.block_hash[b] = NoHash
    BY <1>8, <1>13, <1>17
  <1>21. PrivateOK(q, t)
    BY <1>10, <1>20 DEF PrivateOK
  <1>22. PoolOK(q, t)
    BY <1>17, <1>18, <1>19, <1>21 DEF PoolOK
  <1>23. HashesOK(q, s, r, full)
    <2> SUFFICES ASSUME NEW i \in 1 .. Len(s), s[i] # null_block, q.block_hash[s[i]] # NoHash
                 PROVE /\ i <= full /\ i <= Len(Tokens[r]) \div BlockSize
                       /\ q.block_hash[s[i]] = block_hashes(r)[i]
      BY DEF HashesOK
    <2>1. s[i] \in Blocks
      BY <1>2
    <2>2. CASE s[i] \in owners
      <3>1. PICK j \in new : s[i] = s[j] /\ HashOf(s[i]) = hs[j]
        BY <1>7, <2>2
      <3>2. j \in 1 .. Len(s) /\ s[i] = s[j] /\ s[i] # null_block
        BY <1>3, <3>1 DEF new
      <3>3. i = j
        BY <1>2, <3>2 DEF Apart
      <3>4. i \in d + 1 .. full
        BY <3>3 DEF new
      <3>5. i <= full /\ i <= Len(Tokens[r]) \div BlockSize
        BY <3>4, RequestConstants
      <3> QED BY <1>13, <1>17, <2>1, <2>2, <3>1, <3>3, <3>5 DEF hs
    <2>3. CASE s[i] \notin owners
      <3>1. p.block_hash[s[i]] # NoHash /\ q.block_hash[s[i]] = p.block_hash[s[i]]
        BY <1>13, <1>17, <2>1, <2>3
      <3>2. HashesOK(p, s, r, d)
        BY DEF s
      <3>3. /\ i <= d /\ i <= Len(Tokens[r]) \div BlockSize
            /\ p.block_hash[s[i]] = block_hashes(r)[i]
        BY <3>1, <3>2 DEF HashesOK
      <3>4. i <= full
        BY <1>2, <3>3
      <3> QED BY <3>1, <3>3, <3>4
    <2> QED BY <2>2, <2>3
  <1>24. \A b \in Blocks : b \notin ToSet(s) => q.block_hash[b] = p.block_hash[b]
    BY <1>6, <1>13, <1>17
  <1>25. ASSUME NEW y \in Requests, y # r, NEW i \in 1 .. Len(t[y]), t[y][i] # null_block
         PROVE q.block_hash[t[y][i]] = p.block_hash[t[y][i]]
    <2> DEFINE b == t[y][i]
    <2>1. t[y] \in Seq(Blocks)
      BY DEF TablesOK
    <2>2. b \in ToSet(t[y]) /\ b \in Blocks
      BY <1>25, <2>1, MembersOf
    <2>3. b \notin owners
      <3>1. SUFFICES ASSUME b \in owners PROVE FALSE
        OBVIOUS
      <3>2. b \in ToSet(t[r])
        BY <1>6, <3>1 DEF s
      <3>3. y \in Holders(t, b) /\ r \in Holders(t, b)
        BY <2>2, <3>2 DEF Holders
      <3>4. p.block_hash[b] = NoHash
        BY <1>9, <3>1
      <3>5. y = r
        BY <1>10, <1>25, <2>2, <3>3, <3>4 DEF PrivateOK
      <3> QED BY <1>25, <3>5
    <2> QED BY <1>13, <1>17, <2>2, <2>3
  <1>26. ASSUME Believed(p) PROVE Believed(q)
    <2> SUFFICES ASSUME NEW h \in q.view PROVE h \in Hashes /\ q.cached[h] # <<>>
      BY DEF Believed, CachedHashes
    <2>1. CASE h \in p.view
      <3>1. h \in Hashes /\ p.cached[h] # <<>>
        BY <1>26, <2>1 DEF Believed, CachedHashes
      <3>2. p.cached[h] \in Seq(Blocks)
        BY <1>12, <3>1
      <3>3. 1 \in 1 .. Len(p.cached[h])
        BY <3>1, <3>2
      <3>4. p.cached[h][1] \in ToSet(p.cached[h]) /\ p.cached[h][1] \in Blocks
        BY <3>2, <3>3, MembersOf
      <3>5. p.cached[h][1] \in ToSet(q.cached[h])
        BY <1>15, <1>17, <3>1, <3>4
      <3> QED BY <3>1, <3>5, NoMembers
    <2>2. CASE h \notin p.view
      <3>1. PICK i \in new : h = hs[i]
        BY <1>17, <2>2 DEF vi
      <3>2. s[i] \in owners /\ HashOf(s[i]) = h /\ h \in Hashes /\ s[i] \in Blocks
        BY <1>3, <1>4, <1>5, <3>1 DEF owners, new
      <3>3. s[i] \in ToSet(q.cached[h])
        BY <1>15, <1>17, <3>2
      <3> QED BY <3>2, <3>3, NoMembers
    <2> QED BY <2>1, <2>2
  <1>27. \A b \in Blocks : p.block_hash[b] # NoHash => q.block_hash[b] = p.block_hash[b]
    BY <1>9, <1>13, <1>17
  <1>28. ASSUME NEW i \in d + 1 .. full, s[i] # null_block PROVE q.block_hash[s[i]] # NoHash
    <2>1. s[i] \in owners /\ s[i] \in Blocks
      BY <1>3, <1>28 DEF owners, new
    <2> QED BY <1>8, <1>13, <1>17, <2>1
  <1> QED BY <1>17, <1>22, <1>23, <1>24, <1>25, <1>26, <1>27, <1>28 DEF Stored, q, s, hs
-----------------------------------------------------------------------------
(* The order of the free queue                                              *)

(* Fewer hashes or fewer free blocks: an extension still has its prefix     *)
(* behind.                                                                  *)
LEMMA QueueKept ==
  ASSUME NEW bh, NEW bk, NEW q, QueueOK(bh, q),
         \A i \in 1 .. Len(q) : bk[q[i]] = bh[q[i]],
         \A c \in Blocks : bh[c] # NoHash => bk[c] = bh[c]
  PROVE QueueOK(bk, q)
  <1> SUFFICES ASSUME NEW i \in 1 .. Len(q), Extends(bk, q[i])
               PROVE \E c : IsParent(bk, q[i], c) /\ \A j \in 1 .. i : q[j] # c
    BY DEF QueueOK
  <1>1. bk[q[i]] = bh[q[i]] /\ Extends(bh, q[i])
    BY DEF Extends
  <1>2. PICK c : IsParent(bh, q[i], c) /\ \A j \in 1 .. i : q[j] # c
    BY <1>1 DEF QueueOK
  <1>3. IsParent(bk, q[i], c)
    BY <1>1, <1>2 DEF IsParent
  <1> QED BY <1>2, <1>3

(* touch: what leaves the queue for a table is in use, as good as behind.   *)
LEMMA QueueTouch ==
  ASSUME NEW bh, NEW m \in Seq(Blocks), QueueOK(bh, m), NEW S
  PROVE QueueOK(bh, Only(m, S))
  <1> DEFINE q == Only(m, S)
  <1>1. PICK o : /\ \A k \in 1 .. Len(q) : o[k] \in 1 .. Len(m) /\ q[k] = m[o[k]]
                 /\ \A j, k \in 1 .. Len(q) : j < k => o[j] < o[k]
    BY OnlyOrder
  <1>2. Len(q) \in Nat
    BY OnlyIs
  <1> HIDE DEF q
  <1> SUFFICES ASSUME NEW i \in 1 .. Len(q), Extends(bh, q[i])
               PROVE \E c : IsParent(bh, q[i], c) /\ \A j \in 1 .. i : q[j] # c
    BY DEF QueueOK, q
  <1>3. o[i] \in 1 .. Len(m) /\ q[i] = m[o[i]]
    BY <1>1
  <1>4. PICK c : IsParent(bh, m[o[i]], c) /\ \A j \in 1 .. o[i] : m[j] # c
    BY <1>3 DEF QueueOK
  <1>5. ASSUME NEW j \in 1 .. i PROVE q[j] # c
    <2>1. j \in 1 .. Len(q) /\ (j < i \/ j = i)
      BY <1>2
    <2>2. o[j] \in 1 .. Len(m) /\ (o[j] < o[i] \/ o[j] = o[i])
      BY <1>1, <2>1
    <2>3. o[j] \in 1 .. o[i]
      BY <1>3, <2>2
    <2> QED BY <1>1, <1>4, <2>1, <2>3
  <1> QED BY <1>3, <1>4, <1>5

(* popleft_n: the parent of a block is behind it, so it is not evicted      *)
(* first.                                                                   *)
LEMMA QueuePop ==
  ASSUME NEW bh, NEW m \in Seq(Blocks), QueueOK(bh, m), NEW n \in Nat, n <= Len(m),
         NEW bk, \A b \in Blocks : bk[b] = IF b \in ToSet(SubSeq(m, 1, n)) THEN NoHash ELSE bh[b]
  PROVE QueueOK(bk, SubSeq(m, n + 1, Len(m)))
  <1> DEFINE e == Len(m)
             v == SubSeq(m, 1, n)
             x == SubSeq(m, n + 1, e)
  <1>1. e \in Nat /\ e <= Len(m) /\ \A i \in 1 .. e : m[i] \in Blocks
    OBVIOUS
  <1>2. /\ v \in Seq(Blocks) /\ Len(v) = n /\ \A i \in 1 .. Len(v) : v[i] = m[i]
    OBVIOUS
  <1>3. Len(x) \in Nat /\ \A i \in 1 .. Len(x) : i + n \in n + 1 .. e /\ x[i] = m[i + n]
    <2> HIDE DEF e
    <2>1. /\ x \in Seq(Blocks)
          /\ \A i \in 1 .. Len(x) : i + n \in n + 1 .. e /\ x[i] = m[i + n]
      BY <1>1, SubSeqIs
    <2> HIDE DEF x
    <2> QED BY <2>1
  <1> HIDE DEF x, v
  <1> SUFFICES ASSUME NEW i \in 1 .. Len(x), Extends(bk, x[i])
               PROVE \E c : IsParent(bk, x[i], c) /\ \A j \in 1 .. i : x[j] # c
    BY DEF QueueOK, x
  <1>4. i + n \in 1 .. e /\ x[i] = m[i + n] /\ x[i] \in Blocks
    BY <1>1, <1>3
  <1>5. bk[x[i]] = bh[x[i]] /\ Extends(bh, m[i + n])
    BY <1>4 DEF Extends, v
  <1>6. PICK c : IsParent(bh, m[i + n], c) /\ \A j \in 1 .. i + n : m[j] # c
    BY <1>4, <1>5 DEF QueueOK
  <1>7. c \notin ToSet(v)
    <2> SUFFICES ASSUME c \in ToSet(v) PROVE FALSE
      OBVIOUS
    <2>1. PICK j \in 1 .. Len(v) : c = v[j]
      BY <1>2, MembersOf
    <2>2. j \in 1 .. i + n /\ c = m[j]
      BY <1>2, <1>4, <2>1
    <2> QED BY <1>6, <2>2
  <1>8. IsParent(bk, x[i], c)
    BY <1>4, <1>5, <1>6, <1>7 DEF IsParent, v
  <1>9. ASSUME NEW j \in 1 .. i PROVE x[j] # c
    <2>1. j \in 1 .. Len(x) /\ j + n \in 1 .. i + n
      BY <1>3
    <2> QED BY <1>3, <1>6, <2>1
  <1> QED BY <1>8, <1>9

(* Blocks z may be appended to the queue m: a prefix is in use or later in  *)
(* z.                                                                       *)
Backed(bh, m, z) ==
  \A k \in 1 .. Len(z) : Extends(bh, z[k]) =>
    \E c : IsParent(bh, z[k], c) /\ c \notin ToSet(m) /\ \A j \in 1 .. k : z[j] # c

(* Blocks freed behind the queue in the order of a reversed table.          *)
LEMMA QueueFree ==
  ASSUME NEW bh, NEW a \in Seq(Blocks), NEW m \in Seq(Blocks), NEW z \in Seq(Blocks), QueueOK(bh, m),
         \A b \in ToSet(a) : bh[b] = NoHash, Backed(bh, m, z)
  PROVE QueueOK(bh, (a \o m) \o z)
  <1> DEFINE y == a \o m
             q == y \o z
  <1>1. /\ y \in Seq(Blocks) /\ Len(y) = Len(a) + Len(m)
        /\ \A i \in 1 .. Len(a) : y[i] = a[i]
        /\ \A i \in 1 .. Len(y) : i > Len(a) => i - Len(a) \in 1 .. Len(m) /\ y[i] = m[i - Len(a)]
        /\ ToSet(y) = ToSet(a) \cup ToSet(m)
    BY JoinIs
  <1> HIDE DEF y
  <1>2. /\ q \in Seq(Blocks) /\ Len(q) = Len(y) + Len(z)
        /\ \A i \in 1 .. Len(y) : q[i] = y[i]
        /\ \A i \in 1 .. Len(q) : i > Len(y) => i - Len(y) \in 1 .. Len(z) /\ q[i] = z[i - Len(y)]
        /\ ToSet(q) = ToSet(y) \cup ToSet(z)
    <2>1. q = y \o z
      OBVIOUS
    <2>2. y \in Seq(Blocks)
      BY <1>1
    <2> HIDE DEF q
    <2> QED BY <2>1, <2>2, JoinIs
  <1> HIDE DEF q
  <1>3. Len(a) \in Nat /\ Len(m) \in Nat /\ Len(z) \in Nat /\ Len(y) \in Nat /\ Len(q) \in Nat
    BY <1>1, <1>2
  <1>4. \A i \in 1 .. Len(a) : a[i] \in ToSet(a)
    BY MembersOf
  <1> SUFFICES ASSUME NEW i \in 1 .. Len(q), Extends(bh, q[i])
               PROVE \E c : IsParent(bh, q[i], c) /\ \A j \in 1 .. i : q[j] # c
    BY DEF QueueOK, q, y
  <1>5. CASE i > Len(y)
    <2>1. i - Len(y) \in 1 .. Len(z) /\ q[i] = z[i - Len(y)]
      BY <1>2, <1>5
    <2>2. PICK c : /\ IsParent(bh, z[i - Len(y)], c) /\ c \notin ToSet(m)
                   /\ \A j \in 1 .. i - Len(y) : z[j] # c
      BY <1>2, <1>5, <2>1 DEF Backed
    <2>3. c \notin ToSet(y)
      BY <1>1, <2>2 DEF IsParent
    <2>4. \A j \in 1 .. Len(y) : y[j] \in ToSet(y)
      BY <1>1, MembersOf
    <2>5. ASSUME NEW j \in 1 .. i PROVE q[j] # c
      <3>1. CASE j > Len(y)
        <4>1. j \in 1 .. Len(q) /\ j - Len(y) \in 1 .. i - Len(y)
          BY <1>3, <3>1
        <4> QED BY <1>2, <2>2, <3>1, <4>1
      <3>2. CASE ~(j > Len(y))
        <4>1. j \in 1 .. Len(y)
          BY <1>3, <3>2
        <4> QED BY <1>2, <2>3, <2>4, <4>1
      <3> QED BY <3>1, <3>2
    <2> QED BY <2>1, <2>2, <2>5
  <1>6. CASE ~(i > Len(y))
    <2>1. i \in 1 .. Len(y) /\ q[i] = y[i]
      BY <1>2, <1>3, <1>6
    <2>2. i > Len(a)
      <3> SUFFICES ASSUME ~(i > Len(a)) PROVE FALSE
        OBVIOUS
      <3>1. i \in 1 .. Len(a)
        BY <1>3
      <3> QED BY <1>1, <1>4, <2>1, <3>1 DEF Extends
    <2>3. i - Len(a) \in 1 .. Len(m) /\ q[i] = m[i - Len(a)]
      BY <1>1, <2>1, <2>2
    <2>4. PICK c : IsParent(bh, m[i - Len(a)], c) /\ \A j \in 1 .. i - Len(a) : m[j] # c
      BY <2>3 DEF QueueOK
    <2>5. c \notin ToSet(a)
      BY <2>4 DEF IsParent
    <2>6. ASSUME NEW j \in 1 .. i PROVE q[j] # c
      <3>1. j \in 1 .. Len(y) /\ q[j] = y[j]
        BY <1>2, <1>3, <2>1
      <3>2. CASE j > Len(a)
        <4>1. j - Len(a) \in 1 .. i - Len(a) /\ q[j] = m[j - Len(a)]
          BY <1>1, <1>3, <3>1, <3>2
        <4> QED BY <2>4, <4>1
      <3>3. CASE ~(j > Len(a))
        <4>1. j \in 1 .. Len(a)
          BY <1>3, <3>3
        <4> QED BY <1>1, <1>4, <2>5, <3>1, <4>1
      <3> QED BY <3>2, <3>3
    <2> QED BY <2>3, <2>4, <2>6
  <1> QED BY <1>5, <1>6

(* The hash before the i-th of a request, and what it takes to have one.    *)
LEMMA ParentIs ==
  ASSUME NEW r \in Requests, NEW i \in 1 .. Len(Tokens[r]) \div BlockSize,
         Len(block_hashes(r)[i]) > BlockSize
  PROVE /\ i - 1 \in 1 .. Len(Tokens[r]) \div BlockSize
        /\ Parent(block_hashes(r)[i]) = block_hashes(r)[i - 1]
  <1> DEFINE n == Len(Tokens[r]) \div BlockSize
             T == Tokens[r]
  <1>1. /\ T \in Seq(ToSet(T)) /\ Len(T) \in Nat /\ n \in Nat /\ n * BlockSize <= Len(T)
        /\ BlockSize \in Nat /\ BlockSize >= 1
    BY RequestConstants, Constants
  <1>2. block_hashes(r)[i] = SubSeq(T, 1, i * BlockSize) /\ Len(block_hashes(r)[i]) = i * BlockSize
    BY HashIs DEF block_hashes
  <1>3. i \in 1 .. n
    OBVIOUS
  <1> HIDE DEF n
  <1>4. i - 1 \in 1 .. n
    <2>1. i # 1
      <3> SUFFICES ASSUME i = 1 PROVE FALSE
        OBVIOUS
      <3>1. i * BlockSize = BlockSize
        BY <1>1, OneTimes
      <3> QED BY <1>1, <1>2, <3>1
    <2> QED BY <1>1, <1>3, <2>1
  <1>5. block_hashes(r)[i - 1] = SubSeq(T, 1, (i - 1) * BlockSize)
    BY <1>4 DEF block_hashes, n
  <1>6. /\ (i - 1) * BlockSize = i * BlockSize - BlockSize /\ i * BlockSize \in Nat
        /\ (i - 1) * BlockSize \in Nat /\ i * BlockSize <= n * BlockSize
    <2>1. i \in Nat /\ i <= n /\ i - 1 \in Nat
      BY <1>1, <1>4, <1>3
    <2>2. i * BlockSize <= n * BlockSize
      BY <1>1, <2>1, Times
    <2>3. (i - 1) * BlockSize = i * BlockSize - BlockSize
      BY <1>1, <2>1, OneTimes
    <2>4. i * BlockSize \in Nat /\ (i - 1) * BlockSize \in Nat
      BY <1>1, <2>1
    <2> QED BY <2>2, <2>3, <2>4
  <1> HIDE DEF T
  <1>7. SubSeq(SubSeq(T, 1, i * BlockSize), 1, (i - 1) * BlockSize) = SubSeq(T, 1, (i - 1) * BlockSize)
    <2>1. PICK a \in Nat : a = i * BlockSize
      BY <1>6
    <2>2. PICK b \in Nat : b = (i - 1) * BlockSize
      BY <1>6
    <2>3. b <= a /\ a <= Len(T)
      BY <1>1, <1>6, <2>1, <2>2
    <2>4. SubSeq(SubSeq(T, 1, a), 1, b) = SubSeq(T, 1, b)
      BY <1>1, <2>3, PrefixIs
    <2> QED BY <2>1, <2>2, <2>4
  <1> QED BY <1>2, <1>4, <1>5, <1>6, <1>7 DEF Parent, n
-----------------------------------------------------------------------------
(* The operations of the manager, on the pool and all the tables            *)

(* HashesOK carries over to a table with no other hashes.                   *)
LEMMA HashesMove ==
  ASSUME NEW p, NEW q, NEW s, NEW w, NEW r, NEW d, HashesOK(p, s, r, d),
         \A i \in 1 .. Len(w) : w[i] # null_block /\ q.block_hash[w[i]] # NoHash =>
           i \in 1 .. Len(s) /\ w[i] = s[i] /\ q.block_hash[w[i]] = p.block_hash[w[i]]
  PROVE HashesOK(q, w, r, d)
  BY DEF HashesOK

(* The conjuncts of Core.                                                   *)
LEMMA CoreParts ==
  ASSUME NEW p, NEW t, NEW d, Core(p, t, d), NEW r \in Requests
  PROVE /\ TablesOK(t) /\ PoolOK(p, t) /\ HashesOK(p, t[r], r, d[r])
        /\ t[r] \in Seq(Blocks) /\ Len(t[r]) \in Nat /\ Apart(t[r])
        /\ SlidingWindow = 0 => Linked(p, t, d)
  <1>1. TablesOK(t) /\ PoolOK(p, t) /\ HashesOK(p, t[r], r, d[r])
    BY DEF Core
  <1>2. t[r] \in Seq(Blocks) /\ Apart(t[r])
    BY <1>1 DEF TablesOK
  <1>3. SlidingWindow = 0 => Linked(p, t, d)
    BY DEF Core
  <1> QED BY <1>1, <1>2, <1>3

(* remove_skipped_blocks.                                                   *)
Trimmed(s, w, processed) ==
  /\ w \in Seq(Blocks) /\ Len(w) = Len(s)
  /\ \A i \in 1 .. Len(s) :
       \/ w[i] = s[i]
       \/ w[i] = null_block /\ i <= get_num_skipped_tokens(processed) \div BlockSize

(* With full attention no block is skipped.                                 *)
LEMMA SkipsNothing ==
  ASSUME NEW p, NEW s \in Seq(Blocks), NEW n, SlidingWindow = 0
  PROVE LET k == remove_skipped_blocks(p, s, n) IN k.pool = p /\ k.blocks = s
  <1> DEFINE k == remove_skipped_blocks(p, s, n)
             last == Lower(get_num_skipped_tokens(n) \div BlockSize, Len(s))
             nulls == {i \in 1 .. last : s[i] = null_block}
  <1>1. last = 0
    <2>1. 0 \div BlockSize = 0
      BY Constants
    <2> QED BY <2>1 DEF get_num_skipped_tokens, Lower
  <1>2. nulls = {}
    BY <1>1
  <1>3. k.pool = (IF Reverse(SubSeq(s, 1, 0)) = <<>> THEN p ELSE free_blocks(p, Reverse(SubSeq(s, 1, 0))))
        /\ k.blocks = [i \in 1 .. Len(s) |-> IF i \in 1 .. 0 THEN null_block ELSE s[i]]
    <2>1. 0 + 1 = 1
      OBVIOUS
    <2> QED BY <1>1, <1>2, <2>1 DEF remove_skipped_blocks
  <1>4. SubSeq(s, 1, 0) = <<>>
    OBVIOUS
  <1>5. Reverse(<<>>) = <<>>
    BY DEF Reverse
  <1>6. k.blocks = s
    BY <1>3
  <1> QED BY <1>3, <1>4, <1>5, <1>6

(* remove_skipped_blocks keeps Core.                                        *)
LEMMA CoreSkip ==
  ASSUME NEW p, NEW t, NEW d, Core(p, t, d), NEW r \in Requests, NEW processed \in Nat
  PROVE LET k == remove_skipped_blocks(p, t[r], processed)
            u == [t EXCEPT ![r] = k.blocks] IN
        Core(k.pool, u, d) /\ SamePool(p, k.pool) /\ Trimmed(t[r], k.blocks, processed)
  <1> DEFINE k == remove_skipped_blocks(p, t[r], processed)
             u == [t EXCEPT ![r] = k.blocks]
  <1>1. TablesOK(t) /\ PoolOK(p, t)
    BY CoreParts
  <1>2. /\ TablesOK(u) /\ PoolOK(k.pool, u)
        /\ k.pool.block_hash = p.block_hash /\ k.pool.cached = p.cached /\ k.pool.view = p.view
        /\ k.blocks \in Seq(Blocks) /\ Len(k.blocks) = Len(t[r])
        /\ \A i \in 1 .. Len(t[r]) :
             \/ k.blocks[i] = t[r][i]
             \/ k.blocks[i] = null_block /\ i <= get_num_skipped_tokens(processed) \div BlockSize
    BY <1>1, SkippedOK
  <1>3. u[r] = k.blocks /\ \A y \in Requests \ {r} : u[y] = t[y]
    BY <1>1 DEF TablesOK
  <1> HIDE DEF k, u
  <1>4. ASSUME NEW y \in Requests PROVE HashesOK(k.pool, u[y], y, d[y])
    <2>1. HashesOK(p, t[y], y, d[y])
      BY DEF Core
    <2>2. \A i \in 1 .. Len(u[y]) : u[y][i] # null_block => i \in 1 .. Len(t[y]) /\ u[y][i] = t[y][i]
      <3>1. CASE y = r
        BY <1>2, <1>3, <3>1
      <3>2. CASE y # r
        BY <1>3, <3>2
      <3> QED BY <3>1, <3>2
    <2> QED BY <1>2, <2>1, <2>2, HashesMove
  <1>5. ASSUME SlidingWindow = 0 PROVE Linked(k.pool, u, d)
    <2>1. k.blocks = t[r] /\ k.pool = p
      <3>1. t[r] \in Seq(Blocks)
        BY CoreParts
      <3> QED BY <1>5, <3>1, SkipsNothing DEF k
    <2>2. u = t
      BY <1>1, <2>1 DEF TablesOK, u
    <2>3. Linked(p, t, d)
      BY <1>5 DEF Core
    <2> QED BY <2>1, <2>2, <2>3
  <1> QED BY <1>2, <1>4, <1>5 DEF Core, SamePool, Trimmed, k, u

(* In a table the block of an extension follows one of its prefix.          *)
LEMMA BlockBefore ==
  ASSUME NEW p, NEW t, NEW d, Core(p, t, d), NEW r \in Requests, SlidingWindow = 0,
         NEW i \in 1 .. Len(t[r]), Extends(p.block_hash, t[r][i])
  PROVE /\ i - 1 \in 1 .. Len(t[r]) /\ t[r][i - 1] # null_block /\ t[r][i - 1] \in ToSet(t[r])
        /\ IsParent(p.block_hash, t[r][i], t[r][i - 1])
  <1> DEFINE s == t[r]
             bh == p.block_hash
             c == s[i - 1]
  <1>1. /\ HashesOK(p, s, r, d[r]) /\ s \in Seq(Blocks) /\ Len(s) \in Nat /\ Linked(p, t, d)
    BY CoreParts
  <1>2. ChainOK(p, s, d[r])
    BY <1>1 DEF Linked
  <1> HIDE DEF s
  <1>3. /\ i <= d[r] /\ i \in 1 .. Len(Tokens[r]) \div BlockSize /\ i \in 1 .. Len(s)
        /\ bh[s[i]] = block_hashes(r)[i] /\ Extends(bh, s[i])
    <2>1. i \in 1 .. Len(s) /\ Extends(bh, s[i])
      BY DEF s
    <2>2. s[i] # null_block /\ bh[s[i]] # NoHash
      BY <1>2, <2>1 DEF ChainOK, Extends
    <2>3. i <= d[r] /\ i <= Len(Tokens[r]) \div BlockSize /\ bh[s[i]] = block_hashes(r)[i]
      BY <1>1, <2>1, <2>2 DEF HashesOK
    <2>4. Len(Tokens[r]) \div BlockSize \in Nat
      BY RequestConstants
    <2> QED BY <2>1, <2>3, <2>4
  <1>4. /\ i - 1 \in 1 .. Len(Tokens[r]) \div BlockSize
        /\ Parent(bh[s[i]]) = block_hashes(r)[i - 1]
    <2>1. Len(block_hashes(r)[i]) > BlockSize
      BY <1>3 DEF Extends
    <2> QED BY <1>3, <2>1, ParentIs
  <1>5. i - 1 \in 1 .. Len(s) /\ i - 1 <= d[r]
    BY <1>1, <1>2, <1>3, <1>4 DEF ChainOK
  <1>6. c # null_block /\ bh[c] # NoHash /\ c \in Blocks /\ c \in ToSet(s)
    BY <1>1, <1>2, <1>5, MembersOf DEF ChainOK
  <1>7. bh[c] = block_hashes(r)[i - 1]
    BY <1>1, <1>5, <1>6 DEF HashesOK
  <1>8. IsParent(bh, s[i], c)
    BY <1>4, <1>6, <1>7 DEF IsParent
  <1> QED BY <1>5, <1>6, <1>8 DEF s

(* KVCacheManager.free: the blocks that go to the back of the queue, in the *)
(* order of the reversed table, so that an extension is before its prefix.  *)
LEMMA LinkedFree ==
  ASSUME NEW p, NEW t, NEW d, Core(p, t, d), NEW r \in Requests, SlidingWindow = 0, NEW S,
         NEW z, z = Only(Reverse(t[r]), S)
  PROVE Backed(p.block_hash, p.free, z)
  <1> DEFINE s == t[r]
             f == Reverse(s)
             bh == p.block_hash
  <1>1. /\ TablesOK(t) /\ PoolOK(p, t) /\ s \in Seq(Blocks) /\ Len(s) \in Nat /\ Apart(s)
    BY CoreParts
  <1>2. f \in Seq(Blocks) /\ Len(f) = Len(s)
    BY <1>1, ReverseIs
  <1>3. \A i \in 1 .. Len(f) : f[i] = s[(Len(s) - i) + 1]
    BY <1>1, <1>2 DEF Reverse
  <1> HIDE DEF f
  <1>4. z = Only(f, S)
    BY DEF f
  <1>5. PICK o : /\ \A k \in 1 .. Len(z) : o[k] \in 1 .. Len(f) /\ z[k] = f[o[k]]
                 /\ \A j, k \in 1 .. Len(z) : j < k => o[j] < o[k]
    BY <1>2, <1>4, OnlyOrder
  <1>6. Len(z) \in Nat
    BY <1>2, <1>4, OnlyIs
  <1> SUFFICES ASSUME NEW k \in 1 .. Len(z), Extends(bh, z[k])
               PROVE \E c : /\ IsParent(bh, z[k], c) /\ c \notin ToSet(p.free)
                            /\ \A j \in 1 .. k : z[j] # c
    BY DEF Backed
  <1> HIDE DEF s
  <1> DEFINE i == (Len(s) - o[k]) + 1
             c == s[i - 1]
  <1>7. i \in 1 .. Len(s) /\ i \in Int /\ z[k] = s[i]
    <2>1. o[k] \in 1 .. Len(f) /\ z[k] = f[o[k]]
      BY <1>5
    <2>2. f[o[k]] = s[(Len(s) - o[k]) + 1]
      BY <1>3, <2>1
    <2>3. i \in 1 .. Len(s) /\ i \in Int
      BY <1>1, <1>2, <2>1
    <2> QED BY <2>1, <2>2, <2>3
  <1> HIDE DEF i
  <1>8. i - 1 \in 1 .. Len(s) /\ c # null_block /\ c \in ToSet(s) /\ IsParent(bh, z[k], c)
    BY <1>7, BlockBefore DEF s
  <1>9. c \notin ToSet(p.free)
    BY <1>1, <1>8, HeldNotFree DEF s
  <1>10. ASSUME NEW j \in 1 .. k PROVE z[j] # c
    <2>1. j \in 1 .. Len(z) /\ (j < k \/ j = k)
      BY <1>6
    <2>2. o[j] \in 1 .. Len(f) /\ o[k] \in 1 .. Len(f) /\ (o[j] < o[k] \/ o[j] = o[k])
      BY <1>5, <2>1
    <2> DEFINE m == (Len(s) - o[j]) + 1
    <2>3. m \in 1 .. Len(s) /\ i <= m /\ m \in Int
      BY <1>1, <1>2, <2>2 DEF i
    <2>4. z[j] = s[m]
      BY <1>3, <1>5, <2>1, <2>2
    <2> HIDE DEF m
    <2>5. m # i - 1
      BY <1>7, <2>3
    <2> QED BY <1>1, <1>8, <2>3, <2>4, <2>5 DEF Apart
  <1> QED BY <1>8, <1>9, <1>10

(* free_blocks: those without a hash in front, the others at the back.      *)
LEMMA QueueAfterFree ==
  ASSUME NEW p, NEW t, NEW d, Core(p, t, d), NEW r \in Requests, SlidingWindow = 0
  PROVE QueueOK(p.block_hash, free_blocks(p, Reverse(t[r])).free)
  <1> DEFINE f == Reverse(t[r])
             S == ToSet(f) \ {null_block}
             zero == {b \in S : p.ref_cnt[b] = 1}
             to_front == {b \in zero : p.block_hash[b] = NoHash /\ EnableCaching}
             a == Only(f, to_front)
             z == Only(f, zero \ to_front)
  <1>1. /\ PoolOK(p, t) /\ t[r] \in Seq(Blocks) /\ Linked(p, t, d)
    BY CoreParts
  <1>2. PoolType(p) /\ p.free \in Seq(Blocks)
    BY <1>1, PoolParts, PoolFields
  <1>3. f \in Seq(Blocks)
    BY <1>1, ReverseIs
  <1>4. free_blocks(p, f).free = (a \o p.free) \o z
    BY <1>2 DEF free_blocks, append_n, prepend_n, PoolType
  <1>5. \A b \in to_front : p.block_hash[b] = NoHash
    OBVIOUS
  <1> HIDE DEF f, to_front, zero
  <1>6. a \in Seq(Blocks) /\ ToSet(a) = ToSet(f) \cap to_front
    BY <1>3, OnlyIs
  <1>7. z \in Seq(Blocks)
    BY <1>3, OnlyIs
  <1>8. Backed(p.block_hash, p.free, z)
    <2>1. PICK X : X = zero \ to_front
      OBVIOUS
    <2>2. z = Only(Reverse(t[r]), X)
      BY <2>1 DEF f
    <2> HIDE DEF z
    <2> QED BY <2>2, LinkedFree
  <1> HIDE DEF a, z
  <1>9. \A b \in ToSet(a) : p.block_hash[b] = NoHash
    BY <1>5, <1>6
  <1>10. QueueOK(p.block_hash, (a \o p.free) \o z)
    BY <1>1, <1>2, <1>6, <1>7, <1>8, <1>9, QueueFree DEF Linked
  <1> QED BY <1>4, <1>10 DEF f

(* KVCacheManager.free.                                                     *)
LEMMA CoreFree ==
  ASSUME NEW p, NEW t, NEW d \in [Requests -> Int], Core(p, t, d), NEW r \in Requests
  PROVE LET q == free_blocks(p, Reverse(t[r])) IN
        Core(q, [t EXCEPT ![r] = <<>>], [d EXCEPT ![r] = -1]) /\ SamePool(p, q)
  <1> DEFINE q == free_blocks(p, Reverse(t[r]))
             f == Reverse(t[r])
             u == [t EXCEPT ![r] = <<>>]
             e == [d EXCEPT ![r] = -1]
  <1>1. /\ TablesOK(t) /\ PoolOK(p, t) /\ t[r] \in Seq(Blocks) /\ Apart(t[r])
    BY CoreParts
  <1>2. f \in Seq(Blocks) /\ ToSet(f) = ToSet(t[r]) /\ Apart(f)
    BY <1>1, ReverseIs
  <1>3. <<>> \in Seq(Blocks) /\ Apart(<<>>) /\ ToSet(<<>>) = {}
    BY NoMembers
  <1>4. /\ ToSet(f) \ {null_block} \subseteq ToSet(t[r])
        /\ ToSet(<<>>) \ {null_block} = (ToSet(t[r]) \ ToSet(f)) \ {null_block}
    BY <1>2, <1>3
  <1>5. u[r] = <<>> /\ \A y \in Requests \ {r} : u[y] = t[y] /\ e[y] = d[y]
    BY <1>1 DEF TablesOK
  <1> HIDE DEF f
  <1>6. TablesOK(u) /\ PoolOK(free_blocks(p, f), u) /\ SamePool(p, free_blocks(p, f))
    <2>1. Gives(t, r, f, <<>>)
      BY <1>1, <1>2, <1>3, <1>4 DEF Gives
    <2> QED BY <1>1, <1>2, <1>3, <2>1, FreeOK
  <1>7. q = free_blocks(p, f)
    BY DEF f
  <1> HIDE DEF q, u, e
  <1>8. ASSUME NEW y \in Requests PROVE HashesOK(q, u[y], y, e[y])
    <2>1. CASE y = r
      BY <1>5, <2>1, NoMembers DEF HashesOK
    <2>2. CASE y # r
      <3>1. HashesOK(p, t[y], y, d[y])
        BY DEF Core
      <3> QED BY <1>5, <1>6, <1>7, <2>2, <3>1 DEF HashesOK, SamePool
    <2> QED BY <2>1, <2>2
  <1>9. ASSUME SlidingWindow = 0 PROVE Linked(q, u, e)
    <2>1. QueueOK(q.block_hash, q.free)
      <3>1. QueueOK(p.block_hash, free_blocks(p, Reverse(t[r])).free)
        BY <1>9, QueueAfterFree
      <3> QED BY <1>6, <1>7, <3>1 DEF SamePool, f
    <2>2. ASSUME NEW y \in Requests PROVE ChainOK(q, u[y], e[y])
      <3>1. CASE y = r
        <4>1. e[r] = -1
          BY DEF e
        <4> QED BY <1>5, <3>1, <4>1, NoMembers DEF ChainOK
      <3>2. CASE y # r
        <4>1. ChainOK(p, t[y], d[y])
          BY <1>9, CoreParts DEF Linked
        <4> QED BY <1>5, <1>6, <1>7, <3>2, <4>1 DEF ChainOK, SamePool
      <3> QED BY <3>1, <3>2
    <2> QED BY <2>1, <2>2 DEF Linked
  <1> QED BY <1>6, <1>7, <1>8, <1>9 DEF Core, SamePool, q, u, e

(* allocate_new_blocks.                                                     *)
Extended(s, w, n) ==
  /\ w \in Seq(Blocks) /\ Len(w) = Len(s) + n
  /\ \A i \in 1 .. Len(s) : w[i] = s[i]
  /\ \A i \in 1 .. Len(w) : i > Len(s) => w[i] # null_block

(* Of the blocks outside the table w, q caches no more than p.              *)
NoMore(p, q, w) ==
  \A b \in Blocks : b \notin ToSet(w) /\ q.block_hash[b] # NoHash => q.block_hash[b] = p.block_hash[b]

(* allocate_new_blocks keeps Core.                                          *)
LEMMA CoreNew ==
  ASSUME NEW p, NEW t, NEW d, Core(p, t, d), NEW r \in Requests,
         NEW n \in Nat, n <= Len(p.free)
  PROVE LET w == t[r] \o NewBlocks(p, n)
            q == get_new_blocks(p, n) IN
        /\ Core(q, [t EXCEPT ![r] = w], d) /\ Extended(t[r], w, n) /\ NoMore(p, q, w)
        /\ Believed(p) => Believed(q)
  <1> DEFINE v == NewBlocks(p, n)
             w == t[r] \o v
             q == get_new_blocks(p, n)
             u == [t EXCEPT ![r] = w]
  <1>1. TablesOK(t) /\ PoolOK(p, t) /\ t[r] \in Seq(Blocks)
    BY CoreParts
  <1>2. TablesOK(u) /\ PoolOK(q, u) /\ New(p, q, v, n)
    BY <1>1, NewOK
  <1>3. u[r] = w /\ \A y \in Requests \ {r} : u[y] = t[y]
    BY <1>1 DEF TablesOK
  <1> HIDE DEF v, q, u
  <1>4. /\ v \in Seq(Blocks) /\ Len(v) = n
        /\ \A b \in ToSet(v) : b \in ToSet(p.free)
        /\ \A b \in Blocks : q.block_hash[b] = IF b \in ToSet(v) THEN NoHash ELSE p.block_hash[b]
        /\ Believed(p) => Believed(q)
    BY <1>2 DEF New
  <1>5. \A b \in ToSet(v) : b # null_block /\ \A y \in Requests : b \notin ToSet(t[y])
    BY <1>1, <1>4, FreeNotHeld
  <1>6. \A i \in 1 .. Len(v) : v[i] \in ToSet(v) /\ v[i] \in Blocks
    BY <1>4, MembersOf
  <1>7. /\ w \in Seq(Blocks) /\ Len(w) = Len(t[r]) + Len(v)
        /\ \A i \in 1 .. Len(t[r]) : w[i] = t[r][i]
        /\ \A i \in 1 .. Len(w) : i > Len(t[r]) => i - Len(t[r]) \in 1 .. Len(v) /\ w[i] = v[i - Len(t[r])]
        /\ ToSet(w) = ToSet(t[r]) \cup ToSet(v)
    <2>1. PICK s \in Seq(Blocks) : s = t[r]
      BY <1>1
    <2>2. w = s \o v /\ v \in Seq(Blocks)
      BY <1>4, <2>1
    <2> HIDE DEF w
    <2>3. /\ w \in Seq(Blocks) /\ Len(w) = Len(s) + Len(v)
          /\ \A i \in 1 .. Len(s) : w[i] = s[i]
          /\ \A i \in 1 .. Len(w) : i > Len(s) => i - Len(s) \in 1 .. Len(v) /\ w[i] = v[i - Len(s)]
          /\ ToSet(w) = ToSet(s) \cup ToSet(v)
      BY <2>2, JoinIs
    <2> QED BY <2>1, <2>3
  <1> HIDE DEF w
  <1>8. Extended(t[r], w, n)
    BY <1>4, <1>5, <1>6, <1>7 DEF Extended
  <1>9. NoMore(p, q, w)
    BY <1>4 DEF NoMore
  <1>10. ASSUME NEW y \in Requests PROVE HashesOK(q, u[y], y, d[y])
    <2>1. HashesOK(p, t[y], y, d[y]) /\ t[y] \in Seq(Blocks)
      BY CoreParts
    <2>2. \A i \in 1 .. Len(t[y]) : t[y][i] \in Blocks /\ t[y][i] \in ToSet(t[y])
      BY <2>1, MembersOf
    <2>3. \A i \in 1 .. Len(t[y]) : q.block_hash[t[y][i]] = p.block_hash[t[y][i]]
      BY <1>4, <1>5, <2>2
    <2>4. CASE y = r
      <3>1. ASSUME NEW i \in 1 .. Len(w), q.block_hash[w[i]] # NoHash
            PROVE i \in 1 .. Len(t[r]) /\ w[i] = t[r][i] /\ q.block_hash[w[i]] = p.block_hash[w[i]]
        <4>1. Len(t[r]) \in Nat
          BY <1>1
        <4>2. CASE i > Len(t[r])
          BY <1>4, <1>6, <1>7, <3>1, <4>2
        <4>3. CASE ~(i > Len(t[r]))
          <5>1. i \in 1 .. Len(t[r])
            BY <4>1, <4>3
          <5>2. w[i] = t[r][i]
            BY <1>7, <5>1
          <5>3. q.block_hash[t[r][i]] = p.block_hash[t[r][i]]
            BY <2>3, <2>4, <5>1
          <5> QED BY <5>1, <5>2, <5>3
        <4> QED BY <4>2, <4>3
      <3> QED BY <1>3, <2>1, <2>4, <3>1, HashesMove
    <2>5. CASE y # r
      BY <1>3, <2>1, <2>3, <2>5, HashesMove
    <2> QED BY <2>4, <2>5
  <1>11. ASSUME SlidingWindow = 0 PROVE Linked(q, u, d)
    <2>1. Linked(p, t, d)
      BY <1>11 DEF Core
    <2>2. QueueOK(q.block_hash, q.free)
      <3>1. q.free = SubSeq(p.free, n + 1, Len(p.free)) /\ v = SubSeq(p.free, 1, n)
        BY <1>2 DEF New, v, NewBlocks
      <3>2. p.free \in Seq(Blocks)
        BY <1>1, PoolParts, PoolFields
      <3>3. \A b \in Blocks :
              q.block_hash[b] = IF b \in ToSet(SubSeq(p.free, 1, n)) THEN NoHash ELSE p.block_hash[b]
        BY <1>4, <3>1
      <3>4. QueueOK(q.block_hash, SubSeq(p.free, n + 1, Len(p.free)))
        BY <2>1, <3>2, <3>3, QueuePop DEF Linked
      <3> QED BY <3>1, <3>4
    <2>3. ASSUME NEW y \in Requests PROVE ChainOK(q, u[y], d[y])
      <3>1. ChainOK(p, t[y], d[y]) /\ t[y] \in Seq(Blocks) /\ Len(t[y]) \in Nat
        BY <2>1, CoreParts DEF Linked
      <3>2. \A i \in 1 .. Len(t[y]) : t[y][i] \in Blocks /\ t[y][i] \in ToSet(t[y])
        BY <3>1, MembersOf
      <3>3. \A i \in 1 .. Len(t[y]) : q.block_hash[t[y][i]] = p.block_hash[t[y][i]]
        BY <1>4, <1>5, <3>2
      <3>4. CASE y = r
        <4>1. d[r] \in Int /\ d[r] <= Len(t[r]) /\ Len(w) = Len(t[r]) + n
          BY <1>8, <3>1, <3>4 DEF ChainOK, Extended
        <4>2. d[r] <= Len(w)
          BY <3>1, <3>4, <4>1
        <4>3. ASSUME NEW i \in 1 .. Len(w)
              PROVE w[i] # null_block /\ (i <= d[r] => q.block_hash[w[i]] # NoHash)
          <5>1. CASE i > Len(t[r])
            <6>1. w[i] # null_block /\ ~(i <= d[r])
              BY <1>8, <3>1, <3>4, <4>1, <5>1 DEF Extended
            <6> QED BY <6>1
          <5>2. CASE ~(i > Len(t[r]))
            <6>1. i \in 1 .. Len(t[r])
              BY <3>1, <3>4, <5>2
            <6>2. w[i] = t[r][i]
              BY <1>8, <6>1 DEF Extended
            <6> QED BY <3>1, <3>3, <3>4, <6>1, <6>2 DEF ChainOK
          <5> QED BY <5>1, <5>2
        <4> QED BY <1>3, <3>4, <4>1, <4>2, <4>3 DEF ChainOK
      <3>5. CASE y # r
        BY <1>3, <3>1, <3>3, <3>5 DEF ChainOK
      <3> QED BY <3>4, <3>5
    <2> QED BY <2>2, <2>3 DEF Linked
  <1> QED BY <1>2, <1>4, <1>8, <1>9, <1>10, <1>11 DEF Core, v, w, q, u
-----------------------------------------------------------------------------
(* Prefix hits                                                              *)

(* s takes from the hits of m blocks; null is only what no window reaches.  *)
Reach(n) == get_num_skipped_tokens(n * BlockSize) \div BlockSize
Part(hits, m, s) ==
  /\ s \in Seq(Blocks) /\ Len(s) <= m
  /\ \A i \in 1 .. Len(s) : \/ s[i] = hits[i] /\ s[i] # null_block
                            \/ s[i] = null_block /\ i <= Reach(Len(s))

IsRun(hits, m, k) ==
  (\A i \in 1 .. k : hits[i] # null_block) /\ (k < m => hits[k + 1] = null_block)

(* The run that find_longest_cache_hit counts exists.                       *)
LEMMA RunShown ==
  ASSUME NEW m \in Nat, NEW hits
  PROVE LET n == CHOOSE k \in 0 .. m : /\ \A i \in 1 .. k : hits[i] # null_block
                                       /\ k < m => hits[k + 1] = null_block
        IN n \in 0 .. m /\ \A i \in 1 .. n : hits[i] # null_block
  <1> DEFINE B == {i \in 1 .. m : hits[i] = null_block}
  <1>1. \E k \in 0 .. m : IsRun(hits, m, k)
    <2>1. CASE B = {}
      <3>1. m \in 0 .. m /\ IsRun(hits, m, m)
        BY <2>1 DEF IsRun
      <3> QED BY <3>1
    <2>2. CASE B # {}
      <3>1. IsFiniteSet(B) /\ \A x \in B : x \in Nat
        <4>1. IsFiniteSet(1 .. m)
          BY FS_Interval
        <4>2. B \subseteq 1 .. m
          OBVIOUS
        <4>3. IsFiniteSet(B)
          BY <4>1, <4>2, FS_Subset
        <4> QED BY <4>3
      <3>2. PICK i \in B : \A j \in B : ~(j < i)
        BY <2>2, <3>1, FirstShown
      <3>3. i \in 1 .. m /\ hits[i] = null_block /\ \A j \in 1 .. m : j < i => hits[j] # null_block
        BY <3>2
      <3>4. i - 1 \in 0 .. m /\ i - 1 + 1 = i
        BY <3>3
      <3>5. \A j \in 1 .. i - 1 : j \in 1 .. m /\ j < i
        BY <3>3
      <3>6. IsRun(hits, m, i - 1)
        BY <3>3, <3>4, <3>5 DEF IsRun
      <3> QED BY <3>4, <3>6
    <2> QED BY <2>1, <2>2
  <1> DEFINE n == CHOOSE k \in 0 .. m : IsRun(hits, m, k)
  <1>2. n \in 0 .. m /\ IsRun(hits, m, n)
    BY <1>1
  <1> QED BY <1>2 DEF IsRun

(* A run of hits from the start is part of the hits.                        *)
LEMMA CutPart ==
  ASSUME NEW m \in Nat, NEW hits \in Seq(Blocks), Len(hits) = m, NEW n \in 0 .. m,
         \A i \in 1 .. n : hits[i] # null_block
  PROVE Part(hits, m, SubSeq(hits, 1, n)) /\ Len(SubSeq(hits, 1, n)) = n
  <1>1. n \in Nat /\ n <= Len(hits)
    OBVIOUS
  <1>2. /\ SubSeq(hits, 1, n) \in Seq(Blocks) /\ Len(SubSeq(hits, 1, n)) = n
        /\ \A i \in 1 .. n : SubSeq(hits, 1, n)[i] = hits[i]
    BY <1>1, PrefixIs
  <1> QED BY <1>1, <1>2 DEF Part

(* FullAttentionManager returns part of the hits.                           *)
LEMMA FullHitIs ==
  ASSUME NEW m \in Nat, NEW hits \in Seq(Blocks), Len(hits) = m
  PROVE Part(hits, m, FullHit(hits, m))
  <1> DEFINE n == CHOOSE k \in 0 .. m : /\ \A i \in 1 .. k : hits[i] # null_block
                                        /\ k < m => hits[k + 1] = null_block
             x == IF UseEagle THEN Max0(n - 1) ELSE n
  <1>1. n \in 0 .. m /\ \A i \in 1 .. n : hits[i] # null_block
    BY RunShown
  <1>2. FullHit(hits, m) = SubSeq(hits, 1, x)
    BY DEF FullHit
  <1> HIDE DEF n
  <1>3. x \in 0 .. m /\ x <= n
    BY <1>1 DEF Max0
  <1>4. \A i \in 1 .. x : hits[i] # null_block
    BY <1>1, <1>3
  <1> HIDE DEF x
  <1> QED BY <1>2, <1>3, <1>4, CutPart

(* Positions before the run are outside the window that ends it.            *)
LEMMA BeforeRun ==
  ASSUME NEW n \in Nat, NEW i \in Int, SlidingWindow # 0,
         i <= n - cdiv(SlidingWindow - 1, BlockSize)
  PROVE i <= Reach(n)
  <1> DEFINE c == cdiv(SlidingWindow - 1, BlockSize)
             W == SlidingWindow
  <1>1. BlockSize \in Nat /\ BlockSize >= 1 /\ W \in Nat /\ W >= 2
    BY Constants
  <1>2. c \in Int /\ \A k \in Int : c <= k <=> W - 1 <= k * BlockSize
    BY <1>1, CdivIs
  <1>3. W - 1 <= c * BlockSize /\ c * BlockSize \in Int
    BY <1>1, <1>2
  <1>4. n * BlockSize \in Nat /\ i * BlockSize \in Int
    BY <1>1
  <1>5. i * BlockSize <= n * BlockSize - c * BlockSize
    <2>1. i * BlockSize <= (n - c) * BlockSize
      BY <1>1, <1>2, Times DEF c
    <2>2. (n - c) * BlockSize = n * BlockSize - c * BlockSize
      BY <1>1, <1>2
    <2> QED BY <2>1, <2>2
  <1> HIDE DEF c
  <1>6. i * BlockSize <= n * BlockSize - W + 1
    BY <1>1, <1>3, <1>4, <1>5
  <1> DEFINE g == get_num_skipped_tokens(n * BlockSize)
  <1>7. g = Max0(n * BlockSize - W + 1) /\ g \in Nat /\ g >= n * BlockSize - W + 1
    BY <1>1, <1>4 DEF get_num_skipped_tokens, Max0
  <1> HIDE DEF g, W
  <1>8. i * BlockSize <= g
    BY <1>1, <1>4, <1>6, <1>7
  <1>9. i <= g \div BlockSize
    BY <1>1, <1>7, <1>8, DivBelow
  <1> QED BY <1>9 DEF Reach, g

(* SlidingWindowManager returns part of the hits, null only where the       *)
(* window does not reach.                                                   *)
LEMMA WindowHitIs ==
  ASSUME NEW m \in Nat, NEW hits \in Seq(Blocks), Len(hits) = m, SlidingWindow # 0
  PROVE Part(hits, m, WindowHit(hits, m))
  <1> DEFINE need == _contiguous_blocks_for_hit
             c == cdiv(SlidingWindow - 1, BlockSize)
             Ends == {e \in need .. m : \A i \in e - need + 1 .. e : hits[i] # null_block}
             end == CHOOSE e \in Ends : \A f \in Ends : f <= e
             start == CHOOSE k \in 0 .. m : /\ \A i \in 1 .. k : hits[i] # null_block
                                            /\ k < m => hits[k + 1] = null_block
             run == [i \in 1 .. end |-> IF i > end - need THEN hits[i] ELSE null_block]
             blocks == IF Ends # {} THEN run ELSE SubSeq(hits, 1, start)
  <1>1. WindowHit(hits, m) = IF UseEagle /\ blocks # <<>> THEN SubSeq(blocks, 1, Len(blocks) - 1) ELSE blocks
    BY DEF WindowHit
  <1>2. /\ c \in Int /\ c >= 1 /\ need = IF UseEagle THEN c + 1 ELSE c
    <2>1. BlockSize \in Nat /\ BlockSize >= 1 /\ SlidingWindow \in Nat /\ SlidingWindow >= 2
      BY Constants
    <2>2. c \in Int /\ (c <= 0 <=> SlidingWindow - 1 <= 0 * BlockSize)
      BY <2>1, CdivIs
    <2>3. c >= 1
      BY <2>1, <2>2
    <2>4. need = IF UseEagle THEN c + 1 ELSE c
      BY <2>2 DEF _contiguous_blocks_for_hit
    <2> QED BY <2>2, <2>3, <2>4
  <1>3. need \in Int /\ need >= 1
    BY <1>2
  <1> HIDE DEF need, c
  <1>4. CASE Ends # {}
    <2>1. end \in Ends
      <3>1. Ends \subseteq 1 .. m
        BY <1>3
      <3>2. \E i \in Ends : \A j \in Ends : j <= i
        BY <1>4, <3>1, LastShown
      <3> QED BY <3>2
    <2>2. /\ end \in Nat /\ end >= 1 /\ end >= need /\ end <= m
          /\ \A i \in end - need + 1 .. end : hits[i] # null_block
      <3> HIDE DEF end
      <3>1. end \in need .. m /\ \A i \in end - need + 1 .. end : hits[i] # null_block
        BY <2>1
      <3> QED BY <1>3, <3>1
    <2> HIDE DEF end, Ends
    <2>3. blocks = run
      BY <1>4
    <2>4. /\ run \in Seq(Blocks) /\ Len(run) = end
          /\ \A i \in 1 .. end : run[i] = IF i > end - need THEN hits[i] ELSE null_block
      <3>1. \A i \in 1 .. end : hits[i] \in Blocks /\ null_block \in Blocks
        BY <2>2, Constants
      <3> QED BY <2>2, <3>1
    <2> HIDE DEF run, blocks
    <2>5. ASSUME NEW n \in Nat, n <= end, end - need <= n - c,
                 NEW s \in Seq(Blocks), Len(s) = n, \A i \in 1 .. n : s[i] = run[i]
          PROVE Part(hits, m, s)
      <3> SUFFICES ASSUME NEW i \in 1 .. n
                   PROVE \/ s[i] = hits[i] /\ s[i] # null_block
                         \/ s[i] = null_block /\ i <= Reach(n)
        BY <2>2, <2>5 DEF Part
      <3>1. i \in 1 .. end
        BY <2>2, <2>5
      <3>2. CASE i > end - need
        <4>1. i \in end - need + 1 .. end
          BY <1>3, <2>2, <3>1, <3>2
        <4> QED BY <2>2, <2>4, <2>5, <3>1, <3>2, <4>1
      <3>3. CASE ~(i > end - need)
        <4>1. i <= n - c
          BY <1>2, <1>3, <2>2, <2>5, <3>3
        <4>2. i <= Reach(n)
          BY <4>1, BeforeRun DEF c
        <4> QED BY <2>4, <2>5, <3>1, <3>3, <4>2
      <3> QED BY <3>2, <3>3
    <2>6. CASE UseEagle
      <3>1. run # <<>>
        BY <2>2, <2>4
      <3>2. WindowHit(hits, m) = SubSeq(run, 1, end - 1)
        BY <1>1, <2>3, <2>4, <2>6, <3>1
      <3>3. end - 1 \in Nat /\ end - 1 <= Len(run) /\ end - 1 <= end
        BY <2>2, <2>4
      <3>4. /\ SubSeq(run, 1, end - 1) \in Seq(Blocks) /\ Len(SubSeq(run, 1, end - 1)) = end - 1
            /\ \A i \in 1 .. end - 1 : SubSeq(run, 1, end - 1)[i] = run[i]
        BY <2>4, <3>3, PrefixIs
      <3>5. end - need <= (end - 1) - c
        BY <1>2, <1>3, <2>2, <2>6
      <3> QED BY <2>5, <3>2, <3>3, <3>4, <3>5
    <2>7. CASE ~UseEagle
      <3>1. WindowHit(hits, m) = run
        BY <1>1, <2>3, <2>7
      <3>2. end - need <= end - c
        BY <1>2, <2>2, <2>7
      <3> QED BY <2>2, <2>4, <2>5, <3>1, <3>2
    <2> QED BY <2>6, <2>7
  <1>5. CASE ~(Ends # {})
    <2>1. start \in 0 .. m /\ \A i \in 1 .. start : hits[i] # null_block
      BY RunShown
    <2> HIDE DEF start, Ends
    <2>2. blocks = SubSeq(hits, 1, start)
      BY <1>5
    <2>3. start \in Nat /\ start <= Len(hits)
      BY <2>1
    <2> HIDE DEF blocks
    <2>4. /\ blocks \in Seq(Blocks) /\ Len(blocks) = start
          /\ \A k \in Nat : k <= start => SubSeq(blocks, 1, k) = SubSeq(hits, 1, k)
      BY <2>2, <2>3, PrefixIs
    <2>5. CASE UseEagle /\ blocks # <<>>
      <3>1. start # 0
        BY <2>4, <2>5
      <3>2. start - 1 \in 0 .. m /\ start - 1 \in Nat /\ start - 1 <= start /\ \A i \in 1 .. start - 1 : i \in 1 .. start
        BY <2>1, <3>1
      <3>3. WindowHit(hits, m) = SubSeq(hits, 1, start - 1)
        BY <1>1, <2>4, <2>5, <3>2
      <3> QED BY <2>1, <3>2, <3>3, CutPart
    <2>6. CASE ~(UseEagle /\ blocks # <<>>)
      <3>1. WindowHit(hits, m) = SubSeq(hits, 1, start)
        BY <1>1, <2>2, <2>6
      <3> QED BY <2>1, <3>1, CutPart
    <2> QED BY <2>5, <2>6
  <1> QED BY <1>4, <1>5

(* find_longest_cache_hit: the blocks of a hit on r carry its hashes.       *)
IsHit(p, r, s, max) ==
  /\ Len(s) * BlockSize <= max /\ Len(s) <= Len(Tokens[r]) \div BlockSize
  /\ \A i \in 1 .. Len(s) :
       \/ s[i] # null_block /\ p.block_hash[s[i]] = block_hashes(r)[i]
       \/ s[i] = null_block /\ i <= Reach(Len(s))

(* A prefix hit is found under the hashes of the request.                   *)
LEMMA HitIs ==
  ASSUME NEW p, PoolType(p), MapConsistent(p), NEW r \in Requests,
         NEW max \in Nat, max <= Len(Tokens[r])
  PROVE LET s == find_longest_cache_hit(p, block_hashes(r), max) IN
        s \in Seq(Blocks) /\ IsHit(p, r, s, max)
  <1> DEFINE m == max \div BlockSize
             hs == block_hashes(r)
             hits == [i \in 1 .. m |-> get_cached_block(p, hs[i])]
             s == find_longest_cache_hit(p, hs, max)
  <1>1. BlockSize \in Nat /\ BlockSize >= 1 /\ null_block \in Blocks
    BY Constants
  <1>2. m \in Nat /\ m * BlockSize <= max
    <2>1. m \in Nat
      BY <1>1, DivNat
    <2>2. m * BlockSize <= max
      BY <1>1, DivIs
    <2> QED BY <2>1, <2>2
  <1>3. m <= Len(Tokens[r]) \div BlockSize
    <2>1. PICK n \in Nat : n = Len(Tokens[r])
      BY RequestConstants
    <2>2. max \in Int /\ n \in Int /\ max <= n
      BY <2>1
    <2>3. max \div BlockSize <= n \div BlockSize
      BY <1>1, <2>2, DivMono
    <2> QED BY <2>1, <2>3
  <1>4. s = IF SlidingWindow = 0 THEN FullHit(hits, m) ELSE WindowHit(hits, m)
    BY DEF find_longest_cache_hit
  <1> HIDE DEF m
  <1>5. \A i \in 1 .. m : i \in 1 .. Len(Tokens[r]) \div BlockSize
    BY <1>2, <1>3, RequestConstants
  <1>6. \A i \in 1 .. m : hs[i] \in Hashes
    BY <1>5, HashIs
  <1> HIDE DEF hs
  <1>7. ASSUME NEW i \in 1 .. m
        PROVE /\ hits[i] \in Blocks
              /\ hits[i] # null_block => p.block_hash[hits[i]] = hs[i]
    <2>1. hits[i] = IF p.cached[hs[i]] = <<>> THEN null_block ELSE Head(p.cached[hs[i]])
      BY DEF get_cached_block
    <2>2. CASE p.cached[hs[i]] = <<>>
      BY <1>1, <2>1, <2>2
    <2>3. CASE p.cached[hs[i]] # <<>>
      <3>1. p.cached[hs[i]] \in Seq(Blocks)
        BY <1>6, PoolFields
      <3>2. 1 \in 1 .. Len(p.cached[hs[i]]) /\ Head(p.cached[hs[i]]) = p.cached[hs[i]][1]
        BY <2>3, <3>1
      <3>3. hits[i] = p.cached[hs[i]][1]
        BY <2>1, <2>3, <3>2
      <3> HIDE DEF hits
      <3>4. hits[i] \in ToSet(p.cached[hs[i]]) /\ hits[i] \in Blocks
        BY <3>1, <3>2, <3>3, MembersOf
      <3>5. p.block_hash[hits[i]] = hs[i]
        BY <1>6, <3>4 DEF MapConsistent
      <3> QED BY <3>4, <3>5
    <2> QED BY <2>2, <2>3
  <1>8. hits \in Seq(Blocks) /\ Len(hits) = m
    BY <1>2, <1>7
  <1> HIDE DEF hits
  <1>9. Part(hits, m, s)
    <2>1. CASE SlidingWindow = 0
      BY <1>2, <1>4, <1>8, <2>1, FullHitIs
    <2>2. CASE SlidingWindow # 0
      BY <1>2, <1>4, <1>8, <2>2, WindowHitIs
    <2> QED BY <2>1, <2>2
  <1> HIDE DEF s
  <1>10. s \in Seq(Blocks) /\ Len(s) \in Nat /\ Len(s) <= m
    BY <1>9 DEF Part
  <1>11. Len(s) * BlockSize <= max
    <2>1. Len(s) * BlockSize <= m * BlockSize /\ Len(s) * BlockSize \in Int
      BY <1>1, <1>2, <1>10, Times
    <2> QED BY <1>1, <1>2, <2>1
  <1>12. Len(s) <= Len(Tokens[r]) \div BlockSize
    BY <1>2, <1>3, <1>10, RequestConstants
  <1>13. \A i \in 1 .. Len(s) :
           \/ s[i] # null_block /\ p.block_hash[s[i]] = hs[i]
           \/ s[i] = null_block /\ i <= Reach(Len(s))
    <2> SUFFICES ASSUME NEW i \in 1 .. Len(s)
                 PROVE \/ s[i] # null_block /\ p.block_hash[s[i]] = hs[i]
                       \/ s[i] = null_block /\ i <= Reach(Len(s))
      OBVIOUS
    <2>1. i \in 1 .. m
      BY <1>2, <1>10
    <2>2. \/ s[i] = hits[i] /\ s[i] # null_block
          \/ s[i] = null_block /\ i <= Reach(Len(s))
      BY <1>9 DEF Part
    <2> QED BY <1>7, <2>1, <2>2
  <1> QED BY <1>10, <1>11, <1>12, <1>13 DEF IsHit, s, hs

(* The blocks of a hit are different: their hashes have different lengths.  *)
LEMMA HitApart ==
  ASSUME NEW p, NEW r \in Requests, NEW s \in Seq(Blocks), NEW max, IsHit(p, r, s, max)
  PROVE Apart(s)
  <1> SUFFICES ASSUME NEW i \in 1 .. Len(s), NEW j \in 1 .. Len(s), s[i] = s[j], s[i] # null_block
               PROVE i = j
    BY DEF Apart
  <1>1. BlockSize \in Nat /\ BlockSize >= 1
    BY Constants
  <1>2. p.block_hash[s[i]] = block_hashes(r)[i] /\ p.block_hash[s[j]] = block_hashes(r)[j]
    BY DEF IsHit
  <1>3. i \in 1 .. Len(Tokens[r]) \div BlockSize /\ j \in 1 .. Len(Tokens[r]) \div BlockSize
    <2>1. Len(s) <= Len(Tokens[r]) \div BlockSize /\ Len(s) \in Nat
      BY DEF IsHit
    <2>2. Len(Tokens[r]) \div BlockSize \in Nat
      BY RequestConstants
    <2> QED BY <2>1, <2>2
  <1>4. Len(block_hashes(r)[i]) = i * BlockSize /\ Len(block_hashes(r)[j]) = j * BlockSize
    BY <1>3, HashIs
  <1>5. i * BlockSize = j * BlockSize
    BY <1>2, <1>4
  <1>6. i \in Int /\ j \in Int
    OBVIOUS
  <1>7. i <= j
    BY <1>1, <1>5, <1>6, Cancel
  <1>8. j <= i
    BY <1>1, <1>5, <1>6, Cancel
  <1> QED BY <1>6, <1>7, <1>8

(* A hit is longer than what lies outside the window behind it.             *)
LEMMA ReachIs ==
  ASSUME NEW n \in Nat
  PROVE Reach(n) \in Nat /\ Reach(n) <= n
  <1>1. BlockSize \in Nat /\ BlockSize >= 1
    BY Constants
  <1>2. n * BlockSize \in Nat
    BY <1>1
  <1> DEFINE g == get_num_skipped_tokens(n * BlockSize)
  <1>3. g \in Nat /\ g <= n * BlockSize /\ g \div BlockSize \in Nat
    BY <1>2, SkipIs
  <1> HIDE DEF g
  <1>4. (g \div BlockSize) * BlockSize <= g /\ (g \div BlockSize) * BlockSize \in Int
    BY <1>1, <1>3, DivIs
  <1>5. (g \div BlockSize) * BlockSize < n * BlockSize + BlockSize
    BY <1>1, <1>2, <1>3, <1>4
  <1>6. g \div BlockSize <= n
    BY <1>1, <1>3, <1>5, Cancel
  <1> QED BY <1>3, <1>6 DEF Reach, g

(* add_local_computed_blocks: the table w that a hit s becomes.             *)
Becomes(p, r, s, w) ==
  /\ w \in Seq(Blocks) /\ Len(w) = Len(s)
  /\ \A i \in 1 .. Len(s) :
       IF i <= Reach(Len(s)) THEN w[i] = null_block
       ELSE w[i] = s[i] /\ w[i] # null_block /\ p.block_hash[w[i]] = block_hashes(r)[i]

(* q has fewer free blocks than p: those of the hit that nobody referenced. *)
Touched(p, q, s) ==
  \A b \in ToSet(p.free) : b \notin ToSet(q.free) =>
    \E i \in 1 .. Len(s) : /\ i > Reach(Len(s)) /\ s[i] = b /\ b # null_block
                           /\ p.ref_cnt[b] = 0

(* add_local_computed_blocks keeps Core.                                    *)
LEMMA CoreHit ==
  ASSUME NEW p, NEW t, NEW d \in [Requests -> Int], Core(p, t, d), NEW r \in Requests,
         t[r] = <<>>, NEW s \in Seq(Blocks), NEW max, IsHit(p, r, s, max)
  PROVE LET a == add_local_computed_blocks(p, s) IN
        /\ Core(a.pool, [t EXCEPT ![r] = a.blocks], [d EXCEPT ![r] = Len(a.blocks)])
        /\ SamePool(p, a.pool) /\ Becomes(p, r, s, a.blocks) /\ Touched(p, a.pool, s)
  <1> DEFINE x == Reach(Len(s))
             f == SubSeq(s, x + 1, Len(s))
             z == [i \in 1 .. x |-> null_block]
             w == z \o f
             q == touch(p, f)
             a == add_local_computed_blocks(p, s)
             u == [t EXCEPT ![r] = w]
             e == [d EXCEPT ![r] = Len(w)]
  <1>1. a.pool = q /\ a.blocks = w
    BY DEF add_local_computed_blocks, Reach
  <1>2. TablesOK(t) /\ PoolOK(p, t)
    BY CoreParts
  <1>3. Len(s) \in Nat /\ x \in Nat /\ x <= Len(s)
    BY ReachIs
  <1>4. \A i \in 1 .. Len(s) :
          \/ s[i] # null_block /\ p.block_hash[s[i]] = block_hashes(r)[i]
          \/ s[i] = null_block /\ i <= x
    BY DEF IsHit
  <1>5. Apart(s)
    BY HitApart
  <1> HIDE DEF x, a
  <1>6. /\ f \in Seq(Blocks) /\ Len(f) = Len(s) - x
        /\ \A i \in 1 .. Len(f) : i + x \in x + 1 .. Len(s) /\ f[i] = s[i + x]
    <2>1. PICK n \in Nat : n = Len(s)
      BY <1>3
    <2>2. f = SubSeq(s, x + 1, n) /\ n <= Len(s)
      BY <2>1
    <2> HIDE DEF f
    <2>3. /\ f \in Seq(Blocks) /\ Len(f) = IF x <= n THEN n - x ELSE 0
          /\ \A i \in 1 .. Len(f) : i + x \in x + 1 .. n /\ f[i] = s[i + x]
      BY <1>3, <2>1, <2>2, SubSeqIs
    <2> QED BY <1>3, <2>1, <2>3
  <1> HIDE DEF f
  <1>7. z \in Seq(Blocks) /\ Len(z) = x /\ \A i \in 1 .. x : z[i] = null_block
    BY <1>3, Constants
  <1> HIDE DEF z
  <1>8. /\ w \in Seq(Blocks) /\ Len(w) = Len(s) /\ ToSet(w) = ToSet(z) \cup ToSet(f)
        /\ \A i \in 1 .. x : w[i] = null_block
        /\ \A i \in 1 .. Len(s) : i > x => w[i] = s[i]
    <2>1. /\ w \in Seq(Blocks) /\ Len(w) = Len(z) + Len(f)
          /\ \A i \in 1 .. Len(z) : w[i] = z[i]
          /\ \A i \in 1 .. Len(w) : i > Len(z) => i - Len(z) \in 1 .. Len(f) /\ w[i] = f[i - Len(z)]
          /\ ToSet(w) = ToSet(z) \cup ToSet(f)
      BY <1>6, <1>7, JoinIs
    <2> HIDE DEF w
    <2>2. Len(w) = Len(s)
      BY <1>3, <1>6, <1>7, <2>1
    <2>3. \A i \in 1 .. x : w[i] = null_block
      BY <1>7, <2>1
    <2>4. ASSUME NEW i \in 1 .. Len(s), i > x PROVE w[i] = s[i]
      <3>1. i - x \in 1 .. Len(f) /\ w[i] = f[i - x]
        BY <1>7, <2>1, <2>2, <2>4
      <3>2. f[i - x] = s[(i - x) + x] /\ (i - x) + x = i
        BY <1>3, <1>6, <3>1
      <3> QED BY <3>1, <3>2
    <2> QED BY <2>1, <2>2, <2>3, <2>4
  <1> HIDE DEF w, q
  <1>9. \A i \in 1 .. Len(s) : IF i <= x THEN w[i] = null_block
                               ELSE w[i] = s[i] /\ w[i] # null_block /\ p.block_hash[w[i]] = block_hashes(r)[i]
    <2> SUFFICES ASSUME NEW i \in 1 .. Len(s)
                 PROVE IF i <= x THEN w[i] = null_block
                       ELSE w[i] = s[i] /\ w[i] # null_block /\ p.block_hash[w[i]] = block_hashes(r)[i]
      OBVIOUS
    <2>1. CASE i <= x
      BY <1>3, <1>8, <2>1
    <2>2. CASE ~(i <= x)
      BY <1>3, <1>4, <1>8, <2>2
    <2> QED BY <2>1, <2>2
  <1>10. Becomes(p, r, s, w)
    BY <1>8, <1>9 DEF Becomes, x
  <1>11. Apart(w)
    <2> SUFFICES ASSUME NEW i \in 1 .. Len(w), NEW j \in 1 .. Len(w), w[i] = w[j], w[i] # null_block
                 PROVE i = j
      BY DEF Apart
    <2>1. i \in 1 .. Len(s) /\ j \in 1 .. Len(s) /\ w[i] = s[i] /\ w[j] = s[j]
      BY <1>8, <1>9
    <2> QED BY <1>5, <2>1 DEF Apart
  <1>12. \A b \in ToSet(f) : \E i \in 1 .. Len(s) : /\ i > x /\ b = s[i] /\ s[i] # null_block
                                                    /\ p.block_hash[b] = block_hashes(r)[i]
    <2> SUFFICES ASSUME NEW b \in ToSet(f)
                 PROVE \E i \in 1 .. Len(s) : /\ i > x /\ b = s[i] /\ s[i] # null_block
                                              /\ p.block_hash[b] = block_hashes(r)[i]
      OBVIOUS
    <2>1. PICK j \in 1 .. Len(f) : b = f[j]
      BY <1>6, MembersOf
    <2>2. j + x \in 1 .. Len(s) /\ j + x > x /\ b = s[j + x]
      BY <1>3, <1>6, <2>1
    <2>3. s[j + x] # null_block /\ p.block_hash[s[j + x]] = block_hashes(r)[j + x]
      BY <1>3, <1>4, <2>2
    <2> QED BY <2>2, <2>3
  <1>13. Takes(p, t, r, f, w)
    <2>1. ASSUME NEW b \in ToSet(f) PROVE b # null_block /\ p.block_hash[b] # NoHash
      <3>1. PICK i \in 1 .. Len(s) : b = s[i] /\ s[i] # null_block /\ p.block_hash[b] = block_hashes(r)[i]
        BY <1>12
      <3>2. i \in 1 .. Len(Tokens[r]) \div BlockSize
        <4>1. Len(s) <= Len(Tokens[r]) \div BlockSize
          BY DEF IsHit
        <4> QED BY <1>3, <4>1, RequestConstants
      <3>3. block_hashes(r)[i] # NoHash
        BY <3>2, HashIs
      <3> QED BY <3>1, <3>3
    <2>2. ToSet(z) \subseteq {null_block}
      BY <1>7, MembersOf
    <2>3. ToSet(w) \ {null_block} = ToSet(f) \ {null_block}
      BY <1>8, <2>2
    <2> QED BY <1>11, <2>1, <2>3 DEF Takes
  <1>14. /\ TablesOK(u) /\ PoolOK(q, u)
         /\ q.block_hash = p.block_hash /\ q.cached = p.cached /\ q.view = p.view
         /\ \A b \in ToSet(p.free) :
              b \notin ToSet(q.free) => b \in ToSet(f) /\ b # null_block /\ p.ref_cnt[b] = 0
    <2>1. q = touch(p, f)
      BY DEF q
    <2> QED BY <1>2, <1>6, <1>8, <1>13, <2>1, TouchOK
  <1>15. Touched(p, q, s)
    <2> SUFFICES ASSUME NEW b \in ToSet(p.free), b \notin ToSet(q.free)
                 PROVE \E i \in 1 .. Len(s) : /\ i > x /\ s[i] = b /\ b # null_block
                                              /\ p.ref_cnt[b] = 0
      BY DEF Touched, x
    <2>1. b \in ToSet(f) /\ b # null_block /\ p.ref_cnt[b] = 0
      BY <1>14
    <2> QED BY <1>12, <2>1
  <1>16. u[r] = w /\ e[r] = Len(w) /\ \A y \in Requests \ {r} : u[y] = t[y] /\ e[y] = d[y]
    <2>1. t \in [Requests -> Seq(Blocks)]
      BY <1>2 DEF TablesOK
    <2>2. Len(w) \in Int
      BY <1>3, <1>8
    <2> QED BY <2>1, <2>2
  <1> HIDE DEF u, e
  <1>17. ASSUME NEW y \in Requests PROVE HashesOK(q, u[y], y, e[y])
    <2>1. CASE y = r
      <3> SUFFICES ASSUME NEW i \in 1 .. Len(w), w[i] # null_block, q.block_hash[w[i]] # NoHash
                   PROVE /\ i <= Len(w) /\ i <= Len(Tokens[r]) \div BlockSize
                         /\ q.block_hash[w[i]] = block_hashes(r)[i]
        BY <1>16, <2>1 DEF HashesOK
      <3>1. q.block_hash[w[i]] = block_hashes(r)[i]
        BY <1>8, <1>9, <1>14
      <3>2. Len(s) <= Len(Tokens[r]) \div BlockSize
        BY DEF IsHit
      <3>3. i <= Len(w) /\ i <= Len(Tokens[r]) \div BlockSize
        BY <1>3, <1>8, <3>2, RequestConstants
      <3> QED BY <3>1, <3>3
    <2>2. CASE y # r
      <3>1. HashesOK(p, t[y], y, d[y])
        BY CoreParts
      <3> QED BY <1>14, <1>16, <2>2, <3>1 DEF HashesOK
    <2> QED BY <2>1, <2>2
  <1>18. ASSUME SlidingWindow = 0 PROVE Linked(q, u, e)
    <2>1. Linked(p, t, d)
      BY <1>18 DEF Core
    <2>2. QueueOK(q.block_hash, q.free)
      <3>1. PoolType(p) /\ p.free \in Seq(Blocks)
        BY <1>2, PoolParts, PoolFields
      <3>2. PICK X : q.free = Only(p.free, X)
        BY <3>1 DEF q, touch, remove, PoolType
      <3>3. QueueOK(p.block_hash, Only(p.free, X))
        BY <2>1, <3>1, QueueTouch DEF Linked
      <3> QED BY <1>14, <3>2, <3>3
    <2>3. x = 0
      <3>1. 0 \div BlockSize = 0
        BY Constants
      <3> QED BY <1>18, <3>1 DEF x, Reach, get_num_skipped_tokens
    <2>4. ASSUME NEW y \in Requests PROVE ChainOK(q, u[y], e[y])
      <3>1. CASE y = r
        <4>1. ASSUME NEW i \in 1 .. Len(w) PROVE w[i] # null_block /\ q.block_hash[w[i]] # NoHash
          <5>1. i \in 1 .. Len(s) /\ ~(i <= x)
            BY <1>3, <1>8, <2>3
          <5>2. w[i] # null_block /\ p.block_hash[w[i]] = block_hashes(r)[i]
            BY <1>9, <5>1
          <5>3. i \in 1 .. Len(Tokens[r]) \div BlockSize
            <6>1. Len(s) <= Len(Tokens[r]) \div BlockSize
              BY DEF IsHit
            <6> QED BY <1>3, <5>1, <6>1, RequestConstants
          <5>4. block_hashes(r)[i] # NoHash
            BY <5>3, HashIs
          <5> QED BY <1>14, <5>2, <5>4
        <4>2. Len(w) \in Int
          BY <1>3, <1>8
        <4> QED BY <1>16, <3>1, <4>1, <4>2 DEF ChainOK
      <3>2. CASE y # r
        <4>1. ChainOK(p, t[y], d[y])
          BY <2>1 DEF Linked
        <4> QED BY <1>14, <1>16, <3>2, <4>1 DEF ChainOK
      <3> QED BY <3>1, <3>2
    <2> QED BY <2>2, <2>4 DEF Linked
  <1>19. Core(q, u, e)
    BY <1>14, <1>17, <1>18 DEF Core
  <1>20. SamePool(p, q)
    BY <1>14 DEF SamePool
  <1> QED BY <1>1, <1>10, <1>15, <1>19, <1>20 DEF u, e, a
-----------------------------------------------------------------------------
(* allocate_slots                                                           *)

(* cache_blocks: from d cached blocks to e, none of them behind upto.       *)
Caches(w, d, e, upto) ==
  e \in Nat /\ (e = d \/ (e * BlockSize <= upto /\ e <= Len(w)))

(* cache_blocks keeps Core.                                                 *)
LEMMA CoreStore ==
  ASSUME NEW p, NEW t, NEW d \in [Requests -> Int], Core(p, t, d), NEW r \in Requests,
         d[r] \in Nat, NEW upto \in Nat, upto <= Len(Tokens[r]), upto <= Len(t[r]) * BlockSize
  PROVE LET c == cache_blocks(p, r, t[r], d[r], upto) IN
        /\ Core(c.pool, t, [d EXCEPT ![r] = c.done]) /\ Caches(t[r], d[r], c.done, upto)
        /\ NoMore(p, c.pool, t[r]) /\ (Believed(p) => Believed(c.pool))
  <1> DEFINE c == cache_blocks(p, r, t[r], d[r], upto)
             full == upto \div BlockSize
             e == [d EXCEPT ![r] = c.done]
             q == cache_full_blocks(p, t[r], d[r], full, block_hashes(r))
  <1>1. BlockSize \in Nat /\ BlockSize >= 1
    BY Constants
  <1>2. /\ TablesOK(t) /\ PoolOK(p, t) /\ HashesOK(p, t[r], r, d[r])
        /\ t[r] \in Seq(Blocks) /\ Len(t[r]) \in Nat
    BY CoreParts
  <1>3. full \in Nat
    BY <1>1, DivNat
  <1>4. full * BlockSize <= upto
    BY <1>1, DivIs
  <1>5. full <= Len(t[r])
    <2>1. full * BlockSize \in Int /\ Len(t[r]) * BlockSize \in Int
      BY <1>1, <1>2, <1>3
    <2>2. full * BlockSize < Len(t[r]) * BlockSize + BlockSize
      BY <1>1, <1>4, <2>1
    <2> QED BY <1>1, <1>2, <1>3, <2>2, Cancel
  <1>6. full <= Len(Tokens[r]) \div BlockSize
    <2>1. PICK n \in Nat : n = Len(Tokens[r])
      BY RequestConstants
    <2>2. upto \in Int /\ n \in Int /\ upto <= n
      BY <2>1
    <2>3. upto \div BlockSize <= n \div BlockSize
      BY <1>1, <2>2, DivMono
    <2> QED BY <2>1, <2>3
  <1>7. CASE EnableCaching /\ d[r] < full
    <2>1. c.pool = q /\ c.done = full
      BY <1>7 DEF cache_blocks
    <2> HIDE DEF full
    <2>2. Stored(p, q, t, r, d[r], full)
      BY <1>2, <1>3, <1>5, <1>6, <1>7, StoreOK
    <2> HIDE DEF q, c
    <2>3. e[r] = full /\ \A y \in Requests \ {r} : e[y] = d[y]
      BY <1>3, <2>1
    <2> HIDE DEF e
    <2>4. ASSUME NEW y \in Requests PROVE HashesOK(q, t[y], y, e[y])
      <3>1. CASE y = r
        BY <2>2, <2>3, <3>1 DEF Stored
      <3>2. CASE y # r
        <4>1. HashesOK(p, t[y], y, d[y])
          BY CoreParts
        <4>2. \A i \in 1 .. Len(t[y]) :
                t[y][i] # null_block => q.block_hash[t[y][i]] = p.block_hash[t[y][i]]
          BY <2>2, <3>2 DEF Stored
        <4>3. HashesOK(q, t[y], y, d[y])
          BY <4>1, <4>2, HashesMove
        <4> QED BY <2>3, <3>2, <4>3
      <3> QED BY <3>1, <3>2
    <2>5. ASSUME SlidingWindow = 0 PROVE Linked(q, t, e)
      <3>1. Linked(p, t, d)
        BY <2>5 DEF Core
      <3>2. PoolType(p) /\ FreeExact(p) /\ p.free \in Seq(Blocks)
        BY <1>2, PoolParts, PoolFields
      <3>3. /\ q.free = p.free
            /\ \A b \in Blocks : p.block_hash[b] # NoHash => q.block_hash[b] = p.block_hash[b]
            /\ \A b \in Blocks : b \notin ToSet(t[r]) => q.block_hash[b] = p.block_hash[b]
            /\ \A i \in d[r] + 1 .. full : t[r][i] # null_block => q.block_hash[t[r][i]] # NoHash
        BY <2>2 DEF Stored
      <3>4. QueueOK(q.block_hash, q.free)
        <4>1. \A i \in 1 .. Len(p.free) : p.free[i] \in ToSet(p.free) /\ p.free[i] \in Blocks
          BY <3>2, MembersOf
        <4>2. \A b \in ToSet(p.free) : b \notin ToSet(t[r])
          BY <1>2, FreeNotHeld
        <4>3. \A i \in 1 .. Len(p.free) : q.block_hash[p.free[i]] = p.block_hash[p.free[i]]
          BY <3>3, <4>1, <4>2
        <4>4. QueueOK(q.block_hash, p.free)
          BY <3>1, <3>3, <4>3, QueueKept DEF Linked
        <4> QED BY <3>3, <4>4
      <3>5. ASSUME NEW y \in Requests PROVE ChainOK(q, t[y], e[y])
        <4>1. ChainOK(p, t[y], d[y]) /\ t[y] \in Seq(Blocks)
          BY <3>1, CoreParts DEF Linked
        <4>2. \A i \in 1 .. Len(t[y]) : i <= d[y] => q.block_hash[t[y][i]] # NoHash
          BY <3>3, <4>1 DEF ChainOK
        <4>3. CASE y = r
          <5>1. ASSUME NEW i \in 1 .. Len(t[r]), i <= full PROVE q.block_hash[t[r][i]] # NoHash
            <6>1. CASE i <= d[r]
              BY <4>2, <4>3, <6>1
            <6>2. CASE ~(i <= d[r])
              <7>1. i \in d[r] + 1 .. full
                BY <1>3, <5>1, <6>2
              <7> QED BY <3>3, <4>1, <4>3, <7>1 DEF ChainOK
            <6> QED BY <6>1, <6>2
          <5> QED BY <1>3, <1>5, <2>3, <4>1, <4>3, <5>1 DEF ChainOK
        <4>4. CASE y # r
          BY <2>3, <4>1, <4>2, <4>4 DEF ChainOK
        <4> QED BY <4>3, <4>4
      <3> QED BY <3>4, <3>5 DEF Linked
    <2>6. Core(q, t, e)
      BY <1>2, <2>2, <2>4, <2>5 DEF Core, Stored
    <2>7. NoMore(p, q, t[r]) /\ (Believed(p) => Believed(q))
      BY <2>2 DEF NoMore, Stored
    <2>8. Caches(t[r], d[r], full, upto)
      BY <1>3, <1>4, <1>5 DEF Caches, full
    <2> QED BY <2>1, <2>6, <2>7, <2>8 DEF e, c
  <1>8. CASE ~(EnableCaching /\ d[r] < full)
    <2>1. c.pool = p /\ c.done = d[r]
      BY <1>8 DEF cache_blocks
    <2> HIDE DEF c
    <2>2. e = d
      BY <2>1
    <2>3. NoMore(p, p, t[r])
      BY DEF NoMore
    <2>4. Caches(t[r], d[r], d[r], upto)
      BY DEF Caches
    <2> QED BY <2>1, <2>2, <2>3, <2>4 DEF c
  <1> QED BY <1>7, <1>8

(* New blocks for need tokens, and what is final of them cached.            *)
Grown(p, q, s, w, need, d, e, upto) ==
  /\ w \in Seq(Blocks) /\ Len(s) <= Len(w) /\ need <= Len(w) * BlockSize
  /\ \A i \in 1 .. Len(s) : w[i] = s[i]
  /\ \A i \in 1 .. Len(w) : i > Len(s) => w[i] # null_block
  /\ Caches(w, d, e, upto) /\ NoMore(p, q, w)
  /\ Believed(p) => Believed(q)

(* allocate_new_blocks and cache_blocks, one after the other, keep Core.    *)
LEMMA GrowOK ==
  ASSUME NEW p, NEW t, NEW d \in [Requests -> Int], Core(p, t, d), NEW r \in Requests,
         d[r] \in Nat, NEW need \in Nat, NEW upto \in Nat, upto <= Len(Tokens[r]), upto <= need,
         Max0(cdiv(need, BlockSize) - Len(t[r])) <= Len(p.free)
  PROVE LET new == allocate_new_blocks(p, t[r], need)
            st == cache_blocks(new.pool, r, new.blocks, d[r], upto) IN
        /\ Core(st.pool, [t EXCEPT ![r] = new.blocks], [d EXCEPT ![r] = st.done])
        /\ Grown(p, st.pool, t[r], new.blocks, need, d[r], st.done, upto)
  <1> DEFINE k == Max0(cdiv(need, BlockSize) - Len(t[r]))
             new == allocate_new_blocks(p, t[r], need)
             q == get_new_blocks(p, k)
             w == t[r] \o NewBlocks(p, k)
             u == [t EXCEPT ![r] = w]
             st == cache_blocks(q, r, w, d[r], upto)
             e == [d EXCEPT ![r] = st.done]
  <1>1. new.pool = q /\ new.blocks = w
    BY DEF allocate_new_blocks
  <1>2. BlockSize \in Nat /\ BlockSize >= 1
    BY Constants
  <1>3. TablesOK(t) /\ t[r] \in Seq(Blocks) /\ Len(t[r]) \in Nat
    BY CoreParts
  <1>4. cdiv(need, BlockSize) \in Int /\ \A n \in Int : cdiv(need, BlockSize) <= n <=> need <= n * BlockSize
    BY <1>2, CdivIs
  <1>5. k \in Nat /\ cdiv(need, BlockSize) <= Len(t[r]) + k
    BY <1>3, <1>4 DEF Max0
  <1>6. k <= Len(p.free)
    OBVIOUS
  <1> HIDE DEF k
  <1>7. /\ Core(q, u, d) /\ Extended(t[r], w, k) /\ NoMore(p, q, w)
        /\ Believed(p) => Believed(q)
    BY <1>5, <1>6, CoreNew
  <1>8. u[r] = w
    BY <1>3 DEF TablesOK
  <1> HIDE DEF q, w, u, new
  <1>9. /\ w \in Seq(Blocks) /\ Len(w) = Len(t[r]) + k
        /\ \A i \in 1 .. Len(t[r]) : w[i] = t[r][i]
        /\ \A i \in 1 .. Len(w) : i > Len(t[r]) => w[i] # null_block
    BY <1>7 DEF Extended
  <1>10. need <= Len(w) * BlockSize /\ Len(t[r]) <= Len(w) /\ Len(w) * BlockSize \in Int
    BY <1>2, <1>3, <1>4, <1>5, <1>9
  <1>11. upto <= Len(w) * BlockSize
    BY <1>10
  <1>12. /\ Core(st.pool, u, e) /\ Caches(w, d[r], st.done, upto)
         /\ NoMore(q, st.pool, w) /\ (Believed(q) => Believed(st.pool))
    <2>1. upto <= Len(u[r]) * BlockSize
      BY <1>8, <1>11
    <2>2. st = cache_blocks(q, r, u[r], d[r], upto)
      BY <1>8
    <2> HIDE DEF st
    <2> QED BY <1>7, <1>8, <2>1, <2>2, CoreStore
  <1> HIDE DEF st
  <1>13. NoMore(p, st.pool, w)
    BY <1>7, <1>12 DEF NoMore
  <1>14. Grown(p, st.pool, t[r], w, need, d[r], st.done, upto)
    BY <1>7, <1>9, <1>10, <1>12, <1>13 DEF Grown
  <1>15. st = cache_blocks(new.pool, r, new.blocks, d[r], upto)
    BY <1>1 DEF st
  <1> HIDE DEF e
  <1>16. Core(st.pool, [t EXCEPT ![r] = new.blocks], [d EXCEPT ![r] = st.done])
    BY <1>1, <1>12 DEF u, e
  <1>17. Grown(p, st.pool, t[r], new.blocks, need, d[r], st.done, upto)
    BY <1>1, <1>14
  <1> QED BY <1>15, <1>16, <1>17 DEF new

(* The sizes and the outputs of the steps in flight.                        *)
LEMMA StepsFacts ==
  ASSUME NEW x \in Seq(StepType)
  PROVE /\ Sizes(x) \in Seq(Nat) /\ Len(Sizes(x)) = Len(x) /\ Total(Sizes(x)) \in Nat
        /\ Outputs(x) \in Seq(Nat) /\ Len(Outputs(x)) = Len(x) /\ Total(Outputs(x)) \in Nat
        /\ \A i \in 1 .. Len(x) : Sizes(x)[i] = x[i].n /\ Sizes(x)[i] <= Total(Sizes(x))
        /\ \A i \in 1 .. Len(x) : /\ Outputs(x)[i] = IF x[i].chunk THEN 0 ELSE 1 + x[i].spec
                                  /\ Outputs(x)[i] <= Total(Outputs(x))
  <1>1. \A i \in 1 .. Len(x) : x[i].n \in Nat /\ x[i].spec \in Nat /\ x[i].chunk \in BOOLEAN
    <2> SUFFICES ASSUME NEW i \in 1 .. Len(x)
                 PROVE x[i].n \in Nat /\ x[i].spec \in Nat /\ x[i].chunk \in BOOLEAN
      OBVIOUS
    <2>1. x[i] \in StepType
      OBVIOUS
    <2> QED BY <2>1 DEF StepType
  <1>2. Len(x) \in Nat
    OBVIOUS
  <1>3. /\ Sizes(x) \in Seq(Nat) /\ Len(Sizes(x)) = Len(x)
        /\ \A i \in 1 .. Len(x) : Sizes(x)[i] = x[i].n
    BY <1>1, <1>2 DEF Sizes
  <1>4. /\ Outputs(x) \in Seq(Nat) /\ Len(Outputs(x)) = Len(x)
        /\ \A i \in 1 .. Len(x) : Outputs(x)[i] = IF x[i].chunk THEN 0 ELSE 1 + x[i].spec
    <2>1. \A i \in 1 .. Len(x) : (IF x[i].chunk THEN 0 ELSE 1 + x[i].spec) \in Nat
      BY <1>1
    <2> QED BY <1>2, <2>1 DEF Outputs
  <1>5. ASSUME NEW s \in Seq(Nat)
        PROVE Total(s) \in Nat /\ \A i \in 1 .. Len(s) : s[i] <= Total(s)
    <2>1. 0 \in 0 .. Len(s) /\ Len(s) \in 0 .. Len(s) /\ 0 <= Len(s)
      OBVIOUS
    <2>2. /\ RunningTotal(s)[0] \in Nat /\ RunningTotal(s)[Len(s)] \in Nat
          /\ \A m \in 0 + 1 .. Len(s) : RunningTotal(s)[0] + s[m] <= RunningTotal(s)[Len(s)]
      BY <2>1, TotalMono
    <2>3. \A m \in 1 .. Len(s) : s[m] \in Nat
      OBVIOUS
    <2> HIDE DEF RunningTotal
    <2> QED BY <2>2, <2>3 DEF Total
  <1> QED BY <1>3, <1>4, <1>5

(* num_in_flight_tokens is a number.                                        *)
LEMMA InFlightNat ==
  ASSUME NEW r \in Requests, Types
  PROVE InFlightTokens(r) \in Nat
  BY StepsFacts DEF Types, InFlightTokens

(* The table w that s becomes when a running request gets more tokens.      *)
Keeps(s, w, processed) ==
  /\ w \in Seq(Blocks) /\ Len(s) <= Len(w)
  /\ \A i \in 1 .. Len(w) :
       IF i <= Len(s)
       THEN \/ w[i] = s[i]
            \/ w[i] = null_block /\ i <= get_num_skipped_tokens(processed) \div BlockSize
       ELSE w[i] # null_block

Processed(r) == num_computed_tokens[r] - InFlightTokens(r)

GivenMore(p, res, r, n) ==
  /\ Core(res.pool, [req_to_blocks EXCEPT ![r] = res.blocks],
                    [num_cached_block EXCEPT ![r] = res.done])
  /\ NoMore(p, res.pool, res.blocks) /\ (Believed(p) => Believed(res.pool))
  /\ Keeps(req_to_blocks[r], res.blocks, Processed(r))
  /\ IF res.ok
     THEN /\ num_computed_tokens[r] + n <= Len(res.blocks) * BlockSize
          /\ Caches(res.blocks, num_cached_block[r], res.done,
                    Lower(num_computed_tokens[r] + n, num_tokens[r]))
     ELSE res.done = num_cached_block[r] /\ res.pool.block_hash = p.block_hash

(* allocate_slots for a running request.                                    *)
LEMMA AllocRunning ==
  ASSUME NEW p, Core(p, req_to_blocks, num_cached_block), Types,
         NEW r \in Requests, Bounds(r), RunningOK(r),
         NEW n \in Nat, num_computed_tokens[r] + n <= MaxModelLen, NEW has
  PROVE GivenMore(p, allocate_slots(p, r, n, <<>>, has), r, n)
  <1> DEFINE t == req_to_blocks
             d == num_cached_block
             total == num_computed_tokens[r] + Len(<<>>) * BlockSize
             need == Lower(total + n + NumLookahead, MaxModelLen)
             fresh == num_cached_block[r] < 0
             watermark == IF has /\ fresh THEN WatermarkBlocks ELSE 0
             full_fits ==
               (fresh /\ ReserveFullISL) =>
                 get_num_blocks_to_allocate(p, r, req_to_blocks[r], num_tokens[r],
                                            <<>>, total, TRUE)
                   + watermark <= get_num_free_blocks(p)
             kept == remove_skipped_blocks(p, req_to_blocks[r], processed_tokens(r, total))
             fits == get_num_blocks_to_allocate(kept.pool, r, kept.blocks, need, <<>>, total, FALSE)
                       + watermark <= get_num_free_blocks(kept.pool)
             hit == IF fresh THEN add_local_computed_blocks(kept.pool, <<>>) ELSE kept
             done == IF fresh THEN cached_after_hit(hit.blocks) ELSE num_cached_block[r]
             new == allocate_new_blocks(hit.pool, hit.blocks, need)
             upto == num_tokens_to_cache(r, total + n)
             st == cache_blocks(new.pool, r, new.blocks, done, upto)
             res == allocate_slots(p, r, n, <<>>, has)
             C == num_computed_tokens[r]
             N == num_tokens[r]
  <1>1. res = IF ~full_fits
              THEN [ok |-> FALSE, pool |-> p, blocks |-> t[r], done |-> d[r]]
              ELSE IF ~fits
              THEN [ok |-> FALSE, pool |-> kept.pool, blocks |-> kept.blocks, done |-> d[r]]
              ELSE [ok |-> TRUE, pool |-> st.pool, blocks |-> new.blocks, done |-> st.done]
    BY DEF allocate_slots
  <1>2. /\ C \in Nat /\ N \in Nat /\ N <= Len(Tokens[r]) /\ d \in [Requests -> Int] /\ d[r] \in Nat
        /\ InFlightTokens(r) \in Nat /\ InFlightTokens(r) <= C
    <2>1. C \in Nat /\ N \in Nat /\ d \in [Requests -> Int]
      BY DEF Types
    <2>2. InFlightTokens(r) \in Nat
      BY InFlightNat
    <2>3. N <= Len(Tokens[r])
      BY RequestConstants DEF Bounds
    <2>4. d[r] \in Nat /\ InFlightTokens(r) <= C
      BY DEF RunningOK, CountersOK, TableOK, InFlightTokens
    <2> QED BY <2>1, <2>2, <2>3, <2>4
  <1>3. /\ BlockSize \in Nat /\ BlockSize >= 1 /\ NumLookahead \in Nat /\ MaxModelLen \in Nat
    BY Constants
  <1>4. total = C
    <2>1. Len(<<>>) = 0
      BY NoMembers
    <2> QED BY <1>2, <1>3, <2>1
  <1> HIDE DEF total
  <1>5. processed_tokens(r, total) = Processed(r) /\ Processed(r) \in Nat
    BY <1>2, <1>4 DEF processed_tokens, Processed, Max0
  <1>6. ~fresh
    BY <1>2
  <1>7. hit = kept /\ done = d[r]
    BY <1>6
  <1> HIDE DEF fresh, hit, done
  <1>8. need \in Nat /\ C + n <= need /\ upto \in Nat /\ upto <= N /\ upto <= need
        /\ upto = Lower(C + n, N)
    BY <1>2, <1>3, <1>4 DEF Lower, num_tokens_to_cache
  <1> HIDE DEF need, upto
  <1> DEFINE u == [t EXCEPT ![r] = kept.blocks]
  <1>9. Core(kept.pool, u, d) /\ SamePool(p, kept.pool) /\ Trimmed(t[r], kept.blocks, Processed(r))
    <2>1. kept = remove_skipped_blocks(p, t[r], Processed(r))
      BY <1>5
    <2> HIDE DEF kept
    <2> QED BY <1>5, <2>1, CoreSkip
  <1>10. t \in [Requests -> Seq(Blocks)] /\ t[r] \in Seq(Blocks) /\ Len(t[r]) \in Nat
    <2>1. TablesOK(t) /\ t[r] \in Seq(Blocks) /\ Len(t[r]) \in Nat
      BY CoreParts
    <2> QED BY <2>1 DEF TablesOK
  <1>11. u[r] = kept.blocks /\ \A x : [u EXCEPT ![r] = x] = [t EXCEPT ![r] = x]
    BY <1>10
  <1> HIDE DEF kept, u
  <1>12. /\ kept.blocks \in Seq(Blocks) /\ Len(kept.blocks) = Len(t[r])
         /\ \A i \in 1 .. Len(t[r]) :
              \/ kept.blocks[i] = t[r][i]
              \/ kept.blocks[i] = null_block /\ i <= get_num_skipped_tokens(Processed(r)) \div BlockSize
    BY <1>9 DEF Trimmed
  <1>13. NoMore(p, kept.pool, kept.blocks) /\ (Believed(p) => Believed(kept.pool))
    BY <1>9 DEF NoMore, SamePool, Believed, CachedHashes
  <1>14. CASE ~full_fits
    BY <1>6, <1>14 DEF fresh
  <1>15. CASE full_fits /\ ~fits
    <2>1. res.ok = FALSE /\ res.pool = kept.pool /\ res.blocks = kept.blocks /\ res.done = d[r]
      <3> HIDE DEF full_fits, fits, res, st, new
      <3> QED BY <1>1, <1>15
    <2> HIDE DEF res
    <2>2. Keeps(t[r], res.blocks, Processed(r))
      BY <1>10, <1>12, <2>1 DEF Keeps
    <2>3. [d EXCEPT ![r] = res.done] = d
      BY <1>2, <2>1
    <2>4. Core(res.pool, [t EXCEPT ![r] = res.blocks], [d EXCEPT ![r] = res.done])
      BY <1>9, <2>1, <2>3 DEF u
    <2>5. res.pool.block_hash = p.block_hash
      BY <1>9, <2>1 DEF SamePool
    <2> QED BY <1>13, <2>1, <2>2, <2>4, <2>5 DEF GivenMore, res
  <1>16. CASE full_fits /\ fits
    <2>1. res.ok = TRUE /\ res.pool = st.pool /\ res.blocks = new.blocks /\ res.done = st.done
      <3> HIDE DEF full_fits, fits, res, st, new
      <3> QED BY <1>1, <1>16
    <2>2. /\ new = allocate_new_blocks(kept.pool, u[r], need)
          /\ st = cache_blocks(new.pool, r, new.blocks, d[r], upto)
      BY <1>7, <1>11
    <2> HIDE DEF res, new, st
    <2>3. Max0(cdiv(need, BlockSize) - Len(u[r])) <= Len(kept.pool.free)
      <3>1. get_num_blocks_to_allocate(kept.pool, r, kept.blocks, need, <<>>, total, FALSE)
              = Max0(cdiv(need, BlockSize) - Len(kept.blocks))
        BY <1>2 DEF get_num_blocks_to_allocate
      <3>2. watermark = 0
        BY <1>6
      <3>3. cdiv(need, BlockSize) \in Int
        BY <1>3, <1>8, CdivIs
      <3>4. Max0(cdiv(need, BlockSize) - Len(kept.blocks)) \in Nat
        BY <1>12, <3>3 DEF Max0
      <3> HIDE DEF watermark
      <3>5. Max0(cdiv(need, BlockSize) - Len(kept.blocks)) + 0 <= Len(kept.pool.free)
        BY <1>16, <3>1, <3>2 DEF get_num_free_blocks
      <3> QED BY <1>11, <3>4, <3>5
    <2>4. upto <= Len(Tokens[r])
      BY <1>2, <1>8, RequestConstants
    <2>5. /\ Core(st.pool, [u EXCEPT ![r] = new.blocks], [d EXCEPT ![r] = st.done])
          /\ Grown(kept.pool, st.pool, u[r], new.blocks, need, d[r], st.done, upto)
      BY <1>2, <1>8, <1>9, <2>2, <2>3, <2>4, GrowOK
    <2>6. Core(res.pool, [t EXCEPT ![r] = res.blocks], [d EXCEPT ![r] = res.done])
      BY <1>11, <2>1, <2>5
    <2> DEFINE w == res.blocks
    <2>7. /\ w \in Seq(Blocks) /\ Len(u[r]) <= Len(w) /\ need <= Len(w) * BlockSize
          /\ \A i \in 1 .. Len(u[r]) : w[i] = u[r][i]
          /\ \A i \in 1 .. Len(w) : i > Len(u[r]) => w[i] # null_block
          /\ Caches(w, d[r], res.done, upto) /\ NoMore(kept.pool, res.pool, w)
          /\ Believed(kept.pool) => Believed(res.pool)
      BY <2>1, <2>5 DEF Grown
    <2>8. Keeps(t[r], w, Processed(r))
      <3> SUFFICES ASSUME NEW i \in 1 .. Len(w)
                   PROVE IF i <= Len(t[r])
                         THEN \/ w[i] = t[r][i]
                              \/ w[i] = null_block /\ i <= get_num_skipped_tokens(Processed(r)) \div BlockSize
                         ELSE w[i] # null_block
        BY <1>11, <1>12, <2>7 DEF Keeps
      <3>1. CASE i <= Len(t[r])
        <4>1. i \in 1 .. Len(t[r])
          BY <1>10, <3>1
        <4> QED BY <1>11, <1>12, <2>7, <4>1
      <3>2. CASE ~(i <= Len(t[r]))
        BY <1>10, <1>11, <1>12, <2>7, <3>2
      <3> QED BY <3>1, <3>2
    <2>9. C + n <= Len(w) * BlockSize
      <3>1. Len(w) * BlockSize \in Int
        BY <1>3, <2>7
      <3> QED BY <1>2, <1>8, <2>7, <3>1
    <2>10. NoMore(p, res.pool, w)
      BY <1>9, <2>7 DEF NoMore, SamePool
    <2>11. Believed(p) => Believed(res.pool)
      BY <1>13, <2>7
    <2>12. Caches(w, d[r], res.done, Lower(C + n, N))
      BY <1>8, <2>7
    <2> QED BY <2>1, <2>6, <2>8, <2>9, <2>10, <2>11, <2>12 DEF GivenMore, res
  <1> QED BY <1>14, <1>15, <1>16

(* The table w that a waiting request with the prefix hit s gets.           *)
Starts(p, r, s, w) ==
  /\ w \in Seq(Blocks) /\ Len(s) <= Len(w)
  /\ \A i \in 1 .. Len(w) :
       IF i <= Len(s)
       THEN IF i <= Reach(Len(s)) THEN w[i] = null_block
            ELSE w[i] # null_block /\ p.block_hash[w[i]] = block_hashes(r)[i]
       ELSE w[i] # null_block

Admitted(p, res, r, n, s) ==
  /\ Core(res.pool, [req_to_blocks EXCEPT ![r] = res.blocks],
                    [num_cached_block EXCEPT ![r] = res.done])
  /\ NoMore(p, res.pool, res.blocks) /\ (Believed(p) => Believed(res.pool))
  /\ IF res.ok
     THEN /\ Starts(p, r, s, res.blocks)
          /\ Len(s) * BlockSize + n <= Len(res.blocks) * BlockSize
          /\ Caches(res.blocks, Len(s), res.done, Lower(Len(s) * BlockSize + n, num_tokens[r]))
     ELSE res.blocks = <<>> /\ res.done = -1

CanStart(p, r, n, s) ==
  /\ Types /\ Bounds(r) /\ IdleOK(r) /\ status[r] # "FINISHED" /\ stale[r] = 0
  /\ IsHit(p, r, s, num_tokens[r] - 1) /\ Len(s) * BlockSize + n <= num_tokens[r]

(* What a request that is not admitted needs of the free queue covers both  *)
(* the hit and the new blocks.                                              *)
LEMMA FreshNeeds ==
  ASSUME NEW p, PoolType(p), Distinct(p.free), NEW q, PoolType(q), Distinct(q.free),
         NEW s \in Seq(Blocks), Touched(p, q, s), NEW need \in Nat, NEW r,
         num_cached_block[r] = -1,
         get_num_blocks_to_allocate(p, r, <<>>, need, s, Len(s) * BlockSize, FALSE) <= Len(p.free)
  PROVE Max0(cdiv(need, BlockSize) - Len(s)) <= Len(q.free)
  <1> DEFINE k == cdiv(need, BlockSize)
             x == Reach(Len(s))
             E == {i \in 1 .. Len(s) : i > x /\ s[i] # null_block /\ p.ref_cnt[s[i]] = 0}
  <1>1. BlockSize \in Nat /\ BlockSize >= 1
    BY Constants
  <1>2. k \in Int
    BY <1>1, CdivIs
  <1>3. Len(s) \in Nat /\ x \in Nat /\ x <= Len(s)
    BY ReachIs
  <1>4. Len(<<>>) = 0
    BY NoMembers
  <1>5. get_num_blocks_to_allocate(p, r, <<>>, need, s, Len(s) * BlockSize, FALSE)
          = Max0(k - Len(s)) + Cardinality(E)
    <2> DEFINE inside == {i \in 1 .. Len(s) : i > Max0(x - Len(<<>>))}
               ev == {i \in inside : s[i] # null_block /\ p.ref_cnt[s[i]] = 0}
    <2>1. get_num_blocks_to_allocate(p, r, <<>>, need, s, Len(s) * BlockSize, FALSE)
            = Max0(k - Upper(x, Len(s) + Len(<<>>))) + Cardinality(ev)
      BY DEF get_num_blocks_to_allocate, Reach
    <2> HIDE DEF x
    <2>2. Max0(x - Len(<<>>)) = x
      BY <1>3, <1>4 DEF Max0
    <2>3. ev = E
      BY <2>2
    <2>4. Upper(x, Len(s) + Len(<<>>)) = Len(s)
      BY <1>3, <1>4 DEF Upper
    <2> HIDE DEF ev, E, k
    <2> QED BY <2>1, <2>3, <2>4
  <1>6. E \in SUBSET (1 .. Len(s))
    OBVIOUS
  <1>7. \A b \in ToSet(p.free) : b \notin ToSet(q.free) => \E i \in E : s[i] = b
    BY DEF Touched
  <1> HIDE DEF E, k
  <1>8. /\ Cardinality(E) \in Nat /\ Len(p.free) \in Nat /\ Len(q.free) \in Nat
        /\ Len(p.free) <= Len(q.free) + Cardinality(E)
    BY <1>6, <1>7, TouchLength
  <1>9. Max0(k - Len(s)) \in Int
    BY <1>2, <1>3 DEF Max0
  <1>10. Max0(k - Len(s)) + Cardinality(E) <= Len(p.free)
    BY <1>5
  <1>11. Max0(k - Len(s)) <= Len(q.free)
    BY <1>8, <1>9, <1>10
  <1> QED BY <1>11 DEF k

(* allocate_slots for a request that is admitted.                           *)
LEMMA AllocFresh ==
  ASSUME NEW p, Core(p, req_to_blocks, num_cached_block), NEW r \in Requests, NEW n \in Nat,
         NEW s \in Seq(Blocks), CanStart(p, r, n, s), NEW has
  PROVE Admitted(p, allocate_slots(p, r, n, s, has), r, n, s)
  <1> DEFINE t == req_to_blocks
             d == num_cached_block
             total == num_computed_tokens[r] + Len(s) * BlockSize
             need == Lower(total + n + NumLookahead, MaxModelLen)
             fresh == num_cached_block[r] < 0
             watermark == IF has /\ fresh THEN WatermarkBlocks ELSE 0
             full_fits ==
               (fresh /\ ReserveFullISL) =>
                 get_num_blocks_to_allocate(p, r, req_to_blocks[r], num_tokens[r],
                                            s, total, TRUE)
                   + watermark <= get_num_free_blocks(p)
             kept == remove_skipped_blocks(p, req_to_blocks[r], processed_tokens(r, total))
             fits == get_num_blocks_to_allocate(kept.pool, r, kept.blocks, need, s, total, FALSE)
                       + watermark <= get_num_free_blocks(kept.pool)
             hit == IF fresh THEN add_local_computed_blocks(kept.pool, s) ELSE kept
             done == IF fresh THEN cached_after_hit(hit.blocks) ELSE num_cached_block[r]
             new == allocate_new_blocks(hit.pool, hit.blocks, need)
             upto == num_tokens_to_cache(r, total + n)
             st == cache_blocks(new.pool, r, new.blocks, done, upto)
             res == allocate_slots(p, r, n, s, has)
             F == Len(s) * BlockSize
             N == num_tokens[r]
  <1>1. res = IF ~full_fits
              THEN [ok |-> FALSE, pool |-> p, blocks |-> t[r], done |-> d[r]]
              ELSE IF ~fits
              THEN [ok |-> FALSE, pool |-> kept.pool, blocks |-> kept.blocks, done |-> d[r]]
              ELSE [ok |-> TRUE, pool |-> st.pool, blocks |-> new.blocks, done |-> st.done]
    BY DEF allocate_slots
  <1>2. /\ N \in Nat /\ N <= Len(Tokens[r]) /\ N <= MaxModelLen /\ d \in [Requests -> Int]
        /\ in_flight[r] \in Seq(StepType)
    <2>1. N \in Nat /\ d \in [Requests -> Int] /\ in_flight[r] \in Seq(StepType)
      BY DEF Types, CanStart
    <2>2. N <= Len(Tokens[r])
      BY RequestConstants DEF Bounds, CanStart
    <2>3. N <= MaxModelLen
      BY <2>1, <2>2, RequestConstants, Constants
    <2> QED BY <2>1, <2>2, <2>3
  <1>3. t[r] = <<>> /\ d[r] = -1 /\ num_computed_tokens[r] = 0 /\ in_flight[r] = <<>>
    <2>1. t[r] = <<>> /\ d[r] = -1 /\ num_computed_tokens[r] = 0 /\ 0 = Len(in_flight[r])
      BY DEF IdleOK, CanStart
    <2> QED BY <1>2, <2>1
  <1>4. BlockSize \in Nat /\ BlockSize >= 1 /\ NumLookahead \in Nat /\ MaxModelLen \in Nat
        /\ WatermarkBlocks \in Nat
    BY Constants
  <1>5. F \in Nat /\ total = F /\ F + n <= N /\ Len(s) \in Nat
    BY <1>3, <1>4 DEF CanStart
  <1>6. InFlightTokens(r) = 0
    <2>1. Sizes(<<>>) = <<>>
      BY NoMembers DEF Sizes
    <2>2. <<>> \in Seq(Int) /\ Len(<<>>) = 0
      BY NoMembers
    <2>3. RunningTotal(<<>>)[0] = 0
      BY <2>2, TotalIs
    <2> QED BY <1>3, <2>1, <2>2, <2>3 DEF InFlightTokens, Total
  <1> HIDE DEF total, F
  <1>7. processed_tokens(r, total) = F
    BY <1>5, <1>6 DEF processed_tokens, Max0
  <1>8. fresh
    BY <1>3
  <1>9. hit = add_local_computed_blocks(kept.pool, s) /\ done = Len(hit.blocks)
    BY <1>8 DEF cached_after_hit
  <1> HIDE DEF fresh, done
  <1>10. need \in Nat /\ F + n <= need /\ upto \in Nat /\ upto <= N /\ upto <= need
        /\ upto = Lower(F + n, N)
    BY <1>2, <1>4, <1>5 DEF Lower, num_tokens_to_cache
  <1> HIDE DEF need, upto
  <1>11. Core(kept.pool, t, d) /\ SamePool(p, kept.pool) /\ kept.blocks = <<>>
    <2>1. kept = remove_skipped_blocks(p, t[r], F)
      BY <1>7
    <2> HIDE DEF kept
    <2>2. /\ Core(kept.pool, [t EXCEPT ![r] = kept.blocks], d) /\ SamePool(p, kept.pool)
          /\ Trimmed(t[r], kept.blocks, F)
      BY <1>5, <2>1, CoreSkip
    <2>3. kept.blocks \in Seq(Blocks) /\ Len(kept.blocks) = 0
      BY <1>3, <2>2, NoMembers DEF Trimmed
    <2>4. kept.blocks = <<>>
      BY <2>3
    <2>5. [t EXCEPT ![r] = <<>>] = t
      <3>1. t \in [Requests -> Seq(Blocks)]
        BY DEF Core, TablesOK
      <3> QED BY <1>3, <3>1
    <2> QED BY <2>2, <2>4, <2>5
  <1> HIDE DEF kept
  <1>12. NoMore(p, kept.pool, <<>>) /\ (Believed(p) => Believed(kept.pool)) /\ NoMore(p, p, <<>>)
    BY <1>11 DEF NoMore, SamePool, Believed, CachedHashes
  <1>13. [t EXCEPT ![r] = <<>>] = t /\ [d EXCEPT ![r] = -1] = d
    <2>1. t \in [Requests -> Seq(Blocks)]
      BY DEF Core, TablesOK
    <2> QED BY <1>2, <1>3, <2>1
  <1>14. CASE ~full_fits \/ ~fits
    <2>1. /\ res.ok = FALSE /\ (res.pool = p \/ res.pool = kept.pool)
          /\ res.blocks = <<>> /\ res.done = -1
      <3> HIDE DEF full_fits, fits, res, st, new
      <3> QED BY <1>1, <1>3, <1>11, <1>14
    <2>2. res.ok = FALSE
      <3> HIDE DEF full_fits, fits, res, st, new
      <3> QED BY <1>1, <1>3, <1>11, <1>14
    <2> HIDE DEF res
    <2>3. Core(res.pool, [t EXCEPT ![r] = res.blocks], [d EXCEPT ![r] = res.done])
      BY <1>11, <1>13, <2>1
    <2>4. NoMore(p, res.pool, res.blocks) /\ (Believed(p) => Believed(res.pool))
      BY <1>12, <2>1
    <2> QED BY <2>1, <2>2, <2>3, <2>4 DEF Admitted, res
  <1>15. CASE full_fits /\ fits
    <2>1. res.ok = TRUE /\ res.pool = st.pool /\ res.blocks = new.blocks /\ res.done = st.done
      <3> HIDE DEF full_fits, fits, res, st, new
      <3> QED BY <1>1, <1>15
    <2>2. IsHit(kept.pool, r, s, N - 1)
      <3>1. IsHit(p, r, s, N - 1)
        BY DEF CanStart
      <3> QED BY <1>11, <3>1 DEF IsHit, SamePool
    <2> DEFINE u == [t EXCEPT ![r] = hit.blocks]
               e == [d EXCEPT ![r] = Len(hit.blocks)]
    <2> HIDE DEF hit
    <2>3. /\ Core(hit.pool, u, e) /\ SamePool(kept.pool, hit.pool)
          /\ Becomes(kept.pool, r, s, hit.blocks) /\ Touched(kept.pool, hit.pool, s)
      BY <1>2, <1>3, <1>9, <1>11, <2>2, CoreHit
    <2>4. /\ hit.blocks \in Seq(Blocks) /\ Len(hit.blocks) = Len(s)
          /\ \A i \in 1 .. Len(s) :
               IF i <= Reach(Len(s)) THEN hit.blocks[i] = null_block
               ELSE /\ hit.blocks[i] # null_block
                    /\ p.block_hash[hit.blocks[i]] = block_hashes(r)[i]
      BY <1>11, <2>3 DEF Becomes, SamePool
    <2>5. /\ u[r] = hit.blocks /\ e[r] = Len(s) /\ e \in [Requests -> Int]
          /\ \A y : [u EXCEPT ![r] = y] = [t EXCEPT ![r] = y]
          /\ \A y : [e EXCEPT ![r] = y] = [d EXCEPT ![r] = y]
      <3>1. t \in [Requests -> Seq(Blocks)]
        BY DEF Core, TablesOK
      <3>2. u[r] = hit.blocks /\ \A y : [u EXCEPT ![r] = y] = [t EXCEPT ![r] = y]
        BY <3>1
      <3>3. Len(hit.blocks) = Len(s) /\ Len(s) \in Int
        BY <1>5, <2>4
      <3>4. e[r] = Len(s) /\ e \in [Requests -> Int]
        BY <1>2, <3>3
      <3>5. \A y : [e EXCEPT ![r] = y] = [d EXCEPT ![r] = y]
        BY <1>2
      <3> QED BY <3>2, <3>4, <3>5
    <2> HIDE DEF u, e
    <2>6. /\ new = allocate_new_blocks(hit.pool, u[r], need)
          /\ st = cache_blocks(new.pool, r, new.blocks, e[r], upto)
      BY <1>9, <2>4, <2>5
    <2> HIDE DEF res, new, st
    <2>7. Max0(cdiv(need, BlockSize) - Len(u[r])) <= Len(hit.pool.free)
      <3> DEFINE g == get_num_blocks_to_allocate(kept.pool, r, <<>>, need, s, F, FALSE)
      <3>1. watermark \in Nat
        BY <1>4
      <3> HIDE DEF watermark
      <3>2. g + watermark <= Len(kept.pool.free)
        BY <1>5, <1>11, <1>15 DEF get_num_free_blocks
      <3>3. /\ PoolType(kept.pool) /\ Distinct(kept.pool.free)
            /\ PoolType(hit.pool) /\ Distinct(hit.pool.free)
        BY <1>11, <2>3, PoolParts DEF Core
      <3>4. kept.pool.free \in Seq(Blocks)
        BY <3>3, PoolFields
      <3>5. g \in Int
        <4> DEFINE inside == {i \in 1 .. Len(s) : i > Max0((get_num_skipped_tokens(F) \div BlockSize) - Len(<<>>))}
                   ev == {i \in inside : s[i] # null_block /\ kept.pool.ref_cnt[s[i]] = 0}
        <4>1. g = Max0(cdiv(need, BlockSize) - Upper(get_num_skipped_tokens(F) \div BlockSize, Len(s) + Len(<<>>)))
                    + Cardinality(ev)
          BY <1>3 DEF get_num_blocks_to_allocate
        <4>2. Cardinality(ev) \in Nat
          <5>1. ev \subseteq 1 .. Len(s) /\ IsFiniteSet(1 .. Len(s))
            BY <1>5, FS_Interval
          <5> HIDE DEF ev
          <5> QED BY <5>1, FS_Subset, FS_CardinalityType
        <4>3. cdiv(need, BlockSize) \in Int /\ get_num_skipped_tokens(F) \div BlockSize \in Nat
          <5>1. cdiv(need, BlockSize) \in Int
            BY <1>4, <1>10, CdivIs
          <5>2. get_num_skipped_tokens(F) \div BlockSize \in Nat
            BY <1>5, SkipIs
          <5> QED BY <5>1, <5>2
        <4> HIDE DEF ev, g
        <4> QED BY <1>5, <4>1, <4>2, <4>3, NoMembers DEF Max0, Upper
      <3>6. g <= Len(kept.pool.free)
        <4> HIDE DEF g
        <4>1. Len(kept.pool.free) \in Nat
          BY <3>4
        <4> QED BY <3>1, <3>2, <3>5, <4>1
      <3>7. Max0(cdiv(need, BlockSize) - Len(s)) <= Len(hit.pool.free)
        BY <1>3, <1>10, <2>3, <3>3, <3>6, FreshNeeds DEF F
      <3> QED BY <2>4, <2>5, <3>7
    <2>8. upto <= Len(Tokens[r]) /\ e[r] \in Nat
      BY <1>2, <1>5, <1>10, <2>5, RequestConstants
    <2>9. /\ Core(st.pool, [u EXCEPT ![r] = new.blocks], [e EXCEPT ![r] = st.done])
          /\ Grown(hit.pool, st.pool, u[r], new.blocks, need, e[r], st.done, upto)
      BY <1>10, <2>3, <2>5, <2>6, <2>7, <2>8, GrowOK
    <2>10. Core(res.pool, [t EXCEPT ![r] = res.blocks], [d EXCEPT ![r] = res.done])
      BY <2>1, <2>5, <2>9
    <2> DEFINE w == res.blocks
    <2>11. Grown(hit.pool, res.pool, hit.blocks, w, need, Len(s), res.done, upto)
      BY <2>1, <2>5, <2>9
    <2> HIDE DEF w
    <2>12. /\ w \in Seq(Blocks) /\ Len(s) <= Len(w)
           /\ \A i \in 1 .. Len(s) : w[i] = hit.blocks[i]
           /\ \A i \in 1 .. Len(w) : i > Len(s) => w[i] # null_block
      BY <2>4, <2>11 DEF Grown
    <2>13. Caches(w, Len(s), res.done, upto) /\ NoMore(hit.pool, res.pool, w)
      BY <2>11 DEF Grown
    <2>14. Believed(hit.pool) => Believed(res.pool)
      BY <2>11 DEF Grown
    <2>15. need <= Len(w) * BlockSize
      BY <2>11 DEF Grown
    <2>16. Starts(p, r, s, w)
      <3> SUFFICES ASSUME NEW i \in 1 .. Len(w)
                   PROVE IF i <= Len(s)
                         THEN IF i <= Reach(Len(s)) THEN w[i] = null_block
                              ELSE w[i] # null_block /\ p.block_hash[w[i]] = block_hashes(r)[i]
                         ELSE w[i] # null_block
        BY <2>12 DEF Starts
      <3>1. CASE i <= Len(s)
        <4>1. i \in 1 .. Len(s)
          BY <1>5, <3>1
        <4> QED BY <2>4, <2>12, <3>1, <4>1
      <3>2. CASE ~(i <= Len(s))
        BY <1>5, <2>12, <3>2
      <3> QED BY <3>1, <3>2
    <2>17. F + n <= Len(w) * BlockSize
      <3>1. Len(w) * BlockSize \in Int
        BY <1>4, <2>12
      <3> QED BY <1>5, <1>10, <2>15, <3>1
    <2>18. NoMore(p, res.pool, w)
      BY <1>11, <2>3, <2>13 DEF NoMore, SamePool
    <2>19. Believed(p) => Believed(res.pool)
      <3>1. Believed(kept.pool) => Believed(hit.pool)
        BY <2>3 DEF SamePool, Believed, CachedHashes
      <3> QED BY <1>12, <2>14, <3>1
    <2>20. Caches(w, Len(s), res.done, Lower(F + n, N))
      BY <1>10, <2>13
    <2> QED BY <2>1, <2>10, <2>16, <2>17, <2>18, <2>19, <2>20 DEF Admitted, res, w, F
  <1> QED BY <1>14, <1>15

(* report_hit: only what the consumers of events believe changes.           *)
LEMMA CoreReport ==
  ASSUME NEW p, NEW t, NEW d, Core(p, t, d), NEW r \in Requests,
         NEW s \in Seq(Blocks), NEW max, IsHit(p, r, s, max)
  PROVE LET q == report_hit(p, r, s) IN
        /\ Core(q, t, d) /\ q.block_hash = p.block_hash /\ IsHit(q, r, s, max)
        /\ (SlidingWindow = 0 \/ ~ReportFull) /\ Believed(p) => Believed(q)
  <1> DEFINE q == report_hit(p, r, s)
             hs == block_hashes(r)
             vi == p.view \cup {hs[i] : i \in 1 .. Len(s)}
  <1>1. CASE ~(ReportFull /\ s # <<>>)
    <2>1. q = p
      BY <1>1 DEF report_hit
    <2> QED BY <2>1
  <1>2. CASE ReportFull /\ s # <<>>
    <2>1. q = [p EXCEPT !.view = vi]
      BY <1>2 DEF report_hit, emit_cached_block_events
    <2>2. TablesOK(t) /\ PoolOK(p, t)
      BY CoreParts
    <2>3. PoolType(p) /\ MapConsistent(p)
      BY <2>2, PoolParts
    <2>4. \A i \in 1 .. Len(s) : i \in 1 .. Len(Tokens[r]) \div BlockSize
      <3>1. Len(s) <= Len(Tokens[r]) \div BlockSize /\ Len(s) \in Nat
        BY DEF IsHit
      <3>2. Len(Tokens[r]) \div BlockSize \in Nat
        BY RequestConstants
      <3> QED BY <3>1, <3>2
    <2>5. \A i \in 1 .. Len(s) : hs[i] \in Hashes
      BY <2>4, HashIs
    <2> HIDE DEF hs
    <2>6. vi \in SUBSET Hashes
      BY <2>3, <2>5, PoolFields
    <2> HIDE DEF vi, q
    <2>7. /\ PoolType(q) /\ q.view = vi /\ q.ref_cnt = p.ref_cnt /\ q.block_hash = p.block_hash
          /\ q.cached = p.cached /\ q.free = p.free /\ q.failed = p.failed
      BY <2>1, <2>3, <2>6 DEF PoolType
    <2>8. PoolOK(q, t)
      <3>1. MapConsistent(q)
        BY <2>3, <2>7, MapSame
      <3>2. FreeExact(q) /\ CountsOK(q, t) /\ PrivateOK(q, t) /\ q.failed = FALSE
        BY <2>2, <2>7 DEF PoolOK, FreeExact, CountsOK, PrivateOK
      <3>3. EnableCaching \/ \A b \in Blocks : q.block_hash[b] = NoHash
        BY <2>2, <2>7, PoolParts
      <3> QED BY <2>7, <3>1, <3>2, <3>3 DEF PoolOK
    <2>9. Core(q, t, d)
      <3>1. \A y \in Requests : HashesOK(q, t[y], y, d[y])
        BY <2>7 DEF Core, HashesOK
      <3>2. ASSUME SlidingWindow = 0 PROVE Linked(q, t, d)
        BY <2>7, <3>2 DEF Core, Linked, ChainOK
      <3> QED BY <2>2, <2>8, <3>1, <3>2 DEF Core
    <2>10. IsHit(q, r, s, max)
      BY <2>7 DEF IsHit
    <2>11. ASSUME SlidingWindow = 0 \/ ~ReportFull, Believed(p) PROVE Believed(q)
      <3>1. SlidingWindow = 0
        BY <1>2, <2>11
      <3>2. Reach(Len(s)) = 0
        <4>1. 0 \div BlockSize = 0
          BY Constants
        <4> QED BY <3>1, <4>1 DEF Reach, get_num_skipped_tokens
      <3> SUFFICES ASSUME NEW h \in q.view PROVE h \in Hashes /\ q.cached[h] # <<>>
        BY DEF Believed, CachedHashes
      <3>3. CASE h \in p.view
        BY <2>7, <2>11, <3>3 DEF Believed, CachedHashes
      <3>4. CASE h \notin p.view
        <4>1. PICK i \in 1 .. Len(s) : h = hs[i]
          BY <2>7, <3>4 DEF vi
        <4>2. p.block_hash[s[i]] = hs[i] /\ s[i] \in Blocks
          BY <3>2 DEF IsHit, hs
        <4>3. s[i] \in ToSet(p.cached[h]) /\ h \in Hashes
          BY <2>3, <2>5, <4>1, <4>2 DEF MapConsistent
        <4> QED BY <2>7, <4>3, NoMembers
      <3> QED BY <3>3, <3>4
    <2> QED BY <2>7, <2>9, <2>10, <2>11 DEF q
  <1> QED BY <1>1, <1>2

(* reset_prefix_cache: it goes through only when no table holds a block.    *)
LEMMA CoreReset ==
  ASSUME NEW p, NEW t, NEW d, Core(p, t, d), CanReset(p)
  PROVE LET q == reset_prefix_cache(p) IN
        /\ Core(q, t, d) /\ Believed(q) /\ \A b \in Blocks : q.block_hash[b] = NoHash
  <1> DEFINE q == reset_prefix_cache(p)
             ca == [h \in Hashes |-> <<>>]
             bh == [b \in Blocks |-> NoHash]
             B == Blocks \ {null_block}
  <1>1. q = [p EXCEPT !.cached = ca, !.block_hash = bh, !.view = {}]
    BY DEF reset_prefix_cache
  <1>2. TablesOK(t) /\ PoolOK(p, t)
    BY DEF Core
  <1>3. PoolType(p) /\ FreeExact(p) /\ Distinct(p.free) /\ CountsOK(p, t) /\ p.failed = FALSE
    BY <1>2, PoolParts
  <1>4. p.free \in Seq(Blocks)
    BY <1>3, PoolFields
  <1>5. <<>> \in Seq(Blocks) /\ ToSet(<<>>) = {} /\ Len(<<>>) = 0
    BY NoMembers
  <1>6. ca \in [Hashes -> Seq(Blocks)] /\ \A h \in Hashes : ca[h] = <<>>
    BY <1>5
  <1>7. bh \in [Blocks -> Hashes \cup {NoHash}] /\ \A b \in Blocks : bh[b] = NoHash
    OBVIOUS
  <1> HIDE DEF ca, bh, q
  <1>8. /\ PoolType(q) /\ q.cached = ca /\ q.block_hash = bh /\ q.view = {}
        /\ q.ref_cnt = p.ref_cnt /\ q.free = p.free /\ q.failed = FALSE
    BY <1>1, <1>3, <1>6, <1>7 DEF PoolType
  <1>9. ToSet(p.free) = B
    <2>1. ToSet(p.free) \subseteq B
      <3>1. \A b \in ToSet(p.free) : b \in Blocks
        BY <1>4, MembersOf
      <3> QED BY <1>3, <3>1 DEF FreeExact
    <2>2. IsFiniteSet(ToSet(p.free)) /\ Cardinality(ToSet(p.free)) = Len(p.free)
      BY <1>3, <1>4, LengthIs
    <2>3. NumBlocks \in Nat /\ NumBlocks >= 1
      BY PoolAssumption
    <2>4. IsFiniteSet(Blocks) /\ Cardinality(Blocks) = NumBlocks
      <3>1. 0 \in Int /\ NumBlocks - 1 \in Int
        BY <2>3
      <3>2. IsFiniteSet(0 .. NumBlocks - 1)
            /\ Cardinality(0 .. NumBlocks - 1) = IF 0 > NumBlocks - 1 THEN 0 ELSE (NumBlocks - 1) - 0 + 1
        BY <3>1, FS_Interval
      <3> QED BY <2>3, <3>2 DEF Blocks
    <2>5. IsFiniteSet(B) /\ Cardinality(B) = NumBlocks - 1
      BY <2>4, Constants, FS_RemoveElement
    <2>6. Len(p.free) = NumBlocks - 1
      <3>1. NumBlocks - Len(p.free) = 1 /\ Len(p.free) \in Nat
        BY <1>4 DEF CanReset, get_num_free_blocks
      <3> QED BY <2>3, <3>1
    <2> HIDE DEF B
    <2>7. Cardinality(ToSet(p.free)) = Cardinality(B)
      BY <2>2, <2>5, <2>6
    <2> QED BY <2>1, <2>5, <2>7, FS_Subset
  <1>10. \A b \in B : Holders(t, b) = {}
    <2>1. ASSUME NEW b \in B PROVE Holders(t, b) = {}
      <3>1. \A r \in Requests : b \notin ToSet(t[r])
        BY <1>2, <1>9, FreeNotHeld
      <3> QED BY <3>1 DEF Holders
    <2> QED BY <2>1
  <1>11. MapConsistent(q)
    <2>1. \A h \in Hashes : h # NoHash
      BY Constants
    <2>2. \A h \in Hashes : ToSet(q.cached[h]) = {} /\ Len(q.cached[h]) = 0
      BY <1>5, <1>6, <1>8
    <2>3. \A b \in Blocks : q.block_hash[b] = NoHash
      BY <1>7, <1>8
    <2> QED BY <2>1, <2>2, <2>3, Constants DEF MapConsistent
  <1>12. FreeExact(q) /\ CountsOK(q, t)
    BY <1>3, <1>8 DEF FreeExact, CountsOK
  <1>13. PrivateOK(q, t)
    BY <1>10 DEF PrivateOK
  <1>14. \A b \in Blocks : q.block_hash[b] = NoHash
    BY <1>7, <1>8
  <1>15. PoolOK(q, t)
    BY <1>8, <1>11, <1>12, <1>13, <1>14 DEF PoolOK
  <1>16. ASSUME NEW r \in Requests PROVE HashesOK(q, t[r], r, d[r])
    <2>1. \A i \in 1 .. Len(t[r]) : t[r][i] \in Blocks
      BY <1>2 DEF TablesOK
    <2> QED BY <1>14, <2>1 DEF HashesOK
  <1>17. ASSUME SlidingWindow = 0 PROVE Linked(q, t, d)
    <2>1. Linked(p, t, d)
      BY <1>17 DEF Core
    <2>2. QueueOK(q.block_hash, q.free)
      <3>1. \A i \in 1 .. Len(p.free) : p.free[i] \in Blocks
        BY <1>4
      <3> QED BY <1>8, <1>14, <3>1 DEF QueueOK, Extends
    <2>3. ASSUME NEW y \in Requests PROVE ChainOK(q, t[y], d[y])
      <3>1. ChainOK(p, t[y], d[y]) /\ t[y] \in Seq(Blocks)
        BY <2>1, CoreParts DEF Linked
      <3>2. ASSUME NEW i \in 1 .. Len(t[y]) PROVE FALSE
        <4>1. t[y][i] # null_block /\ t[y][i] \in ToSet(t[y]) /\ t[y][i] \in Blocks
          BY <3>1, MembersOf DEF ChainOK
        <4>2. y \in Holders(t, t[y][i])
          BY <4>1 DEF Holders
        <4> QED BY <1>10, <4>1, <4>2
      <3> QED BY <3>1, <3>2 DEF ChainOK
    <2> QED BY <2>2, <2>3 DEF Linked
  <1>18. Core(q, t, d)
    BY <1>2, <1>15, <1>16, <1>17 DEF Core
  <1>19. Believed(q)
    BY <1>8 DEF Believed
  <1> QED BY <1>14, <1>18, <1>19 DEF q
-----------------------------------------------------------------------------
(* What the steps write                                                     *)

Place(i, k) == (i - 1) * BlockSize + k

(* c becomes e: the places first .. last of the table s of r are written.   *)
Writes(c, e, s, r, first, last, known) ==
  /\ \A b \in Blocks, k \in 0 .. BlockSize - 1 : b \notin ToSet(s) => e[b][k] = c[b][k]
  /\ \A i \in 1 .. Len(s), k \in 0 .. BlockSize - 1 : s[i] # null_block =>
       e[s[i]][k] = IF Place(i, k) \in first .. last
                    THEN IF Place(i, k) < known THEN Right(r, i, k) ELSE Junk
                    ELSE c[s[i]][k]

(* What the steps write, entry by entry of the table.                       *)
LEMMA WrittenIs ==
  ASSUME NEW s \in Seq(Blocks), Apart(s), NEW r, NEW first \in Nat, NEW last \in Int,
         last < Len(s) * BlockSize, NEW known, NEW c
  PROVE Writes(c, Written(c, s, r, first, last, known), s, r, first, last, known)
  <1> DEFINE e == Written(c, s, r, first, last, known)
             At(b) == {pos \in first .. last : s[pos \div BlockSize + 1] = b}
             Pos(b, k) == CHOOSE pos \in At(b) : pos % BlockSize = k
             Val(b, k) == IF b # null_block /\ \E pos \in At(b) : pos % BlockSize = k
                          THEN IF Pos(b, k) < known THEN SubSeq(Tokens[r], 1, Pos(b, k) + 1) ELSE Junk
                          ELSE c[b][k]
  <1>1. BlockSize \in Nat /\ BlockSize >= 1 /\ Len(s) \in Nat
    BY Constants
  <1>2. \A b \in Blocks, k \in 0 .. BlockSize - 1 : e[b][k] = Val(b, k)
    BY DEF Written
  <1> HIDE DEF e
  <1>3. ASSUME NEW pos \in first .. last
        PROVE /\ pos \in Nat /\ pos \div BlockSize + 1 \in 1 .. Len(s)
              /\ pos \div BlockSize \in Nat /\ pos % BlockSize = pos - (pos \div BlockSize) * BlockSize
    <2>1. pos \in Nat /\ pos < Len(s) * BlockSize
      <3>1. Len(s) * BlockSize \in Int
        BY <1>1
      <3> QED BY <3>1
    <2>2. /\ pos \div BlockSize \in Nat
          /\ pos % BlockSize = pos - (pos \div BlockSize) * BlockSize
          /\ pos < Len(s) * BlockSize <=> pos \div BlockSize + 1 <= Len(s)
      BY <1>1, <2>1, PosIs
    <2>3. pos \div BlockSize + 1 \in 1 .. Len(s)
      <3>1. PICK x \in Nat : x = pos \div BlockSize
        BY <2>2
      <3>2. x + 1 <= Len(s)
        BY <2>1, <2>2, <3>1
      <3>3. x + 1 \in 1 .. Len(s)
        BY <1>1, <3>2
      <3> QED BY <3>1, <3>3
    <2> QED BY <2>1, <2>2, <2>3
  <1>4. ASSUME NEW b \in Blocks, NEW k \in 0 .. BlockSize - 1, b \notin ToSet(s)
        PROVE e[b][k] = c[b][k]
    <2>1. At(b) = {}
      <3> SUFFICES ASSUME NEW pos \in At(b) PROVE FALSE
        OBVIOUS
      <3>1. pos \in first .. last /\ s[pos \div BlockSize + 1] = b
        OBVIOUS
      <3>2. pos \div BlockSize + 1 \in 1 .. Len(s)
        BY <1>3, <3>1
      <3> QED BY <1>4, <3>1, <3>2, MembersOf
    <2> QED BY <1>2, <2>1
  <1>5. ASSUME NEW i \in 1 .. Len(s), NEW k \in 0 .. BlockSize - 1, s[i] # null_block
        PROVE e[s[i]][k] = IF Place(i, k) \in first .. last
                           THEN IF Place(i, k) < known THEN Right(r, i, k) ELSE Junk
                           ELSE c[s[i]][k]
    <2> DEFINE b == s[i]
               o == Place(i, k)
    <2>1. b \in Blocks
      OBVIOUS
    <2>2. o \in Nat /\ o \div BlockSize = i - 1 /\ o % BlockSize = k
      <3>1. i - 1 \in Nat
        BY <1>1
      <3> QED BY <1>1, <3>1, PosOf DEF Place
    <2> HIDE DEF o
    <2>3. o \in first .. last => o \in At(b) /\ o % BlockSize = k
      <3>1. o \div BlockSize + 1 = i
        BY <1>1, <2>2
      <3> QED BY <2>2, <3>1
    <2>4. ASSUME NEW pos \in At(b), pos % BlockSize = k PROVE pos = o
      <3>1. pos \in first .. last /\ s[pos \div BlockSize + 1] = b
        OBVIOUS
      <3>2. /\ pos \in Nat /\ pos \div BlockSize + 1 \in 1 .. Len(s)
            /\ pos \div BlockSize \in Nat /\ pos % BlockSize = pos - (pos \div BlockSize) * BlockSize
        BY <1>3, <3>1
      <3>3. pos \div BlockSize + 1 = i
        BY <1>5, <3>1, <3>2 DEF Apart
      <3>4. PICK x \in Nat : x = pos \div BlockSize
        BY <3>2
      <3>5. x = i - 1 /\ k = pos - x * BlockSize /\ x * BlockSize \in Int
        BY <1>1, <2>4, <3>2, <3>3, <3>4
      <3>6. o = x * BlockSize + k
        BY <3>5 DEF o, Place
      <3> QED BY <3>2, <3>5, <3>6
    <2>5. CASE o \in first .. last
      <3>1. Pos(b, k) = o
        BY <2>3, <2>4, <2>5
      <3>2. e[b][k] = IF o < known THEN SubSeq(Tokens[r], 1, o + 1) ELSE Junk
        BY <1>2, <1>5, <2>1, <2>3, <2>5, <3>1
      <3>3. SubSeq(Tokens[r], 1, o + 1) = Right(r, i, k)
        BY DEF Right, o, Place
      <3> QED BY <2>5, <3>2, <3>3 DEF o
    <2>6. CASE o \notin first .. last
      <3>1. ~\E pos \in At(b) : pos % BlockSize = k
        BY <2>4, <2>6
      <3>2. e[b][k] = c[b][k]
        BY <1>2, <2>1, <3>1
      <3> QED BY <2>6, <3>2 DEF o
    <2> QED BY <2>5, <2>6
  <1> QED BY <1>4, <1>5 DEF Writes, e

(* Blocks that carry a hash hold the entries it stands for.                 *)
TruthAt(p, c, b) ==
  p.block_hash[b] # NoHash => \A k \in 0 .. BlockSize - 1 :
    c[b][k] = SubSeq(p.block_hash[b], 1, Len(p.block_hash[b]) - BlockSize + k + 1)
Truth(p, c) == \A b \in Blocks : TruthAt(p, c, b)

(* CacheTruth, as a predicate of the pool and the contents.                 *)
LEMMA TruthIs == CacheTruth <=> Truth(pool, kv)
  BY DEF CacheTruth, Truth, TruthAt

(* In the table of r that means r's own entries.                            *)
RightAt(c, s, r, i) == \A k \in 0 .. BlockSize - 1 : c[s[i]][k] = Right(r, i, k)
Carries(p, s, i) == i \in 1 .. Len(s) /\ s[i] # null_block /\ p.block_hash[s[i]] # NoHash

(* For a block of a table, the entries of its hash are those of the         *)
(* request.                                                                 *)
LEMMA TruthRight ==
  ASSUME NEW p, NEW s, NEW r \in Requests, NEW d, HashesOK(p, s, r, d),
         NEW i, Carries(p, s, i), NEW c
  PROVE TruthAt(p, c, s[i]) <=> RightAt(c, s, r, i)
  <1> DEFINE h == block_hashes(r)[i]
  <1>1. i <= Len(Tokens[r]) \div BlockSize /\ p.block_hash[s[i]] = h
    BY DEF HashesOK, Carries
  <1>2. i \in 1 .. Len(Tokens[r]) \div BlockSize
    BY <1>1, RequestConstants DEF Carries
  <1>3. \A k \in 0 .. BlockSize - 1 : SubSeq(h, 1, Len(h) - BlockSize + k + 1) = Right(r, i, k)
    BY <1>2, HashIs
  <1> HIDE DEF h
  <1> QED BY <1>1, <1>3 DEF TruthAt, RightAt, Carries

(* Entries up to a are there, first .. last are written, the tokens up to   *)
(* known are right: then the entries up to m are there.                     *)
Covered(m, known, a, first, last) ==
  \A pos \in Nat : pos < m => pos < known /\ (pos < a \/ pos \in first .. last)

CanWrite(p, q, t, d, r, c, first, last) ==
  /\ Core(q, t, d) /\ Truth(p, c) /\ NoMore(p, q, t[r])
  /\ first \in Nat /\ last \in Int /\ last < Len(t[r]) * BlockSize

(* A write to the table of r that covers what is cached keeps the cache     *)
(* true and leaves the others alone.                                        *)
LEMMA WriteOK ==
  ASSUME NEW p, NEW q, NEW t, NEW d, NEW r \in Requests, NEW c, NEW first, NEW last,
         CanWrite(p, q, t, d, r, c, first, last), NEW known, NEW a, NEW m \in Nat,
         d[r] \in Nat, d[r] * BlockSize <= m, Holds(c, t[r], r, a),
         Covered(m, known, a, first, last)
  PROVE LET e == Written(c, t[r], r, first, last, known) IN
        /\ Truth(q, e) /\ Holds(e, t[r], r, m)
        /\ \A y \in Requests : \A n : y # r /\ Holds(c, t[y], y, n) => Holds(e, t[y], y, n)
  <1> DEFINE s == t[r]
             e == Written(c, s, r, first, last, known)
  <1>1. /\ Core(q, t, d) /\ Truth(p, c) /\ NoMore(p, q, s)
        /\ first \in Nat /\ last \in Int /\ last < Len(s) * BlockSize
    BY DEF CanWrite
  <1>2. /\ TablesOK(t) /\ PoolOK(q, t) /\ HashesOK(q, s, r, d[r])
        /\ s \in Seq(Blocks) /\ Len(s) \in Nat /\ Apart(s)
    BY <1>1, CoreParts
  <1>3. Writes(c, e, s, r, first, last, known)
    BY <1>1, <1>2, WrittenIs
  <1>4. BlockSize \in Nat /\ BlockSize >= 1
    BY Constants
  <1> HIDE DEF e
  <1>5. \A i \in 1 .. Len(s), k \in 0 .. BlockSize - 1 : Place(i, k) \in Nat
    <2> SUFFICES ASSUME NEW i \in 1 .. Len(s), NEW k \in 0 .. BlockSize - 1 PROVE Place(i, k) \in Nat
      OBVIOUS
    <2>1. i - 1 \in Nat
      BY <1>2
    <2> QED BY <1>4, <2>1, PosOf DEF Place
  <1>6. Holds(e, s, r, m)
    <2> SUFFICES ASSUME NEW i \in 1 .. Len(s), NEW k \in 0 .. BlockSize - 1,
                        s[i] # null_block, Place(i, k) < m
                 PROVE e[s[i]][k] = Right(r, i, k)
      BY DEF Holds, Place
    <2>1. Place(i, k) < known /\ (Place(i, k) < a \/ Place(i, k) \in first .. last)
      BY <1>5 DEF Covered
    <2>2. e[s[i]][k] = IF Place(i, k) \in first .. last
                    THEN IF Place(i, k) < known THEN Right(r, i, k) ELSE Junk
                    ELSE c[s[i]][k]
      BY <1>3 DEF Writes
    <2>3. Place(i, k) < a => c[s[i]][k] = Right(r, i, k)
      BY DEF Holds, Place
    <2> QED BY <2>1, <2>2, <2>3
  <1>7. ASSUME NEW b \in Blocks PROVE TruthAt(q, e, b)
    <2> SUFFICES ASSUME q.block_hash[b] # NoHash PROVE TruthAt(q, e, b)
      BY DEF TruthAt
    <2>1. CASE b \in ToSet(s)
      <3>1. PICK i \in 1 .. Len(s) : b = s[i]
        BY <1>2, <2>1, MembersOf
      <3>2. b # null_block
        <4>1. MapConsistent(q)
          BY <1>2, PoolParts
        <4> QED BY <4>1 DEF MapConsistent
      <3>3. i <= d[r]
        BY <1>2, <3>1, <3>2 DEF HashesOK
      <3>4. ASSUME NEW k \in 0 .. BlockSize - 1 PROVE e[s[i]][k] = Right(r, i, k)
        <4>1. i * BlockSize <= d[r] * BlockSize
          BY <1>2, <1>4, <3>3, Times
        <4>2. (i - 1) * BlockSize = i * BlockSize - BlockSize /\ i * BlockSize \in Int
              /\ d[r] * BlockSize \in Int
          BY <1>2, <1>4, OneTimes
        <4>3. Place(i, k) < m
          BY <1>4, <4>1, <4>2 DEF Place
        <4> QED BY <1>6, <3>1, <3>2, <4>3 DEF Holds, Place
      <3>5. Carries(q, s, i) /\ RightAt(e, s, r, i)
        BY <3>1, <3>2, <3>4 DEF Carries, RightAt
      <3> QED BY <1>2, <3>1, <3>5, TruthRight
    <2>2. CASE b \notin ToSet(s)
      <3>1. q.block_hash[b] = p.block_hash[b]
        BY <1>1, <2>2 DEF NoMore
      <3>2. TruthAt(p, c, b)
        BY <1>1 DEF Truth
      <3>3. \A k \in 0 .. BlockSize - 1 : e[b][k] = c[b][k]
        BY <1>3, <2>2 DEF Writes
      <3> QED BY <3>1, <3>2, <3>3 DEF TruthAt
    <2> QED BY <2>1, <2>2
  <1>8. ASSUME NEW y \in Requests, NEW n, y # r, Holds(c, t[y], y, n) PROVE Holds(e, t[y], y, n)
    <2> SUFFICES ASSUME NEW i \in 1 .. Len(t[y]), NEW k \in 0 .. BlockSize - 1,
                        t[y][i] # null_block, Place(i, k) < n
                 PROVE e[t[y][i]][k] = Right(y, i, k)
      BY DEF Holds, Place
    <2> DEFINE b == t[y][i]
    <2>1. HashesOK(q, t[y], y, d[y]) /\ t[y] \in Seq(Blocks)
      BY <1>1, CoreParts
    <2>2. b \in Blocks /\ b \in ToSet(t[y])
      BY <2>1, MembersOf
    <2>3. CASE b \in ToSet(s)
      <3>1. y \in Holders(t, b) /\ r \in Holders(t, b)
        BY <2>2, <2>3 DEF Holders
      <3>2. PrivateOK(q, t)
        BY <1>2, PoolParts
      <3>3. q.block_hash[b] # NoHash
        BY <1>8, <2>2, <3>1, <3>2 DEF PrivateOK
      <3>4. TruthAt(q, e, b)
        BY <1>7, <2>2
      <3>5. Carries(q, t[y], i)
        BY <3>3 DEF Carries
      <3>6. RightAt(e, t[y], y, i)
        BY <2>1, <3>4, <3>5, TruthRight
      <3> QED BY <3>6 DEF RightAt
    <2>4. CASE b \notin ToSet(s)
      <3>1. e[b][k] = c[b][k]
        BY <1>3, <2>2, <2>4 DEF Writes
      <3>2. c[b][k] = Right(y, i, k)
        BY <1>8 DEF Holds, Place
      <3> QED BY <3>1, <3>2
    <2> QED BY <2>3, <2>4
  <1> QED BY <1>6, <1>7, <1>8 DEF Truth, e
-----------------------------------------------------------------------------
(* The steps in flight and the counters                                     *)

(* No steps in flight.                                                      *)
LEMMA NoSteps ==
  /\ <<>> \in Seq(StepType) /\ StepsOK(<<>>) /\ Len(<<>>) = 0
  /\ Total(Sizes(<<>>)) = 0 /\ Total(Outputs(<<>>)) = 0
  <1>1. <<>> \in Seq(StepType) /\ <<>> \in Seq(Int) /\ Len(<<>>) = 0
    BY NoMembers
  <1>2. Sizes(<<>>) = <<>> /\ Outputs(<<>>) = <<>>
    BY <1>1 DEF Sizes, Outputs
  <1>3. RunningTotal(<<>>)[0] = 0
    BY <1>1, TotalIs
  <1>4. StepsOK(<<>>)
    BY <1>1 DEF StepsOK
  <1> QED BY <1>1, <1>2, <1>3, <1>4 DEF Total

(* One step more.                                                           *)
LEMMA StepsAppend ==
  ASSUME NEW x \in Seq(StepType), NEW z \in StepType
  PROVE LET w == Append(x, z) IN
        /\ w \in Seq(StepType) /\ Len(w) = Len(x) + 1
        /\ \A i \in 1 .. Len(x) : w[i] = x[i]
        /\ w[Len(x) + 1] = z
        /\ Total(Sizes(w)) = Total(Sizes(x)) + z.n
        /\ Total(Outputs(w)) = Total(Outputs(x)) + (IF z.chunk THEN 0 ELSE 1 + z.spec)
  <1> DEFINE w == Append(x, z)
  <1>1. /\ w \in Seq(StepType) /\ Len(w) = Len(x) + 1 /\ Len(x) \in Nat
        /\ \A i \in 1 .. Len(x) : w[i] = x[i]
        /\ w[Len(x) + 1] = z
    OBVIOUS
  <1> HIDE DEF w
  <1>2. /\ Sizes(x) \in Seq(Nat) /\ Len(Sizes(x)) = Len(x)
        /\ Outputs(x) \in Seq(Nat) /\ Len(Outputs(x)) = Len(x)
        /\ \A i \in 1 .. Len(x) : Sizes(x)[i] = x[i].n
        /\ \A i \in 1 .. Len(x) : Outputs(x)[i] = IF x[i].chunk THEN 0 ELSE 1 + x[i].spec
    BY StepsFacts
  <1>3. /\ Sizes(w) \in Seq(Nat) /\ Len(Sizes(w)) = Len(w)
        /\ Outputs(w) \in Seq(Nat) /\ Len(Outputs(w)) = Len(w)
        /\ \A i \in 1 .. Len(w) : Sizes(w)[i] = w[i].n
        /\ \A i \in 1 .. Len(w) : Outputs(w)[i] = IF w[i].chunk THEN 0 ELSE 1 + w[i].spec
    BY <1>1, StepsFacts
  <1>4. \A i \in 1 .. Len(x) : i \in 1 .. Len(w) /\ Len(x) + 1 \in 1 .. Len(w)
    BY <1>1
  <1>5. Total(Sizes(w)) = Total(Sizes(x)) + z.n
    <2>1. \A i \in 1 .. Len(Sizes(x)) : Sizes(w)[i] = Sizes(x)[i]
      BY <1>1, <1>2, <1>3, <1>4
    <2>2. Len(Sizes(w)) = Len(Sizes(x)) + 1
      BY <1>1, <1>2, <1>3
    <2>3. RunningTotal(Sizes(w))[Len(Sizes(x)) + 1]
            = RunningTotal(Sizes(x))[Len(Sizes(x))] + Sizes(w)[Len(Sizes(x)) + 1]
      BY <1>2, <1>3, <2>1, <2>2, TotalExtend
    <2>4. Sizes(w)[Len(x) + 1] = z.n
      BY <1>1, <1>3
    <2> QED BY <1>2, <2>2, <2>3, <2>4 DEF Total
  <1>6. Total(Outputs(w)) = Total(Outputs(x)) + (IF z.chunk THEN 0 ELSE 1 + z.spec)
    <2>1. \A i \in 1 .. Len(Outputs(x)) : Outputs(w)[i] = Outputs(x)[i]
      BY <1>1, <1>2, <1>3, <1>4
    <2>2. Len(Outputs(w)) = Len(Outputs(x)) + 1
      BY <1>1, <1>2, <1>3
    <2>3. RunningTotal(Outputs(w))[Len(Outputs(x)) + 1]
            = RunningTotal(Outputs(x))[Len(Outputs(x))] + Outputs(w)[Len(Outputs(x)) + 1]
      BY <1>2, <1>3, <2>1, <2>2, TotalExtend
    <2>4. Outputs(w)[Len(x) + 1] = IF z.chunk THEN 0 ELSE 1 + z.spec
      BY <1>1, <1>3
    <2> QED BY <1>2, <2>2, <2>3, <2>4 DEF Total
  <1> QED BY <1>1, <1>5, <1>6 DEF w

(* The oldest step is done.                                                 *)
LEMMA StepsTail ==
  ASSUME NEW x \in Seq(StepType), x # <<>>
  PROVE LET w == Tail(x)
            z == Head(x) IN
        /\ w \in Seq(StepType) /\ Len(w) = Len(x) - 1 /\ z \in StepType /\ z = x[1]
        /\ \A i \in 1 .. Len(w) : w[i] = x[i + 1]
        /\ Total(Sizes(w)) = Total(Sizes(x)) - z.n
        /\ Total(Outputs(w)) = Total(Outputs(x)) - (IF z.chunk THEN 0 ELSE 1 + z.spec)
  <1> DEFINE w == Tail(x)
             z == Head(x)
  <1>1. /\ w \in Seq(StepType) /\ Len(w) = Len(x) - 1 /\ Len(x) \in Nat /\ Len(x) >= 1
        /\ \A i \in 1 .. Len(w) : w[i] = x[i + 1]
        /\ z = x[1] /\ z \in StepType
    OBVIOUS
  <1> HIDE DEF w, z
  <1>2. /\ Sizes(x) \in Seq(Nat) /\ Len(Sizes(x)) = Len(x) /\ Total(Sizes(x)) \in Nat
        /\ Outputs(x) \in Seq(Nat) /\ Len(Outputs(x)) = Len(x) /\ Total(Outputs(x)) \in Nat
        /\ \A i \in 1 .. Len(x) : Sizes(x)[i] = x[i].n
        /\ \A i \in 1 .. Len(x) : Outputs(x)[i] = IF x[i].chunk THEN 0 ELSE 1 + x[i].spec
    BY StepsFacts
  <1>3. /\ Sizes(w) \in Seq(Nat) /\ Len(Sizes(w)) = Len(w)
        /\ Outputs(w) \in Seq(Nat) /\ Len(Outputs(w)) = Len(w)
        /\ \A i \in 1 .. Len(w) : Sizes(w)[i] = w[i].n
        /\ \A i \in 1 .. Len(w) : Outputs(w)[i] = IF w[i].chunk THEN 0 ELSE 1 + w[i].spec
    BY <1>1, StepsFacts
  <1>4. 1 \in 1 .. Len(x) /\ Len(x) \in 1 .. Len(x) /\ \A i \in 1 .. Len(w) : i + 1 \in 1 .. Len(x)
    BY <1>1
  <1>5. ASSUME NEW s \in Seq(Nat), NEW v \in Seq(Nat), Len(s) = Len(x), Len(v) = Len(w),
               \A i \in 1 .. Len(v) : v[i] = s[i + 1]
        PROVE Total(v) = Total(s) - s[1]
    <2>1. Len(s) = Len(v) + 1
      BY <1>1, <1>5
    <2>2. \A i \in 1 .. Len(s) : RunningTotal(v)[i - 1] = RunningTotal(s)[i] - RunningTotal(s)[1]
      BY <1>5, <2>1, TotalShift
    <2>3. RunningTotal(s)[1] = s[1]
      BY <1>4, <1>5, TotalFirst
    <2>4. RunningTotal(v)[Len(s) - 1] = RunningTotal(s)[Len(s)] - RunningTotal(s)[1]
      BY <1>4, <1>5, <2>2
    <2>5. Len(s) - 1 = Len(v)
      BY <1>1, <1>5
    <2> QED BY <2>3, <2>4, <2>5 DEF Total
  <1>6. Total(Sizes(w)) = Total(Sizes(x)) - Sizes(x)[1]
    <2>1. \A i \in 1 .. Len(Sizes(w)) : Sizes(w)[i] = Sizes(x)[i + 1]
      BY <1>1, <1>2, <1>3, <1>4
    <2> QED BY <1>2, <1>3, <1>5, <2>1
  <1>7. Total(Outputs(w)) = Total(Outputs(x)) - Outputs(x)[1]
    <2>1. ASSUME NEW i \in 1 .. Len(w) PROVE Outputs(w)[i] = Outputs(x)[i + 1]
      <3>1. i + 1 \in 1 .. Len(x) /\ w[i] = x[i + 1]
        BY <1>1, <1>4
      <3>2. Outputs(w)[i] = IF w[i].chunk THEN 0 ELSE 1 + w[i].spec
        BY <1>3
      <3>3. Outputs(x)[i + 1] = IF x[i + 1].chunk THEN 0 ELSE 1 + x[i + 1].spec
        BY <1>2, <3>1
      <3> QED BY <3>1, <3>2, <3>3
    <2>2. \A i \in 1 .. Len(Outputs(w)) : Outputs(w)[i] = Outputs(x)[i + 1]
      BY <1>3, <2>1
    <2> QED BY <1>2, <1>3, <1>5, <2>2
  <1>8. Sizes(x)[1] = z.n /\ Outputs(x)[1] = IF z.chunk THEN 0 ELSE 1 + z.spec
    BY <1>1, <1>2, <1>4
  <1> QED BY <1>1, <1>6, <1>7, <1>8 DEF w, z

(* A sequence of length 0.                                                  *)
LEMMA EmptyIs ==
  ASSUME NEW T, NEW q \in Seq(T), Len(q) = 0
  PROVE q = <<>>
  OBVIOUS

(* The fields of a step.                                                    *)
LEMMA StepParts ==
  ASSUME NEW x \in Seq(StepType), NEW i \in 1 .. Len(x)
  PROVE x[i] \in StepType /\ x[i].n \in Nat /\ x[i].spec \in Nat /\ x[i].chunk \in BOOLEAN
  <1>1. x[i] \in StepType
    OBVIOUS
  <1> QED BY <1>1 DEF StepType

(* One step more of n tokens, from C computed ones.                         *)
Issued(N, C, P, x, n, w, Q) ==
  /\ w \in Seq(StepType) /\ StepsOK(w) /\ Q \in Nat
  /\ CountersOK(N, C + n, Q, w)
  /\ KnownOf(N, C + n, Q) = Lower(C + n, N)
  /\ (C + n) - Total(Sizes(w)) = C - Total(Sizes(x))

(* The counters after a step is issued.                                     *)
LEMMA IssueCounters ==
  ASSUME NEW N \in Nat, NEW C \in Nat, NEW P \in Nat, NEW x \in Seq(StepType),
         StepsOK(x), CountersOK(N, C, P, x), NEW n \in Nat, n >= 1
  PROVE LET chunk == C + n < N + P
            spec == Max0(n - (N + P - C))
            w == Append(x, [n |-> n, spec |-> spec, chunk |-> chunk])
            Q == IF chunk THEN P ELSE P + (1 + spec) IN
        spec \in Nat /\ Issued(N, C, P, x, n, w, Q)
  <1> DEFINE chunk == C + n < N + P
             spec == Max0(n - (N + P - C))
             z == [n |-> n, spec |-> spec, chunk |-> chunk]
             w == Append(x, z)
             Q == IF chunk THEN P ELSE P + (1 + spec)
  <1>1. /\ P = Total(Outputs(x)) /\ Total(Sizes(x)) <= C /\ Total(Sizes(x)) \in Nat
        /\ IF P > 0 THEN C = N + P - 1 ELSE C < N
    BY StepsFacts DEF CountersOK
  <1>2. /\ spec \in Nat /\ spec <= n /\ (~chunk => spec = (C + n) - (N + P))
        /\ (chunk => P = 0) /\ chunk \in BOOLEAN
    BY <1>1 DEF Max0
  <1>3. z \in StepType /\ z.n = n /\ z.spec = spec /\ z.chunk = chunk
    BY <1>2 DEF StepType
  <1>4. Q \in Nat /\ Q = P + (IF chunk THEN 0 ELSE 1 + spec)
    BY <1>2
  <1>5. IF Q > 0 THEN C + n = N + Q - 1 /\ C + n >= N ELSE C + n < N
    <2>1. CASE chunk
      <3>1. Q = 0 /\ C + n < N + P /\ P = 0
        BY <1>2, <2>1
      <3> QED BY <3>1
    <2>2. CASE ~chunk
      <3>1. Q = P + (1 + spec) /\ C + n >= N + P /\ spec = (C + n) - (N + P)
        BY <1>2, <2>2
      <3> HIDE DEF Q, spec
      <3> QED BY <1>2, <3>1
    <2> QED BY <2>1, <2>2
  <1> HIDE DEF z, spec, chunk, Q
  <1>6. /\ w \in Seq(StepType) /\ Len(w) = Len(x) + 1
        /\ \A i \in 1 .. Len(x) : w[i] = x[i]
        /\ w[Len(x) + 1] = z
        /\ Total(Sizes(w)) = Total(Sizes(x)) + n
        /\ Total(Outputs(w)) = Total(Outputs(x)) + (IF chunk THEN 0 ELSE 1 + spec)
    BY <1>3, StepsAppend
  <1> HIDE DEF w
  <1>7. Len(x) \in Nat
    OBVIOUS
  <1>8. StepsOK(w)
    <2>1. ASSUME NEW i \in 1 .. Len(w) PROVE w[i].spec <= w[i].n
      <3>1. CASE i = Len(x) + 1
        BY <1>2, <1>3, <1>6, <3>1
      <3>2. CASE i \in 1 .. Len(x)
        BY <1>6, <3>2 DEF StepsOK
      <3> QED BY <1>6, <1>7, <3>1, <3>2
    <2>2. ASSUME NEW i \in 1 .. Len(w), NEW j \in 1 .. Len(w), i < j, w[j].chunk
          PROVE w[i].chunk
      <3>1. i \in 1 .. Len(x)
        BY <1>6, <1>7, <2>2
      <3>2. CASE j = Len(x) + 1
        <4>1. Total(Outputs(x)) = 0
          BY <1>1, <1>2, <1>3, <1>6, <2>2, <3>2
        <4>2. (IF x[i].chunk THEN 0 ELSE 1 + x[i].spec) <= 0
          BY <3>1, <4>1, StepsFacts
        <4>3. x[i].spec \in Nat /\ x[i].chunk \in BOOLEAN
          BY <3>1, StepParts
        <4>4. x[i].chunk
          BY <4>2, <4>3
        <4> QED BY <1>6, <3>1, <4>4
      <3>3. CASE j \in 1 .. Len(x)
        BY <1>6, <2>2, <3>1, <3>3 DEF StepsOK
      <3> QED BY <1>6, <1>7, <3>2, <3>3
    <2> QED BY <2>1, <2>2 DEF StepsOK
  <1>9. CountersOK(N, C + n, Q, w)
    BY <1>1, <1>4, <1>5, <1>6 DEF CountersOK
  <1>10. KnownOf(N, C + n, Q) = Lower(C + n, N)
    BY <1>5 DEF KnownOf, Lower
  <1>11. (C + n) - Total(Sizes(w)) = C - Total(Sizes(x))
    BY <1>1, <1>6
  <1>12. spec \in Nat /\ Issued(N, C, P, x, n, w, Q)
    BY <1>2, <1>4, <1>6, <1>8, <1>9, <1>10, <1>11 DEF Issued
  <1> QED BY <1>12 DEF w, z, Q, spec, chunk

(* The oldest step of x is done.  It was a chunk of a prefill, or it        *)
(* delivers gen of the 1 + spec outputs that it was awaited to deliver.     *)
LEMMA TailOK ==
  ASSUME NEW x \in Seq(StepType), x # <<>>, StepsOK(x)
  PROVE Tail(x) \in Seq(StepType) /\ StepsOK(Tail(x)) /\ Len(Tail(x)) = Len(x) - 1
  <1> DEFINE w == Tail(x)
  <1>1. /\ w \in Seq(StepType) /\ Len(w) = Len(x) - 1
        /\ \A i \in 1 .. Len(w) : w[i] = x[i + 1]
    BY StepsTail
  <1>2. Len(x) \in Nat
    OBVIOUS
  <1> HIDE DEF w
  <1>3. \A i \in 1 .. Len(w) : i + 1 \in 1 .. Len(x)
    BY <1>1, <1>2
  <1>4. ASSUME NEW i \in 1 .. Len(w) PROVE w[i].spec <= w[i].n
    BY <1>1, <1>3 DEF StepsOK
  <1>5. ASSUME NEW i \in 1 .. Len(w), NEW j \in 1 .. Len(w), i < j, w[j].chunk
        PROVE w[i].chunk
    <2>1. i + 1 \in 1 .. Len(x) /\ j + 1 \in 1 .. Len(x) /\ i + 1 < j + 1
      BY <1>3, <1>5
    <2>2. w[i] = x[i + 1] /\ w[j] = x[j + 1]
      BY <1>1
    <2> QED BY <1>5, <2>1, <2>2 DEF StepsOK
  <1> QED BY <1>1, <1>4, <1>5 DEF StepsOK, w

(* The counters after a chunk of a prefill.                                 *)
LEMMA ChunkDone ==
  ASSUME NEW N \in Nat, NEW C \in Nat, NEW P \in Nat, NEW x \in Seq(StepType), x # <<>>,
         CountersOK(N, C, P, x), Head(x).chunk
  PROVE CountersOK(N, C, P, Tail(x)) /\ Total(Sizes(Tail(x))) <= Total(Sizes(x))
  <1>1. /\ Total(Sizes(Tail(x))) = Total(Sizes(x)) - Head(x).n
        /\ Total(Outputs(Tail(x))) = Total(Outputs(x)) - 0
        /\ Head(x) \in StepType
    BY StepsTail
  <1>2. Head(x).n \in Nat
    BY <1>1 DEF StepType
  <1>3. Total(Sizes(x)) \in Nat /\ Total(Outputs(x)) \in Nat
    BY StepsFacts
  <1> QED BY <1>1, <1>2, <1>3 DEF CountersOK

(* A step that sampled is done.  With gen outputs for it, rej rejected,     *)
(* more says whether other steps are in flight.                             *)
Done(N, C, P, x, gen, rej, more, stops) ==
  LET M == N + gen
      D == C - rej
      Q == P - (rej + gen) IN
  /\ P > 0 /\ D \in Nat /\ D <= C /\ Q \in Nat
  /\ D - Q = M - 1 /\ M - 1 <= C
  /\ M - (IF more THEN 1 ELSE 2) < C
  /\ ~stops => /\ CountersOK(M, D, Q, Tail(x)) /\ gen >= 1
               /\ KnownOf(M, D, Q) = M - (IF more THEN 1 ELSE 2) + 1
               /\ C - Total(Sizes(x)) <= D - Total(Sizes(Tail(x)))

(* The counters after an output with a of the drafts accepted.              *)
LEMMA OutputDone ==
  ASSUME NEW N \in Nat, NEW C \in Nat, NEW P \in Nat, NEW x \in Seq(StepType), x # <<>>,
         N >= 1, StepsOK(x), CountersOK(N, C, P, x), ~Head(x).chunk,
         NEW a \in Nat, a <= Head(x).spec, NEW left \in Nat
  PROVE LET gen == Lower(a + 1, left) IN
        Done(N, C, P, x, gen, Head(x).spec - a, Len(x) > 1, gen = left)
  <1> DEFINE w == Tail(x)
             z == Head(x)
             gen == Lower(a + 1, left)
             rej == z.spec - a
             M == N + gen
             D == C - rej
             Q == P - (rej + gen)
             last == M - (IF Len(x) > 1 THEN 1 ELSE 2)
  <1>1. /\ w \in Seq(StepType) /\ Len(w) = Len(x) - 1 /\ z \in StepType /\ z = x[1]
        /\ \A i \in 1 .. Len(w) : w[i] = x[i + 1]
        /\ Total(Sizes(w)) = Total(Sizes(x)) - z.n
        /\ Total(Outputs(w)) = Total(Outputs(x)) - (IF z.chunk THEN 0 ELSE 1 + z.spec)
    BY StepsTail
  <1>2. z.n \in Nat /\ z.spec \in Nat /\ z.chunk = FALSE /\ Len(x) \in Nat /\ Len(x) >= 1
    BY <1>1 DEF StepType
  <1>3. z.spec <= z.n
    BY <1>1, <1>2 DEF StepsOK
  <1>4. /\ Total(Sizes(x)) \in Nat /\ Total(Outputs(x)) \in Nat
        /\ Total(Sizes(w)) \in Nat /\ Total(Outputs(w)) \in Nat
    BY <1>1, StepsFacts
  <1>5. IF Len(x) > 1 THEN Total(Outputs(w)) >= 1 ELSE Total(Outputs(w)) = 0
    <2>1. CASE Len(x) > 1
      <3>1. 1 \in 1 .. Len(w) /\ 2 \in 1 .. Len(x) /\ 1 \in 1 .. Len(x) /\ 1 < 2
        BY <1>1, <1>2, <2>1
      <3>2. ~x[2].chunk
        BY <1>1, <1>2, <3>1 DEF StepsOK
      <3>3. w[1] = x[2]
        BY <1>1, <3>1
      <3>4. w[1].spec \in Nat
        BY <1>1, <3>1, StepParts
      <3>5. (IF w[1].chunk THEN 0 ELSE 1 + w[1].spec) <= Total(Outputs(w))
        BY <1>1, <3>1, StepsFacts
      <3> QED BY <1>4, <2>1, <3>2, <3>3, <3>4, <3>5
    <2>2. CASE ~(Len(x) > 1)
      <3>1. Len(w) = 0
        BY <1>1, <1>2, <2>2
      <3>2. w = <<>>
        BY <1>1, <3>1, EmptyIs
      <3> QED BY <2>2, <3>2, NoSteps
    <2> QED BY <2>1, <2>2
  <1>6. /\ P = Total(Outputs(x)) /\ Total(Sizes(x)) <= C
        /\ IF P > 0 THEN C = N + P - 1 ELSE C < N
    BY DEF CountersOK
  <1>7. P = Total(Outputs(w)) + (1 + z.spec)
    BY <1>1, <1>2, <1>4, <1>6
  <1>8. /\ gen \in Nat /\ gen <= a + 1 /\ (gen # left => gen = a + 1)
        /\ rej \in Nat /\ rej + a = z.spec
    BY <1>2, <1>1 DEF Lower
  <1> HIDE DEF w, z, gen, rej
  <1>9. /\ P > 0 /\ C = N + P - 1 /\ D \in Nat /\ D <= C /\ Q \in Nat
        /\ D - Q = M - 1 /\ M - 1 <= C
    <2>1. PICK k \in Nat : k = z.spec
      BY <1>2
    <2>2. PICK o \in Nat : o = Total(Outputs(w))
      BY <1>4
    <2>3. P > 0 /\ C = N + P - 1
      BY <1>6, <1>7, <2>1, <2>2
    <2>4. P = o + (1 + k) /\ rej + a = k
      BY <1>7, <1>8, <2>1, <2>2
    <2>5. D \in Nat /\ D <= C /\ Q \in Nat
      BY <1>8, <2>3, <2>4
    <2>6. D - Q = M - 1 /\ M - 1 <= C
      BY <1>8, <2>3, <2>4
    <2> QED BY <2>3, <2>5, <2>6
  <1>10. last < C
    <2>1. PICK k \in Nat : k = z.spec
      BY <1>2
    <2>2. PICK o \in Nat : o = Total(Outputs(w))
      BY <1>4
    <2>3. C = N + P - 1 /\ P = o + (1 + k) /\ gen <= k + 1
      <3>1. C = N + P - 1
        BY <1>9
      <3>2. P = o + (1 + k) /\ rej + a = k
        BY <1>7, <1>8, <2>1, <2>2
      <3> QED BY <1>8, <3>1, <3>2
    <2>4. CASE Len(x) > 1
      <3>1. last = (N + gen) - 1 /\ o >= 1
        BY <1>5, <2>2, <2>4
      <3> HIDE DEF last
      <3> QED BY <1>8, <2>3, <3>1
    <2>5. CASE ~(Len(x) > 1)
      <3>1. last = (N + gen) - 2
        BY <2>5
      <3> HIDE DEF last
      <3> QED BY <1>8, <2>3, <3>1
    <2> QED BY <2>4, <2>5
  <1>11. ASSUME gen # left
         PROVE /\ CountersOK(M, D, Q, w) /\ gen >= 1 /\ KnownOf(M, D, Q) = last + 1
               /\ C - Total(Sizes(x)) <= D - Total(Sizes(w))
    <2>1. gen = a + 1 /\ Q = Total(Outputs(w))
      BY <1>2, <1>4, <1>7, <1>8, <1>11
    <2>2. Total(Sizes(w)) <= D /\ C - Total(Sizes(x)) <= D - Total(Sizes(w))
      <3>1. PICK k \in Nat, n \in Nat : k = z.spec /\ n = z.n
        BY <1>2
      <3>2. PICK u \in Nat, v \in Nat : u = Total(Sizes(x)) /\ v = Total(Sizes(w))
        BY <1>4
      <3>3. v = u - n /\ k <= n /\ u <= C /\ rej + a = k
        BY <1>1, <1>3, <1>6, <1>8, <3>1, <3>2
      <3>4. v <= D /\ C - u <= D - v
        BY <1>8, <3>3
      <3> QED BY <3>2, <3>4
    <2>3. IF Q > 0 THEN D = M + Q - 1 ELSE D < M
      BY <1>8, <1>9
    <2>4. CountersOK(M, D, Q, w)
      BY <2>1, <2>2, <2>3 DEF CountersOK
    <2>5. KnownOf(M, D, Q) = last + 1
      BY <1>2, <1>5, <1>8, <1>9, <2>1 DEF KnownOf
    <2> QED BY <2>1, <2>2, <2>4, <2>5
  <1>12. Done(N, C, P, x, gen, rej, Len(x) > 1, gen = left)
    BY <1>9, <1>10, <1>11 DEF Done, w
  <1> QED BY <1>12 DEF gen, rej, z

-----------------------------------------------------------------------------
(* A step of one request                                                    *)

(* Everything of y but the contents of its blocks stays.                    *)
Same(y) ==
  /\ req_to_blocks'[y] = req_to_blocks[y] /\ num_cached_block'[y] = num_cached_block[y]
  /\ status'[y] = status[y] /\ num_tokens'[y] = num_tokens[y]
  /\ num_computed_tokens'[y] = num_computed_tokens[y]
  /\ num_output_placeholders'[y] = num_output_placeholders[y]
  /\ in_flight'[y] = in_flight[y] /\ stale'[y] = stale[y]
OthersSame(r) == \A y \in Requests : y # r => Same(y)

(* A request that no variable changes for stays right.                      *)
LEMMA RequestSame ==
  ASSUME NEW y \in Requests, Same(y), RequestOK(y)
  PROVE RequestOK(y)'
  BY DEF Same, RequestOK, Bounds, RunningOK, IdleOK

(* The entries of every other request stay.                                 *)
OthersHold(r, c, e) ==
  \A y \in Requests : \A n : y # r /\ Holds(c, req_to_blocks[y], y, n) => Holds(e, req_to_blocks[y], y, n)

(* Its entries stay when its table does.                                    *)
LEMMA ContentSame ==
  ASSUME NEW y \in Requests, NEW r, y # r, Same(y), ContentOK(y), OthersHold(r, kv, kv')
  PROVE ContentOK(y)'
  <1>1. Known(y)' = Known(y)
    BY DEF Same, Known
  <1> QED BY <1>1 DEF Same, ContentOK, OthersHold

EventsStay == Believed(pool) => Believed(pool')

(* A step of r keeps the invariant if it does so for r and leaves the       *)
(* others alone.                                                            *)
LEMMA Frame ==
  ASSUME Inv, NEW r \in Requests, OthersSame(r), OthersHold(r, kv, kv'),
         Core(pool', req_to_blocks', num_cached_block'), Types',
         RequestOK(r)', ContentOK(r)', Truth(pool', kv'),
         SlidingWindow = 0 \/ ~ReportFull => EventsStay
  PROVE Inv'
  <1>1. \A y \in Requests : RequestOK(y)'
    BY RequestSame DEF Inv, OthersSame
  <1>2. \A y \in Requests : ContentOK(y)'
    BY ContentSame DEF Inv, OthersSame
  <1>3. EventsOK'
    BY DEF Inv, EventsOK, EventsStay, EventsSound, Believed
  <1>4. CacheTruth'
    BY DEF CacheTruth, Truth, TruthAt
  <1> QED BY <1>1, <1>2, <1>3, <1>4 DEF Inv

(* The cache stays true when no hash changes.                               *)
LEMMA TruthSame ==
  ASSUME NEW p, NEW q, NEW c, Truth(p, c), q.block_hash = p.block_hash
  PROVE Truth(q, c)
  BY DEF Truth, TruthAt

(* The events stay sound when neither they nor the map change.              *)
LEMMA BelievedSame ==
  ASSUME NEW p, NEW q, SamePool(p, q), Believed(p)
  PROVE Believed(q)
  BY DEF SamePool, Believed, CachedHashes

(* The invariant, for one request.                                          *)
LEMMA InvParts ==
  ASSUME Inv, NEW r \in Requests
  PROVE /\ Core(pool, req_to_blocks, num_cached_block) /\ Types /\ RequestOK(r) /\ Bounds(r)
        /\ ContentOK(r) /\ Truth(pool, kv) /\ EventsOK
  BY TruthIs DEF Inv, RequestOK

(* The request r leaves with status st, the pool is q before it is freed.   *)
LEMMA LeaveOK ==
  ASSUME NEW p, NEW r \in Requests, NEW st, Leave(p, r, st), NEW d \in [Requests -> Int],
         Core(p, req_to_blocks, d), num_cached_block \in [Requests -> Int],
         num_cached_block' = [d EXCEPT ![r] = -1]
  PROVE /\ Core(pool', req_to_blocks', num_cached_block') /\ SamePool(p, pool')
        /\ req_to_blocks'[r] = <<>> /\ num_cached_block'[r] = -1
        /\ \A y \in Requests : y # r => req_to_blocks'[y] = req_to_blocks[y]
  <1>1. req_to_blocks \in [Requests -> Seq(Blocks)]
    BY CoreParts DEF TablesOK
  <1>2. pool' = free_blocks(p, Reverse(req_to_blocks[r])) /\ req_to_blocks' = [req_to_blocks EXCEPT ![r] = <<>>]
    BY DEF Leave, free
  <1>3. Core(pool', [req_to_blocks EXCEPT ![r] = <<>>], [d EXCEPT ![r] = -1]) /\ SamePool(p, pool')
    BY <1>2, CoreFree
  <1> QED BY <1>1, <1>2, <1>3

(* A request leaves and the contents stay.                                  *)
LEMMA IdleStays ==
  ASSUME Inv, NEW r \in Requests, NEW st, Leave(pool, r, st), kv' = kv, Types', Bounds(r)',
         OthersSame(r), st # "RUNNING", status'[r] = st,
         st # "FINISHED" => /\ stale'[r] = Len(in_flight'[r])
                            /\ num_computed_tokens'[r] = 0 /\ num_output_placeholders'[r] = 0
  PROVE Inv'
  <1>1. /\ Core(pool, req_to_blocks, num_cached_block) /\ Types /\ Truth(pool, kv) /\ EventsOK
    BY InvParts
  <1>2. num_cached_block \in [Requests -> Int] /\ num_cached_block' = [num_cached_block EXCEPT ![r] = -1]
    BY <1>1 DEF Types, Leave
  <1>3. /\ Core(pool', req_to_blocks', num_cached_block') /\ SamePool(pool, pool')
        /\ req_to_blocks'[r] = <<>> /\ num_cached_block'[r] = -1
    BY <1>1, <1>2, LeaveOK
  <1>4. Truth(pool', kv')
    BY <1>1, <1>3, TruthSame DEF SamePool
  <1>5. EventsStay
    BY <1>3, BelievedSame DEF EventsStay
  <1>6. RequestOK(r)'
    BY <1>3 DEF RequestOK, IdleOK
  <1>7. ContentOK(r)'
    BY DEF ContentOK
  <1>8. OthersHold(r, kv, kv')
    BY DEF OthersHold
  <1> QED BY <1>3, <1>4, <1>5, <1>6, <1>7, <1>8, Frame

(* _preempt_request keeps the invariant.                                    *)
LEMMA InvPreempt ==
  ASSUME Inv, NEW r \in Requests, Preempt(r)
  PROVE Inv'
  <1>1. Types /\ Bounds(r) /\ Len(in_flight[r]) \in Nat
    <2>1. Types /\ Bounds(r)
      BY InvParts
    <2>2. in_flight[r] \in Seq(StepType)
      BY <2>1 DEF Types
    <2> QED BY <2>1, <2>2
  <1>2. /\ Leave(pool, r, "PREEMPTED") /\ kv' = kv /\ status'[r] = "PREEMPTED"
        /\ in_flight' = in_flight /\ num_tokens' = num_tokens
        /\ stale'[r] = Len(in_flight'[r])
        /\ num_computed_tokens'[r] = 0 /\ num_output_placeholders'[r] = 0
    BY <1>1 DEF Types, Preempt, Leave
  <1>3. Types'
    BY <1>1 DEF Types, Preempt, Leave
  <1>4. Bounds(r)'
    BY <1>1, <1>2, Constants DEF Bounds
  <1>5. OthersSame(r)
    <2>1. req_to_blocks \in [Requests -> Seq(Blocks)]
      BY InvParts, CoreParts DEF TablesOK
    <2> QED BY <1>1, <2>1 DEF OthersSame, Same, Types, Preempt, Leave
  <1> QED BY <1>2, <1>3, <1>4, <1>5, IdleStays

(* finish_requests keeps the invariant.                                     *)
LEMMA InvAbort ==
  ASSUME Inv, NEW r \in Requests, Abort(r)
  PROVE Inv'
  <1>1. Types /\ Bounds(r)
    BY InvParts
  <1>2. /\ Leave(pool, r, "FINISHED") /\ kv' = kv /\ status'[r] = "FINISHED"
        /\ in_flight'[r] = <<>> /\ num_tokens' = num_tokens
        /\ stale'[r] = 0 /\ num_computed_tokens' = num_computed_tokens
    BY <1>1 DEF Types, Abort, Leave
  <1>3. Types'
    BY <1>1, NoSteps DEF Types, Abort, Leave
  <1>4. Bounds(r)'
    BY <1>1, <1>2, NoSteps DEF Bounds
  <1>5. OthersSame(r)
    <2>1. req_to_blocks \in [Requests -> Seq(Blocks)]
      BY InvParts, CoreParts DEF TablesOK
    <2> QED BY <1>1, <2>1 DEF OthersSame, Same, Types, Abort, Leave
  <1> QED BY <1>2, <1>3, <1>4, <1>5, IdleStays

(* reset_prefix_cache keeps the invariant.                                  *)
LEMMA InvReset ==
  ASSUME Inv, Reset
  PROVE Inv'
  <1>1. Core(pool, req_to_blocks, num_cached_block)
    BY DEF Inv
  <1>2. /\ CanReset(pool) /\ pool' = reset_prefix_cache(pool)
        /\ UNCHANGED <<req_to_blocks, num_cached_block, status, num_tokens, num_computed_tokens,
                       num_output_placeholders, spec_token_ids, in_flight, stale, kv>>
    BY DEF Reset, reqVars
  <1>3. /\ Core(pool', req_to_blocks, num_cached_block) /\ Believed(pool')
        /\ \A b \in Blocks : pool'.block_hash[b] = NoHash
    BY <1>1, <1>2, CoreReset
  <1>4. \A y \in Requests : RequestOK(y)' /\ ContentOK(y)'
    <2> SUFFICES ASSUME NEW y \in Requests PROVE RequestOK(y)' /\ ContentOK(y)'
      OBVIOUS
    <2>1. Same(y)
      BY <1>2 DEF Same
    <2>2. RequestOK(y) /\ ContentOK(y)
      BY DEF Inv
    <2>3. Known(y)' = Known(y)
      BY <1>2 DEF Known
    <2>4. ContentOK(y)'
      BY <1>2, <2>2, <2>3 DEF ContentOK
    <2> QED BY <2>1, <2>2, <2>4, RequestSame
  <1>5. Types'
    BY <1>2 DEF Inv, Types
  <1>6. EventsOK'
    BY <1>3 DEF EventsOK, EventsSound, Believed
  <1>7. CacheTruth'
    BY <1>3 DEF CacheTruth
  <1> QED BY <1>2, <1>3, <1>4, <1>5, <1>6, <1>7 DEF Inv

(* The pool at the start.                                                   *)
LEMMA PoolInitOK ==
  ASSUME NEW t, t = [r \in Requests |-> <<>>]
  PROVE PoolOK(PoolInit, t) /\ Believed(PoolInit) /\ PoolInit.block_hash = [b \in Blocks |-> NoHash]
  <1> DEFINE p == PoolInit
  <1>1. /\ p.ref_cnt = [b \in Blocks |-> 0] /\ p.block_hash = [b \in Blocks |-> NoHash]
        /\ p.cached = [h \in Hashes |-> <<>>] /\ p.free = [i \in 1 .. NumBlocks - 1 |-> i]
        /\ p.view = {} /\ p.failed = FALSE
    BY DEF PoolInit
  <1>2. NumBlocks \in Nat /\ NumBlocks >= 1 /\ null_block \in Blocks /\ NoHash \notin Hashes
    BY Constants, PoolAssumption
  <1>3. /\ p.free \in Seq(Blocks) /\ Len(p.free) = NumBlocks - 1
        /\ \A i \in 1 .. NumBlocks - 1 : p.free[i] = i
    BY <1>1, <1>2 DEF Blocks
  <1>4. PoolType(p)
    <2>1. <<>> \in Seq(Blocks)
      BY NoMembers
    <2>2. p.cached \in [Hashes -> Seq(Blocks)]
      BY <1>1, <2>1
    <2>3. /\ p.ref_cnt \in [Blocks -> Nat] /\ p.block_hash \in [Blocks -> Hashes \cup {NoHash}]
      BY <1>1
    <2>4. p.view \in SUBSET Hashes /\ p.failed \in BOOLEAN
      BY <1>1
    <2> QED BY <1>3, <2>2, <2>3, <2>4 DEF PoolType, PoolInit
  <1> HIDE DEF p
  <1>5. FreeExact(p)
    <2>1. ASSUME NEW b \in Blocks
          PROVE b \in ToSet(p.free) <=> (b # null_block /\ p.ref_cnt[b] = 0)
      <3>1. p.ref_cnt[b] = 0
        BY <1>1
      <3>2. b \in ToSet(p.free) <=> \E i \in 1 .. Len(p.free) : b = p.free[i]
        BY <1>3, MembersOf
      <3>3. b # null_block <=> b \in 1 .. NumBlocks - 1
        BY <1>2 DEF Blocks, null_block
      <3> QED BY <1>3, <3>1, <3>2, <3>3
    <2>2. \A i, j \in 1 .. Len(p.free) : p.free[i] = p.free[j] => i = j
      BY <1>3
    <2> QED BY <2>1, <2>2 DEF FreeExact
  <1>6. MapConsistent(p)
    <2>1. \A h \in Hashes : ToSet(p.cached[h]) = {} /\ Len(p.cached[h]) = 0
      BY <1>1, NoMembers
    <2>2. \A b \in Blocks : p.block_hash[b] = NoHash
      BY <1>1
    <2> QED BY <1>2, <2>1, <2>2 DEF MapConsistent
  <1>7. \A b \in Blocks : Holders(t, b) = {}
    BY NoMembers DEF Holders
  <1>8. CountsOK(p, t)
    <2>1. Cardinality({}) = 0
      BY FS_EmptySet
    <2> QED BY <1>1, <1>7, <2>1 DEF CountsOK
  <1>9. PrivateOK(p, t)
    BY <1>7 DEF PrivateOK
  <1>10. \A b \in Blocks : p.block_hash[b] = NoHash
    BY <1>1
  <1>11. PoolOK(p, t)
    BY <1>1, <1>4, <1>5, <1>6, <1>8, <1>9, <1>10 DEF PoolOK
  <1>12. Believed(p)
    BY <1>1 DEF Believed
  <1> QED BY <1>1, <1>11, <1>12 DEF p

(* The invariant holds at the start.                                        *)
LEMMA InvInit ==
  ASSUME Init
  PROVE Inv
  <1>1. /\ PoolOK(pool, req_to_blocks) /\ Believed(pool)
        /\ \A b \in Blocks : pool.block_hash[b] = NoHash
    BY PoolInitOK DEF Init
  <1>2. \A r \in Requests : req_to_blocks[r] = <<>>
    BY DEF Init
  <1>3. TablesOK(req_to_blocks)
    BY <1>2, NoMembers DEF TablesOK, Init
  <1>4. \A r \in Requests : HashesOK(pool, req_to_blocks[r], r, num_cached_block[r])
    BY <1>2, NoMembers DEF HashesOK
  <1>5. Core(pool, req_to_blocks, num_cached_block)
    <2>1. QueueOK(pool.block_hash, pool.free)
      <3>1. pool.free \in Seq(Blocks)
        BY <1>1, PoolParts, PoolFields
      <3>2. \A i \in 1 .. Len(pool.free) : pool.free[i] \in Blocks
        BY <3>1
      <3> QED BY <1>1, <3>2 DEF QueueOK, Extends
    <2>2. \A r \in Requests : ChainOK(pool, req_to_blocks[r], num_cached_block[r])
      <3>1. \A r \in Requests : num_cached_block[r] = -1
        BY DEF Init
      <3> QED BY <1>2, <3>1, NoMembers DEF ChainOK
    <2> QED BY <1>1, <1>3, <1>4, <2>1, <2>2 DEF Core, Linked
  <1>6. Types
    BY NoSteps, Constants DEF Types, Init
  <1>7. ASSUME NEW r \in Requests PROVE RequestOK(r) /\ ContentOK(r)
    <2>1. /\ num_tokens[r] \in NumPrompt[r] .. Len(Tokens[r]) /\ 0 \in 0 .. MaxModelLen
      <3>1. num_tokens[r] = NumPrompt[r]
        BY DEF Init
      <3>2. /\ Len(Tokens[r]) \in Nat /\ NumPrompt[r] \in Nat /\ NumPrompt[r] < Len(Tokens[r])
            /\ MaxModelLen \in Nat
        BY RequestConstants, Constants
      <3> QED BY <3>1, <3>2
    <2>2. Bounds(r)
      BY <2>1, NoSteps DEF Bounds, Init
    <2>3. status[r] = "WAITING"
      BY DEF Init
    <2>4. IdleOK(r)
      BY <1>2, NoSteps DEF IdleOK, Init
    <2> QED BY <2>2, <2>3, <2>4 DEF RequestOK, ContentOK
  <1>8. CacheTruth
    BY <1>1 DEF CacheTruth
  <1>9. EventsOK
    BY <1>1 DEF EventsOK, EventsSound, Believed
  <1> QED BY <1>5, <1>6, <1>7, <1>8, <1>9 DEF Inv

-----------------------------------------------------------------------------
(* A running request gets more tokens                                       *)

(* What is known of a running request, in the counters' values.             *)
LEMMA RunningFacts ==
  ASSUME Inv, NEW r \in Requests, status[r] = "RUNNING", NEW N, N = num_tokens[r],
         NEW C, C = num_computed_tokens[r], NEW P, P = num_output_placeholders[r],
         NEW x, x = in_flight[r], NEW s, s = req_to_blocks[r], NEW d, d = num_cached_block[r]
  PROVE /\ N \in Nat /\ C \in Nat /\ P \in Nat /\ x \in Seq(StepType) /\ s \in Seq(Blocks)
        /\ Len(s) \in Nat /\ d \in Nat /\ d <= Len(s) /\ N >= 1 /\ N <= Len(Tokens[r])
        /\ C <= MaxModelLen /\ stale[r] = 0 /\ StepsOK(x) /\ CountersOK(N, C, P, x)
        /\ TableOK(N, C, P, d, s, x) /\ Holds(kv, s, r, KnownOf(N, C, P))
        /\ KnownOf(N, C, P) <= C /\ KnownOf(N, C, P) <= N /\ KnownOf(N, C, P) \in Nat
        /\ RunningOK(r)
  <1>1. /\ Core(pool, req_to_blocks, num_cached_block) /\ Types /\ RequestOK(r) /\ Bounds(r)
        /\ ContentOK(r)
    BY InvParts
  <1>2. RunningOK(r)
    BY <1>1 DEF RequestOK
  <1>3. CountersOK(N, C, P, x) /\ TableOK(N, C, P, d, s, x) /\ stale[r] = 0
    BY <1>2 DEF RunningOK
  <1>4. N \in Nat /\ C \in Nat /\ P \in Nat /\ x \in Seq(StepType)
    BY <1>1 DEF Types
  <1>5. s \in Seq(Blocks) /\ Len(s) \in Nat
    BY <1>1, CoreParts
  <1>6. N >= 1 /\ N <= Len(Tokens[r]) /\ C <= MaxModelLen /\ StepsOK(x)
    <2>1. N \in NumPrompt[r] .. Len(Tokens[r]) /\ C \in 0 .. MaxModelLen /\ StepsOK(x)
      BY <1>1 DEF Bounds
    <2>2. Len(Tokens[r]) \in Nat /\ NumPrompt[r] \in Nat /\ NumPrompt[r] >= 1 /\ MaxModelLen \in Nat
      BY RequestConstants, Constants
    <2> QED BY <2>1, <2>2
  <1>7. Holds(kv, s, r, KnownOf(N, C, P))
    BY <1>1 DEF ContentOK, Known
  <1>8. KnownOf(N, C, P) <= C /\ KnownOf(N, C, P) <= N /\ KnownOf(N, C, P) \in Nat
    BY <1>3, <1>4 DEF CountersOK, KnownOf
  <1>9. d \in Nat /\ d <= Len(s)
    BY <1>3 DEF TableOK
  <1> QED BY <1>2, <1>3, <1>4, <1>5, <1>6, <1>7, <1>8, <1>9

(* The entries up to n stay in a table that gets new blocks behind them.    *)
LEMMA HoldsKept ==
  ASSUME NEW c, NEW s \in Seq(Blocks), NEW w, NEW r, NEW n \in Nat, NEW processed,
         Holds(c, s, r, n), Keeps(s, w, processed), n <= Len(s) * BlockSize
  PROVE Holds(c, w, r, n)
  <1>1. w \in Seq(Blocks) /\ Len(w) \in Nat /\ Len(s) \in Nat
    BY DEF Keeps
  <1>2. BlockSize \in Nat /\ BlockSize >= 1
    BY Constants
  <1> SUFFICES ASSUME NEW i \in 1 .. Len(w), NEW k \in 0 .. BlockSize - 1,
                      w[i] # null_block, Place(i, k) < n
               PROVE c[w[i]][k] = Right(r, i, k)
    BY DEF Holds, Place
  <1>3. i <= Len(s)
    <2> SUFFICES ASSUME ~(i <= Len(s)) PROVE FALSE
      OBVIOUS
    <2>1. Len(s) <= i - 1 /\ i - 1 \in Int
      BY <1>1
    <2>2. Len(s) * BlockSize <= (i - 1) * BlockSize
      BY <1>1, <1>2, <2>1, Times
    <2>3. Len(s) * BlockSize \in Int /\ (i - 1) * BlockSize \in Int
      BY <1>1, <1>2, <2>1
    <2> QED BY <1>2, <2>2, <2>3 DEF Place
  <1>4. i \in 1 .. Len(s)
    BY <1>1, <1>3
  <1>5. w[i] = s[i]
    BY <1>3 DEF Keeps
  <1> QED BY <1>4, <1>5 DEF Holds, Place

(* The table w of a request whose tokens up to C are in it.                 *)
LEMMA TableKept ==
  ASSUME NEW N, NEW C \in Nat, NEW P, NEW d, NEW s \in Seq(Blocks), NEW x, NEW w,
         TableOK(N, C, P, d, s, x),
         Keeps(s, w, C - Total(Sizes(x))), NEW E \in Nat, E <= Len(w) * BlockSize,
         NEW M, NEW Q, NEW e \in Nat, e <= Len(w), e * BlockSize <= KnownOf(M, E, Q), NEW y,
         E - Total(Sizes(y)) = C - Total(Sizes(x))
  PROVE TableOK(M, E, Q, e, w, y)
  <1>1. w \in Seq(Blocks) /\ Len(w) \in Nat /\ Len(s) \in Nat
    BY DEF Keeps
  <1>2. ASSUME NEW i \in 1 .. Len(w), w[i] = null_block
        PROVE i <= get_num_skipped_tokens(C - Total(Sizes(x))) \div BlockSize
    <2>1. i <= Len(s)
      BY <1>2 DEF Keeps
    <2>2. i \in 1 .. Len(s)
      BY <1>1, <2>1
    <2> QED BY <1>2, <2>1, <2>2 DEF Keeps, TableOK
  <1> QED BY <1>2 DEF TableOK

LEMMA InvScheduleRunning ==
  ASSUME Inv, NEW r \in Requests, NEW n0 \in 1 .. MaxBatchedTokens, ScheduleRunning(r, n0)
  PROVE Inv'
  <1>1. PICK N, C, P, x, s, d :
          /\ N = num_tokens[r] /\ C = num_computed_tokens[r] /\ P = num_output_placeholders[r]
          /\ x = in_flight[r] /\ s = req_to_blocks[r] /\ d = num_cached_block[r]
    OBVIOUS
  <1> DEFINE n == Lower(n0, MaxModelLen - C - 1)
             spec == Max0(n - (N + P - C))
             chunk == C + n < N + P
             y == Append(x, [n |-> n, spec |-> spec, chunk |-> chunk])
             Q == IF chunk THEN P ELSE P + (1 + spec)
             res == allocate_slots(pool, r, n, <<>>, TRUE)
             w == res.blocks
             K == KnownOf(N, C, P)
             t == [req_to_blocks EXCEPT ![r] = w]
             e == [num_cached_block EXCEPT ![r] = res.done]
  <1>2. /\ N \in Nat /\ C \in Nat /\ P \in Nat /\ x \in Seq(StepType) /\ s \in Seq(Blocks)
        /\ Len(s) \in Nat /\ d \in Nat /\ d <= Len(s) /\ N >= 1 /\ N <= Len(Tokens[r])
        /\ C <= MaxModelLen /\ stale[r] = 0 /\ StepsOK(x) /\ CountersOK(N, C, P, x)
        /\ TableOK(N, C, P, d, s, x) /\ Holds(kv, s, r, K)
        /\ K <= C /\ K <= N /\ K \in Nat /\ RunningOK(r)
    <2>1. status[r] = "RUNNING"
      BY DEF ScheduleRunning
    <2> QED BY <1>1, <2>1, RunningFacts
  <1>3. n \in Nat /\ n >= 1 /\ C + n <= MaxModelLen
    <2>1. n > 0
      BY <1>1 DEF ScheduleRunning
    <2> QED BY <1>2, <2>1, Constants DEF Lower
  <1>4. /\ pool' = res.pool /\ req_to_blocks' = t /\ num_cached_block' = e
        /\ IF res.ok
           THEN /\ Issue(r, C, n, spec, w)
                /\ UNCHANGED <<status, num_tokens, stale>>
           ELSE UNCHANGED <<status, num_tokens, num_computed_tokens, num_output_placeholders,
                            spec_token_ids, in_flight, stale, kv>>
    BY <1>1 DEF ScheduleRunning, reqVars
  <1>5. status[r] = "RUNNING"
    BY DEF ScheduleRunning
  <1> HIDE DEF n, res
  <1>6. /\ Core(pool, req_to_blocks, num_cached_block) /\ Types /\ Bounds(r) /\ Truth(pool, kv)
    BY InvParts
  <1>7. GivenMore(pool, res, r, n)
    BY <1>1, <1>2, <1>3, <1>6, AllocRunning DEF res
  <1>8. /\ Core(pool', req_to_blocks', num_cached_block')
        /\ NoMore(pool, pool', w) /\ (Believed(pool) => Believed(pool'))
        /\ Keeps(s, w, C - Total(Sizes(x)))
        /\ IF res.ok
           THEN C + n <= Len(w) * BlockSize /\ Caches(w, d, res.done, Lower(C + n, N))
           ELSE res.done = d /\ pool'.block_hash = pool.block_hash
    BY <1>1, <1>4, <1>7 DEF GivenMore, Processed, InFlightTokens
  <1>9. /\ t[r] = w /\ e[r] = res.done
        /\ \A z \in Requests : z # r => t[z] = req_to_blocks[z] /\ e[z] = num_cached_block[z]
        /\ e \in [Requests -> Int] <=> res.done \in Int
    <2>1. req_to_blocks \in [Requests -> Seq(Blocks)] /\ num_cached_block \in [Requests -> Int]
      BY <1>6 DEF Core, TablesOK, Types
    <2> QED BY <2>1
  <1> HIDE DEF t, e, w
  <1>10. K <= Len(s) * BlockSize /\ C <= Len(s) * BlockSize /\ Holds(kv, w, r, K)
    <2>1. C <= Len(s) * BlockSize /\ Len(s) * BlockSize \in Int
      BY <1>2, Constants DEF TableOK
    <2>2. K <= Len(s) * BlockSize
      BY <1>2, <2>1
    <2> HIDE DEF K
    <2> QED BY <1>2, <1>8, <2>1, <2>2, HoldsKept
  <1>11. Len(w) \in Nat /\ Len(s) <= Len(w) /\ BlockSize \in Nat /\ Len(w) * BlockSize \in Int
    <2>1. w \in Seq(Blocks) /\ Len(s) <= Len(w) /\ BlockSize \in Nat
      BY <1>8, Constants DEF Keeps
    <2> QED BY <2>1
  <1>12. EventsStay
    BY <1>8 DEF EventsStay
  <1>13. CASE res.ok
    <2>1. PICK m \in Nat : m = Lower(C + n, N)
      BY <1>2, <1>3 DEF Lower
    <2>2. spec \in Nat /\ Issued(N, C, P, x, n, y, Q)
      BY <1>2, <1>3, IssueCounters
    <2> HIDE DEF spec, chunk, y, Q
    <2>3. /\ y \in Seq(StepType) /\ StepsOK(y) /\ Q \in Nat /\ CountersOK(N, C + n, Q, y)
          /\ KnownOf(N, C + n, Q) = m
          /\ (C + n) - Total(Sizes(y)) = C - Total(Sizes(x))
      BY <2>1, <2>2 DEF Issued
    <2>4. /\ num_computed_tokens' = [num_computed_tokens EXCEPT ![r] = C + n]
          /\ in_flight' = [in_flight EXCEPT ![r] = y]
          /\ num_output_placeholders' = [num_output_placeholders EXCEPT ![r] = Q]
          /\ spec_token_ids' = [spec_token_ids EXCEPT ![r] = IF chunk THEN 0 ELSE NumSpec]
          /\ kv' = Written(kv, w, r, C, C + n - 1, N)
          /\ UNCHANGED <<status, num_tokens, stale>>
      BY <1>1, <1>4, <1>13 DEF Issue, output_placeholders, chunk, y, Q
    <2>5. /\ num_computed_tokens'[r] = C + n /\ in_flight'[r] = y /\ num_output_placeholders'[r] = Q
          /\ status'[r] = "RUNNING" /\ num_tokens'[r] = N /\ stale'[r] = 0
      BY <1>1, <1>2, <1>5, <1>6, <2>4 DEF Types
    <2>6. res.done \in Nat /\ res.done <= Len(w) /\ res.done * BlockSize <= m
      <3>1. d * BlockSize <= K /\ d * BlockSize \in Int
        BY <1>2, Constants DEF TableOK
      <3>2. K <= m
        BY <1>2, <1>3, <2>1 DEF Lower
      <3>3. d * BlockSize <= m
        <4> HIDE DEF K
        <4> QED BY <1>2, <3>1, <3>2
      <3>4. res.done \in Nat /\ (res.done = d \/ (res.done * BlockSize <= m /\ res.done <= Len(w)))
        BY <1>8, <1>13, <2>1 DEF Caches
      <3>5. d <= Len(w)
        BY <1>2, <1>11
      <3> QED BY <3>3, <3>4, <3>5
    <2>7. Types'
      <3>1. num_cached_block' \in [Requests -> Int]
        BY <1>4, <1>9, <2>6
      <3>2. C + n \in Nat /\ (IF chunk THEN 0 ELSE NumSpec) \in Nat
        BY <1>2, <1>3, Constants
      <3> QED BY <1>6, <2>3, <2>4, <3>1, <3>2 DEF Types
    <2>8. Bounds(r)'
      <3>1. num_tokens[r] \in NumPrompt[r] .. Len(Tokens[r])
        BY <1>6 DEF Bounds
      <3>2. 0 \in 0 .. Len(y) /\ C + n \in 0 .. MaxModelLen
        BY <1>2, <1>3, <2>3, Constants
      <3> QED BY <1>1, <2>3, <2>5, <3>1, <3>2 DEF Bounds
    <2>9. TableOK(N, C + n, Q, res.done, w, y)
      <3>1. C + n \in Nat /\ C + n <= Len(w) * BlockSize
        BY <1>2, <1>3, <1>8, <1>13
      <3> QED BY <1>2, <1>8, <2>3, <2>6, <3>1, TableKept
    <2>10. RequestOK(r)'
      <3>1. req_to_blocks'[r] = w /\ num_cached_block'[r] = res.done
        BY <1>4, <1>9
      <3> QED BY <2>3, <2>5, <2>8, <2>9, <3>1 DEF RequestOK, RunningOK
    <2>11. Covered(m, N, K, C, C + n - 1)
      BY <1>2, <1>3, <2>1 DEF Covered, Lower, KnownOf, CountersOK
    <2>12. CanWrite(pool, pool', t, e, r, kv, C, C + n - 1)
      <3>1. C + n - 1 \in Int /\ C + n - 1 < Len(w) * BlockSize
        BY <1>2, <1>3, <1>8, <1>11, <1>13
      <3> QED BY <1>2, <1>4, <1>6, <1>8, <1>9, <3>1 DEF CanWrite
    <2>13. /\ Truth(pool', kv') /\ Holds(kv', w, r, m)
           /\ \A z \in Requests : \A k : z # r /\ Holds(kv, t[z], z, k) => Holds(kv', t[z], z, k)
      <3> HIDE DEF K
      <3> QED BY <1>9, <1>10, <2>4, <2>6, <2>11, <2>12, WriteOK
    <2>14. OthersHold(r, kv, kv')
      BY <1>9, <2>13 DEF OthersHold
    <2>15. ContentOK(r)'
      BY <1>4, <1>9, <2>3, <2>5, <2>13 DEF ContentOK, Known
    <2>16. OthersSame(r)
      BY <1>4, <1>6, <1>9, <2>4 DEF OthersSame, Same, Types
    <2> QED BY <1>8, <1>12, <2>7, <2>10, <2>13, <2>14, <2>15, <2>16, Frame
  <1>14. CASE ~res.ok
    <2>1. /\ UNCHANGED <<status, num_tokens, num_computed_tokens, num_output_placeholders,
                          spec_token_ids, in_flight, stale, kv>>
          /\ res.done = d /\ pool'.block_hash = pool.block_hash
      BY <1>4, <1>8, <1>14
    <2>2. Types'
      <3>1. num_cached_block' \in [Requests -> Int]
        BY <1>2, <1>4, <1>9, <2>1
      <3> QED BY <1>6, <2>1, <3>1 DEF Types
    <2>3. req_to_blocks'[r] = w /\ num_cached_block'[r] = d
      BY <1>4, <1>9, <2>1
    <2>4. TableOK(N, C, P, d, w, x)
      <3>1. d <= Len(w)
        BY <1>2, <1>11
      <3>2. C <= Len(w) * BlockSize
        <4>1. PICK a \in Int, b \in Int : a = Len(s) /\ b = Len(w) /\ a <= b
          BY <1>2, <1>11
        <4>2. a * BlockSize <= b * BlockSize /\ a * BlockSize \in Int /\ b * BlockSize \in Int
          BY <1>11, <4>1, Times
        <4>3. C <= a * BlockSize
          BY <1>10, <4>1
        <4>4. C <= b * BlockSize
          <5>1. C \in Int
            BY <1>2
          <5> QED BY <4>2, <4>3, <5>1
        <4> QED BY <4>1, <4>4
      <3>3. d * BlockSize <= KnownOf(N, C, P)
        BY <1>2 DEF TableOK
      <3> QED BY <1>2, <1>8, <3>1, <3>2, <3>3, TableKept
    <2>5. RequestOK(r)'
      BY <1>1, <1>2, <1>5, <1>6, <2>1, <2>3, <2>4 DEF RequestOK, RunningOK, Bounds
    <2>6. ContentOK(r)'
      BY <1>1, <1>10, <2>1, <2>3 DEF ContentOK, Known
    <2>7. Truth(pool', kv')
      BY <1>6, <2>1, TruthSame
    <2>8. OthersHold(r, kv, kv')
      BY <2>1 DEF OthersHold
    <2>9. OthersSame(r)
      BY <1>4, <1>9, <2>1 DEF OthersSame, Same
    <2> QED BY <1>8, <1>12, <2>2, <2>5, <2>6, <2>7, <2>8, <2>9, Frame
  <1> QED BY <1>13, <1>14

-----------------------------------------------------------------------------
(* A waiting request is admitted                                            *)

LEMMA HitShown ==
  ASSUME Inv, NEW r \in Requests, NEW N, N = num_tokens[r]
  PROVE LET h == get_computed_blocks(pool, r) IN
        h \in Seq(Blocks) /\ Len(h) \in Nat /\ IsHit(pool, r, h, N - 1)
  <1> DEFINE h == get_computed_blocks(pool, r)
  <1>1. PICK max \in Nat : max = N - 1 /\ max <= Len(Tokens[r])
    <2>1. N \in NumPrompt[r] .. Len(Tokens[r])
      BY InvParts DEF Bounds
    <2>2. Len(Tokens[r]) \in Nat /\ NumPrompt[r] \in Nat /\ NumPrompt[r] >= 1
      BY RequestConstants
    <2>3. N - 1 \in Nat /\ N - 1 <= Len(Tokens[r])
      BY <2>1, <2>2
    <2> QED BY <2>3
  <1>2. CASE prefix_cache_lookup_enabled(r)
    <2>1. PoolType(pool) /\ MapConsistent(pool)
      BY InvParts, CoreParts, PoolParts
    <2>2. h = find_longest_cache_hit(pool, block_hashes(r), max)
      BY <1>1, <1>2 DEF get_computed_blocks
    <2>3. h \in Seq(Blocks) /\ IsHit(pool, r, h, max)
      BY <1>1, <2>1, <2>2, HitIs
    <2> HIDE DEF h
    <2>4. Len(h) \in Nat
      BY <2>3
    <2> QED BY <1>1, <2>3, <2>4 DEF h
  <1>3. CASE ~prefix_cache_lookup_enabled(r)
    <2>1. h = <<>>
      BY <1>3 DEF get_computed_blocks
    <2>2. <<>> \in Seq(Blocks) /\ Len(<<>>) = 0 /\ 0 * BlockSize = 0
      BY NoMembers, Constants
    <2>3. Len(Tokens[r]) \div BlockSize \in Nat
      BY RequestConstants
    <2> HIDE DEF h
    <2>4. IsHit(pool, r, h, max)
      BY <1>1, <2>1, <2>2, <2>3 DEF IsHit
    <2> QED BY <1>1, <2>1, <2>2, <2>4 DEF h
  <1> QED BY <1>2, <1>3

(* The blocks of a hit hold the entries of the prefix.                      *)
LEMMA HitHolds ==
  ASSUME NEW p, NEW c, Truth(p, c), NEW r \in Requests, NEW s \in Seq(Blocks), NEW max,
         IsHit(p, r, s, max), NEW w, Starts(p, r, s, w)
  PROVE Holds(c, w, r, Len(s) * BlockSize)
  <1>1. w \in Seq(Blocks) /\ Len(w) \in Nat /\ Len(s) \in Nat /\ BlockSize \in Nat /\ BlockSize >= 1
    BY Constants DEF Starts
  <1> SUFFICES ASSUME NEW i \in 1 .. Len(w), NEW k \in 0 .. BlockSize - 1,
                      w[i] # null_block, Place(i, k) < Len(s) * BlockSize
               PROVE c[w[i]][k] = Right(r, i, k)
    BY DEF Holds, Place
  <1>2. i <= Len(s)
    <2> SUFFICES ASSUME ~(i <= Len(s)) PROVE FALSE
      OBVIOUS
    <2>1. Len(s) <= i - 1 /\ i - 1 \in Int
      BY <1>1
    <2>2. Len(s) * BlockSize <= (i - 1) * BlockSize
      BY <1>1, <2>1, Times
    <2>3. Len(s) * BlockSize \in Int /\ (i - 1) * BlockSize \in Int
      BY <1>1, <2>1
    <2> QED BY <1>1, <2>2, <2>3 DEF Place
  <1>3. p.block_hash[w[i]] = block_hashes(r)[i]
    BY <1>2 DEF Starts
  <1>4. i \in 1 .. Len(Tokens[r]) \div BlockSize
    <2>1. Len(s) <= Len(Tokens[r]) \div BlockSize /\ Len(Tokens[r]) \div BlockSize \in Nat
      BY RequestConstants DEF IsHit
    <2>2. PICK b \in Nat : b = Len(Tokens[r]) \div BlockSize
      BY <2>1
    <2>3. PICK a \in Nat : a = Len(s)
      BY <1>1
    <2>4. i <= a /\ a <= b /\ i \in 1 .. Len(w)
      BY <1>2, <2>1, <2>2, <2>3
    <2>5. i \in 1 .. b
      BY <2>4
    <2> QED BY <2>2, <2>5
  <1> DEFINE h == block_hashes(r)[i]
  <1>5. h # NoHash /\ SubSeq(h, 1, Len(h) - BlockSize + k + 1) = Right(r, i, k)
    BY <1>4, HashIs
  <1>6. w[i] \in Blocks
    BY <1>1
  <1> HIDE DEF h
  <1> QED BY <1>3, <1>5, <1>6 DEF Truth, TruthAt, h

LEMMA InvScheduleWaiting ==
  ASSUME Inv, NEW r \in Requests, NEW n \in 1 .. MaxBatchedTokens, NEW has,
         ScheduleWaiting(r, n, has)
  PROVE Inv'
  <1>1. PICK N : N = num_tokens[r]
    OBVIOUS
  <1>2. PICK P \in Nat : P = 0
    OBVIOUS
  <1> DEFINE h == get_computed_blocks(pool, r)
             q == report_hit(pool, r, h)
             C == Len(h) * BlockSize
             spec == Max0(n - (N + P - C))
             chunk == C + n < N + P
             x == <<>>
             y == Append(x, [n |-> n, spec |-> spec, chunk |-> chunk])
             Q == IF chunk THEN P ELSE P + (1 + spec)
             res == allocate_slots(q, r, n, h, has)
             w == res.blocks
             t == [req_to_blocks EXCEPT ![r] = w]
             e == [num_cached_block EXCEPT ![r] = res.done]
  <1>3. /\ Core(pool, req_to_blocks, num_cached_block) /\ Types /\ RequestOK(r) /\ Bounds(r)
        /\ Truth(pool, kv)
    BY InvParts
  <1>4. /\ status[r] # "RUNNING" /\ status[r] # "FINISHED" /\ stale[r] = 0
        /\ n <= N - C /\ pool' = res.pool /\ req_to_blocks' = t /\ num_cached_block' = e
        /\ IF res.ok
           THEN /\ Issue(r, C, n, 0, w) /\ status' = [status EXCEPT ![r] = "RUNNING"]
                /\ UNCHANGED <<num_tokens, stale>>
           ELSE UNCHANGED <<status, num_tokens, num_computed_tokens, num_output_placeholders,
                            spec_token_ids, in_flight, stale, kv>>
    BY <1>1 DEF ScheduleWaiting, reqVars
  <1>5. IdleOK(r)
    BY <1>3, <1>4 DEF RequestOK
  <1>6. /\ num_output_placeholders[r] = 0 /\ in_flight[r] = <<>>
        /\ req_to_blocks[r] = <<>> /\ num_cached_block[r] = -1
    <2>1. /\ num_output_placeholders[r] = 0 /\ Len(in_flight[r]) = 0
          /\ req_to_blocks[r] = <<>> /\ num_cached_block[r] = -1
      BY <1>4, <1>5 DEF IdleOK
    <2>2. in_flight[r] \in Seq(StepType)
      BY <1>3 DEF Types
    <2> QED BY <2>1, <2>2, EmptyIs
  <1>7. h \in Seq(Blocks) /\ Len(h) \in Nat /\ IsHit(pool, r, h, N - 1)
    BY <1>1, HitShown
  <1> HIDE DEF h
  <1>8. N \in Nat /\ C \in Nat /\ C <= N - 1 /\ n \in Nat /\ n >= 1 /\ C + n <= N
        /\ N <= Len(Tokens[r]) /\ BlockSize \in Nat
    <2>1. N \in Nat /\ N <= Len(Tokens[r])
      <3>1. N \in NumPrompt[r] .. Len(Tokens[r])
        BY <1>1, <1>3 DEF Bounds
      <3> QED BY <3>1, RequestConstants
    <2>2. C \in Nat /\ BlockSize \in Nat
      <3>1. \A a, b \in Nat : a * b \in Nat
        OBVIOUS
      <3> QED BY <1>7, <3>1, Constants
    <2>3. C <= N - 1
      BY <1>7 DEF IsHit
    <2>4. n \in Nat /\ n >= 1
      BY Constants
    <2>5. n <= N - C
      BY <1>4
    <2> HIDE DEF C
    <2> QED BY <2>1, <2>2, <2>3, <2>4, <2>5
  <1>9. /\ Core(q, req_to_blocks, num_cached_block) /\ q.block_hash = pool.block_hash
        /\ IsHit(q, r, h, N - 1)
        /\ (SlidingWindow = 0 \/ ~ReportFull) /\ Believed(pool) => Believed(q)
    BY <1>3, <1>7, CoreReport
  <1> HIDE DEF q
  <1>10. Admitted(q, res, r, n, h)
    <2>1. CanStart(q, r, n, h)
      BY <1>1, <1>3, <1>4, <1>5, <1>8, <1>9 DEF CanStart
    <2> QED BY <1>7, <1>8, <1>9, <2>1, AllocFresh
  <1> HIDE DEF res
  <1>11. /\ Core(pool', req_to_blocks', num_cached_block')
         /\ NoMore(q, pool', w) /\ (Believed(q) => Believed(pool'))
         /\ IF res.ok
            THEN /\ Starts(q, r, h, w) /\ C + n <= Len(w) * BlockSize
                 /\ Caches(w, Len(h), res.done, Lower(C + n, N))
            ELSE w = <<>> /\ res.done = -1
    BY <1>1, <1>4, <1>10 DEF Admitted
  <1>12. /\ t[r] = w /\ e[r] = res.done
         /\ \A z \in Requests : z # r => t[z] = req_to_blocks[z] /\ e[z] = num_cached_block[z]
         /\ e \in [Requests -> Int] <=> res.done \in Int
    <2>1. req_to_blocks \in [Requests -> Seq(Blocks)] /\ num_cached_block \in [Requests -> Int]
      BY <1>3 DEF Core, TablesOK, Types
    <2> QED BY <2>1
  <1> HIDE DEF t, e, w
  <1>13. SlidingWindow = 0 \/ ~ReportFull => EventsStay
    BY <1>9, <1>11 DEF EventsStay
  <1>14. Truth(q, kv)
    BY <1>3, <1>9, TruthSame
  <1>15. CASE res.ok
    <2>1. PICK m \in Nat : m = Lower(C + n, N)
      BY <1>8 DEF Lower
    <2>2. /\ x \in Seq(StepType) /\ StepsOK(x) /\ Total(Sizes(x)) = 0 /\ Total(Outputs(x)) = 0
      BY NoSteps
    <2>3. CountersOK(N, C, P, x)
      BY <1>2, <1>8, <2>2 DEF CountersOK
    <2>4. spec \in Nat /\ Issued(N, C, P, x, n, y, Q) /\ spec = 0
      <3>1. spec = 0
        BY <1>2, <1>8 DEF Max0
      <3> HIDE DEF C
      <3> QED BY <1>8, <2>2, <2>3, <3>1, IssueCounters
    <2>5. /\ num_computed_tokens' = [num_computed_tokens EXCEPT ![r] = C + n]
          /\ in_flight' = [in_flight EXCEPT ![r] = y]
          /\ num_output_placeholders' = [num_output_placeholders EXCEPT ![r] = Q]
          /\ spec_token_ids' = [spec_token_ids EXCEPT ![r] = IF chunk THEN 0 ELSE NumSpec]
          /\ kv' = Written(kv, w, r, C, C + n - 1, N)
          /\ status' = [status EXCEPT ![r] = "RUNNING"]
          /\ UNCHANGED <<num_tokens, stale>>
      <3> HIDE DEF C, spec
      <3> QED BY <1>1, <1>2, <1>4, <1>6, <1>15, <2>4 DEF Issue, output_placeholders
    <2> HIDE DEF spec, chunk, y, Q, x
    <2>6. /\ y \in Seq(StepType) /\ StepsOK(y) /\ Q \in Nat /\ CountersOK(N, C + n, Q, y)
          /\ KnownOf(N, C + n, Q) = m
          /\ (C + n) - Total(Sizes(y)) = C
      BY <1>8, <2>1, <2>2, <2>4 DEF Issued
    <2>7. /\ num_computed_tokens'[r] = C + n /\ in_flight'[r] = y /\ num_output_placeholders'[r] = Q
          /\ status'[r] = "RUNNING" /\ num_tokens'[r] = N /\ stale'[r] = 0
      BY <1>1, <1>3, <1>4, <2>5 DEF Types
    <2>8. w \in Seq(Blocks) /\ Len(w) \in Nat /\ Len(h) <= Len(w) /\ Len(w) * BlockSize \in Int
      <3>1. w \in Seq(Blocks) /\ Len(h) <= Len(w)
        BY <1>11, <1>15 DEF Starts
      <3> QED BY <1>8, <3>1
    <2>9. res.done \in Nat /\ res.done <= Len(w) /\ res.done * BlockSize <= m
      <3>1. Len(h) * BlockSize <= m
        BY <1>8, <2>1 DEF Lower
      <3>2. res.done \in Nat /\ (res.done = Len(h) \/ (res.done * BlockSize <= m /\ res.done <= Len(w)))
        BY <1>11, <1>15, <2>1 DEF Caches
      <3> QED BY <2>8, <3>1, <3>2
    <2>10. Types'
      <3>1. num_cached_block' \in [Requests -> Int]
        BY <1>4, <1>12, <2>9
      <3>2. C + n \in Nat /\ (IF chunk THEN 0 ELSE NumSpec) \in Nat
        BY <1>8, Constants
      <3> HIDE DEF C
      <3> QED BY <1>3, <2>5, <2>6, <3>1, <3>2 DEF Types
    <2>11. Bounds(r)'
      <3>1. num_tokens[r] \in NumPrompt[r] .. Len(Tokens[r])
        BY <1>3 DEF Bounds
      <3>2. 0 \in 0 .. Len(y) /\ C + n \in 0 .. MaxModelLen
        <4>1. Len(Tokens[r]) <= MaxModelLen /\ Len(Tokens[r]) \in Nat /\ MaxModelLen \in Nat
          BY RequestConstants, Constants
        <4>2. Len(y) \in Nat
          BY <2>6
        <4> HIDE DEF C
        <4> QED BY <1>8, <4>1, <4>2
      <3> QED BY <1>1, <2>6, <2>7, <3>1, <3>2 DEF Bounds
    <2>12. TableOK(N, C + n, Q, res.done, w, y)
      <3>1. ASSUME NEW i \in 1 .. Len(w), w[i] = null_block
            PROVE i <= get_num_skipped_tokens(C) \div BlockSize
        BY <1>11, <1>15, <3>1 DEF Starts, Reach
      <3> HIDE DEF C
      <3> QED BY <1>11, <1>15, <2>6, <2>9, <3>1 DEF TableOK
    <2>13. RequestOK(r)'
      <3>1. req_to_blocks'[r] = w /\ num_cached_block'[r] = res.done
        BY <1>4, <1>12
      <3> HIDE DEF C
      <3> QED BY <2>6, <2>7, <2>11, <2>12, <3>1 DEF RequestOK, RunningOK
    <2>14. Covered(m, N, C, C, C + n - 1)
      <3> HIDE DEF C
      <3> QED BY <1>8, <2>1 DEF Covered, Lower
    <2>15. CanWrite(q, pool', t, e, r, kv, C, C + n - 1)
      <3>1. C + n - 1 \in Int /\ C + n - 1 < Len(w) * BlockSize
        BY <1>8, <1>11, <1>15, <2>8
      <3> HIDE DEF C
      <3> QED BY <1>4, <1>8, <1>11, <1>12, <1>14, <3>1 DEF CanWrite
    <2>16. Holds(kv, w, r, C)
      BY <1>7, <1>9, <1>11, <1>14, <1>15, HitHolds
    <2>17. /\ Truth(pool', kv') /\ Holds(kv', w, r, m)
           /\ \A z \in Requests : \A k : z # r /\ Holds(kv, t[z], z, k) => Holds(kv', t[z], z, k)
      <3> HIDE DEF C
      <3> QED BY <1>12, <2>5, <2>9, <2>14, <2>15, <2>16, WriteOK
    <2>18. OthersHold(r, kv, kv')
      BY <1>12, <2>17 DEF OthersHold
    <2>19. ContentOK(r)'
      BY <1>4, <1>12, <2>6, <2>7, <2>17 DEF ContentOK, Known
    <2>20. OthersSame(r)
      BY <1>3, <1>4, <1>12, <2>5 DEF OthersSame, Same, Types
    <2> QED BY <1>11, <1>13, <2>10, <2>13, <2>17, <2>18, <2>19, <2>20, Frame
  <1>16. CASE ~res.ok
    <2>1. /\ UNCHANGED <<status, num_tokens, num_computed_tokens, num_output_placeholders,
                          spec_token_ids, in_flight, stale, kv>>
          /\ w = <<>> /\ res.done = -1
      BY <1>4, <1>11, <1>16
    <2>2. Types'
      <3>1. num_cached_block' \in [Requests -> Int]
        BY <1>4, <1>12, <2>1
      <3> QED BY <1>3, <2>1, <3>1 DEF Types
    <2>3. req_to_blocks'[r] = <<>> /\ num_cached_block'[r] = -1
      BY <1>4, <1>12, <2>1
    <2>4. RequestOK(r)'
      BY <1>3, <1>4, <1>5, <2>1, <2>3 DEF RequestOK, IdleOK, Bounds
    <2>5. ContentOK(r)'
      BY <1>4, <2>1 DEF ContentOK
    <2>6. Truth(pool', kv')
      <3>1. \A b \in Blocks : pool'.block_hash[b] # NoHash => pool'.block_hash[b] = q.block_hash[b]
        BY <1>11, <2>1, NoMembers DEF NoMore
      <3> QED BY <1>14, <2>1, <3>1 DEF Truth, TruthAt
    <2>7. OthersHold(r, kv, kv')
      BY <2>1 DEF OthersHold
    <2>8. OthersSame(r)
      BY <1>4, <1>12, <2>1 DEF OthersSame, Same
    <2> QED BY <1>11, <1>13, <2>2, <2>4, <2>5, <2>6, <2>7, <2>8, Frame
  <1> QED BY <1>15, <1>16

-----------------------------------------------------------------------------
(* The output of the oldest step                                            *)

LEMMA LessSkipped ==
  ASSUME NEW a \in Int, NEW b \in Int, a <= b
  PROVE get_num_skipped_tokens(a) \div BlockSize <= get_num_skipped_tokens(b) \div BlockSize
  <1> DEFINE k == get_num_skipped_tokens(a)
             l == get_num_skipped_tokens(b)
  <1>1. k \in Int /\ l \in Int /\ k <= l /\ BlockSize \in Nat /\ BlockSize >= 1
    BY Constants DEF get_num_skipped_tokens, Max0
  <1> HIDE DEF k, l
  <1>2. k \div BlockSize <= l \div BlockSize
    BY <1>1, DivMono
  <1> QED BY <1>2 DEF k, l

(* The table stays; outputs of the steps x leave the steps y.               *)
LEMMA TableLater ==
  ASSUME NEW N, NEW C \in Nat, NEW P, NEW d, NEW s \in Seq(Blocks), NEW x \in Seq(StepType),
         TableOK(N, C, P, d, s, x),
         NEW M, NEW D \in Nat, D <= C, NEW Q, NEW e \in Nat, e <= Len(s),
         e * BlockSize <= KnownOf(M, D, Q), NEW y \in Seq(StepType),
         C - Total(Sizes(x)) <= D - Total(Sizes(y))
  PROVE TableOK(M, D, Q, e, s, y)
  <1>1. Total(Sizes(x)) \in Nat /\ Total(Sizes(y)) \in Nat /\ Len(s) \in Nat
    BY StepsFacts
  <1> DEFINE k == get_num_skipped_tokens(C - Total(Sizes(x))) \div BlockSize
             l == get_num_skipped_tokens(D - Total(Sizes(y))) \div BlockSize
  <1>2. k <= l
    BY <1>1, LessSkipped
  <1>3. k \in Int /\ l \in Int
    <2>1. /\ get_num_skipped_tokens(C - Total(Sizes(x))) \in Int
          /\ get_num_skipped_tokens(D - Total(Sizes(y))) \in Int
      BY <1>1, Constants DEF get_num_skipped_tokens, Max0
    <2> QED BY <2>1, DivIs, Constants
  <1>4. C <= Len(s) * BlockSize /\ \A i \in 1 .. Len(s) : s[i] = null_block => i <= k
    BY DEF TableOK
  <1> HIDE DEF k, l
  <1>5. \A i \in 1 .. Len(s) : s[i] = null_block => i <= l
    BY <1>1, <1>2, <1>3, <1>4
  <1>6. D <= Len(s) * BlockSize
    <2>1. Len(s) * BlockSize \in Int
      BY <1>1, Constants
    <2> QED BY <1>4, <2>1
  <1> QED BY <1>5, <1>6 DEF TableOK, l

(* What every output does to a request.                                     *)
LEMMA OutputFacts ==
  ASSUME Inv, NEW r \in Requests, status[r] # "FINISHED", in_flight[r] # <<>>,
         NEW x, x = in_flight[r], NEW N, N = num_tokens[r]
  PROVE /\ x \in Seq(StepType) /\ Head(x) \in StepType /\ Head(x).spec \in Nat
        /\ Head(x).chunk \in BOOLEAN /\ Len(x) \in Nat /\ Len(x) >= 1
        /\ Tail(x) \in Seq(StepType) /\ StepsOK(Tail(x)) /\ Len(Tail(x)) = Len(x) - 1
        /\ N \in Nat /\ N >= NumPrompt[r] /\ NumPrompt[r] \in Nat
        /\ Len(Tokens[r]) \in Nat /\ N <= Len(Tokens[r])
        /\ num_computed_tokens[r] \in 0 .. MaxModelLen
        /\ status[r] # "RUNNING" => stale[r] = Len(x) /\ num_computed_tokens[r] = 0
                                    /\ num_output_placeholders[r] = 0
  <1>1. Types /\ RequestOK(r) /\ Bounds(r)
    BY InvParts
  <1>2. x \in Seq(StepType) /\ x # <<>>
    BY <1>1 DEF Types
  <1>3. Tail(x) \in Seq(StepType) /\ StepsOK(Tail(x)) /\ Len(Tail(x)) = Len(x) - 1
    BY <1>1, <1>2, TailOK DEF Bounds
  <1>4. Head(x) \in StepType
    BY <1>2
  <1>5. Len(x) \in Nat /\ Len(x) >= 1
    BY <1>2
  <1>6. /\ N \in NumPrompt[r] .. Len(Tokens[r]) /\ num_computed_tokens[r] \in 0 .. MaxModelLen
        /\ Len(Tokens[r]) \in Nat /\ NumPrompt[r] \in Nat
    BY <1>1, RequestConstants DEF Bounds
  <1>7. N \in Nat /\ N >= NumPrompt[r] /\ N <= Len(Tokens[r])
    BY <1>6
  <1>8. status[r] # "RUNNING" => stale[r] = Len(x) /\ num_computed_tokens[r] = 0
                                 /\ num_output_placeholders[r] = 0
    BY <1>1 DEF RequestOK, IdleOK
  <1> QED BY <1>2, <1>3, <1>4, <1>5, <1>6, <1>7, <1>8 DEF StepType

(* An output that leaves the blocks and their contents alone: one issued    *)
(* before a preemption, or that of a chunk of a prefill.                    *)
Quiet(r, M) ==
  /\ num_tokens' = [num_tokens EXCEPT ![r] = M] /\ kv' = kv
  /\ num_computed_tokens' = num_computed_tokens
  /\ num_output_placeholders' = num_output_placeholders
  /\ spec_token_ids' = spec_token_ids
  /\ stale' = [stale EXCEPT ![r] = IF M = Len(Tokens[r]) THEN 0 ELSE Max0(@ - 1)]
  /\ IF M = Len(Tokens[r])
     THEN /\ Leave(pool, r, "FINISHED")
          /\ in_flight' = [in_flight EXCEPT ![r] = <<>>]
     ELSE /\ in_flight' = [in_flight EXCEPT ![r] = Tail(@)]
          /\ UNCHANGED <<pool, num_cached_block, req_to_blocks, status>>

LEMMA QuietOutput ==
  ASSUME Inv, NEW r \in Requests, NEW a \in 0 .. NumSpec, UpdateFromOutput(r, a),
         NEW x, x = in_flight[r], NEW N, N = num_tokens[r], stale[r] > 0 \/ Head(x).chunk
  PROVE \E M \in Nat : /\ Quiet(r, M) /\ N <= M /\ M <= Len(Tokens[r])
                       /\ ~(stale[r] > 0) => M = N
  <1>1. Types /\ a \in Nat
    BY InvParts, Constants
  <1>2. status[r] # "FINISHED" /\ in_flight[r] # <<>>
    BY DEF UpdateFromOutput
  <1>3. N \in Nat /\ Len(Tokens[r]) \in Nat /\ N <= Len(Tokens[r]) /\ Head(x).chunk \in BOOLEAN
    BY <1>2, OutputFacts
  <1> DEFINE gen == IF Head(x).chunk THEN 0 ELSE Lower(a + 1, Len(Tokens[r]) - N)
             M == N + gen
  <1>4. gen \in Nat /\ M <= Len(Tokens[r])
    BY <1>1, <1>3 DEF Lower
  <1>5. ~(stale[r] > 0) => gen = 0
    OBVIOUS
  <1>6. num_tokens' = [num_tokens EXCEPT ![r] = M] /\ kv' = kv /\ spec_token_ids' = spec_token_ids
    BY DEF UpdateFromOutput
  <1>7. num_computed_tokens' = num_computed_tokens
    <2>1. num_computed_tokens' = [num_computed_tokens EXCEPT ![r] = num_computed_tokens[r] - 0]
      BY DEF UpdateFromOutput
    <2> QED BY <1>1, <2>1 DEF Types
  <1>8. num_output_placeholders' = num_output_placeholders
    <2>1. num_output_placeholders' = [num_output_placeholders EXCEPT ![r] = num_output_placeholders[r] - 0]
      <3>1. CASE stale[r] > 0
        BY <3>1 DEF UpdateFromOutput
      <3>2. CASE ~(stale[r] > 0)
        <4>1. num_output_placeholders' = [num_output_placeholders EXCEPT ![r] = num_output_placeholders[r] - (0 + 0)]
          BY <3>2 DEF UpdateFromOutput
        <4> QED BY <4>1
      <3> QED BY <3>1, <3>2
    <2> QED BY <1>1, <2>1 DEF Types
  <1>9. stale' = [stale EXCEPT ![r] = IF M = Len(Tokens[r]) THEN 0 ELSE Max0(@ - 1)]
    BY DEF UpdateFromOutput
  <1>10. IF M = Len(Tokens[r])
         THEN /\ Leave(pool, r, "FINISHED")
              /\ in_flight' = [in_flight EXCEPT ![r] = <<>>]
         ELSE /\ pool' = pool /\ num_cached_block' = [num_cached_block EXCEPT ![r] = num_cached_block[r]]
              /\ in_flight' = [in_flight EXCEPT ![r] = Tail(@)]
              /\ UNCHANGED <<req_to_blocks, status>>
    BY DEF UpdateFromOutput
  <1>11. num_cached_block = [num_cached_block EXCEPT ![r] = num_cached_block[r]]
    BY <1>1 DEF Types
  <1> HIDE DEF gen
  <1>12. M \in Nat /\ N <= M /\ (~(stale[r] > 0) => M = N)
    BY <1>3, <1>4, <1>5
  <1> HIDE DEF M
  <1>13. Quiet(r, M)
    BY <1>6, <1>7, <1>8, <1>9, <1>10, <1>11 DEF Quiet
  <1> QED BY <1>4, <1>12, <1>13 DEF M

LEMMA InvQuiet ==
  ASSUME Inv, NEW r \in Requests, status[r] # "FINISHED", in_flight[r] # <<>>,
         NEW M \in Nat, Quiet(r, M), NEW N, N = num_tokens[r], N <= M, M <= Len(Tokens[r]),
         ~(stale[r] > 0) => M = N /\ Head(in_flight[r]).chunk
  PROVE Inv'
  <1>1. PICK x : x = in_flight[r]
    OBVIOUS
  <1>2. /\ x \in Seq(StepType) /\ Len(x) \in Nat /\ Len(x) >= 1
        /\ Tail(x) \in Seq(StepType) /\ StepsOK(Tail(x)) /\ Len(Tail(x)) = Len(x) - 1
        /\ N \in Nat /\ N >= NumPrompt[r] /\ NumPrompt[r] \in Nat /\ Len(Tokens[r]) \in Nat
        /\ num_computed_tokens[r] \in 0 .. MaxModelLen
        /\ status[r] # "RUNNING" => stale[r] = Len(x) /\ num_computed_tokens[r] = 0
                                    /\ num_output_placeholders[r] = 0
    BY <1>1, OutputFacts
  <1>3. /\ Core(pool, req_to_blocks, num_cached_block) /\ Types /\ RequestOK(r) /\ Bounds(r)
        /\ ContentOK(r) /\ Truth(pool, kv)
    BY InvParts
  <1>4. stale[r] \in Nat
    BY <1>3 DEF Types
  <1>5. M \in NumPrompt[r] .. Len(Tokens[r])
    BY <1>2
  <1>6. /\ num_tokens' = [num_tokens EXCEPT ![r] = M] /\ kv' = kv
        /\ num_computed_tokens' = num_computed_tokens
        /\ num_output_placeholders' = num_output_placeholders
        /\ spec_token_ids' = spec_token_ids
        /\ stale' = [stale EXCEPT ![r] = IF M = Len(Tokens[r]) THEN 0 ELSE Max0(@ - 1)]
    BY DEF Quiet
  <1>7. num_tokens'[r] = M
    BY <1>3, <1>6 DEF Types
  <1>8. CASE M = Len(Tokens[r])
    <2>1. /\ Leave(pool, r, "FINISHED") /\ in_flight' = [in_flight EXCEPT ![r] = <<>>]
          /\ stale' = [stale EXCEPT ![r] = 0]
      BY <1>8 DEF Quiet
    <2>2. in_flight'[r] = <<>> /\ stale'[r] = 0 /\ status'[r] = "FINISHED"
      BY <1>3, <2>1 DEF Types, Leave
    <2>3. Types'
      BY <1>3, <1>6, <2>1, NoSteps DEF Types, Leave
    <2>4. Bounds(r)'
      BY <1>2, <1>5, <1>6, <1>7, <2>2, NoSteps DEF Bounds
    <2>5. OthersSame(r)
      <3>1. req_to_blocks \in [Requests -> Seq(Blocks)]
        BY <1>3 DEF Core, TablesOK
      <3> QED BY <1>3, <1>6, <2>1, <3>1 DEF OthersSame, Same, Types, Leave
    <2> QED BY <1>6, <2>1, <2>2, <2>3, <2>4, <2>5, IdleStays
  <1>9. CASE M # Len(Tokens[r])
    <2>1. /\ in_flight' = [in_flight EXCEPT ![r] = Tail(x)]
          /\ stale' = [stale EXCEPT ![r] = Max0(stale[r] - 1)]
          /\ UNCHANGED <<pool, num_cached_block, req_to_blocks, status>>
      BY <1>1, <1>9 DEF Quiet
    <2>2. in_flight'[r] = Tail(x) /\ stale'[r] = Max0(stale[r] - 1) /\ Max0(stale[r] - 1) \in Nat
      BY <1>3, <1>4, <2>1 DEF Types, Max0
    <2>3. Types'
      BY <1>2, <1>3, <1>6, <2>1, <2>2 DEF Types
    <2>4. OthersSame(r)
      BY <1>3, <1>6, <2>1 DEF OthersSame, Same, Types
    <2>5. OthersHold(r, kv, kv')
      BY <1>6 DEF OthersHold
    <2>6. Truth(pool', kv') /\ Core(pool', req_to_blocks', num_cached_block') /\ EventsStay
      BY <1>3, <1>6, <2>1 DEF EventsStay
    <2>7. Bounds(r)'
      <3>1. stale[r] <= Len(x)
        BY <1>1, <1>2, <1>3 DEF Bounds
      <3>2. Max0(stale[r] - 1) \in 0 .. Len(Tail(x))
        BY <1>2, <1>4, <3>1 DEF Max0
      <3> QED BY <1>2, <1>5, <1>6, <1>7, <2>2, <3>2 DEF Bounds
    <2>8. CASE status[r] # "RUNNING"
      <3>1. Max0(stale[r] - 1) = Len(Tail(x))
        BY <1>2, <2>8 DEF Max0
      <3>2. RequestOK(r)'
        BY <1>2, <1>3, <1>6, <2>1, <2>2, <2>7, <2>8, <3>1 DEF RequestOK, IdleOK
      <3>3. ContentOK(r)'
        BY <2>1, <2>8 DEF ContentOK
      <3> QED BY <2>3, <2>4, <2>5, <2>6, <3>2, <3>3, Frame
    <2>9. CASE status[r] = "RUNNING"
      <3>1. PICK C, P, s, d :
              /\ C = num_computed_tokens[r] /\ P = num_output_placeholders[r]
              /\ s = req_to_blocks[r] /\ d = num_cached_block[r]
        OBVIOUS
      <3>2. /\ C \in Nat /\ P \in Nat /\ s \in Seq(Blocks) /\ d \in Nat /\ d <= Len(s)
            /\ stale[r] = 0 /\ CountersOK(N, C, P, x) /\ TableOK(N, C, P, d, s, x)
        BY <1>1, <2>9, <3>1, RunningFacts
      <3>3. M = N /\ Head(x).chunk /\ x # <<>>
        BY <1>1, <3>2
      <3>4. CountersOK(N, C, P, Tail(x)) /\ Total(Sizes(Tail(x))) <= Total(Sizes(x))
        BY <1>2, <3>2, <3>3, ChunkDone
      <3>5. TableOK(N, C, P, d, s, Tail(x))
        <4>1. d * BlockSize <= KnownOf(N, C, P)
          BY <3>2 DEF TableOK
        <4>2. Total(Sizes(Tail(x))) \in Nat /\ Total(Sizes(x)) \in Nat
          BY <1>2, StepsFacts
        <4>3. C - Total(Sizes(x)) <= C - Total(Sizes(Tail(x))) /\ C <= C
          BY <3>2, <3>4, <4>2
        <4> QED BY <1>2, <3>2, <4>1, <4>3, TableLater
      <3>6. stale'[r] = 0
        BY <2>2, <3>2 DEF Max0
      <3>7. RequestOK(r)'
        BY <1>6, <1>7, <2>1, <2>2, <2>7, <2>9, <3>1, <3>3, <3>4, <3>5, <3>6 DEF RequestOK, RunningOK
      <3>8. ContentOK(r)'
        BY <1>3, <1>6, <1>7, <2>1, <2>9, <3>3 DEF ContentOK, Known
      <3> QED BY <2>3, <2>4, <2>5, <2>6, <3>7, <3>8, Frame
    <2> QED BY <2>8, <2>9
  <1> QED BY <1>8, <1>9

(* An output of a running request that sampled: gen tokens for it, rej of   *)
(* its drafts rejected; last is the last position whose entry is certain.   *)
Sampled(r, M, D, Q, last, st) ==
  /\ num_tokens' = [num_tokens EXCEPT ![r] = M]
  /\ num_computed_tokens' = [num_computed_tokens EXCEPT ![r] = D]
  /\ num_output_placeholders' = [num_output_placeholders EXCEPT ![r] = Q]
  /\ spec_token_ids' = spec_token_ids
  /\ kv' = Written(kv, req_to_blocks[r], r, num_tokens[r] - 1, last, M)
  /\ stale' = [stale EXCEPT ![r] = IF M = Len(Tokens[r]) THEN 0 ELSE Max0(@ - 1)]
  /\ IF M = Len(Tokens[r])
     THEN /\ Leave(st.pool, r, "FINISHED")
          /\ in_flight' = [in_flight EXCEPT ![r] = <<>>]
     ELSE /\ pool' = st.pool /\ num_cached_block' = [num_cached_block EXCEPT ![r] = st.done]
          /\ in_flight' = [in_flight EXCEPT ![r] = Tail(@)]
          /\ UNCHANGED <<req_to_blocks, status>>

LEMMA InvSampled ==
  ASSUME Inv, NEW r \in Requests, NEW a \in 0 .. NumSpec, UpdateFromOutput(r, a),
         ~(stale[r] > 0), ~Head(in_flight[r]).chunk
  PROVE Inv'
  <1>1. PICK N, C, P, x, s, d :
          /\ N = num_tokens[r] /\ C = num_computed_tokens[r] /\ P = num_output_placeholders[r]
          /\ x = in_flight[r] /\ s = req_to_blocks[r] /\ d = num_cached_block[r]
    OBVIOUS
  <1>2. status[r] # "FINISHED" /\ in_flight[r] # <<>> /\ a <= Head(x).spec /\ a \in Nat
    BY <1>1, Constants DEF UpdateFromOutput
  <1>3. /\ Head(x).spec \in Nat /\ Len(x) \in Nat /\ Len(x) >= 1
        /\ Tail(x) \in Seq(StepType) /\ StepsOK(Tail(x)) /\ Len(Tail(x)) = Len(x) - 1
        /\ N \in Nat /\ N >= NumPrompt[r] /\ NumPrompt[r] \in Nat
        /\ Len(Tokens[r]) \in Nat /\ N <= Len(Tokens[r])
        /\ status[r] # "RUNNING" => stale[r] = Len(x)
    BY <1>1, <1>2, OutputFacts
  <1>4. status[r] = "RUNNING"
    BY <1>3
  <1>5. /\ N \in Nat /\ C \in Nat /\ P \in Nat /\ x \in Seq(StepType) /\ s \in Seq(Blocks)
        /\ Len(s) \in Nat /\ d \in Nat /\ d <= Len(s) /\ N >= 1
        /\ C <= MaxModelLen /\ stale[r] = 0 /\ StepsOK(x) /\ CountersOK(N, C, P, x)
        /\ TableOK(N, C, P, d, s, x) /\ Holds(kv, s, r, KnownOf(N, C, P))
    BY <1>1, <1>4, RunningFacts
  <1>6. /\ Core(pool, req_to_blocks, num_cached_block) /\ Types /\ Truth(pool, kv)
    BY InvParts
  <1> DEFINE left == Len(Tokens[r]) - N
             gen == Lower(a + 1, left)
             rej == Head(x).spec - a
             M == N + gen
             D == C - rej
             Q == P - (rej + gen)
             last == M - (IF Len(x) > 1 THEN 1 ELSE 2)
             st == cache_blocks(pool, r, s, d, D - Q)
             e == [num_cached_block EXCEPT ![r] = st.done]
             m == Upper(N, last + 1)
  <1>7. left \in Nat /\ gen \in Nat /\ M \in Nat /\ M <= Len(Tokens[r])
        /\ (gen = left <=> M = Len(Tokens[r])) /\ M \in NumPrompt[r] .. Len(Tokens[r])
    <2>1. PICK L \in Nat : L = Len(Tokens[r])
      BY <1>3
    <2>2. left \in Nat /\ left = L - N
      BY <1>3, <2>1
    <2>3. gen \in Nat /\ gen <= left
      <3> HIDE DEF left
      <3> QED BY <1>2, <2>2 DEF Lower
    <2> HIDE DEF gen, left
    <2>4. M \in Nat /\ M <= L /\ (gen = left <=> M = L) /\ M >= N
      BY <1>3, <2>2, <2>3
    <2> HIDE DEF M
    <2>5. M \in NumPrompt[r] .. L
      BY <1>3, <2>1, <2>4
    <2> QED BY <2>1, <2>2, <2>3, <2>4, <2>5
  <1>8. Sampled(r, M, D, Q, last, st)
    <2>1. num_tokens' = [num_tokens EXCEPT ![r] = M] /\ spec_token_ids' = spec_token_ids
      BY <1>1 DEF UpdateFromOutput
    <2>2. num_computed_tokens' = [num_computed_tokens EXCEPT ![r] = D]
      BY <1>1 DEF UpdateFromOutput
    <2>3. num_output_placeholders' = [num_output_placeholders EXCEPT ![r] = Q]
      BY <1>1 DEF UpdateFromOutput
    <2>4. kv' = Written(kv, req_to_blocks[r], r, num_tokens[r] - 1, last, M)
      <3> DEFINE step == Head(in_flight[r])
                 g == IF step.chunk THEN 0 ELSE Lower(a + 1, Len(Tokens[r]) - num_tokens[r])
                 k == num_tokens[r] + g - (IF Len(in_flight[r]) > 1 THEN 1 ELSE 2)
      <3>1. kv' = IF stale[r] > 0 \/ step.chunk THEN kv
                  ELSE Written(kv, req_to_blocks[r], r, num_tokens[r] - 1, k, num_tokens[r] + g)
        BY DEF UpdateFromOutput
      <3>2. g = gen
        BY <1>1
      <3>3. k = last
        <4> DEFINE j == IF Len(x) > 1 THEN 1 ELSE 2
        <4>1. k = N + g - j
          BY <1>1, Zenon
        <4>2. j \in Int /\ gen \in Nat /\ N \in Nat
          BY <1>3, <1>7
        <4> HIDE DEF g, gen, k, j
        <4>3. last = (N + gen) - j
          BY DEF j
        <4> HIDE DEF last
        <4> QED BY <3>2, <4>1, <4>2, <4>3
      <3> HIDE DEF g, k
      <3> QED BY <1>1, <3>1, <3>2, <3>3
    <2>5. stale' = [stale EXCEPT ![r] = IF M = Len(Tokens[r]) THEN 0 ELSE Max0(@ - 1)]
      BY <1>1 DEF UpdateFromOutput
    <2>6. IF M = Len(Tokens[r])
          THEN /\ Leave(st.pool, r, "FINISHED")
               /\ in_flight' = [in_flight EXCEPT ![r] = <<>>]
          ELSE /\ pool' = st.pool /\ num_cached_block' = [num_cached_block EXCEPT ![r] = st.done]
               /\ in_flight' = [in_flight EXCEPT ![r] = Tail(@)]
               /\ UNCHANGED <<req_to_blocks, status>>
      BY <1>1 DEF UpdateFromOutput
    <2> HIDE DEF M, D, Q, last, st
    <2> QED BY <2>1, <2>2, <2>3, <2>4, <2>5, <2>6 DEF Sampled
  <1>9. Done(N, C, P, x, gen, rej, Len(x) > 1, gen = left)
    <2> HIDE DEF left
    <2> QED BY <1>1, <1>2, <1>5, <1>7, OutputDone
  <1> HIDE DEF gen, rej, left
  <1>10. /\ P > 0 /\ D \in Nat /\ D <= C /\ Q \in Nat /\ D - Q = M - 1 /\ M - 1 <= C /\ last < C
         /\ M # Len(Tokens[r]) =>
              /\ CountersOK(M, D, Q, Tail(x)) /\ gen >= 1 /\ KnownOf(M, D, Q) = last + 1
              /\ C - Total(Sizes(x)) <= D - Total(Sizes(Tail(x)))
    BY <1>7, <1>9 DEF Done
  <1>11. last \in Int /\ M - 2 <= last /\ last <= M - 1 /\ N <= M
    BY <1>3, <1>7
  <1> HIDE DEF M, D, Q, last, st
  <1>12. KnownOf(N, C, P) = N /\ Holds(kv, s, r, N) /\ d * BlockSize <= N /\ C <= Len(s) * BlockSize
    BY <1>5, <1>10 DEF KnownOf, TableOK
  <1>13. m \in Nat /\ M - 1 <= m /\ N <= m
         /\ (M # Len(Tokens[r]) => m = last + 1)
    <2>1. M # Len(Tokens[r]) => M = N + gen /\ gen >= 1
      BY <1>10 DEF M
    <2> QED BY <1>5, <1>7, <1>11, <2>1 DEF Upper
  <1>14. Covered(m, M, N, N - 1, last)
    BY <1>5, <1>7, <1>11 DEF Covered, Upper
  <1> HIDE DEF m
  <1>15. num_cached_block \in [Requests -> Int] /\ req_to_blocks \in [Requests -> Seq(Blocks)]
    BY <1>6 DEF Types, Core, TablesOK
  <1>16. Len(s) * BlockSize \in Int /\ BlockSize \in Nat
    BY <1>5, Constants
  <1>17. /\ Core(st.pool, req_to_blocks, e) /\ Caches(s, d, st.done, M - 1)
         /\ NoMore(pool, st.pool, s) /\ (Believed(pool) => Believed(st.pool))
    <2>1. PICK upto : upto = D - Q
      OBVIOUS
    <2>2. upto \in Nat /\ upto <= Len(Tokens[r]) /\ upto <= Len(s) * BlockSize
      <3>1. upto = M - 1 /\ M - 1 \in Nat
        <4>1. upto = M - 1
          BY <1>10, <2>1
        <4>2. M - 1 \in Nat
          BY <1>5, <1>7, <1>11
        <4> QED BY <4>1, <4>2
      <3> QED BY <1>3, <1>5, <1>7, <1>10, <1>12, <1>16, <3>1
    <2>3. /\ Core(st.pool, req_to_blocks, [num_cached_block EXCEPT ![r] = st.done])
          /\ Caches(s, d, st.done, upto)
          /\ NoMore(pool, st.pool, s) /\ (Believed(pool) => Believed(st.pool))
      BY <1>1, <1>5, <1>6, <1>15, <2>1, <2>2, CoreStore DEF st
    <2> QED BY <1>10, <2>1, <2>3
  <1>18. st.done \in Nat /\ st.done <= Len(s) /\ st.done * BlockSize <= m
    <2>1. st.done \in Nat /\ (st.done = d \/ (st.done * BlockSize <= M - 1 /\ st.done <= Len(s)))
      BY <1>17 DEF Caches
    <2>2. d * BlockSize \in Int /\ st.done * BlockSize \in Int
      BY <1>5, <1>16, <2>1
    <2> QED BY <1>5, <1>7, <1>12, <1>13, <2>1, <2>2
  <1>19. e[r] = st.done /\ e \in [Requests -> Int]
         /\ \A z \in Requests : z # r => e[z] = num_cached_block[z]
    BY <1>15, <1>18
  <1>20. kv' = Written(kv, s, r, N - 1, last, M)
    BY <1>1, <1>8 DEF Sampled
  <1>21. CanWrite(pool, st.pool, req_to_blocks, e, r, kv, N - 1, last)
    <2>1. N - 1 \in Nat /\ last < Len(s) * BlockSize
      BY <1>5, <1>10, <1>11, <1>12, <1>16
    <2> HIDE DEF e
    <2> QED BY <1>1, <1>6, <1>11, <1>17, <2>1 DEF CanWrite
  <1> HIDE DEF e
  <1>22. /\ Truth(st.pool, kv') /\ Holds(kv', s, r, m)
         /\ \A z \in Requests : \A k : z # r /\ Holds(kv, req_to_blocks[z], z, k) => Holds(kv', req_to_blocks[z], z, k)
    BY <1>1, <1>12, <1>13, <1>14, <1>18, <1>19, <1>20, <1>21, WriteOK
  <1>23. OthersHold(r, kv, kv')
    BY <1>22 DEF OthersHold
  <1>24. /\ num_tokens' = [num_tokens EXCEPT ![r] = M]
         /\ num_computed_tokens' = [num_computed_tokens EXCEPT ![r] = D]
         /\ num_output_placeholders' = [num_output_placeholders EXCEPT ![r] = Q]
         /\ spec_token_ids' = spec_token_ids
    BY <1>8 DEF Sampled
  <1>25. num_tokens'[r] = M /\ num_computed_tokens'[r] = D /\ num_output_placeholders'[r] = Q
         /\ D \in 0 .. MaxModelLen
    <2>1. D \in 0 .. MaxModelLen
      BY <1>5, <1>10, Constants
    <2> QED BY <1>6, <1>24, <2>1 DEF Types
  <1>26. CASE M = Len(Tokens[r])
    <2>1. /\ Leave(st.pool, r, "FINISHED") /\ in_flight' = [in_flight EXCEPT ![r] = <<>>]
          /\ stale' = [stale EXCEPT ![r] = 0]
      BY <1>8, <1>26 DEF Sampled
    <2>2. in_flight'[r] = <<>> /\ stale'[r] = 0 /\ status'[r] = "FINISHED"
      BY <1>6, <2>1 DEF Types, Leave
    <2>3. num_cached_block' = [e EXCEPT ![r] = -1]
      BY <1>15, <2>1 DEF Leave, e
    <2>4. /\ Core(pool', req_to_blocks', num_cached_block') /\ SamePool(st.pool, pool')
          /\ req_to_blocks'[r] = <<>> /\ num_cached_block'[r] = -1
          /\ \A z \in Requests : z # r => req_to_blocks'[z] = req_to_blocks[z]
      BY <1>15, <1>17, <1>19, <2>1, <2>3, LeaveOK
    <2>5. Types'
      BY <1>6, <1>7, <1>10, <1>24, <2>1, NoSteps DEF Types, Leave
    <2>6. Bounds(r)'
      BY <1>7, <1>25, <2>2, NoSteps DEF Bounds
    <2>7. RequestOK(r)'
      BY <2>2, <2>4, <2>6 DEF RequestOK, IdleOK
    <2>8. ContentOK(r)'
      BY <2>2 DEF ContentOK
    <2>9. Truth(pool', kv')
      BY <1>22, <2>4, TruthSame DEF SamePool
    <2>10. EventsStay
      BY <1>17, <2>4, BelievedSame DEF EventsStay
    <2>11. OthersSame(r)
      BY <1>6, <1>15, <1>24, <2>1 DEF OthersSame, Same, Types, Leave
    <2> QED BY <1>23, <2>4, <2>5, <2>7, <2>8, <2>9, <2>10, <2>11, Frame
  <1>27. CASE M # Len(Tokens[r])
    <2>1. /\ pool' = st.pool /\ num_cached_block' = e
          /\ in_flight' = [in_flight EXCEPT ![r] = Tail(x)]
          /\ stale' = [stale EXCEPT ![r] = Max0(stale[r] - 1)]
          /\ UNCHANGED <<req_to_blocks, status>>
      BY <1>1, <1>8, <1>27 DEF Sampled, e
    <2>2. Max0(stale[r] - 1) = 0
      BY <1>5 DEF Max0
    <2>3. /\ in_flight'[r] = Tail(x) /\ stale'[r] = 0 /\ status'[r] = "RUNNING"
          /\ num_cached_block'[r] = st.done /\ req_to_blocks'[r] = s
      BY <1>1, <1>4, <1>6, <1>19, <2>1, <2>2 DEF Types
    <2>4. Types'
      <3>1. num_cached_block' \in [Requests -> Int]
        BY <1>19, <2>1
      <3>2. stale' \in [Requests -> Nat] /\ in_flight' \in [Requests -> Seq(StepType)]
        BY <1>3, <1>6, <2>1, <2>2 DEF Types
      <3>3. /\ num_tokens' \in [Requests -> Nat] /\ num_computed_tokens' \in [Requests -> Nat]
            /\ num_output_placeholders' \in [Requests -> Nat]
        BY <1>6, <1>7, <1>10, <1>24 DEF Types
      <3> QED BY <1>6, <1>24, <2>1, <3>1, <3>2, <3>3 DEF Types
    <2>5. Bounds(r)'
      <3>1. 0 \in 0 .. Len(Tail(x))
        BY <1>3
      <3> QED BY <1>3, <1>7, <1>25, <2>3, <3>1 DEF Bounds
    <2>6. KnownOf(M, D, Q) = m
      BY <1>10, <1>13, <1>27
    <2>7. TableOK(M, D, Q, st.done, s, Tail(x))
      <3>1. C - Total(Sizes(x)) <= D - Total(Sizes(Tail(x)))
        BY <1>10, <1>27
      <3> QED BY <1>3, <1>5, <1>10, <1>18, <2>6, <3>1, TableLater
    <2>8. RequestOK(r)'
      BY <1>10, <1>25, <1>27, <2>3, <2>5, <2>7 DEF RequestOK, RunningOK
    <2>9. ContentOK(r)'
      BY <1>22, <1>25, <2>3, <2>6 DEF ContentOK, Known
    <2>10. Truth(pool', kv') /\ Core(pool', req_to_blocks', num_cached_block') /\ EventsStay
      BY <1>17, <1>22, <2>1 DEF EventsStay
    <2>11. OthersSame(r)
      BY <1>6, <1>19, <1>24, <2>1 DEF OthersSame, Same, Types
    <2> QED BY <1>23, <2>4, <2>8, <2>9, <2>10, <2>11, Frame
  <1> QED BY <1>26, <1>27

LEMMA InvUpdateFromOutput ==
  ASSUME Inv, NEW r \in Requests, NEW a \in 0 .. NumSpec, UpdateFromOutput(r, a)
  PROVE Inv'
  <1>1. PICK x, N : x = in_flight[r] /\ N = num_tokens[r]
    OBVIOUS
  <1>2. status[r] # "FINISHED" /\ in_flight[r] # <<>>
    BY DEF UpdateFromOutput
  <1>3. CASE stale[r] > 0 \/ Head(x).chunk
    <2>1. PICK M \in Nat : /\ Quiet(r, M) /\ N <= M /\ M <= Len(Tokens[r])
                           /\ ~(stale[r] > 0) => M = N
      BY <1>1, <1>3, QuietOutput
    <2> QED BY <1>1, <1>2, <1>3, <2>1, InvQuiet
  <1>4. CASE ~(stale[r] > 0) /\ ~Head(x).chunk
    BY <1>1, <1>4, InvSampled
  <1> QED BY <1>3, <1>4

-----------------------------------------------------------------------------
(* The invariant is inductive                                               *)

LEMMA InvNext ==
  ASSUME Inv, [Next]_vars
  PROVE Inv'
  <1>1. CASE UNCHANGED vars
    <2>1. UNCHANGED <<pool, req_to_blocks, num_cached_block, status, num_tokens,
                      num_computed_tokens, num_output_placeholders, spec_token_ids,
                      in_flight, stale, kv>>
      BY <1>1 DEF vars, reqVars
    <2>2. ASSUME NEW y \in Requests PROVE RequestOK(y)' /\ ContentOK(y)'
      <3>1. RequestOK(y) /\ ContentOK(y)
        BY DEF Inv
      <3>2. Same(y)
        BY <2>1 DEF Same
      <3>3. ContentOK(y)'
        BY <2>1, <3>1 DEF ContentOK, Known
      <3> QED BY <3>1, <3>2, <3>3, RequestSame
    <2>3. Types' /\ EventsOK' /\ CacheTruth'
      BY <2>1 DEF Inv, Types, EventsOK, EventsSound, CacheTruth
    <2> QED BY <2>1, <2>2, <2>3 DEF Inv
  <1>2. ASSUME NEW r \in Requests, NEW n \in 1 .. MaxBatchedTokens, NEW has \in BOOLEAN,
               ScheduleWaiting(r, n, has)
        PROVE Inv'
    BY <1>2, InvScheduleWaiting
  <1>3. ASSUME NEW r \in Requests, NEW n \in 1 .. MaxBatchedTokens, ScheduleRunning(r, n)
        PROVE Inv'
    BY <1>3, InvScheduleRunning
  <1>4. ASSUME NEW r \in Requests, NEW a \in 0 .. NumSpec, UpdateFromOutput(r, a)
        PROVE Inv'
    BY <1>4, InvUpdateFromOutput
  <1>5. ASSUME NEW r \in Requests, Preempt(r) PROVE Inv'
    BY <1>5, InvPreempt
  <1>6. ASSUME NEW r \in Requests, Abort(r) PROVE Inv'
    BY <1>6, InvAbort
  <1>7. CASE Reset
    BY <1>7, InvReset
  <1> QED BY <1>1, <1>2, <1>3, <1>4, <1>5, <1>6, <1>7 DEF Next

LEMMA InvAlways == Spec => []Inv
  <1>1. Init => Inv
    BY InvInit
  <1>2. Inv /\ [Next]_vars => Inv'
    BY InvNext
  <1> QED BY <1>1, <1>2, PTL DEF Spec

(* A position that a running request attends to is in its table.            *)
LEMMA Attended ==
  ASSUME Inv, NEW r \in Requests, status[r] = "RUNNING",
         NEW pos \in get_num_skipped_tokens(num_computed_tokens[r] - InFlightTokens(r))
                     .. num_computed_tokens[r] - num_output_placeholders[r] - 1
  PROVE LET b == req_to_blocks[r][pos \div BlockSize + 1] IN
        b # null_block /\ kv[b][pos % BlockSize] = SubSeq(Tokens[r], 1, pos + 1)
  <1>1. PICK N, C, P, x, s, d :
          /\ N = num_tokens[r] /\ C = num_computed_tokens[r] /\ P = num_output_placeholders[r]
          /\ x = in_flight[r] /\ s = req_to_blocks[r] /\ d = num_cached_block[r]
    OBVIOUS
  <1>2. /\ N \in Nat /\ C \in Nat /\ P \in Nat /\ x \in Seq(StepType) /\ s \in Seq(Blocks)
        /\ Len(s) \in Nat /\ CountersOK(N, C, P, x)
        /\ TableOK(N, C, P, d, s, x) /\ Holds(kv, s, r, KnownOf(N, C, P))
    BY <1>1, RunningFacts
  <1>3. BlockSize \in Nat /\ BlockSize >= 1
    BY Constants
  <1> DEFINE k == get_num_skipped_tokens(C - Total(Sizes(x)))
             i == pos \div BlockSize + 1
             j == pos % BlockSize
  <1>4. k \in Nat /\ pos \in k .. C - P - 1
    <2>1. Total(Sizes(x)) \in Nat
      BY <1>2, StepsFacts
    <2>2. k \in Nat
      BY <1>2, <2>1, Constants DEF get_num_skipped_tokens, Max0
    <2> QED BY <1>1, <2>2 DEF InFlightTokens
  <1>5. \A l \in 1 .. Len(s) : s[l] = null_block => l <= k \div BlockSize
    BY <1>2 DEF TableOK
  <1> HIDE DEF k
  <1>6. pos \in Nat /\ k <= pos /\ pos < KnownOf(N, C, P) /\ pos < C
    BY <1>2, <1>4 DEF KnownOf, CountersOK
  <1>7. /\ i \in Nat /\ i >= 1 /\ j \in 0 .. BlockSize - 1 /\ j = pos - (pos \div BlockSize) * BlockSize
        /\ pos \div BlockSize \in Nat
        /\ \A l \in Nat : pos < l * BlockSize <=> i <= l
    <2>1. /\ pos \div BlockSize \in Nat /\ j \in 0 .. BlockSize - 1
          /\ j = pos - (pos \div BlockSize) * BlockSize
          /\ \A l \in Nat : pos < l * BlockSize <=> pos \div BlockSize + 1 <= l
      BY <1>3, <1>6, PosIs
    <2>2. i \in Nat /\ i >= 1
      <3>1. PICK u \in Nat : u = pos \div BlockSize
        BY <2>1
      <3> QED BY <3>1
    <2> QED BY <2>1, <2>2
  <1>8. i \in 1 .. Len(s)
    <2>1. C <= Len(s) * BlockSize /\ Len(s) * BlockSize \in Int
      BY <1>2, <1>3 DEF TableOK
    <2>2. pos < Len(s) * BlockSize
      BY <1>2, <1>6, <2>1
    <2>3. i <= Len(s)
      BY <1>2, <1>7, <2>2
    <2> HIDE DEF i
    <2> QED BY <1>2, <1>7, <2>3
  <1>9. s[i] # null_block
    <2> SUFFICES ASSUME s[i] = null_block PROVE FALSE
      OBVIOUS
    <2>1. i <= k \div BlockSize
      BY <1>5, <1>8
    <2>2. k \div BlockSize <= pos \div BlockSize
      BY <1>3, <1>4, <1>6, DivMono
    <2>3. PICK u \in Nat, v \in Nat : u = pos \div BlockSize /\ v = k \div BlockSize
      BY <1>3, <1>4, <1>7, DivNat
    <2> QED BY <2>1, <2>2, <2>3
  <1>10. (i - 1) * BlockSize + j = pos
    <2>1. PICK u \in Nat : u = pos \div BlockSize
      BY <1>7
    <2>2. i - 1 = u /\ j = pos - u * BlockSize
      BY <1>7, <2>1
    <2>3. u * BlockSize \in Int
      BY <1>3
    <2> HIDE DEF i, j
    <2> QED BY <1>6, <2>2, <2>3
  <1> HIDE DEF i, j
  <1>11. kv[s[i]][j] = Right(r, i, j)
    BY <1>2, <1>6, <1>7, <1>8, <1>9, <1>10 DEF Holds
  <1>12. Right(r, i, j) = SubSeq(Tokens[r], 1, pos + 1)
    BY <1>10 DEF Right
  <1> QED BY <1>1, <1>9, <1>11, <1>12 DEF i, j

(* Whatever is cached, its prefix is.                                       *)
LEMMA Closed ==
  ASSUME NEW p, NEW t, NEW d, Core(p, t, d), SlidingWindow = 0,
         NEW h \in CachedHashes(p), Len(h) > BlockSize
  PROVE Parent(h) \in CachedHashes(p)
  <1> DEFINE bh == p.block_hash
  <1>1. PoolOK(p, t) /\ QueueOK(bh, p.free) /\ TablesOK(t)
    BY DEF Core, Linked
  <1>2. /\ PoolType(p) /\ FreeExact(p) /\ MapConsistent(p) /\ CountsOK(p, t)
        /\ p.free \in Seq(Blocks) /\ bh \in [Blocks -> Hashes \cup {NoHash}]
        /\ p.cached \in [Hashes -> Seq(Blocks)]
    BY <1>1, PoolParts, PoolFields
  <1>3. h \in Hashes /\ p.cached[h] # <<>> /\ p.cached[h] \in Seq(Blocks)
    BY <1>2 DEF CachedHashes
  <1>4. PICK b \in Blocks : b \in ToSet(p.cached[h])
    <2>1. 1 \in 1 .. Len(p.cached[h])
      BY <1>3
    <2> QED BY <1>3, <2>1, MembersOf
  <1>5. bh[b] = h /\ h # NoHash /\ b # null_block
    BY <1>2, <1>3, <1>4, Constants DEF MapConsistent
  <1>6. Extends(bh, b)
    BY <1>5 DEF Extends
  <1>7. \E c : IsParent(bh, b, c)
    <2>1. CASE b \in ToSet(p.free)
      <3>1. PICK i \in 1 .. Len(p.free) : b = p.free[i]
        BY <1>2, <2>1, MembersOf
      <3> QED BY <1>1, <1>6, <3>1 DEF QueueOK
    <2>2. CASE b \notin ToSet(p.free)
      <3>1. p.ref_cnt[b] # 0 /\ p.ref_cnt[b] = Cardinality(Holders(t, b))
        BY <1>2, <1>5, <2>2 DEF FreeExact, CountsOK
      <3>2. Holders(t, b) # {}
        BY <3>1, FS_EmptySet
      <3>3. PICK r \in Requests : b \in ToSet(t[r])
        BY <3>2 DEF Holders
      <3>4. t[r] \in Seq(Blocks)
        BY <1>1 DEF TablesOK
      <3>5. PICK i \in 1 .. Len(t[r]) : b = t[r][i]
        BY <3>3, <3>4, MembersOf
      <3> QED BY <1>6, <3>5, BlockBefore
    <2> QED BY <2>1, <2>2
  <1>8. PICK c : c \in Blocks /\ bh[c] # NoHash /\ bh[c] = Parent(h)
    BY <1>5, <1>7 DEF IsParent
  <1>9. Parent(h) \in Hashes /\ c \in ToSet(p.cached[Parent(h)])
    BY <1>2, <1>8 DEF MapConsistent
  <1> QED BY <1>9, NoMembers DEF CachedHashes

-----------------------------------------------------------------------------
(* TypeOK: tables and counters keep their types; num_computed_tokens stays  *)
(* within max_model_len, the outputs awaited (num_output_placeholders)      *)
(* never go below zero, whatever is rejected, preempted or aborted.         *)
THEOREM TypeCorrect == Spec => []TypeOK
  <1>1. Inv => TypeOK
    <2> SUFFICES ASSUME Inv PROVE TypeOK
      OBVIOUS
    <2>1. Core(pool, req_to_blocks, num_cached_block) /\ Types /\ \A r \in Requests : Bounds(r)
      BY DEF Inv, RequestOK
    <2> QED BY <2>1 DEF TypeOK, Core, PoolOK, TablesOK, Types, Bounds
  <1> QED BY <1>1, InvAlways, PTL

(* BlockAccounting: ref_cnt is the number of tables that hold a block, and  *)
(* the free queue holds exactly the blocks nobody references, each once.    *)
THEOREM AccountingExact == Spec => []BlockAccounting
  <1>1. Inv => BlockAccounting
    BY DEF Inv, Core, PoolOK, CountsOK, Holders, BlockAccounting
  <1> QED BY <1>1, InvAlways, PTL

(* CacheMapConsistent: cached_block_hash_to_block and the hashes in the     *)
(* blocks agree, and no assertion of BlockPool fires.                       *)
THEOREM MapsAgree == Spec => []CacheMapConsistent
  <1>1. Inv => CacheMapConsistent
    BY DEF Inv, Core, PoolOK, CacheMapConsistent
  <1> QED BY <1>1, InvAlways, PTL

(* EventsSound: replaying the KV events yields no prefix that is not cached *)
(* when a hit reports only blocks that it found: for full attention, or     *)
(* unless kv_cache_report_mode is "full".                                   *)
THEOREM EventsTrue ==
  ASSUME SlidingWindow = 0 \/ ~ReportFull
  PROVE Spec => []EventsSound
  <1>1. Inv => EventsSound
    BY DEF Inv, EventsOK
  <1> QED BY <1>1, InvAlways, PTL

(* CacheTruth: a block found under a hash holds the KV entries of exactly   *)
(* that prefix, never those of a rejected draft.                            *)
THEOREM CacheHolds == Spec => []CacheTruth
  <1>1. Inv => CacheTruth
    BY DEF Inv
  <1> QED BY <1>1, InvAlways, PTL

(* AttendsOwnPrefix: every position in the attention window of a running    *)
(* request is in a block of its table and holds its own prefix.             *)
THEOREM WindowKept == Spec => []AttendsOwnPrefix
  <1>1. Inv => AttendsOwnPrefix
    BY Attended DEF AttendsOwnPrefix
  <1> QED BY <1>1, InvAlways, PTL

(* PrefixClosed: for full attention, a missing block implies that every     *)
(* later block of the request misses too, as find_longest_cache_hit says:   *)
(* blocks are freed from the tail of a table and evicted in that order.     *)
THEOREM NoExtensionStranded ==
  ASSUME SlidingWindow = 0
  PROVE Spec => []PrefixClosed
  <1>1. Inv => PrefixClosed
    <2> SUFFICES ASSUME Inv PROVE PrefixClosed
      OBVIOUS
    <2>1. Core(pool, req_to_blocks, num_cached_block)
      BY DEF Inv
    <2> QED BY <2>1, Closed DEF PrefixClosed, Parent
  <1> QED BY <1>1, InvAlways, PTL
=============================================================================
