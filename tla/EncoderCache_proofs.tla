------------------------- MODULE EncoderCache_proofs -------------------------
(***************************************************************************)
(* For every set of requests, cache size, budget and policy: the slots are  *)
(* exact and a reference belongs to a request that will drop it.  Under     *)
(* FCFS the workers hold what the manager counts, and no step reads an      *)
(* encoder output that they do not have.                                    *)
(*                                                                         *)
(* The manager's own invariant is ManagerOK, preserved by each of its       *)
(* operations.  What the scheduler adds is CurOK, what the scan knows of    *)
(* the chunk, and Round: every item that a step reads has a reference of    *)
(* the request that reads it, so nothing evicts it while the step is built, *)
(* and the manager is ahead of the workers by what the step will tell them. *)
(***************************************************************************)
EXTENDS EncoderCache, FiniteSetTheorems, TLAPS

Distinct(q) == \A i, j \in 1 .. Len(q) : q[i] = q[j] => i = j
Loose(m) == {h \in DOMAIN m.cached : m.cached[h] = {}}

(* Slots, references and the freeable queue agree.                          *)
ManagerOK(m) ==
  /\ m \in Managers
  /\ IsFiniteSet(DOMAIN m.cached)
  /\ \A r \in Requests : m.request_cached_ids[r] \subseteq Inputs(r)
  /\ m.num_free_slots = CacheSize - SumEmbeds(DOMAIN m.cached)
  /\ m.num_freeable_slots = m.num_free_slots + SumEmbeds(Loose(m))
  /\ ToSet(m.freeable) = Loose(m) /\ Distinct(m.freeable)

(* Only the requests of U refer to entries, and they know of it.            *)
Owned(m, U) ==
  \A h \in DOMAIN m.cached : \A r \in m.cached[h] :
    /\ r \in U
    /\ \E i \in m.request_cached_ids[r] : mm_features[r][i].hash = h

(* Each request is in one queue, once, and not finished; the requests that  *)
(* stop in an update leave at its end.                                      *)
QueuesOK ==
  /\ Distinct(waiting) /\ Distinct(running)
  /\ ToSet(waiting) \cap ToSet(running) = {}
  /\ pass.phase # "applying" => ToSet(waiting) \cup ToSet(running) \subseteq Unfinished
  /\ pass.phase \in {"updating", "applying"} => batch_queue # <<>>

(* The loop over the running requests, and where it stands.                 *)
InLoop ==
  \/ pass.phase = "running"
  \/ pass.phase \in {"scanning", "allocating"} /\ ~cur.new

SchedOK ==
  /\ pass.phase \in {"idle", "updating", "applying"} => DOMAIN sched = {}
  /\ \A r \in DOMAIN sched : sched[r].inputs \subseteq Inputs(r) /\ r \in ToSet(running)
  /\ InLoop => \A r \in DOMAIN sched : \E k \in 1 .. Len(running) :
                 k < pass.req_index /\ running[k] = r

(* The request in hand and its chunk so far.                                *)
CurOK ==
  pass.phase \in {"scanning", "allocating"} =>
    /\ cur \in [r : Requests, new : BOOLEAN, n : Nat, inputs : SUBSET Nat, hashes : SUBSET Hashes,
                embeds : Nat, budget : Int, at : Nat \ {0}, hi : Nat]
    /\ cur.new => waiting # <<>> /\ cur.r = Head(waiting)
    /\ ~cur.new => \E k \in 1 .. Len(running) : k <= pass.req_index /\ running[k] = cur.r
    /\ cur.inputs \subseteq Inputs(cur.r) /\ cur.hi <= Len(mm_features[cur.r])
    /\ cur.hashes = HashesOf(cur.r, cur.inputs)
    /\ cur.hashes \cap DOMAIN manager.cached = {}
    /\ cur.embeds = SumEmbeds(cur.hashes) /\ cur.embeds <= manager.num_free_slots
    /\ \A i \in cur.at .. cur.hi : mm_features[cur.r][i].offset < Computed + cur.n + Shift

(* r refers to the item i.                                                  *)
Held(m, r, i) ==
  LET h == mm_features[r][i].hash IN h \in DOMAIN m.cached /\ r \in m.cached[h]

Window(r, start, end) == first_in_window(r, start) .. last_in_window(r, end)

(* Under FCFS: a request in the step is not preempted any more.             *)
Round ==
  /\ InLoop => \A k \in 1 .. Len(running) : k >= pass.req_index => running[k] \notin DOMAIN sched
  /\ pass.phase \in {"scanning", "allocating"} /\ ~cur.new =>
       pass.req_index <= Len(running) /\ running[pass.req_index] = cur.r
  /\ \A r \in DOMAIN sched :
       \A i \in Window(r, num_computed_tokens[r], Upto(r)) \cup sched[r].inputs : Held(manager, r, i)
  /\ pass.phase \in {"scanning", "allocating"} /\ cur.n > 0 =>
       \A i \in Window(cur.r, Computed, Computed + cur.n) :
         i \in cur.at .. cur.hi \/ mm_features[cur.r][i].hash \in cur.hashes \/ Held(manager, cur.r, i)
  /\ pass.phase = "allocating" => cur.n > 0 /\ cur.at > cur.hi
  /\ DOMAIN manager.cached = (worker \ manager.freed) \cup Encoded
  /\ pass.phase \in {"idle", "updating", "applying"} => manager.freed = {}
  /\ missed = {}

Inv ==
  /\ TypeOK /\ ManagerOK(manager) /\ Owned(manager, Unfinished)
  /\ QueuesOK /\ SchedOK /\ CurOK
  /\ Policy = "fcfs" => Round

-----------------------------------------------------------------------------
(* Sets of numbers and sequences                                            *)

LEMMA DownClosed ==
  ASSUME NEW n \in Nat, NEW D \in SUBSET (1 .. n),
         \A i \in D : \A j \in 1 .. i : j \in D
  PROVE /\ IsFiniteSet(D) /\ Cardinality(D) \in Nat /\ Cardinality(D) <= n
        /\ D = 1 .. Cardinality(D)
  <1>1. IsFiniteSet(1 .. n) /\ Cardinality(1 .. n) = n
    BY FS_Interval
  <1>2. IsFiniteSet(D) /\ Cardinality(D) \in Nat /\ Cardinality(D) <= n
    <2>1. D \subseteq 1 .. n
      OBVIOUS
    <2>2. IsFiniteSet(D) /\ Cardinality(D) <= Cardinality(1 .. n)
      BY <1>1, <2>1, FS_Subset
    <2> QED BY <1>1, <2>2, FS_CardinalityType
  <1> DEFINE c == Cardinality(D)
  <1>3. IsFiniteSet(1 .. c) /\ Cardinality(1 .. c) = c
    BY <1>2, FS_Interval
  <1>4. IsFiniteSet(1 .. c + 1) /\ Cardinality(1 .. c + 1) = c + 1
    <2>1. c + 1 \in Int /\ 1 \in Int /\ 1 <= c + 1
      BY <1>2
    <2> QED BY <1>2, <2>1, FS_Interval
  <1>5. c + 1 \notin D
    <2> SUFFICES ASSUME c + 1 \in D PROVE FALSE
      OBVIOUS
    <2>1. 1 .. c + 1 \subseteq D
      OBVIOUS
    <2> QED BY <1>2, <1>4, <2>1, FS_Subset
  <1>6. D \subseteq 1 .. c
    <2> SUFFICES ASSUME NEW i \in D, i > c PROVE FALSE
      BY <1>2
    <2>1. c + 1 \in 1 .. i
      BY <1>2
    <2> QED BY <1>5, <2>1
  <1> QED BY <1>2, <1>3, <1>6, FS_Subset

Rank(S, i) == Cardinality({j \in S : j < i})

LEMMA RankType ==
  ASSUME NEW S, IsFiniteSet(S), \A x \in S : x \in Nat, NEW i \in Nat
  PROVE /\ Rank(S, i) \in Nat
        /\ i \in S => Rank(S, i) < Cardinality(S)
  <1> DEFINE L == {j \in S : j < i}
  <1>1. IsFiniteSet(L) /\ Cardinality(L) \in Nat /\ Cardinality(L) <= Cardinality(S)
    BY FS_Subset, FS_CardinalityType
  <1>2. i \in S => L # S
    OBVIOUS
  <1>3. i \in S => Cardinality(L) # Cardinality(S)
    BY <1>2, FS_Subset
  <1>4. Cardinality(S) \in Nat
    BY FS_CardinalityType
  <1> QED BY <1>1, <1>3, <1>4 DEF Rank

LEMMA RankMonotone ==
  ASSUME NEW S, IsFiniteSet(S), \A x \in S : x \in Nat, NEW i \in S, NEW j \in Nat, i < j
  PROVE Rank(S, i) < Rank(S, j)
  <1> DEFINE L == {k \in S : k < i}
             M == {k \in S : k < j}
  <1>1. IsFiniteSet(M) /\ Cardinality(M) \in Nat
    BY FS_Subset, FS_CardinalityType
  <1>2. L \subseteq M /\ i \in M /\ i \notin L
    OBVIOUS
  <1>3. Cardinality(L) \in Nat /\ Cardinality(L) <= Cardinality(M)
    BY <1>1, <1>2, FS_Subset, FS_CardinalityType
  <1>4. Cardinality(L) # Cardinality(M)
    BY <1>1, <1>2, FS_Subset
  <1> QED BY <1>1, <1>3, <1>4 DEF Rank

(* The ranks of n numbers are 0 .. n - 1.                                   *)
LEMMA RankOnto ==
  ASSUME NEW S, IsFiniteSet(S), \A x \in S : x \in Nat, NEW k \in 1 .. Cardinality(S)
  PROVE \E i \in S : Rank(S, i) = k - 1
  <1> DEFINE n == Cardinality(S)
             T == 1 .. n
             f == [i \in S |-> Rank(S, i) + 1]
  <1>1. n \in Nat /\ IsFiniteSet(T) /\ Cardinality(T) = n
    BY FS_CardinalityType, FS_Interval
  <1>0. \A i \in S : i \in Nat /\ Rank(S, i) \in Nat /\ Rank(S, i) < n
    BY RankType
  <1>2. ASSUME NEW i \in S PROVE Rank(S, i) + 1 \in T
    BY <1>0, <1>1
  <1>3. f \in [S -> T]
    BY <1>2
  <1>4. ASSUME NEW i \in S, NEW j \in S, f[i] = f[j] PROVE i = j
    <2>1. Rank(S, i) = Rank(S, j)
      BY <1>0, <1>4
    <2>2. ~(i < j) /\ ~(j < i)
      BY <1>0, <2>1, RankMonotone
    <2> QED BY <1>0, <2>2
  <1>5. f \in Injection(S, T)
    BY <1>3, <1>4 DEF Injection, IsInjective
  <1>6. f \in Surjection(S, T)
    BY <1>1, <1>5, FS_Injection
  <1>7. PICK i \in S : f[i] = k
    BY <1>6 DEF Surjection
  <1> QED BY <1>0, <1>7

LEMMA Ordered ==
  ASSUME NEW S, IsFiniteSet(S), \A x \in S : x \in Nat
  PROVE LET q == InOrder(S) IN
        /\ q \in Seq(S) /\ Len(q) = Cardinality(S) /\ Len(q) \in Nat
        /\ \A k \in 1 .. Len(q) : q[k] \in S /\ Rank(S, q[k]) = k - 1
        /\ \A i \in S : Rank(S, i) + 1 \in 1 .. Len(q) /\ q[Rank(S, i) + 1] = i
  <1> DEFINE q == InOrder(S)
             n == Cardinality(S)
  <1>1. n \in Nat
    BY FS_CardinalityType
  <1>0. \A i \in S : i \in Nat /\ Rank(S, i) \in Nat /\ Rank(S, i) < n
    BY RankType
  <1>2. ASSUME NEW k \in 1 .. n
        PROVE q[k] \in S /\ Rank(S, q[k]) = k - 1
    <2>1. q[k] = CHOOSE i \in S : Rank(S, i) = k - 1
      BY DEF InOrder, Rank
    <2> QED BY <2>1, RankOnto
  <1>3. q \in [1 .. n -> S]
    BY <1>2 DEF InOrder
  <1>4. q \in Seq(S) /\ Len(q) = n
    BY <1>1, <1>3
  <1>5. ASSUME NEW i \in S
        PROVE Rank(S, i) + 1 \in 1 .. n /\ q[Rank(S, i) + 1] = i
    <2>1. Rank(S, i) + 1 \in 1 .. n
      BY <1>0, <1>1
    <2> DEFINE j == q[Rank(S, i) + 1]
    <2>2. j \in S /\ Rank(S, j) = Rank(S, i)
      BY <1>0, <1>2, <2>1
    <2> HIDE DEF j
    <2>3. ~(i < j) /\ ~(j < i)
      BY <1>0, <2>2, RankMonotone
    <2>4. i = j
      BY <1>0, <2>2, <2>3
    <2> QED BY <2>1, <2>4 DEF j
  <1> QED BY <1>1, <1>2, <1>4, <1>5

(* What is left of a queue: the same members, in the same order, none of    *)
(* them further back, and further in front of where something has gone.     *)
LEMMA OnlyFacts ==
  ASSUME NEW T, NEW q \in Seq(T), NEW S
  PROVE LET p == Only(q, S) IN
        /\ p \in Seq(T) /\ ToSet(p) = ToSet(q) \cap S
        /\ Distinct(q) => Distinct(p)
        /\ \A k \in 1 .. Len(q) : q[k] \in S =>
             \E l \in 1 .. Len(p) :
               /\ p[l] = q[k] /\ l <= k
               /\ \A j \in 1 .. Len(q) : j < k /\ q[j] \notin S => l < k
  <1> DEFINE p == Only(q, S)
             K == {i \in 1 .. Len(q) : q[i] \in S}
             o == InOrder(K)
  <1>1. Len(q) \in Nat /\ \A i \in 1 .. Len(q) : q[i] \in T
    OBVIOUS
  <1>2. IsFiniteSet(1 .. Len(q))
    BY <1>1, FS_Interval
  <1>3. (\A x \in K : x \in Nat) /\ IsFiniteSet(K) /\ K \subseteq 1 .. Len(q)
    BY <1>1, <1>2, FS_Subset
  <1>4. /\ Len(o) \in Nat
        /\ \A k \in 1 .. Len(o) : o[k] \in K /\ Rank(K, o[k]) = k - 1
        /\ \A i \in K : Rank(K, i) + 1 \in 1 .. Len(o) /\ o[Rank(K, i) + 1] = i
    BY <1>3, Ordered
  <1>5. p = [k \in 1 .. Len(o) |-> q[o[k]]]
    BY DEF Only
  <1> HIDE DEF p, K, o
  <1>6. PICK n \in Nat : n = Len(o)
    BY <1>4
  <1>7. p \in Seq(T) /\ Len(p) = Len(o)
    <2>1. p \in [1 .. n -> T]
      BY <1>1, <1>3, <1>4, <1>5, <1>6
    <2> QED BY <1>6, <2>1
  <1>8. ToSet(p) = ToSet(q) \cap S
    <2>1. ASSUME NEW k \in 1 .. Len(o) PROVE p[k] \in ToSet(q) \cap S
      <3>1. p[k] = q[o[k]] /\ o[k] \in K
        BY <1>4, <1>5
      <3>2. o[k] \in 1 .. Len(q) /\ q[o[k]] \in S
        BY <3>1 DEF K
      <3> QED BY <3>1, <3>2 DEF ToSet
    <2>2. ASSUME NEW i \in 1 .. Len(q), q[i] \in S PROVE q[i] \in ToSet(p)
      <3>1. i \in K
        BY <2>2 DEF K
      <3> DEFINE k == Rank(K, i) + 1
      <3>2. k \in 1 .. Len(o) /\ o[k] = i
        BY <1>4, <3>1
      <3> HIDE DEF k
      <3>3. p[k] = q[i]
        BY <1>5, <3>2
      <3> QED BY <1>7, <3>2, <3>3 DEF ToSet
    <2> QED BY <1>7, <2>1, <2>2 DEF ToSet
  <1>9. ASSUME Distinct(q) PROVE Distinct(p)
    <2> SUFFICES ASSUME NEW a \in 1 .. Len(p), NEW b \in 1 .. Len(p), p[a] = p[b]
                 PROVE a = b
      BY DEF Distinct
    <2>1. o[a] \in K /\ o[b] \in K /\ Rank(K, o[a]) = a - 1 /\ Rank(K, o[b]) = b - 1
      BY <1>4, <1>7
    <2>2. q[o[a]] = q[o[b]]
      BY <1>5, <1>7
    <2>3. o[a] = o[b]
      BY <1>3, <1>9, <2>1, <2>2 DEF Distinct
    <2> QED BY <1>4, <1>7, <2>1, <2>3
  <1>10. ASSUME NEW k \in 1 .. Len(q), q[k] \in S
         PROVE \E l \in 1 .. Len(p) :
                 /\ p[l] = q[k] /\ l <= k
                 /\ \A j \in 1 .. Len(q) : j < k /\ q[j] \notin S => l < k
    <2>1. k \in K /\ k \in Nat
      BY <1>1, <1>10 DEF K
    <2> DEFINE l == Rank(K, k) + 1
               B == {j \in K : j < k}
    <2>2. l \in 1 .. Len(o) /\ o[l] = k
      BY <1>4, <2>1
    <2>3. p[l] = q[k]
      BY <1>5, <2>2
    <2>4. IsFiniteSet(1 .. k - 1) /\ Cardinality(1 .. k - 1) = k - 1
      BY <2>1, FS_Interval
    <2>5. B \subseteq 1 .. k - 1
      <3> SUFFICES ASSUME NEW j \in K, j < k PROVE j \in 1 .. k - 1
        OBVIOUS
      <3>1. j \in 1 .. Len(q)
        BY <1>3
      <3> QED BY <2>1, <3>1
    <2>6. Cardinality(B) \in Nat /\ Cardinality(B) <= k - 1
      BY <2>4, <2>5, FS_Subset, FS_CardinalityType
    <2>7. ASSUME NEW j \in 1 .. Len(q), j < k, q[j] \notin S PROVE Cardinality(B) # k - 1
      <3>1. j \in 1 .. k - 1 /\ j \notin B
        BY <1>1, <2>1, <2>7 DEF K
      <3> QED BY <2>4, <2>5, <3>1, FS_Subset
    <2>8. l = Cardinality(B) + 1
      BY DEF Rank
    <2> HIDE DEF l, B
    <2>9. l <= k /\ \A j \in 1 .. Len(q) : j < k /\ q[j] \notin S => l < k
      BY <2>1, <2>6, <2>7, <2>8
    <2> QED BY <1>7, <2>2, <2>3, <2>9
  <1> QED BY <1>7, <1>8, <1>9, <1>10 DEF p

-----------------------------------------------------------------------------
(* Items and slots                                                          *)

LEMMA InputItem ==
  ASSUME NEW r \in Requests, NEW i \in Inputs(r)
  PROVE LET x == mm_features[r][i] IN
        /\ x \in Items /\ x.hash \in Hashes
        /\ x.offset \in Nat /\ x.length \in Nat
  <1>1. mm_features[r] \in Seq(Items)
    BY EncoderAssumption
  <1>2. mm_features[r][i] \in Items
    BY <1>1 DEF Inputs
  <1> QED BY <1>2, EncoderAssumption DEF Hashes

LEMMA EmbedsType ==
  /\ \A h \in Hashes : Embeds(h) \in Nat /\ Embeds(h) <= CacheSize
  /\ \A x \in Items : Embeds(x.hash) = x.length
  <1>1. ASSUME NEW x \in Items PROVE Embeds(x.hash) = x.length
    <2> DEFINE y == CHOOSE z \in Items : z.hash = x.hash
    <2>1. y \in Items /\ y.hash = x.hash
      OBVIOUS
    <2>2. y.length = x.length
      BY <2>1, EncoderAssumption
    <2> QED BY <2>2 DEF Embeds
  <1>2. ASSUME NEW h \in Hashes PROVE Embeds(h) \in Nat /\ Embeds(h) <= CacheSize
    <2>1. PICK x \in Items : h = x.hash
      BY DEF Hashes
    <2> QED BY <1>1, <2>1, EncoderAssumption
  <1> QED BY <1>1, <1>2

LEMMA Constants ==
  /\ CacheSize \in Nat /\ EncoderBudget \in Nat /\ MaxNumScheduledTokens \in Nat
  /\ MaxAborts \in Nat /\ MaxResets \in Nat /\ Shift \in {0, 1}
  /\ KvPressure \in BOOLEAN /\ Requests \subseteq Nat
  /\ Policy \in {"fcfs", "priority"}
  /\ \A r \in Requests : NumPrompt[r] \in Nat /\ r \in Nat
  BY EncoderAssumption

LEMMA InputsFinite ==
  ASSUME NEW r \in Requests
  PROVE /\ Len(mm_features[r]) \in Nat
        /\ IsFiniteSet(Inputs(r)) /\ \A i \in Inputs(r) : i \in Nat
  <1>1. Len(mm_features[r]) \in Nat
    BY EncoderAssumption
  <1> QED BY <1>1, FS_Interval DEF Inputs

Cells(S) == UNION {{h} \X (1 .. Embeds(h)) : h \in S}

LEMMA CellsAre ==
  ASSUME NEW S, NEW c
  PROVE c \in Cells(S) <=> \E h \in S : \E k \in 1 .. Embeds(h) : c = <<h, k>>
  BY DEF Cells

LEMMA SumType ==
  ASSUME NEW S, S \subseteq Hashes, IsFiniteSet(S)
  PROVE IsFiniteSet(Cells(S)) /\ SumEmbeds(S) \in Nat /\ SumEmbeds(S) = Cardinality(Cells(S))
  <1>1. IsFiniteSet(1 .. CacheSize)
    BY Constants, FS_Interval
  <1>2. IsFiniteSet(S \X (1 .. CacheSize))
    BY <1>1, FS_Product
  <1>3. Cells(S) \subseteq S \X (1 .. CacheSize)
    <2> SUFFICES ASSUME NEW c \in Cells(S) PROVE c \in S \X (1 .. CacheSize)
      OBVIOUS
    <2>1. PICK h \in S : \E k \in 1 .. Embeds(h) : c = <<h, k>>
      BY CellsAre
    <2>2. PICK k \in 1 .. Embeds(h) : c = <<h, k>>
      BY <2>1
    <2>3. k \in 1 .. CacheSize
      BY EmbedsType, Constants
    <2> QED BY <2>2, <2>3
  <1>4. IsFiniteSet(Cells(S)) /\ Cardinality(Cells(S)) \in Nat
    BY <1>2, <1>3, FS_Subset, FS_CardinalityType
  <1> QED BY <1>4 DEF SumEmbeds, Cells

LEMMA SumUnion ==
  ASSUME NEW S, NEW T, S \subseteq Hashes, T \subseteq Hashes,
         IsFiniteSet(S), IsFiniteSet(T), S \cap T = {}
  PROVE SumEmbeds(S \cup T) = SumEmbeds(S) + SumEmbeds(T)
  <1>1. IsFiniteSet(S \cup T)
    BY FS_Union
  <1>2. Cells(S \cup T) = Cells(S) \cup Cells(T)
    BY CellsAre
  <1>3. Cells(S) \cap Cells(T) = {}
    <2> SUFFICES ASSUME NEW c \in Cells(S), c \in Cells(T) PROVE FALSE
      OBVIOUS
    <2>1. PICK h \in S : \E k \in 1 .. Embeds(h) : c = <<h, k>>
      BY CellsAre
    <2>2. PICK g \in T : \E k \in 1 .. Embeds(g) : c = <<g, k>>
      BY CellsAre
    <2>3. h = g
      BY <2>1, <2>2
    <2> QED BY <2>3
  <1>4. /\ IsFiniteSet(Cells(S)) /\ SumEmbeds(S) = Cardinality(Cells(S)) /\ SumEmbeds(S) \in Nat
        /\ IsFiniteSet(Cells(T)) /\ SumEmbeds(T) = Cardinality(Cells(T)) /\ SumEmbeds(T) \in Nat
        /\ SumEmbeds(S \cup T) = Cardinality(Cells(S \cup T))
    BY <1>1, SumType
  <1>5. Cardinality(Cells(S) \cap Cells(T)) = 0
    BY <1>3, FS_EmptySet
  <1>6. Cardinality(Cells(S) \cup Cells(T)) =
          Cardinality(Cells(S)) + Cardinality(Cells(T)) - Cardinality(Cells(S) \cap Cells(T))
    BY <1>4, FS_Union
  <1>7. Cardinality(Cells(S \cup T)) = SumEmbeds(S) + SumEmbeds(T) - 0
    BY <1>2, <1>4, <1>5, <1>6
  <1> QED BY <1>4, <1>7

LEMMA SumOne ==
  ASSUME NEW h \in Hashes
  PROVE SumEmbeds({h}) = Embeds(h) /\ Embeds(h) \in Nat /\ IsFiniteSet({h})
  <1>1. Embeds(h) \in Nat
    BY EmbedsType
  <1>2. IsFiniteSet(1 .. Embeds(h)) /\ Cardinality(1 .. Embeds(h)) = Embeds(h)
    BY <1>1, FS_Interval
  <1>3. IsFiniteSet({h}) /\ Cardinality({h}) = 1
    BY FS_Singleton
  <1>4. Cardinality({h} \X (1 .. Embeds(h))) = 1 * Embeds(h)
    <2>1. Cardinality({h} \X (1 .. Embeds(h))) = Cardinality({h}) * Cardinality(1 .. Embeds(h))
      BY <1>2, <1>3, FS_Product
    <2> QED BY <1>2, <1>3, <2>1
  <1>5. Cells({h}) = {h} \X (1 .. Embeds(h))
    BY DEF Cells
  <1>6. SumEmbeds({h}) = Cardinality(Cells({h}))
    BY <1>3, SumType
  <1>7. 1 * Embeds(h) = Embeds(h)
    BY <1>1
  <1> QED BY <1>1, <1>3, <1>4, <1>5, <1>6, <1>7

LEMMA SumPart ==
  ASSUME NEW S, NEW T, T \subseteq Hashes, IsFiniteSet(T), S \subseteq T
  PROVE /\ IsFiniteSet(S) /\ IsFiniteSet(T \ S)
        /\ SumEmbeds(S) \in Nat /\ SumEmbeds(T) \in Nat /\ SumEmbeds(T \ S) \in Nat
        /\ SumEmbeds(T) = SumEmbeds(S) + SumEmbeds(T \ S)
  <1>1. IsFiniteSet(S) /\ IsFiniteSet(T \ S)
    BY FS_Subset
  <1>2. S \subseteq Hashes /\ T \ S \subseteq Hashes /\ S \cap (T \ S) = {} /\ S \cup (T \ S) = T
    OBVIOUS
  <1>3. SumEmbeds(S \cup (T \ S)) = SumEmbeds(S) + SumEmbeds(T \ S)
    BY <1>1, <1>2, SumUnion
  <1>4. SumEmbeds(S) \in Nat /\ SumEmbeds(T) \in Nat /\ SumEmbeds(T \ S) \in Nat
    BY <1>1, <1>2, SumType
  <1> QED BY <1>1, <1>2, <1>3, <1>4

LEMMA SumNone == SumEmbeds({}) = 0
  <1>1. Cells({}) = {}
    BY DEF Cells
  <1>2. SumEmbeds({}) = Cardinality(Cells({}))
    BY SumType, FS_EmptySet
  <1> QED BY <1>1, <1>2, FS_EmptySet

-----------------------------------------------------------------------------
(* The operations of the manager                                            *)

LEMMA CacheMapIs ==
  ASSUME NEW c \in CacheMaps
  PROVE DOMAIN c \subseteq Hashes /\ c \in [DOMAIN c -> SUBSET Requests]
  <1>1. PICK D \in SUBSET Hashes : c \in [D -> SUBSET Requests]
    BY DEF CacheMaps
  <1>2. DOMAIN c = D
    BY <1>1
  <1> QED BY <1>1, <1>2

LEMMA CacheMapBuild ==
  ASSUME NEW D, D \subseteq Hashes, NEW c \in [D -> SUBSET Requests]
  PROVE c \in CacheMaps
  BY DEF CacheMaps

Built(c, ids, f, e, a, b) ==
  [cached |-> c, request_cached_ids |-> ids, freeable |-> f, freed |-> e,
   num_free_slots |-> a, num_freeable_slots |-> b]

LEMMA BuiltFields ==
  ASSUME NEW c, NEW ids, NEW f, NEW e, NEW a, NEW b
  PROVE LET m == Built(c, ids, f, e, a, b) IN
        /\ m.cached = c /\ m.request_cached_ids = ids /\ m.freeable = f /\ m.freed = e
        /\ m.num_free_slots = a /\ m.num_freeable_slots = b
  BY DEF Built

Empty(c) == {h \in DOMAIN c : c[h] = {}}

LEMMA BuiltOK ==
  ASSUME NEW c \in CacheMaps, NEW ids \in [Requests -> SUBSET Nat], NEW f \in Seq(Hashes),
         NEW e \in SUBSET Hashes, NEW a \in Int, NEW b \in Int,
         IsFiniteSet(DOMAIN c), \A r \in Requests : ids[r] \subseteq Inputs(r),
         a = CacheSize - SumEmbeds(DOMAIN c), a >= 0, b = a + SumEmbeds(Empty(c)),
         ToSet(f) = Empty(c), Distinct(f)
  PROVE ManagerOK(Built(c, ids, f, e, a, b))
  <1> DEFINE m == Built(c, ids, f, e, a, b)
  <1>1. /\ m.cached = c /\ m.request_cached_ids = ids /\ m.freeable = f /\ m.freed = e
        /\ m.num_free_slots = a /\ m.num_freeable_slots = b
    BY BuiltFields
  <1>2. DOMAIN c \subseteq Hashes /\ Empty(c) \subseteq DOMAIN c
    BY CacheMapIs DEF Empty
  <1>3. /\ SumEmbeds(DOMAIN c) \in Nat /\ SumEmbeds(Empty(c)) \in Nat
        /\ SumEmbeds(Empty(c)) <= SumEmbeds(DOMAIN c)
    <2>1. /\ SumEmbeds(Empty(c)) \in Nat /\ SumEmbeds(DOMAIN c) \in Nat
          /\ SumEmbeds(DOMAIN c \ Empty(c)) \in Nat
          /\ SumEmbeds(DOMAIN c) = SumEmbeds(Empty(c)) + SumEmbeds(DOMAIN c \ Empty(c))
      BY <1>2, SumPart
    <2> QED BY <2>1
  <1>4. a \in 0 .. CacheSize /\ b \in 0 .. CacheSize
    BY <1>3, Constants
  <1>5. m \in Managers
    BY <1>4 DEF Built, Managers
  <1>6. Loose(m) = Empty(c)
    BY <1>1 DEF Loose, Empty
  <1> HIDE DEF m
  <1>7. ManagerOK(m)
    BY <1>1, <1>5, <1>6 DEF ManagerOK
  <1> QED BY <1>7 DEF m

LEMMA ManagerIs ==
  ASSUME NEW m, ManagerOK(m)
  PROVE /\ m \in Managers
        /\ m.cached \in CacheMaps /\ m.request_cached_ids \in [Requests -> SUBSET Nat]
        /\ DOMAIN m.cached \subseteq Hashes /\ m.cached \in [DOMAIN m.cached -> SUBSET Requests]
        /\ m.freeable \in Seq(Hashes) /\ m.freed \in SUBSET Hashes
        /\ m.num_free_slots \in Nat /\ m.num_freeable_slots \in Nat
        /\ IsFiniteSet(DOMAIN m.cached)
        /\ \A r \in Requests : m.request_cached_ids[r] \subseteq Inputs(r)
        /\ m.num_free_slots = CacheSize - SumEmbeds(DOMAIN m.cached)
        /\ m.num_freeable_slots = m.num_free_slots + SumEmbeds(Empty(m.cached))
        /\ ToSet(m.freeable) = Empty(m.cached) /\ Distinct(m.freeable)
        /\ SumEmbeds(DOMAIN m.cached) \in Nat /\ SumEmbeds(Empty(m.cached)) \in Nat
        /\ Empty(m.cached) \subseteq DOMAIN m.cached
  <1>1. m \in Managers
    BY DEF ManagerOK
  <1>2. /\ m.cached \in CacheMaps /\ m.request_cached_ids \in [Requests -> SUBSET Nat]
        /\ m.freeable \in Seq(Hashes) /\ m.freed \in SUBSET Hashes
        /\ m.num_free_slots \in Nat /\ m.num_freeable_slots \in Nat
    BY <1>1, Constants DEF Managers
  <1>3. DOMAIN m.cached \subseteq Hashes /\ m.cached \in [DOMAIN m.cached -> SUBSET Requests]
    BY <1>2, CacheMapIs
  <1>4. /\ IsFiniteSet(DOMAIN m.cached)
        /\ \A r \in Requests : m.request_cached_ids[r] \subseteq Inputs(r)
        /\ m.num_free_slots = CacheSize - SumEmbeds(DOMAIN m.cached)
        /\ m.num_freeable_slots = m.num_free_slots + SumEmbeds(Empty(m.cached))
        /\ ToSet(m.freeable) = Empty(m.cached) /\ Distinct(m.freeable)
    BY DEF ManagerOK, Loose, Empty
  <1>5. Empty(m.cached) \subseteq DOMAIN m.cached
    BY DEF Empty
  <1>6. SumEmbeds(DOMAIN m.cached) \in Nat /\ SumEmbeds(Empty(m.cached)) \in Nat
    BY <1>3, <1>4, <1>5, SumPart
  <1> QED BY <1>1, <1>2, <1>3, <1>4, <1>5, <1>6

LEMMA EmptyManagerOK ==
  /\ ManagerOK(EmptyManager) /\ DOMAIN EmptyManager.cached = {} /\ EmptyManager.freed = {}
  /\ \A U : Owned(EmptyManager, U)
  <1> DEFINE ids == [r \in Requests |-> {}]
  <1>1. EmptyManager = Built(<<>>, ids, <<>>, {}, CacheSize, CacheSize)
    BY DEF EmptyManager, Built
  <1>2. DOMAIN <<>> = {} /\ <<>> \in [{} -> SUBSET Requests]
    OBVIOUS
  <1>3. <<>> \in CacheMaps
    BY <1>2, CacheMapBuild
  <1>4. IsFiniteSet(DOMAIN <<>>) /\ SumEmbeds(DOMAIN <<>>) = 0
    BY <1>2, SumNone, FS_EmptySet
  <1>5. Empty(<<>>) = {} /\ SumEmbeds(Empty(<<>>)) = 0
    BY <1>2, SumNone DEF Empty
  <1>6. ToSet(<<>>) = {} /\ Distinct(<<>>) /\ <<>> \in Seq(Hashes)
    BY DEF ToSet, Distinct
  <1>7. ids \in [Requests -> SUBSET Nat] /\ \A r \in Requests : ids[r] \subseteq Inputs(r)
    OBVIOUS
  <1> HIDE DEF ids
  <1>8. ManagerOK(Built(<<>>, ids, <<>>, {}, CacheSize, CacheSize))
    <2>1. /\ CacheSize \in Int /\ CacheSize >= 0
          /\ CacheSize = CacheSize - SumEmbeds(DOMAIN <<>>)
          /\ CacheSize = CacheSize + SumEmbeds(Empty(<<>>))
      BY <1>4, <1>5, Constants
    <2>2. ToSet(<<>>) = Empty(<<>>)
      BY <1>5, <1>6
    <2> QED BY <1>3, <1>4, <1>6, <1>7, <2>1, <2>2, BuiltOK
  <1>9. EmptyManager.cached = <<>> /\ EmptyManager.freed = {}
    BY DEF EmptyManager
  <1> QED BY <1>1, <1>2, <1>8, <1>9 DEF Owned

(* check_and_update_cache: the manager after a hit, and what of it is kept. *)
LEMMA HitOK ==
  ASSUME NEW m, ManagerOK(m), NEW U, Owned(m, U), NEW r \in Requests, r \in U,
         NEW i \in Inputs(r), mm_features[r][i].hash \in DOMAIN m.cached
  PROVE LET n == check_and_update_cache(m, r, i)
            h == mm_features[r][i].hash IN
        /\ ManagerOK(n) /\ Owned(n, U)
        /\ DOMAIN n.cached = DOMAIN m.cached /\ n.freed = m.freed
        /\ n.num_free_slots = m.num_free_slots
        /\ \A g \in DOMAIN m.cached : m.cached[g] \subseteq n.cached[g]
        /\ r \in n.cached[h]
  <1> DEFINE h == mm_features[r][i].hash
             n == check_and_update_cache(m, r, i)
             c == [m.cached EXCEPT ![h] = @ \cup {r}]
             ids == [m.request_cached_ids EXCEPT ![r] = @ \cup {i}]
             f == Only(m.freeable, Hashes \ {h})
             b == IF m.cached[h] = {} THEN m.num_freeable_slots - Embeds(h) ELSE m.num_freeable_slots
  <1>1. /\ m \in Managers
        /\ m.cached \in CacheMaps /\ m.request_cached_ids \in [Requests -> SUBSET Nat]
        /\ DOMAIN m.cached \subseteq Hashes /\ m.cached \in [DOMAIN m.cached -> SUBSET Requests]
        /\ m.freeable \in Seq(Hashes) /\ m.freed \in SUBSET Hashes
        /\ m.num_free_slots \in Nat /\ m.num_freeable_slots \in Nat
        /\ IsFiniteSet(DOMAIN m.cached)
        /\ \A q \in Requests : m.request_cached_ids[q] \subseteq Inputs(q)
        /\ m.num_free_slots = CacheSize - SumEmbeds(DOMAIN m.cached)
        /\ m.num_freeable_slots = m.num_free_slots + SumEmbeds(Empty(m.cached))
        /\ ToSet(m.freeable) = Empty(m.cached) /\ Distinct(m.freeable)
        /\ SumEmbeds(Empty(m.cached)) \in Nat /\ Empty(m.cached) \subseteq DOMAIN m.cached
    BY ManagerIs
  <1>2. h \in Hashes /\ i \in Nat /\ Embeds(h) \in Nat
    BY InputItem, InputsFinite, EmbedsType
  <1>3. n = Built(c, ids, f, m.freed, m.num_free_slots, b)
    <2>1. m = Built(m.cached, m.request_cached_ids, m.freeable, m.freed, m.num_free_slots,
                    m.num_freeable_slots)
      BY <1>1 DEF Built, Managers
    <2>2. n = [[[[m EXCEPT !.cached = c] EXCEPT !.request_cached_ids = ids]
                 EXCEPT !.freeable = f] EXCEPT !.num_freeable_slots = b]
      BY <1>1 DEF check_and_update_cache, Managers
    <2> HIDE DEF n, c, ids, f, b
    <2> QED BY <2>1, <2>2 DEF Built
  <1>4. /\ DOMAIN c = DOMAIN m.cached /\ c \in [DOMAIN m.cached -> SUBSET Requests]
        /\ c[h] = m.cached[h] \cup {r}
        /\ \A g \in DOMAIN m.cached \ {h} : c[g] = m.cached[g]
    BY <1>1
  <1>5. /\ ids \in [Requests -> SUBSET Nat] /\ ids[r] = m.request_cached_ids[r] \cup {i}
        /\ \A q \in Requests \ {r} : ids[q] = m.request_cached_ids[q]
        /\ \A q \in Requests : ids[q] \subseteq Inputs(q)
    BY <1>1, <1>2
  <1>6. f \in Seq(Hashes) /\ ToSet(f) = ToSet(m.freeable) \cap (Hashes \ {h}) /\ Distinct(f)
    BY <1>1, OnlyFacts
  <1> HIDE DEF c, ids, f, n
  <1>7. Empty(c) = Empty(m.cached) \ {h}
    BY <1>4 DEF Empty
  <1>8. c \in CacheMaps
    BY <1>1, <1>4, CacheMapBuild
  <1>9. b = m.num_free_slots + SumEmbeds(Empty(c)) /\ b \in Int
    <2>1. CASE m.cached[h] = {}
      <3>1. {h} \subseteq Empty(m.cached)
        BY <2>1 DEF Empty
      <3>2. Empty(m.cached) \subseteq Hashes /\ IsFiniteSet(Empty(m.cached))
        BY <1>1, FS_Subset
      <3>3. /\ SumEmbeds(Empty(m.cached)) = SumEmbeds({h}) + SumEmbeds(Empty(m.cached) \ {h})
            /\ SumEmbeds(Empty(m.cached) \ {h}) \in Nat
        BY <3>1, <3>2, SumPart
      <3>4. SumEmbeds({h}) = Embeds(h)
        BY <1>2, SumOne
      <3> QED BY <1>1, <1>2, <1>7, <2>1, <3>3, <3>4
    <2>2. CASE m.cached[h] # {}
      <3>1. Empty(c) = Empty(m.cached)
        BY <1>7, <2>2 DEF Empty
      <3> QED BY <1>1, <2>2, <3>1
    <2> QED BY <2>1, <2>2
  <1>10. ToSet(f) = Empty(c)
    BY <1>1, <1>6, <1>7
  <1> HIDE DEF b
  <1>11. ManagerOK(n)
    BY <1>1, <1>3, <1>4, <1>5, <1>6, <1>8, <1>9, <1>10, BuiltOK
  <1>12. /\ n.cached = c /\ n.request_cached_ids = ids /\ n.freed = m.freed
         /\ n.num_free_slots = m.num_free_slots
    BY <1>3, BuiltFields
  <1>13. Owned(n, U)
    <2> SUFFICES ASSUME NEW g \in DOMAIN c, NEW q \in c[g]
                 PROVE q \in U /\ \E j \in ids[q] : mm_features[q][j].hash = g
      BY <1>12 DEF Owned
    <2>1. CASE g = h /\ q = r
      BY <1>5, <2>1
    <2>2. CASE g # h \/ q # r
      <3>1. q \in m.cached[g] /\ g \in DOMAIN m.cached
        BY <1>4, <2>2
      <3>2. q \in U /\ q \in Requests
        BY <1>1, <3>1 DEF Owned
      <3>3. PICK j \in m.request_cached_ids[q] : mm_features[q][j].hash = g
        BY <3>1 DEF Owned
      <3>4. j \in ids[q]
        BY <1>5, <3>2
      <3> QED BY <3>2, <3>3, <3>4
    <2> QED BY <2>1, <2>2
  <1>14. \A g \in DOMAIN m.cached : m.cached[g] \subseteq n.cached[g]
    BY <1>4, <1>12
  <1>15. r \in n.cached[h] /\ DOMAIN n.cached = DOMAIN m.cached
    BY <1>4, <1>12
  <1> QED BY <1>11, <1>12, <1>13, <1>14, <1>15 DEF n

LEMMA SubSeqFacts ==
  ASSUME NEW T, NEW q \in Seq(T), NEW k \in 0 .. Len(q), Distinct(q)
  PROVE LET p == SubSeq(q, k + 1, Len(q)) IN
        /\ p \in Seq(T) /\ Distinct(p)
        /\ ToSet(p) = ToSet(q) \ {q[j] : j \in 1 .. k}
  <1> DEFINE p == SubSeq(q, k + 1, Len(q))
  <1>1. /\ p \in Seq(T) /\ Len(p) = Len(q) - k /\ Len(q) \in Nat
        /\ \A i \in 1 .. Len(p) : p[i] = q[i + k]
    <2>1. p \in Seq(T) /\ Len(q) \in Nat
      OBVIOUS
    <2>2. Len(p) = Len(q) - k
      OBVIOUS
    <2>3. \A i \in 1 .. Len(p) : p[i] = q[i + k]
      BY <2>1, <2>2
    <2> QED BY <2>1, <2>2, <2>3
  <1> HIDE DEF p
  <1>2. \A i \in 1 .. Len(p) : i + k \in 1 .. Len(q) /\ i \in Nat /\ k \in Nat
    BY <1>1
  <1>3. Distinct(p)
    BY <1>1, <1>2 DEF Distinct
  <1>4. ASSUME NEW i \in 1 .. Len(p) PROVE p[i] \in ToSet(q) \ {q[j] : j \in 1 .. k}
    <2>1. i + k \in 1 .. Len(q) /\ p[i] = q[i + k]
      BY <1>1, <1>2
    <2>2. ASSUME NEW j \in 1 .. k, q[j] = q[i + k] PROVE FALSE
      <3>1. j \in 1 .. Len(q) /\ j # i + k
        BY <1>1
      <3> QED BY <2>1, <2>2, <3>1 DEF Distinct
    <2> QED BY <2>1, <2>2 DEF ToSet
  <1>5. ASSUME NEW j \in 1 .. Len(q), j \notin 1 .. k PROVE q[j] \in ToSet(p)
    <2>1. j - k \in 1 .. Len(p) /\ (j - k) + k = j
      BY <1>1, <1>5
    <2>2. p[j - k] = q[j]
      BY <1>1, <2>1
    <2> QED BY <1>1, <2>1, <2>2 DEF ToSet
  <1>6. \A x \in ToSet(q) : \E j \in 1 .. Len(q) : x = q[j]
    BY DEF ToSet
  <1>7. \A x \in ToSet(p) : \E j \in 1 .. Len(p) : x = p[j]
    BY <1>1 DEF ToSet
  <1>8. ToSet(p) = ToSet(q) \ {q[j] : j \in 1 .. k}
    BY <1>4, <1>5, <1>6, <1>7
  <1> QED BY <1>1, <1>3, <1>8 DEF p

(* Eviction makes the room that is needed, from entries without reference.  *)
LEMMA EvictOK ==
  ASSUME NEW m, ManagerOK(m), NEW U, Owned(m, U), NEW need, need \in Nat,
         need <= m.num_freeable_slots
  PROVE LET n == evict(m, need) IN
        /\ ManagerOK(n) /\ Owned(n, U) /\ n.num_free_slots >= need
        /\ \E S \in SUBSET Empty(m.cached) :
             DOMAIN n.cached = DOMAIN m.cached \ S /\ n.freed = m.freed \cup S
        /\ \A g \in DOMAIN n.cached : n.cached[g] = m.cached[g]
  <1> DEFINE q == m.freeable
             free0 == m.num_free_slots
             Pre(j) == {q[i] : i \in 1 .. j}
             J == {j \in 1 .. Len(q) : free0 + SumEmbeds(Pre(j - 1)) < need}
             k == num_evicted(m, need)
             S == Pre(k)
             n == evict(m, need)
             c == Drop(m.cached, S)
             f == SubSeq(q, k + 1, Len(q))
             a == free0 + SumEmbeds(S)
  <1>1. /\ m \in Managers
        /\ m.cached \in CacheMaps /\ m.request_cached_ids \in [Requests -> SUBSET Nat]
        /\ DOMAIN m.cached \subseteq Hashes /\ m.cached \in [DOMAIN m.cached -> SUBSET Requests]
        /\ q \in Seq(Hashes) /\ m.freed \in SUBSET Hashes
        /\ free0 \in Nat /\ m.num_freeable_slots \in Nat
        /\ IsFiniteSet(DOMAIN m.cached)
        /\ \A r \in Requests : m.request_cached_ids[r] \subseteq Inputs(r)
        /\ free0 = CacheSize - SumEmbeds(DOMAIN m.cached)
        /\ m.num_freeable_slots = free0 + SumEmbeds(Empty(m.cached))
        /\ ToSet(q) = Empty(m.cached) /\ Distinct(q)
        /\ SumEmbeds(DOMAIN m.cached) \in Nat
        /\ SumEmbeds(Empty(m.cached)) \in Nat /\ Empty(m.cached) \subseteq DOMAIN m.cached
    BY ManagerIs
  <1>2. Len(q) \in Nat /\ CacheSize \in Nat
    BY <1>1, Constants
  <1>3. IsFiniteSet(Empty(m.cached)) /\ Empty(m.cached) \subseteq Hashes
    BY <1>1, FS_Subset
  <1>4. ASSUME NEW j \in 0 .. Len(q) PROVE Pre(j) \subseteq Empty(m.cached)
    <2>1. \A i \in 1 .. j : i \in 1 .. Len(q)
      BY <1>2
    <2> QED BY <1>1, <2>1 DEF ToSet
  <1>5. ASSUME NEW j \in 0 .. Len(q), NEW i \in 0 .. j
        PROVE SumEmbeds(Pre(i)) \in Nat /\ SumEmbeds(Pre(i)) <= SumEmbeds(Pre(j))
    <2>1. Pre(i) \subseteq Pre(j)
      BY <1>2
    <2>2. IsFiniteSet(Pre(j)) /\ Pre(j) \subseteq Hashes
      BY <1>3, <1>4, FS_Subset
    <2> HIDE DEF Pre
    <2>3. /\ SumEmbeds(Pre(i)) \in Nat /\ SumEmbeds(Pre(j)) \in Nat
          /\ SumEmbeds(Pre(j) \ Pre(i)) \in Nat
          /\ SumEmbeds(Pre(j)) = SumEmbeds(Pre(i)) + SumEmbeds(Pre(j) \ Pre(i))
      BY <2>1, <2>2, SumPart
    <2> QED BY <2>3
  <1>6. k = Cardinality(J)
    BY DEF num_evicted
  <1> HIDE DEF Pre, k
  <1>7. \A i \in J : \A j \in 1 .. i : j \in J
    <2> SUFFICES ASSUME NEW i \in J, NEW j \in 1 .. i PROVE j \in J
      OBVIOUS
    <2>1. /\ i \in 1 .. Len(q) /\ i - 1 \in 0 .. Len(q) /\ i - 1 \in 0 .. i - 1
          /\ j \in 1 .. Len(q) /\ j - 1 \in 0 .. i - 1
      BY <1>2
    <2>2. /\ SumEmbeds(Pre(j - 1)) \in Nat /\ SumEmbeds(Pre(i - 1)) \in Nat
          /\ SumEmbeds(Pre(j - 1)) <= SumEmbeds(Pre(i - 1))
      <3>1. PICK x : x = i - 1
        OBVIOUS
      <3>2. PICK y : y = j - 1
        OBVIOUS
      <3>3. x \in 0 .. Len(q) /\ x \in 0 .. x /\ y \in 0 .. x
        BY <2>1, <3>1, <3>2
      <3> HIDE DEF J
      <3>4. SumEmbeds(Pre(y)) \in Nat /\ SumEmbeds(Pre(y)) <= SumEmbeds(Pre(x))
        BY <1>5, <3>3
      <3>5. SumEmbeds(Pre(x)) \in Nat
        BY <1>5, <3>3
      <3> QED BY <3>1, <3>2, <3>4, <3>5
    <2>3. free0 + SumEmbeds(Pre(i - 1)) < need
      OBVIOUS
    <2>4. free0 + SumEmbeds(Pre(j - 1)) < need
      BY <1>1, <2>2, <2>3
    <2> QED BY <2>1, <2>4
  <1>8. k \in 0 .. Len(q) /\ J = 1 .. k
    <2>1. J \in SUBSET (1 .. Len(q))
      OBVIOUS
    <2> HIDE DEF J
    <2> QED BY <1>2, <1>6, <1>7, <2>1, DownClosed
  <1>9. S \subseteq Empty(m.cached) /\ SumEmbeds(S) \in Nat /\ IsFiniteSet(S)
    BY <1>3, <1>4, <1>5, <1>8, FS_Subset
  <1>10. a >= need /\ a \in Nat
    <2>1. CASE k = Len(q)
      <3>1. S = Empty(m.cached)
        BY <1>1, <2>1 DEF ToSet, Pre
      <3> QED BY <1>1, <1>9, <3>1
    <2>2. CASE k < Len(q)
      <3>1. k + 1 \in 1 .. Len(q) /\ k + 1 \notin J /\ (k + 1) - 1 = k
        <4> HIDE DEF J
        <4> QED BY <1>2, <1>8, <2>2
      <3>2. ~(free0 + SumEmbeds(Pre(k)) < need)
        BY <3>1
      <3> QED BY <1>1, <1>9, <3>2
    <2> QED BY <1>2, <1>8, <2>1, <2>2
  <1>11. n = Built(c, m.request_cached_ids, f, m.freed \cup S, a, m.num_freeable_slots)
    <2>1. m = Built(m.cached, m.request_cached_ids, m.freeable, m.freed, m.num_free_slots,
                    m.num_freeable_slots)
      BY <1>1 DEF Built, Managers
    <2>2. n = [[[[m EXCEPT !.cached = c] EXCEPT !.freeable = f]
                 EXCEPT !.freed = m.freed \cup S] EXCEPT !.num_free_slots = a]
      BY <1>1 DEF evict, Managers, Pre, k
    <2> HIDE DEF n, c, f, S, a
    <2> QED BY <2>1, <2>2 DEF Built
  <1>12. f \in Seq(Hashes) /\ Distinct(f) /\ ToSet(f) = ToSet(q) \ S
    BY <1>1, <1>8, SubSeqFacts DEF Pre
  <1> HIDE DEF J, S, a, n, f
  <1>13. /\ DOMAIN c = DOMAIN m.cached \ S
         /\ \A g \in DOMAIN c : c[g] = m.cached[g]
         /\ c \in [DOMAIN m.cached \ S -> SUBSET Requests]
    BY <1>1 DEF Drop
  <1> HIDE DEF c
  <1>14. c \in CacheMaps /\ Empty(c) = Empty(m.cached) \ S
    <2>1. DOMAIN m.cached \ S \subseteq Hashes
      BY <1>1
    <2> QED BY <1>13, <2>1, CacheMapBuild DEF Empty
  <1>15. /\ IsFiniteSet(DOMAIN c) /\ SumEmbeds(DOMAIN c) \in Nat
         /\ SumEmbeds(DOMAIN m.cached) = SumEmbeds(S) + SumEmbeds(DOMAIN c)
    <2>1. S \subseteq DOMAIN m.cached
      BY <1>1, <1>9
    <2> QED BY <1>1, <1>13, <2>1, SumPart
  <1>16. /\ SumEmbeds(Empty(c)) \in Nat
         /\ SumEmbeds(Empty(m.cached)) = SumEmbeds(S) + SumEmbeds(Empty(c))
    BY <1>3, <1>9, <1>14, SumPart
  <1>17. a = CacheSize - SumEmbeds(DOMAIN c) /\ m.num_freeable_slots = a + SumEmbeds(Empty(c))
    <2>1. a = free0 + SumEmbeds(S)
      BY DEF a
    <2>2. free0 = CacheSize - SumEmbeds(DOMAIN m.cached) /\ SumEmbeds(DOMAIN m.cached) \in Nat
          /\ m.num_freeable_slots = free0 + SumEmbeds(Empty(m.cached)) /\ free0 \in Nat
      BY <1>1
    <2>3. SumEmbeds(S) \in Nat /\ SumEmbeds(DOMAIN c) \in Nat /\ SumEmbeds(Empty(c)) \in Nat
      BY <1>9, <1>15, <1>16
    <2>4. a = CacheSize - SumEmbeds(DOMAIN c)
      BY <1>2, <1>15, <2>1, <2>2, <2>3
    <2>5. m.num_freeable_slots = a + SumEmbeds(Empty(c))
      BY <1>16, <2>1, <2>2, <2>3
    <2> QED BY <2>4, <2>5
  <1>18. ToSet(f) = Empty(c) /\ m.freed \cup S \in SUBSET Hashes
    BY <1>1, <1>3, <1>9, <1>12, <1>14
  <1>19. a \in Int /\ a >= 0 /\ m.num_freeable_slots \in Int
    BY <1>1, <1>10
  <1>20. ManagerOK(n)
    BY <1>1, <1>11, <1>12, <1>14, <1>15, <1>17, <1>18, <1>19, BuiltOK
  <1>21. /\ n.cached = c /\ n.request_cached_ids = m.request_cached_ids
         /\ n.freed = m.freed \cup S /\ n.num_free_slots = a
    BY <1>11, BuiltFields
  <1>22. Owned(n, U)
    BY <1>13, <1>21 DEF Owned
  <1>23. S \in SUBSET Empty(m.cached) /\ DOMAIN n.cached = DOMAIN m.cached \ S
    BY <1>9, <1>13, <1>21
  <1> QED BY <1>10, <1>13, <1>20, <1>21, <1>22, <1>23 DEF n

LEMMA HashesFinite ==
  ASSUME NEW r \in Requests, NEW S, S \subseteq Inputs(r)
  PROVE /\ IsFiniteSet(S) /\ IsFiniteSet(HashesOf(r, S)) /\ HashesOf(r, S) \subseteq Hashes
        /\ \A i \in S : i \in Nat
  <1>1. IsFiniteSet(S) /\ \A i \in S : i \in Nat
    BY InputsFinite, FS_Subset
  <1> DEFINE H == HashesOf(r, S)
             f == [i \in S |-> mm_features[r][i].hash]
  <1>2. f \in Surjection(S, H)
    BY DEF Surjection, HashesOf
  <1>3. IsFiniteSet(H)
    BY <1>1, <1>2, FS_Surjection
  <1>4. H \subseteq Hashes
    BY InputItem DEF HashesOf
  <1> QED BY <1>1, <1>3, <1>4

LEMMA AllocateOK ==
  ASSUME NEW m, ManagerOK(m), NEW U, Owned(m, U), NEW r \in Requests, r \in U,
         NEW S, S \subseteq Inputs(r), HashesOf(r, S) \cap DOMAIN m.cached = {},
         SumEmbeds(HashesOf(r, S)) <= m.num_free_slots
  PROVE LET n == allocate(m, r, S) IN
        /\ ManagerOK(n) /\ Owned(n, U) /\ n.freed = m.freed
        /\ DOMAIN n.cached = DOMAIN m.cached \cup HashesOf(r, S)
        /\ \A g \in DOMAIN m.cached : n.cached[g] = m.cached[g]
        /\ \A g \in HashesOf(r, S) : n.cached[g] = {r}
  <1> DEFINE H == HashesOf(r, S)
             n == allocate(m, r, S)
             c == [h \in DOMAIN m.cached \cup H |->
                     (IF h \in DOMAIN m.cached THEN m.cached[h] ELSE {})
                       \cup (IF h \in H THEN {r} ELSE {})]
             ids == [m.request_cached_ids EXCEPT ![r] = @ \cup S]
             a == m.num_free_slots - SumEmbeds(H)
             b == m.num_freeable_slots - SumEmbeds(H)
  <1>1. /\ m \in Managers
        /\ m.cached \in CacheMaps /\ m.request_cached_ids \in [Requests -> SUBSET Nat]
        /\ DOMAIN m.cached \subseteq Hashes /\ m.cached \in [DOMAIN m.cached -> SUBSET Requests]
        /\ m.freeable \in Seq(Hashes) /\ m.freed \in SUBSET Hashes
        /\ m.num_free_slots \in Nat /\ m.num_freeable_slots \in Nat
        /\ IsFiniteSet(DOMAIN m.cached)
        /\ \A q \in Requests : m.request_cached_ids[q] \subseteq Inputs(q)
        /\ m.num_free_slots = CacheSize - SumEmbeds(DOMAIN m.cached)
        /\ m.num_freeable_slots = m.num_free_slots + SumEmbeds(Empty(m.cached))
        /\ ToSet(m.freeable) = Empty(m.cached) /\ Distinct(m.freeable)
        /\ SumEmbeds(DOMAIN m.cached) \in Nat
        /\ SumEmbeds(Empty(m.cached)) \in Nat /\ Empty(m.cached) \subseteq DOMAIN m.cached
    BY ManagerIs
  <1>2. /\ IsFiniteSet(H) /\ H \subseteq Hashes /\ SumEmbeds(H) \in Nat /\ CacheSize \in Nat
        /\ \A i \in S : i \in Nat
    BY HashesFinite, SumType, Constants
  <1>3. n = Built(c, ids, m.freeable, m.freed, a, b)
    <2>1. m = Built(m.cached, m.request_cached_ids, m.freeable, m.freed, m.num_free_slots,
                    m.num_freeable_slots)
      BY <1>1 DEF Built, Managers
    <2>2. n = [[[[m EXCEPT !.cached = c] EXCEPT !.request_cached_ids = ids]
                 EXCEPT !.num_free_slots = a] EXCEPT !.num_freeable_slots = b]
      BY <1>1 DEF allocate, Managers
    <2> HIDE DEF n, c, ids, a, b
    <2> QED BY <2>1, <2>2 DEF Built
  <1> HIDE DEF H, n
  <1>4. /\ DOMAIN c = DOMAIN m.cached \cup H
        /\ \A g \in DOMAIN m.cached : c[g] = m.cached[g]
        /\ \A g \in H : c[g] = {r}
    BY DEF H
  <1>5. c \in [DOMAIN m.cached \cup H -> SUBSET Requests]
    BY <1>1
  <1>6. /\ ids \in [Requests -> SUBSET Nat] /\ ids[r] = m.request_cached_ids[r] \cup S
        /\ \A q \in Requests \ {r} : ids[q] = m.request_cached_ids[q]
        /\ \A q \in Requests : ids[q] \subseteq Inputs(q)
    BY <1>1, <1>2
  <1> HIDE DEF c, ids
  <1>7. c \in CacheMaps /\ Empty(c) = Empty(m.cached)
    <2>1. DOMAIN m.cached \cup H \subseteq Hashes
      BY <1>1, <1>2
    <2>2. c \in CacheMaps
      BY <1>5, <2>1, CacheMapBuild
    <2> QED BY <1>4, <2>2 DEF Empty
  <1>8. IsFiniteSet(DOMAIN c) /\ SumEmbeds(DOMAIN c) = SumEmbeds(DOMAIN m.cached) + SumEmbeds(H)
    <2>1. DOMAIN m.cached \cap H = {}
      BY DEF H
    <2>2. IsFiniteSet(DOMAIN m.cached \cup H)
      BY <1>1, <1>2, FS_Union
    <2>3. SumEmbeds(DOMAIN m.cached \cup H) = SumEmbeds(DOMAIN m.cached) + SumEmbeds(H)
      BY <1>1, <1>2, <2>1, SumUnion
    <2> QED BY <1>4, <2>2, <2>3
  <1>9. /\ a \in Int /\ b \in Int /\ a >= 0
        /\ a = CacheSize - SumEmbeds(DOMAIN c) /\ b = a + SumEmbeds(Empty(c))
    <2>1. /\ SumEmbeds(DOMAIN m.cached) \in Nat /\ SumEmbeds(H) \in Nat /\ CacheSize \in Nat
          /\ SumEmbeds(Empty(m.cached)) \in Nat
          /\ m.num_free_slots \in Nat /\ m.num_freeable_slots \in Nat
          /\ SumEmbeds(H) <= m.num_free_slots
      BY <1>1, <1>2 DEF H
    <2>2. a \in Int /\ a >= 0 /\ b \in Int
      BY <2>1
    <2>3. a = CacheSize - SumEmbeds(DOMAIN c)
      BY <1>1, <1>8, <2>1
    <2>4. b = a + SumEmbeds(Empty(c))
      BY <1>1, <1>7, <2>1
    <2> QED BY <2>2, <2>3, <2>4
  <1> HIDE DEF a, b
  <1>10. ManagerOK(n)
    BY <1>1, <1>3, <1>6, <1>7, <1>8, <1>9, BuiltOK
  <1>11. n.cached = c /\ n.request_cached_ids = ids /\ n.freed = m.freed
    BY <1>3, BuiltFields
  <1>12. Owned(n, U)
    <2> SUFFICES ASSUME NEW g \in DOMAIN c, NEW q \in c[g]
                 PROVE q \in U /\ \E j \in ids[q] : mm_features[q][j].hash = g
      BY <1>11 DEF Owned
    <2>1. CASE g \in H
      <3>1. q = r
        BY <1>4, <2>1
      <3>2. PICK j \in S : g = mm_features[r][j].hash
        BY <2>1 DEF H, HashesOf
      <3> QED BY <1>6, <3>1, <3>2
    <2>2. CASE g \in DOMAIN m.cached
      <3>1. q \in m.cached[g]
        BY <1>4, <2>2
      <3>2. q \in U /\ q \in Requests
        BY <1>1, <2>2, <3>1 DEF Owned
      <3>3. PICK j \in m.request_cached_ids[q] : mm_features[q][j].hash = g
        BY <2>2, <3>1 DEF Owned
      <3>4. j \in ids[q]
        BY <1>6, <3>2
      <3> QED BY <3>2, <3>3, <3>4
    <2> QED BY <1>4, <2>1, <2>2
  <1> QED BY <1>4, <1>10, <1>11, <1>12 DEF n, H

(* The first of the inputs that show an item.                               *)
LEMMA FirstShown ==
  ASSUME NEW S, IsFiniteSet(S), \A x \in S : x \in Nat, S # {}
  PROVE \E i \in S : \A j \in S : ~(j < i)
  <1>1. Cardinality(S) \in Nat /\ Cardinality(S) # 0
    BY FS_CardinalityType, FS_EmptySet
  <1>2. 1 \in 1 .. Cardinality(S)
    BY <1>1
  <1>3. PICK i \in S : Rank(S, i) = 1 - 1
    BY <1>2, RankOnto
  <1> DEFINE L == {j \in S : j < i}
  <1>4. IsFiniteSet(L) /\ Cardinality(L) = 0
    BY <1>3, FS_Subset DEF Rank
  <1>5. L = {}
    BY <1>4, FS_EmptySet
  <1> QED BY <1>5

LEMMA ConcatFacts ==
  ASSUME NEW T, NEW p \in Seq(T), NEW q \in Seq(T), Distinct(p), Distinct(q),
         ToSet(p) \cap ToSet(q) = {}
  PROVE /\ p \o q \in Seq(T) /\ Distinct(p \o q)
        /\ ToSet(p \o q) = ToSet(p) \cup ToSet(q)
  <1> DEFINE s == p \o q
  <1>1. /\ s \in Seq(T) /\ Len(s) = Len(p) + Len(q) /\ Len(p) \in Nat /\ Len(q) \in Nat
        /\ \A i \in 1 .. Len(p) : s[i] = p[i]
        /\ \A i \in 1 .. Len(s) : i > Len(p) => s[i] = q[i - Len(p)]
    OBVIOUS
  <1> HIDE DEF s
  <1>2. \A i \in 1 .. Len(p) : i \in 1 .. Len(s) /\ p[i] \in ToSet(p)
    BY <1>1 DEF ToSet
  <1>3. \A i \in 1 .. Len(s) : i > Len(p) =>
          i - Len(p) \in 1 .. Len(q) /\ s[i] \in ToSet(q)
    BY <1>1 DEF ToSet
  <1>4. \A i \in 1 .. Len(s) : i <= Len(p) => i \in 1 .. Len(p) /\ s[i] \in ToSet(p)
    BY <1>1, <1>2
  <1>5. Distinct(s)
    <2> SUFFICES ASSUME NEW i \in 1 .. Len(s), NEW j \in 1 .. Len(s), s[i] = s[j]
                 PROVE i = j
      BY DEF Distinct
    <2>1. CASE i <= Len(p) /\ j <= Len(p)
      BY <1>1, <1>4, <2>1 DEF Distinct
    <2>2. CASE i > Len(p) /\ j > Len(p)
      <3>1. PICK x \in 1 .. Len(q) : x = i - Len(p) /\ s[i] = q[x]
        BY <1>1, <1>3, <2>2
      <3>2. PICK y \in 1 .. Len(q) : y = j - Len(p) /\ s[j] = q[y]
        BY <1>1, <1>3, <2>2
      <3>3. x = y
        BY <3>1, <3>2 DEF Distinct
      <3> QED BY <1>1, <3>1, <3>2, <3>3
    <2>3. CASE i > Len(p) /\ j <= Len(p)
      BY <1>3, <1>4, <2>3
    <2>4. CASE i <= Len(p) /\ j > Len(p)
      BY <1>3, <1>4, <2>4
    <2>5. i <= Len(p) \/ i > Len(p)
      BY <1>1
    <2>6. j <= Len(p) \/ j > Len(p)
      BY <1>1
    <2> QED BY <2>1, <2>2, <2>3, <2>4, <2>5, <2>6, Zenon
  <1>6. ASSUME NEW x \in ToSet(s) PROVE x \in ToSet(p) \cup ToSet(q)
    <2>1. PICK i \in 1 .. Len(s) : x = s[i]
      BY <1>1 DEF ToSet
    <2>2. i <= Len(p) \/ i > Len(p)
      BY <1>1
    <2> QED BY <1>3, <1>4, <2>1, <2>2
  <1>7. ASSUME NEW x \in ToSet(p) PROVE x \in ToSet(s)
    <2>1. PICK i \in 1 .. Len(p) : x = p[i]
      BY DEF ToSet
    <2>2. i \in 1 .. Len(s) /\ s[i] = x
      BY <1>1, <1>2, <2>1
    <2>3. DOMAIN s = 1 .. Len(s)
      BY <1>1
    <2> QED BY <2>2, <2>3 DEF ToSet
  <1>8. ASSUME NEW x \in ToSet(q) PROVE x \in ToSet(s)
    <2>1. PICK i \in 1 .. Len(q) : x = q[i]
      BY DEF ToSet
    <2>2. i + Len(p) \in 1 .. Len(s) /\ i + Len(p) > Len(p) /\ (i + Len(p)) - Len(p) = i
      BY <1>1
    <2>3. s[i + Len(p)] = x
      BY <1>1, <2>1, <2>2
    <2> QED BY <1>1, <2>2, <2>3 DEF ToSet
  <1> QED BY <1>1, <1>5, <1>6, <1>7, <1>8 DEF s

(* Inputs give up their references; the entries left without one go to the  *)
(* end of the freeable queue.                                               *)
LEMMA FreeInputOK ==
  ASSUME NEW m, ManagerOK(m), NEW U, Owned(m, U), NEW r \in Requests,
         NEW S, S \subseteq m.request_cached_ids[r]
  PROVE LET n == free_encoder_input(m, r, S) IN
        /\ ManagerOK(n) /\ Owned(n, U)
        /\ DOMAIN n.cached = DOMAIN m.cached /\ n.freed = m.freed
        /\ n.num_free_slots = m.num_free_slots
        /\ \A g \in DOMAIN m.cached : \A q \in m.cached[g] : q # r => q \in n.cached[g]
        /\ S = m.request_cached_ids[r] => Owned(n, U \ {r})
  <1> DEFINE H == HashesOf(r, S)
             hash(i) == mm_features[r][i].hash
             last == {i \in S : /\ hash(i) \in DOMAIN m.cached /\ m.cached[hash(i)] = {r}
                                /\ \A j \in S : j < i => hash(j) # hash(i)}
             F == HashesOf(r, last)
             o == InOrder(last)
             g == [k \in 1 .. Len(o) |-> hash(o[k])]
             n == free_encoder_input(m, r, S)
             c == [h \in DOMAIN m.cached |-> IF h \in H THEN m.cached[h] \ {r} ELSE m.cached[h]]
             ids == [m.request_cached_ids EXCEPT ![r] = @ \ S]
             f == m.freeable \o g
             b == m.num_freeable_slots + SumEmbeds(F)
  <1>1. /\ m \in Managers
        /\ m.cached \in CacheMaps /\ m.request_cached_ids \in [Requests -> SUBSET Nat]
        /\ DOMAIN m.cached \subseteq Hashes /\ m.cached \in [DOMAIN m.cached -> SUBSET Requests]
        /\ m.freeable \in Seq(Hashes) /\ m.freed \in SUBSET Hashes
        /\ m.num_free_slots \in Nat /\ m.num_freeable_slots \in Nat
        /\ IsFiniteSet(DOMAIN m.cached)
        /\ \A q \in Requests : m.request_cached_ids[q] \subseteq Inputs(q)
        /\ m.num_free_slots = CacheSize - SumEmbeds(DOMAIN m.cached)
        /\ m.num_freeable_slots = m.num_free_slots + SumEmbeds(Empty(m.cached))
        /\ ToSet(m.freeable) = Empty(m.cached) /\ Distinct(m.freeable)
        /\ SumEmbeds(DOMAIN m.cached) \in Nat
        /\ SumEmbeds(Empty(m.cached)) \in Nat /\ Empty(m.cached) \subseteq DOMAIN m.cached
    BY ManagerIs
  <1>2. S \subseteq Inputs(r) /\ last \subseteq Inputs(r)
    BY <1>1
  <1>3. /\ IsFiniteSet(S) /\ (\A i \in S : i \in Nat) /\ H \subseteq Hashes
        /\ IsFiniteSet(last) /\ (\A i \in last : i \in Nat)
        /\ IsFiniteSet(F) /\ F \subseteq Hashes /\ SumEmbeds(F) \in Nat
    BY <1>2, HashesFinite, SumType
  <1>4. n = Built(c, ids, f, m.freed, m.num_free_slots, b)
    <2>1. m = Built(m.cached, m.request_cached_ids, m.freeable, m.freed, m.num_free_slots,
                    m.num_freeable_slots)
      BY <1>1 DEF Built, Managers
    <2>2. n = [[[[m EXCEPT !.request_cached_ids = ids] EXCEPT !.cached = c]
                 EXCEPT !.freeable = f] EXCEPT !.num_freeable_slots = b]
      BY <1>1 DEF free_encoder_input, Managers
    <2> HIDE DEF n, c, ids, f, b
    <2> QED BY <2>1, <2>2 DEF Built
  <1> HIDE DEF n
  (* The entries that become freeable. *)
  <1>5. F = {h \in H \cap DOMAIN m.cached : m.cached[h] = {r}}
    <2>1. ASSUME NEW h \in F PROVE h \in H \cap DOMAIN m.cached /\ m.cached[h] = {r}
      <3>1. PICK i \in last : h = hash(i)
        BY DEF HashesOf
      <3> QED BY <3>1 DEF HashesOf
    <2>2. ASSUME NEW h \in H \cap DOMAIN m.cached, m.cached[h] = {r} PROVE h \in F
      <3> DEFINE V == {i \in S : hash(i) = h}
      <3>1. V # {} /\ IsFiniteSet(V) /\ \A x \in V : x \in Nat
        BY <1>3, FS_Subset DEF HashesOf
      <3> HIDE DEF V
      <3>2. PICK i \in V : \A j \in V : ~(j < i)
        BY <3>1, FirstShown
      <3>3. i \in S /\ hash(i) = h /\ \A j \in S : j < i => hash(j) # h
        BY <3>2 DEF V
      <3>4. i \in last
        BY <2>2, <3>3
      <3> HIDE DEF last
      <3> QED BY <3>3, <3>4 DEF HashesOf
    <2> HIDE DEF F, H
    <2> QED BY <2>1, <2>2
  <1>6. \A i, j \in last : hash(i) = hash(j) => i = j
    <2> SUFFICES ASSUME NEW i \in last, NEW j \in last, hash(i) = hash(j), i # j PROVE FALSE
      OBVIOUS
    <2>1. i \in Nat /\ j \in Nat
      BY <1>3
    <2>2. i < j \/ j < i
      BY <2>1
    <2>3. /\ i \in S /\ \A k \in S : k < i => hash(k) # hash(i)
          /\ j \in S /\ \A k \in S : k < j => hash(k) # hash(j)
      OBVIOUS
    <2> HIDE DEF last
    <2> QED BY <2>2, <2>3
  <1>7. /\ Len(o) \in Nat
        /\ \A k \in 1 .. Len(o) : o[k] \in last /\ Rank(last, o[k]) = k - 1
        /\ \A i \in last : Rank(last, i) + 1 \in 1 .. Len(o) /\ o[Rank(last, i) + 1] = i
    <2> HIDE DEF last
    <2> QED BY <1>3, Ordered
  <1>8. \A i \in last : hash(i) \in F /\ hash(i) \in Hashes
    BY <1>3 DEF HashesOf
  <1>9. \A h \in F : \E i \in last : h = hash(i)
    BY DEF HashesOf
  <1> HIDE DEF last, F, o, hash
  <1>10. PICK l \in Nat : l = Len(o)
    BY <1>7
  <1>11. g \in [1 .. l -> Hashes] /\ \A k \in 1 .. l : g[k] = hash(o[k])
    BY <1>7, <1>8, <1>10
  <1> HIDE DEF g
  <1>12. g \in Seq(Hashes) /\ Len(g) = l /\ DOMAIN g = 1 .. l
    BY <1>11
  <1>13. Distinct(g)
    <2> SUFFICES ASSUME NEW i \in 1 .. l, NEW j \in 1 .. l, g[i] = g[j] PROVE i = j
      BY <1>12 DEF Distinct
    <2>1. o[i] = o[j]
      BY <1>6, <1>7, <1>10, <1>11
    <2> QED BY <1>7, <1>10, <2>1
  <1>14. ToSet(g) = F
    <2>1. ASSUME NEW k \in 1 .. l PROVE g[k] \in F
      BY <1>7, <1>8, <1>10, <1>11
    <2>2. ASSUME NEW h \in F PROVE \E k \in 1 .. l : g[k] = h
      BY <1>7, <1>9, <1>10, <1>11
    <2> QED BY <1>12, <2>1, <2>2 DEF ToSet
  (* The new state. *)
  <1>15. /\ DOMAIN c = DOMAIN m.cached /\ c \in [DOMAIN m.cached -> SUBSET Requests]
         /\ \A h \in DOMAIN c : c[h] = IF h \in H THEN m.cached[h] \ {r} ELSE m.cached[h]
    BY <1>1
  <1>16. /\ ids \in [Requests -> SUBSET Nat] /\ ids[r] = m.request_cached_ids[r] \ S
         /\ \A q \in Requests \ {r} : ids[q] = m.request_cached_ids[q]
         /\ \A q \in Requests : ids[q] \subseteq Inputs(q)
    BY <1>1
  <1> HIDE DEF c, ids, H
  <1>17. Empty(c) = Empty(m.cached) \cup F /\ Empty(m.cached) \cap F = {}
    <2>1. ASSUME NEW h \in DOMAIN c
          PROVE c[h] = {} <=> m.cached[h] = {} \/ (h \in H /\ m.cached[h] = {r})
      <3>1. CASE h \in H
        <4>1. c[h] = m.cached[h] \ {r}
          BY <1>15, <3>1
        <4> QED BY <3>1, <4>1
      <3>2. CASE h \notin H
        <4>1. c[h] = m.cached[h]
          BY <1>15, <3>2
        <4> QED BY <3>2, <4>1
      <3> QED BY <3>1, <3>2
    <2>2. \A h : h \in F <=> h \in DOMAIN c /\ h \in H /\ m.cached[h] = {r}
      BY <1>5, <1>15
    <2>3. \A h : h \in Empty(c) <=> h \in DOMAIN c /\ c[h] = {}
      BY DEF Empty
    <2>4. \A h : h \in Empty(m.cached) <=> h \in DOMAIN c /\ m.cached[h] = {}
      BY <1>15 DEF Empty
    <2>5. \A h : h \in Empty(c) <=> h \in Empty(m.cached) \/ h \in F
      BY <2>1, <2>2, <2>3, <2>4
    <2>6. \A h : ~(h \in Empty(m.cached) /\ h \in F)
      BY <2>2, <2>4
    <2> QED BY <2>5, <2>6
  <1>18. f \in Seq(Hashes) /\ Distinct(f) /\ ToSet(f) = Empty(c)
    BY <1>1, <1>12, <1>13, <1>14, <1>17, ConcatFacts
  <1>19. c \in CacheMaps
    BY <1>1, <1>15, CacheMapBuild
  <1>20. SumEmbeds(Empty(c)) = SumEmbeds(Empty(m.cached)) + SumEmbeds(F)
    <2>1. IsFiniteSet(Empty(m.cached)) /\ Empty(m.cached) \subseteq Hashes
      BY <1>1, FS_Subset
    <2> QED BY <1>3, <1>17, <2>1, SumUnion
  <1>21. b \in Int /\ b = m.num_free_slots + SumEmbeds(Empty(c))
    BY <1>1, <1>3, <1>20
  <1> HIDE DEF f, b
  <1>22. ManagerOK(n)
    BY <1>1, <1>4, <1>15, <1>16, <1>18, <1>19, <1>21, BuiltOK
  <1>23. /\ n.cached = c /\ n.request_cached_ids = ids /\ n.freed = m.freed
         /\ n.num_free_slots = m.num_free_slots
    BY <1>4, BuiltFields
  <1>24. ASSUME NEW h \in DOMAIN c, NEW q \in c[h]
         PROVE q \in U /\ \E j \in ids[q] : mm_features[q][j].hash = h
    <2>1. q \in m.cached[h] /\ (q = r => h \notin H)
      BY <1>15
    <2>2. q \in U /\ q \in Requests
      BY <1>1, <1>15, <2>1 DEF Owned
    <2>3. PICK j \in m.request_cached_ids[q] : mm_features[q][j].hash = h
      BY <1>15, <2>1 DEF Owned
    <2>4. q = r => j \notin S
      BY <2>1, <2>3 DEF H, HashesOf
    <2>5. j \in ids[q]
      BY <1>16, <2>2, <2>3, <2>4
    <2> QED BY <2>2, <2>3, <2>5
  <1>25. Owned(n, U)
    BY <1>23, <1>24 DEF Owned
  <1>26. ASSUME S = m.request_cached_ids[r] PROVE Owned(n, U \ {r})
    <2>1. ids[r] = {}
      BY <1>16, <1>26
    <2>2. ASSUME NEW h \in DOMAIN c, NEW q \in c[h] PROVE q # r
      BY <1>24, <2>1
    <2> QED BY <1>23, <1>24, <2>2 DEF Owned
  <1>27. \A h \in DOMAIN m.cached : \A q \in m.cached[h] : q # r => q \in n.cached[h]
    BY <1>15, <1>23
  <1> QED BY <1>15, <1>22, <1>23, <1>25, <1>26, <1>27 DEF n

LEMMA FreeOK ==
  ASSUME NEW m, ManagerOK(m), NEW U, Owned(m, U), NEW r \in Requests
  PROVE LET n == free(m, r) IN
        /\ ManagerOK(n) /\ Owned(n, U) /\ Owned(n, U \ {r})
        /\ DOMAIN n.cached = DOMAIN m.cached /\ n.freed = m.freed
        /\ n.num_free_slots = m.num_free_slots
        /\ \A g \in DOMAIN m.cached : \A q \in m.cached[g] : q # r => q \in n.cached[g]
  BY FreeInputOK DEF free

-----------------------------------------------------------------------------
(* The window of a chunk                                                    *)

LEMMA WindowFacts ==
  ASSUME NEW r \in Requests, NEW start \in Nat, NEW end \in Nat
  PROVE /\ first_in_window(r, start) \in Nat \ {0}
        /\ last_in_window(r, end) \in Nat /\ last_in_window(r, end) <= Len(mm_features[r])
        /\ \A i \in Inputs(r) :
             /\ i >= first_in_window(r, start)
                  <=> mm_features[r][i].offset + mm_features[r][i].length > start
             /\ i <= last_in_window(r, end) <=> mm_features[r][i].offset < end
  <1> DEFINE off(i) == mm_features[r][i].offset
             len(i) == mm_features[r][i].length
             n == Len(mm_features[r])
             A == {i \in Inputs(r) : off(i) + len(i) <= start}
             B == {i \in Inputs(r) : off(i) < end}
  <1>1. n \in Nat /\ Inputs(r) = 1 .. n
    BY InputsFinite DEF Inputs
  <1>2. \A i \in Inputs(r) : off(i) \in Nat /\ len(i) \in Nat
    BY InputItem
  <1>3. \A i, j \in Inputs(r) : i < j => off(i) + len(i) <= off(j)
    BY EncoderAssumption
  <1> HIDE DEF off, len, n
  <1>4. \A i \in A : \A j \in 1 .. i : j \in A
    <2> SUFFICES ASSUME NEW i \in A, NEW j \in 1 .. i PROVE j \in A
      OBVIOUS
    <2>1. i \in Inputs(r) /\ j \in Inputs(r) /\ (j = i \/ j < i)
      BY <1>1
    <2> QED BY <1>2, <1>3, <2>1
  <1>5. \A i \in B : \A j \in 1 .. i : j \in B
    <2> SUFFICES ASSUME NEW i \in B, NEW j \in 1 .. i PROVE j \in B
      OBVIOUS
    <2>1. i \in Inputs(r) /\ j \in Inputs(r) /\ (j = i \/ j < i)
      BY <1>1
    <2> QED BY <1>2, <1>3, <2>1
  <1>6. A \in SUBSET (1 .. n) /\ B \in SUBSET (1 .. n)
    BY <1>1
  <1>7. first_in_window(r, start) = Cardinality(A) + 1 /\ last_in_window(r, end) = Cardinality(B)
    BY DEF first_in_window, last_in_window, off, len
  <1>8. /\ \A i \in Inputs(r) : i \in A <=> off(i) + len(i) <= start
        /\ \A i \in Inputs(r) : i \in B <=> off(i) < end
    OBVIOUS
  <1> HIDE DEF A, B
  <1>9. Cardinality(A) \in Nat /\ A = 1 .. Cardinality(A)
    BY <1>1, <1>4, <1>6, DownClosed
  <1>10. Cardinality(B) \in Nat /\ Cardinality(B) <= n /\ B = 1 .. Cardinality(B)
    BY <1>1, <1>5, <1>6, DownClosed
  <1>11. ASSUME NEW i \in Inputs(r)
         PROVE /\ i >= Cardinality(A) + 1 <=> off(i) + len(i) > start
               /\ i <= Cardinality(B) <=> off(i) < end
    <2>1. i \in 1 .. n /\ off(i) \in Nat /\ len(i) \in Nat
      BY <1>1, <1>2
    <2>2. i \in A <=> i < Cardinality(A) + 1
      BY <1>1, <1>9, <2>1
    <2>3. i \in B <=> i <= Cardinality(B)
      BY <1>1, <1>10, <2>1
    <2> QED BY <1>1, <1>8, <1>9, <2>1, <2>2, <2>3
  <1> QED BY <1>7, <1>9, <1>10, <1>11 DEF off, len, n

(* The members of a window are inputs.                                      *)
LEMMA WindowIs ==
  ASSUME NEW r \in Requests, NEW start \in Nat, NEW end \in Nat, NEW i
  PROVE i \in Window(r, start, end) <=>
          /\ i \in Inputs(r)
          /\ mm_features[r][i].offset + mm_features[r][i].length > start
          /\ mm_features[r][i].offset < end
  <1>1. /\ first_in_window(r, start) \in Nat \ {0}
        /\ last_in_window(r, end) \in Nat /\ last_in_window(r, end) <= Len(mm_features[r])
    BY WindowFacts
  <1>2. i \in Window(r, start, end) => i \in Inputs(r)
    BY <1>1, InputsFinite DEF Window, Inputs
  <1>3. ASSUME i \in Inputs(r)
        PROVE i \in Window(r, start, end) <=>
                /\ mm_features[r][i].offset + mm_features[r][i].length > start
                /\ mm_features[r][i].offset < end
    <2>1. /\ i >= first_in_window(r, start)
               <=> mm_features[r][i].offset + mm_features[r][i].length > start
          /\ i <= last_in_window(r, end) <=> mm_features[r][i].offset < end
      BY <1>3, WindowFacts
    <2>2. i \in Int
      BY <1>3, InputsFinite
    <2>3. i \in Window(r, start, end)
            <=> i >= first_in_window(r, start) /\ i <= last_in_window(r, end)
      BY <1>1, <2>2 DEF Window
    <2> QED BY <2>1, <2>3
  <1> QED BY <1>2, <1>3

-----------------------------------------------------------------------------
(* Between passes                                                           *)

Quiet == {"idle", "updating", "applying"}

LEMMA InvInit == Init => Inv
  <1> SUFFICES ASSUME Init PROVE Inv
    OBVIOUS
  <1>1. /\ manager = EmptyManager /\ worker = {} /\ missed = {}
        /\ status = [r \in Requests |-> "NEW"]
        /\ num_computed_tokens = [r \in Requests |-> 0]
        /\ waiting = <<>> /\ running = <<>> /\ batch_queue = <<>>
        /\ pass = IdlePass /\ sched = <<>>
    BY DEF Init
  <1>2. ManagerOK(manager) /\ DOMAIN manager.cached = {} /\ manager.freed = {}
        /\ Owned(manager, Unfinished)
    BY <1>1, EmptyManagerOK
  <1>3. manager \in Managers
    BY <1>2 DEF ManagerOK
  <1>4. pass.phase = "idle" /\ DOMAIN sched = {}
    BY <1>1 DEF IdlePass
  <1>5. \A r \in Requests : num_computed_tokens[r] <= NumPrompt[r]
    BY <1>1, Constants
  <1>6. pass \in Passes
    BY <1>1 DEF IdlePass, Phases, Passes
  <1>7. TypeOK
    BY <1>1, <1>3, <1>4, <1>5, <1>6 DEF TypeOK
  <1>8. ToSet(waiting) = {} /\ ToSet(running) = {} /\ Distinct(waiting) /\ Distinct(running)
    BY <1>1 DEF ToSet, Distinct
  <1>9. QueuesOK
    BY <1>4, <1>8 DEF QueuesOK
  <1>10. SchedOK /\ CurOK
    BY <1>4 DEF SchedOK, CurOK
  <1>11. Encoded = {}
    BY <1>4 DEF Encoded
  <1>12. Round
    BY <1>1, <1>2, <1>4, <1>11 DEF Round, InLoop
  <1> QED BY <1>2, <1>7, <1>9, <1>10, <1>12 DEF Inv

LEMMA QuietFacts ==
  ASSUME Inv, pass.phase \in Quiet
  PROVE /\ DOMAIN sched = {}
        /\ Policy = "fcfs" =>
             missed = {} /\ manager.freed = {} /\ DOMAIN manager.cached = worker
  <1>1. DOMAIN sched = {}
    BY DEF Inv, SchedOK, Quiet
  <1>2. Encoded = {}
    BY <1>1 DEF Encoded
  <1> QED BY <1>1, <1>2 DEF Inv, Round, Quiet

LEMMA QuietKept ==
  ASSUME DOMAIN sched' = {}, pass'.phase \in Quiet,
         Policy = "fcfs" =>
           missed' = {} /\ manager'.freed = {} /\ DOMAIN manager'.cached = worker'
  PROVE SchedOK' /\ CurOK' /\ (Policy = "fcfs" => Round')
  <1>1. Encoded' = {}
    BY DEF Encoded
  <1>2. SchedOK' /\ CurOK'
    BY DEF SchedOK, CurOK, Quiet, InLoop
  <1>3. ASSUME Policy = "fcfs" PROVE Round'
    BY <1>1, <1>3 DEF Round, InLoop, Quiet
  <1> QED BY <1>2, <1>3

LEMMA InvParts ==
  ASSUME Inv
  PROVE /\ ManagerOK(manager) /\ Owned(manager, Unfinished) /\ manager \in Managers
        /\ worker \subseteq Hashes /\ missed \subseteq Hashes
        /\ status \in [Requests -> {"NEW", "WAITING", "RUNNING", "PREEMPTED", "FINISHED"}]
        /\ num_computed_tokens \in [Requests -> Nat]
        /\ \A r \in Requests : num_computed_tokens[r] <= NumPrompt[r]
        /\ waiting \in Seq(Requests) /\ running \in Seq(Requests)
        /\ batch_queue \in Seq(Seq([r : Requests, samples : BOOLEAN]))
        /\ pass \in Passes /\ pass.req_index \in Nat \ {0} /\ pass.token_budget \in Nat
        /\ pass.encoder_compute_budget \in Int
        /\ Distinct(waiting) /\ Distinct(running) /\ ToSet(waiting) \cap ToSet(running) = {}
        /\ pass.phase # "applying" => ToSet(waiting) \cup ToSet(running) \subseteq Unfinished
        /\ pass.phase \in {"updating", "applying"} => batch_queue # <<>>
        /\ DOMAIN sched \subseteq Requests
  <1>1. pass \in Passes
    BY DEF Inv, TypeOK
  <1>2. /\ pass.req_index \in Nat \ {0} /\ pass.token_budget \in Nat
        /\ pass.encoder_compute_budget \in Int
    BY <1>1 DEF Passes
  <1> QED BY <1>1, <1>2 DEF Inv, TypeOK, QueuesOK

LEMMA AppendFacts ==
  ASSUME NEW T, NEW q \in Seq(T), NEW x \in T, x \notin ToSet(q), Distinct(q)
  PROVE /\ Append(q, x) \in Seq(T) /\ Distinct(Append(q, x))
        /\ ToSet(Append(q, x)) = ToSet(q) \cup {x}
        /\ \A k \in 1 .. Len(q) : k \in 1 .. Len(Append(q, x)) /\ Append(q, x)[k] = q[k]
  <1> DEFINE s == Append(q, x)
  <1>1. /\ s \in Seq(T) /\ Len(s) = Len(q) + 1 /\ Len(q) \in Nat
        /\ \A i \in 1 .. Len(q) : s[i] = q[i]
        /\ s[Len(q) + 1] = x
    OBVIOUS
  <1> HIDE DEF s
  <1>2. \A i \in 1 .. Len(q) : i \in 1 .. Len(s) /\ q[i] \in ToSet(q)
    BY <1>1 DEF ToSet
  <1>3. \A i \in 1 .. Len(s) : i \in 1 .. Len(q) \/ i = Len(q) + 1
    BY <1>1
  <1>4. Distinct(s)
    <2> SUFFICES ASSUME NEW i \in 1 .. Len(s), NEW j \in 1 .. Len(s), s[i] = s[j]
                 PROVE i = j
      BY DEF Distinct
    <2>1. CASE i \in 1 .. Len(q) /\ j \in 1 .. Len(q)
      BY <1>1, <2>1 DEF Distinct
    <2>2. CASE i = Len(q) + 1 /\ j \in 1 .. Len(q)
      BY <1>1, <1>2, <2>2
    <2>3. CASE i \in 1 .. Len(q) /\ j = Len(q) + 1
      BY <1>1, <1>2, <2>3
    <2> QED BY <1>3, <2>1, <2>2, <2>3
  <1>5. DOMAIN s = 1 .. Len(s) /\ DOMAIN q = 1 .. Len(q) /\ Len(q) + 1 \in 1 .. Len(s)
    BY <1>1
  <1>6. ToSet(s) = ToSet(q) \cup {x}
    <2>1. \A y \in ToSet(s) : \E i \in 1 .. Len(s) : y = s[i]
      BY <1>5 DEF ToSet
    <2>2. \A y \in ToSet(q) : \E i \in 1 .. Len(q) : y = q[i]
      BY <1>5 DEF ToSet
    <2>3. \A i \in 1 .. Len(s) : s[i] \in ToSet(s)
      BY <1>5 DEF ToSet
    <2>4. ToSet(s) \subseteq ToSet(q) \cup {x}
      BY <1>1, <1>2, <1>3, <2>1
    <2>5. ToSet(q) \cup {x} \subseteq ToSet(s)
      BY <1>1, <1>2, <1>5, <2>2, <2>3
    <2> QED BY <2>4, <2>5
  <1> QED BY <1>1, <1>2, <1>4, <1>6 DEF s

LEMMA OwnedMore ==
  ASSUME NEW m, NEW U, NEW V, Owned(m, U), U \subseteq V
  PROVE Owned(m, V)
  BY DEF Owned

LEMMA AddKeepsInv ==
  ASSUME Inv, NEW r \in Requests, add_request(r)
  PROVE Inv'
  <1>1. /\ pass.phase = "idle" /\ status[r] = "NEW"
        /\ status' = [status EXCEPT ![r] = "WAITING"]
        /\ waiting' = Append(waiting, r)
        /\ manager' = manager /\ worker' = worker /\ missed' = missed
        /\ num_computed_tokens' = num_computed_tokens /\ running' = running
        /\ batch_queue' = batch_queue /\ pass' = pass /\ cur' = cur /\ sched' = sched
    BY DEF add_request, cacheVars, passVars, envVars
  <1>2. pass.phase \in Quiet
    BY <1>1 DEF Quiet
  <1>3. r \notin Unfinished /\ Unfinished' = Unfinished \cup {r}
    BY <1>1, InvParts DEF Unfinished
  <1>4. r \notin ToSet(waiting) /\ r \notin ToSet(running)
    BY <1>1, <1>3, InvParts
  <1>5. waiting' \in Seq(Requests) /\ Distinct(waiting') /\ ToSet(waiting') = ToSet(waiting) \cup {r}
    BY <1>1, <1>4, InvParts, AppendFacts
  <1>6. status' \in [Requests -> {"NEW", "WAITING", "RUNNING", "PREEMPTED", "FINISHED"}]
    BY <1>1, InvParts
  <1>7. QueuesOK'
    BY <1>1, <1>3, <1>4, <1>5, InvParts DEF QueuesOK
  <1>8. DOMAIN sched = {} /\ SchedOK' /\ CurOK' /\ (Policy = "fcfs" => Round')
    BY <1>1, <1>2, QuietFacts, QuietKept
  <1>9. TypeOK'
    BY <1>1, <1>5, <1>6, <1>8, InvParts DEF TypeOK
  <1>10. ManagerOK(manager') /\ Owned(manager', Unfinished')
    BY <1>1, <1>3, InvParts, OwnedMore
  <1> QED BY <1>7, <1>8, <1>9, <1>10 DEF Inv

LEMMA FinishKeepsInv ==
  ASSUME Inv, NEW r \in Requests, finish_requests(r)
  PROVE Inv'
  <1>1. /\ pass.phase \in {"idle", "updating"} /\ r \in Unfinished
        /\ manager' = free(manager, r)
        /\ status' = [status EXCEPT ![r] = "FINISHED"]
        /\ waiting' = Only(waiting, Requests \ {r}) /\ running' = Only(running, Requests \ {r})
        /\ worker' = worker /\ missed' = missed
        /\ num_computed_tokens' = num_computed_tokens
        /\ batch_queue' = batch_queue /\ pass' = pass /\ cur' = cur /\ sched' = sched
    BY DEF finish_requests, passVars
  <1>2. pass.phase \in Quiet
    BY <1>1 DEF Quiet
  <1>3. Unfinished' = Unfinished \ {r}
    BY <1>1, InvParts DEF Unfinished
  <1>4. /\ ManagerOK(manager') /\ Owned(manager', Unfinished')
        /\ DOMAIN manager'.cached = DOMAIN manager.cached /\ manager'.freed = manager.freed
    BY <1>1, <1>3, InvParts, FreeOK
  <1>5. /\ waiting' \in Seq(Requests) /\ Distinct(waiting')
        /\ ToSet(waiting') = ToSet(waiting) \cap (Requests \ {r})
        /\ running' \in Seq(Requests) /\ Distinct(running')
        /\ ToSet(running') = ToSet(running) \cap (Requests \ {r})
    BY <1>1, InvParts, OnlyFacts
  <1>6. status' \in [Requests -> {"NEW", "WAITING", "RUNNING", "PREEMPTED", "FINISHED"}]
    BY <1>1, InvParts
  <1>7. QueuesOK'
    BY <1>1, <1>3, <1>5, InvParts DEF QueuesOK
  <1>8. DOMAIN sched = {} /\ SchedOK' /\ CurOK' /\ (Policy = "fcfs" => Round')
    BY <1>1, <1>2, <1>4, QuietFacts, QuietKept
  <1>9. manager' \in Managers
    BY <1>4 DEF ManagerOK
  <1>10. TypeOK'
    BY <1>1, <1>5, <1>6, <1>8, <1>9, InvParts DEF TypeOK
  <1> QED BY <1>4, <1>7, <1>8, <1>10 DEF Inv

LEMMA ResetKeepsInv ==
  ASSUME Inv, reset_encoder_cache
  PROVE Inv'
  <1>1. /\ pass.phase = "idle" /\ manager' = EmptyManager /\ worker' = {} /\ missed' = missed
        /\ status' = status /\ waiting' = waiting /\ running' = running
        /\ num_computed_tokens' = num_computed_tokens
        /\ batch_queue' = batch_queue /\ pass' = pass /\ cur' = cur /\ sched' = sched
    BY DEF reset_encoder_cache, queueVars, passVars
  <1>2. pass.phase \in Quiet
    BY <1>1 DEF Quiet
  <1>3. /\ ManagerOK(manager') /\ Owned(manager', Unfinished')
        /\ DOMAIN manager'.cached = {} /\ manager'.freed = {}
    BY <1>1, EmptyManagerOK
  <1>4. Unfinished' = Unfinished
    BY <1>1 DEF Unfinished
  <1>5. QueuesOK'
    BY <1>1, <1>4, InvParts DEF QueuesOK
  <1>6. DOMAIN sched = {} /\ SchedOK' /\ CurOK' /\ (Policy = "fcfs" => Round')
    BY <1>1, <1>2, <1>3, QuietFacts, QuietKept
  <1>7. manager' \in Managers
    BY <1>3 DEF ManagerOK
  <1>8. TypeOK'
    BY <1>1, <1>6, <1>7, InvParts DEF TypeOK
  <1> QED BY <1>3, <1>5, <1>6, <1>8 DEF Inv

LEMMA UpdatingFacts ==
  ASSUME Inv, Updating
  PROVE /\ pass.phase \in Quiet /\ batch_queue # <<>>
        /\ Head(batch_queue) \in Seq([r : Requests, samples : BOOLEAN])
  <1>1. pass.phase \in Quiet /\ batch_queue # <<>>
    BY InvParts DEF Updating, Quiet
  <1> QED BY <1>1, InvParts

LEMMA UpdateRequestKeepsInv ==
  ASSUME Inv, UpdateRequest
  PROVE Inv'
  <1> DEFINE step == Head(batch_queue)
             out == Head(step)
             r == out.r
             m == _free_encoder_inputs(manager, r)
             done == r \in Unfinished /\ out.samples
  <1>1. /\ Updating /\ step # <<>>
        /\ batch_queue' = [batch_queue EXCEPT ![1] = Tail(@)]
        /\ manager' = IF r \notin Unfinished THEN manager ELSE IF done THEN free(m, r) ELSE m
        /\ status' = IF done THEN [status EXCEPT ![r] = "FINISHED"] ELSE status
        /\ pass' = [pass EXCEPT !.phase = "applying"]
        /\ worker' = worker /\ missed' = missed /\ num_computed_tokens' = num_computed_tokens
        /\ waiting' = waiting /\ running' = running /\ cur' = cur /\ sched' = sched
    BY DEF UpdateRequest, envVars
  <1>2. /\ pass.phase \in Quiet /\ batch_queue # <<>>
        /\ step \in Seq([r : Requests, samples : BOOLEAN])
    BY <1>1, UpdatingFacts
  <1>3. /\ out \in [r : Requests, samples : BOOLEAN]
        /\ Tail(step) \in Seq([r : Requests, samples : BOOLEAN])
    <2> DEFINE R == [r : Requests, samples : BOOLEAN]
    <2> HIDE DEF step, R
    <2>1. step \in Seq(R) /\ step # <<>>
      BY <1>1, <1>2 DEF R
    <2>2. Head(step) \in R /\ Tail(step) \in Seq(R)
      BY <2>1
    <2> QED BY <2>2 DEF R
  <1>4. r \in Requests /\ out.samples \in BOOLEAN
    BY <1>3
  <1>5. /\ batch_queue' \in Seq(Seq([r : Requests, samples : BOOLEAN])) /\ batch_queue' # <<>>
    BY <1>1, <1>2, <1>3, InvParts
  <1> DEFINE S == {i \in manager.request_cached_ids[r] :
                     mm_features[r][i].offset + mm_features[r][i].length + Shift
                       <= num_computed_tokens[r]
                            - (IF num_computed_tokens[r] = NumPrompt[r] THEN 1 ELSE 0)}
  <1>6. m = free_encoder_input(manager, r, S) /\ S \subseteq manager.request_cached_ids[r]
    BY DEF _free_encoder_inputs
  <1> HIDE DEF S, step, out, r, m
  <1>7. /\ ManagerOK(m) /\ Owned(m, Unfinished)
        /\ DOMAIN m.cached = DOMAIN manager.cached /\ m.freed = manager.freed
    <2> DEFINE n == free_encoder_input(manager, r, S)
    <2>1. ManagerOK(manager) /\ Owned(manager, Unfinished)
      BY InvParts
    <2>2. /\ ManagerOK(n) /\ Owned(n, Unfinished)
          /\ DOMAIN n.cached = DOMAIN manager.cached /\ n.freed = manager.freed
      BY <1>4, <1>6, <2>1, FreeInputOK
    <2> QED BY <1>6, <2>2
  <1>8. /\ ManagerOK(free(m, r)) /\ Owned(free(m, r), Unfinished \ {r})
        /\ DOMAIN free(m, r).cached = DOMAIN m.cached /\ free(m, r).freed = m.freed
    BY <1>4, <1>7, FreeOK
  <1>9. Unfinished' = IF done THEN Unfinished \ {r} ELSE Unfinished
    BY <1>1, <1>4, InvParts DEF Unfinished
  <1>10. /\ ManagerOK(manager') /\ Owned(manager', Unfinished')
         /\ DOMAIN manager'.cached = DOMAIN manager.cached /\ manager'.freed = manager.freed
    <2>1. CASE r \notin Unfinished
      BY <1>1, <1>9, <2>1, InvParts
    <2>2. CASE r \in Unfinished /\ done
      BY <1>1, <1>7, <1>8, <1>9, <2>2
    <2>3. CASE r \in Unfinished /\ ~done
      BY <1>1, <1>7, <1>9, <2>3
    <2> QED BY <2>1, <2>2, <2>3
  <1>11. status' \in [Requests -> {"NEW", "WAITING", "RUNNING", "PREEMPTED", "FINISHED"}]
    BY <1>1, <1>4, InvParts
  <1> HIDE DEF done
  <1>12. /\ pass'.phase = "applying"
         /\ pass' \in Passes
    BY <1>1, InvParts DEF Phases, Passes
  <1>13. QueuesOK'
    BY <1>1, <1>5, <1>12, InvParts DEF QueuesOK
  <1>14. DOMAIN sched' = {} /\ SchedOK' /\ CurOK' /\ (Policy = "fcfs" => Round')
    BY <1>1, <1>2, <1>10, <1>12, QuietFacts, QuietKept DEF Quiet
  <1>15. manager' \in Managers
    BY <1>10 DEF ManagerOK
  <1>16. TypeOK'
    BY <1>1, <1>5, <1>11, <1>12, <1>14, <1>15, InvParts DEF TypeOK
  <1> QED BY <1>10, <1>13, <1>14, <1>16 DEF Inv

LEMMA EndUpdateKeepsInv ==
  ASSUME Inv, EndUpdate
  PROVE Inv'
  <1>1. /\ Updating
        /\ batch_queue' = Tail(batch_queue)
        /\ waiting' = Only(waiting, Unfinished) /\ running' = Only(running, Unfinished)
        /\ pass' = [pass EXCEPT !.phase = "idle"]
        /\ manager' = manager /\ worker' = worker /\ missed' = missed
        /\ status' = status /\ num_computed_tokens' = num_computed_tokens
        /\ cur' = cur /\ sched' = sched
    BY DEF EndUpdate, cacheVars, envVars
  <1>2. pass.phase \in Quiet /\ batch_queue # <<>>
    BY <1>1, UpdatingFacts
  <1>3. batch_queue' \in Seq(Seq([r : Requests, samples : BOOLEAN]))
    BY <1>1, <1>2, InvParts
  <1>4. /\ pass'.phase = "idle"
        /\ pass' \in Passes
    BY <1>1, InvParts DEF Phases, Passes
  <1>5. /\ waiting' \in Seq(Requests) /\ Distinct(waiting')
        /\ ToSet(waiting') = ToSet(waiting) \cap Unfinished
        /\ running' \in Seq(Requests) /\ Distinct(running')
        /\ ToSet(running') = ToSet(running) \cap Unfinished
    BY <1>1, InvParts, OnlyFacts
  <1>6. Unfinished' = Unfinished
    BY <1>1 DEF Unfinished
  <1>7. QueuesOK'
    BY <1>4, <1>5, <1>6, InvParts DEF QueuesOK
  <1>8. DOMAIN sched' = {} /\ SchedOK' /\ CurOK' /\ (Policy = "fcfs" => Round')
    BY <1>1, <1>2, <1>4, QuietFacts, QuietKept DEF Quiet
  <1>9. TypeOK'
    BY <1>1, <1>3, <1>4, <1>5, <1>8, InvParts DEF TypeOK
  <1>10. ManagerOK(manager') /\ Owned(manager', Unfinished')
    BY <1>1, <1>6, InvParts
  <1> QED BY <1>7, <1>8, <1>9, <1>10 DEF Inv

-----------------------------------------------------------------------------
(* The loops of schedule()                                                  *)

LEMMA BeginScheduleKeepsInv ==
  ASSUME Inv, BeginSchedule
  PROVE Inv'
  <1>1. /\ pass.phase = "idle"
        /\ pass' = [IdlePass EXCEPT !.phase = "running", !.token_budget = MaxNumScheduledTokens,
                                    !.encoder_compute_budget = EncoderBudget]
        /\ manager' = manager /\ worker' = worker /\ missed' = missed
        /\ status' = status /\ num_computed_tokens' = num_computed_tokens
        /\ waiting' = waiting /\ running' = running /\ batch_queue' = batch_queue
        /\ cur' = cur /\ sched' = sched
    BY DEF BeginSchedule, cacheVars, queueVars, envVars
  <1>2. DOMAIN sched = {} /\ (Policy = "fcfs" => Round)
    BY <1>1, QuietFacts DEF Quiet, Inv
  <1>3. /\ pass'.phase = "running"
        /\ pass' \in Passes
    <2>1. pass' = [phase |-> "running", req_index |-> 1, token_budget |-> MaxNumScheduledTokens,
                   encoder_compute_budget |-> EncoderBudget, preempted |-> FALSE]
      BY <1>1 DEF IdlePass
    <2> QED BY <2>1, Constants DEF Phases, Passes
  <1>4. Unfinished' = Unfinished /\ Encoded' = Encoded
    BY <1>1 DEF Unfinished, Encoded
  <1>5. QueuesOK'
    BY <1>1, <1>3, <1>4, InvParts DEF QueuesOK
  <1>6. SchedOK' /\ CurOK'
    BY <1>1, <1>2, <1>3 DEF SchedOK, CurOK
  <1>7. ASSUME Policy = "fcfs" PROVE Round'
    BY <1>1, <1>2, <1>3, <1>4, <1>7 DEF Round, InLoop
  <1>8. TypeOK'
    BY <1>1, <1>2, <1>3, InvParts DEF TypeOK
  <1>9. ManagerOK(manager') /\ Owned(manager', Unfinished')
    BY <1>1, <1>4, InvParts
  <1> QED BY <1>5, <1>6, <1>7, <1>8, <1>9 DEF Inv

(* A loop ends: the phases in which nothing is known of the request in hand *)
(* and nothing of where the loop stands.                                    *)
LEMMA EndLoopKeepsInv ==
  ASSUME Inv, pass.phase \notin Quiet, EndRunning \/ EndWaiting
  PROVE Inv'
  <1>1. /\ pass' = [pass EXCEPT !.phase = pass'.phase]
        /\ pass'.phase \in {"waiting", "closing"}
        /\ manager' = manager /\ worker' = worker /\ missed' = missed
        /\ status' = status /\ num_computed_tokens' = num_computed_tokens
        /\ waiting' = waiting /\ running' = running /\ batch_queue' = batch_queue
        /\ cur' = cur /\ sched' = sched
    BY InvParts DEF Passes, EndRunning, EndWaiting, cacheVars, queueVars, envVars
  <1>2. pass' \in Passes
    BY <1>1, InvParts DEF Phases, Passes
  <1>3. Unfinished' = Unfinished /\ Encoded' = Encoded /\ \A r \in DOMAIN sched : Upto(r)' = Upto(r)
    BY <1>1 DEF Unfinished, Encoded, Upto
  <1>4. pass.phase # "applying"
    BY DEF Quiet
  <1>5. QueuesOK'
    BY <1>1, <1>3, <1>4, InvParts DEF QueuesOK
  <1>6. SchedOK' /\ CurOK'
    BY <1>1 DEF SchedOK, CurOK, InLoop, Inv
  <1>7. ASSUME Policy = "fcfs" PROVE Round'
    BY <1>1, <1>3, <1>7 DEF Round, InLoop, Inv, Held
  <1>8. TypeOK'
    BY <1>1, <1>2, InvParts DEF TypeOK, Inv
  <1>9. ManagerOK(manager') /\ Owned(manager', Unfinished')
    BY <1>1, <1>3, InvParts
  <1> QED BY <1>5, <1>6, <1>7, <1>8, <1>9 DEF Inv

CurType == [r : Requests, new : BOOLEAN, n : Nat, inputs : SUBSET Nat, hashes : SUBSET Hashes,
            embeds : Nat, budget : Int, at : Nat \ {0}, hi : Nat]

LEMMA CurFacts ==
  ASSUME Inv, pass.phase \in {"scanning", "allocating"}
  PROVE /\ cur \in CurType
        /\ cur.r \in Requests /\ cur.r \in Unfinished /\ cur.new \in BOOLEAN
        /\ cur.n \in Nat /\ cur.embeds \in Nat /\ cur.budget \in Int
        /\ cur.at \in Nat \ {0} /\ cur.hi \in Nat /\ Computed \in Nat
        /\ Computed = num_computed_tokens[cur.r]
        /\ cur.n <= NumPrompt[cur.r] - Computed /\ cur.n <= pass.token_budget
        /\ cur.inputs \subseteq Inputs(cur.r) /\ cur.hi <= Len(mm_features[cur.r])
        /\ cur.hashes = HashesOf(cur.r, cur.inputs) /\ cur.hashes \subseteq Hashes
        /\ cur.hashes \cap DOMAIN manager.cached = {}
        /\ cur.embeds = SumEmbeds(cur.hashes) /\ cur.embeds <= manager.num_free_slots
        /\ \A i \in cur.at .. cur.hi : mm_features[cur.r][i].offset < Computed + cur.n + Shift
        /\ cur.new => waiting # <<>> /\ cur.r = Head(waiting)
        /\ ~cur.new => \E k \in 1 .. Len(running) : k <= pass.req_index /\ running[k] = cur.r
  <1>1. /\ cur \in CurType
        /\ cur.new => waiting # <<>> /\ cur.r = Head(waiting)
        /\ ~cur.new => \E k \in 1 .. Len(running) : k <= pass.req_index /\ running[k] = cur.r
        /\ cur.inputs \subseteq Inputs(cur.r) /\ cur.hi <= Len(mm_features[cur.r])
        /\ cur.hashes = HashesOf(cur.r, cur.inputs)
        /\ cur.hashes \cap DOMAIN manager.cached = {}
        /\ cur.embeds = SumEmbeds(cur.hashes) /\ cur.embeds <= manager.num_free_slots
        /\ \A i \in cur.at .. cur.hi : mm_features[cur.r][i].offset < Computed + cur.n + Shift
    BY DEF Inv, CurOK, CurType
  <1>2. /\ cur.r \in Requests /\ cur.new \in BOOLEAN
        /\ cur.n \in Nat /\ cur.embeds \in Nat /\ cur.budget \in Int
        /\ cur.at \in Nat \ {0} /\ cur.hi \in Nat /\ cur.hashes \subseteq Hashes
    BY <1>1 DEF CurType
  <1>3. cur.r \in Unfinished
    <2>1. ToSet(waiting) \cup ToSet(running) \subseteq Unfinished
      BY InvParts
    <2>2. CASE cur.new
      <3>1. cur.r = waiting[1] /\ 1 \in DOMAIN waiting
        BY <1>1, <2>2, InvParts
      <3> QED BY <2>1, <3>1 DEF ToSet
    <2>3. CASE ~cur.new
      <3>1. PICK k \in 1 .. Len(running) : running[k] = cur.r
        BY <1>1, <2>3
      <3>2. k \in DOMAIN running
        BY InvParts
      <3> QED BY <2>1, <3>1, <3>2 DEF ToSet
    <2> QED BY <1>2, <2>2, <2>3
  <1>4. Computed \in Nat /\ Computed = num_computed_tokens[cur.r]
    BY <1>2, InvParts DEF Computed
  <1>5. cur.n <= NumPrompt[cur.r] - Computed /\ cur.n <= pass.token_budget
    <2>1. /\ cur.n \in 0 .. Lower(NumPrompt[cur.r] - num_computed_tokens[cur.r], pass.token_budget)
      BY DEF Inv, TypeOK
    <2>2. pass.token_budget \in Nat /\ NumPrompt[cur.r] \in Nat
      BY <1>2, InvParts, Constants
    <2> QED BY <1>2, <1>4, <2>1, <2>2 DEF Lower
  <1> QED BY <1>1, <1>2, <1>3, <1>4, <1>5

(* A scan begins: its window covers what the chunk reads.                   *)
LEMMA ChunkFacts ==
  ASSUME Inv, NEW r \in Requests, NEW new \in BOOLEAN
  PROVE LET c == Chunk(r, new) IN
        /\ c \in CurType /\ c.r = r /\ c.new = new
        /\ c.inputs = {} /\ c.hashes = {} /\ c.embeds = 0
        /\ c.n \in 0 .. Lower(NumPrompt[r] - num_computed_tokens[r], pass.token_budget)
        /\ c.hi <= Len(mm_features[r])
        /\ \A i \in c.at .. c.hi :
             mm_features[r][i].offset < num_computed_tokens[r] + c.n + Shift
        /\ c.n > 0 =>
             \A i \in Window(r, num_computed_tokens[r], num_computed_tokens[r] + c.n) :
               i \in c.at .. c.hi
  <1> DEFINE c == Chunk(r, new)
             done == num_computed_tokens[r]
             n == Lower(NumPrompt[r] - done, pass.token_budget)
             at == first_in_window(r, done)
             end == done + n + Shift
             hi == IF n = 0 THEN 0 ELSE last_in_window(r, end)
  <1>1. /\ pass.token_budget \in Nat /\ pass.encoder_compute_budget \in Int
        /\ done \in Nat /\ done <= NumPrompt[r] /\ NumPrompt[r] \in Nat /\ Shift \in {0, 1}
    BY InvParts, Constants
  <1>2. n \in Nat /\ end \in Nat /\ done + n \in Nat /\ done + n <= end
    BY <1>1 DEF Lower
  <1>3. c = [r |-> r, new |-> new, n |-> n, inputs |-> {}, hashes |-> {}, embeds |-> 0,
             budget |-> pass.encoder_compute_budget, at |-> at, hi |-> hi]
    BY DEF Chunk
  <1> HIDE DEF c, n, done, end
  <1>4. at \in Nat \ {0} /\ last_in_window(r, end) \in Nat
        /\ last_in_window(r, end) <= Len(mm_features[r])
    BY <1>1, <1>2, WindowFacts
  <1>5. Len(mm_features[r]) \in Nat
    BY InputsFinite
  <1>6. hi \in Nat /\ hi <= Len(mm_features[r])
    BY <1>2, <1>4, <1>5
  <1>7. /\ c.r = r /\ c.new = new /\ c.inputs = {} /\ c.hashes = {} /\ c.embeds = 0
        /\ c.n = n /\ c.at = at /\ c.hi = hi
    BY <1>3
  <1> HIDE DEF at
  <1>8. c \in CurType
    <2> HIDE DEF hi
    <2> QED BY <1>1, <1>2, <1>3, <1>4, <1>6 DEF CurType
  <1>9. ASSUME NEW i \in at .. hi PROVE mm_features[r][i].offset < end
    <2>1. n # 0 /\ i \in Inputs(r) /\ i <= last_in_window(r, end)
      BY <1>2, <1>4, <1>5, <1>6, <1>9 DEF Inputs
    <2> QED BY <1>1, <1>2, <2>1, WindowFacts
  <1>10. ASSUME n > 0, NEW i \in Window(r, done, done + n) PROVE i \in at .. hi
    <2>1. /\ i \in Inputs(r)
          /\ mm_features[r][i].offset + mm_features[r][i].length > done
          /\ mm_features[r][i].offset < done + n
      BY <1>1, <1>2, <1>10, WindowIs
    <2>2. mm_features[r][i].offset < end
      BY <1>2, <2>1, InputItem
    <2>3. i \in Window(r, done, end)
      BY <1>1, <1>2, <2>1, <2>2, WindowIs
    <2>4. hi = last_in_window(r, end)
      BY <1>2, <1>10
    <2> QED BY <2>3, <2>4 DEF Window, at
  <1>11. n \in 0 .. Lower(NumPrompt[r] - done, pass.token_budget)
    BY <1>2 DEF n
  <1> HIDE DEF hi
  <1> QED BY <1>6, <1>7, <1>8, <1>9, <1>10, <1>11 DEF c, done, end

LEMMA TryKeepsInv ==
  ASSUME Inv, TryRunning \/ TryWaiting
  PROVE Inv'
  <1>1. /\ pass' = [pass EXCEPT !.phase = "scanning"]
        /\ pass.phase \in {"running", "waiting"}
        /\ manager' = manager /\ worker' = worker /\ missed' = missed
        /\ status' = status /\ num_computed_tokens' = num_computed_tokens
        /\ waiting' = waiting /\ running' = running /\ batch_queue' = batch_queue
        /\ sched' = sched
    BY DEF TryRunning, TryWaiting, InRunningLoop, InWaitingLoop, cacheVars, queueVars, envVars
  <1>2. \E r \in Requests, new \in BOOLEAN :
          /\ cur' = Chunk(r, new)
          /\ new => waiting # <<>> /\ r = Head(waiting)
          /\ ~new => pass.phase = "running" /\ pass.req_index \in 1 .. Len(running)
                       /\ running[pass.req_index] = r
    <2>1. CASE TryRunning
      <3>1. pass.req_index \in 1 .. Len(running) /\ pass.phase = "running"
        BY <2>1, InvParts DEF TryRunning, InRunningLoop
      <3>2. running[pass.req_index] \in Requests
        BY <3>1, InvParts
      <3>3. cur' = Chunk(running[pass.req_index], FALSE)
        BY <2>1 DEF TryRunning
      <3> QED BY <3>1, <3>2, <3>3
    <2>2. CASE TryWaiting
      <3>1. waiting # <<>> /\ cur' = Chunk(Head(waiting), TRUE)
        BY <2>2 DEF TryWaiting, InWaitingLoop
      <3>2. Head(waiting) \in Requests
        BY <3>1, InvParts
      <3> QED BY <3>1, <3>2
    <2> QED BY <2>1, <2>2
  <1>3. PICK q \in Requests, w \in BOOLEAN :
          /\ cur' = Chunk(q, w)
          /\ w => waiting # <<>> /\ q = Head(waiting)
          /\ ~w => pass.phase = "running" /\ pass.req_index \in 1 .. Len(running)
                     /\ running[pass.req_index] = q
    BY <1>2
  <1>4. /\ cur' \in CurType /\ cur'.r = q /\ cur'.new = w
        /\ cur'.inputs = {} /\ cur'.hashes = {} /\ cur'.embeds = 0
        /\ cur'.n \in 0 .. Lower(NumPrompt[q] - num_computed_tokens[q], pass.token_budget)
        /\ cur'.hi <= Len(mm_features[q])
        /\ \A i \in cur'.at .. cur'.hi :
             mm_features[q][i].offset < num_computed_tokens[q] + cur'.n + Shift
        /\ cur'.n > 0 =>
             \A i \in Window(q, num_computed_tokens[q], num_computed_tokens[q] + cur'.n) :
               i \in cur'.at .. cur'.hi
    BY <1>3, ChunkFacts
  <1>5. /\ pass'.phase = "scanning" /\ pass'.req_index = pass.req_index
        /\ pass'.token_budget = pass.token_budget
        /\ pass' \in Passes
    BY <1>1, InvParts DEF Phases, Passes
  <1>6. Unfinished' = Unfinished /\ Encoded' = Encoded /\ \A x \in DOMAIN sched : Upto(x)' = Upto(x)
    BY <1>1 DEF Unfinished, Encoded, Upto
  <1>7. Computed' = num_computed_tokens[q]
    BY <1>1, <1>4 DEF Computed
  <1>8. QueuesOK'
    BY <1>1, <1>5, <1>6, InvParts DEF QueuesOK
  <1>9. InLoop' <=> ~w
    BY <1>4, <1>5 DEF InLoop
  <1>10. SchedOK'
    <2>1. SchedOK
      BY DEF Inv
    <2>2. InLoop' => InLoop
      BY <1>3, <1>9 DEF InLoop
    <2> QED BY <1>1, <1>5, <2>1, <2>2 DEF SchedOK
  <1>11. CurOK'
    <2>1. HashesOf(q, {}) = {} /\ SumEmbeds({}) = 0 /\ manager.num_free_slots \in Nat
      BY InvParts, ManagerIs, SumNone DEF HashesOf
    <2>2. pass.req_index \in Nat
      BY InvParts
    <2>3. ~w => \E k \in 1 .. Len(running) : k <= pass.req_index /\ running[k] = q
      BY <1>3, <2>2
    <2> QED BY <1>1, <1>3, <1>4, <1>5, <1>7, <2>1, <2>3 DEF CurOK, CurType
  <1>12. ASSUME Policy = "fcfs" PROVE Round'
    <2>1. Round
      BY <1>12 DEF Inv
    <2>2. ~w => \A k \in 1 .. Len(running) : k >= pass.req_index => running[k] \notin DOMAIN sched
      BY <1>3, <2>1 DEF Round, InLoop
    <2>3. \A x \in DOMAIN sched :
            \A i \in Window(x, num_computed_tokens[x], Upto(x)) \cup sched[x].inputs :
              Held(manager, x, i)
      BY <2>1 DEF Round
    <2>4. ~w => pass.req_index <= Len(running) /\ running[pass.req_index] = q
      BY <1>3, InvParts
    <2>5. DOMAIN manager.cached = (worker \ manager.freed) \cup Encoded /\ missed = {}
      BY <2>1 DEF Round
    <2> QED BY <1>1, <1>4, <1>5, <1>6, <1>7, <1>9, <2>2, <2>3, <2>4, <2>5 DEF Round
  <1>13. TypeOK'
    BY <1>1, <1>4, <1>5, InvParts DEF TypeOK, Inv
  <1>14. ManagerOK(manager') /\ Owned(manager', Unfinished')
    BY <1>1, <1>6, InvParts
  <1> QED BY <1>8, <1>10, <1>11, <1>12, <1>13, <1>14 DEF Inv

-----------------------------------------------------------------------------
(* The scan of _try_schedule_encoder_inputs                                 *)

(* What a step of the scan has to keep up.                                  *)
LEMMA ScanKeeps ==
  ASSUME Inv, pass.phase = "scanning", scanUnchanged,
         ManagerOK(manager'), Owned(manager', Unfinished),
         cur' \in CurType, cur'.r = cur.r, cur'.new = cur.new, cur'.hi = cur.hi,
         cur'.n <= cur.n,
         cur'.inputs \subseteq Inputs(cur.r), cur'.hashes = HashesOf(cur.r, cur'.inputs),
         cur'.hashes \cap DOMAIN manager'.cached = {},
         cur'.embeds = SumEmbeds(cur'.hashes), cur'.embeds <= manager'.num_free_slots,
         \A i \in cur'.at .. cur.hi : mm_features[cur.r][i].offset < Computed + cur'.n + Shift,
         Policy = "fcfs" =>
           /\ \A r \in Requests, i \in Nat : Held(manager, r, i) => Held(manager', r, i)
           /\ DOMAIN manager'.cached = (worker \ manager'.freed) \cup Encoded
           /\ cur'.n > 0 =>
                \A i \in Window(cur.r, Computed, Computed + cur'.n) :
                  \/ i \in cur'.at .. cur.hi \/ mm_features[cur.r][i].hash \in cur'.hashes
                  \/ Held(manager', cur.r, i)
  PROVE Inv'
  <1>1. /\ worker' = worker /\ missed' = missed
        /\ status' = status /\ num_computed_tokens' = num_computed_tokens
        /\ waiting' = waiting /\ running' = running /\ batch_queue' = batch_queue
        /\ pass' = pass /\ sched' = sched
    BY DEF scanUnchanged, queueVars
  <1>2. Unfinished' = Unfinished /\ Encoded' = Encoded /\ \A x \in DOMAIN sched : Upto(x)' = Upto(x)
    BY <1>1 DEF Unfinished, Encoded, Upto
  <1>3. Computed' = Computed
    BY <1>1 DEF Computed
  <1>4. /\ cur.r \in Requests /\ Computed \in Nat /\ cur.n \in Nat /\ cur'.n \in Nat
        /\ cur.hi <= Len(mm_features[cur.r])
        /\ cur.new => waiting # <<>> /\ cur.r = Head(waiting)
        /\ ~cur.new => \E k \in 1 .. Len(running) : k <= pass.req_index /\ running[k] = cur.r
    BY CurFacts DEF CurType
  <1>5. QueuesOK'
    BY <1>1, <1>2, InvParts DEF QueuesOK
  <1>6. InLoop' <=> InLoop
    BY <1>1 DEF InLoop
  <1>7. SchedOK'
    BY <1>1, <1>6 DEF SchedOK, Inv
  <1>8. CurOK'
    BY <1>1, <1>3, <1>4 DEF CurOK, CurType
  <1>9. ASSUME Policy = "fcfs" PROVE Round'
    <2>1. Round
      BY <1>9 DEF Inv
    <2>2. ASSUME NEW x \in DOMAIN sched,
                 NEW i \in Window(x, num_computed_tokens[x], Upto(x)) \cup sched[x].inputs
          PROVE Held(manager', x, i)
      <3>1. Held(manager, x, i)
        BY <2>1 DEF Round
      <3>2. x \in Requests
        BY InvParts
      <3>3. sched[x].inputs \subseteq Inputs(x)
        BY DEF Inv, SchedOK
      <3>4. num_computed_tokens[x] \in Nat /\ Upto(x) \in Nat
        <4>1. num_computed_tokens[x] \in Nat /\ NumPrompt[x] \in Nat
          BY <3>2, InvParts, Constants
        <4>2. sched[x].n \in 0 .. NumPrompt[x] - num_computed_tokens[x]
          BY DEF Inv, TypeOK
        <4> QED BY <4>1, <4>2 DEF Upto
      <3>5. i \in Inputs(x)
        BY <3>2, <3>3, <3>4, WindowIs
      <3>6. i \in Nat
        BY <3>2, <3>5, InputsFinite
      <3> QED BY <1>9, <3>1, <3>2, <3>6
    <2>3. InLoop => \A k \in 1 .. Len(running) : k >= pass.req_index => running[k] \notin DOMAIN sched
      BY <2>1 DEF Round
    <2>4. ~cur.new => pass.req_index <= Len(running) /\ running[pass.req_index] = cur.r
      BY <2>1 DEF Round
    <2>5. missed = {}
      BY <2>1 DEF Round
    <2> QED BY <1>1, <1>2, <1>3, <1>6, <1>9, <2>2, <2>3, <2>4, <2>5 DEF Round
  <1>10. TypeOK'
    <2>1. manager' \in Managers
      BY DEF ManagerOK
    <2>2. \A r \in DOMAIN sched : sched[r].n \in 0 .. NumPrompt[r] - num_computed_tokens[r]
      BY DEF Inv, TypeOK
    <2>3. cur.n \in 0 .. Lower(NumPrompt[cur.r] - num_computed_tokens[cur.r], pass.token_budget)
      BY DEF Inv, TypeOK
    <2>4. cur'.n \in 0 .. Lower(NumPrompt[cur.r] - num_computed_tokens[cur.r], pass.token_budget)
      <3>1. /\ NumPrompt[cur.r] \in Nat /\ num_computed_tokens[cur.r] \in Nat
            /\ pass.token_budget \in Nat
        BY <1>4, InvParts, Constants
      <3> QED BY <1>4, <2>3, <3>1 DEF Lower
    <2> QED BY <1>1, <2>1, <2>2, <2>4, InvParts DEF TypeOK
  <1> QED BY <1>2, <1>5, <1>7, <1>8, <1>9, <1>10 DEF Inv

(* The item in hand.                                                        *)
LEMMA ItemFacts ==
  ASSUME Inv, Scanning
  PROVE /\ pass.phase = "scanning" /\ cur.at \in Inputs(cur.r) /\ cur.at \in Nat
        /\ Item = mm_features[cur.r][cur.at]
        /\ Item.hash \in Hashes /\ Item.offset \in Nat /\ Item.length \in Nat
        /\ Embeds(Item.hash) = Item.length
        /\ Item.offset < Computed + cur.n + Shift
        /\ \A i \in cur.at .. cur.hi : i = cur.at \/ i \in cur.at + 1 .. cur.hi
        /\ \A i \in cur.at + 1 .. cur.hi : i \in cur.at .. cur.hi
  <1>1. pass.phase = "scanning" /\ cur.at <= cur.hi
    BY DEF Scanning
  <1>2. /\ cur.r \in Requests /\ cur.at \in Nat \ {0} /\ cur.hi \in Nat
        /\ cur.hi <= Len(mm_features[cur.r])
        /\ \A i \in cur.at .. cur.hi : mm_features[cur.r][i].offset < Computed + cur.n + Shift
    BY <1>1, CurFacts
  <1>3. cur.at \in Inputs(cur.r)
    BY <1>1, <1>2, InputsFinite DEF Inputs
  <1>4. Item \in Items /\ Item.hash \in Hashes /\ Item.offset \in Nat /\ Item.length \in Nat
    BY <1>2, <1>3, InputItem DEF Item
  <1>5. Item.offset < Computed + cur.n + Shift
    BY <1>1, <1>2 DEF Item
  <1> QED BY <1>1, <1>2, <1>3, <1>4, <1>5, EmbedsType DEF Item

LEMMA RoundFacts ==
  ASSUME Inv, Policy = "fcfs"
  PROVE /\ DOMAIN manager.cached = (worker \ manager.freed) \cup Encoded
        /\ pass.phase \in {"scanning", "allocating"} /\ cur.n > 0 =>
             \A i \in Window(cur.r, Computed, Computed + cur.n) :
               \/ i \in cur.at .. cur.hi \/ mm_features[cur.r][i].hash \in cur.hashes
               \/ Held(manager, cur.r, i)
        /\ \A r \in DOMAIN sched : \A i \in sched[r].inputs : Held(manager, r, i)
  BY DEF Inv, Round

(* Steps of the scan leave the other fields of the request in hand alone.   *)
MovedTo(c, n, k) == [c EXCEPT !.n = n, !.at = k]

LEMMA MoveTo ==
  ASSUME NEW c, NEW n, NEW k, c \in CurType, n \in Nat, k \in Nat \ {0}
  PROVE LET d == MovedTo(c, n, k) IN
        /\ d \in CurType /\ d.r = c.r /\ d.new = c.new /\ d.n = n /\ d.inputs = c.inputs
        /\ d.hashes = c.hashes /\ d.embeds = c.embeds /\ d.at = k /\ d.hi = c.hi
  <1> DEFINE d == [c EXCEPT !.n = n, !.at = k]
  <1>1. d \in CurType
    BY DEF CurType
  <1>2. /\ d.r = c.r /\ d.new = c.new /\ d.n = n /\ d.inputs = c.inputs
        /\ d.hashes = c.hashes /\ d.embeds = c.embeds /\ d.at = k /\ d.hi = c.hi
    BY DEF CurType
  <1>3. d = MovedTo(c, n, k)
    BY DEF MovedTo
  <1> HIDE DEF d
  <1> QED BY <1>1, <1>2, <1>3

LEMMA MoveOn ==
  ASSUME NEW c \in CurType
  PROVE LET d == [c EXCEPT !.at = @ + 1] IN
        /\ d \in CurType /\ d.r = c.r /\ d.new = c.new /\ d.n = c.n /\ d.inputs = c.inputs
        /\ d.hashes = c.hashes /\ d.embeds = c.embeds /\ d.at = c.at + 1 /\ d.hi = c.hi
  <1>1. PICK k \in Nat \ {0} : k = c.at + 1
    BY DEF CurType
  <1> DEFINE d == [c EXCEPT !.at = k]
  <1>2. d \in CurType
    BY DEF CurType
  <1>3. /\ d.r = c.r /\ d.new = c.new /\ d.n = c.n /\ d.inputs = c.inputs
        /\ d.hashes = c.hashes /\ d.embeds = c.embeds /\ d.at = k /\ d.hi = c.hi
    BY DEF CurType
  <1>4. d = [c EXCEPT !.at = @ + 1]
    BY <1>1
  <1> HIDE DEF d
  <1> QED BY <1>1, <1>2, <1>3, <1>4

LEMMA AlreadyTakenKeepsInv ==
  ASSUME Inv, AlreadyTaken
  PROVE Inv'
  <1>1. /\ Scanning /\ Item.hash \in cur.hashes /\ cur' = [cur EXCEPT !.at = @ + 1]
        /\ manager' = manager /\ scanUnchanged
    BY DEF AlreadyTaken
  <1>2. /\ cur' \in CurType /\ cur'.r = cur.r /\ cur'.new = cur.new /\ cur'.hi = cur.hi
        /\ cur'.n = cur.n /\ cur'.inputs = cur.inputs /\ cur'.hashes = cur.hashes
        /\ cur'.embeds = cur.embeds /\ cur'.at = cur.at + 1 /\ cur.n \in Nat
    BY <1>1, ItemFacts, CurFacts, MoveOn
  <1>3. ManagerOK(manager') /\ Owned(manager', Unfinished)
    BY <1>1, InvParts
  <1>4. \A i \in cur'.at .. cur.hi : mm_features[cur.r][i].offset < Computed + cur'.n + Shift
    BY <1>1, <1>2, ItemFacts, CurFacts
  <1>5. ASSUME Policy = "fcfs", cur.n > 0, NEW i \in Window(cur.r, Computed, Computed + cur.n)
        PROVE \/ i \in cur'.at .. cur.hi \/ mm_features[cur.r][i].hash \in cur.hashes
              \/ Held(manager, cur.r, i)
    BY <1>1, <1>2, <1>5, ItemFacts, RoundFacts
  <1>6. Policy = "fcfs" => DOMAIN manager'.cached = (worker \ manager'.freed) \cup Encoded
    BY <1>1, RoundFacts
  <1>7. /\ pass.phase = "scanning"
        /\ cur.inputs \subseteq Inputs(cur.r) /\ cur.hashes = HashesOf(cur.r, cur.inputs)
        /\ cur.hashes \cap DOMAIN manager.cached = {}
        /\ cur.embeds = SumEmbeds(cur.hashes) /\ cur.embeds <= manager.num_free_slots
    BY <1>1, ItemFacts, CurFacts
  <1> QED BY <1>1, <1>2, <1>3, <1>4, <1>5, <1>6, <1>7, ScanKeeps

LEMMA CacheHitKeepsInv ==
  ASSUME Inv, CacheHit
  PROVE Inv'
  <1>1. /\ Scanning /\ Item.hash \notin cur.hashes /\ Item.hash \in DOMAIN manager.cached
        /\ manager' = check_and_update_cache(manager, cur.r, cur.at)
        /\ cur' = [cur EXCEPT !.at = @ + 1] /\ scanUnchanged
    BY DEF CacheHit
  <1>2. /\ cur' \in CurType /\ cur'.r = cur.r /\ cur'.new = cur.new /\ cur'.hi = cur.hi
        /\ cur'.n = cur.n /\ cur'.inputs = cur.inputs /\ cur'.hashes = cur.hashes
        /\ cur'.embeds = cur.embeds /\ cur'.at = cur.at + 1 /\ cur.n \in Nat
    BY <1>1, ItemFacts, CurFacts, MoveOn
  <1>3. /\ cur.r \in Requests /\ cur.r \in Unfinished /\ cur.at \in Inputs(cur.r)
        /\ Item = mm_features[cur.r][cur.at] /\ pass.phase = "scanning"
    BY <1>1, ItemFacts, CurFacts
  <1>4. /\ ManagerOK(manager') /\ Owned(manager', Unfinished)
        /\ DOMAIN manager'.cached = DOMAIN manager.cached /\ manager'.freed = manager.freed
        /\ manager'.num_free_slots = manager.num_free_slots
        /\ \A g \in DOMAIN manager.cached : manager.cached[g] \subseteq manager'.cached[g]
        /\ cur.r \in manager'.cached[Item.hash]
    <2> DEFINE n == check_and_update_cache(manager, cur.r, cur.at)
    <2>1. ManagerOK(manager) /\ Owned(manager, Unfinished)
      BY InvParts
    <2>2. mm_features[cur.r][cur.at].hash \in DOMAIN manager.cached
      BY <1>1, <1>3
    <2>3. /\ ManagerOK(n) /\ Owned(n, Unfinished)
          /\ DOMAIN n.cached = DOMAIN manager.cached /\ n.freed = manager.freed
          /\ n.num_free_slots = manager.num_free_slots
          /\ \A g \in DOMAIN manager.cached : manager.cached[g] \subseteq n.cached[g]
          /\ cur.r \in n.cached[mm_features[cur.r][cur.at].hash]
      BY <1>3, <2>1, <2>2, HitOK
    <2>4. manager' = n
      BY <1>1
    <2> HIDE DEF n
    <2> QED BY <1>3, <2>3, <2>4
  <1>5. \A i \in cur'.at .. cur.hi : mm_features[cur.r][i].offset < Computed + cur'.n + Shift
    BY <1>1, <1>2, <1>3, ItemFacts, CurFacts
  <1>6. /\ \A r \in Requests, i \in Nat : Held(manager, r, i) => Held(manager', r, i)
        /\ \A i : Held(manager, cur.r, i) => Held(manager', cur.r, i)
        /\ Held(manager', cur.r, cur.at)
    BY <1>1, <1>3, <1>4 DEF Held
  <1>7. ASSUME Policy = "fcfs", cur.n > 0, NEW i \in Window(cur.r, Computed, Computed + cur.n)
        PROVE \/ i \in cur'.at .. cur.hi \/ mm_features[cur.r][i].hash \in cur.hashes
              \/ Held(manager', cur.r, i)
    <2>1. \/ i \in cur.at .. cur.hi \/ mm_features[cur.r][i].hash \in cur.hashes
          \/ Held(manager, cur.r, i)
      BY <1>3, <1>7, RoundFacts
    <2>2. i \in cur.at .. cur.hi => i = cur.at \/ i \in cur'.at .. cur.hi
      BY <1>1, <1>2, ItemFacts
    <2> QED BY <1>6, <2>1, <2>2
  <1>8. Policy = "fcfs" => DOMAIN manager'.cached = (worker \ manager'.freed) \cup Encoded
    BY <1>4, RoundFacts
  <1>9. /\ cur.inputs \subseteq Inputs(cur.r) /\ cur.hashes = HashesOf(cur.r, cur.inputs)
        /\ cur.hashes \cap DOMAIN manager'.cached = {}
        /\ cur.embeds = SumEmbeds(cur.hashes) /\ cur.embeds <= manager'.num_free_slots
    BY <1>3, <1>4, CurFacts
  <1> QED BY <1>1, <1>2, <1>3, <1>4, <1>5, <1>6, <1>7, <1>8, <1>9, ScanKeeps

(* The chunk ends in front of the item in hand, so it reads none of the     *)
(* items from there on.                                                     *)
LEMMA CutChunkKeepsInv ==
  ASSUME Inv, CutChunk
  PROVE Inv'
  <1> DEFINE before == Item.offset - (Computed + Shift)
             left == IF before > 0 THEN before ELSE 0
  <1>1. /\ Scanning /\ cur' = [cur EXCEPT !.n = left, !.at = cur.hi + 1]
        /\ manager' = manager /\ scanUnchanged
    BY DEF CutChunk, Wanted
  <1>2. /\ cur \in CurType /\ cur.r \in Requests /\ cur.n \in Nat /\ cur.hi \in Nat
        /\ cur.at \in Inputs(cur.r)
        /\ Computed \in Nat /\ Item.offset \in Nat /\ Item.offset < Computed + cur.n + Shift
        /\ Item = mm_features[cur.r][cur.at] /\ pass.phase = "scanning" /\ Shift \in {0, 1}
    BY <1>1, ItemFacts, CurFacts, Constants
  <1>3. left \in Nat /\ left <= cur.n /\ (left > 0 => Computed + left <= Item.offset)
    BY <1>2
  <1> HIDE DEF left, before
  <1>4. /\ cur' \in CurType /\ cur'.r = cur.r /\ cur'.new = cur.new /\ cur'.hi = cur.hi
        /\ cur'.n = left /\ cur'.inputs = cur.inputs /\ cur'.hashes = cur.hashes
        /\ cur'.embeds = cur.embeds /\ cur'.at = cur.hi + 1
    <2>1. PICK k \in Nat \ {0} : k = cur.hi + 1
      BY <1>2
    <2> DEFINE d == MovedTo(cur, left, k)
    <2>2. cur \in CurType /\ left \in Nat
      BY <1>2, <1>3
    <2>3. /\ d \in CurType /\ d.r = cur.r /\ d.new = cur.new /\ d.n = left /\ d.inputs = cur.inputs
          /\ d.hashes = cur.hashes /\ d.embeds = cur.embeds /\ d.at = k /\ d.hi = cur.hi
      BY <2>1, <2>2, MoveTo
    <2>4. cur' = d
      BY <1>1, <2>1 DEF MovedTo
    <2> HIDE DEF d
    <2> QED BY <2>1, <2>3, <2>4
  <1>5. \A i \in cur'.at .. cur.hi : FALSE
    BY <1>2, <1>4
  <1>6. ASSUME Policy = "fcfs", left > 0, NEW i \in Window(cur.r, Computed, Computed + left)
        PROVE mm_features[cur.r][i].hash \in cur.hashes \/ Held(manager, cur.r, i)
    <2>1. /\ i \in Inputs(cur.r)
          /\ mm_features[cur.r][i].offset + mm_features[cur.r][i].length > Computed
          /\ mm_features[cur.r][i].offset < Computed + left
      BY <1>2, <1>3, <1>6, WindowIs
    <2>2. mm_features[cur.r][i].offset \in Nat /\ mm_features[cur.r][i].length \in Nat
      BY <1>2, <2>1, InputItem
    <2>3. mm_features[cur.r][i].offset < Computed + cur.n /\ mm_features[cur.r][i].offset < Item.offset
      BY <1>2, <1>3, <1>6, <2>1, <2>2
    <2>4. i \in Window(cur.r, Computed, Computed + cur.n)
      BY <1>2, <2>1, <2>3, WindowIs
    <2>5. ~(cur.at < i) /\ i # cur.at
      <3>1. cur.at < i => Item.offset + Item.length <= mm_features[cur.r][i].offset
        BY <1>2, <2>1, EncoderAssumption
      <3>2. Item.length \in Nat
        BY <1>1, ItemFacts
      <3> QED BY <1>2, <2>2, <2>3, <3>1, <3>2
    <2>6. i \notin cur.at .. cur.hi
      BY <1>2, <2>1, <2>5, InputsFinite
    <2>7. cur.n > 0
      BY <1>2, <1>3, <1>6
    <2> QED BY <1>2, <1>6, <2>4, <2>6, <2>7, RoundFacts
  <1>7. /\ cur.inputs \subseteq Inputs(cur.r) /\ cur.hashes = HashesOf(cur.r, cur.inputs)
        /\ cur.hashes \cap DOMAIN manager.cached = {}
        /\ cur.embeds = SumEmbeds(cur.hashes) /\ cur.embeds <= manager.num_free_slots
    BY <1>2, CurFacts
  <1>8. Policy = "fcfs" => DOMAIN manager'.cached = (worker \ manager'.freed) \cup Encoded
    BY <1>1, RoundFacts
  <1>9. ManagerOK(manager') /\ Owned(manager', Unfinished)
    BY <1>1, InvParts
  <1> QED BY <1>1, <1>2, <1>3, <1>4, <1>5, <1>6, <1>7, <1>8, <1>9, ScanKeeps

(* Nothing that somebody refers to is evicted, so no entry that this step   *)
(* will encode, and the workers are told of the rest.                       *)
LEMMA EvictFacts ==
  ASSUME Inv, Wanted, Fits, manager' = evict(manager, Embeds(Item.hash) + cur.embeds)
  PROVE /\ ManagerOK(manager') /\ Owned(manager', Unfinished)
        /\ manager'.num_free_slots \in Nat
        /\ Embeds(Item.hash) + cur.embeds <= manager'.num_free_slots
        /\ DOMAIN manager'.cached \subseteq DOMAIN manager.cached
        /\ \A r \in Requests, i \in Nat : Held(manager, r, i) => Held(manager', r, i)
        /\ \A i : Held(manager, cur.r, i) => Held(manager', cur.r, i)
        /\ Policy = "fcfs" => DOMAIN manager'.cached = (worker \ manager'.freed) \cup Encoded
  <1> DEFINE need == Embeds(Item.hash) + cur.embeds
  <1>1. Scanning
    BY DEF Wanted
  <1>2. Embeds(Item.hash) \in Nat /\ cur.embeds \in Nat
    BY <1>1, ItemFacts, CurFacts
  <1>3. /\ manager.num_free_slots \in Nat /\ manager.num_freeable_slots \in Nat
        /\ manager.num_free_slots <= manager.num_freeable_slots
        /\ Empty(manager.cached) \subseteq DOMAIN manager.cached
    <2>1. /\ manager.num_free_slots \in Nat /\ manager.num_freeable_slots \in Nat
          /\ manager.num_freeable_slots = manager.num_free_slots + SumEmbeds(Empty(manager.cached))
          /\ SumEmbeds(Empty(manager.cached)) \in Nat
          /\ Empty(manager.cached) \subseteq DOMAIN manager.cached
      BY InvParts, ManagerIs
    <2> QED BY <2>1
  <1>4. need \in Nat /\ need <= manager.num_freeable_slots
    BY <1>2, <1>3 DEF Fits, can_allocate
  <1> HIDE DEF need
  <1>5. /\ ManagerOK(manager') /\ Owned(manager', Unfinished) /\ manager'.num_free_slots >= need
        /\ \E S \in SUBSET Empty(manager.cached) :
             /\ DOMAIN manager'.cached = DOMAIN manager.cached \ S
             /\ manager'.freed = manager.freed \cup S
        /\ \A g \in DOMAIN manager'.cached : manager'.cached[g] = manager.cached[g]
    <2>1. manager' = evict(manager, need)
      BY DEF need
    <2>2. ManagerOK(manager) /\ Owned(manager, Unfinished)
      BY InvParts
    <2> DEFINE n == evict(manager, need)
    <2>3. /\ ManagerOK(n) /\ Owned(n, Unfinished) /\ n.num_free_slots >= need
          /\ \E S \in SUBSET Empty(manager.cached) :
               DOMAIN n.cached = DOMAIN manager.cached \ S /\ n.freed = manager.freed \cup S
          /\ \A g \in DOMAIN n.cached : n.cached[g] = manager.cached[g]
      BY <1>4, <2>2, EvictOK
    <2> HIDE DEF n
    <2> QED BY <2>1, <2>3 DEF n
  <1>6. PICK S \in SUBSET Empty(manager.cached) :
          DOMAIN manager'.cached = DOMAIN manager.cached \ S /\ manager'.freed = manager.freed \cup S
    BY <1>5
  <1>7. manager'.num_free_slots \in Nat
    BY <1>5, ManagerIs
  <1>8. ASSUME NEW r, NEW i, Held(manager, r, i) PROVE Held(manager', r, i)
    <2> DEFINE h == mm_features[r][i].hash
    <2>1. h \in DOMAIN manager.cached /\ r \in manager.cached[h]
      BY <1>8 DEF Held
    <2>2. h \notin S
      BY <1>6, <2>1 DEF Empty
    <2> QED BY <1>5, <1>6, <2>1, <2>2 DEF Held
  <1>9. ASSUME Policy = "fcfs"
        PROVE DOMAIN manager'.cached = (worker \ manager'.freed) \cup Encoded
    <2>1. DOMAIN manager.cached = (worker \ manager.freed) \cup Encoded
      BY <1>9, RoundFacts
    <2>2. ASSUME NEW h \in Encoded PROVE h \notin S
      <3>1. PICK r \in DOMAIN sched : h \in HashesOf(r, sched[r].inputs)
        BY DEF Encoded
      <3>2. PICK i \in sched[r].inputs : h = mm_features[r][i].hash
        BY <3>1 DEF HashesOf
      <3>3. Held(manager, r, i)
        BY <1>9, RoundFacts
      <3> QED BY <1>6, <3>2, <3>3 DEF Held, Empty
    <2> QED BY <1>6, <2>1, <2>2
  <1>10. DOMAIN manager'.cached \subseteq DOMAIN manager.cached /\ need <= manager'.num_free_slots
    <2>1. DOMAIN manager'.cached \subseteq DOMAIN manager.cached
      BY <1>5, <1>6
    <2>2. need <= manager'.num_free_slots
      BY <1>4, <1>5, <1>7
    <2> QED BY <2>1, <2>2
  <1> QED BY <1>5, <1>7, <1>8, <1>9, <1>10 DEF need

LEMMA LookAheadKeepsInv ==
  ASSUME Inv, LookAhead
  PROVE Inv'
  <1>1. /\ Wanted /\ Fits /\ Scanning /\ Computed + cur.n <= Item.offset
        /\ manager' = evict(manager, Embeds(Item.hash) + cur.embeds)
        /\ cur' = [cur EXCEPT !.at = @ + 1] /\ scanUnchanged
    BY DEF LookAhead, Wanted
  <1>2. /\ cur' \in CurType /\ cur'.r = cur.r /\ cur'.new = cur.new /\ cur'.hi = cur.hi
        /\ cur'.n = cur.n /\ cur'.inputs = cur.inputs /\ cur'.hashes = cur.hashes
        /\ cur'.embeds = cur.embeds /\ cur'.at = cur.at + 1 /\ cur.n \in Nat
    BY <1>1, ItemFacts, CurFacts, MoveOn
  <1>3. /\ cur.r \in Requests /\ cur.at \in Inputs(cur.r) /\ Computed \in Nat
        /\ Item = mm_features[cur.r][cur.at] /\ pass.phase = "scanning" /\ Item.offset \in Nat
    BY <1>1, ItemFacts, CurFacts
  <1>4. /\ ManagerOK(manager') /\ Owned(manager', Unfinished)
        /\ manager'.num_free_slots \in Nat
        /\ Embeds(Item.hash) + cur.embeds <= manager'.num_free_slots
        /\ DOMAIN manager'.cached \subseteq DOMAIN manager.cached
        /\ \A r \in Requests, i \in Nat : Held(manager, r, i) => Held(manager', r, i)
        /\ \A i : Held(manager, cur.r, i) => Held(manager', cur.r, i)
        /\ Policy = "fcfs" => DOMAIN manager'.cached = (worker \ manager'.freed) \cup Encoded
    BY <1>1, EvictFacts
  <1>5. \A i \in cur'.at .. cur.hi : mm_features[cur.r][i].offset < Computed + cur'.n + Shift
    BY <1>1, <1>2, <1>3, ItemFacts, CurFacts
  <1>6. ASSUME Policy = "fcfs", cur.n > 0, NEW i \in Window(cur.r, Computed, Computed + cur.n)
        PROVE \/ i \in cur'.at .. cur.hi \/ mm_features[cur.r][i].hash \in cur.hashes
              \/ Held(manager', cur.r, i)
    <2>1. \/ i \in cur.at .. cur.hi \/ mm_features[cur.r][i].hash \in cur.hashes
          \/ Held(manager, cur.r, i)
      BY <1>3, <1>6, RoundFacts
    <2>2. i \in cur.at .. cur.hi => i = cur.at \/ i \in cur'.at .. cur.hi
      BY <1>1, <1>2, ItemFacts
    <2>3. i # cur.at
      <3>1. mm_features[cur.r][i].offset < Computed + cur.n
        BY <1>2, <1>3, <1>6, WindowIs
      <3> QED BY <1>1, <1>2, <1>3, <3>1
    <2> QED BY <1>4, <2>1, <2>2, <2>3
  <1>7. /\ cur.inputs \subseteq Inputs(cur.r) /\ cur.hashes = HashesOf(cur.r, cur.inputs)
        /\ cur.hashes \cap DOMAIN manager'.cached = {}
        /\ cur.embeds = SumEmbeds(cur.hashes)
    BY <1>3, <1>4, CurFacts
  <1>8. cur.embeds <= manager'.num_free_slots
    <2>1. Embeds(Item.hash) \in Nat /\ cur.embeds \in Nat
      BY <1>1, <1>3, ItemFacts, CurFacts
    <2> QED BY <1>4, <2>1
  <1>9. Policy = "fcfs" =>
          /\ \A r \in Requests, i \in Nat : Held(manager, r, i) => Held(manager', r, i)
          /\ DOMAIN manager'.cached = (worker \ manager'.freed) \cup Encoded
          /\ cur'.n > 0 =>
               \A i \in Window(cur.r, Computed, Computed + cur'.n) :
                 \/ i \in cur'.at .. cur.hi \/ mm_features[cur.r][i].hash \in cur'.hashes
                 \/ Held(manager', cur.r, i)
    BY <1>2, <1>4, <1>6
  <1>10. ManagerOK(manager') /\ Owned(manager', Unfinished) /\ cur'.n <= cur.n
    BY <1>2, <1>4
  <1> QED BY <1>1, <1>2, <1>3, <1>5, <1>7, <1>8, <1>9, <1>10, ScanKeeps

(* The request in hand after it has taken an item.                          *)
Took(c, I, H, e, b, k) ==
  [c EXCEPT !.at = k, !.inputs = I, !.hashes = H, !.embeds = e, !.budget = b]

LEMMA TookIs ==
  ASSUME NEW c, NEW I, NEW H, NEW e, NEW b, NEW k, c \in CurType, I \in SUBSET Nat,
         H \in SUBSET Hashes, e \in Nat, b \in Int, k \in Nat \ {0}
  PROVE LET d == Took(c, I, H, e, b, k) IN
        /\ d \in CurType /\ d.r = c.r /\ d.new = c.new /\ d.n = c.n /\ d.inputs = I
        /\ d.hashes = H /\ d.embeds = e /\ d.at = k /\ d.hi = c.hi
  <1>1. Took(c, I, H, e, b, k) \in CurType
    BY DEF CurType, Took
  <1>2. LET d == Took(c, I, H, e, b, k) IN
        /\ d.r = c.r /\ d.new = c.new /\ d.n = c.n /\ d.inputs = I
        /\ d.hashes = H /\ d.embeds = e /\ d.at = k /\ d.hi = c.hi
    BY DEF CurType, Took
  <1> QED BY <1>1, <1>2

LEMMA TakeInputKeepsInv ==
  ASSUME Inv, TakeInput
  PROVE Inv'
  <1>1. /\ Wanted /\ Fits /\ Scanning
        /\ Item.hash \notin cur.hashes /\ Item.hash \notin DOMAIN manager.cached
        /\ manager' = evict(manager, Embeds(Item.hash) + cur.embeds)
        /\ cur' = [cur EXCEPT !.at = @ + 1, !.inputs = @ \cup {cur.at},
                              !.hashes = @ \cup {Item.hash},
                              !.embeds = @ + Item.length, !.budget = @ - Item.length]
        /\ scanUnchanged
    BY DEF TakeInput, Wanted
  <1>2. /\ cur \in CurType /\ cur.r \in Requests /\ cur.at \in Inputs(cur.r) /\ cur.n \in Nat
        /\ Item = mm_features[cur.r][cur.at] /\ pass.phase = "scanning"
        /\ Item.hash \in Hashes /\ Item.length \in Nat /\ Embeds(Item.hash) = Item.length
    BY <1>1, ItemFacts, CurFacts
  <1>3. /\ cur' \in CurType
        /\ cur'.r = cur.r /\ cur'.new = cur.new /\ cur'.hi = cur.hi /\ cur'.n = cur.n
        /\ cur'.inputs = cur.inputs \cup {cur.at} /\ cur'.hashes = cur.hashes \cup {Item.hash}
        /\ cur'.embeds = cur.embeds + Item.length /\ cur'.at = cur.at + 1
    <2> DEFINE I == cur.inputs \cup {cur.at}
               H == cur.hashes \cup {Item.hash}
               e == cur.embeds + Item.length
               b == cur.budget - Item.length
               k == cur.at + 1
    <2>1. cur' = Took(cur, I, H, e, b, k)
      BY <1>1 DEF Took
    <2>2. /\ cur \in CurType /\ I \in SUBSET Nat /\ H \in SUBSET Hashes /\ e \in Nat /\ b \in Int
          /\ k \in Nat \ {0}
      BY <1>2 DEF CurType
    <2> HIDE DEF I, H, e, b, k
    <2> QED BY <2>1, <2>2, TookIs DEF I, H, e, k
  <1>4. cur'.n <= cur.n
    BY <1>2, <1>3
  <1>5. /\ ManagerOK(manager') /\ Owned(manager', Unfinished)
        /\ Embeds(Item.hash) + cur.embeds <= manager'.num_free_slots
        /\ DOMAIN manager'.cached \subseteq DOMAIN manager.cached
        /\ \A r \in Requests, i \in Nat : Held(manager, r, i) => Held(manager', r, i)
        /\ \A i : Held(manager, cur.r, i) => Held(manager', cur.r, i)
        /\ Policy = "fcfs" => DOMAIN manager'.cached = (worker \ manager'.freed) \cup Encoded
    BY <1>1, EvictFacts
  <1>6. \A i \in cur'.at .. cur.hi : mm_features[cur.r][i].offset < Computed + cur'.n + Shift
    BY <1>1, <1>2, <1>3, ItemFacts, CurFacts
  <1>7. ASSUME Policy = "fcfs", cur.n > 0, NEW i \in Window(cur.r, Computed, Computed + cur.n)
        PROVE \/ i \in cur'.at .. cur.hi \/ mm_features[cur.r][i].hash \in cur'.hashes
              \/ Held(manager', cur.r, i)
    <2>1. \/ i \in cur.at .. cur.hi \/ mm_features[cur.r][i].hash \in cur.hashes
          \/ Held(manager, cur.r, i)
      BY <1>2, <1>7, RoundFacts
    <2>2. i \in cur.at .. cur.hi => i = cur.at \/ i \in cur'.at .. cur.hi
      BY <1>1, <1>3, ItemFacts
    <2>3. i = cur.at => mm_features[cur.r][i].hash \in cur'.hashes
      BY <1>2, <1>3
    <2> QED BY <1>3, <1>5, <2>1, <2>2, <2>3
  <1>8. /\ cur.inputs \subseteq Inputs(cur.r) /\ cur.hashes = HashesOf(cur.r, cur.inputs)
        /\ cur.hashes \cap DOMAIN manager.cached = {} /\ cur.hashes \subseteq Hashes
        /\ cur.embeds = SumEmbeds(cur.hashes) /\ cur.embeds \in Nat
    BY <1>2, CurFacts
  <1>9. cur'.inputs \subseteq Inputs(cur.r) /\ cur'.hashes = HashesOf(cur.r, cur'.inputs)
    BY <1>2, <1>3, <1>8 DEF HashesOf
  <1>10. cur'.hashes \cap DOMAIN manager'.cached = {}
    BY <1>1, <1>3, <1>5, <1>8
  <1>11. cur'.embeds = SumEmbeds(cur'.hashes)
    <2>1. IsFiniteSet(cur.hashes)
      BY <1>2, <1>8, HashesFinite
    <2>2. SumEmbeds({Item.hash}) = Item.length /\ IsFiniteSet({Item.hash})
      BY <1>2, SumOne
    <2>3. cur.hashes \cap {Item.hash} = {} /\ {Item.hash} \subseteq Hashes
      BY <1>1, <1>2
    <2>4. SumEmbeds(cur.hashes \cup {Item.hash}) = SumEmbeds(cur.hashes) + SumEmbeds({Item.hash})
      BY <1>8, <2>1, <2>2, <2>3, SumUnion
    <2> QED BY <1>3, <1>8, <2>2, <2>4
  <1>12. cur'.embeds <= manager'.num_free_slots
    <2>1. manager'.num_free_slots \in Nat
      BY <1>5, ManagerIs
    <2> QED BY <1>2, <1>3, <1>5, <1>8, <2>1
  <1>13. Policy = "fcfs" =>
           /\ \A r \in Requests, i \in Nat : Held(manager, r, i) => Held(manager', r, i)
           /\ DOMAIN manager'.cached = (worker \ manager'.freed) \cup Encoded
           /\ cur'.n > 0 =>
                \A i \in Window(cur.r, Computed, Computed + cur'.n) :
                  \/ i \in cur'.at .. cur.hi \/ mm_features[cur.r][i].hash \in cur'.hashes
                  \/ Held(manager', cur.r, i)
    BY <1>3, <1>5, <1>7
  <1>14. ManagerOK(manager') /\ Owned(manager', Unfinished)
    BY <1>5
  <1> QED BY <1>1, <1>2, <1>3, <1>4, <1>6, <1>9, <1>10, <1>11, <1>12, <1>13, <1>14, ScanKeeps

LEMMA EndScanKeepsInv ==
  ASSUME Inv, EndScan
  PROVE Inv'
  <1>1. /\ pass.phase = "scanning" /\ cur.at > cur.hi
        /\ manager' = manager /\ worker' = worker /\ missed' = missed
        /\ status' = status /\ num_computed_tokens' = num_computed_tokens
        /\ waiting' = waiting /\ running' = running /\ batch_queue' = batch_queue
        /\ sched' = sched
    BY DEF EndScan, cacheVars, queueVars, envVars
  <1>2. Unfinished' = Unfinished /\ Encoded' = Encoded /\ \A x \in DOMAIN sched : Upto(x)' = Upto(x)
    BY <1>1 DEF Unfinished, Encoded, Upto
  <1>3. ManagerOK(manager') /\ Owned(manager', Unfinished')
    BY <1>1, <1>2, InvParts
  <1>4. \A r \in DOMAIN sched : sched[r].n \in 0 .. NumPrompt[r] - num_computed_tokens[r]
    BY DEF Inv, TypeOK
  <1>5. /\ \A r \in DOMAIN sched : sched[r].inputs \subseteq Inputs(r) /\ r \in ToSet(running)
        /\ InLoop => \A r \in DOMAIN sched : \E k \in 1 .. Len(running) :
                       k < pass.req_index /\ running[k] = r
    BY <1>1 DEF Inv, SchedOK
  <1>6. Policy = "fcfs" =>
          /\ InLoop => \A k \in 1 .. Len(running) :
                         k >= pass.req_index => running[k] \notin DOMAIN sched
          /\ \A r \in DOMAIN sched :
               \A i \in Window(r, num_computed_tokens[r], Upto(r)) \cup sched[r].inputs :
                 Held(manager, r, i)
          /\ DOMAIN manager.cached = (worker \ manager.freed) \cup Encoded
          /\ missed = {}
    BY DEF Inv, Round
  <1>7. CASE cur.n = 0 /\ ~cur.new /\ pass' = [pass EXCEPT !.phase = "running", !.req_index = @ + 1]
    <2>1. /\ pass'.phase = "running" /\ pass'.req_index = pass.req_index + 1
          /\ pass.req_index \in Nat
          /\ pass' \in Passes
      <3>1. PICK k \in Nat \ {0} : k = pass.req_index + 1
        BY InvParts
      <3>2. pass' = [pass EXCEPT !.phase = "running", !.req_index = k]
        BY <1>7, <3>1
      <3> QED BY <3>1, <3>2, InvParts DEF Phases, Passes
    <2>2. InLoop
      BY <1>1, <1>7 DEF InLoop
    <2>3. QueuesOK'
      BY <1>1, <1>2, <2>1, InvParts DEF QueuesOK
    <2>4. \A k \in 1 .. Len(running) : k < pass.req_index => k < pass'.req_index
      BY <2>1
    <2>5. SchedOK' /\ CurOK'
      BY <1>1, <1>5, <2>1, <2>2, <2>4 DEF SchedOK, CurOK
    <2>6. TypeOK'
      BY <1>1, <1>4, <2>1, InvParts DEF TypeOK
    <2>7. \A k \in 1 .. Len(running) : k >= pass'.req_index => k >= pass.req_index
      BY <2>1
    <2>8. ASSUME Policy = "fcfs" PROVE Round'
      BY <1>1, <1>2, <1>6, <2>1, <2>2, <2>7, <2>8 DEF Round
    <2> QED BY <1>3, <2>3, <2>5, <2>6, <2>8 DEF Inv
  <1>8. CASE cur.n = 0 /\ cur.new /\ pass' = [pass EXCEPT !.phase = "closing"]
    <2>1. /\ pass'.phase = "closing"
          /\ pass' \in Passes
      BY <1>8, InvParts DEF Phases, Passes
    <2>2. QueuesOK'
      BY <1>1, <1>2, <2>1, InvParts DEF QueuesOK
    <2>3. SchedOK' /\ CurOK'
      BY <1>1, <1>5, <2>1 DEF SchedOK, CurOK, InLoop
    <2>4. TypeOK'
      BY <1>1, <1>4, <2>1, InvParts DEF TypeOK
    <2>5. ASSUME Policy = "fcfs" PROVE Round'
      BY <1>1, <1>2, <1>6, <2>1, <2>5 DEF Round, InLoop
    <2> QED BY <1>3, <2>2, <2>3, <2>4, <2>5 DEF Inv
  <1>9. CASE cur.n > 0 /\ cur' = cur /\ pass' = [pass EXCEPT !.phase = "allocating"]
    <2>1. /\ pass'.phase = "allocating" /\ pass'.req_index = pass.req_index
          /\ pass'.token_budget = pass.token_budget
          /\ pass' \in Passes
      BY <1>9, InvParts DEF Phases, Passes
    <2>2. QueuesOK'
      BY <1>1, <1>2, <2>1, InvParts DEF QueuesOK
    <2>3. InLoop' <=> InLoop
      BY <1>1, <1>9, <2>1 DEF InLoop
    <2>4. SchedOK'
      BY <1>1, <1>5, <2>1, <2>3 DEF SchedOK
    <2>5. Computed' = Computed
      BY <1>1, <1>9 DEF Computed
    <2>6. CurOK'
      BY <1>1, <1>9, <2>1, <2>5 DEF Inv, CurOK
    <2>7. TypeOK'
      BY <1>1, <1>4, <1>9, <2>1, InvParts DEF Inv, TypeOK
    <2>8. ASSUME Policy = "fcfs" PROVE Round'
      <3>1. ~cur.new => pass.req_index <= Len(running) /\ running[pass.req_index] = cur.r
        BY <1>1, <2>8 DEF Inv, Round
      <3> QED BY <1>1, <1>2, <1>6, <1>9, <2>1, <2>3, <2>5, <2>8, <3>1, RoundFacts DEF Round
    <2> QED BY <1>3, <2>2, <2>4, <2>6, <2>7, <2>8 DEF Inv
  <1> QED BY <1>7, <1>8, <1>9 DEF EndScan

-----------------------------------------------------------------------------
(* allocate_slots succeeds                                                  *)

(* The step takes the request; under FCFS it refers to all that it reads,   *)
(* and what it encodes is new to the workers and counted by the manager.    *)
LEMMA ScheduledFacts ==
  ASSUME Inv, pass.phase = "allocating", Scheduled, num_computed_tokens' = num_computed_tokens
  PROVE /\ ManagerOK(manager') /\ Owned(manager', Unfinished)
        /\ DOMAIN sched' = DOMAIN sched \cup {cur.r}
        /\ \A r \in DOMAIN sched' :
             /\ sched'[r].n \in 0 .. NumPrompt[r] - num_computed_tokens[r]
             /\ sched'[r].inputs \subseteq Inputs(r)
        /\ Policy = "fcfs" /\ cur.r \notin DOMAIN sched =>
             /\ \A r \in DOMAIN sched' :
                  \A i \in Window(r, num_computed_tokens[r], Upto(r)') \cup sched'[r].inputs :
                    Held(manager', r, i)
             /\ DOMAIN manager'.cached = (worker \ manager'.freed) \cup Encoded'
  <1>1. /\ manager' = allocate(manager, cur.r, cur.inputs)
        /\ sched' = Put(sched, cur.r, [n |-> cur.n, inputs |-> cur.inputs])
    BY DEF Scheduled
  <1>2. /\ cur.r \in Requests /\ cur.r \in Unfinished /\ cur.inputs \subseteq Inputs(cur.r)
        /\ cur.hashes = HashesOf(cur.r, cur.inputs)
        /\ cur.hashes \cap DOMAIN manager.cached = {}
        /\ cur.embeds = SumEmbeds(cur.hashes) /\ cur.embeds <= manager.num_free_slots
        /\ cur.n \in Nat /\ Computed \in Nat /\ Computed = num_computed_tokens[cur.r]
        /\ cur.n <= NumPrompt[cur.r] - Computed /\ cur.at \in Nat /\ cur.hi \in Nat
    BY CurFacts
  <1>3. /\ ManagerOK(manager') /\ Owned(manager', Unfinished) /\ manager'.freed = manager.freed
        /\ DOMAIN manager'.cached = DOMAIN manager.cached \cup cur.hashes
        /\ \A g \in DOMAIN manager.cached : manager'.cached[g] = manager.cached[g]
        /\ \A g \in cur.hashes : manager'.cached[g] = {cur.r}
    <2> DEFINE H == HashesOf(cur.r, cur.inputs)
               n == allocate(manager, cur.r, cur.inputs)
    <2>1. H \cap DOMAIN manager.cached = {} /\ SumEmbeds(H) <= manager.num_free_slots
      BY <1>2
    <2>2. ManagerOK(manager) /\ Owned(manager, Unfinished)
      BY InvParts
    <2>3. /\ ManagerOK(n) /\ Owned(n, Unfinished) /\ n.freed = manager.freed
          /\ DOMAIN n.cached = DOMAIN manager.cached \cup H
          /\ \A g \in DOMAIN manager.cached : n.cached[g] = manager.cached[g]
          /\ \A g \in H : n.cached[g] = {cur.r}
      BY <1>2, <2>1, <2>2, AllocateOK
    <2>4. H = cur.hashes /\ n = manager'
      BY <1>1, <1>2
    <2> HIDE DEF H, n
    <2> QED BY <2>3, <2>4
  <1>4. /\ DOMAIN sched' = DOMAIN sched \cup {cur.r}
        /\ sched'[cur.r] = [n |-> cur.n, inputs |-> cur.inputs]
        /\ \A r \in DOMAIN sched \ {cur.r} : sched'[r] = sched[r]
    BY <1>1 DEF Put
  <1>5. sched'[cur.r].n = cur.n /\ sched'[cur.r].inputs = cur.inputs
    BY <1>4
  <1>6. ASSUME NEW r \in DOMAIN sched'
        PROVE /\ sched'[r].n \in 0 .. NumPrompt[r] - num_computed_tokens[r]
              /\ sched'[r].inputs \subseteq Inputs(r)
    <2>1. CASE r = cur.r
      <3>1. NumPrompt[cur.r] \in Nat
        BY <1>2, Constants
      <3> QED BY <1>2, <1>5, <2>1, <3>1
    <2>2. CASE r # cur.r
      BY <1>4, <2>2 DEF Inv, TypeOK, SchedOK
    <2> QED BY <2>1, <2>2
  <1>7. /\ \A r, i : Held(manager, r, i) => Held(manager', r, i)
        /\ \A i : mm_features[cur.r][i].hash \in cur.hashes => Held(manager', cur.r, i)
    BY <1>3 DEF Held
  <1>8. ASSUME Policy = "fcfs", NEW r \in DOMAIN sched',
               NEW i \in Window(r, num_computed_tokens[r], Upto(r)') \cup sched'[r].inputs
        PROVE Held(manager', r, i)
    <2>1. CASE r = cur.r
      <3>1. Upto(r)' = Computed + cur.n
        BY <1>2, <1>5, <2>1 DEF Upto
      <3>2. CASE i \in cur.inputs
        BY <1>2, <1>7, <2>1, <3>2 DEF HashesOf
      <3>3. CASE i \in Window(cur.r, Computed, Computed + cur.n)
        <4>1. cur.n > 0 /\ cur.at > cur.hi
          BY <1>8 DEF Inv, Round
        <4>2. i \notin cur.at .. cur.hi
          BY <1>2, <4>1
        <4>3. mm_features[cur.r][i].hash \in cur.hashes \/ Held(manager, cur.r, i)
          BY <1>8, <3>3, <4>1, <4>2, RoundFacts
        <4> QED BY <1>7, <2>1, <4>3
      <3> QED BY <1>2, <1>5, <1>8, <2>1, <3>1, <3>2, <3>3
    <2>2. CASE r # cur.r
      <3>1. r \in DOMAIN sched /\ sched'[r] = sched[r]
        BY <1>4, <2>2
      <3>2. Upto(r)' = Upto(r)
        BY <3>1 DEF Upto
      <3>3. Held(manager, r, i)
        BY <1>8, <3>1, <3>2 DEF Inv, Round
      <3> QED BY <1>7, <3>3
    <2> QED BY <2>1, <2>2
  <1>9. ASSUME Policy = "fcfs", cur.r \notin DOMAIN sched
        PROVE DOMAIN manager'.cached = (worker \ manager'.freed) \cup Encoded'
    <2>1. DOMAIN manager.cached = (worker \ manager.freed) \cup Encoded
      BY <1>9, RoundFacts
    <2>2. Encoded' = Encoded \cup cur.hashes
      <3>1. ASSUME NEW h \in Encoded' PROVE h \in Encoded \cup cur.hashes
        <4>1. PICK r \in DOMAIN sched' : h \in HashesOf(r, sched'[r].inputs)
          BY DEF Encoded
        <4> QED BY <1>2, <1>4, <1>5, <4>1 DEF Encoded
      <3>2. ASSUME NEW h \in Encoded PROVE h \in Encoded'
        <4>1. PICK r \in DOMAIN sched : h \in HashesOf(r, sched[r].inputs)
          BY DEF Encoded
        <4>2. r \in DOMAIN sched' /\ sched'[r] = sched[r]
          BY <1>4, <1>9
        <4> QED BY <4>1, <4>2 DEF Encoded
      <3>3. cur.hashes \subseteq Encoded'
        BY <1>2, <1>4, <1>5 DEF Encoded
      <3> QED BY <3>1, <3>2, <3>3
    <2> QED BY <1>3, <2>1, <2>2
  <1> QED BY <1>3, <1>4, <1>6, <1>8, <1>9

LEMMA ChargedFacts ==
  ASSUME Inv, pass.phase = "allocating"
  PROVE Charged(pass) \in Passes /\ Charged(pass).req_index = pass.req_index
  <1>1. /\ pass.token_budget \in Nat /\ cur.n \in Nat /\ cur.n <= pass.token_budget
        /\ cur.budget \in Int /\ pass.encoder_compute_budget \in Int
    BY CurFacts, InvParts DEF Passes
  <1>2. PICK t : t = pass.token_budget - cur.n /\ t \in Nat
    BY <1>1
  <1>3. PICK b : b = (IF cur.inputs # {} THEN cur.budget ELSE pass.encoder_compute_budget) /\ b \in Int
    BY <1>1
  <1>4. Charged(pass) = [pass EXCEPT !.token_budget = t, !.encoder_compute_budget = b]
    BY <1>2, <1>3, InvParts DEF Charged, Passes
  <1> QED BY <1>2, <1>3, <1>4, InvParts DEF Passes

LEMMA ScheduleRunningKeepsInv ==
  ASSUME Inv, ScheduleRunning
  PROVE Inv'
  <1>1. /\ pass.phase = "allocating" /\ ~cur.new /\ Scheduled
        /\ pass' = [Charged(pass) EXCEPT !.phase = "running", !.req_index = @ + 1]
        /\ worker' = worker /\ missed' = missed
        /\ status' = status /\ num_computed_tokens' = num_computed_tokens
        /\ waiting' = waiting /\ running' = running /\ batch_queue' = batch_queue
    BY DEF ScheduleRunning, queueVars, envVars
  <1>2. /\ ManagerOK(manager') /\ Owned(manager', Unfinished)
        /\ DOMAIN sched' = DOMAIN sched \cup {cur.r}
        /\ \A r \in DOMAIN sched' :
             /\ sched'[r].n \in 0 .. NumPrompt[r] - num_computed_tokens[r]
             /\ sched'[r].inputs \subseteq Inputs(r)
    BY <1>1, ScheduledFacts
  <1>3. /\ pass'.phase = "running" /\ pass'.req_index = pass.req_index + 1
        /\ pass' \in Passes
    <2>1. PICK k : k = pass.req_index + 1 /\ k \in Nat \ {0}
      BY InvParts
    <2>2. Charged(pass) \in Passes /\ Charged(pass).req_index = pass.req_index
      BY <1>1, ChargedFacts
    <2>3. pass' = [Charged(pass) EXCEPT !.phase = "running", !.req_index = k]
      BY <1>1, <2>1, <2>2
    <2> QED BY <2>1, <2>2, <2>3 DEF Passes, Phases
  <1>4. Unfinished' = Unfinished /\ InLoop
    BY <1>1 DEF Unfinished, InLoop
  <1>5. QueuesOK'
    BY <1>1, <1>3, <1>4, InvParts DEF QueuesOK
  <1>6. PICK at \in 1 .. Len(running) : at <= pass.req_index /\ running[at] = cur.r
    BY <1>1, CurFacts
  <1>7. pass.req_index \in Nat /\ Len(running) \in Nat /\ DOMAIN running = 1 .. Len(running)
    BY InvParts
  <1>8. \A r \in DOMAIN sched' : \E k \in 1 .. Len(running) : k < pass'.req_index /\ running[k] = r
    <2>1. \A r \in DOMAIN sched : \E k \in 1 .. Len(running) : k < pass.req_index /\ running[k] = r
      BY <1>4 DEF Inv, SchedOK
    <2>2. \A k \in 1 .. Len(running) : k <= pass.req_index \/ k < pass.req_index
            => k < pass'.req_index
      BY <1>3, <1>7
    <2> QED BY <1>2, <1>6, <2>1, <2>2
  <1>9. \A r \in DOMAIN sched' : r \in ToSet(running)
    BY <1>7, <1>8 DEF ToSet
  <1>10. SchedOK' /\ CurOK'
    BY <1>1, <1>2, <1>3, <1>8, <1>9 DEF SchedOK, CurOK
  <1>11. TypeOK'
    <2>1. manager' \in Managers
      BY <1>2 DEF ManagerOK
    <2>2. DOMAIN sched' \subseteq Requests
      BY <1>1, <1>2, InvParts, CurFacts
    <2> QED BY <1>1, <1>2, <1>3, <2>1, <2>2, InvParts DEF TypeOK
  <1>12. ASSUME Policy = "fcfs" PROVE Round'
    <2>1. /\ \A k \in 1 .. Len(running) : k >= pass.req_index => running[k] \notin DOMAIN sched
          /\ pass.req_index <= Len(running) /\ running[pass.req_index] = cur.r
          /\ missed = {}
      BY <1>1, <1>4, <1>12 DEF Inv, Round
    <2>2. pass.req_index \in 1 .. Len(running)
      BY <1>7, <2>1, InvParts
    <2>3. cur.r \notin DOMAIN sched
      BY <1>7, <2>1, <2>2
    <2>4. ASSUME NEW k \in 1 .. Len(running), k >= pass'.req_index PROVE running[k] \notin DOMAIN sched'
      <3>1. k >= pass.req_index /\ k # pass.req_index
        BY <1>3, <1>7, <2>4
      <3>2. running[k] # cur.r
        BY <2>1, <2>2, <3>1, InvParts DEF Distinct
      <3> QED BY <1>2, <2>1, <3>1, <3>2
    <2>5. /\ \A r \in DOMAIN sched' :
               \A i \in Window(r, num_computed_tokens[r], Upto(r)') \cup sched'[r].inputs :
                 Held(manager', r, i)
          /\ DOMAIN manager'.cached = (worker \ manager'.freed) \cup Encoded'
      BY <1>1, <1>12, <2>3, ScheduledFacts
    <2> QED BY <1>1, <1>3, <2>1, <2>4, <2>5 DEF Round
  <1> QED BY <1>2, <1>4, <1>5, <1>10, <1>11, <1>12 DEF Inv

LEMMA TailFacts ==
  ASSUME NEW T, NEW q \in Seq(T), q # <<>>, Distinct(q)
  PROVE /\ Tail(q) \in Seq(T) /\ Distinct(Tail(q)) /\ ToSet(Tail(q)) = ToSet(q) \ {Head(q)}
        /\ Head(q) \in ToSet(q)
  <1>1. /\ Tail(q) \in Seq(T) /\ Len(Tail(q)) = Len(q) - 1 /\ Len(q) \in Nat /\ Len(q) # 0
        /\ \A i \in 1 .. Len(Tail(q)) : Tail(q)[i] = q[i + 1]
        /\ Head(q) = q[1]
    OBVIOUS
  <1>2. DOMAIN Tail(q) = 1 .. Len(Tail(q)) /\ DOMAIN q = 1 .. Len(q)
    BY <1>1
  <1>3. PICK p : p = Tail(q)
    OBVIOUS
  <1>4. /\ Len(p) = Len(q) - 1 /\ DOMAIN p = 1 .. Len(p)
        /\ \A i \in 1 .. Len(p) : p[i] = q[i + 1] /\ i + 1 \in 1 .. Len(q) /\ i + 1 # 1 /\ i \in Nat
    BY <1>1, <1>2, <1>3
  <1>5. 1 \in 1 .. Len(q)
    BY <1>1
  <1>6. Distinct(p)
    <2> SUFFICES ASSUME NEW i \in 1 .. Len(p), NEW j \in 1 .. Len(p), p[i] = p[j] PROVE i = j
      BY DEF Distinct
    <2>1. i + 1 = j + 1
      BY <1>4 DEF Distinct
    <2> QED BY <1>4, <2>1
  <1>7. ASSUME NEW x \in ToSet(p) PROVE x \in ToSet(q) \ {q[1]}
    <2>1. PICK i \in 1 .. Len(p) : x = p[i]
      BY <1>4 DEF ToSet
    <2>2. x = q[i + 1] /\ i + 1 \in 1 .. Len(q) /\ i + 1 # 1
      BY <1>4, <2>1
    <2>3. x # q[1]
      BY <1>5, <2>2 DEF Distinct
    <2> QED BY <1>2, <2>2, <2>3 DEF ToSet
  <1>8. ASSUME NEW x \in ToSet(q), x # q[1] PROVE x \in ToSet(p)
    <2>1. PICK i \in 1 .. Len(q) : x = q[i]
      BY <1>2 DEF ToSet
    <2>2. i # 1
      BY <1>8, <2>1
    <2>3. i - 1 \in 1 .. Len(p) /\ (i - 1) + 1 = i
      BY <1>1, <1>4, <2>2
    <2>4. p[i - 1] = x
      BY <1>4, <2>1, <2>3
    <2> QED BY <1>4, <2>3, <2>4 DEF ToSet
  <1>9. q[1] \in ToSet(q)
    BY <1>2, <1>5 DEF ToSet
  <1> QED BY <1>1, <1>3, <1>6, <1>7, <1>8, <1>9

LEMMA ScheduleWaitingKeepsInv ==
  ASSUME Inv, ScheduleWaiting
  PROVE Inv'
  <1>1. /\ pass.phase = "allocating" /\ cur.new /\ Scheduled
        /\ pass' = [Charged(pass) EXCEPT !.phase = "waiting"]
        /\ status' = [status EXCEPT ![cur.r] = "RUNNING"]
        /\ waiting' = Tail(waiting) /\ running' = Append(running, cur.r)
        /\ worker' = worker /\ missed' = missed
        /\ num_computed_tokens' = num_computed_tokens /\ batch_queue' = batch_queue
    BY DEF ScheduleWaiting, envVars
  <1>2. /\ ManagerOK(manager') /\ Owned(manager', Unfinished)
        /\ DOMAIN sched' = DOMAIN sched \cup {cur.r}
        /\ \A r \in DOMAIN sched' :
             /\ sched'[r].n \in 0 .. NumPrompt[r] - num_computed_tokens[r]
             /\ sched'[r].inputs \subseteq Inputs(r)
    BY <1>1, ScheduledFacts
  <1>3. pass' \in Passes /\ pass'.phase = "waiting"
    <2>1. Charged(pass) \in Passes
      BY <1>1, ChargedFacts
    <2> QED BY <1>1, <2>1 DEF Passes, Phases
  <1>4. waiting # <<>> /\ cur.r = Head(waiting) /\ cur.r \in Requests /\ cur.r \in Unfinished
    BY <1>1, CurFacts
  <1>5. /\ waiting' \in Seq(Requests) /\ Distinct(waiting')
        /\ ToSet(waiting') = ToSet(waiting) \ {cur.r} /\ cur.r \in ToSet(waiting)
    BY <1>1, <1>4, InvParts, TailFacts
  <1>6. cur.r \notin ToSet(running)
    BY <1>5, InvParts
  <1>7. /\ running' \in Seq(Requests) /\ Distinct(running')
        /\ ToSet(running') = ToSet(running) \cup {cur.r}
    BY <1>1, <1>4, <1>6, InvParts, AppendFacts
  <1>8. status' \in [Requests -> {"NEW", "WAITING", "RUNNING", "PREEMPTED", "FINISHED"}]
    BY <1>1, InvParts
  <1>9. Unfinished' = Unfinished
    BY <1>1, <1>4, InvParts DEF Unfinished
  <1>10. ToSet(waiting) \cup ToSet(running) \subseteq Unfinished
    BY <1>1, InvParts
  <1>11. QueuesOK'
    BY <1>3, <1>4, <1>5, <1>6, <1>7, <1>9, <1>10, InvParts DEF QueuesOK
  <1>12. \A r \in DOMAIN sched : r \in ToSet(running)
    BY DEF Inv, SchedOK
  <1>13. SchedOK' /\ CurOK'
    BY <1>2, <1>3, <1>7, <1>12 DEF SchedOK, CurOK, InLoop
  <1>14. TypeOK'
    <2>1. manager' \in Managers
      BY <1>2 DEF ManagerOK
    <2>2. DOMAIN sched' \subseteq Requests
      BY <1>2, <1>4, InvParts
    <2> QED BY <1>1, <1>2, <1>3, <1>5, <1>7, <1>8, <2>1, <2>2, InvParts DEF TypeOK
  <1>15. ASSUME Policy = "fcfs" PROVE Round'
    <2>1. missed = {}
      BY <1>15 DEF Inv, Round
    <2>2. cur.r \notin DOMAIN sched
      BY <1>6, <1>12
    <2>3. /\ \A r \in DOMAIN sched' :
               \A i \in Window(r, num_computed_tokens[r], Upto(r)') \cup sched'[r].inputs :
                 Held(manager', r, i)
          /\ DOMAIN manager'.cached = (worker \ manager'.freed) \cup Encoded'
      BY <1>1, <1>15, <2>2, ScheduledFacts
    <2> QED BY <1>1, <1>3, <2>1, <2>3 DEF Round, InLoop
  <1> QED BY <1>2, <1>9, <1>11, <1>13, <1>14, <1>15 DEF Inv

(* A request gives up its references; it is not in the step.                *)
LEMMA FreeKeepsHeld ==
  ASSUME Inv, NEW v \in Requests, manager' = free(manager, v)
  PROVE /\ ManagerOK(manager') /\ Owned(manager', Unfinished)
        /\ DOMAIN manager'.cached = DOMAIN manager.cached /\ manager'.freed = manager.freed
        /\ manager'.num_free_slots = manager.num_free_slots
        /\ \A r, i : Held(manager, r, i) /\ r # v => Held(manager', r, i)
  <1>1. ManagerOK(manager) /\ Owned(manager, Unfinished)
    BY InvParts
  <1>2. /\ ManagerOK(manager') /\ Owned(manager', Unfinished)
        /\ DOMAIN manager'.cached = DOMAIN manager.cached /\ manager'.freed = manager.freed
        /\ manager'.num_free_slots = manager.num_free_slots
        /\ \A g \in DOMAIN manager.cached : \A q \in manager.cached[g] :
             q # v => q \in manager'.cached[g]
    BY <1>1, FreeOK
  <1> QED BY <1>2 DEF Held

LEMMA NoBlocksKeepsInv ==
  ASSUME Inv, NoBlocksForWaiting
  PROVE Inv'
  <1>1. /\ pass.phase = "allocating" /\ cur.new
        /\ manager' = free(manager, cur.r)
        /\ pass' = [pass EXCEPT !.phase = "closing"]
        /\ worker' = worker /\ missed' = missed
        /\ status' = status /\ num_computed_tokens' = num_computed_tokens
        /\ waiting' = waiting /\ running' = running /\ batch_queue' = batch_queue
        /\ sched' = sched
    BY DEF NoBlocksForWaiting, queueVars, envVars
  <1>2. cur.r \in Requests /\ waiting # <<>> /\ cur.r = Head(waiting)
    BY <1>1, CurFacts
  <1>3. /\ ManagerOK(manager') /\ Owned(manager', Unfinished)
        /\ DOMAIN manager'.cached = DOMAIN manager.cached /\ manager'.freed = manager.freed
        /\ \A r, i : Held(manager, r, i) /\ r # cur.r => Held(manager', r, i)
    BY <1>1, <1>2, FreeKeepsHeld
  <1>4. pass' \in Passes /\ pass'.phase = "closing"
    BY <1>1, InvParts DEF Passes, Phases
  <1>5. Unfinished' = Unfinished /\ Encoded' = Encoded /\ \A x \in DOMAIN sched : Upto(x)' = Upto(x)
    BY <1>1 DEF Unfinished, Encoded, Upto
  <1>6. QueuesOK'
    BY <1>1, <1>4, <1>5, InvParts DEF QueuesOK
  <1>7. SchedOK' /\ CurOK'
    BY <1>1, <1>4 DEF SchedOK, CurOK, InLoop, Inv
  <1>8. TypeOK'
    <2>1. manager' \in Managers
      BY <1>3 DEF ManagerOK
    <2>2. \A r \in DOMAIN sched : sched[r].n \in 0 .. NumPrompt[r] - num_computed_tokens[r]
      BY DEF Inv, TypeOK
    <2> QED BY <1>1, <1>4, <2>1, <2>2, InvParts DEF TypeOK
  <1>9. ASSUME Policy = "fcfs" PROVE Round'
    <2>1. ASSUME NEW r \in DOMAIN sched PROVE r # cur.r
      <3>1. r \in ToSet(running)
        BY DEF Inv, SchedOK
      <3>2. cur.r \in ToSet(waiting)
        BY <1>2, InvParts, TailFacts
      <3> QED BY <3>1, <3>2, InvParts
    <2>2. /\ \A r \in DOMAIN sched :
               \A i \in Window(r, num_computed_tokens[r], Upto(r)) \cup sched[r].inputs :
                 Held(manager, r, i)
          /\ DOMAIN manager.cached = (worker \ manager.freed) \cup Encoded /\ missed = {}
      BY <1>9 DEF Inv, Round
    <2> QED BY <1>1, <1>3, <1>4, <1>5, <2>1, <2>2 DEF Round, InLoop
  <1> QED BY <1>3, <1>5, <1>6, <1>7, <1>8, <1>9 DEF Inv

-----------------------------------------------------------------------------
(* Preemption                                                               *)

LEMMA FrontFacts ==
  ASSUME NEW T, NEW q \in Seq(T), q # <<>>, Distinct(q)
  PROVE /\ Front(q) \in Seq(T) /\ Distinct(Front(q)) /\ Len(Front(q)) = Len(q) - 1
        /\ ToSet(Front(q)) = ToSet(q) \ {Last(q)} /\ Last(q) \in ToSet(q)
        /\ Len(q) \in 1 .. Len(q) /\ q[Len(q)] = Last(q)
        /\ \A k \in 1 .. Len(q) : q[k] # Last(q) =>
             k \in 1 .. Len(Front(q)) /\ Front(q)[k] = q[k]
  <1>1. /\ Front(q) \in Seq(T) /\ Len(Front(q)) = Len(q) - 1 /\ Len(q) \in Nat /\ Len(q) # 0
        /\ \A i \in 1 .. Len(Front(q)) : Front(q)[i] = q[i]
        /\ Last(q) = q[Len(q)]
    <2>1. Len(q) \in Nat /\ Len(q) # 0
      OBVIOUS
    <2>2. PICK m \in Nat : m = Len(q) - 1
      BY <2>1
    <2>3. SubSeq(q, 1, m) \in Seq(T) /\ Len(SubSeq(q, 1, m)) = m
          /\ \A i \in 1 .. m : SubSeq(q, 1, m)[i] = q[i]
      BY <2>1, <2>2
    <2>4. Front(q) = SubSeq(q, 1, m) /\ Last(q) = q[Len(q)]
      BY <2>2 DEF Front, Last
    <2> QED BY <2>1, <2>2, <2>3, <2>4
  <1>2. PICK p : p = Front(q)
    OBVIOUS
  <1>3. PICK n \in Nat : n = Len(q) /\ n # 0
    BY <1>1
  <1>4. /\ p \in Seq(T) /\ Len(p) = n - 1 /\ DOMAIN p = 1 .. n - 1 /\ DOMAIN q = 1 .. n
        /\ \A i \in 1 .. n - 1 : p[i] = q[i] /\ i \in 1 .. n /\ i # n
    BY <1>1, <1>2, <1>3
  <1>5. n \in 1 .. n /\ \A i \in 1 .. n : i = n \/ i \in 1 .. n - 1
    BY <1>3
  <1>6. Distinct(p)
    BY <1>3, <1>4 DEF Distinct
  <1>7. \A i \in 1 .. n - 1 : q[i] # q[n]
    BY <1>3, <1>4, <1>5 DEF Distinct
  <1>8. ToSet(p) = ToSet(q) \ {q[n]}
    <2>1. ASSUME NEW x \in ToSet(p) PROVE x \in ToSet(q) \ {q[n]}
      BY <1>4, <1>7 DEF ToSet
    <2>2. ASSUME NEW x \in ToSet(q), x # q[n] PROVE x \in ToSet(p)
      <3>1. PICK i \in 1 .. n : x = q[i]
        BY <1>4 DEF ToSet
      <3>2. i \in 1 .. n - 1
        BY <1>5, <2>2, <3>1
      <3> QED BY <1>4, <3>1, <3>2 DEF ToSet
    <2> QED BY <2>1, <2>2
  <1>9. q[n] \in ToSet(q)
    BY <1>4, <1>5 DEF ToSet
  <1> QED BY <1>1, <1>2, <1>3, <1>4, <1>5, <1>6, <1>8, <1>9

LEMMA Greatest ==
  ASSUME NEW S, IsFiniteSet(S), \A x \in S : x \in Nat, S # {}
  PROVE \E v \in S : \A q \in S : q <= v
  <1>1. Cardinality(S) \in Nat /\ Cardinality(S) # 0
    BY FS_CardinalityType, FS_EmptySet
  <1>2. Cardinality(S) \in 1 .. Cardinality(S)
    BY <1>1
  <1>3. PICK v \in S : Rank(S, v) = Cardinality(S) - 1
    BY <1>2, RankOnto
  <1>4. ASSUME NEW q \in S, v < q PROVE FALSE
    <2>1. Rank(S, v) < Rank(S, q) /\ Rank(S, q) < Cardinality(S) /\ Rank(S, q) \in Nat
      BY <1>4, RankMonotone, RankType
    <2> QED BY <1>1, <1>3, <2>1
  <1> QED BY <1>4

LEMMA ToSetFinite ==
  ASSUME NEW T, NEW q \in Seq(T)
  PROVE IsFiniteSet(ToSet(q)) /\ ToSet(q) \subseteq T
  <1>1. Len(q) \in Nat /\ DOMAIN q = 1 .. Len(q) /\ \A i \in 1 .. Len(q) : q[i] \in T
    OBVIOUS
  <1>2. IsFiniteSet(1 .. Len(q))
    BY <1>1, FS_Interval
  <1> DEFINE f == [i \in 1 .. Len(q) |-> q[i]]
  <1>3. f \in Surjection(1 .. Len(q), ToSet(q))
    BY <1>1 DEF Surjection, ToSet
  <1>4. IsFiniteSet(ToSet(q))
    BY <1>2, <1>3, FS_Surjection
  <1> QED BY <1>1, <1>4 DEF ToSet

Others(v) == IF Policy = "fcfs" THEN Front(running) ELSE Only(running, Requests \ {v})

(* The victim is running; those that stay keep their order, and those       *)
(* behind the victim move up.                                               *)
LEMMA VictimFacts ==
  ASSUME Inv, pass.phase = "allocating", ~cur.new
  PROVE LET v == Victim
            p == Others(Victim) IN
        /\ v \in ToSet(running) /\ v \in Requests /\ v \in Unfinished /\ v \notin ToSet(waiting)
        /\ p \in Seq(Requests) /\ Distinct(p) /\ ToSet(p) = ToSet(running) \ {v}
        /\ \A k \in 1 .. Len(running) : running[k] # v =>
             \E l \in 1 .. Len(p) :
               /\ p[l] = running[k] /\ l <= k
               /\ \A j \in 1 .. Len(running) : j < k /\ running[j] = v => l < k
        /\ Policy = "fcfs" =>
             /\ v = Last(running) /\ p = Front(running) /\ running # <<>>
  <1> DEFINE v == Victim
             p == Others(v)
  <1>1. /\ running \in Seq(Requests) /\ Distinct(running)
        /\ ToSet(waiting) \cap ToSet(running) = {} /\ ToSet(running) \subseteq Unfinished
    BY InvParts
  <1>2. running # <<>>
    <2>1. \E k \in 1 .. Len(running) : running[k] = cur.r
      BY CurFacts
    <2> QED BY <1>1, <2>1
  <1>3. IsFiniteSet(ToSet(running)) /\ ToSet(running) \subseteq Requests
    BY <1>1, ToSetFinite
  <1>4. Last(running) \in ToSet(running)
    BY <1>1, <1>2, FrontFacts
  <1>5. v \in ToSet(running)
    <2>1. CASE Policy = "fcfs"
      BY <1>4, <2>1 DEF Victim
    <2>2. CASE Policy # "fcfs"
      <3>1. \A x \in ToSet(running) : x \in Nat
        BY <1>3, Constants
      <3>2. \E x \in ToSet(running) : \A q \in ToSet(running) : q <= x
        BY <1>3, <1>4, <3>1, Greatest
      <3> QED BY <2>2, <3>2 DEF Victim
    <2> QED BY <2>1, <2>2
  <1>6. Policy = "fcfs" => v = Last(running) /\ p = Front(running)
    BY DEF Victim, Others
  <1>7. Policy # "fcfs" => p = Only(running, Requests \ {v})
    BY DEF Others
  <1> HIDE DEF v, p
  <1>8. /\ p \in Seq(Requests) /\ Distinct(p) /\ ToSet(p) = ToSet(running) \ {v}
        /\ \A k \in 1 .. Len(running) : running[k] # v =>
             \E l \in 1 .. Len(p) :
               /\ p[l] = running[k] /\ l <= k
               /\ \A j \in 1 .. Len(running) : j < k /\ running[j] = v => l < k
    <2>1. CASE Policy = "fcfs"
      <3>1. /\ p \in Seq(Requests) /\ Distinct(p)
            /\ ToSet(p) = ToSet(running) \ {v} /\ Len(running) \in Nat
            /\ Len(running) \in 1 .. Len(running) /\ running[Len(running)] = v
            /\ \A k \in 1 .. Len(running) : running[k] # v => k \in 1 .. Len(p) /\ p[k] = running[k]
        BY <1>1, <1>2, <1>6, <2>1, FrontFacts
      <3>2. ASSUME NEW k \in 1 .. Len(running), running[k] # v
            PROVE \E l \in 1 .. Len(p) :
                    /\ p[l] = running[k] /\ l <= k
                    /\ \A j \in 1 .. Len(running) : j < k /\ running[j] = v => l < k
        <4>1. k \in 1 .. Len(p) /\ p[k] = running[k] /\ k <= k
          BY <3>1, <3>2
        <4>2. ASSUME NEW j \in 1 .. Len(running), j < k, running[j] = v PROVE FALSE
          <5>1. j = Len(running)
            BY <1>1, <3>1, <4>2 DEF Distinct
          <5> QED BY <3>1, <4>2, <5>1
        <4> QED BY <4>1, <4>2
      <3> QED BY <3>1, <3>2
    <2>2. CASE Policy # "fcfs"
      <3>1. /\ p \in Seq(Requests) /\ Distinct(p) /\ ToSet(p) = ToSet(running) \cap (Requests \ {v})
            /\ \A k \in 1 .. Len(running) : running[k] \in Requests \ {v} =>
                 \E l \in 1 .. Len(p) :
                   /\ p[l] = running[k] /\ l <= k
                   /\ \A j \in 1 .. Len(running) :
                        j < k /\ running[j] \notin Requests \ {v} => l < k
        BY <1>1, <1>7, <2>2, OnlyFacts
      <3>2. \A k \in 1 .. Len(running) : running[k] \in Requests
        BY <1>1
      <3>3. \A k \in 1 .. Len(running) : running[k] \in Requests \ {v} <=> running[k] # v
        BY <3>2
      <3> QED BY <1>3, <3>1, <3>3
    <2> QED BY <2>1, <2>2
  <1> QED BY <1>1, <1>2, <1>3, <1>5, <1>6, <1>8 DEF v, p

LEMMA UnscheduledFacts ==
  ASSUME Inv, pass.phase = "allocating", ~cur.new, NEW v \in Requests
  PROVE LET p == Unscheduled(pass, v) IN
        /\ p \in Passes /\ p.phase = "allocating" /\ p.token_budget >= pass.token_budget
        /\ p.req_index = IF v \in DOMAIN sched THEN pass.req_index - 1 ELSE pass.req_index
  <1>1. CASE v \notin DOMAIN sched
    BY <1>1, InvParts DEF Unscheduled
  <1>2. CASE v \in DOMAIN sched
    <2>1. /\ pass \in Passes /\ pass.req_index \in Nat \ {0} /\ pass.token_budget \in Nat
          /\ pass.encoder_compute_budget \in Int
      BY InvParts
    <2>2. PICK k \in 1 .. Len(running) : k < pass.req_index
      BY <1>2 DEF Inv, SchedOK, InLoop
    <2>3. PICK i : i = pass.req_index - 1 /\ i \in Nat \ {0}
      BY <2>1, <2>2, InvParts
    <2>4. NumPrompt[v] \in Nat /\ num_computed_tokens[v] \in Nat
      BY InvParts, Constants
    <2>5. sched[v].n \in 0 .. NumPrompt[v] - num_computed_tokens[v] /\ sched[v].inputs \subseteq Inputs(v)
      BY <1>2 DEF Inv, TypeOK, SchedOK
    <2>6. PICK t : t = pass.token_budget + sched[v].n /\ t \in Nat /\ t >= pass.token_budget
      BY <2>1, <2>4, <2>5
    <2>7. SumEmbeds(HashesOf(v, sched[v].inputs)) \in Nat
      BY <2>5, HashesFinite, SumType
    <2>8. PICK b : /\ b = pass.encoder_compute_budget + SumEmbeds(HashesOf(v, sched[v].inputs))
                   /\ b \in Int
      BY <2>1, <2>7
    <2>9. Unscheduled(pass, v)
            = [pass EXCEPT !.req_index = i, !.token_budget = t, !.encoder_compute_budget = b]
      BY <1>2, <2>3, <2>6, <2>8 DEF Unscheduled
    <2>10. Unscheduled(pass, v) \in Passes
      BY <2>1, <2>3, <2>6, <2>8, <2>9 DEF Passes
    <2> QED BY <1>2, <2>1, <2>3, <2>6, <2>9, <2>10 DEF Passes
  <1> QED BY <1>1, <1>2

LEMMA ConsFacts ==
  ASSUME NEW T, NEW v \in T, NEW q \in Seq(T), Distinct(q), v \notin ToSet(q)
  PROVE /\ <<v>> \o q \in Seq(T) /\ Distinct(<<v>> \o q)
        /\ ToSet(<<v>> \o q) = {v} \cup ToSet(q)
  <1>1. <<v>> \in Seq(T) /\ Distinct(<<v>>) /\ ToSet(<<v>>) = {v}
    BY DEF Distinct, ToSet
  <1>2. PICK p : p = <<v>>
    OBVIOUS
  <1>3. p \in Seq(T) /\ Distinct(p) /\ ToSet(p) = {v} /\ ToSet(p) \cap ToSet(q) = {}
    BY <1>1, <1>2
  <1>4. p \o q \in Seq(T) /\ Distinct(p \o q) /\ ToSet(p \o q) = ToSet(p) \cup ToSet(q)
    BY <1>3, ConcatFacts
  <1> QED BY <1>2, <1>3, <1>4

LEMMA PreemptKeepsInv ==
  ASSUME Inv, PreemptForBlocks
  PROVE Inv'
  <1> DEFINE v == Victim
             self == v = cur.r
  <1>1. /\ pass.phase = "allocating" /\ ~cur.new
        /\ manager' = free(manager, v)
        /\ num_computed_tokens' = [num_computed_tokens EXCEPT ![v] = 0]
        /\ status' = [status EXCEPT ![v] = "PREEMPTED"]
        /\ running' = Others(v)
        /\ waiting' = <<v>> \o waiting
        /\ sched' = Drop(sched, {v})
        /\ pass' = [Unscheduled(pass, v) EXCEPT !.preempted = TRUE,
                                                !.phase = IF self THEN "closing" ELSE @]
        /\ cur' = IF self THEN <<>> ELSE cur
        /\ worker' = worker /\ missed' = missed /\ batch_queue' = batch_queue
    BY DEF PreemptForBlocks, Others, envVars
  <1>2. /\ v \in ToSet(running) /\ v \in Requests /\ v \in Unfinished /\ v \notin ToSet(waiting)
        /\ running' \in Seq(Requests) /\ Distinct(running') /\ ToSet(running') = ToSet(running) \ {v}
        /\ \A k \in 1 .. Len(running) : running[k] # v =>
             \E l \in 1 .. Len(running') :
               /\ running'[l] = running[k] /\ l <= k
               /\ \A j \in 1 .. Len(running) : j < k /\ running[j] = v => l < k
        /\ Policy = "fcfs" => v = Last(running) /\ running' = Front(running) /\ running # <<>>
    BY <1>1, VictimFacts
  <1> HIDE DEF v
  <1>3. /\ ManagerOK(manager') /\ Owned(manager', Unfinished)
        /\ DOMAIN manager'.cached = DOMAIN manager.cached /\ manager'.freed = manager.freed
        /\ manager'.num_free_slots = manager.num_free_slots
        /\ \A r, i : Held(manager, r, i) /\ r # v => Held(manager', r, i)
    BY <1>1, <1>2, FreeKeepsHeld
  <1>4. /\ waiting' \in Seq(Requests) /\ Distinct(waiting') /\ ToSet(waiting') = {v} \cup ToSet(waiting)
    BY <1>1, <1>2, InvParts, ConsFacts
  <1>5. /\ DOMAIN sched' = DOMAIN sched \ {v} /\ \A r \in DOMAIN sched' : sched'[r] = sched[r]
    BY <1>1 DEF Drop
  <1>6. /\ num_computed_tokens' \in [Requests -> Nat] /\ num_computed_tokens'[v] = 0
        /\ \A r \in Requests \ {v} : num_computed_tokens'[r] = num_computed_tokens[r]
    BY <1>1, <1>2, InvParts
  <1>7. /\ status' \in [Requests -> {"NEW", "WAITING", "RUNNING", "PREEMPTED", "FINISHED"}]
        /\ Unfinished' = Unfinished
    BY <1>1, <1>2, InvParts DEF Unfinished
  <1>8. /\ pass' \in Passes /\ pass'.phase = (IF self THEN "closing" ELSE "allocating")
        /\ pass'.token_budget \in Nat /\ pass'.token_budget >= pass.token_budget
        /\ pass'.req_index = IF v \in DOMAIN sched THEN pass.req_index - 1 ELSE pass.req_index
    <2>1. PICK p : p = Unscheduled(pass, v)
      OBVIOUS
    <2>2. /\ p \in Passes /\ p.phase = "allocating" /\ p.token_budget >= pass.token_budget
          /\ p.req_index = IF v \in DOMAIN sched THEN pass.req_index - 1 ELSE pass.req_index
      BY <1>1, <1>2, <2>1, UnscheduledFacts
    <2>3. PICK ph : ph = (IF self THEN "closing" ELSE "allocating") /\ ph \in Phases
      BY DEF Phases
    <2>4. pass' = [p EXCEPT !.preempted = TRUE, !.phase = ph]
      BY <1>1, <2>1, <2>2, <2>3
    <2>5. pass' \in Passes
      BY <2>2, <2>3, <2>4 DEF Passes
    <2>6. pass'.phase = ph /\ pass'.token_budget = p.token_budget /\ pass'.req_index = p.req_index
      BY <2>2, <2>4 DEF Passes
    <2> QED BY <2>2, <2>3, <2>5, <2>6 DEF Passes
  <1> HIDE DEF self
  <1>9. QueuesOK'
    <2>1. ToSet(waiting) \cup ToSet(running) \subseteq Unfinished
      BY <1>1, InvParts
    <2>2. pass'.phase \notin {"updating", "applying"}
      BY <1>8
    <2> QED BY <1>2, <1>4, <1>7, <2>1, <2>2, InvParts DEF QueuesOK
  (* Where those that stay are now. *)
  <1>10. pass.req_index \in Nat /\ Len(running) \in Nat /\ InLoop
    BY <1>1, InvParts DEF InLoop
  <1>11. \A r \in DOMAIN sched : \E k \in 1 .. Len(running) : k < pass.req_index /\ running[k] = r
    BY <1>10 DEF Inv, SchedOK
  <1>12. ASSUME NEW k \in 1 .. Len(running), running[k] # v, k <= pass.req_index
         PROVE \E l \in 1 .. Len(running') :
                 /\ running'[l] = running[k] /\ l <= pass'.req_index
                 /\ k < pass.req_index => l < pass'.req_index
    <2>1. PICK l \in 1 .. Len(running') :
            /\ running'[l] = running[k] /\ l <= k
            /\ \A j \in 1 .. Len(running) : j < k /\ running[j] = v => l < k
      BY <1>2, <1>12
    <2>2. k \in Nat /\ l \in Nat
      BY <1>2, <1>10
    <2>3. l <= pass'.req_index /\ (k < pass.req_index => l < pass'.req_index)
      <3>1. CASE v \notin DOMAIN sched
        BY <1>8, <1>10, <1>12, <2>1, <2>2, <3>1
      <3>2. CASE v \in DOMAIN sched
        <4>1. PICK j \in 1 .. Len(running) : j < pass.req_index /\ running[j] = v
          BY <1>11, <3>2
        <4>2. j \in Nat /\ j # k
          BY <1>10, <1>12, <4>1
        <4>3. pass'.req_index = pass.req_index - 1
          BY <1>8, <3>2
        <4>4. CASE j < k
          <5>1. l < k
            BY <2>1, <4>1, <4>4
          <5> QED BY <1>10, <1>12, <2>2, <4>3, <5>1
        <4>5. CASE k < j
          BY <1>10, <2>1, <2>2, <4>1, <4>2, <4>3, <4>5
        <4> QED BY <2>2, <4>2, <4>4, <4>5
      <3> QED BY <3>1, <3>2
    <2> QED BY <2>1, <2>3
  <1>13. SchedOK'
    <2>1. ASSUME NEW r \in DOMAIN sched'
          PROVE /\ sched'[r].inputs \subseteq Inputs(r) /\ r \in ToSet(running')
                /\ \E k \in 1 .. Len(running') : k < pass'.req_index /\ running'[k] = r
      <3>1. r \in DOMAIN sched /\ r # v /\ sched'[r] = sched[r]
        BY <1>5
      <3>2. sched[r].inputs \subseteq Inputs(r) /\ r \in ToSet(running)
        BY <3>1 DEF Inv, SchedOK
      <3>3. PICK k \in 1 .. Len(running) : k < pass.req_index /\ running[k] = r
        BY <1>11, <3>1
      <3>4. k <= pass.req_index
        BY <1>10, <3>3
      <3>5. \E l \in 1 .. Len(running') : l < pass'.req_index /\ running'[l] = r
        BY <1>12, <3>1, <3>3, <3>4
      <3> QED BY <1>2, <3>1, <3>2, <3>5
    <2>2. pass'.phase \notin {"idle", "updating", "applying"}
      BY <1>8
    <2> QED BY <2>1, <2>2 DEF SchedOK
  <1>14. /\ manager' \in Managers
         /\ \A r \in Requests : num_computed_tokens'[r] <= NumPrompt[r]
         /\ DOMAIN sched' \subseteq Requests
         /\ \A r \in DOMAIN sched' : sched'[r].n \in 0 .. NumPrompt[r] - num_computed_tokens'[r]
    <2>1. manager' \in Managers
      BY <1>3 DEF ManagerOK
    <2>2. ASSUME NEW r \in Requests PROVE num_computed_tokens'[r] <= NumPrompt[r]
      <3>1. CASE r = v
        <4>1. NumPrompt[v] \in Nat
          BY <1>2, Constants
        <4> QED BY <1>6, <3>1, <4>1
      <3>2. CASE r # v
        BY <1>6, <3>2, InvParts
      <3> QED BY <3>1, <3>2
    <2>3. DOMAIN sched' \subseteq Requests
      BY <1>5, InvParts
    <2>4. \A r \in DOMAIN sched' : sched'[r].n \in 0 .. NumPrompt[r] - num_computed_tokens'[r]
      BY <1>5, <1>6, InvParts DEF Inv, TypeOK
    <2> QED BY <2>1, <2>2, <2>3, <2>4
  <1>15. CASE self
    <2>1. pass'.phase = "closing"
      BY <1>8, <1>15
    <2>2. CurOK'
      BY <2>1 DEF CurOK
    <2>3. TypeOK'
      BY <1>1, <1>2, <1>4, <1>6, <1>7, <1>8, <1>14, <2>1, InvParts DEF TypeOK
    <2>4. ASSUME Policy = "fcfs" PROVE Round'
      <3>1. /\ \A k \in 1 .. Len(running) : k >= pass.req_index => running[k] \notin DOMAIN sched
            /\ pass.req_index <= Len(running) /\ running[pass.req_index] = cur.r
            /\ \A r \in DOMAIN sched :
                 \A i \in Window(r, num_computed_tokens[r], Upto(r)) \cup sched[r].inputs :
                   Held(manager, r, i)
            /\ DOMAIN manager.cached = (worker \ manager.freed) \cup Encoded /\ missed = {}
        BY <1>1, <1>10, <2>4 DEF Inv, Round
      <3>2. v \notin DOMAIN sched
        <4>1. pass.req_index \in 1 .. Len(running)
          BY <1>10, <3>1, InvParts
        <4> QED BY <1>10, <1>15, <3>1, <4>1 DEF self
      <3>3. DOMAIN sched' = DOMAIN sched /\ \A r \in DOMAIN sched : sched'[r] = sched[r] /\ r # v
        BY <1>5, <3>2
      <3>4. Encoded' = Encoded
        BY <3>3 DEF Encoded
      <3>5. \A r \in DOMAIN sched : Upto(r)' = Upto(r) /\ num_computed_tokens'[r] = num_computed_tokens[r]
        BY <1>6, <3>3, InvParts DEF Upto
      <3> QED BY <1>1, <1>3, <2>1, <3>1, <3>3, <3>4, <3>5 DEF Round, InLoop
    <2> QED BY <1>3, <1>7, <1>9, <1>13, <2>2, <2>3, <2>4 DEF Inv
  <1>16. CASE ~self
    <2>1. pass'.phase = "allocating" /\ cur' = cur /\ cur.r # v
      BY <1>1, <1>8, <1>16 DEF self
    <2>2. cur.r \in Requests /\ Computed' = Computed
      BY <1>1, <1>6, <2>1, CurFacts DEF Computed
    <2>3. \E k \in 1 .. Len(running') : k <= pass'.req_index /\ running'[k] = cur.r
      <3>1. PICK k \in 1 .. Len(running) : k <= pass.req_index /\ running[k] = cur.r
        BY <1>1, CurFacts
      <3> QED BY <1>12, <2>1, <3>1
    <2>4. CurOK'
      BY <1>1, <1>3, <2>1, <2>2, <2>3, CurFacts DEF CurOK, CurType
    <2>5. TypeOK'
      <3>1. cur.n \in 0 .. Lower(NumPrompt[cur.r] - num_computed_tokens'[cur.r], pass'.token_budget)
        <4>1. /\ cur.n \in Nat /\ cur.n <= NumPrompt[cur.r] - num_computed_tokens[cur.r]
              /\ cur.n <= pass.token_budget /\ pass.token_budget \in Nat
              /\ num_computed_tokens'[cur.r] = num_computed_tokens[cur.r]
              /\ num_computed_tokens[cur.r] \in Nat /\ NumPrompt[cur.r] \in Nat
          BY <1>1, <1>6, <2>1, <2>2, CurFacts, InvParts, Constants
        <4> QED BY <1>8, <4>1 DEF Lower
      <3> QED BY <1>1, <1>2, <1>4, <1>6, <1>7, <1>8, <1>14, <2>1, <3>1, InvParts DEF TypeOK
    <2>6. ASSUME Policy = "fcfs" PROVE Round'
      <3>1. /\ \A k \in 1 .. Len(running) : k >= pass.req_index => running[k] \notin DOMAIN sched
            /\ pass.req_index <= Len(running) /\ running[pass.req_index] = cur.r
            /\ \A r \in DOMAIN sched :
                 \A i \in Window(r, num_computed_tokens[r], Upto(r)) \cup sched[r].inputs :
                   Held(manager, r, i)
            /\ cur.n > 0 /\ cur.at > cur.hi
            /\ DOMAIN manager.cached = (worker \ manager.freed) \cup Encoded /\ missed = {}
        BY <1>1, <1>10, <2>6 DEF Inv, Round
      <3>2. /\ Len(running') = Len(running) - 1 /\ Len(running) \in 1 .. Len(running)
            /\ running[Len(running)] = v
            /\ \A k \in 1 .. Len(running) : running[k] # v =>
                 k \in 1 .. Len(running') /\ running'[k] = running[k]
        BY <1>2, <2>6, InvParts, FrontFacts
      <3>3. v \notin DOMAIN sched
        BY <1>10, <3>1, <3>2
      <3>4. DOMAIN sched' = DOMAIN sched /\ \A r \in DOMAIN sched : sched'[r] = sched[r] /\ r # v
        BY <1>5, <3>3
      <3>5. Encoded' = Encoded
        BY <3>4 DEF Encoded
      <3>6. \A r \in DOMAIN sched : Upto(r)' = Upto(r) /\ num_computed_tokens'[r] = num_computed_tokens[r]
        BY <1>6, <3>4, InvParts DEF Upto
      <3>7. pass'.req_index = pass.req_index
        BY <1>8, <3>3
      <3>8. pass.req_index \in 1 .. Len(running)
        BY <1>10, <3>1, InvParts
      <3>9. pass.req_index <= Len(running') /\ running'[pass.req_index] = cur.r
        BY <1>10, <2>1, <3>1, <3>2, <3>8
      <3>10. ASSUME NEW k \in 1 .. Len(running'), k >= pass.req_index
             PROVE running'[k] \notin DOMAIN sched'
        <4>1. k \in 1 .. Len(running) /\ k # Len(running)
          BY <1>10, <3>2
        <4>2. running[k] # v
          BY <3>2, <4>1, InvParts DEF Distinct
        <4> QED BY <3>1, <3>2, <3>4, <3>10, <4>1, <4>2
      <3>11. \A i \in Window(cur.r, Computed, Computed + cur.n) :
               \/ i \in cur.at .. cur.hi \/ mm_features[cur.r][i].hash \in cur.hashes
               \/ Held(manager', cur.r, i)
        BY <1>1, <1>3, <2>1, <2>6, <3>1, RoundFacts
      <3> QED BY <1>1, <1>3, <2>1, <2>2, <3>1, <3>4, <3>5, <3>6, <3>7, <3>9, <3>10, <3>11
              DEF Round, InLoop
    <2> QED BY <1>3, <1>7, <1>9, <1>13, <2>4, <2>5, <2>6 DEF Inv
  <1> QED BY <1>15, <1>16

-----------------------------------------------------------------------------
(* The step is issued                                                       *)

LEMMA EndScheduleKeepsInv ==
  ASSUME Inv, EndSchedule
  PROVE Inv'
  <1> DEFINE order == Only(running, DOMAIN sched)
             read == UNION {gather_mm_embeddings(r, num_computed_tokens[r], Upto(r)) :
                              r \in DOMAIN sched}
             out == [k \in 1 .. Len(order) |->
                       [r |-> order[k], samples |-> Upto(order[k]) = NumPrompt[order[k]]]]
             R == [r : Requests, samples : BOOLEAN]
  <1>1. /\ pass.phase = "closing"
        /\ worker' = (worker \ manager.freed) \cup Encoded
        /\ missed' = missed \cup (read \ worker')
        /\ manager' = [manager EXCEPT !.freed = {}]
        /\ num_computed_tokens' = [r \in Requests |-> IF r \in DOMAIN sched THEN Upto(r)
                                                      ELSE num_computed_tokens[r]]
        /\ batch_queue' = Append(batch_queue, out)
        /\ pass' = [IdlePass EXCEPT !.phase = IF Len(batch_queue') = 2 THEN "updating" ELSE "idle"]
        /\ sched' = <<>>
        /\ status' = status /\ waiting' = waiting /\ running' = running
    BY DEF EndSchedule, after_step, envVars
  <1>2. /\ DOMAIN sched \subseteq Requests
        /\ \A r \in DOMAIN sched : sched[r].n \in 0 .. NumPrompt[r] - num_computed_tokens[r]
        /\ \A r \in DOMAIN sched : sched[r].inputs \subseteq Inputs(r)
    BY DEF Inv, TypeOK, SchedOK
  <1>3. \A r \in DOMAIN sched : /\ r \in Requests /\ num_computed_tokens[r] \in Nat
                                /\ Upto(r) \in Nat /\ Upto(r) <= NumPrompt[r]
    <2> SUFFICES ASSUME NEW r \in DOMAIN sched
                 PROVE /\ r \in Requests /\ num_computed_tokens[r] \in Nat
                       /\ Upto(r) \in Nat /\ Upto(r) <= NumPrompt[r]
      OBVIOUS
    <2>1. r \in Requests /\ num_computed_tokens[r] \in Nat /\ NumPrompt[r] \in Nat
      BY <1>2, InvParts, Constants
    <2>2. sched[r].n \in 0 .. NumPrompt[r] - num_computed_tokens[r]
      BY <1>2
    <2> QED BY <2>1, <2>2 DEF Upto
  <1>4. Encoded \subseteq Hashes
    <2> SUFFICES ASSUME NEW h \in Encoded PROVE h \in Hashes
      OBVIOUS
    <2>1. PICK r \in DOMAIN sched : h \in HashesOf(r, sched[r].inputs)
      BY DEF Encoded
    <2> QED BY <1>2, <2>1, HashesFinite
  (* What a step reads are items in its windows. *)
  <1>5. \A h \in read : \E r \in DOMAIN sched : \E i \in Window(r, num_computed_tokens[r], Upto(r)) :
          h = mm_features[r][i].hash
    BY DEF gather_mm_embeddings, HashesOf, Window
  <1> HIDE DEF read
  <1>6. read \subseteq Hashes
    <2> SUFFICES ASSUME NEW h \in read PROVE h \in Hashes
      OBVIOUS
    <2>1. PICK r \in DOMAIN sched : \E i \in Window(r, num_computed_tokens[r], Upto(r)) :
            h = mm_features[r][i].hash
      BY <1>5
    <2>2. PICK i \in Window(r, num_computed_tokens[r], Upto(r)) : h = mm_features[r][i].hash
      BY <2>1
    <2>3. i \in Inputs(r)
      BY <1>3, <2>2, WindowIs
    <2> QED BY <1>3, <2>2, <2>3, InputItem
  <1>7. batch_queue' \in Seq(Seq(R)) /\ batch_queue' # <<>>
    <2>1. order \in Seq(Requests)
      BY InvParts, OnlyFacts
    <2>2. PICK n \in Nat : n = Len(order)
      BY <2>1
    <2> HIDE DEF order
    <2>3. out \in [1 .. n -> R]
      BY <2>1, <2>2
    <2> HIDE DEF out
    <2>4. batch_queue \in Seq(Seq(R))
      BY InvParts
    <2> HIDE DEF R
    <2>5. out \in Seq(R)
      BY <2>2, <2>3
    <2> QED BY <1>1, <2>4, <2>5
  <1>8. pass' \in Passes /\ pass'.phase \in {"idle", "updating"}
    <2>1. PICK ph \in {"idle", "updating"} :
            ph = IF Len(batch_queue') = 2 THEN "updating" ELSE "idle"
      OBVIOUS
    <2>2. pass' = [phase |-> ph, req_index |-> 1, token_budget |-> 0,
                   encoder_compute_budget |-> 0, preempted |-> FALSE]
      BY <1>1, <2>1 DEF IdlePass
    <2> QED BY <2>1, <2>2 DEF Passes, Phases
  <1>9. /\ ManagerOK(manager') /\ Owned(manager', Unfinished)
        /\ manager'.cached = manager.cached /\ manager'.freed = {}
    <2>1. manager \in Managers /\ ManagerOK(manager) /\ Owned(manager, Unfinished)
      BY InvParts
    <2>2. /\ manager'.cached = manager.cached /\ manager'.freed = {}
          /\ manager'.request_cached_ids = manager.request_cached_ids
          /\ manager'.freeable = manager.freeable
          /\ manager'.num_free_slots = manager.num_free_slots
          /\ manager'.num_freeable_slots = manager.num_freeable_slots
      BY <1>1, <2>1 DEF Managers
    <2>3. manager' \in Managers
      BY <1>1, <2>1 DEF Managers
    <2>4. Loose(manager') = Loose(manager)
      BY <2>2 DEF Loose
    <2>5. ManagerOK(manager')
      BY <2>1, <2>2, <2>3, <2>4 DEF ManagerOK
    <2>6. Owned(manager', Unfinished)
      BY <2>1, <2>2 DEF Owned
    <2> QED BY <2>2, <2>5, <2>6
  <1>10. Unfinished' = Unfinished
    BY <1>1 DEF Unfinished
  <1>11. QueuesOK'
    BY <1>1, <1>7, <1>8, <1>10, InvParts DEF QueuesOK
  <1>12. ASSUME Policy = "fcfs"
         PROVE missed' = {} /\ manager'.freed = {} /\ DOMAIN manager'.cached = worker'
    <2>1. DOMAIN manager.cached = (worker \ manager.freed) \cup Encoded /\ missed = {}
      BY <1>12 DEF Inv, Round
    <2>2. ASSUME NEW h \in read PROVE h \in worker'
      <3>1. PICK r \in DOMAIN sched : \E i \in Window(r, num_computed_tokens[r], Upto(r)) :
              h = mm_features[r][i].hash
        BY <1>5
      <3>2. PICK i \in Window(r, num_computed_tokens[r], Upto(r)) : h = mm_features[r][i].hash
        BY <3>1
      <3>3. Held(manager, r, i)
        BY <1>12 DEF Inv, Round
      <3> QED BY <1>1, <2>1, <3>2, <3>3 DEF Held
    <2> QED BY <1>1, <1>9, <2>1, <2>2
  <1>13. DOMAIN sched' = {} /\ SchedOK' /\ CurOK' /\ (Policy = "fcfs" => Round')
    <2>1. DOMAIN sched' = {} /\ pass'.phase \in Quiet
      BY <1>1, <1>8 DEF Quiet
    <2> QED BY <1>12, <2>1, QuietKept
  <1>14. TypeOK'
    <2>1. manager' \in Managers
      BY <1>9 DEF ManagerOK
    <2>2. worker' \subseteq Hashes /\ missed' \subseteq Hashes
      BY <1>1, <1>4, <1>6, InvParts
    <2>3. /\ num_computed_tokens' \in [Requests -> Nat]
          /\ \A r \in Requests : num_computed_tokens'[r] <= NumPrompt[r]
      BY <1>1, <1>3, InvParts
    <2> QED BY <1>1, <1>7, <1>8, <1>13, <2>1, <2>2, <2>3, InvParts DEF TypeOK
  <1> QED BY <1>9, <1>10, <1>11, <1>13, <1>14 DEF Inv

-----------------------------------------------------------------------------
(* The theorems                                                             *)

LEMMA StepKeepsInv == Inv /\ [Next]_vars => Inv'
  <1> SUFFICES ASSUME Inv, [Next]_vars PROVE Inv'
    OBVIOUS
  <1>1. CASE UNCHANGED vars
    <2>1. /\ manager' = manager /\ worker' = worker /\ missed' = missed
          /\ status' = status /\ num_computed_tokens' = num_computed_tokens
          /\ waiting' = waiting /\ running' = running /\ batch_queue' = batch_queue
          /\ pass' = pass /\ cur' = cur /\ sched' = sched
      BY <1>1 DEF vars, cacheVars, queueVars, passVars
    <2>2. Unfinished' = Unfinished /\ Encoded' = Encoded /\ Computed' = Computed
          /\ \A x \in DOMAIN sched : Upto(x)' = Upto(x)
      BY <2>1 DEF Unfinished, Encoded, Computed, Upto
    <2>3. InLoop' <=> InLoop
      BY <2>1 DEF InLoop
    <2>4. TypeOK'
      BY <2>1 DEF Inv, TypeOK
    <2>5. ManagerOK(manager') /\ Owned(manager', Unfinished')
      BY <2>1, <2>2, InvParts
    <2>6. QueuesOK' /\ SchedOK' /\ CurOK'
      BY <2>1, <2>2, <2>3 DEF Inv, QueuesOK, SchedOK, CurOK
    <2>7. Policy = "fcfs" => Round'
      BY <2>1, <2>2, <2>3 DEF Inv, Round
    <2> QED BY <2>4, <2>5, <2>6, <2>7 DEF Inv
  <1>2. CASE BeginSchedule
    BY <1>2, BeginScheduleKeepsInv
  <1>3. CASE TryRunning \/ TryWaiting
    BY <1>3, TryKeepsInv
  <1>4. CASE EndRunning \/ EndWaiting
    BY <1>4, EndLoopKeepsInv DEF EndRunning, EndWaiting, Quiet
  <1>5. CASE Scan
    BY <1>5, AlreadyTakenKeepsInv, CacheHitKeepsInv, CutChunkKeepsInv, LookAheadKeepsInv,
       TakeInputKeepsInv, EndScanKeepsInv DEF Scan
  <1>6. CASE ScheduleRunning \/ ScheduleWaiting \/ NoBlocksForWaiting
    BY <1>6, ScheduleRunningKeepsInv, ScheduleWaitingKeepsInv, NoBlocksKeepsInv
  <1>7. CASE PreemptForBlocks
    BY <1>7, PreemptKeepsInv
  <1>8. CASE EndSchedule
    BY <1>8, EndScheduleKeepsInv
  <1>9. CASE UpdateRequest \/ EndUpdate
    BY <1>9, UpdateRequestKeepsInv, EndUpdateKeepsInv
  <1>10. CASE reset_encoder_cache
    BY <1>10, ResetKeepsInv
  <1>11. CASE \E r \in Requests : add_request(r) \/ finish_requests(r)
    BY <1>11, AddKeepsInv, FinishKeepsInv
  <1> QED BY <1>1, <1>2, <1>3, <1>4, <1>5, <1>6, <1>7, <1>8, <1>9, <1>10, <1>11 DEF Next, Engine

LEMMA Invariance == Spec => []Inv
  BY InvInit, StepKeepsInv, PTL DEF Spec

(* The state stays well typed: no slot counter leaves 0 .. cache_size,      *)
(* which is what allocate asserts, and no chunk exceeds its prompt or what  *)
(* is left of the step's token budget.                                      *)
THEOREM TypeCorrect == Spec => []TypeOK
  <1>1. Inv => TypeOK
    BY DEF Inv
  <1> QED BY <1>1, Invariance, PTL

LEMMA DistinctLength ==
  ASSUME NEW T, NEW q \in Seq(T), Distinct(q)
  PROVE Len(q) = Cardinality(ToSet(q))
  <1>1. Len(q) \in Nat /\ DOMAIN q = 1 .. Len(q)
    OBVIOUS
  <1>2. IsFiniteSet(1 .. Len(q)) /\ Cardinality(1 .. Len(q)) = Len(q)
    BY <1>1, FS_Interval
  <1> DEFINE f == [i \in 1 .. Len(q) |-> q[i]]
  <1>3. f \in Surjection(1 .. Len(q), ToSet(q))
    BY <1>1 DEF Surjection, ToSet
  <1>4. f \in Injection(1 .. Len(q), ToSet(q))
    BY <1>3 DEF Injection, IsInjective, Surjection, Distinct
  <1>5. Cardinality(ToSet(q)) = Cardinality(1 .. Len(q))
    BY <1>2, <1>3, <1>4, FS_Surjection, FS_Injection
  <1> QED BY <1>2, <1>5

(* EncoderCacheManager's books are exact after every operation: the free    *)
(* slots are what the entries leave over, and the freeable queue holds the  *)
(* entries without a reference, each once, and their slots.                 *)
THEOREM SlotsAreExact == Spec => []SlotsExact
  <1>1. ASSUME Inv PROVE SlotsExact
    <2>1. /\ manager.num_free_slots = CacheSize - SumEmbeds(DOMAIN manager.cached)
          /\ manager.num_freeable_slots = manager.num_free_slots + SumEmbeds(Loose(manager))
          /\ ToSet(manager.freeable) = Loose(manager) /\ Distinct(manager.freeable)
          /\ manager.freeable \in Seq(Hashes)
      BY <1>1, InvParts, ManagerIs DEF ManagerOK
    <2>2. Len(manager.freeable) = Cardinality(Loose(manager))
      BY <2>1, DistinctLength
    <2> QED BY <2>1, <2>2 DEF SlotsExact, Loose
  <1> QED BY <1>1, Invariance, PTL

(* A reference to an entry belongs to a live request that has the input in  *)
(* its list, so that free drops it: no entry is pinned for ever.            *)
THEOREM ReferencesOwned == Spec => []NoOrphanReference
  <1>1. Inv => NoOrphanReference
    BY DEF Inv, Owned, NoOrphanReference
  <1> QED BY <1>1, Invariance, PTL

(* Under FCFS: between passes the workers' dictionary holds exactly what    *)
(* the manager counts, so that it stays within cache_size.                  *)
THEOREM WorkersFollow ==
  ASSUME Policy = "fcfs"
  PROVE Spec => []WorkerAgrees
  <1>1. ASSUME Inv PROVE WorkerAgrees
    BY <1>1, QuietFacts DEF WorkerAgrees, Quiet
  <1> QED BY <1>1, Invariance, PTL

(* Under FCFS: no step reads an encoder output that its workers lack; the   *)
(* model runner's "Encoder cache miss" is not raised.                       *)
THEOREM NoMiss ==
  ASSUME Policy = "fcfs"
  PROVE Spec => []NoEncoderMiss
  <1>1. Inv => NoEncoderMiss
    BY DEF Inv, Round, NoEncoderMiss
  <1> QED BY <1>1, Invariance, PTL

=============================================================================
