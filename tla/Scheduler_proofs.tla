------------------------- MODULE Scheduler_proofs -------------------------
(***************************************************************************)
(* The scheduler's queues, budget and counters, for any number of requests, *)
(* any policy and any depth of the batch queue.                             *)
(*                                                                         *)
(* The places of the requests and the order of admission follow from Base   *)
(* alone.  What is counted and delivered follows from Inv, which says what  *)
(* the steps in flight hold for each request: the stale ones first, of      *)
(* those perhaps some that will be dropped, and behind them the ones whose  *)
(* outputs the request waits for, each of which continues where the one     *)
(* before it ends.                                                          *)
(***************************************************************************)
EXTENDS Scheduler, FiniteSetTheorems, TLAPS

-----------------------------------------------------------------------------
(* The inductive invariant                                                  *)

RequestType ==
  [status : Statuses, num_tokens : Int, num_computed_tokens : Int,
   num_output_placeholders : Int, num_in_flight_tokens : Int,
   num_stale_output_tokens : Int, drop_stale_output : BOOLEAN,
   spec_token_ids : 0 .. NumSpecTokens, is_prefill_chunk : BOOLEAN,
   grammar : {"pending", "ready", "error", "reported"},
   next_decode_eligible_step : Nat, num_blocks : Int, worker_len : Int, delivered : Seq(Int)]
GrantType == [n : Int, spec : Int, resumed : BOOLEAN]
Grants == UNION {[D -> GrantType] : D \in SUBSET Requests}
ShareType == [n : Int, spec : Int, first : Int, sampled : Int]
Steps == UNION {[D -> ShareType] : D \in SUBSET Requests}
PassType ==
  [phase : Phases, req_index : Int, token_budget : Int, cur : {<<>>} \cup (Requests \X Int),
   sched : Grants, preempted : BOOLEAN, prefill : BOOLEAN, skipped : Seq(Requests)]

InPass == pass.phase \in {"running", "allocating", "waiting", "closing"}

Types ==
  /\ req \in [Requests -> RequestType]
  /\ waiting \in Seq(Requests) /\ skipped_waiting \in Seq(Requests) /\ running \in Seq(Requests)
  /\ batch_queue \in Seq(Steps)
  /\ pass \in PassType
  /\ pass.phase = "updating" => Len(batch_queue) = PpSize + 1
  /\ pass.phase # "updating" => Len(batch_queue) <= PpSize

Distinct(q) == \A i, j \in 1 .. Len(q) : q[i] = q[j] => i = j
Apart(p, q) == ToSet(p) \cap ToSet(q) = {}

(* Each request that is not finished is in one queue, once.                 *)
QueuesOK ==
  /\ Distinct(running) /\ Distinct(waiting) /\ Distinct(skipped_waiting) /\ Distinct(pass.skipped)
  /\ Apart(waiting, skipped_waiting) /\ Apart(waiting, pass.skipped)
  /\ Apart(skipped_waiting, pass.skipped)
  /\ pass.phase # "waiting" => pass.skipped = <<>>
  /\ \A r \in Requests :
       /\ r \in ToSet(running) <=> req[r].status = "RUNNING"
       /\ r \in ToSet(waiting) \cup ToSet(skipped_waiting) \cup ToSet(pass.skipped)
            <=> req[r].status \notin {"NEW", "RUNNING", "FINISHED"}
       /\ Blocked(r) => r \in ToSet(skipped_waiting) \cup ToSet(pass.skipped)
       /\ req[r].status # "RUNNING" => req[r].num_blocks = 0

(* The pass: who is in the step, and where the loop stands.                 *)
PassOK ==
  /\ ~InPass => DOMAIN pass.sched = {}
  /\ DOMAIN pass.sched \subseteq ToSet(running)
  /\ pass.phase \in {"running", "allocating"} => pass.req_index >= 1
  /\ pass.phase = "running" =>
       \A i \in pass.req_index .. Len(running) : running[i] \notin DOMAIN pass.sched
  /\ pass.phase = "allocating" =>
       /\ pass.cur \in Requests \X Int
       /\ \E p \in 1 .. Len(running) :
            /\ p <= pass.req_index /\ running[p] = pass.cur[1]
            /\ \A i \in p .. Len(running) : running[i] \notin DOMAIN pass.sched

Ascending(q) == \A i, j \in 1 .. Len(q) : i < j => Rank[q[i]] <= Rank[q[j]]

Base ==
  /\ Types /\ QueuesOK /\ PassOK
  /\ Policy = "priority" => Ascending(waiting) /\ Ascending(skipped_waiting)

-----------------------------------------------------------------------------
Limit(r) == Lower(MaxModelLen, NumPrompt[r] + MaxTokens[r])

(* A request that resumes one token behind the longest prefix cache hit is  *)
(* padded with drafts; they stay below max_model_len.                       *)
HitsFit ==
  \/ NumSpecTokens = 0
  \/ \A r \in Requests : Lower(MaxHit, Limit(r) - 2) + NumSpecTokens + 1 < MaxModelLen

(* What n tokens more may be issued for.                                    *)
Grantable(q, r, n, resumed) ==
  /\ n >= 1 /\ q.num_computed_tokens + n < MaxModelLen
  /\ resumed \/ (~AtMaxTokens(q, r) /\ q.next_decode_eligible_step = 0)

Drafts(q, n) == q.num_computed_tokens + n - q.num_tokens - q.num_output_placeholders

GrantOK(q, r, g) ==
  /\ Grantable(q, r, g.n, g.resumed)
  /\ g.spec \in 0 .. NumSpecTokens
  /\ g.spec = IF Drafts(q, g.n) > 0 THEN Drafts(q, g.n) ELSE 0

PickOK(q, r, n) ==
  /\ Grantable(q, r, n, FALSE)
  /\ n <= pass.token_budget /\ Drafts(q, n) <= q.spec_token_ids

GrantsOK ==
  /\ pass.token_budget >= 0
  /\ InPass => pass.token_budget + Spent(pass.sched) = MaxNumScheduledTokens
  /\ pass.phase = "allocating" => PickOK(req[pass.cur[1]], pass.cur[1], pass.cur[2])
  /\ \A r \in DOMAIN pass.sched : GrantOK(req[r], r, pass.sched[r])

(* A step brings a request at most one token more than it has drafts.       *)
StepFits(step) ==
  \A r \in DOMAIN step : /\ step[r].n >= 1 /\ step[r].spec \in 0 .. NumSpecTokens
                         /\ step[r].sampled \in 0 .. 1 + step[r].spec
StepsFit(steps) == steps \in Seq(Steps) /\ \A i \in 1 .. Len(steps) : StepFits(steps[i])

(* What the first i steps hold for r, in all.                               *)
Sampled(steps, r) ==
  [i \in 1 .. Len(steps) |-> IF r \in DOMAIN steps[i] THEN steps[i][r].sampled ELSE 0]
Issued(steps, r) == RunningTotal(Tokens(steps, r))
Awaited(steps, r) == RunningTotal(Expected(steps, r))
Certain(steps, r) == RunningTotal(Sampling(steps, r))
Made(steps, r) == RunningTotal(Sampled(steps, r))

(* A live request and the steps in flight.  The first k are stale; those up *)
(* to d are dropped.  e is 1 in a pass, F are the requests that have no     *)
(* step since they were last admitted.                                      *)
Counts(q, r, steps, k) ==
  /\ q.num_in_flight_tokens = Issued(steps, r)[Len(steps)]
  /\ q.num_stale_output_tokens = Issued(steps, r)[k]
  /\ q.num_output_placeholders = Awaited(steps, r)[Len(steps)] - Awaited(steps, r)[k]

Bounds(q, r) ==
  /\ q.num_tokens >= NumPrompt[r] /\ q.num_tokens < Limit(r)
  /\ q.num_computed_tokens >= 0 /\ q.num_computed_tokens < MaxModelLen
  /\ IF q.num_output_placeholders > 0
     THEN q.num_computed_tokens = q.num_tokens + q.num_output_placeholders - 1
     ELSE q.num_computed_tokens < q.num_tokens

DroppedTo(q, k) == IF q.drop_stale_output /\ q.num_stale_output_tokens > 0 THEN k ELSE 0

InOrder(q, r, steps, F, k) ==
  LET P == Made(steps, r)
      d == DroppedTo(q, k)
  IN /\ \A i \in d + 1 .. Len(steps) :
          r \in DOMAIN steps[i] => steps[i][r].first = q.num_tokens + 1 + P[i - 1] - P[d]
     /\ q.status = "RUNNING" /\ r \notin F => q.worker_len = q.num_tokens + P[Len(steps)] - P[d]

Spaced(q, r, steps, e, k) ==
  LET C == Certain(steps, r)
  IN /\ q.num_tokens + C[Len(steps)] - C[k] <= NumPrompt[r] + MaxTokens[r]
     /\ \A i \in k + 1 .. Len(steps) : Samples(steps[i], r) =>
          /\ q.next_decode_eligible_step >= PpSize - (Len(steps) - i) - e
          /\ \A j \in i + 1 .. Len(steps) : Samples(steps[j], r) => j - i >= PpSize

(* The same from one k on.                                                  *)
LiveFrom(q, r, steps, e, F, k) ==
  /\ k \in 0 .. Len(steps)
  /\ q.status # "RUNNING" \/ r \in F => k = Len(steps)
  /\ Counts(q, r, steps, k) /\ InOrder(q, r, steps, F, k) /\ Spaced(q, r, steps, e, k)

Live(q, r, steps, e, F) ==
  /\ Bounds(q, r)
  /\ q.status = "RUNNING" => q.num_stale_output_tokens = 0 \/ q.drop_stale_output
  /\ \E k : LiveFrom(q, r, steps, e, F, k)

Fresh == {r \in DOMAIN pass.sched : pass.sched[r].resumed}
Elapsed == IF InPass THEN 1 ELSE 0

Delivered(q, r) ==
  /\ q.num_tokens = NumPrompt[r] + Len(q.delivered)
  /\ \A i \in 1 .. Len(q.delivered) : q.delivered[i] = NumPrompt[r] + i

Naturals(q) ==
  /\ q.num_tokens >= 0 /\ q.num_computed_tokens >= 0 /\ q.num_output_placeholders >= 0
  /\ q.num_in_flight_tokens >= 0 /\ q.num_stale_output_tokens >= 0 /\ q.num_blocks >= 0

RequestOK(q, r, steps, e, F) ==
  /\ q.status # "FINISHED" => Live(q, r, steps, e, F)
  /\ Delivered(q, r) /\ Naturals(q)

RequestsOK == \A r \in Requests : RequestOK(req[r], r, batch_queue, Elapsed, Fresh)

Inv == Base /\ GrantsOK /\ StepsFit(batch_queue) /\ RequestsOK

-----------------------------------------------------------------------------
(* Induction along an interval, and running totals                          *)

LEMMA DownClosed ==
  ASSUME NEW n \in Nat, NEW D \in SUBSET (1 .. n),
         \A i \in D : \A j \in 1 .. i : j \in D
  PROVE /\ IsFiniteSet(D) /\ Cardinality(D) \in Nat /\ Cardinality(D) <= n
        /\ D = 1 .. Cardinality(D)
  <1>1. IsFiniteSet(1 .. n) /\ Cardinality(1 .. n) = n
    BY FS_Interval
  <1>2. IsFiniteSet(D) /\ Cardinality(D) \in Nat /\ Cardinality(D) <= n
    <2>1. D \subseteq 1 .. n
      OBVIOUS
    <2>2. IsFiniteSet(D) /\ Cardinality(D) <= Cardinality(1 .. n)
      BY <1>1, <2>1, FS_Subset
    <2> QED BY <1>1, <2>2, FS_CardinalityType
  <1> DEFINE c == Cardinality(D)
  <1>3. IsFiniteSet(1 .. c) /\ Cardinality(1 .. c) = c
    BY <1>2, FS_Interval
  <1>4. IsFiniteSet(1 .. c + 1) /\ Cardinality(1 .. c + 1) = c + 1
    <2>1. c + 1 \in Int /\ 1 \in Int /\ 1 <= c + 1
      BY <1>2
    <2> QED BY <1>2, <2>1, FS_Interval
  <1>5. c + 1 \notin D
    <2> SUFFICES ASSUME c + 1 \in D PROVE FALSE
      OBVIOUS
    <2>1. 1 .. c + 1 \subseteq D
      OBVIOUS
    <2> QED BY <1>2, <1>4, <2>1, FS_Subset
  <1>6. D \subseteq 1 .. c
    <2> SUFFICES ASSUME NEW i \in D, i > c PROVE FALSE
      BY <1>2
    <2>1. c + 1 \in 1 .. i
      BY <1>2
    <2> QED BY <1>5, <2>1
  <1> QED BY <1>2, <1>3, <1>6, FS_Subset

(* A set that holds 0, and with each number the next, holds all of 0 .. n.  *)
LEMMA UpTo ==
  ASSUME NEW n, n \in Nat, NEW S, 0 \in S,
         \A i \in Nat : i < n /\ i \in S => i + 1 \in S
  PROVE \A i \in 0 .. n : i \in S
  <1> DEFINE D == {i \in 1 .. n + 1 : \A j \in 1 .. i : j - 1 \in S}
             c == Cardinality(D)
  <1>1. c \in Nat /\ c <= n + 1 /\ D = 1 .. c
    <2>1. D \in SUBSET (1 .. n + 1) /\ n + 1 \in Nat
      OBVIOUS
    <2>2. ASSUME NEW i \in D, NEW j \in 1 .. i PROVE j \in D
      <3>1. i \in 1 .. n + 1 /\ \A m \in 1 .. i : m - 1 \in S
        OBVIOUS
      <3>2. j \in 1 .. n + 1 /\ \A m \in 1 .. j : m \in 1 .. i
        BY <3>1
      <3> QED BY <3>1, <3>2
    <2> HIDE DEF D
    <2> QED BY <2>1, <2>2, DownClosed
  <1>2. 1 \in D
    OBVIOUS
  <1>3. c >= n + 1
    <2> SUFFICES ASSUME c < n + 1 PROVE FALSE
      BY <1>1
    <2>1. c \in D /\ c >= 1
      BY <1>1, <1>2
    <2>2. c - 1 \in S
      BY <1>1, <2>1
    <2>3. c \in S
      <3>1. c - 1 \in Nat /\ c - 1 < n /\ (c - 1) + 1 = c
        BY <1>1, <2>1
      <3> QED BY <2>2, <3>1
    <2>4. ASSUME NEW j \in 1 .. c + 1 PROVE j - 1 \in S
      <3>1. CASE j = c + 1
        <4>1. j - 1 = c
          BY <1>1, <3>1
        <4> QED BY <2>3, <4>1
      <3>2. CASE j \in 1 .. c
        BY <2>1, <3>2
      <3> QED BY <1>1, <3>1, <3>2
    <2>5. c + 1 \in D
      BY <1>1, <2>4
    <2> HIDE DEF D, c
    <2> QED BY <1>1, <2>5
  <1>4. TAKE i \in 0 .. n
  <1>5. i + 1 \in D
    <2>1. D = 1 .. n + 1
      BY <1>1, <1>3
    <2>2. i + 1 \in 1 .. n + 1
      OBVIOUS
    <2> QED BY <2>1, <2>2
  <1>6. i + 1 \in 1 .. i + 1 /\ (i + 1) - 1 = i
    OBVIOUS
  <1> QED BY <1>5, <1>6

LEMMA TotalIs ==
  ASSUME NEW s, s \in Seq(Int)
  PROVE LET t == RunningTotal(s) IN
        /\ t \in [0 .. Len(s) -> Int] /\ t[0] = 0
        /\ \A i \in 1 .. Len(s) : t[i] = t[i - 1] + s[i]
  <1> DEFINE n == Len(s)
             Good(m, f) == /\ DOMAIN f = 0 .. m /\ \A i \in 0 .. m : f[i] \in Int
                           /\ f[0] = 0
                           /\ \A i \in 1 .. m : f[i] = f[i - 1] + s[i]
             Step(f) == [i \in 0 .. n |-> IF i = 0 THEN 0 ELSE f[i - 1] + s[i]]
             S == {m \in 0 .. n : \E f : Good(m, f) /\ f = [i \in 0 .. m |-> f[i]]}
  <1>1. n \in Nat /\ n \in Int /\ \A i \in 1 .. n : s[i] \in Int
    OBVIOUS
  <1>2. 0 \in S
    <2>1. PICK f : f = [i \in 0 .. 0 |-> 0]
      OBVIOUS
    <2>2. Good(0, f) /\ f = [i \in 0 .. 0 |-> f[i]]
      BY <2>1
    <2> HIDE DEF Good
    <2> QED BY <1>1, <2>2
  <1>3. \A m \in 0 .. n - 1 : m \in S => m + 1 \in S
    <2> TAKE m \in 0 .. n - 1
    <2> HAVE m \in S
    <2>1. PICK f : Good(m, f)
      OBVIOUS
    <2>2. PICK g : g = [i \in 0 .. m + 1 |-> IF i = m + 1 THEN f[m] + s[m + 1] ELSE f[i]]
      OBVIOUS
    <2>3. DOMAIN g = 0 .. m + 1 /\ g = [i \in 0 .. m + 1 |-> g[i]]
      BY <2>2
    <2>4. g[m + 1] = f[m] + s[m + 1] /\ \A i \in 0 .. m : g[i] = f[i]
      BY <2>2
    <2>5. m \in 0 .. m /\ m + 1 \in 1 .. n /\ m + 1 \in 0 .. n
      BY <1>1
    <2>6. ASSUME NEW i \in 0 .. m + 1 PROVE g[i] \in Int
      <3>1. f[m] \in Int /\ s[m + 1] \in Int
        BY <1>1, <2>1, <2>5
      <3>2. CASE i = m + 1
        BY <2>4, <3>1, <3>2
      <3>3. CASE i \in 0 .. m
        BY <2>1, <2>4, <3>3
      <3> QED BY <3>2, <3>3
    <2>7. g[0] = 0
      BY <2>1, <2>4
    <2>8. ASSUME NEW i \in 1 .. m + 1 PROVE g[i] = g[i - 1] + s[i]
      <3>1. i - 1 \in 0 .. m
        OBVIOUS
      <3>2. CASE i = m + 1
        <4>1. i - 1 = m
          BY <3>2
        <4> QED BY <2>4, <3>1, <3>2, <4>1
      <3>3. CASE i \in 1 .. m
        <4>1. i \in 0 .. m
          BY <3>3
        <4> QED BY <2>1, <2>4, <3>1, <3>3, <4>1
      <3> QED BY <3>2, <3>3
    <2>9. Good(m + 1, g)
      BY <2>3, <2>6, <2>7, <2>8
    <2> HIDE DEF Good
    <2> QED BY <2>3, <2>5, <2>9
  <1>4. n \in S
    <2>1. \A i \in Nat : i < n /\ i \in S => i + 1 \in S
      <3> HIDE DEF S
      <3> QED BY <1>1, <1>3
    <2> HIDE DEF S, n
    <2>2. \A i \in 0 .. n : i \in S
      BY <1>1, <1>2, <2>1, UpTo
    <2> QED BY <1>1, <2>2
  <1>5. PICK f : Good(n, f) /\ f = [i \in 0 .. n |-> f[i]]
    BY <1>4
  <1>6. f = Step(f)
    <2>1. ASSUME NEW i \in 0 .. n PROVE f[i] = Step(f)[i]
      <3>1. Step(f)[i] = IF i = 0 THEN 0 ELSE f[i - 1] + s[i]
        OBVIOUS
      <3>2. i # 0 => i \in 1 .. n
        BY <1>1
      <3> HIDE DEF Step, n
      <3> QED BY <1>5, <3>1, <3>2
    <2> DEFINE g == Step(f)
    <2>2. g = [i \in 0 .. n |-> g[i]] /\ \A i \in 0 .. n : f[i] = g[i]
      BY <2>1
    <2> HIDE DEF g
    <2>3. f = g
      BY <1>5, <2>2
    <2> QED BY <2>3 DEF g
  <1>7. RunningTotal(s) = CHOOSE t : t = Step(t)
    BY DEF RunningTotal
  <1>8. RunningTotal(s) = Step(RunningTotal(s))
    BY <1>6, <1>7
  <1>9. PICK t : t = RunningTotal(s) /\ t = Step(t)
    BY <1>8
  <1>10. t[0] = 0 /\ \A i \in 1 .. n : t[i] = t[i - 1] + s[i]
    BY <1>1, <1>9, SMTT(30)
  <1>11. \A i \in 0 .. n : t[i] \in Int
    <2> DEFINE U == {i \in 0 .. n : t[i] \in Int}
    <2>1. 0 \in U
      BY <1>1, <1>10
    <2>2. \A i \in 0 .. n - 1 : i \in U => i + 1 \in U
      <3> TAKE i \in 0 .. n - 1
      <3> HAVE i \in U
      <3>1. i + 1 \in 1 .. n /\ i + 1 \in 0 .. n /\ (i + 1) - 1 = i
        BY <1>1
      <3>2. t[i + 1] = t[i] + s[i + 1]
        BY <1>10, <3>1
      <3> QED BY <1>1, <3>1, <3>2
    <2>3. \A i \in Nat : i < n /\ i \in U => i + 1 \in U
      BY <1>1, <2>2
    <2> HIDE DEF U, n
    <2>4. \A i \in 0 .. n : i \in U
      BY <1>1, <2>1, <2>3, UpTo
    <2> QED BY <2>4 DEF U
  <1>12. t \in [0 .. n -> Int]
    BY <1>9, <1>11
  <1> QED BY <1>9, <1>10, <1>12

(* What a running total does between two places.                            *)
LEMMA TotalMono ==
  ASSUME NEW s, s \in Seq(Nat), NEW a, a \in 0 .. Len(s), NEW b, b \in 0 .. Len(s), a <= b
  PROVE LET t == RunningTotal(s) IN
        /\ t[a] \in Nat /\ t[b] \in Nat /\ t[a] <= t[b]
        /\ \A m \in a + 1 .. b : t[a] + s[m] <= t[b]
  <1>1. PICK t : t = RunningTotal(s)
    OBVIOUS
  <1>2. PICK n : n = Len(s) /\ n \in Nat
    OBVIOUS
  <1>3. \A i \in 1 .. n : s[i] \in Nat
    BY <1>2
  <1>4. t \in [0 .. n -> Int] /\ t[0] = 0 /\ \A i \in 1 .. n : t[i] = t[i - 1] + s[i]
    <2>1. s \in Seq(Int)
      BY <1>3
    <2> QED BY <1>1, <1>2, <2>1, TotalIs
  <1> DEFINE S == {i \in 0 .. n : t[i] \in Nat /\ \A j \in 0 .. i : t[j] <= t[i]}
  <1>5. 0 \in S
    BY <1>2, <1>4
  <1>6. ASSUME NEW i \in Nat, i < n, i \in S PROVE i + 1 \in S
    <2>1. i + 1 \in 1 .. n /\ i + 1 \in 0 .. n /\ (i + 1) - 1 = i
      BY <1>2, <1>6
    <2>2. t[i + 1] = t[i] + s[i + 1] /\ s[i + 1] \in Nat
      BY <1>3, <1>4, <2>1
    <2>3. t[i + 1] \in Nat /\ t[i] <= t[i + 1]
      BY <1>6, <2>2
    <2>4. ASSUME NEW j \in 0 .. i + 1 PROVE t[j] <= t[i + 1]
      <3>1. CASE j = i + 1
        BY <2>3, <3>1
      <3>2. CASE j \in 0 .. i
        <4>1. t[j] <= t[i] /\ t[j] \in Int /\ t[i] \in Int
          <5>1. i \in 0 .. n /\ j \in 0 .. n
            BY <1>2, <1>6, <3>2
          <5>2. \A m \in 0 .. i : t[m] <= t[i]
            BY <1>6
          <5> QED BY <1>4, <3>2, <5>1, <5>2
        <4> QED BY <2>3, <4>1
      <3> QED BY <3>1, <3>2
    <2> QED BY <2>1, <2>3, <2>4
  <1>7. \A i \in 0 .. n : i \in S
    <2> HIDE DEF S
    <2> QED BY <1>2, <1>5, <1>6, UpTo
  <1>8. \A i \in 0 .. n : t[i] \in Nat /\ \A j \in 0 .. i : t[j] <= t[i]
    BY <1>7
  <1>9. t[a] \in Nat /\ t[b] \in Nat /\ t[a] <= t[b]
    <2>1. a \in 0 .. n /\ b \in 0 .. n /\ a \in 0 .. b
      BY <1>2
    <2> QED BY <1>8, <2>1
  <1>10. ASSUME NEW m \in a + 1 .. b PROVE t[a] + s[m] <= t[b]
    <2>1. m \in 1 .. n /\ m - 1 \in 0 .. n /\ m \in 0 .. b /\ a \in 0 .. m - 1 /\ b \in 0 .. n /\ m \in 0 .. n
      BY <1>2
    <2>2. t[m] <= t[b] /\ t[a] <= t[m - 1] /\ t[m] \in Nat /\ t[m - 1] \in Nat
      BY <1>8, <2>1
    <2>3. t[m] = t[m - 1] + s[m] /\ s[m] \in Nat
      BY <1>3, <1>4, <2>1
    <2> QED BY <1>9, <2>2, <2>3, SMTT(30)
  <1> QED BY <1>1, <1>9, <1>10

LEMMA TotalZero ==
  ASSUME NEW s, s \in Seq(Nat), NEW a, a \in 0 .. Len(s), NEW b, b \in 0 .. Len(s), a <= b,
         \A m \in a + 1 .. b : s[m] = 0
  PROVE RunningTotal(s)[b] = RunningTotal(s)[a]
  <1>1. PICK t : t = RunningTotal(s)
    OBVIOUS
  <1>2. PICK n : n = Len(s) /\ n \in Nat
    OBVIOUS
  <1>3. t \in [0 .. n -> Int] /\ t[0] = 0 /\ \A i \in 1 .. n : t[i] = t[i - 1] + s[i]
    <2>1. s \in Seq(Int)
      OBVIOUS
    <2> QED BY <1>1, <1>2, <2>1, TotalIs
  <1> DEFINE S == {i \in 0 .. n : i <= a \/ i > b \/ t[i] = t[a]}
  <1>4. 0 \in S
    BY <1>2
  <1>5. ASSUME NEW i \in Nat, i < n, i \in S PROVE i + 1 \in S
    <2>1. i + 1 \in 1 .. n /\ i + 1 \in 0 .. n /\ (i + 1) - 1 = i /\ i \in 0 .. n
      BY <1>2, <1>5
    <2>2. t[i + 1] = t[i] + s[i + 1] /\ t[i] \in Int
      BY <1>3, <2>1
    <2>3. CASE i < a \/ i >= b
      BY <1>2, <2>1, <2>3
    <2>4. CASE i >= a /\ i < b
      <3>1. i + 1 \in a + 1 .. b
        BY <2>4
      <3>2. s[i + 1] = 0
        BY <3>1
      <3>3. t[i] = t[a]
        BY <1>5, <2>4
      <3> QED BY <2>1, <2>2, <3>2, <3>3
    <2> QED BY <1>2, <2>3, <2>4
  <1>6. \A i \in 0 .. n : i \in S
    <2> HIDE DEF S
    <2> QED BY <1>2, <1>4, <1>5, UpTo
  <1>7. b \in S
    BY <1>2, <1>6
  <1>8. t[b] = t[a]
    BY <1>2, <1>7
  <1> QED BY <1>1, <1>8

(* One more at the end, one less at the front.                              *)
LEMMA TotalExtend ==
  ASSUME NEW s, s \in Seq(Nat), NEW w, w \in Seq(Nat), Len(w) = Len(s) + 1,
         \A i \in 1 .. Len(s) : w[i] = s[i]
  PROVE LET t == RunningTotal(s)
            u == RunningTotal(w) IN
        /\ \A i \in 0 .. Len(s) : u[i] = t[i]
        /\ u[Len(s) + 1] = t[Len(s)] + w[Len(s) + 1]
  <1>1. PICK t, u : t = RunningTotal(s) /\ u = RunningTotal(w)
    OBVIOUS
  <1>2. PICK n : n = Len(s) /\ n \in Nat
    OBVIOUS
  <1>3. w \in Seq(Nat) /\ Len(w) = n + 1 /\ \A i \in 1 .. n : w[i] = s[i]
    BY <1>1, <1>2
  <1>4. t \in [0 .. n -> Int] /\ t[0] = 0 /\ \A i \in 1 .. n : t[i] = t[i - 1] + s[i]
    <2>1. s \in Seq(Int)
      OBVIOUS
    <2> QED BY <1>1, <1>2, <2>1, TotalIs
  <1>5. u[0] = 0 /\ \A i \in 1 .. n + 1 : u[i] = u[i - 1] + w[i]
    <2>1. w \in Seq(Int)
      BY <1>3
    <2> QED BY <1>1, <1>3, <2>1, TotalIs
  <1> DEFINE S == {i \in 0 .. n : u[i] = t[i]}
  <1>6. 0 \in S
    BY <1>2, <1>4, <1>5
  <1>7. ASSUME NEW i \in Nat, i < n, i \in S PROVE i + 1 \in S
    <2>1. i + 1 \in 1 .. n /\ i + 1 \in 0 .. n /\ i + 1 \in 1 .. n + 1 /\ (i + 1) - 1 = i
      BY <1>2, <1>7
    <2>2. t[i + 1] = t[i] + s[i + 1] /\ u[i + 1] = u[i] + w[i + 1] /\ w[i + 1] = s[i + 1]
      BY <1>3, <1>4, <1>5, <2>1
    <2> QED BY <1>7, <2>1, <2>2
  <1>8. \A i \in 0 .. n : i \in S
    <2> HIDE DEF S
    <2> QED BY <1>2, <1>6, <1>7, UpTo
  <1>9. \A i \in 0 .. n : u[i] = t[i]
    BY <1>8
  <1>10. u[n + 1] = t[n] + w[n + 1]
    <2>1. n + 1 \in 1 .. n + 1 /\ (n + 1) - 1 = n /\ n \in 0 .. n
      BY <1>2
    <2> QED BY <1>3, <1>5, <1>9, <2>1
  <1> QED BY <1>1, <1>2, <1>9, <1>10

LEMMA TotalShift ==
  ASSUME NEW s, s \in Seq(Nat), NEW w, w \in Seq(Nat), Len(s) = Len(w) + 1,
         \A i \in 1 .. Len(w) : w[i] = s[i + 1]
  PROVE LET t == RunningTotal(s)
            u == RunningTotal(w) IN
        \A i \in 1 .. Len(s) : u[i - 1] = t[i] - t[1]
  <1>1. PICK t, u : t = RunningTotal(s) /\ u = RunningTotal(w)
    OBVIOUS
  <1>2. PICK n : n + 1 = Len(s) /\ n = Len(w) /\ n \in Nat
    BY SMTT(30)
  <1>3. w \in Seq(Nat) /\ Len(w) = n /\ \A i \in 1 .. n : w[i] = s[i + 1]
    BY <1>1, <1>2
  <1>4. t \in [0 .. n + 1 -> Int] /\ t[0] = 0 /\ \A i \in 1 .. n + 1 : t[i] = t[i - 1] + s[i]
    <2>1. s \in Seq(Int)
      OBVIOUS
    <2> QED BY <1>1, <1>2, <2>1, TotalIs
  <1>5. u[0] = 0 /\ \A i \in 1 .. n : u[i] = u[i - 1] + w[i]
    <2>1. w \in Seq(Int)
      BY <1>3
    <2> QED BY <1>1, <1>3, <2>1, TotalIs
  <1> DEFINE S == {i \in 0 .. n : u[i] = t[i + 1] - t[1]}
  <1>6. 0 \in S
    <2>1. t[1] \in Int
      BY <1>2, <1>4
    <2> QED BY <1>2, <1>5, <2>1
  <1>7. ASSUME NEW i \in Nat, i < n, i \in S PROVE i + 1 \in S
    <2>1. i + 1 \in 1 .. n /\ i + 1 \in 0 .. n /\ (i + 1) - 1 = i
          /\ (i + 1) + 1 \in 1 .. n + 1 /\ ((i + 1) + 1) - 1 = i + 1
      BY <1>2, <1>7
    <2>2. t[(i + 1) + 1] = t[i + 1] + s[(i + 1) + 1] /\ u[i + 1] = u[i] + w[i + 1]
          /\ w[i + 1] = s[(i + 1) + 1] /\ u[i] = t[i + 1] - t[1]
      BY <1>3, <1>4, <1>5, <1>7, <2>1
    <2>3. t[1] \in Int /\ t[i + 1] \in Int /\ s[(i + 1) + 1] \in Int
      <3>1. 1 \in 0 .. n + 1 /\ i + 1 \in 0 .. n + 1 /\ (i + 1) + 1 \in 1 .. Len(s)
        BY <1>2, <2>1
      <3>2. \A j \in 1 .. Len(s) : s[j] \in Int
        OBVIOUS
      <3> QED BY <1>4, <3>1, <3>2
    <2>4. u[i + 1] = t[(i + 1) + 1] - t[1]
      BY <2>2, <2>3
    <2> QED BY <2>1, <2>4
  <1>8. \A i \in 0 .. n : i \in S
    <2> HIDE DEF S
    <2> QED BY <1>2, <1>6, <1>7, UpTo
  <1>9. ASSUME NEW i \in 1 .. n + 1 PROVE u[i - 1] = t[i] - t[1]
    <2>1. i - 1 \in 0 .. n /\ (i - 1) + 1 = i
      BY <1>2
    <2>2. i - 1 \in S
      BY <1>8, <2>1
    <2> QED BY <2>1, <2>2
  <1> QED BY <1>1, <1>2, <1>9

LEMMA TotalFirst ==
  ASSUME NEW s, s \in Seq(Nat), 1 \in 1 .. Len(s)
  PROVE RunningTotal(s)[0] = 0 /\ RunningTotal(s)[1] = s[1]
  <1>1. s \in Seq(Int) /\ s[1] \in Nat
    OBVIOUS
  <1>2. PICK t : t = RunningTotal(s)
    OBVIOUS
  <1>3. t[0] = 0 /\ \A i \in 1 .. Len(s) : t[i] = t[i - 1] + s[i]
    BY <1>1, <1>2, TotalIs
  <1>4. 1 - 1 = 0
    OBVIOUS
  <1>5. t[1] = t[0] + s[1]
    BY <1>3, <1>4
  <1> QED BY <1>1, <1>2, <1>3, <1>5

-----------------------------------------------------------------------------
(* What the steps in flight hold for one request                            *)

LEMMA ConstantTypes ==
  /\ MaxNumScheduledTokens \in Nat /\ MaxNumRunningReqs \in Nat /\ MaxModelLen \in Nat
  /\ NumSpecTokens \in Nat /\ NumLookaheadTokens \in Nat /\ NumBlocks \in Nat /\ MaxHit \in Nat
  /\ BlockSize \in Nat /\ BlockSize >= 1 /\ PpSize \in Nat /\ PpSize >= 1
  /\ \A r \in Requests :
       /\ NumPrompt[r] \in Nat /\ NumPrompt[r] >= 1 /\ NumPrompt[r] < MaxModelLen
       /\ MaxTokens[r] \in Nat /\ MaxTokens[r] >= 1 /\ Rank[r] \in Int
  BY SchedulerAssumption

LEMMA ShareIs ==
  ASSUME NEW steps, StepsFit(steps), NEW m, m \in 1 .. Len(steps), NEW r, r \in DOMAIN steps[m]
  PROVE /\ r \in Requests
        /\ steps[m][r].n \in Nat /\ steps[m][r].n >= 1
        /\ steps[m][r].spec \in Nat /\ steps[m][r].spec <= NumSpecTokens
        /\ steps[m][r].sampled \in Nat /\ steps[m][r].sampled <= 1 + steps[m][r].spec
        /\ steps[m][r].first \in Int
  <1>1. StepFits(steps[m]) /\ steps[m] \in Steps
    BY DEF StepsFit
  <1>2. steps[m][r] \in ShareType /\ r \in Requests
    BY <1>1 DEF Steps
  <1>3. /\ steps[m][r].n \in Int /\ steps[m][r].spec \in Int /\ steps[m][r].sampled \in Int
        /\ steps[m][r].first \in Int
    BY <1>2 DEF ShareType
  <1>4. /\ steps[m][r].n >= 1 /\ steps[m][r].spec \in 0 .. NumSpecTokens
        /\ steps[m][r].sampled \in 0 .. 1 + steps[m][r].spec
    BY <1>1 DEF StepFits
  <1> QED BY <1>2, <1>3, <1>4, ConstantTypes

LEMMA WeightsAre ==
  ASSUME NEW steps, StepsFit(steps), NEW r
  PROVE /\ Tokens(steps, r) \in Seq(Nat) /\ Expected(steps, r) \in Seq(Nat)
        /\ Sampling(steps, r) \in Seq(Nat) /\ Sampled(steps, r) \in Seq(Nat)
        /\ Len(Tokens(steps, r)) = Len(steps) /\ Len(Expected(steps, r)) = Len(steps)
        /\ Len(Sampling(steps, r)) = Len(steps) /\ Len(Sampled(steps, r)) = Len(steps)
        /\ Len(steps) \in Nat
        /\ \A i \in 1 .. Len(steps) :
             IF r \in DOMAIN steps[i]
             THEN /\ Tokens(steps, r)[i] = steps[i][r].n
                  /\ Sampled(steps, r)[i] = steps[i][r].sampled
                  /\ IF steps[i][r].sampled > 0
                     THEN Expected(steps, r)[i] = 1 + steps[i][r].spec /\ Sampling(steps, r)[i] = 1
                     ELSE Expected(steps, r)[i] = 0 /\ Sampling(steps, r)[i] = 0
             ELSE /\ Tokens(steps, r)[i] = 0 /\ Sampled(steps, r)[i] = 0
                  /\ Expected(steps, r)[i] = 0 /\ Sampling(steps, r)[i] = 0
  <1>1. PICK n \in Nat : n = Len(steps)
    BY DEF StepsFit
  <1>2. ASSUME NEW i \in 1 .. n, r \in DOMAIN steps[i]
        PROVE steps[i][r].n \in Nat /\ steps[i][r].sampled \in Nat /\ 1 + steps[i][r].spec \in Nat
    BY <1>1, <1>2, ShareIs
  <1>3. Tokens(steps, r) \in Seq(Nat) /\ Len(Tokens(steps, r)) = n
    <2>1. Tokens(steps, r) \in [1 .. n -> Nat]
      BY <1>1, <1>2 DEF Tokens
    <2> QED BY <2>1
  <1>4. Expected(steps, r) \in Seq(Nat) /\ Len(Expected(steps, r)) = n
    <2>1. Expected(steps, r) \in [1 .. n -> Nat]
      BY <1>1, <1>2 DEF Expected, Samples
    <2> QED BY <2>1
  <1>5. Sampling(steps, r) \in Seq(Nat) /\ Len(Sampling(steps, r)) = n
    <2>1. Sampling(steps, r) \in [1 .. n -> Nat]
      BY <1>1, <1>2 DEF Sampling
    <2> QED BY <2>1
  <1>6. Sampled(steps, r) \in Seq(Nat) /\ Len(Sampled(steps, r)) = n
    <2>1. Sampled(steps, r) \in [1 .. n -> Nat]
      BY <1>1, <1>2 DEF Sampled
    <2> QED BY <2>1
  <1>7. ASSUME NEW i \in 1 .. n
        PROVE IF r \in DOMAIN steps[i]
              THEN /\ Tokens(steps, r)[i] = steps[i][r].n
                   /\ Sampled(steps, r)[i] = steps[i][r].sampled
                   /\ IF steps[i][r].sampled > 0
                      THEN Expected(steps, r)[i] = 1 + steps[i][r].spec /\ Sampling(steps, r)[i] = 1
                      ELSE Expected(steps, r)[i] = 0 /\ Sampling(steps, r)[i] = 0
              ELSE /\ Tokens(steps, r)[i] = 0 /\ Sampled(steps, r)[i] = 0
                   /\ Expected(steps, r)[i] = 0 /\ Sampling(steps, r)[i] = 0
    BY <1>1 DEF Tokens, Sampled, Expected, Sampling, Samples
  <1> QED BY <1>1, <1>3, <1>4, <1>5, <1>6, <1>7

(* The four totals between two places a and b.                              *)
LEMMA MarksMono ==
  ASSUME NEW steps, StepsFit(steps), NEW r,
         NEW a, a \in 0 .. Len(steps), NEW b, b \in 0 .. Len(steps), a <= b
  PROVE /\ Issued(steps, r)[a] \in Nat /\ Issued(steps, r)[b] \in Nat
        /\ Awaited(steps, r)[a] \in Nat /\ Awaited(steps, r)[b] \in Nat
        /\ Certain(steps, r)[a] \in Nat /\ Certain(steps, r)[b] \in Nat
        /\ Made(steps, r)[a] \in Nat /\ Made(steps, r)[b] \in Nat
        /\ Issued(steps, r)[a] <= Issued(steps, r)[b]
        /\ Awaited(steps, r)[a] <= Awaited(steps, r)[b]
        /\ Certain(steps, r)[a] <= Certain(steps, r)[b]
        /\ Made(steps, r)[a] <= Made(steps, r)[b]
        /\ \A m \in a + 1 .. b : r \in DOMAIN steps[m] =>
             /\ Issued(steps, r)[a] + steps[m][r].n <= Issued(steps, r)[b]
             /\ steps[m][r].sampled > 0 =>
                  Awaited(steps, r)[a] + 1 + steps[m][r].spec <= Awaited(steps, r)[b]
  <1>1. PICK n \in Nat : n = Len(steps)
    BY DEF StepsFit
  <1>2. /\ Issued(steps, r)[a] \in Nat /\ Issued(steps, r)[b] \in Nat
        /\ Issued(steps, r)[a] <= Issued(steps, r)[b]
        /\ \A m \in a + 1 .. b : Issued(steps, r)[a] + Tokens(steps, r)[m] <= Issued(steps, r)[b]
    BY <1>1, WeightsAre, TotalMono DEF Issued
  <1>3. /\ Awaited(steps, r)[a] \in Nat /\ Awaited(steps, r)[b] \in Nat
        /\ Awaited(steps, r)[a] <= Awaited(steps, r)[b]
        /\ \A m \in a + 1 .. b : Awaited(steps, r)[a] + Expected(steps, r)[m] <= Awaited(steps, r)[b]
    BY <1>1, WeightsAre, TotalMono DEF Awaited
  <1>4. /\ Certain(steps, r)[a] \in Nat /\ Certain(steps, r)[b] \in Nat
        /\ Certain(steps, r)[a] <= Certain(steps, r)[b]
    BY <1>1, WeightsAre, TotalMono DEF Certain
  <1>5. /\ Made(steps, r)[a] \in Nat /\ Made(steps, r)[b] \in Nat
        /\ Made(steps, r)[a] <= Made(steps, r)[b]
    BY <1>1, WeightsAre, TotalMono DEF Made
  <1>6. ASSUME NEW m \in a + 1 .. b, r \in DOMAIN steps[m]
        PROVE /\ Issued(steps, r)[a] + steps[m][r].n <= Issued(steps, r)[b]
              /\ steps[m][r].sampled > 0 =>
                   Awaited(steps, r)[a] + 1 + steps[m][r].spec <= Awaited(steps, r)[b]
    <2>1. m \in 1 .. n
      BY <1>1
    <2>2. /\ Tokens(steps, r)[m] = steps[m][r].n
          /\ steps[m][r].sampled > 0 => Expected(steps, r)[m] = 1 + steps[m][r].spec
      BY <1>1, <1>6, <2>1, WeightsAre
    <2>3. steps[m][r].spec \in Int
      BY <1>1, <1>6, <2>1, ShareIs
    <2> QED BY <1>2, <1>3, <1>6, <2>2, <2>3
  <1> QED BY <1>2, <1>3, <1>4, <1>5, <1>6

(* Steps without r, and steps that bring it no token.                       *)
LEMMA MarksFlat ==
  ASSUME NEW steps, StepsFit(steps), NEW r,
         NEW a, a \in 0 .. Len(steps), NEW b, b \in 0 .. Len(steps), a <= b
  PROVE /\ Issued(steps, r)[a] = Issued(steps, r)[b] =>
             \A m \in a + 1 .. b : r \notin DOMAIN steps[m]
        /\ (\A m \in a + 1 .. b : r \notin DOMAIN steps[m]) =>
             Issued(steps, r)[b] = Issued(steps, r)[a]
        /\ Awaited(steps, r)[a] = Awaited(steps, r)[b] =>
             \A m \in a + 1 .. b : ~Samples(steps[m], r)
        /\ (\A m \in a + 1 .. b : ~Samples(steps[m], r)) =>
             /\ Awaited(steps, r)[b] = Awaited(steps, r)[a]
             /\ Certain(steps, r)[b] = Certain(steps, r)[a]
             /\ Made(steps, r)[b] = Made(steps, r)[a]
  <1>1. PICK n \in Nat : n = Len(steps)
    BY DEF StepsFit
  <1>2. ASSUME NEW m \in a + 1 .. b
        PROVE /\ m \in 1 .. n
              /\ r \in DOMAIN steps[m] => /\ steps[m][r].n \in Nat /\ steps[m][r].n >= 1
                                          /\ steps[m][r].spec \in Nat /\ steps[m][r].sampled \in Nat
    <2>1. m \in 1 .. n
      BY <1>1
    <2> QED BY <1>1, <2>1, ShareIs
  <1>3. ASSUME Issued(steps, r)[a] = Issued(steps, r)[b], NEW m \in a + 1 .. b, r \in DOMAIN steps[m]
        PROVE FALSE
    <2>1. Issued(steps, r)[a] + steps[m][r].n <= Issued(steps, r)[b] /\ Issued(steps, r)[a] \in Nat
      BY <1>3, MarksMono
    <2> QED BY <1>2, <1>3, <2>1
  <1>4. ASSUME \A m \in a + 1 .. b : r \notin DOMAIN steps[m]
        PROVE Issued(steps, r)[b] = Issued(steps, r)[a]
    <2>1. \A m \in a + 1 .. b : Tokens(steps, r)[m] = 0
      BY <1>1, <1>2, <1>4, WeightsAre
    <2>2. Tokens(steps, r) \in Seq(Nat) /\ Len(Tokens(steps, r)) = Len(steps)
      BY WeightsAre
    <2> QED BY <2>1, <2>2, TotalZero DEF Issued
  <1>5. ASSUME Awaited(steps, r)[a] = Awaited(steps, r)[b], NEW m \in a + 1 .. b, Samples(steps[m], r)
        PROVE FALSE
    <2>1. /\ Awaited(steps, r)[a] + 1 + steps[m][r].spec <= Awaited(steps, r)[b]
          /\ Awaited(steps, r)[a] \in Nat
      BY <1>5, MarksMono DEF Samples
    <2> QED BY <1>2, <1>5, <2>1 DEF Samples
  <1>6. ASSUME \A m \in a + 1 .. b : ~Samples(steps[m], r)
        PROVE /\ Awaited(steps, r)[b] = Awaited(steps, r)[a]
              /\ Certain(steps, r)[b] = Certain(steps, r)[a]
              /\ Made(steps, r)[b] = Made(steps, r)[a]
    <2>1. ASSUME NEW m \in a + 1 .. b
          PROVE Expected(steps, r)[m] = 0 /\ Sampling(steps, r)[m] = 0 /\ Sampled(steps, r)[m] = 0
      <3>1. m \in 1 .. n /\ (r \in DOMAIN steps[m] => steps[m][r].sampled = 0)
        BY <1>2, <1>6 DEF Samples
      <3>2. r \in DOMAIN steps[m] => ~(steps[m][r].sampled > 0)
        BY <3>1
      <3>3. r \in DOMAIN steps[m] => Sampled(steps, r)[m] = steps[m][r].sampled
        BY <1>1, <3>1, WeightsAre
      <3>4. Expected(steps, r)[m] = 0 /\ Sampling(steps, r)[m] = 0
        BY <1>1, <3>1, <3>2, WeightsAre
      <3>5. r \notin DOMAIN steps[m] => Sampled(steps, r)[m] = 0
        BY <1>1, <3>1, WeightsAre
      <3> QED BY <3>1, <3>3, <3>4, <3>5
    <2>2. Awaited(steps, r)[b] = Awaited(steps, r)[a]
      BY <1>1, <2>1, WeightsAre, TotalZero, ZenonT(60) DEF Awaited
    <2>3. Certain(steps, r)[b] = Certain(steps, r)[a]
      BY <1>1, <2>1, WeightsAre, TotalZero, ZenonT(60) DEF Certain
    <2>4. Made(steps, r)[b] = Made(steps, r)[a]
      BY <1>1, <2>1, WeightsAre, TotalZero, ZenonT(60) DEF Made
    <2> QED BY <2>2, <2>3, <2>4
  <1> QED BY <1>3, <1>4, <1>5, <1>6

(* One more step at the end.                                                *)
LEMMA MarksAppend ==
  ASSUME NEW steps, StepsFit(steps), NEW step, step \in Steps, StepFits(step), NEW r
  PROVE LET after == Append(steps, step)
            n == Len(steps)
        IN /\ StepsFit(after) /\ Len(after) = n + 1
           /\ \A i \in 1 .. n : after[i] = steps[i]
           /\ after[n + 1] = step
           /\ \A i \in 0 .. n : /\ Issued(after, r)[i] = Issued(steps, r)[i]
                                /\ Awaited(after, r)[i] = Awaited(steps, r)[i]
                                /\ Certain(after, r)[i] = Certain(steps, r)[i]
                                /\ Made(after, r)[i] = Made(steps, r)[i]
           /\ Issued(after, r)[n + 1] =
                Issued(steps, r)[n] + (IF r \in DOMAIN step THEN step[r].n ELSE 0)
           /\ Awaited(after, r)[n + 1] =
                Awaited(steps, r)[n] + (IF Samples(step, r) THEN 1 + step[r].spec ELSE 0)
           /\ Certain(after, r)[n + 1] =
                Certain(steps, r)[n] + (IF Samples(step, r) THEN 1 ELSE 0)
           /\ Made(after, r)[n + 1] =
                Made(steps, r)[n] + (IF r \in DOMAIN step THEN step[r].sampled ELSE 0)
  <1>1. PICK after : after = Append(steps, step)
    OBVIOUS
  <1>2. PICK n \in Nat : n = Len(steps)
    BY DEF StepsFit
  <1>3. /\ after \in Seq(Steps) /\ Len(after) = n + 1 /\ after[n + 1] = step
        /\ \A i \in 1 .. n : after[i] = steps[i]
    BY <1>1, <1>2 DEF StepsFit
  <1>4. StepsFit(after)
    <2>1. ASSUME NEW i \in 1 .. n + 1 PROVE StepFits(after[i])
      <3>1. CASE i = n + 1
        BY <1>3, <3>1
      <3>2. CASE i \in 1 .. n
        BY <1>2, <1>3, <3>2 DEF StepsFit
      <3> QED BY <3>1, <3>2
    <2> QED BY <1>3, <2>1 DEF StepsFit
  <1>5. n + 1 \in 1 .. n + 1 /\ \A i \in 1 .. n : i \in 1 .. n + 1
    OBVIOUS
  <1>6. /\ \A i \in 0 .. n : Issued(after, r)[i] = Issued(steps, r)[i]
        /\ Issued(after, r)[n + 1] =
             Issued(steps, r)[n] + (IF r \in DOMAIN step THEN step[r].n ELSE 0)
    <2>1. Tokens(steps, r) \in Seq(Nat) /\ Tokens(after, r) \in Seq(Nat)
          /\ Len(Tokens(steps, r)) = n /\ Len(Tokens(after, r)) = n + 1
      BY <1>2, <1>3, <1>4, WeightsAre
    <2>2. \A i \in 1 .. n : Tokens(after, r)[i] = Tokens(steps, r)[i]
      BY <1>2, <1>3, <1>5 DEF Tokens
    <2>3. Tokens(after, r)[n + 1] = IF r \in DOMAIN step THEN step[r].n ELSE 0
      BY <1>3, <1>5 DEF Tokens
    <2> QED BY <2>1, <2>2, <2>3, TotalExtend DEF Issued
  <1>7. /\ \A i \in 0 .. n : Awaited(after, r)[i] = Awaited(steps, r)[i]
        /\ Awaited(after, r)[n + 1] =
             Awaited(steps, r)[n] + (IF Samples(step, r) THEN 1 + step[r].spec ELSE 0)
    <2>1. Expected(steps, r) \in Seq(Nat) /\ Expected(after, r) \in Seq(Nat)
          /\ Len(Expected(steps, r)) = n /\ Len(Expected(after, r)) = n + 1
      BY <1>2, <1>3, <1>4, WeightsAre
    <2>2. \A i \in 1 .. n : Expected(after, r)[i] = Expected(steps, r)[i]
      BY <1>2, <1>3, <1>5 DEF Expected
    <2>3. Expected(after, r)[n + 1] = IF Samples(step, r) THEN 1 + step[r].spec ELSE 0
      BY <1>3, <1>5 DEF Expected
    <2> QED BY <2>1, <2>2, <2>3, TotalExtend DEF Awaited
  <1>8. /\ \A i \in 0 .. n : Certain(after, r)[i] = Certain(steps, r)[i]
        /\ Certain(after, r)[n + 1] = Certain(steps, r)[n] + (IF Samples(step, r) THEN 1 ELSE 0)
    <2>1. Sampling(steps, r) \in Seq(Nat) /\ Sampling(after, r) \in Seq(Nat)
          /\ Len(Sampling(steps, r)) = n /\ Len(Sampling(after, r)) = n + 1
      BY <1>2, <1>3, <1>4, WeightsAre
    <2>2. \A i \in 1 .. n : Sampling(after, r)[i] = Sampling(steps, r)[i]
      BY <1>2, <1>3, <1>5 DEF Sampling
    <2>3. Sampling(after, r)[n + 1] = IF Samples(step, r) THEN 1 ELSE 0
      BY <1>3, <1>5 DEF Sampling
    <2> QED BY <2>1, <2>2, <2>3, TotalExtend DEF Certain
  <1>9. /\ \A i \in 0 .. n : Made(after, r)[i] = Made(steps, r)[i]
        /\ Made(after, r)[n + 1] =
             Made(steps, r)[n] + (IF r \in DOMAIN step THEN step[r].sampled ELSE 0)
    <2>1. Sampled(steps, r) \in Seq(Nat) /\ Sampled(after, r) \in Seq(Nat)
          /\ Len(Sampled(steps, r)) = n /\ Len(Sampled(after, r)) = n + 1
      BY <1>2, <1>3, <1>4, WeightsAre
    <2>2. \A i \in 1 .. n : Sampled(after, r)[i] = Sampled(steps, r)[i]
      BY <1>2, <1>3, <1>5 DEF Sampled
    <2>3. Sampled(after, r)[n + 1] = IF r \in DOMAIN step THEN step[r].sampled ELSE 0
      BY <1>3, <1>5 DEF Sampled
    <2> QED BY <2>1, <2>2, <2>3, TotalExtend DEF Made
  <1> QED BY <1>1, <1>2, <1>3, <1>4, <1>6, <1>7, <1>8, <1>9

(* The oldest step leaves.                                                  *)
LEMMA MarksTail ==
  ASSUME NEW steps, StepsFit(steps), steps # <<>>, NEW r
  PROVE LET after == Tail(steps)
            n == Len(steps)
        IN /\ StepsFit(after) /\ Len(after) = n - 1
           /\ \A i \in 2 .. n : after[i - 1] = steps[i]
           /\ \A i \in 1 .. n : /\ Issued(after, r)[i - 1] = Issued(steps, r)[i] - Issued(steps, r)[1]
                                /\ Awaited(after, r)[i - 1] = Awaited(steps, r)[i] - Awaited(steps, r)[1]
                                /\ Certain(after, r)[i - 1] = Certain(steps, r)[i] - Certain(steps, r)[1]
                                /\ Made(after, r)[i - 1] = Made(steps, r)[i] - Made(steps, r)[1]
  <1>1. PICK after : after = Tail(steps)
    OBVIOUS
  <1>2. PICK n \in Nat : n = Len(steps) /\ n >= 1
    BY DEF StepsFit
  <1>3. /\ after \in Seq(Steps) /\ Len(after) = n - 1
        /\ \A i \in 1 .. n - 1 : after[i] = steps[i + 1]
    BY <1>1, <1>2 DEF StepsFit
  <1>4. StepsFit(after)
    <2>1. ASSUME NEW i \in 1 .. n - 1 PROVE StepFits(after[i])
      <3>1. i + 1 \in 1 .. n
        OBVIOUS
      <3> QED BY <1>2, <1>3, <3>1 DEF StepsFit
    <2> QED BY <1>3, <2>1 DEF StepsFit
  <1>5. \A i \in 1 .. n - 1 : i + 1 \in 1 .. n
    OBVIOUS
  <1>6. n = (n - 1) + 1
    OBVIOUS
  <1>7. \A i \in 1 .. n : Issued(after, r)[i - 1] = Issued(steps, r)[i] - Issued(steps, r)[1]
    <2>1. Tokens(steps, r) \in Seq(Nat) /\ Tokens(after, r) \in Seq(Nat)
          /\ Len(Tokens(steps, r)) = n /\ Len(Tokens(after, r)) = n - 1
      BY <1>2, <1>3, <1>4, WeightsAre
    <2>2. \A i \in 1 .. n - 1 : Tokens(after, r)[i] = Tokens(steps, r)[i + 1]
      BY <1>2, <1>3, <1>5 DEF Tokens
    <2> QED BY <1>6, <2>1, <2>2, TotalShift DEF Issued
  <1>8. \A i \in 1 .. n : Awaited(after, r)[i - 1] = Awaited(steps, r)[i] - Awaited(steps, r)[1]
    <2>1. Expected(steps, r) \in Seq(Nat) /\ Expected(after, r) \in Seq(Nat)
          /\ Len(Expected(steps, r)) = n /\ Len(Expected(after, r)) = n - 1
      BY <1>2, <1>3, <1>4, WeightsAre
    <2>2. \A i \in 1 .. n - 1 : Expected(after, r)[i] = Expected(steps, r)[i + 1]
      BY <1>2, <1>3, <1>5 DEF Expected
    <2> QED BY <1>6, <2>1, <2>2, TotalShift DEF Awaited
  <1>9. \A i \in 1 .. n : Certain(after, r)[i - 1] = Certain(steps, r)[i] - Certain(steps, r)[1]
    <2>1. Sampling(steps, r) \in Seq(Nat) /\ Sampling(after, r) \in Seq(Nat)
          /\ Len(Sampling(steps, r)) = n /\ Len(Sampling(after, r)) = n - 1
      BY <1>2, <1>3, <1>4, WeightsAre
    <2>2. \A i \in 1 .. n - 1 : Sampling(after, r)[i] = Sampling(steps, r)[i + 1]
      BY <1>2, <1>3, <1>5 DEF Sampling
    <2> QED BY <1>6, <2>1, <2>2, TotalShift DEF Certain
  <1>10. \A i \in 1 .. n : Made(after, r)[i - 1] = Made(steps, r)[i] - Made(steps, r)[1]
    <2>1. Sampled(steps, r) \in Seq(Nat) /\ Sampled(after, r) \in Seq(Nat)
          /\ Len(Sampled(steps, r)) = n /\ Len(Sampled(after, r)) = n - 1
      BY <1>2, <1>3, <1>4, WeightsAre
    <2>2. \A i \in 1 .. n - 1 : Sampled(after, r)[i] = Sampled(steps, r)[i + 1]
      BY <1>2, <1>3, <1>5 DEF Sampled
    <2> QED BY <1>6, <2>1, <2>2, TotalShift DEF Made
  <1>11. ASSUME NEW i \in 2 .. n PROVE after[i - 1] = steps[i]
    <2>1. i - 1 \in 1 .. n - 1 /\ (i - 1) + 1 = i
      OBVIOUS
    <2> QED BY <1>3, <2>1
  <1> QED BY <1>1, <1>2, <1>3, <1>4, <1>7, <1>8, <1>9, <1>10, <1>11

(* What the first step alone adds.                                          *)
LEMMA MarksFirst ==
  ASSUME NEW steps, StepsFit(steps), steps # <<>>, NEW r
  PROVE /\ Issued(steps, r)[0] = 0 /\ Awaited(steps, r)[0] = 0
        /\ Certain(steps, r)[0] = 0 /\ Made(steps, r)[0] = 0
        /\ Issued(steps, r)[1] = (IF r \in DOMAIN steps[1] THEN steps[1][r].n ELSE 0)
        /\ Awaited(steps, r)[1] = (IF Samples(steps[1], r) THEN 1 + steps[1][r].spec ELSE 0)
        /\ Certain(steps, r)[1] = (IF Samples(steps[1], r) THEN 1 ELSE 0)
        /\ Made(steps, r)[1] = (IF r \in DOMAIN steps[1] THEN steps[1][r].sampled ELSE 0)
  <1>1. Len(steps) \in Nat /\ 1 \in 1 .. Len(steps)
    BY DEF StepsFit
  <1>2. Issued(steps, r)[0] = 0 /\ Issued(steps, r)[1] = (IF r \in DOMAIN steps[1] THEN steps[1][r].n ELSE 0)
    <2>1. Tokens(steps, r) \in Seq(Nat) /\ Len(Tokens(steps, r)) = Len(steps)
      BY WeightsAre
    <2>2. Tokens(steps, r)[1] = IF r \in DOMAIN steps[1] THEN steps[1][r].n ELSE 0
      BY <1>1 DEF Tokens
    <2> QED BY <1>1, <2>1, <2>2, TotalFirst DEF Issued
  <1>3. /\ Awaited(steps, r)[0] = 0
        /\ Awaited(steps, r)[1] = (IF Samples(steps[1], r) THEN 1 + steps[1][r].spec ELSE 0)
    <2>1. Expected(steps, r) \in Seq(Nat) /\ Len(Expected(steps, r)) = Len(steps)
      BY WeightsAre
    <2>2. Expected(steps, r)[1] = IF Samples(steps[1], r) THEN 1 + steps[1][r].spec ELSE 0
      BY <1>1 DEF Expected
    <2> QED BY <1>1, <2>1, <2>2, TotalFirst DEF Awaited
  <1>4. Certain(steps, r)[0] = 0 /\ Certain(steps, r)[1] = (IF Samples(steps[1], r) THEN 1 ELSE 0)
    <2>1. Sampling(steps, r) \in Seq(Nat) /\ Len(Sampling(steps, r)) = Len(steps)
      BY WeightsAre
    <2>2. Sampling(steps, r)[1] = IF Samples(steps[1], r) THEN 1 ELSE 0
      BY <1>1 DEF Sampling
    <2> QED BY <1>1, <2>1, <2>2, TotalFirst DEF Certain
  <1>5. Made(steps, r)[0] = 0 /\ Made(steps, r)[1] = (IF r \in DOMAIN steps[1] THEN steps[1][r].sampled ELSE 0)
    <2>1. Sampled(steps, r) \in Seq(Nat) /\ Len(Sampled(steps, r)) = Len(steps)
      BY WeightsAre
    <2>2. Sampled(steps, r)[1] = IF r \in DOMAIN steps[1] THEN steps[1][r].sampled ELSE 0
      BY <1>1 DEF Sampled
    <2> QED BY <1>1, <2>1, <2>2, TotalFirst DEF Made
  <1> QED BY <1>2, <1>3, <1>4, <1>5

(* Before the first step nothing has been added; one step adds at most one. *)
LEMMA MarksZero ==
  ASSUME NEW steps, StepsFit(steps), NEW r
  PROVE /\ Issued(steps, r)[0] = 0 /\ Awaited(steps, r)[0] = 0
        /\ Certain(steps, r)[0] = 0 /\ Made(steps, r)[0] = 0
        /\ \A i \in 1 .. Len(steps) : Certain(steps, r)[i] <= Certain(steps, r)[i - 1] + 1
  <1>1. /\ Tokens(steps, r) \in Seq(Int) /\ Expected(steps, r) \in Seq(Int)
        /\ Sampling(steps, r) \in Seq(Int) /\ Sampled(steps, r) \in Seq(Int)
        /\ Len(Sampling(steps, r)) = Len(steps)
    <2>1. \A s : s \in Seq(Nat) => s \in Seq(Int)
      OBVIOUS
    <2> QED BY <2>1, WeightsAre
  <1>2. /\ Issued(steps, r)[0] = 0 /\ Awaited(steps, r)[0] = 0
        /\ Certain(steps, r)[0] = 0 /\ Made(steps, r)[0] = 0
    BY <1>1, TotalIs DEF Issued, Awaited, Certain, Made
  <1>3. ASSUME NEW i \in 1 .. Len(steps)
        PROVE Certain(steps, r)[i] <= Certain(steps, r)[i - 1] + 1
    <2>1. PICK c, w : c = Certain(steps, r) /\ w = Sampling(steps, r)
      OBVIOUS
    <2>2. Len(steps) \in Nat
      BY WeightsAre
    <2>3. w[i] = 0 \/ w[i] = 1
      BY <2>1 DEF Sampling
    <2>4. c \in [0 .. Len(steps) -> Int] /\ c[i] = c[i - 1] + w[i]
      BY <1>1, <2>1, TotalIs DEF Certain
    <2>5. i - 1 \in 0 .. Len(steps)
      BY <2>2
    <2>6. c[i - 1] \in Int
      BY <2>4, <2>5
    <2> QED BY <2>1, <2>3, <2>4, <2>6
  <1> QED BY <1>2, <1>3

-----------------------------------------------------------------------------
(* Sequences arranged by an order of their positions                        *)

StrictOrder(I, R) ==
  /\ \A i \in I : <<i, i>> \notin R
  /\ \A i, j, k \in I : <<i, j>> \in R /\ <<j, k>> \in R => <<i, k>> \in R
  /\ \A i, j \in I : i = j \/ <<i, j>> \in R \/ <<j, i>> \in R
Before(I, R, i) == {j \in I : <<j, i>> \in R}
Place(I, R, i) == Cardinality(Before(I, R, i))

LEMMA PlaceType ==
  ASSUME NEW I, IsFiniteSet(I), NEW R, StrictOrder(I, R), NEW i, i \in I
  PROVE Place(I, R, i) \in Nat /\ Place(I, R, i) < Cardinality(I)
  <1>1. PICK L : L = Before(I, R, i)
    OBVIOUS
  <1>2. L \subseteq I /\ i \notin L
    BY <1>1 DEF Before, StrictOrder
  <1>3. IsFiniteSet(L) /\ Cardinality(L) \in Nat /\ Cardinality(L) <= Cardinality(I)
        /\ Cardinality(I) \in Nat
    BY <1>2, FS_Subset, FS_CardinalityType
  <1>4. Cardinality(L) # Cardinality(I)
    BY <1>2, FS_Subset
  <1> QED BY <1>1, <1>3, <1>4 DEF Place

LEMMA PlaceMonotone ==
  ASSUME NEW I, IsFiniteSet(I), NEW R, StrictOrder(I, R), NEW i, i \in I, NEW j, j \in I,
         <<i, j>> \in R
  PROVE Place(I, R, i) < Place(I, R, j)
  <1>1. PICK L, M : L = Before(I, R, i) /\ M = Before(I, R, j)
    OBVIOUS
  <1>2. L \subseteq M /\ i \in M /\ i \notin L /\ M \subseteq I
    BY <1>1 DEF Before, StrictOrder
  <1>3. IsFiniteSet(M) /\ Cardinality(M) \in Nat
    BY <1>2, FS_Subset, FS_CardinalityType
  <1>4. IsFiniteSet(L) /\ Cardinality(L) \in Nat /\ Cardinality(L) <= Cardinality(M)
    BY <1>2, <1>3, FS_Subset, FS_CardinalityType
  <1>5. Cardinality(L) # Cardinality(M)
    BY <1>2, <1>3, FS_Subset
  <1> QED BY <1>1, <1>3, <1>4, <1>5 DEF Place

LEMMA PlaceOne ==
  ASSUME NEW I, IsFiniteSet(I), NEW R, StrictOrder(I, R), NEW i, i \in I, NEW j, j \in I,
         Place(I, R, i) = Place(I, R, j)
  PROVE i = j
  <1>1. ~(Place(I, R, i) < Place(I, R, j)) /\ ~(Place(I, R, j) < Place(I, R, i))
    BY PlaceType
  <1>2. <<i, j>> \notin R /\ <<j, i>> \notin R
    BY <1>1, PlaceMonotone
  <1> QED BY <1>2 DEF StrictOrder

(* The places of n positions are 0 .. n - 1.                                *)
LEMMA PlaceOnto ==
  ASSUME NEW I, IsFiniteSet(I), NEW R, StrictOrder(I, R), NEW k \in 1 .. Cardinality(I)
  PROVE \E i \in I : Place(I, R, i) = k - 1
  <1> DEFINE n == Cardinality(I)
             f == [i \in I |-> Place(I, R, i) + 1]
  <1>1. n \in Nat /\ IsFiniteSet(1 .. n) /\ Cardinality(1 .. n) = n
    BY FS_CardinalityType, FS_Interval
  <1>2. \A i \in I : Place(I, R, i) \in Nat /\ Place(I, R, i) < n
    BY PlaceType
  <1>3. f \in [I -> 1 .. n]
    BY <1>1, <1>2
  <1>4. ASSUME NEW i \in I, NEW j \in I, f[i] = f[j] PROVE i = j
    <2>1. Place(I, R, i) = Place(I, R, j)
      BY <1>2, <1>4
    <2> QED BY <2>1, PlaceOne
  <1>5. f \in Injection(I, 1 .. n)
    BY <1>3, <1>4 DEF Injection, IsInjective
  <1>6. f \in Surjection(I, 1 .. n)
    BY <1>1, <1>5, FS_Injection
  <1>7. PICK i \in I : f[i] = k
    BY <1>6 DEF Surjection
  <1> QED BY <1>2, <1>7

(* The k-th element of p is that of q at the position o[k].                 *)
ArrangedBy(p, q, I, R, o) ==
  /\ o \in [1 .. Len(p) -> I]
  /\ \A k \in 1 .. Len(p) : p[k] = q[o[k]] /\ Place(I, R, o[k]) = k - 1
  /\ \A i \in I : \E k \in 1 .. Len(p) : o[k] = i
  /\ \A k, l \in 1 .. Len(p) : k < l => <<o[k], o[l]>> \in R

LEMMA ArrangedIs ==
  ASSUME NEW q, q \in Seq(Requests), NEW I, I \subseteq 1 .. Len(q), NEW R, StrictOrder(I, R)
  PROVE /\ Arranged(q, I, R) \in Seq(Requests)
        /\ \E o : ArrangedBy(Arranged(q, I, R), q, I, R, o)
  <1>1. PICK p : p = Arranged(q, I, R)
    OBVIOUS
  <1>2. IsFiniteSet(I) /\ Cardinality(I) \in Nat
    <2>1. Len(q) \in Nat
      OBVIOUS
    <2>2. IsFiniteSet(1 .. Len(q))
      BY <2>1, FS_Interval
    <2> QED BY <2>2, FS_Subset, FS_CardinalityType
  <1>3. PICK n \in Nat : n = Cardinality(I)
    BY <1>2
  <1>4. PICK o : o = [k \in 1 .. n |-> CHOOSE i \in I : Place(I, R, i) = k - 1]
    OBVIOUS
  <1>5. ASSUME NEW k \in 1 .. n PROVE o[k] \in I /\ Place(I, R, o[k]) = k - 1
    <2>1. \E i \in I : Place(I, R, i) = k - 1
      BY <1>2, <1>3, PlaceOnto
    <2>2. o[k] = CHOOSE i \in I : Place(I, R, i) = k - 1
      BY <1>4
    <2> QED BY <2>1, <2>2
  <1>6. o \in [1 .. n -> I]
    BY <1>4, <1>5
  <1>7. p = [k \in 1 .. n |-> q[o[k]]]
    <2>1. p = [k \in 1 .. n |-> q[CHOOSE i \in I : Place(I, R, i) = k - 1]]
      BY <1>1, <1>3 DEF Arranged, Place, Before
    <2>2. \A k \in 1 .. n : p[k] = q[o[k]]
      BY <1>4, <2>1
    <2> QED BY <2>1, <2>2
  <1>8. p \in Seq(Requests) /\ Len(p) = n
    <2>1. ASSUME NEW k \in 1 .. n PROVE q[o[k]] \in Requests
      <3>1. o[k] \in 1 .. Len(q)
        BY <1>5
      <3> QED BY <3>1
    <2>2. p \in [1 .. n -> Requests]
      BY <1>7, <2>1
    <2> QED BY <2>2
  <1>9. ASSUME NEW i \in I PROVE \E k \in 1 .. n : o[k] = i
    <2>1. Place(I, R, i) \in Nat /\ Place(I, R, i) < n
      BY <1>2, <1>3, PlaceType
    <2>2. PICK k : k = Place(I, R, i) + 1 /\ k \in 1 .. n
      BY <2>1
    <2>3. Place(I, R, o[k]) = Place(I, R, i) /\ o[k] \in I
      BY <1>5, <2>1, <2>2
    <2>4. o[k] = i
      BY <1>2, <2>3, PlaceOne
    <2> QED BY <2>2, <2>4
  <1>10. ASSUME NEW k \in 1 .. n, NEW l \in 1 .. n, k < l PROVE <<o[k], o[l]>> \in R
    <2>1. o[k] \in I /\ o[l] \in I /\ Place(I, R, o[k]) = k - 1 /\ Place(I, R, o[l]) = l - 1
      BY <1>5
    <2>2. Place(I, R, o[k]) # Place(I, R, o[l]) /\ ~(Place(I, R, o[l]) < Place(I, R, o[k]))
      BY <1>10, <2>1
    <2>3. o[k] # o[l]
      BY <2>2
    <2>4. <<o[l], o[k]>> \notin R
      BY <1>2, <2>1, <2>2, PlaceMonotone
    <2> QED BY <2>1, <2>3, <2>4 DEF StrictOrder
  <1>11. /\ \A k \in 1 .. n : p[k] = q[o[k]] /\ Place(I, R, o[k]) = k - 1
    BY <1>5, <1>7
  <1>12. ArrangedBy(p, q, I, R, o)
    BY <1>6, <1>8, <1>9, <1>10, <1>11 DEF ArrangedBy
  <1> QED BY <1>1, <1>8, <1>12

LEMMA MembersOf ==
  ASSUME NEW V, NEW q, q \in Seq(V)
  PROVE /\ ToSet(q) \subseteq V /\ Len(q) \in Nat
        /\ \A x : x \in ToSet(q) <=> \E i \in 1 .. Len(q) : q[i] = x
  BY DEF ToSet

LEMMA SortedIs ==
  ASSUME NEW q, q \in Seq(Requests)
  PROVE LET p == Sorted(q) IN
        /\ p \in Seq(Requests) /\ ToSet(p) = ToSet(q) /\ Ascending(p)
        /\ Distinct(q) => Distinct(p)
  <1> DEFINE I == 1 .. Len(q)
             first(i, j) == \/ Rank[q[i]] < Rank[q[j]]
                            \/ Rank[q[i]] = Rank[q[j]] /\ i < j
             R == {x \in I \X I : first(x[1], x[2])}
  <1>1. PICK p : p = Sorted(q)
    OBVIOUS
  <1>2. p = Arranged(q, I, R)
    BY <1>1 DEF Sorted
  <1>3. \A i \in I : Rank[q[i]] \in Int
    BY ConstantTypes
  <1>4. \A i, j \in I : <<i, j>> \in R <=> first(i, j)
    OBVIOUS
  <1>5. StrictOrder(I, R)
    <2>1. \A i \in I : <<i, i>> \notin R
      BY <1>3, <1>4
    <2>2. ASSUME NEW i \in I, NEW j \in I, NEW k \in I, <<i, j>> \in R, <<j, k>> \in R
          PROVE <<i, k>> \in R
      <3>1. first(i, j) /\ first(j, k)
        BY <1>4, <2>2
      <3>2. first(i, k)
        BY <1>3, <3>1
      <3> QED BY <1>4, <3>2
    <2>3. ASSUME NEW i \in I, NEW j \in I PROVE i = j \/ <<i, j>> \in R \/ <<j, i>> \in R
      <3>1. i = j \/ first(i, j) \/ first(j, i)
        BY <1>3
      <3> QED BY <1>4, <3>1
    <2> QED BY <2>1, <2>2, <2>3 DEF StrictOrder
  <1>6. p \in Seq(Requests) /\ \E o : ArrangedBy(p, q, I, R, o)
    <2>1. I \subseteq 1 .. Len(q)
      OBVIOUS
    <2> HIDE DEF I, R
    <2> QED BY <1>2, <1>5, <2>1, ArrangedIs
  <1>7. PICK n \in Nat : n = Len(p)
    BY <1>6
  <1>8. PICK o : /\ o \in [1 .. n -> I]
                 /\ \A k \in 1 .. n : p[k] = q[o[k]] /\ Place(I, R, o[k]) = k - 1
                 /\ \A i \in I : \E k \in 1 .. n : o[k] = i
                 /\ \A k, l \in 1 .. n : k < l => <<o[k], o[l]>> \in R
    <2>1. PICK o : ArrangedBy(p, q, I, R, o)
      BY <1>6
    <2> HIDE DEF I, R
    <2> QED BY <1>7, <2>1 DEF ArrangedBy
  <1>9. ToSet(p) = ToSet(q)
    <2>1. \A x : x \in ToSet(p) <=> \E k \in 1 .. n : p[k] = x
      BY <1>6, <1>7, MembersOf
    <2>2. \A x : x \in ToSet(q) <=> \E i \in I : q[i] = x
      BY MembersOf
    <2> HIDE DEF I, R
    <2>3. \A x : x \in ToSet(p) => x \in ToSet(q)
      BY <1>8, <2>1, <2>2
    <2>4. ASSUME NEW x, x \in ToSet(q) PROVE x \in ToSet(p)
      <3>1. PICK i \in I : q[i] = x
        BY <2>2, <2>4
      <3>2. PICK k \in 1 .. n : o[k] = i
        BY <1>8
      <3> QED BY <1>8, <2>1, <3>1, <3>2
    <2> QED BY <2>3, <2>4
  <1>10. Ascending(p)
    <2> SUFFICES ASSUME NEW k \in 1 .. n, NEW l \in 1 .. n, k < l
                 PROVE Rank[p[k]] <= Rank[p[l]]
      BY <1>7 DEF Ascending
    <2>1. <<o[k], o[l]>> \in R /\ o[k] \in I /\ o[l] \in I /\ p[k] = q[o[k]] /\ p[l] = q[o[l]]
      BY <1>8
    <2>2. first(o[k], o[l])
      BY <1>4, <2>1
    <2> QED BY <1>3, <2>1, <2>2, SMTT(30)
  <1>11. ASSUME Distinct(q) PROVE Distinct(p)
    <2> SUFFICES ASSUME NEW k \in 1 .. n, NEW l \in 1 .. n, p[k] = p[l] PROVE k = l
      BY <1>7 DEF Distinct
    <2>1. o[k] \in I /\ o[l] \in I /\ q[o[k]] = q[o[l]]
      BY <1>8
    <2>2. o[k] = o[l]
      BY <1>11, <2>1 DEF Distinct
    <2>3. ~(k < l) /\ ~(l < k)
      <3>1. <<o[k], o[l]>> \notin R /\ <<o[l], o[k]>> \notin R
        BY <1>5, <2>1, <2>2 DEF StrictOrder
      <3> HIDE DEF R
      <3> QED BY <1>8, <3>1
    <2> QED BY <2>3
  <1> QED BY <1>1, <1>6, <1>9, <1>10, <1>11

(* What is left of a queue: the same members in the same order, none of     *)
(* them further back, and further in front of where something has gone.     *)
LEMMA WithoutIs ==
  ASSUME NEW q, q \in Seq(Requests), NEW S
  PROVE LET p == Without(q, S) IN
        /\ p \in Seq(Requests) /\ ToSet(p) = ToSet(q) \ S
        /\ Distinct(q) => Distinct(p)
        /\ Ascending(q) => Ascending(p)
        /\ \A l \in 1 .. Len(p) : \E k \in 1 .. Len(q) :
             /\ p[l] = q[k] /\ l <= k
             /\ \A j \in 1 .. Len(q) : j < k /\ q[j] \in S => l < k
        /\ Distinct(q) =>
             \A l, m \in 1 .. Len(p) : \A i, j \in 1 .. Len(q) :
               l < m /\ p[l] = q[i] /\ p[m] = q[j] => i < j
  <1> DEFINE I == {i \in 1 .. Len(q) : q[i] \notin S}
             R == {x \in I \X I : x[1] < x[2]}
  <1>1. PICK p : p = Without(q, S)
    OBVIOUS
  <1>2. p = Arranged(q, I, R)
    BY <1>1 DEF Without
  <1>3. I \subseteq 1 .. Len(q) /\ \A i \in I : i \in Int
    OBVIOUS
  <1>4. \A i, j \in I : <<i, j>> \in R <=> i < j
    OBVIOUS
  <1>5. StrictOrder(I, R)
    <2> HIDE DEF R, I
    <2>1. \A i \in I : <<i, i>> \notin R
      BY <1>3, <1>4
    <2>2. \A i, j, k \in I : <<i, j>> \in R /\ <<j, k>> \in R => <<i, k>> \in R
      BY <1>3, <1>4
    <2>3. ASSUME NEW i \in I, NEW j \in I PROVE i = j \/ <<i, j>> \in R \/ <<j, i>> \in R
      <3>1. i = j \/ i < j \/ j < i
        BY <1>3
      <3> QED BY <1>4, <3>1
    <2> QED BY <2>1, <2>2, <2>3 DEF StrictOrder
  <1>6. p \in Seq(Requests) /\ \E o : ArrangedBy(p, q, I, R, o)
    <2>1. I \subseteq 1 .. Len(q)
      OBVIOUS
    <2> HIDE DEF I, R
    <2> QED BY <1>2, <1>5, <2>1, ArrangedIs
  <1>7. PICK n \in Nat : n = Len(p)
    BY <1>6
  <1>8. PICK o : /\ o \in [1 .. n -> I]
                 /\ \A k \in 1 .. n : p[k] = q[o[k]] /\ Place(I, R, o[k]) = k - 1
                 /\ \A i \in I : \E k \in 1 .. n : o[k] = i
                 /\ \A k, l \in 1 .. n : k < l => <<o[k], o[l]>> \in R
    <2>1. PICK o : ArrangedBy(p, q, I, R, o)
      BY <1>6
    <2> HIDE DEF I, R
    <2> QED BY <1>7, <2>1 DEF ArrangedBy
  <1>9. ToSet(p) = ToSet(q) \ S
    <2>1. \A x : x \in ToSet(p) <=> \E k \in 1 .. n : p[k] = x
      BY <1>6, <1>7, MembersOf
    <2>2. \A x : x \in ToSet(q) <=> \E i \in 1 .. Len(q) : q[i] = x
      BY MembersOf
    <2>3. ASSUME NEW x, x \in ToSet(p) PROVE x \in ToSet(q) \ S
      <3>1. PICK k \in 1 .. n : p[k] = x
        BY <2>1, <2>3
      <3>2. o[k] \in I /\ q[o[k]] = x
        BY <1>8, <3>1
      <3> QED BY <2>2, <3>2
    <2>4. ASSUME NEW x, x \in ToSet(q), x \notin S PROVE x \in ToSet(p)
      <3>1. PICK i \in I : q[i] = x
        BY <2>2, <2>4
      <3>2. PICK k \in 1 .. n : o[k] = i
        BY <1>8
      <3> QED BY <1>8, <2>1, <3>1, <3>2
    <2> QED BY <2>3, <2>4
  <1>10. ASSUME Ascending(q) PROVE Ascending(p)
    <2> SUFFICES ASSUME NEW k \in 1 .. n, NEW l \in 1 .. n, k < l
                 PROVE Rank[p[k]] <= Rank[p[l]]
      BY <1>7 DEF Ascending
    <2>1. <<o[k], o[l]>> \in R /\ o[k] \in I /\ o[l] \in I /\ p[k] = q[o[k]] /\ p[l] = q[o[l]]
      BY <1>8
    <2>2. o[k] < o[l]
      BY <1>4, <2>1
    <2> QED BY <1>10, <2>1, <2>2 DEF Ascending
  <1>11. ASSUME Distinct(q) PROVE Distinct(p)
    <2> SUFFICES ASSUME NEW k \in 1 .. n, NEW l \in 1 .. n, p[k] = p[l] PROVE k = l
      BY <1>7 DEF Distinct
    <2>1. o[k] \in I /\ o[l] \in I /\ q[o[k]] = q[o[l]]
      BY <1>8
    <2>2. o[k] = o[l]
      BY <1>11, <2>1 DEF Distinct
    <2>3. ~(k < l) /\ ~(l < k)
      <3>1. <<o[k], o[l]>> \notin R /\ <<o[l], o[k]>> \notin R
        BY <1>5, <2>1, <2>2 DEF StrictOrder
      <3> HIDE DEF R, I
      <3> QED BY <1>8, <3>1
    <2> QED BY <2>3
  <1>12. ASSUME NEW l \in 1 .. n
         PROVE \E k \in 1 .. Len(q) :
                 /\ p[l] = q[k] /\ l <= k
                 /\ \A j \in 1 .. Len(q) : j < k /\ q[j] \in S => l < k
    <2>1. PICK k : k = o[l]
      OBVIOUS
    <2>2. k \in I /\ k \in 1 .. Len(q) /\ p[l] = q[k] /\ Place(I, R, k) = l - 1
      BY <1>8, <2>1
    <2>3. PICK B : B = Before(I, R, k)
      OBVIOUS
    <2>4. IsFiniteSet(1 .. k - 1) /\ Cardinality(1 .. k - 1) = k - 1
      <3>1. PICK m \in Int : m = k - 1 /\ m >= 0
        BY <2>2
      <3>2. IsFiniteSet(1 .. m) /\ Cardinality(1 .. m) = m
        BY <3>1, FS_Interval
      <3> QED BY <3>1, <3>2
    <2>5. B \subseteq 1 .. k - 1
      <3> SUFFICES ASSUME NEW j \in B PROVE j \in 1 .. k - 1
        OBVIOUS
      <3>1. j \in I /\ <<j, k>> \in R
        BY <2>3 DEF Before
      <3>2. j \in 1 .. Len(q) /\ j < k
        BY <1>4, <2>2, <3>1
      <3> QED BY <2>2, <3>2
    <2>6. Cardinality(B) \in Nat /\ Cardinality(B) <= k - 1 /\ Cardinality(B) = l - 1
      BY <2>2, <2>3, <2>4, <2>5, FS_Subset, FS_CardinalityType DEF Place
    <2>7. ASSUME NEW j \in 1 .. Len(q), j < k, q[j] \in S PROVE Cardinality(B) # k - 1
      <3>1. j \in 1 .. k - 1 /\ j \notin B
        BY <2>2, <2>3, <2>7 DEF Before
      <3> QED BY <2>4, <2>5, <3>1, FS_Subset
    <2>8. l <= k
      BY <2>2, <2>6
    <2>9. ASSUME NEW j \in 1 .. Len(q), j < k, q[j] \in S PROVE l < k
      BY <2>2, <2>6, <2>7, <2>9
    <2> QED BY <2>2, <2>8, <2>9
  <1>13. ASSUME Distinct(q), NEW l \in 1 .. n, NEW m \in 1 .. n, NEW i \in 1 .. Len(q),
                NEW j \in 1 .. Len(q), l < m, p[l] = q[i], p[m] = q[j]
         PROVE i < j
    <2>1. <<o[l], o[m]>> \in R /\ o[l] \in I /\ o[m] \in I /\ p[l] = q[o[l]] /\ p[m] = q[o[m]]
      BY <1>8, <1>13
    <2>2. o[l] < o[m]
      BY <1>4, <2>1
    <2>3. o[l] = i /\ o[m] = j
      BY <1>3, <1>13, <2>1 DEF Distinct
    <2> QED BY <2>2, <2>3
  <1> QED BY <1>1, <1>6, <1>9, <1>10, <1>11, <1>12, <1>13, <1>7

LEMMA MembersFinite ==
  ASSUME NEW q, q \in Seq(Requests)
  PROVE IsFiniteSet(ToSet(q))
  <1>1. PICK n \in Nat : n = Len(q)
    OBVIOUS
  <1>2. IsFiniteSet(1 .. n)
    BY FS_Interval
  <1>3. q \in Surjection(1 .. n, ToSet(q))
    BY <1>1 DEF Surjection, ToSet
  <1> QED BY <1>2, <1>3, FS_Surjection

(* Queues are joined, extended and shortened.                               *)
LEMMA AppendIs ==
  ASSUME NEW q, q \in Seq(Requests), NEW r, r \in Requests
  PROVE LET p == Append(q, r) IN
        /\ p \in Seq(Requests) /\ ToSet(p) = ToSet(q) \cup {r}
        /\ Distinct(q) /\ r \notin ToSet(q) => Distinct(p)
        /\ Len(p) = Len(q) + 1 /\ p[Len(q) + 1] = r /\ \A i \in 1 .. Len(q) : p[i] = q[i]
  <1>1. PICK p : p = Append(q, r)
    OBVIOUS
  <1>2. PICK n \in Nat : n = Len(q)
    OBVIOUS
  <1>3. p \in Seq(Requests) /\ Len(p) = n + 1 /\ p[n + 1] = r /\ \A i \in 1 .. n : p[i] = q[i]
    BY <1>1, <1>2
  <1>4. \A x : x \in ToSet(p) <=> \E i \in 1 .. n + 1 : p[i] = x
    BY <1>3, MembersOf
  <1>5. \A x : x \in ToSet(q) <=> \E i \in 1 .. n : q[i] = x
    BY <1>2, MembersOf
  <1>6. \A i : i \in 1 .. n + 1 <=> i \in 1 .. n \/ i = n + 1
    OBVIOUS
  <1>7. ToSet(p) = ToSet(q) \cup {r}
    BY <1>3, <1>4, <1>5, <1>6
  <1>8. ASSUME Distinct(q), r \notin ToSet(q) PROVE Distinct(p)
    <2> SUFFICES ASSUME NEW i \in 1 .. n + 1, NEW j \in 1 .. n + 1, p[i] = p[j] PROVE i = j
      BY <1>3 DEF Distinct
    <2>1. CASE i = n + 1
      BY <1>3, <1>5, <1>6, <1>8, <2>1
    <2>2. CASE j = n + 1
      BY <1>3, <1>5, <1>6, <1>8, <2>2
    <2>3. CASE i \in 1 .. n /\ j \in 1 .. n
      BY <1>2, <1>3, <1>8, <2>3 DEF Distinct
    <2> QED BY <1>6, <2>1, <2>2, <2>3
  <1> QED BY <1>1, <1>2, <1>3, <1>7, <1>8

LEMMA ConcatIs ==
  ASSUME NEW s, s \in Seq(Requests), NEW q, q \in Seq(Requests)
  PROVE LET p == s \o q IN
        /\ p \in Seq(Requests) /\ ToSet(p) = ToSet(s) \cup ToSet(q)
        /\ Distinct(s) /\ Distinct(q) /\ Apart(s, q) => Distinct(p)
  <1>1. PICK p : p = s \o q
    OBVIOUS
  <1>2. PICK m \in Nat, n \in Nat : m = Len(s) /\ n = Len(q)
    OBVIOUS
  <1>3. p \in Seq(Requests) /\ Len(p) = m + n
    BY <1>1, <1>2
  <1>4. \A i \in 1 .. m : p[i] = s[i]
    BY <1>1, <1>2
  <1>5. \A i \in 1 .. m + n : i > m => p[i] = q[i - m]
    BY <1>1, <1>2
  <1>6. \A x : x \in ToSet(p) <=> \E i \in 1 .. m + n : p[i] = x
    BY <1>3, MembersOf
  <1>7. \A x : x \in ToSet(s) <=> \E i \in 1 .. m : s[i] = x
    BY <1>2, MembersOf
  <1>8. \A x : x \in ToSet(q) <=> \E i \in 1 .. n : q[i] = x
    BY <1>2, MembersOf
  <1>9. ASSUME NEW i \in 1 .. m + n
        PROVE \/ i \in 1 .. m /\ p[i] = s[i]
              \/ i - m \in 1 .. n /\ p[i] = q[i - m] /\ i > m
    BY <1>4, <1>5
  <1>10. ToSet(p) = ToSet(s) \cup ToSet(q)
    <2>1. ASSUME NEW x, x \in ToSet(p) PROVE x \in ToSet(s) \cup ToSet(q)
      BY <1>6, <1>7, <1>8, <1>9, <2>1
    <2>2. ASSUME NEW x, x \in ToSet(s) PROVE x \in ToSet(p)
      <3>1. PICK i \in 1 .. m : s[i] = x
        BY <1>7, <2>2
      <3>2. i \in 1 .. m + n
        OBVIOUS
      <3> QED BY <1>4, <1>6, <3>1, <3>2
    <2>3. ASSUME NEW x, x \in ToSet(q) PROVE x \in ToSet(p)
      <3>1. PICK i \in 1 .. n : q[i] = x
        BY <1>8, <2>3
      <3>2. PICK j : j = i + m /\ j \in 1 .. m + n /\ j > m /\ j - m = i
        OBVIOUS
      <3> QED BY <1>5, <1>6, <3>1, <3>2
    <2> QED BY <2>1, <2>2, <2>3
  <1>11. ASSUME Distinct(s), Distinct(q), Apart(s, q) PROVE Distinct(p)
    <2>1. \A i \in 1 .. m, j \in 1 .. n : s[i] # q[j]
      BY <1>7, <1>8, <1>11 DEF Apart
    <2> SUFFICES ASSUME NEW i \in 1 .. m + n, NEW j \in 1 .. m + n, p[i] = p[j] PROVE i = j
      BY <1>3 DEF Distinct
    <2>2. CASE i \in 1 .. m /\ j \in 1 .. m
      BY <1>2, <1>4, <1>11, <2>2 DEF Distinct
    <2>3. CASE i > m /\ j > m
      <3>1. i - m \in 1 .. n /\ j - m \in 1 .. n /\ q[i - m] = q[j - m]
        BY <1>9, <2>3
      <3>2. i - m = j - m
        BY <1>2, <1>11, <3>1 DEF Distinct
      <3> QED BY <3>2
    <2>4. CASE i \in 1 .. m /\ j > m
      <3>1. j - m \in 1 .. n /\ s[i] = q[j - m]
        BY <1>9, <2>4
      <3> QED BY <2>1, <2>4, <3>1
    <2>5. CASE j \in 1 .. m /\ i > m
      <3>1. i - m \in 1 .. n /\ s[j] = q[i - m]
        BY <1>9, <2>5
      <3> QED BY <2>1, <2>5, <3>1
    <2> QED BY <2>2, <2>3, <2>4, <2>5
  <1> QED BY <1>1, <1>3, <1>10, <1>11

LEMMA TailIs ==
  ASSUME NEW q, q \in Seq(Requests), q # <<>>, Distinct(q)
  PROVE /\ Head(q) \in ToSet(q) /\ Head(q) \in Requests
        /\ Tail(q) \in Seq(Requests) /\ ToSet(Tail(q)) = ToSet(q) \ {Head(q)}
        /\ Distinct(Tail(q))
        /\ Ascending(q) =>
             Ascending(Tail(q)) /\ \A x \in ToSet(q) : Rank[Head(q)] <= Rank[x]
  <1>1. PICK p : p = Tail(q)
    OBVIOUS
  <1>2. PICK n \in Nat : n = Len(q) /\ n >= 1
    OBVIOUS
  <1>3. p \in Seq(Requests) /\ Len(p) = n - 1 /\ \A i \in 1 .. n - 1 : p[i] = q[i + 1]
    BY <1>1, <1>2
  <1>4. Head(q) = q[1] /\ q[1] \in Requests
    BY <1>2
  <1>5. \A x : x \in ToSet(p) <=> \E i \in 1 .. n - 1 : p[i] = x
    BY <1>3, MembersOf
  <1>6. \A x : x \in ToSet(q) <=> \E i \in 1 .. n : q[i] = x
    BY <1>2, MembersOf
  <1>7. ToSet(p) = ToSet(q) \ {q[1]}
    <2>1. ASSUME NEW x, x \in ToSet(p) PROVE x \in ToSet(q) /\ x # q[1]
      <3>1. PICK i \in 1 .. n - 1 : p[i] = x
        BY <1>5, <2>1
      <3>2. i + 1 \in 1 .. n /\ q[i + 1] = x /\ i + 1 # 1 /\ 1 \in 1 .. n
        BY <1>3, <3>1
      <3> QED BY <1>2, <1>6, <3>2 DEF Distinct
    <2>2. ASSUME NEW x, x \in ToSet(q), x # q[1] PROVE x \in ToSet(p)
      <3>1. PICK i \in 1 .. n : q[i] = x
        BY <1>6, <2>2
      <3>2. PICK j \in 1 .. n - 1 : j + 1 = i
        <4>1. i - 1 \in 1 .. n - 1 /\ (i - 1) + 1 = i
          BY <2>2, <3>1
        <4> QED BY <4>1
      <3> QED BY <1>3, <1>5, <3>1, <3>2
    <2> QED BY <2>1, <2>2
  <1>8. Distinct(p)
    <2> SUFFICES ASSUME NEW i \in 1 .. n - 1, NEW j \in 1 .. n - 1, p[i] = p[j] PROVE i = j
      BY <1>3 DEF Distinct
    <2>1. i + 1 \in 1 .. n /\ j + 1 \in 1 .. n /\ q[i + 1] = q[j + 1]
      BY <1>3
    <2>2. i + 1 = j + 1
      BY <1>2, <2>1 DEF Distinct
    <2> QED BY <2>2
  <1>9. ASSUME Ascending(q) PROVE Ascending(p)
    <2> SUFFICES ASSUME NEW i \in 1 .. n - 1, NEW j \in 1 .. n - 1, i < j
                 PROVE Rank[p[i]] <= Rank[p[j]]
      BY <1>3 DEF Ascending
    <2>1. i + 1 \in 1 .. n /\ j + 1 \in 1 .. n /\ i + 1 < j + 1 /\ p[i] = q[i + 1] /\ p[j] = q[j + 1]
      BY <1>3
    <2> QED BY <1>2, <1>9, <2>1 DEF Ascending
  <1>10. ASSUME Ascending(q), NEW x \in ToSet(q) PROVE Rank[q[1]] <= Rank[x]
    <2>1. PICK i \in 1 .. n : q[i] = x
      BY <1>6
    <2>2. CASE i = 1
      BY <1>4, <2>1, <2>2, ConstantTypes
    <2>3. CASE i > 1
      <3>1. 1 \in 1 .. n /\ 1 < i
        BY <1>2, <2>3
      <3> QED BY <1>2, <1>10, <2>1, <3>1 DEF Ascending
    <2> QED BY <2>2, <2>3
  <1> QED BY <1>1, <1>3, <1>4, <1>6, <1>7, <1>8, <1>9, <1>10

LEMMA EmptyQueue ==
  /\ <<>> \in Seq(Requests) /\ ToSet(<<>>) = {} /\ Distinct(<<>>) /\ Ascending(<<>>)
  /\ Len(<<>>) = 0
  BY DEF ToSet, Distinct, Ascending

LEMMA OneQueue ==
  ASSUME NEW v, v \in Requests
  PROVE <<v>> \in Seq(Requests) /\ ToSet(<<v>>) = {v} /\ Distinct(<<v>>)
  BY DEF ToSet, Distinct

(* add_request and prepend_requests.                                        *)
LEMMA AddIs ==
  ASSUME NEW q, q \in Seq(Requests), NEW r, r \in Requests
  PROVE LET p == add_request(q, r) IN
        /\ p \in Seq(Requests) /\ ToSet(p) = ToSet(q) \cup {r}
        /\ Distinct(q) /\ r \notin ToSet(q) => Distinct(p)
        /\ Policy = "priority" => Ascending(p)
  <1>1. PICK s : s = Append(q, r)
    OBVIOUS
  <1>2. /\ s \in Seq(Requests) /\ ToSet(s) = ToSet(q) \cup {r}
        /\ Distinct(q) /\ r \notin ToSet(q) => Distinct(s)
    BY <1>1, AppendIs
  <1>3. add_request(q, r) = IF Policy = "fcfs" THEN s ELSE Sorted(s)
    BY <1>1 DEF add_request
  <1>4. Sorted(s) \in Seq(Requests) /\ ToSet(Sorted(s)) = ToSet(s) /\ Ascending(Sorted(s))
        /\ (Distinct(s) => Distinct(Sorted(s)))
    BY <1>2, SortedIs
  <1> QED BY <1>2, <1>3, <1>4

LEMMA PrependIs ==
  ASSUME NEW q, q \in Seq(Requests), NEW s, s \in Seq(Requests)
  PROVE LET p == prepend_requests(q, s) IN
        /\ p \in Seq(Requests) /\ ToSet(p) = ToSet(q) \cup ToSet(s)
        /\ Distinct(q) /\ Distinct(s) /\ Apart(q, s) => Distinct(p)
        /\ Policy = "priority" => Ascending(p)
  <1>1. PICK c : c = s \o q
    OBVIOUS
  <1>2. /\ c \in Seq(Requests) /\ ToSet(c) = ToSet(q) \cup ToSet(s)
        /\ Distinct(q) /\ Distinct(s) /\ Apart(q, s) => Distinct(c)
    BY <1>1, ConcatIs DEF Apart
  <1>3. prepend_requests(q, s) = IF Policy = "fcfs" THEN c ELSE Sorted(c)
    BY <1>1 DEF prepend_requests
  <1>4. Sorted(c) \in Seq(Requests) /\ ToSet(Sorted(c)) = ToSet(c) /\ Ascending(Sorted(c))
        /\ (Distinct(c) => Distinct(Sorted(c)))
    BY <1>2, SortedIs
  <1> QED BY <1>2, <1>3, <1>4

(* A victim is one of the running requests.                                 *)
LEMMA VictimIs ==
  ASSUME running \in Seq(Requests), running # <<>>
  PROVE Victim \in ToSet(running) /\ Victim \in Requests
  <1>1. PICK n \in Nat : n = Len(running) /\ n >= 1
    OBVIOUS
  <1>2. \A x : x \in ToSet(running) <=> \E i \in 1 .. n : running[i] = x
    BY <1>1, MembersOf
  <1>3. ToSet(running) \subseteq Requests
    BY MembersOf
  <1>4. CASE Policy = "fcfs"
    <2>1. Victim = running[n]
      BY <1>1, <1>4 DEF Victim, Last
    <2> QED BY <1>1, <1>2, <1>3, <2>1
  <1>5. CASE Policy # "fcfs"
    <2>1. PICK s : s = Sorted(running)
      OBVIOUS
    <2>2. s \in Seq(Requests) /\ ToSet(s) = ToSet(running) /\ Ascending(s)
      BY <2>1, SortedIs
    <2>3. PICK m \in Nat : m = Len(s)
      BY <2>2
    <2>4. \A x : x \in ToSet(s) <=> \E i \in 1 .. m : s[i] = x
      BY <2>2, <2>3, MembersOf
    <2>5. m >= 1
      <3>1. 1 \in 1 .. n
        BY <1>1
      <3>2. running[1] \in ToSet(s)
        BY <1>2, <2>2, <3>1
      <3> QED BY <2>4, <3>2
    <2>6. s[m] \in ToSet(running)
      BY <2>2, <2>4, <2>5
    <2>7. ASSUME NEW q \in ToSet(running) PROVE Rank[q] <= Rank[s[m]]
      <3>1. PICK i \in 1 .. m : s[i] = q
        BY <2>2, <2>4
      <3>2. CASE i = m
        BY <1>3, <3>1, <3>2, ConstantTypes
      <3>3. CASE i < m
        BY <2>3, <2>5, <3>1, <3>3, <2>2 DEF Ascending
      <3> QED BY <3>2, <3>3
    <2>8. Victim = CHOOSE v \in ToSet(running) : \A q \in ToSet(running) : Rank[q] <= Rank[v]
      BY <1>5 DEF Victim
    <2> QED BY <1>3, <2>6, <2>7, <2>8
  <1> QED BY <1>4, <1>5

-----------------------------------------------------------------------------
(* The budget of a pass                                                     *)

Cells(f) == UNION {{r} \X (1 .. f[r].n) : r \in DOMAIN f}

LEMMA CellsAre ==
  ASSUME NEW f, NEW c
  PROVE c \in Cells(f) <=> \E r \in DOMAIN f : \E k \in 1 .. f[r].n : c = <<r, k>>
  BY DEF Cells

LEMMA SpentType ==
  ASSUME NEW f, IsFiniteSet(DOMAIN f), NEW b, b \in Nat,
         \A r \in DOMAIN f : f[r].n \in Nat /\ f[r].n <= b
  PROVE IsFiniteSet(Cells(f)) /\ Spent(f) \in Nat /\ Spent(f) = Cardinality(Cells(f))
  <1>1. IsFiniteSet((DOMAIN f) \X (1 .. b))
    <2>1. IsFiniteSet(1 .. b)
      BY FS_Interval
    <2> QED BY <2>1, FS_Product
  <1>2. Cells(f) \subseteq (DOMAIN f) \X (1 .. b)
    <2> SUFFICES ASSUME NEW c \in Cells(f) PROVE c \in (DOMAIN f) \X (1 .. b)
      OBVIOUS
    <2>1. PICK r \in DOMAIN f : \E k \in 1 .. f[r].n : c = <<r, k>>
      BY CellsAre
    <2>2. PICK k \in 1 .. f[r].n : c = <<r, k>>
      BY <2>1
    <2>3. k \in 1 .. b
      <3>1. f[r].n \in Nat /\ f[r].n <= b
        OBVIOUS
      <3> QED BY <3>1
    <2> QED BY <2>1, <2>2, <2>3
  <1> QED BY <1>1, <1>2, FS_Subset, FS_CardinalityType DEF Spent, Cells

(* f is g without r.                                                        *)
LEMMA SpentWithout ==
  ASSUME NEW f, NEW g, NEW r, r \in DOMAIN g, DOMAIN f = DOMAIN g \ {r},
         IsFiniteSet(DOMAIN g), \A q \in DOMAIN f : f[q].n = g[q].n,
         NEW b, b \in Nat, \A q \in DOMAIN g : g[q].n \in Nat /\ g[q].n <= b
  PROVE Spent(f) \in Nat /\ Spent(g) = Spent(f) + g[r].n
  <1> DEFINE X == {r} \X (1 .. g[r].n)
  <1>1. IsFiniteSet(DOMAIN f) /\ \A q \in DOMAIN f : f[q].n \in Nat /\ f[q].n <= b
    BY FS_Subset
  <1>2. IsFiniteSet(Cells(f)) /\ Spent(f) \in Nat /\ Spent(f) = Cardinality(Cells(f))
    BY <1>1, SpentType
  <1>3. Spent(g) = Cardinality(Cells(g))
    BY SpentType
  <1>4. IsFiniteSet(X) /\ Cardinality(X) = g[r].n
    <2>1. PICK n \in Nat : n = g[r].n
      OBVIOUS
    <2>2. IsFiniteSet(1 .. n) /\ Cardinality(1 .. n) = n
      BY FS_Interval
    <2>3. IsFiniteSet({r}) /\ Cardinality({r}) = 1
      BY FS_Singleton
    <2>4. IsFiniteSet({r} \X (1 .. n)) /\ Cardinality({r} \X (1 .. n)) = Cardinality({r}) * Cardinality(1 .. n)
      BY <2>2, <2>3, FS_Product
    <2>5. Cardinality({r} \X (1 .. n)) = n
      BY <2>2, <2>3, <2>4
    <2> QED BY <2>1, <2>4, <2>5
  <1>5. Cells(g) = Cells(f) \cup X
    <2>1. ASSUME NEW c, c \in Cells(g) PROVE c \in Cells(f) \cup X
      <3>1. PICK q \in DOMAIN g : \E k \in 1 .. g[q].n : c = <<q, k>>
        BY <2>1, CellsAre
      <3>2. CASE q = r
        BY <3>1, <3>2
      <3>3. CASE q # r
        <4>1. q \in DOMAIN f /\ f[q].n = g[q].n
          BY <3>3
        <4> QED BY <3>1, <4>1, CellsAre
      <3> QED BY <3>2, <3>3
    <2>2. ASSUME NEW c, c \in Cells(f) PROVE c \in Cells(g)
      <3>1. PICK q \in DOMAIN f : \E k \in 1 .. f[q].n : c = <<q, k>>
        BY <2>2, CellsAre
      <3>2. q \in DOMAIN g /\ f[q].n = g[q].n
        OBVIOUS
      <3> QED BY <3>1, <3>2, CellsAre
    <2>3. ASSUME NEW c, c \in X PROVE c \in Cells(g)
      <3>1. \E k \in 1 .. g[r].n : c = <<r, k>>
        BY <2>3
      <3> QED BY <3>1, CellsAre
    <2> QED BY <2>1, <2>2, <2>3
  <1>6. Cells(f) \cap X = {}
    <2> SUFFICES ASSUME NEW c, c \in Cells(f), c \in X PROVE FALSE
      OBVIOUS
    <2>1. PICK q \in DOMAIN f : \E k \in 1 .. f[q].n : c = <<q, k>>
      BY CellsAre
    <2>2. q = r
      BY <2>1
    <2> QED BY <2>2
  <1>7. Cardinality(Cells(f) \cap X) = 0
    BY <1>6, FS_EmptySet
  <1> HIDE DEF X
  <1>8. Cardinality(Cells(f) \cup X) = Cardinality(Cells(f)) + Cardinality(X) - Cardinality(Cells(f) \cap X)
    BY <1>2, <1>4, FS_Union
  <1> QED BY <1>2, <1>3, <1>4, <1>5, <1>7, <1>8

LEMMA SpentNone ==
  ASSUME NEW f, DOMAIN f = {}
  PROVE Spent(f) = 0
  <1>1. Cells(f) = {}
    BY CellsAre
  <1> QED BY <1>1, FS_EmptySet DEF Spent, Cells

LEMMA PutIs ==
  ASSUME NEW f, f \in Grants, NEW r, r \in Requests, NEW v, v \in GrantType
  PROVE /\ Put(f, r, v) \in Grants
        /\ DOMAIN Put(f, r, v) = DOMAIN f \cup {r}
  <1>1. PICK D \in SUBSET Requests : f \in [D -> GrantType]
    BY DEF Grants
  <1>2. Put(f, r, v) \in [D \cup {r} -> GrantType]
    BY <1>1 DEF Put
  <1>3. D \cup {r} \in SUBSET Requests
    OBVIOUS
  <1> QED BY <1>1, <1>2, <1>3 DEF Grants, Put

LEMMA PutAt ==
  ASSUME NEW f, f \in Grants, NEW r, r \in Requests, NEW v, v \in GrantType
  PROVE Put(f, r, v)[r] = v
  BY DEF Put

LEMMA PutElse ==
  ASSUME NEW f, f \in Grants, NEW r, r \in Requests, NEW v, v \in GrantType,
         NEW q, q \in DOMAIN f, q # r
  PROVE Put(f, r, v)[q] = f[q]
  BY DEF Put

LEMMA DropIs ==
  ASSUME NEW f, f \in Grants, NEW r
  PROVE /\ Drop(f, r) \in Grants
        /\ DOMAIN Drop(f, r) = DOMAIN f \ {r}
  <1>1. PICK D \in SUBSET Requests : f \in [D -> GrantType]
    BY DEF Grants
  <1>2. Drop(f, r) \in [D \ {r} -> GrantType]
    BY <1>1 DEF Drop
  <1>3. D \ {r} \in SUBSET Requests
    OBVIOUS
  <1> QED BY <1>1, <1>2, <1>3 DEF Grants, Drop

LEMMA DropElse ==
  ASSUME NEW f, f \in Grants, NEW r, NEW q, q \in DOMAIN f, q # r
  PROVE Drop(f, r)[q] = f[q]
  BY DEF Drop

LEMMA GrantIs ==
  ASSUME NEW f, f \in Grants
  PROVE /\ DOMAIN f \subseteq Requests /\ f \in [DOMAIN f -> GrantType]
        /\ \A r \in DOMAIN f : f[r].n \in Int /\ f[r].spec \in Int /\ f[r].resumed \in BOOLEAN
  <1>1. PICK D \in SUBSET Requests : f \in [D -> GrantType]
    BY DEF Grants
  <1>2. DOMAIN f = D
    BY <1>1
  <1>3. \A r \in D : f[r] \in GrantType
    BY <1>1
  <1> QED BY <1>1, <1>2, <1>3 DEF GrantType

LEMMA NoGrants == <<>> \in Grants /\ DOMAIN <<>> = {}
  <1>1. <<>> \in [{} -> GrantType]
    OBVIOUS
  <1> QED BY <1>1 DEF Grants

-----------------------------------------------------------------------------
(* What the operations do to the fields of a request                        *)

(* Everything but status, grammar, blocks and drafts.                       *)
SameCounts(p, q) ==
  /\ p.num_tokens = q.num_tokens /\ p.num_computed_tokens = q.num_computed_tokens
  /\ p.num_output_placeholders = q.num_output_placeholders
  /\ p.num_in_flight_tokens = q.num_in_flight_tokens
  /\ p.num_stale_output_tokens = q.num_stale_output_tokens
  /\ p.drop_stale_output = q.drop_stale_output
  /\ p.next_decode_eligible_step = q.next_decode_eligible_step
  /\ p.worker_len = q.worker_len /\ p.delivered = q.delivered

LEMMA RequestFields ==
  ASSUME NEW q, q \in RequestType
  PROVE /\ q.status \in Statuses /\ q.num_tokens \in Int /\ q.num_computed_tokens \in Int
        /\ q.num_output_placeholders \in Int /\ q.num_in_flight_tokens \in Int
        /\ q.num_stale_output_tokens \in Int /\ q.drop_stale_output \in BOOLEAN
        /\ q.spec_token_ids \in Nat /\ q.spec_token_ids <= NumSpecTokens
        /\ q.next_decode_eligible_step \in Nat
        /\ q.num_blocks \in Int /\ q.worker_len \in Int /\ q.delivered \in Seq(Int)
  BY ConstantTypes DEF RequestType

LEMMA StatusSet ==
  ASSUME NEW q, q \in RequestType, NEW s, s \in Statuses
  PROVE LET p == [q EXCEPT !.status = s] IN
        /\ p \in RequestType /\ SameCounts(p, q)
        /\ p.status = s /\ p.num_blocks = q.num_blocks /\ p.spec_token_ids = q.spec_token_ids
  BY DEF RequestType, SameCounts

LEMMA GrammarSet ==
  ASSUME NEW q, q \in RequestType, NEW g, g \in {"pending", "ready", "error", "reported"}
  PROVE LET p == [q EXCEPT !.grammar = g] IN
        /\ p \in RequestType /\ SameCounts(p, q)
        /\ p.status = q.status /\ p.num_blocks = q.num_blocks /\ p.spec_token_ids = q.spec_token_ids
  BY DEF RequestType, SameCounts

LEMMA FinishedSet ==
  ASSUME NEW q, q \in RequestType
  PROVE /\ Finished(q) \in RequestType /\ SameCounts(Finished(q), q)
        /\ Finished(q).status = "FINISHED" /\ Finished(q).num_blocks = 0
        /\ Finished(q).spec_token_ids = q.spec_token_ids
  <1>1. "FINISHED" \in Statuses /\ 0 \in Int
    BY DEF Statuses
  <1>2. Finished(q) = [q EXCEPT !.status = "FINISHED", !.num_blocks = 0]
    BY DEF Finished
  <1> QED BY <1>1, <1>2 DEF RequestType, SameCounts

LEMMA EligibleSet ==
  ASSUME NEW q, q \in RequestType, NEW e, e \in Nat
  PROVE LET p == [q EXCEPT !.next_decode_eligible_step = e] IN
        /\ p \in RequestType /\ p.next_decode_eligible_step = e
        /\ p.num_tokens = q.num_tokens /\ p.num_computed_tokens = q.num_computed_tokens
        /\ p.num_output_placeholders = q.num_output_placeholders
        /\ p.num_in_flight_tokens = q.num_in_flight_tokens
        /\ p.num_stale_output_tokens = q.num_stale_output_tokens
        /\ p.drop_stale_output = q.drop_stale_output
        /\ p.worker_len = q.worker_len /\ p.delivered = q.delivered
        /\ p.status = q.status /\ p.num_blocks = q.num_blocks /\ p.spec_token_ids = q.spec_token_ids
  BY DEF RequestType

LEMMA PreemptSet ==
  ASSUME NEW q, q \in RequestType, NEW drop, drop \in BOOLEAN
  PROVE LET p == _preempt_request(q, drop) IN
        /\ p \in RequestType /\ p.status = "PREEMPTED"
        /\ p.num_tokens = q.num_tokens /\ p.num_computed_tokens = 0
        /\ p.num_output_placeholders = 0
        /\ p.num_in_flight_tokens = q.num_in_flight_tokens
        /\ p.num_stale_output_tokens = q.num_in_flight_tokens
        /\ p.drop_stale_output <=> drop \/ (q.drop_stale_output /\ q.num_stale_output_tokens > 0)
        /\ p.next_decode_eligible_step = q.next_decode_eligible_step
        /\ p.worker_len = q.worker_len /\ p.delivered = q.delivered
        /\ p.num_blocks = 0 /\ p.spec_token_ids = 0
  <1>1. PICK d \in BOOLEAN : d = drop_on_preempt(q, drop)
    BY DEF drop_on_preempt
  <1>2. d <=> drop \/ (q.drop_stale_output /\ q.num_stale_output_tokens > 0)
    BY <1>1 DEF drop_on_preempt
  <1>3. _preempt_request(q, drop) =
          [q EXCEPT !.status = "PREEMPTED", !.num_computed_tokens = 0, !.spec_token_ids = 0,
                    !.drop_stale_output = d,
                    !.num_stale_output_tokens = q.num_in_flight_tokens,
                    !.num_output_placeholders = 0, !.num_blocks = 0]
    BY <1>1 DEF _preempt_request, stale_on_preempt
  <1>4. 0 \in 0 .. NumSpecTokens
    BY ConstantTypes
  <1>5. "PREEMPTED" \in Statuses /\ q.num_in_flight_tokens \in Int
    BY DEF Statuses, RequestType
  <1>6. PICK p : p = _preempt_request(q, drop)
    OBVIOUS
  <1>7. p \in RequestType
    <2>1. PICK w, z : w = q.num_in_flight_tokens /\ w \in Int /\ z = 0 /\ z \in Int
                      /\ z \in 0 .. NumSpecTokens
      BY <1>4, <1>5
    <2>2. d \in BOOLEAN
      OBVIOUS
    <2>3. [q EXCEPT !.status = "PREEMPTED", !.num_computed_tokens = z, !.spec_token_ids = z,
                    !.drop_stale_output = d, !.num_stale_output_tokens = w,
                    !.num_output_placeholders = z, !.num_blocks = z] \in RequestType
      BY <1>5, <2>1, <2>2, ZenonT(60) DEF RequestType
    <2> QED BY <1>3, <1>6, <2>1, <2>3
  <1>8. /\ p.status = "PREEMPTED"
        /\ p.num_tokens = q.num_tokens /\ p.num_computed_tokens = 0
        /\ p.num_output_placeholders = 0
        /\ p.num_in_flight_tokens = q.num_in_flight_tokens
        /\ p.num_stale_output_tokens = q.num_in_flight_tokens
        /\ p.drop_stale_output = d
        /\ p.next_decode_eligible_step = q.next_decode_eligible_step
        /\ p.worker_len = q.worker_len /\ p.delivered = q.delivered
        /\ p.num_blocks = 0 /\ p.spec_token_ids = 0
    BY <1>3, <1>6 DEF RequestType
  <1> QED BY <1>2, <1>6, <1>7, <1>8

LEMMA LowerIs ==
  ASSUME NEW a, a \in Int, NEW b, b \in Int
  PROVE /\ Lower(a, b) \in Int /\ Lower(a, b) <= a /\ Lower(a, b) <= b
        /\ Lower(a, b) = a \/ Lower(a, b) = b
  BY DEF Lower

LEMMA NewTokensIs ==
  ASSUME NEW r, NEW q, q = req[r], q \in RequestType, pass.token_budget \in Int
  PROVE /\ num_new_tokens(r) \in Int
        /\ num_new_tokens(r) # 0 =>
             LET left == q.num_tokens + q.spec_token_ids + q.num_output_placeholders
                           - q.num_computed_tokens
             IN /\ ~AtMaxTokens(q, r) /\ q.next_decode_eligible_step = 0
                /\ num_new_tokens(r) = Lower(Lower(left, pass.token_budget),
                                             MaxModelLen - q.num_computed_tokens - 1)
  <1>1. PICK left : left = q.num_tokens + q.spec_token_ids + q.num_output_placeholders
                             - q.num_computed_tokens
    OBVIOUS
  <1>2. left \in Int /\ MaxModelLen - q.num_computed_tokens - 1 \in Int
        /\ q.next_decode_eligible_step \in Nat
    BY <1>1, RequestFields, ConstantTypes
  <1>3. PICK m : m = Lower(Lower(left, pass.token_budget), MaxModelLen - q.num_computed_tokens - 1)
    OBVIOUS
  <1>4. m \in Int
    BY <1>2, <1>3, LowerIs
  <1>5. num_new_tokens(r) = IF AtMaxTokens(q, r) \/ q.next_decode_eligible_step > 0 THEN 0 ELSE m
    BY <1>1, <1>3 DEF num_new_tokens
  <1> QED BY <1>1, <1>2, <1>3, <1>4, <1>5

LEMMA BlocksForType ==
  ASSUME NEW r \in Requests, req[r].num_blocks \in Int, NEW c \in Int, NEW n \in Int
  PROVE /\ BlocksFor(r, c, n) \in Int
        /\ req[r].num_blocks >= 0 => BlocksFor(r, c, n) >= 0
  <1>1. PICK need : need = Lower(c + n + NumLookaheadTokens, MaxModelLen)
    OBVIOUS
  <1>2. need \in Int
    BY <1>1, ConstantTypes DEF Lower
  <1>3. BlocksFor(r, c, n) = IF cdiv(need, BlockSize) > req[r].num_blocks THEN cdiv(need, BlockSize)
                             ELSE req[r].num_blocks
    BY <1>1 DEF BlocksFor
  <1>4. cdiv(need, BlockSize) \in Int
    BY <1>2, ConstantTypes DEF cdiv
  <1> QED BY <1>3, <1>4

IssueFields(q, c, i, k, h, s, e, w) ==
  [q EXCEPT !.num_computed_tokens = c, !.num_in_flight_tokens = i, !.is_prefill_chunk = k,
            !.num_output_placeholders = h, !.spec_token_ids = s,
            !.next_decode_eligible_step = e, !.worker_len = w]

AfterIssue(q, p, c, i, h, e, w) ==
  /\ p \in RequestType
  /\ p.num_computed_tokens = c /\ p.num_in_flight_tokens = i
  /\ p.num_output_placeholders = h
  /\ p.next_decode_eligible_step = e /\ p.worker_len = w
  /\ p.status = q.status /\ p.num_tokens = q.num_tokens /\ p.num_blocks = q.num_blocks
  /\ p.num_stale_output_tokens = q.num_stale_output_tokens
  /\ p.drop_stale_output = q.drop_stale_output /\ p.delivered = q.delivered

LEMMA IssueSet ==
  ASSUME NEW q, q \in RequestType, NEW c, c \in Int, NEW i, i \in Int, NEW k, k \in BOOLEAN,
         NEW h, h \in Int, NEW s, s \in 0 .. NumSpecTokens, NEW e, e \in Nat, NEW w, w \in Int,
         NEW p, p = IssueFields(q, c, i, k, h, s, e, w)
  PROVE AfterIssue(q, p, c, i, h, e, w)
  <1>1. [q EXCEPT !.num_computed_tokens = c, !.num_in_flight_tokens = i, !.is_prefill_chunk = k,
            !.num_output_placeholders = h, !.spec_token_ids = s,
            !.next_decode_eligible_step = e, !.worker_len = w] \in RequestType
    BY DEF RequestType
  <1>2. p = [q EXCEPT !.num_computed_tokens = c, !.num_in_flight_tokens = i, !.is_prefill_chunk = k,
            !.num_output_placeholders = h, !.spec_token_ids = s,
            !.next_decode_eligible_step = e, !.worker_len = w]
    BY DEF IssueFields
  <1> QED BY <1>1, <1>2 DEF RequestType, AfterIssue

OutputFields(q, i, s, c, h, n, d) ==
  [q EXCEPT !.num_in_flight_tokens = i, !.num_stale_output_tokens = s,
            !.num_computed_tokens = c, !.num_output_placeholders = h,
            !.num_tokens = n, !.delivered = d]

AfterOutput(q, p, i, s, c, h, n, d) ==
  /\ p \in RequestType
  /\ p.num_in_flight_tokens = i /\ p.num_stale_output_tokens = s
  /\ p.num_computed_tokens = c /\ p.num_output_placeholders = h
  /\ p.num_tokens = n /\ p.delivered = d
  /\ p.status = q.status /\ p.num_blocks = q.num_blocks
  /\ p.worker_len = q.worker_len
  /\ p.next_decode_eligible_step = q.next_decode_eligible_step
  /\ p.drop_stale_output = q.drop_stale_output

LEMMA OutputSet ==
  ASSUME NEW q, q \in RequestType, NEW i, i \in Int, NEW s, s \in Int, NEW c, c \in Int,
         NEW h, h \in Int, NEW n, n \in Int, NEW d, d \in Seq(Int),
         NEW p, p = OutputFields(q, i, s, c, h, n, d)
  PROVE AfterOutput(q, p, i, s, c, h, n, d)
  <1>1. [q EXCEPT !.num_in_flight_tokens = i, !.num_stale_output_tokens = s,
            !.num_computed_tokens = c, !.num_output_placeholders = h,
            !.num_tokens = n, !.delivered = d] \in RequestType
    BY DEF RequestType
  <1>2. p = [q EXCEPT !.num_in_flight_tokens = i, !.num_stale_output_tokens = s,
            !.num_computed_tokens = c, !.num_output_placeholders = h,
            !.num_tokens = n, !.delivered = d]
    BY DEF OutputFields
  <1> QED BY <1>1, <1>2 DEF RequestType, AfterOutput

-----------------------------------------------------------------------------
(* Queues and places: every action preserves Base                           *)

LEMMA PassFields ==
  ASSUME NEW p, p \in PassType
  PROVE /\ p.phase \in Phases /\ p.req_index \in Int /\ p.token_budget \in Int
        /\ p.cur \in {<<>>} \cup (Requests \X Int) /\ p.sched \in Grants
        /\ p.preempted \in BOOLEAN /\ p.prefill \in BOOLEAN /\ p.skipped \in Seq(Requests)
  BY DEF PassType

LEMMA IdleIs ==
  /\ IdlePass \in PassType /\ IdlePass.phase = "idle" /\ IdlePass.req_index = 1
  /\ IdlePass.sched = <<>> /\ IdlePass.skipped = <<>> /\ IdlePass.token_budget = 0
  <1>1. /\ <<>> \in Grants /\ <<>> \in Seq(Requests) /\ <<>> \in {<<>>} \cup (Requests \X Int)
        /\ FALSE \in BOOLEAN /\ "idle" \in Phases
    BY NoGrants DEF Phases
  <1>2. PICK z, o : z = 0 /\ o = 1 /\ z \in Int /\ o \in Int
    OBVIOUS
  <1>3. IdlePass = [phase |-> "idle", req_index |-> o, token_budget |-> z, cur |-> <<>>,
             sched |-> <<>>, preempted |-> FALSE, prefill |-> FALSE, skipped |-> <<>>]
    BY <1>2 DEF IdlePass
  <1>4. IdlePass \in PassType
    BY <1>1, <1>2, <1>3 DEF PassType
  <1> QED BY <1>4 DEF IdlePass

LEMMA BaseInit ==
  ASSUME Init
  PROVE Base
  <1>1. ASSUME NEW r \in Requests PROVE req[r] \in RequestType
    <2>1. PICK z, m : z = 0 /\ z \in Int /\ z \in Nat /\ z \in 0 .. NumSpecTokens
                      /\ m = NumPrompt[r] /\ m \in Int
      BY ConstantTypes
    <2>2. "NEW" \in Statuses /\ FALSE \in BOOLEAN /\ <<>> \in Seq(Int)
          /\ "pending" \in {"pending", "ready", "error", "reported"}
      BY DEF Statuses
    <2>3. req[r] = [status |-> "NEW", num_tokens |-> m, num_computed_tokens |-> z,
        num_output_placeholders |-> z, num_in_flight_tokens |-> z,
        num_stale_output_tokens |-> z, drop_stale_output |-> FALSE,
        spec_token_ids |-> z, is_prefill_chunk |-> FALSE, grammar |-> "pending",
        next_decode_eligible_step |-> z, num_blocks |-> z, worker_len |-> z, delivered |-> <<>>]
      BY <2>1 DEF Init
    <2> QED BY <2>1, <2>2, <2>3 DEF RequestType
  <1>2. \A r \in Requests : req[r].status = "NEW" /\ req[r].num_blocks = 0
    BY DEF Init
  <1>3. Types
    <2>1. req \in [Requests -> RequestType]
      BY <1>1 DEF Init
    <2>2. batch_queue \in Seq(Steps) /\ Len(batch_queue) = 0
      BY DEF Init
    <2> QED BY <2>1, <2>2, IdleIs, EmptyQueue, ConstantTypes DEF Types, Init
  <1>4. QueuesOK
    BY <1>2, IdleIs, EmptyQueue DEF QueuesOK, Init, Apart, Blocked
  <1>5. PassOK
    BY IdleIs, NoGrants DEF PassOK, Init, InPass
  <1> QED BY <1>3, <1>4, <1>5, EmptyQueue DEF Base, Init

LEMMA AddBase ==
  ASSUME Base, NEW r \in Requests, add_new_request(r)
  PROVE Base'
  <1> USE DEF Base, Types
  <1>1. PICK s : s = IF r \in Structured THEN "WAITING_FOR_STRUCTURED_OUTPUT_GRAMMAR" ELSE "WAITING"
    OBVIOUS
  <1>2. s \in Statuses /\ s \notin {"NEW", "RUNNING", "FINISHED"}
    BY <1>1 DEF Statuses
  <1>3. PICK p : p = [req[r] EXCEPT !.status = s]
    OBVIOUS
  <1>4. p \in RequestType /\ p.status = s /\ p.num_blocks = req[r].num_blocks
    BY <1>2, <1>3, StatusSet
  <1>5. req' = [req EXCEPT ![r] = p]
    BY <1>1, <1>3 DEF add_new_request
  <1>6. /\ req' \in [Requests -> RequestType] /\ req'[r] = p
        /\ \A q \in Requests : q # r => req'[q] = req[q]
    BY <1>4, <1>5
  <1>7. /\ running' = running /\ batch_queue' = batch_queue /\ pass' = pass
        /\ pass.phase = "idle" /\ req[r].status = "NEW"
    BY DEF add_new_request
  <1>8. r \notin ToSet(running) \cup ToSet(waiting) \cup ToSet(skipped_waiting)
        /\ pass.skipped = <<>> /\ ToSet(pass.skipped) = {}
    BY <1>7, EmptyQueue DEF QueuesOK
  <1>9. PICK a : a = IF r \in Structured THEN skipped_waiting ELSE waiting
    OBVIOUS
  <1>10. a \in Seq(Requests) /\ Distinct(a) /\ r \notin ToSet(a)
    BY <1>8, <1>9 DEF QueuesOK
  <1>11. PICK b : b = add_request(a, r)
    OBVIOUS
  <1>12. b \in Seq(Requests) /\ ToSet(b) = ToSet(a) \cup {r} /\ Distinct(b)
         /\ (Policy = "priority" => Ascending(b))
    BY <1>10, <1>11, AddIs
  <1>13. IF r \in Structured THEN skipped_waiting' = b /\ waiting' = waiting
                             ELSE waiting' = b /\ skipped_waiting' = skipped_waiting
    BY <1>9, <1>11 DEF add_new_request
  <1>14. Types'
    BY <1>6, <1>7, <1>12, <1>13
  <1>15. QueuesOK'
    <2>1. /\ Distinct(waiting') /\ Distinct(skipped_waiting')
          /\ Apart(waiting', skipped_waiting')
      <3>1. CASE r \in Structured
        BY <1>8, <1>9, <1>12, <1>13, <3>1 DEF QueuesOK, Apart
      <3>2. CASE r \notin Structured
        BY <1>8, <1>9, <1>12, <1>13, <3>2 DEF QueuesOK, Apart
      <3> QED BY <3>1, <3>2
    <2>2. ToSet(waiting') \cup ToSet(skipped_waiting') = ToSet(waiting) \cup ToSet(skipped_waiting) \cup {r}
      BY <1>9, <1>12, <1>13
    <2>3. \A q \in Requests : Blocked(q)' => q \in ToSet(skipped_waiting')
      BY <1>1, <1>4, <1>6, <1>8, <1>9, <1>12, <1>13 DEF QueuesOK, Blocked
    <2> QED BY <1>2, <1>4, <1>6, <1>7, <1>8, <2>1, <2>2, <2>3, SMTT(30) DEF QueuesOK, Apart
  <1>16. PassOK'
    BY <1>7 DEF PassOK, InPass
  <1> QED BY <1>9, <1>12, <1>13, <1>14, <1>15, <1>16

LEMMA GrammarBase ==
  ASSUME Base, NEW r \in Requests, NEW outcome \in {"ready", "error"}, GrammarCompiled(r, outcome)
  PROVE Base'
  <1> USE DEF Base, Types
  <1>1. PICK p : p = [req[r] EXCEPT !.grammar = outcome]
    OBVIOUS
  <1>2. p \in RequestType /\ p.status = req[r].status /\ p.num_blocks = req[r].num_blocks
    BY <1>1, GrammarSet
  <1>3. req' = [req EXCEPT ![r] = p]
    BY <1>1 DEF GrammarCompiled
  <1>4. req' \in [Requests -> RequestType]
        /\ \A q \in Requests : req'[q].status = req[q].status /\ req'[q].num_blocks = req[q].num_blocks
    BY <1>2, <1>3
  <1>5. UNCHANGED <<waiting, skipped_waiting, running, batch_queue, pass>>
    BY DEF GrammarCompiled
  <1>6. QueuesOK'
    BY <1>4, <1>5 DEF QueuesOK, Blocked
  <1>7. PassOK'
    BY <1>5 DEF PassOK, InPass
  <1> QED BY <1>4, <1>5, <1>6, <1>7

(* Requests leave the queues.                                               *)
LEMMA LeaveQueues ==
  ASSUME Base, ~InPass, NEW S, RemoveFromQueues(S), S \subseteq Requests,
         req' \in [Requests -> RequestType],
         \A q \in S : req'[q].status = "FINISHED" /\ req'[q].num_blocks = 0,
         \A q \in Requests : q \notin S => /\ req'[q].status = req[q].status
                                           /\ req'[q].num_blocks = req[q].num_blocks,
         pass' \in PassType, pass'.phase \in {"idle", "updating"},
         pass'.sched = pass.sched, pass'.skipped = pass.skipped
  PROVE /\ waiting' \in Seq(Requests) /\ skipped_waiting' \in Seq(Requests)
        /\ running' \in Seq(Requests)
        /\ QueuesOK' /\ PassOK'
        /\ Policy = "priority" => Ascending(waiting') /\ Ascending(skipped_waiting')
  <1> USE DEF Base, Types
  <1>1. /\ running' \in Seq(Requests) /\ ToSet(running') = ToSet(running) \ S
        /\ Distinct(running')
    BY WithoutIs DEF RemoveFromQueues, QueuesOK
  <1>2. /\ waiting' \in Seq(Requests) /\ ToSet(waiting') = ToSet(waiting) \ S
        /\ Distinct(waiting') /\ (Ascending(waiting) => Ascending(waiting'))
    BY WithoutIs DEF RemoveFromQueues, QueuesOK
  <1>3. /\ skipped_waiting' \in Seq(Requests) /\ ToSet(skipped_waiting') = ToSet(skipped_waiting) \ S
        /\ Distinct(skipped_waiting') /\ (Ascending(skipped_waiting) => Ascending(skipped_waiting'))
    BY WithoutIs DEF RemoveFromQueues, QueuesOK
  <1>4. pass.skipped = <<>> /\ ToSet(pass.skipped) = {} /\ pass'.skipped = <<>>
    <2>1. pass.phase # "waiting"
      BY DEF InPass
    <2> QED BY <2>1, EmptyQueue DEF QueuesOK
  <1>5. QueuesOK'
    <2>1. /\ Distinct(pass'.skipped)
          /\ Apart(waiting', skipped_waiting') /\ Apart(waiting', pass'.skipped)
          /\ Apart(skipped_waiting', pass'.skipped)
      BY <1>2, <1>3, <1>4, EmptyQueue DEF QueuesOK, Apart
    <2>2. ASSUME NEW q \in Requests
          PROVE /\ q \in ToSet(running') <=> req'[q].status = "RUNNING"
                /\ q \in ToSet(waiting') \cup ToSet(skipped_waiting') \cup ToSet(pass'.skipped)
                     <=> req'[q].status \notin {"NEW", "RUNNING", "FINISHED"}
                /\ Blocked(q)' => q \in ToSet(skipped_waiting') \cup ToSet(pass'.skipped)
                /\ req'[q].status # "RUNNING" => req'[q].num_blocks = 0
      <3>1. CASE q \in S
        BY <1>1, <1>2, <1>3, <1>4, <3>1, EmptyQueue DEF QueuesOK, Blocked
      <3>2. CASE q \notin S
        BY <1>1, <1>2, <1>3, <1>4, <3>2, EmptyQueue DEF QueuesOK, Blocked
      <3> QED BY <3>1, <3>2
    <2> QED BY <1>1, <1>2, <1>3, <1>4, <2>1, <2>2 DEF QueuesOK
  <1>6. PassOK'
    <2>1. DOMAIN pass'.sched = {}
      BY DEF PassOK
    <2> QED BY <2>1 DEF PassOK, InPass
  <1> QED BY <1>1, <1>2, <1>3, <1>5, <1>6

LEMMA FinishBase ==
  ASSUME Base, NEW r \in Requests, finish_requests(r)
  PROVE Base'
  <1> USE DEF Base, Types
  <1>1. /\ ~InPass /\ pass' = pass /\ batch_queue' = batch_queue /\ RemoveFromQueues({r})
        /\ r \in Unfinished
    BY DEF finish_requests, InPass
  <1>2. PICK p : p = Finished(req[r])
    OBVIOUS
  <1>3. p \in RequestType /\ p.status = "FINISHED" /\ p.num_blocks = 0
    BY <1>2, FinishedSet
  <1>4. req' = [req EXCEPT ![r] = p]
    BY <1>2 DEF finish_requests
  <1>5. /\ req' \in [Requests -> RequestType] /\ req'[r] = p
        /\ \A q \in Requests : q # r => req'[q] = req[q]
    BY <1>3, <1>4
  <1>6. /\ \A q \in {r} : req'[q].status = "FINISHED" /\ req'[q].num_blocks = 0
        /\ \A q \in Requests : q \notin {r} => /\ req'[q].status = req[q].status
                                              /\ req'[q].num_blocks = req[q].num_blocks
    BY <1>3, <1>5
  <1>7. pass.phase \in {"idle", "updating"}
    BY DEF finish_requests
  <1>8. /\ waiting' \in Seq(Requests) /\ skipped_waiting' \in Seq(Requests)
        /\ running' \in Seq(Requests)
        /\ QueuesOK' /\ PassOK'
        /\ Policy = "priority" => Ascending(waiting') /\ Ascending(skipped_waiting')
    <2>1. {r} \subseteq Requests /\ pass' \in PassType /\ pass'.phase \in {"idle", "updating"}
          /\ pass'.sched = pass.sched /\ pass'.skipped = pass.skipped
      BY <1>1, <1>7
    <2> QED BY <1>1, <1>5, <1>6, <2>1, LeaveQueues
  <1>9. Types'
    BY <1>1, <1>5, <1>8
  <1> QED BY <1>8, <1>9

LEMMA ResetBase ==
  ASSUME Base, reset_prefix_cache
  PROVE Base'
  <1> USE DEF Base, Types
  <1>1. /\ pass' = pass /\ pass.phase = "idle" /\ batch_queue' = batch_queue
        /\ skipped_waiting' = skipped_waiting /\ running' = <<>>
        /\ waiting' = prepend_requests(waiting, running)
    BY DEF reset_prefix_cache
  <1>2. ASSUME NEW q \in Requests
        PROVE /\ req'[q] \in RequestType
              /\ q \in ToSet(running) => req'[q].status = "PREEMPTED" /\ req'[q].num_blocks = 0
              /\ q \notin ToSet(running) => req'[q] = req[q]
    <2>1. req[q] \in RequestType /\ TRUE \in BOOLEAN
      OBVIOUS
    <2>2. req'[q] = IF q \in ToSet(running) THEN _preempt_request(req[q], TRUE) ELSE req[q]
      BY DEF reset_prefix_cache
    <2>3. /\ _preempt_request(req[q], TRUE) \in RequestType
          /\ _preempt_request(req[q], TRUE).status = "PREEMPTED"
          /\ _preempt_request(req[q], TRUE).num_blocks = 0
      BY <2>1, PreemptSet
    <2> QED BY <2>1, <2>2, <2>3
  <1>3. req' \in [Requests -> RequestType]
    BY <1>2 DEF reset_prefix_cache
  <1>4. Apart(waiting, running)
    BY MembersOf DEF QueuesOK, Apart
  <1>5. /\ waiting' \in Seq(Requests) /\ ToSet(waiting') = ToSet(waiting) \cup ToSet(running)
        /\ Distinct(waiting') /\ (Policy = "priority" => Ascending(waiting'))
    BY <1>1, <1>4, PrependIs DEF QueuesOK
  <1>6. Types'
    BY <1>1, <1>3, <1>5, EmptyQueue
  <1>7. QueuesOK'
    <2>1. ToSet(running') = {} /\ Distinct(running') /\ pass.skipped = <<>> /\ ToSet(pass.skipped) = {}
      BY <1>1, EmptyQueue DEF QueuesOK
    <2>2. Apart(waiting', skipped_waiting') /\ Apart(waiting', pass'.skipped)
      BY <1>1, <1>5, <2>1, MembersOf DEF QueuesOK, Apart
    <2>3. ASSUME NEW q \in Requests
          PROVE /\ q \in ToSet(running') <=> req'[q].status = "RUNNING"
                /\ q \in ToSet(waiting') \cup ToSet(skipped_waiting') \cup ToSet(pass'.skipped)
                     <=> req'[q].status \notin {"NEW", "RUNNING", "FINISHED"}
                /\ Blocked(q)' => q \in ToSet(skipped_waiting') \cup ToSet(pass'.skipped)
                /\ req'[q].status # "RUNNING" => req'[q].num_blocks = 0
      <3>1. CASE q \in ToSet(running)
        BY <1>1, <1>2, <1>5, <2>1, <3>1 DEF QueuesOK, Blocked
      <3>2. CASE q \notin ToSet(running)
        BY <1>1, <1>2, <1>5, <2>1, <3>2 DEF QueuesOK, Blocked
      <3> QED BY <3>1, <3>2
    <2> QED BY <1>1, <1>5, <2>1, <2>2, <2>3 DEF QueuesOK
  <1>8. PassOK'
    <2>1. DOMAIN pass.sched = {}
      BY <1>1 DEF PassOK, InPass
    <2> QED BY <1>1, <2>1 DEF PassOK, InPass
  <1> QED BY <1>1, <1>5, <1>6, <1>7, <1>8

LEMMA BeginBase ==
  ASSUME Base, BeginSchedule
  PROVE Base'
  <1> USE DEF Base, Types
  <1>1. /\ pass.phase = "idle"
        /\ UNCHANGED <<waiting, skipped_waiting, running, batch_queue>>
    BY DEF BeginSchedule
  <1>2. /\ pass' \in PassType /\ pass'.phase = "running" /\ pass'.sched = <<>>
        /\ pass'.skipped = <<>> /\ pass'.req_index = 1
    <2>1. "running" \in Phases /\ MaxNumScheduledTokens \in Int
      BY ConstantTypes DEF Phases
    <2>2. PICK b : b = MaxNumScheduledTokens /\ b \in Int
      BY <2>1
    <2>3. pass' = [IdlePass EXCEPT !.phase = "running", !.token_budget = b]
      BY <2>2 DEF BeginSchedule
    <2> QED BY <2>1, <2>2, <2>3, IdleIs DEF PassType
  <1>3. ASSUME NEW q \in Requests
        PROVE /\ req'[q] \in RequestType
              /\ req'[q].status = req[q].status /\ req'[q].num_blocks = req[q].num_blocks
    <2>1. req[q] \in RequestType
      OBVIOUS
    <2>2. PICK e : /\ e = IF req[q].next_decode_eligible_step = 0 THEN 0
                           ELSE req[q].next_decode_eligible_step - 1
                   /\ e \in Nat
      BY <2>1, RequestFields
    <2>3. PICK u : u = req[q]
      OBVIOUS
    <2>4. req'[q] = [u EXCEPT !.next_decode_eligible_step = e]
      BY <2>1, <2>2, <2>3 DEF BeginSchedule, RequestType
    <2>5. u \in RequestType /\ e \in Nat
      BY <2>1, <2>2, <2>3
    <2>6. PICK p : p = [u EXCEPT !.next_decode_eligible_step = e]
      OBVIOUS
    <2>7. p \in RequestType /\ p.status = u.status /\ p.num_blocks = u.num_blocks
      BY <2>5, <2>6, EligibleSet
    <2> QED BY <2>3, <2>4, <2>6, <2>7
  <1>4. req' \in [Requests -> RequestType]
    BY <1>3 DEF BeginSchedule
  <1>5. pass.skipped = <<>>
    BY <1>1 DEF QueuesOK
  <1>6. QueuesOK'
    BY <1>1, <1>2, <1>3, <1>5 DEF QueuesOK, Blocked
  <1>7. PassOK'
    BY <1>2, NoGrants DEF PassOK, InPass
  <1> QED BY <1>1, <1>2, <1>4, <1>6, <1>7

LEMMA SkipRunningBase ==
  ASSUME Base, SkipRunning
  PROVE Base'
  <1> USE DEF Base, Types
  <1>1. /\ UNCHANGED <<req, waiting, skipped_waiting, running, batch_queue>>
        /\ pass.phase = "running"
    BY DEF SkipRunning, InRunningLoop
  <1>2. /\ pass' \in PassType /\ pass'.phase = "running" /\ pass'.sched = pass.sched
        /\ pass'.skipped = pass.skipped /\ pass'.req_index = pass.req_index + 1
    <2>1. PICK i : i = pass.req_index + 1 /\ i \in Int
      BY PassFields
    <2>2. pass' = [pass EXCEPT !.req_index = i]
      BY <2>1 DEF SkipRunning
    <2> QED BY <1>1, <2>1, <2>2 DEF PassType
  <1>3. QueuesOK'
    BY <1>1, <1>2 DEF QueuesOK, Blocked
  <1>4. PassOK'
    <2>1. pass.req_index \in Int /\ pass.req_index >= 1
      BY <1>1, PassFields DEF PassOK
    <2> QED BY <1>1, <1>2, <2>1 DEF PassOK, InPass
  <1> QED BY <1>1, <1>2, <1>3, <1>4

LEMMA PickRunningBase ==
  ASSUME Base, PickRunning
  PROVE Base'
  <1> USE DEF Base, Types
  <1> DEFINE r == running[pass.req_index]
             n == num_new_tokens(r)
  <1>1. /\ UNCHANGED <<req, waiting, skipped_waiting, running, batch_queue>>
        /\ pass.phase = "running" /\ pass.req_index <= Len(running)
    BY DEF PickRunning, InRunningLoop
  <1>2. pass.req_index \in 1 .. Len(running)
    BY <1>1, PassFields DEF PassOK
  <1>3. r \in Requests
    BY <1>2
  <1>4. n \in Int
    <2>1. req[r] \in RequestType
      BY <1>3
    <2>2. pass.token_budget \in Int
      BY PassFields
    <2> HIDE DEF r
    <2> QED BY <2>1, <2>2, NewTokensIs
  <1>5. /\ pass' \in PassType /\ pass'.phase = "allocating" /\ pass'.sched = pass.sched
        /\ pass'.skipped = pass.skipped /\ pass'.req_index = pass.req_index
        /\ pass'.cur = <<r, n>>
    <2> HIDE DEF r, n
    <2>1. <<r, n>> \in Requests \X Int
      BY <1>3, <1>4
    <2>2. PICK c : c = <<r, n>> /\ c \in {<<>>} \cup (Requests \X Int)
      BY <2>1
    <2>3. "allocating" \in Phases
      BY DEF Phases
    <2>4. pass' = [pass EXCEPT !.phase = "allocating", !.cur = c]
      BY <2>2 DEF PickRunning, r, n
    <2> QED BY <2>2, <2>3, <2>4 DEF PassType
  <1>6. QueuesOK'
    BY <1>1, <1>5 DEF QueuesOK, Blocked
  <1>7. PassOK'
    <2>1. /\ pass.req_index <= pass.req_index
          /\ \A i \in pass.req_index .. Len(running) : running[i] \notin DOMAIN pass.sched
      BY <1>1, PassFields DEF PassOK
    <2>2. pass'.cur \in Requests \X Int /\ pass'.cur[1] = r
      BY <1>3, <1>4, <1>5
    <2> QED BY <1>1, <1>2, <1>5, <2>1, <2>2 DEF PassOK, InPass
  <1> QED BY <1>1, <1>5, <1>6, <1>7

LEMMA EndRunningBase ==
  ASSUME Base, EndRunning
  PROVE Base'
  <1> USE DEF Base, Types
  <1>1. /\ UNCHANGED <<req, waiting, skipped_waiting, running, batch_queue>>
        /\ pass.phase = "running"
    BY DEF EndRunning
  <1>2. /\ pass' \in PassType /\ pass'.phase \in {"closing", "waiting"} /\ pass'.sched = pass.sched
        /\ pass'.skipped = pass.skipped
    <2>1. PICK f : f = (IF pass.preempted THEN "closing" ELSE "waiting") /\ f \in Phases
                   /\ f \in {"closing", "waiting"}
      BY DEF Phases
    <2>2. pass' = [pass EXCEPT !.phase = f]
      BY <2>1 DEF EndRunning
    <2> QED BY <2>1, <2>2 DEF PassType
  <1>3. QueuesOK'
    BY <1>1, <1>2 DEF QueuesOK, Blocked
  <1>4. PassOK'
    BY <1>1, <1>2 DEF PassOK, InPass
  <1> QED BY <1>1, <1>2, <1>3, <1>4

(* One request changes its record, and no queue changes.                    *)
LEMMA ReplaceRequest ==
  ASSUME NEW r, r \in Requests, NEW p, p \in RequestType,
         req \in [Requests -> RequestType], req' = [req EXCEPT ![r] = p]
  PROVE /\ req' \in [Requests -> RequestType] /\ req'[r] = p
        /\ \A q \in Requests : q # r => req'[q] = req[q]
  OBVIOUS

LEMMA CurrentIs ==
  ASSUME Base, pass.phase = "allocating"
  PROVE /\ pass.cur \in Requests \X Int /\ pass.cur[1] \in Requests /\ pass.cur[2] \in Int
        /\ req[pass.cur[1]] \in RequestType
        /\ pass.cur[1] \notin DOMAIN pass.sched /\ pass.cur[1] \in ToSet(running)
        /\ req[pass.cur[1]].status = "RUNNING"
  <1> USE DEF Base, Types
  <1>1. pass.cur \in Requests \X Int
    BY DEF PassOK
  <1>2. pass.cur[1] \in Requests /\ pass.cur[2] \in Int
    BY <1>1
  <1>3. PICK p \in 1 .. Len(running) :
          /\ running[p] = pass.cur[1]
          /\ \A i \in p .. Len(running) : running[i] \notin DOMAIN pass.sched
    BY DEF PassOK
  <1>4. pass.cur[1] \notin DOMAIN pass.sched
    BY <1>3
  <1>5. pass.cur[1] \in ToSet(running)
    BY <1>3, MembersOf
  <1>6. req[pass.cur[1]].status = "RUNNING"
    BY <1>2, <1>5 DEF QueuesOK
  <1> QED BY <1>1, <1>2, <1>4, <1>5, <1>6

(* What ScheduleRunning makes of the record and of the pass.                *)
LEMMA ScheduleRunningIs ==
  ASSUME Base, ScheduleRunning, NEW r, r = pass.cur[1], NEW n, n = pass.cur[2],
         NEW q, q = req[r]
  PROVE /\ UNCHANGED <<waiting, skipped_waiting, running, batch_queue>>
        /\ pass.phase = "allocating"
        /\ req' \in [Requests -> RequestType]
        /\ \A x \in Requests : x # r => req'[x] = req[x]
        /\ SameCounts(req'[r], q) /\ req'[r].status = q.status /\ req'[r].spec_token_ids = 0
        /\ q.num_blocks >= 0 => req'[r].num_blocks >= 0
        /\ pass' \in PassType /\ pass'.phase = "running" /\ pass'.skipped = pass.skipped
        /\ pass'.req_index = pass.req_index + 1 /\ pass'.token_budget = pass.token_budget - n
        /\ DOMAIN pass'.sched = DOMAIN pass.sched \cup {r}
        /\ pass'.sched[r] =
             [n |-> n,
              spec |-> IF q.spec_token_ids > 0 /\ Drafts(q, n) > 0 THEN Drafts(q, n) ELSE 0,
              resumed |-> FALSE]
        /\ \A x \in DOMAIN pass.sched : x # r => pass'.sched[x] = pass.sched[x]
  <1>1. req \in [Requests -> RequestType] /\ pass \in PassType
    BY DEF Base, Types
  <1>2. /\ UNCHANGED <<waiting, skipped_waiting, running, batch_queue>>
        /\ pass.phase = "allocating"
    BY DEF ScheduleRunning
  <1>3. r \in Requests /\ n \in Int /\ q \in RequestType
    BY <1>2, CurrentIs
  <1>4. /\ q.num_computed_tokens \in Int /\ q.num_tokens \in Int
        /\ q.num_output_placeholders \in Int /\ q.num_blocks \in Int /\ q.spec_token_ids \in Nat
    BY <1>3, RequestFields
  <1>5. PICK b : b = BlocksFor(r, q.num_computed_tokens, n)
    OBVIOUS
  <1>6. b \in Int /\ (q.num_blocks >= 0 => b >= 0)
    BY <1>3, <1>4, <1>5, BlocksForType
  <1>7. PICK z : z = 0 /\ z \in 0 .. NumSpecTokens
    BY ConstantTypes
  <1>8. PICK p : p = [q EXCEPT !.num_blocks = b, !.spec_token_ids = z]
    OBVIOUS
  <1>9. /\ p \in RequestType /\ SameCounts(p, q) /\ p.status = q.status /\ p.num_blocks = b
        /\ p.spec_token_ids = z
    <2>1. [q EXCEPT !.num_blocks = b, !.spec_token_ids = z] \in RequestType
      BY <1>3, <1>6, <1>7 DEF RequestType
    <2> QED BY <1>3, <1>8, <2>1 DEF RequestType, SameCounts
  <1>10. req' = [req EXCEPT ![r] = p]
    <2>1. req' = [req EXCEPT ![r].num_blocks = b, ![r].spec_token_ids = z]
      BY <1>5, <1>7 DEF ScheduleRunning
    <2> QED BY <1>1, <1>3, <1>8, <2>1
  <1>11. /\ req' \in [Requests -> RequestType] /\ req'[r] = p
         /\ \A x \in Requests : x # r => req'[x] = req[x]
    BY <1>1, <1>3, <1>9, <1>10, ReplaceRequest
  <1>12. PICK d : d = Drafts(q, n)
    OBVIOUS
  <1>13. d = n + q.num_computed_tokens - q.num_tokens - q.num_output_placeholders /\ d \in Int
    BY <1>3, <1>4, <1>12 DEF Drafts
  <1>14. PICK s : s = (IF q.spec_token_ids > 0 /\ d > 0 THEN d ELSE 0) /\ s \in Int
    BY <1>13
  <1>15. PICK g : g = [n |-> n, spec |-> s, resumed |-> FALSE]
    OBVIOUS
  <1>16. g \in GrantType
    BY <1>3, <1>14, <1>15 DEF GrantType
  <1>17. PICK s0 : s0 = pass.sched /\ s0 \in Grants
    BY <1>1, PassFields
  <1>18. PICK f : f = Put(s0, r, g)
    OBVIOUS
  <1>19. /\ f \in Grants /\ DOMAIN f = DOMAIN pass.sched \cup {r} /\ f[r] = g
         /\ \A x \in DOMAIN pass.sched : x # r => f[x] = pass.sched[x]
    <2>1. /\ f \in Grants /\ DOMAIN f = DOMAIN s0 \cup {r} /\ f[r] = g
          /\ \A x \in DOMAIN s0 : x # r => f[x] = s0[x]
      <3>1. Put(s0, r, g) \in Grants
        BY <1>3, <1>16, <1>17, PutIs
      <3>2. DOMAIN Put(s0, r, g) = DOMAIN s0 \cup {r}
        BY <1>3, <1>16, <1>17, PutIs
      <3>3. Put(s0, r, g)[r] = g
        BY <1>3, <1>16, <1>17, PutAt
      <3>4. \A x \in DOMAIN s0 : x # r => Put(s0, r, g)[x] = s0[x]
        BY <1>3, <1>16, <1>17, PutElse
      <3> QED BY <1>18, <3>1, <3>2, <3>3, <3>4
    <2> QED BY <1>17, <2>1
  <1>20. /\ pass' \in PassType /\ pass'.phase = "running" /\ pass'.skipped = pass.skipped
         /\ pass'.req_index = pass.req_index + 1 /\ pass'.token_budget = pass.token_budget - n
         /\ pass'.sched = f
    <2>1. PICK i, t, c, w : /\ i = pass.req_index + 1 /\ t = pass.token_budget - n
                            /\ c = <<>> /\ w = (pass.prefill \/ q.is_prefill_chunk)
                            /\ i \in Int /\ t \in Int /\ c \in {<<>>} \cup (Requests \X Int)
                            /\ w \in BOOLEAN
      <3>1. pass.req_index + 1 \in Int /\ pass.token_budget - n \in Int
        BY <1>1, <1>3, PassFields
      <3>2. (pass.prefill \/ q.is_prefill_chunk) \in BOOLEAN
        BY SMTT(30)
      <3> QED BY <3>1, <3>2
    <2>2. pass' = [pass EXCEPT !.phase = "running", !.cur = c, !.req_index = i,
                               !.token_budget = t, !.prefill = w, !.sched = f]
      <3>1. f = Put(pass.sched, r, [n |-> n, spec |-> s, resumed |-> FALSE])
        BY <1>15, <1>18, <1>17
      <3> QED BY <1>13, <1>14, <2>1, <3>1 DEF ScheduleRunning
    <2>3. "running" \in Phases
      BY DEF Phases
    <2> QED BY <1>1, <1>19, <2>1, <2>2, <2>3, ZenonT(60) DEF PassType
  <1> QED BY <1>2, <1>7, <1>6, <1>9, <1>11, <1>12, <1>14, <1>15, <1>19, <1>20

LEMMA ScheduleRunningBase ==
  ASSUME Base, ScheduleRunning
  PROVE Base'
  <1>1. PICK r, n, q : r = pass.cur[1] /\ n = pass.cur[2] /\ q = req[r]
    OBVIOUS
  <1>2. /\ UNCHANGED <<waiting, skipped_waiting, running, batch_queue>>
        /\ pass.phase = "allocating"
        /\ req' \in [Requests -> RequestType]
        /\ \A x \in Requests : x # r => req'[x] = req[x]
        /\ req'[r].status = q.status
        /\ pass' \in PassType /\ pass'.phase = "running" /\ pass'.skipped = pass.skipped
        /\ pass'.req_index = pass.req_index + 1
        /\ DOMAIN pass'.sched = DOMAIN pass.sched \cup {r}
    BY <1>1, ScheduleRunningIs, ZenonT(60)
  <1> USE DEF Base, Types
  <1>3. r \in Requests /\ r \in ToSet(running) /\ q.status = "RUNNING"
    BY <1>1, <1>2, CurrentIs
  <1>4. QueuesOK'
    BY <1>1, <1>2, <1>3 DEF QueuesOK, Blocked
  <1>5. PassOK'
    <2>1. PICK p \in 1 .. Len(running) :
            /\ p <= pass.req_index /\ running[p] = pass.cur[1]
            /\ \A i \in p .. Len(running) : running[i] \notin DOMAIN pass.sched
      BY <1>2 DEF PassOK
    <2>2. pass.req_index \in Int /\ pass.req_index >= 1
      BY <1>2, PassFields DEF PassOK
    <2>3. ASSUME NEW i \in pass'.req_index .. Len(running') PROVE running'[i] \notin DOMAIN pass'.sched
      <3>1. i \in p .. Len(running) /\ i # p /\ i \in 1 .. Len(running)
        BY <1>2, <2>1, <2>2, <2>3
      <3>2. running[i] # running[p]
        BY <3>1 DEF QueuesOK, Distinct
      <3> QED BY <1>1, <1>2, <2>1, <3>1, <3>2
    <2> QED BY <1>2, <1>3, <2>2, <2>3 DEF PassOK, InPass
  <1> QED BY <1>2, <1>4, <1>5

(* What PreemptForBlocks makes of the record and of the pass.               *)
LEMMA PreemptIs ==
  ASSUME Base, PreemptForBlocks, NEW v, v = Victim, NEW r, r = pass.cur[1]
  PROVE /\ pass.phase = "allocating" /\ v \in ToSet(running) /\ v \in Requests
        /\ UNCHANGED <<skipped_waiting, batch_queue>>
        /\ running' = Without(running, {v}) /\ waiting' = prepend_requests(waiting, <<v>>)
        /\ req' \in [Requests -> RequestType]
        /\ req'[v] = _preempt_request(req[v], RequiresKvDelivery)
        /\ \A x \in Requests : x # v => req'[x] = req[x]
        /\ pass' \in PassType /\ pass'.skipped = pass.skipped
        /\ pass'.phase = (IF v = r THEN "closing" ELSE "allocating")
        /\ v # r => pass'.cur = pass.cur
        /\ IF v \in DOMAIN pass.sched
           THEN /\ pass'.sched = Drop(pass.sched, v) /\ pass'.req_index = pass.req_index - 1
                /\ pass'.token_budget = pass.token_budget + pass.sched[v].n
           ELSE /\ pass'.sched = pass.sched /\ pass'.req_index = pass.req_index
                /\ pass'.token_budget = pass.token_budget
  <1>1. /\ req \in [Requests -> RequestType] /\ pass \in PassType /\ running \in Seq(Requests)
        /\ RequiresKvDelivery \in BOOLEAN
    BY SchedulerAssumption DEF Base, Types
  <1>2. /\ pass.phase = "allocating"
        /\ UNCHANGED <<skipped_waiting, batch_queue>>
        /\ running' = Without(running, {v}) /\ waiting' = prepend_requests(waiting, <<v>>)
    BY DEF PreemptForBlocks
  <1>3. v \in ToSet(running) /\ v \in Requests
    <2>1. r \in ToSet(running)
      BY <1>2, CurrentIs
    <2>2. running # <<>>
      BY <2>1, EmptyQueue
    <2> QED BY <1>1, <2>2, VictimIs
  <1>4. PICK p : p = _preempt_request(req[v], RequiresKvDelivery)
    OBVIOUS
  <1>5. p \in RequestType
    <2>1. req[v] \in RequestType
      BY <1>1, <1>3
    <2> QED BY <1>1, <1>4, <2>1, PreemptSet
  <1>6. req' = [req EXCEPT ![v] = p]
    BY <1>4 DEF PreemptForBlocks
  <1>7. /\ req' \in [Requests -> RequestType] /\ req'[v] = p
        /\ \A x \in Requests : x # v => req'[x] = req[x]
    BY <1>1, <1>3, <1>5, <1>6, ReplaceRequest
  <1>8. /\ pass.req_index \in Int /\ pass.token_budget \in Int /\ pass.sched \in Grants
        /\ pass.cur \in {<<>>} \cup (Requests \X Int) /\ pass.skipped \in Seq(Requests)
    BY <1>1, PassFields
  <1>9. PICK f, c, t : /\ f = (IF v = r THEN "closing" ELSE "allocating")
                       /\ c = (IF v = r THEN <<>> ELSE pass.cur) /\ t = TRUE
                       /\ f \in Phases /\ c \in {<<>>} \cup (Requests \X Int) /\ t \in BOOLEAN
    BY <1>8 DEF Phases
  <1>10. /\ pass' \in PassType /\ pass'.skipped = pass.skipped
         /\ pass'.phase = f /\ pass'.cur = c
         /\ IF v \in DOMAIN pass.sched
            THEN /\ pass'.sched = Drop(pass.sched, v) /\ pass'.req_index = pass.req_index - 1
                 /\ pass'.token_budget = pass.token_budget + pass.sched[v].n
            ELSE /\ pass'.sched = pass.sched /\ pass'.req_index = pass.req_index
                 /\ pass'.token_budget = pass.token_budget
    <2>1. CASE v \in DOMAIN pass.sched
      <3>1. pass.sched[v].n \in Int
        BY <1>8, <2>1, GrantIs
      <3>2. PICK s, i, b : /\ s = Drop(pass.sched, v) /\ i = pass.req_index - 1
                           /\ b = pass.token_budget + pass.sched[v].n
                           /\ s \in Grants /\ i \in Int /\ b \in Int
        <4>1. Drop(pass.sched, v) \in Grants
          BY <1>8, DropIs
        <4>2. pass.req_index - 1 \in Int /\ pass.token_budget + pass.sched[v].n \in Int
          BY <1>8, <3>1
        <4> QED BY <4>1, <4>2
      <3>3. Unscheduled(pass, v) = [pass EXCEPT !.sched = s, !.req_index = i, !.token_budget = b]
        BY <3>2 DEF Unscheduled
      <3>4. PICK u : u = [pass EXCEPT !.sched = s, !.req_index = i, !.token_budget = b]
        OBVIOUS
      <3>5. /\ u \in PassType /\ u.sched = s /\ u.req_index = i /\ u.token_budget = b
            /\ u.skipped = pass.skipped /\ u.cur = pass.cur
        <4>1. [pass EXCEPT !.sched = s, !.req_index = i, !.token_budget = b] \in PassType
          BY <1>1, <3>2 DEF PassType
        <4> QED BY <1>1, <3>4, <4>1 DEF PassType
      <3>6. pass' = [u EXCEPT !.preempted = t, !.cur = c, !.phase = f]
        BY <1>9, <2>1, <3>3, <3>4, <3>5 DEF PreemptForBlocks
      <3>7. [u EXCEPT !.preempted = t, !.cur = c, !.phase = f] \in PassType
        BY <1>9, <3>5 DEF PassType
      <3>8. /\ pass'.skipped = u.skipped /\ pass'.phase = f /\ pass'.cur = c
            /\ pass'.sched = u.sched /\ pass'.req_index = u.req_index
            /\ pass'.token_budget = u.token_budget
        BY <3>5, <3>6 DEF PassType
      <3> QED BY <2>1, <3>2, <3>5, <3>6, <3>7, <3>8
    <2>2. CASE v \notin DOMAIN pass.sched
      <3>1. pass' = [pass EXCEPT !.preempted = t, !.cur = c, !.phase = f]
        BY <1>9, <2>2 DEF PreemptForBlocks
      <3>2. [pass EXCEPT !.preempted = t, !.cur = c, !.phase = f] \in PassType
        BY <1>1, <1>9 DEF PassType
      <3>3. /\ pass'.skipped = pass.skipped /\ pass'.phase = f /\ pass'.cur = c
            /\ pass'.sched = pass.sched /\ pass'.req_index = pass.req_index
            /\ pass'.token_budget = pass.token_budget
        BY <1>1, <3>1 DEF PassType
      <3> QED BY <2>2, <3>1, <3>2, <3>3
    <2> QED BY <2>1, <2>2
  <1> QED BY <1>2, <1>3, <1>4, <1>7, <1>9, <1>10

LEMMA PreemptBase ==
  ASSUME Base, PreemptForBlocks
  PROVE Base'
  <1>1. PICK v, r : v = Victim /\ r = pass.cur[1]
    OBVIOUS
  <1>2. /\ pass.phase = "allocating" /\ v \in ToSet(running) /\ v \in Requests
        /\ UNCHANGED <<skipped_waiting, batch_queue>>
        /\ running' = Without(running, {v}) /\ waiting' = prepend_requests(waiting, <<v>>)
        /\ req' \in [Requests -> RequestType]
        /\ req'[v] = _preempt_request(req[v], RequiresKvDelivery)
        /\ \A x \in Requests : x # v => req'[x] = req[x]
        /\ pass' \in PassType /\ pass'.skipped = pass.skipped
        /\ pass'.phase = (IF v = r THEN "closing" ELSE "allocating")
        /\ v # r => pass'.cur = pass.cur
        /\ IF v \in DOMAIN pass.sched
           THEN pass'.sched = Drop(pass.sched, v) /\ pass'.req_index = pass.req_index - 1
           ELSE pass'.sched = pass.sched /\ pass'.req_index = pass.req_index
    BY <1>1, PreemptIs
  <1>3. /\ req \in [Requests -> RequestType] /\ pass \in PassType /\ running \in Seq(Requests)
        /\ waiting \in Seq(Requests) /\ skipped_waiting \in Seq(Requests)
        /\ RequiresKvDelivery \in BOOLEAN
    BY SchedulerAssumption DEF Base, Types
  <1>4. req'[v].status = "PREEMPTED" /\ req'[v].num_blocks = 0
    <2>1. req[v] \in RequestType
      BY <1>2, <1>3
    <2>2. PICK p : p = _preempt_request(req[v], RequiresKvDelivery)
      OBVIOUS
    <2>3. p.status = "PREEMPTED" /\ p.num_blocks = 0
      BY <1>3, <2>1, <2>2, PreemptSet
    <2> QED BY <1>2, <2>2, <2>3
  <1>5. /\ running' \in Seq(Requests) /\ ToSet(running') = ToSet(running) \ {v}
        /\ Distinct(running')
    BY <1>2, <1>3, WithoutIs DEF Base, QueuesOK
  <1>6. v \notin ToSet(waiting) /\ v \notin ToSet(skipped_waiting)
    BY <1>2 DEF Base, QueuesOK
  <1>7. /\ waiting' \in Seq(Requests) /\ ToSet(waiting') = ToSet(waiting) \cup {v}
        /\ Distinct(waiting') /\ (Policy = "priority" => Ascending(waiting'))
    <2>1. PICK s : s = <<v>> /\ s \in Seq(Requests) /\ ToSet(s) = {v} /\ Distinct(s)
      BY <1>2, OneQueue
    <2>2. Apart(waiting, s)
      BY <1>6, <2>1 DEF Apart
    <2>3. waiting' = prepend_requests(waiting, s) /\ Distinct(waiting)
      BY <1>2, <2>1 DEF Base, QueuesOK
    <2>4. /\ waiting' \in Seq(Requests) /\ ToSet(waiting') = ToSet(waiting) \cup ToSet(s)
          /\ Distinct(waiting') /\ (Policy = "priority" => Ascending(waiting'))
      BY <1>3, <2>1, <2>2, <2>3, PrependIs
    <2> QED BY <2>1, <2>4
  <1>8. pass.skipped = <<>> /\ ToSet(pass.skipped) = {}
    BY <1>2, EmptyQueue DEF Base, QueuesOK
  <1>9. Types'
    BY <1>2, <1>5, <1>7 DEF Base, Types
  <1>10. QueuesOK'
    <2>1. /\ Apart(waiting', skipped_waiting') /\ Apart(waiting', pass'.skipped)
          /\ Apart(skipped_waiting', pass'.skipped) /\ Distinct(pass'.skipped)
      BY <1>2, <1>6, <1>7, <1>8, EmptyQueue DEF Base, QueuesOK, Apart
    <2>2. ASSUME NEW q \in Requests
          PROVE /\ q \in ToSet(running') <=> req'[q].status = "RUNNING"
                /\ q \in ToSet(waiting') \cup ToSet(skipped_waiting') \cup ToSet(pass'.skipped)
                     <=> req'[q].status \notin {"NEW", "RUNNING", "FINISHED"}
                /\ Blocked(q)' => q \in ToSet(skipped_waiting') \cup ToSet(pass'.skipped)
                /\ req'[q].status # "RUNNING" => req'[q].num_blocks = 0
      <3>1. CASE q = v
        BY <1>2, <1>4, <1>5, <1>7, <3>1 DEF Blocked
      <3>2. CASE q # v
        BY <1>2, <1>5, <1>7, <1>8, <3>2, EmptyQueue DEF Base, QueuesOK, Blocked
      <3> QED BY <3>1, <3>2
    <2> QED BY <1>2, <1>5, <1>7, <1>8, <2>1, <2>2 DEF Base, QueuesOK
  <1>11. PassOK'
    <2>1. PICK p \in 1 .. Len(running) :
            /\ p <= pass.req_index /\ running[p] = r
            /\ \A i \in p .. Len(running) : running[i] \notin DOMAIN pass.sched
      BY <1>1, <1>2 DEF Base, PassOK
    <2>2. DOMAIN pass.sched \subseteq ToSet(running) /\ pass.sched \in Grants
          /\ pass.req_index \in Int /\ pass.req_index >= 1
      BY <1>2, <1>3, PassFields DEF Base, PassOK
    <2>3. DOMAIN pass'.sched = DOMAIN pass.sched \ {v}
      BY <1>2, <2>2, DropIs
    <2>4. DOMAIN pass'.sched \subseteq ToSet(running')
      BY <1>5, <2>2, <2>3
    <2>5. CASE v = r
      BY <1>2, <2>4, <2>5 DEF PassOK, InPass
    <2>6. CASE v # r
      <3>1. r \in ToSet(running')
        BY <1>1, <1>2, <1>5, <2>6, CurrentIs
      <3>2. PICK l \in 1 .. Len(running') : running'[l] = r
        BY <1>5, <3>1, MembersOf
      <3>3. Distinct(running)
        BY DEF Base, QueuesOK
      <3>4. PICK k \in 1 .. Len(running) :
              /\ running'[l] = running[k] /\ l <= k
              /\ \A j \in 1 .. Len(running) : j < k /\ running[j] \in {v} => l < k
        BY <1>2, <1>3, WithoutIs, SMTT(30)
      <3>5. k = p
        BY <2>1, <3>2, <3>3, <3>4 DEF Distinct
      <3>6. ASSUME NEW i \in l .. Len(running') PROVE running'[i] \notin DOMAIN pass'.sched
        <4>1. i \in 1 .. Len(running')
          BY <3>2
        <4>2. PICK m \in 1 .. Len(running) : running'[i] = running[m]
          BY <1>2, <1>3, <4>1, WithoutIs
        <4>3. p <= m
          <5>1. CASE i = l
            BY <2>1, <3>2, <3>3, <3>4, <3>5, <4>2, <5>1 DEF Distinct
          <5>2. CASE i # l
            <6>1. l < i
              BY <3>2, <3>6, <4>1, <5>2
            <6>2. running'[l] = running[p] /\ running'[i] = running[m]
              BY <2>1, <3>2, <4>2
            <6>3. p < m
              BY <1>2, <1>3, <2>1, <3>2, <3>3, <4>1, <4>2, <6>1, <6>2, WithoutIs
            <6> QED BY <2>1, <4>2, <6>3
          <5> QED BY <5>1, <5>2
        <4>4. running[m] \notin DOMAIN pass.sched
          BY <1>3, <2>1, <4>2, <4>3
        <4> QED BY <2>3, <4>2, <4>4
      <3>7. l <= pass'.req_index
        <4>1. CASE v \in DOMAIN pass.sched
          <5>1. PICK j \in 1 .. Len(running) : running[j] = v
            BY <1>2, <1>3, MembersOf
          <5>2. j < p
            BY <1>3, <2>1, <4>1, <5>1
          <5>3. l < k
            BY <3>4, <3>5, <5>1, <5>2
          <5> QED BY <1>2, <1>3, <2>1, <2>2, <3>2, <3>4, <3>5, <4>1, <5>3
        <4>2. CASE v \notin DOMAIN pass.sched
          BY <1>2, <2>1, <2>2, <3>2, <3>4, <3>5, <4>2
        <4> QED BY <4>1, <4>2
      <3>8. pass'.req_index \in Int /\ pass'.req_index >= 1
        BY <1>2, <3>2, <3>7, PassFields
      <3>9. pass'.phase = "allocating" /\ pass'.cur = pass.cur
        BY <1>2, <2>6
      <3>10. pass'.cur \in Requests \X Int
        BY <1>2, <3>9, CurrentIs
      <3> QED BY <1>1, <2>4, <3>2, <3>6, <3>7, <3>8, <3>9, <3>10 DEF PassOK, InPass
    <2> QED BY <2>5, <2>6
  <1> QED BY <1>2, <1>7, <1>9, <1>10, <1>11 DEF Base

(* The request that _select_waiting_queue_for_scheduling chooses.           *)
LEMMA NextIs ==
  ASSUME Base, waiting # <<>> \/ skipped_waiting # <<>>, NEW r, r = NextWaiting
  PROVE /\ r \in Requests
        /\ IF SkippedFirst THEN skipped_waiting # <<>> /\ r = Head(skipped_waiting)
                           ELSE waiting # <<>> /\ r = Head(waiting)
        /\ r \in ToSet(IF SkippedFirst THEN skipped_waiting ELSE waiting)
        /\ r \notin ToSet(running) /\ r \notin ToSet(pass.skipped)
        /\ req[r].status \notin {"NEW", "RUNNING", "FINISHED"} /\ req[r].num_blocks = 0
        /\ Policy = "priority" =>
             \A x \in ToSet(waiting) \cup ToSet(skipped_waiting) : Rank[r] <= Rank[x]
  <1>1. /\ waiting \in Seq(Requests) /\ skipped_waiting \in Seq(Requests)
        /\ Distinct(waiting) /\ Distinct(skipped_waiting)
        /\ Policy = "priority" => Ascending(waiting) /\ Ascending(skipped_waiting)
    BY DEF Base, Types, QueuesOK
  <1>2. IF SkippedFirst THEN skipped_waiting # <<>> /\ r = Head(skipped_waiting)
                        ELSE waiting # <<>> /\ r = Head(waiting)
    <2>1. CASE SkippedFirst
      BY <2>1 DEF SkippedFirst, NextWaiting
    <2>2. CASE ~SkippedFirst
      <3>1. r = Head(waiting)
        BY <2>2 DEF NextWaiting
      <3>2. waiting # <<>>
        BY <2>2 DEF SkippedFirst
      <3> QED BY <2>2, <3>1, <3>2
    <2> QED BY <2>1, <2>2
  <1>3. r \in Requests /\ r \in ToSet(IF SkippedFirst THEN skipped_waiting ELSE waiting)
    <2>1. CASE SkippedFirst
      BY <1>1, <1>2, <2>1, TailIs
    <2>2. CASE ~SkippedFirst
      BY <1>1, <1>2, <2>2, TailIs
    <2> QED BY <2>1, <2>2
  <1>4. r \in ToSet(waiting) \/ r \in ToSet(skipped_waiting)
    BY <1>3
  <1>5. r \notin ToSet(pass.skipped)
    BY <1>4 DEF Base, QueuesOK, Apart
  <1>6. /\ req[r].status \notin {"NEW", "RUNNING", "FINISHED"} /\ req[r].num_blocks = 0
        /\ r \notin ToSet(running)
    BY <1>3, <1>4 DEF Base, QueuesOK
  <1>7. ASSUME Policy = "priority", NEW x \in ToSet(waiting) \cup ToSet(skipped_waiting)
        PROVE Rank[r] <= Rank[x]
    <2>1. /\ waiting # <<>> => /\ Head(waiting) \in Requests
                               /\ \A y \in ToSet(waiting) : Rank[Head(waiting)] <= Rank[y]
          /\ skipped_waiting # <<>> =>
               /\ Head(skipped_waiting) \in Requests
               /\ \A y \in ToSet(skipped_waiting) : Rank[Head(skipped_waiting)] <= Rank[y]
      BY <1>1, <1>7, TailIs
    <2>2. /\ waiting = <<>> => ToSet(waiting) = {}
          /\ skipped_waiting = <<>> => ToSet(skipped_waiting) = {}
      BY EmptyQueue
    <2>3. x \in Requests /\ Rank[x] \in Int
      BY <1>1, MembersOf, ConstantTypes
    <2>4. CASE SkippedFirst
      <3>1. waiting = <<>> \/ Rank[r] < Rank[Head(waiting)]
        BY <1>2, <1>7, <2>4 DEF SkippedFirst
      <3>2. /\ Rank[r] \in Int /\ (waiting # <<>> => Rank[Head(waiting)] \in Int)
            /\ \A y \in ToSet(skipped_waiting) : Rank[r] <= Rank[y]
        BY <1>2, <1>3, <2>1, <2>4, ConstantTypes
      <3> QED BY <2>1, <2>2, <2>3, <3>1, <3>2
    <2>5. CASE ~SkippedFirst
      <3>1. skipped_waiting = <<>> \/ ~(Rank[Head(skipped_waiting)] < Rank[r])
        BY <1>2, <1>7, <2>5 DEF SkippedFirst
      <3>2. /\ Rank[r] \in Int /\ (skipped_waiting # <<>> => Rank[Head(skipped_waiting)] \in Int)
            /\ \A y \in ToSet(waiting) : Rank[r] <= Rank[y]
        BY <1>2, <1>3, <2>1, <2>5, ConstantTypes
      <3> QED BY <2>1, <2>2, <2>3, <3>1, <3>2
    <2> QED BY <2>4, <2>5
  <1> QED BY <1>2, <1>3, <1>5, <1>6, <1>7

LEMMA PopIs ==
  ASSUME Base, waiting # <<>> \/ skipped_waiting # <<>>, PopWaiting, NEW r, r = NextWaiting
  PROVE /\ waiting' \in Seq(Requests) /\ skipped_waiting' \in Seq(Requests)
        /\ ToSet(waiting') = ToSet(waiting) \ {r}
        /\ ToSet(skipped_waiting') = ToSet(skipped_waiting) \ {r}
        /\ Distinct(waiting') /\ Distinct(skipped_waiting')
        /\ Policy = "priority" => Ascending(waiting') /\ Ascending(skipped_waiting')
  <1>1. /\ waiting \in Seq(Requests) /\ skipped_waiting \in Seq(Requests)
        /\ Distinct(waiting) /\ Distinct(skipped_waiting) /\ Apart(waiting, skipped_waiting)
        /\ Policy = "priority" => Ascending(waiting) /\ Ascending(skipped_waiting)
    BY DEF Base, Types, QueuesOK
  <1>2. /\ IF SkippedFirst THEN skipped_waiting # <<>> /\ r = Head(skipped_waiting)
                           ELSE waiting # <<>> /\ r = Head(waiting)
        /\ r \in ToSet(IF SkippedFirst THEN skipped_waiting ELSE waiting)
    BY NextIs
  <1>3. CASE SkippedFirst
    <2>1. skipped_waiting' = Tail(skipped_waiting) /\ waiting' = waiting
      BY <1>3 DEF PopWaiting
    <2>2. r \notin ToSet(waiting)
      BY <1>1, <1>2, <1>3 DEF Apart
    <2> QED BY <1>1, <1>2, <1>3, <2>1, <2>2, TailIs
  <1>4. CASE ~SkippedFirst
    <2>1. waiting' = Tail(waiting) /\ skipped_waiting' = skipped_waiting
      BY <1>4 DEF PopWaiting
    <2>2. r \notin ToSet(skipped_waiting)
      BY <1>1, <1>2, <1>4 DEF Apart
    <2> QED BY <1>1, <1>2, <1>4, <2>1, <2>2, TailIs
  <1> QED BY <1>3, <1>4

LEMMA SkipWaitingIs ==
  ASSUME Base, SkipWaiting, NEW r, r = NextWaiting
  PROVE /\ pass.phase = "waiting" /\ (waiting # <<>> \/ skipped_waiting # <<>>) /\ PopWaiting
        /\ r \in Requests /\ NotSchedulable(r)
        /\ UNCHANGED <<running, batch_queue>>
        /\ req' \in [Requests -> RequestType]
        /\ \A x \in Requests : x # r => req'[x] = req[x]
        /\ SameCounts(req'[r], req[r]) /\ req'[r].status = req[r].status
        /\ req'[r].num_blocks = req[r].num_blocks /\ req'[r].spec_token_ids = req[r].spec_token_ids
        /\ pass' \in PassType /\ pass'.phase = "waiting" /\ pass'.sched = pass.sched
        /\ pass'.skipped = Append(pass.skipped, r) /\ pass'.token_budget = pass.token_budget
  <1>1. req \in [Requests -> RequestType] /\ pass \in PassType
    BY DEF Base, Types
  <1>2. /\ pass.phase = "waiting" /\ (waiting # <<>> \/ skipped_waiting # <<>>) /\ PopWaiting
        /\ UNCHANGED <<running, batch_queue>> /\ NotSchedulable(r)
    BY DEF SkipWaiting, InWaitingLoop
  <1>3. r \in Requests
    BY <1>2, NextIs
  <1>4. PICK u : u = req[r] /\ u \in RequestType
    BY <1>1, <1>3
  <1>5. PICK g : /\ g = IF Blocked(r) /\ u.grammar = "error" THEN "reported" ELSE u.grammar
                 /\ g \in {"pending", "ready", "error", "reported"}
    BY <1>4 DEF RequestType
  <1>6. PICK p : p = [u EXCEPT !.grammar = g]
    OBVIOUS
  <1>7. /\ p \in RequestType /\ SameCounts(p, u) /\ p.status = u.status
        /\ p.num_blocks = u.num_blocks /\ p.spec_token_ids = u.spec_token_ids
    BY <1>4, <1>5, <1>6, GrammarSet
  <1>8. req' = [req EXCEPT ![r] = p]
    <2>1. req' = [req EXCEPT ![r].grammar = g]
      BY <1>1, <1>3, <1>4, <1>5 DEF SkipWaiting
    <2> QED BY <1>1, <1>3, <1>4, <1>6, <2>1
  <1>9. /\ req' \in [Requests -> RequestType] /\ req'[r] = p
        /\ \A x \in Requests : x # r => req'[x] = req[x]
    BY <1>1, <1>3, <1>7, <1>8, ReplaceRequest
  <1>10. /\ pass' \in PassType /\ pass'.phase = "waiting" /\ pass'.sched = pass.sched
         /\ pass'.skipped = Append(pass.skipped, r) /\ pass'.token_budget = pass.token_budget
    <2>1. PICK s : s = Append(pass.skipped, r) /\ s \in Seq(Requests)
      BY <1>1, <1>3, PassFields, AppendIs
    <2>2. pass' = [pass EXCEPT !.skipped = s]
      BY <2>1 DEF SkipWaiting
    <2>3. [pass EXCEPT !.skipped = s] \in PassType
      BY <1>1, <2>1 DEF PassType
    <2> QED BY <1>1, <1>2, <2>1, <2>2, <2>3 DEF PassType
  <1> QED BY <1>2, <1>3, <1>4, <1>7, <1>9, <1>10

LEMMA SkipWaitingBase ==
  ASSUME Base, SkipWaiting
  PROVE Base'
  <1>1. PICK r : r = NextWaiting
    OBVIOUS
  <1>2. /\ pass.phase = "waiting" /\ (waiting # <<>> \/ skipped_waiting # <<>>) /\ PopWaiting
        /\ r \in Requests /\ UNCHANGED <<running, batch_queue>>
        /\ req' \in [Requests -> RequestType]
        /\ \A x \in Requests : x # r => req'[x] = req[x]
        /\ req'[r].status = req[r].status /\ req'[r].num_blocks = req[r].num_blocks
        /\ pass' \in PassType /\ pass'.phase = "waiting" /\ pass'.sched = pass.sched
        /\ pass'.skipped = Append(pass.skipped, r)
    BY <1>1, SkipWaitingIs
  <1>3. /\ waiting' \in Seq(Requests) /\ skipped_waiting' \in Seq(Requests)
        /\ ToSet(waiting') = ToSet(waiting) \ {r}
        /\ ToSet(skipped_waiting') = ToSet(skipped_waiting) \ {r}
        /\ Distinct(waiting') /\ Distinct(skipped_waiting')
        /\ Policy = "priority" => Ascending(waiting') /\ Ascending(skipped_waiting')
    BY <1>1, <1>2, PopIs
  <1>4. /\ r \notin ToSet(running) /\ r \notin ToSet(pass.skipped)
        /\ r \in ToSet(waiting) \cup ToSet(skipped_waiting)
        /\ req[r].status \notin {"NEW", "RUNNING", "FINISHED"} /\ req[r].num_blocks = 0
    BY <1>1, <1>2, NextIs
  <1>5. /\ ToSet(pass'.skipped) = ToSet(pass.skipped) \cup {r} /\ Distinct(pass'.skipped)
    <2>1. PICK s : s = pass.skipped /\ s \in Seq(Requests) /\ Distinct(s)
      BY PassFields DEF Base, Types, QueuesOK
    <2>2. pass'.skipped = Append(s, r) /\ r \notin ToSet(s)
      BY <1>2, <1>4, <2>1
    <2>3. ToSet(Append(s, r)) = ToSet(s) \cup {r} /\ Distinct(Append(s, r))
      BY <1>2, <2>1, <2>2, AppendIs
    <2> QED BY <2>1, <2>2, <2>3
  <1>6. Types'
    BY <1>2, <1>3 DEF Base, Types
  <1>7. QueuesOK'
    <2>1. /\ Apart(waiting', skipped_waiting') /\ Apart(waiting', pass'.skipped)
          /\ Apart(skipped_waiting', pass'.skipped)
      BY <1>3, <1>5 DEF Base, QueuesOK, Apart
    <2>2. ASSUME NEW q \in Requests
          PROVE /\ q \in ToSet(running') <=> req'[q].status = "RUNNING"
                /\ q \in ToSet(waiting') \cup ToSet(skipped_waiting') \cup ToSet(pass'.skipped)
                     <=> req'[q].status \notin {"NEW", "RUNNING", "FINISHED"}
                /\ Blocked(q)' => q \in ToSet(skipped_waiting') \cup ToSet(pass'.skipped)
                /\ req'[q].status # "RUNNING" => req'[q].num_blocks = 0
      <3>1. CASE q = r
        BY <1>2, <1>3, <1>4, <1>5, <3>1 DEF Blocked
      <3>2. CASE q # r
        BY <1>2, <1>3, <1>5, <3>2 DEF Base, QueuesOK, Blocked
      <3> QED BY <3>1, <3>2
    <2> QED BY <1>2, <1>3, <1>5, <2>1, <2>2 DEF Base, QueuesOK
  <1>8. PassOK'
    BY <1>2 DEF Base, PassOK, InPass
  <1> QED BY <1>3, <1>6, <1>7, <1>8 DEF Base

(* What ScheduleWaiting makes of the record and of the pass.                *)
AdmitStep(r, hit, n) ==
  /\ pass.phase = "waiting" /\ (waiting # <<>> \/ skipped_waiting # <<>>) /\ PopWaiting
  /\ r \in Requests /\ ~NotSchedulable(r) /\ hit \in Hits(r) /\ Admissible(r, hit)
  /\ pass.token_budget > 0 /\ n \in Int
  /\ running' = Append(running, r) /\ batch_queue' = batch_queue
  /\ req' \in [Requests -> RequestType]
  /\ \A x \in Requests : x # r => req'[x] = req[x]
  /\ req'[r].status = "RUNNING" /\ req'[r].num_computed_tokens = hit
  /\ req[r].num_blocks >= 0 => req'[r].num_blocks >= 0
  /\ req'[r].num_tokens = req[r].num_tokens
  /\ req'[r].num_output_placeholders = req[r].num_output_placeholders
  /\ req'[r].num_in_flight_tokens = req[r].num_in_flight_tokens
  /\ req'[r].num_stale_output_tokens = req[r].num_stale_output_tokens
  /\ req'[r].drop_stale_output = req[r].drop_stale_output
  /\ req'[r].next_decode_eligible_step = req[r].next_decode_eligible_step
  /\ req'[r].worker_len = req[r].worker_len /\ req'[r].delivered = req[r].delivered
  /\ pass' \in PassType /\ pass'.phase = "waiting" /\ pass'.skipped = pass.skipped
  /\ pass'.token_budget = pass.token_budget - n
  /\ DOMAIN pass'.sched = DOMAIN pass.sched \cup {r}
  /\ pass'.sched[r].n = n /\ pass'.sched[r].resumed = TRUE
  /\ pass'.sched[r].spec = (IF PadSpecDecode(r, hit) THEN NumSpecTokens ELSE 0)
  /\ \A x \in DOMAIN pass.sched : x # r => pass'.sched[x] = pass.sched[x]

LEMMA AdmitIs ==
  ASSUME Base, NEW hit, hit \in 0 .. MaxHit, ScheduleWaiting(hit),
         NEW r, r = NextWaiting, NEW n, n = WaitingTokens(r, hit)
  PROVE AdmitStep(r, hit, n)
  <1>1. req \in [Requests -> RequestType] /\ pass \in PassType /\ hit \in Int
    BY DEF Base, Types
  <1>2. /\ pass.phase = "waiting" /\ (waiting # <<>> \/ skipped_waiting # <<>>) /\ PopWaiting
        /\ ~NotSchedulable(r) /\ hit \in Hits(r) /\ Admissible(r, hit)
        /\ pass.token_budget > 0
        /\ running' = Append(running, r) /\ batch_queue' = batch_queue
    BY DEF ScheduleWaiting, InWaitingLoop
  <1>3. r \in Requests
    BY <1>2, NextIs
  <1>4. PICK u : u = req[r] /\ u \in RequestType
    BY <1>1, <1>3
  <1>5. u.num_tokens \in Int /\ u.num_blocks \in Int /\ pass.token_budget \in Int
    BY <1>1, <1>4, RequestFields, PassFields
  <1>6. n \in Int
    <2>1. n = IF PadSpecDecode(r, hit) THEN 1 + NumSpecTokens
              ELSE Lower(u.num_tokens - hit, pass.token_budget)
      BY <1>4 DEF WaitingTokens
    <2>2. PICK l : l = u.num_tokens - hit /\ l \in Int
      BY <1>1, <1>5
    <2>3. Lower(l, pass.token_budget) \in Int
      BY <1>5, <2>2, LowerIs
    <2> QED BY <2>1, <2>2, <2>3, ConstantTypes
  <1>7. PICK b : b = BlocksFor(r, hit, n) /\ b \in Int /\ (req[r].num_blocks >= 0 => b >= 0)
    <2>1. req[r].num_blocks \in Int
      BY <1>4, <1>5
    <2> QED BY <1>1, <1>3, <1>6, <2>1, BlocksForType
  <1>8. PICK p : p = [u EXCEPT !.status = "RUNNING", !.num_computed_tokens = hit, !.num_blocks = b]
    OBVIOUS
  <1>9. /\ p \in RequestType /\ p.status = "RUNNING" /\ p.num_computed_tokens = hit
        /\ p.num_blocks = b
        /\ p.num_tokens = u.num_tokens
        /\ p.num_output_placeholders = u.num_output_placeholders
        /\ p.num_in_flight_tokens = u.num_in_flight_tokens
        /\ p.num_stale_output_tokens = u.num_stale_output_tokens
        /\ p.drop_stale_output = u.drop_stale_output
        /\ p.next_decode_eligible_step = u.next_decode_eligible_step
        /\ p.worker_len = u.worker_len /\ p.delivered = u.delivered
    <2>1. [u EXCEPT !.status = "RUNNING", !.num_computed_tokens = hit, !.num_blocks = b] \in RequestType
      BY <1>1, <1>4, <1>7, ZenonT(60) DEF RequestType, Statuses
    <2> QED BY <1>4, <1>8, <2>1 DEF RequestType
  <1>10. req' = [req EXCEPT ![r] = p]
    <2>1. req' = [req EXCEPT ![r].status = "RUNNING", ![r].num_computed_tokens = hit,
                             ![r].num_blocks = b]
      BY <1>7 DEF ScheduleWaiting
    <2> QED BY <1>1, <1>3, <1>4, <1>8, <2>1
  <1>11. /\ req' \in [Requests -> RequestType] /\ req'[r] = p
         /\ \A x \in Requests : x # r => req'[x] = req[x]
    BY <1>1, <1>3, <1>9, <1>10, ReplaceRequest
  <1>12. PICK d : d = (IF PadSpecDecode(r, hit) THEN NumSpecTokens ELSE 0) /\ d \in Int
    BY ConstantTypes
  <1>13. PICK g : /\ g = [n |-> n, resumed |-> TRUE, spec |-> d] /\ g \in GrantType
                  /\ g.n = n /\ g.resumed = TRUE /\ g.spec = d
    <2>1. [n |-> n, resumed |-> TRUE, spec |-> d] \in GrantType
      BY <1>6, <1>12 DEF GrantType
    <2> QED BY <2>1
  <1>14. PICK s0 : s0 = pass.sched /\ s0 \in Grants
    BY <1>1, PassFields
  <1>15. PICK f : f = Put(s0, r, g)
    OBVIOUS
  <1>16. /\ f \in Grants /\ DOMAIN f = DOMAIN s0 \cup {r} /\ f[r] = g
         /\ \A x \in DOMAIN s0 : x # r => f[x] = s0[x]
    <2>1. g \in GrantType /\ s0 \in Grants
      BY <1>13, <1>14
    <2>2. Put(s0, r, g) \in Grants
      BY <1>3, <2>1, PutIs
    <2>3. DOMAIN Put(s0, r, g) = DOMAIN s0 \cup {r}
      BY <1>3, <2>1, PutIs
    <2>4. Put(s0, r, g)[r] = g
      BY <1>3, <2>1, PutAt
    <2>5. \A x \in DOMAIN s0 : x # r => Put(s0, r, g)[x] = s0[x]
      BY <1>3, <2>1, PutElse
    <2> QED BY <1>15, <2>2, <2>3, <2>4, <2>5
  <1>17. /\ pass' \in PassType /\ pass'.phase = "waiting" /\ pass'.skipped = pass.skipped
         /\ pass'.token_budget = pass.token_budget - n /\ pass'.sched = f
    <2>1. PICK t : t = pass.token_budget - n /\ t \in Int
      BY <1>5, <1>6
    <2>2. pass' = [pass EXCEPT !.token_budget = t, !.sched = f]
      <3>1. f = Put(pass.sched, r, [n |-> n, resumed |-> TRUE,
                          spec |-> IF PadSpecDecode(r, hit) THEN NumSpecTokens ELSE 0])
        BY <1>12, <1>13, <1>14, <1>15
      <3> QED BY <2>1, <3>1 DEF ScheduleWaiting
    <2>3. [pass EXCEPT !.token_budget = t, !.sched = f] \in PassType
      BY <1>1, <1>16, <2>1 DEF PassType
    <2> QED BY <1>1, <1>2, <2>1, <2>2, <2>3 DEF PassType
  <1> QED BY <1>2, <1>3, <1>4, <1>6, <1>7, <1>9, <1>11, <1>12, <1>13, <1>14, <1>16, <1>17
         DEF AdmitStep

LEMMA AdmitBase ==
  ASSUME Base, NEW hit, hit \in 0 .. MaxHit, ScheduleWaiting(hit)
  PROVE Base'
  <1>1. PICK r, n : r = NextWaiting /\ n = WaitingTokens(r, hit)
    OBVIOUS
  <1>2. /\ pass.phase = "waiting" /\ (waiting # <<>> \/ skipped_waiting # <<>>) /\ PopWaiting
        /\ r \in Requests
        /\ running' = Append(running, r) /\ batch_queue' = batch_queue
        /\ req' \in [Requests -> RequestType]
        /\ \A x \in Requests : x # r => req'[x] = req[x]
        /\ req'[r].status = "RUNNING"
        /\ pass' \in PassType /\ pass'.phase = "waiting" /\ pass'.skipped = pass.skipped
        /\ DOMAIN pass'.sched = DOMAIN pass.sched \cup {r}
    <2>1. AdmitStep(r, hit, n)
      BY <1>1, AdmitIs
    <2> QED BY <2>1 DEF AdmitStep
  <1>3. /\ waiting' \in Seq(Requests) /\ skipped_waiting' \in Seq(Requests)
        /\ ToSet(waiting') = ToSet(waiting) \ {r}
        /\ ToSet(skipped_waiting') = ToSet(skipped_waiting) \ {r}
        /\ Distinct(waiting') /\ Distinct(skipped_waiting')
        /\ Policy = "priority" => Ascending(waiting') /\ Ascending(skipped_waiting')
    BY <1>1, <1>2, PopIs
  <1>4. /\ r \notin ToSet(running) /\ r \notin ToSet(pass.skipped)
    BY <1>1, <1>2, NextIs
  <1>5. running' \in Seq(Requests) /\ ToSet(running') = ToSet(running) \cup {r} /\ Distinct(running')
    <2>1. running \in Seq(Requests) /\ Distinct(running)
      BY DEF Base, Types, QueuesOK
    <2> QED BY <1>2, <1>4, <2>1, AppendIs
  <1>6. Types'
    BY <1>2, <1>3, <1>5 DEF Base, Types
  <1>7. QueuesOK'
    <2>1. /\ Apart(waiting', skipped_waiting') /\ Apart(waiting', pass'.skipped)
          /\ Apart(skipped_waiting', pass'.skipped)
      BY <1>2, <1>3 DEF Base, QueuesOK, Apart
    <2>2. ASSUME NEW q \in Requests
          PROVE /\ q \in ToSet(running') <=> req'[q].status = "RUNNING"
                /\ q \in ToSet(waiting') \cup ToSet(skipped_waiting') \cup ToSet(pass'.skipped)
                     <=> req'[q].status \notin {"NEW", "RUNNING", "FINISHED"}
                /\ Blocked(q)' => q \in ToSet(skipped_waiting') \cup ToSet(pass'.skipped)
                /\ req'[q].status # "RUNNING" => req'[q].num_blocks = 0
      <3>1. CASE q = r
        BY <1>2, <1>3, <1>4, <1>5, <3>1 DEF Blocked
      <3>2. CASE q # r
        BY <1>2, <1>3, <1>5, <3>2 DEF Base, QueuesOK, Blocked
      <3> QED BY <3>1, <3>2
    <2> QED BY <1>2, <1>3, <1>5, <2>1, <2>2 DEF Base, QueuesOK
  <1>8. PassOK'
    BY <1>2, <1>5 DEF Base, PassOK, InPass
  <1> QED BY <1>3, <1>6, <1>7, <1>8 DEF Base

LEMMA EndWaitingIs ==
  ASSUME Base, EndWaiting
  PROVE /\ pass.phase = "waiting" /\ UNCHANGED <<waiting, running, batch_queue>>
        /\ skipped_waiting' = prepend_requests(skipped_waiting, pass.skipped)
        /\ req' \in [Requests -> RequestType]
        /\ \A x \in Requests : /\ SameCounts(req'[x], req[x])
                               /\ req'[x].num_blocks = req[x].num_blocks
                               /\ req'[x].spec_token_ids = req[x].spec_token_ids
                               /\ \/ req'[x].status = req[x].status
                                  \/ Blocked(x) /\ req'[x].status = "WAITING"
        /\ pass' \in PassType /\ pass'.phase = "closing" /\ pass'.skipped = <<>>
        /\ pass'.sched = pass.sched /\ pass'.token_budget = pass.token_budget
  <1>1. req \in [Requests -> RequestType] /\ pass \in PassType
    BY DEF Base, Types
  <1>2. /\ pass.phase = "waiting" /\ UNCHANGED <<waiting, running, batch_queue>>
        /\ skipped_waiting' = prepend_requests(skipped_waiting, pass.skipped)
    BY DEF EndWaiting
  <1>3. /\ req' \in [Requests -> RequestType]
        /\ \A x \in Requests : /\ SameCounts(req'[x], req[x])
                               /\ req'[x].num_blocks = req[x].num_blocks
                               /\ req'[x].spec_token_ids = req[x].spec_token_ids
                               /\ \/ req'[x].status = req[x].status
                                  \/ Blocked(x) /\ req'[x].status = "WAITING"
    <2>1. CASE HeadStuck /\ Blocked(NextWaiting)
      <3>1. PICK r : r = NextWaiting
        OBVIOUS
      <3>2. r \in Requests /\ Blocked(r)
        BY <2>1, <3>1, NextIs DEF HeadStuck, InWaitingLoop
      <3>3. PICK u, s : u = req[r] /\ u \in RequestType /\ s = "WAITING" /\ s \in Statuses
        BY <1>1, <3>2 DEF Statuses
      <3>4. PICK p : p = [u EXCEPT !.status = s]
        OBVIOUS
      <3>5. /\ p \in RequestType /\ SameCounts(p, u) /\ p.status = s
            /\ p.num_blocks = u.num_blocks /\ p.spec_token_ids = u.spec_token_ids
        BY <3>3, <3>4, StatusSet
      <3>6. req' = [req EXCEPT ![r] = p]
        <4>1. req' = [req EXCEPT ![r].status = s]
          BY <2>1, <3>1, <3>3 DEF EndWaiting
        <4> QED BY <1>1, <3>2, <3>3, <3>4, <4>1
      <3>7. /\ req' \in [Requests -> RequestType] /\ req'[r] = p
            /\ \A x \in Requests : x # r => req'[x] = req[x]
        BY <1>1, <3>2, <3>5, <3>6, ReplaceRequest
      <3> QED BY <3>2, <3>3, <3>5, <3>7 DEF SameCounts
    <2>2. CASE ~(HeadStuck /\ Blocked(NextWaiting))
      <3>1. req' = req
        BY <2>2 DEF EndWaiting
      <3> QED BY <1>1, <3>1 DEF SameCounts
    <2> QED BY <2>1, <2>2
  <1>4. /\ pass' \in PassType /\ pass'.phase = "closing" /\ pass'.skipped = <<>>
        /\ pass'.sched = pass.sched /\ pass'.token_budget = pass.token_budget
    <2>1. "closing" \in Phases /\ <<>> \in Seq(Requests)
      BY DEF Phases
    <2>2. PICK f, s : f = "closing" /\ f \in Phases /\ s = <<>> /\ s \in Seq(Requests)
      BY <2>1
    <2>3. pass' = [pass EXCEPT !.phase = f, !.skipped = s]
      BY <2>2 DEF EndWaiting
    <2>4. [pass EXCEPT !.phase = f, !.skipped = s] \in PassType
      BY <1>1, <2>2 DEF PassType
    <2> QED BY <1>1, <2>2, <2>3, <2>4 DEF PassType
  <1> QED BY <1>2, <1>3, <1>4

LEMMA EndWaitingBase ==
  ASSUME Base, EndWaiting
  PROVE Base'
  <1>1. /\ pass.phase = "waiting" /\ UNCHANGED <<waiting, running, batch_queue>>
        /\ skipped_waiting' = prepend_requests(skipped_waiting, pass.skipped)
        /\ req' \in [Requests -> RequestType]
        /\ \A x \in Requests : /\ req'[x].num_blocks = req[x].num_blocks
                               /\ \/ req'[x].status = req[x].status
                                  \/ Blocked(x) /\ req'[x].status = "WAITING"
        /\ pass' \in PassType /\ pass'.phase = "closing" /\ pass'.skipped = <<>>
        /\ pass'.sched = pass.sched
    BY EndWaitingIs
  <1>2. PICK s : s = pass.skipped /\ s \in Seq(Requests) /\ Distinct(s)
                 /\ Apart(skipped_waiting, s)
    BY PassFields DEF Base, Types, QueuesOK
  <1>3. /\ skipped_waiting' \in Seq(Requests)
        /\ ToSet(skipped_waiting') = ToSet(skipped_waiting) \cup ToSet(s)
        /\ Distinct(skipped_waiting') /\ (Policy = "priority" => Ascending(skipped_waiting'))
    <2>1. skipped_waiting' = prepend_requests(skipped_waiting, s)
      BY <1>1, <1>2
    <2>2. skipped_waiting \in Seq(Requests) /\ Distinct(skipped_waiting)
      BY DEF Base, Types, QueuesOK
    <2> QED BY <1>2, <2>1, <2>2, PrependIs
  <1>4. Types'
    BY <1>1, <1>3 DEF Base, Types
  <1>5. QueuesOK'
    <2>1. /\ Apart(waiting', skipped_waiting') /\ Apart(waiting', pass'.skipped)
          /\ Apart(skipped_waiting', pass'.skipped) /\ Distinct(pass'.skipped)
          /\ ToSet(pass'.skipped) = {}
      BY <1>1, <1>2, <1>3, EmptyQueue DEF Base, QueuesOK, Apart
    <2>2. ASSUME NEW q \in Requests
          PROVE /\ q \in ToSet(running') <=> req'[q].status = "RUNNING"
                /\ q \in ToSet(waiting') \cup ToSet(skipped_waiting') \cup ToSet(pass'.skipped)
                     <=> req'[q].status \notin {"NEW", "RUNNING", "FINISHED"}
                /\ Blocked(q)' => q \in ToSet(skipped_waiting') \cup ToSet(pass'.skipped)
                /\ req'[q].status # "RUNNING" => req'[q].num_blocks = 0
      <3>1. CASE req'[q].status = req[q].status
        BY <1>1, <1>2, <1>3, <2>1, <3>1 DEF Base, QueuesOK, Blocked
      <3>2. CASE Blocked(q) /\ req'[q].status = "WAITING"
        BY <1>1, <1>2, <1>3, <2>1, <3>2 DEF Base, QueuesOK, Blocked
      <3> QED BY <1>1, <3>1, <3>2
    <2> QED BY <1>1, <1>3, <2>1, <2>2 DEF Base, QueuesOK
  <1>6. PassOK'
    BY <1>1 DEF Base, PassOK, InPass
  <1> QED BY <1>1, <1>3, <1>4, <1>5, <1>6 DEF Base

(* A step is issued: the record of a request in it, before and after, its   *)
(* grant, the drafts that will be accepted, and its share of the step.      *)
IssuedTo(q, p, g, a, s) ==
  LET chunk == Drafts(q, g.n) < 0
  IN /\ p \in RequestType /\ s \in ShareType
     /\ p.status = q.status /\ p.num_tokens = q.num_tokens /\ p.num_blocks = q.num_blocks
     /\ p.num_stale_output_tokens = q.num_stale_output_tokens
     /\ p.drop_stale_output = q.drop_stale_output /\ p.delivered = q.delivered
     /\ p.num_computed_tokens = q.num_computed_tokens + g.n
     /\ p.num_in_flight_tokens = q.num_in_flight_tokens + g.n
     /\ p.num_output_placeholders =
          q.num_output_placeholders + (IF chunk THEN 0 ELSE 1 + g.spec)
     /\ p.next_decode_eligible_step = (IF chunk THEN q.next_decode_eligible_step ELSE PpSize)
     /\ s.n = g.n /\ s.spec = g.spec /\ s.sampled = (IF chunk THEN 0 ELSE 1 + a)
     /\ s.first = (IF g.resumed THEN q.num_tokens ELSE q.worker_len) + 1
     /\ p.worker_len = s.first - 1 + s.sampled

IssueStep(accepted, step) ==
  /\ pass.phase = "closing" /\ UNCHANGED <<waiting, skipped_waiting, running>>
  /\ step \in Steps /\ DOMAIN step = DOMAIN pass.sched /\ batch_queue' = Append(batch_queue, step)
  /\ req' \in [Requests -> RequestType]
  /\ \A r \in Requests : r \notin DOMAIN pass.sched => req'[r] = req[r]
  /\ \A r \in DOMAIN pass.sched : /\ IssuedTo(req[r], req'[r], pass.sched[r], accepted[r], step[r])
                                  /\ accepted[r] <= pass.sched[r].spec
  /\ pass' \in PassType /\ pass'.sched = <<>> /\ pass'.skipped = <<>> /\ pass'.token_budget = 0
  /\ pass'.phase = (IF Len(batch_queue) + 1 = PpSize + 1 THEN "updating" ELSE "idle")

LEMMA IssueOne ==
  ASSUME NEW q, q \in RequestType, NEW g, g \in GrantType, NEW a, a \in Int,
         NEW k, k \in BOOLEAN,
         NEW base, base = (IF g.resumed THEN q.num_tokens ELSE q.worker_len),
         NEW m, m = (IF Drafts(q, g.n) < 0 THEN 0 ELSE 1 + a),
         NEW s, s = [n |-> g.n, spec |-> g.spec, first |-> base + 1, sampled |-> m],
         NEW c, c = q.num_computed_tokens + g.n, NEW i, i = q.num_in_flight_tokens + g.n,
         NEW h, h = (IF Drafts(q, g.n) < 0 THEN q.num_output_placeholders
                     ELSE q.num_output_placeholders + placeholders(g.spec)),
         NEW d, d = (IF Drafts(q, g.n) < 0 THEN q.spec_token_ids ELSE NumSpecTokens),
         NEW e, e = (IF Drafts(q, g.n) < 0 THEN q.next_decode_eligible_step ELSE PpSize),
         NEW w, w = base + m, NEW p, p = IssueFields(q, c, i, k, h, d, e, w)
  PROVE IssuedTo(q, p, g, a, s)
  <1>1. /\ q.num_computed_tokens \in Int /\ q.num_tokens \in Int /\ q.num_output_placeholders \in Int
        /\ q.worker_len \in Int /\ q.num_in_flight_tokens \in Int
        /\ q.next_decode_eligible_step \in Nat
    BY RequestFields
  <1>2. q.spec_token_ids \in 0 .. NumSpecTokens /\ NumSpecTokens \in 0 .. NumSpecTokens
    BY ConstantTypes DEF RequestType
  <1>3. g.n \in Int /\ g.spec \in Int
    BY DEF GrantType
  <1>4. base \in Int /\ m \in Int
    BY <1>1
  <1>5. /\ c \in Int /\ i \in Int /\ w \in Int
        /\ h \in Int /\ d \in 0 .. NumSpecTokens /\ e \in Nat
    <2>1. c \in Int /\ i \in Int /\ w \in Int
      BY <1>1, <1>3, <1>4
    <2>2. h \in Int
      BY <1>1, <1>3 DEF placeholders
    <2>3. d \in 0 .. NumSpecTokens
      BY <1>2
    <2>4. e \in Nat
      BY <1>1, ConstantTypes
    <2> QED BY <2>1, <2>2, <2>3, <2>4
  <1>6. /\ p.num_computed_tokens = c /\ p.num_in_flight_tokens = i
        /\ p.num_output_placeholders = h /\ p.next_decode_eligible_step = e /\ p.worker_len = w
        /\ p.status = q.status /\ p.num_tokens = q.num_tokens /\ p.num_blocks = q.num_blocks
        /\ p.num_stale_output_tokens = q.num_stale_output_tokens
        /\ p.drop_stale_output = q.drop_stale_output /\ p.delivered = q.delivered
        /\ p \in RequestType
    <2>1. AfterIssue(q, p, c, i, h, e, w)
      BY <1>5, IssueSet
    <2> QED BY <2>1 DEF AfterIssue
  <1>7. PICK o : o = base + 1 /\ o \in Int
    BY <1>4
  <1>8. /\ s \in ShareType /\ s.n = g.n /\ s.spec = g.spec /\ s.first = o /\ s.sampled = m
    <2>1. [n |-> g.n, spec |-> g.spec, first |-> o, sampled |-> m] \in ShareType
      BY <1>3, <1>4, <1>7 DEF ShareType
    <2> QED BY <1>7, <2>1
  <1>9. h = q.num_output_placeholders + (IF Drafts(q, g.n) < 0 THEN 0 ELSE 1 + g.spec)
    BY <1>1, <1>3, <1>5 DEF placeholders
  <1>10. w = o - 1 + m
    BY <1>4, <1>5, <1>7
  <1> QED BY <1>5, <1>6, <1>7, <1>8, <1>9, <1>10 DEF IssuedTo

LEMMA IssueIs ==
  ASSUME Base, NEW accepted \in [DOMAIN pass.sched -> 0 .. NumSpecTokens], EndSchedule(accepted)
  PROVE \E step : IssueStep(accepted, step)
  <1>1. /\ req \in [Requests -> RequestType] /\ pass \in PassType /\ pass.sched \in Grants
        /\ batch_queue \in Seq(Steps)
    BY PassFields DEF Base, Types
  <1> DEFINE sched == pass.sched
             Computed(r) == req[r].num_computed_tokens + sched[r].n
             Chunk(r) == Computed(r) < req[r].num_tokens + req[r].num_output_placeholders
             First(r) == IF sched[r].resumed THEN req[r].num_tokens ELSE req[r].worker_len
             Number(r) == IF Chunk(r) THEN 0 ELSE 1 + accepted[r]
             After(r) ==
               [req[r] EXCEPT
                 !.num_computed_tokens = Computed(r),
                 !.num_in_flight_tokens = @ + sched[r].n,
                 !.is_prefill_chunk = Chunk(r),
                 !.num_output_placeholders = IF Chunk(r) THEN @ ELSE @ + placeholders(sched[r].spec),
                 !.spec_token_ids = IF Chunk(r) THEN @ ELSE NumSpecTokens,
                 !.next_decode_eligible_step = IF Chunk(r) THEN @ ELSE PpSize,
                 !.worker_len = First(r) + Number(r)]
             Share(r) == [n |-> sched[r].n, spec |-> sched[r].spec, first |-> First(r) + 1,
                          sampled |-> Number(r)]
             step == [r \in DOMAIN sched |-> Share(r)]
  <1>2. /\ pass.phase = "closing" /\ UNCHANGED <<waiting, skipped_waiting, running>>
        /\ \A r \in DOMAIN sched : accepted[r] <= sched[r].spec
        /\ req' = [r \in Requests |-> IF r \in DOMAIN sched THEN After(r) ELSE req[r]]
        /\ batch_queue' = Append(batch_queue, step)
        /\ pass' = [IdlePass EXCEPT !.phase = IF Len(batch_queue') = batch_queue_size
                                              THEN "updating" ELSE "idle"]
    BY DEF EndSchedule
  <1>3. DOMAIN sched \subseteq Requests /\ \A r \in DOMAIN sched : sched[r] \in GrantType
    BY <1>1, GrantIs
  <1>4. ASSUME NEW r \in DOMAIN sched
        PROVE IssuedTo(req[r], After(r), sched[r], accepted[r], Share(r))
    <2>1. PICK q : q = req[r] /\ q \in RequestType
      BY <1>1, <1>3
    <2>2. PICK g : g = sched[r] /\ g \in GrantType
      BY <1>3
    <2>3. PICK a : a = accepted[r] /\ a \in Int
      OBVIOUS
    <2>4. Chunk(r) <=> Drafts(q, g.n) < 0
      <3>1. /\ q.num_computed_tokens \in Int /\ q.num_tokens \in Int
            /\ q.num_output_placeholders \in Int /\ g.n \in Int
        BY <2>1, <2>2, RequestFields DEF GrantType
      <3>2. (q.num_computed_tokens + g.n < q.num_tokens + q.num_output_placeholders)
               <=> Drafts(q, g.n) < 0
        BY <3>1 DEF Drafts
      <3> QED BY <2>1, <2>2, <3>2
    <2>5. PICK k \in BOOLEAN : k = TRUE <=> Drafts(q, g.n) < 0
      <3>1. CASE Drafts(q, g.n) < 0
        <4> WITNESS TRUE \in BOOLEAN
        <4> QED BY <3>1
      <3>2. CASE ~(Drafts(q, g.n) < 0)
        <4> WITNESS FALSE \in BOOLEAN
        <4> QED BY <3>2
      <3> QED BY <3>1, <3>2
    <2>6. PICK base : base = (IF g.resumed THEN q.num_tokens ELSE q.worker_len)
      OBVIOUS
    <2>7. PICK m : m = (IF Drafts(q, g.n) < 0 THEN 0 ELSE 1 + a)
      OBVIOUS
    <2>8. PICK s : s = [n |-> g.n, spec |-> g.spec, first |-> base + 1, sampled |-> m]
      OBVIOUS
    <2>9. PICK c, i, h, d, e, w :
            /\ c = q.num_computed_tokens + g.n /\ i = q.num_in_flight_tokens + g.n
            /\ h = (IF Drafts(q, g.n) < 0 THEN q.num_output_placeholders
                    ELSE q.num_output_placeholders + placeholders(g.spec))
            /\ d = (IF Drafts(q, g.n) < 0 THEN q.spec_token_ids ELSE NumSpecTokens)
            /\ e = (IF Drafts(q, g.n) < 0 THEN q.next_decode_eligible_step ELSE PpSize)
            /\ w = base + m
      OBVIOUS
    <2>10. PICK p : p = IssueFields(q, c, i, k, h, d, e, w)
      OBVIOUS
    <2>11. IssuedTo(q, p, g, a, s)
      <3> HIDE DEF sched
      <3> QED BY <2>1, <2>2, <2>3, <2>6, <2>7, <2>8, <2>10, <2>9, <2>5, IssueOne
    <2>12. p = After(r)
      <3>1. p = [q EXCEPT !.num_computed_tokens = c, !.num_in_flight_tokens = i,
                    !.is_prefill_chunk = k, !.num_output_placeholders = h, !.spec_token_ids = d,
                    !.next_decode_eligible_step = e, !.worker_len = w]
        BY <2>10 DEF IssueFields
      <3>2. CASE Drafts(q, g.n) < 0
        <4>1. k = TRUE /\ Chunk(r) = TRUE
          BY <2>4, <2>5, <3>2
        <4> QED BY <2>1, <2>2, <2>3, <2>6, <2>7, <2>9, <3>1, <3>2, <4>1 DEF RequestType
      <3>3. CASE ~(Drafts(q, g.n) < 0)
        <4>1. k = FALSE /\ Chunk(r) = FALSE
          BY <2>4, <2>5, <3>3
        <4> QED BY <2>1, <2>2, <2>3, <2>6, <2>7, <2>9, <3>1, <3>3, <4>1 DEF RequestType
      <3> QED BY <3>2, <3>3
    <2>13. s = Share(r)
      BY <2>1, <2>2, <2>3, <2>4, <2>6, <2>7, <2>8
    <2> HIDE DEF sched, After, Share
    <2> QED BY <2>1, <2>2, <2>3, <2>11, <2>12, <2>13
  <1> HIDE DEF After, Share
  <1>5. \A r \in DOMAIN sched : After(r) \in RequestType /\ Share(r) \in ShareType
    BY <1>4 DEF IssuedTo
  <1>6. step \in Steps /\ DOMAIN step = DOMAIN sched
    <2>1. step \in [DOMAIN sched -> ShareType]
      BY <1>5
    <2> QED BY <1>3, <2>1 DEF Steps
  <1>7. req' \in [Requests -> RequestType]
    BY <1>1, <1>2, <1>5
  <1>8. \A r \in Requests : r \notin DOMAIN sched => req'[r] = req[r]
    BY <1>2
  <1>9. \A r \in DOMAIN sched : /\ IssuedTo(req[r], req'[r], sched[r], accepted[r], step[r])
                                /\ accepted[r] <= sched[r].spec
    <2>1. \A r \in DOMAIN sched : req'[r] = After(r) /\ step[r] = Share(r)
      BY <1>2, <1>3
    <2> QED BY <1>2, <1>4, <2>1
  <1>10. /\ pass' \in PassType /\ pass'.sched = <<>> /\ pass'.skipped = <<>> /\ pass'.token_budget = 0
         /\ pass'.phase = (IF Len(batch_queue) + 1 = PpSize + 1 THEN "updating" ELSE "idle")
    <2>1. Len(batch_queue') = Len(batch_queue) + 1
      <3> HIDE DEF step
      <3> QED BY <1>1, <1>2, <1>6
    <2>2. PICK f : /\ f = (IF Len(batch_queue) + 1 = PpSize + 1 THEN "updating" ELSE "idle")
                   /\ f \in Phases
      BY DEF Phases
    <2>3. pass' = [IdlePass EXCEPT !.phase = f]
      BY <1>2, <2>1, <2>2 DEF batch_queue_size
    <2>4. [IdlePass EXCEPT !.phase = f] \in PassType
      BY <2>2, IdleIs DEF PassType
    <2>5. [IdlePass EXCEPT !.phase = f].sched = IdlePass.sched
          /\ [IdlePass EXCEPT !.phase = f].skipped = IdlePass.skipped
          /\ [IdlePass EXCEPT !.phase = f].phase = f
          /\ [IdlePass EXCEPT !.phase = f].token_budget = IdlePass.token_budget
      BY IdleIs DEF PassType
    <2> QED BY <2>2, <2>3, <2>4, <2>5, IdleIs
  <1>11. IssueStep(accepted, step)
    <2> HIDE DEF step
    <2> QED BY <1>2, <1>6, <1>7, <1>8, <1>9, <1>10 DEF IssueStep
  <1> QED BY <1>11

LEMMA IssueBase ==
  ASSUME Base, NEW accepted \in [DOMAIN pass.sched -> 0 .. NumSpecTokens], EndSchedule(accepted)
  PROVE Base'
  <1>1. PICK step : IssueStep(accepted, step)
    BY IssueIs
  <1>2. /\ pass.phase = "closing" /\ UNCHANGED <<waiting, skipped_waiting, running>>
        /\ step \in Steps /\ batch_queue' = Append(batch_queue, step)
        /\ req' \in [Requests -> RequestType]
        /\ pass' \in PassType /\ pass'.sched = <<>> /\ pass'.skipped = <<>>
        /\ pass'.phase = (IF Len(batch_queue) + 1 = PpSize + 1 THEN "updating" ELSE "idle")
    BY <1>1 DEF IssueStep
  <1>3. \A r \in Requests : req'[r].status = req[r].status /\ req'[r].num_blocks = req[r].num_blocks
    <2> SUFFICES ASSUME NEW r \in Requests
                 PROVE req'[r].status = req[r].status /\ req'[r].num_blocks = req[r].num_blocks
      OBVIOUS
    <2>1. CASE r \in DOMAIN pass.sched
      <3>1. IssuedTo(req[r], req'[r], pass.sched[r], accepted[r], step[r])
        BY <1>1, <2>1 DEF IssueStep
      <3> QED BY <3>1 DEF IssuedTo
    <2>2. CASE r \notin DOMAIN pass.sched
      BY <1>1, <2>2 DEF IssueStep
    <2> QED BY <2>1, <2>2
  <1>4. Types'
    <2>1. batch_queue \in Seq(Steps) /\ Len(batch_queue) <= PpSize
      BY <1>2 DEF Base, Types
    <2>2. batch_queue' \in Seq(Steps) /\ Len(batch_queue') = Len(batch_queue) + 1
          /\ Len(batch_queue) \in Nat
      BY <1>2, <2>1
    <2>3. /\ pass'.phase = "updating" => Len(batch_queue') = PpSize + 1
          /\ pass'.phase # "updating" => Len(batch_queue') <= PpSize
      BY <1>2, <2>1, <2>2, ConstantTypes
    <2> QED BY <1>2, <2>2, <2>3 DEF Base, Types
  <1>5. pass.skipped = <<>> /\ ToSet(pass.skipped) = {}
    BY <1>2, EmptyQueue DEF Base, QueuesOK
  <1>6. QueuesOK'
    BY <1>2, <1>3, <1>5 DEF Base, QueuesOK, Blocked
  <1>7. PassOK'
    BY <1>2, NoGrants DEF PassOK, InPass
  <1> QED BY <1>2, <1>4, <1>6, <1>7 DEF Base

(* An output is applied: the record of a request in it, before and after,   *)
(* and its share.  new tokens of it are kept.                               *)
Outcome(q, p, r, s, new) ==
  LET stale == q.num_stale_output_tokens > 0
      room == Limit(r) - q.num_tokens
      rejected == IF stale \/ s.sampled = 0 THEN 0 ELSE s.spec + 1 - s.sampled
  IN /\ p \in RequestType /\ new \in Int
     /\ new = (IF stale /\ q.drop_stale_output THEN 0 ELSE Lower(s.sampled, room))
     /\ p.num_in_flight_tokens = q.num_in_flight_tokens - s.n
     /\ p.num_stale_output_tokens = (IF stale THEN q.num_stale_output_tokens - s.n ELSE 0)
     /\ p.num_computed_tokens = q.num_computed_tokens - rejected
     /\ p.num_output_placeholders =
          (IF stale THEN q.num_output_placeholders ELSE q.num_output_placeholders - (rejected + new))
     /\ p.num_tokens = q.num_tokens + new
     /\ \E w \in Seq(Int) : /\ p.delivered = q.delivered \o w
                            /\ new >= 0 => Len(w) = new /\ \A i \in 1 .. new : w[i] = s.first + i - 1
     /\ p.worker_len = q.worker_len /\ p.drop_stale_output = q.drop_stale_output
     /\ p.next_decode_eligible_step = q.next_decode_eligible_step
     /\ \/ p.status = q.status /\ p.num_blocks = q.num_blocks /\ ~(new > 0 /\ new = room)
        \/ p.status = "FINISHED" /\ p.num_blocks = 0

LEMMA OutcomeIs ==
  ASSUME NEW q, q \in RequestType, q.status # "FINISHED", NEW r \in Requests,
         NEW s, s \in ShareType, NEW stops,
         NEW p, p = _update_request_with_output(q, r, s, r \in stops)
  PROVE \E new : Outcome(q, p, r, s, new)
  <1>1. /\ q.num_computed_tokens \in Int /\ q.num_tokens \in Int /\ q.num_output_placeholders \in Int
        /\ q.num_stale_output_tokens \in Int /\ q.num_in_flight_tokens \in Int
        /\ q.delivered \in Seq(Int) /\ q.drop_stale_output \in BOOLEAN
    BY RequestFields
  <1>2. s.n \in Int /\ s.spec \in Int /\ s.first \in Int /\ s.sampled \in Int
    BY DEF ShareType
  <1> DEFINE stale == q.num_stale_output_tokens > 0
             dropped == stale /\ q.drop_stale_output
             room == Lower(MaxModelLen, NumPrompt[r] + MaxTokens[r]) - q.num_tokens
             new == IF dropped THEN 0 ELSE Lower(s.sampled, room)
             rejected == IF stale \/ s.sampled = 0 THEN 0 ELSE s.spec + 1 - s.sampled
             stopped == new > 0 /\ (new = room \/ r \in stops)
             w == [i \in 1 .. new |-> s.first + i - 1]
             out == [q EXCEPT
               !.num_in_flight_tokens = @ - s.n,
               !.num_stale_output_tokens = stale_after(q, s.n),
               !.num_computed_tokens = @ - rejected,
               !.num_output_placeholders = placeholders_after(q, stale, rejected + new),
               !.num_tokens = @ + new,
               !.delivered = @ \o w]
  <1>3. p = IF stopped THEN Finished(out) ELSE out
    BY DEF _update_request_with_output
  <1>4. room \in Int /\ room = Limit(r) - q.num_tokens
    <2>1. Lower(MaxModelLen, NumPrompt[r] + MaxTokens[r]) \in Int
      <3>1. MaxModelLen \in Int /\ NumPrompt[r] + MaxTokens[r] \in Int
        BY ConstantTypes
      <3> QED BY <3>1, LowerIs
    <2> QED BY <1>1, <2>1 DEF Limit
  <1>5. new \in Int
    <2> HIDE DEF room
    <2>1. Lower(s.sampled, room) \in Int
      BY <1>2, <1>4, LowerIs
    <2> QED BY <2>1
  <1>6. rejected \in Int
    BY <1>2
  <1>7. w \in Seq(Int) /\ (new >= 0 => Len(w) = new /\ \A i \in 1 .. new : w[i] = s.first + i - 1)
    <2> HIDE DEF new
    <2>1. CASE new >= 0
      <3>1. \A i \in 1 .. new : s.first + i - 1 \in Int
        BY <1>2, <1>5
      <3> QED BY <1>5, <2>1, <3>1
    <2>2. CASE ~(new >= 0)
      <3>1. 1 .. new = {}
        BY <1>5, <2>2
      <3>2. w = <<>>
        BY <3>1
      <3> HIDE DEF w
      <3>3. <<>> \in Seq(Int)
        OBVIOUS
      <3> QED BY <2>2, <3>2, <3>3
    <2> QED BY <2>1, <2>2
  <1> HIDE DEF room, new, rejected, w
  <1>8. PICK i, c, n : /\ i = q.num_in_flight_tokens - s.n /\ i \in Int
                       /\ c = q.num_computed_tokens - rejected /\ c \in Int
                       /\ n = q.num_tokens + new /\ n \in Int
    BY <1>1, <1>2, <1>5, <1>6, SMTT(30)
  <1>9. PICK t : t = (IF stale THEN q.num_stale_output_tokens - s.n ELSE 0) /\ t \in Int
    BY <1>1, <1>2
  <1>10. PICK h : /\ h = (IF stale THEN q.num_output_placeholders
                          ELSE q.num_output_placeholders - (rejected + new))
                  /\ h \in Int
    BY <1>1, <1>5, <1>6
  <1>11. PICK d : d = q.delivered \o w /\ d \in Seq(Int)
    <2>1. \A x, y \in Seq(Int) : x \o y \in Seq(Int)
      OBVIOUS
    <2>2. q.delivered \o w \in Seq(Int)
      BY <1>1, <1>7, <2>1
    <2> QED BY <2>2
  <1>12. PICK u : u = OutputFields(q, i, t, c, h, n, d)
    OBVIOUS
  <1>13. AfterOutput(q, u, i, t, c, h, n, d)
    BY <1>8, <1>9, <1>10, <1>11, <1>12, OutputSet
  <1>14. out = u
    <2>1. stale_after(q, s.n) = t
      BY <1>9 DEF stale_after
    <2>2. placeholders_after(q, stale, rejected + new) = h
      BY <1>10 DEF placeholders_after
    <2>3. out = [q EXCEPT !.num_in_flight_tokens = i, !.num_stale_output_tokens = t,
                   !.num_computed_tokens = c, !.num_output_placeholders = h,
                   !.num_tokens = n, !.delivered = d]
      BY <1>8, <1>11, <2>1, <2>2
    <2> QED BY <1>12, <2>3 DEF OutputFields
  <1> HIDE DEF out
  <1>15. u \in RequestType
    BY <1>13 DEF AfterOutput
  <1>16. PICK v : v = Finished(u)
    OBVIOUS
  <1>17. v \in RequestType /\ SameCounts(v, u) /\ v.status = "FINISHED" /\ v.num_blocks = 0
    BY <1>15, <1>16, FinishedSet
  <1>18. p = IF stopped THEN v ELSE u
    BY <1>3, <1>14, <1>16
  <1>19. /\ new = (IF stale /\ q.drop_stale_output THEN 0 ELSE Lower(s.sampled, Limit(r) - q.num_tokens))
         /\ rejected = (IF stale \/ s.sampled = 0 THEN 0 ELSE s.spec + 1 - s.sampled)
    BY <1>4 DEF new, rejected
  <1>20. CASE stopped
    <2>1. p = v
      BY <1>18, <1>20
    <2>2. Outcome(q, v, r, s, new)
      BY <1>5, <1>7, <1>8, <1>9, <1>10, <1>11, <1>13, <1>17, <1>19 DEF AfterOutput, SameCounts, Outcome
    <2> QED BY <2>1, <2>2
  <1>21. CASE ~stopped
    <2>1. p = u
      BY <1>18, <1>21
    <2>2. ~(new > 0 /\ new = Limit(r) - q.num_tokens)
      BY <1>4, <1>21
    <2>3. Outcome(q, u, r, s, new)
      BY <1>5, <1>7, <1>8, <1>9, <1>10, <1>11, <1>13, <1>15, <1>19, <2>2 DEF AfterOutput, Outcome
    <2> QED BY <2>1, <2>3
  <1> QED BY <1>20, <1>21

UpdateStep(step) ==
  /\ ~InPass /\ batch_queue # <<>> /\ step = batch_queue[1] /\ step \in Steps
  /\ batch_queue' = Tail(batch_queue)
  /\ req' \in [Requests -> RequestType]
  /\ \A r \in Requests :
       \/ req'[r] = req[r] /\ (r \notin DOMAIN step \/ req[r].status = "FINISHED")
       \/ req'[r] = Finished(req[r])
       \/ /\ r \in DOMAIN step /\ req[r].status # "FINISHED"
          /\ \E new : Outcome(req[r], req'[r], r, step[r], new)
  /\ RemoveFromQueues({r \in Requests : req'[r].status = "FINISHED"})
  /\ pass' \in PassType /\ pass'.phase = "idle"
  /\ pass'.sched = pass.sched /\ pass'.skipped = pass.skipped
  /\ pass'.token_budget = pass.token_budget

LEMMA StepIs ==
  ASSUME NEW step, step \in Steps
  PROVE DOMAIN step \subseteq Requests /\ \A r \in DOMAIN step : step[r] \in ShareType
  <1>1. PICK D \in SUBSET Requests : step \in [D -> ShareType]
    BY DEF Steps
  <1> QED BY <1>1

LEMMA UpdateIs ==
  ASSUME Base, NEW stops \in SUBSET Requests, update_from_output(stops)
  PROVE \E step : UpdateStep(step)
  <1>1. /\ req \in [Requests -> RequestType] /\ pass \in PassType /\ batch_queue \in Seq(Steps)
    BY DEF Base, Types
  <1> DEFINE step == Head(batch_queue)
             errors == {r \in Requests : Blocked(r) /\ req[r].grammar = "reported"}
             After(r) == IF r \in errors THEN Finished(req[r])
                         ELSE IF r \in DOMAIN step
                         THEN _update_request_with_output(req[r], r, step[r], r \in stops)
                         ELSE req[r]
  <1>2. /\ pass.phase = "updating" \/ (pass.phase = "idle" /\ batch_queue # <<>>)
        /\ batch_queue' = Tail(batch_queue)
        /\ req' = [r \in Requests |-> After(r)]
        /\ RemoveFromQueues({r \in Requests : After(r).status = "FINISHED"})
        /\ pass' = [pass EXCEPT !.phase = "idle"]
    BY DEF update_from_output
  <1>3. batch_queue # <<>>
    <2>1. pass.phase = "updating" => Len(batch_queue) = PpSize + 1
      BY DEF Base, Types
    <2> QED BY <1>2, <2>1, ConstantTypes
  <1>4. ~InPass
    BY <1>2 DEF InPass
  <1>5. step = batch_queue[1] /\ step \in Steps
    BY <1>1, <1>3
  <1>6. ASSUME NEW r \in Requests
        PROVE /\ After(r) \in RequestType
              /\ \/ After(r) = req[r] /\ (r \notin DOMAIN step \/ req[r].status = "FINISHED")
                 \/ After(r) = Finished(req[r])
                 \/ /\ r \in DOMAIN step /\ req[r].status # "FINISHED"
                    /\ \E new : Outcome(req[r], After(r), r, step[r], new)
    <2>1. PICK q : q = req[r] /\ q \in RequestType
      BY <1>1
    <2>2. CASE r \in errors
      <3>1. After(r) = Finished(q)
        BY <2>1, <2>2
      <3>2. Finished(q) \in RequestType
        BY <2>1, FinishedSet
      <3> HIDE DEF After, errors, step
      <3> QED BY <2>1, <3>1, <3>2
    <2>3. CASE r \notin errors /\ r \notin DOMAIN step
      <3>1. After(r) = q
        BY <2>1, <2>3
      <3> HIDE DEF After, errors, step
      <3> QED BY <2>1, <2>3, <3>1
    <2>4. CASE r \notin errors /\ r \in DOMAIN step /\ q.status = "FINISHED"
      <3>1. After(r) = q
        BY <2>1, <2>4 DEF _update_request_with_output
      <3> HIDE DEF After, errors, step
      <3> QED BY <2>1, <2>4, <3>1
    <2>5. CASE r \notin errors /\ r \in DOMAIN step /\ q.status # "FINISHED"
      <3>1. PICK s : s = step[r] /\ s \in ShareType
        <4> HIDE DEF step
        <4> QED BY <1>5, <2>5, StepIs
      <3>2. PICK p : p = _update_request_with_output(q, r, s, r \in stops)
        OBVIOUS
      <3>3. p = After(r)
        BY <2>1, <2>5, <3>1, <3>2
      <3>4. PICK new : Outcome(q, p, r, s, new)
        <4> HIDE DEF After, step, errors
        <4> QED BY <2>1, <2>5, <3>1, <3>2, OutcomeIs
      <3>5. p \in RequestType
        BY <3>4 DEF Outcome
      <3> HIDE DEF After, step, errors
      <3> QED BY <2>1, <2>5, <3>1, <3>3, <3>4, <3>5
    <2> HIDE DEF After, step, errors
    <2> QED BY <2>2, <2>3, <2>4, <2>5
  <1> HIDE DEF After, step, errors
  <1>7. req' \in [Requests -> RequestType] /\ \A r \in Requests : req'[r] = After(r)
    BY <1>2, <1>6
  <1>8. {r \in Requests : After(r).status = "FINISHED"} = {r \in Requests : req'[r].status = "FINISHED"}
    BY <1>7
  <1>9. /\ pass' \in PassType /\ pass'.phase = "idle"
        /\ pass'.sched = pass.sched /\ pass'.skipped = pass.skipped
        /\ pass'.token_budget = pass.token_budget
    <2>1. PICK f : f = "idle" /\ f \in Phases
      BY DEF Phases
    <2>2. [pass EXCEPT !.phase = f] \in PassType
      BY <1>1, <2>1 DEF PassType
    <2> QED BY <1>1, <1>2, <2>1, <2>2 DEF PassType
  <1>10. \A r \in Requests :
        \/ req'[r] = req[r] /\ (r \notin DOMAIN step \/ req[r].status = "FINISHED")
        \/ req'[r] = Finished(req[r])
        \/ /\ r \in DOMAIN step /\ req[r].status # "FINISHED"
           /\ \E new : Outcome(req[r], req'[r], r, step[r], new)
    <2> SUFFICES ASSUME NEW r \in Requests
                 PROVE \/ req'[r] = req[r] /\ (r \notin DOMAIN step \/ req[r].status = "FINISHED")
                       \/ req'[r] = Finished(req[r])
                       \/ /\ r \in DOMAIN step /\ req[r].status # "FINISHED"
                          /\ \E new : Outcome(req[r], req'[r], r, step[r], new)
      OBVIOUS
    <2>1. req'[r] = After(r)
      BY <1>7
    <2> QED BY <1>6, <2>1
  <1>11. UpdateStep(step)
    BY <1>2, <1>3, <1>4, <1>5, <1>7, <1>8, <1>9, <1>10 DEF UpdateStep
  <1> QED BY <1>11

LEMMA UpdateBase ==
  ASSUME Base, NEW stops \in SUBSET Requests, update_from_output(stops)
  PROVE Base'
  <1>1. PICK step : UpdateStep(step)
    BY UpdateIs
  <1> DEFINE S == {r \in Requests : req'[r].status = "FINISHED"}
  <1>2. /\ ~InPass /\ batch_queue # <<>> /\ batch_queue' = Tail(batch_queue)
        /\ req' \in [Requests -> RequestType] /\ RemoveFromQueues(S)
        /\ pass' \in PassType /\ pass'.phase = "idle"
        /\ pass'.sched = pass.sched /\ pass'.skipped = pass.skipped
    BY <1>1 DEF UpdateStep
  <1>3. ASSUME NEW r \in Requests
        PROVE \/ req'[r].status = "FINISHED" /\ req'[r].num_blocks = 0
              \/ req'[r].status = req[r].status /\ req'[r].num_blocks = req[r].num_blocks
    <2>1. CASE req'[r] = req[r]
      BY <2>1
    <2>2. CASE req'[r] = Finished(req[r])
      <3>1. req[r] \in RequestType
        BY DEF Base, Types
      <3> QED BY <2>2, <3>1, FinishedSet
    <2>3. CASE \E new : Outcome(req[r], req'[r], r, step[r], new)
      BY <2>3 DEF Outcome
    <2> QED BY <1>1, <2>1, <2>2, <2>3 DEF UpdateStep
  <1>4. \A q \in S : req'[q].status = "FINISHED" /\ req'[q].num_blocks = 0
    <2>1. \A q \in Requests : req[q].status = "FINISHED" => req[q].num_blocks = 0
      BY DEF Base, QueuesOK
    <2> QED BY <1>3, <2>1
  <1>5. \A q \in Requests : q \notin S => /\ req'[q].status = req[q].status
                                          /\ req'[q].num_blocks = req[q].num_blocks
    BY <1>3
  <1>6. S \subseteq Requests /\ pass'.phase \in {"idle", "updating"}
    BY <1>2
  <1> HIDE DEF S
  <1>7. /\ waiting' \in Seq(Requests) /\ skipped_waiting' \in Seq(Requests)
        /\ running' \in Seq(Requests)
        /\ QueuesOK' /\ PassOK'
        /\ Policy = "priority" => Ascending(waiting') /\ Ascending(skipped_waiting')
    BY <1>2, <1>4, <1>5, <1>6, LeaveQueues
  <1>8. Types'
    <2>1. batch_queue \in Seq(Steps) /\ Len(batch_queue) <= PpSize + 1
      BY ConstantTypes DEF Base, Types
    <2>2. batch_queue' \in Seq(Steps) /\ Len(batch_queue') = Len(batch_queue) - 1
          /\ Len(batch_queue) \in Nat
      BY <1>2, <2>1
    <2>3. Len(batch_queue') <= PpSize
      BY <2>1, <2>2, ConstantTypes
    <2> QED BY <1>2, <1>7, <2>2, <2>3 DEF Types
  <1> QED BY <1>7, <1>8 DEF Base

LEMMA BaseNext ==
  ASSUME Base, [Next]_vars
  PROVE Base'
  <1>1. CASE Engine
    <2>1. CASE BeginSchedule
      BY <2>1, BeginBase
    <2>2. CASE SkipRunning
      BY <2>2, SkipRunningBase
    <2>3. CASE PickRunning
      BY <2>3, PickRunningBase
    <2>4. CASE ScheduleRunning
      BY <2>4, ScheduleRunningBase
    <2>5. CASE PreemptForBlocks
      BY <2>5, PreemptBase
    <2>6. CASE EndRunning
      BY <2>6, EndRunningBase
    <2>7. CASE SkipWaiting
      BY <2>7, SkipWaitingBase
    <2>8. CASE EndWaiting
      BY <2>8, EndWaitingBase
    <2>9. CASE \E hit \in 0 .. MaxHit : ScheduleWaiting(hit)
      BY <2>9, AdmitBase
    <2>10. CASE \E accepted \in [DOMAIN pass.sched -> 0 .. NumSpecTokens] : EndSchedule(accepted)
      BY <2>10, IssueBase
    <2>11. CASE \E stops \in SUBSET Requests : update_from_output(stops)
      BY <2>11, UpdateBase
    <2> QED BY <1>1, <2>1, <2>2, <2>3, <2>4, <2>5, <2>6, <2>7, <2>8, <2>9, <2>10, <2>11 DEF Engine
  <1>2. CASE Compiler
    BY <1>2, GrammarBase DEF Compiler
  <1>3. CASE reset_prefix_cache
    BY <1>3, ResetBase
  <1>4. ASSUME NEW r \in Requests, add_new_request(r) \/ finish_requests(r)
        PROVE Base'
    BY <1>4, AddBase, FinishBase
  <1>5. CASE UNCHANGED vars
    BY <1>5 DEF vars, Base, Types, QueuesOK, PassOK, InPass, Blocked
  <1> QED BY <1>1, <1>2, <1>3, <1>4, <1>5 DEF Next

LEMMA AlwaysBase == Spec => []Base
  <1>1. Init => Base
    BY BaseInit
  <1>2. Base /\ [Next]_vars => Base'
    BY BaseNext
  <1> QED BY <1>1, <1>2, PTL DEF Spec

Places(q, r) == {i \in 1 .. Len(q) : q[i] = r}

LEMMA PlacesAre ==
  ASSUME NEW q, q \in Seq(Requests), Distinct(q), NEW r
  PROVE Cardinality(Places(q, r)) = IF r \in ToSet(q) THEN 1 ELSE 0
  <1>1. CASE r \in ToSet(q)
    <2>1. PICK i \in 1 .. Len(q) : q[i] = r
      BY <1>1, MembersOf
    <2>2. Places(q, r) = {i}
      BY <2>1 DEF Distinct, Places
    <2> QED BY <1>1, <2>2, FS_Singleton
  <1>2. CASE r \notin ToSet(q)
    <2>1. Places(q, r) = {}
      BY <1>2, MembersOf DEF Places
    <2> QED BY <1>2, <2>1, FS_EmptySet
  <1> QED BY <1>1, <1>2

(* Between passes each request that is not finished is in exactly one of    *)
(* the queues, once, the one of its status, and only running requests hold  *)
(* blocks: whatever schedule(), _preempt_request, finish_requests,          *)
(* reset_prefix_cache and update_from_output do, in any order.              *)
THEOREM PlacedOnce == Spec => []RequestPlaced
  <1>1. Base => RequestPlaced
    <2> SUFFICES ASSUME Base, pass.phase \in {"idle", "updating"}, NEW r \in Requests,
                        NEW queues, queues = running \o waiting \o skipped_waiting
                 PROVE /\ Cardinality({i \in 1 .. Len(queues) : queues[i] = r})
                            = (IF r \in Unfinished THEN 1 ELSE 0)
                       /\ (r \in ToSet(running)) <=> (req[r].status = "RUNNING")
                       /\ Blocked(r) => r \in ToSet(skipped_waiting)
                       /\ req[r].num_blocks > 0 => req[r].status = "RUNNING"
      BY DEF RequestPlaced
    <2>1. /\ running \in Seq(Requests) /\ waiting \in Seq(Requests)
          /\ skipped_waiting \in Seq(Requests)
          /\ Distinct(running) /\ Distinct(waiting) /\ Distinct(skipped_waiting)
          /\ Apart(waiting, skipped_waiting)
      BY DEF Base, Types, QueuesOK
    <2>2. pass.skipped = <<>> /\ ToSet(pass.skipped) = {}
      BY EmptyQueue DEF Base, QueuesOK
    <2>3. /\ \A x \in Requests :
               /\ x \in ToSet(running) <=> req[x].status = "RUNNING"
               /\ x \in ToSet(waiting) \cup ToSet(skipped_waiting)
                    <=> req[x].status \notin {"NEW", "RUNNING", "FINISHED"}
               /\ Blocked(x) => x \in ToSet(skipped_waiting)
               /\ req[x].status # "RUNNING" => req[x].num_blocks = 0
      BY <2>2 DEF Base, QueuesOK
    <2>4. ToSet(running) \subseteq Requests /\ ToSet(waiting) \subseteq Requests
          /\ ToSet(skipped_waiting) \subseteq Requests
      BY <2>1, MembersOf
    <2>5. PICK p : p = running \o waiting
      OBVIOUS
    <2>6. p \in Seq(Requests) /\ ToSet(p) = ToSet(running) \cup ToSet(waiting) /\ Distinct(p)
      <3>1. Apart(running, waiting)
        BY <2>3, <2>4 DEF Apart
      <3> QED BY <2>1, <2>5, <3>1, ConcatIs
    <2>7. /\ queues \in Seq(Requests) /\ Distinct(queues)
          /\ ToSet(queues) = ToSet(running) \cup ToSet(waiting) \cup ToSet(skipped_waiting)
      <3>1. Apart(p, skipped_waiting)
        BY <2>1, <2>3, <2>4, <2>6 DEF Apart
      <3>2. queues = p \o skipped_waiting
        BY <2>5
      <3> QED BY <2>1, <2>6, <3>1, <3>2, ConcatIs
    <2>8. r \in ToSet(queues) <=> r \in Unfinished
      BY <2>3, <2>7 DEF Unfinished
    <2>9. Cardinality({i \in 1 .. Len(queues) : queues[i] = r}) = IF r \in Unfinished THEN 1 ELSE 0
      <3>1. {i \in 1 .. Len(queues) : queues[i] = r} = Places(queues, r)
        BY DEF Places
      <3>2. Cardinality(Places(queues, r)) = IF r \in ToSet(queues) THEN 1 ELSE 0
        BY <2>7, PlacesAre
      <3> QED BY <2>8, <3>1, <3>2
    <2>10. req[r].num_blocks > 0 => req[r].status = "RUNNING"
      BY <2>3
    <2> QED BY <2>3, <2>9, <2>10
  <1> QED BY <1>1, AlwaysBase, PTL

(* Nobody starts to run unless its name is put in the running queue.        *)
LEMMA NobodyAdmitted ==
  ASSUME Base, Base', ToSet(running') \subseteq ToSet(running)
  PROVE \A r \in Requests : ~(req[r].status # "RUNNING" /\ req'[r].status = "RUNNING")
  <1>1. \A r \in Requests : r \in ToSet(running) <=> req[r].status = "RUNNING"
    BY DEF Base, QueuesOK
  <1>2. \A r \in Requests : r \in ToSet(running') <=> req'[r].status = "RUNNING"
    BY DEF Base, QueuesOK
  <1> QED BY <1>1, <1>2

UrgentStep ==
  \A r \in Requests :
    (req[r].status # "RUNNING" /\ req'[r].status = "RUNNING") =>
      \A q \in ToSet(waiting) \cup ToSet(skipped_waiting) : Rank[q] < Rank[r] => NotSchedulable(q)

LEMMA UrgentNext ==
  ASSUME Policy = "priority", Base, [Next]_vars
  PROVE UrgentStep
  <1>1. Base' /\ running \in Seq(Requests)
    BY BaseNext DEF Base, Types
  <1>2. ASSUME NEW hit \in 0 .. MaxHit, ScheduleWaiting(hit) PROVE UrgentStep
    <2>1. PICK x, n : x = NextWaiting /\ n = WaitingTokens(x, hit)
      OBVIOUS
    <2>2. AdmitStep(x, hit, n)
      BY <1>2, <2>1, AdmitIs
    <2>3. /\ waiting # <<>> \/ skipped_waiting # <<>>
          /\ x \in Requests /\ \A r \in Requests : r # x => req'[r] = req[r]
      BY <2>2 DEF AdmitStep
    <2>4. \A q \in ToSet(waiting) \cup ToSet(skipped_waiting) : Rank[x] <= Rank[q]
      BY <2>1, <2>3, NextIs
    <2>5. \A q \in ToSet(waiting) \cup ToSet(skipped_waiting) : q \in Requests
      BY MembersOf DEF Base, Types
    <2>6. \A q \in ToSet(waiting) \cup ToSet(skipped_waiting) : ~(Rank[q] < Rank[x])
      BY <2>3, <2>4, <2>5, ConstantTypes
    <2> QED BY <2>3, <2>6 DEF UrgentStep
  <1>3. ASSUME ToSet(running') \subseteq ToSet(running) PROVE UrgentStep
    BY <1>1, <1>3, NobodyAdmitted DEF UrgentStep
  <1>4. ASSUME running' = running PROVE UrgentStep
    BY <1>3, <1>4
  <1>5. ASSUME NEW S, running' = Without(running, S) PROVE UrgentStep
    <2>1. ToSet(running') = ToSet(running) \ S
      BY <1>1, <1>5, WithoutIs
    <2> QED BY <1>3, <2>1
  <1>6. ASSUME running' = <<>> PROVE UrgentStep
    BY <1>3, <1>6, EmptyQueue
  <1>7. CASE Engine
    <2>1. CASE BeginSchedule
      BY <1>4, <2>1 DEF BeginSchedule
    <2>2. CASE SkipRunning \/ PickRunning
      BY <1>4, <2>2 DEF SkipRunning, PickRunning
    <2>3. CASE ScheduleRunning
      BY <1>4, <2>3 DEF ScheduleRunning
    <2>4. CASE PreemptForBlocks
      <3>1. running' = Without(running, {Victim})
        BY <2>4 DEF PreemptForBlocks
      <3> QED BY <1>5, <3>1
    <2>5. CASE EndRunning
      BY <1>4, <2>5 DEF EndRunning
    <2>6. CASE SkipWaiting
      BY <1>4, <2>6 DEF SkipWaiting
    <2>7. CASE EndWaiting
      BY <1>4, <2>7 DEF EndWaiting
    <2>8. CASE \E hit \in 0 .. MaxHit : ScheduleWaiting(hit)
      BY <1>2, <2>8
    <2>9. CASE \E accepted \in [DOMAIN pass.sched -> 0 .. NumSpecTokens] : EndSchedule(accepted)
      <3>1. running' = running
        BY <2>9 DEF EndSchedule
      <3> QED BY <1>4, <3>1
    <2>10. CASE \E stops \in SUBSET Requests : update_from_output(stops)
      <3>1. PICK stops \in SUBSET Requests : update_from_output(stops)
        BY <2>10
      <3>2. PICK S : RemoveFromQueues(S)
        BY <3>1 DEF update_from_output
      <3> QED BY <1>5, <3>2 DEF RemoveFromQueues
    <2> QED BY <1>7, <2>1, <2>2, <2>3, <2>4, <2>5, <2>6, <2>7, <2>8, <2>9, <2>10 DEF Engine
  <1>8. CASE Compiler
    <2>1. running' = running
      BY <1>8 DEF Compiler, GrammarCompiled
    <2> QED BY <1>4, <2>1
  <1>9. CASE reset_prefix_cache
    BY <1>6, <1>9 DEF reset_prefix_cache
  <1>10. ASSUME NEW r \in Requests, add_new_request(r) \/ finish_requests(r)
         PROVE UrgentStep
    <2>1. CASE add_new_request(r)
      BY <1>4, <2>1 DEF add_new_request
    <2>2. CASE finish_requests(r)
      <3>1. running' = Without(running, {r})
        BY <2>2 DEF finish_requests, RemoveFromQueues
      <3> QED BY <1>5, <3>1
    <2> QED BY <1>10, <2>1, <2>2
  <1>11. CASE UNCHANGED vars
    BY <1>4, <1>11 DEF vars
  <1> QED BY <1>7, <1>8, <1>9, <1>10, <1>11 DEF Next

(* Under the priority policy nobody is admitted ahead of a more urgent      *)
(* request that could run: the heads of the two heaps that                  *)
(* _select_waiting_queue_for_scheduling compares are the most urgent ones,  *)
(* however the requests got there.                                          *)
THEOREM MostUrgentFirst ==
  ASSUME Policy = "priority"
  PROVE Spec => AdmitsMostUrgent
  <1>1. Base /\ [Next]_vars => [UrgentStep]_vars
    BY UrgentNext
  <1>2. Spec => [][UrgentStep]_vars
    BY <1>1, AlwaysBase, PTL DEF Spec
  <1> QED BY <1>2 DEF AdmitsMostUrgent, UrgentStep

-----------------------------------------------------------------------------
(* What the steps of one request do to Live                                 *)

LEMMA LiveSame ==
  ASSUME NEW q, NEW p, SameCounts(p, q), p.status = "RUNNING" <=> q.status = "RUNNING",
         NEW r, NEW steps, NEW e, NEW F, NEW G, r \in G <=> r \in F, Live(q, r, steps, e, F)
  PROVE Live(p, r, steps, e, G)
  <1>1. PICK k : LiveFrom(q, r, steps, e, F, k)
    BY DEF Live
  <1>2. Counts(p, r, steps, k)
    BY <1>1 DEF LiveFrom, Counts, SameCounts
  <1>3. InOrder(p, r, steps, G, k)
    <2>1. DroppedTo(p, k) = DroppedTo(q, k)
      BY DEF DroppedTo, SameCounts
    <2> QED BY <1>1, <2>1 DEF LiveFrom, InOrder, SameCounts
  <1>4. Spaced(p, r, steps, e, k)
    BY <1>1 DEF LiveFrom, Spaced, SameCounts
  <1>5. Bounds(p, r)
    BY DEF Live, Bounds, SameCounts
  <1>6. LiveFrom(p, r, steps, e, G, k)
    BY <1>1, <1>2, <1>3, <1>4 DEF LiveFrom
  <1>7. p.status = "RUNNING" => p.num_stale_output_tokens = 0 \/ p.drop_stale_output
    BY DEF Live, SameCounts
  <1> QED BY <1>5, <1>6, <1>7 DEF Live

LEMMA RequestSame ==
  ASSUME NEW q, NEW p, SameCounts(p, q), p.num_blocks >= 0,
         p.status # "FINISHED" => /\ q.status # "FINISHED"
                                  /\ p.status = "RUNNING" <=> q.status = "RUNNING",
         NEW r, NEW steps, NEW e, NEW F, NEW G, r \in G <=> r \in F, RequestOK(q, r, steps, e, F)
  PROVE RequestOK(p, r, steps, e, G)
  <1>1. Delivered(p, r) /\ Naturals(p)
    BY DEF RequestOK, Delivered, Naturals, SameCounts
  <1>2. ASSUME p.status # "FINISHED" PROVE Live(p, r, steps, e, G)
    BY <1>2, LiveSame DEF RequestOK
  <1> QED BY <1>1, <1>2 DEF RequestOK

(* The bounds in plain numbers.                                             *)
LEMMA BoundsAre ==
  ASSUME NEW r \in Requests, NEW q, q \in RequestType, Bounds(q, r)
  PROVE /\ q.num_tokens >= 1 /\ q.num_tokens < MaxModelLen
        /\ q.num_tokens < NumPrompt[r] + MaxTokens[r]
        /\ Limit(r) \in Int /\ Limit(r) <= MaxModelLen /\ Limit(r) <= NumPrompt[r] + MaxTokens[r]
  <1>1. MaxModelLen \in Int /\ NumPrompt[r] + MaxTokens[r] \in Int /\ NumPrompt[r] \in Nat
        /\ NumPrompt[r] >= 1
    BY ConstantTypes
  <1>2. /\ Limit(r) \in Int /\ Limit(r) <= MaxModelLen /\ Limit(r) <= NumPrompt[r] + MaxTokens[r]
    BY <1>1, LowerIs DEF Limit
  <1>3. q.num_tokens \in Int
    BY RequestFields
  <1> QED BY <1>1, <1>2, <1>3 DEF Bounds

(* _preempt_request.                                                        *)
LEMMA LivePreempt ==
  ASSUME NEW r \in Requests, NEW q, q \in RequestType, NEW drop, drop \in BOOLEAN,
         NEW p, p = _preempt_request(q, drop),
         NEW steps, StepsFit(steps), NEW e, NEW F, NEW G, Live(q, r, steps, e, F)
  PROVE Live(p, r, steps, e, G)
  <1>1. PICK k : LiveFrom(q, r, steps, e, F, k)
    BY DEF Live
  <1>2. PICK n : n = Len(steps) /\ n \in Nat /\ k \in 0 .. n /\ n \in 0 .. n /\ 0 \in 0 .. n
    BY <1>1 DEF LiveFrom, StepsFit
  <1>3. /\ p.status = "PREEMPTED"
        /\ p.num_tokens = q.num_tokens /\ p.num_computed_tokens = 0
        /\ p.num_output_placeholders = 0
        /\ p.num_in_flight_tokens = q.num_in_flight_tokens
        /\ p.num_stale_output_tokens = q.num_in_flight_tokens
        /\ q.drop_stale_output /\ q.num_stale_output_tokens > 0 => p.drop_stale_output
        /\ p.next_decode_eligible_step = q.next_decode_eligible_step
    BY PreemptSet
  <1>4. /\ Issued(steps, r)[n] \in Nat /\ Awaited(steps, r)[n] \in Nat /\ Certain(steps, r)[n] \in Nat
        /\ Issued(steps, r)[0] = 0
    BY <1>2, MarksMono, MarksZero
  <1>5. q.num_in_flight_tokens = Issued(steps, r)[n]
    BY <1>1, <1>2 DEF LiveFrom, Counts
  <1>6. Bounds(q, r) /\ q.num_tokens \in Int
    BY RequestFields DEF Live
  <1>7. Bounds(p, r)
    BY <1>3, <1>6, BoundsAre, ConstantTypes DEF Bounds
  <1>8. Counts(p, r, steps, n)
    BY <1>2, <1>3, <1>4, <1>5 DEF Counts
  <1>9. Spaced(p, r, steps, e, n)
    <2>1. p.num_tokens + Certain(steps, r)[n] - Certain(steps, r)[n] <= NumPrompt[r] + MaxTokens[r]
      BY <1>3, <1>4, <1>6, BoundsAre, ConstantTypes
    <2>2. n + 1 .. n = {}
      BY <1>2
    <2> QED BY <1>2, <2>1, <2>2 DEF Spaced
  <1>10. InOrder(p, r, steps, G, n)
    <2>1. CASE p.drop_stale_output /\ p.num_stale_output_tokens > 0
      <3>1. DroppedTo(p, n) = n /\ n + 1 .. n = {}
        BY <1>2, <2>1 DEF DroppedTo
      <3> QED BY <1>2, <1>3, <3>1 DEF InOrder
    <2>2. CASE ~(p.drop_stale_output /\ p.num_stale_output_tokens > 0)
      <3>1. DroppedTo(p, n) = 0
        BY <2>2 DEF DroppedTo
      <3>2. CASE Issued(steps, r)[n] = 0
        <4>1. \A m \in 0 + 1 .. n : r \notin DOMAIN steps[m]
          BY <1>2, <1>4, <3>2, MarksFlat, SMTT(30)
        <4> QED BY <1>2, <1>3, <3>1, <4>1 DEF InOrder
      <3>3. CASE Issued(steps, r)[n] # 0
        <4>1. ~(q.drop_stale_output /\ q.num_stale_output_tokens > 0)
          BY <1>3, <1>4, <1>5, <2>2, <3>3
        <4>2. DroppedTo(q, k) = 0
          BY <4>1 DEF DroppedTo
        <4> QED BY <1>1, <1>3, <3>1, <4>2 DEF LiveFrom, InOrder
      <3> QED BY <3>2, <3>3
    <2> QED BY <2>1, <2>2
  <1>11. LiveFrom(p, r, steps, e, G, n)
    BY <1>2, <1>8, <1>9, <1>10 DEF LiveFrom
  <1> QED BY <1>3, <1>7, <1>11 DEF Live

(* A request that waits has nothing it is waited for.                       *)
LEMMA WaitingLive ==
  ASSUME NEW q, NEW r, NEW steps, StepsFit(steps), NEW e, NEW F,
         q.status # "RUNNING", Live(q, r, steps, e, F)
  PROVE LiveFrom(q, r, steps, e, F, Len(steps)) /\ q.num_output_placeholders = 0
  <1>1. PICK k : LiveFrom(q, r, steps, e, F, k)
    BY DEF Live
  <1>2. k = Len(steps) /\ Len(steps) \in 0 .. Len(steps)
    BY <1>1 DEF LiveFrom
  <1>3. Awaited(steps, r)[k] \in Nat
    BY <1>2, MarksMono
  <1> QED BY <1>1, <1>2, <1>3 DEF LiveFrom, Counts

(* ScheduleWaiting: a request that may run is admitted.                     *)
LEMMA LiveAdmit ==
  ASSUME NEW r \in Requests, NEW q, q \in RequestType, NEW p,
         NEW steps, StepsFit(steps), NEW e, NEW F, NEW G, r \in G,
         q.status # "RUNNING", ~OutputsPending(q), Live(q, r, steps, e, F),
         NEW hit, hit \in Int, 0 <= hit, hit < q.num_tokens,
         p.num_computed_tokens = hit,
         p.num_tokens = q.num_tokens,
         p.num_output_placeholders = q.num_output_placeholders,
         p.num_in_flight_tokens = q.num_in_flight_tokens,
         p.num_stale_output_tokens = q.num_stale_output_tokens,
         p.drop_stale_output = q.drop_stale_output,
         p.next_decode_eligible_step = q.next_decode_eligible_step
  PROVE Live(p, r, steps, e, G)
  <1>1. PICK k : k = Len(steps) /\ LiveFrom(q, r, steps, e, F, k) /\ q.num_output_placeholders = 0
    BY WaitingLive
  <1>2. Bounds(q, r) /\ q.num_tokens \in Int /\ q.num_stale_output_tokens \in Int
    BY RequestFields DEF Live
  <1>3. Bounds(p, r)
    BY <1>1, <1>2, BoundsAre, ConstantTypes DEF Bounds
  <1>4. Counts(p, r, steps, k)
    BY <1>1 DEF LiveFrom, Counts
  <1>5. InOrder(p, r, steps, G, k)
    <2>1. DroppedTo(p, k) = DroppedTo(q, k)
      BY DEF DroppedTo
    <2> QED BY <1>1, <2>1 DEF LiveFrom, InOrder
  <1>6. Spaced(p, r, steps, e, k)
    BY <1>1 DEF LiveFrom, Spaced
  <1>7. LiveFrom(p, r, steps, e, G, k)
    BY <1>1, <1>4, <1>5, <1>6 DEF LiveFrom
  <1>8. p.num_stale_output_tokens = 0 \/ p.drop_stale_output
    <2>1. q.num_stale_output_tokens >= 0
      <3>1. k \in 0 .. Len(steps) /\ q.num_stale_output_tokens = Issued(steps, r)[k]
        BY <1>1 DEF LiveFrom, Counts
      <3>2. Issued(steps, r)[k] \in Nat
        BY <3>1, MarksMono
      <3> QED BY <3>1, <3>2
    <2> QED BY <1>2, <2>1 DEF OutputsPending
  <1> QED BY <1>3, <1>7, <1>8 DEF Live

(* BeginSchedule: the clock goes on.                                        *)
LEMMA LiveBegin ==
  ASSUME NEW r \in Requests, NEW q, q \in RequestType,
         NEW p, p = [q EXCEPT !.next_decode_eligible_step = IF @ = 0 THEN 0 ELSE @ - 1],
         NEW steps, StepsFit(steps), NEW F, NEW G, r \in G <=> r \in F, Live(q, r, steps, 0, F)
  PROVE Live(p, r, steps, 1, G)
  <1>1. PICK k : LiveFrom(q, r, steps, 0, F, k)
    BY DEF Live
  <1>2. PICK c : c = q.next_decode_eligible_step /\ c \in Nat
    BY RequestFields
  <1>3. PICK d : d = (IF c = 0 THEN 0 ELSE c - 1) /\ d \in Nat /\ d >= c - 1
    BY <1>2
  <1>4. /\ p.next_decode_eligible_step = d
        /\ p.num_tokens = q.num_tokens /\ p.num_computed_tokens = q.num_computed_tokens
        /\ p.num_output_placeholders = q.num_output_placeholders
        /\ p.num_in_flight_tokens = q.num_in_flight_tokens
        /\ p.num_stale_output_tokens = q.num_stale_output_tokens
        /\ p.drop_stale_output = q.drop_stale_output
        /\ p.worker_len = q.worker_len /\ p.status = q.status
    <2>1. p = [q EXCEPT !.next_decode_eligible_step = d]
      BY <1>2, <1>3
    <2>2. d \in Nat
      BY <1>3
    <2> QED BY <2>1, <2>2 DEF RequestType
  <1>5. Counts(p, r, steps, k)
    BY <1>1, <1>4 DEF LiveFrom, Counts
  <1>6. InOrder(p, r, steps, G, k)
    <2>1. DroppedTo(p, k) = DroppedTo(q, k)
      BY <1>4 DEF DroppedTo
    <2> QED BY <1>1, <1>4, <2>1 DEF LiveFrom, InOrder
  <1>7. Spaced(p, r, steps, 1, k)
    <2>1. k \in Int /\ Len(steps) \in Nat
      BY <1>1 DEF LiveFrom, StepsFit
    <2>2. ASSUME NEW i \in k + 1 .. Len(steps), Samples(steps[i], r)
          PROVE d >= PpSize - (Len(steps) - i) - 1
      <3>1. c >= PpSize - (Len(steps) - i) - 0
        BY <1>1, <1>2, <2>2 DEF LiveFrom, Spaced
      <3> QED BY <1>2, <1>3, <2>1, <3>1, ConstantTypes, SMTT(30)
    <2> QED BY <1>1, <1>4, <2>2 DEF LiveFrom, Spaced
  <1>8. Bounds(p, r)
    BY <1>4 DEF Live, Bounds
  <1>9. LiveFrom(p, r, steps, 1, G, k)
    BY <1>1, <1>4, <1>5, <1>6, <1>7 DEF LiveFrom
  <1> QED BY <1>4, <1>8, <1>9 DEF Live

(* EndSchedule, for a request that is not in the step.                      *)
LEMMA LiveIssueOther ==
  ASSUME NEW r \in Requests, NEW q, q \in RequestType,
         NEW steps, StepsFit(steps), NEW step, step \in Steps, StepFits(step), r \notin DOMAIN step,
         NEW after, after = Append(steps, step),
         NEW F, r \notin F, NEW G, r \notin G, Live(q, r, steps, 1, F)
  PROVE Live(q, r, after, 0, G)
  <1>1. PICK k : LiveFrom(q, r, steps, 1, F, k)
    BY DEF Live
  <1>2. PICK n : n = Len(steps) /\ n \in Nat /\ k \in 0 .. n /\ n \in 0 .. n
    BY <1>1 DEF LiveFrom, StepsFit
  <1>3. /\ Len(after) = n + 1
        /\ \A i \in 1 .. n : after[i] = steps[i]
        /\ after[n + 1] = step /\ ~Samples(step, r)
        /\ \A i \in 0 .. n : /\ Issued(after, r)[i] = Issued(steps, r)[i]
                             /\ Awaited(after, r)[i] = Awaited(steps, r)[i]
                             /\ Certain(after, r)[i] = Certain(steps, r)[i]
                             /\ Made(after, r)[i] = Made(steps, r)[i]
    BY <1>2, MarksAppend DEF Samples
  <1>4. /\ Issued(steps, r)[n] \in Nat /\ Awaited(steps, r)[n] \in Nat
        /\ Certain(steps, r)[n] \in Nat /\ Made(steps, r)[n] \in Nat
    BY <1>2, MarksMono
  <1>5. /\ Issued(after, r)[n + 1] = Issued(steps, r)[n]
        /\ Awaited(after, r)[n + 1] = Awaited(steps, r)[n]
        /\ Certain(after, r)[n + 1] = Certain(steps, r)[n]
        /\ Made(after, r)[n + 1] = Made(steps, r)[n]
    BY <1>2, <1>3, <1>4, MarksAppend
  <1>6. PICK m : m = (IF q.status = "RUNNING" THEN k ELSE n + 1) /\ m \in 0 .. n + 1
    BY <1>2
  <1>7. q.status # "RUNNING" => k = n
    BY <1>1, <1>2 DEF LiveFrom
  <1>8. Counts(q, r, after, m)
    BY <1>1, <1>2, <1>3, <1>4, <1>5, <1>6, <1>7 DEF LiveFrom, Counts
  <1>9. InOrder(q, r, after, G, m)
    <2>1. ASSUME NEW i \in DroppedTo(q, m) + 1 .. n + 1, r \in DOMAIN after[i]
          PROVE after[i][r].first =
                  q.num_tokens + 1 + Made(after, r)[i - 1] - Made(after, r)[DroppedTo(q, m)]
      <3>1. DroppedTo(q, m) \in {0, m}
        BY DEF DroppedTo
      <3>2. i # n + 1 /\ i \in Int
        BY <1>3, <1>6, <2>1, <3>1
      <3>3. i <= n /\ DroppedTo(q, m) <= n /\ DroppedTo(q, m) >= 0 /\ DroppedTo(q, m) \in Int
        BY <1>2, <1>6, <3>1, <3>2
      <3>4. DroppedTo(q, m) = DroppedTo(q, k)
        BY <1>6, <1>7, <3>1, <3>3 DEF DroppedTo
      <3>5. i \in DroppedTo(q, k) + 1 .. n /\ i \in 1 .. n /\ i - 1 \in 0 .. n
            /\ DroppedTo(q, k) \in 0 .. n
        BY <1>2, <3>2, <3>3, <3>4
      <3>6. steps[i][r].first = q.num_tokens + 1 + Made(steps, r)[i - 1] - Made(steps, r)[DroppedTo(q, k)]
        BY <1>1, <1>2, <1>3, <2>1, <3>5 DEF LiveFrom, InOrder
      <3> QED BY <1>3, <3>4, <3>5, <3>6
    <2>2. ASSUME q.status = "RUNNING"
          PROVE q.worker_len = q.num_tokens + Made(after, r)[n + 1] - Made(after, r)[DroppedTo(q, m)]
      <3>1. m = k /\ DroppedTo(q, k) \in {0, k}
        BY <1>6, <2>2 DEF DroppedTo
      <3>2. DroppedTo(q, k) \in 0 .. n
        BY <1>2, <3>1
      <3>3. q.worker_len = q.num_tokens + Made(steps, r)[n] - Made(steps, r)[DroppedTo(q, k)]
        BY <1>1, <1>2, <2>2 DEF LiveFrom, InOrder
      <3> QED BY <1>3, <1>5, <3>1, <3>2, <3>3
    <2> QED BY <1>3, <2>1, <2>2 DEF InOrder
  <1>10. Spaced(q, r, after, 0, m)
    <2>1. Bounds(q, r) /\ q.num_tokens \in Int /\ q.next_decode_eligible_step \in Nat
      BY RequestFields DEF Live
    <2>2. CASE q.status # "RUNNING"
      <3>1. m = n + 1 /\ m + 1 .. n + 1 = {}
        BY <1>2, <1>6, <2>2
      <3>2. q.num_tokens + Certain(after, r)[n + 1] - Certain(after, r)[m] <= NumPrompt[r] + MaxTokens[r]
        BY <1>4, <1>5, <2>1, <3>1, BoundsAre, ConstantTypes, SMTT(30)
      <3> QED BY <1>3, <3>1, <3>2 DEF Spaced
    <2>3. CASE q.status = "RUNNING"
      <3>1. m = k
        BY <1>6, <2>3
      <3>2. q.num_tokens + Certain(after, r)[n + 1] - Certain(after, r)[m] <= NumPrompt[r] + MaxTokens[r]
        BY <1>1, <1>2, <1>3, <1>5, <3>1 DEF LiveFrom, Spaced
      <3>3. ASSUME NEW i \in m + 1 .. n + 1, Samples(after[i], r)
            PROVE /\ q.next_decode_eligible_step >= PpSize - (Len(after) - i) - 0
                  /\ \A j \in i + 1 .. n + 1 : Samples(after[j], r) => j - i >= PpSize
        <4>1. i \in k + 1 .. n /\ i \in 1 .. n /\ Samples(steps[i], r)
          <5>1. i # n + 1 /\ i \in Int
            BY <1>3, <3>3
          <5>2. i \in k + 1 .. n /\ i \in 1 .. n
            BY <1>2, <3>1, <5>1
          <5> QED BY <1>3, <3>3, <5>2
        <4>2. q.next_decode_eligible_step >= PpSize - (n - i) - 1
          BY <1>1, <1>2, <4>1 DEF LiveFrom, Spaced
        <4>3. ASSUME NEW j \in i + 1 .. n + 1, Samples(after[j], r) PROVE j - i >= PpSize
          <5>1. j # n + 1 /\ j \in Int
            BY <1>3, <4>3
          <5>2. j \in i + 1 .. n /\ j \in 1 .. n
            BY <1>2, <4>1, <5>1
          <5>3. Samples(steps[j], r)
            BY <1>3, <4>3, <5>2
          <5> QED BY <1>1, <1>2, <4>1, <5>2, <5>3 DEF LiveFrom, Spaced
        <4>4. q.next_decode_eligible_step >= PpSize - (Len(after) - i) - 0
          BY <1>2, <1>3, <2>1, <4>1, <4>2, ConstantTypes
        <4> QED BY <4>3, <4>4
      <3>4. m + 1 .. Len(after) = m + 1 .. n + 1 /\ \A i : i + 1 .. Len(after) = i + 1 .. n + 1
        BY <1>3
      <3> QED BY <1>3, <3>2, <3>3, <3>4 DEF Spaced
    <2> QED BY <2>2, <2>3
  <1>11. LiveFrom(q, r, after, 0, G, m)
    BY <1>3, <1>6, <1>8, <1>9, <1>10 DEF LiveFrom
  <1> QED BY <1>11 DEF Live

(* EndSchedule, for a request that is in the step.                          *)
LEMMA ShareFits ==
  ASSUME NEW r \in Requests, NEW q, q \in RequestType, NEW p, NEW g, g \in GrantType,
         GrantOK(q, r, g), NEW a, a \in 0 .. g.spec, NEW s, IssuedTo(q, p, g, a, s)
  PROVE /\ s.n = g.n /\ s.n >= 1 /\ s.n \in Int
        /\ s.spec = g.spec /\ s.spec \in 0 .. NumSpecTokens
        /\ s.sampled \in 0 .. 1 + s.spec /\ s.sampled \in Int
        /\ s.sampled > 0 <=> ~(Drafts(q, g.n) < 0)
  <1>1. /\ s.n = g.n /\ s.spec = g.spec
        /\ s.sampled = (IF Drafts(q, g.n) < 0 THEN 0 ELSE 1 + a)
    BY DEF IssuedTo
  <1>2. g.n \in Int /\ g.n >= 1 /\ g.spec \in 0 .. NumSpecTokens
    BY DEF GrantOK, Grantable, GrantType
  <1>3. g.spec \in Nat /\ a \in Nat /\ a <= g.spec
    BY <1>2, ConstantTypes
  <1> QED BY <1>1, <1>2, <1>3

(* With h placeholders and c of x tokens computed, m more are issued.       *)
Ahead(h, c, x) == IF h > 0 THEN c = x + h - 1 ELSE c < x
Further(h, c, x, m, w, y, u) ==
  LET d == c + m - x - h
  IN /\ h \in Int /\ c \in Int /\ x \in Int /\ h >= 0
     /\ m \in Int /\ m >= 1 /\ w \in Nat /\ y \in Int
     /\ (y > 0 <=> d >= 0) /\ w = (IF d > 0 THEN d ELSE 0)
     /\ u = h + (IF y > 0 THEN 1 + w ELSE 0)

LEMMA PlaceholdersAhead ==
  ASSUME NEW h, NEW c, NEW x, NEW m, NEW w, NEW y, NEW u, Further(h, c, x, m, w, y, u), Ahead(h, c, x)
  PROVE Ahead(u, c + m, x)
  BY DEF Further, Ahead

(* o is the first of z positions behind v + x - y.                          *)
Behind(v, x, y, z, o) == v \in Int /\ x \in Int /\ y \in Int /\ z \in Int /\ o = v + 1 + x - y
LEMMA Shift ==
  ASSUME NEW v, NEW x, NEW y, NEW z, NEW o, Behind(v, x, y, z, o)
  PROVE o - 1 + z = v + (x + z) - y
  BY DEF Behind

LEMMA LiveIssue ==
  ASSUME NEW r \in Requests, NEW q, q \in RequestType, q.status = "RUNNING",
         NEW steps, StepsFit(steps), Len(steps) <= PpSize,
         NEW step, step \in Steps, StepFits(step), r \in DOMAIN step,
         NEW after, after = Append(steps, step),
         NEW g, g \in GrantType, GrantOK(q, r, g), NEW a, a \in 0 .. g.spec,
         NEW p, IssuedTo(q, p, g, a, step[r]),
         NEW F, r \in F <=> g.resumed, NEW G, r \notin G, Live(q, r, steps, 1, F)
  PROVE Live(p, r, after, 0, G) /\ p.num_computed_tokens >= 0 /\ p.num_output_placeholders >= 0
        /\ p.num_in_flight_tokens >= 0
  <1>1. PICK k : LiveFrom(q, r, steps, 1, F, k)
    BY DEF Live
  <1>2. PICK n : n = Len(steps) /\ n \in Nat /\ k \in 0 .. n /\ n \in 0 .. n /\ 0 \in 0 .. n
                 /\ n <= PpSize
    BY <1>1 DEF LiveFrom, StepsFit
  <1>3. PICK s : s = step[r]
    OBVIOUS
  <1>4. /\ s.n = g.n /\ s.n >= 1 /\ s.n \in Int
        /\ s.spec = g.spec /\ s.spec \in 0 .. NumSpecTokens /\ s.spec \in Nat
        /\ s.sampled \in 0 .. 1 + s.spec /\ s.sampled \in Int
        /\ s.sampled > 0 <=> ~(Drafts(q, g.n) < 0)
    BY <1>3, ShareFits, ConstantTypes
  <1>5. /\ Len(after) = n + 1
        /\ \A i \in 1 .. n : after[i] = steps[i]
        /\ after[n + 1] = step
        /\ \A i \in 0 .. n : /\ Issued(after, r)[i] = Issued(steps, r)[i]
                             /\ Awaited(after, r)[i] = Awaited(steps, r)[i]
                             /\ Certain(after, r)[i] = Certain(steps, r)[i]
                             /\ Made(after, r)[i] = Made(steps, r)[i]
    BY <1>2, MarksAppend
  <1>6. /\ \A i \in 0 .. n : /\ Issued(steps, r)[i] \in Nat /\ Awaited(steps, r)[i] \in Nat
                             /\ Certain(steps, r)[i] \in Nat /\ Made(steps, r)[i] \in Nat
        /\ Issued(steps, r)[0] = 0
        /\ Awaited(steps, r)[k] <= Awaited(steps, r)[n] /\ Certain(steps, r)[k] <= Certain(steps, r)[n]
    <2>1. ASSUME NEW i \in 0 .. n
          PROVE /\ Issued(steps, r)[i] \in Nat /\ Awaited(steps, r)[i] \in Nat
                /\ Certain(steps, r)[i] \in Nat /\ Made(steps, r)[i] \in Nat
      <3>1. i \in 0 .. Len(steps) /\ i <= i
        BY <1>2
      <3> QED BY <3>1, MarksMono
    <2>2. k <= n
      BY <1>2
    <2> QED BY <1>2, <2>1, <2>2, MarksMono, MarksZero
  <1>7. /\ Issued(steps, r)[n] \in Nat /\ Issued(steps, r)[k] \in Nat
        /\ Awaited(steps, r)[n] \in Nat /\ Awaited(steps, r)[k] \in Nat
        /\ Awaited(steps, r)[k] <= Awaited(steps, r)[n]
        /\ Issued(after, r)[k] = Issued(steps, r)[k] /\ Awaited(after, r)[k] = Awaited(steps, r)[k]
    BY <1>2, <1>5, <1>6
  <1>8. Samples(step, r) <=> s.sampled > 0
    BY <1>3 DEF Samples
  <1>9. /\ Issued(after, r)[n + 1] = Issued(steps, r)[n] + s.n
        /\ Awaited(after, r)[n + 1] = Awaited(steps, r)[n] + (IF s.sampled > 0 THEN 1 + s.spec ELSE 0)
        /\ Certain(after, r)[n + 1] = Certain(steps, r)[n] + (IF s.sampled > 0 THEN 1 ELSE 0)
        /\ Made(after, r)[n + 1] = Made(steps, r)[n] + s.sampled
    BY <1>2, <1>3, <1>8, MarksAppend
  <1>10. /\ q.num_tokens \in Int /\ q.num_computed_tokens \in Int /\ q.num_output_placeholders \in Int
         /\ q.worker_len \in Int /\ q.next_decode_eligible_step \in Nat
         /\ q.num_in_flight_tokens = Issued(steps, r)[n]
         /\ q.num_stale_output_tokens = Issued(steps, r)[k]
         /\ q.num_output_placeholders = Awaited(steps, r)[n] - Awaited(steps, r)[k]
         /\ q.num_output_placeholders >= 0
    <2>1. /\ q.num_in_flight_tokens = Issued(steps, r)[n]
          /\ q.num_stale_output_tokens = Issued(steps, r)[k]
          /\ q.num_output_placeholders = Awaited(steps, r)[n] - Awaited(steps, r)[k]
      BY <1>1, <1>2 DEF LiveFrom, Counts
    <2>2. q.num_output_placeholders >= 0
      BY <1>7, <2>1
    <2> QED BY <2>1, <2>2, RequestFields
  <1>11. /\ p.status = q.status /\ p.num_tokens = q.num_tokens
         /\ p.num_stale_output_tokens = q.num_stale_output_tokens
         /\ p.drop_stale_output = q.drop_stale_output
         /\ p.num_computed_tokens = q.num_computed_tokens + s.n
         /\ p.num_in_flight_tokens = q.num_in_flight_tokens + s.n
         /\ p.num_output_placeholders =
              q.num_output_placeholders + (IF s.sampled > 0 THEN 1 + s.spec ELSE 0)
         /\ p.next_decode_eligible_step =
              (IF s.sampled > 0 THEN PpSize ELSE q.next_decode_eligible_step)
         /\ s.first = (IF g.resumed THEN q.num_tokens ELSE q.worker_len) + 1
         /\ p.worker_len = s.first - 1 + s.sampled
    BY <1>3, <1>4 DEF IssuedTo
  <1>12. /\ q.num_computed_tokens + s.n < MaxModelLen
         /\ g.resumed \/ (~AtMaxTokens(q, r) /\ q.next_decode_eligible_step = 0)
         /\ s.spec = IF Drafts(q, s.n) > 0 THEN Drafts(q, s.n) ELSE 0
    BY <1>4 DEF GrantOK, Grantable
  <1>13. PICK d : d = q.num_computed_tokens + s.n - q.num_tokens - q.num_output_placeholders
                  /\ d = Drafts(q, s.n) /\ d \in Int
    BY <1>4, <1>10, SMTT(30) DEF Drafts
  <1>14. (s.sampled > 0 <=> d >= 0) /\ s.spec = IF d > 0 THEN d ELSE 0
    BY <1>4, <1>12, <1>13
  <1>15. /\ q.num_tokens >= 1 /\ q.num_tokens < NumPrompt[r] + MaxTokens[r]
         /\ q.num_tokens + 1 <= NumPrompt[r] + MaxTokens[r]
         /\ NumPrompt[r] + MaxTokens[r] \in Int
         /\ q.num_computed_tokens >= 0
         /\ IF q.num_output_placeholders > 0
            THEN q.num_computed_tokens = q.num_tokens + q.num_output_placeholders - 1
            ELSE q.num_computed_tokens < q.num_tokens
    <2>1. Bounds(q, r)
      BY DEF Live
    <2>2. q.num_tokens >= 1 /\ q.num_tokens < NumPrompt[r] + MaxTokens[r]
      BY <2>1, BoundsAre
    <2>3. NumPrompt[r] + MaxTokens[r] \in Int
      BY ConstantTypes
    <2> QED BY <1>10, <2>1, <2>2, <2>3 DEF Bounds
  <1>16. /\ p.num_output_placeholders \in Int /\ p.num_output_placeholders >= 0
         /\ p.num_computed_tokens >= 0 /\ p.num_computed_tokens < MaxModelLen
         /\ IF p.num_output_placeholders > 0
            THEN p.num_computed_tokens = p.num_tokens + p.num_output_placeholders - 1
            ELSE p.num_computed_tokens < p.num_tokens
    <2>1. PICK h, c, x : h = q.num_output_placeholders /\ c = q.num_computed_tokens /\ x = q.num_tokens
                         /\ h \in Int /\ c \in Int /\ x \in Int /\ h >= 0
      BY <1>10
    <2>2. PICK m, w, y : m = s.n /\ w = s.spec /\ y = s.sampled /\ m \in Int /\ w \in Nat /\ y \in Int
                         /\ m >= 1
      BY <1>4
    <2>3. /\ d = c + m - x - h /\ (y > 0 <=> d >= 0) /\ w = IF d > 0 THEN d ELSE 0
      BY <1>13, <1>14, <2>1, <2>2
    <2>4. IF h > 0 THEN c = x + h - 1 ELSE c < x
      BY <1>15, <2>1
    <2>5. PICK u : u = h + (IF y > 0 THEN 1 + w ELSE 0) /\ u \in Int /\ u >= 0
      BY <2>1, <2>2, SMTT(30)
    <2>6. Ahead(u, c + m, x)
      <3>1. Further(h, c, x, m, w, y, u)
        BY <2>1, <2>2, <2>3, <2>5 DEF Further
      <3>2. Ahead(h, c, x)
        BY <2>4 DEF Ahead
      <3> QED BY <3>1, <3>2, PlaceholdersAhead
    <2>7. c + m >= 0 /\ c + m < MaxModelLen
      BY <1>12, <1>15, <2>1, <2>2
    <2> QED BY <1>11, <2>1, <2>2, <2>5, <2>6, <2>7 DEF Ahead
  <1>17. Bounds(p, r)
    BY <1>11, <1>16 DEF Live, Bounds
  <1>18. Counts(p, r, after, k)
    <2>1. p.num_in_flight_tokens = Issued(after, r)[n + 1]
      BY <1>9, <1>10, <1>11
    <2>2. p.num_stale_output_tokens = Issued(after, r)[k]
      BY <1>10, <1>11, <1>7
    <2>3. p.num_output_placeholders = Awaited(after, r)[n + 1] - Awaited(after, r)[k]
      <3>1. PICK w : w = (IF s.sampled > 0 THEN 1 + s.spec ELSE 0) /\ w \in Int
        BY <1>4
      <3> QED BY <1>9, <1>10, <1>11, <1>7, <3>1
    <2> QED BY <1>5, <2>1, <2>2, <2>3 DEF Counts
  <1>19. r \in F => k = n
    BY <1>1, <1>2 DEF LiveFrom
  <1>20. PICK t : t = DroppedTo(q, k) /\ t = DroppedTo(p, k) /\ t \in {0, k} /\ t \in 0 .. n
    <2>1. DroppedTo(p, k) = DroppedTo(q, k) /\ DroppedTo(q, k) \in {0, k}
      BY <1>11 DEF DroppedTo
    <2> QED BY <1>2, <2>1
  <1>21. s.first = q.num_tokens + 1 + Made(steps, r)[n] - Made(steps, r)[t]
    <2>1. Made(steps, r)[n] \in Nat /\ Made(steps, r)[t] \in Nat
      BY <1>2, <1>6, <1>20
    <2>2. CASE ~g.resumed
      <3>1. q.worker_len = q.num_tokens + Made(steps, r)[n] - Made(steps, r)[t]
        BY <1>1, <1>2, <1>20, <2>2 DEF LiveFrom, InOrder
      <3> QED BY <1>10, <1>11, <2>1, <2>2, <3>1, SMTT(30)
    <2>3. CASE g.resumed
      <3>1. k = n
        BY <1>19, <2>3
      <3>2. Made(steps, r)[n] = Made(steps, r)[t]
        <4>1. CASE t = k
          BY <3>1, <4>1
        <4>2. CASE t # k
          <5>1. t = 0 /\ ~(q.drop_stale_output /\ q.num_stale_output_tokens > 0)
            BY <1>20, <4>2 DEF DroppedTo
          <5>2. q.num_stale_output_tokens = 0
            <6>1. q.num_stale_output_tokens = 0 \/ q.drop_stale_output
              BY DEF Live
            <6>2. q.num_stale_output_tokens \in Nat
              BY <1>2, <1>6, <1>10
            <6> QED BY <5>1, <6>1, <6>2
          <5>3. Issued(steps, r)[0] = Issued(steps, r)[n]
            BY <1>6, <1>10, <3>1, <5>2
          <5>4. \A m \in 0 + 1 .. n : r \notin DOMAIN steps[m]
            BY <1>2, <5>3, MarksFlat
          <5>5. \A m \in 0 + 1 .. n : ~Samples(steps[m], r)
            BY <5>4 DEF Samples
          <5>6. Made(steps, r)[n] = Made(steps, r)[0]
            BY <1>2, <5>5, MarksFlat, SMTT(30)
          <5> QED BY <5>1, <5>6
        <4> QED BY <4>1, <4>2
      <3> QED BY <1>10, <1>11, <2>1, <2>3, <3>2
    <2> QED BY <2>2, <2>3
  <1>22. InOrder(p, r, after, G, k)
    <2>1. ASSUME NEW i \in t + 1 .. n + 1, r \in DOMAIN after[i]
          PROVE after[i][r].first = p.num_tokens + 1 + Made(after, r)[i - 1] - Made(after, r)[t]
      <3>1. CASE i = n + 1
        <4>1. i - 1 = n
          BY <1>2, <3>1
        <4> QED BY <1>2, <1>3, <1>5, <1>11, <1>20, <1>21, <3>1, <4>1
      <3>2. CASE i # n + 1
        <4>1. i \in t + 1 .. n /\ i \in 1 .. n /\ i - 1 \in 0 .. n
          BY <1>2, <1>20, <3>2
        <4>2. steps[i][r].first = q.num_tokens + 1 + Made(steps, r)[i - 1] - Made(steps, r)[t]
          BY <1>1, <1>2, <1>5, <1>20, <2>1, <4>1 DEF LiveFrom, InOrder
        <4> QED BY <1>5, <1>11, <1>20, <4>1, <4>2
      <3> QED BY <3>1, <3>2
    <2>2. p.worker_len = p.num_tokens + Made(after, r)[n + 1] - Made(after, r)[t]
      <3>1. Made(steps, r)[n] \in Nat /\ Made(steps, r)[t] \in Nat
        BY <1>2, <1>6, <1>20
      <3>2. PICK x, y, z : x = Made(steps, r)[n] /\ y = Made(steps, r)[t] /\ z = s.sampled
                           /\ x \in Int /\ y \in Int /\ z \in Int
        BY <1>4, <3>1
      <3>3. Made(after, r)[n + 1] = x + z /\ Made(after, r)[t] = y
        BY <1>5, <1>9, <1>20, <3>2
      <3>4. p.worker_len = q.num_tokens + (x + z) - y
        <4>1. p.worker_len = s.first - 1 + s.sampled
          BY <1>11
        <4>2. PICK v, o : v = q.num_tokens /\ v \in Int /\ o = s.first
          BY <1>10
        <4>3. o = v + 1 + x - y
          BY <1>21, <3>2, <4>2
        <4>4. Behind(v, x, y, z, o)
          BY <3>2, <4>2, <4>3 DEF Behind
        <4>5. o - 1 + z = v + (x + z) - y
          BY <4>4, Shift
        <4> QED BY <3>2, <4>1, <4>2, <4>5
      <3>5. p.num_tokens = q.num_tokens
        BY <1>11
      <3> QED BY <3>3, <3>4, <3>5
    <2> QED BY <1>5, <1>20, <2>1, <2>2 DEF InOrder
  <1>23. ASSUME NEW i \in k + 1 .. n, Samples(steps[i], r)
         PROVE /\ q.next_decode_eligible_step >= PpSize - (n - i) - 1
               /\ \A j \in i + 1 .. n : Samples(steps[j], r) => j - i >= PpSize
    BY <1>1, <1>2, <1>23 DEF LiveFrom, Spaced
  <1>24. ASSUME ~g.resumed, NEW i \in k + 1 .. n, Samples(steps[i], r)
         PROVE i <= n + 1 - PpSize /\ i = 1
    <2>1. q.next_decode_eligible_step = 0
      BY <1>12, <1>24
    <2>2. 0 >= PpSize - (n - i) - 1
      BY <1>23, <1>24, <2>1
    <2>3. PICK b : b = PpSize /\ b \in Nat /\ n <= b /\ n \in Nat /\ i \in Int /\ i >= 1
      BY <1>2, ConstantTypes
    <2>4. b - (n - i) - 1 <= 0
      BY <2>2, <2>3
    <2>5. i <= n + 1 - b /\ i = 1
      BY <2>3, <2>4
    <2> QED BY <2>3, <2>5
  <1>25. p.num_tokens + Certain(after, r)[n + 1] - Certain(after, r)[k] <= NumPrompt[r] + MaxTokens[r]
    <2>1. q.num_tokens + Certain(steps, r)[n] - Certain(steps, r)[k] <= NumPrompt[r] + MaxTokens[r]
      BY <1>1, <1>2 DEF LiveFrom, Spaced
    <2>2. Certain(steps, r)[n] \in Nat /\ Certain(steps, r)[k] \in Nat
          /\ Certain(after, r)[k] = Certain(steps, r)[k]
      BY <1>2, <1>5, <1>6
    <2>3. CASE ~(s.sampled > 0)
      BY <1>9, <1>11, <2>1, <2>2, <2>3
    <2>4. CASE s.sampled > 0 /\ \A i \in k + 1 .. n : ~Samples(steps[i], r)
      <3>1. Certain(steps, r)[n] = Certain(steps, r)[k]
        <4>1. k \in 0 .. Len(steps) /\ n \in 0 .. Len(steps) /\ k <= n
          BY <1>2
        <4> QED BY <2>4, <4>1, MarksFlat
      <3> QED BY <1>9, <1>10, <1>11, <1>15, <2>2, <2>4, <3>1
    <2>5. CASE s.sampled > 0 /\ \E i \in k + 1 .. n : Samples(steps[i], r)
      <3>1. PICK i \in k + 1 .. n : Samples(steps[i], r)
        BY <2>5
      <3>2. ~g.resumed
        BY <1>2, <1>19, <3>1
      <3>3. i = 1 /\ k = 0 /\ n >= 1
        BY <1>2, <1>24, <3>1, <3>2
      <3>4. \A m \in 1 + 1 .. n : ~Samples(steps[m], r)
        <4> SUFFICES ASSUME NEW m \in 1 + 1 .. n, Samples(steps[m], r) PROVE FALSE
          OBVIOUS
        <4>1. m \in k + 1 .. n /\ m # 1
          BY <1>2, <3>3
        <4> QED BY <1>24, <3>2, <4>1
      <3>5. Certain(steps, r)[n] = Certain(steps, r)[1]
        <4>1. 1 \in 0 .. Len(steps) /\ n \in 0 .. Len(steps) /\ 1 <= n
          BY <1>2, <3>3
        <4> QED BY <3>4, <4>1, MarksFlat
      <3>6. Certain(steps, r)[1] <= Certain(steps, r)[0] + 1
        <4>1. 1 \in 1 .. Len(steps) /\ 1 - 1 = 0
          BY <1>2, <3>3
        <4> QED BY <4>1, MarksZero
      <3>7. q.num_output_placeholders > 0
        <4>1. k \in 0 .. Len(steps) /\ n \in 0 .. Len(steps) /\ k <= n
          BY <1>2
        <4>2. i \in 1 .. Len(steps) /\ r \in DOMAIN steps[i] /\ steps[i][r].sampled > 0
          BY <1>2, <3>1, <3>3 DEF Samples
        <4>3. steps[i][r].spec \in Nat
          BY <4>2, ShareIs
        <4>4. Awaited(steps, r)[k] + 1 + steps[i][r].spec <= Awaited(steps, r)[n]
          BY <3>1, <4>1, <4>2, MarksMono
        <4> QED BY <1>10, <1>7, <4>3, <4>4, SMTT(30)
      <3>8. q.num_tokens + 2 <= NumPrompt[r] + MaxTokens[r]
        <4>1. ~(q.num_computed_tokens + 2 - q.num_output_placeholders >= NumPrompt[r] + MaxTokens[r])
          BY <1>12, <3>2, <3>7 DEF AtMaxTokens
        <4> QED BY <1>10, <1>15, <3>7, <4>1, SMTT(30)
      <3>9. Certain(after, r)[n + 1] = Certain(steps, r)[n] + 1
        BY <1>9, <2>5
      <3>10. PICK c, y, x, m : /\ c = Certain(steps, r)[n] /\ y = Certain(steps, r)[k]
                               /\ x = q.num_tokens /\ m = NumPrompt[r] + MaxTokens[r]
        OBVIOUS
      <3>11. c \in Nat /\ y \in Nat /\ x \in Int /\ m \in Int /\ c <= y + 1 /\ x + 2 <= m
        <4>1. c \in Nat /\ y \in Nat
          BY <2>2, <3>10
        <4>2. x \in Int
          BY <1>10, <3>10
        <4>3. m \in Int
          BY <3>10, ConstantTypes
        <4>4. c <= y + 1
          BY <3>3, <3>5, <3>6, <3>10
        <4>5. x + 2 <= m
          BY <3>8, <3>10
        <4> QED BY <4>1, <4>2, <4>3, <4>4, <4>5
      <3>12. x + (c + 1) - y <= m
        BY <3>11
      <3>13. p.num_tokens = x /\ Certain(after, r)[n + 1] = c + 1 /\ Certain(after, r)[k] = y
        BY <1>11, <2>2, <3>9, <3>10
      <3> QED BY <3>10, <3>12, <3>13
    <2> QED BY <2>3, <2>4, <2>5
  <1>26. ASSUME NEW i \in k + 1 .. n + 1, Samples(after[i], r)
         PROVE /\ p.next_decode_eligible_step >= PpSize - (Len(after) - i) - 0
               /\ \A j \in i + 1 .. n + 1 : Samples(after[j], r) => j - i >= PpSize
    <2>1. CASE i = n + 1
      <3>1. s.sampled > 0
        BY <1>5, <1>8, <1>26, <2>1
      <3>2. p.next_decode_eligible_step = PpSize
        BY <1>11, <3>1
      <3>3. i + 1 .. n + 1 = {}
        BY <1>2, <2>1
      <3>4. PpSize >= PpSize - (Len(after) - i) - 0
        BY <1>2, <1>5, <2>1, ConstantTypes
      <3> QED BY <3>2, <3>3, <3>4
    <2>2. CASE i # n + 1
      <3>1. i \in k + 1 .. n /\ i \in 1 .. n /\ i \in Int
        BY <1>2, <2>2
      <3>2. Samples(steps[i], r)
        BY <1>5, <1>26, <3>1
      <3>3. q.next_decode_eligible_step >= PpSize - (n - i) - 1
        BY <1>23, <3>1, <3>2
      <3>4. p.next_decode_eligible_step >= PpSize - (Len(after) - i) - 0
        BY <1>2, <1>5, <1>10, <1>11, <3>1, <3>3, ConstantTypes
      <3>5. ASSUME NEW j \in i + 1 .. n + 1, Samples(after[j], r) PROVE j - i >= PpSize
        <4>1. CASE j = n + 1
          <5>1. ~g.resumed
            BY <1>2, <1>19, <3>1
          <5>2. i <= n + 1 - PpSize
            BY <1>24, <3>1, <3>2, <5>1
          <5> QED BY <1>2, <3>1, <4>1, <5>2, ConstantTypes
        <4>2. CASE j # n + 1
          <5>1. j \in i + 1 .. n /\ j \in 1 .. n
            BY <1>2, <3>1, <4>2
          <5>2. Samples(steps[j], r)
            BY <1>5, <3>5, <5>1
          <5> QED BY <1>23, <3>1, <3>2, <5>1, <5>2
        <4> QED BY <4>1, <4>2
      <3> QED BY <3>4, <3>5
    <2> QED BY <2>1, <2>2
  <1>27. Spaced(p, r, after, 0, k)
    <2>1. k + 1 .. Len(after) = k + 1 .. n + 1 /\ \A i : i + 1 .. Len(after) = i + 1 .. n + 1
      BY <1>5
    <2> QED BY <1>5, <1>25, <1>26, <2>1 DEF Spaced
  <1>28. LiveFrom(p, r, after, 0, G, k)
    <2>1. k \in 0 .. Len(after)
      BY <1>2, <1>5
    <2> QED BY <1>11, <1>18, <1>22, <1>27, <2>1 DEF LiveFrom
  <1>29. p.status = "RUNNING" => p.num_stale_output_tokens = 0 \/ p.drop_stale_output
    BY <1>11 DEF Live
  <1>30. p.num_in_flight_tokens >= 0
    <2>1. p.num_in_flight_tokens = Issued(steps, r)[n] + s.n
      BY <1>10, <1>11
    <2> QED BY <1>4, <1>7, <2>1
  <1> QED BY <1>16, <1>17, <1>28, <1>29, <1>30 DEF Live

-----------------------------------------------------------------------------
(* The oldest step leaves the queue.                                        *)
TailMarks(steps, after, r, n) ==
  /\ StepsFit(after) /\ Len(after) = n - 1 /\ n \in Nat /\ n >= 1
  /\ \A j \in 1 .. n - 1 : after[j] = steps[j + 1] /\ j + 1 \in 1 .. n
  /\ \A j \in 0 .. n - 1 :
       /\ Issued(after, r)[j] = Issued(steps, r)[j + 1] - Issued(steps, r)[1]
       /\ Awaited(after, r)[j] = Awaited(steps, r)[j + 1] - Awaited(steps, r)[1]
       /\ Certain(after, r)[j] = Certain(steps, r)[j + 1] - Certain(steps, r)[1]
       /\ Made(after, r)[j] = Made(steps, r)[j + 1] - Made(steps, r)[1]

LEMMA MarksBehind ==
  ASSUME NEW steps, StepsFit(steps), steps # <<>>, NEW r, NEW after, after = Tail(steps),
         NEW n, n = Len(steps)
  PROVE TailMarks(steps, after, r, n)
  <1>1. n \in Nat /\ n >= 1
    BY DEF StepsFit
  <1>2. StepsFit(after) /\ Len(after) = n - 1
    BY MarksTail
  <1>3. ASSUME NEW j \in 1 .. n - 1 PROVE after[j] = steps[j + 1] /\ j + 1 \in 1 .. n
    <2>1. j + 1 \in 2 .. n /\ j + 1 \in 1 .. n /\ (j + 1) - 1 = j
      BY <1>1
    <2>2. after[(j + 1) - 1] = steps[j + 1]
      BY <2>1, MarksTail
    <2> QED BY <2>1, <2>2
  <1>4. ASSUME NEW j \in 0 .. n - 1
        PROVE /\ Issued(after, r)[j] = Issued(steps, r)[j + 1] - Issued(steps, r)[1]
              /\ Awaited(after, r)[j] = Awaited(steps, r)[j + 1] - Awaited(steps, r)[1]
              /\ Certain(after, r)[j] = Certain(steps, r)[j + 1] - Certain(steps, r)[1]
              /\ Made(after, r)[j] = Made(steps, r)[j + 1] - Made(steps, r)[1]
    <2>1. PICK i \in 1 .. n : i = j + 1 /\ i - 1 = j
      BY <1>1
    <2>2. /\ Issued(after, r)[i - 1] = Issued(steps, r)[i] - Issued(steps, r)[1]
          /\ Awaited(after, r)[i - 1] = Awaited(steps, r)[i] - Awaited(steps, r)[1]
          /\ Certain(after, r)[i - 1] = Certain(steps, r)[i] - Certain(steps, r)[1]
          /\ Made(after, r)[i - 1] = Made(steps, r)[i] - Made(steps, r)[1]
      BY MarksTail
    <2> QED BY <2>1, <2>2
  <1> QED BY <1>1, <1>2, <1>3, <1>4 DEF TailMarks

(* x and y count from marks a and c that are b apart.                       *)
Moved(x, y, a, b, c) ==
  /\ x \in Int /\ y \in Int /\ a \in Int /\ b \in Int /\ c \in Int
  /\ y - c = x - a + b
LEMMA MovedBy ==
  ASSUME NEW x, NEW y, NEW a, NEW b, NEW c, Moved(x, y, a, b, c), NEW v, v \in Int
  PROVE x + 1 + v - a = y + 1 + (v - b) - c /\ x + v - a = y + (v - b) - c
  BY DEF Moved

LEMMA TailInOrder ==
  ASSUME NEW steps, StepsFit(steps), steps # <<>>, NEW r, NEW after, after = Tail(steps),
         NEW n, n = Len(steps), NEW q, NEW p, q.num_tokens \in Int, p.num_tokens \in Int,
         NEW F, r \notin F, NEW G, NEW k, NEW m, InOrder(q, r, steps, F, k),
         NEW t, t = DroppedTo(q, k), t \in 0 .. n, NEW u, u = DroppedTo(p, m), u \in 0 .. n - 1,
         p.num_tokens - Made(after, r)[u] = q.num_tokens - Made(steps, r)[t] + Made(steps, r)[1],
         p.worker_len = q.worker_len, p.status = "RUNNING" => q.status = "RUNNING",
         \A j \in u + 1 .. n - 1 : r \in DOMAIN after[j] => j >= t
  PROVE InOrder(p, r, after, G, m)
  <1>1. /\ StepsFit(after) /\ Len(after) = n - 1 /\ n \in Nat /\ n >= 1
        /\ \A j \in 1 .. n - 1 : after[j] = steps[j + 1] /\ j + 1 \in 1 .. n
        /\ \A j \in 0 .. n - 1 : Made(after, r)[j] = Made(steps, r)[j + 1] - Made(steps, r)[1]
    <2>1. TailMarks(steps, after, r, n)
      BY MarksBehind
    <2> QED BY <2>1 DEF TailMarks
  <1>2. \A j \in 0 .. n : Made(steps, r)[j] \in Nat
    BY MarksMono
  <1>3. ASSUME NEW j \in 0 .. n - 1 PROVE Made(after, r)[j] \in Nat
    <2>1. j \in 0 .. Len(after) /\ j <= j
      BY <1>1
    <2> QED BY <1>1, <2>1, MarksMono
  <1>4. PICK a, b, c : /\ a = Made(steps, r)[t] /\ b = Made(steps, r)[1] /\ c = Made(after, r)[u]
                       /\ a \in Int /\ b \in Int /\ c \in Int
    <2>1. Made(steps, r)[t] \in Nat /\ Made(steps, r)[1] \in Nat /\ Made(after, r)[u] \in Nat
      BY <1>1, <1>2, <1>3
    <2> QED BY <2>1
  <1>5. PICK x, y : x = q.num_tokens /\ y = p.num_tokens /\ Moved(x, y, a, b, c)
    BY <1>4 DEF Moved
  <1>6. ASSUME NEW j \in u + 1 .. n - 1, r \in DOMAIN after[j]
        PROVE after[j][r].first = p.num_tokens + 1 + Made(after, r)[j - 1] - Made(after, r)[u]
    <2>1. j \in 1 .. n - 1 /\ j >= t /\ j - 1 \in 0 .. n - 1 /\ (j - 1) + 1 = j /\ j \in 0 .. n
      BY <1>1, <1>6
    <2>2. PICK i : i = j + 1 /\ i \in t + 1 .. n /\ i \in 1 .. n /\ i - 1 = j /\ after[j] = steps[i]
      <3>1. j + 1 \in t + 1 .. n /\ j + 1 \in 1 .. n /\ (j + 1) - 1 = j
        BY <1>1, <2>1
      <3>2. after[j] = steps[j + 1]
        BY <1>1, <2>1
      <3> QED BY <3>1, <3>2
    <2>3. steps[i][r].first = x + 1 + Made(steps, r)[j] - a
      BY <1>4, <1>5, <1>6, <2>2 DEF InOrder
    <2>4. PICK v : v = Made(steps, r)[j] /\ v \in Int
      BY <1>2, <2>1
    <2>5. Made(after, r)[j - 1] = v - b
      BY <1>1, <1>4, <2>1, <2>4
    <2>6. x + 1 + v - a = y + 1 + (v - b) - c
      BY <1>5, <2>4, MovedBy
    <2> QED BY <1>4, <1>5, <2>2, <2>3, <2>4, <2>5, <2>6
  <1>7. ASSUME p.status = "RUNNING"
        PROVE p.worker_len = p.num_tokens + Made(after, r)[n - 1] - Made(after, r)[u]
    <2>1. PICK v : v = Made(steps, r)[n] /\ v \in Int
      BY <1>1, <1>2
    <2>2. q.worker_len = x + v - a
      BY <1>4, <1>5, <1>7, <2>1 DEF InOrder
    <2>3. n - 1 \in 0 .. n - 1 /\ (n - 1) + 1 = n
      BY <1>1
    <2>4. Made(after, r)[n - 1] = v - b
      BY <1>1, <1>4, <2>1, <2>3
    <2>5. x + v - a = y + (v - b) - c
      BY <1>5, <2>1, MovedBy
    <2> QED BY <1>4, <1>5, <2>2, <2>4, <2>5
  <1> QED BY <1>1, <1>6, <1>7 DEF InOrder

LEMMA TailSpaced ==
  ASSUME NEW steps, StepsFit(steps), steps # <<>>, NEW r, NEW after, after = Tail(steps),
         NEW n, n = Len(steps), NEW q, NEW p,
         p.next_decode_eligible_step = q.next_decode_eligible_step,
         NEW k, k \in 0 .. n, NEW m, m \in 0 .. n - 1, k <= m + 1, Spaced(q, r, steps, 0, k),
         p.num_tokens + Certain(after, r)[n - 1] - Certain(after, r)[m] <= NumPrompt[r] + MaxTokens[r]
  PROVE Spaced(p, r, after, 0, m)
  <1>1. /\ Len(after) = n - 1 /\ n \in Nat /\ n >= 1
        /\ \A j \in 1 .. n - 1 : after[j] = steps[j + 1] /\ j + 1 \in 1 .. n
    <2>1. TailMarks(steps, after, r, n)
      BY MarksBehind
    <2> QED BY <2>1 DEF TailMarks
  <1>2. ASSUME NEW i \in m + 1 .. n - 1, Samples(after[i], r)
        PROVE /\ p.next_decode_eligible_step >= PpSize - (Len(after) - i) - 0
              /\ \A j \in i + 1 .. n - 1 : Samples(after[j], r) => j - i >= PpSize
    <2>1. PICK h : h = i + 1 /\ h \in k + 1 .. n /\ after[i] = steps[h] /\ i \in 1 .. n - 1 /\ h \in Int
      <3>1. i \in 1 .. n - 1 /\ i + 1 \in k + 1 .. n
        BY <1>1
      <3> QED BY <1>1, <3>1
    <2>2. q.next_decode_eligible_step >= PpSize - (n - h) - 0
      BY <1>2, <2>1 DEF Spaced
    <2>3. n - h = Len(after) - i
      BY <1>1, <2>1
    <2>4. ASSUME NEW j \in i + 1 .. n - 1, Samples(after[j], r) PROVE j - i >= PpSize
      <3>1. PICK l : l = j + 1 /\ l \in h + 1 .. n /\ after[j] = steps[l]
        <4>1. j \in 1 .. n - 1 /\ j + 1 \in h + 1 .. n
          BY <1>1, <2>1
        <4> QED BY <1>1, <4>1
      <3>2. l - h >= PpSize
        BY <1>2, <2>1, <2>4, <3>1 DEF Spaced
      <3>3. l - h = j - i
        BY <1>1, <2>1, <3>1
      <3> QED BY <3>2, <3>3
    <2> QED BY <2>2, <2>3, <2>4
  <1>3. m + 1 .. Len(after) = m + 1 .. n - 1 /\ \A i : i + 1 .. Len(after) = i + 1 .. n - 1
    BY <1>1
  <1> QED BY <1>1, <1>2, <1>3 DEF Spaced

(* update_from_output, for a request that is not in the step.               *)
LEMMA LiveUpdateOther ==
  ASSUME NEW r \in Requests, NEW q, q \in RequestType,
         NEW steps, StepsFit(steps), steps # <<>>, r \notin DOMAIN steps[1],
         NEW after, after = Tail(steps), NEW F, r \notin F, NEW G, r \notin G, Live(q, r, steps, 0, F)
  PROVE Live(q, r, after, 0, G)
  <1>1. PICK k : LiveFrom(q, r, steps, 0, F, k)
    BY DEF Live
  <1>2. PICK n : n = Len(steps) /\ n \in Nat /\ n >= 1 /\ k \in 0 .. n /\ 1 \in 0 .. n
    BY <1>1 DEF LiveFrom, StepsFit
  <1>3. PICK m : m = (IF k = 0 THEN 0 ELSE k - 1) /\ m \in 0 .. n - 1 /\ k <= m + 1
    BY <1>2
  <1>4. /\ Issued(steps, r)[0] = 0 /\ Awaited(steps, r)[0] = 0
        /\ Certain(steps, r)[0] = 0 /\ Made(steps, r)[0] = 0
        /\ Issued(steps, r)[1] = 0 /\ Awaited(steps, r)[1] = 0
        /\ Certain(steps, r)[1] = 0 /\ Made(steps, r)[1] = 0
    BY MarksFirst DEF Samples
  <1>5. ASSUME NEW j \in 0 .. n
        PROVE /\ Issued(steps, r)[j] \in Nat /\ Awaited(steps, r)[j] \in Nat
              /\ Certain(steps, r)[j] \in Nat /\ Made(steps, r)[j] \in Nat
    BY <1>2, MarksMono
  <1>6. ASSUME NEW j \in 0 .. n
        PROVE LET i == IF j = 0 THEN 0 ELSE j - 1 IN
              /\ Issued(after, r)[i] = Issued(steps, r)[j] /\ Awaited(after, r)[i] = Awaited(steps, r)[j]
              /\ Certain(after, r)[i] = Certain(steps, r)[j] /\ Made(after, r)[i] = Made(steps, r)[j]
    <2>1. PICK i : i = (IF j = 0 THEN 0 ELSE j - 1) /\ i \in 0 .. n - 1 /\ (j = 0 \/ i + 1 = j)
                   /\ (j = 0 => i + 1 = 1)
      BY <1>2
    <2>2. /\ Issued(after, r)[i] = Issued(steps, r)[i + 1] - 0
          /\ Awaited(after, r)[i] = Awaited(steps, r)[i + 1] - 0
          /\ Certain(after, r)[i] = Certain(steps, r)[i + 1] - 0
          /\ Made(after, r)[i] = Made(steps, r)[i + 1] - 0
      <3>1. TailMarks(steps, after, r, n)
        BY <1>2, MarksBehind
      <3> QED BY <1>4, <2>1, <3>1 DEF TailMarks
    <2>3. CASE j = 0
      <3>1. i + 1 = 1
        BY <2>1, <2>3
      <3> QED BY <1>4, <2>1, <2>2, <2>3, <3>1
    <2>4. CASE j # 0
      <3>1. i + 1 = j
        BY <2>1, <2>4
      <3> QED BY <1>5, <2>1, <2>2, <3>1
    <2> QED BY <2>3, <2>4
  <1>7. /\ Len(after) = n - 1
        /\ Issued(after, r)[n - 1] = Issued(steps, r)[n] /\ Awaited(after, r)[n - 1] = Awaited(steps, r)[n]
        /\ Certain(after, r)[n - 1] = Certain(steps, r)[n] /\ Made(after, r)[n - 1] = Made(steps, r)[n]
        /\ Issued(after, r)[m] = Issued(steps, r)[k] /\ Awaited(after, r)[m] = Awaited(steps, r)[k]
        /\ Certain(after, r)[m] = Certain(steps, r)[k] /\ Made(after, r)[m] = Made(steps, r)[k]
    <2>1. n \in 0 .. n /\ n # 0
      BY <1>2
    <2>2. /\ Issued(after, r)[n - 1] = Issued(steps, r)[n] /\ Awaited(after, r)[n - 1] = Awaited(steps, r)[n]
          /\ Certain(after, r)[n - 1] = Certain(steps, r)[n] /\ Made(after, r)[n - 1] = Made(steps, r)[n]
      BY <1>6, <2>1
    <2>3. /\ Issued(after, r)[m] = Issued(steps, r)[k] /\ Awaited(after, r)[m] = Awaited(steps, r)[k]
          /\ Certain(after, r)[m] = Certain(steps, r)[k] /\ Made(after, r)[m] = Made(steps, r)[k]
      BY <1>2, <1>3, <1>6
    <2>4. Len(after) = n - 1
      <3>1. TailMarks(steps, after, r, n)
        BY <1>2, MarksBehind
      <3> QED BY <3>1 DEF TailMarks
    <2> QED BY <2>2, <2>3, <2>4
  <1>8. Counts(q, r, after, m)
    BY <1>1, <1>2, <1>7 DEF LiveFrom, Counts
  <1>9. Spaced(q, r, after, 0, m)
    <2>1. Spaced(q, r, steps, 0, k)
      BY <1>1 DEF LiveFrom
    <2>2. q.num_tokens + Certain(after, r)[n - 1] - Certain(after, r)[m] <= NumPrompt[r] + MaxTokens[r]
      BY <1>2, <1>7, <2>1 DEF Spaced
    <2>3. n = Len(steps) /\ k \in 0 .. n /\ m \in 0 .. n - 1 /\ k <= m + 1
      BY <1>2, <1>3
    <2> QED BY <2>1, <2>2, <2>3, TailSpaced
  <1>10. InOrder(q, r, after, G, m)
    <2>1. PICK t : t = DroppedTo(q, k) /\ t \in {0, k} /\ t \in 0 .. n
      <3>1. DroppedTo(q, k) \in {0, k}
        BY DEF DroppedTo
      <3> QED BY <1>2, <3>1
    <2>2. PICK u : /\ u = DroppedTo(q, m) /\ u = (IF t = 0 THEN 0 ELSE t - 1) /\ u \in 0 .. n - 1
      <3>1. DroppedTo(q, m) = IF DroppedTo(q, k) = 0 THEN 0 ELSE DroppedTo(q, k) - 1
        BY <1>2, <1>3 DEF DroppedTo
      <3> QED BY <1>2, <2>1, <3>1
    <2>3. Made(after, r)[u] = Made(steps, r)[t] /\ Made(steps, r)[t] \in Nat
      BY <1>5, <1>6, <2>1, <2>2
    <2>4. q.num_tokens \in Int
      BY RequestFields
    <2>5. q.num_tokens - Made(after, r)[u] = q.num_tokens - Made(steps, r)[t] + Made(steps, r)[1]
      BY <1>4, <2>3, <2>4
    <2>6. \A j \in u + 1 .. n - 1 : j >= t
      BY <1>2, <2>1, <2>2
    <2>7. InOrder(q, r, steps, F, k)
      BY <1>1 DEF LiveFrom
    <2> QED BY <1>2, <2>1, <2>2, <2>4, <2>5, <2>6, <2>7, TailInOrder
  <1>11. q.status # "RUNNING" => m = n - 1
    BY <1>1, <1>2, <1>3 DEF LiveFrom
  <1>12. LiveFrom(q, r, after, 0, G, m)
    BY <1>3, <1>7, <1>8, <1>9, <1>10, <1>11 DEF LiveFrom
  <1> QED BY <1>12 DEF Live

(* Steps that sample nothing for r between two marks.                       *)
Quiet(steps, r, a, b) == \A m \in a + 1 .. b : ~Samples(steps[m], r)
LEMMA QuietFlat ==
  ASSUME NEW steps, StepsFit(steps), NEW r, NEW a, a \in 0 .. Len(steps),
         NEW b, b \in 0 .. Len(steps), a <= b, Quiet(steps, r, a, b)
  PROVE /\ Certain(steps, r)[b] = Certain(steps, r)[a]
        /\ Made(steps, r)[b] = Made(steps, r)[a]
  BY MarksFlat DEF Quiet

(* No token was issued to r in the first m steps.                           *)
Silent(steps, r, m) ==
  (\A j \in 1 .. m : r \notin DOMAIN steps[j]) /\ Made(steps, r)[m] = Made(steps, r)[0]
LEMMA NoneIssued ==
  ASSUME NEW steps, StepsFit(steps), NEW r, NEW m, m \in 0 .. Len(steps), Issued(steps, r)[m] = 0
  PROVE Silent(steps, r, m)
  <1>1. 0 \in 0 .. Len(steps) /\ 0 <= m /\ 0 + 1 = 1
    BY DEF StepsFit
  <1>2. Issued(steps, r)[0] = Issued(steps, r)[m]
    BY MarksZero
  <1>3. \A j \in 0 + 1 .. m : r \notin DOMAIN steps[j]
    BY <1>1, <1>2, MarksFlat
  <1>4. Quiet(steps, r, 0, m)
    BY <1>3 DEF Quiet, Samples
  <1>5. Made(steps, r)[m] = Made(steps, r)[0]
    BY <1>1, <1>4, QuietFlat
  <1> QED BY <1>1, <1>3, <1>5 DEF Silent

(* Differences of marks.                                                    *)
Integers3(y, z, w) == y \in Int /\ z \in Int /\ w \in Int
LEMMA Cancel ==
  ASSUME NEW y, NEW z, NEW w, Integers3(y, z, w)
  PROVE y - z = (y - w) - (z - w)
  BY DEF Integers3
OneMore(v, b, y, z) ==
  v \in Int /\ b \in Int /\ y \in Int /\ z \in Int /\ v + 1 <= b /\ y <= z + 1
LEMMA OneMoreFits ==
  ASSUME NEW v, NEW b, NEW y, NEW z, OneMore(v, b, y, z)
  PROVE v + (y - z) - 0 <= b
  BY DEF OneMore

(* An output of y tokens for w drafts arrives, e of them rejected.          *)
Output(h, c, x, w, y, e) ==
  /\ h \in Int /\ c \in Int /\ x \in Int /\ x >= 1 /\ c >= 0 /\ h >= 0
  /\ w \in Nat /\ y \in Nat /\ y <= 1 + w
  /\ e = (IF y = 0 THEN 0 ELSE w + 1 - y)
  /\ y > 0 => h >= w + 1

LEMMA PlaceholdersBack ==
  ASSUME NEW h, NEW c, NEW x, NEW w, NEW y, NEW e, Output(h, c, x, w, y, e), Ahead(h, c, x)
  PROVE /\ e \in Nat /\ e + y = (IF y > 0 THEN 1 + w ELSE 0) /\ c - e >= 0 /\ c - e <= c
        /\ Ahead(h - (e + y), c - e, x + y)
  BY DEF Output, Ahead

LEMMA PlaceholdersEnd ==
  ASSUME NEW h, NEW c, NEW x, NEW w, NEW y, NEW e, Output(h, c, x, w, y, e), Ahead(h, c, x),
         NEW m, m \in Nat, m <= y
  PROVE h - (e + m) >= 0
  BY DEF Output, Ahead

(* The positions w come next.                                               *)
Continued(q, p, w, new) ==
  /\ new \in Nat /\ w \in Seq(Int) /\ Len(w) = new
  /\ p.delivered = q.delivered \o w /\ p.num_tokens = q.num_tokens + new
  /\ \A i \in 1 .. new : w[i] = q.num_tokens + i

LEMMA DeliveredMore ==
  ASSUME NEW r \in Requests, NEW q, q \in RequestType, NEW p, Delivered(q, r),
         NEW new, NEW w, Continued(q, p, w, new)
  PROVE Delivered(p, r)
  <1>1. /\ new \in Nat /\ w \in Seq(Int) /\ Len(w) = new
        /\ p.delivered = q.delivered \o w /\ p.num_tokens = q.num_tokens + new
        /\ \A i \in 1 .. new : w[i] = q.num_tokens + i
    BY DEF Continued
  <1>2. PICK d, l, b : /\ d = q.delivered /\ d \in Seq(Int) /\ l = Len(d) /\ l \in Nat
                       /\ b = NumPrompt[r] /\ b \in Nat
    <2>1. q.delivered \in Seq(Int) /\ NumPrompt[r] \in Nat
      BY RequestFields, ConstantTypes
    <2>2. Len(q.delivered) \in Nat
      BY <2>1
    <2> QED BY <2>1, <2>2
  <1>3. q.num_tokens = b + l /\ \A i \in 1 .. l : d[i] = b + i
    BY <1>2 DEF Delivered
  <1>4. /\ p.delivered = d \o w /\ Len(d \o w) = l + new
        /\ \A i \in 1 .. l + new : (d \o w)[i] = IF i <= l THEN d[i] ELSE w[i - l]
    <2>1. \A t, u \in Seq(Int) :
            /\ Len(t \o u) = Len(t) + Len(u)
            /\ \A i \in 1 .. Len(t) + Len(u) : (t \o u)[i] = IF i <= Len(t) THEN t[i] ELSE u[i - Len(t)]
      OBVIOUS
    <2> QED BY <1>1, <1>2, <2>1
  <1>5. p.num_tokens = b + (l + new)
    BY <1>1, <1>2, <1>3, SMTT(30)
  <1>6. ASSUME NEW i \in 1 .. l + new PROVE p.delivered[i] = b + i
    <2>1. CASE i <= l
      <3>1. i \in 1 .. l
        BY <1>1, <1>2, <2>1
      <3> QED BY <1>3, <1>4, <2>1, <3>1
    <2>2. CASE ~(i <= l)
      <3>1. i - l \in 1 .. new
        BY <1>1, <1>2, <2>2
      <3>2. w[i - l] = b + l + (i - l)
        BY <1>1, <1>3, <3>1
      <3>3. b + l + (i - l) = b + i
        BY <1>1, <1>2
      <3> QED BY <1>4, <2>2, <3>2, <3>3
    <2> QED BY <2>1, <2>2
  <1> QED BY <1>2, <1>4, <1>5, <1>6 DEF Delivered

(* update_from_output, for a request that is in the step.                   *)
LEMMA RequestUpdate ==
  ASSUME NEW r \in Requests, NEW q, q \in RequestType, q.status # "FINISHED",
         NEW steps, StepsFit(steps), steps # <<>>, Len(steps) <= PpSize + 1,
         r \in DOMAIN steps[1], NEW s, s = steps[1][r],
         NEW after, after = Tail(steps), NEW F, r \notin F, NEW G, r \notin G,
         RequestOK(q, r, steps, 0, F),
         NEW p, NEW new, Outcome(q, p, r, s, new)
  PROVE RequestOK(p, r, after, 0, G)
  <1>1. Live(q, r, steps, 0, F) /\ Delivered(q, r) /\ Naturals(q)
    BY DEF RequestOK
  <1>2. PICK k : LiveFrom(q, r, steps, 0, F, k)
    BY <1>1 DEF Live
  <1>3. PICK n : n = Len(steps) /\ n \in Nat /\ n >= 1 /\ k \in 0 .. n /\ 1 \in 0 .. n /\ 0 \in 0 .. n
                 /\ n \in 0 .. n /\ 1 \in 1 .. n /\ n <= PpSize + 1
    BY <1>2 DEF LiveFrom, StepsFit
  <1>4. /\ s.n \in Int /\ s.n >= 1 /\ s.spec \in Nat /\ s.sampled \in Nat /\ s.sampled <= 1 + s.spec
        /\ s.first \in Int
    BY <1>3, ShareIs
  <1>5. /\ Issued(steps, r)[0] = 0 /\ Awaited(steps, r)[0] = 0
        /\ Certain(steps, r)[0] = 0 /\ Made(steps, r)[0] = 0
        /\ Issued(steps, r)[1] = s.n
        /\ Awaited(steps, r)[1] = (IF s.sampled > 0 THEN 1 + s.spec ELSE 0)
        /\ Certain(steps, r)[1] = (IF s.sampled > 0 THEN 1 ELSE 0)
        /\ Made(steps, r)[1] = s.sampled
    BY MarksFirst DEF Samples
  <1>6. ASSUME NEW j \in 0 .. n
        PROVE /\ Issued(steps, r)[j] \in Nat /\ Awaited(steps, r)[j] \in Nat
              /\ Certain(steps, r)[j] \in Nat /\ Made(steps, r)[j] \in Nat
              /\ j >= 1 => /\ Issued(steps, r)[j] >= s.n
                           /\ Awaited(steps, r)[j] >= Awaited(steps, r)[1]
    <2>1. j \in 0 .. Len(steps) /\ j <= j
      BY <1>3
    <2>2. ASSUME j >= 1
          PROVE /\ Issued(steps, r)[j] >= Issued(steps, r)[1]
                /\ Awaited(steps, r)[j] >= Awaited(steps, r)[1]
      <3>1. 1 \in 0 .. Len(steps) /\ 1 <= j
        BY <1>3, <2>2
      <3>2. /\ Issued(steps, r)[1] \in Nat /\ Issued(steps, r)[j] \in Nat
            /\ Awaited(steps, r)[1] \in Nat /\ Awaited(steps, r)[j] \in Nat
            /\ Issued(steps, r)[1] <= Issued(steps, r)[j]
            /\ Awaited(steps, r)[1] <= Awaited(steps, r)[j]
        BY <2>1, <3>1, MarksMono
      <3> QED BY <3>2
    <2> QED BY <1>5, <2>1, <2>2, MarksMono
  <1>7. /\ q.num_tokens \in Int /\ q.num_computed_tokens \in Int /\ q.num_output_placeholders \in Int
        /\ q.num_in_flight_tokens = Issued(steps, r)[n]
        /\ q.num_stale_output_tokens = Issued(steps, r)[k]
        /\ q.num_output_placeholders = Awaited(steps, r)[n] - Awaited(steps, r)[k]
    BY <1>2, <1>3, RequestFields DEF LiveFrom, Counts
  <1>8. Issued(steps, r)[n] \in Nat /\ Issued(steps, r)[k] \in Nat
        /\ Awaited(steps, r)[n] \in Nat /\ Awaited(steps, r)[k] \in Nat /\ Awaited(steps, r)[1] \in Nat
    BY <1>3, <1>6
  <1>9. PICK room : room = Limit(r) - q.num_tokens /\ room \in Int /\ room >= 1
    <2>1. Bounds(q, r)
      BY <1>1 DEF Live
    <2>2. Limit(r) \in Int /\ q.num_tokens < Limit(r)
      BY <2>1, BoundsAre DEF Bounds
    <2> QED BY <1>7, <2>2
  <1> DEFINE stale == q.num_stale_output_tokens > 0
             dropped == stale /\ q.drop_stale_output
  <1>10. /\ dropped => new = 0
         /\ ~dropped => new = Lower(s.sampled, room)
         /\ new \in Nat /\ new <= s.sampled
         /\ ~dropped /\ p.status # "FINISHED" => new = s.sampled /\ new < room
    <2>1. new = (IF dropped THEN 0 ELSE Lower(s.sampled, room))
      BY <1>9 DEF Outcome
    <2>2. p.status = "FINISHED" \/ ~(new > 0 /\ new = room)
      BY <1>9 DEF Outcome
    <2>3. PICK l : l = Lower(s.sampled, room) /\ l \in Int /\ l <= s.sampled /\ l <= room
                   /\ (l = s.sampled \/ l = room)
      BY <1>4, <1>9, LowerIs
    <2> HIDE DEF dropped
    <2>4. CASE dropped
      BY <1>4, <2>1, <2>4
    <2>5. CASE ~dropped
      <3>1. new = l
        BY <2>1, <2>3, <2>5
      <3>2. new \in Nat /\ new <= s.sampled
        BY <1>4, <1>9, <2>3, <3>1
      <3>3. p.status # "FINISHED" => new = s.sampled /\ new < room
        BY <1>4, <1>9, <2>2, <2>3, <3>1
      <3> QED BY <2>3, <2>5, <3>1, <3>2, <3>3
    <2> QED BY <2>4, <2>5
  <1>11. /\ stale => k >= 1 /\ q.num_stale_output_tokens >= s.n
         /\ ~stale => k = 0 /\ q.status = "RUNNING" /\ q.num_stale_output_tokens = 0
    <2>1. k >= 1 => Issued(steps, r)[k] >= s.n
      BY <1>3, <1>6
    <2>2. q.status # "RUNNING" => k = n
      BY <1>2, <1>3 DEF LiveFrom
    <2>3. k = 0 => Issued(steps, r)[k] = 0
      BY <1>5
    <2>4. k = 0 \/ k >= 1
      BY <1>3
    <2> QED BY <1>3, <1>4, <1>7, <1>8, <2>1, <2>2, <2>3, <2>4, SMTT(30)
  <1>12. ~dropped => s.first = q.num_tokens + 1
    <2>1. SUFFICES ASSUME ~dropped PROVE s.first = q.num_tokens + 1
      OBVIOUS
    <2>2. DroppedTo(q, k) = 0
      BY <2>1 DEF DroppedTo
    <2>3. 1 \in DroppedTo(q, k) + 1 .. Len(steps) /\ 1 - 1 = 0
      BY <1>3, <2>2
    <2>4. s.first = q.num_tokens + 1 + Made(steps, r)[1 - 1] - Made(steps, r)[DroppedTo(q, k)]
      BY <1>2, <2>3 DEF LiveFrom, InOrder
    <2>5. s.first = q.num_tokens + 1 + 0 - 0
      BY <1>5, <2>2, <2>3, <2>4
    <2> QED BY <1>7, <2>5
  <1>13. PICK h, c, x : h = q.num_output_placeholders /\ c = q.num_computed_tokens /\ x = q.num_tokens
    OBVIOUS
  <1>14. Ahead(h, c, x) /\ x >= 1 /\ c >= 0 /\ h >= 0 /\ h \in Int /\ c \in Int /\ x \in Int
         /\ c < MaxModelLen /\ x >= NumPrompt[r]
    <2>1. Bounds(q, r)
      BY <1>1 DEF Live
    <2>2. x >= 1
      BY <1>13, <2>1, BoundsAre
    <2> QED BY <1>1, <1>7, <1>13, <2>1, <2>2 DEF Bounds, Ahead, Naturals
  <1>15. PICK e : e = (IF s.sampled = 0 THEN 0 ELSE s.spec + 1 - s.sampled)
    OBVIOUS
  <1>16. ~stale => Output(h, c, x, s.spec, s.sampled, e)
    <2>1. SUFFICES ASSUME ~stale PROVE Output(h, c, x, s.spec, s.sampled, e)
      OBVIOUS
    <2>2. k = 0
      BY <1>11, <2>1
    <2>3. h = Awaited(steps, r)[n]
      BY <1>5, <1>7, <1>8, <1>13, <2>2
    <2>4. Awaited(steps, r)[n] >= Awaited(steps, r)[1]
      BY <1>3, <1>6
    <2>5. s.sampled > 0 => h >= s.spec + 1
      BY <1>4, <1>5, <1>8, <2>3, <2>4
    <2> QED BY <1>4, <1>14, <1>15, <2>5 DEF Output
  <1>17. /\ p.num_in_flight_tokens = q.num_in_flight_tokens - s.n
         /\ p.num_stale_output_tokens = (IF stale THEN q.num_stale_output_tokens - s.n ELSE 0)
         /\ p.num_tokens = x + new
         /\ p.worker_len = q.worker_len /\ p.drop_stale_output = q.drop_stale_output
         /\ p.next_decode_eligible_step = q.next_decode_eligible_step
         /\ p.status = q.status \/ p.status = "FINISHED"
    BY <1>13 DEF Outcome
  <1>18. stale => p.num_computed_tokens = c /\ p.num_output_placeholders = h
    <2>1. SUFFICES ASSUME stale PROVE p.num_computed_tokens = c /\ p.num_output_placeholders = h
      OBVIOUS
    <2>2. p.num_computed_tokens = c - 0 /\ p.num_output_placeholders = h
      BY <1>13, <2>1 DEF Outcome
    <2> QED BY <1>14, <2>2
  <1>19. ~stale => p.num_computed_tokens = c - e /\ p.num_output_placeholders = h - (e + new)
    BY <1>13, <1>15 DEF Outcome
  <1>20. Delivered(p, r)
    <2>1. PICK w \in Seq(Int) : /\ p.delivered = q.delivered \o w
                                /\ new >= 0 => Len(w) = new /\ \A i \in 1 .. new : w[i] = s.first + i - 1
      BY DEF Outcome
    <2>2. Len(w) = new /\ \A i \in 1 .. new : w[i] = s.first + i - 1
      BY <1>10, <2>1
    <2>3. ASSUME NEW i \in 1 .. new PROVE w[i] = q.num_tokens + i
      <3>1. ~dropped
        BY <1>10
      <3>2. s.first = q.num_tokens + 1
        BY <1>12, <3>1
      <3>3. w[i] = s.first + i - 1
        BY <2>2
      <3>4. s.first + i - 1 = q.num_tokens + i
        BY <1>7, <1>10, <3>2
      <3> QED BY <3>3, <3>4
    <2>4. p.num_tokens = q.num_tokens + new /\ new \in Nat
      BY <1>10, <1>13, <1>17
    <2> HIDE DEF dropped, stale
    <2>5. Continued(q, p, w, new)
      BY <2>1, <2>2, <2>3, <2>4 DEF Continued
    <2> QED BY <1>1, <2>5, DeliveredMore
  <1>21. Naturals(p)
    <2>1. p.num_tokens >= 0
      BY <1>10, <1>14, <1>17
    <2>2. p.num_in_flight_tokens >= 0
      <3>1. Issued(steps, r)[n] >= s.n
        BY <1>3, <1>6
      <3> QED BY <1>4, <1>7, <1>8, <1>17, <3>1
    <2>3. p.num_stale_output_tokens >= 0
      BY <1>4, <1>7, <1>8, <1>11, <1>17
    <2>4. p.num_computed_tokens >= 0 /\ p.num_output_placeholders >= 0
      <3>1. CASE stale
        BY <1>14, <1>18, <3>1
      <3>2. CASE ~stale
        <4> HIDE DEF stale
        <4>1. Output(h, c, x, s.spec, s.sampled, e) /\ Ahead(h, c, x) /\ new \in Nat /\ new <= s.sampled
          BY <1>10, <1>14, <1>16, <3>2
        <4>2. c - e >= 0
          BY <4>1, PlaceholdersBack
        <4>3. h - (e + new) >= 0
          BY <4>1, PlaceholdersEnd
        <4> QED BY <1>19, <3>2, <4>2, <4>3
      <3> QED BY <3>1, <3>2
    <2>5. p.num_blocks >= 0
      BY <1>1 DEF Outcome, Naturals
    <2> QED BY <2>1, <2>2, <2>3, <2>4, <2>5 DEF Naturals
  <1>22. /\ StepsFit(after) /\ Len(after) = n - 1
         /\ \A j \in 0 .. n - 1 :
              /\ Issued(after, r)[j] = Issued(steps, r)[j + 1] - Issued(steps, r)[1]
              /\ Awaited(after, r)[j] = Awaited(steps, r)[j + 1] - Awaited(steps, r)[1]
              /\ Certain(after, r)[j] = Certain(steps, r)[j + 1] - Certain(steps, r)[1]
              /\ Made(after, r)[j] = Made(steps, r)[j + 1] - Made(steps, r)[1]
    <2>1. TailMarks(steps, after, r, n)
      BY <1>3, MarksBehind
    <2> QED BY <2>1 DEF TailMarks
  <1>23. /\ Issued(after, r)[n - 1] = Issued(steps, r)[n] - s.n
         /\ Awaited(after, r)[n - 1] = Awaited(steps, r)[n] - Awaited(steps, r)[1]
         /\ Certain(after, r)[n - 1] = Certain(steps, r)[n] - Certain(steps, r)[1]
         /\ Made(after, r)[n - 1] = Made(steps, r)[n] - s.sampled
    <2>1. n - 1 \in 0 .. n - 1 /\ (n - 1) + 1 = n
      BY <1>3
    <2> QED BY <1>5, <1>22, <2>1
  <1>24. /\ Issued(after, r)[0] = 0 /\ Awaited(after, r)[0] = 0
         /\ Certain(after, r)[0] = 0 /\ Made(after, r)[0] = 0
    BY <1>22, MarksZero
  <1>25. p.num_in_flight_tokens = Issued(after, r)[n - 1]
    BY <1>7, <1>17, <1>23
  <1>26. InOrder(q, r, steps, F, k) /\ Spaced(q, r, steps, 0, k)
    BY <1>2 DEF LiveFrom
  <1>27. q.status # "RUNNING" => k = n
    BY <1>2, <1>3 DEF LiveFrom
  <1>28. Limit(r) \in Int /\ Limit(r) <= MaxModelLen /\ Limit(r) <= NumPrompt[r] + MaxTokens[r]
         /\ NumPrompt[r] + MaxTokens[r] \in Int /\ NumPrompt[r] \in Nat /\ MaxModelLen \in Nat
    <2>1. Bounds(q, r)
      BY <1>1 DEF Live
    <2> QED BY <2>1, BoundsAre, ConstantTypes
  <1>29. p.num_tokens \in Int /\ p.num_tokens >= NumPrompt[r]
    BY <1>10, <1>14, <1>17, <1>28
  <1>30. p.status # "FINISHED" => p.num_tokens < Limit(r)
    <2>1. dropped \/ new < room \/ p.status = "FINISHED"
      BY <1>10
    <2>2. dropped => new < room
      BY <1>9, <1>10
    <2> HIDE DEF dropped
    <2> QED BY <1>9, <1>10, <1>13, <1>14, <1>17, <1>28, <2>1, <2>2, SMTT(30)
  <1>31. ASSUME p.status # "FINISHED", dropped PROVE Live(p, r, after, 0, G)
    <2>1. /\ stale /\ new = 0 /\ p.status = q.status /\ p.num_tokens = x
          /\ p.num_computed_tokens = c /\ p.num_output_placeholders = h
          /\ p.num_stale_output_tokens = q.num_stale_output_tokens - s.n
          /\ p.drop_stale_output
      <3>1. stale /\ new = 0
        BY <1>10, <1>31
      <3>2. p.num_tokens = x
        BY <1>14, <1>17, <3>1
      <3> QED BY <1>17, <1>18, <1>31, <3>1, <3>2
    <2>2. PICK m : m = k - 1 /\ m \in 0 .. n - 1 /\ m + 1 = k /\ k <= m + 1
      BY <1>3, <1>11, <2>1
    <2>3. /\ Issued(after, r)[m] = Issued(steps, r)[k] - s.n
          /\ Awaited(after, r)[m] = Awaited(steps, r)[k] - Awaited(steps, r)[1]
          /\ Certain(after, r)[m] = Certain(steps, r)[k] - Certain(steps, r)[1]
          /\ Made(after, r)[m] = Made(steps, r)[k] - s.sampled
      BY <1>5, <1>22, <2>2
    <2>4. Bounds(p, r)
      <3>1. Bounds(q, r)
        BY <1>1 DEF Live
      <3> QED BY <1>13, <2>1, <3>1 DEF Bounds
    <2>5. Counts(p, r, after, m)
      <3>1. p.num_stale_output_tokens = Issued(after, r)[m]
        BY <1>7, <2>1, <2>3
      <3>2. h = Awaited(after, r)[n - 1] - Awaited(after, r)[m]
        <4>1. PICK y, z, w : /\ y = Awaited(steps, r)[n] /\ z = Awaited(steps, r)[k]
                             /\ w = Awaited(steps, r)[1] /\ y \in Int /\ z \in Int /\ w \in Int
          BY <1>8
        <4>2. h = y - z /\ Awaited(after, r)[n - 1] = y - w /\ Awaited(after, r)[m] = z - w
          BY <1>7, <1>13, <1>23, <2>3, <4>1
        <4>3. Integers3(y, z, w)
          BY <4>1 DEF Integers3
        <4>4. y - z = (y - w) - (z - w)
          BY <4>3, Cancel
        <4> QED BY <4>2, <4>4
      <3> QED BY <1>22, <1>25, <2>1, <3>1, <3>2 DEF Counts
    <2>6. Spaced(p, r, after, 0, m)
      <3>1. PICK y, z, w : /\ y = Certain(steps, r)[n] /\ z = Certain(steps, r)[k]
                           /\ w = Certain(steps, r)[1] /\ y \in Int /\ z \in Int /\ w \in Int
        <4>1. Certain(steps, r)[n] \in Nat /\ Certain(steps, r)[k] \in Nat /\ Certain(steps, r)[1] \in Nat
          BY <1>3, <1>6
        <4> QED BY <4>1
      <3>2. x + y - z <= NumPrompt[r] + MaxTokens[r]
        BY <1>3, <1>13, <1>26, <3>1 DEF Spaced
      <3>3. Certain(after, r)[n - 1] = y - w /\ Certain(after, r)[m] = z - w
        BY <1>23, <2>3, <3>1
      <3>4. x + (y - w) - (z - w) = x + y - z
        BY <1>14, <3>1, SMTT(30)
      <3>5. p.num_tokens + Certain(after, r)[n - 1] - Certain(after, r)[m] <= NumPrompt[r] + MaxTokens[r]
        BY <2>1, <3>2, <3>3, <3>4
      <3>6. /\ n = Len(steps) /\ k \in 0 .. n /\ m \in 0 .. n - 1 /\ k <= m + 1
            /\ p.next_decode_eligible_step = q.next_decode_eligible_step
        BY <1>3, <1>17, <2>2
      <3> HIDE DEF dropped, stale
      <3> QED BY <1>26, <3>5, <3>6, TailSpaced
    <2>7. InOrder(p, r, after, G, m)
      <3>1. DroppedTo(q, k) = k
        BY <1>31 DEF DroppedTo
      <3>2. PICK u : /\ u = DroppedTo(p, m) /\ u \in 0 .. n - 1 /\ u \in {0, m}
                     /\ (u # m => p.num_stale_output_tokens = 0)
        <4>1. DroppedTo(p, m) \in {0, m}
          BY DEF DroppedTo
        <4>2. 0 \in 0 .. n - 1
          BY <1>3
        <4>3. p.num_stale_output_tokens \in Int /\ p.num_stale_output_tokens >= 0
          BY <1>4, <1>7, <1>8, <1>21, <2>1 DEF Naturals
        <4>4. DroppedTo(p, m) # m => p.num_stale_output_tokens = 0
          BY <2>1, <4>3 DEF DroppedTo
        <4> QED BY <2>2, <4>1, <4>2, <4>4
      <3>3. u # m => /\ \A j \in 0 + 1 .. m : r \notin DOMAIN after[j]
                     /\ Made(after, r)[m] = Made(after, r)[0]
        <4>1. SUFFICES ASSUME u # m
                       PROVE /\ \A j \in 0 + 1 .. m : r \notin DOMAIN after[j]
                             /\ Made(after, r)[m] = Made(after, r)[0]
          OBVIOUS
        <4>2. Issued(after, r)[0] = Issued(after, r)[m]
          BY <1>7, <1>24, <2>1, <2>3, <3>2, <4>1
        <4>3. m \in 0 .. Len(after) /\ Issued(after, r)[m] = 0 /\ StepsFit(after) /\ 0 + 1 = 1
          BY <1>22, <1>24, <2>2, <4>2
        <4>4. Silent(after, r, m)
          BY <4>3, NoneIssued
        <4> QED BY <4>3, <4>4 DEF Silent
      <3>4. Made(after, r)[u] = Made(steps, r)[k] - s.sampled
        BY <2>3, <3>2, <3>3
      <3>5. p.num_tokens - Made(after, r)[u] = q.num_tokens - Made(steps, r)[k] + Made(steps, r)[1]
        <4>1. PICK y, z : y = Made(steps, r)[k] /\ y \in Int /\ z = s.sampled /\ z \in Int
          BY <1>3, <1>4, <1>6
        <4>2. x - (y - z) = x - y + z
          BY <1>14, <4>1
        <4> QED BY <1>5, <1>13, <2>1, <3>4, <4>1, <4>2
      <3>6. ASSUME NEW j \in u + 1 .. n - 1, r \in DOMAIN after[j] PROVE j >= k
        <4>1. CASE u = m
          BY <1>3, <2>2, <3>2, <4>1
        <4>2. CASE u # m
          <5>1. u = 0 /\ j \notin 0 + 1 .. m
            BY <3>2, <3>3, <3>6, <4>2
          <5> QED BY <1>3, <2>2, <5>1
        <4> QED BY <4>1, <4>2
      <3>7. /\ q.num_tokens \in Int /\ p.num_tokens \in Int /\ k \in 0 .. n /\ n = Len(steps)
            /\ p.worker_len = q.worker_len /\ (p.status = "RUNNING" => q.status = "RUNNING")
        BY <1>3, <1>7, <1>17, <1>29, <2>1
      <3> HIDE DEF dropped, stale
      <3> QED BY <1>26, <3>1, <3>2, <3>5, <3>6, <3>7, TailInOrder
    <2>8. p.status # "RUNNING" => m = n - 1
      BY <1>27, <2>1, <2>2
    <2>9. LiveFrom(p, r, after, 0, G, m)
      BY <1>22, <2>2, <2>5, <2>6, <2>7, <2>8 DEF LiveFrom
    <2> QED BY <2>1, <2>4, <2>9 DEF Live
  <1>32. ASSUME p.status # "FINISHED", ~dropped
         PROVE /\ new = s.sampled /\ p.status = q.status /\ p.num_tokens = x + s.sampled
               /\ \A m : DroppedTo(q, k) = 0 /\ DroppedTo(p, m) = 0
               /\ p.num_tokens < Limit(r)
    <2>1. new = s.sampled /\ p.status = q.status /\ p.num_tokens = x + s.sampled /\ p.num_tokens < Limit(r)
      BY <1>10, <1>17, <1>30, <1>32
    <2>2. ~(q.drop_stale_output /\ q.num_stale_output_tokens > 0)
      BY <1>32
    <2>3. ~(p.drop_stale_output /\ p.num_stale_output_tokens > 0)
      BY <1>17, <2>2
    <2> QED BY <2>1, <2>2, <2>3 DEF DroppedTo
  <1>33. ASSUME p.status # "FINISHED", ~dropped, NEW m, m \in 0 .. n - 1
         PROVE InOrder(p, r, after, G, m)
    <2>1. p.num_tokens = x + s.sampled /\ DroppedTo(q, k) = 0 /\ DroppedTo(p, m) = 0
          /\ p.status = q.status
      BY <1>32, <1>33
    <2>2. p.num_tokens - Made(after, r)[0] = q.num_tokens - Made(steps, r)[0] + Made(steps, r)[1]
      <3>1. PICK z : z = s.sampled /\ z \in Int
        BY <1>4
      <3>2. (x + z) - 0 = x - 0 + z
        BY <1>14, <3>1
      <3> QED BY <1>5, <1>13, <1>24, <2>1, <3>1, <3>2
    <2>3. /\ q.num_tokens \in Int /\ p.num_tokens \in Int /\ 0 \in 0 .. n /\ n = Len(steps)
          /\ 0 \in 0 .. n - 1
          /\ p.worker_len = q.worker_len /\ (p.status = "RUNNING" => q.status = "RUNNING")
      BY <1>3, <1>7, <1>17, <1>29, <2>1
    <2>4. \A j \in 0 + 1 .. n - 1 : j >= 0
      BY <1>3
    <2> HIDE DEF dropped, stale
    <2> QED BY <1>26, <2>1, <2>2, <2>3, <2>4, TailInOrder
  <1>34. ASSUME p.status # "FINISHED", ~dropped, stale PROVE Live(p, r, after, 0, G)
    <2>1. new = s.sampled /\ p.status = q.status /\ p.num_tokens = x + s.sampled
          /\ p.num_tokens < Limit(r)
      BY <1>32, <1>34
    <2>2. q.status # "RUNNING" /\ k = n
      <3>1. q.status = "RUNNING" => q.num_stale_output_tokens = 0 \/ q.drop_stale_output
        BY <1>1 DEF Live
      <3>2. q.num_stale_output_tokens # 0
        BY <1>7, <1>8, <1>34
      <3> QED BY <1>27, <1>34, <3>1, <3>2
    <2>3. /\ p.num_computed_tokens = c /\ p.num_output_placeholders = h
          /\ p.num_stale_output_tokens = q.num_stale_output_tokens - s.n
      BY <1>17, <1>18, <1>34
    <2>4. h = 0
      BY <1>7, <1>8, <1>13, <2>2
    <2>5. Bounds(p, r)
      <3>1. c < x
        BY <1>14, <2>4 DEF Ahead
      <3>2. c < x + s.sampled
        BY <1>4, <1>14, <3>1
      <3> QED BY <1>14, <1>29, <2>1, <2>3, <2>4, <3>2 DEF Bounds
    <2>6. n - 1 \in 0 .. n - 1 /\ n - 1 \in 0 .. Len(after)
      BY <1>3, <1>22
    <2>7. Counts(p, r, after, n - 1)
      <3>1. p.num_stale_output_tokens = Issued(after, r)[n - 1]
        BY <1>7, <1>23, <2>2, <2>3
      <3>2. Awaited(after, r)[n - 1] \in Int
        BY <1>8, <1>23
      <3>3. p.num_output_placeholders = Awaited(after, r)[n - 1] - Awaited(after, r)[n - 1]
        BY <2>3, <2>4, <3>2
      <3> QED BY <1>22, <1>25, <3>1, <3>3 DEF Counts
    <2>8. Spaced(p, r, after, 0, n - 1)
      <3>1. Certain(after, r)[n - 1] \in Int
        <4>1. Certain(steps, r)[n] \in Nat /\ Certain(steps, r)[1] \in Nat
          BY <1>3, <1>6
        <4> QED BY <1>23, <4>1
      <3>2. p.num_tokens + Certain(after, r)[n - 1] - Certain(after, r)[n - 1] <= NumPrompt[r] + MaxTokens[r]
        BY <1>28, <1>29, <2>1, <3>1
      <3>3. PICK m : m = n - 1 /\ m \in 0 .. n - 1 /\ k <= m + 1
        BY <1>3, <2>6
      <3>4. /\ n = Len(steps) /\ k \in 0 .. n /\ m \in 0 .. n - 1 /\ k <= m + 1
            /\ p.next_decode_eligible_step = q.next_decode_eligible_step
            /\ p.num_tokens + Certain(after, r)[n - 1] - Certain(after, r)[m] <= NumPrompt[r] + MaxTokens[r]
        BY <1>3, <1>17, <3>2, <3>3
      <3> HIDE DEF dropped, stale
      <3>5. Spaced(p, r, after, 0, m)
        <4>1. Spaced(q, r, steps, 0, k)
          BY <1>26
        <4> QED BY <3>4, <4>1, TailSpaced
      <3> QED BY <3>3, <3>5
    <2>9. InOrder(p, r, after, G, n - 1)
      BY <1>33, <1>34, <2>6
    <2>10. LiveFrom(p, r, after, 0, G, n - 1)
      BY <1>22, <2>6, <2>7, <2>8, <2>9 DEF LiveFrom
    <2> QED BY <2>1, <2>2, <2>5, <2>10 DEF Live
  <1>35. ASSUME p.status # "FINISHED", ~stale PROVE Live(p, r, after, 0, G)
    <2>1. /\ new = s.sampled /\ p.status = q.status /\ p.num_tokens = x + s.sampled
          /\ p.num_tokens < Limit(r) /\ q.status = "RUNNING" /\ k = 0
      BY <1>11, <1>32, <1>35
    <2>2. p.num_computed_tokens = c - e /\ p.num_output_placeholders = h - (e + s.sampled)
          /\ p.num_stale_output_tokens = 0
      BY <1>17, <1>19, <1>35, <2>1
    <2>3. /\ e \in Nat /\ e + s.sampled = (IF s.sampled > 0 THEN 1 + s.spec ELSE 0)
          /\ c - e >= 0 /\ c - e <= c /\ Ahead(h - (e + s.sampled), c - e, x + s.sampled)
      <3>1. Output(h, c, x, s.spec, s.sampled, e) /\ Ahead(h, c, x)
        BY <1>14, <1>16, <1>35
      <3> HIDE DEF stale, dropped
      <3> QED BY <3>1, PlaceholdersBack
    <2>4. Bounds(p, r)
      <3>1. c - e < MaxModelLen
        BY <1>14, <1>28, <2>3
      <3> QED BY <1>29, <2>1, <2>2, <2>3, <3>1 DEF Bounds, Ahead
    <2>5. 0 \in 0 .. n - 1 /\ 0 \in 0 .. Len(after)
      BY <1>3, <1>22
    <2>6. Counts(p, r, after, 0)
      <3>1. Awaited(steps, r)[1] = e + s.sampled
        BY <1>5, <2>3
      <3>2. PICK y, z : /\ y = Awaited(steps, r)[n] /\ z = Awaited(steps, r)[1]
                        /\ y \in Int /\ z \in Int
        BY <1>8
      <3>3. h = y - 0 /\ Awaited(after, r)[n - 1] = y - z
        BY <1>5, <1>7, <1>13, <1>23, <2>1, <3>2
      <3>4. (y - 0) - z = (y - z) - 0
        BY <3>2
      <3>5. p.num_output_placeholders = Awaited(after, r)[n - 1] - Awaited(after, r)[0]
        BY <1>24, <2>2, <3>1, <3>2, <3>3, <3>4
      <3> QED BY <1>22, <1>24, <1>25, <2>2, <3>5 DEF Counts
    <2>7. p.num_tokens + Certain(after, r)[n - 1] - Certain(after, r)[0] <= NumPrompt[r] + MaxTokens[r]
      <3>1. PICK y, z : /\ y = Certain(steps, r)[n] /\ z = Certain(steps, r)[1]
                        /\ y \in Int /\ z \in Int /\ Certain(after, r)[n - 1] = y - z
        <4>1. Certain(steps, r)[n] \in Nat /\ Certain(steps, r)[1] \in Nat
          BY <1>3, <1>6
        <4> QED BY <1>23, <4>1
      <3>2. CASE s.sampled = 0
        <4>1. z = 0 /\ p.num_tokens = x + 0
          BY <1>5, <2>1, <3>1, <3>2
        <4>2. x + y - 0 <= NumPrompt[r] + MaxTokens[r]
          BY <1>3, <1>5, <1>13, <1>26, <2>1, <3>1 DEF Spaced
        <4>3. (x + 0) + (y - 0) - 0 = x + y - 0
          BY <1>14, <3>1
        <4> QED BY <1>24, <3>1, <4>1, <4>2, <4>3
      <3>3. CASE s.sampled # 0
        <4>1. Samples(steps[1], r)
          BY <1>4, <3>3 DEF Samples
        <4>2. ASSUME NEW j \in 1 + 1 .. n, Samples(steps[j], r) PROVE j = n
          <5>1. 1 \in 0 + 1 .. n /\ j \in Int
            BY <1>3
          <5>2. j - 1 >= PpSize
            BY <1>3, <1>26, <2>1, <4>1, <4>2, <5>1 DEF Spaced
          <5> QED BY <1>3, <5>1, <5>2, ConstantTypes
        <4>3. y <= z + 1
          <5>1. CASE n = 1
            BY <3>1, <5>1
          <5>2. CASE n # 1
            <6>1. 1 \in 0 .. Len(steps) /\ n - 1 \in 0 .. Len(steps) /\ 1 <= n - 1 /\ n \in 1 .. Len(steps)
              BY <1>3, <5>2
            <6>2. Quiet(steps, r, 1, n - 1)
              <7> SUFFICES ASSUME NEW j \in 1 + 1 .. n - 1, Samples(steps[j], r) PROVE FALSE
                BY DEF Quiet
              <7>1. j \in 1 + 1 .. n /\ j # n
                BY <1>3
              <7> QED BY <4>2, <7>1
            <6>3. Certain(steps, r)[n - 1] = z
              BY <3>1, <6>1, <6>2, QuietFlat, SMTT(30)
            <6>4. Certain(steps, r)[n] <= Certain(steps, r)[n - 1] + 1
              BY <6>1, MarksZero
            <6> QED BY <3>1, <6>3, <6>4
          <5> QED BY <5>1, <5>2
        <4>4. p.num_tokens + 1 <= NumPrompt[r] + MaxTokens[r]
          BY <1>28, <1>29, <2>1
        <4>5. PICK v, b : v = p.num_tokens /\ b = NumPrompt[r] + MaxTokens[r]
          OBVIOUS
        <4>6. OneMore(v, b, y, z)
          BY <1>28, <1>29, <3>1, <4>3, <4>4, <4>5 DEF OneMore
        <4>7. v + (y - z) - 0 <= b
          BY <4>6, OneMoreFits
        <4> QED BY <1>24, <3>1, <4>5, <4>7
      <3> QED BY <3>2, <3>3
    <2>8. Spaced(p, r, after, 0, 0)
      <3>1. /\ n = Len(steps) /\ k \in 0 .. n /\ 0 \in 0 .. n - 1 /\ k <= 0 + 1
            /\ p.next_decode_eligible_step = q.next_decode_eligible_step
        BY <1>3, <1>17, <2>1, <2>5
      <3> HIDE DEF dropped, stale
      <3> QED BY <1>26, <2>7, <3>1, TailSpaced
    <2>9. InOrder(p, r, after, G, 0)
      BY <1>33, <1>35, <2>5
    <2>10. LiveFrom(p, r, after, 0, G, 0)
      BY <2>1, <2>5, <2>6, <2>8, <2>9 DEF LiveFrom
    <2> QED BY <2>2, <2>4, <2>10 DEF Live
  <1>36. p.status # "FINISHED" => Live(p, r, after, 0, G)
    BY <1>31, <1>34, <1>35
  <1> QED BY <1>20, <1>21, <1>36 DEF RequestOK

-----------------------------------------------------------------------------
(* The steps of the scheduler preserve the invariant                        *)

LEMMA GrantSame ==
  ASSUME NEW q, NEW p, SameCounts(p, q), NEW r, NEW g, GrantOK(q, r, g)
  PROVE GrantOK(p, r, g)
  BY DEF GrantOK, Grantable, AtMaxTokens, Drafts, SameCounts

LEMMA RequestAt ==
  ASSUME Inv, NEW r, r \in Requests
  PROVE req[r] \in RequestType /\ RequestOK(req[r], r, batch_queue, Elapsed, Fresh)
  BY DEF Inv, Base, Types, RequestsOK

LEMMA FreshScheduled ==
  ASSUME Inv, NEW r, r \notin DOMAIN pass.sched
  PROVE r \notin Fresh
  BY DEF Fresh

LEMMA NotInPass ==
  ASSUME Inv, ~InPass
  PROVE DOMAIN pass.sched = {} /\ Fresh = {} /\ Elapsed = 0
  BY DEF Inv, Base, PassOK, Fresh, Elapsed

(* A record that differs in status, grammar, blocks or drafts.              *)
Kept(p, q) ==
  /\ SameCounts(p, q) /\ p.num_blocks >= 0
  /\ p.status # "FINISHED" => /\ q.status # "FINISHED"
                              /\ p.status = "RUNNING" <=> q.status = "RUNNING"

LEMMA KeptSame ==
  ASSUME Inv, NEW r, r \in Requests
  PROVE Kept(req[r], req[r])
  <1>1. req[r].num_blocks >= 0
    BY RequestAt DEF RequestOK, Naturals
  <1> QED BY <1>1 DEF Kept, SameCounts

(* Such changes, with the steps and the clock as they were.                 *)
LEMMA FrameRequests ==
  ASSUME Inv, batch_queue' = batch_queue, Fresh' = Fresh, Elapsed' = Elapsed,
         \A x \in Requests : Kept(req'[x], req[x])
  PROVE StepsFit(batch_queue') /\ RequestsOK'
  <1>1. StepsFit(batch_queue')
    BY DEF Inv
  <1>2. ASSUME NEW x \in Requests
        PROVE RequestOK(req'[x], x, batch_queue', Elapsed', Fresh')
    <2>1. PICK q, p : q = req[x] /\ p = req'[x]
      OBVIOUS
    <2>2. PICK e, F : e = Elapsed /\ F = Fresh
      OBVIOUS
    <2>3. RequestOK(q, x, batch_queue, e, F)
      BY <2>1, <2>2, RequestAt
    <2>4. Kept(p, q)
      BY <2>1
    <2>5. RequestOK(p, x, batch_queue, e, F)
      BY <2>3, <2>4, RequestSame DEF Kept
    <2> QED BY <2>1, <2>2, <2>5
  <1> QED BY <1>1, <1>2 DEF RequestsOK

(* Between passes there are no grants.                                      *)
LEMMA NoGrantsOK ==
  ASSUME Base', ~InPass', pass'.token_budget >= 0
  PROVE GrantsOK'
  <1>1. DOMAIN pass'.sched = {}
    BY DEF Base, PassOK
  <1>2. pass'.phase # "allocating"
    BY DEF InPass
  <1> QED BY <1>1, <1>2 DEF GrantsOK

(* A step of the pass that grants nothing.                                  *)
LEMMA FrameGrants ==
  ASSUME Inv, InPass, pass'.sched = pass.sched, pass'.token_budget = pass.token_budget,
         pass'.phase # "allocating",
         \A x \in Requests : SameCounts(req'[x], req[x])
  PROVE GrantsOK'
  <1>1. pass.token_budget >= 0 /\ pass.token_budget + Spent(pass.sched) = MaxNumScheduledTokens
    BY DEF Inv, GrantsOK
  <1>2. ASSUME NEW x \in DOMAIN pass'.sched PROVE GrantOK(req'[x], x, pass'.sched[x])
    <2>1. x \in DOMAIN pass.sched /\ x \in Requests
      BY GrantIs, PassFields DEF Inv, Base, Types
    <2>2. GrantOK(req[x], x, pass.sched[x])
      BY <2>1 DEF Inv, GrantsOK
    <2>3. PICK q, p : q = req[x] /\ p = req'[x]
      OBVIOUS
    <2>4. SameCounts(p, q)
      BY <2>1, <2>3
    <2>5. PICK g : g = pass.sched[x]
      OBVIOUS
    <2>6. GrantOK(p, x, g)
      BY <2>2, <2>3, <2>4, <2>5, GrantSame
    <2> QED BY <2>3, <2>5, <2>6
  <1>3. pass'.token_budget >= 0 /\ pass'.token_budget + Spent(pass'.sched) = MaxNumScheduledTokens
    BY <1>1
  <1> QED BY <1>2, <1>3 DEF GrantsOK

LEMMA AddInv ==
  ASSUME Inv, Base', NEW r \in Requests, add_new_request(r)
  PROVE Inv'
  <1>1. pass' = pass /\ batch_queue' = batch_queue /\ pass.phase = "idle" /\ req[r].status = "NEW"
    BY DEF add_new_request
  <1>2. GrantsOK'
    <2>1. ~InPass' /\ pass'.token_budget >= 0
      BY <1>1 DEF InPass, Inv, GrantsOK
    <2> QED BY <2>1, NoGrantsOK
  <1>3. Fresh' = Fresh /\ Elapsed' = Elapsed
    BY <1>1 DEF Fresh, Elapsed, InPass
  <1>4. PICK s : /\ s \in {"WAITING_FOR_STRUCTURED_OUTPUT_GRAMMAR", "WAITING"}
                 /\ req' = [req EXCEPT ![r].status = s]
    BY DEF add_new_request
  <1>5. ASSUME NEW x \in Requests PROVE Kept(req'[x], req[x])
    <2>1. CASE x # r
      <3>1. req'[x] = req[x]
        BY <1>4, <2>1 DEF Inv, Base, Types
      <3> QED BY <3>1, KeptSame
    <2>2. CASE x = r
      <3>1. PICK q : q = req[r] /\ q \in RequestType
        BY RequestAt
      <3>2. s \in Statuses
        BY <1>4 DEF Statuses
      <3>3. PICK p : p = [q EXCEPT !.status = s]
        OBVIOUS
      <3>4. SameCounts(p, q) /\ p.status = s /\ p.num_blocks = q.num_blocks
        BY <3>1, <3>2, <3>3, StatusSet
      <3>5. q.num_blocks >= 0
        BY <3>1, RequestAt DEF RequestOK, Naturals
      <3>6. req'[r] = p
        BY <1>4, <3>1, <3>3 DEF Inv, Base, Types
      <3>7. q.status = "NEW"
        BY <1>1, <3>1
      <3>8. Kept(p, q)
        BY <1>4, <3>4, <3>5, <3>7 DEF Kept
      <3> QED BY <2>2, <3>1, <3>6, <3>8
    <2> QED BY <2>1, <2>2
  <1>6. StepsFit(batch_queue') /\ RequestsOK'
    BY <1>1, <1>3, <1>5, FrameRequests
  <1> QED BY <1>2, <1>6 DEF Inv

LEMMA GrammarInv ==
  ASSUME Inv, Base', NEW r \in Requests, NEW outcome \in {"ready", "error"},
         GrammarCompiled(r, outcome)
  PROVE Inv'
  <1>1. pass' = pass /\ batch_queue' = batch_queue /\ req' = [req EXCEPT ![r].grammar = outcome]
    BY DEF GrammarCompiled
  <1>2. Fresh' = Fresh /\ Elapsed' = Elapsed
    BY <1>1 DEF Fresh, Elapsed, InPass
  <1>3. ASSUME NEW x \in Requests
        PROVE Kept(req'[x], req[x]) /\ req'[x].spec_token_ids = req[x].spec_token_ids
    <2>1. CASE x # r
      <3>1. req'[x] = req[x]
        BY <1>1, <2>1 DEF Inv, Base, Types
      <3> QED BY <3>1, KeptSame
    <2>2. CASE x = r
      <3>1. PICK q : q = req[r] /\ q \in RequestType
        BY RequestAt
      <3>2. outcome \in {"pending", "ready", "error", "reported"}
        OBVIOUS
      <3>3. PICK p : p = [q EXCEPT !.grammar = outcome]
        OBVIOUS
      <3>4. /\ SameCounts(p, q) /\ p.status = q.status /\ p.num_blocks = q.num_blocks
            /\ p.spec_token_ids = q.spec_token_ids
        BY <3>1, <3>2, <3>3, GrammarSet
      <3>5. q.num_blocks >= 0
        BY <3>1, RequestAt DEF RequestOK, Naturals
      <3>6. req'[r] = p
        BY <1>1, <3>1, <3>3 DEF Inv, Base, Types
      <3>7. Kept(p, q)
        BY <3>4, <3>5 DEF Kept
      <3> QED BY <2>2, <3>1, <3>4, <3>6, <3>7
    <2> QED BY <2>1, <2>2
  <1>4. StepsFit(batch_queue') /\ RequestsOK'
    BY <1>1, <1>2, <1>3, FrameRequests
  <1>5. ASSUME pass.phase = "allocating"
        PROVE PickOK(req[pass.cur[1]], pass.cur[1], pass.cur[2])'
    <2>1. PickOK(req[pass.cur[1]], pass.cur[1], pass.cur[2])
      BY <1>5 DEF Inv, GrantsOK
    <2>2. pass.cur[1] \in Requests
      BY <1>5, CurrentIs DEF Inv
    <2>3. PICK x, n : x = pass.cur[1] /\ n = pass.cur[2] /\ x \in Requests
      BY <2>2
    <2>4. PICK q, p : q = req[x] /\ p = req'[x]
      OBVIOUS
    <2>5. SameCounts(p, q) /\ p.spec_token_ids = q.spec_token_ids
      BY <1>3, <2>3, <2>4 DEF Kept
    <2>6. /\ Grantable(q, x, n, FALSE) /\ n <= pass.token_budget /\ Drafts(q, n) <= q.spec_token_ids
      BY <2>1, <2>3, <2>4 DEF PickOK
    <2>7. /\ Grantable(p, x, n, FALSE) /\ Drafts(p, n) <= p.spec_token_ids
      BY <2>5, <2>6 DEF Grantable, AtMaxTokens, Drafts, SameCounts
    <2> QED BY <1>1, <2>3, <2>4, <2>6, <2>7 DEF PickOK
  <1>6. ASSUME NEW x \in DOMAIN pass'.sched PROVE GrantOK(req'[x], x, pass'.sched[x])
    <2>1. x \in DOMAIN pass.sched /\ x \in Requests
      BY <1>1, GrantIs, PassFields DEF Inv, Base, Types
    <2>2. GrantOK(req[x], x, pass.sched[x])
      BY <2>1 DEF Inv, GrantsOK
    <2>3. PICK q, p, g : q = req[x] /\ p = req'[x] /\ g = pass.sched[x]
      OBVIOUS
    <2>4. SameCounts(p, q)
      BY <1>3, <2>1, <2>3 DEF Kept
    <2>5. GrantOK(p, x, g)
      BY <2>2, <2>3, <2>4, GrantSame
    <2> QED BY <1>1, <2>3, <2>5
  <1>7. /\ pass'.token_budget >= 0
        /\ InPass' => pass'.token_budget + Spent(pass'.sched) = MaxNumScheduledTokens
    BY <1>1 DEF Inv, GrantsOK, InPass
  <1>8. GrantsOK'
    BY <1>1, <1>5, <1>6, <1>7 DEF GrantsOK
  <1> QED BY <1>4, <1>8 DEF Inv

LEMMA FinishInv ==
  ASSUME Inv, Base', NEW r \in Requests, finish_requests(r)
  PROVE Inv'
  <1>1. /\ pass' = pass /\ batch_queue' = batch_queue /\ pass.phase \in {"idle", "updating"}
        /\ req' = [req EXCEPT ![r] = Finished(@)]
    BY DEF finish_requests
  <1>2. GrantsOK'
    <2>1. ~InPass' /\ pass'.token_budget >= 0
      BY <1>1 DEF InPass, Inv, GrantsOK
    <2> QED BY <2>1, NoGrantsOK
  <1>3. Fresh' = Fresh /\ Elapsed' = Elapsed
    BY <1>1 DEF Fresh, Elapsed, InPass
  <1>4. ASSUME NEW x \in Requests PROVE Kept(req'[x], req[x])
    <2>1. CASE x # r
      <3>1. req'[x] = req[x]
        BY <1>1, <2>1 DEF Inv, Base, Types
      <3> QED BY <3>1, KeptSame
    <2>2. CASE x = r
      <3>1. PICK q : q = req[r] /\ q \in RequestType
        BY RequestAt
      <3>2. PICK p : p = Finished(q)
        OBVIOUS
      <3>3. SameCounts(p, q) /\ p.status = "FINISHED" /\ p.num_blocks = 0
        BY <3>1, <3>2, FinishedSet
      <3>4. req'[r] = p
        BY <1>1, <3>1, <3>2 DEF Inv, Base, Types
      <3>5. Kept(p, q)
        BY <3>3 DEF Kept
      <3> QED BY <2>2, <3>1, <3>4, <3>5
    <2> QED BY <2>1, <2>2
  <1>5. StepsFit(batch_queue') /\ RequestsOK'
    BY <1>1, <1>3, <1>4, FrameRequests
  <1> QED BY <1>2, <1>5 DEF Inv

(* Moves of the two loops that grant nothing.                               *)
LEMMA PassMoves ==
  ASSUME Inv, Base', InPass, InPass', pass'.sched = pass.sched,
         pass'.token_budget = pass.token_budget, pass'.phase # "allocating",
         batch_queue' = batch_queue, \A x \in Requests : Kept(req'[x], req[x])
  PROVE Inv'
  <1>1. Fresh' = Fresh /\ Elapsed' = Elapsed
    BY DEF Fresh, Elapsed
  <1>2. StepsFit(batch_queue') /\ RequestsOK'
    BY <1>1, FrameRequests
  <1>3. \A x \in Requests : SameCounts(req'[x], req[x])
    BY DEF Kept
  <1>4. GrantsOK'
    BY <1>3, FrameGrants
  <1> QED BY <1>2, <1>4 DEF Inv

LEMMA SkipRunningInv ==
  ASSUME Inv, Base', SkipRunning
  PROVE Inv'
  <1>1. pass.phase = "running" /\ req' = req /\ batch_queue' = batch_queue
    BY DEF SkipRunning, InRunningLoop
  <1>2. /\ pass'.phase = "running" /\ pass'.sched = pass.sched
        /\ pass'.token_budget = pass.token_budget
    BY <1>1 DEF SkipRunning, Inv, Base, Types, PassType
  <1>3. InPass /\ InPass'
    BY <1>1, <1>2 DEF InPass
  <1>4. \A x \in Requests : Kept(req'[x], req[x])
    BY <1>1, KeptSame
  <1> QED BY <1>1, <1>2, <1>3, <1>4, PassMoves

LEMMA EndRunningInv ==
  ASSUME Inv, Base', EndRunning
  PROVE Inv'
  <1>1. pass.phase = "running" /\ req' = req /\ batch_queue' = batch_queue
    BY DEF EndRunning
  <1>2. /\ pass'.phase \in {"closing", "waiting"} /\ pass'.sched = pass.sched
        /\ pass'.token_budget = pass.token_budget
    BY <1>1 DEF EndRunning, Inv, Base, Types, PassType
  <1>3. InPass /\ InPass'
    BY <1>1, <1>2 DEF InPass
  <1>4. \A x \in Requests : Kept(req'[x], req[x])
    BY <1>1, KeptSame
  <1> QED BY <1>1, <1>2, <1>3, <1>4, PassMoves

LEMMA SkipWaitingInv ==
  ASSUME Inv, Base', SkipWaiting
  PROVE Inv'
  <1>1. PICK r : r = NextWaiting
    OBVIOUS
  <1>2. Base
    BY DEF Inv
  <1>3. /\ pass.phase = "waiting" /\ r \in Requests /\ batch_queue' = batch_queue
        /\ pass'.phase = "waiting" /\ pass'.sched = pass.sched
        /\ pass'.token_budget = pass.token_budget
    BY <1>1, <1>2, SkipWaitingIs
  <1>4. /\ \A x \in Requests : x # r => req'[x] = req[x]
        /\ SameCounts(req'[r], req[r]) /\ req'[r].status = req[r].status
        /\ req'[r].num_blocks = req[r].num_blocks
    BY <1>1, <1>2, SkipWaitingIs
  <1>5. InPass /\ InPass'
    BY <1>3 DEF InPass
  <1>6. ASSUME NEW x \in Requests PROVE Kept(req'[x], req[x])
    <2>1. Kept(req[x], req[x])
      BY KeptSame
    <2> QED BY <1>4, <2>1 DEF Kept
  <1> QED BY <1>3, <1>5, <1>6, PassMoves

LEMMA EndWaitingInv ==
  ASSUME Inv, Base', EndWaiting
  PROVE Inv'
  <1>1. Base
    BY DEF Inv
  <1>2. /\ pass.phase = "waiting" /\ batch_queue' = batch_queue
        /\ pass'.phase = "closing" /\ pass'.sched = pass.sched
        /\ pass'.token_budget = pass.token_budget
    BY <1>1, EndWaitingIs
  <1>3. \A x \in Requests : /\ SameCounts(req'[x], req[x])
                            /\ req'[x].num_blocks = req[x].num_blocks
                            /\ \/ req'[x].status = req[x].status
                               \/ Blocked(x) /\ req'[x].status = "WAITING"
    BY <1>1, EndWaitingIs
  <1>4. InPass /\ InPass'
    BY <1>2 DEF InPass
  <1>5. ASSUME NEW x \in Requests PROVE Kept(req'[x], req[x])
    <2>1. Kept(req[x], req[x])
      BY KeptSame
    <2> QED BY <1>3, <2>1 DEF Kept, Blocked
  <1> QED BY <1>2, <1>4, <1>5, PassMoves

(* A running request has something to compute.                              *)
Room(h, c, x, d, b, m, n) ==
  LET left == x + d + h - c
  IN /\ h \in Int /\ c \in Int /\ x \in Int /\ d \in Nat /\ b \in Int /\ m \in Int
     /\ h >= 0 /\ c < m /\ b > 0 /\ n # 0
     /\ n = Lower(Lower(left, b), m - c - 1)

LEMMA SomeTokens ==
  ASSUME NEW h, NEW c, NEW x, NEW d, NEW b, NEW m, NEW n, Room(h, c, x, d, b, m, n), Ahead(h, c, x)
  PROVE n \in Int /\ n >= 1 /\ c + n < m /\ n <= b /\ c + n - x - h <= d
  BY DEF Room, Ahead, Lower

LEMMA PickRunningInv ==
  ASSUME Inv, Base', PickRunning
  PROVE Inv'
  <1>1. pass.phase = "running" /\ req' = req /\ batch_queue' = batch_queue
    BY DEF PickRunning, InRunningLoop
  <1>2. PICK r : r = running[pass.req_index]
    OBVIOUS
  <1>3. PICK n : n = num_new_tokens(r)
    OBVIOUS
  <1>4. /\ pass'.phase = "allocating" /\ pass'.sched = pass.sched
        /\ pass'.token_budget = pass.token_budget /\ pass'.cur = <<r, n>>
    BY <1>1, <1>2, <1>3 DEF PickRunning, Inv, Base, Types, PassType
  <1>5. InPass /\ InPass'
    BY <1>1, <1>4 DEF InPass
  <1>6. \A x \in Requests : Kept(req'[x], req[x])
    BY <1>1, KeptSame
  <1>7. Fresh' = Fresh /\ Elapsed' = Elapsed
    BY <1>4, <1>5 DEF Fresh, Elapsed
  <1>8. StepsFit(batch_queue') /\ RequestsOK'
    BY <1>1, <1>6, <1>7, FrameRequests
  <1>9. r \in Requests /\ r \in ToSet(running) /\ n # 0 /\ pass.token_budget > 0
        /\ pass.token_budget \in Int
    <2>1. pass.req_index \in 1 .. Len(running) /\ running \in Seq(Requests)
      <3>1. pass.req_index \in Int /\ pass.req_index >= 1 /\ running \in Seq(Requests)
        BY <1>1, PassFields DEF Inv, Base, Types, PassOK
      <3> QED BY <3>1 DEF PickRunning, InRunningLoop
    <2>2. r \in ToSet(running) /\ r \in Requests
      BY <1>2, <2>1, MembersOf
    <2>3. pass.token_budget \in Int
      BY PassFields DEF Inv, Base, Types
    <2> QED BY <1>2, <1>3, <2>2, <2>3 DEF PickRunning, InRunningLoop
  <1>10. PICK q : q = req[r] /\ q \in RequestType
    BY <1>9, RequestAt
  <1>11. q.status = "RUNNING"
    BY <1>9, <1>10 DEF Inv, Base, QueuesOK
  <1>12. Bounds(q, r) /\ q.num_output_placeholders >= 0
    BY <1>9, <1>10, <1>11, RequestAt DEF RequestOK, Live, Naturals
  <1>13. /\ ~AtMaxTokens(q, r) /\ q.next_decode_eligible_step = 0
         /\ n = Lower(Lower(q.num_tokens + q.spec_token_ids + q.num_output_placeholders
                             - q.num_computed_tokens, pass.token_budget),
                      MaxModelLen - q.num_computed_tokens - 1)
    BY <1>3, <1>9, <1>10, NewTokensIs
  <1>14. PICK h, c, x, d, b, m : /\ h = q.num_output_placeholders /\ c = q.num_computed_tokens
                                 /\ x = q.num_tokens /\ d = q.spec_token_ids
                                 /\ b = pass.token_budget /\ m = MaxModelLen
    OBVIOUS
  <1>15. Ahead(h, c, x) /\ c < m
    BY <1>12, <1>14 DEF Ahead, Bounds
  <1>16. Room(h, c, x, d, b, m, n)
    <2>1. h \in Int /\ c \in Int /\ x \in Int /\ d \in Nat
      BY <1>10, <1>14, RequestFields
    <2>2. m \in Int
      BY <1>14, ConstantTypes
    <2> QED BY <1>9, <1>12, <1>13, <1>14, <1>15, <2>1, <2>2 DEF Room
  <1>17. n \in Int /\ n >= 1 /\ c + n < m /\ n <= b /\ c + n - x - h <= d
    BY <1>15, <1>16, SomeTokens
  <1>18. Grantable(q, r, n, FALSE) /\ n <= pass.token_budget /\ Drafts(q, n) <= q.spec_token_ids
    BY <1>13, <1>14, <1>17 DEF Grantable, Drafts
  <1>19. PickOK(req[pass.cur[1]], pass.cur[1], pass.cur[2])'
    <2>1. pass'.cur[1] = r /\ pass'.cur[2] = n
      BY <1>4
    <2> QED BY <1>1, <1>4, <1>10, <1>18, <2>1 DEF PickOK
  <1>20. /\ pass.token_budget >= 0
         /\ pass.token_budget + Spent(pass.sched) = MaxNumScheduledTokens
         /\ \A x1 \in DOMAIN pass.sched : GrantOK(req[x1], x1, pass.sched[x1])
    BY <1>5 DEF Inv, GrantsOK
  <1>21. GrantsOK'
    BY <1>1, <1>4, <1>19, <1>20 DEF GrantsOK
  <1> QED BY <1>8, <1>21 DEF Inv

LEMMA BeginInv ==
  ASSUME Inv, Base', BeginSchedule
  PROVE Inv'
  <1>1. pass.phase = "idle" /\ batch_queue' = batch_queue
    BY DEF BeginSchedule
  <1>2. PICK b : b = MaxNumScheduledTokens /\ b \in Int /\ b >= 0
    BY ConstantTypes
  <1>3. pass' = [IdlePass EXCEPT !.phase = "running", !.token_budget = b]
    BY <1>2 DEF BeginSchedule
  <1>4. pass'.phase = "running" /\ pass'.sched = <<>> /\ pass'.token_budget = b
    BY <1>3 DEF IdlePass
  <1>5. InPass' /\ ~InPass
    BY <1>1, <1>4 DEF InPass
  <1>6. Fresh = {} /\ Elapsed = 0
    BY <1>5, NotInPass
  <1>7. Fresh' = {} /\ Elapsed' = 1
    BY <1>4, <1>5, NoGrants DEF Fresh, Elapsed
  <1>8. GrantsOK'
    <2>1. DOMAIN pass'.sched = {}
      BY <1>4, NoGrants
    <2>2. Spent(pass'.sched) = 0
      BY <2>1, SpentNone
    <2>3. pass'.token_budget >= 0 /\ pass'.token_budget + Spent(pass'.sched) = MaxNumScheduledTokens
      BY <1>2, <1>4, <2>2
    <2> QED BY <1>4, <2>1, <2>3 DEF GrantsOK
  <1>9. StepsFit(batch_queue) /\ StepsFit(batch_queue')
    BY <1>1 DEF Inv
  <1>10. ASSUME NEW x \in Requests PROVE RequestOK(req'[x], x, batch_queue', Elapsed', Fresh')
    <2>1. PICK q : q = req[x] /\ q \in RequestType
      BY RequestAt
    <2>2. PICK p : p = [q EXCEPT !.next_decode_eligible_step = IF @ = 0 THEN 0 ELSE @ - 1]
      OBVIOUS
    <2>3. req'[x] = p
      BY <2>1, <2>2 DEF BeginSchedule
    <2>4. PICK F : F = {}
      OBVIOUS
    <2>5. RequestOK(q, x, batch_queue, 0, F)
      BY <1>6, <2>1, <2>4, RequestAt
    <2>6. ASSUME q.status # "FINISHED" PROVE Live(p, x, batch_queue, 1, F)
      <3>1. Live(q, x, batch_queue, 0, F)
        BY <2>5, <2>6 DEF RequestOK
      <3> QED BY <1>9, <2>1, <2>2, <3>1, LiveBegin
    <2>7. /\ p.num_tokens = q.num_tokens /\ p.num_computed_tokens = q.num_computed_tokens
          /\ p.num_output_placeholders = q.num_output_placeholders
          /\ p.num_in_flight_tokens = q.num_in_flight_tokens
          /\ p.num_stale_output_tokens = q.num_stale_output_tokens
          /\ p.delivered = q.delivered /\ p.status = q.status /\ p.num_blocks = q.num_blocks
      <3>1. PICK e : /\ e = IF q.next_decode_eligible_step = 0 THEN 0
                             ELSE q.next_decode_eligible_step - 1
                     /\ e \in Nat
        BY <2>1, RequestFields
      <3>2. p = [q EXCEPT !.next_decode_eligible_step = e]
        BY <2>1, <2>2, <3>1
      <3> QED BY <2>1, <3>1, <3>2, EligibleSet
    <2>8. Delivered(p, x) /\ Naturals(p)
      BY <2>5, <2>7 DEF RequestOK, Delivered, Naturals
    <2>9. RequestOK(p, x, batch_queue, 1, F)
      BY <2>6, <2>7, <2>8 DEF RequestOK
    <2> QED BY <1>1, <1>7, <2>3, <2>4, <2>9
  <1> QED BY <1>8, <1>9, <1>10 DEF Inv, RequestsOK

LEMMA GrantBound ==
  ASSUME NEW q, q \in RequestType, q.num_computed_tokens >= 0, NEW g, g \in GrantType,
         NEW r, GrantOK(q, r, g)
  PROVE g.n \in Nat /\ g.n <= MaxModelLen
  <1>1. q.num_computed_tokens \in Int
    BY RequestFields
  <1>2. g.n \in Int /\ g.n >= 1 /\ q.num_computed_tokens + g.n < MaxModelLen
    BY DEF GrantType, GrantOK, Grantable
  <1>3. MaxModelLen \in Int
    BY ConstantTypes
  <1> QED BY <1>1, <1>2, <1>3

(* The grants of a pass are finitely many, and none exceeds max_model_len.  *)
LEMMA GrantsBound ==
  ASSUME Inv
  PROVE /\ IsFiniteSet(DOMAIN pass.sched) /\ DOMAIN pass.sched \subseteq Requests
        /\ pass.sched \in Grants
        /\ \A x \in DOMAIN pass.sched :
             /\ pass.sched[x] \in GrantType /\ GrantOK(req[x], x, pass.sched[x])
             /\ pass.sched[x].n \in Nat /\ pass.sched[x].n <= MaxModelLen
  <1>1. running \in Seq(Requests) /\ pass \in PassType /\ DOMAIN pass.sched \subseteq ToSet(running)
    BY DEF Inv, Base, Types, PassOK
  <1>2. IsFiniteSet(ToSet(running))
    BY <1>1, MembersFinite
  <1>3. IsFiniteSet(DOMAIN pass.sched)
    BY <1>1, <1>2, FS_Subset
  <1>4. pass.sched \in Grants
    BY <1>1, PassFields
  <1>5. DOMAIN pass.sched \subseteq Requests /\ pass.sched \in [DOMAIN pass.sched -> GrantType]
    BY <1>4, GrantIs
  <1>6. ASSUME NEW x \in DOMAIN pass.sched
        PROVE /\ pass.sched[x] \in GrantType /\ GrantOK(req[x], x, pass.sched[x])
              /\ pass.sched[x].n \in Nat /\ pass.sched[x].n <= MaxModelLen
    <2>1. PICK g : g = pass.sched[x] /\ g \in GrantType
      BY <1>5
    <2>2. GrantOK(req[x], x, g)
      BY <2>1 DEF Inv, GrantsOK
    <2>3. x \in Requests
      BY <1>5
    <2>4. PICK q : q = req[x] /\ q \in RequestType
      BY <2>3, RequestAt
    <2>5. q.num_computed_tokens >= 0
      BY <2>3, <2>4, RequestAt DEF RequestOK, Naturals
    <2>6. g.n \in Nat /\ g.n <= MaxModelLen
      BY <2>1, <2>2, <2>4, <2>5, GrantBound
    <2> QED BY <2>1, <2>2, <2>6
  <1> QED BY <1>3, <1>4, <1>5, <1>6

(* One request more in the step.                                            *)
Granted(r, n) ==
  /\ r \in Requests /\ r \notin DOMAIN pass.sched /\ n \in Nat /\ n <= MaxModelLen
  /\ DOMAIN pass'.sched = DOMAIN pass.sched \cup {r} /\ pass'.sched[r].n = n
  /\ \A x \in DOMAIN pass.sched : pass'.sched[x] = pass.sched[x]

LEMMA GrantSpends ==
  ASSUME Inv, NEW r, NEW n, Granted(r, n)
  PROVE Spent(pass.sched) \in Nat /\ Spent(pass'.sched) = Spent(pass.sched) + n
  <1>1. PICK f, g, b : f = pass.sched /\ g = pass'.sched /\ b = MaxModelLen /\ b \in Nat
    BY ConstantTypes
  <1>2. IsFiniteSet(DOMAIN f) /\ \A x \in DOMAIN f : f[x].n \in Nat /\ f[x].n <= b
    BY <1>1, GrantsBound
  <1>3. /\ r \notin DOMAIN f /\ n \in Nat /\ n <= b
        /\ DOMAIN g = DOMAIN f \cup {r} /\ g[r].n = n
        /\ \A x \in DOMAIN f : g[x] = f[x]
    BY <1>1 DEF Granted
  <1>4. IsFiniteSet(DOMAIN g)
    BY <1>2, <1>3, FS_AddElement
  <1>5. /\ r \in DOMAIN g /\ DOMAIN f = DOMAIN g \ {r}
        /\ \A x \in DOMAIN f : f[x].n = g[x].n
        /\ \A x \in DOMAIN g : g[x].n \in Nat /\ g[x].n <= b
    BY <1>2, <1>3
  <1>6. Spent(f) \in Nat /\ Spent(g) = Spent(f) + g[r].n
    BY <1>1, <1>4, <1>5, SpentWithout
  <1> QED BY <1>1, <1>3, <1>6

LEMMA ScheduleRunningInv ==
  ASSUME Inv, Base', ScheduleRunning
  PROVE Inv'
  <1>1. PICK r, n, q, p : r = pass.cur[1] /\ n = pass.cur[2] /\ q = req[r] /\ p = req'[r]
    OBVIOUS
  <1>2. Base
    BY DEF Inv
  <1>3. /\ batch_queue' = batch_queue /\ pass.phase = "allocating"
        /\ pass'.phase = "running" /\ pass'.token_budget = pass.token_budget - n
        /\ DOMAIN pass'.sched = DOMAIN pass.sched \cup {r}
    BY <1>1, <1>2, ScheduleRunningIs
  <1>4. /\ \A x \in Requests : x # r => req'[x] = req[x]
        /\ SameCounts(p, q) /\ p.status = q.status
        /\ q.num_blocks >= 0 => p.num_blocks >= 0
    <2>1. r = pass.cur[1] /\ n = pass.cur[2] /\ q = req[r]
      BY <1>1
    <2>2. (\A x \in Requests : x # r => req'[x] = req[x]) /\ req'[r].status = q.status
      BY <1>2, <2>1, ScheduleRunningIs, ZenonT(60)
    <2>3. SameCounts(req'[r], q)
      BY <1>2, <2>1, ScheduleRunningIs
    <2>4. q.num_blocks >= 0 => req'[r].num_blocks >= 0
      BY <1>2, <2>1, ScheduleRunningIs
    <2> QED BY <1>1, <2>2, <2>3, <2>4
  <1>5. /\ \A x \in DOMAIN pass.sched : x # r => pass'.sched[x] = pass.sched[x]
        /\ pass'.sched[r] =
             [n |-> n,
              spec |-> IF q.spec_token_ids > 0 /\ Drafts(q, n) > 0 THEN Drafts(q, n) ELSE 0,
              resumed |-> FALSE]
    BY <1>1, <1>2, ScheduleRunningIs
  <1>6. InPass /\ InPass'
    BY <1>3 DEF InPass
  <1>7. r \in Requests /\ n \in Int /\ r \notin DOMAIN pass.sched /\ q \in RequestType
    BY <1>1, <1>2, <1>3, CurrentIs
  <1>8. Fresh' = Fresh /\ Elapsed' = Elapsed
    <2>1. pass'.sched[r].resumed = FALSE
      BY <1>5
    <2> QED BY <1>3, <1>5, <1>6, <1>7, <2>1 DEF Fresh, Elapsed
  <1>9. p.num_blocks >= 0
    <2>1. q.num_blocks >= 0
      BY <1>1, <1>7, RequestAt DEF RequestOK, Naturals
    <2> QED BY <1>4, <2>1
  <1>10. ASSUME NEW x \in Requests PROVE Kept(req'[x], req[x])
    <2>1. Kept(req[x], req[x])
      BY KeptSame
    <2> QED BY <1>1, <1>4, <1>9, <2>1 DEF Kept
  <1>11. StepsFit(batch_queue') /\ RequestsOK'
    BY <1>3, <1>8, <1>10, FrameRequests
  <1>12. PickOK(q, r, n)
    BY <1>1, <1>3 DEF Inv, GrantsOK
  <1>13. /\ n >= 1 /\ n <= pass.token_budget /\ Drafts(q, n) <= q.spec_token_ids
         /\ Grantable(q, r, n, FALSE) /\ q.num_computed_tokens + n < MaxModelLen
    BY <1>12 DEF PickOK, Grantable
  <1>14. PICK g : g = pass'.sched[r]
    OBVIOUS
  <1>15. Drafts(q, n) \in Int /\ q.spec_token_ids \in Nat /\ q.spec_token_ids <= NumSpecTokens
    BY <1>7, RequestFields DEF Drafts
  <1>16. /\ g.n = n /\ g.resumed = FALSE
         /\ g.spec = (IF Drafts(q, n) > 0 THEN Drafts(q, n) ELSE 0)
    BY <1>5, <1>13, <1>14, <1>15
  <1>17. g.spec \in 0 .. NumSpecTokens
    BY <1>13, <1>15, <1>16, ConstantTypes
  <1>18. GrantOK(q, r, g)
    BY <1>13, <1>16, <1>17 DEF GrantOK
  <1>19. Granted(r, n)
    <2>1. n \in Nat /\ n <= MaxModelLen
      <3>1. q.num_computed_tokens \in Int /\ q.num_computed_tokens >= 0 /\ MaxModelLen \in Int
        BY <1>1, <1>7, RequestAt, RequestFields, ConstantTypes DEF RequestOK, Naturals
      <3> QED BY <1>7, <1>13, <3>1
    <2> QED BY <1>3, <1>5, <1>7, <1>14, <1>16, <2>1 DEF Granted
  <1>20. ASSUME NEW x \in DOMAIN pass'.sched PROVE GrantOK(req'[x], x, pass'.sched[x])
    <2>1. CASE x = r
      <3>1. GrantOK(p, r, g)
        BY <1>4, <1>18, GrantSame
      <3> QED BY <1>1, <1>14, <2>1, <3>1
    <2>2. CASE x # r
      <3>1. x \in DOMAIN pass.sched /\ x \in Requests
        BY <1>3, <2>2, GrantsBound
      <3>2. GrantOK(req[x], x, pass.sched[x])
        BY <3>1, GrantsBound
      <3> QED BY <1>4, <1>5, <2>2, <3>1, <3>2
    <2> QED BY <2>1, <2>2
  <1>21. pass'.token_budget >= 0 /\ pass'.token_budget + Spent(pass'.sched) = MaxNumScheduledTokens
    <2>1. Spent(pass.sched) \in Nat /\ Spent(pass'.sched) = Spent(pass.sched) + n
      BY <1>19, GrantSpends
    <2>2. pass.token_budget \in Int
      BY <1>2, PassFields DEF Base, Types
    <2>3. pass.token_budget + Spent(pass.sched) = MaxNumScheduledTokens
      BY <1>6 DEF Inv, GrantsOK
    <2> QED BY <1>3, <1>7, <1>13, <2>1, <2>2, <2>3
  <1>22. GrantsOK'
    BY <1>3, <1>20, <1>21 DEF GrantsOK
  <1> QED BY <1>11, <1>22 DEF Inv

LEMMA RequestPreempt ==
  ASSUME NEW r \in Requests, NEW q, q \in RequestType, q.status # "FINISHED",
         NEW drop, drop \in BOOLEAN, NEW p, p = _preempt_request(q, drop),
         NEW steps, StepsFit(steps), NEW e, NEW F, NEW G, RequestOK(q, r, steps, e, F)
  PROVE RequestOK(p, r, steps, e, G)
  <1>1. Live(q, r, steps, e, F) /\ Delivered(q, r) /\ Naturals(q)
    BY DEF RequestOK
  <1>2. Live(p, r, steps, e, G)
    BY <1>1, LivePreempt
  <1>3. /\ p.num_tokens = q.num_tokens /\ p.num_computed_tokens = 0
        /\ p.num_output_placeholders = 0
        /\ p.num_in_flight_tokens = q.num_in_flight_tokens
        /\ p.num_stale_output_tokens = q.num_in_flight_tokens
        /\ p.delivered = q.delivered /\ p.num_blocks = 0
    BY PreemptSet
  <1>4. Delivered(p, r) /\ Naturals(p)
    BY <1>1, <1>3 DEF Delivered, Naturals
  <1> QED BY <1>2, <1>4 DEF RequestOK

LEMMA ResetInv ==
  ASSUME Inv, Base', reset_prefix_cache
  PROVE Inv'
  <1>1. /\ pass' = pass /\ batch_queue' = batch_queue /\ pass.phase = "idle"
        /\ req' = [x \in Requests |-> IF x \in ToSet(running)
                                      THEN _preempt_request(req[x], TRUE) ELSE req[x]]
    BY DEF reset_prefix_cache
  <1>2. GrantsOK'
    <2>1. ~InPass' /\ pass'.token_budget >= 0
      BY <1>1 DEF InPass, Inv, GrantsOK
    <2> QED BY <2>1, NoGrantsOK
  <1>3. Fresh' = Fresh /\ Elapsed' = Elapsed
    BY <1>1 DEF Fresh, Elapsed, InPass
  <1>4. StepsFit(batch_queue) /\ StepsFit(batch_queue')
    BY <1>1 DEF Inv
  <1>5. ASSUME NEW x \in Requests PROVE RequestOK(req'[x], x, batch_queue', Elapsed', Fresh')
    <2>1. PICK q : q = req[x] /\ q \in RequestType
      BY RequestAt
    <2>2. PICK e, F : e = Elapsed /\ F = Fresh
      OBVIOUS
    <2>3. RequestOK(q, x, batch_queue, e, F)
      BY <2>1, <2>2, RequestAt
    <2>4. CASE x \notin ToSet(running)
      <3>1. req'[x] = q
        BY <1>1, <2>1, <2>4
      <3> QED BY <1>1, <1>3, <2>2, <2>3, <3>1
    <2>5. CASE x \in ToSet(running)
      <3>1. PICK drop : drop = TRUE /\ drop \in BOOLEAN
        OBVIOUS
      <3>2. PICK p : p = _preempt_request(q, drop)
        OBVIOUS
      <3>3. req'[x] = p
        BY <1>1, <2>1, <2>5, <3>1, <3>2
      <3>4. q.status # "FINISHED"
        BY <2>1, <2>5 DEF Inv, Base, QueuesOK
      <3>5. RequestOK(p, x, batch_queue, e, F)
        BY <1>4, <2>1, <2>3, <3>1, <3>2, <3>4, RequestPreempt
      <3> QED BY <1>1, <1>3, <2>2, <3>3, <3>5
    <2> QED BY <2>4, <2>5
  <1>6. RequestsOK'
    BY <1>5 DEF RequestsOK
  <1> QED BY <1>2, <1>4, <1>6 DEF Inv

(* A victim gives back what it was granted.                                 *)
LEMMA GrantReturned ==
  ASSUME Inv, NEW v, v \in DOMAIN pass.sched, NEW f, f = Drop(pass.sched, v)
  PROVE /\ DOMAIN f = DOMAIN pass.sched \ {v}
        /\ \A x \in DOMAIN f : f[x] = pass.sched[x]
        /\ pass.sched[v].n \in Nat
        /\ Spent(f) \in Nat /\ Spent(pass.sched) = Spent(f) + pass.sched[v].n
  <1>1. PICK g, b : g = pass.sched /\ b = MaxModelLen /\ b \in Nat
    BY ConstantTypes
  <1>2. /\ IsFiniteSet(DOMAIN g) /\ g \in Grants
        /\ \A x \in DOMAIN g : g[x].n \in Nat /\ g[x].n <= b
    BY <1>1, GrantsBound
  <1>3. DOMAIN f = DOMAIN g \ {v}
    BY <1>1, <1>2, DropIs
  <1>4. ASSUME NEW x \in DOMAIN f PROVE f[x] = g[x]
    <2>1. x \in DOMAIN g /\ x # v
      BY <1>3
    <2> QED BY <1>1, <1>2, <2>1, DropElse
  <1>5. /\ v \in DOMAIN g /\ DOMAIN f = DOMAIN g \ {v} /\ IsFiniteSet(DOMAIN g)
        /\ \A x \in DOMAIN f : f[x].n = g[x].n
        /\ b \in Nat /\ \A x \in DOMAIN g : g[x].n \in Nat /\ g[x].n <= b
    BY <1>1, <1>2, <1>3, <1>4
  <1>6. Spent(f) \in Nat /\ Spent(g) = Spent(f) + g[v].n
    BY <1>5, SpentWithout, SMTT(30)
  <1> QED BY <1>1, <1>2, <1>3, <1>4, <1>5, <1>6

LEMMA PreemptInv ==
  ASSUME Inv, Base', PreemptForBlocks
  PROVE Inv'
  <1>1. PICK v, r : v = Victim /\ r = pass.cur[1]
    OBVIOUS
  <1>2. Base
    BY DEF Inv
  <1>3. /\ pass.phase = "allocating" /\ v \in ToSet(running) /\ v \in Requests
        /\ batch_queue' = batch_queue
        /\ req'[v] = _preempt_request(req[v], RequiresKvDelivery)
        /\ \A x \in Requests : x # v => req'[x] = req[x]
    BY <1>1, <1>2, PreemptIs, ZenonT(60)
  <1>4. /\ v = r => pass'.phase = "closing"
        /\ v # r => pass'.phase = "allocating" /\ pass'.cur = pass.cur
    <2>1. ASSUME v = r PROVE pass'.phase = "closing"
      BY <1>1, <1>2, <2>1, PreemptIs
    <2>2. ASSUME v # r PROVE pass'.phase = "allocating" /\ pass'.cur = pass.cur
      BY <1>1, <1>2, <2>2, PreemptIs
    <2> QED BY <2>1, <2>2
  <1>5. IF v \in DOMAIN pass.sched
        THEN /\ pass'.sched = Drop(pass.sched, v)
             /\ pass'.token_budget = pass.token_budget + pass.sched[v].n
        ELSE pass'.sched = pass.sched /\ pass'.token_budget = pass.token_budget
    BY <1>1, <1>2, PreemptIs
  <1>6. InPass /\ InPass'
    BY <1>3, <1>4 DEF InPass
  <1>7. Elapsed' = Elapsed
    BY <1>6 DEF Elapsed
  <1>8. pass.token_budget \in Int /\ pass.token_budget >= 0
        /\ pass.token_budget + Spent(pass.sched) = MaxNumScheduledTokens
    BY <1>2, <1>6, PassFields DEF Base, Types, Inv, GrantsOK
  <1>9. /\ pass'.token_budget \in Int /\ pass'.token_budget >= pass.token_budget
        /\ pass'.token_budget + Spent(pass'.sched) = MaxNumScheduledTokens
        /\ DOMAIN pass'.sched = DOMAIN pass.sched \ {v}
        /\ \A x \in DOMAIN pass'.sched : pass'.sched[x] = pass.sched[x]
    <2>1. CASE v \in DOMAIN pass.sched
      <3>1. PICK f : f = Drop(pass.sched, v)
        OBVIOUS
      <3>2. /\ DOMAIN f = DOMAIN pass.sched \ {v}
            /\ \A x \in DOMAIN f : f[x] = pass.sched[x]
            /\ pass.sched[v].n \in Nat
            /\ Spent(f) \in Nat /\ Spent(pass.sched) = Spent(f) + pass.sched[v].n
        BY <2>1, <3>1, GrantReturned
      <3>3. pass'.sched = f /\ pass'.token_budget = pass.token_budget + pass.sched[v].n
        BY <1>5, <2>1, <3>1
      <3> QED BY <1>8, <3>2, <3>3
    <2>2. CASE v \notin DOMAIN pass.sched
      <3>1. pass'.sched = pass.sched /\ pass'.token_budget = pass.token_budget
        BY <1>5, <2>2
      <3> QED BY <1>8, <2>2, <3>1
    <2> QED BY <2>1, <2>2
  <1>10. ASSUME NEW x \in DOMAIN pass'.sched PROVE GrantOK(req'[x], x, pass'.sched[x])
    <2>1. x # v /\ x \in DOMAIN pass.sched /\ x \in Requests
      BY <1>9, GrantsBound
    <2>2. GrantOK(req[x], x, pass.sched[x])
      BY <2>1, GrantsBound
    <2> QED BY <1>3, <1>9, <2>1, <2>2
  <1>11. ASSUME pass'.phase = "allocating"
         PROVE PickOK(req[pass.cur[1]], pass.cur[1], pass.cur[2])'
    <2>1. v # r /\ pass'.cur = pass.cur
      BY <1>4, <1>11
    <2>2. PickOK(req[pass.cur[1]], pass.cur[1], pass.cur[2])
      BY <1>3 DEF Inv, GrantsOK
    <2>3. pass.cur[1] \in Requests /\ pass.cur[2] \in Int
      BY <1>2, <1>3, CurrentIs
    <2>4. PICK q, n : q = req[r] /\ n = pass.cur[2] /\ n \in Int
      BY <2>3
    <2>5. Grantable(q, r, n, FALSE) /\ n <= pass.token_budget /\ Drafts(q, n) <= q.spec_token_ids
      BY <1>1, <2>2, <2>4 DEF PickOK
    <2>6. req'[r] = q
      BY <1>1, <1>3, <2>1, <2>3, <2>4
    <2>7. n <= pass'.token_budget
      BY <1>8, <1>9, <2>4, <2>5
    <2> QED BY <1>1, <2>1, <2>4, <2>5, <2>6, <2>7 DEF PickOK
  <1>12. GrantsOK'
    <2>1. pass'.token_budget >= 0
      BY <1>8, <1>9
    <2> QED BY <1>9, <1>10, <1>11, <2>1 DEF GrantsOK
  <1>13. StepsFit(batch_queue) /\ StepsFit(batch_queue')
    BY <1>3 DEF Inv
  <1>14. ASSUME NEW x \in Requests PROVE RequestOK(req'[x], x, batch_queue', Elapsed', Fresh')
    <2>1. PICK q : q = req[x] /\ q \in RequestType
      BY RequestAt
    <2>2. PICK e, F, G : e = Elapsed /\ F = Fresh /\ G = Fresh'
      OBVIOUS
    <2>3. RequestOK(q, x, batch_queue, e, F)
      BY <2>1, <2>2, RequestAt
    <2>4. CASE x # v
      <3>1. req'[x] = q
        BY <1>3, <2>1, <2>4
      <3>2. x \in G <=> x \in F
        BY <1>9, <2>2, <2>4 DEF Fresh
      <3>3. Kept(q, q)
        BY <2>1, KeptSame
      <3>4. RequestOK(q, x, batch_queue, e, G)
        BY <2>3, <3>2, <3>3, RequestSame DEF Kept
      <3> QED BY <1>3, <1>7, <2>2, <3>1, <3>4
    <2>5. CASE x = v
      <3>1. PICK drop : drop = RequiresKvDelivery /\ drop \in BOOLEAN
        BY SchedulerAssumption
      <3>2. PICK p : p = _preempt_request(q, drop)
        OBVIOUS
      <3>3. req'[x] = p
        BY <1>3, <2>1, <2>5, <3>1, <3>2
      <3>4. q.status # "FINISHED"
        BY <1>3, <2>1, <2>5 DEF Inv, Base, QueuesOK
      <3>5. RequestOK(p, x, batch_queue, e, G)
        BY <1>13, <2>1, <2>3, <3>1, <3>2, <3>4, RequestPreempt
      <3> QED BY <1>3, <1>7, <2>2, <3>3, <3>5
    <2> QED BY <2>4, <2>5
  <1>15. RequestsOK'
    BY <1>14 DEF RequestsOK
  <1> QED BY <1>12, <1>13, <1>15 DEF Inv

(* A request with x tokens, hit of them cached, gets n; s of them drafts.   *)
Admitted(x, hit, b, m, s, n, pad) ==
  /\ x \in Int /\ hit \in Int /\ b \in Int /\ m \in Int /\ s \in Nat
  /\ 0 <= hit /\ hit < x /\ x < m /\ b > 0
  /\ IF pad THEN x - hit = 1 /\ s > 0 /\ n = 1 + s /\ hit + s + 1 < m
            ELSE n = Lower(x - hit, b)

LEMMA AdmittedTokens ==
  ASSUME NEW x, NEW hit, NEW b, NEW m, NEW s, NEW n, NEW pad,
         Admitted(x, hit, b, m, s, n, pad)
  PROVE /\ n \in Int /\ n >= 1 /\ hit + n < m
        /\ pad => hit + n - x = s /\ s > 0
        /\ ~pad => hit + n - x <= 0
  BY DEF Admitted, Lower

LEMMA AdmittedIs ==
  ASSUME HitsFit, NEW r \in Requests, NEW q, q = req[r], q \in RequestType, Bounds(q, r),
         NEW hit, hit \in Hits(r), pass.token_budget \in Int, pass.token_budget > 0,
         NEW n, n = WaitingTokens(r, hit)
  PROVE Admitted(q.num_tokens, hit, pass.token_budget, MaxModelLen, NumSpecTokens, n,
                 PadSpecDecode(r, hit))
  <1>1. q.num_tokens \in Int /\ q.num_tokens >= 1 /\ q.num_tokens < MaxModelLen
    BY BoundsAre, RequestFields
  <1>2. MaxModelLen \in Int /\ NumSpecTokens \in Nat /\ MaxHit \in Nat
    BY ConstantTypes
  <1>3. hit \in Int /\ 0 <= hit /\ hit < q.num_tokens /\ hit <= MaxHit
    <2>1. PICK l : l = q.num_tokens - 1 /\ l \in Int
      BY <1>1
    <2>2. Lower(MaxHit, l) \in Int /\ Lower(MaxHit, l) <= MaxHit /\ Lower(MaxHit, l) <= l
      BY <1>2, <2>1, LowerIs
    <2>3. hit \in 0 .. Lower(MaxHit, l)
      BY <2>1 DEF Hits
    <2> QED BY <1>1, <1>2, <2>1, <2>2, <2>3
  <1>4. CASE PadSpecDecode(r, hit)
    <2>1. NumSpecTokens > 0 /\ q.num_tokens - hit = 1
      BY <1>4 DEF PadSpecDecode
    <2>2. n = 1 + NumSpecTokens
      BY <1>4 DEF WaitingTokens
    <2>3. hit + NumSpecTokens + 1 < MaxModelLen
      <3>1. PICK l : l = Limit(r) - 2 /\ l \in Int /\ q.num_tokens <= l + 1
        BY <1>1, BoundsAre DEF Bounds
      <3>2. Lower(MaxHit, l) + NumSpecTokens + 1 < MaxModelLen
        BY <1>2, <2>1, <3>1 DEF HitsFit
      <3>3. hit <= l /\ hit <= MaxHit /\ MaxHit \in Int
        BY <1>1, <1>2, <1>3, <3>1
      <3>4. Lower(MaxHit, l) \in Int /\ (Lower(MaxHit, l) = MaxHit \/ Lower(MaxHit, l) = l)
        BY <3>1, <3>3, LowerIs
      <3>5. hit <= Lower(MaxHit, l)
        BY <3>3, <3>4
      <3> QED BY <1>2, <1>3, <3>2, <3>4, <3>5
    <2> QED BY <1>1, <1>2, <1>3, <1>4, <2>1, <2>2, <2>3 DEF Admitted
  <1>5. CASE ~PadSpecDecode(r, hit)
    <2>1. n = Lower(q.num_tokens - hit, pass.token_budget)
      BY <1>5 DEF WaitingTokens
    <2> QED BY <1>1, <1>2, <1>3, <1>5, <2>1 DEF Admitted
  <1> QED BY <1>4, <1>5

LEMMA AdmitInv ==
  ASSUME HitsFit, Inv, Base', NEW hit, hit \in 0 .. MaxHit, ScheduleWaiting(hit)
  PROVE Inv'
  <1>1. PICK r, n : r = NextWaiting /\ n = WaitingTokens(r, hit)
    OBVIOUS
  <1>2. Base
    BY DEF Inv
  <1>3. AdmitStep(r, hit, n)
    BY <1>1, <1>2, AdmitIs
  <1>4. /\ pass.phase = "waiting" /\ (waiting # <<>> \/ skipped_waiting # <<>>)
        /\ r \in Requests /\ ~NotSchedulable(r) /\ hit \in Hits(r)
        /\ pass.token_budget > 0 /\ n \in Int /\ batch_queue' = batch_queue
        /\ \A x \in Requests : x # r => req'[x] = req[x]
        /\ pass'.phase = "waiting" /\ pass'.token_budget = pass.token_budget - n
    BY <1>3 DEF AdmitStep
  <1>5. /\ DOMAIN pass'.sched = DOMAIN pass.sched \cup {r}
        /\ pass'.sched[r].n = n /\ pass'.sched[r].resumed = TRUE
        /\ pass'.sched[r].spec = (IF PadSpecDecode(r, hit) THEN NumSpecTokens ELSE 0)
        /\ \A x \in DOMAIN pass.sched : x # r => pass'.sched[x] = pass.sched[x]
    BY <1>3 DEF AdmitStep
  <1>6. PICK q, p : q = req[r] /\ p = req'[r] /\ q \in RequestType
    BY <1>4, RequestAt
  <1>7. /\ p.status = "RUNNING" /\ p.num_computed_tokens = hit
        /\ q.num_blocks >= 0 => p.num_blocks >= 0
        /\ p.num_tokens = q.num_tokens
        /\ p.num_output_placeholders = q.num_output_placeholders
        /\ p.num_in_flight_tokens = q.num_in_flight_tokens
        /\ p.num_stale_output_tokens = q.num_stale_output_tokens
        /\ p.drop_stale_output = q.drop_stale_output
        /\ p.next_decode_eligible_step = q.next_decode_eligible_step
        /\ p.delivered = q.delivered
    BY <1>3, <1>6 DEF AdmitStep
  <1>8. InPass /\ InPass'
    BY <1>4 DEF InPass
  <1>9. Elapsed' = Elapsed
    BY <1>8 DEF Elapsed
  <1>10. r \notin DOMAIN pass.sched /\ q.status \notin {"RUNNING", "FINISHED"}
    <2>1. r \notin ToSet(running) /\ req[r].status \notin {"NEW", "RUNNING", "FINISHED"}
      BY <1>1, <1>2, <1>4, NextIs
    <2>2. DOMAIN pass.sched \subseteq ToSet(running)
      BY <1>2 DEF Base, PassOK
    <2> QED BY <1>6, <2>1, <2>2
  <1>11. StepsFit(batch_queue) /\ StepsFit(batch_queue')
    BY <1>4 DEF Inv
  <1>12. PICK e, F, G : e = Elapsed /\ F = Fresh /\ G = Fresh'
    OBVIOUS
  <1>13. RequestOK(q, r, batch_queue, e, F)
    BY <1>4, <1>6, <1>12, RequestAt
  <1>14. Live(q, r, batch_queue, e, F) /\ Delivered(q, r) /\ Naturals(q)
    BY <1>10, <1>13 DEF RequestOK
  <1>15. Bounds(q, r)
    BY <1>14 DEF Live
  <1>16. q.num_output_placeholders = 0
    BY <1>10, <1>11, <1>14, WaitingLive
  <1>17. pass.token_budget \in Int
    BY <1>2, PassFields DEF Base, Types
  <1>18. PICK x, b, m, s, pad : /\ x = q.num_tokens /\ b = pass.token_budget /\ m = MaxModelLen
                                /\ s = NumSpecTokens /\ pad = PadSpecDecode(r, hit)
    OBVIOUS
  <1>19. Admitted(x, hit, b, m, s, n, pad)
    BY <1>1, <1>4, <1>6, <1>15, <1>17, <1>18, AdmittedIs
  <1>20. /\ n >= 1 /\ hit + n < m
         /\ pad => hit + n - x = s /\ s > 0
         /\ ~pad => hit + n - x <= 0
    BY <1>19, AdmittedTokens
  <1>21. hit \in Int /\ 0 <= hit /\ hit < x
    BY <1>19 DEF Admitted
  <1>22. n <= pass.token_budget
    BY <1>1, <1>3 DEF AdmitStep, Admissible
  <1>23. r \in G
    BY <1>5, <1>12 DEF Fresh
  <1>24. RequestOK(p, r, batch_queue, e, G)
    <2>1. ~OutputsPending(q)
      BY <1>4, <1>6 DEF NotSchedulable
    <2>2. q.status # "RUNNING" /\ hit < q.num_tokens
      BY <1>10, <1>18, <1>21
    <2>3. Live(p, r, batch_queue, e, G)
      BY <1>4, <1>6, <1>7, <1>11, <1>14, <1>21, <1>23, <2>1, <2>2, LiveAdmit
    <2>4. Delivered(p, r) /\ Naturals(p)
      BY <1>7, <1>14, <1>21 DEF Delivered, Naturals
    <2> QED BY <2>3, <2>4 DEF RequestOK
  <1>25. ASSUME NEW y \in Requests PROVE RequestOK(req'[y], y, batch_queue', Elapsed', Fresh')
    <2>1. CASE y = r
      BY <1>4, <1>6, <1>9, <1>12, <1>24, <2>1
    <2>2. CASE y # r
      <3>1. PICK u : u = req[y]
        OBVIOUS
      <3>2. req'[y] = u
        BY <1>4, <2>2, <3>1
      <3>3. y \in G <=> y \in F
        BY <1>5, <1>12, <2>2 DEF Fresh
      <3>4. RequestOK(u, y, batch_queue, e, F) /\ Kept(u, u)
        BY <1>12, <3>1, RequestAt, KeptSame
      <3>5. RequestOK(u, y, batch_queue, e, G)
        BY <3>3, <3>4, RequestSame DEF Kept
      <3> QED BY <1>4, <1>9, <1>12, <3>2, <3>5
    <2> QED BY <2>1, <2>2
  <1>26. PICK g : g = pass'.sched[r]
    OBVIOUS
  <1>27. g.n = n /\ g.resumed = TRUE /\ (pad => g.spec = s) /\ (~pad => g.spec = 0)
    BY <1>5, <1>18, <1>26
  <1>28. GrantOK(p, r, g)
    <2>1. Grantable(p, r, g.n, g.resumed)
      BY <1>7, <1>18, <1>20, <1>27 DEF Grantable
    <2>2. Drafts(p, g.n) = hit + n - x
      BY <1>7, <1>16, <1>18, <1>19, <1>27, <1>4 DEF Drafts, Admitted
    <2>3. s \in Nat /\ s = NumSpecTokens
      BY <1>18, <1>19 DEF Admitted
    <2>4. CASE pad
      <3>1. Drafts(p, g.n) = s /\ s > 0 /\ g.spec = s
        BY <1>20, <1>27, <2>2, <2>4
      <3> QED BY <2>1, <2>3, <3>1 DEF GrantOK
    <2>5. CASE ~pad
      <3>1. ~(Drafts(p, g.n) > 0) /\ g.spec = 0
        BY <1>4, <1>19, <1>20, <1>27, <2>2, <2>5 DEF Admitted
      <3> QED BY <2>1, <2>3, <3>1 DEF GrantOK
    <2> QED BY <2>4, <2>5
  <1>29. Granted(r, n)
    <2>1. n \in Nat /\ n <= MaxModelLen
      <3>1. m \in Int /\ m = MaxModelLen
        BY <1>18, <1>19 DEF Admitted
      <3> QED BY <1>4, <1>20, <1>21, <3>1
    <2> QED BY <1>4, <1>5, <1>10, <2>1 DEF Granted
  <1>30. ASSUME NEW y \in DOMAIN pass'.sched PROVE GrantOK(req'[y], y, pass'.sched[y])
    <2>1. CASE y = r
      BY <1>6, <1>26, <1>28, <2>1
    <2>2. CASE y # r
      <3>1. y \in DOMAIN pass.sched /\ y \in Requests
        BY <1>5, <2>2, GrantsBound
      <3>2. GrantOK(req[y], y, pass.sched[y])
        BY <3>1, GrantsBound
      <3> QED BY <1>4, <1>5, <2>2, <3>1, <3>2
    <2> QED BY <2>1, <2>2
  <1>31. pass'.token_budget >= 0 /\ pass'.token_budget + Spent(pass'.sched) = MaxNumScheduledTokens
    <2>1. Spent(pass.sched) \in Nat /\ Spent(pass'.sched) = Spent(pass.sched) + n
      BY <1>29, GrantSpends
    <2>2. pass.token_budget + Spent(pass.sched) = MaxNumScheduledTokens
      BY <1>8 DEF Inv, GrantsOK
    <2> QED BY <1>4, <1>17, <1>22, <2>1, <2>2
  <1>32. GrantsOK'
    BY <1>4, <1>30, <1>31 DEF GrantsOK
  <1>33. RequestsOK'
    BY <1>25 DEF RequestsOK
  <1> QED BY <1>11, <1>32, <1>33 DEF Inv

LEMMA IssueInv ==
  ASSUME Inv, Base', NEW accepted \in [DOMAIN pass.sched -> 0 .. NumSpecTokens], EndSchedule(accepted)
  PROVE Inv'
  <1>1. Base
    BY DEF Inv
  <1>2. PICK step : IssueStep(accepted, step)
    BY <1>1, IssueIs
  <1>3. /\ pass.phase = "closing" /\ step \in Steps /\ DOMAIN step = DOMAIN pass.sched
        /\ batch_queue' = Append(batch_queue, step)
        /\ pass'.sched = <<>> /\ pass'.token_budget = 0
        /\ pass'.phase \in {"updating", "idle"}
    BY <1>2 DEF IssueStep
  <1>4. \A x \in Requests : x \notin DOMAIN pass.sched => req'[x] = req[x]
    BY <1>2 DEF IssueStep
  <1>5. InPass /\ ~InPass'
    BY <1>3 DEF InPass
  <1>6. Elapsed = 1 /\ Elapsed' = 0
    BY <1>5 DEF Elapsed
  <1>7. Fresh' = {}
    BY <1>3, NoGrants DEF Fresh
  <1>8. GrantsOK'
    <2>1. pass'.token_budget >= 0
      BY <1>3
    <2> QED BY <1>5, <2>1, NoGrantsOK
  <1>9. StepsFit(batch_queue) /\ Len(batch_queue) <= PpSize
    BY <1>1, <1>3 DEF Inv, Base, Types
  <1>10. ASSUME NEW x \in DOMAIN pass.sched
         PROVE \E a : /\ a \in 0 .. pass.sched[x].spec
                      /\ IssuedTo(req[x], req'[x], pass.sched[x], a, step[x])
                      /\ pass.sched[x] \in GrantType /\ GrantOK(req[x], x, pass.sched[x])
                      /\ x \in Requests
    <2>1. /\ IssuedTo(req[x], req'[x], pass.sched[x], accepted[x], step[x])
          /\ accepted[x] <= pass.sched[x].spec
      BY <1>2 DEF IssueStep
    <2>2. pass.sched[x] \in GrantType /\ GrantOK(req[x], x, pass.sched[x]) /\ x \in Requests
      BY GrantsBound
    <2>3. PICK a : a = accepted[x] /\ a \in 0 .. NumSpecTokens
      OBVIOUS
    <2>4. pass.sched[x].spec \in Int /\ NumSpecTokens \in Nat
      BY <2>2, ConstantTypes DEF GrantType
    <2>5. a \in 0 .. pass.sched[x].spec
      BY <2>1, <2>3, <2>4
    <2> QED BY <2>1, <2>2, <2>3, <2>5
  <1>11. StepFits(step)
    <2>1. ASSUME NEW x \in DOMAIN step
          PROVE /\ step[x].n >= 1 /\ step[x].spec \in 0 .. NumSpecTokens
                /\ step[x].sampled \in 0 .. 1 + step[x].spec
      <3>1. x \in DOMAIN pass.sched
        BY <1>3
      <3>2. PICK q, p, g, s : q = req[x] /\ p = req'[x] /\ g = pass.sched[x] /\ s = step[x]
        OBVIOUS
      <3>3. PICK a : a \in 0 .. g.spec /\ IssuedTo(q, p, g, a, s) /\ g \in GrantType
                     /\ GrantOK(q, x, g) /\ x \in Requests
        BY <1>10, <3>1, <3>2
      <3>4. q \in RequestType
        BY <3>2, <3>3, RequestAt
      <3>5. s.n >= 1 /\ s.spec \in 0 .. NumSpecTokens /\ s.sampled \in 0 .. 1 + s.spec
        BY <3>3, <3>4, ShareFits
      <3> QED BY <3>2, <3>5
    <2> QED BY <2>1 DEF StepFits
  <1>12. PICK after : after = Append(batch_queue, step) /\ after = batch_queue'
    BY <1>3
  <1>13. StepsFit(batch_queue')
    <2>1. StepsFit(Append(batch_queue, step))
      BY <1>3, <1>9, <1>11, MarksAppend
    <2> QED BY <1>3, <2>1
  <1>14. ASSUME NEW x \in Requests PROVE RequestOK(req'[x], x, batch_queue', Elapsed', Fresh')
    <2>1. PICK q, p : q = req[x] /\ p = req'[x] /\ q \in RequestType
      BY RequestAt
    <2>2. PICK F, G : F = Fresh /\ G = {} /\ x \notin G
      <3>1. x \notin {}
        OBVIOUS
      <3> QED BY <3>1
    <2>3. RequestOK(q, x, batch_queue, 1, F)
      BY <1>6, <2>1, <2>2, RequestAt
    <2>4. CASE x \notin DOMAIN pass.sched
      <3>1. p = q
        BY <1>4, <2>1, <2>4
      <3>2. x \notin F /\ x \notin DOMAIN step
        BY <1>3, <2>2, <2>4, FreshScheduled
      <3>3. ASSUME q.status # "FINISHED" PROVE Live(q, x, after, 0, G)
        <4>1. Live(q, x, batch_queue, 1, F)
          BY <2>3, <3>3 DEF RequestOK
        <4> QED BY <1>3, <1>9, <1>11, <1>12, <2>1, <2>2, <3>2, <4>1, LiveIssueOther
      <3>4. RequestOK(p, x, after, 0, G)
        BY <2>3, <3>1, <3>3 DEF RequestOK
      <3> QED BY <1>6, <1>7, <1>12, <2>1, <2>2, <3>4
    <2>5. CASE x \in DOMAIN pass.sched
      <3>1. PICK g, s : g = pass.sched[x] /\ s = step[x]
        OBVIOUS
      <3>2. PICK a : a \in 0 .. g.spec /\ IssuedTo(q, p, g, a, s) /\ g \in GrantType
                     /\ GrantOK(q, x, g)
        BY <1>10, <2>1, <2>5, <3>1
      <3>3. q.status = "RUNNING"
        BY <1>1, <2>1, <2>5 DEF Base, PassOK, QueuesOK
      <3>4. x \in F <=> g.resumed
        BY <2>2, <2>5, <3>1 DEF Fresh
      <3>5. Live(q, x, batch_queue, 1, F) /\ Delivered(q, x) /\ Naturals(q)
        BY <2>3, <3>3 DEF RequestOK
      <3>6. x \in DOMAIN step /\ IssuedTo(q, p, g, a, step[x])
        BY <1>3, <2>5, <3>1, <3>2
      <3>7. Live(p, x, after, 0, G) /\ p.num_computed_tokens >= 0
            /\ p.num_output_placeholders >= 0 /\ p.num_in_flight_tokens >= 0
        BY <1>3, <1>9, <1>11, <1>12, <2>1, <2>2, <3>2, <3>3, <3>4, <3>5, <3>6, LiveIssue
      <3>8. /\ p.num_tokens = q.num_tokens /\ p.num_blocks = q.num_blocks
            /\ p.num_stale_output_tokens = q.num_stale_output_tokens /\ p.delivered = q.delivered
        BY <3>2 DEF IssuedTo
      <3>9. Delivered(p, x) /\ Naturals(p)
        BY <3>5, <3>7, <3>8 DEF Delivered, Naturals
      <3>10. RequestOK(p, x, after, 0, G)
        BY <3>7, <3>9 DEF RequestOK
      <3> QED BY <1>6, <1>7, <1>12, <2>1, <2>2, <3>10
    <2> QED BY <2>4, <2>5
  <1>15. RequestsOK'
    BY <1>14 DEF RequestsOK
  <1> QED BY <1>8, <1>13, <1>15 DEF Inv

(* A finished request is no longer tied to the steps.                       *)
LEMMA RequestFinished ==
  ASSUME NEW q, NEW p, SameCounts(p, q), p.num_blocks >= 0, p.status = "FINISHED",
         NEW r, NEW steps, NEW e, NEW F, RequestOK(q, r, steps, e, F), NEW after, NEW d, NEW G
  PROVE RequestOK(p, r, after, d, G)
  BY DEF RequestOK, Delivered, Naturals, SameCounts

LEMMA UpdateInv ==
  ASSUME Inv, Base', NEW stops \in SUBSET Requests, update_from_output(stops)
  PROVE Inv'
  <1>1. Base
    BY DEF Inv
  <1>2. PICK step : UpdateStep(step)
    BY <1>1, UpdateIs
  <1>3. /\ ~InPass /\ batch_queue # <<>> /\ step = batch_queue[1]
        /\ batch_queue' = Tail(batch_queue)
        /\ pass'.phase = "idle" /\ pass'.sched = pass.sched
        /\ pass'.token_budget = pass.token_budget
    BY <1>2 DEF UpdateStep
  <1>4. \A x \in Requests :
          \/ req'[x] = req[x] /\ (x \notin DOMAIN step \/ req[x].status = "FINISHED")
          \/ req'[x] = Finished(req[x])
          \/ /\ x \in DOMAIN step /\ req[x].status # "FINISHED"
             /\ \E new : Outcome(req[x], req'[x], x, step[x], new)
    BY <1>2 DEF UpdateStep
  <1>5. DOMAIN pass.sched = {} /\ Fresh = {} /\ Elapsed = 0
    BY <1>3, NotInPass
  <1>6. Fresh' = {} /\ Elapsed' = 0 /\ ~InPass'
    BY <1>3, <1>5 DEF Fresh, Elapsed, InPass
  <1>7. GrantsOK'
    <2>1. pass'.token_budget >= 0
      BY <1>3 DEF Inv, GrantsOK
    <2> QED BY <1>6, <2>1, NoGrantsOK
  <1>8. StepsFit(batch_queue)
    BY DEF Inv
  <1>9. PICK after : after = Tail(batch_queue) /\ after = batch_queue'
    BY <1>3
  <1>10. StepsFit(batch_queue')
    <2>1. StepsFit(Tail(batch_queue))
      BY <1>3, <1>8, MarksTail
    <2> QED BY <1>3, <2>1
  <1>11. Len(batch_queue) <= PpSize + 1
    <2>1. Len(batch_queue) = PpSize + 1 \/ Len(batch_queue) <= PpSize
      BY <1>1 DEF Base, Types
    <2>2. Len(batch_queue) \in Nat /\ PpSize \in Nat
      BY <1>8, ConstantTypes DEF StepsFit
    <2> QED BY <2>1, <2>2
  <1>12. ASSUME NEW x \in Requests PROVE RequestOK(req'[x], x, batch_queue', Elapsed', Fresh')
    <2>1. PICK q, p : q = req[x] /\ p = req'[x] /\ q \in RequestType
      BY RequestAt
    <2>2. PICK F, G : F = {} /\ G = {} /\ x \notin F /\ x \notin G
      <3>1. x \notin {}
        OBVIOUS
      <3> QED BY <3>1
    <2>3. RequestOK(q, x, batch_queue, 0, F)
      BY <1>5, <2>1, <2>2, RequestAt
    <2>4. SUFFICES RequestOK(p, x, after, 0, G)
      BY <1>6, <1>9, <2>1, <2>2
    <2>5. CASE p = q /\ (x \notin DOMAIN step \/ q.status = "FINISHED")
      <3>1. ASSUME q.status # "FINISHED" PROVE Live(q, x, after, 0, G)
        <4>1. Live(q, x, batch_queue, 0, F) /\ x \notin DOMAIN batch_queue[1]
          BY <1>3, <2>3, <2>5, <3>1 DEF RequestOK
        <4> QED BY <1>3, <1>8, <1>9, <2>1, <2>2, <4>1, LiveUpdateOther
      <3> QED BY <2>3, <2>5, <3>1 DEF RequestOK
    <2>6. CASE p = Finished(q)
      <3>1. SameCounts(p, q) /\ p.status = "FINISHED" /\ p.num_blocks = 0
        BY <2>1, <2>6, FinishedSet
      <3>2. p.num_blocks >= 0
        BY <3>1
      <3> QED BY <2>3, <3>1, <3>2, RequestFinished
    <2>7. CASE x \in DOMAIN step /\ q.status # "FINISHED" /\ \E new : Outcome(q, p, x, step[x], new)
      <3>1. PICK new, s : s = step[x] /\ Outcome(q, p, x, s, new)
        BY <2>7
      <3>2. x \in DOMAIN batch_queue[1] /\ s = batch_queue[1][x]
        BY <1>3, <2>7, <3>1
      <3> QED BY <1>3, <1>8, <1>9, <1>11, <2>1, <2>2, <2>3, <2>7, <3>1, <3>2, RequestUpdate
    <2> QED BY <1>4, <2>1, <2>5, <2>6, <2>7
  <1>13. RequestsOK'
    BY <1>12 DEF RequestsOK
  <1> QED BY <1>7, <1>10, <1>13 DEF Inv

LEMMA InvInit ==
  ASSUME Init
  PROVE Inv
  <1>1. Base
    BY BaseInit
  <1>2. /\ batch_queue = <<>> /\ pass = IdlePass
    BY DEF Init
  <1>3. pass.phase = "idle" /\ pass.sched = <<>> /\ pass.token_budget = 0
    BY <1>2, IdleIs
  <1>4. ~InPass /\ DOMAIN pass.sched = {} /\ Fresh = {} /\ Elapsed = 0
    BY <1>3, NoGrants DEF InPass, Fresh, Elapsed
  <1>5. GrantsOK
    BY <1>3, <1>4 DEF GrantsOK
  <1>6. StepsFit(batch_queue) /\ Len(batch_queue) = 0
    BY <1>2 DEF StepsFit
  <1>7. ASSUME NEW r \in Requests PROVE RequestOK(req[r], r, batch_queue, Elapsed, Fresh)
    <2>1. PICK q : q = req[r]
      OBVIOUS
    <2>2. /\ q.status = "NEW" /\ q.num_tokens = NumPrompt[r] /\ q.num_computed_tokens = 0
          /\ q.num_output_placeholders = 0 /\ q.num_in_flight_tokens = 0
          /\ q.num_stale_output_tokens = 0 /\ q.drop_stale_output = FALSE
          /\ q.next_decode_eligible_step = 0 /\ q.num_blocks = 0 /\ q.delivered = <<>>
      BY <2>1 DEF Init
    <2>3. PICK n : n = Len(batch_queue) /\ n = 0 /\ n \in 0 .. n /\ n \in Nat
      BY <1>6
    <2>4. /\ Issued(batch_queue, r)[n] = 0 /\ Awaited(batch_queue, r)[n] = 0
          /\ Certain(batch_queue, r)[n] = 0
      BY <1>6, <2>3, MarksZero
    <2>5. /\ NumPrompt[r] \in Nat /\ NumPrompt[r] >= 1 /\ NumPrompt[r] < MaxModelLen
          /\ MaxTokens[r] \in Nat /\ MaxTokens[r] >= 1 /\ MaxModelLen \in Nat
      BY ConstantTypes
    <2>6. Bounds(q, r)
      BY <2>2, <2>5 DEF Bounds, Limit, Lower
    <2>7. Counts(q, r, batch_queue, n)
      BY <2>2, <2>3, <2>4 DEF Counts
    <2>8. InOrder(q, r, batch_queue, Fresh, n)
      <3>1. \A i \in DroppedTo(q, n) + 1 .. Len(batch_queue) : FALSE
        BY <2>2, <2>3 DEF DroppedTo
      <3> QED BY <2>2, <3>1 DEF InOrder
    <2>9. Spaced(q, r, batch_queue, Elapsed, n)
      <3>1. \A i \in n + 1 .. Len(batch_queue) : FALSE
        BY <2>3
      <3>2. q.num_tokens + Certain(batch_queue, r)[Len(batch_queue)] - Certain(batch_queue, r)[n]
              <= NumPrompt[r] + MaxTokens[r]
        BY <2>2, <2>3, <2>4, <2>5
      <3> QED BY <3>1, <3>2 DEF Spaced
    <2>10. LiveFrom(q, r, batch_queue, Elapsed, Fresh, n)
      BY <2>3, <2>7, <2>8, <2>9 DEF LiveFrom
    <2>11. Live(q, r, batch_queue, Elapsed, Fresh)
      BY <2>2, <2>6, <2>10 DEF Live
    <2>12. Delivered(q, r) /\ Naturals(q)
      BY <2>2, <2>5 DEF Delivered, Naturals
    <2> QED BY <2>1, <2>11, <2>12 DEF RequestOK
  <1> QED BY <1>1, <1>5, <1>6, <1>7 DEF Inv, RequestsOK

LEMMA InvNext ==
  ASSUME HitsFit, Inv, [Next]_vars
  PROVE Inv'
  <1>1. Base'
    BY BaseNext DEF Inv
  <1>2. CASE Engine
    <2>1. CASE BeginSchedule
      BY <1>1, <2>1, BeginInv
    <2>2. CASE SkipRunning
      BY <1>1, <2>2, SkipRunningInv
    <2>3. CASE PickRunning
      BY <1>1, <2>3, PickRunningInv
    <2>4. CASE ScheduleRunning
      BY <1>1, <2>4, ScheduleRunningInv
    <2>5. CASE PreemptForBlocks
      BY <1>1, <2>5, PreemptInv
    <2>6. CASE EndRunning
      BY <1>1, <2>6, EndRunningInv
    <2>7. CASE SkipWaiting
      BY <1>1, <2>7, SkipWaitingInv
    <2>8. CASE EndWaiting
      BY <1>1, <2>8, EndWaitingInv
    <2>9. CASE \E hit \in 0 .. MaxHit : ScheduleWaiting(hit)
      BY <1>1, <2>9, AdmitInv
    <2>10. CASE \E accepted \in [DOMAIN pass.sched -> 0 .. NumSpecTokens] : EndSchedule(accepted)
      BY <1>1, <2>10, IssueInv
    <2>11. CASE \E stops \in SUBSET Requests : update_from_output(stops)
      BY <1>1, <2>11, UpdateInv
    <2> QED BY <1>2, <2>1, <2>2, <2>3, <2>4, <2>5, <2>6, <2>7, <2>8, <2>9, <2>10, <2>11 DEF Engine
  <1>3. CASE Compiler
    BY <1>1, <1>3, GrammarInv DEF Compiler
  <1>4. CASE reset_prefix_cache
    BY <1>1, <1>4, ResetInv
  <1>5. ASSUME NEW r \in Requests, add_new_request(r) \/ finish_requests(r)
        PROVE Inv'
    BY <1>1, <1>5, AddInv, FinishInv
  <1>6. CASE UNCHANGED vars
    BY <1>1, <1>6 DEF vars, Inv, GrantsOK, PickOK, RequestsOK, Elapsed, Fresh, InPass
  <1> QED BY <1>2, <1>3, <1>4, <1>5, <1>6 DEF Next

LEMMA AlwaysInv ==
  ASSUME HitsFit
  PROVE Spec => []Inv
  <1>1. Init => Inv
    BY InvInit
  <1>2. Inv /\ [Next]_vars => Inv'
    BY InvNext
  <1> QED BY <1>1, <1>2, PTL DEF Spec

-----------------------------------------------------------------------------
(* What follows from it                                                     *)

(* No counter of a request ever becomes negative, although outputs that     *)
(* arrive late take off them what was counted before a preemption or a      *)
(* reset; the queues hold requests and the batch queue is never overrun.    *)
THEOREM TypeCorrect ==
  ASSUME HitsFit
  PROVE Spec => []TypeOK
  <1>1. Inv => TypeOK
    <2> SUFFICES ASSUME Inv PROVE TypeOK
      OBVIOUS
    <2>1. ASSUME NEW r \in Requests
          PROVE /\ req[r].status \in Statuses
                /\ {req[r].num_tokens, req[r].num_computed_tokens, req[r].num_output_placeholders,
                    req[r].num_in_flight_tokens, req[r].num_stale_output_tokens,
                    req[r].spec_token_ids, req[r].num_blocks} \subseteq Nat
      <3>1. PICK q : q = req[r] /\ q \in RequestType
        BY RequestAt
      <3>2. Naturals(q)
        BY <3>1, RequestAt DEF RequestOK
      <3>3. /\ q.num_tokens \in Int /\ q.num_computed_tokens \in Int
            /\ q.num_output_placeholders \in Int /\ q.num_in_flight_tokens \in Int
            /\ q.num_stale_output_tokens \in Int /\ q.spec_token_ids \in Nat /\ q.num_blocks \in Int
            /\ q.status \in Statuses
        BY <3>1, RequestFields
      <3>4. /\ q.num_tokens \in Nat /\ q.num_computed_tokens \in Nat
            /\ q.num_output_placeholders \in Nat /\ q.num_in_flight_tokens \in Nat
            /\ q.num_stale_output_tokens \in Nat /\ q.spec_token_ids \in Nat /\ q.num_blocks \in Nat
        BY <3>2, <3>3 DEF Naturals
      <3> QED BY <3>1, <3>3, <3>4
    <2>2. {waiting, skipped_waiting, running} \subseteq Seq(Requests)
      BY DEF Inv, Base, Types
    <2>3. Len(batch_queue) \in 0 .. batch_queue_size
      <3>1. Len(batch_queue) \in Nat /\ PpSize \in Nat
        BY ConstantTypes DEF Inv, StepsFit
      <3>2. Len(batch_queue) = PpSize + 1 \/ Len(batch_queue) <= PpSize
        BY DEF Inv, Base, Types
      <3> QED BY <3>1, <3>2 DEF batch_queue_size
    <2>4. pass.phase \in Phases /\ pass.token_budget \in Nat
      <3>1. pass.phase \in Phases /\ pass.token_budget \in Int
        BY PassFields DEF Inv, Base, Types
      <3>2. pass.token_budget >= 0
        BY DEF Inv, GrantsOK
      <3> QED BY <3>1, <3>2
    <2> QED BY <2>1, <2>2, <2>3, <2>4 DEF TypeOK
  <1> QED BY <1>1, AlwaysInv, PTL

(* In every pass of schedule() the budget left and the tokens in the step   *)
(* add up to max_num_scheduled_tokens, with the tokens that preempted       *)
(* requests give back, and only running requests are in the step.           *)
THEOREM BudgetSpent ==
  ASSUME HitsFit
  PROVE Spec => []BudgetExact
  <1>1. Inv => BudgetExact
    BY DEF Inv, GrantsOK, Base, PassOK, BudgetExact, InPass
  <1> QED BY <1>1, AlwaysInv, PTL

(* What update_from_output has sent a client is the positions after its     *)
(* prompt, in order, none twice and none missing, however often the request *)
(* was preempted or the prefix cache reset with outputs in flight.          *)
THEOREM InOrderDelivery ==
  ASSUME HitsFit
  PROVE Spec => []DeliveredInOrder
  <1>1. Inv => DeliveredInOrder
    <2> SUFFICES ASSUME Inv, NEW r \in Requests
                 PROVE /\ req[r].num_tokens = NumPrompt[r] + Len(req[r].delivered)
                       /\ \A i \in DOMAIN req[r].delivered :
                            req[r].delivered[i] = NumPrompt[r] + i
      BY DEF DeliveredInOrder
    <2>1. PICK q : q = req[r] /\ q \in RequestType
      BY RequestAt
    <2>2. Delivered(q, r)
      BY <2>1, RequestAt DEF RequestOK
    <2>3. DOMAIN q.delivered = 1 .. Len(q.delivered)
      BY <2>1, RequestFields
    <2> QED BY <2>1, <2>2, <2>3 DEF Delivered
  <1> QED BY <1>1, AlwaysInv, PTL

(* The counters of a live request are what the steps in flight hold for it: *)
(* num_in_flight_tokens their tokens, num_stale_output_tokens those of a    *)
(* first part of them, num_output_placeholders what the others will bring.  *)
THEOREM CountersExact ==
  ASSUME HitsFit
  PROVE Spec => []AccountingExact
  <1>1. Inv => AccountingExact
    <2> SUFFICES ASSUME Inv, NEW r \in Unfinished,
                        NEW tokens, tokens = RunningTotal(Tokens(batch_queue, r)),
                        NEW expected, expected = RunningTotal(Expected(batch_queue, r))
                 PROVE /\ req[r].num_in_flight_tokens = tokens[Len(batch_queue)]
                       /\ \E k \in 0 .. Len(batch_queue) :
                            /\ req[r].num_stale_output_tokens = tokens[k]
                            /\ req[r].num_output_placeholders =
                                 expected[Len(batch_queue)] - expected[k]
      BY DEF AccountingExact
    <2>1. r \in Requests /\ req[r].status # "FINISHED"
      BY DEF Unfinished
    <2>2. PICK k : LiveFrom(req[r], r, batch_queue, Elapsed, Fresh, k)
      BY <2>1, RequestAt DEF RequestOK, Live
    <2>3. k \in 0 .. Len(batch_queue) /\ Counts(req[r], r, batch_queue, k)
      BY <2>2 DEF LiveFrom
    <2> QED BY <2>3 DEF Counts, Issued, Awaited
  <1> QED BY <1>1, AlwaysInv, PTL

(* The running loop issues no step for a token past max_tokens, even if     *)
(* every draft in flight is rejected, wherever the stale outputs end.       *)
THEOREM NeverTooMany ==
  ASSUME HitsFit
  PROVE Spec => []NoExtraStep
  <1>1. Inv => NoExtraStep
    <2> SUFFICES ASSUME Inv, NEW r \in Unfinished,
                        NEW tokens, tokens = RunningTotal(Tokens(batch_queue, r)),
                        NEW sampling, sampling = RunningTotal(Sampling(batch_queue, r)),
                        NEW j \in 0 .. Len(batch_queue),
                        tokens[j] = req[r].num_stale_output_tokens
                 PROVE req[r].num_tokens + sampling[Len(batch_queue)] - sampling[j]
                         <= NumPrompt[r] + MaxTokens[r]
      BY DEF NoExtraStep
    <2>1. r \in Requests /\ req[r].status # "FINISHED"
      BY DEF Unfinished
    <2>2. PICK k : LiveFrom(req[r], r, batch_queue, Elapsed, Fresh, k)
      BY <2>1, RequestAt DEF RequestOK, Live
    <2>3. PICK n : n = Len(batch_queue) /\ n \in Nat /\ StepsFit(batch_queue)
      BY DEF Inv, StepsFit
    <2>4. /\ k \in 0 .. n /\ req[r].num_stale_output_tokens = Issued(batch_queue, r)[k]
          /\ req[r].num_tokens + Certain(batch_queue, r)[n] - Certain(batch_queue, r)[k]
               <= NumPrompt[r] + MaxTokens[r]
      BY <2>2, <2>3 DEF LiveFrom, Counts, Spaced
    <2>5. Issued(batch_queue, r)[j] = Issued(batch_queue, r)[k]
      BY <2>4 DEF Issued
    <2>6. Certain(batch_queue, r)[j] = Certain(batch_queue, r)[k]
      <3>1. ASSUME NEW a \in 0 .. n, NEW b \in 0 .. n, a <= b,
                   Issued(batch_queue, r)[a] = Issued(batch_queue, r)[b]
            PROVE Certain(batch_queue, r)[a] = Certain(batch_queue, r)[b]
        <4>1. \A m \in a + 1 .. b : r \notin DOMAIN batch_queue[m]
          BY <2>3, <3>1, MarksFlat
        <4>2. Quiet(batch_queue, r, a, b)
          BY <4>1 DEF Quiet, Samples
        <4> QED BY <2>3, <3>1, <4>2, QuietFlat
      <3>2. j \in 0 .. n /\ (j <= k \/ k <= j)
        BY <2>3, <2>4
      <3> QED BY <2>4, <2>5, <3>1, <3>2
    <2> QED BY <2>3, <2>4, <2>6 DEF Certain
  <1> QED BY <1>1, AlwaysInv, PTL
=============================================================================
