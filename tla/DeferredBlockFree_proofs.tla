---------------------- MODULE DeferredBlockFree_proofs ----------------------
(***************************************************************************)
(* Proofs about DeferredBlockFree, for every number of requests, blocks and *)
(* overlapping steps: no ref count ever falls below zero, and each one is   *)
(* exactly the number of holders of its block.  The types and RefCntExact   *)
(* together are inductive; most of the work is counting: what appending,    *)
(* draining or clearing does to the number of holders of a block.  On top   *)
(* of that, the fences: what a step in flight touches is never free.        *)
(***************************************************************************)
EXTENDS DeferredBlockFree, FiniteSetTheorems, SequenceTheorems, TLAPS

-----------------------------------------------------------------------------
(* Counting the holders of a block.                                         *)

(* Entries of a queue are counted by a natural number, which is 0 exactly   *)
(* when no entry holds the block.                                           *)
LEMMA HeldNat ==
  ASSUME NEW b, NEW q, Len(q) \in Nat
  PROVE  /\ IsFiniteSet({i \in 1 .. Len(q) : b \in q[i].blocks})
         /\ Held(b, q) \in Nat
         /\ Held(b, q) = 0 <=> \A i \in 1 .. Len(q) : b \notin q[i].blocks
<1> DEFINE S == {i \in 1 .. Len(q) : b \in q[i].blocks}
<1>1. IsFiniteSet(1 .. Len(q))
  BY FS_Interval
<1>2. IsFiniteSet(S)
  BY <1>1, FS_Subset
<1>3. Cardinality(S) \in Nat
  BY <1>2, FS_CardinalityType
<1>4. Cardinality(S) = 0 <=> S = {}
  BY <1>2, FS_EmptySet
<1> QED
  BY <1>2, <1>3, <1>4 DEF Held

(* The same for a queue given by its type.                                  *)
LEMMA HeldType ==
  ASSUME NEW b, NEW S, NEW q \in Seq(S)
  PROVE  Held(b, q) \in Nat
  BY LenProperties, HeldNat, Zenon

(* An empty queue holds nothing.                                            *)
LEMMA HeldEmpty == \A b : Held(b, <<>>) = 0
<1> TAKE b
<1>1. {i \in 1 .. Len(<<>>) : b \in <<>>[i].blocks} = {}
  OBVIOUS
<1> QED
  BY <1>1, FS_EmptySet DEF Held

(* The tables that hold a block are counted the same way.                   *)
LEMMA InTablesNat ==
  ASSUME NEW b, NEW t
  PROVE  /\ IsFiniteSet({r \in Requests : b \in t[r]})
         /\ InTables(b, t) \in Nat
         /\ InTables(b, t) = 0 <=> \A r \in Requests : b \notin t[r]
<1> DEFINE S == {r \in Requests : b \in t[r]}
<1>1. IsFiniteSet(S)
  BY DeferAssumption, FS_Subset
<1>2. Cardinality(S) \in Nat
  BY <1>1, FS_CardinalityType
<1>3. Cardinality(S) = 0 <=> S = {}
  BY <1>1, FS_EmptySet
<1> QED
  BY <1>1, <1>2, <1>3 DEF InTables

(* Giving a table blocks it did not hold adds one holder to each of them.   *)
LEMMA InTablesGrow ==
  ASSUME NEW t \in [Requests -> SUBSET Blocks], NEW u \in [Requests -> SUBSET Blocks],
         NEW r \in Requests, NEW b,
         \A q \in Requests \ {r} : u[q] = t[q],
         b \in t[r] => b \in u[r]
  PROVE  InTables(b, u) = IF b \in u[r] /\ b \notin t[r] THEN InTables(b, t) + 1
                                                         ELSE InTables(b, t)
<1> DEFINE T == {q \in Requests : b \in t[q]}
           U == {q \in Requests : b \in u[q]}
<1>1. IsFiniteSet(T)
  BY InTablesNat
<1>2. CASE b \in u[r] /\ b \notin t[r]
  <2>1. U = T \cup {r} /\ r \notin T
    BY <1>2
  <2> QED
    BY <1>1, <1>2, <2>1, FS_AddElement DEF InTables
<1>3. CASE ~(b \in u[r] /\ b \notin t[r])
  <2>1. U = T
    BY <1>3
  <2> QED
    BY <1>3, <2>1 DEF InTables
<1> QED
  BY <1>2, <1>3

(* Emptying a table takes one holder from each of its blocks.               *)
LEMMA InTablesClear ==
  ASSUME NEW t \in [Requests -> SUBSET Blocks], NEW r \in Requests, NEW b
  PROVE  InTables(b, [t EXCEPT ![r] = {}]) =
           IF b \in t[r] THEN InTables(b, t) - 1 ELSE InTables(b, t)
<1> DEFINE u == [t EXCEPT ![r] = {}]
           T == {q \in Requests : b \in t[q]}
           U == {q \in Requests : b \in u[q]}
<1>1. IsFiniteSet(T)
  BY InTablesNat
<1>2. U = T \ {r}
  OBVIOUS
<1>3. Cardinality(U) = IF r \in T THEN Cardinality(T) - 1 ELSE Cardinality(T)
  BY <1>1, <1>2, FS_RemoveElement
<1> QED
  BY <1>3 DEF InTables

(* Appending an entry adds one holder to each of its blocks.                *)
LEMMA HeldAppend ==
  ASSUME NEW S, NEW q \in Seq(S), NEW e \in S, NEW b
  PROVE  Held(b, Append(q, e)) = IF b \in e.blocks THEN Held(b, q) + 1 ELSE Held(b, q)
<1> DEFINE p == Append(q, e)
           Q == {i \in 1 .. Len(q) : b \in q[i].blocks}
           P == {i \in 1 .. Len(p) : b \in p[i].blocks}
           n == Len(q) + 1
<1>1. /\ Len(q) \in Nat /\ Len(p) = n
      /\ \A i \in 1 .. Len(q) : p[i] = q[i]
      /\ p[n] = e
  BY AppendProperties, LenProperties
<1>2. IsFiniteSet(Q)
  BY <1>1, HeldNat
<1>3. n \notin Q
  BY <1>1
<1>4. CASE b \in e.blocks
  <2>1. P = Q \cup {n}
    BY <1>1, <1>4
  <2> QED
    BY <1>2, <1>3, <1>4, <2>1, FS_AddElement DEF Held
<1>5. CASE b \notin e.blocks
  <2>1. P = Q
    BY <1>1, <1>5
  <2> QED
    BY <1>5, <2>1 DEF Held
<1> QED
  BY <1>4, <1>5

(* The holders in two queues add up when one is put behind the other.       *)
LEMMA HeldConcat ==
  ASSUME NEW S, NEW p \in Seq(S), NEW q \in Seq(S), NEW b
  PROVE  Held(b, p \o q) = Held(b, p) + Held(b, q)
<1> DEFINE m == Len(p)
           P == {i \in 1 .. Len(p) : b \in p[i].blocks}
           Q == {i \in 1 .. Len(q) : b \in q[i].blocks}
           R == {i \in 1 .. Len(p \o q) : b \in (p \o q)[i].blocks}
           U == {i \in m + 1 .. m + Len(q) : b \in q[i - m].blocks}
           f == [i \in Q |-> i + m]
<1>1. /\ Len(p) \in Nat /\ Len(q) \in Nat /\ Len(p \o q) = m + Len(q)
      /\ \A i \in 1 .. m + Len(q) :
           (p \o q)[i] = IF i <= m THEN p[i] ELSE q[i - m]
  BY ConcatProperties, LenProperties
<1>2. R = P \cup U /\ P \cap U = {}
  BY <1>1
<1>3. IsFiniteSet(P) /\ IsFiniteSet(Q)
  BY <1>1, HeldNat
<1>4. f \in Bijection(Q, U)
  <2>1. f \in [Q -> U]
    BY <1>1
  <2>2. \A i, j \in Q : f[i] = f[j] => i = j
    BY <1>1
  <2>3. \A u \in U : \E i \in Q : f[i] = u
    <3> TAKE u \in U
    <3>1. u - m \in Q /\ f[u - m] = u
      BY <1>1
    <3> QED
      BY <3>1
  <2> QED
    BY <2>1, <2>2, <2>3 DEF Bijection, Injection, Surjection, IsInjective
<1>5. IsFiniteSet(U) /\ Cardinality(U) = Cardinality(Q)
  BY <1>3, <1>4, FS_Bijection DEF ExistsBijection
<1>6. Cardinality(P \cup U) = Cardinality(P) + Cardinality(U) - Cardinality(P \cap U)
  BY <1>3, <1>5, FS_Union
<1>7. Cardinality(P \cap U) = 0
  BY <1>2, FS_EmptySet
<1>8. Cardinality(P) \in Nat /\ Cardinality(U) \in Nat
  BY <1>3, <1>5, FS_CardinalityType
<1> HIDE DEF P, Q, R, U
<1>9. Cardinality(R) = Cardinality(P) + Cardinality(Q)
  BY <1>2, <1>5, <1>6, <1>7, <1>8
<1> QED
  BY <1>9 DEF Held, P, Q, R

(* _drain_deferred_frees stops somewhere: the number of entries it pops is  *)
(* well defined.                                                            *)
LEMMA DrainableProperties ==
  ASSUME NEW q \in Seq(Entry), NEW processed \in Nat
  PROVE  /\ Drainable(q, processed) \in 0 .. Len(q)
         /\ \A i \in 1 .. Drainable(q, processed) : q[i].fence <= processed
<1> DEFINE Blocked == {i \in 1 .. Len(q) : ~(q[i].fence <= processed)}
           Good(n) == /\ \A i \in 1 .. n : q[i].fence <= processed
                      /\ n < Len(q) => q[n + 1].fence > processed
<1>0. /\ Len(q) \in Nat
      /\ \A i \in 1 .. Len(q) : q[i].fence \in Nat
  <2>1. Len(q) \in Nat /\ q \in [1 .. Len(q) -> Entry]
    BY LenProperties
  <2> QED
    BY <2>1 DEF Entry
<1>1. \E n \in 0 .. Len(q) : Good(n)
  <2>1. CASE Blocked = {}
    <3>1. Good(Len(q))
      BY <2>1, <1>0
    <3> QED
      BY <3>1, <1>0
  <2>2. CASE Blocked # {}
    <3>1. Blocked \subseteq Nat
      BY <1>0
    <3>2. PICK m \in Blocked : \A k \in Blocked : <<k, m>> \notin OpToRel(<, Nat)
      BY <2>2, <3>1, WFMin, NatLessThanWellFounded, Zenon
    <3>3. \A k \in Blocked : ~(k < m)
      BY <3>1, <3>2, Zenon DEF OpToRel
    <3>4. Good(m - 1) /\ m - 1 \in 0 .. Len(q)
      BY <1>0, <3>3
    <3> QED
      BY <3>4
  <2> QED
    BY <2>1, <2>2
<1> QED
  BY <1>1 DEF Drainable
-----------------------------------------------------------------------------
(* Type correctness.                                                        *)

(* What _drain_deferred_frees leaves and what it frees.                     *)
LEMMA DrainType ==
  ASSUME StateType, NEW n \in 0 .. Len(deferred_frees)
  PROVE  /\ SubSeq(deferred_frees, n + 1, Len(deferred_frees)) \in Seq(Entry)
         /\ SubSeq(deferred_frees, 1, n) \in Seq(Entry)
         /\ SubSeq(deferred_frees, 1, n)
              \o SubSeq(deferred_frees, n + 1, Len(deferred_frees)) = deferred_frees
<1>1. /\ deferred_frees \in Seq(Entry) /\ Len(deferred_frees) \in Nat
      /\ deferred_frees \in [1 .. Len(deferred_frees) -> Entry]
  BY LenProperties DEF StateType
<1>2. SubSeq(deferred_frees, n + 1, Len(deferred_frees)) \in Seq(Entry)
  BY <1>1, SubSeqProperties
<1>3. SubSeq(deferred_frees, 1, n) \in Seq(Entry)
  BY <1>1, SubSeqProperties
<1>4. SubSeq(deferred_frees, 1, n) \o SubSeq(deferred_frees, n + 1, Len(deferred_frees))
        = SubSeq(deferred_frees, 1, Len(deferred_frees))
  <2>1. 1 \in 1 .. Len(deferred_frees) + 1 /\ n \in 1 - 1 .. Len(deferred_frees)
        /\ Len(deferred_frees) \in n .. Len(deferred_frees)
    BY <1>1
  <2> QED
    BY <1>1, <2>1, ConcatAdjacentSubSeq
<1> QED
  BY <1>1, <1>2, <1>3, <1>4, SubSeqFull

(* The entries that take over the retained copies.                          *)
LEMMA CowEntriesType ==
  ASSUME StateType, NEW fence \in Nat
  PROVE  /\ CowEntries(fence) \in Seq(Entry)
         /\ Len(CowEntries(fence)) = Len(pending_cow_copies)
         /\ Len(pending_cow_copies) \in Nat
         /\ \A i \in 1 .. Len(pending_cow_copies) :
              pending_cow_copies[i].blocks \in SUBSET Blocks
         /\ \A b : Held(b, CowEntries(fence)) = Held(b, pending_cow_copies)
<1>1. /\ Len(pending_cow_copies) \in Nat
      /\ pending_cow_copies \in [1 .. Len(pending_cow_copies) -> Retained]
  BY LenProperties DEF StateType
<1>2. \A i \in 1 .. Len(pending_cow_copies) :
        pending_cow_copies[i].blocks \in SUBSET Blocks
  BY <1>1 DEF Retained
<1>3. CowEntries(fence) \in [1 .. Len(pending_cow_copies) -> Entry]
  BY <1>2 DEF CowEntries, Entry
<1>4. CowEntries(fence) \in Seq(Entry)
  BY <1>1, <1>3, SeqDef
<1>5. Len(CowEntries(fence)) = Len(pending_cow_copies)
  BY <1>1 DEF CowEntries
<1>6. ASSUME NEW b
      PROVE  Held(b, CowEntries(fence)) = Held(b, pending_cow_copies)
  <2>1. {i \in 1 .. Len(CowEntries(fence)) : b \in CowEntries(fence)[i].blocks}
          = {i \in 1 .. Len(pending_cow_copies) : b \in pending_cow_copies[i].blocks}
    BY <1>1, <1>5 DEF CowEntries
  <2> QED
    BY <2>1 DEF Held
<1> QED
  BY <1>1, <1>2, <1>4, <1>5, <1>6

(* What _free_request_blocks writes has the right type.                     *)
LEMMA FreeRequestType ==
  ASSUME StateType, NEW r \in Requests, _free_request_blocks(r)
  PROVE  /\ req_to_blocks' \in [Requests -> SUBSET Blocks]
         /\ ref_cnt' \in [Blocks -> Int]
         /\ deferred_frees' \in Seq(Entry)
<1>1. req_to_blocks' \in [Requests -> SUBSET Blocks]
  BY DEF StateType, _free_request_blocks
<1>2. ref_cnt' \in [Blocks -> Int]
  BY DEF StateType, _free_request_blocks, Minus
<1>3. [fence |-> sched_step_seq, blocks |-> req_to_blocks[r]] \in Entry
  BY DEF StateType, Entry
<1>4. Append(deferred_frees, [fence |-> sched_step_seq, blocks |-> req_to_blocks[r]])
        \in Seq(Entry)
  BY <1>3, AppendProperties, Zenon DEF StateType
<1>5. deferred_frees' \in Seq(Entry)
  BY <1>4, Zenon DEF StateType, _free_request_blocks
<1> QED
  BY <1>1, <1>2, <1>5

(* The record schedule() queues is a step.                                   *)
LEMMA StepType ==
  ASSUME NEW seq \in Nat, NEW tokens \in BOOLEAN, NEW reqs \in SUBSET Requests,
         NEW uses \in SUBSET Blocks
  PROVE  [seq |-> seq, tokens |-> tokens, reqs |-> reqs, uses |-> uses] \in Step
  BY DEF Step

(* Every action keeps the types.                                            *)
LEMMA TypeStep == StateType /\ [Next]_vars => StateType'
<1> SUFFICES ASSUME StateType, [Next]_vars PROVE StateType'
  OBVIOUS
<1>0. CASE UNCHANGED vars
  BY <1>0 DEF StateType, vars
<1>1. CASE BeginSchedule \/ EndUpdate \/ BeginReset \/ EndReset
  BY <1>1 DEF StateType, BeginSchedule, EndUpdate, BeginReset, EndReset, Phases
<1>2. CASE EndSchedule
  <2>1. /\ deferred_frees' \in Seq(Entry)
        /\ ref_cnt' \in [Blocks -> Int]
    <3>1. cow_fence \in Nat
      BY DEF StateType, cow_fence
    <3>2. deferred_frees \o CowEntries(cow_fence) \in Seq(Entry)
      BY <3>1, CowEntriesType, ConcatProperties DEF StateType
    <3>3. \A b \in Blocks : Held(b, pending_cow_copies) \in Nat
      BY HeldType, Zenon DEF StateType
    <3>4. CASE cow_fence <= processed_step_seq
      <4>1. /\ ref_cnt' = [b \in Blocks |-> ref_cnt[b] - Held(b, pending_cow_copies)]
            /\ deferred_frees' = deferred_frees
        BY <1>2, <3>4, Zenon DEF EndSchedule, _free_cow_retained_blocks
      <4> QED
        BY <3>3, <4>1 DEF StateType
    <3>5. CASE ~(cow_fence <= processed_step_seq)
      <4>1. /\ deferred_frees' = deferred_frees \o CowEntries(cow_fence)
            /\ ref_cnt' = ref_cnt
        BY <1>2, <3>5, Zenon DEF EndSchedule, _free_cow_retained_blocks
      <4> QED
        BY <3>2, <4>1 DEF StateType
    <3> QED
      BY <3>4, <3>5
  <2>2. batch_queue' \in Seq(Step)
    <3> DEFINE step == [seq |-> sched_step_seq + 1, tokens |-> batch # {}, reqs |-> batch,
                        uses |-> TableBlocks(batch) \cup CopyBlocks]
    <3>1. TableBlocks(batch) \subseteq Blocks
      BY DEF StateType, TableBlocks
    <3>2. CopyBlocks \subseteq Blocks
      BY CowEntriesType, SMT DEF CopyBlocks
    <3>3. step \in Step
      <4>1. sched_step_seq + 1 \in Nat /\ batch \in SUBSET Requests
        BY DEF StateType
      <4>2. (batch # {}) \in BOOLEAN
        OBVIOUS
      <4>3. TableBlocks(batch) \cup CopyBlocks \in SUBSET Blocks
        BY <3>1, <3>2
      <4> QED
        BY <4>1, <4>2, <4>3, StepType, Zenon
    <3>4. batch_queue' = Append(batch_queue, step)
      BY <1>2 DEF EndSchedule
    <3> QED
      BY <3>3, <3>4, AppendProperties DEF StateType
  <2>3. pending_cow_copies' \in Seq(Retained)
    BY <1>2, EmptySeq DEF EndSchedule
  <2>4. last_sched_seq' \in [Requests -> Nat] /\ sched_step_seq' \in Nat
    BY <1>2 DEF StateType, EndSchedule
  <2>5. /\ phase' = "idle" /\ batch' = {}
        /\ UNCHANGED <<status, req_to_blocks, loading, processed_step_seq>>
    BY <1>2, Zenon DEF EndSchedule
  <2>6. phase' \in Phases /\ batch' \in SUBSET Requests
    BY <2>5 DEF Phases
  <2>7. /\ status' \in [Requests -> Statuses]
        /\ req_to_blocks' \in [Requests -> SUBSET Blocks]
        /\ loading' \in [Requests -> SUBSET Blocks]
        /\ processed_step_seq' \in Nat
    BY <2>5 DEF StateType
  <2> QED
    BY <2>1, <2>2, <2>3, <2>4, <2>6, <2>7, Zenon DEF StateType
<1>3. CASE BeginUpdate
  <2> DEFINE n == Drainable(deferred_frees, processed_step_seq + 1)
  <2>1. Head(batch_queue) \in Step /\ batch_queue' \in Seq(Step)
    BY <1>3, HeadTailProperties DEF StateType, BeginUpdate
  <2>2. n \in 0 .. Len(deferred_frees)
    <3>1. deferred_frees \in Seq(Entry) /\ processed_step_seq + 1 \in Nat
      BY DEF StateType
    <3> QED
      BY <3>1, DrainableProperties, Zenon
  <2>3. \A b \in Blocks : Held(b, SubSeq(deferred_frees, 1, n)) \in Nat
    <3>1. SubSeq(deferred_frees, 1, n) \in Seq(Entry)
      BY <2>2, DrainType
    <3> QED
      BY <3>1, HeldType, Zenon
  <2>4. deferred_frees' \in Seq(Entry) /\ ref_cnt' \in [Blocks -> Int]
        /\ processed_step_seq' \in Nat
    <3> HIDE DEF n
    <3>1. CASE Head(batch_queue).tokens
      <4>1. /\ deferred_frees' = SubSeq(deferred_frees, n + 1, Len(deferred_frees))
            /\ ref_cnt' = [b \in Blocks |->
                             ref_cnt[b] - Held(b, SubSeq(deferred_frees, 1, n))]
            /\ processed_step_seq' = processed_step_seq + 1
        BY <1>3, <3>1 DEF BeginUpdate, _drain_deferred_frees, n
      <4> QED
        BY <4>1, <2>2, <2>3, DrainType DEF StateType
    <3>2. CASE ~Head(batch_queue).tokens
      BY <1>3, <3>2 DEF StateType, BeginUpdate
    <3> QED
      BY <3>1, <3>2
  <2> QED
    BY <1>3, <2>1, <2>4 DEF StateType, BeginUpdate, Phases, Step
<1>4. ASSUME NEW r \in Requests, NEW new \in SUBSET Blocks, ScheduleRunning(r, new)
      PROVE  StateType'
  BY <1>4 DEF StateType, ScheduleRunning, Plus
<1>5. ASSUME NEW r \in Requests, NEW src \in Blocks, NEW dst \in Blocks,
             ScheduleRunningCow(r, src, dst) \/ ScheduleWaitingCow(r, src, dst)
      PROVE  StateType'
  <2>1. [blocks |-> {src, dst}] \in Retained
    BY DEF Retained
  <2>2. Append(pending_cow_copies, [blocks |-> {src, dst}]) \in Seq(Retained)
    BY <2>1, AppendProperties, Zenon DEF StateType
  <2>3. CASE ScheduleRunningCow(r, src, dst)
    BY <2>3, <2>2 DEF StateType, ScheduleRunningCow, Plus
  <2>4. CASE ScheduleWaitingCow(r, src, dst)
    BY <2>4, <2>2 DEF StateType, ScheduleWaitingCow, Plus, Phases, Statuses
  <2> QED
    BY <1>5, <2>3, <2>4
<1>6. ASSUME NEW r \in Requests, NEW hit \in SUBSET Blocks, NEW new \in SUBSET Blocks,
             NEW load \in BOOLEAN, ScheduleWaiting(r, hit, new, load)
      PROVE  StateType'
  BY <1>6 DEF StateType, ScheduleWaiting, Plus, Phases, Statuses
<1>7. ASSUME NEW r \in Requests, NEW valid \in BOOLEAN, PromoteReceived(r, valid)
      PROVE  StateType'
  BY <1>7 DEF StateType, PromoteReceived, Minus, Phases, Statuses
<1>8. ASSUME NEW r \in Requests, Preempt(r)
      PROVE  StateType'
  <2>1. _free_request_blocks(r)
    BY <1>8 DEF Preempt
  <2> QED
    BY <1>8, <2>1, FreeRequestType DEF StateType, Preempt, Phases, Statuses
<1>9. ASSUME NEW r \in Requests, NEW keep \in BOOLEAN, Finish(r, keep) \/ Abort(r, keep)
      PROVE  StateType'
  <2>1. /\ req_to_blocks' \in [Requests -> SUBSET Blocks]
        /\ ref_cnt' \in [Blocks -> Int]
        /\ deferred_frees' \in Seq(Entry)
    BY <1>9, FreeRequestType DEF StateType, Finish, Abort, _free_request
  <2> QED
    BY <1>9, <2>1 DEF StateType, Finish, Abort, _free_request, Statuses
<1>10. ASSUME NEW r \in Requests, FinishedRecving(r) \/ FinishedSending(r)
       PROVE  StateType'
  <2>1. /\ req_to_blocks' \in [Requests -> SUBSET Blocks]
        /\ ref_cnt' \in [Blocks -> Int]
        /\ deferred_frees' \in Seq(Entry)
    BY <1>10, FreeRequestType DEF StateType, FinishedRecving, FinishedSending, _free_request
  <2> QED
    BY <1>10, <2>1 DEF StateType, FinishedRecving, FinishedSending, _free_request, Statuses
<1> QED
  BY <1>0, <1>1, <1>2, <1>3, <1>4, <1>5, <1>6, <1>7, <1>8, <1>9, <1>10 DEF Next

(* The types hold before the first step.                                    *)
LEMMA TypeInit == Init => StateType
  BY EmptySeq DEF Init, StateType, Phases, Statuses

-----------------------------------------------------------------------------
(* The ref counts.                                                          *)

(* A free block is in no table, entry or queued copy.                       *)
LEMMA FreeUnheld ==
  ASSUME StateType, RefCntExact, NEW b \in Free
  PROVE  /\ \A r \in Requests : b \notin req_to_blocks[r]
         /\ \A i \in 1 .. Len(deferred_frees) : b \notin deferred_frees[i].blocks
         /\ \A i \in 1 .. Len(pending_cow_copies) : b \notin pending_cow_copies[i].blocks
<1>1. b \in Blocks /\ ref_cnt[b] = 0
  BY DEF Free
<1>2. Len(deferred_frees) \in Nat /\ Len(pending_cow_copies) \in Nat
  BY LenProperties DEF StateType
<1>3. /\ InTables(b, req_to_blocks) \in Nat
      /\ Held(b, deferred_frees) \in Nat
      /\ Held(b, pending_cow_copies) \in Nat
  BY <1>2, InTablesNat, HeldNat, Zenon
<1>4. /\ InTables(b, req_to_blocks) = 0
      /\ Held(b, deferred_frees) = 0
      /\ Held(b, pending_cow_copies) = 0
  BY <1>1, <1>3 DEF RefCntExact
<1> QED
  BY <1>2, <1>4, InTablesNat, HeldNat, Zenon

(* A block with a holder is not free.                                       *)
LEMMA HeldNotFree ==
  ASSUME StateType, RefCntExact, NEW b,
         \/ \E r \in Requests : b \in req_to_blocks[r]
         \/ \E i \in 1 .. Len(deferred_frees) : b \in deferred_frees[i].blocks
  PROVE  b \notin Free
  BY FreeUnheld

(* The three numbers that make up a ref count.                              *)
LEMMA CountsNat ==
  ASSUME StateType, NEW b
  PROVE  /\ InTables(b, req_to_blocks) \in Nat
         /\ Held(b, deferred_frees) \in Nat
         /\ Held(b, pending_cow_copies) \in Nat
  BY InTablesNat, HeldType, Zenon DEF StateType

(* _free_request_blocks moves the references of r to the queue or drops     *)
(* them.                                                                    *)
LEMMA FreeRequestCounts ==
  ASSUME StateType, RefCntExact, NEW r \in Requests, _free_request_blocks(r),
         UNCHANGED pending_cow_copies
  PROVE  RefCntExact'
<1> SUFFICES ASSUME NEW b \in Blocks
             PROVE  ref_cnt'[b] = InTables(b, req_to_blocks') + Held(b, deferred_frees')
                                    + Held(b, pending_cow_copies)
  BY Zenon DEF RefCntExact, Held
<1>1. /\ req_to_blocks' = [req_to_blocks EXCEPT ![r] = {}]
      /\ req_to_blocks \in [Requests -> SUBSET Blocks]
  BY DEF _free_request_blocks, StateType
<1>2. InTables(b, req_to_blocks') =
        IF b \in req_to_blocks[r] THEN InTables(b, req_to_blocks) - 1
                                  ELSE InTables(b, req_to_blocks)
  BY <1>1, InTablesClear, Zenon
<1>3. ref_cnt[b] = InTables(b, req_to_blocks) + Held(b, deferred_frees)
                     + Held(b, pending_cow_copies)
  BY DEF RefCntExact
<1>4. CASE last_sched_seq[r] <= processed_step_seq
  <2>1. ref_cnt' = Minus(ref_cnt, req_to_blocks[r]) /\ deferred_frees' = deferred_frees
    BY <1>4 DEF _free_request_blocks
  <2>2. ref_cnt'[b] = IF b \in req_to_blocks[r] THEN ref_cnt[b] - 1 ELSE ref_cnt[b]
    BY <2>1 DEF Minus
  <2>3. Held(b, deferred_frees') = Held(b, deferred_frees)
    BY <2>1
  <2> QED
    BY <1>2, <1>3, <2>2, <2>3, CountsNat
<1>5. CASE ~(last_sched_seq[r] <= processed_step_seq) /\ req_to_blocks[r] = {}
  <2>1. ref_cnt' = ref_cnt /\ deferred_frees' = deferred_frees
    BY <1>5 DEF _free_request_blocks
  <2> QED
    BY <1>2, <1>3, <1>5, <2>1
<1>6. CASE ~(last_sched_seq[r] <= processed_step_seq) /\ req_to_blocks[r] # {}
  <2> DEFINE e == [fence |-> sched_step_seq, blocks |-> req_to_blocks[r]]
  <2>1. ref_cnt' = ref_cnt /\ deferred_frees' = Append(deferred_frees, e)
    BY <1>6 DEF _free_request_blocks
  <2>2. e \in Entry /\ e.blocks = req_to_blocks[r] /\ deferred_frees \in Seq(Entry)
    BY DEF StateType, Entry
  <2> HIDE DEF e
  <2>3. Held(b, deferred_frees') = IF b \in req_to_blocks[r] THEN Held(b, deferred_frees) + 1
                                                             ELSE Held(b, deferred_frees)
    BY <2>1, <2>2, HeldAppend, Zenon
  <2> QED
    BY <1>2, <1>3, <2>1, <2>3, CountsNat
<1> QED
  BY <1>4, <1>5, <1>6

(* Every action moves as many references as it counts.                      *)
LEMMA RefCntStep == StateType /\ RefCntExact /\ [Next]_vars => RefCntExact'
<1> SUFFICES ASSUME StateType, RefCntExact, [Next]_vars PROVE RefCntExact'
  OBVIOUS
<1> DEFINE Exact(rc, t, d, p) ==
      \A b \in Blocks : rc[b] = InTables(b, t) + Held(b, d) + Held(b, p)
<1>a. ASSUME Exact(ref_cnt', req_to_blocks', deferred_frees', pending_cow_copies')
      PROVE  RefCntExact'
  BY <1>a, Zenon DEF RefCntExact, InTables, Held
<1>b. Exact(ref_cnt, req_to_blocks, deferred_frees, pending_cow_copies)
  BY DEF RefCntExact
<1>c. /\ req_to_blocks \in [Requests -> SUBSET Blocks]
      /\ deferred_frees \in Seq(Entry) /\ pending_cow_copies \in Seq(Retained)
      /\ ref_cnt \in [Blocks -> Int]
  BY DEF StateType
<1>0. CASE UNCHANGED <<ref_cnt, req_to_blocks, deferred_frees, pending_cow_copies>>
  BY <1>0, <1>a, <1>b
<1>1. CASE UNCHANGED vars
  BY <1>0, <1>1 DEF vars
<1>2. CASE BeginSchedule \/ EndUpdate \/ BeginReset \/ EndReset
  BY <1>0, <1>2 DEF BeginSchedule, EndUpdate, BeginReset, EndReset
<1>3. CASE EndSchedule
  <2> SUFFICES ASSUME NEW b \in Blocks
               PROVE  ref_cnt'[b] = InTables(b, req_to_blocks') + Held(b, deferred_frees')
                                      + Held(b, pending_cow_copies')
    BY <1>a
  <2>1. req_to_blocks' = req_to_blocks /\ pending_cow_copies' = <<>>
    BY <1>3 DEF EndSchedule
  <2>2. Held(b, <<>>) = 0
    BY HeldEmpty
  <2>3. CASE cow_fence <= processed_step_seq
    <3>1. /\ ref_cnt' = [c \in Blocks |-> ref_cnt[c] - Held(c, pending_cow_copies)]
          /\ deferred_frees' = deferred_frees
      BY <1>3, <2>3, Zenon DEF EndSchedule, _free_cow_retained_blocks
    <3>2. ref_cnt'[b] = ref_cnt[b] - Held(b, pending_cow_copies)
      BY <3>1
    <3> QED
      BY <1>b, <2>1, <2>2, <3>1, <3>2, CountsNat
  <2>4. CASE ~(cow_fence <= processed_step_seq)
    <3>1. /\ deferred_frees' = deferred_frees \o CowEntries(cow_fence)
          /\ ref_cnt' = ref_cnt
      BY <1>3, <2>4, Zenon DEF EndSchedule, _free_cow_retained_blocks
    <3>2. cow_fence \in Nat
      BY DEF StateType, cow_fence
    <3>3. /\ CowEntries(cow_fence) \in Seq(Entry)
          /\ Held(b, CowEntries(cow_fence)) = Held(b, pending_cow_copies)
      BY <3>2, CowEntriesType, Zenon
    <3>4. Held(b, deferred_frees') = Held(b, deferred_frees) + Held(b, pending_cow_copies)
      <4>1. Held(b, deferred_frees \o CowEntries(cow_fence)) =
              Held(b, deferred_frees) + Held(b, CowEntries(cow_fence))
        BY <1>c, <3>3, HeldConcat, Zenon
      <4> QED
        BY <3>1, <3>3, <4>1
    <3> QED
      BY <1>b, <2>1, <2>2, <3>1, <3>4, CountsNat
  <2> QED
    BY <2>3, <2>4
<1>4. CASE BeginUpdate
  <2>0. CASE ~Head(batch_queue).tokens
    BY <1>0, <1>4, <2>0 DEF BeginUpdate
  <2>1. CASE Head(batch_queue).tokens
    <3> SUFFICES ASSUME NEW b \in Blocks
                 PROVE  ref_cnt'[b] = InTables(b, req_to_blocks') + Held(b, deferred_frees')
                                        + Held(b, pending_cow_copies')
      BY <1>a
    <3> DEFINE n == Drainable(deferred_frees, processed_step_seq + 1)
               gone == SubSeq(deferred_frees, 1, n)
               left == SubSeq(deferred_frees, n + 1, Len(deferred_frees))
    <3>1. /\ deferred_frees' = left
          /\ ref_cnt' = [c \in Blocks |-> ref_cnt[c] - Held(c, gone)]
          /\ req_to_blocks' = req_to_blocks /\ pending_cow_copies' = pending_cow_copies
      BY <1>4, <2>1 DEF BeginUpdate, _drain_deferred_frees
    <3>2. n \in 0 .. Len(deferred_frees)
      <4>1. processed_step_seq + 1 \in Nat
        BY DEF StateType
      <4> QED
        BY <1>c, <4>1, DrainableProperties, Zenon
    <3>3. gone \in Seq(Entry) /\ left \in Seq(Entry) /\ gone \o left = deferred_frees
      BY <3>2, DrainType
    <3> HIDE DEF n, gone, left
    <3>4. Held(b, deferred_frees) = Held(b, gone) + Held(b, left)
      BY <3>3, HeldConcat, Zenon
    <3>5. Held(b, gone) \in Nat /\ Held(b, left) \in Nat
      BY <3>3, HeldType, Zenon
    <3>6. ref_cnt'[b] = ref_cnt[b] - Held(b, gone)
      BY <3>1
    <3> QED
      BY <1>b, <3>1, <3>4, <3>5, <3>6, CountsNat
  <2> QED
    BY <2>0, <2>1
<1>5. ASSUME NEW r \in Requests, NEW S \in SUBSET Blocks,
             \A b \in S : b \notin req_to_blocks[r],
             req_to_blocks' = [req_to_blocks EXCEPT ![r] = @ \cup S],
             ref_cnt' = Plus(ref_cnt, S),
             UNCHANGED <<deferred_frees, pending_cow_copies>>
      PROVE  RefCntExact'
  <2> SUFFICES ASSUME NEW b \in Blocks
               PROVE  ref_cnt'[b] = InTables(b, req_to_blocks') + Held(b, deferred_frees')
                                      + Held(b, pending_cow_copies')
    BY <1>a
  <2>1. /\ req_to_blocks' \in [Requests -> SUBSET Blocks]
        /\ \A q \in Requests \ {r} : req_to_blocks'[q] = req_to_blocks[q]
        /\ req_to_blocks'[r] = req_to_blocks[r] \cup S
    BY <1>5, <1>c
  <2>2. InTables(b, req_to_blocks') =
          IF b \in req_to_blocks'[r] /\ b \notin req_to_blocks[r]
          THEN InTables(b, req_to_blocks) + 1 ELSE InTables(b, req_to_blocks)
    BY <1>c, <2>1, InTablesGrow
  <2>3. ref_cnt'[b] = IF b \in S THEN ref_cnt[b] + 1 ELSE ref_cnt[b]
    BY <1>5 DEF Plus
  <2> QED
    BY <1>5, <1>b, <2>1, <2>2, <2>3, CountsNat
<1>6. ASSUME NEW r \in Requests, NEW new \in SUBSET Blocks, ScheduleRunning(r, new)
      PROVE  RefCntExact'
  <2>1. \A b \in new : b \notin req_to_blocks[r]
    BY <1>6, FreeUnheld DEF ScheduleRunning
  <2> QED
    BY <1>5, <1>6, <2>1 DEF ScheduleRunning
<1>7. ASSUME NEW r \in Requests, NEW hit \in SUBSET Blocks, NEW new \in SUBSET Blocks,
             NEW load \in BOOLEAN, ScheduleWaiting(r, hit, new, load)
      PROVE  RefCntExact'
  <2> DEFINE S == hit \cup new
  <2>1. \A b \in S : b \notin req_to_blocks[r]
    BY <1>7, FreeUnheld DEF ScheduleWaiting
  <2>2. /\ req_to_blocks' = [req_to_blocks EXCEPT ![r] = @ \cup S]
        /\ ref_cnt' = Plus(ref_cnt, S)
        /\ UNCHANGED <<deferred_frees, pending_cow_copies>>
        /\ S \in SUBSET Blocks
    BY <1>7, <1>c DEF ScheduleWaiting
  <2> QED
    BY <1>5, <2>1, <2>2
<1>8. ASSUME NEW src \in Blocks, NEW dst \in Blocks, NEW t \in [Requests -> SUBSET Blocks],
             NEW rc, RefCntExact,
             \A b \in Blocks : rc[b] = InTables(b, t) + Held(b, deferred_frees)
                                         + Held(b, pending_cow_copies),
             req_to_blocks' = t,
             ref_cnt' = Plus(rc, {src, dst}),
             pending_cow_copies' = Append(pending_cow_copies, [blocks |-> {src, dst}]),
             UNCHANGED deferred_frees
      PROVE  RefCntExact'
  <2> SUFFICES ASSUME NEW b \in Blocks
               PROVE  ref_cnt'[b] = InTables(b, req_to_blocks') + Held(b, deferred_frees')
                                      + Held(b, pending_cow_copies')
    BY <1>a
  <2> DEFINE e == [blocks |-> {src, dst}]
  <2>1. e \in Retained /\ e.blocks = {src, dst}
    BY DEF Retained
  <2> HIDE DEF e
  <2>2. Held(b, Append(pending_cow_copies, e)) =
          IF b \in {src, dst} THEN Held(b, pending_cow_copies) + 1
                              ELSE Held(b, pending_cow_copies)
    BY <1>c, <2>1, HeldAppend, Zenon
  <2>3. pending_cow_copies' = Append(pending_cow_copies, e)
    BY <1>8 DEF e
  <2>4. ref_cnt'[b] = IF b \in {src, dst} THEN rc[b] + 1 ELSE rc[b]
    BY <1>8 DEF Plus
  <2>5. InTables(b, t) \in Nat
    BY InTablesNat
  <2>6. rc[b] = InTables(b, t) + Held(b, deferred_frees) + Held(b, pending_cow_copies)
    BY <1>8
  <2>7. req_to_blocks' = t /\ deferred_frees' = deferred_frees
    BY <1>8
  <2> QED
    BY <2>2, <2>3, <2>4, <2>5, <2>6, <2>7, CountsNat
<1>9. ASSUME NEW r \in Requests, NEW src \in Blocks, NEW dst \in Blocks,
             ScheduleRunningCow(r, src, dst)
      PROVE  RefCntExact'
  BY <1>8, <1>9, <1>b, <1>c DEF ScheduleRunningCow
<1>10. ASSUME NEW r \in Requests, NEW src \in Blocks, NEW dst \in Blocks,
              ScheduleWaitingCow(r, src, dst)
       PROVE  RefCntExact'
  <2> DEFINE t == [req_to_blocks EXCEPT ![r] = {dst}]
             rc == Plus(ref_cnt, {dst})
  <2>1. req_to_blocks[r] = {} /\ src # dst
    BY <1>10 DEF ScheduleWaitingCow
  <2>2. t \in [Requests -> SUBSET Blocks]
    BY <1>c
  <2>3. ASSUME NEW b \in Blocks
        PROVE  rc[b] = InTables(b, t) + Held(b, deferred_frees)
                         + Held(b, pending_cow_copies)
    <3>1. /\ \A q \in Requests \ {r} : t[q] = req_to_blocks[q]
          /\ t[r] = {dst}
      BY <1>c
    <3>2. InTables(b, t) = IF b = dst THEN InTables(b, req_to_blocks) + 1
                                      ELSE InTables(b, req_to_blocks)
      BY <1>c, <2>1, <2>2, <3>1, InTablesGrow
    <3>3. rc[b] = IF b = dst THEN ref_cnt[b] + 1 ELSE ref_cnt[b]
      BY DEF Plus
    <3> QED
      BY <1>b, <3>2, <3>3, CountsNat
  <2>4. ref_cnt' = Plus(rc, {src, dst})
    BY <1>10, <1>c DEF ScheduleWaitingCow, Plus
  <2>5. /\ req_to_blocks' = t /\ UNCHANGED deferred_frees
        /\ pending_cow_copies' = Append(pending_cow_copies, [blocks |-> {src, dst}])
    BY <1>10 DEF ScheduleWaitingCow
  <2> HIDE DEF t, rc
  <2> QED
    BY <1>8, <2>2, <2>3, <2>4, <2>5
<1>11. ASSUME NEW r \in Requests, NEW valid \in BOOLEAN, PromoteReceived(r, valid)
       PROVE  RefCntExact'
  <2>1. CASE valid
    <3>1. req_to_blocks' = req_to_blocks
      BY <1>11, <1>c, <2>1 DEF PromoteReceived
    <3> QED
      BY <1>0, <1>11, <2>1, <3>1 DEF PromoteReceived
  <2>2. CASE ~valid
    <3> SUFFICES ASSUME NEW b \in Blocks
                 PROVE  ref_cnt'[b] = InTables(b, req_to_blocks') + Held(b, deferred_frees')
                                        + Held(b, pending_cow_copies')
      BY <1>a
    <3>1. /\ req_to_blocks' = [req_to_blocks EXCEPT ![r] = {}]
          /\ ref_cnt' = Minus(ref_cnt, req_to_blocks[r])
          /\ UNCHANGED <<deferred_frees, pending_cow_copies>>
      BY <1>11, <2>2 DEF PromoteReceived
    <3>2. InTables(b, req_to_blocks') =
            IF b \in req_to_blocks[r] THEN InTables(b, req_to_blocks) - 1
                                      ELSE InTables(b, req_to_blocks)
      BY <1>c, <3>1, InTablesClear, Zenon
    <3>3. ref_cnt'[b] = IF b \in req_to_blocks[r] THEN ref_cnt[b] - 1 ELSE ref_cnt[b]
      BY <3>1 DEF Minus
    <3> QED
      BY <1>b, <3>1, <3>2, <3>3, CountsNat
  <2> QED
    BY <2>1, <2>2
<1>12. ASSUME NEW r \in Requests, Preempt(r) PROVE RefCntExact'
  BY <1>12, FreeRequestCounts DEF Preempt
<1>13. ASSUME NEW r \in Requests, NEW keep \in BOOLEAN, Finish(r, keep) \/ Abort(r, keep)
       PROVE  RefCntExact'
  <2>1. UNCHANGED pending_cow_copies
    BY <1>13 DEF Finish, Abort
  <2>2. \/ UNCHANGED <<req_to_blocks, ref_cnt, deferred_frees>>
        \/ _free_request_blocks(r)
    BY <1>13 DEF Finish, Abort, _free_request
  <2> QED
    BY <1>0, <2>1, <2>2, FreeRequestCounts
<1>14. ASSUME NEW r \in Requests, FinishedRecving(r) \/ FinishedSending(r)
       PROVE  RefCntExact'
  <2>1. UNCHANGED pending_cow_copies
    BY <1>14 DEF FinishedRecving, FinishedSending
  <2>2. \/ UNCHANGED <<req_to_blocks, ref_cnt, deferred_frees>>
        \/ _free_request_blocks(r)
    BY <1>14 DEF FinishedRecving, FinishedSending, _free_request
  <2> QED
    BY <1>0, <2>1, <2>2, FreeRequestCounts
<1> QED
  BY <1>1, <1>2, <1>3, <1>4, <1>6, <1>7, <1>9, <1>10, <1>11, <1>12, <1>13, <1>14 DEF Next

(* No block is referenced before the first step.                            *)
LEMMA CountsInit == Init => StateType /\ RefCntExact
<1> SUFFICES ASSUME Init, NEW b \in Blocks
             PROVE  ref_cnt[b] = InTables(b, req_to_blocks) + Held(b, deferred_frees)
                                   + Held(b, pending_cow_copies)
  BY TypeInit DEF RefCntExact
<1>1. Held(b, deferred_frees) = 0 /\ Held(b, pending_cow_copies) = 0
  BY HeldEmpty DEF Init
<1>2. InTables(b, req_to_blocks) = 0
  <2>1. \A r \in Requests : b \notin req_to_blocks[r]
    BY DEF Init
  <2> QED
    BY <2>1, InTablesNat, Zenon
<1> QED
  BY <1>1, <1>2 DEF Init

(* Every block's ref count is the number of its holders, at all times.      *)
THEOREM RefCountsExact == Spec => []RefCntExact
<1>1. Init => StateType /\ RefCntExact
  BY CountsInit
<1>2. StateType /\ RefCntExact /\ [Next]_vars => StateType' /\ RefCntExact'
  BY TypeStep, RefCntStep
<1> QED
  BY <1>1, <1>2, PTL DEF Spec

(* The scheduler's fence bookkeeping keeps its types, and no ref count ever *)
(* falls below zero.                                                        *)
THEOREM TypeCorrect == Spec => []TypeOK
<1>1. Init => StateType /\ RefCntExact
  BY CountsInit
<1>2. StateType /\ RefCntExact /\ [Next]_vars => StateType' /\ RefCntExact'
  BY TypeStep, RefCntStep
<1>3. StateType /\ RefCntExact => TypeOK
  <2> SUFFICES ASSUME StateType, RefCntExact, NEW b \in Blocks
               PROVE  ref_cnt[b] >= 0
    BY DEF TypeOK
  <2> QED
    BY CountsNat DEF RefCntExact
<1> QED
  BY <1>1, <1>2, <1>3, PTL DEF Spec

-----------------------------------------------------------------------------
(* The fences: a block that a step in flight touches is never free, and no  *)
(* connector load fills such a block.  Neither property is inductive.  What *)
(* is: the steps are numbered in order, and every block of a queued step is *)
(* pinned, by the table of a request scheduled in that step or later or by  *)
(* an entry fenced so.                                                      *)

(* Queued steps are numbered in order, without gaps, above what is          *)
(* processed; a step without tokens shares the number of the next one.      *)
StepsInOrder ==
  /\ processed_step_seq <= sched_step_seq
  /\ \A i \in 1 .. Len(batch_queue) :
       /\ batch_queue[i].seq > processed_step_seq
       /\ batch_queue[i].seq <= sched_step_seq + 1
       /\ batch_queue[i].tokens => batch_queue[i].seq <= sched_step_seq
  /\ \A i, j \in 1 .. Len(batch_queue) : i < j =>
       /\ batch_queue[i].seq <= batch_queue[j].seq
       /\ batch_queue[i].tokens => batch_queue[i].seq < batch_queue[j].seq
  /\ \A k \in 1 .. sched_step_seq : processed_step_seq < k =>
       \E i \in 1 .. Len(batch_queue) :
         batch_queue[i].tokens /\ batch_queue[i].seq = k

(* No request was scheduled in a step that is not issued.                   *)
LastSeqIssued == \A r \in Requests : last_sched_seq[r] <= sched_step_seq

(* Whoever keeps block b away from the pool until step seq is processed: a  *)
(* request that was scheduled in it or later, or an entry fenced so.        *)
PinnedByTable(b, seq) ==
  \E r \in Requests : /\ status[r] \in {"running", "sending"}
                      /\ b \in req_to_blocks[r]
                      /\ last_sched_seq[r] >= seq
PinnedByEntry(b, seq) ==
  \E j \in 1 .. Len(deferred_frees) : /\ b \in deferred_frees[j].blocks
                                      /\ deferred_frees[j].fence >= seq
Pinned ==
  \A i \in 1 .. Len(batch_queue) : \A b \in batch_queue[i].uses :
    \/ PinnedByTable(b, batch_queue[i].seq)
    \/ PinnedByEntry(b, batch_queue[i].seq)

(* The requests of a step being built are running.                          *)
BatchRunning ==
  phase \in {"running", "preempting", "waiting"} =>
    \A r \in batch : status[r] = "running"

(* A block being filled belongs to the loading request and to nobody else.  *)
LoadsPrivate ==
  \A r \in Requests :
    /\ loading[r] # {} => status[r] \in {"loading", "draining"}
    /\ loading[r] \subseteq req_to_blocks[r]
    /\ \A b \in loading[r] : \A i \in 1 .. Len(pending_cow_copies) :
         b \notin pending_cow_copies[i].blocks

-----------------------------------------------------------------------------
(* The fences.                                                              *)

(* Only schedule() and update_from_output() as a whole number the steps.    *)
LEMMA QueueFrame ==
  ASSUME [Next]_vars, ~EndSchedule, ~BeginUpdate
  PROVE  UNCHANGED <<sched_step_seq, processed_step_seq, last_sched_seq, batch_queue>>
<1>1. CASE UNCHANGED vars
  BY <1>1 DEF vars
<1>2. CASE BeginSchedule \/ EndUpdate \/ BeginReset \/ EndReset
  BY <1>2 DEF BeginSchedule, EndUpdate, BeginReset, EndReset
<1>3. ASSUME NEW r \in Requests, NEW new, ScheduleRunning(r, new)
      PROVE  UNCHANGED <<sched_step_seq, processed_step_seq, last_sched_seq, batch_queue>>
  BY <1>3, Zenon DEF ScheduleRunning
<1>4. ASSUME NEW r \in Requests, NEW src, NEW dst,
             ScheduleRunningCow(r, src, dst) \/ ScheduleWaitingCow(r, src, dst)
      PROVE  UNCHANGED <<sched_step_seq, processed_step_seq, last_sched_seq, batch_queue>>
  BY <1>4, Zenon DEF ScheduleRunningCow, ScheduleWaitingCow
<1>5. ASSUME NEW r \in Requests, NEW hit, NEW new, NEW load, ScheduleWaiting(r, hit, new, load)
      PROVE  UNCHANGED <<sched_step_seq, processed_step_seq, last_sched_seq, batch_queue>>
  BY <1>5, Zenon DEF ScheduleWaiting
<1>6. ASSUME NEW r \in Requests, NEW valid, PromoteReceived(r, valid)
      PROVE  UNCHANGED <<sched_step_seq, processed_step_seq, last_sched_seq, batch_queue>>
  BY <1>6, Zenon DEF PromoteReceived
<1>7. ASSUME NEW r \in Requests,
             \/ Preempt(r) \/ FinishedRecving(r) \/ FinishedSending(r)
             \/ \E keep \in BOOLEAN : Finish(r, keep) \/ Abort(r, keep)
      PROVE  UNCHANGED <<sched_step_seq, processed_step_seq, last_sched_seq, batch_queue>>
  BY <1>7, Zenon DEF Preempt, Finish, Abort, FinishedRecving, FinishedSending
<1> QED
  BY <1>1, <1>2, <1>3, <1>4, <1>5, <1>6, <1>7, Zenon DEF Next

(* The parts of a queued step have their types.                             *)
LEMMA QueueType ==
  ASSUME StateType
  PROVE  /\ Len(batch_queue) \in Nat
         /\ \A i \in 1 .. Len(batch_queue) :
              /\ batch_queue[i].seq \in Nat
              /\ batch_queue[i].tokens \in BOOLEAN
              /\ batch_queue[i].uses \in SUBSET Blocks
<1>1. Len(batch_queue) \in Nat /\ batch_queue \in [1 .. Len(batch_queue) -> Step]
  BY LenProperties DEF StateType
<1> QED
  BY <1>1 DEF Step

(* What schedule() appends to the queue.                                    *)
LEMMA EndScheduleQueue ==
  ASSUME StateType, EndSchedule
  PROVE  /\ Len(batch_queue') = Len(batch_queue) + 1
         /\ \A i \in 1 .. Len(batch_queue) : batch_queue'[i] = batch_queue[i]
         /\ batch_queue'[Len(batch_queue) + 1].seq = sched_step_seq + 1
         /\ batch_queue'[Len(batch_queue) + 1].tokens <=> batch # {}
         /\ batch_queue'[Len(batch_queue) + 1].uses = TableBlocks(batch) \cup CopyBlocks
<1> DEFINE step == [seq |-> sched_step_seq + 1, tokens |-> batch # {}, reqs |-> batch,
                    uses |-> TableBlocks(batch) \cup CopyBlocks]
<1>1. batch_queue' = Append(batch_queue, step) /\ batch_queue \in Seq(Step)
  BY DEF EndSchedule, StateType
<1>2. batch_queue' \in Seq(Step)
  BY TypeStep DEF StateType, Next
<1>3. /\ step.seq = sched_step_seq + 1
      /\ step.tokens <=> batch # {}
      /\ step.uses = TableBlocks(batch) \cup CopyBlocks
  OBVIOUS
<1> HIDE DEF step
<1>4. /\ Len(batch_queue') = Len(batch_queue) + 1
      /\ \A i \in 1 .. Len(batch_queue) : batch_queue'[i] = batch_queue[i]
      /\ batch_queue'[Len(batch_queue) + 1] = step
  BY <1>1
<1> QED
  BY <1>3, <1>4

(* What update_from_output() leaves of the queue.                           *)
LEMMA BeginUpdateQueue ==
  ASSUME StateType, BeginUpdate
  PROVE  /\ Len(batch_queue) > 0
         /\ Head(batch_queue) = batch_queue[1]
         /\ Len(batch_queue') = Len(batch_queue) - 1
         /\ \A i \in 1 .. Len(batch_queue) - 1 : batch_queue'[i] = batch_queue[i + 1]
         /\ processed_step_seq' = IF batch_queue[1].tokens THEN processed_step_seq + 1
                                                           ELSE processed_step_seq
<1>1. batch_queue # <<>> /\ batch_queue' = Tail(batch_queue) /\ batch_queue \in Seq(Step)
  BY DEF BeginUpdate, StateType
<1>2. Head(batch_queue) = batch_queue[1] /\ Len(batch_queue) > 0
  BY <1>1
<1>3. /\ Len(batch_queue') = Len(batch_queue) - 1
      /\ \A i \in 1 .. Len(batch_queue) - 1 : batch_queue'[i] = batch_queue[i + 1]
  BY <1>1, HeadTailProperties
<1> QED
  BY <1>2, <1>3 DEF BeginUpdate

(* Steps stay in order, and requests stay behind the last one issued.       *)
LEMMA OrderStep ==
  StateType /\ StepsInOrder /\ LastSeqIssued /\ [Next]_vars => StepsInOrder' /\ LastSeqIssued'
<1> SUFFICES ASSUME StateType, StepsInOrder, LastSeqIssued, [Next]_vars
             PROVE  StepsInOrder' /\ LastSeqIssued'
  OBVIOUS
<1>1. CASE EndSchedule
  <2>1. /\ sched_step_seq' = IF batch # {} THEN sched_step_seq + 1 ELSE sched_step_seq
        /\ processed_step_seq' = processed_step_seq
        /\ \A r \in Requests : last_sched_seq'[r] = IF r \in batch THEN sched_step_seq + 1
                                                    ELSE last_sched_seq[r]
    BY <1>1 DEF EndSchedule
  <2>2. sched_step_seq \in Nat /\ processed_step_seq \in Nat
    BY DEF StateType
  <2>3. LastSeqIssued'
    <3> SUFFICES ASSUME NEW r \in Requests
                 PROVE  last_sched_seq'[r] <= sched_step_seq'
      BY DEF LastSeqIssued
    <3>1. last_sched_seq[r] \in Nat /\ last_sched_seq[r] <= sched_step_seq
      BY DEF StateType, LastSeqIssued
    <3>2. CASE r \in batch
      BY <2>1, <2>2, <3>2
    <3>3. CASE r \notin batch
      BY <2>1, <2>2, <3>1, <3>3
    <3> QED
      BY <3>2, <3>3
  <2>4. \A k \in 1 .. sched_step_seq' : processed_step_seq' < k =>
          \E i \in 1 .. Len(batch_queue') :
            batch_queue'[i].tokens /\ batch_queue'[i].seq = k
    <3> SUFFICES ASSUME NEW k \in 1 .. sched_step_seq', processed_step_seq < k
                 PROVE  \E i \in 1 .. Len(batch_queue') :
                          batch_queue'[i].tokens /\ batch_queue'[i].seq = k
      BY <2>1
    <3>1. CASE k <= sched_step_seq
      <4>1. PICK i \in 1 .. Len(batch_queue) : batch_queue[i].tokens /\ batch_queue[i].seq = k
        BY <2>2, <3>1, QueueType DEF StepsInOrder
      <4> QED
        BY <1>1, <4>1, EndScheduleQueue
    <3>2. CASE ~(k <= sched_step_seq)
      <4>1. k = sched_step_seq + 1 /\ batch # {}
        BY <2>1, <2>2, <3>2
      <4> QED
        BY <1>1, <4>1, EndScheduleQueue
    <3> QED
      BY <3>1, <3>2
  <2>5. \A i \in 1 .. Len(batch_queue') :
          /\ batch_queue'[i].seq > processed_step_seq'
          /\ batch_queue'[i].seq <= sched_step_seq' + 1
          /\ batch_queue'[i].tokens => batch_queue'[i].seq <= sched_step_seq'
    BY <1>1, <2>1, <2>2, EndScheduleQueue, QueueType DEF StepsInOrder
  <2>6. \A i, j \in 1 .. Len(batch_queue') : i < j =>
          /\ batch_queue'[i].seq <= batch_queue'[j].seq
          /\ batch_queue'[i].tokens => batch_queue'[i].seq < batch_queue'[j].seq
    <3> SUFFICES ASSUME NEW i \in 1 .. Len(batch_queue'), NEW j \in 1 .. Len(batch_queue'),
                        i < j
                 PROVE  /\ batch_queue'[i].seq <= batch_queue'[j].seq
                        /\ batch_queue'[i].tokens => batch_queue'[i].seq < batch_queue'[j].seq
      OBVIOUS
    <3>1. /\ i \in 1 .. Len(batch_queue) /\ batch_queue'[i] = batch_queue[i]
          /\ j \in 1 .. Len(batch_queue) \/ j = Len(batch_queue) + 1
      <4>1. Len(batch_queue) \in Nat /\ Len(batch_queue') = Len(batch_queue) + 1
        BY <1>1, QueueType, EndScheduleQueue
      <4>2. /\ i \in 1 .. Len(batch_queue)
            /\ j \in 1 .. Len(batch_queue) \/ j = Len(batch_queue) + 1
        BY <4>1
      <4>3. batch_queue'[i] = batch_queue[i]
        BY <1>1, <4>2, EndScheduleQueue
      <4> QED
        BY <4>2, <4>3
    <3>2. CASE j \in 1 .. Len(batch_queue)
      <4>1. batch_queue'[j] = batch_queue[j]
        BY <1>1, <3>2, EndScheduleQueue
      <4> QED
        BY <3>1, <3>2, <4>1 DEF StepsInOrder
    <3>3. CASE j = Len(batch_queue) + 1
      <4>1. batch_queue'[j].seq = sched_step_seq + 1
        BY <1>1, <3>3, EndScheduleQueue
      <4>2. /\ batch_queue[i].seq \in Nat
            /\ batch_queue[i].seq <= sched_step_seq + 1
            /\ batch_queue[i].tokens => batch_queue[i].seq <= sched_step_seq
        BY <3>1, QueueType DEF StepsInOrder
      <4> QED
        BY <2>2, <3>1, <4>1, <4>2
    <3> QED
      BY <3>1, <3>2, <3>3
  <2>7. processed_step_seq' <= sched_step_seq'
    BY <2>1, <2>2, QueueType DEF StepsInOrder
  <2> QED
    BY <2>3, <2>4, <2>5, <2>6, <2>7, Zenon DEF StepsInOrder
<1>2. CASE BeginUpdate
  <2>1. sched_step_seq' = sched_step_seq /\ last_sched_seq' = last_sched_seq
    BY <1>2 DEF BeginUpdate
  <2>2. sched_step_seq \in Nat /\ processed_step_seq \in Nat
    BY DEF StateType
  <2>3. LastSeqIssued'
    BY <2>1 DEF LastSeqIssued
  <2>4. batch_queue[1].tokens => batch_queue[1].seq = processed_step_seq + 1
    <3> SUFFICES ASSUME batch_queue[1].tokens
                 PROVE  batch_queue[1].seq = processed_step_seq + 1
      OBVIOUS
    <3>1. processed_step_seq + 1 \in 1 .. sched_step_seq
      BY <1>2, <2>2, BeginUpdateQueue, QueueType DEF StepsInOrder
    <3>2. PICK i \in 1 .. Len(batch_queue) : batch_queue[i].seq = processed_step_seq + 1
      BY <2>2, <3>1 DEF StepsInOrder
    <3>3. ~(1 < i)
      BY <1>2, <2>2, <3>2, BeginUpdateQueue, QueueType DEF StepsInOrder
    <3> QED
      BY <3>2, <3>3
  <2>5. \A i \in 1 .. Len(batch_queue') :
          /\ batch_queue'[i].seq > processed_step_seq'
          /\ batch_queue'[i].seq <= sched_step_seq' + 1
          /\ batch_queue'[i].tokens => batch_queue'[i].seq <= sched_step_seq'
    <3> SUFFICES ASSUME NEW i \in 1 .. Len(batch_queue')
                 PROVE  /\ batch_queue'[i].seq > processed_step_seq'
                        /\ batch_queue'[i].seq <= sched_step_seq' + 1
                        /\ batch_queue'[i].tokens => batch_queue'[i].seq <= sched_step_seq'
      OBVIOUS
    <3>1. /\ 1 \in 1 .. Len(batch_queue) /\ i + 1 \in 1 .. Len(batch_queue) /\ 1 < i + 1
          /\ batch_queue'[i] = batch_queue[i + 1]
      BY <1>2, BeginUpdateQueue, QueueType
    <3>2. /\ batch_queue[i + 1].seq \in Nat
          /\ batch_queue[i + 1].seq > processed_step_seq
          /\ batch_queue[i + 1].seq <= sched_step_seq + 1
          /\ batch_queue[i + 1].tokens => batch_queue[i + 1].seq <= sched_step_seq
          /\ batch_queue[1].tokens => batch_queue[1].seq < batch_queue[i + 1].seq
      BY <3>1, QueueType DEF StepsInOrder
    <3>3. batch_queue[i + 1].seq > processed_step_seq'
      <4>1. CASE batch_queue[1].tokens
        BY <1>2, <2>2, <2>4, <3>2, <4>1, BeginUpdateQueue
      <4>2. CASE ~batch_queue[1].tokens
        BY <1>2, <3>2, <4>2, BeginUpdateQueue
      <4> QED
        BY <4>1, <4>2
    <3> QED
      BY <2>1, <3>1, <3>2, <3>3
  <2>6. \A i, j \in 1 .. Len(batch_queue') : i < j =>
          /\ batch_queue'[i].seq <= batch_queue'[j].seq
          /\ batch_queue'[i].tokens => batch_queue'[i].seq < batch_queue'[j].seq
    <3> SUFFICES ASSUME NEW i \in 1 .. Len(batch_queue'), NEW j \in 1 .. Len(batch_queue'),
                        i < j
                 PROVE  /\ batch_queue'[i].seq <= batch_queue'[j].seq
                        /\ batch_queue'[i].tokens => batch_queue'[i].seq < batch_queue'[j].seq
      OBVIOUS
    <3>1. /\ i + 1 \in 1 .. Len(batch_queue) /\ j + 1 \in 1 .. Len(batch_queue)
          /\ i + 1 < j + 1
          /\ batch_queue'[i] = batch_queue[i + 1] /\ batch_queue'[j] = batch_queue[j + 1]
      BY <1>2, BeginUpdateQueue
    <3> QED
      BY <3>1, QueueType DEF StepsInOrder
  <2>7. \A k \in 1 .. sched_step_seq' : processed_step_seq' < k =>
          \E i \in 1 .. Len(batch_queue') :
            batch_queue'[i].tokens /\ batch_queue'[i].seq = k
    <3>a. processed_step_seq' \in Nat /\ processed_step_seq' >= processed_step_seq
      BY <1>2, <2>2, BeginUpdateQueue
    <3> DEFINE Queued(k) == \E i \in 1 .. Len(batch_queue') :
                              batch_queue'[i].tokens /\ batch_queue'[i].seq = k
    <3>b. ASSUME NEW k \in 1 .. sched_step_seq, processed_step_seq' < k
          PROVE  Queued(k)
      <4>1. processed_step_seq < k
        BY <2>2, <3>a, <3>b
      <4>2. PICK i \in 1 .. Len(batch_queue) : batch_queue[i].tokens /\ batch_queue[i].seq = k
        BY <4>1 DEF StepsInOrder
      <4>3. i # 1
        BY <1>2, <2>2, <2>4, <3>b, <4>2, BeginUpdateQueue
      <4>4. i - 1 \in 1 .. Len(batch_queue') /\ batch_queue'[i - 1] = batch_queue[i]
        BY <1>2, <4>3, QueueType, BeginUpdateQueue
      <4> QED
        BY <4>2, <4>4
    <3> HIDE DEF Queued
    <3>c. \A k \in 1 .. sched_step_seq' : processed_step_seq' < k => Queued(k)
      BY <2>1, <3>b
    <3> QED
      BY <3>c, Zenon DEF Queued
  <2>8. processed_step_seq' <= sched_step_seq'
    BY <1>2, <2>1, <2>2, <2>4, BeginUpdateQueue, QueueType DEF StepsInOrder
  <2> QED
    BY <2>3, <2>5, <2>6, <2>7, <2>8, QueueType DEF StepsInOrder
<1>3. CASE ~EndSchedule /\ ~BeginUpdate
  BY <1>3, QueueFrame DEF StepsInOrder, LastSeqIssued
<1> QED
  BY <1>1, <1>2, <1>3

-----------------------------------------------------------------------------
(* Blocks of steps in flight.                                               *)

(* A pinned block is not free.                                              *)
LEMMA PinnedHeld == StateType /\ RefCntExact /\ Pinned => InFlightBlocksHeld
<1> SUFFICES ASSUME StateType, RefCntExact, Pinned,
                    NEW i \in 1 .. Len(batch_queue), NEW b \in batch_queue[i].uses
             PROVE  b \notin Free
  BY DEF InFlightBlocksHeld
<1>1. PinnedByTable(b, batch_queue[i].seq) \/ PinnedByEntry(b, batch_queue[i].seq)
  BY DEF Pinned
<1> QED
  BY <1>1, HeldNotFree, Zenon DEF PinnedByTable, PinnedByEntry

(* An action that only gives requests blocks, or starts and finishes        *)
(* requests that no step in flight belongs to, keeps every pin.             *)
LEMMA GrowKeepsPins ==
  ASSUME Pinned, UNCHANGED <<batch_queue, last_sched_seq, deferred_frees>>,
         \A r \in Requests : status[r] \in {"running", "sending"} =>
           /\ status'[r] \in {"running", "sending"}
           /\ req_to_blocks[r] \subseteq req_to_blocks'[r]
  PROVE  Pinned'
<1> SUFFICES ASSUME NEW i \in 1 .. Len(batch_queue), NEW b \in batch_queue[i].uses
             PROVE  \/ PinnedByTable(b, batch_queue[i].seq)'
                    \/ PinnedByEntry(b, batch_queue[i].seq)'
  BY Zenon DEF Pinned, PinnedByTable, PinnedByEntry
<1>1. CASE PinnedByTable(b, batch_queue[i].seq)
  BY <1>1 DEF PinnedByTable
<1>2. CASE PinnedByEntry(b, batch_queue[i].seq)
  BY <1>2, Zenon DEF PinnedByEntry
<1> QED
  BY <1>1, <1>2 DEF Pinned

(* _free_request_blocks takes the blocks of a step in flight from the table *)
(* of r to an entry that is fenced behind that step.                        *)
LEMMA FreeKeepsPins ==
  ASSUME StateType, StepsInOrder, LastSeqIssued, Pinned,
         NEW r \in Requests, _free_request_blocks(r),
         UNCHANGED <<batch_queue, last_sched_seq>>,
         \A q \in Requests \ {r} : status'[q] = status[q]
  PROVE  Pinned'
<1> SUFFICES ASSUME NEW i \in 1 .. Len(batch_queue), NEW b \in batch_queue[i].uses
             PROVE  \/ PinnedByTable(b, batch_queue[i].seq)'
                    \/ PinnedByEntry(b, batch_queue[i].seq)'
  BY Zenon DEF Pinned, PinnedByTable, PinnedByEntry
<1> DEFINE seq == batch_queue[i].seq
           e == [fence |-> sched_step_seq, blocks |-> req_to_blocks[r]]
<1>0. seq \in Nat /\ seq > processed_step_seq
  BY QueueType DEF StepsInOrder
<1>1. \/ deferred_frees' = deferred_frees
      \/ deferred_frees' = Append(deferred_frees, e)
  BY DEF _free_request_blocks
<1>2. e \in Entry /\ deferred_frees \in Seq(Entry) /\ e.fence = sched_step_seq
      /\ e.blocks = req_to_blocks[r]
  BY DEF StateType, Entry
<1>3. ASSUME deferred_frees' = Append(deferred_frees, e)
      PROVE  /\ Len(deferred_frees') = Len(deferred_frees) + 1
             /\ \A j \in 1 .. Len(deferred_frees) : deferred_frees'[j] = deferred_frees[j]
             /\ deferred_frees'[Len(deferred_frees) + 1] = e
             /\ Len(deferred_frees) \in Nat
  <2> HIDE DEF e
  <2> QED
    BY <1>2, <1>3, AppendProperties, LenProperties
<1> HIDE DEF e
<1>4. CASE PinnedByEntry(b, seq)
  <2>1. PICK j \in 1 .. Len(deferred_frees) :
          b \in deferred_frees[j].blocks /\ deferred_frees[j].fence >= seq
    BY <1>4 DEF PinnedByEntry
  <2>2. j \in 1 .. Len(deferred_frees') /\ deferred_frees'[j] = deferred_frees[j]
    BY <1>1, <1>3, <2>1
  <2> QED
    BY <2>1, <2>2 DEF PinnedByEntry
<1>5. CASE PinnedByTable(b, seq)
  <2>1. PICK q \in Requests : /\ status[q] \in {"running", "sending"}
                              /\ b \in req_to_blocks[q]
                              /\ last_sched_seq[q] >= seq
    BY <1>5 DEF PinnedByTable
  <2>2. CASE q # r
    <3>1. req_to_blocks'[q] = req_to_blocks[q] /\ status'[q] = status[q]
      BY <2>2 DEF _free_request_blocks, StateType
    <3> QED
      BY <2>1, <3>1 DEF PinnedByTable
  <2>3. CASE q = r
    <3>1. last_sched_seq[r] \in Nat /\ processed_step_seq \in Nat /\ sched_step_seq \in Nat
          /\ last_sched_seq[r] <= sched_step_seq
      BY DEF StateType, LastSeqIssued
    <3>2. ~(last_sched_seq[r] <= processed_step_seq) /\ sched_step_seq >= seq
      BY <1>0, <2>1, <2>3, <3>1
    <3>3. req_to_blocks[r] # {}
      BY <2>1, <2>3
    <3>4. deferred_frees' = Append(deferred_frees, e)
      BY <3>2, <3>3 DEF _free_request_blocks, e
    <3>5. /\ Len(deferred_frees) + 1 \in 1 .. Len(deferred_frees')
          /\ deferred_frees'[Len(deferred_frees) + 1] = e
      BY <1>3, <3>4
    <3> QED
      BY <1>2, <2>1, <2>3, <3>2, <3>5 DEF PinnedByEntry
  <2> QED
    BY <2>2, <2>3
<1> QED
  BY <1>4, <1>5 DEF Pinned

(* The requests of a step being built stay running until it is issued.      *)
LEMMA BatchStep == StateType /\ BatchRunning /\ [Next]_vars => BatchRunning'
<1> SUFFICES ASSUME StateType, BatchRunning, [Next]_vars PROVE BatchRunning'
  OBVIOUS
<1>a. status \in [Requests -> Statuses]
  BY DEF StateType
<1>1. CASE UNCHANGED vars
  BY <1>1 DEF vars, BatchRunning
<1>2. CASE BeginSchedule \/ EndSchedule \/ BeginUpdate \/ EndUpdate \/ BeginReset \/ EndReset
  BY <1>2 DEF BeginSchedule, EndSchedule, BeginUpdate, EndUpdate, BeginReset, EndReset,
              BatchRunning
<1>3. ASSUME NEW r \in Requests, NEW new, ScheduleRunning(r, new)
      PROVE  BatchRunning'
  BY <1>3 DEF ScheduleRunning, BatchRunning
<1>4. ASSUME NEW r \in Requests, NEW src, NEW dst, ScheduleRunningCow(r, src, dst)
      PROVE  BatchRunning'
  BY <1>4 DEF ScheduleRunningCow, BatchRunning
<1>5. ASSUME NEW r \in Requests, NEW src, NEW dst, ScheduleWaitingCow(r, src, dst)
      PROVE  BatchRunning'
  BY <1>5, <1>a DEF ScheduleWaitingCow, BatchRunning
<1>6. ASSUME NEW r \in Requests, NEW hit, NEW new, NEW load, ScheduleWaiting(r, hit, new, load)
      PROVE  BatchRunning'
  BY <1>6, <1>a DEF ScheduleWaiting, BatchRunning
<1>7. ASSUME NEW r \in Requests, NEW valid, PromoteReceived(r, valid)
      PROVE  BatchRunning'
  BY <1>7, <1>a DEF PromoteReceived, BatchRunning
<1>8. ASSUME NEW r \in Requests, Preempt(r)
      PROVE  BatchRunning'
  BY <1>8, <1>a DEF Preempt, BatchRunning
<1>9. ASSUME NEW r \in Requests,
             \/ FinishedRecving(r) \/ FinishedSending(r)
             \/ \E keep \in BOOLEAN : Finish(r, keep) \/ Abort(r, keep)
      PROVE  BatchRunning'
  BY <1>9 DEF Finish, Abort, FinishedRecving, FinishedSending, BatchRunning
<1> QED
  BY <1>1, <1>2, <1>3, <1>4, <1>5, <1>6, <1>7, <1>8, <1>9 DEF Next

(* What _drain_deferred_frees leaves: every entry with a later fence.       *)
LEMMA DrainKeeps ==
  ASSUME StateType, NEW p \in Nat, _drain_deferred_frees(p),
         NEW j \in 1 .. Len(deferred_frees), deferred_frees[j].fence > p
  PROVE  \E k \in 1 .. Len(deferred_frees') : deferred_frees'[k] = deferred_frees[j]
<1> DEFINE n == Drainable(deferred_frees, p)
<1>1. deferred_frees \in Seq(Entry) /\ Len(deferred_frees) \in Nat
  BY LenProperties DEF StateType
<1>2. /\ n \in 0 .. Len(deferred_frees)
      /\ \A i \in 1 .. n : deferred_frees[i].fence <= p
  BY <1>1, DrainableProperties
<1>3. deferred_frees' = SubSeq(deferred_frees, n + 1, Len(deferred_frees))
  BY DEF _drain_deferred_frees
<1>4. deferred_frees[j].fence \in Nat
  <2>1. deferred_frees \in [1 .. Len(deferred_frees) -> Entry]
    BY <1>1, LenProperties
  <2> QED
    BY <2>1 DEF Entry
<1> HIDE DEF n
<1>5. j > n
  BY <1>1, <1>2, <1>4
<1>6. /\ Len(deferred_frees') = Len(deferred_frees) - n
      /\ \A k \in 1 .. Len(deferred_frees) - n : deferred_frees'[k] = deferred_frees[n + k]
  BY <1>1, <1>2, <1>3, SubSeqProperties
<1>7. j - n \in 1 .. Len(deferred_frees') /\ deferred_frees'[j - n] = deferred_frees[j]
  BY <1>1, <1>2, <1>5, <1>6
<1> QED
  BY <1>7

(* Every block of a queued step stays pinned.                               *)
LEMMA PinnedStep ==
  ASSUME StateType, StepsInOrder, LastSeqIssued, BatchRunning, Pinned, [Next]_vars
  PROVE  Pinned'
<1>a. /\ status \in [Requests -> Statuses]
      /\ req_to_blocks \in [Requests -> SUBSET Blocks]
  BY DEF StateType
<1>1. CASE UNCHANGED vars
  BY <1>1, GrowKeepsPins DEF vars
<1>2. CASE BeginSchedule \/ EndUpdate \/ BeginReset \/ EndReset
  BY <1>2, GrowKeepsPins DEF BeginSchedule, EndUpdate, BeginReset, EndReset
<1>3. ASSUME NEW r \in Requests, NEW new, ScheduleRunning(r, new)
      PROVE  Pinned'
  BY <1>3, <1>a, GrowKeepsPins DEF ScheduleRunning
<1>4. ASSUME NEW r \in Requests, NEW src, NEW dst,
             ScheduleRunningCow(r, src, dst) \/ ScheduleWaitingCow(r, src, dst)
      PROVE  Pinned'
  BY <1>4, <1>a, GrowKeepsPins DEF ScheduleRunningCow, ScheduleWaitingCow
<1>5. ASSUME NEW r \in Requests, NEW hit, NEW new, NEW load, ScheduleWaiting(r, hit, new, load)
      PROVE  Pinned'
  BY <1>5, <1>a, GrowKeepsPins DEF ScheduleWaiting
<1>6. ASSUME NEW r \in Requests, NEW valid, PromoteReceived(r, valid)
      PROVE  Pinned'
  BY <1>6, <1>a, GrowKeepsPins DEF PromoteReceived
<1>7. ASSUME NEW r \in Requests, Preempt(r)
      PROVE  Pinned'
  BY <1>7, <1>a, FreeKeepsPins DEF Preempt
<1>8. ASSUME NEW r \in Requests, NEW keep \in BOOLEAN, Finish(r, keep) \/ Abort(r, keep)
      PROVE  Pinned'
  <2>1. /\ UNCHANGED <<batch_queue, last_sched_seq>>
        /\ \A q \in Requests \ {r} : status'[q] = status[q]
    BY <1>8, <1>a DEF Finish, Abort, _free_request
  <2>2. \/ _free_request_blocks(r)
        \/ /\ UNCHANGED <<req_to_blocks, deferred_frees>>
           /\ status'[r] = "sending" \/ status[r] = "loading"
    BY <1>8, <1>a DEF Finish, Abort, _free_request
  <2> QED
    BY <2>1, <2>2, FreeKeepsPins, GrowKeepsPins
<1>9. ASSUME NEW r \in Requests, FinishedRecving(r) \/ FinishedSending(r)
      PROVE  Pinned'
  <2>1. /\ UNCHANGED <<batch_queue, last_sched_seq>>
        /\ \A q \in Requests \ {r} : status'[q] = status[q]
    BY <1>9, <1>a DEF FinishedRecving, FinishedSending, _free_request
  <2>2. \/ _free_request_blocks(r)
        \/ UNCHANGED <<req_to_blocks, deferred_frees>> /\ status[r] = "loading"
    BY <1>9, <1>a DEF FinishedRecving, FinishedSending, _free_request
  <2> QED
    BY <2>1, <2>2, FreeKeepsPins, GrowKeepsPins
<1>10. CASE EndSchedule
  <2>0. /\ sched_step_seq \in Nat /\ processed_step_seq \in Nat
        /\ processed_step_seq <= sched_step_seq
        /\ deferred_frees \in Seq(Entry)
        /\ last_sched_seq \in [Requests -> Nat]
    BY DEF StateType, StepsInOrder
  <2>1. /\ UNCHANGED <<status, req_to_blocks>>
        /\ \A r \in Requests : last_sched_seq'[r] = IF r \in batch THEN sched_step_seq + 1
                                                    ELSE last_sched_seq[r]
    BY <1>10 DEF EndSchedule
  <2>2. deferred_frees' = deferred_frees \o CowEntries(sched_step_seq + 1)
    BY <1>10, <2>0 DEF EndSchedule, _free_cow_retained_blocks, cow_fence
  <2>3. /\ CowEntries(sched_step_seq + 1) \in Seq(Entry)
        /\ Len(CowEntries(sched_step_seq + 1)) = Len(pending_cow_copies)
        /\ Len(pending_cow_copies) \in Nat
    BY <2>0, CowEntriesType
  <2>4. /\ Len(deferred_frees) \in Nat
        /\ Len(deferred_frees') = Len(deferred_frees) + Len(pending_cow_copies)
        /\ \A j \in 1 .. Len(deferred_frees) : deferred_frees'[j] = deferred_frees[j]
        /\ \A j \in 1 .. Len(pending_cow_copies) :
             deferred_frees'[Len(deferred_frees) + j] = CowEntries(sched_step_seq + 1)[j]
    <3> DEFINE cow == CowEntries(sched_step_seq + 1)
    <3>1. /\ deferred_frees' = deferred_frees \o cow
          /\ cow \in Seq(Entry) /\ Len(cow) = Len(pending_cow_copies)
      BY <2>2, <2>3
    <3> HIDE DEF cow
    <3>2. /\ Len(deferred_frees) \in Nat /\ Len(cow) \in Nat
          /\ Len(deferred_frees') = Len(deferred_frees) + Len(cow)
          /\ \A j \in 1 .. Len(deferred_frees) + Len(cow) :
               deferred_frees'[j] = IF j <= Len(deferred_frees) THEN deferred_frees[j]
                                    ELSE cow[j - Len(deferred_frees)]
      BY <2>0, <3>1, ConcatProperties, LenProperties
    <3>3. \A j \in 1 .. Len(deferred_frees) : deferred_frees'[j] = deferred_frees[j]
      BY <3>2
    <3>4. \A j \in 1 .. Len(cow) : deferred_frees'[Len(deferred_frees) + j] = cow[j]
      BY <3>2
    <3> QED
      BY <3>1, <3>2, <3>3, <3>4 DEF cow
  <2>5. ASSUME NEW i \in 1 .. Len(batch_queue), NEW b \in batch_queue[i].uses,
               NEW seq, seq = batch_queue[i].seq
        PROVE  PinnedByTable(b, seq)' \/ PinnedByEntry(b, seq)'
    <3>1. CASE PinnedByTable(b, seq)
      <4>1. PICK q \in Requests : /\ status[q] \in {"running", "sending"}
                                  /\ b \in req_to_blocks[q]
                                  /\ last_sched_seq[q] >= seq
        BY <3>1 DEF PinnedByTable
      <4>2. seq \in Nat /\ seq <= sched_step_seq + 1
        BY <2>5, QueueType DEF StepsInOrder
      <4>3. last_sched_seq'[q] >= seq
        BY <2>0, <2>1, <4>1, <4>2
      <4> QED
        BY <2>1, <4>1, <4>3 DEF PinnedByTable
    <3>2. CASE PinnedByEntry(b, seq)
      <4>1. PICK j \in 1 .. Len(deferred_frees) :
              b \in deferred_frees[j].blocks /\ deferred_frees[j].fence >= seq
        BY <3>2 DEF PinnedByEntry
      <4>2. j \in 1 .. Len(deferred_frees') /\ deferred_frees'[j] = deferred_frees[j]
        BY <2>3, <2>4, <4>1
      <4> QED
        BY <4>1, <4>2 DEF PinnedByEntry
    <3> QED
      BY <2>5, <3>1, <3>2 DEF Pinned
  <2>6. ASSUME NEW b \in TableBlocks(batch) \cup CopyBlocks,
               NEW seq, seq = sched_step_seq + 1
        PROVE  PinnedByTable(b, seq)' \/ PinnedByEntry(b, seq)'
    <3>1. CASE b \in TableBlocks(batch)
      <4>1. PICK r \in batch : b \in req_to_blocks[r]
        BY <3>1 DEF TableBlocks
      <4>2. r \in Requests /\ status[r] = "running"
        BY <1>10, <4>1 DEF StateType, BatchRunning, EndSchedule
      <4> QED
        BY <2>0, <2>1, <2>6, <4>1, <4>2 DEF PinnedByTable
    <3>2. CASE b \in CopyBlocks
      <4>1. PICK j \in 1 .. Len(pending_cow_copies) : b \in pending_cow_copies[j].blocks
        BY <3>2 DEF CopyBlocks
      <4>2. /\ b \in CowEntries(sched_step_seq + 1)[j].blocks
            /\ CowEntries(sched_step_seq + 1)[j].fence = sched_step_seq + 1
        BY <4>1 DEF CowEntries
      <4>3. /\ Len(deferred_frees) + j \in 1 .. Len(deferred_frees')
            /\ deferred_frees'[Len(deferred_frees) + j] = CowEntries(sched_step_seq + 1)[j]
        BY <2>3, <2>4, <4>1
      <4> QED
        BY <2>0, <2>6, <4>2, <4>3 DEF PinnedByEntry
    <3> QED
      BY <3>1, <3>2
  <2> SUFFICES ASSUME NEW i \in 1 .. Len(batch_queue'), NEW b \in batch_queue'[i].uses,
                      NEW seq, seq = batch_queue'[i].seq
               PROVE  PinnedByTable(b, seq)' \/ PinnedByEntry(b, seq)'
    BY Zenon DEF Pinned, PinnedByTable, PinnedByEntry
  <2>7. CASE i \in 1 .. Len(batch_queue)
    BY <1>10, <2>5, <2>7, EndScheduleQueue
  <2>8. CASE i = Len(batch_queue) + 1
    BY <1>10, <2>6, <2>8, EndScheduleQueue
  <2> QED
    BY <1>10, <2>7, <2>8, EndScheduleQueue, QueueType
<1>11. CASE BeginUpdate
  <2>0. processed_step_seq \in Nat /\ UNCHANGED <<status, req_to_blocks, last_sched_seq>>
    BY <1>11 DEF StateType, BeginUpdate
  <2>2. ASSUME NEW i \in 1 .. Len(batch_queue) - 1, NEW b \in batch_queue[i + 1].uses,
               NEW seq, seq = batch_queue[i + 1].seq
        PROVE  PinnedByTable(b, seq)' \/ PinnedByEntry(b, seq)'
    <3>0. /\ i + 1 \in 1 .. Len(batch_queue) /\ 1 \in 1 .. Len(batch_queue)
          /\ batch_queue'[i] = batch_queue[i + 1] /\ 1 < i + 1
      BY <1>11, BeginUpdateQueue, QueueType
    <3>1. CASE PinnedByTable(b, seq)
      BY <2>0, <3>1 DEF PinnedByTable
    <3>2. CASE PinnedByEntry(b, seq)
      <4>1. PICK j \in 1 .. Len(deferred_frees) :
              /\ b \in deferred_frees[j].blocks
              /\ deferred_frees[j].fence >= seq
        BY <3>2 DEF PinnedByEntry
      <4>2. \E k \in 1 .. Len(deferred_frees') : deferred_frees'[k] = deferred_frees[j]
        <5>1. CASE ~batch_queue[1].tokens
          <6>1. deferred_frees' = deferred_frees
            BY <1>11, <5>1, BeginUpdateQueue DEF BeginUpdate
          <6> QED
            BY <4>1, <6>1
        <5>2. CASE batch_queue[1].tokens
          <6>1. _drain_deferred_frees(processed_step_seq + 1)
            BY <1>11, <5>2, BeginUpdateQueue DEF BeginUpdate
          <6>2. /\ batch_queue[1].seq > processed_step_seq
                /\ batch_queue[1].seq < batch_queue[i + 1].seq
                /\ batch_queue[1].seq \in Nat /\ batch_queue[i + 1].seq \in Nat
            BY <3>0, <5>2, QueueType DEF StepsInOrder
          <6>3. deferred_frees[j].fence \in Nat
            <7>1. deferred_frees \in [1 .. Len(deferred_frees) -> Entry]
              BY LenProperties DEF StateType
            <7> QED
              BY <4>1, <7>1 DEF Entry
          <6>4. processed_step_seq + 1 \in Nat /\ deferred_frees[j].fence > processed_step_seq + 1
            BY <2>0, <2>2, <4>1, <6>2, <6>3
          <6> QED
            BY <4>1, <6>1, <6>4, DrainKeeps
        <5> QED
          BY <5>1, <5>2
      <4> QED
        BY <4>1, <4>2 DEF PinnedByEntry
    <3> QED
      BY <2>2, <3>0, <3>1, <3>2 DEF Pinned
  <2> SUFFICES ASSUME NEW i \in 1 .. Len(batch_queue'), NEW b \in batch_queue'[i].uses,
                      NEW seq, seq = batch_queue'[i].seq
               PROVE  PinnedByTable(b, seq)' \/ PinnedByEntry(b, seq)'
    BY Zenon DEF Pinned, PinnedByTable, PinnedByEntry
  <2>3. i \in 1 .. Len(batch_queue) - 1 /\ batch_queue'[i] = batch_queue[i + 1]
    BY <1>11, BeginUpdateQueue
  <2> QED
    BY <2>2, <2>3
<1> QED
  BY <1>1, <1>2, <1>3, <1>4, <1>5, <1>6, <1>7, <1>8, <1>9, <1>10, <1>11 DEF Next

(* The inductive invariant behind the fences.                               *)
FenceInv ==
  /\ StateType /\ RefCntExact /\ StepsInOrder /\ LastSeqIssued
  /\ BatchRunning /\ Pinned

(* No step is queued before the first one is issued.                        *)
LEMMA FenceInit == Init => FenceInv
<1> SUFFICES ASSUME Init PROVE FenceInv
  OBVIOUS
<1>1. StateType /\ RefCntExact
  BY CountsInit
<1>2. Len(batch_queue) = 0
  BY DEF Init
<1>3. StepsInOrder /\ LastSeqIssued /\ Pinned /\ BatchRunning
  BY <1>2 DEF Init, StepsInOrder, LastSeqIssued, Pinned, BatchRunning
<1> QED
  BY <1>1, <1>3 DEF FenceInv

(* Every action keeps the fence invariant.                                  *)
LEMMA FenceStep == FenceInv /\ [Next]_vars => FenceInv'
  BY TypeStep, RefCntStep, OrderStep, BatchStep, PinnedStep DEF FenceInv

(* What defer_block_free is for: a block that a step in flight reads,       *)
(* writes or copies never returns to the pool before update_from_output()   *)
(* for that step, whatever preemption, abort or reset does to its request.  *)
THEOREM InFlightSafe == Spec => []InFlightBlocksHeld
<1>1. FenceInv => InFlightBlocksHeld
  BY PinnedHeld DEF FenceInv
<1> QED
  BY <1>1, FenceInit, FenceStep, PTL DEF Spec

-----------------------------------------------------------------------------
(* Connector loads.                                                         *)

(* The blocks being filled are in one table, the loading request's, and in  *)
(* no copy and no step in flight.                                           *)
LoadsInv == LoadsPrivate /\ LoadsUndisturbed

(* Giving r blocks that nobody fills, or queueing copies between such       *)
(* blocks, disturbs no load.                                                *)
LEMMA GrowKeepsLoads ==
  ASSUME StateType, LoadsInv, UNCHANGED <<loading, batch_queue>>,
         NEW r \in Requests, NEW new, new \cap FillTargets = {},
         loading[r] = {},
         \A q \in Requests \ {r} : /\ req_to_blocks'[q] = req_to_blocks[q]
                                   /\ status'[q] = status[q],
         req_to_blocks'[r] \subseteq req_to_blocks[r] \cup new,
         \A i \in 1 .. Len(pending_cow_copies') :
           \/ /\ i \in 1 .. Len(pending_cow_copies)
              /\ pending_cow_copies'[i] = pending_cow_copies[i]
           \/ pending_cow_copies'[i].blocks \cap FillTargets = {}
  PROVE  LoadsInv'
<1>1. \A q \in Requests : \A b \in loading[q] : b \in FillTargets /\ q # r
  BY DEF FillTargets
<1>2. LoadsPrivate'
  BY <1>1 DEF LoadsInv, LoadsPrivate
<1>3. LoadsUndisturbed'
  <2> SUFFICES ASSUME NEW q \in Requests, NEW b \in loading[q]
               PROVE  /\ \A i \in 1 .. Len(batch_queue) : b \notin batch_queue[i].uses
                      /\ \A p \in Requests \ {q} : b \notin req_to_blocks'[p]
    BY Zenon DEF LoadsUndisturbed
  <2>1. \A i \in 1 .. Len(batch_queue) : b \notin batch_queue[i].uses
    BY DEF LoadsInv, LoadsUndisturbed
  <2>2. \A p \in Requests \ {q} : b \notin req_to_blocks'[p]
    BY <1>1 DEF LoadsInv, LoadsUndisturbed
  <2> QED
    BY <2>1, <2>2
<1> QED
  BY <1>2, <1>3 DEF LoadsInv

(* A free block is being filled by nobody.                                  *)
LEMMA FreeUnfilled ==
  ASSUME StateType, RefCntExact, LoadsInv
  PROVE  Free \cap FillTargets = {}
<1> SUFFICES ASSUME NEW b \in Free, NEW q \in Requests, b \in loading[q] PROVE FALSE
  BY DEF FillTargets
<1>1. b \in req_to_blocks[q]
  BY DEF LoadsInv, LoadsPrivate
<1> QED
  BY <1>1, FreeUnheld

(* A request that is neither loading nor draining fills no block, and its   *)
(* own blocks are filled by nobody.                                         *)
LEMMA TableUnfilled ==
  ASSUME LoadsInv, NEW r \in Requests, status[r] \notin {"loading", "draining"}
  PROVE  loading[r] = {} /\ req_to_blocks[r] \cap FillTargets = {}
<1>1. loading[r] = {}
  BY DEF LoadsInv, LoadsPrivate
<1>2. ASSUME NEW b \in req_to_blocks[r], NEW q \in Requests, b \in loading[q] PROVE FALSE
  BY <1>1, <1>2 DEF LoadsInv, LoadsUndisturbed
<1> QED
  BY <1>1, <1>2 DEF FillTargets

(* Every action leaves the loads alone, or starts one on blocks that no     *)
(* step, copy or table holds.                                               *)
LEMMA LoadsStep == FenceInv /\ LoadsInv /\ [Next]_vars => LoadsInv'
<1> SUFFICES ASSUME FenceInv, LoadsInv, [Next]_vars PROVE LoadsInv'
  OBVIOUS
<1>a. /\ StateType /\ RefCntExact /\ InFlightBlocksHeld /\ BatchRunning
      /\ status \in [Requests -> Statuses]
      /\ loading \in [Requests -> SUBSET Blocks]
      /\ req_to_blocks \in [Requests -> SUBSET Blocks]
      /\ pending_cow_copies \in Seq(Retained)
      /\ Len(pending_cow_copies) \in Nat
  BY PinnedHeld, LenProperties DEF FenceInv, StateType
<1>b. Free \cap FillTargets = {}
  BY <1>a, FreeUnfilled
<1>1. CASE \/ UNCHANGED vars
           \/ BeginSchedule \/ EndUpdate \/ BeginReset \/ EndReset
  <2>1. UNCHANGED <<status, req_to_blocks, loading, pending_cow_copies, batch_queue>>
    BY <1>1 DEF vars, BeginSchedule, EndUpdate, BeginReset, EndReset
  <2> QED
    BY <2>1 DEF LoadsInv, LoadsPrivate, LoadsUndisturbed
<1>2. ASSUME NEW r \in Requests, NEW new, ScheduleRunning(r, new)
      PROVE  LoadsInv'
  <2>1. status[r] = "running" /\ new \cap FillTargets = {}
    BY <1>2, <1>b DEF ScheduleRunning
  <2>2. loading[r] = {}
    BY <2>1, TableUnfilled
  <2>3. /\ UNCHANGED <<loading, batch_queue, pending_cow_copies, status>>
        /\ \A q \in Requests \ {r} : req_to_blocks'[q] = req_to_blocks[q]
        /\ req_to_blocks'[r] \subseteq req_to_blocks[r] \cup new
    BY <1>2, <1>a DEF ScheduleRunning
  <2> QED
    BY <1>a, <2>1, <2>2, <2>3, GrowKeepsLoads
<1>3. ASSUME NEW r \in Requests, NEW src, NEW dst,
             ScheduleRunningCow(r, src, dst) \/ ScheduleWaitingCow(r, src, dst)
      PROVE  LoadsInv'
  <2>1. status[r] \in {"running", "waiting"}
    BY <1>3 DEF ScheduleRunningCow, ScheduleWaitingCow
  <2>2. loading[r] = {} /\ req_to_blocks[r] \cap FillTargets = {}
    BY <2>1, TableUnfilled
  <2>3. {src, dst} \cap FillTargets = {} /\ {src, dst} \in SUBSET Blocks
    BY <1>3, <1>a, <1>b, <2>2 DEF ScheduleRunningCow, ScheduleWaitingCow, Free
  <2>4. /\ UNCHANGED <<loading, batch_queue>>
        /\ \A q \in Requests \ {r} : /\ req_to_blocks'[q] = req_to_blocks[q]
                                      /\ status'[q] = status[q]
        /\ req_to_blocks'[r] \subseteq req_to_blocks[r] \cup {src, dst}
    BY <1>3, <1>a DEF ScheduleRunningCow, ScheduleWaitingCow
  <2>5. \A i \in 1 .. Len(pending_cow_copies') :
          \/ /\ i \in 1 .. Len(pending_cow_copies)
             /\ pending_cow_copies'[i] = pending_cow_copies[i]
          \/ pending_cow_copies'[i].blocks \cap FillTargets = {}
    <3> DEFINE e == [blocks |-> {src, dst}]
    <3>1. /\ pending_cow_copies' = Append(pending_cow_copies, e)
          /\ e \in Retained /\ e.blocks = {src, dst}
      BY <1>3, <2>3 DEF ScheduleRunningCow, ScheduleWaitingCow, Retained
    <3> HIDE DEF e
    <3>2. /\ Len(pending_cow_copies') = Len(pending_cow_copies) + 1
          /\ \A i \in 1 .. Len(pending_cow_copies) :
               pending_cow_copies'[i] = pending_cow_copies[i]
          /\ pending_cow_copies'[Len(pending_cow_copies) + 1] = e
      BY <1>a, <3>1, AppendProperties
    <3> QED
      BY <1>a, <2>3, <3>1, <3>2
  <2> QED
    BY <1>a, <2>2, <2>3, <2>4, <2>5, GrowKeepsLoads
<1>4. ASSUME NEW r \in Requests, NEW hit, NEW new, NEW load, ScheduleWaiting(r, hit, new, load)
      PROVE  LoadsInv'
  <2>0. /\ status[r] = "waiting" /\ new \subseteq Free /\ hit \cap FillTargets = {}
        /\ UNCHANGED <<batch_queue, pending_cow_copies>>
        /\ \A q \in Requests \ {r} : /\ req_to_blocks'[q] = req_to_blocks[q]
                                      /\ status'[q] = status[q]
                                      /\ loading'[q] = loading[q]
        /\ req_to_blocks'[r] = req_to_blocks[r] \cup hit \cup new
        /\ loading'[r] = IF load THEN new ELSE {}
        /\ status'[r] = IF load THEN "loading" ELSE "running"
    BY <1>4, <1>a DEF ScheduleWaiting
  <2>1. loading[r] = {} /\ req_to_blocks[r] \cap FillTargets = {}
    BY <2>0, TableUnfilled
  <2>2. \A q \in Requests \ {r} : loading[q] \subseteq FillTargets
    BY DEF FillTargets
  <2>3. /\ \A q \in Requests : req_to_blocks[q] \cap new = {}
        /\ \A i \in 1 .. Len(pending_cow_copies) : pending_cow_copies[i].blocks \cap new = {}
    BY <1>a, <2>0, FreeUnheld
  <2>4. \A i \in 1 .. Len(batch_queue) : batch_queue[i].uses \cap new = {}
    BY <1>a, <2>0 DEF InFlightBlocksHeld
  <2>5. loading'[r] \subseteq new
    BY <2>0
  <2>6. LoadsPrivate'
    <3> SUFFICES ASSUME NEW q \in Requests
                 PROVE  /\ loading'[q] # {} => status'[q] \in {"loading", "draining"}
                        /\ loading'[q] \subseteq req_to_blocks'[q]
                        /\ \A b \in loading'[q] : \A i \in 1 .. Len(pending_cow_copies) :
                             b \notin pending_cow_copies[i].blocks
      BY <2>0 DEF LoadsPrivate
    <3>1. CASE q = r
      BY <2>0, <2>3, <2>5, <3>1
    <3>2. CASE q # r
      BY <2>0, <3>2 DEF LoadsInv, LoadsPrivate
    <3> QED
      BY <3>1, <3>2
  <2>7. LoadsUndisturbed'
    <3> SUFFICES ASSUME NEW q \in Requests, NEW b \in loading'[q]
                 PROVE  /\ \A i \in 1 .. Len(batch_queue) : b \notin batch_queue[i].uses
                        /\ \A p \in Requests \ {q} : b \notin req_to_blocks'[p]
      BY <2>0 DEF LoadsUndisturbed
    <3>1. CASE q = r
      BY <2>0, <2>3, <2>4, <2>5, <3>1
    <3>2. CASE q # r
      <4>1. /\ b \in loading[q] /\ b \in FillTargets
            /\ \A i \in 1 .. Len(batch_queue) : b \notin batch_queue[i].uses
            /\ \A p \in Requests \ {q} : b \notin req_to_blocks[p]
        BY <2>0, <2>2, <3>2 DEF LoadsInv, LoadsUndisturbed
      <4>2. b \notin hit \cup new
        BY <1>b, <2>0, <4>1
      <4> QED
        BY <2>0, <4>1, <4>2
    <3> QED
      BY <3>1, <3>2
  <2> QED
    BY <2>6, <2>7 DEF LoadsInv
<1>5. ASSUME NEW r \in Requests, status[r] \notin {"loading", "draining"},
             UNCHANGED <<loading, batch_queue, pending_cow_copies>>,
             \A q \in Requests \ {r} : /\ req_to_blocks'[q] = req_to_blocks[q]
                                       /\ status'[q] = status[q],
             req_to_blocks'[r] \subseteq req_to_blocks[r]
      PROVE  LoadsInv'
  <2>1. loading[r] = {}
    BY <1>5, TableUnfilled
  <2> QED
    BY <1>5, <1>a, <2>1, GrowKeepsLoads
<1>6. ASSUME NEW r \in Requests, NEW valid, PromoteReceived(r, valid)
      PROVE  LoadsInv'
  BY <1>5, <1>6, <1>a DEF PromoteReceived
<1>7. ASSUME NEW r \in Requests, Preempt(r) \/ FinishedSending(r)
      PROVE  LoadsInv'
  <2>1. /\ status[r] \notin {"loading", "draining"}
        /\ UNCHANGED <<loading, batch_queue, pending_cow_copies>>
        /\ \A q \in Requests \ {r} : /\ req_to_blocks'[q] = req_to_blocks[q]
                                      /\ status'[q] = status[q]
        /\ req_to_blocks'[r] \subseteq req_to_blocks[r]
    BY <1>7, <1>a DEF Preempt, FinishedSending, _free_request, _free_request_blocks
  <2> QED
    BY <1>5, <2>1
<1>8. ASSUME NEW r \in Requests, NEW keep \in BOOLEAN, Finish(r, keep) \/ Abort(r, keep)
      PROVE  LoadsInv'
  <2>1. /\ UNCHANGED <<loading, batch_queue, pending_cow_copies>>
        /\ \A q \in Requests \ {r} : /\ req_to_blocks'[q] = req_to_blocks[q]
                                      /\ status'[q] = status[q]
        /\ req_to_blocks'[r] \subseteq req_to_blocks[r]
        /\ status[r] \in {"waiting", "running", "received", "loading"}
    BY <1>8, <1>a DEF Finish, Abort, _free_request, _free_request_blocks
  <2>2. CASE status[r] = "loading"
    <3>1. UNCHANGED req_to_blocks /\ status'[r] = "draining"
      BY <1>8, <1>a, <2>2 DEF Finish, Abort, _free_request
    <3> QED
      BY <2>1, <3>1 DEF LoadsInv, LoadsPrivate, LoadsUndisturbed
  <2> QED
    BY <1>5, <2>1, <2>2
<1>9. ASSUME NEW r \in Requests, FinishedRecving(r)
      PROVE  LoadsInv'
  <2>1. /\ UNCHANGED <<batch_queue, pending_cow_copies>>
        /\ loading'[r] = {}
        /\ \A q \in Requests \ {r} : /\ loading'[q] = loading[q]
                                      /\ req_to_blocks'[q] = req_to_blocks[q]
                                      /\ status'[q] = status[q]
        /\ req_to_blocks'[r] \subseteq req_to_blocks[r]
    BY <1>9, <1>a DEF FinishedRecving, _free_request, _free_request_blocks
  <2>2. LoadsPrivate'
    BY <2>1 DEF LoadsInv, LoadsPrivate
  <2>3. LoadsUndisturbed'
    <3> SUFFICES ASSUME NEW q \in Requests, NEW b \in loading'[q]
                 PROVE  /\ \A i \in 1 .. Len(batch_queue) : b \notin batch_queue[i].uses
                        /\ \A p \in Requests \ {q} : b \notin req_to_blocks'[p]
      BY <2>1 DEF LoadsUndisturbed
    <3>1. /\ \A i \in 1 .. Len(batch_queue) : b \notin batch_queue[i].uses
          /\ \A p \in Requests \ {q} : b \notin req_to_blocks[p]
      BY <2>1 DEF LoadsInv, LoadsUndisturbed
    <3> QED
      BY <2>1, <3>1
  <2> QED
    BY <2>2, <2>3 DEF LoadsInv
<1>10. CASE EndSchedule
  <2>1. /\ UNCHANGED <<status, req_to_blocks, loading>>
        /\ Len(pending_cow_copies') = 0
    BY <1>10 DEF EndSchedule
  <2>2. LoadsPrivate'
    BY <2>1 DEF LoadsInv, LoadsPrivate
  <2>3. ASSUME NEW q \in Requests, NEW b \in loading[q]
        PROVE  b \notin TableBlocks(batch) \cup CopyBlocks
    <3>1. ASSUME NEW r \in batch, b \in req_to_blocks[r] PROVE FALSE
      <4>1. r \in Requests /\ status[r] = "running"
        BY <1>10, <1>a, <3>1 DEF StateType, BatchRunning, EndSchedule
      <4>2. req_to_blocks[r] \cap FillTargets = {}
        BY <4>1, TableUnfilled
      <4> QED
        BY <3>1, <4>2 DEF FillTargets
    <3>2. b \notin CopyBlocks
      BY DEF LoadsInv, LoadsPrivate, CopyBlocks
    <3> QED
      BY <3>1, <3>2 DEF TableBlocks
  <2>4. LoadsUndisturbed'
    <3> SUFFICES ASSUME NEW q \in Requests, NEW b \in loading[q]
                 PROVE  /\ \A i \in 1 .. Len(batch_queue') : b \notin batch_queue'[i].uses
                        /\ \A p \in Requests \ {q} : b \notin req_to_blocks[p]
      BY <2>1 DEF LoadsUndisturbed
    <3>1. /\ \A i \in 1 .. Len(batch_queue) : b \notin batch_queue[i].uses
          /\ \A p \in Requests \ {q} : b \notin req_to_blocks[p]
      BY DEF LoadsInv, LoadsUndisturbed
    <3>2. ASSUME NEW i \in 1 .. Len(batch_queue') PROVE b \notin batch_queue'[i].uses
      <4>1. CASE i \in 1 .. Len(batch_queue)
        BY <1>10, <1>a, <3>1, <4>1, EndScheduleQueue
      <4>2. CASE i = Len(batch_queue) + 1
        BY <1>10, <1>a, <2>3, <4>2, EndScheduleQueue
      <4> QED
        BY <1>10, <1>a, <4>1, <4>2, EndScheduleQueue, QueueType
    <3> QED
      BY <3>1, <3>2
  <2> QED
    BY <2>2, <2>4 DEF LoadsInv
<1>11. CASE BeginUpdate
  <2>1. UNCHANGED <<status, req_to_blocks, loading, pending_cow_copies>>
    BY <1>11 DEF BeginUpdate
  <2>2. LoadsPrivate'
    BY <2>1 DEF LoadsInv, LoadsPrivate
  <2>3. \A i \in 1 .. Len(batch_queue') :
          \E j \in 1 .. Len(batch_queue) : batch_queue'[i] = batch_queue[j]
    <3> SUFFICES ASSUME NEW i \in 1 .. Len(batch_queue')
                 PROVE  \E j \in 1 .. Len(batch_queue) : batch_queue'[i] = batch_queue[j]
      OBVIOUS
    <3>1. i + 1 \in 1 .. Len(batch_queue) /\ batch_queue'[i] = batch_queue[i + 1]
      BY <1>11, <1>a, BeginUpdateQueue, QueueType
    <3> QED
      BY <3>1
  <2>4. LoadsUndisturbed'
    BY <2>1, <2>3 DEF LoadsInv, LoadsUndisturbed
  <2> QED
    BY <2>2, <2>4 DEF LoadsInv
<1> QED
  BY <1>1, <1>2, <1>3, <1>4, <1>6, <1>7, <1>8, <1>9, <1>10, <1>11 DEF Next

(* The reason for defer_block_free: no connector load ever fills a block    *)
(* that a step in flight may still touch or that another request holds.     *)
THEOREM LoadsSafe == Spec => []LoadsUndisturbed
<1>1. Init => LoadsInv
  BY DEF Init, LoadsInv, LoadsPrivate, LoadsUndisturbed
<1>2. LoadsInv => LoadsUndisturbed
  BY DEF LoadsInv
<1> QED
  BY <1>1, <1>2, FenceInit, FenceStep, LoadsStep, PTL DEF Spec
==============================================================================
