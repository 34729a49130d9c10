------------------------ MODULE MultiprocExecutor_proofs ------------------------
(***************************************************************************)
(* For every number of workers, calls and steps left in flight: until a     *)
(* call fails, a call is given the replies to that very call.               *)
(*                                                                         *)
(* Replies carry no call number in the code; the number is the model's      *)
(* record of what they answer.  Futures are waited for in the order of      *)
(* their calls (FuturesOK), so as long as none has failed the replies that  *)
(* a worker has given and nobody has taken are, in the order of the calls,  *)
(* those to the calls that the engine has still to read from that worker:   *)
(* none is left over and none is missing (RepliesOK).  The payloads on the  *)
(* socket are, in the same order, those of the markers in the ring and of   *)
(* the marker the engine has read.                                          *)
(***************************************************************************)
EXTENDS MultiprocExecutor, TLAPS

(* The conjuncts of TypeOK without the one about pending futures, which     *)
(* FuturesOK implies.                                                       *)
EngineTypes ==
  /\ calls \in Seq(Call) /\ e_call \in Call
  /\ Len(calls) <= MaxCalls
  /\ fut \in Seq({"pending", "done", "failed"})
  /\ replies \in Seq(Seq(1 .. MaxCalls))
  /\ Len(fut) = Len(calls) /\ Len(replies) = Len(calls)
  /\ futures_queue \in Seq(1 .. Len(calls))
  /\ batch_queue \in Seq(1 .. Len(calls))
  /\ Len(batch_queue) <= BatchQueueSize
  /\ e_pc \in {"idle", "enqueue", "result", "dequeue", "recv", "dead"}
  /\ e_target \in 0 .. Len(calls) /\ e_cur \in 0 .. Len(calls)

WorkersTypes ==
  /\ alive \in [Workers -> BOOLEAN]
  /\ w_pos \in [Workers -> 0 .. Len(calls)]
  /\ outputs \in [Workers -> Seq(Reply)]
  /\ \A w \in Workers : Len(calls) - w_pos[w] <= MaxChunks

QueueTypes ==
  /\ response_mq \in [Workers -> Seq(Reply)]
  /\ local_socket \in [Workers -> Seq(Reply)]
  /\ sending \in [Workers -> BOOLEAN]
  /\ \A w \in Workers :
       /\ Len(response_mq[w]) <= MaxChunks
       /\ sending[w] => local_socket[w] # <<>>

MonitorTypes ==
  is_failed \in BOOLEAN /\ shutting_down \in BOOLEAN /\ executor_failed \in BOOLEAN

Types == EngineTypes /\ WorkersTypes /\ QueueTypes /\ MonitorTypes

(* The futures taken from the queue so far.                                 *)
Popped == Len(calls) - Len(futures_queue)

Waits == e_pc \in {"dequeue", "recv"}

(* Futures are queued and taken in the order of their calls.                *)
FuturesOK ==
  /\ Len(futures_queue) <= Len(calls)
  /\ \A i \in 1 .. Len(futures_queue) : futures_queue[i] = Popped + i
  /\ e_cur = IF Waits THEN Popped ELSE 0
  /\ Waits => Popped > 0 /\ Len(replies[e_cur]) < Asked(e_cur)
  /\ e_pc = "result" \/ Waits => e_target > 0
  /\ e_pc = "enqueue" => Len(calls) < MaxCalls
  /\ e_pc = "enqueue" /\ e_call.non_block => Len(batch_queue) < BatchQueueSize
  /\ \A k \in 1 .. Len(calls) :
       /\ fut[k] = "pending" <=> k > Popped \/ k = e_cur
       /\ k > Popped => replies[k] = <<>>

NoFailure == \A k \in 1 .. Len(calls) : fut[k] # "failed"

(* The engine has read the marker of w's reply, and waits for the payload.  *)
InRecv(w) == e_pc = "recv" /\ w = ReplyFrom(e_cur)

(* The reply of w to call k is asked for and the engine has not read it, or *)
(* its marker, from the ring.                                               *)
Unread(w, k) ==
  /\ calls[k].output_rank \in {All, w}
  /\ \/ k > Popped
     \/ /\ k = e_cur /\ ~InRecv(w)
        /\ calls[k].output_rank = All => w > Len(replies[k])

Increasing(q) == \A i, j \in 1 .. Len(q) : i < j => q[i].call < q[j].call

Answered(q) == {q[i].call : i \in 1 .. Len(q)}

(* The calls whose replies in q are markers.                                *)
Marked(q) == {q[i].call : i \in {j \in 1 .. Len(q) : q[j].overflow}}

(* The replies of w that are on their way are those to be read, and none    *)
(* was read from w before w ran its call.                                   *)
OnTheirWay(w) ==
  /\ Increasing(response_mq[w]) /\ Increasing(outputs[w])
  /\ \A i \in Answered(response_mq[w]), j \in Answered(outputs[w]) : i < j
  /\ Answered(response_mq[w]) \union Answered(outputs[w])
       = {k \in 1 .. w_pos[w] : Unread(w, k)}
  /\ \A k \in 1 .. Len(calls) :
       calls[k].output_rank \in {All, w} /\ ~Unread(w, k) => k <= w_pos[w]

(* The payloads of w are those of its markers.                              *)
Payloads(w) ==
  /\ Increasing(local_socket[w])
  /\ Answered(local_socket[w])
       = Marked(response_mq[w]) \union (IF InRecv(w) THEN {e_cur} ELSE {})

RepliesOK == NoFailure => \A w \in Workers : OnTheirWay(w) /\ Payloads(w)

(* What has been collected for the current call answers it.                 *)
PartsOwn ==
  NoFailure /\ Waits =>
    \A i \in 1 .. Len(replies[e_cur]) : replies[e_cur][i] = e_cur

Inv == Types /\ FuturesOK /\ RepliesOK /\ PartsOwn /\ OwnReplies

-----------------------------------------------------------------------------
(* Queues                                                                   *)

LEMMA HeadTail ==
  ASSUME NEW S, NEW q \in Seq(S), q # <<>>
  PROVE /\ Head(q) \in S /\ Tail(q) \in Seq(S)
        /\ Head(q) = q[1] /\ Len(q) \in Nat \ {0} /\ Len(Tail(q)) = Len(q) - 1
        /\ \A i \in 1 .. Len(Tail(q)) : Tail(q)[i] = q[i + 1]
  OBVIOUS

LEMMA Appended ==
  ASSUME NEW S, NEW q \in Seq(S), NEW m \in S
  PROVE /\ Append(q, m) \in Seq(S)
        /\ Len(Append(q, m)) = Len(q) + 1 /\ Len(q) \in Nat
        /\ \A i \in 1 .. Len(q) : Append(q, m)[i] = q[i]
        /\ Append(q, m)[Len(q) + 1] = m
  OBVIOUS

LEMMA Widen ==
  ASSUME NEW m \in Nat, NEW n \in Nat, m <= n, NEW q \in Seq(1 .. m)
  PROVE q \in Seq(1 .. n)
  <1>1. Len(q) \in Nat /\ q \in [1 .. Len(q) -> 1 .. m]
    OBVIOUS
  <1>2. 1 .. m \subseteq 1 .. n
    OBVIOUS
  <1>3. q \in [1 .. Len(q) -> 1 .. n]
    BY <1>1, <1>2
  <1> QED BY <1>1, <1>3

(* The worker's queues: a reply goes in at the end and comes out in front.  *)
LEMMA AnswerAppend ==
  ASSUME NEW q \in Seq(Reply), NEW m \in Reply, Increasing(q),
         \A k \in Answered(q) : k < m.call
  PROVE /\ Append(q, m) \in Seq(Reply) /\ Increasing(Append(q, m))
        /\ Answered(Append(q, m)) = Answered(q) \union {m.call}
        /\ Marked(Append(q, m)) = Marked(q) \union (IF m.overflow THEN {m.call} ELSE {})
  <1> DEFINE p == Append(q, m)
  <1>1. /\ p \in Seq(Reply) /\ Len(p) = Len(q) + 1 /\ Len(q) \in Nat
        /\ \A i \in 1 .. Len(q) : p[i] = q[i]
        /\ p[Len(q) + 1] = m
    BY Appended
  <1> HIDE DEF p
  <1>2. 1 .. Len(p) = (1 .. Len(q)) \union {Len(q) + 1}
    BY <1>1
  <1>3. Answered(p) = Answered(q) \union {m.call}
    BY <1>1, <1>2 DEF Answered
  <1>4. ASSUME NEW i \in 1 .. Len(p), NEW j \in 1 .. Len(p), i < j
        PROVE p[i].call < p[j].call
    <2>1. i \in 1 .. Len(q) /\ q[i].call \in Answered(q) /\ p[i] = q[i]
      BY <1>1, <1>4 DEF Answered
    <2>2. CASE j \in 1 .. Len(q)
      BY <1>1, <1>4, <2>1, <2>2 DEF Increasing
    <2>3. CASE j = Len(q) + 1
      BY <1>1, <2>1, <2>3
    <2> QED BY <1>2, <2>2, <2>3
  <1>5. Marked(p) = Marked(q) \union (IF m.overflow THEN {m.call} ELSE {})
    <2>1. {j \in 1 .. Len(p) : p[j].overflow} =
            {j \in 1 .. Len(q) : q[j].overflow}
              \union (IF m.overflow THEN {Len(q) + 1} ELSE {})
      BY <1>1, <1>2
    <2> QED BY <1>1, <2>1 DEF Marked
  <1> QED BY <1>1, <1>3, <1>4, <1>5 DEF Increasing, p

LEMMA AnswerTail ==
  ASSUME NEW q \in Seq(Reply), q # <<>>, Increasing(q)
  PROVE /\ Tail(q) \in Seq(Reply) /\ Increasing(Tail(q)) /\ Head(q) \in Reply
        /\ Head(q).call \in Answered(q)
        /\ Answered(Tail(q)) = Answered(q) \ {Head(q).call}
        /\ \A k \in Answered(Tail(q)) : Head(q).call < k
        /\ Marked(q) =
             Marked(Tail(q)) \union (IF Head(q).overflow THEN {Head(q).call} ELSE {})
  <1> DEFINE p == Tail(q)
  <1>1. /\ p \in Seq(Reply) /\ Len(p) = Len(q) - 1 /\ Len(q) \in Nat \ {0}
        /\ Head(q) = q[1] /\ Head(q) \in Reply
        /\ \A i \in 1 .. Len(p) : p[i] = q[i + 1]
    BY HeadTail
  <1> HIDE DEF p
  <1>2. \A i \in 1 .. Len(q) : q[i] \in Reply /\ q[i].call \in 1 .. MaxCalls
    <2>1. \A i \in 1 .. Len(q) : q[i] \in Reply
      OBVIOUS
    <2> QED BY <2>1 DEF Reply
  <1>3. Increasing(p)
    BY <1>1 DEF Increasing
  <1>4. Head(q).call \in Answered(q)
    BY <1>1 DEF Answered
  <1>5. ASSUME NEW k \in Answered(p) PROVE k \in Answered(q) /\ Head(q).call < k
    <2>1. PICK i \in 1 .. Len(p) : k = p[i].call
      BY DEF Answered
    <2>2. i + 1 \in 1 .. Len(q) /\ 1 \in 1 .. Len(q) /\ 1 < i + 1 /\ k = q[i + 1].call
      BY <1>1, <2>1
    <2> QED BY <1>1, <2>2 DEF Answered, Increasing
  <1>6. ASSUME NEW k \in Answered(q), k # Head(q).call PROVE k \in Answered(p)
    <2>1. PICK i \in 1 .. Len(q) : k = q[i].call
      BY DEF Answered
    <2>2. i # 1
      BY <1>1, <1>6, <2>1
    <2>3. i - 1 \in 1 .. Len(p) /\ p[i - 1] = q[i]
      BY <1>1, <2>2
    <2> QED BY <2>1, <2>3 DEF Answered
  <1>7. \A k \in Answered(p) : k # Head(q).call
    BY <1>1, <1>2, <1>5, ExecutorAssumption DEF Reply
  <1>8. Marked(q) = Marked(p) \union (IF Head(q).overflow THEN {Head(q).call} ELSE {})
    <2>1. ASSUME NEW i \in 1 .. Len(q), q[i].overflow
          PROVE q[i].call \in Marked(p) \/ (Head(q).overflow /\ q[i].call = Head(q).call)
      <3>1. CASE i = 1
        BY <1>1, <2>1, <3>1
      <3>2. CASE i # 1
        <4>1. i - 1 \in 1 .. Len(p) /\ p[i - 1] = q[i]
          BY <1>1, <3>2
        <4> QED BY <2>1, <4>1 DEF Marked
      <3> QED BY <3>1, <3>2
    <2>2. ASSUME NEW i \in 1 .. Len(p), p[i].overflow PROVE p[i].call \in Marked(q)
      <3>1. i + 1 \in 1 .. Len(q) /\ p[i] = q[i + 1]
        BY <1>1
      <3> QED BY <2>2, <3>1 DEF Marked
    <2>3. Head(q).overflow => Head(q).call \in Marked(q)
      <3>1. 1 \in 1 .. Len(q)
        BY <1>1
      <3> QED BY <1>1, <3>1 DEF Marked
    <2>4. Marked(q) \subseteq
            Marked(p) \union (IF Head(q).overflow THEN {Head(q).call} ELSE {})
      BY <2>1 DEF Marked
    <2>5. Marked(p) \subseteq Marked(q)
      BY <2>2 DEF Marked
    <2> QED BY <2>3, <2>4, <2>5
  <1> QED BY <1>1, <1>3, <1>4, <1>5, <1>6, <1>7, <1>8 DEF p

LEMMA MarkedAnswered == ASSUME NEW q PROVE Marked(q) \subseteq Answered(q)
  BY DEF Marked, Answered

LEMMA EmptyQueue == Increasing(<<>>) /\ Answered(<<>>) = {} /\ Marked(<<>>) = {}
  BY DEF Increasing, Answered, Marked

LEMMA Constants ==
  /\ NWorkers \in Nat \ {0} /\ MaxCalls \in Nat /\ BatchQueueSize \in Nat
  /\ MaxChunks \in Nat \ {0} /\ Methods \subseteq Call /\ NoCall \in Call
  /\ OutputRank \in Workers /\ All \notin Workers /\ All # OutputRank
  /\ Workers \subseteq Nat
  BY ExecutorAssumption DEF OutputRank, Workers, All, Call, Kinds, NoCall

LEMMA TypesGiveTypeOK == Types /\ FuturesOK => TypeOK
  <1> SUFFICES ASSUME Types, FuturesOK PROVE TypeOK
    OBVIOUS
  <1>1. /\ Len(calls) \in Nat /\ Len(futures_queue) \in Nat /\ Popped \in Nat
        /\ e_cur \in Nat /\ e_cur <= Popped /\ Len(fut) = Len(calls)
    BY DEF Types, EngineTypes, FuturesOK, Popped
  <1>2. ASSUME NEW k \in 1 .. Len(fut), fut[k] = "pending"
        PROVE k \in {futures_queue[i] : i \in 1 .. Len(futures_queue)}
                     \union ({e_cur} \ {0})
    <2>1. k > Popped \/ k = e_cur
      BY <1>1, <1>2 DEF FuturesOK
    <2>2. CASE k = e_cur
      BY <2>2
    <2>3. CASE k > Popped
      <3>1. k - Popped \in 1 .. Len(futures_queue)
        BY <1>1, <2>3 DEF Popped
      <3>2. futures_queue[k - Popped] = Popped + (k - Popped)
        BY <3>1 DEF FuturesOK
      <3>3. futures_queue[k - Popped] = k
        BY <1>1, <3>2
      <3> QED BY <3>1, <3>3
    <2> QED BY <2>1, <2>2, <2>3
  <1>3. ASSUME NEW i \in 1 .. Len(futures_queue)
        PROVE /\ futures_queue[i] \in 1 .. Len(fut)
              /\ fut[futures_queue[i]] = "pending"
    <2>1. futures_queue[i] = Popped + i
      BY DEF FuturesOK
    <2>2. Popped + i \in 1 .. Len(calls) /\ Popped + i > Popped
      BY <1>1 DEF Popped
    <2> QED BY <1>1, <2>1, <2>2 DEF FuturesOK
  <1>4. e_cur # 0 => e_cur \in 1 .. Len(fut) /\ fut[e_cur] = "pending"
    BY <1>1 DEF FuturesOK, Popped
  <1>5. {k \in 1 .. Len(fut) : fut[k] = "pending"} =
          {futures_queue[i] : i \in 1 .. Len(futures_queue)} \union ({e_cur} \ {0})
    BY <1>2, <1>3, <1>4
  <1> QED BY <1>5 DEF Types, EngineTypes, WorkersTypes, QueueTypes, MonitorTypes, TypeOK

LEMMA InitInv == Init => Inv
  <1> SUFFICES ASSUME Init PROVE Inv
    OBVIOUS
  <1> USE Constants DEF Init
  <1>1. Types
    <2>1. \A S : <<>> \in Seq(S) /\ Len(<<>>) = 0
      OBVIOUS
    <2>2. /\ calls \in Seq(Call) /\ fut \in Seq({"pending", "done", "failed"})
          /\ replies \in Seq(Seq(1 .. MaxCalls))
          /\ futures_queue \in Seq(1 .. Len(calls)) /\ batch_queue \in Seq(1 .. Len(calls))
          /\ Len(calls) = 0 /\ Len(fut) = 0 /\ Len(replies) = 0 /\ Len(batch_queue) = 0
      BY <2>1
    <2>3. QueueTypes
      <3>1. /\ response_mq \in [Workers -> Seq(Reply)] /\ local_socket \in [Workers -> Seq(Reply)]
            /\ sending \in [Workers -> BOOLEAN]
        BY <2>1
      <3>2. ASSUME NEW w \in Workers
            PROVE Len(response_mq[w]) <= MaxChunks /\ ~sending[w]
        BY <2>1
      <3> QED BY <3>1, <3>2 DEF QueueTypes
    <2>4. WorkersTypes
      <3>1. /\ outputs \in [Workers -> Seq(Reply)] /\ alive \in [Workers -> BOOLEAN]
        BY <2>1
      <3>2. w_pos \in [Workers -> 0 .. Len(calls)]
        BY <2>2
      <3>3. \A w \in Workers : Len(calls) - w_pos[w] <= MaxChunks
        BY <2>2
      <3> QED BY <3>1, <3>2, <3>3 DEF WorkersTypes
    <2>5. /\ e_target \in 0 .. Len(calls) /\ e_cur \in 0 .. Len(calls) /\ e_call \in Call
          /\ Len(calls) <= MaxCalls /\ Len(batch_queue) <= BatchQueueSize
      BY <2>2
    <2>6. EngineTypes
      BY <2>2, <2>5 DEF EngineTypes
    <2>7. MonitorTypes
      BY DEF MonitorTypes
    <2> QED BY <2>3, <2>4, <2>6, <2>7 DEF Types
  <1>2. FuturesOK
    BY DEF FuturesOK, Popped, Waits
  <1>3. RepliesOK
    <2>1. ASSUME NEW w \in Workers PROVE OnTheirWay(w) /\ Payloads(w)
      <3>1. {k \in 1 .. w_pos[w] : Unread(w, k)} = {}
        OBVIOUS
      <3>2. 1 .. Len(calls) = {}
        OBVIOUS
      <3>3. ~InRecv(w)
        BY DEF InRecv
      <3> QED BY <3>1, <3>2, <3>3, EmptyQueue DEF OnTheirWay, Payloads
    <2> QED BY <2>1 DEF RepliesOK
  <1>4. PartsOwn /\ OwnReplies
    BY DEF PartsOwn, OwnReplies, Waits
  <1> QED BY <1>1, <1>2, <1>3, <1>4 DEF Inv

-----------------------------------------------------------------------------
(* The futures                                                              *)

Lengths ==
  /\ Len(calls) \in Nat /\ Len(futures_queue) \in Nat /\ Popped \in Nat
  /\ Len(fut) = Len(calls) /\ Len(replies) = Len(calls)
  /\ \A k \in 1 .. Len(calls) :
       /\ calls[k] \in Call /\ calls[k].output_rank \in {All, OutputRank}
       /\ replies[k] \in Seq(1 .. MaxCalls) /\ Len(replies[k]) \in Nat
       /\ fut[k] \in {"pending", "done", "failed"}

LEMMA GetLengths == EngineTypes /\ FuturesOK => Lengths
  <1> SUFFICES ASSUME EngineTypes, FuturesOK PROVE Lengths
    OBVIOUS
  <1>1. /\ Len(calls) \in Nat /\ Len(futures_queue) \in Nat /\ Popped \in Nat
        /\ Len(fut) = Len(calls) /\ Len(replies) = Len(calls)
    BY DEF EngineTypes, FuturesOK, Popped
  <1>2. \A k \in 1 .. Len(calls) : calls[k] \in Call
    BY DEF EngineTypes
  <1>3. \A k \in 1 .. Len(calls) : replies[k] \in Seq(1 .. MaxCalls)
    BY <1>1 DEF EngineTypes
  <1>4. \A k \in 1 .. Len(calls) : fut[k] \in {"pending", "done", "failed"}
    BY <1>1 DEF EngineTypes
  <1>5. \A k \in 1 .. Len(calls) : calls[k].output_rank \in {All, OutputRank}
    BY <1>2 DEF Call
  <1>6. \A k \in 1 .. Len(calls) : Len(replies[k]) \in Nat
    BY <1>3
  <1> QED BY <1>1, <1>2, <1>3, <1>4, <1>5, <1>6 DEF Lengths

(* While the engine collects replies.                                       *)
Collecting ==
  /\ e_cur \in 1 .. Len(calls) /\ e_cur = Popped
  /\ ReplyFrom(e_cur) \in Workers
  /\ Asked(e_cur) \in Nat \ {0} /\ Len(replies[e_cur]) < Asked(e_cur)
  /\ fut[e_cur] = "pending"

LEMMA IsCollecting ==
  ASSUME EngineTypes, FuturesOK, Waits
  PROVE Collecting
  <1>1. Lengths
    BY GetLengths
  <1>2. e_cur \in 1 .. Len(calls) /\ e_cur = Popped /\ Len(replies[e_cur]) < Asked(e_cur)
    BY <1>1 DEF FuturesOK, Lengths, Popped
  <1>3. Asked(e_cur) \in Nat \ {0} /\ fut[e_cur] = "pending"
    BY <1>1, <1>2, Constants DEF Asked, FuturesOK, Lengths
  <1>4. ReplyFrom(e_cur) \in Workers
    BY <1>1, <1>2, Constants DEF ReplyFrom, Asked, Workers, Lengths
  <1> QED BY <1>2, <1>3, <1>4 DEF Collecting

(* collective_rpc up to the enqueue.                                        *)
LEMMA RpcFutures ==
  ASSUME Types, FuturesOK, NEW c \in Methods, collective_rpc(c)
  PROVE /\ Types' /\ FuturesOK' /\ Popped' = Popped
        /\ UNCHANGED <<calls, fut, replies, e_cur, workers, response>>
        /\ ~Waits /\ ~Waits'
  <1>1. /\ c \in Call /\ e_call' = c /\ e_pc = "idle" /\ e_pc' = "enqueue"
        /\ Len(calls) < MaxCalls /\ (c.non_block => Len(batch_queue) < BatchQueueSize)
        /\ UNCHANGED <<calls, fut, replies, futures_queue, batch_queue, e_target,
                       e_cur, workers, response, monitor>>
    BY Constants DEF collective_rpc
  <1>2. EngineTypes'
    BY <1>1 DEF Types, EngineTypes
  <1>3. WorkersTypes' /\ QueueTypes' /\ MonitorTypes'
    BY <1>1 DEF Types, WorkersTypes, QueueTypes, MonitorTypes, workers, response, monitor
  <1>4. Popped' = Popped /\ ~Waits /\ ~Waits'
    BY <1>1 DEF Popped, Waits
  <1>5. FuturesOK'
    BY <1>1, <1>4 DEF FuturesOK
  <1> QED BY <1>1, <1>2, <1>3, <1>4, <1>5 DEF Types

LEMMA EnqueueFutures ==
  ASSUME Types, FuturesOK, Enqueue
  PROVE /\ Types' /\ FuturesOK' /\ Popped' = Popped /\ Len(calls') = Len(calls) + 1
        /\ \A k \in 1 .. Len(calls) :
             calls'[k] = calls[k] /\ fut'[k] = fut[k] /\ replies'[k] = replies[k]
        /\ fut'[Len(calls) + 1] = "pending"
        /\ UNCHANGED <<e_cur, workers, response>> /\ ~Waits /\ ~Waits'
  <1> DEFINE K == Len(calls)
             non_block == e_call.non_block
  <1>1. Lengths
    BY GetLengths DEF Types
  <1>2. e_call \in Call /\ non_block \in BOOLEAN
    BY DEF Types, EngineTypes, Call
  <1>3. /\ calls' \in Seq(Call) /\ Len(calls') = K + 1
        /\ \A k \in 1 .. K : calls'[k] = calls[k]
    <2>1. calls \in Seq(Call) /\ calls' = Append(calls, e_call)
      BY DEF Types, EngineTypes, Enqueue
    <2> QED BY <1>2, <2>1, Appended
  <1>4. /\ fut' \in Seq({"pending", "done", "failed"}) /\ Len(fut') = K + 1
        /\ \A k \in 1 .. K : fut'[k] = fut[k]
        /\ fut'[K + 1] = "pending"
    <2>1. fut \in Seq({"pending", "done", "failed"}) /\ fut' = Append(fut, "pending")
          /\ Len(fut) = K
      BY DEF Types, EngineTypes, Enqueue
    <2> QED BY <2>1, Appended
  <1>5. /\ replies' \in Seq(Seq(1 .. MaxCalls)) /\ Len(replies') = K + 1
        /\ \A k \in 1 .. K : replies'[k] = replies[k]
        /\ replies'[K + 1] = <<>>
    <2>1. /\ replies \in Seq(Seq(1 .. MaxCalls)) /\ replies' = Append(replies, <<>>)
          /\ Len(replies) = K /\ <<>> \in Seq(1 .. MaxCalls)
      BY DEF Types, EngineTypes, Enqueue
    <2> QED BY <2>1, Appended
  <1>6. /\ futures_queue' \in Seq(1 .. K + 1)
        /\ Len(futures_queue') = Len(futures_queue) + 1
        /\ \A i \in 1 .. Len(futures_queue) : futures_queue'[i] = futures_queue[i]
        /\ futures_queue'[Len(futures_queue) + 1] = K + 1
    <2>1. futures_queue' = Append(futures_queue, K + 1)
      BY DEF Enqueue
    <2>2. futures_queue \in Seq(1 .. K)
      BY DEF Types, EngineTypes
    <2>3. futures_queue \in Seq(1 .. K + 1) /\ K + 1 \in 1 .. K + 1
      BY <1>1, <2>2, Widen DEF Lengths
    <2> QED BY <2>1, <2>3, Appended
  <1>8. /\ e_pc = "enqueue" /\ e_pc' \in {"idle", "result"} /\ e_call' = NoCall
        /\ e_target' \in 0 .. K + 1 /\ (e_pc' = "result" => e_target' = K + 1)
        /\ UNCHANGED <<e_cur, workers, response, monitor>>
        /\ K < MaxCalls /\ RingHasRoom
    <2>1. /\ e_pc = "enqueue" /\ e_pc' \in {"idle", "result"} /\ e_call' = NoCall
          /\ UNCHANGED <<e_cur, workers, response, monitor>> /\ RingHasRoom
          /\ e_target' = (IF non_block THEN 0 ELSE K + 1)
          /\ (e_pc' = "result" => e_target' = K + 1)
      BY <1>2 DEF Enqueue
    <2>2. K < MaxCalls
      BY <2>1 DEF FuturesOK
    <2>3. e_target' \in 0 .. K + 1
      BY <1>1, <2>1 DEF Lengths
    <2> QED BY <2>1, <2>2, <2>3
  <1>7. batch_queue' \in Seq(1 .. K + 1) /\ Len(batch_queue') <= BatchQueueSize
    <2>2. batch_queue \in Seq(1 .. K) /\ Len(batch_queue) <= BatchQueueSize
      BY DEF Types, EngineTypes
    <2>3. batch_queue \in Seq(1 .. K + 1) /\ K + 1 \in 1 .. K + 1
      BY <1>1, <2>2, Widen DEF Lengths
    <2>4. CASE non_block
      <3>1. batch_queue' = Append(batch_queue, K + 1) /\ Len(batch_queue) < BatchQueueSize
        BY <1>8, <2>4 DEF Enqueue, FuturesOK
      <3> QED BY <2>3, <3>1, Appended, Constants
    <2>5. CASE ~non_block
      BY <2>2, <2>3, <2>5 DEF Enqueue
    <2> QED BY <2>4, <2>5
  <1>9. Popped' = Popped
    BY <1>1, <1>3, <1>6 DEF Popped, Lengths
  <1>10. WorkersTypes'
    <2>1. 0 .. K \subseteq 0 .. K + 1
      BY <1>1 DEF Lengths
    <2>2. /\ w_pos' \in [Workers -> 0 .. K + 1] /\ alive' \in [Workers -> BOOLEAN]
          /\ outputs' \in [Workers -> Seq(Reply)]
      BY <1>8, <2>1 DEF Types, WorkersTypes, workers
    <2>3. \A w \in Workers : K + 1 - w_pos'[w] <= MaxChunks
      BY <1>1, <1>8, Constants DEF RingHasRoom, Lengths, Types, WorkersTypes, workers
    <2> QED BY <1>3, <2>2, <2>3 DEF WorkersTypes
  <1>11. K + 1 <= MaxCalls /\ e_cur' \in 0 .. K + 1
    BY <1>1, <1>8, Constants DEF Lengths, Types, EngineTypes
  <1>12. Types'
    <2>1. EngineTypes'
      BY <1>3, <1>4, <1>5, <1>6, <1>7, <1>8, <1>11, Constants DEF EngineTypes
    <2>2. QueueTypes' /\ MonitorTypes'
      BY <1>8 DEF Types, QueueTypes, MonitorTypes, response, monitor
    <2> QED BY <1>10, <2>1, <2>2 DEF Types
  <1>13. FuturesOK'
    <2>1. \A i \in 1 .. Len(futures_queue') : futures_queue'[i] = Popped' + i
      <3>1. 1 .. Len(futures_queue') = (1 .. Len(futures_queue)) \union {Len(futures_queue) + 1}
        BY <1>1, <1>6 DEF Lengths
      <3>2. Popped + (Len(futures_queue) + 1) = K + 1
        BY <1>1 DEF Popped, Lengths
      <3>3. \A i \in 1 .. Len(futures_queue) : futures_queue[i] = Popped + i
        BY DEF FuturesOK
      <3> QED BY <1>6, <1>9, <3>1, <3>2, <3>3
    <2>2. e_cur' = 0 /\ e_cur = 0 /\ ~Waits' /\ e_pc' # "enqueue"
      BY <1>8 DEF FuturesOK, Waits
    <2>3. \A k \in 1 .. Len(calls') :
            /\ fut'[k] = "pending" <=> k > Popped' \/ k = e_cur'
            /\ k > Popped' => replies'[k] = <<>>
      <3>1. 1 .. Len(calls') = (1 .. K) \union {K + 1}
        BY <1>1, <1>3 DEF Lengths
      <3>2. K + 1 > Popped
        BY <1>1 DEF Popped, Lengths
      <3> QED BY <1>4, <1>5, <1>9, <2>2, <3>1, <3>2 DEF FuturesOK
    <2>4. Len(futures_queue') <= Len(calls')
      BY <1>1, <1>3, <1>6 DEF FuturesOK, Lengths
    <2>5. e_pc' = "result" => e_target' > 0
      BY <1>1, <1>8 DEF Lengths
    <2> QED BY <2>1, <2>2, <2>3, <2>4, <2>5 DEF FuturesOK
  <1>14. ~Waits /\ ~Waits'
    BY <1>8 DEF Waits
  <1> QED BY <1>3, <1>4, <1>5, <1>8, <1>9, <1>12, <1>13, <1>14

LEMMA DrainFutures ==
  ASSUME Types, FuturesOK, DrainFuture
  PROVE /\ Types' /\ FuturesOK' /\ Popped' = Popped + 1 /\ e_cur = 0 /\ e_cur' = Popped'
        /\ UNCHANGED <<calls, fut, replies, workers, response>>
        /\ e_cur' \in 1 .. Len(calls) /\ replies[e_cur'] = <<>>
        /\ e_pc = "result" /\ e_pc' = "dequeue"
  <1>1. Lengths
    BY GetLengths DEF Types
  <1>2. /\ e_target \in 1 .. Len(calls) /\ fut[e_target] = "pending" /\ e_cur = 0
        /\ e_pc = "result"
    BY <1>1 DEF DrainFuture, FuturesOK, Types, EngineTypes, Lengths, Waits
  <1>3. futures_queue # <<>>
    <2>1. e_target > Popped
      BY <1>2 DEF FuturesOK
    <2>2. Len(futures_queue) # 0
      BY <1>1, <1>2, <2>1 DEF Popped, Lengths
    <2> QED BY <2>2
  <1>4. /\ Head(futures_queue) = Popped + 1
        /\ futures_queue' \in Seq(1 .. Len(calls))
        /\ Len(futures_queue') = Len(futures_queue) - 1
        /\ \A i \in 1 .. Len(futures_queue') : futures_queue'[i] = Popped + 1 + i
    <2>1. futures_queue \in Seq(1 .. Len(calls)) /\ futures_queue' = Tail(futures_queue)
      BY DEF Types, EngineTypes, DrainFuture
    <2>2. /\ Head(futures_queue) = futures_queue[1] /\ Len(futures_queue) \in Nat \ {0}
          /\ futures_queue' \in Seq(1 .. Len(calls))
          /\ Len(futures_queue') = Len(futures_queue) - 1
          /\ \A i \in 1 .. Len(futures_queue') : futures_queue'[i] = futures_queue[i + 1]
      BY <1>3, <2>1, HeadTail
    <2>3. futures_queue[1] = Popped + 1
      BY <2>2 DEF FuturesOK
    <2>4. ASSUME NEW i \in 1 .. Len(futures_queue')
          PROVE futures_queue'[i] = Popped + 1 + i
      <3>1. i + 1 \in 1 .. Len(futures_queue)
        BY <2>2
      <3>2. futures_queue[i + 1] = Popped + (i + 1)
        BY <3>1 DEF FuturesOK
      <3> QED BY <1>1, <2>2, <3>2 DEF Lengths
    <2> QED BY <2>2, <2>3, <2>4
  <1>5. /\ e_cur' = Popped + 1 /\ e_pc' = "dequeue"
        /\ UNCHANGED <<calls, fut, replies, batch_queue, e_call, e_target, workers,
                       response, monitor>>
    BY <1>4 DEF DrainFuture
  <1>6. Popped' = Popped + 1 /\ Popped + 1 \in 1 .. Len(calls)
    BY <1>1, <1>3, <1>4, <1>5 DEF Popped, Lengths
  <1>7. replies[Popped + 1] = <<>>
    BY <1>1, <1>6 DEF FuturesOK, Lengths
  <1>8. Types'
    <2>1. EngineTypes'
      BY <1>1, <1>4, <1>5, <1>6 DEF Types, EngineTypes, Lengths
    <2>2. WorkersTypes' /\ QueueTypes' /\ MonitorTypes'
      BY <1>5 DEF Types, WorkersTypes, QueueTypes, MonitorTypes, workers, response, monitor
    <2> QED BY <2>1, <2>2 DEF Types
  <1>9. FuturesOK'
    <2>1. Asked(e_cur)' \in Nat \ {0}
      BY <1>1, <1>5, <1>6, Constants DEF Asked, Lengths
    <2>2. Len(replies'[e_cur']) = 0
      BY <1>5, <1>7
    <2>3. \A k \in 1 .. Len(calls) :
            /\ fut[k] = "pending" <=> k > Popped + 1 \/ k = Popped + 1
            /\ k > Popped + 1 => replies[k] = <<>>
      BY <1>1, <1>2 DEF FuturesOK, Lengths
    <2>4. Len(futures_queue') <= Len(calls')
      BY <1>1, <1>4, <1>5 DEF FuturesOK, Lengths
    <2>5. e_target' > 0
      BY <1>1, <1>2, <1>5 DEF Lengths
    <2>7. Len(replies'[e_cur']) < Asked(e_cur)'
      BY <2>1, <2>2
    <2>8. e_cur' = Popped' /\ Popped' > 0 /\ Waits'
      BY <1>1, <1>5, <1>6 DEF Lengths, Waits
    <2>9. \A k \in 1 .. Len(calls') :
            /\ fut'[k] = "pending" <=> k > Popped' \/ k = e_cur'
            /\ k > Popped' => replies'[k] = <<>>
      BY <1>5, <1>6, <2>3
    <2>10. \A i \in 1 .. Len(futures_queue') : futures_queue'[i] = Popped' + i
      BY <1>4, <1>6
    <2> QED BY <1>5, <2>4, <2>5, <2>7, <2>8, <2>9, <2>10 DEF FuturesOK
  <1> QED BY <1>2, <1>5, <1>6, <1>7, <1>8, <1>9

(* The current future ends.                                                 *)
LEMMA EndsFutures ==
  ASSUME EngineTypes, FuturesOK, Waits, NEW how \in {"done", "failed"},
         FutureEnds(how), UNCHANGED <<calls, futures_queue, batch_queue, e_call, e_target>>,
         replies' \in Seq(Seq(1 .. MaxCalls)), Len(replies') = Len(replies),
         \A k \in 1 .. Len(replies) : k # e_cur => replies'[k] = replies[k]
  PROVE /\ EngineTypes' /\ FuturesOK' /\ Popped' = Popped
        /\ e_pc' = "result" /\ e_cur' = 0
        /\ \A k \in 1 .. Len(calls) : fut'[k] = IF k = e_cur THEN how ELSE fut[k]
  <1>1. Lengths /\ Collecting
    BY GetLengths, IsCollecting
  <1>2. Popped' = Popped
    BY DEF Popped
  <1>3. /\ e_pc' = "result" /\ e_cur' = 0 /\ fut' = [fut EXCEPT ![e_cur] = how]
        /\ ~Waits' /\ e_target > 0
    BY DEF FutureEnds, Waits, FuturesOK
  <1>4. fut \in Seq({"pending", "done", "failed"}) /\ Len(fut) = Len(calls)
    BY DEF EngineTypes
  <1>5. fut' \in Seq({"pending", "done", "failed"}) /\ Len(fut') = Len(fut)
    BY <1>1, <1>3, <1>4 DEF Collecting
  <1>6. \A k \in 1 .. Len(calls) : fut'[k] = IF k = e_cur THEN how ELSE fut[k]
    BY <1>3, <1>4
  <1>7. FuturesOK'
    <2>1. \A k \in 1 .. Len(calls') :
            /\ fut'[k] = "pending" <=> k > Popped' \/ k = e_cur'
            /\ k > Popped' => replies'[k] = <<>>
      <3>0. /\ e_cur = Popped /\ Popped \in Nat /\ Len(replies) = Len(calls)
            /\ \A k \in 1 .. Len(calls) :
                 /\ fut[k] = "pending" <=> k > Popped \/ k = e_cur
                 /\ k > Popped => replies[k] = <<>>
        BY <1>1 DEF FuturesOK, Collecting, Lengths
      <3>1. ASSUME NEW k \in 1 .. Len(calls) PROVE fut'[k] = "pending" <=> k > Popped
        <4>1. CASE k = e_cur
          <5>1. fut'[k] = how /\ how # "pending"
            BY <1>6, <4>1
          <5>2. ~(k > Popped)
            BY <3>0, <4>1
          <5> QED BY <5>1, <5>2
        <4>2. CASE k # e_cur
          BY <1>6, <3>0, <4>2
        <4> QED BY <4>1, <4>2
      <3>2. ASSUME NEW k \in 1 .. Len(calls), k > Popped PROVE replies'[k] = <<>>
        <4>1. k # e_cur /\ k \in 1 .. Len(replies)
          BY <3>0, <3>2
        <4>2. replies'[k] = replies[k]
          BY <4>1
        <4>3. replies[k] = <<>>
          BY <3>0, <3>2
        <4> QED BY <4>2, <4>3
      <3>3. \A k \in 1 .. Len(calls) : k # 0
        OBVIOUS
      <3> QED BY <1>2, <1>3, <3>1, <3>2, <3>3
    <2>2. \A i \in 1 .. Len(futures_queue') : futures_queue'[i] = Popped' + i
      BY <1>2 DEF FuturesOK
    <2> QED BY <1>3, <2>1, <2>2 DEF FuturesOK
  <1>8. EngineTypes'
    BY <1>1, <1>3, <1>5 DEF EngineTypes, Lengths
  <1> QED BY <1>2, <1>3, <1>6, <1>7, <1>8

(* get_response is given a reply, from the ring or from the socket.         *)
Takes(reply) ==
  /\ Waits
  /\ Collect(reply)
  /\ UNCHANGED <<calls, futures_queue, batch_queue, e_call, e_target>>

LEMMA CollectFutures ==
  ASSUME EngineTypes, FuturesOK, NEW reply \in Reply, Takes(reply)
  PROVE EngineTypes' /\ FuturesOK' /\ e_pc' \in {"result", "dequeue"}
  <1>1. Lengths /\ Collecting
    BY GetLengths, IsCollecting DEF Takes
  <1>5. reply.call \in 1 .. MaxCalls /\ reply.ok \in BOOLEAN
    BY DEF Reply
  <1> DEFINE more == Append(replies[e_cur], reply.call)
  <1>6. more \in Seq(1 .. MaxCalls) /\ Len(more) = Len(replies[e_cur]) + 1
    BY <1>1, <1>5, Appended DEF Lengths, Collecting
  <1>7. CASE reply.ok
    <2>1. replies' = [replies EXCEPT ![e_cur] = more]
      BY <1>7 DEF Takes, Collect
    <2> HIDE DEF more
    <2>2. /\ replies' \in Seq(Seq(1 .. MaxCalls)) /\ Len(replies') = Len(replies)
          /\ \A k \in 1 .. Len(replies) : k # e_cur => replies'[k] = replies[k]
          /\ replies'[e_cur] = more
      <3>1. replies \in Seq(Seq(1 .. MaxCalls)) /\ e_cur \in 1 .. Len(replies)
        BY <1>1 DEF EngineTypes, Collecting
      <3> QED BY <1>6, <2>1, <3>1
    <2>3. CASE Len(replies[e_cur]) + 1 = Asked(e_cur)
      <3>1. FutureEnds("done")
        BY <1>7, <2>3 DEF Takes, Collect
      <3> QED BY <2>2, <3>1, EndsFutures DEF Takes
    <2>4. CASE Len(replies[e_cur]) + 1 # Asked(e_cur)
      <3>1. /\ UNCHANGED <<fut, e_cur>> /\ e_pc' = "dequeue" /\ Waits /\ Waits'
            /\ UNCHANGED <<calls, futures_queue, batch_queue, e_call, e_target>>
        BY <1>7, <2>4 DEF Takes, Collect, Waits
      <3>2. EngineTypes'
        BY <1>1, <2>2, <3>1 DEF EngineTypes, Lengths
      <3>3. Popped' = Popped /\ Asked(e_cur)' = Asked(e_cur)
        BY <3>1 DEF Popped, Asked
      <3>4. Len(replies'[e_cur']) < Asked(e_cur)'
        <4>1. Len(replies[e_cur]) \in Nat /\ Asked(e_cur) \in Nat
          BY <1>1 DEF Lengths, Collecting
        <4>2. Len(replies[e_cur]) + 1 < Asked(e_cur)
          BY <1>1, <2>4, <4>1 DEF Collecting
        <4> QED BY <1>6, <2>2, <3>1, <3>3, <4>2
      <3>0. /\ e_cur = Popped /\ Popped \in Nat /\ Len(replies) = Len(calls)
            /\ \A k \in 1 .. Len(calls) : k > Popped => replies[k] = <<>>
        BY <1>1 DEF FuturesOK, Collecting, Lengths
      <3>5. ASSUME NEW k \in 1 .. Len(calls), k > Popped PROVE replies'[k] = <<>>
        <4>1. k # e_cur /\ k \in 1 .. Len(replies) /\ replies[k] = <<>>
          BY <3>0, <3>5
        <4> QED BY <2>2, <4>1
      <3>6. FuturesOK'
        BY <1>1, <3>1, <3>3, <3>4, <3>5 DEF FuturesOK
      <3> QED BY <3>1, <3>2, <3>6
    <2> QED BY <2>3, <2>4
  <1>8. CASE ~reply.ok
    <2>1. FutureEnds("failed") /\ UNCHANGED replies /\ Waits
      BY <1>8 DEF Takes, Collect
    <2>2. replies \in Seq(Seq(1 .. MaxCalls))
      BY DEF EngineTypes
    <2> QED BY <2>1, <2>2, EndsFutures DEF Takes
  <1> QED BY <1>7, <1>8

(* Reading the ring, and receiving a payload.                               *)
LEMMA DequeueFutures ==
  ASSUME Types, FuturesOK, DequeueResponse
  PROVE /\ Types' /\ FuturesOK'
        /\ LET w == ReplyFrom(e_cur) IN
             /\ w \in Workers /\ response_mq[w] # <<>> /\ response_mq[w] \in Seq(Reply)
             /\ Head(response_mq[w]) \in Reply /\ Collecting /\ Waits /\ e_pc = "dequeue"
             /\ response_mq' = [response_mq EXCEPT ![w] = Tail(@)]
             /\ UNCHANGED <<calls, futures_queue, batch_queue, e_call, e_target, workers,
                            local_socket, sending, monitor>>
             /\ IF Head(response_mq[w]).overflow
                THEN e_pc' = "recv" /\ UNCHANGED <<fut, replies, e_cur>>
                ELSE Takes(Head(response_mq[w]))
  <1> DEFINE w == ReplyFrom(e_cur)
             h == Head(response_mq[w])
  <1>1. Waits /\ Collecting /\ e_pc = "dequeue" /\ EngineTypes /\ Lengths
    BY GetLengths, IsCollecting DEF DequeueResponse, Types, Waits
  <1>2. w \in Workers /\ response_mq[w] # <<>> /\ response_mq[w] \in Seq(Reply)
    BY <1>1 DEF DequeueResponse, Collecting, Types, QueueTypes
  <1>3. /\ response_mq' = [response_mq EXCEPT ![w] = Tail(@)]
        /\ UNCHANGED <<calls, futures_queue, batch_queue, e_call, e_target, workers,
                       local_socket, sending, monitor>>
        /\ IF h.overflow
           THEN e_pc' = "recv" /\ UNCHANGED <<fut, replies, e_cur>>
           ELSE Collect(h)
    BY DEF DequeueResponse
  <1>4. /\ h \in Reply /\ Tail(response_mq[w]) \in Seq(Reply)
        /\ Len(Tail(response_mq[w])) = Len(response_mq[w]) - 1 /\ Len(response_mq[w]) \in Nat
    BY <1>2, HeadTail
  <1>5. QueueTypes'
    <2>1. response_mq' \in [Workers -> Seq(Reply)]
      BY <1>2, <1>3, <1>4 DEF Types, QueueTypes
    <2>2. ASSUME NEW v \in Workers PROVE Len(response_mq'[v]) <= MaxChunks
      <3>1. Len(response_mq[v]) <= MaxChunks
        BY DEF Types, QueueTypes
      <3>2. CASE v = w
        <4>1. response_mq'[v] = Tail(response_mq[w])
          BY <1>2, <1>3, <3>2 DEF Types, QueueTypes
        <4> HIDE DEF w
        <4> QED BY <1>4, <3>1, <3>2, <4>1, Constants
      <3>3. CASE v # w
        BY <1>3, <3>1, <3>3 DEF Types, QueueTypes
      <3> QED BY <3>2, <3>3
    <2> QED BY <1>3, <2>1, <2>2 DEF Types, QueueTypes
  <1> HIDE DEF h, w
  <1>6. WorkersTypes' /\ MonitorTypes'
    BY <1>3 DEF Types, WorkersTypes, MonitorTypes, workers, monitor
  <1>7. ~h.overflow => Takes(h)
    BY <1>1, <1>3 DEF Takes
  <1>8. EngineTypes' /\ FuturesOK'
    <2>1. CASE ~h.overflow
      BY <1>1, <1>4, <1>7, <2>1, CollectFutures
    <2>2. CASE h.overflow
      <3>1. e_pc' = "recv" /\ UNCHANGED <<fut, replies, e_cur>> /\ Waits'
        BY <1>3, <2>2 DEF Waits
      <3>2. Popped' = Popped /\ Asked(e_cur)' = Asked(e_cur)
        BY <1>3, <3>1 DEF Popped, Asked
      <3>3. EngineTypes'
        BY <1>1, <1>3, <3>1 DEF EngineTypes
      <3>4. FuturesOK'
        BY <1>1, <1>3, <3>1, <3>2 DEF FuturesOK
      <3> QED BY <3>3, <3>4
    <2> QED BY <2>1, <2>2
  <1> QED BY <1>1, <1>2, <1>3, <1>4, <1>5, <1>6, <1>7, <1>8 DEF Types, h, w

LEMMA RecvFutures ==
  ASSUME Types, FuturesOK, Recv
  PROVE /\ Types' /\ FuturesOK'
        /\ LET w == ReplyFrom(e_cur) IN
             /\ w \in Workers /\ local_socket[w] # <<>> /\ local_socket[w] \in Seq(Reply)
             /\ Head(local_socket[w]) \in Reply /\ Collecting /\ e_pc = "recv"
             /\ local_socket' = [local_socket EXCEPT ![w] = Tail(@)]
             /\ UNCHANGED <<calls, futures_queue, workers, response_mq>>
             /\ Takes(Head(local_socket[w]))
  <1> DEFINE w == ReplyFrom(e_cur)
             h == Head(local_socket[w])
  <1>1. Waits /\ Collecting /\ e_pc = "recv" /\ EngineTypes /\ Lengths
    BY GetLengths, IsCollecting DEF Recv, Types, Waits
  <1>2. /\ w \in Workers /\ local_socket[w] \in Seq(Reply) /\ sending[w] \in BOOLEAN
        /\ Arrived(w)
    BY <1>1 DEF Recv, Collecting, Types, QueueTypes
  <1>0. local_socket[w] # <<>> /\ (sending[w] => Len(local_socket[w]) > 1)
    <2>1. Len(<<>>) = 0 /\ Len(local_socket[w]) \in Nat
      BY <1>2
    <2> QED BY <1>2, <2>1 DEF Arrived
  <1>3. /\ local_socket' = [local_socket EXCEPT ![w] = Tail(@)]
        /\ UNCHANGED <<calls, futures_queue, batch_queue, e_call, e_target, workers,
                       response_mq, sending, monitor>>
        /\ Collect(h)
    BY DEF Recv
  <1>4. /\ h \in Reply /\ Tail(local_socket[w]) \in Seq(Reply)
        /\ Len(Tail(local_socket[w])) = Len(local_socket[w]) - 1 /\ Len(local_socket[w]) \in Nat
    BY <1>0, <1>2, HeadTail
  <1>5. QueueTypes'
    <2>1. local_socket' \in [Workers -> Seq(Reply)]
      BY <1>2, <1>3, <1>4 DEF Types, QueueTypes
    <2>2. ASSUME NEW v \in Workers, sending[v] PROVE local_socket'[v] # <<>>
      <3>1. local_socket[v] # <<>>
        BY <2>2 DEF Types, QueueTypes
      <3>2. CASE v = w
        <4>1. local_socket'[v] = Tail(local_socket[w])
          BY <1>2, <1>3, <3>2 DEF Types, QueueTypes
        <4>2. Len(local_socket'[v]) > 0 /\ Len(<<>>) = 0
          BY <1>0, <1>4, <2>2, <3>2, <4>1
        <4> QED BY <4>2
      <3>3. CASE v # w
        BY <1>3, <3>1, <3>3 DEF Types, QueueTypes
      <3> QED BY <3>2, <3>3
    <2> QED BY <1>3, <2>1, <2>2 DEF Types, QueueTypes
  <1> HIDE DEF h, w
  <1>6. WorkersTypes' /\ MonitorTypes'
    BY <1>3 DEF Types, WorkersTypes, MonitorTypes, workers, monitor
  <1>7. Takes(h)
    BY <1>1, <1>3 DEF Takes
  <1>8. EngineTypes' /\ FuturesOK'
    BY <1>1, <1>4, <1>7, CollectFutures
  <1> QED BY <1>0, <1>1, <1>2, <1>3, <1>4, <1>5, <1>6, <1>7, <1>8 DEF Types, h, w

(* An exception instead of a reply.                                         *)
LEMMA FailFutures ==
  ASSUME Types, FuturesOK, DequeueTimeout \/ DequeueCancelled
  PROVE /\ Types' /\ FuturesOK' /\ fut'[e_cur] = "failed" /\ e_cur \in 1 .. Len(calls)
        /\ UNCHANGED <<calls, replies>> /\ e_pc' = "result"
        /\ \A k \in 1 .. Len(calls) : k # e_cur => fut'[k] = fut[k]
  <1>1. /\ Waits /\ FutureEnds("failed")
        /\ UNCHANGED <<calls, replies, futures_queue, batch_queue, e_call, e_target,
                       workers, response, monitor>>
    BY DEF DequeueTimeout, DequeueCancelled, Waits
  <1>2. EngineTypes /\ Lengths /\ Collecting /\ replies \in Seq(Seq(1 .. MaxCalls))
    BY <1>1, GetLengths, IsCollecting DEF Types, EngineTypes
  <1>3. /\ EngineTypes' /\ FuturesOK' /\ e_pc' = "result"
        /\ \A k \in 1 .. Len(calls) : fut'[k] = IF k = e_cur THEN "failed" ELSE fut[k]
    BY <1>1, <1>2, EndsFutures
  <1>4. Types'
    BY <1>1, <1>3 DEF Types, WorkersTypes, QueueTypes, MonitorTypes, workers, response, monitor
  <1> QED BY <1>1, <1>2, <1>3, <1>4 DEF Collecting

(* What a worker leaves alone.                                              *)
EngineState == <<calls, fut, replies, futures_queue, batch_queue, engine>>

LEMMA SameFutures ==
  ASSUME FuturesOK, UNCHANGED EngineState
  PROVE FuturesOK' /\ Popped' = Popped /\ (Waits' <=> Waits)
  BY DEF FuturesOK, EngineState, Popped, Asked, engine, Waits

LEMMA SameEngine ==
  ASSUME EngineTypes, UNCHANGED EngineState
  PROVE EngineTypes'
  BY DEF EngineTypes, EngineState, engine

LEMMA WorkerTypes ==
  ASSUME Types, FuturesOK, NEW w \in Workers, NEW ok \in BOOLEAN, worker_busy_loop(w, ok)
  PROVE Types' /\ FuturesOK' /\ UNCHANGED EngineState
  <1>1. Lengths
    BY GetLengths DEF Types
  <1>2. /\ UNCHANGED EngineState /\ UNCHANGED <<alive, response, monitor>>
        /\ w_pos[w] < Len(calls) /\ w_pos' = [w_pos EXCEPT ![w] = w_pos[w] + 1]
    BY DEF worker_busy_loop, WorkerRound, EngineState
  <1>3. /\ w_pos[w] + 1 \in 1 .. Len(calls)
        /\ w_pos' \in [Workers -> 0 .. Len(calls)]
        /\ \A v \in Workers : Len(calls) - w_pos'[v] <= MaxChunks
    BY <1>1, <1>2, Constants DEF Types, WorkersTypes, Lengths
  <1>4. PICK m \in Reply : m = [call |-> w_pos[w] + 1, ok |-> ok, overflow |-> FALSE]
    <2>1. w_pos[w] + 1 \in 1 .. MaxCalls
      BY <1>1, <1>3, Constants DEF Lengths, Types, EngineTypes
    <2> QED BY <2>1 DEF Reply
  <1>5. outputs' \in [Workers -> Seq(Reply)]
    <2>1. outputs \in [Workers -> Seq(Reply)]
      BY DEF Types, WorkersTypes
    <2>2. Append(outputs[w], m) \in Seq(Reply)
      BY <2>1, Appended
    <2>3. \/ outputs' = outputs
          \/ outputs' = [outputs EXCEPT ![w] = Append(outputs[w], m)]
      BY <1>4 DEF worker_busy_loop, WorkerRound
    <2> QED BY <2>1, <2>2, <2>3
  <1>6. WorkersTypes'
    BY <1>2, <1>3, <1>5 DEF Types, WorkersTypes, EngineState
  <1>7. QueueTypes' /\ MonitorTypes'
    BY <1>2 DEF Types, QueueTypes, MonitorTypes, response, monitor
  <1> QED BY <1>2, <1>6, <1>7, SameFutures, SameEngine DEF Types

(* What enqueue_output puts on the ring and, if it is large, on the socket. *)
Put(w, m) ==
  /\ m \in Reply /\ m.call = Head(outputs[w]).call
  /\ outputs[w] # <<>> /\ outputs[w] \in Seq(Reply)
  /\ outputs' = [outputs EXCEPT ![w] = Tail(outputs[w])]
  /\ response_mq' = [response_mq EXCEPT ![w] = Append(response_mq[w], m)]
  /\ local_socket' = IF m.overflow
                     THEN [local_socket EXCEPT ![w] = Append(local_socket[w], m)]
                     ELSE local_socket

LEMMA OutputTypes ==
  ASSUME Types, FuturesOK, NEW w \in Workers, NEW overflow \in BOOLEAN,
         enqueue_output(w, overflow)
  PROVE /\ Types' /\ FuturesOK' /\ UNCHANGED EngineState /\ w_pos' = w_pos
        /\ \E m : Put(w, m)
  <1>1. /\ UNCHANGED EngineState /\ UNCHANGED <<alive, w_pos, monitor>>
        /\ outputs[w] # <<>> /\ Len(response_mq[w]) < MaxChunks
        /\ sending' = [sending EXCEPT ![w] = overflow]
    BY DEF enqueue_output, EngineState
  <1>2. /\ response_mq \in [Workers -> Seq(Reply)] /\ outputs \in [Workers -> Seq(Reply)]
        /\ local_socket \in [Workers -> Seq(Reply)] /\ sending \in [Workers -> BOOLEAN]
    BY DEF Types, QueueTypes, WorkersTypes
  <1>3. Head(outputs[w]) \in Reply /\ Tail(outputs[w]) \in Seq(Reply)
    BY <1>1, <1>2, HeadTail
  <1>4. PICK m \in Reply : /\ m = [Head(outputs[w]) EXCEPT !.overflow = overflow]
                           /\ m.call = Head(outputs[w]).call /\ m.overflow = overflow
    <2>1. ASSUME NEW h \in Reply
          PROVE /\ [h EXCEPT !.overflow = overflow] \in Reply
                /\ [h EXCEPT !.overflow = overflow].call = h.call
                /\ [h EXCEPT !.overflow = overflow].overflow = overflow
      BY DEF Reply
    <2> QED BY <1>3, <2>1
  <1>5. Put(w, m)
    BY <1>1, <1>2, <1>4 DEF Put, enqueue_output
  <1>6. /\ Append(response_mq[w], m) \in Seq(Reply)
        /\ Len(Append(response_mq[w], m)) = Len(response_mq[w]) + 1
        /\ Len(response_mq[w]) \in Nat
    BY <1>2, Appended
  <1>7. /\ Append(local_socket[w], m) \in Seq(Reply)
        /\ Len(Append(local_socket[w], m)) = Len(local_socket[w]) + 1
        /\ Len(local_socket[w]) \in Nat
    BY <1>2, Appended
  <1>8. WorkersTypes'
    BY <1>1, <1>2, <1>3, <1>5 DEF Types, WorkersTypes, EngineState, Put
  <1>9. QueueTypes'
    <2>1. response_mq' \in [Workers -> Seq(Reply)] /\ local_socket' \in [Workers -> Seq(Reply)]
      BY <1>2, <1>5, <1>6, <1>7 DEF Put
    <2>2. sending' \in [Workers -> BOOLEAN]
      BY <1>1, <1>2
    <2>3. ASSUME NEW v \in Workers PROVE Len(response_mq'[v]) <= MaxChunks
      <3>1. CASE v = w
        <4>1. response_mq'[v] = Append(response_mq[w], m)
          BY <1>2, <1>5, <3>1 DEF Put
        <4> QED BY <1>1, <1>6, <4>1, Constants
      <3>2. CASE v # w
        <4>1. response_mq'[v] = response_mq[v]
          BY <1>2, <1>5, <3>2 DEF Put
        <4> QED BY <4>1 DEF Types, QueueTypes
      <3> QED BY <3>1, <3>2
    <2>4. ASSUME NEW v \in Workers, sending'[v] PROVE local_socket'[v] # <<>>
      <3>1. CASE v = w
        <4>1. m.overflow
          BY <1>1, <1>2, <1>4, <2>4, <3>1
        <4>2. local_socket'[v] = Append(local_socket[w], m)
          BY <1>2, <1>5, <3>1, <4>1 DEF Put
        <4>3. Len(local_socket'[v]) > 0 /\ Len(<<>>) = 0
          BY <1>7, <4>2
        <4> QED BY <4>3
      <3>2. CASE v # w
        <4>1. local_socket'[v] = local_socket[v] /\ sending'[v] = sending[v]
          BY <1>1, <1>2, <1>5, <3>2 DEF Put
        <4> QED BY <2>4, <4>1 DEF Types, QueueTypes
      <3> QED BY <3>1, <3>2
    <2> QED BY <2>1, <2>2, <2>3, <2>4 DEF QueueTypes
  <1>10. MonitorTypes'
    BY <1>1 DEF Types, MonitorTypes, monitor
  <1> QED BY <1>1, <1>5, <1>8, <1>9, <1>10, SameFutures, SameEngine DEF Types

(* The actions that touch neither replies nor the futures that wait.        *)
Aside ==
  \/ collective_rpc_refused \/ TakeBatch \/ ReturnResult \/ HandleExecutorFailed
  \/ (\E c \in Methods : collective_rpc(c))
  \/ Monitor \/ (\E w \in Workers : SendPayload(w) \/ WorkerDies(w))
  \/ UNCHANGED vars

LEMMA AsideTypes ==
  ASSUME Types, FuturesOK, Aside
  PROVE /\ Types' /\ FuturesOK' /\ Popped' = Popped
        /\ UNCHANGED <<calls, fut, replies, futures_queue, e_cur, w_pos,
                       outputs, response_mq, local_socket>>
        /\ (Waits' => Waits) /\ (e_pc' = "recv" <=> e_pc = "recv")
  <1>1. CASE collective_rpc_refused \/ HandleExecutorFailed \/ ReturnResult
    <2>1. /\ UNCHANGED <<calls, fut, replies, futures_queue, batch_queue, e_call, e_cur,
                         workers, response, monitor>>
          /\ e_pc \in {"idle", "result"} /\ e_pc' \in {"idle", "dead"}
          /\ e_target' \in {0, e_target}
      BY <1>1 DEF collective_rpc_refused, HandleExecutorFailed, ReturnResult
    <2>2. EngineTypes'
      BY <2>1 DEF Types, EngineTypes
    <2>3. WorkersTypes' /\ QueueTypes' /\ MonitorTypes'
      BY <2>1 DEF Types, WorkersTypes, QueueTypes, MonitorTypes, workers, response, monitor
    <2>4. FuturesOK' /\ Popped' = Popped /\ (Waits' => Waits) /\ (e_pc' = "recv" <=> e_pc = "recv")
      BY <2>1 DEF FuturesOK, Popped, Asked, Waits
    <2> QED BY <2>1, <2>2, <2>3, <2>4 DEF Types, workers, response
  <1>2. CASE TakeBatch
    <2>1. /\ UNCHANGED <<calls, fut, replies, futures_queue, e_call, e_cur, workers,
                         response, monitor>>
          /\ e_pc = "idle" /\ e_pc' = "result"
          /\ batch_queue # <<>> /\ batch_queue' = Tail(batch_queue)
          /\ e_target' = Head(batch_queue)
      BY <1>2 DEF TakeBatch
    <2>2. batch_queue \in Seq(1 .. Len(calls)) /\ Len(batch_queue) <= BatchQueueSize
      BY DEF Types, EngineTypes
    <2>3. /\ batch_queue' \in Seq(1 .. Len(calls)) /\ e_target' \in 1 .. Len(calls)
          /\ Len(batch_queue') = Len(batch_queue) - 1 /\ Len(batch_queue) \in Nat
      BY <2>1, <2>2, HeadTail
    <2>4. Len(batch_queue') <= BatchQueueSize /\ e_target' \in 0 .. Len(calls) /\ e_target' > 0
      BY <2>2, <2>3, Constants
    <2>5. EngineTypes'
      BY <2>1, <2>3, <2>4 DEF Types, EngineTypes
    <2>6. WorkersTypes' /\ QueueTypes' /\ MonitorTypes'
      BY <2>1 DEF Types, WorkersTypes, QueueTypes, MonitorTypes, workers, response, monitor
    <2>7. FuturesOK' /\ Popped' = Popped /\ (Waits' => Waits) /\ (e_pc' = "recv" <=> e_pc = "recv")
      BY <2>1, <2>4 DEF FuturesOK, Popped, Asked, Waits
    <2> QED BY <2>1, <2>5, <2>6, <2>7 DEF Types, workers, response
  <1>3. CASE \/ Monitor \/ (\E w \in Workers : SendPayload(w) \/ WorkerDies(w))
             \/ UNCHANGED vars
    <2>1. /\ UNCHANGED EngineState
          /\ UNCHANGED <<w_pos, outputs, response_mq, local_socket>>
          /\ alive' \in [Workers -> BOOLEAN] /\ sending' \in [Workers -> BOOLEAN]
          /\ \A w \in Workers : sending'[w] => sending[w]
      BY <1>3 DEF Monitor, MonitorNotices, MonitorShutdown, FailureCallback, WorkerDies,
         SendPayload, vars, EngineState, workers, response, Types, WorkersTypes, QueueTypes
    <2>2. MonitorTypes'
      BY <1>3 DEF Monitor, MonitorNotices, MonitorShutdown, FailureCallback, WorkerDies,
         SendPayload, vars, monitor, Types, MonitorTypes
    <2>3. WorkersTypes'
      BY <2>1 DEF Types, WorkersTypes, EngineState
    <2>4. QueueTypes'
      BY <2>1 DEF Types, QueueTypes
    <2>5. e_pc' = e_pc /\ UNCHANGED <<calls, fut, replies, futures_queue, e_cur>>
      BY <2>1 DEF EngineState, engine
    <2> QED BY <2>1, <2>2, <2>3, <2>4, <2>5, SameFutures, SameEngine DEF Types
  <1>4. CASE \E c \in Methods : collective_rpc(c)
    <2>1. PICK c \in Methods : collective_rpc(c)
      BY <1>4
    <2>2. e_pc' = "enqueue" /\ e_pc = "idle" /\ UNCHANGED futures_queue
      BY <2>1 DEF collective_rpc
    <2> QED BY <2>1, <2>2, RpcFutures DEF workers, response
  <1> QED BY <1>1, <1>2, <1>3, <1>4 DEF Aside

-----------------------------------------------------------------------------
(* The replies                                                              *)

LEMMA KeepOnTheirWay ==
  ASSUME NEW w \in Workers, OnTheirWay(w), w_pos[w] \in 0 .. Len(calls),
         response_mq'[w] = response_mq[w], outputs'[w] = outputs[w],
         w_pos'[w] = w_pos[w],
         \A k \in 1 .. Len(calls) :
           calls'[k] = calls[k] /\ (Unread(w, k)' <=> Unread(w, k)),
         \A k \in 1 .. Len(calls') : k \in 1 .. Len(calls) \/ Unread(w, k)'
                                       \/ calls'[k].output_rank \notin {All, w}
  PROVE OnTheirWay(w)'
  <1>1. 1 .. w_pos[w] \subseteq 1 .. Len(calls)
    OBVIOUS
  <1>2. {k \in 1 .. w_pos'[w] : Unread(w, k)'} = {k \in 1 .. w_pos[w] : Unread(w, k)}
    BY <1>1
  <1>3. ASSUME NEW k \in 1 .. Len(calls'), calls'[k].output_rank \in {All, w},
               ~Unread(w, k)'
        PROVE k <= w_pos'[w]
    <2>1. k \in 1 .. Len(calls)
      BY <1>3
    <2> QED BY <1>3, <2>1 DEF OnTheirWay
  <1> QED BY <1>2, <1>3 DEF OnTheirWay

LEMMA KeepPayloads ==
  ASSUME NEW w \in Workers, Payloads(w), response_mq'[w] = response_mq[w],
         local_socket'[w] = local_socket[w], InRecv(w)' <=> InRecv(w),
         InRecv(w) => e_cur' = e_cur
  PROVE Payloads(w)'
  <1>1. (IF InRecv(w) THEN {e_cur} ELSE {})' = IF InRecv(w) THEN {e_cur} ELSE {}
    OBVIOUS
  <1> QED BY <1>1 DEF Payloads

LEMMA EnqueueReplies ==
  ASSUME Inv, Enqueue
  PROVE Inv'
  <1>1. /\ Types' /\ FuturesOK' /\ Popped' = Popped /\ Len(calls') = Len(calls) + 1
        /\ \A k \in 1 .. Len(calls) :
             calls'[k] = calls[k] /\ fut'[k] = fut[k] /\ replies'[k] = replies[k]
        /\ fut'[Len(calls) + 1] = "pending"
        /\ UNCHANGED <<e_cur, workers, response>> /\ ~Waits /\ ~Waits'
    BY EnqueueFutures DEF Inv
  <1>2. Lengths /\ 1 .. Len(calls') = (1 .. Len(calls)) \union {Len(calls) + 1}
    BY <1>1, GetLengths DEF Inv, Types, Lengths
  <1>3. RepliesOK'
    <2> SUFFICES ASSUME NoFailure', NEW w \in Workers PROVE OnTheirWay(w)' /\ Payloads(w)'
      BY DEF RepliesOK
    <2>1. NoFailure
      BY <1>1, <1>2 DEF NoFailure
    <2>2. OnTheirWay(w) /\ Payloads(w) /\ w_pos[w] \in 0 .. Len(calls)
      BY <2>1 DEF Inv, RepliesOK, Types, WorkersTypes
    <2>5. ~InRecv(w) /\ ~InRecv(w)'
      BY <1>1 DEF InRecv, Waits
    <2>3. \A k \in 1 .. Len(calls) : Unread(w, k)' <=> Unread(w, k)
      BY <1>1, <2>5 DEF Unread
    <2>4. ASSUME NEW k \in 1 .. Len(calls'), k \notin 1 .. Len(calls)
          PROVE Unread(w, k)' \/ calls'[k].output_rank \notin {All, w}
      <3>1. k > Popped'
        BY <1>1, <1>2, <2>4 DEF Popped, Lengths
      <3> QED BY <3>1 DEF Unread
    <2>6. response_mq'[w] = response_mq[w] /\ outputs'[w] = outputs[w] /\ w_pos'[w] = w_pos[w]
          /\ local_socket'[w] = local_socket[w]
      BY <1>1 DEF workers, response
    <2>7. OnTheirWay(w)'
      BY <1>1, <2>2, <2>3, <2>4, <2>6, KeepOnTheirWay
    <2> QED BY <2>2, <2>5, <2>6, <2>7, KeepPayloads
  <1>4. PartsOwn'
    BY <1>1 DEF PartsOwn
  <1>5. OwnReplies'
    <2> SUFFICES ASSUME NEW k \in 1 .. Len(calls'), fut'[k] = "done",
                        \A j \in 1 .. k : fut'[j] # "failed"
                 PROVE Own(k)'
      BY DEF OwnReplies
    <2>1. k \in 1 .. Len(calls)
      BY <1>1, <1>2
    <2>2. Own(k)
      <3>1. \A j \in 1 .. k : j \in 1 .. Len(calls)
        BY <1>2, <2>1 DEF Lengths
      <3> QED BY <1>1, <2>1, <3>1 DEF Inv, OwnReplies
    <2> QED BY <1>1, <2>1, <2>2 DEF Own, Asked
  <1> QED BY <1>1, <1>3, <1>4, <1>5 DEF Inv

LEMMA DrainReplies ==
  ASSUME Inv, DrainFuture
  PROVE Inv'
  <1>1. /\ Types' /\ FuturesOK' /\ Popped' = Popped + 1 /\ e_cur = 0 /\ e_cur' = Popped'
        /\ UNCHANGED <<calls, fut, replies, workers, response>>
        /\ e_cur' \in 1 .. Len(calls) /\ replies[e_cur'] = <<>>
        /\ e_pc = "result" /\ e_pc' = "dequeue"
    BY DrainFutures DEF Inv
  <1>2. Lengths
    BY GetLengths DEF Inv, Types
  <1>3. RepliesOK'
    <2> SUFFICES ASSUME NoFailure', NEW w \in Workers PROVE OnTheirWay(w)' /\ Payloads(w)'
      BY DEF RepliesOK
    <2>2. OnTheirWay(w) /\ Payloads(w) /\ w_pos[w] \in 0 .. Len(calls)
      BY <1>1 DEF Inv, RepliesOK, Types, WorkersTypes, NoFailure
    <2>5. ~InRecv(w) /\ ~InRecv(w)'
      BY <1>1 DEF InRecv
    <2>3. ASSUME NEW k \in 1 .. Len(calls) PROVE Unread(w, k)' <=> Unread(w, k)
      <3>1. Len(replies[e_cur']) = 0 /\ w > 0 /\ w \in Nat
        BY <1>1, Constants DEF Workers
      <3>2. k > Popped <=> k > Popped + 1 \/ k = Popped + 1
        BY <1>2 DEF Lengths
      <3>3. k # 0
        OBVIOUS
      <3> QED BY <1>1, <2>5, <3>1, <3>2, <3>3 DEF Unread
    <2>6. response_mq'[w] = response_mq[w] /\ outputs'[w] = outputs[w] /\ w_pos'[w] = w_pos[w]
          /\ local_socket'[w] = local_socket[w]
      BY <1>1 DEF workers, response
    <2>7. OnTheirWay(w)'
      BY <1>1, <2>2, <2>3, <2>6, KeepOnTheirWay
    <2> QED BY <2>2, <2>5, <2>6, <2>7, KeepPayloads
  <1>4. PartsOwn'
    <2>1. Len(replies'[e_cur']) = 0
      BY <1>1
    <2> QED BY <2>1 DEF PartsOwn
  <1>5. OwnReplies'
    BY <1>1 DEF Inv, OwnReplies, Own, Asked
  <1> QED BY <1>1, <1>3, <1>4, <1>5 DEF Inv

(* A future that fails: nothing is claimed from there on.                   *)
LEMMA FailOwn ==
  ASSUME Inv, Types', FuturesOK', fut'[e_cur] = "failed", e_cur \in 1 .. Len(calls),
         UNCHANGED <<calls, replies>>, e_pc' = "result",
         \A k \in 1 .. Len(calls) : k # e_cur => fut'[k] = fut[k]
  PROVE Inv'
  <1>2. ~NoFailure'
    BY DEF NoFailure
  <1>3. OwnReplies'
    <2> SUFFICES ASSUME NEW k \in 1 .. Len(calls), fut'[k] = "done",
                        \A j \in 1 .. k : fut'[j] # "failed"
                 PROVE Own(k)'
      BY DEF OwnReplies
    <2>1. e_cur \notin 1 .. k
      OBVIOUS
    <2>2. \A j \in 1 .. k : fut[j] # "failed"
      <3>1. \A j \in 1 .. k : j \in 1 .. Len(calls) /\ j # e_cur
        BY <2>1, GetLengths DEF Inv, Types, Lengths
      <3> QED BY <3>1
    <2>3. fut[k] = "done"
      OBVIOUS
    <2> QED BY <2>2, <2>3 DEF Inv, OwnReplies, Own, Asked
  <1> QED BY <1>2, <1>3 DEF Inv, RepliesOK, PartsOwn

LEMMA FailReplies ==
  ASSUME Inv, DequeueTimeout \/ DequeueCancelled
  PROVE Inv'
  BY FailFutures, FailOwn DEF Inv

LEMMA AsideReplies ==
  ASSUME Inv, Aside
  PROVE Inv'
  <1>1. /\ Types' /\ FuturesOK' /\ Popped' = Popped
        /\ UNCHANGED <<calls, fut, replies, futures_queue, e_cur, w_pos,
                       outputs, response_mq, local_socket>>
        /\ (Waits' => Waits) /\ (e_pc' = "recv" <=> e_pc = "recv")
    BY AsideTypes DEF Inv
  <1>2. RepliesOK'
    <2> SUFFICES ASSUME NoFailure', NEW w \in Workers PROVE OnTheirWay(w)' /\ Payloads(w)'
      BY DEF RepliesOK
    <2>1. OnTheirWay(w) /\ Payloads(w) /\ w_pos[w] \in 0 .. Len(calls)
      BY <1>1 DEF Inv, RepliesOK, Types, WorkersTypes, NoFailure
    <2>3. InRecv(w)' <=> InRecv(w)
      BY <1>1 DEF InRecv, ReplyFrom
    <2>2. \A k \in 1 .. Len(calls) : Unread(w, k)' <=> Unread(w, k)
      BY <1>1, <2>3 DEF Unread
    <2>4. OnTheirWay(w)'
      BY <1>1, <2>1, <2>2, KeepOnTheirWay
    <2> QED BY <1>1, <2>1, <2>3, <2>4, KeepPayloads
  <1>3. PartsOwn' /\ OwnReplies'
    BY <1>1 DEF Inv, PartsOwn, NoFailure, OwnReplies, Own, Asked
  <1> QED BY <1>1, <1>2, <1>3 DEF Inv

LEMMA WorkerReplies ==
  ASSUME Inv, NEW w \in Workers, NEW ok \in BOOLEAN, worker_busy_loop(w, ok)
  PROVE Inv'
  <1>1. Types' /\ FuturesOK' /\ UNCHANGED EngineState
    BY WorkerTypes DEF Inv
  <1>2. PartsOwn' /\ OwnReplies'
    BY <1>1 DEF Inv, PartsOwn, NoFailure, OwnReplies, Own, Asked, EngineState, engine, Waits
  <1>3. RepliesOK'
    <2> SUFFICES ASSUME NoFailure', NEW v \in Workers PROVE OnTheirWay(v)' /\ Payloads(v)'
      BY DEF RepliesOK
    <2>1. /\ OnTheirWay(v) /\ Payloads(v) /\ w_pos[v] \in 0 .. Len(calls) /\ Lengths
          /\ response_mq[v] \in Seq(Reply) /\ outputs[v] \in Seq(Reply)
      BY <1>1, GetLengths DEF Inv, RepliesOK, Types, WorkersTypes, QueueTypes, NoFailure,
         EngineState
    <2>0. /\ UNCHANGED response /\ calls' = calls /\ e_cur' = e_cur /\ Popped' = Popped
          /\ (InRecv(v)' <=> InRecv(v))
      BY <1>1 DEF worker_busy_loop, WorkerRound, EngineState, engine, Popped, InRecv, ReplyFrom
    <2>2. \A k \in 1 .. Len(calls) : Unread(v, k)' <=> Unread(v, k)
      BY <1>1, <2>0 DEF Unread, EngineState
    <2>5. Payloads(v)'
      BY <2>0, <2>1, KeepPayloads DEF response
    <2>3. CASE v # w
      <3>1. response_mq'[v] = response_mq[v] /\ w_pos'[v] = w_pos[v] /\ outputs'[v] = outputs[v]
        BY <2>0, <2>3 DEF worker_busy_loop, WorkerRound, Inv, Types, WorkersTypes, response
      <3> QED BY <2>0, <2>1, <2>2, <2>5, <3>1, KeepOnTheirWay
    <2>4. CASE v = w
      <3> DEFINE n == w_pos[w] + 1
                 R == response_mq[w]
                 A == outputs[w]
      <3>1. /\ n \in 1 .. Len(calls) /\ w_pos'[w] = n
            /\ 1 .. n = (1 .. w_pos[w]) \union {n} /\ w_pos[w] \in Nat
        <4>1. w_pos \in [Workers -> 0 .. Len(calls)] /\ Len(calls) \in Nat
          BY <2>1 DEF Inv, Types, WorkersTypes, Lengths
        <4>2. w_pos[w] < Len(calls) /\ w_pos' = [w_pos EXCEPT ![w] = n]
          BY DEF worker_busy_loop, WorkerRound
        <4> QED BY <4>1, <4>2
      <3>2. \A k \in Answered(R) \union Answered(A) : k \in 1 .. w_pos[w] /\ k < n
        BY <2>1, <2>4, <3>1 DEF OnTheirWay
      <3>5. {k \in 1 .. n : Unread(w, k)} = {k \in 1 .. n : Unread(w, k)'}
        BY <2>1, <2>2, <2>4, <3>1 DEF Lengths
      <3>6. \A k \in 1 .. Len(calls) :
              calls[k].output_rank \in {All, w} /\ ~Unread(w, k)' => k <= n
        <4>1. \A k \in 1 .. Len(calls) :
                calls[k].output_rank \in {All, w} /\ ~Unread(w, k) => k <= w_pos[w]
          BY <2>1, <2>4 DEF OnTheirWay
        <4> QED BY <2>2, <2>4, <3>1, <4>1
      <3>7. Increasing(R) /\ Increasing(A) /\ R = response_mq'[w]
        BY <2>0, <2>1, <2>4 DEF OnTheirWay, response
      <3>3. CASE calls[n].output_rank \in {All, w}
        <4>1. Unread(w, n)
          BY <2>1, <2>4, <3>1, <3>3 DEF OnTheirWay
        <4>2. {k \in 1 .. n : Unread(w, k)} = {k \in 1 .. w_pos[w] : Unread(w, k)} \union {n}
          BY <3>1, <4>1
        <4>3. PICK m \in Reply : m = [call |-> n, ok |-> ok, overflow |-> FALSE]
          <5>1. n \in 1 .. MaxCalls
            <6>1. Len(calls) \in Nat /\ Len(calls) <= MaxCalls /\ MaxCalls \in Nat
              BY Constants DEF Inv, Types, EngineTypes
            <6> QED BY <3>1, <6>1
          <5> QED BY <5>1 DEF Reply
        <4>4. m.call = n
          BY <4>3
        <4>5. outputs'[w] = Append(A, m)
          BY <3>3, <4>3 DEF worker_busy_loop, WorkerRound, Inv, Types, WorkersTypes
        <4>6. Increasing(Append(A, m)) /\ Answered(Append(A, m)) = Answered(A) \union {n}
          BY <2>1, <2>4, <3>2, <3>7, <4>4, AnswerAppend
        <4> HIDE DEF n, R, A
        <4>7. \A i \in Answered(R), j \in Answered(A) \union {n} : i < j
          BY <2>1, <2>4, <3>2 DEF OnTheirWay, R, A
        <4>8. Answered(R) \union (Answered(A) \union {n}) = {k \in 1 .. n : Unread(w, k)}
          BY <2>1, <2>4, <4>2 DEF OnTheirWay, R, A
        <4> QED BY <2>0, <2>4, <2>5, <3>1, <3>5, <3>6, <3>7, <4>5, <4>6, <4>7, <4>8
               DEF OnTheirWay
      <3>4. CASE calls[n].output_rank \notin {All, w}
        <4>1. outputs'[w] = A
          BY <3>4 DEF worker_busy_loop, WorkerRound
        <4>2. ~Unread(w, n)
          BY <3>4 DEF Unread
        <4>3. {k \in 1 .. n : Unread(w, k)'} = {k \in 1 .. w_pos[w] : Unread(w, k)}
          BY <3>1, <3>5, <4>2
        <4> HIDE DEF n, R, A
        <4>4. /\ \A i \in Answered(R), j \in Answered(A) : i < j
              /\ Answered(R) \union Answered(A) = {k \in 1 .. w_pos[w] : Unread(w, k)}
          BY <2>1, <2>4 DEF OnTheirWay, R, A
        <4> QED BY <2>0, <2>4, <2>5, <3>1, <3>6, <3>7, <4>1, <4>3, <4>4 DEF OnTheirWay
      <3> QED BY <3>3, <3>4
    <2> QED BY <2>3, <2>4
  <1> QED BY <1>1, <1>2, <1>3 DEF Inv

LEMMA OutputReplies ==
  ASSUME Inv, NEW w \in Workers, NEW overflow \in BOOLEAN, enqueue_output(w, overflow)
  PROVE Inv'
  <1>1. /\ Types' /\ FuturesOK' /\ UNCHANGED EngineState /\ w_pos' = w_pos
        /\ \E m : Put(w, m)
    BY OutputTypes DEF Inv
  <1>2. PartsOwn' /\ OwnReplies'
    BY <1>1 DEF Inv, PartsOwn, NoFailure, OwnReplies, Own, Asked, EngineState, engine, Waits
  <1>3. PICK m : Put(w, m)
    BY <1>1
  <1>4. RepliesOK'
    <2> SUFFICES ASSUME NoFailure', NEW v \in Workers PROVE OnTheirWay(v)' /\ Payloads(v)'
      BY DEF RepliesOK
    <2>1. /\ OnTheirWay(v) /\ Payloads(v) /\ w_pos[v] \in 0 .. Len(calls)
          /\ response_mq[v] \in Seq(Reply) /\ outputs[v] \in Seq(Reply)
          /\ local_socket[v] \in Seq(Reply) /\ Lengths
      BY <1>1, GetLengths DEF Inv, RepliesOK, Types, WorkersTypes, QueueTypes, NoFailure,
         EngineState
    <2>0. /\ calls' = calls /\ e_cur' = e_cur /\ Popped' = Popped
          /\ (InRecv(v)' <=> InRecv(v))
      BY <1>1 DEF EngineState, engine, Popped, InRecv, ReplyFrom
    <2>2. \A k \in 1 .. Len(calls) : Unread(v, k)' <=> Unread(v, k)
      BY <1>1, <2>0 DEF Unread, EngineState
    <2>3. CASE v # w
      <3>1. /\ response_mq'[v] = response_mq[v] /\ outputs'[v] = outputs[v]
            /\ local_socket'[v] = local_socket[v]
        BY <1>3, <2>3 DEF Put, Inv, Types, WorkersTypes, QueueTypes
      <3>2. OnTheirWay(v)'
        BY <1>1, <2>0, <2>1, <2>2, <3>1, KeepOnTheirWay
      <3> QED BY <2>0, <2>1, <3>1, <3>2, KeepPayloads
    <2>4. CASE v = w
      <3> DEFINE R == response_mq[w]
                 A == outputs[w]
                 S == local_socket[w]
      <3>1. m \in Reply /\ A # <<>> /\ m.call = Head(A).call /\ m.overflow \in BOOLEAN
        BY <1>3 DEF Put, Reply
      <3>3. /\ response_mq'[w] = Append(R, m) /\ outputs'[w] = Tail(A)
            /\ local_socket'[w] = IF m.overflow THEN Append(S, m) ELSE S
        BY <1>3 DEF Put, Inv, Types, WorkersTypes, QueueTypes
      <3>4. /\ Increasing(Tail(A)) /\ m.call \in Answered(A)
            /\ Answered(Tail(A)) = Answered(A) \ {m.call}
            /\ \A k \in Answered(Tail(A)) : m.call < k
        BY <2>1, <2>4, <3>1, AnswerTail DEF OnTheirWay
      <3>5. /\ \A i \in Answered(R), j \in Answered(A) : i < j
            /\ Increasing(R)
        BY <2>1, <2>4 DEF OnTheirWay
      <3>6. \A k \in Answered(R) : k < m.call
        BY <3>4, <3>5
      <3>7. /\ Increasing(Append(R, m)) /\ Answered(Append(R, m)) = Answered(R) \union {m.call}
            /\ Marked(Append(R, m)) = Marked(R) \union (IF m.overflow THEN {m.call} ELSE {})
        BY <2>1, <2>4, <3>1, <3>5, <3>6, AnswerAppend
      <3>8. Answered(Append(R, m)) \union Answered(Tail(A)) = Answered(R) \union Answered(A)
        BY <3>4, <3>7
      <3>9. \A i \in Answered(Append(R, m)), j \in Answered(Tail(A)) : i < j
        BY <3>4, <3>5, <3>7
      <3>10. /\ Answered(R) \union Answered(A) = {k \in 1 .. w_pos[w] : Unread(w, k)}
             /\ \A k \in 1 .. Len(calls) :
                  calls[k].output_rank \in {All, w} /\ ~Unread(w, k) => k <= w_pos[w]
        BY <2>1, <2>4 DEF OnTheirWay
      <3>11. {k \in 1 .. w_pos[w] : Unread(w, k)} = {k \in 1 .. w_pos[w] : Unread(w, k)'}
        <4>1. \A k \in 1 .. w_pos[w] : k \in 1 .. Len(calls)
          BY <2>1, <2>4
        <4> QED BY <2>2, <2>4, <4>1
      <3>13. InRecv(w) => e_cur < m.call
        <4>1. SUFFICES ASSUME InRecv(w) PROVE e_cur < m.call
          OBVIOUS
        <4>2. Unread(w, m.call) /\ m.call \in Nat
          BY <2>1, <2>4, <3>4, <3>10
        <4>3. m.call > Popped
          BY <4>1, <4>2 DEF Unread
        <4>4. e_cur = Popped /\ Popped \in Nat
          BY <2>1, <4>1 DEF InRecv, Inv, FuturesOK, Waits, Lengths
        <4> QED BY <4>2, <4>3, <4>4
      <3>14. Payloads(w)'
        <4>0. /\ Increasing(S)
              /\ Answered(S) = Marked(R) \union (IF InRecv(w) THEN {e_cur} ELSE {})
          BY <2>1, <2>4 DEF Payloads
        <4>1. (InRecv(w)' <=> InRecv(w)) /\ e_cur' = e_cur
          BY <2>0, <2>4
        <4>2. CASE ~m.overflow
          BY <3>3, <3>7, <4>0, <4>1, <4>2 DEF Payloads
        <4>3. CASE m.overflow
          <5>1. \A k \in Answered(S) : k < m.call
            BY <3>6, <3>13, <4>0, MarkedAnswered
          <5>2. /\ Increasing(Append(S, m))
                /\ Answered(Append(S, m)) = Answered(S) \union {m.call}
            BY <2>1, <2>4, <3>1, <4>0, <5>1, AnswerAppend
          <5> HIDE DEF S, R
          <5>3. Answered(Append(S, m)) =
                  Marked(Append(R, m)) \union (IF InRecv(w) THEN {e_cur} ELSE {})
            BY <3>7, <4>0, <4>3, <5>2
          <5> QED BY <3>3, <4>1, <4>3, <5>2, <5>3 DEF Payloads
        <4> QED BY <3>1, <4>2, <4>3
      <3> HIDE DEF R, A, S
      <3>15. OnTheirWay(w)'
        BY <1>1, <2>0, <2>1, <2>2, <2>4, <3>3, <3>4, <3>7, <3>8, <3>9, <3>10, <3>11 DEF OnTheirWay
      <3> QED BY <2>4, <3>14, <3>15
    <2> QED BY <2>3, <2>4
  <1> QED BY <1>1, <1>2, <1>4 DEF Inv

(* The reply or the marker that get_response reads is for its call.         *)
LEMMA NextReplyIsOwn ==
  ASSUME Inv, NoFailure, e_pc = "dequeue", response_mq[ReplyFrom(e_cur)] # <<>>
  PROVE Head(response_mq[ReplyFrom(e_cur)]).call = e_cur
  <1> DEFINE w == ReplyFrom(e_cur)
             R == response_mq[w]
             A == outputs[w]
             h == Head(R).call
  <1>1. Lengths /\ Collecting /\ Waits
    BY GetLengths, IsCollecting DEF Inv, Types, Waits
  <1>2. /\ OnTheirWay(w) /\ w_pos[w] \in 0 .. Len(calls) /\ w \in Workers /\ w \in Nat
        /\ R \in Seq(Reply)
    BY <1>1, Constants DEF Inv, RepliesOK, Collecting, Types, WorkersTypes, QueueTypes
  <1>3. Unread(w, e_cur)
    BY <1>1, Constants DEF Unread, ReplyFrom, Collecting, Lengths, InRecv
  <1>4. /\ h \in Answered(R) /\ Answered(Tail(R)) = Answered(R) \ {h}
        /\ \A k \in Answered(Tail(R)) : h < k
    BY <1>1, <1>2, AnswerTail DEF OnTheirWay
  <1> HIDE DEF w, R, A, h
  <1>5. Answered(R) \union Answered(A) = {k \in 1 .. w_pos[w] : Unread(w, k)}
    BY <1>2 DEF OnTheirWay, R, A
  <1>6. h \in 1 .. w_pos[w] /\ Unread(w, h)
    BY <1>4, <1>5
  <1>7. h > e_cur \/ h = e_cur
    BY <1>1, <1>6 DEF Unread, Collecting
  <1>8. ASSUME h > e_cur PROVE FALSE
    <2>1. e_cur \in 1 .. w_pos[w]
      BY <1>1, <1>2, <1>6, <1>8 DEF Collecting, Lengths
    <2>2. e_cur \in Answered(R) \union Answered(A)
      BY <1>3, <1>5, <2>1
    <2>3. CASE e_cur \in Answered(A)
      <3>1. h < e_cur
        BY <1>2, <1>4, <2>3 DEF OnTheirWay, R, A
      <3> QED BY <1>1, <1>2, <1>6, <1>8, <3>1 DEF Collecting, Lengths
    <2>4. CASE e_cur \in Answered(R)
      <3>1. e_cur # h
        BY <1>1, <1>2, <1>6, <1>8 DEF Collecting, Lengths
      <3>2. h < e_cur
        BY <1>4, <2>4, <3>1
      <3> QED BY <1>1, <1>2, <1>6, <1>8, <3>2 DEF Collecting, Lengths
    <2> QED BY <2>2, <2>3, <2>4
  <1> QED BY <1>7, <1>8 DEF h, R, w

(* The payload that recv takes is for its call.                             *)
LEMMA NextPayloadIsOwn ==
  ASSUME Inv, NoFailure, e_pc = "recv", local_socket[ReplyFrom(e_cur)] # <<>>
  PROVE /\ Head(local_socket[ReplyFrom(e_cur)]).call = e_cur
        /\ e_cur \notin Marked(response_mq[ReplyFrom(e_cur)])
  <1> DEFINE w == ReplyFrom(e_cur)
             R == response_mq[w]
             S == local_socket[w]
             h == Head(S).call
  <1>1. Lengths /\ Collecting /\ Waits
    BY GetLengths, IsCollecting DEF Inv, Types, Waits
  <1>2. /\ OnTheirWay(w) /\ Payloads(w) /\ w \in Workers /\ S \in Seq(Reply) /\ InRecv(w)
    BY <1>1 DEF Inv, RepliesOK, Collecting, Types, QueueTypes, InRecv
  <1>3. ASSUME NEW k \in Marked(R) PROVE k > e_cur
    <2>1. Unread(w, k)
      BY <1>2, MarkedAnswered DEF OnTheirWay
    <2> QED BY <1>1, <1>2, <2>1 DEF Unread, Collecting
  <1>4. /\ h \in Answered(S) /\ Answered(Tail(S)) = Answered(S) \ {h}
        /\ \A k \in Answered(Tail(S)) : h < k
    BY <1>2, AnswerTail DEF Payloads
  <1>5. Answered(S) = Marked(R) \union {e_cur}
    BY <1>2 DEF Payloads
  <1>6. e_cur \in Nat /\ h \in Nat
    <2>1. Head(S) \in Reply
      BY <1>2, HeadTail
    <2> QED BY <1>1, <2>1 DEF Reply, Collecting
  <1> HIDE DEF w, R, S, h
  <1>7. h = e_cur
    <2>1. SUFFICES ASSUME h # e_cur PROVE FALSE
      OBVIOUS
    <2>2. h > e_cur
      BY <1>3, <1>4, <1>5, <2>1
    <2>3. h < e_cur
      BY <1>4, <1>5, <2>1
    <2> QED BY <1>6, <2>2, <2>3
  <1>8. e_cur \notin Marked(R)
    BY <1>3, <1>6
  <1> QED BY <1>7, <1>8 DEF h, w, R, S


(* get_response takes a FAILURE: the future fails.                          *)
LEMMA TakesFailure ==
  ASSUME Inv, NEW reply \in Reply, Takes(reply), ~reply.ok, Types', FuturesOK'
  PROVE Inv'
  <1>1. FutureEnds("failed") /\ UNCHANGED <<calls, replies>>
    BY DEF Takes, Collect
  <1>2. Lengths /\ Collecting
    BY GetLengths, IsCollecting DEF Inv, Types, Takes
  <1>3. /\ \A k \in 1 .. Len(calls) : fut'[k] = IF k = e_cur THEN "failed" ELSE fut[k]
        /\ e_pc' = "result"
    BY <1>1, <1>2 DEF FutureEnds, Inv, Types, EngineTypes, Lengths
  <1> QED BY <1>1, <1>2, <1>3, FailOwn DEF Collecting

(* get_response takes a reply to its own call.                              *)
LEMMA TakesOwn ==
  ASSUME Inv, NEW reply \in Reply, Takes(reply), reply.ok,
         NoFailure => reply.call = e_cur
  PROVE /\ PartsOwn' /\ OwnReplies' /\ (NoFailure' => NoFailure)
        /\ \A v \in Workers :
             /\ ~InRecv(v)'
             /\ \A k \in 1 .. Len(calls) :
                  Unread(v, k)' <=> Unread(v, k) /\ (v = ReplyFrom(e_cur) => k # e_cur)
  <1> DEFINE w == ReplyFrom(e_cur)
             c == reply.call
             more == Append(replies[e_cur], c)
  <1>1. Lengths /\ Collecting /\ Waits
    BY GetLengths, IsCollecting DEF Inv, Types, Takes
  <1>2. UNCHANGED <<calls, futures_queue>> /\ c \in 1 .. MaxCalls
    BY DEF Takes, Reply
  <1>3. Popped' = Popped /\ Popped \in Nat /\ e_cur = Popped
    BY <1>1, <1>2 DEF Popped, Collecting, Lengths
  <1>4. /\ replies' = [replies EXCEPT ![e_cur] = more]
        /\ IF Len(replies[e_cur]) + 1 = Asked(e_cur)
           THEN FutureEnds("done")
           ELSE e_pc' = "dequeue" /\ UNCHANGED <<fut, e_cur>>
    BY DEF Takes, Collect
  <1>5. /\ \A k \in 1 .. Len(calls) : k # e_cur => replies'[k] = replies[k]
        /\ replies'[e_cur] = more
        /\ more \in Seq(1 .. MaxCalls) /\ Len(more) = Len(replies[e_cur]) + 1
        /\ \A i \in 1 .. Len(replies[e_cur]) : more[i] = replies[e_cur][i]
        /\ more[Len(replies[e_cur]) + 1] = c
    <2>1. replies \in Seq(Seq(1 .. MaxCalls)) /\ e_cur \in 1 .. Len(replies)
      BY <1>1 DEF Inv, Types, EngineTypes, Collecting, Lengths
    <2>2. replies[e_cur] \in Seq(1 .. MaxCalls)
      BY <2>1
    <2>3. /\ more \in Seq(1 .. MaxCalls) /\ Len(more) = Len(replies[e_cur]) + 1
          /\ \A i \in 1 .. Len(replies[e_cur]) : more[i] = replies[e_cur][i]
          /\ more[Len(replies[e_cur]) + 1] = c
      BY <1>2, <2>2, Appended
    <2> HIDE DEF more
    <2> QED BY <1>1, <1>4, <2>1, <2>3 DEF Lengths
  <1>6. /\ \A k \in 1 .. Len(calls) : k # e_cur => fut'[k] = fut[k]
        /\ fut'[e_cur] = IF Len(replies[e_cur]) + 1 = Asked(e_cur) THEN "done" ELSE "pending"
    <2>1. /\ fut \in Seq({"pending", "done", "failed"}) /\ e_cur \in 1 .. Len(fut)
          /\ Len(fut) = Len(calls) /\ fut[e_cur] = "pending"
      BY <1>1 DEF Inv, Types, EngineTypes, Collecting
    <2>2. fut' = IF Len(replies[e_cur]) + 1 = Asked(e_cur)
                 THEN [fut EXCEPT ![e_cur] = "done"] ELSE fut
      BY <1>4 DEF FutureEnds
    <2> QED BY <2>1, <2>2
  <1>7. ASSUME NoFailure
        PROVE \A i \in 1 .. Len(replies[e_cur]) + 1 : more[i] = e_cur
    <2>1. c = e_cur
      BY <1>7
    <2>2. \A i \in 1 .. Len(replies[e_cur]) : replies[e_cur][i] = e_cur
      BY <1>1, <1>7 DEF Inv, PartsOwn
    <2>3. 1 .. Len(replies[e_cur]) + 1 =
            (1 .. Len(replies[e_cur])) \union {Len(replies[e_cur]) + 1}
      BY <1>1 DEF Lengths, Collecting
    <2> HIDE DEF more, c
    <2> QED BY <1>5, <2>1, <2>2, <2>3
  <1>8. NoFailure' => NoFailure
    BY <1>1, <1>2, <1>6 DEF NoFailure, Collecting
  <1> HIDE DEF more, c
  <1>9. PartsOwn'
    <2> SUFFICES ASSUME NoFailure', Waits'
                 PROVE \A i \in 1 .. Len(replies'[e_cur']) : replies'[e_cur'][i] = e_cur'
      BY DEF PartsOwn
    <2>1. e_cur' = e_cur
      BY <1>4 DEF FutureEnds, Waits
    <2> QED BY <1>5, <1>7, <1>8, <2>1
  <1>10. OwnReplies'
    <2> SUFFICES ASSUME NEW k \in 1 .. Len(calls), fut'[k] = "done",
                        \A j \in 1 .. k : fut'[j] # "failed"
                 PROVE Own(k)'
      BY <1>2 DEF OwnReplies
    <2>1. \A j \in 1 .. k : fut[j] # "failed"
      <3>1. \A j \in 1 .. k : j \in 1 .. Len(calls)
        BY <1>1 DEF Lengths
      <3> QED BY <1>1, <1>6, <3>1 DEF Collecting
    <2>2. CASE k # e_cur
      <3>1. fut[k] = "done"
        BY <1>6, <2>2
      <3> QED BY <1>2, <1>5, <2>1, <2>2, <3>1 DEF Inv, OwnReplies, Own, Asked
    <2>3. CASE k = e_cur
      <3>1. \A j \in 1 .. Len(calls) : j \in 1 .. k \/ fut[j] = "pending"
        BY <1>1, <1>3, <2>3 DEF Inv, FuturesOK, Lengths
      <3>2. NoFailure
        BY <2>1, <3>1 DEF NoFailure
      <3>3. Len(replies[e_cur]) + 1 = Asked(e_cur) /\ Asked(e_cur) \in Nat
        BY <1>1, <1>6, <2>3 DEF Collecting
      <3>4. \A i \in 1 .. Asked(e_cur) : more[i] = e_cur
        BY <1>7, <3>2, <3>3
      <3>5. more \in Seq(1 .. MaxCalls) /\ Len(more) = Asked(e_cur)
        BY <1>5, <3>3
      <3>6. more = [i \in 1 .. Asked(e_cur) |-> e_cur]
        BY <3>3, <3>4, <3>5
      <3>7. Asked(k)' = Asked(e_cur)
        BY <1>2, <2>3 DEF Asked
      <3>8. replies'[k] = [i \in 1 .. Asked(k)' |-> k]
        BY <1>5, <2>3, <3>6, <3>7
      <3> QED BY <3>8 DEF Own
    <2> QED BY <2>2, <2>3
  <1>11. ASSUME NEW v \in Workers
         PROVE /\ ~InRecv(v)'
               /\ \A k \in 1 .. Len(calls) :
                    Unread(v, k)' <=> Unread(v, k) /\ (v = w => k # e_cur)
    <2>1. ~InRecv(v)' /\ v \in Nat
      BY <1>4, Constants DEF InRecv, FutureEnds
    <2>2. ASSUME NEW k \in 1 .. Len(calls), k # e_cur PROVE Unread(v, k)' <=> Unread(v, k)
      <3>1. e_cur' \in {0, e_cur}
        BY <1>4 DEF FutureEnds
      <3>2. k # 0
        OBVIOUS
      <3> QED BY <1>2, <1>3, <2>2, <3>1, <3>2 DEF Unread
    <2>3. PICK n \in 1 .. Len(calls) : n = e_cur
      BY <1>1 DEF Collecting
    <2>4. Unread(v, n)
            <=> /\ ~InRecv(v) /\ calls[n].output_rank \in {All, v}
                /\ calls[n].output_rank = All => v > Len(replies[n])
      BY <1>3, <2>3 DEF Unread
    <2>5. Unread(v, n)'
            <=> /\ e_cur' = e_cur
                /\ calls[n].output_rank \in {All, v}
                /\ calls[n].output_rank = All => v > Len(replies[n]) + 1
      BY <1>2, <1>3, <1>5, <2>1, <2>3 DEF Unread
    <2>6. v # w => (Unread(v, n)' <=> Unread(v, n))
      <3>0. v # w => ~InRecv(v)
        BY DEF InRecv
      <3>1. CASE calls[n].output_rank = All
        <4>1. w = Len(replies[n]) + 1 /\ Asked(n) = NWorkers /\ Len(replies[n]) \in Nat
          BY <1>1, <2>3, <3>1 DEF ReplyFrom, Asked, Lengths
        <4>2. e_cur' = e_cur \/ w = NWorkers
          BY <1>4, <2>3, <4>1 DEF FutureEnds
        <4>3. v <= NWorkers
          BY DEF Workers
        <4> HIDE DEF w
        <4> QED BY <2>1, <2>4, <2>5, <3>0, <3>1, <4>1, <4>2, <4>3, Constants
      <3>2. CASE calls[n].output_rank # All
        <4>1. w = calls[n].output_rank
          BY <2>3, <3>2 DEF ReplyFrom
        <4> HIDE DEF w
        <4> QED BY <2>4, <2>5, <3>2, <4>1
      <3> QED BY <3>1, <3>2
    <2>7. v = w => ~Unread(v, n)'
      <3>1. CASE calls[n].output_rank = All
        <4>1. w = Len(replies[n]) + 1 /\ Len(replies[n]) \in Nat
          BY <1>1, <2>3, <3>1 DEF ReplyFrom, Lengths
        <4> HIDE DEF w
        <4> QED BY <2>5, <3>1, <4>1
      <3>2. CASE calls[n].output_rank # All
        <4>1. Asked(n) = 1 /\ Len(replies[n]) \in Nat
          BY <1>1, <2>3, <3>2 DEF Asked, Lengths
        <4>2. Len(replies[n]) = 0
          BY <1>1, <2>3, <4>1 DEF Collecting
        <4>3. e_cur' = 0
          BY <1>4, <2>3, <4>1, <4>2 DEF FutureEnds
        <4> QED BY <1>1, <2>5, <4>3 DEF Collecting
      <3> QED BY <3>1, <3>2
    <2> QED BY <2>1, <2>2, <2>3, <2>6, <2>7
  <1> QED BY <1>8, <1>9, <1>10, <1>11

(* The engine reads the first entry of w's ring.                            *)
LEMMA RingTail ==
  ASSUME NEW w \in Workers, OnTheirWay(w), NEW n \in 1 .. Len(calls),
         response_mq[w] \in Seq(Reply), response_mq[w] # <<>>,
         Head(response_mq[w]).call = n, w_pos[w] \in 0 .. Len(calls),
         response_mq'[w] = Tail(response_mq[w]), outputs'[w] = outputs[w],
         w_pos'[w] = w_pos[w], calls' = calls,
         \A k \in 1 .. Len(calls) : Unread(w, k)' <=> Unread(w, k) /\ k # n
  PROVE OnTheirWay(w)'
  <1> DEFINE R == response_mq[w]
             A == outputs[w]
  <1>1. /\ Increasing(Tail(R)) /\ Answered(Tail(R)) = Answered(R) \ {n} /\ n \in Answered(R)
    BY AnswerTail DEF OnTheirWay
  <1>2. /\ Answered(R) \union Answered(A) = {k \in 1 .. w_pos[w] : Unread(w, k)}
        /\ Increasing(A)
        /\ \A i \in Answered(R), j \in Answered(A) : i < j
        /\ \A k \in 1 .. Len(calls) :
             calls[k].output_rank \in {All, w} /\ ~Unread(w, k) => k <= w_pos[w]
    BY DEF OnTheirWay
  <1> HIDE DEF R, A
  <1>3. n \notin Answered(A) /\ n \in 1 .. w_pos[w]
    BY <1>1, <1>2
  <1>4. {k \in 1 .. w_pos[w] : Unread(w, k)'} = {k \in 1 .. w_pos[w] : Unread(w, k)} \ {n}
    <2>1. \A k \in 1 .. w_pos[w] : k \in 1 .. Len(calls)
      OBVIOUS
    <2> QED BY <2>1
  <1>5. Answered(Tail(R)) \union Answered(A) = {k \in 1 .. w_pos[w] : Unread(w, k)'}
    BY <1>1, <1>2, <1>3, <1>4
  <1>6. \A k \in 1 .. Len(calls) :
          calls[k].output_rank \in {All, w} /\ ~Unread(w, k)' => k <= w_pos[w]
    BY <1>2, <1>3
  <1>7. response_mq'[w] = Tail(R) /\ outputs'[w] = A
    BY DEF R, A
  <1> QED BY <1>1, <1>2, <1>5, <1>6, <1>7 DEF OnTheirWay

LEMMA DequeueReplies ==
  ASSUME Inv, DequeueResponse
  PROVE Inv'
  <1> DEFINE w == ReplyFrom(e_cur)
             R == response_mq[w]
             h == Head(R)
  <1>1. /\ Types' /\ FuturesOK' /\ w \in Workers /\ R # <<>> /\ R \in Seq(Reply)
        /\ h \in Reply /\ Collecting /\ Waits /\ e_pc = "dequeue"
        /\ response_mq' = [response_mq EXCEPT ![w] = Tail(R)]
        /\ UNCHANGED <<calls, futures_queue, workers, local_socket>>
        /\ IF h.overflow THEN e_pc' = "recv" /\ UNCHANGED <<fut, replies, e_cur>> ELSE Takes(h)
    BY DequeueFutures DEF Inv
  <1>2. /\ h.ok \in BOOLEAN /\ h.overflow \in BOOLEAN /\ e_cur \in 1 .. Len(calls)
        /\ e_cur = Popped /\ Popped' = Popped
        /\ response_mq \in [Workers -> Seq(Reply)]
    BY <1>1 DEF Reply, Collecting, Popped, Inv, Types, QueueTypes
  <1>3. ASSUME NoFailure PROVE h.call = e_cur
    BY <1>1, <1>3, NextReplyIsOwn
  <1> HIDE DEF h
  <1>4. CASE ~h.overflow /\ ~h.ok
    BY <1>1, <1>4, TakesFailure
  <1>5. ASSUME NoFailure', NoFailure' => NoFailure,
               \A v \in Workers :
                 /\ InRecv(v)' <=> h.overflow /\ v = w
                 /\ \A k \in 1 .. Len(calls) :
                      Unread(v, k)' <=> Unread(v, k) /\ (v = w => k # e_cur),
               h.overflow => e_cur' = e_cur,
               NEW v \in Workers
        PROVE OnTheirWay(v)' /\ Payloads(v)'
    <2>1. /\ OnTheirWay(v) /\ Payloads(v) /\ w_pos[v] \in 0 .. Len(calls) /\ h.call = e_cur
          /\ UNCHANGED <<w_pos, outputs>> /\ ~InRecv(v)
      BY <1>1, <1>3, <1>5 DEF Inv, RepliesOK, Types, WorkersTypes, workers, InRecv
    <2>2. CASE v # w
      <3>1. response_mq'[v] = response_mq[v]
        BY <1>1, <1>2, <2>2
      <3>2. OnTheirWay(v)'
        BY <1>1, <1>5, <2>1, <2>2, <3>1, KeepOnTheirWay
      <3> QED BY <1>1, <1>5, <2>1, <2>2, <3>1, <3>2, KeepPayloads
    <2>3. CASE v = w
      <3>1. response_mq'[v] = Tail(R) /\ R = response_mq[v] /\ Head(R).call = e_cur
        BY <1>1, <1>2, <2>1, <2>3 DEF h
      <3>2. OnTheirWay(v)'
        BY <1>1, <1>2, <1>5, <2>1, <2>3, <3>1, RingTail
      <3>3. Marked(R) = Marked(Tail(R)) \union (IF h.overflow THEN {e_cur} ELSE {})
        BY <1>1, <2>1, <3>1, AnswerTail DEF OnTheirWay, h
      <3>4. Answered(local_socket[v]) = Marked(R) /\ Increasing(local_socket[v])
        BY <2>1, <3>1 DEF Payloads
      <3>5. (IF InRecv(v) THEN {e_cur} ELSE {})' = IF h.overflow THEN {e_cur} ELSE {}
        BY <1>5, <2>3
      <3> HIDE DEF R
      <3>6. Payloads(v)'
        BY <1>1, <3>1, <3>3, <3>4, <3>5 DEF Payloads
      <3> QED BY <3>2, <3>6
    <2> QED BY <2>2, <2>3
  <1>6. CASE ~h.overflow /\ h.ok
    <2>1. Takes(h)
      BY <1>1, <1>6
    <2>2. /\ PartsOwn' /\ OwnReplies' /\ (NoFailure' => NoFailure)
          /\ \A v \in Workers :
               /\ ~InRecv(v)'
               /\ \A k \in 1 .. Len(calls) :
                    Unread(v, k)' <=> Unread(v, k) /\ (v = w => k # e_cur)
      BY <1>1, <1>3, <1>6, <2>1, TakesOwn
    <2>3. RepliesOK'
      BY <1>5, <1>6, <2>2 DEF RepliesOK
    <2> QED BY <1>1, <2>2, <2>3 DEF Inv
  <1>7. CASE h.overflow
    <2>1. /\ e_pc' = "recv" /\ UNCHANGED <<fut, replies, e_cur>> /\ ReplyFrom(e_cur)' = w
      BY <1>1, <1>7 DEF ReplyFrom
    <2>2. PartsOwn' /\ OwnReplies' /\ (NoFailure' => NoFailure)
      BY <1>1, <2>1 DEF Inv, PartsOwn, NoFailure, OwnReplies, Own, Asked
    <2> HIDE DEF w
    <2>3. ASSUME NEW v \in Workers
          PROVE /\ InRecv(v)' <=> v = w
                /\ ~InRecv(v)
                /\ \A k \in 1 .. Len(calls) :
                     Unread(v, k)' <=> Unread(v, k) /\ (v = w => k # e_cur)
      <3>1. (InRecv(v)' <=> v = w) /\ ~InRecv(v)
        BY <1>1, <2>1 DEF InRecv
      <3>2. ~(e_cur > Popped)
        BY <1>1, <1>2, GetLengths DEF Inv, Types, Lengths
      <3> QED BY <1>1, <1>2, <2>1, <3>1, <3>2 DEF Unread
    <2>4. RepliesOK'
      BY <1>5, <1>7, <2>1, <2>2, <2>3 DEF RepliesOK
    <2> QED BY <1>1, <2>2, <2>4 DEF Inv
  <1> QED BY <1>2, <1>4, <1>6, <1>7

LEMMA RecvReplies ==
  ASSUME Inv, Recv
  PROVE Inv'
  <1> DEFINE w == ReplyFrom(e_cur)
             S == local_socket[w]
             h == Head(S)
  <1>1. /\ Types' /\ FuturesOK' /\ w \in Workers /\ S # <<>> /\ S \in Seq(Reply)
        /\ h \in Reply /\ Collecting /\ e_pc = "recv"
        /\ local_socket' = [local_socket EXCEPT ![w] = Tail(S)]
        /\ UNCHANGED <<calls, futures_queue, workers, response_mq>>
        /\ Takes(h)
    BY RecvFutures DEF Inv
  <1>2. /\ h.ok \in BOOLEAN /\ e_cur \in 1 .. Len(calls) /\ e_cur = Popped
        /\ local_socket \in [Workers -> Seq(Reply)]
    BY <1>1 DEF Reply, Collecting, Inv, Types, QueueTypes
  <1>3. ASSUME NoFailure PROVE h.call = e_cur /\ e_cur \notin Marked(response_mq[w])
    BY <1>1, <1>3, NextPayloadIsOwn
  <1> HIDE DEF h
  <1>4. CASE ~h.ok
    BY <1>1, <1>4, TakesFailure
  <1>5. CASE h.ok
    <2>2. /\ PartsOwn' /\ OwnReplies' /\ (NoFailure' => NoFailure)
          /\ \A v \in Workers :
               /\ ~InRecv(v)'
               /\ \A k \in 1 .. Len(calls) :
                    Unread(v, k)' <=> Unread(v, k) /\ (v = w => k # e_cur)
      BY <1>1, <1>3, <1>5, TakesOwn
    <2>3. ASSUME NoFailure', NEW v \in Workers PROVE OnTheirWay(v)' /\ Payloads(v)'
      <3>1. /\ OnTheirWay(v) /\ Payloads(v) /\ w_pos[v] \in 0 .. Len(calls) /\ h.call = e_cur
            /\ UNCHANGED <<w_pos, outputs>> /\ (InRecv(v) <=> v = w)
        BY <1>1, <1>3, <2>2, <2>3 DEF Inv, RepliesOK, Types, WorkersTypes, workers, InRecv
      <3>2. ~Unread(w, e_cur)
        <4>1. ~(e_cur > Popped) /\ InRecv(w)
          BY <1>1, <1>2, GetLengths DEF Inv, Types, Lengths, InRecv
        <4> QED BY <4>1 DEF Unread
      <3>3. \A k \in 1 .. Len(calls) : Unread(v, k)' <=> Unread(v, k)
        <4> HIDE DEF w
        <4> QED BY <2>2, <3>2
      <3>4. OnTheirWay(v)'
        BY <1>1, <3>1, <3>3, KeepOnTheirWay
      <3>5. CASE v # w
        <4>1. local_socket'[v] = local_socket[v] /\ ~InRecv(v) /\ ~InRecv(v)'
          BY <1>1, <1>2, <2>2, <3>1, <3>5
        <4> QED BY <1>1, <3>1, <3>4, <4>1, KeepPayloads
      <3>6. CASE v = w
        <4>1. /\ local_socket'[v] = Tail(S) /\ S = local_socket[v] /\ InRecv(v) /\ ~InRecv(v)'
              /\ e_cur \notin Marked(response_mq[v])
          BY <1>1, <1>2, <1>3, <2>2, <2>3, <3>1, <3>6
        <4>2. Increasing(S) /\ Answered(S) = Marked(response_mq[v]) \union {e_cur}
          BY <3>1, <4>1 DEF Payloads
        <4>3. Increasing(Tail(S)) /\ Answered(Tail(S)) = Answered(S) \ {e_cur}
          BY <1>1, <3>1, <4>2, AnswerTail DEF h
        <4> HIDE DEF S
        <4>4. Payloads(v)'
          BY <1>1, <4>1, <4>2, <4>3 DEF Payloads
        <4> QED BY <3>4, <4>4
      <3> QED BY <3>5, <3>6
    <2>4. RepliesOK'
      BY <2>3 DEF RepliesOK
    <2> QED BY <1>1, <2>2, <2>4 DEF Inv
  <1> QED BY <1>2, <1>4, <1>5

-----------------------------------------------------------------------------
(* The theorems                                                             *)

LEMMA InvStep == Inv /\ [Next]_vars => Inv'
  <1> SUFFICES ASSUME Inv, [Next]_vars PROVE Inv'
    OBVIOUS
  <1>1. CASE Aside
    BY <1>1, AsideReplies
  <1>2. CASE Enqueue
    BY <1>2, EnqueueReplies
  <1>3. CASE DequeueTimeout \/ DequeueCancelled
    BY <1>3, FailReplies
  <1>4. CASE DrainFuture
    BY <1>4, DrainReplies
  <1>5. CASE DequeueResponse
    BY <1>5, DequeueReplies
  <1>6. CASE Recv
    BY <1>6, RecvReplies
  <1>7. CASE \E w \in Workers : WorkerStep(w)
    BY <1>7, WorkerReplies, OutputReplies DEF WorkerStep
  <1> QED BY <1>1, <1>2, <1>3, <1>4, <1>5, <1>6, <1>7 DEF Next, EngineWaits, Aside

LEMMA InvAlways == Spec => []Inv
  BY InitInv, InvStep, PTL DEF Spec

(* Type correctness of the executor, with the bookkeeping of FutureWrapper: *)
(* a future is pending exactly while it is queued or its replies are being  *)
(* collected, so result() never pops an empty futures_queue, and the rings  *)
(* never hold more than max_chunks messages.                                *)
THEOREM TypeCorrect == Spec => []TypeOK
  <1>1. Inv => TypeOK
    BY TypesGiveTypeOK DEF Inv
  <1> QED BY <1>1, InvAlways, PTL

(* get_response and FutureWrapper.result: for every number of workers and   *)
(* of steps in flight, with or without the output thread, with replies in   *)
(* the ring or over the socket, and whichever workers die, a call that      *)
(* returns before any call has failed is given the replies to itself, one   *)
(* from each worker it asked, in order.                                     *)
THEOREM RepliesMatchCalls == Spec => []OwnReplies
  <1>1. Inv => OwnReplies
    BY DEF Inv
  <1> QED BY <1>1, InvAlways, PTL
================================================================================
