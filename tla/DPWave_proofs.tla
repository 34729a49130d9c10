----------------------------- MODULE DPWave_proofs -----------------------------
(***************************************************************************)
(* For every number of engines and clients, every interval and every        *)
(* adverse timing: engines that wait in a collective wait in the same one.  *)
(*                                                                         *)
(* Three arguments are combined.  Step counters and waves change only in    *)
(* collectives, because no message ever carries a wave the engines have not *)
(* reached (WavesBounded).  The all-reduce is entered and left by all.  And *)
(* a resume reaches an engine only when every engine has been parked by the *)
(* same consensus, after which nothing but the resume makes it run          *)
(* (PauseOK).                                                               *)
(***************************************************************************)
EXTENDS DPWave, FiniteSetTheorems, TLAPS

(* The engines count their steps and waves together.                        *)
Uniform ==
  /\ \A e, f \in Engines : wave[e] = wave[f] /\ step[e] = step[f]
  /\ \A e, f \in Engines : pc[e] = "reduce" => pc[f] = "reduce"

(* A stopped engine has its step counter back at 0.                         *)
FreshAtZero == \A e \in Engines : ~running[e] => step[e] = 0

(* Nobody knows of a wave that the engines have not reached.                *)
WavesBounded ==
  /\ co_wave <= wave[0]
  /\ \A c \in Clients : /\ cl_wave[c] <= wave[0]
                        /\ \A m \in Msgs(front[c]) : m.wave <= wave[0]
                        /\ \A m \in Msgs(stats[c]) : m.wave <= wave[0]
  /\ \A e \in Engines : /\ \A m \in Msgs(start[e]) : m.wave <= wave[0]
                        /\ \A m \in Msgs(output[e]) :
                             /\ m.wave <= wave[0]
                             /\ m.type = "wave_complete" => m.wave < wave[0]

(* A request that is on its way was sent, in a wave that has come.          *)
AddsKnown ==
  \A c \in Clients, e \in Engines : \A m \in Msgs(input[c][e]) :
    m.type = "ADD" => m.req \in sent /\ m.wave <= wave[0]

IsControl(m) == m.type \in {"PAUSE", "RESUME"}

OneControl(q) ==
  \A i, j \in 1 .. Len(q) : IsControl(q[i]) /\ IsControl(q[j]) => i = j

(* An engine has one pause or resume call at most on its way, as its call   *)
(* says.                                                                    *)
ControlOK ==
  \A c \in Clients, e \in Engines :
    /\ \A m \in Msgs(input[c][e]) :
         /\ m.type = "PAUSE" => c = Admin /\ call[e] = "pausing"
         /\ m.type = "RESUME" => c = Admin /\ call[e] = "resuming" /\ pc[e] # "resume"
    /\ OneControl(input[c][e])

(* The engine was stopped by the consensus and not yet resumed by all.      *)
Parked(e) == call[e] \in {"callback", "paused", "resuming"} /\ ~pending_pause[e]

PauseOK ==
  \A e \in Engines :
    /\ call[e] # "refused"
    /\ call[e] \in {"none", "pausing"} =>
         ~paused[e] /\ ~pending_pause[e] /\ ~ignore_start_dp_wave[e] /\ pc[e] # "resume"
    /\ pending_pause[e] =>
         call[e] = "callback" /\ paused[e] /\ running[e] /\ pc[e] # "resume"
    /\ pc[e] = "resume" =>
         call[e] = "resuming" /\ ~paused[e] /\ ~ignore_start_dp_wave[e]
    /\ Parked(e) =>
         /\ ~running[e]
         /\ pc[e] = "resume" \/ (pc[e] = "input" /\ paused[e] /\ ignore_start_dp_wave[e])
         /\ \A f \in Engines : Parked(f)

Inv ==
  TypeOK /\ Uniform /\ FreshAtZero /\ WavesBounded /\ AddsKnown /\ ControlOK /\ PauseOK

-----------------------------------------------------------------------------
(* Queues                                                                   *)

LEMMA HeadTail ==
  ASSUME NEW S, NEW q \in Seq(S), q # <<>>
  PROVE /\ Head(q) \in S /\ Tail(q) \in Seq(S)
        /\ Head(q) \in Msgs(q)
        /\ Head(q) = q[1] /\ Len(q) \in Nat \ {0}
        /\ Len(Tail(q)) = Len(q) - 1
        /\ \A i \in 1 .. Len(Tail(q)) : Tail(q)[i] = q[i + 1]
        /\ Msgs(Tail(q)) \subseteq Msgs(q)
  <1>1. /\ Head(q) \in S /\ Tail(q) \in Seq(S)
        /\ Head(q) = q[1] /\ Len(q) \in Nat \ {0}
        /\ Len(Tail(q)) = Len(q) - 1
        /\ \A i \in 1 .. Len(Tail(q)) : Tail(q)[i] = q[i + 1]
    OBVIOUS
  <1>2. 1 \in 1 .. Len(q)
    BY <1>1
  <1>3. ASSUME NEW i \in 1 .. Len(Tail(q))
        PROVE i + 1 \in 1 .. Len(q)
    BY <1>1
  <1> QED BY <1>1, <1>2, <1>3 DEF Msgs

LEMMA Appended ==
  ASSUME NEW S, NEW q \in Seq(S), NEW m \in S
  PROVE /\ Append(q, m) \in Seq(S)
        /\ Len(Append(q, m)) = Len(q) + 1 /\ Len(q) \in Nat
        /\ \A i \in 1 .. Len(q) : Append(q, m)[i] = q[i]
        /\ Append(q, m)[Len(q) + 1] = m
        /\ Msgs(Append(q, m)) = Msgs(q) \union {m}
  <1>1. /\ Append(q, m) \in Seq(S)
        /\ Len(Append(q, m)) = Len(q) + 1 /\ Len(q) \in Nat
        /\ \A i \in 1 .. Len(q) : Append(q, m)[i] = q[i]
        /\ Append(q, m)[Len(q) + 1] = m
    OBVIOUS
  <1>2. 1 .. Len(q) + 1 = (1 .. Len(q)) \union {Len(q) + 1}
    BY <1>1
  <1> QED BY <1>1, <1>2 DEF Msgs

LEMMA EmptyMsgs == Msgs(<<>>) = {}
  BY DEF Msgs

LEMMA OneMsg == \A m : Msgs(<<m>>) = {m}
  BY DEF Msgs

LEMMA MsgType ==
  ASSUME NEW S, NEW q \in Seq(S), NEW m \in Msgs(q)
  PROVE m \in S
  BY DEF Msgs

(* A queue out of several grows or shrinks.                                 *)
LEMMA QAppend ==
  ASSUME NEW D, NEW S, NEW f \in [D -> Seq(S)], NEW d \in D, NEW m \in S
  PROVE LET g == [f EXCEPT ![d] = Append(@, m)] IN
        /\ g \in [D -> Seq(S)]
        /\ g[d] = Append(f[d], m) /\ \A x \in D \ {d} : g[x] = f[x]
        /\ \A x \in D : Msgs(g[x]) = Msgs(f[x]) \union (IF x = d THEN {m} ELSE {})
  <1> DEFINE g == [f EXCEPT ![d] = Append(@, m)]
  <1>1. g[d] = Append(f[d], m) /\ \A x \in D \ {d} : g[x] = f[x]
    OBVIOUS
  <1>2. f[d] \in Seq(S)
    OBVIOUS
  <1>3. Append(f[d], m) \in Seq(S) /\ Msgs(Append(f[d], m)) = Msgs(f[d]) \union {m}
    BY <1>2, Appended
  <1>4. g \in [D -> Seq(S)]
    BY <1>3
  <1> HIDE DEF g
  <1> QED BY <1>1, <1>3, <1>4 DEF g

LEMMA QTail ==
  ASSUME NEW D, NEW S, NEW f \in [D -> Seq(S)], NEW d \in D, f[d] # <<>>
  PROVE LET g == [f EXCEPT ![d] = Tail(@)] IN
        /\ g \in [D -> Seq(S)]
        /\ Head(f[d]) \in S /\ Head(f[d]) \in Msgs(f[d])
        /\ g[d] = Tail(f[d]) /\ \A x \in D \ {d} : g[x] = f[x]
        /\ \A x \in D : Msgs(g[x]) \subseteq Msgs(f[x])
  <1> DEFINE g == [f EXCEPT ![d] = Tail(@)]
  <1>1. g[d] = Tail(f[d]) /\ \A x \in D \ {d} : g[x] = f[x]
    OBVIOUS
  <1>2. f[d] \in Seq(S)
    OBVIOUS
  <1>3. /\ Tail(f[d]) \in Seq(S) /\ Msgs(Tail(f[d])) \subseteq Msgs(f[d])
        /\ Head(f[d]) \in S /\ Head(f[d]) \in Msgs(f[d])
    BY <1>2, HeadTail
  <1>4. g \in [D -> Seq(S)]
    BY <1>3
  <1> HIDE DEF g
  <1> QED BY <1>1, <1>3, <1>4 DEF g

LEMMA ControlAppend ==
  ASSUME NEW q \in Seq(Message), NEW m \in Message, OneControl(q),
         IsControl(m) => \A x \in Msgs(q) : ~IsControl(x)
  PROVE OneControl(Append(q, m))
  <1> DEFINE p == Append(q, m)
  <1>1. /\ Len(p) = Len(q) + 1 /\ Len(q) \in Nat /\ p[Len(q) + 1] = m
        /\ \A i \in 1 .. Len(q) : p[i] = q[i] /\ p[i] \in Msgs(q)
    BY Appended DEF Msgs
  <1> HIDE DEF p
  <1> SUFFICES ASSUME NEW i \in 1 .. Len(p), NEW j \in 1 .. Len(p),
                      IsControl(p[i]), IsControl(p[j])
               PROVE i = j
    BY DEF OneControl, p
  <1>2. CASE i \in 1 .. Len(q) /\ j \in 1 .. Len(q)
    BY <1>1, <1>2 DEF OneControl
  <1>3. CASE i = Len(q) + 1 \/ j = Len(q) + 1
    BY <1>1, <1>3
  <1> QED BY <1>1, <1>2, <1>3

LEMMA ControlTail ==
  ASSUME NEW q \in Seq(Message), q # <<>>, OneControl(q)
  PROVE /\ OneControl(Tail(q))
        /\ IsControl(Head(q)) => \A x \in Msgs(Tail(q)) : ~IsControl(x)
  <1> DEFINE p == Tail(q)
  <1>1. /\ Len(p) = Len(q) - 1 /\ Len(q) \in Nat \ {0} /\ Head(q) = q[1]
        /\ \A i \in 1 .. Len(p) : p[i] = q[i + 1]
    BY HeadTail
  <1> HIDE DEF p
  <1>2. OneControl(p)
    BY <1>1 DEF OneControl
  <1>3. ASSUME IsControl(Head(q)), NEW i \in 1 .. Len(p) PROVE ~IsControl(p[i])
    BY <1>1, <1>3 DEF OneControl
  <1> QED BY <1>2, <1>3 DEF Msgs, p

InputType == input \in [Clients -> [Engines -> Seq(Message)]]

LEMMA InputIs ==
  ASSUME TypeOK, NEW c \in Clients, NEW e \in Engines
  PROVE InputType /\ input[c][e] \in Seq(Message)
  <1>1. InputType
    BY DEF TypeOK, InputType
  <1>2. input[c] \in [Engines -> Seq(Message)]
    BY <1>1 DEF InputType
  <1> QED BY <1>1, <1>2

(* An engine takes a message.                                               *)
LEMMA InputTake ==
  ASSUME InputType, NEW c \in Clients, NEW e \in Engines, input[c][e] # <<>>,
         input' = [input EXCEPT ![c][e] = Tail(@)]
  PROVE /\ InputType'
        /\ Head(input[c][e]) \in Message /\ Head(input[c][e]) \in Msgs(input[c][e])
        /\ input'[c][e] = Tail(input[c][e])
        /\ \A d \in Clients, f \in Engines : d # c \/ f # e => input'[d][f] = input[d][f]
        /\ \A d \in Clients, f \in Engines : Msgs(input'[d][f]) \subseteq Msgs(input[d][f])
  <1>1. input[c][e] \in Seq(Message)
    BY DEF InputType
  <1>2. /\ Tail(input[c][e]) \in Seq(Message)
        /\ Head(input[c][e]) \in Message /\ Head(input[c][e]) \in Msgs(input[c][e])
        /\ Msgs(Tail(input[c][e])) \subseteq Msgs(input[c][e])
    BY <1>1, HeadTail
  <1>3. input'[c][e] = Tail(input[c][e])
    BY DEF InputType
  <1>4. \A d \in Clients, f \in Engines : d # c \/ f # e => input'[d][f] = input[d][f]
    BY DEF InputType
  <1>5. InputType'
    BY <1>2 DEF InputType
  <1> QED BY <1>2, <1>3, <1>4, <1>5

LEMMA Constants ==
  /\ 0 \in Engines /\ Admin \in Clients
  /\ IsFiniteSet(Engines) /\ Cardinality(Engines) = NEngines
  /\ NEngines \in Nat \ {0}
  <1>1. 0 \in Engines /\ NEngines \in Nat \ {0} /\ NEngines - 1 \in Nat
    BY DPAssumption DEF Engines
  <1>2. Admin \in Clients
    BY DPAssumption DEF Admin
  <1>3. IsFiniteSet(Engines) /\ Cardinality(Engines) = NEngines
    BY <1>1, FS_Interval DEF Engines
  <1> QED BY <1>1, <1>2, <1>3

(* The sum of sync_dp_state: all engines are told to pause or none, unless  *)
(* it says that there is something to do.                                   *)
LEMMA PauseCount ==
  ASSUME pending_pause \in [Engines -> BOOLEAN]
  PROVE /\ pause_consensus <=> \A e \in Engines : pending_pause[e]
        /\ pause_count % NEngines = 0 =>
             (\A e \in Engines : pending_pause[e]) \/ (\A e \in Engines : ~pending_pause[e])
        /\ (\A e \in Engines : pending_pause[e]) => pause_count % NEngines = 0
  <1> DEFINE P == {e \in Engines : pending_pause[e]}
  <1>1. IsFiniteSet(P) /\ Cardinality(P) \in Nat /\ Cardinality(P) <= NEngines
    BY Constants, FS_Subset, FS_CardinalityType
  <1>2. Cardinality(P) = NEngines => P = Engines
    BY Constants, FS_Subset
  <1>3. Cardinality(P) = 0 => P = {}
    BY <1>1, FS_EmptySet
  <1>4. P = Engines => Cardinality(P) = NEngines
    BY Constants
  <1>5. pause_count = Cardinality(P)
    BY DEF pause_count
  <1>6. Cardinality(P) % NEngines = 0 => Cardinality(P) = 0 \/ Cardinality(P) = NEngines
    <2>1. CASE Cardinality(P) < NEngines
      BY <1>1, <2>1, Constants
    <2>2. CASE Cardinality(P) = NEngines
      BY <2>2
    <2> QED BY <1>1, <2>1, <2>2, Constants
  <1>7. NEngines % NEngines = 0
    BY Constants
  <1>8. P = Engines <=> \A e \in Engines : pending_pause[e]
    OBVIOUS
  <1>9. P = {} <=> \A e \in Engines : ~pending_pause[e]
    OBVIOUS
  <1> HIDE DEF P
  <1> QED BY <1>1, <1>2, <1>3, <1>4, <1>5, <1>6, <1>7, <1>8, <1>9 DEF pause_consensus

LEMMA InitInv == Init => Inv
  <1> SUFFICES ASSUME Init PROVE Inv
    OBVIOUS
  <1> USE Constants, EmptyMsgs DEF Init
  <1>1. TypeOK
    <2>1. \A S : <<>> \in Seq(S)
      OBVIOUS
    <2>2. /\ first_req \in [Clients -> Seq(Engines)]
          /\ input \in [Clients -> [Engines -> Seq(Message)]]
          /\ front \in [Clients -> Seq(Notice)] /\ start \in [Engines -> Seq(Notice)]
          /\ output \in [Engines -> Seq(Report)]
          /\ stats \in [Clients -> Seq(State)]
      BY <2>1
    <2>3. \A c \in Clients : Len(stats[c]) <= 1
      OBVIOUS
    <2>4. /\ step \in [Engines -> Nat] /\ pauses \in 0 .. MaxPauses
          /\ cl_wave \in [Clients -> Nat] /\ wave \in [Engines -> Nat]
          /\ co_wave \in Nat
      BY DPAssumption
    <2>5. /\ cl_running \in [Clients -> BOOLEAN] /\ co_running \in BOOLEAN
          /\ pc \in [Engines -> {"input", "forward", "reduce", "resume"}]
          /\ running \in [Engines -> BOOLEAN]
          /\ reqs \in [Engines -> SUBSET sent] /\ sent \subseteq Requests
          /\ paused \in [Engines -> BOOLEAN] /\ pending_pause \in [Engines -> BOOLEAN]
          /\ ignore_start_dp_wave \in [Engines -> BOOLEAN]
          /\ call \in [Engines -> Calls]
      BY DEF Calls
    <2> QED BY <2>2, <2>3, <2>4, <2>5 DEF TypeOK
  <1>2. Uniform /\ FreshAtZero /\ WavesBounded /\ AddsKnown
    BY DEF Uniform, FreshAtZero, WavesBounded, AddsKnown
  <1>3. ControlOK
    BY DEF ControlOK, OneControl
  <1>4. PauseOK
    BY DEF PauseOK, Parked
  <1> QED BY <1>1, <1>2, <1>3, <1>4 DEF Inv

(* Which actions touch which queue.                                         *)
FrontFrame ==
  \/ UNCHANGED front
  \/ \E c \in Clients : SendFirstReq(c)
  \/ \E c \in Clients : HandleFront(c)

StatsFrame ==
  \/ UNCHANGED stats
  \/ \E c \in Clients : UpdateStats(c)
  \/ \E c \in Clients : HandleFront(c)
  \/ \E e \in Engines : HandleWaveComplete(e)
  \/ \E e \in Engines : HandleStartWave(e)
  \/ PublishStats

StartFrame ==
  \/ UNCHANGED start
  \/ \E c \in Clients : HandleFront(c)
  \/ \E e \in Engines : HandleStartWave(e)
  \/ \E e \in Engines : HandleStartDPWave(e)

OutputFrame ==
  \/ UNCHANGED output
  \/ \E e \in Engines : HandleWaveComplete(e)
  \/ \E e \in Engines : HandleStartWave(e)
  \/ \E c \in Clients, e \in Engines : HandleAdd(c, e)
  \/ AllReduce

InputFrame ==
  \/ UNCHANGED input
  \/ \E c \in Clients, r \in Requests, e \in Engines : AddRequest(c, r, e)
  \/ \E c \in Clients, r \in Requests, e \in Engines : AbortRequest(c, r, e)
  \/ \E e \in Engines : Pause(e)
  \/ \E e \in Engines : PauseOthers(e)
  \/ \E e \in Engines : Resume(e)
  \/ \E e \in Engines : ResumeOthers(e)
  \/ \E c \in Clients, e \in Engines : HandleAdd(c, e)
  \/ \E c \in Clients, e \in Engines : HandleAbort(c, e)
  \/ \E c \in Clients, e \in Engines : HandlePause(c, e)
  \/ \E c \in Clients, e \in Engines : HandleResume(c, e)

FirstReqFrame ==
  \/ UNCHANGED first_req
  \/ \E c \in Clients, r \in Requests, e \in Engines : AddRequest(c, r, e)
  \/ \E c \in Clients : SendFirstReq(c)

EngineFrame ==
  \/ UNCHANGED <<pc, wave, step>>
  \/ \E c \in Clients, e \in Engines : HandleAdd(c, e)
  \/ \E e \in Engines : HandleStartDPWave(e)
  \/ \E c \in Clients, e \in Engines : HandleResume(c, e)
  \/ \E e \in Engines : BeginStep(e)
  \/ \E Finished \in SUBSET Requests : Forward(Finished)
  \/ AllReduce
  \/ ResumeBarrier

PauseFrame ==
  \/ UNCHANGED <<pc, running, step, call, pauses, pausing>>
  \/ \E c \in Clients, e \in Engines : HandleAdd(c, e)
  \/ \E e \in Engines : HandleStartDPWave(e)
  \/ \E c \in Clients, e \in Engines : HandlePause(c, e)
  \/ \E c \in Clients, e \in Engines : HandleResume(c, e)
  \/ \E e \in Engines : BeginStep(e)
  \/ \E e \in Engines : PauseDone(e)
  \/ \E e \in Engines : Pause(e)
  \/ \E e \in Engines : PauseOthers(e)
  \/ \E e \in Engines : Resume(e)
  \/ \E e \in Engines : ResumeOthers(e)
  \/ \E Finished \in SUBSET Requests : Forward(Finished)
  \/ AllReduce
  \/ ResumeBarrier

ClientFrame ==
  \/ UNCHANGED <<cl_wave, cl_running>>
  \/ \E c \in Clients : SendFirstReq(c)
  \/ \E c \in Clients : UpdateStats(c)

ReqsFrame ==
  \/ UNCHANGED <<reqs, sent>>
  \/ \E c \in Clients, r \in Requests, e \in Engines : AddRequest(c, r, e)
  \/ \E c \in Clients, e \in Engines : HandleAdd(c, e)
  \/ \E c \in Clients, e \in Engines : HandleAbort(c, e)
  \/ \E Finished \in SUBSET Requests : Forward(Finished)

ControlFrame ==
  \/ UNCHANGED <<input, call, pc>>
  \/ \E c \in Clients, r \in Requests, e \in Engines : AddRequest(c, r, e)
  \/ \E c \in Clients, r \in Requests, e \in Engines : AbortRequest(c, r, e)
  \/ \E e \in Engines : Pause(e)
  \/ \E e \in Engines : PauseOthers(e)
  \/ \E e \in Engines : Resume(e)
  \/ \E e \in Engines : ResumeOthers(e)
  \/ \E c \in Clients, e \in Engines : HandleAdd(c, e)
  \/ \E c \in Clients, e \in Engines : HandleAbort(c, e)
  \/ \E c \in Clients, e \in Engines : HandlePause(c, e)
  \/ \E c \in Clients, e \in Engines : HandleResume(c, e)
  \/ \E e \in Engines : PauseDone(e)
  \/ \E e \in Engines : BeginStep(e)
  \/ \E Finished \in SUBSET Requests : Forward(Finished)
  \/ AllReduce
  \/ ResumeBarrier

SentFrame ==
  \/ UNCHANGED sent
  \/ \E c \in Clients, r \in Requests, e \in Engines : AddRequest(c, r, e)

CoordinatorFrame ==
  \/ UNCHANGED <<co_wave, co_running>>
  \/ \E c \in Clients : HandleFront(c)
  \/ \E e \in Engines : HandleWaveComplete(e)
  \/ \E e \in Engines : HandleStartWave(e)

LEMMA Frames ==
  ASSUME [Next]_vars
  PROVE /\ FrontFrame
        /\ StatsFrame
        /\ StartFrame
        /\ OutputFrame
        /\ InputFrame
        /\ FirstReqFrame
        /\ EngineFrame
        /\ PauseFrame
        /\ ClientFrame
        /\ ReqsFrame
        /\ ControlFrame
        /\ SentFrame
        /\ CoordinatorFrame
  <1> USE DEF FrontFrame, StatsFrame, StartFrame, OutputFrame, InputFrame,
        FirstReqFrame, EngineFrame, PauseFrame, ClientFrame, SentFrame,
        CoordinatorFrame, ReqsFrame, ControlFrame, client, coordinator, pausing, engine, calls,
        sockets
  <1>1. ASSUME NEW c \in Clients, NEW r \in Requests, NEW e \in Engines, AddRequest(c, r, e)
        PROVE /\ FrontFrame /\ StatsFrame /\ StartFrame /\ OutputFrame
              /\ InputFrame /\ FirstReqFrame /\ EngineFrame
              /\ PauseFrame /\ ClientFrame /\ SentFrame /\ CoordinatorFrame
              /\ ReqsFrame /\ ControlFrame
    BY <1>1 DEF AddRequest
  <1>2. ASSUME NEW c \in Clients, NEW r \in Requests, NEW e \in Engines, AbortRequest(c, r, e)
        PROVE /\ FrontFrame /\ StatsFrame /\ StartFrame /\ OutputFrame
              /\ InputFrame /\ FirstReqFrame /\ EngineFrame
              /\ PauseFrame /\ ClientFrame /\ SentFrame /\ CoordinatorFrame
              /\ ReqsFrame /\ ControlFrame
    <2>1. UNCHANGED <<client, coordinator, engine, calls, front, start, output, stats, sent>>
      BY <1>2 DEF AbortRequest
    <2> QED BY <1>2, <2>1
  <1>3. ASSUME NEW c \in Clients, SendFirstReq(c)
        PROVE /\ FrontFrame /\ StatsFrame /\ StartFrame /\ OutputFrame
              /\ InputFrame /\ FirstReqFrame /\ EngineFrame
              /\ PauseFrame /\ ClientFrame /\ SentFrame /\ CoordinatorFrame
              /\ ReqsFrame /\ ControlFrame
    BY <1>3 DEF SendFirstReq
  <1>4. ASSUME NEW c \in Clients, UpdateStats(c)
        PROVE /\ FrontFrame /\ StatsFrame /\ StartFrame /\ OutputFrame
              /\ InputFrame /\ FirstReqFrame /\ EngineFrame
              /\ PauseFrame /\ ClientFrame /\ SentFrame /\ CoordinatorFrame
              /\ ReqsFrame /\ ControlFrame
    BY <1>4 DEF UpdateStats
  <1>5. ASSUME NEW c \in Clients, HandleFront(c)
        PROVE /\ FrontFrame /\ StatsFrame /\ StartFrame /\ OutputFrame
              /\ InputFrame /\ FirstReqFrame /\ EngineFrame
              /\ PauseFrame /\ ClientFrame /\ SentFrame /\ CoordinatorFrame
              /\ ReqsFrame /\ ControlFrame
    BY <1>5 DEF HandleFront
  <1>6. ASSUME NEW e \in Engines, HandleWaveComplete(e)
        PROVE /\ FrontFrame /\ StatsFrame /\ StartFrame /\ OutputFrame
              /\ InputFrame /\ FirstReqFrame /\ EngineFrame
              /\ PauseFrame /\ ClientFrame /\ SentFrame /\ CoordinatorFrame
              /\ ReqsFrame /\ ControlFrame
    BY <1>6 DEF HandleWaveComplete
  <1>7. ASSUME NEW e \in Engines, HandleStartWave(e)
        PROVE /\ FrontFrame /\ StatsFrame /\ StartFrame /\ OutputFrame
              /\ InputFrame /\ FirstReqFrame /\ EngineFrame
              /\ PauseFrame /\ ClientFrame /\ SentFrame /\ CoordinatorFrame
              /\ ReqsFrame /\ ControlFrame
    BY <1>7 DEF HandleStartWave
  <1>8. CASE PublishStats
    BY <1>8 DEF PublishStats
  <1>9. ASSUME NEW e \in Engines, HandleStartDPWave(e)
        PROVE /\ FrontFrame /\ StatsFrame /\ StartFrame /\ OutputFrame
              /\ InputFrame /\ FirstReqFrame /\ EngineFrame
              /\ PauseFrame /\ ClientFrame /\ SentFrame /\ CoordinatorFrame
              /\ ReqsFrame /\ ControlFrame
    BY <1>9 DEF HandleStartDPWave
  <1>10. ASSUME NEW c \in Clients, NEW e \in Engines, HandleAdd(c, e)
        PROVE /\ FrontFrame /\ StatsFrame /\ StartFrame /\ OutputFrame
              /\ InputFrame /\ FirstReqFrame /\ EngineFrame
              /\ PauseFrame /\ ClientFrame /\ SentFrame /\ CoordinatorFrame
              /\ ReqsFrame /\ ControlFrame
    BY <1>10 DEF HandleAdd, Take
  <1>11. ASSUME NEW c \in Clients, NEW e \in Engines, HandleAbort(c, e)
        PROVE /\ FrontFrame /\ StatsFrame /\ StartFrame /\ OutputFrame
              /\ InputFrame /\ FirstReqFrame /\ EngineFrame
              /\ PauseFrame /\ ClientFrame /\ SentFrame /\ CoordinatorFrame
              /\ ReqsFrame /\ ControlFrame
    BY <1>11 DEF HandleAbort, Take
  <1>12. ASSUME NEW c \in Clients, NEW e \in Engines, HandlePause(c, e)
        PROVE /\ FrontFrame /\ StatsFrame /\ StartFrame /\ OutputFrame
              /\ InputFrame /\ FirstReqFrame /\ EngineFrame
              /\ PauseFrame /\ ClientFrame /\ SentFrame /\ CoordinatorFrame
              /\ ReqsFrame /\ ControlFrame
    BY <1>12 DEF HandlePause, Take
  <1>13. ASSUME NEW c \in Clients, NEW e \in Engines, HandleResume(c, e)
        PROVE /\ FrontFrame /\ StatsFrame /\ StartFrame /\ OutputFrame
              /\ InputFrame /\ FirstReqFrame /\ EngineFrame
              /\ PauseFrame /\ ClientFrame /\ SentFrame /\ CoordinatorFrame
              /\ ReqsFrame /\ ControlFrame
    BY <1>13 DEF HandleResume, Take
  <1>14. ASSUME NEW e \in Engines, BeginStep(e)
        PROVE /\ FrontFrame /\ StatsFrame /\ StartFrame /\ OutputFrame
              /\ InputFrame /\ FirstReqFrame /\ EngineFrame
              /\ PauseFrame /\ ClientFrame /\ SentFrame /\ CoordinatorFrame
              /\ ReqsFrame /\ ControlFrame
    BY <1>14 DEF BeginStep
  <1>15. ASSUME NEW e \in Engines, PauseDone(e)
        PROVE /\ FrontFrame /\ StatsFrame /\ StartFrame /\ OutputFrame
              /\ InputFrame /\ FirstReqFrame /\ EngineFrame
              /\ PauseFrame /\ ClientFrame /\ SentFrame /\ CoordinatorFrame
              /\ ReqsFrame /\ ControlFrame
    BY <1>15 DEF PauseDone
  <1>16. ASSUME NEW e \in Engines, Pause(e)
        PROVE /\ FrontFrame /\ StatsFrame /\ StartFrame /\ OutputFrame
              /\ InputFrame /\ FirstReqFrame /\ EngineFrame
              /\ PauseFrame /\ ClientFrame /\ SentFrame /\ CoordinatorFrame
              /\ ReqsFrame /\ ControlFrame
    BY <1>16 DEF Pause, SendPause
  <1>17. ASSUME NEW e \in Engines, PauseOthers(e)
        PROVE /\ FrontFrame /\ StatsFrame /\ StartFrame /\ OutputFrame
              /\ InputFrame /\ FirstReqFrame /\ EngineFrame
              /\ PauseFrame /\ ClientFrame /\ SentFrame /\ CoordinatorFrame
              /\ ReqsFrame /\ ControlFrame
    BY <1>17 DEF PauseOthers, SendPause
  <1>18. ASSUME NEW e \in Engines, Resume(e)
        PROVE /\ FrontFrame /\ StatsFrame /\ StartFrame /\ OutputFrame
              /\ InputFrame /\ FirstReqFrame /\ EngineFrame
              /\ PauseFrame /\ ClientFrame /\ SentFrame /\ CoordinatorFrame
              /\ ReqsFrame /\ ControlFrame
    BY <1>18 DEF Resume, SendResume
  <1>19. ASSUME NEW e \in Engines, ResumeOthers(e)
        PROVE /\ FrontFrame /\ StatsFrame /\ StartFrame /\ OutputFrame
              /\ InputFrame /\ FirstReqFrame /\ EngineFrame
              /\ PauseFrame /\ ClientFrame /\ SentFrame /\ CoordinatorFrame
              /\ ReqsFrame /\ ControlFrame
    BY <1>19 DEF ResumeOthers, SendResume
  <1>20. ASSUME NEW Finished \in SUBSET Requests, Forward(Finished)
        PROVE /\ FrontFrame /\ StatsFrame /\ StartFrame /\ OutputFrame
              /\ InputFrame /\ FirstReqFrame /\ EngineFrame
              /\ PauseFrame /\ ClientFrame /\ SentFrame /\ CoordinatorFrame
              /\ ReqsFrame /\ ControlFrame
    BY <1>20 DEF Forward
  <1>21. CASE AllReduce
    BY <1>21 DEF AllReduce
  <1>22. CASE ResumeBarrier
    BY <1>22 DEF ResumeBarrier
  <1>23. CASE UNCHANGED vars
    BY <1>23 DEF vars
  <1> QED BY <1>1, <1>2, <1>3, <1>4, <1>5, <1>6, <1>7, <1>8, <1>9, <1>10, <1>11, <1>12,
             <1>13, <1>14, <1>15, <1>16, <1>17, <1>18, <1>19, <1>20, <1>21, <1>22, <1>23
    DEF Next, ClientStep, CoordinatorStep, EngineInput, EngineStep, AdminStep, Collective

-----------------------------------------------------------------------------
(* What a step does to the queues                                           *)

FrontMoves ==
  /\ front' \in [Clients -> Seq(Notice)]
  /\ \A c \in Clients : \A m \in Msgs(front'[c]) :
       m \in Msgs(front[c]) \/ m.wave = cl_wave[c]

StatsMoves ==
  /\ stats' \in [Clients -> Seq(State)] /\ \A c \in Clients : Len(stats'[c]) <= 1
  /\ \A c \in Clients : \A m \in Msgs(stats'[c]) :
       m \in Msgs(stats[c]) \/ m.wave = co_wave'

StartMoves ==
  /\ start' \in [Engines -> Seq(Notice)]
  /\ \A e \in Engines : \A m \in Msgs(start'[e]) :
       m \in Msgs(start[e]) \/ m.wave = co_wave'

OutputMoves ==
  /\ output' \in [Engines -> Seq(Report)]
  /\ \A e \in Engines : \A m \in Msgs(output'[e]) :
       \/ m \in Msgs(output[e])
       \/ m.type = "start_wave" /\ m.wave = wave[e]
       \/ m.wave = wave[0] /\ wave' = [f \in Engines |-> wave[f] + 1]

InputMoves ==
  /\ InputType'
  /\ \A c \in Clients, e \in Engines : \A m \in Msgs(input'[c][e]) :
       \/ m \in Msgs(input[c][e])
       \/ m.type # "ADD"
       \/ m.req \in sent' /\ m.wave = cl_wave[c]

FirstReqMoves == first_req' \in [Clients -> Seq(Engines)]

CoordinatorMoves ==
  /\ co_wave' \in Nat /\ co_running' \in BOOLEAN
  /\ \/ co_wave' = co_wave
     \/ \E e \in Engines : \E m \in Msgs(output[e]) :
          \/ m.type = "start_wave" /\ co_wave' = m.wave
          \/ m.type = "wave_complete" /\ co_wave' = m.wave + 1

(* A notice carries its client's wave.                                      *)
LEMMA FrontStep ==
  ASSUME TypeOK, [Next]_vars
  PROVE FrontMoves
  <1>1. ASSUME NEW c \in Clients, SendFirstReq(c)
        PROVE FrontMoves
    <2>1. first_req[c] \in Seq(Engines) /\ first_req[c] # <<>>
      BY <1>1 DEF SendFirstReq, TypeOK
    <2>2. Head(first_req[c]) \in Engines
      BY <2>1, HeadTail
    <2>3. PICK m \in Notice : m = [exclude |-> Head(first_req[c]), wave |-> cl_wave[c]]
      BY <2>2 DEF TypeOK, Notice
    <2>4. front \in [Clients -> Seq(Notice)] /\ front[c] \in Seq(Notice)
      BY DEF TypeOK
    <2>6. PICK q \in Seq(Notice) : q = Append(front[c], m)
      BY <2>4, Appended
    <2>7. Msgs(q) = Msgs(front[c]) \union {m}
      BY <2>4, <2>6, Appended
    <2>8. front' = [front EXCEPT ![c] = q]
      BY <1>1, <2>3, <2>6 DEF SendFirstReq
    <2>5. /\ front' \in [Clients -> Seq(Notice)]
          /\ \A x \in Clients :
               Msgs(front'[x]) = Msgs(front[x]) \union (IF x = c THEN {m} ELSE {})
      BY <2>4, <2>7, <2>8
    <2> QED BY <2>3, <2>5 DEF FrontMoves
  <1>2. ASSUME NEW c \in Clients, HandleFront(c)
        PROVE FrontMoves
    <2>1. /\ front' = [front EXCEPT ![c] = Tail(@)] /\ front \in [Clients -> Seq(Notice)]
          /\ front[c] # <<>>
      BY <1>2 DEF HandleFront, TypeOK
    <2>2. /\ front' \in [Clients -> Seq(Notice)]
          /\ \A x \in Clients : Msgs(front'[x]) \subseteq Msgs(front[x])
      BY <2>1, QTail
    <2> QED BY <2>2 DEF FrontMoves
  <1>3. CASE UNCHANGED front
    BY <1>3 DEF TypeOK, FrontMoves
  <1> QED BY <1>1, <1>2, <1>3, Frames DEF FrontFrame

(* What the coordinator publishes is its own wave.                          *)
LEMMA StatsStep ==
  ASSUME TypeOK, [Next]_vars
  PROVE StatsMoves
  <1>1. ASSUME NEW c \in Clients, UpdateStats(c)
        PROVE StatsMoves
    <2>1. stats' = [stats EXCEPT ![c] = <<>>] /\ stats \in [Clients -> Seq(State)]
      BY <1>1 DEF UpdateStats, TypeOK
    <2>2. \A x \in Clients : stats'[x] = stats[x] \/ stats'[x] = <<>>
      BY <2>1
    <2>3. <<>> \in Seq(State) /\ Len(<<>>) <= 1
      OBVIOUS
    <2>4. stats' \in [Clients -> Seq(State)]
      BY <2>1, <2>3
    <2> QED BY <2>2, <2>3, <2>4, EmptyMsgs DEF StatsMoves, TypeOK
  <1>2. ASSUME NEW c \in Clients, HandleFront(c)
        PROVE StatsMoves
    <2>1. CASE ~co_running
      <3>2. /\ [wave |-> co_wave, running |-> TRUE] \in State
            /\ co_wave = co_wave'
        BY <1>2, <2>1 DEF HandleFront, TypeOK, State, Report
      <3>0. PICK s \in State : s = [wave |-> co_wave, running |-> TRUE]
        BY <3>2
      <3>6. s.wave = co_wave'
        BY <3>0, <3>2
      <3>1. stats' = [x \in Clients |-> <<s>>]
        BY <1>2, <2>1, <3>0 DEF HandleFront, publish_front
      <3>3. <<s>> \in Seq(State) /\ Len(<<s>>) <= 1
        OBVIOUS
      <3>4. \A x \in Clients : Msgs(stats'[x]) = {s}
        BY <3>1, OneMsg
      <3>5. stats' \in [Clients -> Seq(State)] /\ \A x \in Clients : Len(stats'[x]) <= 1
        BY <3>1, <3>3
      <3> QED BY <3>4, <3>5, <3>6 DEF StatsMoves
    <2>2. CASE UNCHANGED stats
      BY <2>2 DEF TypeOK, StatsMoves
    <2> QED BY <1>2, <2>1, <2>2 DEF HandleFront
  <1>3. ASSUME NEW e \in Engines, HandleWaveComplete(e)
        PROVE StatsMoves
    <2>0. Head(output[e]) \in Report
      <3>1. output[e] \in Seq(Report) /\ output[e] # <<>>
        BY <1>3 DEF HandleWaveComplete, TypeOK
      <3> QED BY <3>1, HeadTail
    <2>1. CASE wave_ended(Head(output[e]).wave)
      <3>2. /\ [wave |-> Head(output[e]).wave + 1, running |-> FALSE] \in State
            /\ Head(output[e]).wave + 1 = co_wave'
        BY <1>3, <2>1, <2>0 DEF HandleWaveComplete, TypeOK, State, Report
      <3>0. PICK s \in State : s = [wave |-> Head(output[e]).wave + 1, running |-> FALSE]
        BY <3>2
      <3>6. s.wave = co_wave'
        BY <3>0, <3>2
      <3>1. stats' = [x \in Clients |-> <<s>>]
        BY <1>3, <2>1, <3>0 DEF HandleWaveComplete, publish_front
      <3>3. <<s>> \in Seq(State) /\ Len(<<s>>) <= 1
        OBVIOUS
      <3>4. \A x \in Clients : Msgs(stats'[x]) = {s}
        BY <3>1, OneMsg
      <3>5. stats' \in [Clients -> Seq(State)] /\ \A x \in Clients : Len(stats'[x]) <= 1
        BY <3>1, <3>3
      <3> QED BY <3>4, <3>5, <3>6 DEF StatsMoves
    <2>2. CASE UNCHANGED stats
      BY <2>2 DEF TypeOK, StatsMoves
    <2> QED BY <1>3, <2>1, <2>2 DEF HandleWaveComplete
  <1>4. ASSUME NEW e \in Engines, HandleStartWave(e)
        PROVE StatsMoves
    <2>0. Head(output[e]) \in Report
      <3>1. output[e] \in Seq(Report) /\ output[e] # <<>>
        BY <1>4 DEF HandleStartWave, TypeOK
      <3> QED BY <3>1, HeadTail
    <2>1. CASE \/ Head(output[e]).wave > co_wave
               \/ Head(output[e]).wave = co_wave /\ ~co_running
      <3>2. /\ [wave |-> Head(output[e]).wave, running |-> TRUE] \in State
            /\ Head(output[e]).wave = co_wave'
        BY <1>4, <2>1, <2>0 DEF HandleStartWave, TypeOK, State, Report
      <3>0. PICK s \in State : s = [wave |-> Head(output[e]).wave, running |-> TRUE]
        BY <3>2
      <3>6. s.wave = co_wave'
        BY <3>0, <3>2
      <3>1. stats' = [x \in Clients |-> <<s>>]
        BY <1>4, <2>1, <3>0 DEF HandleStartWave, publish_front
      <3>3. <<s>> \in Seq(State) /\ Len(<<s>>) <= 1
        OBVIOUS
      <3>4. \A x \in Clients : Msgs(stats'[x]) = {s}
        BY <3>1, OneMsg
      <3>5. stats' \in [Clients -> Seq(State)] /\ \A x \in Clients : Len(stats'[x]) <= 1
        BY <3>1, <3>3
      <3> QED BY <3>4, <3>5, <3>6 DEF StatsMoves
    <2>2. CASE UNCHANGED stats
      BY <2>2 DEF TypeOK, StatsMoves
    <2> QED BY <1>4, <2>1, <2>2 DEF HandleStartWave
  <1>5. CASE PublishStats
    <2>1. UNCHANGED co_wave
      BY <1>5 DEF PublishStats, coordinator
    <2>2. StatsMoves
      <3>2. /\ [wave |-> co_wave, running |-> co_running] \in State
            /\ co_wave = co_wave'
        BY <1>5, <2>1 DEF PublishStats, TypeOK, State, Report
      <3>0. PICK s \in State : s = [wave |-> co_wave, running |-> co_running]
        BY <3>2
      <3>6. s.wave = co_wave'
        BY <3>0, <3>2
      <3>1. stats' = [x \in Clients |-> <<s>>]
        BY <1>5, <2>1, <3>0 DEF PublishStats, publish_front
      <3>3. <<s>> \in Seq(State) /\ Len(<<s>>) <= 1
        OBVIOUS
      <3>4. \A x \in Clients : Msgs(stats'[x]) = {s}
        BY <3>1, OneMsg
      <3>5. stats' \in [Clients -> Seq(State)] /\ \A x \in Clients : Len(stats'[x]) <= 1
        BY <3>1, <3>3
      <3> QED BY <3>4, <3>5, <3>6 DEF StatsMoves
    <2> QED BY <2>2
  <1>6. CASE UNCHANGED stats
    BY <1>6 DEF TypeOK, StatsMoves
  <1> QED BY <1>1, <1>2, <1>3, <1>4, <1>5, <1>6, Frames DEF StatsFrame

(* START_DP_WAVE carries the coordinator's wave.                            *)
LEMMA StartStep ==
  ASSUME TypeOK, [Next]_vars
  PROVE StartMoves
  <1>1. ASSUME NEW c \in Clients, HandleFront(c)
        PROVE StartMoves
    <2>0. Head(front[c]) \in Notice
      <3>1. front[c] \in Seq(Notice) /\ front[c] # <<>>
        BY <1>1 DEF HandleFront, TypeOK
      <3> QED BY <3>1, HeadTail
    <2>1. CASE ~co_running
      <3> DEFINE m == [wave |-> co_wave, exclude |-> excluded(Head(front[c]))]
      <3>1. start' = [x \in Engines |-> Append(start[x], m)]
        BY <1>1, <2>1 DEF HandleFront, _send_start_wave
      <3>2. m \in Notice /\ m.wave = co_wave'
        BY <1>1, <2>1, <2>0 DEF HandleFront, TypeOK, Notice, Report, excluded
      <3> HIDE DEF m
      <3>3. ASSUME NEW x \in Engines
            PROVE start'[x] \in Seq(Notice) /\ Msgs(start'[x]) = Msgs(start[x]) \union {m}
        <4>1. start[x] \in Seq(Notice)
          BY DEF TypeOK
        <4> QED BY <3>1, <3>2, <4>1, Appended
      <3>4. start' \in [Engines -> Seq(Notice)]
        BY <3>1, <3>3
      <3> QED BY <3>2, <3>3, <3>4 DEF StartMoves
    <2>2. CASE UNCHANGED start
      BY <2>2 DEF TypeOK, StartMoves
    <2> QED BY <1>1, <2>1, <2>2 DEF HandleFront
  <1>2. ASSUME NEW e \in Engines, HandleStartWave(e)
        PROVE StartMoves
    <2>0. Head(output[e]) \in Report
      <3>1. output[e] \in Seq(Report) /\ output[e] # <<>>
        BY <1>2 DEF HandleStartWave, TypeOK
      <3> QED BY <3>1, HeadTail
    <2>1. CASE \/ Head(output[e]).wave > co_wave
               \/ Head(output[e]).wave = co_wave /\ ~co_running
      <3> DEFINE m == [wave |-> Head(output[e]).wave, exclude |-> e]
      <3>1. start' = [x \in Engines |-> Append(start[x], m)]
        BY <1>2, <2>1 DEF HandleStartWave, _send_start_wave
      <3>2. m \in Notice /\ m.wave = co_wave'
        BY <1>2, <2>1, <2>0 DEF HandleStartWave, TypeOK, Notice, Report, excluded
      <3> HIDE DEF m
      <3>3. ASSUME NEW x \in Engines
            PROVE start'[x] \in Seq(Notice) /\ Msgs(start'[x]) = Msgs(start[x]) \union {m}
        <4>1. start[x] \in Seq(Notice)
          BY DEF TypeOK
        <4> QED BY <3>1, <3>2, <4>1, Appended
      <3>4. start' \in [Engines -> Seq(Notice)]
        BY <3>1, <3>3
      <3> QED BY <3>2, <3>3, <3>4 DEF StartMoves
    <2>2. CASE UNCHANGED start
      BY <2>2 DEF TypeOK, StartMoves
    <2> QED BY <1>2, <2>1, <2>2 DEF HandleStartWave
  <1>3. ASSUME NEW e \in Engines, HandleStartDPWave(e)
        PROVE StartMoves
    <2>1. /\ start' = [start EXCEPT ![e] = Tail(@)] /\ start \in [Engines -> Seq(Notice)]
          /\ start[e] # <<>>
      BY <1>3 DEF HandleStartDPWave, TypeOK
    <2>2. /\ start' \in [Engines -> Seq(Notice)]
          /\ \A x \in Engines : Msgs(start'[x]) \subseteq Msgs(start[x])
      BY <2>1, QTail
    <2> QED BY <2>2 DEF StartMoves
  <1>4. CASE UNCHANGED start
    BY <1>4 DEF TypeOK, StartMoves
  <1> QED BY <1>1, <1>2, <1>3, <1>4, Frames DEF StartFrame

(* An engine reports the wave it is in or the one it has just ended.        *)
LEMMA OutputStep ==
  ASSUME TypeOK, [Next]_vars
  PROVE OutputMoves
  <1>1. ASSUME NEW e \in Engines, HandleWaveComplete(e)
        PROVE OutputMoves
    <2>1. /\ output' = [output EXCEPT ![e] = Tail(@)] /\ output \in [Engines -> Seq(Report)]
          /\ output[e] # <<>>
      BY <1>1 DEF HandleWaveComplete, TypeOK
    <2>2. /\ output' \in [Engines -> Seq(Report)]
          /\ \A x \in Engines : Msgs(output'[x]) \subseteq Msgs(output[x])
      BY <2>1, QTail
    <2> QED BY <2>2 DEF OutputMoves
  <1>2. ASSUME NEW e \in Engines, HandleStartWave(e)
        PROVE OutputMoves
    <2>1. /\ output' = [output EXCEPT ![e] = Tail(@)] /\ output \in [Engines -> Seq(Report)]
          /\ output[e] # <<>>
      BY <1>2 DEF HandleStartWave, TypeOK
    <2>2. /\ output' \in [Engines -> Seq(Report)]
          /\ \A x \in Engines : Msgs(output'[x]) \subseteq Msgs(output[x])
      BY <2>1, QTail
    <2> QED BY <2>2 DEF OutputMoves
  <1>3. ASSUME NEW c \in Clients, NEW e \in Engines, HandleAdd(c, e)
        PROVE OutputMoves
    <2>1. CASE restarts(e, Head(input[c][e]).wave)
      <3>2. PICK m \in Report : m = [type |-> "start_wave", wave |-> wave[e]]
        BY Constants DEF TypeOK, Report
      <3>1. output \in [Engines -> Seq(Report)] /\ output[e] \in Seq(Report)
        BY Constants DEF TypeOK
      <3>6. PICK q \in Seq(Report) : q = Append(output[e], m)
        BY <3>1, Appended
      <3>7. Msgs(q) = Msgs(output[e]) \union {m}
        BY <3>1, <3>6, Appended
      <3>8. output' = [output EXCEPT ![e] = q]
        BY <1>3, <2>1, <3>2, <3>6 DEF HandleAdd
      <3>3. /\ output' \in [Engines -> Seq(Report)]
            /\ \A x \in Engines :
                 Msgs(output'[x]) = Msgs(output[x]) \union (IF x = e THEN {m} ELSE {})
        BY <3>1, <3>7, <3>8, Constants
      <3> QED BY <3>2, <3>3 DEF OutputMoves
    <2>2. CASE UNCHANGED output
      BY <2>2 DEF TypeOK, OutputMoves
    <2> QED BY <1>3, <2>1, <2>2 DEF HandleAdd
  <1>4. CASE AllReduce
    <2>1. CASE ~has_unfinished_global
      <3>2. PICK m \in Report : m = [type |-> "wave_complete", wave |-> wave[0]]
        BY Constants DEF TypeOK, Report
      <3>1. output \in [Engines -> Seq(Report)] /\ output[0] \in Seq(Report)
        BY Constants DEF TypeOK
      <3>6. PICK q \in Seq(Report) : q = Append(output[0], m)
        BY <3>1, Appended
      <3>7. Msgs(q) = Msgs(output[0]) \union {m}
        BY <3>1, <3>6, Appended
      <3>8. output' = [output EXCEPT ![0] = q]
        BY <1>4, <2>1, <3>2, <3>6 DEF AllReduce, wave_complete
      <3>3. /\ output' \in [Engines -> Seq(Report)]
            /\ \A x \in Engines :
                 Msgs(output'[x]) = Msgs(output[x]) \union (IF x = 0 THEN {m} ELSE {})
        BY <3>1, <3>7, <3>8, Constants
      <3>4. wave' = [f \in Engines |-> wave[f] + 1]
        BY <1>4, <2>1 DEF AllReduce
      <3> QED BY <3>2, <3>3, <3>4 DEF OutputMoves
    <2>2. CASE UNCHANGED output
      BY <2>2 DEF TypeOK, OutputMoves
    <2> QED BY <1>4, <2>1, <2>2 DEF AllReduce
  <1>5. CASE UNCHANGED output
    BY <1>5 DEF TypeOK, OutputMoves
  <1> QED BY <1>1, <1>2, <1>3, <1>4, <1>5, Frames DEF OutputFrame

(* A request carries its client's wave.                                     *)
LEMMA InputStep ==
  ASSUME TypeOK, [Next]_vars
  PROVE InputMoves
  <1>1. ASSUME NEW c \in Clients, NEW r \in Requests, NEW e \in Engines, AddRequest(c, r, e)
        PROVE InputMoves
    <2>2. PICK m \in Message : m = [type |-> "ADD", req |-> r, wave |-> cl_wave[c]]
      BY DEF TypeOK, Message
    <2>1. InputType /\ input[c][e] \in Seq(Message)
      BY InputIs, Constants
    <2>6. PICK q \in Seq(Message) : q = Append(input[c][e], m)
      BY <2>1, Appended
    <2>7. Msgs(q) = Msgs(input[c][e]) \union {m}
      BY <2>1, <2>6, Appended
    <2>8. input' = [input EXCEPT ![c][e] = q]
      BY <1>1, <2>2, <2>6 DEF AddRequest
    <2>3. /\ InputType' /\ Msgs(input'[c][e]) = Msgs(input[c][e]) \union {m}
          /\ \A d \in Clients, f \in Engines : d # c \/ f # e => input'[d][f] = input[d][f]
      BY <2>1, <2>7, <2>8, Constants DEF InputType
    <2>4. m.type # "ADD" \/ (m.req \in sent' /\ m.wave = cl_wave[c])
      BY <1>1, <2>2 DEF AddRequest
    <2> QED BY <2>3, <2>4 DEF InputMoves
  <1>2. ASSUME NEW c \in Clients, NEW r \in Requests, NEW e \in Engines, AbortRequest(c, r, e)
        PROVE InputMoves
    <2>2. PICK m \in Message : m = [type |-> "ABORT", req |-> r]
      BY DEF TypeOK, Message
    <2>1. InputType /\ input[c][e] \in Seq(Message)
      BY InputIs, Constants
    <2>6. PICK q \in Seq(Message) : q = Append(input[c][e], m)
      BY <2>1, Appended
    <2>7. Msgs(q) = Msgs(input[c][e]) \union {m}
      BY <2>1, <2>6, Appended
    <2>8. input' = [input EXCEPT ![c][e] = q]
      BY <1>2, <2>2, <2>6 DEF AbortRequest
    <2>3. /\ InputType' /\ Msgs(input'[c][e]) = Msgs(input[c][e]) \union {m}
          /\ \A d \in Clients, f \in Engines : d # c \/ f # e => input'[d][f] = input[d][f]
      BY <2>1, <2>7, <2>8, Constants DEF InputType
    <2>4. m.type # "ADD" \/ (m.req \in sent' /\ m.wave = cl_wave[c])
      BY <1>2, <2>2 DEF AbortRequest
    <2> QED BY <2>3, <2>4 DEF InputMoves
  <1>3. ASSUME NEW e \in Engines, Pause(e)
        PROVE InputMoves
    <2>2. PICK m \in Message : m = [type |-> "PAUSE"]
      BY DEF TypeOK, Message
    <2>1. InputType /\ input[Admin][e] \in Seq(Message)
      BY InputIs, Constants
    <2>6. PICK q \in Seq(Message) : q = Append(input[Admin][e], m)
      BY <2>1, Appended
    <2>7. Msgs(q) = Msgs(input[Admin][e]) \union {m}
      BY <2>1, <2>6, Appended
    <2>8. input' = [input EXCEPT ![Admin][e] = q]
      BY <1>3, <2>2, <2>6 DEF Pause, SendPause
    <2>3. /\ InputType' /\ Msgs(input'[Admin][e]) = Msgs(input[Admin][e]) \union {m}
          /\ \A d \in Clients, f \in Engines : d # Admin \/ f # e => input'[d][f] = input[d][f]
      BY <2>1, <2>7, <2>8, Constants DEF InputType
    <2>4. m.type # "ADD" \/ (m.req \in sent' /\ m.wave = cl_wave[Admin])
      BY <1>3, <2>2 DEF Pause
    <2> QED BY <2>3, <2>4 DEF InputMoves
  <1>4. ASSUME NEW e \in Engines, PauseOthers(e)
        PROVE InputMoves
    <2>2. PICK m \in Message : m = [type |-> "PAUSE"]
      BY DEF TypeOK, Message
    <2>1. InputType /\ input[Admin][e] \in Seq(Message)
      BY InputIs, Constants
    <2>6. PICK q \in Seq(Message) : q = Append(input[Admin][e], m)
      BY <2>1, Appended
    <2>7. Msgs(q) = Msgs(input[Admin][e]) \union {m}
      BY <2>1, <2>6, Appended
    <2>8. input' = [input EXCEPT ![Admin][e] = q]
      BY <1>4, <2>2, <2>6 DEF PauseOthers, SendPause
    <2>3. /\ InputType' /\ Msgs(input'[Admin][e]) = Msgs(input[Admin][e]) \union {m}
          /\ \A d \in Clients, f \in Engines : d # Admin \/ f # e => input'[d][f] = input[d][f]
      BY <2>1, <2>7, <2>8, Constants DEF InputType
    <2>4. m.type # "ADD" \/ (m.req \in sent' /\ m.wave = cl_wave[Admin])
      BY <1>4, <2>2 DEF PauseOthers
    <2> QED BY <2>3, <2>4 DEF InputMoves
  <1>5. ASSUME NEW e \in Engines, Resume(e)
        PROVE InputMoves
    <2>2. PICK m \in Message : m = [type |-> "RESUME"]
      BY DEF TypeOK, Message
    <2>1. InputType /\ input[Admin][e] \in Seq(Message)
      BY InputIs, Constants
    <2>6. PICK q \in Seq(Message) : q = Append(input[Admin][e], m)
      BY <2>1, Appended
    <2>7. Msgs(q) = Msgs(input[Admin][e]) \union {m}
      BY <2>1, <2>6, Appended
    <2>8. input' = [input EXCEPT ![Admin][e] = q]
      BY <1>5, <2>2, <2>6 DEF Resume, SendResume
    <2>3. /\ InputType' /\ Msgs(input'[Admin][e]) = Msgs(input[Admin][e]) \union {m}
          /\ \A d \in Clients, f \in Engines : d # Admin \/ f # e => input'[d][f] = input[d][f]
      BY <2>1, <2>7, <2>8, Constants DEF InputType
    <2>4. m.type # "ADD" \/ (m.req \in sent' /\ m.wave = cl_wave[Admin])
      BY <1>5, <2>2 DEF Resume
    <2> QED BY <2>3, <2>4 DEF InputMoves
  <1>6. ASSUME NEW e \in Engines, ResumeOthers(e)
        PROVE InputMoves
    <2>2. PICK m \in Message : m = [type |-> "RESUME"]
      BY DEF TypeOK, Message
    <2>1. InputType /\ input[Admin][e] \in Seq(Message)
      BY InputIs, Constants
    <2>6. PICK q \in Seq(Message) : q = Append(input[Admin][e], m)
      BY <2>1, Appended
    <2>7. Msgs(q) = Msgs(input[Admin][e]) \union {m}
      BY <2>1, <2>6, Appended
    <2>8. input' = [input EXCEPT ![Admin][e] = q]
      BY <1>6, <2>2, <2>6 DEF ResumeOthers, SendResume
    <2>3. /\ InputType' /\ Msgs(input'[Admin][e]) = Msgs(input[Admin][e]) \union {m}
          /\ \A d \in Clients, f \in Engines : d # Admin \/ f # e => input'[d][f] = input[d][f]
      BY <2>1, <2>7, <2>8, Constants DEF InputType
    <2>4. m.type # "ADD" \/ (m.req \in sent' /\ m.wave = cl_wave[Admin])
      BY <1>6, <2>2 DEF ResumeOthers
    <2> QED BY <2>3, <2>4 DEF InputMoves
  <1>7. ASSUME NEW c \in Clients, NEW e \in Engines, HandleAdd(c, e)
        PROVE InputMoves
    <2>1. /\ input' = [input EXCEPT ![c][e] = Tail(@)] /\ InputType
          /\ input[c][e] # <<>>
      BY <1>7 DEF HandleAdd, Take, TypeOK, InputType
    <2>2. /\ InputType'
          /\ \A d \in Clients, f \in Engines : Msgs(input'[d][f]) \subseteq Msgs(input[d][f])
      BY <2>1, InputTake
    <2> QED BY <2>2 DEF InputMoves
  <1>8. ASSUME NEW c \in Clients, NEW e \in Engines, HandleAbort(c, e)
        PROVE InputMoves
    <2>1. /\ input' = [input EXCEPT ![c][e] = Tail(@)] /\ InputType
          /\ input[c][e] # <<>>
      BY <1>8 DEF HandleAbort, Take, TypeOK, InputType
    <2>2. /\ InputType'
          /\ \A d \in Clients, f \in Engines : Msgs(input'[d][f]) \subseteq Msgs(input[d][f])
      BY <2>1, InputTake
    <2> QED BY <2>2 DEF InputMoves
  <1>9. ASSUME NEW c \in Clients, NEW e \in Engines, HandlePause(c, e)
        PROVE InputMoves
    <2>1. /\ input' = [input EXCEPT ![c][e] = Tail(@)] /\ InputType
          /\ input[c][e] # <<>>
      BY <1>9 DEF HandlePause, Take, TypeOK, InputType
    <2>2. /\ InputType'
          /\ \A d \in Clients, f \in Engines : Msgs(input'[d][f]) \subseteq Msgs(input[d][f])
      BY <2>1, InputTake
    <2> QED BY <2>2 DEF InputMoves
  <1>10. ASSUME NEW c \in Clients, NEW e \in Engines, HandleResume(c, e)
        PROVE InputMoves
    <2>1. /\ input' = [input EXCEPT ![c][e] = Tail(@)] /\ InputType
          /\ input[c][e] # <<>>
      BY <1>10 DEF HandleResume, Take, TypeOK, InputType
    <2>2. /\ InputType'
          /\ \A d \in Clients, f \in Engines : Msgs(input'[d][f]) \subseteq Msgs(input[d][f])
      BY <2>1, InputTake
    <2> QED BY <2>2 DEF InputMoves
  <1>11. CASE UNCHANGED input
    BY <1>11 DEF TypeOK, InputMoves, InputType
  <1> QED BY <1>1, <1>2, <1>3, <1>4, <1>5, <1>6, <1>7, <1>8, <1>9, <1>10, <1>11, Frames
             DEF InputFrame

(* The client's notices.                                                    *)
LEMMA FirstReqStep ==
  ASSUME TypeOK, [Next]_vars
  PROVE FirstReqMoves
  <1>1. ASSUME NEW c \in Clients, NEW r \in Requests, NEW e \in Engines, AddRequest(c, r, e)
        PROVE FirstReqMoves
    <2>1. first_req \in [Clients -> Seq(Engines)]
      BY DEF TypeOK
    <2>2. [first_req EXCEPT ![c] = Append(@, e)] \in [Clients -> Seq(Engines)]
      BY <2>1, QAppend
    <2> QED BY <1>1, <2>1, <2>2 DEF AddRequest, FirstReqMoves
  <1>2. ASSUME NEW c \in Clients, SendFirstReq(c)
        PROVE FirstReqMoves
    <2>1. first_req \in [Clients -> Seq(Engines)] /\ first_req[c] # <<>>
      BY <1>2 DEF SendFirstReq, TypeOK
    <2>2. [first_req EXCEPT ![c] = Tail(@)] \in [Clients -> Seq(Engines)]
      BY <2>1, QTail
    <2> QED BY <1>2, <2>2 DEF SendFirstReq, FirstReqMoves
  <1>3. CASE UNCHANGED first_req
    BY <1>3 DEF TypeOK, FirstReqMoves
  <1> QED BY <1>1, <1>2, <1>3, Frames DEF FirstReqFrame

(* The coordinator learns of waves from the engines.                        *)
LEMMA CoordinatorStepMoves ==
  ASSUME TypeOK, [Next]_vars
  PROVE CoordinatorMoves
  <1>1. ASSUME NEW c \in Clients, HandleFront(c)
        PROVE CoordinatorMoves
    BY <1>1 DEF HandleFront, TypeOK, CoordinatorMoves
  <1>2. ASSUME NEW e \in Engines, HandleWaveComplete(e)
        PROVE CoordinatorMoves
    <2>1. output[e] \in Seq(Report) /\ output[e] # <<>>
      BY <1>2 DEF HandleWaveComplete, TypeOK
    <2>2. Head(output[e]) \in Report /\ Head(output[e]) \in Msgs(output[e])
      BY <2>1, HeadTail
    <2>3. Head(output[e]).wave \in Nat
      BY <2>2 DEF Report
    <2>4. co_wave \in Nat /\ co_running \in BOOLEAN
      BY DEF TypeOK
    <2>5. \/ co_wave' = co_wave /\ co_running' = co_running
          \/ /\ co_running' \in BOOLEAN
             /\ co_wave' = Head(output[e]).wave + 1 /\ Head(output[e]).type = "wave_complete"
      BY <1>2, <2>3, <2>4 DEF HandleWaveComplete
    <2> QED BY <2>2, <2>3, <2>4, <2>5 DEF CoordinatorMoves
  <1>3. ASSUME NEW e \in Engines, HandleStartWave(e)
        PROVE CoordinatorMoves
    <2>1. output[e] \in Seq(Report) /\ output[e] # <<>>
      BY <1>3 DEF HandleStartWave, TypeOK
    <2>2. Head(output[e]) \in Report /\ Head(output[e]) \in Msgs(output[e])
      BY <2>1, HeadTail
    <2>3. Head(output[e]).wave \in Nat
      BY <2>2 DEF Report
    <2>4. co_wave \in Nat /\ co_running \in BOOLEAN
      BY DEF TypeOK
    <2>5. \/ co_wave' = co_wave /\ co_running' = co_running
          \/ /\ co_running' \in BOOLEAN
             /\ co_wave' = Head(output[e]).wave /\ Head(output[e]).type = "start_wave"
      BY <1>3, <2>3, <2>4 DEF HandleStartWave
    <2> QED BY <2>2, <2>3, <2>4, <2>5 DEF CoordinatorMoves
  <1>4. CASE UNCHANGED <<co_wave, co_running>>
    BY <1>4 DEF TypeOK, CoordinatorMoves
  <1> QED BY <1>1, <1>2, <1>3, <1>4, Frames DEF CoordinatorFrame

-----------------------------------------------------------------------------
(* The step lemmas                                                          *)

EngineMoves ==
  /\ wave' \in [Engines -> Nat]
  /\ wave' = wave \/ wave' = [f \in Engines |-> wave[f] + 1]
  /\ Uniform'

(* Waves advance in the all-reduce only, and for all engines.               *)
LEMMA EngineWaves ==
  ASSUME Inv, [Next]_vars
  PROVE EngineMoves
  <1>0. /\ wave \in [Engines -> Nat] /\ Uniform /\ 0 \in Engines
        /\ pc \in [Engines -> {"input", "forward", "reduce", "resume"}]
    BY Constants DEF Inv, TypeOK
  <1> USE <1>0 DEF Uniform, EngineMoves
  <1>1. ASSUME NEW c \in Clients, NEW e \in Engines, HandleAdd(c, e)
        PROVE EngineMoves
    <2>1. Head(input[c][e]) \in Msgs(input[c][e]) /\ Head(input[c][e]) \in Message
      <3>1. input[c][e] \in Seq(Message) /\ input[c][e] # <<>>
        BY <1>1 DEF HandleAdd, Take, Inv, TypeOK
      <3> QED BY <3>1, HeadTail
    <2>2. Head(input[c][e]).type = "ADD"
      BY <1>1 DEF HandleAdd, Take
    <2>3. Head(input[c][e]).wave <= wave[0] /\ Head(input[c][e]).wave \in Nat
      BY <2>1, <2>2 DEF AddsKnown, Message, Inv
    <2>4. wave' = wave
      <3>1. wave[e] = wave[0] /\ wave[e] \in Nat
        OBVIOUS
      <3>2. wave' = [wave EXCEPT ![e] = IF Head(input[c][e]).wave > @
                                       THEN Head(input[c][e]).wave ELSE @]
        BY <1>1 DEF HandleAdd
      <3>3. ~(Head(input[c][e]).wave > wave[e])
        BY <2>3, <3>1
      <3> HIDE DEF EngineMoves, Uniform
      <3> QED BY <3>2, <3>3
    <2> QED BY <1>1, <2>4 DEF HandleAdd
  <1>2. ASSUME NEW e \in Engines, HandleStartDPWave(e)
        PROVE EngineMoves
    <2>1. Head(start[e]) \in Msgs(start[e]) /\ Head(start[e]) \in Notice
      <3>1. start[e] \in Seq(Notice) /\ start[e] # <<>>
        BY <1>2 DEF HandleStartDPWave, Inv, TypeOK
      <3> QED BY <3>1, HeadTail
    <2>2. Head(start[e]).wave <= wave[0] /\ Head(start[e]).wave \in Nat
      BY <2>1 DEF WavesBounded, Notice, Inv
    <2>3. wave' = wave
      BY <1>2, <2>2, Constants DEF HandleStartDPWave
    <2> QED BY <1>2, <2>3 DEF HandleStartDPWave
  <1>3. ASSUME NEW c \in Clients, NEW e \in Engines, HandleResume(c, e)
        PROVE EngineMoves
    <2>1. /\ wave' = wave /\ step' = step
          /\ pc' = pc \/ pc' = [pc EXCEPT ![e] = "resume"]
      BY <1>3 DEF HandleResume
    <2>2. pc[e] = "input"
      BY <1>3 DEF HandleResume, Take
    <2> QED BY <2>1, <2>2
  <1>4. ASSUME NEW e \in Engines, BeginStep(e)
        PROVE EngineMoves
    BY <1>4 DEF BeginStep
  <1>5. ASSUME NEW Finished \in SUBSET Requests, Forward(Finished)
        PROVE EngineMoves
    <2>1. \A e, f \in Engines : next_step(e) = next_step(f)
      BY DEF next_step
    <2>2. /\ step' = [e \in Engines |-> next_step(e)] /\ wave' = wave
          /\ pc' = [e \in Engines |->
                      IF step'[e] % SyncInterval = 0 THEN "reduce" ELSE "input"]
      BY <1>5 DEF Forward
    <2> QED BY <2>1, <2>2
  <1>6. CASE AllReduce
    <2>1. /\ pc' = [e \in Engines |-> "input"]
          /\ step' = step \/ step' = [e \in Engines |-> 0]
      BY <1>6 DEF AllReduce
    <2>2. wave' = wave \/ wave' = [e \in Engines |-> wave[e] + 1]
      BY <1>6 DEF AllReduce
    <2> QED BY <2>1, <2>2
  <1>7. CASE ResumeBarrier
    BY <1>7 DEF ResumeBarrier
  <1>8. CASE UNCHANGED <<pc, wave, step>>
    BY <1>8 
  <1> QED BY <1>1, <1>2, <1>3, <1>4, <1>5, <1>6, <1>7, <1>8, Frames DEF EngineFrame

LEMMA StepWaves ==
  ASSUME Inv, [Next]_vars
  PROVE Uniform' /\ WavesBounded' /\ AddsKnown'
  <1>1. /\ EngineMoves /\ FrontMoves /\ StatsMoves /\ StartMoves /\ OutputMoves
        /\ InputMoves /\ CoordinatorMoves
    BY EngineWaves, FrontStep, StatsStep, StartStep, OutputStep, InputStep,
       CoordinatorStepMoves DEF Inv
  <1> DEFINE W == wave[0]
  <1>2. /\ W \in Nat /\ wave'[0] \in Nat /\ W <= wave'[0]
        /\ wave' = [f \in Engines |-> wave[f] + 1] => wave'[0] = W + 1
    BY <1>1, Constants DEF EngineMoves, Inv, TypeOK
  <1>3. \A e \in Engines : wave[e] = W
    BY Constants DEF Inv, Uniform
  <1>4. WavesBounded /\ AddsKnown /\ TypeOK
    BY DEF Inv
  <1> HIDE DEF W
  <1>5. co_wave' \in Nat /\ co_wave' <= W
    <2>1. CASE co_wave' = co_wave
      BY <1>4, <2>1 DEF WavesBounded, TypeOK, W
    <2>2. ASSUME NEW e \in Engines, NEW m \in Msgs(output[e]),
                 \/ m.type = "start_wave" /\ co_wave' = m.wave
                 \/ m.type = "wave_complete" /\ co_wave' = m.wave + 1
          PROVE co_wave' <= W
      <3>1. m \in Report
        <4>1. output[e] \in Seq(Report)
          BY <1>4 DEF TypeOK
        <4> QED BY <4>1, MsgType
      <3>2. m.wave \in Nat /\ m.wave <= W /\ (m.type = "wave_complete" => m.wave < W)
        BY <1>4, <3>1 DEF WavesBounded, Report, W
      <3> QED BY <1>2, <2>2, <3>2
    <2> QED BY <1>1, <2>1, <2>2 DEF CoordinatorMoves
  <1>6. ASSUME NEW c \in Clients
        PROVE /\ \A m \in Msgs(front'[c]) : m.wave <= wave'[0]
              /\ \A m \in Msgs(stats'[c]) : m.wave <= wave'[0]
    <2>1. cl_wave[c] \in Nat /\ cl_wave[c] <= W
      BY <1>4 DEF WavesBounded, TypeOK, W
    <2>2. ASSUME NEW m \in Msgs(front'[c]) PROVE m.wave <= wave'[0]
      <3>1. front'[c] \in Seq(Notice)
        BY <1>1 DEF FrontMoves
      <3>0. m \in Notice
        BY <3>1, MsgType
      <3>2. m.wave \in Nat
        BY <3>0 DEF Notice
      <3>3. m.wave <= W
        BY <1>1, <1>4, <2>1 DEF FrontMoves, WavesBounded, W
      <3> QED BY <1>2, <3>2, <3>3
    <2>3. ASSUME NEW m \in Msgs(stats'[c]) PROVE m.wave <= wave'[0]
      <3>1. stats'[c] \in Seq(State)
        BY <1>1 DEF StatsMoves
      <3>0. m \in State
        BY <3>1, MsgType
      <3>2. m.wave \in Nat
        BY <3>0 DEF State
      <3>3. m.wave <= W
        BY <1>1, <1>4, <1>5 DEF StatsMoves, WavesBounded, W
      <3> QED BY <1>2, <3>2, <3>3
    <2> QED BY <2>2, <2>3
  <1>7. ASSUME NEW e \in Engines
        PROVE /\ \A m \in Msgs(start'[e]) : m.wave <= wave'[0]
              /\ \A m \in Msgs(output'[e]) :
                   m.wave <= wave'[0] /\ (m.type = "wave_complete" => m.wave < wave'[0])
    <2>2. ASSUME NEW m \in Msgs(start'[e]) PROVE m.wave <= wave'[0]
      <3>1. start'[e] \in Seq(Notice)
        BY <1>1 DEF StartMoves
      <3>0. m \in Notice
        BY <3>1, MsgType
      <3>2. m.wave \in Nat
        BY <3>0 DEF Notice
      <3>3. m.wave <= W
        BY <1>1, <1>4, <1>5 DEF StartMoves, WavesBounded, W
      <3> QED BY <1>2, <3>2, <3>3
    <2>3. ASSUME NEW m \in Msgs(output'[e])
          PROVE m.wave <= wave'[0] /\ (m.type = "wave_complete" => m.wave < wave'[0])
      <3>1. output'[e] \in Seq(Report)
        BY <1>1 DEF OutputMoves
      <3>0. m \in Report
        BY <3>1, MsgType
      <3>2. m.wave \in Nat
        BY <3>0 DEF Report
      <3>3. CASE m \in Msgs(output[e])
        BY <1>2, <1>4, <3>2, <3>3 DEF WavesBounded, W
      <3>4. CASE m.type = "start_wave" /\ m.wave = wave[e]
        BY <1>2, <1>3, <3>2, <3>4
      <3>5. CASE m.wave = wave[0] /\ wave' = [f \in Engines |-> wave[f] + 1]
        BY <1>2, <3>2, <3>5 DEF W
      <3> QED BY <1>1, <3>3, <3>4, <3>5 DEF OutputMoves
    <2> QED BY <2>2, <2>3
  <1>8. \A c \in Clients : cl_wave'[c] \in Nat /\ cl_wave'[c] <= W
    <2>1. CASE UNCHANGED cl_wave
      BY <1>4, <2>1 DEF WavesBounded, TypeOK, W
    <2>2. ASSUME NEW c \in Clients, UpdateStats(c)
          PROVE \A x \in Clients : cl_wave'[x] \in Nat /\ cl_wave'[x] <= W
      <3>1. stats[c] \in Seq(State) /\ stats[c] # <<>>
        BY <1>4, <2>2 DEF UpdateStats, TypeOK
      <3>2. Head(stats[c]) \in State /\ Head(stats[c]) \in Msgs(stats[c])
        BY <3>1, HeadTail
      <3>3. Head(stats[c]).wave \in Nat /\ Head(stats[c]).wave <= W
        BY <1>4, <3>2 DEF State, WavesBounded, W
      <3>4. cl_wave' = [cl_wave EXCEPT ![c] = Head(stats[c]).wave]
        BY <2>2 DEF UpdateStats
      <3> QED BY <1>4, <3>3, <3>4 DEF TypeOK, WavesBounded, W
    <2>3. ASSUME NEW c \in Clients, SendFirstReq(c)
          PROVE UNCHANGED cl_wave
      BY <2>3 DEF SendFirstReq
    <2> QED BY <2>1, <2>2, <2>3, Frames DEF ClientFrame
  <1>9. WavesBounded'
    BY <1>2, <1>5, <1>6, <1>7, <1>8 DEF WavesBounded
  <1>10. AddsKnown'
    <2> SUFFICES ASSUME NEW c \in Clients, NEW e \in Engines, NEW m \in Msgs(input'[c][e]),
                        m.type = "ADD"
                 PROVE m.req \in sent' /\ m.wave <= wave'[0]
      BY DEF AddsKnown
    <2>1. input'[c][e] \in Seq(Message)
      BY <1>1 DEF InputMoves, InputType
    <2>2. m.wave \in Nat
      BY <2>1, MsgType DEF Message
    <2>3. cl_wave[c] \in Nat /\ cl_wave[c] <= W
      BY <1>4 DEF WavesBounded, TypeOK, W
    <2>4. CASE m \in Msgs(input[c][e])
      <3>1. m.req \in sent /\ m.wave <= W
        BY <1>4, <2>4 DEF AddsKnown, W
      <3>2. sent \subseteq sent'
        BY Frames DEF SentFrame, AddRequest
      <3> QED BY <1>2, <2>2, <3>1, <3>2
    <2>5. CASE m.req \in sent' /\ m.wave = cl_wave[c]
      BY <1>2, <2>2, <2>3, <2>5
    <2> QED BY <1>1, <2>4, <2>5 DEF InputMoves
  <1> QED BY <1>1, <1>9, <1>10 DEF EngineMoves

(* The pause protocol: parked together, resumed together.                   *)
LEMMA StepPause ==
  ASSUME Inv, [Next]_vars
  PROVE PauseOK'
  <1>0. /\ pc \in [Engines -> {"input", "forward", "reduce", "resume"}]
        /\ running \in [Engines -> BOOLEAN] /\ paused \in [Engines -> BOOLEAN]
        /\ pending_pause \in [Engines -> BOOLEAN]
        /\ ignore_start_dp_wave \in [Engines -> BOOLEAN]
        /\ call \in [Engines -> Calls] /\ ControlOK /\ PauseOK /\ 0 \in Engines
    BY Constants DEF Inv, TypeOK
  <1> USE <1>0 DEF PauseOK, Parked, Calls
  <1>1. ASSUME NEW c \in Clients, NEW e \in Engines, HandleAdd(c, e)
        PROVE PauseOK'
    <2>1. pc' = pc /\ call' = call /\ UNCHANGED pausing
      BY <1>1 DEF HandleAdd, calls
    <2>2. pc[e] = "input"
      BY <1>1 DEF HandleAdd, Take
    <2>3. running' = running \/ (running' = [running EXCEPT ![e] = TRUE] /\ ~paused[e])
      BY <1>1 DEF HandleAdd, restarts
    <2> QED BY <2>1, <2>2, <2>3 DEF pausing
  <1>2. ASSUME NEW e \in Engines, HandleStartDPWave(e)
        PROVE PauseOK'
    <2>1. pc' = pc /\ call' = call /\ UNCHANGED pausing
      BY <1>2 DEF HandleStartDPWave, calls
    <2>2. pc[e] = "input"
      BY <1>2 DEF HandleStartDPWave
    <2>3. \/ running' = running
          \/ running' = [running EXCEPT ![e] = TRUE] /\ ~ignore_start_dp_wave[e]
      BY <1>2 DEF HandleStartDPWave
    <2> QED BY <2>1, <2>2, <2>3 DEF pausing
  <1>3. ASSUME NEW c \in Clients, NEW e \in Engines, HandlePause(c, e)
        PROVE PauseOK'
    <2>1. Head(input[c][e]) \in Msgs(input[c][e])
      <3>1. input[c][e] \in Seq(Message) /\ input[c][e] # <<>>
        BY <1>3 DEF HandlePause, Take, Inv, TypeOK
      <3> QED BY <3>1, HeadTail
    <2>2. call[e] = "pausing"
      BY <1>3, <2>1 DEF HandlePause, Take, ControlOK
    <2>3. \A f \in Engines : ~Parked(f)
      BY <2>2
    <2> QED BY <1>3, <2>2, <2>3 DEF HandlePause, Take, _pause_complete
  <1>4. ASSUME NEW c \in Clients, NEW e \in Engines, HandleResume(c, e)
        PROVE PauseOK'
    <2>1. Head(input[c][e]) \in Msgs(input[c][e])
      <3>1. input[c][e] \in Seq(Message) /\ input[c][e] # <<>>
        BY <1>4 DEF HandleResume, Take, Inv, TypeOK
      <3> QED BY <3>1, HeadTail
    <2>0. Head(input[c][e]).type = "RESUME"
      BY <1>4 DEF HandleResume, Take
    <2>2. call[e] = "resuming" /\ pc[e] # "resume"
      BY <2>0, <2>1 DEF HandleResume, Take, ControlOK
    <2>3. ~pending_pause[e] /\ ~running[e] /\ \A f \in Engines : Parked(f)
      BY <2>2
    <2>4. \A f \in Engines : /\ call'[f] = call[f] /\ running'[f] = running[f]
                            /\ pending_pause'[f] = pending_pause[f]
      BY <1>4, <2>3 DEF HandleResume
    <2>5. \A f \in Engines : Parked(f)'
      BY <2>3, <2>4
    <2>6. /\ paused' = [paused EXCEPT ![e] = FALSE]
          /\ ignore_start_dp_wave' = [ignore_start_dp_wave EXCEPT ![e] = FALSE]
          /\ pc' = [pc EXCEPT ![e] = "resume"]
      BY <1>4, <2>3 DEF HandleResume
    <2>7. \A f \in Engines : ~running[f] /\ ~pending_pause[f]
      BY <2>3
    <2> QED BY <2>2, <2>3, <2>4, <2>5, <2>6, <2>7
  <1>5. ASSUME NEW e \in Engines, BeginStep(e)
        PROVE PauseOK'
    BY <1>5 DEF BeginStep, has_work, unfinished, engine, pausing, calls
  <1>6. ASSUME NEW e \in Engines, PauseDone(e)
        PROVE PauseOK'
    BY <1>6 DEF PauseDone, has_work, unfinished, engine, pausing, calls
  <1>7. ASSUME NEW e \in Engines, Pause(e)
        PROVE PauseOK'
    BY <1>7 DEF Pause, SendPause, engine, pausing, calls
  <1>8. ASSUME NEW e \in Engines, PauseOthers(e)
        PROVE PauseOK'
    BY <1>8 DEF PauseOthers, SendPause, engine, pausing, calls
  <1>9. ASSUME NEW e \in Engines, Resume(e)
        PROVE PauseOK'
    <2>1. \A f \in Engines : Parked(f) /\ call[f] = "paused"
      BY <1>9 DEF Resume
    <2> QED BY <1>9, <2>1 DEF Resume, SendResume, engine, pausing
  <1>10. ASSUME NEW e \in Engines, ResumeOthers(e)
        PROVE PauseOK'
    BY <1>10 DEF ResumeOthers, SendResume, engine, pausing, calls
  <1>11. ASSUME NEW Finished \in SUBSET Requests, Forward(Finished)
        PROVE PauseOK'
    BY <1>11 DEF Forward, engine, pausing, calls
  <1>12. CASE AllReduce
    <2>1. CASE pause_consensus
      <3>1. \A e \in Engines : pending_pause[e] /\ call[e] = "callback" /\ paused[e]
        BY <2>1, PauseCount
      <3>2. ~has_unfinished_global
        BY <3>1, PauseCount DEF has_unfinished_global, unfinished
      <3> QED BY <1>12, <2>1, <3>1, <3>2 DEF AllReduce, calls
    <2>2. CASE ~pause_consensus /\ has_unfinished_global
      BY <1>12, <2>2 DEF AllReduce, calls
    <2>3. CASE ~pause_consensus /\ ~has_unfinished_global
      <3>1. \A e \in Engines : ~pending_pause[e]
        BY <2>3, PauseCount DEF has_unfinished_global
      <3>2. \A e \in Engines : pc[e] = "reduce"
        BY <1>12 DEF AllReduce
      <3>3. \A e \in Engines : ~Parked(e)
        BY <3>2
      <3> QED BY <1>12, <2>3, <3>1, <3>2, <3>3 DEF AllReduce, calls
    <2> QED BY <2>1, <2>2, <2>3
  <1>13. CASE ResumeBarrier
    BY <1>13 DEF ResumeBarrier, engine, pausing, calls
  <1>14. CASE UNCHANGED <<pc, running, step, call, pauses, pausing>>
    BY <1>14 DEF pausing
  <1> QED BY <1>1, <1>2, <1>3, <1>4, <1>5, <1>6, <1>7, <1>8, <1>9, <1>10, <1>11, <1>12,
             <1>13, <1>14, Frames DEF PauseFrame

(* One call is on its way at a time.                                        *)
LEMMA StepControl ==
  ASSUME Inv, [Next]_vars
  PROVE ControlOK'
  <1>0. TypeOK /\ ControlOK /\ PauseOK
    BY DEF Inv
  <1> USE <1>0
  <1>1. ASSUME NEW c \in Clients, NEW r \in Requests, NEW e \in Engines, AddRequest(c, r, e)
        PROVE ControlOK'
    <2>2. PICK m \in Message : m = [type |-> "ADD", req |-> r, wave |-> cl_wave[c]]
      BY DEF TypeOK, Message
    <2>1. InputType /\ input[c][e] \in Seq(Message)
      BY InputIs, Constants
    <2>3. PICK q \in Seq(Message) : q = Append(input[c][e], m)
      BY <2>1, Appended
    <2>4. Msgs(q) = Msgs(input[c][e]) \union {m}
      BY <2>1, <2>3, Appended
    <2>5. input' = [input EXCEPT ![c][e] = q]
      BY <1>1, <2>2, <2>3 DEF AddRequest
    <2>6. /\ input'[c][e] = q
          /\ \A d \in Clients, f \in Engines : d # c \/ f # e => input'[d][f] = input[d][f]
      BY <2>1, <2>5, Constants DEF InputType
    <2>7. IsControl(m) => \A x \in Msgs(input[c][e]) : ~IsControl(x)
      BY <1>1, <2>2, Constants DEF IsControl, ControlOK, AddRequest
    <2>8. OneControl(q)
      <3>1. OneControl(input[c][e])
        BY Constants DEF ControlOK
      <3> QED BY <2>1, <2>3, <2>7, <3>1, ControlAppend
    <2>9. call' = call /\ pc' = pc
      BY <1>1 DEF AddRequest, engine, calls
    <2> QED BY <2>2, <2>4, <2>6, <2>8, <2>9 DEF ControlOK
  <1>2. ASSUME NEW c \in Clients, NEW r \in Requests, NEW e \in Engines, AbortRequest(c, r, e)
        PROVE ControlOK'
    <2>2. PICK m \in Message : m = [type |-> "ABORT", req |-> r]
      BY DEF TypeOK, Message
    <2>1. InputType /\ input[c][e] \in Seq(Message)
      BY InputIs, Constants
    <2>3. PICK q \in Seq(Message) : q = Append(input[c][e], m)
      BY <2>1, Appended
    <2>4. Msgs(q) = Msgs(input[c][e]) \union {m}
      BY <2>1, <2>3, Appended
    <2>5. input' = [input EXCEPT ![c][e] = q]
      BY <1>2, <2>2, <2>3 DEF AbortRequest
    <2>6. /\ input'[c][e] = q
          /\ \A d \in Clients, f \in Engines : d # c \/ f # e => input'[d][f] = input[d][f]
      BY <2>1, <2>5, Constants DEF InputType
    <2>7. IsControl(m) => \A x \in Msgs(input[c][e]) : ~IsControl(x)
      BY <1>2, <2>2, Constants DEF IsControl, ControlOK, AbortRequest
    <2>8. OneControl(q)
      <3>1. OneControl(input[c][e])
        BY Constants DEF ControlOK
      <3> QED BY <2>1, <2>3, <2>7, <3>1, ControlAppend
    <2>9. call' = call /\ pc' = pc
      BY <1>2 DEF AbortRequest, engine, calls
    <2> QED BY <2>2, <2>4, <2>6, <2>8, <2>9 DEF ControlOK
  <1>3. ASSUME NEW e \in Engines, Pause(e)
        PROVE ControlOK'
    <2>2. PICK m \in Message : m = [type |-> "PAUSE"]
      BY DEF TypeOK, Message
    <2>1. InputType /\ input[Admin][e] \in Seq(Message)
      BY InputIs, Constants
    <2>3. PICK q \in Seq(Message) : q = Append(input[Admin][e], m)
      BY <2>1, Appended
    <2>4. Msgs(q) = Msgs(input[Admin][e]) \union {m}
      BY <2>1, <2>3, Appended
    <2>5. input' = [input EXCEPT ![Admin][e] = q]
      BY <1>3, <2>2, <2>3 DEF Pause, SendPause
    <2>6. /\ input'[Admin][e] = q
          /\ \A d \in Clients, f \in Engines : d # Admin \/ f # e => input'[d][f] = input[d][f]
      BY <2>1, <2>5, Constants DEF InputType
    <2>7. IsControl(m) => \A x \in Msgs(input[Admin][e]) : ~IsControl(x)
      BY <1>3, <2>2, Constants DEF IsControl, ControlOK, Pause
    <2>8. OneControl(q)
      <3>1. OneControl(input[Admin][e])
        BY Constants DEF ControlOK
      <3> QED BY <2>1, <2>3, <2>7, <3>1, ControlAppend
    <2>9. /\ call' = [call EXCEPT ![e] = "pausing"] /\ pc' = pc /\ m.type = "PAUSE"
          /\ call[e] = "none" /\ pc[e] # "resume"
      BY <1>3, <2>2, Constants DEF Pause, SendPause, engine, PauseOK
    <2>10. \A d \in Clients : \A x \in Msgs(input[d][e]) : ~IsControl(x)
      BY <2>9 DEF ControlOK, IsControl
    <2>11. \A d \in Clients, f \in Engines : \A x \in Msgs(input'[d][f]) :
             x \in Msgs(input[d][f]) \/ (d = Admin /\ f = e /\ x = m)
      BY <2>4, <2>6
    <2>12. \A d \in Clients, f \in Engines : OneControl(input'[d][f])
      BY <2>6, <2>8 DEF ControlOK
    <2>13. \A f \in Engines : call'[f] = IF f = e THEN "pausing" ELSE call[f]
      BY <2>9 DEF TypeOK
    <2> QED BY <2>9, <2>10, <2>11, <2>12, <2>13 DEF ControlOK, IsControl
  <1>4. ASSUME NEW e \in Engines, PauseOthers(e)
        PROVE ControlOK'
    <2>2. PICK m \in Message : m = [type |-> "PAUSE"]
      BY DEF TypeOK, Message
    <2>1. InputType /\ input[Admin][e] \in Seq(Message)
      BY InputIs, Constants
    <2>3. PICK q \in Seq(Message) : q = Append(input[Admin][e], m)
      BY <2>1, Appended
    <2>4. Msgs(q) = Msgs(input[Admin][e]) \union {m}
      BY <2>1, <2>3, Appended
    <2>5. input' = [input EXCEPT ![Admin][e] = q]
      BY <1>4, <2>2, <2>3 DEF PauseOthers, SendPause
    <2>6. /\ input'[Admin][e] = q
          /\ \A d \in Clients, f \in Engines : d # Admin \/ f # e => input'[d][f] = input[d][f]
      BY <2>1, <2>5, Constants DEF InputType
    <2>7. IsControl(m) => \A x \in Msgs(input[Admin][e]) : ~IsControl(x)
      BY <1>4, <2>2, Constants DEF IsControl, ControlOK, PauseOthers
    <2>8. OneControl(q)
      <3>1. OneControl(input[Admin][e])
        BY Constants DEF ControlOK
      <3> QED BY <2>1, <2>3, <2>7, <3>1, ControlAppend
    <2>9. /\ call' = [call EXCEPT ![e] = "pausing"] /\ pc' = pc /\ m.type = "PAUSE"
          /\ call[e] = "none" /\ pc[e] # "resume"
      BY <1>4, <2>2, Constants DEF PauseOthers, SendPause, engine, PauseOK
    <2>10. \A d \in Clients : \A x \in Msgs(input[d][e]) : ~IsControl(x)
      BY <2>9 DEF ControlOK, IsControl
    <2>11. \A d \in Clients, f \in Engines : \A x \in Msgs(input'[d][f]) :
             x \in Msgs(input[d][f]) \/ (d = Admin /\ f = e /\ x = m)
      BY <2>4, <2>6
    <2>12. \A d \in Clients, f \in Engines : OneControl(input'[d][f])
      BY <2>6, <2>8 DEF ControlOK
    <2>13. \A f \in Engines : call'[f] = IF f = e THEN "pausing" ELSE call[f]
      BY <2>9 DEF TypeOK
    <2> QED BY <2>9, <2>10, <2>11, <2>12, <2>13 DEF ControlOK, IsControl
  <1>5. ASSUME NEW e \in Engines, Resume(e)
        PROVE ControlOK'
    <2>2. PICK m \in Message : m = [type |-> "RESUME"]
      BY DEF TypeOK, Message
    <2>1. InputType /\ input[Admin][e] \in Seq(Message)
      BY InputIs, Constants
    <2>3. PICK q \in Seq(Message) : q = Append(input[Admin][e], m)
      BY <2>1, Appended
    <2>4. Msgs(q) = Msgs(input[Admin][e]) \union {m}
      BY <2>1, <2>3, Appended
    <2>5. input' = [input EXCEPT ![Admin][e] = q]
      BY <1>5, <2>2, <2>3 DEF Resume, SendResume
    <2>6. /\ input'[Admin][e] = q
          /\ \A d \in Clients, f \in Engines : d # Admin \/ f # e => input'[d][f] = input[d][f]
      BY <2>1, <2>5, Constants DEF InputType
    <2>7. IsControl(m) => \A x \in Msgs(input[Admin][e]) : ~IsControl(x)
      BY <1>5, <2>2, Constants DEF IsControl, ControlOK, Resume
    <2>8. OneControl(q)
      <3>1. OneControl(input[Admin][e])
        BY Constants DEF ControlOK
      <3> QED BY <2>1, <2>3, <2>7, <3>1, ControlAppend
    <2>9. /\ call' = [call EXCEPT ![e] = "resuming"] /\ pc' = pc /\ m.type = "RESUME"
          /\ call[e] = "paused" /\ pc[e] # "resume"
      BY <1>5, <2>2, Constants DEF Resume, SendResume, engine, PauseOK
    <2>10. \A d \in Clients : \A x \in Msgs(input[d][e]) : ~IsControl(x)
      BY <2>9 DEF ControlOK, IsControl
    <2>11. \A d \in Clients, f \in Engines : \A x \in Msgs(input'[d][f]) :
             x \in Msgs(input[d][f]) \/ (d = Admin /\ f = e /\ x = m)
      BY <2>4, <2>6
    <2>12. \A d \in Clients, f \in Engines : OneControl(input'[d][f])
      BY <2>6, <2>8 DEF ControlOK
    <2>13. \A f \in Engines : call'[f] = IF f = e THEN "resuming" ELSE call[f]
      BY <2>9 DEF TypeOK
    <2> QED BY <2>9, <2>10, <2>11, <2>12, <2>13 DEF ControlOK, IsControl
  <1>6. ASSUME NEW e \in Engines, ResumeOthers(e)
        PROVE ControlOK'
    <2>2. PICK m \in Message : m = [type |-> "RESUME"]
      BY DEF TypeOK, Message
    <2>1. InputType /\ input[Admin][e] \in Seq(Message)
      BY InputIs, Constants
    <2>3. PICK q \in Seq(Message) : q = Append(input[Admin][e], m)
      BY <2>1, Appended
    <2>4. Msgs(q) = Msgs(input[Admin][e]) \union {m}
      BY <2>1, <2>3, Appended
    <2>5. input' = [input EXCEPT ![Admin][e] = q]
      BY <1>6, <2>2, <2>3 DEF ResumeOthers, SendResume
    <2>6. /\ input'[Admin][e] = q
          /\ \A d \in Clients, f \in Engines : d # Admin \/ f # e => input'[d][f] = input[d][f]
      BY <2>1, <2>5, Constants DEF InputType
    <2>7. IsControl(m) => \A x \in Msgs(input[Admin][e]) : ~IsControl(x)
      BY <1>6, <2>2, Constants DEF IsControl, ControlOK, ResumeOthers
    <2>8. OneControl(q)
      <3>1. OneControl(input[Admin][e])
        BY Constants DEF ControlOK
      <3> QED BY <2>1, <2>3, <2>7, <3>1, ControlAppend
    <2>9. /\ call' = [call EXCEPT ![e] = "resuming"] /\ pc' = pc /\ m.type = "RESUME"
          /\ call[e] = "paused" /\ pc[e] # "resume"
      BY <1>6, <2>2, Constants DEF ResumeOthers, SendResume, engine, PauseOK
    <2>10. \A d \in Clients : \A x \in Msgs(input[d][e]) : ~IsControl(x)
      BY <2>9 DEF ControlOK, IsControl
    <2>11. \A d \in Clients, f \in Engines : \A x \in Msgs(input'[d][f]) :
             x \in Msgs(input[d][f]) \/ (d = Admin /\ f = e /\ x = m)
      BY <2>4, <2>6
    <2>12. \A d \in Clients, f \in Engines : OneControl(input'[d][f])
      BY <2>6, <2>8 DEF ControlOK
    <2>13. \A f \in Engines : call'[f] = IF f = e THEN "resuming" ELSE call[f]
      BY <2>9 DEF TypeOK
    <2> QED BY <2>9, <2>10, <2>11, <2>12, <2>13 DEF ControlOK, IsControl
  <1>7. ASSUME NEW c \in Clients, NEW e \in Engines, HandleAdd(c, e)
        PROVE ControlOK'
    <2>1. /\ input' = [input EXCEPT ![c][e] = Tail(@)] /\ InputType
          /\ input[c][e] # <<>>
      BY <1>7 DEF HandleAdd, Take, TypeOK, InputType
    <2>2. /\ input'[c][e] = Tail(input[c][e])
          /\ Head(input[c][e]) \in Msgs(input[c][e])
          /\ \A d \in Clients, f \in Engines : d # c \/ f # e => input'[d][f] = input[d][f]
          /\ \A d \in Clients, f \in Engines : Msgs(input'[d][f]) \subseteq Msgs(input[d][f])
      BY <2>1, InputTake
    <2>3. /\ OneControl(Tail(input[c][e]))
          /\ IsControl(Head(input[c][e])) =>
               \A x \in Msgs(Tail(input[c][e])) : ~IsControl(x)
      <3>1. input[c][e] \in Seq(Message) /\ OneControl(input[c][e])
        BY <2>1 DEF InputType, ControlOK
      <3> QED BY <2>1, <3>1, ControlTail
    <2>4. \A d \in Clients, f \in Engines : OneControl(input'[d][f])
      BY <2>2, <2>3 DEF ControlOK
    <2>5. call' = call /\ pc' = pc
      BY <1>7 DEF HandleAdd, calls
    <2> QED BY <2>2, <2>4, <2>5 DEF ControlOK
  <1>8. ASSUME NEW c \in Clients, NEW e \in Engines, HandleAbort(c, e)
        PROVE ControlOK'
    <2>1. /\ input' = [input EXCEPT ![c][e] = Tail(@)] /\ InputType
          /\ input[c][e] # <<>>
      BY <1>8 DEF HandleAbort, Take, TypeOK, InputType
    <2>2. /\ input'[c][e] = Tail(input[c][e])
          /\ Head(input[c][e]) \in Msgs(input[c][e])
          /\ \A d \in Clients, f \in Engines : d # c \/ f # e => input'[d][f] = input[d][f]
          /\ \A d \in Clients, f \in Engines : Msgs(input'[d][f]) \subseteq Msgs(input[d][f])
      BY <2>1, InputTake
    <2>3. /\ OneControl(Tail(input[c][e]))
          /\ IsControl(Head(input[c][e])) =>
               \A x \in Msgs(Tail(input[c][e])) : ~IsControl(x)
      <3>1. input[c][e] \in Seq(Message) /\ OneControl(input[c][e])
        BY <2>1 DEF InputType, ControlOK
      <3> QED BY <2>1, <3>1, ControlTail
    <2>4. \A d \in Clients, f \in Engines : OneControl(input'[d][f])
      BY <2>2, <2>3 DEF ControlOK
    <2>5. call' = call /\ pc' = pc
      BY <1>8 DEF HandleAbort, calls
    <2> QED BY <2>2, <2>4, <2>5 DEF ControlOK
  <1>9. ASSUME NEW c \in Clients, NEW e \in Engines, HandlePause(c, e)
        PROVE ControlOK'
    <2>1. /\ input' = [input EXCEPT ![c][e] = Tail(@)] /\ InputType
          /\ input[c][e] # <<>>
      BY <1>9 DEF HandlePause, Take, TypeOK, InputType
    <2>2. /\ input'[c][e] = Tail(input[c][e])
          /\ Head(input[c][e]) \in Msgs(input[c][e])
          /\ \A d \in Clients, f \in Engines : d # c \/ f # e => input'[d][f] = input[d][f]
          /\ \A d \in Clients, f \in Engines : Msgs(input'[d][f]) \subseteq Msgs(input[d][f])
      BY <2>1, InputTake
    <2>3. /\ OneControl(Tail(input[c][e]))
          /\ IsControl(Head(input[c][e])) =>
               \A x \in Msgs(Tail(input[c][e])) : ~IsControl(x)
      <3>1. input[c][e] \in Seq(Message) /\ OneControl(input[c][e])
        BY <2>1 DEF InputType, ControlOK
      <3> QED BY <2>1, <3>1, ControlTail
    <2>4. \A d \in Clients, f \in Engines : OneControl(input'[d][f])
      BY <2>2, <2>3 DEF ControlOK
    <2>5. c = Admin /\ IsControl(Head(input[c][e]))
      BY <1>9, <2>2 DEF HandlePause, Take, ControlOK, IsControl
    <2>6. \A d \in Clients : \A x \in Msgs(input'[d][e]) : ~IsControl(x)
      BY <2>2, <2>3, <2>5 DEF ControlOK, IsControl
    <2>7. \A f \in Engines : f # e => call'[f] = call[f] /\ pc'[f] = pc[f]
      BY <1>9 DEF HandlePause, TypeOK
    <2> QED BY <2>2, <2>4, <2>6, <2>7 DEF ControlOK, IsControl
  <1>10. ASSUME NEW c \in Clients, NEW e \in Engines, HandleResume(c, e)
        PROVE ControlOK'
    <2>1. /\ input' = [input EXCEPT ![c][e] = Tail(@)] /\ InputType
          /\ input[c][e] # <<>>
      BY <1>10 DEF HandleResume, Take, TypeOK, InputType
    <2>2. /\ input'[c][e] = Tail(input[c][e])
          /\ Head(input[c][e]) \in Msgs(input[c][e])
          /\ \A d \in Clients, f \in Engines : d # c \/ f # e => input'[d][f] = input[d][f]
          /\ \A d \in Clients, f \in Engines : Msgs(input'[d][f]) \subseteq Msgs(input[d][f])
      BY <2>1, InputTake
    <2>3. /\ OneControl(Tail(input[c][e]))
          /\ IsControl(Head(input[c][e])) =>
               \A x \in Msgs(Tail(input[c][e])) : ~IsControl(x)
      <3>1. input[c][e] \in Seq(Message) /\ OneControl(input[c][e])
        BY <2>1 DEF InputType, ControlOK
      <3> QED BY <2>1, <3>1, ControlTail
    <2>4. \A d \in Clients, f \in Engines : OneControl(input'[d][f])
      BY <2>2, <2>3 DEF ControlOK
    <2>5. c = Admin /\ IsControl(Head(input[c][e]))
      BY <1>10, <2>2 DEF HandleResume, Take, ControlOK, IsControl
    <2>6. \A d \in Clients : \A x \in Msgs(input'[d][e]) : ~IsControl(x)
      BY <2>2, <2>3, <2>5 DEF ControlOK, IsControl
    <2>7. \A f \in Engines : f # e => call'[f] = call[f] /\ pc'[f] = pc[f]
      BY <1>10 DEF HandleResume, TypeOK
    <2> QED BY <2>2, <2>4, <2>6, <2>7 DEF ControlOK, IsControl
  <1>11. ASSUME NEW e \in Engines, PauseDone(e)
        PROVE ControlOK'
    BY <1>11 DEF PauseDone, engine, sockets, ControlOK
  <1>12. ASSUME NEW e \in Engines, BeginStep(e)
        PROVE ControlOK'
    BY <1>12 DEF BeginStep, sockets, calls, ControlOK
  <1>13. ASSUME NEW Finished \in SUBSET Requests, Forward(Finished)
        PROVE ControlOK'
    BY <1>13 DEF Forward, sockets, calls, ControlOK
  <1>14. CASE AllReduce
    BY <1>14 DEF AllReduce, sockets, calls, ControlOK
  <1>15. CASE ResumeBarrier
    <2>1. \A e \in Engines : pc[e] = "resume" /\ call[e] = "resuming"
      BY <1>15 DEF ResumeBarrier, PauseOK
    <2>2. \A d \in Clients, e \in Engines : \A x \in Msgs(input[d][e]) : ~IsControl(x)
      BY <2>1 DEF ControlOK, IsControl
    <2>3. input' = input
      BY <1>15 DEF ResumeBarrier, sockets
    <2> QED BY <2>2, <2>3 DEF ControlOK, IsControl
  <1>16. CASE UNCHANGED <<input, call, pc>>
    BY <1>16 DEF ControlOK
  <1> QED BY <1>1, <1>2, <1>3, <1>4, <1>5, <1>6, <1>7, <1>8, <1>9, <1>10, <1>11, <1>12,
             <1>13, <1>14, <1>15, <1>16, Frames DEF ControlFrame

ClientTypes == cl_wave' \in [Clients -> Nat] /\ cl_running' \in [Clients -> BOOLEAN]

ReqsTypes == reqs' \in [Engines -> SUBSET sent'] /\ sent' \subseteq Requests

EngineTypes ==
  /\ pc' \in [Engines -> {"input", "forward", "reduce", "resume"}]
  /\ running' \in [Engines -> BOOLEAN]
  /\ step' \in [Engines -> Nat]
  /\ paused' \in [Engines -> BOOLEAN] /\ pending_pause' \in [Engines -> BOOLEAN]
  /\ ignore_start_dp_wave' \in [Engines -> BOOLEAN]
  /\ call' \in [Engines -> Calls] /\ pauses' \in 0 .. MaxPauses

(* The client's view.                                                       *)
LEMMA ClientTypesStep ==
  ASSUME TypeOK, [Next]_vars
  PROVE ClientTypes
  <1> USE DEF TypeOK, ClientTypes
  <1>1. ASSUME NEW c \in Clients, SendFirstReq(c)
        PROVE ClientTypes
    BY <1>1 DEF SendFirstReq
  <1>2. ASSUME NEW c \in Clients, UpdateStats(c)
        PROVE ClientTypes
    <2>1. stats[c] \in Seq(State) /\ stats[c] # <<>>
      BY <1>2 DEF UpdateStats
    <2>2. Head(stats[c]) \in State
      BY <2>1, HeadTail
    <2>3. Head(stats[c]).wave \in Nat /\ Head(stats[c]).running \in BOOLEAN
      BY <2>2 DEF State
    <2> QED BY <1>2, <2>3 DEF UpdateStats
  <1>3. CASE UNCHANGED <<cl_wave, cl_running>>
    BY <1>3 
  <1> QED BY <1>1, <1>2, <1>3, Frames DEF ClientFrame

(* An engine has requests that were sent.                                   *)
LEMMA ReqsTypesStep ==
  ASSUME TypeOK, AddsKnown, [Next]_vars
  PROVE ReqsTypes
  <1> USE DEF TypeOK, ReqsTypes
  <1>1. ASSUME NEW c \in Clients, NEW r \in Requests, NEW e \in Engines, AddRequest(c, r, e)
        PROVE ReqsTypes
    BY <1>1 DEF AddRequest, engine
  <1>2. ASSUME NEW c \in Clients, NEW e \in Engines, HandleAdd(c, e)
        PROVE ReqsTypes
    <2>1. input[c][e] \in Seq(Message) /\ input[c][e] # <<>>
      BY <1>2 DEF HandleAdd, Take
    <2>2. Head(input[c][e]) \in Msgs(input[c][e])
      BY <2>1, HeadTail
    <2>3. Head(input[c][e]).req \in sent
      BY <1>2, <2>2 DEF HandleAdd, Take, AddsKnown
    <2> QED BY <1>2, <2>3 DEF HandleAdd
  <1>3. ASSUME NEW c \in Clients, NEW e \in Engines, HandleAbort(c, e)
        PROVE ReqsTypes
    BY <1>3 DEF HandleAbort
  <1>4. ASSUME NEW Finished \in SUBSET Requests, Forward(Finished)
        PROVE ReqsTypes
    BY <1>4 DEF Forward
  <1>5. CASE UNCHANGED <<reqs, sent>>
    BY <1>5 
  <1> QED BY <1>1, <1>2, <1>3, <1>4, <1>5, Frames DEF ReqsFrame

(* The engine's control and its calls.                                      *)
LEMMA EngineTypesStep ==
  ASSUME TypeOK, [Next]_vars
  PROVE EngineTypes
  <1> USE DEF TypeOK, EngineTypes, Calls
  <1>1. ASSUME NEW c \in Clients, NEW e \in Engines, HandleAdd(c, e)
        PROVE EngineTypes
    BY <1>1 DEF HandleAdd, Take, restarts, engine, pausing, calls
  <1>2. ASSUME NEW e \in Engines, HandleStartDPWave(e)
        PROVE EngineTypes
    BY <1>2 DEF HandleStartDPWave, engine, pausing, calls
  <1>3. ASSUME NEW c \in Clients, NEW e \in Engines, HandlePause(c, e)
        PROVE EngineTypes
    BY <1>3 DEF HandlePause, Take, _pause_complete, engine, pausing, calls
  <1>4. ASSUME NEW c \in Clients, NEW e \in Engines, HandleResume(c, e)
        PROVE EngineTypes
    BY <1>4 DEF HandleResume, Take, engine, pausing, calls
  <1>5. ASSUME NEW e \in Engines, BeginStep(e)
        PROVE EngineTypes
    BY <1>5 DEF BeginStep, has_work, unfinished, engine, pausing, calls
  <1>6. ASSUME NEW e \in Engines, PauseDone(e)
        PROVE EngineTypes
    BY <1>6 DEF PauseDone, has_work, unfinished, engine, pausing, calls
  <1>7. ASSUME NEW e \in Engines, Pause(e)
        PROVE EngineTypes
    BY <1>7, DPAssumption DEF Pause, SendPause, engine, pausing
  <1>8. ASSUME NEW e \in Engines, PauseOthers(e)
        PROVE EngineTypes
    BY <1>8 DEF PauseOthers, SendPause, engine, pausing, calls
  <1>9. ASSUME NEW e \in Engines, Resume(e)
        PROVE EngineTypes
    BY <1>9 DEF Resume, SendResume, engine, pausing, calls
  <1>10. ASSUME NEW e \in Engines, ResumeOthers(e)
        PROVE EngineTypes
    BY <1>10 DEF ResumeOthers, SendResume, engine, pausing, calls
  <1>11. ASSUME NEW Finished \in SUBSET Requests, Forward(Finished)
        PROVE EngineTypes
    <2>1. step' \in [Engines -> Nat]
      <3>1. \A e \in Engines : next_step(e) \in Nat
        BY DPAssumption DEF next_step, bounded
      <3> QED BY <1>11, <3>1 DEF Forward
    <2> QED BY <1>11, <2>1 DEF Forward, pausing, calls
  <1>12. CASE AllReduce
    <2>1. /\ pc' = [e \in Engines |-> "input"] /\ paused' = paused
          /\ call' = call /\ pauses' = pauses
          /\ running' = running \/ running' = [e \in Engines |-> FALSE]
      BY <1>12 DEF AllReduce, calls
    <2>2. /\ \/ ignore_start_dp_wave' = ignore_start_dp_wave
             \/ ignore_start_dp_wave' = [e \in Engines |-> TRUE]
          /\ \/ pending_pause' = pending_pause
             \/ pending_pause' = [e \in Engines |-> FALSE]
      BY <1>12 DEF AllReduce
    <2>3. step' \in [Engines -> Nat]
      <3>1. step' = step \/ step' = [e \in Engines |-> 0]
        BY <1>12 DEF AllReduce
      <3> QED BY <3>1
    <2> QED BY <2>1, <2>2, <2>3
  <1>13. CASE ResumeBarrier
    BY <1>13 DEF ResumeBarrier, pausing, calls
  <1>14. CASE UNCHANGED <<pc, running, step, call, pauses, pausing>>
    BY <1>14 DEF pausing
  <1> QED BY <1>1, <1>2, <1>3, <1>4, <1>5, <1>6, <1>7, <1>8, <1>9, <1>10, <1>11, <1>12,
             <1>13, <1>14, Frames DEF PauseFrame

LEMMA StepTypes ==
  ASSUME Inv, [Next]_vars
  PROVE TypeOK'
  <1>1. /\ FrontMoves /\ StatsMoves /\ StartMoves /\ OutputMoves /\ InputMoves
        /\ FirstReqMoves /\ CoordinatorMoves
    BY FrontStep, StatsStep, StartStep, OutputStep, InputStep, FirstReqStep,
       CoordinatorStepMoves DEF Inv
  <1>2. ClientTypes /\ ReqsTypes /\ EngineTypes /\ EngineMoves
    BY ClientTypesStep, ReqsTypesStep, EngineTypesStep, EngineWaves DEF Inv
  <1> QED BY <1>1, <1>2 DEF TypeOK, FrontMoves, StatsMoves, StartMoves, OutputMoves,
       InputMoves, InputType, FirstReqMoves, CoordinatorMoves, ClientTypes,
       ReqsTypes, EngineTypes, EngineMoves

(* Only the end of a wave stops an engine, and it resets the counter; an    *)
(* engine at the barrier of a resume has been stopped.                      *)
LEMMA StepFresh ==
  ASSUME Inv, [Next]_vars
  PROVE FreshAtZero'
  <1> USE DEF FreshAtZero, Inv, TypeOK
  <1>1. ASSUME NEW c \in Clients, NEW e \in Engines, HandleAdd(c, e)
        PROVE FreshAtZero'
    BY <1>1 DEF HandleAdd
  <1>2. ASSUME NEW e \in Engines, HandleStartDPWave(e)
        PROVE FreshAtZero'
    BY <1>2 DEF HandleStartDPWave
  <1>3. ASSUME NEW c \in Clients, NEW e \in Engines, HandlePause(c, e)
        PROVE FreshAtZero'
    BY <1>3 DEF HandlePause, _pause_complete
  <1>4. ASSUME NEW c \in Clients, NEW e \in Engines, HandleResume(c, e)
        PROVE FreshAtZero'
    BY <1>4 DEF HandleResume
  <1>5. ASSUME NEW e \in Engines, BeginStep(e)
        PROVE FreshAtZero'
    BY <1>5 DEF BeginStep
  <1>6. ASSUME NEW e \in Engines, PauseDone(e) \/ Pause(e) \/ PauseOthers(e)
                                  \/ Resume(e) \/ ResumeOthers(e)
        PROVE FreshAtZero'
    BY <1>6 DEF PauseDone, Pause, PauseOthers, SendPause, Resume, ResumeOthers,
                SendResume, engine
  <1>7. ASSUME NEW Finished \in SUBSET Requests, Forward(Finished)
        PROVE FreshAtZero'
    BY <1>7 DEF Forward
  <1>8. CASE AllReduce
    BY <1>8 DEF AllReduce
  <1>9. CASE ResumeBarrier
    <2>1. \A e \in Engines : ~running[e]
      BY <1>9 DEF ResumeBarrier, PauseOK, Parked
    <2> QED BY <1>9, <2>1 DEF ResumeBarrier
  <1>10. CASE UNCHANGED <<pc, running, step, call, pauses, pausing>>
    BY <1>10
  <1> QED BY <1>1, <1>2, <1>3, <1>4, <1>5, <1>6, <1>7, <1>8, <1>9, <1>10, Frames
          DEF PauseFrame

-----------------------------------------------------------------------------
(* The theorems                                                             *)

LEMMA InvStep == Inv /\ [Next]_vars => Inv'
  BY StepTypes, StepWaves, StepFresh, StepControl, StepPause DEF Inv

LEMMA InvAlways == Spec => []Inv
  BY InitInv, InvStep, PTL DEF Spec

(* current_wave: for every number of engines and clients and every timing,  *)
(* all engines are in the same wave and neither a client, nor the           *)
(* coordinator, nor a message is ahead of them.  So the two places where an *)
(* engine takes a wave number over (add_request, START_DP_WAVE) never move  *)
(* it away from the others.                                                 *)
THEOREM WavesNeverAhead == Spec => []WavesReached
  <1>1. Inv => WavesReached
    <2> SUFFICES ASSUME Inv PROVE WavesReached
      OBVIOUS
    <2> USE DEF Inv
    <2>1. \A e \in Engines : wave[e] = wave[0]
      BY Constants DEF Uniform
    <2>2. \A e \in Engines :
            /\ co_wave <= wave[0]
            /\ \A m \in Msgs(start[e]) : m.wave <= wave[0]
            /\ \A m \in Msgs(output[e]) : IF m.type = "wave_complete" THEN m.wave < wave[0]
                                                                     ELSE m.wave <= wave[0]
      BY DEF WavesBounded
    <2>3. \A c \in Clients : /\ cl_wave[c] <= wave[0]
                             /\ \A m \in Msgs(front[c]) \union Msgs(stats[c]) :
                                  m.wave <= wave[0]
      BY DEF WavesBounded
    <2>4. \A c \in Clients, e \in Engines : \A m \in Msgs(input[c][e]) :
            m.type = "ADD" => m.wave <= wave[0]
      BY DEF AddsKnown
    <2> QED BY <2>1, <2>2, <2>3, <2>4 DEF WavesReached
  <1> QED BY <1>1, InvAlways, PTL

(* run_busy_loop: for every number of engines and clients, and whichever    *)
(* requests, aborts, pauses and notices cross on the way, engines that wait *)
(* in a collective wait in the same one, at the same step and, in the       *)
(* all-reduce, in the same wave; a stopped engine is at step 0; and         *)
(* resume_scheduler is never refused.                                       *)
THEOREM EnginesInLockstep == Spec => []Lockstep
  <1>1. Inv => Lockstep
    <2> SUFFICES ASSUME Inv, NEW e \in Engines, NEW f \in Engines
                 PROVE /\ pc[e] # "input" /\ pc[f] # "input" =>
                            pc[e] = pc[f] /\ step[e] = step[f]
                       /\ pc[e] = "reduce" /\ pc[f] = "reduce" => wave[e] = wave[f]
                       /\ ~running[e] => step[e] = 0
                       /\ call[e] # "refused"
      BY DEF Lockstep
    <2>1. wave[e] = wave[f] /\ step[e] = step[f] /\ (pc[e] = "reduce" <=> pc[f] = "reduce")
      BY DEF Inv, Uniform
    <2>2. call[e] # "refused" /\ (~running[e] => step[e] = 0)
      BY DEF Inv, PauseOK, FreshAtZero
    <2>3. ASSUME NEW a \in Engines, NEW b \in Engines, pc[a] = "resume"
          PROVE pc[b] \in {"input", "resume"}
      <3>1. Parked(a)
        BY <2>3 DEF Inv, PauseOK, Parked
      <3>2. Parked(b)
        BY <3>1 DEF Inv, PauseOK
      <3> QED BY <3>2 DEF Inv, PauseOK
    <2> QED BY <2>1, <2>2, <2>3 DEF Inv, TypeOK
  <1> QED BY <1>1, InvAlways, PTL

==============================================================================
