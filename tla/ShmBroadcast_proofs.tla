-------------------------- MODULE ShmBroadcast_proofs --------------------------
(***************************************************************************)
(* For every number of readers, chunks and messages, ShmBroadcast           *)
(* implements BroadcastQueue.                                               *)
(*                                                                         *)
(* Gen(c) is the message that chunk c held last, or would have held (zero   *)
(* or less) in the first round.  A chunk marked written holds that message, *)
(* and a reader's flag says whether the reader has passed it; a chunk not   *)
(* marked written has been passed by everybody.  Counting from the writer,  *)
(* a reader at distance d = sent - taken is d chunks behind in the ring.    *)
(***************************************************************************)
EXTENDS ShmBroadcast, TLAPS

Gen(c) == IF c < w_idx THEN sent - w_idx + c + 1
                       ELSE sent - w_idx + c + 1 - MaxChunks

Content(k) == IF k \in big THEN Overflow ELSE k

(* The flags and data of one chunk.                                         *)
ChunkOK(c) ==
  /\ written[c] =>
       /\ Gen(c) >= 1
       /\ data[c] = Content(Gen(c))
       /\ \A r \in Readers : read_flag[c][r] <=> taken[r] >= Gen(c)
  /\ ~written[c] =>
       /\ c = w_idx \/ Gen(c) <= 0
       /\ \A r \in Readers : taken[r] >= Gen(c)

RingOK == \A c \in Chunks : ChunkOK(c)

(* The chunk the writer is in the middle of.                                *)
WriterOK ==
  /\ w_pc \in Writing => ~written[w_idx]
  /\ w_pc \in {"reset", "publish"} => data[w_idx] = Content(sent + 1)
  /\ w_pc = "reset" => w_i \in Readers /\ \A r \in 1 .. w_i - 1 : ~read_flag[w_idx][r]
  /\ w_pc = "publish" => \A r \in Readers : ~read_flag[w_idx][r]
  /\ w_pc \in Writing \union {"acquire"} => sent < MaxMsgs
  /\ w_pc \notin {"connect", "dead"} => Readers \subseteq subscribed
  /\ w_pc \in {"payload", "notify"} => sent >= 1
  /\ w_pc = "payload" => sent \in big

(* Where a reader is in the ring.                                           *)
Place(r) ==
  /\ taken[r] <= sent
  /\ sent <= taken[r] + MaxChunks
  /\ r_idx[r] = IF sent - taken[r] <= w_idx THEN w_idx - (sent - taken[r])
                ELSE w_idx - (sent - taken[r]) + MaxChunks

(* What a reader has learned from the flags and the chunk.                  *)
Knows(r) ==
  /\ r_pc[r] = "written" /\ ~r_flag[r] => taken[r] < sent \/ ~written[r_idx[r]]
  /\ r_pc[r] \in {"read", "read2", "mark"} => taken[r] < sent
  /\ r_pc[r] \in {"read2", "mark"} => r_val[r] = Content(taken[r] + 1)

(* What a reader has delivered, and the payloads on their way to it.        *)
Fresh(r) == r_pc[r] \in {"connect", "ready"}

Stream(r) ==
  /\ Fresh(r) => taken[r] = 0 /\ last[r] = 0 /\ r \notin broken
  /\ ~Fresh(r) => READY \notin sock[r]
  /\ w_pc = "connect" => Fresh(r) /\ sock[r] = {}
  /\ w_pc = "payload" => sent \notin sock[r]
  /\ sock[r] \subseteq 0 .. sent
  /\ sock[r] \subseteq big \union {READY}
  /\ r \notin broken =>
       /\ last[r] = IF r_pc[r] = "recv" THEN taken[r] - 1 ELSE taken[r]
       /\ r_pc[r] = "recv" => taken[r] \in big
       /\ w_pc = "payload" => last[r] < sent
       /\ \A k \in sock[r] : k > last[r] \/ k = READY
       /\ \A k \in big : last[r] < k /\ k <= sent =>
            k \in sock[r] \/ (k = sent /\ w_pc \in {"payload", "dead"})

Inv ==
  /\ TypeOK
  /\ RingOK
  /\ WriterOK
  /\ \A r \in Readers : Place(r) /\ Knows(r) /\ Stream(r)

-----------------------------------------------------------------------------
(* Facts about the ring                                                     *)

LEMMA NextIdx ==
  ASSUME NEW c \in Chunks
  PROVE (c + 1) % MaxChunks = IF c = MaxChunks - 1 THEN 0 ELSE c + 1
  BY ShmAssumption DEF Chunks

LEMMA GenBound ==
  ASSUME TypeOK, NEW c \in Chunks
  PROVE /\ Gen(c) \in Int /\ Gen(c) <= sent
        /\ Gen(w_idx) = sent + 1 - MaxChunks
        /\ \A d \in Chunks : Gen(c) = Gen(d) => c = d
  <1>1. c \in 0 .. MaxChunks - 1 /\ w_idx \in 0 .. MaxChunks - 1 /\ sent \in Nat
    BY DEF TypeOK, Chunks
  <1>2. Gen(c) \in Int /\ Gen(c) <= sent /\ Gen(w_idx) = sent + 1 - MaxChunks
    BY <1>1, ShmAssumption DEF Gen
  <1>3. ASSUME NEW d \in Chunks, Gen(c) = Gen(d) PROVE c = d
    <2>1. d \in 0 .. MaxChunks - 1
      BY DEF Chunks
    <2> QED BY <1>1, <1>3, <2>1, ShmAssumption DEF Gen
  <1> QED BY <1>2, <1>3

(* Publishing a message gives its chunk the next number and leaves the      *)
(* other chunks' numbers alone.                                             *)
LEMMA GenNext ==
  ASSUME w_idx \in Chunks, sent \in Nat, NEW c \in Chunks, sent' = sent + 1,
         w_idx' = IF w_idx = MaxChunks - 1 THEN 0 ELSE w_idx + 1
  PROVE Gen(c)' = IF c = w_idx THEN sent + 1 ELSE Gen(c)
  <1>1. c \in 0 .. MaxChunks - 1 /\ w_idx \in 0 .. MaxChunks - 1
    BY DEF Chunks
  <1>2. CASE w_idx = MaxChunks - 1
    BY <1>1, <1>2, ShmAssumption DEF Gen
  <1>3. CASE w_idx # MaxChunks - 1
    <2>1. w_idx' = w_idx + 1
      BY <1>3
    <2>2. CASE c < w_idx
      BY <1>1, <2>1, <2>2, ShmAssumption DEF Gen
    <2>3. CASE c = w_idx
      BY <1>1, <2>1, <2>3, ShmAssumption DEF Gen
    <2>4. CASE c > w_idx
      BY <1>1, <2>1, <2>4, ShmAssumption DEF Gen
    <2> QED BY <1>1, <2>2, <2>3, <2>4
  <1> QED BY <1>2, <1>3

(* A reader that is behind stands at the chunk of its next message.         *)
LEMMA Behind ==
  ASSUME Inv, NEW r \in Readers, taken[r] < sent
  PROVE /\ Gen(r_idx[r]) = taken[r] + 1
        /\ written[r_idx[r]]
        /\ ~read_flag[r_idx[r]][r]
        /\ data[r_idx[r]] = Content(taken[r] + 1)
  <1>1. r_idx[r] \in Chunks /\ taken[r] \in Nat /\ sent \in Nat /\ w_idx \in Chunks
    BY DEF Inv, TypeOK
  <1>2. Gen(r_idx[r]) = taken[r] + 1
    BY <1>1, ShmAssumption DEF Inv, Place, Gen, Chunks
  <1>3. written[r_idx[r]]
    BY <1>1, <1>2 DEF Inv, RingOK, ChunkOK
  <1> QED BY <1>1, <1>2, <1>3 DEF Inv, RingOK, ChunkOK

(* A reader that is not behind has passed the chunk it stands at.           *)
LEMMA CaughtUp ==
  ASSUME Inv, NEW r \in Readers, ~(taken[r] < sent), written[r_idx[r]]
  PROVE read_flag[r_idx[r]][r]
  <1>1. r_idx[r] \in Chunks /\ taken[r] \in Nat /\ sent \in Nat /\ w_idx \in Chunks
        /\ read_flag[r_idx[r]][r] \in BOOLEAN
    BY DEF Inv, TypeOK
  <1>2. taken[r] >= Gen(r_idx[r])
    BY <1>1, ShmAssumption DEF Inv, Place, Gen, Chunks
  <1> QED BY <1>1, <1>2 DEF Inv, RingOK, ChunkOK

LEMMA WriterReadyInv ==
  ASSUME Inv, WriterReady
  PROVE Inv'
  <1> USE ShmAssumption DEF WriterReady, publish, Inv, ring, writer, reader
  <1>1. TypeOK'
    <2>1. sock' \in [Readers -> SUBSET (0 .. MaxMsgs)]
      BY DEF TypeOK, READY
    <2> QED BY <2>1 DEF TypeOK, WriterPcs
  <1>2. RingOK'
    BY DEF TypeOK, RingOK, ChunkOK, Gen, Content, WriterOK, Writing
  <1>3. WriterOK'
    BY DEF TypeOK, WriterOK, Content, Writing, Readers
  <1>4. ASSUME NEW r \in Readers PROVE Place(r)'
    BY DEF TypeOK, Place
  <1>5. ASSUME NEW r \in Readers PROVE Knows(r)'
    BY DEF TypeOK, Knows, Content
  <1>6. ASSUME NEW r \in Readers PROVE Stream(r)'
    BY DEF TypeOK, Stream, Fresh, READY
  <1> QED BY <1>1, <1>2, <1>3, <1>4, <1>5, <1>6

LEMMA EnqueueInv ==
  ASSUME Inv, Enqueue
  PROVE Inv'
  <1> USE ShmAssumption DEF Enqueue, Inv, ring, writer, reader
  <1>1. TypeOK'
    <2>1. big' \in SUBSET (1 .. MaxMsgs)
      BY DEF TypeOK
    <2> QED BY <2>1 DEF TypeOK, WriterPcs
  <1>2. RingOK'
    <2> SUFFICES ASSUME NEW c \in Chunks PROVE ChunkOK(c)'
      BY DEF RingOK
    <2>1. Gen(c)' = Gen(c) /\ Gen(c) \in Int /\ Gen(c) <= sent
      BY GenBound DEF Gen
    <2>2. Content(Gen(c))' = Content(Gen(c))
      BY <2>1 DEF Content, TypeOK
    <2> QED BY <2>1, <2>2 DEF RingOK, ChunkOK
  <1>3. WriterOK'
    BY DEF TypeOK, WriterOK, Content, Writing, Readers
  <1>4. ASSUME NEW r \in Readers PROVE Place(r)'
    BY DEF TypeOK, Place
  <1>5. ASSUME NEW r \in Readers PROVE Knows(r)'
    BY DEF TypeOK, Knows, Content
  <1>6. ASSUME NEW r \in Readers PROVE Stream(r)'
    BY DEF TypeOK, Stream, Fresh, WriterOK, Writing
  <1> QED BY <1>1, <1>2, <1>3, <1>4, <1>5, <1>6

LEMMA AcquireWriteInv ==
  ASSUME Inv, AcquireWrite
  PROVE Inv'
  <1> USE ShmAssumption DEF AcquireWrite, WriteCheck, Inv, ring, writer, reader
  <1>1. TypeOK'
    BY DEF TypeOK, WriterPcs, Writing
  <1>2. RingOK'
    BY DEF TypeOK, RingOK, ChunkOK, Gen, Content, WriterOK, Writing
  <1>3. WriterOK'
    BY DEF TypeOK, WriterOK, Content, Writing, Readers
  <1>4. ASSUME NEW r \in Readers PROVE Place(r)'
    BY DEF TypeOK, Place
  <1>5. ASSUME NEW r \in Readers PROVE Knows(r)'
    BY DEF TypeOK, Knows, Content
  <1>6. ASSUME NEW r \in Readers PROVE Stream(r)'
    BY DEF TypeOK, Stream, Fresh, WriterOK, Writing
  <1> QED BY <1>1, <1>2, <1>3, <1>4, <1>5, <1>6

LEMMA AcquireWriteTimeoutInv ==
  ASSUME Inv, AcquireWriteTimeout
  PROVE Inv'
  <1> USE ShmAssumption DEF AcquireWriteTimeout, Inv, ring, writer, reader
  <1>1. TypeOK'
    BY DEF TypeOK, WriterPcs, Writing
  <1>2. RingOK'
    <2> SUFFICES ASSUME NEW c \in Chunks PROVE ChunkOK(c)'
      BY DEF RingOK
    <2>1. Gen(c)' = Gen(c) /\ Gen(c) \in Int /\ Gen(c) <= sent
      BY GenBound DEF Gen
    <2>2. Content(Gen(c))' = Content(Gen(c))
      BY <2>1 DEF Content, TypeOK
    <2> QED BY <2>1, <2>2 DEF RingOK, ChunkOK
  <1>3. WriterOK'
    BY DEF TypeOK, WriterOK, Content, Writing, Readers
  <1>4. ASSUME NEW r \in Readers PROVE Place(r)'
    BY DEF TypeOK, Place
  <1>5. ASSUME NEW r \in Readers PROVE Knows(r)'
    BY DEF TypeOK, Knows, Content
  <1>6. ASSUME NEW r \in Readers PROVE Stream(r)'
    BY DEF TypeOK, Stream, Fresh, READY, Place
  <1> QED BY <1>1, <1>2, <1>3, <1>4, <1>5, <1>6

LEMMA FillBeginInv ==
  ASSUME Inv, FillBegin
  PROVE Inv'
  <1> USE ShmAssumption DEF FillBegin, Inv, ring, writer, reader
  <1>1. TypeOK'
    <2>1. data' \in [Chunks -> Torn .. MaxMsgs]
      BY DEF TypeOK, Torn
    <2> QED BY <2>1 DEF TypeOK, WriterPcs, Writing
  <1>2. RingOK'
    BY DEF TypeOK, RingOK, ChunkOK, Gen, Content, WriterOK, Writing
  <1>3. WriterOK'
    BY DEF TypeOK, WriterOK, Content, Writing, Readers
  <1>4. ASSUME NEW r \in Readers PROVE Place(r)'
    BY DEF TypeOK, Place
  <1>5. ASSUME NEW r \in Readers PROVE Knows(r)'
    BY DEF TypeOK, Knows, Content
  <1>6. ASSUME NEW r \in Readers PROVE Stream(r)'
    BY DEF TypeOK, Stream, Fresh, WriterOK, Writing
  <1> QED BY <1>1, <1>2, <1>3, <1>4, <1>5, <1>6

LEMMA FillEndInv ==
  ASSUME Inv, FillEnd
  PROVE Inv'
  <1> USE ShmAssumption DEF FillEnd, Inv, ring, writer, reader
  <1>1. TypeOK'
    <2>1. data' \in [Chunks -> Torn .. MaxMsgs]
      BY DEF TypeOK, Torn, Overflow, WriterOK, Writing
    <2>2. w_i' \in 1 .. NReaders + 1
      OBVIOUS
    <2> QED BY <2>1, <2>2 DEF TypeOK, WriterPcs, Writing
  <1>2. RingOK'
    BY DEF TypeOK, RingOK, ChunkOK, Gen, Content, WriterOK, Writing
  <1>3. WriterOK'
    BY DEF TypeOK, WriterOK, Content, Writing, Readers
  <1>4. ASSUME NEW r \in Readers PROVE Place(r)'
    BY DEF TypeOK, Place
  <1>5. ASSUME NEW r \in Readers PROVE Knows(r)'
    BY DEF TypeOK, Knows, Content
  <1>6. ASSUME NEW r \in Readers PROVE Stream(r)'
    BY DEF TypeOK, Stream, Fresh, WriterOK, Writing
  <1> QED BY <1>1, <1>2, <1>3, <1>4, <1>5, <1>6

LEMMA ResetReadFlagInv ==
  ASSUME Inv, ResetReadFlag
  PROVE Inv'
  <1> USE ShmAssumption DEF ResetReadFlag, Inv, ring, writer, reader
  <1>1. TypeOK'
    <2>1. read_flag' \in [Chunks -> [Readers -> BOOLEAN]]
      BY DEF TypeOK
    <2>2. w_i' \in 1 .. NReaders + 1
      BY DEF TypeOK, WriterOK, Readers
    <2> QED BY <2>1, <2>2 DEF TypeOK, WriterPcs, Writing
  <1>2. RingOK'
    BY DEF TypeOK, RingOK, ChunkOK, Gen, Content, WriterOK, Writing
  <1>3. WriterOK'
    <2>1. /\ w_i \in Readers /\ w_idx \in Chunks /\ ~written[w_idx]
          /\ \A r \in Readers : read_flag'[w_idx][r] = IF r = w_i THEN FALSE ELSE read_flag[w_idx][r]
      BY DEF TypeOK, WriterOK, Writing
    <2>2. ASSUME NEW r \in 1 .. w_i PROVE r \in Readers /\ ~read_flag'[w_idx][r]
      <3>1. r \in Readers /\ (r = w_i \/ r \in 1 .. w_i - 1)
        BY <2>1 DEF Readers
      <3>2. \A k \in 1 .. w_i - 1 : ~read_flag[w_idx][k]
        BY DEF WriterOK
      <3> QED BY <2>1, <3>1, <3>2
    <2>3. CASE w_i = NReaders
      BY <2>1, <2>2, <2>3 DEF WriterOK, Writing, Readers, Content
    <2>4. CASE w_i # NReaders
      BY <2>1, <2>2, <2>4 DEF WriterOK, Writing, Readers, Content
    <2> QED BY <2>3, <2>4
  <1>4. ASSUME NEW r \in Readers PROVE Place(r)'
    BY DEF TypeOK, Place
  <1>5. ASSUME NEW r \in Readers PROVE Knows(r)'
    BY DEF TypeOK, Knows, Content
  <1>6. ASSUME NEW r \in Readers PROVE Stream(r)'
    BY DEF TypeOK, Stream, Fresh, WriterOK, Writing
  <1> QED BY <1>1, <1>2, <1>3, <1>4, <1>5, <1>6

LEMMA MarkWrittenInv ==
  ASSUME Inv, MarkWritten
  PROVE Inv'
  <1> USE ShmAssumption DEF MarkWritten, Inv, ring, writer, reader
  <1>1. TypeOK'
    <2>1. /\ w_idx \in Chunks /\ sent \in Nat /\ sent < MaxMsgs
          /\ w_idx' = (IF w_idx = MaxChunks - 1 THEN 0 ELSE w_idx + 1)
      BY NextIdx DEF TypeOK, WriterOK, Writing
    <2>2. w_idx' \in Chunks /\ sent' \in 0 .. MaxMsgs
      BY <2>1 DEF Chunks
    <2>3. written' \in [Chunks -> BOOLEAN]
      BY DEF TypeOK
    <2> QED BY <2>2, <2>3 DEF TypeOK, WriterPcs
  <1>2. RingOK'
    <2>1. /\ w_idx \in Chunks /\ sent \in Nat /\ sent < MaxMsgs
          /\ w_idx' = (IF w_idx = MaxChunks - 1 THEN 0 ELSE w_idx + 1)
      BY NextIdx DEF TypeOK, WriterOK, Writing
    <2> SUFFICES ASSUME NEW c \in Chunks PROVE ChunkOK(c)'
      BY DEF RingOK
    <2>2. Gen(c)' = IF c = w_idx THEN sent + 1 ELSE Gen(c)
      BY <2>1, GenNext
    <2>3. CASE c = w_idx
      <3>1. written'[c] /\ data'[c] = Content(sent + 1) /\ Gen(c)' = sent + 1
        BY <2>1, <2>2, <2>3 DEF TypeOK, WriterOK, Content
      <3>2. \A r \in Readers : ~read_flag'[c][r] /\ ~(taken'[r] >= sent + 1)
        BY <2>1, <2>3 DEF WriterOK, Place, TypeOK
      <3>3. Content(Gen(c))' = Content(sent + 1)
        BY <3>1 DEF Content
      <3> QED BY <3>1, <3>2, <3>3, <2>1 DEF ChunkOK
    <2>4. CASE c # w_idx
      <3>1. written'[c] = written[c] /\ Gen(c)' = Gen(c)
        BY <2>2, <2>4 DEF TypeOK
      <3> QED BY <3>1, <2>4 DEF RingOK, ChunkOK, Content
    <2> QED BY <2>3, <2>4
  <1>3. WriterOK'
    BY DEF TypeOK, WriterOK, Content, Writing, Readers
  <1>4. ASSUME NEW r \in Readers PROVE Place(r)'
    <2>1. /\ w_idx \in Chunks /\ sent \in Nat /\ sent < MaxMsgs
          /\ w_idx' = (IF w_idx = MaxChunks - 1 THEN 0 ELSE w_idx + 1)
      BY NextIdx DEF TypeOK, WriterOK, Writing
    <2>2. taken[r] >= sent + 1 - MaxChunks /\ taken[r] \in Nat
      <3>1. ~written[w_idx] /\ Gen(w_idx) = sent + 1 - MaxChunks
        BY <2>1, GenBound DEF WriterOK, Writing
      <3> QED BY <3>1, <2>1 DEF RingOK, ChunkOK, TypeOK
    <2>3. r_idx[r] \in Chunks
      BY DEF TypeOK
    <2> QED BY <2>1, <2>2, <2>3 DEF Place, Chunks
  <1>5. ASSUME NEW r \in Readers PROVE Knows(r)'
    <2>1. taken[r] \in Nat /\ sent \in Nat /\ taken[r] <= sent
      BY DEF TypeOK, Place
    <2> QED BY <2>1 DEF Knows, Content
  <1>6. ASSUME NEW r \in Readers PROVE Stream(r)'
    <2>1. /\ taken[r] \in Nat /\ sent \in Nat /\ taken[r] <= sent /\ last[r] \in Nat
          /\ big \in SUBSET Nat /\ sock[r] \in SUBSET Nat
      BY DEF TypeOK, Place
    <2>2. Fresh(r)' = Fresh(r)
      BY DEF Fresh
    <2>3. r \notin broken => last[r] <= sent
      BY <2>1 DEF Stream
    <2> QED BY <2>1, <2>2, <2>3 DEF Stream, READY
  <1> QED BY <1>1, <1>2, <1>3, <1>4, <1>5, <1>6

LEMMA SendPayloadInv ==
  ASSUME Inv, SendPayload
  PROVE Inv'
  <1> USE ShmAssumption DEF SendPayload, publish, Inv, ring, writer, reader
  <1>1. TypeOK'
    BY DEF TypeOK, WriterPcs, Writing
  <1>2. RingOK'
    BY DEF TypeOK, RingOK, ChunkOK, Gen, Content, WriterOK, Writing
  <1>3. WriterOK'
    BY DEF TypeOK, WriterOK, Content, Writing, Readers
  <1>4. ASSUME NEW r \in Readers PROVE Place(r)'
    BY DEF TypeOK, Place
  <1>5. ASSUME NEW r \in Readers PROVE Knows(r)'
    BY DEF TypeOK, Knows, Content
  <1>6. ASSUME NEW r \in Readers PROVE Stream(r)'
    <2>1. /\ sent \in Nat /\ last[r] \in Nat /\ sent >= 1 /\ sent \in big
          /\ sock'[r] = sock[r] \union {sent}
      BY DEF TypeOK, WriterOK, publish
    <2>2. Fresh(r)' = Fresh(r)
      BY DEF Fresh
    <2>3. w_pc' = "notify" /\ w_pc = "payload" /\ sock[r] \subseteq 0 .. sent
      BY DEF Stream
    <2>4. CASE r \in broken
      BY <2>1, <2>2, <2>3, <2>4 DEF Stream, READY
    <2>5. CASE r \notin broken
      <3>1. last[r] < sent
        BY <2>3, <2>5 DEF Stream
      <3>2. \A k \in sock'[r] : k > last[r] \/ k = READY
        BY <2>1, <2>5, <3>1 DEF Stream
      <3>3. \A k \in big : last[r] < k /\ k <= sent => k \in sock'[r]
        BY <2>1, <2>3, <2>5 DEF Stream
      <3> QED BY <2>1, <2>2, <2>3, <2>5, <3>1, <3>2, <3>3 DEF Stream, READY
    <2> QED BY <2>4, <2>5
  <1> QED BY <1>1, <1>2, <1>3, <1>4, <1>5, <1>6

LEMMA NotifyInv ==
  ASSUME Inv, Notify
  PROVE Inv'
  <1> USE ShmAssumption DEF Notify, Inv, ring, writer, reader
  <1>1. TypeOK'
    BY DEF TypeOK, WriterPcs, Writing
  <1>2. RingOK'
    BY DEF TypeOK, RingOK, ChunkOK, Gen, Content, WriterOK, Writing
  <1>3. WriterOK'
    BY DEF TypeOK, WriterOK, Content, Writing, Readers
  <1>4. ASSUME NEW r \in Readers PROVE Place(r)'
    BY DEF TypeOK, Place
  <1>5. ASSUME NEW r \in Readers PROVE Knows(r)'
    BY DEF TypeOK, Knows, Content
  <1>6. ASSUME NEW r \in Readers PROVE Stream(r)'
    BY DEF TypeOK, Stream, Fresh, WriterOK, Writing
  <1> QED BY <1>1, <1>2, <1>3, <1>4, <1>5, <1>6

LEMMA WriterDiesInv ==
  ASSUME Inv, WriterDies
  PROVE Inv'
  <1> USE ShmAssumption DEF WriterDies, Inv, ring, writer, reader
  <1>1. TypeOK'
    BY DEF TypeOK, WriterPcs, Writing
  <1>2. RingOK'
    BY DEF TypeOK, RingOK, ChunkOK, Gen, Content, WriterOK, Writing
  <1>3. WriterOK'
    BY DEF TypeOK, WriterOK, Content, Writing, Readers
  <1>4. ASSUME NEW r \in Readers PROVE Place(r)'
    BY DEF TypeOK, Place
  <1>5. ASSUME NEW r \in Readers PROVE Knows(r)'
    BY DEF TypeOK, Knows, Content
  <1>6. ASSUME NEW r \in Readers PROVE Stream(r)'
    BY DEF TypeOK, Stream, Fresh, WriterOK, Writing
  <1> QED BY <1>1, <1>2, <1>3, <1>4, <1>5, <1>6

LEMMA SubscribeReaderInv ==
  ASSUME Inv, NEW q \in Readers, SubscribeReader(q)
  PROVE Inv'
  <1> USE ShmAssumption DEF SubscribeReader, Inv, ring, writer, reader
  <1>1. TypeOK'
    BY DEF TypeOK, ReaderPcs, READY
  <1>2. RingOK'
    BY DEF TypeOK, RingOK, ChunkOK, Gen, Content, WriterOK, Writing
  <1>3. WriterOK'
    BY DEF TypeOK, WriterOK, Content, Writing, Readers
  <1>4. ASSUME NEW r \in Readers PROVE Place(r)'
    BY DEF TypeOK, Place
  <1>5. ASSUME NEW r \in Readers PROVE Knows(r)'
    BY DEF TypeOK, Knows, Content
  <1>6. ASSUME NEW r \in Readers PROVE Stream(r)'
    BY DEF TypeOK, Stream, Fresh, WriterOK, Writing
  <1> QED BY <1>1, <1>2, <1>3, <1>4, <1>5, <1>6

LEMMA ReaderReadyInv ==
  ASSUME Inv, NEW q \in Readers, ReaderReady(q)
  PROVE Inv'
  <1> USE ShmAssumption DEF ReaderReady, Oldest, Inv, ring, writer, reader
  <1>1. TypeOK'
    BY DEF TypeOK, ReaderPcs, READY
  <1>2. RingOK'
    BY DEF TypeOK, RingOK, ChunkOK, Gen, Content, WriterOK, Writing
  <1>3. WriterOK'
    BY DEF TypeOK, WriterOK, Content, Writing, Readers
  <1>4. ASSUME NEW r \in Readers PROVE Place(r)'
    BY DEF TypeOK, Place
  <1>5. ASSUME NEW r \in Readers PROVE Knows(r)'
    BY DEF TypeOK, Knows, Content
  <1>6. ASSUME NEW r \in Readers PROVE Stream(r)'
    BY DEF TypeOK, Stream, Fresh, READY
  <1> QED BY <1>1, <1>2, <1>3, <1>4, <1>5, <1>6

LEMMA LoadReadFlagInv ==
  ASSUME Inv, NEW q \in Readers, LoadReadFlag(q)
  PROVE Inv'
  <1> USE ShmAssumption DEF LoadReadFlag, Inv, ring, writer, reader
  <1>1. TypeOK'
    BY DEF TypeOK, ReaderPcs, READY
  <1>2. RingOK'
    BY DEF TypeOK, RingOK, ChunkOK, Gen, Content, WriterOK, Writing
  <1>3. WriterOK'
    BY DEF TypeOK, WriterOK, Content, Writing, Readers
  <1>4. ASSUME NEW r \in Readers PROVE Place(r)'
    BY DEF TypeOK, Place
  <1>5. ASSUME NEW r \in Readers PROVE Knows(r)'
    <2>1. CASE r = q
      <3>1. r_flag'[r] = read_flag[r_idx[r]][r] /\ r_pc'[r] = "written"
        BY <2>1 DEF TypeOK
      <3> QED BY <3>1, CaughtUp DEF Knows
    <2>2. CASE r # q
      BY <2>2 DEF TypeOK, Knows, Content
    <2> QED BY <2>1, <2>2
  <1>6. ASSUME NEW r \in Readers PROVE Stream(r)'
    BY DEF TypeOK, Stream, Fresh, WriterOK, Writing
  <1> QED BY <1>1, <1>2, <1>3, <1>4, <1>5, <1>6

LEMMA LoadWrittenFlagInv ==
  ASSUME Inv, NEW q \in Readers, LoadWrittenFlag(q)
  PROVE Inv'
  <1> USE ShmAssumption DEF LoadWrittenFlag, Inv, ring, writer, reader
  <1>1. TypeOK'
    BY DEF TypeOK, ReaderPcs, READY
  <1>2. RingOK'
    BY DEF TypeOK, RingOK, ChunkOK, Gen, Content, WriterOK, Writing
  <1>3. WriterOK'
    BY DEF TypeOK, WriterOK, Content, Writing, Readers
  <1>4. ASSUME NEW r \in Readers PROVE Place(r)'
    BY DEF TypeOK, Place
  <1>5. ASSUME NEW r \in Readers PROVE Knows(r)'
    BY DEF TypeOK, Knows, Content
  <1>6. ASSUME NEW r \in Readers PROVE Stream(r)'
    BY DEF TypeOK, Stream, Fresh, WriterOK, Writing
  <1> QED BY <1>1, <1>2, <1>3, <1>4, <1>5, <1>6

LEMMA SpinWaitInv ==
  ASSUME Inv, NEW q \in Readers, SpinWait(q)
  PROVE Inv'
  <1> USE ShmAssumption DEF SpinWait, AfterWait, Inv, ring, writer, reader
  <1>1. TypeOK'
    BY DEF TypeOK, ReaderPcs, READY
  <1>2. RingOK'
    BY DEF TypeOK, RingOK, ChunkOK, Gen, Content, WriterOK, Writing
  <1>3. WriterOK'
    BY DEF TypeOK, WriterOK, Content, Writing, Readers
  <1>4. ASSUME NEW r \in Readers PROVE Place(r)'
    BY DEF TypeOK, Place
  <1>5. ASSUME NEW r \in Readers PROVE Knows(r)'
    BY DEF TypeOK, Knows, Content
  <1>6. ASSUME NEW r \in Readers PROVE Stream(r)'
    BY DEF TypeOK, Stream, Fresh, WriterOK, Writing
  <1> QED BY <1>1, <1>2, <1>3, <1>4, <1>5, <1>6

LEMMA WaitRecheckInv ==
  ASSUME Inv, NEW q \in Readers, WaitRecheck(q)
  PROVE Inv'
  <1> USE ShmAssumption DEF WaitRecheck, AfterWait, Inv, ring, writer, reader
  <1>1. TypeOK'
    BY DEF TypeOK, ReaderPcs, READY
  <1>2. RingOK'
    BY DEF TypeOK, RingOK, ChunkOK, Gen, Content, WriterOK, Writing
  <1>3. WriterOK'
    BY DEF TypeOK, WriterOK, Content, Writing, Readers
  <1>4. ASSUME NEW r \in Readers PROVE Place(r)'
    BY DEF TypeOK, Place
  <1>5. ASSUME NEW r \in Readers PROVE Knows(r)'
    BY DEF TypeOK, Knows, Content
  <1>6. ASSUME NEW r \in Readers PROVE Stream(r)'
    BY DEF TypeOK, Stream, Fresh, WriterOK, Writing
  <1> QED BY <1>1, <1>2, <1>3, <1>4, <1>5, <1>6

LEMMA ReadBeginInv ==
  ASSUME Inv, NEW q \in Readers, ReadBegin(q)
  PROVE Inv'
  <1> USE ShmAssumption DEF ReadBegin, Inv, ring, writer, reader
  <1>1. TypeOK'
    BY DEF TypeOK, ReaderPcs, READY
  <1>2. RingOK'
    BY DEF TypeOK, RingOK, ChunkOK, Gen, Content, WriterOK, Writing
  <1>3. WriterOK'
    BY DEF TypeOK, WriterOK, Content, Writing, Readers
  <1>4. ASSUME NEW r \in Readers PROVE Place(r)'
    BY DEF TypeOK, Place
  <1>5. ASSUME NEW r \in Readers PROVE Knows(r)'
    <2>1. CASE r = q
      <3>1. r_val'[r] = data[r_idx[r]] /\ r_pc'[r] = "read2" /\ taken[r] < sent
        BY <2>1 DEF TypeOK, Knows
      <3> QED BY <3>1, Behind DEF Knows, Content
    <2>2. CASE r # q
      BY <2>2 DEF TypeOK, Knows, Content
    <2> QED BY <2>1, <2>2
  <1>6. ASSUME NEW r \in Readers PROVE Stream(r)'
    BY DEF TypeOK, Stream, Fresh, WriterOK, Writing
  <1> QED BY <1>1, <1>2, <1>3, <1>4, <1>5, <1>6

LEMMA ReadEndInv ==
  ASSUME Inv, NEW q \in Readers, ReadEnd(q)
  PROVE Inv'
  <1> USE ShmAssumption DEF ReadEnd, Inv, ring, writer, reader
  <1>1. TypeOK'
    <2>1. r_val' \in [Readers -> Torn .. MaxMsgs]
      BY DEF TypeOK, Torn
    <2> QED BY <2>1 DEF TypeOK, ReaderPcs
  <1>2. RingOK'
    BY DEF TypeOK, RingOK, ChunkOK, Gen, Content, WriterOK, Writing
  <1>3. WriterOK'
    BY DEF TypeOK, WriterOK, Content, Writing, Readers
  <1>4. ASSUME NEW r \in Readers PROVE Place(r)'
    BY DEF TypeOK, Place
  <1>5. ASSUME NEW r \in Readers PROVE Knows(r)'
    <2>1. CASE r = q
      <3>1. /\ r_val'[r] = (IF data[r_idx[r]] = r_val[r] THEN r_val[r] ELSE Torn)
            /\ r_pc'[r] = "mark" /\ taken[r] < sent /\ r_val[r] = Content(taken[r] + 1)
        BY <2>1 DEF TypeOK, Knows
      <3> QED BY <3>1, Behind DEF Knows, Content
    <2>2. CASE r # q
      BY <2>2 DEF TypeOK, Knows, Content
    <2> QED BY <2>1, <2>2
  <1>6. ASSUME NEW r \in Readers PROVE Stream(r)'
    BY DEF TypeOK, Stream, Fresh, WriterOK, Writing
  <1> QED BY <1>1, <1>2, <1>3, <1>4, <1>5, <1>6

LEMMA MarkReadInv ==
  ASSUME Inv, NEW q \in Readers, MarkRead(q)
  PROVE Inv'
  <1> USE ShmAssumption DEF MarkRead, Inv, ring, writer, reader
  <1>1. TypeOK'
    <2>1. /\ r_idx[q] \in Chunks /\ taken[q] \in Nat /\ sent \in 0 .. MaxMsgs /\ taken[q] < sent
          /\ r_idx'[q] = (IF r_idx[q] = MaxChunks - 1 THEN 0 ELSE r_idx[q] + 1)
          /\ taken'[q] = taken[q] + 1
          /\ r_val[q] = Content(taken[q] + 1)
      BY NextIdx DEF TypeOK, Knows
    <2>2. r_val[q] \in 0 .. MaxMsgs
      BY <2>1 DEF Content, Overflow
    <2>3. r_idx' \in [Readers -> Chunks]
      <3>1. r_idx'[q] \in Chunks
        BY <2>1 DEF Chunks
      <3> QED BY <3>1 DEF TypeOK
    <2>4. taken' \in [Readers -> 0 .. MaxMsgs]
      BY <2>1 DEF TypeOK
    <2>5. last' \in [Readers -> 0 .. MaxMsgs]
      BY <2>2 DEF TypeOK
    <2>6. read_flag' \in [Chunks -> [Readers -> BOOLEAN]]
      BY DEF TypeOK
    <2>7. r_val' \in [Readers -> Torn .. MaxMsgs]
      BY DEF TypeOK, Torn
    <2>8. r_pc' \in [Readers -> ReaderPcs]
      <3>1. r_pc' \in {[r_pc EXCEPT ![q] = "recv"], [r_pc EXCEPT ![q] = "flag"]}
        OBVIOUS
      <3>2. "recv" \in ReaderPcs /\ "flag" \in ReaderPcs /\ r_pc \in [Readers -> ReaderPcs]
        BY DEF TypeOK, ReaderPcs
      <3> QED BY <3>1, <3>2
    <2> QED BY <2>3, <2>4, <2>5, <2>6, <2>7, <2>8 DEF TypeOK
  <1>2. RingOK'
    <2>1. /\ r_idx[q] \in Chunks /\ taken[q] \in Nat /\ sent \in 0 .. MaxMsgs /\ taken[q] < sent
          /\ r_idx'[q] = (IF r_idx[q] = MaxChunks - 1 THEN 0 ELSE r_idx[q] + 1)
          /\ taken'[q] = taken[q] + 1
          /\ r_val[q] = Content(taken[q] + 1)
      BY NextIdx DEF TypeOK, Knows
    <2>2. /\ Gen(r_idx[q]) = taken[q] + 1 /\ written[r_idx[q]]
      BY <2>1, Behind
    <2> SUFFICES ASSUME NEW c \in Chunks PROVE ChunkOK(c)'
      BY DEF RingOK
    <2>3. /\ Gen(c)' = Gen(c) /\ Gen(c) \in Int
          /\ written'[c] = written[c] /\ data'[c] = data[c]
          /\ Content(Gen(c))' = Content(Gen(c))
          /\ c # r_idx[q] => Gen(c) # taken[q] + 1
      BY <2>1, <2>2, GenBound DEF Gen, Content
    <2>4. ASSUME NEW r \in Readers
          PROVE /\ taken[r] \in Nat
                /\ r # q => taken'[r] = taken[r]
                /\ c # r_idx[q] \/ r # q => read_flag'[c][r] = read_flag[c][r]
      <3>1. taken[r] \in Nat /\ (r # q => taken'[r] = taken[r])
        BY DEF TypeOK
      <3>2. CASE c # r_idx[q]
        BY <3>1, <3>2 DEF TypeOK
      <3>3. CASE c = r_idx[q]
        BY <3>1, <3>3 DEF TypeOK
      <3> QED BY <3>1, <3>2, <3>3
    <2>5. c = r_idx[q] => read_flag'[c][q]
      BY DEF TypeOK
    <2>6. ASSUME written[c], NEW r \in Readers
          PROVE read_flag'[c][r] <=> taken'[r] >= Gen(c)
      <3>1. read_flag[c][r] <=> taken[r] >= Gen(c)
        BY <2>6 DEF RingOK, ChunkOK
      <3>2. CASE r # q
        BY <3>1, <3>2, <2>4
      <3>3. CASE r = q /\ c = r_idx[q]
        BY <3>3, <2>1, <2>2, <2>5
      <3>4. CASE r = q /\ c # r_idx[q]
        BY <3>1, <3>4, <2>1, <2>3, <2>4
      <3> QED BY <3>2, <3>3, <3>4
    <2>7. ASSUME ~written[c], NEW r \in Readers PROVE taken'[r] >= Gen(c)
      BY <2>7, <2>1, <2>3, <2>4 DEF RingOK, ChunkOK
    <2> QED BY <2>3, <2>6, <2>7 DEF RingOK, ChunkOK
  <1>3. WriterOK'
    <2>1. w_pc \in Writing => ~written[w_idx] /\ r_idx[q] # w_idx
      BY Behind DEF WriterOK, Knows
    <2>2. w_idx \in Chunks /\ r_idx[q] \in Chunks
      BY DEF TypeOK
    <2>3. w_pc \in Writing => read_flag'[w_idx] = read_flag[w_idx]
      BY <2>1, <2>2 DEF TypeOK
    <2> QED BY <2>1, <2>3 DEF WriterOK, Content, Writing
  <1>4. ASSUME NEW r \in Readers PROVE Place(r)'
    <2>1. CASE r = q
      <3>1. /\ r_idx[q] \in Chunks /\ taken[q] \in Nat /\ sent \in 0 .. MaxMsgs /\ taken[q] < sent
            /\ r_idx'[q] = (IF r_idx[q] = MaxChunks - 1 THEN 0 ELSE r_idx[q] + 1)
            /\ taken'[q] = taken[q] + 1
            /\ r_val[q] = Content(taken[q] + 1)
        BY NextIdx DEF TypeOK, Knows
      <3>2. w_idx \in Chunks
        BY DEF TypeOK
      <3> QED BY <3>1, <3>2, <2>1 DEF Place, Chunks
    <2>2. CASE r # q
      BY <2>2 DEF TypeOK, Place
    <2> QED BY <2>1, <2>2
  <1>5. ASSUME NEW r \in Readers PROVE Knows(r)'
    BY DEF TypeOK, Knows, Content
  <1>6. ASSUME NEW r \in Readers PROVE Stream(r)'
    <2>1. CASE r = q
      <3>1. /\ r_idx[q] \in Chunks /\ taken[q] \in Nat /\ sent \in 0 .. MaxMsgs /\ taken[q] < sent
            /\ r_idx'[q] = (IF r_idx[q] = MaxChunks - 1 THEN 0 ELSE r_idx[q] + 1)
            /\ taken'[q] = taken[q] + 1
            /\ r_val[q] = Content(taken[q] + 1)
        BY NextIdx DEF TypeOK, Knows
      <3>2. /\ last[q] \in Nat /\ big \in SUBSET Nat /\ sock[q] \in SUBSET Nat
            /\ ~Fresh(q) /\ ~Fresh(q)' /\ w_pc # "connect"
        <4>1. last[q] \in Nat /\ big \in SUBSET Nat /\ sock[q] \in SUBSET Nat
          BY DEF TypeOK
        <4>2. ~Fresh(q) /\ ~Fresh(q)'
          BY DEF TypeOK, Fresh
        <4> QED BY <4>1, <4>2 DEF Stream
      <3>3. CASE r_val[q] = Overflow
        <4>1. taken[q] + 1 \in big /\ r_pc'[q] = "recv" /\ last'[q] = last[q]
          BY <3>1, <3>3 DEF Content, Overflow, TypeOK
        <4> QED BY <4>1, <3>1, <3>2, <2>1 DEF Stream
      <3>4. CASE r_val[q] # Overflow
        <4>1. taken[q] + 1 \notin big /\ r_pc'[q] = "flag" /\ last'[q] = taken[q] + 1
          BY <3>1, <3>4 DEF Content, TypeOK
        <4>2. q \notin broken => last[q] = taken[q]
          BY DEF Stream
        <4>3. w_pc = "payload" => sent \in big /\ taken[q] + 1 < sent
          BY <4>1, <3>1 DEF WriterOK
        <4>4. q \notin broken => \A k \in sock[q] : k > taken[q] + 1
          BY <4>1, <4>2, <3>1, <3>2 DEF Stream, READY
        <4> QED BY <4>1, <4>2, <4>3, <4>4, <3>1, <3>2, <2>1 DEF Stream
      <3> QED BY <3>3, <3>4
    <2>2. CASE r # q
      BY <2>2 DEF TypeOK, Stream, Fresh
    <2> QED BY <2>1, <2>2
  <1> QED BY <1>1, <1>2, <1>3, <1>4, <1>5, <1>6

LEMMA RecvInv ==
  ASSUME Inv, NEW q \in Readers, Recv(q)
  PROVE Inv'
  <1> USE ShmAssumption DEF Recv, Oldest, Inv, ring, writer, reader
  <1>1. TypeOK'
    <2>1. PICK m \in sock[q] : /\ last' = [last EXCEPT ![q] = m]
                               /\ sock' = [sock EXCEPT ![q] = @ \ {m}]
      BY DEF Oldest
    <2>2. m \in 0 .. MaxMsgs
      BY DEF TypeOK
    <2> QED BY <2>1, <2>2 DEF TypeOK, ReaderPcs
  <1>2. RingOK'
    BY DEF TypeOK, RingOK, ChunkOK, Gen, Content, WriterOK, Writing
  <1>3. WriterOK'
    BY DEF TypeOK, WriterOK, Content, Writing, Readers
  <1>4. ASSUME NEW r \in Readers PROVE Place(r)'
    BY DEF TypeOK, Place
  <1>5. ASSUME NEW r \in Readers PROVE Knows(r)'
    BY DEF TypeOK, Knows, Content
  <1>6. ASSUME NEW r \in Readers PROVE Stream(r)'
    <2>1. CASE r = q
      <3>1. PICK m \in sock[q] : /\ last' = [last EXCEPT ![q] = m]
                                 /\ sock' = [sock EXCEPT ![q] = @ \ {m}]
                                 /\ \A k \in sock[q] : m <= k
        BY DEF Oldest
      <3>2. /\ taken[q] \in Nat /\ sent \in Nat /\ taken[q] <= sent /\ last[q] \in Nat
            /\ big \in SUBSET Nat /\ sock[q] \in SUBSET Nat /\ m \in Nat
            /\ last'[q] = m /\ sock'[q] = sock[q] \ {m} /\ r_pc'[q] = "flag"
            /\ ~Fresh(q) /\ ~Fresh(q)' /\ w_pc # "connect"
        BY <3>1 DEF TypeOK, Fresh, Stream, Place
      <3>3. q \notin broken => m = taken[q]
        <4> SUFFICES ASSUME q \notin broken PROVE m = taken[q]
          OBVIOUS
        <4>1. /\ last[q] = taken[q] - 1 /\ taken[q] \in big
              /\ \A k \in sock[q] : k >= taken[q] /\ k <= sent
          BY <3>2 DEF Stream, READY
        <4>2. taken[q] \in sock[q] \/ taken[q] = sent
          BY <4>1, <3>2 DEF Stream
        <4> QED BY <4>1, <4>2, <3>1, <3>2
      <3>4. w_pc = "payload" => m # sent /\ m <= sent
        BY <3>1, <3>2 DEF Stream
      <3> QED BY <3>1, <3>2, <3>3, <3>4, <2>1 DEF Stream
    <2>2. CASE r # q
      BY <2>2 DEF TypeOK, Stream, Fresh
    <2> QED BY <2>1, <2>2
  <1> QED BY <1>1, <1>2, <1>3, <1>4, <1>5, <1>6

LEMMA RecvTimeoutInv ==
  ASSUME Inv, NEW q \in Readers, RecvTimeout(q)
  PROVE Inv'
  <1> USE ShmAssumption DEF RecvTimeout, Inv, ring, writer, reader
  <1>1. TypeOK'
    BY DEF TypeOK, ReaderPcs, READY
  <1>2. RingOK'
    BY DEF TypeOK, RingOK, ChunkOK, Gen, Content, WriterOK, Writing
  <1>3. WriterOK'
    BY DEF TypeOK, WriterOK, Content, Writing, Readers
  <1>4. ASSUME NEW r \in Readers PROVE Place(r)'
    BY DEF TypeOK, Place
  <1>5. ASSUME NEW r \in Readers PROVE Knows(r)'
    BY DEF TypeOK, Knows, Content
  <1>6. ASSUME NEW r \in Readers PROVE Stream(r)'
    BY DEF TypeOK, Stream, Fresh, WriterOK, Writing
  <1> QED BY <1>1, <1>2, <1>3, <1>4, <1>5, <1>6

LEMMA ShutdownInv ==
  ASSUME Inv, NEW q \in Readers, Shutdown(q)
  PROVE Inv'
  <1> USE ShmAssumption DEF Shutdown, Inv, ring, writer, reader
  <1>1. TypeOK'
    BY DEF TypeOK, ReaderPcs, READY
  <1>2. RingOK'
    BY DEF TypeOK, RingOK, ChunkOK, Gen, Content, WriterOK, Writing
  <1>3. WriterOK'
    BY DEF TypeOK, WriterOK, Content, Writing, Readers
  <1>4. ASSUME NEW r \in Readers PROVE Place(r)'
    BY DEF TypeOK, Place
  <1>5. ASSUME NEW r \in Readers PROVE Knows(r)'
    BY DEF TypeOK, Knows, Content
  <1>6. ASSUME NEW r \in Readers PROVE Stream(r)'
    BY DEF TypeOK, Stream, Fresh, WriterOK, Writing
  <1> QED BY <1>1, <1>2, <1>3, <1>4, <1>5, <1>6

-----------------------------------------------------------------------------
(* The invariant, and what a step is to the abstract queue                  *)

LEMMA InitInv == Init => Inv
  <1> SUFFICES ASSUME Init PROVE Inv
    OBVIOUS
  <1> USE ShmAssumption DEF Init
  <1>1. TypeOK
    BY DEF TypeOK, WriterPcs, ReaderPcs, Chunks, Torn, Readers
  <1>2. RingOK
    BY DEF RingOK, ChunkOK, Gen, Chunks
  <1>3. WriterOK
    BY DEF WriterOK, Writing
  <1>4. ASSUME NEW r \in Readers PROVE Place(r) /\ Knows(r) /\ Stream(r)
    BY DEF Place, Knows, Stream, Fresh
  <1> QED BY <1>1, <1>2, <1>3, <1>4 DEF Inv

LEMMA StutterInv == Inv /\ UNCHANGED vars => Inv'
  BY DEF Inv, vars, ring, writer, reader, TypeOK, RingOK, ChunkOK, Gen, Content,
         WriterOK, Place, Knows, Stream, Fresh

LEMMA NextInv == Inv /\ [Next]_vars => Inv'
  <1> SUFFICES ASSUME Inv, [Next]_vars PROVE Inv'
    OBVIOUS
  <1>1. CASE WriterStep
    BY <1>1, WriterReadyInv, AcquireWriteInv, FillBeginInv, FillEndInv,
       ResetReadFlagInv, MarkWrittenInv, SendPayloadInv, NotifyInv DEF WriterStep
  <1>2. CASE Enqueue \/ AcquireWriteTimeout \/ WriterDies
    BY <1>2, EnqueueInv, AcquireWriteTimeoutInv, WriterDiesInv
  <1>3. ASSUME NEW q \in Readers, ReaderStep(q) PROVE Inv'
    BY <1>3, SubscribeReaderInv, ReaderReadyInv, LoadReadFlagInv, LoadWrittenFlagInv,
       WaitRecheckInv, ReadBeginInv, ReadEndInv, MarkReadInv, RecvInv DEF ReaderStep
  <1>4. ASSUME NEW q \in Readers, SpinWait(q) \/ RecvTimeout(q) \/ Shutdown(q)
        PROVE Inv'
    BY <1>4, SpinWaitInv, RecvTimeoutInv, ShutdownInv
  <1>5. CASE UNCHANGED vars
    BY <1>5, StutterInv
  <1> QED BY <1>1, <1>2, <1>3, <1>4, <1>5 DEF Next

LEMMA InvAlways == Spec => []Inv
  BY InitInv, NextInv, PTL DEF Spec

LEMMA MarkWrittenSends ==
  ASSUME Inv, MarkWritten
  PROVE BQ!Send
  <1>1. ASSUME NEW r \in Readers \ broken PROVE sent <= last[r] + MaxChunks
    <2>1. ~written[w_idx] /\ w_idx \in Chunks /\ Gen(w_idx) = sent + 1 - MaxChunks
      BY GenBound DEF MarkWritten, Inv, WriterOK, Writing, TypeOK
    <2>2. taken[r] >= sent + 1 - MaxChunks /\ taken[r] \in Nat /\ sent \in Nat
      BY <2>1 DEF Inv, RingOK, ChunkOK, TypeOK
    <2>3. last[r] >= taken[r] - 1 /\ last[r] \in Nat
      BY <2>2 DEF Inv, Stream, TypeOK
    <2> QED BY <2>2, <2>3, ShmAssumption
  <1> QED BY <1>1 DEF BQ!Send, MarkWritten

LEMMA MarkReadReceives ==
  ASSUME Inv, NEW q \in Readers, MarkRead(q)
  PROVE BQ!Receive(q) \/ BQ!ReceiveBroken(q) \/ UNCHANGED BQ!vars
  <1>1. /\ taken[q] \in Nat /\ sent \in Nat /\ taken[q] < sent
        /\ r_val[q] = Content(taken[q] + 1)
        /\ UNCHANGED <<sent, broken>>
    BY DEF MarkRead, Inv, TypeOK, Knows
  <1>2. CASE r_val[q] = Overflow
    BY <1>1, <1>2 DEF MarkRead, BQ!vars
  <1>3. CASE r_val[q] # Overflow
    <2>1. last' = [last EXCEPT ![q] = taken[q] + 1]
      BY <1>1, <1>3 DEF MarkRead, Content
    <2>2. CASE q \in broken
      <3>1. taken[q] + 1 \in 1 .. sent
        BY <1>1
      <3> QED BY <1>1, <2>1, <2>2, <3>1 DEF BQ!ReceiveBroken
    <2>3. CASE q \notin broken
      <3>1. last[q] = taken[q]
        BY <2>3 DEF MarkRead, Inv, Stream
      <3> QED BY <1>1, <2>1, <2>3, <3>1 DEF BQ!Receive
    <2> QED BY <2>2, <2>3
  <1> QED BY <1>2, <1>3

LEMMA RecvReceives ==
  ASSUME Inv, NEW q \in Readers, Recv(q)
  PROVE BQ!Receive(q) \/ BQ!ReceiveBroken(q)
  <1>1. PICK m \in sock[q] : /\ last' = [last EXCEPT ![q] = m]
                             /\ \A k \in sock[q] : m <= k
    BY DEF Recv, Oldest
  <1>2. /\ taken[q] \in Nat /\ sent \in Nat /\ taken[q] <= sent /\ last[q] \in Nat
        /\ big \in SUBSET Nat /\ m \in 1 .. sent
        /\ UNCHANGED <<sent, broken>>
    BY <1>1 DEF Recv, Inv, TypeOK, Stream, Fresh, READY, Place
  <1>3. CASE q \in broken
    BY <1>1, <1>2, <1>3 DEF BQ!ReceiveBroken
  <1>4. CASE q \notin broken
    <2>1. /\ last[q] = taken[q] - 1 /\ taken[q] \in big
          /\ \A k \in sock[q] : k >= taken[q] /\ k <= sent
      BY <1>2, <1>4 DEF Recv, Inv, Stream, READY, Fresh
    <2>2. taken[q] \in sock[q] \/ taken[q] = sent
      BY <1>2, <1>4, <2>1 DEF Inv, Stream
    <2>3. m = last[q] + 1 /\ last[q] < sent
      BY <1>1, <1>2, <2>1, <2>2
    <2> QED BY <1>1, <1>2, <1>4, <2>3 DEF BQ!Receive
  <1> QED BY <1>3, <1>4

LEMMA StepImplements == Inv /\ [Next]_vars => [BQ!Next]_(BQ!vars)
  <1> SUFFICES ASSUME Inv, [Next]_vars PROVE BQ!Next \/ UNCHANGED BQ!vars
    OBVIOUS
  <1>1. CASE MarkWritten
    BY <1>1, MarkWrittenSends DEF BQ!Next
  <1>2. ASSUME NEW q \in Readers, MarkRead(q) \/ Recv(q)
        PROVE BQ!Next \/ UNCHANGED BQ!vars
    BY <1>2, MarkReadReceives, RecvReceives DEF BQ!Next
  <1>3. ASSUME NEW q \in Readers, RecvTimeout(q) PROVE BQ!Next
    BY <1>3 DEF RecvTimeout, BQ!Next, BQ!Break
  <1>4. CASE WriterStep /\ ~MarkWritten
    BY <1>4 DEF WriterStep, WriterReady, AcquireWrite, FillBegin, FillEnd, ResetReadFlag,
                SendPayload, Notify, BQ!vars
  <1>5. CASE Enqueue \/ AcquireWriteTimeout \/ WriterDies \/ UNCHANGED vars
    BY <1>5 DEF Enqueue, AcquireWriteTimeout, WriterDies, vars, BQ!vars
  <1>6. ASSUME NEW q \in Readers, ReaderStep(q), ~MarkRead(q), ~Recv(q)
        PROVE UNCHANGED BQ!vars
    BY <1>6 DEF ReaderStep, SubscribeReader, ReaderReady, LoadReadFlag, LoadWrittenFlag,
                WaitRecheck, ReadBegin, ReadEnd, BQ!vars
  <1>7. ASSUME NEW q \in Readers, SpinWait(q) \/ Shutdown(q)
        PROVE UNCHANGED BQ!vars
    BY <1>7 DEF SpinWait, Shutdown, BQ!vars
  <1> QED BY <1>1, <1>2, <1>3, <1>4, <1>5, <1>6, <1>7 DEF Next

(* The type invariant holds in every behaviour of the queue, for every      *)
(* number of readers, chunks and messages.                                  *)
THEOREM TypeCorrect == Spec => []TypeOK
  <1>1. Inv => TypeOK
    BY DEF Inv
  <1> QED BY <1>1, InvAlways, PTL

(* MessageQueue implements the broadcast queue it promises: enqueue, the    *)
(* ring with its flags, and dequeue deliver every message once and in order *)
(* to every reader whose own call did not time out halfway.                 *)
THEOREM Implements == Spec => Broadcast
  <1>1. Init => BQ!Init
    BY DEF Init, BQ!Init
  <1> QED BY <1>1, InvAlways, StepImplements, PTL DEF Spec, Broadcast, BQ!Spec
================================================================================
