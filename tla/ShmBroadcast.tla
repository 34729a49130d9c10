----------------------------- MODULE ShmBroadcast -----------------------------
(***************************************************************************)
(* MessageQueue: one writer broadcasts messages to the readers of its node  *)
(* through a ring of chunks in shared memory, without locks.  A message too *)
(* large for a chunk leaves a marker in the ring and travels by a publish   *)
(* socket.  (Readers on other nodes only have such a socket.)               *)
(*                                                                         *)
(* One action is one access to memory that another process also touches;    *)
(* the fences of the code make those accesses sequentially consistent.      *)
(* Messages are numbered in the order of the enqueue calls that return.     *)
(***************************************************************************)
EXTENDS Integers

CONSTANTS
  NReaders,                \* n_local_reader
  MaxChunks,               \* max_chunks
  Timed,                   \* the readers that pass a timeout to dequeue
  MaxMsgs                  \* bound on the messages enqueued

ASSUME ShmAssumption ==
  /\ NReaders \in Nat \ {0}
  /\ MaxChunks \in Nat \ {0}
  /\ MaxMsgs \in Nat
  /\ Timed \subseteq 1 .. NReaders

Readers == 1 .. NReaders
Chunks == 0 .. MaxChunks - 1

(* Contents of a chunk that are not a message: being overwritten, and the   *)
(* marker of a message that travels by the socket.                          *)
Torn == -1
Overflow == 0

(* The first message on a subscribe socket.                                 *)
READY == 0

VARIABLES
  data, written, read_flag,   \* the ring: chunk contents, metadata[0], metadata[1:]
  w_pc, w_idx, w_i,           \* writer: control, current_idx, rank being reset
  big,                        \* the messages that do not fit a chunk
  r_pc, r_idx, r_flag, r_val, \* reader: control, current_idx, loaded flag and data
  subscribed, sock,           \* publish sockets: subscribers, messages in flight
  notified,                   \* readers whose notify socket holds a ping
  shutting_down,              \* readers on which shutdown() was called
  sent, taken, last, broken   \* history: messages published; per reader, chunks
                              \* marked read and the last message delivered;
                              \* readers that gave up on a socket payload

ring == <<data, written, read_flag>>
writer == <<w_pc, w_idx, w_i, big>>
reader == <<r_pc, r_idx, r_flag, r_val>>
vars == <<ring, writer, reader, subscribed, sock, notified, shutting_down,
          sent, taken, last, broken>>

Writing == {"fill", "fill2", "reset", "publish"}
WriterPcs == {"connect", "idle", "acquire", "payload", "notify", "dead"} \union Writing
ReaderPcs == {"connect", "ready", "flag", "written", "wait", "read", "read2",
              "mark", "recv", "cancelled"}

(* Types: indexes stay inside the ring, and no reader takes more chunks     *)
(* than were enqueued (MessageQueue).                                       *)
TypeOK ==
  /\ data \in [Chunks -> Torn .. MaxMsgs]
  /\ written \in [Chunks -> BOOLEAN]
  /\ read_flag \in [Chunks -> [Readers -> BOOLEAN]]
  /\ w_pc \in WriterPcs
  /\ w_idx \in Chunks
  /\ w_i \in 1 .. NReaders + 1
  /\ big \in SUBSET (1 .. MaxMsgs)
  /\ r_pc \in [Readers -> ReaderPcs]
  /\ r_idx \in [Readers -> Chunks]
  /\ r_flag \in [Readers -> BOOLEAN]
  /\ r_val \in [Readers -> Torn .. MaxMsgs]
  /\ subscribed \in SUBSET Readers
  /\ sock \in [Readers -> SUBSET (0 .. MaxMsgs)]
  /\ notified \in SUBSET Readers
  /\ shutting_down \in SUBSET Readers
  /\ sent \in 0 .. MaxMsgs
  /\ taken \in [Readers -> 0 .. MaxMsgs]
  /\ last \in [Readers -> 0 .. MaxMsgs]
  /\ broken \in SUBSET Readers

(* MessageQueue.__init__ and create_from_handle.                            *)
Init ==
  /\ data = [c \in Chunks |-> Torn]
  /\ written = [c \in Chunks |-> FALSE]
  /\ read_flag = [c \in Chunks |-> [r \in Readers |-> FALSE]]
  /\ w_pc = "connect" /\ w_idx = 0 /\ w_i = 1
  /\ big = {}
  /\ r_pc = [r \in Readers |-> "connect"]
  /\ r_idx = [r \in Readers |-> 0]
  /\ r_flag = [r \in Readers |-> FALSE]
  /\ r_val = [r \in Readers |-> Torn]
  /\ subscribed = {}
  /\ sock = [r \in Readers |-> {}]
  /\ notified = {}
  /\ shutting_down = {}
  /\ sent = 0
  /\ taken = [r \in Readers |-> 0]
  /\ last = [r \in Readers |-> 0]
  /\ broken = {}

-----------------------------------------------------------------------------
(* External: a publish socket delivers in order to every subscriber and     *)
(* drops for the others.  Messages are numbered in the order of sending.    *)
publish(m) ==
  sock' = [r \in Readers |-> IF r \in subscribed THEN sock[r] \union {m} ELSE sock[r]]

(* The message that a reader's socket returns next.                         *)
Oldest(r) == {m \in sock[r] : \A k \in sock[r] : m <= k}

-----------------------------------------------------------------------------
(* wait_until_ready                                                         *)

SubscribeReader(r) ==
  /\ r_pc[r] = "connect"
  /\ subscribed' = subscribed \union {r}
  /\ r_pc' = [r_pc EXCEPT ![r] = "ready"]
  /\ UNCHANGED <<ring, writer, r_idx, r_flag, r_val, sock, notified,
                 shutting_down, sent, taken, last, broken>>

WriterReady ==
  /\ w_pc = "connect"
  /\ Readers \subseteq subscribed
  /\ publish(READY)
  /\ w_pc' = "idle"
  /\ UNCHANGED <<ring, w_idx, w_i, big, reader, subscribed, notified,
                 shutting_down, sent, taken, last, broken>>

(* The assertion recv == READY is the guard; it fails only if the reader    *)
(* missed READY.                                                            *)
ReaderReady(r) ==
  /\ r_pc[r] = "ready"
  /\ READY \in Oldest(r)
  /\ sock' = [sock EXCEPT ![r] = @ \ {READY}]
  /\ r_pc' = [r_pc EXCEPT ![r] = "flag"]
  /\ UNCHANGED <<ring, writer, r_idx, r_flag, r_val, subscribed, notified,
                 shutting_down, sent, taken, last, broken>>

-----------------------------------------------------------------------------
(* enqueue and acquire_write                                                *)

Enqueue ==
  /\ w_pc = "idle"
  /\ sent < MaxMsgs
  /\ big' \in {big, big \union {sent + 1}}
  /\ w_pc' = "acquire"
  /\ UNCHANGED <<ring, w_idx, w_i, reader, subscribed, sock, notified,
                 shutting_down, sent, taken, last, broken>>

(* check() of acquire_write.  The written flag is the writer's own.         *)
WriteCheck ==
  written[w_idx] => \A r \in Readers : read_flag[w_idx][r]

(* Mutant of AcquireWrite: one reader that has read the chunk is enough.    *)
AcquireWrite_some ==
  /\ w_pc = "acquire"
  /\ written[w_idx] => \E r \in Readers : read_flag[w_idx][r]
  /\ written' = [written EXCEPT ![w_idx] = FALSE]
  /\ w_pc' = "fill"
  /\ UNCHANGED <<data, read_flag, w_idx, w_i, big, reader, subscribed, sock,
                 notified, shutting_down, sent, taken, last, broken>>

AcquireWrite ==
  /\ w_pc = "acquire"
  /\ WriteCheck
  /\ written' = [written EXCEPT ![w_idx] = FALSE]
  /\ w_pc' = "fill"
  /\ UNCHANGED <<data, read_flag, w_idx, w_i, big, reader, subscribed, sock,
                 notified, shutting_down, sent, taken, last, broken>>

(* TimeoutError before anything was written: the message is not sent.       *)
AcquireWriteTimeout ==
  /\ w_pc = "acquire"
  /\ ~WriteCheck
  /\ big' = big \ {sent + 1}
  /\ w_pc' = "idle"
  /\ UNCHANGED <<ring, w_idx, w_i, reader, subscribed, sock, notified,
                 shutting_down, sent, taken, last, broken>>

(* The caller writes the chunk, which takes time.                           *)
FillBegin ==
  /\ w_pc = "fill"
  /\ data' = [data EXCEPT ![w_idx] = Torn]
  /\ w_pc' = "fill2"
  /\ UNCHANGED <<written, read_flag, w_idx, w_i, big, reader, subscribed, sock,
                 notified, shutting_down, sent, taken, last, broken>>

FillEnd ==
  /\ w_pc = "fill2"
  /\ data' = [data EXCEPT ![w_idx] = IF sent + 1 \in big THEN Overflow ELSE sent + 1]
  /\ w_i' = 1
  /\ w_pc' = "reset"
  /\ UNCHANGED <<written, read_flag, w_idx, big, reader, subscribed, sock,
                 notified, shutting_down, sent, taken, last, broken>>

(* for i in range(1, n_reader + 1): metadata_buffer[i] = 0                  *)
ResetReadFlag ==
  /\ w_pc = "reset"
  /\ read_flag' = [read_flag EXCEPT ![w_idx][w_i] = FALSE]
  /\ w_i' = w_i + 1
  /\ w_pc' = IF w_i = NReaders THEN "publish" ELSE "reset"
  /\ UNCHANGED <<data, written, w_idx, big, reader, subscribed, sock, notified,
                 shutting_down, sent, taken, last, broken>>

MarkWritten ==
  /\ w_pc = "publish"
  /\ written' = [written EXCEPT ![w_idx] = TRUE]
  /\ sent' = sent + 1
  /\ w_idx' = (w_idx + 1) % MaxChunks
  /\ w_pc' = IF sent + 1 \in big THEN "payload" ELSE "notify"
  /\ UNCHANGED <<data, read_flag, w_i, big, reader, subscribed, sock, notified,
                 shutting_down, taken, last, broken>>

SendPayload ==
  /\ w_pc = "payload"
  /\ publish(sent)
  /\ w_pc' = "notify"
  /\ UNCHANGED <<ring, w_idx, w_i, big, reader, subscribed, notified,
                 shutting_down, sent, taken, last, broken>>

(* notify: a ping may be lost, and pings are conflated.                     *)
Notify ==
  /\ w_pc = "notify"
  /\ \E R \in SUBSET Readers : notified' = notified \union R
  /\ w_pc' = "idle"
  /\ UNCHANGED <<ring, w_idx, w_i, big, reader, subscribed, sock,
                 shutting_down, sent, taken, last, broken>>

WriterDies ==
  /\ w_pc # "dead"
  /\ w_pc' = "dead"
  /\ UNCHANGED <<ring, w_idx, w_i, big, reader, subscribed, sock, notified,
                 shutting_down, sent, taken, last, broken>>

-----------------------------------------------------------------------------
(* dequeue and acquire_read                                                 *)

(* check() of acquire_read: first the reader's own flag, then the written   *)
(* flag.                                                                    *)
LoadReadFlag(r) ==
  /\ r_pc[r] = "flag"
  /\ r_flag' = [r_flag EXCEPT ![r] = read_flag[r_idx[r]][r]]
  /\ r_pc' = [r_pc EXCEPT ![r] = "written"]
  /\ UNCHANGED <<ring, writer, r_idx, r_val, subscribed, sock, notified,
                 shutting_down, sent, taken, last, broken>>

LoadWrittenFlag(r) ==
  /\ r_pc[r] = "written"
  /\ r_pc' = [r_pc EXCEPT ![r] = IF written[r_idx[r]] /\ ~r_flag[r]
                                 THEN "read" ELSE "wait"]
  /\ r_flag' = [r_flag EXCEPT ![r] = FALSE]
  /\ UNCHANGED <<ring, writer, r_idx, r_val, subscribed, sock, notified,
                 shutting_down, sent, taken, last, broken>>

(* Mutant of AfterWait: the loop does not look at shutting_down.            *)
AfterWait_deaf(r) == r_pc' = [r_pc EXCEPT ![r] = "flag"]

AfterWait(r) ==
  r_pc' = [r_pc EXCEPT ![r] = IF r \in shutting_down THEN "cancelled" ELSE "flag"]

(* SpinCondition.wait: a read was recent, or the poll found a ping.         *)
SpinWait(r) ==
  /\ r_pc[r] = "wait"
  /\ notified' \in {notified, notified \ {r}}
  /\ AfterWait(r)
  /\ UNCHANGED <<ring, writer, r_idx, r_flag, r_val, subscribed, sock,
                 shutting_down, sent, taken, last, broken>>

(* Mutant of WaitRecheck: the poll has no timeout, only a ping ends it.     *)
WaitRecheck_never(r) ==
  /\ r_pc[r] = "wait"
  /\ r \in shutting_down \union notified
  /\ AfterWait(r)
  /\ notified' = notified \ {r}
  /\ UNCHANGED <<ring, writer, r_idx, r_flag, r_val, subscribed, sock,
                 shutting_down, sent, taken, last, broken>>

(* SpinCondition.wait: the poll ended after the recheck interval at most,   *)
(* or at the deadline, which dequeue reports before anything was read.      *)
WaitRecheck(r) ==
  /\ r_pc[r] = "wait"
  /\ AfterWait(r)
  /\ UNCHANGED <<ring, writer, r_idx, r_flag, r_val, subscribed, sock, notified,
                 shutting_down, sent, taken, last, broken>>

(* The caller reads the chunk, which takes time.                            *)
ReadBegin(r) ==
  /\ r_pc[r] = "read"
  /\ r_val' = [r_val EXCEPT ![r] = data[r_idx[r]]]
  /\ r_pc' = [r_pc EXCEPT ![r] = "read2"]
  /\ UNCHANGED <<ring, writer, r_idx, r_flag, subscribed, sock, notified,
                 shutting_down, sent, taken, last, broken>>

ReadEnd(r) ==
  /\ r_pc[r] = "read2"
  /\ r_val' = [r_val EXCEPT ![r] = IF data[r_idx[r]] = @ THEN @ ELSE Torn]
  /\ r_pc' = [r_pc EXCEPT ![r] = "mark"]
  /\ UNCHANGED <<ring, writer, r_idx, r_flag, subscribed, sock, notified,
                 shutting_down, sent, taken, last, broken>>

MarkRead(r) ==
  /\ r_pc[r] = "mark"
  /\ read_flag' = [read_flag EXCEPT ![r_idx[r]][r] = TRUE]
  /\ taken' = [taken EXCEPT ![r] = @ + 1]
  /\ r_idx' = [r_idx EXCEPT ![r] = (@ + 1) % MaxChunks]
  /\ IF r_val[r] = Overflow
     THEN /\ r_pc' = [r_pc EXCEPT ![r] = "recv"]
          /\ UNCHANGED last
     ELSE /\ r_pc' = [r_pc EXCEPT ![r] = "flag"]
          /\ last' = [last EXCEPT ![r] = r_val[r]]
  /\ r_val' = [r_val EXCEPT ![r] = Torn]
  /\ UNCHANGED <<data, written, writer, r_flag, subscribed, sock, notified,
                 shutting_down, sent, broken>>

(* MessageQueue.recv                                                        *)
Recv(r) ==
  /\ r_pc[r] = "recv"
  /\ \E m \in Oldest(r) :
       /\ last' = [last EXCEPT ![r] = m]
       /\ sock' = [sock EXCEPT ![r] = @ \ {m}]
  /\ r_pc' = [r_pc EXCEPT ![r] = "flag"]
  /\ UNCHANGED <<ring, writer, r_idx, r_flag, r_val, subscribed, notified,
                 shutting_down, sent, taken, broken>>

(* recv raises TimeoutError; the marker is already consumed.                *)
RecvTimeout(r) ==
  /\ r_pc[r] = "recv"
  /\ r \in Timed
  /\ sock[r] = {}
  /\ broken' = broken \union {r}
  /\ r_pc' = [r_pc EXCEPT ![r] = "flag"]
  /\ UNCHANGED <<ring, writer, r_idx, r_flag, r_val, subscribed, sock, notified,
                 shutting_down, sent, taken, last>>

(* shutdown, called by the thread that watches the parent or the workers.   *)
Shutdown(r) ==
  /\ r_pc[r] \notin {"connect", "ready", "cancelled"}
  /\ shutting_down' = shutting_down \union {r}
  /\ UNCHANGED <<ring, writer, reader, subscribed, sock, notified, sent, taken,
                 last, broken>>

-----------------------------------------------------------------------------
WriterStep ==
  \/ WriterReady
  \/ AcquireWrite \/ FillBegin \/ FillEnd \/ ResetReadFlag \/ MarkWritten
  \/ SendPayload \/ Notify

ReaderStep(r) ==
  \/ SubscribeReader(r) \/ ReaderReady(r)
  \/ LoadReadFlag(r) \/ LoadWrittenFlag(r)
  \/ WaitRecheck(r)
  \/ ReadBegin(r) \/ ReadEnd(r) \/ MarkRead(r) \/ Recv(r)

Next ==
  \/ WriterStep
  \/ Enqueue
  \/ AcquireWriteTimeout
  \/ WriterDies
  \/ \E r \in Readers :
       ReaderStep(r) \/ SpinWait(r) \/ RecvTimeout(r) \/ Shutdown(r)

Spec == Init /\ [][Next]_vars

(* The writer finishes the enqueue it is in; readers call dequeue in a      *)
(* loop.                                                                    *)
Fairness ==
  /\ WF_vars(WriterStep)
  /\ \A r \in Readers : WF_vars(ReaderStep(r))

FairSpec == Spec /\ Fairness

-----------------------------------------------------------------------------
(* Properties                                                               *)

BQ == INSTANCE BroadcastQueue WITH Capacity <- MaxChunks

(* The ring, its flags and the payload socket together implement a          *)
(* broadcast queue: whatever the interleaving of the flag accesses of       *)
(* acquire_write and acquire_read, no reader skips, repeats or reorders a   *)
(* message or sees one half written, unless its own call timed out between  *)
(* the marker and the payload.                                              *)
Broadcast == BQ!Spec

(* Every message in the ring reaches every reader although notifications    *)
(* may be lost (the recheck interval of acquire_read), unless the writer    *)
(* dies or the reader is told to stop or gave up on a payload.              *)
Delivered ==
  <>[](\A r \in Readers : \/ last[r] = sent
                          \/ r \in broken \union shutting_down
                          \/ w_pc = "dead")

(* shutdown() wakes a reader, which then leaves dequeue with an       *)
(* error; only a reader that waits for the payload of a writer that died    *)
(* before sending it stays (recv does not watch the cancel socket).         *)
ShutdownWakes ==
  <>[](\A r \in shutting_down :
         \/ r_pc[r] = "cancelled"
         \/ r_pc[r] = "recv" /\ w_pc = "dead" /\ sock[r] = {})
===============================================================================
