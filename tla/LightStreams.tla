----------------------------- MODULE LightStreams -----------------------------
(***************************************************************************)
(* A whole light stream: light_stream_writer and light_stream_reader       *)
(* (include/shm_stream/light_stream.h) over the C interface                *)
(* (light_stream_writer.cpp, light_stream_reader.cpp), each in a process   *)
(* of its own.  It composes StreamRegistry, which finds the shared memory  *)
(* of the stream's name, with the queue that lies in that memory: opening, *)
(* closing, removing and dying interleave with writing and reading.        *)
(*                                                                         *)
(* Every segment of shared memory has a header with the two indices and a  *)
(* buffer; they stay as they are when objects come and go.  A call on an   *)
(* object of the queue is one step here, which loads the newest index: the *)
(* steps inside and stale loads are the subject of LightBytesQueue.  A     *)
(* client fills what it commits, and copies what it commits as read, in    *)
(* that step.  On a closed object (a null pointer) every call returns 0 or *)
(* an empty buffer and changes nothing, as available_size always does.     *)
(*                                                                         *)
(* A definition marked "Fault" is the one after it with a plausible bug;   *)
(* nothing uses it.                                                        *)
(***************************************************************************)
EXTENDS StreamRegistry, QueueIndices

CONSTANTS
  Writer,   (* the process with the light_stream_writer                    *)
  Reader,   (* the process with the light_stream_reader                    *)
  ReaderSizes, (* the sizes the reader's process asks for; the others may  *)
            (* ask for any of AskedSizes but these                         *)
  MaxBytes  (* bound on the bytes written, which are 1, 2, 3 ...           *)

Clients == {Writer, Reader}

ASSUME ClientsAssumption ==
  Writer \in Processes /\ Reader \in Processes /\ Writer # Reader
ASSUME MaxBytesAssumption == MaxBytes \in Nat

(* A name stands for a new segment only after a remove.                    *)
Segments == 1 .. MaxRemoves + 1

VARIABLES
  queue,    (* of each segment: its two atomic indices and its buffer      *)
  object,   (* next_write_index_ or next_read_index_, and reserved_, of    *)
            (* each client's queue object                                  *)
  sent,     (* history: of each segment the bytes committed by writers     *)
  received, (* history: of each segment the bytes taken by readers         *)
  written   (* history: how many bytes were committed to all of them       *)

queueVars == <<queue, object, sent, received, written>>
streamsVars == <<vars, queueVars>>

NoObject == [index |-> 0, reserved |-> 0]

StreamsInit ==
  /\ Init
  /\ queue = [i \in Segments |-> [write |-> 0, read |-> 0,
                                  buffer |-> [c \in 0 .. MaxSize |-> 0]]]
  /\ object = [p \in Clients |-> NoObject]
  /\ sent = [i \in Segments |-> << >>]
  /\ received = [i \in Segments |-> << >>]
  /\ written = 0
-----------------------------------------------------------------------------
(* Opening and closing.                                                    *)

(* A call of open, create or remove begins; only the two clients open.     *)
Begin(p) ==
  /\ \E c \in Calls(p) :
       /\ c.kind = "open" => p \in Clients
       /\ c.kind # "remove" => (c.asked \in ReaderSizes <=> p = Reader)
       /\ OpenMutex(p, c)
  /\ UNCHANGED queueVars

(* The steps of a call that do not touch the indices.                      *)
Prepare(p) ==
  /\ \/ Lock(p)
     \/ OpenShm(p)
     \/ Extract(p)
     \/ CreateShm(p)
     \/ Truncate(p)
     \/ Unlock(p)
     \/ RemoveShm(p)
     \/ RemoveMutex(p)
  /\ UNCHANGED queueVars

(* The new header is made in the segment: both indices become 0.           *)
InitializeIndices(p) ==
  /\ Initialize(p)
  /\ queue' = [queue EXCEPT ![data[p].segment] =
                              [@ EXCEPT !.write = 0, !.read = 0]]
  /\ UNCHANGED <<object, sent, received, written>>

(* Fault: a new object starts at the beginning of the buffer.              *)
StoredIndexIgnored(p) == 0

(* Where an object of client p starts in the segment that p has mapped.    *)
StoredIndex(p) ==
  IF p = Writer THEN queue[data[p].segment].write
                ELSE queue[data[p].segment].read

(* The queue object is made on the mapped memory.  If its constructor      *)
(* throws, the object that was open before stays.                          *)
ConstructObject(p) ==
  /\ Construct(p)
  /\ object' = [object EXCEPT ![p] =
                  IF outcome'[p] = "success"
                    THEN [index |-> StoredIndex(p), reserved |-> 0] ELSE @]
  /\ UNCHANGED <<queue, sent, received, written>>

(* close, or the death of the process, between calls or inside open.       *)
LoseObject(p) ==
  /\ Close(p) \/ Crash(p)
  /\ object' = IF p \in Clients THEN [object EXCEPT ![p] = NoObject] ELSE object
  /\ UNCHANGED <<queue, sent, received, written>>
-----------------------------------------------------------------------------
(* Writing and reading, by a client that is in no call of open, create or  *)
(* remove.                                                                 *)

CanUse(p) == pc[p] = "idle" /\ stream[p] # NoView

SegmentOf(p) == stream[p].segment
SizeOf(p) == stream[p].size

Reservable(p) ==
  LET q == queue[SegmentOf(p)]
  IN  IF p = Writer
        THEN WriterReservable(q.read, object[p].index, SizeOf(p))
        ELSE ReaderReservable(object[p].index, q.write, SizeOf(p))

WriterTryReserve(n) ==
  /\ CanUse(Writer)
  /\ object' = [object EXCEPT ![Writer].reserved =
                                 Lesser(n, Reservable(Writer))]
  /\ UNCHANGED <<vars, queue, sent, received, written>>

(* The n bytes that the client writes next, and the buffer after it.       *)
NewBytes(n) == [i \in 1 .. n |-> written + i]
Filled(buffer, first, n) ==
  [c \in DOMAIN buffer |-> IF c \in first .. first + n - 1
                             THEN NewBytes(n)[c - first + 1] ELSE buffer[c]]

(* commit(0) returns at once and changes nothing.                          *)

WriterCommit(n) ==
  /\ CanUse(Writer)
  /\ n \in 1 .. object[Writer].reserved
  /\ written' = written + n
  /\ written' <= MaxBytes
  /\ LET i == SegmentOf(Writer)
         first == object[Writer].index
         next == Advance(first, n, SizeOf(Writer))
         filled == Filled(queue[i].buffer, first, n)
     IN  /\ queue' = [queue EXCEPT ![i] = [@ EXCEPT !.write = next,
                                                    !.buffer = filled]]
         /\ object' = [object EXCEPT ![Writer] =
                         [index |-> next, reserved |-> 0]]
         /\ sent' = [sent EXCEPT ![i] = @ \o NewBytes(n)]
  /\ UNCHANGED <<vars, received>>

ReaderTryReserve(n) ==
  /\ CanUse(Reader)
  /\ object' = [object EXCEPT ![Reader].reserved =
                                 Lesser(n, Reservable(Reader))]
  /\ UNCHANGED <<vars, queue, sent, received, written>>

ReaderCommit(n) ==
  /\ CanUse(Reader)
  /\ n \in 1 .. object[Reader].reserved
  /\ LET i == SegmentOf(Reader)
         first == object[Reader].index
         next == Advance(first, n, SizeOf(Reader))
     IN  /\ queue' = [queue EXCEPT ![i] = [@ EXCEPT !.read = next]]
         /\ object' = [object EXCEPT ![Reader] =
                         [index |-> next, reserved |-> 0]]
         /\ received' = [received EXCEPT ![i] = @ \o
                           [k \in 1 .. n |-> queue[i].buffer[first + k - 1]]]
  /\ UNCHANGED <<vars, sent, written>>
-----------------------------------------------------------------------------
(* The sizes that calls of try_reserve ask for; try_reserve_all asks for   *)
(* the largest number there is, of which MaxSize stands here.              *)
ExpectedSizes == 0 .. MaxSize

WriterNext ==
  \/ \E n \in ExpectedSizes : WriterTryReserve(n)
  \/ \E n \in 1 .. MaxSize : WriterCommit(n)

ReaderNext ==
  \/ \E n \in ExpectedSizes : ReaderTryReserve(n)
  \/ \E n \in 1 .. MaxSize : ReaderCommit(n)

RegistryNext(p) ==
  \/ Begin(p)
  \/ Prepare(p)
  \/ InitializeIndices(p)
  \/ ConstructObject(p)
  \/ LoseObject(p)

StreamsNext ==
  \/ \E p \in Processes : RegistryNext(p)
  \/ WriterNext
  \/ ReaderNext

StreamsSpec == StreamsInit /\ [][StreamsNext]_streamsVars
-----------------------------------------------------------------------------
(* Safety.                                                                 *)

(* The shape of the state this module adds.                                *)
StreamsTypeOK ==
  /\ TypeOK
  /\ queue \in [Segments -> [write : 0 .. MaxSize - 1, read : 0 .. MaxSize - 1,
                              buffer : [0 .. MaxSize -> 0 .. MaxBytes]]]
  /\ object \in [Clients -> [index : 0 .. MaxSize - 1,
                              reserved : 0 .. MaxSize - 1]]
  /\ \A h \in {sent, received} :
       h \in [Segments -> Seq(1 .. MaxBytes)]
  /\ written \in 0 .. MaxBytes

(* The segments with a buffer that a queue can work with.                  *)
Buffers ==
  {i \in DOMAIN segment : segment[i].buffer_size \in MinSize .. MaxSize}

Unread(i) == Len(sent[i]) - Len(received[i])

(* The cell of the k-th unread byte.                                       *)
UnreadCell(i, k) == (queue[i].read + k - 1) % segment[i].buffer_size

(* At every moment, with objects open or not, in the middle of calls and   *)
(* after deaths, the memory of a segment holds exactly the bytes that were *)
(* committed to it and not read yet, in order, between its two indices.    *)
UnreadBytesAreThere ==
  \A i \in Buffers :
    /\ Unread(i) = ReaderAvailable(queue[i].read, queue[i].write,
                                   segment[i].buffer_size)
    /\ \A k \in 1 .. Unread(i) :
         queue[i].buffer[UnreadCell(i, k)] = sent[i][Len(received[i]) + k]

(* The cells that client p may access.                                     *)
Held(p) == object[p].index .. object[p].index + object[p].reserved - 1

(* Whatever sizes were asked for when the stream was made and opened, by   *)
(* whom and in which order: the spans of the clients lie in the memory of  *)
(* their segment, the reader's has unread bytes only and the writer's none *)
(* of them.                                                                *)
SpansAreSound ==
  \A p \in Clients : stream[p] # NoView =>
    LET i == SegmentOf(p)
        unread == {UnreadCell(i, k) : k \in 1 .. Unread(i)}
    IN  /\ Held(p) \subseteq 0 .. segment[i].room - 2
        /\ IF p = Reader THEN Held(p) \subseteq unread
                         ELSE Held(p) \cap unread = {}

(* Every segment is a stream as ByteStream promises it, from its making on *)
(* and through all openings, closings and deaths: nothing is lost,         *)
(* repeated, reordered or carried over from the stream that had the name   *)
(* before.                                                                 *)
Stream(i) == INSTANCE ByteStream
               WITH Capacity <- MaxSize - 1,
                    committed <- sent[i],
                    taken <- received[i]

EachSegmentIsAStream ==
  /\ \A i \in Segments : Stream(i)!Init
  /\ [][\A i \in Segments :
          Stream(i)!Next \/ UNCHANGED <<sent[i], received[i]>>]_<<sent, received>>
-----------------------------------------------------------------------------
(* Liveness.  The reader does again and again what it can do again and     *)
(* again: strong fairness, for it may be opened anew between the two       *)
(* calls.  No fairness is assumed of the writer, of the registry's calls   *)
(* and locks, or of deaths.                                                *)

LiveSpec ==
  /\ StreamsSpec
  /\ SF_streamsVars(ReaderTryReserve(MaxSize))
  /\ SF_streamsVars(\E n \in 1 .. MaxSize : ReaderCommit(n))

(* When the two clients end up with the same segment open and the reader's *)
(* calls of open return, every byte that was ever committed to the segment *)
(* arrives, also those from before either was opened, and however often    *)
(* the reader opens the stream again.                                      *)
Meet(i) == \A p \in Clients : stream[p].segment = i

EverythingArrives ==
  \A i \in Segments :
    <>[]Meet(i) /\ []<>CanUse(Reader) => <>[](Unread(i) = 0)
=============================================================================
