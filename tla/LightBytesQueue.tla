--------------------------- MODULE LightBytesQueue ---------------------------
(***************************************************************************)
(* light_bytes_queue_writer and light_bytes_queue_reader                   *)
(* (include/shm_stream/details/light_bytes_queue.h): one writer and one    *)
(* reader, in different threads or processes, share a circular buffer and  *)
(* two atomic indices, and nothing else.                                   *)
(*                                                                         *)
(* Bytes.  The k-th byte of the stream is the number k, and 0 is what the  *)
(* memory holds before anything was written, so a lost, repeated, stale or *)
(* reordered byte is visible in what the reader gets.                      *)
(*                                                                         *)
(* Memory model.  Each atomic index is stored by one side only.  The other *)
(* side need not see the newest store: the variable of an index is the SET *)
(* of the stores that the other side can still load.  Loading one of them  *)
(* rules out all the older ones (coherence).  A store carries, beside the  *)
(* index, the number of bytes its side had finished with when it stored    *)
(* (release); a side that loads it with acquire may rely on that number,   *)
(* a side that loads it relaxed may not.  An access to a byte of the       *)
(* buffer that does not rest on an acquired store is a data race, which    *)
(* NoDataRace forbids.                                                     *)
(*                                                                         *)
(* A client writes the bytes of its reservation from the front, one at a   *)
(* time (WriterFill, ReaderFetch), and never commits more than it wrote or *)
(* read, which is what the assertions in the two commit functions demand.  *)
(*                                                                         *)
(* A definition marked "Fault" is the one after it with a plausible bug;   *)
(* nothing uses it.                                                        *)
(***************************************************************************)
EXTENDS Integers, Sequences, FiniteSets, QueueIndices

CONSTANTS
  Size,     (* size_: number of bytes of the buffer                        *)
  MaxBytes  (* bound on the bytes that are ever written into the stream    *)

(* min_size() is 2; the constructors throw for less.                       *)
ASSUME SizeAssumption == Size \in Nat /\ Size >= 2
ASSUME MaxBytesAssumption == MaxBytes \in Nat

VARIABLES
  buffer,            (* the bytes, by cell                                 *)
  write_stores,      (* *atomic_next_write_index_: stores the reader can see *)
  read_stores,       (* *atomic_next_read_index_: stores the writer can see *)
  w_open,            (* a light_bytes_queue_writer exists                  *)
  next_write_index,  (* its next_write_index_                              *)
  w_reserved,        (* its reserved_                                      *)
  w_filled,          (* bytes the client has put into the reservation      *)
  w_acquired,        (* bytes the writer knows the reader is done with     *)
  w_available,       (* what available_size told the client (0: nothing)   *)
  r_open,            (* a light_bytes_queue_reader exists                  *)
  next_read_index,   (* its next_read_index_                               *)
  r_reserved,        (* its reserved_                                      *)
  r_fetched,         (* bytes the client has copied from the reservation   *)
  r_acquired,        (* bytes the reader knows the writer is done with     *)
  r_available,       (* what available_size told the client (0: nothing)   *)
  sent,              (* history: number of bytes committed by writers      *)
  received           (* history: the bytes committed by readers            *)

writerVars == <<w_open, next_write_index, w_reserved, w_filled, w_acquired,
                w_available, sent>>
readerVars == <<r_open, next_read_index, r_reserved, r_fetched, r_acquired,
                r_available, received>>
vars == <<buffer, write_stores, read_stores, writerVars, readerVars>>

Store(index, count) == [index |-> index, count |-> count]

(* The stores that remain visible to a side that has just loaded m.        *)
From(stores, m) == {s \in stores : s.count >= m.count}

Init ==
  /\ buffer = [cell \in 0 .. Size - 1 |-> 0]
  /\ write_stores = {Store(0, 0)}
  /\ read_stores = {Store(0, 0)}
  /\ w_open = FALSE
  /\ next_write_index = 0
  /\ w_reserved = 0
  /\ w_filled = 0
  /\ w_acquired = 0
  /\ w_available = 0
  /\ r_open = FALSE
  /\ next_read_index = 0
  /\ r_reserved = 0
  /\ r_fetched = << >>
  /\ r_acquired = 0
  /\ r_available = 0
  /\ sent = 0
  /\ received = << >>
-----------------------------------------------------------------------------
(* The writer.                                                             *)

(* Constructor.  A side loads the last store of its own index, also when   *)
(* it was made by an earlier object on the same memory.                    *)
WriterOpen ==
  /\ ~ w_open
  /\ w_open' = TRUE
  /\ \E m \in write_stores :
       /\ \A s \in write_stores : s.count <= m.count
       /\ next_write_index' = m.index
  /\ w_reserved' = 0
  /\ w_filled' = 0
  /\ UNCHANGED <<buffer, write_stores, read_stores, w_acquired, w_available,
                 sent, readerVars>>

(* The object is destroyed, or its process dies, at any point between two  *)
(* accesses to the shared memory; a reservation is forgotten.              *)
WriterClose ==
  /\ w_open
  /\ w_open' = FALSE
  /\ w_reserved' = 0
  /\ w_filled' = 0
  /\ w_available' = 0
  /\ UNCHANGED <<buffer, write_stores, read_stores, next_write_index,
                 w_acquired, sent, readerVars>>

WriterAvailableSize ==
  /\ w_open
  /\ \E m \in read_stores :
       /\ read_stores' = From(read_stores, m)
       /\ w_available' = WriterAvailable(m.index, next_write_index, Size)
  /\ UNCHANGED <<buffer, write_stores, w_open, next_write_index, w_reserved,
                 w_filled, w_acquired, sent, readerVars>>

(* Fault: the index is loaded relaxed.                                     *)
WriterTryReserveRelaxed(expected_size) ==
  /\ w_open
  /\ \E m \in read_stores :
       /\ read_stores' = From(read_stores, m)
       /\ w_reserved' = Lesser(expected_size,
                          WriterReservable(m.index, next_write_index, Size))
  /\ w_filled' = 0
  /\ UNCHANGED <<buffer, write_stores, w_open, next_write_index, w_acquired,
                 w_available, sent, readerVars>>

WriterTryReserve(expected_size) ==
  /\ w_open
  /\ \E m \in read_stores :
       /\ read_stores' = From(read_stores, m)
       /\ w_acquired' = m.count
       /\ w_reserved' = Lesser(expected_size,
                          WriterReservable(m.index, next_write_index, Size))
  /\ w_filled' = 0
  /\ UNCHANGED <<buffer, write_stores, w_open, next_write_index, w_available,
                 sent, readerVars>>

WriterFill ==
  /\ w_filled < w_reserved
  /\ sent + w_filled < MaxBytes
  /\ buffer' = [buffer EXCEPT ![next_write_index + w_filled] =
                                 sent + w_filled + 1]
  /\ w_filled' = w_filled + 1
  /\ UNCHANGED <<write_stores, read_stores, w_open, next_write_index,
                 w_reserved, w_acquired, w_available, sent, readerVars>>

(* Fault: the index advances by the reservation, not by written_size.      *)
WriterCommitReserved(written_size) ==
  /\ written_size \in 1 .. w_filled
  /\ next_write_index' = Advance(next_write_index, w_reserved, Size)
  /\ sent' = sent + written_size
  /\ write_stores' = write_stores \cup {Store(next_write_index', sent')}
  /\ w_reserved' = 0
  /\ w_filled' = 0
  /\ w_available' = 0
  /\ UNCHANGED <<buffer, read_stores, w_open, w_acquired, readerVars>>

(* commit(0) returns at once and changes nothing.                          *)
WriterCommit(written_size) ==
  /\ written_size \in 1 .. w_filled
  /\ next_write_index' = Advance(next_write_index, written_size, Size)
  /\ sent' = sent + written_size
  /\ write_stores' = write_stores \cup {Store(next_write_index', sent')}
  /\ w_reserved' = 0
  /\ w_filled' = 0
  /\ w_available' = 0
  /\ UNCHANGED <<buffer, read_stores, w_open, w_acquired, readerVars>>
-----------------------------------------------------------------------------
(* The reader.                                                             *)

(* Fault: the constructor starts at 0 instead of the stored index.         *)
ReaderOpenAtZero ==
  /\ ~ r_open
  /\ r_open' = TRUE
  /\ next_read_index' = 0
  /\ r_reserved' = 0
  /\ r_fetched' = << >>
  /\ UNCHANGED <<buffer, write_stores, read_stores, r_acquired, r_available,
                 received, writerVars>>

ReaderOpen ==
  /\ ~ r_open
  /\ r_open' = TRUE
  /\ \E m \in read_stores :
       /\ \A s \in read_stores : s.count <= m.count
       /\ next_read_index' = m.index
  /\ r_reserved' = 0
  /\ r_fetched' = << >>
  /\ UNCHANGED <<buffer, write_stores, read_stores, r_acquired, r_available,
                 received, writerVars>>

ReaderClose ==
  /\ r_open
  /\ r_open' = FALSE
  /\ r_reserved' = 0
  /\ r_fetched' = << >>
  /\ r_available' = 0
  /\ UNCHANGED <<buffer, write_stores, read_stores, next_read_index,
                 r_acquired, received, writerVars>>

ReaderAvailableSize ==
  /\ r_open
  /\ \E m \in write_stores :
       /\ write_stores' = From(write_stores, m)
       /\ r_available' = ReaderAvailable(next_read_index, m.index, Size)
  /\ UNCHANGED <<buffer, read_stores, r_open, next_read_index, r_reserved,
                 r_fetched, r_acquired, received, writerVars>>

ReaderTryReserve(expected_size) ==
  /\ r_open
  /\ \E m \in write_stores :
       /\ write_stores' = From(write_stores, m)
       /\ r_acquired' = m.count
       /\ r_reserved' = Lesser(expected_size,
                          ReaderReservable(next_read_index, m.index, Size))
  /\ r_fetched' = << >>
  /\ UNCHANGED <<buffer, read_stores, r_open, next_read_index, r_available,
                 received, writerVars>>

ReaderFetch ==
  /\ Len(r_fetched) < r_reserved
  /\ r_fetched' = Append(r_fetched,
                         buffer[next_read_index + Len(r_fetched)])
  /\ UNCHANGED <<buffer, write_stores, read_stores, r_open, next_read_index,
                 r_reserved, r_acquired, r_available, received, writerVars>>

(* Fault: the index is stored before it is advanced.                       *)
ReaderCommitOldIndex(read_size) ==
  /\ read_size \in 1 .. Len(r_fetched)
  /\ next_read_index' = Advance(next_read_index, read_size, Size)
  /\ received' = received \o SubSeq(r_fetched, 1, read_size)
  /\ read_stores' = read_stores \cup
                      {Store(next_read_index, Len(received'))}
  /\ r_reserved' = 0
  /\ r_fetched' = << >>
  /\ r_available' = 0
  /\ UNCHANGED <<buffer, write_stores, r_open, r_acquired, writerVars>>

(* commit(0) returns at once and changes nothing.                          *)
ReaderCommit(read_size) ==
  /\ read_size \in 1 .. Len(r_fetched)
  /\ next_read_index' = Advance(next_read_index, read_size, Size)
  /\ received' = received \o SubSeq(r_fetched, 1, read_size)
  /\ read_stores' = read_stores \cup
                      {Store(next_read_index', Len(received'))}
  /\ r_reserved' = 0
  /\ r_fetched' = << >>
  /\ r_available' = 0
  /\ UNCHANGED <<buffer, write_stores, r_open, r_acquired, writerVars>>
-----------------------------------------------------------------------------
(* The sizes a client asks for: more than Size asks for no more than Size. *)
ExpectedSizes == 0 .. Size

Next ==
  \/ WriterOpen
  \/ WriterClose
  \/ WriterAvailableSize
  \/ \E n \in ExpectedSizes : WriterTryReserve(n)
  \/ WriterFill
  \/ \E n \in 1 .. Size : WriterCommit(n)
  \/ ReaderOpen
  \/ ReaderClose
  \/ ReaderAvailableSize
  \/ \E n \in ExpectedSizes : ReaderTryReserve(n)
  \/ ReaderFetch
  \/ \E n \in 1 .. Size : ReaderCommit(n)

Spec == Init /\ [][Next]_vars
-----------------------------------------------------------------------------
(* Invariants.                                                             *)

Cells == 0 .. Size - 1

Stores == [index : Cells, count : Nat]

(* The shape of the state.                                                 *)
TypeOK ==
  /\ buffer \in [Cells -> Nat]
  /\ write_stores \subseteq Stores /\ read_stores \subseteq Stores
  /\ w_open \in BOOLEAN /\ r_open \in BOOLEAN
  /\ next_write_index \in Cells /\ next_read_index \in Cells
  /\ w_reserved \in 0 .. Size - 1 /\ r_reserved \in 0 .. Size - 1
  /\ w_filled \in 0 .. w_reserved
  /\ w_acquired \in Nat /\ r_acquired \in Nat
  /\ w_available \in 0 .. Size - 1 /\ r_available \in 0 .. Size - 1
  /\ r_fetched \in Seq(Nat)
  /\ sent \in Nat
  /\ received \in Seq(Nat)

taken == Len(received)

(* What the reader's client copies out continues, byte for byte, what was  *)
(* committed as read before: nothing lost, repeated, reordered or stale,   *)
(* across wraps of the buffer, partial commits, repeated reservations and  *)
(* restarts of either side.                                                *)
BytesInOrder ==
  /\ \A i \in 1 .. taken : received[i] = i
  /\ \A i \in 1 .. Len(r_fetched) : r_fetched[i] = taken + i

(* Every byte inside a reservation is one the other side had finished with *)
(* before a store that this side loaded with acquire: the release in the   *)
(* commit functions and the acquire in try_reserve order all the accesses  *)
(* to a cell.  The byte that the writer puts in a cell replaces the one    *)
(* Size places earlier in the stream.                                      *)
NoDataRace ==
  /\ w_reserved > 0 => sent + w_reserved - Size <= w_acquired
  /\ r_reserved > 0 => taken + r_reserved <= r_acquired

(* The cell x places after cell 0, for x below 2 * Size.                   *)
Wrap(x) == IF x < Size THEN x ELSE x - Size

(* Cells of the n bytes from "index" on.                                   *)
Window(index, n) == index .. index + n - 1

(* The two spans handed out lie inside the buffer and have no cell in      *)
(* common, and the writer's has none that holds an unread byte.            *)
ReservationsApart ==
  /\ Window(next_write_index, w_reserved) \subseteq Cells
  /\ Window(next_read_index, r_reserved) \subseteq Cells
  /\ \A cell \in Window(next_write_index, w_reserved) :
       /\ cell \notin Window(next_read_index, r_reserved)
       /\ \A p \in taken + 1 .. sent :
            cell # Wrap(next_read_index + (p - taken - 1))

(* available_size never promises more than there is, however old the index *)
(* it loaded: the other side can only add to it.                           *)
AvailableIsThere ==
  /\ sent + w_available <= taken + Size - 1
  /\ taken + r_available <= sent

(* A client that was told that there is something available gets it from   *)
(* the next try_reserve, although that loads the index again.              *)
PromiseKept ==
  \A n \in 1 .. Size :
    /\ WriterTryReserve(n) /\ w_available > 0 => w_reserved' > 0
    /\ ReaderTryReserve(n) /\ r_available > 0 => r_reserved' > 0

AvailableIsReservable == [][PromiseKept]_vars
-----------------------------------------------------------------------------
(* Why the queue works: the inductive invariant.  Neither side ever knows  *)
(* the other side's true index, only an old one; the invariant says what   *)
(* each store that can still be seen means relative to the true state.     *)

(* Order of the counts: what each side knows lies behind what the other    *)
(* side did, and each side reserves no more than it knows of.              *)
CountsOrdered ==
  /\ w_acquired <= taken
  /\ sent + w_reserved <= w_acquired + Size - 1
  /\ taken + r_reserved <= r_acquired
  /\ r_acquired <= sent
  /\ Len(r_fetched) <= r_reserved
  /\ next_write_index + w_reserved <= Size
  /\ next_read_index + r_reserved <= Size

(* A store of the reader that the writer can still see.                    *)
WriterSees ==
  \A m \in read_stores :
    /\ w_acquired <= m.count
    /\ m.count <= taken
    /\ sent + w_available <= m.count + Size - 1
    /\ next_write_index = Wrap(m.index + (sent - m.count))

(* A store of the writer that the reader can still see.                    *)
ReaderSees ==
  \A m \in write_stores :
    /\ r_acquired <= m.count
    /\ m.count <= sent
    /\ taken + r_available <= m.count
    /\ m.index = Wrap(next_read_index + (m.count - taken))

(* The newest stores can always be seen.                                   *)
NewestVisible ==
  /\ Store(next_write_index, sent) \in write_stores
  /\ Store(next_read_index, taken) \in read_stores

(* Every byte between the reader's index and what the writer has filled is *)
(* in its cell.                                                            *)
UnreadInPlace ==
  \A p \in taken + 1 .. sent + w_filled :
    buffer[Wrap(next_read_index + (p - taken - 1))] = p

Inv ==
  /\ TypeOK
  /\ CountsOrdered
  /\ WriterSees
  /\ ReaderSees
  /\ NewestVisible
  /\ UnreadInPlace
  /\ BytesInOrder
-----------------------------------------------------------------------------
(* The queue is the stream of bytes that its documentation promises.       *)

Stream == INSTANCE ByteStream
            WITH Capacity <- Size - 1,
                 committed <- [i \in 1 .. sent |-> i],
                 taken <- received

(* The writer's commits append to the stream and never hold more than      *)
(* Size - 1 unread bytes; the reader's commits take out the next bytes.    *)
StreamSpec == Stream!Spec
-----------------------------------------------------------------------------
(* Liveness.  Both clients may close and open their objects, reserve again *)
(* and commit a part, at any moment and again and again; fairness is only  *)
(* that a client does what it can do again and again (strong fairness of   *)
(* each call), so that not every reservation is given up before a commit.  *)
(* A store becomes visible after a finite time, so a client that keeps     *)
(* asking does not load an old store for ever: the fairness of the         *)
(* try_reserve actions is on the call that loads the newest store.         *)

WriterReservesNewest ==
  /\ w_reserved = 0
  /\ WriterTryReserve(Size)
  /\ w_acquired' = taken

ReaderReservesNewest ==
  /\ r_reserved = 0
  /\ ReaderTryReserve(Size)
  /\ r_acquired' = sent

LiveSpec ==
  /\ Spec
  /\ SF_vars(WriterOpen)
  /\ SF_vars(ReaderOpen)
  /\ SF_vars(WriterReservesNewest)
  /\ SF_vars(ReaderReservesNewest)
  /\ SF_vars(WriterFill)
  /\ SF_vars(ReaderFetch)
  /\ SF_vars(\E n \in 1 .. Size : WriterCommit(n))
  /\ SF_vars(\E n \in 1 .. Size : ReaderCommit(n))

(* Every byte the writer has to send reaches the reader, whatever the      *)
(* sizes of the reservations and commits and however often the objects are *)
(* closed and opened: neither side is ever left with an empty reservation  *)
(* while the other waits for it.                                           *)
EveryByteArrives == <>(taken = MaxBytes)
=============================================================================
