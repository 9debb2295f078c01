-------------------------- MODULE QueueIndicesWidth --------------------------
(***************************************************************************)
(* The index arithmetic of the queues as the program does it, in unsigned  *)
(* integers modulo Modulus (2^32 for shm_stream_size_t), for every size    *)
(* that the constructors accept and every pair of indices that commits can *)
(* lead to.  The operators of QueueIndices, over the naturals, are         *)
(* compared with this arithmetic and with what they should return, counted *)
(* cell by cell.                                                           *)
(***************************************************************************)
EXTENDS Integers, FiniteSetsExt, QueueIndices

CONSTANT Modulus

ASSUME ModulusAssumption == Modulus \in Nat /\ Modulus >= 5

VARIABLES size, read, write

vars == <<size, read, write>>

(* min_size().                                                             *)
MinSize == 2

(* Fault: a buffer may have any size that fits.                            *)
MaxSizeUnhalved == Modulus - 1

(* max_size(): half of the largest value.                                  *)
MaxSize == (Modulus - 1) \div 2

Unsigned(n) == n % Modulus

AdvanceUnsigned(i, n) ==
  IF Unsigned(i + n) = size THEN 0 ELSE Unsigned(i + n)

(* The other side's index, moved up by size when it is not ahead.          *)
RaisedRead == IF read <= write THEN Unsigned(read + size) ELSE read
RaisedWrite == IF write < read THEN Unsigned(write + size) ELSE write

WriterAvailableUnsigned == Unsigned(Unsigned(RaisedRead - write) - 1)

WriterReservableUnsigned ==
  IF write < read THEN Unsigned(Unsigned(read - write) - 1)
  ELSE IF read = 0 THEN Unsigned(Unsigned(size - write) - 1)
  ELSE Unsigned(size - write)

ReaderAvailableUnsigned == Unsigned(RaisedWrite - read)

ReaderReservableUnsigned ==
  IF read <= write THEN Unsigned(write - read) ELSE Unsigned(size - read)

Init == size \in MinSize .. MaxSize /\ read = 0 /\ write = 0

WriterCommit(n) ==
  /\ n \in 1 .. WriterReservableUnsigned
  /\ write' = AdvanceUnsigned(write, n)
  /\ UNCHANGED <<size, read>>

ReaderCommit(n) ==
  /\ n \in 1 .. ReaderReservableUnsigned
  /\ read' = AdvanceUnsigned(read, n)
  /\ UNCHANGED <<size, write>>

Next == \E n \in 1 .. MaxSize : WriterCommit(n) \/ ReaderCommit(n)

Spec == Init /\ [][Next]_vars
-----------------------------------------------------------------------------
(* The bounded arithmetic never wraps: it gives what the naturals give,    *)
(* the assertions inside the two available_size functions hold, and the    *)
(* next indices are indices again.                                         *)
UnsignedAgrees ==
  /\ RaisedRead > write /\ RaisedWrite >= read
  /\ WriterAvailableUnsigned = WriterAvailable(read, write, size)
  /\ WriterReservableUnsigned = WriterReservable(read, write, size)
  /\ ReaderAvailableUnsigned = ReaderAvailable(read, write, size)
  /\ ReaderReservableUnsigned = ReaderReservable(read, write, size)
  /\ \A n \in 1 .. WriterReservableUnsigned :
       AdvanceUnsigned(write, n) = Advance(write, n, size)
  /\ read < size /\ write < size

(* The cells with an unread byte: from read on, round the end, to write.   *)
Unread ==
  {c \in 0 .. size - 1 : IF read <= write THEN read <= c /\ c < write
                                          ELSE read <= c \/ c < write}

(* The longest run of cells from "from" to the end of the buffer in which  *)
(* every cell is in the set.                                               *)
LongestRun(from, cells) ==
  Max({n \in 0 .. size - from : from .. from + n - 1 \subseteq cells})

(* The two sides get exactly what there is: the reader all the unread      *)
(* cells up to the end of the buffer, the writer all the free cells up to  *)
(* the end, but for one cell that keeps a full queue from looking empty.   *)
CountsAreExact ==
  LET free == (0 .. size - 1) \ Unread
      unread_count == Cardinality(Unread)
  IN  /\ ReaderAvailable(read, write, size) = unread_count
      /\ WriterAvailable(read, write, size) = size - 1 - unread_count
      /\ ReaderReservable(read, write, size) = LongestRun(read, Unread)
      /\ WriterReservable(read, write, size) =
           Lesser(LongestRun(write, free), size - 1 - unread_count)
=============================================================================
