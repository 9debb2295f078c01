---------------------------- MODULE QueueIndices ----------------------------
(***************************************************************************)
(* Index arithmetic of the circular buffers in light_bytes_queue.h and     *)
(* blocking_bytes_queue.h.                                                 *)
(*                                                                         *)
(* A queue of size "size" keeps two indices in 0 .. size - 1: the next     *)
(* byte to read and the next byte to write.  Equal indices mean an empty   *)
(* queue, so at most size - 1 bytes are ever stored.                       *)
(*                                                                         *)
(* The operators are over the naturals; QueueIndicesWidth shows that they  *)
(* agree with the unsigned arithmetic of shm_stream_size_t.                *)
(*                                                                         *)
(* A definition marked "Fault" is the one after it with a plausible bug;   *)
(* it is there to see that a property notices, and nothing uses it.        *)
(***************************************************************************)
EXTENDS Naturals

(* std::min, as try_reserve and wait_reserve use it. *)
Lesser(a, b) == IF a <= b THEN a ELSE b

(* Fault: the wrap at the end of the buffer is forgotten.                  *)
AdvanceWithoutWrap(index, n, size) == index + n

(* The index n bytes after "index", for a run of n bytes that ends at or   *)
(* before the end of the buffer (both commit functions).                   *)
Advance(index, n, size) == IF index + n = size THEN 0 ELSE index + n

(* Fault: the cell that stays empty is given away when read is 0.          *)
WriterReservableAllCells(read, write, size) ==
  IF write < read THEN read - write - 1 ELSE size - write

(* Fault: the last cell of the buffer is never used.                       *)
WriterReservableNeverLast(read, write, size) ==
  IF write < read THEN read - write - 1 ELSE size - write - 1

(* Length of the contiguous run of free bytes at the write index.          *)
WriterReservable(read, write, size) ==
  IF write < read THEN read - write - 1
  ELSE IF read = 0 THEN size - write - 1
  ELSE size - write

(* Fault: the cell that stays empty is counted.                            *)
WriterAvailableAllCells(read, write, size) ==
  (IF read <= write THEN read + size ELSE read) - write

(* Number of free bytes, contiguous or not.                                *)
WriterAvailable(read, write, size) ==
  (IF read <= write THEN read + size ELSE read) - write - 1

(* Fault: the second part of the unread bytes, not the first, is counted.  *)
ReaderReservableSecondPart(read, write, size) ==
  IF read <= write THEN write - read ELSE write

(* Length of the contiguous run of unread bytes at the read index.         *)
ReaderReservable(read, write, size) ==
  IF read <= write THEN write - read ELSE size - read

(* Number of unread bytes, contiguous or not.                              *)
ReaderAvailable(read, write, size) ==
  (IF write < read THEN write + size ELSE write) - read
=============================================================================
