------------------------ MODULE LightBytesQueueProofs ------------------------
(***************************************************************************)
(* Proofs, for every Size and MaxBytes, of the safety of LightBytesQueue.  *)
(***************************************************************************)
EXTENDS LightBytesQueue, TLAPS

(* What calc_reservable_size and available_size of the writer return when  *)
(* the reader's index is d places behind the writer's.                     *)
LEMMA WriterArithmetic ==
  ASSUME NEW read \in Cells, NEW write \in Cells, NEW d \in 0 .. Size - 1,
         write = Wrap(read + d)
  PROVE  /\ WriterReservable(read, write, Size) \in 0 .. Size - 1 - d
         /\ write + WriterReservable(read, write, Size) <= Size
         /\ WriterAvailable(read, write, Size) = Size - 1 - d
         /\ d < Size - 1 => WriterReservable(read, write, Size) > 0
BY SizeAssumption DEF Cells, Wrap, WriterReservable, WriterAvailable

(* The same for the reader, the writer's index being d places ahead.       *)
LEMMA ReaderArithmetic ==
  ASSUME NEW read \in Cells, NEW write \in Cells, NEW d \in 0 .. Size - 1,
         write = Wrap(read + d)
  PROVE  /\ ReaderReservable(read, write, Size) \in 0 .. d
         /\ read + ReaderReservable(read, write, Size) <= Size
         /\ ReaderAvailable(read, write, Size) = d
         /\ d > 0 => ReaderReservable(read, write, Size) > 0
BY SizeAssumption DEF Cells, Wrap, ReaderReservable, ReaderAvailable

(* Advancing the writer's index by n puts it n more places ahead.          *)
LEMMA AdvanceAhead ==
  ASSUME NEW i \in Cells, NEW d \in 0 .. Size - 1, NEW n \in 1 .. Size - 1,
         d + n <= Size - 1, Wrap(i + d) + n <= Size
  PROVE  /\ Advance(Wrap(i + d), n, Size) = Wrap(i + (d + n))
         /\ Advance(Wrap(i + d), n, Size) \in Cells
BY SizeAssumption DEF Cells, Wrap, Advance

(* Advancing the reader's index by n leaves n fewer places to the writer's.*)
LEMMA AdvanceBehind ==
  ASSUME NEW i \in Cells, NEW d \in 0 .. Size - 1, NEW n \in 1 .. Size - 1,
         n <= d, i + n <= Size
  PROVE  /\ Wrap(Advance(i, n, Size) + (d - n)) = Wrap(i + d)
         /\ Advance(i, n, Size) \in Cells
BY SizeAssumption DEF Cells, Wrap, Advance

(* Two indices the same number of places behind a third are equal.         *)
LEMMA WrapInjective ==
  ASSUME NEW i \in Cells, NEW j \in Cells, NEW d \in 0 .. Size - 1,
         Wrap(i + d) = Wrap(j + d)
  PROVE  i = j
BY SizeAssumption DEF Cells, Wrap

(* Positions less than Size apart are in different cells.                  *)
LEMMA WrapDistinct ==
  ASSUME NEW i \in Cells, NEW d \in 0 .. Size - 1, NEW e \in 0 .. Size - 1,
         d # e
  PROVE  Wrap(i + d) # Wrap(i + e) /\ Wrap(i + d) \in Cells
BY SizeAssumption DEF Cells, Wrap

(* Within a window that does not reach past the end, cells follow on.      *)
LEMMA WrapInWindow ==
  ASSUME NEW i \in Cells, NEW d \in Nat, NEW f \in Nat,
         d + f <= Size - 1, Wrap(i + d) + f < Size
  PROVE  /\ Wrap(i + (d + f)) = Wrap(i + d) + f
         /\ Wrap(i + d) + f \in Cells
BY SizeAssumption DEF Cells, Wrap

(* The invariant holds of a segment that was just initialised.             *)
LEMMA InitInv == Init => Inv
BY SizeAssumption DEF Init, Inv, TypeOK, Cells, Stores, Store, CountsOrdered,
   WriterSees, ReaderSees, NewestVisible, UnreadInPlace, BytesInOrder, taken, Wrap

-----------------------------------------------------------------------------
(* Both sides' counters are natural numbers, the indices cells.            *)
LEMMA Numbers ==
  ASSUME Inv
  PROVE  /\ sent \in Nat /\ taken \in Nat
         /\ w_reserved \in Nat /\ w_filled \in Nat /\ w_filled <= w_reserved
         /\ w_acquired \in Nat /\ w_available \in Nat
         /\ r_reserved \in Nat /\ r_acquired \in Nat /\ r_available \in Nat
         /\ next_write_index \in Cells /\ next_write_index \in Nat
         /\ next_read_index \in Cells /\ next_read_index \in Nat
         /\ next_write_index < Size /\ next_read_index < Size
BY SizeAssumption DEF Inv, TypeOK, Cells, taken

(* Consequences of the invariant that nearly every step needs.             *)
LEMMA Basics ==
  ASSUME Inv
  PROVE  /\ sent \in Nat /\ taken \in Nat
         /\ sent - taken \in 0 .. Size - 1
         /\ next_write_index = Wrap(next_read_index + (sent - taken))
         /\ \A m \in read_stores : /\ m.index \in Cells /\ m.count \in Nat
                                   /\ sent - m.count \in 0 .. Size - 1
         /\ \A m \in write_stores : /\ m.index \in Cells /\ m.count \in Nat
                                    /\ m.count - taken \in 0 .. Size - 1
<1>1. /\ w_acquired <= taken
      /\ sent + w_reserved <= w_acquired + Size - 1
      /\ taken + r_reserved <= r_acquired
      /\ r_acquired <= sent
  BY DEF Inv, CountsOrdered
<1>2. sent - taken \in 0 .. Size - 1
  BY <1>1, Numbers, SizeAssumption
<1>3. next_write_index = Wrap(next_read_index + (sent - taken))
  BY DEF Inv, NewestVisible, ReaderSees, Store
<1>4. ASSUME NEW m \in read_stores
      PROVE  m.index \in Cells /\ m.count \in Nat /\ sent - m.count \in 0 .. Size - 1
  <2>1. m.index \in Cells /\ m.count \in Nat
    BY DEF Inv, TypeOK, Stores
  <2>2. w_acquired <= m.count /\ m.count <= taken
    BY DEF Inv, WriterSees
  <2> QED
    BY <1>1, <2>1, <2>2, Numbers, SizeAssumption
<1>5. ASSUME NEW m \in write_stores
      PROVE  m.index \in Cells /\ m.count \in Nat /\ m.count - taken \in 0 .. Size - 1
  <2>1. m.index \in Cells /\ m.count \in Nat
    BY DEF Inv, TypeOK, Stores
  <2>2. r_acquired <= m.count /\ m.count <= sent
    BY DEF Inv, ReaderSees
  <2> QED
    BY <1>1, <2>1, <2>2, Numbers, SizeAssumption
<1> QED
  BY <1>2, <1>3, <1>4, <1>5, Numbers

(* The constructor of the writer finds its own newest store.               *)
LEMMA WriterOpenInv ==
  ASSUME Inv, WriterOpen
  PROVE  Inv'
<1>1. next_write_index' = next_write_index
  <2>1. PICK m \in write_stores : /\ \A s \in write_stores : s.count <= m.count
                                  /\ next_write_index' = m.index
    BY DEF WriterOpen
  <2>2. sent <= m.count
    <3>1. Store(next_write_index, sent) \in write_stores
      BY DEF Inv, NewestVisible
    <3>2. Store(next_write_index, sent).count <= m.count
      BY <2>1, <3>1
    <3> QED
      BY <3>2 DEF Store
  <2>3. m.count = sent
    BY <2>2, Basics DEF Inv, ReaderSees
  <2> QED
    BY <2>1, <2>3, Basics DEF Inv, ReaderSees
<1>2. /\ w_open' \in BOOLEAN /\ w_reserved' = 0 /\ w_filled' = 0
      /\ UNCHANGED <<buffer, write_stores, read_stores, w_acquired,
                     w_available, sent, readerVars>>
  BY DEF WriterOpen
<1>3. TypeOK'
  BY <1>1, <1>2, SizeAssumption DEF Inv, TypeOK, readerVars
<1>4. CountsOrdered'
  <2>1. sent <= w_acquired + Size - 1 /\ next_write_index <= Size
    BY SizeAssumption DEF Inv, TypeOK, Cells, CountsOrdered
  <2> QED
    BY <1>1, <1>2, <2>1 DEF Inv, TypeOK, Cells, CountsOrdered, readerVars, taken
<1>5. WriterSees' /\ ReaderSees' /\ NewestVisible'
  BY <1>1, <1>2 DEF Inv, WriterSees, ReaderSees, NewestVisible, readerVars, taken
<1>6. UnreadInPlace' /\ BytesInOrder'
  BY <1>1, <1>2, Basics DEF Inv, TypeOK, UnreadInPlace, BytesInOrder,
     readerVars, taken
<1> QED
  BY <1>3, <1>4, <1>5, <1>6 DEF Inv

(* The writer's destructor, or its death, forgets only what is its own.    *)
LEMMA WriterCloseInv ==
  ASSUME Inv, WriterClose
  PROVE  Inv'
<1>1. /\ w_open' \in BOOLEAN
      /\ w_reserved' = 0 /\ w_filled' = 0 /\ w_available' = 0
      /\ UNCHANGED <<buffer, write_stores, read_stores, next_write_index,
                     w_acquired, sent, readerVars>>
  BY DEF WriterClose
<1>2. TypeOK'
  BY <1>1, SizeAssumption DEF Inv, TypeOK, readerVars
<1>3. CountsOrdered'
  <2>1. sent <= w_acquired + Size - 1 /\ next_write_index <= Size
    BY SizeAssumption DEF Inv, TypeOK, Cells, CountsOrdered
  <2> QED
    BY <1>1, <2>1 DEF Inv, TypeOK, Cells, CountsOrdered, readerVars, taken
<1>4. WriterSees'
  BY <1>1, Basics, SizeAssumption DEF Inv, WriterSees, readerVars, taken
<1>5. ReaderSees' /\ NewestVisible'
  BY <1>1 DEF Inv, ReaderSees, NewestVisible, readerVars, taken
<1>6. UnreadInPlace' /\ BytesInOrder'
  BY <1>1, Basics DEF Inv, TypeOK, UnreadInPlace, BytesInOrder, readerVars,
     taken
<1> QED
  BY <1>2, <1>3, <1>4, <1>5, <1>6 DEF Inv

(* The writer's available_size: a relaxed load acquires nothing.           *)
LEMMA WriterAvailableSizeInv ==
  ASSUME Inv, WriterAvailableSize
  PROVE  Inv'
<1>1. PICK m \in read_stores :
        /\ read_stores' = From(read_stores, m)
        /\ w_available' = WriterAvailable(m.index, next_write_index, Size)
  BY DEF WriterAvailableSize
<1>2. w_available' = Size - 1 - (sent - m.count)
  <2>1. next_write_index = Wrap(m.index + (sent - m.count))
    BY DEF Inv, WriterSees
  <2>2. next_write_index \in Cells
    BY DEF Inv, TypeOK
  <2> QED
    BY <1>1, <2>1, <2>2, Basics, WriterArithmetic
<1>3. UNCHANGED <<buffer, write_stores, w_open, next_write_index, w_reserved,
                  w_filled, w_acquired, sent, readerVars>>
  BY DEF WriterAvailableSize
<1>4. TypeOK'
  <2>1. w_available' \in 0 .. Size - 1 /\ read_stores' \subseteq read_stores
    BY <1>1, <1>2, Basics, SizeAssumption DEF From
  <2> QED
    BY <1>3, <2>1 DEF Inv, TypeOK, readerVars
<1>5. CountsOrdered'
  BY <1>3 DEF Inv, CountsOrdered, readerVars, taken
<1>6. WriterSees'
  <2> SUFFICES ASSUME NEW s \in read_stores'
               PROVE  /\ w_acquired' <= s.count
                      /\ s.count <= taken'
                      /\ sent' + w_available' <= s.count + Size - 1
                      /\ next_write_index' = Wrap(s.index + (sent' - s.count))
    BY <1>3 DEF WriterSees
  <2>1. s \in read_stores /\ s.count >= m.count
    BY <1>1 DEF From
  <2>2. /\ w_acquired <= s.count /\ s.count <= taken
        /\ next_write_index = Wrap(s.index + (sent - s.count))
    BY <2>1 DEF Inv, WriterSees
  <2>3. sent + w_available' <= s.count + Size - 1
    BY <1>2, <2>1, Basics, SizeAssumption
  <2> QED
    BY <1>3, <2>2, <2>3 DEF readerVars, taken
<1>7. ReaderSees'
  BY <1>3 DEF Inv, ReaderSees, readerVars, taken
<1>8. NewestVisible'
  BY <1>1, <1>3 DEF Inv, NewestVisible, WriterSees, From, Store, readerVars, taken
<1>9. UnreadInPlace' /\ BytesInOrder'
  BY <1>3 DEF Inv, UnreadInPlace, BytesInOrder, readerVars, taken
<1> QED
  BY <1>4, <1>5, <1>6, <1>7, <1>8, <1>9 DEF Inv

(* try_reserve of the writer reserves no more than what the store it loads *)
(* leaves free.                                                            *)
LEMMA WriterTryReserveInv ==
  ASSUME Inv, NEW n \in ExpectedSizes, WriterTryReserve(n)
  PROVE  Inv'
<1>1. PICK m \in read_stores :
        /\ read_stores' = From(read_stores, m)
        /\ w_acquired' = m.count
        /\ w_reserved' = Lesser(n, WriterReservable(m.index, next_write_index, Size))
  BY DEF WriterTryReserve
<1>2. /\ w_filled' = 0
      /\ UNCHANGED <<buffer, write_stores, w_open, next_write_index,
                     w_available, sent, readerVars>>
  BY DEF WriterTryReserve
<1>3. /\ w_reserved' \in 0 .. Size - 1 - (sent - m.count)
      /\ next_write_index + w_reserved' <= Size
  <2>1. next_write_index = Wrap(m.index + (sent - m.count))
    BY DEF Inv, WriterSees
  <2>2. next_write_index \in Cells
    BY DEF Inv, TypeOK
  <2> DEFINE k == WriterReservable(m.index, next_write_index, Size)
  <2>3. /\ k \in 0 .. Size - 1 - (sent - m.count)
        /\ next_write_index + k <= Size
    BY <2>1, <2>2, Basics, WriterArithmetic
  <2>4. w_reserved' \in 0 .. k
    BY <1>1, <2>3, Basics, SizeAssumption DEF ExpectedSizes, Lesser
  <2> HIDE DEF k
  <2> QED
    BY <2>2, <2>3, <2>4, Basics, SizeAssumption DEF Cells
<1>4. m.count \in Nat /\ sent - m.count \in 0 .. Size - 1 /\ m.count <= taken
  BY Basics DEF Inv, WriterSees
<1>5. TypeOK'
  <2>1. /\ w_reserved' \in 0 .. Size - 1 /\ w_filled' \in 0 .. w_reserved'
        /\ read_stores' \subseteq read_stores /\ w_acquired' \in Nat
    BY <1>1, <1>2, <1>3, <1>4, SizeAssumption DEF From
  <2> QED
    BY <1>2, <2>1 DEF Inv, TypeOK, readerVars
<1>6. CountsOrdered'
  <2>1. sent + w_reserved' <= w_acquired' + Size - 1 /\ w_acquired' <= taken
    BY <1>1, <1>3, <1>4, Basics, SizeAssumption
  <2> QED
    BY <1>2, <1>3, <2>1 DEF Inv, CountsOrdered, readerVars, taken
<1>7. WriterSees'
  BY <1>1, <1>2 DEF Inv, WriterSees, From, readerVars, taken
<1>8. ReaderSees'
  BY <1>2 DEF Inv, ReaderSees, readerVars, taken
<1>9. NewestVisible'
  BY <1>1, <1>2, <1>4 DEF Inv, NewestVisible, From, Store, readerVars, taken
<1>10. UnreadInPlace' /\ BytesInOrder'
  BY <1>2, Basics DEF Inv, TypeOK, UnreadInPlace, BytesInOrder, readerVars,
     taken
<1> QED
  BY <1>5, <1>6, <1>7, <1>8, <1>9, <1>10 DEF Inv

(* A byte the client writes lands in the cell of its place in the stream,  *)
(* which holds no byte that is still to be read.                           *)
LEMMA WriterFillInv ==
  ASSUME Inv, WriterFill
  PROVE  Inv'
<1> DEFINE d == sent - taken
           cell == next_write_index + w_filled
<1>1. /\ w_filled < w_reserved
      /\ w_filled' = w_filled + 1
      /\ buffer' = [buffer EXCEPT ![cell] = sent + w_filled + 1]
      /\ UNCHANGED <<write_stores, read_stores, w_open, next_write_index,
                     w_reserved, w_acquired, w_available, sent, readerVars>>
  BY DEF WriterFill
<1>2. /\ w_filled \in Nat /\ w_reserved \in Nat /\ w_acquired \in Nat
      /\ next_read_index \in Cells /\ buffer \in [Cells -> Nat]
  BY SizeAssumption DEF Inv, TypeOK
<1>3. d \in Nat /\ d + w_filled < Size - 1 /\ cell < Size
  <2>1. /\ w_acquired <= taken
        /\ sent + w_reserved <= w_acquired + Size - 1
        /\ next_write_index + w_reserved <= Size
    BY DEF Inv, CountsOrdered
  <2>2. next_write_index \in Nat
    BY SizeAssumption DEF Inv, TypeOK, Cells
  <2> QED
    BY <1>1, <1>2, <2>1, <2>2, Basics, SizeAssumption
<1>4. Wrap(next_read_index + (d + w_filled)) = cell /\ cell \in Cells
  BY <1>2, <1>3, Basics, WrapInWindow, SizeAssumption
<1>5. TypeOK'
  <2>1. buffer' \in [Cells -> Nat]
    BY <1>1, <1>2, <1>4, Basics
  <2>2. w_filled' \in 0 .. w_reserved'
    BY <1>1, <1>2
  <2> QED
    BY <1>1, <2>1, <2>2 DEF Inv, TypeOK, readerVars
<1>6. CountsOrdered' /\ WriterSees' /\ ReaderSees' /\ NewestVisible'
  BY <1>1 DEF Inv, CountsOrdered, WriterSees, ReaderSees, NewestVisible,
     readerVars, taken
<1>7. UnreadInPlace'
  <2> SUFFICES ASSUME NEW p \in taken + 1 .. sent + w_filled + 1
               PROVE  buffer'[Wrap(next_read_index + (p - taken - 1))] = p
    BY <1>1, Basics, <1>2 DEF UnreadInPlace, readerVars, taken
  <2>1. CASE p = sent + w_filled + 1
    BY <1>1, <1>2, <1>4, <2>1, Basics
  <2>2. CASE p # sent + w_filled + 1
    <3>1. p \in taken + 1 .. sent + w_filled
      BY <2>2, <1>2, Basics
    <3>2. buffer[Wrap(next_read_index + (p - taken - 1))] = p
      BY <3>1 DEF Inv, UnreadInPlace
    <3>3. /\ p - taken - 1 \in 0 .. Size - 1
          /\ d + w_filled \in 0 .. Size - 1
          /\ p - taken - 1 # d + w_filled
      BY <3>1, <1>2, <1>3, Basics, SizeAssumption
    <3>4. /\ Wrap(next_read_index + (p - taken - 1)) # cell
          /\ Wrap(next_read_index + (p - taken - 1)) \in Cells
      BY <3>3, <1>2, <1>4, WrapDistinct
    <3> QED
      BY <3>2, <3>4, <1>1, <1>2
  <2> QED
    BY <2>1, <2>2
<1>8. BytesInOrder'
  BY <1>1 DEF Inv, BytesInOrder, readerVars, taken
<1> QED
  BY <1>5, <1>6, <1>7, <1>8 DEF Inv

(* commit of the writer publishes bytes that are in their cells, and the   *)
(* index that tells the reader so.                                         *)
LEMMA WriterCommitInv ==
  ASSUME Inv, NEW n \in 1 .. Size, WriterCommit(n)
  PROVE  Inv'
<1>1. /\ n \in 1 .. w_filled
      /\ next_write_index' = Advance(next_write_index, n, Size)
      /\ sent' = sent + n
      /\ write_stores' = write_stores \cup {Store(next_write_index', sent')}
      /\ w_reserved' = 0 /\ w_filled' = 0 /\ w_available' = 0
      /\ UNCHANGED <<buffer, read_stores, w_open, w_acquired, readerVars>>
  BY DEF WriterCommit
<1>2. /\ w_filled \in Nat /\ w_reserved \in Nat /\ w_acquired \in Nat
      /\ w_filled <= w_reserved
      /\ next_read_index \in Cells /\ next_write_index \in Cells
  BY SizeAssumption DEF Inv, TypeOK
<1>3. /\ w_acquired <= taken
      /\ sent + n <= w_acquired + Size - 1
      /\ next_write_index + n <= Size
      /\ n \in 1 .. Size - 1
  <2>1. /\ w_acquired <= taken
        /\ sent + w_reserved <= w_acquired + Size - 1
        /\ next_write_index + w_reserved <= Size
    BY DEF Inv, CountsOrdered
  <2>2. next_write_index \in Nat
    BY <1>2, SizeAssumption DEF Cells
  <2> QED
    BY <1>1, <1>2, <2>1, <2>2, Basics, SizeAssumption
<1>4. ASSUME NEW i \in Cells, NEW e \in 0 .. Size - 1, e + n <= Size - 1,
             next_write_index = Wrap(i + e)
      PROVE  next_write_index' = Wrap(i + (e + n)) /\ next_write_index' \in Cells
  BY <1>1, <1>3, <1>4, AdvanceAhead
<1>5. /\ next_write_index' = Wrap(next_read_index + (sent' - taken))
      /\ next_write_index' \in Cells
  <2>1. sent - taken + n <= Size - 1 /\ sent' - taken = sent - taken + n
    BY <1>1, <1>2, <1>3, Basics, SizeAssumption
  <2> QED
    BY <1>2, <1>4, <2>1, Basics
<1>6. TypeOK'
  <2>1. Store(next_write_index', sent') \in Stores /\ sent' \in Nat
    BY <1>1, <1>3, <1>5, Basics DEF Store, Stores
  <2> QED
    BY <1>1, <1>5, <2>1, SizeAssumption DEF Inv, TypeOK, readerVars
<1>7. CountsOrdered'
  <2>1. r_acquired <= sent
    BY DEF Inv, CountsOrdered
  <2>2. next_write_index' + w_reserved' <= Size
    BY <1>1, <1>5, SizeAssumption DEF Cells
  <2>3. sent' + w_reserved' <= w_acquired + Size - 1 /\ r_acquired <= sent'
    BY <1>1, <1>3, <2>1, Numbers, SizeAssumption
  <2> QED
    BY <1>1, <1>3, <2>2, <2>3 DEF Inv, CountsOrdered, readerVars, taken
<1>8. WriterSees'
  <2> SUFFICES ASSUME NEW m \in read_stores
               PROVE  /\ w_acquired <= m.count /\ m.count <= taken
                      /\ sent' <= m.count + Size - 1
                      /\ next_write_index' = Wrap(m.index + (sent' - m.count))
    BY <1>1, Basics, SizeAssumption DEF WriterSees, readerVars, taken
  <2>1. /\ w_acquired <= m.count /\ m.count <= taken
        /\ next_write_index = Wrap(m.index + (sent - m.count))
    BY DEF Inv, WriterSees
  <2>2. /\ sent - m.count + n <= Size - 1
        /\ sent' - m.count = sent - m.count + n
        /\ sent' <= m.count + Size - 1
    BY <1>1, <1>2, <1>3, <2>1, Basics, SizeAssumption
  <2> QED
    BY <1>4, <2>1, <2>2, Basics
<1>9. ReaderSees'
  <2> SUFFICES ASSUME NEW m \in write_stores'
               PROVE  /\ r_acquired <= m.count /\ m.count <= sent'
                      /\ taken + r_available <= m.count
                      /\ m.index = Wrap(next_read_index + (m.count - taken))
    BY <1>1 DEF ReaderSees, readerVars, taken
  <2>1. CASE m \in write_stores
    BY <1>1, <2>1, Basics DEF Inv, ReaderSees
  <2>2. CASE m = Store(next_write_index', sent')
    <3>1. r_acquired <= sent /\ taken + r_available <= sent
      BY DEF Inv, ReaderSees, NewestVisible, Store
    <3>2. r_acquired \in Nat /\ r_available \in Nat
      BY SizeAssumption DEF Inv, TypeOK
    <3>3. m.index = next_write_index' /\ m.count = sent'
      BY <2>2 DEF Store
    <3> QED
      BY <1>1, <1>5, <3>1, <3>2, <3>3, Basics
  <2> QED
    BY <1>1, <2>1, <2>2
<1>10. NewestVisible'
  BY <1>1 DEF Inv, NewestVisible, readerVars, taken
<1>11. UnreadInPlace' /\ BytesInOrder'
  BY <1>1, <1>2, Basics DEF Inv, UnreadInPlace, BytesInOrder, readerVars, taken
<1> QED
  BY <1>6, <1>7, <1>8, <1>9, <1>10, <1>11 DEF Inv
-----------------------------------------------------------------------------
(* The reader's actions.                                                   *)

(* The reader's constructor goes on at the stored index.                   *)
LEMMA ReaderOpenInv ==
  ASSUME Inv, ReaderOpen
  PROVE  Inv'
<1>1. next_read_index' = next_read_index
  <2>1. PICK m \in read_stores : /\ \A s \in read_stores : s.count <= m.count
                                 /\ next_read_index' = m.index
    BY DEF ReaderOpen
  <2>2. taken <= m.count
    <3>1. Store(next_read_index, taken) \in read_stores
      BY DEF Inv, NewestVisible
    <3>2. Store(next_read_index, taken).count <= m.count
      BY <2>1, <3>1
    <3> QED
      BY <3>2 DEF Store
  <2>3. m.count = taken
    BY <2>2, Basics DEF Inv, WriterSees
  <2>4. Wrap(m.index + (sent - taken)) = Wrap(next_read_index + (sent - taken))
    BY <2>3, Basics DEF Inv, WriterSees
  <2> QED
    BY <2>1, <2>4, Basics, WrapInjective DEF Inv, TypeOK
<1>2. /\ r_open' \in BOOLEAN /\ r_reserved' = 0 /\ r_fetched' = << >>
      /\ UNCHANGED <<buffer, write_stores, read_stores, r_acquired,
                     r_available, received, writerVars>>
  BY DEF ReaderOpen
<1>3. TypeOK'
  BY <1>1, <1>2, SizeAssumption DEF Inv, TypeOK, writerVars
<1>4. CountsOrdered'
  <2>1. taken + r_reserved <= r_acquired
    BY DEF Inv, CountsOrdered
  <2>2. taken <= r_acquired /\ next_read_index <= Size
    BY <2>1, Basics, Numbers, SizeAssumption
  <2> QED
    BY <1>1, <1>2, <2>2, Basics, Numbers
       DEF Inv, CountsOrdered, writerVars, taken
<1>5. WriterSees' /\ ReaderSees' /\ NewestVisible'
  BY <1>1, <1>2 DEF Inv, WriterSees, ReaderSees, NewestVisible, writerVars, taken
<1>6. UnreadInPlace' /\ BytesInOrder'
  BY <1>1, <1>2, Basics DEF Inv, UnreadInPlace, BytesInOrder, writerVars, taken
<1> QED
  BY <1>3, <1>4, <1>5, <1>6 DEF Inv

(* The reader's destructor, or its death, forgets only what is its own.    *)
LEMMA ReaderCloseInv ==
  ASSUME Inv, ReaderClose
  PROVE  Inv'
<1>1. /\ r_open' \in BOOLEAN
      /\ r_reserved' = 0 /\ r_fetched' = << >> /\ r_available' = 0
      /\ UNCHANGED <<buffer, write_stores, read_stores, next_read_index,
                     r_acquired, received, writerVars>>
  BY DEF ReaderClose
<1>2. TypeOK'
  BY <1>1, SizeAssumption DEF Inv, TypeOK, writerVars
<1>3. CountsOrdered'
  <2>1. taken + r_reserved <= r_acquired
    BY DEF Inv, CountsOrdered
  <2>2. taken <= r_acquired /\ next_read_index <= Size
    BY <2>1, Basics, Numbers, SizeAssumption
  <2> QED
    BY <1>1, <2>2, Basics, Numbers
       DEF Inv, CountsOrdered, writerVars, taken
<1>4. WriterSees' /\ NewestVisible'
  BY <1>1 DEF Inv, WriterSees, NewestVisible, writerVars, taken
<1>5. ReaderSees'
  BY <1>1, Basics DEF Inv, ReaderSees, writerVars, taken
<1>6. UnreadInPlace' /\ BytesInOrder'
  BY <1>1, Basics DEF Inv, UnreadInPlace, BytesInOrder, writerVars, taken
<1> QED
  BY <1>2, <1>3, <1>4, <1>5, <1>6 DEF Inv

(* The reader's available_size: a relaxed load acquires nothing.           *)
LEMMA ReaderAvailableSizeInv ==
  ASSUME Inv, ReaderAvailableSize
  PROVE  Inv'
<1>1. PICK m \in write_stores :
        /\ write_stores' = From(write_stores, m)
        /\ r_available' = ReaderAvailable(next_read_index, m.index, Size)
  BY DEF ReaderAvailableSize
<1>2. r_available' = m.count - taken
  <2>1. m.index = Wrap(next_read_index + (m.count - taken))
    BY DEF Inv, ReaderSees
  <2> QED
    BY <1>1, <2>1, Basics, Numbers, ReaderArithmetic
<1>3. UNCHANGED <<buffer, read_stores, r_open, next_read_index, r_reserved,
                  r_fetched, r_acquired, received, writerVars>>
  BY DEF ReaderAvailableSize
<1>4. TypeOK'
  <2>1. r_available' \in 0 .. Size - 1 /\ write_stores' \subseteq write_stores
    BY <1>1, <1>2, Basics DEF From
  <2> QED
    BY <1>3, <2>1 DEF Inv, TypeOK, writerVars
<1>5. CountsOrdered' /\ WriterSees'
  BY <1>3 DEF Inv, CountsOrdered, WriterSees, writerVars, taken
<1>6. ReaderSees'
  <2> SUFFICES ASSUME NEW s \in write_stores'
               PROVE  /\ r_acquired' <= s.count
                      /\ s.count <= sent'
                      /\ taken' + r_available' <= s.count
                      /\ s.index = Wrap(next_read_index' + (s.count - taken'))
    BY <1>3 DEF ReaderSees
  <2>1. s \in write_stores /\ s.count >= m.count
    BY <1>1 DEF From
  <2>2. /\ r_acquired <= s.count /\ s.count <= sent
        /\ s.index = Wrap(next_read_index + (s.count - taken))
    BY <2>1 DEF Inv, ReaderSees
  <2>3. taken + r_available' <= s.count
    BY <1>2, <2>1, Basics
  <2> QED
    BY <1>3, <2>2, <2>3 DEF writerVars, taken
<1>7. NewestVisible'
  BY <1>1, <1>3 DEF Inv, NewestVisible, ReaderSees, From, Store, writerVars, taken
<1>8. UnreadInPlace' /\ BytesInOrder'
  BY <1>3 DEF Inv, UnreadInPlace, BytesInOrder, writerVars, taken
<1> QED
  BY <1>4, <1>5, <1>6, <1>7, <1>8 DEF Inv

(* try_reserve of the reader reserves no more than what the store it loads *)
(* has published.                                                          *)
LEMMA ReaderTryReserveInv ==
  ASSUME Inv, NEW n \in ExpectedSizes, ReaderTryReserve(n)
  PROVE  Inv'
<1>1. PICK m \in write_stores :
        /\ write_stores' = From(write_stores, m)
        /\ r_acquired' = m.count
        /\ r_reserved' = Lesser(n, ReaderReservable(next_read_index, m.index, Size))
  BY DEF ReaderTryReserve
<1>2. /\ r_fetched' = << >>
      /\ UNCHANGED <<buffer, read_stores, r_open, next_read_index, r_available,
                     received, writerVars>>
  BY DEF ReaderTryReserve
<1>3. m.count \in Nat /\ m.count - taken \in 0 .. Size - 1 /\ m.count <= sent
  BY Basics DEF Inv, ReaderSees
<1>4. /\ r_reserved' \in 0 .. m.count - taken
      /\ next_read_index + r_reserved' <= Size
  <2>1. m.index = Wrap(next_read_index + (m.count - taken))
    BY DEF Inv, ReaderSees
  <2> DEFINE k == ReaderReservable(next_read_index, m.index, Size)
  <2>2. k \in 0 .. m.count - taken /\ next_read_index + k <= Size
    BY <2>1, Basics, Numbers, ReaderArithmetic
  <2>3. r_reserved' \in 0 .. k
    BY <1>1, <2>2, Basics, SizeAssumption DEF ExpectedSizes, Lesser
  <2> HIDE DEF k
  <2> QED
    BY <1>3, <2>2, <2>3, Numbers, SizeAssumption
<1>5. TypeOK'
  <2>1. /\ r_reserved' \in 0 .. Size - 1 /\ r_fetched' \in Seq(Nat)
        /\ write_stores' \subseteq write_stores /\ r_acquired' \in Nat
    BY <1>1, <1>2, <1>3, <1>4, SizeAssumption DEF From
  <2> QED
    BY <1>2, <2>1 DEF Inv, TypeOK, writerVars
<1>6. CountsOrdered'
  <2>1. taken + r_reserved' <= r_acquired' /\ r_acquired' <= sent
    BY <1>1, <1>3, <1>4, Numbers
  <2>2. Len(r_fetched') <= r_reserved'
    BY <1>2, <1>3, <1>4, Numbers
  <2> QED
    BY <1>2, <1>4, <2>1, <2>2 DEF Inv, CountsOrdered, writerVars, taken
<1>7. WriterSees'
  BY <1>2 DEF Inv, WriterSees, writerVars, taken
<1>8. ReaderSees'
  BY <1>1, <1>2 DEF Inv, ReaderSees, From, writerVars, taken
<1>9. NewestVisible'
  BY <1>1, <1>2, <1>3 DEF Inv, NewestVisible, From, Store, writerVars, taken
<1>10. UnreadInPlace' /\ BytesInOrder'
  BY <1>2 DEF Inv, UnreadInPlace, BytesInOrder, writerVars, taken
<1> QED
  BY <1>5, <1>6, <1>7, <1>8, <1>9, <1>10 DEF Inv

(* The byte the client copies is the next one of the stream.               *)
LEMMA ReaderFetchInv ==
  ASSUME Inv, ReaderFetch
  PROVE  Inv'
<1> DEFINE f == Len(r_fetched)
           cell == next_read_index + f
<1>1. /\ f < r_reserved
      /\ r_fetched' = Append(r_fetched, buffer[cell])
      /\ UNCHANGED <<buffer, write_stores, read_stores, r_open,
                     next_read_index, r_reserved, r_acquired, r_available,
                     received, writerVars>>
  BY DEF ReaderFetch
<1>2. buffer[cell] = taken + f + 1 /\ f \in Nat
  <2>1. /\ taken + r_reserved <= r_acquired /\ r_acquired <= sent
        /\ next_read_index + r_reserved <= Size
    BY DEF Inv, CountsOrdered
  <2>2. /\ taken + f + 1 \in taken + 1 .. sent + w_filled
        /\ cell < Size
    <3>1. f < r_reserved /\ f \in Nat
      BY <1>1 DEF Inv, TypeOK
    <3> HIDE DEF f
    <3>2. taken + f + 1 \in taken + 1 .. sent + w_filled
      BY <2>1, <3>1, Numbers
    <3>3. next_read_index + f < Size
      BY <2>1, <3>1, Numbers, SizeAssumption
    <3> QED
      BY <3>2, <3>3
  <2>3. buffer[Wrap(next_read_index + ((taken + f + 1) - taken - 1))]
          = taken + f + 1
    BY <2>2 DEF Inv, UnreadInPlace
  <2>4. (taken + f + 1) - taken - 1 = f /\ cell \in Nat
    BY Numbers
  <2>5. Wrap(next_read_index + ((taken + f + 1) - taken - 1)) = cell
    BY <2>2, <2>4 DEF Wrap
  <2> QED
    BY <2>3, <2>5, Numbers
<1>3. r_fetched \in Seq(Nat)
  BY DEF Inv, TypeOK
<1>4. /\ r_fetched' \in Seq(Nat) /\ Len(r_fetched') = f + 1
      /\ \A i \in 1 .. f : r_fetched'[i] = r_fetched[i]
      /\ r_fetched'[f + 1] = taken + f + 1
  BY <1>1, <1>2, <1>3, Basics
<1>5. TypeOK'
  BY <1>1, <1>4 DEF Inv, TypeOK, writerVars
<1>6. CountsOrdered'
  <2>1. Len(r_fetched') <= r_reserved'
    BY <1>1, <1>2, <1>4, Numbers
  <2> QED
    BY <1>1, <2>1 DEF Inv, CountsOrdered, writerVars, taken
<1>7. WriterSees' /\ ReaderSees' /\ NewestVisible' /\ UnreadInPlace'
  BY <1>1 DEF Inv, WriterSees, ReaderSees, NewestVisible, UnreadInPlace,
     writerVars, taken
<1>8. BytesInOrder'
  <2>1. \A i \in 1 .. f : r_fetched[i] = taken + i
    BY DEF Inv, BytesInOrder
  <2>2. ASSUME NEW i \in 1 .. f + 1
        PROVE  r_fetched'[i] = taken + i
    <3>1. CASE i \in 1 .. f
      BY <1>4, <2>1, <3>1
    <3>2. CASE i = f + 1
      BY <1>2, <1>4, <3>2, Numbers
    <3> QED
      BY <1>2, <3>1, <3>2
  <2> QED
    BY <1>1, <1>4, <2>2 DEF Inv, BytesInOrder, taken
<1> QED
  BY <1>5, <1>6, <1>7, <1>8 DEF Inv

(* commit of the reader appends the copied bytes to what was received and  *)
(* frees their cells for the writer.                                       *)
LEMMA ReaderCommitInv ==
  ASSUME Inv, NEW n \in 1 .. Size, ReaderCommit(n)
  PROVE  Inv'
<1>1. /\ n \in 1 .. Len(r_fetched)
      /\ next_read_index' = Advance(next_read_index, n, Size)
      /\ received' = received \o SubSeq(r_fetched, 1, n)
      /\ read_stores' = read_stores \cup {Store(next_read_index', taken')}
      /\ r_reserved' = 0 /\ r_fetched' = << >> /\ r_available' = 0
      /\ UNCHANGED <<buffer, write_stores, r_open, r_acquired, writerVars>>
  BY DEF ReaderCommit, taken
<1>2. received \in Seq(Nat) /\ r_fetched \in Seq(Nat)
  BY DEF Inv, TypeOK
<1>3. SubSeq(r_fetched, 1, n) \in Seq(Nat) /\ Len(SubSeq(r_fetched, 1, n)) = n
  BY <1>1, <1>2
<1>4. received' \in Seq(Nat) /\ taken' = taken + n
  BY <1>1, <1>2, <1>3 DEF taken
<1>count. taken' = taken + n
  BY <1>4
<1>5. /\ n <= r_reserved /\ taken + n <= r_acquired /\ r_acquired <= sent
      /\ next_read_index + n <= Size
  <2>1. /\ Len(r_fetched) <= r_reserved
        /\ taken + r_reserved <= r_acquired /\ r_acquired <= sent
        /\ next_read_index + r_reserved <= Size
    BY DEF Inv, CountsOrdered
  <2>2. n <= r_reserved
    BY <1>1, <1>2, <2>1, Numbers
  <2> QED
    BY <2>1, <2>2, Numbers, SizeAssumption
<1>6. n \in 1 .. Size - 1
  BY <1>5, Basics, Numbers, SizeAssumption
<1>7. ASSUME NEW e \in 0 .. Size - 1, n <= e
      PROVE  /\ Wrap(next_read_index' + (e - n)) = Wrap(next_read_index + e)
             /\ next_read_index' \in Cells
  BY <1>1, <1>5, <1>6, <1>7, Numbers, AdvanceBehind
<1>8. /\ next_write_index = Wrap(next_read_index' + (sent - taken'))
      /\ next_read_index' \in Cells
  <2>1. n <= sent - taken /\ (sent - taken) - n = sent - taken'
    BY <1>4, <1>5, Numbers
  <2> QED
    BY <1>7, <2>1, Basics
<1>9. TypeOK'
  <2>1. Store(next_read_index', taken') \in Stores
    BY <1>4, <1>8, Numbers DEF Store, Stores
  <2> QED
    BY <1>1, <1>4, <1>8, <2>1, SizeAssumption DEF Inv, TypeOK, writerVars
<1>10. CountsOrdered'
  <2>1. w_acquired <= taken /\ r_acquired <= sent
    BY DEF Inv, CountsOrdered
  <2>2. w_acquired <= taken' /\ taken' + r_reserved' <= r_acquired
    <3>1. r_reserved' = 0
      BY <1>1
    <3> QED
      BY <1>count, <1>5, <2>1, <3>1, Numbers
  <2>3. Len(r_fetched') <= r_reserved' /\ next_read_index' + r_reserved' <= Size
    BY <1>1, <1>8, SizeAssumption DEF Cells
  <2> QED
    BY <1>1, <2>2, <2>3 DEF Inv, CountsOrdered, writerVars, taken
<1>11. WriterSees'
  <2> SUFFICES ASSUME NEW m \in read_stores'
               PROVE  /\ w_acquired <= m.count /\ m.count <= taken'
                      /\ sent + w_available <= m.count + Size - 1
                      /\ next_write_index = Wrap(m.index + (sent - m.count))
    BY <1>1 DEF WriterSees, writerVars
  <2>1. CASE m \in read_stores
    <3>1. /\ w_acquired <= m.count /\ m.count <= taken
          /\ sent + w_available <= m.count + Size - 1
          /\ next_write_index = Wrap(m.index + (sent - m.count))
      BY <2>1 DEF Inv, WriterSees
    <3> QED
      BY <1>4, <2>1, <3>1, Basics
  <2>2. CASE m = Store(next_read_index', taken')
    <3>1. m.index = next_read_index' /\ m.count = taken'
      BY <2>2 DEF Store
    <3>2. w_acquired <= taken /\ sent + w_available <= taken + Size - 1
      BY DEF Inv, WriterSees, NewestVisible, Store
    <3> QED
      <4>1. w_acquired <= taken' /\ sent + w_available <= taken' + Size - 1
        BY <1>count, <3>2, Numbers, SizeAssumption
      <4>2. taken' \in Nat
        BY <1>count, Numbers
      <4> QED
        BY <1>8, <3>1, <4>1, <4>2
  <2> QED
    BY <1>1, <2>1, <2>2
<1>12. ReaderSees'
  <2> SUFFICES ASSUME NEW m \in write_stores
               PROVE  /\ r_acquired <= m.count /\ m.count <= sent
                      /\ taken' <= m.count
                      /\ m.index = Wrap(next_read_index' + (m.count - taken'))
    BY <1>1, <1>4, Numbers DEF ReaderSees, writerVars, taken
  <2>1. /\ r_acquired <= m.count /\ m.count <= sent
        /\ m.index = Wrap(next_read_index + (m.count - taken))
    BY DEF Inv, ReaderSees
  <2>2. /\ n <= m.count - taken
        /\ (m.count - taken) - n = m.count - taken'
        /\ taken' <= m.count
    <3>1. m.count \in Nat
      BY Basics
    <3> QED
      BY <1>count, <1>5, <2>1, <3>1, Numbers
  <2> QED
    BY <1>7, <2>1, <2>2, Basics
<1>13. NewestVisible'
  BY <1>1 DEF Inv, NewestVisible, writerVars, taken
<1>14. UnreadInPlace'
  <2> SUFFICES ASSUME NEW p \in taken' + 1 .. sent + w_filled
               PROVE  buffer[Wrap(next_read_index' + (p - taken' - 1))] = p
    BY <1>1 DEF UnreadInPlace, writerVars
  <2>1. p \in taken + 1 .. sent + w_filled
    BY <1>count, Numbers
  <2>2. buffer[Wrap(next_read_index + (p - taken - 1))] = p
    BY <2>1 DEF Inv, UnreadInPlace
  <2>3. sent + w_filled <= taken + Size - 1
    <3>1. w_acquired <= taken /\ sent + w_reserved <= w_acquired + Size - 1
      BY DEF Inv, CountsOrdered
    <3> QED
      BY <3>1, Numbers, SizeAssumption
  <2>4. /\ p - taken - 1 \in 0 .. Size - 1 /\ n <= p - taken - 1
        /\ (p - taken - 1) - n = p - taken' - 1
    BY <1>count, <2>1, <2>3, Numbers, SizeAssumption
  <2> QED
    BY <1>7, <2>2, <2>4
<1>15. BytesInOrder'
  <2>1. ASSUME NEW i \in 1 .. taken + n
        PROVE  received'[i] = i
    <3>1. CASE i \in 1 .. taken
      <4>1. received'[i] = received[i]
        BY <1>1, <1>2, <1>3, <3>1 DEF taken
      <4> QED
        BY <3>1, <4>1 DEF Inv, BytesInOrder
    <3>2. CASE i \in taken + 1 .. taken + n
      <4>1. received'[i] = SubSeq(r_fetched, 1, n)[i - taken]
        BY <1>1, <1>2, <1>3, <3>2 DEF taken
      <4>2. i - taken \in 1 .. n /\ taken + (i - taken) = i
        BY <3>2, Numbers
      <4>3. SubSeq(r_fetched, 1, n)[i - taken] = r_fetched[i - taken]
        BY <1>1, <1>2, <4>2
      <4>4. i - taken \in 1 .. Len(r_fetched)
        BY <1>1, <1>2, <4>2
      <4> QED
        BY <4>1, <4>2, <4>3, <4>4 DEF Inv, BytesInOrder
    <3> QED
      BY <3>1, <3>2, Numbers
  <2> QED
    BY <1>1, <1>4, <2>1 DEF BytesInOrder, taken
<1> QED
  BY <1>9, <1>10, <1>11, <1>12, <1>13, <1>14, <1>15 DEF Inv
-----------------------------------------------------------------------------
(* Every step of the queue and its clients keeps the invariant.            *)
LEMMA NextInv ==
  ASSUME Inv, [Next]_vars
  PROVE  Inv'
<1>1. CASE Next
  BY <1>1, WriterOpenInv, WriterCloseInv, WriterAvailableSizeInv,
     WriterTryReserveInv, WriterFillInv, WriterCommitInv, ReaderOpenInv,
     ReaderCloseInv, ReaderAvailableSizeInv, ReaderTryReserveInv,
     ReaderFetchInv, ReaderCommitInv DEF Next
<1>2. CASE UNCHANGED vars
  BY <1>2 DEF vars, writerVars, readerVars, Inv, TypeOK, CountsOrdered,
     WriterSees, ReaderSees, NewestVisible, UnreadInPlace, BytesInOrder, taken
<1> QED
  BY <1>1, <1>2

(* The invariant holds in every reachable state, for every size of the     *)
(* buffer.                                                                 *)
THEOREM Invariance == Spec => []Inv
<1>1. Init => Inv
  BY InitInv
<1>2. Inv /\ [Next]_vars => Inv'
  BY NextInv
<1> QED
  BY <1>1, <1>2, PTL DEF Spec

(* The shape of the state is as declared.                                  *)
THEOREM TypeCorrect == Spec => []TypeOK
BY Invariance, PTL DEF Inv

(* The reader gets the bytes of the stream, in order.                      *)
THEOREM BytesAreInOrder == Spec => []BytesInOrder
BY Invariance, PTL DEF Inv

(* Every access of a client to its reservation is ordered after the other  *)
(* side's accesses to the same cells.                                      *)
THEOREM RaceFreedom == Spec => []NoDataRace
<1>1. Inv => NoDataRace
  <2> SUFFICES ASSUME Inv PROVE NoDataRace
    OBVIOUS
  <2>1. /\ sent + w_reserved <= w_acquired + Size - 1
        /\ taken + r_reserved <= r_acquired
    BY DEF Inv, CountsOrdered
  <2> QED
    BY <2>1, Numbers, SizeAssumption DEF NoDataRace
<1> QED
  BY <1>1, Invariance, PTL

(* The reservations of the two sides are apart from each other, and the    *)
(* writer's from every unread byte.                                        *)
LEMMA InvApart ==
  ASSUME Inv
  PROVE  ReservationsApart
<1> DEFINE d == sent - taken
<1>1. /\ w_acquired <= taken
      /\ sent + w_reserved <= w_acquired + Size - 1
      /\ next_write_index + w_reserved <= Size
      /\ taken + r_reserved <= r_acquired /\ r_acquired <= sent
      /\ next_read_index + r_reserved <= Size
  BY DEF Inv, CountsOrdered
<1>2. /\ Window(next_write_index, w_reserved) \subseteq Cells
      /\ Window(next_read_index, r_reserved) \subseteq Cells
  BY <1>1, Numbers, SizeAssumption DEF Window, Cells
<1>3. ASSUME NEW cell \in Window(next_write_index, w_reserved),
             NEW e \in Nat, e < d
      PROVE  cell # Wrap(next_read_index + e)
  <2> DEFINE f == cell - next_write_index
  <2>1. f \in Nat /\ f < w_reserved /\ cell = next_write_index + f
    BY Numbers DEF Window
  <2> HIDE DEF f
  <2>2. d \in Nat /\ d + f < Size - 1 /\ cell < Size
    BY <1>1, <2>1, Basics, Numbers, SizeAssumption
  <2>3. cell = Wrap(next_read_index + (d + f))
    BY <2>1, <2>2, Basics, Numbers, SizeAssumption, WrapInWindow
  <2>4. e \in 0 .. Size - 1 /\ d + f \in 0 .. Size - 1 /\ e # d + f
    BY <1>3, <2>1, <2>2, SizeAssumption
  <2> QED
    BY <2>3, <2>4, Numbers, WrapDistinct
<1>4. ASSUME NEW cell \in Window(next_write_index, w_reserved)
      PROVE  cell \notin Window(next_read_index, r_reserved)
  <2> SUFFICES ASSUME cell \in Window(next_read_index, r_reserved)
               PROVE  FALSE
    OBVIOUS
  <2> DEFINE g == cell - next_read_index
  <2>1. g \in Nat /\ g < r_reserved /\ cell = next_read_index + g
    BY Numbers DEF Window
  <2> HIDE DEF g
  <2>2. g < d /\ cell < Size
    BY <1>1, <2>1, Numbers, SizeAssumption
  <2>3. cell = Wrap(next_read_index + g)
    BY <2>1, <2>2 DEF Wrap
  <2> QED
    BY <1>3, <2>1, <2>2, <2>3
<1>5. ASSUME NEW cell \in Window(next_write_index, w_reserved),
             NEW p \in taken + 1 .. sent
      PROVE  cell # Wrap(next_read_index + (p - taken - 1))
  <2>1. p - taken - 1 \in Nat /\ p - taken - 1 < d
    BY Numbers
  <2> QED
    BY <1>3, <2>1
<1> QED
  BY <1>2, <1>4, <1>5 DEF ReservationsApart

(* try_reserve never hands the same cell to both sides, and never hands    *)
(* the writer a cell with an unread byte.                                  *)
THEOREM SpansAreApart == Spec => []ReservationsApart
BY InvApart, Invariance, PTL

(* What available_size told is there.                                      *)
THEOREM AvailableTellsTheTruth == Spec => []AvailableIsThere
<1>1. Inv => AvailableIsThere
  BY DEF Inv, NewestVisible, WriterSees, ReaderSees, Store, AvailableIsThere
<1> QED
  BY <1>1, Invariance, PTL

(* What available_size told can be reserved next.                          *)
THEOREM PromisesAreKept == Spec => AvailableIsReservable
<1>1. ASSUME Inv, NEW n \in 1 .. Size, WriterTryReserve(n), w_available > 0
      PROVE  w_reserved' > 0
  <2>1. PICK m \in read_stores :
          w_reserved' = Lesser(n, WriterReservable(m.index, next_write_index, Size))
    BY <1>1 DEF WriterTryReserve
  <2>2. /\ sent + w_available <= m.count + Size - 1
        /\ next_write_index = Wrap(m.index + (sent - m.count))
    BY <1>1 DEF Inv, WriterSees
  <2>3. sent - m.count \in 0 .. Size - 1 /\ m.index \in Cells /\ m.count \in Nat
    BY <1>1, Basics
  <2>4. sent - m.count < Size - 1
    BY <1>1, <2>2, <2>3, Numbers, SizeAssumption
  <2>5. WriterReservable(m.index, next_write_index, Size) > 0
    BY <1>1, <2>2, <2>3, <2>4, Numbers, WriterArithmetic
  <2> QED
    BY <2>1, <2>5, SizeAssumption DEF Lesser
<1>2. ASSUME Inv, NEW n \in 1 .. Size, ReaderTryReserve(n), r_available > 0
      PROVE  r_reserved' > 0
  <2>1. PICK m \in write_stores :
          r_reserved' = Lesser(n, ReaderReservable(next_read_index, m.index, Size))
    BY <1>2 DEF ReaderTryReserve
  <2>2. /\ taken + r_available <= m.count
        /\ m.index = Wrap(next_read_index + (m.count - taken))
    BY <1>2 DEF Inv, ReaderSees
  <2>3. m.count - taken \in 0 .. Size - 1 /\ m.index \in Cells /\ m.count \in Nat
    BY <1>2, Basics
  <2>4. m.count - taken > 0
    BY <1>2, <2>2, <2>3, Numbers
  <2>5. ReaderReservable(next_read_index, m.index, Size) > 0
    BY <1>2, <2>2, <2>3, <2>4, Numbers, ReaderArithmetic
  <2> QED
    BY <2>1, <2>5, SizeAssumption DEF Lesser
<1>3. Inv => PromiseKept
  BY <1>1, <1>2 DEF PromiseKept
<1> QED
  BY <1>3, Invariance, PTL DEF AvailableIsReservable
-----------------------------------------------------------------------------
(* The refinement of ByteStream.                                           *)

(* The committed stream, as a sequence of byte numbers, and its length.    *)
LEMMA CommittedLen ==
  ASSUME NEW n \in Nat
  PROVE  /\ [i \in 1 .. n |-> i] \in Seq(Nat)
         /\ Len([i \in 1 .. n |-> i]) = n
OBVIOUS

(* The initial states of the queue are those of the abstract stream.       *)
LEMMA RefinesInit == Init => Stream!Init
BY DEF Init, Stream!Init

(* A commit of the writer appends to the stream within its capacity.       *)
LEMMA RefinesWrite ==
  ASSUME Inv, NEW n \in 1 .. Size, WriterCommit(n)
  PROVE  Stream!Write
<1>1. sent' = sent + n /\ received' = received /\ n \in 1 .. w_filled
  BY DEF WriterCommit, readerVars
<1>2. sent \in Nat /\ sent' \in Nat /\ sent <= sent'
  BY <1>1, Numbers
<1>3. Stream!IsInitialSegment([i \in 1 .. sent |-> i], [i \in 1 .. sent' |-> i])
  BY <1>2, CommittedLen DEF Stream!IsInitialSegment
<1>4. sent' <= Len(received) + (Size - 1)
  <2>1. w_acquired <= taken /\ sent + w_reserved <= w_acquired + Size - 1
    BY DEF Inv, CountsOrdered
  <2>2. sent' <= taken + (Size - 1)
    BY <1>1, <2>1, Numbers, SizeAssumption
  <2> QED
    BY <2>2 DEF taken
<1> QED
  BY <1>1, <1>2, <1>3, <1>4, CommittedLen DEF Stream!Write

(* A commit of the reader takes out the next bytes of the stream.          *)
LEMMA RefinesRead ==
  ASSUME Inv, Inv', NEW n \in 1 .. Size, ReaderCommit(n)
  PROVE  Stream!Read
<1>1. /\ received' = received \o SubSeq(r_fetched, 1, n) /\ sent' = sent
      /\ n \in 1 .. Len(r_fetched)
  BY DEF ReaderCommit, writerVars
<1>2. /\ received \in Seq(Nat) /\ r_fetched \in Seq(Nat)
      /\ received' \in Seq(Nat) /\ sent \in Nat
  BY DEF Inv, TypeOK
<1>3. Stream!IsInitialSegment(received, received')
  <2>1. SubSeq(r_fetched, 1, n) \in Seq(Nat)
    BY <1>1, <1>2
  <2> QED
    BY <1>1, <1>2, <2>1 DEF Stream!IsInitialSegment
<1>4. Stream!IsInitialSegment(received', [i \in 1 .. sent |-> i])
  <2>1. \A i \in 1 .. Len(received') : received'[i] = i
    BY DEF Inv, BytesInOrder, taken
  <2>2. Len(received') <= sent
    <3>1. /\ taken + r_reserved <= r_acquired /\ r_acquired <= sent
          /\ Len(r_fetched) <= r_reserved
      BY DEF Inv, CountsOrdered
    <3>2. n <= r_reserved /\ n \in Nat
      BY <1>1, <1>2, <3>1, Numbers
    <3>3. taken + n <= sent
      BY <3>1, <3>2, Numbers
    <3>4. Len(received') = taken + n
      <4>1. /\ SubSeq(r_fetched, 1, n) \in Seq(Nat)
            /\ Len(SubSeq(r_fetched, 1, n)) = n
        BY <1>1, <1>2
      <4> QED
        BY <1>1, <1>2, <4>1 DEF taken
    <3> QED
      BY <3>3, <3>4
  <2> QED
    BY <1>2, <2>1, <2>2, CommittedLen DEF Stream!IsInitialSegment
<1> QED
  BY <1>1, <1>3, <1>4 DEF Stream!Read

(* All the other actions leave the stream as it is.                        *)
LEMMA RefinesNext ==
  ASSUME Inv, Inv', [Next]_vars
  PROVE  [Stream!Next]_(Stream!streamVars)
<1>1. ASSUME NEW n \in 1 .. Size, WriterCommit(n)
      PROVE  Stream!Next
  BY <1>1, RefinesWrite DEF Stream!Next
<1>2. ASSUME NEW n \in 1 .. Size, ReaderCommit(n)
      PROVE  Stream!Next
  BY <1>2, RefinesRead DEF Stream!Next
<1>3. ASSUME UNCHANGED <<sent, received>>
      PROVE  UNCHANGED Stream!streamVars
  BY <1>3 DEF Stream!streamVars
<1>4. CASE WriterOpen \/ WriterClose \/ WriterAvailableSize \/ WriterFill
           \/ \E n \in ExpectedSizes : WriterTryReserve(n)
  BY <1>3, <1>4 DEF WriterOpen, WriterClose, WriterAvailableSize, WriterFill,
     WriterTryReserve, readerVars
<1>5. CASE ReaderOpen \/ ReaderClose \/ ReaderAvailableSize \/ ReaderFetch
           \/ \E n \in ExpectedSizes : ReaderTryReserve(n)
  BY <1>3, <1>5 DEF ReaderOpen, ReaderClose, ReaderAvailableSize, ReaderFetch,
     ReaderTryReserve, writerVars
<1>6. CASE UNCHANGED vars
  BY <1>3, <1>6 DEF vars, writerVars, readerVars
<1> QED
  BY <1>1, <1>2, <1>4, <1>5, <1>6 DEF Next

(* The queue implements the stream of bytes.                               *)
THEOREM Refinement == Spec => StreamSpec
<1>1. Init => Stream!Init
  BY RefinesInit
<1>2. Inv /\ Inv' /\ [Next]_vars => [Stream!Next]_(Stream!streamVars)
  BY RefinesNext
<1> QED
  BY <1>1, <1>2, Invariance, PTL DEF Spec, StreamSpec, Stream!Spec
=============================================================================
