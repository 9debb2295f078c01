----------------------- MODULE QueueIndicesWidthProofs -----------------------
(***************************************************************************)
(* Proofs, for every modulus, that the unsigned arithmetic of the queues   *)
(* never wraps and that their counts are the numbers of cells.             *)
(***************************************************************************)
EXTENDS QueueIndicesWidth, FiniteSetTheorems, TLAPS

(* The inductive invariant: the size is one the constructors accept, and   *)
(* the indices are indices.                                                *)
IndicesInv ==
  /\ size \in MinSize .. MaxSize
  /\ read \in 0 .. size - 1
  /\ write \in 0 .. size - 1
-----------------------------------------------------------------------------
(* Two sizes together do not reach the modulus.                            *)
LEMMA SizesAreSmall == MaxSize \in Nat /\ 2 * MaxSize < Modulus
BY ModulusAssumption DEF MaxSize

LEMMA SmallStays ==
  ASSUME NEW n \in 0 .. Modulus - 1
  PROVE  Unsigned(n) = n
BY ModulusAssumption DEF Unsigned

(* The invariant, in arithmetic alone.                                     *)
LEMMA IndicesFacts ==
  ASSUME IndicesInv
  PROVE  /\ size \in Nat /\ size >= 2 /\ 2 * size < Modulus
         /\ read \in Nat /\ read < size
         /\ write \in Nat /\ write < size
         /\ Modulus \in Nat
BY SizesAreSmall, ModulusAssumption DEF IndicesInv, MinSize

(* Whatever the indices are, no intermediate result leaves the range of    *)
(* the unsigned integers.                                                  *)
LEMMA NothingWraps ==
  ASSUME IndicesInv
  PROVE  UnsignedAgrees
<1>1. /\ size \in Nat /\ size >= 2 /\ 2 * size < Modulus
      /\ read \in Nat /\ read < size
      /\ write \in Nat /\ write < size
      /\ Modulus \in Nat
  BY IndicesFacts
<1>2. \A n \in 0 .. Modulus - 1 : Unsigned(n) = n
  BY SmallStays
<1>3. /\ RaisedRead = IF read <= write THEN read + size ELSE read
      /\ RaisedWrite = IF write < read THEN write + size ELSE write
  BY <1>1, <1>2 DEF RaisedRead, RaisedWrite
<1>4. RaisedRead > write /\ RaisedWrite >= read
  BY <1>1, <1>3
<1>5. WriterAvailableUnsigned = WriterAvailable(read, write, size)
  <2>1. Unsigned(RaisedRead - write) = RaisedRead - write
    BY <1>1, <1>2, <1>3, <1>4
  <2>2. Unsigned(RaisedRead - write - 1) = RaisedRead - write - 1
    BY <1>1, <1>2, <1>3, <1>4
  <2> QED
    BY <1>3, <2>1, <2>2 DEF WriterAvailableUnsigned, WriterAvailable
<1>6. WriterReservableUnsigned = WriterReservable(read, write, size)
  <2>1. CASE write < read
    <3>1. /\ Unsigned(read - write) = read - write
          /\ Unsigned(read - write - 1) = read - write - 1
      BY <1>1, <1>2, <2>1
    <3> QED
      BY <2>1, <3>1 DEF WriterReservableUnsigned, WriterReservable
  <2>2. CASE ~ write < read
    <3>1. /\ Unsigned(size - write) = size - write
          /\ Unsigned(size - write - 1) = size - write - 1
      BY <1>1, <1>2
    <3> QED
      BY <2>2, <3>1 DEF WriterReservableUnsigned, WriterReservable
  <2> QED BY <2>1, <2>2
<1>7. ReaderAvailableUnsigned = ReaderAvailable(read, write, size)
  BY <1>1, <1>2, <1>3, <1>4 DEF ReaderAvailableUnsigned, ReaderAvailable
<1>8. ReaderReservableUnsigned = ReaderReservable(read, write, size)
  BY <1>1, <1>2 DEF ReaderReservableUnsigned, ReaderReservable
<1>9. ASSUME NEW n \in 1 .. WriterReservableUnsigned
      PROVE  AdvanceUnsigned(write, n) = Advance(write, n, size)
  <2>1. n \in Nat /\ write + n <= size
    BY <1>1, <1>6, <1>9 DEF WriterReservable
  <2>2. Unsigned(write + n) = write + n
    BY <1>1, <1>2, <2>1
  <2> QED BY <2>2 DEF AdvanceUnsigned, Advance
<1> QED
  BY <1>1, <1>4, <1>5, <1>6, <1>7, <1>8, <1>9 DEF UnsignedAgrees

(* A commit of a run that fits leads to an index.                          *)
LEMMA CommitsStayInside ==
  ASSUME IndicesInv, NEW i \in 0 .. size - 1, NEW n \in Nat, n >= 1,
         i + n <= size
  PROVE  AdvanceUnsigned(i, n) \in 0 .. size - 1
<1>1. /\ size \in Nat /\ 2 * size < Modulus /\ Modulus \in Nat
  BY IndicesFacts
<1>2. Unsigned(i + n) = i + n
  BY <1>1, SmallStays
<1> QED BY <1>1, <1>2 DEF AdvanceUnsigned

LEMMA IndicesInvNext == IndicesInv /\ [Next]_vars => IndicesInv'
<1> SUFFICES ASSUME IndicesInv, [Next]_vars PROVE IndicesInv'
  OBVIOUS
<1>1. /\ size \in Nat /\ size >= 2 /\ 2 * size < Modulus
      /\ read \in Nat /\ read < size
      /\ write \in Nat /\ write < size
  BY IndicesFacts
<1>2. /\ WriterReservableUnsigned = WriterReservable(read, write, size)
      /\ ReaderReservableUnsigned = ReaderReservable(read, write, size)
  BY NothingWraps DEF UnsignedAgrees
<1>3. ASSUME NEW n \in 1 .. MaxSize, WriterCommit(n) PROVE IndicesInv'
  <2>1. n \in Nat /\ n >= 1 /\ write + n <= size
    BY <1>1, <1>2, <1>3, SizesAreSmall DEF WriterCommit, WriterReservable
  <2>2. AdvanceUnsigned(write, n) \in 0 .. size - 1
    BY <2>1, CommitsStayInside DEF IndicesInv
  <2> QED BY <1>3, <2>2 DEF WriterCommit, IndicesInv
<1>4. ASSUME NEW n \in 1 .. MaxSize, ReaderCommit(n) PROVE IndicesInv'
  <2>1. n \in Nat /\ n >= 1 /\ read + n <= size
    BY <1>1, <1>2, <1>4, SizesAreSmall DEF ReaderCommit, ReaderReservable
  <2>2. AdvanceUnsigned(read, n) \in 0 .. size - 1
    BY <2>1, CommitsStayInside DEF IndicesInv
  <2> QED BY <1>4, <2>2 DEF ReaderCommit, IndicesInv
<1>5. CASE UNCHANGED vars
  BY <1>5 DEF vars, IndicesInv
<1> QED BY <1>3, <1>4, <1>5 DEF Next

THEOREM IndicesInvariant == Spec => []IndicesInv
<1>1. Init => IndicesInv
  BY SizesAreSmall DEF Init, IndicesInv, MinSize
<1> QED BY <1>1, IndicesInvNext, PTL DEF Spec

(* Because max_size() is half of what fits, unsigned arithmetic gives what *)
(* the naturals give, for every size that the constructors accept and      *)
(* every pair of indices, whatever the width of the integers.              *)
THEOREM NeverWraps == Spec => []UnsignedAgrees
BY IndicesInvariant, NothingWraps, PTL
-----------------------------------------------------------------------------
(* Counting cells.                                                         *)

LEMMA MaxIs ==
  ASSUME NEW S, NEW m \in S, \A n \in S : n \in Int /\ n <= m
  PROVE  Max(S) = m
<1>1. \A y \in S : m >= y
  OBVIOUS
<1>2. ASSUME NEW x \in S, \A y \in S : x >= y PROVE x = m
  BY <1>2
<1> QED BY <1>1, <1>2 DEF Max

(* The number of unread cells.                                             *)
LEMMA UnreadCount ==
  ASSUME IndicesInv
  PROVE  Cardinality(Unread) = ReaderAvailable(read, write, size)
<1>1. /\ size \in Nat /\ size >= 2
      /\ read \in Nat /\ read < size
      /\ write \in Nat /\ write < size
  BY IndicesFacts
<1>2. CASE read <= write
  <2>1. Unread = read .. write - 1
    BY <1>1, <1>2 DEF Unread
  <2>2. Cardinality(read .. write - 1) =
          IF read > write - 1 THEN 0 ELSE write - 1 - read + 1
    BY <1>1, FS_Interval
  <2> QED BY <1>1, <1>2, <2>1, <2>2 DEF ReaderAvailable
<1>3. CASE write < read
  <2> DEFINE tail == read .. size - 1
             head == 0 .. write - 1
  <2>1. Unread = tail \cup head
    BY <1>1, <1>3 DEF Unread
  <2>2. tail \cap head = {}
    BY <1>1, <1>3
  <2>3. /\ IsFiniteSet(tail)
        /\ Cardinality(tail) =
             IF read > size - 1 THEN 0 ELSE size - 1 - read + 1
    BY <1>1, FS_Interval
  <2>4. /\ IsFiniteSet(head)
        /\ Cardinality(head) = IF 0 > write - 1 THEN 0 ELSE write - 1 - 0 + 1
    BY <1>1, FS_Interval
  <2> HIDE DEF tail, head
  <2>5. Cardinality(tail \cup head) =
          Cardinality(tail) + Cardinality(head) - Cardinality({})
    BY <2>2, <2>3, <2>4, FS_Union
  <2>6. Cardinality({}) = 0
    BY FS_EmptySet
  <2> QED BY <1>1, <1>3, <2>1, <2>3, <2>4, <2>5, <2>6 DEF ReaderAvailable
<1> QED BY <1>1, <1>2, <1>3

(* A run of k cells that is in the set, and cannot be longer.              *)
LEMMA LongestRunIs ==
  ASSUME IndicesInv, NEW from \in 0 .. size - 1, NEW cells,
         NEW k \in 0 .. size - from,
         \A c \in from .. from + k - 1 : c \in cells,
         k < size - from => from + k \notin cells
  PROVE  LongestRun(from, cells) = k
<1> DEFINE runs == {n \in 0 .. size - from : from .. from + n - 1 \subseteq cells}
<1>1. size \in Nat /\ from \in Nat /\ k \in Nat
  BY IndicesFacts
<1>2. k \in runs
  OBVIOUS
<1>3. ASSUME NEW n \in runs PROVE n \in Int /\ n <= k
  <2>1. n \in 0 .. size - from /\ from .. from + n - 1 \subseteq cells
    OBVIOUS
  <2>2. ASSUME n > k PROVE FALSE
    <3>1. from + k \in from .. from + n - 1 /\ k < size - from
      BY <1>1, <2>1, <2>2
    <3> QED BY <2>1, <3>1
  <2> QED BY <1>1, <2>1, <2>2
<1> HIDE DEF runs
<1>4. Max(runs) = k
  BY <1>2, <1>3, MaxIs
<1> QED BY <1>4 DEF LongestRun, runs

LEMMA CountsFollow ==
  ASSUME IndicesInv
  PROVE  CountsAreExact
<1> DEFINE free == (0 .. size - 1) \ Unread
           count == Cardinality(Unread)
<1>1. /\ size \in Nat /\ size >= 2
      /\ read \in Nat /\ read < size
      /\ write \in Nat /\ write < size
  BY IndicesFacts
<1>2. count = ReaderAvailable(read, write, size)
  BY UnreadCount
<1> HIDE DEF count
<1>3. WriterAvailable(read, write, size) = size - 1 - count
  BY <1>1, <1>2 DEF WriterAvailable, ReaderAvailable
<1>4. ReaderReservable(read, write, size) = LongestRun(read, Unread)
  <2> DEFINE k == ReaderReservable(read, write, size)
  <2>1. k \in 0 .. size - read
    BY <1>1 DEF ReaderReservable
  <2>2. \A c \in read .. read + k - 1 : c \in Unread
    BY <1>1 DEF ReaderReservable, Unread
  <2>3. k < size - read => read + k \notin Unread
    BY <1>1 DEF ReaderReservable, Unread
  <2> HIDE DEF k
  <2>4. read \in 0 .. size - 1
    BY <1>1
  <2>5. LongestRun(read, Unread) = k
    BY <2>1, <2>2, <2>3, <2>4, LongestRunIs
  <2> QED BY <2>5 DEF k
<1>5. LongestRun(write, free) = IF write < read THEN read - write ELSE size - write
  <2> DEFINE k == IF write < read THEN read - write ELSE size - write
  <2>1. k \in 0 .. size - write
    BY <1>1
  <2>2. \A c \in write .. write + k - 1 : c \in free
    BY <1>1 DEF Unread
  <2>3. k < size - write => write + k \notin free
    BY <1>1 DEF Unread
  <2> HIDE DEF k, free
  <2>4. write \in 0 .. size - 1
    BY <1>1
  <2>5. LongestRun(write, free) = k
    BY <2>1, <2>2, <2>3, <2>4, LongestRunIs
  <2> QED BY <2>5 DEF k
<1>6. WriterReservable(read, write, size) =
        Lesser(LongestRun(write, free), size - 1 - count)
  BY <1>1, <1>2, <1>5 DEF WriterReservable, Lesser, ReaderAvailable
<1> QED
  BY <1>2, <1>3, <1>4, <1>6 DEF CountsAreExact, count, free

(* available_size and the reservations of both sides are, for every size   *)
(* and every pair of indices, the numbers of cells that are there: nothing *)
(* that is unread is withheld from the reader, nor a free cell from the    *)
(* writer, but for the one that tells a full queue from an empty one.      *)
THEOREM CountsStayExact == Spec => []CountsAreExact
BY IndicesInvariant, CountsFollow, PTL
=============================================================================
