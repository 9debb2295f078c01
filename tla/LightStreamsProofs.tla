-------------------------- MODULE LightStreamsProofs --------------------------
(***************************************************************************)
(* Proofs, for every set of processes, of sizes and of those who remove or *)
(* die, any number of removes and of bytes, of the safety of LightStreams. *)
(***************************************************************************)
EXTENDS LightStreams, StreamRegistryProofs, FiniteSetTheorems

(* The calls of remove that have not removed the name yet.                 *)
Pending ==
  {p \in Processes : \/ pc[p] = "lock" /\ call[p].kind = "remove"
                     \/ pc[p] = "remove_shm"}

(* Every name that was removed took a call of remove of its own.           *)
RemovesAreCounted ==
  /\ IsFiniteSet(removed) /\ IsFiniteSet(Pending)
  /\ Cardinality(removed) + Cardinality(Pending) <= removes

(* A segment no queue can work with has carried nothing.                   *)
OthersAreEmpty ==
  \A i \in Segments \ Buffers : sent[i] = << >> /\ received[i] = << >>

IndicesFit ==
  \A i \in Buffers : /\ queue[i].write < segment[i].buffer_size
                     /\ queue[i].read < segment[i].buffer_size

(* What was read is the beginning of what was written.                     *)
IsBeginning(r, s) ==
  Len(r) <= Len(s) /\ \A k \in 1 .. Len(r) : r[k] = s[k]

ReadInOrder == \A i \in Segments : IsBeginning(received[i], sent[i])

OwnIndex(p) == IF p = Writer THEN queue[SegmentOf(p)].write
                             ELSE queue[SegmentOf(p)].read

(* Objects are where the memory of their segment says, whoever opened and  *)
(* closed it before, and have reserved no more than there is now.          *)
ObjectFits(p) ==
  object[p].index = OwnIndex(p) /\ object[p].reserved <= Reservable(p)

ObjectsFit == \A p \in Clients : stream[p] # NoView => ObjectFits(p)

StreamsInv ==
  /\ RegistryInv
  /\ RemovesAreCounted
  /\ StreamsTypeOK
  /\ OthersAreEmpty
  /\ IndicesFit
  /\ ReadInOrder
  /\ UnreadBytesAreThere
  /\ ObjectsFit
-----------------------------------------------------------------------------
(* Arithmetic.                                                             *)

LEMMA WrapOnce ==
  ASSUME NEW n \in Nat, n > 0, NEW x \in Nat, x < 2 * n
  PROVE  x % n = IF x < n THEN x ELSE x - n
<1>1. CASE x < n
  BY <1>1
<1>2. CASE x >= n
  <2>1. x = n * 1 + (x - n) /\ x - n \in 0 .. n - 1
    BY <1>2
  <2> QED BY <1>2, <2>1
<1> QED BY <1>1, <1>2

(* What the sides may reserve lies in the buffer, and a commit of it leads *)
(* to an index again.                                                      *)
LEMMA ReservableFits ==
  ASSUME NEW n \in Nat, NEW read \in 0 .. n - 1, NEW write \in 0 .. n - 1
  PROVE  /\ WriterReservable(read, write, n) \in 0 .. n - 1
         /\ ReaderReservable(read, write, n) \in 0 .. n - 1
         /\ write + WriterReservable(read, write, n) <= n
         /\ read + ReaderReservable(read, write, n) <= n
         /\ ReaderAvailable(read, write, n) \in 0 .. n - 1
         /\ ReaderReservable(read, write, n) <= ReaderAvailable(read, write, n)
BY DEF WriterReservable, ReaderReservable, ReaderAvailable

(* A commit of the writer.                                                 *)
LEMMA WriterAdvances ==
  ASSUME NEW n \in Nat, NEW read \in 0 .. n - 1, NEW write \in 0 .. n - 1,
         NEW k \in Nat, k <= WriterReservable(read, write, n)
  PROVE  /\ Advance(write, k, n) \in 0 .. n - 1
         /\ ReaderAvailable(read, Advance(write, k, n), n) =
              ReaderAvailable(read, write, n) + k
         /\ ReaderReservable(read, write, n) <=
              ReaderReservable(read, Advance(write, k, n), n)
BY DEF WriterReservable, ReaderReservable, ReaderAvailable, Advance

(* A commit of the reader.                                                 *)
LEMMA ReaderAdvances ==
  ASSUME NEW n \in Nat, NEW read \in 0 .. n - 1, NEW write \in 0 .. n - 1,
         NEW k \in Nat, k <= ReaderReservable(read, write, n)
  PROVE  /\ Advance(read, k, n) \in 0 .. n - 1
         /\ ReaderAvailable(Advance(read, k, n), write, n) =
              ReaderAvailable(read, write, n) - k
         /\ WriterReservable(read, write, n) <=
              WriterReservable(Advance(read, k, n), write, n)
BY DEF WriterReservable, ReaderReservable, ReaderAvailable, Advance

(* The cells of the unread bytes, and those after them.                    *)
LEMMA CellsOfUnread ==
  ASSUME NEW n \in Nat, NEW read \in 0 .. n - 1, NEW write \in 0 .. n - 1,
         NEW k \in Nat
  PROVE  /\ k < ReaderReservable(read, write, n) => (read + k) % n = read + k
         /\ k < ReaderAvailable(read, write, n) =>
              /\ (read + k) % n \in 0 .. n - 1
              /\ (read + k) % n \notin
                   write .. write + WriterReservable(read, write, n) - 1
         /\ k < WriterReservable(read, write, n) =>
              (read + (ReaderAvailable(read, write, n) + k)) % n = write + k
<1>1. ASSUME k < n PROVE read + k \in Nat /\ read + k < 2 * n
  BY <1>1
<1>2. ASSUME k < n
      PROVE  (read + k) % n = IF read + k < n THEN read + k ELSE read + k - n
  BY <1>1, <1>2, WrapOnce
<1>3. k < ReaderReservable(read, write, n) => (read + k) % n = read + k
  BY <1>2 DEF ReaderReservable
<1>4. k < ReaderAvailable(read, write, n) =>
        /\ (read + k) % n \in 0 .. n - 1
        /\ (read + k) % n \notin
             write .. write + WriterReservable(read, write, n) - 1
  BY <1>2 DEF ReaderAvailable, WriterReservable
<1>5. ASSUME k < WriterReservable(read, write, n)
      PROVE  (read + (ReaderAvailable(read, write, n) + k)) % n = write + k
  <2> DEFINE x == read + (ReaderAvailable(read, write, n) + k)
  <2>1. x \in Nat /\ x < 2 * n /\ write + k = IF x < n THEN x ELSE x - n
    BY <1>5 DEF ReaderAvailable, WriterReservable
  <2> HIDE DEF x
  <2>2. x % n = write + k
    BY <2>1, WrapOnce
  <2> QED BY <2>2 DEF x
<1> QED BY <1>3, <1>4, <1>5

(* After a commit of the reader the cells are those of the next bytes.     *)
LEMMA CellsAfterCommit ==
  ASSUME NEW n \in Nat, NEW read \in 0 .. n - 1, NEW write \in 0 .. n - 1,
         NEW k \in Nat, k <= ReaderReservable(read, write, n),
         NEW j \in Nat, k + j < ReaderAvailable(read, write, n)
  PROVE  (Advance(read, k, n) + j) % n = (read + (k + j)) % n
<1> DEFINE x == read + (k + j)
           y == Advance(read, k, n) + j
<1>1. /\ x \in Nat /\ x < 2 * n /\ y \in Nat /\ y < 2 * n
      /\ (IF x < n THEN x ELSE x - n) = IF y < n THEN y ELSE y - n
  BY DEF ReaderReservable, ReaderAvailable, Advance
<1> HIDE DEF x, y
<1>2. n > 0 /\ x % n = y % n
  BY <1>1, WrapOnce
<1> QED BY <1>2 DEF x, y
-----------------------------------------------------------------------------
(* The number of segments.                                                 *)

LEMMA InitCounted == Init => RemovesAreCounted
<1> SUFFICES ASSUME Init PROVE RemovesAreCounted
  OBVIOUS
<1>1. Pending = {} /\ removed = {} /\ removes = 0
  BY DEF Pending, Init
<1> QED BY <1>1, FS_EmptySet DEF RemovesAreCounted

(* A step that removes no name and after which nobody new is to remove.    *)
LEMMA CountedOtherwise ==
  ASSUME TypeOK, RemovesAreCounted, UNCHANGED <<removed, removes>>,
         Pending' \subseteq Pending
  PROVE  RemovesAreCounted'
<1>1. /\ IsFiniteSet(Pending') /\ Cardinality(Pending') <= Cardinality(Pending)
      /\ Cardinality(Pending') \in Nat /\ Cardinality(Pending) \in Nat
  BY FS_Subset, FS_CardinalityType DEF RemovesAreCounted
<1>2. Cardinality(removed) \in Nat /\ removes \in Int
  BY FS_CardinalityType, TypeParts, MaxRemovesAssumption DEF RemovesAreCounted
<1> QED BY <1>1, <1>2 DEF RemovesAreCounted

(* Whoever does not lock, nor call, has not a name to remove after it.     *)
LEMMA FewerPending ==
  ASSUME TypeOK, NEW p \in Processes,
         \A q \in Processes \ {p} : pc'[q] = pc[q] /\ call'[q] = call[q],
         \/ pc'[p] \notin {"lock", "remove_shm"}
         \/ pc'[p] = pc[p] /\ call'[p] = call[p]
         \/ pc'[p] = "remove_shm" /\ pc[p] = "lock" /\ call[p].kind = "remove"
  PROVE  Pending' \subseteq Pending
BY DEF Pending

LEMMA OpenMutexCounted ==
  ASSUME TypeOK, RemovesAreCounted, NEW p \in Processes, NEW c \in Calls(p),
         OpenMutex(p, c)
  PROVE  RemovesAreCounted'
<1>1. /\ pc'[p] = "lock" /\ call'[p] = c /\ p \notin Pending
      /\ \A q \in Processes \ {p} : pc'[q] = pc[q] /\ call'[q] = call[q]
      /\ removed' = removed
  BY TypeParts DEF OpenMutex, Pending
<1>2. CASE c.kind = "remove"
  <2>1. Pending' = Pending \cup {p} /\ removes' = removes + 1
    BY <1>1, <1>2 DEF Pending, OpenMutex
  <2>2. /\ IsFiniteSet(Pending')
        /\ Cardinality(Pending') = Cardinality(Pending) + 1
    BY <1>1, <2>1, FS_AddElement DEF RemovesAreCounted
  <2>3. Cardinality(Pending) \in Nat /\ Cardinality(removed) \in Nat
    BY FS_CardinalityType DEF RemovesAreCounted
  <2>4. removes \in Int
    BY TypeParts, MaxRemovesAssumption
  <2> QED BY <1>1, <2>1, <2>2, <2>3, <2>4 DEF RemovesAreCounted
<1>3. CASE c.kind # "remove"
  <2>1. Pending' \subseteq Pending /\ removes' = removes
    BY <1>1, <1>3 DEF Pending, OpenMutex
  <2> QED BY <1>1, <2>1, CountedOtherwise
<1> QED BY <1>2, <1>3

LEMMA RemoveShmCounted ==
  ASSUME TypeOK, RemovesAreCounted, NEW p \in Processes, RemoveShm(p)
  PROVE  RemovesAreCounted'
<1>1. /\ p \in Pending /\ pc'[p] = "unlock"
      /\ \A q \in Processes \ {p} : pc'[q] = pc[q] /\ call'[q] = call[q]
  BY SetAt DEF RemoveShm, Pending
<1>2. Pending' \subseteq Pending \ {p} /\ removes' = removes
  BY <1>1 DEF Pending, RemoveShm
<1>3. /\ IsFiniteSet(Pending \ {p})
      /\ Cardinality(Pending \ {p}) = Cardinality(Pending) - 1
  BY <1>1, FS_RemoveElement DEF RemovesAreCounted
<1>4. /\ IsFiniteSet(Pending')
      /\ Cardinality(Pending') <= Cardinality(Pending) - 1
  BY <1>2, <1>3, FS_Subset
<1>5. /\ IsFiniteSet(removed \cup {shm_name})
      /\ Cardinality(removed \cup {shm_name}) <= Cardinality(removed) + 1
      /\ Cardinality(removed) \in Nat
  <2>1. IsFiniteSet(removed) /\ Cardinality(removed) \in Nat
    BY FS_CardinalityType DEF RemovesAreCounted
  <2>2. /\ IsFiniteSet(removed \cup {shm_name})
        /\ Cardinality(removed \cup {shm_name}) =
             IF shm_name \in removed THEN Cardinality(removed)
                                     ELSE Cardinality(removed) + 1
    BY <2>1, FS_AddElement
  <2> QED BY <2>1, <2>2
<1>6. removed' \subseteq removed \cup {shm_name}
  BY DEF RemoveShm
<1>7. /\ IsFiniteSet(removed')
      /\ Cardinality(removed') <= Cardinality(removed \cup {shm_name})
  BY <1>5, <1>6, FS_Subset
<1>8. /\ Cardinality(Pending) \in Nat /\ Cardinality(Pending') \in Nat
      /\ Cardinality(removed') \in Nat
      /\ Cardinality(removed \cup {shm_name}) \in Nat
      /\ removes \in Int
  BY <1>4, <1>5, <1>7, FS_CardinalityType, TypeParts, MaxRemovesAssumption
     DEF RemovesAreCounted
<1> QED
  BY <1>2, <1>4, <1>5, <1>7, <1>8 DEF RemovesAreCounted

LEMMA NextCounted == TypeOK /\ RemovesAreCounted /\ [Next]_vars => RemovesAreCounted'
<1> SUFFICES ASSUME TypeOK, RemovesAreCounted, [Next]_vars
             PROVE  RemovesAreCounted'
  OBVIOUS
<1>1. ASSUME NEW p \in Processes, NEW c \in Calls(p), OpenMutex(p, c)
      PROVE  RemovesAreCounted'
  BY <1>1, OpenMutexCounted
<1>2. ASSUME NEW p \in Processes, RemoveShm(p) PROVE RemovesAreCounted'
  BY <1>2, RemoveShmCounted
<1>3. ASSUME NEW p \in Processes,
             (Continue(p) /\ ~ RemoveShm(p)) \/ Close(p) \/ Crash(p)
      PROVE  RemovesAreCounted'
  <2>1. \A q \in Processes \ {p} : pc'[q] = pc[q] /\ call'[q] = call[q]
    BY <1>3, OthersStay
  <2>2. CASE Lock(p)
    <3>1. /\ pc[p] = "lock" /\ UNCHANGED <<removed, removes>>
          /\ \/ pc'[p] = "open_shm"
             \/ pc'[p] = "remove_shm" /\ call[p].kind = "remove"
      BY <2>2, SetAt DEF Lock
    <3> QED BY <2>1, <3>1, FewerPending, CountedOtherwise
  <2>3. CASE Close(p)
    <3>1. UNCHANGED <<pc, call, removed, removes>>
      BY <2>3 DEF Close
    <3> QED BY <3>1, FewerPending, CountedOtherwise
  <2>4. CASE ~ Lock(p) /\ ~ Close(p)
    <3>1. UNCHANGED <<removed, removes>>
      BY <1>3, <2>4 DEF Continue, OpenShm, Extract, CreateShm, Truncate,
         Initialize, Unlock, Construct, RemoveMutex, Crash
    <3>2. pc'[p] \notin {"lock", "remove_shm"}
      <4>1. ASSUME NEW place, pc' = [pc EXCEPT ![p] = place]
            PROVE  pc'[p] = place
        BY <4>1, SetAt
      <4>2. CASE Unlock(p)
        BY <4>1, <4>2 DEF Unlock, AfterUnlock, EndCall
      <4>3. CASE OpenShm(p) \/ Extract(p) \/ Initialize(p)
        BY <4>1, <4>3 DEF OpenShm, Extract, Initialize, Fail
      <4>4. CASE CreateShm(p) \/ Truncate(p)
        BY <4>1, <4>4 DEF CreateShm, Truncate, Fail
      <4>5. CASE Construct(p) \/ RemoveMutex(p) \/ Crash(p)
        BY <4>1, <4>5 DEF Construct, RemoveMutex, Crash, EndCall
      <4> QED BY <1>3, <2>4, <4>2, <4>3, <4>4, <4>5 DEF Continue
    <3> QED BY <2>1, <3>1, <3>2, FewerPending, CountedOtherwise
  <2> QED BY <2>2, <2>3, <2>4
<1>4. CASE UNCHANGED vars
  BY <1>4 DEF vars, RemovesAreCounted, Pending
<1> QED BY <1>1, <1>2, <1>3, <1>4 DEF Next

(* There is one segment more than there were removes, at most.             *)
LEMMA SegmentsAreFew ==
  ASSUME RegistryInv, RemovesAreCounted
  PROVE  DOMAIN segment \subseteq Segments
<1>1. /\ Len(segment) \in Nat /\ DOMAIN segment = 1 .. Len(segment)
      /\ removes \in Int /\ removes <= MaxRemoves /\ MaxRemoves \in Nat
  BY TypeParts, LenProperties, MaxRemovesAssumption DEF RegistryInv
<1>2. /\ IsFiniteSet(removed \cup {shm_name})
      /\ Cardinality(removed \cup {shm_name}) <= Cardinality(removed) + 1
      /\ Cardinality(removed) \in Nat
  <2>1. IsFiniteSet(removed) /\ Cardinality(removed) \in Nat
    BY FS_CardinalityType DEF RemovesAreCounted
  <2>2. /\ IsFiniteSet(removed \cup {shm_name})
        /\ Cardinality(removed \cup {shm_name}) =
             IF shm_name \in removed THEN Cardinality(removed)
                                     ELSE Cardinality(removed) + 1
    BY <2>1, FS_AddElement
  <2> QED BY <2>1, <2>2
<1>3. Cardinality(1 .. Len(segment)) = Len(segment)
  <2>1. Cardinality(1 .. Len(segment)) =
          IF 1 > Len(segment) THEN 0 ELSE Len(segment) - 1 + 1
    BY <1>1, FS_Interval
  <2> QED BY <1>1, <2>1
<1>4. 1 .. Len(segment) \subseteq removed \cup {shm_name}
  BY <1>1 DEF RegistryInv, EverySegment
<1>5. Cardinality(1 .. Len(segment)) <= Cardinality(removed \cup {shm_name})
  BY <1>2, <1>4, FS_Subset
<1>6. /\ Cardinality(Pending) \in Nat
      /\ Cardinality(removed \cup {shm_name}) \in Nat
  BY <1>2, FS_CardinalityType DEF RemovesAreCounted
<1>7. Len(segment) <= MaxRemoves + 1
  BY <1>1, <1>2, <1>3, <1>5, <1>6 DEF RemovesAreCounted
<1> QED BY <1>1, <1>7 DEF Segments
-----------------------------------------------------------------------------
(* Types.                                                                  *)

Indices == 0 .. MaxSize - 1
Queues == [write : Indices, read : Indices, buffer : [0 .. MaxSize -> 0 .. MaxBytes]]
QueueObjects == [index : Indices, reserved : Indices]
History == Seq(1 .. MaxBytes)

LEMMA StreamsTypeParts ==
  StreamsTypeOK <=> /\ TypeOK
                    /\ queue \in [Segments -> Queues]
                    /\ object \in [Clients -> QueueObjects]
                    /\ sent \in [Segments -> History]
                    /\ received \in [Segments -> History]
                    /\ written \in 0 .. MaxBytes
BY DEF StreamsTypeOK, Indices, Queues, QueueObjects, History

LEMMA ZeroIsIndex == 0 \in Indices /\ MaxSize \in Nat /\ MaxBytes \in Nat
BY SizesAssumption, MaxBytesAssumption DEF Indices

(* What a segment of a queue has.                                          *)
LEMMA QueueFacts ==
  ASSUME StreamsTypeOK, NEW i \in Segments
  PROVE  /\ queue[i] \in Queues
         /\ queue[i].write \in Nat /\ queue[i].read \in Nat
         /\ queue[i].buffer \in [0 .. MaxSize -> 0 .. MaxBytes]
         /\ sent[i] \in Seq(Nat) /\ received[i] \in Seq(Nat)
         /\ Len(sent[i]) \in Nat /\ Len(received[i]) \in Nat
         /\ sent[i] \in History /\ received[i] \in History
<1>1. /\ queue[i] \in Queues /\ sent[i] \in History /\ received[i] \in History
  BY StreamsTypeParts
<1>2. History \subseteq Seq(Nat)
  BY MaxBytesAssumption, SeqMonotonic DEF History
<1>3. Indices \subseteq Nat
  BY ZeroIsIndex DEF Indices
<1>4. /\ queue[i].write \in Nat /\ queue[i].read \in Nat
      /\ queue[i].buffer \in [0 .. MaxSize -> 0 .. MaxBytes]
  BY <1>1, <1>3 DEF Queues
<1> QED BY <1>1, <1>2, <1>4, LenProperties

(* Records of which fields are set.                                        *)
LEMMA QueueSet ==
  ASSUME NEW q \in Queues, NEW n, NEW b
  PROVE  /\ [q EXCEPT !.write = n, !.read = n] =
              [write |-> n, read |-> n, buffer |-> q.buffer]
         /\ [q EXCEPT !.write = n, !.buffer = b] =
              [write |-> n, read |-> q.read, buffer |-> b]
         /\ [q EXCEPT !.read = n] =
              [write |-> q.write, read |-> n, buffer |-> q.buffer]
<1> DEFINE B == [0 .. MaxSize -> 0 .. MaxBytes]
<1> HIDE DEF B
<1>1. q \in [write : Indices, read : Indices, buffer : B]
  BY DEF Queues, B
<1>2. q = [write |-> q.write, read |-> q.read, buffer |-> q.buffer]
  BY <1>1
<1> DEFINE w == [q EXCEPT !.write = n]
<1>3. w = [write |-> n, read |-> q.read, buffer |-> q.buffer]
  BY <1>2
<1>4. /\ [w EXCEPT !.read = n] = [write |-> n, read |-> n, buffer |-> q.buffer]
      /\ [w EXCEPT !.buffer = b] = [write |-> n, read |-> q.read, buffer |-> b]
  <2> HIDE DEF w
  <2> QED BY <1>3
<1>5. [q EXCEPT !.read = n] =
        [write |-> q.write, read |-> n, buffer |-> q.buffer]
  BY <1>2
<1> QED BY <1>4, <1>5

(* A segment that a queue can work with.                                   *)
LEMMA BufferFacts ==
  ASSUME StreamsInv, NEW i \in Buffers
  PROVE  /\ i \in DOMAIN segment /\ i \in Segments
         /\ segment[i].buffer_size \in Nat /\ segment[i].buffer_size > 0
         /\ segment[i].buffer_size <= MaxSize
         /\ segment[i].room = segment[i].buffer_size + 1
         /\ queue[i].write \in 0 .. segment[i].buffer_size - 1
         /\ queue[i].read \in 0 .. segment[i].buffer_size - 1
<1>1. i \in DOMAIN segment /\ i \in Segments
  BY SegmentsAreFew DEF Buffers, StreamsInv
<1>2. segment[i] \in Headers
  BY <1>1, TypeParts, Typed, ElementOfSeq DEF StreamsInv, RegistryInv
<1>3. /\ segment[i].buffer_size \in MinSize .. MaxSize
      /\ segment[i].room \in Nat /\ segment[i].buffer_size \in Nat
  BY <1>2 DEF Buffers, Headers
<1>4. segment[i].buffer_size > 0 /\ segment[i].buffer_size <= MaxSize
  BY <1>3, SizesAssumption
<1>5. segment[i].buffer_size \in {0, segment[i].room - 1}
  BY <1>1 DEF StreamsInv, RegistryInv, HeadersAreTrue
<1>6. queue[i].write \in Nat /\ queue[i].read \in Nat
  BY <1>1, QueueFacts DEF StreamsInv
<1> QED BY <1>1, <1>3, <1>4, <1>5, <1>6 DEF StreamsInv, IndicesFit

(* An open stream.                                                         *)
LEMMA ViewFacts ==
  ASSUME StreamsInv, NEW p \in Clients, stream[p] # NoView
  PROVE  /\ p \in Processes /\ SegmentOf(p) \in Buffers
         /\ SizeOf(p) = segment[SegmentOf(p)].buffer_size
<1>1. p \in Processes
  BY ClientsAssumption DEF Clients
<1>2. /\ stream[p].segment \in DOMAIN segment
      /\ stream[p].size = segment[stream[p].segment].buffer_size
      /\ segment[stream[p].segment].buffer_size \in MinSize .. MaxSize
  BY <1>1 DEF StreamsInv, RegistryInv, ViewsAreTrue, StreamsAreUsable
<1> QED BY <1>1, <1>2 DEF SegmentOf, SizeOf, Buffers
-----------------------------------------------------------------------------
(* What the steps of the registry do to the segments.                      *)

SameBuffers ==
  /\ Buffers' = Buffers
  /\ \A i \in Buffers : segment'[i].buffer_size = segment[i].buffer_size

LEMMA TruncateKeeps ==
  ASSUME RegistryInv, NEW p \in Processes, Truncate(p)
  PROVE  SameBuffers
<1> DEFINE m == data[p].segment
           n == call[p].asked + 1
<1>1. CASE UNCHANGED segment
  BY <1>1 DEF SameBuffers, Buffers
<1>2. CASE segment' = [segment EXCEPT ![m].room = n]
  <2>1. DOMAIN segment' = DOMAIN segment
    BY <1>2
  <2>2. ASSUME NEW i \in DOMAIN segment
        PROVE  segment'[i].buffer_size = segment[i].buffer_size
    <3>1. segment[i] \in Headers
      BY TypeParts, Typed, ElementOfSeq DEF RegistryInv
    <3> HIDE DEF n
    <3>2. segment'[i] = IF i = m THEN [segment[i] EXCEPT !.room = n]
                                 ELSE segment[i]
      BY <1>2
    <3> QED BY <3>1, <3>2, HeaderSet
  <2> QED BY <2>1, <2>2 DEF SameBuffers, Buffers
<1> QED BY <1>1, <1>2 DEF Truncate

LEMMA CreateShmKeeps ==
  ASSUME RegistryInv, NEW p \in Processes, CreateShm(p)
  PROVE  SameBuffers
<1>1. CASE UNCHANGED segment
  BY <1>1 DEF SameBuffers, Buffers
<1>2. CASE segment' = Append(segment, NoBytes)
  <2>1. segment \in Seq(Headers) /\ NoBytes \in Headers
    BY TypeParts DEF RegistryInv, NoBytes, Headers
  <2>2. /\ DOMAIN segment = 1 .. Len(segment) /\ Len(segment) \in Nat
        /\ DOMAIN segment' = 1 .. Len(segment) + 1
        /\ segment'[Len(segment) + 1] = NoBytes
        /\ \A i \in DOMAIN segment : segment'[i] = segment[i]
    BY <1>2, <2>1, AppendProperties, LenProperties
  <2>3. NoBytes.buffer_size \notin MinSize .. MaxSize
    BY SizesAssumption DEF NoBytes
  <2> QED BY <2>2, <2>3 DEF SameBuffers, Buffers
<1> QED BY <1>1, <1>2 DEF CreateShm

LEMMA OthersKeep ==
  ASSUME RegistryInv, NEW p \in Processes,
         \/ \E c \in Calls(p) : OpenMutex(p, c)
         \/ Continue(p) /\ ~ Initialize(p)
         \/ Close(p) \/ Crash(p)
  PROVE  SameBuffers
<1>1. CASE UNCHANGED segment
  BY <1>1 DEF SameBuffers, Buffers
<1> QED
  BY <1>1, TruncateKeeps, CreateShmKeeps
  DEF Continue, OpenMutex, Lock, OpenShm, Extract, Unlock, Construct, RemoveShm,
      RemoveMutex, Close, Crash

(* The segment that is initialised was no queue's, and others stay.        *)
LEMMA InitializeKeeps ==
  ASSUME RegistryInv, NEW p \in Processes, Initialize(p)
  PROVE  /\ data[p].segment \in DOMAIN segment
         /\ data[p].segment \notin Buffers
         /\ Buffers \subseteq Buffers'
         /\ Buffers' \subseteq Buffers \cup {data[p].segment}
         /\ \A i \in Buffers : segment'[i].buffer_size = segment[i].buffer_size
<1> DEFINE m == data[p].segment
           n == call[p].asked
<1>1. segment' = [segment EXCEPT ![m].buffer_size = n] /\ Making(p)
  BY DEF Initialize, Making
<1>2. m \in DOMAIN segment
  BY <1>1 DEF RegistryInv, MakersAreAlone
<1>3. segment[m].buffer_size = 0
  BY <1>1, <1>2, MakersSegment
<1>4. m \notin Buffers
  BY <1>3, SizesAssumption DEF Buffers
<1>5. /\ DOMAIN segment' = DOMAIN segment
      /\ \A i \in DOMAIN segment \ {m} : segment'[i] = segment[i]
  BY <1>1
<1> QED BY <1>2, <1>4, <1>5 DEF Buffers
-----------------------------------------------------------------------------
(* Opening and closing.                                                    *)

LEMMA InitStreamsInv == StreamsInit => StreamsInv
<1> SUFFICES ASSUME StreamsInit PROVE StreamsInv
  OBVIOUS
<1>1. RegistryInv /\ RemovesAreCounted
  BY InitRegistryInv, InitCounted DEF StreamsInit
<1>2. /\ Buffers = {} /\ \A p \in Processes : stream[p] = NoView
      /\ \A i \in Segments : sent[i] = << >> /\ received[i] = << >>
  BY DEF StreamsInit, Init, Buffers
<1>3. StreamsTypeOK
  <2>1. << >> \in History /\ NoObject \in QueueObjects
    BY ZeroIsIndex DEF History, NoObject, QueueObjects
  <2>2. [c \in 0 .. MaxSize |-> 0] \in [0 .. MaxSize -> 0 .. MaxBytes]
    BY ZeroIsIndex
  <2> QED
    BY <1>1, <2>1, <2>2, ZeroIsIndex, StreamsTypeParts
       DEF StreamsInit, RegistryInv, Queues
<1>4. \A p \in Clients : p \in Processes
  BY ClientsAssumption DEF Clients
<1>5. ReadInOrder
  BY <1>2 DEF ReadInOrder, IsBeginning
<1> QED
  BY <1>1, <1>2, <1>3, <1>4, <1>5
     DEF StreamsInv, OthersAreEmpty, IndicesFit, UnreadBytesAreThere, ObjectsFit

(* An object that stays the same, of a segment that stays the same.        *)
LEMMA ObjectStays ==
  ASSUME NEW p \in Clients, ObjectFits(p), stream'[p] = stream[p],
         object'[p] = object[p], queue'[SegmentOf(p)] = queue[SegmentOf(p)]
  PROVE  ObjectFits(p)'
BY DEF ObjectFits, OwnIndex, Reservable, SegmentOf, SizeOf

(* A step that leaves the memory as it is.                                 *)
LEMMA MemoryStays ==
  ASSUME StreamsInv, RegistryInv', RemovesAreCounted', SameBuffers,
         UNCHANGED <<queue, sent, received, written>>,
         object' \in [Clients -> QueueObjects], ObjectsFit'
  PROVE  StreamsInv'
<1>1. StreamsTypeOK'
  BY StreamsTypeParts DEF StreamsInv, RegistryInv, StreamsTypeOK, QueueObjects,
     Queues, History, Indices
<1>2. OthersAreEmpty' /\ IndicesFit' /\ ReadInOrder'
  BY DEF StreamsInv, SameBuffers, OthersAreEmpty, IndicesFit, ReadInOrder
<1>3. UnreadBytesAreThere'
  <2>1. \A i \in Buffers :
          /\ Unread(i)' = Unread(i)
          /\ \A k \in 1 .. Unread(i) : UnreadCell(i, k)' = UnreadCell(i, k)
    BY DEF SameBuffers, Unread, UnreadCell
  <2>2. UnreadBytesAreThere
    BY DEF StreamsInv
  <2> QED BY <2>1, <2>2 DEF SameBuffers, UnreadBytesAreThere
<1> QED BY <1>1, <1>2, <1>3 DEF StreamsInv

LEMMA RegistryStays ==
  ASSUME StreamsInv, [Next]_vars
  PROVE  RegistryInv' /\ RemovesAreCounted' /\ TypeOK
BY NextRegistryInv, NextCounted DEF StreamsInv, RegistryInv

(* A step of the registry that leaves the objects as they are.             *)
LEMMA ObjectsStay ==
  ASSUME StreamsInv, [Next]_vars, SameBuffers, UNCHANGED <<stream, queueVars>>
  PROVE  StreamsInv'
<1>1. UNCHANGED <<queue, sent, received, written, object>>
  BY DEF queueVars
<1>2. ObjectsFit'
  BY <1>1, ObjectStays DEF ObjectsFit, StreamsInv
<1>3. object' \in [Clients -> QueueObjects]
  BY <1>1, StreamsTypeParts DEF StreamsInv
<1> QED BY <1>1, <1>2, <1>3, RegistryStays, MemoryStays

LEMMA BeginInv ==
  ASSUME StreamsInv, NEW p \in Processes, Begin(p)
  PROVE  StreamsInv'
<1>1. PICK c \in Calls(p) : OpenMutex(p, c)
  BY DEF Begin
<1>2. Next /\ SameBuffers
  BY <1>1, OthersKeep DEF Next, StreamsInv
<1>3. UNCHANGED <<stream, queueVars>>
  BY <1>1 DEF Begin, OpenMutex
<1> QED BY <1>2, <1>3, ObjectsStay

LEMMA PrepareInv ==
  ASSUME StreamsInv, NEW p \in Processes, Prepare(p)
  PROVE  StreamsInv'
<1>1. Continue(p) /\ UNCHANGED <<stream, queueVars>>
  BY DEF Prepare, Continue, Lock, OpenShm, Extract, CreateShm, Truncate, Unlock,
         RemoveShm, RemoveMutex
<1>2. SameBuffers
  <2>1. CASE CreateShm(p) \/ Truncate(p)
    BY <2>1, CreateShmKeeps, TruncateKeeps DEF StreamsInv
  <2>2. CASE UNCHANGED segment
    BY <2>2 DEF SameBuffers, Buffers
  <2> QED
    BY <2>1, <2>2 DEF Prepare, Lock, OpenShm, Extract, Unlock, RemoveShm, RemoveMutex
<1>3. Next
  BY <1>1 DEF Next
<1> QED BY <1>1, <1>2, <1>3, ObjectsStay

(* A header that is made has no queue's bytes to lose.                     *)
LEMMA InitializeIndicesInv ==
  ASSUME StreamsInv, NEW p \in Processes, InitializeIndices(p)
  PROVE  StreamsInv'
<1> DEFINE m == data[p].segment
           new == [write |-> 0, read |-> 0, buffer |-> queue[m].buffer]
<1>1. Initialize(p) /\ UNCHANGED <<stream, object, sent, received, written>>
  BY DEF InitializeIndices, Initialize
<1>2. Next
  BY <1>1 DEF Next, Continue
<1>3. RegistryInv' /\ RemovesAreCounted' /\ TypeOK'
  BY <1>2, RegistryStays DEF RegistryInv
<1>4. /\ m \in Segments /\ m \notin Buffers /\ Buffers \subseteq Buffers'
      /\ Buffers' \subseteq Buffers \cup {m}
      /\ \A i \in Buffers : segment'[i].buffer_size = segment[i].buffer_size
  BY <1>1, InitializeKeeps, SegmentsAreFew DEF StreamsInv
<1>5. queue[m] \in Queues
  BY <1>4, QueueFacts DEF StreamsInv
<1>6. queue' = [queue EXCEPT ![m] = new]
  <2>1. [queue[m] EXCEPT !.write = 0, !.read = 0] = new
    BY <1>5, QueueSet
  <2> QED BY <2>1 DEF InitializeIndices
<1>7. new \in Queues /\ new.write = 0 /\ new.read = 0
  BY <1>5, ZeroIsIndex DEF Queues
<1> HIDE DEF new
<1>8. /\ queue' \in [Segments -> Queues] /\ queue'[m] = new
      /\ \A i \in Segments \ {m} : queue'[i] = queue[i]
  BY <1>4, <1>6, <1>7, StreamsTypeParts DEF StreamsInv
<1>9. StreamsTypeOK'
  BY <1>1, <1>3, <1>8, StreamsTypeParts
  DEF StreamsInv, StreamsTypeOK, QueueObjects, Queues, History, Indices
<1>10. OthersAreEmpty' /\ ReadInOrder'
  BY <1>1, <1>4 DEF StreamsInv, OthersAreEmpty, ReadInOrder
<1>11. \A i \in Buffers : i \in Segments /\ i # m
  BY <1>4, BufferFacts
<1>12. ASSUME m \in Buffers'
       PROVE  segment'[m].buffer_size \in Nat /\ segment'[m].buffer_size > 0
  BY <1>12, SizesAssumption DEF Buffers
<1>13. IndicesFit'
  BY <1>4, <1>7, <1>8, <1>11, <1>12 DEF StreamsInv, IndicesFit
<1>14. UnreadBytesAreThere'
  <2> SUFFICES ASSUME NEW i \in Buffers'
               PROVE  /\ Unread(i)' = ReaderAvailable(queue'[i].read,
                                         queue'[i].write, segment'[i].buffer_size)
                      /\ \A k \in 1 .. Unread(i)' :
                           queue'[i].buffer[UnreadCell(i, k)'] =
                             sent'[i][Len(received'[i]) + k]
    BY DEF UnreadBytesAreThere
  <2>1. CASE i \in Buffers
    <3>1. /\ queue'[i] = queue[i] /\ segment'[i].buffer_size = segment[i].buffer_size
          /\ sent'[i] = sent[i] /\ received'[i] = received[i]
      BY <1>1, <1>4, <1>8, <1>11, <2>1
    <3>2. /\ Unread(i)' = Unread(i)
          /\ \A k \in 1 .. Unread(i) : UnreadCell(i, k)' = UnreadCell(i, k)
      BY <3>1 DEF Unread, UnreadCell
    <3> QED BY <2>1, <3>1, <3>2 DEF StreamsInv, UnreadBytesAreThere
  <2>2. CASE i = m
    <3>1. sent'[i] = << >> /\ received'[i] = << >>
      BY <1>1, <1>4, <2>2 DEF StreamsInv, OthersAreEmpty
    <3>2. Len(<< >>) = 0
      OBVIOUS
    <3>3. Unread(i)' = 0
      BY <3>1, <3>2 DEF Unread
    <3>4. \A n : ReaderAvailable(0, 0, n) = 0
      BY DEF ReaderAvailable
    <3> QED BY <1>7, <1>8, <2>2, <3>3, <3>4
  <2> QED BY <1>4, <2>1, <2>2
<1>15. ObjectsFit'
  <2> SUFFICES ASSUME NEW q \in Clients, stream'[q] # NoView
               PROVE  ObjectFits(q)'
    BY DEF ObjectsFit
  <2>1. SegmentOf(q) \in Buffers /\ ObjectFits(q)
    BY <1>1, ViewFacts DEF StreamsInv, ObjectsFit
  <2> QED BY <1>1, <1>8, <1>11, <2>1, ObjectStays
<1> QED BY <1>3, <1>9, <1>10, <1>13, <1>14, <1>15 DEF StreamsInv

(* A new object starts at the index that its side stored last.             *)
LEMMA ConstructObjectInv ==
  ASSUME StreamsInv, NEW p \in Processes, ConstructObject(p)
  PROVE  StreamsInv'
<1> DEFINE new == [index |-> StoredIndex(p), reserved |-> 0]
<1>1. Construct(p) /\ UNCHANGED <<queue, sent, received, written, segment>>
  BY DEF ConstructObject, Construct
<1>2. Next /\ SameBuffers
  BY <1>1 DEF Next, Continue, SameBuffers, Buffers
<1>3. RegistryInv' /\ RemovesAreCounted' /\ TypeOK
  BY <1>2, RegistryStays
<1>4. CASE data[p].size \in MinSize .. MaxSize
  <2>1. stream' = [stream EXCEPT ![p] = data[p]] /\ outcome'[p] = "success"
    BY <1>1, <1>3, <1>4, TypeParts DEF Construct, EndCall
  <2>2. object' = [object EXCEPT ![p] = new]
    BY <2>1, StreamsTypeParts DEF ConstructObject, StreamsInv
  <2>3. /\ data[p].segment \in Buffers
        /\ data[p].size = segment[data[p].segment].buffer_size
    BY <1>4, SizesAssumption DEF StreamsInv, RegistryInv, ViewsAreTrue, Buffers
  <2>4. /\ StoredIndex(p) \in Nat
        /\ StoredIndex(p) <= segment[data[p].segment].buffer_size - 1
        /\ StoredIndex(p) \in Indices
    BY <2>3, BufferFacts, ZeroIsIndex DEF StoredIndex, Indices
  <2>5. new \in QueueObjects
    BY <2>4, ZeroIsIndex DEF QueueObjects
  <2> HIDE DEF new
  <2>6. /\ object' \in [Clients -> QueueObjects]
        /\ p \in Clients => object'[p] = new
        /\ \A q \in Clients \ {p} : object'[q] = object[q]
    BY <2>2, <2>5, StreamsTypeParts DEF StreamsInv
  <2>7. /\ stream'[p] = data[p]
        /\ \A q \in Processes \ {p} : stream'[q] = stream[q]
    BY <1>3, <2>1, SetAt
  <2>8. ObjectsFit'
    <3> SUFFICES ASSUME NEW q \in Clients, stream'[q] # NoView
                 PROVE  ObjectFits(q)'
      BY DEF ObjectsFit
    <3>1. CASE q # p
      <4>1. stream'[q] = stream[q] /\ object'[q] = object[q]
        BY <2>6, <2>7, <3>1, ClientsAssumption DEF Clients
      <4>2. ObjectFits(q)
        BY <4>1 DEF StreamsInv, ObjectsFit
      <4> QED BY <1>1, <4>1, <4>2, ObjectStays
    <3>2. CASE q = p
      <4>1. SegmentOf(p)' = data[p].segment /\ SizeOf(p)' = data[p].size
        BY <2>7 DEF SegmentOf, SizeOf
      <4>2. object'[p].index = StoredIndex(p) /\ object'[p].reserved = 0
        BY <2>6, <3>2 DEF new
      <4>3. OwnIndex(p)' = StoredIndex(p)
        BY <1>1, <4>1 DEF OwnIndex, StoredIndex
      <4>4. 0 <= Reservable(p)'
        <5> DEFINE i == data[p].segment
                   n == segment[i].buffer_size
        <5>1. /\ n \in Nat /\ queue[i].write \in 0 .. n - 1
              /\ queue[i].read \in 0 .. n - 1 /\ data[p].size = n
          BY <2>3, BufferFacts
        <5> HIDE DEF n
        <5>2. /\ WriterReservable(queue[i].read, queue[i].write, n) \in Nat
              /\ ReaderReservable(queue[i].read, queue[i].write, n) \in Nat
          <6> DEFINE read == queue[i].read
                     write == queue[i].write
          <6>1. n \in Nat /\ read \in 0 .. n - 1 /\ write \in 0 .. n - 1
            BY <5>1
          <6> HIDE DEF read, write
          <6>2. /\ WriterReservable(read, write, n) \in 0 .. n - 1
                /\ ReaderReservable(read, write, n) \in 0 .. n - 1
            BY ONLY <6>1, ReservableFits
          <6>3. /\ WriterReservable(read, write, n) \in Nat
                /\ ReaderReservable(read, write, n) \in Nat
            BY <6>1, <6>2
          <6> QED BY <6>3 DEF read, write
        <5>3. Reservable(p)' =
                IF p = Writer
                  THEN WriterReservable(queue[i].read, queue[i].write, n)
                  ELSE ReaderReservable(queue[i].read, queue[i].write, n)
          BY <1>1, <4>1, <4>2, <5>1 DEF Reservable, StoredIndex
        <5> QED BY <5>2, <5>3
      <4> QED BY <3>2, <4>2, <4>3, <4>4 DEF ObjectFits
    <3> QED BY <3>1, <3>2
  <2> QED BY <1>1, <1>2, <1>3, <2>6, <2>8, MemoryStays
<1>5. CASE data[p].size \notin MinSize .. MaxSize
  <2>1. UNCHANGED stream /\ outcome'[p] = "invalid_argument"
    BY <1>1, <1>3, <1>5, TypeParts DEF Construct, EndCall
  <2>2. object' = [object EXCEPT ![p] = object[p]]
    BY <2>1 DEF ConstructObject
  <2>3. UNCHANGED object
    BY <2>2, StreamsTypeParts DEF StreamsInv
  <2> QED BY <1>1, <1>2, <2>1, <2>3, ObjectsStay DEF queueVars
<1> QED BY <1>4, <1>5

LEMMA LoseObjectInv ==
  ASSUME StreamsInv, NEW p \in Processes, LoseObject(p)
  PROVE  StreamsInv'
<1>1. /\ Close(p) \/ Crash(p)
      /\ UNCHANGED <<queue, sent, received, written, segment>>
  BY DEF LoseObject, Close, Crash
<1>2. Next /\ SameBuffers
  BY <1>1 DEF Next, SameBuffers, Buffers
<1>3. RegistryInv' /\ RemovesAreCounted' /\ TypeOK
  BY <1>2, RegistryStays
<1>4. stream' = [stream EXCEPT ![p] = NoView]
  BY <1>1 DEF Close, Crash
<1>5. /\ stream'[p] = NoView
      /\ \A q \in Processes \ {p} : stream'[q] = stream[q]
  BY <1>3, <1>4, SetAt
<1>6. NoObject \in QueueObjects
  BY ZeroIsIndex DEF NoObject, QueueObjects
<1>7. /\ object' \in [Clients -> QueueObjects]
      /\ \A q \in Clients \ {p} : object'[q] = object[q]
  BY <1>6, StreamsTypeParts DEF LoseObject, StreamsInv
<1>8. ObjectsFit'
  <2> SUFFICES ASSUME NEW q \in Clients, stream'[q] # NoView
               PROVE  ObjectFits(q)'
    BY DEF ObjectsFit
  <2>1. q # p /\ q \in Processes
    BY <1>5, ClientsAssumption DEF Clients
  <2>2. stream'[q] = stream[q] /\ object'[q] = object[q]
    BY <1>5, <1>7, <2>1
  <2>3. ObjectFits(q)
    BY <2>2 DEF StreamsInv, ObjectsFit
  <2> QED BY <1>1, <2>2, <2>3, ObjectStays
<1> QED BY <1>1, <1>2, <1>3, <1>7, <1>8, MemoryStays
-----------------------------------------------------------------------------
(* Writing and reading.                                                    *)

(* The object of an open stream, in terms of its segment alone.            *)
LEMMA ObjectFacts ==
  ASSUME StreamsInv, NEW p \in Clients, stream[p] # NoView,
         NEW i \in Buffers, SegmentOf(p) = i,
         NEW n \in Nat, segment[i].buffer_size = n
  PROVE  /\ queue[i].read \in 0 .. n - 1 /\ queue[i].write \in 0 .. n - 1
         /\ SizeOf(p) = n /\ n <= MaxSize
         /\ object[p] \in QueueObjects /\ object[p].reserved \in Nat
         /\ object[p].index = IF p = Writer THEN queue[i].write ELSE queue[i].read
         /\ Reservable(p) =
              IF p = Writer
                THEN WriterReservable(queue[i].read, queue[i].write, n)
                ELSE ReaderReservable(queue[i].read, queue[i].write, n)
         /\ Reservable(p) \in 0 .. n - 1
         /\ object[p].reserved <= Reservable(p)
<1>1. /\ queue[i].read \in 0 .. n - 1 /\ queue[i].write \in 0 .. n - 1
      /\ SizeOf(p) = n /\ n <= MaxSize
  BY BufferFacts, ViewFacts
<1>2. object[p] \in QueueObjects
  BY StreamsTypeParts DEF StreamsInv
<1>3. object[p].reserved \in Nat
  BY <1>2, ZeroIsIndex DEF QueueObjects, Indices
<1>4. ObjectFits(p)
  BY DEF StreamsInv, ObjectsFit
<1>5. object[p].index = IF p = Writer THEN queue[i].write ELSE queue[i].read
  BY <1>4 DEF ObjectFits, OwnIndex
<1>6. Reservable(p) =
        IF p = Writer
          THEN WriterReservable(queue[i].read, queue[i].write, n)
          ELSE ReaderReservable(queue[i].read, queue[i].write, n)
  BY <1>1, <1>5 DEF Reservable
<1>7. Reservable(p) \in 0 .. n - 1
  BY <1>1, <1>6, ReservableFits
<1> QED BY <1>1, <1>2, <1>3, <1>4, <1>5, <1>6, <1>7 DEF ObjectFits

LEMMA ReserveInv ==
  ASSUME StreamsInv, NEW p \in Clients, stream[p] # NoView,
         NEW expected_size \in Nat,
         object' = [object EXCEPT ![p].reserved =
                                     Lesser(expected_size, Reservable(p))],
         UNCHANGED <<vars, queue, sent, received, written>>
  PROVE  StreamsInv'
<1> DEFINE i == SegmentOf(p)
           n == segment[i].buffer_size
           r == Lesser(expected_size, Reservable(p))
           o == [index |-> object[p].index, reserved |-> r]
<1>1. i \in Buffers /\ n \in Nat
  BY ViewFacts, BufferFacts
<1>2. /\ n <= MaxSize /\ object[p] \in QueueObjects
      /\ Reservable(p) \in 0 .. n - 1
  BY <1>1, ObjectFacts
<1>3. r \in Indices /\ r <= Reservable(p)
  BY <1>1, <1>2, ZeroIsIndex DEF Lesser, Indices
<1>4. o \in QueueObjects /\ object' = [object EXCEPT ![p] = o]
  <2> HIDE DEF r
  <2>1. o \in QueueObjects
    BY <1>2, <1>3 DEF QueueObjects
  <2>2. [object[p] EXCEPT !.reserved = r] = o
    BY <1>2 DEF QueueObjects
  <2>3. object' = [object EXCEPT ![p] = [object[p] EXCEPT !.reserved = r]]
    BY DEF r
  <2> QED BY <2>1, <2>2, <2>3
<1> HIDE DEF r
<1>5. /\ object' \in [Clients -> QueueObjects] /\ object'[p] = o
      /\ \A q \in Clients \ {p} : object'[q] = object[q]
  BY <1>4, StreamsTypeParts DEF StreamsInv
<1>6. SameBuffers /\ UNCHANGED <<stream, queue, sent, received, written, segment>>
  BY DEF vars, SameBuffers, Buffers
<1>7. RegistryInv' /\ RemovesAreCounted'
  BY RegistryStays
<1>8. ObjectsFit'
  <2> SUFFICES ASSUME NEW q \in Clients, stream[q] # NoView
               PROVE  ObjectFits(q)'
    BY <1>6 DEF ObjectsFit
  <2>1. ObjectFits(q)
    BY DEF StreamsInv, ObjectsFit
  <2>2. CASE q # p
    BY <1>5, <1>6, <2>1, <2>2, ObjectStays
  <2>3. CASE q = p
    <3>1. object'[p].index = object[p].index /\ object'[p].reserved = r
      BY <1>5
    <3>2. OwnIndex(q)' = OwnIndex(q) /\ Reservable(q)' = Reservable(q)
      BY <1>6, <2>3, <3>1 DEF OwnIndex, Reservable, SegmentOf, SizeOf
    <3> QED BY <1>3, <2>1, <2>3, <3>1, <3>2 DEF ObjectFits
  <2> QED BY <2>2, <2>3
<1> QED BY <1>5, <1>6, <1>7, <1>8, MemoryStays

(* A buffer of size n holds s[m + 1] to s[l] from the cell "read" on.      *)
Holds(buffer, read, n, s, m, l) ==
  \A j \in 1 .. l - m : buffer[(read + j - 1) % n] = s[m + j]

(* A step that changes the contents of one segment, and keeps its promise. *)
LEMMA ContentsChange ==
  ASSUME StreamsInv, UNCHANGED vars, NEW i \in Buffers,
         NEW n \in Nat, segment[i].buffer_size = n,
         NEW q \in Queues, queue' = [queue EXCEPT ![i] = q],
         q.write < n, q.read < n,
         NEW s \in History, sent' = [sent EXCEPT ![i] = s],
         NEW r \in History, received' = [received EXCEPT ![i] = r],
         IsBeginning(r, s),
         Len(s) - Len(r) = ReaderAvailable(q.read, q.write, n),
         Holds(q.buffer, q.read, n, s, Len(r), Len(s)),
         written' \in 0 .. MaxBytes,
         object' \in [Clients -> QueueObjects], ObjectsFit'
  PROVE  StreamsInv'
<1>1. /\ RegistryInv' /\ RemovesAreCounted' /\ TypeOK'
      /\ UNCHANGED <<segment, stream>> /\ Buffers' = Buffers
  BY RegistryStays DEF vars, RegistryInv, Buffers
<1>2. i \in Segments
  BY BufferFacts
<1>3. /\ queue' \in [Segments -> Queues] /\ queue'[i] = q
      /\ sent' \in [Segments -> History] /\ sent'[i] = s
      /\ received' \in [Segments -> History] /\ received'[i] = r
  BY <1>2, StreamsTypeParts DEF StreamsInv
<1>4. \A j \in Segments \ {i} :
        queue'[j] = queue[j] /\ sent'[j] = sent[j] /\ received'[j] = received[j]
  BY StreamsTypeParts DEF StreamsInv
<1>5. StreamsTypeOK'
  BY <1>1, <1>3, StreamsTypeParts
     DEF StreamsTypeOK, Queues, QueueObjects, History, Indices
<1>6. OthersAreEmpty'
  BY <1>1, <1>4 DEF StreamsInv, OthersAreEmpty
<1>7. \A j \in Buffers : j \in Segments
  BY BufferFacts
<1>8. IndicesFit'
  <2> SUFFICES ASSUME NEW j \in Buffers
               PROVE  /\ queue'[j].write < segment[j].buffer_size
                      /\ queue'[j].read < segment[j].buffer_size
    BY <1>1 DEF IndicesFit
  <2>1. CASE j = i
    BY <1>3, <2>1
  <2>2. CASE j # i
    BY <1>4, <1>7, <2>2 DEF StreamsInv, IndicesFit
  <2> QED BY <2>1, <2>2
<1>9. ReadInOrder'
  <2> SUFFICES ASSUME NEW j \in Segments
               PROVE  IsBeginning(received'[j], sent'[j])
    BY DEF ReadInOrder, IsBeginning
  <2>1. CASE j = i
    BY <1>3, <2>1
  <2>2. CASE j # i
    BY <1>4, <2>2 DEF StreamsInv, ReadInOrder
  <2> QED BY <2>1, <2>2
<1>10. UnreadBytesAreThere'
  <2> SUFFICES ASSUME NEW j \in Buffers
               PROVE  /\ Unread(j)' = ReaderAvailable(queue'[j].read,
                                         queue'[j].write, segment[j].buffer_size)
                      /\ \A k \in 1 .. Unread(j)' :
                           queue'[j].buffer[UnreadCell(j, k)'] =
                             sent'[j][Len(received'[j]) + k]
    BY <1>1 DEF UnreadBytesAreThere
  <2>1. CASE j = i
    BY <1>1, <1>3, <2>1 DEF Holds, Unread, UnreadCell
  <2>2. CASE j # i
    <3>1. /\ queue'[j] = queue[j] /\ sent'[j] = sent[j]
          /\ received'[j] = received[j]
      BY <1>4, <1>7, <2>2
    <3>2. /\ Unread(j)' = Unread(j)
          /\ \A k \in 1 .. Unread(j) : UnreadCell(j, k)' = UnreadCell(j, k)
      BY <1>1, <3>1 DEF Unread, UnreadCell
    <3>3. /\ Unread(j) = ReaderAvailable(queue[j].read, queue[j].write,
                                         segment[j].buffer_size)
          /\ \A k \in 1 .. Unread(j) :
               queue[j].buffer[UnreadCell(j, k)] = sent[j][Len(received[j]) + k]
      BY DEF StreamsInv, UnreadBytesAreThere
    <3> QED BY <3>1, <3>2, <3>3
  <2> QED BY <2>1, <2>2
<1> QED BY <1>1, <1>5, <1>6, <1>8, <1>9, <1>10 DEF StreamsInv

(* The object of a client after its commit, and that of the other one.     *)
LEMMA ObjectsCommit ==
  ASSUME StreamsInv, UNCHANGED vars, NEW p \in Clients, stream[p] # NoView,
         NEW i \in Buffers, SegmentOf(p) = i,
         NEW n \in Nat, segment[i].buffer_size = n,
         NEW q \in Queues, queue' = [queue EXCEPT ![i] = q],
         q.write \in 0 .. n - 1, q.read \in 0 .. n - 1,
         object' = [object EXCEPT ![p] = [index |-> IF p = Writer THEN q.write
                                                                 ELSE q.read,
                                          reserved |-> 0]],
         IF p = Writer
           THEN /\ q.read = queue[i].read
                /\ ReaderReservable(queue[i].read, queue[i].write, n) <=
                     ReaderReservable(q.read, q.write, n)
           ELSE /\ q.write = queue[i].write
                /\ WriterReservable(queue[i].read, queue[i].write, n) <=
                     WriterReservable(q.read, q.write, n)
  PROVE  object' \in [Clients -> QueueObjects] /\ ObjectsFit'
<1> DEFINE x == IF p = Writer THEN q.write ELSE q.read
           o == [index |-> x, reserved |-> 0]
<1>1. n <= MaxSize /\ i \in Segments
  BY BufferFacts
<1>2. x \in Indices
  BY <1>1, ZeroIsIndex DEF Indices
<1>3. o \in QueueObjects /\ o.index = x /\ o.reserved = 0
  BY <1>2, ZeroIsIndex DEF QueueObjects
<1>4. object' = [object EXCEPT ![p] = o]
  OBVIOUS
<1> HIDE DEF o
<1>5. /\ object' \in [Clients -> QueueObjects] /\ object'[p] = o
      /\ \A c \in Clients \ {p} : object'[c] = object[c]
  BY <1>3, <1>4, StreamsTypeParts DEF StreamsInv
<1>6. /\ queue'[i] = q /\ \A j \in Segments \ {i} : queue'[j] = queue[j]
      /\ UNCHANGED <<stream, segment>>
  BY <1>1, StreamsTypeParts DEF StreamsInv, vars
<1>7. ASSUME NEW c \in Clients, stream[c] # NoView PROVE ObjectFits(c)'
  <2>1. ObjectFits(c) /\ SegmentOf(c) \in Buffers /\ SegmentOf(c) \in Segments
    BY <1>7, ViewFacts, BufferFacts DEF StreamsInv, ObjectsFit
  <2>2. SegmentOf(c)' = SegmentOf(c) /\ SizeOf(c)' = SizeOf(c)
    BY <1>6 DEF SegmentOf, SizeOf
  <2>3. CASE SegmentOf(c) # i
    <3>1. c # p
      BY <2>3
    <3> QED BY <1>5, <1>6, <2>1, <2>3, <3>1, ObjectStays
  <2>4. CASE SegmentOf(c) = i
    <3>1. /\ SizeOf(c) = n /\ object[c].reserved \in Nat
          /\ object[c].reserved <= Reservable(c)
          /\ object[c].index = IF c = Writer THEN queue[i].write ELSE queue[i].read
          /\ Reservable(c) =
               IF c = Writer
                 THEN WriterReservable(queue[i].read, queue[i].write, n)
                 ELSE ReaderReservable(queue[i].read, queue[i].write, n)
          /\ queue[i].read \in 0 .. n - 1 /\ queue[i].write \in 0 .. n - 1
      BY <1>7, <2>4, ObjectFacts
    <3>2. /\ WriterReservable(q.read, q.write, n) \in Nat
          /\ ReaderReservable(q.read, q.write, n) \in Nat
          /\ WriterReservable(queue[i].read, queue[i].write, n) \in Nat
          /\ ReaderReservable(queue[i].read, queue[i].write, n) \in Nat
      <4>1. /\ WriterReservable(q.read, q.write, n) \in 0 .. n - 1
            /\ ReaderReservable(q.read, q.write, n) \in 0 .. n - 1
        BY ReservableFits
      <4>2. /\ WriterReservable(queue[i].read, queue[i].write, n) \in 0 .. n - 1
            /\ ReaderReservable(queue[i].read, queue[i].write, n) \in 0 .. n - 1
        BY <3>1, ReservableFits
      <4> QED BY <4>1, <4>2
    <3>3. OwnIndex(c)' = IF c = Writer THEN q.write ELSE q.read
      BY <1>6, <2>2, <2>4 DEF OwnIndex
    <3>4. object'[c].index = OwnIndex(c)'
      BY <1>3, <1>5, <3>1, <3>3 DEF Clients
    <3>5. Reservable(c)' =
            IF c = Writer THEN WriterReservable(q.read, q.write, n)
                          ELSE ReaderReservable(q.read, q.write, n)
      BY <1>6, <2>2, <2>4, <3>1, <3>3, <3>4 DEF Reservable
    <3>6. CASE c = p
      BY <1>3, <1>5, <3>2, <3>4, <3>5, <3>6 DEF ObjectFits
    <3>7. CASE c # p
      <4>1. object'[c] = object[c]
        BY <1>5, <3>7
      <4>2. Reservable(c) <= Reservable(c)' /\ Reservable(c) \in Nat
            /\ Reservable(c)' \in Nat
        BY <3>1, <3>2, <3>5, <3>7 DEF Clients
      <4> QED BY <3>1, <3>4, <4>1, <4>2 DEF ObjectFits
    <3> QED BY <3>6, <3>7
  <2> QED BY <2>3, <2>4
<1> QED BY <1>5, <1>6, <1>7 DEF ObjectsFit

LEMMA FunctionsAreSequences ==
  ASSUME NEW k \in Nat, NEW S, NEW f \in [1 .. k -> S]
  PROVE  f \in Seq(S) /\ Len(f) = k
<1>1. f \in Seq(S)
  OBVIOUS
<1> QED BY <1>1

LEMMA Appended ==
  ASSUME NEW S, NEW a \in Seq(S), NEW b \in Seq(S)
  PROVE  /\ a \o b \in Seq(S) /\ Len(a \o b) = Len(a) + Len(b)
         /\ \A j \in 1 .. Len(a) : (a \o b)[j] = a[j]
         /\ \A j \in 1 .. Len(b) : (a \o b)[Len(a) + j] = b[j]
<1> DEFINE t == a \o b
<1>1. Len(a) \in Nat /\ Len(b) \in Nat
  BY LenProperties
<1>2. /\ t \in Seq(S) /\ Len(t) = Len(a) + Len(b)
      /\ \A j \in 1 .. Len(a) + Len(b) :
           t[j] = IF j <= Len(a) THEN a[j] ELSE b[j - Len(a)]
  BY ConcatProperties
<1> HIDE DEF t
<1>3. ASSUME NEW j \in 1 .. Len(a) PROVE t[j] = a[j]
  BY <1>1, <1>2
<1>4. ASSUME NEW j \in 1 .. Len(b) PROVE t[Len(a) + j] = b[j]
  <2>1. /\ Len(a) + j \in 1 .. Len(a) + Len(b)
        /\ ~ Len(a) + j <= Len(a) /\ Len(a) + j - Len(a) = j
    BY <1>1
  <2> QED BY <1>2, <2>1
<1> QED BY <1>2, <1>3, <1>4 DEF t

LEMMA NewBytesAre ==
  ASSUME NEW k \in Nat, written \in Nat, written + k <= MaxBytes
  PROVE  /\ NewBytes(k) \in History /\ Len(NewBytes(k)) = k
         /\ \A j \in 1 .. k : NewBytes(k)[j] = written + j
                             /\ written + j \in 0 .. MaxBytes
<1>1. \A j \in 1 .. k : written + j \in 1 .. MaxBytes
  BY MaxBytesAssumption
<1>2. NewBytes(k) \in [1 .. k -> 1 .. MaxBytes]
  BY <1>1 DEF NewBytes
<1>3. NewBytes(k) \in History /\ Len(NewBytes(k)) = k
  BY <1>2, FunctionsAreSequences DEF History
<1>4. \A j \in 1 .. k : NewBytes(k)[j] = written + j
  BY DEF NewBytes
<1> QED BY <1>1, <1>3, <1>4, MaxBytesAssumption

(* From one buffer, and from one history, to the next in a commit.         *)
WritesTo(before, after, first, k) ==
  \A c \in 0 .. MaxSize :
    after[c] = IF c \in first .. first + k - 1 THEN written + (c - first + 1)
                                               ELSE before[c]
AppendsTo(s, t, l, k) ==
  (\A j \in 1 .. l : t[j] = s[j]) /\ (\A j \in 1 .. k : t[l + j] = written + j)

LEMMA FilledIs ==
  ASSUME NEW buffer \in [0 .. MaxSize -> 0 .. MaxBytes], NEW first \in Nat,
         NEW k \in Nat, written \in Nat, written + k <= MaxBytes
  PROVE  /\ Filled(buffer, first, k) \in [0 .. MaxSize -> 0 .. MaxBytes]
         /\ WritesTo(buffer, Filled(buffer, first, k), first, k)
<1>1. ASSUME NEW c \in 0 .. MaxSize, c \in first .. first + k - 1
      PROVE  /\ NewBytes(k)[c - first + 1] = written + (c - first + 1)
             /\ NewBytes(k)[c - first + 1] \in 0 .. MaxBytes
  <2>1. c - first + 1 \in 1 .. k
    BY <1>1, ZeroIsIndex
  <2> QED BY <2>1, NewBytesAre
<1> QED BY <1>1 DEF Filled, WritesTo

(* The bytes written follow those that were there, and cover none of them. *)
LEMMA BytesAreWritten ==
  ASSUME NEW n \in Nat, n <= MaxSize, written \in Nat,
         NEW read \in 0 .. n - 1, NEW first \in 0 .. n - 1,
         NEW k \in Nat, k <= WriterReservable(read, first, n),
         NEW before, NEW after, WritesTo(before, after, first, k),
         NEW s, NEW t, NEW m \in Nat, NEW l \in Nat, AppendsTo(s, t, l, k),
         l - m = ReaderAvailable(read, first, n),
         Holds(before, read, n, s, m, l)
  PROVE  Holds(after, read, n, t, m, l + k)
<1> DEFINE old == ReaderAvailable(read, first, n)
           free == WriterReservable(read, first, n)
<1>1. old \in 0 .. n - 1 /\ free \in 0 .. n - 1 /\ first + free <= n
  BY ReservableFits
<1>2. l = m + old /\ k <= free /\ MaxSize \in Nat
  BY <1>1, ZeroIsIndex
<1>3. \A j \in Nat :
        /\ j < old => /\ (read + j) % n \in 0 .. n - 1
                      /\ (read + j) % n \notin first .. first + free - 1
        /\ j < free => (read + (old + j)) % n = first + j
  BY CellsOfUnread
<1> HIDE DEF old, free
<1> SUFFICES ASSUME NEW j \in 1 .. l + k - m
             PROVE  after[(read + j - 1) % n] = t[m + j]
  BY DEF Holds
<1>4. j \in 1 .. old + k
  BY <1>1, <1>2
<1>5. CASE j <= old
  <2> DEFINE c == (read + j - 1) % n
  <2>1. j - 1 \in Nat /\ j - 1 < old /\ read + j - 1 = read + (j - 1)
    BY <1>1, <1>4, <1>5
  <2>2. c \in 0 .. n - 1 /\ c \notin first .. first + free - 1
    BY <1>3, <2>1
  <2>3. before[c] = s[m + j] /\ t[m + j] = s[m + j]
    <3>1. j \in 1 .. l - m /\ m + j \in 1 .. l
      BY <1>1, <1>2, <1>4, <1>5
    <3> QED BY <3>1 DEF Holds, AppendsTo
  <2> HIDE DEF c
  <2>4. c \in 0 .. MaxSize /\ c \notin first .. first + k - 1
    BY <1>1, <1>2, <2>2
  <2>5. after[c] = before[c]
    BY <2>4 DEF WritesTo
  <2> QED BY <2>3, <2>5 DEF c
<1>6. CASE j > old
  <2> DEFINE x == j - old - 1
  <2>1. /\ x \in Nat /\ x < k /\ x < free /\ x + 1 \in 1 .. k
        /\ read + j - 1 = read + (old + x) /\ m + j = l + (x + 1)
    BY <1>1, <1>2, <1>4, <1>6
  <2> HIDE DEF x
  <2>2. (read + j - 1) % n = first + x
    BY <1>3, <2>1
  <2>3. /\ first + x \in 0 .. MaxSize /\ first + x \in first .. first + k - 1
        /\ first + x - first + 1 = x + 1
    BY <1>1, <1>2, <2>1
  <2>4. after[first + x] = written + (x + 1)
    <3> DEFINE y == first + x
    <3>1. y \in 0 .. MaxSize /\ y \in first .. first + k - 1 /\ y - first + 1 = x + 1
      BY <1>1, <1>2, <2>1, <2>3
    <3> HIDE DEF y
    <3>2. after[y] = written + (y - first + 1)
      BY <3>1 DEF WritesTo
    <3> QED BY <3>1, <3>2 DEF y
  <2>5. t[m + j] = written + (x + 1)
    BY <2>1 DEF AppendsTo
  <2> QED BY <2>2, <2>4, <2>5
<1> QED BY <1>1, <1>4, <1>5, <1>6

LEMMA WriterCommitInv ==
  ASSUME StreamsInv, NEW k \in Nat, WriterCommit(k)
  PROVE  StreamsInv'
<1> DEFINE i == SegmentOf(Writer)
           n == segment[i].buffer_size
           read == queue[i].read
           first == queue[i].write
           next == Advance(first, k, n)
           filled == Filled(queue[i].buffer, first, k)
           q == [write |-> next, read |-> read, buffer |-> filled]
           s == sent[i] \o NewBytes(k)
           r == received[i]
<1> HIDE DEF n, read, first, next, filled, s, r
<1>1. /\ Writer \in Clients /\ stream[Writer] # NoView
      /\ k \in 1 .. object[Writer].reserved /\ UNCHANGED <<vars, received>>
      /\ written' = written + k /\ written' <= MaxBytes
  BY DEF WriterCommit, CanUse, Clients
<1>2. i \in Buffers /\ i \in Segments /\ n \in Nat /\ n <= MaxSize
  BY <1>1, ViewFacts, BufferFacts DEF n
<1>3. /\ read \in 0 .. n - 1 /\ first \in 0 .. n - 1 /\ SizeOf(Writer) = n
      /\ object[Writer].index = first
      /\ object[Writer].reserved \in Nat
      /\ object[Writer].reserved <= WriterReservable(read, first, n)
  BY <1>1, <1>2, ObjectFacts DEF n, read, first
<1>4. k <= WriterReservable(read, first, n) /\ first + k <= n
  <2>1. WriterReservable(read, first, n) \in 0 .. n - 1
        /\ first + WriterReservable(read, first, n) <= n
    BY <1>2, <1>3, ReservableFits
  <2> QED BY <1>1, <1>2, <1>3, <2>1
<1>5. /\ next \in 0 .. n - 1
      /\ ReaderAvailable(read, next, n) = ReaderAvailable(read, first, n) + k
      /\ ReaderReservable(read, first, n) <= ReaderReservable(read, next, n)
  BY <1>2, <1>3, <1>4, WriterAdvances DEF next
<1>6. /\ queue[i] \in Queues /\ sent[i] \in History /\ r \in History
      /\ queue[i].buffer \in [0 .. MaxSize -> 0 .. MaxBytes]
      /\ Len(sent[i]) \in Nat /\ Len(r) \in Nat
  BY <1>2, QueueFacts DEF StreamsInv, r
<1>7. written \in Nat /\ written + k <= MaxBytes
  BY <1>1, StreamsTypeParts, MaxBytesAssumption DEF StreamsInv
<1>8. /\ NewBytes(k) \in History /\ Len(NewBytes(k)) = k
      /\ \A j \in 1 .. k : NewBytes(k)[j] = written + j
  BY <1>7, NewBytesAre
<1>9. /\ filled \in [0 .. MaxSize -> 0 .. MaxBytes]
      /\ WritesTo(queue[i].buffer, filled, first, k)
  <2>1. first \in Nat
    BY <1>2, <1>3
  <2> QED BY <1>6, <1>7, <2>1, FilledIs DEF filled
<1>10. /\ s \in History /\ Len(s) = Len(sent[i]) + k
       /\ AppendsTo(sent[i], s, Len(sent[i]), k)
  <2>1. /\ s \in History /\ Len(s) = Len(sent[i]) + Len(NewBytes(k))
        /\ \A j \in 1 .. Len(sent[i]) : s[j] = sent[i][j]
        /\ \A j \in 1 .. Len(NewBytes(k)) :
             s[Len(sent[i]) + j] = NewBytes(k)[j]
    <3>1. sent[i] \in Seq(1 .. MaxBytes) /\ NewBytes(k) \in Seq(1 .. MaxBytes)
      BY <1>6, <1>8 DEF History
    <3> DEFINE t == sent[i] \o NewBytes(k)
    <3>2. /\ t \in Seq(1 .. MaxBytes) /\ Len(t) = Len(sent[i]) + Len(NewBytes(k))
          /\ \A j \in 1 .. Len(sent[i]) : t[j] = sent[i][j]
          /\ \A j \in 1 .. Len(NewBytes(k)) : t[Len(sent[i]) + j] = NewBytes(k)[j]
      BY ONLY <3>1, Appended
    <3> QED BY <3>2 DEF History, s
  <2> QED BY <1>8, <2>1 DEF AppendsTo
<1>11. q \in Queues
  <2>1. next \in Indices /\ read \in Indices
    BY <1>2, <1>3, <1>5, ZeroIsIndex DEF Indices
  <2> QED BY <1>9, <2>1 DEF Queues
<1>12. /\ queue' = [queue EXCEPT ![i] = q] /\ sent' = [sent EXCEPT ![i] = s]
       /\ object' = [object EXCEPT ![Writer] = [index |-> next, reserved |-> 0]]
  <2>1. [queue[i] EXCEPT !.write = next, !.buffer = filled] = q
    BY <1>6, QueueSet DEF read
  <2>2. /\ queue' = [queue EXCEPT ![i] =
                       [queue[i] EXCEPT !.write = next, !.buffer = filled]]
        /\ sent' = [sent EXCEPT ![i] = s]
        /\ object' = [object EXCEPT ![Writer] =
                        [index |-> next, reserved |-> 0]]
    BY <1>3 DEF WriterCommit, first, next, filled, s, n
  <2> QED BY <2>1, <2>2
<1>13. received' = [received EXCEPT ![i] = r]
  BY <1>1, StreamsTypeParts DEF StreamsInv, r
<1>14. q.write = next /\ q.read = read /\ q.buffer = filled
  OBVIOUS
<1>15. object' \in [Clients -> QueueObjects] /\ ObjectsFit'
  <2> HIDE DEF q
  <2> QED
    BY <1>1, <1>2, <1>3, <1>5, <1>11, <1>12, <1>14, ObjectsCommit
       DEF n, read, first
<1>16. /\ IsBeginning(r, sent[i])
       /\ Len(sent[i]) - Len(r) = ReaderAvailable(read, first, n)
       /\ Holds(queue[i].buffer, read, n, sent[i], Len(r), Len(sent[i]))
  BY <1>2 DEF StreamsInv, ReadInOrder, UnreadBytesAreThere, Unread, UnreadCell,
              Holds, n, read, first, r
<1>17. /\ IsBeginning(r, s)
       /\ Len(s) - Len(r) = ReaderAvailable(read, next, n)
  <2>1. Len(s) - Len(r) = (Len(sent[i]) - Len(r)) + k /\ Len(r) <= Len(s)
    BY <1>6, <1>10, <1>16 DEF IsBeginning
  <2>2. \A j \in 1 .. Len(r) : j \in 1 .. Len(sent[i])
    BY <1>6, <1>16 DEF IsBeginning
  <2>3. IsBeginning(r, s)
    BY <1>10, <1>16, <2>1, <2>2 DEF IsBeginning, AppendsTo
  <2> QED BY <1>5, <1>16, <2>1, <2>3
<1>18. Holds(filled, read, n, s, Len(r), Len(s))
  BY <1>2, <1>3, <1>4, <1>6, <1>7, <1>9, <1>10, <1>16, BytesAreWritten
<1>19. written' \in 0 .. MaxBytes
  BY <1>1, <1>7, MaxBytesAssumption
<1>20. UNCHANGED vars /\ segment[i].buffer_size = n
  BY <1>1 DEF n
<1>21. q.write < n /\ q.read < n
  BY <1>2, <1>3, <1>5, <1>14
<1> HIDE DEF q
<1>22. /\ Len(s) - Len(r) = ReaderAvailable(q.read, q.write, n)
       /\ Holds(q.buffer, q.read, n, s, Len(r), Len(s))
  BY <1>14, <1>17, <1>18
<1>23. r \in History /\ s \in History /\ IsBeginning(r, s)
  BY <1>6, <1>10, <1>17
<1> QED
  BY <1>2, <1>11, <1>12, <1>13, <1>15, <1>19, <1>20, <1>21, <1>22, <1>23,
     ContentsChange

(* The bytes read are the next ones, and the rest stays unread.            *)
LEMMA BytesAreRead ==
  ASSUME NEW n \in Nat, NEW read \in 0 .. n - 1, NEW write \in 0 .. n - 1,
         NEW k \in Nat, k <= ReaderReservable(read, write, n),
         NEW buffer, NEW s, NEW m \in Nat, NEW l \in Nat,
         l - m = ReaderAvailable(read, write, n),
         Holds(buffer, read, n, s, m, l)
  PROVE  /\ \A j \in 1 .. k : buffer[read + j - 1] = s[m + j]
         /\ Holds(buffer, Advance(read, k, n), n, s, m + k, l)
<1> DEFINE all == ReaderAvailable(read, write, n)
           run == ReaderReservable(read, write, n)
           next == Advance(read, k, n)
<1>1. all \in 0 .. n - 1 /\ run \in 0 .. n - 1 /\ run <= all /\ l = m + all
  BY ReservableFits
<1>2. \A j \in Nat : j < run => (read + j) % n = read + j
  BY CellsOfUnread
<1>3. \A j \in Nat : k + j < all => (next + j) % n = (read + (k + j)) % n
  BY CellsAfterCommit
<1>4. next \in 0 .. n - 1
  BY ReaderAdvances
<1> HIDE DEF all, run, next
<1>5. ASSUME NEW j \in 1 .. k PROVE buffer[read + j - 1] = s[m + j]
  <2>1. /\ j - 1 \in Nat /\ j - 1 < run /\ read + j - 1 = read + (j - 1)
        /\ j \in 1 .. l - m
    BY <1>1, <1>5 DEF run
  <2>2. (read + j - 1) % n = read + j - 1
    BY <1>2, <2>1
  <2> QED BY <2>1, <2>2 DEF Holds
<1>6. ASSUME NEW j \in 1 .. l - (m + k)
      PROVE  buffer[(next + j - 1) % n] = s[m + k + j]
  <2>1. /\ j - 1 \in Nat /\ k + (j - 1) < all /\ k + j \in 1 .. l - m
        /\ next + j - 1 = next + (j - 1) /\ m + k + j = m + (k + j)
        /\ read + (k + j) - 1 = read + (k + (j - 1))
    BY <1>1, <1>4, <1>6
  <2>2. (next + j - 1) % n = (read + (k + j) - 1) % n
    BY <1>3, <2>1
  <2>3. buffer[(read + (k + j) - 1) % n] = s[m + (k + j)]
    BY <2>1 DEF Holds
  <2> QED BY <2>1, <2>2, <2>3
<1> QED BY <1>5, <1>6 DEF Holds, next

LEMMA ReaderCommitInv ==
  ASSUME StreamsInv, NEW k \in Nat, ReaderCommit(k)
  PROVE  StreamsInv'
<1> DEFINE i == SegmentOf(Reader)
           n == segment[i].buffer_size
           write == queue[i].write
           first == queue[i].read
           buffer == queue[i].buffer
           next == Advance(first, k, n)
           q == [write |-> write, read |-> next, buffer |-> buffer]
           taken == [j \in 1 .. k |-> buffer[first + j - 1]]
           r == received[i] \o taken
           s == sent[i]
<1> HIDE DEF n, write, first, buffer, next, taken, s, r
<1>1. /\ Reader \in Clients /\ stream[Reader] # NoView /\ Reader # Writer
      /\ k \in 1 .. object[Reader].reserved /\ UNCHANGED <<vars, sent, written>>
  BY ClientsAssumption DEF ReaderCommit, CanUse, Clients
<1>2. i \in Buffers /\ i \in Segments /\ n \in Nat /\ n <= MaxSize
  BY <1>1, ViewFacts, BufferFacts DEF n
<1>3. /\ write \in 0 .. n - 1 /\ first \in 0 .. n - 1 /\ SizeOf(Reader) = n
      /\ object[Reader].index = first
      /\ object[Reader].reserved \in Nat
      /\ object[Reader].reserved <= ReaderReservable(first, write, n)
  BY <1>1, <1>2, ObjectFacts DEF n, write, first
<1>4. /\ k <= ReaderReservable(first, write, n)
      /\ k <= ReaderAvailable(first, write, n)
      /\ ReaderAvailable(first, write, n) \in Nat
  <2>1. /\ ReaderReservable(first, write, n) \in 0 .. n - 1
        /\ ReaderAvailable(first, write, n) \in 0 .. n - 1
        /\ ReaderReservable(first, write, n) <= ReaderAvailable(first, write, n)
    BY <1>2, <1>3, ReservableFits
  <2> QED BY <1>1, <1>2, <1>3, <2>1
<1>5. /\ next \in 0 .. n - 1
      /\ ReaderAvailable(next, write, n) = ReaderAvailable(first, write, n) - k
      /\ WriterReservable(first, write, n) <= WriterReservable(next, write, n)
  BY <1>2, <1>3, <1>4, ReaderAdvances DEF next
<1>6. /\ queue[i] \in Queues /\ s \in History /\ received[i] \in History
      /\ buffer \in [0 .. MaxSize -> 0 .. MaxBytes]
      /\ Len(s) \in Nat /\ Len(received[i]) \in Nat
  BY <1>2, QueueFacts DEF StreamsInv, s, buffer
<1>7. /\ IsBeginning(received[i], s)
      /\ Len(s) - Len(received[i]) = ReaderAvailable(first, write, n)
      /\ Holds(buffer, first, n, s, Len(received[i]), Len(s))
  BY <1>2 DEF StreamsInv, ReadInOrder, UnreadBytesAreThere, Unread, UnreadCell,
              Holds, n, write, first, buffer, s
<1>8. /\ \A j \in 1 .. k : buffer[first + j - 1] = s[Len(received[i]) + j]
      /\ Holds(buffer, next, n, s, Len(received[i]) + k, Len(s))
  <2> DEFINE m == Len(received[i])
             l == Len(s)
  <2> HIDE DEF m, l
  <2>1. /\ m \in Nat /\ l \in Nat /\ l - m = ReaderAvailable(first, write, n)
        /\ Holds(buffer, first, n, s, m, l)
    BY <1>6, <1>7 DEF m, l
  <2>2. n \in Nat /\ first \in 0 .. n - 1 /\ write \in 0 .. n - 1
    BY <1>2, <1>3
  <2>3. k \in Nat /\ k <= ReaderReservable(first, write, n)
    BY <1>4
  <2>4. /\ \A j \in 1 .. k : buffer[first + j - 1] = s[m + j]
        /\ Holds(buffer, Advance(first, k, n), n, s, m + k, l)
    BY ONLY <2>1, <2>2, <2>3, BytesAreRead
  <2> QED BY <2>4 DEF m, l, next
<1>9. /\ taken \in History /\ Len(taken) = k
      /\ \A j \in 1 .. k : taken[j] = s[Len(received[i]) + j]
  <2>1. ASSUME NEW j \in 1 .. k
        PROVE  /\ taken[j] = s[Len(received[i]) + j]
               /\ taken[j] \in 1 .. MaxBytes
    <3>1. taken[j] = s[Len(received[i]) + j]
      BY <1>8 DEF taken
    <3>2. Len(received[i]) + j \in 1 .. Len(s)
      BY <1>4, <1>6, <1>7
    <3>3. s[Len(received[i]) + j] \in 1 .. MaxBytes
      BY <1>6, <3>2, ElementOfSeq DEF History
    <3> QED BY <3>1, <3>3
  <2>2. taken \in [1 .. k -> 1 .. MaxBytes]
    BY <2>1 DEF taken
  <2> QED BY <2>1, <2>2, FunctionsAreSequences DEF History
<1>10. /\ r \in History /\ Len(r) = Len(received[i]) + k
       /\ \A j \in 1 .. Len(received[i]) : r[j] = received[i][j]
       /\ \A j \in 1 .. k : r[Len(received[i]) + j] = taken[j]
  <2>1. /\ r \in History /\ Len(r) = Len(received[i]) + Len(taken)
        /\ \A j \in 1 .. Len(received[i]) : r[j] = received[i][j]
        /\ \A j \in 1 .. Len(taken) : r[Len(received[i]) + j] = taken[j]
    <3>1. received[i] \in Seq(1 .. MaxBytes) /\ taken \in Seq(1 .. MaxBytes)
      BY <1>6, <1>9 DEF History
    <3> DEFINE t == received[i] \o taken
    <3>2. /\ t \in Seq(1 .. MaxBytes) /\ Len(t) = Len(received[i]) + Len(taken)
          /\ \A j \in 1 .. Len(received[i]) : t[j] = received[i][j]
          /\ \A j \in 1 .. Len(taken) : t[Len(received[i]) + j] = taken[j]
      BY ONLY <3>1, Appended
    <3> QED BY <3>2 DEF History, r
  <2> QED BY <1>9, <2>1
<1>11. q \in Queues /\ q.write = write /\ q.read = next /\ q.buffer = buffer
  <2>1. next \in Indices /\ write \in Indices
    BY <1>2, <1>3, <1>5, ZeroIsIndex DEF Indices
  <2> QED BY <1>6, <2>1 DEF Queues
<1>12. /\ queue' = [queue EXCEPT ![i] = q]
       /\ received' = [received EXCEPT ![i] = r]
       /\ object' = [object EXCEPT ![Reader] = [index |-> next, reserved |-> 0]]
  <2>1. [queue[i] EXCEPT !.read = next] = q
    BY <1>6, QueueSet DEF write, buffer
  <2>2. /\ queue' = [queue EXCEPT ![i] = [queue[i] EXCEPT !.read = next]]
        /\ received' = [received EXCEPT ![i] = r]
        /\ object' = [object EXCEPT ![Reader] =
                        [index |-> next, reserved |-> 0]]
    BY <1>3 DEF ReaderCommit, first, next, buffer, taken, r, n
  <2> QED BY <2>1, <2>2
<1>13. sent' = [sent EXCEPT ![i] = s]
  BY <1>1, StreamsTypeParts DEF StreamsInv, s
<1>14. UNCHANGED vars /\ segment[i].buffer_size = n
  BY <1>1 DEF n
<1>15. q.write < n /\ q.read < n
  BY <1>2, <1>3, <1>5, <1>11
<1> HIDE DEF q
<1>16. object' \in [Clients -> QueueObjects] /\ ObjectsFit'
  BY <1>1, <1>2, <1>3, <1>5, <1>11, <1>12, <1>14, ObjectsCommit
     DEF write, first
<1>17. Len(s) - Len(r) = ReaderAvailable(q.read, q.write, n)
  BY <1>5, <1>6, <1>7, <1>10, <1>11
<1>18. Holds(q.buffer, q.read, n, s, Len(r), Len(s))
  BY <1>8, <1>10, <1>11
<1>19. IsBeginning(r, s)
  <2>1. Len(r) <= Len(s) /\ Len(r) \in Nat
    BY <1>4, <1>6, <1>7, <1>10
  <2>2. ASSUME NEW j \in 1 .. Len(r) PROVE r[j] = s[j]
    <3>1. CASE j <= Len(received[i])
      <4>1. j \in 1 .. Len(received[i])
        BY <1>6, <3>1
      <4> QED BY <1>7, <1>10, <4>1 DEF IsBeginning
    <3>2. CASE j > Len(received[i])
      <4> DEFINE x == j - Len(received[i])
      <4>1. x \in 1 .. k /\ j = Len(received[i]) + x
        BY <1>6, <1>10, <3>2
      <4> HIDE DEF x
      <4> QED BY <1>9, <1>10, <4>1
    <3> QED BY <1>6, <3>1, <3>2
  <2> QED BY <2>1, <2>2 DEF IsBeginning
<1>20. written' \in 0 .. MaxBytes
  BY <1>1, StreamsTypeParts DEF StreamsInv
<1> QED
  BY <1>2, <1>6, <1>10, <1>11, <1>12, <1>13, <1>14, <1>15, <1>16, <1>17, <1>18,
     <1>19, <1>20, ContentsChange
-----------------------------------------------------------------------------
(* The invariant.                                                          *)

(* The sizes and numbers that the clients' calls range over.               *)
LEMMA SizesAreNatural ==
  (\A n \in ExpectedSizes : n \in Nat) /\ (\A n \in 1 .. MaxSize : n \in Nat)
BY ZeroIsIndex DEF ExpectedSizes

(* A step of either client's object leaves the registry as it is.          *)
LEMMA NextStreamsInv == StreamsInv /\ [StreamsNext]_streamsVars => StreamsInv'
<1> SUFFICES ASSUME StreamsInv, [StreamsNext]_streamsVars PROVE StreamsInv'
  OBVIOUS
<1>1. CASE \E p \in Processes : RegistryNext(p)
  BY <1>1, BeginInv, PrepareInv, InitializeIndicesInv, ConstructObjectInv,
     LoseObjectInv DEF RegistryNext
<1>2. Writer \in Clients /\ Reader \in Clients
  BY DEF Clients
<1>3. ASSUME NEW n \in ExpectedSizes, WriterTryReserve(n) PROVE StreamsInv'
  <2>1. /\ stream[Writer] # NoView /\ n \in Nat
        /\ object' = [object EXCEPT ![Writer].reserved =
                                       Lesser(n, Reservable(Writer))]
        /\ UNCHANGED <<vars, queue, sent, received, written>>
    BY <1>3, SizesAreNatural DEF WriterTryReserve, CanUse
  <2> QED BY <1>2, <2>1, ReserveInv
<1>4. ASSUME NEW n \in ExpectedSizes, ReaderTryReserve(n) PROVE StreamsInv'
  <2>1. /\ stream[Reader] # NoView /\ n \in Nat
        /\ object' = [object EXCEPT ![Reader].reserved =
                                       Lesser(n, Reservable(Reader))]
        /\ UNCHANGED <<vars, queue, sent, received, written>>
    BY <1>4, SizesAreNatural DEF ReaderTryReserve, CanUse
  <2> QED BY <1>2, <2>1, ReserveInv
<1>5. CASE WriterNext \/ ReaderNext
  BY <1>3, <1>4, <1>5, SizesAreNatural, WriterCommitInv, ReaderCommitInv
     DEF WriterNext, ReaderNext
<1>6. CASE UNCHANGED streamsVars
  <2>1. UNCHANGED <<vars, queueVars, segment, stream>>
    BY <1>6 DEF streamsVars, vars
  <2>2. SameBuffers
    BY <2>1 DEF SameBuffers, Buffers
  <2> QED BY <2>1, <2>2, ObjectsStay
<1> QED BY <1>1, <1>5, <1>6 DEF StreamsNext

(* The inductive invariant, for all steps of all processes.                *)
THEOREM StreamsInvariant == StreamsSpec => []StreamsInv
BY InitStreamsInv, NextStreamsInv, PTL DEF StreamsSpec

(* The indices and the objects' sizes stay within the largest buffer, and  *)
(* no more segments are ever made than removes allow.                      *)
THEOREM StreamsTypeCorrect == StreamsSpec => []StreamsTypeOK
<1>1. StreamsInv => StreamsTypeOK
  BY DEF StreamsInv
<1> QED BY <1>1, StreamsInvariant, PTL

(* With clients that open, close, die and come back at any moment, the     *)
(* memory of every segment holds exactly the bytes committed to it and not *)
(* read yet, in their order.                                               *)
THEOREM UnreadBytesStayThere == StreamsSpec => []UnreadBytesAreThere
<1>1. StreamsInv => UnreadBytesAreThere
  BY DEF StreamsInv
<1> QED BY <1>1, StreamsInvariant, PTL

(* What the reader reserves, in terms of its segment alone.                *)
LEMMA ReaderSpan ==
  ASSUME NEW n \in Nat, NEW read \in 0 .. n - 1, NEW write \in 0 .. n - 1,
         NEW held \in Nat, held <= ReaderReservable(read, write, n),
         NEW c \in read .. read + held - 1
  PROVE  /\ c \in 0 .. n - 1
         /\ \E k \in 1 .. ReaderAvailable(read, write, n) :
              (read + k - 1) % n = c
<1> DEFINE run == ReaderReservable(read, write, n)
           all == ReaderAvailable(read, write, n)
           j == c - read
<1>1. run \in 0 .. n - 1 /\ all \in 0 .. n - 1 /\ run <= all /\ read + run <= n
  BY ReservableFits
<1>2. \A x \in Nat : x < run => (read + x) % n = read + x
  BY CellsOfUnread
<1> HIDE DEF all
<1>3. held <= run
  OBVIOUS
<1> HIDE DEF run
<1>4. /\ j \in Nat /\ j < run /\ c = read + j /\ j + 1 \in 1 .. all
      /\ read + (j + 1) - 1 = read + j
  BY <1>1, <1>3
<1>5. c \in 0 .. n - 1
  BY <1>1, <1>3
<1> HIDE DEF j
<1>6. (read + (j + 1) - 1) % n = c
  BY <1>2, <1>4
<1> QED BY <1>4, <1>5, <1>6 DEF all

(* What the writer reserves.                                               *)
LEMMA WriterSpan ==
  ASSUME NEW n \in Nat, NEW read \in 0 .. n - 1, NEW write \in 0 .. n - 1,
         NEW held \in Nat, held <= WriterReservable(read, write, n),
         NEW c \in write .. write + held - 1
  PROVE  /\ c \in 0 .. n - 1
         /\ \A k \in 1 .. ReaderAvailable(read, write, n) :
              (read + k - 1) % n # c
<1> DEFINE free == WriterReservable(read, write, n)
           all == ReaderAvailable(read, write, n)
<1>1. free \in 0 .. n - 1 /\ all \in 0 .. n - 1 /\ write + free <= n
  BY ReservableFits
<1>2. \A x \in Nat : x < all => (read + x) % n \notin write .. write + free - 1
  BY CellsOfUnread
<1>3. held <= free
  OBVIOUS
<1> HIDE DEF free, all
<1>4. c \in 0 .. n - 1 /\ c \in write .. write + free - 1
  BY <1>1, <1>3
<1>5. ASSUME NEW k \in 1 .. all PROVE (read + k - 1) % n # c
  <2> DEFINE j == k - 1
  <2>1. j \in Nat /\ j < all /\ read + k - 1 = read + j
    BY <1>1
  <2> HIDE DEF j
  <2> QED BY <1>2, <1>4, <2>1
<1> QED BY <1>4, <1>5 DEF all

LEMMA SpansFollow == StreamsInv => SpansAreSound
<1> SUFFICES ASSUME StreamsInv, NEW p \in Clients, stream[p] # NoView
             PROVE  LET i == SegmentOf(p)
                        unread == {UnreadCell(i, k) : k \in 1 .. Unread(i)}
                    IN  /\ Held(p) \subseteq 0 .. segment[i].room - 2
                        /\ IF p = Reader THEN Held(p) \subseteq unread
                                         ELSE Held(p) \cap unread = {}
  BY DEF SpansAreSound
<1> DEFINE i == SegmentOf(p)
           n == segment[i].buffer_size
           read == queue[i].read
           write == queue[i].write
           held == object[p].reserved
<1>1. i \in Buffers /\ n \in Nat
  BY ViewFacts, BufferFacts
<1>2. /\ read \in 0 .. n - 1 /\ write \in 0 .. n - 1
      /\ held \in Nat /\ held <= Reservable(p)
      /\ object[p].index = IF p = Writer THEN write ELSE read
      /\ Reservable(p) = IF p = Writer THEN WriterReservable(read, write, n)
                                       ELSE ReaderReservable(read, write, n)
  BY <1>1, ObjectFacts
<1>3. segment[i].room = n + 1 /\ Unread(i) = ReaderAvailable(read, write, n)
  BY <1>1, BufferFacts DEF StreamsInv, UnreadBytesAreThere
<1>4. 0 .. segment[i].room - 2 = 0 .. n - 1
  BY <1>1, <1>3
<1>5. \A k : UnreadCell(i, k) = (read + k - 1) % n
  BY DEF UnreadCell
<1>6. Held(p) = object[p].index .. object[p].index + held - 1
  BY DEF Held
<1> HIDE DEF i, n, read, write, held
<1>7. CASE p = Writer
  <2>1. Held(p) = write .. write + held - 1 /\ p # Reader
        /\ held <= WriterReservable(read, write, n)
    BY <1>2, <1>6, <1>7, ClientsAssumption
  <2>2. \A c \in Held(p) :
          /\ c \in 0 .. n - 1
          /\ \A k \in 1 .. Unread(i) : UnreadCell(i, k) # c
    BY <1>1, <1>2, <1>3, <1>5, <2>1, WriterSpan
  <2> QED BY <1>4, <2>1, <2>2 DEF i
<1>8. CASE p = Reader
  <2>1. Held(p) = read .. read + held - 1
        /\ held <= ReaderReservable(read, write, n)
    BY <1>2, <1>6, <1>8, ClientsAssumption
  <2>2. \A c \in Held(p) :
          /\ c \in 0 .. n - 1
          /\ \E k \in 1 .. Unread(i) : UnreadCell(i, k) = c
    <3> TAKE c \in Held(p)
    <3>1. /\ c \in 0 .. n - 1
          /\ \E k \in 1 .. ReaderAvailable(read, write, n) :
               (read + k - 1) % n = c
      <4>1. /\ n \in Nat /\ read \in 0 .. n - 1 /\ write \in 0 .. n - 1
            /\ held \in Nat /\ held <= ReaderReservable(read, write, n)
            /\ c \in read .. read + held - 1
        BY <1>1, <1>2, <2>1
      <4> QED BY ONLY <4>1, ReaderSpan
    <3> QED BY <1>3, <1>5, <3>1
  <2> QED BY <1>4, <1>8, <2>2 DEF i
<1> QED BY <1>7, <1>8 DEF Clients

(* Whatever sizes were asked for, the spans that the clients work on lie   *)
(* in the memory of their segment; the reader's has unread bytes only and  *)
(* the writer's none of them.                                              *)
THEOREM SpansStaySound == StreamsSpec => []SpansAreSound
BY SpansFollow, StreamsInvariant, PTL
-----------------------------------------------------------------------------
(* Refinement.                                                             *)

(* Whole streams use the registry as StreamRegistry says: writing and      *)
(* reading never touch it, and no client gets in between its steps.  So    *)
(* what is proved of every Spec of StreamRegistry holds here.              *)
THEOREM StreamsUseRegistry == StreamsSpec => Spec
<1>1. StreamsInit => Init
  BY DEF StreamsInit
<1>2. [StreamsNext]_streamsVars => [Next]_vars
  <2> SUFFICES ASSUME [StreamsNext]_streamsVars PROVE [Next]_vars
    OBVIOUS
  <2>1. ASSUME NEW p \in Processes, RegistryNext(p) PROVE Next
    <3>1. CASE Begin(p)
      BY <3>1 DEF Begin, Next
    <3>2. CASE Prepare(p) \/ InitializeIndices(p) \/ ConstructObject(p)
      <4>1. Continue(p)
        BY <3>2 DEF Prepare, InitializeIndices, ConstructObject, Continue
      <4> QED BY <4>1 DEF Next
    <3>3. CASE LoseObject(p)
      BY <3>3 DEF LoseObject, Next
    <3> QED BY <2>1, <3>1, <3>2, <3>3 DEF RegistryNext
  <2>2. CASE WriterNext \/ ReaderNext
    BY <2>2 DEF WriterNext, ReaderNext, WriterTryReserve, WriterCommit,
       ReaderTryReserve, ReaderCommit
  <2>3. CASE UNCHANGED streamsVars
    BY <2>3 DEF streamsVars
  <2> QED BY <2>1, <2>2, <2>3 DEF StreamsNext
<1> QED BY <1>1, <1>2, PTL DEF StreamsSpec, Spec

(* While clients transfer and die, all that are open are in the segment    *)
(* under the name but for removes, their segments fit them, and no open    *)
(* fails in a race.                                                        *)
THEOREM StreamsKeepRegistrySafe ==
  StreamsSpec => [](StreamsAreUsable /\ OnlyRemoveSplits /\ CallsSucceed)
BY StreamsUseRegistry, StreamsStayUsable, OnlyRemovesSplit, CallsDoSucceed, PTL

(* No segment, usable or not, has more unread bytes than its buffer holds. *)
UnreadAreFew ==
  \A i \in Segments : Len(sent[i]) <= Len(received[i]) + (MaxSize - 1)

LEMMA UnreadFit == StreamsInv => UnreadAreFew
<1> SUFFICES ASSUME StreamsInv, NEW i \in Segments
             PROVE  Len(sent[i]) <= Len(received[i]) + (MaxSize - 1)
  BY DEF UnreadAreFew
<1>1. Len(sent[i]) \in Nat /\ Len(received[i]) \in Nat
  BY QueueFacts DEF StreamsInv
<1>2. MaxSize \in Nat /\ MaxSize >= 1
  BY SizesAssumption
<1>3. CASE i \in Buffers
  <2> DEFINE n == segment[i].buffer_size
             all == ReaderAvailable(queue[i].read, queue[i].write, n)
  <2>1. /\ n \in Nat /\ n <= MaxSize
        /\ queue[i].read \in 0 .. n - 1 /\ queue[i].write \in 0 .. n - 1
    BY <1>3, BufferFacts
  <2>2. Len(sent[i]) - Len(received[i]) = all
    BY <1>3 DEF StreamsInv, UnreadBytesAreThere, Unread
  <2>3. all \in 0 .. n - 1
    BY <2>1, ReservableFits
  <2> HIDE DEF n, all
  <2> QED BY <1>1, <1>2, <2>1, <2>2, <2>3
<1>4. CASE i \notin Buffers
  <2>1. sent[i] = received[i]
    BY <1>4 DEF StreamsInv, OthersAreEmpty
  <2> QED BY <1>1, <1>2, <2>1
<1> QED BY <1>3, <1>4

(* What a commit makes of a history.                                       *)
LEMMA BeginsIt ==
  ASSUME NEW h \in [Segments -> Seq(Nat)], NEW m \in Segments,
         NEW s \in Seq(Nat), NEW i \in Segments
  PROVE  IsBeginning(h[i], [h EXCEPT ![m] = h[m] \o s][i])
<1> DEFINE t == h[m] \o s
<1>1. /\ Len(h[m]) \in Nat /\ Len(t) \in Nat /\ Len(h[m]) <= Len(t)
      /\ \A k \in 1 .. Len(h[m]) : t[k] = h[m][k]
  <2>1. h[m] \in Seq(Nat) /\ Len(h[m]) \in Nat /\ Len(s) \in Nat
    BY LenProperties
  <2>2. /\ t \in Seq(Nat) /\ Len(t) = Len(h[m]) + Len(s)
        /\ \A k \in 1 .. Len(h[m]) : t[k] = h[m][k]
    BY <2>1, Appended
  <2> HIDE DEF t
  <2> QED BY <2>1, <2>2
<1>2. Len(h[i]) \in Nat
  BY LenProperties
<1> HIDE DEF t
<1>3. CASE i = m
  BY <1>1, <1>3 DEF IsBeginning, t
<1>4. CASE i # m
  BY <1>2, <1>4 DEF IsBeginning
<1> QED BY <1>3, <1>4

LEMMA HistoriesAreSequences ==
  StreamsInv => sent \in [Segments -> Seq(Nat)] /\ received \in [Segments -> Seq(Nat)]
BY StreamsTypeParts, QueueFacts DEF StreamsInv

(* A commit of the writer writes to one stream.                            *)
LEMMA CommitWrites ==
  ASSUME StreamsInv, UnreadAreFew', NEW k \in Nat, WriterCommit(k),
         NEW i \in Segments
  PROVE  Stream(i)!Next
<1>1. /\ SegmentOf(Writer) \in Segments /\ UNCHANGED received
      /\ written \in Nat /\ written + k <= MaxBytes
  <2>1. Writer \in Clients /\ stream[Writer] # NoView
    BY DEF WriterCommit, CanUse, Clients
  <2> QED
    BY <2>1, ViewFacts, BufferFacts, StreamsTypeParts, MaxBytesAssumption
       DEF StreamsInv, WriterCommit
<1>2. NewBytes(k) \in Seq(Nat)
  BY <1>1, NewBytesAre, MaxBytesAssumption, SeqMonotonic DEF History
<1>3. sent' = [sent EXCEPT ![SegmentOf(Writer)] =
                 sent[SegmentOf(Writer)] \o NewBytes(k)]
  BY DEF WriterCommit
<1>4. IsBeginning(sent[i], sent'[i])
  BY <1>1, <1>2, <1>3, HistoriesAreSequences, BeginsIt
<1>5. Len(sent'[i]) <= Len(received[i]) + (MaxSize - 1)
  BY <1>1 DEF UnreadAreFew
<1> QED
  BY <1>1, <1>4, <1>5 DEF Stream!Next, Stream!Write, Stream!IsInitialSegment,
     IsBeginning

(* A commit of the reader reads from one stream.                           *)
LEMMA CommitReads ==
  ASSUME StreamsInv, ReadInOrder', NEW k \in Nat, ReaderCommit(k),
         NEW i \in Segments
  PROVE  Stream(i)!Next
<1> DEFINE m == SegmentOf(Reader)
           taken == [j \in 1 .. k |-> queue[m].buffer[object[Reader].index + j - 1]]
<1>1. Reader \in Clients /\ stream[Reader] # NoView /\ UNCHANGED sent
  BY DEF ReaderCommit, CanUse, Clients
<1>2. m \in Buffers /\ m \in Segments
  BY <1>1, ViewFacts, BufferFacts
<1>3. received' = [received EXCEPT ![m] = received[m] \o taken]
  BY DEF ReaderCommit
<1>4. \A j \in 1 .. k : queue[m].buffer[object[Reader].index + j - 1] \in Nat
  <2> DEFINE n == segment[m].buffer_size
             read == queue[m].read
             first == object[Reader].index
  <2>1. /\ n \in Nat /\ n <= MaxSize
        /\ read \in 0 .. n - 1 /\ queue[m].write \in 0 .. n - 1
        /\ first = read /\ object[Reader].reserved \in Nat
        /\ object[Reader].reserved <= ReaderReservable(read, queue[m].write, n)
        /\ k <= object[Reader].reserved
    BY <1>1, <1>2, BufferFacts, ObjectFacts, ClientsAssumption DEF ReaderCommit
  <2>2. /\ ReaderReservable(read, queue[m].write, n) \in 0 .. n - 1
        /\ read + ReaderReservable(read, queue[m].write, n) <= n
    BY <2>1, ReservableFits
  <2>3. queue[m].buffer \in [0 .. MaxSize -> Nat]
    BY <1>2, QueueFacts, MaxBytesAssumption DEF StreamsInv
  <2> HIDE DEF n, read, first
  <2>4. \A j \in 1 .. k : first + j - 1 \in 0 .. MaxSize
    BY <2>1, <2>2, ZeroIsIndex
  <2> QED BY <2>3, <2>4 DEF first
<1>5. taken \in Seq(Nat)
  BY <1>4, FunctionsAreSequences
<1> HIDE DEF m, taken
<1>6. IsBeginning(received[i], received'[i])
  BY <1>2, <1>3, <1>5, HistoriesAreSequences, BeginsIt
<1>7. IsBeginning(received'[i], sent[i])
  BY <1>1 DEF ReadInOrder
<1> QED
  BY <1>1, <1>6, <1>7 DEF Stream!Next, Stream!Read, Stream!IsInitialSegment,
     IsBeginning

(* Every segment keeps the promise of ByteStream, for any number of        *)
(* segments and through every opening, closing, removal and death: the     *)
(* reader takes what was committed to that segment, in its order, and      *)
(* never are more bytes waiting than the buffer may hold.                  *)
THEOREM SegmentsAreStreams == StreamsSpec => EachSegmentIsAStream
<1>1. StreamsInit => \A i \in Segments : Stream(i)!Init
  BY DEF StreamsInit, Stream!Init
<1>2. StreamsInv => ReadInOrder
  BY DEF StreamsInv
<1>3. /\ StreamsInv /\ UnreadAreFew' /\ ReadInOrder'
      /\ [StreamsNext]_streamsVars
      => [\A i \in Segments : Stream(i)!Next
            \/ UNCHANGED <<sent[i], received[i]>>]_<<sent, received>>
  <2> SUFFICES ASSUME StreamsInv, UnreadAreFew', ReadInOrder',
                      [StreamsNext]_streamsVars,
                      ~ UNCHANGED <<sent, received>>, NEW i \in Segments
               PROVE  Stream(i)!Next
    OBVIOUS
  <2>1. \/ \E k \in 1 .. MaxSize : WriterCommit(k)
        \/ \E k \in 1 .. MaxSize : ReaderCommit(k)
    BY DEF StreamsNext, RegistryNext, Begin, Prepare, InitializeIndices,
       ConstructObject, LoseObject, WriterNext, WriterTryReserve, ReaderNext,
       ReaderTryReserve, streamsVars, queueVars
  <2> QED BY <2>1, SizesAreNatural, CommitWrites, CommitReads
<1> QED
  BY <1>1, <1>2, <1>3, UnreadFit, StreamsInvariant, PTL
     DEF StreamsSpec, EachSegmentIsAStream
=============================================================================
