------------------------ MODULE BlockingRestartProofs ------------------------
(***************************************************************************)
(* That the two sides of BlockingBytesQueue are never given the same cells *)
(* when objects are made again from a stopped index, however many times    *)
(* and wherever the stores of the threads that stop fall.  A side that is  *)
(* made again starts at 0 while the other one goes on where it was, so     *)
(* that there are no common cursors any more as in                         *)
(* BlockingBytesQueueProofs.  The reason is another one: the read index is *)
(* stopped first, and from then on the writer is given cells only while    *)
(* the reader is in commit and has given back its own; the reader still    *)
(* sees the write index until that one is stopped, too.  From the same     *)
(* order of the stores follows what a reader sees of a stop.               *)
(***************************************************************************)
EXTENDS BlockingBytesQueueProofs, TLAPS

(* Who has stopped what: the read index comes first, and an object is made *)
(* again only after that.                                                  *)
StopsAreOrdered ==
  /\ \A t \in Threads :
       pc[t] \in {"notify_read", "stop_write", "notify_write"} =>
         Reader \in stopped
  /\ Writer \in stopped => Reader \in stopped
  /\ restarted => Reader \in stopped
  /\ \A s \in Sides : index[s] = StopIndex => s \in stopped

(* Number of cells that the client of s may access.                        *)
Length(s) == IF committing[s] THEN 0 ELSE reserved[s]

(* Between the two stores of a stop, when the reader may have started      *)
(* again at 0: each span ends before the other one's start, unless the     *)
(* writer has come round to 0.                                             *)
SpansAreOrdered ==
  LET r == next[Reader]
      w == index[Writer]
  IN  /\ w < r => w + Length(Writer) < r
      /\ r <= w /\ w # 0 => r + Length(Reader) <= w
      /\ r = 0 /\ w = 0 => Length(Reader) = 0 \/ Length(Writer) = 0

Apart == Held(Writer) \cap Held(Reader) = {}

(* The inductive invariant.                                                *)
RestartInv ==
  ~ crashed =>
    /\ StopsAreOrdered
    /\ restarted /\ Writer \notin stopped => SpansAreOrdered
    /\ restarted => Apart
-----------------------------------------------------------------------------
LEMMA TwoSides ==
  /\ Reader \in Sides /\ Writer \in Sides /\ Reader # Writer
  /\ Reader \in Threads /\ Writer \in Threads
  /\ Sides = {Writer, Reader}
  /\ Other(Reader) = Writer /\ Other(Writer) = Reader
BY SidesAreThreads DEF Sides, Other

(* What the lemmas below use of the type.                                  *)
LEMMA SideFacts ==
  ASSUME TypeOK, NEW s \in Sides
  PROVE  /\ next[s] \in 0 .. Size - 1 /\ next[s] \in Nat
         /\ reserved[s] \in Nat /\ reserved[s] < Size
         /\ Length(s) \in Nat
         /\ committing[s] \in BOOLEAN
         /\ index[s] # StopIndex => index[s] \in 0 .. Size - 1
BY SizeAssumption DEF TypeOK, Cells, Length

LEMMA HeldIsInterval ==
  ASSUME TypeOK, NEW s \in Sides
  PROVE  Held(s) = next[s] .. next[s] + Length(s) - 1
<1>1. next[s] \in Nat
  BY SideFacts
<1> QED BY <1>1 DEF Held, Length, Window

LEMMA HeldIsIntervalNext ==
  ASSUME TypeOK', NEW s \in Sides
  PROVE  /\ Held(s)' = next'[s] .. next'[s] + Length(s)' - 1
         /\ next'[s] \in Nat /\ Length(s)' \in Nat
<1>1. next'[s] \in Nat /\ Length(s)' \in Nat
  BY SizeAssumption DEF TypeOK, Cells, Length
<1> QED BY <1>1 DEF Held, Length, Window

(* A side that keeps a part of its span, at the same place, or gives it up.*)
QuietSide(s) ==
  \/ next'[s] = next[s] /\ Length(s)' \in {Length(s), 0}
  \/ next'[s] = 0 /\ Length(s)' = 0

LEMMA QuietApart ==
  ASSUME TypeOK, TypeOK', Apart, \A s \in Sides : QuietSide(s)
  PROVE  Apart'
<1>1. ASSUME NEW s \in Sides PROVE Held(s)' \subseteq Held(s)
  <2>1. /\ Held(s) = next[s] .. next[s] + Length(s) - 1
        /\ Held(s)' = next'[s] .. next'[s] + Length(s)' - 1
    BY HeldIsInterval, HeldIsIntervalNext
  <2>2. next[s] \in Nat /\ Length(s) \in Nat
    BY SideFacts
  <2>3. QuietSide(s)
    BY <1>1
  <2> QED BY <2>1, <2>2, <2>3 DEF QuietSide
<1> QED BY <1>1, TwoSides DEF Apart

LEMMA QuietOrdered ==
  ASSUME TypeOK, SpansAreOrdered, \A s \in Sides : QuietSide(s),
         index[Writer] # StopIndex, index'[Writer] = index[Writer]
  PROVE  SpansAreOrdered'
<1> DEFINE r == next[Reader]
           w == index[Writer]
<1>1. /\ r \in Nat /\ w \in Nat
      /\ Length(Reader) \in Nat /\ Length(Writer) \in Nat
  BY SideFacts, TwoSides
<1>2. QuietSide(Reader) /\ Length(Writer)' \in {Length(Writer), 0}
  BY TwoSides DEF QuietSide
<1> QED BY <1>1, <1>2 DEF SpansAreOrdered, QuietSide

(* Ordered spans have no cell in common.                                   *)
LEMMA OrderedApart ==
  ASSUME TypeOK', SpansAreOrdered', index'[Writer] \in Cells,
         index'[Writer] = next'[Writer] \/ Length(Writer)' = 0
  PROVE  Apart'
<1> DEFINE r == next'[Reader]
           w == index'[Writer]
           v == next'[Writer]
           m == Length(Reader)'
           n == Length(Writer)'
<1>1. /\ r \in Nat /\ w \in Nat /\ v \in Nat /\ m \in Nat /\ n \in Nat
  BY HeldIsIntervalNext, TwoSides, SizeAssumption DEF Cells
<1>2. Held(Reader)' = r .. r + m - 1 /\ Held(Writer)' = v .. v + n - 1
  BY HeldIsIntervalNext, TwoSides
<1>3. /\ w < r => w + n < r
      /\ r <= w /\ w # 0 => r + m <= w
      /\ r = 0 /\ w = 0 => m = 0 \/ n = 0
      /\ w = v \/ n = 0
  BY DEF SpansAreOrdered
<1> HIDE DEF r, w, v, m, n
<1>4. (v .. v + n - 1) \cap (r .. r + m - 1) = {}
  BY <1>1, <1>3
<1> QED BY <1>2, <1>4 DEF Apart

(* A side that holds nothing is apart from the other one.                  *)
LEMMA NothingIsApart ==
  ASSUME TypeOK', NEW s \in Sides, Length(s)' = 0
  PROVE  Apart'
<1>1. Held(s)' = {}
  BY HeldIsIntervalNext
<1> QED BY <1>1, TwoSides DEF Apart

(* An index that was stopped shows another value only during a commit of   *)
(* its side.                                                               *)
LEMMA StoppedIndex ==
  ASSUME QueueInv, NEW s \in stopped
  PROVE  /\ s \in Sides
         /\ index[s] # StopIndex =>
              /\ committing[s] /\ pc[s] # "closed"
              /\ index[s] = next[s] /\ Length(s) = 0
<1>1. s \in Sides
  BY DEF QueueInv, TypeOK
<1>2. ASSUME index[s] # StopIndex PROVE committing[s] /\ pc[s] # "closed"
  BY <1>1, <1>2
  DEF QueueInv, StopIsKept, AboutToRestop, CommitsAreBusy, CommitPlaces
<1> QED BY <1>1, <1>2 DEF QueueInv, IndexIsOwn, Length

(* The write index, until it is stopped.                                   *)
LEMMA RunningWriter ==
  ASSUME SpanInv, StopsAreOrdered, Writer \notin stopped
  PROVE  /\ index[Writer] \in Cells /\ index[Writer] # StopIndex
         /\ index[Writer] = next[Writer] \/ Length(Writer) = 0
         /\ pc[Writer] # "closed" => index[Writer] = next[Writer]
<1>1. index[Writer] \in Cells /\ index[Writer] # StopIndex
  BY TwoSides, StopIndexAssumption
  DEF SpanInv, QueueInv, TypeOK, StopsAreOrdered
<1>2. pc[Writer] # "closed" => index[Writer] = next[Writer]
  BY <1>1, TwoSides DEF SpanInv, QueueInv, IndexIsOwn
<1>3. pc[Writer] = "closed" => Length(Writer) = 0
  BY TwoSides DEF SpanInv, ClosedHoldNothing, Length
<1> QED BY <1>1, <1>2, <1>3

(* try_reserve and wait_reserve give out cells that the other side does    *)
(* not hold.                                                               *)
LEMMA GrantIsApart ==
  ASSUME SpanInv, TypeOK', StopsAreOrdered, restarted, Apart,
         Writer \notin stopped => SpansAreOrdered,
         NEW s \in Sides, NEW n \in Nat, pc[s] \in {"idle", "loading"},
         UNCHANGED <<index, next, committing, stopped>>,
         reserved' = [reserved EXCEPT ![s] =
                        Lesser(n, Reservable(s, index[Other(s)]))]
  PROVE  /\ Writer \notin stopped => SpansAreOrdered'
         /\ Apart'
<1>1. /\ QueueInv /\ TypeOK /\ Reader \in stopped
      /\ index[Other(s)] \in Cells \cup {StopIndex}
      /\ Other(s) \in Sides /\ Other(s) # s
      /\ ~ committing[s] /\ pc[s] # "closed"
  BY SidesAreThreads
  DEF SpanInv, QueueInv, TypeOK, StopsAreOrdered, CommitsAreBusy,
      CommitPlaces
<1>2. /\ reserved'[s] = Lesser(n, Reservable(s, index[Other(s)]))
      /\ reserved'[Other(s)] = reserved[Other(s)]
  BY <1>1 DEF TypeOK
<1>3. /\ Reservable(s, index[Other(s)]) \in Nat
      /\ reserved'[s] \in Nat
      /\ reserved'[s] <= Reservable(s, index[Other(s)])
  <2>1. Reservable(s, index[Other(s)]) \in Cells
    BY <1>1, CountsFit
  <2>2. /\ Lesser(n, Reservable(s, index[Other(s)])) \in Cells
        /\ Lesser(n, Reservable(s, index[Other(s)])) <=
             Reservable(s, index[Other(s)])
    BY <2>1, LesserFits
  <2>3. \A c \in Cells : c \in Nat
    BY SizeAssumption DEF Cells
  <2> QED BY <1>2, <2>1, <2>2, <2>3
<1>4. /\ Length(s)' = reserved'[s]
      /\ Length(Other(s))' = Length(Other(s))
  BY <1>1, <1>2 DEF Length
<1>5. index[Other(s)] = StopIndex => Length(s)' = 0
  BY <1>3, <1>4 DEF Reservable
<1>6. CASE Writer \notin stopped
  <2> DEFINE r == next[Reader]
             w == index[Writer]
  <2>1. /\ w \in Cells /\ w # StopIndex
        /\ w = next[Writer] \/ Length(Writer) = 0
        /\ pc[Writer] # "closed" => w = next[Writer]
    BY <1>6, RunningWriter
  <2>2. /\ r \in Nat /\ w \in Nat
        /\ Length(Reader) \in Nat /\ Length(Writer) \in Nat
    BY <1>1, <2>1, SideFacts, TwoSides
  <2>3. CASE s = Reader
    <3>1. /\ Length(Reader)' <= IF r <= w THEN w - r ELSE Size - r
          /\ Length(Writer)' = Length(Writer)
      BY <1>3, <1>4, <2>1, <2>3, TwoSides DEF Reservable, ReaderReservable
    <3>2. Length(Reader)' \in Nat
      BY <1>3, <1>4, <2>3
    <3>3. SpansAreOrdered'
      BY <1>6, <2>2, <3>1, <3>2 DEF SpansAreOrdered
    <3> QED BY <2>1, <2>3, <3>1, <3>3, OrderedApart, TwoSides
  <2>4. CASE s = Writer
    <3>1. w = next[Writer] /\ Length(Reader)' = Length(Reader)
      BY <1>1, <1>4, <2>1, <2>4, TwoSides
    <3>2. CASE index[Reader] = StopIndex
      <4>1. Length(Writer)' = 0
        BY <1>5, <2>4, <3>2, TwoSides
      <4>2. SpansAreOrdered'
        BY <1>6, <2>2, <3>1, <4>1 DEF SpansAreOrdered
      <4> QED BY <4>1, <4>2, NothingIsApart, TwoSides
    <3>3. CASE index[Reader] # StopIndex
      <4>1. index[Reader] = r /\ Length(Reader) = 0
        BY <1>1, <3>3, StoppedIndex
      <4>2. Length(Writer)' \in Nat
            /\ Length(Writer)' <= IF w < r THEN r - w - 1
                                  ELSE IF r = 0 THEN Size - w - 1 ELSE Size - w
        BY <1>3, <1>4, <2>4, <3>1, <3>3, <4>1, TwoSides
        DEF Reservable, WriterReservable
      <4>3. SpansAreOrdered'
        BY <2>2, <3>1, <4>1, <4>2 DEF SpansAreOrdered
      <4>4. Length(Reader)' = 0
        BY <3>1, <4>1
      <4> QED BY <4>3, <4>4, NothingIsApart, TwoSides
    <3> QED BY <3>2, <3>3
  <2> QED BY <2>3, <2>4, TwoSides
<1>7. CASE Writer \in stopped
  <2>1. Other(s) \in stopped
    BY <1>1, <1>7, TwoSides
  <2>2. CASE index[Other(s)] = StopIndex
    BY <1>5, <2>2, NothingIsApart, <1>7
  <2>3. CASE index[Other(s)] # StopIndex
    <3>1. Length(Other(s))' = 0
      BY <1>1, <1>4, <2>1, <2>3, StoppedIndex
    <3> QED BY <1>1, <1>7, <3>1, NothingIsApart
  <2> QED BY <2>2, <2>3
<1> QED BY <1>6, <1>7

(* A commit takes the index of its side no further than its span.          *)
LEMMA ExchangeIsApart ==
  ASSUME SpanInv, TypeOK', StopsAreOrdered, Writer \notin stopped,
         SpansAreOrdered, NEW s \in Sides, NEW n \in 1 .. Size,
         Exchange(s, n)
  PROVE  SpansAreOrdered'
<1> DEFINE r == next[Reader]
           w == index[Writer]
           v == Advance(next[s], n, Size)
<1>1. QueueInv /\ TypeOK /\ ~ committing[s] /\ pc[s] # "closed"
  BY DEF SpanInv, QueueInv, CommitsAreBusy, CommitPlaces, Exchange
<1>2. /\ w \in Cells
      /\ pc[Writer] # "closed" => w = next[Writer]
  BY RunningWriter
<1>3. /\ r \in Nat /\ w \in Nat /\ Size \in Nat
      /\ Length(Reader) \in Nat /\ Length(Writer) \in Nat
      /\ r < Size /\ w < Size
  BY <1>1, <1>2, SideFacts, TwoSides, SizeAssumption DEF Cells
<1>4. /\ n \in Nat /\ n >= 1 /\ n <= Length(s)
      /\ next[s] + Length(s) <= Size
  BY <1>1, SideFacts DEF QueueInv, SpansFit, Exchange, Length
<1>5. /\ v = IF next[s] + n = Size THEN 0 ELSE next[s] + n
      /\ next'[s] = v /\ index'[s] = v
      /\ next'[Other(s)] = next[Other(s)] /\ index'[Other(s)] = index[Other(s)]
  BY <1>1, SidesAreThreads DEF Exchange, Advance, TypeOK
<1>6. Length(s)' = 0 /\ Length(Other(s))' = Length(Other(s))
  BY <1>1, SidesAreThreads DEF Exchange, Length, TypeOK
<1> HIDE DEF v
<1>7. CASE s = Reader
  <2>1. /\ next'[Reader] = v /\ index'[Writer] = w
        /\ v = IF r + n = Size THEN 0 ELSE r + n
        /\ Length(Reader)' = 0 /\ Length(Writer)' = Length(Writer)
        /\ n <= Length(Reader) /\ r + Length(Reader) <= Size
    BY <1>4, <1>5, <1>6, <1>7, TwoSides
  <2> QED BY <1>3, <1>4, <2>1 DEF SpansAreOrdered
<1>8. CASE s = Writer
  <2>1. /\ next'[Reader] = r /\ index'[Writer] = v
        /\ v = IF w + n = Size THEN 0 ELSE w + n
        /\ Length(Writer)' = 0 /\ Length(Reader)' = Length(Reader)
        /\ n <= Length(Writer) /\ w + Length(Writer) <= Size
    BY <1>1, <1>2, <1>4, <1>5, <1>6, <1>8, TwoSides
  <2> QED BY <1>3, <1>4, <2>1 DEF SpansAreOrdered
<1> QED BY <1>7, <1>8, TwoSides
-----------------------------------------------------------------------------
(* The stops are ordered, as every stop stores the read index first.       *)
LEMMA StopsStayOrdered ==
  ASSUME QueueInv, ~ crashed', StopsAreOrdered, [Next]_vars
  PROVE  StopsAreOrdered'
<1> USE TwoSides, SidesAreThreads DEF TypeOK
<1> DEFINE InStop == {"notify_read", "stop_write", "notify_write"}
           Places == \A t \in Threads : pc'[t] \in InStop => pc[t] \in InStop
           Indices == \A s \in Sides : index'[s] = StopIndex =>
                                         index[s] = StopIndex
<1>1. TypeOK
  BY DEF QueueInv
<1>2. ASSUME Places, Indices, UNCHANGED <<stopped, restarted>>
      PROVE  StopsAreOrdered'
  BY <1>2 DEF StopsAreOrdered
<1>3. ASSUME NEW s \in Sides, Open(s) PROVE StopsAreOrdered'
  <2>1. Places /\ Indices /\ stopped' = stopped
    BY <1>1, <1>3 DEF Open
  <2>2. restarted' => restarted \/ s \in stopped
    BY <1>3 DEF Open, StopsAreOrdered
  <2> QED BY <2>1, <2>2 DEF StopsAreOrdered
<1>4. ASSUME NEW s \in Sides, Close(s) PROVE StopsAreOrdered'
  <2>1. pc[s] = "idle"
    BY <1>4 DEF Close
  <2>2. ~ committing[s]
    BY <2>1 DEF QueueInv, CommitsAreBusy, CommitPlaces
  <2>3. Places /\ Indices /\ UNCHANGED <<stopped, restarted>>
    BY <1>1, <1>4, <2>2 DEF Close, AboutToRestop
  <2> QED BY <1>2, <2>3
<1>5. ASSUME NEW s \in Sides,
             \/ AvailableSize(s) \/ \E n \in 0 .. Size : TryReserve(s, n)
             \/ \E b \in BOOLEAN : StartWaiting(s, b)
      PROVE  StopsAreOrdered'
  <2>1. Places /\ Indices /\ UNCHANGED <<stopped, restarted>>
    BY <1>1, <1>5 DEF AvailableSize, TryReserve, StartWaiting, historyVars
  <2> QED BY <1>2, <2>1
<1>6. ASSUME NEW s \in Sides,
             \/ LoadUnexpected(s) \/ Sleep(s) \/ ReturnFromWait(s)
             \/ \E n \in 0 .. Size : ReturnFromWaitReserve(s, n)
      PROVE  StopsAreOrdered'
  <2>1. Places /\ Indices /\ UNCHANGED <<stopped, restarted>>
    BY <1>1, <1>6
    DEF LoadUnexpected, Sleep, ReturnFromWait, ReturnFromWaitReserve,
        historyVars
  <2> QED BY <1>2, <2>1
<1>7. ASSUME NEW s \in Sides, NEW n \in 1 .. Size, Exchange(s, n)
      PROVE  StopsAreOrdered'
  <2>1. /\ next[s] \in Cells /\ next[s] + n <= Size
    <3>1. ~ committing[s]
      BY <1>7 DEF QueueInv, CommitsAreBusy, CommitPlaces, Exchange
    <3>2. /\ next[s] \in Nat /\ reserved[s] \in Nat
          /\ next[s] + reserved[s] <= Size
      BY <1>1, <3>1, SideFacts DEF QueueInv, SpansFit
    <3> QED BY <1>1, <1>7, <3>2, SizeAssumption DEF Exchange
  <2>2. Advance(next[s], n, Size) # StopIndex
    BY <2>1, AdvanceFits, StopIndexAssumption
  <2>3. Places /\ UNCHANGED <<stopped, restarted>>
    BY <1>1, <1>7 DEF Exchange
  <2>4. Indices
    BY <1>1, <1>7, <2>2 DEF Exchange
  <2> QED BY <1>2, <2>3, <2>4
<1>8. ASSUME NEW s \in Sides, FinishCommit(s) PROVE StopsAreOrdered'
  <2>1. Places /\ Indices /\ UNCHANGED <<stopped, restarted>>
    BY <1>1, <1>8 DEF FinishCommit, Woken
  <2> QED BY <1>2, <2>1
<1>9. ASSUME NEW t \in Threads, StopReadIndex(t) PROVE StopsAreOrdered'
  BY <1>1, <1>9 DEF StopReadIndex, StopsAreOrdered
<1>10. ASSUME NEW t \in Threads, NotifyReadIndex(t) PROVE StopsAreOrdered'
  <2>1. Places /\ Indices /\ UNCHANGED <<stopped, restarted>>
    BY <1>1, <1>10 DEF NotifyReadIndex, Woken
  <2> QED BY <1>2, <2>1
<1>11. ASSUME NEW t \in Threads, StopWriteIndex(t) PROVE StopsAreOrdered'
  <2>1. Reader \in stopped
    BY <1>11 DEF StopWriteIndex, StopsAreOrdered
  <2> QED BY <1>1, <1>11, <2>1 DEF StopWriteIndex, StopsAreOrdered
<1>12. ASSUME NEW t \in Threads, NotifyWriteIndex(t) PROVE StopsAreOrdered'
  <2>1. Places /\ Indices /\ UNCHANGED <<stopped, restarted>>
    BY <1>1, <1>12 DEF NotifyWriteIndex, Woken
  <2> QED BY <1>2, <2>1
<1>13. CASE UNCHANGED vars
  BY <1>13, <1>2 DEF vars
<1>14. ASSUME NEW s \in Sides, Begin(s) PROVE StopsAreOrdered'
  BY <1>3, <1>4, <1>5, <1>7, <1>14 DEF Begin
<1>15. ASSUME NEW t \in Threads, Continue(t) PROVE StopsAreOrdered'
  BY <1>6, <1>8, <1>9, <1>10, <1>11, <1>12, <1>15 DEF Continue
<1> QED BY <1>9, <1>13, <1>14, <1>15 DEF Next

(* No process that died comes back to life in the history.                 *)
LEMMA CrashesStay ==
  ASSUME [Next]_vars, crashed
  PROVE  crashed'
<1>1. ASSUME NEW s \in Sides, Begin(s) PROVE crashed'
  BY <1>1
  DEF Begin, Open, Close, AvailableSize, TryReserve, StartWaiting, Exchange,
      historyVars, crashVars
<1>2. ASSUME NEW t \in Threads, Continue(t) PROVE crashed'
  BY <1>2
  DEF Continue, LoadUnexpected, Sleep, ReturnFromWait, ReturnFromWaitReserve,
      StopReadIndex, NotifyReadIndex, StopWriteIndex, NotifyWriteIndex,
      FinishCommit, historyVars, crashVars
<1>3. ASSUME NEW t \in Threads, StopReadIndex(t) PROVE crashed'
  BY <1>3 DEF StopReadIndex, crashVars
<1> QED BY <1>1, <1>2, <1>3 DEF Next, vars

(* An object that is made from a stopped index.                            *)
LEMMA OpenIsApart ==
  ASSUME SpanInv, SpanInv', ~ crashed, RestartInv, NEW s \in Sides, Open(s),
         restarted'
  PROVE  /\ Writer \notin stopped' => SpansAreOrdered'
         /\ Apart'
<1>1. /\ QueueInv /\ TypeOK /\ TypeOK' /\ StopsAreOrdered
      /\ ~ committing[s]
  BY DEF SpanInv, QueueInv, RestartInv, CommitsAreBusy, CommitPlaces, Open
<1>2. Length(s)' = 0 /\ stopped' = stopped /\ index' = index
  BY <1>1 DEF Open, Length, TypeOK
<1>3. Apart'
  BY <1>1, <1>2, NothingIsApart
<1>4. ASSUME Writer \notin stopped PROVE SpansAreOrdered'
  <2>1. index[Writer] \in Nat /\ index[Writer] # StopIndex
    BY <1>1, <1>4, RunningWriter, SizeAssumption DEF Cells
  <2>2. CASE s = Reader
    <3>1. Reader \in stopped
      BY <1>1, <2>2 DEF Open, StopsAreOrdered
    <3>2. index[Reader] = StopIndex
      BY <1>1, <2>2, <3>1, StoppedIndex
    <3>3. next'[Reader] = 0 /\ Length(Reader)' = 0
      BY <1>1, <1>2, <2>2, <3>2, TwoSides DEF Open, TypeOK
    <3> QED BY <1>2, <2>1, <3>3 DEF SpansAreOrdered
  <2>3. CASE s = Writer
    <3>1. index[Writer] # StopIndex /\ restarted
      BY <2>1, <2>3 DEF Open
    <3>2. SpansAreOrdered
      BY <1>4, <3>1 DEF RestartInv
    <3>3. /\ next'[Reader] = next[Reader]
          /\ Length(Reader)' = Length(Reader) /\ Length(Writer)' = 0
      BY <1>1, <1>2, <2>3, TwoSides DEF Open, TypeOK, Length
    <3>4. /\ next[Reader] \in Nat
          /\ Length(Reader) \in Nat /\ Length(Writer) \in Nat
      BY <1>1, SideFacts, TwoSides
    <3> QED BY <1>2, <2>1, <3>2, <3>3, <3>4 DEF SpansAreOrdered
  <2> QED BY <2>2, <2>3, TwoSides
<1> QED BY <1>2, <1>3, <1>4

LEMMA RestartInvNext ==
  SpanInv /\ SpanInv' /\ RestartInv /\ [Next]_vars => RestartInv'
<1> SUFFICES ASSUME SpanInv, SpanInv', RestartInv, [Next]_vars, ~ crashed',
                    restarted'
             PROVE  /\ Writer \notin stopped' => SpansAreOrdered'
                    /\ Apart'
  <2>1. ASSUME SpanInv, RestartInv, [Next]_vars, ~ crashed'
        PROVE  StopsAreOrdered'
    BY <2>1, CrashesStay, StopsStayOrdered DEF RestartInv, SpanInv
  <2> QED BY <2>1 DEF RestartInv
<1> USE TwoSides, SidesAreThreads
<1> DEFINE Goal == (Writer \notin stopped' => SpansAreOrdered') /\ Apart'
           Quiet == /\ UNCHANGED restarted
                    /\ \A s \in Sides : QuietSide(s)
                    /\ Writer \notin stopped' =>
                         Writer \notin stopped /\ index'[Writer] = index[Writer]
<1>1. /\ ~ crashed /\ StopsAreOrdered
      /\ restarted /\ Writer \notin stopped => SpansAreOrdered
      /\ restarted => Apart
  BY CrashesStay DEF RestartInv
<1>2. QueueInv /\ TypeOK /\ TypeOK'
  BY DEF SpanInv, QueueInv
<1>3. ASSUME Quiet PROVE Goal
  <2>1. restarted
    BY <1>3
  <2>2. Apart'
    BY <1>1, <1>2, <1>3, <2>1, QuietApart
  <2>3. ASSUME Writer \notin stopped' PROVE SpansAreOrdered'
    <3>1. Writer \notin stopped /\ index'[Writer] = index[Writer]
      BY <1>3, <2>3
    <3>2. index[Writer] # StopIndex
      BY <1>1, <3>1, RunningWriter
    <3> QED BY <1>1, <1>2, <1>3, <2>1, <3>1, <3>2, QuietOrdered
  <2> QED BY <2>2, <2>3
<1>4. ASSUME NEW s \in Sides, Open(s) PROVE Goal
  BY <1>1, <1>4, OpenIsApart
<1>5. ASSUME NEW s \in Sides, Close(s) PROVE Goal
  <2>1. pc[s] = "idle"
    BY <1>5 DEF Close
  <2>2. ~ committing[s]
    BY <1>2, <2>1 DEF QueueInv, CommitsAreBusy, CommitPlaces
  <2>3. Quiet
    BY <1>2, <1>5, <2>2 DEF Close, AboutToRestop, QuietSide, Length, TypeOK
  <2> QED BY <1>3, <2>3
<1>6. ASSUME NEW s \in Sides, NEW n \in 0 .. Size,
             TryReserve(s, n) \/ ReturnFromWaitReserve(s, n)
      PROVE  Goal
  <2>1. pc[s] \in {"idle", "loading"} /\ n \in Nat
    BY <1>6, SizeAssumption DEF TryReserve, ReturnFromWaitReserve
  <2>2. /\ UNCHANGED <<index, next, committing>>
        /\ reserved' = [reserved EXCEPT ![s] =
                          Lesser(n, Reservable(s, index[Other(s)]))]
    BY <1>6 DEF TryReserve, ReturnFromWaitReserve
  <2>3. stopped' = stopped
    BY <1>6 DEF TryReserve, ReturnFromWaitReserve, historyVars
  <2>4. restarted
    BY <1>6 DEF TryReserve, ReturnFromWaitReserve, historyVars
  <2> HIDE DEF Goal
  <2>5. /\ Writer \notin stopped => SpansAreOrdered'
        /\ Apart'
    BY <1>1, <1>2, <2>1, <2>2, <2>3, <2>4, GrantIsApart
  <2> QED BY <2>3, <2>5 DEF Goal
<1>7. ASSUME NEW s \in Sides, NEW n \in 1 .. Size, Exchange(s, n) PROVE Goal
  <2>1. restarted /\ stopped' = stopped
    BY <1>7 DEF Exchange
  <2>2. Length(s)' = 0
    BY <1>2, <1>7 DEF Exchange, Length, TypeOK
  <2>3. Apart'
    BY <1>2, <2>2, NothingIsApart
  <2>4. ASSUME Writer \notin stopped' PROVE SpansAreOrdered'
    BY <1>1, <1>2, <1>7, <2>1, <2>4, ExchangeIsApart
  <2> QED BY <2>3, <2>4
<1>8. ASSUME NEW s \in Sides, FinishCommit(s) PROVE Goal
  <2>1. Quiet
    BY <1>2, <1>8 DEF FinishCommit, QuietSide, Length, TypeOK
  <2> QED BY <1>3, <2>1
<1>9. ASSUME NEW s \in Sides,
             \/ AvailableSize(s) \/ \E b \in BOOLEAN : StartWaiting(s, b)
             \/ LoadUnexpected(s) \/ Sleep(s) \/ ReturnFromWait(s)
      PROVE  Goal
  <2>1. Quiet
    BY <1>9
    DEF AvailableSize, StartWaiting, LoadUnexpected, Sleep, ReturnFromWait,
        historyVars, QuietSide, Length
  <2> QED BY <1>3, <2>1
<1>10. ASSUME NEW t \in Threads,
              \/ StopReadIndex(t) \/ NotifyReadIndex(t)
              \/ StopWriteIndex(t) \/ NotifyWriteIndex(t)
       PROVE  Goal
  <2>1. /\ UNCHANGED <<next, reserved, committing, restarted>>
        /\ Writer \notin stopped' =>
             Writer \notin stopped /\ index'[Writer] = index[Writer]
    BY <1>2, <1>10
    DEF StopReadIndex, NotifyReadIndex, StopWriteIndex, NotifyWriteIndex,
        TypeOK
  <2>2. Quiet
    BY <2>1 DEF QuietSide, Length
  <2> QED BY <1>3, <2>2
<1>11. ASSUME UNCHANGED vars PROVE Goal
  <2>1. Quiet
    BY <1>11 DEF vars, QuietSide, Length
  <2> QED BY <1>3, <2>1
<1> HIDE DEF Goal
<1>12. ASSUME NEW s \in Sides, Begin(s) PROVE Goal
  BY <1>4, <1>5, <1>6, <1>7, <1>9, <1>12 DEF Begin
<1>13. ASSUME NEW t \in Threads, Continue(t) PROVE Goal
  BY <1>6, <1>8, <1>9, <1>10, <1>13 DEF Continue
<1>14. Goal
  <2>1. CASE \E s \in Sides : Begin(s)
    BY <1>12, <2>1
  <2>2. CASE \E t \in Threads : pc[t] = "idle" /\ StopReadIndex(t)
    BY <1>10, <2>2
  <2>3. CASE \E t \in Threads : Continue(t)
    BY <1>13, <2>3
  <2> QED BY <1>11, <2>1, <2>2, <2>3 DEF Next
<1> QED BY <1>14 DEF Goal

(* The order of the stops and what it keeps apart, as long as no process   *)
(* dies inside a call.                                                     *)
THEOREM RestartInvariance == Spec => []RestartInv
<1>1. Init => RestartInv
  <2> SUFFICES ASSUME Init PROVE RestartInv
    OBVIOUS
  <2>1. StopsAreOrdered
    BY TwoSides, SidesAreThreads, StopIndexAssumption, SizeAssumption
    DEF Init, StopsAreOrdered, Cells
  <2> QED BY <2>1 DEF RestartInv, Init
<1> QED BY <1>1, RestartInvNext, SpanInvariance, PTL DEF Spec

(* The spans that the two clients hold lie in the buffer and have no cell  *)
(* in common: as long as no object is made from a stopped index because    *)
(* they follow the two cursors, wherever processes die, and after that,    *)
(* unless a process died inside a call, because the stop index keeps the   *)
(* sides from reserving at the same time.                                  *)
THEOREM SpansStayApart == Spec => []ReservationsApart
<1>1. SpanInv /\ RestartInv /\ ReservationsSound => ReservationsApart
  <2> SUFFICES ASSUME SpanInv, RestartInv, ReservationsSound
               PROVE  ReservationsApart
    OBVIOUS
  <2>1. ASSUME NEW s \in Sides PROVE Held(s) \subseteq Cells
    <3>1. /\ next[s] \in Nat /\ Length(s) \in Nat /\ next[s] < Size
          /\ ~ committing[s] => next[s] + Length(s) <= Size
      BY SideFacts, SizeAssumption DEF SpanInv, QueueInv, SpansFit, Length
    <3> QED BY <3>1, SizeAssumption DEF Held, Window, Length, Cells
  <2>2. ~ restarted => Held(Writer) \cap Held(Reader) = {}
    BY DEF ReservationsSound
  <2>3. ~ crashed /\ restarted => Held(Writer) \cap Held(Reader) = {}
    BY DEF RestartInv, Apart
  <2> QED BY <2>1, <2>2, <2>3 DEF ReservationsApart
<1> QED BY <1>1, RestartInvariance, SpanInvariance, SpansAreSound, PTL

(* A reader whose wait_reserve came back empty finds the stream stopped    *)
(* from then on, through commits of both sides, further stops and objects  *)
(* made again: what stops the write index has stopped the read index       *)
(* before, and the reader's own commits put that stop back.                *)
THEOREM ReaderDoesSeeStop == Spec => []ReaderSeesStop
<1>1. SpanInv /\ RestartInv => ReaderSeesStop
  <2> SUFFICES ASSUME SpanInv, RestartInv, Writer \in stopped, ~ crashed,
                      ~ committing[Reader]
               PROVE  index[Reader] = StopIndex
    BY DEF ReaderSeesStop
  <2>1. Reader \in stopped
    BY DEF RestartInv, StopsAreOrdered
  <2>2. QueueInv
    BY DEF SpanInv
  <2> QED BY <2>1, <2>2, StoppedIndex
<1> QED BY <1>1, RestartInvariance, SpanInvariance, PTL
=============================================================================
