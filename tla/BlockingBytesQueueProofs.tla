----------------------- MODULE BlockingBytesQueueProofs -----------------------
(***************************************************************************)
(* Proofs, for every Size, every stop index out of the buffer, every set   *)
(* of threads that stop and whichever sides may die, of the safety of      *)
(* BlockingBytesQueue.                                                     *)
(***************************************************************************)
EXTENDS BlockingBytesQueue, TLAPS

(* A span does not reach past the end of the buffer.                       *)
SpansFit ==
  \A s \in Sides : ~ committing[s] => next[s] + reserved[s] <= Size

(* A side is in commit only where commit can be.                           *)
CommitPlaces == {"stop", "notify_read", "stop_write", "notify_write",
                 "notify_own"}
CommitsAreBusy == \A s \in Sides : committing[s] => pc[s] \in CommitPlaces

(* An open object's index is the one it has stored last, or the stop index *)
(* has taken its place.                                                    *)
IndexIsOwn ==
  \A s \in Sides : pc[s] # "closed" => index[s] \in {next[s], StopIndex}

(* The inductive invariant.                                                *)
QueueInv ==
  /\ TypeOK
  /\ SpansFit
  /\ CommitsAreBusy
  /\ IndexIsOwn
  /\ StopIsKept
  /\ NoLostWakeup
-----------------------------------------------------------------------------
(* The two sides are two threads.                                          *)
LEMMA SidesAreThreads ==
  /\ Writer # Reader
  /\ Sides \subseteq Threads
  /\ \A s \in Sides : Other(s) \in Sides /\ Other(s) # s /\ Other(Other(s)) = s
BY DEF Sides, Threads, Writer, Reader, Other

(* What a side computes from the index it has loaded is a run of cells at  *)
(* its own index, and never the whole buffer.                              *)
LEMMA CountsFit ==
  ASSUME TypeOK, NEW s \in Sides, NEW v \in Cells \cup {StopIndex}
  PROVE  /\ Reservable(s, v) \in Cells
         /\ next[s] + Reservable(s, v) <= Size
         /\ Available(s, v) \in Cells
<1>1. next[s] \in Cells
  BY DEF TypeOK
<1>2. CASE v = StopIndex
  BY <1>1, <1>2, SizeAssumption DEF Reservable, Available, Cells
<1>3. CASE v \in Cells
  <2>1. v # StopIndex
    BY <1>3, StopIndexAssumption
  <2>2. CASE s = Writer
    BY <1>1, <1>3, <2>1, <2>2, SizeAssumption
    DEF Reservable, Available, WriterReservable, WriterAvailable, Cells
  <2>3. CASE s # Writer
    BY <1>1, <1>3, <2>1, <2>3, SizeAssumption
    DEF Reservable, Available, ReaderReservable, ReaderAvailable, Cells
  <2> QED BY <2>2, <2>3
<1> QED BY <1>2, <1>3

(* A reservation is at most what was asked for, and what there is.         *)
LEMMA LesserFits ==
  ASSUME NEW n \in Nat, NEW m \in Cells
  PROVE  Lesser(n, m) \in Cells /\ Lesser(n, m) <= m /\ Lesser(n, m) <= n
BY SizeAssumption DEF Lesser, Cells

(* A span that fits takes the index to a cell.                             *)
LEMMA AdvanceFits ==
  ASSUME NEW i \in Cells, NEW n \in 1 .. Size, i + n <= Size
  PROVE  Advance(i, n, Size) \in Cells
BY SizeAssumption DEF Advance, Cells

LEMMA InitQueueInv == Init => QueueInv
<1> SUFFICES ASSUME Init PROVE QueueInv
  OBVIOUS
<1>1. \A s \in Sides : /\ index[s] = 0 /\ next[s] = 0 /\ reserved[s] = 0
                       /\ pc[s] = "closed" /\ committing[s] = FALSE
  BY SidesAreThreads DEF Init
<1>2. TypeOK
  <2>1. 0 \in Cells
    BY SizeAssumption DEF Cells
  <2>2. pc \in [Threads -> {"closed", "idle"}]
    BY DEF Init
  <2> QED
    BY <2>1, <2>2 DEF Init, TypeOK
<1>3. SpansFit /\ CommitsAreBusy /\ IndexIsOwn
  BY <1>1, SizeAssumption DEF SpansFit, CommitsAreBusy, IndexIsOwn
<1>4. StopIsKept /\ NoLostWakeup
  BY <1>1 DEF Init, StopIsKept, NoLostWakeup
<1> QED
  BY <1>2, <1>3, <1>4 DEF QueueInv

(* A step that leaves alone all that waking and stopping depend on, and    *)
(* after which no more sides sleep, keeps what the invariant says of them. *)
LEMMA QuietStep ==
  ASSUME QueueInv,
         UNCHANGED <<index, next, committing, stopped, orphaned>>,
         NEW s \in Sides, pc[s] \in {"idle", "loading", "waiting"},
         NEW place \in {"idle", "loading", "waiting"},
         pc' = [pc EXCEPT ![s] = place]
  PROVE  CommitsAreBusy' /\ IndexIsOwn' /\ StopIsKept' /\ NoLostWakeup'
<1> USE SidesAreThreads DEF QueueInv
<1>1. \A t \in Threads : pc'[t] = IF t = s THEN place ELSE pc[t]
  BY DEF TypeOK
<1>2. ~ committing[s]
  BY DEF CommitsAreBusy, CommitPlaces
<1>3. CommitsAreBusy'
  BY <1>1, <1>2 DEF CommitsAreBusy
<1>4. IndexIsOwn'
  BY <1>1 DEF IndexIsOwn
<1>5. StopIsKept'
  BY <1>1, <1>2 DEF StopIsKept, AboutToRestop, TypeOK
<1>6. NoLostWakeup'
  <2> SUFFICES ASSUME NEW o \in Sides, pc'[o] = "asleep",
                      ~ (index[Other(o)] = Unexpected(o)), o \notin orphaned
               PROVE  \E t \in Threads : AboutToWake(t, o)'
    BY DEF NoLostWakeup, Unexpected
  <2>1. o # s /\ pc[o] = "asleep"
    BY <1>1
  <2>2. PICK t \in Threads : AboutToWake(t, o)
    BY <2>1 DEF NoLostWakeup
  <2>3. AboutToWake(t, o)'
    BY <1>1, <2>2 DEF AboutToWake
  <2> QED BY <2>3
<1> QED BY <1>3, <1>4, <1>5, <1>6
-----------------------------------------------------------------------------
(* The steps of the clients.                                               *)

LEMMA OpenInv ==
  ASSUME QueueInv, NEW s \in Sides, Open(s)
  PROVE  QueueInv'
<1> USE SidesAreThreads DEF QueueInv, Open
<1>1. /\ \A t \in Threads : pc'[t] = IF t = s THEN "idle" ELSE pc[t]
      /\ \A o \in Sides \ {s} : next'[o] = next[o] /\ reserved'[o] = reserved[o]
      /\ reserved'[s] = 0
      /\ next'[s] = IF index[s] = StopIndex THEN 0 ELSE index[s]
      /\ pc[s] = "closed" /\ ~ committing[s]
  BY DEF TypeOK, CommitsAreBusy, CommitPlaces
<1>2. 0 \in Cells /\ next'[s] \in Cells
  BY <1>1, SizeAssumption DEF TypeOK, Cells
<1>3. TypeOK'
  BY <1>2 DEF TypeOK, crashVars
<1>4. SpansFit'
  BY <1>1, <1>2, SizeAssumption DEF SpansFit, Cells
<1>5. CommitsAreBusy'
  BY <1>1 DEF CommitsAreBusy
<1>6. IndexIsOwn'
  BY <1>1 DEF IndexIsOwn, TypeOK
<1>7. StopIsKept'
  BY <1>1 DEF StopIsKept, AboutToRestop
<1>8. NoLostWakeup'
  <2> SUFFICES ASSUME NEW o \in Sides, pc'[o] = "asleep",
                      index[Other(o)] # Unexpected(o)', o \notin orphaned
               PROVE  \E t \in Threads : AboutToWake(t, o)'
    BY DEF NoLostWakeup, crashVars
  <2>1. o # s /\ pc[o] = "asleep"
    BY <1>1
  <2>2. PICK t \in Threads : AboutToWake(t, o)
    BY <1>1, <2>1 DEF NoLostWakeup, Unexpected
  <2>3. AboutToWake(t, o)'
    BY <1>1, <2>2 DEF AboutToWake
  <2> QED BY <2>3
<1> QED BY <1>3, <1>4, <1>5, <1>6, <1>7, <1>8

LEMMA CloseInv ==
  ASSUME QueueInv, NEW s \in Sides, Close(s)
  PROVE  QueueInv'
<1> USE SidesAreThreads DEF QueueInv, Close
<1>1. /\ \A t \in Threads : pc'[t] = IF t = s THEN "closed" ELSE pc[t]
      /\ \A o \in Sides \ {s} : /\ next'[o] = next[o]
                                /\ reserved'[o] = reserved[o]
                                /\ committing'[o] = committing[o]
      /\ reserved'[s] = 0 /\ next'[s] = 0 /\ ~ committing'[s]
  BY DEF TypeOK
<1>2. 0 \in Cells
  BY SizeAssumption DEF Cells
<1>3. TypeOK'
  BY <1>2 DEF TypeOK
<1>4. SpansFit'
  BY <1>1, SizeAssumption DEF SpansFit
<1>5. CommitsAreBusy'
  BY <1>1 DEF CommitsAreBusy
<1>6. IndexIsOwn'
  BY <1>1 DEF IndexIsOwn, TypeOK
<1>7. StopIsKept'
  <2> SUFFICES ASSUME NEW o \in stopped', index[o] # StopIndex
               PROVE  AboutToRestop(o)'
    BY DEF StopIsKept
  <2>1. o \in stopped /\ o \in Sides
    BY DEF TypeOK
  <2>2. AboutToRestop(o)
    BY <2>1 DEF StopIsKept
  <2>3. o # s
    BY <2>2
  <2> QED BY <1>1, <2>1, <2>2, <2>3 DEF AboutToRestop
<1>8. NoLostWakeup'
  <2> SUFFICES ASSUME NEW o \in Sides, pc'[o] = "asleep",
                      index[Other(o)] # Unexpected(o)', o \notin orphaned'
               PROVE  \E t \in Threads : AboutToWake(t, o)'
    BY DEF NoLostWakeup
  <2>1. o # s /\ pc[o] = "asleep" /\ o \notin orphaned
    BY <1>1
  <2>2. PICK t \in Threads : AboutToWake(t, o)
    BY <1>1, <2>1 DEF NoLostWakeup, Unexpected
  <2>3. t # s
    BY <2>1, <2>2
  <2>4. AboutToWake(t, o)'
    BY <1>1, <2>2, <2>3 DEF AboutToWake
  <2> QED BY <2>4
<1> QED BY <1>3, <1>4, <1>5, <1>6, <1>7, <1>8

LEMMA AvailableSizeInv ==
  ASSUME QueueInv, NEW s \in Sides, AvailableSize(s)
  PROVE  QueueInv'
<1> USE SidesAreThreads DEF QueueInv, AvailableSize, historyVars, crashVars
<1>1. index[Other(s)] \in Cells \cup {StopIndex}
  BY DEF TypeOK
<1>2. TypeOK'
  BY <1>1, CountsFit DEF TypeOK
<1>3. SpansFit'
  BY DEF SpansFit
<1>4. pc' = [pc EXCEPT ![s] = "idle"]
  BY DEF TypeOK
<1>5. CommitsAreBusy' /\ IndexIsOwn' /\ StopIsKept' /\ NoLostWakeup'
  BY <1>4, QuietStep
<1> QED BY <1>2, <1>3, <1>5

LEMMA TryReserveInv ==
  ASSUME QueueInv, NEW s \in Sides, NEW n \in 0 .. Size, TryReserve(s, n)
  PROVE  QueueInv'
<1> USE SidesAreThreads DEF QueueInv, TryReserve, historyVars, crashVars
<1> DEFINE m == Reservable(s, index[Other(s)])
<1>1. m \in Cells /\ next[s] + m <= Size
  BY CountsFit DEF TypeOK
<1>2. Lesser(n, m) \in Cells /\ Lesser(n, m) <= m
  BY <1>1, LesserFits, SizeAssumption
<1>3. TypeOK'
  BY <1>2 DEF TypeOK
<1>4. SpansFit'
  BY <1>1, <1>2, SizeAssumption DEF SpansFit, TypeOK, Cells
<1>5. pc' = [pc EXCEPT ![s] = "idle"]
  BY DEF TypeOK
<1>6. CommitsAreBusy' /\ IndexIsOwn' /\ StopIsKept' /\ NoLostWakeup'
  BY <1>5, QuietStep
<1> QED BY <1>3, <1>4, <1>6

LEMMA StartWaitingInv ==
  ASSUME QueueInv, NEW s \in Sides, NEW b \in BOOLEAN, StartWaiting(s, b)
  PROVE  QueueInv'
<1> USE SidesAreThreads DEF QueueInv, StartWaiting, historyVars, crashVars
<1>1. TypeOK' /\ SpansFit'
  BY DEF TypeOK, SpansFit
<1>2. CommitsAreBusy' /\ IndexIsOwn' /\ StopIsKept' /\ NoLostWakeup'
  BY QuietStep
<1> QED BY <1>1, <1>2

LEMMA LoadUnexpectedInv ==
  ASSUME QueueInv, NEW s \in Sides, LoadUnexpected(s)
  PROVE  QueueInv'
<1> USE SidesAreThreads DEF QueueInv, LoadUnexpected, historyVars, crashVars
<1>1. TypeOK' /\ SpansFit'
  BY DEF TypeOK, SpansFit
<1>2. CommitsAreBusy' /\ IndexIsOwn' /\ StopIsKept' /\ NoLostWakeup'
  BY QuietStep
<1> QED BY <1>1, <1>2

LEMMA SleepInv ==
  ASSUME QueueInv, NEW s \in Sides, Sleep(s)
  PROVE  QueueInv'
<1> USE SidesAreThreads DEF QueueInv, Sleep, historyVars, crashVars
<1>1. TypeOK' /\ SpansFit'
  BY DEF TypeOK, SpansFit
<1>2. CASE index[Other(s)] # Unexpected(s)
  <2>1. CommitsAreBusy' /\ IndexIsOwn' /\ StopIsKept' /\ NoLostWakeup'
    BY <1>2, QuietStep
  <2> QED BY <1>1, <2>1
<1>3. CASE index[Other(s)] = Unexpected(s)
  <2>1. /\ \A t \in Threads : pc'[t] = IF t = s THEN "asleep" ELSE pc[t]
        /\ ~ committing[s]
    BY <1>3 DEF TypeOK, CommitsAreBusy, CommitPlaces
  <2>2. CommitsAreBusy' /\ IndexIsOwn'
    BY <2>1 DEF CommitsAreBusy, IndexIsOwn
  <2>3. StopIsKept'
    BY <2>1 DEF StopIsKept, AboutToRestop, TypeOK
  <2>4. NoLostWakeup'
    <3> SUFFICES ASSUME NEW o \in Sides, pc'[o] = "asleep",
                        index[Other(o)] # Unexpected(o), o \notin orphaned
                 PROVE  \E t \in Threads : AboutToWake(t, o)'
      BY DEF NoLostWakeup, Unexpected
    <3>1. o # s /\ pc[o] = "asleep"
      BY <1>3, <2>1
    <3>2. PICK t \in Threads : AboutToWake(t, o)
      BY <3>1 DEF NoLostWakeup
    <3>3. AboutToWake(t, o)'
      BY <2>1, <3>2 DEF AboutToWake
    <3> QED BY <3>3
  <2> QED BY <1>1, <2>2, <2>3, <2>4
<1> QED BY <1>2, <1>3

LEMMA ReturnFromWaitInv ==
  ASSUME QueueInv, NEW s \in Sides, ReturnFromWait(s)
  PROVE  QueueInv'
<1> USE SidesAreThreads DEF QueueInv, ReturnFromWait, historyVars, crashVars
<1>1. index[Other(s)] \in Cells \cup {StopIndex}
  BY DEF TypeOK
<1>2. TypeOK'
  BY <1>1, CountsFit DEF TypeOK
<1>3. SpansFit'
  BY DEF SpansFit
<1>4. CommitsAreBusy' /\ IndexIsOwn' /\ StopIsKept' /\ NoLostWakeup'
  BY QuietStep
<1> QED BY <1>2, <1>3, <1>4

LEMMA ReturnFromWaitReserveInv ==
  ASSUME QueueInv, NEW s \in Sides, NEW n \in 0 .. Size,
         ReturnFromWaitReserve(s, n)
  PROVE  QueueInv'
<1> USE SidesAreThreads
    DEF QueueInv, ReturnFromWaitReserve, historyVars, crashVars
<1> DEFINE m == Reservable(s, index[Other(s)])
<1>1. m \in Cells /\ next[s] + m <= Size
  BY CountsFit DEF TypeOK
<1>2. Lesser(n, m) \in Cells /\ Lesser(n, m) <= m
  BY <1>1, LesserFits, SizeAssumption
<1>3. TypeOK'
  BY <1>2 DEF TypeOK
<1>4. SpansFit'
  BY <1>1, <1>2, SizeAssumption DEF SpansFit, TypeOK, Cells
<1>5. CommitsAreBusy' /\ IndexIsOwn' /\ StopIsKept' /\ NoLostWakeup'
  BY QuietStep
<1> QED BY <1>3, <1>4, <1>5
-----------------------------------------------------------------------------
(* The steps of stop.                                                      *)

(* What waking does to the places of the threads.                          *)
LEMMA WokenPlaces ==
  ASSUME TypeOK, NEW s \in Sides, NEW t \in Threads, NEW place,
         pc[t] # "asleep", pc' = [Woken(s) EXCEPT ![t] = place]
  PROVE  /\ pc'[t] = place
         /\ \A u \in Threads \ {t} :
              pc'[u] = IF u = Other(s) /\ pc[u] = "asleep" THEN "loading"
                                                           ELSE pc[u]
         /\ place \in {"idle", "stop_write", "notify_own"} =>
              pc' \in [Threads -> {"closed", "idle", "loading", "waiting",
                         "asleep", "stop", "notify_read", "stop_write",
                         "notify_write", "notify_own"}]
BY SidesAreThreads DEF Woken, TypeOK

LEMMA StopReadIndexInv ==
  ASSUME QueueInv, NEW t \in Threads, StopReadIndex(t)
  PROVE  QueueInv'
<1> USE SidesAreThreads DEF QueueInv, StopReadIndex, crashVars
<1>1. /\ \A u \in Threads : pc'[u] = IF u = t THEN "notify_read" ELSE pc[u]
      /\ index'[Reader] = StopIndex /\ index'[Writer] = index[Writer]
      /\ Reader \in Sides /\ Writer \in Sides
  BY DEF TypeOK, Sides
<1>2. TypeOK' /\ SpansFit'
  BY <1>1 DEF TypeOK, SpansFit
<1>3. CommitsAreBusy'
  BY <1>1 DEF CommitsAreBusy, CommitPlaces
<1>4. IndexIsOwn'
  BY <1>1 DEF IndexIsOwn, Sides
<1>5. StopIsKept'
  BY <1>1 DEF StopIsKept, AboutToRestop, TypeOK, Sides
<1>6. NoLostWakeup'
  <2> SUFFICES ASSUME NEW o \in Sides, pc'[o] = "asleep",
                      index'[Other(o)] # Unexpected(o), o \notin orphaned
               PROVE  \E u \in Threads : AboutToWake(u, o)'
    BY DEF NoLostWakeup, Unexpected
  <2>1. pc[o] = "asleep"
    BY <1>1
  <2>2. CASE o = Writer
    <3>1. AboutToWake(t, o)'
      BY <1>1, <2>2 DEF AboutToWake
    <3> QED BY <3>1
  <2>3. CASE o = Reader
    <3>1. PICK u \in Threads : AboutToWake(u, o)
      BY <1>1, <2>1, <2>3 DEF NoLostWakeup, Other
    <3>2. AboutToWake(u, o)'
      BY <1>1, <2>3, <3>1 DEF AboutToWake
    <3> QED BY <3>2
  <2> QED BY <2>2, <2>3 DEF Sides
<1> QED BY <1>2, <1>3, <1>4, <1>5, <1>6

LEMMA NotifyReadIndexInv ==
  ASSUME QueueInv, NEW t \in Threads, NotifyReadIndex(t)
  PROVE  QueueInv'
<1> USE SidesAreThreads DEF QueueInv, NotifyReadIndex
<1>1. Reader \in Sides /\ Writer \in Sides /\ Other(Reader) = Writer
  BY DEF Sides, Other
<1>2. /\ pc'[t] = "stop_write"
      /\ \A u \in Threads \ {t} :
           pc'[u] = IF u = Writer /\ pc[u] = "asleep" THEN "loading" ELSE pc[u]
  BY <1>1, WokenPlaces
<1>3. TypeOK' /\ SpansFit'
  BY <1>1, WokenPlaces DEF TypeOK, SpansFit
<1>4. CommitsAreBusy'
  BY <1>2 DEF CommitsAreBusy, CommitPlaces
<1>5. IndexIsOwn'
  BY <1>2 DEF IndexIsOwn
<1>6. StopIsKept'
  BY <1>2 DEF StopIsKept, AboutToRestop, TypeOK, Sides
<1>7. NoLostWakeup'
  <2> SUFFICES ASSUME NEW o \in Sides, pc'[o] = "asleep",
                      index[Other(o)] # Unexpected(o), o \notin orphaned'
               PROVE  \E u \in Threads : AboutToWake(u, o)'
    BY DEF NoLostWakeup, Unexpected
  <2>1. o = Reader /\ pc[o] = "asleep" /\ o \notin orphaned
    BY <1>2 DEF Sides
  <2>2. PICK u \in Threads : AboutToWake(u, o)
    BY <2>1 DEF NoLostWakeup
  <2>3. AboutToWake(u, o)'
    BY <1>2, <2>1, <2>2 DEF AboutToWake
  <2> QED BY <2>3
<1> QED BY <1>3, <1>4, <1>5, <1>6, <1>7

LEMMA StopWriteIndexInv ==
  ASSUME QueueInv, NEW t \in Threads, StopWriteIndex(t)
  PROVE  QueueInv'
<1> USE SidesAreThreads DEF QueueInv, StopWriteIndex, crashVars
<1>1. /\ \A u \in Threads : pc'[u] = IF u = t THEN "notify_write" ELSE pc[u]
      /\ index'[Writer] = StopIndex /\ index'[Reader] = index[Reader]
      /\ Reader \in Sides /\ Writer \in Sides
  BY DEF TypeOK, Sides
<1>2. TypeOK' /\ SpansFit'
  BY <1>1 DEF TypeOK, SpansFit
<1>3. CommitsAreBusy'
  BY <1>1 DEF CommitsAreBusy, CommitPlaces
<1>4. IndexIsOwn'
  BY <1>1 DEF IndexIsOwn, Sides
<1>5. StopIsKept'
  BY <1>1 DEF StopIsKept, AboutToRestop, TypeOK, Sides
<1>6. NoLostWakeup'
  <2> SUFFICES ASSUME NEW o \in Sides, pc'[o] = "asleep",
                      index'[Other(o)] # Unexpected(o), o \notin orphaned
               PROVE  \E u \in Threads : AboutToWake(u, o)'
    BY DEF NoLostWakeup, Unexpected
  <2>1. pc[o] = "asleep"
    BY <1>1
  <2>2. CASE o = Reader
    <3>1. AboutToWake(t, o)'
      BY <1>1, <2>2 DEF AboutToWake
    <3> QED BY <3>1
  <2>3. CASE o = Writer
    <3>1. PICK u \in Threads : AboutToWake(u, o)
      BY <1>1, <2>1, <2>3 DEF NoLostWakeup, Other
    <3>2. AboutToWake(u, o)'
      BY <1>1, <2>3, <3>1 DEF AboutToWake
    <3> QED BY <3>2
  <2> QED BY <2>2, <2>3 DEF Sides
<1> QED BY <1>2, <1>3, <1>4, <1>5, <1>6

LEMMA NotifyWriteIndexInv ==
  ASSUME QueueInv, NEW t \in Threads, NotifyWriteIndex(t)
  PROVE  QueueInv'
<1> USE SidesAreThreads DEF QueueInv, NotifyWriteIndex
<1> DEFINE place == IF InCommit(t) THEN "notify_own" ELSE "idle"
<1>1. Reader \in Sides /\ Writer \in Sides /\ Other(Writer) = Reader
  BY DEF Sides, Other
<1>2. /\ pc'[t] = place
      /\ place \in {"idle", "notify_own"}
      /\ \A u \in Threads \ {t} :
           pc'[u] = IF u = Reader /\ pc[u] = "asleep" THEN "loading" ELSE pc[u]
  <2>1. pc[t] # "asleep" /\ pc' = [Woken(Writer) EXCEPT ![t] = place]
    OBVIOUS
  <2>2. TypeOK
    OBVIOUS
  <2> HIDE DEF QueueInv, NotifyWriteIndex, place
  <2>3. /\ pc'[t] = place
        /\ \A u \in Threads \ {t} :
             pc'[u] = IF u = Other(Writer) /\ pc[u] = "asleep" THEN "loading"
                                                               ELSE pc[u]
    BY <1>1, <2>1, <2>2, WokenPlaces
  <2> QED BY <1>1, <2>3 DEF place
<1>3. TypeOK' /\ SpansFit'
  <2>1. pc' \in [Threads -> {"closed", "idle", "loading", "waiting",
                   "asleep", "stop", "notify_read", "stop_write",
                   "notify_write", "notify_own"}]
    BY DEF TypeOK, Woken, Sides
  <2> QED BY <2>1 DEF TypeOK, SpansFit
<1>4. CommitsAreBusy'
  BY <1>2 DEF CommitsAreBusy, CommitPlaces, InCommit
<1>5. IndexIsOwn'
  BY <1>2 DEF IndexIsOwn
<1>6. StopIsKept'
  BY <1>2 DEF StopIsKept, AboutToRestop, TypeOK, Sides
<1>7. NoLostWakeup'
  <2> SUFFICES ASSUME NEW o \in Sides, pc'[o] = "asleep",
                      index[Other(o)] # Unexpected(o), o \notin orphaned'
               PROVE  \E u \in Threads : AboutToWake(u, o)'
    BY DEF NoLostWakeup, Unexpected
  <2>1. o = Writer /\ pc[o] = "asleep" /\ o \notin orphaned
    BY <1>2 DEF Sides
  <2>2. PICK u \in Threads : AboutToWake(u, o)
    BY <2>1 DEF NoLostWakeup
  <2>3. AboutToWake(u, o)'
    BY <1>2, <2>1, <2>2 DEF AboutToWake
  <2> QED BY <2>3
<1> QED BY <1>3, <1>4, <1>5, <1>6, <1>7
-----------------------------------------------------------------------------
(* The steps of commit.                                                    *)

LEMMA ExchangeInv ==
  ASSUME QueueInv, NEW s \in Sides, NEW n \in 1 .. Size, Exchange(s, n)
  PROVE  QueueInv'
<1> USE SidesAreThreads DEF QueueInv, Exchange, crashVars
<1> DEFINE place == IF index[s] = StopIndex THEN "stop" ELSE "notify_own"
           i == Advance(next[s], n, Size)
<1>1. ~ committing[s]
  BY DEF CommitsAreBusy, CommitPlaces
<1>2. next[s] \in Cells /\ reserved[s] \in Cells /\ n <= reserved[s]
  BY DEF TypeOK, Cells
<1>3. next[s] + n <= Size
  BY <1>1, <1>2, SizeAssumption DEF SpansFit, Cells
<1>4. i \in Cells
  BY <1>2, <1>3, AdvanceFits
<1>5. full' \in SUBSET Cells
  <2>1. Window(s, n) \subseteq Cells
    BY <1>2, <1>3, SizeAssumption DEF Window, Cells
  <2> QED BY <2>1 DEF FullAfter, TypeOK
<1> HIDE DEF i
<1>6. /\ \A u \in Threads : pc'[u] = IF u = s THEN place ELSE pc[u]
      /\ next'[s] = i /\ index'[s] = i /\ committing'[s] = TRUE
      /\ \A o \in Sides \ {s} : /\ next'[o] = next[o]
                                /\ index'[o] = index[o]
                                /\ committing'[o] = committing[o]
  BY DEF TypeOK, i
<1>7. TypeOK'
  BY <1>4, <1>5, <1>6 DEF TypeOK, i
<1>8. SpansFit'
  BY <1>6 DEF SpansFit
<1>9. CommitsAreBusy'
  BY <1>6 DEF CommitsAreBusy, CommitPlaces
<1>10. IndexIsOwn'
  BY <1>6 DEF IndexIsOwn
<1>11. StopIsKept'
  BY <1>1, <1>6 DEF StopIsKept, AboutToRestop, TypeOK
<1>12. NoLostWakeup'
  <2> SUFFICES ASSUME NEW o \in Sides, pc'[o] = "asleep",
                      index'[Other(o)] # Unexpected(o)', o \notin orphaned
               PROVE  \E u \in Threads : AboutToWake(u, o)'
    BY DEF NoLostWakeup
  <2>1. o # s
    BY <1>6
  <2>2. s = Other(o)
    BY <2>1 DEF Sides, Other
  <2>3. AboutToWake(s, o)'
    BY <1>6, <2>2 DEF AboutToWake
  <2> QED BY <2>3
<1> QED BY <1>7, <1>8, <1>9, <1>10, <1>11, <1>12

LEMMA FinishCommitInv ==
  ASSUME QueueInv, NEW s \in Sides, FinishCommit(s)
  PROVE  QueueInv'
<1> USE SidesAreThreads DEF QueueInv, FinishCommit
<1>1. /\ pc'[s] = "idle"
      /\ \A u \in Threads \ {s} :
           pc'[u] = IF u = Other(s) /\ pc[u] = "asleep" THEN "loading"
                                                        ELSE pc[u]
      /\ ~ committing'[s] /\ reserved'[s] = 0
      /\ \A o \in Sides \ {s} : /\ committing'[o] = committing[o]
                                /\ reserved'[o] = reserved[o]
  <2>1. /\ TypeOK /\ s \in Threads /\ pc[s] # "asleep"
        /\ pc' = [Woken(s) EXCEPT ![s] = "idle"]
    OBVIOUS
  <2>2. /\ pc'[s] = "idle"
        /\ \A u \in Threads \ {s} :
             pc'[u] = IF u = Other(s) /\ pc[u] = "asleep" THEN "loading"
                                                          ELSE pc[u]
    BY ONLY <2>1, WokenPlaces
  <2>3. /\ ~ committing'[s] /\ reserved'[s] = 0
        /\ \A o \in Sides \ {s} : /\ committing'[o] = committing[o]
                                  /\ reserved'[o] = reserved[o]
    BY DEF TypeOK
  <2> QED BY <2>2, <2>3
<1>2. 0 \in Cells
  BY SizeAssumption DEF Cells
<1>3. TypeOK'
  <2>1. pc' \in [Threads -> {"closed", "idle", "loading", "waiting",
                   "asleep", "stop", "notify_read", "stop_write",
                   "notify_write", "notify_own"}]
    BY WokenPlaces
  <2> QED BY <1>2, <2>1 DEF TypeOK
<1>4. SpansFit'
  BY <1>1, SizeAssumption DEF SpansFit, TypeOK, Cells
<1>5. CommitsAreBusy'
  BY <1>1 DEF CommitsAreBusy, CommitPlaces
<1>6. IndexIsOwn'
  BY <1>1 DEF IndexIsOwn
<1>7. StopIsKept'
  BY <1>1 DEF StopIsKept, AboutToRestop, TypeOK
<1>8. NoLostWakeup'
  <2> SUFFICES ASSUME NEW o \in Sides, pc'[o] = "asleep",
                      index[Other(o)] # Unexpected(o), o \notin orphaned'
               PROVE  \E u \in Threads : AboutToWake(u, o)'
    BY DEF NoLostWakeup, Unexpected
  <2>1. o # s /\ pc[o] = "asleep" /\ o # Other(s) /\ o \notin orphaned
    BY <1>1
  <2> QED BY <2>1 DEF Sides, Other
<1> QED BY <1>3, <1>4, <1>5, <1>6, <1>7, <1>8
-----------------------------------------------------------------------------
LEMMA NextInv == QueueInv /\ [Next]_vars => QueueInv'
<1> SUFFICES ASSUME QueueInv, [Next]_vars PROVE QueueInv'
  OBVIOUS
<1>1. CASE \E s \in Sides : Begin(s)
  <2> PICK s \in Sides : Begin(s)
    BY <1>1
  <2>1. CASE Open(s) \/ Close(s) \/ AvailableSize(s)
    BY <2>1, OpenInv, CloseInv, AvailableSizeInv
  <2>2. CASE \E n \in 0 .. Size : TryReserve(s, n)
    BY <2>2, TryReserveInv
  <2>3. CASE \E b \in BOOLEAN : StartWaiting(s, b)
    BY <2>3, StartWaitingInv
  <2>4. CASE \E n \in 1 .. Size : Exchange(s, n)
    BY <2>4, ExchangeInv
  <2> QED BY <2>1, <2>2, <2>3, <2>4 DEF Begin
<1>2. CASE \E t \in Threads : StopReadIndex(t)
  BY <1>2, StopReadIndexInv
<1>3. CASE \E t \in Threads : Continue(t)
  <2> PICK t \in Threads : Continue(t)
    BY <1>3
  <2>1. CASE /\ t \in Sides
             /\ LoadUnexpected(t) \/ Sleep(t) \/ ReturnFromWait(t)
    BY <2>1, LoadUnexpectedInv, SleepInv, ReturnFromWaitInv
  <2>2. CASE t \in Sides /\ \E n \in 0 .. Size : ReturnFromWaitReserve(t, n)
    BY <2>2, ReturnFromWaitReserveInv
  <2>3. CASE StopReadIndex(t) \/ NotifyReadIndex(t)
    BY <2>3, StopReadIndexInv, NotifyReadIndexInv
  <2>4. CASE StopWriteIndex(t) \/ NotifyWriteIndex(t)
    BY <2>4, StopWriteIndexInv, NotifyWriteIndexInv
  <2>5. CASE t \in Sides /\ FinishCommit(t)
    BY <2>5, FinishCommitInv
  <2> QED BY <2>1, <2>2, <2>3, <2>4, <2>5 DEF Continue
<1>4. CASE UNCHANGED vars
  BY <1>4
  DEF vars, QueueInv, TypeOK, SpansFit, CommitsAreBusy, IndexIsOwn,
      StopIsKept, NoLostWakeup, AboutToRestop, AboutToWake, Unexpected
<1> QED BY <1>1, <1>2, <1>3, <1>4 DEF Next

(* The inductive invariant holds in every state that the queue can come to. *)
THEOREM QueueInvariance == Spec => []QueueInv
<1>1. Init => QueueInv
  BY InitQueueInv
<1>2. QueueInv /\ [Next]_vars => QueueInv'
  BY NextInv
<1> QED BY <1>1, <1>2, PTL DEF Spec

(* The state keeps its shape: every index is a cell or the stop index, and *)
(* every reservation and every promised number of bytes is less than size_,*)
(* so that one cell always stays free.                                     *)
THEOREM TypeCorrect == Spec => []TypeOK
<1>1. QueueInv => TypeOK
  BY DEF QueueInv
<1> QED BY <1>1, QueueInvariance, PTL

(* Whichever threads stop the queue, and wherever sides commit and die in  *)
(* the meantime, no commit makes a stop forgotten: the exchange that has   *)
(* replaced a stop index is followed by the store that puts it back.       *)
THEOREM StopsAreKept == Spec => []StopIsKept
<1>1. QueueInv => StopIsKept
  BY DEF QueueInv
<1> QED BY <1>1, QueueInvariance, PTL

(* No interleaving of the test in boost's wait with the exchanges, the     *)
(* stores of stop and their notifications leaves a side asleep whose wait  *)
(* should have ended, unless the process that was to notify it has died.   *)
THEOREM NoWakeupIsLost == Spec => []NoLostWakeup
<1>1. QueueInv => NoLostWakeup
  BY DEF QueueInv
<1> QED BY <1>1, QueueInvariance, PTL

(* The writer and the reader are never both asleep in wait with nobody     *)
(* left to notify one of them: an empty queue and a full one differ.       *)
THEOREM NobodySleepsForNothing == Spec => []NeverBothAsleep
<1>1. QueueInv => NeverBothAsleep
  <2> SUFFICES ASSUME QueueInv,
                      \A s \in Sides : pc[s] = "asleep",
                      \A t \in Threads : pc[t] \in {"idle", "asleep"},
                      orphaned = {}
               PROVE  FALSE
    BY DEF NeverBothAsleep
  <2>1. \A s \in Sides : ~ committing[s]
    BY DEF QueueInv, CommitsAreBusy, CommitPlaces
  <2>2. \A s \in Sides, t \in Threads : ~ AboutToWake(t, s)
    <3> SUFFICES ASSUME NEW s \in Sides, NEW t \in Threads, AboutToWake(t, s)
                 PROVE  FALSE
      OBVIOUS
    <3>1. pc[t] \in {"idle", "asleep"}
      OBVIOUS
    <3>2. t = Other(s) /\ committing[t]
      BY <3>1 DEF AboutToWake
    <3> QED BY <2>1, <3>2, SidesAreThreads
  <2>3. /\ index[Reader] = Unexpected(Writer)
        /\ index[Writer] = Unexpected(Reader)
    BY <2>2, SidesAreThreads DEF QueueInv, NoLostWakeup, Sides, Other
  <2>4. /\ index[Writer] \in {next[Writer], StopIndex}
        /\ index[Reader] \in {next[Reader], StopIndex}
        /\ next[Writer] \in Cells /\ next[Reader] \in Cells
    BY DEF QueueInv, IndexIsOwn, TypeOK, Sides
  <2>5. Unexpected(Reader) = next[Reader]
    BY SidesAreThreads DEF Unexpected
  <2>6. /\ Unexpected(Writer) = Advance(next[Writer], 1, Size)
        /\ Unexpected(Writer) \in Cells
        /\ Unexpected(Writer) # next[Writer]
    BY <2>4, SizeAssumption DEF Unexpected, Advance, Cells
  <2>7. StopIndex \notin Cells
    BY StopIndexAssumption
  <2> QED BY <2>3, <2>4, <2>5, <2>6, <2>7
<1> QED BY <1>1, QueueInvariance, PTL
-----------------------------------------------------------------------------
(* Reservations.  Until an object is made from a stopped index there are a *)
(* read cursor r and a write cursor w that outlive stops and objects: the  *)
(* unread bytes lie between them, every open object is at its cursor, a    *)
(* span is no longer than the run of cells that starts there, and there is *)
(* such a run as long as the client has a size that it was told.           *)
Between(r, w) ==
  {c \in Cells : IF r <= w THEN r <= c /\ c < w ELSE c < w \/ r <= c}

Cursors(r, w) ==
  /\ full = Between(r, w)
  /\ pc[Reader] # "closed" => next[Reader] = r
  /\ pc[Writer] # "closed" => next[Writer] = w
  /\ index[Reader] \in {r, StopIndex}
  /\ index[Writer] \in {w, StopIndex}
  /\ ~ committing[Reader] => reserved[Reader] <= ReaderReservable(r, w, Size)
  /\ ~ committing[Writer] => reserved[Writer] <= WriterReservable(r, w, Size)
  /\ ~ committing[Reader] /\ promised[Reader] > 0 =>
       ReaderReservable(r, w, Size) > 0
  /\ ~ committing[Writer] /\ promised[Writer] > 0 =>
       WriterReservable(r, w, Size) > 0

CursorsInv == ~ restarted => \E r, w \in Cells : Cursors(r, w)

(* An object that is not there has no span.                                *)
ClosedHoldNothing == \A s \in Sides : pc[s] = "closed" => reserved[s] = 0

(* The lengths of the two runs are numbers.                                *)
LEMMA RunsAreCounts ==
  ASSUME NEW r \in Cells, NEW w \in Cells
  PROVE  /\ ReaderReservable(r, w, Size) \in Nat
         /\ WriterReservable(r, w, Size) \in Nat
BY SizeAssumption DEF Cells, ReaderReservable, WriterReservable

LEMMA InitCursorsInv == Init => CursorsInv
<1> SUFFICES ASSUME Init PROVE CursorsInv
  OBVIOUS
<1>1. 0 \in Cells
  BY SizeAssumption DEF Cells
<1>2. Between(0, 0) = {}
  BY <1>1 DEF Between, Cells
<1>3. Reader \in Sides /\ Writer \in Sides
  BY DEF Sides
<1>4. /\ \A s \in Sides : /\ index[s] = 0 /\ next[s] = 0 /\ reserved[s] = 0
                          /\ promised[s] = 0
      /\ full = {}
  BY DEF Init
<1>5. Cursors(0, 0)
  BY <1>1, <1>2, <1>3, <1>4, RunsAreCounts DEF Cursors
<1> QED BY <1>1, <1>5 DEF CursorsInv

(* Steps that at most close objects, end commits and store stop indices    *)
(* leave the cursors where they are.                                       *)
LEMMA CursorsStay ==
  ASSUME CursorsInv, UNCHANGED <<full, restarted>>,
         \A s \in Sides :
           /\ pc'[s] # "closed" => pc[s] # "closed" /\ next'[s] = next[s]
           /\ index'[s] \in {index[s], StopIndex}
           /\ ~ committing'[s] =>
                \/ reserved'[s] = 0 /\ promised'[s] = 0
                \/ /\ ~ committing[s]
                   /\ reserved'[s] = reserved[s]
                   /\ promised'[s] = promised[s]
  PROVE  CursorsInv'
<1> SUFFICES ASSUME ~ restarted PROVE \E r, w \in Cells : Cursors(r, w)'
  BY DEF CursorsInv, Cells
<1>1. PICK r \in Cells, w \in Cells : Cursors(r, w)
  BY DEF CursorsInv
<1>2. Reader \in Sides /\ Writer \in Sides
  BY DEF Sides
<1>3. full' = Between(r, w)
  BY <1>1 DEF Cursors
<1>4. /\ pc'[Reader] # "closed" => next'[Reader] = r
      /\ index'[Reader] \in {r, StopIndex}
  BY <1>1, <1>2 DEF Cursors
<1>5. /\ pc'[Writer] # "closed" => next'[Writer] = w
      /\ index'[Writer] \in {w, StopIndex}
  BY <1>1, <1>2 DEF Cursors
<1>6. ~ committing'[Reader] =>
        reserved'[Reader] <= ReaderReservable(r, w, Size)
  BY <1>1, <1>2, RunsAreCounts DEF Cursors
<1>7. ~ committing'[Writer] =>
        reserved'[Writer] <= WriterReservable(r, w, Size)
  BY <1>1, <1>2, RunsAreCounts DEF Cursors
<1>8. /\ ~ committing'[Reader] /\ promised'[Reader] > 0 =>
           ReaderReservable(r, w, Size) > 0
      /\ ~ committing'[Writer] /\ promised'[Writer] > 0 =>
           WriterReservable(r, w, Size) > 0
  BY <1>1, <1>2 DEF Cursors
<1>9. Cursors(r, w)'
  BY <1>3, <1>4, <1>5, <1>6, <1>7, <1>8 DEF Cursors, Between, Cells
<1> QED BY <1>9

(* A span that is reserved ends before the cursor of the other side.       *)
LEMMA ReservingCursors ==
  ASSUME QueueInv, CursorsInv, NEW s \in Sides, NEW n \in Nat,
         pc[s] # "closed",
         UNCHANGED <<index, next, committing, promised, full, restarted>>,
         \A o \in Sides : pc'[o] # "closed" => pc[o] # "closed",
         reserved' = [reserved EXCEPT ![s] =
                        Lesser(n, Reservable(s, index[Other(s)]))]
  PROVE  CursorsInv'
<1> SUFFICES ASSUME ~ restarted PROVE \E r, w \in Cells : Cursors(r, w)'
  BY DEF CursorsInv, Cells
<1>1. PICK r \in Cells, w \in Cells : Cursors(r, w)
  BY DEF CursorsInv
<1>2. Reader \in Sides /\ Writer \in Sides /\ Reader # Writer
  BY SidesAreThreads DEF Sides
<1>3. /\ Reservable(s, index[Other(s)]) \in Cells
      /\ reserved \in [Sides -> Cells]
  BY CountsFit, SidesAreThreads DEF QueueInv, TypeOK
<1>4. /\ reserved'[s] \in Nat /\ Reservable(s, index[Other(s)]) \in Nat
      /\ reserved'[s] <= Reservable(s, index[Other(s)])
  BY <1>3, LesserFits, SizeAssumption DEF Cells
<1>5. reserved'[Reader] = reserved[Reader]
        \/ reserved'[Reader] <= ReaderReservable(r, w, Size)
  <2>1. CASE s = Reader
    <3>1. /\ next[s] = r /\ index[Other(s)] \in {w, StopIndex}
      BY <1>1, <1>2, <2>1 DEF Cursors, Other
    <3>2. Reservable(s, index[Other(s)]) \in {0, ReaderReservable(r, w, Size)}
      BY <1>2, <2>1, <3>1 DEF Reservable
    <3>3. ReaderReservable(r, w, Size) \in Nat
      BY RunsAreCounts
    <3> QED BY <1>4, <2>1, <3>2, <3>3
  <2>2. CASE s # Reader
    BY <1>2, <1>3, <2>2
  <2> QED BY <2>1, <2>2
<1>6. reserved'[Writer] = reserved[Writer]
        \/ reserved'[Writer] <= WriterReservable(r, w, Size)
  <2>1. CASE s = Writer
    <3>1. /\ next[s] = w /\ index[Other(s)] \in {r, StopIndex}
      BY <1>1, <2>1 DEF Cursors, Other
    <3>2. Reservable(s, index[Other(s)]) \in {0, WriterReservable(r, w, Size)}
      BY <2>1, <3>1 DEF Reservable
    <3>3. WriterReservable(r, w, Size) \in Nat
      BY RunsAreCounts
    <3> QED BY <1>4, <2>1, <3>2, <3>3
  <2>2. CASE s # Writer
    BY <1>2, <1>3, <2>2
  <2> QED BY <2>1, <2>2
<1>7. Cursors(r, w)'
  BY <1>1, <1>2, <1>5, <1>6 DEF Cursors, Between, Cells
<1> QED BY <1>7

(* A client that is told of available bytes can reserve some.              *)
LEMMA PromisingCursors ==
  ASSUME QueueInv, CursorsInv, NEW s \in Sides, pc[s] # "closed",
         UNCHANGED <<index, next, reserved, committing, full, restarted>>,
         \A o \in Sides : pc'[o] # "closed" => pc[o] # "closed",
         promised' = [promised EXCEPT ![s] = Available(s, index[Other(s)])]
  PROVE  CursorsInv'
<1> SUFFICES ASSUME ~ restarted PROVE \E r, w \in Cells : Cursors(r, w)'
  BY DEF CursorsInv, Cells
<1>1. PICK r \in Cells, w \in Cells : Cursors(r, w)
  BY DEF CursorsInv
<1>2. Reader \in Sides /\ Writer \in Sides /\ Reader # Writer
  BY SidesAreThreads DEF Sides
<1>3. \A o \in Sides :
        promised'[o] = IF o = s THEN Available(s, index[Other(s)])
                                ELSE promised[o]
  BY DEF QueueInv, TypeOK
<1>4. /\ r \in 0 .. Size - 1 /\ w \in 0 .. Size - 1
      /\ Size \in Nat /\ Size >= 2
  BY SizeAssumption DEF Cells
<1>5. ~ committing[Reader] /\ promised'[Reader] > 0 =>
        ReaderReservable(r, w, Size) > 0
  <2>1. CASE s = Reader
    <3>1. next[s] = r /\ index[Other(s)] \in {w, StopIndex}
      BY <1>1, <2>1 DEF Cursors, Other
    <3>2. Available(s, index[Other(s)]) \in {0, ReaderAvailable(r, w, Size)}
      BY <1>2, <2>1, <3>1 DEF Available
    <3>3. ReaderAvailable(r, w, Size) > 0 => ReaderReservable(r, w, Size) > 0
      BY <1>4 DEF ReaderAvailable, ReaderReservable
    <3> QED BY <1>2, <1>3, <2>1, <3>2, <3>3
  <2>2. CASE s # Reader
    BY <1>1, <1>2, <1>3, <2>2 DEF Cursors
  <2> QED BY <2>1, <2>2
<1>6. ~ committing[Writer] /\ promised'[Writer] > 0 =>
        WriterReservable(r, w, Size) > 0
  <2>1. CASE s = Writer
    <3>1. next[s] = w /\ index[Other(s)] \in {r, StopIndex}
      BY <1>1, <2>1 DEF Cursors, Other
    <3>2. Available(s, index[Other(s)]) \in {0, WriterAvailable(r, w, Size)}
      BY <2>1, <3>1 DEF Available
    <3>3. WriterAvailable(r, w, Size) > 0 => WriterReservable(r, w, Size) > 0
      BY <1>4 DEF WriterAvailable, WriterReservable
    <3> QED BY <1>2, <1>3, <2>1, <3>2, <3>3
  <2>2. CASE s # Writer
    BY <1>1, <1>2, <1>3, <2>2 DEF Cursors
  <2> QED BY <2>1, <2>2
<1>7. Cursors(r, w)'
  BY <1>1, <1>2, <1>5, <1>6 DEF Cursors, Between, Cells
<1> QED BY <1>7

(* An object that is made goes on at its cursor.                           *)
LEMMA OpenCursors ==
  ASSUME QueueInv, CursorsInv, NEW s \in Sides, Open(s)
  PROVE  CursorsInv'
<1> USE DEF Open
<1> SUFFICES ASSUME ~ restarted' PROVE \E r, w \in Cells : Cursors(r, w)'
  BY DEF CursorsInv, Cells
<1>1. ~ restarted /\ index[s] # StopIndex /\ full' = full
  OBVIOUS
<1>2. PICK r \in Cells, w \in Cells : Cursors(r, w)
  BY <1>1 DEF CursorsInv
<1>3. Reader \in Sides /\ Writer \in Sides /\ Reader # Writer
  BY SidesAreThreads DEF Sides
<1>4. /\ next'[s] = index[s] /\ reserved'[s] = 0
      /\ \A o \in Sides \ {s} : /\ next'[o] = next[o]
                                /\ reserved'[o] = reserved[o]
                                /\ pc'[o] = pc[o]
  BY <1>1, SidesAreThreads DEF QueueInv, TypeOK
<1>5. /\ pc'[Reader] # "closed" => next'[Reader] = r
      /\ pc'[Writer] # "closed" => next'[Writer] = w
  BY <1>1, <1>2, <1>3, <1>4 DEF Cursors
<1>6. ~ committing[Reader] =>
        reserved'[Reader] <= ReaderReservable(r, w, Size)
  BY <1>2, <1>3, <1>4, RunsAreCounts DEF Cursors
<1>7. ~ committing[Writer] =>
        reserved'[Writer] <= WriterReservable(r, w, Size)
  BY <1>2, <1>3, <1>4, RunsAreCounts DEF Cursors
<1>8. Cursors(r, w)'
  BY <1>1, <1>2, <1>5, <1>6, <1>7 DEF Cursors, Between, Cells
<1> QED BY <1>8

(* What a commit moves from one side of its cursor to the other.           *)
LEMMA WriterMoves ==
  ASSUME NEW r \in Cells, NEW w \in Cells,
         NEW n \in 1 .. WriterReservable(r, w, Size)
  PROVE  /\ Advance(w, n, Size) \in Cells
         /\ Between(r, Advance(w, n, Size)) = Between(r, w) \cup w .. w + n - 1
         /\ ReaderReservable(r, w, Size) <=
              ReaderReservable(r, Advance(w, n, Size), Size)
<1> DEFINE v == Advance(w, n, Size)
<1>1. /\ r \in 0 .. Size - 1 /\ w \in 0 .. Size - 1 /\ n \in Nat /\ n >= 1
      /\ Size \in Nat /\ Size >= 2
      /\ WriterReservable(r, w, Size) =
           IF w < r THEN r - w - 1
           ELSE IF r = 0 THEN Size - w - 1 ELSE Size - w
      /\ n <= WriterReservable(r, w, Size)
  BY SizeAssumption, RunsAreCounts DEF Cells, WriterReservable
<1>2. v = IF w + n = Size THEN 0 ELSE w + n
  BY DEF Advance
<1>3. w + n <= Size /\ v \in 0 .. Size - 1
  BY <1>1, <1>2
<1> HIDE DEF v
<1>4. ReaderReservable(r, w, Size) <= ReaderReservable(r, v, Size)
  BY <1>1, <1>2, <1>3 DEF ReaderReservable
<1>5. Between(r, v) = Between(r, w) \cup w .. w + n - 1
  BY <1>1, <1>2, <1>3 DEF Between, Cells
<1> QED BY <1>3, <1>4, <1>5 DEF Cells, v

LEMMA ReaderMoves ==
  ASSUME NEW r \in Cells, NEW w \in Cells,
         NEW n \in 1 .. ReaderReservable(r, w, Size)
  PROVE  /\ Advance(r, n, Size) \in Cells
         /\ Between(Advance(r, n, Size), w) = Between(r, w) \ (r .. r + n - 1)
         /\ WriterReservable(r, w, Size) <=
              WriterReservable(Advance(r, n, Size), w, Size)
<1> DEFINE v == Advance(r, n, Size)
<1>1. /\ r \in 0 .. Size - 1 /\ w \in 0 .. Size - 1 /\ n \in Nat /\ n >= 1
      /\ Size \in Nat /\ Size >= 2
      /\ ReaderReservable(r, w, Size) = IF r <= w THEN w - r ELSE Size - r
      /\ n <= ReaderReservable(r, w, Size)
  BY SizeAssumption, RunsAreCounts DEF Cells, ReaderReservable
<1>2. v = IF r + n = Size THEN 0 ELSE r + n
  BY DEF Advance
<1>3. r + n <= Size /\ v \in 0 .. Size - 1
  BY <1>1, <1>2
<1> HIDE DEF v
<1>4. WriterReservable(r, w, Size) <= WriterReservable(v, w, Size)
  BY <1>1, <1>2, <1>3 DEF WriterReservable
<1>5. Between(v, w) = Between(r, w) \ (r .. r + n - 1)
  BY <1>1, <1>2, <1>3 DEF Between, Cells
<1> QED BY <1>3, <1>4, <1>5 DEF Cells, v

LEMMA ExchangeCursors ==
  ASSUME QueueInv, CursorsInv, NEW s \in Sides, NEW n \in 1 .. Size,
         Exchange(s, n)
  PROVE  CursorsInv'
<1> USE DEF Exchange
<1> SUFFICES ASSUME ~ restarted PROVE \E r, w \in Cells : Cursors(r, w)'
  BY DEF CursorsInv, Cells
<1>1. PICK r \in Cells, w \in Cells : Cursors(r, w)
  BY DEF CursorsInv
<1>2. Reader \in Sides /\ Writer \in Sides /\ Reader # Writer
  BY SidesAreThreads DEF Sides
<1>3. ~ committing[s] /\ pc[s] # "closed"
  BY DEF QueueInv, CommitsAreBusy, CommitPlaces
<1>4. /\ next'[s] = Advance(next[s], n, Size)
      /\ index'[s] = Advance(next[s], n, Size)
      /\ committing'[s] = TRUE
      /\ \A o \in Sides \ {s} : /\ next'[o] = next[o]
                                /\ index'[o] = index[o]
                                /\ pc'[o] = pc[o]
                                /\ committing'[o] = committing[o]
  BY SidesAreThreads DEF QueueInv, TypeOK
<1>5. \A o \in Sides : reserved[o] \in Nat
  BY SizeAssumption DEF QueueInv, TypeOK, Cells
<1>6. CASE s = Writer
  <2> DEFINE v == Advance(w, n, Size)
  <2>1. next[s] = w /\ n \in 1 .. WriterReservable(r, w, Size)
    BY <1>1, <1>3, <1>5, <1>6, RunsAreCounts DEF Cursors
  <2>2. /\ v \in Cells
        /\ Between(r, v) = Between(r, w) \cup w .. w + n - 1
        /\ ReaderReservable(r, w, Size) <= ReaderReservable(r, v, Size)
    BY <2>1, WriterMoves
  <2> HIDE DEF v
  <2>3. full' = Between(r, v)
    BY <1>1, <1>6, <2>1, <2>2 DEF FullAfter, Window, Cursors
  <2>4. /\ pc'[Reader] # "closed" => next'[Reader] = r
        /\ pc'[Writer] # "closed" => next'[Writer] = v
        /\ index'[Reader] \in {r, StopIndex} /\ index'[Writer] = v
    BY <1>1, <1>2, <1>4, <1>6, <2>1 DEF Cursors, v
  <2>5. ~ committing'[Reader] =>
          reserved'[Reader] <= ReaderReservable(r, v, Size)
    BY <1>1, <1>2, <1>4, <1>5, <1>6, <2>2, RunsAreCounts DEF Cursors
  <2>6. ~ committing'[Reader] /\ promised'[Reader] > 0 =>
          ReaderReservable(r, v, Size) > 0
    BY <1>1, <1>2, <1>4, <1>6, <2>2, RunsAreCounts DEF Cursors
  <2>7. Cursors(r, v)'
    BY <1>4, <1>6, <2>3, <2>4, <2>5, <2>6 DEF Cursors, Between, Cells
  <2> QED BY <2>2, <2>7
<1>7. CASE s = Reader
  <2> DEFINE v == Advance(r, n, Size)
  <2>1. next[s] = r /\ n \in 1 .. ReaderReservable(r, w, Size)
    BY <1>1, <1>3, <1>5, <1>7, RunsAreCounts DEF Cursors
  <2>2. /\ v \in Cells
        /\ Between(v, w) = Between(r, w) \ (r .. r + n - 1)
        /\ WriterReservable(r, w, Size) <= WriterReservable(v, w, Size)
    BY <2>1, ReaderMoves
  <2> HIDE DEF v
  <2>3. full' = Between(v, w)
    BY <1>1, <1>2, <1>7, <2>1, <2>2 DEF FullAfter, Window, Cursors
  <2>4. /\ pc'[Reader] # "closed" => next'[Reader] = v
        /\ pc'[Writer] # "closed" => next'[Writer] = w
        /\ index'[Writer] \in {w, StopIndex} /\ index'[Reader] = v
    BY <1>1, <1>2, <1>4, <1>7, <2>1 DEF Cursors, v
  <2>5. ~ committing'[Writer] =>
          reserved'[Writer] <= WriterReservable(v, w, Size)
    BY <1>1, <1>2, <1>4, <1>5, <1>7, <2>2, RunsAreCounts DEF Cursors
  <2>6. ~ committing'[Writer] /\ promised'[Writer] > 0 =>
          WriterReservable(v, w, Size) > 0
    BY <1>1, <1>2, <1>4, <1>7, <2>2, RunsAreCounts DEF Cursors
  <2>7. Cursors(v, w)'
    BY <1>4, <1>7, <2>3, <2>4, <2>5, <2>6 DEF Cursors, Between, Cells
  <2> QED BY <2>2, <2>7
<1> QED BY <1>6, <1>7 DEF Sides

LEMMA NextCursorsInv ==
  QueueInv /\ CursorsInv /\ [Next]_vars => CursorsInv'
<1> SUFFICES ASSUME QueueInv, CursorsInv, [Next]_vars PROVE CursorsInv'
  OBVIOUS
<1> DEFINE Still ==
             /\ UNCHANGED <<full, restarted>>
             /\ \A s \in Sides :
                  /\ pc'[s] # "closed" => pc[s] # "closed" /\ next'[s] = next[s]
                  /\ index'[s] \in {index[s], StopIndex}
                  /\ ~ committing'[s] =>
                       \/ reserved'[s] = 0 /\ promised'[s] = 0
                       \/ /\ ~ committing[s]
                          /\ reserved'[s] = reserved[s]
                          /\ promised'[s] = promised[s]
<1>1. Still => CursorsInv'
  BY CursorsStay
<1>2. QueueInv /\ TypeOK
  BY DEF QueueInv
<1>3. ASSUME NEW s \in Sides, Close(s) PROVE Still
  BY <1>2, <1>3, SidesAreThreads DEF Close, TypeOK
<1>4. ASSUME NEW s \in Sides, NEW n \in 0 .. Size,
             TryReserve(s, n) \/ ReturnFromWaitReserve(s, n)
      PROVE  CursorsInv'
  <2>1. pc[s] # "closed" /\ n \in Nat
    BY <1>4, SizeAssumption DEF TryReserve, ReturnFromWaitReserve
  <2>2. /\ UNCHANGED <<index, next, committing, promised, full, restarted>>
        /\ \A o \in Sides : pc'[o] # "closed" => pc[o] # "closed"
        /\ reserved' = [reserved EXCEPT ![s] =
                          Lesser(n, Reservable(s, index[Other(s)]))]
    BY <1>2, <1>4, <2>1, SidesAreThreads
    DEF TryReserve, ReturnFromWaitReserve, historyVars, crashVars, TypeOK
  <2> QED BY <2>1, <2>2, ReservingCursors
<1>5. ASSUME NEW s \in Sides,
             \/ LoadUnexpected(s) \/ Sleep(s)
             \/ \E b \in BOOLEAN : StartWaiting(s, b)
      PROVE  Still
  BY <1>2, <1>5, SidesAreThreads
  DEF LoadUnexpected, Sleep, StartWaiting, historyVars, TypeOK
<1>6. ASSUME NEW t \in Threads, StopReadIndex(t) \/ StopWriteIndex(t)
      PROVE  Still
  <2>1. \A s \in Sides : pc'[s] # "closed" => pc[s] # "closed"
    BY <1>2, <1>6, SidesAreThreads DEF StopReadIndex, StopWriteIndex, TypeOK
  <2>2. \A s \in Sides : index'[s] \in {index[s], StopIndex}
    BY <1>2, <1>6 DEF StopReadIndex, StopWriteIndex, TypeOK
  <2> QED BY <1>6, <2>1, <2>2 DEF StopReadIndex, StopWriteIndex
<1>7. ASSUME NEW t \in Threads, NotifyReadIndex(t) \/ NotifyWriteIndex(t)
      PROVE  Still
  <2>1. \A s \in Sides : pc'[s] # "closed" => pc[s] # "closed"
    BY <1>2, <1>7, SidesAreThreads
    DEF NotifyReadIndex, NotifyWriteIndex, Woken, TypeOK
  <2> QED BY <1>7, <2>1 DEF NotifyReadIndex, NotifyWriteIndex
<1>8. ASSUME NEW s \in Sides, FinishCommit(s) PROVE Still
  <2>1. \A o \in Sides : pc'[o] # "closed" => pc[o] # "closed"
    BY <1>2, <1>8, SidesAreThreads DEF FinishCommit, Woken, TypeOK
  <2> QED BY <1>2, <1>8, <2>1 DEF FinishCommit, TypeOK
<1>13. ASSUME NEW s \in Sides, AvailableSize(s) \/ ReturnFromWait(s)
       PROVE  CursorsInv'
  <2>1. /\ pc[s] # "closed"
        /\ UNCHANGED <<index, next, reserved, committing, full, restarted>>
        /\ \A o \in Sides : pc'[o] # "closed" => pc[o] # "closed"
        /\ promised' = [promised EXCEPT ![s] = Available(s, index[Other(s)])]
    BY <1>2, <1>13, SidesAreThreads
    DEF AvailableSize, ReturnFromWait, historyVars, TypeOK
  <2> QED BY <2>1, PromisingCursors
<1>9. CASE UNCHANGED vars
  <2>1. Still
    BY <1>9 DEF vars
  <2> QED BY <1>1, <2>1
<1> HIDE DEF Still
<1>10. ASSUME NEW s \in Sides, Begin(s) PROVE CursorsInv'
  <2>1. CASE Open(s)
    BY <2>1, OpenCursors
  <2>2. CASE \E n \in 1 .. Size : Exchange(s, n)
    BY <2>2, ExchangeCursors
  <2>3. CASE \E n \in 0 .. Size : TryReserve(s, n)
    BY <1>4, <2>3
  <2>4. CASE Close(s) \/ AvailableSize(s)
    BY <1>1, <1>3, <1>13, <2>4
  <2>5. CASE \E b \in BOOLEAN : StartWaiting(s, b)
    BY <1>1, <1>5, <2>5
  <2> QED BY <1>10, <2>1, <2>2, <2>3, <2>4, <2>5 DEF Begin
<1>11. ASSUME NEW t \in Threads, Continue(t) PROVE CursorsInv'
  BY <1>1, <1>4, <1>5, <1>6, <1>7, <1>8, <1>11, <1>13 DEF Continue
<1>12. ASSUME NEW t \in Threads, StopReadIndex(t) PROVE CursorsInv'
  BY <1>1, <1>6, <1>12
<1> QED BY <1>9, <1>10, <1>11, <1>12 DEF Next

LEMMA NextClosed ==
  QueueInv /\ ClosedHoldNothing /\ [Next]_vars => ClosedHoldNothing'
<1> SUFFICES ASSUME QueueInv, ClosedHoldNothing, [Next]_vars,
                    NEW o \in Sides, pc'[o] = "closed"
             PROVE  reserved'[o] = 0
  BY DEF ClosedHoldNothing
<1> USE SidesAreThreads DEF QueueInv, TypeOK, ClosedHoldNothing
<1>1. ASSUME NEW s \in Sides, Open(s) \/ Close(s) PROVE reserved'[o] = 0
  BY <1>1 DEF Open, Close
<1>2. ASSUME NEW s \in Sides, NEW n \in 0 .. Size,
             TryReserve(s, n) \/ ReturnFromWaitReserve(s, n)
      PROVE  reserved'[o] = 0
  BY <1>2 DEF TryReserve, ReturnFromWaitReserve
<1>3. ASSUME NEW s \in Sides,
             \/ AvailableSize(s) \/ LoadUnexpected(s) \/ Sleep(s)
             \/ ReturnFromWait(s) \/ \E b \in BOOLEAN : StartWaiting(s, b)
      PROVE  reserved'[o] = 0
  BY <1>3 DEF AvailableSize, LoadUnexpected, Sleep, ReturnFromWait,
              StartWaiting
<1>4. ASSUME NEW s \in Sides, NEW n \in 1 .. Size, Exchange(s, n)
      PROVE  reserved'[o] = 0
  BY <1>4 DEF Exchange
<1>5. ASSUME NEW t \in Threads,
             \/ StopReadIndex(t) \/ NotifyReadIndex(t)
             \/ StopWriteIndex(t) \/ NotifyWriteIndex(t)
      PROVE  reserved'[o] = 0
  BY <1>5 DEF StopReadIndex, NotifyReadIndex, StopWriteIndex,
              NotifyWriteIndex, Woken
<1>6. ASSUME NEW s \in Sides, FinishCommit(s) PROVE reserved'[o] = 0
  BY <1>6 DEF FinishCommit, Woken
<1>7. CASE UNCHANGED vars
  BY <1>7 DEF vars
<1> HIDE DEF QueueInv, TypeOK, ClosedHoldNothing
<1>8. ASSUME NEW s \in Sides, Begin(s) PROVE reserved'[o] = 0
  BY <1>1, <1>2, <1>3, <1>4, <1>8 DEF Begin
<1>9. ASSUME NEW t \in Threads, Continue(t) PROVE reserved'[o] = 0
  BY <1>2, <1>3, <1>5, <1>6, <1>9 DEF Continue
<1> QED BY <1>5, <1>7, <1>8, <1>9 DEF Next

(* The whole inductive invariant of the reservations.                      *)
SpanInv == QueueInv /\ CursorsInv /\ ClosedHoldNothing

LEMMA SpanInvariance == Spec => []SpanInv
<1>1. Init => SpanInv
  <2>1. Init => ClosedHoldNothing
    BY DEF Init, ClosedHoldNothing
  <2> QED BY <2>1, InitQueueInv, InitCursorsInv DEF SpanInv
<1>2. SpanInv /\ [Next]_vars => SpanInv'
  BY NextInv, NextCursorsInv, NextClosed DEF SpanInv
<1> QED BY <1>1, <1>2, PTL DEF Spec

(* Up to the first object that is made from a stopped index, and wherever  *)
(* stops and deaths fall, what try_reserve and wait_reserve hand out is    *)
(* right: the reader's span holds only committed bytes that were not read  *)
(* yet, and the writer's holds none of them.                               *)
THEOREM SpansAreSound == Spec => []ReservationsSound
<1>1. SpanInv => ReservationsSound
  <2> SUFFICES ASSUME SpanInv, ~ restarted
               PROVE  Held(Reader) \subseteq full /\ Held(Writer) \cap full = {}
    BY DEF ReservationsSound
  <2>1. PICK r \in Cells, w \in Cells : Cursors(r, w)
    BY DEF SpanInv, CursorsInv
  <2>2. /\ r \in 0 .. Size - 1 /\ w \in 0 .. Size - 1 /\ Size \in Nat
        /\ full = {c \in 0 .. Size - 1 :
                     IF r <= w THEN r <= c /\ c < w ELSE c < w \/ r <= c}
    BY <2>1, SizeAssumption DEF Cells, Cursors, Between
  <2>3. /\ Reader \in Sides /\ Writer \in Sides
        /\ \A s \in Sides : next[s] \in Nat /\ reserved[s] \in Nat
    BY SizeAssumption DEF Sides, SpanInv, QueueInv, TypeOK, Cells
  <2>4. \A s \in Sides :
          \/ Held(s) = {}
          \/ /\ pc[s] # "closed" /\ ~ committing[s]
             /\ Held(s) = Window(s, reserved[s])
    BY <2>3 DEF SpanInv, ClosedHoldNothing, Held, Window
  <2>5. Held(Reader) \subseteq full
    <3> SUFFICES ASSUME pc[Reader] # "closed", ~ committing[Reader],
                        Held(Reader) = Window(Reader, reserved[Reader])
                 PROVE  Held(Reader) \subseteq full
      BY <2>3, <2>4
    <3>1. /\ next[Reader] = r
          /\ reserved[Reader] <= IF r <= w THEN w - r ELSE Size - r
      BY <2>1 DEF Cursors, ReaderReservable
    <3>2. r .. r + reserved[Reader] - 1 \subseteq full
      BY <2>2, <2>3, <3>1
    <3> QED BY <3>1, <3>2 DEF Window
  <2>6. Held(Writer) \cap full = {}
    <3> SUFFICES ASSUME pc[Writer] # "closed", ~ committing[Writer],
                        Held(Writer) = Window(Writer, reserved[Writer])
                 PROVE  Held(Writer) \cap full = {}
      BY <2>3, <2>4
    <3>1. /\ next[Writer] = w
          /\ reserved[Writer] <= IF w < r THEN r - w - 1
                                 ELSE IF r = 0 THEN Size - w - 1 ELSE Size - w
      BY <2>1 DEF Cursors, WriterReservable
    <3>2. (w .. w + reserved[Writer] - 1) \cap full = {}
      BY <2>2, <2>3, <3>1
    <3> QED BY <3>1, <3>2 DEF Window
  <2> QED BY <2>5, <2>6
<1> QED BY <1>1, SpanInvariance, PTL

(* A side can reserve something as soon as the other side's index is not   *)
(* the unexpected one.                                                     *)
LEMMA ExpectedIsReservable ==
  ASSUME TypeOK, NEW s \in Sides, NEW v \in Cells, v # Unexpected(s)
  PROVE  Reservable(s, v) > 0
<1>1. next[s] \in 0 .. Size - 1 /\ v \in 0 .. Size - 1
  BY DEF TypeOK, Cells
<1>2. v # StopIndex
  BY StopIndexAssumption
<1>3. CASE s = Writer
  BY <1>1, <1>2, <1>3, SizeAssumption
  DEF Reservable, WriterReservable, Unexpected, Advance
<1>4. CASE s # Writer
  BY <1>1, <1>2, <1>4, SizeAssumption
  DEF Reservable, ReaderReservable, Unexpected
<1> QED BY <1>3, <1>4

(* wait_reserve returns an empty buffer only because of a stop, and what   *)
(* available_size and wait have promised is still there when try_reserve   *)
(* takes it, whatever the other side has committed in between.             *)
THEOREM WaitingDoesDeliver == Spec => WaitingDelivers
<1> DEFINE Delivers ==
      \A s \in Sides, n \in 1 .. Size :
        /\ ReturnFromWaitReserve(s, n) /\ reserved'[s] = 0 => is_stopped
        /\ TryReserve(s, n) /\ promised[s] > 0 /\ ~ is_stopped /\ ~ restarted
             => reserved'[s] > 0
<1>1. SpanInv => Delivers
  <2> SUFFICES ASSUME SpanInv, NEW s \in Sides, NEW n \in 1 .. Size
               PROVE  /\ ReturnFromWaitReserve(s, n) /\ reserved'[s] = 0
                           => is_stopped
                      /\ TryReserve(s, n) /\ promised[s] > 0 /\ ~ is_stopped
                            /\ ~ restarted
                           => reserved'[s] > 0
    OBVIOUS
  <2> DEFINE v == index[Other(s)]
  <2>1. /\ TypeOK /\ QueueInv
        /\ v \in Cells \cup {StopIndex}
        /\ reserved \in [Sides -> Cells]
    BY SidesAreThreads DEF SpanInv, QueueInv, TypeOK
  <2>2. /\ Reader \in Sides /\ Writer \in Sides
        /\ ~ is_stopped => v # StopIndex
    BY DEF Sides, Other, is_stopped
  <2>3. Reservable(s, v) \in Nat
    <3>1. Reservable(s, v) \in Cells
      BY <2>1, CountsFit
    <3> QED BY <3>1, SizeAssumption DEF Cells
  <2>4. Reservable(s, v) > 0 => Lesser(n, Reservable(s, v)) > 0
    BY <2>3, SizeAssumption DEF Lesser
  <2>5. ASSUME ReturnFromWaitReserve(s, n), reserved'[s] = 0 PROVE is_stopped
    <3>1. /\ v # Unexpected(s)
          /\ Lesser(n, Reservable(s, v)) = 0
      BY <2>1, <2>5 DEF ReturnFromWaitReserve
    <3>2. v \notin Cells
      BY <2>1, <2>4, <3>1, ExpectedIsReservable
    <3> QED BY <2>1, <2>2, <3>2
  <2>6. ASSUME TryReserve(s, n), promised[s] > 0, ~ is_stopped, ~ restarted
        PROVE  reserved'[s] > 0
    <3>1. pc[s] = "idle" /\ ~ committing[s]
      BY <2>1, <2>6 DEF TryReserve, QueueInv, CommitsAreBusy, CommitPlaces
    <3>2. PICK r \in Cells, w \in Cells : Cursors(r, w)
      BY <2>6 DEF SpanInv, CursorsInv
    <3>3. Reservable(s, v) > 0
      <4>1. CASE s = Reader
        <5>1. next[s] = r /\ v = w /\ ReaderReservable(r, w, Size) > 0
          BY <2>2, <2>6, <3>1, <3>2, <4>1 DEF Cursors, Other, is_stopped
        <5> QED
          BY <2>2, <2>6, <4>1, <5>1, SidesAreThreads DEF Reservable
      <4>2. CASE s = Writer
        <5>1. next[s] = w /\ v = r /\ WriterReservable(r, w, Size) > 0
          BY <2>2, <2>6, <3>1, <3>2, <4>2 DEF Cursors, Other, is_stopped
        <5> QED
          BY <2>2, <2>6, <4>2, <5>1 DEF Reservable
      <4> QED BY <4>1, <4>2 DEF Sides
    <3>4. reserved'[s] = Lesser(n, Reservable(s, v))
      BY <2>1, <2>6 DEF TryReserve
    <3> QED BY <2>4, <3>3, <3>4
  <2> QED BY <2>5, <2>6
<1>2. SpanInv => [Delivers]_vars
  BY <1>1
<1> QED BY <1>2, SpanInvariance, PTL DEF WaitingDelivers
=============================================================================
