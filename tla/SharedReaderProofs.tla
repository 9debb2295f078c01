-------------------------- MODULE SharedReaderProofs --------------------------
(***************************************************************************)
(* Of SharedReader, for every size, every set of threads that stop and     *)
(* whatever the writer does: that no call uses a destroyed handle, and     *)
(* that the program is one of the clients that BlockingBytesQueue allows,  *)
(* so that what is proved of the queue holds of the program.               *)
(***************************************************************************)
EXTENDS SharedReader, BlockingBytesQueueProofs, TLAPS

(* The places of the main thread at which the handle is there.             *)
Alive == {"running", "stop", "stopping", "join", "destroy"}

(* What follows the join.                                                  *)
AfterJoin == {"destroy", "clear", "done"}

MainInCall == {"stop", "stopping"}
ReaderInCall == {"reserve", "waiting", "is_stopped", "is_stopped_write",
                 "commit", "committing"}

MainPlaces == Alive \cup {"open", "clear", "done"}
ReaderPlaces ==
  ReaderInCall \cup {"not_started", "loop", "reserved", "ended"}

(* The inductive invariant.  A thread has a pointer only in a call; the    *)
(* reading thread lives between the opening and the join; the handle lives *)
(* at least as long.                                                       *)
LifeInv ==
  /\ DOMAIN at = Users
  /\ DOMAIN loaded = Users
  /\ at[Main] \in MainPlaces
  /\ at[Reader] \in ReaderPlaces
  /\ loaded[Main] # "null" => at[Main] \in MainInCall
  /\ loaded[Reader] # "null" => at[Reader] \in ReaderInCall
  /\ at[Main] = "open" => at[Reader] = "not_started"
  /\ at[Main] \in AfterJoin => at[Reader] = "ended"
  /\ at[Main] \in Alive => handle = "alive"

(* The main thread is none of the two sides of the queue.                  *)
LEMMA MainIsNotReader == Main # Reader /\ Main \in Users /\ Reader \in Users
BY MainAssumption, StoppersAssumption DEF Users, Sides

(* Where a thread is when it has a pointer, the handle is there.           *)
LEMMA LifeInvSafe == LifeInv => CallsUseLiveHandles
BY DEF LifeInv, CallsUseLiveHandles, Users, MainPlaces, MainInCall,
       ReaderInCall, Alive, AfterJoin

LEMMA LifeInvInit == SharedInit => LifeInv
BY MainIsNotReader
   DEF SharedInit, LifeInv, MainPlaces, ReaderPlaces, Users, Alive, AfterJoin

(* The steps of the main thread.                                           *)
LEMMA LifeInvMain ==
  ASSUME LifeInv, MainNext
  PROVE  LifeInv'
<1> USE MainIsNotReader
    DEF LifeInv, MainPlaces, ReaderPlaces, MainInCall, ReaderInCall, Alive,
        AfterJoin, GoTo
<1>1. CASE OpenReader
  BY <1>1 DEF OpenReader, CreateHandle
<1>2. CASE LoadPointer(Main, "running", "stop")
  BY <1>2 DEF LoadPointer
<1>3. CASE StopThroughHandle
  BY <1>3 DEF StopThroughHandle, HasHandle
<1>4. CASE ContinueStop
  <2>1. CASE pc'[Main] = "idle"
    BY <1>4, <2>1 DEF ContinueStop, Return
  <2>2. CASE pc'[Main] # "idle"
    BY <1>4, <2>2 DEF ContinueStop, programVars
  <2> QED BY <2>1, <2>2
<1>5. CASE Join
  BY <1>5 DEF Join
<1>6. CASE DestroyHandle(Main)
  BY <1>6 DEF DestroyHandle
<1>7. CASE ClearPointer(Main)
  BY <1>7 DEF ClearPointer
<1> QED
  BY <1>1, <1>2, <1>3, <1>4, <1>5, <1>6, <1>7 DEF MainNext

(* The steps of the reading thread: it never touches the handle's life.    *)
LEMMA LifeInvReader ==
  ASSUME LifeInv, ReaderNext
  PROVE  LifeInv'
<1> USE MainIsNotReader
    DEF LifeInv, MainPlaces, ReaderPlaces, MainInCall, ReaderInCall, Alive,
        AfterJoin, GoTo
<1>1. CASE LoadPointer(Reader, "loop", "reserve")
  BY <1>1 DEF LoadPointer
<1>2. CASE TryReserveThroughHandle
  BY <1>2 DEF TryReserveThroughHandle, HasHandle, Return
<1>3. CASE WaitThroughHandle
  BY <1>3 DEF WaitThroughHandle, HasHandle
<1>4. CASE ContinueWait
  <2>1. CASE pc'[Reader] = "idle"
    BY <1>4, <2>1 DEF ContinueWait, Return
  <2>2. CASE pc'[Reader] # "idle"
    BY <1>4, <2>2 DEF ContinueWait, programVars
  <2> QED BY <2>1, <2>2
<1>5. CASE LoadPointer(Reader, "reserved", "is_stopped")
  BY <1>5 DEF LoadPointer
<1>6. CASE LookAtReadIndex
  BY <1>6 DEF LookAtReadIndex, HasHandle, Return
<1>7. CASE LookAtWriteIndex
  BY <1>7 DEF LookAtWriteIndex, Return
<1>8. CASE LoadPointer(Reader, "reserved", "commit")
  BY <1>8 DEF LoadPointer
<1>9. CASE CommitThroughHandle
  BY <1>9 DEF CommitThroughHandle, HasHandle
<1>10. CASE ContinueCommit
  <2>1. CASE pc'[Reader] = "idle"
    BY <1>10, <2>1 DEF ContinueCommit, Return
  <2>2. CASE pc'[Reader] # "idle"
    BY <1>10, <2>2 DEF ContinueCommit, programVars
  <2> QED BY <2>1, <2>2
<1> QED
  BY <1>1, <1>2, <1>3, <1>4, <1>5, <1>6, <1>7, <1>8, <1>9, <1>10
  DEF ReaderNext

LEMMA LifeInvNext ==
  ASSUME LifeInv, [SharedNext]_sharedVars
  PROVE  LifeInv'
<1>1. CASE MainNext
  BY <1>1, LifeInvMain
<1>2. CASE ReaderNext
  BY <1>2, LifeInvReader
<1>3. CASE WriterNext
  BY <1>3 DEF WriterNext, programVars, LifeInv
<1>4. CASE UNCHANGED sharedVars
  BY <1>4 DEF sharedVars, programVars, LifeInv
<1> QED
  BY <1>1, <1>2, <1>3, <1>4 DEF SharedNext

(* A handle is never used after it was destroyed, in the programs that     *)
(* join the reading thread before the object goes.                         *)
THEOREM HandlesAreAlive == SharedSpec => []CallsUseLiveHandles
<1>1. SharedSpec => []LifeInv
  BY LifeInvInit, LifeInvNext, PTL DEF SharedSpec
<1> QED
  BY <1>1, LifeInvSafe, PTL
-----------------------------------------------------------------------------
(* The program's steps as steps of the queue.                              *)

(* Any thread may stop, from the client or from commit.                    *)
LEMMA StopIsStep ==
  ASSUME NEW t \in Threads, StopReadIndex(t)
  PROVE  Next
BY DEF Next, Continue, StopReadIndex

LEMMA ContinueIsStep ==
  ASSUME NEW t \in Threads, Continue(t)
  PROVE  Next
BY DEF Next

LEMMA BeginIsStep ==
  ASSUME NEW s \in Sides, Begin(s)
  PROVE  Next
BY DEF Next

LEMMA MainIsThread == Main \in Threads /\ Reader \in Sides /\ Writer \in Sides
BY MainAssumption DEF Threads, Sides

(* Each step of the main thread takes at most one step of the queue.       *)
LEMMA MainStep ==
  ASSUME MainNext
  PROVE  [Next]_vars
<1> USE MainIsThread
<1>1. CASE OpenReader
  BY <1>1, BeginIsStep DEF OpenReader, CreateHandle, Begin
<1>2. CASE LoadPointer(Main, "running", "stop")
  BY <1>2 DEF LoadPointer
<1>3. CASE StopThroughHandle
  BY <1>3, StopIsStep DEF StopThroughHandle
<1>4. CASE ContinueStop
  BY <1>4, ContinueIsStep DEF ContinueStop
<1>5. CASE Join
  BY <1>5 DEF Join
<1>6. CASE DestroyHandle(Main)
  BY <1>6, BeginIsStep DEF DestroyHandle, Begin
<1>7. CASE ClearPointer(Main)
  BY <1>7 DEF ClearPointer
<1> QED
  BY <1>1, <1>2, <1>3, <1>4, <1>5, <1>6, <1>7 DEF MainNext

(* So does each step of the reading thread.                                *)
LEMMA ReaderStep ==
  ASSUME TypeOK, ReaderNext
  PROVE  [Next]_vars
<1> USE MainIsThread, SidesAreThreads
<1>1. CASE LoadPointer(Reader, "loop", "reserve")
  BY <1>1 DEF LoadPointer
<1>2. CASE TryReserveThroughHandle
  <2>1. PICK n \in 1 .. Size : TryReserve(Reader, n)
    BY <1>2 DEF TryReserveThroughHandle
  <2>2. n \in 0 .. Size
    OBVIOUS
  <2> QED BY <2>1, <2>2, BeginIsStep DEF Begin
<1>3. CASE WaitThroughHandle
  BY <1>3, BeginIsStep DEF WaitThroughHandle, Begin
<1>4. CASE ContinueWait
  BY <1>4, ContinueIsStep DEF ContinueWait
<1>5. CASE LoadPointer(Reader, "reserved", "is_stopped")
  BY <1>5 DEF LoadPointer
<1>6. CASE LookAtReadIndex
  BY <1>6 DEF LookAtReadIndex
<1>7. CASE LookAtWriteIndex
  BY <1>7 DEF LookAtWriteIndex
<1>8. CASE LoadPointer(Reader, "reserved", "commit")
  BY <1>8 DEF LoadPointer
<1>9. CASE CommitThroughHandle
  <2>1. Exchange(Reader, reserved[Reader])
    BY <1>9 DEF CommitThroughHandle
  <2>2. reserved[Reader] \in 1 .. Size
    BY <2>1, SizeAssumption DEF Exchange, TypeOK, Cells
  <2> QED BY <2>1, <2>2, BeginIsStep DEF Begin
<1>10. CASE ContinueCommit
  BY <1>10, ContinueIsStep DEF ContinueCommit
<1> QED
  BY <1>1, <1>2, <1>3, <1>4, <1>5, <1>6, <1>7, <1>8, <1>9, <1>10
  DEF ReaderNext

(* And each step of the writer's process.                                  *)
LEMMA WriterStep ==
  ASSUME WriterNext
  PROVE  [Next]_vars
BY MainIsThread, SidesAreThreads, StopIsStep, ContinueIsStep, BeginIsStep
DEF WriterNext

LEMMA SharedStep ==
  ASSUME TypeOK, [SharedNext]_sharedVars
  PROVE  [Next]_vars
BY MainStep, ReaderStep, WriterStep DEF SharedNext, sharedVars

LEMMA SharedQueueInv == SharedSpec => []QueueInv
<1>1. SharedInit => QueueInv
  BY InitQueueInv DEF SharedInit
<1>2. QueueInv /\ [SharedNext]_sharedVars => QueueInv'
  <2>1. QueueInv /\ [SharedNext]_sharedVars => [Next]_vars
    BY SharedStep DEF QueueInv
  <2> QED BY <2>1, NextInv
<1> QED BY <1>1, <1>2, PTL DEF SharedSpec

(* The program is a client that BlockingBytesQueue allows: the methods     *)
(* never have two calls of one side at once, nor commit more than they     *)
(* have reserved, and what the threads do between the calls leaves the     *)
(* queue as it is.                                                         *)
THEOREM ProgramUsesQueue == SharedSpec => Spec
<1>1. SharedInit => Init
  BY DEF SharedInit
<1>2. QueueInv /\ [SharedNext]_sharedVars => [Next]_vars
  BY SharedStep DEF QueueInv
<1> QED BY <1>1, <1>2, SharedQueueInv, PTL DEF SharedSpec, Spec

(* What is proved of the queue holds of the program: every stop by the     *)
(* main thread or by the writer's process stays, and nobody sleeps on an   *)
(* index that has changed.                                                 *)
THEOREM ProgramKeepsQueueSafe ==
  SharedSpec => [](StopIsKept /\ NoLostWakeup /\ NeverBothAsleep)
BY ProgramUsesQueue, StopsAreKept, NoWakeupIsLost, NobodySleepsForNothing, PTL
-----------------------------------------------------------------------------
(* What the program adds keeps its shape.                                  *)
LEMMA ProgramShape ==
  ASSUME SharedTypeOK, TypeOK', [SharedNext]_sharedVars
  PROVE  SharedTypeOK'
<1> USE MainIsNotReader DEF SharedTypeOK, GoTo
<1>1. CASE MainNext
  <2>1. CASE OpenReader
    BY <1>1, <2>1 DEF OpenReader, CreateHandle
  <2>2. CASE LoadPointer(Main, "running", "stop")
    BY <2>2 DEF LoadPointer
  <2>3. CASE StopThroughHandle
    BY <2>3 DEF StopThroughHandle
  <2>4. CASE ContinueStop
    BY <2>4 DEF ContinueStop, Return, programVars
  <2>5. CASE Join
    BY <2>5 DEF Join
  <2>6. CASE DestroyHandle(Main)
    BY <2>6 DEF DestroyHandle
  <2>7. CASE ClearPointer(Main)
    BY <2>7 DEF ClearPointer
  <2> QED
    BY <1>1, <2>1, <2>2, <2>3, <2>4, <2>5, <2>6, <2>7 DEF MainNext
<1>2. CASE ReaderNext
  <2>1. CASE LoadPointer(Reader, "loop", "reserve")
    BY <2>1 DEF LoadPointer
  <2>2. CASE TryReserveThroughHandle
    BY <2>2 DEF TryReserveThroughHandle, Return
  <2>3. CASE WaitThroughHandle
    BY <2>3 DEF WaitThroughHandle
  <2>4. CASE ContinueWait
    BY <2>4 DEF ContinueWait, Return, programVars
  <2>5. CASE LoadPointer(Reader, "reserved", "is_stopped")
    BY <2>5 DEF LoadPointer
  <2>6. CASE LookAtReadIndex
    BY <2>6 DEF LookAtReadIndex, Return
  <2>7. CASE LookAtWriteIndex
    BY <2>7 DEF LookAtWriteIndex, Return
  <2>8. CASE LoadPointer(Reader, "reserved", "commit")
    BY <2>8 DEF LoadPointer
  <2>9. CASE CommitThroughHandle
    BY <2>9 DEF CommitThroughHandle
  <2>10. CASE ContinueCommit
    BY <2>10 DEF ContinueCommit, Return, programVars
  <2> QED
    BY <1>2, <2>1, <2>2, <2>3, <2>4, <2>5, <2>6, <2>7, <2>8, <2>9, <2>10
    DEF ReaderNext
<1>3. CASE WriterNext
  BY <1>3 DEF WriterNext, programVars
<1>4. CASE UNCHANGED sharedVars
  BY <1>4 DEF sharedVars, programVars
<1> QED
  BY <1>1, <1>2, <1>3, <1>4 DEF SharedNext

(* Each thread is at a place of its program, and has loaded null or a      *)
(* pointer.                                                                *)
THEOREM SharedTypeCorrect == SharedSpec => []SharedTypeOK
<1>1. SharedInit => SharedTypeOK
  BY InitQueueInv, MainIsNotReader DEF SharedInit, SharedTypeOK, QueueInv
<1>2. SharedTypeOK /\ QueueInv' /\ [SharedNext]_sharedVars => SharedTypeOK'
  BY ProgramShape DEF QueueInv
<1> QED BY <1>1, <1>2, SharedQueueInv, PTL DEF SharedSpec
=============================================================================
