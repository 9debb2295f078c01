------------------------- MODULE BlockingBytesQueue -------------------------
(***************************************************************************)
(* blocking_bytes_queue_writer and blocking_bytes_queue_reader             *)
(* (include/shm_stream/details/blocking_bytes_queue.h): the queue of       *)
(* LightBytesQueue whose sides can sleep until the other one commits, and  *)
(* which any thread can stop.                                              *)
(*                                                                         *)
(* The two classes are mirror images, so an action is written once for a   *)
(* side s: the atomic index that s stores, index[s], is the next byte to   *)
(* write for the writer and the next byte to read for the reader, and s    *)
(* waits for a change of index[Other(s)].                                  *)
(*                                                                         *)
(* A step is one access to a shared atomic variable (or one notification)  *)
(* with the local computation that follows it; steps of different threads  *)
(* interleave.  The order of accesses to the buffer under relaxed atomics  *)
(* is the subject of LightBytesQueue, whose acquire and release accesses   *)
(* are the same; here the interest is in stop, sleep and wake-up.  Of the  *)
(* bytes only this is kept: which cells hold a committed byte that was not *)
(* read yet.                                                               *)
(*                                                                         *)
(* A definition marked "Fault" is the one after it with a plausible bug;   *)
(* nothing uses it.                                                        *)
(***************************************************************************)
EXTENDS Integers, FiniteSets, QueueIndices

CONSTANTS
  Size,      (* size_                                                      *)
  StopIndex, (* blocking_bytes_queue_stop_index()                          *)
  Stoppers,  (* threads, other than the two clients, that may call stop    *)
  Crashing   (* the sides whose process may die in the middle of a call    *)

Writer == "writer"
Reader == "reader"
Sides == {Writer, Reader}
Threads == Sides \cup Stoppers
Cells == 0 .. Size - 1

ASSUME SizeAssumption == Size \in Nat /\ Size >= 2
ASSUME StopIndexAssumption == StopIndex \in Nat \ Cells
ASSUME StoppersAssumption == Stoppers \cap Sides = {}
ASSUME CrashingAssumption == Crashing \subseteq Sides

VARIABLES
  index,      (* the two atomic indices in shared memory                   *)
  next,       (* next_write_index_ and next_read_index_                    *)
  reserved,   (* reserved_ of the two objects                              *)
  pc,         (* where each thread is                                      *)
  reserving,  (* a waiting side is in wait_reserve (else in wait)          *)
  committing, (* a side is in commit, after the exchange                   *)
  promised,   (* last available_size or wait result the client still has   *)
  full,       (* history: cells with a committed byte not yet read, until  *)
              (* restarted                                                 *)
  stopped,    (* history: the indices in which a stop has stored its index *)
  restarted,  (* history: an object was made from a stopped index          *)
  crashed,    (* history: a process died inside a call                     *)
  orphaned    (* history: the sides that slept when a process died that    *)
              (* was about to wake them, and have not been woken since     *)

vars == <<index, next, reserved, pc, reserving, committing, promised, full,
          stopped, restarted, crashed, orphaned>>
crashVars == <<crashed, orphaned>>
historyVars == <<full, stopped, restarted, crashVars>>

Other(s) == IF s = Writer THEN Reader ELSE Writer

(* Cells of the n bytes that start at the side's own index.                *)
Window(s, n) == next[s] .. next[s] + n - 1

Init ==
  /\ index = [s \in Sides |-> 0]
  /\ next = [s \in Sides |-> 0]
  /\ reserved = [s \in Sides |-> 0]
  /\ pc = [t \in Threads |-> IF t \in Sides THEN "closed" ELSE "idle"]
  /\ reserving = [s \in Sides |-> FALSE]
  /\ committing = [s \in Sides |-> FALSE]
  /\ promised = [s \in Sides |-> 0]
  /\ full = {}
  /\ stopped = {}
  /\ restarted = FALSE
  /\ crashed = FALSE
  /\ orphaned = {}
-----------------------------------------------------------------------------
(* What a side computes from the other side's index v.                     *)

Reservable(s, v) ==
  IF v = StopIndex THEN 0
  ELSE IF s = Writer THEN WriterReservable(v, next[s], Size)
  ELSE ReaderReservable(next[s], v, Size)

Available(s, v) ==
  IF v = StopIndex THEN 0
  ELSE IF s = Writer THEN WriterAvailable(v, next[s], Size)
  ELSE ReaderAvailable(next[s], v, Size)

(* Fault: the writer's unexpected index does not wrap.                     *)
UnexpectedWithoutWrap(s) == IF s = Writer THEN next[s] + 1 ELSE next[s]

(* The index of the other side with which this side can do nothing.        *)
Unexpected(s) ==
  IF s = Writer THEN Advance(next[s], 1, Size) ELSE next[s]
-----------------------------------------------------------------------------
(* Constructors, destructors and crashes.                                  *)

(* Fault: the constructor starts at 0 instead of the stored index.         *)
OpenAtZero(s) ==
  /\ pc[s] = "closed"
  /\ pc' = [pc EXCEPT ![s] = "idle"]
  /\ next' = [next EXCEPT ![s] = 0]
  /\ reserved' = [reserved EXCEPT ![s] = 0]
  /\ restarted' = (restarted \/ index[s] = StopIndex)
  /\ full' = IF restarted' THEN {} ELSE full
  /\ UNCHANGED <<index, reserving, committing, promised, stopped, crashVars>>

Open(s) ==
  /\ pc[s] = "closed"
  /\ pc' = [pc EXCEPT ![s] = "idle"]
  /\ next' = [next EXCEPT ![s] = IF index[s] = StopIndex THEN 0 ELSE index[s]]
  /\ reserved' = [reserved EXCEPT ![s] = 0]
  /\ restarted' = (restarted \/ index[s] = StopIndex)
  /\ full' = IF restarted' THEN {} ELSE full
  /\ UNCHANGED <<index, reserving, committing, promised, stopped, crashVars>>

(* The side has replaced a stop index in its commit and has yet to put it  *)
(* back.                                                                   *)
AboutToRestop(s) ==
  /\ committing[s]
  /\ pc[s] \in IF s = Reader THEN {"stop"}
                             ELSE {"stop", "notify_read", "stop_write"}

(* Thread t has changed the index on which side s sleeps and has yet to    *)
(* notify.                                                                 *)
AboutToWake(t, s) ==
  \/ s = Writer /\ pc[t] = "notify_read"
  \/ s = Reader /\ pc[t] = "notify_write"
  \/ t = Other(s) /\ committing[t]

(* The object is destroyed between two calls, or its process dies, which   *)
(* a Crashing side also does inside a call, and then neither restores the  *)
(* stop index it replaced nor notifies.                                    *)
Close(s) ==
  /\ pc[s] = "idle" \/ (s \in Crashing /\ pc[s] # "closed")
  /\ pc' = [pc EXCEPT ![s] = "closed"]
  /\ next' = [next EXCEPT ![s] = 0]
  /\ reserved' = [reserved EXCEPT ![s] = 0]
  /\ reserving' = [reserving EXCEPT ![s] = FALSE]
  /\ committing' = [committing EXCEPT ![s] = FALSE]
  /\ promised' = [promised EXCEPT ![s] = 0]
  /\ stopped' = IF AboutToRestop(s) THEN stopped \ {s} ELSE stopped
  /\ crashed' = (crashed \/ pc[s] # "idle")
  /\ orphaned' = (orphaned \ {s}) \cup
                   {o \in Sides \ {s} : pc[o] = "asleep" /\ AboutToWake(s, o)}
  /\ UNCHANGED <<index, full, restarted>>
-----------------------------------------------------------------------------
(* Calls that do not wait.                                                 *)

AvailableSize(s) ==
  /\ pc[s] = "idle"
  /\ promised' = [promised EXCEPT ![s] = Available(s, index[Other(s)])]
  /\ UNCHANGED <<index, next, reserved, pc, reserving, committing,
                 historyVars>>

TryReserve(s, expected_size) ==
  /\ pc[s] = "idle"
  /\ reserved' = [reserved EXCEPT ![s] =
                    Lesser(expected_size, Reservable(s, index[Other(s)]))]
  /\ UNCHANGED <<index, next, pc, reserving, committing, promised,
                 historyVars>>
-----------------------------------------------------------------------------
(* wait and wait_reserve.  boost's wait puts the thread to sleep only if   *)
(* the variable still has the unexpected value, in one step with the test, *)
(* and returns when it has another value.                                  *)

StartWaiting(s, to_reserve) ==
  /\ pc[s] = "idle"
  /\ pc' = [pc EXCEPT ![s] = "loading"]
  /\ reserving' = [reserving EXCEPT ![s] = to_reserve]
  /\ UNCHANGED <<index, next, reserved, committing, promised, historyVars>>

LoadUnexpected(s) ==
  /\ pc[s] = "loading"
  /\ index[Other(s)] = Unexpected(s)
  /\ pc' = [pc EXCEPT ![s] = "waiting"]
  /\ UNCHANGED <<index, next, reserved, reserving, committing, promised,
                 historyVars>>

Sleep(s) ==
  /\ pc[s] = "waiting"
  /\ pc' = [pc EXCEPT ![s] = IF index[Other(s)] = Unexpected(s)
                             THEN "asleep" ELSE "loading"]
  /\ UNCHANGED <<index, next, reserved, reserving, committing, promised,
                 historyVars>>

ReturnFromWait(s) ==
  /\ pc[s] = "loading"
  /\ ~ reserving[s]
  /\ index[Other(s)] # Unexpected(s)
  /\ pc' = [pc EXCEPT ![s] = "idle"]
  /\ promised' = [promised EXCEPT ![s] = Available(s, index[Other(s)])]
  /\ UNCHANGED <<index, next, reserved, reserving, committing, historyVars>>

ReturnFromWaitReserve(s, expected_size) ==
  /\ pc[s] = "loading"
  /\ reserving[s]
  /\ index[Other(s)] # Unexpected(s)
  /\ pc' = [pc EXCEPT ![s] = "idle"]
  /\ reserved' = [reserved EXCEPT ![s] =
                    Lesser(expected_size, Reservable(s, index[Other(s)]))]
  /\ reserving' = [reserving EXCEPT ![s] = FALSE]
  /\ UNCHANGED <<index, next, committing, promised, historyVars>>

(* notify_all on index[s]: only the other side sleeps on it.               *)
Woken(s) == IF pc[Other(s)] = "asleep"
            THEN [pc EXCEPT ![Other(s)] = "loading"] ELSE pc
-----------------------------------------------------------------------------
(* stop, by any thread, from the client or from commit.                    *)

(* Fault: stop stores the write index twice and the read index never.      *)
StopReadIndexMistaken(t) ==
  /\ pc[t] \in {"idle", "stop"}
  /\ index' = [index EXCEPT ![Writer] = StopIndex]
  /\ pc' = [pc EXCEPT ![t] = "notify_read"]
  /\ stopped' = stopped \cup {Writer}
  /\ UNCHANGED <<next, reserved, reserving, committing, promised, full,
                 restarted, crashVars>>

StopReadIndex(t) ==
  /\ pc[t] \in {"idle", "stop"}
  /\ index' = [index EXCEPT ![Reader] = StopIndex]
  /\ pc' = [pc EXCEPT ![t] = "notify_read"]
  /\ stopped' = stopped \cup {Reader}
  /\ UNCHANGED <<next, reserved, reserving, committing, promised, full,
                 restarted, crashVars>>

(* Fault: stop does not notify on the read index.                          *)
NotifyReadIndexOmitted(t) ==
  /\ pc[t] = "notify_read"
  /\ pc' = [pc EXCEPT ![t] = "stop_write"]
  /\ UNCHANGED <<index, next, reserved, reserving, committing, promised,
                 historyVars>>

NotifyReadIndex(t) ==
  /\ pc[t] = "notify_read"
  /\ pc' = [Woken(Reader) EXCEPT ![t] = "stop_write"]
  /\ orphaned' = orphaned \ {Writer}
  /\ UNCHANGED <<index, next, reserved, reserving, committing, promised,
                 full, stopped, restarted, crashed>>

StopWriteIndex(t) ==
  /\ pc[t] = "stop_write"
  /\ index' = [index EXCEPT ![Writer] = StopIndex]
  /\ pc' = [pc EXCEPT ![t] = "notify_write"]
  /\ stopped' = stopped \cup {Writer}
  /\ UNCHANGED <<next, reserved, reserving, committing, promised, full,
                 restarted, crashVars>>

InCommit(t) == t \in Sides /\ committing[t]

(* Fault: stop does not notify on the write index.                         *)
NotifyWriteIndexOmitted(t) ==
  /\ pc[t] = "notify_write"
  /\ pc' = [pc EXCEPT ![t] = IF InCommit(t) THEN "notify_own" ELSE "idle"]
  /\ UNCHANGED <<index, next, reserved, reserving, committing, promised,
                 historyVars>>

NotifyWriteIndex(t) ==
  /\ pc[t] = "notify_write"
  /\ pc' = [Woken(Writer) EXCEPT ![t] =
              IF InCommit(t) THEN "notify_own" ELSE "idle"]
  /\ orphaned' = orphaned \ {Reader}
  /\ UNCHANGED <<index, next, reserved, reserving, committing, promised,
                 full, stopped, restarted, crashed>>

(* What is_stopped finds when its two loads meet no other step.            *)
is_stopped == index[Reader] = StopIndex \/ index[Writer] = StopIndex
-----------------------------------------------------------------------------
(* commit: the exchange, then stop if it replaced the stop index, then the *)
(* notification.  commit(0) returns at once and changes nothing.           *)

FullAfter(s, n) ==
  IF restarted THEN {}
  ELSE IF s = Writer THEN full \cup Window(s, n)
  ELSE full \ Window(s, n)

(* Fault: the index is stored without a look at the one it replaces.       *)
ExchangeWithoutRestop(s, n) ==
  /\ pc[s] = "idle"
  /\ n \in 1 .. reserved[s]
  /\ next' = [next EXCEPT ![s] = Advance(next[s], n, Size)]
  /\ index' = [index EXCEPT ![s] = next'[s]]
  /\ pc' = [pc EXCEPT ![s] = "notify_own"]
  /\ committing' = [committing EXCEPT ![s] = TRUE]
  /\ full' = FullAfter(s, n)
  /\ UNCHANGED <<reserved, reserving, promised, stopped, restarted,
                 crashVars>>

Exchange(s, n) ==
  /\ pc[s] = "idle"
  /\ n \in 1 .. reserved[s]
  /\ next' = [next EXCEPT ![s] = Advance(next[s], n, Size)]
  /\ index' = [index EXCEPT ![s] = next'[s]]
  /\ pc' = [pc EXCEPT ![s] =
              IF index[s] = StopIndex THEN "stop" ELSE "notify_own"]
  /\ committing' = [committing EXCEPT ![s] = TRUE]
  /\ full' = FullAfter(s, n)
  /\ UNCHANGED <<reserved, reserving, promised, stopped, restarted,
                 crashVars>>

(* Fault: commit leaves the reservation as it is.                          *)
FinishCommitKeepsReserved(s) ==
  /\ pc[s] = "notify_own"
  /\ pc' = [Woken(s) EXCEPT ![s] = "idle"]
  /\ committing' = [committing EXCEPT ![s] = FALSE]
  /\ promised' = [promised EXCEPT ![s] = 0]
  /\ orphaned' = orphaned \ {Other(s)}
  /\ UNCHANGED <<index, next, reserved, reserving, full, stopped,
                 restarted, crashed>>

(* Fault: commit does not notify.                                          *)
FinishCommitSilently(s) ==
  /\ pc[s] = "notify_own"
  /\ pc' = [pc EXCEPT ![s] = "idle"]
  /\ reserved' = [reserved EXCEPT ![s] = 0]
  /\ committing' = [committing EXCEPT ![s] = FALSE]
  /\ promised' = [promised EXCEPT ![s] = 0]
  /\ UNCHANGED <<index, next, reserving, historyVars>>

FinishCommit(s) ==
  /\ pc[s] = "notify_own"
  /\ pc' = [Woken(s) EXCEPT ![s] = "idle"]
  /\ reserved' = [reserved EXCEPT ![s] = 0]
  /\ committing' = [committing EXCEPT ![s] = FALSE]
  /\ promised' = [promised EXCEPT ![s] = 0]
  /\ orphaned' = orphaned \ {Other(s)}
  /\ UNCHANGED <<index, next, reserving, full, stopped, restarted, crashed>>
-----------------------------------------------------------------------------
(* The steps of a call that has begun.                                     *)
Continue(t) ==
  \/ t \in Sides /\ (LoadUnexpected(t) \/ Sleep(t) \/ ReturnFromWait(t))
  \/ t \in Sides /\ \E n \in 0 .. Size : ReturnFromWaitReserve(t, n)
  \/ pc[t] = "stop" /\ StopReadIndex(t)
  \/ NotifyReadIndex(t)
  \/ StopWriteIndex(t)
  \/ NotifyWriteIndex(t)
  \/ t \in Sides /\ FinishCommit(t)

(* The steps with which a client begins a call, or makes a whole one.      *)
Begin(s) ==
  \/ Open(s)
  \/ Close(s)
  \/ AvailableSize(s)
  \/ \E n \in 0 .. Size : TryReserve(s, n)
  \/ \E b \in BOOLEAN : StartWaiting(s, b)
  \/ \E n \in 1 .. Size : Exchange(s, n)

Next ==
  \/ \E s \in Sides : Begin(s)
  \/ \E t \in Threads : pc[t] = "idle" /\ StopReadIndex(t)
  \/ \E t \in Threads : Continue(t)

Spec == Init /\ [][Next]_vars
-----------------------------------------------------------------------------
(* Safety.                                                                 *)

(* The shape of the state.                                                 *)
TypeOK ==
  /\ index \in [Sides -> Cells \cup {StopIndex}]
  /\ next \in [Sides -> Cells]
  /\ reserved \in [Sides -> Cells]
  /\ pc \in [Threads -> {"closed", "idle", "loading", "waiting", "asleep",
                         "stop", "notify_read", "stop_write", "notify_write",
                         "notify_own"}]
  /\ reserving \in [Sides -> BOOLEAN]
  /\ committing \in [Sides -> BOOLEAN]
  /\ promised \in [Sides -> Cells]
  /\ full \subseteq Cells
  /\ stopped \subseteq Sides
  /\ restarted \in BOOLEAN
  /\ crashed \in BOOLEAN
  /\ orphaned \subseteq Sides

(* A stop is never forgotten: an index that some stop has overwritten is   *)
(* the stop index for ever after, also when the thread that stops dies     *)
(* between the two stores, except while its owner is inside a commit that  *)
(* is going to store the stop index again (or has died there).             *)
StopIsKept ==
  \A s \in stopped : index[s] = StopIndex \/ AboutToRestop(s)

(* When a stop has reached the write index, which alone makes wait_reserve *)
(* of the reader come back empty, the reader's is_stopped is true between  *)
(* its calls for ever after: its first load finds the read index stopped,  *)
(* whatever either side commits, though each commit replaces a stop index, *)
(* and whoever stops, closes and opens.  A process that dies may leave the *)
(* read index as its commit has set it.                                    *)
ReaderSeesStop ==
  Writer \in stopped /\ ~ crashed /\ ~ committing[Reader]
    => index[Reader] = StopIndex

(* Cells the client of s may access now.                                   *)
Held(s) == IF committing[s] THEN {} ELSE Window(s, reserved[s])

(* The spans handed out lie in the buffer and have no cell in common, also *)
(* when objects are made again from a stopped index, and as long as none   *)
(* is made from one also when processes die inside their calls.            *)
ReservationsApart ==
  /\ \A s \in Sides : Held(s) \subseteq Cells
  /\ ~ (crashed /\ restarted) => Held(Writer) \cap Held(Reader) = {}

(* As long as no object was made from a stopped index the reader holds     *)
(* only bytes that were committed and not read yet, and the writer holds   *)
(* none of them, wherever stops and crashes fall.                          *)
ReservationsSound ==
  ~ restarted =>
    Held(Reader) \subseteq full /\ Held(Writer) \cap full = {}

(* No wake-up is lost: a side sleeps only while the other side's index is  *)
(* the one with which it can do nothing, or somebody who changed it is     *)
(* still going to notify.  The only exception is the notification of a     *)
(* process that died between its change of the index and notify_all, and   *)
(* the next notification on that index ends it.                            *)
NoLostWakeup ==
  \A s \in Sides : pc[s] = "asleep" =>
    \/ index[Other(s)] = Unexpected(s)
    \/ \E t \in Threads : AboutToWake(t, s)
    \/ s \in orphaned

(* The two sides never sleep with nobody left to wake one of them, unless  *)
(* a notification died with its process.                                   *)
NeverBothAsleep ==
  ~ /\ \A s \in Sides : pc[s] = "asleep"
    /\ \A t \in Threads : pc[t] \in {"idle", "asleep"}
    /\ orphaned = {}

(* wait_reserve returns an empty buffer, for a size that is not zero, only *)
(* because of the stop index; and a client that was told of available      *)
(* bytes gets some from try_reserve unless the queue is being stopped or   *)
(* an object of it was made from a stopped index.                          *)
WaitingDelivers ==
  [][\A s \in Sides, n \in 1 .. Size :
       /\ ReturnFromWaitReserve(s, n) /\ reserved'[s] = 0 => is_stopped
       /\ TryReserve(s, n) /\ promised[s] > 0 /\ ~ is_stopped /\ ~ restarted
            => reserved'[s] > 0]_vars
-----------------------------------------------------------------------------
(* Liveness.  The operating system keeps running every thread that is not  *)
(* asleep; no fairness is assumed of what the clients call.                *)

FairSpec == Spec /\ \A t \in Threads : WF_vars(Continue(t))

Waiting(s) == pc[s] \in {"loading", "waiting", "asleep"}

(* Beginning to stop is enough: every side that waits when a stop has made *)
(* its first store returns from wait or wait_reserve, whatever the other   *)
(* side commits meanwhile.                                                 *)
StopReleasesWaiters ==
  \A s \in Sides :
    Waiting(s) /\ (\E t \in Threads : pc[t] = "notify_read") ~> ~ Waiting(s)

(* A client that transfers: it waits for a reservation when it has none,   *)
(* commits some of the one it has, and ends the call it is in.             *)
TransferStep(s) ==
  \/ Open(s)
  \/ reserved[s] = 0 /\ StartWaiting(s, TRUE)
  \/ LoadUnexpected(s)
  \/ Sleep(s)
  \/ ReturnFromWait(s)
  \/ \E n \in 1 .. Size : ReturnFromWaitReserve(s, n) \/ Exchange(s, n)
  \/ FinishCommit(s)

(* Two clients that transfer for ever, from whatever state they had come   *)
(* to, both commit again and again if there is no stop: no interleaving of *)
(* sleeping and notifying leaves one of them waiting for ever.             *)
BothSidesProgress ==
  /\ [](stopped = {})
  /\ <>[][\E s \in Sides : TransferStep(s)]_vars
  /\ \A s \in Sides : WF_vars(TransferStep(s))
  => \A s \in Sides : []<>(pc[s] = "notify_own")
-----------------------------------------------------------------------------
(* What the documentation says of a stopped queue and the code does not    *)
(* keep: it fails in the window between the exchange in commit and the     *)
(* store of the stop index that follows it.                                *)

(* "After stop of this queue, this function returns empty buffers."        *)
EmptyAfterStop ==
  [][\A s \in Sides, n \in 1 .. Size :
       /\ TryReserve(s, n)
       /\ stopped = Sides
       /\ \A t \in Threads :
            pc[t] \notin {"notify_read", "stop_write", "notify_write"}
       => reserved'[s] = 0]_vars
=============================================================================
