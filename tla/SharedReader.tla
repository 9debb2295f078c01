----------------------------- MODULE SharedReader -----------------------------
(***************************************************************************)
(* One blocking_stream_reader (include/shm_stream/blocking_stream.h) that  *)
(* two threads use, as in tests/integ/blocking/reader.cpp and              *)
(* tests/bench/send_messages/blocking_stream_test.cpp: a thread reads in a *)
(* loop until it finds the stream stopped, and the main thread opens the   *)
(* object, stops it, waits for the other thread and destroys the object.   *)
(* It composes the queue of BlockingBytesQueue, whose side Reader is the   *)
(* reading thread, with the life of the handle, the C object that the      *)
(* smart pointer in the C++ object owns.  The writer's process is any that *)
(* BlockingBytesQueue allows.                                              *)
(*                                                                         *)
(* Every method first loads the pointer and then calls a C function, which *)
(* does nothing on a null pointer and uses the handle otherwise: these are *)
(* steps of their own, and what other threads do falls between them.       *)
(*                                                                         *)
(* A definition marked "Fault" is the one after it with a plausible bug;   *)
(* nothing uses it.                                                        *)
(***************************************************************************)
EXTENDS BlockingBytesQueue

CONSTANT Main (* the main thread *)

ASSUME MainAssumption == Main \in Stoppers

Users == {Main, Reader}

VARIABLES
  pointer, (* the smart pointer: null, or not; it is not null while the    *)
           (* handle is being destroyed                                    *)
  handle,  (* the handle: none yet, alive, or destroyed                    *)
  at,      (* what each thread does now in its program                     *)
  loaded   (* the pointer that each thread has loaded for the call it is   *)
           (* in                                                           *)

programVars == <<pointer, handle, at, loaded>>
sharedVars == <<vars, programVars>>

SharedInit ==
  /\ Init
  /\ pointer = "null"
  /\ handle = "none"
  /\ at = [t \in Users |-> IF t = Main THEN "open" ELSE "not_started"]
  /\ loaded = [t \in Users |-> "null"]

GoTo(t, place) == at' = [at EXCEPT ![t] = place]

(* A method begins: get() of the smart pointer.                            *)
LoadPointer(t, from, call) ==
  /\ at[t] = from
  /\ GoTo(t, call)
  /\ loaded' = [loaded EXCEPT ![t] = pointer]
  /\ UNCHANGED <<vars, pointer, handle>>

(* The C function returns.                                                 *)
Return(t, place) ==
  /\ GoTo(t, place)
  /\ loaded' = [loaded EXCEPT ![t] = "null"]
  /\ UNCHANGED <<pointer, handle>>

HasHandle(t, call) == at[t] = call /\ loaded[t] # "null"
-----------------------------------------------------------------------------
(* The main thread.                                                        *)

(* A handle is made, with a queue object in it.                            *)
CreateHandle == Open(Reader) /\ handle' = "alive"

(* open makes the handle and assigns it; then the thread is started.       *)
OpenReader ==
  /\ at[Main] = "open"
  /\ CreateHandle
  /\ pointer' = "handle"
  /\ at' = [at EXCEPT ![Main] = "running", ![Reader] = "loop"]
  /\ UNCHANGED loaded

StopThroughHandle ==
  /\ HasHandle(Main, "stop")
  /\ StopReadIndex(Main)
  /\ GoTo(Main, "stopping")
  /\ UNCHANGED <<pointer, handle, loaded>>

ContinueStop ==
  /\ at[Main] = "stopping"
  /\ Continue(Main)
  /\ IF pc'[Main] = "idle" THEN Return(Main, "join")
                           ELSE UNCHANGED programVars

(* Fault: the thread that reads is not waited for.                         *)
NoJoin ==
  /\ at[Main] = "join"
  /\ GoTo(Main, "destroy")
  /\ UNCHANGED <<vars, pointer, handle, loaded>>

Join ==
  /\ at[Main] = "join"
  /\ at[Reader] = "ended"
  /\ GoTo(Main, "destroy")
  /\ UNCHANGED <<vars, pointer, handle, loaded>>

(* close, and the destructor of the object: the handle is destroyed before *)
(* the pointer becomes null.                                               *)
DestroyHandle(t) ==
  /\ at[t] = "destroy"
  /\ Close(Reader)
  /\ handle' = "destroyed"
  /\ GoTo(t, "clear")
  /\ UNCHANGED <<pointer, loaded>>

ClearPointer(t) ==
  /\ at[t] = "clear"
  /\ pointer' = "null"
  /\ GoTo(t, "done")
  /\ UNCHANGED <<vars, handle, loaded>>

MainNext ==
  \/ OpenReader
  \/ LoadPointer(Main, "running", "stop")
  \/ StopThroughHandle
  \/ ContinueStop
  \/ Join
  \/ DestroyHandle(Main)
  \/ ClearPointer(Main)
-----------------------------------------------------------------------------
(* The reading thread: it asks for bytes, in one of the ways there are, and *)
(* commits what it got, or else looks whether the stream is stopped.       *)

TryReserveThroughHandle ==
  /\ HasHandle(Reader, "reserve")
  /\ \E n \in 1 .. Size : TryReserve(Reader, n)
  /\ Return(Reader, "reserved")

(* wait, and wait_reserve.                                                 *)
WaitThroughHandle ==
  /\ HasHandle(Reader, "reserve")
  /\ \E to_reserve \in BOOLEAN : StartWaiting(Reader, to_reserve)
  /\ GoTo(Reader, "waiting")
  /\ UNCHANGED <<pointer, handle, loaded>>

ContinueWait ==
  /\ at[Reader] = "waiting"
  /\ Continue(Reader)
  /\ IF pc'[Reader] = "idle" THEN Return(Reader, "reserved")
                             ELSE UNCHANGED programVars

LookAtReadIndex ==
  /\ HasHandle(Reader, "is_stopped")
  /\ IF index[Reader] = StopIndex
       THEN Return(Reader, "ended")
       ELSE GoTo(Reader, "is_stopped_write")
            /\ UNCHANGED <<pointer, handle, loaded>>
  /\ UNCHANGED vars

LookAtWriteIndex ==
  /\ at[Reader] = "is_stopped_write"
  /\ Return(Reader, IF index[Writer] = StopIndex THEN "ended" ELSE "loop")
  /\ UNCHANGED vars

CommitThroughHandle ==
  /\ HasHandle(Reader, "commit")
  /\ Exchange(Reader, reserved[Reader])
  /\ GoTo(Reader, "committing")
  /\ UNCHANGED <<pointer, handle, loaded>>

ContinueCommit ==
  /\ at[Reader] = "committing"
  /\ Continue(Reader)
  /\ IF pc'[Reader] = "idle" THEN Return(Reader, "loop")
                             ELSE UNCHANGED programVars

ReaderNext ==
  \/ LoadPointer(Reader, "loop", "reserve")
  \/ TryReserveThroughHandle
  \/ WaitThroughHandle
  \/ ContinueWait
  \/ reserved[Reader] = 0 /\ LoadPointer(Reader, "reserved", "is_stopped")
  \/ LookAtReadIndex
  \/ LookAtWriteIndex
  \/ reserved[Reader] > 0 /\ LoadPointer(Reader, "reserved", "commit")
  \/ CommitThroughHandle
  \/ ContinueCommit
-----------------------------------------------------------------------------
(* The writer's process, which may stop the stream, too, and may die.      *)
WriterNext ==
  /\ \/ Begin(Writer)
     \/ pc[Writer] = "idle" /\ StopReadIndex(Writer)
     \/ Continue(Writer)
  /\ UNCHANGED programVars

SharedNext == MainNext \/ ReaderNext \/ WriterNext

SharedSpec ==
  /\ SharedInit
  /\ [][SharedNext]_sharedVars
  /\ WF_sharedVars(MainNext)
  /\ WF_sharedVars(ReaderNext)
-----------------------------------------------------------------------------
(* The shape of the state this module adds.                                *)
SharedTypeOK ==
  /\ TypeOK
  /\ pointer \in {"null", "handle"}
  /\ handle \in {"none", "alive", "destroyed"}
  /\ at \in [Users -> {"open", "running", "stop", "stopping", "join",
                       "destroy", "clear", "done", "not_started", "loop",
                       "reserve", "waiting", "reserved", "is_stopped",
                       "is_stopped_write", "commit", "committing", "ended"}]
  /\ loaded \in [Users -> {"null", "handle"}]

(* No call uses a handle that was destroyed, nor does a call begin with    *)
(* one: what a method has loaded stays valid until its C function returns. *)
CallsUseLiveHandles == \A t \in Users : loaded[t] # "null" => handle = "alive"

WriterCommits == \E n \in 1 .. Size : Exchange(Writer, n)

(* Once the main thread has begun to stop the stream the program ends,     *)
(* whatever way of asking for bytes the reading thread is in, and whatever *)
(* the writer stops or commits meanwhile, also if the writer's process     *)
(* dies or never runs again: the reading thread is woken if it sleeps and  *)
(* finds the stream stopped when it has got no bytes.  Only a writer that  *)
(* commits for ever can keep it: in commit each side undoes the stop for a *)
(* moment, the other one can reserve something in that moment and commit   *)
(* it in the next, and so on.                                              *)
ProgramEnds ==
  <>[][~ WriterCommits]_sharedVars =>
    (at[Main] = "stopping" ~> at[Main] = "done")
-----------------------------------------------------------------------------
(* Another program with the same calls: the reading thread itself closes   *)
(* the object when it has found the stream stopped.  The main thread calls *)
(* nothing but stop.                                                       *)

(* stop on a null pointer returns at once.                                 *)
StopOnNull ==
  /\ at[Main] = "stop"
  /\ loaded[Main] = "null"
  /\ Return(Main, "join")
  /\ UNCHANGED vars

OwnerClosesNext ==
  \/ OpenReader
  \/ LoadPointer(Main, "running", "stop")
  \/ StopThroughHandle
  \/ StopOnNull
  \/ ContinueStop
  \/ ReaderNext
  \/ at[Reader] = "ended" /\ GoTo(Reader, "destroy")
     /\ UNCHANGED <<vars, pointer, handle, loaded>>
  \/ DestroyHandle(Reader)
  \/ ClearPointer(Reader)
  \/ WriterNext

OwnerClosesSpec == SharedInit /\ [][OwnerClosesNext]_sharedVars

(* "All operation is safe if only one reader exists, except for stop and   *)
(* is_stopped functions which are safe to call from any threads.": the     *)
(* main thread's stop works on a handle that is there.                     *)
StopIsSafe ==
  at[Main] \in {"stop", "stopping"} /\ loaded[Main] # "null" =>
    handle = "alive"
=============================================================================
