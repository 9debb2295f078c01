---------------------------- MODULE StreamRegistry ----------------------------
(***************************************************************************)
(* How processes find the shared memory of a stream by its name:           *)
(* prepare_..._stream_data, create_and_initialize_..._stream_data and      *)
(* remove_..._stream of src/shm_stream/c_interface, the functions of       *)
(* atomic_stream_internal.cpp they are made of, and the open, close,       *)
(* create and remove of the C and C++ interfaces above them.  The files of *)
(* light and blocking streams are the same up to names.                    *)
(*                                                                         *)
(* One stream name is modelled.  The operating system keeps two name       *)
(* entries for it: the segment of shared memory and the named mutex.  A    *)
(* name can be removed while processes still use what it stood for, and    *)
(* then stand for something new: segments and mutexes are numbered in the  *)
(* order in which they are made, and 0 is none.                            *)
(*                                                                         *)
(* A "process" is one thread with one stream object.  A step is one call   *)
(* of the operating system, or one stage of the initialisation.            *)
(*                                                                         *)
(* A definition marked "Fault" is the one after it with a plausible bug;   *)
(* nothing uses it.                                                        *)
(***************************************************************************)
EXTENDS Integers, Sequences

CONSTANTS
  Processes,
  Removers,     (* the processes that may call remove                      *)
  Crashing,     (* the processes that may die, and start again             *)
  AskedSizes,   (* the buffer sizes that calls of open and create ask for  *)
  MinSize,      (* min_size() and max_size() of the queue classes          *)
  MaxSize,
  SpaceRunsOut, (* truncate may fail for want of memory                    *)
  MaxRemoves    (* bound on the calls of remove                            *)

ASSUME RemoversAssumption == Removers \subseteq Processes
ASSUME CrashingAssumption == Crashing \subseteq Processes
ASSUME SizesAssumption ==
  /\ AskedSizes \subseteq Nat
  /\ MinSize \in Nat \ {0} /\ MaxSize \in Nat /\ MinSize <= MaxSize
ASSUME SpaceRunsOutAssumption == SpaceRunsOut \in BOOLEAN
ASSUME MaxRemovesAssumption == MaxRemoves \in Nat

None == 0

(* Holders of a mutex, beside the processes.                               *)
Nobody == "nobody"
Dead == "dead"
ASSUME HoldersAssumption == {Nobody, Dead} \cap Processes = {}

VARIABLES
  shm_name,   (* the segment under the stream's name                       *)
  mutex_name, (* the mutex under the stream's name                         *)
  segment,    (* of each segment its room for the buffer, and the header's *)
              (* buffer_size; both are 0 at first                          *)
  holder,     (* who has locked each mutex                                 *)
  pc,         (* where each process is                                     *)
  call,       (* the kind of call it is in, and the size it asks for       *)
  mutex,      (* the mutex it has open                                     *)
  data,       (* atomic_stream_data: segment, and size of the buffer       *)
  stream,     (* the same of the stream object it has, if any              *)
  outcome,    (* how the call goes, or went                                *)
  removed,    (* history: the segments whose name was removed              *)
  removes     (* history: number of calls of remove                        *)

vars == <<shm_name, mutex_name, segment, holder, pc, call, mutex, data, stream,
          outcome, removed, removes>>

View(s, n) == [segment |-> s, size |-> n]
NoView == View(None, 0)

Call(kind, asked) == [kind |-> kind, asked |-> asked]
NoCall == Call("none", 0)

Init ==
  /\ shm_name = None
  /\ mutex_name = None
  /\ segment = << >>
  /\ holder = << >>
  /\ pc = [p \in Processes |-> "idle"]
  /\ call = [p \in Processes |-> NoCall]
  /\ mutex = [p \in Processes |-> None]
  /\ data = [p \in Processes |-> NoView]
  /\ stream = [p \in Processes |-> NoView]
  /\ outcome = [p \in Processes |-> "none"]
  /\ removed = {}
  /\ removes = 0
-----------------------------------------------------------------------------
(* The lock around prepare and remove.                                     *)

Calls(p) ==
  {Call(kind, asked) : kind \in {"open", "create"}, asked \in AskedSizes}
    \cup IF p \in Removers /\ removes < MaxRemoves THEN {Call("remove", 0)} ELSE {}

(* A call begins: the named mutex is opened, and made if there is none.    *)
OpenMutex(p, c) ==
  /\ pc[p] = "idle"
  /\ IF mutex_name = None
       THEN /\ holder' = Append(holder, Nobody)
            /\ mutex_name' = Len(holder')
       ELSE UNCHANGED <<mutex_name, holder>>
  /\ mutex' = [mutex EXCEPT ![p] = mutex_name']
  /\ removes' = IF c.kind = "remove" THEN removes + 1 ELSE removes
  /\ pc' = [pc EXCEPT ![p] = "lock"]
  /\ call' = [call EXCEPT ![p] = c]
  /\ outcome' = [outcome EXCEPT ![p] = "pending"]
  /\ UNCHANGED <<shm_name, segment, data, stream, removed>>

(* Fault: the lock is not waited for.                                      *)
LockRegardless(p) ==
  /\ pc[p] = "lock"
  /\ holder' = [holder EXCEPT ![mutex[p]] = p]
  /\ pc' = [pc EXCEPT ![p] = IF call[p].kind = "remove"
                             THEN "remove_shm" ELSE "open_shm"]
  /\ UNCHANGED <<shm_name, mutex_name, segment, call, mutex, data, stream,
                 outcome, removed, removes>>

Lock(p) ==
  /\ pc[p] = "lock"
  /\ holder[mutex[p]] = Nobody
  /\ holder' = [holder EXCEPT ![mutex[p]] = p]
  /\ pc' = [pc EXCEPT ![p] = IF call[p].kind = "remove"
                             THEN "remove_shm" ELSE "open_shm"]
  /\ UNCHANGED <<shm_name, mutex_name, segment, call, mutex, data, stream,
                 outcome, removed, removes>>

EndCall(p, result) ==
  /\ pc' = [pc EXCEPT ![p] = "idle"]
  /\ call' = [call EXCEPT ![p] = NoCall]
  /\ data' = [data EXCEPT ![p] = NoView]
  /\ outcome' = [outcome EXCEPT ![p] = result]

(* What follows in a call when the lock has been given up.  After prepare, *)
(* create is done: it never looks at the size of the buffer.               *)
AfterUnlock(p) ==
  IF outcome[p] # "pending" THEN EndCall(p, outcome[p])
  ELSE IF call[p].kind = "create" THEN EndCall(p, "success")
  ELSE /\ pc' = [pc EXCEPT ![p] = IF call[p].kind = "open"
                                  THEN "construct" ELSE "remove_mutex"]
       /\ UNCHANGED <<call, data, outcome>>

(* Fault: a call that fails does not unlock.                               *)
UnlockIfFine(p) ==
  /\ pc[p] = "unlock"
  /\ holder' = [holder EXCEPT ![mutex[p]] =
                  IF outcome[p] = "pending" THEN Nobody ELSE @]
  /\ mutex' = [mutex EXCEPT ![p] = None]
  /\ AfterUnlock(p)
  /\ UNCHANGED <<shm_name, mutex_name, segment, stream, removed, removes>>

(* The lock's destructor, on return and when an exception passes.          *)
Unlock(p) ==
  /\ pc[p] = "unlock"
  /\ holder' = [holder EXCEPT ![mutex[p]] = Nobody]
  /\ mutex' = [mutex EXCEPT ![p] = None]
  /\ AfterUnlock(p)
  /\ UNCHANGED <<shm_name, mutex_name, segment, stream, removed, removes>>
-----------------------------------------------------------------------------
(* prepare, with the lock held.                                            *)

(* An exception leaves prepare; the C interface makes an error code of it. *)
Fail(p, error) ==
  /\ pc' = [pc EXCEPT ![p] = "unlock"]
  /\ data' = [data EXCEPT ![p] = NoView]
  /\ outcome' = [outcome EXCEPT ![p] = error]

OpenShm(p) ==
  /\ pc[p] = "open_shm"
  /\ IF shm_name # None
       THEN /\ data' = [data EXCEPT ![p] = View(shm_name, 0)]
            /\ pc' = [pc EXCEPT ![p] = "extract"]
       ELSE /\ pc' = [pc EXCEPT ![p] = "create_shm"]
            /\ UNCHANGED data
  /\ UNCHANGED <<shm_name, mutex_name, segment, holder, call, mutex, stream,
                 outcome, removed, removes>>

(* Fault: an exception of boost passes through the C interface.            *)
ExtractUntranslated(p) ==
  /\ pc[p] = "extract"
  /\ LET s == segment[data[p].segment]
     IN  IF s.room = 0
           THEN Fail(p, "interprocess_exception")
           ELSE /\ data' = [data EXCEPT ![p].size = s.buffer_size]
                /\ pc' = [pc EXCEPT ![p] = "unlock"]
                /\ UNCHANGED outcome
  /\ UNCHANGED <<shm_name, mutex_name, segment, holder, call, mutex, stream,
                 removed, removes>>

(* Fault: the size that the caller asks for is taken for that of a segment *)
(* which was there before.                                                 *)
ExtractAskedSize(p) ==
  /\ pc[p] = "extract"
  /\ LET s == segment[data[p].segment]
     IN  IF s.room = 0
           THEN Fail(p, "internal_error")
           ELSE /\ data' = [data EXCEPT ![p].size = call[p].asked]
                /\ pc' = [pc EXCEPT ![p] = "unlock"]
                /\ UNCHANGED outcome
  /\ UNCHANGED <<shm_name, mutex_name, segment, holder, call, mutex, stream,
                 removed, removes>>

(* A segment of which nothing was given room yet cannot be mapped.         *)
Extract(p) ==
  /\ pc[p] = "extract"
  /\ LET s == segment[data[p].segment]
     IN  IF s.room = 0
           THEN Fail(p, "internal_error")
           ELSE /\ data' = [data EXCEPT ![p].size = s.buffer_size]
                /\ pc' = [pc EXCEPT ![p] = "unlock"]
                /\ UNCHANGED outcome
  /\ UNCHANGED <<shm_name, mutex_name, segment, holder, call, mutex, stream,
                 removed, removes>>

NoBytes == [room |-> 0, buffer_size |-> 0]

(* Fault: a segment that turns out to exist is taken for the new one.      *)
CreateShmOrOpen(p) ==
  /\ pc[p] = "create_shm"
  /\ IF shm_name # None
       THEN UNCHANGED <<shm_name, segment>>
       ELSE /\ segment' = Append(segment, NoBytes)
            /\ shm_name' = Len(segment')
  /\ data' = [data EXCEPT ![p] = View(shm_name', 0)]
  /\ pc' = [pc EXCEPT ![p] = "truncate"]
  /\ UNCHANGED <<mutex_name, holder, call, mutex, stream, outcome, removed,
                 removes>>

(* Fault: a segment that turns out to exist loses its name.                *)
CreateShmAnew(p) ==
  /\ pc[p] = "create_shm"
  /\ segment' = Append(segment, NoBytes)
  /\ shm_name' = Len(segment')
  /\ data' = [data EXCEPT ![p] = View(shm_name', 0)]
  /\ pc' = [pc EXCEPT ![p] = "truncate"]
  /\ UNCHANGED <<mutex_name, holder, call, mutex, stream, outcome, removed,
                 removes>>

CreateShm(p) ==
  /\ pc[p] = "create_shm"
  /\ IF shm_name # None
       THEN /\ Fail(p, "failed_to_open")
            /\ UNCHANGED <<shm_name, segment>>
       ELSE /\ segment' = Append(segment, NoBytes)
            /\ shm_name' = Len(segment')
            /\ data' = [data EXCEPT ![p] = View(shm_name', 0)]
            /\ pc' = [pc EXCEPT ![p] = "truncate"]
            /\ UNCHANGED outcome
  /\ UNCHANGED <<mutex_name, holder, call, mutex, stream, removed, removes>>

(* The header has room of its own, so the segment can be mapped even if    *)
(* the buffer is to have no byte: 1 more than the size stands for that.    *)
Truncate(p) ==
  /\ pc[p] = "truncate"
  /\ \/ /\ segment' = [segment EXCEPT ![data[p].segment].room =
                                         call[p].asked + 1]
        /\ pc' = [pc EXCEPT ![p] = "initialize"]
        /\ UNCHANGED <<data, outcome>>
     \/ /\ SpaceRunsOut
        /\ Fail(p, "internal_error")
        /\ UNCHANGED segment
  /\ UNCHANGED <<shm_name, mutex_name, holder, call, mutex, stream, removed,
                 removes>>

(* The header is constructed; its last member to be set is buffer_size,    *)
(* until then all of it is 0 as the operating system has made it.          *)
Initialize(p) ==
  /\ pc[p] = "initialize"
  /\ segment' = [segment EXCEPT ![data[p].segment].buffer_size =
                                   call[p].asked]
  /\ data' = [data EXCEPT ![p].size = call[p].asked]
  /\ pc' = [pc EXCEPT ![p] = "unlock"]
  /\ UNCHANGED <<shm_name, mutex_name, holder, call, mutex, stream, outcome,
                 removed, removes>>
-----------------------------------------------------------------------------
(* The rest of open, after prepare, without the lock: the constructor of   *)
(* the queue looks at the size.  An object that was open before is         *)
(* replaced only if that goes well, as smart_ptr's assignment does.        *)

Construct(p) ==
  /\ pc[p] = "construct"
  /\ IF data[p].size \in MinSize .. MaxSize
       THEN /\ stream' = [stream EXCEPT ![p] = data[p]]
            /\ EndCall(p, "success")
       ELSE /\ UNCHANGED stream
            /\ EndCall(p, "invalid_argument")
  /\ UNCHANGED <<shm_name, mutex_name, segment, holder, mutex, removed,
                 removes>>

Close(p) ==
  /\ pc[p] = "idle"
  /\ stream[p] # NoView
  /\ stream' = [stream EXCEPT ![p] = NoView]
  /\ UNCHANGED <<shm_name, mutex_name, segment, holder, pc, call, mutex, data,
                 outcome, removed, removes>>
-----------------------------------------------------------------------------
(* remove.                                                                 *)

RemoveShm(p) ==
  /\ pc[p] = "remove_shm"
  /\ removed' = removed \cup ({shm_name} \ {None})
  /\ shm_name' = None
  /\ pc' = [pc EXCEPT ![p] = "unlock"]
  /\ UNCHANGED <<mutex_name, segment, holder, call, mutex, data, stream,
                 outcome, removes>>

(* The name of the mutex goes after the mutex was unlocked.                *)
RemoveMutex(p) ==
  /\ pc[p] = "remove_mutex"
  /\ mutex_name' = None
  /\ EndCall(p, "success")
  /\ UNCHANGED <<shm_name, segment, holder, mutex, stream, removed, removes>>
-----------------------------------------------------------------------------
(* The process dies and starts again.  What it had open is closed for it;  *)
(* a mutex that it had locked stays locked.                                *)
Crash(p) ==
  /\ p \in Crashing
  /\ holder' = [m \in DOMAIN holder |->
                  IF holder[m] = p THEN Dead ELSE holder[m]]
  /\ mutex' = [mutex EXCEPT ![p] = None]
  /\ stream' = [stream EXCEPT ![p] = NoView]
  /\ EndCall(p, "crashed")
  /\ UNCHANGED <<shm_name, mutex_name, segment, removed, removes>>

(* The steps of a call that has begun.                                     *)
Continue(p) ==
  \/ Lock(p)
  \/ OpenShm(p)
  \/ Extract(p)
  \/ CreateShm(p)
  \/ Truncate(p)
  \/ Initialize(p)
  \/ Unlock(p)
  \/ Construct(p)
  \/ RemoveShm(p)
  \/ RemoveMutex(p)

Next ==
  \E p \in Processes :
    \/ \E c \in Calls(p) : OpenMutex(p, c)
    \/ Continue(p)
    \/ Close(p)
    \/ Crash(p)

Spec == Init /\ [][Next]_vars
-----------------------------------------------------------------------------
(* Safety.                                                                 *)

Errors == {"failed_to_open", "internal_error", "invalid_argument"}

(* The shape of the state; a call ends with one of the error codes.        *)
TypeOK ==
  /\ segment \in Seq([room : Nat, buffer_size : Nat])
  /\ holder \in Seq(Processes \cup {Nobody, Dead})
  /\ shm_name \in 0 .. Len(segment) /\ mutex_name \in 0 .. Len(holder)
  /\ pc \in [Processes -> {"idle", "lock", "open_shm", "extract",
                           "create_shm", "truncate", "initialize", "unlock",
                           "construct", "remove_shm", "remove_mutex"}]
  /\ call \in [Processes -> [kind : {"none", "open", "create", "remove"},
                              asked : Nat]]
  /\ mutex \in [Processes -> 0 .. Len(holder)]
  /\ \A v \in {data, stream} :
       v \in [Processes -> [segment : 0 .. Len(segment), size : Nat]]
  /\ outcome \in [Processes -> {"none", "pending", "success", "crashed"}
                                \cup Errors]
  /\ removed \subseteq 1 .. Len(segment)
  /\ removes \in 0 .. MaxRemoves

(* Whatever the races of open, create and remove, the failures and the     *)
(* crashes: the buffer of an open stream has the size that the header of   *)
(* its segment says, which is one the queue can work with, and the segment *)
(* has room for it.  Nobody initialises a segment again that is in use.    *)
StreamsAreUsable ==
  \A p \in Processes : stream[p] # NoView =>
    LET s == segment[stream[p].segment]
    IN  /\ stream[p].size = s.buffer_size
        /\ s.buffer_size \in MinSize .. MaxSize
        /\ s.buffer_size < s.room

(* All open streams are the same one, except those from before a remove.   *)
OnlyRemoveSplits ==
  \A p \in Processes : stream[p] # NoView =>
    stream[p].segment \in {shm_name} \cup removed

(* Somebody is about to make room in segment i.                            *)
BeingMade(i) ==
  \E p \in Processes : pc[p] = "truncate" /\ data[p].segment = i

(* Opening and creating at the same time, whoever comes first and whatever *)
(* sizes they ask for, goes well for everybody, unless the name is removed *)
(* or a segment was left without room for a buffer of a size that the      *)
(* queue can work with.                                                    *)
CallsSucceed ==
  /\ removes = 0
  /\ \A i \in DOMAIN segment :
       BeingMade(i) \/ segment[i].room - 1 \in MinSize .. MaxSize
  => \A p \in Processes : outcome[p] \notin Errors
-----------------------------------------------------------------------------
(* Liveness.  Every process makes one call at most, and may die in it, so  *)
(* that no process can lock again and again while another one waits for    *)
(* the lock; each that lives goes on with the call it has begun.           *)

OnceSpec ==
  /\ Init
  /\ [][\E p \in Processes :
          \/ outcome[p] = "none" /\ \E c \in Calls(p) : OpenMutex(p, c)
          \/ Continue(p)
          \/ pc[p] # "idle" /\ Crash(p)]_vars
  /\ \A p \in Processes : WF_vars(Continue(p))

(* The process waits for a mutex whose holder died; it is not robust.      *)
WaitsForDead(p) == pc[p] = "lock" /\ holder[mutex[p]] = Dead

(* Every call returns, well or with an error: no way out of a call leaves  *)
(* a mutex locked, and waiting for a mutex whose name was removed ends.    *)
(* The one thing that holds a call for ever is a process that died with    *)
(* the very mutex the call waits for; a death before or after costs        *)
(* nothing.                                                                *)
EveryCallReturns ==
  \A p \in Processes : pc[p] # "idle" ~> pc[p] = "idle" \/ WaitsForDead(p)
-----------------------------------------------------------------------------
(* What a comment says and the code does not keep.                         *)

(* "Shared memory doesn't exist, so create one.": a remove between two     *)
(* calls of prepare lets them lock different mutexes, and one creates the  *)
(* segment when the other is about to.                                     *)
ShmDoesNotExist ==
  \A p \in Processes : pc[p] = "create_shm" => shm_name = None
=============================================================================
