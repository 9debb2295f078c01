---------------------------- MODULE StreamHandles ----------------------------
(***************************************************************************)
(* The objects a program holds of its streams: the classes of              *)
(* blocking_stream.h and light_stream.h, each with one smart_ptr to an     *)
(* object of the C interface, which owns the mapping of the segment and    *)
(* the queue object.  C++ objects are moved, opened again while open,      *)
(* closed and called when closed; meanwhile the client keeps the span it   *)
(* got from try_reserve and what it believes to have open.                 *)
(*                                                                         *)
(* The writers of one process are modelled, the readers are mirror images. *)
(* A step is one call of this client, or a store of somebody else to a     *)
(* write index, the one index on which the places of writers depend.  How  *)
(* many bytes the queue grants, and what a stop does to a queue between    *)
(* its two stores and during a commit, is the subject of LightBytesQueue   *)
(* and BlockingBytesQueue; here a grant is any number.  Calls that change  *)
(* nothing (available_size, wait, is_stopped) test for the null pointer    *)
(* like the ones below and are left out.                                   *)
(*                                                                         *)
(* A definition marked "Fault" is the one after it with a plausible bug;   *)
(* nothing uses it.                                                        *)
(***************************************************************************)
EXTENDS Integers, FiniteSets, Sequences, QueueIndices

CONSTANTS
  Objects,    (* the places of C++ objects                                 *)
  Streams,    (* the names of streams                                      *)
  Size,       (* size of their buffers                                     *)
  StopIndex,  (* blocking_bytes_queue_stop_index()                         *)
  MaxHandles  (* bound on the objects of the C interface ever made         *)

Cells == 0 .. Size - 1

(* What a client knows of an object beside an open stream's name.          *)
Closed == "closed"
Unknown == "unknown"  (* not there, or moved from                          *)

ASSUME SizeAssumption == Size \in Nat /\ Size >= 2
ASSUME StopIndexAssumption == StopIndex \in Nat \ Cells
ASSUME StreamsAssumption == {Closed, Unknown} \cap Streams = {}
ASSUME MaxHandlesAssumption == MaxHandles \in Nat

VARIABLES
  there,       (* the C++ objects that exist                               *)
  smart,       (* smart_ptr of each C++ object; pointer 0 is null          *)
  handle,      (* the objects of the C interface, in the order of making   *)
  write_index, (* the write index of each stream, in shared memory         *)
  view,        (* history: what the client believes to have in each object *)
  span         (* history: the span that the client has from each object   *)

vars == <<there, smart, handle, write_index, view, span>>

Null == [ptr |-> 0, deleter |-> FALSE]
NoSpan == [handle |-> 0, size |-> 0]

Init ==
  /\ there = {}
  /\ smart = [o \in Objects |-> Null]
  /\ handle = << >>
  /\ write_index = [n \in Streams |-> 0]
  /\ view = [o \in Objects |-> Unknown]
  /\ span = [o \in Objects |-> NoSpan]
-----------------------------------------------------------------------------
(* smart_ptr.                                                              *)

(* The handles hs when pointer p was given to the destroy function.        *)
Destroyed(hs, p) ==
  IF p = 0 THEN hs
  ELSE LET h == hs[p]
       IN  [hs EXCEPT ![p] = [h EXCEPT !.next = 0, !.reserved = 0,
                                       !.deletions = h.deletions + 1]]

(* The client knows of object o what v says, and has nothing left of it.   *)
Forget(o, v) ==
  /\ view' = [view EXCEPT ![o] = v]
  /\ span' = [span EXCEPT ![o] = NoSpan]

(* The client goes on with object o where it was with object from.         *)
Follow(o, from) ==
  /\ view' = [view EXCEPT ![from] = Unknown, ![o] = view[from]]
  /\ span' = [span EXCEPT ![from] = NoSpan, ![o] = span[from]]

Construct(o) ==
  /\ o \notin there
  /\ there' = there \cup {o}
  /\ Forget(o, Closed)
  /\ UNCHANGED <<smart, handle, write_index>>

(* Fault: the source keeps its pointer.                                    *)
MoveConstructCopies(o, from) ==
  /\ o \notin there /\ from \in there
  /\ there' = there \cup {o}
  /\ smart' = [smart EXCEPT ![o] = smart[from]]
  /\ Follow(o, from)
  /\ UNCHANGED <<handle, write_index>>

MoveConstruct(o, from) ==
  /\ o \notin there /\ from \in there
  /\ there' = there \cup {o}
  /\ smart' = [smart EXCEPT ![o] = smart[from], ![from].ptr = 0]
  /\ Follow(o, from)
  /\ UNCHANGED <<handle, write_index>>

(* Fault: a target that is open keeps its stream.                          *)
MoveAssignIfNull(o, from) ==
  /\ {o, from} \subseteq there
  /\ smart' = IF smart[o].ptr = 0
              THEN [smart EXCEPT ![o] = smart[from], ![from] = smart[o]]
              ELSE smart
  /\ Follow(o, from)
  /\ UNCHANGED <<there, handle, write_index>>

(* Pointers and deleters are swapped: the stream that o had stays open in  *)
(* the object moved from.  Moving an object to itself changes nothing.     *)
MoveAssign(o, from) ==
  /\ {o, from} \subseteq there
  /\ smart' = [smart EXCEPT ![o] = smart[from], ![from] = smart[o]]
  /\ Follow(o, from)
  /\ UNCHANGED <<there, handle, write_index>>

Close(o) ==
  /\ o \in there
  /\ handle' = Destroyed(handle, smart[o].ptr)
  /\ smart' = [smart EXCEPT ![o].ptr = 0]
  /\ Forget(o, Closed)
  /\ UNCHANGED <<there, write_index>>

Destroy(o) ==
  /\ o \in there
  /\ there' = there \ {o}
  /\ handle' = Destroyed(handle, smart[o].ptr)
  /\ smart' = [smart EXCEPT ![o] = Null]
  /\ Forget(o, Unknown)
  /\ UNCHANGED write_index
-----------------------------------------------------------------------------
(* open.  The client has one writer of a stream.                           *)

(* The handle that create makes; the queue's constructor goes on where the *)
(* index stands, and at 0 if the stream is stopped.                        *)
Created(n) ==
  [stream |-> n,
   next |-> IF write_index[n] = StopIndex THEN 0 ELSE write_index[n],
   reserved |-> 0,
   deletions |-> 0]

(* The new handle is made, then it is swapped with the old one in a        *)
(* temporary smart_ptr, whose destructor destroys the old one.             *)
Open(o, n) ==
  /\ o \in there
  /\ \A p \in Objects \ {o} : view[p] # n
  /\ Len(handle) < MaxHandles
  /\ handle' = Destroyed(Append(handle, Created(n)), smart[o].ptr)
  /\ smart' = [smart EXCEPT ![o] = [ptr |-> Len(handle'), deleter |-> TRUE]]
  /\ Forget(o, n)
  /\ UNCHANGED <<there, write_index>>

(* Fault: what was open is closed before create is called.                 *)
OpenFailsClosed(o) ==
  /\ o \in there
  /\ handle' = Destroyed(handle, smart[o].ptr)
  /\ smart' = [smart EXCEPT ![o].ptr = 0]
  /\ UNCHANGED <<there, write_index, view, span>>

(* create returns an error code and open throws: the object is as it was,  *)
(* and so are the client's span and what it believes.                      *)
OpenFails(o) ==
  /\ o \in there
  /\ UNCHANGED vars
-----------------------------------------------------------------------------
(* Calls that the C interface forwards to the queue.  The client makes     *)
(* none of an object that it has moved from.                               *)

Callable(o) == o \in there /\ view[o] # Unknown

(* The queue hands out granted bytes, which end where the buffer ends.     *)
Grant(o, granted) ==
  LET h == smart[o].ptr
  IN  /\ handle[h].next + granted <= Size
      /\ handle' = [handle EXCEPT ![h].reserved = granted]
      /\ span' = [span EXCEPT ![o] = [handle |-> h, size |-> granted]]

(* try_reserve and wait_reserve, which return an empty buffer, and leave   *)
(* everything as it is, for a null pointer.                                *)
Reserve(o) ==
  /\ Callable(o)
  /\ IF smart[o].ptr = 0
       THEN UNCHANGED <<handle, span>>
       ELSE \E granted \in Cells : Grant(o, granted)
  /\ UNCHANGED <<there, smart, write_index, view>>

(* Fault: the index does not wrap.                                         *)
CommitWithoutWrap(o, written_size) ==
  /\ Callable(o)
  /\ written_size <= span[o].size
  /\ LET h == smart[o].ptr
         n == handle[h].stream
         to == handle[h].next + written_size
     IN  IF h = 0 \/ written_size = 0
           THEN UNCHANGED <<handle, write_index, span>>
           ELSE /\ handle' = [handle EXCEPT ![h].next = to,
                                            ![h].reserved = 0]
                /\ write_index' = [write_index EXCEPT
                                     ![n] = IF @ = StopIndex THEN @ ELSE to]
                /\ span' = [span EXCEPT ![o] = NoSpan]
  /\ UNCHANGED <<there, smart, view>>

(* The client commits at most its span.  A commit of nothing changes       *)
(* nothing.  One to a stopped stream leaves it stopped: for a moment the   *)
(* index is the new one, which nothing here can load, since only open      *)
(* does and the client has one writer of a stream.                         *)
Commit(o, written_size) ==
  /\ Callable(o)
  /\ written_size <= span[o].size
  /\ LET h == smart[o].ptr
         n == handle[h].stream
         to == Advance(handle[h].next, written_size, Size)
     IN  IF h = 0 \/ written_size = 0
           THEN UNCHANGED <<handle, write_index, span>>
           ELSE /\ handle' = [handle EXCEPT ![h].next = to,
                                            ![h].reserved = 0]
                /\ write_index' = [write_index EXCEPT
                                     ![n] = IF @ = StopIndex THEN @ ELSE to]
                /\ span' = [span EXCEPT ![o] = NoSpan]
  /\ UNCHANGED <<there, smart, view>>

(* Of the two stores of stop the one to the write index; the store to the  *)
(* read index before it and the notifications touch nothing kept here.     *)
Stop(o) ==
  /\ Callable(o)
  /\ LET h == smart[o].ptr
     IN  write_index' = IF h = 0 THEN write_index
                        ELSE [write_index EXCEPT
                                ![handle[h].stream] = StopIndex]
  /\ UNCHANGED <<there, smart, handle, view, span>>

(* Another thread or process does that store, between any two calls.       *)
StopByOther(n) ==
  /\ write_index' = [write_index EXCEPT ![n] = StopIndex]
  /\ UNCHANGED <<there, smart, handle, view, span>>

Next ==
  \/ \E o \in Objects :
       \/ Construct(o)
       \/ \E from \in Objects : MoveConstruct(o, from) \/ MoveAssign(o, from)
       \/ Close(o)
       \/ Destroy(o)
       \/ \E n \in Streams : Open(o, n)
       \/ OpenFails(o)
       \/ Reserve(o)
       \/ \E written_size \in Cells : Commit(o, written_size)
       \/ Stop(o)
  \/ \E n \in Streams : StopByOther(n)

Spec == Init /\ [][Next]_vars
-----------------------------------------------------------------------------
(* Safety.                                                                 *)

(* The shape of the state; every write index is a cell of the buffer, or   *)
(* says that the stream is stopped.                                        *)
TypeOK ==
  /\ there \subseteq Objects
  /\ smart \in [Objects -> [ptr : 0 .. Len(handle), deleter : BOOLEAN]]
  /\ handle \in Seq([stream : Streams, next : Cells, reserved : Cells,
                     deletions : Nat])
  /\ write_index \in [Streams -> Cells \cup {StopIndex}]
  /\ view \in [Objects -> Streams \cup {Closed, Unknown}]
  /\ span \in [Objects -> [handle : 0 .. Len(handle), size : Cells]]

Owners(h) == {o \in there : smart[o].ptr = h}

(* Whatever is moved, replaced, closed and destroyed: each handle is       *)
(* destroyed once, not before the last C++ object has let go of it and not *)
(* later, and each owner has the means to destroy it.                      *)
OneOwner ==
  \A h \in DOMAIN handle :
    /\ Cardinality(Owners(h)) + handle[h].deletions = 1
    /\ \A o \in Owners(h) : smart[o].deleter

(* An object that the client has opened, or got by a move, is open on that *)
(* stream and stands where the stream stands in shared memory, whatever    *)
(* older handles of the same stream are still around; an object that the   *)
(* client has closed is closed.                                            *)
ClientsAreRight ==
  \A o \in Objects :
    /\ view[o] = Closed => smart[o].ptr = 0
    /\ view[o] \in Streams =>
         /\ smart[o].ptr # 0
         /\ LET h == handle[smart[o].ptr]
            IN  /\ h.stream = view[o]
                /\ write_index[h.stream] \in {h.next, StopIndex}

(* A span that the client still has is one that the object's handle knows  *)
(* of, so it is mapped, and the assertion of commit holds of every part of *)
(* it: also after moves and after a failed open.                           *)
SpansAreBacked ==
  \A o \in Objects : span[o].size > 0 =>
    /\ smart[o].ptr = span[o].handle
    /\ handle[span[o].handle].deletions = 0
    /\ span[o].size <= handle[span[o].handle].reserved
=============================================================================
