------------------------- MODULE StreamHandlesProofs -------------------------
(***************************************************************************)
(* Proofs, for any number of C++ objects, streams and handles and any size *)
(* of the buffers, of the safety of StreamHandles.                         *)
(***************************************************************************)
EXTENDS StreamHandles, FiniteSetTheorems, SequenceTheorems, TLAPS

(* The inductive invariant.  A pointer is in one object, which exists and  *)
(* can destroy what it points to.                                          *)
OnePointer ==
  \A o \in Objects : smart[o].ptr # 0 =>
    /\ o \in there /\ smart[o].deleter
    /\ \A p \in Objects : smart[p].ptr = smart[o].ptr => p = o

Owned(h) == \E o \in Objects : smart[o].ptr = h

DestroyedOnce ==
  \A h \in DOMAIN handle : handle[h].deletions = IF Owned(h) THEN 0 ELSE 1

(* The client has each stream open in one object at most.                  *)
OneView ==
  \A o, p \in Objects : view[o] \in Streams /\ view[p] = view[o] => p = o

SpansAreReserved ==
  \A o \in Objects : span[o].size > 0 =>
    /\ smart[o].ptr # 0
    /\ smart[o].ptr = span[o].handle
    /\ span[o].size <= handle[smart[o].ptr].reserved

(* What a handle has reserved ends where the buffer ends.                  *)
ReservedFits ==
  \A h \in DOMAIN handle : handle[h].next + handle[h].reserved <= Size

HandlesInv ==
  /\ TypeOK
  /\ OnePointer
  /\ DestroyedOnce
  /\ OneView
  /\ ClientsAreRight
  /\ SpansAreReserved
  /\ ReservedFits

(* The safety that the runs check follows from it.                         *)
LEMMA InvOneOwner == HandlesInv => OneOwner
<1> SUFFICES ASSUME HandlesInv, NEW h \in DOMAIN handle
             PROVE  /\ Cardinality(Owners(h)) + handle[h].deletions = 1
                    /\ \A o \in Owners(h) : smart[o].deleter
  BY DEF OneOwner
<1>1. there \subseteq Objects /\ h # 0
  BY LenProperties DEF HandlesInv, TypeOK
<1>2. CASE Owned(h)
  <2>1. PICK o \in Objects : smart[o].ptr = h
    BY <1>2 DEF Owned
  <2>2. Owners(h) = {o} /\ smart[o].deleter
    BY <1>1, <2>1 DEF Owners, HandlesInv, OnePointer
  <2>3. Cardinality({o}) = 1
    BY FS_Singleton
  <2> QED BY <1>2, <2>2, <2>3 DEF HandlesInv, DestroyedOnce
<1>3. CASE ~ Owned(h)
  <2>1. Owners(h) = {}
    BY <1>1, <1>3 DEF Owners, Owned
  <2>2. Cardinality({}) = 0
    BY FS_EmptySet
  <2> QED BY <1>3, <2>1, <2>2 DEF HandlesInv, DestroyedOnce
<1> QED BY <1>2, <1>3

LEMMA InvSpansAreBacked == HandlesInv => SpansAreBacked
<1> SUFFICES ASSUME HandlesInv, NEW o \in Objects, span[o].size > 0
             PROVE  /\ smart[o].ptr = span[o].handle
                    /\ handle[span[o].handle].deletions = 0
                    /\ span[o].size <= handle[span[o].handle].reserved
  BY DEF SpansAreBacked
<1>1. /\ smart[o].ptr # 0 /\ smart[o].ptr = span[o].handle
      /\ span[o].size <= handle[smart[o].ptr].reserved
  BY DEF HandlesInv, SpansAreReserved
<1>2. smart[o].ptr \in DOMAIN handle
  BY <1>1, LenProperties DEF HandlesInv, TypeOK
<1> QED BY <1>1, <1>2 DEF HandlesInv, DestroyedOnce, Owned
-----------------------------------------------------------------------------
(* Types.                                                                  *)

Handles ==
  [stream : Streams, next : Cells, reserved : Cells, deletions : Nat]

LEMMA TypeFacts ==
  ASSUME TypeOK
  PROVE  /\ handle \in Seq(Handles) /\ Len(handle) \in Nat
         /\ DOMAIN handle = 1 .. Len(handle)
         /\ \A h \in DOMAIN handle :
              /\ handle[h] \in Handles
              /\ handle[h].stream \in Streams /\ handle[h].next \in Cells
              /\ handle[h].reserved \in Cells /\ handle[h].deletions \in Nat
         /\ \A o \in Objects : /\ smart[o].ptr \in 0 .. Len(handle)
                               /\ smart[o].deleter \in BOOLEAN
                               /\ smart[o].ptr # 0 =>
                                    smart[o].ptr \in DOMAIN handle
                               /\ span[o].size \in Cells
                               /\ span[o].handle \in 0 .. Len(handle)
         /\ there \subseteq Objects
         /\ DOMAIN smart = Objects
         /\ view \in [Objects -> Streams \cup {Closed, Unknown}]
         /\ DOMAIN span = Objects
         /\ 0 \in Cells /\ Cells \subseteq Nat
<1>1. handle \in Seq(Handles)
  BY DEF TypeOK, Handles
<1>2. Len(handle) \in Nat /\ DOMAIN handle = 1 .. Len(handle)
  BY <1>1, LenProperties
<1>3. \A h \in DOMAIN handle : handle[h] \in Handles
  BY <1>1, <1>2, ElementOfSeq
<1>4. 0 \in Cells /\ Cells \subseteq Nat
  BY SizeAssumption DEF Cells
<1>5. \A o \in Objects : /\ smart[o].ptr \in 0 .. Len(handle)
                         /\ smart[o].deleter \in BOOLEAN
                         /\ span[o].size \in Cells
                         /\ span[o].handle \in 0 .. Len(handle)
  BY DEF TypeOK
<1> QED BY <1>1, <1>2, <1>3, <1>4, <1>5 DEF TypeOK, Handles

(* Records of which fields are set.                                        *)
LEMMA FieldSet ==
  ASSUME NEW a, NEW b, NEW c, NEW d, NEW n, NEW h,
         h = [stream |-> a, next |-> b, reserved |-> c, deletions |-> d]
  PROVE  /\ [h EXCEPT !.next = n] =
              [stream |-> a, next |-> n, reserved |-> c, deletions |-> d]
         /\ [h EXCEPT !.reserved = n] =
              [stream |-> a, next |-> b, reserved |-> n, deletions |-> d]
         /\ [h EXCEPT !.deletions = n] =
              [stream |-> a, next |-> b, reserved |-> c, deletions |-> n]
OBVIOUS

LEMMA HandleSet ==
  ASSUME NEW h \in Handles, NEW n, NEW m, NEW k
  PROVE  /\ [h EXCEPT !.reserved = m] =
              [stream |-> h.stream, next |-> h.next, reserved |-> m,
               deletions |-> h.deletions]
         /\ [h EXCEPT !.next = n, !.reserved = m] =
              [stream |-> h.stream, next |-> n, reserved |-> m,
               deletions |-> h.deletions]
         /\ [h EXCEPT !.next = n, !.reserved = m, !.deletions = k] =
              [stream |-> h.stream, next |-> n, reserved |-> m,
               deletions |-> k]
<1> DEFINE i == [h EXCEPT !.next = n]
           j == [i EXCEPT !.reserved = m]
           l == [j EXCEPT !.deletions = k]
<1>1. h = [stream |-> h.stream, next |-> h.next, reserved |-> h.reserved,
           deletions |-> h.deletions]
  BY DEF Handles
<1>2. i = [stream |-> h.stream, next |-> n, reserved |-> h.reserved,
           deletions |-> h.deletions]
  BY <1>1, FieldSet
<1>3. j = [h EXCEPT !.next = n, !.reserved = m]
  OBVIOUS
<1>4. l = [h EXCEPT !.next = n, !.reserved = m, !.deletions = k]
  OBVIOUS
<1> HIDE DEF i
<1>5. j = [stream |-> h.stream, next |-> n, reserved |-> m,
           deletions |-> h.deletions]
  BY <1>2, FieldSet
<1> HIDE DEF j
<1>6. l = [stream |-> h.stream, next |-> n, reserved |-> m, deletions |-> k]
  BY <1>5, FieldSet
<1>7. [h EXCEPT !.reserved = m] =
        [stream |-> h.stream, next |-> h.next, reserved |-> m,
         deletions |-> h.deletions]
  BY <1>1, FieldSet
<1> HIDE DEF l
<1> QED BY <1>3, <1>4, <1>5, <1>6, <1>7

LEMMA HandleDestroyed ==
  ASSUME NEW h \in Handles, NEW k
  PROVE  [h EXCEPT !.next = 0, !.reserved = 0, !.deletions = k] =
           [stream |-> h.stream, next |-> 0, reserved |-> 0, deletions |-> k]
<1> DEFINE j == [h EXCEPT !.next = 0, !.reserved = 0]
           l == [j EXCEPT !.deletions = k]
<1>1. j = [stream |-> h.stream, next |-> 0, reserved |-> 0,
           deletions |-> h.deletions]
  BY HandleSet
<1>2. l = [h EXCEPT !.next = 0, !.reserved = 0, !.deletions = k]
  OBVIOUS
<1> HIDE DEF j
<1>3. l = [stream |-> h.stream, next |-> 0, reserved |-> 0, deletions |-> k]
  BY <1>1, FieldSet
<1> HIDE DEF l
<1> QED BY <1>2, <1>3

LEMMA DestroyedIs ==
  ASSUME NEW hs \in Seq(Handles), NEW p \in 0 .. Len(hs)
  PROVE  /\ Destroyed(hs, p) \in Seq(Handles)
         /\ Len(Destroyed(hs, p)) = Len(hs)
         /\ \A h \in 1 .. Len(hs) : h # p => Destroyed(hs, p)[h] = hs[h]
         /\ p # 0 =>
              Destroyed(hs, p)[p] =
                [stream |-> hs[p].stream, next |-> 0, reserved |-> 0,
                 deletions |-> hs[p].deletions + 1]
<1>1. CASE p = 0
  BY <1>1 DEF Destroyed
<1>2. CASE p # 0
  <2> DEFINE d == [stream |-> hs[p].stream, next |-> 0, reserved |-> 0,
                   deletions |-> hs[p].deletions + 1]
  <2>1. p \in 1 .. Len(hs) /\ hs[p] \in Handles
    BY <1>2, LenProperties, ElementOfSeq
  <2>2. d \in Handles
    BY <2>1, SizeAssumption DEF Handles, Cells
  <2> DEFINE e == [hs[p] EXCEPT !.next = 0, !.reserved = 0,
                                !.deletions = hs[p].deletions + 1]
  <2>3. e = d
    <3> DEFINE g == hs[p]
               k == hs[p].deletions + 1
    <3>1. g \in Handles
      BY <2>1
    <3> HIDE DEF g, k
    <3>2. [g EXCEPT !.next = 0, !.reserved = 0, !.deletions = k] =
            [stream |-> g.stream, next |-> 0, reserved |-> 0, deletions |-> k]
      BY ONLY <3>1, HandleDestroyed
    <3> QED BY <3>2 DEF g, k
  <2>4. Destroyed(hs, p) = [hs EXCEPT ![p] = d]
    <3>1. Destroyed(hs, p) = [hs EXCEPT ![p] = e]
      BY <1>2 DEF Destroyed
    <3> QED BY <2>3, <3>1
  <2> HIDE DEF d
  <2>5. /\ [hs EXCEPT ![p] = d] \in Seq(Handles)
        /\ Len([hs EXCEPT ![p] = d]) = Len(hs)
        /\ \A j \in 1 .. Len(hs) :
             [hs EXCEPT ![p] = d][j] = IF j = p THEN d ELSE hs[j]
    BY <2>1, <2>2, ExceptSeq
  <2> QED BY <2>1, <2>4, <2>5 DEF d
<1> QED BY <1>1, <1>2

LEMMA InitHandlesInv == Init => HandlesInv
<1> SUFFICES ASSUME Init PROVE HandlesInv
  OBVIOUS
<1>1. /\ handle = << >> /\ DOMAIN handle = {}
      /\ \A o \in Objects : smart[o] = Null /\ view[o] = Unknown /\ span[o] = NoSpan
  BY DEF Init
<1>2. /\ Null.ptr = 0 /\ NoSpan.size = 0
      /\ Null \in [ptr : 0 .. Len(handle), deleter : BOOLEAN]
      /\ NoSpan \in [handle : 0 .. Len(handle), size : Cells]
  BY <1>1, SizeAssumption DEF Null, NoSpan, Cells
<1>3. TypeOK
  BY <1>1, <1>2, SizeAssumption DEF Init, TypeOK, Cells
<1>4. OnePointer /\ DestroyedOnce /\ SpansAreReserved
  BY <1>1, <1>2 DEF OnePointer, DestroyedOnce, SpansAreReserved
<1>5. OneView /\ ClientsAreRight
  BY <1>1, StreamsAssumption DEF OneView, ClientsAreRight, Closed, Unknown
<1>6. ReservedFits
  BY <1>1 DEF ReservedFits
<1> QED BY <1>3, <1>4, <1>5, <1>6 DEF HandlesInv
-----------------------------------------------------------------------------
(* Moves.                                                                  *)

Smarts == [ptr : 0 .. Len(handle), deleter : BOOLEAN]
Spans == [handle : 0 .. Len(handle), size : Cells]

(* The pointer that from had is in o, and that of o in from.               *)
LEMMA MoveStep ==
  ASSUME HandlesInv, NEW o \in Objects, NEW from \in there, o # from,
         there' = there \cup {o}, UNCHANGED <<handle, write_index>>,
         Follow(o, from),
         smart' \in [Objects -> Smarts],
         smart'[o] = smart[from], smart'[from].ptr = smart[o].ptr,
         smart'[from].ptr # 0 => smart'[from].deleter,
         \A q \in Objects \ {o, from} : smart'[q] = smart[q]
  PROVE  HandlesInv'
<1> USE TypeFacts DEF HandlesInv
<1>1. from \in Objects
  OBVIOUS
<1>2. /\ view'[o] = view[from] /\ view'[from] = Unknown
      /\ \A q \in Objects \ {o, from} : view'[q] = view[q]
  BY <1>1 DEF Follow
<1>3. /\ span'[o] = span[from] /\ span'[from] = NoSpan
      /\ \A q \in Objects \ {o, from} : span'[q] = span[q]
  BY <1>1 DEF Follow
<1>4. TypeOK'
  <2>1. view' \in [Objects -> Streams \cup {Closed, Unknown}]
    <3>1. view[from] \in Streams \cup {Closed, Unknown}
      BY <1>1 DEF TypeOK
    <3> QED BY <3>1 DEF Follow, TypeOK
  <2>2. span' \in [Objects -> Spans]
    <3>1. NoSpan \in Spans
      BY DEF NoSpan, Spans
    <3>2. span \in [Objects -> Spans]
      BY DEF TypeOK, Spans
    <3> QED BY <1>1, <3>1, <3>2 DEF Follow
  <2> QED BY <2>1, <2>2 DEF TypeOK, Smarts, Spans
<1>5. OnePointer'
  <2>1. \A q \in Objects : smart'[q].ptr # 0 => q \in there' /\ smart'[q].deleter
    BY <1>1 DEF OnePointer
  <2>2. ASSUME NEW q \in Objects, NEW r \in Objects, smart'[q].ptr # 0,
               smart'[r].ptr = smart'[q].ptr
        PROVE  r = q
    <3> DEFINE was(x) == IF x = o THEN from ELSE IF x = from THEN o ELSE x
    <3>1. /\ smart'[q].ptr = smart[was(q)].ptr /\ was(q) \in Objects
          /\ smart'[r].ptr = smart[was(r)].ptr /\ was(r) \in Objects
      BY <1>1
    <3>2. was(r) = was(q)
      BY <2>2, <3>1 DEF OnePointer
    <3> QED BY <3>2
  <2> QED BY <2>1, <2>2 DEF OnePointer
<1>6. DestroyedOnce'
  <2> SUFFICES ASSUME NEW h PROVE Owned(h)' <=> Owned(h)
    BY DEF DestroyedOnce
  <2> QED BY <1>1 DEF Owned
<1>7. OneView'
  <2>1. Unknown \notin Streams
    BY StreamsAssumption
  <2> QED BY <1>1, <1>2, <2>1 DEF OneView
<1>8. ClientsAreRight'
  <2> SUFFICES ASSUME NEW q \in Objects
               PROVE  /\ view'[q] = Closed => smart'[q].ptr = 0
                      /\ view'[q] \in Streams =>
                           /\ smart'[q].ptr # 0
                           /\ handle[smart'[q].ptr].stream = view'[q]
                           /\ write_index[handle[smart'[q].ptr].stream] \in
                                {handle[smart'[q].ptr].next, StopIndex}
    BY DEF ClientsAreRight
  <2>1. Unknown \notin Streams /\ Unknown # Closed
    BY StreamsAssumption DEF Unknown, Closed
  <2>2. CASE q = from
    BY <1>2, <2>1, <2>2
  <2>3. CASE q = o
    BY <1>1, <1>2, <2>3 DEF ClientsAreRight
  <2>4. CASE q \notin {o, from}
    BY <1>2, <2>4 DEF ClientsAreRight
  <2> QED BY <2>2, <2>3, <2>4
<1>9. SpansAreReserved'
  <2>1. NoSpan.size = 0
    BY DEF NoSpan
  <2> SUFFICES ASSUME NEW q \in Objects, span'[q].size > 0
               PROVE  /\ smart'[q].ptr # 0
                      /\ smart'[q].ptr = span'[q].handle
                      /\ span'[q].size <= handle[smart'[q].ptr].reserved
    BY DEF SpansAreReserved
  <2>2. \A t \in Objects : span[t].size > 0 =>
          /\ smart[t].ptr # 0
          /\ smart[t].ptr = span[t].handle
          /\ span[t].size <= handle[smart[t].ptr].reserved
    BY DEF SpansAreReserved
  <2>3. CASE q = o
    <3>1. span'[q] = span[from] /\ smart'[q] = smart[from]
      BY <1>3, <2>3
    <3> QED BY <1>1, <2>2, <3>1
  <2>4. CASE q = from
    BY <1>3, <2>1, <2>4
  <2>5. CASE q \notin {o, from}
    <3>1. span'[q] = span[q] /\ smart'[q] = smart[q]
      BY <1>3, <2>5
    <3> QED BY <2>2, <3>1
  <2> QED BY <2>3, <2>4, <2>5
<1>10. ReservedFits'
  BY DEF ReservedFits
<1> QED
  BY <1>4, <1>5, <1>6, <1>7, <1>8, <1>9, <1>10

LEMMA StutterInv == HandlesInv /\ UNCHANGED vars => HandlesInv'
<1> SUFFICES ASSUME HandlesInv, UNCHANGED vars PROVE HandlesInv'
  OBVIOUS
<1> USE DEF vars, HandlesInv
<1>1. TypeOK' /\ OnePointer' /\ OneView'
  BY DEF TypeOK, OnePointer, OneView
<1>2. DestroyedOnce'
  BY DEF DestroyedOnce, Owned
<1>3. ClientsAreRight' /\ SpansAreReserved' /\ ReservedFits'
  BY DEF ClientsAreRight, SpansAreReserved, ReservedFits
<1> QED BY <1>1, <1>2, <1>3

LEMMA MoveConstructInv ==
  ASSUME HandlesInv, NEW o \in Objects, NEW from \in Objects,
         MoveConstruct(o, from)
  PROVE  HandlesInv'
<1> USE TypeFacts DEF HandlesInv
<1>1. /\ o # from /\ from \in there /\ there' = there \cup {o}
      /\ Follow(o, from) /\ UNCHANGED <<handle, write_index>>
      /\ smart' = [smart EXCEPT ![o] = smart[from], ![from].ptr = 0]
  BY DEF MoveConstruct
<1>2. smart[o].ptr = 0
  BY DEF OnePointer, MoveConstruct
<1>3. /\ smart'[o] = smart[from] /\ smart'[from] = [smart[from] EXCEPT !.ptr = 0]
      /\ \A q \in Objects \ {o, from} : smart'[q] = smart[q]
      /\ DOMAIN smart' = Objects
  BY <1>1
<1>4. smart \in [Objects -> Smarts]
  BY DEF TypeOK, Smarts
<1>5. smart'[from].ptr = 0 /\ smart'[from] \in Smarts
  BY <1>3, <1>4 DEF Smarts
<1>6. smart' \in [Objects -> Smarts]
  <2> DEFINE s == [smart EXCEPT ![o] = smart[from]]
             n == [s[from] EXCEPT !.ptr = 0]
  <2>1. s \in [Objects -> Smarts]
    BY <1>4
  <2>2. smart' = [s EXCEPT ![from] = n]
    BY <1>1
  <2>3. n \in Smarts
    BY <1>1, <1>3, <1>5
  <2> HIDE DEF s, n
  <2> QED BY <2>1, <2>2, <2>3
<1> QED BY <1>1, <1>2, <1>3, <1>5, <1>6, MoveStep

LEMMA MoveAssignInv ==
  ASSUME HandlesInv, NEW o \in Objects, NEW from \in Objects,
         MoveAssign(o, from)
  PROVE  HandlesInv'
<1> USE TypeFacts DEF HandlesInv
<1>1. smart \in [Objects -> Smarts] /\ span \in [Objects -> Spans]
  BY DEF TypeOK, Smarts, Spans
<1>2. CASE o # from
  <2>1. /\ from \in there /\ there' = there \cup {o}
        /\ Follow(o, from) /\ UNCHANGED <<handle, write_index>>
    BY DEF MoveAssign
  <2>2. /\ smart' \in [Objects -> Smarts]
        /\ smart'[o] = smart[from] /\ smart'[from] = smart[o]
        /\ \A q \in Objects \ {o, from} : smart'[q] = smart[q]
    BY <1>1, <1>2 DEF MoveAssign
  <2>3. smart[o].ptr # 0 => smart[o].deleter
    BY DEF OnePointer
  <2> QED BY <1>2, <2>1, <2>2, <2>3, MoveStep
<1>3. CASE o = from
  <2>1. smart' = smart
    BY <1>1, <1>3 DEF MoveAssign
  <2>2. view' = view /\ span' = span
    BY <1>1, <1>3 DEF MoveAssign, Follow
  <2> QED BY <2>1, <2>2, StutterInv DEF vars, MoveAssign
<1> QED BY <1>2, <1>3
-----------------------------------------------------------------------------
(* Steps in which an object lets go of what it pointed to.                 *)

LEMMA CreatedIs ==
  ASSUME TypeOK, NEW n \in Streams
  PROVE  /\ Created(n) \in Handles
         /\ Created(n).stream = n /\ Created(n).deletions = 0
         /\ Created(n).reserved = 0
         /\ write_index[n] \in {Created(n).next, StopIndex}
BY SizeAssumption DEF Created, Handles, TypeOK, Cells

LEMMA CreatedAppended ==
  ASSUME TypeOK, NEW n \in Streams
  PROVE  LET hs == Append(handle, Created(n))
         IN  /\ hs \in Seq(Handles) /\ Len(hs) = Len(handle) + 1
             /\ hs[Len(handle) + 1] = Created(n)
             /\ \A h \in 1 .. Len(handle) : hs[h] = handle[h]
<1> DEFINE c == Created(n)
           hs == Append(handle, c)
<1>1. c \in Handles /\ handle \in Seq(Handles)
  BY TypeFacts, CreatedIs
<1> HIDE DEF c
<1>2. /\ hs \in Seq(Handles) /\ Len(hs) = Len(handle) + 1
      /\ hs[Len(handle) + 1] = c
      /\ \A h \in 1 .. Len(handle) : hs[h] = handle[h]
  BY <1>1, AppendProperties
<1> HIDE DEF hs
<1> QED BY <1>2 DEF c, hs

(* Handles hs, of which the first ones are those of before, are there, and *)
(* the one that o had is destroyed.                                        *)
LEMMA LetGoStep ==
  ASSUME HandlesInv, NEW o \in Objects,
         NEW hs \in Seq(Handles), handle' = Destroyed(hs, smart[o].ptr),
         there' \subseteq Objects, there \ {o} \subseteq there',
         UNCHANGED write_index, NEW v, Forget(o, v),
         smart' \in [Objects -> [ptr : 0 .. Len(hs), deleter : BOOLEAN]],
         \A q \in Objects \ {o} : smart'[q] = smart[q],
         \/ /\ hs = handle /\ smart'[o].ptr = 0 /\ v \in {Closed, Unknown}
         \/ \E n \in Streams :
              /\ hs = Append(handle, Created(n)) /\ v = n /\ o \in there'
              /\ smart'[o] = [ptr |-> Len(hs), deleter |-> TRUE]
              /\ \A q \in Objects \ {o} : view[q] # n
  PROVE  HandlesInv'
<1> USE DEF HandlesInv
<1> DEFINE Opens(n) ==
             /\ hs = Append(handle, Created(n)) /\ v = n /\ o \in there'
             /\ smart'[o] = [ptr |-> Len(hs), deleter |-> TRUE]
             /\ \A q \in Objects \ {o} : view[q] # n
           Closes == /\ hs = handle /\ smart'[o].ptr = 0
                     /\ v \in {Closed, Unknown}
           P == smart[o].ptr
<1>1. Closes \/ \E n \in Streams : Opens(n)
  OBVIOUS
<1>2. ASSUME NEW n \in Streams, Opens(n)
      PROVE  /\ Len(hs) = Len(handle) + 1 /\ hs[Len(hs)] = Created(n)
             /\ \A h \in DOMAIN handle : hs[h] = handle[h]
             /\ smart'[o].ptr = Len(hs) /\ smart'[o].deleter
  <2>1. /\ handle \in Seq(Handles) /\ DOMAIN handle = 1 .. Len(handle)
        /\ Created(n) \in Handles
    BY TypeFacts, CreatedIs
  <2>2. /\ hs = Append(handle, Created(n))
        /\ smart'[o] = [ptr |-> Len(hs), deleter |-> TRUE]
    BY <1>2
  <2>3. /\ Len(hs) = Len(handle) + 1 /\ hs[Len(handle) + 1] = Created(n)
        /\ \A h \in 1 .. Len(handle) : hs[h] = handle[h]
    <3> HIDE DEF Opens, Closes
    <3> QED BY <2>1, <2>2, CreatedAppended
  <2>4. smart'[o].ptr = Len(hs) /\ smart'[o].deleter
    BY <2>2
  <2> HIDE DEF Opens, Closes
  <2> QED BY <2>1, <2>3, <2>4
<1>3. /\ Len(hs) \in Nat /\ Len(handle) <= Len(hs)
      /\ \A h \in DOMAIN handle : h \in 1 .. Len(hs) /\ hs[h] = handle[h]
  BY <1>1, <1>2, TypeFacts
<1>4. P \in 0 .. Len(handle) /\ P \in 0 .. Len(hs)
  BY <1>3, TypeFacts
<1>5. /\ handle' \in Seq(Handles) /\ Len(handle') = Len(hs)
      /\ DOMAIN handle' = 1 .. Len(hs)
      /\ \A h \in 1 .. Len(hs) : h # P => handle'[h] = hs[h]
  <2>1. /\ handle' \in Seq(Handles) /\ Len(handle') = Len(hs)
        /\ \A h \in 1 .. Len(hs) : h # P => handle'[h] = hs[h]
    BY <1>4, DestroyedIs
  <2> QED BY <2>1, LenProperties
<1>6. P # 0 => /\ P \in DOMAIN handle
               /\ handle'[P].next = 0 /\ handle'[P].reserved = 0
               /\ handle'[P].deletions = 1
  <2>1. P # 0 => P \in DOMAIN handle /\ handle[P].deletions = 0
    BY TypeFacts DEF DestroyedOnce, Owned
  <2> DEFINE d == [stream |-> hs[P].stream, next |-> 0, reserved |-> 0,
                   deletions |-> hs[P].deletions + 1]
  <2>2. P # 0 => handle'[P] = d
    BY <1>4, DestroyedIs
  <2>3. d.next = 0 /\ d.reserved = 0 /\ d.deletions = hs[P].deletions + 1
    OBVIOUS
  <2> HIDE DEF d
  <2> QED BY <1>3, <2>1, <2>2, <2>3
<1>7. \A h \in DOMAIN handle : h # P => handle'[h] = handle[h]
  BY <1>3, <1>5
<1>8. smart'[o].ptr # P \/ smart'[o].ptr = 0
  BY <1>1, <1>2, <1>4, TypeFacts
<1>9. \A q \in Objects \ {o} : smart[q].ptr # 0 =>
        /\ smart[q].ptr # P /\ smart[q].ptr \in DOMAIN handle
        /\ handle'[smart[q].ptr] = handle[smart[q].ptr]
  BY <1>7, TypeFacts DEF OnePointer
<1>10. \A q \in Objects : smart'[q].ptr = smart'[o].ptr /\ smart'[q].ptr # 0 => q = o
  BY <1>1, <1>2, TypeFacts
<1>11. /\ view'[o] = v /\ span'[o] = NoSpan
       /\ \A q \in Objects \ {o} : view'[q] = view[q] /\ span'[q] = span[q]
  BY TypeFacts DEF Forget
<1>12. v \in Streams \cup {Closed, Unknown} /\ (v \in Streams => \E n \in Streams : Opens(n))
  BY <1>1, StreamsAssumption
<1> HIDE DEF P
<1>0. ASSUME NEW n \in Streams, Opens(n)
      PROVE  /\ handle'[Len(hs)] = Created(n)
             /\ smart'[o].ptr = Len(hs) /\ Len(hs) # P
             /\ Len(hs) # 0 /\ Len(hs) \in 1 .. Len(hs)
             /\ \A h \in 1 .. Len(hs) :
                  h \notin DOMAIN handle => h = Len(hs)
  <2>1. /\ Len(hs) = Len(handle) + 1 /\ hs[Len(hs)] = Created(n)
        /\ smart'[o].ptr = Len(hs)
    BY <1>0, <1>2
  <2>2. /\ Len(handle) \in Nat /\ DOMAIN handle = 1 .. Len(handle)
    BY TypeFacts
  <2>3. Len(hs) # P /\ Len(hs) \in 1 .. Len(hs)
    BY <1>4, <2>1, <2>2
  <2> QED BY <1>5, <2>1, <2>2, <2>3
<1>13. TypeOK'
  <2>1. view' \in [Objects -> Streams \cup {Closed, Unknown}]
    BY <1>12 DEF Forget, TypeOK
  <2>2. span' \in [Objects -> [handle : 0 .. Len(handle'), size : Cells]]
    <3> DEFINE S == [handle : 0 .. Len(handle'), size : Cells]
    <3>1. \A q \in Objects : span[q] \in S
      <4>1. 0 .. Len(handle) \subseteq 0 .. Len(handle')
        BY <1>3, <1>5, TypeFacts
      <4>2. \A q \in Objects : span[q] \in [handle : 0 .. Len(handle), size : Cells]
        BY DEF TypeOK
      <4> QED BY <4>1, <4>2
    <3>2. NoSpan \in S
      BY <1>3, <1>5, TypeFacts DEF NoSpan
    <3>3. DOMAIN span' = Objects
      BY TypeFacts DEF Forget
    <3>4. span' = [q \in Objects |-> span'[q]]
      BY TypeFacts DEF Forget, TypeOK
    <3> HIDE DEF S
    <3>5. \A q \in Objects : span'[q] \in S
      BY <1>11, <3>1, <3>2
    <3> QED BY <3>4, <3>5 DEF S
  <2>3. /\ smart' \in [Objects -> [ptr : 0 .. Len(handle'), deleter : BOOLEAN]]
        /\ write_index' \in [Streams -> Cells \cup {StopIndex}]
    BY <1>5 DEF TypeOK
  <2> QED BY <1>5, <2>1, <2>2, <2>3 DEF TypeOK, Handles
<1>14. OnePointer'
  <2>1. smart'[o].ptr # 0 => o \in there' /\ smart'[o].deleter
    BY <1>1, <1>2
  <2> QED BY <1>10, <2>1 DEF OnePointer
<1>15. DestroyedOnce'
  <2> SUFFICES ASSUME NEW h \in 1 .. Len(hs)
               PROVE  handle'[h].deletions = IF Owned(h)' THEN 0 ELSE 1
    BY <1>5 DEF DestroyedOnce
  <2>0. h # 0
    OBVIOUS
  <2>1. CASE h = P
    <3>1. ~ Owned(h)'
      BY <1>8, <1>9, <2>0, <2>1 DEF Owned, P
    <3> QED BY <1>6, <2>0, <2>1, <3>1
  <2>2. CASE h \in DOMAIN handle /\ h # P
    <3>1. smart'[o].ptr # h
      BY <1>1, <1>2, <2>2, TypeFacts
    <3>2. Owned(h)' <=> Owned(h)
      BY <2>2, <3>1 DEF Owned, P
    <3> QED BY <1>7, <2>2, <3>2 DEF DestroyedOnce
  <2>3. CASE h \notin DOMAIN handle
    <3>1. PICK n \in Streams : Opens(n)
      BY <1>1, <2>3, TypeFacts
    <3>2. h = Len(hs) /\ h # P
      BY <1>0, <2>3, <3>1
    <3>3. handle'[h] = Created(n) /\ Owned(h)'
      BY <1>0, <3>1, <3>2 DEF Owned
    <3> QED BY <3>3, CreatedIs
  <2> QED BY <2>1, <2>2, <2>3
<1>16. OneView'
  BY <1>11, <1>12 DEF OneView
<1>17. ClientsAreRight'
  <2> SUFFICES ASSUME NEW q \in Objects
               PROVE  /\ view'[q] = Closed => smart'[q].ptr = 0
                      /\ view'[q] \in Streams =>
                           /\ smart'[q].ptr # 0
                           /\ handle'[smart'[q].ptr].stream = view'[q]
                           /\ write_index[handle'[smart'[q].ptr].stream] \in
                                {handle'[smart'[q].ptr].next, StopIndex}
    BY DEF ClientsAreRight
  <2>1. CASE q # o
    BY <1>9, <1>11, <2>1 DEF ClientsAreRight
  <2>2. CASE q = o /\ Closes
    BY <1>11, <2>2, StreamsAssumption
  <2>3. CASE q = o /\ \E n \in Streams : Opens(n)
    <3>1. PICK n \in Streams : Opens(n)
      BY <2>3
    <3>2. smart'[o].ptr = Len(hs) /\ Len(hs) # 0
      BY <1>0, <3>1
    <3>3. handle'[Len(hs)] = Created(n)
      BY <1>0, <3>1
    <3>4. view'[o] = n /\ n # Closed
      BY <1>11, <3>1, StreamsAssumption
    <3> QED BY <2>3, <3>2, <3>3, <3>4, CreatedIs
  <2> QED BY <1>1, <2>1, <2>2, <2>3
<1>18. SpansAreReserved'
  <2>1. NoSpan.size = 0
    BY DEF NoSpan
  <2> QED BY <1>9, <1>11, <2>1 DEF SpansAreReserved
<1>19. ReservedFits'
  <2> SUFFICES ASSUME NEW h \in 1 .. Len(hs)
               PROVE  handle'[h].next + handle'[h].reserved <= Size
    BY <1>5 DEF ReservedFits
  <2>1. CASE h = P
    BY <1>6, <2>1, SizeAssumption
  <2>2. CASE h \in DOMAIN handle /\ h # P
    BY <1>7, <2>2 DEF ReservedFits
  <2>3. CASE h \notin DOMAIN handle
    <3>1. PICK n \in Streams : Opens(n)
      BY <1>1, <2>3, TypeFacts
    <3>2. h = Len(hs) /\ h # P
      BY <1>0, <2>3, <3>1
    <3>3. handle'[h] = Created(n)
      BY <1>0, <3>1, <3>2
    <3>4. Created(n).next \in Cells /\ Created(n).reserved = 0
      BY CreatedIs DEF Handles
    <3> QED BY <3>3, <3>4, SizeAssumption DEF Cells
  <2> QED BY <2>1, <2>2, <2>3
<1> QED
  BY <1>13, <1>14, <1>15, <1>16, <1>17, <1>18, <1>19

LEMMA SmartsStay ==
  ASSUME TypeOK, NEW o \in Objects, NEW k \in Nat, Len(handle) <= k,
         NEW x \in [ptr : 0 .. k, deleter : BOOLEAN]
  PROVE  /\ [smart EXCEPT ![o] = x] \in
              [Objects -> [ptr : 0 .. k, deleter : BOOLEAN]]
         /\ [smart EXCEPT ![o] = x][o] = x
         /\ \A q \in Objects \ {o} : [smart EXCEPT ![o] = x][q] = smart[q]
<1>1. 0 .. Len(handle) \subseteq 0 .. k
  BY TypeFacts
<1>2. smart \in [Objects -> [ptr : 0 .. k, deleter : BOOLEAN]]
  BY <1>1 DEF TypeOK
<1> QED BY <1>2

LEMMA ConstructInv ==
  ASSUME HandlesInv, NEW o \in Objects, Construct(o)
  PROVE  HandlesInv'
<1> USE DEF HandlesInv
<1>1. smart[o].ptr = 0
  BY DEF OnePointer, Construct
<1>2. handle' = Destroyed(handle, smart[o].ptr)
  BY <1>1 DEF Construct, Destroyed
<1>3. /\ there' \subseteq Objects /\ there \ {o} \subseteq there'
      /\ Forget(o, Closed) /\ UNCHANGED <<write_index, smart>>
      /\ handle \in Seq(Handles)
  BY TypeFacts DEF Construct
<1>4. /\ smart' \in [Objects -> [ptr : 0 .. Len(handle), deleter : BOOLEAN]]
      /\ smart'[o].ptr = 0 /\ \A q \in Objects \ {o} : smart'[q] = smart[q]
  BY <1>1, <1>3 DEF TypeOK
<1> QED BY <1>2, <1>3, <1>4, LetGoStep

LEMMA CloseInv ==
  ASSUME HandlesInv, NEW o \in Objects, Close(o)
  PROVE  HandlesInv'
<1> USE DEF HandlesInv
<1>1. /\ there' \subseteq Objects /\ there \ {o} \subseteq there'
      /\ Forget(o, Closed) /\ UNCHANGED write_index
      /\ handle' = Destroyed(handle, smart[o].ptr)
      /\ handle \in Seq(Handles) /\ Len(handle) \in Nat
  BY TypeFacts DEF Close
<1> DEFINE x == [smart[o] EXCEPT !.ptr = 0]
<1>2. smart' = [smart EXCEPT ![o] = x]
  BY DEF Close
<1>3. x \in [ptr : 0 .. Len(handle), deleter : BOOLEAN] /\ x.ptr = 0
  <2>1. smart[o] \in [ptr : 0 .. Len(handle), deleter : BOOLEAN]
    BY DEF TypeOK
  <2>2. x = [ptr |-> 0, deleter |-> smart[o].deleter]
    BY <2>1
  <2>3. 0 \in 0 .. Len(handle) /\ smart[o].deleter \in BOOLEAN
    BY <1>1, <2>1
  <2> HIDE DEF x
  <2> QED BY <2>2, <2>3
<1> HIDE DEF x
<1>4. /\ smart' \in [Objects -> [ptr : 0 .. Len(handle), deleter : BOOLEAN]]
      /\ smart'[o] = x /\ \A q \in Objects \ {o} : smart'[q] = smart[q]
  BY <1>1, <1>2, <1>3, SmartsStay
<1> QED BY <1>1, <1>3, <1>4, LetGoStep

LEMMA DestroyInv ==
  ASSUME HandlesInv, NEW o \in Objects, Destroy(o)
  PROVE  HandlesInv'
<1> USE DEF HandlesInv
<1>1. /\ there' \subseteq Objects /\ there \ {o} \subseteq there'
      /\ Forget(o, Unknown) /\ UNCHANGED write_index
      /\ handle' = Destroyed(handle, smart[o].ptr)
      /\ handle \in Seq(Handles) /\ Len(handle) \in Nat
      /\ smart' = [smart EXCEPT ![o] = Null]
  BY TypeFacts DEF Destroy
<1>2. Null \in [ptr : 0 .. Len(handle), deleter : BOOLEAN] /\ Null.ptr = 0
  BY <1>1 DEF Null
<1>3. /\ smart' \in [Objects -> [ptr : 0 .. Len(handle), deleter : BOOLEAN]]
      /\ smart'[o] = Null /\ \A q \in Objects \ {o} : smart'[q] = smart[q]
  BY <1>1, <1>2, SmartsStay
<1> QED BY <1>1, <1>2, <1>3, LetGoStep

LEMMA OpenInv ==
  ASSUME HandlesInv, NEW o \in Objects, NEW n \in Streams, Open(o, n)
  PROVE  HandlesInv'
<1> USE DEF HandlesInv
<1> DEFINE hs == Append(handle, Created(n))
           x == [ptr |-> Len(hs), deleter |-> TRUE]
<1>1. /\ there' \subseteq Objects /\ there \ {o} \subseteq there' /\ o \in there'
      /\ Forget(o, n) /\ UNCHANGED write_index
      /\ \A q \in Objects \ {o} : view[q] # n
      /\ handle' = Destroyed(hs, smart[o].ptr)
      /\ smart' = [smart EXCEPT ![o] = [ptr |-> Len(handle'), deleter |-> TRUE]]
  BY TypeFacts DEF Open
<1>2. hs \in Seq(Handles) /\ Len(hs) = Len(handle) + 1 /\ Len(handle) \in Nat
  BY CreatedAppended, TypeFacts
<1>3. smart[o].ptr \in 0 .. Len(hs)
  <2> HIDE DEF hs
  <2> QED BY <1>2, TypeFacts
<1>4. Len(handle') = Len(hs)
  <2> HIDE DEF hs
  <2> QED BY <1>1, <1>2, <1>3, DestroyedIs
<1>5. smart' = [smart EXCEPT ![o] = x] /\ x \in [ptr : 0 .. Len(hs), deleter : BOOLEAN]
  <2> HIDE DEF hs
  <2> QED BY <1>1, <1>2, <1>4
<1>6. /\ smart' \in [Objects -> [ptr : 0 .. Len(hs), deleter : BOOLEAN]]
      /\ smart'[o] = x /\ \A q \in Objects \ {o} : smart'[q] = smart[q]
  <2>1. Len(hs) \in Nat /\ Len(handle) <= Len(hs)
    <3> HIDE DEF hs
    <3> QED BY <1>2
  <2> HIDE DEF hs, x
  <2> QED BY <1>5, <2>1, SmartsStay
<1>7. \E m \in Streams :
        /\ hs = Append(handle, Created(m)) /\ n = m /\ o \in there'
        /\ smart'[o] = [ptr |-> Len(hs), deleter |-> TRUE]
        /\ \A q \in Objects \ {o} : view[q] # m
  BY <1>1, <1>6
<1> HIDE DEF hs
<1> QED BY <1>1, <1>2, <1>6, <1>7, LetGoStep
-----------------------------------------------------------------------------
(* Calls of the queue.                                                     *)

(* A call of object o makes r of its handle h and leaves the client with   *)
(* the span x; the index of the stream follows r, is stopped or stays.     *)
Uses(o, h, r, x) ==
  /\ view[o] # Unknown /\ smart[o].ptr = h
  /\ UNCHANGED <<there, smart, view>>
  /\ handle' = [handle EXCEPT ![h] = r]
  /\ r.stream = handle[h].stream /\ r.deletions = handle[h].deletions
  /\ r.next + r.reserved <= Size
  /\ write_index' \in [Streams -> Cells \cup {StopIndex}]
  /\ \A m \in Streams \ {r.stream} : write_index'[m] = write_index[m]
  /\ write_index[r.stream] = StopIndex => write_index'[r.stream] = StopIndex
  /\ \/ write_index'[r.stream] = write_index[r.stream] /\ r.next = handle[h].next
     \/ write_index'[r.stream] \in {r.next, StopIndex}
  /\ x.size > 0 => x.handle = h /\ x.size <= r.reserved
  /\ span' = [span EXCEPT ![o] = x]

LEMMA QueueStep ==
  ASSUME HandlesInv, NEW o \in Objects, NEW h \in DOMAIN handle,
         NEW r \in Handles, NEW x \in Spans, Uses(o, h, r, x)
  PROVE  HandlesInv'
<1> USE DEF HandlesInv, Uses
<1>1. /\ handle' \in Seq(Handles) /\ Len(handle') = Len(handle)
      /\ DOMAIN handle' = DOMAIN handle /\ handle'[h] = r
      /\ \A i \in DOMAIN handle \ {h} : handle'[i] = handle[i]
  <2>1. handle \in Seq(Handles) /\ h \in 1 .. Len(handle)
    BY TypeFacts
  <2>2. /\ handle' \in Seq(Handles) /\ Len(handle') = Len(handle)
        /\ \A i \in 1 .. Len(handle) : handle'[i] = IF i = h THEN r ELSE handle[i]
    BY <2>1, ExceptSeq
  <2> QED BY <2>1, <2>2, TypeFacts, LenProperties
<1>2. h # 0
  BY TypeFacts
<1>3. \A q \in Objects \ {o} : smart[q].ptr # 0 =>
        /\ smart[q].ptr # h /\ smart[q].ptr \in DOMAIN handle
        /\ handle'[smart[q].ptr] = handle[smart[q].ptr]
  BY <1>1, TypeFacts DEF OnePointer
<1>4. r.stream \in Streams /\ view[o] = r.stream /\ r.next \in Cells
  <2>1. view[o] \in Streams
    BY <1>2, TypeFacts DEF ClientsAreRight
  <2> QED BY <1>2, <2>1 DEF ClientsAreRight, Handles
<1>5. \A q \in Objects \ {o} : span'[q] = span[q]
  BY TypeFacts
<1>6. span'[o] = x
  BY TypeFacts
<1>7. TypeOK'
  <2>1. span \in [Objects -> Spans]
    BY DEF TypeOK, Spans
  <2>2. span' \in [Objects -> Spans]
    BY <2>1
  <2> QED BY <1>1, <2>2, TypeFacts DEF TypeOK, Spans, Handles
<1>8. OnePointer' /\ OneView'
  BY DEF OnePointer, OneView
<1>9. DestroyedOnce'
  <2> SUFFICES ASSUME NEW i \in DOMAIN handle
               PROVE  handle'[i].deletions = IF Owned(i) THEN 0 ELSE 1
    BY <1>1 DEF DestroyedOnce, Owned
  <2>1. handle'[i].deletions = handle[i].deletions
    BY <1>1
  <2> QED BY <2>1 DEF DestroyedOnce
<1>10. ClientsAreRight'
  <2> SUFFICES ASSUME NEW q \in Objects
               PROVE  /\ view[q] = Closed => smart[q].ptr = 0
                      /\ view[q] \in Streams =>
                           /\ smart[q].ptr # 0
                           /\ handle'[smart[q].ptr].stream = view[q]
                           /\ write_index'[handle'[smart[q].ptr].stream] \in
                                {handle'[smart[q].ptr].next, StopIndex}
    BY DEF ClientsAreRight
  <2>1. CASE q # o
    <3>1. view[q] \in Streams => view[q] # r.stream
      BY <1>4, <2>1 DEF OneView
    <3> QED BY <1>3, <2>1, <3>1 DEF ClientsAreRight
  <2>2. CASE q = o
    <3>1. write_index[r.stream] \in {handle[h].next, StopIndex}
      BY <1>4 DEF ClientsAreRight
    <3> QED BY <1>1, <1>2, <1>4, <2>2, <3>1 DEF ClientsAreRight
  <2> QED BY <2>1, <2>2
<1>11. SpansAreReserved'
  <2> SUFFICES ASSUME NEW q \in Objects, span'[q].size > 0
               PROVE  /\ smart[q].ptr # 0 /\ smart[q].ptr = span'[q].handle
                      /\ span'[q].size <= handle'[smart[q].ptr].reserved
    BY DEF SpansAreReserved
  <2>1. CASE q = o
    BY <1>1, <1>2, <1>6, <2>1
  <2>2. CASE q # o
    BY <1>3, <1>5, <2>2 DEF SpansAreReserved
  <2> QED BY <2>1, <2>2
<1>12. ReservedFits'
  BY <1>1 DEF ReservedFits
<1> QED
  BY <1>7, <1>8, <1>9, <1>10, <1>11, <1>12

(* What Reserve does to an open object.                                    *)
LEMMA GrantInv ==
  ASSUME HandlesInv, NEW o \in Objects, view[o] # Unknown,
         smart[o].ptr # 0, NEW granted \in Cells, Grant(o, granted),
         UNCHANGED <<there, smart, view, write_index>>
  PROVE  HandlesInv'
<1> USE DEF HandlesInv
<1>1. PICK h \in DOMAIN handle : smart[o].ptr = h
  BY TypeFacts
<1>2. /\ handle[h] \in Handles /\ handle[h].stream \in Streams
      /\ handle[h].next \in Cells /\ handle[h].deletions \in Nat
      /\ h \in 0 .. Len(handle)
  BY TypeFacts
<1> DEFINE r == [stream |-> handle[h].stream, next |-> handle[h].next,
                 reserved |-> granted, deletions |-> handle[h].deletions]
           x == [handle |-> h, size |-> granted]
<1>3. /\ handle[h].next + granted <= Size
      /\ handle' = [handle EXCEPT ![h].reserved = granted]
      /\ span' = [span EXCEPT ![o] = x]
  BY <1>1 DEF Grant
<1>4. [handle[h] EXCEPT !.reserved = granted] = r
  BY <1>2, HandleSet
<1>5. handle' = [handle EXCEPT ![h] = r]
  BY <1>3, <1>4
<1>6. r \in Handles /\ x \in Spans
  BY <1>2 DEF Handles, Spans
<1>7. /\ r.stream = handle[h].stream /\ r.deletions = handle[h].deletions
      /\ r.next = handle[h].next /\ r.reserved = granted
      /\ x.handle = h /\ x.size = granted /\ granted <= granted
      /\ write_index' \in [Streams -> Cells \cup {StopIndex}]
  <2>1. granted \in Int
    BY DEF Cells
  <2> QED BY <2>1 DEF TypeOK
<1> HIDE DEF r, x
<1>8. r.next + r.reserved <= Size /\ (x.size > 0 => x.size <= r.reserved)
  BY <1>3, <1>7
<1>9. /\ \A m \in Streams \ {r.stream} : write_index'[m] = write_index[m]
       /\ write_index[r.stream] = StopIndex => write_index'[r.stream] = StopIndex
       /\ write_index'[r.stream] = write_index[r.stream] /\ r.next = handle[h].next
  BY <1>7
<1>10. x.size > 0 => x.handle = h /\ x.size <= r.reserved
  BY <1>7, <1>8
<1>11. HandlesInv
  OBVIOUS
<1> HIDE DEF HandlesInv
<1>12. Uses(o, h, r, x)
  BY <1>1, <1>3, <1>5, <1>7, <1>8, <1>9, <1>10 DEF Uses
<1> QED BY <1>6, <1>11, <1>12, QueueStep

LEMMA ReserveInv ==
  ASSUME HandlesInv, NEW o \in Objects, Reserve(o)
  PROVE  HandlesInv'
<1>1. CASE smart[o].ptr = 0
  BY <1>1, StutterInv DEF Reserve, vars
<1>2. CASE smart[o].ptr # 0
  <2>1. PICK granted \in Cells : Grant(o, granted)
    BY <1>2 DEF Reserve
  <2>2. view[o] # Unknown /\ UNCHANGED <<there, smart, write_index, view>>
    BY DEF Reserve, Callable
  <2> QED BY <1>2, <2>1, <2>2, GrantInv
<1> QED BY <1>1, <1>2

LEMMA CommitInv ==
  ASSUME HandlesInv, NEW o \in Objects, NEW written_size \in Cells,
         Commit(o, written_size)
  PROVE  HandlesInv'
<1> USE DEF HandlesInv
<1>1. /\ o \in there /\ view[o] # Unknown
      /\ written_size <= span[o].size
      /\ UNCHANGED <<there, smart, view>>
  BY DEF Commit, Callable
<1>2. CASE smart[o].ptr = 0 \/ written_size = 0
  BY <1>1, <1>2, StutterInv DEF Commit, vars
<1>3. CASE smart[o].ptr # 0 /\ written_size # 0
  <2>1. PICK h \in DOMAIN handle : smart[o].ptr = h
    BY <1>3, TypeFacts
  <2>2. /\ handle[h] \in Handles /\ handle[h].stream \in Streams
        /\ handle[h].next \in Cells /\ handle[h].deletions \in Nat
        /\ handle[h].reserved \in Cells
        /\ handle[h].next + handle[h].reserved <= Size
    BY TypeFacts DEF ReservedFits
  <2>3. written_size <= handle[h].reserved
    <3>1. span[o].size > 0 /\ span[o].size \in Nat /\ written_size \in Nat
      BY <1>1, <1>3, TypeFacts
    <3>2. span[o].size <= handle[h].reserved
      BY <2>1, <3>1 DEF SpansAreReserved
    <3> QED BY <1>1, <2>2, <3>1, <3>2 DEF Cells
  <2> DEFINE to == Advance(handle[h].next, written_size, Size)
             r == [stream |-> handle[h].stream, next |-> to, reserved |-> 0,
                   deletions |-> handle[h].deletions]
             n == handle[h].stream
  <2>4. to \in Cells
    BY <2>2, <2>3, SizeAssumption DEF Advance, Cells
  <2>5. /\ handle' = [handle EXCEPT ![h].next = to, ![h].reserved = 0]
        /\ write_index' = [write_index EXCEPT ![n] = IF @ = StopIndex THEN @ ELSE to]
        /\ span' = [span EXCEPT ![o] = NoSpan]
    BY <1>3, <2>1 DEF Commit
  <2> HIDE DEF to
  <2>6. [handle[h] EXCEPT !.next = to, !.reserved = 0] = r
    BY <2>2, HandleSet
  <2>7. handle' = [handle EXCEPT ![h] = r]
    <3> DEFINE e == [handle[h] EXCEPT !.next = to, !.reserved = 0]
    <3>1. handle' = [handle EXCEPT ![h] = e]
      BY <2>1, <2>5
    <3> QED BY <2>6, <3>1
  <2>8. /\ r \in Handles /\ NoSpan \in Spans /\ ~ (NoSpan.size > 0)
        /\ r.stream = n /\ r.deletions = handle[h].deletions
        /\ r.next = to /\ r.reserved = 0 /\ to + 0 <= Size
    BY <2>2, <2>4, TypeFacts, SizeAssumption DEF Handles, Spans, NoSpan, Cells
  <2>9. /\ write_index' \in [Streams -> Cells \cup {StopIndex}]
        /\ \A m \in Streams \ {n} : write_index'[m] = write_index[m]
        /\ write_index'[n] = IF write_index[n] = StopIndex THEN StopIndex ELSE to
    BY <2>2, <2>4, <2>5 DEF TypeOK
  <2>10. /\ \A m \in Streams \ {r.stream} : write_index'[m] = write_index[m]
         /\ write_index[r.stream] = StopIndex => write_index'[r.stream] = StopIndex
         /\ write_index'[r.stream] \in {r.next, StopIndex}
    BY <2>8, <2>9
  <2> HIDE DEF r
  <2>11. r.next + r.reserved <= Size
    BY <2>8
  <2>12. /\ NoSpan.size > 0 => NoSpan.handle = h /\ NoSpan.size <= r.reserved
         /\ UNCHANGED <<there, smart, view>>
    BY <1>1, <2>8
  <2>13. /\ r \in Handles /\ handle' = [handle EXCEPT ![h] = r]
         /\ r.stream = handle[h].stream /\ r.deletions = handle[h].deletions
         /\ NoSpan \in Spans /\ span' = [span EXCEPT ![o] = NoSpan]
         /\ view[o] # Unknown /\ smart[o].ptr = h
    BY <1>1, <2>1, <2>5, <2>7, <2>8
  <2>14. write_index' \in [Streams -> Cells \cup {StopIndex}]
    BY <2>9
  <2> HIDE DEF HandlesInv, n
  <2>15. Uses(o, h, r, NoSpan)
    BY <2>10, <2>11, <2>12, <2>13, <2>14 DEF Uses
  <2> QED BY <2>13, <2>15, QueueStep
<1> QED BY <1>2, <1>3

(* A stop, by whomever, disturbs nothing but the write index.              *)
LEMMA StoppedInv ==
  ASSUME HandlesInv, NEW n \in Streams,
         write_index' = [write_index EXCEPT ![n] = StopIndex],
         UNCHANGED <<there, smart, handle, view, span>>
  PROVE  HandlesInv'
<1> USE DEF HandlesInv
<1>1. TypeOK' /\ OnePointer' /\ OneView'
  BY DEF TypeOK, OnePointer, OneView
<1>2. DestroyedOnce' /\ SpansAreReserved' /\ ReservedFits'
  BY DEF DestroyedOnce, Owned, SpansAreReserved, ReservedFits
<1>3. ClientsAreRight'
  <2>1. \A m \in Streams : write_index'[m] \in {write_index[m], StopIndex}
    BY DEF TypeOK
  <2> QED BY <2>1 DEF ClientsAreRight
<1> QED BY <1>1, <1>2, <1>3

LEMMA StopInv ==
  ASSUME HandlesInv, NEW o \in Objects, Stop(o)
  PROVE  HandlesInv'
<1>1. CASE smart[o].ptr = 0
  BY <1>1, StutterInv DEF Stop, vars
<1>2. CASE smart[o].ptr # 0
  <2>1. handle[smart[o].ptr].stream \in Streams
    BY <1>2, TypeFacts DEF HandlesInv
  <2> QED BY <1>2, <2>1, StoppedInv DEF Stop
<1> QED BY <1>1, <1>2
-----------------------------------------------------------------------------
LEMMA NextHandlesInv == HandlesInv /\ [Next]_vars => HandlesInv'
<1> SUFFICES ASSUME HandlesInv, [Next]_vars PROVE HandlesInv'
  OBVIOUS
<1>1. CASE UNCHANGED vars
  BY <1>1, StutterInv
<1>2. ASSUME NEW o \in Objects, NEW from \in Objects,
             MoveConstruct(o, from) \/ MoveAssign(o, from)
      PROVE  HandlesInv'
  BY <1>2, MoveConstructInv, MoveAssignInv
<1>3. ASSUME NEW o \in Objects, Construct(o) \/ Close(o) \/ Destroy(o)
      PROVE  HandlesInv'
  BY <1>3, ConstructInv, CloseInv, DestroyInv
<1>4. ASSUME NEW o \in Objects, NEW n \in Streams, Open(o, n)
      PROVE  HandlesInv'
  BY <1>4, OpenInv
<1>5. ASSUME NEW o \in Objects, OpenFails(o)
      PROVE  HandlesInv'
  BY <1>5, StutterInv DEF OpenFails
<1>6. ASSUME NEW o \in Objects, Reserve(o) \/ Stop(o)
      PROVE  HandlesInv'
  BY <1>6, ReserveInv, StopInv
<1>7. ASSUME NEW o \in Objects, NEW written_size \in Cells,
             Commit(o, written_size)
      PROVE  HandlesInv'
  BY <1>7, CommitInv
<1>8. ASSUME NEW n \in Streams, StopByOther(n) PROVE HandlesInv'
  BY <1>8, StoppedInv DEF StopByOther
<1> QED
  BY <1>1, <1>2, <1>3, <1>4, <1>5, <1>6, <1>7, <1>8 DEF Next

(* The inductive invariant.                                                *)
THEOREM HandlesInvariant == Spec => []HandlesInv
BY InitHandlesInv, NextHandlesInv, PTL DEF Spec

(* The type invariant, for any objects, streams, sizes and handles: also,  *)
(* every write index is a cell of the buffer or says stopped.              *)
THEOREM TypeCorrect == Spec => []TypeOK
<1>1. HandlesInv => TypeOK
  BY DEF HandlesInv
<1> QED BY <1>1, HandlesInvariant, PTL

(* Whatever sequence of moves, opens, closes and destructions: a handle is *)
(* destroyed once, when the last C++ object lets go of it, and its owner   *)
(* has the function to destroy it.                                         *)
THEOREM EachHasOneOwner == Spec => []OneOwner
BY InvOneOwner, HandlesInvariant, PTL

(* What a client opened, moved or closed is where it believes it to be,    *)
(* and stands where its stream stands in shared memory.                    *)
THEOREM ClientsStayRight == Spec => []ClientsAreRight
<1>1. HandlesInv => ClientsAreRight
  BY DEF HandlesInv
<1> QED BY <1>1, HandlesInvariant, PTL

(* The span that a client still has after moves and failed opens is one    *)
(* that the object's handle, which is not destroyed, has reserved.         *)
THEOREM SpansStayBacked == Spec => []SpansAreBacked
BY InvSpansAreBacked, HandlesInvariant, PTL
=============================================================================
