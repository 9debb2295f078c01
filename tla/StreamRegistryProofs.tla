------------------------- MODULE StreamRegistryProofs -------------------------
(***************************************************************************)
(* Proofs, for every set of processes, of sizes and of those who remove or *)
(* die, and any number of removes, of the safety of StreamRegistry.        *)
(***************************************************************************)
EXTENDS StreamRegistry, SequenceTheorems, TLAPS

(* Between the making of a segment and the end of its initialisation the   *)
(* process that made it, and no other, is going to write to it.            *)
Making(p) == pc[p] \in {"truncate", "initialize"}

MakersAreAlone ==
  \A p \in Processes : Making(p) =>
    /\ data[p].segment \in DOMAIN segment
    /\ segment[data[p].segment] =
         [room |-> IF pc[p] = "truncate" THEN 0 ELSE call[p].asked + 1,
          buffer_size |-> 0]
    /\ \A q \in Processes \ {p} :
         Making(q) => data[q].segment # data[p].segment

(* A header says 0 or the truth.                                           *)
HeadersAreTrue ==
  \A i \in DOMAIN segment : segment[i].buffer_size \in {0, segment[i].room - 1}

(* What a process has of a segment was said by the segment's header.       *)
ViewsAreTrue ==
  \A p \in Processes :
    /\ pc[p] = "extract" => data[p].segment \in DOMAIN segment
    /\ data[p].size # 0 =>
         /\ data[p].segment \in DOMAIN segment
         /\ data[p].size = segment[data[p].segment].buffer_size
    /\ stream[p] # NoView => stream[p].segment \in DOMAIN segment

EverySegment == DOMAIN segment \subseteq {shm_name} \cup removed

RegistryInv ==
  /\ TypeOK
  /\ MakersAreAlone
  /\ HeadersAreTrue
  /\ ViewsAreTrue
  /\ EverySegment
  /\ StreamsAreUsable
-----------------------------------------------------------------------------
(* Type correctness.                                                       *)

Places == {"idle", "lock", "open_shm", "extract", "create_shm", "truncate",
           "initialize", "unlock", "construct", "remove_shm", "remove_mutex"}
Outcomes == {"none", "pending", "success", "crashed"} \cup Errors
Views == [segment : 0 .. Len(segment), size : Nat]
ThingsCalled ==
  [kind : {"none", "open", "create", "remove"}, asked : Nat]
Headers == [room : Nat, buffer_size : Nat]
Holders == Processes \cup {Nobody, Dead}

LEMMA TypeParts ==
  TypeOK <=> /\ segment \in Seq(Headers)
             /\ holder \in Seq(Holders)
             /\ shm_name \in 0 .. Len(segment)
             /\ mutex_name \in 0 .. Len(holder)
             /\ pc \in [Processes -> Places]
             /\ call \in [Processes -> ThingsCalled]
             /\ mutex \in [Processes -> 0 .. Len(holder)]
             /\ data \in [Processes -> Views]
             /\ stream \in [Processes -> Views]
             /\ outcome \in [Processes -> Outcomes]
             /\ removed \subseteq 1 .. Len(segment)
             /\ removes \in 0 .. MaxRemoves
BY DEF TypeOK, Headers, Holders, Places, ThingsCalled, Views, Outcomes

LEMMA InitTypeOK == Init => TypeOK
BY SizesAssumption, MaxRemovesAssumption
   DEF Init, TypeOK, None, NoCall, Call, NoView, View

LEMMA OpenMutexType ==
  ASSUME TypeOK, NEW p \in Processes, NEW c \in Calls(p), OpenMutex(p, c)
  PROVE  TypeOK'
<1> USE DEF OpenMutex
<1>1. c \in ThingsCalled /\ (c.kind = "remove" => removes < MaxRemoves)
  BY SizesAssumption DEF Calls, Call, ThingsCalled
<1>2. /\ holder' \in Seq(Holders) /\ mutex_name' \in 0 .. Len(holder')
      /\ Len(holder) <= Len(holder')
  <2>1. CASE mutex_name = None
    <3>1. Nobody \in Holders /\ holder \in Seq(Holders) /\ Len(holder) \in Nat
      BY TypeParts, LenProperties DEF Holders
    <3>2. holder' = Append(holder, Nobody) /\ mutex_name' = Len(holder')
      BY <2>1
    <3>3. holder' \in Seq(Holders) /\ Len(holder') = Len(holder) + 1
      BY <3>1, <3>2, AppendProperties
    <3> QED BY <3>1, <3>2, <3>3
  <2>2. CASE mutex_name # None
    BY <2>2, TypeParts
  <2> QED BY <2>1, <2>2
<1>3. mutex' \in [Processes -> 0 .. Len(holder')]
  BY <1>2, TypeParts
<1>4. removes' \in 0 .. MaxRemoves
  BY <1>1, MaxRemovesAssumption, TypeParts
<1>5. pc' \in [Processes -> Places] /\ outcome' \in [Processes -> Outcomes]
  BY TypeParts DEF Places, Outcomes
<1>6. call' \in [Processes -> ThingsCalled]
  BY <1>1, TypeParts
<1> QED
  BY <1>2, <1>3, <1>4, <1>5, <1>6, TypeParts DEF TypeOK, Headers, Holders,
     Places, ThingsCalled, Views, Outcomes

(* What the moves inside a call have in common.                            *)
LEMMA MoveType ==
  ASSUME TypeOK, NEW p \in Processes,
         UNCHANGED <<mutex_name, call, stream, removes>>,
         NEW place \in Places, pc' = [pc EXCEPT ![p] = place],
         segment' \in Seq(Headers), Len(segment) <= Len(segment'),
         shm_name' \in 0 .. Len(segment'),
         holder' \in Seq(Holders), Len(holder') = Len(holder),
         mutex' \in [Processes -> 0 .. Len(holder)],
         NEW v \in [segment : 0 .. Len(segment'), size : Nat],
         data' = [data EXCEPT ![p] = v],
         NEW o \in Outcomes, outcome' = [outcome EXCEPT ![p] = o],
         removed' \subseteq 1 .. Len(segment')
  PROVE  TypeOK'
<1>1. Len(segment) \in Nat /\ Len(segment') \in Nat
  BY TypeParts, LenProperties
<1> DEFINE NewViews == [segment : 0 .. Len(segment'), size : Nat]
<1>2. Views \subseteq NewViews
  <2>1. 0 .. Len(segment) \subseteq 0 .. Len(segment')
    BY <1>1
  <2> QED BY <2>1 DEF Views
<1>3. data \in [Processes -> Views] /\ stream \in [Processes -> Views]
  BY TypeParts
<1> HIDE DEF NewViews
<1>4. data' \in [Processes -> NewViews]
  BY <1>2, <1>3 DEF NewViews
<1>5. stream' \in [Processes -> NewViews]
  BY <1>2, <1>3
<1>6. pc' \in [Processes -> Places] /\ outcome' \in [Processes -> Outcomes]
  BY TypeParts
<1>7. /\ mutex_name' \in 0 .. Len(holder') /\ call' \in [Processes -> ThingsCalled]
      /\ mutex' \in [Processes -> 0 .. Len(holder')] /\ removes' \in 0 .. MaxRemoves
  BY TypeParts
<1> QED
  BY <1>4, <1>5, <1>6, <1>7
  DEF NewViews, TypeOK, Headers, Holders, Places, ThingsCalled, Outcomes

(* The end of a call.                                                      *)
LEMMA EndType ==
  ASSUME TypeOK, NEW p \in Processes,
         UNCHANGED <<segment, shm_name, removed, removes>>,
         mutex_name' \in {mutex_name, None},
         NEW o \in Outcomes, EndCall(p, o),
         holder' \in Seq(Holders), Len(holder') = Len(holder),
         mutex' \in [Processes -> 0 .. Len(holder)],
         stream' \in [Processes -> Views]
  PROVE  TypeOK'
<1>1. NoView \in Views /\ NoCall \in ThingsCalled
  BY TypeParts, LenProperties
     DEF NoView, View, Views, NoCall, Call, ThingsCalled, None
<1>2. /\ data' \in [Processes -> Views] /\ call' \in [Processes -> ThingsCalled]
      /\ pc' \in [Processes -> Places] /\ outcome' \in [Processes -> Outcomes]
  BY <1>1, TypeParts DEF EndCall, Places
<1>3. mutex_name' \in 0 .. Len(holder')
  BY TypeParts, LenProperties DEF None
<1> QED
  BY <1>2, <1>3, TypeParts
  DEF TypeOK, Headers, Holders, Places, ThingsCalled, Outcomes, Views

(* Facts about the state that every step below uses.                       *)
LEMMA Typed ==
  ASSUME TypeOK, NEW p \in Processes
  PROVE  /\ Len(segment) \in Nat /\ DOMAIN segment = 1 .. Len(segment)
         /\ Len(holder) \in Nat /\ DOMAIN holder = 1 .. Len(holder)
         /\ data[p] \in Views /\ data[p] = View(data[p].segment, data[p].size)
         /\ data[p].segment \in 0 .. Len(segment) /\ data[p].size \in Nat
         /\ stream[p] \in Views
         /\ call[p].asked \in Nat
         /\ outcome[p] \in Outcomes
         /\ mutex[p] \in 0 .. Len(holder)
         /\ data = [data EXCEPT ![p] = data[p]]
         /\ outcome = [outcome EXCEPT ![p] = outcome[p]]
         /\ NoView \in Views /\ "pending" \in Outcomes
BY TypeParts, LenProperties
   DEF Views, View, NoView, None, ThingsCalled, Outcomes

(* A header that is rewritten stays a header, and there are as many.       *)
LEMMA HeaderType ==
  ASSUME TypeOK, NEW i \in DOMAIN segment, NEW h \in Headers
  PROVE  /\ [segment EXCEPT ![i] = h] \in Seq(Headers)
         /\ Len([segment EXCEPT ![i] = h]) = Len(segment)
         /\ DOMAIN [segment EXCEPT ![i] = h] = DOMAIN segment
<1>1. segment \in Seq(Headers) /\ i \in 1 .. Len(segment)
  BY TypeParts, LenProperties
<1> QED BY <1>1, ExceptSeq

(* Records of which one field is set.                                      *)
LEMMA HeaderSet ==
  ASSUME NEW h \in Headers, NEW n
  PROVE  /\ [h EXCEPT !.room = n] = [room |-> n, buffer_size |-> h.buffer_size]
         /\ [h EXCEPT !.buffer_size = n] = [room |-> h.room, buffer_size |-> n]
         /\ h.room \in Nat /\ h.buffer_size \in Nat
BY DEF Headers

LEMMA DataSet ==
  ASSUME TypeOK, NEW p \in Processes, NEW n
  PROVE  [data EXCEPT ![p].size = n] =
           [data EXCEPT ![p] = View(data[p].segment, n)]
<1>1. data[p] \in Views
  BY Typed
<1>2. [data[p] EXCEPT !.size = n] = View(data[p].segment, n)
  BY <1>1 DEF Views, View
<1> QED BY <1>2

LEMMA HolderType ==
  ASSUME TypeOK, NEW i, NEW h \in Holders
  PROVE  /\ [holder EXCEPT ![i] = h] \in Seq(Holders)
         /\ Len([holder EXCEPT ![i] = h]) = Len(holder)
<1>1. holder \in Seq(Holders) /\ DOMAIN holder = 1 .. Len(holder)
  BY TypeParts, LenProperties
<1>2. CASE i \in DOMAIN holder
  BY <1>1, <1>2, ExceptSeq
<1>3. CASE i \notin DOMAIN holder
  <2>1. [holder EXCEPT ![i] = h] = holder
    BY <1>1, <1>3, LenProperties
  <2> QED BY <1>1, <2>1
<1> QED BY <1>2, <1>3

LEMMA LockType ==
  ASSUME TypeOK, NEW p \in Processes, Lock(p)
  PROVE  TypeOK'
<1> DEFINE place == IF call[p].kind = "remove" THEN "remove_shm" ELSE "open_shm"
<1>1. place \in Places /\ p \in Holders
  BY DEF Places, Holders
<1>2. holder' \in Seq(Holders) /\ Len(holder') = Len(holder)
  BY <1>1, HolderType DEF Lock
<1>3. /\ pc' = [pc EXCEPT ![p] = place]
      /\ UNCHANGED <<shm_name, mutex_name, segment, call, mutex, data, stream,
                     outcome, removed, removes>>
  BY DEF Lock
<1> HIDE DEF place
<1>4. /\ data' = [data EXCEPT ![p] = data[p]] /\ data[p] \in Views
      /\ outcome' = [outcome EXCEPT ![p] = outcome[p]] /\ outcome[p] \in Outcomes
  BY <1>3, Typed
<1>5. Views = [segment : 0 .. Len(segment'), size : Nat]
  BY <1>3 DEF Views
<1>6. /\ segment' \in Seq(Headers) /\ Len(segment) <= Len(segment')
      /\ shm_name' \in 0 .. Len(segment')
      /\ mutex' \in [Processes -> 0 .. Len(holder)]
      /\ removed' \subseteq 1 .. Len(segment')
  BY <1>3, TypeParts, Typed
<1> QED
  BY <1>1, <1>2, <1>3, <1>4, <1>5, <1>6, MoveType

(* Unlocking ends the call or lets it go on.                               *)
LEMMA UnlockType ==
  ASSUME TypeOK, NEW p \in Processes, Unlock(p)
  PROVE  TypeOK'
<1>1. Nobody \in Holders
  BY DEF Holders
<1>2. holder' \in Seq(Holders) /\ Len(holder') = Len(holder)
  BY <1>1, HolderType DEF Unlock
<1>3. mutex' \in [Processes -> 0 .. Len(holder)]
  BY TypeParts, Typed DEF Unlock, None
<1>4. UNCHANGED <<shm_name, mutex_name, segment, stream, removed, removes>>
  BY DEF Unlock
<1>5. CASE \E o \in Outcomes : EndCall(p, o)
  <2> PICK o \in Outcomes : EndCall(p, o)
    BY <1>5
  <2>1. stream' \in [Processes -> Views]
    BY <1>4, TypeParts
  <2> QED BY <1>2, <1>3, <1>4, <2>1, EndType
<1>6. CASE /\ \E place \in Places : pc' = [pc EXCEPT ![p] = place]
           /\ UNCHANGED <<call, data, outcome>>
  <2> PICK place \in Places : pc' = [pc EXCEPT ![p] = place]
    BY <1>6
  <2>1. /\ data' = [data EXCEPT ![p] = data[p]]
        /\ outcome' = [outcome EXCEPT ![p] = outcome[p]]
        /\ outcome[p] \in Outcomes
        /\ data[p] \in [segment : 0 .. Len(segment'), size : Nat]
    BY <1>4, <1>6, Typed DEF Views
  <2>2. /\ segment' \in Seq(Headers) /\ Len(segment) <= Len(segment')
        /\ shm_name' \in 0 .. Len(segment')
        /\ removed' \subseteq 1 .. Len(segment')
    BY <1>4, TypeParts, Typed
  <2> QED BY <1>2, <1>3, <1>4, <1>6, <2>1, <2>2, MoveType
<1>7. outcome[p] \in Outcomes /\ "success" \in Outcomes
  BY Typed DEF Outcomes
<1> QED
  BY <1>5, <1>6, <1>7 DEF Unlock, AfterUnlock, Places

(* The stages of prepare and remove, which leave the mutex alone.          *)
LEMMA StageType ==
  ASSUME TypeOK, NEW p \in Processes,
         UNCHANGED <<mutex_name, holder, call, mutex, stream, removes>>,
         segment' \in Seq(Headers), Len(segment) <= Len(segment'),
         shm_name' \in 0 .. Len(segment'),
         removed' \subseteq 1 .. Len(segment'),
         \/ Fail(p, "failed_to_open") \/ Fail(p, "internal_error")
         \/ /\ \E place \in Places : pc' = [pc EXCEPT ![p] = place]
            /\ \E v \in [segment : 0 .. Len(segment'), size : Nat] :
                 data' = [data EXCEPT ![p] = v]
            /\ UNCHANGED outcome
  PROVE  TypeOK'
<1>1. /\ holder' \in Seq(Holders) /\ Len(holder') = Len(holder)
      /\ mutex' \in [Processes -> 0 .. Len(holder)]
  BY TypeParts
<1>2. ASSUME NEW error \in {"failed_to_open", "internal_error"}, Fail(p, error)
      PROVE  TypeOK'
  <2>1. /\ "unlock" \in Places /\ pc' = [pc EXCEPT ![p] = "unlock"]
        /\ error \in Outcomes /\ outcome' = [outcome EXCEPT ![p] = error]
        /\ data' = [data EXCEPT ![p] = NoView]
    BY <1>2 DEF Fail, Places, Outcomes, Errors
  <2>2. NoView \in [segment : 0 .. Len(segment'), size : Nat]
    BY TypeParts, LenProperties DEF NoView, View, None
  <2> QED BY <1>1, <2>1, <2>2, MoveType
<1>3. ASSUME NEW place \in Places, pc' = [pc EXCEPT ![p] = place],
             NEW v \in [segment : 0 .. Len(segment'), size : Nat],
             data' = [data EXCEPT ![p] = v], UNCHANGED outcome
      PROVE  TypeOK'
  <2>1. /\ outcome[p] \in Outcomes
        /\ outcome' = [outcome EXCEPT ![p] = outcome[p]]
    BY <1>3, Typed
  <2> QED BY <1>1, <1>3, <2>1, MoveType
<1> QED BY <1>2, <1>3

LEMMA OpenShmType ==
  ASSUME TypeOK, NEW p \in Processes, OpenShm(p)
  PROVE  TypeOK'
<1>1. UNCHANGED <<shm_name, mutex_name, segment, holder, call, mutex, stream,
                  outcome, removed, removes>>
  BY DEF OpenShm
<1>2. /\ segment' \in Seq(Headers) /\ Len(segment) <= Len(segment')
      /\ shm_name' \in 0 .. Len(segment')
      /\ removed' \subseteq 1 .. Len(segment')
  BY <1>1, TypeParts, Typed
<1>3. \E place \in Places : pc' = [pc EXCEPT ![p] = place]
  BY DEF OpenShm, Places
<1>4. \E v \in [segment : 0 .. Len(segment'), size : Nat] :
        data' = [data EXCEPT ![p] = v]
  <2>1. View(shm_name, 0) \in [segment : 0 .. Len(segment'), size : Nat]
    BY <1>1, <1>2 DEF View
  <2>2. data[p] \in [segment : 0 .. Len(segment'), size : Nat]
    BY <1>1, Typed DEF Views
  <2> QED BY <2>1, <2>2, Typed DEF OpenShm
<1> QED BY <1>1, <1>2, <1>3, <1>4, StageType

LEMMA ExtractType ==
  ASSUME TypeOK, NEW p \in Processes, Extract(p),
         data[p].segment \in DOMAIN segment
  PROVE  TypeOK'
<1>1. UNCHANGED <<shm_name, mutex_name, segment, holder, call, mutex, stream,
                  removed, removes>>
  BY DEF Extract
<1>2. /\ segment' \in Seq(Headers) /\ Len(segment) <= Len(segment')
      /\ shm_name' \in 0 .. Len(segment')
      /\ removed' \subseteq 1 .. Len(segment')
  BY <1>1, TypeParts, Typed
<1>3. CASE Fail(p, "internal_error")
  BY <1>1, <1>2, <1>3, StageType
<1>4. CASE ~ Fail(p, "internal_error")
  <2> DEFINE n == segment[data[p].segment].buffer_size
  <2>1. segment[data[p].segment] \in Headers
    BY TypeParts, Typed, ElementOfSeq
  <2>2. /\ pc' = [pc EXCEPT ![p] = "unlock"] /\ UNCHANGED outcome
        /\ data' = [data EXCEPT ![p].size = n] /\ "unlock" \in Places
    BY <1>4 DEF Extract, Places
  <2>3. /\ data' = [data EXCEPT ![p] = View(data[p].segment, n)]
        /\ View(data[p].segment, n) \in
             [segment : 0 .. Len(segment'), size : Nat]
    BY <1>1, <2>1, <2>2, Typed, DataSet, HeaderSet DEF View
  <2> QED BY <1>1, <1>2, <2>2, <2>3, StageType
<1> QED BY <1>3, <1>4

LEMMA CreateShmType ==
  ASSUME TypeOK, NEW p \in Processes, CreateShm(p)
  PROVE  TypeOK'
<1>1. UNCHANGED <<mutex_name, holder, call, mutex, stream, removed, removes>>
  BY DEF CreateShm
<1>2. CASE shm_name # None
  <2>1. Fail(p, "failed_to_open") /\ UNCHANGED <<shm_name, segment>>
    BY <1>2 DEF CreateShm
  <2>2. /\ segment' \in Seq(Headers) /\ Len(segment) <= Len(segment')
        /\ shm_name' \in 0 .. Len(segment')
        /\ removed' \subseteq 1 .. Len(segment')
    BY <1>1, <2>1, TypeParts, Typed
  <2> QED BY <1>1, <2>1, <2>2, StageType
<1>3. CASE shm_name = None
  <2>1. /\ segment' = Append(segment, NoBytes) /\ shm_name' = Len(segment')
        /\ data' = [data EXCEPT ![p] = View(shm_name', 0)]
        /\ pc' = [pc EXCEPT ![p] = "truncate"] /\ "truncate" \in Places
        /\ UNCHANGED outcome
    BY <1>3 DEF CreateShm, Places
  <2>2. NoBytes \in Headers /\ segment \in Seq(Headers) /\ Len(segment) \in Nat
    BY TypeParts, Typed DEF NoBytes, Headers
  <2>3. segment' \in Seq(Headers) /\ Len(segment') = Len(segment) + 1
    BY <2>1, <2>2, AppendProperties
  <2>4. removed' \subseteq 1 .. Len(segment') /\ shm_name' \in 0 .. Len(segment')
    BY <1>1, <2>1, <2>2, <2>3, TypeParts
  <2>5. View(shm_name', 0) \in [segment : 0 .. Len(segment'), size : Nat]
    BY <2>4 DEF View
  <2>6. Len(segment) <= Len(segment')
    BY <2>2, <2>3
  <2> QED BY <1>1, <2>1, <2>3, <2>4, <2>5, <2>6, StageType
<1> QED BY <1>2, <1>3

LEMMA TruncateType ==
  ASSUME TypeOK, NEW p \in Processes, Truncate(p),
         NEW i \in DOMAIN segment, data[p].segment = i
  PROVE  /\ TypeOK'
         /\ \/ segment' = [segment EXCEPT ![i] =
                             [room |-> call[p].asked + 1,
                              buffer_size |-> segment[i].buffer_size]]
            \/ segment' = segment /\ Fail(p, "internal_error")
<1>1. UNCHANGED <<shm_name, mutex_name, holder, call, mutex, stream, removed,
                  removes>>
  BY DEF Truncate
<1> DEFINE h == [room |-> call[p].asked + 1,
                 buffer_size |-> segment[i].buffer_size]
           s == [segment EXCEPT ![i] = h]
<1>2. segment[i] \in Headers /\ call[p].asked + 1 \in Nat
  BY TypeParts, Typed, ElementOfSeq
<1>3. h \in Headers /\ [segment[i] EXCEPT !.room = call[p].asked + 1] = h
  BY <1>2, HeaderSet DEF Headers
<1>4. s = [segment EXCEPT ![i].room = call[p].asked + 1]
  BY <1>3
<1> HIDE DEF h
<1>5. s \in Seq(Headers) /\ Len(s) = Len(segment)
  BY <1>3, HeaderType
<1> HIDE DEF s
<1>6. CASE /\ segment' = s
           /\ pc' = [pc EXCEPT ![p] = "initialize"]
           /\ UNCHANGED <<data, outcome>>
  <2>1. /\ data' = [data EXCEPT ![p] = data[p]] /\ "initialize" \in Places
        /\ data[p] \in [segment : 0 .. Len(segment'), size : Nat]
    BY <1>5, <1>6, Typed DEF Views, Places
  <2>2. /\ shm_name' \in 0 .. Len(segment') /\ Len(segment) <= Len(segment')
        /\ removed' \subseteq 1 .. Len(segment') /\ segment' \in Seq(Headers)
    BY <1>1, <1>5, <1>6, TypeParts, Typed
  <2> QED BY <1>1, <1>6, <2>1, <2>2, StageType DEF s, h
<1>7. CASE segment' = segment /\ Fail(p, "internal_error")
  <2>1. /\ shm_name' \in 0 .. Len(segment') /\ Len(segment) <= Len(segment')
        /\ removed' \subseteq 1 .. Len(segment') /\ segment' \in Seq(Headers)
    BY <1>1, <1>7, TypeParts, Typed
  <2> QED BY <1>1, <1>7, <2>1, StageType
<1> QED BY <1>4, <1>6, <1>7 DEF Truncate

LEMMA InitializeType ==
  ASSUME TypeOK, NEW p \in Processes, Initialize(p),
         NEW i \in DOMAIN segment, data[p].segment = i
  PROVE  /\ TypeOK'
         /\ segment' = [segment EXCEPT ![i] =
                          [room |-> segment[i].room,
                           buffer_size |-> call[p].asked]]
<1>1. UNCHANGED <<shm_name, mutex_name, holder, call, mutex, stream, outcome,
                  removed, removes>>
  BY DEF Initialize
<1> DEFINE h == [room |-> segment[i].room, buffer_size |-> call[p].asked]
           s == [segment EXCEPT ![i] = h]
<1>2. segment[i] \in Headers /\ call[p].asked \in Nat
  BY TypeParts, Typed, ElementOfSeq
<1>3. h \in Headers /\ [segment[i] EXCEPT !.buffer_size = call[p].asked] = h
  BY <1>2, HeaderSet DEF Headers
<1>4. segment' = s
  BY <1>3 DEF Initialize
<1> HIDE DEF h
<1>5. s \in Seq(Headers) /\ Len(s) = Len(segment)
  BY <1>3, HeaderType
<1> HIDE DEF s
<1>6. /\ segment' \in Seq(Headers)
      /\ shm_name' \in 0 .. Len(segment') /\ Len(segment) <= Len(segment')
      /\ removed' \subseteq 1 .. Len(segment')
  BY <1>1, <1>4, <1>5, TypeParts, Typed
<1>7. /\ data' = [data EXCEPT ![p] = View(i, call[p].asked)]
      /\ View(i, call[p].asked) \in
           [segment : 0 .. Len(segment'), size : Nat]
  <2>1. i \in 0 .. Len(segment')
    BY <1>4, <1>5, Typed
  <2> QED BY <1>2, <2>1, DataSet DEF Initialize, View
<1>8. pc' = [pc EXCEPT ![p] = "unlock"] /\ "unlock" \in Places
  BY DEF Initialize, Places
<1>9. TypeOK'
  BY <1>1, <1>6, <1>7, <1>8, StageType
<1> QED BY <1>4, <1>9 DEF s, h

LEMMA RemoveShmType ==
  ASSUME TypeOK, NEW p \in Processes, RemoveShm(p)
  PROVE  TypeOK'
<1>1. UNCHANGED <<mutex_name, segment, holder, call, mutex, data, stream,
                  outcome, removes>>
  BY DEF RemoveShm
<1>2. /\ segment' \in Seq(Headers) /\ Len(segment) <= Len(segment')
      /\ shm_name' \in 0 .. Len(segment')
      /\ removed' \subseteq 1 .. Len(segment')
  BY <1>1, TypeParts, Typed DEF RemoveShm, None
<1>3. pc' = [pc EXCEPT ![p] = "unlock"] /\ "unlock" \in Places
  BY DEF RemoveShm, Places
<1>4. /\ data' = [data EXCEPT ![p] = data[p]]
      /\ data[p] \in [segment : 0 .. Len(segment'), size : Nat]
  BY <1>1, Typed DEF Views
<1> QED BY <1>1, <1>2, <1>3, <1>4, StageType

LEMMA ConstructType ==
  ASSUME TypeOK, NEW p \in Processes, Construct(p)
  PROVE  TypeOK'
<1>1. stream' \in [Processes -> Views]
  BY TypeParts, Typed DEF Construct
<1>2. /\ holder' \in Seq(Holders) /\ Len(holder') = Len(holder)
      /\ mutex' \in [Processes -> 0 .. Len(holder)]
      /\ UNCHANGED <<segment, shm_name, mutex_name, removed, removes>>
  BY TypeParts DEF Construct
<1>3. \E o \in Outcomes : EndCall(p, o)
  BY DEF Construct, Outcomes, Errors
<1> QED BY <1>1, <1>2, <1>3, EndType

LEMMA RemoveMutexType ==
  ASSUME TypeOK, NEW p \in Processes, RemoveMutex(p)
  PROVE  TypeOK'
<1>1. /\ holder' \in Seq(Holders) /\ Len(holder') = Len(holder)
      /\ mutex' \in [Processes -> 0 .. Len(holder)]
      /\ stream' \in [Processes -> Views]
      /\ UNCHANGED <<segment, shm_name, removed, removes>>
      /\ mutex_name' \in {mutex_name, None}
  BY TypeParts DEF RemoveMutex
<1>2. "success" \in Outcomes /\ EndCall(p, "success")
  BY DEF RemoveMutex, Outcomes
<1> QED BY <1>1, <1>2, EndType

LEMMA CloseType ==
  ASSUME TypeOK, NEW p \in Processes, Close(p)
  PROVE  TypeOK'
<1>1. stream' \in [Processes -> Views]
  BY TypeParts, Typed DEF Close
<1> QED
  BY <1>1, TypeParts
  DEF Close, TypeOK, Headers, Holders, Places, ThingsCalled, Outcomes, Views

LEMMA CrashType ==
  ASSUME TypeOK, NEW p \in Processes, Crash(p)
  PROVE  TypeOK'
<1>1. holder' \in Seq(Holders) /\ Len(holder') = Len(holder)
  <2>1. /\ holder \in [1 .. Len(holder) -> Holders]
        /\ DOMAIN holder = 1 .. Len(holder) /\ Len(holder) \in Nat
    BY TypeParts, LenProperties
  <2>2. holder' \in [1 .. Len(holder) -> Holders]
    BY <2>1 DEF Crash, Holders
  <2> QED BY <2>1, <2>2, SeqDef
<1>2. /\ mutex' \in [Processes -> 0 .. Len(holder)]
      /\ stream' \in [Processes -> Views]
      /\ UNCHANGED <<segment, shm_name, mutex_name, removed, removes>>
  BY TypeParts, Typed DEF Crash, None
<1>3. "crashed" \in Outcomes /\ EndCall(p, "crashed")
  BY DEF Crash, Outcomes
<1> QED BY <1>1, <1>2, <1>3, EndType
-----------------------------------------------------------------------------
(* The segments.                                                           *)

LEMMA InitRegistryInv == Init => RegistryInv
<1> SUFFICES ASSUME Init PROVE RegistryInv
  OBVIOUS
<1>1. /\ DOMAIN segment = {}
      /\ \A p \in Processes : /\ pc[p] = "idle" /\ data[p] = NoView
                              /\ stream[p] = NoView
  BY DEF Init
<1>2. MakersAreAlone /\ HeadersAreTrue /\ EverySegment /\ StreamsAreUsable
  BY <1>1 DEF MakersAreAlone, Making, HeadersAreTrue, EverySegment,
              StreamsAreUsable
<1>3. ViewsAreTrue
  <2>1. NoView.size = 0
    BY DEF NoView, View
  <2> QED BY <1>1, <2>1 DEF ViewsAreTrue
<1> QED BY <1>2, <1>3, InitTypeOK DEF RegistryInv

(* A step of process p that leaves the segments alone, and after which p   *)
(* is not about to write to one.                                           *)
LEMMA SegmentsStay ==
  ASSUME RegistryInv, TypeOK', NEW p \in Processes,
         segment' = segment,
         {shm_name} \cup removed \subseteq {shm_name'} \cup removed' \cup {None},
         \A q \in Processes \ {p} :
           /\ pc'[q] = pc[q] /\ call'[q] = call[q] /\ data'[q] = data[q]
           /\ stream'[q] = stream[q],
         pc'[p] \notin {"truncate", "initialize"},
         pc'[p] = "extract" => data'[p].segment \in DOMAIN segment,
         data'[p].size # 0 =>
           /\ data'[p].segment \in DOMAIN segment
           /\ data'[p].size = segment[data'[p].segment].buffer_size,
         \/ stream'[p] = stream[p]
         \/ stream'[p] = NoView
         \/ stream'[p] = data[p] /\ data[p].size \in MinSize .. MaxSize
  PROVE  RegistryInv'
<1> USE DEF RegistryInv
<1>1. MakersAreAlone'
  <2>1. \A q \in Processes : Making(q)' => q # p /\ Making(q)
    BY DEF Making
  <2>2. SUFFICES ASSUME NEW q \in Processes \ {p}, Making(q)
        PROVE  /\ data'[q].segment \in DOMAIN segment'
               /\ segment'[data'[q].segment] =
                    [room |-> IF pc'[q] = "truncate" THEN 0
                              ELSE call'[q].asked + 1,
                     buffer_size |-> 0]
               /\ \A r \in Processes \ {q} :
                    Making(r)' => data'[r].segment # data'[q].segment
    BY <2>1 DEF MakersAreAlone, Making
  <2>3. /\ data[q].segment \in DOMAIN segment
        /\ segment[data[q].segment] =
             [room |-> IF pc[q] = "truncate" THEN 0 ELSE call[q].asked + 1,
              buffer_size |-> 0]
        /\ \A r \in Processes \ {q} :
             Making(r) => data[r].segment # data[q].segment
    BY <2>2 DEF MakersAreAlone
  <2> QED BY <2>1, <2>3
<1>2. HeadersAreTrue'
  BY DEF HeadersAreTrue
<1>3. ViewsAreTrue'
  <2> SUFFICES ASSUME NEW q \in Processes, stream'[q] # NoView
               PROVE  stream'[q].segment \in DOMAIN segment
    BY DEF ViewsAreTrue
  <2>1. CASE q # p \/ stream'[p] = stream[p]
    BY <2>1 DEF ViewsAreTrue
  <2>2. CASE q = p /\ stream'[p] = data[p] /\ data[p].size \in MinSize .. MaxSize
    BY <2>2, SizesAssumption DEF ViewsAreTrue
  <2> QED BY <2>1, <2>2
<1>4. EverySegment'
  <2>1. None \notin DOMAIN segment
    BY Typed DEF None
  <2> QED BY <2>1 DEF EverySegment
<1>5. StreamsAreUsable'
  <2> SUFFICES ASSUME NEW q \in Processes, stream'[q] # NoView
               PROVE  LET s == segment[stream'[q].segment]
                      IN  /\ stream'[q].size = s.buffer_size
                          /\ s.buffer_size \in MinSize .. MaxSize
                          /\ s.buffer_size < s.room
    BY DEF StreamsAreUsable
  <2>1. CASE q # p \/ stream'[p] = stream[p]
    BY <2>1 DEF StreamsAreUsable
  <2>2. CASE q = p /\ stream'[p] = data[p] /\ data[p].size \in MinSize .. MaxSize
    <3> DEFINE s == segment[data[p].segment]
    <3>1. data[p].size # 0
      BY <2>2, SizesAssumption
    <3>2. data[p].segment \in DOMAIN segment /\ data[p].size = s.buffer_size
      BY <3>1 DEF ViewsAreTrue
    <3>3. s \in Headers
      BY <3>2, TypeParts, Typed, ElementOfSeq
    <3>4. s.buffer_size = s.room - 1 /\ s.room \in Nat
      BY <3>1, <3>2, <3>3 DEF HeadersAreTrue, Headers
    <3> QED BY <2>2, <3>2, <3>4
  <2> QED BY <2>1, <2>2
<1> QED BY <1>1, <1>2, <1>3, <1>4, <1>5

(* The functions of the state, set at one process.                         *)
LEMMA SetAt ==
  ASSUME TypeOK, NEW p \in Processes, NEW x
  PROVE  \A f \in {pc, call, data, stream, outcome, mutex} :
           /\ [f EXCEPT ![p] = x][p] = x
           /\ \A q \in Processes \ {p} : [f EXCEPT ![p] = x][q] = f[q]
BY TypeParts

LEMMA OpenMutexInv ==
  ASSUME RegistryInv, NEW p \in Processes, NEW c \in Calls(p), OpenMutex(p, c)
  PROVE  RegistryInv'
<1>1. TypeOK /\ TypeOK'
  BY OpenMutexType DEF RegistryInv
<1>2. /\ UNCHANGED <<shm_name, segment, data, stream, removed>>
      /\ pc'[p] = "lock"
      /\ \A q \in Processes \ {p} : pc'[q] = pc[q] /\ call'[q] = call[q]
  <2>1. /\ pc' = [pc EXCEPT ![p] = "lock"] /\ call' = [call EXCEPT ![p] = c]
        /\ UNCHANGED <<shm_name, segment, data, stream, removed>>
    BY DEF OpenMutex
  <2> QED BY <1>1, <2>1, SetAt
<1>3. data[p].size # 0 => /\ data[p].segment \in DOMAIN segment
                          /\ data[p].size = segment[data[p].segment].buffer_size
  BY DEF RegistryInv, ViewsAreTrue
<1> QED BY <1>1, <1>2, <1>3, SegmentsStay

LEMMA LockInv ==
  ASSUME RegistryInv, NEW p \in Processes, Lock(p)
  PROVE  RegistryInv'
<1>1. TypeOK /\ TypeOK'
  BY LockType DEF RegistryInv
<1>2. /\ UNCHANGED <<shm_name, segment, data, stream, call, removed>>
      /\ pc'[p] \in {"remove_shm", "open_shm"}
      /\ \A q \in Processes \ {p} : pc'[q] = pc[q]
  BY <1>1, SetAt DEF Lock
<1>3. data[p].size # 0 => /\ data[p].segment \in DOMAIN segment
                          /\ data[p].size = segment[data[p].segment].buffer_size
  BY DEF RegistryInv, ViewsAreTrue
<1> QED BY <1>1, <1>2, <1>3, SegmentsStay

(* Steps after which p has no view, those of Fail and EndCall.             *)
LEMMA ViewGone ==
  ASSUME RegistryInv, TypeOK', NEW p \in Processes,
         UNCHANGED <<shm_name, segment, removed>>,
         NEW place \in {"idle", "unlock"}, pc' = [pc EXCEPT ![p] = place],
         data' = [data EXCEPT ![p] = NoView],
         \/ UNCHANGED call
         \/ call' = [call EXCEPT ![p] = NoCall],
         \/ UNCHANGED stream
         \/ stream' = [stream EXCEPT ![p] = NoView]
         \/ /\ stream' = [stream EXCEPT ![p] = data[p]]
            /\ data[p].size \in MinSize .. MaxSize
  PROVE  RegistryInv'
<1>1. TypeOK
  BY DEF RegistryInv
<1>2. /\ pc'[p] \in {"idle", "unlock"} /\ data'[p].size = 0
      /\ \/ stream'[p] = stream[p]
         \/ stream'[p] = NoView
         \/ stream'[p] = data[p] /\ data[p].size \in MinSize .. MaxSize
  <2>1. NoView.size = 0
    BY DEF NoView, View
  <2> QED BY <1>1, <2>1, SetAt
<1>3. \A q \in Processes \ {p} :
        /\ pc'[q] = pc[q] /\ call'[q] = call[q] /\ data'[q] = data[q]
        /\ stream'[q] = stream[q]
  BY <1>1, SetAt
<1> QED BY <1>2, <1>3, SegmentsStay

LEMMA UnlockInv ==
  ASSUME RegistryInv, NEW p \in Processes, Unlock(p)
  PROVE  RegistryInv'
<1>1. TypeOK /\ TypeOK'
  BY UnlockType DEF RegistryInv
<1>2. UNCHANGED <<shm_name, segment, stream, removed>>
  BY DEF Unlock
<1>3. CASE \E o \in Outcomes : EndCall(p, o)
  BY <1>1, <1>2, <1>3, ViewGone DEF EndCall
<1>4. CASE /\ \/ pc' = [pc EXCEPT ![p] = "construct"]
              \/ pc' = [pc EXCEPT ![p] = "remove_mutex"]
           /\ UNCHANGED <<call, data>>
  <2>1. /\ pc'[p] \in {"construct", "remove_mutex"}
        /\ \A q \in Processes \ {p} : pc'[q] = pc[q]
    BY <1>1, <1>4, SetAt
  <2>2. data[p].size # 0 =>
          /\ data[p].segment \in DOMAIN segment
          /\ data[p].size = segment[data[p].segment].buffer_size
    BY DEF RegistryInv, ViewsAreTrue
  <2> QED BY <1>1, <1>2, <1>4, <2>1, <2>2, SegmentsStay
<1>5. outcome[p] \in Outcomes /\ "success" \in Outcomes
  BY <1>1, Typed DEF Outcomes
<1> QED BY <1>3, <1>4, <1>5 DEF Unlock, AfterUnlock

LEMMA OpenShmInv ==
  ASSUME RegistryInv, NEW p \in Processes, OpenShm(p)
  PROVE  RegistryInv'
<1>1. TypeOK /\ TypeOK'
  BY OpenShmType DEF RegistryInv
<1>2. /\ UNCHANGED <<shm_name, segment, stream, call, removed>>
      /\ \A q \in Processes \ {p} : pc'[q] = pc[q] /\ data'[q] = data[q]
  BY <1>1, SetAt DEF OpenShm
<1>3. CASE shm_name # None
  <2>1. pc'[p] = "extract" /\ data'[p] = View(shm_name, 0)
    BY <1>1, <1>3, SetAt DEF OpenShm
  <2>2. data'[p].segment = shm_name /\ data'[p].size = 0
    BY <2>1 DEF View
  <2>3. shm_name \in DOMAIN segment
    BY <1>1, <1>3, TypeParts, Typed DEF None
  <2> QED BY <1>1, <1>2, <2>1, <2>2, <2>3, SegmentsStay
<1>4. CASE shm_name = None
  <2>1. pc'[p] = "create_shm" /\ data'[p] = data[p]
    BY <1>1, <1>4, SetAt DEF OpenShm
  <2>2. data[p].size # 0 =>
          /\ data[p].segment \in DOMAIN segment
          /\ data[p].size = segment[data[p].segment].buffer_size
    BY DEF RegistryInv, ViewsAreTrue
  <2> QED BY <1>1, <1>2, <2>1, <2>2, SegmentsStay
<1> QED BY <1>3, <1>4

LEMMA ExtractInv ==
  ASSUME RegistryInv, NEW p \in Processes, Extract(p)
  PROVE  RegistryInv'
<1>1. data[p].segment \in DOMAIN segment
  BY DEF RegistryInv, ViewsAreTrue, Extract
<1>2. TypeOK /\ TypeOK'
  BY <1>1, ExtractType DEF RegistryInv
<1>3. UNCHANGED <<shm_name, segment, stream, call, removed>>
  BY DEF Extract
<1>4. CASE Fail(p, "internal_error")
  BY <1>2, <1>3, <1>4, ViewGone DEF Fail
<1>5. CASE ~ Fail(p, "internal_error")
  <2> DEFINE n == segment[data[p].segment].buffer_size
  <2>1. /\ pc' = [pc EXCEPT ![p] = "unlock"]
        /\ data' = [data EXCEPT ![p].size = n]
    BY <1>5 DEF Extract
  <2> HIDE DEF n
  <2>2. data' = [data EXCEPT ![p] = View(data[p].segment, n)]
    BY <1>2, <2>1, DataSet
  <2>3. /\ pc'[p] = "unlock" /\ data'[p] = View(data[p].segment, n)
        /\ \A q \in Processes \ {p} : pc'[q] = pc[q] /\ data'[q] = data[q]
    BY <1>2, <2>1, <2>2, SetAt
  <2>4. data'[p].segment = data[p].segment /\ data'[p].size = n
    BY <2>3 DEF View
  <2> QED BY <1>1, <1>2, <1>3, <2>3, <2>4, SegmentsStay DEF n
<1> QED BY <1>4, <1>5

LEMMA ConstructInv ==
  ASSUME RegistryInv, NEW p \in Processes, Construct(p)
  PROVE  RegistryInv'
<1>1. TypeOK'
  BY ConstructType DEF RegistryInv
<1>2. UNCHANGED <<shm_name, segment, removed>>
  BY DEF Construct
<1>3. /\ pc' = [pc EXCEPT ![p] = "idle"] /\ data' = [data EXCEPT ![p] = NoView]
      /\ call' = [call EXCEPT ![p] = NoCall]
      /\ \/ UNCHANGED stream
         \/ /\ stream' = [stream EXCEPT ![p] = data[p]]
            /\ data[p].size \in MinSize .. MaxSize
  BY DEF Construct, EndCall
<1> QED BY <1>1, <1>2, <1>3, ViewGone

LEMMA RemoveMutexInv ==
  ASSUME RegistryInv, NEW p \in Processes, RemoveMutex(p)
  PROVE  RegistryInv'
<1>1. TypeOK'
  BY RemoveMutexType DEF RegistryInv
<1> QED BY <1>1, ViewGone DEF RemoveMutex, EndCall

LEMMA CrashInv ==
  ASSUME RegistryInv, NEW p \in Processes, Crash(p)
  PROVE  RegistryInv'
<1>1. TypeOK'
  BY CrashType DEF RegistryInv
<1> QED BY <1>1, ViewGone DEF Crash, EndCall

LEMMA RemoveShmInv ==
  ASSUME RegistryInv, NEW p \in Processes, RemoveShm(p)
  PROVE  RegistryInv'
<1>1. TypeOK /\ TypeOK'
  BY RemoveShmType DEF RegistryInv
<1>2. /\ UNCHANGED <<segment, data, stream, call>>
      /\ {shm_name} \cup removed \subseteq {shm_name'} \cup removed' \cup {None}
      /\ pc'[p] = "unlock"
      /\ \A q \in Processes \ {p} : pc'[q] = pc[q]
  BY <1>1, SetAt DEF RemoveShm
<1>3. data[p].size # 0 => /\ data[p].segment \in DOMAIN segment
                          /\ data[p].size = segment[data[p].segment].buffer_size
  BY DEF RegistryInv, ViewsAreTrue
<1> QED BY <1>1, <1>2, <1>3, SegmentsStay

(* Close may come only between two calls.                                  *)
LEMMA CloseInv ==
  ASSUME RegistryInv, NEW p \in Processes, Close(p)
  PROVE  RegistryInv'
<1>1. TypeOK /\ TypeOK'
  BY CloseType DEF RegistryInv
<1>2. /\ UNCHANGED <<shm_name, segment, pc, data, call, removed>>
      /\ stream'[p] = NoView /\ pc[p] = "idle"
      /\ \A q \in Processes \ {p} : stream'[q] = stream[q]
  BY <1>1, SetAt DEF Close
<1>3. data[p].size # 0 => /\ data[p].segment \in DOMAIN segment
                          /\ data[p].size = segment[data[p].segment].buffer_size
  BY DEF RegistryInv, ViewsAreTrue
<1> QED BY <1>1, <1>2, <1>3, SegmentsStay

(* The segment of a maker.                                                 *)
LEMMA MakersSegment ==
  ASSUME RegistryInv, NEW p \in Processes, Making(p),
         NEW i \in DOMAIN segment, data[p].segment = i
  PROVE  /\ segment[i].buffer_size = 0
         /\ segment[i].room =
              IF pc[p] = "truncate" THEN 0 ELSE call[p].asked + 1
         /\ call[p].asked \in Nat
         /\ \A q \in Processes \ {p} : Making(q) => data[q].segment # i
<1> DEFINE n == IF pc[p] = "truncate" THEN 0 ELSE call[p].asked + 1
<1>1. segment[i] = [room |-> n, buffer_size |-> 0]
  BY DEF RegistryInv, MakersAreAlone
<1> HIDE DEF n
<1>2. segment[i].buffer_size = 0 /\ segment[i].room = n
  BY <1>1
<1>3. \A q \in Processes \ {p} : Making(q) => data[q].segment # i
  BY DEF RegistryInv, MakersAreAlone
<1> QED BY <1>2, <1>3, Typed DEF RegistryInv, n

(* A new segment is nobody's but its maker's.                              *)
LEMMA CreateShmInv ==
  ASSUME RegistryInv, NEW p \in Processes, CreateShm(p)
  PROVE  RegistryInv'
<1>1. TypeOK /\ TypeOK'
  BY CreateShmType DEF RegistryInv
<1>2. CASE shm_name # None
  <2>1. /\ Fail(p, "failed_to_open")
        /\ UNCHANGED <<shm_name, segment, call, stream, removed>>
    BY <1>2 DEF CreateShm
  <2> QED BY <1>1, <2>1, ViewGone DEF Fail
<1>3. CASE shm_name = None
  <2> DEFINE n == Len(segment) + 1
  <2>1. /\ segment' = Append(segment, NoBytes) /\ shm_name' = Len(segment')
        /\ UNCHANGED <<call, stream, removed>>
        /\ pc' = [pc EXCEPT ![p] = "truncate"]
        /\ data' = [data EXCEPT ![p] = View(shm_name', 0)]
    BY <1>3 DEF CreateShm
  <2>2. /\ segment \in Seq(Headers) /\ DOMAIN segment = 1 .. Len(segment)
        /\ NoBytes \in Headers /\ Len(segment) \in Nat
    BY <1>1, TypeParts, LenProperties DEF NoBytes, Headers
  <2>3. /\ Len(segment') = n /\ segment'[n] = NoBytes
        /\ \A i \in DOMAIN segment : segment'[i] = segment[i]
    BY <2>1, <2>2, AppendProperties
  <2>4. /\ DOMAIN segment' = DOMAIN segment \cup {n} /\ n \notin DOMAIN segment
        /\ None \notin DOMAIN segment
    <3>1. DOMAIN segment' = 1 .. n
      BY <1>1, <2>3, TypeParts, LenProperties
    <3> QED BY <2>2, <3>1 DEF None
  <2> HIDE DEF n
  <2>5. /\ pc'[p] = "truncate" /\ data'[p] = View(n, 0)
        /\ \A q \in Processes \ {p} : pc'[q] = pc[q] /\ data'[q] = data[q]
    <3> DEFINE v == View(n, 0)
    <3>1. data' = [data EXCEPT ![p] = v]
      BY <2>1, <2>3
    <3> HIDE DEF v
    <3>2. data'[p] = v /\ \A q \in Processes \ {p} : data'[q] = data[q]
      BY <1>1, <3>1, SetAt
    <3>3. /\ pc'[p] = "truncate"
          /\ \A q \in Processes \ {p} : pc'[q] = pc[q]
      <4>1. pc' = [pc EXCEPT ![p] = "truncate"]
        BY <2>1
      <4> QED BY <1>1, <4>1, TypeParts
    <3> QED BY <3>2, <3>3 DEF v
  <2>6. data'[p].segment = n /\ data'[p].size = 0
    BY <2>5 DEF View
  <2>7. MakersAreAlone'
    <3>1. ASSUME NEW q \in Processes \ {p}, Making(q)'
          PROVE  /\ data'[q].segment \in DOMAIN segment
                 /\ segment[data'[q].segment] =
                      [room |-> IF pc'[q] = "truncate" THEN 0
                                ELSE call'[q].asked + 1,
                       buffer_size |-> 0]
                 /\ \A r \in Processes \ {p, q} :
                      Making(r)' => data'[r].segment # data'[q].segment
      <4>1. Making(q)
        BY <2>5, <3>1 DEF Making
      <4>2. \A r \in Processes \ {p, q} : Making(r)' => Making(r)
        BY <2>5 DEF Making
      <4> QED BY <2>1, <2>5, <4>1, <4>2 DEF RegistryInv, MakersAreAlone
    <3>2. segment'[n] = [room |-> 0, buffer_size |-> 0]
      BY <2>3 DEF NoBytes
    <3>3. SUFFICES ASSUME NEW q \in Processes, Making(q)'
          PROVE  /\ data'[q].segment \in DOMAIN segment'
                 /\ segment'[data'[q].segment] =
                      [room |-> IF pc'[q] = "truncate" THEN 0
                                ELSE call'[q].asked + 1,
                       buffer_size |-> 0]
                 /\ \A r \in Processes \ {q} :
                      Making(r)' => data'[r].segment # data'[q].segment
      BY DEF MakersAreAlone
    <3>4. CASE q = p
      <4>1. \A r \in Processes \ {q} : Making(r)' => data'[r].segment # n
        BY <2>4, <3>1, <3>4
      <4> QED BY <2>4, <2>5, <2>6, <3>2, <3>4, <4>1
    <3>5. CASE q # p
      <4>1. q \in Processes \ {p} /\ n # data'[q].segment
        BY <2>4, <3>1, <3>3, <3>5
      <4> QED BY <2>3, <2>4, <2>6, <3>1, <3>3, <4>1
    <3> QED BY <3>4, <3>5
  <2>8. HeadersAreTrue'
    BY <2>3, <2>4 DEF RegistryInv, HeadersAreTrue, NoBytes
  <2>9. ViewsAreTrue'
    BY <2>1, <2>3, <2>4, <2>5, <2>6 DEF RegistryInv, ViewsAreTrue
  <2>10. EverySegment'
    BY <1>3, <2>1, <2>3, <2>4 DEF RegistryInv, EverySegment
  <2>11. StreamsAreUsable'
    BY <2>1, <2>3 DEF RegistryInv, StreamsAreUsable, ViewsAreTrue
  <2> QED BY <1>1, <2>7, <2>8, <2>9, <2>10, <2>11 DEF RegistryInv
<1> QED BY <1>2, <1>3

(* The maker of a segment writes to it, and no one has it in use.          *)
LEMMA SegmentIsWritten ==
  ASSUME RegistryInv, TypeOK', NEW p \in Processes, Making(p),
         NEW i \in DOMAIN segment, data[p].segment = i,
         NEW h \in Headers, h.buffer_size \in {0, h.room - 1},
         segment' = [segment EXCEPT ![i] = h],
         UNCHANGED <<shm_name, call, stream, removed>>,
         \A q \in Processes \ {p} : pc'[q] = pc[q] /\ data'[q] = data[q],
         data'[p].segment = i,
         data'[p].size # 0 => data'[p].size = h.buffer_size,
         \/ pc'[p] = "unlock"
         \/ /\ pc'[p] = "initialize"
            /\ h = [room |-> call[p].asked + 1, buffer_size |-> 0]
  PROVE  RegistryInv'
<1>1. /\ DOMAIN segment' = DOMAIN segment /\ segment'[i] = h
      /\ \A j \in DOMAIN segment \ {i} : segment'[j] = segment[j]
  BY HeaderType, TypeParts DEF RegistryInv
<1>2. segment[i].buffer_size = 0
  BY MakersSegment
<1>3. \A q \in Processes \ {p} : Making(q) => data[q].segment # i
  BY DEF RegistryInv, MakersAreAlone
<1>4. \A q \in Processes : stream[q] # NoView => stream[q].segment # i
  <2> SUFFICES ASSUME NEW q \in Processes, stream[q] # NoView,
                      stream[q].segment = i
               PROVE  FALSE
    OBVIOUS
  <2>1. segment[i].buffer_size \in MinSize .. MaxSize
    BY DEF RegistryInv, StreamsAreUsable
  <2> QED BY <1>2, <2>1, SizesAssumption
<1>5. MakersAreAlone'
  <2>1. ASSUME NEW q \in Processes \ {p}, Making(q)'
        PROVE  /\ data'[q].segment \in DOMAIN segment \ {i}
               /\ segment[data'[q].segment] =
                    [room |-> IF pc'[q] = "truncate" THEN 0
                              ELSE call'[q].asked + 1,
                     buffer_size |-> 0]
               /\ \A r \in Processes \ {p, q} :
                    Making(r)' => data'[r].segment # data'[q].segment
    <3>1. Making(q)
      BY <2>1 DEF Making
    <3>2. \A r \in Processes \ {p, q} : Making(r)' => Making(r)
      BY DEF Making
    <3> QED BY <1>3, <3>1, <3>2 DEF RegistryInv, MakersAreAlone
  <2>2. Making(p)' => /\ h = [room |-> call[p].asked + 1, buffer_size |-> 0]
                      /\ pc'[p] # "truncate"
    BY DEF Making
  <2>3. SUFFICES ASSUME NEW q \in Processes, Making(q)'
        PROVE  /\ data'[q].segment \in DOMAIN segment'
               /\ segment'[data'[q].segment] =
                    [room |-> IF pc'[q] = "truncate" THEN 0
                              ELSE call'[q].asked + 1,
                     buffer_size |-> 0]
               /\ \A r \in Processes \ {q} :
                    Making(r)' => data'[r].segment # data'[q].segment
    BY DEF MakersAreAlone
  <2>4. CASE q = p
    <3>1. \A r \in Processes \ {q} : Making(r)' => data'[r].segment # i
      BY <2>1, <2>4
    <3> QED BY <1>1, <2>2, <2>3, <2>4, <3>1
  <2>5. CASE q # p
    <3>1. q \in Processes \ {p} /\ i # data'[q].segment
      BY <2>1, <2>3, <2>5
    <3> QED BY <1>1, <2>1, <2>3, <3>1
  <2> QED BY <2>4, <2>5
<1>6. HeadersAreTrue'
  BY <1>1 DEF RegistryInv, HeadersAreTrue
<1>7. ViewsAreTrue'
  BY <1>1, <1>2 DEF RegistryInv, ViewsAreTrue
<1>8. EverySegment'
  BY <1>1 DEF RegistryInv, EverySegment
<1>9. StreamsAreUsable'
  BY <1>1, <1>4 DEF RegistryInv, StreamsAreUsable, ViewsAreTrue
<1> QED BY <1>5, <1>6, <1>7, <1>8, <1>9 DEF RegistryInv

LEMMA TruncateInv ==
  ASSUME RegistryInv, NEW p \in Processes, Truncate(p)
  PROVE  RegistryInv'
<1>1. TypeOK /\ Making(p) /\ pc[p] = "truncate"
  BY DEF RegistryInv, Making, Truncate
<1>2. PICK i \in DOMAIN segment : data[p].segment = i
  BY <1>1 DEF RegistryInv, MakersAreAlone
<1>3. segment[i].buffer_size = 0 /\ call[p].asked \in Nat
  BY <1>1, <1>2, MakersSegment
<1> DEFINE h == [room |-> call[p].asked + 1, buffer_size |-> 0]
<1>4. /\ TypeOK'
      /\ \/ segment' = [segment EXCEPT ![i] = h]
         \/ segment' = segment /\ Fail(p, "internal_error")
  BY <1>1, <1>2, <1>3, TruncateType
<1>5. UNCHANGED <<shm_name, call, stream, removed>>
  BY DEF Truncate
<1>6. h \in Headers /\ h.buffer_size = 0
  BY <1>3 DEF Headers
<1>7. CASE Fail(p, "internal_error") /\ segment' = segment
  BY <1>4, <1>5, <1>7, ViewGone DEF Fail
<1>8. CASE ~ (Fail(p, "internal_error") /\ segment' = segment)
  <2>1. UNCHANGED data /\ pc' = [pc EXCEPT ![p] = "initialize"]
    BY <1>8 DEF Truncate
  <2>2. /\ pc'[p] = "initialize"
        /\ \A q \in Processes \ {p} : pc'[q] = pc[q]
    BY <1>1, <2>1, SetAt
  <2>3. data[p].size = 0
    BY <1>2, <1>3 DEF RegistryInv, ViewsAreTrue
  <2>4. segment' = [segment EXCEPT ![i] = h]
    BY <1>4, <1>8
  <2> HIDE DEF h
  <2> QED BY <1>1, <1>2, <1>4, <1>5, <1>6, <2>1, <2>2, <2>3, <2>4,
             SegmentIsWritten DEF h
<1> QED BY <1>7, <1>8

LEMMA InitializeInv ==
  ASSUME RegistryInv, NEW p \in Processes, Initialize(p)
  PROVE  RegistryInv'
<1>1. TypeOK /\ Making(p) /\ pc[p] = "initialize"
  BY DEF RegistryInv, Making, Initialize
<1>2. PICK i \in DOMAIN segment : data[p].segment = i
  BY <1>1 DEF RegistryInv, MakersAreAlone
<1>3. segment[i].room = call[p].asked + 1 /\ call[p].asked \in Nat
  BY <1>1, <1>2, MakersSegment
<1> DEFINE h == [room |-> segment[i].room, buffer_size |-> call[p].asked]
<1>4. TypeOK' /\ segment' = [segment EXCEPT ![i] = h]
  BY <1>1, <1>2, InitializeType
<1>5. /\ h \in Headers /\ h.buffer_size = h.room - 1
      /\ h.buffer_size = call[p].asked
  BY <1>3 DEF Headers
<1>6. /\ UNCHANGED <<shm_name, call, stream, removed>>
      /\ pc' = [pc EXCEPT ![p] = "unlock"]
      /\ data' = [data EXCEPT ![p] = View(i, call[p].asked)]
  BY <1>1, <1>2, DataSet DEF Initialize
<1>7. /\ pc'[p] = "unlock" /\ data'[p] = View(i, call[p].asked)
      /\ \A q \in Processes \ {p} : pc'[q] = pc[q] /\ data'[q] = data[q]
  BY <1>1, <1>6, SetAt
<1>8. data'[p].segment = i /\ data'[p].size = call[p].asked
  BY <1>7 DEF View
<1> HIDE DEF h
<1> QED BY <1>1, <1>2, <1>4, <1>5, <1>6, <1>7, <1>8, SegmentIsWritten

LEMMA StutterInv == RegistryInv /\ UNCHANGED vars => RegistryInv'
<1> SUFFICES ASSUME RegistryInv, UNCHANGED vars PROVE RegistryInv'
  OBVIOUS
<1> USE DEF vars, RegistryInv
<1>1. TypeOK'
  BY DEF TypeOK
<1>2. MakersAreAlone'
  BY DEF MakersAreAlone, Making
<1>3. HeadersAreTrue' /\ ViewsAreTrue' /\ EverySegment'
  BY DEF HeadersAreTrue, ViewsAreTrue, EverySegment
<1>4. StreamsAreUsable'
  BY DEF StreamsAreUsable
<1> QED BY <1>1, <1>2, <1>3, <1>4

LEMMA NextRegistryInv == RegistryInv /\ [Next]_vars => RegistryInv'
<1> SUFFICES ASSUME RegistryInv, [Next]_vars PROVE RegistryInv'
  OBVIOUS
<1>1. ASSUME NEW p \in Processes, NEW c \in Calls(p), OpenMutex(p, c)
      PROVE  RegistryInv'
  BY <1>1, OpenMutexInv
<1>2. ASSUME NEW p \in Processes, Continue(p)
      PROVE  RegistryInv'
  BY <1>2, LockInv, OpenShmInv, ExtractInv, CreateShmInv, TruncateInv,
     InitializeInv, UnlockInv, ConstructInv, RemoveShmInv, RemoveMutexInv
     DEF Continue
<1>3. ASSUME NEW p \in Processes, Close(p) \/ Crash(p)
      PROVE  RegistryInv'
  BY <1>3, CloseInv, CrashInv
<1> QED BY <1>1, <1>2, <1>3, StutterInv DEF Next

(* The inductive invariant.                                                *)
THEOREM RegistryInvariant == Spec => []RegistryInv
BY InitRegistryInv, NextRegistryInv, PTL DEF Spec

(* The type invariant, for any processes, sizes and number of removes.     *)
THEOREM TypeCorrect == Spec => []TypeOK
<1>1. RegistryInv => TypeOK
  BY DEF RegistryInv
<1> QED BY <1>1, RegistryInvariant, PTL

(* Whatever the races of open, create and remove, and whoever dies where:  *)
(* the size an open stream works with is the one in its segment's header,  *)
(* is one the queue can work with, and the segment has room for it.        *)
THEOREM StreamsStayUsable == Spec => []StreamsAreUsable
<1>1. RegistryInv => StreamsAreUsable
  BY DEF RegistryInv
<1> QED BY <1>1, RegistryInvariant, PTL

(* Two open streams of one name are the same segment, or one of them is of *)
(* a segment whose name was removed: no race of open, create and crash     *)
(* ever splits a stream in two.                                            *)
THEOREM OnlyRemovesSplit == Spec => []OnlyRemoveSplits
<1>1. RegistryInv => OnlyRemoveSplits
  BY DEF RegistryInv, OnlyRemoveSplits, EverySegment, ViewsAreTrue
<1> QED BY <1>1, RegistryInvariant, PTL
-----------------------------------------------------------------------------
(* Calls that go well.                                                     *)

(* The places that a process reaches with its mutex locked.                *)
Critical == {"open_shm", "extract", "create_shm", "truncate", "initialize",
             "remove_shm", "unlock"}

Orderly(p) ==
  /\ pc[p] \in Critical \cup {"lock"} => mutex[p] \in DOMAIN holder
  /\ pc[p] \in Critical => holder[mutex[p]] = p
  /\ pc[p] = "idle" => outcome[p] # "pending"
  /\ pc[p] \notin {"idle", "unlock"} => outcome[p] = "pending"
  /\ pc[p] # "idle" => call[p].kind # "none"
  /\ pc[p] \in {"remove_shm", "remove_mutex"} => call[p].kind = "remove"
  /\ call[p].kind = "remove" => removes > 0

CallsAreOrderly == \A p \in Processes : Orderly(p)

(* As long as nobody removes anything there is one mutex and one segment.  *)
OneMutex ==
  removes = 0 =>
    /\ Len(holder) <= 1 /\ mutex_name = Len(holder)
    /\ Len(segment) <= 1 /\ shm_name = Len(segment)
    /\ \A p \in Processes : pc[p] = "create_shm" => shm_name = None

(* What CallsSucceed presumes.                                             *)
Calm ==
  /\ removes = 0
  /\ \A i \in DOMAIN segment :
       BeingMade(i) \/ segment[i].room - 1 \in MinSize .. MaxSize

(* A segment that is not made out is hidden behind the mutex, for good if  *)
(* its maker died.                                                         *)
SegmentsAreDone ==
  \A i \in DOMAIN segment :
    \/ segment[i].buffer_size = segment[i].room - 1
    \/ \E p \in Processes : Making(p) /\ data[p].segment = i
    \/ \E m \in DOMAIN holder : holder[m] = Dead

SizesAreRight ==
  \A p \in Processes :
    pc[p] \in {"unlock", "construct"} /\ outcome[p] = "pending" =>
      \E i \in DOMAIN segment : data[p].size = segment[i].room - 1

CallsInv ==
  /\ CallsAreOrderly
  /\ OneMutex
  /\ Calm => SegmentsAreDone /\ SizesAreRight /\ CallsSucceed

LEMMA InitCallsInv == Init => CallsInv
<1> SUFFICES ASSUME Init PROVE CallsInv
  OBVIOUS
<1>1. /\ segment = << >> /\ holder = << >> /\ shm_name = 0 /\ mutex_name = 0
      /\ removes = 0
      /\ \A p \in Processes : /\ pc[p] = "idle" /\ outcome[p] = "none"
                              /\ call[p] = NoCall
  BY DEF Init, None
<1>2. NoCall.kind = "none"
  BY DEF NoCall, Call
<1>3. CallsAreOrderly
  BY <1>1, <1>2 DEF CallsAreOrderly, Orderly, Critical
<1>4. OneMutex
  BY <1>1 DEF OneMutex
<1>5. SegmentsAreDone /\ SizesAreRight
  BY <1>1 DEF SegmentsAreDone, SizesAreRight
<1>6. CallsSucceed
  BY <1>1 DEF CallsSucceed, Errors
<1> QED BY <1>3, <1>4, <1>5, <1>6 DEF CallsInv

(* A step of p disturbs the calls of nobody else.                          *)
LEMMA OthersStay ==
  ASSUME TypeOK, NEW p \in Processes,
         \/ \E c \in Calls(p) : OpenMutex(p, c)
         \/ Continue(p) \/ Close(p) \/ Crash(p)
  PROVE  /\ removes' \in {removes, removes + 1}
         /\ \A q \in Processes \ {p} :
              /\ pc'[q] = pc[q] /\ call'[q] = call[q] /\ mutex'[q] = mutex[q]
              /\ outcome'[q] = outcome[q] /\ data'[q] = data[q]
<1> USE TypeParts
<1>1. ASSUME NEW c \in Calls(p), OpenMutex(p, c)
      PROVE  /\ removes' \in {removes, removes + 1}
             /\ \A q \in Processes \ {p} :
                  /\ pc'[q] = pc[q] /\ call'[q] = call[q]
                  /\ mutex'[q] = mutex[q] /\ outcome'[q] = outcome[q]
                  /\ data'[q] = data[q]
  BY <1>1 DEF OpenMutex
<1>2. CASE Lock(p)
  BY <1>2 DEF Lock
<1>3. CASE OpenShm(p)
  BY <1>3 DEF OpenShm
<1>4. CASE Extract(p)
  BY <1>4 DEF Extract, Fail
<1>5. CASE CreateShm(p)
  BY <1>5 DEF CreateShm, Fail
<1>6. CASE Truncate(p)
  BY <1>6 DEF Truncate, Fail
<1>7. CASE Initialize(p)
  BY <1>7 DEF Initialize
<1>8. CASE Unlock(p)
  BY <1>8 DEF Unlock, AfterUnlock, EndCall
<1>9. CASE Construct(p)
  BY <1>9 DEF Construct, EndCall
<1>10. CASE RemoveShm(p)
  BY <1>10 DEF RemoveShm
<1>11. CASE RemoveMutex(p)
  BY <1>11 DEF RemoveMutex, EndCall
<1>12. CASE Close(p)
  BY <1>12 DEF Close
<1>13. CASE Crash(p)
  BY <1>13 DEF Crash, EndCall
<1> QED
  BY <1>1, <1>2, <1>3, <1>4, <1>5, <1>6, <1>7, <1>8, <1>9, <1>10, <1>11,
     <1>12, <1>13 DEF Continue

(* A step of p takes no mutex away from anybody else.                      *)
LEMMA StaysOrderly ==
  ASSUME CallsAreOrderly, NEW p \in Processes, TypeOK,
         removes' \in {removes, removes + 1},
         \A q \in Processes \ {p} :
           /\ pc'[q] = pc[q] /\ call'[q] = call[q] /\ mutex'[q] = mutex[q]
           /\ outcome'[q] = outcome[q],
         DOMAIN holder \subseteq DOMAIN holder',
         \A m \in DOMAIN holder : holder[m] \notin {p, Nobody} =>
                                    holder'[m] = holder[m],
         Orderly(p)'
  PROVE  CallsAreOrderly'
<1> SUFFICES ASSUME NEW q \in Processes \ {p} PROVE Orderly(q)'
  BY DEF CallsAreOrderly
<1>1. Orderly(q) /\ q \notin {p, Nobody}
  BY HoldersAssumption DEF CallsAreOrderly
<1>2. removes \in Int /\ (removes > 0 => removes' > 0)
  BY TypeParts, MaxRemovesAssumption
<1> QED BY <1>1, <1>2 DEF Orderly

(* The stages of prepare and remove, which p goes through with its mutex   *)
(* locked.                                                                 *)
LEMMA StageOrderly ==
  ASSUME TypeOK, CallsAreOrderly, NEW p \in Processes,
         Continue(p) \/ Close(p) \/ Crash(p),
         UNCHANGED <<holder, call, mutex, removes>>,
         pc[p] \in Critical \ {"unlock"},
         pc'[p] \in Critical \ {"remove_shm"},
         outcome'[p] = outcome[p] \/ pc'[p] = "unlock"
  PROVE  CallsAreOrderly'
<1>1. Orderly(p)
  BY DEF CallsAreOrderly
<1>2. Orderly(p)'
  BY <1>1 DEF Orderly, Critical
<1> QED BY <1>2, OthersStay, StaysOrderly

(* The steps that end a call.                                              *)
LEMMA EndOrderly ==
  ASSUME TypeOK, CallsAreOrderly, NEW p \in Processes,
         Continue(p) \/ Close(p) \/ Crash(p),
         NEW o, o # "pending", EndCall(p, o),
         DOMAIN holder \subseteq DOMAIN holder',
         \A m \in DOMAIN holder : holder[m] \notin {p, Nobody} =>
                                    holder'[m] = holder[m]
  PROVE  CallsAreOrderly'
<1>1. pc'[p] = "idle" /\ outcome'[p] = o /\ call'[p] = NoCall
  BY SetAt DEF EndCall
<1>2. NoCall.kind = "none"
  BY DEF NoCall, Call
<1>3. Orderly(p)'
  BY <1>1, <1>2 DEF Orderly, Critical
<1> QED BY <1>3, OthersStay, StaysOrderly

LEMMA OpenMutexOrderly ==
  ASSUME TypeOK, CallsAreOrderly, OneMutex,
         NEW p \in Processes, NEW c \in Calls(p), OpenMutex(p, c)
  PROVE  CallsAreOrderly' /\ OneMutex'
<1>1. /\ pc'[p] = "lock" /\ call'[p] = c /\ outcome'[p] = "pending"
      /\ mutex'[p] = mutex_name'
  <2>1. /\ pc' = [pc EXCEPT ![p] = "lock"] /\ call' = [call EXCEPT ![p] = c]
        /\ outcome' = [outcome EXCEPT ![p] = "pending"]
        /\ mutex' = [mutex EXCEPT ![p] = mutex_name']
    BY DEF OpenMutex
  <2> QED BY <2>1, SetAt
<1>2. c.kind \in {"open", "create", "remove"}
  BY DEF Calls, Call
<1>3. removes \in Nat /\ (c.kind = "remove" <=> removes' # removes)
  BY TypeParts, MaxRemovesAssumption DEF OpenMutex
<1>4. /\ DOMAIN holder \subseteq DOMAIN holder' /\ mutex_name' \in DOMAIN holder'
      /\ \A m \in DOMAIN holder : holder'[m] = holder[m]
      /\ removes = 0 => Len(holder') <= 1 /\ mutex_name' = Len(holder')
  <2>1. CASE mutex_name = None
    <3>1. /\ holder \in Seq(Holders) /\ Len(holder) \in Nat /\ Nobody \in Holders
          /\ DOMAIN holder = 1 .. Len(holder)
      BY TypeParts, LenProperties DEF Holders
    <3>2. holder' = Append(holder, Nobody) /\ mutex_name' = Len(holder')
      BY <2>1 DEF OpenMutex
    <3>3. /\ Len(holder') = Len(holder) + 1 /\ holder' \in Seq(Holders)
          /\ \A m \in 1 .. Len(holder) : holder'[m] = holder[m]
      BY <3>1, <3>2, AppendProperties
    <3>4. DOMAIN holder' = 1 .. Len(holder) + 1
      BY <3>3, LenProperties
    <3> QED BY <2>1, <3>1, <3>2, <3>3, <3>4 DEF OneMutex, None
  <2>2. CASE mutex_name # None
    BY <2>2, TypeParts, Typed DEF OpenMutex, OneMutex, None
  <2> QED BY <2>1, <2>2
<1>5. Orderly(p)'
  <2>1. call'[p].kind = "remove" => removes' > 0
    BY <1>1, <1>3, OthersStay
  <2> QED BY <1>1, <1>2, <1>4, <2>1 DEF Orderly, Critical
<1>6. CallsAreOrderly'
  BY <1>4, <1>5, OthersStay, StaysOrderly
<1>7. OneMutex'
  <2>1. UNCHANGED <<segment, shm_name>> /\ (removes' = 0 => removes = 0)
    BY <1>3, OthersStay DEF OpenMutex
  <2>2. \A q \in Processes : pc'[q] = "create_shm" => pc[q] = "create_shm"
    BY <1>1, OthersStay
  <2> QED BY <1>4, <2>1, <2>2 DEF OneMutex
<1> QED BY <1>6, <1>7

LEMMA LockOrderly ==
  ASSUME TypeOK, CallsAreOrderly, NEW p \in Processes, Lock(p)
  PROVE  CallsAreOrderly'
<1>1. /\ pc[p] = "lock" /\ holder[mutex[p]] = Nobody
      /\ UNCHANGED <<call, mutex, outcome, removes>>
      /\ holder' = [holder EXCEPT ![mutex[p]] = p]
      /\ pc'[p] = IF call[p].kind = "remove" THEN "remove_shm" ELSE "open_shm"
  BY SetAt DEF Lock
<1>2. Orderly(p) /\ mutex[p] \in DOMAIN holder
  BY <1>1 DEF CallsAreOrderly, Orderly
<1>3. DOMAIN holder' = DOMAIN holder /\ holder'[mutex[p]] = p
  BY <1>1, <1>2, TypeParts, LenProperties
<1>4. \A m \in DOMAIN holder : holder[m] # Nobody => holder'[m] = holder[m]
  BY <1>1, TypeParts, LenProperties
<1>5. Orderly(p)'
  BY <1>1, <1>2, <1>3 DEF Orderly, Critical
<1> QED BY <1>3, <1>4, <1>5, OthersStay, StaysOrderly DEF Continue

LEMMA UnlockOrderly ==
  ASSUME TypeOK, CallsAreOrderly, NEW p \in Processes, Unlock(p)
  PROVE  CallsAreOrderly'
<1>1. pc[p] = "unlock" /\ holder' = [holder EXCEPT ![mutex[p]] = Nobody]
  BY DEF Unlock
<1>2. Orderly(p) /\ mutex[p] \in DOMAIN holder /\ holder[mutex[p]] = p
  BY <1>1 DEF CallsAreOrderly, Orderly, Critical
<1>3. DOMAIN holder' = DOMAIN holder
  BY <1>1, TypeParts, LenProperties
<1>4. \A m \in DOMAIN holder : holder[m] # p => holder'[m] = holder[m]
  BY <1>1, <1>2, TypeParts, LenProperties
<1>5. CASE \E o : o # "pending" /\ EndCall(p, o)
  BY <1>3, <1>4, <1>5, EndOrderly DEF Continue
<1>6. CASE /\ pc' = [pc EXCEPT ![p] = IF call[p].kind = "open"
                                      THEN "construct" ELSE "remove_mutex"]
           /\ UNCHANGED <<call, data, outcome>>
           /\ outcome[p] = "pending" /\ call[p].kind # "create"
  <2>1. pc'[p] = IF call[p].kind = "open" THEN "construct" ELSE "remove_mutex"
    BY <1>6, TypeParts
  <2>2. call[p].kind \in {"open", "remove"}
    BY <1>1, <1>2, <1>6, TypeParts DEF Orderly, ThingsCalled
  <2>3. removes' = removes
    BY DEF Unlock
  <2>4. Orderly(p)'
    BY <1>2, <1>6, <2>1, <2>2, <2>3 DEF Orderly, Critical
  <2> QED BY <1>3, <1>4, <2>4, OthersStay, StaysOrderly DEF Continue
<1>7. \/ \E o : o # "pending" /\ EndCall(p, o)
      \/ /\ pc' = [pc EXCEPT ![p] = IF call[p].kind = "open"
                                    THEN "construct" ELSE "remove_mutex"]
         /\ UNCHANGED <<call, data, outcome>>
         /\ outcome[p] = "pending" /\ call[p].kind # "create"
  <2>1. CASE outcome[p] # "pending"
    BY <2>1 DEF Unlock, AfterUnlock
  <2>2. CASE outcome[p] = "pending" /\ call[p].kind = "create"
    BY <2>2 DEF Unlock, AfterUnlock
  <2>3. CASE outcome[p] = "pending" /\ call[p].kind # "create"
    BY <2>3 DEF Unlock, AfterUnlock
  <2> QED BY <2>1, <2>2, <2>3
<1> QED BY <1>5, <1>6, <1>7

LEMMA ContinueOrderly ==
  ASSUME TypeOK, CallsAreOrderly, NEW p \in Processes, Continue(p)
  PROVE  CallsAreOrderly'
<1>1. CASE OpenShm(p)
  <2>1. pc'[p] \in {"extract", "create_shm"}
    BY <1>1, SetAt DEF OpenShm
  <2> QED BY <1>1, <2>1, StageOrderly DEF OpenShm, Critical
<1>2. CASE Extract(p)
  <2>1. pc'[p] = "unlock"
    BY <1>2, SetAt DEF Extract, Fail
  <2> QED BY <1>2, <2>1, StageOrderly DEF Extract, Critical
<1>3. CASE CreateShm(p)
  <2>1. /\ pc'[p] \in {"unlock", "truncate"}
        /\ outcome'[p] = outcome[p] \/ pc'[p] = "unlock"
    <3>1. \/ pc' = [pc EXCEPT ![p] = "unlock"]
          \/ pc' = [pc EXCEPT ![p] = "truncate"] /\ UNCHANGED outcome
      BY <1>3 DEF CreateShm, Fail
    <3> QED BY <3>1, SetAt
  <2> QED BY <1>3, <2>1, StageOrderly DEF CreateShm, Critical
<1>4. CASE Truncate(p)
  <2>1. /\ pc'[p] \in {"unlock", "initialize"}
        /\ outcome'[p] = outcome[p] \/ pc'[p] = "unlock"
    BY <1>4, SetAt DEF Truncate, Fail
  <2> QED BY <1>4, <2>1, StageOrderly DEF Truncate, Critical
<1>5. CASE Initialize(p)
  <2>1. pc'[p] = "unlock"
    BY <1>5, SetAt DEF Initialize
  <2> QED BY <1>5, <2>1, StageOrderly DEF Initialize, Critical
<1>6. CASE RemoveShm(p)
  <2>1. pc'[p] = "unlock"
    BY <1>6, SetAt DEF RemoveShm
  <2> QED BY <1>6, <2>1, StageOrderly DEF RemoveShm, Critical
<1>7. CASE Construct(p)
  BY <1>7, EndOrderly DEF Construct
<1>8. CASE RemoveMutex(p)
  BY <1>8, EndOrderly DEF RemoveMutex
<1> QED
  BY <1>1, <1>2, <1>3, <1>4, <1>5, <1>6, <1>7, <1>8, LockOrderly,
     UnlockOrderly DEF Continue

LEMMA LeaveOrderly ==
  ASSUME TypeOK, CallsAreOrderly, NEW p \in Processes, Close(p) \/ Crash(p)
  PROVE  CallsAreOrderly'
<1>1. CASE Close(p)
  BY <1>1 DEF Close, CallsAreOrderly, Orderly
<1>2. CASE Crash(p)
  BY <1>2, EndOrderly DEF Crash
<1> QED BY <1>1, <1>2

(* Only one process at a time is between Lock and Unlock.                  *)
LEMMA OneIsCritical ==
  ASSUME TypeOK, CallsAreOrderly, OneMutex, removes = 0,
         NEW p \in Processes, NEW q \in Processes,
         pc[p] \in Critical, pc[q] \in Critical
  PROVE  /\ p = q /\ call[p].kind # "remove"
         /\ pc[p] # "remove_shm"
         /\ \A m \in DOMAIN holder : holder[m] = p
<1>1. /\ Orderly(p) /\ Orderly(q)
      /\ mutex[p] \in DOMAIN holder /\ mutex[q] \in DOMAIN holder
  BY DEF CallsAreOrderly, Orderly
<1>2. \A m, n \in DOMAIN holder : m = n
  BY Typed DEF OneMutex
<1> QED BY <1>1, <1>2 DEF Orderly

LEMMA SameLength ==
  ASSUME NEW S, NEW s \in Seq(S), NEW T, NEW t \in Seq(T),
         DOMAIN s = DOMAIN t
  PROVE  Len(s) = Len(t)
<1>1. /\ DOMAIN s = 1 .. Len(s) /\ Len(s) \in Nat
      /\ DOMAIN t = 1 .. Len(t) /\ Len(t) \in Nat
  BY LenProperties
<1>2. \A m, n \in Nat : 1 .. m = 1 .. n => m = n
  <2> SUFFICES ASSUME NEW m \in Nat, NEW n \in Nat, 1 .. m = 1 .. n
               PROVE  m = n
    OBVIOUS
  <2>1. n > 0 => n \in 1 .. m
    <3>1. n > 0 => n \in 1 .. n
      OBVIOUS
    <3> QED BY <3>1
  <2>2. m > 0 => m \in 1 .. n
    <3>1. m > 0 => m \in 1 .. m
      OBVIOUS
    <3> QED BY <3>1
  <2> QED BY <2>1, <2>2
<1> QED BY <1>1, <1>2

LEMMA ContinueOneMutex ==
  ASSUME TypeOK, TypeOK', CallsAreOrderly, OneMutex, NEW p \in Processes,
         Continue(p) \/ Close(p) \/ Crash(p)
  PROVE  OneMutex'
<1> SUFFICES ASSUME removes' = 0 PROVE OneMutex'
  BY DEF OneMutex
<1>1. removes = 0
  BY OthersStay, TypeParts, MaxRemovesAssumption
<1>2. Orderly(p) /\ call[p].kind # "remove"
  BY <1>1 DEF CallsAreOrderly, Orderly
<1>3. ASSUME UNCHANGED <<segment, shm_name, mutex_name>>,
             Len(holder') = Len(holder),
             pc'[p] = "create_shm" => pc[p] = "create_shm" \/ shm_name = None
      PROVE  OneMutex'
  BY <1>1, <1>3, OthersStay DEF OneMutex
<1>4. CASE Lock(p)
  <2>1. Len(holder') = Len(holder)
    BY <1>4, HolderType DEF Lock, Holders
  <2>2. pc'[p] \in {"remove_shm", "open_shm"}
    BY <1>4, SetAt DEF Lock
  <2> QED BY <1>3, <1>4, <2>1, <2>2 DEF Lock
<1>5. CASE OpenShm(p)
  <2>1. pc'[p] = IF shm_name # None THEN "extract" ELSE "create_shm"
    BY <1>5, SetAt DEF OpenShm
  <2> QED BY <1>3, <1>5, <2>1 DEF OpenShm
<1>6. CASE Extract(p)
  <2>1. pc'[p] = "unlock"
    BY <1>6, SetAt DEF Extract, Fail
  <2> QED BY <1>3, <1>6, <2>1 DEF Extract
<1>7. CASE CreateShm(p)
  <2>1. pc[p] = "create_shm" /\ shm_name = None
    BY <1>1, <1>7 DEF CreateShm, OneMutex
  <2>2. /\ segment' = Append(segment, NoBytes) /\ shm_name' = Len(segment')
        /\ pc' = [pc EXCEPT ![p] = "truncate"]
        /\ UNCHANGED <<holder, mutex_name>>
    BY <1>7, <2>1 DEF CreateShm
  <2>3. Len(segment') = 1
    <3>1. /\ Len(segment) = 0 /\ segment \in Seq(Headers)
          /\ NoBytes \in Headers
      BY <1>1, <2>1, TypeParts DEF OneMutex, None, NoBytes, Headers
    <3> QED BY <2>2, <3>1, AppendProperties
  <2>4. \A q \in Processes : pc'[q] # "create_shm"
    <3>1. \A q \in Processes \ {p} : pc[q] # "create_shm"
      BY <1>1, <2>1, OneIsCritical DEF Critical
    <3> QED BY <2>2, <3>1, TypeParts
  <2> QED BY <1>1, <2>2, <2>3, <2>4 DEF OneMutex
<1>8. CASE Truncate(p)
  <2>1. UNCHANGED <<shm_name, mutex_name, holder>>
    BY <1>8 DEF Truncate
  <2>2. pc'[p] \in {"initialize", "unlock"}
    BY <1>8, SetAt DEF Truncate, Fail
  <2>3. Len(segment') = Len(segment)
    BY <1>8, TypeParts, LenProperties, SameLength DEF Truncate
  <2> QED BY <1>1, <2>1, <2>2, <2>3, OthersStay DEF OneMutex
<1>9. CASE Initialize(p)
  <2>1. UNCHANGED <<shm_name, mutex_name, holder>>
    BY <1>9 DEF Initialize
  <2>2. pc'[p] = "unlock"
    BY <1>9, SetAt DEF Initialize
  <2>3. Len(segment') = Len(segment)
    BY <1>9, TypeParts, LenProperties, SameLength DEF Initialize
  <2> QED BY <1>1, <2>1, <2>2, <2>3, OthersStay DEF OneMutex
<1>10. CASE Unlock(p)
  <2>1. Len(holder') = Len(holder)
    BY <1>10, HolderType DEF Unlock, Holders
  <2>2. pc'[p] # "create_shm"
    BY <1>10, SetAt DEF Unlock, AfterUnlock, EndCall
  <2> QED BY <1>3, <1>10, <2>1, <2>2 DEF Unlock
<1>11. CASE Construct(p)
  <2>1. pc'[p] = "idle"
    BY <1>11, SetAt DEF Construct, EndCall
  <2> QED BY <1>3, <1>11, <2>1 DEF Construct
<1>12. CASE RemoveShm(p) \/ RemoveMutex(p)
  BY <1>2, <1>12 DEF RemoveShm, RemoveMutex, Orderly
<1>13. CASE Close(p)
  BY <1>3, <1>13 DEF Close
<1>14. CASE Crash(p)
  <2>1. pc'[p] = "idle"
    <3>1. pc' = [pc EXCEPT ![p] = "idle"]
      BY <1>14 DEF Crash, EndCall
    <3> QED BY <3>1, TypeParts
  <2>2. Len(holder') = Len(holder)
    <3>1. DOMAIN holder' = 1 .. Len(holder) /\ Len(holder) \in Nat
      BY <1>14, Typed DEF Crash
    <3> QED BY <3>1, TypeParts, LenProperties
  <2> QED BY <1>3, <1>14, <2>1, <2>2 DEF Crash
<1> QED
  BY <1>4, <1>5, <1>6, <1>7, <1>8, <1>9, <1>10, <1>11, <1>12, <1>13, <1>14
     DEF Continue

(* A calm state comes after calm ones only.                                *)
LEMMA CalmBefore ==
  ASSUME RegistryInv, NEW p \in Processes,
         Continue(p) \/ Close(p) \/ Crash(p) \/ \E c \in Calls(p) : OpenMutex(p, c),
         Calm'
  PROVE  Calm
<1>1. TypeOK
  BY DEF RegistryInv
<1>2. removes = 0
  BY <1>1, OthersStay, TypeParts, MaxRemovesAssumption DEF Calm
<1> SUFFICES ASSUME NEW i \in DOMAIN segment, ~ BeingMade(i)
             PROVE  segment[i].room - 1 \in MinSize .. MaxSize
  BY <1>2 DEF Calm
<1>3. ASSUME i \in DOMAIN segment', segment'[i].room = segment[i].room,
             pc'[p] = "truncate" => data'[p].segment # i
      PROVE  segment[i].room - 1 \in MinSize .. MaxSize
  <2>1. ~ BeingMade(i)'
    BY <1>1, <1>3, OthersStay DEF BeingMade
  <2> QED BY <1>3, <2>1 DEF Calm
<1>4. ASSUME UNCHANGED segment, pc'[p] # "truncate"
      PROVE  segment[i].room - 1 \in MinSize .. MaxSize
  BY <1>3, <1>4
<1>5. CASE \E c \in Calls(p) : OpenMutex(p, c)
  <2>1. UNCHANGED segment /\ pc' = [pc EXCEPT ![p] = "lock"]
    BY <1>5 DEF OpenMutex
  <2>2. pc'[p] = "lock"
    BY <1>1, <2>1, TypeParts
  <2> QED BY <1>4, <2>1, <2>2
<1>6. CASE Lock(p)
  <2>1. pc'[p] \in {"remove_shm", "open_shm"}
    BY <1>1, <1>6, SetAt DEF Lock
  <2> QED BY <1>4, <1>6, <2>1 DEF Lock
<1>7. CASE OpenShm(p)
  <2>1. pc'[p] \in {"extract", "create_shm"}
    BY <1>1, <1>7, SetAt DEF OpenShm
  <2> QED BY <1>4, <1>7, <2>1 DEF OpenShm
<1>8. CASE Extract(p)
  <2>1. pc'[p] = "unlock"
    BY <1>1, <1>8, SetAt DEF Extract, Fail
  <2> QED BY <1>4, <1>8, <2>1 DEF Extract
<1>9. CASE CreateShm(p)
  <2>1. CASE shm_name # None
    <3>1. UNCHANGED segment /\ pc' = [pc EXCEPT ![p] = "unlock"]
      BY <1>9, <2>1 DEF CreateShm, Fail
    <3>2. pc'[p] = "unlock"
      BY <1>1, <3>1, TypeParts
    <3> QED BY <1>4, <3>1, <3>2
  <2>2. CASE shm_name = None
    <3> DEFINE v == View(shm_name', 0)
    <3>1. /\ segment' = Append(segment, NoBytes) /\ shm_name' = Len(segment')
          /\ data' = [data EXCEPT ![p] = v]
      BY <1>9, <2>2 DEF CreateShm
    <3>2. /\ segment \in Seq(Headers) /\ NoBytes \in Headers
          /\ i \in 1 .. Len(segment) /\ Len(segment) \in Nat
      BY <1>1, TypeParts, LenProperties DEF NoBytes, Headers
    <3>3. segment'[i] = segment[i] /\ Len(segment') = Len(segment) + 1
      BY <3>1, <3>2, AppendProperties
    <3>4. i \in DOMAIN segment' /\ i # Len(segment')
      <4>1. segment' \in Seq(Headers)
        BY <3>1, <3>2, AppendProperties
      <4> QED BY <3>2, <3>3, <4>1, LenProperties
    <3>5. data'[p].segment = Len(segment')
      <4> HIDE DEF v
      <4>1. data'[p] = v
        BY <1>1, <3>1, TypeParts
      <4> QED BY <3>1, <4>1 DEF v, View
    <3> QED BY <1>3, <3>3, <3>4, <3>5
  <2> QED BY <2>1, <2>2
<1>10. CASE Truncate(p)
  <2>1. Making(p) /\ pc[p] = "truncate" /\ data[p].segment \in DOMAIN segment
    BY <1>10 DEF Truncate, RegistryInv, MakersAreAlone, Making
  <2>2. i # data[p].segment
    BY <2>1 DEF BeingMade
  <2>3. segment'[i] = segment[i] /\ i \in DOMAIN segment'
    BY <1>1, <1>10, <2>2, TypeParts, LenProperties DEF Truncate
  <2>4. pc'[p] # "truncate"
    BY <1>1, <1>10, SetAt DEF Truncate, Fail
  <2> QED BY <1>3, <2>3, <2>4
<1>11. CASE Initialize(p)
  <2>1. Making(p) /\ data[p].segment \in DOMAIN segment
    BY <1>11 DEF Initialize, RegistryInv, MakersAreAlone, Making
  <2>2. PICK j \in DOMAIN segment : data[p].segment = j
    BY <2>1
  <2>3. segment' = [segment EXCEPT ![j] = [room |-> segment[j].room,
                                           buffer_size |-> call[p].asked]]
    BY <1>1, <1>11, <2>2, InitializeType
  <2>4. segment'[i].room = segment[i].room /\ i \in DOMAIN segment'
    <3>1. CASE i = j
      BY <1>1, <2>3, <3>1, TypeParts, LenProperties
    <3>2. CASE i # j
      BY <1>1, <2>3, <3>2, TypeParts, LenProperties
    <3> QED BY <3>1, <3>2
  <2>5. pc'[p] = "unlock"
    BY <1>1, <1>11, SetAt DEF Initialize
  <2> QED BY <1>3, <2>4, <2>5
<1>12. CASE Unlock(p)
  <2>1. pc'[p] \in {"idle", "construct", "remove_mutex"}
    BY <1>1, <1>12, SetAt DEF Unlock, AfterUnlock, EndCall
  <2> QED BY <1>4, <1>12, <2>1 DEF Unlock
<1>13. CASE Construct(p) \/ RemoveMutex(p) \/ Crash(p)
  <2>1. UNCHANGED segment /\ pc' = [pc EXCEPT ![p] = "idle"]
    BY <1>13 DEF Construct, RemoveMutex, Crash, EndCall
  <2> QED BY <1>1, <1>4, <2>1, SetAt
<1>14. CASE RemoveShm(p)
  <2>1. UNCHANGED segment /\ pc' = [pc EXCEPT ![p] = "unlock"]
    BY <1>14 DEF RemoveShm
  <2>2. pc'[p] = "unlock"
    BY <1>1, <2>1, TypeParts
  <2> QED BY <1>4, <2>1, <2>2
<1>15. CASE Close(p)
  <2>1. UNCHANGED <<segment, pc>> /\ pc[p] = "idle"
    BY <1>15 DEF Close
  <2> QED BY <1>4, <2>1
<1> QED
  BY <1>5, <1>6, <1>7, <1>8, <1>9, <1>10, <1>11, <1>12, <1>13, <1>14, <1>15
     DEF Continue

GoesWell ==
  /\ SegmentsAreDone
  /\ SizesAreRight
  /\ \A p \in Processes : outcome[p] \notin Errors

LEMMA CallsInvParts ==
  CallsInv <=> CallsAreOrderly /\ OneMutex /\ (Calm => GoesWell)
BY DEF CallsInv, CallsSucceed, GoesWell, Calm

(* A step of p that leaves the segments alone and is not in making one.    *)
LEMMA WellOtherwise ==
  ASSUME TypeOK, GoesWell, NEW p \in Processes,
         \/ \E c \in Calls(p) : OpenMutex(p, c)
         \/ Continue(p) \/ Close(p) \/ Crash(p),
         UNCHANGED segment, ~ Making(p),
         \A m \in DOMAIN holder :
           holder[m] = Dead => m \in DOMAIN holder' /\ holder'[m] = Dead,
         outcome'[p] \notin Errors,
         pc'[p] \in {"unlock", "construct"} /\ outcome'[p] = "pending" =>
           \E i \in DOMAIN segment : data'[p].size = segment[i].room - 1
  PROVE  GoesWell'
<1>1. SegmentsAreDone'
  <2> SUFFICES ASSUME NEW i \in DOMAIN segment
               PROVE  \/ segment[i].buffer_size = segment[i].room - 1
                      \/ \E q \in Processes :
                           Making(q)' /\ data'[q].segment = i
                      \/ \E m \in DOMAIN holder' : holder'[m] = Dead
    BY DEF SegmentsAreDone
  <2>1. CASE \E q \in Processes : Making(q) /\ data[q].segment = i
    <3>1. PICK q \in Processes \ {p} : Making(q) /\ data[q].segment = i
      BY <2>1
    <3>2. Making(q)' /\ data'[q].segment = i
      BY <3>1, OthersStay DEF Making
    <3> QED BY <3>2
  <2>2. CASE \E m \in DOMAIN holder : holder[m] = Dead
    BY <2>2
  <2> QED BY <2>1, <2>2 DEF GoesWell, SegmentsAreDone
<1>2. SizesAreRight'
  <2> SUFFICES ASSUME NEW q \in Processes \ {p},
                      pc'[q] \in {"unlock", "construct"},
                      outcome'[q] = "pending"
               PROVE  \E i \in DOMAIN segment : data'[q].size = segment[i].room - 1
    BY DEF SizesAreRight
  <2>1. pc'[q] = pc[q] /\ outcome'[q] = outcome[q] /\ data'[q] = data[q]
    BY OthersStay
  <2> QED BY <2>1 DEF GoesWell, SizesAreRight
<1>3. \A q \in Processes : outcome'[q] \notin Errors
  BY OthersStay DEF GoesWell
<1> QED BY <1>1, <1>2, <1>3 DEF GoesWell

LEMMA OpenMutexWell ==
  ASSUME TypeOK, GoesWell, NEW p \in Processes,
         NEW c \in Calls(p), OpenMutex(p, c)
  PROVE  GoesWell'
<1>1. /\ pc[p] = "idle" /\ pc'[p] = "lock" /\ outcome'[p] = "pending"
  <2>1. /\ pc[p] = "idle" /\ pc' = [pc EXCEPT ![p] = "lock"]
        /\ outcome' = [outcome EXCEPT ![p] = "pending"]
    BY DEF OpenMutex
  <2> QED BY <2>1, TypeParts
<1>2. \A m \in DOMAIN holder : m \in DOMAIN holder' /\ holder'[m] = holder[m]
  <2>1. CASE mutex_name = None
    <3>1. /\ holder \in Seq(Holders) /\ Len(holder) \in Nat /\ Nobody \in Holders
          /\ DOMAIN holder = 1 .. Len(holder)
          /\ holder' = Append(holder, Nobody)
      BY <2>1, TypeParts, LenProperties DEF Holders, OpenMutex
    <3>2. /\ Len(holder') = Len(holder) + 1 /\ holder' \in Seq(Holders)
          /\ \A m \in 1 .. Len(holder) : holder'[m] = holder[m]
      BY <3>1, AppendProperties
    <3> QED BY <3>1, <3>2, LenProperties
  <2>2. CASE mutex_name # None
    BY <2>2 DEF OpenMutex
  <2> QED BY <2>1, <2>2
<1> QED
  BY <1>1, <1>2, WellOtherwise DEF OpenMutex, Making, Errors

LEMMA LockWell ==
  ASSUME TypeOK, GoesWell, NEW p \in Processes, Lock(p)
  PROVE  GoesWell'
<1>1. pc'[p] \in {"remove_shm", "open_shm"} /\ pc[p] = "lock"
  BY SetAt DEF Lock
<1>2. /\ holder[mutex[p]] = Nobody /\ holder' = [holder EXCEPT ![mutex[p]] = p]
      /\ UNCHANGED <<segment, outcome>>
  BY DEF Lock
<1>3. \A m \in DOMAIN holder :
        holder[m] = Dead => m \in DOMAIN holder' /\ holder'[m] = Dead
  BY <1>2, TypeParts, LenProperties DEF Nobody, Dead
<1> QED
  BY <1>1, <1>2, <1>3, WellOtherwise DEF Making, GoesWell, Continue

LEMMA UnlockWell ==
  ASSUME TypeOK, CallsAreOrderly, GoesWell, NEW p \in Processes, Unlock(p)
  PROVE  GoesWell'
<1>1. /\ pc[p] = "unlock" /\ holder' = [holder EXCEPT ![mutex[p]] = Nobody]
      /\ UNCHANGED segment
  BY DEF Unlock
<1>2. mutex[p] \in DOMAIN holder /\ holder[mutex[p]] = p /\ p # Dead
  BY <1>1, HoldersAssumption DEF CallsAreOrderly, Orderly, Critical
<1>3. \A m \in DOMAIN holder :
        holder[m] = Dead => m \in DOMAIN holder' /\ holder'[m] = Dead
  BY <1>1, <1>2, TypeParts, LenProperties
<1>4. outcome'[p] \in {outcome[p], "success"}
  BY SetAt DEF Unlock, AfterUnlock, EndCall
<1>5. pc'[p] = "construct" =>
        outcome[p] = "pending" /\ UNCHANGED data
  <2>1. CASE \E o : EndCall(p, o)
    <3>1. pc' = [pc EXCEPT ![p] = "idle"]
      BY <2>1 DEF EndCall
    <3>2. pc'[p] = "idle"
      BY <3>1, TypeParts
    <3> QED BY <3>2
  <2>2. CASE ~ \E o : EndCall(p, o)
    BY <2>2 DEF Unlock, AfterUnlock
  <2> QED BY <2>1, <2>2
<1>6. pc'[p] # "unlock"
  BY SetAt DEF Unlock, AfterUnlock, EndCall
<1>7. pc'[p] \in {"unlock", "construct"} =>
        \E i \in DOMAIN segment : data'[p].size = segment[i].room - 1
  BY <1>1, <1>5, <1>6 DEF GoesWell, SizesAreRight
<1>8. outcome'[p] \notin Errors
  BY <1>4 DEF GoesWell, Errors
<1> QED
  BY <1>1, <1>3, <1>7, <1>8, WellOtherwise DEF Making, Continue

LEMMA OpenShmWell ==
  ASSUME TypeOK, GoesWell, NEW p \in Processes, OpenShm(p)
  PROVE  GoesWell'
<1>1. pc'[p] \in {"extract", "create_shm"} /\ pc[p] = "open_shm"
  BY SetAt DEF OpenShm
<1> QED
  BY <1>1, WellOtherwise DEF OpenShm, Making, GoesWell, Continue

(* What prepare finds under the lock is made out.                          *)
LEMMA ExtractWell ==
  ASSUME RegistryInv, CallsAreOrderly, OneMutex, Calm, GoesWell,
         NEW p \in Processes, Extract(p)
  PROVE  GoesWell'
<1>1. TypeOK /\ pc[p] = "extract" /\ removes = 0
  BY DEF RegistryInv, Extract, Calm
<1>2. PICK i \in DOMAIN segment : data[p].segment = i
  BY <1>1 DEF RegistryInv, ViewsAreTrue
<1>3. segment[i].room \in Nat /\ segment[i].buffer_size \in Nat
  <2>1. segment[i] \in Headers
    BY <1>1, TypeParts, ElementOfSeq, Typed
  <2> QED BY <2>1, HeaderSet
<1>4. segment[i].buffer_size = segment[i].room - 1
  <2>1. ~ \E q \in Processes : Making(q)
    BY <1>1, OneIsCritical DEF Making, Critical
  <2>2. ~ \E m \in DOMAIN holder : holder[m] = Dead
    BY <1>1, OneIsCritical, HoldersAssumption DEF Critical
  <2> QED BY <2>1, <2>2 DEF GoesWell, SegmentsAreDone
<1>5. segment[i].room # 0
  BY <1>3, <1>4
<1> DEFINE n == segment[i].buffer_size
<1>6. /\ data' = [data EXCEPT ![p].size = n]
      /\ UNCHANGED <<segment, holder, outcome>>
  BY <1>2, <1>5 DEF Extract
<1> HIDE DEF n
<1>7. data'[p].size = n
  <2> DEFINE v == View(data[p].segment, n)
  <2>1. data' = [data EXCEPT ![p] = v]
    BY <1>1, <1>6, DataSet
  <2> HIDE DEF v
  <2>2. data'[p] = v
    BY <1>1, <2>1, SetAt
  <2> QED BY <2>2 DEF v, View
<1>8. \E j \in DOMAIN segment : data'[p].size = segment[j].room - 1
  BY <1>4, <1>7 DEF n
<1> QED
  BY <1>1, <1>6, <1>8, WellOtherwise DEF Making, GoesWell, Continue

LEMMA EndWell ==
  ASSUME TypeOK, GoesWell, NEW p \in Processes,
         Continue(p) \/ Crash(p), UNCHANGED segment, ~ Making(p),
         NEW o, o \notin Errors, EndCall(p, o),
         \A m \in DOMAIN holder :
           holder[m] = Dead => m \in DOMAIN holder' /\ holder'[m] = Dead
  PROVE  GoesWell'
<1>1. pc'[p] = "idle" /\ outcome'[p] = o
  BY SetAt DEF EndCall
<1> QED BY <1>1, WellOtherwise

(* The queue's constructor accepts the size.                               *)
LEMMA ConstructWell ==
  ASSUME RegistryInv, CallsAreOrderly, Calm, GoesWell,
         NEW p \in Processes, Construct(p)
  PROVE  GoesWell'
<1>1. TypeOK /\ pc[p] = "construct"
  BY DEF RegistryInv, Construct
<1>2. outcome[p] = "pending"
  BY <1>1 DEF CallsAreOrderly, Orderly
<1>3. PICK i \in DOMAIN segment : data[p].size = segment[i].room - 1
  BY <1>1, <1>2 DEF GoesWell, SizesAreRight
<1>4. data[p].size \in Nat
  BY <1>1, Typed
<1>5. ~ BeingMade(i)
  <2> SUFFICES ASSUME NEW q \in Processes, pc[q] = "truncate",
                      data[q].segment = i
               PROVE  FALSE
    BY DEF BeingMade
  <2>1. segment[i].room = 0
    BY MakersSegment DEF Making
  <2> QED BY <1>3, <1>4, <2>1
<1>6. data[p].size \in MinSize .. MaxSize
  BY <1>3, <1>5 DEF Calm
<1>7. EndCall(p, "success") /\ UNCHANGED <<segment, holder>>
  BY <1>6 DEF Construct
<1> QED
  BY <1>1, <1>7, EndWell DEF Making, Errors, Continue

(* Making a segment: the name is free, since the lock is held.             *)
LEMMA CreateShmWell ==
  ASSUME RegistryInv, OneMutex, Calm, GoesWell,
         NEW p \in Processes, CreateShm(p)
  PROVE  GoesWell'
<1>1. TypeOK /\ pc[p] = "create_shm"
  BY DEF RegistryInv, CreateShm
<1>2. shm_name = None
  BY <1>1 DEF OneMutex, Calm
<1> DEFINE n == Len(segment) + 1
           v == View(n, 0)
<1>3. /\ segment \in Seq(Headers) /\ DOMAIN segment = 1 .. Len(segment)
      /\ NoBytes \in Headers /\ Len(segment) \in Nat
  BY <1>1, TypeParts, LenProperties DEF NoBytes, Headers
<1>4. /\ segment' = Append(segment, NoBytes) /\ shm_name' = Len(segment')
      /\ pc' = [pc EXCEPT ![p] = "truncate"]
      /\ data' = [data EXCEPT ![p] = View(shm_name', 0)]
      /\ UNCHANGED <<holder, outcome>>
  BY <1>2 DEF CreateShm
<1>5. /\ Len(segment') = n
      /\ \A i \in DOMAIN segment : segment'[i] = segment[i]
  BY <1>3, <1>4, AppendProperties
<1>6. DOMAIN segment' = DOMAIN segment \cup {n}
  <2>1. segment' \in Seq(Headers)
    BY <1>3, <1>4, AppendProperties
  <2> QED BY <1>3, <1>5, <2>1, LenProperties
<1>7. data'[p].segment = n
  <2>1. data' = [data EXCEPT ![p] = v]
    BY <1>4, <1>5
  <2> HIDE DEF v, n
  <2>2. data'[p] = v
    BY <1>1, <2>1, SetAt
  <2> QED BY <2>2 DEF v, View
<1>8. pc'[p] = "truncate"
  BY <1>1, <1>4, TypeParts
<1> HIDE DEF n
<1>9. \A q \in Processes \ {p} :
        pc'[q] = pc[q] /\ data'[q] = data[q] /\ outcome'[q] = outcome[q]
  BY <1>1, OthersStay DEF Continue
<1>10. SegmentsAreDone'
  <2> SUFFICES ASSUME NEW i \in DOMAIN segment'
               PROVE  \/ segment'[i].buffer_size = segment'[i].room - 1
                      \/ \E q \in Processes :
                           Making(q)' /\ data'[q].segment = i
                      \/ \E m \in DOMAIN holder' : holder'[m] = Dead
    BY DEF SegmentsAreDone
  <2>1. CASE i = n
    BY <1>7, <1>8, <2>1 DEF Making
  <2>2. CASE i \in DOMAIN segment
    <3>1. ASSUME NEW q \in Processes, Making(q), data[q].segment = i
          PROVE  Making(q)' /\ data'[q].segment = i
      BY <1>1, <1>9, <3>1 DEF Making
    <3> QED BY <1>4, <1>5, <2>2, <3>1 DEF GoesWell, SegmentsAreDone
  <2> QED BY <1>6, <2>1, <2>2
<1>11. SizesAreRight'
  <2> SUFFICES ASSUME NEW q \in Processes,
                      pc'[q] \in {"unlock", "construct"},
                      outcome'[q] = "pending"
               PROVE  \E i \in DOMAIN segment' :
                        data'[q].size = segment'[i].room - 1
    BY DEF SizesAreRight
  <2>1. \E i \in DOMAIN segment : data[q].size = segment[i].room - 1
    BY <1>8, <1>9 DEF GoesWell, SizesAreRight
  <2> QED BY <1>5, <1>6, <1>8, <1>9, <2>1
<1>12. \A q \in Processes : outcome'[q] \notin Errors
  BY <1>4 DEF GoesWell
<1> QED BY <1>10, <1>11, <1>12 DEF GoesWell

(* The maker of segment i goes on: others have nothing to do with it.      *)
LEMMA MakerWell ==
  ASSUME RegistryInv, GoesWell, NEW p \in Processes, Making(p),
         Truncate(p) \/ Initialize(p),
         NEW i \in DOMAIN segment, data[p].segment = i,
         NEW h, segment' = [segment EXCEPT ![i] = h],
         pc[p] # "truncate" => h.room = segment[i].room,
         UNCHANGED <<holder, outcome>>,
         \/ Making(p)' /\ data'[p].segment = i
         \/ h.buffer_size = h.room - 1 /\ data'[p].size = h.room - 1
  PROVE  GoesWell'
<1>1. TypeOK
  BY DEF RegistryInv
<1>2. /\ DOMAIN segment' = DOMAIN segment /\ segment'[i] = h
      /\ \A j \in DOMAIN segment \ {i} : segment'[j] = segment[j]
  BY <1>1, TypeParts, LenProperties
<1>3. \A q \in Processes \ {p} :
        pc'[q] = pc[q] /\ data'[q] = data[q] /\ outcome'[q] = outcome[q]
  BY <1>1, OthersStay DEF Continue
<1>4. SegmentsAreDone'
  <2> SUFFICES ASSUME NEW j \in DOMAIN segment \ {i}
               PROVE  \/ segment[j].buffer_size = segment[j].room - 1
                      \/ \E q \in Processes :
                           Making(q)' /\ data'[q].segment = j
                      \/ \E m \in DOMAIN holder : holder[m] = Dead
    BY <1>2 DEF SegmentsAreDone
  <2>1. ASSUME NEW q \in Processes, Making(q), data[q].segment = j
        PROVE  Making(q)' /\ data'[q].segment = j
    BY <1>3, <2>1 DEF Making
  <2> QED BY <2>1 DEF GoesWell, SegmentsAreDone
<1>5. SizesAreRight'
  <2> SUFFICES ASSUME NEW q \in Processes,
                      pc'[q] \in {"unlock", "construct"},
                      outcome'[q] = "pending"
               PROVE  \E j \in DOMAIN segment :
                        data'[q].size = segment'[j].room - 1
    BY <1>2 DEF SizesAreRight
  <2>1. CASE q = p
    BY <1>2, <2>1 DEF Making
  <2>2. CASE q # p
    <3>1. PICK j \in DOMAIN segment : data[q].size = segment[j].room - 1
      BY <1>3, <2>2 DEF GoesWell, SizesAreRight
    <3>2. CASE j # i
      BY <1>2, <1>3, <2>2, <3>1, <3>2
    <3>3. CASE j = i /\ pc[p] = "truncate"
      <4>1. segment[i].room = 0 /\ data[q].size \in Nat
        BY <1>1, <3>3, MakersSegment, Typed
      <4> QED BY <3>1, <3>3, <4>1
    <3>4. CASE j = i /\ pc[p] # "truncate"
      BY <1>2, <1>3, <2>2, <3>1, <3>4
    <3> QED BY <3>2, <3>3, <3>4
  <2> QED BY <2>1, <2>2
<1>6. \A q \in Processes : outcome'[q] \notin Errors
  BY DEF GoesWell
<1> QED BY <1>4, <1>5, <1>6 DEF GoesWell

LEMMA TruncateWell ==
  ASSUME RegistryInv, Calm', GoesWell, NEW p \in Processes, Truncate(p)
  PROVE  GoesWell'
<1>1. TypeOK /\ pc[p] = "truncate" /\ Making(p)
  BY DEF RegistryInv, Truncate, Making
<1>2. PICK i \in DOMAIN segment : data[p].segment = i
  BY <1>1 DEF RegistryInv, MakersAreAlone
<1> DEFINE h == [room |-> call[p].asked + 1,
                 buffer_size |-> segment[i].buffer_size]
<1>3. CASE segment' = segment /\ Fail(p, "internal_error")
  <2>1. segment[i].room = 0 /\ ~ \E q \in Processes \ {p} :
                                   Making(q) /\ data[q].segment = i
    BY <1>1, <1>2, MakersSegment
  <2>2. pc'[p] = "unlock"
    BY <1>1, <1>3, SetAt DEF Fail
  <2>3. ~ BeingMade(i)'
    BY <1>1, <2>1, <2>2, OthersStay DEF BeingMade, Making, Continue
  <2>4. segment[i].room - 1 \notin MinSize .. MaxSize
    BY <2>1, SizesAssumption
  <2> QED BY <1>3, <2>3, <2>4 DEF Calm
<1>4. CASE ~ (segment' = segment /\ Fail(p, "internal_error"))
  <2>1. segment' = [segment EXCEPT ![i] = h]
    BY <1>1, <1>2, <1>4, TruncateType
  <2>2. UNCHANGED <<data, outcome, holder>> /\ pc' = [pc EXCEPT ![p] = "initialize"]
    BY <1>4 DEF Truncate
  <2>3. Making(p)'
    BY <1>1, <2>2, TypeParts DEF Making
  <2> HIDE DEF h
  <2> QED BY <1>1, <1>2, <2>1, <2>2, <2>3, MakerWell
<1> QED BY <1>3, <1>4

LEMMA InitializeWell ==
  ASSUME RegistryInv, GoesWell, NEW p \in Processes, Initialize(p)
  PROVE  GoesWell'
<1>1. TypeOK /\ pc[p] = "initialize" /\ Making(p)
  BY DEF RegistryInv, Initialize, Making
<1>2. PICK i \in DOMAIN segment : data[p].segment = i
  BY <1>1 DEF RegistryInv, MakersAreAlone
<1> DEFINE h == [room |-> segment[i].room, buffer_size |-> call[p].asked]
           v == View(i, call[p].asked)
<1>3. segment' = [segment EXCEPT ![i] = h]
  BY <1>1, <1>2, InitializeType
<1>4. segment[i].room = call[p].asked + 1 /\ call[p].asked \in Nat
  BY <1>1, <1>2, MakersSegment
<1>5. /\ h.room = segment[i].room /\ h.buffer_size = call[p].asked
      /\ h.buffer_size = h.room - 1
  BY <1>4
<1>6. data' = [data EXCEPT ![p] = v] /\ UNCHANGED <<holder, outcome>>
  BY <1>1, <1>2, DataSet DEF Initialize
<1> HIDE DEF h, v
<1>7. data'[p] = v
  BY <1>1, <1>6, SetAt
<1>8. data'[p].size = h.room - 1
  <2>1. v.size = call[p].asked
    BY DEF v, View
  <2> QED BY <1>4, <1>5, <1>7, <2>1
<1> QED BY <1>1, <1>2, <1>3, <1>5, <1>6, <1>8, MakerWell

(* A maker that dies leaves its mutex to the dead, and no one finds the    *)
(* segment.                                                                *)
LEMMA CrashWell ==
  ASSUME RegistryInv, CallsAreOrderly, OneMutex, Calm, GoesWell,
         NEW p \in Processes, Crash(p)
  PROVE  GoesWell'
<1>1. TypeOK
  BY DEF RegistryInv
<1>2. EndCall(p, "crashed") /\ UNCHANGED segment
  BY DEF Crash
<1>3. /\ DOMAIN holder' = DOMAIN holder
      /\ \A m \in DOMAIN holder : holder[m] \in {p, Dead} => holder'[m] = Dead
  BY DEF Crash
<1>4. CASE ~ Making(p)
  BY <1>1, <1>2, <1>3, <1>4, EndWell DEF Errors
<1>5. CASE Making(p)
  <2>1. \E m \in DOMAIN holder' : holder'[m] = Dead
    <3>1. pc[p] \in Critical
      BY <1>5 DEF Making, Critical
    <3> QED BY <1>3, <3>1 DEF CallsAreOrderly, Orderly
  <2>2. pc'[p] = "idle" /\ outcome'[p] = "crashed"
    BY <1>1, <1>2, SetAt DEF EndCall
  <2>3. SegmentsAreDone'
    BY <2>1 DEF SegmentsAreDone
  <2>4. \A q \in Processes \ {p} :
          pc'[q] = pc[q] /\ data'[q] = data[q] /\ outcome'[q] = outcome[q]
    BY <1>1, OthersStay
  <2>5. SizesAreRight'
    <3> SUFFICES ASSUME NEW q \in Processes \ {p},
                        pc'[q] \in {"unlock", "construct"},
                        outcome'[q] = "pending"
                 PROVE  \E i \in DOMAIN segment :
                          data'[q].size = segment[i].room - 1
      BY <1>2, <2>2 DEF SizesAreRight
    <3> QED BY <2>4 DEF GoesWell, SizesAreRight
  <2>6. \A q \in Processes : outcome'[q] \notin Errors
    BY <2>2, <2>4 DEF GoesWell, Errors
  <2> QED BY <2>3, <2>5, <2>6 DEF GoesWell
<1> QED BY <1>4, <1>5

LEMMA CloseWell ==
  ASSUME GoesWell, NEW p \in Processes, Close(p)
  PROVE  GoesWell'
BY DEF Close, GoesWell, SegmentsAreDone, SizesAreRight, Making

LEMMA NextCallsInv == RegistryInv /\ CallsInv /\ [Next]_vars => CallsInv'
<1> SUFFICES ASSUME RegistryInv, CallsInv, [Next]_vars PROVE CallsInv'
  OBVIOUS
<1>1. TypeOK /\ TypeOK'
  BY NextRegistryInv DEF RegistryInv
<1>2. /\ CallsAreOrderly /\ OneMutex /\ (Calm => GoesWell)
      /\ CallsAreOrderly' /\ OneMutex' /\ (Calm' => GoesWell') => CallsInv'
  BY CallsInvParts DEF CallsInv, CallsSucceed, GoesWell, Calm
<1>3. ASSUME NEW p \in Processes, NEW c \in Calls(p), OpenMutex(p, c)
      PROVE  CallsInv'
  <2>1. Calm' => GoesWell'
    BY <1>1, <1>2, <1>3, CalmBefore, OpenMutexWell
  <2> QED BY <1>1, <1>2, <1>3, <2>1, OpenMutexOrderly
<1>4. ASSUME NEW p \in Processes, Continue(p) \/ Close(p) \/ Crash(p)
      PROVE  CallsInv'
  <2>1. CallsAreOrderly' /\ OneMutex'
    BY <1>1, <1>2, <1>4, ContinueOrderly, LeaveOrderly, ContinueOneMutex
  <2>2. ASSUME Calm' PROVE GoesWell'
    <3>1. Calm /\ GoesWell /\ removes = 0
      BY <1>2, <1>4, <2>2, CalmBefore DEF Calm
    <3>2. ~ RemoveShm(p) /\ ~ RemoveMutex(p)
      BY <1>2, <3>1 DEF CallsAreOrderly, Orderly, RemoveShm, RemoveMutex
    <3> QED
      BY <1>1, <1>2, <1>4, <2>2, <3>1, <3>2, LockWell, UnlockWell, OpenShmWell,
         ExtractWell, CreateShmWell, TruncateWell, InitializeWell,
         ConstructWell, CrashWell, CloseWell DEF Continue
  <2> QED BY <1>2, <2>1, <2>2
<1>5. CASE UNCHANGED vars
  <2>1. CallsAreOrderly'
    BY <1>2, <1>5 DEF vars, CallsAreOrderly, Orderly
  <2>2. OneMutex'
    BY <1>2, <1>5 DEF vars, OneMutex
  <2>3. Calm' => Calm
    BY <1>5 DEF vars, Calm, BeingMade
  <2>4. GoesWell => GoesWell'
    BY <1>5 DEF vars, GoesWell, SegmentsAreDone, SizesAreRight, Making
  <2> QED BY <1>2, <2>1, <2>2, <2>3, <2>4
<1> QED BY <1>3, <1>4, <1>5 DEF Next

(* However many processes open and create a stream at the same time, in    *)
(* whatever order their steps come, whatever sizes they ask for and        *)
(* whoever dies: unless somebody removes the name, or a segment was left   *)
(* without room for a buffer the queue can work with, no call fails.       *)
THEOREM CallsDoSucceed == Spec => []CallsSucceed
<1>1. CallsInv => CallsSucceed
  BY DEF CallsInv, CallsSucceed, Calm
<1> QED
  BY <1>1, InitCallsInv, NextCallsInv, RegistryInvariant, PTL DEF Spec
=============================================================================
