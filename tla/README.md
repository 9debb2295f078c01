# Formal models of cpp-shm-stream

cpp-shm-stream sends a stream of bytes from one writer to one reader, two
threads or two processes, through a circular buffer in shared memory. This
directory holds TLA+ models of the library, configurations for the model
checker TLC, and proofs that the TLA+ proof system TLAPS checks. Paths below are
relative to the root of the repository.

## 1. Inventory of the system

| Part | Source | State | Operations |
|---|---|---|---|
| light bytes queue | `include/shm_stream/details/light_bytes_queue.h` | two shared atomic indices, the buffer; per object its own index (`next_write_index_`, `next_read_index_`) and `reserved_` | constructors, `available_size`, `try_reserve`, `commit` |
| blocking bytes queue | `include/shm_stream/details/blocking_bytes_queue.h` | the same; the value `max - 1` of an index means "stopped" | the same and `wait`, `wait_reserve`, `stop`, `is_stopped` |
| index arithmetic | the `calc_*` functions of both, `max_size`, `min_size` | none | `uint32_t` arithmetic on indices |
| atomic index pair | `details/atomic_index_pair.h` | two atomics on cache lines of their own | access |
| stream registry | `src/shm_stream/c_interface/atomic_stream_internal.cpp`, `light_stream_internal.cpp`, `blocking_stream_internal.cpp` | names of a shared memory segment and of a mutex in the operating system; the header of a segment | prepare (open or create), remove |
| C interface | `src/shm_stream/c_interface/*_{writer,reader,common}.cpp` | handles that own a mapping and a queue object | create, destroy, and one function per operation of the queue |
| C++ interface | `include/shm_stream/{light,blocking}_stream.h`, `details/smart_ptr.h` | an owning pointer to a handle | open, close, moves, forwarding calls |
| errors | `translate_error.h`, `throw_if_error.h`, `error_codes.cpp` | none | exceptions to error codes and back |
| views | `bytes_view.h`, `string_view.h` | none | pointer and size |

**How they interact.** The C++ classes call the C functions, which find the
segment through the registry and construct a queue object on it. From then on
the writer and the reader interact only through the two atomic indices and the
bytes of the buffer: each side stores its own index and loads the other one.
The blocking queue also sleeps on the other side's index (a futex behind
`boost::atomics::ipc_atomic::wait`) and is woken by `notify_all`. `stop` may be
called from any thread and stores both indices.

**What is hard.** Stale loads and the order of memory accesses; the one cell
that tells full from empty; commits that race a stop; going to sleep while the
other side commits; restart of one side while the other goes on; opening,
creating and removing a name at the same time; processes that die in the middle
of any of this. `PROJECT.json` lists each hazard with its line and the
properties aimed at it.

**What makes each part correct.**

- Light queue: bytes arrive in order, once, unchanged; no data race; the spans
  handed out never overlap; the counts are true and never shrink under a
  client's feet; nobody gets stuck.
- Blocking queue: the same, and a stop is never lost, ends every wait, and no
  interleaving of sleeping and notifying leaves a side asleep for ever.
- Arithmetic: no unsigned sum wraps; counts are exact.
- Registry: whoever opens first, all processes get the same initialised
  segment; no failure or crash makes an open stream unusable; every call returns.
- A whole stream, opened by name: each segment carries one stream of bytes
  through all openings, closings, removals and deaths.
- A reader object used by two threads: no call uses a destroyed handle, and a
  program that stops it ends.

## 2. Modules

| Module | What it is |
|---|---|
| `QueueIndices` | the index arithmetic as operators over the naturals; both queue modules use it |
| `QueueIndicesWidth` | the same arithmetic in unsigned integers modulo `Modulus`, as a state machine over all reachable index pairs of all sizes |
| `QueueIndicesWidthProofs` | its theorems |
| `ByteStream` | the abstract specification: an append-only sequence and an initial segment of it that was taken, at most `Capacity` apart |
| `LightBytesQueue` | the light queue, both sides, under release/acquire atomics |
| `LightBytesQueueProofs` | its theorems |
| `BlockingBytesQueue` | the blocking queue with stop, waiting, wake-up, crashes |
| `BlockingBytesQueueProofs` | its theorems |
| `BlockingRestartProofs` | that its spans stay apart after objects were made again from a stopped index, and that the reader sees a stop |
| `StreamRegistry` | open, create and remove of one stream name by several processes |
| `StreamRegistryProofs` | its theorems |
| `StreamHandles` | the C++ objects of one process and the handles they own: moves, reopening, calls on closed objects |
| `StreamHandlesProofs` | its theorems |
| `LightStreams` | a writer and a reader of a light stream in two processes: `StreamRegistry` composed with a queue in every segment |
| `LightStreamsProofs` | its theorems |
| `SharedReader` | one blocking reader object used by two threads: `BlockingBytesQueue` composed with the life of the handle |
| `SharedReaderProofs` | its theorems |
| `MCLightBytesQueue`, `MCBlockingBytesQueue`, `MCStreamHandles` | the modules TLC runs; the last one adds a symmetry, the others nothing |

Every queue module composes `QueueIndices`; `LightBytesQueue` is shown to
implement `ByteStream` (`StreamSpec`, with `Capacity <- Size - 1`, `committed`
the numbers `1 .. sent`, `taken` the bytes received), and so is every segment of
`LightStreams` (`EachSegmentIsAStream`, with the room of the largest size; that a
segment never holds more than its own size less one is `UnreadBytesAreThere`).

Definitions marked *Fault* are a plausible bug in the definition that follows
them. Nothing uses them; `PROJECT.json` ("mutants") says which property notices
each of them.

### LightBytesQueue

One action per operation: `WriterOpen` / `WriterClose` are the constructor and
the destructor (or the death of the process: `reserved_` and the client's
progress are forgotten, the shared state stays); `WriterAvailableSize`,
`WriterTryReserve`, `WriterCommit` are the member functions, each with one
access to a shared atomic, hence one step; `WriterFill` is the client putting one
byte into the span it was given. The reader's actions mirror them.

*Memory.* An index is stored by one side only. Its variable (`write_stores`,
`read_stores`) is the set of stores that the other side may still load. A load
picks any of them and, by coherence, rules out all older ones. A store carries
the number of bytes its side was done with; an acquire load of a release store
makes that number known (`w_acquired`, `r_acquired`), a relaxed load
(`available_size`) does not. `NoDataRace` demands that every byte of a span rests
on an acquired store. A byte is its number in the stream, so any loss,
repetition, reordering or stale read shows in `received`.

*Client.* It may reserve again and again, commit less than reserved, ask for any
size, and close at any time. It does not commit more than it has written or
read: the assertions in `commit` exclude that, and a byte it never wrote has no
meaning.

### BlockingBytesQueue

The two classes are mirror images, so each action is written once for a side
`s`; an entry of the map in `PROJECT.json` names the lines of one of the two
classes and stands for both. A step is one access to a shared atomic or one
notification. `commit` is `Exchange`, then, if the stop index was replaced, the
four steps of `stop`, then `FinishCommit` (the notification and
`reserved_ = 0`). `wait` and `wait_reserve` share `StartWaiting`,
`LoadUnexpected` (the loop's load) and `Sleep` (the futex call, which tests the
value and sleeps in one step), and end in `ReturnFromWait` or
`ReturnFromWaitReserve`. `stop` is `StopReadIndex`, `NotifyReadIndex`,
`StopWriteIndex`, `NotifyWriteIndex`, by either client or a third thread.
Atomics are sequentially consistent here: what weak atomics do to the bytes is
the subject of `LightBytesQueue`, whose accesses are the same. Of the bytes only
the cells that hold unread data are kept (`full`).

*Deaths.* `Close` is the destructor between two calls, and for a side in
`Crashing` also the death of its process inside one. Two histories say what such
a death leaves undone: `stopped` holds the indices that some stop has
overwritten, and loses one only when a process dies in the window of `commit` in
which it has to put the stop index back; `orphaned` holds the sides that slept
when a process died that had changed their index and not yet notified. With them
the safety properties hold with deaths included, and name the exact exception
each death makes: `StopIsKept` and `NoLostWakeup` allow nothing else.

### StreamRegistry

The operating system's two names, segments and mutexes (numbered in the order
they are made), and per process the stage of its call. `OpenMutex` begins a call;
`Lock`, `OpenShm`, `Extract`, `CreateShm`, `Truncate`, `Initialize`, `Unlock` are
prepare; `Construct` is the queue's constructor after it, which rejects sizes out
of range; `RemoveShm` and `RemoveMutex` are remove. Exceptions become error codes
in `outcome`. `Crash` leaves a locked mutex locked for ever.
A process may die (`Crash`) in a call or between two.
`light_stream_internal.cpp` and `blocking_stream_internal.cpp` are the same but
for the names, so one module stands for both.

### StreamHandles

`smart` holds the `smart_ptr` of each C++ object, `handle` the objects of the C
interface in the order they were made, with the queue object's own index and
`reserved_` and a count of how often each was destroyed; `write_index` is the atomic
write index of each stream. `Construct`, `MoveConstruct`, `MoveAssign` (a swap,
also with itself), `Close`, `Destroy`, `Open` (the new handle is made first and
replaces the old one by assignment from a temporary) and `OpenFails` are the
members of the C++ classes; `Reserve` (`try_reserve` and `wait_reserve`, with
any number of bytes that the buffer has room for), `Commit` and `Stop` are the
forwarded calls with the null pointer test of the C functions. `Stop`, and
`StopByOther` of the stream's reader, are the one store of `stop` to the write
index: the read index and the notifications play no part here, and neither do
`wait` and `is_stopped`, whose answers depend on both indices. How the two stores
of a stop mix with commits is the subject of `BlockingBytesQueue`. The history
variables are the client's side: what it believes each object to be (`view`) and
the span it still has (`span`). The client has one writer of a stream at a time,
and of an object moved from it makes no calls before it opens, assigns, closes
or destroys it.

Because assignment swaps, an object moved from may keep a stream open; nothing
in the library says otherwise, and `ClientsAreRight` shows that it does no harm
to such a client.

### LightStreams

Extends `StreamRegistry` with the contents of the segments (`queue`: two indices
and a buffer) and with the queue object of each client (`object`: its own index
and `reserved_`). Steps of the registry keep their names: `Prepare` are those
that do not touch a header, `InitializeIndices` is `Initialize` with both indices
set to 0, `ConstructObject` is `Construct` with the queue's constructor, which
starts at the stored index, and `LoseObject` is close or a death. A call of
`try_reserve` or `commit` is one step: `LightBytesQueue` has already shown that
the steps inside it and stale loads do no harm, and what is new here is between
the calls. Bytes are numbered over all segments, so that a byte of one segment in
another would show. `sent` and `received` are histories of each segment, `written`
the number of bytes written to all of them. Every
process but the reader's asks for other sizes than the reader does, so the two
sides disagree about the size in every behaviour in which both open.

### SharedReader

Models the program of `tests/integ/blocking/reader.cpp` and
`tests/bench/send_messages/blocking_stream_test.cpp`: a thread reads in a loop
until it finds the stream stopped; the main thread opens the object, starts that
thread, calls `stop`, joins it and lets the destructor run. `at` is the place of
each thread in this program, `loaded` the pointer its current call works with,
`handle` whether the C object still exists. A method loads the pointer
(`LoadPointer`) and then calls a C function, which tests it and makes its steps
on the queue through it; `StopThroughHandle` / `ContinueStop`,
`WaitThroughHandle` / `ContinueWait`, `CommitThroughHandle` / `ContinueCommit`
are the first and the later steps of such a call, taken from
`BlockingBytesQueue`; `LookAtReadIndex` and `LookAtWriteIndex` are the two loads of
`is_stopped`. `DestroyHandle` and `ClearPointer` are the two halves of
`smart_ptr::reset`. The writer's process does whatever `BlockingBytesQueue`
allows, stops included, and may die. The reading thread may use `try_reserve`,
`wait` or `wait_reserve` at every turn, which covers both programs.

`OwnerClosesSpec` is the same with one change: the reading thread itself closes
the object when it is done.

## 3. Runs

| Run | Bounds | Shows |
|---|---|---|
| `light_safety` | `Size = 4`, `MaxBytes = 9` | `TypeOK`, `BytesInOrder`, `NoDataRace`, `ReservationsApart`, `AvailableIsThere`, `AvailableIsReservable`, the refinement `StreamSpec`, the inductive invariant `Inv`, and `EveryByteArrives` |
| `blocking_safety` | `Size = 3`, one stopper, both sides may die anywhere | `TypeOK`, `StopIsKept`, `ReaderSeesStop`, `ReservationsApart`, `ReservationsSound`, `NoLostWakeup`, `NeverBothAsleep`, `WaitingDelivers` |
| `blocking_liveness` | `Size = 3`, one stopper | `StopReleasesWaiters`, `BothSidesProgress` |
| `blocking_empty_after_stop` | `Size = 3`, one stopper | `EmptyAfterStop` is violated |
| `index_width` | `Modulus = 32`, all sizes 2 to 15 | `UnsignedAgrees`, `CountsAreExact` |
| `registry_faults` | 3 processes, one may die, one may remove (once), one size too small, `truncate` may fail | `TypeOK`, `StreamsAreUsable`, `OnlyRemoveSplits` |
| `registry_returns` | 3 processes, one call each, 2 may remove, one may die in its call, one of 3 sizes too small, `truncate` may fail | `CallsSucceed`, `EveryCallReturns` |
| `registry_exists` | 3 processes, 2 may remove | `ShmDoesNotExist` is violated |
| `handles` | 3 objects, 2 streams, 3 handles, `Size = 3` | `TypeOK`, `OneOwner`, `ClientsAreRight`, `SpansAreBacked` |
| `light_streams` | a writer that may die and a reader that may remove once, sizes 1, 2 and 3 asked for (the reader asks for 2), 3 bytes | `StreamsTypeOK`, `UnreadBytesAreThere`, `SpansAreSound`, `EachSegmentIsAStream`, `EverythingArrives` |
| `shared_reader` | `Size = 3`, the writer may stop and die | `SharedTypeOK`, `CallsUseLiveHandles`, `ProgramEnds` |
| `shared_reader_closes` | the same | `StopIsSafe` is violated |

**Why the bounds are enough.** `Size = 4` is the smallest buffer in which a span
can be full, partial, cut by the end of the buffer and followed by free cells;
nine bytes go round it more than twice, so a store may be a whole lap old. The
blocking queue has no count of bytes, so its state space is finite without a
bound and all laps are covered; 3 is the smallest size at which the writer's
expected index differs from both its own and the one before. `Modulus = 32`
reaches the largest index and the largest sum of the arithmetic relative to the
modulus. In the registry two processes and a remove are enough for two mutexes
under one name; a third one opens meanwhile. `MaxRemoves` bounds the calls of
remove, hence the number of segments and mutexes. Three objects are a source, a
target and a bystander that opens what the first two let go; `MaxHandles`
bounds the handles ever made, and three of them are enough for two of one stream
and one of another. Objects and streams are interchangeable, so the run uses
their symmetry; it checks no liveness. In `light_streams` sizes 2 and 3 give segments
with one and two bytes of room, 1 is refused; three bytes fill the larger buffer,
wrap in both and leave some for a second segment after the remove. A third process that only creates or removes adds
nothing that the reader or the writer cannot do in its place between two of
their transfers; three processes are in the runs of the registry alone.

**Deadlock** is checked except where the system may really stop: in
`registry_faults` and `light_streams` (a process that died holding the mutex
blocks all others), in `registry_returns` (each process makes one call), and in
`shared_reader` (the program ends).

**Fairness.** `LiveSpec` of `LightBytesQueue`: each call of the two clients, and
opening, is strongly fair, because the clients may close and open their objects
at any moment, which disables the call again and again; what a client can do
again and again it does at some time. A store becomes visible after a finite
time, so the `try_reserve` that is fair is the one that loads the newest store.
`LiveSpec` of `LightStreams`: the same of the reader's two calls only, nothing of
the writer, the registry or deaths; what remains to be assumed (both clients end
up with one segment, and the reader's calls of open return) is the premise of
`EverythingArrives`, and `registry_returns` shows what it takes. `FairSpec`
(blocking queue): only the steps inside a call are weakly fair, i.e. the
operating system runs every thread that is not asleep; clients need not call
anything. `BothSidesProgress` adds as a premise that there is no stop and that
both clients transfer from some moment on (`TransferStep`). `SharedSpec`: the two
threads of the program run; nothing is assumed of the writer, which may stay
asleep or away for ever. `OnceSpec` (registry): steps inside a call are weakly
fair; one call per process, because no mutex of the library is fair to a process
against others that lock it again and again.

## 4. Where the code differs from what is said of it

- **A commit that races a stop** (`blocking_bytes_queue.h:294`, `602`). `commit`
  exchanges the index and puts the stop index back if it replaced it. Between the
  two the other side sees a queue that is not stopped and `try_reserve` hands out
  bytes, although the comment says that after a stop it "returns empty buffers"
  (`:227`, `:538`). Run `blocking_empty_after_stop`. What does hold is
  `StopIsKept`: the stop index always comes back.
- **The mutex's name is removed too late** (`atomic_stream_internal.cpp:93`), after
  the mutex was unlocked. Two processes can then be inside prepare with two
  mutexes; one of them fails with `failed_to_open` for a stream that exists.
  Run `registry_exists`. What does hold is `StreamsAreUsable`, because
  segments are made with `create_only` and nobody initialises one twice.

- **A stop through a handle that is gone** (`blocking_stream.h:299`, `:336`). The
  class comment (`:240`) promises that all operations are safe with one reader
  and that `stop` may be called from any thread. But `is_stopped` is true after
  the first store of `stop`, and a reading thread that then closes or reopens
  the object destroys the handle under the other thread's second store. Run
  `shared_reader_closes`. The repository's own programs join the reading thread
  first; for them `CallsUseLiveHandles` holds (`shared_reader`).

A further limit that nobody promises otherwise: **two busy sides can outrun a
stop.** Each `commit` undoes the stop of its own index until it has stopped the
queue again; if the other side reserves in that moment and commits in the next,
both can go on for ever with a stop that never takes effect. TLC finds this cycle
when the premise of `ProgramEnds` (the writer stops committing at some time) is
left out.

A limit of the same kind for loops that end on `is_stopped`: **only the reader can
rely on it.** When `wait_reserve` of the reader comes back empty, a stop has reached
the write index, hence the read index before it, and `is_stopped` is true between
the reader's calls from then on (`ReaderSeesStop`). The writer has no such order: it
may see the read index stopped and get an empty buffer; before the stop's second
store a commit of the reader exchanges that index, so that neither is the stop index
until the reader has put it back; and in that moment the writer's `is_stopped` is
false. Its loop calls `wait_reserve` once more.

Two more limits that the models show and nobody promises otherwise: objects made
again from a stopped index start at 0 and may hand out cells that were never
committed (`ReservationsSound` excludes queues used after a restart; the spans
stay apart as long as no process dies inside a call), and after a death inside
`stop` followed by a restart even the two spans can overlap, which is why
`ReservationsApart` excludes `crashed /\ restarted`.

## 5. What is proved

Every safety property that a run checks (invariants, action properties and the two
refinements of `ByteStream`) is also a theorem, for every value of the constants;
`THEOREM` statements are in the modules named `...Proofs`. TLC checked each
inductive invariant on the instance of the run before it was proved. The
assumptions are the named `ASSUME`s of the modules, nothing else.

### The light queue (`LightBytesQueueProofs`)

For every `Size >= 2` and every `MaxBytes`:

| Theorem | Statement |
|---|---|
| `Invariance` | `Spec => []Inv` |
| `TypeCorrect` | `Spec => []TypeOK` |
| `BytesAreInOrder` | `Spec => []BytesInOrder` |
| `RaceFreedom` | `Spec => []NoDataRace` |
| `SpansAreApart` | `Spec => []ReservationsApart` |
| `AvailableTellsTheTruth` | `Spec => []AvailableIsThere` |
| `PromisesAreKept` | `Spec => AvailableIsReservable` |
| `Refinement` | `Spec => StreamSpec`, i.e. the light queue implements `ByteStream` |

*Assumptions*: `SizeAssumption` (`min_size()` is 2, and the constructors throw for
less).

*The inductive invariant.* `BytesInOrder` alone is not inductive: it says nothing
of bytes still in the buffer. `Inv` adds that (`UnreadInPlace`), for which the
distance between the two indices must be known to be `sent - taken` modulo
`Size`. But neither side knows the other's index, only some old store of it, so
the invariant says for every store that can still be seen what it means relative
to the true state (`WriterSees`, `ReaderSees`), that each side reserved no more
than the last one it acquired allows (`CountsOrdered`), and that the newest store
is among them (`NewestVisible`). Each action has a lemma; the wrap of indices is
isolated in lemmas about `Advance`, `Wrap` and the four counts, so that the
steps themselves need only linear arithmetic. The other theorems follow from
`Inv`, the refinement by mapping commits to `Write` and `Read` and every other
step to a stutter.

### The blocking queue (`BlockingBytesQueueProofs`, `BlockingRestartProofs`)

For every `Size >= 2`, every stop index that is not a cell, every set of threads
that stop and whichever sides may die inside their calls:

| Theorem | Statement |
|---|---|
| `QueueInvariance` | `Spec => []QueueInv` |
| `TypeCorrect` | `Spec => []TypeOK` |
| `StopsAreKept` | `Spec => []StopIsKept` |
| `NoWakeupIsLost` | `Spec => []NoLostWakeup` |
| `NobodySleepsForNothing` | `Spec => []NeverBothAsleep` |
| `SpansAreSound` | `Spec => []ReservationsSound` |
| `WaitingDoesDeliver` | `Spec => WaitingDelivers` |
| `SpansStayApart` | `Spec => []ReservationsApart` |
| `ReaderDoesSeeStop` | `Spec => []ReaderSeesStop` |

*Assumptions*: `SizeAssumption` and `StopIndexAssumption` (the stop index is the
largest `shm_stream_size_t`). The proofs do not use what the model assumes of
`Stoppers` and `Crashing`.

*The inductive invariants.* `StopIsKept` and `NoLostWakeup` speak of sides that are
in commit, so `QueueInv` adds that only a side that is at a place of commit is
(`CommitsAreBusy`); an exchange is the only step that takes a stop index away, and
it leaves its thread at the store that puts it back. `SpansFit` keeps a commit from
leaving the buffer, which `TypeOK` needs. `NeverBothAsleep` follows by arithmetic:
with `IndexIsOwn`, two sides that both sleep rightly would make the write index
equal to the read index and to the cell before it. For `ReservationsSound` the
objects are not enough, since the bytes outlive them: `CursorsInv` says that there
are a read and a write cursor, each equal to the index in shared memory unless that
is stopped and to the index in an open object, with the unread bytes between them,
and that no span is longer than the run of cells at its cursor. Only a commit moves
a cursor (`WriterMoves`, `ReaderMoves`), and the run of the other side only grows by
it. `WaitingDelivers` rests on the same cursors: a side that was told of a byte
(`promised`) has a run that is not empty, until it commits itself.

Once an object has been made from a stopped index there are no common cursors any
more: it starts at 0, the other side goes on where it was. That spans still have no
cell in common (`SpansStayApart`) has another reason, `RestartInv`: the read index
is stopped first; from then on the writer is given cells only while the reader is
in commit and has given back its own; and until the write index is stopped, too,
the reader still sees it and keeps behind it (`SpansAreOrdered`). The same
invariant gives `ReaderSeesStop`: a stop that has reached the write index has
stored the read index before (`StopsAreOrdered`), and by `StoppedIndex` the read
index is then the stop index whenever the reader is not in commit.

### The arithmetic (`QueueIndicesWidthProofs`)

For every modulus of at least 5, which is what two bytes of buffer take, hence for
the 2^32 of `shm_stream_size_t`:

| Theorem | Statement |
|---|---|
| `NeverWraps` | `Spec => []UnsignedAgrees` |
| `CountsStayExact` | `Spec => []CountsAreExact` |

*Assumption*: `ModulusAssumption`. The invariant is that indices are below the size
(`IndicesInv`); with `max_size()` half of the largest value, no sum of an index and
a size reaches the modulus (`SizesAreSmall`). For `CountsAreExact` the sets of free
and of unread cells are intervals or two of them, whose cardinalities the library's
theorems give.

### The registry (`StreamRegistryProofs`)

For every set of processes, every set of those who remove or die, all sizes asked
for and any number of removes:

| Theorem | Statement |
|---|---|
| `RegistryInvariant` | `Spec => []RegistryInv` |
| `TypeCorrect` | `Spec => []TypeOK` |
| `StreamsStayUsable` | `Spec => []StreamsAreUsable` |
| `OnlyRemovesSplit` | `Spec => []OnlyRemoveSplits` |
| `CallsDoSucceed` | `Spec => []CallsSucceed` |

*Assumptions*: `SizesAssumption` (sizes are natural numbers, and `min_size()` is
positive and no more than `max_size()`), `MaxRemovesAssumption`, and
`HoldersAssumption` (the two marks for a free mutex and for one of a dead process
are no processes).

*The inductive invariants.* That an open stream stays usable needs no mutual
exclusion, and there is none, since a remove in between gives two processes two
mutexes. `RegistryInv` says instead that a segment belongs to the one process that
made it until its header is done (`MakersAreAlone`, because it was made with
`create_only`), that a header says 0 or the truth (`HeadersAreTrue`), and that a
process has a size only from a header (`ViewsAreTrue`). `CallsSucceed` does need the
mutex: `CallsInv` adds that a process between `Lock` and `Unlock` holds the mutex it
has open (`CallsAreOrderly`), that there is one mutex and one segment as long as
nobody removes (`OneMutex`), and that a header that is not done is hidden behind a
locked mutex, for good when its maker died (`SegmentsAreDone`).

### The handles (`StreamHandlesProofs`)

For every set of objects and of streams, every buffer size and any number of
handles:

| Theorem | Statement |
|---|---|
| `HandlesInvariant` | `Spec => []HandlesInv` |
| `TypeCorrect` | `Spec => []TypeOK` |
| `EachHasOneOwner` | `Spec => []OneOwner` |
| `ClientsStayRight` | `Spec => []ClientsAreRight` |
| `SpansStayBacked` | `Spec => []SpansAreBacked` |

*Assumptions*: `SizeAssumption` and `StreamsAssumption` (the marks for a closed
object and for one moved from are no streams).

*The inductive invariant* counts owners without counting: a pointer is in one
object at most, which exists and has the deleter (`OnePointer`), and a handle was
destroyed once if no object points to it and never otherwise (`DestroyedOnce`);
`OneOwner`, which counts, follows with the library's facts about cardinalities.
`ReservedFits` keeps a commit in the buffer, `OneView` is the client's promise of
one object per stream, which each step of the model keeps.

### Whole streams (`LightStreamsProofs`)

For every set of processes and of sizes, any two clients among the processes, and
any number of removes and of bytes:

| Theorem | Statement |
|---|---|
| `StreamsInvariant` | `StreamsSpec => []StreamsInv` |
| `StreamsTypeCorrect` | `StreamsSpec => []StreamsTypeOK` |
| `UnreadBytesStayThere` | `StreamsSpec => []UnreadBytesAreThere` |
| `SpansStaySound` | `StreamsSpec => []SpansAreSound` |
| `SegmentsAreStreams` | `StreamsSpec => EachSegmentIsAStream`: every segment implements `ByteStream` |
| `StreamsUseRegistry` | `StreamsSpec => Spec`, the specification of `StreamRegistry` |
| `StreamsKeepRegistrySafe` | `StreamsSpec => [](StreamsAreUsable /\ OnlyRemoveSplits /\ CallsSucceed)` |

*Assumptions*: those of `StreamRegistry`, `ClientsAssumption` (the clients are two
of the processes) and `MaxBytesAssumption`.

*The inductive invariant* joins `RegistryInv` to the bytes. A segment in which a
queue can work has its indices below its size (`IndicesFit`) and its unread bytes
between them (`UnreadBytesAreThere`); any other has carried nothing
(`OthersAreEmpty`), so that making its header with indices 0 loses nothing. The
object of an open stream, whoever opened and closed it before, is where the memory
of its segment says and has reserved no more than is there now (`ObjectsFit`); a
commit of the other side only adds to that (`WriterAdvances`, `ReaderAdvances`).
`BytesAreWritten` and `BytesAreRead` are the two facts about a circular buffer the
commits need, over any buffer and any sequence. That there are never more segments
than `MaxRemoves + 1`, so that each has its histories, is counting: a name removed
took a call of remove of its own (`RemovesAreCounted`).

### The shared reader (`SharedReaderProofs`)

For every size, every set of stopping threads and every writer:

| Theorem | Statement |
|---|---|
| `HandlesAreAlive` | `SharedSpec => []CallsUseLiveHandles` |
| `SharedTypeCorrect` | `SharedSpec => []SharedTypeOK` |
| `ProgramUsesQueue` | `SharedSpec => Spec`, the specification of `BlockingBytesQueue` |
| `ProgramKeepsQueueSafe` | `SharedSpec => [](StopIsKept /\ NoLostWakeup /\ NeverBothAsleep)` |

*Assumptions*: those of the blocking queue, `MainAssumption` (the main thread is
one of those that stop) and `StoppersAssumption` (which are none of the two sides).

`CallsUseLiveHandles` is not inductive: it does not say that the thread that loads
the pointer next finds the handle alive. `LifeInv` adds where each thread may be:
a thread has a pointer only inside a call, the reading thread has ended when the
main thread is past the join, and the handle is there up to then. The queue plays
no part, so the steps of `BlockingBytesQueue` are not expanded. The refinement maps
every step of a thread's program to a step of the queue or to a stutter; it needs
`TypeOK` of the queue, which holds by the queue's own lemmas, one step ahead of the
refinement.

### Only model-checked

All liveness properties: `EveryByteArrives`, `StopReleasesWaiters`,
`BothSidesProgress`, `EveryCallReturns`, `EverythingArrives` and `ProgramEnds`
rest on fairness and ENABLED, which are beyond the prover. The three
statements of section 4 do not hold, as TLC shows.

## 6. Not modelled, and why

- Layout on cache lines, formats of names, texts of errors: no behaviour.
- Sizes above `max_size` and views: a span is its first cell and its length.
- Spurious wake-ups of `wait`: the loop around it makes them a stutter.
- Two writers or two readers at once, and commits larger than the reservation:
  excluded by the documented thread safety and by assertions.
- Failures of the mutex and mapping calls other than those named above.
- In `LightStreams`: `available_size`, which changes nothing; moves of the
  objects, which are in `StreamHandles`; more than one writer or reader alive at
  a time, as documented. A death inside `try_reserve` or `commit` is the same as
  one before or after it, since each has one access to shared memory.
- In `SharedReader`: the writer's handle, whose life is the mirror image, and the
  registry (the object is opened once).
- The ping-pong server of the benchmarks, which copies from one stream to another
  (its inner loop does not look at `is_stopped`, see the hazard at
  `tests/bench/ping_pong/server/blocking_stream_server.cpp:64`), and servers over
  other transports; build scripts.

## 7. Plan

1. *Blocking queue as a refinement* of `ByteStream`: with the bytes kept in the
   buffer, as long as no object is made from a stopped index, stops and deaths
   included; its cursors (`CursorsInv`) already say where the unread bytes are.
2. *Blocking streams by name*, as `LightStreams` has the light ones: what a stop
   leaves in a segment for those who open the name later.
