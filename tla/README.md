# A model of Divested

Divested lets a Linux audio host use Windows VST 2 plugins. A native library (the
*client*, `src/src/client`) poses as the plugin; a Windows program (the *server*,
`src/src/server`, run by Wine) loads the real one. This directory holds TLA+
modules that describe how the two talk, TLC configurations that check them on
small instances, and proofs that TLAPS checks for all instances.

## 1. The system

### Components

| Component | State | Operations | Hard parts | Modelled in |
|---|---|---|---|---|
| Shared-memory layout (`common/msg/io/*`, `payload/request.hpp`) | a cursor (`io::buf`) per direction, the bytes | `write_request`, `read_request`, `write_response`, `read_response` per payload | four hand-written descriptions of one layout; alignment; the callee follows lengths and types it finds in memory | `ShmLayout`, `ShmTransfer` |
| Handler pair (`common/msg/{sender,receiver,processor}.hpp`, `handler/shm.hpp`, `client_t`, `server_t`) | `_shm_offset`, pipes, memory, the C++ call stack | `send_message`, `receive_message`, `process_message`, `send_return`, `return_effect`, `wait_for_effect`, `run` | calls and callbacks nest at will over one memory and two pipes; end of file at any point; exceptions that skip `shm_pop` | `HandlerPair`, `HandlerPairUnwind` |
| Shared-memory region (`shm_t`) | a mapping of 1 MiB and its name | create, open, unlink | no bound is checked; creation may fail half way | `HandlerPairRegion`, `Handlers` |
| Message tables (`base.hpp`, `type.hpp`, `dispatchers.hpp`, `io/msg.hpp`, `effect/`, `master/`, `general/messages.hpp`) | none of their own; the bytes in the pipes | `handle`, `send_dispatcher`, `throw_unknown_opcode`, reading and writing of a message's fields | a message does not say how long it is or what it holds; opcodes that are missing | `MessageTables`, `Messages` |
| Life cycle (`plugin_t`, `callbacks.cpp`, `server/main.cpp`, `server_t.cpp`, `shm.cpp`) | `tid_to_client`, files in `/tmp` and `/dev/shm`, threads and processes | `VSTPluginMain`, `get_client`, `instantiate_handler`, effClose | blocking opens of FIFOs, unlinking, first calls at the same time, refusals of the operating system, shutdown | `Handlers` (partly, see 6) |
| Server registry (`server/shared_t`) | `tid_to_server` | `add_server`, `remove_server`, `get_server` | thread ids used again; exceptions that skip `remove_server`; a lookup that may write, under a shared lock | `Routing`; its lifetime in `Handlers` |
| Chunks (`client/shared_t`) | `allocated_chunks` | `allocate_chunk`, `clear_chunks`, the destructor | two locks around a vector, used by nested calls and by several threads | `Chunks` |
| Host's entry points (`callbacks.cpp`, `client/main.cpp`) | none | the dispatcher, process and parameter functions, `VSTPluginMain` | what they do besides forwarding | `HandlerPair`, `Handlers`, `Messages`, `Chunks` (partly) |
| Configuration, paths, logging, printing, tools, tests | none | | | not modelled |

Each thread of the host that calls the plugin owns one `client_t`; a thread of
the Windows process runs the matching `server_t`. They share two FIFOs (requests
and returns travel both ways) and one shared-memory region. A call writes its
arguments at the handler's `_shm_offset`, adds their size to the offset
(`shm_push`), sends a message and reads from the pipe until a return comes;
requests that come before it are calls back, which are processed in between and
do the same. The first pair, index 0, creates the effect (the host calls made by
`VSTPluginMain` go through it) and afterwards only asks for further handlers. A
plugin that calls the host does not say on which handler's behalf: the Windows
process looks the calling thread's id up in `tid_to_server`.

### What makes each part correct

* Layout: what one side writes is where the other looks; all four cursors move
  equally far.
* Pair: both ends have the same idea of the open calls and of the offset of the
  next one, without ever comparing; nested calls do not disturb outer ones; a
  call comes back or fails; after an exception the two still meet.
* Region: nothing lies beyond its end.
* Messages: the function that is called is the one that was meant, with the fields
  that were passed; a message is read to its end and no further.
* Life cycle: every thread has a handler of its own; nobody waits for ever for a
  rendezvous; no file stays behind; shutdown ends everything in order.
* Registry: a callback goes out through the handler of the call it belongs to; who changes
  the map is alone in it.
* Chunks: memory is there while it is copied to, and gone when the plugin is.

`PROJECT.json` lists the hazards at their lines under `hazards`, with the
properties that cover each, or why none does.

## 2. Modules

| Module | What it is |
|---|---|
| `ShmLayout` | The payloads' four cursors as sequences of buffer operations (`Write`, `Read`, `Skip`, `MapTo` of a field, with its size and alignment) and where they lead (`FieldAt`, `Total`). Pure definitions. |
| `ShmTransfer` | One call, one buffer operation per step, over bytes that know which field they belong to. |
| `NestedCalls` | The abstract specification: one stack of calls, as if caller and callee were one thread. `HandlerPair` and `Messages` are both shown to implement it. |
| `HandlerPair` | A pair: two ends, two pipes, the memory, deaths. Uses `ShmLayout` for sizes and places. |
| `HandlerPairUnwind` | The same with a host that catches exceptions: extends `HandlerPair` by one action. States the fairness and the liveness properties. |
| `HandlerPairRegion` | The same with an end to the memory, and what payloads have to keep to so that nothing passes it (`CallsFit`). |
| `MessageTables` | The tables of the three kinds of messages: opcodes, traits, payloads. Pure definitions. |
| `Messages` | A pair again, seen from its pipes: which fields a message is written with, what is read, which function is called. |
| `Handlers` | The life cycle of all handlers of a plugin instance. A call is one step here. |
| `Routing` | `tid_to_server` and the threads that come and go over a few thread ids. |
| `Chunks` | `allocated_chunks` and the calls of the host that touch it. |
| `...MC` | Payloads, messages and threads for TLC. |
| `ShmLayoutProofs` | The cursors of strings at any offset, and of payloads that keep to multiples of 8; lemmas about sequences that the others share. |
| `ShmTransferProofs` | That these cursors carry a request and its answer, field by field. |
| `HandlerPairProofs`, `HandlerPairUnwindProofs` | The two stacks and offsets; on top of them the memory, the refinement of `NestedCalls` and the region. Then the pair whose host catches exceptions. |
| `MessagesProofs`, `HandlersProofs`, `RoutingProofs`, `ChunksProofs` | Theorems about the module of that name. |

How they fit together: `ShmLayout` says where the bytes of a call are, `HandlerPair`
moves whole calls with the sizes and places of `ShmLayout`, `HandlerPairRegionMC`
takes the sizes from `MessageTables`, `Messages` takes the layout of fields in the
pipe from `ShmLayout` and its opcodes from `MessageTables`. `Handlers`, `Routing`
and `Chunks` treat a call as a step or two and leave its inside to the others;
`Routing` leaves the opening and closing of handlers to `Handlers`.

Actions carry the names of the functions where there is one.

* In `HandlerPair` `Send` is `send_message` until it waits, `Receive` is
  `process_message` until the function is called, `Decide` the function's work,
  `Reply` is `send_return_dispatcher`, `Return` the rest of `send_message`. A stack
  entry is one activation of `send_message` (`call`) or `process_message` (`proc`) and
  remembers the `shm_offset` and size in that function's local variables. `Take` is
  the read of `receive_message`: it empties the pipe and uses the first packet only.
* `Unwind` of `HandlerPairUnwind` is an exception in a callback that the host's own
  code catches, around its outermost call: all of the client's frames are gone, its
  `_shm_offset` stays, and the server still waits for its callback to return. `left`
  keeps the frames for the proofs; no action reads it.
* In `Messages` a packet is a length and the fields at their byte positions. `Send`
  lays the fields down by the sender's opcode, `Receive` picks them up by the opcode
  it finds, and comes to `lost` where a `switch` has only its default branch;
  `ThrowUnknown` is an opcode the sender's own table lacks.
* In `Handlers`, `pc[t]` says where in `get_client`, `create_client` or `VSTPluginMain`
  a host thread is; `srv` lists the threads of the Windows process with their place
  in `server_t::server_t` and `start_thread`. `ends` holds the ends of FIFOs
  that somebody has come to open; an open returns once the other end is in it.
  `Create` and the server's `OpenShm` are one step each: `mkfifo` and
  `shm_open` of one handler are not interleaved with anything that looks at the
  same names, because the name is told to the server afterwards. The answer to
  `instantiate_handler` precedes the new thread's opens or not, as scheduling has it.
  `CreateFails`, `SpawnFails` and `InstantiateFails` are refusals of `mmap`,
  `posix_spawn` and `CreateThread`; `refused` remembers that there was one.
* In `Routing`, `at[k]` is where the thread of handler *k* is in `start_thread` or
  `WinMain`, `tid[k]` its id, `routes[k]` the handlers its open callbacks went out
  through. `StartThread` takes any id no living thread has. The three functions of the
  registry are two steps each, the taking of `tid_to_server_mutex` (`LockToAdd`,
  `LockToErase`, and `GetServer`, which shares it) and what happens behind it
  (`AddServer`, `RemoveServer`, `AudioMaster`). `Throw` ends a thread
  without `remove_server`. `own` has the threads the plugin has started
  itself: `OwnGetServer` and `OwnAudioMaster` are their lookup, which inserts a null
  pointer for an unknown id, and `Crash` is the use of what they got, null or a
  dead `server_t`: the end of the process.
* In `Chunks`, `calls[t]` are the open dispatcher calls of a host thread. `Allocate`,
  `Lock`, `PushBack`, `BeginCopy` and `ReadResponse` are the parts of
  `allocate_chunk` and `chunk_out::read_response` between which another thread may run:
  the lock is held from `Lock` to `PushBack`, the copy lasts from `BeginCopy` to
  `ReadResponse`. `Measure`, `LockToClear` and `ClearChunks` are those of `clear_chunks`:
  its `size()` stands before its lock.

Data is abstracted to what the properties tell apart: a payload is its kind and
sizes. In `HandlerPair` all bytes of a request carry one value and `None` is any
mixture; `ShmTransfer` and `Messages` tell the fields apart. Opcodes, types and
traits keep their names; their numbers are the same enumerations on both sides.

The definitions named `..._bug` are single mistakes (an offset not pushed, a field
skipped with the wrong size, a file not unlinked, a lock left out); replacing the
definition of the same name by one of them makes a property fail. The pairs are
listed in `PROJECT.json` under `mutants`.

## 3. Runs

| Run (module) | Checks | Shows |
|---|---|---|
| `HandlerPairAligned` (`HandlerPairRegionMC`) | `TypeOK PairInv ArgumentsIntact OutputsIntact FitsRegion PointerMapped ImplementsNestedCalls` | Payloads with the sizes of the tables, and buffers and a chunk that fill the region to its last byte, nested to depth 3, either process dying at any step. |
| `HandlerPairStrings` (`HandlerPairUnwindMC`) | `RequestsMeet ArgumentsIntact OutputsIntact CallsComplete ServerFollows` | Strings of odd lengths both ways, deaths, and an exception that the host catches: what comes after it still meets and damages nothing, and nobody waits for ever. |
| `HandlerPairMixed` (`HandlerPairMC`) | `PointerMapped` **fails** | see section 5 |
| `ShmTransfer` (`ShmTransferMC`) | `TypeOK RequestArrives CursorsMeet ResultArrives` | Every payload kind from multiples of 8, strings and audio from every offset 0..9. |
| `ShmTransferSysex` (`ShmTransferMC`) | `RequestArrives` **fails** | see section 5 |
| `Messages` (`MessagesMC`) | `TypeOK CalleeUnderstands ReadsMeetWrites ImplementsNestedCalls` | One message of every kind each way, one inside the other. |
| `Handlers` (`HandlersMC`) | `TypeOK Paired NothingLeftBehind NoExceptions ClientsArrive ServerEnds` | Three host threads, all interleavings of creation, refusals, calls, effClose and deaths; the rendezvous completes and the server ends. |
| `HandlersOverlap` (`HandlersMC`) | `PrimaryExclusive` **fails** | see section 5 |
| `HandlersClose` (`HandlersMC`) | `HandlersClosedFirst` **fails** | see section 5 |
| `Chunks` (`ChunksMC`) | `TypeOK VectorExclusive NothingLeaks KeptUntilCopied` | Two host threads whose effGetChunk, effMainsChanged and effClose nest and may throw. |
| `ChunksOvertaken` (`ChunksMC`) | `CopyTargetLive` **fails** | see section 5 |
| `Routing` (`RoutingMC`) | `TypeOK CallbacksRouted ChangesAlone` | Four handlers and the plugin's own threads over three thread ids, ended by returns and by exceptions. |

The properties, in words:

* `PairInv` - at most one packet is under way, and never while code runs; entry *i*
  of both stacks is the same call at the same offset with the same size; the ends
  alternate. `ArgumentsIntact`, `OutputsIntact` - what a callee's pointers point at
  stays what the caller, or the callee itself, put there through any nesting.
  `ImplementsNestedCalls` - the pair refines `NestedCalls`: arguments and results
  arrive unchanged and calls return in reverse order.
* `FitsRegion` - nothing is written or mapped beyond the end of the region.
  `PointerMapped` - the pointer the callee is given for a chunk or a rectangle is the
  one that was written; it holds as long as every size is a multiple of 8.
* `RequestsMeet` - a request is mapped where it was written, also after the client
  has forgotten the calls the server still has open: the offset it never popped
  keeps it above their arguments. `PairInv` itself does not survive an exception.
* `CallsComplete` - a call comes back, or its caller learns of the other's end; only
  a callback the host has left by an exception stays open. `ServerFollows` - the
  server's end goes when the client's does.
* `RequestArrives`, `CursorsMeet`, `ResultArrives` - the four cursors of a payload
  describe one layout.
* `CalleeUnderstands` - both programs' tables agree; no message of the tables reaches
  a default branch. `ReadsMeetWrites` - a message is read exactly to its end.
  `ImplementsNestedCalls` of `Messages` - every field a message has arrives, others
  are defaults, and its result comes back, or 0 if it has none.
* `Paired` - a client is one thread's and one server thread is behind it.
  `NothingLeftBehind` - the files of a handler in use have no names. `NoExceptions` -
  nothing throws while both processes live and nothing is refused. `ClientsArrive`,
  `ServerEnds` - creation and shutdown come to an end.
* `CallbacksRouted` - a callback goes out through the handler whose thread the plugin
  was called on; or, when that thread's id belonged to one ended by an exception,
  through that one's dead server. Never through another handler in use, whose ends
  would lose step; nor is a handler in use given to a thread of the plugin's own.
  `ChangesAlone` - while a handler's thread changes the map nobody else is in it: writers
  have locked everybody out, and a handler's lookup finds its entry and does not insert.
  It does not say so of the plugin's own threads, which do insert behind the shared lock.
* `VectorExclusive`, `NothingLeaks` - one writer of the vector; no chunk
  outlives the plugin. `KeptUntilCopied` - from its allocation until the copy is done
  a chunk is freed by nothing but another thread's `clear_chunks`; `CopyTargetLive` -
  by nothing at all while the copy runs, which is so with one thread only.

### Bounds

* `MaxDepth = 3` in `HandlerPair`: call, callback, call. The argument about two adjacent
  frames (one starts where the other ends) meets all its cases with a caller's frame, a
  callee's frame and one more; the proofs cover every depth. `MaxDepth = 2` in
  `Messages`, a call and a callback: an answer is read by what its own call asked
  for, so one call around another shows all there is; the proofs cover every depth
  here too.
* `MaxUnwinds = 1`: after one exception the client's stack is empty again below a
  server that waits, and the next could only repeat that at a higher offset.
* `Data` has two values in `HandlerPairAligned`, interchangeable by symmetry, so that an
  argument overwritten by another can be told from it; one value where liveness is
  checked (`None`, any mixture, still differs from it) and in the violation runs.
* Payload sizes in `ShmTransferMC` surround the alignments 4 and 8 (0, 1, 7, 8, 9,
  24), with up to three events and two channels of up to three samples. The
  offsets 0, 8, 24, or 0..9, start a transfer: what matters is the offset modulo 8.
* `HandlerPairRegionMC` has the region of 1 MiB and the sizes of the VST SDK
  (`kVstMaxProgNameLen` and so on). Audio, a
  callback's events in it and a chunk (`LargestChunk`) inside that fill it exactly;
  audio, events and audio again nearly do. One byte
  more of chunk, or an offset that is not popped, and `FitsRegion` fails. The run
  also evaluates `StartsFit`: these payloads satisfy `CallsFit`, the hypothesis of the
  theorem about the region.
* `Messages`: a message is its table and its traits; two opcodes of a table with the same
  traits travel alike, so `EachKind` takes one of each set of traits and every
  message that is a type of its own. `OutsideTheTables` are opcodes that stand in a
  comment of the tables. Requests have distinct values in all fields; a result is
  something or null.
* `Handlers`: three host threads, the one that loads the plugin and two more, so that one
  may create a client while another is in a call. No symmetry, as liveness is checked.
* `Routing`: four handlers over three ids, one of them the main thread's: two living
  handlers beside it and an id that is used again while another lives. An own thread takes
  any id that is free, so that two of them, or one and a handler's thread, look up together.
* `Chunks`: two threads, three chunks, depth 3: a chunk in the vector, one in each
  thread's hands, and a clear in a callback around or inside an effGetChunk. The
  violation needs two threads, one chunk and depth 1.

### Fairness

* `FairUnwindSpec` of `HandlerPairUnwind`: weak fairness of reads that can return
  (`Receive`, `Return`, `ReadEof`, `WaitForEffect`, `Stop`) - a blocked `read` wakes up -
  and of `ReturnEffect`. Strong fairness of `Decide` and `Reply` together at each depth:
  host and plugin code that is called returns in the end, however often it calls back.
  The code relies on it: there is no time limit anywhere. No fairness makes anybody
  call, throw or die.
* `FairSpec` of `Handlers`: weak fairness for every host thread inside `get_client`,
  effClose or a failing read, for every server thread and for the end of the process.
  The host is not obliged to call or to close, nor the operating system to refuse.

## 4. Proofs

All theorems hold for every value of the constants that satisfies the named
assumptions of the modules and the hypotheses the theorem states itself; there are no
others.

### Layout of a call

`ShmLayoutProofs` proves that the four cursors of a payload agree (`Agreed`): the
callee's ends where the caller's did; the request, the outputs and the answer lie where
they may; what the callee reads is what the caller wrote; and what the caller reads back
is what the callee wrote, or stored through its pointer.

* `StringsAgree`: of strings, and of calls without payload, of any length at any offset.
* `AlignedAgree`: at multiples of 8, of payloads whose parts end on multiples of 8:
  structures, chunks, rectangles, midi and system exclusive events in any number and
  order, buffers of any number of channels and samples. The next call then starts at a
  multiple of 8, and the pointer of a chunk or rectangle is mapped where it was written.

A cursor is a function defined by recursion over as many steps as the payload has
parts. That the function exists and obeys its equation (`CursorExists`, `CursorRuns`),
that the cursors of a concatenation continue each other (`CursorOfConcat`), and that
lists with one block of steps per event or channel move alike (`FlattenedTotal`) is
shown by way of the least number for which it fails (`LeastNat`), which takes the place
of the induction theorems that have an operator for a parameter.

Payloads outside both sets - an odd system exclusive message before another event, a
chunk below a string of odd length - are those of section 5, where the cursors do part.

`ShmTransferProofs` proves all that the run of `ShmTransfer` checks: `TransferTyped`
(`[]TypeOK`), `RequestsArrive`, `PushesMeet` (`[]CursorsMeet`) and `ResultsArrive`, of
`Transfers \subseteq Layouts`: the same strings at every offset and the same payloads at
multiples of 8, each transfer with its own sizes. The proof has two halves.

* An invariant of any transfer whose payload is `Described`, that is, if what its four
  cursors do - to which field, from where, how far: their `Marks` - fits together: the
  cursors do only what their pass may; what the callee looks at was written; a length is
  read where it was written; outputs are mapped where they are read back, and the answer
  does not lie on them; the array that the callee fills with its own pointers is mapped
  before what they point to, over bytes the caller has skipped. `IInv` says which marks
  are behind each cursor (`Walked`), and that what these must leave behind is there:
  the pointers taken (`Mapped`), the request until something of the answer lies on it
  (`RequestKept`), the stored pointers (`PointersKept`), the outputs and the answer
  (`AnswerKept`), and what the caller has read of it (`ResultsRead`). The properties of
  the run alone speak of the ends of the passes only, and say nothing in between.
* That every payload of `Layouts` is `Described`. For one or two steps this is read off
  the cursors. For events and channels, as many as there are, the marks of the blocks
  together are those of each block from where it starts (`MarksOfBlocks`), and blocks
  that are equally long for both sides start in the same places (`PlacesEqual`). An
  event's pointer goes to VstEvents::events, before the first event; a channel's to the
  array that both sides have skipped.

### Handler pair

`HandlerPairProofs` proves `TypeCorrect` (`[]TypeOK`) and `PairInvHolds` (`[]PairInv`)
under the hypothesis `LayoutsAgree(R)`: at every offset in `R`, which contains 0,
the caller's and the callee's cursor of each message move equally far, to an offset
in `R` again. `PlacesAgree(R)`, the other half of `Agreed`, gives `ArgumentsStayIntact`, `OutputsStayIntact` and
`PairImplementsNestedCalls`.

The hypotheses are what the code takes for granted of its payloads. `RegularPayloads` -
all messages are strings, or all end on multiples of 8 - satisfies both by the theorems
of `ShmLayoutProofs`, so `StringsStayInLockstep`, `AlignedStayInLockstep`,
`RegularTypes`, `RegularArgumentsIntact`, `RegularOutputsIntact`, `RegularNestedCalls` and
`RegularCallsFitRegion` assume nothing of cursors or places. For aligned payloads
`PointersStayMapped` has `[]PointerMapped`; that it takes them is what
`HandlerPairMixed` shows.

Why invariants are needed beyond the properties:

* Even `offset \in Nat` holds only because each `shm_pop` takes off what its own
  `shm_push` added, which requires each frame to start where the one below ends
  (`Stacked`) and to be as long as its request (`Sized`). That the *server's* offset
  agrees with the client's needs `Agree`; and that a return answers the call that waits
  for it needs `Turn`: whose turn it is, read off `pc`, pipes and stack lengths. `IInv`
  is the conjunction of these.
* `MemInv`: the memory holds no two values at one place (`Sound`); behind every open
  function its arguments and outputs (`Safe`); at the places of a request under way
  what was asked, and at those of a result under way what was answered. It survives a
  step because whatever is written begins at or above the end of the frames below.
* `BaseInv` says which side makes the outermost call. With it every action maps to one
  of `NestedCalls` or to none: a death, a read that meets the end of file and an answer
  that nobody is left to read change nothing of what is promised.
* `RegionInv`: frame *n* fits, and ends where a call of depth *n* + 1 may start. `CallsFit`
  names those offsets, `starts[n]`, so that the theorem needs no bound on what was called
  before. `CallsFitRegion` and `RegularCallsFitRegion` are about payloads of which the
  programs keep to it; no code compares a size with that of the region.

`HandlerPairUnwindProofs` proves `RequestsKeepMeeting` (`[]RequestsMeet`) for any number
of exceptions, under `LayoutsAgree(R)`, and `RegularRequestsKeepMeeting` under
`RegularPayloads`. An exception destroys `Agree`, on which `IInv` rests: the client's
stack is empty and the server's is not. But the client has not popped what the frames it
left had pushed, so its *offset* is still that of the old stack, and the calls the host
makes next begin above the server's. So the proof keeps the frames that were left in a
history variable, `left`, which no action reads, and tells `IInv` of the stack `Whole`, on
which they still lie below the client's others (`INSTANCE HandlerPairProofs WITH stack <-
Whole`). Each step of the pair is one of a pair that has lost nothing (`WholeNext`), an
exception is none, so the steps of `HandlerPairProofs` serve for both (`Together`). Only
effClose made with calls lost is not one of its steps: the server takes its return for
the answer of the callback it waits for. From then on the
client is closed and nothing is sent to it, so no request is under way towards it, and
the server has got its last message (`ClientClosed`).

`ArgumentsKeptThroughExceptions`, `OutputsKeptThroughExceptions` and
`RegularMemoryThroughExceptions` say that `ArgumentsIntact` and `OutputsIntact` survive
exceptions too. While the client is up this is `MemInv` of `Whole`. After effClose with
calls lost the server goes on alone over its own frames (`Alone`): it fails at its next
call or reply, and until then what it stores and what it pops lies above the frames below.

### Messages

`MessagesProofs` proves `TypesStayCorrect`, `CalleesUnderstand`,
`EveryReadMeetsItsWrite` and `MessagesImplementNestedCalls` for all bodies and
results, any choice of messages from the tables and any depth. Bodies are functions
into the naturals (`BodiesAssumption`), which stand for the bit patterns of integers
and floats.

The invariant: frames alternate between calling and called and the client makes the
outermost call (`Well`); two frames of one call have one opcode, and the called one's
body is the caller's with the fields its message lacks set to 0 (`Matched`); and `Turn`: a side runs
with both pipes empty, or waits while its request is in the pipe, exactly as written
(`Asked`), or while an answer to it is (`Answered`). That a reader finds what was
written has two parts. The fields of one message end where the next begins, so that a
field's place names it (`ValueFound`). And the beginning of a message can be read
before it is known which message it is: `type` lies at the same place in all of them,
`opcode` in all that have one, and `present` tells how an answer goes on
(`RequestRead`, `AnswerUnderstood`). The tables themselves are facts of
`MessageTables`: the opcodes of one side are those the other's dispatcher handles.

### Life cycle

`HandlersProofs` proves `TypesCorrect` (`[]TypeOK`) without condition, and
`HandlersPaired`, `NoNamesLeft` and `NothingThrows` (`[]Paired`,
`[]NothingLeftBehind`, `[]NoExceptions`) for any number of host threads and handlers
under `FirstCallsOverlap = FALSE`. That condition cannot be dropped: `HandlersOverlap`
shows what the unnamed locks let happen without it.

A client's index is the number of clients before it, counted by one thread and told to
another process that opens files by it. So the invariant has to say who counts
(`OneCreates`), that nobody else has counted meanwhile (`Numbered`), which names exist at
each place of the creating thread (`FifosNamed`, `MemoryNamed`, `NamesOwned`), which
server threads there are and for whom (`ServerThreads`, `OneAsks`), how far each has come
when the other has (`Rendezvous`), and in which order things end (`ClosedInOrder`). All
this is of a living host; when it is dead no thread of it takes a step, and what
remains is `NothingLeftBehind` and that no host thread has failed before
the server did.

### Registry

`RoutingProofs` proves `RoutingTypes` (`[]TypeOK`: the map has a null pointer only for a
thread of the plugin's own), `CallbacksFindTheirHandler` (`[]CallbacksRouted`) and
`HandlersChangeAlone` (`[]ChangesAlone`) for any set of ids and any number of handlers,
callbacks and own threads. `CallbacksRouted` speaks of callbacks
that are open; where the next one goes is decided by the map. So the invariant adds
what the map may hold: `IdsDiffer` - two threads have one id only if the older has
ended, and nobody gets the main thread's; `OwnIdsDiffer` - the same of the plugin's own
threads; `EntriesKept` - a thread that serves calls has
an entry under its id, and an entry that is not null is that of a thread in service, of
one an exception ended, or of the main thread at the end; `CallbacksOpen`; and
`LockHeld` - behind an exclusive lock nobody else is in the map. `ChangesAlone` needs both
halves: the lock for `add_server` and `remove_server`, `EntriesKept` for `get_server`,
whose lock would not keep other lookups out.

### Chunks

`ChunksProofs` proves `ChunksTypes`, `VectorChangesAlone`, `NoChunkLeaks` and
`ChunksKeptUntilCopied` (`Spec => KeptUntilCopied`) for any number of threads, chunks and
nested calls, and `OneThreadCopiesToLive` (`[]CopyTargetLive`) if there is one thread. With
two it is false: `ChunksOvertaken` is the counterexample. That nothing
leaks needs to know where every chunk is: `Owned` - it is in the vector, or in the
hands of exactly one thread that will put it there, for a call that holds a chunk
cannot throw. That needs `Shape`: only the innermost call of a thread is past its
answer, so `Throw`, which drops all calls of a thread, drops no chunk, and effClose
finds no other call; and a thread that clears has no chunk in its hands, which is why
only another thread's clear can take one away. `Exclusive` is the mutex; `Finished`
that nothing happens after the deletion. That hosts make effClose their last call, from no callback and with no
other call open, is the VST specification's rule, and the guard of `Dispatch`.

### Left to TLC

* Liveness: `CallsComplete`, `ServerFollows`, `ClientsArrive`, `ServerEnds`. TLAPS has no
  rules for the strong fairness and the ENABLED they rest on.
* Of `ShmTransfer`, transfers outside `Layouts` that its run covers: audio at offsets that
  are no multiple of 8, or of an odd number of 4-byte samples, and a list whose last
  system exclusive message has any length.

## 5. What the code does otherwise than it says

* **`PointerMapped`** (`HandlerPairMixed`): `chunk_out` and `rect_out` write a null
  pointer at the raw offset and map it at the next multiple of 8
  (`request.hpp:243`/`250`, `293`/`300`): the comment says the mapped pointer is the
  one in memory. It is, unless a string of another length is under way: the
  plugin's pointer slot then holds other bytes.
* **`RequestArrives`** (`ShmTransferSysex`): events are written back to back and
  looked for at aligned places; a 6-byte system exclusive message followed by a note
  makes the callee read a wrong type. The same happens to a list of midi events
  that starts at an odd offset, as in a callback from `processReplacing` with an odd
  number of samples in an odd number of channels.
* **`PrimaryExclusive`** (`HandlersOverlap`): the locks of `get_client`
  (`plugin_t.cpp:101`) are unnamed temporaries and protect nothing. All other
  runs of `Handlers` therefore let first calls follow each other
  (`FirstCallsOverlap = FALSE`), and the properties hold.
* **`HandlersClosedFirst`** (`HandlersClose`): effClose sends returns without waiting,
  so a server thread may still need the `shared_t` that the main thread destroys.
* **`CopyTargetLive`** (`ChunksOvertaken`): "now, allocate a chunk of memory and copy
  what's in shm to it" (`request.hpp:263`); `allocate_chunk`, which its comment calls
  thread-safe (`shared_t.hpp:19`), unlocks before the copy begins, and another thread's
  effMainsChanged (`callbacks.cpp:35-37`) frees the chunk in between or during the copy.
  `KeptUntilCopied` shows that it is the only way, `OneThreadCopiesToLive` that a host
  with one thread is safe.

Without a run of their own, as no property would say more than the line does:

* a chunk is copied to the region without a look at its size (`request.hpp:258`,
  `shm.hpp:7`): one of more than 1 MiB goes past the end. `FitsRegion` is about payloads
  that fit;
* `chunk_out::read_response` says "and now point the pointer that ptr points to to it"
  (`request.hpp:268`) and assigns the address of a local variable to its own parameter:
  the host's pointer stays what it was, and the chunk waits for its deletion unseen;
* `clear_chunks`, "Thread-safe." (`shared_t.hpp:22`), reads the size of the vector before
  it locks (`shared_t.cpp:13`), for its trace message: a data race (`Measure`);
* a message without `plain_ret` loses its function's result (`io/msg.hpp:68`): for
  effGetVendorString and effGetProductString the host gets 0 whatever the plugin said.
  `Sendable` says so.

## 6. Not modelled, and the plan

Not modelled, and why:

* configuration and paths, logging, printing, tools, tests: sequential reading of
  files and building of strings, without state that lasts; effVendorSpecific,
  which the client answers with 0 at once;
* a host that catches an exception in the middle, in a callback that lies between two open
  calls of the plugin: its return answers the wrong call, and the rest is undefined;
* a failing `mkfifo`: nothing looks at its result, so that an index used again after a
  refusal finds the old FIFO; `Handlers` knows a FIFO by its name and would have to
  tell the two apart. `NoExceptions` and `Paired` cover the refusals that throw;
* `read` returning -1 (a signal): the buffer then holds the last message, and what
  follows is read from it;
* descriptors that other children of the host inherit, which delay the end of file that
  `ServerFollows` and `ServerEnds` rely on: other plugins are outside the system;
* host threads that end and whose id is used again: the new thread takes over the
  client of one that had returned, and is the same thread to the model;
* what follows a call that a plugin makes from a thread of its own: `Routing` has its
  lookup and ends with the use of the result, which is a death in `HandlerPair` and
  `Handlers`;
* how long the host reads a chunk after effGetChunk has returned: the code cannot know;
* effClose while other calls are open, which the VST specification forbids the host.

Left of the plan, all of it proof:

* `ShmTransferProofs`, for audio buffers at every offset and a last system exclusive
  message of any length: `Described` does not ask for multiples of 8, only the lemmas
  about blocks do.

## 7. Running

    tlc -config HandlerPairAligned.cfg HandlerPairRegionMC
    tlc -config HandlerPairStrings.cfg HandlerPairUnwindMC
    tlapm ChunksProofs.tla

`PROJECT.json` gives the module of each configuration and maps every definition to the
lines it models.
