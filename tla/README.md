# A TLA+ model of wsac

wsac is a Windows anti-cheat in two processes that matter here: a DLL
(`wsac-dll`, C++) loaded into the protected program, and a service
(`wsac-service`, C#). They talk over the named pipe `WsACPipe`. This directory
holds TLA+ specifications of that core, TLC configurations that check them, and
proofs checked by TLAPS.

## 1. The system

| Part | State it keeps | Operations |
| --- | --- | --- |
| DLL entry points and object host (`DllMain.cpp`, `Host.*`) | registry of objects by type, a stop source, `_disposed` | `Enable`, `Disable`, `Add`, `Get`, destructor |
| DLL worker (`SessionService.cpp`) | one jthread | start in the constructor, join in the destructor |
| DLL session (`Session.cpp`, `State.*`) | `Layer1State.Base`: NONE or READY | read a frame; handle checkpoint, regular, test, unknown; answer a broken header |
| DLL frame reader and writer (`FrameReader.cpp`, `FrameWriter.cpp`, `PacketWriter.cpp`) | none beyond the pipe | search the preamble, read a header, read data; write frames |
| Pipe transfer, both sides (`PipeReader`, `PipeWriter`, `PipeStreamExtension`) | `Available` of the service's reader | poll, read, skip, write |
| Service session (`FrameSession.cs`, handlers) | `FrameSessionState`: None or Ready; the preamble window | read a frame; handle; skip the rest; request a checkpoint |
| Pipe service (`PipeSessionService.cs`, `Program.cs`) | four threads, a pipe instance each, a cancellation source | `StartAsync`, `RunThread`, `StopAsync` |
| Frame header (`FrameHeader.cpp`, `ChaCha.cpp`, `Random.cpp`) | a crypto provider and key per `State`, one static null header | construct (nonce, signature), `Validate` |
| Test program (`wsac-test/Main.cpp`) | none | load, `Enable`, wait for a 0, `Disable`, return |
| Anti-debug checks (`AntiDebug.cpp`) | none | seven checks, each a few questions to the system |
| Around it | logging, handler generator, packet layer stubs, driver and web stubs, build files | not modelled, see section 7 |

How they interact. `Enable` constructs `State`, `Comm` (opens the pipe) and
`SessionService` (starts the worker). The worker and a service thread run the
same loop against each other: find a preamble, read a header of 38 bytes,
validate its MAC, act on its signature. The only frame either side writes on its
own account is a **checkpoint**: the first one a side in state None receives
makes it Ready; a Ready side echoes it; a side that reads a broken header writes
one and falls back to None. Other frames come from callers of the frame writers
(`WriteTestData`, `WriteRegularHeader`, `PacketWriter`); the repository has no
such caller at work yet, so they are environment actions.

What is hard in it: two symmetric loops that answer each other, each blocking in
writes on its only thread; the order of "write, then reset"; a byte stream that
has no other structure than the preamble, cut in different ways by the two
readers; reads that take more than they were asked for; objects deleted in the
order of a hash table while a thread uses them; explicit and implicit
destruction of the same object; threads that wait on pipe instances nobody
disconnects. `PROJECT.json` lists these hazards with their lines.

What makes each part correct:

* checkpoint protocol: checkpoints are neither created nor lost without cause;
  the exchange comes to rest; nobody blocks for ever; a stop request or the loss
  of the peer ends a session;
* readers: every frame is reported once, in order and in full step with the
  writer; an interrupted step is recovered;
* host: no thread touches a deleted object, nothing is destroyed twice,
  `Disable` joins what it started and returns;
* transfer loops: a loop returns only with the whole value, in order, and ends
  when the token is set or the other end is gone;
* anti-debug checks: BAD has a cause, OKAY passes nothing over, each check ends;
* pipe service: a thread serves client after client, a connected client gets a
  session, one client's end does not concern another's, `StopAsync` returns.

Where the code does not have such a property the modules state, and check, what
it has instead, and under which condition.

## 2. Modules

| Module | Models | Level |
| --- | --- | --- |
| `CheckpointSync` | both session loops and the checkpoint protocol | a frame is one message |
| `CheckpointTokens` | abstract: tokens between two sides; implemented by `CheckpointSync` | tokens |
| `CheckpointSyncProofs` | theorems about both | |
| `FrameStream` | the bytes of one direction as positions; the writers | a write is one step |
| `ServiceReader` | `FrameSession.RunAsyncInternal` over `PipeReader.cs`; extends `FrameStream` | byte positions |
| `DllReader` | `FrameReader` over `PipeReader.cpp`; extends `FrameStream` | byte positions |
| `LossyFifo` | abstract: what a reading end promises; implemented by both readers | reports |
| `FrameStreamProofs`, `ServiceReaderProofs` | lemmas about the stream, theorems about the service's reader | |
| `PreambleSearch` | KMP search of the DLL, window of the service, on real bytes | bytes |
| `DllReaderProofs` | theorems about `DllReader` and about `PreambleSearch` | |
| `PipeTransfer` | the loops below: one value over one pipe, in parts | bytes of one value |
| `PipeTransferProofs` | theorems about it | |
| `HostLifecycle` | `Enable`, `Disable`, the registry, the workers, process exit | objects |
| `TestProgram` | main of `wsac-test`, or any other process, over `HostLifecycle` | calls |
| `TestProgramProofs` | theorems about both | |
| `PipeSessionService`, `PipeSessionServiceProofs` | the service's threads, pipe instances, clients; theorems | sessions |
| `AntiDebug`, `AntiDebugProofs` | the seven checks against a system that changes; theorems | questions |
| `MC...` | constants for TLC | |

An operator whose comment begins with "Mutant:" is a plausible wrong version of
the definition that follows it. It is used by no specification; replacing the
definition by it makes the property named in `PROJECT.json` fail.

### CheckpointSync

`base[s]` is `Base` or `FrameSessionState` of side `s`; `wire[s]` the frames
written to `s`; `phase[s]` tells whether the loop waits for a frame, or is inside
the write of an echo, or inside the write that a reset follows. `open` and
`alive` separate the pipe handle from the loop: the DLL's handle outlives its
session until `Disable`. Everything below frames is abstracted to three outcomes
of a read: intact, broken header (`DllBroken`, `SvcBroken`), missed (`SvcMiss`).
That the service's `SkipAsync` swallows frames is in `SvcConsume`. Handles are
synchronous, so an unfinished write blocks the reads of its own side
(`Blocked`). `Close` is the orderly end, `Kill` a process that dies wherever its
session is, also inside a write. `extra` and `lost` are history variables: checkpoints written
without a change of state to account for them, and checkpoints that never
reached a checkpoint handler.

`CheckpointTokens` says what remains when frames, pipes and writes are taken
away: a side waits for a token or returns those that reach it; a disturbed side
waits again and puts one in. A side of `CheckpointSync` waits from the moment it
decides to reset, before `Base` says so.

### FrameStream, ServiceReader, DllReader, LossyFifo

A frame is known by where it starts, the size its header announces and the bytes
that really follow (`PacketWriter` writes a Regular header of size 0 and then
data). Bytes have no values: a preamble is found where one was written, and a
header is valid only from its first byte on. `ServiceReader` reads in chunks of
`P` bytes, acts on a preamble at the end of the chunk in which it ends, and skips
bodies with reads of `BufferSize`, wanted or not; `charged` is what
`ShrinkAvailable` was told. `DllReader` reads byte by byte and takes exactly what
the header says, or, for all but test frames, nothing.

The thread that reads is the one that answers. In both readers `"write"` is the
write of a checkpoint: after a broken header (`RequestCheckpoint`), in the
handler of a checkpoint on either side, and in the DLL for an unknown signature.
Which frames are answered depends on the state and the signature, which are
`CheckpointSync`'s, so here any accepted frame may be. Nothing is read until
`EndWrite`, that is, until the peer has taken the checkpoint. `EndSession` is
whatever the session catches or returns on: a stop request, the loss of the peer,
a size that cannot be had. It leaves the reader at `"over"`.

### PreambleSearch

The one place with byte values, and one step for each turn of a loop.
`FillFallBack` and `FillEntry` fill the failure table `kLps` of
`ReadUntilPreamble` (which the compiler runs); then `Receive` takes a byte, for
both searches at once, and the DLL's falls back with the table (`FallBack`)
until it can `Match`. `kLps` starts with the zero of its first entry and grows;
entry `i` of the model is `kLps[i - 1]` of the code. The service's side of
`Receive` is `Preamble.Push` with `foundPreamble` (`seen`) of one chunk. Either
search ends where it has found the preamble: the DLL's takes no byte further,
and the service's takes none after the chunk.

### PipeTransfer

One reader's loop and one writer's loop on a pipe of `Capacity` bytes, in either
direction: `dest` says which end is the DLL's, with its index and its lengths in
a DWORD of modulus `M`, and which the service's. `Poll` is the peek, `Fetch` the
read that follows it, with the test of the token between them; each takes or
gives any part of what is asked. A view of memory in the DLL (`Bytes`,
`ConstBytes`) may have any 64-bit size. A zero-byte write of `WriteFile` succeeds
and changes nothing, so going round the loop with it is no step of the model:
the writer then simply never ends (`WriteEnds`).

### HostLifecycle and TestProgram

An object is its type and the call of `Enable` that made it; `reg` is the
registry, `live` what has not been deleted, `order` the order in which the hash
table is iterated (any, chosen at the start); `todo` holds the types the
destructor has still to delete, the first of them in `order` next. The worker is reduced to the
objects it touches between two tests of the token, and goes through what its
loop goes through: preamble, the static null header (constructed by the first
read, with a nonce and a signature), header, validation, handling, sealing and
writing a checkpoint, the reset of `Base`. Each call that throws in the code may
fail here: opening the provider, making the key, opening the pipe, starting the
thread, random bytes, signing, reading, writing. `hAlg` holds the providers not
closed. `dangling` collects workers that touched something deleted. Undefined
behaviour ends where it begins: calls of `Enable` or `Disable` after `Disable`
are not modelled.

`TestProgram` puts the client on top: `prog` is where main of `wsac-test` is, or
`"other"` for any process that calls as it likes.

### AntiDebug

A check is a sequence of questions (`Watches` lists them with the fact each
shows). The system is external: debuggers come and go between two questions, a
question may fail, another thread may change the heap block between the walk and
the read behind it. `seen`, `held` and `missed` are history over one call.

### PipeSessionService

`pipe[t]` is what Windows knows of the instance, `attached[t]` what the .NET
stream object believes. `WaitForConnectionAsync` has the outcomes of the .NET
documentation: it accepts, is canceled, or throws because the stream was never
disconnected or the client is gone; `RunThread` catches only the second. The
constructor of the stream may throw too (`CreateThrows`: the name or all its
instances are taken), and nothing catches that; either exception is `Crash`.
A client is a `Comm` object. `Program.cs` calls `host.StartAsync` and nothing
else: no code of the repository calls `StopAsync`, which would be the host's to
call. `CallStop` is therefore an action nobody need take.

## 3. What the runs check

| Run | Question | Bounds | States |
| --- | --- | --- | --- |
| `CheckpointSync` | `TokenBalance`: checkpoints in flight + lost + 2 = unsynchronised sides + surplus. `MutualBlockNeedsSurplus`: both sides blocked, one or both by a checkpoint its session is writing, only with that much surplus. `ImplementsTokens`. `EventuallySettled`: with a surplus of two both sides stay Ready, with less no checkpoint stays in flight. `StopEndsSession`, `PeerLossEndsSession` | pipes that hold 1 frame, 4 caller frames (one with an impossible size), 2 faults or deaths of a process, both sides stoppable | 364070 |
| `ServiceReader` | `InStepAcceptsAll`, `OddSkewStays`, `CatchesUp`, and `ImplementsFifo`: it implements `LossyFifo` | 4 frames of five shapes, buffer 64 | 174031 |
| `DllReader` | `MissesNothing`, `ReportsAll`, `ImplementsFifo` | 4 frames of five shapes | 69459 |
| `PreambleSearch` | `DllSearchExact`, `SearchesAgree` | all preambles of 4 bytes over {0, 1}, 12 bytes of text | 173429 |
| `PipeTransfer` | `FilledInOrder`, `ReturnsMeanWhole`, `ReadEnds`, `WriteEnds` | modulus 4, sizes 0 to 9 at either end, pipe of 2 bytes | 6746 |
| `HostLifecycle` | `DanglingNeedsCause`, `OnceEnabledNeedsOrder`, `DisableJoins`, `DisposeLeavesOnlyLeaks`, `DisposeReturns`, `TestProgramEnds` | 2 calls of Enable, all 6 orders, the test program and any other | 24421 |
| `PipeSessionService` | `ServesAtMostOne`, `OneSessionEndsAll`, `ConnectedGetsSession`, `StopReturns` | 3 threads, 3 clients | 54245 |
| `AntiDebug` | `BadHasCause`, `OkayMissesNothing`, `ChecksEnd` | 3 heap entries, 2 query buffers | 5032 |

Why the bounds are enough. `CheckpointSync`: two faults and four caller frames
reach every balance of surplus against loss from "one side can never be Ready" to
"more than two, the echoes never end"; the history variables only add up. With
room for one frame a direction can be empty, full and blocked, and both
directions can block each other; two frames of room add no other case. The byte
readers see two frames to fall out of step, a third to show that
they stay so and a fourth to come back; the body sizes include odd and even
lengths, one that fits the rest of a buffer together with the next frame, and a
header that lies. The service's buffer has 8192 bytes; it is scaled to 64, which
keeps it larger than a preamble and a header and smaller than a body with a
frame behind it. Twelve bytes are three chunks, and two byte values give every
kind of overlap a preamble of four can have with itself. The modulus 2^32 is
scaled to 4: sizes to 9 lie below it, on it, between it and its double, on its
double and above, and a pipe of two bytes cuts every value in parts;
`PipeTransferProofs` covers the real one. Two calls of `Enable`
are what it takes to overwrite a registry; a third adds nothing but another
leaked worker. With three threads, one can end a session while another serves
and a third waits. A heap of three entries has one before, at and behind the
place where the walk ends, and two buffers are one more than the first call needs.

Deadlock is checked in `AntiDebug`, where a check always has a next step.
Elsewhere it is not: the system may rightly come to rest, when nobody writes,
everybody has stopped or the bound is reached. That it does not rest where it
must go on is what the liveness properties are for.

Four runs state something the repository says of itself that the code does not do:

* `ReadyMeansSynchronized` (Session.cpp:18, "Now the system has been
  syncronized"): READY is a statement about one side only.
* `ReadsWithinBudget` (PipeReader.cs:50, "exceeds available bytes count"): a skip
  takes bytes beyond the budget.
* `MembersDestroyedOnce` (DllMain.cpp:32, "dispose twice is intended"): the guard
  of the destructor does not guard the members.
* `WaitingIsConnectable` (PipeSessionService.cs:38, "waiting for connection..."):
  after its first session a thread is not waiting, it is about to throw.

Properties that hold but tell a team something it may not expect:
`OneSessionEndsAll` (the end of any session brings the service down),
`OddSkewStays` (the service never recovers from an odd skew, and a checkpoint
does not help), `TokenBalance` with `SurplusDecides` (a surplus is never taken
back), `DanglingNeedsCause` (two causes suffice for a worker to touch a deleted
object), `OnceEnabledNeedsOrder` (one of them, the order of a hash table, is met
by the test program too), `StopEndsSession` (a stop request does not end a
session whose write nobody reads), `ReturnsMeanWhole` with `WriteEnds` (a value
of 2^32 bytes fails in the DLL's reader and never ends in its writer),
`BadHasCause` (BAD without a debugger, when the heap changes under the walk or
the debug object cannot be queried), `OkayMissesNothing` (OKAY says nothing about
questions that got no answer; a query buffer that is never released makes one of
them fail in the end).

## 4. Fairness

Weak fairness is assumed only of threads that can take a step on their own: the
two session loops, which poll (`CheckpointSync`, and the reading half of
`ServiceReader` and `DllReader`); both loops of `PipeTransfer`, which poll or
block in a call the system completes; the thread inside `Enable` or `Disable` and
a worker that is not waiting for a peer (`HostLifecycle`); main of the test
program, except where it waits for input (`TestProgram`); the service's threads,
the failure of a write to a closed pipe and the join (`PipeSessionService`); a
check that is running (`AntiDebug`). Nothing is assumed of callers, clients,
debuggers, faults, deaths of processes, constructors that throw, stop requests,
or of a peer that ought to read: a write may last for ever. This is why
`CatchesUp` and `ReportsAll` except a reader that stays in the write of its own
checkpoint or whose session ends (`StopsReading`), `DisposeReturns`, `TestProgramEnds` and `StopReturns`
except a thread that stays in a write, and `WriteEnds` a pipe that stays full.
`EventuallySettled` excepts two sessions that block each other for ever, which
`MutualBlockNeedsSurplus` delimits, and `StopEndsSession` a handle held for ever
(`HeldForEver`), which says at once who can hold it: a peer whose session is over
while its handle is open, or one whose own handle is held. Without either
exception the property is false, since a write looks at no token.

## 5. What is proved

`CheckpointSyncProofs`, for every `Quota`, `AppFrames`, `Stoppable` and every
bound, from the assumption `ConstantsOK` alone:

* `TypeCorrect`: `Spec => []TypeOK`. `TypeOK` is inductive. The work is in the
  queues: `Append`, `Tail` and the suffix left by an over-reading skip.
* `TokensConserved`: `Spec => []TokenBalance`. `TypeOK /\ TokenBalance` is
  inductive. `Tokens` counts checkpoints as the cardinality of a set of
  positions, so the proof first shows what it does under concatenation
  (`TokensConcat`, by a bijection between positions), then under append, tail
  and split. Each handler moves one token between the terms of the sum.
* `MutualBlockBound`: `Spec => []MutualBlockNeedsSurplus`. The balance alone
  does not know why a side is blocked. The strengthening, `WriteAtEnd`, is that
  while a session is inside a write, the last frame on its way to the peer, if
  any is left, is a checkpoint: the one it is writing. So two blocked sessions
  stand for two different checkpoints in flight, and the balance turns them into
  surplus. The bound counts the sessions inside a write (`Writers`). Where callers'
  own writes hold both handles there is none, and it then asks for no surplus: two
  callers can block each other without any checkpoint.
* `SurplusDecides`: both sides are synchronised only with a surplus of two over
  the lost checkpoints; beyond two, a checkpoint is always in flight.

* `TokensImplemented`: `Spec => ImplementsTokens`. From `TypeOK` alone: the lemmas
  `FlightConsume` and `FlightWrite` say what reading and answering a frame does to
  the two counts, and each action of the loops is then one action of
  `CheckpointTokens` or a stutter. A skip that swallows several frames is one
  `PassOver` of the checkpoints among them.

`PipeTransferProofs`, for every modulus, set of sizes and capacity, from
`TransferConstantsOK`:

* `TransferTypeCorrect`, `BytesInOrder`, `WholeOrNotAtAll`: `TypeOK`,
  `FilledInOrder`, `ReturnsMeanWhole`. What is needed besides is `NoWrap`: an
  index never exceeds the size modulo 2^32. Below that the remainder is computed
  without a carry (`ModMinus`), a request never reaches beyond it, and so no sum
  wraps; and an index that reached its size shows that the size fits.

`ServiceReaderProofs` and the first half of `DllReaderProofs`, for every length of
preamble and header, every buffer, every set of payloads and any number of frames,
from `StreamConstantsOK` and `BufferOK`:

* `ServiceReaderWellTyped`, `DllReaderWellTyped`: `TypeOK` of each reader.
* `ServiceReaderInStep`: `Spec => []InStepAcceptsAll`; `DllReaderMissesNothing`:
  `Spec => []MissesNothing`. Both say what was reported and nothing of where the
  reader stands, so neither is inductive. `InStep`, one for each reader, adds the
  position: behind the frame reported last, or just behind the preamble of the
  next, or inside the body it announced. `StreamInv` (of `FrameStreamProofs`) says
  how frames lie: end to end and up to what is written; from it follows which
  frame a preamble just found belongs to. Only the service's reader needs an
  honest writer *and* no over-reading skip; the DLL's needs only headers that
  announce no more than follows them. The clauses about the position hold through
  the write of a checkpoint and are dropped where the session ends (`EndKeeps`).
* `ServiceReaderIsFifo`, `DllReaderIsFifo`: `Spec => ImplementsFifo`, without any
  condition on the writer. Every action is a `Write`, a `Report` or a stutter of
  `LossyFifo`. The clause needed is `InOrder`: the reader is behind the start of
  the frame it reported last, so what it looks for next is a later one.
* `OddSkewIsForGood`: `Spec => OddSkewStays`, if preamble and header have even
  lengths (`EvenFraming`; they have 6 and 38 bytes). A chunk, a header and an
  intact checkpoint all move the reader, or the stream, by an even number of bytes,
  and a preamble is only ever acted upon at the end of a chunk, which lies at an
  odd distance from it.
* `OnlySkipsExceedBudget` explains the run `ReadsWithinBudget`: bytes taken plus
  bytes still to skip always equal bytes charged plus bytes skips took too much
  (`Budget`), so the budget is exceeded exactly when the second exceed what is
  still to skip, and in no other way.

The second half of `DllReaderProofs`, for every preamble of every length, every
alphabet and every text, from `SearchConstantsOK`:

* `SearchWellTyped`, `DllSearchIsExact`, `SearchesFindTheSame`: `SearchTypeOK`,
  `DllSearchExact`, `SearchesAgree`. `SearchInv` adds what the loops know between
  two turns. `TableRight`: entry `i` is the longest proper end of the first `i`
  bytes that they begin with. `FillInv` and `PendingInv`: every match longer than
  the current one fails with the byte at hand (`LongerFail`). `WindowInv`: the
  window holds the last bytes, behind zeros at first. The lemma that carries it is
  `FallBackSkipsNone`: a beginning that ends where a longer one ends also ends
  inside that one (`ShorterMatch`), so falling back by one entry passes over none.
  Writing the search as small steps, as the loops run, is what makes this provable:
  no induction over the text is left but the one over steps.
* `SearchLoopsEnd`: each turn of either inner loop makes the match shorter.

`TestProgramProofs`, for any number of calls of `Enable` and any set of orders, from
`HostConstantsOK`:

* `ClientWellTyped`, `DanglingHasCause`, `DisableJoinsRegistered`, `DisposeClears`,
  `TestProgramNeedsOrder`: `ClientTypeOK`, `DanglingNeedsCause`, `DisableJoins`,
  `DisposeLeavesOnlyLeaks`, `OnceEnabledNeedsOrder`. The invariant `HostInv` is on
  the host alone, for any caller; the test program's steps are steps of it
  (`ClientStepsAreSteps`). Its clauses: where `Enable`, `Disable` and the exit can
  be (`CallOrder`); the registry holds the latest round of each type
  (`LatestRegistered`); a worker finds a `State` and a `Comm` to start with
  (`Equipped`), and they are alive until the destructor deletes something
  (`Intact`); the worker of the registered `SessionService` runs only while that is
  still to be deleted (`JoinedOnDelete`), and so, when it is first in `order`, never
  beside a deletion; what the destructor is done with is gone (`Cleared`).
  `OnlyLeakedDangle` then follows: a worker that touched something deleted was not
  joined before the first deletion.

`PipeSessionServiceProofs`, for any finite sets of threads and clients:

* `ServiceWellTyped`, `ThreadServesAtMostOne`: `TypeOK`, `ServesAtMostOne`. The
  clause needed is `AttachedOnce`: a stream that was connected is never free again
  and was connected for the one session of its thread; with `PipeFollowsThread`,
  the instance of a thread that waits a second time is taken or gone.
* `InstancesNotShared`: no two clients hold one instance, and a `StopAsync` that
  returned leaves none.
* `ServedThreadWaitsInVain`: a thread that has served and waits again leaves its
  wait only canceled, or with the whole process. No run states these two.

`AntiDebugProofs`, for a heap of any size and any room for buffers:

* `ChecksWellTyped`, `BadAlwaysHasCause`, `OkayNeverMisses`: `TypeOK`, `BadHasCause`,
  `OkayMissesNothing`. What is needed besides is that the facts of the moment lie
  between `held` and `seen` (`HistoryBrackets`), and that each question the check is
  past was left unanswered, or had a fact that was gone at some moment
  (`PassedShowsNothing`). Answers are given by the `Watches` of each check, whose
  shape (`Questions`) is computed once.

So every invariant that a passing run checks is proved, and so are the action
property and the three refinements. Only model-checked: the liveness properties
(`EventuallySettled`, `StopEndsSession`, `PeerLossEndsSession`, `CatchesUp`,
`ReportsAll`, `ReadEnds`, `WriteEnds`, `DisposeReturns`, `TestProgramEnds`,
`OneSessionEndsAll`, `ConnectedGetsSession`, `StopReturns`, `ChecksEnd`), since the
prover has no rules for fairness. The inductive invariants hold in TLC too, on the
constants of the runs of section 3.

## 6. Plan

1. (done) `CheckpointSync` with proofs; `FrameStream`, `ServiceReader`,
   `DllReader`, `LossyFifo`, `PreambleSearch`; `HostLifecycle`;
   `PipeSessionService`.
2. (done) `CheckpointTokens`, checked and proved; `PipeTransfer`, checked and
   proved; `LossyFifo` implemented by the DLL's reader too; the failures of cipher
   and random source in `HostLifecycle`; `TestProgram`; `AntiDebug`.
3. (done) Proofs of every invariant that a passing run checks, of the action
   property `OddSkewStays`, and of the three refinements (section 5).
4. When the code grows a second caller of a frame writer, frames interleaved on
   one handle in `FrameStream`; when a handler reads part of a body, the budget of
   parent and child reader of `PipeReader.cs`.
5. Proofs still worth having, of what no run states: the safety half of the
   liveness properties, that is, the quantity each loop makes smaller
   (`PipeTransfer`: what is left of a value; the readers: what is written and not
   taken), as `SearchLoopsEnd` does for the search.

## 7. Not modelled, and why

* The cipher: ChaCha20-Poly1305 is a library call; the models use what
  `Validate` decides and that any call may fail. `ChaCha20::Seal` and `Open` are
  called by nothing. Preamble, signatures and key are taken to be the same on
  both sides, that is, from one configured build (`SetConfigIn.cmake` draws them
  anew for every build), and signatures to be distinct.
* Bytes that look like a preamble by chance, inside a header or a body.
* Layer 2: `Layer2State`, `PacketSession`, `PacketHandler`, `PacketReader` and
  `ModuleRouter` are empty or unused.
* Two frames written at once on one handle: every writer of the repository runs on
  the thread of its session.
* A handler that reads part of a body: the three handlers read none or all of it.
* In the anti-debug checks, what the answers of Windows mean (`Watches` takes them
  as documented), and a heap block unmapped under the read, which ends the process.
* The handler generator and the build: compile time. The list of handlers it
  generates is taken as the three classes that carry the attribute.
* Logging: no property is about it, and its provider is a singleton of the host's
  container, constructed once.
* Crash recovery: nothing is persisted. What the peer of a dead process sees is in
  `CheckpointSync` (`Kill`) and, for a value half written, in `PipeTransfer`.
* Unloading the DLL without ending the process, and calls after `Disable`.
* What the second destruction of the host's members does (`MembersDestroyedOnce`
  shows that it comes): it is undefined behaviour, and `TestProgramEnds` is about a
  build in which the process survives it.
* What the service's window makes of bytes it should not have: its zeros at the
  start with a preamble that begins with zeros (`SearchesAgree` excludes that), or
  bytes from before a gap (`PreambleSearch` starts with a fresh window, and
  `ServiceReader` gives bytes no values).
* The driver entry and the web server, which keep no state.
