# A verification project for gba-kit

TLA+ modules, TLC runs and TLAPS proofs about this repository: a Game Boy Advance
emulator, a debugger core built on it, the editor adapters and user interfaces around
them. Paths are relative to the repository; `PROJECT.json` maps each definition to its
lines.

1. [The system](#the-system) — components, state, operations, what is hard
2. [The modules](#the-modules) — what each models and how it corresponds to the code
3. [The runs](#the-runs) — what TLC checks, the bounds, the fairness
4. [The proofs](#the-proofs)
5. [Where the code and its promises differ](#where-the-code-and-its-promises-differ)
6. [What is left out](#what-is-left-out)
7. [Plan](#plan)

Working with it, from this directory:

    tlc -config MCTimeTravel.cfg MCTimeTravel
    tlapm RewindHistoryProofs.tla

A passing run takes two to four minutes with two workers, the others seconds.

## The system

The system is single-threaded JavaScript. Nothing pre-empts a function, so the
interleavings that matter are those of the callbacks of an event loop (timers, socket
events, awaited promises), of listeners called in the middle of an operation, and of the
user's commands in an order nobody tried. The other difficulty is *exactness*: a past
state of the machine is never stored but recomputed, and everything that is recomputed
must agree with what happened.

| Component | State | Operations | Hard about it | What makes it correct |
|---|---|---|---|---|
| **Rewind history** `debug-core/src/rewind.ts`, `delta.ts` | delta-encoded keyframes, input log and its base, byte count, deltas since a full keyframe | push, recordInput, truncateAfter, keyframeAtOrBefore, inputAt, clear, the byte budget | the chain is cut at both ends and every delta needs the keyframe before it | reads back what was stored; bounded restores; the budget |
| **Session: time travel and takes** `debug-core/src/session.ts`, `machine.ts` | machine, state, instructions in the frame, waiting buttons, history, recording, playback | step, continue and its ticks, buttons, writes, rewind, stepBack, reverseContinue, record, replay, restart, loadState, resync | buttons between frames; frames that began in the middle; an abandoned future | a replay ends in a machine the run went through; history is of this run's past; a take is what ran |
| **Breakpoints and stepping** `breakpoints.ts`, `stepping.ts`, `session.ts` | breakpoint groups and the addresses they arm, the step in progress, inlined frames hidden | set, resolve, hit; step in, over, out, to a line; reveal | interrupts, recursion, inlining and lines that come back in the middle of a step | a step ends in the frame and on the line asked for; no place asked for is run through |
| **Memory diff, noise, search** `memory-diff.ts`, `memory-noise.ts` | captures, the query between them, candidates, mutes, the result held | capture, reorder, forget, query, mute, discover noise, read | everything a result depends on changes on its own | a result is of the captures, query and mutes there are; a refused query is impossible |
| **Expressions and values** `expression.ts`, `debug-info/src/dwarf/values.ts` | none: a line is compiled to a closure | compile, evaluate, show | C's conversions, bit fields, values kept in registers | as in C; as in memory |
| **Labels** `labels.ts` | labels and their file | set, clear, import, save | written by a file the adapter awaits | what the client was told is kept is kept |
| **Debug adapter** `debug-adapter/src/session.ts` | the session it owns, epochs and handles, pending configuration, the stream, state files | launch, configurationDone, restart, disconnect, stream, labels, variables; save, rename, import, delete | requests that await while others arrive, in any order | one live session, owned until disposed; no handle of an older epoch; every request answered once; no saved state lost |
| **Frame stream and screen server** `debug-adapter/src/stream.ts`, `screen-server.ts` | socket connecting and connected, the frame held back; the adapter's connection, the last frame, pages that are behind | connect, close, sendFrame, sendAudio, drain; upgrade, broadcast, input | slow readers at two hops; reconnects | queues stay short; nobody is left on an old frame; every connect settles |
| **UI transports** `debug-ui/src/session-transport.ts` | save states in memory, the cached state, the import queue | request, importSave | imports that await against everything else | no state lost |
| **Emulator: event loop and devices** `gba-emulator/src/gba.ts`, `scheduler.ts`, `interrupts.ts`, `timers.ts`, `dma.ts`, `input.ts` | cycle, scheduled events, request and enable flags, halt, counters, channels | run, schedule, request, acknowledge, overflow, transfer, serialize | events that schedule events; cycles between a cause and its service; snapshots without callbacks | no event lost or early; restored = saved; wakes when it must |
| **Emulator: processor** `arm-emulator/src/arm-cpu.ts`, `utils.ts` | registers and their banks, status words, pipeline, access kinds | execute, branch, exceptions, mode switches, serialize | an interrupt between any two instructions, in any mode and instruction set | it leaves no trace; flags say what the numbers do; bursts are paid where they go on |
| **Emulator: BIOS calls** `bios.ts` | none | copies, decompressors, filters, arithmetic, affine sets | formats that overlap what they write; refused sources | the data arrives, and nothing else changes |
| **Emulator: bus and prefetch** `system-bus.ts`, `prefetch.ts` | memories, I/O halfwords, latches, watchpoints; the prefetch buffer | reads and writes of each width, DMA units, poke; fetch, load, idle | mirrors decoded anew by each access; code poked under the pipeline | one memory; watchers hear; the unit is no faster than its cartridge |
| **Emulator: cartridge backup** `flash.ts`, `eeprom` in `system-bus.ts` | command phase, bank, shift register, cells | bit accesses, command bytes, export, import, save states | requests clocked in over many accesses, with save states in between | each request whole and at once; a `.sav` holds all the game reaches |
| **Emulator: serial, sound, picture** `serial.ts`, `apu/`, `ppu/` | transfer; channels, FIFOs, sequencer; latches, reference points, the OBJ line | transfers; catch up, refill, overflow; latch, draw, start of a line | work that is put off until something looks; snapshots in the middle of a line | late is the same as in time; a restored machine draws the same |
| **Emulator: scripting** `scripting.ts` | open watches, machine watchpoints, frame callback, recording | wait, press, watch, typed reads and writes, record | calls that end in errors or timeouts | watches account for all they matched; stores land whole |
| **Debug information** `debug-info` | indexes, memos | types, member paths, placements, lines, the stack walk | two readers of the same entries; optimised code | readers agree; a name leads back; a caller named is the caller |
| **Browser host and web app** `gba-browser`, `apps/webapp` | the loop, its clock, who has the machine's hooks, the recorder | run, pause, load, enter and leave Debug, record, replay | three drivers of one machine, each with promises under way | one driver at a time; frames paced; a recording plays what ran |
| **VS Code extension, Node host, poc** | — | forwarding | — | — |

How they interact. A *host* owns an interval that calls `Session.#tick`. The session runs
the *machine* with a stop predicate and keeps its *history* after every run. It emits
`frame`, `stopped`, `continued`, `written` and others synchronously, to the *debug adapter*
or a *transport*. The adapter forwards frames over the *frame stream* (a pipe) to an editor
or to the *screen server*, which sends them on to web pages; the pages' buttons come back
and end in `Session.setButtons`. Inside the machine, the *scheduler* calls the devices'
event callbacks; devices request *interrupts*; DMA moves memory on their behalf. A session
asks the *debug information* for lines, frames and names whenever it stops.

`PROJECT.json` lists under `hazards` what in this code a test would hardly reach, each at
the line where it bites, with the property that covers it.

## The modules

| Module | Models |
|---|---|
| `ExactHistory` | abstract: what a rewind history promises, every snapshot and mask stored verbatim |
| `RewindHistory` | `rewind.ts`, `delta.ts`: the delta chain with its budget |
| `TimeTravel` | `session.ts`: running, input, rewinding, takes; composes a machine and a `RewindHistory` |
| `Stepping` | `stepping.ts`, `breakpoints.ts`, the session's stop predicate, the line table and inlined calls as they use them |
| `MemoryDiff` | `memory-diff.ts`, `memory-noise.ts` |
| `Expression` | `expression.ts` and the display of scalars in `values.ts` |
| `Placement` | `types.ts`, `values.ts`, `symbols.ts`, `placement.ts`: two readers of the type entries, and the names given to addresses |
| `Unwind` | `debug-info/src/unwind/`: the walk of a stopped machine's stack, beside a program that really calls |
| `Scripting` | `scripting.ts` |
| `Adapter` | `debug-adapter/src/session.ts`: requests with their awaits |
| `States` | the save states, in the adapter's files and in the transport's memory |
| `ScreenFeed` | `stream.ts`, `screen-server.ts`: the adapter's stream, the server and the pages |
| `Drivers` | `use-session.ts`, `emulator.ts`, `frame-clock.ts`, `input-recorder.ts`, `script-replayer.ts`: who drives the web app's machine |
| `Scheduler`, `Interrupts`, `Timers`, `Dma` | the operators of those classes, each extending the one before |
| `Console` | `gba.ts`: the run loop, lines and frames, snapshots; composes the four above |
| `CycleTimers` | abstract: what the timers promise, counted cycle by cycle |
| `Alu`, `Banks`, `Cpu` | `arm-cpu.ts`, `utils.ts`: arithmetic, the registers of the modes, both instruction sets with their pipeline, driven as the run loop does beside the same program run alone |
| `Bios` | `bios.ts` |
| `Bus`, `Prefetch` | `system-bus.ts`; what accesses cost, with `prefetch.ts` |
| `Battery` | abstract: what a save chip promises the game |
| `Cartridge` | `flash.ts` and the EEPROM's serial protocol; refines `Battery` |
| `Serial`, `Sound` | `serial.ts`; `apu/`, beside an APU advanced every cycle |
| `Picture`, `Merge` | `ppu/`: what is kept from line to line; one line put together |
| `RewindHistoryProofs`, `TimeTravelProofs`, `ScreenFeedProofs`, `ConsoleProofs`, `CpuProofs`, `FrontEndProofs` (`States`, `Adapter`), `DeviceProofs` (`Serial`, `Prefetch`, `Cartridge`) | the theorems about each, in a module that extends its own |
| `LeastNumber` | the least-number principle, recursion and finite sums, which the theorems rest on |
| `MC...` | the instances TLC checks |

Most modules keep a *ghost* beside the code's state, which knows the answer: the machine's
whole log, the APU advanced every cycle, the program that nobody interrupts, the chain of
real calls, the ids of the states someone was told are kept. No guard reads a ghost; the
properties compare the two.

### RewindHistory

`history` is the object's fields: `keyframes`, `bytes`, `inputs`, `inputBase`, `sinceFull`.
Its methods are operators on such a record (`Push`, `TruncateAfter`, `RecordInput`,
`EnforceBudget`, `KeyframeAtOrBefore`, `InputAt`), so that a session can hold one. A
snapshot is the set of RAM cells that are set: XOR is then the symmetric difference, and
a delta applied to the wrong base decodes to the wrong machine, as it would in the code.
The size of a delta is a header and the cells that differ.

`#enforceBudget` is a loop that drops the first keyframe, or the first with the deltas that
follow it, until the count fits; where the second is a delta it is first rebuilt in full,
which makes the count *larger*. `CutPoints`, `Cut` and `BytesAfterCut` say where the loop
stops and what it leaves.

The state machine drives one as a session does: `Anchor` (history begins here, as after a
boot, a load or a restart), `FinishFrame` (log the buttons; push a keyframe if the frame is
on the grid) and `GoBack` (truncate, and push again if the target is a frame's start). `now`
is the frame the machine is on. `ExactHistory` has the same three actions on a set of
(frame, snapshot) pairs and a function from frames to masks; it may forget its oldest at any
step, since the budget may.

### TimeTravel

The machine is what determinism makes of it: all that it has read. Its `log` has an entry
for each instruction since power-on, the mask it ran with; two machines are the same when
their logs are. The other things that change a machine go to the log too: a keypad
interrupt that was requested (`KeypadRequest`), a write by the user (`UserWrite`). A frame
is `Slots` polls of the stop predicate, in some of which (`Asleep`) the CPU is halted and
no instruction runs: `stepBack` counts instructions and not polls, and the difference is one
of the things to get right.

| Action | Code |
|---|---|
| `Step`, `Tick`, `PlaybackTick`, `TickStops` | `#runStep`, `stepFrame`; `#tick` with and without a playback; `#stop` |
| `RunOneFrame` | `#runOneFrame`, `#beginFrameIfNew`, `#afterRun`, `#pushKeyframeIfDue`: one frame or what is left of it, up to any stop |
| `HoldButtons` | `setButton(s)`, `#holdButtons`: at once at a frame's start, otherwise with the next frame |
| `NoteWrite` | `writeMemory`, `setVariable`, `assign`, `setRegister`, `#noteWrite` |
| `RewindToFrame`, `StepBack`, `ReverseContinueToHit`, `ReverseContinueToEarliest` | the same; `ReplayTo` is `#replayTo`, `FinishRewind` is `#finishRewind` |
| `StartRecording`, `StopRecording`, `ReplayHere`, `ReplayFromStart` | `startRecording`, `stopRecording`, `replayRecording` |
| `Restart`, `LoadState`, `Resync` | `restart`, `loadState`, `resync` |

Commands are synchronous and each is a step. Which poll a step, a breakpoint or a reverse
search ends at depends on program and breakpoints and is any that the code could reach.
The ghosts are `log` (the machine's, and the one a take keeps) and a playback's `from`: the
guards do not read them, but `Snapshot` carries the machine's log as the memory it stands for.

A keyframe is meant to be "of the machine at the start of that frame" (`rewind.ts:80`). A reverse
continue may end at a poll that sleeps, at which the frame has executed nothing yet, and
`#finishRewind` then pushes the machine as it is, in mid-frame. `StepsHistory` therefore claims
that a frame of which something was executed is not pushed, unless history began inside it.

### ScreenFeed

A connection (`pipes[c]`) has the promise `connect` returned, its two ends, what the adapter's
socket has not handed to the kernel (`out`, a `Writable`), what the kernel holds (`wire`) and
the masks on their way back (`up`). `pending`, `socket` and `held` are the stream's fields;
`adapter`, `last` and `pages` (socket, open, behind) the server's. A frame is the number of
its emission, audio is 0, sizes keep the ratio the code's limits depend on
(`MAX_BACKLOG` is two frames; a page may have two frames unsent).

The stream: `Connect`, `Connected`, `ConnectFails`, `Close`, `SendFrame`, `SendAudio`,
`PipeTakes` (a write completes and `drain` flushes the frame held back), `StreamSeesClose`,
`ReadInput`. The server: `Accept` (a newer adapter replaces the old one), `ServerReads`
(one message; a frame is broadcast), `ServerSeesClose`, `ServerCloses` (with its pages and
connections, as `close` does), and per page `PageOpens`,
`PageCloses`, `PageTakes` (with its `drain`), `PageTypes`.

`Writable` is Node's: one write in flight, those made meanwhile go together when it
completes, `writableLength` counts both, `drain` comes when it is back at zero after it had
reached the high-water mark.

### Console

The machine is one record, `m`: the scheduler, the interrupt controller, the timers, the DMA
controller, the line, the frame, CPSR's I bit and the VBlank bit of DISPSTAT. `Scheduler`,
`Interrupts`, `Timers` and `Dma` have no variables: each is the operators that are its
class's methods, from machine to machine, and each extends the one before, since a device
schedules and requests. The operator of a method calls those of the methods it calls, at the
same places: a timer's control write, say, services its overflow, which requests an
interrupt, which schedules the signal, in one step.

A slot of the scheduler is the cycle it is due at, or `Never`; `attached` is the slots that
have their device's callback, which a snapshot does not keep. The identifiers are the code's
(`EventId`), since ties fire in their order. `Called` is what the callback of each does.

| Action | Code |
|---|---|
| `RunFrame`, `RunScanline`, `RunEnds` | `runFrame`, `runScanline`; `done()` in `#run` |
| `FireEvent` | a pass of `#run` in which `runNextDueEvent` fires one event, with its callback |
| `Sleep`, `EnterIrq`, `StopRun` | the halted branch of `#run`; `#handleIrq`; `shouldStop` |
| `Compute`, `Write...`, `ReadTimerCounter`, `Halt`, `Stop` | an instruction in `#runCpu`: its access to a register, at the cycle it starts, then `advance` |
| `MoveUnit`, `DropChannel`, `PauseDma`, `EndDma` | one pass of the loop of `DmaController.#run`; `moving` while a callback is inside it |
| `PressKey`, `PokeIe` | `InputController`, `poke`, between runs |
| `Save`, `Load`, `Reset` | `serialize`; `deserialize` into a new machine, as a session does; `reset` |

What a program does is an element of `Programs`: the kinds of instructions it has, how many
of them, and the cycle at which the machine starts over (`until`, which bounds the clock).
Every program computes, in instructions of every length in `Lengths`, of which one is longer
than a line: so events come due late, and several at once.

`CycleTimers` is the abstract specification of the timers: counters that step at every
cycle, one event in the whole specification being a write, and then time. `Amounts` maps the
machine to it: each counter is what it would be if it were brought up to date now, its
overflows that wait to be serviced included.

### The processor

`Alu` has the arithmetic on words of four bytes of `ByteBits` bits, with 8 of them the
machine's own. `Banks` has the registers each mode keeps for itself: `r` is what the mode in
force shows, and the banks hold the others' (a live register's bank is out of date, as in
the code). `Cpu` executes: an opcode is a word or a halfword of memory, which instruction it
encodes is a constant, so code can be stored and loaded like data and be fetched before it
is overwritten. `pipe` is the pipeline, `bus` what the step in progress paid for.

A program under way has four actions: `Execute`, `Interrupt` (`enterIrq`, with the BIOS code at its
vector and the program's handler), `Refuse` (the debugger's veto before an instruction) and
`Flush` (a poke under the pipeline). `alone` is the same program on a processor that nobody
interrupts. A handler may use the registers it saves and memory of its own.

### Bios, Bus, Prefetch, Cartridge

`Bios` is one action, `Call`, on a machine of r0 to r3 and memory. The calls of `MCBios` are
made from what their data stands for (`wants`), by the definitions of the formats and not by
the code's: literals and back references, nodes of a Huffman tree, differences, bit units.
It includes data that overlaps its own output and sources the BIOS refuses.

`Bus` has `CpuLoad`, `CpuStore`, `DmaUnit` (between `DmaTakes` and `DmaHandsBack`) and
`PokeBytes`, over addresses at the ends of each memory. Every access decodes its address as
the code's own method does (the widths, the debugger's `peek` and the watchpoints each do it
again), which is why `OneMemory` is not obvious. Open bus is what was last fetched, or what
a DMA last moved. `Prefetch` has the fetches, loads and idle cycles of a CPU that reads
ahead; `Cartridge` a game that makes requests of its chip, one access at a time, with
save states and `.sav` files between any two accesses. `Battery` is the specification it
refines: a request happens at once and whole at the last access, and everything before is a
stutter.

### Serial, Sound, Picture, Merge

`Serial`: `Write16`, the transfer's event, save and load. `Sound`: the APU is brought up to
date (`#syncTo`) by stores, reads, timer overflows, the host and save states; `Cycle` only
advances the clock and `exact`. `Picture`: the three points of a line (`StartLine`, `Latch`,
`Draw`) with the program's writes between them; `Restore` makes the drawn machine the
restored one, and `twin` the one that went on. `Merge`: a line's sprites are plotted one by
one in the order of OAM, then the windows, layers and effect of each column; the layouts of
tiles and the effects are computed over probes of their boundaries.

### Stepping and Unwind

Both run a program of calls, with an interrupt wherever one may come, and note in a ghost
(`acts`, `chain`) what really called what. `Stepping` asks the predicates of `stepping.ts`
before each instruction, as `#predicate` does, and `armed` is what `#resolve` made of the
breakpoints asked for. `Unwind` walks in every state from the registers, the stack and the
code: the call-frame table, the prologue, a teardown, a leaf's link register, in the order
of `LAYERS`; its programs (in `MCInspection`) have the shapes the two compilers of the tests
give functions, among them tail calls, veneers of every kind that `calls.ts` follows, alloca
and a BIOS interrupt block. Two kinds of frame are *not* claimed to be right, though the comments
of the code say that they are no guesses. In the middle of agbcc's
`pop {r3}; mov r8, r3` the register that the `pop` wrote over is handed on without a doubt
(`Restoring`; `prologue.ts:365-368`). In a handler that has pushed and is still in IRQ mode,
`crossException` may take a saved word for the frame of the BIOS (`Mistakable`; `walker.ts:456-463`).

### Expression, Placement, MemoryDiff, Scripting

`Expression` makes the parser's reductions, on a stack of compiled nodes; a closure is a
function on the moments it may be evaluated at. The reference is C, which promotes `u8`, `u16`
and narrow bit fields to `int`: where that makes a difference (`ConvertsAsC`) the code does not do
as in C, and nothing is claimed of the value. `Placement` reads the same entries as the
two readers of the code do; `Ask` and `Describe` fill memos, so the order of the questions
is part of the state. A member without a name is spelt as the code spells it, `<anon ...>`, which
no expression resolves: that names lead back is claimed of the others (`Spelt`). `MemoryDiff` keeps what the code caches (`view`, `version`) and
compares it with what would be computed now. `Scripting` runs frames whose events are
chosen, and a call may end at any of them.

### Adapter and States

A request that awaits is a task with a stage, in the order of the awaits of its handler:
`Launch`, `LaunchCreated`, then `ConfigurationDone` or `ConfigurationTimer` or a
termination; `Restart`, `RestartSaved`, `RestartCreated`, `RestartRetired`; `Terminate` (a
`disconnect` too: both are `#dispose` and an answer), `TerminateRetired`;
`Stream`, `StreamConnects`, `StreamFails`; `SetLabel`, `LabelWritten`. What does not await is
one action. A write of the labels' file may fail, at each place that writes it. The core session is
its state, epoch, revision, breakpoints and labels, and which of the adapter's listeners hear it.

A client may send any request while any others are under way, as far as there are tasks. The
adapter does not serialise them, and some overlaps break what it keeps otherwise. The
history variable `overlapped` says that one of those was begun (`Unserialised`): a launch, restart or
termination beside a launch; a restart or termination beside a restart; a stream that connects
beside a restart; and a second launch after the end of the session. No guard reads it.

`States` has the stages of `save`, `import`, `rename` and `delete` in files that may fail, or in the
transport's memory, in every overlap; its history variable `crossed` says that a file was
written while another request still went by what it had found there.

### Drivers

One machine and three drivers: Play's animation loop, the recorder's replay, and a debug
session. A task of the page is an action: a click with the effects React runs for it, a
callback, the session's interval with its microtask, the settling of a promise. A machine
is a version, which every frame and load makes a new one; a picture is the version it was
read from. A callback of the animation loop runs as many frames as its clock says, up to four,
and tells the recorder once. A page may be changed at any time, also while a state or a ROM
that was asked for is being read; the load then acts on the page it was asked on. `ghost.behind` marks
that until the next turn, and `ghost.single` that no callback ran several frames.

## The runs

| Run | Checks | Instance |
|---|---|---|
| `time_travel` | `HistoryIsThePast`, `RewindsExactlyWhatIsLogged`, `DrivesHistory`, `TakesReproduceTheRun` | three sessions: "rewinds", 4 polls a frame, one asleep, a write; "dozes", 3 polls, the first asleep, a keyframe every frame; "takes", 2 polls, the first asleep, one take; a save state of a frame's middle each |
| `console` | `EventsWillFire`, `LinesOnTheGrid`, `NoLostWakeup`, `TransfersHoldTheBus`, `FramesStayAligned`, `KeepsTime` (refines `CycleTimers`) | 2 timers, 2 channels, 2 lines of 6 cycles, 10 programs |
| `machine` | `ProcessorComputes`, `BurstsArePaid`, `BiosDelivers`, `ChipKeepsAsAsked` (refines `Battery`), `ReadsAhead` | `Cpu`, `MCBios`, `Cartridge`, `Prefetch` |
| `peripherals` | `BusIsOneMemory`, `TransfersRunOut`, `SoundKeepsTime`, `RestoredDrawsTheSame`, `PictureFollowsWrites`, `LinesMergeInOrder`; `TypeOK`, `RestoreBounded`, `WithinBudget`, `ImplementsExact` (refines `ExactHistory`) | `Bus`, `Serial`, `Sound`, `Picture`, `Merge`; `RewindHistory` with 2 cells, 2 masks, keyframe every 2 frames, 2 deltas between full ones, 8 frames |
| `inspection` | `DiffIsCurrent`, `ScriptsAddUp`, `ValuesAreTheProgram`, `WalkIsTrue`, `NamesLeadBack`, `StepsEndWhereAsked`, `PlacesAskedForStop` | `MemoryDiff`, `Scripting`, `Expression`, `Unwind`, `Placement`, `Stepping` |
| `front_ends` | `SessionsKept`, `EpochGrows`, `RequestsEnd`, `PagesTakeOver`, `StatesKept`, `HeldWillGo`, `PagesCatchUp`, `WaitsEnd` | `Adapter`, `Drivers` twice, `States`; `ScreenFeed` with 5 frames, one audio message, 2 connects, one page |
| `step_back`, `stale_screen`, `system_handler`, `memo`, `end_of_session`, `lost_state` | one promise each, and TLC refutes it | as above, see [below](#where-the-code-and-its-promises-differ) |

`time_travel`, `machine`, `peripherals`, `inspection` and `front_ends` check several instances
in one run: the variable `part`, fixed by the initial state, says which instance a
behaviour is of, and the variables of the others are idle. The instances do not act on one
another in a run of this kind; where components do interact they are composed in one module
(`Console`, `TimeTravel`, `ScreenFeed`, `Cpu`, `Stepping`, `Adapter`, `Drivers`).
A property of an MC module is the conjunction of the properties its instances state, each
with its own comment there.

What the properties say, beyond their names:

- `ImplementsExact`: after any pushes, rewinds and budget cuts, every keyframe decodes to
  the snapshot pushed for its frame on the present timeline, and every frame since the
  earliest has the mask recorded for it. With it, a delta chain is as good as storing
  everything.
- `HistoryIsThePast`: every keyframe restores a machine that the present one was, at the
  frame it is filed under.
- `RewindsExactlyWhatIsLogged`: the count of instructions is the frame's, or that of what is
  left of it when history begins inside it; a completed frame that ran with one mask is logged
  with that mask; and so a rewind, a step back or a reverse continue ends in a machine
  the run went through, *provided* every frame it replays ran with the one mask the log has
  for it and the user wrote nothing since the keyframe. The provisos are what the log cannot
  express, and the program of this instance does not use keypad interrupts (`KeypadIrq`).
- `DrivesHistory`: every step of a session changes its history in one of the three ways
  `RewindHistory` models, and stores no keyframe of a frame of which it has executed something,
  but where history began inside that frame. This is what carries the theorem about histories
  to the sessions that use them.
- `TakesReproduceTheRun`: the masks of a take are those its frames ran with, as far as
  history reaches; played from the machine it began on, it reproduces the run, provided
  each frame ran with one mask. One of the two polls of a frame is asleep, so a frame has
  one instruction there; frames of several are in "rewinds".
- `PagesCatchUp`: a page that stays open ends up on the newest frame the server has.
- `HeldWillGo`, `WaitsEnd`: a frame is held back only on a pipe whose `drain` is to come,
  it goes out or its pipe closes, and every connect settles.
- `KeepsTime`: whenever a counter is looked at, written, reloaded, stopped, switched or
  saved, and however late its overflow is serviced, it is what a counter that steps at every
  cycle would be. The program of this run does not write the control of a count-up timer
  while an overflow it counts waits (`CountUpRewritten`); with it, the timer counts one from
  before it was started.
- `EventsWillFire`, `NoLostWakeup`, `LinesOnTheGrid`, `FramesStayAligned`,
  `TransfersHoldTheBus`: the cached next event is the earliest and each has its callback,
  also in a restored machine; a sleeping CPU whose request is enabled has its wake-up on the
  way (the debugger's poke in Stop excepted); lines begin where the hardware has them
  whatever made their events late; and while a channel waits, the CPU does not execute.
- `ProcessorComputes`: once a handler has returned, every register of every mode, the flags,
  the saved statuses, memory and the opcodes in the pipeline are those of the program run
  alone, wherever the interrupt fell; and the sums, shifts and orders agree with the numbers.
- `BurstsArePaid`: a sequential access is paid for only right after an access that ends where
  it begins.
- `ChipKeepsAsAsked`: any clocking-in of a request, interrupted by save states or not, does
  what the request asks at once and whole, or nothing.
- `ReadsAhead`: each opcode handed over took the cartridge one sequential access of cycles in
  which nothing else used it, exactly so until the unit first stops; the buffer is never
  overfull; and no fetch waits longer than the cartridge would take, the unit's stop apart.
  Excepted from the last is a switch of the instruction set to an address inside the buffer, a
  WAITCNT changed under the unit, and one whose S access is dearer than its N access.
- `SoundKeepsTime`: registers, channels, FIFOs and samples of the APU that catches up are
  those of the one advanced every cycle. Two cases are left out: a sweep that changed the
  frequency in the middle of a slice, and samples heard by a host that looked past an
  overflow.
- `RestoredDrawsTheSame`, `PictureFollowsWrites`: saving and restoring at any point of a line
  changes no line drawn later; origins follow the writes to reference points, layers show
  two lines after they are enabled, mosaic blocks lie on the screen's grid, windows are what
  the registers name, wrapped and out of range included.
- `WalkIsTrue`: no frame of a walk that says it was derived names a caller that is not the
  caller or a register value that was not, and what was inferred says so; but for a register that
  agbcc's epilogue is putting back and the caller of a handler that pushed in IRQ mode.
- `StepsEndWhereAsked`, `PlacesAskedForStop`: for handlers that keep their mode; a step into
  never ends in a handler, step over in a callee, step out anywhere but in the caller; and
  no line, function or inlined copy with a breakpoint is executed but the one resumed at.
- `SessionsKept`: until requests met that nothing serialises, every session that lives is owned,
  by the adapter or by a request still under way; only the owned one is heard; it has the
  breakpoints, labels and audio the client asked of any; no request is answered twice; no cached
  row is of another moment. Each of the five can break once they met.
- `EpochGrows`: until then, the epoch a client is told falls only at the end of a restart that waited
  for labels to be written, and by no more than the old session's own.
- `RequestsEnd`: whatever overlaps, every request is answered, and a machine left to Play is handed
  over unless Debug is shown again.
- `PagesTakeOver`: Play gets the machine as the session left it and the session notices what happened
  to it, but from a load that finishes on the other page to the next turn; frames are paced by the
  clock however its callbacks divide them; a recording plays what ran if it began with no key held and
  each callback ran one frame.
- `StatesKept`: a state someone was told is kept is kept until a delete or a save of its name
  takes it, unless a file was written that another request still went by; the names listed lead
  back to their states in any case.

Bounds. Each is a constant named at its declaration.

- `MaxFrame`, 7 for a rewind history alone: at an interval of two, four keyframes, so that a full
  one, two deltas and the next full one exist at once. The budget of 6 holds two full keyframes
  and not one with two long deltas: it cuts after a full one and in the middle of a
  run of deltas.
- `MaxFrame`, 2 in the sessions: a frame replayed from a keyframe, one replayed from a
  frame that was replayed, and a third that is running. The budget makes history lose
  frame 0. Four polls with the second asleep let a step back land before, on and after the
  gap. In "dozes" every frame is on the grid and asleep at its first poll, so that a rewind
  to that poll leaves a keyframe of a frame's middle.
- `MaxTakes` 1, `Writes` 1: a second take or write adds no new relation between the two
  things the properties compare.
- `MaxFrames` 5: three fill the backlog, the fourth is held, the fifth replaces it or, with
  the defect below, overtakes it. `MaxConnects` 2: one overtakes the other.
- The console's hardware is scaled down. A line of 6 cycles with HBlank at 4, one line visible
  and one not: every kind of line and the end of a frame come within 12 cycles. Counters of
  two bits and prescalers 1 and 2: a timer overflows in every few instructions.
  `IrqDelay` 4 > `DmaStartDelay` 3 > `ReadOffset` 2 keeps the order of the code's 7, 3 and 2.
  Instructions of 1 and of 9 cycles: within every delay, and past a line. DMA transfers of one
  unit, and of five, which outlast a line.
- `Programs` of the console: each does what one question needs, with 1 to 4 register accesses
  and up to 14 cycles, long enough for cause, delay and effect; together they fire every action.
- The processor's words have twelve bits, wide enough for four bytes, a shift past the width
  and the fields of a status word. Each program is an opening (a mode, an instruction set,
  a state of the flags) and one instruction under test, every kind in every opening; one
  interrupt and one flush, each anywhere.
- `machine`: memories of 256 bytes; EEPROMs of two and four units of two bits; three requests,
  so that one follows one that was cut off; a prefetch buffer of 8 bytes before the ends of two
  pages of ROM, one with S accesses dearer than N ones, and 14 cycles: enough to fill the buffer,
  drain it and read on, and for the opcode in flight of the dear page to arrive.
- `peripherals`: two steps on the bus, a store and what sees it; serial transfers of one and two
  bits; six cycles of sound with a sequencer of one cycle, FIFOs of eight bytes; a screen of
  three lines in a frame of eight, since the layers' latch is held in two lines of VBlank.
- `inspection`: three captures and five steps of a diff; three script calls; five reductions,
  which is `(*(p + i)).m` and a comparison; five calls deep with one interrupt; two commands.
- `front_ends`: three requests and two sessions, enough for a restart overtaken by another
  request, one move of the machine and one reference; `MaxOps` 3 for the states, over three names of
  which two are one file; six versions of the machine. Once `overlapped` is set only what is under way
  goes on, since no safety property says more; `RequestsEnd` still has to hold.
  A frame of the pages takes 3 of 16 units, with callbacks after 2, 3, 7 and 16, so that a callback
  runs no frame, one, two and the most it may.

Fairness. `TimeTravel`, `RewindHistory`, `Console` and all instances of `machine`, `peripherals`
and `inspection` have none: their properties are safety. In `ScreenFeed` the kernel completes
writes, connects or refuses, and reports the end of a connection, and both programs read what
arrives: Node's event loop calls a socket's callbacks as long as it runs. Nobody is obliged to
emit a frame, send audio, connect, close, open a page or type. A page that never reads is not
covered: `PageTakes` is fair. In `Adapter` a request that awaits is resumed (`Resumed`): what it
awaits is a file, a socket or a timer, which settle, with a value or an error. `RequestsEnd` is of a bounded
number of requests, so that waiting ends where each does. In `Drivers` the
session's interval ticks (`SessionTick`) as long as it is set. Nothing else is fair there.

`CHECK_DEADLOCK FALSE` is set where the system really stops: when the bounded inputs are spent
and all is delivered.

Every property has a mutant in `PROJECT.json`: a form of a mapped definition that carries
a plausible mistake, which TLC must find to violate the property. They stand before the
definition they vary, marked as such.

## The proofs

`RewindHistoryProofs` proves of `RewindHistory`, for every set of cells and masks, every
interval, budget, size and number of frames that `HistoryAssumption` allows:

| Theorem | Establishes |
|---|---|
| `InvInvariant` | the inductive invariant `Inv` |
| `TypeCorrect` | `Spec => []TypeOK` |
| `RestoreIsBounded` | `Spec => []RestoreBounded` |
| `BudgetHolds` | `Spec => []WithinBudget` |
| `HistoryIsExact` | `Spec => ImplementsExact`: refinement of `ExactHistory` |

The invariant. `RestoreBounded` is not inductive: whether the next keyframe may be a delta
is decided by `sinceFull`, and a truncation recounts it from the chain it leaves, so `Inv`
says what it counts (`Bounded`: a full keyframe lies within `sinceFull` of the last one,
and within `FullEvery` of each). That the chain decodes at all needs `Chain`: it starts with
a full keyframe and its frames ascend, which truncating and cutting both preserve, and
`Push` requires since it truncates what is not earlier. `Inv` also says that no keyframe
and no input base is later than `now`; without that `RecordInput` would write before its
base and drop the entry.

The argument. `Decoded` is defined by `CHOOSE` on a recursive equation; `DecodedUnique`
shows by the least index at which two solutions differ that it has one, so it can be
reasoned about by its equation (`LeastNumber`, from the well-foundedness of finite
intervals, since the library's induction takes an operator parameter).
`TruncatedChain`, `AppendedChain` and `CutChain` say how decoding behaves under the three
things that happen to a chain, the last one with the new first keyframe rebuilt in full.
The lemmas `RecordInputCorrect`, `TruncateAfterCorrect`, `EnforceBudgetCorrect`,
`PushCorrect` then describe each operation by what a caller reads back, and the
refinement (`AnchorImplements`, `FinishImplements`, `GoBackImplements`) uses those only.

The budget. `WithinBudget` is about a sum over the chain, so `LeastNumber` first gives sums: a set of
naturals has a least member, a step on a set has a function on the naturals that iterates it,
and the sum of a function on a finite set is that of the rest of the set and one index's value.
`BytesOfNext`, `BytesOfAgree` and the lemmas after them say that the weight of a chain is that of its parts, so that every adjustment of `#bytes`,
a pop, a splice and a delta that becomes a full keyframe, adjusts it by what it changes; and that the loop of
`#enforceBudget`, the least cut that is within the budget, ends with one. `BudgetInv` is `Inv`
with the count (`Counted`) and the budget (`Affordable`).

`ConsoleProofs` proves first, of the operators of `Scheduler`, for every set of events and every
clock:

| Theorem | Establishes |
|---|---|
| `ScheduleAtSound`, `CancelSound`, `TakenSound` | scheduling or moving an event, cancelling one and firing one leave a scheduler whose cached cycle is that of the earliest event |
| `NextEventComesFirst` | the event fired is due, and before all others that are scheduled, ties going to the lowest identifier |
| `DeserializeSound` | a scheduler restored from its snapshot has the clock, the slots and the cached cycle it had |

The argument. `Earliest(due, v)` says without a minimum what it is for `v` to be the first
cycle; `FindsEarliest` and `EarliestIsFound` show that `#findNextEvent` returns just that, by the
least-number principle. `scheduleAt` then has three cases: the event was the earliest and may
have moved back, the new cycle is before the cached one, or neither, when the event the
cache is right about is another one. The rest of `ConsoleProofs`
carries them through every step of the machine.

`CpuProofs` proves of the operators of `Alu` and `Banks`, for every processor in a valid mode
and every width of word:

| Theorem | Establishes |
|---|---|
| `SwitchModeKeepsViews` | a switch of modes loses no register of any mode: what each mode sees is what it saw |
| `TakeExceptionSaves` | taking an exception keeps the status in the exception's own SPSR, and moves no register but its own link register |
| `ExceptionReturns` | an exception taken and returned from leaves status and registers as they were, but the exception's link register |
| `AdditionFlags` | the carry and overflow of an addition say that the unsigned and signed sums do not fit |

The argument. `View(c, m, i)` is register i as mode m sees it: live in the mode in force, in its
bank otherwise. Saving makes the old mode's banks right and restoring reads them, so the views
agree in three cases: a register of a pair, a high one, and one that all modes share. Modes
that share a bank (User and System) are why the case of equal banks is not that of equal modes.
An exception is such a switch followed by stores to one register and to its SPSR; the return is
a switch back. They are facts about operators: that whole programs are unaffected is what
`ProcessorComputes` checks, with the pipeline and memory.

`ConsoleProofs` then proves of `Console`, for every program, every lengths of instructions, lines,
frames and delays, and every timing of timers and transfers that the assumptions allow:

| Theorem | Establishes |
|---|---|
| `ConsoleInductive` | the inductive invariant `ConsoleInv` |
| `EventsFire` | `Spec => []EventsWillFire` |
| `LinesKeepTime` | `Spec => []LinesOnTheGrid` |
| `WakeupsArrive` | `Spec => []NoLostWakeup` |
| `BusIsHeld` | `Spec => []TransfersHoldTheBus` |
| `FramesAlign` | `Spec => FramesStayAligned` |

The invariant. None of the five is inductive by itself, because each device's step relies on
what the others leave alone: an overflow schedules an interrupt, an interrupt wakes the CPU,
a line starts a transfer, a transfer lets events come due late. `Works(x)` is the
conjunction: `Device` (types, the scheduler's cache and callbacks, every enabled channel
has units), `Wakes`, `OnGrid`, `BusHeld`. `ConsoleInv` says it of the running machine *and*
of what a snapshot was taken of (`SavedWorks`: a restored snapshot, its callbacks put
back by `#reattachSchedulerCallbacks`, works because the machine that was saved did); that no
transfer is in the middle of a unit while nothing runs; and that a run asked for a frame
is not past its first moment (`RunsToFrame`), from which `FramesAlign` follows.

The argument. Each operation of a device is a lemma of one form, `Kept(x, y, ids)`: the machine
works after it, slots outside `ids` and the lines are as they were, and who would be woken still
is. They compose by `KeptTrans`, so that a whole instruction, an event's callback or a write to
a timer is a chain of them. The overflows a late write has serviced before it are a recursive
function and the channels triggered together a fold; the lemmas of `LeastNumber` show that both
have the equation they are defined by, and the least step or the smallest set at which the
invariant would fail shows that it does not. `WakeupsArrive` has the exception the property has:
a debugger that writes IE (`poke`) while the CPU is in Stop.
`KeepsTime` is not proved: see below.

`TimeTravelProofs` proves of `TimeTravel`, for every number of polls in a frame, every set of those
the CPU sleeps through, all masks and save states, with keypad interrupts or without:

| Theorem | Establishes |
|---|---|
| `SessionInvariant` | the inductive invariant `SessionInv` |
| `KeyframesAreThePast` | `Spec => []HistoryIsThePast` |
| `InstructionsAreCounted` | `Spec => []CountsInstructions`, the first half of `RewindsExactlyWhatIsLogged` |
| `SessionDrivesHistory` | `Spec => H!Spec`: a session implements the specification of its history |
| `SessionInBudget`, `SessionIsExact` | so the history of a session keeps within its budget, and implements `ExactHistory` |

The invariant. `HistoryIsThePast` alone is lost at the first rewind: that what is left of the history
is the past of the machine the rewind ends in needs the keyframes to be pasts of *each other*, in the
order of their frames, which is `Past`. A replay begins at a keyframe and runs to the target, and
only a keyframe at the start of its frame can be replayed a whole frame at a time: all but
the first are, which is the last part of `Past`. `Counts` says what the counted instructions
are since; after a step back they are counted from the replay. `GoodHistory` is the invariant
of `RewindHistoryProofs` for a history none of which is later than the machine, and `CanRun`
that what waits to be pressed, and every frame of a take or a recording played back, is a mask.

The argument. A history is reasoned about by its *starts*, the pairs of a frame and the
snapshot its keyframe decodes to. The lemmas of `RewindHistoryProofs`, instantiated at the session's
history, say which starts each operation leaves: `PushCorrect` adds one and drops later and
cut ones, `TruncateAfterCorrect` keeps the earlier ones. With `PastGoesOn` an action is then
a run of the machine, which only appends to its log. The refinement has one case per action, each
mapped to `Anchor`, `FinishFrame`, `GoBack` or a stutter; the theorems about histories carry
over to the session by it, in two steps of temporal logic.

`ScreenFeedProofs` proves `HeldFramesGo`, `Spec => []HeldWillGo`, for any numbers of frames, audio
messages, connects and pages. A frame is held back when the pipe has too much queued, and sent by that
pipe's `drain`. So the invariant `FeedInv` says of *every* connection that it is `Marked`: whatever
is queued has a `drain` to come, unless it is a single audio message, which is below the
high-water mark; and that the stream is connecting or connected and not both, so that
nothing is held while there is no socket. `WritableLength` is a fold over what is queued; that it
is 0 of nothing and 1 of one audio message is all that is needed of it.

`FrontEndProofs` proves of `States`, for all names, files, numbers of requests, faults and for a
directory as well as a map in memory:

| Theorem | Establishes |
|---|---|
| `RequestsStand` | the inductive invariant `StatesInv` |
| `StatesAreKept` | `Spec => []StatesKept` |

A request finds out about the files and acts on it awaits later: an import that its name is free,
a rename that its target is free, or written, and that its source is what it read. `OnItsWay` says what
is known of a request whatever others do; `Found`, that what it has found out is still so, which
`StatesInv` claims until the files `crossed`. Nothing is assumed of which requests overlap.
Of imports alone `crossed` never comes true, since one writes at a time (`MyTurn`, the queue).
`Stays` is the strengthening of the property: what is owed is in a file that no rename under way
is about to remove.

It proves of `Adapter`, for any numbers of sessions, requests and references, whatever the client
sends and whenever:

| Theorem | Establishes |
|---|---|
| `AdapterInvariant` | the inductive invariant `AdapterInv` |
| `SessionsAreKept` | `AdapterSpec => []SessionsKept` |
| `EpochsGrow` | `AdapterSpec => EpochGrows` |

A handler reads `#session`, awaits, and goes on with what it read. `Holding` says what that is for each stage
of each request: a restart still has the adapter's session as its old one, and once it retires
that one, a new session of its own that is stopped; a launch that waits for its configuration has the
adapter's, stopped and not announced; a termination has one that is nobody's. It holds because of
`Alone`: no two launches or restarts are under way together, nor a restart and a stream that
connects. That is no assumption on the client: `Sends` sets `overlapped` where it would stop being so, and
the invariant is `overlapped \/ AdapterInv`, so that each lemma is about a step from an
`AdapterInv` that leaves `overlapped` false. `Held` is then stronger
than what it implies, that sessions are accounted for: only a restart's *new* session and a
termination's *old* one live without being the adapter's. `Untouched` says that before a launch there is nothing to lose,
`InUse` what the session requests go to has: the breakpoints, the audio, and, unless it is being replaced
or configured, a client that was told its state. `a.fresh` rests on the last part of `InUse`:
a reference accepted was made for this session, and the rows cached for it are of its revision now.
`EpochGrows` needs of `InUse` that the epoch told is at most the one the next state body tells;
at the end of a restart that waited for labels it may be more, by the old session's epoch, which
`CountedTwice` bounds.

The argument. Each operator on the adapter (`Stop`, `BeginRun`, `Retire`, `Adopt`, `Begin`,
`TakeOver`) has a lemma that says which fields it leaves and what it makes of the others;
`QuietKeeps` and `LightKeeps` are the steps that move no request, and none that matters; each
other action has a lemma of its own, by the parts of `AdapterInv` it disturbs.

`DeviceProofs` proves of `Serial`, for transfers of any length at any speed and any set of stores, of
`Prefetch`, for any buffer, settings of the waitstates, places to branch to and to load from, and of
`Cartridge`, for EEPROMs of any widths and units and flash chips of one bank or two with any offsets in use:

| Theorem | Establishes |
|---|---|
| `SerialTransfersRunOut` | `SerialSpec => []TransfersRunOut` |
| `UnitReadsAhead` | `PrefetchSpec => []ReadsAhead` |
| `ChipsKeepWhatIsAsked` | `CartSpec => ChipKeepsAsAsked`: refinement of `Battery` |

The serial port. `SerialInv` says more of `due` than the property does: it is the end of one of the transfers
begun, and the only one whose end is still to come. So a new transfer, which starts only where
none is due, begins after all others have ended, and the event ends the right one.
The same is true of a saved state (`Transfers` takes the port's state as parameters), since a load
brings it back; and a transfer due has its callback, which `ReattachEvents` restores.
That a product of bits and cycles is positive is what `LengthTakesTime` takes from the assumption.

The prefetch unit. `step` is a loop in the code and a division in the model. `StepReads` says of
that division what the loop is for: some number of opcodes are read, which fit in the buffer with the
one in progress, and the cycles spent are theirs. `Paced` relates the cycles since the unit began, the opcodes handed over
and those held; it is kept by steps (`StepKeepsPace`), by a unit that reads on (`ResumeKeepsPace`), by an
opcode served from the buffer and by one taken as it arrives, skipping those before it
(`ServedKeepsPace`, `ArrivingKeepsPace`). `PrefetchInv` adds `Fits`, room for the opcode that is being
read, without which a step may overfill the buffer; that a unit with nothing in progress has stopped
before (`mark.full`), without which reading on would break the exact count; and that its read time is the
S access of the setting in force, unless that was changed, from which the bound on the price of an opcode
that arrives follows (`PricesPositive`, `AccessPrice`). Quotients by a variable and products of
variables are beyond the provers as they stand: `QuotientBounds`, `TimesMonotone` and `CapacityHolds`
are the facts they need.

The cartridge's chips. A request's effect is at its last access, so the invariant `CartInv` must say what all the
others have made of the chip: it is determined by the request and the accesses still to come, as is what was read
(`EepromAt`, `FlashAt`). Of an EEPROM their number says how many bits of the address, of the unit written or of the
one sent have gone by (`WriteAt`, `ReadAt`). A flash chip is somewhere in an unlock sequence (`Unlocking`) or past
the command at its end. The same holds of a save state taken in the middle of a request, which is why loading one
goes on rightly, and a `.sav` is all the cartridge reaches (`FileOf`).

The argument. `EepromLineIs` and `FlashLineIs` say what a request's accesses are, by their index or by
what follows the unlock sequence. `HighBits` is what makes an address of its bits: k of them clocked in are the address
shifted by the others; it needs that `Pow2`, defined by recursion, has its equation (`Powers`, with `LeastNumber`) and that
quotients are unique. A read's width is settled only by the first access that is not a bit, from how many bits came before;
a write relies on it (`Legal`). `WriteStep`, `ReadStep` and, for flash, `BankStep`, `ProgramStep`, `EraseStep`, `ByteStep` and
`IdStep` take each access from one place to the next, the last one to an idle chip with the request done
(`EepromStep`, `FlashStep`). `AccessKeeps` and the lemmas beside it make of these the steps of the promise, where
all but the last access of a request are stutters.

What the constants are assumed to be is stated where they are declared, and TLC evaluates it
in the runs: there are at most four timers and four channels; a line has an HBlank inside
it and a frame a line that is not drawn; an instruction takes time; identifiers of events are a
finite set of numbers and `Never` is no cycle; an interval between keyframes, a frame and
a full keyframe every so often are at least one; the input masks hold "no button"; a snapshot is a finite
set of cells, of which there may be infinitely many; save states are machines of a frame
the instance reaches; a serial
transfer has bits and a bit takes cycles (`SerialAssumption`); the prefetch buffer is a whole number of words,
as its 16 bytes are, addresses are in the sixteen regions there are, and the settings are the fields of WAITCNT
and memory control (`PrefetchAssumption`); an EEPROM's narrow address is shorter than its wide one and
reaches no more than the array, a flash chip has one bank or two, and games write units of bits and bytes (`CartridgeAssumption`).

Only model-checked:

- liveness: `PagesCatchUp`, `WaitsEnd` and `RequestsEnd` rest on fairness, which the provers do
  not treat;
- everything about `Bios`, `Drivers`, `Merge`, `Picture`, `Placement` and `Unwind`, which declare
  RECURSIVE operators, and the properties their MC modules state of several parts at once;
- the rest of `RewindsExactlyWhatIsLogged` and `TakesReproduceTheRun`: they relate two states by what
  the log holds in between, frame by frame, and need an induction of their own over the frames replayed;
- `KeepsTime`, the refinement of `CycleTimers`: a cascade of timers caught up at once against one
  counted cycle by cycle, with the remainders of four prescalers;
- `Cpu` as it runs a program, `Bus`, `Sound`, `MemoryDiff`, `Scripting`,
  `Expression` and `Stepping`, so far.

## Where the code and its promises differ

Each is a run that TLC must find violated; `PROJECT.json` quotes both sides.

| Run | The promise | What happens |
|---|---|---|
| `step_back` | "exactly one instruction back, replayed" | a frame is logged when it completes. `#replayTo` presses what the log has for the frame that is still running: nothing, or what an abandoned timeline held |
| `stale_screen` | "the frame of a stop, which is the newest, always arrives", later than older ones | a frame may be written straight to the pipe while an older one is held back; that one then goes out on `drain`, last |
| `system_handler` | "An interrupt that preempts the step is not a call: its handler's lines are skipped" | only the mode tells a handler from the program. A dispatcher that calls its handler in System mode, as those of libgba and the decompilations do, ends a step into of a System-mode program in the handler |
| `memo` | "memoized, cycle-safe" | a typedef met while the struct it names is being described is remembered with the empty description that stands in for it: size 0 and no members, for good |
| `end_of_session` | "disposes the session on disconnect" | a launch that was reading its files when the session was terminated adopts the session it creates, whose machine and timers go on with nobody to end them; a restart does the same |
| `lost_state` | an import goes "under a name no state already has"; a rename to a name taken "is refused rather than overwriting it" | both look whether the name is free, await, and write. What is saved to the name meanwhile is written over |

Others met while modelling, which no run shows; the models take the code's side, and the properties
leave the case out by name, as said in their comments. Where the repository claims the contrary its
words are named:

- *Session.* A keyframe is not always "of the machine at the start of that frame" (`rewind.ts:80`): a
  reverse continue that ends in a poll the CPU sleeps through, before the frame's first instruction,
  pushes the middle of the frame (`session.ts:1302-1304`). A write by the user reaches neither the log nor a keyframe: a rewind to a later
  frame loses it. With keypad interrupts enabled, a replay calls `setButtons` for every frame
  and requests one each time (`KeypadIrq`). The masks of a take are read when it stops, and
  what the budget dropped reads as released.
- *Devices.* A control write of a count-up timer, or one that makes it count up, services no
  overflow that waits (`CountUpRewritten`). Enabling a second request in Stop, by a poke, does not
  signal while another enabled one is there. A serial mode changed in the middle of a
  transfer fills the register of the mode it ends in. A transparent pixel of an OBJ-window
  sprite takes part in the priority of the OBJ layer.
- *Bus and CPU.* Where WAITCNT makes an S access dearer than an N access, as it may for the
  upper wait states, a branch to the opcode in flight, or a fetch across a page border, waits for
  the unit longer than a new fetch would take. A byte store to palette or VRAM changes the byte beside it, whose watchpoint
  does not hear of it, nor does one of a flash cell that is erased. An EEPROM read that is
  abandoned misframes the next; a wide cartridge that writes before it reads is taken for a
  narrow one. An MSR of an SPSR or CPSR with an invalid mode leaves no bank. `refetchOverwrittenCode`
  misses a second opcode that straddles the border of a mirror.
- *Adapter.* Nothing serialises a launch, a restart and the end of a session. Besides `end_of_session`:
  a session is left unowned where two of launch and restart, a restart and a stream that connects, overlap; the
  client's picture of the machine is wrong after a launch met a launch, restart or termination, or a restart a
  termination; a launch that waits for its configuration is answered twice when the others end that wait;
  and references of an older launch are accepted after another. Two writes of the labels' file may
  finish out of order. A label set while a restart reads its files is lost with the next save:
  `SessionsKept` asks only for the labels set in the session there is. "`epoch` keeps growing across
  restarts" (`session.ts:316`) fails while a restart waits for the labels it saves: line 675 has
  counted the old session's epoch into the base and 676 awaits, so a state asked for meanwhile has an
  epoch that counts it twice, and the next one is smaller (`EpochNeverBack`).
- *Transports.* A cached state is not invalidated by a write, which moves its revision. A rename beside
  a save, an import or another rename writes over what the other put under its name (`lost_state`); an
  import beside a save or a rename likewise.
- *Labels.* Renaming an address deletes its old name from the index by name even where the name has
  moved to another address.
- *Web app.* A page changed while a state is being read has it loaded under the other driver, by what
  `active` was when it was asked for (`use-session.ts:139-143`). The recorder is "called on each
  emulator frame" (`input-recorder.ts:93`), but the loop runs up to four in a callback and calls it once
  (`emulator.ts:433-440`): a recording on a slow display is short (`EveryFrameCounted`). A
  recording does not know of keys held when it began; switching the tab unmounts the
  recorder's panel.
- *Expressions.* "Signedness follows C's usual arithmetic conversions ... exactly as in the program"
  (`expression.ts:17-23`) leaves out C's promotions: a `u8`, a `u16` or a narrow unsigned bit field beside a
  signed operand counts as unsigned, where C makes it an `int` (`ConvertsAsC`).
- *Debug information.* A placement is to be "the inverse of resolving an expression" (`placement.ts:6`);
  through a member without a name its path has `<anon ...>` (`values.ts:166`), which nothing resolves
  (`Spelt`). The two frames that the unwinder gets wrong without a doubt are those named
  [above](#stepping-and-unwind). `x[1][2]` is refused where the arrays are typedefs; `_Atomic` types are not
  peeled; a frame whose routine was torn down before a tail call takes the row of the old
  one. A recursive call without call-frame information ends a step over inside it.
- *Scripting.* The number of writes a watch dropped counts those its filter excludes; an unaligned
  address is written elsewhere than it says; a callback that throws leaves buttons held.

## What is left out

- *RewindHistory*: the framebuffer, which a delta does not carry, and the scalar fields, which
  travel verbatim. The run-length encoding is its size and its effect, not its bytes.
- *TimeTravel*: which instruction a step ends at (that is `Stepping`); the search that finds a reverse
  continue's target; watches, traces and statistics kept along the way; events and their
  listeners. Frames of a run that is not interrupted are one `Step` each.
- *ScreenFeed*: the framing of messages and of WebSockets, the HTTP side, ping and errors other
  than a closed connection. A button mask is not lost once its socket has it.
- *Console*: what is drawn, played, moved and read. A DMA's addresses, so a transfer that
  writes control registers; the sound FIFO and video capture channels (FIFO refills are in
  `Sound`); the DISPCNT latch event; the V-count and HBlank requests, which are asked for as
  VBlank's is; which keys KEYCNT selects; a 32-bit write of a timer's two registers, which are two
  instructions here; snapshots older than some event; an instruction the CPU refuses or that
  halts it for good.
- *Cpu*: which bits encode an instruction, the multiplier's meaningless carry, cycle prices
  (`Prefetch` has those of the bus), stubs and hooks.
- *Bios*: cycle prices, RegisterRamReset, the checksum, SoundBias, MidiKey2Freq; SWI 9's
  wrapper of the arctangent.
- *Sound*, *Picture*, *Merge*: the mixing and output ring; fetching of texels, of which only
  the addresses are modelled; affine sampling beyond its origins.
- *Unwind*: the frames of BIOS calls, and the choice of the instruction set at each address.
- *Stepping*: conditions, hit counts and log messages; stops by hardware events and watches.
- *Expression*: tokens and precedence, assignments, log messages and hit conditions.
- *Adapter*: requests that only read and answer are one of a kind (`AskState`, `Scopes`,
  `Variables`); listeners that call back into the session, which no host of the repository has.
- Not modelled at all: the parsers of ELF and DWARF sections, the disassembler, the protocol's
  serialisation, the views and the inspector's rendering, which compute data from data; the VS
  Code extension and the Node host, which forward; `poc/`, a prototype the packages replaced;
  the file format of labels.

## Plan

In the order of importance; what is done is marked.

1. **(done)** `RewindHistory`, `ExactHistory`, their proofs; `TimeTravel`.
2. **(done)** `ScreenFeed`; `Adapter`, `States`, `Drivers`.
3. **(done)** `Scheduler`, `Interrupts`, `Timers`, `Dma`, `Console`, `CycleTimers`.
4. **(done)** `Cpu` with `Alu`, `Banks`; `Bios`, `Bus`, `Prefetch`, `Cartridge`,
   `Serial`, `Sound`, `Picture`, `Merge`; `CpuProofs`.
5. **(done)** `Stepping`, `Unwind`, `Placement`, `Expression`, `MemoryDiff`, `Scripting`.
6. **(done)** The budget of `RewindHistory`; `ConsoleProofs`, `TimeTravelProofs`,
   `ScreenFeedProofs`, `FrontEndProofs`, `DeviceProofs`.
7. **(done)** The refinement of `Battery`, in `DeviceProofs`. To come: what a rewind replays (`RewindsInLog`).
8. Models: transfers that write registers, in `Console`; conditions and hit counts of
   breakpoints with the reverse search against a reference; labels and their file.
