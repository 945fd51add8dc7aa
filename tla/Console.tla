--------------------------------- MODULE Console ---------------------------------
(***************************************************************************)
(* The emulated machine as it runs (packages/gba-emulator/src/gba.ts): one *)
(* loop fires the events that are due, one at a time, lets the CPU execute *)
(* until the next is, and lets time pass while the CPU sleeps.  The LCD's  *)
(* lines are a chain of events, and everything else that happens in time   *)
(* (timers, DMA, interrupt requests) is a slot of the same scheduler.      *)
(*                                                                         *)
(* A run of the loop ends with the frame or the line it was asked for, or  *)
(* where the debugger stops it.  Between runs, the machine is saved and    *)
(* restored, keys are pressed and registers are poked.                     *)
(*                                                                         *)
(* The CPU is what its instructions do to the rest: a register read or     *)
(* written, and the cycles it takes.  What is drawn, played and moved is   *)
(* left out; a program is the set of the things it does.                   *)
(***************************************************************************)
EXTENDS Dma

CONSTANTS
  LineCycles,     \* CYCLES_PER_SCANLINE
  HBlankStart,    \* HBLANK_START_CYCLE
  Lines,          \* TOTAL_SCANLINES
  VisibleLines,   \* VISIBLE_SCANLINES
  IrqCycles,      \* what entering an interrupt takes
  Lengths,        \* the cycles instructions take, a BIOS call's included
  Controls,       \* what a program writes to each timer's control
  Reloads,        \* and to its reload
  DmaControls,    \* and to a DMA channel
  DmaUnits,
  Programs,       \* what each program does, how often, and until when it is run
  CountUpRewritten, \* whether a program writes the control of a timer counted up
                    \* while an overflow that counts it waits to be serviced
  None

HBlank == 0
HBlankEnd == 1

ASSUME ConsoleAssumption ==
  /\ {LineCycles, HBlankStart, Lines, VisibleLines, IrqCycles} \subseteq Nat
  /\ HBlankStart \in 1 .. LineCycles - 1
  /\ VisibleLines \in 1 .. Lines - 1
  /\ Lengths \subseteq Nat \ {0}
  /\ \A p \in Programs : p.times \in Nat /\ p.until \in Nat
  /\ {HBlank, HBlankEnd} \subseteq Events
  /\ {"VBlank", "Keypad"} \subseteq Flags
  /\ \A i \in TimerIds : Controls[i] \subseteq Control
  /\ Reloads \subseteq 0 .. CounterSize - 1
  /\ DmaControls \subseteq [repeat : BOOLEAN, timing : Timings, irqEnable : BOOLEAN, enabled : BOOLEAN]
  /\ DmaUnits \subseteq Nat \ {0}
  /\ None \notin Nat

VARIABLES
  m,        \* the machine
  run,      \* what the run under way goes on until, or None between runs
  saved,    \* a snapshot, or None
  program,
  writes    \* the things done of those the program bounds

vars == <<m, run, saved, program, writes>>

-----------------------------------------------------------------------------
\* The line the machine is on has begun.
BeginLine(x, lineStart) == [x EXCEPT !.sched = ScheduleAt(@, HBlank, lineStart + HBlankStart)]

NewMachine ==
  BeginLine([sched |-> NewScheduler, irq |-> NewInterrupts,
             timers |-> [i \in TimerIds |-> NewTimer(Min(Prescalers))], dma |-> NewDma,
             line |-> 0, frame |-> 0, masked |-> FALSE, vblankIrq |-> FALSE], 0)

OnHBlank(x, due) ==
  LET triggered == IF x.line < VisibleLines THEN Trigger(x, "HBlank", due) ELSE x
  IN  [triggered EXCEPT !.sched = ScheduleAt(@, HBlankEnd, due + LineCycles - HBlankStart)]

\* Mutant: the next line begins when the event fires, late or not.
OnHBlankEndLate(x, due) ==
  LET wraps == x.line + 1 = Lines
      moved == [x EXCEPT !.line = IF wraps THEN 0 ELSE @ + 1, !.frame = IF wraps THEN @ + 1 ELSE @]
  IN  BeginLine(moved, x.sched.now)

OnVBlankStart(x, due) ==
  LET requested == IF x.vblankIrq THEN Requested(x, {"VBlank"}, due) ELSE x
  IN  Trigger(requested, "VBlank", due)

OnHBlankEnd(x, due) ==
  LET wraps == x.line + 1 = Lines
      moved == [x EXCEPT !.line = IF wraps THEN 0 ELSE @ + 1, !.frame = IF wraps THEN @ + 1 ELSE @]
  IN  BeginLine(IF moved.line = VisibleLines THEN OnVBlankStart(moved, due) ELSE moved, due)

\* What the event's own callback does.
Called(x, id, due) ==
  CASE id = HBlank -> OnHBlank(x, due)
    [] id = HBlankEnd -> OnHBlankEnd(x, due)
    [] id \in TimerEvents -> OnOverflow(x, id - TimerEvent(0), due - ReadOffset)
    [] id \in DmaEvents \ {DmaResume} -> RequestBus(x, id - DmaEvent(0))
    [] id = Irq -> OnSignal(x)
    [] id = DmaResume -> Run(x)
    [] OTHER -> x

\* Mutant: a pass fires a second event that is due (runDueEvents).
EventsRun(x) ==
  LET fired(y) == Called([y EXCEPT !.sched = Taken(@)], NextEvent(y.sched), y.sched.next)
      once == fired(x)
  IN  IF IsDue(once.sched) /\ ~once.dma.moving THEN fired(once) ELSE once

NextEventRun(x) ==
  LET id == NextEvent(x.sched)
      taken == [x EXCEPT !.sched = Taken(@)]
  IN  IF id \in x.sched.attached THEN Called(taken, id, x.sched.due[id]) ELSE taken

Serialized(x) ==
  [sched |-> Serialize(x.sched), irq |-> SerializeInterrupts(x.irq), timers |-> x.timers,
   dma |-> SerializeDma(x.dma), line |-> x.line, frame |-> x.frame, masked |-> x.masked,
   vblankIrq |-> x.vblankIrq]

\* Mutant: the events of the DMA channels get no callback back.
ReattachedWithoutDma(sched) ==
  Reattach(sched, {HBlank, HBlankEnd} \cup InterruptEvents \cup TimerEvents)

Reattached(sched) ==
  Reattach(sched, {HBlank, HBlankEnd} \cup InterruptEvents \cup TimerEvents \cup DmaEvents)

\* Into a new machine.
Deserialized(snap) ==
  [sched |-> Reattached(Deserialize(snap.sched)), irq |-> DeserializeInterrupts(snap.irq),
   timers |-> snap.timers, dma |-> DeserializeDma(snap.dma), line |-> snap.line,
   frame |-> snap.frame, masked |-> snap.masked, vblankIrq |-> snap.vblankIrq]

-----------------------------------------------------------------------------
Init ==
  /\ m = NewMachine
  /\ run = None
  /\ saved = None
  /\ program \in Programs
  /\ writes = 0

Does(op) == op \in program.does /\ writes < program.times /\ writes' = writes + 1

UntilFrame == [frame |-> m.frame + 1, line |-> None]
UntilNextLine == [frame |-> m.frame, line |-> m.line]

Done ==
  IF run.line = None THEN m.frame >= run.frame ELSE m.line # run.line \/ m.frame # run.frame

RunFrame ==
  /\ run = None
  /\ m.sched.now < program.until
  /\ run' = UntilFrame
  /\ UNCHANGED <<m, saved, program, writes>>

RunScanline ==
  /\ run = None
  /\ m.sched.now < program.until
  /\ "line" \in program.does
  /\ run' = UntilNextLine
  /\ UNCHANGED <<m, saved, program, writes>>

\* The loop goes on: no callback is at work, and what was asked for is not reached.
Running == run # None /\ ~m.dma.moving /\ ~Done

RunEnds ==
  /\ run # None
  /\ ~m.dma.moving
  /\ Done
  /\ run' = None
  /\ UNCHANGED <<m, saved, program, writes>>

FireEvent ==
  /\ Running
  /\ IsDue(m.sched)
  /\ m' = NextEventRun(m)
  /\ UNCHANGED <<run, saved, program, writes>>

\* A halted CPU sleeps until the next event: there is always one, the LCD's.
Sleep ==
  /\ Running
  /\ ~IsDue(m.sched)
  /\ m.irq.halted
  /\ m' = [m EXCEPT !.sched = Advance(@, @.next - @.now)]
  /\ UNCHANGED <<run, saved, program, writes>>

\* The CPU's turn: no event is due, and it is awake.
CpuRuns == Running /\ ~IsDue(m.sched) /\ ~m.irq.halted

EnterIrq ==
  /\ CpuRuns
  /\ IrqPending(m)
  /\ ~m.masked
  /\ m' = [m EXCEPT !.sched = Advance(@, IrqCycles), !.masked = TRUE]
  /\ UNCHANGED <<run, saved, program, writes>>

\* The debugger stops the run before an instruction, or while the CPU sleeps.
StopRun ==
  /\ Running
  /\ ~IsDue(m.sched)
  /\ ~(~m.irq.halted /\ IrqPending(m) /\ ~m.masked)
  /\ "break" \in program.does
  /\ run' = None
  /\ UNCHANGED <<m, saved, program, writes>>

\* An instruction that leaves the machine as `x`, and whose cycles are charged then.
Executes(x) ==
  /\ CpuRuns
  /\ ~(IrqPending(m) /\ ~m.masked)
  /\ \E cycles \in Lengths : m' = [x EXCEPT !.sched = Advance(@, cycles)]
  /\ UNCHANGED <<run, saved, program>>

Compute == Executes(m) /\ UNCHANGED writes

\* A timer whose overflow is yet to be serviced counts timer i up, or would.
CountWaits(i) ==
  /\ i > 0
  /\ LET source == CountingTimer(m, i - 1)
     IN  source # -1 /\ OverflowWaits(m, source, m.sched.now)

WriteTimerControl ==
  /\ Does("timer control")
  /\ \E i \in TimerIds : \E control \in Controls[i] :
       /\ CountUpRewritten \/ ~(CountWaits(i) /\ (control.cascade \/ m.timers[i].cascade))
       /\ Executes(ControlWritten(m, i, control))

WriteTimerReload ==
  /\ Does("timer reload")
  /\ \E i \in TimerIds, value \in Reloads : Executes(ReloadWritten(m, i, value))

ReadTimerCounter ==
  /\ Does("timer read")
  /\ \E i \in TimerIds : Executes(CounterRead(m, i))

WriteDmaControl ==
  /\ Does("dma")
  /\ \E i \in Channels, units \in DmaUnits, control \in DmaControls :
       Executes(DmaControlWritten(m, i, units, control))

WriteIe ==
  /\ Does("ie")
  /\ \E flags \in SUBSET Flags : Executes(IeWritten(m, flags))

WriteIf ==
  /\ Does("if")
  /\ \E flags \in SUBSET m.irq.flags : Executes(Acknowledged(m, flags))

WriteIme ==
  /\ Does("ime")
  /\ \E on \in BOOLEAN : Executes(ImeWritten(m, on))

WriteDispstat ==
  /\ Does("dispstat")
  /\ \E on \in BOOLEAN : Executes([m EXCEPT !.vblankIrq = on])

WriteCpsr ==
  /\ Does("cpsr")
  /\ Executes([m EXCEPT !.masked = ~@])

Halt ==
  /\ Does("halt")
  /\ Executes(Slept(m, Flags))

Stop ==
  /\ Does("stop")
  /\ Executes(Slept(m, StopFlags))

\* A pass of the run's loop, while a callback is in #run.
MovesUnits == run # None /\ m.dma.moving /\ UNCHANGED <<run, saved, program, writes>>

EndDma == MovesUnits /\ EndsRun(m) /\ m' = RunEnded(m)

PauseDma == MovesUnits /\ Pauses(m) /\ m' = Paused(m)

DropChannel ==
  /\ MovesUnits
  /\ ~EndsRun(m) /\ ~Pauses(m)
  /\ ~m.dma.channels[Current(m)].enabled
  /\ m' = Dropped(m)

MoveUnit ==
  /\ MovesUnits
  /\ ~EndsRun(m) /\ ~Pauses(m)
  /\ m.dma.channels[Current(m)].enabled
  /\ m' = UnitMoved(m)

\* Between runs: KEYCNT asks for an interrupt for the key.
PressKey ==
  /\ run = None
  /\ Does("key")
  /\ m' = Requested(m, {"Keypad"}, m.sched.now)
  /\ UNCHANGED <<run, saved, program>>

\* The debugger writes a register between runs, through the bus as the CPU does.
PokeIe ==
  /\ run = None
  /\ Does("poke")
  /\ \E flags \in SUBSET Flags : m' = IeWritten(m, flags)
  /\ UNCHANGED <<run, saved, program>>

Save ==
  /\ run = None
  /\ saved = None
  /\ "save" \in program.does
  /\ saved' = Serialized(m)
  /\ UNCHANGED <<m, run, program, writes>>

Load ==
  /\ run = None
  /\ saved # None
  /\ m' = Deserialized(saved)
  /\ UNCHANGED <<run, saved, program, writes>>

\* The machine starts over, and what was saved of it is not kept.
Reset ==
  /\ run = None
  /\ m.sched.now >= program.until
  /\ m' = NewMachine
  /\ saved' = None
  /\ UNCHANGED <<run, program, writes>>

Next ==
  \/ RunFrame \/ RunScanline \/ RunEnds \/ StopRun
  \/ FireEvent \/ Sleep \/ EnterIrq
  \/ EndDma \/ PauseDma \/ DropChannel \/ MoveUnit
  \/ Compute \/ WriteTimerControl \/ WriteTimerReload \/ ReadTimerCounter \/ WriteDmaControl
  \/ WriteIe \/ WriteIf \/ WriteIme \/ WriteDispstat \/ WriteCpsr \/ Halt \/ Stop
  \/ PressKey \/ PokeIe \/ Save \/ Load \/ Reset

Spec == Init /\ [][Next]_vars

-----------------------------------------------------------------------------
(* Properties *)

\* Whatever is scheduled will be fired, whatever was scheduled, moved, cancelled, fired
\* and restored: the run loop knows the earliest event (scheduler.ts, #nextEventCycle),
\* and each has the callback of its device, in a machine restored from a snapshot too,
\* which holds none (gba.ts, #reattachSchedulerCallbacks).
EventsWillFire ==
  /\ CachesEarliest(m.sched)
  /\ \A id \in Events : IsScheduled(m.sched, id) => id \in m.sched.attached

\* The lines are on the hardware's grid, however late a long instruction or a DMA makes
\* their events (gba.ts, #onHBlank and #onHBlankEnd): one of the two is always scheduled,
\* at its own cycle of the line the machine is on.
LinesOnTheGrid ==
  LET start == (m.frame * Lines + m.line) * LineCycles
  IN  \/ m.sched.due[HBlank] = start + HBlankStart /\ ~IsScheduled(m.sched, HBlankEnd)
      \/ m.sched.due[HBlankEnd] = start + LineCycles /\ ~IsScheduled(m.sched, HBlank)

\* A run that was asked for a frame ends as the frame does, before anything of the next
\* one happens, however often the debugger stopped it (gba.ts, runFrame).
FramesStayAligned ==
  [][RunEnds /\ run.line = None =>
       m.frame = run.frame /\ m.line = 0 /\ IsScheduled(m.sched, HBlank)]_vars

\* A sleeping CPU that an enabled request would wake is going to see it (interrupts.ts,
\* #onSignal is the only thing that wakes it).  Only a debugger that writes IE while the
\* CPU is stopped, and another request is enabled already, enables one it does not see.
NoLostWakeup ==
  /\ m.irq.halted
  /\ EnabledRequests(m) \cap m.irq.wake # {}
  /\ m.irq.wake = Flags \/ "poke" \notin program.does
  => IsScheduled(m.sched, Irq)

\* While channels wait for the bus, the CPU does not run and no time passes but the DMA's
\* (dma.ts, "once one has it the CPU stops until no channel is left"), and an enabled
\* channel has units to move: its count, taken down before it is looked at, would
\* otherwise go below zero and the transfer never let the bus go.
TransfersHoldTheBus ==
  /\ (m.dma.waiting # {} \/ m.dma.running) /\ ~m.dma.moving =>
       m.sched.due[DmaResume] # Never /\ m.sched.due[DmaResume] <= m.sched.now
  /\ \A i \in Channels : m.dma.channels[i].enabled => m.dma.channels[i].units > 0

\* A counter n steps on, and the times it overflows on its way.
Count(t, n) ==
  IF t.counter + n < CounterSize THEN t.counter + n
  ELSE t.reload + ((t.counter + n - CounterSize) % (CounterSize - t.reload))

Overflows(t, n) ==
  IF t.counter + n < CounterSize THEN 0
  ELSE 1 + ((t.counter + n - CounterSize) \div (CounterSize - t.reload))

\* The steps a machine's timers have yet to take to be where they are at the cycle `now`.
Steps(x, now) ==
  LET steps[i \in TimerIds] ==
        IF Free(x.timers[i]) THEN (now - x.timers[i].last) \div x.timers[i].prescaler
        ELSE IF CountsUp(x.timers[i]) /\ i > 0 THEN Overflows(x.timers[i - 1], steps[i - 1])
        ELSE 0
  IN  steps

\* The timers a machine, or a snapshot of one, amounts to at its cycle.
Amounts(x) ==
  [i \in TimerIds |->
    LET t == x.timers[i]
        steps == Steps(x, x.sched.now)[i]
    IN  [count |-> Count(t, steps),
         reload |-> t.reload, prescaler |-> t.prescaler, cascade |-> t.cascade, enabled |-> t.enabled,
         overflowed |-> Overflows(t, steps) > Overflows(t, Steps(x, x.sched.now - 1)[i])]]

Ideal == INSTANCE CycleTimers WITH
  FirstPrescaler <- Min(Prescalers),
  cycle <- m.sched.now,
  timers <- Amounts(m),
  kept <- IF saved = None THEN None
          ELSE [cycle |-> saved.sched.now, timers |-> Amounts(saved)]

\* The timers, brought up to date only now and then, count as if cycle by cycle
\* (timers.ts, READ_OFFSET and #serviceOverflowsBefore), across late events, DMA,
\* snapshots and writes.
KeepsTime == Ideal!Spec
=================================================================================
