----------------------------------- MODULE Dma -----------------------------------
(***************************************************************************)
(* The DMA channels (packages/gba-emulator/src/dma.ts): they share one bus *)
(* master, which moves a unit at a time, for the first channel that waits, *)
(* and lets the events that come due meanwhile fire in between.            *)
(*                                                                         *)
(* A machine has them in "dma".  "moving" and "moved" are the state of a   *)
(* run of #run that has not returned.  What is moved, and where, is left   *)
(* out; so are the sound FIFO and video capture channels.                  *)
(***************************************************************************)
EXTENDS Timers

CONSTANTS
  LastChannel,
  DmaStartDelay,
  RunEdgeCycles,  \* the internal cycle a run begins with, and the one it ends with
  UnitCycles,     \* what moving a unit takes, the read and the write
  DmaFlag         \* the request flag of each channel

Channels == 0 .. LastChannel
DmaEvent(i) == 8 + i
DmaResume == 16

ASSUME DmaAssumption ==
  /\ LastChannel \in 0 .. 3
  /\ {DmaStartDelay, RunEdgeCycles, UnitCycles} \subseteq Nat
  /\ DmaResume \in Events
  /\ \A i \in Channels : DmaEvent(i) \in Events /\ DmaFlag[i] \in Flags

Timings == {"Immediately", "VBlank", "HBlank"}

NewChannel ==
  [units |-> 0, latch |-> 1, repeat |-> FALSE, timing |-> "Immediately", irqEnable |-> FALSE,
   enabled |-> FALSE]

NewDma ==
  [channels |-> [i \in Channels |-> NewChannel], waiting |-> {}, running |-> FALSE,
   moving |-> FALSE, moved |-> FALSE]

ScheduleTransfer(m, i, at) == [m EXCEPT !.sched = ScheduleAt(@, DmaEvent(i), at + DmaStartDelay)]

Trigger(m, timing, at) ==
  LET triggered == {i \in Channels : m.dma.channels[i].enabled /\ m.dma.channels[i].timing = timing}
      start(i, acc) == ScheduleTransfer(acc, i, at)
  IN  FoldSet(start, m, triggered)

\* A write of CNT_L and CNT_H: the units to move, and the control bits.
DmaControlWritten(m, i, latch, control) ==
  LET old == m.dma.channels[i]
      written == [m EXCEPT !.dma.channels[i] =
                    [@ EXCEPT !.latch = latch, !.repeat = control.repeat, !.timing = control.timing,
                              !.irqEnable = control.irqEnable, !.enabled = control.enabled]]
      loaded == [written EXCEPT !.dma.channels[i].units = latch]
  IN  IF ~old.enabled /\ control.enabled
        THEN IF control.timing = "Immediately" THEN ScheduleTransfer(loaded, i, m.sched.now) ELSE loaded
      ELSE IF old.enabled /\ ~control.enabled
        THEN [written EXCEPT !.sched = Cancel(@, DmaEvent(i)), !.dma.waiting = @ \ {i}]
      ELSE written

Run(m) ==
  LET begun == [m EXCEPT !.sched = Cancel(@, DmaResume), !.dma.moving = TRUE, !.dma.moved = FALSE]
  IN  IF m.dma.running THEN begun
      ELSE [begun EXCEPT !.dma.running = TRUE, !.sched = Advance(@, RunEdgeCycles)]

\* A channel's start delay has passed.
RequestBus(m, i) ==
  LET asked == [m EXCEPT !.dma.waiting = @ \cup {i}]
  IN  IF m.dma.moving THEN asked ELSE Run(asked)

\* The alternatives of a pass of the run's loop.
EndsRun(m) == m.dma.waiting = {}
Pauses(m) == m.dma.waiting # {} /\ m.dma.moved /\ IsDue(m.sched)
Current(m) == Min(m.dma.waiting)

RunEnded(m) ==
  [m EXCEPT !.sched = Advance(@, RunEdgeCycles), !.dma.running = FALSE, !.dma.moving = FALSE]

\* Mutant: the run pauses and nothing resumes it.
PausedForGood(m) == [m EXCEPT !.dma.moving = FALSE]

Paused(m) == [m EXCEPT !.sched = ScheduleAt(@, DmaResume, @.now), !.dma.moving = FALSE]

Dropped(m) == [m EXCEPT !.dma.waiting = @ \ {Current(m)}]

\* Mutant: a repeating channel keeps the count its transfer ended with.
CompletedWithoutReload(m, i) ==
  LET ch == m.dma.channels[i]
      requested == IF ch.irqEnable THEN Requested(m, {DmaFlag[i]}, m.sched.now) ELSE m
  IN  [requested EXCEPT !.dma.channels[i].enabled = ch.repeat /\ ch.timing # "Immediately"]

OnTransferComplete(m, i) ==
  LET ch == m.dma.channels[i]
      requested == IF ch.irqEnable THEN Requested(m, {DmaFlag[i]}, m.sched.now) ELSE m
  IN  IF ch.repeat /\ ch.timing # "Immediately"
      THEN [requested EXCEPT !.dma.channels[i].units = ch.latch]
      ELSE [requested EXCEPT !.dma.channels[i].enabled = FALSE]

UnitMoved(m) ==
  LET i == Current(m)
      moved == [m EXCEPT !.sched = Advance(@, UnitCycles), !.dma.moved = TRUE,
                         !.dma.channels[i].units = @ - 1]
  IN  IF moved.dma.channels[i].units = 0
      THEN OnTransferComplete([moved EXCEPT !.dma.waiting = @ \ {i}], i)
      ELSE moved

SerializeDma(dma) ==
  [channels |-> dma.channels, waiting |-> dma.waiting, running |-> dma.running]

DeserializeDma(snap) ==
  [channels |-> snap.channels, waiting |-> snap.waiting, running |-> snap.running,
   moving |-> FALSE, moved |-> FALSE]

DmaEvents == {DmaEvent(i) : i \in Channels} \cup {DmaResume}
=================================================================================
