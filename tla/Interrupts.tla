------------------------------- MODULE Interrupts -------------------------------
(***************************************************************************)
(* The interrupt controller (packages/gba-emulator/src/interrupts.ts):     *)
(* IME, IE and IF, the sleep of the CPU, and the delay with which an       *)
(* enabled request reaches it.  Registers are sets of request flags.       *)
(*                                                                         *)
(* The operators work on a machine, a record with the scheduler in "sched" *)
(* and the controller in "irq".                                            *)
(***************************************************************************)
EXTENDS Scheduler

CONSTANTS
  Flags,       \* the requests there are, of which Stop ends on these:
  StopFlags,
  IrqDelay

Irq == 12
ImeLine == 15

ASSUME InterruptsAssumption ==
  /\ StopFlags \subseteq Flags
  /\ IrqDelay \in Nat
  /\ {Irq, ImeLine} \subseteq Events

NewInterrupts == [ime |-> FALSE, ie |-> {}, flags |-> {}, halted |-> FALSE, wake |-> Flags]

EnabledRequests(m) == m.irq.ie \cap m.irq.flags

\* The CPU sees a request: one is enabled, and is not on its way any more.
Signalled(m) == EnabledRequests(m) # {} /\ ~IsScheduled(m.sched, Irq)

OnSignal(m) ==
  IF EnabledRequests(m) \cap m.irq.wake # {} THEN [m EXCEPT !.irq.halted = FALSE] ELSE m

Signal(m, at) ==
  IF EnabledRequests(m) # {} /\ ~IsScheduled(m.sched, Irq)
  THEN [m EXCEPT !.sched = ScheduleAt(@, Irq, at + IrqDelay)]
  ELSE m

\* Mutant: a request beside one the CPU already sees is not looked at.
RequestedUnlessSignalled(m, flags, at) ==
  LET raised == [m EXCEPT !.irq.flags = @ \cup flags]
  IN  IF EnabledRequests(m) = {} THEN Signal(raised, at) ELSE raised

Requested(m, flags, at) ==
  LET raised == [m EXCEPT !.irq.flags = @ \cup flags]
  IN  IF EnabledRequests(m) = {} THEN Signal(raised, at)
      ELSE IF ~IsScheduled(m.sched, Irq) THEN OnSignal(raised)
      ELSE raised

Slept(m, wake) ==
  [m EXCEPT !.irq.wake = wake,
            !.irq.halted = ~(Signalled(m) /\ EnabledRequests(m) \cap wake # {})]

Acknowledged(m, flags) == [m EXCEPT !.irq.flags = @ \ flags]

IrqPending(m) == m.irq.ime /\ Signalled(m) /\ ~IsScheduled(m.sched, ImeLine)

\* Enabling a pending request signals the CPU, unless another is signalled already.
IeWritten(m, flags) ==
  LET written == [m EXCEPT !.irq.ie = flags]
  IN  IF EnabledRequests(m) = {} THEN Signal(written, m.sched.now) ELSE written

ImeWritten(m, on) ==
  LET written == [m EXCEPT !.irq.ime = on]
  IN  IF on /\ ~m.irq.ime /\ Signalled(m)
        THEN [written EXCEPT !.sched = ScheduleAt(@, ImeLine, @.now + IrqDelay)]
      ELSE IF ~on THEN [written EXCEPT !.sched = Cancel(@, ImeLine)]
      ELSE written

\* What the sleep waits for is kept as whether it is Stop.
SerializeInterrupts(irq) ==
  [ime |-> irq.ime, ie |-> irq.ie, flags |-> irq.flags, halted |-> irq.halted,
   stopped |-> irq.halted /\ irq.wake # Flags]

DeserializeInterrupts(snap) ==
  [ime |-> snap.ime, ie |-> snap.ie, flags |-> snap.flags, halted |-> snap.halted,
   wake |-> IF snap.stopped THEN StopFlags ELSE Flags]

InterruptEvents == {Irq, ImeLine}
=================================================================================
