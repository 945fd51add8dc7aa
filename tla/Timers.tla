--------------------------------- MODULE Timers ---------------------------------
(***************************************************************************)
(* The timers (packages/gba-emulator/src/timers.ts).  A counter is brought *)
(* up to date only when something asks for it or it overflows; the         *)
(* overflow's event fires ReadOffset cycles late, when a read could first  *)
(* see it, and a write that comes before that services it sooner.          *)
(*                                                                         *)
(* A machine has its timers in "timers".  The sound channels a timer's     *)
(* overflow drives are left out.                                           *)
(***************************************************************************)
EXTENDS Interrupts

CONSTANTS
  LastTimer,     \* timers are numbered from 0
  CounterSize,   \* counts before an overflow, 2^16
  Prescalers,    \* the periods a control write can choose
  ReadOffset,
  TimerFlag      \* the request flag of each timer

TimerIds == 0 .. LastTimer
TimerEvent(i) == 4 + i

ASSUME TimersAssumption ==
  /\ LastTimer \in 0 .. 3
  /\ CounterSize \in Nat \ {0}
  /\ Prescalers \subseteq Nat \ {0} /\ Prescalers # {}
  /\ ReadOffset \in Nat
  /\ \A i \in TimerIds : TimerEvent(i) \in Events /\ TimerFlag[i] \in Flags

Control == [prescaler : Prescalers, cascade : BOOLEAN, irqEnable : BOOLEAN, enabled : BOOLEAN]

NewTimer(prescaler) ==
  [counter |-> 0, reload |-> 0, last |-> 0,
   prescaler |-> prescaler, cascade |-> FALSE, irqEnable |-> FALSE, enabled |-> FALSE]

Free(t) == t.enabled /\ ~t.cascade
CountsUp(t) == t.enabled /\ t.cascade

\* The running timer whose prescaler drives timer i: the end of its count-up chain, or -1.
CountingTimer(m, i) ==
  LET drives(s) == Free(m.timers[s]) /\ \A j \in s + 1 .. i : CountsUp(m.timers[j])
  IN  IF \E s \in 0 .. i : drives(s) THEN CHOOSE s \in 0 .. i : drives(s) ELSE -1

Synced(t, now) ==
  LET ticks == (now - t.last) \div t.prescaler
  IN  IF ticks > 0
      THEN [t EXCEPT !.counter = (@ + ticks) % CounterSize, !.last = @ + ticks * t.prescaler]
      ELSE t

\* The last tick of a prescaler, which never stops, at or before a cycle.
PrescalerTick(prescaler, now) == now - (now % prescaler)

ScheduleOverflow(m, i) ==
  LET t == m.timers[i]
  IN  [m EXCEPT !.sched =
        ScheduleAt(@, TimerEvent(i), t.last + (CounterSize - t.counter) * t.prescaler + ReadOffset)]

\* An overflow of timer i makes the timers that count it up overflow in the same cycle.
Overflowing(m, i) ==
  {j \in i .. LastTimer :
     \A k \in i + 1 .. j : CountsUp(m.timers[k]) /\ m.timers[k].counter = CounterSize - 1}

OnOverflow(m, i, due) ==
  LET over == Overflowing(m, i)
      next == Cardinality(over) + i
      requests == {TimerFlag[j] : j \in {j \in over : m.timers[j].irqEnable}}
      counted == [m EXCEPT !.timers = [j \in TimerIds |->
                    LET t == m.timers[j]
                    IN  IF j \in over THEN [t EXCEPT !.counter = t.reload, !.last = due]
                        ELSE IF j = next /\ CountsUp(t) THEN [t EXCEPT !.counter = @ + 1]
                        ELSE t]]
      requested == IF requests = {} THEN counted ELSE Requested(counted, requests, due)
  IN  IF Free(m.timers[i]) THEN ScheduleOverflow(requested, i) ELSE requested

\* The overflow of timer i whose event is scheduled happened by the cycle `now`.
OverflowWaits(m, i, now) ==
  IsScheduled(m.sched, TimerEvent(i)) /\ m.sched.due[TimerEvent(i)] - ReadOffset <= now

\* A counter overflows at most once a cycle, from the cycle of the overflow that waits.
ServiceOverflowsBefore(m, i, now) ==
  LET id == TimerEvent(i)
      serviced[n \in Nat] ==
        IF n = 0 THEN m
        ELSE LET before == serviced[n - 1]
             IN  IF ~OverflowWaits(before, i, now) THEN before
                 ELSE OnOverflow([before EXCEPT !.sched = Cancel(@, id)], i,
                                 before.sched.due[id] - ReadOffset)
  IN  IF ~OverflowWaits(m, i, now) THEN m ELSE serviced[now + 1 + ReadOffset - m.sched.due[id]]

CounterRead(m, i) ==
  IF Free(m.timers[i])
  THEN [m EXCEPT !.timers[i] = Synced(@, m.sched.now - ReadOffset)]
  ELSE m

\* Mutant: the overflow of the write's own cycle takes the old value.
ReloadWrittenAfterOverflow(m, i, value) ==
  LET source == CountingTimer(m, i)
      serviced == IF source = -1 THEN m ELSE ServiceOverflowsBefore(m, source, m.sched.now)
  IN  [serviced EXCEPT !.timers[i].reload = value]

ReloadWritten(m, i, value) ==
  LET source == CountingTimer(m, i)
      serviced == IF source = -1 THEN m ELSE ServiceOverflowsBefore(m, source, m.sched.now - 1)
  IN  [serviced EXCEPT !.timers[i].reload = value]

\* A count-up timer's control is written as it stands: its source is not serviced.
ControlWritten(m, i, control) ==
  LET old == m.timers[i]
      now == m.sched.now
      upToDate ==
        IF Free(old)
        THEN LET serviced == ServiceOverflowsBefore(m, i, now)
             IN  [serviced EXCEPT !.timers[i] = Synced(@, now)]
        ELSE m
      cascade == i > 0 /\ control.cascade
      written == [upToDate EXCEPT !.timers[i] =
                    [@ EXCEPT !.prescaler = control.prescaler, !.cascade = cascade,
                              !.irqEnable = control.irqEnable, !.enabled = control.enabled]]
      onGrid(x) == [x EXCEPT !.timers[i].last = PrescalerTick(control.prescaler, now)]
      cancelled(x) == [x EXCEPT !.sched = Cancel(@, TimerEvent(i))]
      rateChanges == old.prescaler # control.prescaler \/ old.cascade # cascade
  IN  IF ~old.enabled /\ control.enabled
        THEN LET started == onGrid([written EXCEPT !.timers[i].counter = old.reload])
             IN  IF cascade THEN started ELSE ScheduleOverflow(started, i)
      ELSE IF old.enabled /\ ~control.enabled THEN cancelled(written)
      ELSE IF control.enabled /\ rateChanges
        THEN IF cascade THEN cancelled(onGrid(written)) ELSE ScheduleOverflow(onGrid(written), i)
      ELSE written

TimerEvents == {TimerEvent(i) : i \in TimerIds}
=================================================================================
