------------------------------- MODULE CycleTimers -------------------------------
(***************************************************************************)
(* What the timers promise: counters that count cycle by cycle.  A running *)
(* timer counts at the cycles its prescaler divides, or, counting up, at   *)
(* those the timer before it overflows in; a timer that overflows goes on  *)
(* from its reload value, as it stands at the end of that cycle.  A write  *)
(* acts at the cycle it is made in, however long the machine then takes,   *)
(* and a machine restored from a snapshot has the counters it had.         *)
(***************************************************************************)
EXTENDS Integers

CONSTANTS
  LastTimer, CounterSize, Prescalers, Reloads, FirstPrescaler,
  None

TimerIds == 0 .. LastTimer

VARIABLES cycle, timers, kept

Timer == [count : 0 .. CounterSize - 1, reload : 0 .. CounterSize - 1, prescaler : Prescalers,
          cascade : BOOLEAN, enabled : BOOLEAN, overflowed : BOOLEAN]

Fresh == [i \in TimerIds |->
  [count |-> 0, reload |-> 0, prescaler |-> FirstPrescaler, cascade |-> FALSE, enabled |-> FALSE,
   overflowed |-> FALSE]]

\* The timers after a cycle.
Ticked(ts, c) ==
  LET overflows[i \in TimerIds] ==
        /\ ts[i].enabled
        /\ IF ts[i].cascade THEN i > 0 /\ overflows[i - 1] ELSE c % ts[i].prescaler = 0
        /\ ts[i].count = CounterSize - 1
      counts(i) ==
        ts[i].enabled /\ IF ts[i].cascade THEN i > 0 /\ overflows[i - 1] ELSE c % ts[i].prescaler = 0
  IN  [i \in TimerIds |->
        [ts[i] EXCEPT !.overflowed = overflows[i],
                      !.count = IF overflows[i] THEN ts[i].reload
                                ELSE IF counts(i) THEN @ + 1 ELSE @]]

\* What the timers of `tss` are at the cycle `to`, having been that at the cycle `from`.
Elapsed(tss, from, to) ==
  LET at[c \in from .. to] == IF c = from THEN tss ELSE {Ticked(ts, c) : ts \in at[c - 1]}
  IN  at[to]

Started(t, prescaler, cascade) ==
  [t EXCEPT !.prescaler = prescaler, !.cascade = cascade, !.enabled = TRUE,
            !.count = IF t.enabled THEN @ ELSE t.reload]

Stopped(t, prescaler, cascade) ==
  [t EXCEPT !.prescaler = prescaler, !.cascade = cascade, !.enabled = FALSE]

Written(t) ==
  {t}
    \cup {Started(t, p, c) : p \in Prescalers, c \in BOOLEAN}
    \cup {Stopped(t, p, c) : p \in Prescalers, c \in BOOLEAN}
    \cup {[t EXCEPT !.reload = r, !.count = IF t.overflowed THEN r ELSE @] : r \in Reloads}

\* One timer is written, or none.
Writes(ts) == UNION {{[ts EXCEPT ![i] = t] : t \in Written(ts[i])} : i \in TimerIds}

Init == cycle = 0 /\ timers = Fresh /\ kept = None

\* Something is written, or nothing, and time passes.
Pass ==
  /\ cycle' >= cycle
  /\ timers' \in Elapsed(Writes(timers), cycle, cycle')
  /\ UNCHANGED kept

Keep == kept' = [cycle |-> cycle, timers |-> timers] /\ UNCHANGED <<cycle, timers>>

Restore ==
  /\ kept # None
  /\ cycle' = kept.cycle /\ timers' = kept.timers
  /\ UNCHANGED kept

Reset == cycle' = 0 /\ timers' = Fresh /\ kept' = None

Next == Pass \/ Keep \/ Restore \/ Reset

Spec == Init /\ [][Next]_<<cycle, timers, kept>>
=================================================================================
