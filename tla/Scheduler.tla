-------------------------------- MODULE Scheduler --------------------------------
(***************************************************************************)
(* The event scheduler of the emulator                                     *)
(* (packages/gba-emulator/src/scheduler.ts): the machine's clock and one   *)
(* slot per event, fired one at a time, the earliest first, once the clock *)
(* has reached it.  The cycle of the earliest is cached.                   *)
(*                                                                         *)
(* A scheduler is a record, since everything that runs in the emulator     *)
(* schedules: the operators are used by the modules of the devices.  A     *)
(* slot is the cycle it is due at, Never when nothing is scheduled.  Of    *)
(* callbacks there is only whether a slot has its own: a snapshot holds    *)
(* none, and a new machine restored from one starts without.               *)
(***************************************************************************)
EXTENDS Integers, FiniteSetsExt

CONSTANTS
  Events,  \* the event identifiers: numbers, ties fire in their order
  Never    \* the cycle of no event, Infinity

ASSUME SchedulerAssumption ==
  /\ Events \subseteq Nat
  /\ IsFiniteSet(Events)
  /\ Never \notin Int

Scheduler ==
  [now : Nat, due : [Events -> Nat \cup {Never}], attached : SUBSET Events, next : Nat \cup {Never}]

IsScheduled(s, id) == s.due[id] # Never

\* The earliest of the cycles events are due at.
FindNextEvent(due) ==
  LET cycles == {due[id] : id \in Events} \ {Never}
  IN  IF cycles = {} THEN Never ELSE Min(cycles)

\* Mutant: an event that was the earliest is moved and still taken for it.
ScheduleAtKeepsNext(s, id, cycle) ==
  [s EXCEPT !.due[id] = cycle, !.attached = @ \cup {id},
            !.next = IF @ = Never \/ cycle < @ THEN cycle ELSE @]

ScheduleAt(s, id, cycle) ==
  LET due == [s.due EXCEPT ![id] = cycle]
      wasEarliest == IsScheduled(s, id) /\ s.due[id] = s.next
  IN  [s EXCEPT !.due = due, !.attached = @ \cup {id},
                !.next = IF wasEarliest THEN FindNextEvent(due)
                         ELSE IF @ = Never \/ cycle < @ THEN cycle
                         ELSE @]

Reattach(s, ids) == [s EXCEPT !.attached = @ \cup {id \in ids : IsScheduled(s, id)}]

Cancel(s, id) ==
  LET due == [s.due EXCEPT ![id] = Never]
  IN  IF ~IsScheduled(s, id) THEN s
      ELSE [s EXCEPT !.due = due, !.attached = @ \ {id},
                     !.next = IF s.due[id] = @ THEN FindNextEvent(due) ELSE @]

Advance(s, cycles) == [s EXCEPT !.now = @ + cycles]

IsDue(s) == s.next # Never /\ s.next <= s.now

\* The event runNextDueEvent fires; its slot is free when its callback runs, which may
\* schedule it again.
NextEvent(s) == Min({id \in Events : s.due[id] = s.next})

Taken(s) ==
  LET due == [s.due EXCEPT ![NextEvent(s)] = Never]
  IN  [s EXCEPT !.due = due, !.attached = @ \ {NextEvent(s)}, !.next = FindNextEvent(due)]

Serialize(s) == [now |-> s.now, due |-> s.due]

Deserialize(snap) ==
  [now |-> snap.now, due |-> snap.due, attached |-> {}, next |-> FindNextEvent(snap.due)]

NewScheduler == [now |-> 0, due |-> [id \in Events |-> Never], attached |-> {}, next |-> Never]

\* The cached cycle is that of the earliest event scheduled (#nextEventCycle): the run
\* loop stops the CPU by it, and would run past an event it is too late for.
CachesEarliest(s) == s.next = FindNextEvent(s.due)
=================================================================================
