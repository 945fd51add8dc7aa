------------------------------ MODULE ConsoleProofs ------------------------------
(***************************************************************************)
(* Proofs about the running machine: whatever is scheduled will fire, the  *)
(* lines are on the grid, no wakeup is lost, a transfer holds the bus and  *)
(* a run ends with its frame, for any program, any lengths of instructions *)
(* and any timing of the hardware.                                         *)
(***************************************************************************)
EXTENDS Console, LeastNumber, TLAPS

-----------------------------------------------------------------------------
(* The operators of the scheduler, for any set of events and any clock:    *)
(* whatever is done to a scheduler, the cycle it caches is that of the     *)
(* earliest event, and the event it fires is one that no other scheduled   *)
(* event comes before.                                                     *)

\* A scheduler whose cache is right.
Sound(s) == s \in Scheduler /\ CachesEarliest(s)

\* What makes a cycle that of the earliest event, without naming a minimum.
Earliest(due, v) ==
  \/ v = Never /\ \A id \in Events : due[id] = Never
  \/ /\ v \in Nat
     /\ \E id \in Events : due[id] = v
     /\ \A id \in Events : due[id] # Never => v <= due[id]

LEMMA NeverIsNoCycle == Never \notin Nat
BY SchedulerAssumption

\* #findNextEvent finds the earliest cycle.
LEMMA FindsEarliest ==
  ASSUME NEW due \in [Events -> Nat \cup {Never}]
  PROVE  FindNextEvent(due) \in Nat \cup {Never} /\ Earliest(due, FindNextEvent(due))
<1> DEFINE cycles == {due[id] : id \in Events} \ {Never}
<1>1. CASE cycles = {}
  BY <1>1 DEF FindNextEvent, Earliest
<1>2. CASE cycles # {}
  <2>1. cycles \in SUBSET Nat
    OBVIOUS
  <2>2. Min(cycles) \in cycles /\ \A y \in cycles : Min(cycles) <= y
    BY <1>2, <2>1, MinInNat
  <2>3. FindNextEvent(due) = Min(cycles)
    BY <1>2 DEF FindNextEvent
  <2> QED
    BY <2>1, <2>2, <2>3 DEF Earliest
<1> QED
  BY <1>1, <1>2

\* A cycle that is the earliest is the one #findNextEvent finds.
LEMMA EarliestIsFound ==
  ASSUME NEW due \in [Events -> Nat \cup {Never}], NEW v, Earliest(due, v)
  PROVE  v = FindNextEvent(due)
<1>1. Earliest(due, FindNextEvent(due)) /\ FindNextEvent(due) \in Nat \cup {Never}
  BY FindsEarliest
<1>2. CASE v = Never
  BY <1>1, <1>2, NeverIsNoCycle DEF Earliest
<1>3. CASE v \in Nat
  <2>1. PICK id \in Events : due[id] = v
    BY <1>3, NeverIsNoCycle DEF Earliest
  <2>2. FindNextEvent(due) \in Nat /\ FindNextEvent(due) <= v
    BY <1>1, <1>3, <2>1, NeverIsNoCycle DEF Earliest
  <2>3. PICK other \in Events : due[other] = FindNextEvent(due)
    BY <1>1, <2>2, NeverIsNoCycle DEF Earliest
  <2>4. v <= FindNextEvent(due)
    BY <1>3, <2>2, <2>3, NeverIsNoCycle DEF Earliest
  <2> QED
    BY <1>3, <2>2, <2>4
<1> QED
  BY <1>2, <1>3 DEF Earliest

LEMMA SoundIsEarliest ==
  ASSUME NEW s \in Scheduler
  PROVE  Sound(s) <=> Earliest(s.due, s.next)
<1>1. s.due \in [Events -> Nat \cup {Never}]
  BY DEF Scheduler
<1> QED
  BY <1>1, FindsEarliest, EarliestIsFound DEF Sound, CachesEarliest

\* Scheduling an event, moved or new, before or after the earliest, keeps the cache right
\* (scheduleAt).
THEOREM ScheduleAtSound ==
  ASSUME NEW s, Sound(s), NEW id \in Events, NEW cycle \in Nat
  PROVE  Sound(ScheduleAt(s, id, cycle))
<1> DEFINE due == [s.due EXCEPT ![id] = cycle]
           t == ScheduleAt(s, id, cycle)
<1>1. s \in Scheduler /\ s.due \in [Events -> Nat \cup {Never}] /\ s.next \in Nat \cup {Never}
  BY DEF Sound, Scheduler
<1>2. Earliest(s.due, s.next)
  BY <1>1, SoundIsEarliest
<1>3. due \in [Events -> Nat \cup {Never}] /\ due[id] = cycle
      /\ \A e \in Events \ {id} : due[e] = s.due[e]
  BY <1>1
<1>4. FindNextEvent(due) \in Nat \cup {Never} /\ Earliest(due, FindNextEvent(due))
  BY <1>3, FindsEarliest
<1>5. t.due = due
  BY <1>1 DEF ScheduleAt, Scheduler
<1>6. CASE IsScheduled(s, id) /\ s.due[id] = s.next
  <2>1. t.next = FindNextEvent(due)
    BY <1>1, <1>6 DEF ScheduleAt, Scheduler
  <2>2. t \in Scheduler
    BY <1>1, <1>3, <1>4, <1>6 DEF ScheduleAt, Scheduler
  <2> QED
    BY <2>1, <2>2, <1>5 DEF Sound, CachesEarliest
<1>7. CASE ~(IsScheduled(s, id) /\ s.due[id] = s.next)
  <2>1. CASE s.next = Never \/ cycle < s.next
    <3>1. t.next = cycle
      BY <1>1, <1>7, <2>1 DEF ScheduleAt, Scheduler
    <3>2. t \in Scheduler
      BY <1>1, <1>3, <1>7, <2>1 DEF ScheduleAt, Scheduler
    <3>3. Earliest(due, cycle)
      BY <1>1, <1>2, <1>3, <2>1, NeverIsNoCycle DEF Earliest
    <3> QED
      BY <3>1, <3>2, <3>3, <1>5, SoundIsEarliest
  <2>2. CASE ~(s.next = Never \/ cycle < s.next)
    <3>1. t.next = s.next
      BY <1>1, <1>7, <2>2 DEF ScheduleAt, Scheduler
    <3>2. t \in Scheduler
      BY <1>1, <1>3, <1>7, <2>2 DEF ScheduleAt, Scheduler
    <3>3. PICK first \in Events : s.due[first] = s.next
      BY <1>2, <2>2 DEF Earliest
    <3>4. first # id
      BY <1>7, <2>2, <3>3 DEF IsScheduled
    <3>5. Earliest(due, s.next)
      BY <1>1, <1>2, <1>3, <2>2, <3>3, <3>4, NeverIsNoCycle DEF Earliest
    <3> QED
      BY <3>1, <3>2, <3>5, <1>5, SoundIsEarliest
  <2> QED
    BY <2>1, <2>2
<1> QED
  BY <1>6, <1>7

\* Cancelling keeps the cache right, whether the event was the earliest, another or not
\* scheduled (cancel).
THEOREM CancelSound ==
  ASSUME NEW s, Sound(s), NEW id \in Events
  PROVE  Sound(Cancel(s, id))
<1> DEFINE due == [s.due EXCEPT ![id] = Never]
           t == Cancel(s, id)
<1>1. s \in Scheduler /\ s.due \in [Events -> Nat \cup {Never}] /\ s.next \in Nat \cup {Never}
  BY DEF Sound, Scheduler
<1>2. Earliest(s.due, s.next)
  BY <1>1, SoundIsEarliest
<1>3. due \in [Events -> Nat \cup {Never}] /\ due[id] = Never
      /\ \A e \in Events \ {id} : due[e] = s.due[e]
  BY <1>1
<1>4. FindNextEvent(due) \in Nat \cup {Never} /\ Earliest(due, FindNextEvent(due))
  BY <1>3, FindsEarliest
<1>5. CASE ~IsScheduled(s, id)
  BY <1>5 DEF Cancel
<1>6. CASE IsScheduled(s, id)
  <2>1. t.due = due
    BY <1>1, <1>6 DEF Cancel, Scheduler
  <2>2. CASE s.due[id] = s.next
    <3>1. t \in Scheduler /\ t.next = FindNextEvent(due)
      BY <1>1, <1>3, <1>4, <1>6, <2>2 DEF Cancel, Scheduler
    <3> QED
      BY <2>1, <3>1 DEF Sound, CachesEarliest
  <2>3. CASE s.due[id] # s.next
    <3>1. t \in Scheduler /\ t.next = s.next
      BY <1>1, <1>3, <1>6, <2>3 DEF Cancel, Scheduler
    <3>2. PICK first \in Events : s.due[first] = s.next
      BY <1>2, <1>6 DEF Earliest, IsScheduled
    <3>3. first # id
      BY <2>3, <3>2
    <3>4. s.next \in Nat
      BY <1>2, <1>6 DEF Earliest, IsScheduled
    <3>5. Earliest(due, s.next)
      BY <1>1, <1>2, <1>3, <3>2, <3>3, <3>4, NeverIsNoCycle DEF Earliest
    <3> QED
      BY <2>1, <3>1, <3>5, SoundIsEarliest
  <2> QED
    BY <2>2, <2>3
<1> QED
  BY <1>5, <1>6

\* When an event is due, the one fired is scheduled at the cached cycle, no scheduled
\* event is due before it, and of those due with it, it has the lowest identifier
\* (runNextDueEvent).
THEOREM NextEventComesFirst ==
  ASSUME NEW s, Sound(s), IsDue(s)
  PROVE  /\ NextEvent(s) \in Events
         /\ s.due[NextEvent(s)] = s.next /\ s.next <= s.now
         /\ \A id \in Events :
              IsScheduled(s, id) =>
                \/ s.due[NextEvent(s)] < s.due[id]
                \/ s.due[NextEvent(s)] = s.due[id] /\ NextEvent(s) <= id
<1> DEFINE first == {id \in Events : s.due[id] = s.next}
<1>1. s \in Scheduler /\ s.due \in [Events -> Nat \cup {Never}] /\ s.next \in Nat \cup {Never}
  BY DEF Sound, Scheduler
<1>2. Earliest(s.due, s.next)
  BY <1>1, SoundIsEarliest
<1>3. s.next \in Nat /\ s.next <= s.now
  BY <1>1 DEF IsDue
<1>4. first # {}
  BY <1>2, <1>3, NeverIsNoCycle DEF Earliest
<1>5. first \in SUBSET Nat
  BY SchedulerAssumption
<1>6. Min(first) \in first /\ \A y \in first : Min(first) <= y
  BY <1>4, <1>5, MinInNat
<1>7. NextEvent(s) = Min(first)
  BY DEF NextEvent
<1>8. NextEvent(s) \in Events /\ s.due[NextEvent(s)] = s.next
  BY <1>6, <1>7
<1>9. ASSUME NEW id \in Events, IsScheduled(s, id)
      PROVE  \/ s.due[NextEvent(s)] < s.due[id]
             \/ s.due[NextEvent(s)] = s.due[id] /\ NextEvent(s) <= id
  <2>1. s.due[id] \in Nat /\ s.next <= s.due[id]
    BY <1>1, <1>2, <1>3, <1>9, NeverIsNoCycle DEF Earliest, IsScheduled
  <2>2. s.due[id] = s.next => NextEvent(s) <= id
    BY <1>6, <1>7
  <2> QED
    BY <1>3, <1>8, <2>1, <2>2
<1> QED
  BY <1>3, <1>8, <1>9

\* Taking the event to fire leaves a right cache behind, which its callback schedules
\* into (runNextDueEvent).
THEOREM TakenSound ==
  ASSUME NEW s, Sound(s), IsDue(s)
  PROVE  Sound(Taken(s)) /\ ~IsScheduled(Taken(s), NextEvent(s))
<1> DEFINE due == [s.due EXCEPT ![NextEvent(s)] = Never]
<1>1. s \in Scheduler /\ s.due \in [Events -> Nat \cup {Never}] /\ NextEvent(s) \in Events
  BY NextEventComesFirst DEF Sound, Scheduler
<1>2. due \in [Events -> Nat \cup {Never}] /\ due[NextEvent(s)] = Never
  BY <1>1
<1>3. FindNextEvent(due) \in Nat \cup {Never}
  BY <1>2, FindsEarliest
<1>4. Taken(s).due = due /\ Taken(s).next = FindNextEvent(due) /\ Taken(s) \in Scheduler
  BY <1>1, <1>2, <1>3 DEF Taken, Scheduler
<1> QED
  BY <1>2, <1>4 DEF Sound, CachesEarliest, IsScheduled

\* A machine restored from a snapshot has a right cache, though the snapshot does not
\* hold it, and its slots are those saved (serialize, deserialize).
THEOREM DeserializeSound ==
  ASSUME NEW s, Sound(s)
  PROVE  LET restored == Deserialize(Serialize(s))
         IN  /\ Sound(restored)
             /\ restored.now = s.now /\ restored.due = s.due /\ restored.next = s.next
<1> DEFINE restored == Deserialize(Serialize(s))
<1>1. s \in Scheduler /\ s.due \in [Events -> Nat \cup {Never}] /\ s.now \in Nat
      /\ s.next = FindNextEvent(s.due)
  BY DEF Sound, Scheduler, CachesEarliest
<1>2. restored = [now |-> s.now, due |-> s.due, attached |-> {}, next |-> FindNextEvent(s.due)]
  BY DEF Serialize, Deserialize
<1>3. FindNextEvent(s.due) \in Nat \cup {Never}
  BY <1>1, FindsEarliest
<1>4. restored \in Scheduler
  BY <1>1, <1>2, <1>3 DEF Scheduler
<1> HIDE DEF restored
<1>5. Sound(restored)
  BY <1>1, <1>2, <1>4 DEF Sound, CachesEarliest
<1>6. restored.now = s.now /\ restored.due = s.due /\ restored.next = s.next
  BY <1>1, <1>2
<1> QED
  BY <1>5, <1>6 DEF restored

-----------------------------------------------------------------------------
(* The scheduler of a machine *)

DmaStarts == {DmaEvent(i) : i \in Channels}
Known == {HBlank, HBlankEnd} \cup InterruptEvents \cup TimerEvents \cup DmaEvents

\* The cache is right, what is scheduled is one of the machine's events and has its
\* callback, and an overflow has happened when its event fires.
SchedOK(s) ==
  /\ Sound(s)
  /\ \A id \in Events : IsScheduled(s, id) => id \in s.attached /\ id \in Known
  /\ \A id \in TimerEvents : IsScheduled(s, id) => s.due[id] >= ReadOffset

\* The slots outside ids, and the clock, are as they were.
SlotsKept(s, t, ids) ==
  /\ t.now = s.now
  /\ \A id \in Events \ ids : t.due[id] = s.due[id]

LEMMA EventsAre ==
  /\ Known \subseteq Events /\ Events \subseteq Nat
  /\ TimerEvents \subseteq Events /\ DmaStarts \subseteq Events
  /\ TimerEvents \subseteq 4 .. 7 /\ DmaStarts \subseteq 8 .. 11
  /\ DmaEvents = DmaStarts \cup {DmaResume}
  /\ HBlank = 0 /\ HBlankEnd = 1 /\ Irq = 12 /\ ImeLine = 15 /\ DmaResume = 16
  /\ {Irq, ImeLine, HBlank, HBlankEnd, DmaResume} \subseteq Events
<1>1. TimerEvents \subseteq Events /\ TimerEvents \subseteq 4 .. 7
  BY TimersAssumption DEF TimerEvents, TimerEvent, TimerIds
<1>2. DmaStarts \subseteq Events /\ DmaStarts \subseteq 8 .. 11
  BY DmaAssumption DEF DmaStarts, DmaEvent, Channels
<1>3. DmaEvents = DmaStarts \cup {DmaResume}
  BY DEF DmaEvents, DmaStarts
<1> QED
  BY <1>1, <1>2, <1>3, SchedulerAssumption, InterruptsAssumption, DmaAssumption, ConsoleAssumption
     DEF Known, HBlank, HBlankEnd, Irq, ImeLine, DmaResume, InterruptEvents

LEMMA SchedType ==
  ASSUME NEW s, SchedOK(s)
  PROVE  /\ s \in Scheduler /\ s.now \in Nat /\ s.due \in [Events -> Nat \cup {Never}]
         /\ \A id \in Events : IsScheduled(s, id) => s.due[id] \in Nat
BY DEF SchedOK, Sound, Scheduler, IsScheduled

\* A device schedules its event.
LEMMA ScheduleOK ==
  ASSUME NEW s, SchedOK(s), NEW id \in Known, NEW cycle \in Nat,
         id \in TimerEvents => cycle >= ReadOffset
  PROVE  /\ SchedOK(ScheduleAt(s, id, cycle))
         /\ SlotsKept(s, ScheduleAt(s, id, cycle), {id})
         /\ ScheduleAt(s, id, cycle).due[id] = cycle
         /\ IsScheduled(ScheduleAt(s, id, cycle), id)
<1> DEFINE t == ScheduleAt(s, id, cycle)
<1>1. s \in Scheduler /\ s.due \in [Events -> Nat \cup {Never}] /\ id \in Events
  BY SchedType, EventsAre
<1>2. Sound(t)
  BY <1>1, ScheduleAtSound DEF SchedOK
<1>3. t.due = [s.due EXCEPT ![id] = cycle] /\ t.attached = s.attached \cup {id} /\ t.now = s.now
  BY <1>1 DEF ScheduleAt, Scheduler
<1> HIDE DEF t
<1>4. t.due[id] = cycle /\ \A e \in Events \ {id} : t.due[e] = s.due[e]
  BY <1>1, <1>3
<1>5. IsScheduled(t, id)
  BY <1>4, NeverIsNoCycle DEF IsScheduled
<1>6. ASSUME NEW e \in Events, IsScheduled(t, e)
      PROVE  e \in t.attached /\ e \in Known
  BY <1>3, <1>4, <1>6 DEF SchedOK, IsScheduled
<1>7. ASSUME NEW e \in TimerEvents, IsScheduled(t, e)
      PROVE  t.due[e] >= ReadOffset
  <2>1. e \in Events
    BY EventsAre
  <2> QED BY <1>4, <1>7, <2>1 DEF SchedOK, IsScheduled
<1> QED BY <1>2, <1>3, <1>4, <1>5, <1>6, <1>7 DEF SchedOK, SlotsKept, t

\* A device cancels its event.
LEMMA CancelOK ==
  ASSUME NEW s, SchedOK(s), NEW id \in Events
  PROVE  /\ SchedOK(Cancel(s, id))
         /\ SlotsKept(s, Cancel(s, id), {id})
         /\ Cancel(s, id).due[id] = Never
<1> DEFINE t == Cancel(s, id)
<1>1. s \in Scheduler /\ s.due \in [Events -> Nat \cup {Never}]
  BY SchedType
<1>2. Sound(t)
  BY <1>1, CancelSound DEF SchedOK
<1>3. CASE ~IsScheduled(s, id)
  <2>1. t = s
    BY <1>3 DEF Cancel
  <2> QED BY <1>3, <2>1 DEF SlotsKept, IsScheduled
<1>4. CASE IsScheduled(s, id)
  <2>1. t.due = [s.due EXCEPT ![id] = Never] /\ t.attached = s.attached \ {id} /\ t.now = s.now
    BY <1>1, <1>4 DEF Cancel, Scheduler
  <2> HIDE DEF t
  <2>2. t.due[id] = Never /\ \A e \in Events \ {id} : t.due[e] = s.due[e]
    BY <1>1, <2>1
  <2>3. ASSUME NEW e \in Events, IsScheduled(t, e)
        PROVE  e \in t.attached /\ e \in Known
    BY <2>1, <2>2, <2>3 DEF SchedOK, IsScheduled
  <2>4. ASSUME NEW e \in TimerEvents, IsScheduled(t, e)
        PROVE  t.due[e] >= ReadOffset
    <3>1. e \in Events
      BY EventsAre
    <3> QED BY <2>2, <2>4, <3>1 DEF SchedOK, IsScheduled
  <2> QED BY <1>2, <2>1, <2>2, <2>3, <2>4 DEF SchedOK, SlotsKept, t
<1> QED BY <1>3, <1>4

\* Time passes.
LEMMA AdvanceOK ==
  ASSUME NEW s, SchedOK(s), NEW cycles \in Nat
  PROVE  /\ SchedOK(Advance(s, cycles))
         /\ Advance(s, cycles).now = s.now + cycles
         /\ Advance(s, cycles).due = s.due
<1> DEFINE t == Advance(s, cycles)
<1>1. s \in Scheduler /\ s.now \in Nat
  BY SchedType
<1>2. t.now = s.now + cycles /\ t.due = s.due /\ t.attached = s.attached /\ t.next = s.next
      /\ t \in Scheduler
  BY <1>1 DEF Advance, Scheduler
<1> HIDE DEF t
<1> QED BY <1>2 DEF SchedOK, Sound, CachesEarliest, IsScheduled, t

\* An event is taken to fire: it was the machine's, with its callback, and due.
LEMMA TakenOK ==
  ASSUME NEW s, SchedOK(s), IsDue(s)
  PROVE  /\ NextEvent(s) \in Known /\ NextEvent(s) \in s.attached
         /\ s.due[NextEvent(s)] \in Nat
         /\ NextEvent(s) \in TimerEvents => s.due[NextEvent(s)] >= ReadOffset
         /\ SchedOK(Taken(s))
         /\ SlotsKept(s, Taken(s), {NextEvent(s)})
         /\ Taken(s).due[NextEvent(s)] = Never
<1> DEFINE t == Taken(s)
           id == NextEvent(s)
<1>1. s \in Scheduler /\ s.due \in [Events -> Nat \cup {Never}] /\ s.next \in Nat
  BY SchedType DEF IsDue, Scheduler
<1>2. id \in Events /\ s.due[id] = s.next
  BY NextEventComesFirst DEF SchedOK
<1>3. IsScheduled(s, id) /\ s.due[id] \in Nat
  BY <1>1, <1>2, NeverIsNoCycle DEF IsScheduled
<1>4. Sound(t)
  BY TakenSound DEF SchedOK
<1>5. t.due = [s.due EXCEPT ![id] = Never] /\ t.attached = s.attached \ {id} /\ t.now = s.now
  BY <1>1 DEF Taken, Scheduler
<1> HIDE DEF t, id
<1>6. t.due[id] = Never /\ \A e \in Events \ {id} : t.due[e] = s.due[e]
  BY <1>1, <1>2, <1>5
<1>7. ASSUME NEW e \in Events, IsScheduled(t, e)
      PROVE  e \in t.attached /\ e \in Known
  BY <1>5, <1>6, <1>7 DEF SchedOK, IsScheduled
<1>8. ASSUME NEW e \in TimerEvents, IsScheduled(t, e)
      PROVE  t.due[e] >= ReadOffset
  <2>1. e \in Events
    BY EventsAre
  <2> QED BY <1>6, <1>8, <2>1 DEF SchedOK, IsScheduled
<1>9. id \in Known /\ id \in s.attached /\ (id \in TimerEvents => s.due[id] >= ReadOffset)
  BY <1>2, <1>3 DEF SchedOK
<1> QED BY <1>3, <1>4, <1>5, <1>6, <1>7, <1>8, <1>9 DEF SchedOK, SlotsKept, t, id

\* A scheduler restored from a snapshot, once its events have their callbacks back.
LEMMA RestoredOK ==
  ASSUME NEW s, SchedOK(s)
  PROVE  LET t == Reattached(Deserialize(Serialize(s)))
         IN  SchedOK(t) /\ t.now = s.now /\ t.due = s.due
<1> DEFINE d == Deserialize(Serialize(s))
           t == Reattached(d)
<1>1. Sound(d) /\ d.now = s.now /\ d.due = s.due
  BY DeserializeSound DEF SchedOK
<1> HIDE DEF d
<1>2. d \in Scheduler
  BY <1>1 DEF Sound
<1>3. /\ t.now = s.now /\ t.due = s.due /\ t.next = d.next
      /\ t.attached = d.attached \cup {id \in Known : IsScheduled(d, id)}
      /\ t \in Scheduler
  <2>1. {id \in Known : IsScheduled(d, id)} \subseteq Events
    BY EventsAre
  <2> QED BY <1>1, <1>2, <2>1 DEF Reattached, Reattach, Known, Scheduler
<1> HIDE DEF t
<1>4. Sound(t)
  BY <1>1, <1>3 DEF Sound, CachesEarliest
<1>5. ASSUME NEW e \in Events, IsScheduled(t, e)
      PROVE  e \in t.attached /\ e \in Known
  BY <1>1, <1>3, <1>5 DEF SchedOK, IsScheduled
<1> QED BY <1>3, <1>4, <1>5 DEF SchedOK, IsScheduled, t, d

-----------------------------------------------------------------------------
(* The machine and its parts *)

IrqState ==
  [ime : BOOLEAN, ie : SUBSET Flags, flags : SUBSET Flags, halted : BOOLEAN,
   wake : {Flags, StopFlags}]

TimerState ==
  [counter : 0 .. CounterSize - 1, reload : 0 .. CounterSize - 1, last : Nat,
   prescaler : Prescalers, cascade : BOOLEAN, irqEnable : BOOLEAN, enabled : BOOLEAN]

ChannelState ==
  [units : Nat, latch : Nat \ {0}, repeat : BOOLEAN, timing : Timings, irqEnable : BOOLEAN,
   enabled : BOOLEAN]

DmaState ==
  [channels : [Channels -> ChannelState], waiting : SUBSET Channels, running : BOOLEAN,
   moving : BOOLEAN, moved : BOOLEAN]

TimersState == [TimerIds -> TimerState]

Machine ==
  [sched : Scheduler, irq : IrqState, timers : TimersState, dma : DmaState,
   line : 0 .. Lines - 1, frame : Nat, masked : BOOLEAN, vblankIrq : BOOLEAN]

\* An enabled channel has units to move.
Loaded(dma) == \A i \in Channels : dma.channels[i].enabled => dma.channels[i].units > 0

\* A machine that works.
Device(x) == x \in Machine /\ SchedOK(x.sched) /\ Loaded(x.dma)

\* A sleeping CPU will see what wakes it; a poked one, unless it is in Stop.
Wakes(x, poked) ==
  x.irq.halted /\ EnabledRequests(x) \cap x.irq.wake # {} /\ (x.irq.wake = Flags \/ ~poked)
  => IsScheduled(x.sched, Irq)

\* A machine becomes another that works in the same cycle, by writing slots of ids alone
\* and no part of the DMA or the LCD, and sleeps no deeper.
Kept(x, y, ids, poked) ==
  /\ Device(y)
  /\ y.line = x.line /\ y.frame = x.frame /\ y.dma = x.dma
  /\ SlotsKept(x.sched, y.sched, ids)
  /\ Wakes(x, poked) => Wakes(y, poked)

LEMMA KeptTrans ==
  ASSUME NEW poked, NEW x, NEW y, NEW z, NEW i, NEW j, NEW ids,
         Kept(x, y, i, poked), Kept(y, z, j, poked), i \subseteq ids, j \subseteq ids
  PROVE  Kept(x, z, ids, poked)
BY DEF Kept, SlotsKept

LEMMA KeptSelf ==
  ASSUME NEW poked, NEW x, NEW ids, Device(x)
  PROVE  Kept(x, x, ids, poked)
BY DEF Kept, SlotsKept

\* A change of the scheduler alone.
LEMMA SchedKept ==
  ASSUME NEW poked, NEW x, Device(x), NEW s, SchedOK(s), NEW ids, SlotsKept(x.sched, s, ids),
         IsScheduled(x.sched, Irq) => IsScheduled(s, Irq)
  PROVE  LET y == [x EXCEPT !.sched = s]
         IN  /\ Kept(x, y, ids, poked)
             /\ y.sched = s /\ y.irq = x.irq /\ y.timers = x.timers
<1> DEFINE y == [x EXCEPT !.sched = s]
<1>1. x \in Machine /\ s \in Scheduler
  BY SchedType DEF Device
<1>2. /\ y \in Machine /\ y.sched = s /\ y.irq = x.irq /\ y.timers = x.timers /\ y.dma = x.dma
      /\ y.line = x.line /\ y.frame = x.frame
  BY <1>1 DEF Machine
<1> HIDE DEF y
<1> QED
  BY <1>2 DEF Kept, Device, Wakes, EnabledRequests, y

\* A change of the interrupt controller alone.
LEMMA IrqKept ==
  ASSUME NEW poked, NEW x, Device(x), NEW irq \in IrqState, NEW ids,
         LET y == [x EXCEPT !.irq = irq] IN Wakes(x, poked) => Wakes(y, poked)
  PROVE  LET y == [x EXCEPT !.irq = irq]
         IN  /\ Kept(x, y, ids, poked)
             /\ y.sched = x.sched /\ y.irq = irq /\ y.timers = x.timers
<1> DEFINE y == [x EXCEPT !.irq = irq]
<1>1. x \in Machine
  BY DEF Device
<1>2. /\ y \in Machine /\ y.sched = x.sched /\ y.irq = irq /\ y.timers = x.timers /\ y.dma = x.dma
      /\ y.line = x.line /\ y.frame = x.frame
  BY <1>1 DEF Machine
<1>3. Wakes(x, poked) => Wakes(y, poked)
  OBVIOUS
<1> HIDE DEF y
<1> QED
  BY <1>2, <1>3 DEF Kept, Device, SlotsKept, y

\* A change of the timers alone.
LEMMA TimersKept ==
  ASSUME NEW poked, NEW x, Device(x), NEW timers \in TimersState, NEW ids
  PROVE  LET y == [x EXCEPT !.timers = timers]
         IN  /\ Kept(x, y, ids, poked)
             /\ y.sched = x.sched /\ y.irq = x.irq /\ y.timers = timers
<1> DEFINE y == [x EXCEPT !.timers = timers]
<1>1. x \in Machine
  BY DEF Device
<1>2. /\ y \in Machine /\ y.sched = x.sched /\ y.irq = x.irq /\ y.timers = timers /\ y.dma = x.dma
      /\ y.line = x.line /\ y.frame = x.frame
  BY <1>1 DEF Machine
<1> HIDE DEF y
<1> QED
  BY <1>2 DEF Kept, Device, SlotsKept, Wakes, EnabledRequests, y

-----------------------------------------------------------------------------
(* The interrupt controller *)

LEMMA IrqType ==
  ASSUME NEW x, Device(x)
  PROVE  /\ x.irq \in IrqState /\ x.irq.ie \subseteq Flags /\ x.irq.flags \subseteq Flags
         /\ EnabledRequests(x) \subseteq Flags
         /\ x.sched.now \in Nat
BY SchedType DEF Device, Machine, IrqState, EnabledRequests

\* A signal is on its way, and the machine else as it was.
LEMMA SignalSent ==
  ASSUME NEW poked, NEW x, Device(x), NEW at \in Nat
  PROVE  /\ Kept(x, Signal(x, at), {Irq}, poked)
         /\ Wakes(Signal(x, at), poked)
         /\ Signal(x, at).timers = x.timers /\ Signal(x, at).irq = x.irq
<1> DEFINE s == ScheduleAt(x.sched, Irq, at + IrqDelay)
           y == [x EXCEPT !.sched = s]
<1>1. CASE EnabledRequests(x) # {} /\ ~IsScheduled(x.sched, Irq)
  <2>1. Signal(x, at) = y
    BY <1>1 DEF Signal
  <2>2. Irq \in Known /\ Irq \notin TimerEvents /\ at + IrqDelay \in Nat
    BY EventsAre, InterruptsAssumption DEF Known, InterruptEvents
  <2>3. SchedOK(s) /\ SlotsKept(x.sched, s, {Irq}) /\ IsScheduled(s, Irq)
    BY <2>2, ScheduleOK DEF Device
  <2> HIDE DEF s
  <2>4. /\ Kept(x, y, {Irq}, poked)
        /\ y.sched = s /\ y.irq = x.irq /\ y.timers = x.timers
    BY <2>3, SchedKept
  <2> QED BY <2>1, <2>3, <2>4 DEF Wakes
<1>2. CASE ~(EnabledRequests(x) # {} /\ ~IsScheduled(x.sched, Irq))
  <2>1. Signal(x, at) = x
    BY <1>2 DEF Signal
  <2> QED BY <1>2, <2>1, KeptSelf DEF Wakes
<1> QED BY <1>1, <1>2

\* Requests, of which an enabled one wakes a sleeping CPU or is on its way to it.
LEMMA RequestedOK ==
  ASSUME NEW poked, NEW x, Device(x), NEW flags \in SUBSET Flags, NEW at \in Nat
  PROVE  /\ Kept(x, Requested(x, flags, at), {Irq}, poked)
         /\ Requested(x, flags, at).timers = x.timers
<1> DEFINE irq == [x.irq EXCEPT !.flags = @ \cup flags]
           raised == [x EXCEPT !.irq.flags = @ \cup flags]
           awake == [raised EXCEPT !.irq.halted = FALSE]
           asleep == [irq EXCEPT !.halted = FALSE]
<1>0. x \in Machine /\ x.irq \in IrqState
  BY IrqType DEF Device
<1>1. raised = [x EXCEPT !.irq = irq]
  BY <1>0 DEF Machine
<1>2. irq \in IrqState /\ irq.halted = x.irq.halted /\ irq.wake = x.irq.wake /\ irq.ie = x.irq.ie
      /\ irq.flags = x.irq.flags \cup flags
  BY <1>0 DEF IrqState
<1> HIDE DEF irq
<1>3. /\ Kept(x, raised, {Irq}, poked) \/ ~(Wakes(x, poked) => Wakes(raised, poked))
      /\ raised.sched = x.sched /\ raised.irq = irq /\ raised.timers = x.timers
      /\ Device(raised) /\ raised.dma = x.dma /\ raised.line = x.line /\ raised.frame = x.frame
  BY <1>0, <1>1, <1>2 DEF Machine, Kept, Device, SlotsKept
<1> HIDE DEF raised
<1>4. CASE EnabledRequests(x) = {}
  <2>1. Requested(x, flags, at) = Signal(raised, at)
    BY <1>4 DEF Requested, raised
  <2>2. /\ Kept(raised, Signal(raised, at), {Irq}, poked)
        /\ Wakes(Signal(raised, at), poked)
        /\ Signal(raised, at).timers = x.timers
    BY <1>3, SignalSent
  <2> QED BY <1>3, <2>1, <2>2 DEF Kept, SlotsKept
<1>5. CASE EnabledRequests(x) # {} /\ ~IsScheduled(x.sched, Irq)
  <2>1. Requested(x, flags, at) = OnSignal(raised)
    BY <1>5 DEF Requested, raised
  <2>2. CASE EnabledRequests(raised) \cap raised.irq.wake # {}
    <3>1. OnSignal(raised) = awake
      BY <2>2 DEF OnSignal
    <3>2. asleep \in IrqState /\ asleep.halted = FALSE
      BY <1>2 DEF IrqState
    <3>3. awake = [raised EXCEPT !.irq = asleep]
      BY <1>3 DEF Device, Machine
    <3>4. Wakes(awake, poked)
      BY <1>3, <3>2, <3>3 DEF Wakes, Device, Machine
    <3> HIDE DEF awake, asleep
    <3>5. Kept(raised, awake, {Irq}, poked) /\ awake.timers = raised.timers
      BY <1>3, <3>2, <3>3, <3>4, IrqKept
    <3> QED BY <1>3, <2>1, <3>1, <3>4, <3>5 DEF Kept, SlotsKept
  <2>3. CASE EnabledRequests(raised) \cap raised.irq.wake = {}
    <3>1. OnSignal(raised) = raised
      BY <2>3 DEF OnSignal
    <3> QED BY <1>3, <2>1, <2>3, <3>1 DEF Wakes
  <2> QED BY <2>2, <2>3
<1>6. CASE EnabledRequests(x) # {} /\ IsScheduled(x.sched, Irq)
  <2>1. Requested(x, flags, at) = raised
    BY <1>6 DEF Requested, raised
  <2> QED BY <1>3, <1>6, <2>1 DEF Wakes
<1> QED BY <1>4, <1>5, <1>6

\* The CPU goes to sleep, unless it sees what wakes it.
LEMMA SleptOK ==
  ASSUME NEW poked, NEW x, Device(x), NEW wake \in {Flags, StopFlags}
  PROVE  Kept(x, Slept(x, wake), {}, poked)
<1> DEFINE halted == ~(Signalled(x) /\ EnabledRequests(x) \cap wake # {})
           irq == [x.irq EXCEPT !.wake = wake, !.halted = halted]
           y == [x EXCEPT !.irq = irq]
<1>1. x \in Machine /\ x.irq \in IrqState
  BY IrqType DEF Device
<1>2. Slept(x, wake) = y
  BY <1>1 DEF Slept, Machine
<1>3. halted \in BOOLEAN
  OBVIOUS
<1>4. irq \in IrqState /\ irq.wake = wake /\ irq.halted = halted /\ irq.ie = x.irq.ie
      /\ irq.flags = x.irq.flags
  <2> HIDE DEF halted
  <2> QED BY <1>1, <1>3 DEF IrqState
<1> HIDE DEF irq
<1>5. y.irq = irq /\ y.sched = x.sched
  BY <1>1 DEF Machine
<1>6. Wakes(y, poked)
  <2> HIDE DEF y
  <2> QED BY <1>4, <1>5 DEF Wakes, Signalled, EnabledRequests
<1> QED
  BY <1>2, <1>4, <1>6, IrqKept

\* IE is written by a CPU that is awake, or between runs.
LEMMA IeWrittenOK ==
  ASSUME NEW poked \in BOOLEAN, NEW x, Device(x), NEW flags \in SUBSET Flags,
         ~x.irq.halted \/ poked
  PROVE  Kept(x, IeWritten(x, flags), {Irq}, poked)
<1> DEFINE irq == [x.irq EXCEPT !.ie = flags]
           written == [x EXCEPT !.irq.ie = flags]
<1>0. x \in Machine /\ x.irq \in IrqState
  BY IrqType DEF Device
<1>1. written = [x EXCEPT !.irq = irq]
  BY <1>0 DEF Machine
<1>2. irq \in IrqState /\ irq.halted = x.irq.halted /\ irq.wake = x.irq.wake /\ irq.ie = flags
      /\ irq.flags = x.irq.flags
  BY <1>0 DEF IrqState
<1> HIDE DEF irq
<1>3. /\ written.sched = x.sched /\ written.irq = irq
      /\ Device(written) /\ written.dma = x.dma /\ written.line = x.line /\ written.frame = x.frame
      /\ SlotsKept(x.sched, written.sched, {Irq}) /\ x.sched.now \in Nat
  BY <1>0, <1>1, <1>2, IrqType DEF Machine, Device, SlotsKept
<1> HIDE DEF written
<1>4. CASE EnabledRequests(x) = {}
  <2>1. IeWritten(x, flags) = Signal(written, x.sched.now)
    BY <1>4 DEF IeWritten, written
  <2>2. /\ Kept(written, Signal(written, x.sched.now), {Irq}, poked)
        /\ Wakes(Signal(written, x.sched.now), poked)
    BY <1>3, SignalSent
  <2> QED BY <1>3, <2>1, <2>2 DEF Kept, SlotsKept
<1>5. CASE EnabledRequests(x) # {}
  <2>1. IeWritten(x, flags) = written
    BY <1>5 DEF IeWritten, written
  <2>2. ASSUME x.irq.halted, poked, x.irq.wake = Flags, Wakes(x, poked)
        PROVE  IsScheduled(x.sched, Irq)
    BY <1>5, <2>2, IrqType DEF Wakes
  <2>3. Wakes(x, poked) => Wakes(written, poked)
    BY <1>2, <1>3, <2>2 DEF Wakes
  <2> QED BY <1>3, <2>1, <2>3 DEF Kept
<1> QED BY <1>4, <1>5

\* IF is acknowledged.
LEMMA AcknowledgedOK ==
  ASSUME NEW poked, NEW x, Device(x), NEW flags
  PROVE  Kept(x, Acknowledged(x, flags), {}, poked)
<1> DEFINE irq == [x.irq EXCEPT !.flags = @ \ flags]
           y == [x EXCEPT !.irq = irq]
<1>1. x \in Machine /\ x.irq \in IrqState
  BY IrqType DEF Device
<1>2. Acknowledged(x, flags) = y
  BY <1>1 DEF Acknowledged, Machine
<1>3. irq \in IrqState /\ irq.halted = x.irq.halted /\ irq.wake = x.irq.wake /\ irq.ie = x.irq.ie
      /\ irq.flags = x.irq.flags \ flags
  BY <1>1 DEF IrqState
<1> HIDE DEF irq
<1>4. y.irq = irq /\ y.sched = x.sched
  BY <1>1 DEF Machine
<1>5. Wakes(x, poked) => Wakes(y, poked)
  <2> HIDE DEF y
  <2> QED BY <1>3, <1>4 DEF Wakes, EnabledRequests
<1> QED
  BY <1>2, <1>3, <1>5, IrqKept

\* IME is written.
LEMMA ImeWrittenOK ==
  ASSUME NEW poked, NEW x, Device(x), NEW on \in BOOLEAN
  PROVE  Kept(x, ImeWritten(x, on), {ImeLine}, poked)
<1> DEFINE irq == [x.irq EXCEPT !.ime = on]
           written == [x EXCEPT !.irq.ime = on]
           s == ScheduleAt(x.sched, ImeLine, x.sched.now + IrqDelay)
           c == Cancel(x.sched, ImeLine)
<1>0. x \in Machine /\ x.irq \in IrqState
  BY IrqType DEF Device
<1>1. written = [x EXCEPT !.irq = irq]
  BY <1>0 DEF Machine
<1>2. irq \in IrqState /\ irq.halted = x.irq.halted /\ irq.wake = x.irq.wake /\ irq.ie = x.irq.ie
      /\ irq.flags = x.irq.flags
  BY <1>0 DEF IrqState
<1> HIDE DEF irq
<1>3. /\ written.sched = x.sched /\ written.irq = irq /\ x.sched.now \in Nat
      /\ Device(written) /\ Kept(x, written, {ImeLine}, poked)
  BY <1>0, <1>1, <1>2, IrqType DEF Machine, Kept, Device, SlotsKept, Wakes, EnabledRequests
<1> HIDE DEF written
<1>4. /\ ImeLine \in Known /\ ImeLine \in Events /\ Irq \in Events /\ Irq # ImeLine
      /\ ImeLine \notin TimerEvents
      /\ x.sched.now + IrqDelay \in Nat
  BY <1>3, EventsAre, InterruptsAssumption DEF Known, InterruptEvents
<1>5. CASE on /\ ~x.irq.ime /\ Signalled(x)
  <2>1. SchedOK(s) /\ SlotsKept(x.sched, s, {ImeLine})
    BY <1>4, ScheduleOK DEF Device
  <2>2. ImeWritten(x, on) = [written EXCEPT !.sched = s]
    BY <1>3, <1>5 DEF ImeWritten, written
  <2> HIDE DEF s
  <2>3. IsScheduled(written.sched, Irq) => IsScheduled(s, Irq)
    BY <1>3, <1>4, <2>1 DEF SlotsKept, IsScheduled
  <2>4. Kept(written, [written EXCEPT !.sched = s], {ImeLine}, poked)
    BY <1>3, <2>1, <2>3, SchedKept
  <2> QED BY <1>3, <2>2, <2>4, KeptTrans
<1>6. CASE ~on
  <2>1. SchedOK(c) /\ SlotsKept(x.sched, c, {ImeLine})
    BY <1>4, CancelOK DEF Device
  <2>2. ImeWritten(x, on) = [written EXCEPT !.sched = c]
    BY <1>3, <1>6 DEF ImeWritten, written
  <2> HIDE DEF c
  <2>3. IsScheduled(written.sched, Irq) => IsScheduled(c, Irq)
    BY <1>3, <1>4, <2>1 DEF SlotsKept, IsScheduled
  <2>4. Kept(written, [written EXCEPT !.sched = c], {ImeLine}, poked)
    BY <1>3, <2>1, <2>3, SchedKept
  <2> QED BY <1>3, <2>2, <2>4, KeptTrans
<1>7. CASE ~(on /\ ~x.irq.ime /\ Signalled(x)) /\ on
  <2>1. ImeWritten(x, on) = written
    BY <1>7 DEF ImeWritten, written
  <2> QED BY <1>3, <2>1
<1> QED BY <1>5, <1>6, <1>7

-----------------------------------------------------------------------------
(* The timers *)

TimerSlots == TimerEvents \cup {Irq}

LEMMA PrescalerIs ==
  ASSUME NEW p \in Prescalers
  PROVE  p \in Nat \ {0}
BY TimersAssumption

LEMMA CountIs ==
  ASSUME NEW c \in 0 .. CounterSize - 1
  PROVE  c \in Nat /\ c < CounterSize
BY TimersAssumption

LEMMA TimerType ==
  ASSUME NEW x, Device(x), NEW i \in TimerIds
  PROVE  /\ x.timers \in TimersState /\ x.timers[i] \in TimerState
         /\ x.timers[i].counter \in Nat /\ x.timers[i].counter < CounterSize
         /\ x.timers[i].reload \in 0 .. CounterSize - 1
         /\ x.timers[i].last \in Nat
         /\ x.timers[i].prescaler \in Nat \ {0} /\ x.timers[i].prescaler \in Prescalers
<1>1. x.timers \in TimersState
  BY DEF Device, Machine
<1>2. x.timers[i] \in TimerState
  BY <1>1 DEF TimersState
<1>3. /\ x.timers[i].counter \in 0 .. CounterSize - 1 /\ x.timers[i].reload \in 0 .. CounterSize - 1
      /\ x.timers[i].last \in Nat /\ x.timers[i].prescaler \in Prescalers
  BY <1>2 DEF TimerState
<1>4. x.timers[i].prescaler \in Nat \ {0}
  BY <1>3, PrescalerIs
<1>5. x.timers[i].counter \in Nat /\ x.timers[i].counter < CounterSize
  BY <1>3, CountIs
<1> QED BY <1>1, <1>2, <1>3, <1>4, <1>5

LEMMA TimerEventIs ==
  ASSUME NEW i \in TimerIds
  PROVE  /\ TimerEvent(i) \in TimerEvents /\ TimerEvent(i) \in Events /\ TimerEvent(i) \in Known
         /\ TimerEvent(i) # Irq /\ TimerEvent(i) \in Nat /\ Irq \in Events
BY EventsAre DEF TimerEvents, Known

\* One timer of a machine is written.
LEMMA TimerKept ==
  ASSUME NEW poked, NEW x, Device(x), NEW i \in TimerIds, NEW t \in TimerState, NEW ids
  PROVE  LET y == [x EXCEPT !.timers[i] = t]
         IN  /\ Kept(x, y, ids, poked)
             /\ y.sched = x.sched /\ y.irq = x.irq
             /\ y.timers[i] = t /\ \A j \in TimerIds \ {i} : y.timers[j] = x.timers[j]
<1> DEFINE timers == [x.timers EXCEPT ![i] = t]
<1>1. timers \in TimersState /\ timers[i] = t /\ \A j \in TimerIds \ {i} : timers[j] = x.timers[j]
  BY TimerType DEF TimersState
<1>2. [x EXCEPT !.timers[i] = t] = [x EXCEPT !.timers = timers]
  BY DEF Device, Machine
<1> HIDE DEF timers
<1>3. LET y == [x EXCEPT !.timers = timers]
      IN  /\ Kept(x, y, ids, poked)
          /\ y.sched = x.sched /\ y.irq = x.irq /\ y.timers = timers
  BY <1>1, TimersKept
<1> QED
  BY <1>1, <1>2, <1>3

\* What Synced leaves a timer as is a timer.
LEMMA SyncedOK ==
  ASSUME NEW t \in TimerState, NEW now \in Int
  PROVE  Synced(t, now) \in TimerState
<1> DEFINE ticks == (now - t.last) \div t.prescaler
<1>0. t.last \in Nat /\ t.prescaler \in Prescalers /\ t.counter \in 0 .. CounterSize - 1
  BY DEF TimerState
<1>1. t.last \in Nat /\ t.prescaler \in Nat \ {0} /\ t.counter \in Nat
  BY <1>0, PrescalerIs, CountIs
<1>2. ticks \in Int
  BY <1>1
<1> HIDE DEF ticks
<1>3. CASE ticks > 0
  <2>1. (t.counter + ticks) % CounterSize \in 0 .. CounterSize - 1
    BY <1>1, <1>2, <1>3, TimersAssumption
  <2>2. t.last + ticks * t.prescaler \in Nat
    BY <1>1, <1>2, <1>3
  <2>3. Synced(t, now) = [t EXCEPT !.counter = (t.counter + ticks) % CounterSize,
                                   !.last = t.last + ticks * t.prescaler]
    BY <1>3 DEF Synced, ticks, TimerState
  <2> QED BY <2>1, <2>2, <2>3 DEF TimerState
<1>4. CASE ~(ticks > 0)
  BY <1>4 DEF Synced, ticks
<1> QED BY <1>3, <1>4

\* A timer's overflow is scheduled ReadOffset after it happens.
LEMMA ScheduleOverflowOK ==
  ASSUME NEW poked, NEW x, Device(x), NEW i \in TimerIds
  PROVE  Kept(x, ScheduleOverflow(x, i), TimerSlots, poked)
<1> DEFINE t == x.timers[i]
           left == (CounterSize - t.counter) * t.prescaler
           at == t.last + left + ReadOffset
           s == ScheduleAt(x.sched, TimerEvent(i), at)
<1>1. left \in Nat
  <2>1. CounterSize - t.counter \in Nat /\ t.prescaler \in Nat
    BY TimerType, TimersAssumption
  <2> QED BY <2>1
<1> HIDE DEF left
<1>2. at \in Nat /\ at >= ReadOffset
  BY <1>1, TimerType, TimersAssumption
<1> HIDE DEF at
<1>3. SchedOK(s) /\ SlotsKept(x.sched, s, {TimerEvent(i)})
  BY <1>2, TimerEventIs, ScheduleOK DEF Device
<1>4. ScheduleOverflow(x, i) = [x EXCEPT !.sched = s]
  BY DEF ScheduleOverflow, s, at, left
<1> HIDE DEF s
<1>5. IsScheduled(x.sched, Irq) => IsScheduled(s, Irq)
  BY <1>3, TimerEventIs DEF SlotsKept, IsScheduled
<1>6. SlotsKept(x.sched, s, TimerSlots)
  BY <1>3, TimerEventIs DEF SlotsKept, TimerSlots
<1> QED BY <1>3, <1>4, <1>5, <1>6, SchedKept

\* The timers that overflow together are those up to the first that does not.
LEMMA OverflowingIs ==
  ASSUME NEW x, NEW i \in TimerIds
  PROVE  LET over == Overflowing(x, i)
             next == Cardinality(over) + i
         IN  /\ next \in i + 1 .. LastTimer + 1
             /\ over = i .. next - 1
             /\ next \in TimerIds => ~(CountsUp(x.timers[next])
                                       /\ x.timers[next].counter = CounterSize - 1)
<1> DEFINE over == Overflowing(x, i)
           Full(k) == CountsUp(x.timers[k]) /\ x.timers[k].counter = CounterSize - 1
           Ends == {k \in i + 1 .. LastTimer + 1 : k = LastTimer + 1 \/ ~Full(k)}
<1> HIDE DEF Full
<1>1. i \in Nat /\ LastTimer \in Nat /\ i <= LastTimer
  BY TimersAssumption DEF TimerIds
<1>2. PICK e \in Ends : \A k \in Ends : e <= k
  <2>1. Ends \in SUBSET Nat /\ LastTimer + 1 \in Ends
    BY <1>1
  <2> HIDE DEF Ends
  <2> QED BY <2>1, LeastMember
<1>3. over = {j \in i .. LastTimer : \A k \in i + 1 .. j : Full(k)}
  BY DEF Overflowing, Full
<1>4. e \in i + 1 .. LastTimer + 1 /\ (e # LastTimer + 1 => ~Full(e))
  BY <1>2
<1>5. \A k \in i + 1 .. LastTimer : k < e => Full(k)
  <2> SUFFICES ASSUME NEW k \in i + 1 .. LastTimer, k < e, ~Full(k) PROVE FALSE
    OBVIOUS
  <2>1. k \in Ends /\ ~(e <= k)
    BY <1>1, <1>4
  <2> QED BY <1>2, <2>1
<1>6. over = i .. e - 1
  <2>1. ASSUME NEW j \in over PROVE j \in i .. e - 1
    <3>1. j \in i .. LastTimer /\ \A k \in i + 1 .. j : Full(k)
      BY <1>3
    <3>2. ~(e <= j)
      <4> SUFFICES ASSUME e <= j PROVE FALSE
        OBVIOUS
      <4>1. e \in i + 1 .. j /\ e # LastTimer + 1
        BY <1>1, <1>4, <3>1
      <4> QED BY <1>4, <3>1, <4>1
    <3> QED BY <1>1, <1>4, <3>1, <3>2
  <2>2. ASSUME NEW j \in i .. e - 1 PROVE j \in over
    <3>1. j \in i .. LastTimer
      BY <1>1, <1>4
    <3>2. ASSUME NEW k \in i + 1 .. j PROVE Full(k)
      <4>1. k \in i + 1 .. LastTimer /\ k < e
        BY <1>1, <1>4
      <4> QED BY <1>5, <4>1
    <3> QED BY <1>3, <3>1, <3>2
  <2> HIDE DEF over
  <2> QED BY <2>1, <2>2
<1>7. Cardinality(over) = e - i
  <2>1. e - 1 \in Int /\ i \in Int /\ i <= e - 1
    BY <1>1, <1>4
  <2>2. Cardinality(i .. e - 1) = (e - 1) - i + 1
    BY <2>1, FS_Interval
  <2> HIDE DEF over
  <2> QED BY <1>1, <1>4, <1>6, <2>2
<1>8. Cardinality(over) + i = e
  <2> HIDE DEF over
  <2> QED BY <1>1, <1>4, <1>7
<1>9. e \in TimerIds => ~Full(e)
  BY <1>1, <1>4 DEF TimerIds
<1> HIDE DEF over
<1> QED BY <1>4, <1>6, <1>8, <1>9 DEF over, Full

\* A timer overflows, with those that count it up.
LEMMA OnOverflowOK ==
  ASSUME NEW poked, NEW x, Device(x), NEW i \in TimerIds, NEW due \in Nat
  PROVE  Kept(x, OnOverflow(x, i, due), TimerSlots, poked)
<1> DEFINE over == Overflowing(x, i)
           next == Cardinality(over) + i
           requests == {TimerFlag[j] : j \in {j \in over : x.timers[j].irqEnable}}
           timers == [j \in TimerIds |->
                    LET t == x.timers[j]
                    IN  IF j \in over THEN [t EXCEPT !.counter = t.reload, !.last = due]
                        ELSE IF j = next /\ CountsUp(t) THEN [t EXCEPT !.counter = @ + 1]
                        ELSE t]
           counted == [x EXCEPT !.timers = timers]
           requested == IF requests = {} THEN counted ELSE Requested(counted, requests, due)
<1>1. OnOverflow(x, i, due) =
        IF Free(x.timers[i]) THEN ScheduleOverflow(requested, i) ELSE requested
  BY DEF OnOverflow
<1>2. /\ next \in i + 1 .. LastTimer + 1 /\ over = i .. next - 1
      /\ next \in TimerIds => ~(CountsUp(x.timers[next])
                                /\ x.timers[next].counter = CounterSize - 1)
  BY OverflowingIs
<1>3. requests \in SUBSET Flags
  <2>1. over \subseteq TimerIds
    BY <1>2, TimersAssumption DEF TimerIds
  <2> QED BY <2>1, TimersAssumption
<1>4. timers \in TimersState
  <2> SUFFICES ASSUME NEW j \in TimerIds
               PROVE  LET t == x.timers[j]
                      IN  (IF j \in over THEN [t EXCEPT !.counter = t.reload, !.last = due]
                           ELSE IF j = next /\ CountsUp(t) THEN [t EXCEPT !.counter = t.counter + 1]
                           ELSE t) \in TimerState
    BY DEF TimersState
  <2> HIDE DEF over, next
  <2>1. x.timers[j] \in TimerState
    BY TimerType
  <2>2. j = next /\ CountsUp(x.timers[j]) => x.timers[j].counter + 1 \in 0 .. CounterSize - 1
    <3>1. CounterSize \in Nat \ {0}
      BY TimersAssumption
    <3>2. x.timers[j].counter \in Nat /\ x.timers[j].counter < CounterSize
      BY TimerType
    <3>3. j = next /\ CountsUp(x.timers[j]) => x.timers[j].counter # CounterSize - 1
      BY <1>2
    <3> QED BY <3>1, <3>2, <3>3
  <2> QED BY <2>1, <2>2 DEF TimerState
<1> HIDE DEF timers, over, next, requests
<1>5. Kept(x, counted, TimerSlots, poked)
  BY <1>4, TimersKept
<1>6. Kept(counted, requested, {Irq}, poked)
  <2>1. Device(counted)
    BY <1>5 DEF Kept
  <2> HIDE DEF counted
  <2>2. Kept(counted, counted, {Irq}, poked)
    BY <2>1, KeptSelf
  <2>3. Kept(counted, Requested(counted, requests, due), {Irq}, poked)
    BY <1>3, <2>1, RequestedOK
  <2> QED BY <2>2, <2>3
<1> HIDE DEF counted, requested
<1>7. {Irq} \subseteq TimerSlots
  BY DEF TimerSlots
<1>8. Kept(x, requested, TimerSlots, poked) /\ Device(requested)
  BY <1>5, <1>6, <1>7, KeptTrans DEF Kept
<1>9. Kept(requested, ScheduleOverflow(requested, i), TimerSlots, poked)
  BY <1>8, ScheduleOverflowOK
<1>10. Kept(x, ScheduleOverflow(requested, i), TimerSlots, poked)
  BY <1>8, <1>9, KeptTrans
<1> QED BY <1>1, <1>8, <1>10

\* The machines a machine becomes by servicing overflows of timer i, one after the other.
Service(y, i, now) ==
  IF ~OverflowWaits(y, i, now) THEN y
  ELSE OnOverflow([y EXCEPT !.sched = Cancel(@, TimerEvent(i))], i,
                  y.sched.due[TimerEvent(i)] - ReadOffset)

Services(x, i, now) ==
  CHOOSE serviced : serviced = [n \in Nat |->
    IF n = 0 THEN x
    ELSE LET before == serviced[n - 1]
         IN  IF ~OverflowWaits(before, i, now) THEN before
             ELSE OnOverflow([before EXCEPT !.sched = Cancel(@, TimerEvent(i))], i,
                             before.sched.due[TimerEvent(i)] - ReadOffset)]

\* A machine keeps, while slots of the timers and the interrupts are written.
After(x, poked) == {y \in Machine : Kept(x, y, TimerSlots, poked)}

LEMMA ServiceOK ==
  ASSUME NEW poked, NEW x, Device(x), NEW i \in TimerIds, NEW now
  PROVE  Kept(x, Service(x, i, now), TimerSlots, poked)
<1> DEFINE s == Cancel(x.sched, TimerEvent(i))
           y == [x EXCEPT !.sched = s]
           due == x.sched.due[TimerEvent(i)] - ReadOffset
<1>1. CASE OverflowWaits(x, i, now)
  <2>1. due \in Nat
    <3>1. IsScheduled(x.sched, TimerEvent(i)) /\ SchedOK(x.sched)
      BY <1>1 DEF OverflowWaits, Device
    <3>2. x.sched.due[TimerEvent(i)] \in Nat /\ x.sched.due[TimerEvent(i)] >= ReadOffset
      <4>1. x.sched.due[TimerEvent(i)] \in Nat
        BY <3>1, SchedType, TimerEventIs
      <4>2. x.sched.due[TimerEvent(i)] >= ReadOffset
        BY <3>1, TimerEventIs DEF SchedOK
      <4> QED BY <4>1, <4>2
    <3> QED BY <3>2, TimersAssumption
  <2>2. SchedOK(s) /\ SlotsKept(x.sched, s, {TimerEvent(i)})
    BY TimerEventIs, CancelOK DEF Device
  <2>3. Service(x, i, now) = OnOverflow(y, i, due)
    BY <1>1 DEF Service
  <2> HIDE DEF s, due
  <2>4. IsScheduled(x.sched, Irq) => IsScheduled(s, Irq)
    BY <2>2, TimerEventIs DEF SlotsKept, IsScheduled
  <2>5. SlotsKept(x.sched, s, TimerSlots)
    BY <2>2, TimerEventIs DEF SlotsKept, TimerSlots
  <2>6. Kept(x, y, TimerSlots, poked) /\ Device(y)
    BY <2>2, <2>4, <2>5, SchedKept DEF Kept
  <2> HIDE DEF y
  <2>7. Kept(y, OnOverflow(y, i, due), TimerSlots, poked)
    BY <2>1, <2>6, OnOverflowOK
  <2> QED BY <2>3, <2>6, <2>7, KeptTrans
<1>2. CASE ~OverflowWaits(x, i, now)
  BY <1>2, KeptSelf DEF Service
<1> QED BY <1>1, <1>2

LEMMA ServicesOK ==
  ASSUME NEW poked, NEW x, Device(x), NEW i \in TimerIds, NEW now, NEW n \in Nat
  PROVE  Kept(x, Services(x, i, now)[n], TimerSlots, poked)
<1> DEFINE T == After(x, poked)
           G == [y \in T |-> Service(y, i, now)]
           S == Services(x, i, now)
           Eq(serviced) == serviced = [k \in Nat |->
             IF k = 0 THEN x
             ELSE LET before == serviced[k - 1]
                  IN  IF ~OverflowWaits(before, i, now) THEN before
                      ELSE OnOverflow([before EXCEPT !.sched = Cancel(@, TimerEvent(i))], i,
                                      before.sched.due[TimerEvent(i)] - ReadOffset)]
<1>1. x \in T
  BY KeptSelf DEF After, Device
<1>2. ASSUME NEW y \in T PROVE Service(y, i, now) \in T
  <2>1. Kept(x, y, TimerSlots, poked) /\ Device(y)
    BY DEF After, Kept
  <2>2. Kept(y, Service(y, i, now), TimerSlots, poked)
    BY <2>1, ServiceOK
  <2>3. Kept(x, Service(y, i, now), TimerSlots, poked)
    BY <2>1, <2>2, KeptTrans
  <2> QED BY <2>3 DEF After, Kept, Device
<1>3. G \in [T -> T]
  <2> HIDE DEF T
  <2> QED BY <1>2
<1>4. PICK f \in [Nat -> T] : f[0] = x /\ \A k \in Nat : f[k + 1] = G[f[k]]
  <2> HIDE DEF G, T
  <2> QED BY <1>1, <1>3, StepRecursion
<1>5. ASSUME NEW k \in Nat
      PROVE  f[k] = IF k = 0 THEN x ELSE Service(f[k - 1], i, now)
  <2>1. CASE k = 0
    BY <1>4, <2>1
  <2>2. CASE k # 0
    <3>1. k - 1 \in Nat /\ (k - 1) + 1 = k
      BY <2>2
    <3> HIDE DEF T
    <3>2. f[k - 1] \in T /\ f[(k - 1) + 1] = G[f[k - 1]]
      BY <1>4, <3>1
    <3> QED BY <2>2, <3>1, <3>2
  <2> QED BY <2>1, <2>2
<1>6. Eq(f)
  <2>1. f = [k \in Nat |-> f[k]]
    OBVIOUS
  <2> QED BY <1>5, <2>1 DEF Service
<1>7. Eq(S)
  <2>1. S = CHOOSE serviced : Eq(serviced)
    BY Zenon DEF Services
  <2> HIDE DEF Eq, S
  <2> QED BY <1>6, <2>1
<1>8. ASSUME NEW k \in Nat
      PROVE  S[k] = IF k = 0 THEN x ELSE Service(S[k - 1], i, now)
  <2> HIDE DEF S
  <2> QED BY <1>7 DEF Service
<1> HIDE DEF S
<1> DEFINE Bad == {k \in Nat : S[k] \notin T}
<1>9. Bad = {}
  <2> SUFFICES ASSUME Bad # {} PROVE FALSE
    OBVIOUS
  <2>1. PICK k \in Bad : \A j \in Bad : k <= j
    <3>1. Bad \in SUBSET Nat
      OBVIOUS
    <3> HIDE DEF Bad
    <3> QED BY <3>1, LeastMember
  <2>2. k \in Nat /\ S[k] \notin T
    BY <2>1
  <2>3. k # 0
    BY <1>1, <1>8, <2>2
  <2>4. k - 1 \in Nat /\ ~(k <= k - 1)
    BY <2>2, <2>3
  <2>5. S[k - 1] \in T
    BY <2>1, <2>4
  <2>6. S[k] = Service(S[k - 1], i, now)
    BY <1>8, <2>2, <2>3
  <2>7. Service(S[k - 1], i, now) \in T
    BY <1>2, <2>5
  <2> QED BY <2>2, <2>6, <2>7
<1> QED BY <1>9 DEF After, S

\* The overflows a write comes after are serviced before it.
LEMMA ServiceOverflowsBeforeOK ==
  ASSUME NEW poked, NEW x, Device(x), NEW i \in TimerIds, NEW now \in Int
  PROVE  Kept(x, ServiceOverflowsBefore(x, i, now), TimerSlots, poked)
<1> DEFINE n == now + 1 + ReadOffset - x.sched.due[TimerEvent(i)]
<1>1. CASE OverflowWaits(x, i, now)
  <2>1. n \in Nat
    <3>1. IsScheduled(x.sched, TimerEvent(i)) /\ SchedOK(x.sched)
          /\ x.sched.due[TimerEvent(i)] - ReadOffset <= now
      BY <1>1 DEF OverflowWaits, Device
    <3>2. x.sched.due[TimerEvent(i)] \in Nat
      BY <3>1, SchedType, TimerEventIs
    <3> QED BY <3>1, <3>2, TimersAssumption
  <2>2. ServiceOverflowsBefore(x, i, now) = Services(x, i, now)[n]
    BY <1>1, Zenon DEF ServiceOverflowsBefore, Services
  <2> HIDE DEF n
  <2> QED BY <2>1, <2>2, ServicesOK
<1>2. CASE ~OverflowWaits(x, i, now)
  <2>1. ServiceOverflowsBefore(x, i, now) = x
    BY <1>2 DEF ServiceOverflowsBefore
  <2> QED BY <2>1, KeptSelf
<1> QED BY <1>1, <1>2

LEMMA CounterReadOK ==
  ASSUME NEW poked, NEW x, Device(x), NEW i \in TimerIds
  PROVE  Kept(x, CounterRead(x, i), TimerSlots, poked)
<1>1. CASE Free(x.timers[i])
  <2>1. x.sched.now - ReadOffset \in Int
    BY IrqType, TimersAssumption
  <2>2. Synced(x.timers[i], x.sched.now - ReadOffset) \in TimerState
    BY <2>1, TimerType, SyncedOK
  <2>3. CounterRead(x, i) =
          [x EXCEPT !.timers[i] = Synced(x.timers[i], x.sched.now - ReadOffset)]
    BY <1>1 DEF CounterRead
  <2> QED BY <2>2, <2>3, TimerKept
<1>2. CASE ~Free(x.timers[i])
  BY <1>2, KeptSelf DEF CounterRead
<1> QED BY <1>1, <1>2

LEMMA CountingTimerIs ==
  ASSUME NEW x, NEW i \in TimerIds
  PROVE  CountingTimer(x, i) \in TimerIds \cup {-1}
<1> DEFINE Drives(s) == Free(x.timers[s]) /\ \A j \in s + 1 .. i : CountsUp(x.timers[j])
<1>1. CountingTimer(x, i) =
        IF \E s \in 0 .. i : Drives(s) THEN CHOOSE s \in 0 .. i : Drives(s) ELSE -1
  BY Zenon DEF CountingTimer
<1>2. 0 .. i \subseteq TimerIds
  BY TimersAssumption DEF TimerIds
<1> HIDE DEF Drives
<1> QED BY <1>1, <1>2

LEMMA ReloadWrittenOK ==
  ASSUME NEW poked, NEW x, Device(x), NEW i \in TimerIds, NEW value \in 0 .. CounterSize - 1
  PROVE  Kept(x, ReloadWritten(x, i, value), TimerSlots, poked)
<1> DEFINE source == CountingTimer(x, i)
           y == IF source = -1 THEN x ELSE ServiceOverflowsBefore(x, source, x.sched.now - 1)
<1>1. Kept(x, y, TimerSlots, poked)
  <2>1. source \in TimerIds \cup {-1} /\ x.sched.now - 1 \in Int
    BY CountingTimerIs, IrqType
  <2> HIDE DEF source
  <2> QED BY <2>1, ServiceOverflowsBeforeOK, KeptSelf
<1>2. ReloadWritten(x, i, value) = [y EXCEPT !.timers[i].reload = value]
  BY DEF ReloadWritten
<1> HIDE DEF y
<1>3. Device(y) /\ y.timers[i] \in TimerState
  BY <1>1, TimerType DEF Kept
<1> DEFINE t == [y.timers[i] EXCEPT !.reload = value]
<1>4. t \in TimerState
  BY <1>3 DEF TimerState
<1>5. [y EXCEPT !.timers[i].reload = value] = [y EXCEPT !.timers[i] = t]
  BY <1>3, TimerType DEF Device, Machine, TimersState
<1> HIDE DEF t
<1>6. Kept(y, [y EXCEPT !.timers[i] = t], TimerSlots, poked)
  BY <1>3, <1>4, TimerKept
<1> QED BY <1>1, <1>2, <1>5, <1>6, KeptTrans

\* A timer's scheduled overflow is cancelled.
LEMMA OverflowCancelled ==
  ASSUME NEW poked, NEW x, Device(x), NEW i \in TimerIds
  PROVE  Kept(x, [x EXCEPT !.sched = Cancel(@, TimerEvent(i))], TimerSlots, poked)
<1> DEFINE s == Cancel(x.sched, TimerEvent(i))
<1>1. SchedOK(s) /\ SlotsKept(x.sched, s, {TimerEvent(i)})
  BY TimerEventIs, CancelOK DEF Device
<1> HIDE DEF s
<1>2. IsScheduled(x.sched, Irq) => IsScheduled(s, Irq)
  BY <1>1, TimerEventIs DEF SlotsKept, IsScheduled
<1>3. SlotsKept(x.sched, s, TimerSlots)
  BY <1>1, TimerEventIs DEF SlotsKept, TimerSlots
<1>4. Kept(x, [x EXCEPT !.sched = s], TimerSlots, poked)
  BY <1>1, <1>2, <1>3, SchedKept
<1> QED BY <1>4 DEF s

\* A timer is put on the grid of its prescaler.
LEMMA OnGridKept ==
  ASSUME NEW poked, NEW x, Device(x), NEW i \in TimerIds, NEW prescaler \in Prescalers,
         NEW now \in Nat
  PROVE  Kept(x, [x EXCEPT !.timers[i].last = PrescalerTick(prescaler, now)], TimerSlots, poked)
<1> DEFINE tick == PrescalerTick(prescaler, now)
           t == [x.timers[i] EXCEPT !.last = tick]
<1>1. tick \in Nat
  <2>1. prescaler \in Nat \ {0}
    BY PrescalerIs
  <2>2. now % prescaler \in Nat /\ now % prescaler <= now
    <3>1. now % prescaler \in 0 .. prescaler - 1
      BY <2>1
    <3>2. CASE now < prescaler
      <4>1. now % prescaler = now
        BY <2>1, <3>2
      <4> QED BY <4>1
    <3>3. CASE ~(now < prescaler)
      BY <2>1, <3>1, <3>3
    <3> QED BY <3>2, <3>3
  <2> HIDE DEF tick
  <2>3. tick = now - (now % prescaler)
    BY DEF tick, PrescalerTick
  <2> QED BY <2>2, <2>3
<1> HIDE DEF tick
<1>2. x.timers[i] \in TimerState /\ x.timers \in TimersState
  BY TimerType
<1>3. t \in TimerState
  BY <1>1, <1>2 DEF TimerState
<1>4. [x EXCEPT !.timers[i].last = tick] = [x EXCEPT !.timers[i] = t]
  BY <1>2 DEF Device, Machine, TimersState
<1> HIDE DEF t
<1>5. Kept(x, [x EXCEPT !.timers[i] = t], TimerSlots, poked)
  BY <1>3, TimerKept
<1> QED BY <1>4, <1>5 DEF tick

\* A timer's control is written: its overflows are serviced first, and the overflow to
\* come is scheduled, moved or cancelled.
LEMMA ControlWrittenOK ==
  ASSUME NEW poked, NEW x, Device(x), NEW i \in TimerIds, NEW control \in Control
  PROVE  Kept(x, ControlWritten(x, i, control), TimerSlots, poked)
<1> DEFINE old == x.timers[i]
           now == x.sched.now
           serviced == ServiceOverflowsBefore(x, i, now)
           synced == [serviced EXCEPT !.timers[i] = Synced(@, now)]
           upToDate == IF Free(old) THEN synced ELSE x
           cascade == i > 0 /\ control.cascade
           written == [upToDate EXCEPT !.timers[i] =
                        [@ EXCEPT !.prescaler = control.prescaler, !.cascade = cascade,
                                  !.irqEnable = control.irqEnable, !.enabled = control.enabled]]
           OnItsGrid(y) == [y EXCEPT !.timers[i].last = PrescalerTick(control.prescaler, now)]
           Cancelled(y) == [y EXCEPT !.sched = Cancel(@, TimerEvent(i))]
           restarted == [written EXCEPT !.timers[i].counter = old.reload]
           Good(y) == Device(y) /\ Kept(x, y, TimerSlots, poked)
<1>0. now \in Nat /\ control.prescaler \in Prescalers /\ control.cascade \in BOOLEAN
      /\ control.irqEnable \in BOOLEAN /\ control.enabled \in BOOLEAN
  BY IrqType DEF Control
<1>1. \/ ControlWritten(x, i, control) = written
      \/ ControlWritten(x, i, control) = Cancelled(written)
      \/ ControlWritten(x, i, control) = OnItsGrid(restarted)
      \/ ControlWritten(x, i, control) = ScheduleOverflow(OnItsGrid(restarted), i)
      \/ ControlWritten(x, i, control) = Cancelled(OnItsGrid(written))
      \/ ControlWritten(x, i, control) = ScheduleOverflow(OnItsGrid(written), i)
  BY Zenon DEF ControlWritten
<1>2. Good(upToDate)
  <2>1. Kept(x, serviced, TimerSlots, poked) /\ now \in Int
    BY <1>0, ServiceOverflowsBeforeOK
  <2> HIDE DEF serviced
  <2>2. Device(serviced) /\ serviced.timers[i] \in TimerState
    BY <2>1, TimerType DEF Kept
  <2> DEFINE t == Synced(serviced.timers[i], now)
  <2>3. t \in TimerState
    BY <2>1, <2>2, SyncedOK
  <2>4. synced = [serviced EXCEPT !.timers[i] = t]
    OBVIOUS
  <2> HIDE DEF t, synced
  <2>5. Kept(serviced, synced, TimerSlots, poked)
    BY <2>2, <2>3, <2>4, TimerKept
  <2>6. Kept(x, synced, TimerSlots, poked) /\ Device(synced)
    BY <2>1, <2>5, KeptTrans DEF Kept
  <2> QED BY <2>6, KeptSelf
<1> HIDE DEF upToDate, serviced, synced, now
<1>3. Good(written)
  <2> DEFINE t == [upToDate.timers[i] EXCEPT !.prescaler = control.prescaler, !.cascade = cascade,
                                  !.irqEnable = control.irqEnable, !.enabled = control.enabled]
  <2>1. Device(upToDate) /\ upToDate.timers[i] \in TimerState
    BY <1>2, TimerType
  <2>2. cascade \in BOOLEAN
    BY <1>0
  <2>3. t \in TimerState
    <3> HIDE DEF cascade
    <3> QED BY <1>0, <2>1, <2>2 DEF TimerState
  <2>4. written = [upToDate EXCEPT !.timers[i] = t]
    OBVIOUS
  <2> HIDE DEF t, written, cascade
  <2>5. Kept(upToDate, written, TimerSlots, poked)
    BY <2>1, <2>3, <2>4, TimerKept
  <2> QED BY <1>2, <2>5, KeptTrans DEF Kept
<1> HIDE DEF written, cascade
<1>4. Good(restarted)
  <2> DEFINE t == [written.timers[i] EXCEPT !.counter = old.reload]
  <2>1. Device(written) /\ written.timers[i] \in TimerState /\ written.timers \in TimersState
        /\ old.reload \in 0 .. CounterSize - 1
    BY <1>3, TimerType
  <2>2. t \in TimerState
    <3> HIDE DEF old
    <3> QED BY <2>1 DEF TimerState
  <2>3. restarted = [written EXCEPT !.timers[i] = t]
    BY <2>1 DEF Device, Machine, TimersState
  <2> HIDE DEF t, restarted, old
  <2>4. Kept(written, restarted, TimerSlots, poked)
    BY <2>1, <2>2, <2>3, TimerKept
  <2> QED BY <1>3, <2>4, KeptTrans DEF Kept
<1> HIDE DEF restarted, old
<1>5. ASSUME NEW y, Good(y) PROVE Good(OnItsGrid(y)) /\ Good(Cancelled(y)) /\ Good(ScheduleOverflow(y, i))
  <2>1. Kept(y, OnItsGrid(y), TimerSlots, poked)
    BY <1>0, <1>5, OnGridKept
  <2>2. Kept(y, Cancelled(y), TimerSlots, poked)
    BY <1>5, OverflowCancelled
  <2>3. Kept(y, ScheduleOverflow(y, i), TimerSlots, poked)
    BY <1>5, ScheduleOverflowOK
  <2> HIDE DEF OnItsGrid, Cancelled
  <2> QED BY <1>5, <2>1, <2>2, <2>3, KeptTrans DEF Kept
<1> HIDE DEF OnItsGrid, Cancelled
<1>6. Good(OnItsGrid(restarted)) /\ Good(OnItsGrid(written))
  BY <1>3, <1>4, <1>5
<1>7. Good(ControlWritten(x, i, control))
  <2> HIDE DEF Good
  <2> QED BY <1>1, <1>3, <1>5, <1>6
<1> QED BY <1>7

-----------------------------------------------------------------------------
(* The DMA *)

\* The LCD is where it was, with its two slots.
LcdKept(x, y) ==
  /\ y.line = x.line /\ y.frame = x.frame
  /\ y.sched.due[HBlank] = x.sched.due[HBlank]
  /\ y.sched.due[HBlankEnd] = x.sched.due[HBlankEnd]

\* A machine becomes another that works, on the same line, and sleeps no deeper.
Turns(x, y, poked) ==
  /\ Device(y)
  /\ LcdKept(x, y)
  /\ Wakes(x, poked) => Wakes(y, poked)

\* While a channel waits for the bus, or a transfer is under way, the CPU does not run.
BusHeld(x) ==
  (x.dma.waiting # {} \/ x.dma.running) /\ ~x.dma.moving =>
    x.sched.due[DmaResume] # Never /\ x.sched.due[DmaResume] <= x.sched.now

\* The slots of the devices that neither draw lines nor resume a transfer.
OtherSlots == TimerSlots \cup DmaStarts \cup InterruptEvents

LEMMA TurnsTrans ==
  ASSUME NEW poked, NEW x, NEW y, NEW z, Turns(x, y, poked), Turns(y, z, poked)
  PROVE  Turns(x, z, poked)
BY DEF Turns, LcdKept

LEMMA OtherSlotsAre ==
  /\ {HBlank, HBlankEnd, DmaResume} \cap OtherSlots = {}
  /\ {HBlank, HBlankEnd, DmaResume} \subseteq Events
  /\ Irq \in OtherSlots /\ ImeLine \in OtherSlots
BY EventsAre DEF OtherSlots, TimerSlots, InterruptEvents

LEMMA KeptTurns ==
  ASSUME NEW poked, NEW x, NEW y, NEW ids, Kept(x, y, ids, poked), ids \subseteq OtherSlots
  PROVE  Turns(x, y, poked) /\ (BusHeld(x) => BusHeld(y)) /\ y.dma = x.dma
BY OtherSlotsAre DEF Kept, SlotsKept, Turns, LcdKept, BusHeld

\* Time passes.
LEMMA AdvancedOK ==
  ASSUME NEW poked, NEW x, Device(x), NEW cycles \in Nat
  PROVE  LET y == [x EXCEPT !.sched = Advance(@, cycles)]
         IN  /\ Turns(x, y, poked)
             /\ (Wakes(x, poked) => Wakes(y, poked))
             /\ (BusHeld(x) => BusHeld(y))
             /\ y.dma = x.dma /\ y.irq = x.irq
<1> DEFINE s == Advance(x.sched, cycles)
           y == [x EXCEPT !.sched = s]
<1>1. SchedOK(s) /\ s.now = x.sched.now + cycles /\ s.due = x.sched.due /\ s \in Scheduler
      /\ x.sched.now \in Nat
  BY AdvanceOK, SchedType DEF Device
<1> HIDE DEF s
<1>2. /\ y \in Machine /\ y.sched = s /\ y.irq = x.irq /\ y.dma = x.dma
      /\ y.line = x.line /\ y.frame = x.frame
  BY <1>1 DEF Machine, Device
<1>3. y = [x EXCEPT !.sched = Advance(@, cycles)]
  BY DEF s
<1> HIDE DEF y
<1>4. Turns(x, y, poked)
  BY <1>1, <1>2 DEF Turns, LcdKept, Device, Wakes, EnabledRequests, IsScheduled
<1>5. BusHeld(x) => BusHeld(y)
  <2> SUFFICES ASSUME BusHeld(x), (y.dma.waiting # {} \/ y.dma.running) /\ ~y.dma.moving
               PROVE  y.sched.due[DmaResume] # Never /\ y.sched.due[DmaResume] <= y.sched.now
    BY DEF BusHeld
  <2>1. x.sched.due[DmaResume] # Never /\ x.sched.due[DmaResume] <= x.sched.now
    BY <1>2 DEF BusHeld
  <2>2. x.sched.due[DmaResume] \in Nat
    BY <2>1, OtherSlotsAre, SchedType DEF Device, IsScheduled
  <2> QED BY <1>1, <1>2, <2>1, <2>2
<1> QED BY <1>2, <1>3, <1>4, <1>5 DEF Turns

\* A change of the DMA alone.
LEMMA DmaKept ==
  ASSUME NEW poked, NEW x, Device(x), NEW dma \in DmaState, Loaded(dma)
  PROVE  LET y == [x EXCEPT !.dma = dma]
         IN  /\ Turns(x, y, poked)
             /\ y.sched = x.sched /\ y.irq = x.irq /\ y.dma = dma
<1> DEFINE y == [x EXCEPT !.dma = dma]
<1>1. x \in Machine
  BY DEF Device
<1>2. /\ y \in Machine /\ y.sched = x.sched /\ y.irq = x.irq /\ y.dma = dma
      /\ y.line = x.line /\ y.frame = x.frame
  BY <1>1 DEF Machine
<1> HIDE DEF y
<1> QED
  BY <1>2 DEF Turns, LcdKept, Device, Wakes, EnabledRequests, y

\* A change of a slot of the DMA.
LEMMA DmaSlotKept ==
  ASSUME NEW poked, NEW x, Device(x), NEW s, SchedOK(s), NEW id \in DmaEvents,
         SlotsKept(x.sched, s, {id})
  PROVE  LET y == [x EXCEPT !.sched = s]
         IN  /\ Kept(x, y, {id}, poked) /\ Turns(x, y, poked)
             /\ y.sched = s /\ y.irq = x.irq /\ y.dma = x.dma
<1> DEFINE y == [x EXCEPT !.sched = s]
<1>1. IsScheduled(x.sched, Irq) => IsScheduled(s, Irq)
  BY EventsAre DEF SlotsKept, IsScheduled
<1>2. /\ Kept(x, y, {id}, poked)
      /\ y.sched = s /\ y.irq = x.irq
  BY <1>1, SchedKept
<1> HIDE DEF y
<1>3. HBlank \in Events \ {id} /\ HBlankEnd \in Events \ {id}
  BY EventsAre
<1>4. y.dma = x.dma /\ Turns(x, y, poked)
  BY <1>2, <1>3 DEF Kept, Turns, LcdKept, SlotsKept
<1> QED BY <1>2, <1>4 DEF y

LEMMA DmaType ==
  ASSUME NEW x, Device(x)
  PROVE  /\ x.dma \in DmaState /\ Loaded(x.dma)
         /\ x.dma.channels \in [Channels -> ChannelState] /\ x.dma.waiting \subseteq Channels
         /\ x.dma.running \in BOOLEAN /\ x.dma.moving \in BOOLEAN
BY DEF Device, Machine, DmaState

LEMMA DmaEventIs ==
  ASSUME NEW i \in Channels
  PROVE  /\ DmaEvent(i) \in DmaStarts /\ DmaEvent(i) \in DmaEvents /\ DmaEvent(i) \in Events
         /\ DmaEvent(i) \in Known /\ DmaEvent(i) \notin TimerEvents
         /\ DmaResume \in DmaEvents /\ DmaResume \in Known /\ DmaResume \notin TimerEvents
BY EventsAre DEF DmaStarts, Known

LEMMA ScheduleTransferOK ==
  ASSUME NEW poked, NEW x, Device(x), NEW i \in Channels, NEW at \in Nat
  PROVE  Kept(x, ScheduleTransfer(x, i, at), DmaStarts, poked)
<1> DEFINE s == ScheduleAt(x.sched, DmaEvent(i), at + DmaStartDelay)
<1>1. at + DmaStartDelay \in Nat
  BY DmaAssumption
<1>2. SchedOK(s) /\ SlotsKept(x.sched, s, {DmaEvent(i)})
  BY <1>1, DmaEventIs, ScheduleOK DEF Device
<1>3. ScheduleTransfer(x, i, at) = [x EXCEPT !.sched = s]
  BY DEF ScheduleTransfer
<1> HIDE DEF s
<1>4. Kept(x, [x EXCEPT !.sched = s], {DmaEvent(i)}, poked)
  BY <1>2, DmaEventIs, DmaSlotKept
<1>5. ASSUME NEW y, Kept(x, y, {DmaEvent(i)}, poked) PROVE Kept(x, y, DmaStarts, poked)
  BY <1>5, DmaEventIs DEF Kept, SlotsKept
<1> QED BY <1>3, <1>4, <1>5

\* The machines a machine becomes as the channels of S are triggered.
Triggers(x, at, S) ==
  CHOOSE iter : iter = [s \in SUBSET S |->
                          IF s = {} THEN x
                          ELSE LET i == CHOOSE i \in s : TRUE
                               IN  ScheduleTransfer(iter[s \ {i}], i, at)]

LEMMA TriggersOK ==
  ASSUME NEW poked, NEW x, Device(x), NEW at \in Nat, NEW S \in SUBSET Channels
  PROVE  Kept(x, Triggers(x, at, S)[S], DmaStarts, poked)
<1> DEFINE T == {y \in Machine : Kept(x, y, DmaStarts, poked)}
           c == [s \in SUBSET S |-> CHOOSE i \in s : TRUE]
           G == [p \in S \X T |-> ScheduleTransfer(p[2], p[1], at)]
           Eq(iter) == iter = [s \in SUBSET S |->
                          IF s = {} THEN x
                          ELSE LET i == CHOOSE i \in s : TRUE
                               IN  ScheduleTransfer(iter[s \ {i}], i, at)]
           R == Triggers(x, at, S)
<1>1. IsFiniteSet(S)
  <2>1. IsFiniteSet(Channels)
    BY DmaAssumption, FS_Interval DEF Channels
  <2> QED BY <2>1, FS_Subset
<1>2. x \in T
  BY KeptSelf DEF Device
<1>3. ASSUME NEW i \in S, NEW y \in T PROVE ScheduleTransfer(y, i, at) \in T
  <2>1. Kept(x, y, DmaStarts, poked) /\ Device(y) /\ i \in Channels
    BY DEF Kept
  <2>2. Kept(y, ScheduleTransfer(y, i, at), DmaStarts, poked)
    BY <2>1, ScheduleTransferOK
  <2>3. Kept(x, ScheduleTransfer(y, i, at), DmaStarts, poked)
    BY <2>1, <2>2, KeptTrans
  <2> QED BY <2>3 DEF Kept, Device
<1>4. \A s \in SUBSET S : s # {} => c[s] \in s
  OBVIOUS
<1>5. G \in [S \X T -> T]
  <2> HIDE DEF T
  <2> QED BY <1>3
<1> HIDE DEF T
<1>6. PICK f \in [SUBSET S -> T] : FoldsUp(f, S, x, G, c)
  <2> HIDE DEF c, G
  <2>1. \E f \in [SUBSET S -> T] : FoldsUp(f, S, x, G, c)
    BY <1>1, <1>2, <1>4, <1>5, SetRecursion
  <2> QED BY <2>1
<1>7. ASSUME NEW s \in SUBSET S
      PROVE  f[s] = IF s = {} THEN x ELSE ScheduleTransfer(f[s \ {c[s]}], c[s], at)
  <2>1. CASE s = {}
    BY <1>6, <2>1 DEF FoldsUp
  <2>2. CASE s # {}
    <3>1. <<c[s], f[s \ {c[s]}]>> \in S \X T
      <4> HIDE DEF c
      <4> QED BY <1>4, <2>2
    <3>2. f[s] = G[<<c[s], f[s \ {c[s]}]>>]
      <4> HIDE DEF c, G
      <4> QED BY <1>6, <2>2 DEF FoldsUp
    <3>3. G[<<c[s], f[s \ {c[s]}]>>] = ScheduleTransfer(f[s \ {c[s]}], c[s], at)
      <4> HIDE DEF c
      <4> QED BY <3>1
    <3> QED BY <2>2, <3>2, <3>3
  <2> QED BY <2>1, <2>2
<1>8. Eq(f)
  <2>1. ASSUME NEW s \in SUBSET S
        PROVE  f[s] = IF s = {} THEN x
                      ELSE LET i == CHOOSE i \in s : TRUE
                           IN  ScheduleTransfer(f[s \ {i}], i, at)
    BY <1>7
  <2>2. f = [s \in SUBSET S |-> f[s]]
    OBVIOUS
  <2> QED BY <2>1, <2>2
<1>9. Eq(R)
  <2>1. R = CHOOSE iter : Eq(iter)
    BY Zenon DEF Triggers
  <2> HIDE DEF Eq, R
  <2> QED BY <1>8, <2>1
<1>10. ASSUME NEW s \in SUBSET S
       PROVE  R[s] = IF s = {} THEN x ELSE ScheduleTransfer(R[s \ {c[s]}], c[s], at)
  <2> HIDE DEF R
  <2> QED BY <1>9
<1> HIDE DEF R, c
<1> DEFINE Bad == {n \in Nat : \E s \in SUBSET S : Cardinality(s) = n /\ R[s] \notin T}
<1>11. Bad = {}
  <2> SUFFICES ASSUME Bad # {} PROVE FALSE
    OBVIOUS
  <2>1. PICK n \in Bad : \A y \in Bad : n <= y
    <3>1. Bad \in SUBSET Nat
      OBVIOUS
    <3> HIDE DEF Bad
    <3> QED BY <3>1, LeastMember
  <2>2. PICK s \in SUBSET S : Cardinality(s) = n /\ R[s] \notin T
    BY <2>1
  <2>3. s # {}
    BY <1>2, <1>10, <2>2
  <2>4. IsFiniteSet(s) /\ c[s] \in s
    BY <1>1, <1>4, <2>3, FS_Subset
  <2>5. Cardinality(s \ {c[s]}) = n - 1 /\ s \ {c[s]} \in SUBSET S
    BY <2>2, <2>4, FS_RemoveElement, ZenonT(40)
  <2>6. n - 1 \in Nat /\ ~(n <= n - 1)
    <3>1. Cardinality(s \ {c[s]}) \in Nat /\ n \in Nat
      BY <2>1, <2>4, FS_RemoveElement, FS_CardinalityType
    <3> QED BY <2>5, <3>1
  <2>7. R[s \ {c[s]}] \in T
    BY <2>1, <2>5, <2>6
  <2>8. R[s] = ScheduleTransfer(R[s \ {c[s]}], c[s], at)
    BY <1>10, <2>3
  <2>9. c[s] \in S
    BY <2>4
  <2>10. ScheduleTransfer(R[s \ {c[s]}], c[s], at) \in T
    BY <1>3, <2>7, <2>9
  <2> QED BY <2>2, <2>8, <2>10
<1>12. R[S] \in T
  <2>1. Cardinality(S) \in Nat
    BY <1>1, FS_CardinalityType
  <2> QED BY <1>11, <2>1
<1> QED BY <1>12 DEF T, R

\* The channels that wait for a line's end, or the frame's, are triggered.
LEMMA TriggerOK ==
  ASSUME NEW poked, NEW x, Device(x), NEW timing, NEW at \in Nat
  PROVE  Kept(x, Trigger(x, timing, at), DmaStarts, poked)
<1> DEFINE S == {i \in Channels : x.dma.channels[i].enabled /\ x.dma.channels[i].timing = timing}
<1>1. Trigger(x, timing, at) = Triggers(x, at, S)[S]
  BY Zenon DEF Trigger, FoldSet, MapThenFoldSet, Triggers
<1>2. S \in SUBSET Channels
  OBVIOUS
<1> HIDE DEF S
<1> QED BY <1>1, <1>2, TriggersOK

\* The DMA of a machine, one of its channels and those that wait written.
DmaWith(x, i, ch, waiting, moved) ==
  [x.dma EXCEPT !.channels = [@ EXCEPT ![i] = ch], !.waiting = waiting, !.moved = moved]

\* A channel that has the bus, or gives it up, has been written.
LEMMA ChannelKept ==
  ASSUME NEW x, Device(x), NEW i \in Channels, NEW ch \in ChannelState,
         ch.enabled => ch.units > 0, NEW waiting \in SUBSET Channels, NEW moved \in BOOLEAN
  PROVE  LET dma == DmaWith(x, i, ch, waiting, moved)
         IN  /\ dma \in DmaState /\ Loaded(dma)
             /\ dma.waiting = waiting /\ dma.running = x.dma.running /\ dma.moving = x.dma.moving
             /\ dma.channels[i] = ch
<1>1. x.dma \in DmaState /\ x.dma.channels \in [Channels -> ChannelState] /\ Loaded(x.dma)
  BY DmaType
<1> DEFINE channels == [x.dma.channels EXCEPT ![i] = ch]
           dma == [x.dma EXCEPT !.channels = channels, !.waiting = waiting, !.moved = moved]
<1>2. DmaWith(x, i, ch, waiting, moved) = dma
  BY DEF DmaWith
<1>3. channels \in [Channels -> ChannelState] /\ channels[i] = ch
      /\ \A j \in Channels \ {i} : channels[j] = x.dma.channels[j]
  BY <1>1
<1> HIDE DEF channels
<1>4. /\ dma \in DmaState /\ dma.waiting = waiting /\ dma.running = x.dma.running
      /\ dma.moving = x.dma.moving /\ dma.channels = channels
  BY <1>1, <1>3 DEF DmaState
<1> HIDE DEF dma
<1>5. Loaded(dma)
  BY <1>1, <1>3, <1>4 DEF Loaded
<1> QED BY <1>2, <1>3, <1>4, <1>5

\* A channel's control is written.
LEMMA DmaControlWrittenOK ==
  ASSUME NEW poked, NEW x, Device(x), NEW i \in Channels, NEW latch \in DmaUnits,
         NEW control \in DmaControls
  PROVE  LET y == DmaControlWritten(x, i, latch, control)
         IN  /\ Turns(x, y, poked) /\ (BusHeld(x) => BusHeld(y))
             /\ y.dma.moving = x.dma.moving
<1> DEFINE old == x.dma.channels[i]
           ch == [old EXCEPT !.latch = latch, !.repeat = control.repeat, !.timing = control.timing,
                             !.irqEnable = control.irqEnable, !.enabled = control.enabled]
           full == [ch EXCEPT !.units = latch]
           With(c, w) == [x EXCEPT !.dma = DmaWith(x, i, c, w, x.dma.moved)]
           y == DmaControlWritten(x, i, latch, control)
           left == x.dma.waiting \ {i}
           s == Cancel(x.sched, DmaEvent(i))
           written == [x EXCEPT !.dma.channels[i] =
                    [@ EXCEPT !.latch = latch, !.repeat = control.repeat, !.timing = control.timing,
                              !.irqEnable = control.irqEnable, !.enabled = control.enabled]]
           loaded == [written EXCEPT !.dma.channels[i].units = latch]
           off == [written EXCEPT !.sched = Cancel(@, DmaEvent(i)), !.dma.waiting = @ \ {i}]
<1>1. /\ x.dma \in DmaState /\ x.dma.channels \in [Channels -> ChannelState] /\ Loaded(x.dma)
      /\ x.dma.waiting \in SUBSET Channels /\ x.dma.moved \in BOOLEAN /\ x \in Machine
      /\ x.sched.now \in Nat
  BY DmaType, IrqType DEF DmaState, Device
<1>2. latch \in Nat \ {0} /\ control.repeat \in BOOLEAN /\ control.timing \in Timings
      /\ control.irqEnable \in BOOLEAN /\ control.enabled \in BOOLEAN
  BY ConsoleAssumption
<1>3. old \in ChannelState /\ (old.enabled => old.units > 0)
  BY <1>1 DEF Loaded
<1>4. /\ ch \in ChannelState /\ full \in ChannelState /\ full.units = latch
      /\ ch.units = old.units /\ ch.enabled = control.enabled
  <2> HIDE DEF old
  <2> QED BY <1>2, <1>3 DEF ChannelState
<1>5. full.units > 0
  BY <1>2, <1>4
<1> DEFINE wrote == [x.dma EXCEPT !.channels = [@ EXCEPT ![i] = ch]]
           filled == [x.dma EXCEPT !.channels = [@ EXCEPT ![i] = full]]
<1>a. x.dma = [channels |-> x.dma.channels, waiting |-> x.dma.waiting, running |-> x.dma.running,
               moving |-> x.dma.moving, moved |-> x.dma.moved]
  BY <1>1 DEF DmaState
<1>b. written = [x EXCEPT !.dma = wrote]
  <2>1. [x.dma EXCEPT !.channels[i] =
                    [@ EXCEPT !.latch = latch, !.repeat = control.repeat, !.timing = control.timing,
                              !.irqEnable = control.irqEnable, !.enabled = control.enabled]] = wrote
    BY <1>1 DEF DmaState
  <2> HIDE DEF wrote
  <2> QED BY <1>1, <2>1 DEF Machine
<1>c. written.dma = wrote /\ written \in [sched : {x.sched}, irq : {x.irq}, timers : {x.timers},
        dma : {wrote}, line : {x.line}, frame : {x.frame}, masked : {x.masked},
        vblankIrq : {x.vblankIrq}]
  <2> HIDE DEF wrote, written
  <2> QED BY <1>1, <1>b DEF Machine
<1>d. wrote = DmaWith(x, i, ch, x.dma.waiting, x.dma.moved)
  <2> HIDE DEF ch
  <2> QED BY <1>a DEF DmaWith
<1>e. filled = DmaWith(x, i, full, x.dma.waiting, x.dma.moved)
  <2> HIDE DEF full
  <2> QED BY <1>a DEF DmaWith
<1>f. loaded = [x EXCEPT !.dma = filled]
  <2>1. [wrote EXCEPT !.channels[i].units = latch] = filled
    <3>1. wrote.channels[i] = ch /\ wrote.channels \in [Channels -> ChannelState]
      <4> HIDE DEF ch
      <4> QED BY <1>1, <1>4, <1>a
    <3>2. [wrote.channels EXCEPT ![i] = full] = [x.dma.channels EXCEPT ![i] = full]
      <4> HIDE DEF ch, full
      <4> QED BY <1>1, <1>4, <1>a
    <3>3. [wrote EXCEPT !.channels[i].units = latch] = [wrote EXCEPT !.channels = [@ EXCEPT ![i] = full]]
      <4>1. [wrote.channels[i] EXCEPT !.units = latch] = full
        <5> HIDE DEF ch, wrote
        <5> QED BY <3>1
      <4> HIDE DEF full, wrote
      <4> QED BY <3>1, <4>1
    <3>4. [wrote EXCEPT !.channels = [@ EXCEPT ![i] = full]] = filled
      <4> HIDE DEF ch, full
      <4> QED BY <1>1, <3>2, <1>a
    <3> QED BY <3>3, <3>4
  <2> HIDE DEF wrote, filled, written
  <2>2. loaded = [written EXCEPT !.dma = [written.dma EXCEPT !.channels[i].units = latch]]
    BY <1>c
  <2> QED BY <1>1, <1>b, <1>c, <2>1, <2>2 DEF Machine
<1>g. off = [With(ch, left) EXCEPT !.sched = s]
  <2>1. [wrote EXCEPT !.waiting = left] = DmaWith(x, i, ch, left, x.dma.moved)
    <3> HIDE DEF ch
    <3> QED BY <1>a DEF DmaWith
  <2>2. wrote.waiting = x.dma.waiting
    <3> HIDE DEF ch
    <3> QED BY <1>a
  <2> HIDE DEF wrote, written
  <2>3. off = [written EXCEPT !.sched = s, !.dma = [wrote EXCEPT !.waiting = left]]
    BY <1>c, <2>2
  <2> QED BY <1>1, <1>b, <2>1, <2>3, ZenonT(40) DEF Machine
<1>6. written = With(ch, x.dma.waiting) /\ loaded = With(full, x.dma.waiting)
      /\ off = [With(ch, left) EXCEPT !.sched = s]
  <2> HIDE DEF wrote, filled, written, loaded, off, ch, full
  <2> QED BY <1>b, <1>d, <1>e, <1>f, <1>g DEF wrote, filled
<1> HIDE DEF ch, full, s, wrote, filled
<1>7. ASSUME NEW c \in ChannelState, c.enabled => c.units > 0, NEW w \in SUBSET x.dma.waiting
      PROVE  LET z == With(c, w)
             IN  /\ Turns(x, z, poked) /\ (BusHeld(x) => BusHeld(z)) /\ z.dma.moving = x.dma.moving
                 /\ Device(z) /\ z.sched = x.sched
  <2> DEFINE dma == DmaWith(x, i, c, w, x.dma.moved)
             z == With(c, w)
  <2>1. w \in SUBSET Channels
    BY <1>1
  <2>2. /\ dma \in DmaState /\ Loaded(dma)
        /\ dma.waiting = w /\ dma.running = x.dma.running /\ dma.moving = x.dma.moving
    BY <1>1, <1>7, <2>1, ChannelKept
  <2> HIDE DEF dma
  <2>3. Turns(x, [x EXCEPT !.dma = dma], poked)
        /\ [x EXCEPT !.dma = dma].sched = x.sched /\ [x EXCEPT !.dma = dma].dma = dma
    BY <2>2, DmaKept
  <2>4. z = [x EXCEPT !.dma = dma]
    BY DEF dma
  <2> HIDE DEF z
  <2>5. BusHeld(x) => BusHeld(z)
    BY <2>2, <2>3, <2>4 DEF BusHeld
  <2> QED BY <2>2, <2>3, <2>4, <2>5 DEF Turns, z
<1> HIDE DEF With
<1>8. y = IF ~old.enabled /\ control.enabled
        THEN IF control.timing = "Immediately" THEN ScheduleTransfer(loaded, i, x.sched.now) ELSE loaded
      ELSE IF old.enabled /\ ~control.enabled THEN off
      ELSE written
  BY Zenon DEF DmaControlWritten
<1> HIDE DEF y, written, loaded, off, old
<1>9. CASE ~old.enabled /\ control.enabled
  <2>1. Turns(x, loaded, poked) /\ (BusHeld(x) => BusHeld(loaded))
        /\ loaded.dma.moving = x.dma.moving /\ Device(loaded)
    BY <1>4, <1>5, <1>6, <1>7
  <2>2. CASE control.timing = "Immediately"
    <3>1. y = ScheduleTransfer(loaded, i, x.sched.now)
      BY <1>8, <1>9, <2>2
    <3>2. Kept(loaded, y, DmaStarts, poked)
      BY <1>1, <2>1, <3>1, ScheduleTransferOK
    <3>3. Turns(loaded, y, poked) /\ (BusHeld(loaded) => BusHeld(y)) /\ y.dma = loaded.dma
      BY <3>2, KeptTurns DEF OtherSlots
    <3>4. Turns(x, y, poked)
      BY <2>1, <3>3, TurnsTrans
    <3> QED BY <2>1, <3>3, <3>4 DEF y
  <2>3. CASE control.timing # "Immediately"
    <3>1. y = loaded
      BY <1>8, <1>9, <2>3
    <3> QED BY <2>1, <3>1 DEF y
  <2> QED BY <2>2, <2>3
<1>10. CASE old.enabled /\ ~control.enabled
  <2> DEFINE z == With(ch, left)
  <2>1. left \in SUBSET x.dma.waiting /\ (ch.enabled => ch.units > 0)
    BY <1>4, <1>10
  <2> HIDE DEF left
  <2>2. Turns(x, z, poked) /\ (BusHeld(x) => BusHeld(z)) /\ z.dma.moving = x.dma.moving
        /\ Device(z) /\ z.sched = x.sched
    BY <1>4, <1>7, <2>1
  <2>3. y = [z EXCEPT !.sched = s]
    BY <1>6, <1>8, <1>10
  <2> HIDE DEF z
  <2>4. SchedOK(s) /\ SlotsKept(z.sched, s, {DmaEvent(i)})
    BY <2>2, DmaEventIs, CancelOK DEF Device, s
  <2>5. Kept(z, y, {DmaEvent(i)}, poked)
    BY <2>2, <2>3, <2>4, DmaEventIs, DmaSlotKept
  <2>6. {DmaEvent(i)} \subseteq OtherSlots
    BY DmaEventIs DEF OtherSlots
  <2>7. Turns(z, y, poked) /\ (BusHeld(z) => BusHeld(y)) /\ y.dma = z.dma
    BY <2>5, <2>6, KeptTurns
  <2>8. Turns(x, y, poked)
    BY <2>2, <2>7, TurnsTrans
  <2> QED BY <2>2, <2>7, <2>8 DEF y
<1>11. CASE ~(~old.enabled /\ control.enabled) /\ ~(old.enabled /\ ~control.enabled)
  <2>1. y = written
    BY <1>8, <1>11
  <2>2. ch.enabled => ch.units > 0
    BY <1>3, <1>4, <1>11
  <2>3. written = With(ch, x.dma.waiting)
    BY <1>6
  <2> QED BY <1>4, <1>7, <2>1, <2>2, <2>3 DEF y
<1> QED BY <1>9, <1>10, <1>11

\* The transfers begin, or go on.
LEMMA RunOK ==
  ASSUME NEW poked, NEW x, Device(x)
  PROVE  Turns(x, Run(x), poked) /\ BusHeld(Run(x))
<1> DEFINE s == Cancel(x.sched, DmaResume)
           idle == [x EXCEPT !.sched = s]
           dma == [idle.dma EXCEPT !.moving = TRUE, !.moved = FALSE]
           begun == [idle EXCEPT !.dma = dma]
           dma2 == [begun.dma EXCEPT !.running = TRUE]
           running == [begun EXCEPT !.dma = dma2]
           edge == [running EXCEPT !.sched = Advance(@, RunEdgeCycles)]
<1>1. SchedOK(s) /\ SlotsKept(x.sched, s, {DmaResume}) /\ DmaResume \in DmaEvents
  BY EventsAre, CancelOK DEF Device
<1>2. Turns(x, idle, poked) /\ Device(idle) /\ idle.dma = x.dma /\ idle.sched = s
  <2> HIDE DEF s
  <2> QED BY <1>1, DmaSlotKept DEF Turns
<1>3. dma \in DmaState /\ Loaded(dma) /\ dma.moving = TRUE
  <2> HIDE DEF idle
  <2> QED BY <1>2, DmaType DEF DmaState, Loaded
<1>4. Turns(idle, begun, poked) /\ begun.dma = dma /\ Device(begun)
  <2> HIDE DEF idle, dma
  <2> QED BY <1>2, <1>3, DmaKept DEF Turns
<1>5. Turns(x, begun, poked)
  <2> HIDE DEF idle, begun
  <2> QED BY <1>2, <1>4, TurnsTrans
<1>6. dma2 \in DmaState /\ Loaded(dma2) /\ dma2.moving = TRUE
  <2> HIDE DEF begun, dma
  <2> QED BY <1>3, <1>4, DmaType DEF DmaState, Loaded
<1>7. Turns(begun, running, poked) /\ running.dma = dma2 /\ Device(running)
  <2> HIDE DEF begun, dma2
  <2> QED BY <1>4, <1>6, DmaKept DEF Turns
<1>8. Turns(running, edge, poked) /\ edge.dma = running.dma
  <2> HIDE DEF running
  <2>1. RunEdgeCycles \in Nat
    BY DmaAssumption
  <2> QED BY <1>7, <2>1, AdvancedOK
<1>9. Turns(x, edge, poked)
  <2> HIDE DEF begun, running, edge
  <2> QED BY <1>5, <1>7, <1>8, TurnsTrans
<1>10. Run(x) = IF x.dma.running THEN begun ELSE edge
  <2>1. x \in Machine /\ x.dma \in DmaState
    BY DmaType DEF Device
  <2>2. [x EXCEPT !.sched = Cancel(@, DmaResume), !.dma.moving = TRUE, !.dma.moved = FALSE] = begun
    BY <1>2, <2>1 DEF Machine, DmaState
  <2>3. [begun EXCEPT !.dma.running = TRUE, !.sched = Advance(@, RunEdgeCycles)] = edge
    <3>1. begun \in Machine
      BY <1>4 DEF Device
    <3> HIDE DEF begun
    <3> QED BY <3>1 DEF Machine
  <2> HIDE DEF begun, edge
  <2> QED BY <2>2, <2>3 DEF Run
<1>11. BusHeld(begun) /\ BusHeld(edge)
  <2> HIDE DEF begun, running, edge, dma, dma2
  <2> QED BY <1>3, <1>4, <1>6, <1>7, <1>8 DEF BusHeld
<1> QED
  BY <1>5, <1>9, <1>10, <1>11

\* A channel asks for the bus.
LEMMA RequestBusOK ==
  ASSUME NEW poked, NEW x, Device(x), NEW i \in Channels
  PROVE  Turns(x, RequestBus(x, i), poked) /\ BusHeld(RequestBus(x, i))
<1> DEFINE dma == [x.dma EXCEPT !.waiting = @ \cup {i}]
           asked == [x EXCEPT !.dma = dma]
<1>1. dma \in DmaState /\ Loaded(dma) /\ dma.moving = x.dma.moving
  BY DmaType DEF DmaState, Loaded
<1>2. Turns(x, asked, poked) /\ asked.dma = dma /\ Device(asked)
  <2> HIDE DEF dma
  <2> QED BY <1>1, DmaKept DEF Turns
<1>3. RequestBus(x, i) = IF x.dma.moving THEN asked ELSE Run(asked)
  <2>1. x \in Machine
    BY DEF Device
  <2>2. [x EXCEPT !.dma.waiting = @ \cup {i}] = asked
    BY <2>1 DEF Machine
  <2> QED BY <2>2 DEF RequestBus
<1> HIDE DEF asked, dma
<1>4. Turns(asked, Run(asked), poked) /\ BusHeld(Run(asked))
  BY <1>2, RunOK
<1>5. Turns(x, Run(asked), poked)
  BY <1>2, <1>4, TurnsTrans
<1>6. x.dma.moving => BusHeld(asked)
  BY <1>1, <1>2 DEF BusHeld
<1> QED BY <1>2, <1>3, <1>4, <1>5, <1>6

\* The last transfer ends.
LEMMA RunEndedOK ==
  ASSUME NEW poked, NEW x, Device(x), EndsRun(x)
  PROVE  Turns(x, RunEnded(x), poked) /\ BusHeld(RunEnded(x))
<1> DEFINE dma == [x.dma EXCEPT !.running = FALSE, !.moving = FALSE]
           y == [x EXCEPT !.dma = dma]
           z == [y EXCEPT !.sched = Advance(@, RunEdgeCycles)]
<1>1. dma \in DmaState /\ Loaded(dma) /\ dma.waiting = {} /\ dma.running = FALSE
  BY DmaType DEF DmaState, Loaded, EndsRun
<1>2. Turns(x, y, poked) /\ y.dma = dma /\ Device(y)
  <2> HIDE DEF dma
  <2> QED BY <1>1, DmaKept DEF Turns
<1>3. RunEnded(x) = z
  <2>1. x \in Machine
    BY DEF Device
  <2> QED BY <2>1 DEF RunEnded, Machine
<1>4. Turns(y, z, poked) /\ z.dma = y.dma
  <2> HIDE DEF y
  <2>1. RunEdgeCycles \in Nat
    BY DmaAssumption
  <2> QED BY <1>2, <2>1, AdvancedOK
<1> HIDE DEF y, z, dma
<1> QED BY <1>1, <1>2, <1>3, <1>4, TurnsTrans DEF BusHeld

\* A run pauses for the events that are due, and comes back.
LEMMA PausedOK ==
  ASSUME NEW poked, NEW x, Device(x)
  PROVE  Turns(x, Paused(x), poked) /\ BusHeld(Paused(x))
<1> DEFINE dma == [x.dma EXCEPT !.moving = FALSE]
           y == [x EXCEPT !.dma = dma]
           s == ScheduleAt(y.sched, DmaResume, y.sched.now)
           z == [y EXCEPT !.sched = s]
<1>1. dma \in DmaState /\ Loaded(dma)
  BY DmaType DEF DmaState, Loaded
<1>2. Turns(x, y, poked) /\ y.dma = dma /\ Device(y)
  <2> HIDE DEF dma
  <2> QED BY <1>1, DmaKept DEF Turns
<1>3. Paused(x) = z
  <2>1. x \in Machine
    BY DEF Device
  <2> QED BY <2>1 DEF Paused, Machine
<1> HIDE DEF y
<1>4. DmaResume \in Known /\ DmaResume \in DmaEvents /\ DmaResume \notin TimerEvents
      /\ y.sched.now \in Nat
  BY <1>2, IrqType, EventsAre DEF Known, TimersAssumption
<1>5. SchedOK(s) /\ SlotsKept(y.sched, s, {DmaResume}) /\ s.due[DmaResume] = y.sched.now
      /\ IsScheduled(s, DmaResume)
  BY <1>2, <1>4, ScheduleOK DEF Device
<1> HIDE DEF s
<1>6. Turns(y, z, poked) /\ z.dma = y.dma /\ z.sched = s
  BY <1>2, <1>4, <1>5, DmaSlotKept
<1> HIDE DEF z, dma
<1>7. BusHeld(z)
  BY <1>4, <1>5, <1>6 DEF BusHeld, SlotsKept, IsScheduled
<1> QED BY <1>2, <1>3, <1>6, <1>7, TurnsTrans

LEMMA CurrentIs ==
  ASSUME NEW x, Device(x), x.dma.waiting # {}
  PROVE  Current(x) \in x.dma.waiting /\ Current(x) \in Channels
<1>1. x.dma.waiting \in SUBSET Nat /\ x.dma.waiting \subseteq Channels
  BY DmaType, DmaAssumption DEF Channels
<1> QED BY <1>1, MinInNat DEF Current

\* A channel that was disabled while it waited no longer does.
LEMMA DroppedOK ==
  ASSUME NEW poked, NEW x, Device(x), x.dma.moving
  PROVE  Turns(x, Dropped(x), poked) /\ BusHeld(Dropped(x))
<1> DEFINE dma == [x.dma EXCEPT !.waiting = @ \ {Current(x)}]
           y == [x EXCEPT !.dma = dma]
<1>1. dma \in DmaState /\ Loaded(dma) /\ dma.moving
  BY DmaType DEF DmaState, Loaded
<1>2. Turns(x, y, poked) /\ y.dma = dma
  <2> HIDE DEF dma
  <2> QED BY <1>1, DmaKept
<1>3. Dropped(x) = y
  <2>1. x \in Machine
    BY DEF Device
  <2> QED BY <2>1 DEF Dropped, Machine
<1> HIDE DEF y, dma
<1> QED BY <1>1, <1>2, <1>3 DEF BusHeld

\* What a request does, it does whatever the DMA is.
LEMMA RequestedApart ==
  ASSUME NEW x \in Machine, NEW dma, NEW flags, NEW at
  PROVE  Requested([x EXCEPT !.dma = dma], flags, at) = [Requested(x, flags, at) EXCEPT !.dma = dma]
<1> DEFINE y == [x EXCEPT !.dma = dma]
           raisedX == [x EXCEPT !.irq.flags = @ \cup flags]
           raisedY == [y EXCEPT !.irq.flags = @ \cup flags]
           sentX == [raisedX EXCEPT !.sched = ScheduleAt(@, Irq, at + IrqDelay)]
           sentY == [raisedY EXCEPT !.sched = ScheduleAt(@, Irq, at + IrqDelay)]
           awakeX == [raisedX EXCEPT !.irq.halted = FALSE]
           awakeY == [raisedY EXCEPT !.irq.halted = FALSE]
<1>1. /\ x = [sched |-> x.sched, irq |-> x.irq, timers |-> x.timers, dma |-> x.dma,
              line |-> x.line, frame |-> x.frame, masked |-> x.masked, vblankIrq |-> x.vblankIrq]
      /\ x.irq = [ime |-> x.irq.ime, ie |-> x.irq.ie, flags |-> x.irq.flags, halted |-> x.irq.halted,
                  wake |-> x.irq.wake]
  BY DEF Machine, IrqState
<1>2. raisedY = [raisedX EXCEPT !.dma = dma]
  BY <1>1
<1>3. sentY = [sentX EXCEPT !.dma = dma]
  BY <1>1
<1>4. awakeY = [awakeX EXCEPT !.dma = dma]
  <2>1. raisedX = [sched |-> x.sched, irq |-> raisedX.irq, timers |-> x.timers, dma |-> x.dma,
              line |-> x.line, frame |-> x.frame, masked |-> x.masked, vblankIrq |-> x.vblankIrq]
    BY <1>1
  <2> HIDE DEF raisedX, raisedY
  <2> QED BY <1>2, <2>1
<1>5. /\ y.irq = x.irq /\ y.sched = x.sched
      /\ raisedY.irq = raisedX.irq /\ raisedY.sched = raisedX.sched
  BY <1>1
<1>6. \A z : Requested(z, flags, at) =
        LET raised == [z EXCEPT !.irq.flags = @ \cup flags]
        IN  IF EnabledRequests(z) = {}
            THEN IF EnabledRequests(raised) # {} /\ ~IsScheduled(raised.sched, Irq)
                 THEN [raised EXCEPT !.sched = ScheduleAt(@, Irq, at + IrqDelay)] ELSE raised
            ELSE IF ~IsScheduled(z.sched, Irq)
                 THEN IF EnabledRequests(raised) \cap raised.irq.wake # {}
                      THEN [raised EXCEPT !.irq.halted = FALSE] ELSE raised
            ELSE raised
  BY SMTT(60) DEF Requested, Signal, OnSignal
<1>7. Requested(y, flags, at) =
        IF EnabledRequests(y) = {}
            THEN IF EnabledRequests(raisedY) # {} /\ ~IsScheduled(raisedY.sched, Irq)
                 THEN sentY ELSE raisedY
            ELSE IF ~IsScheduled(y.sched, Irq)
                 THEN IF EnabledRequests(raisedY) \cap raisedY.irq.wake # {}
                      THEN awakeY ELSE raisedY
            ELSE raisedY
  BY <1>6, ZenonT(60)
<1>8. Requested(x, flags, at) =
        IF EnabledRequests(x) = {}
            THEN IF EnabledRequests(raisedX) # {} /\ ~IsScheduled(raisedX.sched, Irq)
                 THEN sentX ELSE raisedX
            ELSE IF ~IsScheduled(x.sched, Irq)
                 THEN IF EnabledRequests(raisedX) \cap raisedX.irq.wake # {}
                      THEN awakeX ELSE raisedX
            ELSE raisedX
  BY <1>6
<1>9. EnabledRequests(y) = EnabledRequests(x) /\ EnabledRequests(raisedY) = EnabledRequests(raisedX)
  <2> HIDE DEF y, raisedX, raisedY
  <2> QED BY <1>5 DEF EnabledRequests
<1>10. Requested(y, flags, at) = [Requested(x, flags, at) EXCEPT !.dma = dma]
  <2> HIDE DEF y, raisedX, raisedY, sentX, sentY, awakeX, awakeY
  <2> QED BY <1>2, <1>3, <1>4, <1>5, <1>7, <1>8, <1>9
<1> QED BY <1>10

\* A channel moves a unit; with its last it gives the bus up and asks for its interrupt,
\* and is loaded again or disabled.
LEMMA UnitMovedOK ==
  ASSUME NEW poked, NEW x, Device(x), x.dma.moving, x.dma.waiting # {},
         x.dma.channels[Current(x)].enabled
  PROVE  Turns(x, UnitMoved(x), poked) /\ BusHeld(UnitMoved(x))
<1> DEFINE i == Current(x)
           ch == x.dma.channels[i]
           spent == [ch EXCEPT !.units = @ - 1]
           again == [spent EXCEPT !.units = ch.latch]
           off == [spent EXCEPT !.enabled = FALSE]
           left == x.dma.waiting \ {i}
           adv == [x EXCEPT !.sched = Advance(@, UnitCycles)]
           Dma(c, w) == DmaWith(x, i, c, w, TRUE)
           asked == IF spent.irqEnable THEN Requested(adv, {DmaFlag[i]}, adv.sched.now) ELSE adv
           moved == [x EXCEPT !.sched = Advance(@, UnitCycles), !.dma.moved = TRUE,
                              !.dma.channels[i].units = @ - 1]
           freed == [moved EXCEPT !.dma.waiting = @ \ {i}]
<1>1. /\ i \in Channels /\ x \in Machine /\ x.dma \in DmaState /\ x.dma.waiting \in SUBSET Channels
      /\ x.dma.channels \in [Channels -> ChannelState] /\ Loaded(x.dma)
  BY CurrentIs, DmaType DEF Device
<1> HIDE DEF i
<1>2. ch \in ChannelState /\ ch.units > 0 /\ ch.units \in Nat /\ ch.latch \in Nat /\ ch.latch > 0
  <2>1. ch \in ChannelState /\ ch.units > 0
    BY <1>1 DEF Loaded, i
  <2> HIDE DEF ch
  <2> QED BY <2>1 DEF ChannelState
<1>3. /\ spent \in ChannelState /\ again \in ChannelState /\ off \in ChannelState
      /\ spent.units = ch.units - 1 /\ again.units = ch.latch /\ ~off.enabled
      /\ spent.irqEnable = ch.irqEnable
  <2> HIDE DEF ch
  <2>1. ch.units - 1 \in Nat
    BY <1>2
  <2> QED BY <1>2, <2>1 DEF ChannelState
<1>4. Turns(x, adv, poked) /\ Device(adv) /\ adv.dma = x.dma
  <2>1. UnitCycles \in Nat
    BY DmaAssumption
  <2> QED BY <2>1, AdvancedOK DEF Turns
<1>5. Turns(adv, asked, poked) /\ Device(asked) /\ asked.dma = x.dma
  <2> HIDE DEF adv, spent
  <2>1. {DmaFlag[i]} \in SUBSET Flags /\ adv.sched.now \in Nat
    BY <1>1, <1>4, DmaAssumption, IrqType
  <2>2. Kept(adv, Requested(adv, {DmaFlag[i]}, adv.sched.now), {Irq}, poked)
    BY <1>4, <2>1, RequestedOK
  <2>3. Kept(adv, adv, {Irq}, poked)
    BY <1>4, KeptSelf
  <2>4. Kept(adv, asked, {Irq}, poked)
    BY <2>2, <2>3
  <2>5. {Irq} \subseteq OtherSlots
    BY OtherSlotsAre
  <2> HIDE DEF asked
  <2> QED BY <1>4, <2>4, <2>5, KeptTurns DEF Turns
<1>6. ASSUME NEW c \in ChannelState, c.enabled => c.units > 0, NEW w \in SUBSET x.dma.waiting,
             NEW y, Turns(x, y, poked), y.dma = x.dma
      PROVE  LET z == [y EXCEPT !.dma = Dma(c, w)]
             IN  Turns(x, z, poked) /\ BusHeld(z)
  <2> DEFINE dma == Dma(c, w)
             z == [y EXCEPT !.dma = dma]
  <2>1. w \in SUBSET Channels /\ TRUE \in BOOLEAN
    BY <1>1
  <2>2. dma \in DmaState /\ Loaded(dma) /\ dma.moving
    BY <1>1, <1>6, <2>1, ChannelKept
  <2>3. Device(y)
    BY <1>6 DEF Turns
  <2> HIDE DEF dma
  <2>4. Turns(y, z, poked) /\ z.dma = dma
    BY <2>2, <2>3, DmaKept
  <2> HIDE DEF z
  <2>5. Turns(x, z, poked)
    BY <1>6, <2>4, TurnsTrans
  <2> QED BY <2>2, <2>4, <2>5 DEF BusHeld, z, dma
<1>7. Turns(x, asked, poked)
  <2> HIDE DEF asked, adv
  <2> QED BY <1>4, <1>5, TurnsTrans
<1>a. x.dma = [channels |-> x.dma.channels, waiting |-> x.dma.waiting, running |-> x.dma.running,
               moving |-> x.dma.moving, moved |-> x.dma.moved]
  BY <1>1 DEF DmaState
<1>8. /\ moved = [adv EXCEPT !.dma = Dma(spent, x.dma.waiting)]
      /\ moved.dma.channels[i].units = spent.units /\ moved.dma = Dma(spent, x.dma.waiting)
  <2> DEFINE dma == [x.dma EXCEPT !.moved = TRUE, !.channels[i].units = @ - 1]
             channels == [x.dma.channels EXCEPT ![i] = spent]
  <2>1. [x.dma.channels EXCEPT ![i].units = @ - 1] = channels
    BY <1>1
  <2>2. dma = [x.dma EXCEPT !.moved = TRUE, !.channels = channels]
    BY <2>1
  <2> HIDE DEF channels, dma
  <2>3. dma = Dma(spent, x.dma.waiting)
    <3>1. Dma(spent, x.dma.waiting) = [x.dma EXCEPT !.channels = channels, !.waiting = x.dma.waiting, !.moved = TRUE]
      BY DEF channels, DmaWith
    <3> HIDE DEF Dma
    <3> QED BY <1>a, <2>2, <3>1
  <2>4. dma.channels[i] = spent
    <3> HIDE DEF spent
    <3> QED BY <1>1, <1>a, <2>2 DEF channels
  <2>5. moved = [adv EXCEPT !.dma = dma]
    <3>1. moved = [x EXCEPT !.sched = Advance(@, UnitCycles), !.dma = dma]
      BY DEF dma
    <3> HIDE DEF moved
    <3> QED BY <1>1, <3>1 DEF Machine
  <2>6. moved.dma = dma
    <3> HIDE DEF moved
    <3> QED BY <1>1, <1>4, <2>5 DEF Machine, Device
  <2> HIDE DEF moved, adv, spent, Dma
  <2> QED BY <2>3, <2>4, <2>5, <2>6
<1>9. UnitMoved(x) = IF moved.dma.channels[i].units = 0 THEN OnTransferComplete(freed, i) ELSE moved
  BY DEF UnitMoved, i
<1>10. freed = [adv EXCEPT !.dma = Dma(spent, left)]
  <2> DEFINE dma == [moved.dma EXCEPT !.waiting = @ \ {i}]
  <2>1. dma = Dma(spent, left)
    <3>1. moved.dma = Dma(spent, x.dma.waiting)
      BY <1>8
    <3> HIDE DEF moved, spent
    <3> QED BY <1>a, <3>1 DEF DmaWith
  <2>2. freed = [moved EXCEPT !.dma = dma]
    OBVIOUS
  <2> HIDE DEF dma, moved, freed, spent, Dma, left
  <2>3. adv \in Machine
    BY <1>4 DEF Device
  <2> HIDE DEF adv
  <2> QED BY <1>8, <2>1, <2>2, <2>3 DEF Machine
<1> HIDE DEF moved, Dma
<1>11. CASE ch.units - 1 # 0
  <2>1. UnitMoved(x) = [adv EXCEPT !.dma = Dma(spent, x.dma.waiting)]
    <3> HIDE DEF adv, spent, ch, freed
    <3> QED BY <1>3, <1>8, <1>9, <1>11
  <2>2. spent.units > 0
    <3> HIDE DEF ch, spent
    <3> QED BY <1>2, <1>3, <1>11
  <2> DEFINE all == x.dma.waiting
  <2>3. all \in SUBSET x.dma.waiting /\ UnitMoved(x) = [adv EXCEPT !.dma = Dma(spent, all)]
    BY <2>1
  <2>4. spent \in ChannelState /\ (spent.enabled => spent.units > 0)
    BY <1>3, <2>2
  <2> HIDE DEF adv, spent, ch, all
  <2>5. Turns(x, adv, poked) /\ adv.dma = x.dma
    BY <1>4
  <2>6. LET z == [adv EXCEPT !.dma = Dma(spent, all)] IN Turns(x, z, poked) /\ BusHeld(z)
    BY <1>6, <2>3, <2>4, <2>5
  <2> QED BY <2>3, <2>6
<1>12. CASE ch.units - 1 = 0
  <2> DEFINE d == Dma(spent, left)
             done == IF spent.irqEnable THEN Requested(freed, {DmaFlag[i]}, freed.sched.now) ELSE freed
  <2>1. UnitMoved(x) = OnTransferComplete(freed, i)
    <3> HIDE DEF freed, spent, ch
    <3> QED BY <1>3, <1>8, <1>9, <1>12
  <2>2. freed = [adv EXCEPT !.dma = d]
    BY <1>10
  <2>3. freed.sched = adv.sched /\ freed.dma = d /\ adv \in Machine
    <3>1. adv \in Machine
      BY <1>4 DEF Device
    <3> HIDE DEF adv, d, freed
    <3> QED BY <2>2, <3>1 DEF Machine
  <2>4. done = [asked EXCEPT !.dma = d]
    <3>1. Requested([adv EXCEPT !.dma = d], {DmaFlag[i]}, adv.sched.now)
            = [Requested(adv, {DmaFlag[i]}, adv.sched.now) EXCEPT !.dma = d]
      <4> DEFINE flags == {DmaFlag[i]}
                 at == adv.sched.now
      <4>1. adv \in Machine
        BY <2>3
      <4> HIDE DEF adv, d, flags, at
      <4> QED BY <4>1, RequestedApart
    <3> HIDE DEF adv, d, freed, spent
    <3> QED BY <2>2, <2>3, <3>1
  <2>5. d = [x.dma EXCEPT !.channels = [@ EXCEPT ![i] = spent], !.waiting = left, !.moved = TRUE]
    BY DEF Dma, DmaWith
  <2>6. d.channels[i] = spent
    <3> HIDE DEF spent, d, left
    <3> QED BY <1>1, <1>a, <2>5
  <2>7. /\ spent.repeat = ch.repeat /\ spent.timing = ch.timing /\ spent.latch = ch.latch
        /\ spent.irqEnable = ch.irqEnable
    <3> HIDE DEF ch
    <3> QED BY <1>2 DEF ChannelState
  <2>8. OnTransferComplete(freed, i) =
          IF ch.repeat /\ ch.timing # "Immediately"
          THEN [done EXCEPT !.dma.channels[i].units = ch.latch]
          ELSE [done EXCEPT !.dma.channels[i].enabled = FALSE]
    <3>1. freed.dma.channels[i] = spent
      <4> HIDE DEF freed, spent, d
      <4> QED BY <2>3, <2>6
    <3> HIDE DEF freed, spent, ch
    <3> QED BY <2>7, <3>1 DEF OnTransferComplete
  <2>9. [d EXCEPT !.channels[i].units = ch.latch] = Dma(again, left)
    <3> HIDE DEF left
    <3>1. [d EXCEPT !.channels[i].units = ch.latch] = [d EXCEPT !.channels = [@ EXCEPT ![i] = again]]
      <4>1. [d.channels[i] EXCEPT !.units = ch.latch] = again
        <5> HIDE DEF d, spent, ch
        <5> QED BY <2>6
      <4> HIDE DEF d, again, ch
      <4> QED BY <4>1
    <3>2. [d EXCEPT !.channels = [@ EXCEPT ![i] = again]] = Dma(again, left)
      <4> HIDE DEF d, spent, again
      <4> QED BY <1>1, <1>a, <2>5 DEF Dma, DmaWith
    <3> QED BY <3>1, <3>2
  <2>10. [d EXCEPT !.channels[i].enabled = FALSE] = Dma(off, left)
    <3> HIDE DEF left
    <3>1. [d EXCEPT !.channels[i].enabled = FALSE] = [d EXCEPT !.channels = [@ EXCEPT ![i] = off]]
      <4>1. [d.channels[i] EXCEPT !.enabled = FALSE] = off
        <5> HIDE DEF d, spent, ch
        <5> QED BY <2>6
      <4> HIDE DEF d, off, ch
      <4> QED BY <4>1
    <3>2. [d EXCEPT !.channels = [@ EXCEPT ![i] = off]] = Dma(off, left)
      <4> HIDE DEF d, spent, off
      <4> QED BY <1>1, <1>a, <2>5 DEF Dma, DmaWith
    <3> QED BY <3>1, <3>2
  <2>11. /\ [done EXCEPT !.dma.channels[i].units = ch.latch] = [asked EXCEPT !.dma = Dma(again, left)]
         /\ [done EXCEPT !.dma.channels[i].enabled = FALSE] = [asked EXCEPT !.dma = Dma(off, left)]
    <3>1. asked \in Machine
      BY <1>5 DEF Device
    <3> HIDE DEF asked, d, done, again, off, ch, left
    <3>2. done.dma = d
      BY <2>4, <3>1 DEF Machine
    <3>3. /\ [done EXCEPT !.dma.channels[i].units = ch.latch] = [done EXCEPT !.dma = Dma(again, left)]
          /\ [done EXCEPT !.dma.channels[i].enabled = FALSE] = [done EXCEPT !.dma = Dma(off, left)]
      BY <2>9, <2>10, <3>2
    <3> QED BY <2>4, <3>1, <3>3 DEF Machine
  <2>12. again.units > 0 /\ left \in SUBSET x.dma.waiting
    <3> HIDE DEF ch, again
    <3> QED BY <1>2, <1>3
  <2> HIDE DEF asked, again, off, ch, left, done, freed
  <2>13. \/ UnitMoved(x) = [asked EXCEPT !.dma = Dma(again, left)]
         \/ UnitMoved(x) = [asked EXCEPT !.dma = Dma(off, left)]
    BY <2>1, <2>8, <2>11
  <2>14. Turns(x, asked, poked) /\ asked.dma = x.dma
    BY <1>5, <1>7
  <2>15. LET z == [asked EXCEPT !.dma = Dma(again, left)] IN Turns(x, z, poked) /\ BusHeld(z)
    BY <1>3, <1>6, <2>12, <2>14
  <2>16. LET z == [asked EXCEPT !.dma = Dma(off, left)] IN Turns(x, z, poked) /\ BusHeld(z)
    BY <1>3, <1>6, <2>12, <2>14
  <2> QED BY <2>13, <2>15, <2>16
<1> QED BY <1>11, <1>12

-----------------------------------------------------------------------------
(* The lines *)

\* The cycle the line a machine is on began at, on the hardware's grid.
LineStart(x) == (x.frame * Lines + x.line) * LineCycles

OnGrid(x) ==
  \/ x.sched.due[HBlank] = LineStart(x) + HBlankStart /\ ~IsScheduled(x.sched, HBlankEnd)
  \/ x.sched.due[HBlankEnd] = LineStart(x) + LineCycles /\ ~IsScheduled(x.sched, HBlank)

\* A machine that works, and whose line, sleep and transfers are where they should be.
Works(x, poked) == Device(x) /\ Wakes(x, poked) /\ OnGrid(x) /\ BusHeld(x)

\* The line is the same, the next, or the first of the next frame.
LcdMoves(x, y) ==
  \/ LcdKept(x, y)
  \/ y.frame = x.frame
  \/ y.frame = x.frame + 1 /\ y.line = 0 /\ IsScheduled(y.sched, HBlank)

LEMMA TurnsWorks ==
  ASSUME NEW poked, NEW x, Works(x, poked), NEW y, Turns(x, y, poked), BusHeld(y)
  PROVE  Works(y, poked) /\ LcdKept(x, y)
BY DEF Works, Turns, LcdKept, OnGrid, LineStart, IsScheduled

LEMMA NextLineStart ==
  ASSUME NEW frame \in Nat, NEW line \in Nat
  PROVE  /\ (frame * Lines + (line + 1)) * LineCycles
              = (frame * Lines + line) * LineCycles + LineCycles
         /\ line + 1 = Lines =>
              ((frame + 1) * Lines + 0) * LineCycles
                = (frame * Lines + line) * LineCycles + LineCycles
<1>0. Lines \in Nat /\ LineCycles \in Nat
  BY ConsoleAssumption
<1> DEFINE base == frame * Lines
<1>1. base \in Nat
  BY <1>0
<1>2. (frame + 1) * Lines = base + Lines
  BY <1>0
<1> HIDE DEF base
<1>3. ASSUME NEW n \in Nat PROVE (n + 1) * LineCycles = n * LineCycles + LineCycles
  BY <1>0
<1>4. base + line \in Nat /\ base + (line + 1) = (base + line) + 1
      /\ (line + 1 = Lines => (base + Lines) + 0 = (base + line) + 1)
  BY <1>0, <1>1
<1>5. ((base + line) + 1) * LineCycles = (base + line) * LineCycles + LineCycles
  BY <1>3, <1>4
<1>6. (base + (line + 1)) * LineCycles = (base + line) * LineCycles + LineCycles
  BY <1>4, <1>5
<1>7. ASSUME line + 1 = Lines
      PROVE  ((frame + 1) * Lines + 0) * LineCycles = (base + line) * LineCycles + LineCycles
  <2>1. (frame + 1) * Lines + 0 = (base + line) + 1
    BY <1>2, <1>4, <1>7
  <2> QED BY <1>5, <2>1
<1> QED BY <1>6, <1>7 DEF base

LEMMA LcdType ==
  ASSUME NEW x, Device(x)
  PROVE  /\ x.line \in 0 .. Lines - 1 /\ x.line \in Nat /\ x.frame \in Nat
         /\ LineStart(x) \in Nat
         /\ Lines \in Nat /\ LineCycles \in Nat /\ HBlankStart \in Nat /\ HBlankStart < LineCycles
<1>1. x.line \in 0 .. Lines - 1 /\ x.frame \in Nat
  BY DEF Device, Machine
<1>2. Lines \in Nat /\ LineCycles \in Nat /\ HBlankStart \in Nat /\ HBlankStart < LineCycles
  BY ConsoleAssumption
<1>3. x.frame * Lines \in Nat /\ x.line \in Nat
  BY <1>1, <1>2
<1> DEFINE line == x.frame * Lines + x.line
<1>4. line \in Nat
  BY <1>3
<1> HIDE DEF line
<1>5. line * LineCycles \in Nat
  BY <1>2, <1>4
<1> QED BY <1>1, <1>2, <1>3, <1>5 DEF LineStart, line

\* A slot of the LCD is scheduled.
LEMMA LcdSlotKept ==
  ASSUME NEW poked, NEW x, Device(x), NEW id \in {HBlank, HBlankEnd}, NEW cycle \in Nat
  PROVE  LET y == [x EXCEPT !.sched = ScheduleAt(@, id, cycle)]
         IN  Kept(x, y, {id}, poked) /\ y.sched.due[id] = cycle /\ IsScheduled(y.sched, id)
<1> DEFINE s == ScheduleAt(x.sched, id, cycle)
           y == [x EXCEPT !.sched = s]
<1>1. id \in Known /\ id \notin TimerEvents /\ id # Irq /\ Irq \in Events
  BY EventsAre DEF Known
<1>2. SchedOK(s) /\ SlotsKept(x.sched, s, {id}) /\ s.due[id] = cycle /\ IsScheduled(s, id)
  BY <1>1, ScheduleOK DEF Device
<1>3. y = [x EXCEPT !.sched = ScheduleAt(@, id, cycle)]
  BY DEF s
<1> HIDE DEF s
<1>4. IsScheduled(x.sched, Irq) => IsScheduled(s, Irq)
  BY <1>1, <1>2 DEF SlotsKept, IsScheduled
<1>5. Kept(x, y, {id}, poked) /\ y.sched = s
  BY <1>2, <1>4, SchedKept
<1> QED BY <1>2, <1>3, <1>5

\* An event is taken to fire.
LEMMA TakenKept ==
  ASSUME NEW poked, NEW x, Device(x), IsDue(x.sched)
  PROVE  LET id == NextEvent(x.sched)
             due == x.sched.due[id]
             y == [x EXCEPT !.sched = Taken(@)]
         IN  /\ NextEventRun(x) = Called(y, id, due)
             /\ id \in Known /\ due \in Nat /\ (id \in TimerEvents => due >= ReadOffset)
             /\ Device(y) /\ y.sched.due[id] = Never /\ y.irq = x.irq /\ y.dma = x.dma
             /\ y.line = x.line /\ y.frame = x.frame
             /\ SlotsKept(x.sched, y.sched, {id})
             /\ id # Irq => Kept(x, y, {id}, poked)
<1> DEFINE id == NextEvent(x.sched)
           s == Taken(x.sched)
           y == [x EXCEPT !.sched = s]
<1>1. /\ id \in Known /\ id \in x.sched.attached
      /\ x.sched.due[id] \in Nat
      /\ (id \in TimerEvents => x.sched.due[id] >= ReadOffset)
      /\ SchedOK(s) /\ SlotsKept(x.sched, s, {id}) /\ s.due[id] = Never
  BY TakenOK DEF Device
<1>2. y = [x EXCEPT !.sched = Taken(@)]
  BY DEF s
<1>3. NextEventRun(x) = Called(y, id, x.sched.due[id])
  BY <1>1 DEF NextEventRun
<1> HIDE DEF s, id
<1>4. /\ y \in Machine /\ y.sched = s /\ y.irq = x.irq /\ y.dma = x.dma
      /\ y.line = x.line /\ y.frame = x.frame
  BY <1>1, SchedType DEF Machine, Device
<1>5. id # Irq => Kept(x, y, {id}, poked)
  <2> SUFFICES ASSUME id # Irq PROVE Kept(x, y, {id}, poked)
    OBVIOUS
  <2>1. IsScheduled(x.sched, Irq) => IsScheduled(s, Irq)
    BY <1>1, EventsAre DEF SlotsKept, IsScheduled
  <2> QED BY <1>1, <2>1, SchedKept
<1> HIDE DEF y
<1>6. Device(y)
  BY <1>1, <1>4 DEF Device
<1> QED BY <1>1, <1>2, <1>3, <1>4, <1>5, <1>6 DEF id

\* The horizontal blank begins: the line's end is scheduled, at its own cycle.
LEMMA OnHBlankOK ==
  ASSUME NEW poked, NEW y, Device(y), y.sched.due[HBlank] = Never,
         Wakes(y, poked), BusHeld(y), NEW due, due = LineStart(y) + HBlankStart
  PROVE  /\ Works(OnHBlank(y, due), poked)
         /\ OnHBlank(y, due).frame = y.frame
<1> DEFINE trig == IF y.line < VisibleLines THEN Trigger(y, "HBlank", due) ELSE y
           end == due + LineCycles - HBlankStart
           z == [trig EXCEPT !.sched = ScheduleAt(@, HBlankEnd, end)]
<1>1. due \in Nat /\ end \in Nat /\ end = LineStart(y) + LineCycles
  BY LcdType
<1>2. Kept(y, trig, DmaStarts, poked)
  BY <1>1, TriggerOK, KeptSelf
<1>3. OnHBlank(y, due) = z
  BY DEF OnHBlank
<1> HIDE DEF trig, end
<1>4. Device(trig)
  BY <1>2 DEF Kept
<1>5. Kept(trig, z, {HBlankEnd}, poked) /\ z.sched.due[HBlankEnd] = end
  BY <1>1, <1>4, LcdSlotKept
<1> HIDE DEF z
<1>6. /\ HBlank \in Events /\ HBlank \notin DmaStarts /\ HBlank # HBlankEnd
      /\ DmaResume \in Events /\ DmaResume \notin DmaStarts /\ DmaResume # HBlankEnd
  BY EventsAre
<1>7. z.sched.due[HBlank] = Never /\ z.sched.due[DmaResume] = y.sched.due[DmaResume]
      /\ z.sched.now = y.sched.now /\ z.dma = y.dma /\ z.line = y.line /\ z.frame = y.frame
  BY <1>2, <1>5, <1>6 DEF Kept, SlotsKept
<1>8. Device(z) /\ Wakes(z, poked)
  BY <1>2, <1>5 DEF Kept
<1>9. OnGrid(z)
  BY <1>1, <1>5, <1>7 DEF OnGrid, LineStart, IsScheduled
<1>10. BusHeld(z)
  BY <1>7 DEF BusHeld
<1> QED BY <1>3, <1>7, <1>8, <1>9, <1>10 DEF Works

\* A line ends and the next begins, at the cycle of its end.
LEMMA OnHBlankEndOK ==
  ASSUME NEW poked, NEW y, Device(y), y.sched.due[HBlankEnd] = Never,
         Wakes(y, poked), BusHeld(y), NEW due, due = LineStart(y) + LineCycles
  PROVE  LET z == OnHBlankEnd(y, due)
         IN  /\ Works(z, poked)
             /\ z.frame = y.frame \/ (z.frame = y.frame + 1 /\ z.line = 0 /\ IsScheduled(z.sched, HBlank))
<1> DEFINE wraps == y.line + 1 = Lines
           line == IF wraps THEN 0 ELSE y.line + 1
           frame == IF wraps THEN y.frame + 1 ELSE y.frame
           moved == [y EXCEPT !.line = line, !.frame = frame]
           requested == IF moved.vblankIrq THEN Requested(moved, {"VBlank"}, due) ELSE moved
           blank == IF moved.line = VisibleLines THEN OnVBlankStart(moved, due) ELSE moved
           z == BeginLine(blank, due)
<1>1. line \in 0 .. Lines - 1 /\ frame \in Nat /\ due \in Nat /\ due + HBlankStart \in Nat
  BY LcdType
<1>2. (frame * Lines + line) * LineCycles = due
  <2>1. y.frame \in Nat /\ y.line \in Nat
    BY LcdType
  <2>2. /\ (y.frame * Lines + (y.line + 1)) * LineCycles = due
        /\ wraps => ((y.frame + 1) * Lines + 0) * LineCycles = due
    BY <2>1, NextLineStart DEF LineStart
  <2> QED BY <2>2
<1>3. frame = y.frame \/ (frame = y.frame + 1 /\ line = 0)
  OBVIOUS
<1>4. OnHBlankEnd(y, due) = z
  BY DEF OnHBlankEnd
<1> HIDE DEF line, frame, wraps
<1>5. /\ moved \in Machine /\ moved.sched = y.sched /\ moved.irq = y.irq /\ moved.dma = y.dma
      /\ moved.line = line /\ moved.frame = frame
  BY <1>1 DEF Device, Machine
<1> HIDE DEF moved
<1>6. Device(moved) /\ Wakes(moved, poked) /\ BusHeld(moved) /\ moved.sched.due[HBlankEnd] = Never
  BY <1>5 DEF Device, Wakes, EnabledRequests, BusHeld
<1>7. Kept(moved, requested, {Irq}, poked)
  <2>1. {"VBlank"} \in SUBSET Flags
    BY ConsoleAssumption
  <2> QED BY <1>1, <1>6, <2>1, RequestedOK, KeptSelf
<1>8. OnVBlankStart(moved, due) = Trigger(requested, "VBlank", due)
  BY DEF OnVBlankStart
<1> HIDE DEF requested
<1> DEFINE ids == {Irq} \cup DmaStarts
<1>9. Kept(requested, Trigger(requested, "VBlank", due), DmaStarts, poked)
  BY <1>1, <1>7, TriggerOK DEF Kept
<1>10. Kept(moved, blank, ids, poked)
  <2>1. Kept(moved, OnVBlankStart(moved, due), ids, poked)
    BY <1>7, <1>8, <1>9, KeptTrans
  <2>2. Kept(moved, moved, ids, poked)
    BY <1>6, KeptSelf
  <2> QED BY <2>1, <2>2
<1> HIDE DEF blank
<1>11. Device(blank)
  BY <1>10 DEF Kept
<1>12. /\ Kept(blank, z, {HBlank}, poked) /\ z.sched.due[HBlank] = due + HBlankStart
       /\ IsScheduled(z.sched, HBlank)
  <2>1. z = [blank EXCEPT !.sched = ScheduleAt(@, HBlank, due + HBlankStart)]
    BY DEF BeginLine
  <2> HIDE DEF z
  <2> QED BY <1>1, <1>11, <2>1, LcdSlotKept
<1> HIDE DEF z
<1>13. /\ HBlankEnd \in Events /\ HBlankEnd \notin ids /\ HBlank # HBlankEnd
       /\ DmaResume \in Events /\ DmaResume \notin ids /\ DmaResume # HBlank
  BY EventsAre
<1>14. /\ z.sched.due[HBlankEnd] = Never /\ z.sched.due[DmaResume] = moved.sched.due[DmaResume]
       /\ z.sched.now = moved.sched.now /\ z.dma = moved.dma /\ z.line = line /\ z.frame = frame
  BY <1>5, <1>6, <1>10, <1>12, <1>13 DEF Kept, SlotsKept
<1>15. Device(z) /\ Wakes(z, poked)
  BY <1>6, <1>10, <1>12 DEF Kept
<1>16. OnGrid(z)
  BY <1>2, <1>12, <1>14 DEF OnGrid, LineStart, IsScheduled
<1>17. BusHeld(z)
  BY <1>6, <1>14 DEF BusHeld
<1> QED BY <1>3, <1>4, <1>12, <1>14, <1>15, <1>16, <1>17 DEF Works

\* The CPU sees a request.
LEMMA OnSignalOK ==
  ASSUME NEW poked, NEW x, Device(x)
  PROVE  /\ Device(OnSignal(x)) /\ Wakes(OnSignal(x), poked)
         /\ LcdKept(x, OnSignal(x)) /\ (BusHeld(x) => BusHeld(OnSignal(x)))
<1> DEFINE irq == [x.irq EXCEPT !.halted = FALSE]
           y == [x EXCEPT !.irq = irq]
<1>1. CASE EnabledRequests(x) \cap x.irq.wake # {}
  <2>1. x \in Machine /\ x.irq \in IrqState
    BY IrqType DEF Device
  <2>2. irq \in IrqState /\ irq.halted = FALSE
    BY <2>1 DEF IrqState
  <2> HIDE DEF irq
  <2>3. y.irq = irq /\ y.sched = x.sched
    BY <2>1 DEF Machine
  <2>4. Wakes(y, poked)
    <3> HIDE DEF y
    <3> QED BY <2>2, <2>3 DEF Wakes
  <2>5. Kept(x, y, {}, poked)
    BY <2>2, <2>4, IrqKept
  <2>6. OnSignal(x) = y
    BY <1>1, <2>1 DEF OnSignal, Machine, irq
  <2> HIDE DEF y
  <2>7. {} \subseteq OtherSlots
    OBVIOUS
  <2>8. Turns(x, y, poked) /\ (BusHeld(x) => BusHeld(y))
    BY <2>5, <2>7, KeptTurns
  <2> QED BY <2>4, <2>6, <2>8 DEF Turns
<1>2. CASE ~(EnabledRequests(x) \cap x.irq.wake # {})
  <2>1. OnSignal(x) = x
    BY <1>2 DEF OnSignal
  <2> QED BY <1>2, <2>1 DEF Wakes, LcdKept
<1> QED BY <1>1, <1>2

LEMMA CalledIs ==
  ASSUME NEW y, NEW id \in Known, NEW due
  PROVE  /\ id = HBlank => Called(y, id, due) = OnHBlank(y, due)
         /\ id = HBlankEnd => Called(y, id, due) = OnHBlankEnd(y, due)
         /\ id \in TimerEvents =>
              id - TimerEvent(0) \in TimerIds
              /\ Called(y, id, due) = OnOverflow(y, id - TimerEvent(0), due - ReadOffset)
         /\ id \in DmaStarts =>
              id - DmaEvent(0) \in Channels /\ Called(y, id, due) = RequestBus(y, id - DmaEvent(0))
         /\ id = Irq => Called(y, id, due) = OnSignal(y)
         /\ id = DmaResume => Called(y, id, due) = Run(y)
         /\ id = ImeLine => Called(y, id, due) = y
<1>1. id \in TimerEvents => id - TimerEvent(0) \in TimerIds
  BY TimersAssumption DEF TimerEvents, TimerEvent, TimerIds
<1>2. id \in DmaStarts => id - DmaEvent(0) \in Channels
  BY DmaAssumption DEF DmaStarts, DmaEvent, Channels
<1>3. id \in DmaStarts => id \in DmaEvents \ {DmaResume}
  BY EventsAre
<1>4. id \in DmaEvents \ {DmaResume} => id \in DmaStarts
  BY EventsAre
<1>5. CASE id = HBlank
  BY <1>5, EventsAre DEF Called
<1>6. CASE id = HBlankEnd
  BY <1>6, EventsAre DEF Called
<1>7. CASE id \in TimerEvents
  BY <1>1, <1>7, EventsAre DEF Called
<1>8. CASE id \in DmaStarts
  BY <1>2, <1>3, <1>8, EventsAre DEF Called
<1>9. CASE id \in {Irq, ImeLine, DmaResume}
  <2>1. id \notin TimerEvents /\ id \notin DmaStarts /\ id # HBlank /\ id # HBlankEnd
    BY <1>9, EventsAre
  <2> QED BY <1>4, <1>9, <2>1, EventsAre DEF Called
<1> QED
  BY <1>5, <1>6, <1>7, <1>8, <1>9, EventsAre DEF Known, InterruptEvents

\* The event that is due fires.
LEMMA FireOK ==
  ASSUME NEW poked, NEW x, Works(x, poked), IsDue(x.sched)
  PROVE  Works(NextEventRun(x), poked) /\ LcdMoves(x, NextEventRun(x))
<1> DEFINE id == NextEvent(x.sched)
           due == x.sched.due[id]
           y == [x EXCEPT !.sched = Taken(@)]
           z == NextEventRun(x)
<1>1. /\ z = Called(y, id, due)
      /\ id \in Known /\ due \in Nat /\ (id \in TimerEvents => due >= ReadOffset)
      /\ Device(y) /\ y.sched.due[id] = Never /\ y.irq = x.irq /\ y.dma = x.dma
      /\ y.line = x.line /\ y.frame = x.frame
      /\ SlotsKept(x.sched, y.sched, {id})
      /\ id # Irq => Kept(x, y, {id}, poked)
  BY TakenKept DEF Works
<1>2. due # Never
  BY <1>1, NeverIsNoCycle
<1>a. due = x.sched.due[id]
  OBVIOUS
<1> HIDE DEF id, y, z, due
<1>3. DmaResume \in Events /\ HBlank \in Events /\ HBlankEnd \in Events
  BY EventsAre
<1>4. id # DmaResume => BusHeld(y)
  BY <1>1, <1>3 DEF SlotsKept, BusHeld, Works
<1>5. LineStart(y) = LineStart(x)
  BY <1>1 DEF LineStart
<1>6. CASE id = HBlank
  <2>1. due = LineStart(y) + HBlankStart
    BY <1>2, <1>5, <1>6, <1>a DEF Works, OnGrid, IsScheduled
  <2>2. Wakes(y, poked) /\ BusHeld(y)
    BY <1>1, <1>4, <1>6, EventsAre DEF Kept, Works
  <2>3. z = OnHBlank(y, due)
    BY <1>1, <1>6, CalledIs
  <2>4. Works(z, poked) /\ z.frame = y.frame
    BY <1>1, <1>6, <2>1, <2>2, <2>3, OnHBlankOK
  <2> QED BY <1>1, <2>4 DEF LcdMoves, z
<1>7. CASE id = HBlankEnd
  <2>1. due = LineStart(y) + LineCycles
    BY <1>2, <1>5, <1>7, <1>a DEF Works, OnGrid, IsScheduled
  <2>2. Wakes(y, poked) /\ BusHeld(y)
    BY <1>1, <1>4, <1>7, EventsAre DEF Kept, Works
  <2>3. z = OnHBlankEnd(y, due)
    BY <1>1, <1>7, CalledIs
  <2>4. Works(z, poked)
        /\ (z.frame = y.frame \/ (z.frame = y.frame + 1 /\ z.line = 0 /\ IsScheduled(z.sched, HBlank)))
    BY <1>1, <1>7, <2>1, <2>2, <2>3, OnHBlankEndOK
  <2> QED BY <1>1, <2>4 DEF LcdMoves, z
<1>8. CASE id = Irq
  <2>1. z = OnSignal(y)
    BY <1>1, <1>8, CalledIs
  <2>2. Device(z) /\ Wakes(z, poked) /\ LcdKept(y, z) /\ BusHeld(z)
    BY <1>1, <1>4, <1>8, <2>1, OnSignalOK, EventsAre
  <2>3. LcdKept(x, y)
    BY <1>1, <1>3, <1>8, EventsAre DEF SlotsKept, LcdKept
  <2>4. LcdKept(x, z)
    BY <2>2, <2>3 DEF LcdKept
  <2>5. OnGrid(z)
    BY <2>4 DEF Works, LcdKept, OnGrid, LineStart, IsScheduled
  <2> QED BY <2>2, <2>4, <2>5 DEF LcdMoves, Works, z
<1>9. CASE id \notin {HBlank, HBlankEnd, Irq}
  <2>1. Turns(x, y, poked)
    BY <1>1, <1>3, <1>9 DEF Kept, Turns, LcdKept, SlotsKept
  <2>2. Turns(y, z, poked) /\ BusHeld(z)
    <3>1. CASE id \in TimerEvents
      <4>1. id - TimerEvent(0) \in TimerIds /\ z = OnOverflow(y, id - TimerEvent(0), due - ReadOffset)
        BY <1>1, <3>1, CalledIs
      <4>2. due - ReadOffset \in Nat
        BY <1>1, <3>1, TimersAssumption
      <4>3. Kept(y, z, TimerSlots, poked)
        BY <1>1, <4>1, <4>2, OnOverflowOK
      <4>4. TimerSlots \subseteq OtherSlots /\ id # DmaResume
        BY <3>1, EventsAre DEF OtherSlots
      <4> QED BY <1>4, <4>3, <4>4, KeptTurns
    <3>2. CASE id \in DmaStarts
      <4>1. id - DmaEvent(0) \in Channels /\ z = RequestBus(y, id - DmaEvent(0))
        BY <1>1, <3>2, CalledIs
      <4> QED BY <1>1, <4>1, RequestBusOK
    <3>3. CASE id = DmaResume
      <4>1. z = Run(y)
        BY <1>1, <3>3, CalledIs
      <4> QED BY <1>1, <4>1, RunOK
    <3>4. CASE id = ImeLine
      <4>1. z = y /\ id # DmaResume
        BY <1>1, <3>4, CalledIs, EventsAre
      <4> QED BY <1>1, <1>4, <4>1 DEF Turns, LcdKept
    <3> QED BY <1>1, <1>9, <3>1, <3>2, <3>3, <3>4, EventsAre DEF Known, InterruptEvents
  <2>3. Turns(x, z, poked)
    BY <2>1, <2>2, TurnsTrans
  <2>4. Works(z, poked) /\ LcdKept(x, z)
    BY <2>2, <2>3, TurnsWorks
  <2> QED BY <2>4 DEF LcdMoves, z
<1> QED BY <1>6, <1>7, <1>8, <1>9

-----------------------------------------------------------------------------
(* The machine that begins, and the one restored *)

LEMMA NewSchedulerOK ==
  /\ SchedOK(NewScheduler) /\ NewScheduler.now = 0
  /\ \A id \in Events : NewScheduler.due[id] = Never
<1> DEFINE s == NewScheduler
           due == [id \in Events |-> Never]
<1>1. s.now = 0 /\ s.due = due /\ s.attached = {} /\ s.next = Never
  BY DEF NewScheduler
<1>2. s \in Scheduler
  BY DEF NewScheduler, Scheduler
<1>3. {due[id] : id \in Events} \ {Never} = {}
  OBVIOUS
<1>4. FindNextEvent(due) = Never
  BY <1>3, Zenon DEF FindNextEvent
<1>5. due[0] = due[0] /\ \A id \in Events : due[id] = Never
  OBVIOUS
<1> HIDE DEF s, due
<1>6. TimerEvents \subseteq Events
  BY EventsAre
<1>7. SchedOK(s)
  BY <1>1, <1>2, <1>4, <1>5, <1>6 DEF SchedOK, Sound, CachesEarliest, IsScheduled
<1> QED BY <1>1, <1>5, <1>7 DEF s

\* A machine that begins: its first line has begun, and no one waits or sleeps.
LEMMA NewMachineOK ==
  ASSUME NEW poked
  PROVE  Works(NewMachine, poked) /\ ~NewMachine.dma.moving
<1> DEFINE timers == [i \in TimerIds |-> NewTimer(Min(Prescalers))]
           blank == [sched |-> NewScheduler, irq |-> NewInterrupts, timers |-> timers, dma |-> NewDma,
                     line |-> 0, frame |-> 0, masked |-> FALSE, vblankIrq |-> FALSE]
           x == [blank EXCEPT !.sched = ScheduleAt(@, HBlank, HBlankStart)]
<1>1. timers \in TimersState
  <2>1. Prescalers \in SUBSET Nat /\ Prescalers # {} /\ 0 \in 0 .. CounterSize - 1
    BY TimersAssumption
  <2>2. Min(Prescalers) \in Prescalers
    BY <2>1, MinInNat
  <2> QED BY <2>1, <2>2 DEF TimersState, TimerState, NewTimer
<1>2. NewInterrupts \in IrqState /\ ~NewInterrupts.halted
  BY DEF NewInterrupts, IrqState
<1>3. NewDma \in DmaState /\ Loaded(NewDma) /\ NewDma.waiting = {} /\ ~NewDma.running /\ ~NewDma.moving
  BY DEF NewDma, NewChannel, DmaState, ChannelState, Timings, Loaded
<1>4. 0 \in 0 .. Lines - 1 /\ HBlankStart \in Nat /\ 0 + HBlankStart = HBlankStart
      /\ LineCycles \in Nat /\ Lines \in Nat
  BY ConsoleAssumption
<1>5. SchedOK(NewScheduler) /\ NewScheduler \in Scheduler
      /\ \A id \in Events : NewScheduler.due[id] = Never
  BY NewSchedulerOK, SchedType
<1> HIDE DEF timers
<1>6. /\ blank \in Machine /\ Device(blank) /\ blank.line = 0 /\ blank.frame = 0
      /\ blank.dma = NewDma /\ blank.irq = NewInterrupts /\ blank.sched = NewScheduler
  BY <1>1, <1>2, <1>3, <1>4, <1>5 DEF Machine, Device
<1>7. NewMachine = x
  BY <1>4 DEF NewMachine, BeginLine, timers
<1> HIDE DEF blank
<1>8. Wakes(blank, poked) /\ BusHeld(blank)
  BY <1>2, <1>3, <1>6 DEF Wakes, BusHeld
<1>9. Kept(blank, x, {HBlank}, poked) /\ x.sched.due[HBlank] = HBlankStart
  BY <1>4, <1>6, LcdSlotKept
<1> HIDE DEF x
<1>10. x.sched.due[HBlankEnd] = Never /\ x.line = 0 /\ x.frame = 0 /\ x.dma = NewDma
  BY <1>5, <1>6, <1>9, EventsAre DEF Kept, SlotsKept
<1>11. LineStart(x) + HBlankStart = HBlankStart
  BY <1>4, <1>10 DEF LineStart
<1>12. OnGrid(x)
  BY <1>9, <1>10, <1>11 DEF OnGrid, IsScheduled
<1>13. BusHeld(x)
  BY <1>3, <1>10 DEF BusHeld
<1> QED BY <1>3, <1>7, <1>8, <1>9, <1>10, <1>12, <1>13 DEF Works, Kept

\* A machine restored from a snapshot works as the one saved did.
LEMMA RestoredWorks ==
  ASSUME NEW poked, NEW x, Works(x, poked), ~x.dma.moving
  PROVE  Works(Deserialized(Serialized(x)), poked) /\ ~Deserialized(Serialized(x)).dma.moving
<1> DEFINE sched == Reattached(Deserialize(Serialize(x.sched)))
           irq == DeserializeInterrupts(SerializeInterrupts(x.irq))
           dma == DeserializeDma(SerializeDma(x.dma))
           y == [sched |-> sched, irq |-> irq, timers |-> x.timers, dma |-> dma, line |-> x.line,
                 frame |-> x.frame, masked |-> x.masked, vblankIrq |-> x.vblankIrq]
<1>1. Deserialized(Serialized(x)) = y
  BY DEF Deserialized, Serialized
<1>2. SchedOK(sched) /\ sched.now = x.sched.now /\ sched.due = x.sched.due
  BY RestoredOK DEF Works, Device
<1>3. x.irq \in IrqState /\ x \in Machine
  BY IrqType DEF Works, Device
<1>4. /\ irq \in IrqState /\ irq.halted = x.irq.halted /\ irq.ie = x.irq.ie /\ irq.flags = x.irq.flags
      /\ x.irq.halted => irq.wake = x.irq.wake
  BY <1>3 DEF IrqState, SerializeInterrupts, DeserializeInterrupts
<1>5. /\ dma \in DmaState /\ Loaded(dma) /\ ~dma.moving
      /\ dma.waiting = x.dma.waiting /\ dma.running = x.dma.running
  <2>1. x.dma \in DmaState /\ Loaded(x.dma)
    BY DmaType DEF Works
  <2> QED BY <2>1 DEF DmaState, Loaded, SerializeDma, DeserializeDma
<1> HIDE DEF sched, irq, dma
<1>6. /\ y \in Machine /\ y.sched = sched /\ y.irq = irq /\ y.dma = dma
      /\ y.line = x.line /\ y.frame = x.frame
  BY <1>2, <1>3, <1>4, <1>5, SchedType DEF Machine
<1> HIDE DEF y
<1>7. Device(y)
  BY <1>2, <1>5, <1>6 DEF Device
<1>8. Wakes(y, poked)
  BY <1>2, <1>4, <1>6 DEF Works, Wakes, EnabledRequests, IsScheduled
<1>9. OnGrid(y)
  BY <1>2, <1>6 DEF Works, OnGrid, LineStart, IsScheduled
<1>10. BusHeld(y)
  BY <1>2, <1>5, <1>6 DEF Works, BusHeld
<1> QED BY <1>1, <1>5, <1>6, <1>7, <1>8, <1>9, <1>10 DEF Works

-----------------------------------------------------------------------------
(* The run *)

Poked == "poke" \in program.does

\* A run that was asked for a frame is not past its first moment.
RunsToFrame ==
  run # None /\ run.line = None =>
    m.frame < run.frame \/ (m.frame = run.frame /\ m.line = 0 /\ IsScheduled(m.sched, HBlank))

\* What is saved is a machine that works.
SavedWorks ==
  saved # None => \E x \in Machine : Works(x, Poked) /\ ~x.dma.moving /\ saved = Serialized(x)

ConsoleInv ==
  /\ Works(m, Poked)
  /\ program \in Programs
  /\ run \in {None} \cup [frame : Nat, line : Nat \cup {None}]
  /\ run = None => ~m.dma.moving
  /\ RunsToFrame
  /\ SavedWorks

\* A step that runs the machine, from one that works to one that does.
Onward ==
  /\ Works(m', Poked)
  /\ LcdKept(m, m')
  /\ run = None => m'.dma.moving = m.dma.moving
  /\ UNCHANGED <<run, saved, program>>

LEMMA OnwardKeeps ==
  ASSUME ConsoleInv, Onward
  PROVE  ConsoleInv'
<1>1. Poked' = Poked
  BY DEF Onward, Poked
<1>2. Works(m', Poked') /\ program' \in Programs
  BY <1>1 DEF Onward, ConsoleInv
<1>3. run' \in {None} \cup [frame : Nat, line : Nat \cup {None}] /\ (run' = None => ~m'.dma.moving)
  BY DEF Onward, ConsoleInv
<1>4. RunsToFrame'
  BY DEF Onward, ConsoleInv, RunsToFrame, LcdKept, IsScheduled
<1>5. SavedWorks'
  BY <1>1 DEF Onward, ConsoleInv, SavedWorks
<1> QED BY <1>2, <1>3, <1>4, <1>5 DEF ConsoleInv

\* The machine stays as it is.
LEMMA StillKeeps ==
  ASSUME ConsoleInv, m' = m, program' = program, saved' = saved,
         run' \in {None} \cup [frame : Nat, line : Nat \cup {None}],
         run' = None => ~m.dma.moving, RunsToFrame'
  PROVE  ConsoleInv'
<1>1. Poked' = Poked
  BY DEF Poked
<1> QED BY <1>1 DEF ConsoleInv, SavedWorks

\* An instruction executes.
LEMMA ExecutesOnward ==
  ASSUME ConsoleInv, NEW x, Executes(x), Turns(m, x, Poked), BusHeld(x), x.dma.moving = m.dma.moving
  PROVE  Onward
<1>1. PICK cycles \in Lengths : m' = [x EXCEPT !.sched = Advance(@, cycles)]
  BY DEF Executes
<1>2. cycles \in Nat /\ Device(x)
  BY ConsoleAssumption DEF Turns
<1>3. Turns(x, m', Poked) /\ BusHeld(m') /\ m'.dma = x.dma
  BY <1>1, <1>2, AdvancedOK
<1>4. Turns(m, m', Poked)
  BY <1>3, TurnsTrans
<1>5. Works(m', Poked) /\ LcdKept(m, m')
  BY <1>3, <1>4, TurnsWorks DEF ConsoleInv
<1> QED BY <1>3, <1>5 DEF Onward, Executes

\* An instruction that writes slots of the timers and the interrupts at most.
LEMMA KeptOnward ==
  ASSUME ConsoleInv, NEW x, Executes(x), NEW ids, Kept(m, x, ids, Poked), ids \subseteq OtherSlots
  PROVE  Onward
<1>1. Turns(m, x, Poked) /\ BusHeld(x) /\ x.dma = m.dma
  BY KeptTurns DEF ConsoleInv, Works
<1> QED BY <1>1, ExecutesOnward

\* A flag of the machine's own is written.
LEMMA FlagKept ==
  ASSUME NEW poked, NEW x, Device(x), NEW on \in BOOLEAN, NEW ids
  PROVE  Kept(x, [x EXCEPT !.masked = on], ids, poked) /\ Kept(x, [x EXCEPT !.vblankIrq = on], ids, poked)
<1> DEFINE y == [x EXCEPT !.masked = on]
           z == [x EXCEPT !.vblankIrq = on]
<1>1. x \in Machine
  BY DEF Device
<1>2. /\ y \in Machine /\ y.sched = x.sched /\ y.irq = x.irq /\ y.dma = x.dma
      /\ y.line = x.line /\ y.frame = x.frame
      /\ z \in Machine /\ z.sched = x.sched /\ z.irq = x.irq /\ z.dma = x.dma
      /\ z.line = x.line /\ z.frame = x.frame
  BY <1>1 DEF Machine
<1> HIDE DEF y, z
<1> QED
  BY <1>2 DEF Kept, Device, SlotsKept, Wakes, EnabledRequests, y, z

LEMMA SlotSets ==
  /\ TimerSlots \subseteq OtherSlots /\ {Irq} \subseteq OtherSlots /\ {ImeLine} \subseteq OtherSlots
  /\ {} \subseteq OtherSlots /\ DmaStarts \subseteq OtherSlots
BY OtherSlotsAre DEF OtherSlots

\* What the CPU does keeps the machine working.
LEMMA CpuOnward ==
  ASSUME ConsoleInv,
         \/ EnterIrq \/ Compute \/ WriteTimerControl \/ WriteTimerReload \/ ReadTimerCounter
         \/ WriteDmaControl \/ WriteIe \/ WriteIf \/ WriteIme \/ WriteDispstat \/ WriteCpsr
         \/ Halt \/ Stop
  PROVE  Onward
<1>0. Device(m) /\ Works(m, Poked) /\ m \in Machine /\ Poked \in BOOLEAN
  BY DEF ConsoleInv, Works, Device, Poked
<1>1. CASE EnterIrq
  <2> DEFINE x == [m EXCEPT !.masked = TRUE]
             y == [x EXCEPT !.sched = Advance(@, IrqCycles)]
  <2>1. Kept(m, x, {}, Poked)
    BY <1>0, FlagKept
  <2>2. m' = y
    BY <1>0, <1>1 DEF EnterIrq, Machine
  <2> HIDE DEF x
  <2>3. Turns(m, x, Poked) /\ BusHeld(x) /\ x.dma = m.dma /\ Device(x)
    BY <1>0, <2>1, SlotSets, KeptTurns DEF Works, Kept
  <2>4. IrqCycles \in Nat
    BY ConsoleAssumption
  <2>5. Turns(x, y, Poked) /\ BusHeld(y) /\ y.dma = x.dma
    BY <2>3, <2>4, AdvancedOK
  <2> HIDE DEF y
  <2>6. Turns(m, y, Poked)
    BY <2>3, <2>5, TurnsTrans
  <2>7. Works(y, Poked) /\ LcdKept(m, y)
    BY <1>0, <2>5, <2>6, TurnsWorks
  <2> QED BY <1>1, <2>2, <2>3, <2>5, <2>7 DEF Onward, EnterIrq
<1>2. CASE Compute
  <2>1. Kept(m, m, {}, Poked)
    BY <1>0, KeptSelf
  <2> QED BY <1>2, <2>1, SlotSets, KeptOnward DEF Compute
<1>3. CASE WriteTimerControl
  <2>1. PICK i \in TimerIds : \E control \in Controls[i] : Executes(ControlWritten(m, i, control))
    BY <1>3 DEF WriteTimerControl
  <2>2. PICK control \in Controls[i] : Executes(ControlWritten(m, i, control))
    BY <2>1
  <2>3. control \in Control
    BY ConsoleAssumption
  <2>4. Kept(m, ControlWritten(m, i, control), TimerSlots, Poked)
    BY <1>0, <2>3, ControlWrittenOK
  <2> QED BY <2>2, <2>4, SlotSets, KeptOnward
<1>4. CASE WriteTimerReload
  <2>1. PICK i \in TimerIds, value \in Reloads : Executes(ReloadWritten(m, i, value))
    BY <1>4 DEF WriteTimerReload
  <2>2. value \in 0 .. CounterSize - 1
    BY ConsoleAssumption
  <2>3. Kept(m, ReloadWritten(m, i, value), TimerSlots, Poked)
    BY <1>0, <2>2, ReloadWrittenOK
  <2> QED BY <2>1, <2>3, SlotSets, KeptOnward
<1>5. CASE ReadTimerCounter
  <2>1. PICK i \in TimerIds : Executes(CounterRead(m, i))
    BY <1>5 DEF ReadTimerCounter
  <2>2. Kept(m, CounterRead(m, i), TimerSlots, Poked)
    BY <1>0, CounterReadOK
  <2> QED BY <2>1, <2>2, SlotSets, KeptOnward
<1>6. CASE WriteDmaControl
  <2>1. PICK i \in Channels, units \in DmaUnits, control \in DmaControls :
          Executes(DmaControlWritten(m, i, units, control))
    BY <1>6 DEF WriteDmaControl
  <2> DEFINE x == DmaControlWritten(m, i, units, control)
  <2>2. Turns(m, x, Poked) /\ BusHeld(x) /\ x.dma.moving = m.dma.moving
    BY <1>0, DmaControlWrittenOK DEF Works
  <2> HIDE DEF x
  <2>3. Executes(x)
    BY <2>1 DEF x
  <2> QED BY <2>2, <2>3, ExecutesOnward
<1>7. CASE WriteIe
  <2>1. PICK flags \in SUBSET Flags : Executes(IeWritten(m, flags))
    BY <1>7 DEF WriteIe
  <2>2. ~m.irq.halted
    BY <2>1 DEF Executes, CpuRuns
  <2>3. Kept(m, IeWritten(m, flags), {Irq}, Poked)
    BY <1>0, <2>2, IeWrittenOK
  <2> QED BY <2>1, <2>3, SlotSets, KeptOnward
<1>8. CASE WriteIf
  <2>1. PICK flags \in SUBSET m.irq.flags : Executes(Acknowledged(m, flags))
    BY <1>8 DEF WriteIf
  <2>2. Kept(m, Acknowledged(m, flags), {}, Poked)
    BY <1>0, AcknowledgedOK
  <2> QED BY <2>1, <2>2, SlotSets, KeptOnward
<1>9. CASE WriteIme
  <2>1. PICK on \in BOOLEAN : Executes(ImeWritten(m, on))
    BY <1>9 DEF WriteIme
  <2>2. Kept(m, ImeWritten(m, on), {ImeLine}, Poked)
    BY <1>0, ImeWrittenOK
  <2> QED BY <2>1, <2>2, SlotSets, KeptOnward
<1>10. CASE WriteDispstat
  <2>1. PICK on \in BOOLEAN : Executes([m EXCEPT !.vblankIrq = on])
    BY <1>10 DEF WriteDispstat
  <2>2. Kept(m, [m EXCEPT !.vblankIrq = on], {}, Poked)
    BY <1>0, FlagKept
  <2> QED BY <2>1, <2>2, SlotSets, KeptOnward
<1>11. CASE WriteCpsr
  <2> DEFINE on == ~m.masked
  <2>1. Executes([m EXCEPT !.masked = on])
    BY <1>11 DEF WriteCpsr
  <2>2. on \in BOOLEAN
    OBVIOUS
  <2> HIDE DEF on
  <2>3. Kept(m, [m EXCEPT !.masked = on], {}, Poked)
    BY <1>0, <2>2, FlagKept
  <2> QED BY <2>1, <2>3, SlotSets, KeptOnward
<1>12. CASE Halt
  <2>1. Kept(m, Slept(m, Flags), {}, Poked)
    BY <1>0, SleptOK
  <2> QED BY <1>12, <2>1, SlotSets, KeptOnward DEF Halt
<1>13. CASE Stop
  <2>1. Kept(m, Slept(m, StopFlags), {}, Poked)
    BY <1>0, SleptOK
  <2> QED BY <1>13, <2>1, SlotSets, KeptOnward DEF Stop
<1> QED
  BY <1>1, <1>2, <1>3, <1>4, <1>5, <1>6, <1>7, <1>8, <1>9, <1>10, <1>11, <1>12, <1>13

\* Something is always scheduled: the next event of the LCD at the latest.
LEMMA AlwaysNext ==
  ASSUME NEW poked, NEW x, Works(x, poked)
  PROVE  x.sched.next \in Nat
<1>1. x.sched \in Scheduler /\ Sound(x.sched)
  BY SchedType DEF Works, Device, SchedOK
<1>2. Earliest(x.sched.due, x.sched.next)
  BY <1>1, SoundIsEarliest
<1>3. LineStart(x) + HBlankStart \in Nat /\ LineStart(x) + LineCycles \in Nat
  BY LcdType DEF Works
<1>4. x.sched.due[HBlank] \in Nat \/ x.sched.due[HBlankEnd] \in Nat
  BY <1>3 DEF Works, OnGrid
<1> QED BY <1>2, <1>4, EventsAre, NeverIsNoCycle DEF Earliest

\* Time passes while the CPU sleeps.
LEMMA SleepOnward ==
  ASSUME ConsoleInv, Sleep
  PROVE  Onward
<1> DEFINE cycles == m.sched.next - m.sched.now
           y == [m EXCEPT !.sched = Advance(@, cycles)]
<1>1. Works(m, Poked) /\ Device(m)
  BY DEF ConsoleInv, Works
<1>2. cycles \in Nat
  <2>1. m.sched.next \in Nat /\ m.sched.now \in Nat
    BY <1>1, AlwaysNext, IrqType
  <2>2. m.sched.next > m.sched.now
    BY <2>1, NeverIsNoCycle DEF Sleep, IsDue
  <2> QED BY <2>1, <2>2
<1>3. m' = y
  BY DEF Sleep
<1> HIDE DEF cycles
<1>4. Turns(m, y, Poked) /\ BusHeld(y) /\ y.dma = m.dma
  BY <1>1, <1>2, AdvancedOK DEF Works
<1> HIDE DEF y
<1>5. Works(y, Poked) /\ LcdKept(m, y)
  BY <1>1, <1>4, TurnsWorks
<1> QED BY <1>3, <1>4, <1>5 DEF Onward, Sleep

\* A pass of the transfers' loop.
LEMMA DmaOnward ==
  ASSUME ConsoleInv, EndDma \/ PauseDma \/ DropChannel \/ MoveUnit
  PROVE  Onward
<1>1. Works(m, Poked) /\ Device(m) /\ m.dma.moving /\ run # None /\ UNCHANGED <<run, saved, program>>
  BY DEF ConsoleInv, Works, EndDma, PauseDma, DropChannel, MoveUnit, MovesUnits
<1>2. Turns(m, m', Poked) /\ BusHeld(m')
  <2>1. CASE EndDma
    BY <1>1, <2>1, RunEndedOK DEF EndDma
  <2>2. CASE PauseDma
    BY <1>1, <2>2, PausedOK DEF PauseDma
  <2>3. CASE DropChannel
    BY <1>1, <2>3, DroppedOK DEF DropChannel
  <2>4. CASE MoveUnit
    <3>1. m.dma.waiting # {} /\ m.dma.channels[Current(m)].enabled /\ m' = UnitMoved(m)
      BY <2>4 DEF MoveUnit, EndsRun
    <3> QED BY <1>1, <3>1, UnitMovedOK
  <2> QED BY <2>1, <2>2, <2>3, <2>4
<1>3. Works(m', Poked) /\ LcdKept(m, m')
  BY <1>1, <1>2, TurnsWorks
<1> QED BY <1>1, <1>3 DEF Onward

\* A key is pressed or a register poked, between runs.
LEMMA BetweenRunsOnward ==
  ASSUME ConsoleInv, PressKey \/ PokeIe
  PROVE  Onward
<1>1. Works(m, Poked) /\ Device(m) /\ UNCHANGED <<run, saved, program>> /\ m.sched.now \in Nat
  BY IrqType DEF ConsoleInv, Works, PressKey, PokeIe
<1>2. Kept(m, m', {Irq}, Poked)
  <2>1. CASE PressKey
    <3>1. {"Keypad"} \in SUBSET Flags
      BY ConsoleAssumption
    <3> QED BY <1>1, <2>1, <3>1, RequestedOK DEF PressKey
  <2>2. CASE PokeIe
    <3>1. Poked = TRUE /\ Poked \in BOOLEAN
      BY <2>2 DEF PokeIe, Does, Poked
    <3>2. PICK flags \in SUBSET Flags : m' = IeWritten(m, flags)
      BY <2>2 DEF PokeIe
    <3> QED BY <1>1, <3>1, <3>2, IeWrittenOK
  <2> QED BY <2>1, <2>2
<1>3. Turns(m, m', Poked) /\ BusHeld(m') /\ m'.dma = m.dma
  BY <1>1, <1>2, SlotSets, KeptTurns DEF Works
<1>4. Works(m', Poked) /\ LcdKept(m, m')
  BY <1>1, <1>3, TurnsWorks
<1> QED BY <1>1, <1>3, <1>4 DEF Onward

\* An event fires, in a run that goes on.
LEMMA FireKeeps ==
  ASSUME ConsoleInv, FireEvent
  PROVE  ConsoleInv'
<1>1. Works(m, Poked) /\ IsDue(m.sched) /\ m' = NextEventRun(m) /\ run # None /\ ~Done
  BY DEF ConsoleInv, FireEvent, Running
<1>2. Works(m', Poked) /\ LcdMoves(m, m')
  BY <1>1, FireOK
<1>3. UNCHANGED <<run, saved, program>> /\ Poked' = Poked
  BY DEF FireEvent, Poked
<1>4. ASSUME run.line = None
      PROVE  m'.frame < run.frame \/ (m'.frame = run.frame /\ m'.line = 0 /\ IsScheduled(m'.sched, HBlank))
  <2>1. run \in [frame : Nat, line : Nat \cup {None}]
    BY <1>1 DEF ConsoleInv
  <2>2. run.frame \in Nat /\ m.frame \in Nat /\ m.frame < run.frame
    BY <1>1, <1>4, <2>1, LcdType DEF Done, Works
  <2> QED BY <1>2, <2>2 DEF LcdMoves, LcdKept
<1>5. RunsToFrame'
  BY <1>3, <1>4 DEF RunsToFrame
<1>6. SavedWorks'
  BY <1>3 DEF ConsoleInv, SavedWorks
<1> QED BY <1>1, <1>2, <1>3, <1>5, <1>6 DEF ConsoleInv

\* A run begins or ends.
LEMMA RunKeeps ==
  ASSUME ConsoleInv, RunFrame \/ RunScanline \/ RunEnds \/ StopRun
  PROVE  ConsoleInv'
<1>1. Device(m) /\ m.frame \in Nat /\ m.line \in Nat /\ None \notin Nat
  BY LcdType, ConsoleAssumption DEF ConsoleInv, Works
<1>2. m' = m /\ program' = program /\ saved' = saved
  BY DEF RunFrame, RunScanline, RunEnds, StopRun
<1>3. CASE RunFrame
  <2>1. run' = [frame |-> m.frame + 1, line |-> None]
    BY <1>3 DEF RunFrame, UntilFrame
  <2>2. m.frame + 1 \in Nat /\ m.frame < m.frame + 1
    BY <1>1
  <2>3. run' \in [frame : Nat, line : Nat \cup {None}]
    BY <2>1, <2>2
  <2>4. RunsToFrame'
    BY <1>2, <2>1, <2>2 DEF RunsToFrame
  <2>5. ~m.dma.moving
    BY <1>3 DEF RunFrame, ConsoleInv
  <2> QED BY <1>2, <2>3, <2>4, <2>5, StillKeeps
<1>4. CASE RunScanline
  <2>1. run' = [frame |-> m.frame, line |-> m.line]
    BY <1>4 DEF RunScanline, UntilNextLine
  <2>2. run' \in [frame : Nat, line : Nat \cup {None}]
    BY <1>1, <2>1
  <2>3. RunsToFrame'
    BY <1>1, <2>1 DEF RunsToFrame
  <2>4. ~m.dma.moving
    BY <1>4 DEF RunScanline, ConsoleInv
  <2> QED BY <1>2, <2>2, <2>3, <2>4, StillKeeps
<1>5. CASE RunEnds \/ StopRun
  <2>1. run' = None /\ ~m.dma.moving
    BY <1>5 DEF RunEnds, StopRun, Running
  <2>2. RunsToFrame'
    BY <2>1 DEF RunsToFrame
  <2> QED BY <1>2, <2>1, <2>2, StillKeeps
<1> QED BY <1>3, <1>4, <1>5

\* A machine is saved, restored, or begins again, between runs.
LEMMA SnapshotKeeps ==
  ASSUME ConsoleInv, Save \/ Load \/ Reset
  PROVE  ConsoleInv'
<1>1. run = None /\ run' = run /\ program' = program /\ Poked' = Poked
      /\ Works(m, Poked) /\ ~m.dma.moving
  BY DEF Save, Load, Reset, Poked, ConsoleInv
<1>2. RunsToFrame'
  BY <1>1 DEF RunsToFrame
<1>3. CASE Save
  <2>1. m' = m /\ saved' = Serialized(m)
    BY <1>3 DEF Save
  <2>2. m \in Machine
    BY <1>1 DEF Works, Device
  <2>3. SavedWorks'
    BY <1>1, <2>1, <2>2 DEF SavedWorks
  <2> QED BY <1>1, <1>2, <2>1, <2>3 DEF ConsoleInv
<1>4. CASE Load
  <2>1. saved # None /\ m' = Deserialized(saved) /\ saved' = saved
    BY <1>4 DEF Load
  <2>2. PICK x \in Machine : Works(x, Poked) /\ ~x.dma.moving /\ saved = Serialized(x)
    BY <2>1 DEF ConsoleInv, SavedWorks
  <2>3. Works(m', Poked) /\ ~m'.dma.moving
    BY <2>1, <2>2, RestoredWorks
  <2>4. SavedWorks'
    BY <1>1, <2>1 DEF ConsoleInv, SavedWorks
  <2> QED BY <1>1, <1>2, <2>3, <2>4 DEF ConsoleInv
<1>5. CASE Reset
  <2>1. m' = NewMachine /\ saved' = None
    BY <1>5 DEF Reset
  <2>2. Works(m', Poked) /\ ~m'.dma.moving
    BY <2>1, NewMachineOK
  <2>3. SavedWorks'
    BY <2>1 DEF SavedWorks
  <2> QED BY <1>1, <1>2, <2>2, <2>3 DEF ConsoleInv
<1> QED BY <1>3, <1>4, <1>5

\* The invariant the properties below rest on is inductive.
THEOREM ConsoleInductive == Spec => []ConsoleInv
<1>1. Init => ConsoleInv
  <2> SUFFICES ASSUME Init PROVE ConsoleInv
    OBVIOUS
  <2>1. Works(m, Poked) /\ ~m.dma.moving
    BY NewMachineOK DEF Init
  <2> QED BY <2>1 DEF Init, ConsoleInv, RunsToFrame, SavedWorks
<1>2. ConsoleInv /\ [Next]_vars => ConsoleInv'
  <2> SUFFICES ASSUME ConsoleInv, [Next]_vars PROVE ConsoleInv'
    OBVIOUS
  <2>1. CASE UNCHANGED vars
    BY <2>1 DEF vars, ConsoleInv, RunsToFrame, SavedWorks, Poked
  <2>2. CASE RunFrame \/ RunScanline \/ RunEnds \/ StopRun
    BY <2>2, RunKeeps
  <2>3. CASE FireEvent
    BY <2>3, FireKeeps
  <2>4. CASE Sleep
    BY <2>4, SleepOnward, OnwardKeeps
  <2>5. CASE EndDma \/ PauseDma \/ DropChannel \/ MoveUnit
    BY <2>5, DmaOnward, OnwardKeeps
  <2>6. CASE \/ EnterIrq \/ Compute \/ WriteTimerControl \/ WriteTimerReload \/ ReadTimerCounter
             \/ WriteDmaControl \/ WriteIe \/ WriteIf \/ WriteIme \/ WriteDispstat \/ WriteCpsr
             \/ Halt \/ Stop
    BY <2>6, CpuOnward, OnwardKeeps
  <2>7. CASE PressKey \/ PokeIe
    BY <2>7, BetweenRunsOnward, OnwardKeeps
  <2>8. CASE Save \/ Load \/ Reset
    BY <2>8, SnapshotKeeps
  <2> QED BY <2>1, <2>2, <2>3, <2>4, <2>5, <2>6, <2>7, <2>8 DEF Next
<1> QED BY <1>1, <1>2, PTL DEF Spec

-----------------------------------------------------------------------------
(* Theorems *)

\* Whatever is scheduled will be fired: the run loop knows the earliest event, and each
\* has the callback of its device, in a machine restored from a snapshot too.
THEOREM EventsFire == Spec => []EventsWillFire
<1>1. ConsoleInv => EventsWillFire
  BY DEF ConsoleInv, Works, Device, SchedOK, Sound, EventsWillFire
<1> QED BY <1>1, ConsoleInductive, PTL

\* The lines stay on the hardware's grid, however late their events fire.
THEOREM LinesKeepTime == Spec => []LinesOnTheGrid
<1>1. ConsoleInv => LinesOnTheGrid
  BY DEF ConsoleInv, Works, OnGrid, LineStart, LinesOnTheGrid
<1> QED BY <1>1, ConsoleInductive, PTL

\* A sleeping CPU that an enabled request would wake is going to see it.
THEOREM WakeupsArrive == Spec => []NoLostWakeup
<1>1. ConsoleInv => NoLostWakeup
  BY DEF ConsoleInv, Works, Wakes, Poked, NoLostWakeup
<1> QED BY <1>1, ConsoleInductive, PTL

\* While channels wait for the bus the CPU does not run, and an enabled channel has units
\* to move.
THEOREM BusIsHeld == Spec => []TransfersHoldTheBus
<1>1. ConsoleInv => TransfersHoldTheBus
  BY DEF ConsoleInv, Works, BusHeld, Device, Loaded, TransfersHoldTheBus
<1> QED BY <1>1, ConsoleInductive, PTL

\* A run that was asked for a frame ends as the frame does, before anything of the next
\* one happens.
THEOREM FramesAlign == Spec => FramesStayAligned
<1>1. ASSUME ConsoleInv, RunEnds, run.line = None
      PROVE  m.frame = run.frame /\ m.line = 0 /\ IsScheduled(m.sched, HBlank)
  <2>1. run # None /\ m.frame >= run.frame
    BY <1>1 DEF RunEnds, Done
  <2>2. run.frame \in Nat /\ m.frame \in Nat
    BY <1>1, <2>1, LcdType DEF ConsoleInv, Works
  <2> QED BY <1>1, <2>1, <2>2 DEF ConsoleInv, RunsToFrame
<1>2. ConsoleInv /\ [Next]_vars =>
        [RunEnds /\ run.line = None =>
           m.frame = run.frame /\ m.line = 0 /\ IsScheduled(m.sched, HBlank)]_vars
  BY <1>1
<1> QED BY <1>2, ConsoleInductive, PTL DEF Spec, FramesStayAligned
=================================================================================
