------------------------------- MODULE Prefetch -------------------------------
(* What an access costs (gba-emulator system-bus.ts accessCycles,           *)
(* fetchCycles, dataCycles, idle) and the unit that reads the cartridge     *)
(* ahead of the CPU while nothing else uses it (prefetch.ts).  An address   *)
(* is <<region, offset>>.                                                   *)
EXTENDS Integers, FiniteSets

CONSTANTS TARGETS,    \* where code branches to
          DATA,       \* where it loads from
          CONTROLS,   \* settings of WAITCNT and memory control:
                      \* [n, s: wait state -> selector, sram, ewram, prefetch]
          BUFFER_BYTES,   \* what the unit holds (16)
          CYCLES      \* bound: cycles of one behaviour

\* The selectors are fields of WAITCNT and of the memory control register; the
\* buffer is a whole number of opcodes of either width.
Settings ==
  [n : [1 .. 3 -> 1 .. 4], s : [1 .. 3 -> 1 .. 2], sram : 1 .. 4, ewram : 0 .. 15, prefetch : BOOLEAN]
ASSUME PrefetchAssumption ==
  /\ TARGETS \subseteq (0 .. 15) \X Nat /\ DATA \subseteq (0 .. 15) \X Nat
  /\ CONTROLS \subseteq Settings
  /\ BUFFER_BYTES \in Nat \ {0} /\ BUFFER_BYTES % 4 = 0
  /\ CYCLES \in Nat

VARIABLES control,   \* the setting in force
          unit,      \* [active, head, count, countdown, width, duty]
          fetching,       \* [next, width]: the next opcode to fetch
          since,     \* cycles since the unit began
          taken,     \* opcodes it read that the CPU took or skipped
          mark,      \* the last access: [cost, price], and of the unit since it
                     \* began: [full, mixed, changed]
          clock
prefetchVars == <<control, unit, fetching, since, taken, mark, clock>>

ROM == 8 .. 13
CARTRIDGE == 8 .. 15
BLOCK == 131072

-----------------------------------------------------------------------------
(* Prices                                                                  *)
ROM_N_WAITS == <<4, 3, 2, 8>>
ROM_S_WAITS == <<<<2, 1>>, <<4, 1>>, <<8, 1>>>>

WaitState(region) == ((region - 8) \div 2) + 1
N16(region) == 1 + ROM_N_WAITS[control.n[WaitState(region)]]
S16(region) == 1 + ROM_S_WAITS[WaitState(region)][control.s[WaitState(region)]]
Sram == 1 + ROM_N_WAITS[control.sram]
Ewram == 1 + IF 15 - control.ewram > 1 THEN 15 - control.ewram ELSE 1

Price(region, width, sequential) ==
  LET wide == width = 4
  IN  CASE region = 2 -> IF wide THEN 2 * Ewram ELSE Ewram
        [] region \in {5, 6} -> IF wide THEN 2 ELSE 1
        [] region \in ROM -> (IF sequential THEN S16(region) ELSE N16(region)) + (IF wide THEN S16(region) ELSE 0)
        [] region \in {14, 15} -> IF wide THEN 2 * Sram ELSE Sram
        [] OTHER -> 1

AccessCycles(a, width, sequential) ==
  Price(a[1], width, sequential /\ ~(a[1] \in ROM /\ a[2] % BLOCK < width))

-----------------------------------------------------------------------------
(* The unit.                                                               *)
Plus(a, n) == <<a[1], a[2] + n>>
Stopped == [active |-> FALSE, head |-> <<0, 0>>, count |-> 0, countdown |-> 0, width |-> 2, duty |-> 0]

InFlight(u) == Plus(u.head, u.count * u.width)

\* Mutant: a full buffer does not stop the unit.
StepUnstopped(u, cycles) ==
  IF u.countdown <= 0 THEN u
  ELSE LET left == u.countdown - cycles
           reads == IF left > 0 THEN 0 ELSE ((0 - left) \div u.duty) + 1
       IN  [u EXCEPT !.count = @ + reads, !.countdown = left + reads * u.duty]

\* `cycles` pass with the cartridge's bus free.
StepUnit(u, cycles) ==
  IF u.countdown <= 0 THEN u
  ELSE LET left == u.countdown - cycles
           room == IF control.prefetch THEN (BUFFER_BYTES - u.count * u.width + u.width - 1) \div u.width ELSE 1
           due == IF left > 0 THEN 0 ELSE ((0 - left) \div u.duty) + 1
       IN  IF due >= room /\ due > 0 THEN [u EXCEPT !.count = @ + (IF room > 1 THEN room ELSE 1), !.countdown = 0]
           ELSE [u EXCEPT !.count = @ + due, !.countdown = left + due * u.duty]

\* A unit that stopped with a full buffer reads on once the CPU takes an opcode.
Resume(u) == IF u.countdown = 0 /\ control.prefetch THEN [u EXCEPT !.countdown = u.duty] ELSE u

\* The extra cycle of the access that stops the unit.
StopPenalty(u, inGamePak) ==
  IF u.active /\ inGamePak /\ (u.countdown = 1 \/ (u.width = 4 /\ u.countdown = (u.duty \div 2) + 1)) THEN 1 ELSE 0

Served(u, a) == u.active /\ u.count > 0 /\ a = u.head
Arriving(u, a) == u.active /\ ~Served(u, a) /\ u.countdown > 0 /\ a = InFlight(u)

\* A fetch from the cartridge: what it leaves of the unit, and its cost.
UnitFetch(u, a, width, price, duty, inGamePak) ==
  CASE Served(u, a) ->
         [unit |-> StepUnit(Resume([u EXCEPT !.count = @ - 1, !.head = Plus(a, width)]), 1), cost |-> 1]
    [] Arriving(u, a) ->
         [unit |-> Resume([StepUnit(u, u.countdown) EXCEPT !.head = Plus(a, width), !.count = 0]), cost |-> u.countdown]
    [] OTHER ->
         [unit |-> IF control.prefetch
                   THEN [active |-> TRUE, head |-> Plus(a, width), count |-> 0, countdown |-> duty, width |-> width, duty |-> duty]
                   ELSE [u EXCEPT !.active = FALSE],
          cost |-> price + StopPenalty(u, inGamePak)]

-----------------------------------------------------------------------------
(* Accesses                                                                *)
Tick(cost) == clock + cost <= CYCLES /\ clock' = clock + cost

InGamePak == fetching.next[1] \in ROM

\* An access off the cartridge lets the unit read on; one to it stops it.
DataCycles(a, width, sequential) ==
  LET price == AccessCycles(a, width, sequential)
  IN  IF a[1] \in CARTRIDGE
      THEN [unit |-> [unit EXCEPT !.active = FALSE], cost |-> price + StopPenalty(unit, InGamePak), price |-> price]
      ELSE [unit |-> StepUnit(unit, price), cost |-> price, price |-> price]

FetchCycles(a, width, sequential) ==
  IF a[1] \notin ROM THEN DataCycles(a, width, sequential)
  ELSE LET price == AccessCycles(a, width, sequential)
           fetched == UnitFetch(unit, a, width, price, Price(a[1], width, TRUE), InGamePak)
       IN  [unit |-> fetched.unit, cost |-> fetched.cost, price |-> price]

\* What the accesses since the unit began tell of it.
Marked(f, hit, width) ==
  [cost |-> f.cost, price |-> f.price,
   full |-> (hit /\ mark.full) \/ f.unit.countdown = 0,
   mixed |-> (hit /\ mark.mixed) \/ width # f.unit.width,
   changed |-> hit /\ mark.changed]

\* The CPU fetches the next opcode, or the first at a branch's target, in
\* either instruction set.
FetchOpcode(a, width) ==
  LET f == FetchCycles(a, width, a = fetching.next /\ width = fetching.width)
      hit == a[1] \in ROM /\ (Served(unit, a) \/ Arriving(unit, a))
      began == a[1] \in ROM /\ ~hit
  IN  /\ Tick(f.cost)
      /\ unit' = f.unit
      /\ fetching' = [next |-> Plus(a, width), width |-> width]
      /\ since' = IF began THEN 0 ELSE since + f.cost
      /\ taken' = IF began THEN 0 ELSE IF hit THEN taken + (IF Served(unit, a) THEN 1 ELSE unit.count + 1) ELSE taken
      /\ mark' = IF a[1] \in ROM THEN Marked(f, hit, width)
                 ELSE [mark EXCEPT !.cost = f.cost, !.price = f.price, !.full = @ \/ f.unit.countdown = 0]
      /\ UNCHANGED control

LoadData(a, width, sequential) ==
  LET d == DataCycles(a, width, sequential)
  IN  /\ Tick(d.cost)
      /\ unit' = d.unit
      /\ since' = since + d.cost
      /\ mark' = [mark EXCEPT !.cost = d.cost, !.price = d.price, !.full = @ \/ d.unit.countdown = 0]
      /\ UNCHANGED <<control, fetching, taken>>

IdleFor(cycles) ==
  /\ Tick(cycles)
  /\ unit' = StepUnit(unit, cycles)
  /\ since' = since + cycles
  /\ mark' = [mark EXCEPT !.cost = cycles, !.price = cycles, !.full = @ \/ unit'.countdown = 0]
  /\ UNCHANGED <<control, fetching, taken>>

\* A store to WAITCNT or memory control.
SetControl(c) ==
  /\ c # control
  /\ control' = c
  /\ mark' = [mark EXCEPT !.changed = TRUE]
  /\ UNCHANGED <<unit, fetching, since, taken, clock>>

PrefetchInit ==
  /\ control \in CONTROLS
  /\ unit = Stopped
  /\ \E a \in TARGETS, width \in {2, 4} : fetching = [next |-> a, width |-> width]
  /\ since = 0 /\ taken = 0 /\ clock = 0
  /\ mark = [cost |-> 0, price |-> 0, full |-> FALSE, mixed |-> FALSE, changed |-> FALSE]

PrefetchNext ==
  \/ FetchOpcode(fetching.next, fetching.width)
  \/ \E a \in TARGETS, width \in {2, 4} : FetchOpcode(a, width)
  \/ \E a \in DATA, width \in {2, 4}, sequential \in BOOLEAN : LoadData(a, width, sequential)
  \/ \E cycles \in {1, 4} : IdleFor(cycles)
  \/ \E c \in CONTROLS : SetControl(c)

PrefetchSpec == PrefetchInit /\ [][PrefetchNext]_prefetchVars

-----------------------------------------------------------------------------
(* Properties *)

\* The unit reads no faster than the cartridge: whatever the order of fetches,
\* skips, loads, idle cycles, changes of WAITCNT and of the instruction set, each
\* opcode it has handed over or holds took it one S access of cycles in which
\* nothing else used the cartridge, exactly so until it first stops, with its buffer
\* full or reading ahead disabled; it never holds more than its buffer; and, its
\* stop apart, reading ahead never makes a fetch dearer than the cartridge would
\* (GamePakPrefetch.fetch, step, #resume).  The price is excepted where the CPU
\* switches instruction sets inside the buffer or WAITCNT changes, and where a branch
\* to the opcode in flight waits for an S access that WAITCNT makes dearer than the
\* N access of a new fetch.
ReadsAhead ==
  unit.active =>
    LET read == unit.duty * (taken + unit.count)
    IN  /\ unit.count * unit.width <= BUFFER_BYTES
        /\ unit.countdown \in 0 .. unit.duty
        /\ IF unit.countdown > 0 THEN since >= read + unit.duty - unit.countdown ELSE since >= read
        /\ unit.countdown > 0 /\ ~mark.full => since = read + unit.duty - unit.countdown
        /\ ~mark.mixed /\ ~mark.changed /\ S16(unit.head[1]) <= N16(unit.head[1]) => mark.cost <= mark.price + 1
=============================================================================
