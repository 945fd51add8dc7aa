----------------------------- MODULE DeviceProofs -----------------------------
(***************************************************************************)
(* Theorems about three devices.  Of the serial port: for any lengths of a *)
(* transfer, any stores and any save state loaded in the middle of one.  Of *)
(* the prefetch unit: for any buffer, branches, loads, settings of the      *)
(* waitstates and order of them, in either instruction set.  Of the         *)
(* cartridge's chips: they implement Battery, whatever their size and the   *)
(* requests, save states and .sav files.                                    *)
(***************************************************************************)
EXTENDS Serial, Prefetch, Cartridge, LeastNumber, SequenceTheorems, TLAPS

-----------------------------------------------------------------------------
(* The serial port                                                         *)

Modes == {"Normal8", "Normal32", "Multi", "Uart", "JoyBus", "GeneralPurpose"}

\* What a save state keeps of a port: the transfer under way is the only one that
\* has not ended, its start bit is set, and no two of those begun overlap.
Transfers(regs, ends, cycle, asked, all) ==
  /\ DOMAIN regs = Registers
  /\ cycle \in Nat /\ all \subseteq Nat \X Nat \X Modes
  /\ ends # {} => START \in regs["SIOCNT"] /\ \E t \in all : ends = {t[2]} /\ cycle < t[2]
  /\ \A s, t \in all : s # t => s[2] <= t[1] \/ t[2] <= s[1]
  /\ \A t \in all : t[2] > cycle => t[2] \in ends
  /\ asked \subseteq {t[2] : t \in all}

SerialInv ==
  /\ Transfers(io, due, time, irqs, began)
  /\ due # {} => attached
  /\ saved # <<>> => Transfers(saved[1].io, saved[1].due, saved[1].time, saved[1].irqs, saved[1].began)

LEMMA LengthTakesTime ==
  ASSUME NEW regs
  PROVE  Length(regs) \in Nat \ {0} /\ Mode(regs) \in Modes
<1>1. Mode(regs) \in Modes
  BY DEF Mode, SiocntMode, Modes
<1>2. \A m \in {SHORT, LONG}, n \in {SLOW, FAST} : m * n \in Nat \ {0}
  <2> SUFFICES ASSUME NEW m \in {SHORT, LONG}, NEW n \in {SLOW, FAST} PROVE m * n \in Nat \ {0}
    OBVIOUS
  <2>1. m \in Nat /\ n \in Nat /\ m > 0 /\ n > 0
    BY SerialAssumption
  <2>2. m * n > 0
    BY <2>1
  <2> QED BY <2>1, <2>2
<1>3. \E m \in {SHORT, LONG}, n \in {SLOW, FAST} : Length(regs) = m * n
  BY DEF Length
<1> QED BY <1>1, <1>2, <1>3

LEMMA StartBitReads ==
  ASSUME START \in io["SIOCNT"]
  PROVE  START \in Read16("SIOCNT")
BY DEF Read16, ReadSiocnt, START, SI

\* A store to a register, which may begin a transfer where none is under way.
LEMMA WriteKeeps ==
  ASSUME SerialInv, NEW w \in WRITES, Write16(w[1], w[2], w[3])
  PROVE  SerialInv'
<1> DEFINE register == w[1]
           regs == [io EXCEPT ![register] = Stored(register, w[2], w[3])]
           starts == register = "SIOCNT" /\ StartsTransfer(regs)
           new == <<time, time + Length(regs), Mode(regs)>>
<1>1. DOMAIN regs = Registers /\ io' = regs /\ time' = time /\ irqs' = irqs /\ saved' = saved
  BY DEF SerialInv, Transfers, Write16
<1>2. "SIOCNT" \in Registers
  BY DEF Registers
<1>3. CASE starts
  <2>1. due = {} /\ START \in regs["SIOCNT"]
    BY <1>3 DEF StartsTransfer
  <2>2. due' = {time + Length(regs)} /\ began' = began \cup {new} /\ attached'
    BY <1>3 DEF Write16
  <2>3. Length(regs) \in Nat /\ Length(regs) > 0 /\ Mode(regs) \in Modes /\ time \in Nat
    BY LengthTakesTime DEF SerialInv, Transfers
  <2>4. new \in Nat \X Nat \X Modes /\ new[1] = time /\ new[2] = time + Length(regs) /\ time < new[2]
    BY <2>3
  <2>5. began \subseteq Nat \X Nat \X Modes /\ \A t \in began : t[1] \in Nat /\ t[2] \in Nat
    BY DEF SerialInv, Transfers
  <2>6. \A t \in began : t[2] <= time
    BY <2>1, <2>3, <2>5 DEF SerialInv, Transfers
  <2> HIDE DEF new, starts, regs
  <2>7. Transfers(io', due', time', irqs', began')
    <3>1. \A s, t \in began' : s # t => s[2] <= t[1] \/ t[2] <= s[1]
      BY <2>2, <2>4, <2>6 DEF SerialInv, Transfers
    <3>2. \A t \in began' : t[2] > time' => t[2] \in due'
      BY <1>1, <2>2, <2>3, <2>4, <2>5, <2>6
    <3>3. \E t \in began' : due' = {t[2]} /\ time' < t[2]
      BY <1>1, <2>2, <2>4
    <3>4. irqs' \subseteq {t[2] : t \in began'}
      BY <1>1, <2>2 DEF SerialInv, Transfers
    <3>5. began' \subseteq Nat \X Nat \X Modes
      BY <2>2, <2>4, <2>5
    <3> QED BY <1>1, <2>1, <2>3, <3>1, <3>2, <3>3, <3>4, <3>5 DEF Transfers
  <2> QED BY <1>1, <2>2, <2>7 DEF SerialInv
<1>4. CASE ~starts
  <2>1. due' = due /\ began' = began /\ (attached => attached')
    BY <1>4 DEF Write16
  <2>2. due # {} => START \in regs["SIOCNT"]
    <3>1. due # {} => START \in io["SIOCNT"]
      BY DEF SerialInv, Transfers
    <3>2. register = "SIOCNT" /\ due # {} => START \in Stored(register, w[2], w[3])
      BY DEF Stored
    <3> QED BY <1>2, <3>1, <3>2 DEF SerialInv, Transfers
  <2> HIDE DEF starts, regs
  <2> QED BY <1>1, <2>1, <2>2 DEF SerialInv, Transfers
<1> QED BY <1>3, <1>4

LEMMA AdvanceKeeps ==
  ASSUME SerialInv, AdvanceBy(1)
  PROVE  SerialInv'
<1>1. time \in Nat /\ time' = time + 1
  BY DEF SerialInv, Transfers, AdvanceBy
<1>2. UNCHANGED <<io, due, attached, irqs, began, saved>>
  BY DEF AdvanceBy
<1>3. \A t \in began : t[2] \in Nat
  BY DEF SerialInv, Transfers
<1>4. \A t \in began : due = {t[2]} => time' < t[2]
  BY <1>1 DEF AdvanceBy
<1>5. \A t \in began : t[2] > time' => t[2] > time
  BY <1>1, <1>3
<1> QED BY <1>1, <1>2, <1>4, <1>5 DEF SerialInv, Transfers

LEMMA FinishKeeps ==
  ASSUME SerialInv, FinishTransfer
  PROVE  SerialInv'
<1>1. PICK t \in began : due = {t[2]} /\ time < t[2]
  BY DEF SerialInv, Transfers, FinishTransfer
<1>2. (CHOOSE u \in due : TRUE) = t[2]
  BY <1>1
<1>3. time' = t[2] /\ due' = {} /\ began' = began /\ saved' = saved /\ irqs' \subseteq irqs \cup {t[2]}
  BY <1>2 DEF FinishTransfer
<1>4. DOMAIN io' = Registers
  BY DEF FinishTransfer
<1>5. \A u \in began : u[2] \in Nat /\ (u[2] > time => u[2] = t[2])
  BY <1>1 DEF SerialInv, Transfers
<1>6. time \in Nat /\ t[2] \in Nat /\ \A u \in began : ~(u[2] > t[2])
  BY <1>1, <1>5 DEF SerialInv, Transfers
<1> QED BY <1>3, <1>4, <1>6 DEF SerialInv, Transfers

\* Through any stores, saves and loads, what is true of the port is true of
\* every state saved of it.
LEMMA SerialInvariant == SerialSpec => []SerialInv
<1>1. SerialInit => SerialInv
  BY DEF SerialInit, SerialInv, Transfers
<1>2. SerialInv /\ [SerialNext]_serialVars => SerialInv'
  <2> SUFFICES ASSUME SerialInv, [SerialNext]_serialVars PROVE SerialInv'
    OBVIOUS
  <2>1. ASSUME NEW w \in WRITES, Write16(w[1], w[2], w[3]) PROVE SerialInv'
    BY <2>1, WriteKeeps
  <2>2. CASE AdvanceBy(1)
    BY <2>2, AdvanceKeeps
  <2>3. CASE FinishTransfer
    BY <2>3, FinishKeeps
  <2>4. CASE SaveState
    <3>1. saved'[1] = [io |-> io, due |-> due, time |-> time, irqs |-> irqs, began |-> began]
      BY <2>4 DEF SaveState
    <3>2. UNCHANGED <<io, due, attached, time, irqs, began>>
      BY <2>4 DEF SaveState
    <3> QED BY <3>1, <3>2 DEF SerialInv, Transfers
  <2>5. CASE LoadState
    BY <2>5 DEF LoadState, ReattachEvents, SerialInv, Transfers
  <2>6. CASE UNCHANGED serialVars
    BY <2>6 DEF serialVars, SerialInv, Transfers
  <2> QED BY <2>1, <2>2, <2>3, <2>4, <2>5, <2>6 DEF SerialNext
<1> QED BY <1>1, <1>2, PTL DEF SerialSpec

\* A serial transfer runs the cycles of its bits, whatever is written, saved and
\* loaded in the middle of it (serial.ts #writeSiocnt, #finishTransfer, reattachEvents).
THEOREM SerialTransfersRunOut == SerialSpec => []TransfersRunOut
<1>1. SerialInv => TransfersRunOut
  BY StartBitReads DEF SerialInv, Transfers, TransfersRunOut
<1> QED BY <1>1, SerialInvariant, PTL

-----------------------------------------------------------------------------
(* The prefetch unit: what it has read, and had the cycles for             *)

Places == (0 .. 15) \X Nat
Unit == [active : BOOLEAN, head : Places, count : Nat, countdown : Nat, width : {2, 4}, duty : Nat]
Mark == [cost : Nat, price : Nat, full : BOOLEAN, mixed : BOOLEAN, changed : BOOLEAN]

\* The opcodes of a width the buffer holds.
Capacity(width) == BUFFER_BYTES \div width

\* There is room for the opcode that is being read.
Fits(u) ==
  /\ u.countdown <= u.duty
  /\ u.count + (IF u.countdown > 0 THEN 1 ELSE 0) <= Capacity(u.width)

\* What the unit has read, it had the cycles for.
Paced(u, cycles, handed, full) ==
  LET read == u.duty * (handed + u.count)
  IN  /\ cycles >= read + IF u.countdown > 0 THEN u.duty - u.countdown ELSE 0
      /\ u.countdown > 0 /\ ~full => cycles = read + u.duty - u.countdown

\* What the unit takes to read an opcode.
Duty(region, width) == Price(region, width, TRUE)

PrefetchInv ==
  /\ control \in Settings
  /\ unit \in Unit /\ Fits(unit)
  /\ fetching \in [next : Places, width : {2, 4}]
  /\ since \in Nat /\ taken \in Nat /\ mark \in Mark
  /\ unit.active =>
       /\ unit.duty > 0 /\ unit.head[1] \in ROM
       /\ Paced(unit, since, taken, mark.full)
       /\ unit.countdown = 0 => mark.full
       /\ ~mark.changed => unit.duty = Duty(unit.head[1], unit.width)
       /\ ~mark.mixed /\ ~mark.changed /\ S16(unit.head[1]) <= N16(unit.head[1]) => mark.cost <= mark.price + 1

-----------------------------------------------------------------------------
(* Arithmetic the provers do not know by themselves.                       *)

LEMMA QuotientBounds ==
  ASSUME NEW n \in Nat, NEW d \in Nat, d > 0
  PROVE  n \div d \in Nat /\ d * (n \div d) <= n /\ n < d * (n \div d) + d
OBVIOUS

LEMMA TimesMonotone ==
  ASSUME NEW d \in Nat, NEW m \in Nat, NEW n \in Nat, m <= n
  PROVE  d * m <= d * n
<1>1. PICK k \in Nat : n = m + k
  <2>1. n = m + (n - m) /\ n - m \in Nat
    OBVIOUS
  <2> QED BY <2>1
<1>2. d * (m + k) = d * m + d * k /\ d * k \in Nat /\ d * m \in Nat
  OBVIOUS
<1> QED BY <1>1, <1>2

LEMMA CapacityHolds ==
  ASSUME NEW w \in {2, 4}, NEW c \in Nat
  PROVE  /\ Capacity(w) \in Nat \ {0}
         /\ (BUFFER_BYTES - c * w + w - 1) \div w = Capacity(w) - c
         /\ c <= Capacity(w) => c * w <= BUFFER_BYTES
<1>1. BUFFER_BYTES \in Nat /\ BUFFER_BYTES > 0 /\ BUFFER_BYTES % 4 = 0
  BY PrefetchAssumption
<1>2. CASE w = 2
  BY <1>1, <1>2 DEF Capacity
<1>3. CASE w = 4
  BY <1>1, <1>3 DEF Capacity
<1> QED BY <1>2, <1>3

-----------------------------------------------------------------------------
(* Prices                                                                  *)

LEMMA WaitsOfRom ==
  ASSUME control \in Settings, NEW r \in ROM
  PROVE  N16(r) \in Nat \ {0} /\ S16(r) \in Nat \ {0}
<1>1. WaitState(r) \in 1 .. 3
  BY DEF WaitState, ROM
<1>2. control.n[WaitState(r)] \in 1 .. 4 /\ control.s[WaitState(r)] \in 1 .. 2
  BY <1>1 DEF Settings
<1>3. \A i \in 1 .. 4 : ROM_N_WAITS[i] \in Nat
  BY DEF ROM_N_WAITS
<1>4. \A i \in 1 .. 3, k \in 1 .. 2 : ROM_S_WAITS[i][k] \in Nat
  BY DEF ROM_S_WAITS
<1> QED BY <1>1, <1>2, <1>3, <1>4 DEF N16, S16

LEMMA PricesPositive ==
  ASSUME control \in Settings, NEW r \in 0 .. 15, NEW w \in {2, 4}, NEW sequential \in BOOLEAN
  PROVE  /\ Price(r, w, sequential) \in Nat \ {0}
         /\ r \in ROM /\ S16(r) <= N16(r) => Price(r, w, TRUE) <= Price(r, w, sequential)
<1>1. r \in ROM => N16(r) \in Nat \ {0} /\ S16(r) \in Nat \ {0}
  BY WaitsOfRom
<1>2. Sram \in Nat \ {0}
  <2>1. \A i \in 1 .. 4 : ROM_N_WAITS[i] \in Nat
    BY DEF ROM_N_WAITS
  <2> QED BY <2>1 DEF Sram, Settings
<1>3. Ewram \in Nat \ {0}
  BY DEF Ewram, Settings
<1>4. CASE r \in ROM
  <2>1. r \notin {2, 5, 6, 14, 15}
    BY <1>4 DEF ROM
  <2> QED BY <1>1, <1>4, <2>1 DEF Price
<1>5. CASE r \notin ROM
  BY <1>2, <1>3, <1>5 DEF Price
<1> QED BY <1>4, <1>5

LEMMA AccessPrice ==
  ASSUME control \in Settings, NEW p \in Places, NEW w \in {2, 4}, NEW sequential \in BOOLEAN
  PROVE  /\ AccessCycles(p, w, sequential) \in Nat \ {0}
         /\ p[1] \in ROM /\ S16(p[1]) <= N16(p[1]) => Price(p[1], w, TRUE) <= AccessCycles(p, w, sequential)
<1> DEFINE burst == sequential /\ ~(p[1] \in ROM /\ p[2] % BLOCK < w)
<1>1. p[1] \in 0 .. 15 /\ burst \in BOOLEAN
  BY DEF Places
<1>2. AccessCycles(p, w, sequential) = Price(p[1], w, burst)
  BY DEF AccessCycles
<1> HIDE DEF burst
<1> QED BY <1>1, <1>2, PricesPositive

-----------------------------------------------------------------------------
(* The unit                                                                *)

\* What passing cycles make of a unit: it reads k opcodes more.
LEMMA StepReads ==
  ASSUME control \in Settings, NEW u \in Unit, Fits(u), u.countdown > 0, NEW n \in Nat
  PROVE  \E k \in Nat, left \in Nat :
           /\ StepUnit(u, n) = [u EXCEPT !.count = u.count + k, !.countdown = left]
           /\ left <= u.duty
           /\ u.count + k + (IF left > 0 THEN 1 ELSE 0) <= Capacity(u.width)
           /\ left > 0 => left = u.countdown - n + u.duty * k
           /\ left = 0 => u.duty * k <= n + u.duty - u.countdown
<1> DEFINE left == u.countdown - n
           duty == u.duty
           cap == Capacity(u.width)
           room == IF control.prefetch THEN (BUFFER_BYTES - u.count * u.width + u.width - 1) \div u.width ELSE 1
           more == IF left > 0 THEN 0 ELSE ((0 - left) \div duty) + 1
           Next(k, rest) == [u EXCEPT !.count = u.count + k, !.countdown = rest]
           Right(k, rest) ==
             /\ StepUnit(u, n) = Next(k, rest)
             /\ rest <= duty
             /\ u.count + k + (IF rest > 0 THEN 1 ELSE 0) <= cap
             /\ rest > 0 => rest = left + duty * k
             /\ rest = 0 => duty * k <= duty - left
<1>1. u.count \in Nat /\ u.countdown \in Nat /\ duty \in Nat /\ u.width \in {2, 4} /\ duty > 0
  BY DEF Unit, Fits
<1>2. cap \in Nat /\ u.count + 1 <= cap
  BY <1>1, CapacityHolds DEF Fits
<1>3. room \in Nat /\ room >= 1 /\ u.count + room <= cap /\ (room > 1 => room = cap - u.count)
  <2>1. (BUFFER_BYTES - u.count * u.width + u.width - 1) \div u.width = cap - u.count
    BY <1>1, CapacityHolds
  <2> QED BY <1>1, <1>2, <2>1 DEF Settings
<1>4. StepUnit(u, n) =
        IF more >= room /\ more > 0
          THEN Next(IF room > 1 THEN room ELSE 1, 0) ELSE Next(more, left + more * duty)
  BY <1>1 DEF StepUnit
<1>5. left \in Int /\ left <= duty /\ left = u.countdown - n
  BY <1>1 DEF Fits
<1>6. (\E k \in Nat, rest \in Nat : Right(k, rest)) => 
        \E k \in Nat, rest \in Nat :
           /\ StepUnit(u, n) = [u EXCEPT !.count = u.count + k, !.countdown = rest]
           /\ rest <= u.duty
           /\ u.count + k + (IF rest > 0 THEN 1 ELSE 0) <= Capacity(u.width)
           /\ rest > 0 => rest = u.countdown - n + u.duty * k
           /\ rest = 0 => u.duty * k <= n + u.duty - u.countdown
  <2> SUFFICES ASSUME NEW k \in Nat, NEW rest \in Nat, Right(k, rest)
               PROVE  /\ StepUnit(u, n) = [u EXCEPT !.count = u.count + k, !.countdown = rest]
                      /\ rest <= u.duty
                      /\ u.count + k + (IF rest > 0 THEN 1 ELSE 0) <= Capacity(u.width)
                      /\ rest > 0 => rest = u.countdown - n + u.duty * k
                      /\ rest = 0 => u.duty * k <= n + u.duty - u.countdown
    OBVIOUS
  <2>1. duty * k \in Nat
    BY <1>1
  <2> QED BY <1>1, <2>1
<1>7. CASE left > 0
  <2>1. more = 0
    BY <1>7
  <2> HIDE DEF room, cap, left, more, Next
  <2>2. more * duty = 0 /\ duty * 0 = 0 /\ left + 0 = left
    BY <1>1, <1>5, <2>1
  <2>3. StepUnit(u, n) = Next(0, left)
    BY <1>4, <2>1, <2>2
  <2>4. Right(0, left)
    BY <1>1, <1>2, <1>5, <1>7, <2>2, <2>3
  <2>5. left \in Nat
    BY <1>5, <1>7
  <2> HIDE DEF Right
  <2> QED BY <1>6, <2>4, <2>5
<1>8. CASE left <= 0
  <2> DEFINE q == (0 - left) \div duty
  <2>1. 0 - left \in Nat
    BY <1>5, <1>8
  <2>2. q \in Nat /\ duty * q <= 0 - left /\ 0 - left < duty * q + duty
    BY <1>1, <2>1, QuotientBounds
  <2>3. more = q + 1
    BY <1>5, <1>8
  <2> HIDE DEF room, cap, left, more, Next, q, duty
  <2>4. duty * more = duty * q + duty /\ more * duty = duty * more /\ duty * q \in Nat /\ more \in Nat /\ more > 0
    BY <1>1, <2>2, <2>3
  <2>5. duty * more \in Nat /\ duty * more <= duty - left /\ 0 < left + duty * more /\ left + duty * more <= duty
    BY <1>1, <1>5, <2>2, <2>4
  <2>6. CASE more >= room
    <3>0. (IF room > 1 THEN room ELSE 1) = room
      BY <1>3
    <3>1. StepUnit(u, n) = Next(room, 0)
      BY <1>4, <2>4, <2>6, <3>0
    <3>2. duty * room <= duty * more
      BY <1>1, <1>3, <2>4, <2>6, TimesMonotone
    <3>3. duty * room <= duty - left
      <4>1. duty * room \in Nat
        BY <1>1, <1>3
      <4> QED BY <1>1, <1>5, <3>2, <2>5, <4>1
    <3>4. u.count + room + 0 <= cap
      BY <1>1, <1>2, <1>3
    <3>5. Right(room, 0)
      BY <1>1, <3>1, <3>3, <3>4
    <3> HIDE DEF Right
    <3> QED BY <1>3, <1>6, <3>5
  <2>7. CASE more < room
    <3>1. StepUnit(u, n) = Next(more, left + duty * more)
      BY <1>3, <1>4, <2>4, <2>7
    <3>2. u.count + more + 1 <= cap
      BY <1>1, <1>2, <1>3, <2>4, <2>7
    <3>3. left + duty * more \in Nat
      BY <1>1, <1>5, <2>5
    <3>4. Right(more, left + duty * more)
      BY <1>1, <2>5, <3>1, <3>2, <3>3
    <3> HIDE DEF Right
    <3> QED BY <1>6, <2>4, <3>3, <3>4
  <2>8. more >= room \/ more < room
    BY <1>3, <2>4
  <2> QED BY <2>6, <2>7, <2>8
<1>9. left > 0 \/ left <= 0
  BY <1>5
<1> QED BY <1>7, <1>8, <1>9

\* A unit one steps or resumes is the same unit.
SameUnit(u, v) == v.active = u.active /\ v.head = u.head /\ v.width = u.width /\ v.duty = u.duty

LEMMA StepKeepsPace ==
  ASSUME control \in Settings, NEW u \in Unit, Fits(u), NEW n \in Nat,
         NEW v, v = StepUnit(u, n)
  PROVE  /\ v \in Unit /\ Fits(v) /\ SameUnit(u, v)
         /\ \A cycles \in Nat, handed \in Nat, full \in BOOLEAN :
              Paced(u, cycles, handed, full) => Paced(v, cycles + n, handed, full \/ v.countdown = 0)
<1>1. u.count \in Nat /\ u.countdown \in Nat /\ u.duty \in Nat
  BY DEF Unit
<1>2. CASE u.countdown = 0
  <2>1. v = u
    BY <1>2 DEF StepUnit
  <2>2. ASSUME NEW cycles \in Nat, NEW handed \in Nat, NEW full \in BOOLEAN, Paced(u, cycles, handed, full)
        PROVE  Paced(v, cycles + n, handed, full \/ v.countdown = 0)
    <3> DEFINE read == u.duty * (handed + u.count)
    <3>1. read \in Nat
      BY <1>1
    <3>2. cycles >= read + 0
      BY <1>2, <2>2 DEF Paced
    <3> HIDE DEF read
    <3>3. cycles + n >= read + 0
      BY <3>1, <3>2
    <3> QED BY <1>2, <2>1, <3>3 DEF Paced, read
  <2> QED BY <2>1, <2>2 DEF SameUnit
<1>3. CASE u.countdown > 0
  <2>1. PICK k \in Nat, left \in Nat :
           /\ v = [u EXCEPT !.count = u.count + k, !.countdown = left]
           /\ left <= u.duty
           /\ u.count + k + (IF left > 0 THEN 1 ELSE 0) <= Capacity(u.width)
           /\ left > 0 => left = u.countdown - n + u.duty * k
           /\ left = 0 => u.duty * k <= n + u.duty - u.countdown
    BY <1>3, StepReads
  <2>2. v.count = u.count + k /\ v.countdown = left /\ v \in Unit /\ SameUnit(u, v)
    <3>1. u.count + k \in Nat
      BY <1>1
    <3> QED BY <2>1, <3>1 DEF Unit, SameUnit
  <2>3. Fits(v)
    BY <2>1, <2>2, <1>1 DEF Fits, SameUnit
  <2>4. ASSUME NEW cycles \in Nat, NEW handed \in Nat, NEW full \in BOOLEAN, Paced(u, cycles, handed, full)
        PROVE  Paced(v, cycles + n, handed, full \/ v.countdown = 0)
    <3> DEFINE read == u.duty * (handed + u.count)
               more == u.duty * k
    <3>1. read \in Nat /\ more \in Nat
      BY <1>1
    <3>2. v.duty * (handed + v.count) = read + more
      <4>1. v.duty * (handed + v.count) = u.duty * ((handed + u.count) + k)
        BY <1>1, <2>2 DEF SameUnit
      <4>2. handed + u.count \in Nat
        BY <1>1
      <4>3. \A m \in Nat : u.duty * (m + k) = u.duty * m + u.duty * k
        BY <1>1
      <4> QED BY <4>1, <4>2, <4>3
    <3>3. cycles >= read + u.duty - u.countdown /\ (~full => cycles = read + u.duty - u.countdown)
      BY <1>1, <1>3, <2>4, <3>1 DEF Paced
    <3>4. left > 0 => left = u.countdown - n + more
      BY <2>1
    <3>5. left = 0 => more <= n + u.duty - u.countdown
      BY <2>1
    <3> HIDE DEF read, more
    <3>6. left > 0 => /\ cycles + n >= read + more + (u.duty - left)
                      /\ ~full => cycles + n = read + more + u.duty - left
      BY <1>1, <3>1, <3>3, <3>4
    <3>7. left = 0 => cycles + n >= read + more + 0
      BY <1>1, <3>1, <3>3, <3>5
    <3> QED BY <2>2, <3>2, <3>6, <3>7 DEF Paced, SameUnit
  <2> QED BY <2>2, <2>3, <2>4
<1> QED BY <1>1, <1>2, <1>3

\* A unit whose buffer has room reads on; a full one that went on would have its countdown.
LEMMA ResumeKeepsPace ==
  ASSUME control \in Settings, NEW u \in Unit, Fits(u), u.duty > 0, u.count < Capacity(u.width),
         NEW v, v = Resume(u)
  PROVE  /\ v \in Unit /\ Fits(v) /\ SameUnit(u, v) /\ v.count = u.count
         /\ v.countdown = 0 => u.countdown = 0
         /\ \A cycles \in Nat, handed \in Nat, full \in BOOLEAN :
              Paced(u, cycles, handed, full) /\ (u.countdown = 0 => full \/ cycles = u.duty * (handed + u.count))
                => Paced(v, cycles, handed, full)
<1>1. u.count \in Nat /\ u.countdown \in Nat /\ u.duty \in Nat /\ u.width \in {2, 4}
  BY DEF Unit
<1>2. CASE v = u
  BY <1>2 DEF SameUnit
<1>3. CASE v # u
  <2>1. u.countdown = 0 /\ v = [u EXCEPT !.countdown = u.duty]
    BY <1>3 DEF Resume
  <2>2. v \in Unit /\ SameUnit(u, v) /\ v.count = u.count /\ v.countdown = u.duty
    BY <1>1, <2>1 DEF Unit, SameUnit
  <2>3. Capacity(u.width) \in Nat
    BY <1>1, CapacityHolds
  <2>4. Fits(v)
    BY <1>1, <2>2, <2>3 DEF Fits, SameUnit
  <2>5. ASSUME NEW cycles \in Nat, NEW handed \in Nat, NEW full \in BOOLEAN, Paced(u, cycles, handed, full),
               full \/ cycles = u.duty * (handed + u.count)
        PROVE  Paced(v, cycles, handed, full)
    <3> DEFINE read == u.duty * (handed + u.count)
    <3>1. read \in Nat
      BY <1>1
    <3>2. cycles >= read + 0 /\ (full \/ cycles = read)
      BY <2>1, <2>5 DEF Paced
    <3>3. v.duty * (handed + v.count) = read
      BY <2>2 DEF SameUnit
    <3> HIDE DEF read
    <3>4. cycles >= read + (u.duty - u.duty) /\ (full \/ cycles = read + u.duty - u.duty)
      BY <1>1, <3>1, <3>2
    <3> QED BY <2>2, <3>3, <3>4 DEF Paced, SameUnit
  <2> QED BY <2>1, <2>2, <2>4, <2>5
<1> QED BY <1>2, <1>3

LEMMA ServedKeepsPace ==
  ASSUME PrefetchInv, NEW p \in Places, NEW w \in {2, 4}, Served(unit, p), NEW v,
         v = StepUnit(Resume([unit EXCEPT !.count = @ - 1, !.head = Plus(p, w)]), 1)
  PROVE  /\ v \in Unit /\ Fits(v) /\ v.active /\ v.duty = unit.duty /\ v.width = unit.width /\ v.head = Plus(p, w)
         /\ Paced(v, since + 1, taken + 1, mark.full \/ v.countdown = 0)
<1> DEFINE u == [unit EXCEPT !.count = @ - 1, !.head = Plus(p, w)]
           x == Resume(u)
<1>1. /\ control \in Settings /\ unit \in Unit /\ Fits(unit) /\ unit.active /\ unit.duty > 0 /\ unit.count > 0
      /\ Paced(unit, since, taken, mark.full) /\ (unit.countdown = 0 => mark.full)
      /\ since \in Nat /\ taken \in Nat /\ mark.full \in BOOLEAN
  BY DEF PrefetchInv, Served, Mark
<1>2. unit.count \in Nat /\ unit.countdown \in Nat /\ unit.duty \in Nat /\ unit.width \in {2, 4}
  BY <1>1 DEF Unit
<1>3. Plus(p, w) \in Places
  BY DEF Plus, Places
<1>4. /\ u \in Unit /\ u.count = unit.count - 1 /\ u.countdown = unit.countdown /\ u.duty = unit.duty
      /\ u.width = unit.width /\ u.active /\ u.head = Plus(p, w)
  <2>1. unit.count - 1 \in Nat
    BY <1>1, <1>2
  <2> QED BY <1>1, <1>3, <2>1 DEF Unit
<1> HIDE DEF u, x
<1>5. Capacity(unit.width) \in Nat
  BY <1>2, CapacityHolds
<1>6. Fits(u) /\ u.count < Capacity(u.width)
  BY <1>1, <1>2, <1>4, <1>5 DEF Fits
<1>7. Paced(u, since, taken + 1, mark.full)
  <2>1. u.duty * ((taken + 1) + u.count) = unit.duty * (taken + unit.count)
    <3>1. (taken + 1) + u.count = taken + unit.count
      BY <1>1, <1>2, <1>4
    <3> QED BY <1>4, <3>1
  <2> QED BY <1>1, <1>4, <2>1 DEF Paced
<1>8. /\ x \in Unit /\ Fits(x) /\ SameUnit(u, x) /\ Paced(x, since, taken + 1, mark.full)
  <2>1. u.duty > 0 /\ taken + 1 \in Nat /\ (u.countdown = 0 => mark.full)
    BY <1>1, <1>4
  <2>2. x = Resume(u)
    BY DEF x
  <2> QED BY <1>1, <1>4, <1>6, <1>7, <2>1, <2>2, ResumeKeepsPace
<1>9. v = StepUnit(x, 1)
  BY DEF x, u
<1>10. v \in Unit /\ Fits(v) /\ SameUnit(x, v) /\ Paced(v, since + 1, taken + 1, mark.full \/ v.countdown = 0)
  <2>1. taken + 1 \in Nat /\ 1 \in Nat
    BY <1>1
  <2> QED BY <1>1, <1>8, <1>9, <2>1, StepKeepsPace
<1> QED BY <1>4, <1>8, <1>10 DEF SameUnit

LEMMA ArrivingKeepsPace ==
  ASSUME PrefetchInv, NEW p \in Places, NEW w \in {2, 4}, Arriving(unit, p), NEW v,
         v = Resume([StepUnit(unit, unit.countdown) EXCEPT !.head = Plus(p, w), !.count = 0])
  PROVE  /\ v \in Unit /\ Fits(v) /\ v.active /\ v.duty = unit.duty /\ v.width = unit.width /\ v.head = Plus(p, w)
         /\ Paced(v, since + unit.countdown, taken + (unit.count + 1), mark.full \/ v.countdown = 0)
<1> DEFINE y == StepUnit(unit, unit.countdown)
           u == [y EXCEPT !.head = Plus(p, w), !.count = 0]
           read == unit.duty * (taken + unit.count)
           cycles == since + unit.countdown
           handed == taken + (unit.count + 1)
<1>1. /\ control \in Settings /\ unit \in Unit /\ Fits(unit) /\ unit.active /\ unit.duty > 0 /\ unit.countdown > 0
      /\ Paced(unit, since, taken, mark.full)
      /\ since \in Nat /\ taken \in Nat /\ mark.full \in BOOLEAN
  BY DEF PrefetchInv, Arriving, Mark
<1>2. unit.count \in Nat /\ unit.countdown \in Nat /\ unit.duty \in Nat /\ unit.width \in {2, 4}
  BY <1>1 DEF Unit
<1>3. Plus(p, w) \in Places
  BY DEF Plus, Places
<1>4. y.countdown = 0 \/ y.countdown = unit.duty
  <2>1. PICK k \in Nat, left \in Nat :
           /\ y = [unit EXCEPT !.count = unit.count + k, !.countdown = left]
           /\ left <= unit.duty
           /\ left > 0 => left = unit.countdown - unit.countdown + unit.duty * k
    BY <1>1, <1>2, StepReads
  <2>2. y.countdown = left
    BY <1>1, <2>1 DEF Unit
  <2>3. ASSUME left > 0 PROVE left = unit.duty
    <3>1. left = unit.duty * k
      BY <1>2, <2>1, <2>3
    <3>2. k >= 1
      BY <1>2, <2>3, <3>1
    <3>3. unit.duty * 1 <= unit.duty * k
      BY <1>2, <3>2, TimesMonotone
    <3> QED BY <1>2, <2>1, <3>1, <3>3
  <2> QED BY <2>2, <2>3
<1>5. y \in Unit /\ SameUnit(unit, y) /\ Fits(y)
  BY <1>1, <1>2, StepKeepsPace
<1> HIDE DEF y
<1>6. /\ u \in Unit /\ u.count = 0 /\ u.countdown = y.countdown /\ u.duty = unit.duty
      /\ u.width = unit.width /\ u.active /\ u.head = Plus(p, w)
  BY <1>1, <1>3, <1>5 DEF Unit, SameUnit
<1>7. v = Resume(u)
  BY DEF y
<1> HIDE DEF u
<1>8. Capacity(unit.width) \in Nat /\ Capacity(unit.width) > 0
  BY <1>2, CapacityHolds
<1>9. Fits(u) /\ u.count < Capacity(u.width)
  BY <1>2, <1>4, <1>6, <1>8 DEF Fits
<1>10. cycles \in Nat /\ handed \in Nat /\ read \in Nat
  BY <1>1, <1>2
<1>11. u.duty * (handed + u.count) = read + unit.duty
  <2>1. handed + u.count = (taken + unit.count) + 1
    BY <1>1, <1>2, <1>6
  <2>2. \A m \in Nat : unit.duty * (m + 1) = unit.duty * m + unit.duty
    BY <1>2
  <2>3. taken + unit.count \in Nat
    BY <1>1, <1>2
  <2> QED BY <1>6, <2>1, <2>2, <2>3
<1>12. since >= read + (unit.duty - unit.countdown) /\ (~mark.full => since = read + unit.duty - unit.countdown)
  BY <1>1 DEF Paced
<1> HIDE DEF read, cycles, handed
<1>13. cycles >= read + unit.duty /\ (~mark.full => cycles = read + unit.duty)
  BY <1>1, <1>2, <1>10, <1>12 DEF cycles
<1>14. cycles >= read + unit.duty + 0 /\ cycles >= read + unit.duty + (unit.duty - unit.duty)
       /\ (~mark.full => cycles = read + unit.duty + unit.duty - unit.duty)
  BY <1>2, <1>10, <1>13
<1>15. Paced(u, cycles, handed, mark.full)
  <2>1. CASE u.countdown = 0
    BY <1>11, <1>14, <2>1 DEF Paced
  <2>2. CASE u.countdown = unit.duty
    BY <1>1, <1>6, <1>11, <1>14, <2>2 DEF Paced
  <2> QED BY <1>4, <1>6, <2>1, <2>2
<1>16. mark.full \/ cycles = u.duty * (handed + u.count)
  BY <1>11, <1>13
<1>17. v \in Unit /\ Fits(v) /\ SameUnit(u, v) /\ Paced(v, cycles, handed, mark.full)
  BY <1>1, <1>6, <1>7, <1>9, <1>10, <1>15, <1>16, ResumeKeepsPace
<1>18. Paced(v, cycles, handed, mark.full \/ v.countdown = 0)
  BY <1>17 DEF Paced
<1> QED BY <1>6, <1>17, <1>18 DEF SameUnit, cycles, handed

-----------------------------------------------------------------------------
(* The accesses                                                            *)

LEMMA PricesStand ==
  ASSUME control' = control
  PROVE  /\ \A r, w : Duty(r, w)' = Duty(r, w)
         /\ \A r : S16(r)' = S16(r) /\ N16(r)' = N16(r)
BY DEF Duty, Price, S16, N16, WaitState, Sram, Ewram

\* A fetch the unit does not serve: it begins again, or stops where WAITCNT has it off.
LEMMA BeginKeeps ==
  ASSUME PrefetchInv, NEW p \in Places, NEW w \in {2, 4}, FetchOpcode(p, w),
         p[1] \in ROM, ~Served(unit, p), ~Arriving(unit, p)
  PROVE  PrefetchInv'
<1> DEFINE sequential == p = fetching.next /\ w = fetching.width
           price == AccessCycles(p, w, sequential)
           duty == Duty(p[1], w)
           fetched == UnitFetch(unit, p, w, price, duty, InGamePak)
<1>1. /\ control \in Settings /\ unit \in Unit /\ Fits(unit) /\ since \in Nat /\ taken \in Nat /\ mark \in Mark
  BY DEF PrefetchInv
<1>2. price \in Nat \ {0} /\ duty \in Nat \ {0}
  BY <1>1, AccessPrice, PricesPositive DEF Places, Duty
<1>3. Plus(p, w) \in Places /\ Plus(p, w)[1] = p[1]
  BY DEF Plus, Places
<1> HIDE DEF price, duty
<1>4. fetched = [unit |-> IF control.prefetch
                   THEN [active |-> TRUE, head |-> Plus(p, w), count |-> 0, countdown |-> duty, width |-> w, duty |-> duty]
                   ELSE [unit EXCEPT !.active = FALSE],
                 cost |-> price + StopPenalty(unit, InGamePak)]
  BY DEF UnitFetch
<1>5. /\ unit' = fetched.unit /\ fetching' = [next |-> Plus(p, w), width |-> w] /\ since' = 0 /\ taken' = 0
      /\ control' = control
      /\ mark' = [cost |-> fetched.cost, price |-> price, full |-> fetched.unit.countdown = 0,
                  mixed |-> w # fetched.unit.width, changed |-> FALSE]
  BY DEF FetchOpcode, FetchCycles, Marked, price, duty, Duty
<1>6. StopPenalty(unit, InGamePak) \in {0, 1}
  BY DEF StopPenalty
<1> HIDE DEF fetched
<1>7. mark' \in Mark /\ fetching' \in [next : Places, width : {2, 4}]
  <2>1. fetched.cost \in Nat
    BY <1>2, <1>4, <1>6
  <2> QED BY <1>2, <1>3, <1>5, <2>1 DEF Mark
<1>8. CASE ~control.prefetch
  <2>1. unit' \in Unit /\ Fits(unit)' /\ ~unit'.active
    <3>1. unit' = [unit EXCEPT !.active = FALSE]
      BY <1>4, <1>5, <1>8
    <3> QED BY <1>1, <3>1 DEF Unit, Fits, Capacity
  <2> QED BY <1>1, <1>5, <1>7, <2>1 DEF PrefetchInv
<1>9. CASE control.prefetch
  <2>1. unit' = [active |-> TRUE, head |-> Plus(p, w), count |-> 0, countdown |-> duty, width |-> w, duty |-> duty]
    BY <1>4, <1>5, <1>9
  <2>2. Capacity(w) \in Nat \ {0}
    BY CapacityHolds
  <2>3. unit' \in Unit /\ Fits(unit)'
    BY <1>2, <1>3, <2>1, <2>2 DEF Unit, Fits, Capacity
  <2>4. Paced(unit, since, taken, mark.full)'
    <3>1. duty * (0 + 0) = 0
      BY <1>2
    <3> QED BY <1>2, <1>5, <2>1, <3>1 DEF Paced
  <2>5. unit'.countdown # 0 /\ unit'.head[1] = p[1] /\ unit'.width = w /\ unit'.duty = Duty(p[1], w)'
    BY <1>2, <1>3, <1>5, <2>1, PricesStand DEF duty
  <2>6. mark'.cost <= mark'.price + 1
    <3>1. mark'.cost = price + StopPenalty(unit, InGamePak) /\ mark'.price = price
      BY <1>4, <1>5
    <3> QED BY <1>2, <1>6, <3>1
  <2>7. unit'.active /\ unit'.duty > 0 /\ unit'.duty = Duty(unit.head[1], unit.width)'
    BY <1>2, <2>1, <2>5
  <2>8. since' \in Nat /\ taken' \in Nat /\ control' \in Settings
    BY <1>1, <1>5
  <2> QED BY <1>3, <1>7, <2>3, <2>4, <2>5, <2>6, <2>7, <2>8 DEF PrefetchInv
<1> QED BY <1>8, <1>9

\* A fetch the unit serves from its buffer, or as it arrives.
LEMMA HitKeeps ==
  ASSUME PrefetchInv, NEW p \in Places, NEW w \in {2, 4}, FetchOpcode(p, w),
         p[1] \in ROM, Served(unit, p) \/ Arriving(unit, p)
  PROVE  PrefetchInv'
<1> DEFINE sequential == p = fetching.next /\ w = fetching.width
           price == AccessCycles(p, w, sequential)
           fetched == UnitFetch(unit, p, w, price, Duty(p[1], w), InGamePak)
<1>1. /\ control \in Settings /\ unit \in Unit /\ Fits(unit) /\ since \in Nat /\ taken \in Nat /\ mark \in Mark
  BY DEF PrefetchInv
<1>2. /\ unit.active /\ unit.duty > 0 /\ unit.head[1] \in ROM
      /\ ~mark.changed => unit.duty = Duty(unit.head[1], unit.width)
  BY DEF PrefetchInv, Served, Arriving
<1>3. unit.count \in Nat /\ unit.countdown \in Nat /\ unit.duty \in Nat /\ unit.countdown <= unit.duty
  BY <1>1 DEF Unit, Fits
<1>4. price \in Nat \ {0} /\ (S16(p[1]) <= N16(p[1]) => Duty(p[1], w) <= price)
  BY <1>1, AccessPrice DEF Duty
<1>5. Plus(p, w) \in Places /\ Plus(p, w)[1] = p[1] /\ p[1] = unit.head[1]
  BY DEF Plus, Places, Served, Arriving, InFlight
<1> HIDE DEF price
<1>6. /\ unit' = fetched.unit /\ fetching' = [next |-> Plus(p, w), width |-> w] /\ since' = since + fetched.cost
      /\ taken' = taken + (IF Served(unit, p) THEN 1 ELSE unit.count + 1)
      /\ control' = control
      /\ mark' = [cost |-> fetched.cost, price |-> price, full |-> mark.full \/ fetched.unit.countdown = 0,
                  mixed |-> mark.mixed \/ w # fetched.unit.width, changed |-> mark.changed]
  BY <1>1 DEF FetchOpcode, FetchCycles, Marked, price, Duty, Mark
<1>7. /\ unit' \in Unit /\ Fits(unit') /\ unit'.active /\ unit'.duty = unit.duty /\ unit'.width = unit.width
      /\ unit'.head = Plus(p, w)
      /\ Paced(unit', since', taken', mark'.full)
      /\ fetched.cost \in Nat /\ (fetched.cost = 1 \/ fetched.cost = unit.countdown)
  <2>1. CASE Served(unit, p)
    <3> DEFINE v == StepUnit(Resume([unit EXCEPT !.count = @ - 1, !.head = Plus(p, w)]), 1)
    <3>1. fetched = [unit |-> v, cost |-> 1]
      <4>1. UnitFetch(unit, p, w, price, Duty(p[1], w), InGamePak) = [unit |-> v, cost |-> 1]
        BY <2>1 DEF UnitFetch, Arriving
      <4> QED BY <4>1
    <3>2. /\ v \in Unit /\ Fits(v) /\ v.active /\ v.duty = unit.duty /\ v.width = unit.width /\ v.head = Plus(p, w)
          /\ Paced(v, since + 1, taken + 1, mark.full \/ v.countdown = 0)
      BY <2>1, ServedKeepsPace
    <3> HIDE DEF v, fetched
    <3>3. unit' = v /\ since' = since + 1 /\ taken' = taken + 1 /\ mark'.full = (mark.full \/ v.countdown = 0)
      BY <1>6, <2>1, <3>1
    <3> QED BY <3>1, <3>2, <3>3
  <2>2. CASE ~Served(unit, p)
    <3> DEFINE v == Resume([StepUnit(unit, unit.countdown) EXCEPT !.head = Plus(p, w), !.count = 0])
    <3>1. fetched = [unit |-> v, cost |-> unit.countdown]
      BY <2>2 DEF UnitFetch
    <3>2. /\ v \in Unit /\ Fits(v) /\ v.active /\ v.duty = unit.duty /\ v.width = unit.width /\ v.head = Plus(p, w)
          /\ Paced(v, since + unit.countdown, taken + (unit.count + 1), mark.full \/ v.countdown = 0)
      BY <2>2, ArrivingKeepsPace
    <3> HIDE DEF v, fetched
    <3>3. unit' = v /\ since' = since + unit.countdown /\ taken' = taken + (unit.count + 1)
          /\ mark'.full = (mark.full \/ v.countdown = 0)
      BY <1>6, <2>2, <3>1
    <3> QED BY <1>3, <3>1, <3>2, <3>3
  <2> QED BY <2>1, <2>2
<1> HIDE DEF fetched, sequential
<1>8. /\ mark' \in Mark /\ mark'.cost = fetched.cost /\ mark'.price = price /\ mark'.changed = mark.changed
      /\ ~mark'.mixed => ~mark.mixed /\ w = unit.width
      /\ unit'.countdown = 0 => mark'.full
  BY <1>1, <1>4, <1>6, <1>7 DEF Mark
<1>9. fetching' \in [next : Places, width : {2, 4}]
  BY <1>5, <1>6
<1>10. since' \in Nat /\ taken' \in Nat /\ control' \in Settings
  BY <1>1, <1>3, <1>6, <1>7
<1>11. unit'.head[1] = unit.head[1]
  BY <1>5, <1>7
<1>12. ~mark'.changed => unit'.duty = Duty(unit.head[1], unit.width)'
  BY <1>2, <1>6, <1>7, <1>8, <1>11, PricesStand
<1>13. ASSUME ~mark'.mixed, ~mark'.changed, (S16(unit.head[1]) <= N16(unit.head[1]))'
       PROVE  mark'.cost <= mark'.price + 1
  <2>1. S16(p[1]) <= N16(p[1])
    BY <1>5, <1>6, <1>11, <1>13, PricesStand
  <2>2. unit.duty = Duty(p[1], w)
    BY <1>2, <1>5, <1>8, <1>13
  <2> QED BY <1>3, <1>4, <1>7, <1>8, <2>1, <2>2
<1>14. Paced(unit, since, taken, mark.full)' /\ Fits(unit)'
  BY <1>7 DEF Paced, Fits, Capacity
<1> QED BY <1>2, <1>3, <1>7, <1>8, <1>9, <1>10, <1>11, <1>12, <1>13, <1>14 DEF PrefetchInv

\* Cycles in which nothing uses the cartridge: the unit reads on.
LEMMA FreeCyclesKeep ==
  ASSUME PrefetchInv, NEW n \in Nat, NEW price \in Nat, n <= price,
         unit' = StepUnit(unit, n), since' = since + n, taken' = taken, control' = control,
         fetching' \in [next : Places, width : {2, 4}],
         mark' = [mark EXCEPT !.cost = n, !.price = price, !.full = @ \/ unit'.countdown = 0]
  PROVE  PrefetchInv'
<1>1. /\ control \in Settings /\ unit \in Unit /\ Fits(unit) /\ since \in Nat /\ taken \in Nat /\ mark \in Mark
  BY DEF PrefetchInv
<1>2. /\ unit' \in Unit /\ Fits(unit') /\ SameUnit(unit, unit')
      /\ Paced(unit, since, taken, mark.full) => Paced(unit', since + n, taken, mark.full \/ unit'.countdown = 0)
  <2> DEFINE v == StepUnit(unit, n)
  <2>1. mark.full \in BOOLEAN
    BY <1>1 DEF Mark
  <2>2. /\ v \in Unit /\ Fits(v) /\ SameUnit(unit, v)
        /\ Paced(unit, since, taken, mark.full) => Paced(v, since + n, taken, mark.full \/ v.countdown = 0)
    BY <1>1, <2>1, StepKeepsPace
  <2> HIDE DEF v
  <2>3. unit' = v
    BY DEF v
  <2> QED BY <2>2, <2>3
<1>3. /\ mark' \in Mark /\ mark'.full = (mark.full \/ unit'.countdown = 0) /\ mark'.cost = n /\ mark'.price = price
      /\ mark'.mixed = mark.mixed /\ mark'.changed = mark.changed
  BY <1>1 DEF Mark
<1>4. since' \in Nat /\ taken' \in Nat /\ control' \in Settings /\ mark'.cost <= mark'.price + 1
  BY <1>1, <1>3
<1>5. Fits(unit)'
  BY <1>2 DEF Fits, Capacity
<1>6. ASSUME unit'.active
      PROVE  /\ unit'.duty > 0 /\ unit'.head[1] \in ROM
             /\ Paced(unit, since, taken, mark.full)'
             /\ unit'.countdown = 0 => mark'.full
             /\ ~mark'.changed => unit'.duty = Duty(unit.head[1], unit.width)'
  <2>1. /\ unit.active /\ unit'.duty = unit.duty /\ unit'.head = unit.head /\ unit'.width = unit.width
    BY <1>2, <1>6 DEF SameUnit
  <2>2. /\ unit.duty > 0 /\ unit.head[1] \in ROM /\ Paced(unit, since, taken, mark.full)
        /\ ~mark.changed => unit.duty = Duty(unit.head[1], unit.width)
    BY <2>1 DEF PrefetchInv
  <2>3. Paced(unit', since', taken', mark'.full)
    BY <1>2, <1>3, <2>2
  <2>4. Paced(unit, since, taken, mark.full)'
    BY <2>3 DEF Paced
  <2>5. ~mark'.changed => unit'.duty = Duty(unit.head[1], unit.width)'
    BY <1>3, <2>1, <2>2, PricesStand
  <2> QED BY <1>3, <2>1, <2>2, <2>4, <2>5
<1> QED BY <1>2, <1>3, <1>4, <1>5, <1>6 DEF PrefetchInv

LEMMA MarkTyped ==
  ASSUME NEW m \in Mark, NEW cost \in Nat, NEW price \in Nat, NEW left
  PROVE  [m EXCEPT !.cost = cost, !.price = price, !.full = @ \/ left = 0] \in Mark
BY DEF Mark

\* A data access, or a fetch from elsewhere.
LEMMA DataKeeps ==
  ASSUME PrefetchInv, NEW p \in Places, NEW w \in {2, 4}, NEW sequential \in BOOLEAN,
         NEW d, d = DataCycles(p, w, sequential),
         unit' = d.unit, since' = since + d.cost, taken' = taken, control' = control,
         fetching' \in [next : Places, width : {2, 4}],
         mark' = [mark EXCEPT !.cost = d.cost, !.price = d.price, !.full = @ \/ d.unit.countdown = 0]
  PROVE  PrefetchInv'
<1> DEFINE price == AccessCycles(p, w, sequential)
<1>1. /\ control \in Settings /\ unit \in Unit /\ Fits(unit) /\ since \in Nat /\ taken \in Nat /\ mark \in Mark
  BY DEF PrefetchInv
<1>2. price \in Nat
  BY <1>1, AccessPrice
<1> HIDE DEF price
<1>3. CASE p[1] \notin CARTRIDGE
  <2>1. d = [unit |-> StepUnit(unit, price), cost |-> price, price |-> price]
    BY <1>3 DEF DataCycles, price
  <2>2. /\ unit' = StepUnit(unit, price) /\ since' = since + price
        /\ mark' = [mark EXCEPT !.cost = price, !.price = price, !.full = @ \/ unit'.countdown = 0]
    BY <2>1
  <2>3. price <= price
    BY <1>2
  <2> QED BY <1>2, <2>2, <2>3, FreeCyclesKeep
<1>4. CASE p[1] \in CARTRIDGE
  <2>1. d = [unit |-> [unit EXCEPT !.active = FALSE], cost |-> price + StopPenalty(unit, InGamePak), price |-> price]
    BY <1>4 DEF DataCycles, price
  <2>2. StopPenalty(unit, InGamePak) \in {0, 1}
    BY DEF StopPenalty
  <2>3. d.cost \in Nat /\ d.price \in Nat
    BY <1>2, <2>1, <2>2
  <2>4. mark' \in Mark /\ since' \in Nat
    <3>1. mark' \in Mark
      BY <1>1, <2>3, MarkTyped
    <3>2. d.cost \in Nat /\ since \in Nat
      BY <1>1, <2>3
    <3> QED BY <3>1, <3>2
  <2>5. unit' \in Unit /\ Fits(unit)' /\ ~unit'.active
    <3>1. unit' = [unit EXCEPT !.active = FALSE]
      BY <2>1
    <3> QED BY <1>1, <3>1 DEF Unit, Fits, Capacity
  <2> QED BY <1>1, <2>4, <2>5 DEF PrefetchInv
<1> QED BY <1>3, <1>4

LEMMA FetchKeeps ==
  ASSUME PrefetchInv, NEW p \in Places, NEW w \in {2, 4}, FetchOpcode(p, w)
  PROVE  PrefetchInv'
<1>1. CASE p[1] \in ROM
  BY <1>1, BeginKeeps, HitKeeps
<1>2. CASE p[1] \notin ROM
  <2> DEFINE sequential == p = fetching.next /\ w = fetching.width
             d == DataCycles(p, w, sequential)
  <2>1. /\ unit' = d.unit /\ since' = since + d.cost /\ taken' = taken /\ control' = control
        /\ fetching' = [next |-> Plus(p, w), width |-> w]
        /\ mark' = [mark EXCEPT !.cost = d.cost, !.price = d.price, !.full = @ \/ d.unit.countdown = 0]
    BY <1>2 DEF FetchOpcode, FetchCycles
  <2>2. fetching' \in [next : Places, width : {2, 4}]
    BY <2>1 DEF Plus, Places
  <2>3. sequential \in BOOLEAN
    OBVIOUS
  <2> HIDE DEF sequential
  <2> QED BY <2>1, <2>2, <2>3, DataKeeps
<1> QED BY <1>1, <1>2

\* What is true of the unit through every fetch, load, idle cycle and setting: it
\* has room for the opcode it reads, the cycles for those it has read, and the
\* price of its own setting.
LEMMA PrefetchInvariant == PrefetchSpec => []PrefetchInv
<1>1. PrefetchInit => PrefetchInv
  <2> SUFFICES ASSUME PrefetchInit PROVE PrefetchInv
    OBVIOUS
  <2>1. control \in Settings /\ fetching \in [next : Places, width : {2, 4}]
    BY PrefetchAssumption DEF PrefetchInit, Places
  <2>2. unit \in Unit /\ ~unit.active /\ Fits(unit)
    BY CapacityHolds DEF PrefetchInit, Stopped, Unit, Places, Fits
  <2>3. mark \in Mark
    BY DEF PrefetchInit, Mark
  <2> QED BY <2>1, <2>2, <2>3 DEF PrefetchInit, PrefetchInv
<1>2. PrefetchInv /\ [PrefetchNext]_prefetchVars => PrefetchInv'
  <2> SUFFICES ASSUME PrefetchInv, [PrefetchNext]_prefetchVars PROVE PrefetchInv'
    OBVIOUS
  <2>1. CASE FetchOpcode(fetching.next, fetching.width)
    <3>1. fetching.next \in Places /\ fetching.width \in {2, 4}
      BY DEF PrefetchInv
    <3> QED BY <2>1, <3>1, FetchKeeps
  <2>2. ASSUME NEW p \in TARGETS, NEW w \in {2, 4}, FetchOpcode(p, w)
        PROVE  PrefetchInv'
    <3>1. p \in Places
      BY PrefetchAssumption DEF Places
    <3> QED BY <2>2, <3>1, FetchKeeps
  <2>3. ASSUME NEW p \in DATA, NEW w \in {2, 4}, NEW sequential \in BOOLEAN, LoadData(p, w, sequential)
        PROVE  PrefetchInv'
    <3> DEFINE d == DataCycles(p, w, sequential)
    <3>1. p \in Places
      BY PrefetchAssumption DEF Places
    <3>2. /\ unit' = d.unit /\ since' = since + d.cost /\ taken' = taken /\ control' = control
          /\ fetching' = fetching
          /\ mark' = [mark EXCEPT !.cost = d.cost, !.price = d.price, !.full = @ \/ d.unit.countdown = 0]
      BY <2>3 DEF LoadData
    <3>3. fetching' \in [next : Places, width : {2, 4}]
      BY <3>2 DEF PrefetchInv
    <3> HIDE DEF d
    <3>4. d = DataCycles(p, w, sequential)
      BY DEF d
    <3> QED BY <3>1, <3>2, <3>3, <3>4, DataKeeps
  <2>4. ASSUME NEW n \in {1, 4}, IdleFor(n)
        PROVE  PrefetchInv'
    <3>1. /\ unit' = StepUnit(unit, n) /\ since' = since + n /\ taken' = taken /\ control' = control
          /\ fetching' = fetching
          /\ mark' = [mark EXCEPT !.cost = n, !.price = n, !.full = @ \/ unit'.countdown = 0]
      BY <2>4 DEF IdleFor
    <3>2. fetching' \in [next : Places, width : {2, 4}]
      BY <3>1 DEF PrefetchInv
    <3>3. n \in Nat /\ n <= n
      OBVIOUS
    <3> QED BY <3>1, <3>2, <3>3, FreeCyclesKeep
  <2>5. ASSUME NEW c \in CONTROLS, SetControl(c)
        PROVE  PrefetchInv'
    <3>1. c \in Settings
      BY PrefetchAssumption
    <3>2. /\ control' = c /\ UNCHANGED <<unit, fetching, since, taken>> /\ mark' = [mark EXCEPT !.changed = TRUE]
      BY <2>5 DEF SetControl
    <3>3. mark' \in Mark /\ mark'.changed /\ mark'.full = mark.full
      BY <3>2 DEF PrefetchInv, Mark
    <3>4. Fits(unit)' /\ (unit.active => Paced(unit, since, taken, mark.full)')
      BY <3>2, <3>3 DEF PrefetchInv, Fits, Capacity, Paced
    <3> QED BY <3>1, <3>2, <3>3, <3>4 DEF PrefetchInv
  <2>6. CASE UNCHANGED prefetchVars
    <3>1. /\ control' = control
          /\ UNCHANGED <<unit, fetching, since, taken, mark>>
      BY <2>6 DEF prefetchVars
    <3>2. Fits(unit)' /\ (unit.active => Paced(unit, since, taken, mark.full)')
      BY <3>1 DEF PrefetchInv, Fits, Capacity, Paced
    <3> QED BY <3>1, <3>2, PricesStand DEF PrefetchInv
  <2> QED BY <2>1, <2>2, <2>3, <2>4, <2>5, <2>6 DEF PrefetchNext
<1> QED BY <1>1, <1>2, PTL DEF PrefetchSpec

\* Reading ahead costs the cartridge's cycles and no fetch more than the cartridge
\* would, whatever the buffer, the settings and the order of fetches, skips, loads
\* and idle cycles (prefetch.ts fetch, step, #resume, stopPenalty).
THEOREM UnitReadsAhead == PrefetchSpec => []ReadsAhead
<1>1. PrefetchInv => ReadsAhead
  <2> SUFFICES ASSUME PrefetchInv, unit.active PROVE ReadsAhead
    BY DEF ReadsAhead
  <2> DEFINE read == unit.duty * (taken + unit.count)
  <2>1. /\ unit.count \in Nat /\ unit.countdown \in Nat /\ unit.duty \in Nat /\ unit.width \in {2, 4}
        /\ since \in Nat /\ taken \in Nat /\ Fits(unit) /\ Paced(unit, since, taken, mark.full)
    BY DEF PrefetchInv, Unit
  <2>2. read \in Nat
    BY <2>1
  <2>3. unit.count <= Capacity(unit.width) /\ unit.countdown <= unit.duty
    BY <2>1, CapacityHolds DEF Fits
  <2>4. unit.count * unit.width <= BUFFER_BYTES /\ unit.countdown \in 0 .. unit.duty
    BY <2>1, <2>3, CapacityHolds
  <2>5. /\ since >= read + IF unit.countdown > 0 THEN unit.duty - unit.countdown ELSE 0
        /\ unit.countdown > 0 /\ ~mark.full => since = read + unit.duty - unit.countdown
    BY <2>1 DEF Paced
  <2> HIDE DEF read
  <2>6. IF unit.countdown > 0 THEN since >= read + unit.duty - unit.countdown ELSE since >= read
    BY <2>1, <2>2, <2>5
  <2> QED BY <2>4, <2>5, <2>6 DEF ReadsAhead, PrefetchInv, read
<1> QED BY <1>1, PrefetchInvariant, PTL

-----------------------------------------------------------------------------
(* The cartridge's chips.  In the middle of a request the chip and what was  *)
(* read are determined by the accesses still to come: for an EEPROM by their *)
(* number, for a flash chip by its place in the unlock sequences.            *)

\* Powers of two: their equation has a solution.
LEMMA Powers ==
  /\ Pow2[0] = 1
  /\ \A n \in Nat : Pow2[n] \in Nat /\ Pow2[n] > 0 /\ Pow2[n + 1] = 2 * Pow2[n]
<1> DEFINE T == Nat \ {0}
           G == [x \in T |-> 2 * x]
           one == 1
<1>1. one \in T /\ G \in [T -> T]
  <2>1. \A x \in T : 2 * x \in T
    OBVIOUS
  <2> HIDE DEF T
  <2>2. G \in [T -> T]
    BY <2>1
  <2> QED BY <2>2 DEF T
<1>2. PICK f \in [Nat -> T] : f[0] = one /\ \A n \in Nat : f[n + 1] = G[f[n]]
  <2> HIDE DEF T, G, one
  <2> QED BY <1>1, StepRecursion
<1>3. \A n \in Nat : f[n + 1] = 2 * f[n]
  BY <1>2
<1>4. f = [n \in Nat |-> IF n = 0 THEN 1 ELSE 2 * f[n - 1]]
  <2>1. \A n \in Nat : f[n] = IF n = 0 THEN 1 ELSE 2 * f[n - 1]
    <3> TAKE n \in Nat
    <3>1. CASE n = 0
      BY <1>2, <3>1
    <3>2. CASE n # 0
      <4>1. n - 1 \in Nat /\ (n - 1) + 1 = n
        BY <3>2
      <4> QED BY <1>3, <3>2, <4>1
    <3> QED BY <3>1, <3>2
  <2> QED BY <1>2, <2>1
<1> DEFINE Solves(g) == g = [n \in Nat |-> IF n = 0 THEN 1 ELSE 2 * g[n - 1]]
<1>5. Pow2 = CHOOSE g : Solves(g)
  BY Zenon DEF Pow2
<1>6. Solves(Pow2)
  <2>1. \E g : Solves(g)
    BY <1>4
  <2> HIDE DEF Solves
  <2> QED BY <1>5, <2>1
\* Any two solutions agree, by the least argument they differ at.
<1>7. \A n \in Nat : Pow2[n] = IF n = 0 THEN 1 ELSE 2 * Pow2[n - 1]
  BY <1>6
<1> DEFINE Bad == {n \in Nat : Pow2[n] # f[n]}
<1>8. Bad = {}
  <2> SUFFICES ASSUME Bad # {} PROVE FALSE
    OBVIOUS
  <2>1. PICK m \in Bad : \A y \in Bad : m <= y
    <3>1. Bad \in SUBSET Nat
      OBVIOUS
    <3> HIDE DEF Bad
    <3> QED BY <3>1, LeastMember
  <2>2. m # 0
    BY <1>2, <1>7, <2>1
  <2>3. m - 1 \in Nat /\ (m - 1) + 1 = m /\ m - 1 \notin Bad
    BY <2>1, <2>2
  <2>4. Pow2[m] = 2 * Pow2[m - 1]
    BY <1>7, <2>1, <2>2
  <2>5. f[m] = 2 * f[m - 1]
    BY <1>3, <2>3
  <2> QED BY <2>1, <2>3, <2>4, <2>5
<1>9. \A n \in Nat : Pow2[n] = f[n]
  BY <1>8
<1> HIDE DEF Bad, Solves
<1>10. Pow2[0] = 1
  BY <1>2, <1>9
<1>11. \A n \in Nat : Pow2[n] \in Nat /\ Pow2[n] > 0 /\ Pow2[n + 1] = 2 * Pow2[n]
  <2> TAKE n \in Nat
  <2>1. n + 1 \in Nat /\ f[n] \in T
    BY <1>2
  <2> QED BY <1>3, <1>9, <2>1
<1> QED BY <1>10, <1>11

\* Quotients are those numbers there are remainders for.
LEMMA Quotient ==
  ASSUME NEW a \in Nat, NEW b \in Nat, b > 0, NEW q \in Nat, NEW r \in Nat, r < b, a = b * q + r
  PROVE  a \div b = q
BY SMTT(30)

\* The next bit of an address, below those already clocked in.
LEMMA NextBit ==
  ASSUME NEW a \in Nat, NEW b \in Nat, b > 0
  PROVE  2 * (a \div (2 * b)) + ((a \div b) % 2) = a \div b /\ a \div b \in Nat /\ (a \div b) % 2 \in {0, 1}
<1>1. a \div b \in Int /\ a = b * (a \div b) + (a % b) /\ a % b \in 0 .. b - 1
  OBVIOUS
<1> DEFINE q == a \div b
           r == a % b
           s == q \div 2
           t == q % 2
<1>2. q \in Int /\ r \in Int /\ a = b * q + r /\ 0 <= r /\ r < b
  BY <1>1
<1>3. q \in Nat
  <2> SUFFICES ASSUME q + 1 <= 0 PROVE FALSE
    BY <1>2
  <2> HIDE DEF q, r
  <2>1. b * (q + 1) <= 0
    BY <1>2
  <2>2. b * (q + 1) = b * q + b
    BY <1>2
  <2> QED BY <1>2, <2>1, <2>2
<1>4. s \in Nat /\ t \in {0, 1} /\ q = 2 * s + t
  <2> HIDE DEF q
  <2> QED BY <1>3
<1>5. a \div (2 * b) = s
  <2> HIDE DEF q, r, s, t
  <2>1. a = (2 * b) * s + (b * t + r)
    <3>1. b * q = b * (2 * s + t)
      BY <1>4
    <3>2. b * (2 * s + t) = (2 * b) * s + b * t
      BY <1>4
    <3>3. b * t \in Int /\ (2 * b) * s \in Int /\ b * q \in Int
      BY <1>3, <1>4
    <3> QED BY <1>2, <3>1, <3>2, <3>3
  <2>2. b * t + r \in Nat /\ b * t + r < 2 * b
    BY <1>2, <1>4
  <2>3. 2 * b \in Nat /\ 2 * b > 0
    OBVIOUS
  <2> QED BY <1>4, <2>1, <2>2, <2>3, Quotient
<1> QED BY <1>3, <1>4, <1>5

-----------------------------------------------------------------------------
\* What is left of a sequence after k of its members.
Rest(s, k) == [i \in 1 .. Len(s) - k |-> s[k + i]]

\* What is left of a sequence after k of its members, and one more.
LEMMA RestMoves ==
  ASSUME NEW S, NEW s \in Seq(S), NEW k \in 0 .. Len(s)
  PROVE  /\ Rest(s, k) \in Seq(S) /\ Len(Rest(s, k)) = Len(s) - k
         /\ Rest(s, 0) = s
         /\ k = Len(s) => Rest(s, k) = <<>>
         /\ k < Len(s) => /\ Rest(s, k) # <<>> /\ Head(Rest(s, k)) = s[k + 1] /\ s[k + 1] \in S
                          /\ Tail(Rest(s, k)) = Rest(s, k + 1)
<1>1. Len(s) \in Nat /\ DOMAIN s = 1 .. Len(s) /\ \A i \in 1 .. Len(s) : s[i] \in S
  BY LenProperties, ElementOfSeq
<1>2. Rest(s, k) \in Seq(S) /\ Len(Rest(s, k)) = Len(s) - k /\ DOMAIN Rest(s, k) = 1 .. Len(s) - k
  BY <1>1 DEF Rest
<1>3. Rest(s, 0) = s
  <2>1. Rest(s, 0) \in Seq(S) /\ Len(Rest(s, 0)) = Len(s)
    BY <1>1 DEF Rest
  <2>2. \A i \in 1 .. Len(s) : Rest(s, 0)[i] = s[i]
    BY <1>1 DEF Rest
  <2> QED BY <2>1, <2>2, SeqEqual
<1>4. k = Len(s) => Rest(s, k) = <<>>
  BY <1>2, EmptySeq
<1>5. ASSUME k < Len(s)
      PROVE  /\ Rest(s, k) # <<>> /\ Head(Rest(s, k)) = s[k + 1] /\ s[k + 1] \in S
             /\ Tail(Rest(s, k)) = Rest(s, k + 1)
  <2>1. Rest(s, k) # <<>>
    BY <1>1, <1>2, <1>5, EmptySeq
  <2>2. Head(Rest(s, k)) = Rest(s, k)[1]
    BY <2>1, <1>2
  <2>3. Rest(s, k)[1] = s[k + 1]
    BY <1>1, <1>5 DEF Rest
  <2>4. Tail(Rest(s, k)) \in Seq(S) /\ Len(Tail(Rest(s, k))) = Len(s) - (k + 1)
        /\ \A i \in 1 .. Len(s) - (k + 1) : Tail(Rest(s, k))[i] = Rest(s, k)[i + 1]
    <3> DEFINE t == Rest(s, k)
    <3>1. t \in Seq(S) /\ t # <<>> /\ Len(t) = Len(s) - k
      BY <1>2, <2>1
    <3> HIDE DEF t
    <3>2. Tail(t) \in Seq(S) /\ Len(Tail(t)) = Len(t) - 1 /\ \A i \in 1 .. Len(Tail(t)) : Tail(t)[i] = t[i + 1]
      BY <3>1, HeadTailProperties
    <3>3. Len(t) - 1 = Len(s) - (k + 1)
      BY <1>1, <1>5, <3>1
    <3> QED BY <3>2, <3>3 DEF t
  <2>5. Rest(s, k + 1) \in Seq(S) /\ Len(Rest(s, k + 1)) = Len(s) - (k + 1)
    BY <1>1, <1>5 DEF Rest
  <2>6. \A i \in 1 .. Len(s) - (k + 1) : Rest(s, k)[i + 1] = Rest(s, k + 1)[i]
    BY <1>1, <1>5 DEF Rest
  <2>7. Tail(Rest(s, k)) = Rest(s, k + 1)
    BY <2>4, <2>5, <2>6, SeqEqual
  <2> QED BY <1>1, <1>5, <2>1, <2>2, <2>3, <2>7
<1> QED BY <1>2, <1>3, <1>4, <1>5

Bits == {0, 1}
BitAccesses == [do : {"write", "read"}, value : Bits]

\* The bit a request's i-th access writes, or a read.
EepromItem(r, i) ==
  LET w == cart.width
  IN  IF r.do = "write"
      THEN Wr(IF i = 1 THEN 1 ELSE IF i = 2 THEN 0 ELSE IF i <= 2 + w THEN Address(r.at, w)[i - 2]
              ELSE IF i <= 2 + w + UNIT_BITS THEN r.unit[i - 2 - w] ELSE 0)
      ELSE IF i > 3 + w THEN Rd(0)
      ELSE Wr(IF i <= 2 THEN 1 ELSE IF i <= 2 + w THEN Address(r.at, w)[i - 2] ELSE 0)

EepromLength(c, r) == 3 + c.width + UNIT_BITS + (IF r.do = "write" THEN 0 ELSE DUMMIES)

WidthOK == cart.width \in {NARROW, WIDE}

\* The numbers of a chip.
LEMMA Widths ==
  ASSUME WidthOK
  PROVE  cart.width \in Nat /\ cart.width > 0 /\ UNIT_BITS \in Nat /\ UNIT_BITS > 0 /\ DUMMIES \in Nat /\ UNITS \in Nat
BY CartridgeAssumption DEF WidthOK

\* The address of a unit, most significant bit first.
LEMMA AddressBits ==
  ASSUME WidthOK, NEW n \in Nat
  PROVE  /\ Address(n, cart.width) \in Seq(Bits) /\ Len(Address(n, cart.width)) = cart.width
         /\ \A i \in 1 .. cart.width : Address(n, cart.width)[i] = (n \div Pow2[cart.width - i]) % 2
<1> DEFINE w == cart.width
<1>1. w \in Nat
  BY Widths
<1>2. ASSUME NEW i \in 1 .. w
      PROVE  (n \div Pow2[w - i]) % 2 \in Bits
  <2>1. w - i \in Nat
    BY <1>1, <1>2
  <2>2. Pow2[w - i] \in Nat /\ Pow2[w - i] > 0
    BY <2>1, Powers
  <2> QED BY <2>2, NextBit DEF Bits
<1> HIDE DEF w
<1>3. Address(n, w) \in [1 .. w -> Bits]
  BY <1>2 DEF Address
<1>4. Address(n, w) \in Seq(Bits) /\ Len(Address(n, w)) = w
  BY <1>1, <1>3
<1>5. \A i \in 1 .. w : Address(n, w)[i] = (n \div Pow2[w - i]) % 2
  BY DEF Address
<1> QED BY <1>4, <1>5 DEF w

\* A request to an EEPROM, bit by bit.
LEMMA EepromLineIs ==
  ASSUME WidthOK, NEW r \in EepromRequests(cart.width)
  PROVE  /\ EepromLine(cart, r) \in Seq(BitAccesses) /\ Len(EepromLine(cart, r)) = EepromLength(cart, r)
         /\ \A i \in 1 .. EepromLength(cart, r) : EepromLine(cart, r)[i] = EepromItem(r, i)
<1> DEFINE w == cart.width
           a == Address(r.at, w)
<1>0. w \in Nat /\ w > 0 /\ UNIT_BITS \in Nat /\ DUMMIES \in Nat
  BY Widths
<1>1. r.at \in Nat /\ r.do \in {"write", "read"}
  <2>1. Pow2[w] \in Nat
    BY <1>0, Powers
  <2> QED BY <2>1 DEF EepromRequests
<1>2. a \in Seq(Bits) /\ Len(a) = w
  BY <1>1, AddressBits
<1>3. <<1, 0>> \in Seq(Bits) /\ <<1, 1>> \in Seq(Bits) /\ <<0>> \in Seq(Bits)
      /\ Len(<<1, 0>>) = 2 /\ Len(<<1, 1>>) = 2 /\ Len(<<0>>) = 1
  BY DEF Bits
<1> DEFINE Written(s) == [i \in 1 .. Len(s) |-> Wr(s[i])]
<1>4. ASSUME NEW s \in Seq(Bits)
      PROVE  Written(s) \in Seq(BitAccesses) /\ Len(Written(s)) = Len(s) /\ \A i \in 1 .. Len(s) : Written(s)[i] = Wr(s[i])
  <2>1. Len(s) \in Nat /\ \A i \in 1 .. Len(s) : s[i] \in Bits
    BY LenProperties, ElementOfSeq
  <2>2. \A i \in 1 .. Len(s) : Wr(s[i]) \in BitAccesses
    BY <2>1 DEF Wr, BitAccesses
  <2>3. Written(s) \in [1 .. Len(s) -> BitAccesses]
    BY <2>2
  <2> QED BY <2>1, <2>3
<1>5. CASE r.do = "write"
  <2> DEFINE p == <<1, 0>> \o a
             q == p \o r.unit
             s == q \o <<0>>
  <2>1. r.unit \in Seq(Bits) /\ Len(r.unit) = UNIT_BITS
    BY <1>0, <1>5, CartridgeAssumption DEF EepromRequests, Bits
  <2>2. p \in Seq(Bits) /\ Len(p) = 2 + w
        /\ \A i \in 1 .. 2 + w : p[i] = IF i <= 2 THEN <<1, 0>>[i] ELSE a[i - 2]
    <3> HIDE DEF a
    <3> QED BY <1>0, <1>2, <1>3, ConcatProperties
  <2>3. q \in Seq(Bits) /\ Len(q) = 2 + w + UNIT_BITS
        /\ \A i \in 1 .. 2 + w + UNIT_BITS : q[i] = IF i <= 2 + w THEN p[i] ELSE r.unit[i - (2 + w)]
    <3> DEFINE word == r.unit
               m == 2 + w
               n == UNIT_BITS
    <3>1. m \in Nat /\ n \in Nat /\ word \in Seq(Bits) /\ Len(word) = n /\ p \in Seq(Bits) /\ Len(p) = m
      BY <1>0, <2>1, <2>2
    <3> HIDE DEF p, word, m, n
    <3>2. /\ p \o word \in Seq(Bits) /\ Len(p \o word) = Len(p) + Len(word)
          /\ \A i \in 1 .. Len(p) + Len(word) : (p \o word)[i] = IF i <= Len(p) THEN p[i] ELSE word[i - Len(p)]
      BY <3>1, ConcatProperties
    <3> QED BY <3>1, <3>2 DEF word, m, n
  <2>4. s \in Seq(Bits) /\ Len(s) = 3 + w + UNIT_BITS
        /\ \A i \in 1 .. 3 + w + UNIT_BITS : s[i] = IF i <= 2 + w + UNIT_BITS THEN q[i] ELSE <<0>>[i - (2 + w + UNIT_BITS)]
    <3> HIDE DEF q
    <3> QED BY <1>0, <1>3, <2>3, ConcatProperties
  <2>5. EepromLine(cart, r) = Written(s)
    BY <1>5 DEF EepromLine
  <2>6. EepromLength(cart, r) = 3 + w + UNIT_BITS
    BY <1>0, <1>5 DEF EepromLength
  <2> HIDE DEF p, q, s, a, w
  <2>7. \A i \in 1 .. EepromLength(cart, r) : s[i] =
          (IF i = 1 THEN 1 ELSE IF i = 2 THEN 0 ELSE IF i <= 2 + w THEN a[i - 2]
           ELSE IF i <= 2 + w + UNIT_BITS THEN r.unit[i - 2 - w] ELSE 0)
    <3> TAKE i \in 1 .. EepromLength(cart, r)
    <3>1. CASE i <= 2
      BY <1>0, <2>2, <2>3, <2>4, <2>6, <3>1
    <3>2. CASE i > 2 /\ i <= 2 + w
      BY <1>0, <2>2, <2>3, <2>4, <2>6, <3>2
    <3>3. CASE i > 2 + w /\ i <= 2 + w + UNIT_BITS
      <4>1. i - (2 + w) = i - 2 - w
        BY <1>0
      <4> QED BY <1>0, <2>3, <2>4, <2>6, <3>3, <4>1
    <3>4. CASE i > 2 + w + UNIT_BITS
      <4>1. i - (2 + w + UNIT_BITS) = 1
        BY <1>0, <2>6, <3>4
      <4> QED BY <1>0, <2>4, <2>6, <3>4, <4>1
    <3> QED BY <1>0, <2>6, <3>1, <3>2, <3>3, <3>4
  <2>8. \A i \in 1 .. EepromLength(cart, r) : Written(s)[i] = EepromItem(r, i)
    BY <1>4, <1>5, <2>4, <2>6, <2>7 DEF EepromItem, w, a
  <2> QED BY <1>4, <2>4, <2>5, <2>6, <2>8
<1>6. CASE r.do = "read"
  <2> DEFINE p == <<1, 1>> \o a
             s == p \o <<0>>
             n == DUMMIES + UNIT_BITS
             reads == [i \in 1 .. n |-> Rd(0)]
  <2>2. p \in Seq(Bits) /\ Len(p) = 2 + w
        /\ \A i \in 1 .. 2 + w : p[i] = IF i <= 2 THEN <<1, 1>>[i] ELSE a[i - 2]
    <3> HIDE DEF a
    <3> QED BY <1>0, <1>2, <1>3, ConcatProperties
  <2>3. s \in Seq(Bits) /\ Len(s) = 3 + w
        /\ \A i \in 1 .. 3 + w : s[i] = IF i <= 2 + w THEN p[i] ELSE <<0>>[i - (2 + w)]
    <3> HIDE DEF p
    <3> QED BY <1>0, <1>3, <2>2, ConcatProperties
  <2>4. reads \in Seq(BitAccesses) /\ Len(reads) = n /\ \A i \in 1 .. n : reads[i] = Rd(0)
    <3>1. n \in Nat /\ Rd(0) \in BitAccesses
      BY <1>0 DEF Rd, BitAccesses, Bits
    <3>2. reads \in [1 .. n -> BitAccesses]
      BY <3>1
    <3> QED BY <3>1, <3>2
  <2>5. EepromLine(cart, r) = Written(s) \o reads
    BY <1>6 DEF EepromLine
  <2>6. EepromLength(cart, r) = 3 + w + n
    BY <1>0, <1>6 DEF EepromLength
  <2>7. n \in Nat
    BY <1>0
  <2> HIDE DEF p, s, a, w, reads, n
  <2>8. \A i \in 1 .. 3 + w : s[i] = (IF i <= 2 THEN 1 ELSE IF i <= 2 + w THEN a[i - 2] ELSE 0)
    <3> TAKE i \in 1 .. 3 + w
    <3>1. CASE i <= 2
      BY <1>0, <2>2, <2>3, <3>1
    <3>2. CASE i > 2 /\ i <= 2 + w
      BY <1>0, <2>2, <2>3, <3>2
    <3>3. CASE i > 2 + w
      <4>1. i - (2 + w) = 1
        BY <1>0, <3>3
      <4> QED BY <1>0, <2>3, <3>3, <4>1
    <3> QED BY <1>0, <3>1, <3>2, <3>3
  <2> DEFINE t == Written(s)
  <2>9. t \in Seq(BitAccesses) /\ Len(t) = 3 + w /\ \A i \in 1 .. 3 + w : t[i] = Wr(s[i])
    BY <1>4, <2>3
  <2> HIDE DEF t
  <2>10. /\ t \o reads \in Seq(BitAccesses) /\ Len(t \o reads) = 3 + w + n
         /\ \A i \in 1 .. 3 + w + n : (t \o reads)[i] = IF i <= 3 + w THEN t[i] ELSE reads[i - (3 + w)]
    <3> DEFINE m == 3 + w
    <3>1. m \in Nat /\ Len(t) = m
      BY <1>0, <2>9
    <3> HIDE DEF m
    <3>2. /\ t \o reads \in Seq(BitAccesses) /\ Len(t \o reads) = Len(t) + Len(reads)
          /\ \A i \in 1 .. Len(t) + Len(reads) : (t \o reads)[i] = IF i <= Len(t) THEN t[i] ELSE reads[i - Len(t)]
      BY <2>4, <2>9, ConcatProperties
    <3>3. Len(t) = m /\ Len(reads) = n
      BY <2>4, <3>1
    <3> QED BY <3>2, <3>3 DEF m
  <2>11. ASSUME NEW i \in 1 .. EepromLength(cart, r)
         PROVE  (t \o reads)[i] = EepromItem(r, i)
    <3>1. CASE i <= 3 + w
      <4>1. (t \o reads)[i] = Wr(s[i])
        BY <1>0, <2>6, <2>7, <2>9, <2>10, <3>1
      <4>2. EepromItem(r, i) = Wr(s[i])
        BY <1>0, <1>6, <2>6, <2>7, <2>8, <3>1 DEF EepromItem, w, a
      <4> QED BY <4>1, <4>2
    <3>2. CASE ~ i <= 3 + w
      <4>1. i - (3 + w) \in 1 .. n /\ 3 + w + (i - (3 + w)) = i
        BY <1>0, <2>6, <2>7, <3>2
      <4>2. (t \o reads)[i] = Rd(0)
        BY <1>0, <2>4, <2>6, <2>7, <2>10, <3>2, <4>1
      <4> QED BY <1>0, <1>6, <3>2, <4>2 DEF EepromItem, w
    <3>3. i \in Int /\ 3 + w \in Int
      BY <1>0, <2>6, <2>7
    <3> HIDE DEF EepromItem
    <3> QED BY <3>1, <3>2, <3>3
  <2> QED BY <2>5, <2>6, <2>10, <2>11 DEF t
<1> QED BY <1>1, <1>5, <1>6

Units == [1 .. UNIT_BITS -> Bits]
Chip(c) == [data : [0 .. UNITS - 1 -> Units], addrBits : {0, c.width}, installed : {0, UnitsOf(c.width)},
         state : {"Idle", "ReceivingCommand", "ReceivingAddress", "ReceivingData", "ReceivingStopBit", "SendingData"},
         command : Bits, address : Nat, received : Nat, buffer : Seq(Bits), send : Seq(Bits)]

\* What the chip clocks out for a unit.
Sent(e, at) == [i \in 1 .. DUMMIES |-> 0] \o (IF at < UNITS THEN e.data[at] ELSE Ones)

\* The first k members of a sequence.
Upto(s, k) == [i \in 1 .. k |-> s[i]]

\* The address, as far as k of its bits say it.
HighPart(c, at, k) == at \div Pow2[c.width - k]

\* Where the chip is when k accesses of a write, or of a read, have been made.
WriteAt(c, e, r, k) ==
  LET w == c.width
  IN  /\ w = NARROW \/ e.addrBits = w
      /\ k = 0 => e.state = "Idle"
      /\ k = 1 => e.state = "ReceivingCommand"
      /\ k \in 2 .. 1 + w => e.state = "ReceivingAddress" /\ e.command = 0 /\ e.received = k - 2 /\ e.address = HighPart(c, r.at, k - 2)
      /\ k >= 2 + w => e.command = 0 /\ e.address = r.at
      /\ k \in 2 + w .. 1 + w + UNIT_BITS =>
           e.state = "ReceivingData" /\ e.received = k - 2 - w /\ e.buffer = [i \in 1 .. k - 2 - w |-> r.unit[i]]
      /\ k = 2 + w + UNIT_BITS => e.state = "ReceivingStopBit" /\ e.buffer = r.unit

ReadAt(c, e, r, k, g) ==
  LET w == c.width
  IN  /\ k = 0 => e.state = "Idle"
      /\ k = 1 => e.state = "ReceivingCommand"
      /\ k \in 2 .. 3 + w => e.state = "ReceivingAddress" /\ e.command = 1 /\ e.received = k - 2
                             /\ e.address = (IF k = 3 + w THEN 2 * r.at ELSE HighPart(c, r.at, k - 2))
      /\ k <= 3 + w => g = <<>>
      /\ k > 3 + w => e.state = "SendingData" /\ e.send = Rest(Sent(e, r.at), k - 3 - w)
                      /\ g = Upto(Sent(e, r.at), k - 3 - w)

\* A request is for a unit its address reaches.
LEMMA RequestAddress ==
  ASSUME WidthOK, NEW r \in EepromRequests(cart.width)
  PROVE  /\ r.at \in Nat /\ r.at < Pow2[cart.width] /\ r.do \in {"write", "read"}
         /\ r.do = "write" => r.unit \in Units
<1>1. cart.width \in Nat
  BY Widths
<1>2. Pow2[cart.width] \in Nat
  BY <1>1, Powers
<1> QED BY <1>2, CartridgeAssumption DEF EepromRequests, Units, Bits

\* The bits of an address, clocked in one by one, make the address.
LEMMA HighBits ==
  ASSUME WidthOK, NEW at \in Nat, at < Pow2[cart.width]
  PROVE  /\ HighPart(cart, at, 0) = 0 /\ HighPart(cart, at, cart.width) = at
         /\ \A k \in 0 .. cart.width - 1 :
              /\ HighPart(cart, at, k) \in Nat /\ Address(at, cart.width)[k + 1] \in Bits
              /\ 2 * HighPart(cart, at, k) + Address(at, cart.width)[k + 1] = HighPart(cart, at, k + 1)
<1> DEFINE w == cart.width
<1>1. w \in Nat /\ w > 0
  BY Widths
<1>2. HighPart(cart, at, 0) = 0
  <2>1. Pow2[w] \in Nat /\ Pow2[w] > 0 /\ w - 0 = w
    BY <1>1, Powers
  <2>2. at = Pow2[w] * 0 + at
    BY <2>1
  <2>3. at \div Pow2[w] = 0
    BY <2>1, <2>2, Quotient
  <2> QED BY <2>1, <2>3 DEF HighPart
<1>3. HighPart(cart, at, w) = at
  <2>1. w - w = 0 /\ Pow2[0] = 1
    BY <1>1, Powers
  <2> QED BY <2>1 DEF HighPart
<1>4. ASSUME NEW k \in 0 .. w - 1
      PROVE  /\ HighPart(cart, at, k) \in Nat /\ Address(at, w)[k + 1] \in Bits
             /\ 2 * HighPart(cart, at, k) + Address(at, w)[k + 1] = HighPart(cart, at, k + 1)
  <2> DEFINE n == w - (k + 1)
             b == Pow2[n]
  <2>1. n \in Nat /\ n + 1 = w - k
    BY <1>1, <1>4
  <2>2. b \in Nat /\ b > 0 /\ Pow2[w - k] = 2 * b
    <3>1. Pow2[n + 1] = 2 * Pow2[n] /\ Pow2[n] \in Nat /\ Pow2[n] > 0
      BY <2>1, Powers
    <3> QED BY <2>1, <3>1
  <2>3. Address(at, w)[k + 1] = (at \div b) % 2
    <3>1. k + 1 \in 1 .. w
      BY <1>1, <1>4
    <3>2. \A i \in 1 .. w : Address(at, w)[i] = (at \div Pow2[w - i]) % 2
      BY AddressBits
    <3> QED BY <3>1, <3>2
  <2>4. HighPart(cart, at, k) = at \div (2 * b) /\ HighPart(cart, at, k + 1) = at \div b
    BY <2>2 DEF HighPart
  <2> HIDE DEF b
  <2>5. 2 * (at \div (2 * b)) + ((at \div b) % 2) = at \div b /\ (at \div b) % 2 \in {0, 1}
    BY <2>2, NextBit
  <2>6. at \div (2 * b) \in Nat
    <3>1. 2 * b \in Nat /\ 2 * b > 0
      BY <2>2
    <3> QED BY <3>1, NextBit
  <2> QED BY <2>3, <2>4, <2>5, <2>6 DEF Bits
<1> QED BY <1>2, <1>3, <1>4

\* A write's next access.
LEMMA WriteStep ==
  ASSUME WidthOK, NEW r \in EepromRequests(cart.width), r.do = "write",
         NEW e \in Chip(cart), NEW k \in 0 .. EepromLength(cart, r) - 1, WriteAt(cart, e, r, k)
  PROVE  LET a == EepromItem(r, k + 1)
             n == EepromWrite(e, a.value)
         IN  /\ a.do = "write" /\ n \in Chip(cart)
             /\ k + 1 < EepromLength(cart, r) => WriteAt(cart, n, r, k + 1) /\ n.data = e.data
             /\ k + 1 = EepromLength(cart, r) =>
                  n.state = "Idle" /\ n.data = IF r.at < UNITS THEN [e.data EXCEPT ![r.at] = r.unit] ELSE e.data
<1> DEFINE w == cart.width
           a == EepromItem(r, k + 1)
           n == EepromWrite(e, a.value)
           bits == Address(r.at, w)
<1>0. w \in Nat /\ w > 0 /\ UNIT_BITS \in Nat /\ UNIT_BITS > 0 /\ UNITS \in Nat
  BY Widths
<1>1. r.at \in Nat /\ r.at < Pow2[w] /\ r.unit \in Units
  BY RequestAddress
<1>2. EepromLength(cart, r) = 3 + w + UNIT_BITS
  BY <1>0 DEF EepromLength
<1>3. k \in Nat /\ k <= 2 + w + UNIT_BITS
  BY <1>0, <1>2
<1>4. a = Wr(IF k = 0 THEN 1 ELSE IF k = 1 THEN 0 ELSE IF k <= 1 + w THEN bits[k - 1]
             ELSE IF k <= 1 + w + UNIT_BITS THEN r.unit[k - 1 - w] ELSE 0)
  <2>1. (k + 1) - 2 = k - 1 /\ (k + 1) - 2 - w = k - 1 - w
    BY <1>0, <1>3
  <2> HIDE DEF bits
  <2> QED BY <1>0, <1>3, <2>1 DEF EepromItem, bits
<1>5. /\ e.addrBits \in {0, w} /\ e.data \in [0 .. UNITS - 1 -> Units] /\ e.command \in Bits
      /\ e.address \in Nat /\ e.received \in Nat /\ e.buffer \in Seq(Bits)
  BY DEF Chip
<1>6. w = NARROW \/ e.addrBits = w
  BY DEF WriteAt
<1> HIDE DEF bits
<1>7. CASE k = 0
  <2>1. a = Wr(1) /\ a.value = 1 /\ a.do = "write"
    BY <1>4, <1>7 DEF Wr
  <2>2. e.state = "Idle"
    BY <1>7 DEF WriteAt
  <2>3. n = [e EXCEPT !.state = "ReceivingCommand", !.received = 0]
    BY <2>1, <2>2 DEF EepromWrite
  <2> HIDE DEF n, a
  <2>4. n \in Chip(cart) /\ n.data = e.data /\ n.state = "ReceivingCommand" /\ n.addrBits = e.addrBits
    BY <2>3 DEF Chip
  <2>5. WriteAt(cart, n, r, 1)
    BY <1>0, <1>6, <2>4 DEF WriteAt
  <2> QED BY <1>0, <1>2, <1>7, <2>1, <2>4, <2>5 DEF n, a
<1>8. CASE k = 1
  <2>1. a = Wr(0) /\ a.value = 0 /\ a.do = "write"
    BY <1>4, <1>8 DEF Wr
  <2>2. e.state = "ReceivingCommand"
    BY <1>8 DEF WriteAt
  <2>3. n = [e EXCEPT !.state = "ReceivingAddress", !.command = 0, !.address = 0, !.received = 0]
    BY <2>1, <2>2 DEF EepromWrite
  <2> HIDE DEF n, a
  <2>4. /\ n \in Chip(cart) /\ n.data = e.data /\ n.state = "ReceivingAddress" /\ n.addrBits = e.addrBits
        /\ n.command = 0 /\ n.received = 0 /\ n.address = 0
    BY <2>3 DEF Chip, Bits
  <2>5. HighPart(cart, r.at, 0) = 0
    BY <1>1, HighBits
  <2>6. WriteAt(cart, n, r, 2)
    BY <1>0, <1>6, <2>4, <2>5 DEF WriteAt
  <2> QED BY <1>0, <1>2, <1>8, <2>1, <2>4, <2>6 DEF n, a
<1>9. CASE k \in 2 .. 1 + w
  <2> DEFINE bit == bits[k - 1]
             v == 2 * HighPart(cart, r.at, k - 2) + bit
  <2>1. a = Wr(bit) /\ a.value = bit /\ a.do = "write"
    BY <1>4, <1>9 DEF Wr
  <2>2. /\ e.state = "ReceivingAddress" /\ e.command = 0 /\ e.received = k - 2 /\ e.address = HighPart(cart, r.at, k - 2)
    BY <1>9 DEF WriteAt
  <2>3. k - 2 \in 0 .. w - 1 /\ (k - 2) + 1 = k - 1 /\ k - 1 \in Nat
    BY <1>0, <1>9
  <2>4. v = HighPart(cart, r.at, k - 1) /\ bit \in Bits /\ v \in Nat
    <3>1. HighPart(cart, r.at, k - 2) \in Nat /\ bits[(k - 2) + 1] \in Bits
          /\ 2 * HighPart(cart, r.at, k - 2) + bits[(k - 2) + 1] = HighPart(cart, r.at, (k - 2) + 1)
      BY <1>1, <2>3, HighBits DEF bits
    <3>2. \A h \in Nat, b \in Bits : 2 * h + b \in Nat
      BY DEF Bits
    <3> QED BY <2>3, <3>1, <3>2
  <2> HIDE DEF bit, v
  <2> DEFINE known == [e EXCEPT !.address = v, !.received = k - 1, !.addrBits = w]
  <2>5. n = IF k - 1 = w THEN FinishAddressPhase(known) ELSE known
    <3>1. 2 * e.address + bit = v
      BY <2>2 DEF v
    <3>2. e.received + 1 = k - 1
      BY <2>2, <1>3
    <3> DEFINE more == [e EXCEPT !.address = 2 * @ + bit, !.received = @ + 1]
    <3>3. more = [e EXCEPT !.address = v, !.received = k - 1]
      BY <3>1, <3>2
    <3>4. more.command = 0 /\ more.addrBits = e.addrBits
      BY <2>2 DEF Chip
    <3>5. [more EXCEPT !.addrBits = IF @ = 0 THEN NARROW ELSE @] = known
      <4>1. (IF e.addrBits = 0 THEN NARROW ELSE e.addrBits) = w
        BY <1>0, <1>5, <1>6
      <4> HIDE DEF w
      <4> QED BY <3>3, <3>4, <4>1 DEF Chip
    <3>6. known.received = k - 1 /\ known.addrBits = w
      BY DEF Chip
    <3>7. n = AddressBit(e, bit)
      BY <2>1, <2>2 DEF EepromWrite
    <3> DEFINE next == [more EXCEPT !.addrBits = IF @ = 0 THEN NARROW ELSE @]
    <3>8. AddressBit(e, bit) = IF next.received = next.addrBits THEN FinishAddressPhase(next) ELSE next
      BY <2>2 DEF AddressBit
    <3> HIDE DEF next, known, n
    <3> QED BY <3>5, <3>6, <3>7, <3>8 DEF next
  <2>6. known \in Chip(cart) /\ known.data = e.data /\ known.state = "ReceivingAddress" /\ known.addrBits = w
        /\ known.command = 0 /\ known.received = k - 1 /\ known.address = v
    BY <2>2, <2>3, <2>4 DEF Chip
  <2> HIDE DEF known, n, a
  <2>7. CASE k - 1 = w
    <3>1. n = [known EXCEPT !.state = "ReceivingData", !.buffer = <<>>, !.received = 0]
      BY <2>5, <2>6, <2>7 DEF FinishAddressPhase
    <3>2. /\ n \in Chip(cart) /\ n.data = e.data /\ n.state = "ReceivingData" /\ n.addrBits = w
          /\ n.command = 0 /\ n.received = 0 /\ n.address = v /\ n.buffer = <<>>
      <4>1. <<>> \in Seq(Bits)
        OBVIOUS
      <4> QED BY <2>6, <3>1, <4>1 DEF Chip
    <3>3. v = r.at
      BY <1>1, <2>4, <2>7, HighBits
    <3>4. k + 1 = 2 + w /\ [i \in 1 .. (k + 1) - 2 - w |-> r.unit[i]] = <<>>
      <4>1. (k + 1) - 2 - w = 0
        BY <1>0, <2>7, <1>3
      <4>2. [i \in 1 .. 0 |-> r.unit[i]] = <<>>
        OBVIOUS
      <4> QED BY <1>0, <2>7, <1>3, <4>1, <4>2
    <3>5. WriteAt(cart, n, r, k + 1)
      BY <1>0, <3>2, <3>3, <3>4 DEF WriteAt
    <3> QED BY <1>0, <1>2, <2>1, <3>2, <3>4, <3>5 DEF n, a
  <2>8. CASE k - 1 # w
    <3>1. n = known /\ k + 1 \in 2 .. 1 + w /\ (k + 1) - 2 = k - 1
      BY <1>0, <1>9, <2>5, <2>8
    <3>2. WriteAt(cart, n, r, k + 1)
      BY <1>0, <2>4, <2>6, <3>1 DEF WriteAt
    <3> QED BY <1>0, <1>2, <2>1, <2>6, <3>1, <3>2 DEF n, a
  <2> QED BY <2>7, <2>8
<1>10. CASE k \in 2 + w .. 1 + w + UNIT_BITS
  <2> DEFINE j == k - 1 - w
             bit == r.unit[j]
             Part(x) == [i \in 1 .. x |-> r.unit[i]]
             part == Part(j)
  <2>1. j \in 1 .. UNIT_BITS /\ k - 2 - w = j - 1 /\ (k + 1) - 2 - w = j /\ j = k - 1 - w
    BY <1>0, <1>10
  <2> HIDE DEF j
  <2>2. bit \in Bits /\ part \in Seq(Bits) /\ (j = UNIT_BITS => part = r.unit)
    <3>1. bit \in Bits /\ (j = UNIT_BITS => part = r.unit)
      BY <1>0, <1>1, <2>1 DEF Units
    <3>2. part \in [1 .. j -> Bits] /\ j \in Nat
      BY <1>0, <1>1, <2>1 DEF Units
    <3> HIDE DEF part
    <3> QED BY <3>1, <3>2
  <2>3. a = Wr(bit) /\ a.value = bit /\ a.do = "write"
    BY <1>0, <1>4, <1>10, <2>1 DEF Wr
  <2>4. /\ e.state = "ReceivingData" /\ e.command = 0 /\ e.received = j - 1 /\ e.address = r.at
        /\ e.buffer = Part(j - 1)
    <3>1. /\ e.state = "ReceivingData" /\ e.command = 0 /\ e.received = k - 2 - w /\ e.address = r.at
          /\ e.buffer = Part(k - 2 - w)
      BY <1>0, <1>10 DEF WriteAt
    <3> HIDE DEF Part
    <3> QED BY <2>1, <3>1
  <2>5. Append(e.buffer, bit) = part
    BY <1>1, <2>1, <2>4 DEF Units
  <2> HIDE DEF bit, part
  <2>6. n = [e EXCEPT !.buffer = part, !.received = j, !.state = IF j = UNIT_BITS THEN "ReceivingStopBit" ELSE "ReceivingData"]
    <3>1. e.received + 1 = j
      BY <2>1, <2>4
    <3> QED BY <2>3, <2>4, <2>5, <3>1 DEF EepromWrite
  <2> HIDE DEF n, a
  <2>7. /\ n \in Chip(cart) /\ n.data = e.data /\ n.addrBits = e.addrBits /\ n.command = 0 /\ n.received = j
        /\ n.address = r.at /\ n.buffer = part /\ n.state = (IF j = UNIT_BITS THEN "ReceivingStopBit" ELSE "ReceivingData")
    <3>1. j \in Nat
      BY <1>0, <2>1
    <3> QED BY <2>2, <2>4, <2>6, <3>1 DEF Chip
  <2>8. CASE j = UNIT_BITS
    <3>1. k + 1 = 2 + w + UNIT_BITS
      BY <1>0, <2>1, <2>8, <1>10
    <3>2. WriteAt(cart, n, r, k + 1)
      BY <1>0, <1>6, <2>2, <2>7, <2>8, <3>1 DEF WriteAt
    <3> QED BY <1>0, <1>2, <2>3, <2>7, <3>1, <3>2 DEF n, a
  <2>9. CASE j # UNIT_BITS
    <3>1. k + 1 \in 2 + w .. 1 + w + UNIT_BITS
      BY <1>0, <2>1, <2>9, <1>10
    <3>2. WriteAt(cart, n, r, k + 1)
      BY <1>0, <1>6, <2>1, <2>7, <2>9, <3>1 DEF WriteAt, part, Part
    <3> QED BY <1>0, <1>2, <2>3, <2>7, <3>1, <3>2 DEF n, a
  <2> QED BY <2>8, <2>9
<1>11. CASE k = 2 + w + UNIT_BITS
  <2>1. a = Wr(0) /\ a.do = "write"
    BY <1>0, <1>4, <1>11 DEF Wr
  <2>2. e.state = "ReceivingStopBit" /\ e.command = 0 /\ e.address = r.at /\ e.buffer = r.unit
    BY <1>0, <1>11 DEF WriteAt
  <2>3. n = [ExecuteWrite(e) EXCEPT !.state = "Idle"]
    BY <2>2 DEF EepromWrite
  <2>4. CASE r.at < UNITS
    <3>1. ExecuteWrite(e) = [e EXCEPT !.data[r.at] = r.unit]
      BY <1>0, <1>1, <2>2, <2>4 DEF ExecuteWrite
    <3>2. n = [e EXCEPT !.data = [e.data EXCEPT ![r.at] = r.unit], !.state = "Idle"]
      BY <2>3, <3>1 DEF Chip
    <3>3. [e.data EXCEPT ![r.at] = r.unit] \in [0 .. UNITS - 1 -> Units]
      BY <1>0, <1>1, <1>5, <2>4
    <3>4. n \in Chip(cart) /\ n.state = "Idle" /\ n.data = [e.data EXCEPT ![r.at] = r.unit]
      BY <3>2, <3>3 DEF Chip
    <3> HIDE DEF n, a
    <3> QED BY <1>0, <1>2, <1>11, <2>1, <2>4, <3>4 DEF n, a
  <2>5. CASE ~ r.at < UNITS
    <3>1. ExecuteWrite(e) = e
      BY <1>0, <1>1, <2>2, <2>5 DEF ExecuteWrite
    <3>2. n \in Chip(cart) /\ n.state = "Idle" /\ n.data = e.data
      BY <2>3, <3>1 DEF Chip
    <3> HIDE DEF n, a
    <3> QED BY <1>0, <1>2, <1>11, <2>1, <2>5, <3>2 DEF n, a
  <2> QED BY <2>4, <2>5
<1>12. k = 0 \/ k = 1 \/ k \in 2 .. 1 + w \/ k \in 2 + w .. 1 + w + UNIT_BITS \/ k = 2 + w + UNIT_BITS
  BY <1>0, <1>3
<1> HIDE DEF n, a
<1> QED BY <1>7, <1>8, <1>9, <1>10, <1>11, <1>12 DEF n, a

\* The dummy bits, then the unit.
LEMMA SentIs ==
  ASSUME WidthOK, NEW e \in Chip(cart), NEW at \in Nat
  PROVE  /\ Sent(e, at) \in Seq(Bits) /\ Len(Sent(e, at)) = DUMMIES + UNIT_BITS
         /\ \A i \in 1 .. UNIT_BITS : Sent(e, at)[DUMMIES + i] = (IF at < UNITS THEN e.data[at] ELSE Ones)[i]
<1> DEFINE zeros == [i \in 1 .. DUMMIES |-> 0]
           bits == IF at < UNITS THEN e.data[at] ELSE Ones
<1>0. UNIT_BITS \in Nat /\ UNITS \in Nat /\ DUMMIES \in Nat
  BY Widths
<1>1. bits \in Units
  <2>1. Ones \in Units
    BY DEF Ones, Units, Bits
  <2>2. e.data \in [0 .. UNITS - 1 -> Units]
    BY DEF Chip
  <2> QED BY <1>0, <2>1, <2>2
<1> HIDE DEF bits
<1>2. bits \in Seq(Bits) /\ Len(bits) = UNIT_BITS
  BY <1>0, <1>1 DEF Units
<1>3. zeros \in Seq(Bits) /\ Len(zeros) = DUMMIES
  <2>1. zeros \in [1 .. DUMMIES -> Bits]
    BY DEF Bits
  <2> QED BY <1>0, <2>1
<1> HIDE DEF zeros
<1>4. /\ zeros \o bits \in Seq(Bits) /\ Len(zeros \o bits) = Len(zeros) + Len(bits)
      /\ \A i \in 1 .. Len(zeros) + Len(bits) : (zeros \o bits)[i] = IF i <= Len(zeros) THEN zeros[i] ELSE bits[i - Len(zeros)]
  BY <1>2, <1>3, ConcatProperties
<1>5. ASSUME NEW i \in 1 .. UNIT_BITS
      PROVE  (zeros \o bits)[DUMMIES + i] = bits[i]
  <2>1. DUMMIES + i \in 1 .. Len(zeros) + Len(bits) /\ ~ DUMMIES + i <= Len(zeros) /\ (DUMMIES + i) - Len(zeros) = i
    BY <1>0, <1>2, <1>3
  <2> QED BY <1>4, <2>1
<1>6. Sent(e, at) = zeros \o bits
  BY DEF Sent, zeros, bits
<1> QED BY <1>2, <1>3, <1>4, <1>5, <1>6 DEF bits

\* A bit of a unit being read.
Clocked(s) == [s EXCEPT !.send = Tail(@), !.state = IF Len(s.send) = 1 THEN "Idle" ELSE @]

\* The next bit goes out, and after the last one the chip is idle.
LEMMA BitSent ==
  ASSUME NEW S \in Seq(Bits), NEW j \in 0 .. Len(S) - 1, NEW s \in Chip(cart), s.send = Rest(S, j),
         NEW n, n = Clocked(s)
  PROVE  /\ n \in Chip(cart) /\ n.data = s.data /\ n.send = Rest(S, j + 1) /\ Head(s.send) = S[j + 1]
         /\ n.state = IF j + 1 = Len(S) THEN "Idle" ELSE s.state
<1>1. Len(S) \in Nat /\ j \in 0 .. Len(S)
  BY LenProperties
<1>2. /\ Len(Rest(S, j)) = Len(S) - j /\ Head(Rest(S, j)) = S[j + 1] /\ Tail(Rest(S, j)) = Rest(S, j + 1)
  BY <1>1, RestMoves
<1>3. j + 1 \in 0 .. Len(S)
  BY <1>1
<1>4. Rest(S, j + 1) \in Seq(Bits)
  BY <1>3, RestMoves
<1>5. Len(s.send) = 1 <=> j + 1 = Len(S)
  BY <1>1, <1>2
<1>6. n = [s EXCEPT !.send = Rest(S, j + 1), !.state = IF j + 1 = Len(S) THEN "Idle" ELSE s.state]
  BY <1>2, <1>5 DEF Clocked
<1>7. n \in Chip(cart) /\ n.data = s.data /\ n.send = Rest(S, j + 1) /\ n.state = IF j + 1 = Len(S) THEN "Idle" ELSE s.state
  BY <1>4, <1>6 DEF Chip
<1> QED BY <1>2, <1>7

\* What was heard so far, with the next bit of it.
LEMMA BitHeard ==
  ASSUME NEW S \in Seq(Bits), NEW j \in 0 .. Len(S) - 1
  PROVE  /\ Append(Upto(S, j), S[j + 1]) = Upto(S, j + 1)
         /\ j + 1 = Len(S) => Upto(S, j + 1) = S
<1>1. Len(S) \in Nat /\ j \in Nat /\ \A i \in 1 .. Len(S) : S[i] \in Bits
  BY LenProperties, ElementOfSeq
<1> DEFINE g == [i \in 1 .. j |-> S[i]]
           h == [i \in 1 .. j + 1 |-> S[i]]
<1>2. g \in Seq(Bits) /\ Len(g) = j /\ S[j + 1] \in Bits
  BY <1>1
<1>3. h \in Seq(Bits) /\ Len(h) = j + 1
  BY <1>1
<1>4. Append(g, S[j + 1]) = h
  BY <1>1
<1>5. ASSUME j + 1 = Len(S) PROVE h = S
  <2>1. \A i \in 1 .. Len(h) : h[i] = S[i]
    BY <1>1
  <2> HIDE DEF h
  <2> QED BY <1>3, <1>5, <2>1, SeqEqual
<1> QED BY <1>4, <1>5 DEF Upto

\* A read's next access.
LEMMA ReadStep ==
  ASSUME WidthOK, NEW r \in EepromRequests(cart.width), r.do = "read",
         NEW e \in Chip(cart), NEW k \in 0 .. EepromLength(cart, r) - 1, NEW g, ReadAt(cart, e, r, k, g)
  PROVE  LET a == EepromItem(r, k + 1)
             n == IF a.do = "write" THEN EepromWrite(e, a.value) ELSE EepromRead(e).chip
             h == IF a.do = "write" THEN g ELSE Append(g, EepromRead(e).bit)
         IN  /\ n \in Chip(cart) /\ n.data = e.data
             /\ k + 1 < EepromLength(cart, r) => ReadAt(cart, n, r, k + 1, h)
             /\ k + 1 = EepromLength(cart, r) => n.state = "Idle" /\ h = Sent(e, r.at)
<1> DEFINE w == cart.width
           a == EepromItem(r, k + 1)
           n == IF a.do = "write" THEN EepromWrite(e, a.value) ELSE EepromRead(e).chip
           h == IF a.do = "write" THEN g ELSE Append(g, EepromRead(e).bit)
           bits == Address(r.at, w)
           S == Sent(e, r.at)
<1>0. w \in Nat /\ w > 0 /\ UNIT_BITS \in Nat /\ UNIT_BITS > 0 /\ UNITS \in Nat /\ DUMMIES \in Nat
  BY Widths
<1>1. r.at \in Nat /\ r.at < Pow2[w]
  BY RequestAddress
<1>2. EepromLength(cart, r) = 3 + w + UNIT_BITS + DUMMIES
  BY <1>0 DEF EepromLength
<1>3. k \in Nat /\ k <= 2 + w + UNIT_BITS + DUMMIES
  BY <1>0, <1>2
<1>4. a = IF k > 2 + w THEN Rd(0) ELSE Wr(IF k <= 1 THEN 1 ELSE IF k <= 1 + w THEN bits[k - 1] ELSE 0)
  <2>1. (k + 1) - 2 = k - 1
    BY <1>0, <1>3
  <2> HIDE DEF bits
  <2> QED BY <1>0, <1>3, <2>1 DEF EepromItem, bits
<1>5. /\ e.addrBits \in {0, w} /\ e.data \in [0 .. UNITS - 1 -> Units] /\ e.command \in Bits
      /\ e.address \in Nat /\ e.received \in Nat /\ e.buffer \in Seq(Bits)
  BY DEF Chip
<1>6. S \in Seq(Bits) /\ Len(S) = DUMMIES + UNIT_BITS
  BY <1>1, SentIs
<1> HIDE DEF bits, S
<1>7. CASE k = 0
  <2>1. a = Wr(1) /\ a.value = 1 /\ a.do = "write"
    BY <1>0, <1>4, <1>7 DEF Wr
  <2>2. e.state = "Idle" /\ g = <<>>
    BY <1>0, <1>7 DEF ReadAt
  <2>3. n = [e EXCEPT !.state = "ReceivingCommand", !.received = 0] /\ h = g
    BY <2>1, <2>2 DEF EepromWrite
  <2> HIDE DEF n, a, h
  <2>4. n \in Chip(cart) /\ n.data = e.data /\ n.state = "ReceivingCommand"
    BY <2>3 DEF Chip
  <2>5. ReadAt(cart, n, r, 1, h)
    BY <1>0, <2>2, <2>3, <2>4 DEF ReadAt
  <2> QED BY <1>0, <1>2, <1>7, <2>4, <2>5 DEF n, a, h
<1>8. CASE k = 1
  <2>1. a = Wr(1) /\ a.value = 1 /\ a.do = "write"
    BY <1>0, <1>4, <1>8 DEF Wr
  <2>2. e.state = "ReceivingCommand" /\ g = <<>>
    BY <1>0, <1>8 DEF ReadAt
  <2>3. n = [e EXCEPT !.state = "ReceivingAddress", !.command = 1, !.address = 0, !.received = 0] /\ h = g
    BY <2>1, <2>2 DEF EepromWrite
  <2> HIDE DEF n, a, h
  <2>4. /\ n \in Chip(cart) /\ n.data = e.data /\ n.state = "ReceivingAddress" /\ n.command = 1 /\ n.received = 0 /\ n.address = 0
    BY <2>3 DEF Chip, Bits
  <2>5. HighPart(cart, r.at, 0) = 0
    BY <1>1, HighBits
  <2>6. ReadAt(cart, n, r, 2, h)
    BY <1>0, <2>2, <2>3, <2>4, <2>5 DEF ReadAt
  <2> QED BY <1>0, <1>2, <1>8, <2>4, <2>6 DEF n, a, h
<1>9. CASE k \in 2 .. 2 + w
  <2> DEFINE bit == IF k <= 1 + w THEN bits[k - 1] ELSE 0
             v == 2 * HighPart(cart, r.at, k - 2) + bit
  <2>1. a = Wr(bit) /\ a.value = bit /\ a.do = "write"
    BY <1>0, <1>4, <1>9 DEF Wr
  <2>2. /\ e.state = "ReceivingAddress" /\ e.command = 1 /\ e.received = k - 2 /\ e.address = HighPart(cart, r.at, k - 2) /\ g = <<>>
    BY <1>0, <1>9 DEF ReadAt
  <2>3. k - 2 \in 0 .. w /\ (k - 2) + 1 = k - 1 /\ k - 1 \in Nat
    BY <1>0, <1>9
  <2>4. v = (IF k + 1 = 3 + w THEN 2 * r.at ELSE HighPart(cart, r.at, k - 1)) /\ v \in Nat
    <3>1. CASE k <= 1 + w
      <4>1. HighPart(cart, r.at, k - 2) \in Nat /\ bits[(k - 2) + 1] \in Bits
            /\ 2 * HighPart(cart, r.at, k - 2) + bits[(k - 2) + 1] = HighPart(cart, r.at, (k - 2) + 1)
        <5>1. k - 2 \in 0 .. w - 1
          BY <1>0, <2>3, <3>1
        <5> QED BY <1>1, <5>1, HighBits DEF bits
      <4>2. \A x \in Nat, b \in Bits : 2 * x + b \in Nat
        BY DEF Bits
      <4>3. k + 1 # 3 + w
        BY <1>0, <1>3, <3>1
      <4> QED BY <2>3, <3>1, <4>1, <4>2, <4>3
    <3>2. CASE k = 2 + w
      <4>1. HighPart(cart, r.at, w) = r.at /\ k - 2 = w
        BY <1>0, <1>1, <3>2, HighBits
      <4> QED BY <1>0, <1>1, <3>2, <4>1
    <3> QED BY <1>0, <1>9, <3>1, <3>2
  <2> HIDE DEF bit, v
  <2>5. n = [e EXCEPT !.address = v, !.received = k - 1] /\ h = g
    <3>1. 2 * e.address + bit = v
      BY <2>2 DEF v
    <3>2. e.received + 1 = k - 1
      BY <2>2, <1>3
    <3> DEFINE more == [e EXCEPT !.address = 2 * @ + bit, !.received = @ + 1]
    <3>3. more = [e EXCEPT !.address = v, !.received = k - 1]
      BY <3>1, <3>2
    <3>4. more.received = k - 1 /\ ~ k - 1 > WIDE + 1
      <4>1. w <= WIDE /\ WIDE \in Nat
        BY CartridgeAssumption DEF WidthOK
      <4>2. ~ k - 1 > WIDE + 1
        BY <1>0, <1>9, <4>1
      <4> QED BY <3>3, <4>2 DEF Chip
    <3>5. n = AddressBit(e, bit) /\ h = g
      BY <2>1, <2>2 DEF EepromWrite
    <3>6. AddressBit(e, bit) = IF more.received > WIDE + 1 THEN Idle(more) ELSE more
      BY <2>2 DEF AddressBit
    <3> HIDE DEF more, n, h, a
    <3> QED BY <3>3, <3>4, <3>5, <3>6
  <2> HIDE DEF n, a, h
  <2>6. /\ n \in Chip(cart) /\ n.data = e.data /\ n.state = "ReceivingAddress" /\ n.command = 1
        /\ n.received = k - 1 /\ n.address = v
    BY <2>2, <2>3, <2>4, <2>5 DEF Chip
  <2>7. k + 1 \in 2 .. 3 + w /\ (k + 1) - 2 = k - 1
    BY <1>0, <1>9
  <2>8. ReadAt(cart, n, r, k + 1, h)
    BY <1>0, <2>2, <2>4, <2>5, <2>6, <2>7 DEF ReadAt
  <2> QED BY <1>0, <1>2, <1>9, <2>6, <2>8 DEF n, a, h
<1>10. CASE k > 2 + w
  <2> DEFINE j == k - 3 - w
             s == IF e.state = "ReceivingAddress" /\ e.command = 1 THEN SettleAddressWidth(e) ELSE e
             next == [s EXCEPT !.send = Tail(@), !.state = IF Len(s.send) = 1 THEN "Idle" ELSE @]
  <2>1. a.do = "read"
    BY <1>0, <1>4, <1>10 DEF Rd
  <2>2. j \in 0 .. Len(S) - 1 /\ (k + 1) - 3 - w = j + 1 /\ j = k - 3 - w
    BY <1>0, <1>2, <1>3, <1>6, <1>10
  <2>3. /\ s \in Chip(cart) /\ s.data = e.data /\ s.state = "SendingData" /\ s.send = Rest(S, j) /\ g = Upto(S, j)
    <3>1. CASE k = 3 + w
      <4>1. e.state = "ReceivingAddress" /\ e.command = 1 /\ e.received = w + 1 /\ e.address = 2 * r.at /\ g = <<>>
        BY <1>0, <3>1 DEF ReadAt
      <4>2. e.received - 1 = w /\ w \in {NARROW, WIDE} /\ (e.address \div 2) % Pow2[w] = r.at
        <5>1. e.received - 1 = w /\ w \in {NARROW, WIDE}
          BY <1>0, <4>1 DEF WidthOK
        <5>2. e.address \div 2 = r.at
          BY <1>1, <4>1
        <5>3. Pow2[w] \in Nat /\ Pow2[w] > 0
          BY <1>0, Powers
        <5>4. \A p \in Nat, x \in Nat : x < p => x % p = x
          OBVIOUS
        <5> QED BY <1>1, <5>1, <5>2, <5>3, <5>4
      <4> DEFINE known == [e EXCEPT !.addrBits = w, !.address = r.at]
      <4>3. known.command = 1 /\ known.address = r.at /\ known.data = e.data /\ known \in Chip(cart)
        BY <1>1, <4>1 DEF Chip
      <4>4. SettleAddressWidth(e) = FinishAddressPhase([e EXCEPT !.addrBits = w, !.address = (@ \div 2) % Pow2[w]])
        <5> HIDE DEF w
        <5> QED BY <4>2 DEF SettleAddressWidth
      <4>5. [e EXCEPT !.addrBits = w, !.address = (@ \div 2) % Pow2[w]] = known
        BY <4>2
      <4>6. s = FinishAddressPhase(known)
        BY <4>1, <4>4, <4>5
      <4> HIDE DEF known, s
      <4>7. FinishAddressPhase(known) = [known EXCEPT !.state = "SendingData", !.send = S]
        BY <4>3 DEF FinishAddressPhase, S, Sent
      <4>8. s \in Chip(cart) /\ s.data = e.data /\ s.state = "SendingData" /\ s.send = S
        BY <1>6, <4>3, <4>6, <4>7 DEF Chip
      <4>9. j = 0 /\ Rest(S, 0) = S
        <5>1. j = 0 /\ 0 \in 0 .. Len(S)
          BY <1>0, <1>6, <3>1
        <5> QED BY <1>6, <5>1, RestMoves
      <4>10. Upto(S, 0) = <<>>
        BY DEF Upto
      <4> QED BY <4>1, <4>8, <4>9, <4>10
    <3>2. CASE k > 3 + w
      <4>1. e.state = "SendingData" /\ e.send = Rest(S, j) /\ g = Upto(S, j)
        BY <1>0, <3>2 DEF ReadAt, S
      <4> QED BY <4>1
    <3> QED BY <1>0, <1>3, <1>10, <3>1, <3>2
  <2>4. EepromRead(e) = [chip |-> next, bit |-> Head(s.send)]
    BY <2>3 DEF EepromRead
  <2>5. n = next /\ h = Append(g, Head(s.send))
    BY <2>1, <2>4
  <2> HIDE DEF j, s, n, h, a
  <2>6. /\ n \in Chip(cart) /\ n.data = s.data /\ n.send = Rest(S, j + 1) /\ Head(s.send) = S[j + 1]
        /\ n.state = IF j + 1 = Len(S) THEN "Idle" ELSE s.state
    <3>1. n = Clocked(s)
      BY <2>5 DEF Clocked
    <3>2. s \in Chip(cart) /\ s.send = Rest(S, j) /\ S \in Seq(Bits) /\ j \in 0 .. Len(S) - 1
      BY <1>6, <2>2, <2>3
    <3>3. n \in Chip(cart) /\ n.data = s.data
      BY <3>1, <3>2, BitSent
    <3>4. n.send = Rest(S, j + 1)
      BY <3>1, <3>2, BitSent
    <3>5. Head(s.send) = S[j + 1]
      BY <3>1, <3>2, BitSent
    <3>6. n.state = IF j + 1 = Len(S) THEN "Idle" ELSE s.state
      BY <3>1, <3>2, BitSent
    <3> QED BY <3>3, <3>4, <3>5, <3>6
  <2>7. h = Upto(S, j + 1) /\ (j + 1 = Len(S) => h = S)
    <3>1. S \in Seq(Bits) /\ j \in 0 .. Len(S) - 1
      BY <1>6, <2>2
    <3>2. Append(Upto(S, j), S[j + 1]) = Upto(S, j + 1)
      BY <3>1, BitHeard
    <3>3. j + 1 = Len(S) => Upto(S, j + 1) = S
      BY <3>1, BitHeard
    <3>4. h = Append(Upto(S, j), S[j + 1])
      BY <2>3, <2>5, <2>6
    <3> QED BY <3>2, <3>3, <3>4
  <2>8. j + 1 = Len(S) <=> k + 1 = EepromLength(cart, r)
    <3>1. j = k - 3 - w /\ Len(S) = DUMMIES + UNIT_BITS
      BY <1>6, <2>2
    <3>2. k + 1 = EepromLength(cart, r) => j + 1 = Len(S)
      <4>1. k + 1 = 3 + w + UNIT_BITS + DUMMIES => (k - 3 - w) + 1 = DUMMIES + UNIT_BITS
        BY <1>0, <1>3
      <4> QED BY <1>2, <3>1, <4>1
    <3>3. j + 1 = Len(S) => k + 1 = EepromLength(cart, r)
      <4>1. (k - 3 - w) + 1 = DUMMIES + UNIT_BITS => k + 1 = 3 + w + UNIT_BITS + DUMMIES
        BY <1>0, <1>3
      <4> QED BY <1>2, <3>1, <4>1
    <3> QED BY <3>2, <3>3
  <2>9. ASSUME k + 1 < EepromLength(cart, r)
        PROVE  ReadAt(cart, n, r, k + 1, h)
    <3>1. n.state = "SendingData"
      BY <1>0, <1>2, <1>3, <2>3, <2>6, <2>8, <2>9
    <3>2. Sent(n, r.at) = S
      BY <2>3, <2>6 DEF Sent, S
    <3>3. k + 1 > 3 + w
      BY <1>0, <1>3, <1>10
    <3>4. n.send = Rest(Sent(n, r.at), (k + 1) - 3 - w) /\ h = Upto(Sent(n, r.at), (k + 1) - 3 - w)
      BY <2>2, <2>6, <2>7, <3>2
    <3> QED BY <1>0, <1>3, <3>1, <3>3, <3>4 DEF ReadAt
  <2> QED BY <1>0, <1>2, <1>3, <2>3, <2>6, <2>7, <2>8, <2>9 DEF n, a, h, S
<1> HIDE DEF n, a, h
<1>11. k = 0 \/ k = 1 \/ k \in 2 .. 2 + w \/ k > 2 + w
  BY <1>0, <1>3
<1> QED BY <1>7, <1>8, <1>9, <1>10, <1>11 DEF n, a, h

Bytes8 == SUBSET (0 .. 7)
Cells(c) == (0 .. c.banks - 1) \X c.offsets
FlashOK == cart.type = "flash" /\ cart.banks \in {1, 2} /\ cart.offsets \subseteq Nat /\ cart.offsets # {}
Commands == {None, EraseCommand, IdCommand, Program, SwitchBank}
FlashChip(c) == [data : [Cells(c) -> Bytes8], unlock : 0 .. 2, command : Commands, bank : 0 .. c.banks - 1]

ByteAccesses == [do : {"write", "read"}, value : Nat \cup [at : Nat, byte : Bytes8]]
Command(c) == Wr([at |-> First.at, byte |-> c])
BankWrite(r) == Wr([at |-> 0, byte |-> IF r.at[1] = 1 THEN {0} ELSE {}])
DataWrite(r) == Wr([at |-> r.at[2], byte |-> r.byte])
Erasing(r) == IF r.do = "eraseChip" THEN Command(EraseChip) ELSE Wr([at |-> r.at[2], byte |-> EraseSector])

\* What is left of an unlock sequence, its command c and what follows it.
Left(u, c, tail) ==
  (IF u = 0 THEN <<Wr(First), Wr(Second), c>> ELSE IF u = 1 THEN <<Wr(Second), c>> ELSE <<c>>) \o tail

\* A request without the choice of its bank.
Operation(r) ==
  CASE r.do = "program" -> Left(0, Command(Program), <<DataWrite(r)>>)
    [] r.do \in {"eraseSector", "eraseChip"} -> Left(0, Command(EraseCommand), Left(0, Erasing(r), <<>>))
    [] r.do = "read" -> <<Rd(r.at[2])>>
    [] r.do = "id" -> Left(0, Command(IdCommand), <<Rd(0), Rd(1)>> \o Left(0, Command(LeaveIdMode), <<>>))

Banked(c, r) == c.banks = 2 /\ r.do \in {"program", "eraseSector", "read"}

Quiet(f) == f.unlock = 0 /\ f.command = None
Unlocking(f, command, l, c, tail) == f.command = command /\ \E u \in 0 .. 2 : f.unlock = u /\ l = Left(u, c, tail)

\* Where the chip is when l is left of a request.
FlashAt(c, f, r, l, g) ==
  LET leave == Left(0, Command(LeaveIdMode), <<>>)
      id(n) == [id |-> <<c.banks, n>>]
  IN
  \/ Banked(c, r) /\ g = <<>> /\ Unlocking(f, None, l, Command(SwitchBank), <<BankWrite(r)>> \o Operation(r))
  \/ Banked(c, r) /\ g = <<>> /\ f.unlock = 0 /\ f.command = SwitchBank /\ l = <<BankWrite(r)>> \o Operation(r)
  \/ r.do = "program" /\ g = <<>> /\ f.bank = r.at[1] /\ Unlocking(f, None, l, Command(Program), <<DataWrite(r)>>)
  \/ r.do = "program" /\ g = <<>> /\ f.bank = r.at[1] /\ f.unlock = 0 /\ f.command = Program /\ l = <<DataWrite(r)>>
  \/ /\ r.do \in {"eraseSector", "eraseChip"} /\ g = <<>> /\ (r.do = "eraseSector" => f.bank = r.at[1])
     /\ \/ Unlocking(f, None, l, Command(EraseCommand), Left(0, Erasing(r), <<>>))
        \/ Unlocking(f, EraseCommand, l, Erasing(r), <<>>)
  \/ r.do = "read" /\ g = <<>> /\ f.bank = r.at[1] /\ Quiet(f) /\ l = <<Rd(r.at[2])>>
  \/ r.do = "id" /\ g = <<>> /\ Unlocking(f, None, l, Command(IdCommand), <<Rd(0), Rd(1)>> \o leave)
  \/ r.do = "id" /\ g = <<>> /\ f.unlock = 0 /\ f.command = IdCommand /\ l = <<Rd(0), Rd(1)>> \o leave
  \/ r.do = "id" /\ g = <<id(0)>> /\ f.unlock = 0 /\ f.command = IdCommand /\ l = <<Rd(1)>> \o leave
  \/ r.do = "id" /\ g = <<id(0), id(1)>> /\ Unlocking(f, IdCommand, l, Command(LeaveIdMode), <<>>)

\* The tail of a concatenation.
LEMMA Shift ==
  ASSUME NEW S, NEW p \in Seq(S), NEW q \in Seq(S), NEW s \in Seq(S), Len(p) = Len(q) + 1,
         \A i \in 1 .. Len(q) : p[i + 1] = q[i]
  PROVE  Tail(p \o s) = q \o s
<1>1. Len(p) \in Nat /\ Len(q) \in Nat /\ Len(s) \in Nat
  BY LenProperties
<1>2. /\ p \o s \in Seq(S) /\ Len(p \o s) = Len(p) + Len(s)
      /\ \A i \in 1 .. Len(p) + Len(s) : (p \o s)[i] = IF i <= Len(p) THEN p[i] ELSE s[i - Len(p)]
  BY ConcatProperties
<1>3. /\ q \o s \in Seq(S) /\ Len(q \o s) = Len(q) + Len(s)
      /\ \A i \in 1 .. Len(q) + Len(s) : (q \o s)[i] = IF i <= Len(q) THEN q[i] ELSE s[i - Len(q)]
  BY ConcatProperties
<1> DEFINE t == p \o s
           v == q \o s
<1> HIDE DEF t, v
<1>4. t \in Seq(S) /\ Len(t) = Len(p) + Len(s)
      /\ \A i \in 1 .. Len(p) + Len(s) : t[i] = IF i <= Len(p) THEN p[i] ELSE s[i - Len(p)]
  BY <1>2 DEF t
<1>5. v \in Seq(S) /\ Len(v) = Len(q) + Len(s)
      /\ \A i \in 1 .. Len(q) + Len(s) : v[i] = IF i <= Len(q) THEN q[i] ELSE s[i - Len(q)]
  BY <1>3 DEF v
<1>6. t # <<>>
  BY <1>1, <1>4, EmptySeq
<1>8. Tail(t) \in Seq(S) /\ Len(Tail(t)) = Len(t) - 1 /\ \A i \in 1 .. Len(Tail(t)) : Tail(t)[i] = t[i + 1]
  BY <1>4, <1>6, HeadTailProperties
<1>9. Len(Tail(t)) = Len(v)
  BY <1>1, <1>4, <1>5, <1>8
<1>10. ASSUME NEW i \in 1 .. Len(v) PROVE Tail(t)[i] = v[i]
  <2>1. Tail(t)[i] = t[i + 1] /\ i \in 1 .. Len(q) + Len(s) /\ i + 1 \in 1 .. Len(p) + Len(s)
    BY <1>1, <1>5, <1>8, <1>9
  <2>2. CASE i <= Len(q)
    BY <1>1, <1>4, <1>5, <2>1, <2>2
  <2>3. CASE ~ i <= Len(q)
    <3>1. (i + 1) - Len(p) = i - Len(q) /\ ~ i + 1 <= Len(p)
      BY <1>1, <2>1, <2>3
    <3> QED BY <1>4, <1>5, <2>1, <2>3, <3>1
  <2> QED BY <2>2, <2>3
<1>11. Tail(t) = v
  <2> DEFINE u == Tail(t)
  <2>1. u \in Seq(S) /\ Len(u) = Len(v) /\ \A i \in 1 .. Len(u) : u[i] = v[i]
    BY <1>8, <1>9, <1>10
  <2> HIDE DEF u
  <2>2. u = v
    BY <1>5, <2>1, SeqEqual
  <2> QED BY <2>2 DEF u
<1> QED BY <1>11 DEF t, v

\* The head of a concatenation.
LEMMA FrontOf ==
  ASSUME NEW S, NEW p \in Seq(S), NEW s \in Seq(S), Len(p) > 0
  PROVE  /\ p \o s \in Seq(S) /\ p \o s # <<>> /\ Len(p \o s) = Len(p) + Len(s) /\ Head(p \o s) = p[1]
<1>1. Len(p) \in Nat /\ Len(s) \in Nat
  BY LenProperties
<1>2. /\ p \o s \in Seq(S) /\ Len(p \o s) = Len(p) + Len(s)
      /\ \A i \in 1 .. Len(p) + Len(s) : (p \o s)[i] = IF i <= Len(p) THEN p[i] ELSE s[i - Len(p)]
  BY ConcatProperties
<1> DEFINE t == p \o s
<1> HIDE DEF t
<1>4. t \in Seq(S) /\ Len(t) = Len(p) + Len(s)
      /\ \A i \in 1 .. Len(p) + Len(s) : t[i] = IF i <= Len(p) THEN p[i] ELSE s[i - Len(p)]
  BY <1>2 DEF t
<1>6. t # <<>>
  BY <1>1, <1>4, EmptySeq
<1>7. Head(t) = t[1] /\ t[1] = p[1]
  BY <1>1, <1>4, <1>6
<1> QED BY <1>4, <1>6, <1>7 DEF t

\* One access before others.
LEMMA FrontOne ==
  ASSUME NEW S, NEW a \in S, NEW s \in Seq(S)
  PROVE  /\ <<a>> \o s \in Seq(S) /\ Len(<<a>> \o s) = 1 + Len(s)
         /\ Head(<<a>> \o s) = a /\ Tail(<<a>> \o s) = s
<1> DEFINE p == <<a>>
           q == <<>>
<1>1. p \in Seq(S) /\ q \in Seq(S) /\ Len(p) = 1 /\ Len(q) = 0 /\ p[1] = a
  OBVIOUS
<1>2. q \o s = s
  BY ConcatEmptySeq
<1>3. \A i \in 1 .. Len(q) : p[i + 1] = q[i]
  BY <1>1
<1>4. Len(p) = Len(q) + 1
  BY <1>1
<1> HIDE DEF p, q
<1>10. Len(p) > 0
  BY <1>1
<1>5. p \o s \in Seq(S)
  BY <1>1, ConcatProperties
<1>6. Len(p \o s) = Len(p) + Len(s)
  BY <1>1, <1>10, FrontOf
<1>7. Head(p \o s) = p[1]
  BY <1>1, FrontOf
<1>8. Tail(p \o s) = q \o s
  BY <1>1, <1>3, <1>4, Shift
<1> QED BY <1>1, <1>2, <1>5, <1>6, <1>7, <1>8 DEF p

\* Two accesses before others.
LEMMA FrontTwo ==
  ASSUME NEW S, NEW a \in S, NEW b \in S, NEW s \in Seq(S)
  PROVE  /\ <<a, b>> \o s \in Seq(S) /\ Len(<<a, b>> \o s) = 2 + Len(s)
         /\ Head(<<a, b>> \o s) = a /\ Tail(<<a, b>> \o s) = <<b>> \o s
<1> DEFINE p == <<a, b>>
           q == <<b>>
<1>1. p \in Seq(S) /\ q \in Seq(S) /\ Len(p) = 2 /\ Len(q) = 1 /\ p[1] = a
  OBVIOUS
<1>3. \A i \in 1 .. Len(q) : p[i + 1] = q[i]
  BY <1>1
<1>4. Len(p) = Len(q) + 1
  BY <1>1
<1> HIDE DEF p, q
<1>10. Len(p) > 0
  BY <1>1
<1>5. p \o s \in Seq(S)
  BY <1>1, ConcatProperties
<1>6. Len(p \o s) = Len(p) + Len(s)
  BY <1>1, <1>10, FrontOf
<1>7. Head(p \o s) = p[1]
  BY <1>1, FrontOf
<1>8. Tail(p \o s) = q \o s
  BY <1>1, <1>3, <1>4, Shift
<1> QED BY <1>1, <1>5, <1>6, <1>7, <1>8 DEF p, q

\* Three accesses before others.
LEMMA FrontThree ==
  ASSUME NEW S, NEW a \in S, NEW b \in S, NEW c \in S, NEW s \in Seq(S)
  PROVE  /\ <<a, b, c>> \o s \in Seq(S) /\ Len(<<a, b, c>> \o s) = 3 + Len(s)
         /\ Head(<<a, b, c>> \o s) = a /\ Tail(<<a, b, c>> \o s) = <<b, c>> \o s
<1> DEFINE p == <<a, b, c>>
           q == <<b, c>>
<1>1. p \in Seq(S) /\ q \in Seq(S) /\ Len(p) = 3 /\ Len(q) = 2 /\ p[1] = a
  OBVIOUS
<1>3. \A i \in 1 .. Len(q) : p[i + 1] = q[i]
  BY <1>1
<1>4. Len(p) = Len(q) + 1
  BY <1>1
<1> HIDE DEF p, q
<1>10. Len(p) > 0
  BY <1>1
<1>5. p \o s \in Seq(S)
  <2>1. p \in Seq(S)
    BY <1>1
  <2> QED BY <2>1, ConcatProperties
<1>6. Len(p \o s) = Len(p) + Len(s)
  <2>1. p \in Seq(S)
    BY <1>1
  <2> QED BY <2>1, ConcatProperties
<1>7. Head(p \o s) = p[1]
  BY <1>1, FrontOf
<1>8. Tail(p \o s) = q \o s
  BY <1>1, <1>3, <1>4, Shift
<1> QED BY <1>1, <1>5, <1>6, <1>7, <1>8 DEF p, q

\* An unlock sequence, an access on.
LEMMA LeftMoves ==
  ASSUME NEW u \in 0 .. 2, NEW c \in ByteAccesses, NEW tail \in Seq(ByteAccesses)
  PROVE  /\ Left(u, c, tail) \in Seq(ByteAccesses) /\ Len(Left(u, c, tail)) = 3 - u + Len(tail)
         /\ Head(Left(u, c, tail)) = (IF u = 0 THEN Wr(First) ELSE IF u = 1 THEN Wr(Second) ELSE c)
         /\ Tail(Left(u, c, tail)) = IF u < 2 THEN Left(u + 1, c, tail) ELSE tail
<1> DEFINE a == Wr(First)
           b == Wr(Second)
<1>1. a \in ByteAccesses /\ b \in ByteAccesses /\ Len(tail) \in Nat
  BY LenProperties DEF Wr, First, Second, ByteAccesses, Bytes8
<1> HIDE DEF a, b
<1>2. CASE u = 0
  <2>1. Left(u, c, tail) = <<a, b, c>> \o tail /\ Left(u + 1, c, tail) = <<b, c>> \o tail
    BY <1>2 DEF Left, a, b
  <2>2. /\ <<a, b, c>> \o tail \in Seq(ByteAccesses) /\ Len(<<a, b, c>> \o tail) = 3 + Len(tail)
        /\ Head(<<a, b, c>> \o tail) = a /\ Tail(<<a, b, c>> \o tail) = <<b, c>> \o tail
    BY <1>1, FrontThree
  <2> DEFINE x == <<a, b, c>> \o tail
             y == <<b, c>> \o tail
  <2> HIDE DEF x, y
  <2>3. Left(u, c, tail) = x /\ Left(u + 1, c, tail) = y
    BY <2>1 DEF x, y
  <2>4. x \in Seq(ByteAccesses) /\ Len(x) = 3 + Len(tail) /\ Head(x) = a /\ Tail(x) = y
    BY <2>2 DEF x, y
  <2>5. Left(u, c, tail) \in Seq(ByteAccesses)
    BY <2>3, <2>4
  <2>6. Len(Left(u, c, tail)) = 3 - u + Len(tail)
    <3>1. Len(Left(u, c, tail)) = 3 + Len(tail)
      BY <2>3, <2>4
    <3> QED BY <1>1, <1>2, <3>1
  <2>7. Head(Left(u, c, tail)) = (IF u = 0 THEN Wr(First) ELSE IF u = 1 THEN Wr(Second) ELSE c)
    BY <1>2, <2>3, <2>4 DEF a
  <2>8. Tail(Left(u, c, tail)) = IF u < 2 THEN Left(u + 1, c, tail) ELSE tail
    BY <1>2, <2>3, <2>4
  <2> QED BY <2>5, <2>6, <2>7, <2>8
<1>3. CASE u = 1
  <2>1. Left(u, c, tail) = <<b, c>> \o tail /\ Left(u + 1, c, tail) = <<c>> \o tail
    BY <1>3 DEF Left, a, b
  <2>2. /\ <<b, c>> \o tail \in Seq(ByteAccesses) /\ Len(<<b, c>> \o tail) = 2 + Len(tail)
        /\ Head(<<b, c>> \o tail) = b /\ Tail(<<b, c>> \o tail) = <<c>> \o tail
    BY <1>1, FrontTwo
  <2> DEFINE x == <<b, c>> \o tail
             y == <<c>> \o tail
  <2> HIDE DEF x, y
  <2>3. Left(u, c, tail) = x /\ Left(u + 1, c, tail) = y
    BY <2>1 DEF x, y
  <2>4. x \in Seq(ByteAccesses) /\ Len(x) = 2 + Len(tail) /\ Head(x) = b /\ Tail(x) = y
    BY <2>2 DEF x, y
  <2>5. Left(u, c, tail) \in Seq(ByteAccesses)
    BY <2>3, <2>4
  <2>6. Len(Left(u, c, tail)) = 3 - u + Len(tail)
    <3>1. Len(Left(u, c, tail)) = 2 + Len(tail)
      BY <2>3, <2>4
    <3> QED BY <1>1, <1>3, <3>1
  <2>7. Head(Left(u, c, tail)) = (IF u = 0 THEN Wr(First) ELSE IF u = 1 THEN Wr(Second) ELSE c)
    BY <1>3, <2>3, <2>4 DEF b
  <2>8. Tail(Left(u, c, tail)) = IF u < 2 THEN Left(u + 1, c, tail) ELSE tail
    BY <1>3, <2>3, <2>4
  <2> QED BY <2>5, <2>6, <2>7, <2>8
<1>4. CASE u = 2
  <2>1. Left(u, c, tail) = <<c>> \o tail
    BY <1>4 DEF Left
  <2>2. /\ <<c>> \o tail \in Seq(ByteAccesses) /\ Len(<<c>> \o tail) = 1 + Len(tail)
        /\ Head(<<c>> \o tail) = c /\ Tail(<<c>> \o tail) = tail
    BY <1>1, FrontOne
  <2> DEFINE x == <<c>> \o tail
  <2> HIDE DEF x
  <2>3. Left(u, c, tail) = x
    BY <2>1 DEF x
  <2>4. x \in Seq(ByteAccesses) /\ Len(x) = 1 + Len(tail) /\ Head(x) = c /\ Tail(x) = tail
    BY <2>2 DEF x
  <2>5. Left(u, c, tail) \in Seq(ByteAccesses)
    BY <2>3, <2>4
  <2>6. Len(Left(u, c, tail)) = 3 - u + Len(tail)
    <3>1. Len(Left(u, c, tail)) = 1 + Len(tail)
      BY <2>3, <2>4
    <3> QED BY <1>1, <1>4, <3>1
  <2>7. Head(Left(u, c, tail)) = (IF u = 0 THEN Wr(First) ELSE IF u = 1 THEN Wr(Second) ELSE c)
    BY <1>4, <2>3, <2>4
  <2>8. Tail(Left(u, c, tail)) = IF u < 2 THEN Left(u + 1, c, tail) ELSE tail
    BY <1>4, <2>3, <2>4
  <2> QED BY <2>5, <2>6, <2>7, <2>8
<1> QED BY <1>2, <1>3, <1>4

-----------------------------------------------------------------------------
\* No two commands are the same byte.
LEMMA CommandsDiffer ==
  /\ None # EraseCommand /\ None # IdCommand /\ None # Program /\ None # SwitchBank
  /\ EraseCommand # IdCommand /\ EraseCommand # Program /\ EraseCommand # SwitchBank
  /\ IdCommand # Program /\ IdCommand # SwitchBank /\ Program # SwitchBank /\ EraseChip # EraseSector
  /\ First # Second
<1>1. None # EraseCommand /\ None # IdCommand /\ None # Program /\ None # SwitchBank
  BY DEF None, EraseCommand, IdCommand, Program, SwitchBank
<1>2. 4 \notin EraseCommand /\ 5 \notin EraseCommand /\ 4 \in IdCommand /\ 5 \notin IdCommand /\ 5 \in Program /\ 4 \notin Program
      /\ 4 \in SwitchBank /\ 5 \in SwitchBank /\ 5 \notin EraseChip /\ 5 \in EraseSector
  BY DEF EraseCommand, IdCommand, Program, SwitchBank, EraseChip, EraseSector
<1>3. First.at # Second.at
  BY DEF First, Second
<1> QED BY <1>1, <1>2, <1>3

\* The banks of a chip.
LEMMA BanksCounted ==
  ASSUME FlashOK, NEW f \in FlashChip(cart)
  PROVE  Cardinality(Banks(f)) = cart.banks
<1>1. DOMAIN f.data = Cells(cart)
  BY DEF FlashChip
<1>2. PICK o \in cart.offsets : TRUE
  BY DEF FlashOK
<1>3. Banks(f) = 0 .. cart.banks - 1
  <2>1. \A b \in 0 .. cart.banks - 1 : <<b, o>> \in Cells(cart) /\ <<b, o>>[1] = b
    BY DEF Cells
  <2>2. \A c \in Cells(cart) : c[1] \in 0 .. cart.banks - 1
    BY DEF Cells
  <2> QED BY <1>1, <2>1, <2>2 DEF Banks
<1>4. cart.banks \in Nat /\ cart.banks > 0
  BY DEF FlashOK
<1>5. Cardinality(0 .. cart.banks - 1) = (cart.banks - 1) - 0 + 1
  BY <1>4, FS_Interval
<1> QED BY <1>3, <1>4, <1>5

\* More than one access is left.
LEMMA NotLast ==
  ASSUME NEW S, NEW s \in Seq(S), NEW n, n > 1 + Len(s)
  PROVE  n # 1
<1>1. Len(s) \in Nat
  BY LenProperties
<1> QED BY <1>1

\* A write of an unlock sequence, or the command at its end.
LEMMA UnlockStep ==
  ASSUME NEW f \in FlashChip(cart), NEW command \in {None, EraseCommand, IdCommand},
         NEW c \in ByteAccesses, c.do = "write", NEW tail \in Seq(ByteAccesses), NEW l,
         Unlocking(f, command, l, c, tail)
  PROVE  /\ Head(l).do = "write"
         /\ \/ LET n == FlashWrite(f, Head(l).value)
               IN  /\ n \in FlashChip(cart) /\ n.data = f.data /\ n.bank = f.bank
                   /\ Unlocking(n, command, Tail(l), c, tail) /\ Len(l) > 1 + Len(tail)
            \/ /\ FlashWrite(f, Head(l).value) = RunCommand([f EXCEPT !.unlock = 0], c.value)
               /\ Tail(l) = tail /\ Len(l) = 1 + Len(tail)
<1>1. PICK u \in 0 .. 2 : f.unlock = u /\ l = Left(u, c, tail)
  BY DEF Unlocking
<1>2. /\ Head(l) = (IF u = 0 THEN Wr(First) ELSE IF u = 1 THEN Wr(Second) ELSE c)
      /\ Tail(l) = (IF u < 2 THEN Left(u + 1, c, tail) ELSE tail)
      /\ Len(l) = 3 - u + Len(tail)
  BY <1>1, LeftMoves
<1>3. f.command = command /\ command # Program /\ command # SwitchBank /\ Len(tail) \in Nat
  BY CommandsDiffer, LenProperties DEF Unlocking
<1>4. CASE u = 0
  <2> DEFINE n == [f EXCEPT !.unlock = 1]
  <2>1. Head(l).do = "write" /\ Head(l).value = First /\ Tail(l) = Left(1, c, tail) /\ Len(l) > 1 + Len(tail)
    BY <1>2, <1>3, <1>4 DEF Wr
  <2>2. FlashWrite(f, First) = n
    BY <1>1, <1>3, <1>4 DEF FlashWrite
  <2>3. n \in FlashChip(cart) /\ n.data = f.data /\ n.bank = f.bank /\ n.command = f.command /\ n.unlock = 1
    BY DEF FlashChip
  <2> HIDE DEF n
  <2>4. Unlocking(n, command, Tail(l), c, tail)
    BY <1>3, <2>1, <2>3 DEF Unlocking
  <2> QED BY <2>1, <2>2, <2>3, <2>4
<1>5. CASE u = 1
  <2> DEFINE n == [f EXCEPT !.unlock = 2]
  <2>1. Head(l).do = "write" /\ Head(l).value = Second /\ Tail(l) = Left(2, c, tail) /\ Len(l) > 1 + Len(tail)
    BY <1>2, <1>3, <1>5 DEF Wr
  <2>2. FlashWrite(f, Second) = n
    BY <1>1, <1>3, <1>5 DEF FlashWrite
  <2>3. n \in FlashChip(cart) /\ n.data = f.data /\ n.bank = f.bank /\ n.command = f.command /\ n.unlock = 2
    BY DEF FlashChip
  <2> HIDE DEF n
  <2>4. Unlocking(n, command, Tail(l), c, tail)
    BY <1>3, <2>1, <2>3 DEF Unlocking
  <2> QED BY <2>1, <2>2, <2>3, <2>4
<1>6. CASE u = 2
  <2>1. Head(l) = c /\ Tail(l) = tail /\ Len(l) = 1 + Len(tail)
    BY <1>2, <1>3, <1>6
  <2>2. FlashWrite(f, c.value) = RunCommand([f EXCEPT !.unlock = 0], c.value)
    BY <1>1, <1>3, <1>6 DEF FlashWrite
  <2> QED BY <2>1, <2>2
<1> QED BY <1>4, <1>5, <1>6

\* A command given to a chip with none under way.
LEMMA CommandTaken ==
  ASSUME FlashOK, NEW f \in FlashChip(cart), f.command = None,
         NEW command \in {EraseCommand, IdCommand, Program, SwitchBank}, command = SwitchBank => cart.banks = 2
  PROVE  LET n == RunCommand([f EXCEPT !.unlock = 0], Command(command).value)
         IN  n \in FlashChip(cart) /\ n.data = f.data /\ n.bank = f.bank /\ n.unlock = 0 /\ n.command = command
<1> DEFINE g == [f EXCEPT !.unlock = 0]
           w == [at |-> First.at, byte |-> command]
           n == RunCommand(g, w)
<1>1. g \in FlashChip(cart) /\ g.data = f.data /\ g.bank = f.bank /\ g.unlock = 0 /\ g.command = None
  BY DEF FlashChip
<1>2. Command(command).value = w /\ w.at = First.at /\ w.byte = command
  BY DEF Command, Wr
<1> HIDE DEF g, w
<1>3. Cardinality(Banks(g)) = cart.banks
  BY <1>1, BanksCounted
<1>4. n = [g EXCEPT !.command = command]
  <2>1. g.command # EraseCommand /\ g.command # IdCommand
    BY <1>1, CommandsDiffer
  <2>2. ~ (w.byte = SwitchBank /\ Cardinality(Banks(g)) = 1)
    BY <1>2, <1>3
  <2> QED BY <1>2, <2>1, <2>2 DEF RunCommand
<1> HIDE DEF n
<1>5. n \in FlashChip(cart) /\ n.data = f.data /\ n.bank = f.bank /\ n.unlock = 0 /\ n.command = command
  BY <1>1, <1>4 DEF FlashChip, Commands
<1> QED BY <1>2, <1>5 DEF n, g

\* What follows an erase command.
LEMMA ErasesWhatWasAsked ==
  ASSUME FlashOK, NEW r \in FlashRequests(cart), r.do \in {"eraseSector", "eraseChip"},
         NEW f \in FlashChip(cart), f.command = EraseCommand, r.do = "eraseSector" => f.bank = r.at[1]
  PROVE  LET n == RunCommand([f EXCEPT !.unlock = 0], Erasing(r).value)
         IN  n \in FlashChip(cart) /\ n.data = Applied(cart, f.data, r) /\ Quiet(n)
<1> DEFINE g == [f EXCEPT !.unlock = 0]
           w == Erasing(r).value
           n == RunCommand(g, w)
           erased(c) == \/ w.at = First.at /\ w.byte = EraseChip
                        \/ w.byte = EraseSector /\ c[1] = f.bank /\ SectorOf(c[2]) = SectorOf(w.at)
           data == [c \in DOMAIN f.data |-> IF erased(c) THEN Erased ELSE f.data[c]]
<1>1. g \in FlashChip(cart) /\ g.data = f.data /\ g.bank = f.bank /\ g.unlock = 0 /\ g.command = EraseCommand
  BY DEF FlashChip
<1>2. n = [g EXCEPT !.command = None, !.data = data]
  <2> DEFINE other == [c \in DOMAIN g.data |->
                        IF \/ w.at = First.at /\ w.byte = EraseChip
                           \/ w.byte = EraseSector /\ c[1] = g.bank /\ SectorOf(c[2]) = SectorOf(w.at)
                        THEN Erased ELSE g.data[c]]
  <2>1. other = data
    <3> HIDE DEF g, w
    <3> QED BY <1>1
  <2>2. n = [g EXCEPT !.command = None, !.data = other]
    <3> HIDE DEF g, w
    <3>1. g.command = EraseCommand /\ g.command # IdCommand
      BY <1>1, CommandsDiffer
    <3> QED BY <3>1 DEF RunCommand
  <2> HIDE DEF other, data, n, g, w
  <2> QED BY <2>1, <2>2
<1>3. data \in [Cells(cart) -> Bytes8]
  <2>1. f.data \in [Cells(cart) -> Bytes8] /\ Erased \in Bytes8
    BY DEF FlashChip, Erased, Bytes8
  <2> QED BY <2>1
<1>4. data = Applied(cart, f.data, r)
  <2>1. CASE r.do = "eraseChip"
    <3>1. w.at = First.at /\ w.byte = EraseChip
      BY <2>1 DEF Erasing, Command, Wr
    <3>2. data = [c \in DOMAIN f.data |-> Erased]
      BY <3>1
    <3> QED BY <2>1, <3>2 DEF Applied
  <2>2. CASE r.do = "eraseSector"
    <3>1. w.at = r.at[2] /\ w.byte = EraseSector /\ w.byte # EraseChip
      BY <2>2, CommandsDiffer DEF Erasing, Wr
    <3>2. data = [x \in DOMAIN f.data |-> IF x[1] = r.at[1] /\ SectorOf(x[2]) = SectorOf(r.at[2]) THEN Erased ELSE f.data[x]]
      <4> HIDE DEF w
      <4> QED BY <2>2, <3>1
    <3> QED BY <2>2, <3>2 DEF Applied
  <2> QED BY <2>1, <2>2
<1> HIDE DEF n, g, w, data
<1>5. n \in FlashChip(cart) /\ n.data = data /\ n.unlock = 0 /\ n.command = None
  BY <1>1, <1>2, <1>3 DEF FlashChip, Commands
<1> QED BY <1>4, <1>5 DEF n, g, w, Quiet

\* What a request to a flash chip names, and the writes it is made of.
LEMMA RequestCell ==
  ASSUME FlashOK, NEW r \in FlashRequests(cart)
  PROVE  /\ r.do \in {"program", "eraseSector", "read", "eraseChip", "id"}
         /\ r.do \in {"program", "eraseSector", "read"} =>
              /\ r.at \in Cells(cart) /\ r.at = <<r.at[1], r.at[2]>> /\ r.at[1] \in 0 .. cart.banks - 1 /\ r.at[2] \in Nat
              /\ BankWrite(r) \in ByteAccesses /\ BankWrite(r).do = "write"
         /\ r.do = "program" => r.byte \in Bytes8 /\ DataWrite(r) \in ByteAccesses
         /\ r.do \in {"eraseSector", "eraseChip"} => Erasing(r) \in ByteAccesses /\ Erasing(r).do = "write"
<1>1. /\ r.do \in {"program", "eraseSector", "read", "eraseChip", "id"}
      /\ r.do \in {"program", "eraseSector", "read"} => r.at \in Cells(cart)
      /\ r.do = "program" => r.byte \in ByteValues
  BY DEF FlashRequests, Cells
<1>2. ASSUME r.do \in {"program", "eraseSector", "read"}
      PROVE  /\ r.at \in Cells(cart) /\ r.at = <<r.at[1], r.at[2]>> /\ r.at[1] \in 0 .. cart.banks - 1 /\ r.at[2] \in Nat
             /\ BankWrite(r) \in ByteAccesses /\ BankWrite(r).do = "write"
  <2>1. r.at \in Cells(cart)
    BY <1>1, <1>2
  <2>2. r.at = <<r.at[1], r.at[2]>> /\ r.at[1] \in 0 .. cart.banks - 1 /\ r.at[2] \in cart.offsets
    BY <2>1 DEF Cells
  <2>3. BankWrite(r) \in ByteAccesses /\ BankWrite(r).do = "write"
    BY DEF BankWrite, Wr, ByteAccesses, Bytes8
  <2> QED BY <2>1, <2>2, <2>3 DEF FlashOK
<1>3. ASSUME r.do = "program" PROVE r.byte \in Bytes8 /\ DataWrite(r) \in ByteAccesses
  <2>1. r.byte \in Bytes8
    BY <1>1, <1>3, CartridgeAssumption DEF Bytes8
  <2>2. r.at[2] \in Nat
    BY <1>2, <1>3
  <2> QED BY <2>1, <2>2 DEF DataWrite, Wr, ByteAccesses
<1>4. ASSUME r.do \in {"eraseSector", "eraseChip"} PROVE Erasing(r) \in ByteAccesses /\ Erasing(r).do = "write"
  <2>1. CASE r.do = "eraseChip"
    BY <2>1 DEF Erasing, Command, Wr, ByteAccesses, Bytes8, EraseChip, First
  <2>2. CASE r.do = "eraseSector"
    <3>1. r.at[2] \in Nat
      BY <1>2, <2>2
    <3> QED BY <2>2, <3>1 DEF Erasing, Wr, ByteAccesses, Bytes8, EraseSector
  <2> QED BY <1>4, <2>1, <2>2
<1> QED BY <1>1, <1>2, <1>3, <1>4

Commanded == {EraseCommand, IdCommand, Program, SwitchBank, LeaveIdMode, EraseChip}

\* Every command is a write.
LEMMA CommandWrites ==
  \A c \in Commanded : Command(c) \in ByteAccesses /\ Command(c).do = "write"
BY DEF Commanded, Command, Wr, ByteAccesses, Bytes8, First, EraseCommand, IdCommand, Program, SwitchBank, LeaveIdMode, EraseChip

Leave == Left(0, Command(LeaveIdMode), <<>>)

\* The accesses of a request, and how many they are.
LEMMA OperationParts ==
  ASSUME FlashOK, NEW r \in FlashRequests(cart)
  PROVE  /\ Operation(r) \in Seq(ByteAccesses) /\ Len(Operation(r)) > 0
         /\ Leave \in Seq(ByteAccesses) /\ Len(Leave) = 3
         /\ Rd(0) \in ByteAccesses /\ Rd(1) \in ByteAccesses
         /\ r.do \in {"eraseSector", "eraseChip"} =>
              Left(0, Erasing(r), <<>>) \in Seq(ByteAccesses) /\ Len(Left(0, Erasing(r), <<>>)) = 3
         /\ r.do = "program" => <<DataWrite(r)>> \in Seq(ByteAccesses) /\ Len(<<DataWrite(r)>>) = 1
<1>1. <<>> \in Seq(ByteAccesses) /\ Len(<<>>) = 0 /\ 0 \in 0 .. 2
  OBVIOUS
<1>2. Command(LeaveIdMode) \in ByteAccesses /\ Command(IdCommand) \in ByteAccesses
      /\ Command(Program) \in ByteAccesses /\ Command(EraseCommand) \in ByteAccesses
  BY CommandWrites DEF Commanded
<1>3. Leave \in Seq(ByteAccesses) /\ Len(Leave) = 3
  <2>1. Left(0, Command(LeaveIdMode), <<>>) \in Seq(ByteAccesses)
    BY <1>1, <1>2, LeftMoves
  <2>2. Len(Left(0, Command(LeaveIdMode), <<>>)) = 3 - 0 + Len(<<>>)
    BY <1>1, <1>2, LeftMoves
  <2> QED BY <1>1, <2>1, <2>2 DEF Leave
<1>4. Rd(0) \in ByteAccesses /\ Rd(1) \in ByteAccesses
  BY DEF Rd, ByteAccesses
<1>5. ASSUME r.do \in {"eraseSector", "eraseChip"}
      PROVE  Left(0, Erasing(r), <<>>) \in Seq(ByteAccesses) /\ Len(Left(0, Erasing(r), <<>>)) = 3
  <2>1. Erasing(r) \in ByteAccesses
    BY <1>5, RequestCell
  <2>2. Left(0, Erasing(r), <<>>) \in Seq(ByteAccesses)
    BY <1>1, <2>1, LeftMoves
  <2>3. Len(Left(0, Erasing(r), <<>>)) = 3 - 0 + Len(<<>>)
    BY <1>1, <2>1, LeftMoves
  <2> QED BY <1>1, <2>2, <2>3
<1>6. ASSUME r.do = "program" PROVE <<DataWrite(r)>> \in Seq(ByteAccesses) /\ Len(<<DataWrite(r)>>) = 1
  <2>1. DataWrite(r) \in ByteAccesses
    BY <1>6, RequestCell
  <2> QED BY <2>1
<1>7. Operation(r) \in Seq(ByteAccesses) /\ Len(Operation(r)) > 0
  <2>a. ASSUME NEW c \in ByteAccesses, NEW tail \in Seq(ByteAccesses)
        PROVE  Left(0, c, tail) \in Seq(ByteAccesses) /\ Len(Left(0, c, tail)) > 0
    <3>1. Left(0, c, tail) \in Seq(ByteAccesses)
      BY <1>1, LeftMoves
    <3>2. Len(Left(0, c, tail)) = 3 - 0 + Len(tail)
      BY <1>1, LeftMoves
    <3>3. Len(tail) \in Nat
      BY LenProperties
    <3> QED BY <3>1, <3>2, <3>3
  <2>1. CASE r.do = "program"
    <3>1. Operation(r) = Left(0, Command(Program), <<DataWrite(r)>>)
      BY <2>1 DEF Operation
    <3> QED BY <1>2, <1>6, <2>a, <2>1, <3>1
  <2>2. CASE r.do \in {"eraseSector", "eraseChip"}
    <3>1. Operation(r) = Left(0, Command(EraseCommand), Left(0, Erasing(r), <<>>))
      BY <2>2 DEF Operation
    <3> QED BY <1>2, <1>5, <2>a, <2>2, <3>1
  <2>3. CASE r.do = "read"
    <3>1. Operation(r) = <<Rd(r.at[2])>>
      BY <2>3 DEF Operation
    <3>2. Rd(r.at[2]) \in ByteAccesses
      BY <2>3, RequestCell DEF Rd, ByteAccesses
    <3> QED BY <3>1, <3>2
  <2>4. CASE r.do = "id"
    <3> DEFINE reads == <<Rd(0), Rd(1)>> \o Leave
    <3>1. Operation(r) = Left(0, Command(IdCommand), reads)
      BY <2>4 DEF Operation, Leave
    <3>2. reads \in Seq(ByteAccesses)
      BY <1>3, <1>4, FrontTwo
    <3> HIDE DEF reads
    <3> QED BY <1>2, <2>a, <3>1, <3>2
  <2> QED BY <2>1, <2>2, <2>3, <2>4, RequestCell
<1> QED BY <1>3, <1>4, <1>5, <1>6, <1>7

\* The accesses of a request, as an unlock sequence and what follows it.
LEMMA FlashLineIs ==
  ASSUME FlashOK, NEW r \in FlashRequests(cart)
  PROVE  FlashLine(cart, r) = IF Banked(cart, r) THEN Left(0, Command(SwitchBank), <<BankWrite(r)>> \o Operation(r)) ELSE Operation(r)
<1> DEFINE U(c) == <<Wr(First), Wr(Second), Command(c)>>
           bank == IF cart.banks = 1 THEN <<>> ELSE U(SwitchBank) \o <<BankWrite(r)>>
           e == <<Wr(First), Wr(Second), Erasing(r)>>
           two == <<Rd(0), Rd(1)>>
           one == <<BankWrite(r)>>
<1>1. \A c \in Commanded : U(c) \in Seq(ByteAccesses)
  <2>1. Wr(First) \in ByteAccesses /\ Wr(Second) \in ByteAccesses
    BY DEF Wr, First, Second, ByteAccesses, Bytes8
  <2> QED BY <2>1, CommandWrites
<1>2. \A c : Unlocked(c) = U(c)
  BY DEF Unlocked, Command
<1>3. \A c, tail : Left(0, c, tail) = <<Wr(First), Wr(Second), c>> \o tail
  BY DEF Left
<1>4. U(SwitchBank) \in Seq(ByteAccesses) /\ U(Program) \in Seq(ByteAccesses) /\ U(EraseCommand) \in Seq(ByteAccesses)
      /\ U(IdCommand) \in Seq(ByteAccesses) /\ U(LeaveIdMode) \in Seq(ByteAccesses)
  BY <1>1 DEF Commanded
<1>5. two \in Seq(ByteAccesses)
  BY OperationParts
\* The choice of a bank goes first.
<1>6. ASSUME NEW s \in Seq(ByteAccesses), r.do \in {"program", "eraseSector", "read"}
      PROVE  bank \o s = IF Banked(cart, r) THEN Left(0, Command(SwitchBank), one \o s) ELSE s
  <2>1. one \in Seq(ByteAccesses)
    <3>1. BankWrite(r) \in ByteAccesses
      BY <1>6, RequestCell
    <3> QED BY <3>1
  <2>2. CASE cart.banks = 1
    <3>1. bank = <<>> /\ ~ Banked(cart, r)
      BY <2>2 DEF Banked
    <3>2. <<>> \o s = s
      BY ConcatEmptySeq
    <3> QED BY <3>1, <3>2
  <2>3. CASE cart.banks = 2
    <3> DEFINE u == U(SwitchBank)
    <3>1. bank = u \o one /\ Banked(cart, r)
      BY <1>6, <2>3 DEF Banked
    <3>2. u \in Seq(ByteAccesses)
      BY <1>4
    <3>3. Left(0, Command(SwitchBank), one \o s) = u \o (one \o s)
      BY <1>3
    <3> HIDE DEF u, one, bank
    <3>4. (u \o one) \o s = u \o (one \o s)
      BY <2>1, <3>2, ConcatAssociative
    <3> QED BY <3>1, <3>3, <3>4
  <2> QED BY <2>2, <2>3 DEF FlashOK
<1>7. CASE r.do = "program"
  <2> DEFINE d == <<DataWrite(r)>>
             p == U(Program)
  <2>1. FlashLine(cart, r) = (bank \o p) \o d
    BY <1>2, <1>7 DEF FlashLine, DataWrite, BankWrite
  <2>2. Operation(r) = p \o d
    BY <1>3, <1>7 DEF Operation
  <2>3. d \in Seq(ByteAccesses) /\ p \in Seq(ByteAccesses)
    BY <1>4, <1>7, OperationParts
  <2>4. bank \in Seq(ByteAccesses)
    <3>1. one \in Seq(ByteAccesses)
      <4>1. BankWrite(r) \in ByteAccesses
        BY <1>7, RequestCell
      <4> QED BY <4>1
    <3> DEFINE u == U(SwitchBank)
    <3>2. u \in Seq(ByteAccesses)
      BY <1>4
    <3>3. bank = IF cart.banks = 1 THEN <<>> ELSE u \o one
      OBVIOUS
    <3> HIDE DEF u, one, bank
    <3>4. u \o one \in Seq(ByteAccesses)
      BY <3>1, <3>2, ConcatProperties
    <3>5. <<>> \in Seq(ByteAccesses)
      OBVIOUS
    <3> QED BY <3>3, <3>4, <3>5
  <2> HIDE DEF bank, p, d
  <2>5. (bank \o p) \o d = bank \o (p \o d)
    BY <2>3, <2>4, ConcatAssociative
  <2>6. p \o d \in Seq(ByteAccesses)
    BY <2>3, ConcatProperties
  <2>7. bank \o Operation(r) = IF Banked(cart, r) THEN Left(0, Command(SwitchBank), one \o Operation(r)) ELSE Operation(r)
    BY <1>6, <1>7, <2>2, <2>6
  <2> QED BY <2>1, <2>2, <2>5, <2>7
<1>8. CASE r.do = "eraseSector"
  <2> DEFINE p == U(EraseCommand)
  <2>1. FlashLine(cart, r) = bank \o (p \o e)
    BY <1>2, <1>8 DEF FlashLine, Erasing, BankWrite
  <2>2. Operation(r) = p \o e
    <3>1. Operation(r) = p \o (e \o <<>>)
      BY <1>3, <1>8 DEF Operation
    <3>2. e \in Seq(ByteAccesses)
      <4>1. Wr(First) \in ByteAccesses /\ Wr(Second) \in ByteAccesses
        BY DEF Wr, First, Second, ByteAccesses, Bytes8
      <4>2. Erasing(r) \in ByteAccesses
        BY <1>8, RequestCell
      <4> QED BY <4>1, <4>2
    <3> HIDE DEF e, p
    <3>3. e \o <<>> = e
      BY <3>2, ConcatEmptySeq
    <3> QED BY <3>1, <3>3
  <2>3. Operation(r) \in Seq(ByteAccesses)
    BY OperationParts
  <2> HIDE DEF bank, p, e
  <2>7. bank \o Operation(r) = IF Banked(cart, r) THEN Left(0, Command(SwitchBank), one \o Operation(r)) ELSE Operation(r)
    BY <1>6, <1>8, <2>3
  <2> QED BY <2>1, <2>2, <2>7
<1>9. CASE r.do = "eraseChip"
  <2> DEFINE p == U(EraseCommand)
  <2>1. FlashLine(cart, r) = p \o e
    BY <1>2, <1>9 DEF FlashLine, Erasing, Command
  <2>2. Operation(r) = p \o (e \o <<>>)
    BY <1>3, <1>9 DEF Operation
  <2>3. e \in Seq(ByteAccesses)
    <4>1. Wr(First) \in ByteAccesses /\ Wr(Second) \in ByteAccesses
      BY DEF Wr, First, Second, ByteAccesses, Bytes8
    <4>2. Erasing(r) \in ByteAccesses
      BY <1>9, RequestCell
    <4> QED BY <4>1, <4>2
  <2> HIDE DEF e, p
  <2>4. e \o <<>> = e
    BY <2>3, ConcatEmptySeq
  <2> QED BY <1>9, <2>1, <2>2, <2>4 DEF Banked
<1>10. CASE r.do = "read"
  <2>1. FlashLine(cart, r) = bank \o <<Rd(r.at[2])>>
    BY <1>2, <1>10 DEF FlashLine, BankWrite
  <2>2. Operation(r) = <<Rd(r.at[2])>>
    BY <1>10 DEF Operation
  <2>3. Operation(r) \in Seq(ByteAccesses)
    BY OperationParts
  <2> HIDE DEF bank
  <2>7. bank \o Operation(r) = IF Banked(cart, r) THEN Left(0, Command(SwitchBank), one \o Operation(r)) ELSE Operation(r)
    BY <1>6, <1>10, <2>3
  <2> QED BY <2>1, <2>2, <2>7
<1>11. CASE r.do = "id"
  <2> DEFINE p == U(IdCommand)
             v == U(LeaveIdMode)
  <2>1. FlashLine(cart, r) = (p \o two) \o v
    BY <1>2, <1>11 DEF FlashLine
  <2>2. Operation(r) = p \o (two \o (v \o <<>>))
    BY <1>3, <1>11 DEF Operation
  <2>3. p \in Seq(ByteAccesses) /\ v \in Seq(ByteAccesses)
    BY <1>4
  <2> HIDE DEF p, v, two
  <2>4. v \o <<>> = v
    BY <2>3, ConcatEmptySeq
  <2>5. (p \o two) \o v = p \o (two \o v)
    BY <1>5, <2>3, ConcatAssociative
  <2> QED BY <1>11, <2>1, <2>2, <2>4, <2>5 DEF Banked
<1> QED BY <1>7, <1>8, <1>9, <1>10, <1>11, RequestCell

UsesBank(r) == r.do \in {"program", "eraseSector", "read"}
Reads == <<Rd(0), Rd(1)>> \o Leave
Id(n) == [id |-> <<cart.banks, n>>]

\* What an access of request r makes of the chip f, n being the chip after it
\* and h what was read: l was left before.
Outcome(f, r, l, n, h) ==
  /\ n \in FlashChip(cart)
  /\ Len(l) = 1 => Quiet(n) /\ n.data = Applied(cart, f.data, r) /\ h = Told(cart, f.data, r)
  /\ Len(l) # 1 => n.data = f.data /\ FlashAt(cart, n, r, Tail(l), h)

\* A quiet chip in the right bank is at the start of an operation.
LEMMA OperationStart ==
  ASSUME FlashOK, NEW r \in FlashRequests(cart), NEW f, Quiet(f), UsesBank(r) => f.bank = r.at[1]
  PROVE  FlashAt(cart, f, r, Operation(r), <<>>)
<1>1. f.command = None /\ f.unlock = 0 /\ 0 \in 0 .. 2
  BY DEF Quiet
<1>2. \A c, tail : Unlocking(f, None, Left(0, c, tail), c, tail)
  BY <1>1 DEF Unlocking
<1>3. CASE r.do = "program"
  <2>1. Operation(r) = Left(0, Command(Program), <<DataWrite(r)>>)
    BY <1>3 DEF Operation
  <2>2. f.bank = r.at[1]
    BY <1>3 DEF UsesBank
  <2> QED BY <1>2, <1>3, <2>1, <2>2 DEF FlashAt
<1>4. CASE r.do \in {"eraseSector", "eraseChip"}
  <2>1. Operation(r) = Left(0, Command(EraseCommand), Left(0, Erasing(r), <<>>))
    BY <1>4 DEF Operation
  <2>2. r.do = "eraseSector" => f.bank = r.at[1]
    BY DEF UsesBank
  <2> QED BY <1>2, <1>4, <2>1, <2>2 DEF FlashAt
<1>5. CASE r.do = "read"
  <2>1. Operation(r) = <<Rd(r.at[2])>> /\ f.bank = r.at[1]
    BY <1>5 DEF Operation, UsesBank
  <2> QED BY <1>5, <2>1 DEF FlashAt
<1>6. CASE r.do = "id"
  <2>1. Operation(r) = Left(0, Command(IdCommand), <<Rd(0), Rd(1)>> \o Left(0, Command(LeaveIdMode), <<>>))
    BY <1>6 DEF Operation
  <2> QED BY <1>2, <1>6, <2>1 DEF FlashAt
<1> QED BY <1>3, <1>4, <1>5, <1>6, RequestCell

\* A quiet chip is at the start of any request.
LEMMA FlashStart ==
  ASSUME FlashOK, NEW r \in FlashRequests(cart), NEW f \in FlashChip(cart), Quiet(f)
  PROVE  FlashAt(cart, f, r, FlashLine(cart, r), <<>>)
<1>1. CASE Banked(cart, r)
  <2> DEFINE rest == <<BankWrite(r)>> \o Operation(r)
  <2>1. FlashLine(cart, r) = Left(0, Command(SwitchBank), rest)
    BY <1>1, FlashLineIs
  <2>2. Unlocking(f, None, FlashLine(cart, r), Command(SwitchBank), rest)
    <3>1. f.command = None /\ f.unlock = 0 /\ 0 \in 0 .. 2
      BY DEF Quiet
    <3> HIDE DEF rest
    <3> QED BY <2>1, <3>1 DEF Unlocking
  <2> QED BY <1>1, <2>2 DEF FlashAt
<1>2. CASE ~ Banked(cart, r)
  <2>1. FlashLine(cart, r) = Operation(r)
    BY <1>2, FlashLineIs
  <2>2. UsesBank(r) => f.bank = r.at[1]
    <3>1. SUFFICES ASSUME UsesBank(r) PROVE f.bank = r.at[1]
      OBVIOUS
    <3>2. cart.banks = 1
      BY <1>2, <3>1 DEF Banked, UsesBank, FlashOK
    <3>3. r.at[1] \in 0 .. cart.banks - 1 /\ f.bank \in 0 .. cart.banks - 1
      BY <3>1, RequestCell DEF UsesBank, FlashChip
    <3> QED BY <3>2, <3>3
  <2>3. FlashAt(cart, f, r, Operation(r), <<>>)
    BY <2>2, OperationStart
  <2> QED BY <2>1, <2>3
<1> QED BY <1>1, <1>2

\* Choosing a bank.
LEMMA BankStep ==
  ASSUME FlashOK, NEW r \in FlashRequests(cart), NEW f \in FlashChip(cart), NEW l, Banked(cart, r), NEW n,
         n = FlashWrite(f, Head(l).value),
         \/ Unlocking(f, None, l, Command(SwitchBank), <<BankWrite(r)>> \o Operation(r))
         \/ f.unlock = 0 /\ f.command = SwitchBank /\ l = <<BankWrite(r)>> \o Operation(r)
  PROVE  Head(l).do = "write" /\ Outcome(f, r, l, n, <<>>)
<1> DEFINE rest == <<BankWrite(r)>> \o Operation(r)
           c == Command(SwitchBank)
<1>1. UsesBank(r) /\ cart.banks = 2
  BY DEF Banked, UsesBank
<1>2. BankWrite(r) \in ByteAccesses /\ BankWrite(r).do = "write"
  BY <1>1, RequestCell DEF UsesBank
<1>3. Operation(r) \in Seq(ByteAccesses) /\ Len(Operation(r)) > 0 /\ Len(Operation(r)) \in Nat
  BY OperationParts, LenProperties
<1>4. /\ rest \in Seq(ByteAccesses) /\ Len(rest) = 1 + Len(Operation(r))
      /\ Head(rest) = BankWrite(r) /\ Tail(rest) = Operation(r)
  BY <1>2, <1>3, FrontOne
<1>5. c \in ByteAccesses /\ c.do = "write"
  BY CommandWrites DEF Commanded
<1> HIDE DEF rest, c
<1>6. CASE Unlocking(f, None, l, c, rest)
  <2>1. /\ Head(l).do = "write"
        /\ \/ /\ n \in FlashChip(cart) /\ n.data = f.data /\ n.bank = f.bank
              /\ Unlocking(n, None, Tail(l), c, rest) /\ Len(l) > 1 + Len(rest)
           \/ n = RunCommand([f EXCEPT !.unlock = 0], c.value) /\ Tail(l) = rest /\ Len(l) = 1 + Len(rest)
    BY <1>4, <1>5, <1>6, UnlockStep
  <2>2. CASE /\ n \in FlashChip(cart) /\ n.data = f.data /\ n.bank = f.bank
             /\ Unlocking(n, None, Tail(l), c, rest) /\ Len(l) > 1 + Len(rest)
    <3>1. FlashAt(cart, n, r, Tail(l), <<>>)
      BY <2>2 DEF FlashAt, c, rest
    <3>2. Len(l) # 1
      BY <1>3, <1>4, <2>2
    <3> QED BY <2>1, <2>2, <3>1, <3>2 DEF Outcome
  <2>3. CASE n = RunCommand([f EXCEPT !.unlock = 0], c.value) /\ Tail(l) = rest /\ Len(l) = 1 + Len(rest)
    <3>1. f.command = None
      BY <1>6 DEF Unlocking
    <3>2. n \in FlashChip(cart) /\ n.data = f.data /\ n.unlock = 0 /\ n.command = SwitchBank
      BY <1>1, <2>3, <3>1, CommandTaken DEF c
    <3>3. FlashAt(cart, n, r, Tail(l), <<>>)
      BY <2>3, <3>2 DEF FlashAt, rest
    <3>4. Len(l) # 1
      BY <1>3, <1>4, <2>3
    <3> QED BY <2>1, <3>2, <3>3, <3>4 DEF Outcome
  <2> QED BY <2>1, <2>2, <2>3
<1>7. CASE f.unlock = 0 /\ f.command = SwitchBank /\ l = rest
  <2> DEFINE w == [at |-> 0, byte |-> IF r.at[1] = 1 THEN {0} ELSE {}]
  <2>1. Head(l) = BankWrite(r) /\ Head(l).do = "write" /\ Head(l).value = w
    BY <1>2, <1>4, <1>7 DEF BankWrite, Wr
  <2>2. r.at[1] \in 0 .. 1
    BY <1>1, RequestCell DEF UsesBank
  <2>3. w.at = 0 /\ w.byte \in {{}, {0}} /\ Cardinality(w.byte) = r.at[1]
    <3>1. Cardinality({}) = 0 /\ Cardinality({0}) = 1
      BY FS_EmptySet, FS_Singleton
    <3>2. r.at[1] = 0 \/ r.at[1] = 1
      BY <2>2
    <3> QED BY <3>1, <3>2
  <2> HIDE DEF w
  <2>4. FlashWrite(f, w) = [f EXCEPT !.bank = r.at[1], !.command = None]
    <3>1. f.unlock = 0 /\ f.command = SwitchBank /\ f.command # Program
      BY <1>7, CommandsDiffer
    <3> QED BY <2>3, <3>1 DEF FlashWrite
  <2>5. n \in FlashChip(cart) /\ n.data = f.data /\ n.bank = r.at[1] /\ n.unlock = 0 /\ n.command = None
    <3>1. n = [f EXCEPT !.bank = r.at[1], !.command = None] /\ r.at[1] \in 0 .. cart.banks - 1
      BY <1>1, <2>1, <2>2, <2>4
    <3> QED BY <1>7, <3>1 DEF FlashChip, Commands
  <2>6. FlashAt(cart, n, r, Operation(r), <<>>)
    BY <2>5, OperationStart DEF Quiet
  <2>7. Len(l) # 1 /\ Tail(l) = Operation(r)
    BY <1>3, <1>4, <1>7
  <2> QED BY <2>1, <2>5, <2>6, <2>7 DEF Outcome
<1> QED BY <1>6, <1>7 DEF c, rest

\* Programming a byte: the unlock sequence, then the data.
LEMMA ProgramStep ==
  ASSUME FlashOK, NEW r \in FlashRequests(cart), NEW f \in FlashChip(cart), NEW l, r.do = "program", NEW n,
         n = FlashWrite(f, Head(l).value), f.bank = r.at[1],
         \/ Unlocking(f, None, l, Command(Program), <<DataWrite(r)>>)
         \/ f.unlock = 0 /\ f.command = Program /\ l = <<DataWrite(r)>>
  PROVE  Head(l).do = "write" /\ Outcome(f, r, l, n, <<>>)
<1> DEFINE rest == <<DataWrite(r)>>
           c == Command(Program)
<1>1. rest \in Seq(ByteAccesses) /\ Len(rest) = 1
  BY OperationParts
<1>2. c \in ByteAccesses /\ c.do = "write"
  BY CommandWrites DEF Commanded
<1>3. Head(rest) = DataWrite(r)
  OBVIOUS
<1> HIDE DEF rest, c
<1>6. CASE Unlocking(f, None, l, c, rest)
  <2>1. /\ Head(l).do = "write"
        /\ \/ /\ n \in FlashChip(cart) /\ n.data = f.data /\ n.bank = f.bank
              /\ Unlocking(n, None, Tail(l), c, rest) /\ Len(l) > 1 + Len(rest)
           \/ n = RunCommand([f EXCEPT !.unlock = 0], c.value) /\ Tail(l) = rest /\ Len(l) = 1 + Len(rest)
    <3>1. rest \in Seq(ByteAccesses) /\ None \in {None, EraseCommand, IdCommand}
      BY <1>1
    <3> QED BY <1>2, <1>6, <3>1, UnlockStep
  <2>2. CASE /\ n \in FlashChip(cart) /\ n.data = f.data /\ n.bank = f.bank
             /\ Unlocking(n, None, Tail(l), c, rest) /\ Len(l) > 1 + Len(rest)
    <3>1. FlashAt(cart, n, r, Tail(l), <<>>)
      BY <2>2 DEF FlashAt, c, rest
    <3>2. Len(l) # 1
      BY <1>1, <2>2, NotLast
    <3> QED BY <2>1, <2>2, <3>1, <3>2 DEF Outcome
  <2>3. CASE n = RunCommand([f EXCEPT !.unlock = 0], c.value) /\ Tail(l) = rest /\ Len(l) = 1 + Len(rest)
    <3>1. f.command = None /\ Program # SwitchBank
      BY <1>6, CommandsDiffer DEF Unlocking
    <3>2. n \in FlashChip(cart) /\ n.data = f.data /\ n.unlock = 0 /\ n.command = Program /\ n.bank = f.bank
      BY <2>3, <3>1, CommandTaken DEF c
    <3>3. FlashAt(cart, n, r, Tail(l), <<>>)
      BY <2>3, <3>2 DEF FlashAt, rest
    <3>4. Len(l) # 1
      BY <1>1, <2>3
    <3> QED BY <2>1, <3>2, <3>3, <3>4 DEF Outcome
  <2> QED BY <2>1, <2>2, <2>3
<1>7. CASE f.unlock = 0 /\ f.command = Program /\ l = rest
  <2> DEFINE w == [at |-> r.at[2], byte |-> r.byte]
  <2>1. Head(l).do = "write" /\ Head(l).value = w
    BY <1>3, <1>7 DEF DataWrite, Wr
  <2>2. r.at \in Cells(cart) /\ r.at = <<r.at[1], r.at[2]>> /\ r.byte \in Bytes8
    BY RequestCell
  <2>3. <<f.bank, w.at>> = r.at /\ w.byte = r.byte
    BY <2>2
  <2> HIDE DEF w
  <2> DEFINE data == [f.data EXCEPT ![r.at] = @ \cap r.byte]
  <2>4. FlashWrite(f, w) = [f EXCEPT !.data = data, !.command = None]
    <3>1. FlashWrite(f, w) = [f EXCEPT !.data[<<f.bank, w.at>>] = @ \cap w.byte, !.command = None]
      <4>1. f.unlock = 0 /\ f.command = Program
        BY <1>7
      <4> QED BY <4>1, CommandsDiffer DEF FlashWrite
    <3>2. [f EXCEPT !.data[<<f.bank, w.at>>] = @ \cap w.byte, !.command = None]
          = [f EXCEPT !.data = [f.data EXCEPT ![<<f.bank, w.at>>] = @ \cap w.byte], !.command = None]
      BY DEF FlashChip
    <3> QED BY <2>3, <3>1, <3>2
  <2>5. data \in [Cells(cart) -> Bytes8]
    BY <2>2 DEF FlashChip, Bytes8
  <2> HIDE DEF data
  <2>6. n \in FlashChip(cart) /\ n.data = data /\ n.unlock = 0 /\ n.command = None
    BY <1>7, <2>1, <2>4, <2>5 DEF FlashChip, Commands
  <2>7. data = Applied(cart, f.data, r)
    BY DEF Applied, data
  <2>8. Told(cart, f.data, r) = <<>>
    BY DEF Told, FlashOK
  <2>9. Len(l) = 1
    BY <1>1, <1>7
  <2> QED BY <2>1, <2>6, <2>7, <2>8, <2>9 DEF Outcome, Quiet
<1> QED BY <1>6, <1>7 DEF c, rest

\* Erasing: two unlock sequences, the second of which ends in what to erase.
LEMMA EraseStep ==
  ASSUME FlashOK, NEW r \in FlashRequests(cart), NEW f \in FlashChip(cart), NEW l, NEW n,
         r.do \in {"eraseSector", "eraseChip"}, r.do = "eraseSector" => f.bank = r.at[1],
         n = FlashWrite(f, Head(l).value),
         \/ Unlocking(f, None, l, Command(EraseCommand), Left(0, Erasing(r), <<>>))
         \/ Unlocking(f, EraseCommand, l, Erasing(r), <<>>)
  PROVE  Head(l).do = "write" /\ Outcome(f, r, l, n, <<>>)
<1> DEFINE rest == Left(0, Erasing(r), <<>>)
           empty == <<>>
           c == Command(EraseCommand)
           d == Erasing(r)
<1>1. rest \in Seq(ByteAccesses) /\ Len(rest) = 3 /\ empty \in Seq(ByteAccesses) /\ Len(empty) = 0 /\ empty = <<>>
  BY OperationParts
<1>2. c \in ByteAccesses /\ c.do = "write" /\ d \in ByteAccesses /\ d.do = "write"
  BY CommandWrites, RequestCell DEF Commanded
<1>3. None \in {None, EraseCommand, IdCommand} /\ EraseCommand \in {None, EraseCommand, IdCommand}
  OBVIOUS
<1> HIDE DEF rest, c, d, empty
<1>6. CASE Unlocking(f, None, l, c, rest)
  <2>1. /\ Head(l).do = "write"
        /\ \/ /\ n \in FlashChip(cart) /\ n.data = f.data /\ n.bank = f.bank
              /\ Unlocking(n, None, Tail(l), c, rest) /\ Len(l) > 1 + Len(rest)
           \/ n = RunCommand([f EXCEPT !.unlock = 0], c.value) /\ Tail(l) = rest /\ Len(l) = 1 + Len(rest)
    <3>1. rest \in Seq(ByteAccesses)
      BY <1>1
    <3> QED BY <1>2, <1>3, <1>6, <3>1, UnlockStep
  <2>2. CASE /\ n \in FlashChip(cart) /\ n.data = f.data /\ n.bank = f.bank
             /\ Unlocking(n, None, Tail(l), c, rest) /\ Len(l) > 1 + Len(rest)
    <3>1. FlashAt(cart, n, r, Tail(l), <<>>)
      BY <2>2 DEF FlashAt, c, rest
    <3>2. Len(l) # 1
      BY <1>1, <2>2, NotLast
    <3> QED BY <2>1, <2>2, <3>1, <3>2 DEF Outcome
  <2>3. CASE n = RunCommand([f EXCEPT !.unlock = 0], c.value) /\ Tail(l) = rest /\ Len(l) = 1 + Len(rest)
    <3>1. f.command = None /\ EraseCommand # SwitchBank
      BY <1>6, CommandsDiffer DEF Unlocking
    <3>2. n \in FlashChip(cart) /\ n.data = f.data /\ n.unlock = 0 /\ n.command = EraseCommand /\ n.bank = f.bank
      BY <2>3, <3>1, CommandTaken DEF c
    <3>3. Unlocking(n, EraseCommand, Tail(l), d, <<>>)
      <4>1. 0 \in 0 .. 2 /\ Tail(l) = Left(0, d, <<>>)
        BY <2>3 DEF rest, d
      <4> QED BY <3>2, <4>1 DEF Unlocking
    <3>4. FlashAt(cart, n, r, Tail(l), <<>>)
      BY <3>2, <3>3 DEF FlashAt, d
    <3>5. Len(l) # 1
      BY <1>1, <2>3
    <3> QED BY <2>1, <3>2, <3>4, <3>5 DEF Outcome
  <2> QED BY <2>1, <2>2, <2>3
<1>7. CASE Unlocking(f, EraseCommand, l, d, empty)
  <2>1. /\ Head(l).do = "write"
        /\ \/ /\ n \in FlashChip(cart) /\ n.data = f.data /\ n.bank = f.bank
              /\ Unlocking(n, EraseCommand, Tail(l), d, empty) /\ Len(l) > 1 + Len(empty)
           \/ n = RunCommand([f EXCEPT !.unlock = 0], d.value) /\ Tail(l) = empty /\ Len(l) = 1 + Len(empty)
    <3>1. empty \in Seq(ByteAccesses)
      BY <1>1
    <3> QED BY <1>2, <1>3, <1>7, <3>1, UnlockStep
  <2>2. CASE /\ n \in FlashChip(cart) /\ n.data = f.data /\ n.bank = f.bank
             /\ Unlocking(n, EraseCommand, Tail(l), d, empty) /\ Len(l) > 1 + Len(empty)
    <3>1. FlashAt(cart, n, r, Tail(l), <<>>)
      BY <2>2 DEF FlashAt, d, empty
    <3>2. Len(l) # 1
      BY <1>1, <2>2, NotLast
    <3> QED BY <2>1, <2>2, <3>1, <3>2 DEF Outcome
  <2>3. CASE n = RunCommand([f EXCEPT !.unlock = 0], d.value) /\ Tail(l) = empty /\ Len(l) = 1 + Len(empty)
    <3>1. f.command = EraseCommand
      BY <1>7 DEF Unlocking
    <3>2. n \in FlashChip(cart) /\ n.data = Applied(cart, f.data, r) /\ Quiet(n)
      BY <2>3, <3>1, ErasesWhatWasAsked DEF d
    <3>3. Told(cart, f.data, r) = <<>>
      BY DEF Told, FlashOK
    <3>4. Len(l) = 1
      BY <1>1, <2>3
    <3> QED BY <2>1, <3>2, <3>3, <3>4 DEF Outcome
  <2> QED BY <2>1, <2>2, <2>3
<1> QED BY <1>6, <1>7 DEF c, rest, d, empty

\* A read of a cell.
LEMMA ByteStep ==
  ASSUME FlashOK, NEW r \in FlashRequests(cart), NEW f \in FlashChip(cart), NEW l,
         r.do = "read", f.bank = r.at[1], Quiet(f), l = <<Rd(r.at[2])>>
  PROVE  Head(l).do = "read" /\ Outcome(f, r, l, f, Append(<<>>, FlashRead(f, Head(l).value)))
<1>1. Head(l) = Rd(r.at[2]) /\ Len(l) = 1
  OBVIOUS
<1>2. Head(l).do = "read" /\ Head(l).value = r.at[2]
  BY <1>1 DEF Rd
<1>3. <<f.bank, r.at[2]>> = r.at
  BY RequestCell
<1>4. f.command # IdCommand
  BY CommandsDiffer DEF Quiet
<1>5. FlashRead(f, r.at[2]) = [byte |-> f.data[r.at]]
  BY <1>3, <1>4 DEF FlashRead
<1>6. Append(<<>>, [byte |-> f.data[r.at]]) = <<[byte |-> f.data[r.at]]>>
  OBVIOUS
<1>7. Told(cart, f.data, r) = <<[byte |-> f.data[r.at]]>>
  <2>1. cart.type = "flash" /\ cart.type # "eeprom" /\ r.do = "read"
    BY DEF FlashOK
  <2> QED BY <2>1 DEF Told
<1>8. Applied(cart, f.data, r) = f.data
  BY DEF Applied
<1> QED BY <1>1, <1>2, <1>5, <1>6, <1>7, <1>8 DEF Outcome

\* The chip's id, and the command that leaves it.
LEMMA IdStep ==
  ASSUME FlashOK, NEW r \in FlashRequests(cart), NEW f \in FlashChip(cart), NEW l, NEW n, NEW g,
         r.do = "id", n = FlashWrite(f, Head(l).value),
         \/ g = <<>> /\ Unlocking(f, None, l, Command(IdCommand), Reads)
         \/ g = <<Id(0), Id(1)>> /\ Unlocking(f, IdCommand, l, Command(LeaveIdMode), <<>>)
  PROVE  Head(l).do = "write" /\ Outcome(f, r, l, n, g)
<1> DEFINE rest == Reads
           empty == <<>>
           c == Command(IdCommand)
           d == Command(LeaveIdMode)
<1>1. rest \in Seq(ByteAccesses) /\ Len(rest) = 5 /\ empty \in Seq(ByteAccesses) /\ Len(empty) = 0 /\ empty = <<>>
  <2>1. Leave \in Seq(ByteAccesses) /\ Len(Leave) = 3 /\ Rd(0) \in ByteAccesses /\ Rd(1) \in ByteAccesses
    BY OperationParts
  <2>2. Reads \in Seq(ByteAccesses)
    BY <2>1, FrontTwo DEF Reads
  <2>3. Len(Reads) = 2 + Len(Leave)
    <3>1. Leave \in Seq(ByteAccesses)
      BY <2>1
    <3> DEFINE a == Rd(0)
               b == Rd(1)
    <3>a. a \in ByteAccesses /\ b \in ByteAccesses
      BY <2>1
    <3> HIDE DEF a, b
    <3>2. Len(<<a, b>> \o Leave) = 2 + Len(Leave)
      BY <3>1, <3>a, FrontTwo
    <3> QED BY <3>2 DEF Reads, a, b
  <2> QED BY <2>1, <2>2, <2>3
<1>2. c \in ByteAccesses /\ c.do = "write" /\ d \in ByteAccesses /\ d.do = "write"
  BY CommandWrites DEF Commanded
<1>3. None \in {None, EraseCommand, IdCommand} /\ IdCommand \in {None, EraseCommand, IdCommand}
  OBVIOUS
<1> HIDE DEF rest, c, d, empty
<1>6. CASE g = <<>> /\ Unlocking(f, None, l, c, rest)
  <2>1. /\ Head(l).do = "write"
        /\ \/ /\ n \in FlashChip(cart) /\ n.data = f.data /\ n.bank = f.bank
              /\ Unlocking(n, None, Tail(l), c, rest) /\ Len(l) > 1 + Len(rest)
           \/ n = RunCommand([f EXCEPT !.unlock = 0], c.value) /\ Tail(l) = rest /\ Len(l) = 1 + Len(rest)
    <3>1. rest \in Seq(ByteAccesses)
      BY <1>1
    <3> QED BY <1>2, <1>3, <1>6, <3>1, UnlockStep
  <2>2. CASE /\ n \in FlashChip(cart) /\ n.data = f.data /\ n.bank = f.bank
             /\ Unlocking(n, None, Tail(l), c, rest) /\ Len(l) > 1 + Len(rest)
    <3>1. FlashAt(cart, n, r, Tail(l), g)
      BY <1>6, <2>2 DEF FlashAt, c, rest, Reads, Leave
    <3>2. Len(l) # 1
      BY <1>1, <2>2, NotLast
    <3> QED BY <2>1, <2>2, <3>1, <3>2 DEF Outcome
  <2>3. CASE n = RunCommand([f EXCEPT !.unlock = 0], c.value) /\ Tail(l) = rest /\ Len(l) = 1 + Len(rest)
    <3>1. f.command = None /\ IdCommand # SwitchBank
      BY <1>6, CommandsDiffer DEF Unlocking
    <3>2. n \in FlashChip(cart) /\ n.data = f.data /\ n.unlock = 0 /\ n.command = IdCommand /\ n.bank = f.bank
      BY <2>3, <3>1, CommandTaken DEF c
    <3>4. FlashAt(cart, n, r, Tail(l), g)
      BY <1>6, <2>3, <3>2 DEF FlashAt, rest, Reads, Leave
    <3>5. Len(l) # 1
      BY <1>1, <2>3
    <3> QED BY <2>1, <3>2, <3>4, <3>5 DEF Outcome
  <2> QED BY <2>1, <2>2, <2>3
<1>7. CASE g = <<Id(0), Id(1)>> /\ Unlocking(f, IdCommand, l, d, empty)
  <2>1. /\ Head(l).do = "write"
        /\ \/ /\ n \in FlashChip(cart) /\ n.data = f.data /\ n.bank = f.bank
              /\ Unlocking(n, IdCommand, Tail(l), d, empty) /\ Len(l) > 1 + Len(empty)
           \/ n = RunCommand([f EXCEPT !.unlock = 0], d.value) /\ Tail(l) = empty /\ Len(l) = 1 + Len(empty)
    <3>1. empty \in Seq(ByteAccesses)
      BY <1>1
    <3> QED BY <1>2, <1>3, <1>7, <3>1, UnlockStep
  <2>2. CASE /\ n \in FlashChip(cart) /\ n.data = f.data /\ n.bank = f.bank
             /\ Unlocking(n, IdCommand, Tail(l), d, empty) /\ Len(l) > 1 + Len(empty)
    <3>1. FlashAt(cart, n, r, Tail(l), g)
      BY <1>7, <2>2 DEF FlashAt, d, empty, Id
    <3>2. Len(l) # 1
      BY <1>1, <2>2, NotLast
    <3> QED BY <2>1, <2>2, <3>1, <3>2 DEF Outcome
  <2>3. CASE n = RunCommand([f EXCEPT !.unlock = 0], d.value) /\ Tail(l) = empty /\ Len(l) = 1 + Len(empty)
    <3>1. f.command = IdCommand
      BY <1>7 DEF Unlocking
    <3>2. n \in FlashChip(cart) /\ n.data = f.data /\ n.unlock = 0 /\ n.command = None
      <4>1. RunCommand([f EXCEPT !.unlock = 0], d.value) = [f EXCEPT !.unlock = 0, !.command = None]
        <5> DEFINE i == [f EXCEPT !.unlock = 0]
                   w == d.value
        <5>1. i.command = IdCommand /\ i.command # EraseCommand /\ w.at = First.at /\ w.byte = LeaveIdMode
          BY <3>1, CommandsDiffer DEF FlashChip, d, Command, Wr
        <5>2. [i EXCEPT !.command = None] = [f EXCEPT !.unlock = 0, !.command = None]
          BY DEF FlashChip
        <5> HIDE DEF i, w
        <5>3. RunCommand(i, w) = [i EXCEPT !.command = None]
          BY <5>1 DEF RunCommand
        <5> QED BY <5>2, <5>3 DEF i, w
      <4>2. n = [f EXCEPT !.unlock = 0, !.command = None]
        BY <2>3, <4>1
      <4> HIDE DEF rest, empty
      <4>5. None \in Commands /\ 0 \in 0 .. 2
        BY DEF Commands
      <4>3. n \in FlashChip(cart)
        BY <4>2, <4>5 DEF FlashChip
      <4>4. n.data = f.data /\ n.unlock = 0 /\ n.command = None
        BY <4>2 DEF FlashChip
      <4> QED BY <4>3, <4>4
    <3>3. Told(cart, f.data, r) = g
      BY <1>7 DEF Told, FlashOK, Id
    <3>5. Applied(cart, f.data, r) = f.data
      BY DEF Applied
    <3>4. Len(l) = 1
      BY <1>1, <2>3
    <3> QED BY <2>1, <3>2, <3>3, <3>4, <3>5 DEF Outcome, Quiet
  <2> QED BY <2>1, <2>2, <2>3
<1> QED BY <1>6, <1>7 DEF c, rest, d, empty

\* The id, a byte at a time.
LEMMA IdReads ==
  ASSUME FlashOK, NEW r \in FlashRequests(cart), NEW f \in FlashChip(cart), NEW l, NEW g,
         r.do = "id", f.unlock = 0, f.command = IdCommand,
         \/ g = <<>> /\ l = Reads
         \/ g = <<Id(0)>> /\ l = <<Rd(1)>> \o Leave
  PROVE  Head(l).do = "read" /\ Outcome(f, r, l, f, Append(g, FlashRead(f, Head(l).value)))
<1> DEFINE a == Rd(0)
           b == Rd(1)
           rest == <<b>> \o Leave
<1>1. a \in ByteAccesses /\ b \in ByteAccesses /\ Leave \in Seq(ByteAccesses) /\ Len(Leave) = 3
  BY OperationParts
<1>2. a.do = "read" /\ a.value = 0 /\ b.do = "read" /\ b.value = 1
  BY DEF Rd
<1>3. FlashRead(f, 0) = Id(0) /\ FlashRead(f, 1) = Id(1)
  <2>1. Cardinality(Banks(f)) = cart.banks
    BY BanksCounted
  <2> QED BY <2>1 DEF FlashRead, Id
<1>4. Append(<<>>, Id(0)) = <<Id(0)>> /\ Append(<<Id(0)>>, Id(1)) = <<Id(0), Id(1)>>
  <2>1. \A x : Append(<<>>, x) = <<x>>
    OBVIOUS
  <2>2. ASSUME NEW x, NEW y PROVE Append(<<x>>, y) = <<x, y>>
    <3> DEFINE S == {x, y}
               s == Append(<<x>>, y)
               t == <<x, y>>
    <3>1. <<x>> \in Seq(S) /\ y \in S /\ Len(<<x>>) = 1 /\ <<x>>[1] = x
      OBVIOUS
    <3>2. s \in Seq(S) /\ Len(s) = 2 /\ s[1] = x /\ s[2] = y
      <4> HIDE DEF S
      <4> QED BY <3>1, AppendProperties
    <3>3. t \in Seq(S) /\ Len(t) = 2 /\ t[1] = x /\ t[2] = y
      OBVIOUS
    <3> HIDE DEF S, s, t
    <3>4. \A i \in 1 .. 2 : i = 1 \/ i = 2
      OBVIOUS
    <3>5. s = t
      BY <3>2, <3>3, <3>4, SeqEqual
    <3> QED BY <3>5 DEF s, t
  <2> QED BY <2>1, <2>2
<1> HIDE DEF a, b
<1>5. Len(<<a, b>> \o Leave) = 2 + Len(Leave) /\ Head(<<a, b>> \o Leave) = a /\ Tail(<<a, b>> \o Leave) = rest
  <2>4. a \in ByteAccesses /\ b \in ByteAccesses
    BY <1>1
  <2>5. Leave \in Seq(ByteAccesses)
    BY <1>1
  <2>1. Len(<<a, b>> \o Leave) = 2 + Len(Leave)
    BY <2>4, <2>5, FrontTwo
  <2>2. Head(<<a, b>> \o Leave) = a
    BY <2>4, <2>5, FrontTwo
  <2>3. Tail(<<a, b>> \o Leave) = <<b>> \o Leave
    BY <2>4, <2>5, FrontTwo
  <2> QED BY <2>1, <2>2, <2>3
<1>6. Len(rest) = 1 + Len(Leave) /\ Head(rest) = b /\ Tail(rest) = Leave
  <2>1. Len(<<b>> \o Leave) = 1 + Len(Leave)
    BY <1>1, FrontOne
  <2>2. Head(<<b>> \o Leave) = b
    BY <1>1, FrontOne
  <2>3. Tail(<<b>> \o Leave) = Leave
    BY <1>1, FrontOne
  <2> QED BY <2>1, <2>2, <2>3
<1> HIDE DEF rest
<1>7. CASE g = <<>> /\ l = Reads
  <2>1. l = <<a, b>> \o Leave
    BY <1>7 DEF Reads, a, b
  <2>2. Head(l) = a /\ Tail(l) = rest /\ Len(l) = 5
    BY <1>1, <1>5, <2>1
  <2>3. FlashAt(cart, f, r, rest, <<Id(0)>>)
    BY DEF FlashAt, rest, b, Leave, Id
  <2>4. Len(l) # 1 /\ Append(g, FlashRead(f, Head(l).value)) = <<Id(0)>>
    BY <1>2, <1>3, <1>4, <1>7, <2>2
  <2>5. Head(l).do = "read"
    BY <1>2, <2>2
  <2> QED BY <2>2, <2>3, <2>4, <2>5 DEF Outcome
<1>8. CASE g = <<Id(0)>> /\ l = rest
  <2>2. Head(l) = b /\ Tail(l) = Leave /\ Len(l) = 4
    BY <1>1, <1>6, <1>8
  <2>3. FlashAt(cart, f, r, Leave, <<Id(0), Id(1)>>)
    <3>1. Unlocking(f, IdCommand, Leave, Command(LeaveIdMode), <<>>)
      <4>1. 0 \in 0 .. 2
        OBVIOUS
      <4> QED BY <4>1 DEF Unlocking, Leave
    <3> QED BY <3>1 DEF FlashAt, Id
  <2>4. Len(l) # 1 /\ Append(g, FlashRead(f, Head(l).value)) = <<Id(0), Id(1)>>
    BY <1>2, <1>3, <1>4, <1>8, <2>2
  <2>5. Head(l).do = "read"
    BY <1>2, <2>2
  <2> QED BY <2>2, <2>3, <2>4, <2>5 DEF Outcome
<1> QED BY <1>7, <1>8 DEF rest, b

\* An access of a flash chip's request.
LEMMA FlashStep ==
  ASSUME FlashOK, NEW r \in FlashRequests(cart), NEW f \in FlashChip(cart), NEW l, NEW g, FlashAt(cart, f, r, l, g)
  PROVE  LET a == Head(l)
         IN  Outcome(f, r, l, IF a.do = "write" THEN FlashWrite(f, a.value) ELSE f,
                     IF a.do = "write" THEN g ELSE Append(g, FlashRead(f, a.value)))
<1> DEFINE a == Head(l)
           n == FlashWrite(f, a.value)
           h == Append(g, FlashRead(f, a.value))
<1> SUFFICES \/ a.do = "write" /\ Outcome(f, r, l, n, g)
             \/ a.do = "read" /\ Outcome(f, r, l, f, h)
  <2> HIDE DEF n, h
  <2> QED BY DEF n, h
<1> HIDE DEF n, h
<1>1. CASE /\ Banked(cart, r) /\ g = <<>>
           /\ \/ Unlocking(f, None, l, Command(SwitchBank), <<BankWrite(r)>> \o Operation(r))
              \/ f.unlock = 0 /\ f.command = SwitchBank /\ l = <<BankWrite(r)>> \o Operation(r)
  BY <1>1, BankStep DEF n
<1>2. CASE /\ r.do = "program" /\ g = <<>> /\ f.bank = r.at[1]
           /\ \/ Unlocking(f, None, l, Command(Program), <<DataWrite(r)>>)
              \/ f.unlock = 0 /\ f.command = Program /\ l = <<DataWrite(r)>>
  BY <1>2, ProgramStep DEF n
<1>3. CASE /\ r.do \in {"eraseSector", "eraseChip"} /\ g = <<>> /\ (r.do = "eraseSector" => f.bank = r.at[1])
           /\ \/ Unlocking(f, None, l, Command(EraseCommand), Left(0, Erasing(r), <<>>))
              \/ Unlocking(f, EraseCommand, l, Erasing(r), <<>>)
  BY <1>3, EraseStep DEF n
<1>4. CASE r.do = "read" /\ g = <<>> /\ f.bank = r.at[1] /\ Quiet(f) /\ l = <<Rd(r.at[2])>>
  BY <1>4, ByteStep DEF h
<1>5. CASE /\ r.do = "id"
           /\ \/ g = <<>> /\ Unlocking(f, None, l, Command(IdCommand), Reads)
              \/ g = <<Id(0), Id(1)>> /\ Unlocking(f, IdCommand, l, Command(LeaveIdMode), <<>>)
  BY <1>5, IdStep DEF n
<1>6. CASE /\ r.do = "id" /\ f.unlock = 0 /\ f.command = IdCommand
           /\ \/ g = <<>> /\ l = Reads
              \/ g = <<Id(0)>> /\ l = <<Rd(1)>> \o Leave
  BY <1>6, IdReads DEF h
<1> QED BY <1>1, <1>2, <1>3, <1>4, <1>5, <1>6 DEF FlashAt, Reads, Leave, Id

EepromOK == cart.type = "eeprom" /\ WidthOK

\* A cartridge has an EEPROM or a flash chip.
LEMMA CartKinds ==
  ASSUME cart \in CARTS
  PROVE  EepromOK \/ FlashOK
<1>1. CASE cart \in [type : {"eeprom"}, width : {NARROW, WIDE}]
  BY <1>1 DEF EepromOK, WidthOK
<1>2. CASE cart \in [type : {"flash"}, banks : {1, 2}, offsets : (SUBSET Nat) \ {{}}]
  BY <1>2 DEF FlashOK
<1> QED BY <1>1, <1>2, CartridgeAssumption

\* The chip holds all that is addressed by the narrow width, and no more than the array.
LEMMA UnitsCount ==
  ASSUME WidthOK
  PROVE  /\ UnitsOf(cart.width) \in Nat /\ UnitsOf(cart.width) > 0 /\ UnitsOf(cart.width) <= UNITS
         /\ \A at \in Nat : at < Pow2[cart.width] => (at < UnitsOf(cart.width) <=> at < UNITS)
<1>1. Pow2[NARROW] \in Nat /\ Pow2[NARROW] > 0
  BY CartridgeAssumption, Powers
<1>2. UNITS \in Nat /\ Pow2[NARROW] <= UNITS
  BY CartridgeAssumption
<1>3. CASE cart.width = NARROW
  <2>1. UnitsOf(cart.width) = Pow2[NARROW] /\ Pow2[cart.width] = Pow2[NARROW]
    BY <1>3 DEF UnitsOf
  <2> DEFINE p == Pow2[NARROW]
  <2>2. \A at \in Nat : at < p => (at < p <=> at < UNITS)
    <3> HIDE DEF p
    <3>1. p \in Nat /\ p <= UNITS
      BY <1>1, <1>2 DEF p
    <3> QED BY <1>2, <3>1
  <2> QED BY <1>1, <1>2, <2>1, <2>2
<1>4. CASE cart.width # NARROW
  <2>1. UnitsOf(cart.width) = UNITS
    BY <1>4 DEF UnitsOf
  <2> QED BY <1>1, <1>2, <2>1
<1> QED BY <1>3, <1>4

\* What the game hears, the dummy bits dropped, is the unit.
LEMMA HeardUnit ==
  ASSUME EepromOK, NEW e \in Chip(cart), NEW at \in Nat
  PROVE  Heard(<<>>) = <<>> /\ Heard(Sent(e, at)) = IF at < UNITS THEN e.data[at] ELSE Ones
<1> DEFINE s == Sent(e, at)
           bits == IF at < UNITS THEN e.data[at] ELSE Ones
<1>0. WidthOK /\ cart.type = "eeprom"
  BY DEF EepromOK
<1>1. UNIT_BITS \in Nat /\ UNIT_BITS > 0 /\ DUMMIES \in Nat /\ UNITS \in Nat
  BY <1>0, Widths
<1>2. s \in Seq(Bits) /\ Len(s) = DUMMIES + UNIT_BITS /\ \A i \in 1 .. UNIT_BITS : s[DUMMIES + i] = bits[i]
  BY <1>0, SentIs
<1>3. bits \in [1 .. UNIT_BITS -> Bits]
  <2>1. Ones \in [1 .. UNIT_BITS -> Bits]
    BY DEF Ones, Bits
  <2>2. e.data \in [0 .. UNITS - 1 -> [1 .. UNIT_BITS -> Bits]]
    BY DEF Chip, Units
  <2> QED BY <1>1, <2>1, <2>2
<1> HIDE DEF s, bits
<1> DEFINE t == SubSeq(s, DUMMIES + 1, Len(s))
<1>4. t = [i \in 1 .. UNIT_BITS |-> s[i + (DUMMIES + 1) - 1]]
  <2>1. t = [i \in 1 .. (1 + (DUMMIES + UNIT_BITS) - (DUMMIES + 1)) |-> s[i + (DUMMIES + 1) - 1]]
    BY <1>1, <1>2
  <2>2. 1 + (DUMMIES + UNIT_BITS) - (DUMMIES + 1) = UNIT_BITS
    BY <1>1
  <2> QED BY <2>1, <2>2
<1>5. \A i \in 1 .. UNIT_BITS : s[i + (DUMMIES + 1) - 1] = bits[i]
  <2>1. \A i \in 1 .. UNIT_BITS : i + (DUMMIES + 1) - 1 = DUMMIES + i
    BY <1>1
  <2> QED BY <1>2, <2>1
<1> HIDE DEF t
<1>6. t = bits
  BY <1>3, <1>4, <1>5
<1>7. Heard(<<>>) = <<>>
  <2>1. SubSeq(<<>>, DUMMIES + 1, Len(<<>>)) = <<>>
    BY <1>1
  <2> QED BY <1>0, <2>1 DEF Heard
<1> QED BY <1>0, <1>6, <1>7 DEF Heard, s, t, bits

\* Where the EEPROM is when l is left of request r and g was read.
EepromAt(c, e, r, l, g) ==
  \E k \in 0 .. EepromLength(c, r) - 1 :
    /\ l = Rest(EepromLine(c, r), k)
    /\ IF r.do = "write" THEN g = <<>> /\ WriteAt(c, e, r, k) ELSE ReadAt(c, e, r, k, g)

EepromKept(c, e) == [u \in 0 .. UnitsOf(c.width) - 1 |-> e.data[u]]

\* What an access makes of an EEPROM.
EepromOutcome(e, r, l, n, h) ==
  /\ n \in Chip(cart)
  /\ Len(l) = 1 => n.state = "Idle" /\ EepromKept(cart, n) = Applied(cart, EepromKept(cart, e), r)
                   /\ Heard(h) = Told(cart, EepromKept(cart, e), r)
  /\ Len(l) # 1 => n.data = e.data /\ EepromAt(cart, n, r, Tail(l), h)

\* An access of an EEPROM's request.
LEMMA EepromStep ==
  ASSUME EepromOK, NEW r \in EepromRequests(cart.width), NEW e \in Chip(cart), NEW l, NEW g, EepromAt(cart, e, r, l, g)
  PROVE  LET a == Head(l)
         IN  EepromOutcome(e, r, l, IF a.do = "write" THEN EepromWrite(e, a.value) ELSE EepromRead(e).chip,
                           IF a.do = "write" THEN g ELSE Append(g, EepromRead(e).bit))
<1> DEFINE a == Head(l)
           n == IF a.do = "write" THEN EepromWrite(e, a.value) ELSE EepromRead(e).chip
           h == IF a.do = "write" THEN g ELSE Append(g, EepromRead(e).bit)
           U == UnitsOf(cart.width)
<1>0. WidthOK /\ cart.type = "eeprom"
  BY DEF EepromOK
<1>1. PICK k \in 0 .. EepromLength(cart, r) - 1 :
        /\ l = Rest(EepromLine(cart, r), k)
        /\ IF r.do = "write" THEN g = <<>> /\ WriteAt(cart, e, r, k) ELSE ReadAt(cart, e, r, k, g)
  BY DEF EepromAt
<1>2. /\ EepromLine(cart, r) \in Seq(BitAccesses) /\ Len(EepromLine(cart, r)) = EepromLength(cart, r)
      /\ EepromLine(cart, r)[k + 1] = EepromItem(r, k + 1)
  <2>1. EepromLine(cart, r) \in Seq(BitAccesses)
    BY <1>0, EepromLineIs
  <2>2. Len(EepromLine(cart, r)) = EepromLength(cart, r)
    BY <1>0, EepromLineIs
  <2>3. k + 1 \in 1 .. EepromLength(cart, r)
    <3>1. EepromLength(cart, r) \in Nat
      BY <2>1, <2>2, LenProperties
    <3> QED BY <3>1
  <2>4. \A i \in 1 .. EepromLength(cart, r) : EepromLine(cart, r)[i] = EepromItem(r, i)
    BY <1>0, EepromLineIs
  <2> QED BY <2>1, <2>2, <2>3, <2>4
<1>3. EepromLength(cart, r) \in Nat /\ k \in Nat /\ k < EepromLength(cart, r) /\ k \in 0 .. EepromLength(cart, r)
  <2>1. EepromLength(cart, r) \in Nat
    BY <1>2, LenProperties
  <2> QED BY <2>1
<1>4. a = EepromItem(r, k + 1) /\ Tail(l) = Rest(EepromLine(cart, r), k + 1) /\ Len(l) = EepromLength(cart, r) - k
  <2> DEFINE s == EepromLine(cart, r)
  <2>1. s \in Seq(BitAccesses) /\ k \in 0 .. Len(s) /\ k < Len(s)
    BY <1>2, <1>3
  <2> HIDE DEF s
  <2>2. Head(Rest(s, k)) = s[k + 1]
    BY <2>1, RestMoves
  <2>3. Tail(Rest(s, k)) = Rest(s, k + 1)
    BY <2>1, RestMoves
  <2>4. Len(Rest(s, k)) = Len(s) - k
    BY <2>1, RestMoves
  <2> QED BY <1>1, <1>2, <2>2, <2>3, <2>4 DEF s
<1>5. /\ Len(l) = 1 => k + 1 = EepromLength(cart, r)
      /\ Len(l) # 1 => k + 1 < EepromLength(cart, r) /\ k + 1 \in 0 .. EepromLength(cart, r) - 1
  BY <1>3, <1>4
<1>6. r.at \in Nat /\ r.at < Pow2[cart.width] /\ r.do \in {"write", "read"}
  BY <1>0, RequestAddress
<1>7. U \in Nat /\ U > 0 /\ U <= UNITS /\ (r.at < U <=> r.at < UNITS) /\ UNITS \in Nat
  BY <1>0, <1>6, UnitsCount, Widths
<1>8. e.data \in [0 .. UNITS - 1 -> Units]
  BY DEF Chip
<1> HIDE DEF a, n, h, U
<1>9. DOMAIN EepromKept(cart, e) = 0 .. U - 1 /\ (r.at \in 0 .. U - 1 <=> r.at < UNITS)
  BY <1>6, <1>7 DEF EepromKept, U
<1>10. CASE r.do = "write"
  <2>1. g = <<>> /\ WriteAt(cart, e, r, k)
    BY <1>1, <1>10
  <2> DEFINE x == EepromWrite(e, a.value)
  <2>2. /\ a.do = "write" /\ x \in Chip(cart)
        /\ k + 1 < EepromLength(cart, r) => WriteAt(cart, x, r, k + 1) /\ x.data = e.data
        /\ k + 1 = EepromLength(cart, r) =>
             x.state = "Idle" /\ x.data = IF r.at < UNITS THEN [e.data EXCEPT ![r.at] = r.unit] ELSE e.data
    BY <1>0, <1>4, <1>10, <2>1, WriteStep
  <2>3. n = x /\ h = <<>>
    BY <2>1, <2>2 DEF n, h
  <2> HIDE DEF x
  <2>4. ASSUME Len(l) = 1
        PROVE  n.state = "Idle" /\ EepromKept(cart, n) = Applied(cart, EepromKept(cart, e), r) /\ Heard(h) = Told(cart, EepromKept(cart, e), r)
    <3>1. n.state = "Idle" /\ n.data = IF r.at < UNITS THEN [e.data EXCEPT ![r.at] = r.unit] ELSE e.data
      BY <1>5, <2>2, <2>3, <2>4
    <3>2. Heard(h) = <<>>
      BY <1>6, <2>3, HeardUnit
    <3>3. Told(cart, EepromKept(cart, e), r) = <<>>
      BY <1>0, <1>10 DEF Told
    <3>4. Applied(cart, EepromKept(cart, e), r) = IF r.at < UNITS THEN [EepromKept(cart, e) EXCEPT ![r.at] = r.unit] ELSE EepromKept(cart, e)
      BY <1>9, <1>10 DEF Applied
    <3>5. CASE r.at < UNITS
      <4>1. \A u \in 0 .. U - 1 : [e.data EXCEPT ![r.at] = r.unit][u] = [EepromKept(cart, e) EXCEPT ![r.at] = r.unit][u]
        BY <1>6, <1>7, <1>8 DEF EepromKept, U
      <4>2. EepromKept(cart, n) = [EepromKept(cart, e) EXCEPT ![r.at] = r.unit]
        BY <3>1, <3>5, <4>1 DEF EepromKept, U
      <4> QED BY <3>1, <3>2, <3>3, <3>4, <3>5, <4>2
    <3>6. CASE ~ r.at < UNITS
      <4>1. EepromKept(cart, n) = EepromKept(cart, e)
        BY <3>1, <3>6 DEF EepromKept
      <4> QED BY <3>1, <3>2, <3>3, <3>4, <3>6, <4>1
    <3> QED BY <3>5, <3>6
  <2>5. ASSUME Len(l) # 1
        PROVE  n.data = e.data /\ EepromAt(cart, n, r, Tail(l), h)
    <3>1. n.data = e.data /\ WriteAt(cart, n, r, k + 1)
      BY <1>5, <2>2, <2>3, <2>5
    <3> QED BY <1>4, <1>5, <1>10, <2>3, <2>5, <3>1 DEF EepromAt
  <2>6. n \in Chip(cart)
    BY <2>2, <2>3
  <2> QED BY <2>4, <2>5, <2>6 DEF EepromOutcome, n, h, a
<1>11. CASE r.do = "read"
  <2>1. ReadAt(cart, e, r, k, g)
    BY <1>1, <1>11
  <2>2. /\ n \in Chip(cart) /\ n.data = e.data
        /\ k + 1 < EepromLength(cart, r) => ReadAt(cart, n, r, k + 1, h)
        /\ k + 1 = EepromLength(cart, r) => n.state = "Idle" /\ h = Sent(e, r.at)
    BY <1>0, <1>4, <1>11, <2>1, ReadStep DEF n, h
  <2>4. ASSUME Len(l) = 1
        PROVE  n.state = "Idle" /\ EepromKept(cart, n) = Applied(cart, EepromKept(cart, e), r) /\ Heard(h) = Told(cart, EepromKept(cart, e), r)
    <3>1. n.state = "Idle" /\ h = Sent(e, r.at)
      BY <1>5, <2>2, <2>4
    <3>2. Heard(h) = IF r.at < UNITS THEN e.data[r.at] ELSE Ones
      BY <1>6, <3>1, HeardUnit
    <3>3. Told(cart, EepromKept(cart, e), r) = IF r.at < UNITS THEN EepromKept(cart, e)[r.at] ELSE Ones
      BY <1>0, <1>9, <1>11 DEF Told
    <3>4. r.at < UNITS => EepromKept(cart, e)[r.at] = e.data[r.at]
      BY <1>9 DEF EepromKept, U
    <3>5. Applied(cart, EepromKept(cart, e), r) = EepromKept(cart, e)
      BY <1>11 DEF Applied
    <3>6. EepromKept(cart, n) = EepromKept(cart, e)
      BY <2>2 DEF EepromKept
    <3> QED BY <3>1, <3>2, <3>3, <3>4, <3>5, <3>6
  <2>5. ASSUME Len(l) # 1
        PROVE  EepromAt(cart, n, r, Tail(l), h)
    <3>1. ReadAt(cart, n, r, k + 1, h)
      BY <1>5, <2>2, <2>5
    <3> QED BY <1>4, <1>5, <1>11, <2>5, <3>1 DEF EepromAt
  <2> QED BY <2>2, <2>4, <2>5 DEF EepromOutcome, n, h, a
<1> QED BY <1>6, <1>10, <1>11

\* Where the chip is in the middle of a request, l of it still to come, or
\* between two.
ChipAt(c, e, f, r, l, g) ==
  IF c.type = "eeprom"
  THEN /\ e \in Chip(c)
       /\ IF r = NoRequest THEN e.state = "Idle" ELSE r \in EepromRequests(c.width) /\ EepromAt(c, e, r, l, g)
  ELSE /\ f \in FlashChip(c)
       /\ IF r = NoRequest THEN Quiet(f) ELSE r \in FlashRequests(c) /\ FlashAt(c, f, r, l, g)

\* A .sav is all of a chip that the cartridge reaches.
FileOf(c, s) == IF c.type = "eeprom" THEN s \in [1 .. UnitsOf(c.width) -> Units] ELSE s \in [Cells(c) -> Bytes8]

CartInv ==
  /\ cart \in CARTS
  /\ ChipAt(cart, eeprom, flash, request, line, got)
  /\ state # <<>> => ChipAt(cart, state[1].eeprom, state[1].flash, state[1].request, state[1].line, state[1].got)
  /\ sav # <<>> => FileOf(cart, sav[1])

\* A new chip is blank.
LEMMA NewChips ==
  /\ EepromOK => NewEeprom \in Chip(cart) /\ NewEeprom.state = "Idle" /\ EepromKept(cart, NewEeprom) = Blank(cart)
  /\ FlashOK => NewFlash(cart) \in FlashChip(cart) /\ Quiet(NewFlash(cart)) /\ NewFlash(cart).data = Blank(cart)
<1>1. ASSUME EepromOK
      PROVE  NewEeprom \in Chip(cart) /\ NewEeprom.state = "Idle" /\ EepromKept(cart, NewEeprom) = Blank(cart)
  <2> DEFINE U == UnitsOf(cart.width)
  <2>1. WidthOK /\ cart.type = "eeprom"
    BY <1>1 DEF EepromOK
  <2>2. U \in Nat /\ U <= UNITS /\ UNITS \in Nat
    BY <2>1, UnitsCount, Widths
  <2>3. Ones \in Units
    BY DEF Ones, Units, Bits
  <2>4. NewEeprom \in Chip(cart) /\ NewEeprom.state = "Idle"
    BY <2>3 DEF NewEeprom, Chip, Bits
  <2> HIDE DEF U
  <2>5. \A u \in 0 .. U - 1 : NewEeprom.data[u] = Ones
    BY <2>2 DEF NewEeprom
  <2>6. EepromKept(cart, NewEeprom) = [u \in 0 .. U - 1 |-> Ones]
    BY <2>5 DEF EepromKept, U
  <2>7. Blank(cart) = [u \in 0 .. U - 1 |-> Ones]
    BY <2>1 DEF Blank, U
  <2> QED BY <2>4, <2>6, <2>7
<1>2. ASSUME FlashOK
      PROVE  NewFlash(cart) \in FlashChip(cart) /\ Quiet(NewFlash(cart)) /\ NewFlash(cart).data = Blank(cart)
  <2>1. cart.type # "eeprom" /\ 0 \in 0 .. cart.banks - 1
    BY <1>2 DEF FlashOK
  <2>2. NewFlash(cart) \in FlashChip(cart)
    BY <2>1 DEF NewFlash, FlashChip, Cells, Erased, Bytes8, Commands
  <2>3. Quiet(NewFlash(cart)) /\ NewFlash(cart).data = Blank(cart)
    BY <2>1 DEF NewFlash, Quiet, Blank
  <2> QED BY <2>2, <2>3
<1> QED BY <1>1, <1>2

\* A machine that starts with a file has what the file holds.
LEMMA FileInstalled ==
  ASSUME NEW s, FileOf(cart, s)
  PROVE  /\ EepromOK => /\ Installed(s) \in Chip(cart) /\ Installed(s).state = "Idle"
                        /\ EepromKept(cart, Installed(s)) = [u \in DOMAIN Blank(cart) |-> IF u < Len(s) THEN s[u + 1] ELSE Ones]
         /\ FlashOK => /\ FlashInstalled(NewFlash(cart), s) \in FlashChip(cart) /\ Quiet(FlashInstalled(NewFlash(cart), s))
                       /\ FlashInstalled(NewFlash(cart), s).data = s
<1>1. ASSUME EepromOK
      PROVE  /\ Installed(s) \in Chip(cart) /\ Installed(s).state = "Idle"
             /\ EepromKept(cart, Installed(s)) = [u \in DOMAIN Blank(cart) |-> IF u < Len(s) THEN s[u + 1] ELSE Ones]
  <2> DEFINE U == UnitsOf(cart.width)
             d == [u \in 0 .. UNITS - 1 |-> IF u < Len(s) THEN s[u + 1] ELSE Ones]
  <2>1. WidthOK /\ cart.type = "eeprom"
    BY <1>1 DEF EepromOK
  <2>2. U \in Nat /\ U <= UNITS /\ UNITS \in Nat
    BY <2>1, UnitsCount, Widths
  <2>3. s \in [1 .. U -> Units] /\ Len(s) = U
    <3>1. s \in [1 .. U -> Units]
      BY <2>1 DEF FileOf
    <3> HIDE DEF U
    <3> QED BY <2>2, <3>1
  <2>4. Ones \in Units
    BY DEF Ones, Units, Bits
  <2>5. d \in [0 .. UNITS - 1 -> Units]
    <3> HIDE DEF U
    <3> QED BY <2>2, <2>3, <2>4
  <2>6. Installed(s) = [NewEeprom EXCEPT !.data = d, !.installed = Len(s)]
    BY DEF Installed, NewEeprom
  <2>7. NewEeprom \in Chip(cart) /\ NewEeprom.state = "Idle"
    BY <1>1, NewChips
  <2> HIDE DEF d
  <2>8. Installed(s) \in Chip(cart) /\ Installed(s).state = "Idle" /\ Installed(s).data = d
    BY <2>3, <2>5, <2>6, <2>7 DEF Chip
  <2>9. Blank(cart) = [u \in 0 .. U - 1 |-> Ones]
    BY <2>1 DEF Blank
  <2>10. EepromKept(cart, Installed(s)) = [u \in 0 .. U - 1 |-> d[u]]
    BY <2>8 DEF EepromKept
  <2> HIDE DEF U
  <2>11. \A u \in 0 .. U - 1 : d[u] = IF u < Len(s) THEN s[u + 1] ELSE Ones
    BY <2>2 DEF d
  <2> QED BY <2>8, <2>9, <2>10, <2>11
<1>2. ASSUME FlashOK
      PROVE  /\ FlashInstalled(NewFlash(cart), s) \in FlashChip(cart) /\ Quiet(FlashInstalled(NewFlash(cart), s))
             /\ FlashInstalled(NewFlash(cart), s).data = s
  <2>1. cart.type # "eeprom" /\ 0 \in 0 .. cart.banks - 1
    BY <1>2 DEF FlashOK
  <2>2. s \in [Cells(cart) -> Bytes8]
    BY <2>1 DEF FileOf
  <2> DEFINE f == NewFlash(cart)
  <2>3. f \in FlashChip(cart)
    BY <1>2, NewChips
  <2> HIDE DEF f
  <2>4. None \in Commands /\ 0 \in 0 .. 2
    BY DEF Commands
  <2>5. FlashInstalled(f, s) \in FlashChip(cart)
    BY <2>1, <2>2, <2>3, <2>4 DEF FlashInstalled, FlashChip
  <2>6. FlashInstalled(f, s).data = s /\ Quiet(FlashInstalled(f, s))
    BY <2>3 DEF FlashInstalled, FlashChip, Quiet
  <2> QED BY <2>5, <2>6 DEF f
<1> QED BY <1>1, <1>2

\* A file that is exported is what the game reaches.
LEMMA FileExported ==
  ASSUME EepromOK, NEW e \in Chip(cart), SaveUnits(e) # 0, NEW s, s = [i \in 1 .. SaveUnits(e) |-> e.data[i - 1]]
  PROVE  /\ FileOf(cart, s)
         /\ [u \in DOMAIN Blank(cart) |-> IF u < Len(s) THEN s[u + 1] ELSE Ones] = EepromKept(cart, e)
<1> DEFINE U == UnitsOf(cart.width)
<1>1. WidthOK /\ cart.type = "eeprom"
  BY DEF EepromOK
<1>2. U \in Nat /\ U <= UNITS /\ UNITS \in Nat
  BY <1>1, UnitsCount, Widths
<1>3. SaveUnits(e) = U
  BY DEF SaveUnits, Chip
<1>4. Blank(cart) = [u \in 0 .. U - 1 |-> Ones]
  BY <1>1 DEF Blank
<1>5. e.data \in [0 .. UNITS - 1 -> Units]
  BY DEF Chip
<1>8. FileOf(cart, s) <=> s \in [1 .. U -> Units]
  BY <1>1 DEF FileOf
<1>9. EepromKept(cart, e) = [u \in 0 .. U - 1 |-> e.data[u]]
  BY DEF EepromKept
<1> HIDE DEF U
<1>6. s = [i \in 1 .. U |-> e.data[i - 1]]
  BY <1>3
<1>7. s \in [1 .. U -> Units] /\ Len(s) = U /\ \A u \in 0 .. U - 1 : s[u + 1] = e.data[u]
  <2> DEFINE t == [i \in 1 .. U |-> e.data[i - 1]]
  <2>1. \A i \in 1 .. U : i - 1 \in 0 .. UNITS - 1 /\ e.data[i - 1] \in Units
    BY <1>2, <1>5
  <2>2. t \in [1 .. U -> Units]
    BY <2>1
  <2>3. \A u \in 0 .. U - 1 : u + 1 \in 1 .. U /\ (u + 1) - 1 = u
    BY <1>2
  <2>4. \A u \in 0 .. U - 1 : t[u + 1] = e.data[u]
    BY <2>3
  <2>5. s = t
    BY <1>6
  <2> HIDE DEF t
  <2>6. Len(t) = U
    BY <1>2, <2>2
  <2> QED BY <2>2, <2>4, <2>5, <2>6
<1>10. \A u \in 0 .. U - 1 : (IF u < Len(s) THEN s[u + 1] ELSE Ones) = e.data[u]
  <2> TAKE u \in 0 .. U - 1
  <2>1. u < U
    BY <1>2
  <2>2. Len(s) = U
    BY <1>7
  <2>3. s[u + 1] = e.data[u]
    BY <1>7
  <2> QED BY <2>1, <2>2, <2>3
<1>11. [u \in 0 .. U - 1 |-> IF u < Len(s) THEN s[u + 1] ELSE Ones] = EepromKept(cart, e)
  BY <1>9, <1>10
<1>12. DOMAIN Blank(cart) = 0 .. U - 1
  BY <1>4
<1> QED BY <1>7, <1>8, <1>11, <1>12

\* The file and the saved state, as the promise has them.
File(c, s) ==
  IF s = <<>> THEN <<>>
  ELSE <<IF c.type = "flash" THEN s[1] ELSE [u \in DOMAIN Blank(c) |-> IF u < Len(s[1]) THEN s[1][u + 1] ELSE Ones]>>
KeptOf(c, e, f) == IF c.type = "eeprom" THEN EepromKept(c, e) ELSE f.data
Restore(c, s) ==
  IF s = <<>> THEN <<>>
  ELSE <<[kept |-> KeptOf(c, s[1].eeprom, s[1].flash), asked |-> s[1].request, answer |-> s[1].answer]>>

\* The steps of the promise, over those.
LEMMA PromiseSays ==
  /\ cart \in CARTS /\ KeptOf(cart, eeprom, flash) = Blank(cart) /\ request = NoRequest /\ answer = <<>>
     /\ sav = <<>> /\ state = <<>> => Promise!Init
  /\ request = NoRequest /\ request' \in Requests(cart) /\ KeptOf(cart', eeprom', flash') = KeptOf(cart, eeprom, flash)
     /\ UNCHANGED <<cart, answer, sav, state>> => Promise!Ask
  /\ request # NoRequest /\ request' = NoRequest
     /\ KeptOf(cart', eeprom', flash') = Applied(cart, KeptOf(cart, eeprom, flash), request)
     /\ answer' = Told(cart, KeptOf(cart, eeprom, flash), request) /\ UNCHANGED <<cart, sav, state>> => Promise!Do
  /\ File(cart', sav') = <<KeptOf(cart, eeprom, flash)>> /\ UNCHANGED <<cart, eeprom, flash, request, answer, state>> => Promise!Export
  /\ File(cart, sav) # <<>> /\ KeptOf(cart', eeprom', flash') = File(cart, sav)[1]
     /\ request' = NoRequest /\ answer' = <<>> /\ UNCHANGED <<cart, sav, state>> => Promise!Import
  /\ Restore(cart', state') = <<[kept |-> KeptOf(cart, eeprom, flash), asked |-> request, answer |-> answer]>>
     /\ UNCHANGED <<cart, eeprom, flash, request, answer, sav>> => Promise!Save
  /\ Restore(cart, state) # <<>> /\ KeptOf(cart', eeprom', flash') = Restore(cart, state)[1].kept
     /\ request' = Restore(cart, state)[1].asked /\ answer' = Restore(cart, state)[1].answer
     /\ UNCHANGED <<cart, sav, state>> => Promise!Load
  /\ KeptOf(cart', eeprom', flash') = KeptOf(cart, eeprom, flash) /\ UNCHANGED <<cart, request, answer, sav, state>>
     => UNCHANGED Promise!vars
<1>1. Reached(eeprom, flash) = KeptOf(cart, eeprom, flash)
  BY DEF Reached, KeptOf, EepromKept
<1>2. Reached(eeprom, flash)' = KeptOf(cart', eeprom', flash')
  BY DEF Reached, KeptOf, EepromKept
<1> DEFINE file == IF sav = <<>> THEN <<>>
                   ELSE <<IF cart.type = "flash" THEN sav[1]
                          ELSE [u \in DOMAIN Blank(cart) |-> IF u < Len(sav[1]) THEN sav[1][u + 1] ELSE Ones]>>
           restore == IF state = <<>> THEN <<>>
                      ELSE <<[kept |-> Reached(state[1].eeprom, state[1].flash), asked |-> state[1].request, answer |-> state[1].answer]>>
<1>3. file = File(cart, sav) /\ file' = File(cart', sav')
  BY DEF File
<1>4. restore = Restore(cart, state) /\ restore' = Restore(cart', state')
  BY DEF Restore, Reached, KeptOf, EepromKept
<1>5. Promise!NoRequest = NoRequest
  BY DEF Promise!NoRequest, NoRequest
<1> DEFINE kept == Reached(eeprom, flash)
<1>6. Promise!Init <=> /\ cart \in CARTS /\ kept = Blank(cart) /\ request = NoRequest /\ answer = <<>>
                       /\ file = <<>> /\ restore = <<>>
  BY <1>5 DEF Promise!Init
<1>7. Promise!Ask <=> /\ request = NoRequest /\ request' \in Requests(cart)
                      /\ cart' = cart /\ kept' = kept /\ answer' = answer /\ file' = file /\ restore' = restore
  BY <1>5 DEF Promise!Ask
<1>8. Promise!Do <=> /\ request # NoRequest /\ kept' = Applied(cart, kept, request) /\ answer' = Told(cart, kept, request)
                     /\ request' = NoRequest /\ cart' = cart /\ file' = file /\ restore' = restore
  BY <1>5 DEF Promise!Do
<1>9. Promise!Export <=> file' = <<kept>> /\ cart' = cart /\ kept' = kept /\ request' = request /\ answer' = answer /\ restore' = restore
  BY DEF Promise!Export
<1>10. Promise!Import <=> /\ file # <<>> /\ kept' = file[1] /\ request' = NoRequest /\ answer' = <<>>
                          /\ cart' = cart /\ file' = file /\ restore' = restore
  BY <1>5 DEF Promise!Import
<1>11. Promise!Save <=> /\ restore' = <<[kept |-> kept, asked |-> request, answer |-> answer]>>
                        /\ cart' = cart /\ kept' = kept /\ request' = request /\ answer' = answer /\ file' = file
  BY DEF Promise!Save
<1>12. Promise!Load <=> /\ restore # <<>> /\ kept' = restore[1].kept /\ request' = restore[1].asked /\ answer' = restore[1].answer
                        /\ cart' = cart /\ file' = file /\ restore' = restore
  BY DEF Promise!Load
<1>13. UNCHANGED Promise!vars <=> /\ cart' = cart /\ kept' = kept /\ request' = request /\ answer' = answer
                                  /\ file' = file /\ restore' = restore
  BY DEF Promise!vars
<1> HIDE DEF file, restore, kept
<1>14. kept = KeptOf(cart, eeprom, flash) /\ kept' = KeptOf(cart', eeprom', flash')
  BY <1>1, <1>2 DEF kept
<1>15. cart \in CARTS /\ KeptOf(cart, eeprom, flash) = Blank(cart) /\ request = NoRequest /\ answer = <<>>
   /\ sav = <<>> /\ state = <<>> => Promise!Init
  BY <1>3, <1>4, <1>6, <1>14 DEF File, Restore
<1>16. request = NoRequest /\ request' \in Requests(cart) /\ KeptOf(cart', eeprom', flash') = KeptOf(cart, eeprom, flash)
   /\ UNCHANGED <<cart, answer, sav, state>> => Promise!Ask
  BY <1>3, <1>4, <1>7, <1>14
<1>17. request # NoRequest /\ request' = NoRequest
   /\ KeptOf(cart', eeprom', flash') = Applied(cart, KeptOf(cart, eeprom, flash), request)
   /\ answer' = Told(cart, KeptOf(cart, eeprom, flash), request) /\ UNCHANGED <<cart, sav, state>> => Promise!Do
  BY <1>3, <1>4, <1>8, <1>14
<1>18. File(cart', sav') = <<KeptOf(cart, eeprom, flash)>> /\ UNCHANGED <<cart, eeprom, flash, request, answer, state>> => Promise!Export
  BY <1>3, <1>4, <1>9, <1>14
<1>19. File(cart, sav) # <<>> /\ KeptOf(cart', eeprom', flash') = File(cart, sav)[1]
   /\ request' = NoRequest /\ answer' = <<>> /\ UNCHANGED <<cart, sav, state>> => Promise!Import
  BY <1>3, <1>4, <1>10, <1>14
<1>20. Restore(cart', state') = <<[kept |-> KeptOf(cart, eeprom, flash), asked |-> request, answer |-> answer]>>
   /\ UNCHANGED <<cart, eeprom, flash, request, answer, sav>> => Promise!Save
  BY <1>3, <1>4, <1>11, <1>14
<1>21. Restore(cart, state) # <<>> /\ KeptOf(cart', eeprom', flash') = Restore(cart, state)[1].kept
   /\ request' = Restore(cart, state)[1].asked /\ answer' = Restore(cart, state)[1].answer
   /\ UNCHANGED <<cart, sav, state>> => Promise!Load
  BY <1>3, <1>4, <1>12, <1>14
<1>22. KeptOf(cart', eeprom', flash') = KeptOf(cart, eeprom, flash) /\ UNCHANGED <<cart, request, answer, sav, state>>
   => UNCHANGED Promise!vars
  BY <1>3, <1>4, <1>13, <1>14
<1> QED BY <1>15, <1>16, <1>17, <1>18, <1>19, <1>20, <1>21, <1>22

Restored(c, s) == s # <<>> => ChipAt(c, s[1].eeprom, s[1].flash, s[1].request, s[1].line, s[1].got)
Filed(c, s) == s # <<>> => FileOf(c, s[1])

\* The invariant, before and after a step.
LEMMA CartInvIs ==
  /\ CartInv <=> /\ cart \in CARTS /\ ChipAt(cart, eeprom, flash, request, line, got)
                 /\ Restored(cart, state) /\ Filed(cart, sav)
  /\ CartInv' <=> /\ cart' \in CARTS /\ ChipAt(cart', eeprom', flash', request', line', got')
                  /\ Restored(cart', state') /\ Filed(cart', sav')
<1>1. CartInv <=> /\ cart \in CARTS /\ ChipAt(cart, eeprom, flash, request, line, got)
                  /\ Restored(cart, state) /\ Filed(cart, sav)
  BY DEF CartInv, Restored, Filed
<1>2. CartInv' <=> /\ cart' \in CARTS /\ ChipAt(cart', eeprom', flash', request', line', got')
                   /\ Restored(cart', state') /\ Filed(cart', sav')
  BY DEF CartInv, Restored, Filed
<1> QED BY <1>1, <1>2

\* No request is the absence of one.
LEMMA NoRequestIsNone ==
  \A c : NoRequest \notin Requests(c)
<1>1. NoRequest.do = "none"
  BY DEF NoRequest
<1>2. \A c, r : r \in Requests(c) => r.do # "none"
  <2> TAKE c, r
  <2>1. r \in EepromRequests(c.width) => r.do \in {"write", "read"}
    BY DEF EepromRequests
  <2>2. r \in FlashRequests(c) => r.do \in {"program", "eraseSector", "read", "eraseChip", "id"}
    BY DEF FlashRequests
  <2> QED BY <2>1, <2>2 DEF Requests
<1> QED BY <1>1, <1>2

\* The chip as a new machine has it.
LEMMA StartsQuiet ==
  ASSUME CartInit
  PROVE  CartInv /\ Promise!Init
<1>1. cart \in CARTS /\ eeprom = NewEeprom /\ request = NoRequest /\ line = <<>> /\ got = <<>> /\ answer = <<>>
      /\ sav = <<>> /\ state = <<>>
  BY DEF CartInit
<1>2. CASE EepromOK
  <2>1. NewEeprom \in Chip(cart) /\ NewEeprom.state = "Idle" /\ EepromKept(cart, NewEeprom) = Blank(cart)
    BY <1>2, NewChips
  <2>2. cart.type = "eeprom"
    BY <1>2 DEF EepromOK
  <2>3. ChipAt(cart, eeprom, flash, request, line, got)
    BY <1>1, <2>1, <2>2 DEF ChipAt
  <2>4. KeptOf(cart, eeprom, flash) = Blank(cart)
    BY <1>1, <2>1, <2>2 DEF KeptOf
  <2>5. CartInv
    BY <1>1, <2>3 DEF CartInv
  <2> QED BY <1>1, <2>4, <2>5, PromiseSays
<1>3. CASE FlashOK
  <2>1. NewFlash(cart) \in FlashChip(cart) /\ Quiet(NewFlash(cart)) /\ NewFlash(cart).data = Blank(cart)
    BY <1>3, NewChips
  <2>2. cart.type = "flash" /\ cart.type # "eeprom"
    BY <1>3 DEF FlashOK
  <2>6. flash = NewFlash(cart)
    BY <2>2 DEF CartInit
  <2>3. ChipAt(cart, eeprom, flash, request, line, got)
    BY <1>1, <2>1, <2>2, <2>6 DEF ChipAt
  <2>4. KeptOf(cart, eeprom, flash) = Blank(cart)
    BY <2>1, <2>2, <2>6 DEF KeptOf
  <2>5. CartInv
    BY <1>1, <2>3 DEF CartInv
  <2> QED BY <1>1, <2>4, <2>5, PromiseSays
<1> QED BY <1>1, <1>2, <1>3, CartKinds

\* A request begins at an idle chip, with all its accesses to come.
LEMMA AskKeeps ==
  ASSUME CartInv, Ask
  PROVE  CartInv' /\ Promise!Ask
<1>1. cart \in CARTS /\ ChipAt(cart, eeprom, flash, request, line, got) /\ Restored(cart, state) /\ Filed(cart, sav)
  BY CartInvIs
<1>2. request = NoRequest /\ cart' = cart /\ eeprom' = eeprom /\ flash' = flash /\ answer' = answer /\ sav' = sav
      /\ state' = state /\ got' = <<>>
  BY DEF Ask
<1>3. PICK r \in Requests(cart) :
        Legal(r) /\ request' = r /\ line' = IF cart.type = "eeprom" THEN EepromLine(cart, r) ELSE FlashLine(cart, r)
  BY DEF Ask
<1>4. r # NoRequest
  BY <1>1, NoRequestIsNone
<1>5. ChipAt(cart, eeprom, flash, r, line', <<>>)
  <2>1. CASE EepromOK
    <3>1. cart.type = "eeprom" /\ WidthOK
      BY <2>1 DEF EepromOK
    <3>2. eeprom \in Chip(cart) /\ eeprom.state = "Idle" /\ r \in EepromRequests(cart.width) /\ line' = EepromLine(cart, r)
      BY <1>1, <1>2, <1>3, <3>1 DEF ChipAt, Requests
    <3>3. EepromLine(cart, r) \in Seq(BitAccesses) /\ Len(EepromLine(cart, r)) = EepromLength(cart, r)
      <4>1. EepromLine(cart, r) \in Seq(BitAccesses)
        BY <3>1, <3>2, EepromLineIs
      <4>2. Len(EepromLine(cart, r)) = EepromLength(cart, r)
        BY <3>1, <3>2, EepromLineIs
      <4> QED BY <4>1, <4>2
    <3>4. line' = Rest(EepromLine(cart, r), 0)
      <4>1. 0 \in 0 .. Len(EepromLine(cart, r))
        BY <3>3, LenProperties
      <4>2. Rest(EepromLine(cart, r), 0) = EepromLine(cart, r)
        BY <3>3, <4>1, RestMoves
      <4> QED BY <3>2, <4>2
    <3>5. 0 \in 0 .. EepromLength(cart, r) - 1
      <4>1. cart.width \in Nat /\ UNIT_BITS \in Nat /\ DUMMIES \in Nat
        BY <3>1, Widths
      <4> QED BY <4>1 DEF EepromLength
    <3>6. cart.width \in Nat /\ cart.width > 0 /\ UNIT_BITS \in Nat
      BY <3>1, Widths
    <3>7. r.do = "write" => WriteAt(cart, eeprom, r, 0)
      <4>1. r.do = "write" => cart.width = NARROW \/ eeprom.addrBits = cart.width
        BY <1>3 DEF Legal
      <4> QED BY <3>2, <3>6, <4>1 DEF WriteAt
    <3>8. ReadAt(cart, eeprom, r, 0, <<>>)
      BY <3>2, <3>6 DEF ReadAt
    <3>9. EepromAt(cart, eeprom, r, line', <<>>)
      BY <3>4, <3>5, <3>7, <3>8 DEF EepromAt
    <3> QED BY <1>4, <3>1, <3>2, <3>9 DEF ChipAt
  <2>2. CASE FlashOK
    <3>1. cart.type # "eeprom"
      BY <2>2 DEF FlashOK
    <3>2. flash \in FlashChip(cart) /\ Quiet(flash) /\ r \in FlashRequests(cart) /\ line' = FlashLine(cart, r)
      BY <1>1, <1>2, <1>3, <3>1 DEF ChipAt, Requests
    <3>3. FlashAt(cart, flash, r, FlashLine(cart, r), <<>>)
      BY <2>2, <3>2, FlashStart
    <3> QED BY <1>4, <3>1, <3>2, <3>3 DEF ChipAt
  <2> QED BY <1>1, <2>1, <2>2, CartKinds
<1>6. CartInv'
  BY <1>1, <1>2, <1>3, <1>5, CartInvIs
<1>7. Promise!Ask
  BY <1>2, <1>3, PromiseSays
<1> QED BY <1>6, <1>7

\* One access, and at the last of a request the whole of it.
LEMMA AccessKeeps ==
  ASSUME CartInv, Access
  PROVE  CartInv' /\ (Promise!Do \/ UNCHANGED Promise!vars)
<1>1. cart \in CARTS /\ ChipAt(cart, eeprom, flash, request, line, got) /\ Restored(cart, state) /\ Filed(cart, sav)
  BY CartInvIs
<1>2. request # NoRequest /\ cart' = cart /\ sav' = sav /\ state' = state /\ line' = Tail(line)
  BY DEF Access
<1>3. IF Len(line) = 1 THEN request' = NoRequest /\ answer' = Heard(got') ELSE request' = request /\ answer' = answer
  BY DEF Access
<1> DEFINE a == Head(line)
<1>4. CASE EepromOK
  <2> DEFINE n == IF a.do = "write" THEN EepromWrite(eeprom, a.value) ELSE EepromRead(eeprom).chip
             h == IF a.do = "write" THEN got ELSE Append(got, EepromRead(eeprom).bit)
  <2>1. cart.type = "eeprom"
    BY <1>4 DEF EepromOK
  <2>2. eeprom' = n /\ flash' = flash /\ got' = h
    BY <2>1 DEF Access
  <2>3. eeprom \in Chip(cart) /\ request \in EepromRequests(cart.width) /\ EepromAt(cart, eeprom, request, line, got)
    BY <1>1, <1>2, <2>1 DEF ChipAt
  <2>4. EepromOutcome(eeprom, request, line, n, h)
    BY <1>4, <2>3, EepromStep
  <2> HIDE DEF n, h
  <2>5. KeptOf(cart, eeprom, flash) = EepromKept(cart, eeprom) /\ KeptOf(cart, eeprom', flash') = EepromKept(cart, n)
    BY <2>1, <2>2 DEF KeptOf
  <2>6. CASE Len(line) = 1
    <3>1. n \in Chip(cart) /\ n.state = "Idle" /\ EepromKept(cart, n) = Applied(cart, EepromKept(cart, eeprom), request)
          /\ Heard(h) = Told(cart, EepromKept(cart, eeprom), request)
      BY <2>4, <2>6 DEF EepromOutcome
    <3>2. request' = NoRequest /\ answer' = Heard(h)
      <4>1. request' = NoRequest /\ answer' = Heard(got')
        BY <1>3, <2>6
      <4> QED BY <2>2, <4>1
    <3>3. ChipAt(cart, eeprom', flash', request', line', got')
      BY <2>1, <2>2, <3>1, <3>2 DEF ChipAt
    <3>4. CartInv'
      BY <1>1, <1>2, <3>3, CartInvIs
    <3>5. Promise!Do
      BY <1>2, <2>5, <3>1, <3>2, PromiseSays
    <3> QED BY <3>4, <3>5
  <2>7. CASE Len(line) # 1
    <3>1. n \in Chip(cart) /\ n.data = eeprom.data /\ EepromAt(cart, n, request, Tail(line), h)
      BY <2>4, <2>7 DEF EepromOutcome
    <3>2. request' = request /\ answer' = answer
      BY <1>3, <2>7
    <3>3. ChipAt(cart, eeprom', flash', request', line', got')
      BY <1>2, <2>1, <2>2, <2>3, <3>1, <3>2 DEF ChipAt
    <3>4. CartInv'
      BY <1>1, <1>2, <3>3, CartInvIs
    <3>5. EepromKept(cart, n) = EepromKept(cart, eeprom)
      BY <3>1 DEF EepromKept
    <3>6. UNCHANGED Promise!vars
      BY <1>2, <2>5, <3>2, <3>5, PromiseSays
    <3> QED BY <3>4, <3>6
  <2> QED BY <2>6, <2>7
<1>5. CASE FlashOK
  <2> DEFINE n == IF a.do = "write" THEN FlashWrite(flash, a.value) ELSE flash
             h == IF a.do = "write" THEN got ELSE Append(got, FlashRead(flash, a.value))
  <2>1. cart.type = "flash" /\ cart.type # "eeprom"
    BY <1>5 DEF FlashOK
  <2>2. eeprom' = eeprom /\ flash' = n /\ got' = h
    BY <2>1 DEF Access
  <2>3. flash \in FlashChip(cart) /\ request \in FlashRequests(cart) /\ FlashAt(cart, flash, request, line, got)
    BY <1>1, <1>2, <2>1 DEF ChipAt
  <2>4. Outcome(flash, request, line, n, h)
    BY <1>5, <2>3, FlashStep
  <2> HIDE DEF n, h
  <2>5. KeptOf(cart, eeprom, flash) = flash.data /\ KeptOf(cart, eeprom', flash') = n.data
    BY <2>1, <2>2 DEF KeptOf
  <2>6. CASE Len(line) = 1
    <3>1. n \in FlashChip(cart) /\ Quiet(n) /\ n.data = Applied(cart, flash.data, request) /\ h = Told(cart, flash.data, request)
      BY <2>4, <2>6 DEF Outcome
    <3>2. request' = NoRequest /\ answer' = h
      <4>1. request' = NoRequest /\ answer' = Heard(got')
        BY <1>3, <2>6
      <4>2. Heard(got') = got'
        BY <2>1 DEF Heard
      <4> QED BY <2>2, <4>1, <4>2
    <3>3. ChipAt(cart, eeprom', flash', request', line', got')
      BY <2>1, <2>2, <3>1, <3>2 DEF ChipAt
    <3>4. CartInv'
      BY <1>1, <1>2, <3>3, CartInvIs
    <3>5. Promise!Do
      BY <1>2, <2>5, <3>1, <3>2, PromiseSays
    <3> QED BY <3>4, <3>5
  <2>7. CASE Len(line) # 1
    <3>1. n \in FlashChip(cart) /\ n.data = flash.data /\ FlashAt(cart, n, request, Tail(line), h)
      BY <2>4, <2>7 DEF Outcome
    <3>2. request' = request /\ answer' = answer
      BY <1>3, <2>7
    <3>3. ChipAt(cart, eeprom', flash', request', line', got')
      BY <1>2, <2>1, <2>2, <2>3, <3>1, <3>2 DEF ChipAt
    <3>4. CartInv'
      BY <1>1, <1>2, <3>3, CartInvIs
    <3>6. UNCHANGED Promise!vars
      BY <1>2, <2>5, <3>1, <3>2, PromiseSays
    <3> QED BY <3>4, <3>6
  <2> QED BY <2>6, <2>7
<1> QED BY <1>1, <1>4, <1>5, CartKinds

\* Polling an idle chip changes nothing of it.
LEMMA PollKeeps ==
  ASSUME CartInv, Poll
  PROVE  CartInv' /\ UNCHANGED Promise!vars
<1>1. cart \in CARTS /\ ChipAt(cart, eeprom, flash, request, line, got) /\ Restored(cart, state) /\ Filed(cart, sav)
  BY CartInvIs
<1>2. request = NoRequest /\ cart.type = "eeprom" /\ eeprom' = EepromRead(eeprom).chip
      /\ UNCHANGED <<cart, flash, request, line, got, answer, sav, state>>
  BY DEF Poll
<1>3. eeprom.state = "Idle"
  BY <1>1, <1>2 DEF ChipAt
<1>4. EepromRead(eeprom).chip = eeprom
  BY <1>3 DEF EepromRead
<1>5. eeprom' = eeprom
  BY <1>2, <1>4
<1>6. CartInv'
  BY <1>1, <1>2, <1>5, CartInvIs
<1>7. UNCHANGED Promise!vars
  BY <1>2, <1>5, PromiseSays
<1> QED BY <1>6, <1>7

\* A .sav holds what the game reaches.
LEMMA ExportKeeps ==
  ASSUME CartInv, Export
  PROVE  CartInv' /\ Promise!Export
<1>1. cart \in CARTS /\ ChipAt(cart, eeprom, flash, request, line, got) /\ Restored(cart, state) /\ Filed(cart, sav)
  BY CartInvIs
<1>2. UNCHANGED <<cart, eeprom, flash, request, line, got, answer, state>>
  BY DEF Export
<1> DEFINE s == IF cart.type = "eeprom" THEN [i \in 1 .. SaveUnits(eeprom) |-> eeprom.data[i - 1]] ELSE flash.data
<1>3. sav' = <<s>>
  BY DEF Export
<1> HIDE DEF s
<1>4. sav' # <<>> /\ sav'[1] = s
  BY <1>3
<1>5. FileOf(cart, s) /\ File(cart, sav') = <<KeptOf(cart, eeprom, flash)>>
  <2>1. CASE EepromOK
    <3>1. cart.type = "eeprom" /\ cart.type # "flash"
      BY <2>1 DEF EepromOK
    <3>2. eeprom \in Chip(cart) /\ SaveUnits(eeprom) # 0
      BY <1>1, <3>1 DEF ChipAt, Export
    <3>3. s = [i \in 1 .. SaveUnits(eeprom) |-> eeprom.data[i - 1]]
      BY <3>1 DEF s
    <3>4. FileOf(cart, s)
      BY <2>1, <3>2, <3>3, FileExported
    <3>5. [u \in DOMAIN Blank(cart) |-> IF u < Len(s) THEN s[u + 1] ELSE Ones] = EepromKept(cart, eeprom)
      BY <2>1, <3>2, <3>3, FileExported
    <3>6. File(cart, sav') = <<[u \in DOMAIN Blank(cart) |-> IF u < Len(s) THEN s[u + 1] ELSE Ones]>>
      BY <1>4, <3>1 DEF File
    <3> QED BY <3>1, <3>4, <3>5, <3>6 DEF KeptOf
  <2>2. CASE FlashOK
    <3>1. cart.type = "flash" /\ cart.type # "eeprom"
      BY <2>2 DEF FlashOK
    <3>2. flash \in FlashChip(cart) /\ s = flash.data
      BY <1>1, <3>1 DEF ChipAt, s
    <3>3. FileOf(cart, s)
      BY <3>1, <3>2 DEF FileOf, FlashChip
    <3>4. File(cart, sav') = <<s>>
      BY <1>4, <3>1 DEF File
    <3> QED BY <3>1, <3>2, <3>3, <3>4 DEF KeptOf
  <2> QED BY <1>1, <2>1, <2>2, CartKinds
<1>6. Filed(cart, sav')
  BY <1>4, <1>5 DEF Filed
<1>7. CartInv'
  BY <1>1, <1>2, <1>6, CartInvIs
<1>8. Promise!Export
  BY <1>2, <1>5, PromiseSays
<1> QED BY <1>7, <1>8

\* A machine that starts with a .sav reaches what it holds.
LEMMA ImportKeeps ==
  ASSUME CartInv, Import
  PROVE  CartInv' /\ Promise!Import
<1>1. cart \in CARTS /\ ChipAt(cart, eeprom, flash, request, line, got) /\ Restored(cart, state) /\ Filed(cart, sav)
  BY CartInvIs
<1>2. sav # <<>> /\ request' = NoRequest /\ answer' = <<>> /\ UNCHANGED <<cart, sav, state>>
  BY DEF Import
<1>3. FileOf(cart, sav[1])
  BY <1>1, <1>2 DEF Filed
<1>4. File(cart, sav) # <<>>
  BY <1>2 DEF File
<1>5. ChipAt(cart, eeprom', flash', NoRequest, line', got') /\ KeptOf(cart, eeprom', flash') = File(cart, sav)[1]
  <2>1. CASE EepromOK
    <3>1. cart.type = "eeprom" /\ cart.type # "flash"
      BY <2>1 DEF EepromOK
    <3>2. eeprom' = Installed(sav[1])
      BY <3>1 DEF Import
    <3>3. Installed(sav[1]) \in Chip(cart) /\ Installed(sav[1]).state = "Idle"
      BY <1>3, <2>1, FileInstalled
    <3>4. EepromKept(cart, Installed(sav[1]))
          = [u \in DOMAIN Blank(cart) |-> IF u < Len(sav[1]) THEN sav[1][u + 1] ELSE Ones]
      BY <1>3, <2>1, FileInstalled
    <3>5. File(cart, sav)[1] = [u \in DOMAIN Blank(cart) |-> IF u < Len(sav[1]) THEN sav[1][u + 1] ELSE Ones]
      BY <1>2, <3>1 DEF File
    <3> QED BY <3>1, <3>2, <3>3, <3>4, <3>5 DEF ChipAt, KeptOf
  <2>2. CASE FlashOK
    <3>1. cart.type = "flash" /\ cart.type # "eeprom"
      BY <2>2 DEF FlashOK
    <3>2. flash' = FlashInstalled(NewFlash(cart), sav[1])
      BY <3>1 DEF Import
    <3>3. /\ FlashInstalled(NewFlash(cart), sav[1]) \in FlashChip(cart) /\ Quiet(FlashInstalled(NewFlash(cart), sav[1]))
          /\ FlashInstalled(NewFlash(cart), sav[1]).data = sav[1]
      BY <1>3, <2>2, FileInstalled
    <3>5. File(cart, sav)[1] = sav[1]
      BY <1>2, <3>1 DEF File
    <3> QED BY <3>1, <3>2, <3>3, <3>5 DEF ChipAt, KeptOf
  <2> QED BY <1>1, <2>1, <2>2, CartKinds
<1>6. CartInv'
  BY <1>1, <1>2, <1>5, CartInvIs
<1>7. Promise!Import
  BY <1>2, <1>4, <1>5, PromiseSays
<1> QED BY <1>6, <1>7

\* A save state keeps the chip in the middle of a request.
LEMMA SaveKeeps ==
  ASSUME CartInv, Save
  PROVE  CartInv' /\ Promise!Save
<1>1. cart \in CARTS /\ ChipAt(cart, eeprom, flash, request, line, got) /\ Restored(cart, state) /\ Filed(cart, sav)
  BY CartInvIs
<1>2. UNCHANGED <<cart, eeprom, flash, request, line, got, answer, sav>>
  BY DEF Save
<1> DEFINE s == [eeprom |-> eeprom, flash |-> flash, request |-> request, line |-> line, got |-> got, answer |-> answer]
<1>3. state' = <<s>>
  BY DEF Save
<1>4. s.eeprom = eeprom /\ s.flash = flash /\ s.request = request /\ s.line = line /\ s.got = got /\ s.answer = answer
  OBVIOUS
<1> HIDE DEF s
<1>5. state' # <<>> /\ state'[1] = s
  BY <1>3
<1>6. Restored(cart, state')
  BY <1>1, <1>4, <1>5 DEF Restored
<1>7. Restore(cart, state') = <<[kept |-> KeptOf(cart, eeprom, flash), asked |-> request, answer |-> answer]>>
  BY <1>4, <1>5 DEF Restore
<1>8. CartInv'
  BY <1>1, <1>2, <1>6, CartInvIs
<1>9. Promise!Save
  BY <1>2, <1>7, PromiseSays
<1> QED BY <1>8, <1>9

\* The chip goes on from the middle of the request a save state was taken in.
LEMMA LoadKeeps ==
  ASSUME CartInv, Load
  PROVE  CartInv' /\ Promise!Load
<1>1. cart \in CARTS /\ ChipAt(cart, eeprom, flash, request, line, got) /\ Restored(cart, state) /\ Filed(cart, sav)
  BY CartInvIs
<1>2. state # <<>> /\ UNCHANGED <<cart, sav, state>>
      /\ eeprom' = state[1].eeprom /\ flash' = state[1].flash /\ request' = state[1].request /\ line' = state[1].line
      /\ got' = state[1].got /\ answer' = state[1].answer
  BY DEF Load
<1>3. ChipAt(cart, eeprom', flash', request', line', got')
  BY <1>1, <1>2 DEF Restored
<1> DEFINE r == [kept |-> KeptOf(cart, state[1].eeprom, state[1].flash), asked |-> state[1].request, answer |-> state[1].answer]
<1>4. Restore(cart, state) = <<r>>
  BY <1>2 DEF Restore
<1>5. r.kept = KeptOf(cart, state[1].eeprom, state[1].flash) /\ r.asked = state[1].request /\ r.answer = state[1].answer
  OBVIOUS
<1> HIDE DEF r
<1>6. Restore(cart, state) # <<>> /\ Restore(cart, state)[1] = r
  BY <1>4
<1>7. CartInv'
  BY <1>1, <1>2, <1>3, CartInvIs
<1>8. Promise!Load
  BY <1>2, <1>5, <1>6, PromiseSays
<1> QED BY <1>7, <1>8

\* Every request of the game to the cartridge's chip does what it asks, at once
\* and whole, however it is clocked in, and a .sav or a save state holds all of
\* it (system-bus.ts, flash.ts, gba.ts).
THEOREM ChipsKeepWhatIsAsked == CartSpec => ChipKeepsAsAsked
<1>1. CartInit => CartInv /\ Promise!Init
  BY StartsQuiet
<1>2. CartInv /\ [CartNext]_cartVars => CartInv' /\ [Promise!Next]_(Promise!vars)
  <2> SUFFICES ASSUME CartInv, [CartNext]_cartVars PROVE CartInv' /\ [Promise!Next]_(Promise!vars)
    OBVIOUS
  <2>1. CASE Ask
    BY <2>1, AskKeeps DEF Promise!Next
  <2>2. CASE Access
    BY <2>2, AccessKeeps DEF Promise!Next
  <2>3. CASE Poll
    BY <2>3, PollKeeps
  <2>4. CASE Export
    BY <2>4, ExportKeeps DEF Promise!Next
  <2>5. CASE Import
    BY <2>5, ImportKeeps DEF Promise!Next
  <2>6. CASE Save
    BY <2>6, SaveKeeps DEF Promise!Next
  <2>7. CASE Load
    BY <2>7, LoadKeeps DEF Promise!Next
  <2>8. CASE UNCHANGED cartVars
    <3>1. UNCHANGED <<cart, eeprom, flash, request, line, got, answer, sav, state>>
      BY <2>8 DEF cartVars
    <3>2. CartInv'
      BY <3>1, CartInvIs
    <3>3. UNCHANGED Promise!vars
      BY <3>1, PromiseSays
    <3> QED BY <3>2, <3>3
  <2> QED BY <2>1, <2>2, <2>3, <2>4, <2>5, <2>6, <2>7, <2>8 DEF CartNext
<1> QED BY <1>1, <1>2, PTL DEF CartSpec, ChipKeepsAsAsked, Promise!Spec
==============================================================================
