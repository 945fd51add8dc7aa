--------------------------------- MODULE Bus ---------------------------------
(* The system bus (gba-emulator system-bus.ts): what answers at an address, *)
(* for the CPU and DMA at each width and for a debugger; what a store of    *)
(* each width changes; the I/O halfwords and their byte lanes; the BIOS     *)
(* latch; watchpoints; and the value a read of nothing gives, which depends *)
(* on what last drove the bus.                                              *)
(*                                                                          *)
(* An address is <<region, offset>>, a byte the set of its 1 bits, a value  *)
(* the sequence of its bytes, the low one first.                            *)
EXTENDS Integers, Sequences, FiniteSets, SequencesExt, TLC

CONSTANTS ADDRESSES,   \* the word-aligned addresses accesses are around
          DATA,        \* the bytes stored
          REGISTERS,   \* the offsets of the I/O halfwords in use
          SAVE,        \* the cartridge's save type
          ROM_BYTES,   \* the length of the ROM, whole words
          Rom(_), Bios(_),   \* their words
          CODE,        \* where instructions are fetched from
          WATCHED,     \* the watched ranges, <<first address, length>>
          STEPS        \* bound: accesses, pokes and instructions of a behaviour

VARIABLES mem,      \* canonical cell -> byte
          io,       \* I/O offset -> halfword
          latch,    \* the last BIOS word read in the BIOS
          cpu,      \* [pc, thumb, opcodes]: registers[15] and the two opcodes fetched
          dma,      \* [moves, pc, value]
          fired,    \* the watched ranges the last access was reported to
          last,     \* what the last step did, and the memory it found
          steps
vars == <<mem, io, latch, cpu, dma, fired, last, steps>>

Plus(a, n) == <<a[1], a[2] + n>>
AlignTo(a, w) == <<a[1], a[2] - (a[2] % w)>>
ByteOf(n, i) == {k \in 0 .. 7 : (n \div 2 ^ (8 * i + k)) % 2 = 1}
Half(v, n) == SubSeq(v, n + 1, n + 2)   \* the halfword of a word on lane n

BIOS_SIZE == 16384
SRAM_BYTES == 32768
FLASH_BANK == 65536
IO_SIZE == 1024
MEMORY_CONTROL == 2048
IsFlash == SAVE \in {"flash512", "flash1m"}
HasSaveWindow == SAVE = "sram" \/ IsFlash

-----------------------------------------------------------------------------
(* Where an address leads.                                                 *)
BitmapMode == io[0][1] \cap {0, 1, 2} \notin {{}, {0}, {1}}
ObjVramBoundary == IF BitmapMode THEN 81920 ELSE 65536

Nowhere == -1
VramOffset(offset) ==
  LET o == offset % 131072
  IN  IF o < 98304 THEN o ELSE IF o < 114688 /\ BitmapMode THEN Nowhere ELSE o - 32768

CanonicalAddress(a) ==
  CASE a[1] = 2 -> <<2, a[2] % 262144>>
    [] a[1] = 3 -> <<3, a[2] % 32768>>
    [] a[1] \in {5, 7} -> <<a[1], a[2] % 1024>>
    [] a[1] = 6 -> IF VramOffset(a[2]) = Nowhere THEN a ELSE <<6, VramOffset(a[2])>>
    [] a[1] \in {14, 15} -> <<14, a[2] % (IF SAVE = "sram" THEN SRAM_BYTES ELSE FLASH_BANK)>>
    [] OTHER -> a

IsIoMapped(offset) == offset < IO_SIZE \/ (offset % 65536) - (offset % 4) = MEMORY_CONTROL

\* The EEPROM takes the top of the ROM's addresses.
IsEeprom(a) == a[1] = 13 /\ SAVE \in {"eeprom", "none"} /\ (ROM_BYTES <= 16777216 \/ a[2] >= 16776960)
RomOffset(a) == (a[1] % 2) * 16777216 + a[2]

DescribeAddress(a) ==
  CASE a[1] = 0 -> a[2] < BIOS_SIZE
    [] a[1] = 4 -> IsIoMapped(a[2])
    [] a[1] \in 8 .. 13 -> IsEeprom(a) \/ RomOffset(a) < ROM_BYTES
    [] OTHER -> a[1] \in {2, 3, 5, 6, 7, 14, 15}

-----------------------------------------------------------------------------
(* The CPU and the bus's last value.                                       *)
Width == IF cpu.thumb THEN 2 ELSE 4
InBios(pc) == pc[1] = 0 /\ pc[2] < BIOS_SIZE

\* While an instruction runs, registers[15] is past it.
Registers15 == IF cpu.runs THEN Plus(cpu.at, Width) ELSE cpu.at

CellIn(m, c) == IF c \in DOMAIN m THEN m[c] ELSE {}
CellsIn(m, a, n) == [i \in 1 .. n |-> CellIn(m, CanonicalAddress(Plus(a, i - 1)))]
Cell(c) == CellIn(mem, c)
CellsAt(a, n) == CellsIn(mem, a, n)

OpenBus ==
  LET fetched == cpu.opcodes[2]
      decoded == cpu.opcodes[1]
      upper == cpu.at[2] % 4 = 2
      next == IF cpu.at[1] = 0 THEN Half(Bios(AlignTo(Plus(cpu.at, 6), 4)), (cpu.at[2] + 6) % 4)
              ELSE CellsAt(Plus(cpu.at, 6), 2)
  IN  CASE dma.moves \/ <<Registers15[1], Registers15[2] - Width>> = dma.pc -> dma.value
        [] OTHER ->
             CASE ~cpu.thumb -> fetched
               [] cpu.thumb /\ cpu.at[1] \in {0, 7} -> IF upper THEN decoded \o fetched ELSE fetched \o next
               [] cpu.thumb /\ cpu.at[1] = 3 -> IF upper THEN decoded \o fetched ELSE fetched \o decoded
               [] OTHER -> fetched \o fetched

\* What a read of the BIOS gives, and what it leaves in the latch.
ReadBios32(a) ==
  IF a[2] >= BIOS_SIZE THEN OpenBus ELSE IF InBios(Registers15) THEN Bios(a) ELSE latch

-----------------------------------------------------------------------------
(* I/O                                                                     *)
Merge(current, value, lanes) == [k \in 1 .. 2 |-> IF k \in lanes THEN value[k] ELSE current[k]]
Masked(v, mask) == [k \in 1 .. 2 |-> v[k] \cap mask[k]]
Full == 0 .. 7

DISPSTAT == 4
IF_ == 514
WAITCNT == 516
POSTFLG == 768

MemoryControlHalf(offset) == MEMORY_CONTROL + (offset % 4)

\* How a halfword of the register file reads back.
ReadMask == 0 :> <<Full, Full>> @@ 2 :> <<{0}, {}>> @@ 8 :> <<Full, Full \ {5}>> @@ 72 :> <<0 .. 5, 0 .. 5>>
              @@ 80 :> <<Full, 0 .. 5>> @@ 310 :> <<{}, {}>>
WriteOnly(offset) == offset \in {16, 40, 76, 160}
DmaAddress(offset) == offset \in {176, 178}
Unused(offset) == offset \in {224, 258}

IoRead16(offset, peek) ==
  CASE offset >= IO_SIZE -> IF IsIoMapped(offset) THEN io[MemoryControlHalf(offset)]
                            ELSE IF peek THEN <<{}, {}>> ELSE Half(OpenBus, offset % 4)
    [] offset < IO_SIZE /\ offset \in DOMAIN ReadMask -> Masked(io[offset], ReadMask[offset])
    [] WriteOnly(offset) \/ DmaAddress(offset) -> IF peek THEN io[offset] ELSE Half(OpenBus, offset % 4)
    [] Unused(offset) -> IF peek THEN <<{}, {}>> ELSE Half(OpenBus, offset % 4)
    [] OTHER -> io[offset]

\* Mutant: a byte stored takes the other byte with it.
IoWrite16Whole(regs, offset, value, lanes, inBios) ==
  LET stored == Merge(regs[IF offset >= IO_SIZE THEN MemoryControlHalf(offset) ELSE offset], value, {1, 2})
  IN  IF offset >= IO_SIZE THEN regs ELSE [regs EXCEPT ![offset] = stored]

\* The register file after the lanes of a halfword are written.
IoWrite16(regs, offset, value, lanes, inBios) ==
  LET at == IF offset >= IO_SIZE THEN MemoryControlHalf(offset) ELSE offset
      stored == Merge(regs[at], value, lanes)
  IN  CASE offset >= IO_SIZE ->
             IF ~IsIoMapped(offset) THEN regs
             ELSE [regs EXCEPT ![at] = Masked(stored, IF at = MEMORY_CONTROL THEN <<{0, 1, 2, 3, 5}, {}>> ELSE <<{}, Full>>)]
        [] offset \in {6, 304} \/ Unused(offset) -> regs
        [] offset = IF_ -> [regs EXCEPT ![at] = [k \in 1 .. 2 |-> IF k \in lanes THEN @[k] \ value[k] ELSE @[k]]]
        [] offset = DISPSTAT -> [regs EXCEPT ![at] = <<(@[1] \cap 0 .. 2) \cup (stored[1] \ 0 .. 2), stored[2]>>]
        [] offset = WAITCNT -> [regs EXCEPT ![at] = Masked(stored, <<Full, Full \ {5, 7}>>)]
        [] offset = POSTFLG -> IF inBios /\ 1 \in lanes THEN [regs EXCEPT ![at][1] = @ \cup (value[1] \cap {0})] ELSE regs
        [] OTHER -> [regs EXCEPT ![at] = stored]

\* A store of any width, as the halfwords and lanes it drives.
MmioWrite(regs, a, value, inBios) ==
  LET offset == a[2] - (a[2] % 2)
  IN  CASE Len(value) = 1 -> IoWrite16(regs, offset, <<value[1], value[1]>>, {(a[2] % 2) + 1}, inBios)
        [] Len(value) = 2 -> IoWrite16(regs, offset, value, {1, 2}, inBios)
        [] Len(value) = 4 ->
             LET low == AlignTo(a, 4)[2]
             IN  IoWrite16(IoWrite16(regs, low, Half(value, 0), {1, 2}, inBios), low + 2, Half(value, 2), {1, 2}, inBios)

-----------------------------------------------------------------------------
(* Reads                                                                   *)
\* Mutant: past the end, both halves of a word are the first's address.
ReadRomRepeated(a, w) ==
  IF RomOffset(a) + w - 1 < ROM_BYTES THEN SubSeq(Rom(AlignTo(a, 4)), (a[2] % 4) + 1, (a[2] % 4) + w)
  ELSE [i \in 1 .. w |-> ByteOf(a[2] \div 2, (a[2] + i - 1) % 2)]

\* Past the cartridge's end the lines hold the address latched on them.
ReadRom(a, w) ==
  IF RomOffset(a) + w - 1 < ROM_BYTES THEN SubSeq(Rom(AlignTo(a, 4)), (a[2] % 4) + 1, (a[2] % 4) + w)
  ELSE [i \in 1 .. w |-> ByteOf(Plus(a, ((i - 1) \div 2) * 2)[2] \div 2, (a[2] + i - 1) % 2)]

Lane(word, a, w) == SubSeq(word, (a[2] % 4) + 1, (a[2] % 4) + w)

ReadSave8(a) == IF SAVE = "sram" THEN Cell(CanonicalAddress(a)) ELSE IF IsFlash THEN Cell(CanonicalAddress(a)) ELSE Full

Read(address, w) ==
  LET a == AlignTo(address, w)
  IN  CASE a[1] = 0 -> Lane(ReadBios32(AlignTo(a, 4)), a, w)
        [] a[1] \in {2, 3, 5, 7} -> CellsAt(a, w)
        [] a[1] = 6 -> IF VramOffset(a[2]) = Nowhere THEN [i \in 1 .. w |-> {}] ELSE CellsAt(a, w)
        [] a[1] = 4 -> IF w = 4 THEN IoRead16(a[2], FALSE) \o IoRead16(a[2] + 2, FALSE)
                       ELSE SubSeq(IoRead16(a[2] - (a[2] % 2), FALSE), (a[2] % 2) + 1, (a[2] % 2) + w)
        [] a[1] \in 8 .. 13 -> IF IsEeprom(a) /\ w > 1 THEN [i \in 1 .. w |-> IF i = 1 THEN {0} ELSE {}] ELSE ReadRom(a, w)
        [] a[1] \in {14, 15} -> [i \in 1 .. w |-> ReadSave8(address)]
        [] OTHER -> Lane(OpenBus, a, w)

\* A debugger's read of one byte: without side effects, NoByte where nothing is.
NoByte == {-1}
PeekByte(a) ==
  CASE ~DescribeAddress(a) \/ IsEeprom(a) \/ (a[1] \in {14, 15} /\ ~HasSaveWindow) -> NoByte
    [] a[1] = 0 /\ DescribeAddress(a) -> Bios(AlignTo(a, 4))[(a[2] % 4) + 1]
    [] a[1] = 4 /\ DescribeAddress(a) -> IoRead16(a[2] - (a[2] % 2), TRUE)[(a[2] % 2) + 1]
    [] a[1] \in 8 .. 13 /\ DescribeAddress(a) /\ ~IsEeprom(a) -> ReadRom(a, 1)[1]
    [] OTHER -> Cell(CanonicalAddress(a))

-----------------------------------------------------------------------------
(* Stores                                                                  *)
Put(m, a, value) ==
  [c \in DOMAIN m |-> LET lanes == {i \in 1 .. Len(value) : CanonicalAddress(Plus(a, i - 1)) = c}
                      IN  IF lanes = {} THEN m[c] ELSE value[CHOOSE i \in lanes : TRUE]]
Twice(m, a, byte) == Put(m, AlignTo(a, 2), <<byte, byte>>)

Dropped(a, w) ==
  \/ a[1] = 6 /\ VramOffset(a[2]) = Nowhere
  \/ a[1] = 6 /\ w = 1 /\ VramOffset(a[2]) >= ObjVramBoundary
  \/ a[1] = 7 /\ w = 1
  \/ a[1] \in {14, 15} /\ ~HasSaveWindow
  \/ a[1] \notin {2, 3, 4, 5, 6, 7, 14, 15}

StoreMem(a, value) ==
  LET w == Len(value)
  IN  CASE Dropped(a, w) \/ a[1] = 4 \/ (IsFlash /\ a[1] \in {14, 15}) -> mem
        [] ~Dropped(a, w) /\ a[1] \in {14, 15} /\ ~IsFlash -> Put(mem, a, <<value[(a[2] % w) + 1]>>)
        [] ~Dropped(a, w) /\ a[1] \in {5, 6} /\ w = 1 -> Twice(mem, a, value[1])
        [] OTHER -> Put(mem, AlignTo(a, w), value)

Overlaps(range, base, size) ==
  base[1] = range[1][1] /\ base[2] < range[1][2] + range[2] /\ base[2] + size > range[1][2]

\* Mutant: watchpoints compare the address as it was stored to.
NotifyWriteUncanonical(a, w) == IF Dropped(a, w) THEN {} ELSE {range \in WATCHED : Overlaps(range, AlignTo(a, w), w)}

NotifyWrite(a, w) ==
  IF Dropped(a, w) THEN {} ELSE {range \in WATCHED : Overlaps(range, CanonicalAddress(AlignTo(a, w)), w)}

\* What a debugger's bytes may go to.
Pokable(a) ==
  \/ a[1] \in {2, 3, 5, 7} \/ (a[1] = 6 /\ VramOffset(a[2]) # Nowhere)
  \/ a[1] = 4 /\ IsIoMapped(a[2])
  \/ a[1] \in {14, 15} /\ HasSaveWindow

-----------------------------------------------------------------------------
(* Actions                                                                 *)
FetchedIn(m, a, thumb) ==
  LET w == IF thumb THEN 2 ELSE 4
  IN  CASE a[1] = 0 -> Lane(Bios(AlignTo(a, 4)), a, w)
        [] a[1] \in 8 .. 13 -> ReadRom(a, w)
        [] OTHER -> CellsIn(m, a, w)
Pipeline(m, a, thumb) == <<FetchedIn(m, a, thumb), FetchedIn(m, Plus(a, IF thumb THEN 2 ELSE 4), thumb)>>

Tick == steps < STEPS /\ steps' = steps + 1
Did(what, a, value) == last' = [did |-> what, at |-> a, value |-> value, mem |-> mem, io |-> io,
                                driven |-> IF last.did = "dma" THEN dma.value ELSE cpu.opcodes[2]]

\* The instruction begins: the next opcode is fetched.
Begin ==
  /\ ~cpu.runs /\ ~dma.moves /\ Tick
  /\ cpu' = [cpu EXCEPT !.runs = TRUE, !.opcodes = <<cpu.opcodes[2], FetchedIn(mem, Plus(cpu.at, 2 * Width), cpu.thumb)>>]
  /\ latch' = IF InBios(cpu.at) THEN Bios(AlignTo(Plus(cpu.at, 2 * Width), 4)) ELSE latch
  /\ UNCHANGED <<mem, io, dma, fired, last>>

\* ... and ends, falling through or at a branch's target.
Ends ==
  \E a \in CODE :
    cpu' = IF a = Plus(cpu.at, Width) THEN [cpu EXCEPT !.runs = FALSE, !.at = a]
           ELSE [cpu EXCEPT !.runs = FALSE, !.at = a, !.opcodes = Pipeline(mem', a, cpu.thumb)]

CpuLoad(a, w) ==
  /\ cpu.runs
  /\ fired' = {}
  /\ latch' = IF a[1] = 0 /\ a[2] < BIOS_SIZE /\ InBios(Registers15) THEN Bios(AlignTo(a, 4)) ELSE latch
  /\ Did("load", a, Read(a, w))
  /\ UNCHANGED <<mem, io, dma, steps>>
  /\ Ends

CpuStore(a, value) ==
  /\ cpu.runs
  /\ mem' = StoreMem(a, value)
  /\ io' = IF a[1] = 4 THEN MmioWrite(io, a, value, InBios(Registers15)) ELSE io
  /\ fired' = NotifyWrite(a, Len(value))
  /\ Did("store", a, value)
  /\ UNCHANGED <<latch, dma, steps>>
  /\ Ends

\* Between two instructions a DMA takes the bus, moves units and hands it back.
DmaTakes ==
  /\ ~cpu.runs /\ ~dma.moves /\ Tick
  /\ dma' = [dma EXCEPT !.moves = TRUE]
  /\ UNCHANGED <<mem, io, latch, cpu, fired, last>>

DmaUnit(src, dst) ==
  /\ dma.moves
  /\ Tick
  /\ LET value == IF src[1] < 2 THEN dma.value ELSE Read(src, 4)
     IN  /\ mem' = StoreMem(dst, value)
         /\ io' = IF dst[1] = 4 THEN MmioWrite(io, dst, value, InBios(Registers15)) ELSE io
         /\ dma' = [dma EXCEPT !.value = value]
         /\ fired' = NotifyWrite(dst, 4)
         /\ Did("dma", dst, value)
  /\ UNCHANGED <<latch, cpu>>

DmaHandsBack ==
  /\ dma.moves /\ last.did = "dma"
  /\ dma' = [dma EXCEPT !.moves = FALSE, !.pc = Registers15]
  /\ UNCHANGED <<mem, io, latch, cpu, fired, last, steps>>

\* Mutant: the addresses are compared as they came.
RefetchesUncanonical(a, n) ==
  \E i \in 1 .. n : LET c == Plus(a, i - 1) IN c[1] = cpu.at[1] /\ c[2] - cpu.at[2] \in 0 .. 2 * Width - 1

\* Whether one of `n` bytes at `a` lands on the two opcodes fetched.
Refetches(a, n) ==
  LET first == CanonicalAddress(AlignTo(cpu.at, Width))
  IN  \E i \in 1 .. n : LET c == CanonicalAddress(Plus(a, i - 1))
                        IN  c[1] = first[1] /\ c[2] - first[2] \in 0 .. 2 * Width - 1

\* A debugger's write of bytes up to the first that is refused, and the fetch
\* of the opcodes it landed on (poke, refetchOverwrittenCode).
PokeBytes(a, bytes) ==
  LET refused == {i \in 1 .. Len(bytes) : ~Pokable(Plus(a, i - 1))}
      written == SubSeq(bytes, 1, Len(bytes) - Cardinality({j \in 1 .. Len(bytes) : \E i \in refused : i <= j}))
  IN  /\ ~cpu.runs /\ ~dma.moves /\ Tick
      /\ mem' = IF a[1] = 4 THEN mem ELSE Put(mem, a, written)
      /\ io' = IF a[1] # 4 THEN io
               ELSE FoldLeft(LAMBDA regs, i : MmioWrite(regs, Plus(a, i - 1), <<written[i]>>, InBios(Registers15)),
                             io, [i \in 1 .. Len(written) |-> i])
      /\ cpu' = IF Refetches(a, Len(written)) THEN [cpu EXCEPT !.opcodes = Pipeline(mem', cpu.at, cpu.thumb)]
                ELSE cpu
      /\ fired' = {}
      /\ Did("poke", a, written)
      /\ UNCHANGED <<latch, dma>>

Values(w) == {[i \in 1 .. w |-> d[((i - 1) % Len(d)) + 1]] : d \in DATA}
Spots(w) == {Plus(a, k) : a \in ADDRESSES, k \in {n \in 0 .. 3 : n % w = 0}}

Init ==
  /\ io = [offset \in REGISTERS |-> IF offset = 304 THEN <<Full, {0, 1}>> ELSE <<{}, {}>>]
  /\ mem = [c \in {c \in {CanonicalAddress(Plus(a, k)) : a \in ADDRESSES \cup CODE, k \in 0 .. 3} : c[1] \in {2, 3, 5, 6, 7, 14}} |-> IF c[1] = 14 THEN Full ELSE {}]
  /\ latch = <<{}, {1}, {2}, {3}>>
  /\ \E a \in CODE, thumb \in BOOLEAN :
       cpu = [at |-> a, thumb |-> thumb, runs |-> FALSE, opcodes |-> Pipeline(mem, a, thumb)]
  /\ dma = [moves |-> FALSE, pc |-> <<-1, -1>>, value |-> <<{7}, {6}, {5}, {4}>>]
  /\ fired = {}
  /\ last = [did |-> "nothing", at |-> <<0, 0>>, value |-> <<>>, mem |-> mem, io |-> io, driven |-> <<>>]
  /\ steps = 0

Next ==
  \/ Begin
  \/ \E w \in {1, 2, 4} : \E a \in ADDRESSES : CpuLoad(a, w)
  \/ \E w \in {1, 2, 4} : \E a \in Spots(w), v \in Values(w) : CpuStore(a, v)
  \/ DmaTakes \/ DmaHandsBack
  \/ \E src, dst \in ADDRESSES : DmaUnit(src, dst)
  \/ \E a \in ADDRESSES, v \in Values(4) : PokeBytes(a, v)

Spec == Init /\ [][Next]_vars

-----------------------------------------------------------------------------
(* Properties *)

\* At every width, through every mirror and to a debugger, one memory answers:
\* a wide read is its narrow ones side by side, two addresses of one cell read
\* alike, what a debugger can read is what the CPU reads there, and nothing
\* that decodes to nothing is shown (read8, read16, read32, peek,
\* describeAddress, #canonicalAddress, which each decode the address anew).
OneMemory ==
  \A a \in ADDRESSES :
    /\ a[1] \notin {14, 15} /\ ~IsEeprom(a) =>
         /\ Read(a, 4) = Read(a, 2) \o Read(Plus(a, 2), 2)
         /\ Read(a, 2) = Read(a, 1) \o Read(Plus(a, 1), 1)
    /\ \A k \in 0 .. 3 :
         LET b == Plus(a, k)
             hidden == \/ a[1] = 0
                       \/ a[1] = 4 /\ LET h == b[2] - (b[2] % 2) IN WriteOnly(h) \/ DmaAddress(h) \/ Unused(h)
         IN  /\ PeekByte(b) # NoByte => DescribeAddress(b) /\ (hidden \/ Read(b, 1) = <<PeekByte(b)>>)
             /\ PeekByte(CanonicalAddress(b)) = PeekByte(b)

Changed == {c \in DOMAIN mem : mem[c] # last.mem[c]}

\* A store changes what it addresses, whole and nothing else; a watchpoint on
\* any byte it was addressed to hears of it whichever mirror it came through;
\* and a halfword stored at once is its two bytes stored one after the other
\* (write8, write16, write32, #notifyWrite, #ioWrite16).
StoresLand ==
  last.did \in {"store", "dma"} =>
    LET a == last.at
        w == Len(last.value)
        base == CanonicalAddress(AlignTo(a, w))
        reach == {CanonicalAddress(Plus(AlignTo(a, w), i)) : i \in 0 .. w - 1}
        twins == {CanonicalAddress(Plus(AlignTo(a, 2), i)) : i \in 0 .. 1}
    IN  /\ Changed \subseteq reach \cup (IF w = 1 /\ a[1] \in {5, 6} THEN twins ELSE {})
        /\ Changed # {} /\ a[1] \notin {14, 15} => \A i \in 1 .. w : mem[CanonicalAddress(Plus(AlignTo(a, w), i - 1))] = last.value[i]
        /\ \A range \in WATCHED :
             (\E c \in Changed \cap reach : c[1] = range[1][1] /\ c[2] - range[1][2] \in 0 .. range[2] - 1) => range \in fired
        /\ fired # {} => ~Dropped(a, w)
        /\ \A offset \in REGISTERS :
             ~(\E i \in 0 .. w - 1 : AlignTo(a, w)[2] + i \in {offset, offset + 1}) /\ a[2] < IO_SIZE => io[offset] = last.io[offset]
        /\ a[1] = 4 => \A offset \in REGISTERS, d \in DATA, inBios \in BOOLEAN :
             LET low == MmioWrite(io, <<4, offset>>, <<d[1]>>, inBios)
             IN  MmioWrite(io, <<4, offset>>, <<d[1], d[2]>>, inBios) = MmioWrite(low, <<4, offset + 1>>, <<d[2]>>, inBios)

\* Code a debugger writes over is the code that runs next, even where the CPU
\* has fetched it already and whichever mirror it was written through
\* (refetchOverwrittenCode: "the edited code is what runs next").
PokedCodeRuns ==
  last.did = "poke" /\ ~cpu.runs =>
    LET written == {CanonicalAddress(Plus(last.at, i - 1)) : i \in 1 .. Len(last.value)}
        code(n) == {CanonicalAddress(Plus(cpu.at, (n - 1) * Width + i)) : i \in 0 .. Width - 1}
    IN  \A n \in 1 .. 2 : code(n) \cap written # {} => cpu.opcodes[n] = Pipeline(mem, cpu.at, cpu.thumb)[n]

=============================================================================
