--------------------------------- MODULE Cpu ---------------------------------
(***************************************************************************)
(* `ArmCpu` (packages/arm-emulator/src/arm-cpu.ts): the ARM7TDMI with both *)
(* its instruction sets, its pipeline and the bus accesses it pays for.  A *)
(* processor is a record of Banks.tla with                                 *)
(*   pipe     the address, decoded and fetched opcode of the pipeline,     *)
(*   halted   that it came to the sentinel return address,                 *)
(*   mem      the words it can reach, mirrored over its address space,     *)
(*   bus      what the step in progress paid for, in order,                *)
(*   seq      that the fetch which ends it is a sequential access.         *)
(* An opcode is a word or halfword of memory; which instruction one        *)
(* encodes is ArmIsa's and ThumbIsa's to say, so code can be stored and    *)
(* loaded like data.  Stubs of external functions, execution watches and   *)
(* the instruction hooks' arguments are left out.                          *)
(***************************************************************************)
EXTENDS Alu, Banks, Sequences, SequencesExt

CONSTANTS
  MEM_WORDS,        \* bound: the words of memory
  ArmIsa,           \* the instruction each ARM opcode encodes
  ThumbIsa,         \* the instruction each Thumb opcode encodes
  Sentinel,         \* the return address that halts
  HleCalls,         \* the numbers of the software interrupts a host runs
  MultiplyCarry(_, _, _), \* multiply-carry.ts: the carry a multiply leaves, given what it adds to
  MAX_IRQS,     \* bound: interrupts taken
  MAX_FLUSHES,  \* bound: times the debugger flushes or refuses
  HandlerCells, \* the words of memory the interrupt's handler writes
  TestWords, TestAmounts  \* bound: operands the shifter and adder are tried on

ASSUME CpuAssumption == MEM_WORDS \in Nat \ {0} /\ Sentinel \in Word /\ Sentinel % 4 = 0

Empty == Wrap - 1   \* the address of a flushed pipeline, odd as no fetch is

IsSentinel(a) == a - (a % 4) = Sentinel

\* The CPSR as a word: its flags on top, the control byte at the bottom.
PsrWord(p) ==
  LET weight(b, k) == IF b THEN 2 ^ k ELSE 0
  IN  p.mode + weight(p.t, 5) + weight(p.f, 6) + weight(p.i, 7) + weight(p.v, W - 4)
      + weight(p.c, W - 3) + weight(p.z, W - 2) + weight(p.n, W - 1)

PsrOf(w) == [mode |-> w % 32, t |-> Bit(w, 5), f |-> Bit(w, 6), i |-> Bit(w, 7),
             v |-> Bit(w, W - 4), c |-> Bit(w, W - 3), z |-> Bit(w, W - 2), n |-> Bit(w, W - 1)]

-----------------------------------------------------------------------------
(* Memory: four bytes to a word, the lowest first.  It gives the aligned   *)
(* word or halfword of an address; the CPU rotates what a misaligned load  *)
(* reads.                                                                  *)
Cell(a) == (a \div 4) % MEM_WORDS

ReadAt(c, a, offset, bytes) == (c.mem[Cell(a)] \div 2 ^ (ByteBits * offset)) % 2 ^ (ByteBits * bytes)

Read8(c, a)  == ReadAt(c, a, a % 4, 1)
Read16(c, a) == ReadAt(c, a, (a % 4) - (a % 2), 2)
Read32(c, a) == c.mem[Cell(a)]

WriteAt(c, a, offset, bytes, v) ==
  LET low == 2 ^ (ByteBits * offset)
  IN  [c EXCEPT !.mem[Cell(a)] = @ + ((v % 2 ^ (ByteBits * bytes)) - ReadAt(c, a, offset, bytes)) * low]

Write8(c, a, v)  == WriteAt(c, a, a % 4, 1, v)
Write16(c, a, v) == WriteAt(c, a, (a % 4) - (a % 2), 2, v)
Write32(c, a, v) == WriteAt(c, a, 0, 4, v)

LoadWord(c, a)     == Rotated(Read32(c, a), (a % 4) * ByteBits)
LoadHalfword(c, a) == Rotated(Read16(c, a), (a % 2) * ByteBits)

LoadSignedHalfword(c, a) ==
  IF a % 2 = 1 THEN SignExtend(Read16(c, a) \div 2 ^ ByteBits, ByteBits)
  ELSE SignExtend(Read16(c, a), 2 * ByteBits)

\* A datum of a load or store: its bytes and how it is read into a register.
Bytes(kind) == CASE kind = "word" -> 4 [] kind \in {"half", "shalf"} -> 2 [] kind \in {"byte", "sbyte"} -> 1

LoadKind(c, a, kind) ==
  CASE kind = "word"  -> LoadWord(c, a)
    [] kind = "half"  -> LoadHalfword(c, a)
    [] kind = "shalf" -> LoadSignedHalfword(c, a)
    [] kind = "byte"  -> Read8(c, a)
    [] kind = "sbyte" -> SignExtend(Read8(c, a), ByteBits)

StoreKind(c, a, kind, v) ==
  CASE kind = "word" -> Write32(c, a, v)
    [] kind = "half" -> Write16(c, a, v)
    [] kind = "byte" -> Write8(c, a, v)

-----------------------------------------------------------------------------
(* The pipeline and what its accesses cost: each is nonsequential,         *)
(* sequential or internal, at an address and of a width.                   *)
Width(thumb) == IF thumb THEN 2 ELSE 4

Paid(kind, a, bytes) == [kind |-> kind, at |-> a % Wrap, bytes |-> bytes]
Sequential(s)        == IF s THEN "S" ELSE "N"

Fetch(c, a, thumb) == IF thumb THEN Read16(c, a % Wrap) ELSE Read32(c, a % Wrap)

FillPipeline(c, a, thumb) ==
  [c EXCEPT !.seq = TRUE,
            !.pipe = [at |-> a, thumb |-> thumb, decoded |-> Fetch(c, a, thumb),
                      fetched |-> Fetch(c, a + Width(thumb), thumb)]]

BranchTo(c, target) ==
  LET w == Width(c.psr.t)
      a == (target % Wrap) - (target % w)
  IN  FillPipeline([c EXCEPT !.r[PC] = a, !.bus = @ \o <<Paid("N", a, w), Paid("S", a + w, w)>>],
                   a, c.psr.t)

ChargeNextFetch(c) ==
  LET w == Width(c.pipe.thumb)
  IN  [c EXCEPT !.bus = Append(@, Paid(Sequential(c.seq), c.pipe.at + 2 * w, w))]

ChargeAccess(c, a, bytes, s) ==
  [c EXCEPT !.bus = Append(@, Paid(Sequential(s), a, bytes)), !.seq = FALSE]

\* Mutant: an internal cycle leaves the next fetch sequential.
ChargeInternalInBurst(c, cycles) == [c EXCEPT !.bus = Append(@, Paid("I", 0, cycles))]

ChargeInternal(c, cycles) == [c EXCEPT !.bus = Append(@, Paid("I", 0, cycles)), !.seq = FALSE]

ChargeLoad(c, a, bytes) == ChargeInternal(ChargeAccess(c, a, bytes, FALSE), 1)

-----------------------------------------------------------------------------
(* Exceptions.  The pc already is the next instruction's while one         *)
(* executes, and between two.                                              *)

\* Mutant: the link register is the interrupted instruction's own address.
EnterIrqShort(c) == BranchTo(TakeException([c EXCEPT !.bus = <<>>], Irq, c.r[PC]), 24)

EnterIrq(c) == BranchTo(TakeException([c EXCEPT !.bus = <<>>], Irq, (c.r[PC] + 4) % Wrap), 24)
EnterSwi(c) == BranchTo(TakeException(c, Svc, c.r[PC]), 8)
EnterUnd(c, at) == BranchTo(TakeException(c, Und, (at + Width(c.psr.t)) % Wrap), 4)

SoftwareInterrupt(c, number) ==
  IF number \notin HleCalls THEN EnterSwi(c)
  ELSE LET d == ChargeInternal(c, 1) IN BranchTo(d, d.r[PC])

-----------------------------------------------------------------------------
(* ARM instructions.                                                       *)
Reg(c, n, ahead) == IF n = PC THEN (c.r[PC] + ahead) % Wrap ELSE c.r[n]
Put(c, n, v)     == [c EXCEPT !.r[n] = v]
PutOrBranch(c, n, v) == IF n = PC THEN BranchTo(c, v) ELSE Put(c, n, v)

SetFlags(c, v, carry, overflow) ==
  [c EXCEPT !.psr = [@ EXCEPT !.n = IsNegative(v), !.z = (v = 0), !.c = carry, !.v = overflow]]

\* An operand with the carry the shifter leaves, and the CPU it costs a cycle.
BarrelShifter(c, src) ==
  CASE src.kind = "imm" ->
         [cpu |-> c, value |-> Rotated(src.value, src.by),
          carry |-> IF src.by = 0 THEN c.psr.c ELSE IsNegative(Rotated(src.value, src.by))]
    [] src.kind = "shift" ->
         LET s == Shift(src.type, Reg(c, src.rm, 4), src.by, c.psr.c, TRUE)
         IN  [cpu |-> c, value |-> s[1], carry |-> s[2]]
    [] src.kind = "regshift" ->
         LET s == Shift(src.type, Reg(c, src.rm, 8), c.r[src.rs] % 256, c.psr.c, FALSE)
         IN  [cpu |-> ChargeInternal(c, 1), value |-> s[1], carry |-> s[2]]

Tests == {"TST", "TEQ", "CMP", "CMN"}

\* The result of an operation on a and b: `shifted` the shifter's carry.
Operation(f, a, b, p, shifted) ==
  LET logical(v) == [value |-> v, c |-> shifted, v |-> p.v]
      carry == IF p.c THEN 1 ELSE 0
  IN  CASE f \in {"AND", "TST"} -> logical(And(a, b))
        [] f \in {"EOR", "TEQ"} -> logical(Eor(a, b))
        [] f = "ORR" -> logical(Or(a, b))
        [] f = "BIC" -> logical(And(a, Not(b)))
        [] f = "MOV" -> logical(b)
        [] f = "MVN" -> logical(Not(b))
        [] f \in {"SUB", "CMP"} -> SubWithFlags(a, b, 1)
        [] f = "RSB" -> SubWithFlags(b, a, 1)
        [] f \in {"ADD", "CMN"} -> AddWithFlags(a, b, 0)
        [] f = "ADC" -> AddWithFlags(a, b, carry)
        [] f = "SBC" -> SubWithFlags(a, b, carry)
        [] f = "RSC" -> SubWithFlags(b, a, carry)

DataProcessing(c, i) ==
  LET op2 == BarrelShifter(c, i.src)
      a == Reg(c, i.rn, IF i.src.kind = "regshift" THEN 8 ELSE 4)
      r == Operation(i.f, a, op2.value, c.psr, op2.carry)
      d == IF ~i.s THEN op2.cpu
           ELSE IF i.rd = PC /\ c.psr.mode \in Privileged THEN RestoreCpsrFromSpsr(op2.cpu)
           ELSE SetFlags(op2.cpu, r.value, r.c, r.v)
  IN  IF i.f \in Tests THEN d ELSE PutOrBranch(d, i.rd, r.value)

Multiply(c, i) ==
  LET acc == IF i.acc THEN c.r[i.rn] ELSE 0
      v == (c.r[i.rm] * c.r[i.rs] + acc) % Wrap
      d == Put(ChargeInternal(c, MultiplierCycles(c.r[i.rs], TRUE) + (IF i.acc THEN 1 ELSE 0)), i.rd, v)
  IN  IF i.s THEN SetFlags(d, v, MultiplyCarry(c.r[i.rm], c.r[i.rs], acc), c.psr.v) ELSE d

MultiplyLong(c, i) ==
  LET lo == IF i.acc THEN c.r[i.lo] ELSE 0
      hi == IF i.acc THEN c.r[i.hi] ELSE 0
      p == LongProduct(c.r[i.rm], c.r[i.rs], hi, lo, i.signed)
      d == ChargeInternal(c, MultiplierCycles(c.r[i.rs], i.signed) + (IF i.acc THEN 2 ELSE 1))
      e == Put(Put(d, i.lo, p.lo), i.hi, p.hi)
      f == SetFlags(e, p.hi, MultiplyCarry(c.r[i.rm], c.r[i.rs], hi * Wrap + lo), c.psr.v)
  IN  IF i.s THEN [f EXCEPT !.psr.z = (p.hi = 0 /\ p.lo = 0)] ELSE e

Swap(c, i) ==
  LET a == c.r[i.rn]
      kind == IF i.byte THEN "byte" ELSE "word"
      twice == ChargeAccess(ChargeAccess(c, a, Bytes(kind), FALSE), a, Bytes(kind), FALSE)
  IN  Put(StoreKind(ChargeInternal(twice, 1), a, kind, c.r[i.rm]), i.rd, LoadKind(c, a, kind))

\* BX of either instruction set.
BranchExchange(c, target) ==
  IF IsSentinel(target) THEN [c EXCEPT !.halted = TRUE]
  ELSE BranchTo([c EXCEPT !.psr.t = target % 2 = 1], target)

Branch(c, i, at) ==
  BranchTo(IF i.link THEN Put(c, LR, (at + 4) % Wrap) ELSE c, c.r[PC] + 4 + i.offset)

\* LDR, STR and their halfword and signed forms, the offset once known.  A
\* base is written back before the value loaded and after the value stored.
Indexed(base, i, offset) == (IF i.up THEN base + offset ELSE base - offset) % Wrap

SingleTransfer(c, i) ==
  LET offset == IF i.off.kind = "imm" THEN i.off.value
                ELSE OffsetShift(i.off.type, c.r[i.off.rm], i.off.by, c.psr.c)
      base == Reg(c, i.rn, 4)
      a == IF i.pre THEN Indexed(base, i, offset) ELSE base
      back(d) == IF i.wb \/ ~i.pre THEN Put(d, i.rn, Indexed(base, i, offset)) ELSE d
  IN  IF i.load
      THEN PutOrBranch(back(ChargeLoad(c, a, Bytes(i.kind))), i.rd, LoadKind(c, a, i.kind))
      ELSE IF i.kind \in {"word", "byte", "half"}
      THEN back(StoreKind(ChargeAccess(c, a, Bytes(i.kind), FALSE), a, i.kind, Reg(c, i.rd, 8)))
      ELSE back(c)   \* a signed store does nothing on ARMv4

\* One register of a block transfer, at the address the transfer has come to.
Least(list) == CHOOSE i \in list : \A j \in list : i <= j

LoadOne(c, i, a, s, user) ==
  LET d == ChargeAccess(c, a, 4, s)
  IN  IF i = PC THEN d ELSE IF user THEN WriteUserRegister(d, i, Read32(c, a)) ELSE Put(d, i, Read32(c, a))

\* The base is written back after the first register is stored.
StoreOne(c, i, a, s, user, storedPc, rn, newBase) ==
  LET v == IF i = PC THEN storedPc ELSE IF user THEN ReadUserRegister(c, i) ELSE c.r[i]
      d == Write32(ChargeAccess(c, a, 4, s), a, v)
  IN  IF s THEN d ELSE Put(d, rn, newBase)

BlockTransfer(c, i, storedPc) ==
  LET list == IF i.list = {} THEN {PC} ELSE i.list
      span == IF i.list = {} THEN 64 ELSE 4 * Cardinality(i.list)
      newBase == (IF i.up THEN c.r[i.rn] + span ELSE c.r[i.rn] - span) % Wrap
      first == (IF i.up THEN c.r[i.rn] + (IF i.pre THEN 4 ELSE 0)
                ELSE c.r[i.rn] - span + (IF i.pre THEN 0 ELSE 4)) % Wrap
      address(n) == (first + 4 * Cardinality({j \in list : j < n})) % Wrap
      order == SetToSortSeq(list, <)
      user == i.s /\ ~(i.load /\ PC \in list)
      written == IF i.wb THEN Put(c, i.rn, newBase) ELSE c
      loaded == ChargeInternal(FoldLeft(LAMBDA d, n : LoadOne(d, n, address(n), n # Least(list), user),
                                        written, order), 1)
      pc == Read32(c, address(PC))
      back == IF i.s THEN RestoreCpsrFromSpsr(loaded) ELSE loaded
  IN  IF i.load
      THEN IF PC \notin list THEN loaded
           ELSE IF IsSentinel(pc) THEN [Put(back, PC, pc) EXCEPT !.halted = TRUE]
           ELSE BranchTo(back, pc)
      ELSE FoldLeft(LAMBDA d, n : StoreOne(d, n, address(n), n # Least(list), user, storedPc, i.rn,
                                           IF i.wb THEN newBase ELSE d.r[i.rn]), c, order)

Mrs(c, i) ==
  Put(c, i.rd, IF ~i.saved THEN PsrWord(c.psr)
               ELSE IF c.psr.mode \in Privileged THEN PsrWord(GetSpsr(c)) ELSE 0)

Msr(c, i) ==
  WritePsr(c, PsrOf(IF i.src.kind = "imm" THEN Rotated(i.src.value, i.src.by) ELSE c.r[i.src.rm]),
           i.saved, i.fields)

ExecuteArm(c, i, at) ==
  CASE i.op = "dp"     -> DataProcessing(c, i)
    [] i.op = "mul"    -> Multiply(c, i)
    [] i.op = "mull"   -> MultiplyLong(c, i)
    [] i.op = "swp"    -> Swap(c, i)
    [] i.op = "bx"     -> BranchExchange(c, c.r[i.rm])
    [] i.op = "b"      -> Branch(c, i, at)
    [] i.op = "single" -> SingleTransfer(c, i)
    [] i.op = "block"  -> BlockTransfer(c, i, (c.r[PC] + 8) % Wrap)
    [] i.op = "mrs"    -> Mrs(c, i)
    [] i.op = "msr"    -> Msr(c, i)
    [] i.op = "swi"    -> SoftwareInterrupt(c, i.number)
    [] i.op = "und"    -> EnterUnd(c, at)

-----------------------------------------------------------------------------
(* Thumb instructions.                                                     *)
ThumbShifted(c, i) ==
  LET s == Shift(i.f, c.r[i.rs], i.by, c.psr.c, i.f # "ROR")
  IN  SetFlags(Put(c, i.rd, s[1]), s[1], s[2], c.psr.v)

\* Formats 2 and 3: an operation on a register and a register or number.
ThumbArithmetic(c, i) ==
  LET b == IF i.src.kind = "imm" THEN i.src.value ELSE c.r[i.src.rm]
      r == Operation(i.f, c.r[i.rs], b, c.psr, c.psr.c)
      d == IF i.f \in Tests THEN c ELSE Put(c, i.rd, r.value)
  IN  SetFlags(d, r.value, r.c, r.v)

ThumbAluOp(c, i) ==
  LET d == c.r[i.rd]
      s == c.r[i.rs]
      shift == Shift(i.f, d, s % 256, c.psr.c, FALSE)
      product == (d * s) % Wrap
      r == CASE i.f \in Shifts -> [value |-> shift[1], c |-> shift[2], v |-> c.psr.v]
             [] i.f = "NEG" -> SubWithFlags(0, s, 1)
             [] i.f = "MUL" -> [value |-> product, c |-> MultiplyCarry(s, d, 0), v |-> c.psr.v]
             [] OTHER -> Operation(i.f, d, s, c.psr, c.psr.c)
      cycles == IF i.f = "MUL" THEN MultiplierCycles(d, TRUE) ELSE 1
      charged == IF i.f \in Shifts \cup {"MUL"} THEN ChargeInternal(c, cycles) ELSE c
  IN  SetFlags(IF i.f \in Tests THEN charged ELSE Put(charged, i.rd, r.value), r.value, r.c, r.v)

ThumbHiRegister(c, i) ==
  LET d == Reg(c, i.rd, 2)
      s == Reg(c, i.rs, 2)
      r == SubWithFlags(d, s, 1)
  IN  CASE i.f = "ADD" -> PutOrBranch(c, i.rd, (d + s) % Wrap)
        [] i.f = "MOV" -> PutOrBranch(c, i.rd, s)
        [] i.f = "CMP" -> SetFlags(c, r.value, r.c, r.v)
        [] i.f = "BX"  -> BranchExchange(c, s)

\* Where a Thumb instruction's memory operand is: relative to the pc of the
\* next word, to a register, or to two.
ThumbBase(c, i) ==
  LET pc == (c.r[PC] + 2) % Wrap IN IF i.rb = PC THEN pc - (pc % 4) ELSE c.r[i.rb]

ThumbTransfer(c, i) ==
  LET a == (ThumbBase(c, i) + (IF i.off.kind = "imm" THEN i.off.value ELSE c.r[i.off.rm])) % Wrap
  IN  IF i.load THEN Put(ChargeLoad(c, a, Bytes(i.kind)), i.rd, LoadKind(c, a, i.kind))
      ELSE StoreKind(ChargeAccess(c, a, Bytes(i.kind), FALSE), a, i.kind, c.r[i.rd])

\* PUSH and POP, LDMIA and STMIA.
Push(list)           == [rn |-> SP, list |-> list, load |-> FALSE, pre |-> TRUE, up |-> FALSE, wb |-> TRUE, s |-> FALSE]
Pop(list)            == [rn |-> SP, list |-> list, load |-> TRUE, pre |-> FALSE, up |-> TRUE, wb |-> TRUE, s |-> FALSE]
Many(rb, list, load) == [rn |-> rb, list |-> list, load |-> load, pre |-> FALSE, up |-> TRUE, wb |-> TRUE, s |-> FALSE]

ThumbCondBranch(c, i) ==
  IF CheckCondition(i.cond, c.psr) THEN BranchTo(c, c.r[PC] + 2 + i.offset) ELSE c

ThumbBlPrefix(c, i) == Put(c, LR, (c.r[PC] + 2 + i.offset) % Wrap)

ThumbBlSuffix(c, i) == BranchTo(Put(c, LR, c.r[PC] + (1 - (c.r[PC] % 2))), c.r[LR] + i.offset)

ExecuteThumb(c, i, at) ==
  CASE i.op = "shifted"    -> ThumbShifted(c, i)
    [] i.op = "arithmetic" -> ThumbArithmetic(c, i)
    [] i.op = "alu"        -> ThumbAluOp(c, i)
    [] i.op = "hi"         -> ThumbHiRegister(c, i)
    [] i.op = "transfer"   -> ThumbTransfer(c, i)
    [] i.op = "address"    -> Put(c, i.rd, (ThumbBase(c, i) + i.offset) % Wrap)
    [] i.op = "push"       -> BlockTransfer(c, Push(i.list), (c.r[PC] + 4) % Wrap)
    [] i.op = "pop"        -> BlockTransfer(c, Pop(i.list), (c.r[PC] + 4) % Wrap)
    [] i.op = "many"       -> BlockTransfer(c, Many(i.rb, i.list, i.load), (c.r[PC] + 4) % Wrap)
    [] i.op = "cond"       -> ThumbCondBranch(c, i)
    [] i.op = "b"          -> BranchTo(c, c.r[PC] + 2 + i.offset)
    [] i.op = "blprefix"   -> ThumbBlPrefix(c, i)
    [] i.op = "blsuffix"   -> ThumbBlSuffix(c, i)
    [] i.op = "swi"        -> SoftwareInterrupt(c, i.number)
    [] i.op = "und"        -> EnterUnd(c, at)

-----------------------------------------------------------------------------
(* One step.                                                               *)
Here(c) == c.r[PC] - (c.r[PC] % Width(c.psr.t))

\* The pipeline is refilled, for nothing, when the pc was set from outside.
Filled(c) ==
  IF c.pipe.at = Here(c) /\ c.pipe.thumb = c.psr.t THEN c ELSE FillPipeline(c, Here(c), c.psr.t)

FetchNext(c, at) ==
  LET w == Width(c.psr.t)
  IN  [c EXCEPT !.bus = <<>>, !.seq = TRUE, !.r[PC] = (at + w) % Wrap,
                !.pipe = [at |-> (at + w) % Wrap, thumb |-> @.thumb,
                          decoded |-> @.fetched, fetched |-> Fetch(c, at + 2 * w, c.psr.t)]]

Instruction(c) == IF c.psr.t THEN ThumbIsa[Filled(c).pipe.decoded] ELSE ArmIsa[Filled(c).pipe.decoded]

Step(c) ==
  LET i == Instruction(c)
      d == FetchNext(Filled(c), Here(c))
      e == IF c.psr.t THEN ExecuteThumb(d, i, Here(c))
           ELSE IF CheckCondition(i.cond, c.psr) THEN ExecuteArm(d, i, Here(c)) ELSE d
  IN  IF c.halted THEN c
      ELSE IF IsSentinel(c.r[PC]) THEN [c EXCEPT !.halted = TRUE]
      ELSE IF e.halted THEN e
      ELSE ChargeNextFetch(e)

FlushPipeline(c) == [c EXCEPT !.pipe.at = Empty]

\* A snapshot holds all but what the step in progress pays for.
Deserialize(c, snapshot) == [snapshot EXCEPT !.bus = c.bus, !.seq = c.seq]

Psr0 == [mode |-> Sys, i |-> TRUE, f |-> TRUE, t |-> FALSE,
         n |-> FALSE, z |-> FALSE, c |-> FALSE, v |-> FALSE]

\* resetState.
ResetState(memory) ==
  [r |-> [i \in Registers |-> 0], psr |-> Psr0,
   bank |-> [m \in BankNames |-> [i \in Pair |-> 0]],
   high |-> [b \in {"fiq", "usr"} |-> [i \in High |-> 0]],
   spsr |-> [m \in Privileged |-> PsrOf(0)],
   pipe |-> [at |-> Empty, thumb |-> FALSE, decoded |-> 0, fetched |-> 0],
   halted |-> FALSE, mem |-> memory, bus |-> <<>>, seq |-> TRUE]

-----------------------------------------------------------------------------
(* The CPU as the run loop drives it (packages/gba-emulator/src/gba.ts):   *)
(* a program, interrupts between any two of its instructions with the code *)
(* at their vector, and a debugger that refuses an instruction or flushes  *)
(* the pipeline.  `alone` is the same program on a processor of its own,   *)
(* which nobody interrupts: it takes a step when the program does, and not *)
(* when an interrupt handler does.                                         *)
VARIABLES cpu, alone, depth, irqs, flushes, sum
vars == <<cpu, alone, depth, irqs, flushes, sum>>

NoSum == [a |-> 0, b |-> 0, n |-> 0, carry |-> FALSE]

InitWith(c) ==
  /\ cpu = c /\ alone = c /\ depth = 0 /\ irqs = 0 /\ flushes = 0

\* An exception return, from the handler of an interrupt.
Returns(c) ==
  LET i == Instruction(c)
  IN  c.psr.mode = Irq /\ i.op = "dp" /\ i.s /\ i.rd = PC

Interrupt ==
  /\ irqs < MAX_IRQS /\ ~cpu.psr.i /\ ~cpu.halted
  /\ cpu' = EnterIrq(cpu)
  /\ depth' = depth + 1 /\ irqs' = irqs + 1
  /\ UNCHANGED <<alone, flushes, sum>>

Execute ==
  /\ ~cpu.halted
  /\ cpu' = Step(cpu)
  /\ alone' = IF depth = 0 THEN Step(alone) ELSE alone
  /\ depth' = IF depth > 0 /\ Returns(cpu) THEN depth - 1 ELSE depth
  /\ UNCHANGED <<irqs, flushes, sum>>

\* A hook refuses the instruction at the pc: the pipeline alone is filled.
Refuse ==
  /\ flushes < MAX_FLUSHES /\ ~cpu.halted /\ ~IsSentinel(cpu.r[PC])
  /\ cpu' = Filled(cpu)
  /\ flushes' = flushes + 1
  /\ UNCHANGED <<alone, depth, irqs, sum>>

Flush ==
  /\ flushes < MAX_FLUSHES /\ ~cpu.halted
  /\ cpu' = FlushPipeline(cpu)
  /\ flushes' = flushes + 1
  /\ UNCHANGED <<alone, depth, irqs, sum>>

Next == Interrupt \/ Execute \/ Refuse \/ Flush

-----------------------------------------------------------------------------
(* Properties *)

Outside(c) == [k \in (0 .. MEM_WORDS - 1) \ HandlerCells |-> c.mem[k]]

\* An interrupt leaves no trace in the program it interrupts, wherever it
\* falls and whatever mode and instruction set the program is in: once its
\* handler has returned, every register of every mode, the flags, the saved
\* status of the other exceptions, the memory and the opcodes in the pipeline
\* are those of the program run alone (switchMode, enterIrq, restoreCpsr).
InterruptsTransparent ==
  depth = 0 =>
    /\ cpu.r = alone.r /\ cpu.psr = alone.psr /\ cpu.halted = alone.halted
    /\ \A m \in Modes, i \in Registers :
         (m = Irq /\ i = LR) \/ View(cpu, m, i) = View(alone, m, i)
    /\ \A m \in Privileged \ {Irq} : cpu.spsr[m] = alone.spsr[m]
    /\ Outside(cpu) = Outside(alone)
    /\ cpu.halted \/ IsSentinel(cpu.r[PC]) \/ Filled(cpu).pipe = Filled(alone).pipe

\* The access before another one, the last of the step before included.
Before(before, bus, k) == IF k > 1 THEN bus[k - 1] ELSE before[Len(before)]

\* A sequential access is paid for only right after an access that ends where
\* it begins: a data access, an internal cycle and a branch each break the
\* burst.  The first instruction after an interrupt is the exception enterIrq
\* documents: nothing pays for the fetch it starts with.
BurstsGoOn ==
  cpu'.bus = cpu.bus \/
    \A k \in 1 .. Len(cpu'.bus) :
      (cpu'.bus[k].kind = "S" /\ (k > 1 \/ Len(cpu.bus) > 0) /\ ~(k = 1 /\ Len(cpu.bus) = 2)) =>
        LET p == Before(cpu.bus, cpu'.bus, k)
        IN  p.kind # "I" /\ (p.at + p.bytes) % Wrap = cpu'.bus[k].at

\* One place at a time: what a shift by n places has to come to.
ShiftOnce(type, s) ==
  CASE type = "LSL" -> <<(2 * s[1]) % Wrap, IsNegative(s[1])>>
    [] type = "LSR" -> <<s[1] \div 2, Bit(s[1], 0)>>
    [] type = "ASR" -> <<(s[1] \div 2) + (IF IsNegative(s[1]) THEN Sign ELSE 0), Bit(s[1], 0)>>
    [] type = "ROR" -> <<(s[1] \div 2) + (IF Bit(s[1], 0) THEN Sign ELSE 0), Bit(s[1], 0)>>

Repeated(type, v, n, carry) ==
  FoldLeft(LAMBDA s, k : ShiftOnce(type, s), <<v, carry>>, [k \in 1 .. n |-> k])

\* A shift by a register's n places is n shifts by one, the last bit out being
\* its carry, up to and past the width of the word; an addition's carry and
\* overflow say that the unsigned and the signed sum do not fit; and a comparison
\* leaves the flags from which the unsigned and signed orders are read
\* (utils.ts, #armBarrelShifter, checkCondition).
ArithmeticAgrees ==
  LET a == sum.a
      b == sum.b
      one == IF sum.carry THEN 1 ELSE 0
      p == AddWithFlags(a, b, one)
      d == SubWithFlags(a, b, 1)
      signedSum == Signed(a) + Signed(b) + one
  IN  /\ \A type \in Shifts : Shift(type, a, sum.n, sum.carry, FALSE) = Repeated(type, a, sum.n, sum.carry)
      /\ \A type \in {"LSR", "ASR"} : Shift(type, a, 0, sum.carry, TRUE) = Repeated(type, a, W, sum.carry)
      /\ p.c <=> p.value # a + b + one
      /\ p.v <=> Signed(p.value) # signedSum
      /\ CheckCondition("HI", d) <=> a > b
      /\ CheckCondition("GE", d) <=> Signed(a) >= Signed(b)
      /\ CheckCondition("LE", d) <=> Signed(a) <= Signed(b)

Sums == [a : TestWords, b : TestWords, n : TestAmounts, carry : BOOLEAN]
=============================================================================
