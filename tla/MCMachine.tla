------------------------------ MODULE MCMachine ------------------------------
(***************************************************************************)
(* What executes: the CPU's programs, the calls of the BIOS of MCBios, a    *)
(* cartridge's chip and the prefetch unit, each on a small instance of its  *)
(* own.  They do not act on one another here, so one behaviour is of one    *)
(* part and leaves the variables of the others idle.                        *)
(***************************************************************************)
EXTENDS Cpu, Prefetch, Cartridge

VARIABLES
    part,      \* the part the behaviour is of
    machine, before, call

biosVars == <<machine, before, call>>
allVars == <<part, vars, biosVars, cartVars, prefetchVars>>

Resting == "idle"

ProcessorResting ==
    cpu = Resting /\ alone = Resting /\ depth = Resting /\ irqs = Resting /\ flushes = Resting /\ sum = Resting

-----------------------------------------------------------------------------
(* Short programs on twelve-bit words: three bits to a byte, 256 bytes of  *)
(* memory and more address space than that.                                *)

MCByteBits  == 3
MCSign      == 2048
MCMemWords  == 64
MCSentinel  == 4088
MCMultiplyCarry(m, r, acc) == (m + r + acc) % 2 = 1

\* Instructions, in the order of their opcodes.
Imm(v)             == [kind |-> "imm", value |-> v, by |-> 0]
RotImm(v, n)       == [kind |-> "imm", value |-> v, by |-> n]
Sh(m, type, n)     == [kind |-> "shift", rm |-> m, type |-> type, by |-> n]
RegSh(m, type, rs) == [kind |-> "regshift", rm |-> m, type |-> type, rs |-> rs]
Plain(m)           == Sh(m, "LSL", 0)
Dp(f, s, d, n, src) == [op |-> "dp", cond |-> "AL", f |-> f, s |-> s, rd |-> d, rn |-> n, src |-> src]
If(cond, i)        == [i EXCEPT !.cond = cond]
Mul(acc, d)        == [op |-> "mul", cond |-> "AL", acc |-> acc, s |-> TRUE, rd |-> d, rn |-> 2, rs |-> 1, rm |-> 3]
Mull(signed, acc)  == [op |-> "mull", cond |-> "AL", signed |-> signed, acc |-> acc, s |-> TRUE,
                       hi |-> 0, lo |-> 8, rs |-> 1, rm |-> 3]
Single(load, kind, pre, up, wb, n, d, off) ==
  [op |-> "single", cond |-> "AL", load |-> load, kind |-> kind, pre |-> pre, up |-> up, wb |-> wb,
   rn |-> n, rd |-> d, off |-> off]
Block(load, pre, up, wb, s, n, list) ==
  [op |-> "block", cond |-> "AL", load |-> load, pre |-> pre, up |-> up, wb |-> wb, s |-> s, rn |-> n,
   list |-> list]
MsrTo(saved, fields, m) == [op |-> "msr", cond |-> "AL", saved |-> saved, fields |-> fields,
                            src |-> [kind |-> "reg", rm |-> m]]
MsrImm(saved, fields, v, n) == [op |-> "msr", cond |-> "AL", saved |-> saved, fields |-> fields,
                                src |-> RotImm(v, n)]

\* The code at the vectors: an undefined instruction and a software
\* interrupt return at once, the interrupt's handler saves and clobbers.
BiosCode ==
  << Dp("MOV", TRUE, PC, 0, Plain(LR)),
     Block(FALSE, TRUE, FALSE, TRUE, FALSE, SP, {0, 1, 2, 3, 12, LR}),
     Dp("ADD", TRUE, 0, 12, Plain(3)),
     Dp("MOV", FALSE, 12, 0, Imm(7)),
     Block(TRUE, FALSE, TRUE, TRUE, FALSE, SP, {0, 1, 2, 3, 12, LR}),
     Dp("SUB", TRUE, PC, LR, Imm(4)),
     [op |-> "bx", cond |-> "AL", rm |-> LR],
     [op |-> "bx", cond |-> "AL", rm |-> 7] >>

\* Instructions that change what the next one stands in.
Openings ==
  << Dp("SUB", TRUE, 0, 1, Plain(2)),
     Dp("MOV", TRUE, 0, 0, Sh(1, "ROR", 0)),
     MsrImm(FALSE, {"control"}, Fiq, 0),
     MsrImm(FALSE, {"control"}, Svc, 0),
     MsrImm(FALSE, {"control"}, Usr, 0),
     MsrImm(FALSE, {"flags"}, 10, 4) >>

Bodies ==
  << Dp("ADC", TRUE, 0, 0, Plain(1)), Dp("SBC", TRUE, 9, 2, Plain(1)), Dp("RSC", TRUE, 2, 2, Imm(3)),
     Dp("RSB", TRUE, 2, 1, RegSh(3, "ASR", 2)), Dp("AND", TRUE, 0, 1, Sh(3, "LSR", 0)),
     Dp("EOR", TRUE, 0, 1, RegSh(PC, "LSL", 2)), Dp("BIC", FALSE, 0, 1, RotImm(5, 2)),
     Dp("ORR", TRUE, 3, 3, RotImm(2, 2)), Dp("MVN", TRUE, 3, 0, Plain(PC)), Dp("TST", TRUE, 0, 1, Plain(1)),
     Dp("TEQ", TRUE, 0, 1, Plain(2)), Dp("CMP", TRUE, 0, 1, Plain(2)), Dp("CMN", TRUE, 0, 1, Plain(2)),
     If("HI", Dp("ADD", FALSE, PC, PC, Imm(0))), If("LT", Dp("MOV", FALSE, 3, 0, Imm(1))),
     If("NV", Dp("MOV", FALSE, 3, 0, Imm(1))), If("GE", Dp("ADD", FALSE, SP, SP, Imm(4))),
     Mul(FALSE, 8), Mul(TRUE, 0), Mull(FALSE, FALSE), Mull(TRUE, TRUE),
     [op |-> "swp", cond |-> "AL", byte |-> FALSE, rn |-> 5, rd |-> 0, rm |-> 1],
     [op |-> "swp", cond |-> "AL", byte |-> TRUE, rn |-> 6, rd |-> 9, rm |-> 1],
     Single(TRUE, "word", TRUE, TRUE, FALSE, 6, 0, Imm(1)), Single(TRUE, "word", FALSE, TRUE, TRUE, 5, 5, Imm(4)),
     Single(FALSE, "word", TRUE, FALSE, TRUE, 5, PC, Imm(4)), Single(TRUE, "byte", FALSE, FALSE, TRUE, 6, 0, Sh(2, "LSR", 0)),
     Single(FALSE, "byte", TRUE, TRUE, FALSE, 5, 1, Sh(2, "ROR", 0)), Single(TRUE, "half", TRUE, TRUE, FALSE, 6, 3, Imm(0)),
     Single(FALSE, "half", FALSE, TRUE, FALSE, 6, 1, Imm(2)), Single(TRUE, "sbyte", TRUE, TRUE, FALSE, 6, 3, Imm(0)),
     Single(TRUE, "shalf", TRUE, FALSE, TRUE, 6, 3, Imm(1)), Single(FALSE, "shalf", FALSE, TRUE, FALSE, 5, 3, Imm(1)),
     Block(FALSE, FALSE, TRUE, TRUE, FALSE, 5, {1, 5, 9, SP}), Block(FALSE, TRUE, FALSE, TRUE, FALSE, SP, {}),
     Block(TRUE, FALSE, TRUE, TRUE, FALSE, 5, {0, 5, 9, 12}), Block(FALSE, FALSE, TRUE, FALSE, TRUE, 5, {8, SP, LR}),
     Block(TRUE, TRUE, FALSE, FALSE, TRUE, 5, {8, SP}),
     [op |-> "mrs", cond |-> "AL", saved |-> FALSE, rd |-> 3], [op |-> "mrs", cond |-> "AL", saved |-> TRUE, rd |-> 3],
     MsrTo(FALSE, {"flags"}, 1), MsrImm(TRUE, {"flags", "control"}, Sys, 0), MsrImm(FALSE, {"control"}, Abt, 0),
     [op |-> "b", cond |-> "AL", link |-> FALSE, offset |-> 0], [op |-> "b", cond |-> "NE", link |-> FALSE, offset |-> 0],
     [op |-> "swi", cond |-> "AL", number |-> 1], [op |-> "swi", cond |-> "AL", number |-> 2],
     [op |-> "und", cond |-> "AL"] >>

ThumbCode ==
  << [op |-> "hi", f |-> "BX", rd |-> 0, rs |-> LR],
     [op |-> "shifted", f |-> "LSR", by |-> 0, rs |-> 1, rd |-> 0],
     [op |-> "shifted", f |-> "LSL", by |-> 3, rs |-> 1, rd |-> 2],
     [op |-> "arithmetic", f |-> "SUB", rs |-> 1, rd |-> 0, src |-> [kind |-> "reg", rm |-> 2]],
     [op |-> "arithmetic", f |-> "CMP", rs |-> 1, rd |-> 1, src |-> [kind |-> "imm", value |-> 9]],
     [op |-> "arithmetic", f |-> "MOV", rs |-> 3, rd |-> 3, src |-> [kind |-> "imm", value |-> 0]],
     [op |-> "alu", f |-> "ROR", rd |-> 1, rs |-> 2], [op |-> "alu", f |-> "ADC", rd |-> 0, rs |-> 1],
     [op |-> "alu", f |-> "NEG", rd |-> 0, rs |-> 3], [op |-> "alu", f |-> "MUL", rd |-> 1, rs |-> 2],
     [op |-> "alu", f |-> "TST", rd |-> 1, rs |-> 2], [op |-> "alu", f |-> "MVN", rd |-> 1, rs |-> 2],
     [op |-> "hi", f |-> "ADD", rd |-> 9, rs |-> PC], [op |-> "hi", f |-> "CMP", rd |-> 1, rs |-> 9],
     [op |-> "hi", f |-> "MOV", rd |-> 3, rs |-> 12],
     [op |-> "transfer", load |-> TRUE, kind |-> "word", rb |-> PC, rd |-> 3, off |-> [kind |-> "imm", value |-> 8]],
     [op |-> "transfer", load |-> FALSE, kind |-> "half", rb |-> 5, rd |-> 1, off |-> [kind |-> "reg", rm |-> 3]],
     [op |-> "transfer", load |-> TRUE, kind |-> "shalf", rb |-> 6, rd |-> 1, off |-> [kind |-> "imm", value |-> 0]],
     [op |-> "address", rb |-> PC, rd |-> 2, offset |-> 4], [op |-> "address", rb |-> SP, rd |-> SP, offset |-> -4],
     [op |-> "push", list |-> {0, 3, LR}], [op |-> "pop", list |-> {1, 2}],
     [op |-> "many", rb |-> 5, list |-> {1, 5}, load |-> FALSE], [op |-> "many", rb |-> 5, list |-> {1, 5}, load |-> TRUE],
     [op |-> "cond", cond |-> "NE", offset |-> -2], [op |-> "b", offset |-> -2],
     [op |-> "blprefix", offset |-> 0], [op |-> "blsuffix", offset |-> 0],
     [op |-> "swi", number |-> 1], [op |-> "swi", number |-> 2], [op |-> "und"] >>

ArmCode == BiosCode \o Openings \o Bodies
MCArmIsa   == [n \in 0 .. Len(ArmCode) - 1 |-> ArmCode[n + 1]]
MCThumbIsa == [n \in 0 .. Len(ThumbCode) - 1 |-> ThumbCode[n + 1]]

\* Where things are: the program at 64, data at 128, the stacks below 192 and
\* 232, the code at the vectors.
Base == 16
Bios(k) == CASE k = 1 -> 0 [] k = 2 -> 0 [] k \in 6 .. 10 -> k - 5 [] OTHER -> 1000 + k

ArmProgram(x, y) == [k \in 0 .. MCMemWords - 1 |->
  IF k < Base THEN Bios(k)
  ELSE IF k < Base + 6 THEN CASE k = Base -> x [] k = Base + 1 -> y [] OTHER -> 6
  ELSE (k * 2731) % 4096]

ThumbProgram(x, y) == [k \in 0 .. MCMemWords - 1 |->
  IF k < Base THEN Bios(k)
  ELSE IF k = Base THEN 7
  ELSE IF k = Base + 1 THEN x + 64 * y
  ELSE IF k < Base + 8 THEN 0
  ELSE (k * 2731) % 4096]

Values == <<1, 3, 4093, 2050, 100, 132, 135, 69, 5, 2047, 10, 11, 12, 192, MCSentinel, 4 * Base>>

Loaded(memory, psr) ==
  LET c == ResetState(memory)
  IN  [c EXCEPT !.psr = psr,
                !.r = [k \in Registers |-> Values[k + 1]],
                !.bank = [m \in BankNames |-> [i \in Pair |->
                            IF i = LR THEN MCSentinel ELSE IF m = Irq THEN 240 ELSE 192]],
                !.high = [@ EXCEPT !["fiq"] = [i \in High |-> 100 + i]],
                !.spsr = [m \in Privileged |-> PsrOf(Sys)]]

Running == [Psr0 EXCEPT !.i = FALSE, !.f = FALSE]

Openers == {8, 9, 10, 11, 12, 13}
Later   == 14 .. Len(ArmCode) - 1

Programs ==
  {Loaded(ArmProgram(x, y), Running) : x \in Openers, y \in Later}
    \cup {Loaded(ThumbProgram(x, y), Running) : x \in {1, 3, 20, 26}, y \in 1 .. Len(ThumbCode) - 1}

MCHandlerCells == 50 .. 60
MCTestWords    == {0, 1, 2, 7, 8, 1365, 2046, 2047, 2048, 2049, 2730, 4088, 4094, 4095}
MCTestAmounts  == 0 .. 14

\* A behaviour is of a program under way or of a sum to try.
ProgramsBegin ==
  \/ /\ \E c \in Programs : InitWith(c)
     /\ sum = NoSum
  \/ /\ InitWith([Loaded(ArmProgram(8, 14), Running) EXCEPT !.halted = TRUE])
     /\ sum \in Sums


-----------------------------------------------------------------------------
(* The calls of the BIOS, in 256 bytes of which the first 64 are its own;   *)
(* words of eight bits to compute with, and a sine of eight steps.          *)

B == INSTANCE MCBios WITH
    ADDRESSES <- 256, BIOS_END <- 64, WORD_BITS <- 8, HUFF_WALK_LIMIT <- 16,
    Sine <- <<0, 11585, 16384, 11585, 0, -11585, -16384, -11585>>,
    Points <- {<<a, b>> : a \in -6 .. 6, b \in -6 .. 6} \ {<<0, 0>>}

BiosResting == machine = Resting /\ before = Resting /\ call = Resting

-----------------------------------------------------------------------------
(* Cartridges: EEPROMs of two and of four units of two bits, though the     *)
(* wide one reaches three, and flash of one bank and of two.                *)

Carts == {[type |-> "eeprom", width |-> 1], [type |-> "eeprom", width |-> 2],
          [type |-> "flash", banks |-> 1, offsets |-> {0, 4096}],
          [type |-> "flash", banks |-> 2, offsets |-> {0}]}

UnitsWritten == {<<0, 1>>}
BytesWritten == {{0, 1}}

CartResting == CartInit /\ cart = [type |-> "eeprom", width |-> 1]

-----------------------------------------------------------------------------
(* The prefetch unit: before the ends of pages of ROM, one whose bursts are  *)
(* dearer than its first accesses, and in work RAM.                         *)

Controls ==
    {[n |-> <<3, 1, 3>>, s |-> <<2, 1, 1>>, sram |-> 1, ewram |-> 13, prefetch |-> TRUE],
     [n |-> <<1, 1, 3>>, s |-> <<1, 1, 1>>, sram |-> 1, ewram |-> 14, prefetch |-> FALSE]}

Targets == {<<8, 131062>>, <<8, 131070>>, <<12, 131070>>, <<3, 0>>}
Loads == {<<8, 4>>, <<2, 0>>}

PrefetchResting ==
    /\ control = Resting /\ unit = Stopped /\ fetching = Resting /\ since = Resting /\ taken = Resting
    /\ mark = Resting /\ clock = Resting

-----------------------------------------------------------------------------
Init ==
    \/ part = "processor" /\ ProgramsBegin /\ BiosResting /\ CartResting /\ PrefetchResting
    \/ part = "bios" /\ B!Init /\ ProcessorResting /\ CartResting /\ PrefetchResting
    \/ part = "cart" /\ CartInit /\ ProcessorResting /\ BiosResting /\ PrefetchResting
    \/ part = "prefetch" /\ PrefetchInit /\ ProcessorResting /\ BiosResting /\ CartResting

ProcessorStep == part = "processor" /\ Next /\ UNCHANGED <<part, biosVars, cartVars, prefetchVars>>
BiosStep      == part = "bios" /\ B!Next /\ UNCHANGED <<part, vars, cartVars, prefetchVars>>
CartStep      == part = "cart" /\ CartNext /\ UNCHANGED <<part, vars, biosVars, prefetchVars>>
PrefetchStep  == part = "prefetch" /\ PrefetchNext /\ UNCHANGED <<part, vars, biosVars, cartVars>>

AnyStep == ProcessorStep \/ BiosStep \/ CartStep \/ PrefetchStep

Spec == Init /\ [][AnyStep]_allVars

-----------------------------------------------------------------------------
(* Properties *)

\* An interrupt leaves no trace in the program it interrupts, and arithmetic
\* and its flags are those of the numbers (arm-cpu.ts, utils.ts).
ProcessorComputes == part = "processor" => InterruptsTransparent /\ ArithmeticAgrees

\* A sequential access is paid for only where a burst goes on (arm-cpu.ts).
BurstsArePaid == [][part = "processor" => BurstsGoOn]_allVars

\* The BIOS puts the data a call is about where it goes and nothing elsewhere,
\* and its arithmetic agrees with the numbers (bios.ts).
BiosDelivers == part = "bios" => B!DataArrives /\ B!MathAgrees
==============================================================================
