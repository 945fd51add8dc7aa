--------------------------------- MODULE Alu ---------------------------------
(***************************************************************************)
(* The arithmetic of the ARM7TDMI (packages/arm-emulator/src/utils.ts and  *)
(* the parts of arm-cpu.ts without state): additions with their flags,     *)
(* shifts with their carry, conditions and the multiplier's cycles.  A     *)
(* word has four bytes of ByteBits bits; 8 of them make the machine's own. *)
(* Every operator takes and returns words as the unsigned numbers they     *)
(* are; a shift returns the word and the carry it leaves.                  *)
(***************************************************************************)
EXTENDS Integers, FiniteSetsExt

CONSTANTS
  ByteBits,  \* the bits of a byte
  Sign       \* the weight of a word's highest bit

ASSUME AluAssumption == ByteBits \in Nat \ {0} /\ Sign \in Nat \ {0}

W    == 4 * ByteBits
Wrap == 2 * Sign
Word == 0 .. Wrap - 1

\* AluAssumption leaves to this one, which TLC evaluates, that the two agree.
ASSUME SignIsTheTopBit == Sign = 2 ^ (W - 1)

IsNegative(v) == v >= Sign
Signed(v)     == IF IsNegative(v) THEN v - Wrap ELSE v
Bit(v, i)     == (v \div 2 ^ i) % 2 = 1
FromBits(S)   == MapThenSumSet(LAMBDA i : 2 ^ i, S)
BitsOf(v)     == {i \in 0 .. W - 1 : Bit(v, i)}

Not(v)    == Wrap - 1 - v
And(a, b) == FromBits(BitsOf(a) \intersect BitsOf(b))
Or(a, b)  == FromBits(BitsOf(a) \union BitsOf(b))
Eor(a, b) == And(Or(a, b), Not(And(a, b)))

\* The low bits of a value as a signed number, in a word.
SignExtend(v, width) ==
  LET low == v % 2 ^ width
  IN  IF low < 2 ^ (width - 1) THEN low ELSE Wrap - 2 ^ width + low

-----------------------------------------------------------------------------
\* A sum of two words and a carry, cut to a word.
Truncated(x) == IF x >= Wrap THEN x - Wrap ELSE x

\* Mutant: the carry out does not count the carry in.
AddWithFlagsNoCarryIn(a, b, carryIn) ==
  LET r == Truncated(a + b + carryIn)
  IN  [value |-> r, n |-> IsNegative(r), z |-> r = 0, c |-> a + b >= Wrap,
       v |-> IsNegative(a) # IsNegative(r) /\ IsNegative(b) # IsNegative(r)]

AddWithFlags(a, b, carryIn) ==
  LET r == Truncated(a + b + carryIn)
  IN  [value |-> r, n |-> IsNegative(r), z |-> r = 0, c |-> a + b + carryIn >= Wrap,
       v |-> IsNegative(a) # IsNegative(r) /\ IsNegative(b) # IsNegative(r)]

SubWithFlags(a, b, carryIn) == AddWithFlags(a, Not(b), carryIn)

Lsl(v, n, carry) ==
  IF n = 0 THEN <<v, carry>>
  ELSE IF n >= W THEN <<0, n = W /\ Bit(v, 0)>>
  ELSE <<(v * 2 ^ n) % Wrap, Bit(v, W - n)>>

\* An immediate amount of 0 stands for the whole word (LSR, ASR).
Lsr(v, n, carry, zeroMeansAll) ==
  IF n = 0 /\ ~zeroMeansAll THEN <<v, carry>>
  ELSE IF n = 0 \/ n >= W THEN <<0, n \in {0, W} /\ IsNegative(v)>>
  ELSE <<v \div 2 ^ n, Bit(v, n - 1)>>

Asr(v, n, carry, zeroMeansAll) ==
  IF n = 0 /\ ~zeroMeansAll THEN <<v, carry>>
  ELSE IF n = 0 \/ n >= W THEN <<IF IsNegative(v) THEN Wrap - 1 ELSE 0, IsNegative(v)>>
  ELSE <<(Signed(v) \div 2 ^ n) % Wrap, Bit(v, n - 1)>>

Rotated(v, n) == (v \div 2 ^ n) + ((v * 2 ^ (W - n)) % Wrap)

Ror(v, n, carry) ==
  IF n = 0 THEN <<v, carry>>
  ELSE IF n % W = 0 THEN <<v, IsNegative(v)>>
  ELSE <<Rotated(v, n % W), IsNegative(Rotated(v, n % W))>>

Rrx(v, carry) == <<(v \div 2) + (IF carry THEN Sign ELSE 0), Bit(v, 0)>>

Shifts == {"LSL", "LSR", "ASR", "ROR"}

\* Mutant: a shift by a register of 0 is taken for one by the whole word.
ShiftRegZero(type, v, n, carry, immediate) ==
  CASE type = "LSL" -> Lsl(v, n, carry)
    [] type = "LSR" -> Lsr(v, n, carry, TRUE)
    [] type = "ASR" -> Asr(v, n, carry, TRUE)
    [] type = "ROR" -> IF immediate /\ n = 0 THEN Rrx(v, carry) ELSE Ror(v, n, carry)

\* The barrel shifter's operand in a register.
Shift(type, v, n, carry, immediate) ==
  CASE type = "LSL" -> Lsl(v, n, carry)
    [] type = "LSR" -> Lsr(v, n, carry, immediate)
    [] type = "ASR" -> Asr(v, n, carry, immediate)
    [] type = "ROR" -> IF immediate /\ n = 0 THEN Rrx(v, carry) ELSE Ror(v, n, carry)

\* The offset of a load or store has a shifter of its own, without carries.
OffsetShift(type, v, n, carry) ==
  CASE type = "LSL" -> (v * 2 ^ n) % Wrap
    [] type = "LSR" -> IF n = 0 THEN 0 ELSE v \div 2 ^ n
    [] type = "ASR" -> IF n = 0 THEN IF IsNegative(v) THEN Wrap - 1 ELSE 0
                       ELSE (Signed(v) \div 2 ^ n) % Wrap
    [] type = "ROR" -> IF n = 0 THEN Rrx(v, carry)[1] ELSE Rotated(v, n)

CheckCondition(cond, p) ==
  CASE cond = "EQ" -> p.z          [] cond = "NE" -> ~p.z
    [] cond = "CS" -> p.c          [] cond = "CC" -> ~p.c
    [] cond = "MI" -> p.n          [] cond = "PL" -> ~p.n
    [] cond = "VS" -> p.v          [] cond = "VC" -> ~p.v
    [] cond = "HI" -> p.c /\ ~p.z  [] cond = "LS" -> ~p.c \/ p.z
    [] cond = "GE" -> p.n = p.v    [] cond = "LT" -> p.n # p.v
    [] cond = "GT" -> ~p.z /\ p.n = p.v
    [] cond = "LE" -> p.z \/ p.n # p.v
    [] cond = "AL" -> TRUE         [] cond = "NV" -> FALSE

\* The array stops once the bytes left are all zero, or all ones when signed.
MultiplierCycles(v, signed) ==
  LET stops(k) == LET rest == (IF signed THEN Signed(v) ELSE v) \div 2 ^ (k * ByteBits)
                  IN  rest = 0 \/ (signed /\ rest = -1)
  IN  IF \E k \in 1 .. 3 : stops(k) THEN CHOOSE k \in 1 .. 3 : stops(k) /\ \A j \in 1 .. k - 1 : ~stops(j)
      ELSE 4

\* The product of a long multiply and what it is added to, as two words.
LongProduct(a, b, hi, lo, signed) ==
  LET product == IF signed THEN Signed(a) * Signed(b) ELSE a * b
      sum == (product + hi * Wrap + lo) % (Wrap * Wrap)
  IN  [hi |-> sum \div Wrap, lo |-> sum % Wrap]
=============================================================================
