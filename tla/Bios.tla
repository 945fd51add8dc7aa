---------------------------------- MODULE Bios ----------------------------------
(***************************************************************************)
(* The software interrupts the host runs for a program                     *)
(* (packages/gba-emulator/src/bios.ts): copies and fills, unpackers,       *)
(* decompressors, division, square root and arctangent, affine matrices.   *)
(* A machine has the registers r0 to r3 a call reads and writes and the    *)
(* bytes of memory.  A word is the tuple of its bytes or of its bits,      *)
(* lowest first.  What a call costs, RegisterRamReset, the checksum,       *)
(* SoundBias and MidiKey2Freq are left out.                                *)
(***************************************************************************)
EXTENDS Integers, Sequences, SequencesExt

CONSTANTS
  ADDRESSES,       \* bound: the address space
  BIOS_END,        \* bound: where the BIOS, which no call reads from, ends
  WORD_BITS,       \* bound: the bits of a word, for division and square root
  HUFF_WALK_LIMIT, \* bound: nodes walked before a tree counts as endless
  Sine,            \* the sine table over a turn, in units of 1 / 16384
  Points           \* bound: the points whose angles are compared

VARIABLES machine, before, call
vars == <<machine, before, call>>

At(a) == a % ADDRESSES
Endless == "endless"   \* the call runs on in the BIOS image's own loop

-----------------------------------------------------------------------------
(* Memory, as the bus gives it: units are aligned.                         *)
Read(mem, a, n)  == [k \in 1 .. n |-> mem[At(a - (a % n) + k - 1)]]
Write(mem, a, u) ==
  LET first == At(a - (a % Len(u)))
  IN  [b \in DOMAIN mem |-> IF b \in first .. first + Len(u) - 1 THEN u[b - first + 1] ELSE mem[b]]

Half(mem, a)   == LET u == Read(mem, a, 2) IN u[1] + 256 * u[2]
Signed16(v)    == IF v % 65536 >= 32768 THEN (v % 65536) - 65536 ELSE v % 65536
AsHalf(v)      == <<v % 256, (v \div 256) % 256>>
SizeIn(mem, a) == LET u == Read(mem, a, 4) IN u[2] + 256 * u[3] + 65536 * u[4]

BitOf(v, k)     == IF k > 30 THEN 0 ELSE (v \div 2 ^ k) % 2   \* of a number below 2 ^ 31
BitsOf(v, n)    == [k \in 1 .. n |-> BitOf(v, k - 1)]
BytesOf(bits)   == [k \in 1 .. Len(bits) \div 8 |->
                     FoldLeft(LAMBDA v, i : v + 2 ^ i * bits[8 * (k - 1) + i + 1], 0, [i \in 1 .. 8 |-> i - 1])]
HighFirst(word) == FoldLeft(LAMBDA bits, b : Reverse(BitsOf(b, 8)) \o bits, <<>>, word)

Count(n) == [i \in 1 .. n |-> i - 1]

-----------------------------------------------------------------------------
(* What a call may read: nothing that begins or ends in the BIOS.          *)
ReadableSource(a) == At(a) >= BIOS_END
ReadableRange(a, length) ==
  length # 0 /\ ReadableSource(a) /\ ReadableSource(a + (length % BIOS_END))

Returned(s, mem, r) == [mem |-> mem, r |-> [k \in 0 .. 3 |-> IF k \in DOMAIN r THEN r[k] ELSE s.r[k]]]
Left(k, v) == [j \in {k} |-> v]

ReturnAddress == 368   \* what the BIOS leaves in r3 where its exit pops through it

-----------------------------------------------------------------------------
(* Copies.  The control word has the count, a bit that makes it a fill and *)
(* one that makes its units words.                                         *)
CopyCount(control) == control % 2 ^ 21
Fills(control)     == BitOf(control, 24) = 1
Words(control)     == BitOf(control, 26) = 1

\* A halfword load from an odd address stores the byte it addresses.
LoadHalf(mem, a) == IF a % 2 = 0 THEN Read(mem, a, 2) ELSE <<mem[At(a)], 0>>

CpuSet(s) ==
  LET src == s.r[0]
      dst == s.r[1]
      count == CopyCount(s.r[2])
      fill == Fills(s.r[2])
      step == IF Words(s.r[2]) THEN 4 ELSE 2
      load(mem, a) == IF step = 4 THEN Read(mem, a, 4) ELSE LoadHalf(mem, a)
      mem == FoldLeft(LAMBDA m, i : Write(m, dst + i * step,
                        IF fill THEN load(s.mem, src) ELSE load(m, src + i * step)), s.mem, Count(count))
  IN  IF ~ReadableRange(src, 4 * count) THEN Returned(s, s.mem, Left(3, ReturnAddress))
      ELSE Returned(s, mem, Left(3, ReturnAddress) @@
             IF step = 4 THEN 0 :> At(src + (IF fill THEN 4 ELSE count * 4)) @@ 1 :> At(dst + count * 4)
             ELSE <<>>)

\* Blocks of eight words, each loaded whole before it is stored.
CpuFastSet(s) ==
  LET src == s.r[0]
      dst == s.r[1]
      fill == Fills(s.r[2])
      blocks == (CopyCount(s.r[2]) + 7) \div 8
      block(mem, b) == [i \in 1 .. 8 |-> Read(mem, IF fill THEN src ELSE src + 32 * b + 4 * (i - 1), 4)]
      store(mem, b, words) == FoldLeft(LAMBDA m, i : Write(m, dst + 32 * b + 4 * i, words[i + 1]), mem, Count(8))
      done == FoldLeft(LAMBDA d, b : LET words == block(IF fill THEN s.mem ELSE d.mem, b)
                                     IN  [mem |-> store(d.mem, b, words), second |-> words[2]],
                       [mem |-> s.mem, second |-> <<>>], Count(blocks))
  IN  IF ~ReadableRange(src, 4 * CopyCount(s.r[2])) THEN s
      ELSE Returned(s, done.mem, 1 :> At(dst + 32 * blocks) @@ 3 :> done.second @@
             (IF fill THEN <<>> ELSE 0 :> At(src + 32 * blocks)))

-----------------------------------------------------------------------------
(* Where a decompressor's bytes go.  Video memory takes halfwords only: an *)
(* even byte is held until the odd one after it comes.                     *)
Output(s, vram) == [mem |-> s.mem, at |-> s.r[1], vram |-> vram, held |-> 0]

Put(o, byte) ==
  LET next == [o EXCEPT !.at = At(@ + 1)]
  IN  IF ~o.vram THEN [next EXCEPT !.mem = Write(@, o.at, <<byte>>)]
      ELSE IF o.at % 2 = 0 THEN [next EXCEPT !.held = byte]
      ELSE [next EXCEPT !.mem = Write(@, o.at, <<o.held, byte>>)]

EndOf(o)    == IF o.vram THEN o.at - (o.at % 2) ELSE o.at
HeldByte(o) == IF o.vram /\ o.at % 2 = 1 THEN o.held ELSE 0

\* Mutant: a reference is copied from where it begins, not as it grows.
CopyBackAtOnce(o, from, length) ==
  FoldLeft(LAMBDA p, j : Put(p, o.mem[At(from + j)]), o, Count(length))

CopyBack(o, from, length) ==
  FoldLeft(LAMBDA p, j : Put(p, p.mem[At(from + j)]), o, Count(length))

\* `flags` is what is left of a flag byte, the highest bit first.
RECURSIVE Lz77From(_, _, _, _)
Lz77From(o, src, remaining, flags) ==
  LET byte(k) == o.mem[At(src + k)]
  IN  IF remaining <= 0 THEN [out |-> o, src |-> At(src)]
      ELSE IF flags = <<>> THEN Lz77From(o, src + 1, remaining, Reverse(BitsOf(byte(0), 8)))
      ELSE IF Head(flags) = 0 THEN Lz77From(Put(o, byte(0)), src + 1, remaining - 1, Tail(flags))
      ELSE LET length == (byte(0) \div 16) + 3
               back == (byte(0) % 16) * 256 + byte(1) + 1
           IN  Lz77From(CopyBack(o, o.at - back, length), src + 2, remaining - length, Tail(flags))

Decompress(s, vram, from(_, _, _), r3(_)) ==
  LET src == s.r[0] + 4
      size == SizeIn(s.mem, s.r[0])
      d == from(Output(s, vram), src, size)
  IN  IF ~ReadableRange(src, size) THEN Returned(s, s.mem, 0 :> At(src) @@ Left(3, r3(Output(s, FALSE))))
      ELSE Returned(s, d.out.mem, 0 :> d.src @@ 1 :> EndOf(d.out) @@ Left(3, r3(d.out)))

Lz77(s, vram) ==
  Decompress(s, vram, LAMBDA o, src, size : Lz77From(o, src, size, <<>>),
             LAMBDA o : IF vram THEN HeldByte(o) ELSE s.r[3])

RECURSIVE RunsFrom(_, _, _)
RunsFrom(o, src, remaining) ==
  LET flag == o.mem[At(src)]
      run == (flag % 128) + 3
      literal == (flag % 128) + 1
      again == o.mem[At(src + 1)]
  IN  IF remaining <= 0 THEN [out |-> o, src |-> At(src)]
      ELSE IF flag >= 128
      THEN RunsFrom(FoldLeft(LAMBDA p, j : Put(p, again), o, Count(run)), src + 2, remaining - run)
      ELSE RunsFrom(FoldLeft(LAMBDA p, j : Put(p, p.mem[At(src + 1 + j)]), o, Count(literal)),
                    src + 1 + literal, remaining - literal)

RunLength(s, vram) == Decompress(s, vram, RunsFrom, LAMBDA o : ReturnAddress)

\* Differences of bytes, and of halfwords.
DiffUnFilter8(s, vram) ==
  LET from(o, src, size) ==
        LET d == FoldLeft(LAMBDA p, i : LET unit == (p.unit + p.out.mem[At(src + i)]) % 256
                                        IN  [unit |-> unit, out |-> Put(p.out, unit)],
                          [unit |-> 0, out |-> o], Count(size))
        IN  [out |-> d.out, src |-> At(src + size)]
  IN  Decompress(s, vram, from, LAMBDA o : ReturnAddress)

DiffUnFilter16(s) ==
  LET src == s.r[0] + 4
      size == SizeIn(s.mem, s.r[0])
      units == (size + 1) \div 2
      step(d, i) == LET difference == Half(d.mem, src + 2 * i)
                        unit == (d.unit + difference) % 65536
                    IN  [unit |-> unit, mem |-> Write(d.mem, s.r[1] + 2 * i, AsHalf(unit)),
                         last |-> IF i = 0 THEN d.last ELSE difference]
      done == FoldLeft(step, [unit |-> 0, mem |-> s.mem, last |-> 2980], Count(units))
  IN  IF ~ReadableRange(src, size) THEN Returned(s, s.mem, 0 :> At(src) @@ Left(3, 2980))
      ELSE Returned(s, done.mem, 0 :> At(src + 2 * units) @@ 1 :> At(s.r[1] + 2 * units) @@ 3 :> done.last)

-----------------------------------------------------------------------------
(* BitUnPack: units of a byte, with an offset, into the bits of words.     *)
Merged(word, value, used) ==
  [k \in 1 .. 32 |-> IF k > used /\ BitOf(value, k - 1 - used) = 1 THEN 1 ELSE word[k]]

Zero32 == [k \in 1 .. 32 |-> 0]

AddsToZero(offset) == offset[4] >= 128

UnPackUnit(d, value, offset, width) ==
  LET low == offset[1] + 256 * offset[2] + 65536 * offset[3] + 16777216 * (offset[4] % 128)
      unit == IF value # 0 \/ AddsToZero(offset) THEN value + low ELSE 0
      word == Merged(d.word, unit, d.used)
  IN  IF d.used + width < 32 THEN [d EXCEPT !.word = word, !.used = @ + width]
      ELSE [mem |-> Write(d.mem, d.dst, BytesOf(word)), dst |-> At(d.dst + 4), word |-> Zero32, used |-> 0]

BitUnPack(s) ==
  LET info == s.r[2]
      length == Half(s.mem, info)
      width == s.mem[At(info + 2)]
      target == s.mem[At(info + 3)]
      offset == Read(s.mem, info + 4, 4)
      units == (7 + width) \div width
      value(byte, k) == IF width > 8 THEN 0 ELSE (byte \div 2 ^ (k * width)) % 2 ^ width
      unpackByte(d, i) == LET byte == d.mem[At(s.r[0] + i)]
                          IN  FoldLeft(LAMBDA e, k : UnPackUnit(e, value(byte, k), offset, target), d, Count(units))
      done == FoldLeft(unpackByte, [mem |-> s.mem, dst |-> s.r[1], word |-> Zero32, used |-> 0], Count(length))
  IN  IF ~ReadableRange(s.r[0], length) THEN s
      ELSE IF width = 0 THEN [s EXCEPT !.r[3] = Endless]
      ELSE Returned(s, done.mem, 0 :> At(s.r[0] + length) @@ 1 :> done.dst @@ 3 :> done.used)

-----------------------------------------------------------------------------
(* HuffUnComp.  A node has the distance to its children and says which of  *)
(* them are leaves; a leaf's value enters its word from the top.           *)
ShiftedIn(word, leaf, bits) ==
  IF bits = 0 THEN word ELSE SubSeq(word, bits + 1, 32) \o BitsOf(leaf, bits)

LeavesPerWord(bits) == (bits % 8) + 4

LeafReached(h, child) ==
  [h EXCEPT !.word = ShiftedIn(@, h.mem[At(child)], h.bits), !.node = h.root, !.walk = 0, !.leaves = @ + 1]

WordFull(h) ==
  IF h.leaves # LeavesPerWord(h.bits) THEN h
  ELSE [h EXCEPT !.mem = Write(@, h.dst, BytesOf(h.word)), !.dst = At(@ + 4), !.remaining = @ - 4, !.leaves = 0]

\* The word at `a` as a load rotates it.
Rotated32(mem, a) == LET u == Read(mem, a, 4) IN [k \in 1 .. 4 |-> u[((k - 1 + a) % 4) + 1]]

RECURSIVE Huff(_, _)
Huff(h, stream) ==
  LET right == Head(stream)
      flags == h.mem[At(h.node)]
      child == At(h.node - (h.node % 2) + ((flags % 64) + 1) * 2 + right)
  IN  IF h.remaining <= 0 \/ h.walk = HUFF_WALK_LIMIT THEN h
      ELSE IF stream = <<>>
      THEN Huff([h EXCEPT !.stream = At(@ + 4)], HighFirst(Rotated32(h.mem, h.stream)))
      ELSE IF BitOf(flags, 7 - right) = 0
      THEN Huff([h EXCEPT !.node = child, !.walk = @ + 1], Tail(stream))
      ELSE Huff(WordFull(LeafReached(h, child)), Tail(stream))

HuffUnComp(s) ==
  LET src == s.r[0]
      root == At(src + 5)
      h == Huff([mem |-> s.mem, dst |-> s.r[1], bits |-> s.mem[At(src - (src % 4))] % 16, remaining |-> SizeIn(s.mem, src),
                 root |-> root, node |-> root, walk |-> 0, leaves |-> 0, word |-> Zero32,
                 stream |-> At(src + 4 + (s.mem[At(src + 4)] + 1) * 2)], <<>>)
  IN  IF ~ReadableSource(src) THEN s
      ELSE Returned(s, h.mem, 0 :> h.stream @@ 1 :> h.dst @@
             Left(3, IF h.walk = HUFF_WALK_LIMIT THEN Endless ELSE h.word))

-----------------------------------------------------------------------------
(* Arithmetic.                                                             *)
Size        == 2 ^ WORD_BITS
Signed(w)   == IF w >= Size \div 2 THEN w - Size ELSE w
Magnitude(n) == IF n < 0 THEN -n ELSE n

\* Division towards zero.
Quotient(n, d) == LET q == Magnitude(n) \div Magnitude(d) IN IF (n < 0) # (d < 0) THEN -q ELSE q

\* What Div leaves in r0, r1 and r3.
Div(n, d) ==
  IF d = 0 THEN <<IF n < 0 THEN Size - 1 ELSE 1, n % Size, 1>>
  ELSE <<Quotient(n, d) % Size, (n - d * Quotient(n, d)) % Size, Magnitude(Signed(Quotient(n, d) % Size)) % Size>>

\* The bound Newton's iteration starts from.
RECURSIVE FirstBound(_, _)
FirstBound(upper, bound) ==
  IF bound < upper THEN FirstBound(upper \div 2, (bound * 2) % Size) ELSE bound

RECURSIVE TopDivisor(_, _)
TopDivisor(lower, upper) ==
  LET next == IF lower <= upper \div 2 THEN (lower * 2) % Size ELSE lower
  IN  IF lower >= upper \div 2 THEN next ELSE TopDivisor(next, upper)

\* x divided by bound, bit by bit.
RECURSIVE BitwiseQuotient(_, _, _, _)
BitwiseQuotient(upper, lower, accum, bound) ==
  LET fits == upper >= lower
      a == ((accum * 2) + (IF fits THEN 1 ELSE 0)) % Size
  IN  IF lower = bound THEN a ELSE BitwiseQuotient(IF fits THEN upper - lower ELSE upper, lower \div 2, a, bound)

RECURSIVE Newton(_, _)
Newton(x, bound) ==
  LET accum == BitwiseQuotient(x, TopDivisor(bound, x), 0, bound)
      next == ((bound + accum) % Size) \div 2
  IN  IF next >= bound THEN <<bound, next, accum>> ELSE Newton(x, next)

\* What Sqrt leaves in r0, r1 and r3.
Sqrt(x) == IF x = 0 THEN <<0, 0, 1>> ELSE Newton(x, FirstBound(x, 1))

ArcTanTerms == <<2332, 4022, 5802, 8321, 13905, 41721>>

\* Horner's form over a = -t * t / 16384.
ArcTan(t) ==
  LET a == -((t * t) \div 16384)
      b == FoldLeft(LAMBDA v, term : ((v * a) \div 16384) + term, ((169 * a) \div 16384) + 912, ArcTanTerms)
  IN  (t * b) \div 65536

\* The octant's ratio, its base and whether the angle is taken from it.
Octant(x, y) ==
  IF y >= 0
  THEN CASE x >= 0 /\ x >= y -> <<y, x, 0, 1>>
         [] x < 0 /\ -x >= y -> <<y, x, 32768, 1>>
         [] OTHER -> <<x, y, 16384, -1>>
  ELSE CASE x <= 0 /\ -x > -y -> <<y, x, 32768, 1>>
         [] x > 0 /\ x >= -y -> <<y, x, 65536, 1>>
         [] OTHER -> <<x, y, 49152, -1>>

\* Mutant: an octant's angle always adds to its base.
ArcTan2Mirrored(x, y) ==
  LET o == Octant(x, y)
  IN  IF y = 0 THEN IF x >= 0 THEN 0 ELSE 32768
      ELSE IF x = 0 THEN IF y >= 0 THEN 16384 ELSE 49152
      ELSE o[3] + ArcTan(Quotient(o[1] * 16384, o[2]))

ArcTan2(x, y) ==
  LET o == Octant(x, y)
  IN  IF y = 0 THEN IF x >= 0 THEN 0 ELSE 32768
      ELSE IF x = 0 THEN IF y >= 0 THEN 16384 ELSE 49152
      ELSE o[3] + o[4] * ArcTan(Quotient(o[1] * 16384, o[2]))

-----------------------------------------------------------------------------
(* Rotation and scaling.                                                   *)
AffineMatrix(sx, sy, angle) ==
  LET step == ((angle \div 256) * Len(Sine)) \div 256
      sin == Sine[step + 1]
      cos == Sine[((step + Len(Sine) \div 4) % Len(Sine)) + 1]
  IN  <<(sx * cos) \div 16384, -((sx * sin) \div 16384), (sy * sin) \div 16384, (sy * cos) \div 16384>>

AsWord(v)     == <<v % 256, (v \div 256) % 256, (v \div 65536) % 256, (v \div 2 ^ 24) % 256>>
Word32(mem, a) == LET u == Read(mem, a, 4) IN u[1] + 256 * u[2] + 65536 * u[3] + 2 ^ 24 * (IF u[4] > 127 THEN u[4] - 256 ELSE u[4])

\* A background's matrix, and where in it a line begins for the point of the
\* source to be shown at the point of the display.  r3 is left with the last pa.
BgAffineSet(s) ==
  LET one(d, i) ==
        LET src == s.r[0] + 20 * i
            dst == s.r[1] + 16 * i
            at(k) == Signed16(Half(d.mem, src + k))
            m == AffineMatrix(at(12), at(14), Half(d.mem, src + 16))
            start(origin, x, y) == Word32(d.mem, src + origin) - m[x] * at(8) - m[y] * at(10)
            matrix == FoldLeft(LAMBDA e, k : Write(e, dst + 2 * k, AsHalf(m[k + 1])), d.mem, Count(4))
        IN  [mem |-> Write(Write(matrix, dst + 8, AsWord(start(0, 1, 2))), dst + 12, AsWord(start(4, 3, 4))),
             pa |-> AsWord(m[1])]
      done == FoldLeft(one, [mem |-> s.mem, pa |-> s.r[3]], Count(s.r[2]))
  IN  Returned(s, done.mem,
               0 :> At(s.r[0] + 20 * s.r[2]) @@ 1 :> At(s.r[1] + 16 * s.r[2]) @@ 3 :> done.pa)

ObjAffineSet(s) ==
  LET stride == s.r[3]
      one(d, i) ==
        LET src == s.r[0] + 8 * i
            m == AffineMatrix(Signed16(Half(d, src)), Signed16(Half(d, src + 2)), Half(d, src + 4))
        IN  FoldLeft(LAMBDA e, k : Write(e, s.r[1] + 4 * stride * i + k * stride, AsHalf(m[k + 1])), d, Count(4))
  IN  Returned(s, FoldLeft(one, s.mem, Count(s.r[2])),
               0 :> At(s.r[0] + 8 * s.r[2]) @@ 1 :> At(s.r[1] + 4 * stride * s.r[2]))

-----------------------------------------------------------------------------
Answered(s, v) == [s EXCEPT !.r = [k \in 0 .. 3 |-> CASE k < 2 -> v[k + 1] [] k = 2 -> @[2] [] k = 3 -> v[3]]]

SwiArcTan2(s) ==
  LET x == Signed(s.r[0])
      y == Signed(s.r[1])
      o == Octant(x, y)
      t == Quotient(o[1] * 16384, o[2])
  IN  Returned(s, s.mem, 0 :> ArcTan2(x, y) @@ 3 :> ReturnAddress @@
                         (IF x = 0 \/ y = 0 THEN <<>> ELSE 1 :> -((t * t) \div 16384)))

HandleSwi(s, number) ==
  CASE number = 6  -> Answered(s, Div(Signed(s.r[0]), Signed(s.r[1])))
    [] number = 7  -> Answered(s, Div(Signed(s.r[1]), Signed(s.r[0])))
    [] number = 8  -> Answered(s, Sqrt(s.r[0]))
    [] number = 10 -> SwiArcTan2(s)
    [] number = 11 -> CpuSet(s)
    [] number = 12 -> CpuFastSet(s)
    [] number = 14 -> BgAffineSet(s)
    [] number = 15 -> ObjAffineSet(s)
    [] number = 16 -> BitUnPack(s)
    [] number \in {17, 18} -> Lz77(s, number = 18)
    [] number = 19 -> HuffUnComp(s)
    [] number \in {20, 21} -> RunLength(s, number = 21)
    [] number \in {22, 23} -> DiffUnFilter8(s, number = 23)
    [] number = 24 -> DiffUnFilter16(s)

\* A call comes from a program; what it is to bring about is its caller's.
Call ==
  /\ before = <<>>
  /\ before' = <<machine>>
  /\ machine' = HandleSwi(machine, call.number)
  /\ UNCHANGED call

-----------------------------------------------------------------------------
(* Properties *)

\* A call leaves at the destination what its packed data stands for, and
\* nothing anywhere else, wherever the data ends and whatever of it the output
\* overlaps; its pointers end past what it read and wrote, and a call whose
\* source the BIOS refuses changes no memory (readableRange, DecompressorOutput).
\* `call` says what the data stands for: the bytes `wants` from `at` on.
DataArrives ==
  before # <<>> =>
    LET reach == call.at .. call.at + Len(call.wants) - 1
    IN  /\ \A a \in DOMAIN machine.mem :
             machine.mem[a] = IF a \in reach THEN call.wants[a - call.at + 1] ELSE before[1].mem[a]
        /\ \A k \in DOMAIN call.left : machine.r[k] = call.left[k]

\* The larger of two angles is that of the point further round.
Rounds(p, q) == p[1] * q[2] - p[2] * q[1]
HalfTurn(p)  == IF p[2] > 0 \/ (p[2] = 0 /\ p[1] > 0) THEN 0 ELSE 1
Before(p, q) == HalfTurn(p) < HalfTurn(q) \/ (HalfTurn(p) = HalfTurn(q) /\ Rounds(p, q) > 0)

\* Division gives the quotient towards zero and the remainder that belongs to
\* it, for every sign and for the one quotient that does not fit; the square
\* root is the largest whose square is no more; and going round the plane the
\* angle never goes back, over all eight octants and their borders (swiDiv,
\* bitwiseSqrt, swiArcTan2).
MathAgrees ==
  before # <<>> =>
    LET given == [k \in 0 .. 1 |-> Signed(before[1].r[k])]
        n == IF call.number = 7 THEN given[1] ELSE given[0]
        d == IF call.number = 7 THEN given[0] ELSE given[1]
        quotient == Signed(machine.r[0])
        rest == Signed(machine.r[1])
        root == machine.r[0]
        p == <<given[0], given[1]>>
    IN  /\ (call.number \in {6, 7} /\ d # 0) =>
             /\ (quotient * d + rest - n) % Size = 0
             /\ Magnitude(rest) < Magnitude(d) /\ (rest = 0 \/ (rest < 0 <=> n < 0))
             /\ machine.r[3] = Magnitude(quotient)
        /\ call.number = 8 => root * root <= before[1].r[0] /\ (root + 1) * (root + 1) > before[1].r[0]
        /\ call.number = 10 => \A q \in Points : Before(p, q) => machine.r[0] <= ArcTan2(q[1], q[2])

=============================================================================
