------------------------------- MODULE MCBios -------------------------------
(* Calls whose packed data is made here from what it stands for, by the    *)
(* formats' definitions.                                                   *)
EXTENDS Bios, FiniteSets

Source == 64
Target == 160
Ground == [a \in 0 .. ADDRESSES - 1 |-> (a * 37 + 11) % 251]
Over(mem, at, bytes) == [a \in DOMAIN mem |-> IF a \in at .. at + Len(bytes) - 1 THEN bytes[a - at + 1] ELSE mem[a]]

Case(number, mem, r, at, wants, left) ==
  [machine |-> [mem |-> mem, r |-> r], call |-> [number |-> number, at |-> at, wants |-> wants, left |-> left]]

Regs(a, b, c, d) == 0 :> a @@ 1 :> b @@ 2 :> c @@ 3 :> d
Header(type, size) == <<type, size, 0, 0>>
Joined(seqs) == FoldLeft(\o, <<>>, seqs)
Even(bytes, vram) == IF vram THEN SubSeq(bytes, 1, Len(bytes) - (Len(bytes) % 2)) ELSE bytes

\* A stream of packed bytes at the source, unpacked at the target.
Packed(number, type, size, bytes, wants, vram) ==
  Case(number, Over(Ground, Source, Header(type, size) \o bytes), Regs(Source, Target, 5, 6), Target,
       Even(wants, vram), 0 :> Source + 4 + Len(bytes) @@ 1 :> Target + Len(Even(wants, vram)))

-----------------------------------------------------------------------------
(* A back reference of a token repeats what came before it, itself too.    *)
Lit(b)       == [back |-> 0, length |-> 1, byte |-> b]
Ref(back, n) == [back |-> back, length |-> n, byte |-> 0]
Tokens(vram) == {Lit(7), Lit(200), Ref(2, 3), Ref(3, 5)} \cup (IF vram THEN {} ELSE {Ref(1, 4)})

Extended(data, t) ==
  IF t.back = 0 THEN Append(data, t.byte)
  ELSE data \o [k \in 1 .. t.length |-> data[Len(data) - t.back + ((k - 1) % t.back) + 1]]
Meaning(tokens) == FoldLeft(Extended, <<>>, tokens)

TokenBytes(t) == IF t.back = 0 THEN <<t.byte>> ELSE <<16 * (t.length - 3) + (t.back - 1) \div 256, (t.back - 1) % 256>>
FlagByte(tokens) == FoldLeft(LAMBDA v, k : v + (IF k <= Len(tokens) /\ tokens[k].back > 0 THEN 2 ^ (8 - k) ELSE 0), 0,
                             [k \in 1 .. 8 |-> k])
Group(tokens) == <<FlagByte(tokens)>> \o Joined([k \in 1 .. Len(tokens) |-> TokenBytes(tokens[k])])
LzBytes(tokens) == IF Len(tokens) <= 8 THEN Group(tokens)
                   ELSE Group(SubSeq(tokens, 1, 8)) \o Group(SubSeq(tokens, 9, Len(tokens)))

LzTokens(vram) == {<<Lit(1), Lit(2), Lit(3)>> \o t : t \in [1 .. 3 -> Tokens(vram)]}
                    \cup {<<Lit(1), Lit(2), Lit(3), Lit(4), Lit(5), Lit(6)>> \o t : t \in [1 .. 3 -> {Lit(9), Ref(2, 4)}]}

LzCases ==
  UNION {{Packed(IF vram THEN 18 ELSE 17, 16, Len(Meaning(t)) - over, LzBytes(t), Meaning(t), vram) :
            t \in {u \in LzTokens(vram) : over = 0 \/ u[Len(u)].back > 0}} : over \in 0 .. 1, vram \in BOOLEAN}

-----------------------------------------------------------------------------
Runs == {<<TRUE, 3, 8>>, <<TRUE, 6, 9>>, <<FALSE, 1, 10>>, <<FALSE, 4, 11>>}
RunMeaning(r) == [k \in 1 .. r[2] |-> IF r[1] THEN r[3] ELSE r[3] + k]
RunBytes(r)   == IF r[1] THEN <<128 + r[2] - 3, r[3]>> ELSE <<r[2] - 1>> \o RunMeaning(r)
RunCases ==
  UNION {LET runs(f) == Joined([k \in DOMAIN f |-> RunMeaning(f[k])])
         IN  {Packed(IF vram THEN 21 ELSE 20, 48, Len(runs(f)), Joined([k \in DOMAIN f |-> RunBytes(f[k])]), runs(f), vram) :
                f \in [1 .. 3 -> Runs]} : vram \in BOOLEAN}

-----------------------------------------------------------------------------
Differences(d, modulus) == [k \in 1 .. Len(d) |-> IF k = 1 THEN d[1] ELSE (d[k] + modulus - d[k - 1]) % modulus]
Data8  == [1 .. 3 -> {0, 1, 255}] \cup [1 .. 4 -> {7, 200}]
Data16 == [1 .. 3 -> {0, 258, 65535}]
Halves(d) == Joined([k \in 1 .. Len(d) |-> AsHalf(d[k])])
DiffCases ==
  {Packed(IF vram THEN 23 ELSE 22, 129, Len(d), Differences(d, 256), d, vram) : d \in Data8, vram \in BOOLEAN}
    \cup {Packed(24, 130, 6, Halves(Differences(d, 65536)), Halves(d), FALSE) : d \in Data16}
    \cup {LET c == Packed(22, 129, Len(d), Differences(d, 256), d, FALSE)
          IN  [c EXCEPT !.machine.r[1] = Source + 4, !.call.at = Source + 4, !.call.left = 1 :> Source + 4 + Len(d)] : d \in Data8}

-----------------------------------------------------------------------------
(* Codes of one, two and two bits: 0, 10 and 11.                           *)
Tree(leaves) == <<3, 128, leaves[1], 192, leaves[2], leaves[3], 0, 0>>
Code(k) == CASE k = 1 -> <<0>> [] k = 2 -> <<1, 0>> [] k = 3 -> <<1, 1>>
Padded(bits) == bits \o [k \in 1 .. (32 - (Len(bits) % 32)) % 32 |-> 0]
StreamBytes(bits) ==
  LET p == Padded(bits)
  IN  Joined([w \in 1 .. Len(p) \div 32 |-> BytesOf(Reverse(SubSeq(p, 32 * (w - 1) + 1, 32 * w)))])
HuffCases ==
  UNION {{LET bits == Joined([k \in DOMAIN f |-> Code(f[k])])
              leaves == IF width = 8 THEN <<17, 250, 3>> ELSE <<5, 12, 3>>
              wants == BytesOf(Joined([k \in DOMAIN f |-> BitsOf(leaves[f[k]], width)]))
          IN  Packed(19, 32 + width, Len(wants), Tree(leaves) \o StreamBytes(bits), wants, FALSE) :
            f \in IF width = 8 THEN [1 .. 4 -> 1 .. 3] \cup {g \o h : g \in [1 .. 4 -> {1, 3}], h \in [1 .. 4 -> {2}]}
                  ELSE {g \o h : g \in [1 .. 4 -> 1 .. 3], h \in [1 .. 4 -> {2, 3}]}} : width \in {4, 8}}

-----------------------------------------------------------------------------
Info(length, width, target, offset, zero) == <<length, 0, width, target, offset, 0, 0, IF zero THEN 128 ELSE 0>>
Unpacked(bytes, width, target, offset, zero) ==
  LET units == Joined([k \in DOMAIN bytes |-> [j \in 1 .. 8 \div width |-> (bytes[k] \div 2 ^ ((j - 1) * width)) % 2 ^ width]])
      value(v) == IF v # 0 \/ zero THEN v + offset ELSE 0
      all == BytesOf(Joined([k \in DOMAIN units |-> BitsOf(value(units[k]), target)]))
  IN  SubSeq(all, 1, Len(all) - (Len(all) % 4))
UnPackCases ==
  {LET wants == Unpacked(bytes, w[1], w[2], offset, zero)
   IN  Case(16, Over(Over(Ground, Source, bytes), 128, Info(Len(bytes), w[1], w[2], offset, zero)),
            Regs(Source, Target, 128, 0), Target, wants, 0 :> Source + Len(bytes) @@ 1 :> Target + Len(wants)) :
     bytes \in {<<0, 170, 15, 129>>, <<1, 2, 3>>, <<255>>},
     w \in {<<1, 2>>, <<1, 4>>, <<2, 8>>, <<4, 8>>, <<8, 16>>, <<8, 32>>, <<4, 32>>}, offset \in {0, 1}, zero \in BOOLEAN}

-----------------------------------------------------------------------------
(* A copy forward over its own source repeats what is between the two.     *)
Copies == {<<step, count, shift, fill>> \in {2, 4} \X {1, 2, 5} \X {2, 4, 8, 96, -2, -8} \X BOOLEAN :
             step = 2 \/ shift % 4 = 0}
CopyCases ==
  {LET step == c[1]
       n == c[1] * c[2]
       base == 96
       orig(k) == Ground[base + k]
       out == [k \in 1 .. n |-> IF c[4] THEN orig((k - 1) % step)
                                ELSE IF c[3] \in 1 .. n THEN orig((k - 1) % c[3]) ELSE orig(k - 1)]
   IN  Case(11, Ground, Regs(base, base + c[3], c[2] + (IF c[4] THEN 2 ^ 24 ELSE 0) + (IF step = 4 THEN 2 ^ 26 ELSE 0), 0),
            base + c[3], out, 3 :> 368) : c \in Copies}

Fast(words, shift, i) ==
  LET out[k \in 0 .. 15] == IF k >= shift /\ k - shift < 8 * (k \div 8) THEN out[k - shift] ELSE k IN out[i]
FastCases ==
  {LET words == 8 * ((c[1] + 7) \div 8)
       orig(w) == [b \in 1 .. 4 |-> Ground[96 + 4 * w + b - 1]]
       out == Joined([k \in 1 .. words |-> orig(IF c[3] THEN 0 ELSE Fast(words, c[2], k - 1))])
   IN  Case(12, Ground, Regs(96, 96 + 4 * c[2], c[1] + (IF c[3] THEN 2 ^ 24 ELSE 0), 0), 96 + 4 * c[2], out,
            1 :> 96 + 4 * c[2] + 4 * words) : c \in {1, 8, 9} \X {1, 3, 8, 20} \X BOOLEAN}

-----------------------------------------------------------------------------
Turned(sx, sy, quarter) ==
  CASE quarter = 0 -> <<sx, 0, 0, sy>> [] quarter = 1 -> <<0, -sx, sy, 0>>
    [] quarter = 2 -> <<-sx, 0, 0, -sy>> [] quarter = 3 -> <<0, sx, -sy, 0>>
AffineCases ==
  {LET stride == c[3]
       m == Turned(c[1], c[2], c[4])
       bytes == AsHalf(c[1]) \o AsHalf(c[2]) \o AsHalf(c[4] * 16384 + 5)
       out == [k \in 1 .. 3 * stride + 2 |-> IF (k - 1) % stride < 2 THEN AsHalf(m[((k - 1) \div stride) + 1])[((k - 1) % stride) + 1]
                                             ELSE Ground[Target + k - 1]]
   IN  Case(15, Over(Ground, Source, bytes), Regs(Source, Target, 1, stride), Target, out,
            0 :> Source + 8 @@ 1 :> Target + 4 * stride) : c \in {256, 100, -3} \X {256, -512} \X {2, 8} \X (0 .. 3)}

\* Two backgrounds, each with its own centre: the point <<ox, oy>> of the map is shown at <<cx, cy>>.
BgCases ==
  {LET m == Turned(c[1], c[2], c[4])
       cx == c[3]
       cy == 0 - 2 * c[3]
       given == AsWord(70000) \o AsWord(-300) \o AsHalf(cx) \o AsHalf(cy) \o AsHalf(c[1]) \o AsHalf(c[2])
                  \o AsHalf(c[4] * 16384 + 5) \o <<0, 0>>
       made == Joined([k \in 1 .. 4 |-> AsHalf(m[k])]) \o AsWord(70000 - (m[1] * cx + m[2] * cy))
                 \o AsWord(-300 - (m[3] * cx + m[4] * cy))
   IN  Case(14, Over(Ground, Source, given \o given), Regs(Source, Target, 2, 0), Target, made \o made,
            0 :> Source + 40 @@ 1 :> Target + 32 @@ 3 :> AsWord(m[1])) : c \in {256, -3} \X {256, -512} \X {0, 120, -7} \X (0 .. 3)}

\* Sources that begin or end in the BIOS, and data of no length.
RefusedCases ==
  {Case(n, Over(Ground, 252, Header(0, 9)), Regs(r, Target, 3, 0), Target, <<>>, Left(1, Target)) : n \in {11, 12}, r \in {8, 60, 252}}
    \cup {Case(n, Over(Over(Ground, 8, Header(0, 4)), 248, Header(0, 9)), Regs(r, Target, 0, 0), Target, <<>>, 0 :> r + 4) :
            n \in {17, 18, 20, 21, 22, 24}, r \in {8, 248}}

Word(v) == v % 2 ^ WORD_BITS
Sum(number, a, b) == [machine |-> [mem |-> <<>>, r |-> Regs(Word(a), Word(b), 0, 0)], call |-> [number |-> number, at |-> 0, wants |-> <<>>, left |-> <<>>]]
MathCases ==
  {Sum(n, a, b) : n \in {6, 7}, a, b \in {-128, -127, -100, -7, -2, -1, 0, 1, 2, 3, 10, 64, 126, 127}}
    \cup {Sum(8, a, 0) : a \in 0 .. 255} \cup {Sum(10, p[1], p[2]) : p \in Points}

Cases == MathCases \cup LzCases \cup RunCases \cup DiffCases \cup HuffCases \cup UnPackCases \cup CopyCases \cup FastCases
           \cup AffineCases \cup BgCases \cup RefusedCases

Init == /\ before = <<>>
        /\ \E c \in Cases : machine = c.machine /\ call = c.call
Next == Call
=============================================================================
