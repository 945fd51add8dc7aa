--------------------------- MODULE RewindHistoryProofs ---------------------------
(***************************************************************************)
(* Proofs about RewindHistory: its types, the bound on a restore and that  *)
(* it implements ExactHistory, for every value of the constants.           *)
(***************************************************************************)
EXTENDS RewindHistory, LeastNumber, SequenceTheorems, TLAPS

\* A function on 1..n is a sequence of length n.
LEMMA SeqOfFunction ==
  ASSUME NEW S, NEW n \in Nat, NEW f \in [1..n -> S]
  PROVE  f \in Seq(S) /\ Len(f) = n
BY IsASeq, LenProperties

-----------------------------------------------------------------------------
(* Decoding a chain *)

\* snap is a solution of the equation that defines Decoded.
IsDecoding(snap, ks) ==
  snap = [i \in 1..Len(ks) |->
            IF ks[i].full THEN ks[i].data ELSE SymDiff(snap[i - 1], ks[i].data)]

\* Keyframes in frame order, the first one full, that decode.
Chain(ks) ==
  /\ ks \in Seq(Keyframe)
  /\ ks # <<>> => ks[1].full
  /\ \A i, j \in 1..Len(ks) : i < j => ks[i].frame < ks[j].frame
  /\ IsDecoding(Decoded(ks), ks)

\* One solution of the equation is enough: Decoded is that solution.
LEMMA DecodedUnique ==
  ASSUME NEW ks \in Seq(Keyframe), ks # <<>> => ks[1].full,
         NEW snap, IsDecoding(snap, ks)
  PROVE  Decoded(ks) = snap /\ IsDecoding(Decoded(ks), ks)
<1>1. IsDecoding(Decoded(ks), ks)
  BY Zenon DEF IsDecoding, Decoded
<1> DEFINE Bad == {i \in 1..Len(ks) : Decoded(ks)[i] # snap[i]}
<1>2. Bad = {}
  <2>1. SUFFICES ASSUME Bad # {} PROVE FALSE
    OBVIOUS
  <2>2. Bad \in SUBSET Nat
    OBVIOUS
  <2>0. PICK m \in Bad : \A y \in Bad : m <= y
    <3> HIDE DEF Bad
    <3> QED BY <2>1, <2>2, LeastMember
  <2>3. ~ks[m].full
    BY <1>1, <2>0 DEF IsDecoding
  <2>4. m # 1
    BY <2>3
  <2>5. m - 1 \in 1..Len(ks) /\ m - 1 \notin Bad
    BY <2>0, <2>4
  <2>6. Decoded(ks)[m - 1] = snap[m - 1]
    BY <2>5
  <2> QED BY <1>1, <2>3, <2>6 DEF IsDecoding
<1>3. \A i \in 1..Len(ks) : Decoded(ks)[i] = snap[i]
  BY <1>2
<1>4. /\ Decoded(ks) = [i \in 1..Len(ks) |-> Decoded(ks)[i]]
      /\ snap = [i \in 1..Len(ks) |-> snap[i]]
  BY <1>1, Zenon DEF IsDecoding
<1>5. Decoded(ks) = snap
  BY <1>3, <1>4, Zenon
<1> QED
  BY <1>1, <1>5

\* What two snapshots differ in can be stored.
LEMMA DifferenceIsSnapshot ==
  ASSUME NEW base \in Snapshots, NEW snap \in Snapshots
  PROVE  SymDiff(base, snap) \in Snapshots
<1>1. IsFiniteSet(base \ snap) /\ IsFiniteSet(snap \ base)
  BY FS_Difference DEF Snapshots
<1>2. IsFiniteSet((base \ snap) \cup (snap \ base))
  BY <1>1, FS_Union
<1> QED
  BY <1>2 DEF SymDiff, Snapshots

\* A chain decodes to snapshots.
LEMMA DecodedType ==
  ASSUME NEW ks, Chain(ks)
  PROVE  Decoded(ks) \in [1..Len(ks) -> Snapshots]
<1> DEFINE Bad == {i \in 1..Len(ks) : Decoded(ks)[i] \notin Snapshots}
<1>0. ks \in Seq(Keyframe) /\ (ks # <<>> => ks[1].full) /\ IsDecoding(Decoded(ks), ks)
  BY DEF Chain
<1>1. Bad = {}
  <2>1. SUFFICES ASSUME Bad # {} PROVE FALSE
    OBVIOUS
  <2>2. Bad \in SUBSET Nat
    BY <1>0
  <2>0. PICK m \in Bad : \A y \in Bad : m <= y
    <3> HIDE DEF Bad
    <3> QED BY <2>1, <2>2, LeastMember
  <2>3. ks[m] \in Keyframe
    BY <1>0, ElementOfSeq
  <2>4. ~ks[m].full
    BY <1>0, <2>3 DEF IsDecoding, Keyframe
  <2>5. m - 1 \in 1..Len(ks) /\ m - 1 \notin Bad
    BY <1>0, <2>0, <2>4
  <2>6. Decoded(ks)[m - 1] \in Snapshots /\ ks[m].data \in Snapshots
    BY <2>3, <2>5 DEF Keyframe
  <2>7. SymDiff(Decoded(ks)[m - 1], ks[m].data) \in Snapshots
    BY <2>6, DifferenceIsSnapshot
  <2> QED BY <1>0, <2>0, <2>4, <2>7 DEF IsDecoding
<1> QED
  BY <1>0, <1>1 DEF IsDecoding

\* A sequence of keyframes that has a decoding is a chain.
LEMMA ChainIfDecoding ==
  ASSUME NEW ks \in Seq(Keyframe), ks # <<>> => ks[1].full,
         \A i, j \in 1..Len(ks) : i < j => ks[i].frame < ks[j].frame,
         NEW snap, IsDecoding(snap, ks)
  PROVE  Chain(ks) /\ Decoded(ks) = snap
BY DecodedUnique DEF Chain

\* Popping keyframes off the end leaves a chain that decodes as before.
LEMMA TruncatedChain ==
  ASSUME NEW ks, Chain(ks), NEW n \in 0..Len(ks)
  PROVE  LET t == SubSeq(ks, 1, n)
         IN  /\ Chain(t)
             /\ Len(t) = n
             /\ \A i \in 1..n : t[i] = ks[i] /\ Decoded(t)[i] = Decoded(ks)[i]
<1> DEFINE t == SubSeq(ks, 1, n)
           snap == [i \in 1..n |-> Decoded(ks)[i]]
<1>0. ks \in Seq(Keyframe) /\ (ks # <<>> => ks[1].full) /\ IsDecoding(Decoded(ks), ks)
  BY DEF Chain
<1>1. t \in Seq(Keyframe) /\ Len(t) = n /\ \A i \in 1..n : t[i] = ks[i]
  BY <1>0, SubSeqProperties
<1>2. t # <<>> => t[1].full
  BY <1>0, <1>1
<1>3. \A i, j \in 1..Len(t) : i < j => t[i].frame < t[j].frame
  BY <1>0, <1>1 DEF Chain
<1>4. IsDecoding(snap, t)
  <2>1. ASSUME NEW i \in 1..n
        PROVE  snap[i] = IF t[i].full THEN t[i].data ELSE SymDiff(snap[i - 1], t[i].data)
    <3>1. CASE ks[i].full
      BY <1>0, <1>1, <3>1 DEF IsDecoding
    <3>2. CASE ~ks[i].full
      <4>1. i # 1
        BY <1>0, <3>2
      <4>2. i - 1 \in 1..n
        BY <1>0, <4>1
      <4> QED BY <1>0, <1>1, <3>2, <4>2 DEF IsDecoding
    <3> QED BY <3>1, <3>2
  <2> QED BY <1>0, <1>1, <2>1 DEF IsDecoding
<1> HIDE DEF t
<1>5. Chain(t) /\ Decoded(t) = snap
  BY <1>1, <1>2, <1>3, <1>4, ChainIfDecoding
<1> QED
  BY <1>1, <1>5 DEF t

\* A later keyframe extends a chain; what was there decodes as before.
LEMMA AppendedChain ==
  ASSUME NEW ks, Chain(ks), NEW e \in Keyframe, ks = <<>> => e.full,
         \A i \in 1..Len(ks) : ks[i].frame < e.frame
  PROVE  LET a == Append(ks, e)
             n == Len(ks)
         IN  /\ Chain(a)
             /\ Len(a) = n + 1
             /\ a[n + 1] = e
             /\ \A i \in 1..n : a[i] = ks[i] /\ Decoded(a)[i] = Decoded(ks)[i]
             /\ Decoded(a)[n + 1] = IF e.full THEN e.data ELSE SymDiff(Decoded(ks)[n], e.data)
<1> DEFINE a == Append(ks, e)
           n == Len(ks)
           last == IF e.full THEN e.data ELSE SymDiff(Decoded(ks)[n], e.data)
           snap == [i \in 1..n + 1 |-> IF i = n + 1 THEN last ELSE Decoded(ks)[i]]
<1>0. ks \in Seq(Keyframe) /\ (ks # <<>> => ks[1].full) /\ IsDecoding(Decoded(ks), ks) /\ n \in Nat
  BY DEF Chain
<1>1. a \in Seq(Keyframe) /\ Len(a) = n + 1 /\ a[n + 1] = e /\ \A i \in 1..n : a[i] = ks[i]
  BY <1>0, AppendProperties
<1>2. a[1].full
  BY <1>0, <1>1, EmptySeq
<1>3. \A i, j \in 1..Len(a) : i < j => a[i].frame < a[j].frame
  BY <1>0, <1>1 DEF Chain
<1>4. IsDecoding(snap, a)
  <2>1. ASSUME NEW i \in 1..n + 1
        PROVE  snap[i] = IF a[i].full THEN a[i].data ELSE SymDiff(snap[i - 1], a[i].data)
    <3>1. CASE i = n + 1
      <4>1. ~e.full => n \in 1..n
        BY <1>0, EmptySeq
      <4> QED BY <1>0, <1>1, <3>1, <4>1
    <3>2. CASE i \in 1..n /\ ks[i].full
      BY <1>0, <1>1, <3>2 DEF IsDecoding
    <3>3. CASE i \in 1..n /\ ~ks[i].full
      <4>1. i - 1 \in 1..n
        BY <1>0, <3>3
      <4> QED BY <1>0, <1>1, <3>3, <4>1 DEF IsDecoding
    <3> QED BY <1>0, <3>1, <3>2, <3>3
  <2> QED BY <1>0, <1>1, <2>1 DEF IsDecoding
<1> HIDE DEF a
<1>5. Chain(a) /\ Decoded(a) = snap
  BY <1>1, <1>2, <1>3, <1>4, ChainIfDecoding
<1> QED
  BY <1>0, <1>1, <1>5 DEF a

\* Dropping the front at a cut point leaves a chain that decodes as before: the new
\* first keyframe is full, and every delta still follows the keyframe it was made on.
LEMMA CutChain ==
  ASSUME NEW ks, Chain(ks), NEW s \in 1..Len(ks)
  PROVE  LET c == CutBefore(ks, s)
         IN  /\ Chain(c)
             /\ Len(c) = Len(ks) - s + 1
             /\ c[1] = FullKeyframe(ks[s].frame, Decoded(ks)[s])
             /\ \A i \in 2..Len(c) : c[i] = ks[s + i - 1]
             /\ \A i \in 1..Len(c) : Decoded(c)[i] = Decoded(ks)[s + i - 1]
<1> DEFINE c == CutBefore(ks, s)
           n == Len(ks) - s + 1
           snap == [i \in 1..n |-> Decoded(ks)[s + i - 1]]
<1>0. ks \in Seq(Keyframe) /\ IsDecoding(Decoded(ks), ks) /\ n \in Nat /\ n >= 1
  BY DEF Chain
<1>a. Decoded(ks) \in [1..Len(ks) -> Snapshots]
  BY DecodedType
<1>b. ks[s] \in Keyframe /\ FullKeyframe(ks[s].frame, Decoded(ks)[s]) \in Keyframe
  BY <1>0, <1>a, ElementOfSeq, HistoryAssumption DEF FullKeyframe, Keyframe
<1>1. /\ c \in Seq(Keyframe) /\ Len(c) = n
      /\ c[1] = FullKeyframe(ks[s].frame, Decoded(ks)[s])
      /\ \A i \in 2..n : c[i] = ks[s + i - 1]
  <2>1. \A i \in 1..n : i # 1 => ks[s + i - 1] \in Keyframe
    BY <1>0, ElementOfSeq
  <2>2. c \in [1..n -> Keyframe]
    BY <1>0, <1>b, <2>1 DEF CutBefore
  <2>3. c \in Seq(Keyframe) /\ Len(c) = n
    BY <1>0, <2>2, SeqOfFunction
  <2> QED BY <1>0, <2>3 DEF CutBefore
<1>2. c[1].full /\ c[1].frame = ks[s].frame /\ c[1].data = Decoded(ks)[s]
  BY <1>1 DEF FullKeyframe
<1>3. \A i, j \in 1..Len(c) : i < j => c[i].frame < c[j].frame
  <2>1. \A i \in 1..n : c[i].frame = ks[s + i - 1].frame
    BY <1>0, <1>1, <1>2
  <2>2. ASSUME NEW i \in 1..n, NEW j \in 1..n, i < j
        PROVE  c[i].frame < c[j].frame
    <3>1. s + i - 1 \in 1..Len(ks) /\ s + j - 1 \in 1..Len(ks) /\ s + i - 1 < s + j - 1
      BY <1>0, <2>2
    <3>2. ks[s + i - 1].frame < ks[s + j - 1].frame
      BY <3>1 DEF Chain
    <3> QED BY <2>1, <3>2
  <2> QED BY <1>1, <2>2
<1>4. IsDecoding(snap, c)
  <2>1. ASSUME NEW i \in 1..n
        PROVE  snap[i] = IF c[i].full THEN c[i].data ELSE SymDiff(snap[i - 1], c[i].data)
    <3>1. CASE i = 1
      BY <1>0, <1>2, <3>1
    <3>2. CASE i # 1
      <4>1. i - 1 \in 1..n /\ s + i - 1 \in 1..Len(ks) /\ i \in 2..n /\ s + (i - 1) - 1 = (s + i - 1) - 1
        BY <1>0, <3>2
      <4> QED BY <1>0, <1>1, <4>1 DEF IsDecoding
    <3> QED BY <3>1, <3>2
  <2> QED BY <1>0, <1>1, <2>1 DEF IsDecoding
<1> HIDE DEF c
<1>5. Chain(c) /\ Decoded(c) = snap
  BY <1>1, <1>2, <1>3, <1>4, ChainIfDecoding
<1> QED
  BY <1>0, <1>1, <1>5 DEF c

-----------------------------------------------------------------------------
(* The invariant of a history object *)

Fields == {"keyframes", "bytes", "inputs", "inputBase", "sinceFull"}

\* Some full keyframe is at most d places before i.
FullWithin(ks, i, d) == \E j \in 1..i : ks[j].full /\ i - j <= d

\* sinceFull bounds the deltas that end the chain (a materialized keyframe leaves it
\* too high, never too low), and no keyframe is further than FullEvery from a full one.
Bounded(ks, sinceFull) ==
  /\ sinceFull \in 0..FullEvery
  /\ \A i \in 1..Len(ks) : FullWithin(ks, i, FullEvery)
  /\ ks # <<>> => FullWithin(ks, Len(ks), sinceFull)

Hist(h) ==
  /\ DOMAIN h = Fields
  /\ Chain(h.keyframes)
  /\ Bounded(h.keyframes, h.sinceFull)
  /\ h.inputs \in Seq(Masks)
  /\ h.inputBase \in Nat

\* Recording a frame's input changes what is read for that frame only.
LEMMA RecordInputCorrect ==
  ASSUME NEW h, Hist(h), NEW frame \in Nat, NEW mask \in Masks,
         h.inputs # <<>> => h.inputBase <= frame
  PROVE  LET r == RecordInput(h, frame, mask)
         IN  /\ Hist(r)
             /\ r.keyframes = h.keyframes
             /\ r.inputBase <= frame
             /\ InputAt(r, frame) = mask
             /\ \A g \in Nat : g # frame => InputAt(r, g) = InputAt(h, g)
<1> DEFINE r == RecordInput(h, frame, mask)
           base == IF h.inputs = <<>> THEN frame ELSE h.inputBase
           index == frame - base + 1
           n == Len(h.inputs)
           size == IF index > n THEN index ELSE n
           new == [i \in 1..size |-> IF i = index THEN mask ELSE IF i <= n THEN h.inputs[i] ELSE 0]
<1>1. n \in Nat /\ base \in Nat /\ base <= frame /\ index >= 1 /\ index \in Nat /\ size \in Nat
  BY LenProperties DEF Hist
<1>2. new \in Seq(Masks) /\ Len(new) = size
  <2>1. \A i \in 1..n : h.inputs[i] \in Masks
    BY ElementOfSeq DEF Hist
  <2>2. new \in [1..size -> Masks]
    BY <1>1, <2>1, HistoryAssumption
  <2> HIDE DEF new, size
  <2> QED BY <1>1, <2>2, SeqOfFunction
<1>3. r = [h EXCEPT !.inputBase = base, !.inputs = new]
  BY <1>1 DEF RecordInput
<1>4. /\ r.keyframes = h.keyframes /\ r.sinceFull = h.sinceFull
      /\ r.inputs = new /\ r.inputBase = base /\ DOMAIN r = Fields
  BY <1>3 DEF Hist, Fields
<1>5. Hist(r)
  BY <1>1, <1>2, <1>4 DEF Hist
<1>6. InputAt(r, frame) = mask
  BY <1>1, <1>2, <1>4 DEF InputAt
<1>7. ASSUME NEW g \in Nat, g # frame
      PROVE  InputAt(r, g) = InputAt(h, g)
  <2>1. CASE h.inputs = <<>>
    BY <1>1, <1>2, <1>4, <1>7, <2>1, EmptySeq DEF InputAt, Hist
  <2>2. CASE h.inputs # <<>>
    BY <1>1, <1>2, <1>4, <1>7, <2>2 DEF InputAt, Hist
  <2> QED BY <2>1, <2>2
<1> QED
  BY <1>1, <1>4, <1>5, <1>6, <1>7 DEF r

\* The frames of a chain are numbers.
LEMMA ChainType ==
  ASSUME NEW ks, Chain(ks)
  PROVE  /\ ks \in Seq(Keyframe) /\ Len(ks) \in Nat
         /\ \A i \in 1..Len(ks) : ks[i] \in Keyframe /\ ks[i].frame \in Nat
<1>1. ks \in Seq(Keyframe) /\ Len(ks) \in Nat
  BY LenProperties DEF Chain
<1>2. ASSUME NEW i \in 1..Len(ks)
      PROVE  ks[i] \in Keyframe
  BY <1>1, ElementOfSeq
<1> QED
  BY <1>1, <1>2 DEF Keyframe

\* Kept is the length of the prefix whose frames are at most `frame`.
LEMMA KeptCorrect ==
  ASSUME NEW ks, Chain(ks), NEW frame \in Int
  PROVE  /\ Kept(ks, frame) \in 0..Len(ks)
         /\ \A i \in 1..Len(ks) : i <= Kept(ks, frame) <=> ks[i].frame <= frame
<1> DEFINE S == {k \in 0..Len(ks) : \A i \in k + 1..Len(ks) : ks[i].frame > frame}
           k == Kept(ks, frame)
<1>0. /\ ks \in Seq(Keyframe) /\ Len(ks) \in Nat
      /\ \A i \in 1..Len(ks) : ks[i].frame \in Nat
  BY ChainType
<1>1. S \in SUBSET Nat /\ Len(ks) \in S
  BY <1>0
<1>2. k \in S /\ \A y \in S : k <= y
  <2> HIDE DEF S
  <2>1. Min(S) \in S /\ \A y \in S : Min(S) <= y
    BY <1>1, MinInNat
  <2> QED BY <2>1 DEF Kept, S
<1> HIDE DEF k
<1>3. ASSUME NEW i \in 1..Len(ks), i <= k
      PROVE  ks[i].frame <= frame
  <2>1. k \in 1..Len(ks) /\ k - 1 \in 0..Len(ks)
    BY <1>0, <1>2, <1>3
  <2>2. ks[k].frame <= frame
    <3>1. k - 1 \notin S
      <4> HIDE DEF S
      <4> QED BY <1>0, <1>2, <2>1
    <3>2. PICK m \in (k - 1) + 1..Len(ks) : ~(ks[m].frame > frame)
      BY <2>1, <3>1
    <3>3. m = k
      BY <1>0, <1>2, <2>1, <3>2
    <3> QED BY <1>0, <2>1, <3>2, <3>3
  <2>3. ks[i].frame <= ks[k].frame
    BY <1>0, <1>2, <1>3 DEF Chain
  <2> QED BY <1>0, <1>2, <1>3, <2>2, <2>3
<1>4. ASSUME NEW i \in 1..Len(ks), ~(i <= k)
      PROVE  ~(ks[i].frame <= frame)
  BY <1>0, <1>2, <1>4
<1> QED
  BY <1>2, <1>3, <1>4 DEF k

\* TrailingDeltas is how far the last full keyframe is from the end.
LEMMA TrailingDeltasCorrect ==
  ASSUME NEW ks, Chain(ks), \A i \in 1..Len(ks) : FullWithin(ks, i, FullEvery)
  PROVE  Bounded(ks, TrailingDeltas(ks))
<1> DEFINE S == {k \in 0..Len(ks) : k = Len(ks) \/ ks[Len(ks) - k].full}
           t == TrailingDeltas(ks)
<1>0. ks \in Seq(Keyframe) /\ Len(ks) \in Nat
  BY LenProperties DEF Chain
<1>1. S \in SUBSET Nat /\ Len(ks) \in S
  BY <1>0
<1>2. t \in S /\ \A y \in S : t <= y
  <2> HIDE DEF S
  <2>1. Min(S) \in S /\ \A y \in S : Min(S) <= y
    BY <1>1, MinInNat
  <2> QED BY <2>1 DEF TrailingDeltas, S
<1> HIDE DEF t
<1> SUFFICES Bounded(ks, t)
  BY DEF t
<1>3. CASE ks = <<>>
  <2>1. Len(ks) = 0
    BY <1>3, EmptySeq
  <2> QED BY <1>2, <1>3, <2>1, HistoryAssumption DEF Bounded
<1>4. CASE ks # <<>>
  <2>1. Len(ks) \in 1..Len(ks)
    BY <1>0, <1>4, EmptySeq
  <2>2. PICK j \in 1..Len(ks) : ks[j].full /\ Len(ks) - j <= FullEvery
    BY <2>1 DEF FullWithin
  <2>3. Len(ks) - j \in S
    BY <1>0, <2>2
  <2>4. t <= Len(ks) - j
    BY <1>2, <2>3
  <2>5. Len(ks) - t \in 1..Len(ks) /\ ks[Len(ks) - t].full
    BY <1>0, <1>2, <2>4
  <2>6. FullWithin(ks, Len(ks), t)
    BY <1>0, <1>2, <2>5 DEF FullWithin
  <2> QED BY <1>0, <1>2, <2>2, <2>4, <2>6, HistoryAssumption DEF Bounded
<1> QED
  BY <1>3, <1>4

\* The snapshots a history can restore, cut at either end.
UpTo(starts, frame) == {p \in starts : p[1] <= frame}
From(starts, frame) == {p \in starts : p[1] >= frame}

\* A rewind keeps every start and every input up to its frame, and nothing later.
LEMMA TruncateAfterCorrect ==
  ASSUME NEW h, Hist(h), NEW frame \in Int
  PROVE  LET t == TruncateAfter(h, frame)
         IN  /\ Hist(t)
             /\ Starts(t) = UpTo(Starts(h), frame)
             /\ \A i \in 1..Len(t.keyframes) : t.keyframes[i].frame <= frame
             /\ Len(t.keyframes) = Kept(h.keyframes, frame)
             /\ \A i \in 1..Len(t.keyframes) : t.keyframes[i] = h.keyframes[i]
             /\ t.inputs # <<>> => h.inputs # <<>> /\ t.inputBase <= frame
             /\ t.inputBase = h.inputBase
             /\ \A g \in Nat : g <= frame => InputAt(t, g) = InputAt(h, g)
<1> DEFINE t == TruncateAfter(h, frame)
           ks == h.keyframes
           n == Kept(ks, frame)
           tk == SubSeq(ks, 1, n)
           keep == frame + 1 - h.inputBase
           inputs == IF keep < Len(h.inputs) THEN SubSeq(h.inputs, 1, keep) ELSE h.inputs
<1>0. Chain(ks) /\ Len(ks) \in Nat /\ h.inputBase \in Nat /\ h.inputs \in Seq(Masks)
      /\ Len(h.inputs) \in Nat /\ keep \in Int
  BY ChainType, LenProperties DEF Hist
<1>1. /\ n \in 0..Len(ks)
      /\ \A i \in 1..Len(ks) : i <= n <=> ks[i].frame <= frame
  BY <1>0, KeptCorrect
<1>2. /\ Chain(tk) /\ Len(tk) = n
      /\ \A i \in 1..n : tk[i] = ks[i] /\ Decoded(tk)[i] = Decoded(ks)[i]
  BY <1>0, <1>1, TruncatedChain
<1>3. /\ t.keyframes = tk /\ t.inputs = inputs /\ t.inputBase = h.inputBase
      /\ t.sinceFull = TrailingDeltas(tk) /\ DOMAIN t = Fields
  BY DEF TruncateAfter, Hist, Fields
<1>4. inputs \in Seq(Masks) /\ Len(inputs) \in Nat /\ Len(inputs) <= Len(h.inputs)
      /\ \A i \in 1..Len(inputs) : inputs[i] = h.inputs[i]
  <2>1. CASE keep < Len(h.inputs) /\ keep >= 1
    BY <1>0, <2>1, SubSeqProperties
  <2>2. CASE keep < Len(h.inputs) /\ ~(keep >= 1)
    <3>1. SubSeq(h.inputs, 1, keep) = <<>>
      BY <1>0, <2>2, SubSeqEmpty
    <3> QED BY <1>0, <2>2, <3>1, EmptySeq
  <2>3. CASE ~(keep < Len(h.inputs))
    BY <1>0, <2>3
  <2> QED BY <2>1, <2>2, <2>3
<1>5. inputs # <<>> => h.inputs # <<>> /\ h.inputBase <= frame
  <2>1. ~(keep >= 1) /\ keep < Len(h.inputs) => inputs = <<>>
    BY <1>0, SubSeqEmpty
  <2>2. h.inputs # <<>> => Len(h.inputs) >= 1
    BY <1>0, EmptySeq
  <2>3. h.inputs = <<>> => inputs = <<>>
    BY <1>0, <1>4, EmptySeq
  <2> QED BY <1>0, <2>1, <2>2, <2>3
<1>6. \A i \in 1..n : FullWithin(tk, i, FullEvery)
  <2>1. ASSUME NEW i \in 1..n PROVE FullWithin(tk, i, FullEvery)
    <3>0. i \in 1..Len(ks)
      BY <1>0, <1>1
    <3>1. PICK j \in 1..i : ks[j].full /\ i - j <= FullEvery
      BY <3>0 DEF Hist, Bounded, FullWithin
    <3>2. j \in 1..n
      BY <1>0, <1>1
    <3> QED BY <1>2, <3>1, <3>2 DEF FullWithin
  <2> QED BY <2>1
<1>7. Hist(t)
  <2>1. Bounded(tk, TrailingDeltas(tk))
    BY <1>2, <1>6, TrailingDeltasCorrect
  <2> QED BY <1>0, <1>2, <1>3, <1>4, <2>1 DEF Hist
<1>8. Starts(t) = UpTo(Starts(h), frame)
  <2>1. Starts(t) = {<<tk[i].frame, Decoded(tk)[i]>> : i \in 1..n}
    BY <1>2, <1>3 DEF Starts
  <2>2. Starts(t) = {<<ks[i].frame, Decoded(ks)[i]>> : i \in 1..n}
    BY <1>2, <2>1
  <2>3. Starts(h) = {<<ks[i].frame, Decoded(ks)[i]>> : i \in 1..Len(ks)}
    BY DEF Starts
  <2>4. ASSUME NEW p \in Starts(t) PROVE p \in UpTo(Starts(h), frame)
    <3>1. PICK i \in 1..n : p = <<ks[i].frame, Decoded(ks)[i]>>
      BY <2>2
    <3> QED BY <1>0, <1>1, <2>3, <3>1 DEF UpTo
  <2>5. ASSUME NEW p \in UpTo(Starts(h), frame) PROVE p \in Starts(t)
    <3>1. PICK i \in 1..Len(ks) : p = <<ks[i].frame, Decoded(ks)[i]>>
      BY <2>3 DEF UpTo
    <3>2. i \in 1..n
      BY <1>0, <1>1, <3>1 DEF UpTo
    <3> QED BY <2>2, <3>1, <3>2
  <2> QED BY <2>4, <2>5
<1>9. ASSUME NEW g \in Nat, g <= frame
      PROVE  InputAt(t, g) = InputAt(h, g)
  <2>1. CASE keep < Len(h.inputs) /\ keep >= 1
    <3>1. Len(inputs) = keep
      BY <1>0, <2>1, SubSeqProperties
    <3> HIDE DEF inputs, t
    <3> QED BY <1>0, <1>3, <1>4, <1>9, <2>1, <3>1 DEF InputAt
  <2>2. CASE keep < Len(h.inputs) /\ ~(keep >= 1)
    BY <1>0, <1>3, <1>4, <1>9, <2>2 DEF InputAt
  <2>3. CASE ~(keep < Len(h.inputs))
    BY <1>3, <2>3 DEF InputAt
  <2> QED BY <2>1, <2>2, <2>3
<1>10. \A i \in 1..n : tk[i] = ks[i] /\ tk[i].frame <= frame
  BY <1>0, <1>1, <1>2
<1> HIDE DEF t, tk, n, inputs, keep
<1>11. /\ \A i \in 1..Len(t.keyframes) : t.keyframes[i].frame <= frame
       /\ \A i \in 1..Len(t.keyframes) : t.keyframes[i] = ks[i]
       /\ Len(t.keyframes) = n
  BY <1>2, <1>3, <1>10
<1>12. t.inputs # <<>> => h.inputs # <<>> /\ t.inputBase <= frame
  BY <1>3, <1>5
<1> QED
  BY <1>3, <1>7, <1>8, <1>9, <1>11, <1>12 DEF t, n

\* A delta keyframe is a keyframe, and decodes on its base to the snapshot it was made from.
LEMMA DeltaCorrect ==
  ASSUME NEW base \in Snapshots, NEW snap \in Snapshots, NEW frame \in Nat
  PROVE  /\ DeltaKeyframe(frame, SymDiff(base, snap)) \in Keyframe
         /\ FullKeyframe(frame, snap) \in Keyframe
         /\ SymDiff(base, SymDiff(base, snap)) = snap
<1>1. SymDiff(base, snap) \in Snapshots
  BY DifferenceIsSnapshot
<1>2. Cardinality(SymDiff(base, snap)) \in Nat
  BY <1>1, FS_CardinalityType DEF Snapshots
<1>3. DeltaKeyframe(frame, SymDiff(base, snap)) \in Keyframe
  BY <1>1, <1>2, HistoryAssumption DEF DeltaKeyframe, Keyframe
<1>4. FullKeyframe(frame, snap) \in Keyframe
  BY HistoryAssumption DEF FullKeyframe, Keyframe
<1>5. SymDiff(base, SymDiff(base, snap)) = snap
  BY DEF SymDiff, Snapshots
<1> QED
  BY <1>3, <1>4, <1>5

\* A keyframe later than the others adds its start; inputs are untouched.
LEMMA AppendKeyframeCorrect ==
  ASSUME NEW h, Hist(h), NEW frame \in Nat, NEW snap \in Snapshots,
         \A i \in 1..Len(h.keyframes) : h.keyframes[i].frame < frame
  PROVE  LET a == AppendKeyframe(h, frame, snap)
         IN  /\ Hist(a)
             /\ Starts(a) = Starts(h) \cup {<<frame, snap>>}
             /\ Len(a.keyframes) = Len(h.keyframes) + 1
             /\ a.keyframes[Len(a.keyframes)].frame = frame
             /\ a.inputs = h.inputs /\ a.inputBase = h.inputBase
<1> DEFINE a == AppendKeyframe(h, frame, snap)
           ks == h.keyframes
           n == Len(ks)
           full == ks = <<>> \/ h.sinceFull >= FullEvery
           delta == DeltaKeyframe(frame, SymDiff(Decoded(ks)[n], snap))
           e == IF full THEN FullKeyframe(frame, snap) ELSE delta
           ak == Append(ks, e)
           since == IF full THEN 0 ELSE h.sinceFull + 1
<1>0. Chain(ks) /\ n \in Nat /\ (ks # <<>> => n \in 1..n) /\ h.sinceFull \in 0..FullEvery
  BY ChainType, EmptySeq DEF Hist, Bounded
<1>1. /\ a.keyframes = ak /\ a.inputs = h.inputs /\ a.inputBase = h.inputBase
      /\ a.sinceFull = since /\ DOMAIN a = Fields
  BY DEF AppendKeyframe, Hist, Fields
<1>2. ~full => Decoded(ks)[n] \in Snapshots
  BY <1>0, DecodedType
<1>3. e \in Keyframe /\ e.frame = frame /\ e.full = full
      /\ (full => e.full /\ e.data = snap)
      /\ (~full => SymDiff(Decoded(ks)[n], e.data) = snap)
  <2>1. CASE full
    <3>1. FullKeyframe(frame, snap) \in Keyframe
      BY HistoryAssumption DEF FullKeyframe, Keyframe
    <3> QED BY <2>1, <3>1 DEF FullKeyframe
  <2>2. CASE ~full
    BY <1>2, <2>2, DeltaCorrect DEF DeltaKeyframe
  <2> QED BY <2>1, <2>2
<1> HIDE DEF e
<1>4. /\ Chain(ak) /\ Len(ak) = n + 1 /\ ak[n + 1] = e
      /\ \A i \in 1..n : ak[i] = ks[i] /\ Decoded(ak)[i] = Decoded(ks)[i]
      /\ Decoded(ak)[n + 1] = snap
  <2>1. /\ Chain(ak) /\ Len(ak) = n + 1 /\ ak[n + 1] = e
        /\ \A i \in 1..n : ak[i] = ks[i] /\ Decoded(ak)[i] = Decoded(ks)[i]
        /\ Decoded(ak)[n + 1] = IF e.full THEN e.data ELSE SymDiff(Decoded(ks)[n], e.data)
    BY <1>0, <1>3, AppendedChain
  <2> QED BY <1>3, <2>1
<1> HIDE DEF ak
<1>5. Bounded(ak, since)
  <2>1. FullWithin(ak, n + 1, since)
    <3>1. CASE full
      <4>0. since = 0 /\ n \in Nat
        BY <1>0, <3>1
      <4>a. e.full
        BY <1>3, <3>1, Zenon
      <4> HIDE DEF since, n, full
      <4>b. ak[n + 1].full
        BY <1>4, <4>a, Zenon
      <4>1. n + 1 \in 1..n + 1 /\ ak[n + 1].full /\ (n + 1) - (n + 1) <= since
        BY <4>0, <4>b
      <4> QED BY <4>1 DEF FullWithin
    <3>2. CASE ~full
      <4>1. PICK j \in 1..n : ks[j].full /\ n - j <= h.sinceFull
        BY <3>2 DEF Hist, Bounded, FullWithin
      <4>2. j \in 1..n + 1 /\ ak[j].full /\ n + 1 - j <= since
        BY <1>0, <1>4, <3>2, <4>1
      <4> QED BY <4>2 DEF FullWithin
    <3> QED BY <3>1, <3>2
  <2>2. since \in 0..FullEvery
    BY <1>0, HistoryAssumption
  <2>3. ASSUME NEW i \in 1..n + 1 PROVE FullWithin(ak, i, FullEvery)
    <3>1. CASE i = n + 1
      BY <1>0, <2>1, <2>2, <3>1, HistoryAssumption DEF FullWithin
    <3>2. CASE i \in 1..n
      <4>1. PICK j \in 1..i : ks[j].full /\ i - j <= FullEvery
        BY <3>2 DEF Hist, Bounded, FullWithin
      <4> QED BY <1>0, <1>4, <3>2, <4>1 DEF FullWithin
    <3> QED BY <1>0, <3>1, <3>2
  <2> QED BY <1>4, <2>1, <2>2, <2>3 DEF Bounded
<1>6. Hist(a)
  BY <1>1, <1>4, <1>5 DEF Hist
<1>7. Starts(a) = Starts(h) \cup {<<frame, snap>>}
  <2>1. Starts(a) = {<<ak[i].frame, Decoded(ak)[i]>> : i \in 1..n + 1}
    BY <1>1, <1>4 DEF Starts
  <2>2. Starts(h) = {<<ks[i].frame, Decoded(ks)[i]>> : i \in 1..n}
    BY DEF Starts
  <2>3. <<ak[n + 1].frame, Decoded(ak)[n + 1]>> = <<frame, snap>>
    BY <1>3, <1>4
  <2>4. ASSUME NEW p \in Starts(a) PROVE p \in Starts(h) \cup {<<frame, snap>>}
    <3>1. PICK i \in 1..n + 1 : p = <<ak[i].frame, Decoded(ak)[i]>>
      BY <2>1
    <3>2. i = n + 1 \/ i \in 1..n
      BY <1>0
    <3> QED BY <1>4, <2>2, <2>3, <3>1, <3>2
  <2>5. ASSUME NEW p \in Starts(h) \cup {<<frame, snap>>} PROVE p \in Starts(a)
    <3>1. CASE p = <<frame, snap>>
      BY <1>0, <2>1, <2>3, <3>1
    <3>2. CASE p \in Starts(h)
      <4>1. PICK i \in 1..n : p = <<ks[i].frame, Decoded(ks)[i]>>
        BY <2>2, <3>2
      <4>2. i \in 1..n + 1
        BY <1>0
      <4> QED BY <1>4, <2>1, <4>1, <4>2
    <3> QED BY <3>1, <3>2
  <2> QED BY <2>4, <2>5
<1>8. Len(a.keyframes) = n + 1 /\ a.keyframes[n + 1].frame = frame
  BY <1>1, <1>3, <1>4
<1> QED
  BY <1>1, <1>6, <1>7, <1>8 DEF a

\* The budget cuts before some keyframe of the chain.
LEMMA CutInRange ==
  ASSUME NEW h, Chain(h.keyframes), h.keyframes # <<>>
  PROVE  Cut(h) \in 1..Len(h.keyframes)
<1> DEFINE ks == h.keyframes
           S == {s \in CutPoints(ks) : s = Len(ks) \/ BytesAfterCut(h, s) <= MaxBytes}
<1>1. Len(ks) \in Nat /\ Len(ks) \in 1..Len(ks)
  BY ChainType, EmptySeq
<1>2. CutPoints(ks) \subseteq 1..Len(ks)
  BY DEF CutPoints
<1>3. Len(ks) \in CutPoints(ks)
  BY <1>1 DEF CutPoints
<1>4. S \in SUBSET Nat /\ Len(ks) \in S
  BY <1>1, <1>2, <1>3
<1>5. Min(S) \in S
  <2> HIDE DEF S
  <2> QED BY <1>4, MinInNat
<1> QED
  BY <1>2, <1>5 DEF Cut

\* A keyframe that has to be decoded through a cut is no further from a full one.
LEMMA CutBounded ==
  ASSUME NEW ks, Chain(ks), NEW s \in 1..Len(ks), NEW i \in 1..Len(ks) - s + 1, NEW d \in Nat,
         FullWithin(ks, s + i - 1, d)
  PROVE  FullWithin(CutBefore(ks, s), i, d)
<1> DEFINE c == CutBefore(ks, s)
<1>0. Len(ks) \in Nat
  BY ChainType
<1>a. /\ Len(c) = Len(ks) - s + 1
      /\ c[1] = FullKeyframe(ks[s].frame, Decoded(ks)[s])
      /\ \A k \in 2..Len(c) : c[k] = ks[s + k - 1]
  BY CutChain
<1> HIDE DEF c
<1>1. /\ Len(c) = Len(ks) - s + 1
      /\ c[1].full
      /\ \A k \in 2..Len(c) : c[k] = ks[s + k - 1]
  BY <1>a DEF FullKeyframe
<1>2. PICK j \in 1..s + i - 1 : ks[j].full /\ (s + i - 1) - j <= d
  BY DEF FullWithin
<1>3. CASE j <= s
  <2>1. 1 \in 1..i /\ i - 1 <= d
    BY <1>0, <1>2, <1>3
  <2> QED BY <1>1, <2>1 DEF FullWithin, c
<1>4. CASE j > s
  <2>1. /\ j - s + 1 \in 1..i /\ j - s + 1 \in 2..Len(c)
        /\ s + (j - s + 1) - 1 = j /\ i - (j - s + 1) <= d
    BY <1>0, <1>1, <1>2, <1>4
  <2>2. c[j - s + 1].full
    BY <1>1, <1>2, <2>1
  <2> QED BY <2>1, <2>2 DEF FullWithin, c
<1> QED
  BY <1>0, <1>2, <1>3, <1>4

\* The budget forgets a prefix of the starts, and the inputs before the first start left.
LEMMA EnforceBudgetCorrect ==
  ASSUME NEW h, Hist(h), h.keyframes # <<>>
  PROVE  LET b == EnforceBudget(h)
             floor == EarliestFrame(b)
         IN  /\ Hist(b)
             /\ b.keyframes # <<>>
             /\ floor \in {p[1] : p \in Starts(h)}
             /\ Starts(b) = From(Starts(h), floor)
             /\ b.keyframes[Len(b.keyframes)].frame = h.keyframes[Len(h.keyframes)].frame
             /\ \A g \in Nat : g >= floor => InputAt(b, g) = InputAt(h, g)
             /\ b.inputs # <<>> =>
                  h.inputs # <<>> /\ (b.inputBase = h.inputBase \/ b.inputBase = floor)
<1> DEFINE ks == h.keyframes
           n == Len(ks)
           s == Cut(h)
           b == EnforceBudget(h)
           ck == CutBefore(ks, s)
           base == ks[s].frame
           cut == base - h.inputBase
           inputs == IF cut > 0 THEN SubSeq(h.inputs, cut + 1, Len(h.inputs)) ELSE h.inputs
           inputBase == IF cut > 0 THEN base ELSE h.inputBase
<1>0. /\ Chain(ks) /\ n \in Nat /\ n \in 1..n /\ s \in 1..n
      /\ \A i \in 1..n : ks[i].frame \in Nat
      /\ h.inputs \in Seq(Masks) /\ h.inputBase \in Nat /\ Len(h.inputs) \in Nat
  BY ChainType, CutInRange, EmptySeq, LenProperties DEF Hist
<1>a. /\ n = Len(ks) /\ s = Cut(h)
      /\ \A i, j \in 1..n : i < j => ks[i].frame < ks[j].frame
  BY <1>0 DEF Chain
<1> HIDE DEF n, s
<1>1. Starts(h) = {<<ks[i].frame, Decoded(ks)[i]>> : i \in 1..n}
  BY <1>a DEF Starts
<1>2. base \in {p[1] : p \in Starts(h)} /\ base \in Nat /\ cut \in Int
  <2>1. <<ks[s].frame, Decoded(ks)[s]>> \in Starts(h)
    BY <1>0, <1>1
  <2> QED BY <1>0, <2>1
<1>3. CASE s = 1
  <2>1. b = h
    BY <1>a, <1>3 DEF EnforceBudget
  <2>2. EarliestFrame(b) = base
    BY <1>3, <2>1 DEF EarliestFrame
  <2>3. Starts(h) = From(Starts(h), base)
    <3>1. ASSUME NEW i \in 1..n PROVE ks[i].frame >= base
      <4>1. i = 1 \/ 1 < i
        BY <1>0
      <4>2. 1 < i => ks[1].frame < ks[i].frame
        BY <1>0, <1>a
      <4> QED BY <1>0, <1>3, <4>1, <4>2
    <3> QED BY <1>1, <3>1 DEF From
  <2> QED BY <1>2, <1>a, <2>1, <2>2, <2>3
<1>4. CASE s # 1
  <2>1. /\ b.keyframes = ck /\ b.inputs = inputs /\ b.inputBase = inputBase
        /\ b.sinceFull = h.sinceFull /\ DOMAIN b = Fields
    BY <1>a, <1>4 DEF EnforceBudget, Hist, Fields
  <2>2. /\ Chain(ck) /\ Len(ck) = n - s + 1
        /\ ck[1] = FullKeyframe(base, Decoded(ks)[s])
        /\ \A i \in 2..Len(ck) : ck[i] = ks[s + i - 1]
        /\ \A i \in 1..Len(ck) : Decoded(ck)[i] = Decoded(ks)[s + i - 1]
    <3>1. s \in 1..Len(ks)
      BY <1>0, <1>a
    <3>2. /\ Chain(ck) /\ Len(ck) = Len(ks) - s + 1
          /\ ck[1] = FullKeyframe(ks[s].frame, Decoded(ks)[s])
          /\ \A i \in 2..Len(ck) : ck[i] = ks[s + i - 1]
          /\ \A i \in 1..Len(ck) : Decoded(ck)[i] = Decoded(ks)[s + i - 1]
      BY <1>0, <3>1, CutChain
    <3> QED BY <1>a, <3>2
  <2>3. \A i \in 1..Len(ck) : ck[i].frame = ks[s + i - 1].frame
    <3>1. ck[1].frame = base
      BY <2>2 DEF FullKeyframe
    <3>2. ASSUME NEW i \in 1..Len(ck) PROVE ck[i].frame = ks[s + i - 1].frame
      <4>1. CASE i = 1
        BY <1>0, <3>1, <4>1
      <4>2. CASE i # 1
        <5>1. i \in 2..Len(ck)
          BY <1>0, <2>2, <4>2
        <5> QED BY <2>2, <5>1
      <4> QED BY <4>1, <4>2
    <3> QED BY <3>2
  <2> HIDE DEF ck
  <2>4. EarliestFrame(b) = base
    BY <1>0, <2>1, <2>2, <2>3 DEF EarliestFrame
  <2>5. /\ inputs \in Seq(Masks) /\ Len(inputs) \in Nat
        /\ inputs # <<>> => h.inputs # <<>>
        /\ cut > 0 => \A k \in Nat \ {0} :
             /\ k \in 1..Len(inputs) <=> cut + k \in 1..Len(h.inputs)
             /\ k \in 1..Len(inputs) => inputs[k] = h.inputs[cut + k]
    <3>1. CASE ~(cut > 0)
      BY <1>0, <3>1
    <3>2. CASE cut > 0 /\ cut < Len(h.inputs)
      <4>1. /\ inputs \in Seq(Masks) /\ Len(inputs) = Len(h.inputs) - cut
            /\ \A k \in 1..Len(inputs) : inputs[k] = h.inputs[cut + k]
        <5>1. cut + 1 \in 1..Len(h.inputs) + 1 /\ Len(h.inputs) \in cut + 1 - 1..Len(h.inputs)
          BY <1>0, <1>2, <3>2
        <5>2. inputs = SubSeq(h.inputs, cut + 1, Len(h.inputs))
          BY <3>2
        <5> HIDE DEF inputs, cut
        <5>3. /\ inputs \in Seq(Masks) /\ Len(inputs) = Len(h.inputs) - (cut + 1) + 1
              /\ \A k \in 1..Len(h.inputs) - (cut + 1) + 1 : inputs[k] = h.inputs[cut + 1 + k - 1]
          BY <1>0, <1>2, <5>1, <5>2, SubSeqProperties
        <5> QED BY <1>0, <1>2, <5>3
      <4>2. h.inputs # <<>>
        BY <1>0, <3>2, EmptySeq
      <4> HIDE DEF inputs, cut
      <4> QED BY <1>0, <1>2, <3>2, <4>1, <4>2
    <3>3. CASE cut > 0 /\ ~(cut < Len(h.inputs))
      <4>1. inputs = <<>>
        BY <1>0, <1>2, <3>3, SubSeqEmpty
      <4>2. Len(inputs) = 0 /\ inputs \in Seq(Masks)
        BY <4>1, EmptySeq
      <4> HIDE DEF inputs, cut
      <4> QED BY <1>0, <1>2, <3>3, <4>1, <4>2
    <3> QED BY <3>1, <3>2, <3>3
  <2> HIDE DEF inputs
  <2>6. Bounded(ck, h.sinceFull)
    <3>0. h.sinceFull \in Nat /\ h.sinceFull \in 0..FullEvery /\ FullEvery \in Nat
      BY HistoryAssumption DEF Hist, Bounded
    <3>1. ASSUME NEW i \in 1..Len(ck) PROVE FullWithin(ck, i, FullEvery)
      <4>1. s + i - 1 \in 1..n /\ i \in 1..n - s + 1
        BY <1>0, <2>2
      <4>2. FullWithin(ks, s + i - 1, FullEvery)
        BY <1>a, <4>1 DEF Hist, Bounded
      <4> QED BY <1>0, <1>a, <3>0, <4>1, <4>2, CutBounded DEF ck
    <3>2. FullWithin(ck, Len(ck), h.sinceFull)
      <4>1. s + Len(ck) - 1 = n /\ Len(ck) \in 1..n - s + 1
        BY <1>0, <2>2
      <4>2. FullWithin(ks, s + Len(ck) - 1, h.sinceFull)
        BY <1>a, <4>1 DEF Hist, Bounded
      <4> QED BY <1>0, <1>a, <3>0, <4>1, <4>2, CutBounded DEF ck
    <3> QED BY <3>0, <3>1, <3>2 DEF Bounded
  <2>7. Hist(b)
    BY <1>0, <1>2, <2>1, <2>2, <2>5, <2>6 DEF Hist
  <2>8. Starts(b) = From(Starts(h), base)
    <3>1. Starts(b) = {<<ck[i].frame, Decoded(ck)[i]>> : i \in 1..Len(ck)}
      BY <2>1 DEF Starts
    <3>2. ASSUME NEW p \in Starts(b) PROVE p \in From(Starts(h), base)
      <4>1. PICK i \in 1..Len(ck) : p = <<ck[i].frame, Decoded(ck)[i]>>
        BY <3>1
      <4>2. s + i - 1 \in 1..n /\ (s + i - 1 = s \/ s < s + i - 1)
        BY <1>0, <2>2
      <4>3. p = <<ks[s + i - 1].frame, Decoded(ks)[s + i - 1]>>
        BY <2>2, <2>3, <4>1
      <4>4. ks[s + i - 1].frame >= base
        BY <1>0, <1>a, <4>2
      <4> QED BY <1>1, <4>2, <4>3, <4>4 DEF From
    <3>3. ASSUME NEW p \in From(Starts(h), base) PROVE p \in Starts(b)
      <4>1. PICK i \in 1..n : p = <<ks[i].frame, Decoded(ks)[i]>>
        BY <1>1 DEF From
      <4>2. i >= s
        <5>1. ks[i].frame >= base
          BY <4>1 DEF From
        <5>2. i < s => ks[i].frame < base
          BY <1>0, <1>a
        <5> QED BY <1>0, <1>2, <5>1, <5>2
      <4>3. i - s + 1 \in 1..Len(ck) /\ s + (i - s + 1) - 1 = i
        BY <1>0, <2>2, <4>2
      <4>4. p = <<ck[i - s + 1].frame, Decoded(ck)[i - s + 1]>>
        BY <2>2, <2>3, <4>1, <4>3
      <4> QED BY <3>1, <4>3, <4>4
    <3> QED BY <3>2, <3>3
  <2>9. ck # <<>> /\ ck[Len(ck)].frame = ks[n].frame
    <3>1. Len(ck) \in 1..Len(ck) /\ s + Len(ck) - 1 = n
      BY <1>0, <2>2
    <3> QED BY <2>3, <3>1, EmptySeq
  <2>10. ASSUME NEW g \in Nat, g >= base PROVE InputAt(b, g) = InputAt(h, g)
    <3>1. CASE ~(cut > 0)
      <4>1. b.inputs = h.inputs /\ b.inputBase = h.inputBase
        BY <2>1, <3>1 DEF inputs
      <4> QED BY <4>1 DEF InputAt
    <3>2. CASE cut > 0
      <4>0. b.inputs = inputs /\ b.inputBase = base
        <5> HIDE DEF b
        <5> QED BY <2>1, <3>2
      <4>1. /\ b.inputs = inputs /\ b.inputBase = base
            /\ g - base + 1 \in Nat \ {0} /\ cut + (g - base + 1) = g - h.inputBase + 1
        <5>1. cut = base - h.inputBase
          OBVIOUS
        <5> HIDE DEF cut, base, b
        <5> QED BY <1>0, <1>2, <2>10, <4>0, <5>1
      <4> HIDE DEF cut, base
      <4>2. g - base + 1 \in 1..Len(inputs) <=> g - h.inputBase + 1 \in 1..Len(h.inputs)
        BY <2>5, <3>2, <4>1
      <4>3. g - base + 1 \in 1..Len(inputs) => inputs[g - base + 1] = h.inputs[g - h.inputBase + 1]
        BY <2>5, <3>2, <4>1
      <4> QED BY <4>1, <4>2, <4>3 DEF InputAt
    <3> QED BY <3>1, <3>2
  <2>11. b.inputs # <<>> => h.inputs # <<>> /\ (b.inputBase = h.inputBase \/ b.inputBase = base)
    BY <2>1, <2>5
  <2> HIDE DEF b
  <2>12. b.keyframes # <<>> /\ b.keyframes[Len(b.keyframes)].frame = ks[n].frame
    BY <2>1, <2>9
  <2> HIDE DEF base
  <2> QED BY <1>2, <1>a, <2>4, <2>7, <2>8, <2>10, <2>11, <2>12 DEF b
<1> QED
  BY <1>3, <1>4

\* A cleared history is one that holds nothing.
LEMMA EmptyCorrect == Hist(Empty) /\ Starts(Empty) = {}
<1>1. /\ Empty.keyframes = <<>> /\ Empty.inputs = <<>> /\ Empty.inputBase = 0
      /\ Empty.sinceFull = 0 /\ DOMAIN Empty = Fields
  BY DEF Empty, Fields
<1>2. <<>> \in Seq(Keyframe) /\ <<>> \in Seq(Masks) /\ Len(<<>>) = 0
  BY EmptySeq
<1> DEFINE snap == [i \in 1..0 |-> 0]
<1>3. IsDecoding(snap, <<>>)
  BY <1>2 DEF IsDecoding
<1> HIDE DEF snap
<1>4. Chain(<<>>)
  <2>1. \A i, j \in 1..Len(<<>>) : i < j => <<>>[i].frame < <<>>[j].frame
    BY <1>2
  <2> QED BY <1>2, <1>3, <2>1, ChainIfDecoding
<1>5. Bounded(<<>>, 0)
  BY <1>2, HistoryAssumption DEF Bounded
<1> QED
  BY <1>1, <1>2, <1>4, <1>5 DEF Hist, Starts

\* What can be restored once a keyframe is stored for `frame`, the budget aside.
Stored(starts, frame, snap) == {p \in starts : p[1] < frame} \cup {<<frame, snap>>}

\* Each start is that of a keyframe.
LEMMA StartsAreFrames ==
  ASSUME NEW h, Hist(h), NEW p \in Starts(h)
  PROVE  /\ p[1] \in Nat
         /\ \E i \in 1..Len(h.keyframes) : p[1] = h.keyframes[i].frame
BY ChainType DEF Hist, Starts

\* A push replaces what is at or after its frame; the budget may forget a prefix.
LEMMA PushCorrect ==
  ASSUME NEW h, Hist(h), NEW frame \in Nat, NEW snap \in Snapshots,
         h.inputs # <<>> => h.inputBase <= frame
  PROVE  LET p == Push(h, frame, snap)
             floor == EarliestFrame(p)
             stored == Stored(Starts(h), frame, snap)
         IN  /\ Hist(p)
             /\ p.keyframes # <<>>
             /\ p.keyframes[Len(p.keyframes)].frame = frame
             /\ floor \in {q[1] : q \in stored}
             /\ Starts(p) = From(stored, floor)
             /\ \A g \in Nat : g >= floor /\ g < frame => InputAt(p, g) = InputAt(h, g)
             /\ p.inputs # <<>> => p.inputBase <= frame
<1> DEFINE ks == h.keyframes
           late == ks # <<>> /\ ks[Len(ks)].frame >= frame
           t == IF late THEN TruncateAfter(h, frame - 1) ELSE h
           a == AppendKeyframe(t, frame, snap)
           p == Push(h, frame, snap)
           floor == EarliestFrame(p)
           stored == Stored(Starts(h), frame, snap)
<1>0. /\ Chain(ks) /\ Len(ks) \in Nat
      /\ \A i \in 1..Len(ks) : ks[i].frame \in Nat
  BY ChainType DEF Hist
<1>1. /\ Hist(t)
      /\ Starts(t) = {q \in Starts(h) : q[1] < frame}
      /\ \A i \in 1..Len(t.keyframes) : t.keyframes[i].frame < frame
      /\ t.inputs # <<>> => t.inputBase <= frame
      /\ \A g \in Nat : g < frame => InputAt(t, g) = InputAt(h, g)
  <2>1. CASE late
    <3>1. /\ Hist(t)
          /\ Starts(t) = UpTo(Starts(h), frame - 1)
          /\ \A i \in 1..Len(t.keyframes) : t.keyframes[i].frame <= frame - 1
          /\ t.inputs # <<>> => h.inputs # <<>> /\ t.inputBase <= frame - 1
          /\ t.inputBase = h.inputBase
          /\ \A g \in Nat : g <= frame - 1 => InputAt(t, g) = InputAt(h, g)
      <4>1. t = TruncateAfter(h, frame - 1)
        BY <2>1
      <4> HIDE DEF t
      <4> QED BY <4>1, TruncateAfterCorrect
    <3> HIDE DEF t
    <3>2. UpTo(Starts(h), frame - 1) = {q \in Starts(h) : q[1] < frame}
      BY StartsAreFrames DEF UpTo
    <3>3. \A i \in 1..Len(t.keyframes) : t.keyframes[i].frame < frame
      <4>1. \A i \in 1..Len(t.keyframes) : t.keyframes[i].frame \in Nat
        BY <3>1, ChainType DEF Hist
      <4> QED BY <3>1, <4>1
    <3> QED BY <3>1, <3>2, <3>3
  <2>2. CASE ~late
    <3>1. t = h
      BY <2>2
    <3>2. \A i \in 1..Len(ks) : ks[i].frame < frame
      <4>1. ASSUME NEW i \in 1..Len(ks) PROVE ks[i].frame < frame
        <5>1. Len(ks) \in 1..Len(ks) /\ ks # <<>>
          BY <1>0, EmptySeq
        <5>2. ks[Len(ks)].frame < frame
          BY <1>0, <2>2, <5>1
        <5>3. i < Len(ks) => ks[i].frame < ks[Len(ks)].frame
          BY <5>1 DEF Chain, Hist
        <5> QED BY <1>0, <5>1, <5>2, <5>3
      <4> QED BY <4>1
    <3>3. Starts(h) = {q \in Starts(h) : q[1] < frame}
      BY <3>2, StartsAreFrames
    <3> HIDE DEF t
    <3> QED BY <3>1, <3>2, <3>3
  <2> QED BY <2>1, <2>2
<1>2. p = EnforceBudget(a)
  BY DEF Push
<1> HIDE DEF t
<1>3. /\ Hist(a)
      /\ Starts(a) = stored
      /\ a.keyframes # <<>>
      /\ a.keyframes[Len(a.keyframes)].frame = frame
      /\ a.inputs = t.inputs /\ a.inputBase = t.inputBase
  <2>1. /\ Hist(a)
        /\ Starts(a) = Starts(t) \cup {<<frame, snap>>}
        /\ Len(a.keyframes) = Len(t.keyframes) + 1
        /\ a.keyframes[Len(a.keyframes)].frame = frame
        /\ a.inputs = t.inputs /\ a.inputBase = t.inputBase
    BY <1>1, AppendKeyframeCorrect
  <2>2. Len(t.keyframes) \in Nat
    BY <1>1, ChainType DEF Hist
  <2>3. a.keyframes # <<>>
    <3> HIDE DEF a
    <3> QED BY <2>1, <2>2, EmptySeq
  <2> HIDE DEF a
  <2> QED BY <1>1, <2>1, <2>3 DEF Stored
<1> HIDE DEF a, p
<1>4. /\ Hist(p)
      /\ p.keyframes # <<>>
      /\ floor \in {q[1] : q \in Starts(a)}
      /\ Starts(p) = From(Starts(a), floor)
      /\ p.keyframes[Len(p.keyframes)].frame = a.keyframes[Len(a.keyframes)].frame
      /\ \A g \in Nat : g >= floor => InputAt(p, g) = InputAt(a, g)
      /\ p.inputs # <<>> => a.inputs # <<>> /\ (p.inputBase = a.inputBase \/ p.inputBase = floor)
  BY <1>2, <1>3, EnforceBudgetCorrect
<1>5. floor <= frame
  <2>1. PICK q \in Starts(a) : floor = q[1]
    BY <1>4
  <2>2. q[1] \in Nat
    BY <1>3, <2>1, StartsAreFrames
  <2> HIDE DEF floor
  <2> QED BY <1>3, <2>1, <2>2 DEF Stored
<1> HIDE DEF floor, stored
<1>6. \A g \in Nat : g >= floor /\ g < frame => InputAt(p, g) = InputAt(h, g)
  <2>1. \A g \in Nat : InputAt(a, g) = InputAt(t, g)
    BY <1>3 DEF InputAt
  <2> QED BY <1>1, <1>4, <2>1
<1>7. p.inputs # <<>> => p.inputBase <= frame
  BY <1>1, <1>3, <1>4, <1>5
<1> QED
  BY <1>3, <1>4, <1>6, <1>7 DEF p, floor, stored

-----------------------------------------------------------------------------
(* The specification *)

\* Nothing in the history is later than the frame the machine is on.
Inv ==
  /\ Hist(history)
  /\ history.keyframes # <<>>
  /\ now \in Nat
  /\ \A i \in 1..Len(history.keyframes) : history.keyframes[i].frame <= now
  /\ history.inputs # <<>> => history.inputBase <= now

\* A history is never later than a keyframe just pushed.
LEMMA PushedIsLast ==
  ASSUME NEW h, Hist(h), h.keyframes # <<>>
  PROVE  \A i \in 1..Len(h.keyframes) : h.keyframes[i].frame <= h.keyframes[Len(h.keyframes)].frame
<1>1. ASSUME NEW i \in 1..Len(h.keyframes)
      PROVE  h.keyframes[i].frame <= h.keyframes[Len(h.keyframes)].frame
  <2>1. Len(h.keyframes) \in 1..Len(h.keyframes) /\ h.keyframes[i].frame \in Nat
    BY ChainType DEF Hist
  <2>2. i < Len(h.keyframes) => h.keyframes[i].frame < h.keyframes[Len(h.keyframes)].frame
    BY <2>1 DEF Hist, Chain
  <2>3. i = Len(h.keyframes) \/ i < Len(h.keyframes)
    BY <2>1
  <2>4. h.keyframes[Len(h.keyframes)].frame \in Nat
    BY <2>1, ChainType DEF Hist
  <2> QED BY <2>1, <2>2, <2>3, <2>4
<1> QED
  BY <1>1

\* A rewind to a frame the history reaches leaves it a keyframe, and its earliest frame.
LEMMA TruncatedReaches ==
  ASSUME NEW h, Hist(h), h.keyframes # <<>>, NEW f \in Nat, EarliestFrame(h) <= f
  PROVE  LET t == TruncateAfter(h, f)
         IN  t.keyframes # <<>> /\ EarliestFrame(t) = EarliestFrame(h)
<1> DEFINE t == TruncateAfter(h, f)
           ks == h.keyframes
<1>1. Chain(ks) /\ Len(ks) \in Nat /\ 1 \in 1..Len(ks) /\ ks[1].frame <= f
  BY ChainType, EmptySeq DEF Hist, EarliestFrame
<1>2. 1 <= Kept(ks, f) /\ Kept(ks, f) \in 0..Len(ks)
  BY <1>1, KeptCorrect
<1>3. /\ Hist(t) /\ Len(t.keyframes) = Kept(ks, f)
      /\ \A i \in 1..Len(t.keyframes) : t.keyframes[i] = ks[i]
  BY TruncateAfterCorrect
<1> HIDE DEF t
<1>4. t.keyframes # <<>>
  BY <1>2, <1>3, EmptySeq
<1>5. t.keyframes[1] = ks[1]
  BY <1>2, <1>3
<1> QED
  BY <1>4, <1>5 DEF EarliestFrame, t

\* The earliest frame is one of the starts, and no start is before it.
LEMMA EarliestIsFirst ==
  ASSUME NEW h, Hist(h), h.keyframes # <<>>
  PROVE  /\ EarliestFrame(h) \in Nat
         /\ EarliestFrame(h) \in {p[1] : p \in Starts(h)}
         /\ Starts(h) = From(Starts(h), EarliestFrame(h))
<1> DEFINE ks == h.keyframes
<1>1. /\ Chain(ks) /\ Len(ks) \in Nat /\ 1 \in 1..Len(ks)
      /\ \A i \in 1..Len(ks) : ks[i].frame \in Nat
  BY ChainType, EmptySeq DEF Hist
<1>2. \A i \in 1..Len(ks) : ks[i].frame >= ks[1].frame
  <2>1. ASSUME NEW i \in 1..Len(ks) PROVE ks[i].frame >= ks[1].frame
    <3>1. i = 1 \/ 1 < i
      BY <1>1
    <3>2. 1 < i => ks[1].frame < ks[i].frame
      BY <1>1 DEF Chain
    <3> QED BY <1>1, <3>1, <3>2
  <2> QED BY <2>1
<1>3. <<ks[1].frame, Decoded(ks)[1]>> \in Starts(h)
  BY <1>1 DEF Starts
<1>4. EarliestFrame(h) = ks[1].frame
  BY DEF EarliestFrame
<1>5. Starts(h) = From(Starts(h), EarliestFrame(h))
  BY <1>1, <1>2, <1>4 DEF Starts, From
<1> QED
  BY <1>1, <1>3, <1>4, <1>5

\* The first keyframe establishes the invariant.
LEMMA InvInit == Init => Inv
<1>1. SUFFICES ASSUME NEW n \in 0..MaxFrame, now = n,
                      NEW snap \in Snapshots, history = Push(Empty, now, snap)
               PROVE  Inv
  BY DEF Init
<1>2. now \in Nat
  BY <1>1, HistoryAssumption
<1>3. Empty.inputs # <<>> => Empty.inputBase <= now
  BY DEF Empty
<1> QED
  BY <1>1, <1>2, <1>3, EmptyCorrect, PushCorrect, PushedIsLast DEF Inv

\* What a push leaves satisfies the invariant on the frame pushed.
LEMMA PushInv ==
  ASSUME NEW h, Hist(h), NEW frame \in Nat, NEW snap \in Snapshots,
         h.inputs # <<>> => h.inputBase <= frame,
         history' = Push(h, frame, snap), now' = frame
  PROVE  Inv'
<1>1. /\ Hist(history')
      /\ history'.keyframes # <<>>
      /\ history'.keyframes[Len(history'.keyframes)].frame = now'
      /\ history'.inputs # <<>> => history'.inputBase <= now'
  BY PushCorrect
<1>2. \A i \in 1..Len(history'.keyframes) : history'.keyframes[i].frame <= now'
  BY <1>1, PushedIsLast
<1> QED
  BY <1>1, <1>2 DEF Inv

\* Every way a session drives its history preserves the invariant.
LEMMA InvInductive == Inv /\ [Next]_vars => Inv'
<1> SUFFICES ASSUME Inv, [Next]_vars PROVE Inv'
  OBVIOUS
<1>1. ASSUME NEW f \in 0..MaxFrame, NEW snap \in Snapshots, Anchor(f, snap)
      PROVE  Inv'
  <2>1. f \in Nat /\ (Empty.inputs # <<>> => Empty.inputBase <= f)
    BY HistoryAssumption DEF Empty
  <2> QED BY <1>1, <2>1, EmptyCorrect, PushInv DEF Anchor
<1>2. ASSUME NEW mask \in Masks, NEW snap \in Snapshots, FinishFrame(mask, snap)
      PROVE  Inv'
  <2> DEFINE h == RecordInput(history, now, mask)
  <2>1. Hist(h) /\ h.keyframes = history.keyframes /\ h.inputBase <= now
    BY RecordInputCorrect DEF Inv
  <2>2. now \in Nat /\ now + 1 \in Nat /\ now' = now + 1 /\ h.inputBase \in Nat
    BY <1>2, <2>1 DEF FinishFrame, Inv, Hist
  <2>3. history' = IF OnGrid(now + 1) THEN Push(h, now + 1, snap) ELSE h
    BY <1>2 DEF FinishFrame
  <2> HIDE DEF h
  <2>4. CASE OnGrid(now + 1)
    BY <2>1, <2>2, <2>3, <2>4, PushInv
  <2>5. CASE ~OnGrid(now + 1)
    <3>1. \A i \in 1..Len(h.keyframes) : h.keyframes[i].frame <= now + 1
      <4>1. \A i \in 1..Len(history.keyframes) :
              history.keyframes[i].frame \in Nat /\ history.keyframes[i].frame <= now
        BY ChainType DEF Inv, Hist
      <4> QED BY <2>1, <2>2, <4>1
    <3>2. history' = h
      BY <2>3, <2>5
    <3> QED BY <2>1, <2>2, <3>1, <3>2 DEF Inv
  <2> QED BY <2>4, <2>5
<1>3. ASSUME NEW f \in 0..MaxFrame, NEW snap \in Snapshots, NEW atStart \in BOOLEAN,
             GoBack(f, snap, atStart)
      PROVE  Inv'
  <2> DEFINE h == TruncateAfter(history, f)
  <2>1. f \in Nat /\ now' = f /\ EarliestFrame(history) <= f
    BY <1>3, HistoryAssumption, EarliestIsFirst DEF GoBack, Inv
  <2>2. /\ Hist(h) /\ h.keyframes # <<>>
        /\ \A i \in 1..Len(h.keyframes) : h.keyframes[i].frame <= f
        /\ h.inputs # <<>> => h.inputBase <= f
    BY <2>1, TruncateAfterCorrect, TruncatedReaches DEF Inv
  <2>3. history' = IF atStart /\ OnGrid(f) THEN Push(h, f, snap) ELSE h
    BY <1>3 DEF GoBack
  <2> HIDE DEF h
  <2>4. CASE atStart /\ OnGrid(f)
    BY <2>1, <2>2, <2>3, <2>4, PushInv
  <2>5. CASE ~(atStart /\ OnGrid(f))
    BY <2>1, <2>2, <2>3, <2>5 DEF Inv
  <2> QED BY <2>4, <2>5
<1>4. CASE UNCHANGED vars
  BY <1>4 DEF Inv, vars
<1> QED
  BY <1>1, <1>2, <1>3, <1>4 DEF Next

\* The history stays a decodable chain that ends no later than the machine's frame.
THEOREM InvInvariant == Spec => []Inv
  BY InvInit, InvInductive, PTL DEF Spec

\* The history's fields keep their types.
THEOREM TypeCorrect == Spec => []TypeOK
<1>1. Inv => TypeOK
  BY DEF Inv, Hist, Chain, Bounded, TypeOK
<1> QED
  BY <1>1, InvInvariant, PTL

\* However the chain is truncated and cut, a restore applies at most FullEvery deltas.
THEOREM RestoreIsBounded == Spec => []RestoreBounded
<1>1. Inv => RestoreBounded
  BY DEF Inv, Hist, Bounded, FullWithin, RestoreBounded
<1> QED
  BY <1>1, InvInvariant, PTL

-----------------------------------------------------------------------------
(* The byte count *)

\* Nothing weighs nothing.
LEMMA BytesOfNone ==
  ASSUME NEW ks, NEW a \in Int, NEW b \in Int, b < a
  PROVE  BytesOf(ks, a, b) = 0
<1>1. a..b = {}
  OBVIOUS
<1> DEFINE w == [i \in a..b |-> ks[i].bytes]
<1>2. w \in [{} -> Nat]
  BY <1>1
<1> HIDE DEF w
<1>3. SumFunction(w) = 0
  BY <1>2, SumOfNone
<1> QED
  BY <1>3 DEF BytesOf, w

\* A run of keyframes weighs what the run without its last one does, and that one.
LEMMA BytesOfNext ==
  ASSUME NEW ks \in Seq(Keyframe), NEW a \in Int, NEW b \in Int,
         1 <= a, a <= b, b <= Len(ks)
  PROVE  /\ BytesOf(ks, a, b) = BytesOf(ks, a, b - 1) + ks[b].bytes
         /\ BytesOf(ks, a, b) \in Nat
         /\ BytesOf(ks, a, b - 1) \in Nat
         /\ ks[b].bytes \in Nat
<1> DEFINE w == [i \in a..b |-> ks[i].bytes]
           v == [i \in a..b - 1 |-> ks[i].bytes]
           r == [i \in a..b - 1 |-> w[i]]
<1>1. ASSUME NEW i \in 1..Len(ks) PROVE ks[i].bytes \in Nat
  <2>1. ks[i] \in Keyframe
    BY ElementOfSeq
  <2> QED BY <2>1 DEF Keyframe
<1>2. w \in [a..b -> Nat] /\ w[b] = ks[b].bytes /\ ks[b].bytes \in Nat
  BY <1>1, LenProperties
<1>3. r = v
  OBVIOUS
<1>4. SumFunction(w) = SumFunction(r) + w[b] /\ SumFunction(w) \in Nat /\ SumFunction(r) \in Nat
  <2> HIDE DEF w
  <2> QED BY <1>2, SumToNext
<1> HIDE DEF w, v, r
<1> QED
  BY <1>2, <1>3, <1>4 DEF BytesOf, w, v

\* The weight of a run is a number.
LEMMA BytesOfType ==
  ASSUME NEW ks \in Seq(Keyframe), NEW a \in Int, NEW b \in Int, 1 <= a, b <= Len(ks)
  PROVE  BytesOf(ks, a, b) \in Nat
<1>1. CASE b < a
  BY <1>1, BytesOfNone
<1>2. CASE a <= b
  BY <1>2, BytesOfNext
<1> QED
  BY <1>1, <1>2

\* Runs of keyframes with the same weights one by one weigh the same.
LEMMA BytesOfAgree ==
  ASSUME NEW ks \in Seq(Keyframe), NEW a \in Int, NEW b \in Int, 1 <= a, b <= Len(ks),
         NEW ls \in Seq(Keyframe), NEW c \in Int, NEW e \in Int, 1 <= c, e <= Len(ls),
         b - a = e - c,
         \A i \in a..b : ks[i].bytes = ls[i + (c - a)].bytes
  PROVE  BytesOf(ks, a, b) = BytesOf(ls, c, e)
<1> DEFINE d == c - a
<1>a. d \in Int /\ a + d = c /\ b + d = e /\ \A i \in a..b : ks[i].bytes = ls[i + d].bytes
  OBVIOUS
<1> HIDE DEF d
<1> DEFINE Bad == {j \in Nat : j <= b - a + 1
                             /\ BytesOf(ks, a, a + j - 1) # BytesOf(ls, a + d, a + j - 1 + d)}
<1>0. Len(ks) \in Nat /\ Len(ls) \in Nat
  BY LenProperties
<1>1. Bad = {}
  <2> SUFFICES ASSUME Bad # {} PROVE FALSE
    OBVIOUS
  <2>1. PICK j \in Bad : \A y \in Bad : j <= y
    <3>1. Bad \in SUBSET Nat
      OBVIOUS
    <3> HIDE DEF Bad
    <3> QED BY <3>1, LeastMember
  <2> DEFINE p == a + j - 1
  <2>2. j \in Nat /\ j <= b - a + 1 /\ BytesOf(ks, a, p) # BytesOf(ls, a + d, p + d)
    BY <2>1
  <2>3. CASE j = 0
    <3>1. BytesOf(ks, a, p) = 0
      BY <2>3, BytesOfNone
    <3>2. BytesOf(ls, a + d, p + d) = 0
      BY <1>a, <2>3, BytesOfNone
    <3> QED BY <2>2, <3>1, <3>2
  <2>4. CASE j # 0
    <3>1. j - 1 \in Nat /\ ~(j <= j - 1) /\ j - 1 <= b - a + 1
      BY <2>2, <2>4
    <3>2. BytesOf(ks, a, a + (j - 1) - 1) = BytesOf(ls, a + d, a + (j - 1) - 1 + d)
      <4>1. j - 1 \notin Bad
        <5> HIDE DEF Bad
        <5> QED BY <2>1, <3>1
      <4> QED BY <3>1, <4>1
    <3>3. /\ a + (j - 1) - 1 = p - 1 /\ a + (j - 1) - 1 + d = (p + d) - 1
          /\ p \in Int /\ p + d \in Int /\ a + d \in Int
          /\ a <= p /\ p <= Len(ks) /\ a + d <= p + d /\ p + d <= Len(ls)
          /\ p \in a..b
      BY <1>0, <1>a, <2>2, <2>4
    <3> HIDE DEF p
    <3>4. BytesOf(ks, a, p) = BytesOf(ks, a, p - 1) + ks[p].bytes
      BY <3>3, BytesOfNext
    <3>5. BytesOf(ls, a + d, p + d) = BytesOf(ls, a + d, (p + d) - 1) + ls[p + d].bytes
      <4>1. 1 <= a + d
        BY <1>a
      <4> QED BY <3>3, <4>1, BytesOfNext
    <3>6. ks[p].bytes = ls[p + d].bytes
      BY <1>a, <3>3
    <3>7. BytesOf(ks, a, p - 1) = BytesOf(ls, a + d, (p + d) - 1)
      BY <3>2, <3>3
    <3> QED BY <2>2, <3>4, <3>5, <3>6, <3>7
  <2> QED BY <2>3, <2>4
<1>2. CASE b - a + 1 \in Nat
  <2>1. b - a + 1 \notin Bad
    <3> HIDE DEF Bad
    <3> QED BY <1>1
  <2>2. a + (b - a + 1) - 1 = b /\ a + (b - a + 1) - 1 + d = b + d
    BY <1>a
  <2> QED BY <1>2, <1>a, <2>1, <2>2
<1>3. CASE ~(b - a + 1 \in Nat)
  <2>1. BytesOf(ks, a, b) = 0
    BY <1>3, BytesOfNone
  <2>2. BytesOf(ls, a + d, b + d) = 0
    BY <1>3, <1>a, BytesOfNone
  <2> QED BY <1>a, <2>1, <2>2
<1> QED
  BY <1>2, <1>3, <1>a

\* A run is weighed in two parts.
LEMMA BytesOfSplit ==
  ASSUME NEW ks \in Seq(Keyframe), NEW a \in Int, NEW k \in Int, NEW b \in Int,
         1 <= a, a <= k + 1, k <= b, b <= Len(ks)
  PROVE  BytesOf(ks, a, b) = BytesOf(ks, a, k) + BytesOf(ks, k + 1, b)
<1> DEFINE Bad == {j \in Nat : k + j <= b
                             /\ BytesOf(ks, a, k + j) # BytesOf(ks, a, k) + BytesOf(ks, k + 1, k + j)}
<1>0. Len(ks) \in Nat
  BY LenProperties
<1>1. Bad = {}
  <2> SUFFICES ASSUME Bad # {} PROVE FALSE
    OBVIOUS
  <2>1. PICK j \in Bad : \A y \in Bad : j <= y
    <3>1. Bad \in SUBSET Nat
      OBVIOUS
    <3> HIDE DEF Bad
    <3> QED BY <3>1, LeastMember
  <2> DEFINE e == k + j
  <2>2. /\ j \in Nat /\ e <= b /\ e \in Int /\ k + 1 \in Int
        /\ BytesOf(ks, a, e) # BytesOf(ks, a, k) + BytesOf(ks, k + 1, e)
    BY <2>1
  <2>a. BytesOf(ks, a, k) \in Nat
    BY <1>0, BytesOfType
  <2>3. CASE j = 0
    <3>1. BytesOf(ks, k + 1, e) = 0
      BY <2>3, BytesOfNone
    <3>2. e = k
      BY <2>3
    <3> HIDE DEF e
    <3> QED BY <2>a, <2>2, <3>1, <3>2
  <2>4. CASE j # 0
    <3>1. j - 1 \in Nat /\ ~(j <= j - 1) /\ k + (j - 1) <= b /\ k + (j - 1) = e - 1
      BY <2>2, <2>4
    <3>2. BytesOf(ks, a, e - 1) = BytesOf(ks, a, k) + BytesOf(ks, k + 1, e - 1)
      <4>1. j - 1 \notin Bad
        <5> HIDE DEF Bad
        <5> QED BY <2>1, <3>1
      <4> QED BY <3>1, <4>1
    <3>3. a <= e /\ e <= Len(ks) /\ k + 1 <= e /\ 1 <= k + 1
      BY <1>0, <2>2, <2>4
    <3> HIDE DEF e
    <3>4. /\ BytesOf(ks, a, e) = BytesOf(ks, a, e - 1) + ks[e].bytes
          /\ BytesOf(ks, a, e - 1) \in Nat /\ ks[e].bytes \in Nat
      BY <2>2, <3>3, BytesOfNext
    <3>5. /\ BytesOf(ks, k + 1, e) = BytesOf(ks, k + 1, e - 1) + ks[e].bytes
          /\ BytesOf(ks, k + 1, e - 1) \in Nat
      BY <2>2, <3>3, BytesOfNext
    <3> QED BY <2>a, <2>2, <3>2, <3>4, <3>5
  <2> QED BY <2>3, <2>4
<1>2. b - k \in Nat /\ b - k \notin Bad
  <2>1. b - k \in Nat
    OBVIOUS
  <2> HIDE DEF Bad
  <2> QED BY <1>1, <2>1
<1>3. k + (b - k) = b
  OBVIOUS
<1> QED
  BY <1>2, <1>3

\* The byte count is that of the keyframes, of which a full one has the size of a snapshot.
Counted(h) ==
  /\ h.bytes = BytesOf(h.keyframes, 1, Len(h.keyframes))
  /\ \A i \in 1..Len(h.keyframes) : h.keyframes[i].full => h.keyframes[i].bytes = SnapshotBytes

\* What a push may leave once the budget is enforced, and every later rewind keeps.
Affordable(h) ==
  BytesOf(h.keyframes, 1, Len(h.keyframes)) <= MaxBytes \/ Len(h.keyframes) = 1

LEMMA EmptyCounted == Counted(Empty)
<1>1. Empty.keyframes = <<>> /\ Empty.bytes = 0
  BY DEF Empty
<1>2. Len(<<>>) = 0
  BY EmptySeq
<1> QED
  BY <1>1, <1>2, BytesOfNone DEF Counted

\* A rewind subtracts exactly what it pops.
LEMMA TruncateAfterCounted ==
  ASSUME NEW h, Hist(h), Counted(h), NEW frame \in Int
  PROVE  LET t == TruncateAfter(h, frame)
         IN  /\ Counted(t)
             /\ Affordable(h) /\ t.keyframes # <<>> => Affordable(t)
<1> DEFINE t == TruncateAfter(h, frame)
           ks == h.keyframes
           tk == t.keyframes
           n == Len(ks)
           k == Len(tk)
<1>1. ks \in Seq(Keyframe) /\ n \in Nat
  BY ChainType DEF Hist
<1>2. /\ tk \in Seq(Keyframe) /\ k \in 0..n
      /\ \A i \in 1..k : tk[i] = ks[i]
  <2>1. Kept(ks, frame) \in 0..n
    BY KeptCorrect DEF Hist
  <2>2. /\ Hist(t) /\ k = Kept(ks, frame)
        /\ \A i \in 1..k : tk[i] = ks[i]
    BY TruncateAfterCorrect
  <2> HIDE DEF t
  <2> QED BY <2>1, <2>2, ChainType DEF Hist
<1>3. t.bytes = h.bytes - BytesOf(ks, k + 1, n)
  BY DEF TruncateAfter, Hist, Fields
<1> HIDE DEF t
<1>4. BytesOf(ks, 1, n) = BytesOf(ks, 1, k) + BytesOf(ks, k + 1, n)
  BY <1>1, <1>2, BytesOfSplit
<1>5. BytesOf(tk, 1, k) = BytesOf(ks, 1, k)
  <2>1. /\ 1 \in Int /\ k \in Int /\ 1 <= 1 /\ k <= Len(tk) /\ k <= Len(ks) /\ k - 1 = k - 1
        /\ \A i \in 1..k : tk[i].bytes = ks[i + (1 - 1)].bytes
    BY <1>1, <1>2
  <2> HIDE DEF ks, tk, n, k
  <2> QED BY <1>1, <1>2, <2>1, BytesOfAgree
<1>6. BytesOf(ks, 1, k) \in Nat /\ BytesOf(ks, k + 1, n) \in Nat
  <2>1. 1 \in Int /\ k \in Int /\ k + 1 \in Int /\ n \in Int /\ 1 <= k + 1 /\ k <= n
    BY <1>1, <1>2
  <2> QED BY <1>1, <2>1, BytesOfType
<1>7. Counted(t)
  <2>1. t.bytes = BytesOf(tk, 1, k)
    BY <1>3, <1>4, <1>5, <1>6 DEF Counted
  <2>2. \A i \in 1..k : tk[i].full => tk[i].bytes = SnapshotBytes
    BY <1>1, <1>2 DEF Counted
  <2> QED BY <2>1, <2>2 DEF Counted
<1>8. ASSUME Affordable(h), tk # <<>>
      PROVE  Affordable(t)
  <2>1. k # 0
    BY <1>2, <1>8, EmptySeq
  <2>2. CASE n = 1
    BY <1>2, <2>1, <2>2 DEF Affordable
  <2>3. CASE BytesOf(ks, 1, n) <= MaxBytes
    BY <1>4, <1>5, <1>6, <2>3, HistoryAssumption DEF Affordable
  <2> QED BY <1>8, <2>2, <2>3 DEF Affordable
<1> QED
  BY <1>7, <1>8 DEF t

\* An appended keyframe is counted.
LEMMA AppendKeyframeCounted ==
  ASSUME NEW h, Hist(h), Counted(h), NEW frame \in Nat, NEW snap \in Snapshots
  PROVE  Counted(AppendKeyframe(h, frame, snap))
<1> DEFINE a == AppendKeyframe(h, frame, snap)
           ks == h.keyframes
           n == Len(ks)
           full == ks = <<>> \/ h.sinceFull >= FullEvery
           e == IF full THEN FullKeyframe(frame, snap)
                        ELSE DeltaKeyframe(frame, SymDiff(Decoded(ks)[n], snap))
           ak == Append(ks, e)
<1>0. Chain(ks) /\ ks \in Seq(Keyframe) /\ n \in Nat /\ (ks # <<>> => n \in 1..n)
  BY ChainType, EmptySeq DEF Hist
<1>1. a.keyframes = ak /\ a.bytes = h.bytes + e.bytes
  BY DEF AppendKeyframe, Hist, Fields
<1>2. e \in Keyframe /\ (e.full => e.bytes = SnapshotBytes)
  <2>1. CASE full
    <3>1. FullKeyframe(frame, snap) \in Keyframe
      BY HistoryAssumption DEF FullKeyframe, Keyframe
    <3> QED BY <2>1, <3>1 DEF FullKeyframe
  <2>2. CASE ~full
    <3>1. Decoded(ks)[n] \in Snapshots
      BY <1>0, <2>2, DecodedType
    <3> QED BY <2>2, <3>1, DeltaCorrect DEF DeltaKeyframe
  <2> QED BY <2>1, <2>2
<1> HIDE DEF e, a
<1>3. ak \in Seq(Keyframe) /\ Len(ak) = n + 1 /\ ak[n + 1] = e /\ \A i \in 1..n : ak[i] = ks[i]
  BY <1>0, <1>2, AppendProperties
<1> HIDE DEF ak
<1>4. BytesOf(ak, 1, n + 1) = BytesOf(ak, 1, (n + 1) - 1) + ak[n + 1].bytes
  BY <1>0, <1>3, BytesOfNext
<1>5. BytesOf(ak, 1, n) = BytesOf(ks, 1, n)
  <2>1. /\ 1 \in Int /\ n \in Int /\ 1 <= 1 /\ n <= Len(ak) /\ n <= Len(ks) /\ n - 1 = n - 1
        /\ \A i \in 1..n : ak[i].bytes = ks[i + (1 - 1)].bytes
    BY <1>0, <1>3
  <2> HIDE DEF ks, n
  <2> QED BY <1>0, <1>3, <2>1, BytesOfAgree
<1>6. a.bytes = BytesOf(a.keyframes, 1, Len(a.keyframes))
  BY <1>0, <1>1, <1>3, <1>4, <1>5 DEF Counted
<1>7. \A i \in 1..n + 1 : ak[i].full => ak[i].bytes = SnapshotBytes
  BY <1>0, <1>2, <1>3 DEF Counted
<1> QED
  BY <1>1, <1>3, <1>6, <1>7 DEF Counted, a

\* BytesAfterCut is what the cut leaves, a materialized keyframe at its new size.
LEMMA BytesAfterCutCorrect ==
  ASSUME NEW h, Hist(h), Counted(h), NEW s \in 1..Len(h.keyframes)
  PROVE  LET c == CutBefore(h.keyframes, s)
         IN  BytesAfterCut(h, s) = BytesOf(c, 1, Len(c))
<1> DEFINE ks == h.keyframes
           n == Len(ks)
           c == CutBefore(ks, s)
           m == Len(c)
<1>1. Chain(ks) /\ ks \in Seq(Keyframe) /\ n \in Nat
  BY ChainType DEF Hist
<1>a. /\ Chain(c) /\ m = n - s + 1
      /\ c[1] = FullKeyframe(ks[s].frame, Decoded(ks)[s])
      /\ \A i \in 2..m : c[i] = ks[s + i - 1]
  BY <1>1, CutChain
<1> HIDE DEF c
<1>2. /\ c \in Seq(Keyframe) /\ m = n - s + 1
      /\ c[1].bytes = SnapshotBytes
      /\ \A i \in 2..m : c[i].bytes = ks[i + (s - 1)].bytes
  BY <1>1, <1>a, ChainType DEF FullKeyframe
<1>3. BytesOf(ks, 1, n) = BytesOf(ks, 1, s - 1) + BytesOf(ks, s, n)
  <2>1. BytesOf(ks, 1, n) = BytesOf(ks, 1, s - 1) + BytesOf(ks, (s - 1) + 1, n)
    BY <1>1, BytesOfSplit
  <2> QED BY <1>1, <2>1
<1>4. BytesOf(ks, s, n) = BytesOf(ks, s, s) + BytesOf(ks, s + 1, n)
  BY <1>1, BytesOfSplit
<1>5. BytesOf(ks, s, s) = ks[s].bytes /\ ks[s].bytes \in Nat
  <2>1. /\ BytesOf(ks, s, s) = BytesOf(ks, s, s - 1) + ks[s].bytes
        /\ ks[s].bytes \in Nat
    BY <1>1, BytesOfNext
  <2>2. BytesOf(ks, s, s - 1) = 0
    BY BytesOfNone
  <2> QED BY <2>1, <2>2
<1>6. BytesOf(c, 1, m) = BytesOf(c, 1, 1) + BytesOf(c, 2, m)
  <2>1. BytesOf(c, 1, m) = BytesOf(c, 1, 1) + BytesOf(c, 1 + 1, m)
    BY <1>1, <1>2, BytesOfSplit
  <2> QED BY <2>1
<1>7. BytesOf(c, 1, 1) = SnapshotBytes
  <2>0. 1 \in Int /\ 1 <= 1 /\ 1 <= m
    BY <1>1, <1>2
  <2>1. BytesOf(c, 1, 1) = BytesOf(c, 1, 1 - 1) + c[1].bytes
    BY <1>2, <2>0, BytesOfNext
  <2>2. BytesOf(c, 1, 1 - 1) = 0
    BY BytesOfNone
  <2> QED BY <1>2, <2>1, <2>2, HistoryAssumption
<1>8. BytesOf(c, 2, m) = BytesOf(ks, s + 1, n)
  <2>1. /\ 2 \in Int /\ m \in Int /\ s + 1 \in Int /\ n \in Int /\ 1 <= 2 /\ m <= Len(c)
        /\ 1 <= s + 1 /\ n <= Len(ks) /\ m - 2 = n - (s + 1) /\ (s + 1) - 2 = s - 1
    BY <1>1, <1>2
  <2>2. \A i \in 2..m : c[i].bytes = ks[i + ((s + 1) - 2)].bytes
    BY <1>2, <2>1
  <2> HIDE DEF ks, n, m
  <2> QED BY <1>1, <1>2, <2>1, <2>2, BytesOfAgree
<1>9. BytesOf(ks, 1, s - 1) \in Nat /\ BytesOf(ks, s + 1, n) \in Nat
  BY <1>1, BytesOfType
<1>10. BytesAfterCut(h, s) = h.bytes - BytesOf(ks, 1, s - 1)
                               + (IF ks[s].full THEN 0 ELSE SnapshotBytes - ks[s].bytes)
  BY DEF BytesAfterCut
<1>11. ks[s].full => ks[s].bytes = SnapshotBytes
  BY DEF Counted
<1>12. BytesAfterCut(h, s) = SnapshotBytes + BytesOf(ks, s + 1, n)
  BY <1>3, <1>4, <1>5, <1>9, <1>10, <1>11, HistoryAssumption DEF Counted
<1> QED
  BY <1>6, <1>7, <1>8, <1>12 DEF c

\* Enforcing the budget leaves a count that is right and a chain that fits, or one keyframe.
LEMMA EnforceBudgetCounted ==
  ASSUME NEW h, Hist(h), Counted(h), h.keyframes # <<>>
  PROVE  Counted(EnforceBudget(h)) /\ Affordable(EnforceBudget(h))
<1> DEFINE b == EnforceBudget(h)
           ks == h.keyframes
           n == Len(ks)
           s == Cut(h)
           c == CutBefore(ks, s)
<1>1. Chain(ks) /\ ks \in Seq(Keyframe) /\ n \in Nat /\ s \in 1..n
  BY ChainType, CutInRange DEF Hist
<1>2. s = n \/ BytesAfterCut(h, s) <= MaxBytes
  <2> DEFINE S == {i \in CutPoints(ks) : i = n \/ BytesAfterCut(h, i) <= MaxBytes}
  <2>1. S \in SUBSET Nat /\ n \in S
    <3>1. n \in 1..n
      BY <1>1
    <3> QED BY <1>1, <3>1 DEF CutPoints
  <2>2. Min(S) \in S
    <3> HIDE DEF S
    <3> QED BY <2>1, MinInNat
  <2> QED BY <2>2 DEF Cut
<1>3. /\ Chain(c) /\ Len(c) = n - s + 1
      /\ c[1] = FullKeyframe(ks[s].frame, Decoded(ks)[s])
      /\ \A i \in 2..Len(c) : c[i] = ks[s + i - 1]
  <2> HIDE DEF s
  <2> QED BY <1>1, CutChain
<1>4. BytesAfterCut(h, s) = BytesOf(c, 1, Len(c))
  <2> HIDE DEF s
  <2> QED BY <1>1, BytesAfterCutCorrect
<1>5. CASE s = 1
  <2>1. b = h
    BY <1>5 DEF EnforceBudget
  <2>2. ks[1].full /\ h.bytes \in Nat
    <3>1. BytesOf(ks, 1, n) \in Nat
      BY <1>1, BytesOfType
    <3> QED BY <1>1, <3>1 DEF Chain, Counted
  <2>3. BytesOf(ks, 1, 1 - 1) = 0
    BY BytesOfNone
  <2>4. BytesAfterCut(h, 1) = h.bytes
    BY <2>2, <2>3 DEF BytesAfterCut
  <2>5. n = 1 \/ BytesOf(ks, 1, n) <= MaxBytes
    <3> HIDE DEF s
    <3> QED BY <1>2, <1>5, <2>4 DEF Counted
  <2> QED BY <2>1, <2>5 DEF Affordable
<1>6. CASE s # 1
  <2>1. b.keyframes = c /\ b.bytes = BytesAfterCut(h, s)
    BY <1>6 DEF EnforceBudget, Hist, Fields
  <2> HIDE DEF s, c, b
  <2>2. b.bytes = BytesOf(b.keyframes, 1, Len(b.keyframes))
    BY <1>4, <2>1
  <2>3. \A i \in 1..Len(c) : c[i].full => c[i].bytes = SnapshotBytes
    <3>1. c[1].bytes = SnapshotBytes
      BY <1>3 DEF FullKeyframe
    <3>2. ASSUME NEW i \in 2..Len(c), c[i].full
          PROVE  c[i].bytes = SnapshotBytes
      <4>1. s + i - 1 \in 1..n
        BY <1>1, <1>3
      <4> QED BY <1>3, <3>2, <4>1 DEF Counted
    <3> QED BY <1>1, <1>3, <3>1, <3>2
  <2>4. Len(c) = 1 \/ BytesOf(c, 1, Len(c)) <= MaxBytes
    BY <1>1, <1>2, <1>3, <1>4
  <2> QED BY <2>1, <2>2, <2>3, <2>4 DEF Counted, Affordable, b
<1> QED
  BY <1>5, <1>6

\* A push, the rewind it may start with and the budget included, keeps the count.
LEMMA PushCounted ==
  ASSUME NEW h, Hist(h), Counted(h), NEW frame \in Nat, NEW snap \in Snapshots
  PROVE  Counted(Push(h, frame, snap)) /\ Affordable(Push(h, frame, snap))
<1> DEFINE ks == h.keyframes
           late == ks # <<>> /\ ks[Len(ks)].frame >= frame
           t == IF late THEN TruncateAfter(h, frame - 1) ELSE h
           a == AppendKeyframe(t, frame, snap)
<1>1. Hist(t) /\ Counted(t) /\ \A i \in 1..Len(t.keyframes) : t.keyframes[i].frame < frame
  <2>1. CASE late
    <3>1. frame - 1 \in Int
      OBVIOUS
    <3>2. /\ Hist(t) /\ Counted(t)
          /\ \A i \in 1..Len(t.keyframes) : t.keyframes[i].frame <= frame - 1
      BY <2>1, <3>1, TruncateAfterCorrect, TruncateAfterCounted
    <3> HIDE DEF t
    <3>3. \A i \in 1..Len(t.keyframes) : t.keyframes[i].frame \in Nat
      BY <3>2, ChainType DEF Hist
    <3> QED BY <3>2, <3>3
  <2>2. CASE ~late
    <3>1. ASSUME NEW i \in 1..Len(ks) PROVE ks[i].frame < frame
      <4>1. ks # <<>> /\ Len(ks) \in 1..Len(ks)
        BY ChainType, EmptySeq DEF Hist
      <4>2. ks[Len(ks)].frame < frame /\ ks[Len(ks)].frame \in Nat /\ ks[i].frame \in Nat
        BY <2>2, <4>1, ChainType DEF Hist
      <4>3. ks[i].frame <= ks[Len(ks)].frame
        BY <4>1, PushedIsLast
      <4> QED BY <4>2, <4>3
    <3> QED BY <2>2, <3>1
  <2> QED BY <2>1, <2>2
<1>2. Push(h, frame, snap) = EnforceBudget(a)
  BY DEF Push
<1> HIDE DEF t
<1>3. Hist(a) /\ Counted(a) /\ Len(a.keyframes) = Len(t.keyframes) + 1
  BY <1>1, AppendKeyframeCorrect, AppendKeyframeCounted
<1>4. a.keyframes # <<>>
  <2>1. Len(t.keyframes) \in Nat
    BY <1>1, ChainType DEF Hist
  <2> HIDE DEF a
  <2> QED BY <1>3, <2>1, EmptySeq
<1> HIDE DEF a
<1> QED
  BY <1>2, <1>3, <1>4, EnforceBudgetCounted

\* The byte count through every operation, on top of Inv.
BudgetInv == Inv /\ Counted(history) /\ Affordable(history)

LEMMA BudgetInductive == Inv /\ Inv' /\ BudgetInv /\ [Next]_vars => BudgetInv'
<1> SUFFICES ASSUME Inv, Inv', BudgetInv, [Next]_vars PROVE Counted(history') /\ Affordable(history')
  BY DEF BudgetInv
<1>0. Hist(history) /\ Counted(history) /\ Affordable(history) /\ now \in Nat
      /\ (history.inputs # <<>> => history.inputBase <= now)
  BY DEF Inv, BudgetInv
<1>1. ASSUME NEW f \in 0..MaxFrame, NEW snap \in Snapshots, Anchor(f, snap)
      PROVE  Counted(history') /\ Affordable(history')
  <2>1. history' = Push(Empty, f, snap) /\ f \in Nat
    BY <1>1, HistoryAssumption DEF Anchor
  <2> QED BY <2>1, EmptyCorrect, EmptyCounted, PushCounted
<1>2. ASSUME NEW mask \in Masks, NEW snap \in Snapshots, FinishFrame(mask, snap)
      PROVE  Counted(history') /\ Affordable(history')
  <2> DEFINE h == RecordInput(history, now, mask)
  <2>1. history' = IF OnGrid(now + 1) THEN Push(h, now + 1, snap) ELSE h
    BY <1>2 DEF FinishFrame
  <2>2. Hist(h) /\ h.keyframes = history.keyframes
    BY <1>0, RecordInputCorrect
  <2>3. h.bytes = history.bytes
    BY <1>0 DEF RecordInput, Hist, Fields
  <2> HIDE DEF h
  <2>4. Counted(h) /\ Affordable(h)
    BY <1>0, <2>2, <2>3 DEF Counted, Affordable
  <2>5. now + 1 \in Nat
    BY <1>0
  <2> QED BY <2>1, <2>2, <2>4, <2>5, PushCounted
<1>3. ASSUME NEW f \in 0..MaxFrame, NEW snap \in Snapshots, NEW atStart \in BOOLEAN,
             GoBack(f, snap, atStart)
      PROVE  Counted(history') /\ Affordable(history')
  <2> DEFINE h == TruncateAfter(history, f)
  <2>1. f \in Nat /\ f \in Int /\ EarliestFrame(history) <= f
    BY <1>3, HistoryAssumption, EarliestIsFirst DEF GoBack, Inv
  <2>2. Hist(h) /\ h.keyframes # <<>>
    BY <2>1, TruncateAfterCorrect, TruncatedReaches DEF Inv
  <2>3. Counted(h) /\ Affordable(h)
    BY <1>0, <2>1, <2>2, TruncateAfterCounted
  <2>4. history' = IF atStart /\ OnGrid(f) THEN Push(h, f, snap) ELSE h
    BY <1>3 DEF GoBack
  <2> HIDE DEF h
  <2> QED BY <2>1, <2>2, <2>3, <2>4, PushCounted
<1>4. CASE UNCHANGED vars
  BY <1>0, <1>4 DEF vars
<1> QED
  BY <1>1, <1>2, <1>3, <1>4 DEF Next

\* The byte count stays that of the keyframes kept, through every append, pop, cut and
\* materialization, and they fit the budget unless only one is left.
THEOREM BudgetHolds == Spec => []WithinBudget
<1>1. Init => BudgetInv
  <2> SUFFICES ASSUME Init PROVE BudgetInv
    OBVIOUS
  <2>1. PICK snap \in Snapshots : history = Push(Empty, now, snap)
    BY DEF Init
  <2>2. now \in Nat
    BY HistoryAssumption DEF Init
  <2> QED BY <2>1, <2>2, InvInit, EmptyCorrect, EmptyCounted, PushCounted DEF BudgetInv
<1>2. BudgetInv => Inv
  BY DEF BudgetInv
<1>3. BudgetInv /\ [Next]_vars => BudgetInv'
  BY <1>2, InvInductive, BudgetInductive
<1>4. BudgetInv => WithinBudget
  BY DEF BudgetInv, Counted, Affordable, WithinBudget
<1> QED
  BY <1>1, <1>3, <1>4, PTL DEF Spec

-----------------------------------------------------------------------------
(* The delta chain implements the exact history *)

\* The first keyframe is all the exact history holds.
LEMMA InitImplements == Init => Exact!Init
<1> SUFFICES ASSUME Init PROVE Exact!Init
  OBVIOUS
<1>1. PICK snap \in Snapshots : history = Push(Empty, now, snap)
  BY DEF Init
<1>2. now \in Nat /\ now \in 0..MaxFrame
  BY HistoryAssumption DEF Init
<1>a. Empty.inputs # <<>> => Empty.inputBase <= now
  BY DEF Empty
<1>3. /\ EarliestFrame(history) \in {q[1] : q \in Stored(Starts(Empty), now, snap)}
      /\ Starts(history) = From(Stored(Starts(Empty), now, snap), EarliestFrame(history))
  BY <1>1, <1>2, <1>a, EmptyCorrect, PushCorrect
<1>4. Stored(Starts(Empty), now, snap) = {<<now, snap>>}
  BY EmptyCorrect DEF Stored
<1>5. EarliestFrame(history) = now
  BY <1>3, <1>4
<1>6. Starts(history) = {<<now, snap>>}
  BY <1>2, <1>3, <1>4, <1>5 DEF From
<1>7. Held(history, now) = [g \in {} |-> 0]
  BY <1>2, <1>5 DEF Held
<1> QED
  BY <1>2, <1>6, <1>7 DEF Exact!Init

\* Clearing and pushing is starting again.
LEMMA AnchorImplements ==
  ASSUME Inv, NEW f \in 0..MaxFrame, NEW snap \in Snapshots, Anchor(f, snap)
  PROVE  Exact!Anchor(f, snap)
<1>1. history' = Push(Empty, f, snap) /\ now' = f /\ f \in Nat
  BY HistoryAssumption DEF Anchor
<1>a. Empty.inputs # <<>> => Empty.inputBase <= f
  BY DEF Empty
<1>2. /\ EarliestFrame(history') \in {q[1] : q \in Stored(Starts(Empty), f, snap)}
      /\ Starts(history') = From(Stored(Starts(Empty), f, snap), EarliestFrame(history'))
  BY <1>1, <1>a, EmptyCorrect, PushCorrect
<1>3. Stored(Starts(Empty), f, snap) = {<<f, snap>>}
  BY EmptyCorrect DEF Stored
<1>4. EarliestFrame(history') = f
  BY <1>2, <1>3
<1>5. Starts(history') = {<<f, snap>>}
  BY <1>1, <1>2, <1>3, <1>4 DEF From
<1>6. Held(history', now') = [g \in {} |-> 0]
  BY <1>1, <1>4 DEF Held
<1> QED
  BY <1>1, <1>5, <1>6 DEF Exact!Anchor

\* Recording the input, pushing if due and enforcing the budget is finishing a frame.
LEMMA FinishImplements ==
  ASSUME Inv, NEW mask \in Masks, NEW snap \in Snapshots, FinishFrame(mask, snap)
  PROVE  Exact!Finish(mask, snap)
<1> DEFINE h == RecordInput(history, now, mask)
           first == EarliestFrame(history)
           floor == EarliestFrame(history')
           held == Held(history, now)
           inputs == [g \in DOMAIN held \cup {now} |-> IF g = now THEN mask ELSE held[g]]
           starts == IF OnGrid(now + 1) THEN Starts(history) \cup {<<now + 1, snap>>}
                                        ELSE Starts(history)
<1>1. /\ Hist(history) /\ history.keyframes # <<>> /\ now \in Nat
      /\ history.inputs # <<>> => history.inputBase <= now
      /\ now' = now + 1 /\ now + 1 \in Nat
      /\ history' = IF OnGrid(now + 1) THEN Push(h, now + 1, snap) ELSE h
  BY DEF Inv, FinishFrame
<1>2. /\ Hist(h)
      /\ h.keyframes = history.keyframes
      /\ h.inputBase <= now
      /\ InputAt(h, now) = mask
      /\ \A g \in Nat : g # now => InputAt(h, g) = InputAt(history, g)
  BY <1>1, RecordInputCorrect
<1> HIDE DEF h
<1>3. EarliestFrame(h) = first /\ Starts(h) = Starts(history)
  BY <1>2 DEF EarliestFrame, Starts
<1>4. /\ first \in Nat /\ first <= now
      /\ first \in {p[1] : p \in Starts(history)}
      /\ Starts(history) = From(Starts(history), first)
  <2>1. 1 \in 1..Len(history.keyframes)
    BY <1>1, ChainType, EmptySeq DEF Hist
  <2>2. first <= now
    BY <2>1 DEF Inv, EarliestFrame
  <2> QED BY <1>1, <2>2, EarliestIsFirst
<1>5. \A p \in Starts(history) : p[1] \in Nat /\ p[1] <= now /\ p[1] >= first
  <2>1. \A p \in Starts(history) : p[1] \in Nat /\ p[1] <= now
    BY StartsAreFrames DEF Inv
  <2> QED BY <1>4, <2>1 DEF From
<1> HIDE DEF first
<1>6. /\ floor \in {p[1] : p \in starts}
      /\ Starts(history') = From(starts, floor)
      /\ \A g \in Nat : g >= floor /\ g < now + 1 => InputAt(history', g) = InputAt(h, g)
  <2>1. CASE OnGrid(now + 1)
    <3>1. h.inputBase <= now + 1
      BY <1>1, <1>2 DEF Hist
    <3>2. history' = Push(h, now + 1, snap)
      BY <1>1, <2>1
    <3>3. Stored(Starts(h), now + 1, snap) = Starts(history) \cup {<<now + 1, snap>>}
      BY <1>1, <1>3, <1>5 DEF Stored
    <3> HIDE DEF starts
    <3>4. /\ floor \in {p[1] : p \in Stored(Starts(h), now + 1, snap)}
          /\ Starts(history') = From(Stored(Starts(h), now + 1, snap), floor)
          /\ \A g \in Nat : g >= floor /\ g < now + 1 => InputAt(history', g) = InputAt(h, g)
      BY <1>1, <1>2, <3>1, <3>2, PushCorrect
    <3> QED BY <2>1, <3>3, <3>4 DEF starts
  <2>2. CASE ~OnGrid(now + 1)
    <3>1. history' = h /\ floor = first /\ starts = Starts(history)
      BY <1>1, <1>3, <2>2
    <3> HIDE DEF starts, floor
    <3> QED BY <1>3, <1>4, <3>1
  <2> QED BY <2>1, <2>2
<1>7. floor \in Nat /\ floor >= first
  BY <1>1, <1>4, <1>5, <1>6
<1> HIDE DEF starts
<1>8. DOMAIN held = first..now - 1 /\ \A g \in first..now - 1 : held[g] = InputAt(history, g)
  BY DEF Held, first
<1>9. DOMAIN inputs = first..now
  BY <1>1, <1>4, <1>8
<1>10. \A g \in Int : g >= floor /\ g < now + 1 => inputs[g] = InputAt(history', g)
  <2>1. ASSUME NEW g \in Int, g >= floor, g < now + 1
        PROVE  inputs[g] = InputAt(history', g)
    <3>0. g \in Nat /\ g \in first..now
      BY <1>1, <1>4, <1>7, <2>1
    <3>1. InputAt(history', g) = InputAt(h, g)
      BY <1>6, <2>1, <3>0
    <3>2. CASE g = now
      BY <1>2, <3>1, <3>2
    <3>3. CASE g # now
      <4>1. g \in first..now - 1
        BY <1>1, <1>4, <3>0, <3>3
      <4>2. inputs[g] = held[g]
        <5> HIDE DEF held
        <5> QED BY <1>8, <3>3, <4>1
      <4>3. held[g] = InputAt(history, g)
        BY <1>8, <4>1
      <4> QED BY <1>2, <3>0, <3>1, <3>3, <4>2, <4>3
    <3> QED BY <3>2, <3>3
  <2> QED BY <2>1
<1> HIDE DEF inputs, floor, held
<1>11. Held(history', now + 1) = [g \in {k \in DOMAIN inputs : k >= floor} |-> inputs[g]]
  <2>1. {k \in DOMAIN inputs : k >= floor} = floor..(now + 1) - 1
    BY <1>1, <1>4, <1>7, <1>9
  <2>2. \A g \in floor..(now + 1) - 1 : inputs[g] = InputAt(history', g)
    BY <1>1, <1>7, <1>10
  <2>3. Held(history', now + 1) = [g \in floor..(now + 1) - 1 |-> InputAt(history', g)]
    BY DEF Held, floor
  <2> QED BY <2>1, <2>2, <2>3
<1>12. Exact!Since(starts, inputs, floor)
  BY <1>1, <1>6, <1>11 DEF Exact!Since, From
<1>13. floor \in Exact!FrameIn(starts)
  BY <1>6 DEF Exact!FrameIn
<1> QED
  BY <1>1, <1>12, <1>13 DEF Exact!Finish, Exact!OnGrid, OnGrid, starts, inputs, held

\* Truncating, and pushing if due, is going back.
LEMMA GoBackImplements ==
  ASSUME Inv, NEW f \in 0..MaxFrame, NEW snap \in Snapshots, NEW atStart \in BOOLEAN,
         GoBack(f, snap, atStart)
  PROVE  Exact!GoBack(f, snap, atStart)
<1> DEFINE h == TruncateAfter(history, f)
           first == EarliestFrame(history)
           floor == EarliestFrame(history')
           held == Held(history, now)
           inputs == [g \in {k \in DOMAIN held : k < f} |-> held[g]]
           starts == IF atStart /\ OnGrid(f)
                       THEN {p \in Starts(history) : p[1] < f} \cup {<<f, snap>>}
                       ELSE {p \in Starts(history) : p[1] <= f}
<1>1. /\ Hist(history) /\ history.keyframes # <<>> /\ now \in Nat
      /\ first \in Nat /\ first \in {p[1] : p \in Starts(history)}
      /\ Starts(history) = From(Starts(history), first)
      /\ f \in Nat /\ now' = f
      /\ history' = IF atStart /\ OnGrid(f) THEN Push(h, f, snap) ELSE h
  BY EarliestIsFirst, HistoryAssumption DEF Inv, GoBack
<1>2. first <= f /\ f <= now
  BY <1>1 DEF GoBack
<1>3. /\ Hist(h)
      /\ Starts(h) = UpTo(Starts(history), f)
      /\ h.inputs # <<>> => h.inputBase <= f
      /\ \A g \in Nat : g <= f => InputAt(h, g) = InputAt(history, g)
  BY <1>1, TruncateAfterCorrect
<1>4. h.keyframes # <<>> /\ EarliestFrame(h) = first
  BY <1>1, <1>2, TruncatedReaches
<1>5. \A p \in Starts(history) : p[1] \in Nat /\ p[1] >= first
  BY <1>1, StartsAreFrames DEF From
<1> HIDE DEF h, first
<1>6. /\ floor \in {p[1] : p \in starts}
      /\ Starts(history') = From(starts, floor)
      /\ \A g \in Nat : g >= floor /\ g < f => InputAt(history', g) = InputAt(h, g)
  <2>1. CASE atStart /\ OnGrid(f)
    <3>1. history' = Push(h, f, snap)
      BY <1>1, <2>1
    <3>2. Stored(Starts(h), f, snap) = {p \in Starts(history) : p[1] < f} \cup {<<f, snap>>}
      <4>1. {p \in UpTo(Starts(history), f) : p[1] < f} = {p \in Starts(history) : p[1] < f}
        BY <1>1, <1>5 DEF UpTo
      <4> QED BY <1>3, <4>1 DEF Stored
    <3> HIDE DEF starts
    <3>3. /\ floor \in {p[1] : p \in Stored(Starts(h), f, snap)}
          /\ Starts(history') = From(Stored(Starts(h), f, snap), floor)
          /\ \A g \in Nat : g >= floor /\ g < f => InputAt(history', g) = InputAt(h, g)
      BY <1>1, <1>3, <3>1, PushCorrect
    <3> QED BY <2>1, <3>2, <3>3 DEF starts
  <2>2. CASE ~(atStart /\ OnGrid(f))
    <3>1. history' = h /\ floor = first /\ starts = UpTo(Starts(history), f)
      BY <1>1, <1>4, <2>2 DEF UpTo
    <3>2. floor \in {p[1] : p \in Starts(h)} /\ Starts(h) = From(Starts(h), floor)
      BY <1>3, <1>4, <3>1, EarliestIsFirst
    <3> HIDE DEF starts, floor
    <3> QED BY <1>3, <3>1, <3>2
  <2> QED BY <2>1, <2>2
<1>7. floor \in Nat /\ floor >= first
  BY <1>1, <1>2, <1>5, <1>6
<1> HIDE DEF starts
<1>8. DOMAIN held = first..now - 1 /\ \A g \in first..now - 1 : held[g] = InputAt(history, g)
  BY DEF Held, first
<1>9. DOMAIN inputs = {k \in first..now - 1 : k < f}
      /\ \A g \in first..now - 1 : g < f => inputs[g] = InputAt(history, g)
  <2> HIDE DEF held
  <2> QED BY <1>8
<1> HIDE DEF inputs, floor, held
<1>10. Held(history', f) = [g \in {k \in DOMAIN inputs : k >= floor} |-> inputs[g]]
  <2>1. {k \in DOMAIN inputs : k >= floor} = floor..f - 1
    BY <1>1, <1>2, <1>7, <1>9
  <2>2. \A g \in floor..f - 1 : inputs[g] = InputAt(history', g)
    BY <1>1, <1>2, <1>3, <1>6, <1>7, <1>9
  <2>3. Held(history', f) = [g \in floor..f - 1 |-> InputAt(history', g)]
    BY DEF Held, floor
  <2> QED BY <2>1, <2>2, <2>3
<1>11. Exact!Since(starts, inputs, floor)
  BY <1>1, <1>6, <1>10 DEF Exact!Since, From
<1>12. floor \in Exact!FrameIn(starts)
  BY <1>6 DEF Exact!FrameIn
<1>13. \E g \in Exact!FrameIn(Starts(history)) : g <= f
  BY <1>1, <1>2 DEF Exact!FrameIn
<1> QED
  BY <1>1, <1>2, <1>11, <1>12, <1>13
     DEF Exact!GoBack, Exact!OnGrid, OnGrid, starts, inputs, held

\* A history left alone is left alone.
LEMMA StutterImplements ==
  ASSUME UNCHANGED vars
  PROVE  UNCHANGED Exact!vars
BY DEF vars, Exact!vars

\* The chain of deltas, truncated by rewinds and cut by the budget, implements the
\* history that stores every start and every input verbatim.
THEOREM HistoryIsExact == Spec => ImplementsExact
<1>1. Init => Exact!Init
  BY InitImplements
<1>2. Inv /\ [Next]_vars => [Exact!Next]_(Exact!vars)
  <2> SUFFICES ASSUME Inv, [Next]_vars PROVE [Exact!Next]_(Exact!vars)
    OBVIOUS
  <2>1. ASSUME NEW f \in 0..MaxFrame, NEW snap \in Snapshots, Anchor(f, snap)
        PROVE  Exact!Next
    BY <2>1, AnchorImplements DEF Exact!Next
  <2>2. ASSUME NEW mask \in Masks, NEW snap \in Snapshots, FinishFrame(mask, snap)
        PROVE  Exact!Next
    BY <2>2, FinishImplements DEF Exact!Next
  <2>3. ASSUME NEW f \in 0..MaxFrame, NEW snap \in Snapshots, NEW atStart \in BOOLEAN,
               GoBack(f, snap, atStart)
        PROVE  Exact!Next
    BY <2>3, GoBackImplements DEF Exact!Next
  <2>4. CASE UNCHANGED vars
    BY <2>4, StutterImplements
  <2> QED BY <2>1, <2>2, <2>3, <2>4 DEF Next
<1> QED
  BY <1>1, <1>2, InvInvariant, PTL DEF Spec, ImplementsExact, Exact!Spec
=================================================================================
