----------------------------- MODULE TimeTravelProofs -----------------------------
(***************************************************************************)
(* Theorems about time travel in a session, for every number of polls in a *)
(* frame, every program, whatever it sleeps through and asks for, and      *)
(* every set of save states.  The lemmas about histories are those of      *)
(* RewindHistoryProofs.                                                    *)
(***************************************************************************)
EXTENDS TimeTravel, LeastNumber, SequenceTheorems

HP == INSTANCE RewindHistoryProofs WITH now <- machine.frame

\* A session's history has the constants that the lemmas about histories ask for.
LEMMA HistoryConstants ==
  /\ Masks \subseteq Nat
  /\ 0 \in Masks
  /\ KeyframeInterval \in Nat \ {0}
  /\ FullEvery \in Nat \ {0}
  /\ MaxBytes \in Nat
  /\ SnapshotBytes \in Nat
  /\ DeltaHeader \in Nat
  /\ MaxFrame \in Nat
BY SessionAssumption

-----------------------------------------------------------------------------
(* The session's history is that of the lemmas                             *)

LEMMA SameDecoded == \A ks : H!Decoded(ks) = HP!Decoded(ks)
BY DEF H!Decoded, HP!Decoded, H!SymDiff, HP!SymDiff

LEMMA SameEarliest == \A h : H!EarliestFrame(h) = HP!EarliestFrame(h)
BY DEF H!EarliestFrame, HP!EarliestFrame

LEMMA SameInputAt == \A h, f : H!InputAt(h, f) = HP!InputAt(h, f)
BY DEF H!InputAt, HP!InputAt

LEMMA SameRecordInput == \A h, f, mask : H!RecordInput(h, f, mask) = HP!RecordInput(h, f, mask)
BY DEF H!RecordInput, HP!RecordInput

LEMMA SameBytesOf == \A ks, a, b : H!BytesOf(ks, a, b) = HP!BytesOf(ks, a, b)
BY DEF H!BytesOf, HP!BytesOf, H!SumFunction, HP!SumFunction, H!SumFunctionOnSet, HP!SumFunctionOnSet,
       H!FoldFunctionOnSet, HP!FoldFunctionOnSet, H!MapThenFoldSet, HP!MapThenFoldSet

LEMMA SameTrailingDeltas == \A ks : H!TrailingDeltas(ks) = HP!TrailingDeltas(ks)
BY DEF H!TrailingDeltas, HP!TrailingDeltas, H!Min, HP!Min

LEMMA SameKept == \A ks, f : H!Kept(ks, f) = HP!Kept(ks, f)
BY DEF H!Kept, HP!Kept, H!Min, HP!Min

LEMMA SameKeyframe == \A h, f : H!KeyframeAtOrBefore(h, f) = HP!KeyframeAtOrBefore(h, f)
BY SameKept, SameDecoded DEF H!KeyframeAtOrBefore, HP!KeyframeAtOrBefore

LEMMA SameTruncateAfter == \A h, f : H!TruncateAfter(h, f) = HP!TruncateAfter(h, f)
BY SameKept, SameBytesOf, SameTrailingDeltas DEF H!TruncateAfter, HP!TruncateAfter

LEMMA SameAppendKeyframe ==
  \A h, f, snap : H!AppendKeyframe(h, f, snap) = HP!AppendKeyframe(h, f, snap)
<1>1. \A f, snap : H!FullKeyframe(f, snap) = HP!FullKeyframe(f, snap)
  BY DEF H!FullKeyframe, HP!FullKeyframe
<1>2. \A f, xor : H!DeltaKeyframe(f, xor) = HP!DeltaKeyframe(f, xor)
  BY DEF H!DeltaKeyframe, HP!DeltaKeyframe, H!Cardinality, HP!Cardinality
<1>3. \A s, t : H!SymDiff(s, t) = HP!SymDiff(s, t)
  BY DEF H!SymDiff, HP!SymDiff
<1> QED
  BY SameDecoded, <1>1, <1>2, <1>3, ZenonT(60) DEF H!AppendKeyframe, HP!AppendKeyframe

LEMMA SameEnforceBudget == \A h : H!EnforceBudget(h) = HP!EnforceBudget(h)
<1>1. \A ks : H!CutPoints(ks) = HP!CutPoints(ks)
  BY DEF H!CutPoints, HP!CutPoints
<1>2. \A h, s : H!BytesAfterCut(h, s) = HP!BytesAfterCut(h, s)
  BY SameBytesOf DEF H!BytesAfterCut, HP!BytesAfterCut
<1>3. \A h : H!Cut(h) = HP!Cut(h)
  BY <1>1, <1>2 DEF H!Cut, HP!Cut, H!Min, HP!Min
<1>4. \A ks, s : H!CutBefore(ks, s) = HP!CutBefore(ks, s)
  BY SameDecoded DEF H!CutBefore, HP!CutBefore, H!FullKeyframe, HP!FullKeyframe
<1> QED
  BY <1>2, <1>3, <1>4 DEF H!EnforceBudget, HP!EnforceBudget

LEMMA SamePush == \A h, f, snap : H!Push(h, f, snap) = HP!Push(h, f, snap)
BY SameTruncateAfter, SameAppendKeyframe, SameEnforceBudget DEF H!Push, HP!Push

LEMMA SameEmpty == H!Empty = HP!Empty
BY DEF H!Empty, HP!Empty
-----------------------------------------------------------------------------
(* The machine *)

Entry == Masks \cup {KeypadRequest, UserWrite}

\* A poll executes one instruction or none.
LEMMA ExecutedNext ==
  ASSUME NEW s \in Nat
  PROVE  /\ Executed(s) \in Nat
         /\ Executed(0) = 0
         /\ Executed(s + 1) = Executed(s) + (IF s \in Asleep THEN 0 ELSE 1)
<1> DEFINE A == (0..s - 1) \ Asleep
           B == (0..(s + 1) - 1) \ Asleep
<1>1. IsFiniteSet(A)
  <2>1. 0 \in Int /\ s - 1 \in Int
    OBVIOUS
  <2>2. IsFiniteSet(0..s - 1)
    BY <2>1, FS_Interval
  <2> QED BY <2>2, FS_Difference
<1>2. Cardinality(A) \in Nat
  BY <1>1, FS_CardinalityType
<1>3. (0..0 - 1) \ Asleep = {} /\ Executed(0) = 0
  BY FS_EmptySet DEF Executed
<1>4. CASE s \in Asleep
  <2>1. B = A
    BY <1>4
  <2> QED BY <1>2, <1>3, <1>4, <2>1 DEF Executed
<1>5. CASE s \notin Asleep
  <2>1. B = A \cup {s} /\ s \notin A
    BY <1>5
  <2>2. Cardinality(A \cup {s}) = Cardinality(A) + 1
    <3> HIDE DEF A
    <3> QED BY <1>1, <2>1, FS_AddElement
  <2> QED BY <1>2, <1>3, <1>5, <2>1, <2>2 DEF Executed
<1> QED
  BY <1>4, <1>5

\* Instructions executed only add up, one at a time.
LEMMA ExecutedGrows ==
  ASSUME NEW s \in Nat, NEW t \in Nat, s <= t
  PROVE  /\ Executed(s) \in Nat /\ Executed(t) \in Nat
         /\ Executed(s) <= Executed(t)
         /\ Executed(t) <= Executed(s) + (t - s)
<1> DEFINE Bad == {n \in Nat : ~(Executed(s) <= Executed(s + n) /\ Executed(s + n) <= Executed(s) + n)}
<1>0. \A u \in Nat : Executed(u) \in Nat
  BY ExecutedNext
<1>1. Bad = {}
  <2> SUFFICES ASSUME Bad # {} PROVE FALSE
    OBVIOUS
  <2>1. PICK n \in Bad : \A y \in Bad : n <= y
    <3>1. Bad \in SUBSET Nat
      OBVIOUS
    <3> HIDE DEF Bad
    <3> QED BY <3>1, LeastMember
  <2>2. n # 0
    BY <1>0, <2>1
  <2>3. n - 1 \in Nat /\ ~(n <= n - 1) /\ s + (n - 1) \in Nat /\ (s + (n - 1)) + 1 = s + n
    BY <2>1, <2>2
  <2>4. n - 1 \notin Bad
    <3> HIDE DEF Bad
    <3> QED BY <2>1, <2>3
  <2>5. Executed(s + n) = Executed(s + (n - 1)) + (IF s + (n - 1) \in Asleep THEN 0 ELSE 1)
    BY <2>3, ExecutedNext
  <2>6. Executed(s) \in Nat /\ Executed(s + n) \in Nat /\ Executed(s + (n - 1)) \in Nat /\ n \in Nat
    BY <1>0, <2>1, <2>3
  <2>7. Executed(s) <= Executed(s + (n - 1)) /\ Executed(s + (n - 1)) <= Executed(s) + (n - 1)
    BY <2>3, <2>4
  <2>8. Executed(s) <= Executed(s + n) /\ Executed(s + n) <= Executed(s) + n
    BY <2>5, <2>6, <2>7
  <2> QED BY <2>1, <2>8
<1>2. t - s \in Nat /\ s + (t - s) = t
  OBVIOUS
<1>3. t - s \notin Bad
  <2> HIDE DEF Bad
  <2> QED BY <1>1
<1> QED
  BY <1>0, <1>2, <1>3

\* One log begins with another.
LEMMA PrefixIs ==
  ASSUME NEW s \in Seq(Entry), NEW t \in Seq(Entry)
  PROVE  IsPrefix(s, t) <=> Len(s) <= Len(t) /\ \A i \in 1..Len(s) : s[i] = t[i]
<1>1. Len(s) \in Nat /\ Len(t) \in Nat /\ \A i \in 1..Len(t) : t[i] \in Entry
  BY LenProperties, ElementOfSeq
<1>2. SubSeq(s, 1, Len(s)) = s
  BY SubSeqFull
<1>3. CASE Len(s) <= Len(t)
  <2>1. \A i \in 1..Len(s) : t[i] \in Entry
    BY <1>1, <1>3
  <2>2. /\ SubSeq(t, 1, Len(s)) \in Seq(Entry)
        /\ Len(SubSeq(t, 1, Len(s))) = Len(s)
        /\ \A i \in 1..Len(s) : SubSeq(t, 1, Len(s))[i] = t[i]
    <3>1. /\ SubSeq(t, 1, Len(s)) \in Seq(Entry)
          /\ Len(SubSeq(t, 1, Len(s))) = IF 1 <= Len(s) THEN Len(s) - 1 + 1 ELSE 0
          /\ \A i \in 1..Len(s) - 1 + 1 : SubSeq(t, 1, Len(s))[i] = t[1 + i - 1]
      <4>1. 1 \in Int /\ Len(s) \in Int
        BY <1>1
      <4> QED BY <2>1, <4>1, SubSeqProperties
    <3> QED BY <1>1, <3>1
  <2> HIDE DEF Entry
  <2> QED BY <1>2, <1>3, <2>2, SeqEqual DEF IsPrefix
<1> QED
  BY <1>3 DEF IsPrefix

LEMMA PrefixItself ==
  ASSUME NEW s \in Seq(Entry)
  PROVE  IsPrefix(s, s)
BY PrefixIs, LenProperties

LEMMA PrefixOfPrefix ==
  ASSUME NEW s \in Seq(Entry), NEW t \in Seq(Entry), NEW u \in Seq(Entry), IsPrefix(s, t), IsPrefix(t, u)
  PROVE  IsPrefix(s, u)
<1>1. Len(s) \in Nat /\ Len(t) \in Nat /\ Len(u) \in Nat
  BY LenProperties
<1>2. Len(s) <= Len(t) /\ \A i \in 1..Len(s) : s[i] = t[i]
  BY PrefixIs
<1>3. Len(t) <= Len(u) /\ \A i \in 1..Len(t) : t[i] = u[i]
  BY PrefixIs
<1>4. Len(s) <= Len(u) /\ \A i \in 1..Len(s) : s[i] = u[i]
  BY <1>1, <1>2, <1>3
<1> QED
  BY <1>4, PrefixIs
LEMMA MachineIs ==
  ASSUME NEW m \in Machine
  PROVE  /\ m.frame \in Nat /\ m.slot \in 0..Slots - 1 /\ m.slot \in Nat /\ m.slot < Slots
         /\ m.buttons \in Masks /\ m.buttons \in Entry
         /\ m.log \in Seq(Entry) /\ Len(m.log) \in Nat
         /\ m = [frame |-> m.frame, slot |-> m.slot, buttons |-> m.buttons, log |-> m.log]
<1>1. /\ m.frame \in Nat /\ m.slot \in 0..Slots - 1 /\ m.buttons \in Masks /\ m.log \in Seq(Entry)
      /\ m = [frame |-> m.frame, slot |-> m.slot, buttons |-> m.buttons, log |-> m.log]
  BY DEF Machine, Entry
<1>2. Len(m.log) \in Nat
  BY <1>1, LenProperties
<1>3. m.slot \in Nat /\ m.slot < Slots
  BY <1>1, SessionAssumption
<1> QED
  BY <1>1, <1>2, <1>3 DEF Entry

\* A log goes on.
LEMMA LogGoesOn ==
  ASSUME NEW s \in Seq(Entry), NEW t \in Seq(Entry)
  PROVE  s \o t \in Seq(Entry) /\ IsPrefix(s, s \o t)
<1>1. /\ s \o t \in Seq(Entry) /\ Len(s \o t) = Len(s) + Len(t)
      /\ \A i \in 1..Len(s) + Len(t) : (s \o t)[i] = IF i <= Len(s) THEN s[i] ELSE t[i - Len(s)]
  BY ConcatProperties
<1>2. Len(s) \in Nat /\ Len(t) \in Nat
  BY LenProperties
<1>3. Len(s) <= Len(s \o t) /\ \A i \in 1..Len(s) : s[i] = (s \o t)[i]
  BY <1>1, <1>2
<1> QED
  BY <1>1, <1>3, PrefixIs

\* Pressing buttons changes nothing else but that it may be logged.
LEMMA SetButtonsOK ==
  ASSUME NEW m \in Machine, NEW mask \in Masks
  PROVE  LET n == SetButtons(m, mask)
         IN  /\ n \in Machine
             /\ n.frame = m.frame /\ n.slot = m.slot /\ n.buttons = mask
             /\ IsPrefix(m.log, n.log)
<1> DEFINE log == IF KeypadIrq /\ mask # 0 THEN Append(m.log, KeypadRequest) ELSE m.log
           n == SetButtons(m, mask)
<1>1. m.log \in Seq(Entry) /\ KeypadRequest \in Entry
  BY MachineIs DEF Entry
<1>2. log \in Seq(Entry) /\ IsPrefix(m.log, log)
  <2>1. CASE KeypadIrq /\ mask # 0
    <3>1. Append(m.log, KeypadRequest) = m.log \o <<KeypadRequest>> /\ <<KeypadRequest>> \in Seq(Entry)
      BY <1>1, AppendIsConcat
    <3>2. /\ m.log \o <<KeypadRequest>> \in Seq(Entry)
          /\ IsPrefix(m.log, m.log \o <<KeypadRequest>>)
      BY <1>1, <3>1, LogGoesOn
    <3> QED BY <2>1, <3>1, <3>2
  <2>2. CASE ~(KeypadIrq /\ mask # 0)
    BY <1>1, <2>2, PrefixItself
  <2> QED BY <2>1, <2>2
<1>3. n = [frame |-> m.frame, slot |-> m.slot, buttons |-> mask, log |-> log]
  <2>1. m = [frame |-> m.frame, slot |-> m.slot, buttons |-> m.buttons, log |-> m.log]
    BY MachineIs
  <2>2. n = [m EXCEPT !.buttons = mask, !.log = log]
    BY <2>1 DEF SetButtons
  <2> HIDE DEF log, n
  <2> QED BY <2>1, <2>2
<1> HIDE DEF n, log
<1>4. n \in Machine
  BY <1>2, <1>3, MachineIs DEF Machine, Entry
<1> QED
  BY <1>2, <1>3, <1>4 DEF n

\* Running adds the buttons of each instruction to the log; the frame ends at its last poll.
LEMMA RunToOK ==
  ASSUME NEW m \in Machine, NEW slot \in m.slot..Slots
  PROVE  LET n == RunTo(m, slot)
         IN  /\ n \in Machine
             /\ n.frame = (IF slot = Slots THEN m.frame + 1 ELSE m.frame)
             /\ n.slot = (IF slot = Slots THEN 0 ELSE slot)
             /\ n.buttons = m.buttons
             /\ IsPrefix(m.log, n.log)
<1> DEFINE count == Executed(slot) - Executed(m.slot)
           ran == [i \in 1..count |-> m.buttons]
           log == m.log \o ran
           frame == IF slot = Slots THEN m.frame + 1 ELSE m.frame
           n == RunTo(m, slot)
<1>0. /\ m.slot \in Nat /\ m.slot < Slots /\ Slots \in Nat \ {0} /\ slot \in Nat /\ m.slot <= slot
      /\ m.buttons \in Entry /\ m.log \in Seq(Entry) /\ m.frame \in Nat /\ slot <= Slots
  BY MachineIs, SessionAssumption
<1>1. count \in Nat
  <2>1. /\ Executed(m.slot) \in Nat /\ Executed(slot) \in Nat /\ Executed(m.slot) <= Executed(slot)
    BY <1>0, ExecutedGrows
  <2> QED BY <2>1
<1>2. ran \in Seq(Entry)
  <2>1. ran \in [1..count -> Entry]
    BY <1>0
  <2> HIDE DEF ran, count
  <2> QED BY <1>1, <2>1, SeqDef
<1>3. log \in Seq(Entry) /\ IsPrefix(m.log, log)
  <2> HIDE DEF ran
  <2> QED BY <1>0, <1>2, LogGoesOn
<1>4. slot % Slots = (IF slot = Slots THEN 0 ELSE slot)
  BY <1>0
<1>5. n = [frame |-> frame, slot |-> (IF slot = Slots THEN 0 ELSE slot), buttons |-> m.buttons, log |-> log]
  <2>1. m = [frame |-> m.frame, slot |-> m.slot, buttons |-> m.buttons, log |-> m.log]
    BY MachineIs
  <2>2. n = [m EXCEPT !.log = log, !.slot = slot % Slots, !.frame = frame]
    BY DEF RunTo
  <2> HIDE DEF log, frame, n
  <2> QED BY <1>4, <2>1, <2>2
<1>6. frame \in Nat /\ (IF slot = Slots THEN 0 ELSE slot) \in 0..Slots - 1
  BY <1>0
<1> HIDE DEF n, log
<1>7. n \in Machine
  <2> HIDE DEF frame
  <2> QED BY <1>3, <1>5, <1>6, MachineIs DEF Machine, Entry
<1> QED
  BY <1>3, <1>5, <1>7 DEF n
\* A snapshot is one of the history's, and restores the machine it was made of.
LEMMA SnapshotOK ==
  ASSUME NEW m \in Machine
  PROVE  Snapshot(m) \in HP!Snapshots /\ Restored(Snapshot(m)) = m
<1> DEFINE n == Len(m.log)
           L == {<<i, m.log[i]>> : i \in DOMAIN m.log}
           f == [i \in 1..n |-> <<i, m.log[i]>>]
           snap == Snapshot(m)
           cell(k) == (CHOOSE c \in snap : c[1] = k)[2]
<1>0. /\ n \in Nat /\ DOMAIN m.log = 1..n
      /\ \A i \in 1..n : m.log[i] \in Entry
      /\ m.frame \in Nat /\ m.slot \in Nat /\ m.buttons \in Masks
  BY MachineIs, LenProperties, ElementOfSeq
<1>1. IsFiniteSet(L) /\ Cardinality(L) = n
  <2>1. IsFiniteSet(1..n) /\ Cardinality(1..n) = n
    <3>1. 1 \in Int /\ n \in Int
      BY <1>0
    <3>2. IsFiniteSet(1..n) /\ Cardinality(1..n) = IF 1 > n THEN 0 ELSE n - 1 + 1
      BY <3>1, FS_Interval
    <3> QED BY <1>0, <3>2
  <2>2. f \in [1..n -> L] /\ (\A i, j \in 1..n : f[i] = f[j] => i = j)
        /\ (\A t \in L : \E i \in 1..n : f[i] = t)
    BY <1>0
  <2>3. f \in Surjection(1..n, L) /\ f \in Injection(1..n, L)
    <3> HIDE DEF f, L
    <3> QED BY <2>2 DEF Surjection, Injection, IsInjective
  <2> HIDE DEF f, L
  <2> QED BY <2>1, <2>3, FS_Surjection
<1>2. snap = ((L \cup {<<-1, m.frame>>}) \cup {<<-2, m.slot>>}) \cup {<<-3, m.buttons>>}
  BY DEF Snapshot
<1>3. /\ <<-1, m.frame>> \notin L
      /\ <<-2, m.slot>> \notin L \cup {<<-1, m.frame>>}
      /\ <<-3, m.buttons>> \notin (L \cup {<<-1, m.frame>>}) \cup {<<-2, m.slot>>}
  BY <1>0
<1>4. IsFiniteSet(snap) /\ Cardinality(snap) = n + 3
  <2> DEFINE A == L \cup {<<-1, m.frame>>}
             B == A \cup {<<-2, m.slot>>}
  <2>1. IsFiniteSet(A) /\ Cardinality(A) = n + 1
    <3> HIDE DEF L
    <3> QED BY <1>1, <1>3, FS_AddElement
  <2>2. IsFiniteSet(B) /\ Cardinality(B) = (n + 1) + 1
    <3> HIDE DEF A
    <3> QED BY <1>3, <2>1, FS_AddElement DEF A
  <2>3. IsFiniteSet(B \cup {<<-3, m.buttons>>}) /\ Cardinality(B \cup {<<-3, m.buttons>>}) = ((n + 1) + 1) + 1
    <3> HIDE DEF B
    <3> QED BY <1>3, <2>2, FS_AddElement DEF B
  <2>4. ((n + 1) + 1) + 1 = n + 3
    BY <1>0
  <2> HIDE DEF snap
  <2> QED BY <1>2, <2>3, <2>4
<1>5. snap \in HP!Snapshots
  <2>1. m.buttons \in Int /\ \A i \in 1..n : m.log[i] \in Int
    <3>1. \A e \in Masks : e \in Int
      BY SessionAssumption
    <3>2. \A e \in Entry : e \in Int
      BY <3>1 DEF Entry, KeypadRequest, UserWrite
    <3> QED BY <1>0, <3>1, <3>2
  <2>2. L \in SUBSET (Int \X Int)
    BY <1>0, <2>1
  <2>3. <<-1, m.frame>> \in Int \X Int /\ <<-2, m.slot>> \in Int \X Int /\ <<-3, m.buttons>> \in Int \X Int
    BY <1>0, <2>1
  <2>4. snap \in SUBSET (Int \X Int)
    <3> HIDE DEF L, snap
    <3> QED BY <1>2, <2>2, <2>3
  <2>5. HP!IsFiniteSet(snap)
    BY <1>4 DEF IsFiniteSet, HP!IsFiniteSet
  <2> HIDE DEF snap
  <2> QED BY <2>4, <2>5 DEF HP!Snapshots, Cells
<1>6. cell(-1) = m.frame /\ cell(-2) = m.slot /\ cell(-3) = m.buttons
      /\ \A i \in 1..n : cell(i) = m.log[i]
  <2>0. /\ \A c \in snap : c[1] = -1 => c[2] = m.frame
        /\ \A c \in snap : c[1] = -2 => c[2] = m.slot
        /\ \A c \in snap : c[1] = -3 => c[2] = m.buttons
        /\ \A i \in 1..n : \A c \in snap : c[1] = i => c[2] = m.log[i]
    BY <1>0, <1>2
  <2>1. /\ <<-1, m.frame>> \in snap /\ <<-2, m.slot>> \in snap /\ <<-3, m.buttons>> \in snap
        /\ \A i \in 1..n : <<i, m.log[i]>> \in snap
    BY <1>0, <1>2
  <2> HIDE DEF snap
  <2> QED BY <2>0, <2>1, ZenonT(40)
<1>7. Restored(snap) = [frame |-> cell(-1), slot |-> cell(-2), buttons |-> cell(-3),
                        log |-> [i \in 1..Cardinality(snap) - 3 |-> cell(i)]]
  <2> HIDE DEF snap
  <2> QED BY DEF Restored
<1>8. [i \in 1..Cardinality(snap) - 3 |-> cell(i)] = m.log
  <2>1. 1..Cardinality(snap) - 3 = 1..n
    BY <1>0, <1>4
  <2>2. m.log = [i \in 1..n |-> m.log[i]]
    BY <1>0, MachineIs, LenProperties
  <2> HIDE DEF snap, cell
  <2> QED BY <1>6, <2>1, <2>2
<1>9. m = [frame |-> m.frame, slot |-> m.slot, buttons |-> m.buttons, log |-> m.log]
  BY MachineIs
<1> HIDE DEF snap, cell
<1> QED
  BY <1>5, <1>6, <1>7, <1>8, <1>9 DEF snap
-----------------------------------------------------------------------------
(* The history of a session, by the starts it holds                        *)

Starts(h) == HP!Starts(h)

\* A history that nothing of is later than `frame`.
GoodHistory(h, frame) ==
  /\ HP!Hist(h)
  /\ h.keyframes # <<>>
  /\ h.inputs # <<>> => h.inputBase <= frame
  /\ \A p \in Starts(h) : p[1] <= frame

\* Each frame has one start.
LEMMA StartsAre ==
  ASSUME NEW h, HP!Hist(h)
  PROVE  /\ \A i \in 1..Len(h.keyframes) : <<h.keyframes[i].frame, HP!Decoded(h.keyframes)[i]>> \in Starts(h)
         /\ \A p \in Starts(h) : p[1] \in Nat
         /\ \A p \in Starts(h) : \E i \in 1..Len(h.keyframes) :
              p = <<h.keyframes[i].frame, HP!Decoded(h.keyframes)[i]>>
         /\ \A p, q \in Starts(h) : p[1] = q[1] => p = q
<1>1. HP!Chain(h.keyframes)
  BY DEF HP!Hist
<1>2. /\ Len(h.keyframes) \in Nat
      /\ \A i \in 1..Len(h.keyframes) : h.keyframes[i].frame \in Nat
  BY <1>1, HistoryConstants, HP!ChainType
<1>3. \A i, j \in 1..Len(h.keyframes) : i < j => h.keyframes[i].frame < h.keyframes[j].frame
  BY <1>1 DEF HP!Chain
<1>4. \A p \in Starts(h) : \E i \in 1..Len(h.keyframes) :
        p = <<h.keyframes[i].frame, HP!Decoded(h.keyframes)[i]>>
  BY DEF Starts, HP!Starts
<1>5. \A i \in 1..Len(h.keyframes) : <<h.keyframes[i].frame, HP!Decoded(h.keyframes)[i]>> \in Starts(h)
  BY DEF Starts, HP!Starts
<1>6. ASSUME NEW p \in Starts(h), NEW q \in Starts(h), p[1] = q[1]
      PROVE  p = q
  <2>1. PICK i \in 1..Len(h.keyframes) : p = <<h.keyframes[i].frame, HP!Decoded(h.keyframes)[i]>>
    BY <1>4
  <2>2. PICK j \in 1..Len(h.keyframes) : q = <<h.keyframes[j].frame, HP!Decoded(h.keyframes)[j]>>
    BY <1>4
  <2>3. h.keyframes[i].frame = h.keyframes[j].frame
    BY <1>6, <2>1, <2>2
  <2>4. ~(i < j) /\ ~(j < i)
    BY <1>2, <1>3, <2>3
  <2>5. i = j
    BY <1>2, <2>4
  <2> QED BY <2>1, <2>2, <2>5
<1>7. \A p \in Starts(h) : p[1] \in Nat
  BY <1>2, <1>4
<1> QED
  BY <1>4, <1>5, <1>6, <1>7

\* The earliest start.
LEMMA EarliestIs ==
  ASSUME NEW h, HP!Hist(h), h.keyframes # <<>>
  PROVE  /\ H!EarliestFrame(h) \in Nat
         /\ <<H!EarliestFrame(h), H!Decoded(h.keyframes)[1]>> \in Starts(h)
         /\ \A p \in Starts(h) : p[1] >= H!EarliestFrame(h)
<1>1. H!EarliestFrame(h) = HP!EarliestFrame(h) /\ H!Decoded(h.keyframes) = HP!Decoded(h.keyframes)
  BY SameEarliest, SameDecoded
<1>2. /\ HP!EarliestFrame(h) \in Nat
      /\ HP!Starts(h) = HP!From(HP!Starts(h), HP!EarliestFrame(h))
  BY HistoryConstants, HP!EarliestIsFirst
<1>3. 1 \in 1..Len(h.keyframes)
  <2>1. h.keyframes \in Seq(HP!Keyframe)
    BY DEF HP!Hist, HP!Chain
  <2> QED BY <2>1, EmptySeq
<1>4. HP!EarliestFrame(h) = h.keyframes[1].frame
  BY DEF HP!EarliestFrame
<1> QED
  BY <1>1, <1>2, <1>3, <1>4, StartsAre DEF Starts, HP!From

\* The input of a frame is a mask, and logging one leaves the starts alone.
LEMMA InputsAre ==
  ASSUME NEW h, HP!Hist(h), NEW frame \in Int
  PROVE  H!InputAt(h, frame) \in Masks
<1>1. h.inputs \in Seq(Masks) /\ h.inputBase \in Nat /\ 0 \in Masks
  BY SessionAssumption DEF HP!Hist
<1> QED
  BY <1>1, ElementOfSeq DEF H!InputAt

LEMMA RecordedOK ==
  ASSUME NEW h, NEW frame \in Nat, GoodHistory(h, frame), NEW mask \in Masks
  PROVE  LET r == H!RecordInput(h, frame, mask)
         IN  /\ GoodHistory(r, frame)
             /\ Starts(r) = Starts(h)
             /\ H!EarliestFrame(r) = H!EarliestFrame(h)
<1> DEFINE r == H!RecordInput(h, frame, mask)
<1>1. r = HP!RecordInput(h, frame, mask)
  BY SameRecordInput
<1>2. HP!Hist(r) /\ r.keyframes = h.keyframes /\ r.inputBase <= frame
  <2> HIDE DEF r
  <2> QED BY <1>1, HistoryConstants, HP!RecordInputCorrect DEF GoodHistory
<1> HIDE DEF r
<1>3. Starts(r) = Starts(h) /\ H!EarliestFrame(r) = H!EarliestFrame(h)
  BY <1>2 DEF Starts, HP!Starts, H!EarliestFrame
<1> QED
  BY <1>2, <1>3 DEF GoodHistory, r

\* A keyframe pushed replaces what is at or after its frame; the budget may forget the
\* oldest.
LEMMA PushedOK ==
  ASSUME NEW h, HP!Hist(h), NEW frame \in Nat, NEW snap \in HP!Snapshots,
         h.inputs # <<>> => h.inputBase <= frame
  PROVE  LET p == H!Push(h, frame, snap)
         IN  /\ GoodHistory(p, frame)
             /\ <<frame, snap>> \in Starts(p)
             /\ \A q \in Starts(p) : q = <<frame, snap>> \/ (q \in Starts(h) /\ q[1] < frame)
<1> DEFINE p == H!Push(h, frame, snap)
           floor == HP!EarliestFrame(p)
           stored == HP!Stored(HP!Starts(h), frame, snap)
<1>1. p = HP!Push(h, frame, snap)
  BY SamePush
<1>2. /\ HP!Hist(p) /\ p.keyframes # <<>> /\ floor \in {q[1] : q \in stored}
      /\ HP!Starts(p) = HP!From(stored, floor)
      /\ p.inputs # <<>> => p.inputBase <= frame
  <2> HIDE DEF p
  <2> QED BY SMTT(60), <1>1, HistoryConstants, HP!PushCorrect
<1> HIDE DEF p
<1>3. \A q \in stored : q = <<frame, snap>> \/ (q \in Starts(h) /\ q[1] < frame)
  BY DEF HP!Stored, Starts
<1>4. \A q \in Starts(h) : q[1] \in Nat
  BY StartsAre
<1>5. \A q \in stored : q[1] \in Nat /\ q[1] <= frame
  BY <1>3, <1>4
<1>6. <<frame, snap>> \in stored
  BY DEF HP!Stored
<1>7. floor <= frame
  BY <1>2, <1>5
<1> HIDE DEF stored, floor
<1>8. <<frame, snap>> \in HP!Starts(p) /\ \A q \in HP!Starts(p) : q \in stored
  BY <1>2, <1>6, <1>7 DEF HP!From
<1> QED
  BY <1>2, <1>3, <1>5, <1>8 DEF GoodHistory, Starts, p

\* A history cut back keeps what is not later than `frame`.
LEMMA TruncatedOK ==
  ASSUME NEW h, HP!Hist(h), h.keyframes # <<>>, NEW frame \in Nat, H!EarliestFrame(h) <= frame
  PROVE  LET t == H!TruncateAfter(h, frame)
         IN  /\ GoodHistory(t, frame)
             /\ Starts(t) = {p \in Starts(h) : p[1] <= frame}
             /\ H!EarliestFrame(t) = H!EarliestFrame(h)
<1> DEFINE t == H!TruncateAfter(h, frame)
<1>1. t = HP!TruncateAfter(h, frame) /\ H!EarliestFrame(h) = HP!EarliestFrame(h)
      /\ H!EarliestFrame(t) = HP!EarliestFrame(t)
  BY SameTruncateAfter, SameEarliest
<1> HIDE DEF t
<1>2. /\ HP!Hist(t) /\ HP!Starts(t) = HP!UpTo(HP!Starts(h), frame)
      /\ t.inputs # <<>> => t.inputBase <= frame
  BY <1>1, HistoryConstants, HP!TruncateAfterCorrect
<1>3. t.keyframes # <<>> /\ HP!EarliestFrame(t) = HP!EarliestFrame(h)
  BY <1>1, HistoryConstants, HP!TruncatedReaches
<1> QED
  BY <1>1, <1>2, <1>3 DEF GoodHistory, Starts, HP!UpTo, t

\* The keyframe a replay begins from is the last that is not later.
LEMMA KeyframeIs ==
  ASSUME NEW h, HP!Hist(h), h.keyframes # <<>>, NEW frame \in Nat, H!EarliestFrame(h) <= frame
  PROVE  LET key == H!KeyframeAtOrBefore(h, frame)
         IN  /\ <<key.frame, key.snapshot>> \in Starts(h)
             /\ key.frame \in Nat /\ key.frame <= frame
             /\ \A p \in Starts(h) : p[1] <= frame => p[1] <= key.frame
<1> DEFINE ks == h.keyframes
           k == HP!Kept(ks, frame)
           key == H!KeyframeAtOrBefore(h, frame)
<1>1. HP!Chain(ks)
  BY DEF HP!Hist
<1>2. k \in 0..Len(ks) /\ \A i \in 1..Len(ks) : i <= k <=> ks[i].frame <= frame
  BY SMTT(60), <1>1, HistoryConstants, HP!KeptCorrect
<1>3. /\ Len(ks) \in Nat
      /\ \A i \in 1..Len(ks) : ks[i].frame \in Nat
  BY <1>1, HistoryConstants, HP!ChainType
<1>4. \A i, j \in 1..Len(ks) : i < j => ks[i].frame < ks[j].frame
  BY <1>1 DEF HP!Chain
<1>5. 1 \in 1..Len(ks)
  <2>1. ks \in Seq(HP!Keyframe)
    BY <1>1 DEF HP!Chain
  <2> QED BY <2>1, EmptySeq
<1>6. k \in 1..Len(ks)
  <2>1. ks[1].frame <= frame
    BY DEF H!EarliestFrame
  <2> QED BY <1>2, <1>3, <1>5, <2>1
<1>7. key = [frame |-> ks[k].frame, snapshot |-> HP!Decoded(ks)[k]]
  BY SameKeyframe DEF HP!KeyframeAtOrBefore
<1> HIDE DEF k, key
<1>8. <<key.frame, key.snapshot>> \in Starts(h) /\ key.frame \in Nat /\ key.frame <= frame
  BY <1>2, <1>3, <1>6, <1>7, StartsAre
<1>9. ASSUME NEW p \in Starts(h), p[1] <= frame
      PROVE  p[1] <= key.frame
  <2>1. PICK i \in 1..Len(ks) : p = <<ks[i].frame, HP!Decoded(ks)[i]>>
    BY StartsAre
  <2>2. i <= k
    BY <1>2, <1>9, <2>1
  <2>3. i = k \/ i < k
    BY <1>6, <2>2
  <2>4. ks[i].frame <= ks[k].frame
    BY <1>3, <1>4, <1>6, <2>3
  <2> QED BY <1>7, <2>1, <2>4
<1> QED
  BY <1>8, <1>9 DEF key

\* A history begun with one keyframe.
LEMMA AnchoredOK ==
  ASSUME NEW frame \in Nat, NEW snap \in HP!Snapshots
  PROVE  LET p == H!Push(H!Empty, frame, snap)
         IN  /\ GoodHistory(p, frame)
             /\ Starts(p) = {<<frame, snap>>}
<1> DEFINE p == H!Push(H!Empty, frame, snap)
<1>1. HP!Hist(H!Empty) /\ HP!Starts(H!Empty) = {}
  BY SameEmpty, HistoryConstants, HP!EmptyCorrect
<1>2. H!Empty.inputs = <<>>
  BY DEF H!Empty
<1>3. /\ GoodHistory(p, frame) /\ <<frame, snap>> \in Starts(p)
      /\ \A q \in Starts(p) : q = <<frame, snap>> \/ (q \in Starts(H!Empty) /\ q[1] < frame)
  BY <1>1, <1>2, PushedOK
<1> HIDE DEF p
<1> QED
  BY <1>1, <1>3 DEF Starts, p
-----------------------------------------------------------------------------
(* Replaying *)

\* The machine at the start of each frame from a keyframe's on, with the frame's buttons.
Replays(at, first, last, start, h) ==
  at = [f \in first..last |->
          SetButtons(IF f = first THEN start ELSE RunTo(at[f - 1], Slots), H!InputAt(h, f))]

\* There are such machines.
LEMMA ReplayExists ==
  ASSUME NEW h, HP!Hist(h), NEW first \in Nat, NEW last \in Nat, NEW start \in Machine
  PROVE  \E at : Replays(at, first, last, start, h)
<1> DEFINE T == Machine \X Nat
           a == <<SetButtons(start, H!InputAt(h, first)), first>>
           G == [t \in T |-> <<SetButtons(RunTo(t[1], Slots), H!InputAt(h, t[2] + 1)), t[2] + 1>>]
<1>1. a \in T
  BY InputsAre, SetButtonsOK
<1>2. G \in [T -> T]
  <2>1. ASSUME NEW m \in Machine, NEW f \in Nat
        PROVE  SetButtons(RunTo(m, Slots), H!InputAt(h, f + 1)) \in Machine
    <3>1. Slots \in m.slot..Slots
      BY SMTT(40), MachineIs, SessionAssumption
    <3>2. RunTo(m, Slots) \in Machine
      BY <3>1, RunToOK
    <3>3. H!InputAt(h, f + 1) \in Masks
      BY InputsAre
    <3> QED BY <3>2, <3>3, SetButtonsOK
  <2> QED BY <2>1
<1>3. PICK g \in [Nat -> T] : g[0] = a /\ \A n \in Nat : g[n + 1] = G[g[n]]
  <2> HIDE DEF T, a, G
  <2> QED BY <1>1, <1>2, StepRecursion
<1>4. \A n \in Nat : g[n] \in T
  BY <1>3
<1> DEFINE Bad == {n \in Nat : g[n][2] # first + n}
<1>5. Bad = {}
  <2> SUFFICES ASSUME Bad # {} PROVE FALSE
    OBVIOUS
  <2>1. PICK n \in Bad : \A y \in Bad : n <= y
    <3>1. Bad \in SUBSET Nat
      OBVIOUS
    <3> HIDE DEF Bad
    <3> QED BY <3>1, LeastMember
  <2>2. n # 0
    BY <1>3, <2>1
  <2>3. n \in Nat /\ n - 1 \in Nat /\ ~(n <= n - 1) /\ (n - 1) + 1 = n
    BY <2>1, <2>2
  <2>4. g[n - 1][2] = first + (n - 1)
    BY <2>1, <2>3
  <2>5. g[n] = G[g[n - 1]] /\ g[n - 1] \in T
    BY <1>3, <1>4, <2>3
  <2>6. g[n][2] = g[n - 1][2] + 1
    BY <2>5
  <2>7. g[n][2] = first + n
    BY <2>3, <2>4, <2>6
  <2> QED BY <2>1, <2>7
<1>6. \A n \in Nat : g[n][2] = first + n
  <2> HIDE DEF T, G, a
  <2> QED BY <1>5
<1> DEFINE at == [f \in first..last |-> g[f - first][1]]
<1>7. ASSUME NEW f \in first..last
      PROVE  at[f] = SetButtons(IF f = first THEN start ELSE RunTo(at[f - 1], Slots), H!InputAt(h, f))
  <2>1. CASE f = first
    <3>1. f - first = 0
      BY <2>1
    <3>2. at[f] = g[0][1]
      BY <3>1
    <3> QED BY <1>3, <2>1, <3>2
  <2>2. CASE f # first
    <3> DEFINE n == (f - first) - 1
    <3>1. n \in Nat /\ n + 1 = f - first /\ first + n + 1 = f /\ f - 1 \in first..last /\ (f - 1) - first = n
      BY <2>2
    <3>2. at[f] = g[n + 1][1] /\ at[f - 1] = g[n][1]
      BY <3>1
    <3> HIDE DEF n, at
    <3>3. g[n + 1] = G[g[n]] /\ g[n] \in T /\ g[n][2] = first + n
      BY <1>3, <1>4, <1>6, <3>1
    <3>4. g[n + 1][1] = SetButtons(RunTo(g[n][1], Slots), H!InputAt(h, g[n][2] + 1))
      BY <3>3
    <3>5. g[n + 1][1] = SetButtons(RunTo(g[n][1], Slots), H!InputAt(h, f))
      BY <3>1, <3>3, <3>4
    <3> QED BY <2>2, <3>2, <3>5
  <2> QED BY <2>1, <2>2
<1>8. at = [f \in first..last |->
              SetButtons(IF f = first THEN start ELSE RunTo(at[f - 1], Slots), H!InputAt(h, f))]
  BY <1>7
<1> HIDE DEF at
<1> QED
  BY <1>8 DEF Replays

\* Each of them is a machine of its frame that goes on from the one replayed.
LEMMA ReplaysOK ==
  ASSUME NEW h, HP!Hist(h), NEW first \in Nat, NEW last \in Nat, NEW start \in Machine,
         start.frame = first, NEW at, Replays(at, first, last, start, h), NEW frame \in first..last
  PROVE  /\ at[frame] \in Machine
         /\ at[frame].frame = frame
         /\ at[frame].slot = IF frame = first THEN start.slot ELSE 0
         /\ IsPrefix(start.log, at[frame].log)
<1> DEFINE Is(f) == /\ at[f] \in Machine
                    /\ at[f].frame = f
                    /\ at[f].slot = IF f = first THEN start.slot ELSE 0
                    /\ IsPrefix(start.log, at[f].log)
           Bad == {f \in first..last : ~Is(f)}
<1>1. \A f \in first..last :
        at[f] = SetButtons(IF f = first THEN start ELSE RunTo(at[f - 1], Slots), H!InputAt(h, f))
  BY DEF Replays
<1>2. \A f \in first..last : H!InputAt(h, f) \in Masks
  BY InputsAre
<1>3. Is(first) \/ last < first
  <2> SUFFICES ASSUME ~(last < first) PROVE Is(first)
    OBVIOUS
  <2>1. first \in first..last
    OBVIOUS
  <2>2. at[first] = SetButtons(start, H!InputAt(h, first)) /\ H!InputAt(h, first) \in Masks
    BY <1>1, <1>2, <2>1
  <2> QED BY <2>2, SetButtonsOK
<1>4. ASSUME NEW f \in first..last, f # first, Is(f - 1)
      PROVE  Is(f)
  <2> DEFINE before == at[f - 1]
             ran == RunTo(before, Slots)
  <2>1. at[f] = SetButtons(ran, H!InputAt(h, f)) /\ H!InputAt(h, f) \in Masks
    BY <1>1, <1>2, <1>4
  <2>2. before \in Machine /\ before.frame = f - 1 /\ IsPrefix(start.log, before.log)
    BY <1>4
  <2> HIDE DEF before
  <2>3. Slots \in before.slot..Slots
    BY SMTT(40), <2>2, MachineIs, SessionAssumption
  <2>4. ran \in Machine /\ ran.frame = before.frame + 1 /\ ran.slot = 0 /\ IsPrefix(before.log, ran.log)
    BY <2>2, <2>3, RunToOK
  <2> HIDE DEF ran
  <2>5. /\ at[f] \in Machine /\ at[f].frame = ran.frame /\ at[f].slot = ran.slot
        /\ IsPrefix(ran.log, at[f].log)
    BY <2>1, <2>4, SetButtonsOK
  <2>6. IsPrefix(start.log, at[f].log)
    <3>1. start.log \in Seq(Entry) /\ before.log \in Seq(Entry) /\ ran.log \in Seq(Entry)
          /\ at[f].log \in Seq(Entry)
      BY <2>2, <2>4, <2>5, MachineIs
    <3>2. IsPrefix(start.log, ran.log)
      BY <2>2, <2>4, <3>1, PrefixOfPrefix
    <3> QED BY <2>5, <3>1, <3>2, PrefixOfPrefix
  <2>7. at[f].frame = f
    BY <2>2, <2>4, <2>5
  <2> QED BY <1>4, <2>4, <2>5, <2>6, <2>7
<1>5. Bad = {}
  <2> SUFFICES ASSUME Bad # {} PROVE FALSE
    OBVIOUS
  <2>1. PICK n \in Bad : \A y \in Bad : n <= y
    <3>1. Bad \in SUBSET Nat
      OBVIOUS
    <3> HIDE DEF Bad
    <3> QED BY <3>1, LeastMember
  <2>2. n \in first..last /\ ~Is(n)
    BY <2>1
  <2> HIDE DEF Is
  <2>3. n # first
    BY <1>3, <2>2
  <2>4. n - 1 \in first..last /\ ~(n <= n - 1)
    BY <2>2, <2>3
  <2>5. Is(n - 1)
    BY <2>1, <2>4
  <2> QED BY <1>4, <2>2, <2>3, <2>5
<1>6. Is(frame)
  <2> HIDE DEF Is
  <2> QED BY <1>5
<1> QED
  BY <1>6

\* The machine replayed to the start of a frame.
LEMMA ReplayedOK ==
  ASSUME NEW frame \in Nat, HP!Hist(history), history.keyframes # <<>>, Earliest <= frame,
         NEW key, key = H!KeyframeAtOrBefore(history, frame),
         NEW start \in Machine, start = Restored(key.snapshot), start.frame = key.frame
  PROVE  LET m == ReplayedFrame(frame)
         IN  /\ m \in Machine
             /\ m.frame = frame
             /\ m.slot = IF frame = key.frame THEN start.slot ELSE 0
             /\ IsPrefix(start.log, m.log)
<1>1. key.frame \in Nat /\ key.frame <= frame
  BY KeyframeIs DEF Earliest
<1> DEFINE at == CHOOSE at : Replays(at, key.frame, frame, start, history)
<1>2. ReplayedFrame(frame) = at[frame]
  BY Zenon DEF ReplayedFrame, Replays
<1>3. Replays(at, key.frame, frame, start, history)
  <2>1. \E any : Replays(any, key.frame, frame, start, history)
    BY <1>1, ReplayExists
  <2> QED BY <2>1, Zenon
<1> HIDE DEF at
<1>4. frame \in key.frame..frame
  BY <1>1
<1>5. /\ at[frame] \in Machine
      /\ at[frame].frame = frame
      /\ at[frame].slot = IF frame = key.frame THEN start.slot ELSE 0
      /\ IsPrefix(start.log, at[frame].log)
  BY <1>1, <1>3, <1>4, ReplaysOK
<1> QED
  BY <1>2, <1>5
-----------------------------------------------------------------------------
(* The starts are the machine's past                                       *)

\* Each start restores a machine that m went on from, and a later one goes on from an
\* earlier one; but for the first, a frame's start is before the frame's instructions.
Past(S, m) ==
  /\ \A p \in S : /\ Restored(p[2]) \in Machine
                  /\ Restored(p[2]).frame = p[1]
                  /\ IsPrefix(Restored(p[2]).log, m.log)
  /\ \A p, q \in S : p[1] <= q[1] => IsPrefix(Restored(p[2]).log, Restored(q[2]).log)
  /\ \A p, q \in S : q[1] < p[1] => Executed(Restored(p[2]).slot) = 0

\* The instructions counted are those since the frame's start.
Counts(S, m, n) ==
  /\ n \in Nat
  /\ \A p \in S : p[1] = m.frame => n = Executed(m.slot) - Executed(Restored(p[2]).slot)
  /\ (\A p \in S : p[1] # m.frame) => n = Executed(m.slot)

\* A machine the starts lead to, at a count of instructions in its frame.
SessionOK(h, m, n) ==
  /\ m \in Machine
  /\ m.frame <= MaxFrame
  /\ GoodHistory(h, m.frame)
  /\ Past(Starts(h), m)
  /\ Counts(Starts(h), m, n)

\* The past of a machine is that of one that goes on from it, or from what is kept of it.
LEMMA PastGoesOn ==
  ASSUME NEW S, NEW old \in Machine, Past(S, old), NEW m \in Machine,
         NEW T \in SUBSET S, \A p \in T : IsPrefix(Restored(p[2]).log, m.log)
  PROVE  Past(T, m)
BY DEF Past

LEMMA PastIsPrefix ==
  ASSUME NEW S, NEW old \in Machine, Past(S, old), NEW m \in Machine, IsPrefix(old.log, m.log)
  PROVE  Past(S, m)
<1>1. ASSUME NEW p \in S
      PROVE  IsPrefix(Restored(p[2]).log, m.log)
  <2>1. Restored(p[2]) \in Machine /\ IsPrefix(Restored(p[2]).log, old.log)
    BY DEF Past
  <2>2. /\ Restored(p[2]).log \in Seq(Entry) /\ old.log \in Seq(Entry) /\ m.log \in Seq(Entry)
    BY <2>1, MachineIs
  <2> QED BY <2>1, <2>2, PrefixOfPrefix
<1> QED
  BY <1>1 DEF Past

\* A start stored for the machine k after those it goes on from.
LEMMA PastStored ==
  ASSUME NEW S, \A p \in S : p[1] \in Nat, NEW old \in Machine, Past(S, old),
         NEW k \in Machine, NEW m \in Machine, IsPrefix(k.log, m.log),
         \A p \in S : p[1] < k.frame => IsPrefix(Restored(p[2]).log, k.log),
         (\E p \in S : p[1] < k.frame) => Executed(k.slot) = 0,
         NEW T, \A q \in T : q = <<k.frame, Snapshot(k)>> \/ (q \in S /\ q[1] < k.frame)
  PROVE  Past(T, m)
<1> DEFINE new == <<k.frame, Snapshot(k)>>
<1>1. Restored(new[2]) = k /\ new[1] = k.frame /\ k.frame \in Nat
  BY SnapshotOK, MachineIs
<1> HIDE DEF new
<1>2. \A q \in T : q = new \/ (q \in S /\ q[1] < k.frame /\ q[1] \in Nat)
  BY DEF new
<1>3. \A p \in S : /\ Restored(p[2]) \in Machine /\ Restored(p[2]).frame = p[1]
  BY DEF Past
<1>4. k.log \in Seq(Entry) /\ m.log \in Seq(Entry) /\ IsPrefix(k.log, k.log)
  BY MachineIs, PrefixItself
<1>5. ASSUME NEW q \in T
      PROVE  /\ Restored(q[2]) \in Machine /\ Restored(q[2]).frame = q[1]
             /\ IsPrefix(Restored(q[2]).log, k.log) /\ IsPrefix(Restored(q[2]).log, m.log)
  <2>1. CASE q = new
    BY <1>1, <1>4, <2>1
  <2>2. CASE q \in S /\ q[1] < k.frame
    <3>1. /\ Restored(q[2]) \in Machine /\ Restored(q[2]).frame = q[1]
          /\ IsPrefix(Restored(q[2]).log, k.log)
      BY <1>3, <2>2
    <3>2. Restored(q[2]).log \in Seq(Entry)
      BY <3>1, MachineIs
    <3> QED BY <1>4, <3>1, <3>2, PrefixOfPrefix
  <2> QED BY <1>2, <2>1, <2>2
<1>6. ASSUME NEW p \in T, NEW q \in T, p[1] <= q[1]
      PROVE  IsPrefix(Restored(p[2]).log, Restored(q[2]).log)
  <2>1. CASE q = new
    BY <1>1, <1>5, <2>1
  <2>2. CASE q # new
    <3>1. q \in S /\ q[1] < k.frame /\ q[1] \in Nat
      BY <1>2, <2>2
    <3>2. p # new
      BY <1>1, <1>6, <3>1
    <3>3. p \in S
      BY <1>2, <3>2
    <3> QED BY <1>6, <3>1, <3>3 DEF Past
  <2> QED BY <2>1, <2>2
<1>7. ASSUME NEW p \in T, NEW q \in T, q[1] < p[1]
      PROVE  Executed(Restored(p[2]).slot) = 0
  <2>1. p = new \/ (p \in S /\ p[1] < k.frame /\ p[1] \in Nat)
    BY <1>2
  <2>2. q # new
    BY <1>1, <1>7, <2>1
  <2>3. q \in S /\ q[1] < k.frame
    BY <1>2, <2>2
  <2>4. CASE p = new
    BY <1>1, <2>3, <2>4
  <2>5. CASE p \in S
    BY <1>7, <2>3, <2>5 DEF Past
  <2> QED BY <2>1, <2>4, <2>5
<1> QED
  BY <1>5, <1>6, <1>7 DEF Past
-----------------------------------------------------------------------------
(* What a command does to a session that is OK                             *)

\* History begun again from a machine.
LEMMA AnchorOK ==
  ASSUME NEW m \in Machine, m.frame <= MaxFrame
  PROVE  SessionOK(H!Push(H!Empty, m.frame, Snapshot(m)), m, 0)
<1> DEFINE h == H!Push(H!Empty, m.frame, Snapshot(m))
           new == <<m.frame, Snapshot(m)>>
<1>1. m.frame \in Nat /\ m.slot \in Nat /\ m.log \in Seq(Entry) /\ IsPrefix(m.log, m.log)
  BY MachineIs, PrefixItself
<1>2. Snapshot(m) \in HP!Snapshots /\ Restored(new[2]) = m /\ new[1] = m.frame
  BY SnapshotOK
<1>3. GoodHistory(h, m.frame) /\ Starts(h) = {new}
  BY <1>1, <1>2, AnchoredOK
<1> HIDE DEF h, new
<1>4. Executed(m.slot) \in Nat
  BY <1>1, ExecutedNext
<1>5. Past(Starts(h), m)
  BY <1>1, <1>2, <1>3 DEF Past
<1>6. Counts(Starts(h), m, 0)
  BY <1>2, <1>3, <1>4 DEF Counts
<1> QED
  BY <1>3, <1>5, <1>6 DEF SessionOK, h

\* Running on within a frame.
LEMMA RunOnOK ==
  ASSUME NEW h, NEW m, NEW n, SessionOK(h, m, n), NEW ran \in Machine,
         ran.frame = m.frame, m.slot <= ran.slot, IsPrefix(m.log, ran.log)
  PROVE  SessionOK(h, ran, n + Executed(ran.slot) - Executed(m.slot))
<1>1. m \in Machine /\ Past(Starts(h), m) /\ Counts(Starts(h), m, n) /\ HP!Hist(h)
  BY DEF SessionOK, GoodHistory
<1>2. Past(Starts(h), ran)
  BY <1>1, PastIsPrefix
<1>3. m.slot \in Nat /\ ran.slot \in Nat
  BY <1>1, MachineIs
<1>4. Executed(m.slot) \in Nat /\ Executed(ran.slot) \in Nat /\ Executed(m.slot) <= Executed(ran.slot)
  BY <1>3, ExecutedGrows
<1>5. \A p \in Starts(h) : Executed(Restored(p[2]).slot) \in Nat
  BY <1>1, MachineIs, ExecutedNext DEF Past
<1>6. Counts(Starts(h), ran, n + Executed(ran.slot) - Executed(m.slot))
  BY <1>1, <1>4, <1>5 DEF Counts
<1> QED
  BY <1>2, <1>6 DEF SessionOK

\* The frame completes: its input is logged, and the start of the next stored if one is due.
LEMMA FrameOverOK ==
  ASSUME NEW h, NEW m, NEW n, SessionOK(h, m, n), m.frame < MaxFrame, NEW mask \in Masks,
         NEW ran \in Machine, ran.frame = m.frame + 1, ran.slot = 0, IsPrefix(m.log, ran.log),
         NEW next \in Machine, next.frame = ran.frame, next.slot = 0, IsPrefix(ran.log, next.log)
  PROVE  SessionOK(PushIfDue(H!RecordInput(h, m.frame, mask), ran, 0), next, 0)
<1> DEFINE r == H!RecordInput(h, m.frame, mask)
           new == <<ran.frame, Snapshot(ran)>>
           p == H!Push(r, ran.frame, Snapshot(ran))
           S == Starts(h)
<1>1. m \in Machine /\ m.frame \in Nat /\ Past(S, m) /\ GoodHistory(h, m.frame) /\ MaxFrame \in Nat
  BY MachineIs, SessionAssumption DEF SessionOK
<1>2. GoodHistory(r, m.frame) /\ Starts(r) = S
  BY <1>1, RecordedOK
<1>3. GoodHistory(r, ran.frame)
  BY <1>1, <1>2, StartsAre DEF GoodHistory, HP!Hist
<1>4. \A q \in S : q[1] \in Nat /\ q[1] <= m.frame
  BY <1>1, StartsAre DEF GoodHistory
<1>5. Snapshot(ran) \in HP!Snapshots /\ Restored(Snapshot(ran)) = ran
  BY SnapshotOK
<1>6. Executed(0) = 0
  BY ExecutedNext
<1>7. IsPrefix(m.log, next.log)
  <2>1. m.log \in Seq(Entry) /\ ran.log \in Seq(Entry) /\ next.log \in Seq(Entry)
    BY <1>1, MachineIs
  <2> QED BY <2>1, PrefixOfPrefix
<1>8. SessionOK(r, next, 0)
  <2>1. Past(S, next)
    BY <1>1, <1>7, PastIsPrefix
  <2>2. \A q \in S : q[1] # next.frame
    BY <1>1, <1>4
  <2>3. Counts(S, next, 0)
    BY <1>6, <2>2 DEF Counts
  <2>4. next.frame <= MaxFrame
    BY <1>1
  <2> HIDE DEF r
  <2> QED BY <1>2, <1>3, <2>1, <2>3, <2>4 DEF SessionOK
<1>9. SessionOK(p, next, 0)
  <2>1. /\ GoodHistory(p, ran.frame)
        /\ \A q \in Starts(p) : q = new \/ (q \in S /\ q[1] < ran.frame)
    <3> HIDE DEF r
    <3>1. HP!Hist(r) /\ ran.frame \in Nat /\ (r.inputs # <<>> => r.inputBase <= ran.frame)
      BY <1>1, <1>3 DEF GoodHistory
    <3> QED BY <1>2, <1>5, <3>1, PushedOK
  <2> HIDE DEF p, r
  <2>2. Past(S, ran)
    BY <1>1, PastIsPrefix
  <2>3. Past(Starts(p), next)
    <3>1. \A q \in S : IsPrefix(Restored(q[2]).log, ran.log)
      BY <2>2 DEF Past
    <3> QED BY <1>4, <1>6, <2>1, <2>2, <3>1, PastStored
  <2>4. \A q \in Starts(p) : q[1] = ran.frame => Restored(q[2]) = ran
    BY <1>1, <1>4, <1>5, <2>1
  <2>5. Counts(Starts(p), next, 0)
    BY <1>6, <2>4 DEF Counts
  <2>6. next.frame <= MaxFrame
    BY <1>1
  <2> QED BY <2>1, <2>3, <2>5, <2>6 DEF SessionOK
<1> HIDE DEF r, p
<1> QED
  BY <1>8, <1>9 DEF PushIfDue, r, p

\* The machine was put back in a frame: what is later is forgotten, and a start stored
\* again if one is due.
LEMMA WentBackOK ==
  ASSUME NEW h, NEW m, NEW n, SessionOK(h, m, n),
         NEW to \in Machine, H!EarliestFrame(h) <= to.frame, to.frame <= m.frame,
         NEW key, key = H!KeyframeAtOrBefore(h, to.frame),
         IsPrefix(Restored(key.snapshot).log, to.log),
         NEW k \in Nat,
         k = Executed(to.slot)
               - (IF to.frame = key.frame THEN Executed(Restored(key.snapshot).slot) ELSE 0),
         NEW t, t = H!TruncateAfter(h, to.frame),
         NEW h2, h2 = t \/ (k = 0 /\ h2 = H!Push(t, to.frame, Snapshot(to)))
  PROVE  SessionOK(h2, to, k)
<1> DEFINE S == {p \in Starts(h) : p[1] <= to.frame}
           new == <<to.frame, Snapshot(to)>>
<1>1. /\ m \in Machine /\ Past(Starts(h), m) /\ HP!Hist(h) /\ h.keyframes # <<>>
      /\ m.frame <= MaxFrame /\ MaxFrame \in Nat /\ m.frame \in Nat /\ to.frame \in Nat
      /\ to.slot \in Nat
  BY MachineIs, SessionAssumption DEF SessionOK, GoodHistory
<1>2. GoodHistory(t, to.frame) /\ Starts(t) = S
  BY <1>1, TruncatedOK
<1>3. \A p \in Starts(h) : p[1] \in Nat
  BY <1>1, StartsAre
<1>4. /\ <<key.frame, key.snapshot>> \in Starts(h)
      /\ key.frame \in Nat /\ key.frame <= to.frame
      /\ \A p \in Starts(h) : p[1] <= to.frame => p[1] <= key.frame
  BY <1>1, KeyframeIs
<1> DEFINE first == <<key.frame, key.snapshot>>
<1>5. first[1] = key.frame /\ first[2] = key.snapshot /\ first \in S /\ Restored(first[2]) \in Machine
  BY <1>1, <1>4 DEF Past
<1> HIDE DEF first
<1>6. ASSUME NEW p \in S
      PROVE  IsPrefix(Restored(p[2]).log, to.log)
  <2>1. IsPrefix(Restored(p[2]).log, Restored(first[2]).log)
    BY <1>1, <1>4, <1>5 DEF Past
  <2>2. Restored(p[2]) \in Machine
    BY <1>1 DEF Past
  <2>3. /\ Restored(p[2]).log \in Seq(Entry) /\ Restored(first[2]).log \in Seq(Entry)
        /\ to.log \in Seq(Entry)
    BY <1>5, <2>2, MachineIs
  <2> QED BY <1>5, <2>1, <2>3, PrefixOfPrefix
<1>7. Past(S, to)
  <2>1. S \in SUBSET Starts(h)
    OBVIOUS
  <2> HIDE DEF S
  <2> QED BY <1>1, <1>6, <2>1, PastGoesOn
<1>8. \A p \in S : p[1] = to.frame => p = first /\ key.frame = to.frame
  <2>1. ASSUME NEW p \in S, p[1] = to.frame
        PROVE  p = first /\ key.frame = to.frame
    <3>1. key.frame = to.frame
      BY <1>1, <1>4, <2>1
    <3> QED BY <1>1, <1>5, <2>1, <3>1, StartsAre
  <2> QED BY <2>1
<1>9. to.frame <= MaxFrame
  BY <1>1
<1>10. Executed(to.slot) \in Nat /\ Executed(Restored(key.snapshot).slot) \in Nat
  BY <1>1, <1>5, MachineIs, ExecutedNext
<1>11. CASE h2 = t
  <2>1. Counts(S, to, k)
    <3>1. ASSUME NEW p \in S, p[1] = to.frame
          PROVE  k = Executed(to.slot) - Executed(Restored(p[2]).slot)
      BY <1>5, <1>8, <3>1
    <3>2. (\A p \in S : p[1] # to.frame) => key.frame # to.frame
      BY <1>5
    <3> HIDE DEF S
    <3> QED BY <1>10, <3>1, <3>2 DEF Counts
  <2> QED BY <1>2, <1>7, <1>9, <1>11, <2>1 DEF SessionOK
<1>12. CASE k = 0 /\ h2 = H!Push(t, to.frame, Snapshot(to))
  <2>1. Snapshot(to) \in HP!Snapshots /\ Restored(Snapshot(to)) = to
    BY SnapshotOK
  <2>2. /\ GoodHistory(h2, to.frame) /\ new \in Starts(h2)
        /\ \A q \in Starts(h2) : q = new \/ (q \in S /\ q[1] < to.frame)
    BY <1>1, <1>2, <1>12, <2>1, PushedOK DEF GoodHistory
  <2>3. (\E p \in S : p[1] < to.frame) => Executed(to.slot) = 0
    <3>1. SUFFICES ASSUME NEW p \in S, p[1] < to.frame PROVE Executed(to.slot) = 0
      OBVIOUS
    <3>2. CASE to.frame = key.frame
      <4>1. Executed(Restored(first[2]).slot) = 0
        BY <1>1, <1>5, <3>1, <3>2 DEF Past
      <4> QED BY <1>5, <1>10, <1>12, <3>2, <4>1
    <3>3. CASE to.frame # key.frame
      BY <1>10, <1>12, <3>3
    <3> QED BY <3>2, <3>3
  <2>4. Past(Starts(h2), to)
    <3>1. IsPrefix(to.log, to.log)
      BY MachineIs, PrefixItself
    <3>2. \A p \in S : p[1] \in Nat
      BY <1>3
    <3> HIDE DEF S
    <3> QED BY <1>1, <1>6, <1>7, <2>2, <2>3, <3>1, <3>2, PastStored
  <2>5. Counts(Starts(h2), to, k)
    <3>1. \A q \in Starts(h2) : q[1] = to.frame => Restored(q[2]) = to
      BY <1>1, <2>1, <2>2
    <3>2. new[1] = to.frame
      OBVIOUS
    <3> HIDE DEF new
    <3> QED BY <1>10, <1>12, <2>2, <3>1, <3>2 DEF Counts
  <2> QED BY <1>9, <2>2, <2>4, <2>5 DEF SessionOK
<1> QED
  BY <1>11, <1>12
-----------------------------------------------------------------------------
(* Going back *)

\* What the machine that begins a frame again is, when the session is OK.
Begun(frame, start) ==
  LET key == H!KeyframeAtOrBefore(history, frame)
  IN  /\ start \in Machine
      /\ start.frame = frame
      /\ IsPrefix(Restored(key.snapshot).log, start.log)
      /\ Restored(key.snapshot) \in Machine
      /\ start.slot = IF frame = key.frame THEN Restored(key.snapshot).slot ELSE 0

LEMMA BegunOK ==
  ASSUME SessionOK(history, machine, instrInFrame), NEW frame \in Nat, Earliest <= frame
  PROVE  Begun(frame, ReplayedFrame(frame))
<1> DEFINE key == H!KeyframeAtOrBefore(history, frame)
           first == <<key.frame, key.snapshot>>
           start == Restored(key.snapshot)
<1>1. HP!Hist(history) /\ history.keyframes # <<>> /\ Past(Starts(history), machine)
  BY DEF SessionOK, GoodHistory
<1>2. first \in Starts(history)
  BY <1>1, KeyframeIs DEF Earliest
<1>3. start \in Machine /\ start.frame = key.frame
  <2>1. first[1] = key.frame /\ first[2] = key.snapshot
    OBVIOUS
  <2> HIDE DEF first, key
  <2> QED BY <1>1, <1>2, <2>1 DEF Past
<1> HIDE DEF key
<1>4. LET m == ReplayedFrame(frame)
      IN  /\ m \in Machine
          /\ m.frame = frame
          /\ m.slot = IF frame = key.frame THEN start.slot ELSE 0
          /\ IsPrefix(start.log, m.log)
  <2>1. key = H!KeyframeAtOrBefore(history, frame)
    BY DEF key
  <2> QED BY <1>1, <1>3, <2>1, ReplayedOK
<1> QED
  BY <1>3, <1>4 DEF Begun, key

\* A replay stops where it was asked to.
ReplayStops(start, to) ==
  /\ to.machine \in Machine
  /\ to.machine.frame = start.frame
  /\ IsPrefix(start.log, to.machine.log)
  /\ to.instr \in Nat
  /\ to.instr = Executed(to.machine.slot) - Executed(start.slot)

LEMMA ReplayToOK ==
  ASSUME NEW frame, NEW start \in Machine, start = ReplayedFrame(frame),
         NEW instruction \in Nat, NEW cycle, NEW slot \in start.slot..Slots - 1,
         \/ cycle = None /\ Executed(slot) - Executed(start.slot) >= instruction
         \/ cycle = slot /\ Executed(slot) - Executed(start.slot) = instruction
  PROVE  ReplayStops(start, ReplayTo(frame, instruction, cycle))
<1> DEFINE polls == {s \in start.slot..Slots - 1 :
                       /\ Executed(s) - Executed(start.slot) >= instruction
                       /\ cycle = None \/ s >= cycle}
           to == ReplayTo(frame, instruction, cycle)
<1>1. /\ start.slot \in Nat /\ start.slot < Slots /\ Slots \in Nat /\ slot \in Nat /\ (cycle = slot => cycle # None)
      /\ start.log \in Seq(Entry)
  BY MachineIs, SessionAssumption
<1>2. \A s \in Nat : Executed(s) \in Nat
  BY ExecutedNext
<1>3. CASE instruction = 0 /\ cycle = None
  <2>1. to = [machine |-> start, instr |-> 0]
    BY <1>3 DEF ReplayTo
  <2>2. to.machine = start /\ to.instr = 0
    BY <2>1
  <2>3. IsPrefix(start.log, start.log)
    BY <1>1, PrefixItself
  <2>4. 0 = Executed(start.slot) - Executed(start.slot)
    BY SMTT(40), <1>1, <1>2
  <2> HIDE DEF to
  <2> QED BY <2>2, <2>3, <2>4 DEF ReplayStops, to
<1>4. CASE ~(instruction = 0 /\ cycle = None)
  <2>1. slot \in polls
    BY <1>1
  <2>2. polls \in SUBSET Nat
    BY <1>1
  <2> DEFINE s == Min(polls)
  <2>3. s \in polls /\ \A y \in polls : s <= y
    <3> HIDE DEF polls
    <3> QED BY <2>1, <2>2, MinInNat
  <2>4. to = [machine |-> RunTo(start, s), instr |-> instruction]
    BY <1>4, <2>1 DEF ReplayTo
  <2> HIDE DEF s
  <2>5. /\ s \in Nat /\ s \in start.slot..Slots /\ s # Slots /\ s \in start.slot..Slots - 1
        /\ Executed(s) - Executed(start.slot) >= instruction
        /\ s <= slot
    BY <1>1, <2>1, <2>3
  <2>6. Executed(s) - Executed(start.slot) = instruction
    <3>1. CASE cycle = slot
      <4>1. s >= slot
        BY <1>1, <2>3, <3>1
      <4>2. s = slot
        BY <1>1, <2>5, <4>1
      <4>3. Executed(slot) - Executed(start.slot) = instruction
        BY <1>1, <3>1
      <4> QED BY <4>2, <4>3
    <3>2. CASE cycle = None
      <4>1. instruction # 0
        BY <1>4, <3>2
      <4>2. s # start.slot
        BY SMTT(40), <1>1, <1>2, <2>5, <4>1
      <4>3. s - 1 \in Nat /\ s - 1 \in start.slot..Slots - 1 /\ ~(s <= s - 1) /\ (s - 1) + 1 = s
        BY <1>1, <2>5, <4>2
      <4>4. s - 1 \notin polls
        <5> HIDE DEF polls
        <5> QED BY <2>3, <4>3
      <4>5. ~(Executed(s - 1) - Executed(start.slot) >= instruction)
        BY <3>2, <4>3, <4>4
      <4>6. Executed(s) = Executed(s - 1) + (IF s - 1 \in Asleep THEN 0 ELSE 1)
        BY <4>3, ExecutedNext
      <4>7. Executed(s) \in Nat /\ Executed(s - 1) \in Nat /\ Executed(start.slot) \in Nat
        BY <1>1, <1>2, <2>5, <4>3
      <4> QED BY <2>5, <4>5, <4>6, <4>7
    <3> QED BY <3>1, <3>2
  <2>7. /\ RunTo(start, s) \in Machine /\ RunTo(start, s).frame = start.frame
        /\ RunTo(start, s).slot = s /\ IsPrefix(start.log, RunTo(start, s).log)
    BY <2>5, RunToOK
  <2>8. to.machine = RunTo(start, s) /\ to.instr = instruction
    BY <2>4
  <2> HIDE DEF to
  <2> QED BY <2>6, <2>7, <2>8 DEF ReplayStops, to
<1> QED
  BY <1>3, <1>4
LEMMA SnapshotDrives == \A m \in Machine : Snapshot(m) \in H!Snapshots
<1>1. H!Snapshots = HP!Snapshots
  BY DEF H!Snapshots, HP!Snapshots, H!IsFiniteSet, HP!IsFiniteSet
<1> QED
  BY <1>1, SnapshotOK

\* A rewind to a frame the history reaches leaves the session OK, and is one of the
\* history's steps.
LEMMA FinishRewindOK ==
  ASSUME SessionOK(history, machine, instrInFrame),
         NEW frame \in Nat, Earliest <= frame, frame <= machine.frame,
         NEW start, Begun(frame, start), NEW to, ReplayStops(start, to), FinishRewind(to)
  PROVE  SessionOK(history', machine', instrInFrame') /\ H!Next
<1> DEFINE m == to.machine
           k == to.instr
           key == H!KeyframeAtOrBefore(history, frame)
           t == H!TruncateAfter(history, frame)
           h2 == PushIfDue(t, m, k)
<1>1. /\ m \in Machine /\ m.frame = frame /\ k \in Nat
      /\ start \in Machine /\ IsPrefix(Restored(key.snapshot).log, start.log)
      /\ IsPrefix(start.log, m.log)
      /\ start.slot = IF frame = key.frame THEN Restored(key.snapshot).slot ELSE 0
      /\ k = Executed(m.slot) - Executed(start.slot)
      /\ Restored(key.snapshot) \in Machine
  BY DEF Begun, ReplayStops
<1>2. machine' = m /\ instrInFrame' = k /\ history' = h2
  BY <1>1 DEF FinishRewind
<1> HIDE DEF m, k, key
<1>3. IsPrefix(Restored(key.snapshot).log, m.log)
  <2>1. /\ Restored(key.snapshot).log \in Seq(Entry) /\ start.log \in Seq(Entry)
        /\ m.log \in Seq(Entry)
    BY <1>1, MachineIs
  <2> QED BY <1>1, <2>1, PrefixOfPrefix
<1>4. k = Executed(m.slot)
            - (IF frame = key.frame THEN Executed(Restored(key.snapshot).slot) ELSE 0)
  BY <1>1, ExecutedNext
<1>5. h2 = t \/ (k = 0 /\ h2 = H!Push(t, m.frame, Snapshot(m)))
  BY DEF PushIfDue
<1>6. H!EarliestFrame(history) <= m.frame /\ m.frame <= machine.frame
      /\ key = H!KeyframeAtOrBefore(history, m.frame) /\ t = H!TruncateAfter(history, m.frame)
  BY <1>1 DEF Earliest, key
<1> HIDE DEF h2, t
<1>7. SessionOK(h2, m, k)
  BY <1>1, <1>3, <1>4, <1>5, <1>6, WentBackOK
<1>8. \E f \in 0..MaxFrame, snap \in H!Snapshots, atStart \in BOOLEAN : H!GoBack(f, snap, atStart)
  <2>1. frame \in 0..MaxFrame
    <3>1. machine.frame \in Nat /\ machine.frame <= MaxFrame /\ MaxFrame \in Nat
      BY MachineIs, SessionAssumption DEF SessionOK
    <3> QED BY <3>1
  <2>2. Snapshot(m) \in H!Snapshots
    BY <1>1, SnapshotDrives
  <2>3. frame \in H!EarliestFrame(history)..machine.frame
    <3>1. H!EarliestFrame(history) \in Nat /\ machine.frame \in Nat
      BY EarliestIs, MachineIs DEF SessionOK, GoodHistory
    <3> QED BY <3>1 DEF Earliest
  <2>4. H!GoBack(frame, Snapshot(m), k = 0)
    BY <1>1, <1>2, <2>3 DEF H!GoBack, h2, t, PushIfDue
  <2> QED BY <2>1, <2>2, <2>4
<1> QED
  BY <1>2, <1>7, <1>8 DEF H!Next

\* The history begins where the machine has been.
LEMMA EarliestReached ==
  ASSUME SessionOK(history, machine, instrInFrame)
  PROVE  /\ Earliest \in Nat /\ machine.frame \in Nat /\ Earliest <= machine.frame
         /\ machine \in Machine /\ instrInFrame \in Nat /\ MaxFrame \in Nat /\ machine.frame <= MaxFrame
<1>1. HP!Hist(history) /\ history.keyframes # <<>> /\ machine \in Machine
      /\ \A p \in Starts(history) : p[1] <= machine.frame
  BY DEF SessionOK, GoodHistory
<1>2. /\ Earliest \in Nat
      /\ <<Earliest, H!Decoded(history.keyframes)[1]>> \in Starts(history)
  BY <1>1, EarliestIs DEF Earliest
<1> QED
  BY <1>1, <1>2, MachineIs, SessionAssumption DEF SessionOK, Counts

\* What the count of a session is worth when its frame begins again.
LEMMA CountIs ==
  ASSUME SessionOK(history, machine, instrInFrame), NEW start, Begun(machine.frame, start)
  PROVE  instrInFrame = Executed(machine.slot) - Executed(start.slot)
<1> DEFINE key == H!KeyframeAtOrBefore(history, machine.frame)
           first == <<key.frame, key.snapshot>>
<1>1. HP!Hist(history) /\ history.keyframes # <<>> /\ machine.frame \in Nat
      /\ H!EarliestFrame(history) <= machine.frame /\ Counts(Starts(history), machine, instrInFrame)
      /\ machine \in Machine /\ machine.slot \in Nat /\ \A p \in Starts(history) : p[1] <= machine.frame
  BY EarliestReached, MachineIs DEF SessionOK, GoodHistory, Earliest
<1>2. /\ first \in Starts(history)
      /\ key.frame \in Nat
      /\ \A p \in Starts(history) : p[1] <= machine.frame => p[1] <= key.frame
      /\ key.frame <= machine.frame
  BY <1>1, KeyframeIs
<1>3. start.slot = IF machine.frame = key.frame THEN Restored(key.snapshot).slot ELSE 0
  BY DEF Begun
<1>4. first[1] = key.frame /\ first[2] = key.snapshot
  OBVIOUS
<1> HIDE DEF first, key
<1>5. CASE machine.frame = key.frame
  BY <1>1, <1>2, <1>3, <1>4, <1>5 DEF Counts
<1>6. CASE machine.frame # key.frame
  <2>1. \A p \in Starts(history) : p[1] # machine.frame
    BY <1>1, <1>2, <1>6
  <2>2. Executed(0) = 0 /\ Executed(machine.slot) \in Nat
    BY <1>1, ExecutedNext
  <2> QED BY <1>1, <1>3, <1>6, <2>1, <2>2 DEF Counts
<1> QED
  BY <1>5, <1>6
LEMMA OfTwo ==
  ASSUME NEW a \in Int, NEW b \in Int
  PROVE  /\ Min({a, b}) = IF a <= b THEN a ELSE b
         /\ Max({a, b}) = IF a <= b THEN b ELSE a
BY DEF Min, Max

\* Replaying to a frame's start.
LEMMA RewindOK ==
  ASSUME SessionOK(history, machine, instrInFrame),
         NEW frame \in Nat, Earliest <= frame, frame <= machine.frame,
         FinishRewind(ReplayTo(frame, 0, None))
  PROVE  SessionOK(history', machine', instrInFrame') /\ H!Next
<1> DEFINE start == ReplayedFrame(frame)
           to == ReplayTo(frame, 0, None)
<1>1. Begun(frame, start)
  BY BegunOK
<1>2. start \in Machine
  BY <1>1 DEF Begun
<1>3. start.slot \in start.slot..Slots - 1 /\ Executed(start.slot) - Executed(start.slot) >= 0
  BY <1>2, MachineIs, ExecutedNext, SessionAssumption
<1>4. ReplayStops(start, to)
  BY <1>2, <1>3, ReplayToOK
<1> HIDE DEF start, to
<1> QED
  BY <1>1, <1>4, FinishRewindOK DEF to

LEMMA RewindToFrameOK ==
  ASSUME SessionOK(history, machine, instrInFrame), NEW frame \in 0..MaxFrame, RewindToFrame(frame)
  PROVE  SessionOK(history', machine', instrInFrame') /\ H!Next
<1> DEFINE target == Max({Earliest, Min({frame, machine.frame})})
<1>1. Earliest \in Nat /\ machine.frame \in Nat /\ Earliest <= machine.frame /\ frame \in Nat
  BY EarliestReached
<1>2. target \in Nat /\ Earliest <= target /\ target <= machine.frame
  <2>1. Min({frame, machine.frame}) \in Int /\ Min({frame, machine.frame}) <= machine.frame
    BY <1>1, OfTwo
  <2> DEFINE low == Min({frame, machine.frame})
  <2>2. low \in Int /\ low <= machine.frame
    BY <2>1
  <2> HIDE DEF low
  <2>3. Max({Earliest, low}) = IF Earliest <= low THEN low ELSE Earliest
    <3>1. Earliest \in Int
      BY <1>1
    <3> QED BY <2>2, <3>1, OfTwo
  <2>4. target = Max({Earliest, low})
    BY DEF low
  <2> HIDE DEF target
  <2> QED BY <1>1, <2>2, <2>3, <2>4
<1>3. FinishRewind(ReplayTo(target, 0, None))
  BY DEF RewindToFrame
<1> HIDE DEF target
<1> QED
  BY <1>2, <1>3, RewindOK

LEMMA ReverseToEarliestOK ==
  ASSUME SessionOK(history, machine, instrInFrame), ReverseContinueToEarliest
  PROVE  SessionOK(history', machine', instrInFrame') /\ H!Next
BY EarliestReached, RewindOK DEF ReverseContinueToEarliest

LEMMA ReverseToHitOK ==
  ASSUME SessionOK(history, machine, instrInFrame),
         NEW frame \in 0..MaxFrame, NEW slot \in 0..Slots - 1, NEW cycle \in {None, slot},
         ReverseContinueToHit(frame, slot, cycle)
  PROVE  SessionOK(history', machine', instrInFrame') /\ H!Next
<1> DEFINE start == ReplayedFrame(frame)
           count == Executed(slot) - Executed(start.slot)
           to == ReplayTo(frame, count, cycle)
<1>1. /\ frame \in Nat /\ Earliest <= frame /\ frame <= machine.frame
      /\ slot >= start.slot /\ FinishRewind(to)
  BY EarliestReached DEF ReverseContinueToHit
<1>2. Begun(frame, start)
  BY <1>1, BegunOK
<1>3. start \in Machine
  BY <1>2 DEF Begun
<1>4. slot \in start.slot..Slots - 1 /\ slot \in Nat /\ start.slot \in Nat /\ start.slot <= slot
  BY <1>1, <1>3, MachineIs, SessionAssumption
<1>5. count \in Nat /\ count >= count
  <2>1. Executed(slot) \in Nat /\ Executed(start.slot) \in Nat /\ Executed(start.slot) <= Executed(slot)
    BY <1>4, ExecutedGrows
  <2> QED BY <2>1
<1> HIDE DEF start
<1>6. ReplayStops(start, to)
  <2>1. start = ReplayedFrame(frame)
    BY DEF start
  <2>2. \/ cycle = None /\ Executed(slot) - Executed(start.slot) >= count
        \/ cycle = slot /\ Executed(slot) - Executed(start.slot) = count
    BY <1>5
  <2> HIDE DEF count
  <2> QED BY <1>3, <1>4, <1>5, <2>1, <2>2, ReplayToOK
<1> HIDE DEF to
<1> QED
  BY <1>1, <1>2, <1>6, FinishRewindOK

LEMMA StepBackOK ==
  ASSUME SessionOK(history, machine, instrInFrame), StepBack
  PROVE  SessionOK(history', machine', instrInFrame') /\ H!Next
<1>1. /\ Earliest \in Nat /\ machine.frame \in Nat /\ Earliest <= machine.frame
      /\ machine \in Machine /\ instrInFrame \in Nat
  BY EarliestReached
<1>2. CASE instrInFrame > 0
  <2> DEFINE start == ReplayedFrame(machine.frame)
             to == ReplayTo(machine.frame, instrInFrame - 1, None)
  <2>1. FinishRewind(to)
    BY <1>2 DEF StepBack
  <2>2. Begun(machine.frame, start)
    BY <1>1, BegunOK
  <2>3. start \in Machine /\ instrInFrame = Executed(machine.slot) - Executed(start.slot)
    BY <2>2, CountIs DEF Begun
  <2>4. /\ start.slot \in Nat /\ machine.slot \in Nat /\ machine.slot <= Slots - 1
        /\ Executed(start.slot) \in Nat /\ Executed(machine.slot) \in Nat
    BY <1>1, <2>3, MachineIs, ExecutedNext, SessionAssumption
  <2>5. start.slot <= machine.slot
    <3>1. CASE machine.slot < start.slot
      <4>1. machine.slot <= start.slot
        BY <2>4, <3>1
      <4>2. Executed(machine.slot) <= Executed(start.slot)
        BY <2>4, <4>1, ExecutedGrows
      <4> QED BY <1>2, <2>3, <2>4, <4>2
    <3> QED BY <2>4, <3>1
  <2>6. /\ machine.slot \in start.slot..Slots - 1 /\ instrInFrame - 1 \in Nat
        /\ Executed(machine.slot) - Executed(start.slot) >= instrInFrame - 1
    BY <1>1, <1>2, <2>3, <2>4, <2>5, SessionAssumption
  <2> HIDE DEF start
  <2>7. ReplayStops(start, to)
    <3>1. start = ReplayedFrame(machine.frame)
      BY DEF start
    <3> QED BY <2>3, <2>6, <3>1, ReplayToOK
  <2> HIDE DEF to
  <2> QED BY <1>1, <2>1, <2>2, <2>7, FinishRewindOK
<1>3. CASE ~(instrInFrame > 0)
  <2> DEFINE frame == machine.frame - 1
             start == ReplayedFrame(frame)
             count == Executed(Slots) - Executed(start.slot)
             back == Max({0, count - 1})
             to == ReplayTo(frame, back, None)
  <2>1. Earliest < machine.frame /\ FinishRewind(to)
    BY <1>3 DEF StepBack
  <2>2. frame \in Nat /\ Earliest <= frame /\ frame <= machine.frame
    BY <1>1, <2>1
  <2> HIDE DEF frame
  <2>3. Begun(frame, start)
    BY <2>2, BegunOK
  <2>4. start \in Machine
    BY <2>3 DEF Begun
  <2>5. /\ start.slot \in Nat /\ Slots \in Nat /\ Slots - 1 \in Nat /\ (Slots - 1) + 1 = Slots
        /\ start.slot <= Slots - 1
    BY <2>4, MachineIs, SessionAssumption
  <2>6. /\ Executed(start.slot) \in Nat /\ Executed(Slots) \in Nat /\ Executed(Slots - 1) \in Nat
        /\ Executed(start.slot) <= Executed(Slots - 1)
        /\ Executed(Slots - 1) <= Executed(Slots)
        /\ Executed(Slots) <= Executed(Slots - 1) + 1
    <3>1. Executed(start.slot) \in Nat /\ Executed(Slots - 1) \in Nat
          /\ Executed(start.slot) <= Executed(Slots - 1)
      BY <2>5, ExecutedGrows
    <3>2. Executed(Slots) = Executed(Slots - 1) + (IF Slots - 1 \in Asleep THEN 0 ELSE 1)
      BY <2>5, ExecutedNext
    <3> QED BY <3>1, <3>2
  <2>7. back = (IF 0 <= count - 1 THEN count - 1 ELSE 0)
    <3>1. 0 \in Int /\ count - 1 \in Int
      BY <2>6
    <3> HIDE DEF count
    <3> QED BY <3>1, OfTwo
  <2> HIDE DEF back
  <2>8. /\ Slots - 1 \in start.slot..Slots - 1 /\ back \in Nat
        /\ Executed(Slots - 1) - Executed(start.slot) >= back
    BY <2>5, <2>6, <2>7
  <2> HIDE DEF start
  <2>9. ReplayStops(start, to)
    <3>1. start = ReplayedFrame(frame)
      BY DEF start
    <3> QED BY <2>4, <2>8, <3>1, ReplayToOK
  <2> HIDE DEF to
  <2> QED BY <2>1, <2>2, <2>3, <2>9, FinishRewindOK
<1> QED
  BY <1>2, <1>3
-----------------------------------------------------------------------------
(* Running *)

\* A frame run, or part of one, from a machine that goes on from the session's.
LEMMA RunOneFrameOK ==
  ASSUME SessionOK(history, machine, instrInFrame), machine.frame < MaxFrame,
         NEW m \in Machine, m.frame = machine.frame, m.slot = machine.slot,
         IsPrefix(machine.log, m.log),
         NEW held \in Masks \cup {None}, NEW stopAt \in machine.slot + 1..Slots,
         RunOneFrame(m, held, stopAt)
  PROVE  /\ SessionOK(history', machine', instrInFrame')
         /\ pending' \in Masks \cup {None}
         /\ [H!Next]_<<history, machine.frame>>
<1> DEFINE latch  == instrInFrame = 0 /\ held # None
           begun  == IF latch THEN SetButtons(m, held) ELSE m
           waits  == IF latch THEN None ELSE held
           ran    == RunTo(begun, stopAt)
           next   == IF waits # None THEN SetButtons(ran, waits) ELSE ran
           logged == H!RecordInput(history, m.frame, begun.buttons)
<1>1. /\ machine.frame \in Nat /\ machine \in Machine /\ instrInFrame \in Nat /\ MaxFrame \in Nat
      /\ machine.slot \in Nat /\ machine.slot < Slots /\ Slots \in Nat
  BY EarliestReached, MachineIs, SessionAssumption
<1>2. /\ begun \in Machine /\ begun.frame = machine.frame /\ begun.slot = machine.slot
      /\ IsPrefix(m.log, begun.log)
  <2>1. CASE latch
    <3>1. held \in Masks
      BY <2>1
    <3> QED BY <2>1, <3>1, SetButtonsOK
  <2>2. CASE ~latch
    <3>1. IsPrefix(m.log, m.log)
      BY MachineIs, PrefixItself
    <3> QED BY <2>2, <3>1
  <2> QED BY <2>1, <2>2
<1>3. waits \in Masks \cup {None}
  OBVIOUS
<1>4. IF stopAt < Slots
        THEN /\ machine' = ran
             /\ instrInFrame' = instrInFrame + Executed(stopAt) - Executed(m.slot)
             /\ pending' = waits
             /\ history' = history
        ELSE /\ machine' = next
             /\ instrInFrame' = 0
             /\ pending' = None
             /\ history' = PushIfDue(logged, ran, 0)
  BY DEF RunOneFrame
<1> HIDE DEF begun, waits
<1>5. stopAt \in begun.slot..Slots
  BY <1>1, <1>2
<1>6. /\ ran \in Machine
      /\ ran.frame = (IF stopAt = Slots THEN machine.frame + 1 ELSE machine.frame)
      /\ ran.slot = (IF stopAt = Slots THEN 0 ELSE stopAt)
      /\ IsPrefix(begun.log, ran.log)
  BY <1>2, <1>5, RunToOK
<1> HIDE DEF ran
<1>7. IsPrefix(machine.log, ran.log)
  <2>1. /\ machine.log \in Seq(Entry) /\ m.log \in Seq(Entry) /\ begun.log \in Seq(Entry)
        /\ ran.log \in Seq(Entry)
    BY <1>1, <1>2, <1>6, MachineIs
  <2>2. IsPrefix(machine.log, begun.log)
    BY <1>2, <2>1, PrefixOfPrefix
  <2> QED BY <1>6, <2>1, <2>2, PrefixOfPrefix
<1>8. CASE stopAt < Slots
  <2>1. ran.frame = machine.frame /\ ran.slot = stopAt /\ machine.slot <= ran.slot
    BY <1>1, <1>6, <1>8
  <2>2. SessionOK(history, ran, instrInFrame + Executed(ran.slot) - Executed(machine.slot))
    BY <1>6, <1>7, <2>1, RunOnOK
  <2> QED BY <1>3, <1>4, <1>8, <2>1, <2>2
<1>9. CASE ~(stopAt < Slots)
  <2>1. stopAt = Slots
    BY <1>1, <1>9
  <2>2. ran.frame = machine.frame + 1 /\ ran.slot = 0
    BY <1>6, <2>1
  <2>3. next \in Machine /\ next.frame = ran.frame /\ next.slot = 0 /\ IsPrefix(ran.log, next.log)
    <3>1. CASE waits # None
      BY <1>3, <1>6, <2>2, <3>1, SetButtonsOK
    <3>2. CASE waits = None
      <4>1. IsPrefix(ran.log, ran.log)
        BY <1>6, MachineIs, PrefixItself
      <4> QED BY <1>6, <2>2, <3>2, <4>1
    <3> QED BY <3>1, <3>2
  <2> HIDE DEF next
  <2>4. begun.buttons \in Masks
    BY <1>2, MachineIs
  <2>5. SessionOK(PushIfDue(logged, ran, 0), next, 0)
    BY <1>6, <1>7, <2>2, <2>3, <2>4, FrameOverOK
  <2>6. H!FinishFrame(begun.buttons, Snapshot(ran))
    <3>1. machine'.frame = machine.frame + 1
      BY <1>4, <1>9, <2>2, <2>3
    <3>2. history' = IF H!OnGrid(ran.frame) THEN H!Push(logged, ran.frame, Snapshot(ran)) ELSE logged
      BY <1>4, <1>9 DEF PushIfDue
    <3> QED BY <2>2, <3>1, <3>2 DEF H!FinishFrame
  <2>7. H!Next
    BY <1>6, <2>4, <2>6, SnapshotDrives DEF H!Next
  <2> QED BY <1>4, <1>9, <2>5, <2>7
<1> QED
  BY <1>8, <1>9

\* Buttons pressed, or memory written, where the machine stands.
LEMMA PokedOK ==
  ASSUME SessionOK(history, machine, instrInFrame),
         NEW m \in Machine, m.frame = machine.frame, m.slot = machine.slot,
         IsPrefix(machine.log, m.log)
  PROVE  SessionOK(history, m, instrInFrame)
<1>1. machine \in Machine /\ instrInFrame \in Nat
  BY EarliestReached
<1>2. machine.slot \in Nat /\ Executed(machine.slot) \in Nat
  BY <1>1, MachineIs, ExecutedNext
<1>3. SessionOK(history, m, instrInFrame + Executed(m.slot) - Executed(machine.slot))
  BY <1>2, RunOnOK
<1>4. instrInFrame + Executed(m.slot) - Executed(machine.slot) = instrInFrame
  BY <1>1, <1>2
<1> QED
  BY <1>3, <1>4

\* A user's write goes into the log.
LEMMA WrittenOK ==
  ASSUME NEW m \in Machine, NEW n, n = [m EXCEPT !.log = Append(@, UserWrite)]
  PROVE  n \in Machine /\ n.frame = m.frame /\ n.slot = m.slot /\ IsPrefix(m.log, n.log)
<1>1. m.log \in Seq(Entry) /\ UserWrite \in Entry
  BY MachineIs DEF Entry
<1>2. Append(m.log, UserWrite) = m.log \o <<UserWrite>> /\ <<UserWrite>> \in Seq(Entry)
  BY <1>1, AppendIsConcat
<1>3. m.log \o <<UserWrite>> \in Seq(Entry) /\ IsPrefix(m.log, m.log \o <<UserWrite>>)
  BY <1>1, <1>2, LogGoesOn
<1>4. m = [frame |-> m.frame, slot |-> m.slot, buttons |-> m.buttons, log |-> m.log]
  BY MachineIs
<1> DEFINE log == Append(m.log, UserWrite)
<1>5. log \in Seq(Entry) /\ IsPrefix(m.log, log) /\ n = [m EXCEPT !.log = log]
  BY <1>2, <1>3
<1> HIDE DEF log
<1>6. n = [frame |-> m.frame, slot |-> m.slot, buttons |-> m.buttons, log |-> log]
  BY <1>4, <1>5
<1>7. n \in Machine
  BY <1>5, <1>6, MachineIs DEF Machine, Entry
<1> QED
  BY <1>5, <1>6, <1>7
-----------------------------------------------------------------------------
(* The invariant of a session                                              *)

RecordingOK(r) == r.start \in Nat /\ r.machine \in Machine /\ r.machine.frame <= MaxFrame

TakeOK(t) == RecordingOK(t) /\ t.frames \in Seq(Masks)

PlaybackOK(p) == p \in [frames : Seq(Masks), index : Nat, from : Machine]

\* What waits for the next frame, and what was recorded, can be run.
CanRun ==
  /\ pending \in Masks \cup {None}
  /\ recording # None => RecordingOK(recording)
  /\ take # None => TakeOK(take)
  /\ playback # None => PlaybackOK(playback)

SessionInv == SessionOK(history, machine, instrInFrame) /\ CanRun


LEMMA PowerOnOK ==
  /\ PowerOn \in Machine
  /\ PowerOn.frame = 0
  /\ PowerOn.frame <= MaxFrame
<1>1. <<>> \in Seq(Entry)
  BY EmptySeq
<1> QED
  BY <1>1, SessionAssumption DEF PowerOn, Machine, Entry

LEMMA SessionInit == Init => SessionInv /\ H!Init
<1> SUFFICES ASSUME Init PROVE SessionInv /\ H!Init
  OBVIOUS
<1>1. PowerOn \in Machine /\ PowerOn.frame = 0 /\ 0 <= MaxFrame /\ 0 \in 0..MaxFrame
  BY PowerOnOK, SessionAssumption
<1>2. SessionOK(history, machine, instrInFrame)
  BY <1>1, AnchorOK DEF Init
<1>3. CanRun
  BY DEF Init, CanRun
<1>4. H!Init
  BY <1>1, SnapshotDrives DEF Init, H!Init
<1> QED
  BY <1>2, <1>3, <1>4 DEF SessionInv

LEMMA StepKeeps ==
  ASSUME SessionInv, NEW slot \in Ahead, Step(slot) \/ Tick(slot) \/ PlaybackTick(slot)
  PROVE  SessionInv' /\ [H!Next]_<<history, machine.frame>>
<1>1. /\ SessionOK(history, machine, instrInFrame) /\ CanRun /\ slot \in machine.slot + 1..Slots
      /\ machine \in Machine /\ machine.frame < MaxFrame
      /\ recording' = recording /\ take' = take
  BY EarliestReached DEF SessionInv, Ahead, Step, Tick, PlaybackTick
<1>2. ASSUME NEW m \in Machine, m.frame = machine.frame, m.slot = machine.slot,
             IsPrefix(machine.log, m.log),
             NEW held \in Masks \cup {None}, RunOneFrame(m, held, slot)
      PROVE  /\ SessionOK(history', machine', instrInFrame')
             /\ pending' \in Masks \cup {None}
             /\ [H!Next]_<<history, machine.frame>>
  BY <1>1, <1>2, RunOneFrameOK
<1>3. CASE Step(slot) \/ Tick(slot)
  <2>1. RunOneFrame(machine, pending, slot) /\ playback' = None
    BY <1>3 DEF Step, Tick
  <2>2. IsPrefix(machine.log, machine.log) /\ pending \in Masks \cup {None}
    BY <1>1, MachineIs, PrefixItself DEF CanRun
  <2>3. /\ SessionOK(history', machine', instrInFrame')
        /\ pending' \in Masks \cup {None}
        /\ [H!Next]_<<history, machine.frame>>
    BY <1>1, <1>2, <2>1, <2>2
  <2> QED BY <1>1, <2>1, <2>3 DEF SessionInv, CanRun
<1>4. CASE PlaybackTick(slot)
  <2> DEFINE mask == playback.frames[playback.index + 1]
             m == SetButtons(machine, mask)
  <2>1. /\ playback # None /\ playback.index < Len(playback.frames) /\ RunOneFrame(m, None, slot)
        /\ playback' = None \/ playback' = [playback EXCEPT !.index = @ + 1]
    BY <1>4 DEF PlaybackTick
  <2>2. PlaybackOK(playback)
    BY <1>1, <2>1 DEF CanRun
  <2>3. playback.frames \in Seq(Masks) /\ playback.index \in Nat
    BY <2>2 DEF PlaybackOK
  <2>4. mask \in Masks
    <3>1. Len(playback.frames) \in Nat
      BY <2>3, LenProperties
    <3>2. playback.index + 1 \in 1..Len(playback.frames)
      BY <2>1, <2>3, <3>1
    <3> QED BY <2>3, <3>2, ElementOfSeq
  <2>5. m \in Machine /\ m.frame = machine.frame /\ m.slot = machine.slot /\ IsPrefix(machine.log, m.log)
    BY <1>1, <2>4, SetButtonsOK
  <2> HIDE DEF m
  <2>6. None \in Masks \cup {None}
    OBVIOUS
  <2>7. /\ SessionOK(history', machine', instrInFrame')
        /\ pending' \in Masks \cup {None}
        /\ [H!Next]_<<history, machine.frame>>
    BY <1>1, <1>2, <2>1, <2>5, <2>6
  <2>8. playback' # None => PlaybackOK(playback')
    <3>1. [playback EXCEPT !.index = @ + 1] \in [frames : Seq(Masks), index : Nat, from : Machine]
      BY <2>2, <2>3 DEF PlaybackOK
    <3> QED BY <2>1, <3>1 DEF PlaybackOK
  <2> QED BY <1>1, <2>7, <2>8 DEF SessionInv, CanRun
<1> QED
  BY <1>3, <1>4

LEMMA PokeKeeps ==
  ASSUME SessionInv, (\E mask \in Masks : HoldButtons(mask)) \/ NoteWrite
  PROVE  SessionInv' /\ UNCHANGED <<history, machine.frame>>
<1>1. SessionOK(history, machine, instrInFrame) /\ machine \in Machine
  BY EarliestReached DEF SessionInv
<1>2. /\ machine' \in Machine /\ machine'.frame = machine.frame /\ machine'.slot = machine.slot
      /\ IsPrefix(machine.log, machine'.log)
      /\ pending' = pending \/ pending' \in Masks \cup {None}
      /\ UNCHANGED <<instrInFrame, history, recording, take, playback>>
  <2>1. CASE NoteWrite
    BY <1>1, <2>1, WrittenOK DEF NoteWrite
  <2>2. CASE \E mask \in Masks : HoldButtons(mask)
    <3>1. PICK mask \in Masks : HoldButtons(mask)
      BY <2>2
    <3>2. CASE machine' = machine
      <4>1. IsPrefix(machine.log, machine.log)
        BY <1>1, MachineIs, PrefixItself
      <4> QED BY <1>1, <3>1, <3>2, <4>1 DEF HoldButtons
    <3>3. CASE machine' = SetButtons(machine, mask)
      <4>1. LET n == SetButtons(machine, mask)
            IN  /\ n \in Machine
                /\ n.frame = machine.frame /\ n.slot = machine.slot /\ n.buttons = mask
                /\ IsPrefix(machine.log, n.log)
        BY <1>1, SetButtonsOK
      <4> QED BY <3>1, <3>3, <4>1 DEF HoldButtons
    <3> QED BY <3>1, <3>2, <3>3 DEF HoldButtons
  <2> QED BY <2>1, <2>2
<1>3. SessionOK(history, machine', instrInFrame)
  BY <1>1, <1>2, PokedOK
<1> QED
  BY <1>2, <1>3 DEF SessionInv, CanRun

LEMMA RewindKeeps ==
  ASSUME SessionInv, Rewinds
  PROVE  SessionInv' /\ H!Next
<1>1. SessionOK(history, machine, instrInFrame) /\ CanRun
  BY DEF SessionInv
<1>2. SessionOK(history', machine', instrInFrame') /\ H!Next
  <2>1. CASE \E frame \in 0..MaxFrame : RewindToFrame(frame)
    BY <1>1, <2>1, RewindToFrameOK
  <2>2. CASE StepBack
    BY <1>1, <2>2, StepBackOK
  <2>3. CASE \E frame \in 0..MaxFrame, slot \in 0..Slots - 1 :
               ReverseContinueToHit(frame, slot, None) \/ ReverseContinueToHit(frame, slot, slot)
    BY <1>1, <2>3, ReverseToHitOK
  <2>4. CASE ReverseContinueToEarliest
    BY <1>1, <2>4, ReverseToEarliestOK
  <2> QED BY <2>1, <2>2, <2>3, <2>4 DEF Rewinds
<1>3. pending' = None /\ playback' = None /\ recording' = recording /\ take' = take
  <2>1. ASSUME NEW to, FinishRewind(to)
        PROVE  pending' = None /\ playback' = None /\ recording' = recording /\ take' = take
    BY <2>1 DEF FinishRewind
  <2> QED BY <2>1 DEF Rewinds, RewindToFrame, StepBack, ReverseContinueToHit, ReverseContinueToEarliest
<1> QED
  BY <1>1, <1>2, <1>3 DEF SessionInv, CanRun
LEMMA RecordKeeps ==
  ASSUME SessionInv, StartRecording \/ StopRecording \/ Continue \/ TickStops
  PROVE  SessionInv' /\ UNCHANGED <<history, machine.frame>>
<1>1. SessionOK(history, machine, instrInFrame) /\ CanRun
  BY DEF SessionInv
<1>2. machine \in Machine /\ machine.frame \in Nat /\ machine.frame <= MaxFrame
  BY <1>1, EarliestReached
<1>3. UNCHANGED <<machine, instrInFrame, pending, history>>
  BY DEF StartRecording, StopRecording, Continue, TickStops
<1>4. SessionOK(history', machine', instrInFrame')
  BY <1>1, <1>3
<1>5. CASE Continue \/ TickStops
  BY <1>1, <1>3, <1>4, <1>5 DEF Continue, TickStops, CanRun, SessionInv
<1>6. CASE StartRecording
  <2>1. recording'.start = machine.frame /\ recording'.machine = machine
    BY <1>6 DEF StartRecording
  <2>2. RecordingOK(recording')
    BY <1>2, <2>1 DEF RecordingOK
  <2> QED BY <1>1, <1>3, <1>4, <1>6, <2>2 DEF StartRecording, CanRun, SessionInv
<1>7. CASE StopRecording
  <2> DEFINE n == machine.frame - recording.start
             masks == [i \in 1..n |-> H!InputAt(history, recording.start + i - 1)]
  <2>1. RecordingOK(recording) /\ recording' = None
    BY <1>1, <1>7 DEF StopRecording, CanRun
  <2>2. /\ take'.start = recording.start /\ take'.machine = recording.machine
        /\ take'.frames = masks /\ playback' = playback
    BY <1>7 DEF StopRecording
  <2>3. recording.start \in Nat /\ n \in Int
    BY <1>2, <2>1 DEF RecordingOK
  <2>4. masks \in [1..n -> Masks]
    BY <1>1, <2>3, InputsAre DEF SessionOK, GoodHistory
  <2>5. masks \in Seq(Masks)
    <3>1. CASE n \in Nat
      <4> HIDE DEF masks, n
      <4> QED BY <2>4, <3>1, SeqDef
    <3>2. CASE n \notin Nat
      <4>1. 1..n = 1..0
        BY <2>3, <3>2
      <4>2. 0 \in Nat /\ masks \in [1..0 -> Masks]
        BY <2>4, <4>1
      <4> HIDE DEF masks, n
      <4> QED BY <4>2, SeqDef
    <3> QED BY <3>1, <3>2
  <2>6. TakeOK(take')
    <3> HIDE DEF masks
    <3> QED BY <2>1, <2>2, <2>5 DEF TakeOK, RecordingOK
  <2> QED BY <1>1, <1>3, <1>4, <2>1, <2>2, <2>6 DEF CanRun, SessionInv
<1> QED
  BY <1>3, <1>5, <1>6, <1>7

\* A history begun again is one of RewindHistory's steps.
LEMMA AnchorDrives ==
  ASSUME NEW m \in Machine, m.frame <= MaxFrame, machine' = m,
         history' = H!Push(H!Empty, m.frame, Snapshot(m))
  PROVE  H!Next
<1>1. m.frame \in 0..MaxFrame
  BY MachineIs, SessionAssumption
<1>2. H!Anchor(m.frame, Snapshot(m))
  BY DEF H!Anchor
<1> QED
  BY <1>1, <1>2, SnapshotDrives DEF H!Next

LEMMA AnchorKeeps ==
  ASSUME SessionInv, \/ Restart
                     \/ \E m \in SavedStates : LoadState(m)
                     \/ \E mask \in Masks, slot \in Ahead : Resync(mask, slot)
  PROVE  SessionInv' /\ H!Next
<1>1. SessionOK(history, machine, instrInFrame) /\ CanRun
  BY DEF SessionInv
<1>2. ASSUME NEW m \in Machine, m.frame <= MaxFrame, Anchor(m),
             recording' = None \/ recording' = recording
      PROVE  SessionInv' /\ H!Next
  <2>1. SessionOK(history', machine', instrInFrame')
    BY <1>2, AnchorOK DEF Anchor
  <2>2. H!Next
    BY <1>2, AnchorDrives DEF Anchor
  <2> QED BY <1>1, <1>2, <2>1, <2>2 DEF Anchor, CanRun, SessionInv
<1>3. CASE Restart
  <2>1. PowerOn \in Machine /\ PowerOn.frame <= MaxFrame
    BY PowerOnOK
  <2> QED BY <1>2, <1>3, <2>1 DEF Restart
<1>4. CASE \E m \in SavedStates : LoadState(m)
  BY <1>2, <1>4, SessionAssumption DEF LoadState
<1>5. CASE \E mask \in Masks, slot \in Ahead : Resync(mask, slot)
  <2>1. PICK mask \in Masks, slot \in Ahead : Resync(mask, slot)
    BY <1>5
  <2> DEFINE m == SetButtons(machine, mask)
             ran == RunTo(m, slot)
  <2>2. machine \in Machine /\ machine.frame \in Nat /\ MaxFrame \in Nat /\ machine.slot \in Nat
        /\ Slots \in Nat /\ machine.frame < MaxFrame
    BY <1>1, <2>1, EarliestReached, MachineIs, SessionAssumption DEF Resync
  <2>3. m \in Machine /\ m.frame = machine.frame /\ m.slot = machine.slot
    BY <2>2, SetButtonsOK
  <2>4. slot \in m.slot..Slots
    BY <2>2, <2>3 DEF Ahead
  <2>5. Anchor(ran) /\ recording' = None
    BY <2>1 DEF Resync
  <2> HIDE DEF m
  <2>6. ran \in Machine /\ ran.frame = (IF slot = Slots THEN m.frame + 1 ELSE m.frame)
    BY <2>3, <2>4, RunToOK
  <2>7. ran.frame <= MaxFrame
    BY <2>2, <2>3, <2>6
  <2> HIDE DEF ran
  <2> QED BY <1>2, <2>5, <2>6, <2>7
<1> QED
  BY <1>3, <1>4, <1>5
LEMMA PlayOK ==
  ASSUME TakeOK(take), NEW m \in Machine
  PROVE  PlaybackOK(Play(m))
BY DEF TakeOK, PlaybackOK, Play

LEMMA ReplayKeeps ==
  ASSUME SessionInv, ReplayHere \/ ReplayFromStart
  PROVE  SessionInv' /\ H!Next
<1>1. SessionOK(history, machine, instrInFrame) /\ CanRun /\ TakeOK(take)
  BY DEF SessionInv, CanRun, ReplayHere, ReplayFromStart
<1>2. /\ Earliest \in Nat /\ machine.frame \in Nat /\ Earliest <= machine.frame
      /\ machine \in Machine /\ MaxFrame \in Nat /\ machine.frame <= MaxFrame
      /\ H!EarliestFrame(history) = Earliest
  BY <1>1, EarliestReached DEF Earliest
<1>3. HP!Hist(history) /\ history.keyframes # <<>> /\ \A p \in Starts(history) : p[1] <= machine.frame
  BY <1>1 DEF SessionOK, GoodHistory
<1>4. ASSUME NEW m \in Machine, machine' = m, m.frame \in Earliest..machine.frame,
             history' = H!TruncateAfter(history, m.frame)
      PROVE  H!Next
  <2>1. m.frame \in 0..MaxFrame
    BY <1>2, <1>4
  <2>2. H!GoBack(m.frame, Snapshot(m), FALSE)
    BY <1>2, <1>4 DEF H!GoBack
  <2> QED BY <1>4, <2>1, <2>2, SnapshotDrives DEF H!Next
<1>5. CASE ReplayHere
  <2>1. /\ machine' = machine /\ instrInFrame' = instrInFrame
        /\ history' = H!TruncateAfter(history, machine.frame)
        /\ pending' = pending /\ recording' = recording /\ take' = take /\ playback' = Play(machine)
    BY <1>5 DEF ReplayHere
  <2>2. GoodHistory(history', machine.frame) /\ Starts(history') = {p \in Starts(history) : p[1] <= machine.frame}
    BY <1>2, <1>3, <2>1, TruncatedOK
  <2>3. Starts(history') = Starts(history)
    BY <1>3, <2>2
  <2>4. SessionOK(history', machine', instrInFrame')
    BY <1>1, <2>1, <2>2, <2>3 DEF SessionOK
  <2>5. PlaybackOK(playback')
    BY <1>1, <1>2, <2>1, PlayOK
  <2>6. H!Next
    BY <1>2, <1>4, <2>1
  <2> QED BY <1>1, <2>1, <2>4, <2>5, <2>6 DEF SessionInv, CanRun
<1>6. CASE ReplayFromStart
  <2> DEFINE reboot  == take.start = 0 /\ Earliest > 0
             reached == take.start \in Earliest..machine.frame
             m       == IF reboot THEN PowerOn
                        ELSE IF reached THEN ReplayedFrame(take.start)
                        ELSE take.machine
  <2>1. /\ machine' = m /\ instrInFrame' = 0 /\ pending' = None /\ take' = take
        /\ history' = IF reached THEN H!TruncateAfter(history, m.frame)
                                 ELSE H!Push(H!Empty, m.frame, Snapshot(m))
        /\ recording' = IF reboot THEN None ELSE recording
        /\ playback' = Play(m)
    BY <1>6 DEF ReplayFromStart
  <2>2. take.start \in Nat /\ take.machine \in Machine /\ take.machine.frame <= MaxFrame
    BY <1>1 DEF TakeOK, RecordingOK
  <2>3. m \in Machine /\ SessionOK(history', machine', instrInFrame') /\ H!Next
    <3>1. CASE reached
      <4> DEFINE key == H!KeyframeAtOrBefore(history, take.start)
      <4>1. ~reboot /\ m = ReplayedFrame(take.start) /\ Earliest <= take.start /\ take.start <= machine.frame
        BY <1>2, <3>1
      <4>2. Begun(take.start, m)
        BY <1>1, <2>2, <4>1, BegunOK
      <4> HIDE DEF m
      <4>3. /\ m \in Machine /\ m.frame = take.start
            /\ IsPrefix(Restored(key.snapshot).log, m.log)
            /\ Restored(key.snapshot) \in Machine
            /\ m.slot = IF take.start = key.frame THEN Restored(key.snapshot).slot ELSE 0
        BY <4>2 DEF Begun
      <4> HIDE DEF key
      <4>4. Executed(0) = 0 /\ Executed(Restored(key.snapshot).slot) \in Nat
        BY <4>3, MachineIs, ExecutedNext
      <4>5. 0 = Executed(m.slot)
                  - (IF m.frame = key.frame THEN Executed(Restored(key.snapshot).slot) ELSE 0)
        BY <4>3, <4>4
      <4>6. history' = H!TruncateAfter(history, m.frame) /\ 0 \in Nat
        BY <2>1, <3>1
      <4>7. /\ H!EarliestFrame(history) <= m.frame /\ m.frame <= machine.frame
            /\ key = H!KeyframeAtOrBefore(history, m.frame)
        BY <1>2, <4>1, <4>3 DEF key
      <4> HIDE DEF reached
      <4>8. SessionOK(history', m, 0)
        BY <1>1, <4>3, <4>5, <4>6, <4>7, WentBackOK
      <4>9. m.frame \in Earliest..machine.frame
        BY <1>2, <2>2, <4>1, <4>3
      <4> QED BY <1>4, <2>1, <4>3, <4>6, <4>8, <4>9
    <3>2. CASE ~reached
      <4>1. m \in Machine /\ m.frame <= MaxFrame
        BY <2>2, <3>2, PowerOnOK
      <4> HIDE DEF m
      <4>2. machine' = m /\ instrInFrame' = 0 /\ history' = H!Push(H!Empty, m.frame, Snapshot(m))
        BY <2>1, <3>2
      <4> QED BY <4>1, <4>2, AnchorOK, AnchorDrives
    <3> QED BY <3>1, <3>2
  <2> HIDE DEF m
  <2>4. PlaybackOK(playback')
    BY <1>1, <2>1, <2>3, PlayOK
  <2> QED BY <1>1, <2>1, <2>3, <2>4 DEF SessionInv, CanRun
<1> QED
  BY <1>5, <1>6

-----------------------------------------------------------------------------
(* Theorems *)

\* Whatever the commands and however they fall between the ticks of a run, each keeps the
\* invariant and drives the history in one of the ways RewindHistory allows for.
LEMMA SessionInductive ==
  SessionInv /\ [Next]_vars => SessionInv' /\ [H!Next]_<<history, machine.frame>>
<1> SUFFICES ASSUME SessionInv, [Next]_vars
             PROVE  SessionInv' /\ [H!Next]_<<history, machine.frame>>
  OBVIOUS
<1>1. CASE \E slot \in Ahead : Step(slot) \/ Tick(slot) \/ PlaybackTick(slot)
  BY <1>1, StepKeeps
<1>2. CASE (\E mask \in Masks : HoldButtons(mask)) \/ NoteWrite
  BY <1>2, PokeKeeps
<1>3. CASE Rewinds
  BY <1>3, RewindKeeps
<1>4. CASE StartRecording \/ StopRecording \/ Continue \/ TickStops
  BY <1>4, RecordKeeps
<1>5. CASE ReplayHere \/ ReplayFromStart
  BY <1>5, ReplayKeeps
<1>6. CASE \/ Restart
           \/ \E m \in SavedStates : LoadState(m)
           \/ \E mask \in Masks, slot \in Ahead : Resync(mask, slot)
  BY <1>6, AnchorKeeps
<1>7. CASE UNCHANGED vars
  BY <1>7 DEF vars, SessionInv, SessionOK, CanRun
<1> QED
  BY <1>1, <1>2, <1>3, <1>4, <1>5, <1>6, <1>7 DEF Next, Rewinds

THEOREM SessionInvariant == Spec => []SessionInv
<1>1. Init => SessionInv
  BY SessionInit
<1>2. SessionInv /\ [Next]_vars => SessionInv'
  BY SessionInductive
<1> QED
  BY <1>1, <1>2, PTL DEF Spec

\* Going back, replaying, restarting, loading and taking the machine back from another
\* driver never leave a keyframe of an abandoned future: each restores a machine that this
\* one went on from.
THEOREM KeyframesAreThePast == Spec => []HistoryIsThePast
<1>1. SessionInv => HistoryIsThePast
  <2> SUFFICES ASSUME SessionInv, NEW i \in 1..Len(history.keyframes)
               PROVE  LET m == Restored(H!Decoded(history.keyframes)[i])
                      IN  m.frame = history.keyframes[i].frame /\ IsPrefix(m.log, machine.log)
    BY DEF HistoryIsThePast
  <2> DEFINE p == <<history.keyframes[i].frame, HP!Decoded(history.keyframes)[i]>>
  <2>1. HP!Hist(history) /\ Past(Starts(history), machine)
    BY DEF SessionInv, SessionOK, GoodHistory
  <2>2. p \in Starts(history)
    BY <2>1, StartsAre
  <2>3. p[1] = history.keyframes[i].frame /\ p[2] = H!Decoded(history.keyframes)[i]
    BY SameDecoded
  <2> HIDE DEF p
  <2> QED BY <2>1, <2>2, <2>3 DEF Past
<1> QED
  BY <1>1, SessionInvariant, PTL

\* However a session comes to be where it is in a frame, the count that stepBack subtracts
\* from is that of the instructions since the frame's start, or since history began when it
\* began inside the frame.
THEOREM InstructionsAreCounted == Spec => []CountsInstructions
<1>1. SessionInv => CountsInstructions
  <2> SUFFICES ASSUME SessionInv PROVE CountsInstructions
    OBVIOUS
  <2> DEFINE first == <<Earliest, H!Decoded(history.keyframes)[1]>>
             S == Starts(history)
  <2>1. /\ HP!Hist(history) /\ history.keyframes # <<>> /\ Past(S, machine)
        /\ Counts(S, machine, instrInFrame)
    BY DEF SessionInv, SessionOK, GoodHistory
  <2>2. /\ Earliest \in Nat /\ first \in S /\ \A p \in S : p[1] >= Earliest
    BY <2>1, EarliestIs DEF Earliest
  <2>3. first[1] = Earliest /\ first[2] = H!Decoded(history.keyframes)[1]
    OBVIOUS
  <2>4. machine \in Machine /\ machine.frame \in Nat
    BY EarliestReached DEF SessionInv
  <2>5. Executed(0) = 0 /\ Executed(machine.slot) \in Nat
    BY <2>4, MachineIs, ExecutedNext
  <2> HIDE DEF first
  <2>6. CASE machine.frame = Earliest
    BY <2>1, <2>2, <2>3, <2>6 DEF Counts, CountsInstructions
  <2>7. CASE machine.frame # Earliest
    <3>1. instrInFrame = Executed(machine.slot) - Executed(0)
      <4>1. CASE \A p \in S : p[1] # machine.frame
        BY <2>1, <2>5, <4>1 DEF Counts
      <4>2. CASE \E p \in S : p[1] = machine.frame
        <5>1. PICK p \in S : p[1] = machine.frame
          BY <4>2
        <5>2. first[1] < p[1]
          BY <2>2, <2>3, <2>4, <2>7, <5>1
        <5>3. Executed(Restored(p[2]).slot) = 0
          BY <2>1, <2>2, <5>2 DEF Past
        <5> QED BY <2>1, <2>5, <5>1, <5>3 DEF Counts
      <4> QED BY <4>1, <4>2
    <3> QED BY <2>7, <3>1 DEF CountsInstructions
  <2> QED BY <2>6, <2>7
<1> QED
  BY <1>1, SessionInvariant, PTL

\* A session implements the rewind history it drives, so what RewindHistoryProofs proves
\* of one holds of a session's: it decodes to what was stored, within its budget.
THEOREM SessionDrivesHistory == Spec => H!Spec
<1>1. Init => H!Init
  BY SessionInit
<1>2. SessionInv /\ [Next]_vars => [H!Next]_<<history, machine.frame>>
  BY SessionInductive
<1> QED
  BY <1>1, <1>2, SessionInvariant, PTL DEF Spec, H!Spec, H!vars
\* The same history, as the module of its theorems knows it.
LEMMA SameSpec == H!Spec => HP!Spec
<1>1. H!Init => HP!Init
  BY SamePush, SameEmpty DEF H!Init, HP!Init, H!Snapshots, HP!Snapshots, H!IsFiniteSet, HP!IsFiniteSet
<1>2. H!Next => HP!Next
  <2>0. H!Snapshots = HP!Snapshots /\ \A f : H!OnGrid(f) = HP!OnGrid(f)
    BY DEF H!Snapshots, HP!Snapshots, H!IsFiniteSet, HP!IsFiniteSet, H!OnGrid, HP!OnGrid
  <2>1. \A f, snap : H!Anchor(f, snap) => HP!Anchor(f, snap)
    BY SamePush, SameEmpty DEF H!Anchor, HP!Anchor
  <2>2. \A mask, snap : H!FinishFrame(mask, snap) => HP!FinishFrame(mask, snap)
    BY <2>0, SamePush, SameRecordInput DEF H!FinishFrame, HP!FinishFrame
  <2>3. \A f, snap, atStart : H!GoBack(f, snap, atStart) => HP!GoBack(f, snap, atStart)
    BY <2>0, SamePush, SameTruncateAfter, SameEarliest DEF H!GoBack, HP!GoBack
  <2> QED BY <2>0, <2>1, <2>2, <2>3 DEF H!Next, HP!Next
<1> QED
  BY <1>1, <1>2, PTL DEF H!Spec, HP!Spec, H!vars, HP!vars

\* Rewinds, replays and loads included, what a session keeps is counted to the byte and
\* within its budget, one keyframe excepted.
THEOREM SessionInBudget == Spec => []H!WithinBudget
<1>1. HP!WithinBudget => H!WithinBudget
  BY SameBytesOf DEF H!WithinBudget, HP!WithinBudget
<1>2. HP!Spec => []HP!WithinBudget
  BY HistoryConstants, HP!BudgetHolds
<1> QED
  BY <1>1, <1>2, SameSpec, SessionDrivesHistory, PTL

\* A session's chain of deltas is one of the histories that store every start and every
\* frame's buttons verbatim: what a rewind reads back is what was stored.
THEOREM SessionIsExact == Spec => HP!ImplementsExact
<1>1. HP!Spec => HP!ImplementsExact
  BY HistoryConstants, HP!HistoryIsExact
<1> QED
  BY <1>1, SameSpec, SessionDrivesHistory, PTL

=================================================================================
