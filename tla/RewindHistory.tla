------------------------------ MODULE RewindHistory ------------------------------
(***************************************************************************)
(* The rewind history of a debugging session                               *)
(* (packages/debug-core/src/rewind.ts): a chain of keyframes, the first a  *)
(* full snapshot and the others mostly XOR deltas against the keyframe     *)
(* before them, and the buttons held on every frame.  The chain is         *)
(* truncated from the back by a rewind and dropped from the front by the   *)
(* byte budget, and must stay decodable through both.                      *)
(*                                                                         *)
(* A snapshot is the set of RAM cells that are set, so that the code's XOR *)
(* is the symmetric difference and a delta applied to the wrong base gives *)
(* the wrong machine, as it does there.  The scalar fields travel verbatim *)
(* and the framebuffer is not state; both are left out.                    *)
(*                                                                         *)
(* The operators take a history record, so that a session can be composed  *)
(* with one; the state machine at the end drives one the way a session     *)
(* does, with `now` the frame its machine is on.                           *)
(***************************************************************************)
EXTENDS Integers, Sequences, FiniteSets, FiniteSetsExt, Functions

CONSTANTS
  Cells,             \* RAM cells of a snapshot
  Masks,             \* button masks; 0 is "none held"
  KeyframeInterval,  \* frames between keyframes
  FullEvery,         \* at most this many deltas between full keyframes
  MaxBytes,          \* the budget
  SnapshotBytes,     \* size of a full keyframe
  DeltaHeader,       \* size of an empty delta
  MaxFrame           \* bound on the frames of a run

ASSUME HistoryAssumption ==
  /\ Masks \subseteq Nat
  /\ 0 \in Masks
  /\ KeyframeInterval \in Nat \ {0}
  /\ FullEvery \in Nat \ {0}
  /\ MaxBytes \in Nat
  /\ SnapshotBytes \in Nat
  /\ DeltaHeader \in Nat
  /\ MaxFrame \in Nat

VARIABLES
  history,  \* the RewindHistory object
  now       \* the frame the machine is on

vars == <<history, now>>

Snapshots == {snap \in SUBSET Cells : IsFiniteSet(snap)}

-----------------------------------------------------------------------------
(* Keyframes *)

Keyframe == [frame : Nat, full : BOOLEAN, data : Snapshots, bytes : Nat]

FullKeyframe(frame, snap) ==
  [frame |-> frame, full |-> TRUE, data |-> snap, bytes |-> SnapshotBytes]

\* A run-length delta: a header, then a literal for each cell that differs.
DeltaKeyframe(frame, xor) ==
  [frame |-> frame, full |-> FALSE, data |-> xor, bytes |-> DeltaHeader + Cardinality(xor)]

\* #reconstruct of every keyframe: deltas applied forward from the nearest full one.
Decoded(ks) ==
  LET snap[i \in 1..Len(ks)] ==
        IF ks[i].full THEN ks[i].data ELSE SymDiff(snap[i - 1], ks[i].data)
  IN  snap

BytesOf(ks, from, to) == SumFunction([i \in from..to |-> ks[i].bytes])

\* Mutant: the last keyframe is never counted.
TrailingDeltasButLast(ks) ==
  Min({k \in 0..Len(ks) : k = Len(ks) \/ ks[Len(ks) - k].full}) - 1

\* The deltas that end the chain.
TrailingDeltas(ks) ==
  Min({k \in 0..Len(ks) : k = Len(ks) \/ ks[Len(ks) - k].full})

-----------------------------------------------------------------------------
(* Operations *)

Empty ==
  [keyframes |-> <<>>, bytes |-> 0, inputs |-> <<>>, inputBase |-> 0, sinceFull |-> 0]

OnGrid(frame) == frame % KeyframeInterval = 0

RecordInput(h, frame, mask) ==
  LET base  == IF h.inputs = <<>> THEN frame ELSE h.inputBase
      index == frame - base + 1
      n     == Len(h.inputs)
  IN  IF index < 1
        THEN h
        ELSE [h EXCEPT
               !.inputBase = base,
               !.inputs = [i \in 1..(IF index > n THEN index ELSE n) |->
                             IF i = index THEN mask ELSE IF i <= n THEN h.inputs[i] ELSE 0]]

InputAt(h, frame) ==
  LET i == frame - h.inputBase + 1
  IN  IF i \in 1..Len(h.inputs) THEN h.inputs[i] ELSE 0

\* How many keyframes are left once those after `frame` are popped off the end.
Kept(ks, frame) ==
  Min({k \in 0..Len(ks) : \A i \in k + 1..Len(ks) : ks[i].frame > frame})

TruncateAfter(h, frame) ==
  LET ks   == SubSeq(h.keyframes, 1, Kept(h.keyframes, frame))
      keep == frame + 1 - h.inputBase
  IN  [h EXCEPT
        !.keyframes = ks,
        !.bytes = @ - BytesOf(h.keyframes, Len(ks) + 1, Len(h.keyframes)),
        !.inputs = IF keep < Len(@) THEN SubSeq(@, 1, keep) ELSE @,
        !.sinceFull = TrailingDeltas(ks)]

\* Where the budget may cut: before a full keyframe, or, past the last full one,
\* before any delta, which is then materialized.
CutPoints(ks) ==
  {s \in 1..Len(ks) : s = 1 \/ ks[s].full \/ \A i \in s..Len(ks) : ~ks[i].full}

\* Mutant: the materialized keyframe keeps the size of its delta.
BytesAfterCutUnadjusted(h, s) == h.bytes - BytesOf(h.keyframes, 1, s - 1)

BytesAfterCut(h, s) ==
  LET first == h.keyframes[s]
  IN  h.bytes - BytesOf(h.keyframes, 1, s - 1)
        + (IF first.full THEN 0 ELSE SnapshotBytes - first.bytes)

\* The loop stops at the first cut that fits, or with one keyframe left.
Cut(h) ==
  Min({s \in CutPoints(h.keyframes) :
         s = Len(h.keyframes) \/ BytesAfterCut(h, s) <= MaxBytes})

CutBefore(ks, s) ==
  [i \in 1..(Len(ks) - s + 1) |->
     IF i = 1 THEN FullKeyframe(ks[s].frame, Decoded(ks)[s]) ELSE ks[s + i - 1]]

\* Mutant: the inputs are cut and their base stays.
EnforceBudgetOldBase(h) ==
  LET s   == Cut(h)
      cut == h.keyframes[s].frame - h.inputBase
  IN  IF s = 1
        THEN h
        ELSE [h EXCEPT
               !.keyframes = CutBefore(h.keyframes, s),
               !.bytes = BytesAfterCut(h, s),
               !.inputs = IF cut > 0 THEN SubSeq(@, cut + 1, Len(@)) ELSE @]

EnforceBudget(h) ==
  LET s    == Cut(h)
      base == h.keyframes[s].frame
      cut  == base - h.inputBase
  IN  IF s = 1
        THEN h
        ELSE [h EXCEPT
               !.keyframes = CutBefore(h.keyframes, s),
               !.bytes = BytesAfterCut(h, s),
               !.inputs = IF cut > 0 THEN SubSeq(@, cut + 1, Len(@)) ELSE @,
               !.inputBase = IF cut > 0 THEN base ELSE @]

\* Mutant: one delta too many between full keyframes.
AppendKeyframeLateFull(h, frame, snap) ==
  LET ks    == h.keyframes
      full  == ks = <<>> \/ h.sinceFull > FullEvery
      entry == IF full THEN FullKeyframe(frame, snap)
                       ELSE DeltaKeyframe(frame, SymDiff(Decoded(ks)[Len(ks)], snap))
  IN  [h EXCEPT
        !.keyframes = Append(ks, entry),
        !.bytes = @ + entry.bytes,
        !.sinceFull = IF full THEN 0 ELSE @ + 1]

AppendKeyframe(h, frame, snap) ==
  LET ks    == h.keyframes
      full  == ks = <<>> \/ h.sinceFull >= FullEvery
      entry == IF full THEN FullKeyframe(frame, snap)
                       ELSE DeltaKeyframe(frame, SymDiff(Decoded(ks)[Len(ks)], snap))
  IN  [h EXCEPT
        !.keyframes = Append(ks, entry),
        !.bytes = @ + entry.bytes,
        !.sinceFull = IF full THEN 0 ELSE @ + 1]

\* Mutant: the budget is enforced before the keyframe is stored.
PushAfterBudget(h, frame, snap) ==
  LET ks == h.keyframes
      t  == IF ks # <<>> /\ ks[Len(ks)].frame >= frame THEN TruncateAfter(h, frame - 1) ELSE h
  IN  AppendKeyframe(IF t.keyframes = <<>> THEN t ELSE EnforceBudget(t), frame, snap)

Push(h, frame, snap) ==
  LET ks == h.keyframes
      t  == IF ks # <<>> /\ ks[Len(ks)].frame >= frame THEN TruncateAfter(h, frame - 1) ELSE h
  IN  EnforceBudget(AppendKeyframe(t, frame, snap))

EarliestFrame(h) == h.keyframes[1].frame

\* The nearest keyframe at or before `frame`; the caller has checked there is one.
KeyframeAtOrBefore(h, frame) ==
  LET i == Kept(h.keyframes, frame)
  IN  [frame |-> h.keyframes[i].frame, snapshot |-> Decoded(h.keyframes)[i]]

-----------------------------------------------------------------------------
(* A history driven the way a session drives it *)

\* Start again from a machine that was not reached by running.
Anchor(f, snap) ==
  /\ history' = Push(Empty, f, snap)
  /\ now' = f

\* A frame completed: its input, then a keyframe if the next one is due.
FinishFrame(mask, snap) ==
  /\ now < MaxFrame
  /\ now' = now + 1
  /\ LET h == RecordInput(history, now, mask)
     IN  history' = IF OnGrid(now + 1) THEN Push(h, now + 1, snap) ELSE h

\* The machine was put back in frame f; at its start a due keyframe is stored again.
GoBack(f, snap, atStart) ==
  /\ f \in EarliestFrame(history)..now
  /\ now' = f
  /\ LET h == TruncateAfter(history, f)
     IN  history' = IF atStart /\ OnGrid(f) THEN Push(h, f, snap) ELSE h

Init ==
  /\ now \in 0..MaxFrame
  /\ \E snap \in Snapshots : history = Push(Empty, now, snap)

Next ==
  \/ \E f \in 0..MaxFrame, snap \in Snapshots : Anchor(f, snap)
  \/ \E mask \in Masks, snap \in Snapshots : FinishFrame(mask, snap)
  \/ \E f \in 0..MaxFrame, snap \in Snapshots, atStart \in BOOLEAN : GoBack(f, snap, atStart)

Spec == Init /\ [][Next]_vars

-----------------------------------------------------------------------------
(* Properties *)

\* The fields have their types (rewind.ts l.33-38); what the byte count is worth is
\* WithinBudget's business.
TypeOK ==
  /\ history.keyframes \in Seq(Keyframe)
  /\ history.inputs \in Seq(Masks)
  /\ history.inputBase \in Nat
  /\ history.sinceFull \in Nat
  /\ now \in Nat

\* A restore never applies more than FullEvery deltas, wherever rewinds truncated the
\* chain and the budget cut it (the promise of rewind.ts l.1-8).
RestoreBounded ==
  \A i \in 1..Len(history.keyframes) :
    \E j \in 1..i : history.keyframes[j].full /\ i - j <= FullEvery

\* The budget holds on what is kept, unless a single keyframe is all there is: the byte
\* count that decides is that of the keyframes, through every pop, splice and
\* materialization that adjusts it (#bytes in push, truncateAfter and #enforceBudget).
WithinBudget ==
  LET kept == BytesOf(history.keyframes, 1, Len(history.keyframes))
  IN  history.bytes = kept /\ (kept <= MaxBytes \/ Len(history.keyframes) = 1)

\* What a history holds, as a caller reads it back.
Starts(h) ==
  {<<h.keyframes[i].frame, Decoded(h.keyframes)[i]>> : i \in 1..Len(h.keyframes)}

Held(h, before) == [f \in EarliestFrame(h)..before - 1 |-> InputAt(h, f)]

Exact == INSTANCE ExactHistory WITH start <- Starts(history), held <- Held(history, now)

\* Every kept keyframe decodes to the snapshot pushed for its frame in the current
\* timeline, and every frame since the earliest has the buttons recorded for it:
\* the delta chain implements a history that stores everything verbatim.
ImplementsExact == Exact!Spec
=================================================================================
