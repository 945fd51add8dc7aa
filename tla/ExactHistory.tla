------------------------------ MODULE ExactHistory ------------------------------
(***************************************************************************)
(* What a rewind history promises its caller, with no deltas, no budget    *)
(* and no arrays: the snapshots of some past frame starts and the buttons  *)
(* of every frame since the oldest of them, exactly as they were.  How far *)
(* back it reaches is the implementation's business, so any step that      *)
(* stores something may also forget a prefix; what remains is never        *)
(* altered.                                                                *)
(***************************************************************************)
EXTENDS Integers

CONSTANTS
  Snapshots,         \* states of the machine
  Masks,             \* button masks
  KeyframeInterval,  \* frames between keyframes
  MaxFrame           \* bound on the frames of a run

VARIABLES
  now,    \* the frame the machine is on
  start,  \* pairs <<frame, snapshot>>: the frame starts that can be restored
  held    \* the buttons of each completed frame since the earliest start

vars == <<now, start, held>>

OnGrid(frame) == frame % KeyframeInterval = 0

\* Keep what is at or after `floor`, one of the frames of `starts`.
Since(starts, inputs, floor) ==
  /\ start' = {p \in starts : p[1] >= floor}
  /\ held' = [f \in {g \in DOMAIN inputs : g >= floor} |-> inputs[f]]

FrameIn(starts) == {p[1] : p \in starts}

\* The history begins again at frame f.
Anchor(f, s) ==
  /\ now' = f
  /\ start' = {<<f, s>>}
  /\ held' = [g \in {} |-> 0]

\* Frame `now` completed with `mask` held; s is the machine the next one begins with.
Finish(mask, s) ==
  LET inputs == [f \in DOMAIN held \cup {now} |-> IF f = now THEN mask ELSE held[f]]
      starts == IF OnGrid(now + 1) THEN start \cup {<<now + 1, s>>} ELSE start
  IN  /\ now' = now + 1
      /\ \E floor \in FrameIn(starts) : Since(starts, inputs, floor)

\* The machine is put back inside frame f, or, when s is given, at its start.
GoBack(f, s, atStart) ==
  LET inputs == [g \in {h \in DOMAIN held : h < f} |-> held[g]]
      starts == IF atStart /\ OnGrid(f)
                  THEN {p \in start : p[1] < f} \cup {<<f, s>>}
                  ELSE {p \in start : p[1] <= f}
  IN  /\ f <= now
      /\ \E g \in FrameIn(start) : g <= f
      /\ now' = f
      /\ \E floor \in FrameIn(starts) : Since(starts, inputs, floor)

Init ==
  /\ now \in 0..MaxFrame
  /\ \E s \in Snapshots : start = {<<now, s>>}
  /\ held = [g \in {} |-> 0]

Next ==
  \/ \E f \in 0..MaxFrame, s \in Snapshots : Anchor(f, s)
  \/ \E mask \in Masks, s \in Snapshots : Finish(mask, s)
  \/ \E f \in 0..MaxFrame, s \in Snapshots, atStart \in BOOLEAN : GoBack(f, s, atStart)

Spec == Init /\ [][Next]_vars
=================================================================================
