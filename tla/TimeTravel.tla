-------------------------------- MODULE TimeTravel --------------------------------
(***************************************************************************)
(* Time travel in a debugging session                                      *)
(* (packages/debug-core/src/session.ts): the session runs a deterministic  *)
(* machine a frame at a time, logs the buttons of each frame and keeps     *)
(* keyframes in its RewindHistory; it goes back by restoring a keyframe    *)
(* and replaying the log, and it records and replays takes.                *)
(*                                                                         *)
(* The machine is what determinism makes of it: everything it has read so  *)
(* far.  `log` holds, for each instruction since power-on, the buttons it  *)
(* ran with, so two machines are the same when their logs are.  A frame is *)
(* a fixed number of polls of the stop predicate, `slots`; in some of them *)
(* the CPU sleeps and nothing executes.  If the program asked for keypad   *)
(* interrupts, setting the buttons with one held requests one, and that is *)
(* in the log too, as is a write the user made to memory or a register.    *)
(*                                                                         *)
(* Commands are synchronous: each is one step.  A paced run is a step per  *)
(* tick of the host's interval, with other commands between the ticks.  A  *)
(* step that takes several frames is a run none interrupted.               *)
(***************************************************************************)
EXTENDS Integers, Sequences, FiniteSets, SequencesExt

CONSTANTS
  Masks,             \* button masks; 0 is "none held"
  Slots,             \* polls of the stop predicate in a frame
  Asleep,            \* those at which the CPU is halted
  KeypadIrq,         \* whether the program enabled keypad interrupts
  SavedStates,       \* machines that save states made earlier hold
  KeyframeInterval, FullEvery, MaxBytes, SnapshotBytes, DeltaHeader,  \* of the history
  MaxFrame,          \* bound on the frames of a run
  MaxTakes,          \* bound on the takes recorded: 0 or 1
  MaxWrites,         \* bound on the user's writes a machine holds
  None               \* JavaScript's null

KeypadRequest == -1
UserWrite == -2

\* What a machine is, all of it.
Machine ==
  [frame : Nat, slot : 0..Slots - 1, buttons : Masks, log : Seq(Masks \cup {KeypadRequest, UserWrite})]

ASSUME SessionAssumption ==
  /\ Masks \subseteq Nat
  /\ 0 \in Masks
  /\ Slots \in Nat \ {0}
  /\ Asleep \subseteq 0..Slots - 1
  /\ KeypadIrq \in BOOLEAN
  /\ KeyframeInterval \in Nat \ {0}
  /\ FullEvery \in Nat \ {0}
  /\ {MaxBytes, SnapshotBytes, DeltaHeader} \subseteq Nat
  /\ MaxFrame \in Nat
  /\ \A m \in SavedStates : m \in Machine /\ m.frame <= MaxFrame
  /\ None \notin Nat

VARIABLES
  machine,       \* the emulator
  state,         \* "stopped" or "running", the paced run
  instrInFrame,  \* instructions counted since the current frame began
  pending,       \* #pendingButtons: held, but not yet pressed on the machine
  history,       \* the RewindHistory
  recording,     \* #recordingStart and #recordingSnapshot
  take,          \* the take recorded, with the log of the run it was recorded from
  playback       \* the recording being played back

vars == <<machine, state, instrInFrame, pending, history, recording, take, playback>>

\* The cells of a snapshot, one of which has a value for each thing it can hold.
Cells == Int \X Int

H == INSTANCE RewindHistory WITH now <- machine.frame

-----------------------------------------------------------------------------
(* The machine *)

PowerOn == [frame |-> 0, slot |-> 0, buttons |-> 0, log |-> <<>>]

\* Instructions executed before a slot of a frame.
Executed(slot) == Cardinality((0..slot - 1) \ Asleep)

SetButtons(m, mask) ==
  [m EXCEPT
    !.buttons = mask,
    !.log = IF KeypadIrq /\ mask # 0 THEN Append(@, KeypadRequest) ELSE @]

\* Run to a slot of the current frame; Slots is the start of the next frame.
RunTo(m, slot) ==
  LET ran == [i \in 1..Executed(slot) - Executed(m.slot) |-> m.buttons]
  IN  [m EXCEPT
        !.log = @ \o ran,
        !.slot = slot % Slots,
        !.frame = IF slot = Slots THEN @ + 1 ELSE @]

\* A snapshot is the machine laid out in cells, so that deltas between two are as in
\* RewindHistory.
Snapshot(m) ==
  {<<-1, m.frame>>, <<-2, m.slot>>, <<-3, m.buttons>>} \cup {<<i, m.log[i]>> : i \in DOMAIN m.log}

Restored(snap) ==
  LET cell(k) == (CHOOSE c \in snap : c[1] = k)[2]
  IN  [frame |-> cell(-1), slot |-> cell(-2), buttons |-> cell(-3),
       log |-> [i \in 1..Cardinality(snap) - 3 |-> cell(i)]]

-----------------------------------------------------------------------------
(* Running *)

\* As PushIfDue, but with no regard to where in the frame the machine is.
PushAnywhere(h, m, instr) == IF H!OnGrid(m.frame) THEN H!Push(h, m.frame, Snapshot(m)) ELSE h

PushIfDue(h, m, instr) ==
  IF instr = 0 /\ H!OnGrid(m.frame) THEN H!Push(h, m.frame, Snapshot(m)) ELSE h

\* As RunOneFrame, but a frame that ends is logged with the buttons that wait for the next.
RunOneFrameLogsNext(m, held, stopAt) ==
  LET latch  == instrInFrame = 0 /\ held # None
      begun  == IF latch THEN SetButtons(m, held) ELSE m
      waits  == IF latch THEN None ELSE held
      ran    == RunTo(begun, stopAt)
      next   == IF waits # None THEN SetButtons(ran, waits) ELSE ran
      logged == H!RecordInput(history, m.frame, next.buttons)
  IN  IF stopAt < Slots
        THEN /\ machine' = ran
             /\ instrInFrame' = instrInFrame + Executed(stopAt) - Executed(m.slot)
             /\ pending' = waits
             /\ history' = history
        ELSE /\ machine' = next
             /\ instrInFrame' = 0
             /\ pending' = None
             /\ history' = PushIfDue(logged, ran, 0)

\* As RunOneFrame, but the count is not begun again with the next frame.
RunOneFrameCountsOn(m, held, stopAt) ==
  LET latch == instrInFrame = 0 /\ held # None
      begun == IF latch THEN SetButtons(m, held) ELSE m
      waits == IF latch THEN None ELSE held
      ran   == RunTo(begun, stopAt)
      over  == stopAt = Slots
  IN  /\ machine' = IF over /\ waits # None THEN SetButtons(ran, waits) ELSE ran
      /\ instrInFrame' = instrInFrame + Executed(stopAt) - Executed(m.slot)
      /\ pending' = IF over THEN None ELSE waits
      /\ history' = IF over THEN PushIfDue(H!RecordInput(history, m.frame, begun.buttons), ran, 0)
                            ELSE history

\* One frame, or the rest of the current one, from machine m with `held` waiting; the
\* stop predicate accepts slot `stopAt`, or nothing does and the frame completes.
RunOneFrame(m, held, stopAt) ==
  LET latch  == instrInFrame = 0 /\ held # None
      begun  == IF latch THEN SetButtons(m, held) ELSE m
      waits  == IF latch THEN None ELSE held
      ran    == RunTo(begun, stopAt)
      logged == H!RecordInput(history, m.frame, begun.buttons)
  IN  IF stopAt < Slots
        THEN /\ machine' = ran
             /\ instrInFrame' = instrInFrame + Executed(stopAt) - Executed(m.slot)
             /\ pending' = waits
             /\ history' = history
        ELSE /\ machine' = IF waits # None THEN SetButtons(ran, waits) ELSE ran
             /\ instrInFrame' = 0
             /\ pending' = None
             /\ history' = PushIfDue(logged, ran, 0)

\* A step, or a whole frame: stopped again when it returns.
Step(stopAt) ==
  /\ state = "stopped"
  /\ machine.frame < MaxFrame
  /\ RunOneFrame(machine, pending, stopAt)
  /\ playback' = None
  /\ UNCHANGED <<state, recording, take>>

Continue ==
  /\ state = "stopped"
  /\ state' = "running"
  /\ UNCHANGED <<machine, instrInFrame, pending, history, recording, take, playback>>

\* A tick of a run on the user's own input.
Tick(stopAt) ==
  /\ state = "running"
  /\ playback = None
  /\ machine.frame < MaxFrame
  /\ RunOneFrame(machine, pending, stopAt)
  /\ state' = IF stopAt < Slots THEN "stopped" ELSE "running"
  /\ UNCHANGED <<recording, take, playback>>

\* As PlaybackTick, but buttons the user holds go over the recording's.
PlaybackTickUserFirst(stopAt) ==
  /\ state = "running"
  /\ playback # None
  /\ playback.index < Len(playback.frames)
  /\ machine.frame < MaxFrame
  /\ RunOneFrame(SetButtons(machine, playback.frames[playback.index + 1]), pending, stopAt)
  /\ IF stopAt < Slots
       THEN state' = "stopped" /\ playback' = None
       ELSE state' = "running" /\ playback' = [playback EXCEPT !.index = @ + 1]
  /\ UNCHANGED <<recording, take>>

\* A tick of a playback: its buttons go over any the user holds.
PlaybackTick(stopAt) ==
  /\ state = "running"
  /\ playback # None
  /\ playback.index < Len(playback.frames)
  /\ machine.frame < MaxFrame
  /\ RunOneFrame(SetButtons(machine, playback.frames[playback.index + 1]), None, stopAt)
  /\ IF stopAt < Slots
       THEN state' = "stopped" /\ playback' = None
       ELSE state' = "running" /\ playback' = [playback EXCEPT !.index = @ + 1]
  /\ UNCHANGED <<recording, take>>

\* A tick that runs nothing: a pause was asked for, or the recording ran out.
TickStops ==
  /\ state = "running"
  /\ state' = "stopped"
  /\ playback' = None
  /\ UNCHANGED <<machine, instrInFrame, pending, history, recording, take>>

HoldButtons(mask) ==
  /\ IF state = "stopped" /\ instrInFrame = 0
       THEN machine' = SetButtons(machine, mask) /\ pending' = None
       ELSE machine' = machine /\ pending' = mask
  /\ UNCHANGED <<state, instrInFrame, history, recording, take, playback>>

\* A write to a variable, memory or a register: the machine changes, and nothing that
\* history keeps does.
NoteWrite ==
  /\ Cardinality({i \in DOMAIN machine.log : machine.log[i] = UserWrite}) < MaxWrites
  /\ machine' = [machine EXCEPT !.log = Append(@, UserWrite)]
  /\ UNCHANGED <<state, instrInFrame, pending, history, recording, take, playback>>

-----------------------------------------------------------------------------
(* Going back *)

Earliest == H!EarliestFrame(history)

\* As ReplayedFrame, but each frame runs with the buttons of the one before it.
ReplayedFrameLate(frame) ==
  LET key == H!KeyframeAtOrBefore(history, frame)
      at[f \in key.frame..frame] ==
        SetButtons(IF f = key.frame THEN Restored(key.snapshot) ELSE RunTo(at[f - 1], Slots),
                   H!InputAt(history, f - 1))
  IN  at[frame]

\* The machine replayed to the start of `frame`, with that frame's buttons set.
ReplayedFrame(frame) ==
  LET key == H!KeyframeAtOrBefore(history, frame)
      at[f \in key.frame..frame] ==
        SetButtons(IF f = key.frame THEN Restored(key.snapshot) ELSE RunTo(at[f - 1], Slots),
                   H!InputAt(history, f))
  IN  at[frame]

\* #replayTo: stop at the first poll after `instruction` instructions and at or past
\* `cycle`, or run out of frame.
ReplayTo(frame, instruction, cycle) ==
  LET start == ReplayedFrame(frame)
      polls == {s \in start.slot..Slots - 1 :
                  /\ Executed(s) - Executed(start.slot) >= instruction
                  /\ cycle = None \/ s >= cycle}
  IN  IF instruction = 0 /\ cycle = None
        THEN [machine |-> start, instr |-> 0]
      ELSE IF polls = {}
        THEN [machine |-> RunTo(start, Slots), instr |-> 0]
        ELSE [machine |-> RunTo(start, Min(polls)), instr |-> instruction]

\* As FinishRewind, but the future stays in the history.
FinishRewindKeepsFuture(to) ==
  /\ machine' = to.machine
  /\ instrInFrame' = to.instr
  /\ pending' = None
  /\ history' = PushIfDue(history, to.machine, to.instr)
  /\ playback' = None
  /\ UNCHANGED <<state, recording, take>>

FinishRewind(to) ==
  /\ machine' = to.machine
  /\ instrInFrame' = to.instr
  /\ pending' = None
  /\ history' = PushIfDue(H!TruncateAfter(history, to.machine.frame), to.machine, to.instr)
  /\ playback' = None
  /\ UNCHANGED <<state, recording, take>>

RewindToFrame(frame) ==
  LET target == Max({Earliest, Min({frame, machine.frame})})
  IN  /\ state = "stopped"
      /\ ~(target = machine.frame /\ instrInFrame = 0)
      /\ FinishRewind(ReplayTo(target, 0, None))

StepBack ==
  LET before == ReplayedFrame(machine.frame - 1)
      count  == Executed(Slots) - Executed(before.slot)
  IN  /\ state = "stopped"
      /\ IF instrInFrame > 0
           THEN FinishRewind(ReplayTo(machine.frame, instrInFrame - 1, None))
           ELSE /\ Earliest < machine.frame
                /\ FinishRewind(ReplayTo(machine.frame - 1, Max({0, count - 1}), None))

\* The last breakpoint hit before now: an instruction's at the poll before it, an
\* event's or a watchpoint's at any poll, asleep or not.
ReverseContinueToHit(frame, slot, cycle) ==
  LET from  == ReplayedFrame(frame).slot
      count == Executed(slot) - Executed(from)
  IN  /\ state = "stopped"
      /\ frame \in Earliest..machine.frame
      /\ slot >= from
      /\ ~(machine.frame = Earliest /\ instrInFrame = 0)
      /\ cycle = None => slot \notin Asleep
      /\ frame = machine.frame => ~(count >= instrInFrame /\ slot >= machine.slot)
      /\ FinishRewind(ReplayTo(frame, count, cycle))

ReverseContinueToEarliest ==
  /\ state = "stopped"
  /\ ~(machine.frame = Earliest /\ instrInFrame = 0)
  /\ FinishRewind(ReplayTo(Earliest, 0, None))

-----------------------------------------------------------------------------
(* Takes; one is kept *)

StartRecording ==
  /\ take = None
  /\ MaxTakes = 1
  /\ recording' = [start |-> machine.frame, machine |-> machine]
  /\ UNCHANGED <<machine, state, instrInFrame, pending, history, take, playback>>

\* As StopRecording, but it reads the buttons of a frame late.
StopRecordingLate ==
  /\ recording # None
  /\ recording' = None
  /\ take' = [start   |-> recording.start,
              frames  |-> [i \in 1..machine.frame - recording.start |->
                             H!InputAt(history, recording.start + i)],
              machine |-> recording.machine,
              log     |-> SubSeq(machine.log, 1, machine.frame * Executed(Slots))]
  /\ UNCHANGED <<machine, state, instrInFrame, pending, history, playback>>

\* `log` is not in the program: it is the run up to the last frame of the take.
StopRecording ==
  /\ recording # None
  /\ recording' = None
  /\ take' = [start   |-> recording.start,
              frames  |-> [i \in 1..machine.frame - recording.start |->
                             H!InputAt(history, recording.start + i - 1)],
              machine |-> recording.machine,
              log     |-> SubSeq(machine.log, 1, machine.frame * Executed(Slots))]
  /\ UNCHANGED <<machine, state, instrInFrame, pending, history, playback>>

\* `from` is not in the program: the machine the playback began on.
Play(m) == [frames |-> take.frames, index |-> 0, from |-> m]

ReplayHere ==
  /\ state = "stopped"
  /\ take # None
  /\ state' = "running"
  /\ history' = H!TruncateAfter(history, machine.frame)
  /\ playback' = Play(machine)
  /\ UNCHANGED <<machine, instrInFrame, pending, recording, take>>

\* As ReplayFromStart, but a rewind to the start keeps the history after it.
ReplayFromStartKeepsFuture ==
  LET reboot  == take.start = 0 /\ Earliest > 0
      reached == take.start \in Earliest..machine.frame
      m       == IF reboot THEN PowerOn
                 ELSE IF reached THEN ReplayedFrame(take.start)
                 ELSE take.machine
  IN  /\ state = "stopped"
      /\ take # None
      /\ state' = "running"
      /\ machine' = m
      /\ instrInFrame' = 0
      /\ pending' = None
      /\ history' = IF reached THEN history ELSE H!Push(H!Empty, m.frame, Snapshot(m))
      /\ recording' = IF reboot THEN None ELSE recording
      /\ playback' = Play(m)
      /\ UNCHANGED take

\* From its start: restart, rewind, or restore the machine the take kept.
ReplayFromStart ==
  LET reboot  == take.start = 0 /\ Earliest > 0
      reached == take.start \in Earliest..machine.frame
      m       == IF reboot THEN PowerOn
                 ELSE IF reached THEN ReplayedFrame(take.start)
                 ELSE take.machine
  IN  /\ state = "stopped"
      /\ take # None
      /\ state' = "running"
      /\ machine' = m
      /\ instrInFrame' = 0
      /\ pending' = None
      /\ history' = IF reached THEN H!TruncateAfter(history, m.frame)
                               ELSE H!Push(H!Empty, m.frame, Snapshot(m))
      /\ recording' = IF reboot THEN None ELSE recording
      /\ playback' = Play(m)
      /\ UNCHANGED take

-----------------------------------------------------------------------------
(* A machine the session did not reach by running *)

Anchor(m) ==
  /\ machine' = m
  /\ instrInFrame' = 0
  /\ pending' = None
  /\ history' = H!Push(H!Empty, m.frame, Snapshot(m))
  /\ state' = "stopped"
  /\ playback' = None
  /\ UNCHANGED take

Restart == Anchor(PowerOn) /\ recording' = None

LoadState(m) == state = "stopped" /\ Anchor(m) /\ UNCHANGED recording

\* Detached, another driver ran the machine, and the session took it back.
Resync(mask, stopAt) ==
  /\ state = "stopped"
  /\ machine.frame < MaxFrame
  /\ Anchor(RunTo(SetButtons(machine, mask), stopAt))
  /\ recording' = None

-----------------------------------------------------------------------------

Init ==
  /\ machine = PowerOn
  /\ state = "stopped"
  /\ instrInFrame = 0
  /\ pending = None
  /\ history = H!Push(H!Empty, 0, Snapshot(PowerOn))
  /\ recording = None
  /\ take = None
  /\ playback = None

Ahead == machine.slot + 1..Slots

Next ==
  \/ \E slot \in Ahead : Step(slot) \/ Tick(slot) \/ PlaybackTick(slot)
  \/ Continue
  \/ TickStops
  \/ \E mask \in Masks : HoldButtons(mask)
  \/ NoteWrite
  \/ \E frame \in 0..MaxFrame : RewindToFrame(frame)
  \/ StepBack
  \/ \E frame \in 0..MaxFrame, slot \in 0..Slots - 1 :
       ReverseContinueToHit(frame, slot, None) \/ ReverseContinueToHit(frame, slot, slot)
  \/ ReverseContinueToEarliest
  \/ StartRecording
  \/ StopRecording
  \/ ReplayHere
  \/ ReplayFromStart
  \/ Restart
  \/ \E m \in SavedStates : LoadState(m)
  \/ \E mask \in Masks, slot \in Ahead : Resync(mask, slot)

Spec == Init /\ [][Next]_vars
-----------------------------------------------------------------------------
(* Properties *)

\* Every keyframe restores a past of the machine as it is now: going back, replaying,
\* restarting and loading never leave one of an abandoned future (rewind.ts l.105,
\* "the future is discarded on a rewind").
HistoryIsThePast ==
  \A i \in 1..Len(history.keyframes) :
    LET m == Restored(H!Decoded(history.keyframes)[i])
    IN  m.frame = history.keyframes[i].frame /\ IsPrefix(m.log, machine.log)

\* The count stepBack subtracts from is that of the frame, or of what is left of it
\* when history begins inside it (session.ts #instrInFrame).
CountsInstructions ==
  LET from == IF machine.frame = Earliest
                THEN Restored(H!Decoded(history.keyframes)[1]).slot ELSE 0
  IN  instrInFrame = Executed(machine.slot) - Executed(from)

\* What the instructions of a frame ran with, by the log of a machine.
RanWith(frame, log) ==
  LET ran == SelectSeq(log, LAMBDA entry : entry >= 0)
  IN  {ran[i] : i \in frame * Executed(Slots) + 1..Min({Len(ran), (frame + 1) * Executed(Slots)})}

Rewinds ==
  \/ \E frame \in 0..MaxFrame : RewindToFrame(frame)
  \/ StepBack
  \/ \E frame \in 0..MaxFrame, slot \in 0..Slots - 1 :
       ReverseContinueToHit(frame, slot, None) \/ ReverseContinueToHit(frame, slot, slot)
  \/ ReverseContinueToEarliest

\* A replay from history ends in a machine this run went through, provided each frame
\* it covers ran with the one mask the log has for it, and the user wrote nothing since
\* the keyframe it began from (rewind.ts l.1-5).
RewindsInLog ==
  LET key  == H!KeyframeAtOrBefore(history, machine'.frame)
      past == SubSeq(machine.log, 1, Len(machine'.log))
  IN  /\ \A f \in key.frame..machine'.frame : RanWith(f, past) \subseteq {H!InputAt(history, f)}
      /\ \A i \in Len(Restored(key.snapshot).log) + 1..Len(past) : past[i] # UserWrite
      => IsPrefix(machine'.log, machine.log)

\* A frame is logged with the mask it ran with unless that changed inside it, so
\* what limits a rewind is a press in mid-frame and a frame that is not over.
LogsEachFrame ==
  \A f \in Earliest..machine.frame - 1 :
    LET masks == RanWith(f, machine.log)
    IN  Cardinality(masks) = 1 => masks = {H!InputAt(history, f)}

\* A session only drives its history in the ways RewindHistory allows for, and stores
\* no keyframe of a frame of which it has executed something, unless history began
\* inside that frame.  With it, what is proved of RewindHistory holds of a session's
\* history.  A keyframe need not be of the start of its frame, which rewind.ts l.80
\* asks for: a reverse continue that ends where the CPU sleeps through the first polls
\* of a frame (gba.ts #run) has counted no instruction, so #pushKeyframeIfDue replaces
\* the keyframe of that frame by one of its middle.
StepsHistory ==
  \/ H!Anchor(machine'.frame, Snapshot(machine'))
  \/ \E mask, next \in Masks :
       H!FinishFrame(mask, Snapshot([machine' EXCEPT !.buttons = next]))
  \/ \E atStart \in BOOLEAN :
       /\ atStart => Executed(machine'.slot) = 0 \/ machine'.frame = Earliest
       /\ H!GoBack(machine'.frame, Snapshot(machine'), atStart)

\* A take has the masks its frames ran with, as long as history reaches its start.
TakesWhatRan ==
  StopRecording /\ recording.start >= Earliest =>
    \A i \in DOMAIN take'.frames :
      LET masks == RanWith(recording.start + i - 1, machine.log)
      IN  Cardinality(masks) = 1 => masks = {take'.frames[i]}

\* A take played where the run it was recorded from had the same machine reproduces
\* that run, provided each frame ran with the mask the take has for it.
PlaysTheTake ==
  LET E == Executed(Slots)
  IN  /\ playback # None
      /\ playback.from.frame = take.start
      /\ playback.from.slot = 0
      /\ IsPrefix(playback.from.log, take.log)
      /\ \A i \in 1..playback.index, k \in 1..E :
           take.log[(take.start + i - 1) * E + k] = take.frames[i]
      => IsPrefix(machine.log, take.log)

\* Going back an instruction ends in a machine this run went through (stepBack,
\* "exactly one instruction back").
StepsBackToThePast == StepBack => IsPrefix(machine'.log, machine.log)
=================================================================================
