------------------------------ MODULE Drivers ------------------------------
(***************************************************************************)
(* Who drives the machine of the web app.  The Play page drives it through *)
(* an `EmulatorBridge` (gba-browser/src/emulator.ts), whose loop runs the  *)
(* frames a `FrameClock` finds due in each animation frame; its recorder   *)
(* panel also drives it, replaying recorded input (script-replayer.ts);    *)
(* the Debug page drives it through a debug session that use-session.ts    *)
(* makes, attaches and takes off.  All three move one `Gba`.               *)
(*                                                                         *)
(* A task of the page is one action: a click with the effects React runs   *)
(* for it, an animation-frame callback, a tick of the session's interval   *)
(* with the microtask it queues, the settling of a promise.  The machine   *)
(* is a version, which every frame and every load makes a new one, and the *)
(* buttons held; a picture is the version it was read from.                *)
(***************************************************************************)
EXTENDS Integers, Sequences, FiniteSets

CONSTANTS Moves,        \* what the user does: a subset of AllMoves
          Buttons,      \* the keys of KEY_MAP the user presses
          Elapsed,      \* the times between two animation frames
          Gaps,         \* how long a pause lasts
          FRAME,        \* FRAME_MS: the time one frame of the machine takes
          MaxVersion,   \* bound: versions of the machine
          MaxKeys,      \* bound: times a key goes down or up
          MaxMakings    \* bound: sessions whose creation begins

\* MAX_FRAMES_PER_CALLBACK
MAX_FRAMES == 4

VARIABLES page,       \* the page and tab shown; loading: the `active` a load still reading
                      \* began in; asked: a recording waits to start, for a panel still
                      \* "here" or "gone"
          bridge,     \* [state, due, clock, gap]: due, a loop callback is scheduled
          machine,    \* [version, held, sink]: sink, whose hooks are on it, 0 nobody's
          image,      \* the version #framebufferImage was read from
          makings,    \* sessions under creation: id |-> [built, cancelled]
          session,    \* [id, state, pause, known, handing]; id = 0: there is none
          recorder,   \* the InputRecorder
          panel,      \* the recorder panel's own state, lost when it unmounts
          replay,     \* replayVisual's closure
          ghost       \* what really ran, and the key moves made

vars == <<page, bridge, machine, image, makings, session, recorder, panel, replay, ghost>>

----------------------------------------------------------------------------
(* The frame clock.                                                        *)

Stopped == [started |-> FALSE, owed |-> 0]

\* framesDue: [frames, clock] for a call `elapsed` after the previous one.
FramesDue(clock, elapsed) ==
  IF ~clock.started
  THEN [frames |-> 1, clock |-> [started |-> TRUE, owed |-> 0]]
  ELSE LET owed == clock.owed + elapsed
           due  == owed \div FRAME
       IN IF due > MAX_FRAMES
          THEN [frames |-> MAX_FRAMES, clock |-> [started |-> TRUE, owed |-> 0]]
          ELSE [frames |-> due, clock |-> [started |-> TRUE, owed |-> owed % FRAME]]

----------------------------------------------------------------------------
(* The recorder: segments of the buttons held and the frames they lasted.  *)

Blank == [state |-> "idle", segments |-> <<>>, held |-> {}, frames |-> 0]

LiveSegments(r) ==
  IF r.frames = 0 THEN r.segments
  ELSE Append(r.segments, [buttons |-> r.held, frames |-> r.frames])

CloseSegment(r) == [r EXCEPT !.segments = LiveSegments(r), !.frames = 0]

\* onFrame, called once for each callback of the loop that ran frames.
Counted(r) == IF r.state = "recording" THEN [r EXCEPT !.frames = @ + 1] ELSE r

Pressed(r, b) ==
  IF r.state = "recording" /\ b \notin r.held
  THEN [CloseSegment(r) EXCEPT !.held = @ \union {b}] ELSE r

Released(r, b) ==
  IF r.state = "recording" /\ b \in r.held
  THEN [CloseSegment(r) EXCEPT !.held = @ \ {b}] ELSE r

Concluded(r) == IF r.state = "recording" THEN [CloseSegment(r) EXCEPT !.state = "stopped"] ELSE r

RECURSIVE Expand(_)
\* The buttons of each frame the segments stand for.
Expand(segments) ==
  IF segments = <<>> THEN <<>>
  ELSE [i \in 1 .. Head(segments).frames |-> Head(segments).buttons] \o Expand(Tail(segments))

----------------------------------------------------------------------------
(* The replay.  Each frame due runs `advance`: the buttons of a segment    *)
(* are pressed with its first frame.                                       *)

NoReplay == [on |-> FALSE, clock |-> Stopped, segments |-> <<>>, at |-> 1, in |-> 0,
             held |-> {}, alone |-> TRUE, whole |-> FALSE]

\* applySegmentButtons on the buttons the machine holds.
Applied(held, before, now) == (held \ (before \ now)) \union (now \ before)

\* Mutant: a segment ends a frame late.
SegmentOverLate(inSegment, frames) == inSegment > frames

\* Whether the frame just run was the segment's last.
SegmentOver(inSegment, frames) == inSegment >= frames

(* `advance`, on [rp, held, played]: played gains the buttons of the frame *)
(* run; the call after the last segment releases everything and ends.      *)
Advance(s) ==
  IF s.rp.at > Len(s.rp.segments)
  THEN [s EXCEPT !.rp.on = FALSE, !.rp.held = {}, !.held = @ \ s.rp.held]
  ELSE LET seg  == s.rp.segments[s.rp.at]
           first == s.rp.in = 0
           held == IF first THEN Applied(s.held, s.rp.held, seg.buttons) ELSE s.held
           over == SegmentOver(s.rp.in + 1, seg.frames)
       IN [rp |-> [s.rp EXCEPT !.held = IF first THEN seg.buttons ELSE @,
                               !.at = IF over THEN @ + 1 ELSE @,
                               !.in = IF over THEN 0 ELSE @ + 1],
           held |-> held,
           played |-> Append(s.played, held)]

RECURSIVE Advances(_, _)
Advances(s, n) == IF n = 0 \/ ~s.rp.on THEN s ELSE Advances(Advance(s), n - 1)

----------------------------------------------------------------------------
NoSession == [id |-> 0, state |-> "stopped", pause |-> FALSE, known |-> 0, handing |-> FALSE]

NoPanel == [segments |-> <<>>, stopped |-> FALSE, snapshot |-> FALSE,
            replaying |-> FALSE]

Init ==
  /\ page = [mode |-> "play", tab |-> "controls", loading |-> <<>>, asked |-> "no"]
  /\ bridge = [state |-> "paused", due |-> FALSE, clock |-> Stopped, gap |-> 0]
  /\ machine = [version |-> 1, held |-> {}, sink |-> 0]
  /\ image = 0
  /\ makings = <<>>
  /\ session = NoSession
  /\ recorder = Blank
  /\ panel = NoPanel
  /\ replay = NoReplay
  /\ ghost = [ran |-> <<>>, clean |-> TRUE, single |-> TRUE, played |-> <<>>,
              time |-> 0, frames |-> 0, capped |-> FALSE, keys |-> 0, behind |-> FALSE]

Playing == page.mode = "play"

\* The recorder panel unmounts: what waited for it finds it gone.
Unmounted(p) == [p EXCEPT !.asked = IF @ = "here" THEN "gone" ELSE @]

Live == session.id # 0

\* The bridge stops driving: pause(), and what loadState and saveState do of it.
PausedBridge == [bridge EXCEPT !.state = "paused", !.due = FALSE]

\* A bridge that a run() sets going, from its pause.
\* Mutant: the clock carries on from before the pause.
RunningBridgeLate ==
  IF bridge.state = "running" THEN bridge
  ELSE [bridge EXCEPT !.state = "running", !.due = TRUE]

RunningBridge ==
  IF bridge.state = "running" THEN bridge
  ELSE [bridge EXCEPT !.state = "running", !.due = TRUE, !.clock.started = FALSE]

\* The ghost of a loop that begins anew with a run().
Begun(g) == IF bridge.state = "running" THEN g
            ELSE [g EXCEPT !.time = 0, !.frames = 0, !.capped = FALSE]

----------------------------------------------------------------------------
(* The session: made, resynchronised, taken off, disposed of.              *)

\* resync: stops the session's own run, counts from here, its hooks are on.
\* Mutant: a resync does not look at what the machine is now.
ResyncedKnowing(s, v) == [s EXCEPT !.state = "stopped", !.pause = FALSE]

Resynced(s, v) == [s EXCEPT !.state = "stopped", !.pause = FALSE, !.known = v]

\* The effect of romData, elfData or `active` changing: what was being made is not adopted.
Cancelled(m) == [i \in DOMAIN m |-> [m[i] EXCEPT !.cancelled = TRUE]]

Begins(m) == Append(m, [built |-> FALSE, cancelled |-> FALSE, gone |-> FALSE])

CanBegin == Len(makings) < MaxMakings

\* Session.create gets its ROM hash and constructs: hooks on, history begun.
Build(i) ==
  /\ ~makings[i].built
  /\ \A j \in 1 .. i - 1 : makings[j].built
  /\ makings' = [makings EXCEPT ![i].built = TRUE]
  /\ machine' = [machine EXCEPT !.sink = i]
  /\ UNCHANGED <<page, bridge, image, session, recorder, panel, replay, ghost>>

\* The labels are read: the session is adopted and resynchronised, or disposed of.
Adopt(i) ==
  /\ makings[i].built
  /\ ~makings[i].gone
  /\ makings' = [makings EXCEPT ![i].gone = TRUE]
  /\ IF makings[i].cancelled
     THEN /\ machine' = [machine EXCEPT !.sink = IF @ = i THEN 0 ELSE @]
          /\ UNCHANGED <<bridge, session>>
     ELSE /\ session' = [Resynced(NoSession, machine.version) EXCEPT !.id = i]
          /\ machine' = [machine EXCEPT !.sink = i]
          /\ bridge' = IF bridge.state = "running" THEN PausedBridge ELSE bridge
  /\ UNCHANGED <<page, image, recorder, panel, replay, ghost>>

\* The hooks of a session that is disposed of or detached.
Unhooked == IF machine.sink = session.id THEN 0 ELSE machine.sink

----------------------------------------------------------------------------
(* Turning the page.                                                       *)

MayTurn == "mode" \in Moves

\* Either page sets right what a state loaded behind a turn of the page left.
Turned == [ghost EXCEPT !.behind = FALSE]

\* Debug is shown: the bridge pauses; a session there is catches up, else one is begun.
EnterDebug ==
  /\ MayTurn
  /\ Playing
  /\ page' = [Unmounted(page) EXCEPT !.mode = "debug", !.tab = "controls"]
  /\ panel' = NoPanel
  /\ \E g \in Gaps : bridge' = IF bridge.state = "running"
                               THEN [PausedBridge EXCEPT !.gap = g] ELSE bridge
  /\ IF Live
     THEN /\ session' = [Resynced(session, machine.version) EXCEPT !.handing = FALSE]
          /\ machine' = [machine EXCEPT !.sink = session.id]
          /\ UNCHANGED makings
     ELSE /\ CanBegin
          /\ makings' = Begins(makings)
          /\ UNCHANGED <<session, machine>>
  /\ ghost' = Turned
  /\ UNCHANGED <<image, recorder, replay>>

(* Play is shown: the session is asked to pause, the canvas repainted; the *)
(* hooks come off now if the session is stopped, else when it stops.       *)
LeaveDebug ==
  /\ MayTurn
  /\ ~Playing
  /\ page' = [page EXCEPT !.mode = "play"]
  /\ makings' = IF Live THEN makings ELSE Cancelled(makings)
  /\ IF ~Live
     THEN UNCHANGED <<session, machine, image>>
     ELSE /\ image' = machine.version
          /\ IF session.state = "stopped"
             THEN /\ machine' = [machine EXCEPT !.sink = Unhooked]
                  /\ UNCHANGED session
             ELSE /\ session' = [session EXCEPT !.pause = TRUE, !.handing = TRUE]
                  /\ UNCHANGED machine
  /\ ghost' = Turned
  /\ UNCHANGED <<bridge, recorder, panel, replay>>

SwitchTab ==
  /\ Playing
  /\ Moves \intersect {"record", "replay"} # {}
  /\ page' = [Unmounted(page) EXCEPT !.tab = IF @ = "controls" THEN "recorder" ELSE "controls"]
  /\ panel' = NoPanel
  /\ UNCHANGED <<bridge, machine, image, makings, session, recorder, replay, ghost>>

\* A ROM is loaded over the one played: the session is of the other ROM.
LoadRom ==
  /\ "rom" \in Moves
  /\ Playing /\ page.tab = "controls"
  /\ machine.version < MaxVersion
  /\ machine' = [version |-> machine.version + 1, held |-> {}, sink |-> Unhooked]
  /\ bridge' = PausedBridge
  /\ session' = NoSession
  /\ UNCHANGED <<page, image, makings, recorder, panel, replay, ghost>>

\* An ELF arrives: the session is rebuilt, at once when Debug is shown.
LoadElf ==
  /\ "elf" \in Moves
  /\ IF Playing THEN makings' = makings
     ELSE CanBegin /\ makings' = Begins(Cancelled(makings))
  /\ machine' = [machine EXCEPT !.sink = Unhooked]
  /\ session' = NoSession
  /\ UNCHANGED <<page, bridge, image, recorder, panel, replay, ghost>>

----------------------------------------------------------------------------
(* The Play page.                                                          *)

Run ==
  /\ Playing /\ page.tab = "controls"
  /\ bridge.state # "running"
  /\ bridge' = RunningBridge
  /\ ghost' = Begun(ghost)
  /\ UNCHANGED <<page, machine, image, makings, session, recorder, panel, replay>>

Pause ==
  /\ Playing /\ page.tab = "controls"
  /\ bridge.state = "running"
  /\ \E g \in Gaps : bridge' = [PausedBridge EXCEPT !.gap = g]
  /\ UNCHANGED <<page, machine, image, makings, session, recorder, panel, replay, ghost>>

(* #emulationLoop: the frames due, then the last is painted and the        *)
(* callbacks hear of one frame.                                            *)
LoopCallback(elapsed) ==
  /\ bridge.state = "running" /\ bridge.due
  /\ LET since == elapsed + bridge.gap
         due   == FramesDue(bridge.clock, since)
         n     == due.frames
     IN /\ machine.version + n <= MaxVersion
        /\ bridge' = [bridge EXCEPT !.clock = due.clock, !.gap = 0]
        /\ machine' = [machine EXCEPT !.version = @ + n]
        /\ image' = IF n > 0 THEN machine.version + n ELSE image
        /\ recorder' = IF n > 0 THEN Counted(recorder) ELSE recorder
        /\ replay' = [replay EXCEPT !.alone = @ /\ (n = 0 \/ ~replay.on)]
        /\ ghost' = [ghost EXCEPT
             !.ran = IF recorder.state = "recording"
                     THEN @ \o [i \in 1 .. n |-> machine.held] ELSE @,
             !.single = @ /\ (n <= 1 \/ recorder.state # "recording"),
             !.time = IF ghost.frames = 0 THEN 0 ELSE @ + elapsed,
             !.frames = @ + n,
             !.capped = @ \/ (ghost.frames > 0 /\ (ghost.time % FRAME) + elapsed >= FRAME * (MAX_FRAMES + 1))]
  /\ UNCHANGED <<page, makings, session, panel>>

\* A key goes to the machine while Play is shown, and to a recorder wherever it is.
KeyDown(b) ==
  /\ "keys" \in Moves /\ ghost.keys < MaxKeys
  /\ machine' = IF Playing THEN [machine EXCEPT !.held = @ \union {b}] ELSE machine
  /\ recorder' = Pressed(recorder, b)
  /\ ghost' = [ghost EXCEPT !.keys = @ + 1]
  /\ replay' = [replay EXCEPT !.alone = @ /\ ~replay.on]
  /\ UNCHANGED <<page, bridge, image, makings, session, panel>>

KeyUp(b) ==
  /\ "keys" \in Moves /\ ghost.keys < MaxKeys
  /\ machine' = IF Playing THEN [machine EXCEPT !.held = @ \ {b}] ELSE machine
  /\ recorder' = Released(recorder, b)
  /\ ghost' = [ghost EXCEPT !.keys = @ + 1]
  /\ replay' = [replay EXCEPT !.alone = @ /\ ~replay.on]
  /\ UNCHANGED <<page, bridge, image, makings, session, panel>>

\* bridge.saveState: it pauses and stays paused; the picture is read again.
SaveState ==
  /\ "load" \in Moves
  /\ bridge' = IF bridge.state = "running" THEN PausedBridge ELSE bridge
  /\ image' = machine.version
  /\ UNCHANGED <<page, machine, makings, session, recorder, panel, replay, ghost>>

\* The drawer's row is clicked: its handler has the `active` of its render.
LoadAsked ==
  /\ "load" \in Moves
  /\ page.loading = <<>>
  /\ page' = [page EXCEPT !.loading = <<page.mode = "debug">>]
  /\ UNCHANGED <<bridge, machine, image, makings, session, recorder, panel, replay, ghost>>

(* The state is read: bridge.loadState, then onStateLoaded, as of the page  *)
(* the row was clicked on.  A stop Play still waits for takes the hooks     *)
(* off again.                                                               *)
LoadDone ==
  /\ page.loading # <<>>
  /\ machine.version < MaxVersion
  /\ page' = [page EXCEPT !.loading = <<>>]
  /\ bridge' = PausedBridge
  /\ image' = machine.version + 1
  /\ LET catches == page.loading[1] /\ Live
     IN /\ machine' = [version |-> machine.version + 1, held |-> {},
                       sink |-> IF ~catches THEN machine.sink
                                ELSE IF session.handing THEN 0 ELSE session.id]
        /\ session' = IF catches THEN Resynced(session, machine.version + 1) ELSE session
  /\ recorder' = Counted(recorder)
  /\ replay' = [replay EXCEPT !.alone = @ /\ ~replay.on]
  /\ ghost' = [ghost EXCEPT !.clean = @ /\ recorder.state # "recording",
                             !.behind = @ \/ (Live /\ page.loading[1] = Playing)]
  /\ UNCHANGED <<makings, panel>>

----------------------------------------------------------------------------
(* The recorder panel.                                                     *)

\* Record: the state is saved first, and the rest waits for its thumbnail.
RecordAsked ==
  /\ "record" \in Moves
  /\ Playing /\ page.tab = "recorder"
  /\ recorder.state # "recording" /\ ~panel.replaying /\ page.asked = "no"
  /\ bridge' = IF bridge.state = "running" THEN PausedBridge ELSE bridge
  /\ image' = machine.version
  /\ page' = [page EXCEPT !.asked = "here"]
  /\ UNCHANGED <<machine, makings, session, recorder, panel, replay, ghost>>

RecordStarted ==
  /\ page.asked # "no"
  /\ page' = [page EXCEPT !.asked = "no"]
  /\ panel' = IF page.asked = "gone" THEN panel
              ELSE [NoPanel EXCEPT !.snapshot = TRUE, !.replaying = panel.replaying]
  /\ recorder' = [Blank EXCEPT !.state = "recording"]
  /\ bridge' = RunningBridge
  /\ ghost' = [Begun(ghost) EXCEPT !.ran = <<>>, !.single = TRUE, !.clean = (machine.held = {} /\ ~replay.on)]
  /\ UNCHANGED <<machine, image, makings, session, replay>>

RecordStopped ==
  /\ Playing /\ page.tab = "recorder"
  /\ recorder.state = "recording"
  /\ recorder' = Concluded(recorder)
  /\ bridge' = IF bridge.state = "running" THEN PausedBridge ELSE bridge
  /\ panel' = [panel EXCEPT !.segments = Concluded(recorder).segments, !.stopped = TRUE]
  /\ UNCHANGED <<page, machine, image, makings, session, replay, ghost>>

\* replayVisual, from the start when there is a snapshot of it.
ReplayStarted ==
  /\ "replay" \in Moves
  /\ Playing /\ page.tab = "recorder"
  /\ panel.stopped /\ ~panel.replaying /\ ~replay.on
  /\ machine.version < MaxVersion
  /\ bridge' = IF bridge.state = "running" \/ panel.snapshot THEN PausedBridge ELSE bridge
  /\ IF panel.snapshot
     THEN /\ machine' = [machine EXCEPT !.version = @ + 1, !.held = {}]
          /\ image' = machine.version + 1
          /\ recorder' = Counted(recorder)
     ELSE UNCHANGED <<machine, image, recorder>>
  /\ replay' = [NoReplay EXCEPT !.on = TRUE, !.segments = panel.segments,
                                !.whole = panel.snapshot]
  /\ panel' = [panel EXCEPT !.replaying = panel.segments # <<>>]
  /\ ghost' = [ghost EXCEPT !.played = <<>>]
  /\ UNCHANGED <<page, makings, session>>

ReplayCallback(elapsed) ==
  /\ replay.on
  /\ LET due == FramesDue(replay.clock, elapsed)
         s   == Advances([rp |-> replay, held |-> machine.held, played |-> ghost.played],
                         due.frames)
         n   == Len(s.played) - Len(ghost.played)
     IN /\ machine.version + n <= MaxVersion
        /\ replay' = [s.rp EXCEPT !.clock = due.clock]
        /\ machine' = [machine EXCEPT !.version = @ + n, !.held = s.held]
        /\ image' = IF n > 0 THEN machine.version + n ELSE image
        /\ ghost' = [ghost EXCEPT !.played = s.played]
        /\ panel' = [panel EXCEPT !.replaying = @ /\ s.rp.on]
        /\ recorder' = IF recorder.state = "recording"
                       THEN [recorder EXCEPT !.frames = @ + n] ELSE recorder
  /\ UNCHANGED <<page, bridge, makings, session>>

\* Cancel, of the panel that holds the replay's handle.
ReplayCancelled ==
  /\ Playing /\ page.tab = "recorder"
  /\ panel.replaying
  /\ replay' = [replay EXCEPT !.on = FALSE, !.alone = FALSE]
  /\ machine' = [machine EXCEPT !.held = @ \ replay.held]
  /\ panel' = [panel EXCEPT !.replaying = FALSE]
  /\ UNCHANGED <<page, bridge, image, makings, session, recorder, ghost>>

----------------------------------------------------------------------------
(* The Debug page.                                                         *)

Debugging == ~Playing /\ Live

SessionContinue ==
  /\ Debugging /\ session.state = "stopped"
  /\ session' = [session EXCEPT !.state = "running", !.pause = FALSE]
  /\ UNCHANGED <<page, bridge, machine, image, makings, recorder, panel, replay, ghost>>

SessionPause ==
  /\ Debugging /\ session.state = "running"
  /\ session' = [session EXCEPT !.pause = TRUE]
  /\ UNCHANGED <<page, bridge, machine, image, makings, recorder, panel, replay, ghost>>

\* A step, a rewind, a state of the session's own: it knows what it did.
SessionMove ==
  /\ Debugging /\ session.state = "stopped"
  /\ machine.version < MaxVersion
  /\ machine' = [machine EXCEPT !.version = @ + 1]
  /\ session' = [session EXCEPT !.known = machine.version + 1]
  /\ UNCHANGED <<page, bridge, image, makings, recorder, panel, replay, ghost>>

(* What the `stopped` of a session does: yieldMachine, once Play waits for *)
(* it, takes the hooks off and repaints.                                   *)
\* Mutant: only the stop at hand is waited for, not one of a run under way.
YieldedNever(v) == [sink |-> machine.sink, image |-> image]

Yielded(v) ==
  IF session.handing THEN [sink |-> Unhooked, image |-> v]
  ELSE [sink |-> machine.sink, image |-> image]

\* #tick: a pause asked for stops it; otherwise a frame, which may meet a stop.
SessionTick ==
  /\ Live /\ session.state = "running"
  /\ IF session.pause
     THEN LET y == Yielded(machine.version)
          IN /\ session' = [session EXCEPT !.state = "stopped", !.pause = FALSE]
             /\ machine' = [machine EXCEPT !.sink = y.sink]
             /\ image' = y.image
     ELSE \E stops \in BOOLEAN :
          /\ machine.version < MaxVersion
          /\ machine' = [machine EXCEPT !.version = @ + 1]
          /\ session' = [session EXCEPT !.known = machine.version + 1,
                                        !.state = IF stops THEN "stopped" ELSE @]
          /\ UNCHANGED image
  /\ UNCHANGED <<page, bridge, makings, recorder, panel, replay, ghost>>

----------------------------------------------------------------------------
Next ==
  \/ \E i \in DOMAIN makings : Build(i)
  \/ \E i \in DOMAIN makings : Adopt(i)
  \/ EnterDebug \/ LeaveDebug \/ SwitchTab \/ LoadRom \/ LoadElf
  \/ Run \/ Pause \/ SaveState \/ LoadAsked \/ LoadDone
  \/ \E e \in Elapsed : LoopCallback(e)
  \/ \E e \in Elapsed : ReplayCallback(e)
  \/ \E b \in Buttons : KeyDown(b)
  \/ \E b \in Buttons : KeyUp(b)
  \/ RecordAsked \/ RecordStarted \/ RecordStopped \/ ReplayStarted \/ ReplayCancelled
  \/ SessionContinue \/ SessionPause \/ SessionMove \/ SessionTick

\* The session's interval goes on ticking; nothing else is owed.
Fairness == WF_vars(SessionTick)

Spec == Init /\ [][Next]_vars /\ Fairness

----------------------------------------------------------------------------
(* What follows is claimed except from the moment a state asked for on the *)
(* one page is loaded on the other (`behind`) to the next turn of the      *)
(* page: the load then acts on the page it was asked on (use-session.ts    *)
(* 139-143), and leaves the hooks on under Play, or the session unaware of *)
(* the state under Debug.                                                  *)

(* While Play is shown and no session runs or is being made, nobody's      *)
(* hooks are on the machine, and Play's canvas shows it as the session     *)
(* left it: "leaving Debug pauses the session, takes its hooks off the     *)
(* machine and repaints Play's canvas with the screen it left"             *)
(* (use-session.ts, header).                                               *)
LeftToPlay ==
  (~ghost.behind /\ Playing /\ session.state = "stopped" /\ \A i \in DOMAIN makings : makings[i].gone)
     => /\ machine.sink = 0
        /\ Live => image = machine.version

(* A session the Debug page shows has its hooks on the machine and, when   *)
(* stopped, describes the machine as it is: "the session catches up now    *)
(* when Debug is shown, else on the next entry" (use-session.ts,           *)
(* onStateLoaded).                                                         *)
InStep ==
  Debugging /\ ~ghost.behind =>
    /\ machine.sink = session.id
    /\ session.state = "stopped" => session.known = machine.version

(* Since the loop was last set going it has run one frame and the whole    *)
(* frames its time holds, however the callbacks divide that time, until a  *)
(* gap longer than MAX_FRAMES lets the rest go: "one frame every other     *)
(* callback at 120 Hz, and one per callback at 60 Hz" (frame-clock.ts).    *)
PacedByTheClock ==
  (ghost.frames > 0 /\ ~ghost.capped) => ghost.frames = 1 + ghost.time \div FRAME

(* The segments recorded stand for the frames the loop ran while recording *)
(* and the buttons each ran with, and a replay from the start, left alone, *)
(* runs them again.  Claimed of a recording begun with no key held, into   *)
(* which no state was loaded, and each of whose callbacks ran one frame:   *)
(* the recorder hears of none of these, and counts callbacks.              *)
PlaysWhatRan ==
  /\ (recorder.state # "idle" /\ ghost.clean /\ ghost.single) => Expand(LiveSegments(recorder)) = ghost.ran
  /\ (replay.whole /\ ~replay.on /\ replay.alone)
        => ghost.played = Expand(replay.segments)

(* The claim of input-recorder.ts:93, "Called on each emulator frame": a    *)
(* recording begun with no key held and into which no state was loaded      *)
(* stands for the frames that ran.  It does not hold: the loop runs up to   *)
(* MAX_FRAMES frames in a callback and tells of them once                   *)
(* (emulator.ts:433-440).                                                   *)
EveryFrameCounted ==
  (recorder.state # "idle" /\ ghost.clean) => Expand(LiveSegments(recorder)) = ghost.ran

(* A machine left to Play while its session still runs: the session stops  *)
(* and its hooks come off, unless Debug is shown again or a state asked    *)
(* for there is loaded behind it.                                          *)
ToHandOver == ~ghost.behind /\ Playing /\ Live /\ machine.sink = session.id
============================================================================
