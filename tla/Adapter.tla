-------------------------------- MODULE Adapter --------------------------------
(***************************************************************************)
(* `GbaDebugSession` (packages/debug-adapter/src/session.ts): the Debug    *)
(* Adapter Protocol face of a core session.  A request is handled in one   *)
(* turn of the event loop up to its first await; what other requests, the  *)
(* emulator's own stops and the clock do before it is resumed is what this *)
(* module is about.  A request that awaits is a task with a stage; one     *)
(* that does not is a single action.                                       *)
(*                                                                         *)
(* The core session is abstracted to what the adapter keeps consistent     *)
(* with it: its state, epoch and revision, the breakpoints it holds, the   *)
(* labels it knows, and which of the adapter's listeners hear it.          *)
(***************************************************************************)
EXTENDS Integers, Sequences, FiniteSets

CONSTANTS
  MAX_SESSIONS,  \* bound: sessions ever created
  MAX_TASKS,     \* bound: requests that await, ever
  MAX_MOVES,     \* bound: requests that change a session or the breakpoints
  MAX_HANDLES    \* bound: variables references alive at once

ASSUME AdapterAssumption ==
  MAX_SESSIONS \in Nat /\ MAX_TASKS \in Nat /\ MAX_MOVES \in Nat /\ MAX_HANDLES \in Nat

VARIABLES
  a,           \* the adapter, the sessions it made and what its client was told
  task,        \* every request that awaits
  disk,        \* the labels in the project's labels file
  moves,       \* requests counted against MAX_MOVES
  overlapped   \* history: requests met that nothing serialises (Unserialised)
adapterVars == <<a, task, disk, moves, overlapped>>

Sessions == 1 .. MAX_SESSIONS
Tasks    == 1 .. MAX_TASKS
None     == 0

Unborn == [state |-> "unborn", epoch |-> 0, revision |-> 0, breakpoints |-> 0,
           labels |-> {}, dirty |-> FALSE, wired |-> FALSE, audio |-> FALSE]

Born(labels) == [Unborn EXCEPT !.state = "stopped", !.labels = labels]

Alive(b, s) == b.core[s].state \in {"stopped", "running"}

-----------------------------------------------------------------------------
(* What the adapter tells its client: the protocol's own events move       *)
(* `thread`, a `gba-kit/state` body moves the other two.                   *)

\* Mutant: the epoch told is the session's own.
StateBodyOwnEpoch(b) ==
  IF b.session = None THEN b
  ELSE [b EXCEPT !.told.state = b.core[b.session].state, !.told.epoch = b.core[b.session].epoch]

\* Without a session there is no body: #require throws, after the event before it.
StateBody(b) ==
  IF b.session = None THEN b
  ELSE [b EXCEPT !.told.state = b.core[b.session].state,
                 !.told.epoch = b.core[b.session].epoch + b.epochBase]

SendStopped(b) ==
  StateBody([b EXCEPT !.handles = <<>>, !.told.thread = "stopped"])

Continued(b) ==
  StateBody([b EXCEPT !.handles = <<>>, !.told.thread = "running"])

\* The core session, heard by the adapter only while it is wired.
Turned(core, state) == [core EXCEPT !.state = state, !.revision = @ + 1]

Stop(b, s) ==
  LET c == [b EXCEPT !.core[s] = Turned(@, "stopped")]
  IN  IF c.core[s].wired THEN SendStopped(c) ELSE c

BeginRun(b, s) ==
  LET c == [b EXCEPT !.core[s] = Turned(@, "running")]
  IN  IF c.core[s].wired THEN Continued(c) ELSE c

Wire(b, s, on) == IF s = None THEN b ELSE [b EXCEPT !.core[s].wired = on]
Hear(b, s, on) == IF s = None THEN b ELSE [b EXCEPT !.core[s].audio = on]

AudioOff(b) == [Hear(b, b.audioOff, FALSE) EXCEPT !.audioOff = None]

ListenAudio(b, s) == [Hear(AudioOff(b), s, TRUE) EXCEPT !.audioOff = s]

Adopt(b, s, stopOnEntry) ==
  Wire([b EXCEPT !.session = s, !.stopOnEntry = stopOnEntry, !.launched = TRUE,
                 !.unwire = s], s, TRUE)

\* Mutant: the listeners of the session that is let go of stay.
RetireWired(b) == AudioOff(b)

\* #retire up to its await, and after it.
Retire(b) == AudioOff([Wire(b, b.unwire, FALSE) EXCEPT !.unwire = None])
Dispose(b, s) ==
  IF b.core[s].state = "disposed" THEN b
  ELSE [b EXCEPT !.core[s].state = "disposed", !.core[s].wired = FALSE, !.core[s].audio = FALSE]

\* The answer to a terminate is followed by the protocol's own `terminated`.
Terminated(b) == [b EXCEPT !.told.thread = "none"]

\* Mutant: a new session starts with the breakpoints it was created with.
RestoreNoBreakpoints(b, s) == b

RestoreBreakpoints(b, s) == [b EXCEPT !.core[s].breakpoints = b.breakpoints]

\* Start a freshly booted session: stopped at its entry, or running.
CanBegin(b, s) == IF b.stopOnEntry THEN b.session # None ELSE b.core[s].state = "stopped"

\* Mutant: a session left stopped at its entry is not announced.
BeginSilently(b, s) == IF ~b.stopOnEntry /\ CanBegin(b, s) THEN BeginRun(b, s) ELSE b

Begin(b, s) ==
  IF b.stopOnEntry THEN SendStopped(b)
                   ELSE IF CanBegin(b, s) THEN BeginRun(b, s) ELSE b

CloseStream(b) == [b EXCEPT !.stream = "closed", !.pending = None]

-----------------------------------------------------------------------------
AdapterInit ==
  /\ a = [core |-> [s \in Sessions |-> Unborn], session |-> None, launched |-> FALSE,
          stopOnEntry |-> TRUE, unwire |-> None, configurationDone |-> None,
          epochBase |-> 0, breakpoints |-> 0, handles |-> <<>>,
          audioOff |-> None, audioWanted |-> FALSE, stream |-> "closed", pending |-> None,
          told |-> [thread |-> "none", state |-> "none", epoch |-> 0],
          fresh |-> TRUE]
  /\ task = [t \in Tasks |-> [kind |-> "none", stage |-> "new", on |-> None, next |-> None,
                              wish |-> FALSE, text |-> {}, answers |-> 0]]
  /\ disk = {}
  /\ moves = 0
  /\ overlapped = FALSE

Awaits(t) == task[t].stage \notin {"new", "done"}

Fresh(t) == task[t].stage = "new" /\ \A u \in Tasks : u < t => task[u].stage # "new"

\* What a request finds under way and neither waits for nor refuses: the end of
\* the session, another launch or another restart beside a launch or a restart,
\* a stream that connects beside a restart.  And a second launch of an adapter
\* whose session is gone, which keeps what the first client asked for.
Crossing ==
  {"launch"} \X {"launch", "restart", "terminate"}
  \cup {"restart"} \X {"restart", "terminate", "stream"} \cup {<<"stream", "restart">>}
Unserialised(kind) ==
  \/ \E u \in Tasks : Awaits(u) /\ <<task[u].kind, kind>> \in Crossing
  \/ kind = "launch" /\ a.session = None /\ a.launched

\* The client sends a request of this kind now, on the session there is.
Sends(t, kind) ==
  /\ Fresh(t)
  /\ overlapped' = (overlapped \/ Unserialised(kind))

Labels(s) == IF s = None THEN {} ELSE a.core[s].labels

\* A request begins, with the text of the labels it saves first.
Task(t, kind, stage, wish, text) ==
  task' = [task EXCEPT ![t] = [kind |-> kind, stage |-> stage, on |-> a.session,
                               next |-> None, wish |-> wish, text |-> text,
                               answers |-> IF stage = "done" THEN 1 ELSE 0]]

Advance(t, stage, next, answers) ==
  task' = [task EXCEPT ![t].stage = stage, ![t].next = next, ![t].answers = @ + answers,
                       ![t].text = IF stage = "retiring" THEN Labels(task[t].on) ELSE {}]

\* The labels file is written with that text, or the write fails: the labels
\* count as saved only after it.
Saves(t, written) == disk' = IF written THEN task[t].text ELSE disk
Saved(b, s, written) == IF written THEN [b EXCEPT !.core[s].dirty = FALSE] ELSE b

Finish(t) == Advance(t, "done", task[t].next, 1)

\* Session.create: the ROM, the ELF and the labels file are read between two
\* turns; either fails, or a session stopped at its entry point is there.
NextUnborn == {s \in Sessions : a.core[s].state = "unborn"}

Created(b, s) == [b EXCEPT !.core[s] = Born(disk)]

IsNext(s) == s \in NextUnborn /\ \A r \in NextUnborn : s <= r

CreationFails(t) ==
  /\ task[t].stage = "creating"
  /\ Finish(t)
  /\ UNCHANGED <<a, disk, moves, overlapped>>

-----------------------------------------------------------------------------
(* launch: the session is adopted, `initialized` asks for breakpoints, and *)
(* the answer waits for `configurationDone` or the timer.                  *)

Launch(t, stopOnEntry) ==
  /\ Sends(t, "launch")
  /\ Task(t, "launch", IF a.session # None THEN "done" ELSE "creating", stopOnEntry, {})
  /\ UNCHANGED <<a, disk, moves>>

LaunchCreated(t) ==
  /\ task[t].kind = "launch" /\ task[t].stage = "creating"
  /\ \E s \in Sessions :
       /\ IsNext(s)
       /\ a' = [Adopt(Created(a, s), s, task[t].wish) EXCEPT !.configurationDone = t]
       /\ Advance(t, "configuring", s, 0)
  /\ UNCHANGED <<disk, moves, overlapped>>

\* Mutant: what is thrown after the answer is not told from what is thrown before.
LaunchBeginsAnswered(t) ==
  /\ a' = Begin([a EXCEPT !.configurationDone = None], task[t].next)
  /\ Advance(t, "done", task[t].next, 2)
  /\ UNCHANGED <<disk, moves, overlapped>>

\* The answer, and then the first stop or the first run; what that throws is
\* answered too.
LaunchBegins(t) ==
  LET b == [a EXCEPT !.configurationDone = None]
      s == task[t].next
  IN  /\ a' = Begin(b, s)
      /\ Advance(t, "done", s, IF CanBegin(b, s) THEN 1 ELSE 2)
      /\ UNCHANGED <<disk, moves, overlapped>>

\* Mutant: only the client ends the wait.
ConfigurationNoTimer(t) == FALSE

ConfigurationTimer(t) == task[t].stage = "configuring" /\ LaunchBegins(t)

ConfigurationDone ==
  /\ a.configurationDone # None
  /\ task[a.configurationDone].stage = "configuring"
  /\ LaunchBegins(a.configurationDone)

-----------------------------------------------------------------------------
(* restart: a new session is created from the files on disk while the old  *)
(* one still answers, then takes its place.                                *)

Restart(t, stopOnEntry) ==
  LET s == a.session
  IN  /\ Sends(t, "restart")
      /\ IF s = None \/ ~a.launched THEN Task(t, "restart", "done", stopOnEntry, {})
         ELSE IF a.core[s].dirty THEN Task(t, "restart", "saving", stopOnEntry, Labels(s))
         ELSE Task(t, "restart", "creating", stopOnEntry, {})
      /\ UNCHANGED <<a, disk, moves>>

\* A write that fails is logged, and the restart goes on.
RestartSaved(t) ==
  /\ task[t].stage = "saving"
  /\ \E written \in BOOLEAN : Saves(t, written) /\ a' = Saved(a, task[t].on, written)
  /\ Advance(t, "creating", None, 0)
  /\ UNCHANGED <<moves, overlapped>>

TakeOver(b, old, new, stopOnEntry) ==
  LET adopted == RestoreBreakpoints(Adopt(Dispose(b, old), new, stopOnEntry), new)
      heard   == IF b.stream = "connected" /\ b.audioWanted
                   THEN ListenAudio(adopted, new) ELSE adopted
  IN  Begin([heard EXCEPT !.handles = <<>>], new)

\* The labels of the old session are saved once more where one was set
\* meanwhile: only then is there a wait between retiring it and adopting the
\* new one.
RestartCreated(t) ==
  /\ task[t].kind = "restart" /\ task[t].stage = "creating"
  /\ \E s \in Sessions :
       LET old == task[t].on
           b   == Retire([Created(a, s) EXCEPT !.epochBase = @ + a.core[old].epoch + 1])
       IN  /\ IsNext(s)
           /\ IF a.core[old].dirty
                THEN a' = b /\ Advance(t, "retiring", s, 0)
                ELSE a' = TakeOver(b, old, s, task[t].wish) /\ Advance(t, "done", s, 1)
  /\ UNCHANGED <<disk, moves, overlapped>>

RestartRetired(t) ==
  /\ task[t].kind = "restart" /\ task[t].stage = "retiring"
  /\ \E written \in BOOLEAN :
       /\ Saves(t, written)
       /\ a' = TakeOver(Saved(a, task[t].on, written), task[t].on, task[t].next, task[t].wish)
  /\ Finish(t)
  /\ UNCHANGED <<moves, overlapped>>

-----------------------------------------------------------------------------
(* terminate, and the disconnect that follows or replaces it: #dispose and *)
(* an answer, both.  Neither ends the adapter's process, which lives in    *)
(* the editor's, so what is still under way goes on.                       *)

Terminate(t) ==
  LET s == a.session
      b == CloseStream([a EXCEPT !.session = None])
  IN  /\ Sends(t, "terminate")
      /\ IF s = None
           THEN a' = Terminated(b) /\ Task(t, "terminate", "done", FALSE, {})
           ELSE IF a.core[s].dirty
             THEN a' = Retire(b) /\ Task(t, "terminate", "retiring", FALSE, Labels(s))
             ELSE a' = Terminated(Dispose(Retire(b), s)) /\ Task(t, "terminate", "done", FALSE, {})
      /\ UNCHANGED <<disk, moves>>

TerminateRetired(t) ==
  LET s == task[t].on
  IN  /\ task[t].kind = "terminate" /\ task[t].stage = "retiring"
      /\ \E written \in BOOLEAN :
           Saves(t, written) /\ a' = Terminated(Dispose(Saved(a, s, written), s))
      /\ Finish(t)
      /\ UNCHANGED <<moves, overlapped>>

-----------------------------------------------------------------------------
(* stream: connecting the frame pipe, then subscribing the audio.  A newer *)
(* connect, or a close, rejects the older one.                             *)

Stream(t, audio) ==
  /\ Sends(t, "stream")
  /\ IF a.session = None
       THEN Task(t, "stream", "done", audio, {}) /\ a' = a
       ELSE Task(t, "stream", "connecting", audio, {}) /\ a' = [CloseStream(a) EXCEPT !.pending = t]
  /\ UNCHANGED <<disk, moves>>

StreamConnects(t) ==
  LET b == AudioOff([a EXCEPT !.stream = "connected", !.pending = None,
                              !.audioWanted = task[t].wish])
  IN  /\ task[t].stage = "connecting" /\ a.pending = t
      /\ a' = IF task[t].wish THEN ListenAudio(b, task[t].on) ELSE b
      /\ Finish(t)
      /\ UNCHANGED <<disk, moves, overlapped>>

\* The pipe is not there, or this connect was superseded.
StreamFails(t) ==
  /\ task[t].stage = "connecting"
  /\ a' = IF a.pending = t THEN [a EXCEPT !.pending = None] ELSE a
  /\ Finish(t)
  /\ UNCHANGED <<disk, moves, overlapped>>

StreamCloses ==
  /\ a.stream = "connected"
  /\ a' = [a EXCEPT !.stream = "closed"]
  /\ UNCHANGED <<task, disk, moves, overlapped>>

-----------------------------------------------------------------------------
(* setLabel: the label is known at once and answered once written.         *)

Labelled(core, t) == [core EXCEPT !.labels = @ \cup {t}, !.dirty = TRUE]

SetLabel(t) ==
  /\ Sends(t, "setLabel")
  /\ IF a.session = None
       THEN a' = a /\ Task(t, "setLabel", "done", FALSE, {})
       ELSE /\ a' = [a EXCEPT !.core[a.session] = Labelled(@, t)]
            /\ Task(t, "setLabel", "writing", FALSE, Labels(a.session) \cup {t})
  /\ UNCHANGED <<disk, moves>>

\* A write that fails is the request's error, and the label stays unsaved.
LabelWritten(t) ==
  /\ task[t].stage = "writing"
  /\ \E written \in BOOLEAN : Saves(t, written) /\ a' = Saved(a, task[t].on, written)
  /\ Finish(t)
  /\ UNCHANGED <<moves, overlapped>>

-----------------------------------------------------------------------------
(* Requests handled in one turn.  Each is refused, or answered first and   *)
(* then followed by the events it raised.                                  *)

Counted == moves < MAX_MOVES /\ moves' = moves + 1
Turn == Counted /\ UNCHANGED <<task, disk, overlapped>>

\* #exec: there is a session and it is stopped.  A client that moves a machine
\* whose launch was not answered yet is one more that nothing serialises.
Stopped ==
  /\ a.session # None /\ a.core[a.session].state = "stopped"
  /\ overlapped' = (overlapped \/ \E t \in Tasks : task[t].stage = "configuring")
  /\ UNCHANGED <<task, disk>>

Continue == Stopped /\ Counted /\ a' = BeginRun(a, a.session)

\* A step, a frame or a scanline runs and stops within its request.
StepRequest == Stopped /\ Counted /\ a' = Stop(BeginRun(a, a.session), a.session)

\* stepBack, reverseContinue, a rewind, a replay or a state loaded.
GoBack == Stopped /\ Counted /\ a' = Stop([a EXCEPT !.core[a.session].epoch = @ + 1], a.session)

\* There is no earlier history: the client is told it is where it was.
StayStopped == Stopped /\ a' = SendStopped(a) /\ moves' = moves

\* The paced run of a session finds a stop, a pause among them.
MachineStops(s) ==
  /\ a.core[s].state = "running"
  /\ a' = Stop(a, s)
  /\ UNCHANGED <<task, disk, moves, overlapped>>

\* setVariable, writeMemory or an assignment in the console.
Write ==
  /\ a.session # None /\ Turn
  /\ a' = StateBody([a EXCEPT !.core[a.session].revision = @ + 1])

SetBreakpoints ==
  /\ a.session # None /\ Turn
  /\ LET set == moves + 1
     IN  a' = [a EXCEPT !.breakpoints = set, !.core[a.session].breakpoints = set]

Scopes ==
  /\ a.session # None /\ Len(a.handles) < MAX_HANDLES
  /\ a' = [a EXCEPT !.handles =
             Append(@, [on |-> a.session, epoch |-> a.core[a.session].epoch,
                        revision |-> a.core[a.session].revision, read |-> FALSE,
                        readAt |-> 0])]
  /\ UNCHANGED <<task, disk, moves, overlapped>>

Current(handle) == handle.epoch = a.core[a.session].epoch

\* Mutant: a reference read once keeps its rows.
ResolveOnce(handle) ==
  IF handle.read THEN handle
  ELSE [handle EXCEPT !.read = TRUE, !.readAt = a.core[handle.on].revision]

\* The nodes cached under a reference, read again where a write moved the
\* machine's revision on.
Resolve(handle) ==
  LET now == a.core[a.session].revision
  IN  IF handle.read /\ handle.revision = now THEN handle
      ELSE [handle EXCEPT !.revision = now, !.read = TRUE, !.readAt = a.core[handle.on].revision]

Variables(n) ==
  /\ a.session # None /\ n \in DOMAIN a.handles /\ Current(a.handles[n])
  /\ LET handle == Resolve(a.handles[n])
     IN  a' = [a EXCEPT !.handles[n] = handle,
                        !.fresh = handle.on = a.session
                                  /\ handle.readAt = a.core[a.session].revision]
  /\ UNCHANGED <<task, disk, moves, overlapped>>

AskState ==
  /\ a.session # None /\ a' = StateBody(a) /\ UNCHANGED <<task, disk, moves, overlapped>>

-----------------------------------------------------------------------------
Resumed(t) ==
  \/ CreationFails(t) \/ LaunchCreated(t) \/ ConfigurationTimer(t)
  \/ RestartSaved(t) \/ RestartCreated(t) \/ RestartRetired(t) \/ TerminateRetired(t)
  \/ StreamConnects(t) \/ StreamFails(t) \/ LabelWritten(t)

AdapterNext ==
  \/ \E t \in Tasks : Resumed(t)
  \/ \E t \in Tasks, wish \in BOOLEAN : Launch(t, wish) \/ Restart(t, wish) \/ Stream(t, wish)
  \/ \E t \in Tasks : Terminate(t) \/ SetLabel(t)
  \/ ConfigurationDone \/ StreamCloses
  \/ Continue \/ StepRequest \/ GoBack \/ StayStopped \/ \E s \in Sessions : MachineStops(s)
  \/ Write \/ SetBreakpoints \/ Scopes \/ AskState
  \/ \E n \in 1 .. MAX_HANDLES : Variables(n)

\* The event loop resumes what awaits: a file is read or the read fails, the
\* pipe connects or does not, the configuration timer fires.
AdapterFairness == \A t \in Tasks : WF_adapterVars(Resumed(t))

AdapterSpec == AdapterInit /\ [][AdapterNext]_adapterVars /\ AdapterFairness

-----------------------------------------------------------------------------
Busy(kinds) == \E t \in Tasks : Awaits(t) /\ task[t].kind \in kinds

\* Every session there is lives for one of three reasons: requests go to it, a
\* launch or restart is still holding it, or a retirement waits for its labels;
\* and only the one requests go to is listened to.  A session nobody holds keeps
\* a timer and a machine running for as long as the process lives.
SessionsAccounted ==
  \A s \in Sessions :
    /\ Alive(a, s) => \/ s = a.session
                      \/ \E t \in Tasks : Awaits(t) /\ s \in {task[t].next, task[t].on}
    /\ a.core[s].wired => s = a.session
    /\ a.core[s].audio => s = a.session /\ a.audioOff = s

\* What the client asked of the session it debugs is what the session requests
\* go to has, whichever restart replaced it and whenever it was asked: the
\* breakpoints and the audio, and the labels set on this session, saved or not.
CarriedOver ==
  a.session # None /\ ~Busy({"restart", "launch"}) =>
    /\ a.core[a.session].breakpoints = a.breakpoints
    /\ \A t \in Tasks : task[t].kind = "setLabel" /\ task[t].stage = "done"
                          /\ task[t].on = a.session => t \in a.core[a.session].labels
    /\ a.stream = "connected" /\ a.audioWanted => a.audioOff = a.session

\* The client's picture of the machine, from the protocol's own events and from
\* the state bodies both, is the state the session is in, except while a
\* session is being replaced or was not announced yet.
ToldTheState ==
  a.session # None /\ ~Busy({"restart", "launch", "terminate"}) =>
    /\ a.told.thread = a.core[a.session].state
    /\ a.told.state = a.core[a.session].state

\* A variables request is answered with values of the machine requests go to,
\* as they are: no reference of a session a restart replaced is accepted, and
\* no cached row outlives a write.
FreshNodes == a.fresh

\* No request is answered twice.
AnsweredOnce == \A t \in Tasks : task[t].answers <= 1

\* Until requests met that nothing serialises, all of these together: every
\* session there is has a reason to live, the one requests go to has what the
\* client asked of any, and the client knows the state of the machine, is
\* answered once and sees no value of another moment.  Once they met, each of
\* them can break (NothingAfterDisconnect is where one such overlap is shown).
SessionsKept ==
  \/ overlapped
  \/ SessionsAccounted /\ CarriedOver /\ ToldTheState /\ AnsweredOnce /\ FreshNodes

\* The claim of dap.spec.ts:327, "refuses a second launch, and disposes the
\* session on disconnect": once a disconnect (or a terminate) was answered, and
\* no launch was sent after it, no session of this adapter lives.  It does not
\* hold: a launch or restart that was creating its session adopts it all the
\* same, and a session two restarts of one another lost is never disposed.
NothingAfterDisconnect ==
  \A t \in Tasks :
    /\ task[t].kind = "terminate" /\ task[t].stage = "done"
    /\ \A u \in Tasks : u > t => task[u].kind # "launch"
    => \A s \in Sessions : ~Alive(a, s)

\* A step tells the client no smaller epoch than it was told.
NoSmallerEpoch == a'.told.epoch >= a.told.epoch

\* The claim of session.ts:316, "so `epoch` keeps growing across restarts".  It
\* does not hold: while a restart waits for the labels of the session it
\* retires, that session's epoch is in the base already and still its own.
EpochNeverBack == [][overlapped' \/ NoSmallerEpoch]_adapterVars

\* What does hold: the epoch a client is told falls at the end of such a wait
\* only, and by no more than the retired session's own, counted twice until
\* then.  Anywhere else a view that holds an epoch from before a move back, a
\* reset or a restart can tell that it is stale.
CountedTwice ==
  \E t \in Tasks :
    /\ task[t].kind = "restart" /\ task[t].stage = "retiring" /\ task'[t].stage = "done"
    /\ a'.told.epoch + a.core[task[t].on].epoch >= a.told.epoch
EpochKept == overlapped' \/ NoSmallerEpoch \/ CountedTwice
EpochGrows == [][EpochKept]_adapterVars
=============================================================================
