----------------------------- MODULE MCFrontEnds -----------------------------
(***************************************************************************)
(* What is between a user and the session: the debug adapter, the screen    *)
(* of an editor that has none, the pages of the web app, its recorder, and  *)
(* the save states of a project, each on a small instance of its own.  They *)
(* do not act on one another here, so one behaviour is of one part and      *)
(* leaves the variables of the others idle.  The adapter, the screen and    *)
(* the save states are the module's own constants and variables.           *)
(***************************************************************************)
EXTENDS States, Adapter, ScreenFeed

VARIABLES
    part,      \* the part the behaviour is of
    page, bridge, machine, image, makings, session, recorder, panel, replay, ghost

webVars == <<page, bridge, machine, image, makings, session, recorder, panel, replay, ghost>>
frontVars == <<part, adapterVars, feedVars, webVars, vars>>

Idle == "idle"

-----------------------------------------------------------------------------
(* The adapter: two sessions and three requests, in any order and overlap. *)
(* Once requests met that nothing serialises, the safety properties say    *)
(* nothing more: only that each is still answered, so nothing new is asked.*)

AdapterMoves == IF overlapped THEN \E t \in Tasks : Resumed(t) ELSE AdapterNext

-----------------------------------------------------------------------------
(* The web app: its pages, with states, programs and ROMs loaded, and its  *)
(* recorder, with keys pressed.  A frame takes 3 of the clock's 16, so     *)
(* that a callback of the browser is due one frame or two.                 *)

P == INSTANCE Drivers WITH
    Moves <- {"mode", "load", "elf", "rom"}, Buttons <- {"a"}, Elapsed <- {2, 3, 16}, Gaps <- {0, 7},
    FRAME <- 3, MaxVersion <- 6, MaxKeys <- 2, MaxMakings <- 3
R == INSTANCE Drivers WITH
    Moves <- {"record", "replay", "keys"}, Buttons <- {"a"}, Elapsed <- {3, 7}, Gaps <- {0},
    FRAME <- 3, MaxVersion <- 4, MaxKeys <- 2, MaxMakings <- 3

WebIdle ==
    /\ page = Idle /\ bridge = Idle /\ machine = Idle /\ image = Idle /\ makings = Idle
    /\ session = Idle /\ recorder = Idle /\ panel = Idle /\ replay = Idle /\ ghost = Idle

-----------------------------------------------------------------------------
(* The save states: three requests over three names, two of which are one  *)
(* file, any of them failing, in any overlap.                              *)

SafeAs == [b \in {"a/b", "a:b", "c"} |-> IF b = "a:b" THEN "a/b" ELSE b]

-----------------------------------------------------------------------------
FrontInit ==
    \/ part = "adapter" /\ AdapterInit /\ FeedInit /\ WebIdle /\ Init
    \/ part = "screen" /\ AdapterInit /\ FeedInit /\ WebIdle /\ Init
    \/ part = "pages" /\ AdapterInit /\ FeedInit /\ P!Init /\ Init
    \/ part = "recorder" /\ AdapterInit /\ FeedInit /\ R!Init /\ Init
    \/ part = "states" /\ AdapterInit /\ FeedInit /\ WebIdle /\ Init

AdapterAlone == part = "adapter" /\ UNCHANGED <<part, feedVars, webVars, vars>>
ScreenAlone == part = "screen" /\ UNCHANGED <<part, adapterVars, webVars, vars>>
WebAlone    == part \in {"pages", "recorder"} /\ UNCHANGED <<part, adapterVars, feedVars, vars>>
StatesAlone == part = "states" /\ UNCHANGED <<part, adapterVars, feedVars, webVars>>

AdapterStep  == AdapterAlone /\ AdapterMoves
ScreenStep   == ScreenAlone /\ FeedNext
PagesStep    == part = "pages" /\ WebAlone /\ P!Next
RecorderStep == part = "recorder" /\ WebAlone /\ R!Next
StatesStep   == StatesAlone /\ Next

FrontNext == AdapterStep \/ ScreenStep \/ PagesStep \/ RecorderStep \/ StatesStep

\* The fairness of each part's own specification.
FrontFairness ==
    /\ \A t \in 1 .. 3 : WF_frontVars(AdapterAlone /\ Resumed(t))
    /\ WF_frontVars(part = "pages" /\ WebAlone /\ P!SessionTick)
    /\ WF_frontVars(ScreenAlone /\ (Connected \/ ConnectFails))
    /\ WF_frontVars(ScreenAlone /\ PipeTakes)
    /\ WF_frontVars(ScreenAlone /\ StreamSeesClose)
    /\ WF_frontVars(ScreenAlone /\ \E c \in Connections : Accept(c))
    /\ WF_frontVars(ScreenAlone /\ ServerReads)
    /\ WF_frontVars(ScreenAlone /\ ServerSeesClose)
    /\ \A p \in Pages : WF_frontVars(ScreenAlone /\ PageTakes(p))

FrontSpec == FrontInit /\ [][FrontNext]_frontVars /\ FrontFairness

-----------------------------------------------------------------------------
(* Properties *)

\* What somebody waits for: the answer to a request, and a machine for the Play page.
Waiting ==
    \/ \E t \in 1 .. 3 : Awaits(t)
    \/ part = "pages" /\ P!ToHandOver

\* Every request is answered, whatever it overlaps, and a machine left to the Play
\* page is handed over (session.ts, use-session.ts).  Requests are finitely many
\* here, so that each of them ends if there is a time when none is left.
RequestsEnd ==
    Waiting ~> ~Waiting /\ \A t \in 1 .. 3 : task[t].stage = "done" => task[t].answers > 0

\* Play has the machine as the session left it and the session describes the
\* machine as it is; frames are paced by the clock, and a recording plays what
\* ran (use-session.ts, emulator.ts, frame-clock.ts, input-recorder.ts).
PagesTakeOver ==
    /\ part = "pages" => P!LeftToPlay /\ P!InStep /\ P!PacedByTheClock
    /\ part = "recorder" => R!PacedByTheClock /\ R!PlaysWhatRan
==============================================================================
