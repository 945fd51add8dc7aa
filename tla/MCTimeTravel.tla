------------------------------- MODULE MCTimeTravel -------------------------------
(***************************************************************************)
(* Three small sessions, one to a behaviour.  "rewinds" has frames of four *)
(* polls, of which the CPU sleeps through one, a keyframe for every other  *)
(* frame, and a user who may write to the machine; "dozes" has frames of   *)
(* three, sleeps through the first, and has a keyframe for every frame;    *)
(* "takes" has frames of two, sleeps through the first, and records a      *)
(* take.  All have two masks and one save state, made in mid-frame.        *)
(***************************************************************************)
EXTENDS TimeTravel

CONSTANT Parts   \* the sessions, of "rewinds", "dozes" and "takes", to check

VARIABLE part

allVars == <<part, vars>>

SavedIn(slot, log) == {[frame |-> 1, slot |-> slot, buttons |-> 1, log |-> log]}

\* The save state of "rewinds", whose other constants the cfg gives.
SavedOfRewinds == SavedIn(1, <<1, 0, 1, 1>>)

D == INSTANCE TimeTravel WITH
  Slots <- 3, Asleep <- {0}, SavedStates <- SavedIn(2, <<1, 0, 1>>), KeyframeInterval <- 1, MaxWrites <- 0

K == INSTANCE TimeTravel WITH
  Slots <- 2, Asleep <- {0}, SavedStates <- SavedIn(1, <<1>>), MaxBytes <- 10,
  MaxTakes <- 1, MaxWrites <- 0

PartsInit ==
  /\ part \in Parts
  /\ part = "rewinds" => Init
  /\ part = "dozes" => D!Init
  /\ part = "takes" => K!Init

PartsNext ==
  /\ part' = part
  /\ \/ part = "rewinds" /\ Next
     \/ part = "dozes" /\ D!Next
     \/ part = "takes" /\ K!Next

PartsSpec == PartsInit /\ [][PartsNext]_allVars
-----------------------------------------------------------------------------
(* Properties *)

\* A session counts the instructions of the current frame, which stepBack subtracts from
\* (session.ts #instrInFrame), and logs the mask of every frame that ran with one; a
\* replay from history then ends in a machine this run went through, provided each frame
\* it covers ran with the one mask the log has for it, and the user wrote nothing since
\* the keyframe it began from (rewind.ts l.1-5).
RewindsExactlyWhatIsLogged ==
  /\ [](part = "rewinds" => CountsInstructions /\ LogsEachFrame)
  /\ [](part = "dozes" => D!CountsInstructions /\ D!LogsEachFrame)
  /\ [][part = "rewinds" /\ Rewinds => RewindsInLog]_allVars
  /\ [][part = "dozes" /\ D!Rewinds => D!RewindsInLog]_allVars

\* A session only drives its history in the ways RewindHistory allows for (#pushIfDue,
\* #finishRewind, #anchorHistory), so what is proved of RewindHistory holds of it; and
\* it stores no keyframe of a frame of which it has executed something, unless history
\* began inside that frame.  One of a frame slept through so far may be of its middle,
\* against rewind.ts l.80 (StepsHistory).
DrivesHistory ==
  /\ [][part = "rewinds" => StepsHistory]_<<part, history, machine.frame>>
  /\ [][part = "dozes" => D!StepsHistory]_<<part, history, machine.frame>>

\* A take holds the masks its frames ran with as long as history reaches its start, and
\* played where the machine is the one it was recorded from it reproduces that run
\* (session.ts stopRecording, #tick).
TakesReproduceTheRun ==
  /\ [](part = "takes" => K!PlaysTheTake)
  /\ [][part = "takes" => K!TakesWhatRan]_allVars

\* stepBack goes "exactly one instruction back" (session.ts): it ends in a machine this
\* run went through.
StepsBackExactly == [][part = "rewinds" => StepsBackToThePast]_allVars
=================================================================================
