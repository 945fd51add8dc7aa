------------------------------- MODULE ScreenFeed -------------------------------
(***************************************************************************)
(* The screen of an editor that has none: the adapter's FrameStream        *)
(* (packages/debug-adapter/src/stream.ts) writes frames and audio to a     *)
(* pipe, the ScreenServer (screen-server.ts) at its other end sends the    *)
(* frames on to every page that is open, and button masks come back the    *)
(* same way.  Neither queue may grow with a slow reader: the stream holds  *)
(* one frame back and drops the others, the server skips frames and sends  *)
(* the page the newest when it has caught up.                              *)
(*                                                                         *)
(* A frame is the number of its emission, audio is 0.  Connections are     *)
(* numbered in the order they are made.  What one end destroys loses what  *)
(* it had not yet handed to the kernel; the other end reads the rest, then *)
(* its close.                                                              *)
(***************************************************************************)
EXTENDS Integers, Sequences, SequencesExt

CONSTANTS
  Pages,        \* pages that may open the screen
  Masks,        \* button masks
  MaxFrames,    \* bound on the frames emitted
  MaxAudio,     \* bound on the audio messages sent
  MaxConnects,  \* bound on the connects to the pipe
  MaxOpens,     \* bound on the times a page opens
  Null          \* JavaScript's null

Audio == 0
FrameBytes == 2
Size(message) == IF message = Audio THEN 1 ELSE FrameBytes
HighWater == FrameBytes
MaxBacklog == 2 * FrameBytes

ASSUME FeedAssumption ==
  {MaxFrames, MaxAudio, MaxConnects, MaxOpens} \subseteq Nat

VARIABLES
  emitted,   \* frames the session has emitted
  heard,     \* audio messages sent
  listening, \* whether the server is up
  pipes,     \* the connections made
  pending,   \* the stream's socket that is still connecting
  socket,    \* the one it writes to
  held,      \* the frame it holds back
  adapter,   \* the connection the server reads
  last,      \* the newest frame the server has read
  pages,     \* the pages' sockets and what they show
  buttons    \* the buttons the session was told to hold

stream == <<pending, socket, held>>
feedVars == <<emitted, heard, listening, pipes, pending, socket, held, adapter, last, pages, buttons>>

-----------------------------------------------------------------------------
(* A Node.js writable stream over a socket, as both ends use it: one write *)
(* at a time is handed to the kernel, what is written meanwhile is         *)
(* buffered and goes as one write when that completes, `writableLength`    *)
(* counts both, and 'drain' is emitted when it reaches zero after it had   *)
(* reached the high-water mark.                                            *)

Quiet == [flight |-> <<>>, buffer |-> <<>>, needDrain |-> FALSE]

Queued(w) == w.flight \o w.buffer

WritableLength(w) == FoldLeft(LAMBDA n, message : n + Size(message), 0, Queued(w))

Written(w, message) ==
  [flight    |-> IF w.flight = <<>> THEN <<message>> ELSE w.flight,
   buffer    |-> IF w.flight = <<>> THEN <<>> ELSE Append(w.buffer, message),
   needDrain |-> w.needDrain \/ WritableLength(w) + Size(message) >= HighWater]

\* The write in flight completed; what was buffered is the next one.
Drains(w) == w.buffer = <<>> /\ w.needDrain

Completed(w) ==
  [flight |-> w.buffer, buffer |-> <<>>, needDrain |-> w.needDrain /\ ~Drains(w)]

-----------------------------------------------------------------------------
(* The frame stream *)

\* The stream's promise to its caller, each end of the connection, what the adapter
\* has not handed to the kernel, what the kernel holds, and the masks coming back.
\* `since` is not in the program: the frames emitted before it connected.
NewPipe ==
  [promise |-> "pending", near |-> TRUE,
   far |-> IF listening THEN "waiting" ELSE "absent", out |-> Quiet,
   wire |-> <<>>, up |-> <<>>, since |-> 0]

Connections == DOMAIN pipes

\* Mutant: a connect that is overtaken is never told.
DestroyedSilently(cs) ==
  [c \in Connections |->
     IF c \notin cs THEN pipes[c]
     ELSE [pipes[c] EXCEPT !.near = FALSE, !.out = Quiet, !.up = <<>>]]

\* The near end of the connections in cs is destroyed; one that never connected rejects.
Destroyed(cs) ==
  [c \in Connections |->
     IF c \notin cs THEN pipes[c]
     ELSE [pipes[c] EXCEPT
            !.near = FALSE, !.out = Quiet, !.up = <<>>,
            !.promise = IF @ = "pending" THEN "rejected" ELSE @]]

-----------------------------------------------------------------------------
(* The stream *)

Connect ==
  /\ Len(pipes) < MaxConnects
  /\ pipes' = Append(Destroyed({pending, socket}), NewPipe)
  /\ pending' = Len(pipes')
  /\ socket' = Null
  /\ held' = Null
  /\ UNCHANGED <<emitted, heard, listening, adapter, last, pages, buttons>>

\* The pipe was there, or it was not.
Connected ==
  /\ pending # Null
  /\ pipes[pending].far # "absent"
  /\ pipes' = [pipes EXCEPT ![pending].promise = "resolved", ![pending].since = emitted]
  /\ socket' = pending
  /\ pending' = Null
  /\ UNCHANGED <<emitted, heard, listening, held, adapter, last, pages, buttons>>

ConnectFails ==
  /\ pending # Null
  /\ pipes[pending].far \in {"waiting", "absent"}
  /\ pipes' = [Destroyed({pending}) EXCEPT ![pending].far = "gone"]
  /\ pending' = Null
  /\ UNCHANGED <<emitted, heard, listening, socket, held, adapter, last, pages, buttons>>

\* Mutant: the held frame outlives its pipe.
CloseHolding ==
  /\ pending # Null \/ socket # Null
  /\ pipes' = Destroyed({pending, socket})
  /\ pending' = Null
  /\ socket' = Null
  /\ UNCHANGED <<emitted, heard, listening, held, adapter, last, pages, buttons>>

Close ==
  /\ pending # Null \/ socket # Null
  /\ pipes' = Destroyed({pending, socket})
  /\ pending' = Null
  /\ socket' = Null
  /\ held' = Null
  /\ UNCHANGED <<emitted, heard, listening, adapter, last, pages, buttons>>

BackedUp == WritableLength(pipes[socket].out) > MaxBacklog

SendFrame ==
  /\ emitted < MaxFrames
  /\ emitted' = emitted + 1
  /\ IF socket = Null
       THEN UNCHANGED <<pipes, held>>
     ELSE IF BackedUp
       THEN held' = emitted' /\ UNCHANGED pipes
       ELSE /\ pipes' = [pipes EXCEPT ![socket].out = Written(@, emitted')]
            /\ held' = held
  /\ UNCHANGED <<heard, listening, pending, socket, adapter, last, pages, buttons>>

SendAudio ==
  /\ heard < MaxAudio
  /\ socket # Null
  /\ ~BackedUp
  /\ heard' = heard + 1
  /\ pipes' = [pipes EXCEPT ![socket].out = Written(@, Audio)]
  /\ UNCHANGED <<emitted, listening, stream, adapter, last, pages, buttons>>

\* Mutant: 'drain' sends nothing.
PipeTakesNoFlush ==
  /\ socket # Null
  /\ pipes[socket].out.flight # <<>>
  /\ pipes[socket].wire = <<>>
  /\ pipes' = [pipes EXCEPT
                ![socket].wire = pipes[socket].out.flight,
                ![socket].out = Completed(@)]
  /\ UNCHANGED <<emitted, heard, listening, stream, adapter, last, pages, buttons>>

\* The kernel took a write, having room for one; on 'drain' the held frame goes out.
PipeTakes ==
  /\ socket # Null
  /\ LET p     == pipes[socket]
         flush == Drains(p.out) /\ held # Null
         out   == Completed(p.out)
     IN  /\ p.out.flight # <<>>
         /\ p.wire = <<>>
         /\ pipes' = [pipes EXCEPT
                       ![socket].wire = p.out.flight,
                       ![socket].out = IF flush THEN Written(out, held) ELSE out]
         /\ held' = IF flush THEN Null ELSE held
  /\ UNCHANGED <<emitted, heard, listening, pending, socket, adapter, last, pages, buttons>>

\* The far end was destroyed.
StreamSeesClose ==
  /\ socket # Null
  /\ pipes[socket].far = "gone"
  /\ pipes' = Destroyed({socket})
  /\ socket' = Null
  /\ held' = Null
  /\ UNCHANGED <<emitted, heard, listening, pending, adapter, last, pages, buttons>>

ReadInput ==
  /\ socket # Null
  /\ pipes[socket].up # <<>>
  /\ buttons' = Head(pipes[socket].up)
  /\ pipes' = [pipes EXCEPT ![socket].up = Tail(@)]
  /\ UNCHANGED <<emitted, heard, listening, stream, adapter, last, pages>>

-----------------------------------------------------------------------------
(* The screen server *)

\* Connections are accepted in the order they were made; the one before is destroyed.
Accept(c) ==
  /\ pipes[c].far = "waiting"
  /\ \A d \in 1..c - 1 : pipes[d].far # "waiting"
  /\ adapter' = c
  /\ pipes' = [d \in Connections |->
                 CASE d = c -> [pipes[d] EXCEPT !.far = "open"]
                   [] d = adapter -> [pipes[d] EXCEPT !.far = "gone", !.wire = <<>>]
                   [] OTHER -> pipes[d]]
  /\ UNCHANGED <<emitted, heard, listening, stream, last, pages, buttons>>

Room(p) == WritableLength(p.out) < 2 * FrameBytes

\* Mutant: a page that is skipped is not caught up.
BroadcastAndForget(frame) ==
  [p \in Pages |->
     IF pages[p].open /\ Room(pages[p])
       THEN [pages[p] EXCEPT !.out = Written(@, frame)] ELSE pages[p]]

Broadcast(frame) ==
  [p \in Pages |->
     IF ~pages[p].open THEN pages[p]
     ELSE IF Room(pages[p])
       THEN [pages[p] EXCEPT !.out = Written(@, frame)]
       ELSE [pages[p] EXCEPT !.behind = TRUE]]

ServerReads ==
  /\ adapter # Null
  /\ pipes[adapter].wire # <<>>
  /\ LET message == Head(pipes[adapter].wire)
     IN  /\ last' = IF message = Audio THEN last ELSE message
         /\ pages' = IF message = Audio THEN pages ELSE Broadcast(message)
  /\ pipes' = [pipes EXCEPT ![adapter].wire = Tail(@)]
  /\ UNCHANGED <<emitted, heard, listening, stream, adapter, buttons>>

ServerSeesClose ==
  /\ adapter # Null
  /\ ~pipes[adapter].near
  /\ pipes[adapter].wire = <<>>
  /\ pipes' = [pipes EXCEPT ![adapter].far = "gone"]
  /\ adapter' = Null
  /\ UNCHANGED <<emitted, heard, listening, stream, last, pages, buttons>>

NoPage(opens) ==
  [open |-> FALSE, opens |-> opens, out |-> Quiet, behind |-> FALSE, shown |-> Null]

\* The server goes, with its pages and every connection to it.
ServerCloses ==
  /\ listening
  /\ listening' = FALSE
  /\ adapter' = Null
  /\ pages' = [p \in Pages |-> NoPage(pages[p].opens)]
  /\ pipes' = [c \in Connections |-> [pipes[c] EXCEPT !.far = "gone", !.wire = <<>>]]
  /\ UNCHANGED <<emitted, heard, stream, last, buttons>>

-----------------------------------------------------------------------------
(* A page *)

PageOpens(p) ==
  /\ listening
  /\ ~pages[p].open
  /\ pages[p].opens < MaxOpens
  /\ pages' = [pages EXCEPT
                ![p].open = TRUE,
                ![p].opens = @ + 1,
                ![p].out = IF last # Null THEN Written(@, last) ELSE @]
  /\ UNCHANGED <<emitted, heard, listening, pipes, stream, adapter, last, buttons>>

PageCloses(p) ==
  /\ pages[p].open
  /\ pages' = [pages EXCEPT ![p] = NoPage(@.opens)]
  /\ UNCHANGED <<emitted, heard, listening, pipes, stream, adapter, last, buttons>>

\* The page took a write and shows the last frame in it; on 'drain' a page that is
\* behind gets the newest.
PageTakes(p) ==
  /\ pages[p].out.flight # <<>>
  /\ LET out   == pages[p].out
         catch == Drains(out) /\ pages[p].behind
     IN  pages' = [pages EXCEPT
                    ![p].shown = Last(out.flight),
                    ![p].behind = IF catch THEN FALSE ELSE @,
                    ![p].out = IF catch THEN Written(Completed(out), last)
                                        ELSE Completed(out)]
  /\ UNCHANGED <<emitted, heard, listening, pipes, stream, adapter, last, buttons>>

\* A key on the page; without an adapter it is lost.  One is under way at a time.
PageTypes(p, mask) ==
  /\ pages[p].open
  /\ adapter # Null
  /\ pipes[adapter].near
  /\ pipes[adapter].up = <<>>
  /\ pipes' = [pipes EXCEPT ![adapter].up = Append(@, mask)]
  /\ UNCHANGED <<emitted, heard, listening, stream, adapter, last, pages, buttons>>

-----------------------------------------------------------------------------

FeedInit ==
  /\ emitted = 0
  /\ heard = 0
  /\ listening = TRUE
  /\ pipes = <<>>
  /\ pending = Null
  /\ socket = Null
  /\ held = Null
  /\ adapter = Null
  /\ last = Null
  /\ pages = [p \in Pages |-> NoPage(0)]
  /\ buttons = 0

FeedNext ==
  \/ Connect
  \/ Connected
  \/ ConnectFails
  \/ Close
  \/ SendFrame
  \/ SendAudio
  \/ PipeTakes
  \/ StreamSeesClose
  \/ ReadInput
  \/ \E c \in Connections : Accept(c)
  \/ ServerReads
  \/ ServerSeesClose
  \/ ServerCloses
  \/ \E p \in Pages : PageOpens(p) \/ PageCloses(p) \/ PageTakes(p)
  \/ \E p \in Pages, mask \in Masks : PageTypes(p, mask)

\* The kernel moves what it was given and the readers read it; nobody is obliged to
\* send, connect, close or type.
FeedFairness ==
  /\ WF_feedVars(Connected \/ ConnectFails)
  /\ WF_feedVars(PipeTakes)
  /\ WF_feedVars(StreamSeesClose)
  /\ WF_feedVars(\E c \in Connections : Accept(c))
  /\ WF_feedVars(ServerReads)
  /\ WF_feedVars(ServerSeesClose)
  /\ \A p \in Pages : WF_feedVars(PageTakes(p))

FeedSpec == FeedInit /\ [][FeedNext]_feedVars /\ FeedFairness
-----------------------------------------------------------------------------
(* Properties *)

\* A frame is only held back on a pipe whose 'drain' is yet to come, the one thing that
\* will ever send it (stream.ts #held, #flush, close).
HeldWillGo ==
  held # Null => /\ socket # Null
                 /\ Queued(pipes[socket].out) # <<>>
                 /\ pipes[socket].out.needDrain

\* A page that stays open ends up showing the newest frame the server has, however slow
\* it was (screen-server.ts #broadcast, "it is caught up once it drains").
PagesCatchUp == <>[](\A p \in Pages : pages[p].open => pages[p].shown = last)

\* Something waits: a frame is held back, or a connect has not settled.
Unsettled == held # Null \/ \E c \in Connections : pipes[c].promise = "pending"

\* A frame held back goes out, unless its pipe is closed; and every connect settles, also
\* one that a newer connect or a close overtook (stream.ts #flush, connect, "rejects if ...
\* a newer connect or a close came before this one connected").  Frames and connects are
\* finitely many here, so that each wait ends if there is a time when none is left.
WaitsEnd == Unsettled ~> ~Unsettled

\* What the server shows once the pipe is empty is the newest frame emitted on it
\* (stream.ts l.5-9, "the newest is kept and written once the pipe drains").
EndsOnTheNewest ==
  LET p == pipes[socket]
  IN  /\ socket # Null
      /\ adapter = socket
      /\ held = Null
      /\ Queued(p.out) = <<>>
      /\ p.wire = <<>>
      /\ emitted > p.since
      => last = emitted
=================================================================================
