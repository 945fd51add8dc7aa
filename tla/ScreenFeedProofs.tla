---------------------------- MODULE ScreenFeedProofs ----------------------------
(***************************************************************************)
(* Proof that a frame the stream holds back will be sent: it waits on a    *)
(* connection that has something queued and a 'drain' to come.             *)
(***************************************************************************)
EXTENDS ScreenFeed, SequenceTheorems, TLAPS

-----------------------------------------------------------------------------
(* The writable stream *)

\* An empty queue has no bytes.
LEMMA LengthOfNone ==
  ASSUME NEW w, Queued(w) = <<>>
  PROVE  WritableLength(w) = 0
<1> DEFINE q == Queued(w)
           Eq(f) == f = [s \in SUBSET DOMAIN q |->
                           IF s = {} THEN 0
                           ELSE LET x == Max(s) IN f[s \ {x}] + Size(q[x])]
           zero == [s \in SUBSET DOMAIN q |-> 0]
<1>1. DOMAIN q = {}
  OBVIOUS
<1>2. Eq(zero)
  BY <1>1
<1>3. Eq(CHOOSE f : Eq(f))
  <2> HIDE DEF Eq, zero
  <2> QED BY <1>2
<1>4. (CHOOSE f : Eq(f))[DOMAIN q] = 0
  BY <1>1, <1>3
<1>5. WritableLength(w) = (CHOOSE f : Eq(f))[DOMAIN q]
  BY Zenon DEF WritableLength, FoldLeft, MapThenFoldSet
<1> QED BY <1>4, <1>5

\* An audio message alone has one.
LEMMA LengthOfAudio ==
  ASSUME NEW w, Queued(w) = <<Audio>>
  PROVE  WritableLength(w) = 1
<1> DEFINE q == Queued(w)
           Eq(f) == f = [s \in SUBSET DOMAIN q |->
                           IF s = {} THEN 0
                           ELSE LET x == Max(s) IN f[s \ {x}] + Size(q[x])]
           one == [s \in SUBSET DOMAIN q |-> IF s = {} THEN 0 ELSE 1]
<1>1. DOMAIN q = {1} /\ q[1] = Audio
  OBVIOUS
<1>2. Max({1}) = 1
  BY DEF Max
<1>3. \A s \in SUBSET DOMAIN q : s = {} \/ s = {1}
  BY <1>1
<1>4. Size(q[1]) = 1 
  BY <1>1 DEF Size
<1>5. Eq(one)
  <2>1. ASSUME NEW s \in SUBSET DOMAIN q
        PROVE  (IF s = {} THEN 0 ELSE 1) = IF s = {} THEN 0
                           ELSE LET x == Max(s) IN one[s \ {x}] + Size(q[x])
    <3>1. CASE s = {}
      BY <3>1
    <3>2. CASE s = {1}
      <4>1. one[{}] = 0 /\ {1} \ {1} = {}
        OBVIOUS
      <4> HIDE DEF one, q
      <4> QED BY <1>2, <1>4, <3>2, <4>1
    <3> QED BY <1>3, <3>1, <3>2
  <2> QED BY <2>1
<1>6. Eq(CHOOSE f : Eq(f))
  <2> HIDE DEF Eq, one
  <2> QED BY <1>5
<1>7. (CHOOSE f : Eq(f))[DOMAIN q] = 1
  <2> DEFINE g == CHOOSE f : Eq(f)
  <2>1. \A s \in SUBSET DOMAIN q : g[s] = IF s = {} THEN 0
                           ELSE LET x == Max(s) IN g[s \ {x}] + Size(q[x])
    BY <1>6
  <2> HIDE DEF g, q
  <2>2. g[{}] = 0
    BY <2>1
  <2>3. g[{1}] = g[{1} \ {1}] + Size(q[1])
    BY <1>1, <1>2, <2>1
  <2>4. {1} \ {1} = {}
    OBVIOUS
  <2>5. g[DOMAIN q] = 1
    BY <1>1, <1>4, <2>2, <2>3, <2>4
  <2> QED BY <2>5 DEF g
<1>8. WritableLength(w) = (CHOOSE f : Eq(f))[DOMAIN q]
  BY Zenon DEF WritableLength, FoldLeft, MapThenFoldSet
<1> QED BY <1>7, <1>8

\* What a stream may hold: a queue that is more than one audio message, so that it has
\* reached the high-water mark, has a 'drain' to come.
Stream == [flight : Seq(Nat), buffer : Seq(Nat), needDrain : BOOLEAN]

Marked(w) ==
  /\ w \in Stream
  /\ w.flight = <<>> => w.buffer = <<>>
  /\ w.needDrain \/ Queued(w) \in {<<>>, <<Audio>>}

LEMMA QuietMarked == Marked(Quiet)
BY EmptySeq DEF Marked, Stream, Quiet, Queued

\* A write keeps the mark.
LEMMA WriteMarked ==
  ASSUME NEW w, Marked(w), NEW message \in Nat
  PROVE  Marked(Written(w, message)) /\ Queued(Written(w, message)) # <<>>
<1> DEFINE v == Written(w, message)
<1>1. w.flight \in Seq(Nat) /\ w.buffer \in Seq(Nat) /\ w.needDrain \in BOOLEAN
  BY DEF Marked, Stream
<1>2. /\ v.flight = IF w.flight = <<>> THEN <<message>> ELSE w.flight
      /\ v.buffer = IF w.flight = <<>> THEN <<>> ELSE Append(w.buffer, message)
      /\ v.needDrain = (w.needDrain \/ WritableLength(w) + Size(message) >= HighWater)
      /\ v = [flight |-> v.flight, buffer |-> v.buffer, needDrain |-> v.needDrain]
  BY DEF Written
<1> HIDE DEF v
<1>3. v.flight \in Seq(Nat) /\ v.buffer \in Seq(Nat) /\ v.flight # <<>>
  BY <1>1, <1>2
<1>4. v \in Stream
  BY <1>2, <1>3 DEF Stream
<1>5. Queued(v) # <<>>
  BY <1>3 DEF Queued
<1>6. v.needDrain \/ Queued(v) \in {<<>>, <<Audio>>}
  <2>1. CASE w.needDrain
    BY <1>2, <2>1
  <2>2. CASE ~w.needDrain /\ Queued(w) = <<Audio>>
    <3>1. 1 + Size(message) >= HighWater
      BY DEF Size, HighWater, FrameBytes
    <3> QED BY <1>2, <2>2, <3>1, LengthOfAudio
  <2>3. CASE ~w.needDrain /\ Queued(w) = <<>>
    <3>1. w.flight = <<>>
      BY <1>1, <2>3 DEF Queued
    <3>2. v.flight = <<message>> /\ v.buffer = <<>>
      BY <1>2, <3>1
    <3>3. CASE message = Audio
      BY <3>2, <3>3 DEF Queued
    <3>4. CASE message # Audio
      <4>1. 0 + Size(message) >= HighWater
        BY <3>4 DEF Size, HighWater, FrameBytes
      <4> QED BY <1>2, <2>3, <4>1, LengthOfNone
    <3> QED BY <3>3, <3>4
  <2> QED BY <2>1, <2>2, <2>3 DEF Marked
<1> QED BY <1>3, <1>4, <1>5, <1>6 DEF Marked, v

\* So does a completed write, and a 'drain' not emitted is still to come.
LEMMA CompletedMarked ==
  ASSUME NEW w, Marked(w), w.flight # <<>>
  PROVE  /\ Marked(Completed(w))
         /\ w.needDrain /\ ~Drains(w) =>
              Completed(w).needDrain /\ Queued(Completed(w)) # <<>>
<1> DEFINE v == Completed(w)
<1>1. w.flight \in Seq(Nat) /\ w.buffer \in Seq(Nat) /\ w.needDrain \in BOOLEAN
  BY DEF Marked, Stream
<1>2. /\ v.flight = w.buffer /\ v.buffer = <<>>
      /\ v.needDrain = (w.needDrain /\ ~(w.buffer = <<>> /\ w.needDrain))
      /\ v = [flight |-> v.flight, buffer |-> v.buffer, needDrain |-> v.needDrain]
  BY DEF Completed, Drains
<1> HIDE DEF v
<1>3. v \in Stream
  <2>1. v.flight \in Seq(Nat) /\ v.buffer \in Seq(Nat)
    BY <1>1, <1>2, EmptySeq
  <2>2. v.needDrain \in BOOLEAN
    BY <1>1, <1>2
  <2> QED BY <1>2, <2>1, <2>2 DEF Stream
<1>4. Queued(v) = w.buffer
  BY <1>1, <1>2 DEF Queued
<1>5. v.needDrain \/ Queued(v) \in {<<>>, <<Audio>>}
  <2>1. CASE w.buffer = <<>>
    BY <1>4, <2>1
  <2>2. CASE w.buffer # <<>> /\ w.needDrain
    BY <1>2, <2>2
  <2>3. CASE w.buffer # <<>> /\ ~w.needDrain
    <3>1. Queued(w) = w.flight \o w.buffer /\ Queued(w) \in {<<>>, <<Audio>>}
      BY <2>3 DEF Queued, Marked
    <3>2. Len(w.flight \o w.buffer) = Len(w.flight) + Len(w.buffer)
      BY <1>1
    <3>3. Len(w.flight) >= 1 /\ Len(w.buffer) >= 1
      BY <1>1, <2>3
    <3>4. Len(Queued(w)) = 0 \/ Len(Queued(w)) = 1
      <4>1. Len(<<>>) = 0 /\ Len(<<Audio>>) = 1
        OBVIOUS
      <4> QED BY <3>1, <4>1
    <3>5. Len(w.flight) \in Nat /\ Len(w.buffer) \in Nat
      BY <1>1
    <3>6. Len(Queued(w)) = Len(w.flight) + Len(w.buffer)
      BY <3>1, <3>2, Zenon
    <3>7. ASSUME NEW a, NEW b, NEW c, a \in Nat, b \in Nat, a >= 1, b >= 1, c = a + b, c = 0 \/ c = 1
          PROVE  FALSE
      BY <3>7
    <3>8. FALSE
      <4>1. Len(w.flight) >= 1 /\ Len(w.buffer) >= 1
        BY <3>3
      <4> QED BY <3>4, <3>5, <3>6, <3>7, <4>1, Zenon
    <3> QED BY <3>8
  <2> QED BY <2>1, <2>2, <2>3
<1>6. Marked(v)
  BY <1>2, <1>3, <1>5 DEF Marked
<1> QED BY <1>2, <1>4, <1>6 DEF Drains, v

\* A stream that is backed up has a queue and a 'drain' to come.
LEMMA BackedUpDrains ==
  ASSUME NEW w, Marked(w), WritableLength(w) > MaxBacklog
  PROVE  w.needDrain /\ Queued(w) # <<>>
BY LengthOfNone, LengthOfAudio DEF Marked, MaxBacklog, FrameBytes

-----------------------------------------------------------------------------
(* The invariant *)

PipeFields == {"promise", "near", "far", "out", "wire", "up", "since"}

\* The connections are numbered from 1, and every stream over one is marked.
PipesOK(ps) ==
  /\ Len(ps) \in Nat
  /\ ps = [c \in 1..Len(ps) |-> ps[c]]
  /\ \A c \in 1..Len(ps) : DOMAIN ps[c] = PipeFields /\ Marked(ps[c].out)

\* The stream connects or is connected, not both; and the frame it holds back is sent
\* when what is queued has gone.
FeedInv ==
  /\ emitted \in Nat
  /\ PipesOK(pipes)
  /\ pending # Null => pending \in 1..Len(pipes)
  /\ socket # Null => socket \in 1..Len(pipes)
  /\ pending = Null \/ socket = Null
  /\ held # Null => held \in Nat
  /\ HeldWillGo

\* The connections stay what they are under a change of some of their fields.
LEMMA PipesChanged ==
  ASSUME NEW qs, PipesOK(qs), NEW ps, ps = [c \in 1..Len(qs) |-> ps[c]],
         \A c \in 1..Len(qs) : DOMAIN ps[c] = PipeFields /\ Marked(ps[c].out)
  PROVE  PipesOK(ps) /\ Len(ps) = Len(qs)
<1>1. Len(qs) \in Nat
  BY DEF PipesOK
<1>2. Len(ps) = Len(qs)
  BY <1>1, IsASeq, LenProperties
<1> QED BY <1>1, <1>2 DEF PipesOK

\* What is destroyed has nothing queued.
LEMMA DestroyedOK ==
  ASSUME PipesOK(pipes), NEW cs
  PROVE  /\ PipesOK(Destroyed(cs))
         /\ Len(Destroyed(cs)) = Len(pipes)
         /\ \A c \in 1..Len(pipes) : c \notin cs => Destroyed(cs)[c] = pipes[c]
<1> DEFINE ps == Destroyed(cs)
<1>1. Len(pipes) \in Nat /\ Connections = 1..Len(pipes)
  BY DEF PipesOK, Connections
<1>2. ps = [c \in 1..Len(pipes) |-> ps[c]]
  BY <1>1 DEF Destroyed
<1>3. ASSUME NEW c \in 1..Len(pipes)
      PROVE  /\ DOMAIN ps[c] = PipeFields /\ Marked(ps[c].out)
             /\ c \notin cs => ps[c] = pipes[c]
  <2>1. CASE c \notin cs
    BY <1>1, <2>1 DEF Destroyed, PipesOK
  <2>2. CASE c \in cs
    <3>1. ps[c] = [pipes[c] EXCEPT
            !.near = FALSE, !.out = Quiet, !.up = <<>>,
            !.promise = IF @ = "pending" THEN "rejected" ELSE @]
      BY <1>1, <2>2 DEF Destroyed
    <3>2. DOMAIN pipes[c] = PipeFields
      BY DEF PipesOK
    <3> HIDE DEF ps
    <3>3. DOMAIN ps[c] = PipeFields /\ ps[c].out = Quiet
      BY <3>1, <3>2 DEF PipeFields
    <3> QED BY <2>2, <3>3, QuietMarked
  <2> QED BY <2>1, <2>2
<1> HIDE DEF ps
<1> QED BY <1>2, <1>3, PipesChanged DEF ps

\* A change of one connection that leaves its fields and marks its stream.
LEMMA OneChanged ==
  ASSUME NEW qs, PipesOK(qs), NEW ps, NEW s \in 1..Len(qs), NEW r,
         ps = [qs EXCEPT ![s] = r], DOMAIN r = PipeFields, Marked(r.out)
  PROVE  PipesOK(ps) /\ Len(ps) = Len(qs) /\ ps[s] = r
<1>1. qs = [c \in 1..Len(qs) |-> qs[c]]
  BY DEF PipesOK
<1>2. /\ ps = [c \in 1..Len(qs) |-> ps[c]] /\ ps[s] = r
      /\ \A c \in 1..Len(qs) : c # s => ps[c] = qs[c]
  BY <1>1
<1>3. \A c \in 1..Len(qs) : DOMAIN ps[c] = PipeFields /\ Marked(ps[c].out)
  <2>1. ASSUME NEW c \in 1..Len(qs) PROVE DOMAIN ps[c] = PipeFields /\ Marked(ps[c].out)
    BY <1>2 DEF PipesOK
  <2> QED BY <2>1
<1> QED BY <1>2, <1>3, PipesChanged

\* What leaves every connection's queue alone, and the stream's own state, keeps the
\* invariant: the server's actions, the pages' and the button masks.
LEMMA QueuesKept ==
  ASSUME FeedInv, UNCHANGED <<emitted, stream>>, pipes' = [c \in 1..Len(pipes) |-> pipes'[c]],
         \A c \in 1..Len(pipes) : DOMAIN pipes'[c] = PipeFields /\ pipes'[c].out = pipes[c].out
  PROVE  FeedInv'
<1>1. PipesOK(pipes') /\ Len(pipes') = Len(pipes)
  <2>1. PipesOK(pipes)
    BY DEF FeedInv
  <2>2. \A c \in 1..Len(pipes) : DOMAIN pipes'[c] = PipeFields /\ Marked(pipes'[c].out)
    BY <2>1 DEF PipesOK
  <2> QED BY <2>1, <2>2, PipesChanged
<1>2. held' = held /\ socket' = socket /\ pending' = pending /\ emitted' = emitted
  BY DEF stream
<1>3. HeldWillGo'
  <2>1. socket # Null => pipes'[socket].out = pipes[socket].out
    BY DEF FeedInv
  <2> QED BY <1>2, <2>1 DEF FeedInv, HeldWillGo
<1> QED BY <1>1, <1>2, <1>3 DEF FeedInv

\* A new connection goes after the others.
LEMMA ConnectKeeps ==
  ASSUME FeedInv, Connect
  PROVE  FeedInv'
<1> DEFINE ds == Destroyed({pending, socket})
           n == Len(pipes)
<1>1. PipesOK(pipes)
  BY DEF FeedInv
<1>2. PipesOK(ds) /\ Len(ds) = n /\ n \in Nat
  BY <1>1, DestroyedOK DEF PipesOK
<1> HIDE DEF ds
<1> DEFINE S == {ds[c] : c \in 1..n} \cup {NewPipe}
<1>3. ds \in Seq(S)
  <2>1. ds = [c \in 1..n |-> ds[c]]
    BY <1>2 DEF PipesOK
  <2>2. \A c \in 1..n : ds[c] \in S
    OBVIOUS
  <2> HIDE DEF S
  <2>3. ds \in [1..n -> S]
    BY <2>1, <2>2
  <2> QED BY <1>2, <2>3, IsASeq
<1>4. NewPipe \in S
  OBVIOUS
<1> HIDE DEF S
<1>5. pipes' = Append(ds, NewPipe)
  BY DEF Connect, ds
<1>6. /\ Len(pipes') = n + 1 /\ pipes'[n + 1] = NewPipe
      /\ \A c \in 1..n : pipes'[c] = ds[c]
      /\ pipes' \in Seq(S)
  BY <1>2, <1>3, <1>4, <1>5, AppendProperties
<1>7. DOMAIN NewPipe = PipeFields /\ Marked(NewPipe.out)
  BY QuietMarked DEF NewPipe, PipeFields
<1>8. PipesOK(pipes')
  <2>1. pipes' = [c \in 1..n + 1 |-> pipes'[c]]
    BY <1>2, <1>6, LenProperties
  <2>2. \A c \in 1..n + 1 : DOMAIN pipes'[c] = PipeFields /\ Marked(pipes'[c].out)
    BY <1>2, <1>6, <1>7 DEF PipesOK
  <2> QED BY <1>2, <1>6, <2>1, <2>2 DEF PipesOK
<1>9. /\ pending' = Len(pipes') /\ socket' = Null /\ held' = Null /\ emitted' = emitted
  BY DEF Connect
<1>10. HeldWillGo'
  BY <1>9 DEF HeldWillGo
<1> QED BY <1>2, <1>6, <1>8, <1>9, <1>10 DEF FeedInv

\* A connection that opened is empty.
LEMMA ConnectedKeeps ==
  ASSUME FeedInv, Connected
  PROVE  FeedInv'
<1>1. /\ pending # Null /\ pending \in 1..Len(pipes) /\ PipesOK(pipes)
      /\ socket = Null /\ held = Null
  BY DEF FeedInv, Connected, HeldWillGo
<1> DEFINE r == [pipes[pending] EXCEPT !.promise = "resolved", !.since = emitted]
<1>2. pipes' = [pipes EXCEPT ![pending] = r]
  BY DEF Connected
<1>3. DOMAIN r = PipeFields /\ Marked(r.out)
  BY <1>1 DEF PipesOK, PipeFields
<1> HIDE DEF r
<1>4. PipesOK(pipes') /\ Len(pipes') = Len(pipes)
  BY <1>1, <1>2, <1>3, OneChanged
<1>5. socket' = pending /\ pending' = Null /\ held' = Null /\ emitted' = emitted
  BY <1>1 DEF Connected
<1>6. HeldWillGo'
  BY <1>5 DEF HeldWillGo
<1> QED BY <1>1, <1>4, <1>5, <1>6 DEF FeedInv

\* One that failed had nothing held back for it.
LEMMA ConnectFailsKeeps ==
  ASSUME FeedInv, ConnectFails
  PROVE  FeedInv'
<1> DEFINE ds == Destroyed({pending})
           r == [ds[pending] EXCEPT !.far = "gone"]
<1>1. /\ pending # Null /\ pending \in 1..Len(pipes) /\ PipesOK(pipes)
      /\ socket = Null /\ held = Null
  BY DEF FeedInv, ConnectFails, HeldWillGo
<1>2. PipesOK(ds) /\ Len(ds) = Len(pipes)
  BY <1>1, DestroyedOK
<1>3. pipes' = [ds EXCEPT ![pending] = r]
  BY DEF ConnectFails
<1> HIDE DEF ds
<1>4. DOMAIN r = PipeFields /\ Marked(r.out)
  BY <1>1, <1>2 DEF PipesOK, PipeFields
<1> HIDE DEF r
<1>5. PipesOK(pipes') /\ Len(pipes') = Len(pipes)
  BY <1>1, <1>2, <1>3, <1>4, OneChanged
<1>6. socket' = Null /\ pending' = Null /\ held' = Null /\ emitted' = emitted
  BY <1>1 DEF ConnectFails
<1>7. HeldWillGo'
  BY <1>6 DEF HeldWillGo
<1> QED BY <1>5, <1>6, <1>7 DEF FeedInv

\* A closed stream holds nothing back.
LEMMA ClosesKeep ==
  ASSUME FeedInv, Close \/ StreamSeesClose
  PROVE  FeedInv'
<1>1. PipesOK(pipes) /\ (pending = Null \/ socket = Null)
  BY DEF FeedInv
<1>2. /\ PipesOK(pipes') /\ Len(pipes') = Len(pipes)
  <2>1. CASE Close
    BY <1>1, <2>1, DestroyedOK DEF Close
  <2>2. CASE StreamSeesClose
    BY <1>1, <2>2, DestroyedOK DEF StreamSeesClose
  <2> QED BY <2>1, <2>2
<1>3. socket' = Null /\ pending' = Null /\ held' = Null /\ emitted' = emitted
  BY <1>1 DEF Close, StreamSeesClose
<1>4. HeldWillGo'
  BY <1>3 DEF HeldWillGo
<1> QED BY <1>2, <1>3, <1>4 DEF FeedInv

\* The queue of the connection written to, after a write or a write's completion.
LEMMA SocketChanged ==
  ASSUME FeedInv, socket # Null, UNCHANGED <<pending, socket>>, emitted' \in Nat,
         NEW r, pipes' = [pipes EXCEPT ![socket] = r], DOMAIN r = PipeFields, Marked(r.out),
         held' # Null => held' \in Nat /\ Queued(r.out) # <<>> /\ r.out.needDrain
  PROVE  FeedInv'
<1>1. PipesOK(pipes) /\ socket \in 1..Len(pipes)
  BY DEF FeedInv
<1>2. PipesOK(pipes') /\ Len(pipes') = Len(pipes) /\ pipes'[socket] = r
  <2>1. pipes' = [pipes EXCEPT ![socket] = r] /\ DOMAIN r = PipeFields /\ Marked(r.out)
    OBVIOUS
  <2> QED BY <1>1, <2>1, OneChanged
<1>3. HeldWillGo'
  BY <1>2 DEF HeldWillGo
<1> QED BY <1>1, <1>2, <1>3 DEF FeedInv

\* A frame is held back only where the stream is backed up.
LEMMA SendFrameKeeps ==
  ASSUME FeedInv, SendFrame
  PROVE  FeedInv'
<1>1. emitted' = emitted + 1 /\ emitted' \in Nat /\ pending' = pending /\ socket' = socket
  BY DEF FeedInv, SendFrame
<1>2. CASE socket = Null
  <2>1. UNCHANGED <<pipes, held>>
    BY <1>2 DEF SendFrame
  <2> QED BY <1>1, <2>1 DEF FeedInv, HeldWillGo
<1>3. CASE socket # Null
  <2> DEFINE w == pipes[socket].out
  <2>1. /\ PipesOK(pipes) /\ socket \in 1..Len(pipes)
        /\ DOMAIN pipes[socket] = PipeFields /\ Marked(w)
    BY <1>3 DEF FeedInv, PipesOK
  <2>2. CASE BackedUp
    <3>1. held' = emitted' /\ pipes' = pipes
      BY <1>3, <2>2 DEF SendFrame
    <3>2. w.needDrain /\ Queued(w) # <<>>
      BY <2>1, <2>2, BackedUpDrains DEF BackedUp
    <3> QED BY <1>1, <1>3, <2>1, <3>1, <3>2 DEF FeedInv, HeldWillGo
  <2>3. CASE ~BackedUp
    <3> DEFINE r == [pipes[socket] EXCEPT !.out = Written(@, emitted')]
    <3>1. pipes' = [pipes EXCEPT ![socket] = r] /\ held' = held
      BY <1>3, <2>3 DEF SendFrame
    <3>2. DOMAIN r = PipeFields /\ r.out = Written(w, emitted')
      BY <2>1 DEF PipeFields
    <3>3. Marked(Written(w, emitted')) /\ Queued(Written(w, emitted')) # <<>>
      BY <1>1, <2>1, WriteMarked
    <3>4. w.needDrain => Written(w, emitted').needDrain
      BY DEF Written
    <3>5. held # Null => held \in Nat /\ w.needDrain
      BY DEF FeedInv, HeldWillGo
    <3> HIDE DEF r, w
    <3> QED BY <1>1, <1>3, <3>1, <3>2, <3>3, <3>4, <3>5, SocketChanged
  <2> QED BY <2>2, <2>3
<1> QED BY <1>2, <1>3

\* Audio is written where there is room, and only adds to what a held frame waits for.
LEMMA SendAudioKeeps ==
  ASSUME FeedInv, SendAudio
  PROVE  FeedInv'
<1> DEFINE w == pipes[socket].out
           r == [pipes[socket] EXCEPT !.out = Written(@, Audio)]
<1>1. /\ PipesOK(pipes) /\ socket # Null /\ socket \in 1..Len(pipes)
      /\ DOMAIN pipes[socket] = PipeFields /\ Marked(w)
      /\ emitted' \in Nat /\ UNCHANGED <<pending, socket>> /\ held' = held
  BY DEF FeedInv, PipesOK, SendAudio, stream
<1>2. pipes' = [pipes EXCEPT ![socket] = r]
  BY DEF SendAudio
<1>3. DOMAIN r = PipeFields /\ r.out = Written(w, Audio)
  BY <1>1 DEF PipeFields
<1>4. Audio \in Nat
  BY DEF Audio
<1>5. Marked(Written(w, Audio)) /\ Queued(Written(w, Audio)) # <<>>
  BY <1>1, <1>4, WriteMarked
<1>6. w.needDrain => Written(w, Audio).needDrain
  BY DEF Written
<1>7. held # Null => held \in Nat /\ w.needDrain
  BY DEF FeedInv, HeldWillGo
<1> HIDE DEF r, w
<1> QED BY <1>1, <1>2, <1>3, <1>5, <1>6, <1>7, SocketChanged

\* A write that completes either drains the stream, which sends the held frame, or
\* leaves it the rest of its queue and its 'drain'.
LEMMA PipeTakesKeeps ==
  ASSUME FeedInv, PipeTakes
  PROVE  FeedInv'
<1> DEFINE w == pipes[socket].out
           flush == Drains(w) /\ held # Null
           out == Completed(w)
           next == IF flush THEN Written(out, held) ELSE out
           r == [pipes[socket] EXCEPT !.wire = w.flight, !.out = next]
<1>1. /\ PipesOK(pipes) /\ socket # Null /\ socket \in 1..Len(pipes)
      /\ DOMAIN pipes[socket] = PipeFields /\ Marked(w)
      /\ emitted' \in Nat /\ UNCHANGED <<pending, socket>>
      /\ w.flight # <<>>
  BY DEF FeedInv, PipesOK, PipeTakes
<1>2. /\ pipes' = [pipes EXCEPT ![socket] = r]
      /\ held' = IF flush THEN Null ELSE held
  BY DEF PipeTakes
<1>3. DOMAIN r = PipeFields /\ r.out = next
  <2> HIDE DEF next
  <2> QED BY <1>1 DEF PipeFields
<1>4. held # Null => held \in Nat /\ w.needDrain
  BY DEF FeedInv, HeldWillGo
<1>5. Marked(out) /\ (w.needDrain /\ ~Drains(w) => out.needDrain /\ Queued(out) # <<>>)
  BY <1>1, CompletedMarked
<1>6. CASE flush
  <2>1. Marked(next) /\ held' = Null
    BY <1>2, <1>4, <1>5, <1>6, WriteMarked
  <2> HIDE DEF r, next
  <2> QED BY <1>1, <1>2, <1>3, <2>1, SocketChanged
<1>7. CASE ~flush
  <2>1. next = out /\ held' = held
    BY <1>2, <1>7
  <2>2. held # Null => out.needDrain /\ Queued(out) # <<>>
    BY <1>4, <1>5, <1>7
  <2> HIDE DEF r, next, out
  <2> QED BY <1>1, <1>2, <1>3, <1>4, <1>5, <2>1, <2>2, SocketChanged
<1> QED BY <1>6, <1>7

\* A step that leaves the connections, the stream and the count of frames alone.
LEMMA FeedUntouched ==
  ASSUME FeedInv, UNCHANGED <<emitted, stream, pipes>>
  PROVE  FeedInv'
BY DEF FeedInv, HeldWillGo, stream

\* Every step of the stream, the server and the pages keeps the invariant.
LEMMA FeedInductive == FeedInv /\ [FeedNext]_feedVars => FeedInv'
<1> SUFFICES ASSUME FeedInv, [FeedNext]_feedVars PROVE FeedInv'
  OBVIOUS
<1>0. /\ PipesOK(pipes) /\ Len(pipes) \in Nat /\ Connections = 1..Len(pipes)
      /\ pipes = [c \in 1..Len(pipes) |-> pipes[c]]
      /\ \A c \in 1..Len(pipes) : DOMAIN pipes[c] = PipeFields
  BY DEF FeedInv, PipesOK, Connections
<1>1. CASE ReadInput
  BY <1>0, <1>1, QueuesKept DEF ReadInput, PipeFields
<1>2. ASSUME NEW d \in Connections, Accept(d) PROVE FeedInv'
  <2> DEFINE seen == [c \in 1..Len(pipes) |->
                        CASE c = d -> [pipes[c] EXCEPT !.far = "open"]
                          [] c = adapter -> [pipes[c] EXCEPT !.far = "gone", !.wire = <<>>]
                          [] OTHER -> pipes[c]]
  <2>1. pipes' = seen /\ UNCHANGED <<emitted, stream>>
    BY <1>0, <1>2 DEF Accept
  <2>2. ASSUME NEW c \in 1..Len(pipes)
        PROVE  DOMAIN seen[c] = PipeFields /\ seen[c].out = pipes[c].out
    BY <1>0 DEF PipeFields
  <2>3. seen = [c \in 1..Len(pipes) |-> seen[c]]
    OBVIOUS
  <2> HIDE DEF seen
  <2> QED BY <2>1, <2>2, <2>3, QueuesKept
<1>3. CASE ServerReads
  BY <1>0, <1>3, QueuesKept DEF ServerReads, PipeFields
<1>4. CASE ServerSeesClose
  BY <1>0, <1>4, QueuesKept DEF ServerSeesClose, PipeFields
<1>5. CASE ServerCloses
  BY <1>0, <1>5, QueuesKept DEF ServerCloses, PipeFields
<1>6. ASSUME NEW p \in Pages, PageOpens(p) \/ PageCloses(p) \/ PageTakes(p) PROVE FeedInv'
  BY <1>6, FeedUntouched DEF PageOpens, PageCloses, PageTakes
<1>7. ASSUME NEW p \in Pages, NEW mask \in Masks, PageTypes(p, mask) PROVE FeedInv'
  BY <1>0, <1>7, QueuesKept DEF PageTypes, PipeFields
<1>8. CASE UNCHANGED feedVars
  <2>1. UNCHANGED <<emitted, stream, pipes>>
    BY <1>8 DEF feedVars, stream
  <2> QED BY <2>1, FeedUntouched
<1> QED
  BY <1>1, <1>2, <1>3, <1>4, <1>5, <1>6, <1>7, <1>8, ConnectKeeps, ConnectedKeeps,
     ConnectFailsKeeps, ClosesKeep, SendFrameKeeps, SendAudioKeeps, PipeTakesKeeps DEF FeedNext

\* A frame held back waits on a live connection with something queued and a 'drain' to
\* come: no order of connects, closes, writes and completions strands it.
THEOREM HeldFramesGo == FeedSpec => []HeldWillGo
<1>1. FeedInit => FeedInv
  <2>1. Len(<<>>) = 0 /\ <<>> = [c \in 1..0 |-> <<>>[c]]
    OBVIOUS
  <2>2. PipesOK(<<>>)
    BY <2>1 DEF PipesOK
  <2> QED BY <2>2 DEF FeedInit, FeedInv, HeldWillGo
<1>2. FeedInv => HeldWillGo
  BY DEF FeedInv
<1> QED
  BY <1>1, <1>2, FeedInductive, PTL DEF FeedSpec
=================================================================================
