------------------------------ MODULE Scripting ------------------------------
(* The scripting engine (gba-emulator scripting.ts): calls that run the     *)
(* machine frame by frame until something is seen, watches that record who  *)
(* wrote or executed what, and reads and writes of the game's memory by     *)
(* address, by symbol and by member, which refuse what would land           *)
(* elsewhere.  A byte is a number below BYTE.                               *)
EXTENDS Integers, SequencesExt

CONSTANTS BYTE,        \* values of a byte (256)
          ADDRESSES, REGION,  \* the bytes of memory, and what backs each: "" for nothing
          OBJECTS,     \* the symbols: <<name, address, extent or 0 when unstated>>
          FRAMES,      \* what the game may do in a frame: a sequence of events
          FILTERS,     \* filters of a watch: [throws, keep], the values kept
          CAPS,        \* maxHits, 0 for none
          WATCHED,     \* what may be watched: <<kind, address, length>>
          WRITES,      \* the script's stores: [address, size, bits, value]
          TIMEOUT, HOLD, \* frames a wait and a press last
          SHOTS,       \* intervals of a recording
          MACHINE,     \* bound: frames run
          CALLS        \* bound: calls of the script

VARIABLES mem,      \* byte of every address
          points,   \* watchpoints in the bus and the CPU: handle numbers, 0 for a wait's
          handles,  \* the watches handed out
          seen,     \* for each of them, the events it matched
          call,     \* the call that runs frames: <<>> or <<[kind, left, on, until, reached]>>
          held,     \* the buttons pressed
          onFrame,  \* the script's frame callback: "none", "quiet" or "throws"
          rec, sheets,  \* the recording under way, and the frame counts of the sheets written
          shown,    \* frames run
          file,     \* the save state written: <<>> or <<mem>>
          stored,   \* the last store of the script: <<>> or <<[before, write]>>
          calls
vars == <<mem, points, handles, seen, call, held, onFrame, rec, sheets, shown, file, stored, calls>>

-----------------------------------------------------------------------------
(* The bus, as far as a script's access reaches it                         *)
Backed(a) == a \in ADDRESSES /\ REGION[a] # ""
Twin(a) == IF a % 2 = 0 THEN a + 1 ELSE a - 1
Write8(m, a, v) ==
  CASE REGION[a] \in {"ROM", "OAM"} -> m
    [] REGION[a] = "palette" -> [m EXCEPT ![a] = v, ![Twin(a)] = v]
    [] OTHER -> [m EXCEPT ![a] = v]
Commits(a, size) == REGION[a] # "ROM" /\ (REGION[a] = "OAM" => size > 1)
Span(a, size) == a .. a + size - 1
WriteOf(m, a, size, v) ==
  [b \in ADDRESSES |-> IF b \in Span(a, size) /\ Commits(a, size) THEN (v \div BYTE ^ (b - a)) % BYTE ELSE m[b]]

\* One watchpoint is told once of a store, with the first byte it watches.
Overlaps(w, a, size) == a < w[2] + w[3] /\ a + size > w[2]
Hit(w, e) == IF e.kind = "exec" THEN [address |-> w[2], value |-> e.lr, source |-> "cpu"]
             ELSE [address |-> IF e.address > w[2] THEN e.address ELSE w[2], value |-> e.value, source |-> e.source]
Fires(w, e) ==
  /\ e.kind = w[1]
  /\ IF e.kind = "exec" THEN e.address = w[2] ELSE Commits(e.address, e.size) /\ Overlaps(w, e.address, e.size)

-----------------------------------------------------------------------------
(* Watches                                                                 *)
\* A filter that throws keeps nothing.
Keeps(filter, hit) == ~filter.throws /\ hit.value \in filter.keep
Full(h) == h.cap # 0 /\ Len(h.hits) >= h.cap
OnWrite(h, hit) ==
  IF Full(h) THEN [h EXCEPT !.dropped = @ + 1]
  ELSE IF Keeps(h.filter, hit) THEN [h EXCEPT !.hits = Append(@, hit)] ELSE h
OnExecute(h, hit) ==
  LET counted == [h EXCEPT !.count = @ + 1]
  IN IF ~Keeps(h.filter, hit) THEN counted
     ELSE IF Full(h) THEN [counted EXCEPT !.dropped = @ + 1] ELSE [counted EXCEPT !.hits = Append(@, hit)]

\* The machine and the watches after one event of the game or one store of the script.
Applied(s, e) ==
  LET told(i) == i \in s.points /\ Fires(s.handles[i].on, e)
  IN [s EXCEPT
        !.mem = IF e.kind = "write" THEN WriteOf(@, e.address, e.size, e.value) ELSE @,
        !.handles = [i \in DOMAIN @ |-> IF ~told(i) THEN @[i]
                                        ELSE IF e.kind = "write" THEN OnWrite(@[i], Hit(@[i].on, e)) ELSE OnExecute(@[i], Hit(@[i].on, e))],
        !.seen = [i \in DOMAIN @ |-> IF told(i) THEN Append(@[i], Hit(s.handles[i].on, e)) ELSE @[i]],
        !.reached = @ \/ (0 \in s.points /\ e.kind = "exec" /\ call # <<>> /\ call[1].on = e.address)]
Machine == [mem |-> mem, points |-> points, handles |-> handles, seen |-> seen, reached |-> call # <<>> /\ call[1].reached]
After(events) == FoldLeft(Applied, Machine, events)

WatchMemory(w, filter, cap) ==
  /\ handles' = Append(handles, [on |-> w, filter |-> filter, cap |-> cap, hits |-> <<>>, count |-> 0, dropped |-> 0, live |-> TRUE])
  /\ seen' = Append(seen, <<>>)
  /\ points' = points \cup {Len(handles) + 1}
Stop(i) ==
  /\ points' = IF handles[i].live THEN points \ {i} ELSE points
  /\ handles' = [handles EXCEPT ![i].live = FALSE]
ClearWatchpoints ==
  /\ points' = {i \in points : i = 0 \/ ~handles[i].live}
  /\ handles' = [i \in DOMAIN handles |-> [handles[i] EXCEPT !.live = FALSE]]

-----------------------------------------------------------------------------
(* Guarded reads and writes                                                *)
RequireReadable(a, size) == Backed(a) /\ Backed(a + size - 1) /\ REGION[a] = REGION[a + size - 1]
RequireAligned(a, size) == a % size = 0
\* The nearest symbol before an address, and the end of what it names.
SymbolOf(a) == {o \in OBJECTS : o[2] <= a /\ \A other \in OBJECTS : other[2] <= a => other[2] <= o[2]}
RequireWithinSymbol(a, size) ==
  size <= 1 \/ \A o \in SymbolOf(a) : o[3] = 0 \/ a >= o[2] + o[3] \/ a + size <= o[2] + o[3]
RequireWritable(a, size) == RequireReadable(a, size) /\ REGION[a] # "ROM" /\ RequireWithinSymbol(a, size)

ReadSized(m, a, size) ==
  LET sum[i \in 0 .. size] == IF i = 0 THEN 0 ELSE sum[i - 1] + m[a + i - 1] * BYTE ^ (i - 1) IN sum[size]
Field(raw, bits) == IF bits = <<>> THEN raw ELSE (raw \div 2 ^ bits[1]) % 2 ^ bits[2]
\* Mutant: the value is shifted into place with whatever exceeds the field.
MergedWhole(raw, bits, v) == IF bits = <<>> THEN v ELSE raw + (v - Field(raw, bits)) * 2 ^ bits[1]
Merged(raw, bits, v) ==
  IF bits = <<>> THEN v ELSE raw + ((v % 2 ^ bits[2]) - Field(raw, bits)) * 2 ^ bits[1]

\* Byte by byte, each a store of its own that the watches are told of.
WriteSized(a, size, v) ==
  FoldLeft(LAMBDA s, i : LET byte == (v \div BYTE ^ (i - 1)) % BYTE
                         IN [Applied(s, [kind |-> "write", address |-> a + i - 1, size |-> 1, value |-> byte, source |-> "cpu"])
                               EXCEPT !.mem = Write8(s.mem, a + i - 1, byte)],
           Machine, [i \in 1 .. size |-> i])
WriteDecoded(w) == WriteSized(w.address, w.size, Merged(ReadSized(mem, w.address, w.size), w.bits, w.value))
WriteAligned(w) == After(<<[kind |-> "write", address |-> w.address, size |-> w.size, value |-> w.value, source |-> "cpu"]>>)

-----------------------------------------------------------------------------
Idle == call = <<>> /\ calls < CALLS /\ calls' = calls + 1
Begin(kind, left_, on) == call' = <<[kind |-> kind, left |-> left_, on |-> on, until |-> shown + left_, reached |-> FALSE]>>

WaitFrames ==
  /\ Idle /\ Begin("frames", TIMEOUT, 0)
  /\ UNCHANGED <<mem, points, handles, seen, held, onFrame, rec, sheets, shown, file, stored>>
WaitMemory(a) ==
  /\ Idle /\ Backed(a) /\ Begin("memory", TIMEOUT, a)
  /\ UNCHANGED <<mem, points, handles, seen, held, onFrame, rec, sheets, shown, file, stored>>
\* Watched at the instruction step, since a frame boundary sees only one address.
WaitExecution(a) ==
  /\ Idle /\ Begin("execution", TIMEOUT, a)
  /\ points' = points \cup {0}
  /\ UNCHANGED <<mem, handles, seen, held, onFrame, rec, sheets, shown, file, stored>>
\* The buttons are pressed as their names resolve, so an unknown one leaves those before it held.
Press(buttons, known) ==
  /\ Idle
  /\ held' = held \cup buttons
  /\ IF known THEN Begin("press", HOLD, buttons) ELSE UNCHANGED call
  /\ UNCHANGED <<mem, points, handles, seen, onFrame, rec, sheets, shown, file, stored>>
PressSequence(buttons) ==
  /\ Idle /\ held' = held \cup buttons /\ Begin("press", HOLD, buttons)
  /\ UNCHANGED <<mem, points, handles, seen, onFrame, rec, sheets, shown, file, stored>>
Release(buttons) ==
  /\ Idle /\ held' = held \ buttons
  /\ UNCHANGED <<mem, points, handles, seen, call, onFrame, rec, sheets, shown, file, stored>>

Captured == IF rec = <<>> THEN rec
            ELSE <<[rec[1] EXCEPT !.counter = @ + 1, !.frames = IF (rec[1].counter + 1) % rec[1].interval = 0 THEN @ + 1 ELSE @]>>
\* Whether the call is over once a frame has run.
Satisfied(c, s) ==
  CASE c.kind = "memory" -> s.mem[c.on] = 1
    [] c.kind = "execution" -> s.reached
    [] OTHER -> c.left = 1
\* Mutant: the watchpoint is disposed of only where the wait succeeds.
PointsAfterLeaky(c, over, threw) == IF over /\ ~threw THEN points \ {0} ELSE points
PointsAfter(c, over, threw) == IF over \/ threw THEN points \ {0} ELSE points
RunFrame(events) ==
  /\ call # <<>> /\ shown < MACHINE
  /\ LET c == call[1]
         s == After(events)
         threw == onFrame = "throws"
         over  == Satisfied(c, s) \/ c.left = 1
     IN /\ mem' = s.mem /\ handles' = s.handles /\ seen' = s.seen
        /\ points' = PointsAfter(c, over, threw)
        /\ held' = IF over /\ ~threw /\ c.kind = "press" THEN held \ c.on ELSE held
        /\ call' = IF over \/ threw THEN <<>> ELSE <<[c EXCEPT !.left = @ - 1, !.reached = s.reached]>>
  /\ shown' = shown + 1 /\ rec' = Captured /\ stored' = <<>>
  /\ UNCHANGED <<onFrame, sheets, file, calls>>

Watch(w, filter, cap) ==
  /\ Idle /\ WatchMemory(w, filter, cap)
  /\ UNCHANGED <<mem, call, held, onFrame, rec, sheets, shown, file, stored>>
StopWatch(i) ==
  /\ Idle /\ Stop(i)
  /\ UNCHANGED <<mem, seen, call, held, onFrame, rec, sheets, shown, file, stored>>
Clear ==
  /\ Idle /\ ClearWatchpoints
  /\ UNCHANGED <<mem, seen, call, held, onFrame, rec, sheets, shown, file, stored>>

Store(w, aligned) ==
  /\ Idle
  /\ RequireWritable(w.address, w.size) /\ (aligned => w.bits = <<>> /\ RequireAligned(w.address, w.size))
  /\ LET s == IF aligned THEN WriteAligned(w) ELSE WriteDecoded(w)
     IN mem' = s.mem /\ handles' = s.handles /\ seen' = s.seen
  /\ stored' = <<[before |-> mem, write |-> w, aligned |-> aligned]>>
  /\ UNCHANGED <<points, call, held, onFrame, rec, sheets, shown, file>>

OnFrame(callback) ==
  /\ Idle /\ onFrame' = callback
  /\ UNCHANGED <<mem, points, handles, seen, call, held, rec, sheets, shown, file, stored>>
Record(interval) ==
  /\ Idle /\ rec' = <<[interval |-> interval, counter |-> 0, frames |-> 0]>>
  /\ UNCHANGED <<mem, points, handles, seen, call, held, onFrame, sheets, shown, file, stored>>
\* Any recording's stop ends the one under way.
StopRecording ==
  /\ Idle /\ rec # <<>> /\ rec' = <<>>
  /\ sheets' = IF rec[1].frames = 0 THEN sheets ELSE Append(sheets, rec[1].frames)
  /\ UNCHANGED <<mem, points, handles, seen, call, held, onFrame, shown, file, stored>>
SaveState ==
  /\ Idle /\ file = <<>> /\ file' = <<mem>>
  /\ UNCHANGED <<mem, points, handles, seen, call, held, onFrame, rec, sheets, shown, stored>>
LoadState ==
  /\ Idle /\ file # <<>> /\ mem' = file[1] /\ stored' = <<>>
  /\ UNCHANGED <<points, handles, seen, call, held, onFrame, rec, sheets, shown, file>>

Init ==
  /\ mem = [a \in ADDRESSES |-> 0] /\ points = {} /\ handles = <<>> /\ seen = <<>> /\ call = <<>>
  /\ held = {} /\ onFrame = "none" /\ rec = <<>> /\ sheets = <<>> /\ shown = 0 /\ file = <<>> /\ stored = <<>> /\ calls = 0
Next ==
  \/ WaitFrames \/ \E a \in ADDRESSES : WaitMemory(a) \/ WaitExecution(a)
  \/ \E known \in BOOLEAN : Press({"a"}, known)
  \/ PressSequence({"a", "b"}) \/ Release({"a"})
  \/ \E events \in FRAMES : RunFrame(events)
  \/ \E w \in WATCHED, filter \in FILTERS, cap \in CAPS : Watch(w, filter, cap)
  \/ \E i \in DOMAIN handles : StopWatch(i)
  \/ Clear
  \/ \E w \in WRITES, aligned \in BOOLEAN : Store(w, aligned)
  \/ \E callback \in {"none", "quiet", "throws"} : OnFrame(callback)
  \/ \E interval \in SHOTS : Record(interval)
  \/ StopRecording \/ SaveState \/ LoadState

-----------------------------------------------------------------------------
Matched(i) == SelectSeq(seen[i], LAMBDA hit : Keeps(handles[i].filter, hit))
\* A watch accounts for everything it matched: its hits are the first of them
\* and, for an instruction, what it dropped is the rest and its count is every
\* execution; and the machine keeps no watchpoint beyond the open watches and
\* the wait under way, however the calls ended.
WatchesAddUp ==
  /\ \A i \in DOMAIN handles :
       LET h == handles[i] IN
       /\ h.hits = SubSeq(Matched(i), 1, Len(h.hits))
       /\ ~Full(h) => h.hits = Matched(i)
       /\ h.on[1] = "exec" => h.count = Len(seen[i]) /\ Len(h.hits) + h.dropped = Len(Matched(i))
  /\ points = {i \in DOMAIN handles : handles[i].live} \cup (IF call # <<>> /\ call[1].kind = "execution" THEN {0} ELSE {})

Named(a) == {o \in OBJECTS : a \in Span(o[2], o[3])}
TakesBytes(w) == \A a \in Span(w.address, w.size) : REGION[a] \notin {"palette", "OAM"}
Rest(raw, bits) == raw - Field(raw, bits) * 2 ^ bits[1]
Landed(w, before) ==
  LET now == ReadSized(mem, w.address, w.size)
  IN /\ \A a \in ADDRESSES \ Span(w.address, w.size) : mem[a] = before[a]
     /\ IF w.bits = <<>> THEN now = w.value % BYTE ^ w.size
        ELSE Field(now, w.bits) = w.value % 2 ^ w.bits[2] /\ Rest(now, w.bits) = Rest(ReadSized(before, w.address, w.size), w.bits)
\* A store that is not refused leaves exactly the value where it was addressed:
\* the neighbours of a bitfield, the bytes around and any other named object
\* keep theirs, at every alignment.  A palette's or an object memory's bytes,
\* which the bus does not store one by one, are left out.
StoresWhatWasAsked ==
  stored # <<>> =>
    LET s == stored[1] IN
    s.aligned \/ TakesBytes(s.write) =>
      /\ Landed(s.write, s.before)
      /\ Named(s.write.address) # {} /\ s.write.size > 1 =>
           \A o \in OBJECTS \ Named(s.write.address), a \in ADDRESSES : a \in Span(o[2], o[3]) => mem[a] = s.before[a]

=============================================================================
