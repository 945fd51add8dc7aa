--------------------------- MODULE MCPeripherals ---------------------------
(***************************************************************************)
(* What is around the CPU: the bus, the serial port, the sound and the     *)
(* two halves of the picture, and the rewind history a debugger keeps of   *)
(* the whole, each on a small instance of its own.  They do not act on one *)
(* another here, so one behaviour is of one part and leaves the variables  *)
(* of the others idle.  The serial port and the history are the module's   *)
(* own constants and variables.                                            *)
(***************************************************************************)
EXTENDS Serial, RewindHistory

VARIABLES
    part,      \* the part the behaviour is of
    mem, busIo, latch, cpu, dma, fired, last, steps,
    apu, synced, exact, clock, soundDue, owed, soundSaved, swept, ahead, fed, lost, left,
    line, phase, reg, ppu, twin, choices, writes, lines, quiet, wroteRef, layersAt, oamAt,
    scene, probe, next, spent, out, screen

busVars == <<mem, busIo, latch, cpu, dma, fired, last, steps>>
soundVars == <<apu, synced, exact, clock, soundDue, owed, soundSaved, swept, ahead, fed, lost, left>>
pictureVars == <<line, phase, reg, ppu, twin, choices, writes, lines, quiet, wroteRef, layersAt, oamAt>>
mergeVars == <<scene, probe, next, spent, out, screen>>
allVars == <<part, busVars, serialVars, soundVars, pictureVars, mergeVars, vars>>

Idle == "idle"

-----------------------------------------------------------------------------
(* The bus: accesses at the ends of its memories, and code that is poked.  *)

Addresses == {<<2, 262160>>, <<6, 65536>>, <<6, 98304>>, <<6, 81920>>, <<7, 0>>, <<15, 32768>>,
              <<4, 0>>, <<4, 67584>>, <<0, 8>>, <<0, 16384>>, <<9, 16>>}
RomWord(a) == <<{0}, {1}, {2, 1}, {a[2] % 8}>>
BiosWord(a) == <<{0}, {3}, {3, 1}, {a[2] % 8}>>

B == INSTANCE Bus WITH
    ADDRESSES <- Addresses,
    DATA <- {<<{2}, {0, 7}>>},
    REGISTERS <- {0, 2, 4, 6, 512, 514, 516, 518, 768, 770, 2048, 2050, 176, 178, 224, 226, 16, 18},
    SAVE <- "sram",
    ROM_BYTES <- 16,
    Rom <- RomWord, Bios <- BiosWord,
    CODE <- {<<2, 16>>, <<0, 8>>},
    WATCHED <- {<<<<2, 18>>, 1>>, <<<<6, 65537>>, 2>>},
    STEPS <- 2,
    io <- busIo

BusIdle ==
    /\ mem = Idle /\ busIo = Idle /\ latch = Idle /\ cpu = Idle
    /\ dma = Idle /\ fired = Idle /\ last = Idle /\ steps = Idle

-----------------------------------------------------------------------------
(* The serial port: transfers of one and two bits, of one or two cycles,   *)
(* and stores of the byte that holds the start bit and of the other one.   *)

Low == 0 .. 7
Whole == 0 .. 15
SerialWrites ==
    {<<"SIOCNT", {0, 7, 14}, Whole>>, <<"SIOCNT", {0, 1, 7, 12}, Whole>>, <<"SIOCNT", {7}, Low>>,
     <<"SIOCNT", {13}, Whole \ Low>>, <<"RCNT", {15}, Whole>>}

SerialIdle == SerialInit

-----------------------------------------------------------------------------
(* The sound: channels of four frequencies and three loudnesses, a frame   *)
(* sequencer of one cycle, and FIFOs of eight bytes that two timers drain. *)

Fed(f) == [full |-> TRUE, sides |-> {1}, select |-> IF f = "a" THEN 0 ELSE 1, reset |-> FALSE]
Louder == <<<<"soundcntL">>, [loudness |-> <<1, 1>>, routed |-> <<{1, 4}, {1, 3}>>]>>
Play(c) == <<<<"control", c>>, [lengthOn |-> TRUE, restart |-> TRUE]>>
Fade(c) == <<<<"envelope", c>>, [volume |-> 2, up |-> FALSE, period |-> 1]>>
SoundWrites ==
    {<<<<<<"soundcntX">>, TRUE>>>>,
     <<<<<<"soundcntX">>, FALSE>>>>,
     <<<<<<"sweep", 1>>, [period |-> 1, negate |-> TRUE, shift |-> 1]>>,
       <<<<"length", 1>>, [length |-> 0, duty |-> 2]>>, Fade(1), <<<<"frequency", 1>>, 2>>,
       <<<<"control", 1>>, [lengthOn |-> FALSE, restart |-> TRUE]>>, Louder>>,
     <<<<<<"wave", 3>>, [both |-> FALSE, bank |-> 1, play |-> TRUE]>>, <<<<"frequency", 3>>, 3>>,
       <<<<"length", 3>>, [length |-> 1]>>, <<<<"volume", 3>>, [code |-> 1, force |-> FALSE]>>, Play(3), Fade(4),
       <<<<"noise", 4>>, [divisor |-> 0, shift |-> 0, narrow |-> FALSE]>>, Play(4), Louder>>,
     <<<<<<"soundcntH">>, [ratio |-> 2, a |-> Fed("a"), b |-> [Fed("b") EXCEPT !.reset = TRUE]]>>,
       <<<<"waveRam", 1>>, 9>>>>,
     <<<<<<"fifo", "a">>, [from |-> 0, bytes |-> <<1, 2, 3, 4>>]>>>>}

A == INSTANCE Sound WITH
    FREQS <- 4, SQUARE_CYCLES <- 1, WAVE_CYCLES <- 1, NOISE_CYCLES <- 2, LENGTH <- 2, WAVE_LENGTH <- 3,
    VOLUME <- 3, DIGITS <- 2, LONG <- 4, SHORT <- 2, SEQUENCER <- 1, SAMPLE <- 2, RING <- 2,
    FIFO <- 8, REFILL <- 4, BURST <- 1, WRITES <- SoundWrites, READS <- {"soundcntX"},
    PERIOD <- [t \in {0, 1} |-> IF t = 0 THEN 2 ELSE 4], CYCLES <- 6, ACCESSES <- 3,
    due <- soundDue, saved <- soundSaved

SoundIdle ==
    /\ apu = Idle /\ synced = Idle /\ exact = Idle /\ clock = Idle /\ soundDue = Idle /\ owed = Idle
    /\ soundSaved = Idle /\ swept = Idle /\ ahead = Idle /\ fed = Idle /\ lost = Idle /\ left = Idle

-----------------------------------------------------------------------------
(* The picture in time: a screen of three lines in a frame of eight, so    *)
(* the latch is held in two lines of VBlank.  A program writes the affine  *)
(* registers, the layers and the OBJs, or begins with any windows.         *)

Plain == [layers |-> {"bg", "obj"}, affine |-> TRUE, blank |-> FALSE, ref |-> 1, pb |-> 10, bgMosaic |-> FALSE,
          mosaic |-> 2, oam |-> "one", top |-> 0, bottom |-> 2, left |-> 0, right |-> 2]
Affine == {<<"ref", 5>>, <<"pb", 20>>, <<"bgMosaic", TRUE>>, <<"blank", TRUE>>}
Layers == {<<"layers", {"bg", "obj"}>>, <<"layers", {"obj"}>>, <<"layers", {"bg"}>>, <<"oam", "two">>, <<"mosaic", 3>>}
Windows ==
    {[Plain EXCEPT !.top = t, !.bottom = b, !.left = l, !.right = r] :
        t \in {0, 1, 2, 6}, b \in {0, 1, 3, 7, 9}, l \in {0, 1, 4}, r \in {0, 2, 4}}
Mosaics == {[Plain EXCEPT !.bgMosaic = m, !.mosaic = n] : m \in BOOLEAN, n \in {1, 2}}

P == INSTANCE Picture WITH
    Visible <- 3, Total <- 8, Width <- 3,
    Programs <- (Mosaics \X {Affine, Layers}) \cup (Windows \X {{}}),
    MaxWrites <- 2, MaxLines <- 12

PictureIdle ==
    /\ line = Idle /\ phase = Idle /\ reg = Idle /\ ppu = Idle /\ twin = Idle /\ choices = Idle
    /\ writes = Idle /\ lines = Idle /\ quiet = Idle /\ wroteRef = Idle /\ layersAt = Idle /\ oamAt = Idle

-----------------------------------------------------------------------------
(* One line: two columns, with up to three sprites in any order, BGs of    *)
(* any priorities, and windows over one column; and layouts and colours to *)
(* compute with.                                                           *)

Probe(kind) ==
    [kind |-> kind, size |-> 0, width |-> 8, height |-> 8, base |-> 0, linear |-> TRUE, is256 |-> FALSE,
     max |-> 31, a |-> 0, b |-> 0, other |-> 0]
MergeProbes ==
    {[Probe("affine") EXCEPT !.size = n, !.linear = l] : n \in 0 .. 3, l \in BOOLEAN}
    \cup {[Probe("bitmap") EXCEPT !.size = m, !.width = IF m = 5 THEN 159 ELSE 239,
                                  !.height = IF m = 5 THEN 127 ELSE 159] : m \in 3 .. 5}
    \cup {[Probe("map") EXCEPT !.size = n] : n \in 0 .. 3}
    \cup {[Probe("sprite") EXCEPT !.width = w, !.height = h, !.base = b, !.linear = l, !.is256 = t] :
             w \in {8, 16, 64}, h \in {8, 32, 64}, b \in {0, 5, 30, 1000}, l \in BOOLEAN, t \in BOOLEAN}
    \cup {[Probe("effect") EXCEPT !.max = m, !.a = a, !.b = b, !.other = o] :
             m \in {31, 63}, a \in {0, 1, 15, 30, 31}, b \in {0, 7, 31}, o \in {0, 1, 8, 16, 31}}

Obj == 4
Backdrop == 5
Sprite(mode, priority, colors, color) ==
    [x |-> 0, width |-> 2, colors |-> [k \in 1 .. 2 |-> IF k \in colors THEN color ELSE 0],
     priority |-> priority, mode |-> mode, mosaic |-> mode = "semi", hflip |-> FALSE]
Sprites(color) ==
    {Sprite(m, p, c, color) : m \in {"normal", "semi", "window"}, p \in {0, 1, 2}, c \in {{1}, {1, 2}}}
Lists == {<<a, b>> : a \in Sprites(1), b \in Sprites(2)}
         \cup {<<a, b, [c EXCEPT !.x = -1, !.hflip = TRUE]>> :
                  a \in {Sprite("normal", 1, {1, 2}, 1)}, b \in Sprites(2), c \in Sprites(3)}
BG(id, priority, colors) ==
    [id |-> id, priority |-> priority, colors |-> [x \in 0 .. 1 |-> IF x \in colors THEN 9 ELSE 0]]
Bgs == {{}} \cup {{BG(1, p, {0, 1}), BG(2, q, c)} : p \in {0, 1, 3}, q \in {1, 3}, c \in {{0}, {0, 1}}}
AWindow == [win0 |-> {0}, in0 |-> {1, Obj}, win1 |-> {}, in1 |-> {}, objWin |-> TRUE,
            inObj |-> {2, Backdrop}, outside |-> 0 .. 5]
Effects == [mode |-> "alpha", first |-> {Obj, 1}, second |-> {2, Backdrop}]
MergeScenes ==
    {[sprites |-> s, bgs |-> b, windows |-> w, effects |-> Effects, mosaic |-> 1, budget |-> 1210] :
        s \in Lists, b \in Bgs, w \in {<< >>, <<AWindow>>}}
    \cup {[sprites |-> <<Sprite("semi", 1, {1, 2}, 1), Sprite("normal", 0, {2}, 2)>>, bgs |-> {}, windows |-> << >>,
           effects |-> Effects, mosaic |-> m, budget |-> n] : m \in {1, 2}, n \in {1, 2, 3, 1210}}

M == INSTANCE Merge WITH Width <- 2, Scenes <- MergeScenes, Probes <- MergeProbes

MergeIdle == scene = Idle /\ probe = Idle /\ next = Idle /\ spent = Idle /\ out = Idle /\ screen = Idle

-----------------------------------------------------------------------------
\* The history of a machine that never ran.
HistoryIdle == now = 0 /\ history = Push(Empty, 0, {})

AllInit ==
    \/ part = "bus" /\ B!Init /\ SerialIdle /\ SoundIdle /\ PictureIdle /\ MergeIdle /\ HistoryIdle
    \/ part = "serial" /\ SerialInit /\ BusIdle /\ SoundIdle /\ PictureIdle /\ MergeIdle /\ HistoryIdle
    \/ part = "sound" /\ A!Init /\ BusIdle /\ SerialIdle /\ PictureIdle /\ MergeIdle /\ HistoryIdle
    \/ part = "picture" /\ P!Init /\ BusIdle /\ SerialIdle /\ SoundIdle /\ MergeIdle /\ HistoryIdle
    \/ part = "merge" /\ M!Init /\ BusIdle /\ SerialIdle /\ SoundIdle /\ PictureIdle /\ HistoryIdle
    \/ part = "history" /\ Init /\ BusIdle /\ SerialIdle /\ SoundIdle /\ PictureIdle /\ MergeIdle

BusStep     == part = "bus" /\ B!Next /\ UNCHANGED <<part, serialVars, soundVars, pictureVars, mergeVars, vars>>
SerialStep  == part = "serial" /\ SerialNext /\ UNCHANGED <<part, busVars, soundVars, pictureVars, mergeVars, vars>>
SoundStep   == part = "sound" /\ A!Next /\ UNCHANGED <<part, busVars, serialVars, pictureVars, mergeVars, vars>>
PictureStep == part = "picture" /\ P!Next /\ UNCHANGED <<part, busVars, serialVars, soundVars, mergeVars, vars>>
MergeStep   == part = "merge" /\ M!Next /\ UNCHANGED <<part, busVars, serialVars, soundVars, pictureVars, vars>>
HistoryStep == part = "history" /\ Next /\ UNCHANGED <<part, busVars, serialVars, soundVars, pictureVars, mergeVars>>

AllNext == BusStep \/ SerialStep \/ SoundStep \/ PictureStep \/ MergeStep \/ HistoryStep

AllSpec == AllInit /\ [][AllNext]_allVars

-----------------------------------------------------------------------------
(* Properties *)

\* Every address of a memory reads the byte its cell holds, whatever the width
\* and the mirror; a store changes the bytes it is of, by the rules of the
\* memory it lands in, and tells whoever watches them; and the CPU runs the
\* code a debugger poked (system-bus.ts, gba.ts refetchOverwrittenCode).
BusIsOneMemory == part = "bus" => B!OneMemory /\ B!StoresLand /\ B!PokedCodeRuns

\* The APU advanced in batches is the APU advanced every cycle, and a FIFO that
\* only the DMA fills never loses a byte (apu.ts #advance, #popFifo).
SoundKeepsTime == part = "sound" => A!CatchesUpExactly /\ A!RefillsFit

\* Origins follow the writes to the reference points, layers show two lines
\* after they are enabled, mosaic blocks lie on the grid of the screen, and the
\* windows are what the registers name (ppu.ts).
PictureFollowsWrites ==
    P!OriginsFollowWrites /\ P!LayersShowInTime /\ P!MosaicOnTheGrid /\ P!WindowsAsSet

\* A machine saved and restored at any point of a line draws what it would have
\* drawn (ppu.ts serialize, deserialize).
RestoredDrawsTheSame == part = "picture" => P!RestoredDrawsTheSame

\* A line is put together as the hardware does: its sprites lie in the order of OAM, its
\* two upper layers in the order of their priorities in every window, no two pixels of the
\* tiles share a cell, and an effect never leaves the range of a colour (sprites.ts,
\* backgrounds.ts, compositor.ts).
LinesMergeInOrder ==
  part = "merge" =>
    M!SpritesInOrder /\ M!TopTwoInOrder /\ M!TilesApart /\ M!EffectsStayInRange
=============================================================================
