------------------------------- MODULE Picture -------------------------------
(***************************************************************************)
(* What the PPU keeps from line to line (gba-emulator/src/ppu/ppu.ts): the *)
(* affine reference point, the DISPCNT latch, the window flip-flops, the   *)
(* mosaic counters and the OBJ line built ahead.  The program may write    *)
(* its registers in every gap between a line's start, its latch and the    *)
(* HBlank it is drawn at, and the machine may be saved and restored there. *)
(* One affine axis stands for the four, one window for the two, one BG and *)
(* the OBJ layer for the layers; what a layer looks like is in Merge.      *)
(***************************************************************************)
EXTENDS Integers, Sequences, FiniteSets

CONSTANTS
    Visible,        \* VISIBLE_SCANLINES
    Total,          \* TOTAL_SCANLINES
    Width,          \* SCREEN_WIDTH
    Programs,       \* pairs of the registers a run begins with and the <<register, value>> it may write
    MaxWrites,      \* bound: writes made
    MaxLines        \* bound: lines begun

VARIABLES line, phase, reg, ppu, twin, choices, writes, lines, quiet, wroteRef, layersAt, oamAt

vars == <<line, phase, reg, ppu, twin, choices, writes, lines, quiet, wroteRef, layersAt, oamAt>>

NoLine == -1
NoObjs == "none"
Nothing == [line |-> NoLine, oam |-> NoObjs, mosaicY |-> 0]
Row == [blank |-> FALSE, origin |-> 0, text |-> 0, shown |-> {}, inside |-> {}, obj |-> Nothing]

Reset ==
    [ref |-> 0, written |-> FALSE, latch |-> <<{}, {}, {}>>, winV |-> FALSE, winH |-> FALSE,
     bgMosaicY |-> 0, objMosaicY |-> 0, objFront |-> Nothing, objBack |-> Nothing,
     frame |-> [l \in 0 .. Visible - 1 |-> Row]]

ReloadAffineRefs(p) == [p EXCEPT !.ref = reg.ref, !.written = FALSE]
ReloadBgRefPoint(p, v) == [p EXCEPT !.ref = v, !.written = TRUE]

LatchRange(l) == l <= Visible \/ l >= Total - 3
\* Mutant: the latch is held until the last line of VBlank.
LatchDispcntLate(p, l) ==
    IF l <= Visible \/ l >= Total - 1 THEN [p EXCEPT !.latch = <<p.latch[2], p.latch[3], reg.layers>>] ELSE p
LatchDispcnt(p, l) ==
    IF LatchRange(l) THEN [p EXCEPT !.latch = <<p.latch[2], p.latch[3], reg.layers>>] ELSE p

StepMosaicCounter(counter, size) == IF counter + 1 = size THEN 0 ELSE (counter + 1) % 16
\* Mutant: the counter is not restarted after the last visible line.
NextMosaicRunning(counter, size, l) == StepMosaicCounter(counter, size)
NextMosaic(counter, size, l) == IF l < Visible - 1 THEN StepMosaicCounter(counter, size) ELSE 0

AffineStep(bgMosaicY) ==
    IF ~reg.bgMosaic THEN 1 ELSE IF bgMosaicY = 0 THEN reg.mosaic ELSE 0
FinishVisibleLine(p, l) ==
    LET counter == NextMosaic(p.bgMosaicY, reg.mosaic, l)
    IN  [p EXCEPT !.bgMosaicY = counter,
                  !.ref = IF reg.affine /\ "bg" \in p.latch[1] \cap reg.layers
                          THEN @ + AffineStep(counter) * reg.pb ELSE @]

\* Mutant: the top line is looked at last.
FlipVerticalTopLast(p, l) ==
    [p EXCEPT !.winV = IF l = reg.top THEN TRUE ELSE IF l = reg.bottom THEN FALSE ELSE @]
\* The vertical flip-flop goes on at the top line and off at the bottom one.
FlipVertical(p, l) ==
    [p EXCEPT !.winV = IF l = reg.bottom THEN FALSE ELSE IF l = reg.top THEN TRUE ELSE @]
\* The horizontal one goes on at the left edge and off at the right, and carries over.
RECURSIVE Swept(_, _)
Swept(on, x) ==          \* whether it is on at x, of a line it was so at the start of
    LET now == IF x = reg.right THEN FALSE ELSE IF x = reg.left THEN TRUE ELSE on
    IN  IF x = 0 THEN (IF 0 = reg.right THEN FALSE ELSE IF 0 = reg.left THEN TRUE ELSE on)
        ELSE IF x = reg.right THEN FALSE ELSE IF x = reg.left THEN TRUE ELSE Swept(on, x - 1)
Inside(p) == {x \in 0 .. Width - 1 : p.winV /\ Swept(p.winH, x)}
SweepWindows(p) == [p EXCEPT !.winH = reg.left > reg.right]

RenderObjLine(p, l) ==
    [line |-> l, oam |-> IF "obj" \in reg.layers THEN reg.oam ELSE NoObjs,
     mosaicY |-> IF "obj" \in reg.layers THEN p.objMosaicY ELSE 0]

\* Mutant: the line the engine has just begun is shown at once.
ObjEngineSwapLast(p, l) ==
    LET next == (l + 1) % Total
    IN  IF next < Visible
        THEN [p EXCEPT !.objFront = RenderObjLine(p, next),
                       !.objMosaicY = NextMosaic(p.objMosaicY, reg.mosaic, next)] ELSE p
ObjEngine(p, l) ==
    LET shown == IF l < Visible THEN [p EXCEPT !.objFront = p.objBack, !.objBack = Nothing] ELSE p
        next == (l + 1) % Total
    IN  IF next < Visible
        THEN [shown EXCEPT !.objBack = RenderObjLine(p, next),
                           !.objMosaicY = NextMosaic(p.objMosaicY, reg.mosaic, next)] ELSE shown

BeginScanline(p, l) ==
    LET ended == IF l \in 1 .. Visible THEN FinishVisibleLine(p, l - 1) ELSE p
        flipped == FlipVertical(ended, l)
        ready == IF l >= Visible THEN SweepWindows(flipped)
                 ELSE IF l = 0 \/ flipped.written THEN ReloadAffineRefs(flipped) ELSE flipped
    IN  ObjEngine(ready, l)

\* Mutant: what was written before the line is drawn stays marked.
DrawnRefMarked(p) == p
DrawnRef(p) == [p EXCEPT !.written = FALSE]

RenderScanline(p, l) ==
    LET drawn == DrawnRef(p)
        front == IF p.objFront.line = l THEN p.objFront ELSE RenderObjLine(p, l)
        shown == p.latch[1] \cap reg.layers
        row == [blank |-> FALSE, origin |-> p.ref,
                text |-> IF reg.bgMosaic THEN l - p.bgMosaicY ELSE l,
                shown |-> shown, inside |-> Inside(p),
                obj |-> IF "obj" \in shown THEN front ELSE Nothing]
        swept == SweepWindows(drawn)
    IN  IF reg.blank THEN [swept EXCEPT !.frame[l] = [Row EXCEPT !.blank = TRUE]]
        ELSE [swept EXCEPT !.frame[l] = row, !.objFront = IF p.objFront.line = l THEN @ ELSE front]

Serialize(p) ==
    [framebuffer |-> p.frame, ref |-> p.ref, refWritten |-> p.written, dispcntLatch |-> p.latch,
     windowFlags |-> <<p.winV, p.winH>>, bgMosaicY |-> p.bgMosaicY, objMosaicY |-> p.objMosaicY,
     objLines |-> <<p.objFront, p.objBack>>]
\* Mutant: the line being prepared is not in the snapshot.
DeserializeFront(s) ==
    [ref |-> s.ref, written |-> s.refWritten, latch |-> s.dispcntLatch,
     winV |-> s.windowFlags[1], winH |-> s.windowFlags[2],
     bgMosaicY |-> s.bgMosaicY, objMosaicY |-> s.objMosaicY,
     objFront |-> s.objLines[1], objBack |-> Nothing, frame |-> s.framebuffer]
Deserialize(s) ==
    [ref |-> s.ref, written |-> s.refWritten, latch |-> s.dispcntLatch,
     winV |-> s.windowFlags[1], winH |-> s.windowFlags[2],
     bgMosaicY |-> s.bgMosaicY, objMosaicY |-> s.objMosaicY,
     objFront |-> s.objLines[1], objBack |-> s.objLines[2], frame |-> s.framebuffer]

Both(Op(_)) == ppu' = Op(ppu) /\ twin' = Op(twin)

Init ==
    /\ \E p \in Programs : reg = p[1] /\ choices = p[2]
    /\ line = 0 /\ phase = "start" /\ lines = 1 /\ writes = 0 /\ quiet = 0 /\ wroteRef = FALSE
    /\ ppu = BeginScanline(Reset, 0) /\ twin = ppu
    /\ layersAt = [l \in 0 .. Total - 1 |-> {}]
    /\ oamAt = [l \in 0 .. Total - 1 |-> IF l = 0 THEN RenderObjLine(Reset, 1).oam ELSE NoObjs]

Latch ==
    /\ phase = "start" /\ phase' = "latched"
    /\ Both(LAMBDA p : LatchDispcnt(p, line))
    /\ layersAt' = [layersAt EXCEPT ![line] = reg.layers]
    /\ UNCHANGED <<line, reg, choices, writes, lines, quiet, wroteRef, oamAt>>

Draw ==
    /\ phase = "latched" /\ line < Visible /\ phase' = "drawn"
    /\ Both(LAMBDA p : RenderScanline(p, line))
    /\ wroteRef' = FALSE
    /\ UNCHANGED <<line, reg, choices, writes, lines, quiet, layersAt, oamAt>>

StartLine ==
    /\ phase = (IF line < Visible THEN "drawn" ELSE "latched") /\ lines < MaxLines
    /\ line' = (line + 1) % Total /\ phase' = "start" /\ lines' = lines + 1 /\ quiet' = quiet + 1
    /\ Both(LAMBDA p : BeginScanline(p, line'))
    /\ oamAt' = [oamAt EXCEPT ![line'] = RenderObjLine(ppu, line').oam]
    /\ UNCHANGED <<reg, choices, writes, wroteRef, layersAt>>

Write ==
    /\ writes < MaxWrites /\ writes' = writes + 1
    /\ \E w \in choices :
          /\ w[1] = "ref" \/ reg[w[1]] # w[2]
          /\ reg' = [reg EXCEPT ![w[1]] = w[2]]
          /\ IF w[1] = "ref"
             THEN Both(LAMBDA p : ReloadBgRefPoint(p, w[2])) /\ wroteRef' = TRUE
             ELSE UNCHANGED <<ppu, twin, wroteRef>>
    /\ quiet' = 0
    /\ UNCHANGED <<line, phase, choices, lines, layersAt, oamAt>>

\* The machine is saved and restored; twin is the machine that went on.
Restore ==
    /\ ppu' = Deserialize(Serialize(ppu))
    /\ UNCHANGED <<line, phase, reg, twin, choices, writes, lines, quiet, wroteRef, layersAt, oamAt>>

Next == Latch \/ Draw \/ StartLine \/ Write \/ Restore

Spec == Init /\ [][Next]_vars

(* ----------------------------- properties ------------------------------ *)

Drawing == phase = "latched" /\ phase' = "drawn"
Drawn == ppu'.frame[line]

\* A write to the reference point before a line is drawn is that line's origin, one
\* made in HBlank the next line's, and lines between step from it; with mosaic, every
\* line of a block has the origin of the block's first (ppu.ts, reloadBgRefPoint).
OriginsFollowWrites ==
    [][Drawing /\ ~reg.blank /\ reg.affine /\ "bg" \in Drawn.shown =>
        /\ wroteRef \/ line = 0 => Drawn.origin = reg.ref
        /\ (~wroteRef /\ line > 0 /\ quiet >= 1 /\ ~reg.bgMosaic /\ "bg" \in ppu.frame[line - 1].shown) =>
                Drawn.origin = ppu.frame[line - 1].origin + reg.pb
        /\ (reg.bgMosaic /\ quiet > line /\ \A l \in 0 .. line - 1 : "bg" \in ppu.frame[l].shown) =>
                Drawn.origin = reg.ref + reg.pb * reg.mosaic * (line \div reg.mosaic)]_vars

\* A layer shows when it is enabled now and was at the latch of two lines ago,
\* whichever lines of VBlank shift the latch (ppu.ts, #dispcntLatch and latchDispcnt).
\* The OBJs of a line are those of the start of the line before.
LayersShowInTime ==
    [][Drawing /\ ~reg.blank =>
        /\ Drawn.shown = layersAt[(line - 2) % Total] \cap reg.layers
        /\ "obj" \in Drawn.shown /\ lines > 1 =>
                Drawn.obj.line = line /\ Drawn.obj.oam = oamAt[(line - 1) % Total]]_vars

\* With registers left alone, mosaic blocks lie on the grid of the screen, for the BGs
\* and for the OBJs, which are a line ahead.
MosaicOnTheGrid ==
    [][Drawing /\ ~reg.blank =>
        /\ reg.bgMosaic /\ quiet > line => Drawn.text = reg.mosaic * (line \div reg.mosaic)
        /\ "obj" \in Drawn.shown /\ quiet >= Total =>
                line - Drawn.obj.mosaicY = reg.mosaic * (line \div reg.mosaic)]_vars

Between(low, high, x) == IF low <= high THEN low <= x /\ x < high ELSE x >= low \/ x < high
\* The flip-flops, swept by every line, make the windows the registers name: an edge
\* past the other one wraps, and a bottom edge that no line reaches never ends it.
WindowsAsSet ==
    [][Drawing /\ ~reg.blank /\ quiet >= Total /\ reg.top < Total =>
        Drawn.inside = {x \in 0 .. Width - 1 :
            (reg.bottom >= Total \/ Between(reg.top, reg.bottom, line)) /\ Between(reg.left, reg.right, x)}]_vars

\* A machine saved and restored at any point of a line draws what it would have drawn.
RestoredDrawsTheSame == ppu.frame = twin.frame
=============================================================================
