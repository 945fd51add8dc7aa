-------------------------------- MODULE Merge --------------------------------
(***************************************************************************)
(* One line of the picture (gba-emulator/src/ppu): the OBJ layer plotted   *)
(* sprite by sprite (sprites.ts), where a background's and a sprite's      *)
(* pixels are fetched from (backgrounds.ts), the OBJ mosaic, the windows,  *)
(* the two layers on top and the colour effect (compositor.ts).            *)
(* A colour is 0 when transparent; a channel is a number of 0 .. 31, and   *)
(* green carries a sixth bit.  Affine sampling is left out: Picture has    *)
(* its origins.                                                            *)
(***************************************************************************)
EXTENDS Integers, Sequences, FiniteSets, FiniteSetsExt

CONSTANTS
    Width,          \* SCREEN_WIDTH
    Scenes,         \* [sprites, bgs, windows, effects], see MCMerge
    Probes          \* a layout, a sprite's tiles or a pair of channels to compute with

VARIABLES scene, probe, next, spent, out, screen

vars == <<scene, probe, next, spent, out, screen>>

Columns == 0 .. Width - 1
Clear == [color |-> 0, priority |-> 0, semi |-> FALSE, mosaic |-> FALSE, window |-> FALSE]
Backdrop == 5            \* LAYER_BD
Obj == 4                 \* LAYER_OBJ

(* ------------------------------- sprites ------------------------------- *)

\* A sprite: x, width, colors (of its row), priority, mode, mosaic, hflip.
Cost(s) == s.width - 2 + (IF s.x < 0 THEN s.x \div 2 ELSE 0)
OnScreen(s) == s.x < Width /\ s.x + s.width > 0
Texel(s, bx) == s.colors[1 + (IF s.hflip THEN s.width - 1 - bx ELSE bx)]

\* Mutant: a sprite later in OAM covers one of equal priority.
TakesEqual(s, pixel) == s.priority <= pixel.priority \/ pixel.color = 0
Takes(s, pixel) == s.priority < pixel.priority \/ pixel.color = 0

PlotPixel(s, pixel, color) ==
    IF s.mode = "window" /\ color # 0 THEN [pixel EXCEPT !.window = TRUE]
    ELSE IF ~Takes(s, pixel) THEN pixel
    ELSE IF color # 0
    THEN [color |-> color, priority |-> s.priority, semi |-> s.mode = "semi",
          mosaic |-> s.mosaic /\ s.mode # "window", window |-> pixel.window]
    ELSE [pixel EXCEPT !.priority = s.priority, !.mosaic = s.mosaic /\ s.mode # "window"]

Plotted(s, line) ==
    [x \in Columns |->
        IF x - s.x \in 0 .. s.width - 1 THEN PlotPixel(s, line[x], Texel(s, x - s.x)) ELSE line[x]]

\* The latch of the OBJ mosaic, from left to right.
RECURSIVE Latched(_, _, _)
Latched(line, size, x) ==
    LET pixel == line[x]
        held == Latched(line, size, x - 1)
    IN  IF x % size = 0 \/ ~pixel.mosaic THEN pixel
        ELSE IF ~held.mosaic \/ pixel.priority < held.priority THEN pixel ELSE held
ApplyObjMosaic(line, size) ==
    [x \in Columns |-> [Latched(line, size, x) EXCEPT !.window = line[x].window]]

(* ------------------------------- compositing --------------------------- *)

\* A BG: id, priority, colors (by column).
WinAll == {0, 1, 2, 3, Obj, Backdrop}       \* with Backdrop's bit for the colour effect
Control(windows, pixel, x) ==
    IF windows = << >> THEN WinAll
    ELSE CASE x \in windows[1].win0 -> windows[1].in0
           [] x \in windows[1].win1 \ windows[1].win0 -> windows[1].in1
           [] OTHER -> IF windows[1].objWin /\ pixel.window THEN windows[1].inObj ELSE windows[1].outside

\* The enabled BGs, sorted by priority, then index.
Before(a, b) == a.priority < b.priority \/ (a.priority = b.priority /\ a.id < b.id)
Shows(bg, control, x) == bg.id \in control /\ bg.colors[x] # 0
Entry(layer, priority) == [layer |-> layer, priority |-> priority]
TopBgs(bgs, control, x) ==       \* the top two BG pixels, the backdrop below everything
    LET shown == {bg \in bgs : Shows(bg, control, x)}
        first == CHOOSE a \in shown : \A b \in shown \ {a} : Before(a, b)
        rest == shown \ {first}
        second == CHOOSE a \in rest : \A b \in rest \ {a} : Before(a, b)
    IN  IF shown = {} THEN <<Entry(Backdrop, 3), Entry(Backdrop, 3)>>
        ELSE <<Entry(first.id, first.priority),
               IF rest = {} THEN Entry(Backdrop, 3) ELSE Entry(second.id, second.priority)>>

\* Mutant: a sprite goes behind a BG of its own priority.
InFrontStrictly(priority, below) == priority < below
InFront(priority, below) == priority <= below
WithObj(two, pixel) ==
    IF InFront(pixel.priority, two[1].priority) THEN <<Entry(Obj, pixel.priority), two[1]>>
    ELSE IF InFront(pixel.priority, two[2].priority) THEN <<two[1], Entry(Obj, pixel.priority)>> ELSE two

EffectOf(two, semi, control, e) ==
    IF semi /\ two[2].layer \in e.second THEN "alpha"
    ELSE IF ~(Backdrop \in control /\ two[1].layer \in e.first) THEN "none"
    ELSE IF e.mode = "alpha" /\ two[2].layer \notin e.second THEN "none" ELSE e.mode

Composite(line, x) ==
    LET control == Control(scene.windows, out[x], x)
        pixel == line[x]
        two == TopBgs(scene.bgs, control, x)
        all == IF Obj \in control /\ pixel.color # 0 THEN WithObj(two, pixel) ELSE two
        semi == all[1].layer = Obj /\ pixel.semi
    IN  [two |-> all, effect |-> EffectOf(all, semi, control, scene.effects)]

(* -------------------------- colour special effects --------------------- *)

Coefficient(n) == IF n < 16 THEN n ELSE 16
\* One channel of `max` + 1 values: 31 for red and blue, 63 for green's six bits.
\* Mutant: the result is not held to the channel.
BlendAlphaUnclamped(max, a, b, eva, evb) == (a * Coefficient(eva) + b * Coefficient(evb) + 8) \div 16
BlendAlpha(max, a, b, eva, evb) == Min({max, (a * Coefficient(eva) + b * Coefficient(evb) + 8) \div 16})
Brighten(max, a, evy) == a + ((max - a) * Coefficient(evy) + 8) \div 16
Darken(max, a, evy) == a - (a * Coefficient(evy) + 7) \div 16

(* ------------------------------- addresses ----------------------------- *)

BgVramSize == 65536
\* Mutant: every row of screen blocks is taken to be two wide.
RowBlocksTwo(wide) == 4096
RowBlocks(wide) == IF wide = 1 THEN 4096 ELSE 2048
\* The map entry of a text BG's pixel, as an offset from the map's base.
MapEntry(size, x, y) ==
    LET wide == size % 2
        tall == size \div 2
        row == (y % (256 * (tall + 1))) \div 8
        col == (x % (256 * (wide + 1))) \div 8
    IN  (row \div 32) * RowBlocks(wide) + (row % 32) * 64 + (col \div 32) * 2048 + (col % 32) * 2

\* A sprite's tile, counted in 32 bytes; of `width` and 4 or 8 bits a pixel.
Tile(base, bx, by, width, mapping1D, is256) ==
    IF mapping1D
    THEN (base + by * (width \div (IF is256 THEN 4 ELSE 8)) + bx * (IF is256 THEN 2 ELSE 1)) % 1024
    ELSE (((base + by * 32) % 1024) \div 32) * 32
         + (((IF is256 THEN base - (base % 2) ELSE base) + bx * (IF is256 THEN 2 ELSE 1)) % 32)

\* The 8-bit map entry of an affine BG's texel; NoTexel draws transparent.
NoTexel == -1
AffineEntry(logSize, overflow, x, y) ==
    LET side == 128 * 2^logSize
        ix == IF overflow THEN x % side ELSE x
        iy == IF overflow THEN y % side ELSE y
    IN  IF ix \notin 0 .. side - 1 \/ iy \notin 0 .. side - 1 THEN NoTexel
        ELSE ((iy \div 8) * 2^(4 + logSize) + (ix \div 8)) % BgVramSize

\* A texel of a bitmap: mode 4 has one byte a pixel and the others two, and mode 3 one frame.
BitmapBytes(mode) == IF mode = 4 THEN 1 ELSE 2
BitmapAddress(mode, second, x, y) ==
    LET width == IF mode = 5 THEN 160 ELSE 240
        height == IF mode = 5 THEN 128 ELSE 160
    IN  IF x \notin 0 .. width - 1 \/ y \notin 0 .. height - 1 THEN NoTexel
        ELSE (IF mode # 3 /\ second THEN 40960 ELSE 0) + (y * width + x) * BitmapBytes(mode)

(* ------------------------------- the line ------------------------------ *)

Init ==
    /\ \/ scene \in Scenes /\ probe = << >>
       \/ scene = << >> /\ \E p \in Probes : probe = <<p>>
    /\ next = 1 /\ spent = 0 /\ out = [x \in Columns |-> Clear] /\ screen = << >>

\* OAM is walked from its first entry; drawing stops at the first reached with the
\* line's cycles spent.
Plot ==
    /\ scene # << >> /\ next <= Len(scene.sprites)
    /\ next' = next + 1
    /\ LET s == scene.sprites[next]
           drawn == scene.budget - 2 * (next - 1) - spent > 0 /\ OnScreen(s)
       IN  /\ out' = IF drawn THEN Plotted(s, out) ELSE out
           /\ spent' = IF drawn THEN spent + Cost(s) ELSE spent
    /\ UNCHANGED <<scene, probe, screen>>

Compose ==
    /\ scene # << >> /\ next > Len(scene.sprites) /\ screen = << >>
    /\ LET line == IF scene.mosaic > 1 THEN ApplyObjMosaic(out, scene.mosaic) ELSE out
       IN  screen' = [x \in Columns |-> Composite(line, x)]
    /\ UNCHANGED <<scene, probe, next, spent, out>>

Next == Plot \/ Compose

Spec == Init /\ [][Next]_vars

(* ----------------------------- properties ------------------------------ *)

Composed == scene # << >> /\ screen # << >>
Covering(x) ==           \* the sprites with a pixel at x, by their place in OAM
    {k \in 1 .. Len(scene.sprites) :
        LET s == scene.sprites[k] IN x - s.x \in 0 .. s.width - 1}
OpaqueAt(k, x) == Texel(scene.sprites[k], x - scene.sprites[k].x) # 0

\* Where no sprite has a transparent pixel, the lowest priority value wins and OAM
\* order breaks ties, whatever lies between them; an OBJ-window sprite only marks
\* (sprites.ts, renderSpriteScanline).
SpritesInOrder ==
    Composed /\ scene.budget > 500 =>
        \A x \in Columns :
            LET normal == {k \in Covering(x) : scene.sprites[k].mode # "window"}
                best == CHOOSE k \in normal : \A j \in normal :
                            \/ scene.sprites[k].priority < scene.sprites[j].priority
                            \/ scene.sprites[k].priority = scene.sprites[j].priority /\ k <= j
                s == scene.sprites[best]
            IN  (\A k \in Covering(x) : OpaqueAt(k, x)) =>
                    /\ out[x].window = (normal # Covering(x))
                    /\ normal = {} => out[x].color = 0
                    /\ normal # {} => /\ out[x].color = Texel(s, x - s.x)
                                      /\ out[x].priority = s.priority /\ out[x].semi = (s.mode = "semi")

\* The two layers a pixel is made of are the first two of all that show there, an OBJ
\* before the BGs of its priority and BGs by their index, through whatever window
\* (compositor.ts, "the top two visible layers are picked by priority").
TopTwoInOrder ==
    Composed /\ scene.mosaic = 1 =>
        \A x \in Columns :
            LET control == Control(scene.windows, out[x], x)
                entries == {[layer |-> bg.id, rank |-> 10 * bg.priority + bg.id + 1] :
                                bg \in {b \in scene.bgs : Shows(b, control, x)}}
                           \cup (IF Obj \in control /\ out[x].color # 0
                                 THEN {[layer |-> Obj, rank |-> 10 * out[x].priority]} ELSE {})
                           \cup {[layer |-> Backdrop, rank |-> 98]}
                top == CHOOSE e \in entries : \A f \in entries : e.rank <= f.rank
                rest == (entries \ {top}) \cup {[layer |-> Backdrop, rank |-> 99]}
                under == CHOOSE e \in rest : \A f \in rest : e.rank <= f.rank
            IN  <<screen[x].two[1].layer, screen[x].two[2].layer>> = <<top.layer, under.layer>>

\* Every pixel of a map has an entry of its own within the map, and every tile of a
\* sprite one of its own, in both mappings; the two frames of a bitmap mode lie apart.
TilesApart ==
    probe # << >> =>
        LET p == probe[1]
            cells == (0 .. 32 * ((p.size % 2) + 1) - 1) \X (0 .. 32 * (p.size \div 2 + 1) - 1)
            tiles == (0 .. p.width \div 8 - 1) \X (0 .. p.height \div 8 - 1)
            entries == {MapEntry(p.size, 8 * c[1], 8 * c[2]) : c \in cells}
        IN  CASE p.kind = "map" ->
                    Cardinality(entries) = Cardinality(cells) /\ \A e \in entries : e < 2 * Cardinality(cells)
              [] p.kind = "sprite" ->
                    Cardinality({Tile(p.base, t[1], t[2], p.width, p.linear, p.is256) : t \in tiles})
                        = Cardinality(tiles)
              [] p.kind = "affine" ->
                    LET side == 2^(4 + p.size)
                        spots == {-8} \cup {8 * t : t \in 0 .. side}
                        texels == {AffineEntry(p.size, p.linear, x, y) : x \in spots, y \in spots}
                    IN  texels = 0 .. side * side - 1 \cup (IF p.linear THEN {} ELSE {NoTexel})
              [] p.kind = "bitmap" ->
                    LET last(second) == BitmapAddress(p.size, second, p.width, p.height) + BitmapBytes(p.size) - 1
                    IN  /\ last(TRUE) < 81920            \* below the OBJ tiles of the bitmap modes
                        /\ p.size # 3 => last(FALSE) < BitmapAddress(p.size, TRUE, 0, 0)
                        /\ BitmapAddress(p.size, TRUE, p.width + 1, p.height) = NoTexel
              [] OTHER -> TRUE

\* An effect never leaves its channel, leaves a colour blended with itself alone, and
\* at its ends is nothing or all.
EffectsStayInRange ==
    probe # << >> =>
        LET p == probe[1]
        IN  p.kind = "effect" => \A n \in 0 .. 31 :
                /\ BlendAlpha(p.max, p.a, p.b, n, p.other) \in 0 .. p.max
                /\ n <= 16 => BlendAlpha(p.max, p.a, p.a, n, 16 - n) = p.a
                /\ Brighten(p.max, p.a, n) \in p.a .. p.max /\ Darken(p.max, p.a, n) \in 0 .. p.a
                /\ n = 0 => Brighten(p.max, p.a, n) = p.a /\ Darken(p.max, p.a, n) = p.a
                /\ n >= 16 => Brighten(p.max, p.a, n) = p.max /\ Darken(p.max, p.a, n) = 0
=============================================================================
