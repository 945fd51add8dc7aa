----------------------------- MODULE MCInspection -----------------------------
(***************************************************************************)
(* What looks into a stopped or a running program: the memory diff, the     *)
(* scripts, expressions, the walk of the call stack, the names placed on    *)
(* memory and the steps, each on a small instance of its own.  They do not  *)
(* act on one another here, so one behaviour is of one part and leaves the  *)
(* variables of the others idle.                                            *)
(***************************************************************************)
EXTENDS Integers, Sequences, FiniteSets, TLC

CONSTANTS
    Parts,       \* the parts a run's behaviours are of
    SteppedOver, \* the programs stepped through
    PlacedOn     \* the programs names are placed on

VARIABLES
    part,      \* the part the behaviour is of
    captures, nextId, kept, query, states, size, pair, view, mutes, version, nextMute, last, steps,
    mem, points, handles, seen, call, held, onFrame, rec, sheets, shown, file, stored, calls,
    nodes, phase, reduced,
    traced, tracedPc, regs, tracedMode, bank, stack, chain, tracedIrqs, tracedCalls,
    placedIn, pointers, images, described, answers, placed,
    program, pc, mode, sp, lr, acts, interrupts, running, hidden, skip, stepper, armed, wanted, asked,
    lowest, stopped, commands

-----------------------------------------------------------------------------
(* Small programs for the debugger to look at: their code and the debug    *)
(* information compilers write of them.                                    *)

Unknown == -1    \* of module Unwind
Absent == -9     \* of module Placement

-----------------------------------------------------------------------------
(* For Unwind: a start-up routine that calls `outer`, which calls `inner`, *)
(* which may call a leaf, each in the shapes the two compilers give them.  *)
(* Every combination of an outer and an inner function is a program.       *)

Ins(kind) == [kind |-> kind, via |-> Unknown, conditional |-> FALSE, regs |-> << >>, target |-> Unknown, toPc |-> FALSE]
PushOf(rs) == [Ins("push") EXCEPT !.regs = rs]
PopOf(rs) == [Ins("pop") EXCEPT !.regs = rs]
PopPc(rs) == [PopOf(rs) EXCEPT !.toPc = TRUE]
Frees(n) == [kind |-> "sp-add", via |-> Unknown, conditional |-> FALSE, regs |-> << >>, delta |-> n]
Grows(n) == Frees(-n)
GrowsBy(r) == [kind |-> "sp-add-reg", via |-> Unknown, conditional |-> FALSE, regs |-> << >>, reg |-> r]
Moves(to, from) == [kind |-> "move", via |-> Unknown, conditional |-> FALSE, regs |-> << >>, to |-> to, from |-> from]
Loads(to, v) == [kind |-> "literal", via |-> Unknown, conditional |-> FALSE, regs |-> << >>, to |-> to, value |-> v]
Writes(rs) == [kind |-> "clobber", via |-> Unknown, conditional |-> FALSE, regs |-> rs]
Calls(to) == [Ins("call") EXCEPT !.target = to]
Jumps(to) == [Ins("branch") EXCEPT !.target = to]
JumpIf(to) == [Jumps(to) EXCEPT !.conditional = TRUE]
ReturnBy(r) == [Ins("return") EXCEPT !.via = r]
ReturnIf(r) == [ReturnBy(r) EXCEPT !.conditional = TRUE]

AtBegin == 10
AtOuter == 20
AtInner == 40
AtLeaf == 60
AtVeneer == 70
AtSwitch == 74
AtIrq == 80

\* `pop {r4}; pop {r0}; bx r0`, with a local; a tail that parks a high register; a body past a branch.
OuterShapes ==
    {<<PushOf(<<4, 14>>), Grows(1), Writes({4}), Calls(AtInner), Frees(1), PopOf(<<4>>), PopOf(<<0>>), ReturnBy(0)>>,
     <<PushOf(<<4, 14>>), Moves(4, 8), PushOf(<<4>>), Writes({4, 8}), Calls(AtInner),
       PopOf(<<0>>), Moves(8, 0), PopPc(<<4>>)>>,
     <<PushOf(<<4, 14>>), JumpIf(AtOuter + 4), Calls(AtInner), Jumps(AtOuter + 4), PopPc(<<4>>)>>,
     <<PushOf(<<14>>), Loads(0, -2), GrowsBy(0), Calls(AtVeneer), Frees(2), PopPc(<< >>)>>,
     <<PushOf(<<14>>), Loads(0, -2), GrowsBy(0), Calls(AtSwitch), Frees(2), PopPc(<< >>)>>,
     <<Moves(12, 14), JumpIf(AtOuter + 3), Calls(AtInner), ReturnBy(12)>>}
\* A leaf; one that returns early; lr parked elsewhere; a tail call; a frame taken down and built again.
InnerShapes ==
    {<<ReturnIf(14), Writes({0}), ReturnBy(14)>>,
     <<ReturnIf(14), PushOf(<<4, 14>>), Writes({4}), Calls(AtLeaf), PopPc(<<4>>)>>,
     <<PushOf(<<4, 14>>), Moves(14, 8), PushOf(<<14>>), Writes({4, 8}), Calls(AtLeaf), PopOf(<<0>>), Moves(8, 0),
       PopOf(<<4>>), PopOf(<<0>>), ReturnBy(0)>>,
     <<PushOf(<<14>>), Calls(AtLeaf), PopOf(<<14>>), Jumps(AtLeaf)>>,
     <<JumpIf(AtInner + 4), PushOf(<<4, 14>>), Writes({4}), PopPc(<<4>>), PushOf(<<14>>), Calls(AtLeaf), PopPc(<< >>)>>,
     <<Loads(0, 7), JumpIf(AtInner + 5), PushOf(<<4>>), Writes({4}), PopOf(<<4>>), ReturnBy(14)>>}
LeafShape == <<PushOf(<<4, 8, 14>>), Writes({4, 8}), PopPc(<<4, 8>>)>>
IrqShape == <<PushOf(<<4, 14>>), Writes({4}), Calls(AtLeaf), PopPc(<<4>>)>>
VeneerShape == <<Loads(0, AtInner), ReturnBy(0)>>
SwitchShape == <<ReturnBy(15), Moves(8, 8), Jumps(AtInner)>>      \* a veneer that changes instruction set
BeginShape == <<Grows(2), Calls(AtOuter), Jumps(AtBegin + 2)>>

Layout(outer, inner) ==
    {<<AtBegin, BeginShape>>, <<AtOuter, outer>>, <<AtInner, inner>>, <<AtLeaf, LeafShape>>,
     <<AtVeneer, VeneerShape>>, <<AtSwitch, SwitchShape>>, <<AtIrq, IrqShape>>}

\* The rows gcc writes for the pushes of a prologue: they stop where it does.
CfaRows(shape) ==
    LET first == shape[1]
    IN  IF first.kind = "push"
        THEN <<[op |-> "advance", by |-> 1], [op |-> "def_cfa_offset", offset |-> Len(first.regs)]>>
             \o [k \in 1 .. Len(first.regs) |->
                    [op |-> "offset", reg |-> first.regs[k], offset |-> k - 1 - Len(first.regs)]]
             \o (IF shape[2].kind = "sp-add"
                 THEN <<[op |-> "advance", by |-> 1],
                        [op |-> "def_cfa_offset", offset |-> Len(first.regs) - shape[2].delta]>> ELSE << >>)
        ELSE << >>
Described(shape) ==      \* the prologue is one push, and at most one more move of sp
    /\ shape[1].kind = "push"
    /\ \A k \in 2 .. Len(shape) : shape[k].kind \notin {"push", "sp-add-reg"}

CallProgram(outer, inner, table) ==
    LET layout == Layout(outer, inner)
        at(a) == CHOOSE f \in layout : f[1] <= a /\ a < f[1] + Len(f[2])
        spots == UNION {f[1] .. f[1] + Len(f[2]) - 1 : f \in layout}
    IN  [code |-> [a \in spots |-> at(a)[2][a - at(a)[1] + 1]],
         functions |-> {[lo |-> f[1], hi |-> f[1] + Len(f[2])] : f \in layout},
         cfa |-> IF table
                 THEN [lo \in {f[1] : f \in {g \in layout : Described(g[2])}} |->
                          CfaRows((CHOOSE f \in layout : f[1] = lo)[2])]
                 ELSE << >>]

CallPrograms == {CallProgram(o, i, t) : o \in OuterShapes, i \in InnerShapes, t \in BOOLEAN}
Leftovers == {0, AtOuter + 5}
Stacks == [sys |-> [low |-> 300, top |-> 312], irq |-> [low |-> 330, top |-> 338]]

-----------------------------------------------------------------------------
(* For Placement: one struct of a run of bit fields, a nested aggregate    *)
(* and a pointer to the struct itself, placed by the compiler, by the      *)
(* linker under a declaration, or as an array of either kind.              *)

Entry(tag, type, bytes) ==
    [tag |-> tag, name |-> "", type |-> type, size |-> bytes, members |-> <<>>, dims |-> <<>>,
     declaration |-> FALSE]
Member(name, at, type) ==
    [name |-> name, at |-> at, type |-> type, bits |-> 0, dataBit |-> Absent, storage |-> Absent,
     fromTop |-> 0]
\* A bit field of two bytes' storage at `at`, `low` bits from its bottom, in
\* the older and in the newer dialect.
Bits(name, at, low, width, older) ==
    IF older THEN [Member(name, at, 2) EXCEPT !.bits = width, !.storage = 2, !.fromTop = 16 - low - width]
    ELSE [Member(name, at, 2) EXCEPT !.bits = width, !.dataBit = at * 8 + low]
Dim(count, upper) == [count |-> count, upper |-> upper]

\* What the struct holds at its bytes 2 to 5: u8 [2][2], a union, a nameless
\* union, an array of bytes, a declared struct another unit defines.
Nested == {"rows", "union", "nameless", "bytes", "declared"}
\* 1 u8, 2 u16, 3 struct Node, 4 its typedef, 5 a pointer to the typedef,
\* 6 what is nested, 7 an array of the struct, 8 a struct of 4 bytes.
\* The struct points at itself by its tag, or by a name for it (aliased).
EntriesOf(nested, older, volatile, dim, aliased) ==
    <<Entry("base", 0, 1),
      Entry("base", 0, 2),
      [Entry("struct", 0, 10) EXCEPT !.name = "Node",
          !.members = <<Bits("f", 0, 0, 3, older), Bits("g", 0, 3, 7, older), Bits("h", 0, 10, 6, older),
                        Member(IF nested = "nameless" THEN "" ELSE "in", 2, 6), Member("next", 6, 5)>>],
      Entry(IF volatile THEN "volatile" ELSE "typedef", 3, Absent),
      Entry("pointer", IF aliased THEN 4 ELSE 3, Absent),
      CASE nested = "rows" -> [Entry("array", 1, Absent) EXCEPT !.dims = <<Dim(Absent, 1), Dim(2, Absent)>>]
        [] nested = "bytes" -> [Entry("array", 1, Absent) EXCEPT !.dims = <<Dim(Absent, 3)>>]
        [] nested = "declared" -> [Entry("typedef", 8, Absent) EXCEPT !.name = "Pair"]
        [] OTHER -> [Entry("union", 0, 4) EXCEPT
                        !.members = <<Member("x", 0, 1), Member("y", 2, 2), Member("z", 0, 8)>>],
      [Entry("array", 4, Absent) EXCEPT !.dims = <<dim>>],
      [Entry("struct", 0, 4) EXCEPT !.name = "Pair", !.members = <<Member("a", 0, 2), Member("b", 3, 1)>>]>>

Sym(name, address, bytes, kind) == [name |-> name, address |-> address, size |-> bytes, kind |-> kind]
Var(name, type, declaration) == [name |-> name, type |-> type, declaration |-> declaration]

\* gNode is defined in C, or placed by the linker under a declaration; the
\* label after it has no size; gTable is an array of nodes, of an extent the
\* declaration states, leaves at 1 or leaves out; gHead is a pointer; the code
\* sits in a memory of its own.
ProgramOf(nested, older, linked, dim, aliased) ==
    [entries |-> EntriesOf(nested, older, linked, dim, aliased),
     variables |-> <<Var("gNode", 3, linked), Var("gHead", 5, FALSE), Var("gTable", 7, linked)>>,
     symbols |-> <<Sym("gNode", 16, IF linked THEN 0 ELSE 10, IF linked THEN "notype" ELSE "object"),
                   Sym("gEnd", 26, 0, "notype"), Sym("gHead", 28, 4, "object"),
                   Sym("gTable", 32, IF linked THEN 0 ELSE 20, IF linked THEN "notype" ELSE "object"),
                   Sym("main", 64, 4, "func")>>,
     cells |-> {IF linked THEN 22 ELSE 48}]

PlacedPrograms ==
    {ProgramOf(n, older, TRUE, dim, FALSE) : n \in Nested, older \in BOOLEAN,
        dim \in {Dim(Absent, 1), Dim(Absent, 0), Dim(Absent, Absent)}}
    \union {ProgramOf(n, older, FALSE, Dim(Absent, 1), FALSE) : n \in Nested, older \in BOOLEAN}
\* The struct whose pointer to itself is of a name for it.
Aliased == {ProgramOf("bytes", FALSE, FALSE, Dim(Absent, 1), TRUE)}
AimTargets == {0, 32, 84}
DiffAddresses == {16, 17, 21, 25, 33, 44, 66, 87}

-----------------------------------------------------------------------------
(* For Stepping: a main loop with a call, a line in two pieces and an      *)
(* inlined function with another inlined in it; `work`, which calls a leaf *)
(* and itself; an interrupt handler that calls the leaf too.               *)

Op(name) == [op |-> name, to |-> 0, conditional |-> FALSE, mode |-> ""]
Line == Op("line")
BranchTo(to) == [Op("branch") EXCEPT !.to = to]
BranchMaybe(to) == [BranchTo(to) EXCEPT !.conditional = TRUE]
CallOf(to) == [Op("call") EXCEPT !.to = to]
SwitchTo(m) == [Op("mode") EXCEPT !.mode = m]

Stmt(at, line) == [at |-> at, file |-> "a.c", line |-> line, stmt |-> TRUE, end |-> FALSE]
RestOf(at, line) == [Stmt(at, line) EXCEPT !.stmt = FALSE]
EndAt(at) == [Stmt(at, 0) EXCEPT !.end = TRUE]

CodeOf(handler, tail) ==
    [a \in {1} |-> Op("enter")] @@ [a \in {2} |-> Op("leave")] @@ handler
    @@ [a \in 20 .. 27 |-> IF a = 24 THEN CallOf(30) ELSE IF a = 27 THEN BranchMaybe(29) ELSE Line]
    @@ [a \in 28 .. 29 |-> BranchTo(20)]
    @@ (30 :> Op("push")) @@ (31 :> Line) @@ (32 :> CallOf(40)) @@ (33 :> BranchMaybe(35)) @@ tail
    @@ (40 :> Line) @@ (41 :> Op("return"))

Recursing == (34 :> CallOf(30)) @@ (35 :> Op("pop"))
TailCalling == (34 :> Line) @@ (35 :> Op("unpush")) @@ (36 :> BranchTo(40))
InIrqMode == (10 :> Op("push")) @@ (11 :> CallOf(40)) @@ (12 :> Op("pop"))
\* A dispatcher that runs the handlers on the stack of the program.
InSystemMode == (10 :> SwitchTo("sys")) @@ (11 :> Op("push")) @@ (12 :> CallOf(40)) @@ (13 :> Op("unpush"))
                @@ (14 :> SwitchTo("irq")) @@ (15 :> Op("return"))

HandlerRows == <<Stmt(10, 61), Stmt(11, 62), Stmt(12, 63), EndAt(13)>>
MainRows == <<Stmt(20, 1), Stmt(21, 41), Stmt(22, 51), Stmt(23, 3), Stmt(24, 4), Stmt(26, 41), Stmt(27, 3), Stmt(28, 6), EndAt(30),
              Stmt(30, 11), Stmt(31, 12), RestOf(32, 12), Stmt(33, 13), RestOf(34, 13), Stmt(35, 14)>>
LeafRows == <<EndAt(40), Stmt(40, 21), Stmt(41, 22), EndAt(44)>>
NoLeafRows == <<EndAt(40)>>

Fn(name, lo, hi, die) == [name |-> name, lo |-> lo, hi |-> hi, die |-> die]
Bodies ==
    <<[name |-> "tiny", code |-> {21, 22}, entry |-> 21, depth |-> 1, file |-> "a.c", line |-> 2],
      [name |-> "inner", code |-> {22}, entry |-> 22, depth |-> 2, file |-> "a.c", line |-> 42],
      [name |-> "tiny", code |-> {26}, entry |-> 26, depth |-> 1, file |-> "a.c", line |-> 5]>>

StepProgram(handler, tail, rows, leafDie, cfi, walks) ==
    [code |-> CodeOf(handler, tail), rows |-> rows, bodies |-> Bodies, folds |-> << >>, cfi |-> cfi, walks |-> walks,
     functions |-> {Fn("irq", 10, 16, FALSE), Fn("main", 20, 30, TRUE), Fn("work", 30, 38, TRUE),
                    Fn("leaf", 40, 44, leafDie)}]

AllRows == HandlerRows \o MainRows \o LeafRows
StepPrograms ==
    {StepProgram(InIrqMode, Recursing, AllRows, TRUE, TRUE, TRUE),
     StepProgram(InIrqMode, TailCalling, AllRows, TRUE, FALSE, TRUE),
     StepProgram(InIrqMode, TailCalling, HandlerRows \o MainRows \o NoLeafRows, FALSE, FALSE, FALSE),
     StepProgram(InIrqMode, Recursing, HandlerRows \o MainRows \o NoLeafRows, FALSE, TRUE, FALSE)}
\* A program whose dispatcher runs the handlers in System mode.
HandledInSystemMode == {StepProgram(InSystemMode, TailCalling, MainRows \o LeafRows, TRUE, TRUE, TRUE)}

Function(name) == [kind |-> "function", name |-> name]
LineAt(n) == [kind |-> "source", file |-> "a.c", line |-> n]
BreakpointSets == {{Function("tiny")}, {Function("work"), LineAt(3)}, {LineAt(51)}, {LineAt(2)}, {LineAt(21)}}

-----------------------------------------------------------------------------
diffVars == <<captures, nextId, kept, query, states, size, pair, view, mutes, version, nextMute, last, steps>>
scriptVars == <<mem, points, handles, seen, call, held, onFrame, rec, sheets, shown, file, stored, calls>>
expressionVars == <<nodes, phase, reduced>>
unwindVars == <<traced, tracedPc, regs, tracedMode, bank, stack, chain, tracedIrqs, tracedCalls>>
placementVars == <<placedIn, pointers, images, described, answers, placed>>
steppingVars ==
    <<program, pc, mode, sp, lr, acts, interrupts, running, hidden, skip, stepper, armed, wanted, asked,
      lowest, stopped, commands>>
vars == <<part, diffVars, scriptVars, expressionVars, unwindVars, placementVars, steppingVars>>

Idle == "idle"

-----------------------------------------------------------------------------
(* The memory diff: two bytes of one memory and four of another, of which  *)
(* three change; queries that order, compare and contradict themselves.    *)

Ram(x, y, z) ==
    [a \in ({3} \X (0 .. 3)) \cup ({2} \X (0 .. 1)) |->
        IF a = <<3, 0>> THEN x ELSE IF a = <<3, 1>> THEN y ELSE IF a[1] = 2 THEN z ELSE 0]
Links(edges, values) == [edges |-> edges, values |-> values]
Queries ==
    {Links({<<1, 2, "changed">>}, {}),
     Links({<<1, 2, "increased">>, <<2, 3, "increased">>, <<1, 3, "decreased">>}, {}),
     Links({<<1, 2, "changed">>, <<1, 3, "same">>}, {}),
     Links({<<2, 3, "same">>, <<1, 3, "decreased">>}, {}),
     Links({<<1, 2, "same">>, <<2, 3, "same">>, <<1, 3, "changed">>}, {<<1, 0>>})}

D == INSTANCE MemoryDiff WITH
    REGION_SIZE <- 2 :> 2 @@ 3 :> 4,
    RAMS <- {Ram(0, 1, 0), Ram(1, 0, 0), Ram(0, 1, 1)},
    QUERIES <- Queries, SIZES <- {1, 2},
    MUTED <- {{<<2, 1>>, <<3, 0>>}},
    IDLE_RUNS <- {[rams |-> <<Ram(0, 0, 0), Ram(0, 1, 0), Ram(0, 0, 0)>>,
                   copied |-> {<<2, 0>>, <<2, 1>>}, stack |-> {<<3, 3>>}]},
    NEAR <- 2, FEW <- <<1, 2, 3>>, DETAIL <- 5, CAPTURES <- 3, STEPS <- 5, asked <- query

DiffIdle ==
    /\ captures = Idle /\ nextId = Idle /\ kept = Idle /\ query = Idle /\ states = Idle /\ size = Idle
    /\ pair = Idle /\ view = Idle /\ mutes = Idle /\ version = Idle /\ nextMute = Idle /\ last = Idle
    /\ steps = Idle

-----------------------------------------------------------------------------
(* Scripts: eight addresses of four memories, bytes of two bits, a game    *)
(* that writes with the CPU and by DMA, and runs the code that is watched. *)

Region == [a \in 0 .. 7 |-> CASE a < 4 -> "EWRAM" [] a < 6 -> "palette" [] a = 6 -> "OAM" [] OTHER -> "ROM"]
Written(a, width, v, by) == [kind |-> "write", address |-> a, size |-> width, value |-> v, source |-> by]
Runs(by) == [kind |-> "exec", address |-> 2, lr |-> by]
Keeping(throws, keep) == [throws |-> throws, keep |-> keep]
Storing(a, bits, v) == [address |-> a, size |-> 2, bits |-> bits, value |-> v]

G == INSTANCE Scripting WITH
    BYTE <- 4, ADDRESSES <- 0 .. 7, REGION <- Region,
    OBJECTS <- {<<"x", 0, 1>>, <<"y", 1, 2>>, <<"z", 3, 0>>},
    FRAMES <- {<<>>, <<Written(0, 1, 1, "cpu"), Runs(0)>>,
               <<Written(0, 2, 2, "dma1"), Written(1, 1, 1, "cpu"), Runs(1)>>},
    FILTERS <- {Keeping(FALSE, 0 .. 15), Keeping(FALSE, {1}), Keeping(TRUE, {1})},
    CAPS <- {0, 1}, WATCHED <- {<<"write", 0, 2>>, <<"exec", 2, 1>>},
    WRITES <- {Storing(0, <<>>, 9), Storing(1, <<1, 2>>, 6), Storing(4, <<>>, 9), Storing(1, <<>>, 6)},
    TIMEOUT <- 2, HOLD <- 1, SHOTS <- {1, 2}, MACHINE <- 2, CALLS <- 3

ScriptIdle ==
    /\ mem = Idle /\ points = Idle /\ handles = Idle /\ seen = Idle /\ call = Idle /\ held = Idle
    /\ onFrame = Idle /\ rec = Idle /\ sheets = Idle /\ shown = Idle /\ file = Idle /\ stored = Idle
    /\ calls = Idle

-----------------------------------------------------------------------------
(* Expressions, on a machine of two-byte words with two-bit bytes.  A      *)
(* struct of a signed byte, an unsigned byte and a field lies in memory or *)
(* in a register; so does a byte variable, whose register keeps stale bits *)
(* above it.                                                               *)

Failed == -1
Typed(kind, name, bytes) ==
    [kind |-> kind, name |-> name, size |-> bytes, target |-> << >>, count |-> 0, members |-> << >>]
U8 == Typed("uint", <<"u8">>, 1)
S8 == Typed("int", <<"s8">>, 1)
Int2 == Typed("int", <<"int">>, 2)
Field(type, offset, bits) == [type |-> type, offset |-> offset, bits |-> bits]
Pos ==
    [Typed("struct", <<"Pos">>, 2) EXCEPT
        !.members = [x |-> Field(S8, 0, << >>), y |-> Field(U8, 1, << >>), at |-> Field(Int2, 1, << >>),
                     f |-> Field(U8, 1, <<[offset |-> 1, size |-> 1, span |-> 1]>>)]]
PosList == [Typed("array", <<"Pos", "[]">>, 4) EXCEPT !.target = <<Pos>>, !.count = 2]
PosPointer == [Typed("pointer", <<"Pos", "*">>, 2) EXCEPT !.target = <<Pos>>]

\* Bytes 0 .. 13 are mapped; pos is at 2, the list at 4, p at 8 and points at 4,
\* hp at 10, n at 11, the label at 13.
Memory == [a \in 0 .. 13 |->
    CASE a = 2 -> 3 [] a = 3 -> 2 [] a = 4 -> 1 [] a = 5 -> 3 [] a = 6 -> 2 [] a = 8 -> 0 [] a = 9 -> 1
      [] a = 10 -> 3 [] a = 11 -> 3 [] a = 12 -> 3 [] a = 13 -> 2 [] OTHER -> 0]
Homes == [pos |-> 2, hp |-> 10, list |-> 4, p |-> 8, n |-> 11, label |-> 13]
Place(kind, at) == [kind |-> kind, at |-> at]
InMemory ==
    [mem |-> Memory, reg |-> 6,
     place |-> [name \in DOMAIN Homes |-> IF name = "p" THEN Place("unknown", 0) ELSE Place("address", Homes[name])],
     address |-> Homes, symbol |-> [name \in DOMAIN Homes |-> IF name = "label" THEN 2 ELSE Failed]]
InRegisters ==
    [InMemory EXCEPT !.place["pos"] = Place("word", 11), !.place["hp"] = Place("word", 7),
                     !.place["n"] = Place("word", 15)]
OutOfScope ==
    [InMemory EXCEPT !.place["pos"] = Place("absent", 0), !.place["hp"] = Place("absent", 0),
                     !.address["p"] = Failed, !.address["label"] = Failed,
                     !.symbol["p"] = 4, !.symbol["label"] = Failed, !.reg = 13]

RootTypes ==
    [pos |-> <<Pos>>, hp |-> <<U8>>, list |-> <<PosList>>, p |-> <<PosPointer>>, n |-> <<Int2>>, label |-> << >>]

E == INSTANCE Expression WITH
    ByteBits <- 2, WordBytes <- 2,
    Envs <- {InMemory, InRegisters, OutOfScope}, Twins <- {<<InRegisters, InMemory>>},
    Roots <- DOMAIN Homes, RootType <- RootTypes, CastTypes <- {Pos, U8}, Literals <- {0, 1, 2},
    MaxReductions <- 5

ExpressionIdle == nodes = Idle /\ phase = Idle /\ reduced = Idle

-----------------------------------------------------------------------------
(* The walk of the call stack.                                             *)

U == INSTANCE Unwind WITH
    Programs <- CallPrograms, CodeFloor <- 10, CodeEnd <- 100, StackOf <- Stacks,
    Registers <- {0, 4, 8, 12, 13, 14}, Residues <- Leftovers, Start <- 10, Handler <- 80,
    MaxInterrupts <- 1, MaxCalls <- 5,
    program <- traced, pc <- tracedPc, mode <- tracedMode, interrupts <- tracedIrqs, calls <- tracedCalls

UnwindIdle ==
    /\ traced = Idle /\ tracedPc = Idle /\ regs = Idle /\ tracedMode = Idle /\ bank = Idle
    /\ stack = Idle /\ chain = Idle /\ tracedIrqs = Idle /\ tracedCalls = Idle

-----------------------------------------------------------------------------
(* Names placed on memory, two asked for over two captures.                *)

P == INSTANCE Placement WITH
    Programs <- PlacedOn, Targets <- AimTargets, Addresses <- DiffAddresses, RegionSize <- 64,
    MaxAsks <- 2, MaxCaptures <- 2,
    program <- placedIn, captures <- images, asked <- answers

PlacementIdle ==
    /\ placedIn = Idle /\ pointers = Idle /\ images = Idle /\ described = Idle /\ answers = Idle
    /\ placed = Idle

-----------------------------------------------------------------------------
(* Steps: two commands of the user and one interrupt.                      *)

S == INSTANCE Stepping WITH
    Programs <- SteppedOver, Asked <- BreakpointSets, Targets <- {26, 40}, Start <- 20, Handler <- 10,
    Floor <- 10, MaxCommands <- 2, MaxInterrupts <- 1, MaxDepth <- 5

SteppingIdle ==
    /\ program = Idle /\ pc = Idle /\ mode = Idle /\ sp = Idle /\ lr = Idle /\ acts = Idle
    /\ interrupts = Idle /\ running = Idle /\ hidden = Idle /\ skip = Idle /\ stepper = Idle
    /\ armed = Idle /\ wanted = Idle /\ asked = Idle /\ lowest = Idle /\ stopped = Idle
    /\ commands = Idle

-----------------------------------------------------------------------------
Init ==
    /\ part \in Parts
    /\ IF part = "diff" THEN D!Init ELSE DiffIdle
    /\ IF part = "script" THEN G!Init ELSE ScriptIdle
    /\ IF part = "expression" THEN E!Init ELSE ExpressionIdle
    /\ IF part = "unwind" THEN U!Init ELSE UnwindIdle
    /\ IF part = "placement" THEN P!Init ELSE PlacementIdle
    /\ IF part = "stepping" THEN S!Init ELSE SteppingIdle

DiffStep ==
    part = "diff" /\ D!Next
    /\ UNCHANGED <<part, scriptVars, expressionVars, unwindVars, placementVars, steppingVars>>
ScriptStep ==
    part = "script" /\ G!Next
    /\ UNCHANGED <<part, diffVars, expressionVars, unwindVars, placementVars, steppingVars>>
ExpressionStep ==
    part = "expression" /\ E!Next
    /\ UNCHANGED <<part, diffVars, scriptVars, unwindVars, placementVars, steppingVars>>
UnwindStep ==
    part = "unwind" /\ U!Next
    /\ UNCHANGED <<part, diffVars, scriptVars, expressionVars, placementVars, steppingVars>>
PlacementStep ==
    part = "placement" /\ P!Next
    /\ UNCHANGED <<part, diffVars, scriptVars, expressionVars, unwindVars, steppingVars>>
SteppingStep ==
    part = "stepping" /\ S!Next
    /\ UNCHANGED <<part, diffVars, scriptVars, expressionVars, unwindVars, placementVars>>

Next == DiffStep \/ ScriptStep \/ ExpressionStep \/ UnwindStep \/ PlacementStep \/ SteppingStep

Spec == Init /\ [][Next]_vars

-----------------------------------------------------------------------------
(* Properties *)

\* What a memory diff shows is of the captures, the query and the mutes there
\* are, and a query is refused when nothing could satisfy it (memory-diff.ts).
DiffIsCurrent == part = "diff" => D!ResultIsCurrent /\ D!RefusedIsImpossible

\* A script's watches account for every event they matched, however a call
\* ended, and its stores land whole where they are addressed (scripting.ts).
ScriptsAddUp == part = "script" => G!WatchesAddUp /\ G!StoresWhatWasAsked

\* Expressions compute as C does, where the code takes two operands to be signed
\* when C would, and a value kept in a register is shown as one kept in memory,
\* within its type (expression.ts, values.ts).
ValuesAreTheProgram ==
    part = "expression" =>
        E!ArithmeticAsInC /\ E!IndexingIsPointing /\ E!RegisterHoldsTheSame /\ E!ShownWithinType

\* The frames a walk derives are those of the calls the program made, but for the
\* three cases DerivedOf names, and what it only inferred says so (types.ts,
\* walker.ts).
WalkIsTrue == part = "unwind" => U!DerivedIsTrue /\ U!InferenceShows

\* The readers of a type agree on it, and a name given to an address leads back
\* to it, less its `<anon …>` steps (types.ts, values.ts, placement.ts).
NamesLeadBack == part = "placement" => P!TwoReadersAgree /\ P!NamesLeadBack

\* A step ends in the frame and on the line it was asked for (stepping.ts).
StepsEndWhereAsked == part = "stepping" => S!StepsEndWhereAsked

\* No place a breakpoint was asked for on is run through (session.ts).
PlacesAskedForStop == [][part = "stepping" => S!NothingAskedForRuns]_vars

\* Violated: an entry is described the same whatever was described before it.
DescribedAlike == part = "placement" => P!DescribedAlike

\* Violated: a step into never ends in the handler of an interrupt.
IntoSkipsInterrupts == part = "stepping" => S!IntoSkipsInterrupts
===============================================================================
