------------------------------- MODULE Unwind -------------------------------
(***************************************************************************)
(* Recovering the call stack of a stopped machine                          *)
(* (debug-info/src/unwind, and the call-frame table of dwarf/frame.ts).    *)
(* The machine runs a program of functions that keep the calling           *)
(* convention, and an interrupt may strike between any two instructions.   *)
(* Beside the machine, `chain` notes what really called what; in every     *)
(* state the walk says what it makes of the registers, the stack and the   *)
(* code alone.                                                             *)
(*                                                                         *)
(* An instruction takes one address and is known by what decode.ts reads   *)
(* of it (its Effect); words of the stack are one address apart.  One      *)
(* instruction set; SWI frames of the BIOS are left out.                   *)
(***************************************************************************)
EXTENDS Integers, Sequences, FiniteSets, SequencesExt

CONSTANTS
    Programs,       \* sets of functions: [code, functions, cfa], see MCUnwind
    CodeFloor,      \* below it, the exception stub
    CodeEnd,        \* the addresses that can hold code end here
    StackOf,        \* mode -> [low, top]: the stack it grows down in
    Registers,      \* the registers modelled; 12 is ip, 13 sp, 14 lr
    Residues,       \* what earlier calls may have left in the stack
    Start,          \* where the program begins
    Handler,        \* the interrupt handler
    MaxInterrupts,  \* bound: interrupts taken
    MaxCalls        \* bound: calls made

VARIABLES program, pc, regs, mode, bank, stack, chain, interrupts, calls

vars == <<program, pc, regs, mode, bank, stack, chain, interrupts, calls>>

Sp == 13
Lr == 14
Ip == 12
ThroughPc == 15          \* `bx pc` goes on after the instruction that follows it
Unknown == -1            \* a register that was not recovered
Junk == 9999             \* what a clobber leaves
CalleeSaved == {r \in Registers : r \in 4 .. 11}
Slots(f) == [r \in Registers |-> IF r \in DOMAIN f THEN f[r] ELSE Unknown]

Decode(at) == IF at \in DOMAIN program.code THEN program.code[at] ELSE [kind |-> "refuse"]
FunctionBounds(at) ==    \* << >> or <<[lo, hi]>>
    SetToSeq({f \in program.functions : f.lo <= at /\ at < f.hi})
Nameable(at) == FunctionBounds(at) # << >>
IsCodeRegion(at) == CodeFloor <= at /\ at < CodeEnd
Read(a) == IF a \in DOMAIN stack THEN stack[a] ELSE Unknown
ReadFrom(a, offset) == IF a = Unknown THEN Unknown ELSE Read(a + offset)

(* ----------------------------- the machine ----------------------------- *)

Live == [r \in Registers |-> CASE r = Sp -> bank[mode].sp [] r = Lr -> bank[mode].lr [] OTHER -> regs[r]]
SetRegisters(f) ==       \* the registers after an instruction that leaves them as f
    /\ regs' = [r \in DOMAIN regs |-> f[r]]
    /\ bank' = [bank EXCEPT ![mode] = [sp |-> f[Sp], lr |-> f[Lr]]]

Init ==
    /\ program \in Programs
    /\ pc = Start /\ mode = "sys" /\ chain = << >> /\ interrupts = 0 /\ calls = 0
    /\ regs = [r \in Registers \ {Sp, Lr} |-> 1000 + r]
    /\ bank = [m \in DOMAIN StackOf |-> [sp |-> StackOf[m].top, lr |-> 0]]
    /\ \E w \in Residues :
          stack = [a \in UNION {StackOf[m].low .. StackOf[m].top - 1 : m \in DOMAIN StackOf} |-> w]

Straight == {"clobber", "push", "sp-add", "sp-add-reg", "move", "literal"}
After(e) ==              \* the registers after a straight-line instruction
    LET r == Live
    IN  CASE e.kind = "clobber" -> [i \in Registers |-> IF i \in e.regs THEN Junk ELSE r[i]]
          [] e.kind = "push" -> [r EXCEPT ![Sp] = @ - Len(e.regs)]
          [] e.kind = "sp-add" -> [r EXCEPT ![Sp] = @ + e.delta]
          [] e.kind = "sp-add-reg" -> [r EXCEPT ![Sp] = @ + r[e.reg]]
          [] e.kind = "move" -> [r EXCEPT ![e.to] = r[e.from]]
          [] e.kind = "literal" -> [r EXCEPT ![e.to] = e.value]

\* Control arrives at `to`: the innermost call is over when it is where it returns to.
Unlinked(to) == IF chain # << >> /\ chain[1].pc = to THEN Tail(chain) ELSE chain
UnderWay == UNCHANGED <<program, mode, interrupts>>

Line ==
    LET e == Decode(pc)
    IN  /\ e.kind \in Straight
        /\ SetRegisters(After(e))
        /\ pc' = pc + 1
        /\ stack' = IF e.kind = "push"
                    THEN LET sp == Live[Sp] - Len(e.regs)
                         IN  [a \in DOMAIN stack |-> IF a - sp \in 0 .. Len(e.regs) - 1
                                                     THEN Live[e.regs[a - sp + 1]] ELSE stack[a]]
                    ELSE stack
        /\ UnderWay /\ UNCHANGED <<chain, calls>>

Pop ==
    LET e == Decode(pc)
        sp == Live[Sp]
        loaded == [r \in Registers |->
            IF \E k \in 1 .. Len(e.regs) : e.regs[k] = r
            THEN stack[sp - 1 + CHOOSE k \in 1 .. Len(e.regs) : e.regs[k] = r]
            ELSE Live[r]]
    IN  /\ e.kind = "pop"
        /\ SetRegisters([loaded EXCEPT ![Sp] = sp + Len(e.regs) + (IF e.toPc THEN 1 ELSE 0)])
        /\ pc' = IF e.toPc THEN stack[sp + Len(e.regs)] ELSE pc + 1
        /\ chain' = IF e.toPc THEN Unlinked(pc') ELSE chain
        /\ UnderWay /\ UNCHANGED <<stack, calls>>

Return ==
    LET e == Decode(pc)
    IN  /\ e.kind = "return"
        /\ \/ pc' = (IF e.via = ThroughPc THEN pc + 2 ELSE Live[e.via]) /\ chain' = Unlinked(pc')
           \/ e.conditional /\ pc' = pc + 1 /\ UNCHANGED chain
        /\ UnderWay /\ UNCHANGED <<regs, bank, stack, calls>>

Branch ==
    LET e == Decode(pc)
    IN  /\ e.kind = "branch"
        /\ \/ pc' = e.target
           \/ e.conditional /\ pc' = pc + 1
        /\ UnderWay /\ UNCHANGED <<regs, bank, stack, chain, calls>>

Linked(to) == chain' = <<[pc |-> to, regs |-> Live]>> \o chain

Call ==
    LET e == Decode(pc)
    IN  /\ e.kind = "call" /\ calls < MaxCalls
        /\ SetRegisters([Live EXCEPT ![Lr] = pc + 1])
        /\ pc' = e.target /\ calls' = calls + 1
        /\ Linked(pc + 1)
        /\ UnderWay /\ UNCHANGED stack

\* The stub: an entry, a push of r0, ip and lr, the call of the handler, and the return.
StubEntry == 1
StubCall == 2
StubReturn == 3
StubLeave == 4
Block == 3               \* words the stub pushes
LrOffset == 2            \* where the interrupted lr is in them
Bias == 1                \* what the stub's return takes from lr

Interrupt ==
    /\ mode = "sys" /\ interrupts < MaxInterrupts
    /\ interrupts' = interrupts + 1
    /\ Linked(pc)
    /\ bank' = [bank EXCEPT !["irq"].lr = pc + Bias]
    /\ mode' = "irq" /\ pc' = StubEntry
    /\ UNCHANGED <<program, regs, stack, calls>>

Stub ==
    /\ mode = "irq"
    /\ LET irq == bank["irq"]
       IN  CASE pc = StubEntry ->
                    /\ stack' = [stack EXCEPT ![irq.sp - 3] = regs[0], ![irq.sp - 2] = regs[Ip], ![irq.sp - 1] = irq.lr]
                    /\ bank' = [bank EXCEPT !["irq"].sp = @ - Block]
                    /\ pc' = StubCall /\ UNCHANGED <<regs, mode, chain>>
             [] pc = StubCall ->
                    /\ bank' = [bank EXCEPT !["irq"].lr = StubReturn]
                    /\ pc' = Handler /\ Linked(StubReturn) /\ UNCHANGED <<regs, mode, stack>>
             [] pc = StubReturn ->
                    /\ regs' = [regs EXCEPT ![0] = stack[irq.sp], ![Ip] = stack[irq.sp + 1]]
                    /\ bank' = [bank EXCEPT !["irq"] = [sp |-> irq.sp + Block, lr |-> stack[irq.sp + LrOffset]]]
                    /\ pc' = StubLeave /\ UNCHANGED <<mode, stack, chain>>
             [] pc = StubLeave ->
                    /\ mode' = "sys" /\ pc' = irq.lr - Bias /\ chain' = Tail(chain)
                    /\ UNCHANGED <<regs, bank, stack>>
             [] OTHER -> FALSE
    /\ UNCHANGED <<program, interrupts, calls>>

Next == Line \/ Pop \/ Return \/ Branch \/ Call \/ Interrupt \/ Stub

Spec == Init /\ [][Next]_vars

(* ---------------------- measuring a frame from code -------------------- *)

Refuse == [ok |-> FALSE]
FrameOf(size, saved, raLive, teardown) ==
    [ok |-> TRUE, size |-> size, saved |-> saved, raLive |-> raLive, teardown |-> teardown]

\* What the instructions from the entry to the pc did.  holds: the register whose
\* entry value each register has; saved: where an entry value is, below the CFA.
Fresh == [holds |-> [r \in Registers |-> r], size |-> 0, saved |-> << >>, constants |-> << >>]
Forget(f, rs) == [r \in DOMAIN f \ rs |-> f[r]]
Lose(st, rs) ==
    [st EXCEPT !.holds = [r \in Registers |-> IF r \in rs THEN Unknown ELSE @[r]],
               !.constants = Forget(@, rs)]
CallWrites == {0, Lr}

\* First save wins.
Pushed(st, rs) ==
    LET size == st.size + Len(rs)
        saves == {k \in 1 .. Len(rs) : st.holds[rs[k]] # Unknown}
        at == [o \in {st.holds[rs[k]] : k \in saves} |-> (CHOOSE k \in saves : st.holds[rs[k]] = o) - 1 - size]
    IN  [st EXCEPT !.size = size,
                   !.saved = [o \in DOMAIN @ \cup DOMAIN at |-> IF o \in DOMAIN @ THEN @[o] ELSE at[o]]]

ReplayOne(st, e) ==
    CASE e.kind = "push" -> Pushed(st, e.regs)
      [] e.kind = "call" -> [Lose(st, CallWrites) EXCEPT !.constants = Forget(@, {Ip})]
      [] e.kind = "sp-add" -> [st EXCEPT !.size = @ - e.delta]
      [] e.kind = "sp-add-reg" -> [st EXCEPT !.size = @ - st.constants[e.reg]]
      [] e.kind = "move" -> [st EXCEPT !.holds[e.to] = st.holds[e.from], !.constants = Forget(@, {e.to})]
      [] e.kind = "literal" ->
            [Lose(st, {e.to}) EXCEPT !.constants = [r \in DOMAIN @ \cup {e.to} |-> IF r = e.to THEN e.value ELSE @[r]]]
      [] e.kind = "clobber" -> Lose(st, e.regs)
      [] OTHER -> st          \* a conditional return that did not fire

Unreplayable(st, e) ==
    \/ e.kind \in {"refuse", "data", "pop", "sp-unknown"}
    \/ e.kind = "sp-add" /\ st.size < e.delta
    \/ e.kind = "sp-add-reg" /\ e.reg \notin DOMAIN st.constants
Leaves(e) == e.kind = "branch" \/ (e.kind = "return" /\ ~e.conditional)

RECURSIVE Replay(_, _, _)
Replay(at, to, st) ==
    LET e == Decode(at)
    IN  IF at >= to \/ Leaves(e) THEN [ok |-> TRUE, st |-> st, at |-> at]
        ELSE IF Unreplayable(st, e) THEN Refuse
        ELSE Replay(at + 1, to, ReplayOne(st, e))

MovesSp == {"push", "pop", "sp-add", "sp-add-reg", "sp-unknown", "refuse"}
\* Mutant: what lies past a branch is taken to leave sp alone.
SpMovedBetweenNever(from, to) == FALSE
SpMovedBetween(from, to) == \E a \in from .. to - 1 : Decode(a).kind \in MovesSp

ReturnsVia(reg, f) ==
    \E a \in f.lo .. f.hi - 1 :
        /\ Decode(a).kind = "return" /\ Decode(a).via = reg /\ ~Decode(a).conditional
        /\ \A b \in f.lo .. a : Decode(b).kind # "refuse"
LrEverClobbered(f) ==
    \E a \in f.lo .. f.hi - 1 :
        LET e == Decode(a)
        IN  \/ e.kind \in {"refuse", "call"}
            \/ e.kind = "move" /\ e.to = Lr
            \/ e.kind = "clobber" /\ Lr \in e.regs

ReturnRegister(st, f, reached) ==
    LET copies == {r \in Registers \ {Sp, Lr} : st.holds[r] = Lr /\ ReturnsVia(r, f)}
    IN  CASE copies # {} -> CHOOSE r \in copies : \A s \in copies : r <= s
          [] copies = {} /\ st.holds[Lr] = Lr /\ (reached \/ ~LrEverClobbered(f)) -> Lr
          [] OTHER -> Unknown

\* What is left to undo from the pc on.  restores: register -> the slot above sp it is popped from.
MaxEpilogue == 8
Lookback == 3
LoadedFromFrame(entry, at, reg) ==
    \E back \in 1 .. Lookback :
        /\ at - back >= entry /\ Decode(at - back).kind = "pop"
        /\ \E k \in 1 .. Len(Decode(at - back).regs) : Decode(at - back).regs[k] = reg
        /\ \A nearer \in 1 .. back - 1 : Decode(at - nearer).kind \in {"sp-add", "move", "clobber"}

TornDown(restores, popped, raOffset, raLive, teardown) ==
    LET kept == [r \in DOMAIN restores \cap (0 .. Ip + 1) |-> restores[r] - popped]
    IN  FrameOf(popped,
                IF raOffset = Unknown THEN kept
                ELSE [r \in DOMAIN kept \cup {Lr} |-> IF r = Lr THEN raOffset - popped ELSE kept[r]],
                raLive, teardown)

RECURSIVE Epilogue(_, _, _, _, _, _)
Epilogue(f, at, restores, popped, teardown, steps) ==
    LET e == Decode(at)
        go(r, n) == Epilogue(f, at + 1, r, n, teardown, steps + 1)
        restored == [r \in DOMAIN restores \cup Range(e.regs) |->
                        IF r \in Range(e.regs)
                        THEN popped - 1 + CHOOSE k \in 1 .. Len(e.regs) : e.regs[k] = r ELSE restores[r]]
        known == e.via \in DOMAIN restores
    IN  CASE steps >= MaxEpilogue \/ at >= f.hi -> Refuse
          [] e.kind = "pop" /\ steps < MaxEpilogue /\ at < f.hi ->
                IF e.toPc THEN TornDown(restored, popped + Len(e.regs) + 1, popped + Len(e.regs), Unknown, teardown)
                ELSE go(restored, popped + Len(e.regs))
          [] e.kind = "sp-add" /\ steps < MaxEpilogue /\ at < f.hi ->
                IF e.delta < 0 THEN Refuse ELSE go(restores, popped + e.delta)
          [] e.kind = "move" /\ steps < MaxEpilogue /\ at < f.hi ->
                go(IF e.from \in DOMAIN restores
                   THEN [r \in DOMAIN restores \cup {e.to} |-> restores[IF r = e.to THEN e.from ELSE r]]
                   ELSE Forget(restores, {e.to}), popped)
          [] e.kind = "return" /\ ~e.conditional /\ steps < MaxEpilogue /\ at < f.hi ->
                IF known THEN TornDown(restores, popped, restores[e.via], Unknown, teardown)
                ELSE IF e.via # Lr /\ ~LoadedFromFrame(f.lo, at, e.via) THEN Refuse
                ELSE TornDown(restores, popped, Unknown, e.via, teardown)
          [] OTHER -> Refuse
MeasureEpilogue(f, at) ==
    Epilogue(f, at, << >>, 0, Decode(at).kind \in {"pop", "sp-add", "return"}, 0)

MeasurePrologue(f, at) ==
    LET torn == MeasureEpilogue(f, at)
        replay == Replay(f.lo, at, Fresh)
    IN  IF torn.ok THEN torn
        ELSE IF ~replay.ok THEN Refuse
        ELSE IF replay.at < at /\ SpMovedBetween(replay.at, at) THEN Refuse
        ELSE FrameOf(replay.st.size, replay.st.saved, ReturnRegister(replay.st, f, replay.at = at), FALSE)

MeasureFrame(top) ==
    LET f == FunctionBounds(top.lookup)
    IN  IF f = << >> \/ top.regs[Sp] = Unknown THEN Refuse
        ELSE IF top.pc < f[1].lo \/ top.pc > f[1].hi THEN Refuse
        ELSE MeasurePrologue(f[1], top.pc)

(* ------------------------------ the table ------------------------------ *)

\* A row: cfaReg + cfaOffset is the CFA; a rule gives the offset from it of a slot.
RowStart == [cfaReg |-> Sp, cfaOffset |-> 0, rules |-> << >>]
RunCfa(instructions, lo, at) ==
    LET one(s, i) ==
            IF s.done THEN s
            ELSE CASE i.op = "advance" -> [s EXCEPT !.loc = @ + i.by, !.done = s.loc + i.by > at]
                   [] i.op = "def_cfa_offset" -> [s EXCEPT !.row.cfaOffset = i.offset]
                   [] i.op = "def_cfa_register" -> [s EXCEPT !.row.cfaReg = i.reg]
                   [] i.op = "offset" ->
                        [s EXCEPT !.row.rules = [r \in DOMAIN @ \cup {i.reg} |-> IF r = i.reg THEN i.offset ELSE @[r]]]
                   [] i.op = "restore" -> [s EXCEPT !.row.rules = Forget(@, {i.reg})]
                   [] i.op = "remember" -> [s EXCEPT !.kept = <<s.row>> \o @]
                   [] i.op = "recall" -> IF s.kept = << >> THEN s
                                         ELSE [s EXCEPT !.row = s.kept[1], !.kept = Tail(@)]
    IN  FoldLeft(one, [loc |-> lo, row |-> RowStart, kept |-> << >>, done |-> FALSE], instructions).row

Candidate(method, raw, rs, cfa, doubt) ==
    [ok |-> TRUE, method |-> method, raw |-> raw, regs |-> rs, cfa |-> cfa, doubt |-> doubt]

\* FrameTable.unwind: no rule leaves a callee-saved register, and lr, as they are.
TableUnwind(at, rs) ==
    LET f == FunctionBounds(at)
        row == RunCfa(program.cfa[f[1].lo], f[1].lo, at)
        cfa == rs[row.cfaReg] + row.cfaOffset
        out == [r \in Registers |->
                   CASE r = Sp -> cfa
                     [] r # Sp /\ r \in DOMAIN row.rules -> Read(cfa + row.rules[r])
                     [] OTHER -> IF r \in CalleeSaved \cup {Lr} THEN rs[r] ELSE Unknown]
    IN  IF f = << >> THEN Refuse
        ELSE IF f[1].lo \notin DOMAIN program.cfa THEN Refuse
        ELSE IF rs[row.cfaReg] = Unknown THEN Refuse
        ELSE IF out[Lr] = Unknown THEN Refuse
        ELSE Candidate("cfi", out[Lr], out, cfa, FALSE)

(* ------------------------------ the layers ----------------------------- *)

CallEndingAt(ra) == IF Decode(ra - 1).kind = "call" THEN Decode(ra - 1).target ELSE Unknown
Within(a, f) == f.lo <= a /\ a < f.hi
VeneerSize == 4          \* a trampoline is no longer than this
MaxVeneerSteps == 6
RECURSIVE FollowTrampoline(_, _, _, _)
FollowTrampoline(at, f, constants, steps) ==
    LET e == Decode(at)
        onTo(next, held) == FollowTrampoline(next, f, held, steps + 1)
    IN  IF steps >= MaxVeneerSteps \/ ~Within(at, f) THEN Unknown
        ELSE CASE e.kind = "literal" -> onTo(at + 1, [constants EXCEPT ![e.to] = e.value])
               [] e.kind \in {"branch", "call"} -> e.target
               [] e.kind = "return" ->
                    CASE e.via = Lr -> Unknown
                      [] e.via = ThroughPc -> onTo(at + 2, constants)
                      [] OTHER -> constants[e.via]
               [] OTHER -> onTo(at + 1, constants)
VeneerTarget(entry) ==   \* where the trampoline at entry ends up
    LET f == FunctionBounds(entry)
    IN  IF f = << >> THEN Unknown
        ELSE IF f[1].hi - f[1].lo > VeneerSize THEN Unknown
        ELSE FollowTrampoline(entry, f[1], Slots(<< >>), 0)
CallReaches(called, f) ==
    \/ Within(called, f)
    \/ VeneerTarget(called) # Unknown /\ Within(VeneerTarget(called), f)

CorroboratedLr(cfa, rs, top) ==
    LET lr == top.regs[Lr]
        called == CallEndingAt(lr)
    IN  IF lr \in {Unknown, 0, top.pc} \/ called = Unknown THEN Refuse
        ELSE IF ~CallReaches(called, FunctionBounds(top.lookup)[1]) THEN Refuse
        ELSE Candidate("lr-corroborated", lr, [rs EXCEPT ![Lr] = lr], cfa, TRUE)

CallerFrom(frame, top) ==
    LET cfa == top.regs[Sp] + frame.size
        rs == [r \in Registers |->
                  CASE r = Sp -> cfa
                    [] r \in CalleeSaved -> IF r \in DOMAIN frame.saved THEN Read(cfa + frame.saved[r]) ELSE top.regs[r]
                    [] OTHER -> Unknown]
        found(method, raw) ==
            IF raw = Unknown THEN Refuse
            ELSE Candidate(method, raw, [rs EXCEPT ![Lr] = raw], cfa, frame.teardown)
    IN  IF Lr \in DOMAIN frame.saved THEN found("prologue", Read(cfa + frame.saved[Lr]))
        ELSE IF frame.raLive = Unknown THEN CorroboratedLr(cfa, rs, top)
        ELSE found(IF frame.raLive = Lr THEN "lr" ELSE "prologue", top.regs[frame.raLive])

Credible(word, inner) ==  \* 0: not; 1: an ancestor's at least; 2: the caller's
    LET called == CallEndingAt(word)
    IN  IF ~IsCodeRegion(word) \/ ~Nameable(word) \/ called = Unknown THEN 0
        ELSE IF inner # << >> /\ CallReaches(called, inner[1]) THEN 2 ELSE 1

ScanForCaller(top, bound) ==
    LET inner == FunctionBounds(top.lookup)
        words == {a \in DOMAIN stack : top.regs[Sp] <= a /\ a < bound /\ stack[a] \notin {0, top.pc}
                                       /\ Credible(stack[a], inner) > 0}
        at == CHOOSE a \in words : \A b \in words : a <= b
    IN  IF top.regs[Sp] = Unknown \/ words = {} THEN Refuse
        ELSE Candidate("scan", stack[at], Slots([r \in {Sp} |-> at + 1]), at + 1, TRUE)

FromTeardown(measured, top) ==
    IF measured.ok /\ measured.teardown THEN CallerFrom(measured, top) ELSE Refuse
FromCfi(measured, top) ==
    IF measured.ok /\ measured.teardown THEN Refuse
    ELSE TableUnwind(top.lookup, top.regs)
FromPrologue(measured, top) == IF measured.ok THEN CallerFrom(measured, top) ELSE Refuse

\* Mutant: the table comes first, also where the frame is being taken down.
LayersTableFirst(measured, top, bound) ==
    <<TableUnwind(top.lookup, top.regs), FromTeardown(measured, top), FromPrologue(measured, top),
      ScanForCaller(top, bound)>>
Layers(measured, top, bound) ==
    <<FromTeardown(measured, top), FromCfi(measured, top), FromPrologue(measured, top), ScanForCaller(top, bound)>>
FirstOf(layers) == IF \E k \in 1 .. Len(layers) : layers[k].ok
                   THEN layers[CHOOSE k \in 1 .. Len(layers) : layers[k].ok /\ \A j \in 1 .. k - 1 : ~layers[j].ok]
                   ELSE Refuse

(* ------------------------------- the walk ------------------------------ *)

Frame(at, lookup, rs, method, doubt) ==
    [pc |-> at, lookup |-> lookup, regs |-> rs, method |-> method, doubt |-> doubt]
Inferred(method) == method \in {"lr-corroborated", "scan"}
Stop(cfa) == [cfa |-> cfa, frames |-> << >>, end |-> TRUE, crossed |-> FALSE]

ResumeAddress(lr) ==
    IF lr = Unknown THEN Unknown
    ELSE IF IsCodeRegion(lr - Bias) /\ Nameable(lr - Bias) THEN lr - Bias ELSE Unknown

\* The interrupted pc is the next instruction, so it is looked up as itself.
Interrupted(known, resume) == <<Frame(resume, resume, Slots(known), "exception", TRUE)>>

CrossException(stubSp, handlerCfa) ==
    LET bases == {b \in {stubSp, handlerCfa} : b # Unknown /\ ResumeAddress(ReadFrom(b, LrOffset)) # Unknown}
        base == IF stubSp \in bases THEN stubSp ELSE handlerCfa
        resume == ResumeAddress(Read(base + LrOffset))
        early == ResumeAddress(bank["irq"].lr)
        interrupted == "sys"                          \* what the saved status register says
        block == [r \in {0, Ip, Sp, Lr} |->
                     CASE r = 0 -> Read(base) [] r = Ip -> Read(base + 1)
                       [] r = Sp -> IF mode = interrupted /\ handlerCfa # Unknown THEN handlerCfa ELSE bank[interrupted].sp
                       [] r = Lr -> bank[interrupted].lr]
    IN  IF bases # {} THEN Interrupted(block, resume)
        ELSE IF early = Unknown THEN << >>
        ELSE Interrupted([r \in {Sp, Lr} |-> IF r = Sp THEN bank[interrupted].sp ELSE bank[interrupted].lr], early)

\* A derived address only has to be code; a name for it is corroboration.
Rejected(ra) == ~IsCodeRegion(ra) \/ (~Nameable(ra) /\ CallEndingAt(ra) = Unknown)

FrameFor(top, c) ==
    LET ra == c.raw
        inner == FunctionBounds(top.lookup)
        crossing == CrossException(bank["irq"].sp, c.cfa)
        stub == Frame(ra, ra, Slots([r \in {Sp} |-> bank["irq"].sp]), "exception", FALSE)
    IN  CASE ra = 0 -> Stop(c.cfa)
          [] ra # 0 /\ ra < CodeFloor ->
                IF crossing = << >> THEN Stop(c.cfa)
                ELSE [cfa |-> c.cfa, frames |-> <<stub>> \o crossing, end |-> FALSE, crossed |-> TRUE]
          [] OTHER ->
                IF Rejected(ra) THEN Stop(c.cfa)
                ELSE IF inner # << >> /\ Within(ra, inner[1]) /\ c.cfa = top.regs[Sp]
                THEN Stop(c.cfa)
                ELSE [cfa |-> c.cfa, frames |-> <<Frame(ra, ra - 1, c.regs, c.method, c.doubt \/ ~Nameable(ra))>>,
                      end |-> FALSE, crossed |-> FALSE]

Advance(top, bound) ==
    LET crossing == CrossException(top.regs[Sp], Unknown)
        From(found) == IF found.ok THEN FrameFor(top, found) ELSE Stop(Unknown)
    IN  IF top.pc < CodeFloor
        THEN IF crossing = << >> THEN Stop(Unknown)
             ELSE [cfa |-> Unknown, frames |-> crossing, end |-> FALSE, crossed |-> TRUE]
        ELSE IF top.regs[Sp] # Unknown /\ top.regs[Sp] >= bound THEN Stop(Unknown)
        ELSE From(FirstOf(Layers(MeasureFrame(top), top, bound)))

MaxFrames == 8           \* the frames the walk is cut off at
\* Mutant: a frame above an inferred one is not marked.
MarkedOnlyInferred(frame, below) == frame
Marked(frame, below) == [frame EXCEPT !.doubt = @ \/ Inferred(below.method)]

RECURSIVE Walk(_, _, _, _)
Further(frames, step, bound, floor, crossed) ==
    LET top == frames[Len(frames)]
        more == frames \o [k \in 1 .. Len(step.frames) |-> Marked(step.frames[k], top)]
        resume == Last(step.frames).pc            \* crossing a boundary twice is a loop
    IN  IF step.cfa # Unknown /\ ((floor # Unknown /\ step.cfa <= floor) \/ step.cfa > bound) THEN frames
        ELSE IF step.end THEN more
        ELSE IF ~step.crossed THEN Walk(more, bound, IF step.cfa = Unknown THEN floor ELSE step.cfa, crossed)
        ELSE IF resume \in crossed THEN frames
        ELSE Walk(more, StackOf["sys"].top, Unknown, crossed \cup {resume})
Walk(frames, bound, floor, crossed) ==
    IF Len(frames) >= MaxFrames THEN frames
    ELSE Further(frames, Advance(frames[Len(frames)], bound), bound, floor, crossed)

UnwindStack == Walk(<<Frame(pc, pc, Live, "live", FALSE)>>, StackOf[mode].top, Unknown, {})

(* ------------------------------ properties ----------------------------- *)

\* Between `pop {r3}` and `mov r8, r3` the caller's r8 is neither in its slot nor in
\* r8 yet.  frameFromTeardown takes what r8 holds, undoubted, for the caller's: "one it
\* does not name is the caller's already [...] So nothing here is a guess"
\* (prologue.ts:365-368) is not so at that instruction.
Restoring(at, r) ==
    LET e == Decode(at)
    IN  e.kind = "move" /\ e.to = r /\ LoadedFromFrame(0, at, e.from)

\* A frame is true when it is where control will really go on, with the stack
\* pointer and every register it claims to know, lr and those of Restoring apart.
True(frame, real) ==
    /\ frame.pc = real.pc
    /\ \A r \in Registers \ {Lr} :
          \/ frame.regs[r] \in {Unknown, real.regs[r]}
          \/ Restoring(pc, r) \/ \E k \in 1 .. Len(chain) : Restoring(chain[k].pc, r)
          \/ frame.pc < CodeFloor /\ r = Sp          \* the stub's is taken for the handler's

\* The handler shares the stub's stack, so once it has pushed, the block is looked for
\* among its own saved words, and one of them may pass for it.  The walk then crosses to
\* a made-up frame, although "the block is found rather than assumed" and another shape
\* "ends the walk with a reason instead of a fabricated frame" (walker.ts:456-463).
Mistakable ==
    /\ mode = "irq"
    /\ ResumeAddress(ReadFrom(bank["irq"].sp, LrOffset)) # Unknown
    /\ bank["irq"].sp + Block # StackOf["irq"].top

\* A tail call is made after the frame is torn down: no straight path leads on to a
\* return, and the table's row is still that of the prologue.
TailCalling(at) == Decode(at).kind = "branch" /\ Decode(at - 1).kind = "pop"

\* Above derived frames alone, a derived frame is true (types.ts, FRAME_METHODS;
\* walker.ts, "the difference between a described frame, a measured one and an
\* inferred one stays visible"): a prologue half run, an epilogue, a call being made
\* or an interrupt, at any instruction, never makes the walk name a caller that is not
\* the caller, nor give a register another value.  It holds with three provisos, for
\* the code does go wrong in each: nothing is said above a tail call about to be made
\* (TailCalling), of what lies across the boundary when a handler in IRQ mode has
\* pushed a word that passes for the stub's (Mistakable), nor of a high register
\* between the pop and the move that restore it (Restoring).
DerivedOf(frames) ==
    LET derived(k) ==
            /\ \A j \in 1 .. k - 1 : ~TailCalling(frames[j].pc)
            /\ \A j \in 2 .. k : ~Inferred(frames[j].method) /\ (frames[j].method = "exception" => ~Mistakable)
    IN  \A k \in 2 .. Len(frames) :
            derived(k) => k - 1 <= Len(chain) /\ True(frames[k], chain[k - 1])
DerivedIsTrue == DerivedOf(UnwindStack)

\* An inferred frame always says what it was inferred from, and so does the frame
\* that stands on it.
InferenceShowsIn(frames) ==
    \A k \in 1 .. Len(frames) :
        /\ Inferred(frames[k].method) => frames[k].doubt
        /\ k > 1 /\ Inferred(frames[k - 1].method) => frames[k].doubt
InferenceShows == InferenceShowsIn(UnwindStack)
=============================================================================
