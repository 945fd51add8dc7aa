------------------------------ MODULE Stepping ------------------------------
(* Steps and breakpoints over a program the compiler has rearranged: where a   *)
(* line has code (debug-info/debug-line.ts LineTable), which inlined calls hold *)
(* an address (scopes.ts), what a breakpoint arms (debug-core session.ts       *)
(* #resolve, breakpoints.ts), the predicates of stepping.ts and the session's  *)
(* predicate that asks them before each instruction. The machine below them    *)
(* runs a program of calls, with an interrupt anywhere; `acts` keeps what      *)
(* really called what, and the properties are about that.                      *)
(* An instruction takes one address. Condition, hit count and log message of a *)
(* breakpoint are left out, and so are the stops that hardware events ask for. *)
EXTENDS Integers, Sequences, FiniteSets, SequencesExt, FiniteSetsExt

CONSTANTS
    Programs,       \* [code, rows, functions, bodies, folds, cfi, walks]
    Asked,          \* sets of breakpoints a client may ask for
    Targets,        \* addresses a client may run to
    Start,          \* where the program begins
    Handler,        \* the interrupt handler
    Floor,          \* LOWEST_PROGRAM_ADDRESS: the exception stub is below
    MaxCommands,    \* bound: commands of the user
    MaxInterrupts,  \* bound: interrupts taken
    MaxDepth        \* bound: activations at a time

VARIABLES
    program,
    pc, mode, sp, lr,   \* the CPU; sp and lr to each mode
    acts,               \* what is active, innermost first
    interrupts,
    running,            \* Session.#state
    hidden,             \* #hiddenInline: inlined layers the views leave out
    skip,               \* #skipAddress
    stepper,            \* #stepper, with what its closure holds
    armed,              \* BreakpointStore.#byAddress
    wanted,             \* the breakpoints last asked for
    asked,              \* what was true when the last step was asked for
    lowest,             \* the fewest activations since then
    stopped,            \* why the last run stopped
    commands
machine == <<program, pc, mode, sp, lr, acts, interrupts>>
session == <<running, hidden, skip, stepper, armed, wanted, asked, stopped, commands>>
vars == <<machine, session, lowest>>

None == -1
NoLine == [file |-> "", line |-> 0]
\* normalizePath: one file spelled two ways is one key.
Fold(file) == IF file \in DOMAIN program.folds THEN program.folds[file] ELSE file

-----------------------------------------------------------------------------
(* LineTable: rows by address, the end of a sequence first at an address. *)

Rows == program.rows
Place(i) == [file |-> Rows[i].file, line |-> Rows[i].line]

\* The label of the rows that start at an address: the last statement row's.
RowAt(a) ==
    LET here == {i \in DOMAIN Rows : Rows[i].at = a /\ ~Rows[i].end}
        statements == {i \in here : Rows[i].stmt}
        label == Max(IF statements = {} THEN here ELSE statements)
    IN IF here = {} THEN [file |-> "", line |-> 0, stmt |-> FALSE]
       ELSE [file |-> Fold(Rows[label].file), line |-> Rows[label].line, stmt |-> statements # {}]

PcToSource(a) ==
    LET below == {i \in DOMAIN Rows : Rows[i].at <= a}
    IN IF below = {} THEN NoLine
       ELSE IF Rows[Max(below)].end THEN NoLine ELSE Place(Max(below))

\* #index: a place for each run of rows of the line, at its first statement.
SourceToPcs(file, line) ==
    LET Begins(i) == \/ i = 1 \/ Rows[i - 1].end
                     \/ Fold(Rows[i - 1].file) # Fold(Rows[i].file) \/ Rows[i - 1].line # Rows[i].line
        From(i) == Max({j \in 1 .. i : Begins(j)})
    IN {Rows[i].at : i \in {k \in DOMAIN Rows :
            /\ ~Rows[k].end /\ Rows[k].stmt /\ Fold(Rows[k].file) = file /\ Rows[k].line = line
            /\ \A j \in From(k) .. (k - 1) : ~Rows[j].stmt}}

-----------------------------------------------------------------------------
(* DwarfScopes *)

Body(b) == program.bodies[b]
DieAt(a) == {f \in program.functions : f.die /\ f.lo <= a /\ a < f.hi}
\* functionRange: << >> or the function, by its entry or else by its symbol.
FunctionRange(a) ==
    IF DieAt(a) # {} THEN SetToSeq(DieAt(a))
    ELSE SetToSeq({f \in program.functions : a >= Floor /\ f.lo <= a /\ a < f.hi})

\* The inlined calls that contain an address, outermost first.
InlineChain(a) ==
    SetToSortSeq({b \in DOMAIN program.bodies : a \in Body(b).code},
                 LAMBDA x, y : Body(x).depth < Body(y).depth)

\* inlineEntriesAt: the layers that begin at an address, innermost first.
InlineEntriesAt(a) ==
    LET chain == InlineChain(a)
        Begin(k) == \A i \in (Len(chain) - k + 1) .. Len(chain) : Body(chain[i]).entry = a
    IN Max({k \in 0 .. Len(chain) : Begin(k)})

CallSite(b) == [file |-> Body(b).file, line |-> Body(b).line]
InlineCallSitesAt(file, line) ==
    {Body(b).entry : b \in {c \in DOMAIN program.bodies : Fold(Body(c).file) = file /\ Body(c).line = line}}
InlineEntriesByName(name) ==
    {Body(b).entry : b \in {c \in DOMAIN program.bodies : Body(c).name = name}}

\* The canonical frame address, where call-frame information has it.
Cfa(a) == IF program.cfi /\ DieAt(a) # {} THEN acts[1].sp ELSE None

-----------------------------------------------------------------------------
(* BreakpointStore and #resolve *)

SlideSlack == 2     \* SLIDE_SLACK is 8
LineToAddresses(file, line) ==
    LET At(l) == SourceToPcs(file, l) \union InlineCallSitesAt(file, l)
        with == {l \in line .. line + SlideSlack : At(l) # {}}
    IN IF with = {} THEN {} ELSE At(Min(with))

\* Mutant: a function is armed where its symbol is.
ResolveSymbol(spec) ==
    CASE spec.kind = "instruction" -> {spec.at}
      [] spec.kind = "function" -> {f.lo : f \in {g \in program.functions : g.name = spec.name}}
      [] OTHER -> LineToAddresses(spec.file, spec.line)
Resolve(spec) ==
    CASE spec.kind = "instruction" -> {spec.at}
      [] spec.kind = "function" ->
            {f.lo : f \in {g \in program.functions : g.name = spec.name}} \union InlineEntriesByName(spec.name)
      [] OTHER -> LineToAddresses(spec.file, spec.line)

-----------------------------------------------------------------------------
(* stepping.ts *)

IsExceptionMode(m) == m = "irq"
ReturnedFromException(from, to) == IsExceptionMode(from) /\ ~IsExceptionMode(to)
InFn(fn, a) == fn # <<>> /\ fn[1].lo <= a /\ a < fn[1].hi

Layers(drop) == LET chain == InlineChain(pc) IN SubSeq(chain, 1, Len(chain) - drop)
\* visibleLine: where the frame the views begin with was called from, or nothing.
VisibleLine == IF hidden > 0 /\ InlineChain(pc) # <<>>
               THEN CallSite(InlineChain(pc)[Len(InlineChain(pc)) - hidden + 1]) ELSE NoLine

NoStep == [kind |-> "none"]
StepInstruction == [kind |-> "instruction"]
StepIntoFrom ==
    LET start == PcToSource(pc)
    IN IF start = NoLine THEN StepInstruction ELSE [kind |-> "into", line |-> start, mode |-> mode]

\* stepOverStatements, with so many layers hidden.
StepOverFrom(layers) ==
    LET drop == Min({layers, Len(InlineChain(pc))})
        entered == IF drop = 0 THEN None ELSE InlineChain(pc)[Len(InlineChain(pc)) - drop + 1]
        line == CASE drop > 0 /\ VisibleLine # NoLine -> VisibleLine
                  [] drop > 0 -> CallSite(entered)
                  [] OTHER -> PcToSource(pc)
    IN [kind |-> IF line = NoLine THEN "over-code" ELSE "over", line |-> line, mode |-> mode,
        sp |-> sp[mode], fn |-> FunctionRange(pc), cfa |-> Cfa(pc), visible |-> Layers(drop),
        entered |-> entered]

StepOutTo(to, callerSp) ==
    [kind |-> "to", target |-> to, mode |-> mode, sp |-> IF callerSp = None THEN sp[mode] ELSE callerSp]
StepOutOfException == [kind |-> "mode"]
RunToAddress(to) == [kind |-> "address", target |-> to]

Auto == None        \* AUTO_HIDDEN
Go == [stop |-> FALSE, hide |-> 0]
StopHiding(n) == [stop |-> TRUE, hide |-> n]

\* Mutant: the stack pointer and the frame address are not looked at.
OverAnyFrame(s, a) ==
    LET row == RowAt(a)
        chain == InlineChain(a)
    IN IF ~row.stmt \/ mode # s.mode \/ (row.file = s.line.file /\ row.line = s.line.line) THEN Go
       ELSE StopHiding(0)
\* A statement step over calls, asked at the address about to be executed.
Over(s, a) ==
    LET row == RowAt(a)
        chain == InlineChain(a)
        cfa == Cfa(a)
        at == sp[mode]
        same == row.file = s.line.file /\ row.line = s.line.line
        InLayers == CASE IsPrefix(chain, s.visible) -> IF same THEN Go ELSE StopHiding(0)
                      [] IsPrefix(s.visible, chain) ->
                            IF chain[Len(s.visible) + 1] = s.entered THEN Go
                            ELSE StopHiding(Len(chain) - Len(s.visible))
                      [] OTHER -> Go
    IN CASE ~row.stmt -> Go
         [] mode # s.mode -> IF ReturnedFromException(s.mode, mode) THEN StopHiding(Auto) ELSE Go
         [] s.cfa # None ->
                CASE cfa # None /\ cfa < s.cfa -> Go
                  [] cfa # None /\ cfa > s.cfa -> StopHiding(0)
                  [] OTHER -> InLayers
         [] s.fn # <<>> /\ ~InFn(s.fn, a) ->
                IF at < s.sp \/ (at = s.sp /\ InFn(s.fn, lr[mode])) THEN Go ELSE StopHiding(0)
         [] s.fn = <<>> /\ at < s.sp -> Go
         [] OTHER -> InLayers

\* The same where no line is known: an instruction, a call as one.
OverCode(s, a) ==
    IF mode # s.mode
    THEN [stop |-> ReturnedFromException(s.mode, mode), hide |-> 0]
    ELSE [stop |-> sp[mode] >= s.sp /\ (s.fn = <<>> \/ InFn(s.fn, a) \/ sp[mode] > s.sp), hide |-> 0]

\* Mutant: an interrupt's handler is stepped into like a call.
IntoAnyMode(s, a) ==
    LET row == RowAt(a)
    IN [stop |-> row.stmt /\ (row.file # s.line.file \/ row.line # s.line.line), hide |-> 0]
Into(s, a) ==
    LET row == RowAt(a)
    IN [stop |-> row.stmt /\ mode = s.mode /\ (row.file # s.line.file \/ row.line # s.line.line), hide |-> 0]

Accepts(s, a) ==
    CASE s.kind = "none" -> Go
      [] s.kind = "instruction" -> StopHiding(0)
      [] s.kind = "into" -> Into(s, a)
      [] s.kind = "over" -> Over(s, a)
      [] s.kind = "over-code" -> OverCode(s, a)
      [] s.kind = "to" -> [stop |-> a = s.target /\ mode = s.mode /\ sp[mode] >= s.sp, hide |-> Auto]
      [] s.kind = "mode" -> [stop |-> ~IsExceptionMode(mode) /\ a >= Floor, hide |-> Auto]
      [] s.kind = "address" -> [stop |-> a = s.target, hide |-> Auto]

-----------------------------------------------------------------------------
(* The machine. `saved` is where a function put its return address. *)

Activation(kind, to, at) == [kind |-> kind, ret |-> to, sp |-> at, saved |-> None]
Op == program.code[pc]
StubEnter == 1
StubLeave == 2

Execute ==
    LET n == sp[mode] IN
    \/ /\ Op.op = "line"
       /\ pc' = pc + 1
       /\ UNCHANGED <<mode, sp, lr, acts>>
    \/ /\ Op.op = "branch"
       /\ pc' \in {Op.to} \union (IF Op.conditional THEN {pc + 1} ELSE {})
       /\ UNCHANGED <<mode, sp, lr, acts>>
    \/ /\ Op.op = "call" /\ Len(acts) < MaxDepth
       /\ pc' = Op.to /\ lr' = [lr EXCEPT ![mode] = pc + 1]
       /\ acts' = <<Activation("call", pc + 1, n)>> \o acts
       /\ UNCHANGED <<mode, sp>>
    \/ /\ Op.op = "push"
       /\ pc' = pc + 1 /\ sp' = [sp EXCEPT ![mode] = n - 1]
       /\ acts' = [acts EXCEPT ![1].saved = lr[mode]]
       /\ UNCHANGED <<mode, lr>>
    \/ /\ Op.op = "unpush"
       /\ pc' = pc + 1 /\ sp' = [sp EXCEPT ![mode] = n + 1]
       /\ lr' = [lr EXCEPT ![mode] = acts[1].saved]
       /\ UNCHANGED <<mode, acts>>
    \/ /\ Op.op = "pop"
       /\ pc' = acts[1].saved /\ sp' = [sp EXCEPT ![mode] = n + 1] /\ acts' = Tail(acts)
       /\ UNCHANGED <<mode, lr>>
    \/ /\ Op.op = "return"
       /\ pc' = lr[mode] /\ acts' = Tail(acts)
       /\ UNCHANGED <<mode, sp, lr>>
    \/ /\ Op.op = "mode"
       /\ pc' = pc + 1 /\ mode' = Op.mode
       /\ UNCHANGED <<sp, lr, acts>>
    \/ /\ Op.op = "enter"
       /\ pc' = Handler /\ sp' = [sp EXCEPT ![mode] = n - 1] /\ lr' = [lr EXCEPT ![mode] = StubLeave]
       /\ acts' = <<Activation("call", StubLeave, n - 1)>> \o acts
       /\ UNCHANGED mode
    \/ /\ Op.op = "leave"
       /\ pc' = acts[1].ret /\ mode' = "sys" /\ sp' = [sp EXCEPT ![mode] = n + 1] /\ acts' = Tail(acts)
       /\ UNCHANGED lr

\* #predicate: the resumed address once, the step, then the breakpoints.
HitsAt(a) == {b \in armed : a \in b.at}
Verdict ==
    LET step == Accepts(stepper, pc)
        hits == HitsAt(pc)
    IN CASE skip = pc -> [why |-> "", hide |-> 0]
         [] step.stop -> [why |-> "step", hide |-> step.hide]
         [] hits # {} -> IF \E b \in hits : b.kind = "function"
                         THEN [why |-> "function breakpoint", hide |-> 0]
                         ELSE [why |-> "breakpoint", hide |-> Auto]
         [] OTHER -> [why |-> "", hide |-> 0]

Instruction ==
    /\ running /\ Verdict.why = ""
    /\ Execute
    /\ skip' = None
    /\ lowest' = Min({lowest, Len(acts')})
    /\ UNCHANGED <<program, interrupts, running, hidden, stepper, armed, wanted, asked, stopped, commands>>

\* An interrupt taken before the next instruction.
Interrupt ==
    /\ running /\ mode = "sys" /\ interrupts < MaxInterrupts /\ Len(acts) + 2 <= MaxDepth
    /\ interrupts' = interrupts + 1
    /\ mode' = "irq" /\ pc' = StubEnter
    /\ acts' = <<Activation("irq", pc, sp["irq"])>> \o acts
    /\ UNCHANGED <<program, sp, lr, session, lowest>>

-----------------------------------------------------------------------------
(* The session *)

Stop(why, hide) ==      \* #stop and #resolveHiddenInline
    /\ running' = FALSE /\ stepper' = NoStep /\ stopped' = why
    /\ hidden' = IF hide = Auto THEN InlineEntriesAt(pc) ELSE hide
    /\ UNCHANGED <<machine, armed, wanted, asked, commands, lowest>>

Accept ==
    /\ running /\ Verdict.why # ""
    /\ skip' = None
    /\ Stop(Verdict.why, Verdict.hide)

\* Between two frames, of a long step too.
Pause == running /\ Stop("pause", Auto) /\ UNCHANGED skip
GiveUp == running /\ stepper # NoStep /\ Stop("gave up", Auto) /\ UNCHANGED skip

Command == ~running /\ commands < MaxCommands /\ commands' = commands + 1

\* What a step is measured against: the frame and the line the views show.
Shown == LET at == IF VisibleLine = NoLine THEN PcToSource(pc) ELSE VisibleLine
         IN [at EXCEPT !.file = Fold(@)]
FunctionsWithLines == {f \in program.functions :
                          \E i \in DOMAIN Rows : Rows[i].stmt /\ f.lo <= Rows[i].at /\ Rows[i].at < f.hi}
Homes == {e \in 1 .. Len(acts) - 1 :
             \E f \in FunctionsWithLines : LET to == acts[Len(acts) - e].ret IN f.lo <= to /\ to < f.hi}
Asking(what) ==
    [what |-> what, depth |-> Len(acts), chain |-> Layers(hidden), line |-> Shown,
     home |-> Max(Homes \union {0}), ret |-> acts[1].ret, mode |-> mode]

Run(what, step) ==      \* #armResume and #beginRun
    /\ running' = TRUE /\ stepper' = step /\ skip' = pc /\ hidden' = Auto
    /\ asked' = Asking(what) /\ lowest' = Len(acts) /\ stopped' = ""
    /\ UNCHANGED <<machine, armed, wanted>>

Continue == Command /\ Run("continue", NoStep)
StepOne == Command /\ Run("instruction", StepInstruction)
\* Entering an inlined call executes nothing: the next layer is shown.
Reveal ==
    /\ Command /\ hidden > 0
    /\ hidden' = hidden - 1 /\ stopped' = "entered"
    /\ UNCHANGED <<machine, running, skip, stepper, armed, wanted, asked, lowest>>
StepInto == Command /\ hidden = 0 /\ Run("into", StepIntoFrom)
StepOver == Command /\ Run("over", StepOverFrom(hidden))
RunTo(a) == Command /\ Run("address", RunToAddress(a))

\* The caller the walk of the stack established, and a run can go to.
CanRunToCaller == program.walks /\ acts[1].kind = "call" /\ acts[1].ret >= Floor
StepOut ==
    /\ Command
    /\ LET fn == FunctionRange(pc)
       IN IF Layers(hidden) # <<>> THEN Run("out of inlined", StepOverFrom(hidden + 1))
          ELSE IF CanRunToCaller THEN Run("out", StepOutTo(acts[1].ret, acts[1].sp))
          ELSE IF IsExceptionMode(mode) THEN Run("out of handler", StepOutOfException)
          ELSE IF InFn(fn, lr[mode]) \/ lr[mode] < Floor
          THEN stopped' = "refused" /\ UNCHANGED <<machine, running, hidden, skip, stepper, armed, wanted, asked, lowest>>
          ELSE Run("out", StepOutTo(lr[mode], None))

\* setSourceBreakpoints and its like: every breakpoint of an owner replaced.
Replace(specs) ==
    /\ commands < MaxCommands /\ commands' = commands + 1
    /\ wanted' = specs
    /\ armed' = {[kind |-> s.kind, at |-> Resolve(s)] : s \in specs}
    /\ UNCHANGED <<machine, running, hidden, skip, stepper, asked, stopped, lowest>>

Init ==
    /\ program \in Programs
    /\ pc = Start /\ mode = "sys"
    /\ sp = [sys |-> 99, irq |-> 50] /\ lr = [sys |-> 0, irq |-> 0]
    /\ acts = <<Activation("call", 0, 100)>>
    /\ interrupts = 0 /\ commands = 0
    /\ running = FALSE /\ hidden = InlineEntriesAt(pc) /\ skip = None /\ stepper = NoStep
    /\ armed = {} /\ wanted = {} /\ stopped = "" /\ lowest = 1
    /\ asked = Asking("nothing")

Next ==
    \/ Instruction \/ Interrupt
    \/ Accept \/ Pause \/ GiveUp
    \/ Continue \/ StepOne \/ Reveal \/ StepInto \/ StepOver \/ StepOut
    \/ \E specs \in Asked : Replace(specs)
    \/ \E a \in Targets : RunTo(a)

Spec == Init /\ [][Next]_vars

-----------------------------------------------------------------------------
Stepped(what) == ~running /\ stopped = "step" /\ asked.what = what
NewInterrupt == \E i \in 1 .. Len(acts) - lowest : acts[i].kind = "irq"

\* A step over ends in the frame it began in or, once that has returned, in the
\* nearest caller that has lines, at a statement: never in a call it made, in
\* an inlined call it did not show, or in a handler that interrupted it; and in
\* its own frame it has left the line it began on, unless it is about to enter
\* another inlined call of it (stepping.ts stepOverStatements: "the next
\* statement of the current function, real calls and inlined calls both treated
\* as one statement"). A step out of a handler's last line is left out: the
\* interrupted code may be in the middle of a line, on its way into a call.
OverEndsInItsFrame ==
    Stepped("over") /\ asked.line # NoLine /\ ~ReturnedFromException(asked.mode, mode) =>
        /\ Len(acts) = lowest
        /\ RowAt(pc).stmt
        /\ lowest < asked.depth => lowest >= asked.home
        /\ lowest = asked.depth => /\ IsPrefix(Layers(hidden), asked.chain)
                                   /\ Shown # asked.line \/ hidden > 0

\* A step out of a function or a handler ends where it returns to, in the
\* activation that called it; of an inlined call, in its function or beyond,
\* outside the call (stepOut, stepOutTo, stepOutOfException, stepOutOfInline).
OutEndsInTheCaller ==
    /\ Stepped("out") => lowest = asked.depth - 1 /\ Len(acts) = lowest /\ pc = asked.ret
    /\ Stepped("out of handler") => Len(acts) = lowest /\ lowest < asked.depth /\ mode = "sys"
    /\ Stepped("out of inlined") =>
          /\ Len(acts) = lowest
          /\ lowest = asked.depth => Len(Layers(hidden)) < Len(asked.chain)

\* A step into ends on another line than it began on (stepInto: "the start of
\* a different source line"). It needs the compiler to spell a file's name without
\* `./` and `..`: the line a step starts on is compared by the name as it was
\* spelt, the rows it meets by the folded one, and none would be the same.
IntoReachesALine ==
    Stepped("into") /\ asked.line # NoLine => RowAt(pc).stmt /\ Shown # asked.line

\* A step into never ends in the handler of an interrupt (stepInto: "An
\* interrupt that preempts the step is not a call: its handler's lines are
\* skipped"), as long as the handler keeps its mode: where the dispatcher calls it
\* in System mode, as libgba's and the decomps' do, nothing else tells them apart.
IntoSkipsInterrupts ==
    Stepped("into") /\ asked.line # NoLine => ~NewInterrupt

\* Every step ends where it was asked to; the handlers of the program stay in
\* their mode and its files are spelt one way (stepping.ts, session.ts stepOut).
StepsEndWhereAsked == OverEndsInItsFrame /\ OutEndsInTheCaller /\ IntoReachesALine /\ IntoSkipsInterrupts

\* Where a line of the program begins: a statement of it, with none of it just
\* before.
LineBegins(file, line, a) ==
    /\ RowAt(a).stmt /\ Fold(RowAt(a).file) = file /\ RowAt(a).line = line
    /\ LET before == PcToSource(a - 1) IN Fold(before.file) # file \/ before.line # line

\* No instruction that begins a line, a function or an inlined copy of one that
\* a breakpoint was asked for on is executed, but the one a run resumed at
\* (session.ts #predicate and #resolve, LineTable.#index).
NothingAskedForRuns ==
    Instruction /\ skip # pc =>
        \A s \in wanted :
            IF s.kind = "function"
            THEN /\ ~\E f \in program.functions : f.name = s.name /\ f.lo = pc
                 /\ ~\E b \in DOMAIN program.bodies : Body(b).name = s.name /\ Body(b).entry = pc
            ELSE ~LineBegins(s.file, s.line, pc)
=============================================================================
