----------------------------- MODULE Expression -----------------------------
(***************************************************************************)
(* The expressions of watches, breakpoint conditions and logpoints         *)
(* (debug-core/src/expression.ts).  A line is compiled to a closure over   *)
(* an environment; here the parser's reductions are the actions, in the    *)
(* order the recursive descent makes them, on a stack of compiled nodes.   *)
(* A closure is a function on Envs: the moments the expression may be      *)
(* evaluated at.  A type is known when the expression compiles, a place    *)
(* only in an environment.                                                 *)
(*                                                                         *)
(* Words are narrow: ByteBits bits in a byte, WordBytes bytes in a word.   *)
(* The spelling of tokens and their precedence are left out.               *)
(***************************************************************************)
EXTENDS Integers, Sequences, FiniteSets

CONSTANTS
    ByteBits, WordBytes,  \* the width of the machine
    Envs,                 \* the moments an expression is evaluated at
    Twins,                \* <<a, b>>: b is a with every value the compiler keeps in memory
    Roots,                \* the names a line may use
    RootType,             \* RootType[name]: << >> or <<type>> (ExprHints.rootType)
    CastTypes,            \* the types a cast may name (ExprHints.typeByName)
    Literals,             \* the numbers a line may hold
    MaxReductions         \* bound: the reductions of one line

VARIABLES nodes,   \* the nodes compiled and not yet reduced
          phase,   \* "compiling" or "refused"
          reduced  \* the reductions made

vars == <<nodes, phase, reduced>>

WordBits == ByteBits * WordBytes
Modulus == 2 ^ WordBits
Word == 0 .. Modulus - 1
Failed == -1                     \* an evaluation that throws
Wrap(n) == n % Modulus           \* n >>> 0
Signed(n, bits) == IF n >= 2 ^ (bits - 1) THEN n - 2 ^ bits ELSE n

(* ------------------------------- types --------------------------------- *)

Scalar(kind, name, size) ==
    [kind |-> kind, name |-> <<name>>, size |-> size, target |-> << >>, count |-> 0, members |-> << >>]
PointerTo(t) ==
    [kind |-> "pointer", name |-> Append(t.name, "*"), size |-> WordBytes,
     target |-> <<t>>, count |-> 0, members |-> << >>]
VoidPointer == Scalar("pointer", "void *", WordBytes)
PtrDiff == Scalar("int", "int", WordBytes)

IsSigned(t) == t.kind = "int"
SameType(a, b) == a.kind = b.kind /\ a.size = b.size /\ a.name = b.name
ElementOf(type) ==
    IF type # << >> /\ type[1].kind \in {"pointer", "array"} THEN type[1].target ELSE << >>

\* The width a scalar is read at, 0 when no word holds it.
ScalarWidth(t) ==
    CASE t.kind = "float" -> 0
      [] t.kind \in {"int", "uint", "enum", "pointer"} /\ t.size \in 1 .. WordBytes -> t.size
      [] OTHER -> IF t.kind = "pointer" THEN WordBytes ELSE 0

(* ---------------------------- the machine ------------------------------ *)

\* An environment: mem is the bytes mapped, reg a register's word, place,
\* address and symbol what is answered for a name (place may be "unknown").
Read(env, a, size) ==
    IF \A k \in 0 .. size - 1 : a + k \in DOMAIN env.mem
    THEN LET byte(k) == env.mem[a + k] * 2 ^ (ByteBits * k)
         IN  byte(0) + IF size > 1 THEN byte(1) ELSE 0
    ELSE Failed

At(a) == [kind |-> "address", at |-> a]
InRegister(w) == [kind |-> "word", at |-> w]
Absent == [kind |-> "absent", at |-> 0]
Throws == [kind |-> "throws", at |-> 0]

ReadWord(env, a, size, signed) ==
    LET v == Read(env, a, size)
    IN  IF v = Failed THEN Failed
        ELSE IF signed THEN Wrap(Signed(v, size * ByteBits)) ELSE v

\* Mutant: the word in a register is taken whole, whatever its type.
MaskWordWhole(v, size, signed) == v
MaskWord(v, size, signed) ==
    LET u == v % 2 ^ (size * ByteBits)
    IN  IF size >= WordBytes THEN v
        ELSE IF signed THEN Wrap(Signed(u, size * ByteBits)) ELSE u

(* ------------------------------- nodes --------------------------------- *)

\* eval: Envs -> the word or Failed.  spot: << >> or <<Envs -> place>>, for a
\* node that names storage; bits: << >> or <<[offset, size, span]>>.  `int` is not
\* the code's: it says, for the properties, that C has the value as an int.
Node(eval, signed, type) ==
    [eval |-> eval, signed |-> signed, type |-> type, spot |-> << >>, bits |-> << >>,
     storage |-> << >>, literal |-> Failed, root |-> FALSE, int |-> signed]
Refused == [Node(<< >>, FALSE, << >>) EXCEPT !.root = TRUE]
Computed(f, signed) == Node(f, signed, << >>)
InC(node, int) == IF node = Refused THEN node ELSE [node EXCEPT !.int = int]
\* C's integer promotions: what an int can hold becomes one.
PromotedToInt(type, bits) ==
    \/ type.kind = "int"
    \/ type.kind \in {"uint", "enum"} /\ type.size < WordBytes
    \/ type.kind \in {"uint", "enum"} /\ bits # << >> /\ bits[1].size < WordBits

AddressIn(spot) ==   \* ExprLvalue.address: Failed where the value is in a register too
    [e \in Envs |-> IF spot[e].kind = "address" THEN spot[e].at ELSE Failed]

FieldAt(e, a, type, bits) ==
    LET word == Read(e, a, bits.span)
        v == (word \div 2 ^ bits.offset) % 2 ^ bits.size
    IN  IF word = Failed THEN Failed
        ELSE IF IsSigned(type) THEN Wrap(Signed(v, bits.size)) ELSE v

ScalarAt(e, spot, type) ==
    LET size == ScalarWidth(type)
    IN  CASE spot.kind = "address" -> ReadWord(e, spot.at, size, IsSigned(type))
          [] spot.kind = "word" -> MaskWord(spot.at, size, IsSigned(type))
          [] OTHER -> Failed

Located(type, spot, bits) ==
    LET address == AddressIn(spot)
        value(e) ==
            CASE bits # << >> ->
                    IF bits[1].span > WordBytes \/ address[e] = Failed THEN Failed
                    ELSE FieldAt(e, address[e], type, bits[1])
              [] type.kind = "array" -> address[e]
              [] OTHER -> IF ScalarWidth(type) = 0 THEN Failed ELSE ScalarAt(e, spot[e], type)
    IN  [Node([e \in Envs |-> value(e)], IsSigned(type) /\ type.kind # "array", <<type>>)
            EXCEPT !.spot = <<spot>>, !.bits = bits, !.storage = <<address>>,
                   !.int = PromotedToInt(type, bits)]

\* `word + offset`, where the word may have failed.
Shifted(eval, by) == [e \in Envs |-> IF eval[e] = Failed \/ by[e] = Failed THEN Throws
                                     ELSE At(Wrap(eval[e] + by[e]))]
Constantly(n) == [e \in Envs |-> n]

TypedRoot(name, type) ==
    Located(type,
            [e \in Envs |->
                CASE e.place[name].kind # "unknown" -> e.place[name]
                  [] e.address[name] # Failed -> At(e.address[name])
                  [] e.symbol[name] # Failed -> InRegister(e.symbol[name])
                  [] OTHER -> Throws], << >>)
UntypedRoot(name) ==
    [Node([e \in Envs |-> e.symbol[name]], FALSE, << >>)
        EXCEPT !.root = TRUE, !.storage = <<[e \in Envs |-> e.address[name]]>>]
\* Below a name without a type: compiled, and failing when it is evaluated.
BelowUntyped == [Computed(Constantly(Failed), FALSE) EXCEPT !.root = TRUE]
RootOf(name) == IF RootType[name] = << >> THEN UntypedRoot(name) ELSE TypedRoot(name, RootType[name][1])

(* --------------------- members, elements, pointers --------------------- *)

Untyped(base) == IF base.root THEN BelowUntyped ELSE Refused

MemberOf(owner, name) == owner.kind \in {"struct", "union"} /\ name \in DOMAIN owner.members

MemberThrough(base, name) ==   \* base->name
    LET owner == base.type[1].target
        m == owner[1].members[name]
    IN  IF base.type[1].kind \notin {"pointer", "array"} \/ owner = << >> THEN Refused
        ELSE IF ~MemberOf(owner[1], name) THEN Refused
        ELSE Located(m.type, Shifted(base.eval, Constantly(m.offset)), m.bits)

\* A member of a value kept in a register, when the word holds all of it.
WithinWord(m) ==
    LET width == IF m.bits # << >> THEN m.bits[1].span ELSE ScalarWidth(m.type)
    IN  width > 0 /\ m.offset + width <= WordBytes
MemberWithin(base, name) ==    \* base.name
    LET m == base.type[1].members[name]
        within(p) ==
            CASE p.kind = "address" -> At(Wrap(p.at + m.offset))
              [] p.kind = "word" -> IF WithinWord(m) THEN InRegister(p.at \div 2 ^ (ByteBits * m.offset)) ELSE Absent
              [] OTHER -> p
    IN  IF base.spot = << >> \/ ~MemberOf(base.type[1], name) THEN Refused
        ELSE Located(m.type, [e \in Envs |-> within(base.spot[1][e])], m.bits)

Member(base, name, arrow) ==
    IF base.type = << >> THEN Untyped(base)
    ELSE IF arrow THEN MemberThrough(base, name) ELSE MemberWithin(base, name)

Times(eval, step) == [e \in Envs |-> IF eval[e] = Failed THEN Failed ELSE Wrap(eval[e] * step)]

Subscript(base, index) ==
    LET elem == ElementOf(base.type)
    IN  CASE base.type = << >> -> Untyped(base)
          [] base.type # << >> /\ (elem = << >> \/ (elem # << >> /\ elem[1].size = 0)) -> Refused
          [] OTHER ->
                IF base.type[1].kind = "array" /\ index.literal # Failed /\ index.literal >= base.type[1].count
                THEN Refused
                ELSE Located(elem[1], Shifted(base.eval, Times(index.eval, elem[1].size)), << >>)

Dereference(x) ==
    LET elem == ElementOf(x.type)
    IN  IF x.type = << >> THEN Untyped(x)
        ELSE IF elem = << >> THEN Refused
        ELSE IF elem[1].kind = "void" THEN Refused
        ELSE Located(elem[1], Shifted(x.eval, Constantly(0)), << >>)

AddressOf(x) ==
    IF x.storage = << >> \/ x.bits # << >> THEN Refused
    ELSE Node(x.storage[1], FALSE, <<IF x.type = << >> THEN VoidPointer ELSE PointerTo(x.type[1])>>)

CastToPointer(x, t) == Node(x.eval, FALSE, <<PointerTo(t)>>)
CastTo(x, t) ==
    LET at(e) ==
            CASE x.literal # Failed -> At(x.literal)
              [] x.literal = Failed /\ x.storage # << >> ->
                    IF x.storage[1][e] = Failed THEN Throws ELSE At(x.storage[1][e])
              [] OTHER ->
                    IF x.eval[e] = Failed THEN Throws
                    ELSE IF Read(e, x.eval[e], 1) = Failed THEN Throws ELSE At(x.eval[e])
    IN  Located(t, [e \in Envs |-> at(e)], << >>)

ReadOf(x, size, signed) ==     \* [x], {x}, u8(x), s16(x), ...
    InC(Computed([e \in Envs |-> IF x.eval[e] = Failed THEN Failed ELSE ReadWord(e, x.eval[e], size, signed)],
                 signed), signed \/ size < WordBytes)

(* ------------------------------ operators ------------------------------ *)

Unary(op, x) ==
    LET f(v) == CASE op = "-" -> Wrap(-v) [] op = "!" -> (IF v = 0 THEN 1 ELSE 0) [] op = "~" -> Modulus - 1 - v
    IN  InC(Computed([e \in Envs |-> IF x.eval[e] = Failed THEN Failed ELSE f(x.eval[e])], op = "-"),
            op = "!" \/ x.int)

Trunc(a, b) ==                 \* Math.trunc(a / b)
    LET q == (IF a < 0 THEN -a ELSE a) \div (IF b < 0 THEN -b ELSE b)
    IN  IF (a < 0) = (b < 0) THEN q ELSE -q
Truth(p) == IF p THEN 1 ELSE 0

Arithmetic(op, a, b, signed) ==
    LET x == IF signed THEN Signed(a, WordBits) ELSE a
        y == IF signed THEN Signed(b, WordBits) ELSE b
    IN  CASE op = "+" -> Wrap(a + b)
          [] op = "-" -> Wrap(a - b)
          [] op = "*" -> Wrap(a * b)
          [] op = "/" -> IF y = 0 THEN 0 ELSE Wrap(Trunc(x, y))
          [] op = "%" -> IF y = 0 THEN 0 ELSE Wrap(x - y * Trunc(x, y))
          [] op = "<" -> Truth(x < y)
          [] op = "<=" -> Truth(x <= y)
          [] op = "==" -> Truth(a = b)
          [] op = "<<" -> IF b >= WordBits THEN 0 ELSE Wrap(a * 2 ^ b)
          [] op = ">>" -> IF b >= WordBits THEN 0 ELSE a \div 2 ^ b

Yielding == {"+", "-", "*", "/", "%"}       \* the operators whose result keeps its sign
Comparing == {"<", "<=", "=="}
Shifting == {"<<", ">>"}
BinaryOps == Yielding \cup Comparing \cup Shifting

\* Both operands are evaluated, unless the first one settles a logical one.
Both(l, r, f(_, _)) ==
    [e \in Envs |-> IF l.eval[e] = Failed \/ r.eval[e] = Failed THEN Failed ELSE f(l.eval[e], r.eval[e])]

\* Mutant: one signed operand is enough.
EitherSigned(l, r) == l.signed \/ r.signed
BothSigned(l, r) == l.signed /\ r.signed

\* C's pointer arithmetic.  Taken only where one side is a pointer or array.
\* Mutant: every step is a byte.
StepOfByte(t) == 1
StepOf(t) == IF t.size = 0 THEN 1 ELSE t.size
Scale(op, l, r) ==
    LET le == ElementOf(l.type)
        re == ElementOf(r.type)
        step == StepOf((IF le # << >> THEN le ELSE re)[1])
        pointer == IF le # << >> THEN l ELSE r
        count == IF le # << >> THEN r ELSE l
        stepped(p, n) == IF op = "+" THEN Wrap(p + n * step) ELSE Wrap(p - n * step)
        apart(p, q) == Wrap(Trunc(Signed(Wrap(p - q), WordBits), step))
        code == \E t \in {le, re} : t # << >> /\ t[1].kind = "function"
    IN  CASE code -> Refused
          [] ~code /\ le # << >> /\ re # << >> ->
                IF op = "+" \/ ~SameType(le[1], re[1]) THEN Refused
                ELSE Node(Both(l, r, apart), TRUE, <<PtrDiff>>)
          [] OTHER ->
                IF re # << >> /\ op = "-" THEN Refused
                ELSE Node(Both(pointer, count, stepped), FALSE, <<PointerTo((IF le # << >> THEN le ELSE re)[1])>>)

Apply(op, l, r) ==
    LET signed == BothSigned(l, r)
        f(a, b) == Arithmetic(op, a, b, signed)
    IN  IF op \in {"+", "-"} /\ (ElementOf(l.type) # << >> \/ ElementOf(r.type) # << >>)
        THEN Scale(op, l, r)
        ELSE InC(Computed(Both(l, r, f), op \in Yielding /\ signed),
                 op \in Comparing \/ (l.int /\ (op \in Shifting \/ r.int)))

Logical(op, l, r) ==           \* && and ||: the second is asked only if the first leaves it open
    InC(Computed([e \in Envs |->
                     CASE l.eval[e] = Failed -> Failed
                       [] l.eval[e] # Failed /\ ((l.eval[e] # 0) = (op = "||")) -> Truth(op = "||")
                       [] OTHER -> IF r.eval[e] = Failed THEN Failed ELSE Truth(r.eval[e] # 0)], FALSE), TRUE)

Conditional(c, a, b) ==
    InC(Node([e \in Envs |-> IF c.eval[e] = Failed THEN Failed ELSE IF c.eval[e] # 0 THEN a.eval[e] ELSE b.eval[e]],
             a.signed /\ b.signed,
             IF a.type # << >> /\ b.type # << >>
             THEN IF SameType(a.type[1], b.type[1]) THEN a.type ELSE << >>
             ELSE << >>),
        a.int /\ b.int)

(* ------------------------------ the parser ----------------------------- *)

Init == nodes = << >> /\ phase = "compiling" /\ reduced = 0

Reduce(n, node) ==             \* the last n nodes become `node`, or the line is refused
    /\ phase = "compiling" /\ reduced < MaxReductions
    /\ reduced' = reduced + 1
    /\ IF node = Refused
       THEN nodes' = << >> /\ phase' = "refused"
       ELSE nodes' = Append(SubSeq(nodes, 1, Len(nodes) - n), node) /\ UNCHANGED phase

Top(k) == nodes[Len(nodes) - k]
Has(n) == Len(nodes) >= n

MaxOperands == 2               \* bound: a third operand is only a conditional's
Number(v) == Len(nodes) < MaxOperands /\ Reduce(0, [Computed(Constantly(v), TRUE) EXCEPT !.literal = v])
Register == Len(nodes) < MaxOperands /\ Reduce(0, Computed([e \in Envs |-> e.reg], FALSE))
Name(name) == Len(nodes) < MaxOperands /\ Reduce(0, RootOf(name))
ReadAt(size, signed) == Has(1) /\ Reduce(1, ReadOf(Top(0), size, signed))
Prefix(op) == Has(1) /\ Reduce(1, Unary(op, Top(0)))
Star == Has(1) /\ Reduce(1, Dereference(Top(0)))
Ampersand == Has(1) /\ Reduce(1, AddressOf(Top(0)))
Cast(t, star) == Has(1) /\ Reduce(1, IF star THEN CastToPointer(Top(0), t) ELSE CastTo(Top(0), t))
Dot(name, arrow) == Has(1) /\ Reduce(1, Member(Top(0), name, arrow))
Brackets == Has(2) /\ Reduce(2, Subscript(Top(1), Top(0)))
Infix(op) == Has(2) /\ Reduce(2, Apply(op, Top(1), Top(0)))
Junction(op) == Has(2) /\ Reduce(2, Logical(op, Top(1), Top(0)))
Question == Has(2) /\ \E name \in Roots : Reduce(2, Conditional(RootOf(name), Top(1), Top(0)))

MemberNames == UNION {DOMAIN t.members : t \in {u \in CastTypes : u.kind = "struct"}}

Next ==
    \/ \E v \in Literals : Number(v)
    \/ Register
    \/ \E name \in Roots : Name(name)
    \/ \E size \in 1 .. WordBytes, signed \in BOOLEAN : ReadAt(size, signed)
    \/ \E op \in {"-", "!", "~"} : Prefix(op)
    \/ Star
    \/ Ampersand
    \/ \E t \in CastTypes, star \in BOOLEAN : Cast(t, star)
    \/ \E name \in MemberNames, arrow \in BOOLEAN : Dot(name, arrow)
    \/ Brackets
    \/ \E op \in BinaryOps : Infix(op)
    \/ \E op \in {"&&", "||"} : Junction(op)
    \/ Question

Spec == Init /\ [][Next]_vars

(* ------------------------------ properties ----------------------------- *)

\* What a reader is shown: `node.signed ? f | 0 : f`.
Shown(node, e) == IF node.signed THEN Signed(node.eval[e], WordBits) ELSE node.eval[e]
Works(node, e) == node # Refused /\ node.eval[e] # Failed

\* What C converts two numbers to: ints when both are, after promotion, and words of
\* no sign otherwise.
ConvertedInC(node, int, e) == IF int THEN Signed(node.eval[e], WordBits) ELSE node.eval[e]
SumInC(op, l, r, e) ==
    LET int == l.int /\ r.int
        x == ConvertedInC(l, int, e)
        y == ConvertedInC(r, int, e)
        exact == CASE op = "+" -> x + y [] op = "-" -> x - y [] op = "*" -> x * y
    IN  IF int THEN exact ELSE Wrap(exact)
DefinedInC(n, l, r) ==         \* an overflow of ints is not
    ~(l.int /\ r.int) \/ (-(2 ^ (WordBits - 1)) <= n /\ n < 2 ^ (WordBits - 1))
OrderedInC(l, r, e) ==         \* l < r
    LET int == l.int /\ r.int
    IN  ConvertedInC(l, int, e) < ConvertedInC(r, int, e)
Plain(node) == ElementOf(node.type) = << >>

\* The code takes the pair to be signed when C does.  It does not promote: to it a
\* u8, a u16 and a bit field of no sign (269-280, 430), what a comparison or a logical
\* operator yields (1049-1059), and a narrow read have no sign, and a unary minus
\* always has one; so for a `u8 hp = 3` and an `int n = -1` it finds `hp < n`, which C
\* does not.
ConvertsAsC(l, r) == (l.signed /\ r.signed) = (l.int /\ r.int)

\* An operation on two numbers answers what C answers: the sum, the difference and
\* the product to the bit, whatever the operands are; as numbers, exactly for two
\* ints and modulo the word for any others, and so the order of the two, only when
\* the code converts the pair as C does.  expression.ts:17-23 has it without that
\* proviso ("Signedness follows C's usual arithmetic conversions [...] exactly as in
\* the program"), and so has units.spec.ts:170 ("signedness follows C").
ArithmeticAsInC ==
    Len(nodes) = 2 /\ Plain(Top(0)) /\ Plain(Top(1)) =>
        \A e \in Envs : Works(Top(0), e) /\ Works(Top(1), e) =>
            /\ \A op \in {"+", "-", "*"} :
                 LET n == SumInC(op, Top(1), Top(0), e)
                     got == Apply(op, Top(1), Top(0))
                 IN  DefinedInC(n, Top(1), Top(0)) =>
                        /\ got.eval[e] = Wrap(n)
                        /\ ConvertsAsC(Top(1), Top(0)) => Shown(got, e) = n
            /\ ConvertsAsC(Top(1), Top(0)) =>
                 /\ (Apply("<", Top(1), Top(0)).eval[e] = 1) = OrderedInC(Top(1), Top(0), e)
                 /\ (Apply("<=", Top(1), Top(0)).eval[e] = 0) = OrderedInC(Top(0), Top(1), e)

StepInC(t) == IF t.kind = "void" THEN 1 ELSE t.size

\* Two expressions that both have a value have the same one, and are of one type.
Agree(x, y) ==
    x # Refused /\ y # Refused =>
        /\ x.type = y.type
        /\ \A e \in Envs : Works(x, e) /\ Works(y, e) => x.eval[e] = y.eval[e]

\* Indexing is pointer arithmetic: *(e + i) is e[i], *&x is x, and the distance
\* from e to e + i is i (the header's "`*(e + 1)` is `e[1]`"; scale, subscript,
\* dereference and addressOf).
IndexingIsPointing ==
    /\ \A k \in 1 .. Len(nodes) :
          LET to == AddressOf(nodes[k])
          IN  to # Refused => Agree(Dereference(to), nodes[k])
    /\ Len(nodes) = 2 /\ Plain(Top(0)) =>
          LET along == Apply("+", Top(1), Top(0))
              length == IF along = Refused THEN Refused ELSE Apply("-", along, Top(1))
          IN  ~Plain(Top(1)) /\ along # Refused =>
                /\ Agree(Dereference(along), Subscript(Top(1), Top(0)))
                /\ length # Refused => \A e \in Envs :
                     LET bytes == Signed(Top(0).eval[e], WordBits) * StepInC(Top(1).type[1].target[1])
                     IN  Works(length, e) /\ -(2 ^ (WordBits - 1)) <= bytes /\ bytes < 2 ^ (WordBits - 1)
                           => Shown(length, e) = Signed(Top(0).eval[e], WordBits)

\* A value the compiler keeps in a register is read as it is read in memory, or
\* not read at all: never as another value (locatedNode, member, maskWord).
RegisterHoldsTheSame ==
    \A k \in 1 .. Len(nodes), twins \in Twins :
        Works(nodes[k], twins[1]) => nodes[k].eval[twins[1]] = nodes[k].eval[twins[2]]

\* A number of a type is shown within its type: a u8 is never shown as 300 nor an
\* s8 as 255, whatever the expression that reads it did.
ShownWithinType ==
    \A k \in 1 .. Len(nodes), e \in Envs :
        LET n == nodes[k]
            width == ByteBits * ScalarWidth(n.type[1])
        IN  n.type # << >> /\ Works(n, e) =>
                CASE n.type[1].kind = "int" ->
                        -(2 ^ (width - 1)) <= Shown(n, e) /\ Shown(n, e) < 2 ^ (width - 1)
                  [] n.type[1].kind \in {"uint", "pointer"} -> Shown(n, e) \in 0 .. 2 ^ width - 1
                  [] OTHER -> TRUE

=============================================================================
