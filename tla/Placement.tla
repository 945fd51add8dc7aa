------------------------------ MODULE Placement ------------------------------
(* What the program says holds an address: the entries of `.debug_info` read   *)
(* twice over, once by TypeIndex (debug-info/types.ts: the scripts' and the    *)
(* expressions' member paths) and once by TypeResolver (dwarf/values.ts: the   *)
(* tree of values), the symbols with the extents they state or leave to the    *)
(* next symbol (symbols.ts), and placement.ts, which walks a type down to an   *)
(* address and gives back the path that names it, or the pointer the captures  *)
(* agree is aimed there. An entry is its offset, a text is never spelt out.    *)
EXTENDS Integers, Sequences, FiniteSets, SequencesExt, FiniteSetsExt, TLC

CONSTANTS
    Programs,    \* [entries, variables, symbols, cells]: what the ELF holds
    Targets,     \* what a pointer of the program may hold; 0 is null
    Addresses,   \* where a memory diff asks
    RegionSize,  \* addresses of one memory
    MaxAsks,     \* bound: descriptions and placements asked for
    MaxCaptures  \* bound: captures of the memory

VARIABLES
    program,     \* the program, chosen once
    pointers,    \* what each cell of the program that is a pointer holds
    captures,    \* the pointers as each capture found them
    described,   \* TypeResolver.#cache: a description to each entry asked for
    asked,       \* bound: how much was asked
    placed       \* the last answer of placementAt, with what it was asked
vars == <<program, pointers, captures, described, asked, placed>>

Absent == -9                  \* an attribute the entry does not carry
Die(e) == program.entries[e]
DieName(e) == Die(e).name
Nothing == [tier |-> "none"]

-----------------------------------------------------------------------------
(* TypeIndex *)

IsQualifierOrTypedef(tag) == tag \in {"typedef", "const", "volatile", "restrict", "atomic"}

\* The entry under the typedefs and the qualifiers, 0 where there is none.
RECURSIVE StripTypedefsFrom(_, _)
StripTypedefsFrom(e, seen) ==
    IF e = 0 \/ e \in seen THEN e
    ELSE IF IsQualifierOrTypedef(Die(e).tag) THEN StripTypedefsFrom(Die(e).type, seen \union {e})
    ELSE e
StripTypedefs(e) == StripTypedefsFrom(e, {})

IsStruct(e) == e # 0 /\ Die(e).tag \in {"struct", "union"}

\* A declaration of a struct stands for the definition of its name.
ResolveStructByName(name) ==
    LET known == {e \in DOMAIN program.entries : IsStruct(e) /\ DieName(e) = name}
        defined == {e \in known : ~Die(e).declaration}
    IN IF known = {} THEN 0 ELSE Min(IF defined = {} THEN known ELSE defined)

ResolveStructType(ref) ==
    LET e == StripTypedefs(ref)
    IN CASE ~IsStruct(e) -> 0
         [] Die(e).declaration -> ResolveStructByName(DieName(e))
         [] OTHER -> e

\* The extents of an array, outermost first; Absent where one is not stated.
ArrayDims(e) ==
    [d \in DOMAIN Die(e).dims |->
        LET dim == Die(e).dims[d]
            n == CASE dim.count # Absent -> dim.count
                   [] dim.upper # Absent -> dim.upper + 1
                   [] OTHER -> Absent
        IN IF n <= 0 THEN Absent ELSE n]

DeclaredDims(declaration, e) ==
    LET dims == ArrayDims(e)
    IN IF declaration /\ dims # <<>> /\ dims[1] = 1 THEN [dims EXCEPT ![1] = Absent] ELSE dims

RECURSIVE Product(_)
Product(s) == IF s = <<>> THEN 1 ELSE Head(s) * Product(Tail(s))

\* The bytes of a type, Absent where the program does not say.
RECURSIVE TypeRefSize(_)
TypeRefSize(ref) ==
    LET Whole(elem, dims) ==
            IF elem = Absent \/ dims = <<>> \/ \E d \in DOMAIN dims : dims[d] = Absent
            THEN Absent ELSE elem * Product(dims)
        Of(e) ==
            CASE e = 0 -> Absent
              [] Die(e).tag = "array" -> Whole(TypeRefSize(Die(e).type), ArrayDims(e))
              [] Die(e).tag = "pointer" /\ Die(e).size = Absent -> 4
              [] OTHER -> Die(e).size
    IN Of(StripTypedefs(ref))

\* Mutant: the producers' older count, from the top, taken as it is.
BitfieldAbsBitOffsetFromTop(m) ==
    IF m.dataBit # Absent THEN m.dataBit ELSE m.at * 8 + m.fromTop
\* A bit field from the first bit of its struct, whichever of the two ways the
\* producer wrote it.
BitfieldAbsBitOffset(m) ==
    IF m.dataBit # Absent THEN m.dataBit
    ELSE LET storage == IF m.storage # Absent THEN m.storage
                        ELSE Max({0, TypeRefSize(m.type)})
         IN m.at * 8 + (storage * 8 - m.fromTop - m.bits)

\* Where a member is read: its bytes, and for a bit field the bits in them.
MemberLayout(m) ==
    IF m.bits = 0 THEN [offset |-> m.at, size |-> TypeRefSize(m.type), shift |-> 0, width |-> 0]
    ELSE LET bit == BitfieldAbsBitOffset(m)
         IN [offset |-> bit \div 8, size |-> ((bit % 8) + m.bits + 7) \div 8,
             shift |-> bit % 8, width |-> m.bits]

NoMember == [found |-> FALSE]

\* A member by name, through the members that have none.
RECURSIVE FindMember(_, _)
FindMember(struct, name) ==
    LET members == Die(struct).members
        Of(i) == IF members[i].name = name
                 THEN [found |-> TRUE, member |-> members[i], base |-> 0]
                 ELSE LET inner == ResolveStructType(members[i].type)
                          deeper == IF members[i].name # "" \/ inner = 0 THEN NoMember
                                    ELSE FindMember(inner, name)
                      IN IF deeper.found
                         THEN [deeper EXCEPT !.base = @ + members[i].at] ELSE NoMember
        hits == {i \in DOMAIN members : Of(i).found}
    IN IF hits = {} THEN NoMember ELSE Of(Min(hits))

Refused == [ok |-> FALSE]

\* The bytes from one subscript to the next, Absent where a row is of no known length.
Strides(dims, elem) ==
    [d \in DOMAIN dims |->
        LET inner == SubSeq(dims, d + 1, Len(dims))
        IN IF elem = Absent \/ \E i \in DOMAIN inner : inner[i] = Absent
           THEN Absent ELSE elem * Product(inner)]
RECURSIVE Along(_, _)
Along(indices, stride) ==
    IF indices = <<>> THEN 0 ELSE Head(indices) * Head(stride) + Along(Tail(indices), Tail(stride))
\* The bytes from an array to the element its subscripts name; refused past an
\* extent the program states, and where a row's length is not known.
Subscripted(e, indices, dims, elem, stride) ==
    IF \/ Len(indices) > Len(dims)
       \/ \E d \in DOMAIN indices : stride[d] = Absent \/ (dims[d] # Absent /\ indices[d] >= dims[d])
    THEN Refused
    ELSE [ok |-> TRUE, type |-> Die(e).type,
          offset |-> Along(indices, stride),
          size |-> IF Len(indices) = Len(dims) THEN elem ELSE Absent]
Subscript(ref, indices, declaration) ==
    LET By(e, dims, elem) == Subscripted(e, indices, dims, elem, Strides(dims, elem))
        Of(e) == IF e = 0 \/ Die(e).tag # "array" THEN Refused
                 ELSE By(e, DeclaredDims(declaration, e), TypeRefSize(Die(e).type))
    IN Of(StripTypedefs(ref))

\* The place a member path ends at, from the start of `struct`.
RECURSIVE MemberPath(_, _)
PathOn(found, step, path) ==
    LET member == found.member
        last == Len(path) = 1
        Deeper(type, by) ==
            LET rest == MemberPath(ResolveStructType(type), Tail(path))
            IN IF rest.ok THEN [rest EXCEPT !.offset = @ + by] ELSE Refused
    IN CASE ~found.found -> Refused
         [] Head(path).indices # <<>> ->
                IF ~step.ok THEN Refused
                ELSE IF last THEN [ok |-> TRUE, offset |-> found.base + member.at + step.offset,
                                   size |-> step.size, shift |-> 0, width |-> 0]
                ELSE Deeper(step.type, found.base + member.at + step.offset)
         [] last -> LET layout == MemberLayout(member)
                    IN [ok |-> TRUE, offset |-> found.base + layout.offset, size |-> layout.size,
                        shift |-> layout.shift, width |-> layout.width]
         [] OTHER -> Deeper(member.type, found.base + member.at)
MemberPath(struct, path) ==
    LET By(found) == PathOn(found, Subscript(found.member.type, Head(path).indices, FALSE), path)
    IN By(IF struct = 0 THEN NoMember ELSE FindMember(struct, Head(path).name))

\* TypeIndex.#variableByName: a definition before a declaration.
VariableByName(name) ==
    LET of == {v \in DOMAIN program.variables : program.variables[v].name = name}
        defined == {v \in of : ~program.variables[v].declaration}
    IN IF of = {} THEN Absent ELSE Min(IF defined = {} THEN of ELSE defined)

-----------------------------------------------------------------------------
(* SymbolIndex *)

Symbol(s) == program.symbols[s]
SymbolsOf(name) == {s \in DOMAIN program.symbols : Symbol(s).name = name}

\* The symbol a name stands for: the first, but a typed one before a label.
SymbolByName(name) ==
    LET of == SymbolsOf(name)
        typed == {s \in of : Symbol(s).kind # "notype"}
    IN IF of = {} THEN Absent
       ELSE IF Symbol(Min(of)).kind = "notype" /\ typed # {} THEN Min(typed) ELSE Min(of)

\* One symbol to an address: a typed one before a label, the larger of two.
Prefer(s, t) ==
    IF (Symbol(s).kind = "notype") # (Symbol(t).kind = "notype") THEN Symbol(t).kind = "notype"
    ELSE Symbol(s).size > Symbol(t).size
Chosen ==
    {s \in DOMAIN program.symbols :
        ~\E t \in DOMAIN program.symbols :
            /\ Symbol(t).address = Symbol(s).address
            /\ t # s
            /\ Prefer(t, s) \/ (~Prefer(s, t) /\ t < s)}

EndOf(s) ==
    LET after == {Symbol(t).address : t \in {u \in Chosen : Symbol(u).address > Symbol(s).address}}
    IN CASE Symbol(s).size > 0 -> Symbol(s).address + Symbol(s).size
         [] after # {} -> Min(after)
         [] OTHER -> (Symbol(s).address \div RegionSize + 1) * RegionSize

\* addressToSymbol: the nearest symbol at or below, where it reaches this far.
AddressToSymbol(address) ==
    LET below == {s \in Chosen : Symbol(s).address <= address}
        near == CHOOSE s \in below : \A t \in below : Symbol(t).address <= Symbol(s).address
    IN IF below = {} \/ address >= EndOf(near) THEN Absent ELSE near

RegionKey(address) == address \div RegionSize

-----------------------------------------------------------------------------
(* TypeResolver: a description is known by the entry it belongs to and, for an *)
(* array, by its dimension; `h` is the cache.                                  *)

Slot(e) == <<e, 1>>
Anon == "<anon>"              \* `<anon …>`, the name given to a member without one
Unknown == [kind |-> "unknown", size |-> 0, target |-> <<0, 1>>, count |-> 0, members |-> <<>>]
Void == [Unknown EXCEPT !.kind = "void"]

\* Dimensions as the resolver reads them: a count of none may be stated.
ResolverDims(e) ==
    LET dims == Die(e).dims
        Of(d) == CASE dims[d].count # Absent -> dims[d].count
                   [] dims[d].upper = Absent \/ dims[d].upper < 0 -> Absent
                   [] OTHER -> dims[d].upper + 1
    IN IF dims = <<>> THEN <<Absent>> ELSE [d \in DOMAIN dims |-> Of(d)]

MemberDesc(h, m) ==
    LET mtype == h[Slot(m.type)]
        storage == IF m.storage # Absent THEN m.storage ELSE mtype.size
    IN [name |-> IF m.name = "" THEN Anon ELSE m.name,
        offset |-> m.at, type |-> Slot(m.type), bits |-> m.bits,
        bit |-> CASE m.bits = 0 -> Absent
                  [] m.dataBit # Absent -> m.dataBit
                  [] OTHER -> m.at * 8 + (storage * 8 - m.fromTop - m.bits)]

\* describe: the slot is reserved before the entry is read, so a struct that
\* points at itself ends; what is copied out of it until then is unknown.
RECURSIVE Describe(_, _)
Describe(h, e) ==
    IF Slot(e) \in DOMAIN h THEN h
    ELSE LET entry == Die(e)
             reserved == (Slot(e) :> Unknown) @@ h
             under == Describe(reserved, entry.type)
             through == FoldLeft(LAMBDA acc, m : Describe(acc, m.type), reserved, entry.members)
             membersOf == [i \in DOMAIN entry.members |->
                              MemberDesc(FoldLeft(LAMBDA acc, m : Describe(acc, m.type), reserved,
                                                  SubSeq(entry.members, 1, i)), entry.members[i])]
             dims == ResolverDims(e)
             SizeFrom(d) == LET inner == SubSeq(dims, d, Len(dims))
                            IN IF dims[d] = Absent \/ \E i \in DOMAIN inner : inner[i] = Absent
                               THEN 0 ELSE Product(inner) * under[Slot(entry.type)].size
             sized == IF entry.size = Absent THEN 0 ELSE entry.size
         IN CASE entry.tag = "base" ->
                    [reserved EXCEPT ![Slot(e)] = [Unknown EXCEPT !.kind = "int", !.size = sized]]
              [] entry.tag \in {"typedef", "const", "volatile", "restrict"} ->
                    [under EXCEPT ![Slot(e)] = under[Slot(entry.type)]]
              [] entry.tag = "pointer" ->
                    [under EXCEPT ![Slot(e)] =
                        [Unknown EXCEPT !.kind = "pointer", !.size = IF sized = 0 THEN 4 ELSE sized,
                                        !.target = Slot(entry.type)]]
              [] entry.tag \in {"struct", "union"} ->
                    [through EXCEPT ![Slot(e)] =
                        [Unknown EXCEPT !.kind = entry.tag, !.size = sized, !.members = membersOf]]
              [] entry.tag = "array" ->
                    [s \in {<<e, d>> : d \in DOMAIN dims} |->
                        [Unknown EXCEPT !.kind = "array", !.size = SizeFrom(s[2]), !.count = dims[s[2]],
                                        !.target = IF s[2] = Len(dims) THEN Slot(entry.type)
                                                   ELSE <<e, s[2] + 1>>]] @@ under
              [] OTHER -> [reserved EXCEPT ![Slot(e)] = [Unknown EXCEPT !.size = sized]]

Fresh == Slot(0) :> Void

\* The type of a variable as it is declared: the bound of one that the older
\* compiler writes for an array of no stated length is no bound.
DescribeDeclared(h, v) ==
    LET variable == program.variables[v]
        type == h[Slot(variable.type)]
        outer == Die(StripTypedefs(variable.type)).dims[1]
    IN IF /\ variable.declaration /\ type.kind = "array" /\ type.count = 1
          /\ outer.count = Absent /\ outer.upper = 0
       THEN [type EXCEPT !.size = 0, !.count = Absent] ELSE type

\* globalByName ?? declarationByName
GlobalByName(name) ==
    LET of == {v \in DOMAIN program.variables : program.variables[v].name = name}
        defined == {v \in of : ~program.variables[v].declaration}
    IN IF of = {} THEN Absent ELSE Min(IF defined = {} THEN of ELSE defined)

-----------------------------------------------------------------------------
(* pathTo and placementAt *)

\* Mutant: a bit field taken to fill the whole of its storage.
ExtentOfStorage(h, m) == [lo |-> m.offset, hi |-> m.offset + Max({1, h[m.type].size})]
\* The bytes a member occupies: those its bits fall in, for a bit field.
ExtentOf(h, m) ==
    IF m.bits # 0
    THEN [lo |-> m.bit \div 8, hi |-> m.bit \div 8 + ((m.bit % 8) + m.bits + 7) \div 8]
    ELSE [lo |-> m.offset, hi |-> m.offset + Max({1, h[m.type].size})]

\* A step of a path; `[i]` joins the name before it.
Named(path, name) == Append(path, [name |-> name, indices |-> <<>>])
Indexed(path, i) == [path EXCEPT ![Len(path)].indices = Append(@, i)]

RECURSIVE WalkFrom(_, _, _, _, _)
WalkFrom(h, leaf, off, path, extrapolated) ==
    LET stop == [path |-> path, leaf |-> leaf, remainder |-> off, member |-> FALSE,
                 extrapolated |-> extrapolated]
        stride == Max({1, h[leaf.target].size})
        index == off \div stride
        covering == {i \in DOMAIN leaf.members :
                        LET at == ExtentOf(h, leaf.members[i]) IN at.lo <= off /\ off < at.hi}
        Width(i) == LET at == ExtentOf(h, leaf.members[i]) IN at.hi - at.lo
        pick == IF leaf.kind = "union" THEN Min(covering)
                ELSE Min({i \in covering : \A j \in covering : Width(i) <= Width(j)})
        m == leaf.members[pick]
    IN CASE leaf.kind = "array" ->
                IF leaf.count # Absent /\ index >= leaf.count THEN [stop EXCEPT !.extrapolated = TRUE]
                ELSE WalkFrom(h, h[leaf.target], off - index * stride, Indexed(path, index),
                              extrapolated \/ leaf.count = Absent)
         [] leaf.kind \in {"struct", "union"} /\ covering # {} ->
                IF m.bits # 0
                THEN [stop EXCEPT !.path = Named(path, m.name), !.member = TRUE]
                ELSE WalkFrom(h, h[m.type], off - m.offset, Named(path, m.name), extrapolated)
         [] OTHER -> stop

PathTo(h, type, name, off) == WalkFrom(h, type, off, <<[name |-> name, indices |-> <<>>]>>, FALSE)

\* pointersIn: every pointer a type holds, with its place and its pointee.
MaxPointerDepth == 3
RECURSIVE PointersIn(_, _, _, _, _)
PointersIn(h, type, path, address, depth) ==
    CASE type.kind = "pointer" ->
            IF h[type.target].size > 0
            THEN {[path |-> path, address |-> address, pointee |-> h[type.target]]} ELSE {}
      [] depth >= MaxPointerDepth -> {}
      [] type.kind \in {"struct", "union"} ->
            UNION {LET m == type.members[i]
                   IN IF m.bits # 0 THEN {}
                      ELSE PointersIn(h, h[m.type], Named(path, m.name), address + m.offset, depth + 1)
                     : i \in DOMAIN type.members}
      [] type.kind = "array" /\ h[type.target].size > 0 /\ type.count > 0 ->
            UNION {PointersIn(h, h[type.target], Indexed(path, i),
                              address + i * h[type.target].size, depth + 1) : i \in 0..(type.count - 1)}
      [] OTHER -> {}

Names == {Symbol(s).name : s \in DOMAIN program.symbols}
RootPath(name) == <<[name |-> name, indices |-> <<>>]>>

\* declaredType: the description of a global's type, describing it if need be.
Declared(h, name) ==
    LET v == GlobalByName(name)
    IN IF v = Absent THEN [h |-> h, known |-> FALSE]
       ELSE LET grown == Describe(h, program.variables[v].type)
            IN [h |-> grown, known |-> TRUE, type |-> DescribeDeclared(grown, v)]

\* Every type the index of pointers describes, in the order of the symbols.
DescribeAll(h) == FoldLeft(LAMBDA acc, s : Declared(acc, s.name).h, h, program.symbols)

\* PointerIndex: the pointers every capture agrees on.
Aims(h) ==
    LET held == UNION {LET d == Declared(h, n)
                           s == SymbolByName(n)
                       IN IF ~d.known \/ Symbol(s).kind = "func" THEN {}
                          ELSE PointersIn(h, d.type, RootPath(n), Symbol(s).address, 0) : n \in Names}
        Held(c, a) == IF a \in DOMAIN captures[c] THEN captures[c][a] ELSE 0
    IN IF captures = <<>> THEN {}
       ELSE {[path |-> p.path, base |-> Held(1, p.address), pointee |-> p.pointee] :
                p \in {q \in held : /\ Held(1, q.address) # 0
                                    /\ \A c \in DOMAIN captures : Held(c, q.address) = Held(1, q.address)}}

ThroughPointer(h, address) ==
    LET aims == {a \in Aims(h) : a.base <= address /\ address < a.base + a.pointee.size}
        Answer(aim, walk) ==
            [tier |-> "through", through |-> aim.path, aimed |-> aim.base, path |-> walk.path,
             base |-> address - walk.remainder, bitfield |-> walk.member, size |-> walk.leaf.size,
             extrapolated |-> walk.extrapolated]
        By(aim) == Answer(aim, PathTo(h, aim.pointee, "*", address - aim.base))
    IN IF aims = {} THEN Nothing
       ELSE By(CHOOSE a \in aims : \A b \in aims :
                   a.base > b.base \/ (a.base = b.base /\ a.pointee.size <= b.pointee.size))

\* placementAt: an extent the program states, then a pointer, then a landmark.
PlacedIn(address, near, through, d, walk) ==
    LET symbol == Symbol(near)
        Else(answer) == IF through = Nothing THEN answer ELSE through
        offset == address - symbol.address
        stSize == Symbol(SymbolByName(symbol.name)).size
        exact == symbol.size > 0
        declared == (stSize > 0 /\ offset < stSize) \/ (d.type.size > 0 /\ offset < d.type.size)
        sized == exact \/ (declared /\ ~walk.extrapolated)
        Bare(tier) == [tier |-> tier, symbol |-> near, path |-> <<>>, extrapolated |-> FALSE]
    IN IF near = Absent \/ RegionKey(symbol.address) # RegionKey(address)
       THEN Else([tier |-> "unattributed"])
       ELSE IF ~d.known THEN IF exact THEN Bare("sized") ELSE Else(Bare("inferred"))
       ELSE LET answer == [tier |-> IF sized THEN "sized" ELSE "inferred", symbol |-> near,
                           path |-> walk.path, base |-> address - walk.remainder,
                           bitfield |-> walk.member, size |-> walk.leaf.size,
                           extrapolated |-> walk.extrapolated]
            IN IF sized THEN answer ELSE Else(answer)
PlacementAt(h, address) ==
    LET By(near, through, d) ==
            PlacedIn(address, near, through, d,
                     PathTo(h, d.type, Symbol(near).name, address - Symbol(near).address))
        From(near) == By(near, ThroughPointer(h, address), Declared(h, Symbol(near).name))
    IN From(AddressToSymbol(address))

-----------------------------------------------------------------------------
Init ==
    /\ program \in Programs
    /\ pointers = [a \in program.cells |-> 0]
    /\ captures = <<>>
    /\ described = Fresh
    /\ asked = 0
    /\ placed = Nothing

\* The program aims one of its pointers somewhere else.
Aim(a, v) ==
    /\ a \in DOMAIN pointers
    /\ pointers' = [pointers EXCEPT ![a] = v]
    /\ UNCHANGED <<program, captures, described, asked, placed>>

\* Memory is captured, for a result to be read against.
Capture ==
    /\ Len(captures) < MaxCaptures
    /\ captures' = Append(captures, pointers)
    /\ placed' = Nothing
    /\ UNCHANGED <<program, pointers, described, asked>>

\* The tree of values, an enumerator or a cast has an entry described.
Ask(e) ==
    /\ asked < MaxAsks
    /\ asked' = asked + 1
    /\ described' = Describe(described, e)
    /\ UNCHANGED <<program, pointers, captures, placed>>

\* A memory diff asks what holds an address; the index of pointers is made
\* from the captures first, which describes the types of the globals.
Place(address) ==
    /\ asked < MaxAsks
    /\ asked' = asked + 1
    /\ LET h == DescribeAll(described)
       IN /\ described' = h
          /\ placed' = [address |-> address] @@ PlacementAt(h, address)
    /\ UNCHANGED <<program, pointers, captures>>

Next ==
    \/ \E a \in DOMAIN pointers, v \in Targets : Aim(a, v)
    \/ Capture
    \/ \E e \in DOMAIN program.entries : Ask(e)
    \/ \E address \in Addresses : Place(address)

Spec == Init /\ [][Next]_vars

-----------------------------------------------------------------------------
\* resolveVariable: the place a path names, from a symbol and its variable.
ResolvedIn(path, s, v, step, size) ==
    LET root == Head(path)
        variable == program.variables[v]
        array == StripTypedefs(variable.type)
        Under(struct) == MemberPath(struct, Tail(path))
        At(place, by) == IF place.ok /\ place.size # Absent
                         THEN [ok |-> TRUE, address |-> Symbol(s).address + by + place.offset,
                               size |-> place.size] ELSE Refused
        plain == IF Symbol(s).size # 0 THEN Symbol(s).size
                 ELSE IF v # Absent /\ size # Absent THEN size ELSE 4
    IN CASE s = Absent -> Refused
         [] root.indices = <<>> /\ Len(path) = 1 ->
                [ok |-> TRUE, address |-> Symbol(s).address, size |-> plain]
         [] v = Absent -> Refused
         [] root.indices = <<>> -> At(Under(ResolveStructType(variable.type)), 0)
         [] ~step.ok -> Refused
         [] Len(path) = 1 -> At(step, 0)
         [] OTHER -> At(Under(ResolveStructType(Die(array).type)), step.offset)
ResolveVariable(path) ==
    LET By(s, v) == ResolvedIn(path, s, v, Subscript(program.variables[v].type, Head(path).indices,
                                                     program.variables[v].declaration),
                            TypeRefSize(program.variables[v].type))
    IN By(SymbolByName(Head(path).name), VariableByName(Head(path).name))

Covers(place, address) ==
    place.ok /\ place.address <= address /\ address < place.address + place.size

HoldsAim(cell) ==
    /\ cell.ok
    /\ \A c \in DOMAIN captures : captures[c][cell.address] = placed.aimed
    /\ placed.aimed <= placed.base /\ placed.base <= placed.address

\* The steps of a path that an expression can spell.
Spelt(path) == SelectSeq(path, LAMBDA step : step.name # Anon)

\* A name a diff gives an address leads back to it: the path of an object, put
\* to the resolver the scripts use, names bytes that hold the address; and a
\* pointer the answer goes through is found where its own path says, holding
\* in every capture the address the answer was counted from (placement.ts
\* pathTo and pointersIn against types.ts #memberPath). It holds of the path
\* without its `<anon …>` steps alone: the code leaves them in (values.ts:166,
\* placement.ts:181 and 318), and with them no expression resolves the path,
\* though pathTo is to be "the inverse of resolving an expression"
\* (placement.ts:6). A name two objects share is left out.
NamesLeadBack ==
    CASE placed.tier = "sized" /\ ~placed.extrapolated /\ placed.path # <<>> ->
            Cardinality(SymbolsOf(Symbol(placed.symbol).name)) > 1
            \/ Covers(ResolveVariable(Spelt(placed.path)), placed.address)
      [] placed.tier = "through" ->
            HoldsAim(ResolveVariable(Spelt(placed.through)))
      [] OTHER -> TRUE

\* The entries a type leads to, its own among them where it points at itself.
RECURSIVE LeadsTo(_)
LeadsTo(found) ==
    LET next == found \union {Die(e).type : e \in found \ {0}}
                     \union UNION {{m.type : m \in Range(Die(e).members)} : e \in found \ {0}}
    IN IF next = found THEN found ELSE LeadsTo(next)
Under(e) == LeadsTo({Die(e).type} \union {m.type : m \in Range(Die(e).members)})

\* The tree of values and the paths of a script read one declaration the same:
\* a member's bytes, its bits and, unless its type leads back to the struct,
\* its size (dwarf/values.ts #build and bitfieldPlacement against types.ts
\* #memberLayout, which normalise the two dialects' bit fields on their own).
TwoReadersAgree ==
    \A e \in DOMAIN program.entries :
        IsStruct(e) /\ Slot(e) \in DOMAIN described =>
            \A i \in DOMAIN Die(e).members :
                LET m == Die(e).members[i]
                    desc == described[Slot(e)].members[i]
                    layout == MemberLayout(m)
                    extent == ExtentOf(described, desc)
                IN IF m.bits # 0
                   THEN /\ layout.offset = extent.lo /\ layout.offset + layout.size = extent.hi
                        /\ layout.shift = desc.bit % 8
                   ELSE /\ layout.offset = desc.offset
                        /\ e \in Under(m.type) \/
                             layout.size = (IF described[desc.type].size = 0 THEN Absent
                                            ELSE described[desc.type].size)

\* Violated: an entry is described the same whatever was described before it.
\* dwarf/values.ts:73 calls the resolver "memoized, cycle-safe"; a typedef
\* reached while its struct is still being read copies the empty description
\* reserved for the struct, and keeps it.
DescribedAlike ==
    \A e \in DOMAIN program.entries :
        Slot(e) \in DOMAIN described => described[Slot(e)] = Describe(Fresh, e)[Slot(e)]
=============================================================================
