------------------------------ MODULE MemoryDiff ------------------------------
(* Finding a variable by comparing captures of RAM (debug-core              *)
(* memory-diff.ts, memory-noise.ts): the captures, the query of links       *)
(* between them and the candidates it keeps, the mutes that hide some of    *)
(* them, and the result, held until something it depends on moves.  A byte  *)
(* of RAM is at <<region, offset>>.                                         *)
EXTENDS Integers, Sequences, FiniteSets, SequencesExt

CONSTANTS REGION_SIZE,   \* region -> its bytes
          RAMS,          \* the contents RAM is captured with: <<region, offset>> -> byte
          QUERIES,       \* what is asked: [edges: set of <<from, to, relation>>, values: set of <<capture, value>>]
          SIZES,         \* at which sizes
          MUTED,         \* the sets of addresses a user mutes
          IDLE_RUNS,     \* what idle frames showed: [rams: sequence, copied, stack: sets of addresses]
          NEAR,          \* how far a neighbourhood reaches (256)
          FEW,           \* the changed bytes in it that make a candidate lonely, less so, and hardly (4, 16, 64)
          DETAIL,        \* the most candidates worth placing (5000)
          CAPTURES,      \* the most captures held (20)
          STEPS          \* bound: changes of one behaviour

VARIABLES captures,   \* in the user's order: [id, ram]
          nextId,
          kept,       \* the bytes in play
          asked,
          states,     \* [count, taking] of the standing query
          size,
          pair,       \* the two captures ranking compares, or <<>>
          view,       \* the result held: <<[version, shown, hidden, rows]>>, or <<>>
          mutes,      \* [id, source, addresses, enabled]
          version, nextMute,
          last,       \* the last query asked: [query, refused, ids]
          steps
vars == <<captures, nextId, kept, asked, states, size, pair, view, mutes, version, nextMute, last, steps>>

Bytes == UNION {{<<r, o>> : o \in 0 .. REGION_SIZE[r] - 1} : r \in DOMAIN REGION_SIZE}
Span(a, n) == {<<a[1], a[2] + k>> : k \in 0 .. n - 1}
Aligned(n) == {a \in Bytes : a[2] % n = 0}

\* The candidates of a mask at a size: every byte of them is in play.
Addresses(mask, n) == {a \in Aligned(n) : Span(a, n) \subseteq mask}

ReadAt(ram, a, n) == FoldLeft(LAMBDA v, k : 256 * v + ram[a[1], a[2] + n - k], 0, [k \in 1 .. n |-> k])

Ids == {captures[i].id : i \in DOMAIN captures}
ById(id) == captures[CHOOSE i \in DOMAIN captures : captures[i].id = id]

-----------------------------------------------------------------------------
(* The query.                                                              *)
\* The captures `same` links join: each one's group.
Joined(query) ==
  LET same == {<<e[1], e[2]>> : e \in {x \in query.edges : x[3] = "same"}}
      step(groups) == {UNION {g \in groups : g \cap h # {}} : h \in groups}
      merged == {{i} : i \in Ids} \cup {{p[1], p[2]} : p \in same}
  IN  [i \in Ids |-> UNION {g \in step(step(merged)) : i \in g}]

\* The groups an increase puts above a group, over any number of links.
Above(query) ==
  LET group == Joined(query)
      up == {<<group[e[1]], group[e[2]]>> : e \in {x \in query.edges : x[3] = "increased"}}
              \cup {<<group[e[2]], group[e[1]]>> : e \in {x \in query.edges : x[3] = "decreased"}}
      longer(r) == r \cup {<<x[1][1], x[2][2]>> : x \in {y \in r \X r : y[1][2] = y[2][1]}}
  IN  longer(longer(up))

\* Mutant: links that rise and fall back are not looked for.
ImpossibleUnordered(query) ==
  \/ \E e \in query.edges : {e[1], e[2]} \ Ids # {}
  \/ \E v \in query.values : v[1] \notin Ids
  \/ \E e \in query.edges : e[3] # "same" /\ Joined(query)[e[1]] = Joined(query)[e[2]]

\* Whether the query is refused: it names no capture held, or no value can meet
\* its links (queryProblem).
Impossible(query) ==
  \/ \E e \in query.edges : {e[1], e[2]} \ Ids # {}
  \/ \E v \in query.values : v[1] \notin Ids
  \/ \E e \in query.edges : e[3] # "same" /\ Joined(query)[e[1]] = Joined(query)[e[2]]
  \/ \E p \in Above(query) : p[1] = p[2]

Named(query) == UNION {{e[1], e[2]} : e \in query.edges}
QueryStates(query) ==
  [count |-> Cardinality({Joined(query)[i] : i \in Named(query)}),
   taking |-> {i \in DOMAIN captures : captures[i].id \in Named(query)}]

Holds(relation, a, b) ==
  CASE relation = "same" -> a = b
    [] relation = "changed" -> a # b
    [] relation = "increased" -> b > a
    [] relation = "decreased" -> b < a

Scan(query, n) ==
  LET keep(a) == /\ \A v \in query.values : ReadAt(ById(v[1]).ram, a, n) = v[2] % 256 ^ n
                 /\ \A e \in query.edges : Holds(e[3], ReadAt(ById(e[1]).ram, a, n), ReadAt(ById(e[2]).ram, a, n))
  IN  UNION {Span(a, n) : a \in {x \in Aligned(n) : keep(x)}}

\* The pair ranking compares: one the query asks a difference of.
PairsOf(query) ==
  LET told == {e \in query.edges : e[3] # "same"} IN IF told = {} THEN {<<>>} ELSE {<<e[1], e[2]>> : e \in told}

-----------------------------------------------------------------------------
(* What is shown of it.                                                    *)

\* The first mute over an address is the one that hides it (muteMask).
SourceOver ==
  LET enabled == SelectSeq(mutes, LAMBDA m : m.enabled)
      first(a) == SelectInSeq(enabled, LAMBDA m : a \in m.addresses)
  IN  [a \in Bytes |-> IF first(a) = 0 THEN "none" ELSE enabled[first(a)].source]

SOURCES == {"idle", "dma", "stack", "user"}

Hide(mask, n) ==
  LET candidates == Addresses(mask, n)
      source == SourceOver
      muted(a) == {b \in Span(a, n) : source[b] # "none"}
      shown == {a \in candidates : muted(a) = {}}
      by(a) == source[CHOOSE b \in muted(a) : \A c \in muted(a) : b[2] <= c[2]]
  IN  [shown |-> UNION {Span(a, n) : a \in shown},
       hidden |-> [s \in SOURCES |-> Cardinality({a \in candidates \ shown : by(a) = s})]]

\* The captures ranking compares: the pair of the query, or the first two.
Compared == IF pair = <<>> THEN <<captures[1].ram, captures[2].ram>> ELSE <<ById(pair[1]).ram, ById(pair[2]).ram>>
Moved(region) == {o \in 0 .. REGION_SIZE[region] - 1 : Compared[1][region, o] # Compared[2][region, o]}

Score(a, values) ==
  LET moved == Moved(a[1])
      near == Cardinality({o \in moved : o >= a[2] - NEAR /\ o < a[2] + NEAR})
      run(o) == IF o \notin moved THEN 1
                ELSE Cardinality({p \in moved : \A q \in 0 .. REGION_SIZE[a[1]] - 1 : (p <= q /\ q <= o) \/ (o <= q /\ q <= p) => q \in moved})
      distinct == Cardinality({IF i \in DOMAIN values THEN <<values[i]>> ELSE <<>> : i \in states.taking})
  IN  (IF near <= FEW[1] THEN 4 ELSE IF near <= FEW[2] THEN 2 ELSE IF near <= FEW[3] THEN 1 ELSE 0)
      + (IF states.count >= 2 /\ distinct = states.count THEN 3 ELSE 0)
      + (IF run(a[2]) <= 2 THEN 3 ELSE IF run(a[2]) <= 4 THEN 1 ELSE 0)

Values(a) == [i \in DOMAIN captures |-> ReadAt(captures[i].ram, a, size)]
Row(a) == [at |-> a, values |-> Values(a),
           rank |-> IF Len(captures) < 2 THEN 0 ELSE Score(a, Values(a))]

\* Every candidate shown, ranked, or none when there are too many to place.
DetailRows(shown) ==
  LET candidates == Addresses(shown, size)
      before(r, s) == r.rank > s.rank \/ (r.rank = s.rank /\ (r.at[1] < s.at[1] \/ (r.at[1] = s.at[1] /\ r.at[2] < s.at[2])))
  IN  IF Cardinality(candidates) > DETAIL THEN <<>> ELSE SetToSortSeq({Row(a) : a \in candidates}, before)

Fresh == LET h == Hide(kept, size)
         IN  [version |-> version, shown |-> h.shown, hidden |-> h.hidden, rows |-> DetailRows(h.shown)]

\* The view the result is read from: the one held, unless the mutes moved.
Seen == IF view # <<>> /\ view[1].version = version THEN view[1] ELSE Fresh

-----------------------------------------------------------------------------
(* Operations.                                                             *)
Step == steps < STEPS /\ steps' = steps + 1
NoChange == UNCHANGED <<captures, nextId, kept, asked, states, size, pair>>
SameMutes == UNCHANGED <<mutes, version, nextMute>>

Capture(ram) ==
  /\ Step /\ Len(captures) < CAPTURES
  /\ captures' = Append(captures, [id |-> nextId, ram |-> ram])
  /\ nextId' = nextId + 1 /\ view' = <<>>
  /\ SameMutes /\ UNCHANGED <<kept, asked, states, size, pair, last>>

Reorder(order) ==
  /\ Step /\ captures' = [i \in DOMAIN captures |-> captures[order[i]]] /\ captures' # captures
  /\ view' = <<>>
  /\ SameMutes /\ UNCHANGED <<nextId, kept, asked, states, size, pair, last>>

\* Mutant: the pair keeps a capture that is gone.
WithoutCaptureKept(p, id) == p

WithoutCapture(p, id) == IF p # <<>> /\ id \in {p[1], p[2]} THEN <<>> ELSE p

Forget(i) ==
  /\ Step
  /\ captures' = RemoveAt(captures, i)
  /\ pair' = WithoutCapture(pair, captures[i].id)
  /\ view' = <<>>
  /\ SameMutes /\ UNCHANGED <<nextId, kept, asked, states, size, last>>

Reset == /\ kept' = Bytes /\ asked' = FALSE /\ states' = [count |-> 0, taking |-> {}] /\ pair' = <<>> /\ view' = <<>>

ResetDiff == Step /\ Reset /\ SameMutes /\ UNCHANGED <<captures, nextId, size, last>>

\* A restart: the captures are of a machine that no longer exists.
Clear ==
  /\ Step /\ captures # <<>>
  /\ captures' = <<>> /\ mutes' = <<>> /\ version' = version + 1 /\ Reset
  /\ UNCHANGED <<nextId, size, nextMute, last>>

Apply(query, n) ==
  /\ Step
  /\ last' = [query |-> query, refused |-> Impossible(query), ids |-> Ids]
  /\ IF Impossible(query) THEN NoChange /\ UNCHANGED view
     ELSE /\ kept' = Scan(query, n) /\ asked' = TRUE /\ states' = QueryStates(query) /\ size' = n
          /\ pair' \in PairsOf(query) /\ view' = <<>>
          /\ UNCHANGED <<captures, nextId>>
  /\ SameMutes

\* Reading the result holds the view it was read from.
Read == view' = <<Seen>> /\ view' # view /\ NoChange /\ SameMutes /\ UNCHANGED <<last, steps>>

Mutes(next) == /\ Step /\ mutes' = next /\ version' = version + 1
               /\ NoChange /\ UNCHANGED <<view, last>>

AddMute(addresses) ==
  Mutes(Append(mutes, [id |-> nextMute, source |-> "user", addresses |-> addresses, enabled |-> TRUE])) /\ nextMute' = nextMute + 1
SetEnabled(i, enabled) == Mutes([mutes EXCEPT ![i].enabled = enabled]) /\ mutes' # mutes /\ UNCHANGED nextMute
RemoveMute(i) == Mutes(RemoveAt(mutes, i)) /\ UNCHANGED nextMute

\* What idle frames moved, what they copied to the screen's memory, and the stack.
Discovered(run) ==
  LET idle == {a \in Bytes : \E f \in 1 .. Len(run.rams) - 1 : run.rams[f][a] # run.rams[f + 1][a]}
      found == <<[source |-> "idle", addresses |-> idle], [source |-> "dma", addresses |-> run.copied],
                 [source |-> "stack", addresses |-> run.stack]>>
  IN  SelectSeq(found, LAMBDA m : m.addresses # {})

\* A discovery replaces the last one's mutes; the user's stay.
DiscoverNoise(run) ==
  LET users == SelectSeq(mutes, LAMBDA m : m.source = "user")
      found == Discovered(run)
  IN  /\ Mutes(users \o [i \in DOMAIN found |-> [id |-> nextMute + i - 1, source |-> found[i].source,
                                                addresses |-> found[i].addresses, enabled |-> TRUE]])
      /\ nextMute' = nextMute + Len(found)

Init ==
  /\ captures = <<>> /\ nextId = 1 /\ kept = Bytes /\ asked = FALSE
  /\ states = [count |-> 0, taking |-> {}] /\ size = 1 /\ pair = <<>> /\ view = <<>>
  /\ mutes = <<>> /\ version = 0 /\ nextMute = 1
  /\ last = [query |-> [edges |-> {}, values |-> {}], refused |-> FALSE, ids |-> {}]
  /\ steps = 0

Next ==
  \/ \E ram \in RAMS : Capture(ram)
  \/ \E order \in Permutations(DOMAIN captures) : Reorder(order)
  \/ \E i \in DOMAIN captures : Forget(i)
  \/ ResetDiff \/ Clear
  \/ \E query \in QUERIES, n \in SIZES : Apply(query, n)
  \/ Read
  \/ \E addresses \in MUTED : AddMute(addresses)
  \/ \E i \in DOMAIN mutes : SetEnabled(i, ~mutes[i].enabled) \/ RemoveMute(i)
  \/ \E run \in IDLE_RUNS : DiscoverNoise(run)

Spec == Init /\ [][Next]_vars

-----------------------------------------------------------------------------
(* Properties *)

\* Whatever was captured, forgotten, reordered, asked, muted or unmuted since,
\* the result read is that of the captures, the query and the mutes there are:
\* a view held is never of older ones, ranking never asks for a capture that is
\* gone, a candidate is either shown or tallied under one mute, and what a
\* discovery saw move is not shown (#seen, #view, withoutCapture, #hide).
ResultIsCurrent ==
  /\ pair # <<>> => {pair[1], pair[2]} \subseteq Ids
  /\ view # <<>> /\ view[1].version = version =>
       LET v == view[1]
           shown == Addresses(v.shown, size)
       IN  /\ v = Fresh
           /\ Cardinality(shown) + v.hidden["idle"] + v.hidden["dma"] + v.hidden["stack"] + v.hidden["user"]
                = Cardinality(Addresses(kept, size))
           /\ \A i \in DOMAIN mutes : mutes[i].enabled => \A a \in shown : Span(a, size) \cap mutes[i].addresses = {}

Satisfied(query, value) ==
  /\ \A e \in query.edges : Holds(e[3], value[e[1]], value[e[2]])
  /\ \A v \in query.values : value[v[1]] = v[2]

\* A query is refused when nothing could satisfy it and only then, as far as
\* its links go: a refused one has no values that meet its links, and one of
\* links alone that is answered has some (queryProblem).
RefusedIsImpossible ==
  LET q == last.query
      named == Named(q) \cup {v[1] : v \in q.values}
  IN  named \subseteq last.ids =>
        /\ last.refused => ~\E value \in [named -> 0 .. 3] : Satisfied(q, value)
        /\ ~last.refused /\ q.values = {} => \E value \in [named -> 0 .. 3] : Satisfied(q, value)

=============================================================================
