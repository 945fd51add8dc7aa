----------------------------- MODULE FrontEndProofs -----------------------------
(***************************************************************************)
(* Theorems about what is between a user and the session.  Of save states: *)
(* for any names and files they are kept in, any number of requests, any   *)
(* of them failing at any step, and any overlap of them.  Of the debug     *)
(* adapter: for any number of sessions, requests and references, and any   *)
(* sequence of requests, with what holds until two of them overlap that    *)
(* nothing serialises.                                                     *)
(***************************************************************************)
EXTENDS States, Adapter, SequenceTheorems, TLAPS

-----------------------------------------------------------------------------
(* Save states                                                             *)

Name == Bases \X Nat

OpKinds == {"save", "import", "rename", "delete"}
Steps == {"asked", "check", "write", "remove", "done", "failed"}

Text == [id : Nat, name : Name]
Op == [kind : OpKinds, name : Name \cup {<<>>}, to : Name \cup {<<>>}, step : Steps,
       text : [id : Nat, name : Name \cup {<<>>}]]

TypeInv ==
  /\ store \in [DOMAIN store -> Text]
  /\ ops \in Seq(Op)
  /\ owed \in SUBSET Nat
  /\ crossed \in BOOLEAN

\* What is known of a request, whatever others do.
OnItsWay(i) ==
  /\ ops[i].name \in Name /\ ops[i].to \in Name /\ ops[i].text.name \in Name
  /\ ops[i].kind = "save" => ops[i].text = [id |-> i, name |-> ops[i].name]
  /\ ops[i].kind = "import" =>
       /\ ops[i].text.id = i
       /\ ops[i].step = "write" => MyTurn(i)
  /\ ops[i].kind = "rename" /\ ops[i].step # "asked" => ops[i].text.name = ops[i].to
  /\ ops[i].kind = "rename" /\ ops[i].step = "remove" => Key(ops[i].to) # Key(ops[i].name)

\* What it has found out of the files.
Found(i) ==
  /\ ops[i].kind = "import" /\ ops[i].step = "write" => ~Taken(ops[i].text.name)
  /\ ops[i].kind = "rename" /\ ops[i].step # "asked" /\ Taken(ops[i].name) =>
       store[Key(ops[i].name)].id = ops[i].text.id
  /\ ops[i].kind = "rename" /\ ops[i].step = "write" =>
       Key(ops[i].to) = Key(ops[i].name) \/ ~Taken(ops[i].to)

\* A rename is about to take this file away.
Leaving(k) ==
  \E i \in InFlight : ops[i].kind = "rename" /\ ops[i].step = "remove" /\ Key(ops[i].name) = k

\* What is owed is in a file that stays.
Stays == \A id \in owed : \E k \in DOMAIN store : store[k].id = id /\ ~Leaving(k)

StatesInv ==
  /\ TypeInv
  /\ NamesLead
  /\ \A i \in InFlight : OnItsWay(i)
  /\ ~crossed => (\A i \in InFlight : Found(i)) /\ Stays

-----------------------------------------------------------------------------
(* Requests *)

LEMMA OpsAre ==
  ASSUME ops \in Seq(Op)
  PROVE  /\ Len(ops) \in Nat
         /\ DOMAIN ops = 1..Len(ops)
         /\ \A i \in DOMAIN ops :
              /\ ops[i] \in Op /\ ops[i].kind \in OpKinds /\ ops[i].step \in Steps
              /\ ops[i].text.id \in Nat
         /\ \A i \in InFlight : i \in DOMAIN ops /\ i \in Nat
<1>1. Len(ops) \in Nat /\ DOMAIN ops = 1..Len(ops)
  BY LenProperties
<1>2. \A i \in DOMAIN ops : ops[i] \in Op
  BY <1>1, ElementOfSeq
<1> QED
  BY <1>1, <1>2 DEF Op, InFlight

\* One request's record replaced.
LEMMA OneReplaced ==
  ASSUME ops \in Seq(Op), NEW i \in DOMAIN ops, NEW op \in Op, ops' = [ops EXCEPT ![i] = op]
  PROVE  /\ ops' \in Seq(Op)
         /\ DOMAIN ops' = DOMAIN ops
         /\ ops'[i] = op
         /\ \A j \in DOMAIN ops : j # i => ops'[j] = ops[j]
<1>1. DOMAIN ops = 1..Len(ops) /\ Len(ops) \in Nat
  BY OpsAre
<1>2. ops \in [1..Len(ops) -> Op]
  BY <1>1, ElementOfSeq, LenProperties
<1>3. ops' \in [1..Len(ops) -> Op]
  BY <1>1, <1>2
<1>4. ops' \in Seq(Op)
  BY <1>1, <1>3, SeqDef
<1> QED
  BY <1>1, <1>2, <1>4

\* A request that goes on, or settles.
LEMMA GoesTo ==
  ASSUME ops \in Seq(Op), NEW i \in InFlight, NEW step \in Steps, To(i, step)
  PROVE  /\ ops' \in Seq(Op)
         /\ DOMAIN ops' = DOMAIN ops
         /\ ops'[i].kind = ops[i].kind /\ ops'[i].step = step
         /\ step \notin Over =>
              ops'[i].name = ops[i].name /\ ops'[i].to = ops[i].to /\ ops'[i].text = ops[i].text
         /\ \A j \in DOMAIN ops : j # i => ops'[j] = ops[j]
         /\ InFlight' = IF step \in Over THEN InFlight \ {i} ELSE InFlight
<1> DEFINE op == IF step \in Over THEN Settled(ops[i], step) ELSE [ops[i] EXCEPT !.step = step]
<1>1. i \in DOMAIN ops /\ ops[i] \in Op
  BY OpsAre
<1>2. /\ op \in Op /\ op.kind = ops[i].kind /\ op.step = step
      /\ step \notin Over => op.name = ops[i].name /\ op.to = ops[i].to /\ op.text = ops[i].text
  BY <1>1 DEF Settled, Op
<1>3. ops' = [ops EXCEPT ![i] = op]
  BY <1>1 DEF To
<1> HIDE DEF op
<1>4. /\ ops' \in Seq(Op)
      /\ DOMAIN ops' = DOMAIN ops
      /\ ops'[i] = op
      /\ \A j \in DOMAIN ops : j # i => ops'[j] = ops[j]
  BY <1>1, <1>2, <1>3, OneReplaced
<1>5. InFlight' = IF step \in Over THEN InFlight \ {i} ELSE InFlight
  BY <1>1, <1>2, <1>4 DEF InFlight
<1> QED
  BY <1>2, <1>4, <1>5

\* Only one import is about to write.
LEMMA OneWrites ==
  ASSUME StatesInv, NEW i \in InFlight, NEW j \in InFlight,
         ops[i].kind = "import", ops[i].step = "write",
         ops[j].kind = "import", ops[j].step = "write"
  PROVE  i = j
<1>1. i \in 1..Len(ops) /\ j \in 1..Len(ops) /\ Len(ops) \in Nat
  BY OpsAre DEF StatesInv, TypeInv
<1>2. MyTurn(i) /\ MyTurn(j) /\ ops[i].step \notin Over /\ ops[j].step \notin Over
  BY DEF StatesInv, OnItsWay, Over
<1>3. ~(i < j) /\ ~(j < i)
  BY <1>1, <1>2 DEF MyTurn
<1> QED
  BY <1>1, <1>3

\* An import's turn stays its own.
LEMMA StillMyTurn ==
  ASSUME ops \in Seq(Op), NEW j \in DOMAIN ops, MyTurn(j), NEW i \in InFlight,
         DOMAIN ops' = DOMAIN ops, ops'[i].kind = ops[i].kind,
         \A k \in DOMAIN ops : k # i => ops'[k] = ops[k]
  PROVE  MyTurn(j)'
<1>1. \A k \in 1..j - 1 : k \in DOMAIN ops
  BY OpsAre
<1>2. \A k \in 1..j - 1 : ops[k].kind = "import" => k # i
  BY DEF MyTurn, InFlight
<1> QED
  BY <1>1, <1>2 DEF MyTurn
-----------------------------------------------------------------------------
(* Steps.  What a step leaves alone, first. *)

\* A file written or taken away.
LEMMA FileWritten ==
  ASSUME StatesInv, NEW text \in Text, store' = With(Key(text.name), text)
  PROVE  /\ store' \in [DOMAIN store' -> Text] /\ NamesLead'
         /\ DOMAIN store' = DOMAIN store \cup {Key(text.name)}
         /\ store'[Key(text.name)] = text
         /\ \A x \in DOMAIN store : x # Key(text.name) => store'[x] = store[x]
<1>1. store \in [DOMAIN store -> Text] /\ NamesLead
  BY DEF StatesInv, TypeInv
<1> DEFINE k == Key(text.name)
<1>2. /\ store' \in [DOMAIN store \cup {k} -> Text]
      /\ DOMAIN store' = DOMAIN store \cup {k} /\ store'[k] = text
      /\ \A x \in DOMAIN store : x # k => store'[x] = store[x]
  BY <1>1 DEF With
<1>3. NamesLead'
  <2> SUFFICES ASSUME NEW x \in DOMAIN store' PROVE Key(store'[x].name) = x
    BY DEF NamesLead, Key
  <2> QED BY <1>1, <1>2 DEF NamesLead
<1> QED
  BY <1>2, <1>3

LEMMA FileRemoved ==
  ASSUME StatesInv, NEW k, store' = Without(k)
  PROVE  /\ store' \in [DOMAIN store' -> Text] /\ NamesLead'
         /\ DOMAIN store' = DOMAIN store \ {k}
         /\ \A x \in DOMAIN store' : store'[x] = store[x]
<1>1. store \in [DOMAIN store -> Text] /\ NamesLead
  BY DEF StatesInv, TypeInv
<1>2. /\ DOMAIN store' = DOMAIN store \ {k}
      /\ store' \in [DOMAIN store \ {k} -> Text]
      /\ \A x \in DOMAIN store' : store'[x] = store[x]
  BY <1>1 DEF Without
<1>3. NamesLead'
  <2> SUFFICES ASSUME NEW x \in DOMAIN store' PROVE Key(store'[x].name) = x
    BY DEF NamesLead, Key
  <2> QED BY <1>1, <1>2 DEF NamesLead
<1> QED
  BY <1>2, <1>3

\* A step of request i that changes its own record only leaves the others, and
\* those of them that go by no file written, on their way.
LEMMA OthersGoOn ==
  ASSUME StatesInv, NEW i \in InFlight, DOMAIN ops' = DOMAIN ops,
         ops'[i].kind = ops[i].kind, \A k \in DOMAIN ops : k # i => ops'[k] = ops[k]
  PROVE  \A j \in InFlight' : j # i =>
           /\ j \in InFlight /\ ops'[j] = ops[j]
           /\ OnItsWay(j)'
           /\ ~crossed => Found(j)
<1> SUFFICES ASSUME NEW j \in InFlight', j # i
             PROVE  j \in InFlight /\ ops'[j] = ops[j] /\ OnItsWay(j)' /\ (~crossed => Found(j))
  OBVIOUS
<1>1. j \in DOMAIN ops /\ ops'[j] = ops[j] /\ j \in InFlight
  BY DEF InFlight
<1>2. OnItsWay(j) /\ ops \in Seq(Op) /\ (~crossed => Found(j))
  BY <1>1 DEF StatesInv, TypeInv
<1>3. MyTurn(j) => MyTurn(j)'
  BY <1>1, <1>2, StillMyTurn
<1>4. OnItsWay(j)'
  BY <1>1, <1>2, <1>3 DEF OnItsWay, Key
<1> QED
  BY <1>1, <1>2, <1>4

\* What one request leaves of the files another has looked into.
LEMMA LooksAgain ==
  ASSUME NEW j, Found(j), ops'[j] = ops[j],
         \A k : GoesBy(ops[j], k) =>
           /\ k \in DOMAIN store' => k \in DOMAIN store /\ store'[k] = store[k],
         ops[j].step \in Steps, ops[j].step \notin Over
  PROVE  Found(j)'
<1>1. ops[j].kind = "rename" /\ ops[j].step # "asked" => ops[j].step \in {"check", "write", "remove"}
  BY DEF Steps, Over
<1> QED
  BY <1>1 DEF Found, GoesBy, Taken, Key

\* A request that goes on or settles and touches no file.
LEMMA GoingOn ==
  ASSUME StatesInv, NEW i \in InFlight, NEW step \in Steps, To(i, step), UNCHANGED <<store, owed, crossed>>,
         step \notin Over => step # "remove" \/ ops[i].kind # "rename",
         step \notin Over => OnItsWay(i)' /\ (~crossed => Found(i)')
  PROVE  StatesInv'
<1>0. ops \in Seq(Op)
  BY DEF StatesInv, TypeInv
<1>1. /\ ops' \in Seq(Op) /\ DOMAIN ops' = DOMAIN ops /\ ops'[i].kind = ops[i].kind /\ ops'[i].step = step
      /\ \A j \in DOMAIN ops : j # i => ops'[j] = ops[j]
      /\ InFlight' = IF step \in Over THEN InFlight \ {i} ELSE InFlight
  BY <1>0, GoesTo
<1>2. \A j \in InFlight' : j # i =>
        j \in InFlight /\ ops'[j] = ops[j] /\ OnItsWay(j)' /\ (~crossed => Found(j))
  BY <1>1, OthersGoOn
<1>3. \A j \in InFlight' : j # i => (~crossed => Found(j)')
  BY <1>2 DEF Found, Taken, Key
<1>4. \A k : Leaving(k)' => Leaving(k)
  BY <1>1, <1>2 DEF Leaving, Key
<1>5. TypeInv' /\ NamesLead'
  BY <1>1 DEF StatesInv, TypeInv, NamesLead, Key
<1>6. ~crossed' => Stays'
  BY <1>4 DEF StatesInv, Stays
<1> QED
  BY <1>1, <1>2, <1>3, <1>5, <1>6 DEF StatesInv

\* A request about to look into the files, with its record changed.
LEMMA LookingOn ==
  ASSUME StatesInv, NEW i \in InFlight, NEW op \in Op, ops' = [ops EXCEPT ![i] = op],
         op.kind = ops[i].kind, op.step \in {"asked", "check"}, UNCHANGED <<store, owed, crossed>>,
         OnItsWay(i)', ~crossed => Found(i)'
  PROVE  StatesInv'
<1>0. ops \in Seq(Op) /\ i \in DOMAIN ops
  BY OpsAre DEF StatesInv, TypeInv
<1>1. /\ ops' \in Seq(Op) /\ DOMAIN ops' = DOMAIN ops /\ ops'[i] = op
      /\ \A j \in DOMAIN ops : j # i => ops'[j] = ops[j]
  BY <1>0, OneReplaced
<1>2. InFlight' = InFlight
  BY <1>0, <1>1 DEF InFlight, Over
<1>3. \A j \in InFlight' : j # i =>
        j \in InFlight /\ ops'[j] = ops[j] /\ OnItsWay(j)' /\ (~crossed => Found(j))
  BY <1>1, OthersGoOn
<1>4. \A j \in InFlight' : j # i => (~crossed => Found(j)')
  BY <1>3 DEF Found, Taken, Key
<1>5. \A k : Leaving(k)' => Leaving(k)
  BY <1>1, <1>3 DEF Leaving, Key
<1>6. TypeInv' /\ NamesLead'
  BY <1>1 DEF StatesInv, TypeInv, NamesLead, Key
<1>7. ~crossed' => Stays'
  BY <1>5 DEF StatesInv, Stays
<1> QED
  BY <1>3, <1>4, <1>6, <1>7 DEF StatesInv

\* A request that settles and wrote a file, or took one away.
LEMMA Settling ==
  ASSUME StatesInv, NEW i \in InFlight, To(i, "done"),
         store' \in [DOMAIN store' -> Text], owed' \in SUBSET Nat, NamesLead', crossed' \in BOOLEAN,
         crossed => crossed',
         ~crossed' => \A j \in InFlight \ {i} : \A k : GoesBy(ops[j], k) =>
                        (k \in DOMAIN store' => k \in DOMAIN store /\ store'[k] = store[k]),
         ~crossed' => \A id \in owed' : \E k \in DOMAIN store' : store'[k].id = id /\
                        \A j \in InFlight \ {i} : ops[j].kind = "rename" /\ ops[j].step = "remove"
                                                    => Key(ops[j].name) # k
  PROVE  StatesInv'
<1>0. ops \in Seq(Op) /\ "done" \in Steps /\ "done" \in Over
  BY DEF StatesInv, TypeInv, Steps, Over
<1>1. /\ ops' \in Seq(Op) /\ DOMAIN ops' = DOMAIN ops /\ ops'[i].kind = ops[i].kind
      /\ \A j \in DOMAIN ops : j # i => ops'[j] = ops[j]
      /\ InFlight' = InFlight \ {i}
  BY <1>0, GoesTo
<1>2. \A j \in InFlight' :
        j \in InFlight /\ j # i /\ ops'[j] = ops[j] /\ OnItsWay(j)' /\ (~crossed => Found(j))
  BY <1>1, OthersGoOn
<1>3. ASSUME ~crossed', NEW j \in InFlight' PROVE Found(j)'
  <2>1. j \in DOMAIN ops /\ ops[j].step \in Steps /\ ops[j].step \notin Over
    BY <1>0, <1>2, OpsAre DEF InFlight
  <2>2. Found(j) /\ ops'[j] = ops[j] /\ j \in InFlight \ {i}
    BY <1>2, <1>3
  <2>3. \A k : GoesBy(ops[j], k) => (k \in DOMAIN store' => k \in DOMAIN store /\ store'[k] = store[k])
    BY <1>3, <2>2
  <2> QED BY <2>1, <2>2, <2>3, LooksAgain
<1>4. ~crossed' => Stays'
  BY <1>1, <1>2 DEF Stays, Leaving, Key
<1> QED
  BY <1>1, <1>2, <1>3, <1>4 DEF StatesInv, TypeInv

-----------------------------------------------------------------------------
(* A request arrives. *)

LEMMA AskKeeps ==
  ASSUME StatesInv, NEW kind \in OpKinds, NEW name \in Name, NEW to \in Name, Ask(kind, name, to)
  PROVE  StatesInv'
<1> DEFINE n == Len(ops) + 1
           op == [kind |-> kind, name |-> name, to |-> to, step |-> "asked",
                  text |-> [id |-> n, name |-> name]]
<1>0. ops \in Seq(Op) /\ \A i \in InFlight : OnItsWay(i)
  BY DEF StatesInv, TypeInv
<1>1. Len(ops) \in Nat /\ DOMAIN ops = 1..Len(ops)
  BY <1>0, OpsAre
<1>2. op \in Op
  BY <1>1 DEF Op, Steps
<1>3. ops' = Append(ops, op) /\ UNCHANGED <<store, owed, crossed>>
  BY DEF Ask
<1> HIDE DEF op
<1>4. /\ ops' \in Seq(Op) /\ DOMAIN ops' = 1..n /\ ops'[n] = op
      /\ \A j \in 1..Len(ops) : ops'[j] = ops[j]
  <2>1. ops' \in Seq(Op) /\ Len(ops') = n /\ ops'[n] = op /\ \A j \in 1..Len(ops) : ops'[j] = ops[j]
    BY <1>0, <1>2, <1>3, AppendProperties
  <2> QED BY <2>1, LenProperties
<1>5. /\ op.kind = kind /\ op.step = "asked" /\ op.name = name /\ op.to = to
      /\ op.text = [id |-> n, name |-> name]
  BY DEF op
<1>6. InFlight' = InFlight \cup {n}
  <2>1. \A j : j \in InFlight' <=> j \in 1..n /\ ops'[j].step \notin Over
    BY <1>4 DEF InFlight
  <2>2. \A j : j \in InFlight <=> j \in 1..Len(ops) /\ ops[j].step \notin Over
    BY <1>1 DEF InFlight
  <2>3. 1..n = 1..Len(ops) \cup {n}
    BY <1>1
  <2> QED BY <1>4, <1>5, <2>1, <2>2, <2>3 DEF Over
<1>7. ASSUME NEW j \in InFlight' PROVE OnItsWay(j)' /\ (~crossed => Found(j)')
  <2>1. CASE j = n
    BY <1>4, <1>5, <2>1 DEF OnItsWay, Found
  <2>2. CASE j # n
    <3>1. j \in 1..Len(ops) /\ ops'[j] = ops[j] /\ OnItsWay(j) /\ (~crossed => Found(j))
      BY <1>0, <1>1, <1>4, <1>6, <1>7, <2>2 DEF InFlight, StatesInv
    <3>2. \A k \in 1..j - 1 : k \in 1..Len(ops)
      BY <1>1, <3>1
    <3>3. MyTurn(j) => MyTurn(j)'
      BY <1>4, <3>2 DEF MyTurn
    <3>4. OnItsWay(j)'
      BY <3>1, <3>3 DEF OnItsWay, Key
    <3> QED BY <1>3, <3>1, <3>4 DEF Found, Taken, Key
  <2> QED BY <2>1, <2>2
<1>8. \A k : Leaving(k)' => Leaving(k)
  <2>1. \A j \in InFlight : ops'[j] = ops[j]
    BY <1>1, <1>4 DEF InFlight
  <2> QED BY <1>4, <1>5, <1>6, <2>1 DEF Leaving, Key
<1>9. ~crossed' => Stays'
  BY <1>3, <1>8 DEF StatesInv, Stays
<1>10. TypeInv' /\ NamesLead'
  BY <1>3, <1>4 DEF StatesInv, TypeInv, NamesLead, Key
<1> QED
  BY <1>3, <1>7, <1>9, <1>10 DEF StatesInv

-----------------------------------------------------------------------------
(* Saving and importing. *)

LEMMA SaveKeeps ==
  ASSUME StatesInv, NEW i \in InFlight, Save(i)
  PROVE  StatesInv'
<1> DEFINE text == ops[i].text
           k == Key(text.name)
<1>1. i \in Nat /\ i \in DOMAIN ops /\ OnItsWay(i) /\ ops[i].kind = "save"
  BY OpsAre DEF StatesInv, TypeInv, Save
<1>2. text = [id |-> i, name |-> ops[i].name] /\ ops[i].name \in Name
  BY <1>1 DEF OnItsWay
<1>3. text \in Text /\ text.id = i /\ k = Key(ops[i].name)
  BY <1>1, <1>2 DEF Text
<1>4. /\ store' = With(k, text) /\ To(i, "done") /\ Writes(i, k)
      /\ owed' = (owed \ (IF k \in DOMAIN store THEN {store[k].id} ELSE {})) \cup {i}
  BY <1>3 DEF Save
<1> HIDE DEF text
<1>5. /\ store' \in [DOMAIN store' -> Text] /\ NamesLead'
      /\ DOMAIN store' = DOMAIN store \cup {k} /\ store'[k] = text
      /\ \A x \in DOMAIN store : x # k => store'[x] = store[x]
  BY <1>3, <1>4, FileWritten
<1> HIDE DEF k
<1>6. owed \in SUBSET Nat /\ crossed \in BOOLEAN
  BY DEF StatesInv, TypeInv
<1>7. /\ crossed' \in BOOLEAN /\ (crossed => crossed')
      /\ ~crossed' => \A j \in InFlight \ {i} : ~GoesBy(ops[j], k)
  BY <1>1, <1>4, <1>6 DEF Writes
<1>8. ASSUME ~crossed', NEW id \in owed'
      PROVE  \E x \in DOMAIN store' : store'[x].id = id /\
               \A j \in InFlight \ {i} : ops[j].kind = "rename" /\ ops[j].step = "remove"
                                           => Key(ops[j].name) # x
  <2>1. CASE id = i
    BY <1>3, <1>5, <1>7, <1>8, <2>1 DEF GoesBy
  <2>2. CASE id # i
    <3>1. id \in owed /\ (k \in DOMAIN store => store[k].id # id)
      BY <1>4, <1>8, <2>2
    <3>2. PICK x \in DOMAIN store : store[x].id = id /\ ~Leaving(x)
      BY <1>7, <1>8, <3>1 DEF StatesInv, Stays
    <3>3. x # k /\ x \in DOMAIN store' /\ store'[x] = store[x]
      BY <1>5, <3>1, <3>2
    <3> QED BY <3>2, <3>3 DEF Leaving
  <2> QED BY <2>1, <2>2
<1>9. owed' \in SUBSET Nat
  BY <1>1, <1>4, <1>6
<1>10. ~crossed' => \A j \in InFlight \ {i} : \A x : GoesBy(ops[j], x) =>
         (x \in DOMAIN store' => x \in DOMAIN store /\ store'[x] = store[x])
  BY <1>5, <1>7
<1> QED
  BY <1>4, <1>5, <1>7, <1>8, <1>9, <1>10, Settling

LEMMA ProbeKeeps ==
  ASSUME StatesInv, NEW i \in InFlight, Probe(i)
  PROVE  StatesInv'
<1> DEFINE name == ops[i].text.name
<1>0. ops \in Seq(Op)
  BY DEF StatesInv, TypeInv
<1>1. i \in DOMAIN ops /\ ops[i] \in Op /\ OnItsWay(i) /\ ops[i].kind = "import" /\ MyTurn(i)
  BY <1>0, OpsAre DEF StatesInv, Probe
<1>2. /\ UNCHANGED <<store, owed, crossed>> /\ ops[i].step = "asked"
      /\ "write" \in Steps /\ "failed" \in Steps
  BY DEF Probe, Steps
<1>3. CASE ~Taken(name)
  <2>1. To(i, "write")
    BY <1>3 DEF Probe
  <2>2. /\ DOMAIN ops' = DOMAIN ops /\ ops'[i].kind = ops[i].kind /\ ops'[i].step = "write"
        /\ ops'[i].name = ops[i].name /\ ops'[i].to = ops[i].to /\ ops'[i].text = ops[i].text
        /\ \A j \in DOMAIN ops : j # i => ops'[j] = ops[j]
    BY <1>0, <1>2, <2>1, GoesTo DEF Over
  <2>3. MyTurn(i)'
    BY <1>0, <1>1, <2>2, StillMyTurn
  <2>4. OnItsWay(i)'
    BY <1>1, <1>2, <2>2, <2>3 DEF OnItsWay
  <2>5. Found(i)'
    BY <1>1, <1>2, <1>3, <2>2 DEF Found, Taken, Key
  <2> QED BY <1>1, <1>2, <2>1, <2>4, <2>5, GoingOn
<1>4. CASE Taken(name) /\ name[2] = MaxRepeat
  <2>1. To(i, "failed") /\ "failed" \in Over
    BY <1>4 DEF Probe, Over
  <2> QED BY <1>2, <2>1, GoingOn
<1>5. CASE Taken(name) /\ name[2] # MaxRepeat
  <2> DEFINE next == <<name[1], name[2] + 1>>
             op == [ops[i] EXCEPT !.text.name = next]
  <2>1. next \in Name /\ name \in Name
    BY <1>1 DEF OnItsWay, Name
  <2>2. /\ op \in Op /\ op.kind = ops[i].kind /\ op.step = ops[i].step /\ op.name = ops[i].name
        /\ op.to = ops[i].to /\ op.text.id = ops[i].text.id /\ op.text.name = next
    BY <1>1, <2>1 DEF Op
  <2>3. ops' = [ops EXCEPT ![i] = op]
    BY <1>1, <1>5 DEF Probe
  <2> HIDE DEF op, next
  <2>4. ops'[i] = op
    BY <1>1, <2>3
  <2>5. OnItsWay(i)' /\ Found(i)'
    BY <1>1, <1>2, <2>1, <2>2, <2>4 DEF OnItsWay, Found
  <2> QED BY <1>2, <2>2, <2>3, <2>5, LookingOn
<1> QED
  BY <1>3, <1>4, <1>5

LEMMA WriteImportKeeps ==
  ASSUME StatesInv, NEW i \in InFlight, WriteImport(i)
  PROVE  StatesInv'
<1> DEFINE text == ops[i].text
           k == Key(text.name)
<1>0. ops \in Seq(Op) /\ crossed \in BOOLEAN /\ owed \in SUBSET Nat
  BY DEF StatesInv, TypeInv
<1>1. i \in Nat /\ i \in DOMAIN ops /\ OnItsWay(i) /\ ops[i].kind = "import" /\ ops[i].step = "write"
  BY <1>0, OpsAre DEF StatesInv, WriteImport
<1>2. text \in Text /\ text.id = i
  <2>1. ops[i] \in Op
    BY <1>0, <1>1, OpsAre
  <2> QED BY <1>1, <2>1 DEF OnItsWay, Op, Text
<1>3. ~crossed => k \notin DOMAIN store
  BY <1>1 DEF StatesInv, Found, Taken
<1>4. store' = With(k, text) /\ To(i, "done") /\ owed' = owed \cup {i} /\ Writes(i, k)
  BY DEF WriteImport
<1> HIDE DEF text
<1>5. /\ store' \in [DOMAIN store' -> Text] /\ NamesLead'
      /\ DOMAIN store' = DOMAIN store \cup {k} /\ store'[k] = text
      /\ \A x \in DOMAIN store : x # k => store'[x] = store[x]
  BY <1>2, <1>4, FileWritten
<1> HIDE DEF k
<1>6. crossed' \in BOOLEAN /\ (crossed => crossed')
  BY <1>0, <1>4 DEF Writes
<1>7. ASSUME ~crossed', NEW j \in InFlight \ {i} PROVE ~GoesBy(ops[j], k)
  <2>1. CASE ops[j].kind = "import"
    <3>1. ops[j].step # "write"
      BY <1>1, <1>7, <2>1, OneWrites
    <3> QED BY <2>1, <3>1 DEF GoesBy
  <2>2. CASE ops[j].kind # "import"
    <3>1. {ops[i].kind, ops[j].kind} # {"import"}
      BY <2>2
    <3> QED BY <1>4, <1>7, <3>1 DEF Writes
  <2> QED BY <2>1, <2>2
<1>8. ASSUME ~crossed', NEW id \in owed'
      PROVE  \E x \in DOMAIN store' : store'[x].id = id /\
               \A j \in InFlight \ {i} : ops[j].kind = "rename" /\ ops[j].step = "remove"
                                           => Key(ops[j].name) # x
  <2>1. CASE id = i
    BY <1>2, <1>5, <1>7, <1>8, <2>1 DEF GoesBy
  <2>2. CASE id # i
    <3>1. PICK x \in DOMAIN store : store[x].id = id /\ ~Leaving(x)
      BY <1>4, <1>6, <1>8, <2>2 DEF StatesInv, Stays
    <3> QED BY <1>3, <1>5, <1>6, <1>8, <3>1 DEF Leaving
  <2> QED BY <2>1, <2>2
<1>9. ~crossed' => \A j \in InFlight \ {i} : \A x : GoesBy(ops[j], x) =>
        (x \in DOMAIN store' => x \in DOMAIN store /\ store'[x] = store[x])
  BY <1>5, <1>7
<1>10. owed' \in SUBSET Nat
  BY <1>0, <1>1, <1>4
<1> QED
  BY <1>4, <1>5, <1>6, <1>8, <1>9, <1>10, Settling

-----------------------------------------------------------------------------
(* Renaming. *)

LEMMA ReadRenamedKeeps ==
  ASSUME StatesInv, NEW i \in InFlight, ReadRenamed(i)
  PROVE  StatesInv'
<1>0. ops \in Seq(Op) /\ store \in [DOMAIN store -> Text]
  BY DEF StatesInv, TypeInv
<1>1. i \in DOMAIN ops /\ ops[i] \in Op /\ OnItsWay(i) /\ ops[i].kind = "rename" /\ ops[i].step = "asked"
  BY <1>0, OpsAre DEF StatesInv, ReadRenamed
<1>2. UNCHANGED <<store, owed, crossed>> /\ "failed" \in Steps /\ "failed" \in Over
  BY DEF ReadRenamed, Steps, Over
<1>3. CASE ~Taken(ops[i].name)
  <2>1. To(i, "failed")
    BY <1>3 DEF ReadRenamed
  <2> QED BY <1>2, <2>1, GoingOn
<1>4. CASE Taken(ops[i].name)
  <2> DEFINE was == store[Key(ops[i].name)]
             op == [ops[i] EXCEPT !.step = "check", !.text = [was EXCEPT !.name = ops[i].to]]
  <2>1. was \in Text /\ ops[i].to \in Name
    BY <1>0, <1>1, <1>4 DEF Taken, OnItsWay
  <2>2. /\ op \in Op /\ op.kind = "rename" /\ op.step = "check" /\ op.name = ops[i].name
        /\ op.to = ops[i].to /\ op.text.id = was.id /\ op.text.name = ops[i].to
    BY <1>1, <2>1 DEF Op, Text, Steps
  <2>3. ops' = [ops EXCEPT ![i] = op]
    BY <1>1, <1>4 DEF ReadRenamed
  <2> HIDE DEF op
  <2>4. ops'[i] = op
    BY <1>1, <2>3
  <2>5. OnItsWay(i)'
    BY <1>1, <2>1, <2>2, <2>4 DEF OnItsWay
  <2>6. Found(i)'
    BY <1>2, <2>2, <2>4 DEF Found, Key
  <2> QED BY <1>1, <1>2, <2>2, <2>3, <2>5, <2>6, LookingOn
<1> QED
  BY <1>3, <1>4

LEMMA CheckRenamedKeeps ==
  ASSUME StatesInv, NEW i \in InFlight, CheckRenamed(i)
  PROVE  StatesInv'
<1>0. ops \in Seq(Op)
  BY DEF StatesInv, TypeInv
<1>1. /\ i \in DOMAIN ops /\ OnItsWay(i) /\ ops[i].kind = "rename" /\ ops[i].step = "check"
      /\ ~crossed => Found(i)
  BY <1>0, OpsAre DEF StatesInv, CheckRenamed
<1>2. UNCHANGED <<store, owed, crossed>> /\ "failed" \in Steps /\ "failed" \in Over
      /\ "write" \in Steps /\ "write" \notin Over
  BY DEF CheckRenamed, Steps, Over
<1>3. CASE Refused(ops[i])
  <2>1. To(i, "failed")
    BY <1>3 DEF CheckRenamed
  <2> QED BY <1>2, <2>1, GoingOn
<1>4. CASE ~Refused(ops[i])
  <2>1. To(i, "write")
    BY <1>4 DEF CheckRenamed
  <2>2. /\ ops'[i].kind = ops[i].kind /\ ops'[i].step = "write"
        /\ ops'[i].name = ops[i].name /\ ops'[i].to = ops[i].to /\ ops'[i].text = ops[i].text
    BY <1>0, <1>2, <2>1, GoesTo
  <2>3. OnItsWay(i)'
    BY <1>1, <2>2 DEF OnItsWay
  <2>4. ~crossed => Found(i)'
    BY <1>1, <1>2, <1>4, <2>2 DEF Found, Taken, Refused, Key
  <2> QED BY <1>2, <2>1, <2>3, <2>4, GoingOn
<1> QED
  BY <1>3, <1>4

LEMMA WriteRenamedKeeps ==
  ASSUME StatesInv, NEW i \in InFlight, WriteRenamed(i)
  PROVE  StatesInv'
<1> DEFINE text == ops[i].text
           from == Key(ops[i].name)
           k == Key(text.name)
<1>0. ops \in Seq(Op) /\ owed \in SUBSET Nat /\ crossed \in BOOLEAN
  BY DEF StatesInv, TypeInv
<1>1. i \in DOMAIN ops /\ OnItsWay(i) /\ ops[i].kind = "rename" /\ ops[i].step = "write" /\ ops[i] \in Op
  BY <1>0, OpsAre DEF StatesInv, WriteRenamed
<1>2. /\ text \in Text /\ text.name = ops[i].to
  BY <1>1 DEF OnItsWay, Op, Text
<1>3. ~crossed => /\ from \in DOMAIN store => text.id = store[from].id
                  /\ k = from \/ k \notin DOMAIN store
  BY <1>1, <1>2 DEF StatesInv, Found, Taken
<1>4. /\ store' = With(k, text) /\ UNCHANGED owed /\ To(i, IF k = from THEN "done" ELSE "remove")
      /\ Writes(i, k)
  BY <1>2 DEF WriteRenamed, Renamed
<1>5. /\ "done" \in Steps /\ "done" \in Over /\ "remove" \in Steps /\ "remove" \notin Over
  BY DEF Steps, Over
<1>6. k = Key(ops[i].to)
  BY <1>2
<1> HIDE DEF text
<1>7. /\ store' \in [DOMAIN store' -> Text] /\ NamesLead'
      /\ DOMAIN store' = DOMAIN store \cup {k} /\ store'[k] = text
      /\ \A x \in DOMAIN store : x # k => store'[x] = store[x]
  BY <1>2, <1>4, FileWritten
<1> HIDE DEF k
<1>8. /\ crossed' \in BOOLEAN /\ (crossed => crossed')
      /\ ~crossed' => \A j \in InFlight \ {i} : ~GoesBy(ops[j], k)
  BY <1>0, <1>1, <1>4 DEF Writes
<1>9. ~crossed' => \A j \in InFlight \ {i} : \A x : GoesBy(ops[j], x) =>
        (x \in DOMAIN store' => x \in DOMAIN store /\ store'[x] = store[x])
  BY <1>7, <1>8
\* What was in the file renamed is in the one written too.
<1>10. ASSUME ~crossed', NEW id \in owed'
       PROVE  \E x \in DOMAIN store' :
                /\ store'[x].id = id
                /\ x = from => k = from
                /\ \A j \in InFlight \ {i} : ops[j].kind = "rename" /\ ops[j].step = "remove"
                                               => Key(ops[j].name) # x
  <2>1. PICK x \in DOMAIN store : store[x].id = id /\ ~Leaving(x)
    BY <1>4, <1>8, <1>10 DEF StatesInv, Stays
  <2>2. CASE x = from
    BY <1>3, <1>7, <1>8, <1>10, <2>1, <2>2 DEF GoesBy
  <2>3. CASE x # from
    BY <1>3, <1>7, <1>8, <1>10, <2>1, <2>3 DEF Leaving
  <2> QED BY <2>2, <2>3
<1>11. CASE k = from
  <2>1. To(i, "done")
    BY <1>4, <1>11
  <2> QED BY <1>0, <1>4, <1>7, <1>8, <1>9, <1>10, <2>1, Settling
<1>12. CASE k # from
  <2>1. To(i, "remove")
    BY <1>4, <1>12
  <2>2. /\ ops' \in Seq(Op) /\ DOMAIN ops' = DOMAIN ops
        /\ ops'[i].kind = ops[i].kind /\ ops'[i].step = "remove"
        /\ ops'[i].name = ops[i].name /\ ops'[i].to = ops[i].to /\ ops'[i].text = ops[i].text
        /\ \A j \in DOMAIN ops : j # i => ops'[j] = ops[j]
        /\ InFlight' = InFlight
    BY <1>0, <1>5, <2>1, GoesTo
  <2>3. \A j \in InFlight' : j # i =>
          j \in InFlight /\ ops'[j] = ops[j] /\ OnItsWay(j)' /\ (~crossed => Found(j))
    BY <2>2, OthersGoOn
  <2>4. OnItsWay(i)'
    BY <1>1, <1>6, <1>12, <2>2 DEF OnItsWay, Key
  <2>5. ASSUME ~crossed' PROVE Found(i)'
    <3>1. from \in DOMAIN store' => store'[from].id = text.id
      BY <1>3, <1>7, <1>8, <1>12, <2>5
    <3>2. ops'[i].text.id = text.id /\ Key(ops'[i].name) = from
      BY <2>2 DEF text
    <3>3. /\ Taken(ops[i].name)' => store'[Key(ops'[i].name)].id = ops'[i].text.id
      BY <3>1, <3>2, <2>2 DEF Taken, Key
    <3> QED BY <1>1, <2>2, <3>1, <3>2, <3>3 DEF Found, Taken, Key
  <2>6. ASSUME ~crossed', NEW j \in InFlight', j # i PROVE Found(j)'
    <3>1. j \in DOMAIN ops /\ ops[j].step \in Steps /\ ops[j].step \notin Over
      BY <1>0, <2>3, <2>6, OpsAre DEF InFlight
    <3>2. Found(j) /\ ops'[j] = ops[j] /\ j \in InFlight \ {i}
      BY <1>8, <2>3, <2>6
    <3>3. \A x : GoesBy(ops[j], x) => (x \in DOMAIN store' => x \in DOMAIN store /\ store'[x] = store[x])
      BY <1>9, <2>6, <3>2
    <3> QED BY <3>1, <3>2, <3>3, LooksAgain
  <2>7. \A x : Leaving(x)' =>
          x = from \/ \E j \in InFlight \ {i} : ops[j].kind = "rename" /\ ops[j].step = "remove"
                                                  /\ Key(ops[j].name) = x
    BY <2>2, <2>3 DEF Leaving, Key
  <2>8. ~crossed' => Stays'
    BY <1>10, <1>12, <2>7 DEF Stays
  <2>9. TypeInv'
    BY <1>0, <1>4, <1>7, <1>8, <2>2 DEF TypeInv
  <2> QED BY <1>7, <2>3, <2>4, <2>5, <2>6, <2>8, <2>9 DEF StatesInv
<1> QED
  BY <1>11, <1>12

LEMMA RemoveRenamedKeeps ==
  ASSUME StatesInv, NEW i \in InFlight, RemoveRenamed(i)
  PROVE  StatesInv'
<1> DEFINE from == Key(ops[i].name)
<1>0. ops \in Seq(Op) /\ owed \in SUBSET Nat /\ crossed \in BOOLEAN
  BY DEF StatesInv, TypeInv
<1>1. ops[i].kind = "rename" /\ ops[i].step = "remove"
  BY DEF RemoveRenamed
<1>2. Leaving(from)
  BY <1>1 DEF Leaving
<1>3. store' = Without(from) /\ UNCHANGED <<owed, crossed>> /\ To(i, "done")
  BY DEF RemoveRenamed
<1> HIDE DEF from
<1>4. /\ store' \in [DOMAIN store' -> Text] /\ NamesLead'
      /\ DOMAIN store' = DOMAIN store \ {from}
      /\ \A x \in DOMAIN store' : store'[x] = store[x]
  BY <1>3, FileRemoved
<1>5. ASSUME ~crossed', NEW id \in owed'
      PROVE  \E x \in DOMAIN store' : store'[x].id = id /\
               \A j \in InFlight \ {i} : ops[j].kind = "rename" /\ ops[j].step = "remove"
                                           => Key(ops[j].name) # x
  <2>1. PICK x \in DOMAIN store : store[x].id = id /\ ~Leaving(x)
    BY <1>3, <1>5 DEF StatesInv, Stays
  <2>2. x # from
    BY <1>2, <2>1
  <2> QED BY <1>4, <2>1, <2>2 DEF Leaving
<1>6. \A x : x \in DOMAIN store' => x \in DOMAIN store /\ store'[x] = store[x]
  BY <1>4
<1> QED
  BY <1>0, <1>3, <1>4, <1>5, <1>6, Settling

-----------------------------------------------------------------------------
(* Deleting, failing. *)

LEMMA CheckDeletedKeeps ==
  ASSUME StatesInv, NEW i \in InFlight, CheckDeleted(i)
  PROVE  StatesInv'
<1> DEFINE step == IF Taken(ops[i].name) THEN "remove" ELSE "done"
<1>0. ops \in Seq(Op)
  BY DEF StatesInv, TypeInv
<1>1. OnItsWay(i) /\ ops[i].kind = "delete"
  BY DEF StatesInv, CheckDeleted
<1>2. UNCHANGED <<store, owed, crossed>> /\ step \in Steps /\ To(i, step)
  BY DEF CheckDeleted, Steps
<1> HIDE DEF step
<1>3. ASSUME step \notin Over PROVE OnItsWay(i)' /\ Found(i)'
  <2>1. /\ ops'[i].kind = ops[i].kind
        /\ ops'[i].name = ops[i].name /\ ops'[i].to = ops[i].to /\ ops'[i].text = ops[i].text
    BY <1>0, <1>2, <1>3, GoesTo
  <2> QED BY <1>1, <2>1 DEF OnItsWay, Found
<1> QED
  BY <1>1, <1>2, <1>3, GoingOn

LEMMA RemoveDeletedKeeps ==
  ASSUME StatesInv, NEW i \in InFlight, RemoveDeleted(i)
  PROVE  StatesInv'
<1> DEFINE k == Key(ops[i].name)
<1>0. owed \in SUBSET Nat /\ crossed \in BOOLEAN
  BY DEF StatesInv, TypeInv
<1>1. /\ store' = Without(k) /\ To(i, "done") /\ UNCHANGED crossed
      /\ owed' = IF k \in DOMAIN store THEN owed \ {store[k].id} ELSE owed
  BY DEF RemoveDeleted
<1> HIDE DEF k
<1>2. /\ store' \in [DOMAIN store' -> Text] /\ NamesLead'
      /\ DOMAIN store' = DOMAIN store \ {k}
      /\ \A x \in DOMAIN store' : store'[x] = store[x]
  BY <1>1, FileRemoved
<1>3. ASSUME ~crossed', NEW id \in owed'
      PROVE  \E x \in DOMAIN store' : store'[x].id = id /\
               \A j \in InFlight \ {i} : ops[j].kind = "rename" /\ ops[j].step = "remove"
                                           => Key(ops[j].name) # x
  <2>1. id \in owed /\ (k \in DOMAIN store => store[k].id # id)
    BY <1>1, <1>3
  <2>2. PICK x \in DOMAIN store : store[x].id = id /\ ~Leaving(x)
    BY <1>1, <1>3, <2>1 DEF StatesInv, Stays
  <2> QED BY <1>2, <2>1, <2>2 DEF Leaving
<1>4. owed' \in SUBSET Nat
  BY <1>0, <1>1
<1>5. \A x : x \in DOMAIN store' => x \in DOMAIN store /\ store'[x] = store[x]
  BY <1>2
<1> QED
  BY <1>0, <1>1, <1>2, <1>3, <1>4, <1>5, Settling

LEMMA FailKeeps ==
  ASSUME StatesInv, NEW i \in InFlight, Fail(i)
  PROVE  StatesInv'
<1>1. UNCHANGED <<store, owed, crossed>> /\ To(i, "failed") /\ "failed" \in Steps /\ "failed" \in Over
  BY DEF Fail, Steps, Over
<1> QED
  BY <1>1, GoingOn

-----------------------------------------------------------------------------
(* Every behaviour. *)

LEMMA NamesAsked ==
  ASSUME StatesInv
  PROVE  Asked \subseteq Name /\ \A b \in Bases : <<b, 1>> \in Name
BY DEF StatesInv, TypeInv, Asked, Name, Text

LEMMA StatesNextKeeps ==
  ASSUME StatesInv, [Next]_vars
  PROVE  StatesInv'
<1>0. {"save", "import"} \subseteq OpKinds /\ "rename" \in OpKinds /\ "delete" \in OpKinds
  BY DEF OpKinds
<1>1. CASE \E kind \in {"save", "import"}, b \in Bases : Ask(kind, <<b, 1>>, <<b, 1>>)
  <2>1. PICK kind \in {"save", "import"} : \E b \in Bases : Ask(kind, <<b, 1>>, <<b, 1>>)
    BY <1>1
  <2>2. PICK b \in Bases : Ask(kind, <<b, 1>>, <<b, 1>>)
    BY <2>1
  <2> QED BY <1>0, <2>2, NamesAsked, AskKeeps
<1>2. CASE \E name \in Asked, b \in Bases : Ask("rename", name, <<b, 1>>)
  <2>1. PICK name \in Asked : \E b \in Bases : Ask("rename", name, <<b, 1>>)
    BY <1>2
  <2>2. PICK b \in Bases : Ask("rename", name, <<b, 1>>)
    BY <2>1
  <2> QED BY <1>0, <2>2, NamesAsked, AskKeeps
<1>3. CASE \E name \in Asked : Ask("delete", name, name)
  BY <1>0, <1>3, NamesAsked, AskKeeps
<1>4. ASSUME NEW i \in InFlight,
             \/ Save(i) \/ Probe(i) \/ WriteImport(i)
             \/ ReadRenamed(i) \/ CheckRenamed(i) \/ WriteRenamed(i) \/ RemoveRenamed(i)
             \/ CheckDeleted(i) \/ RemoveDeleted(i)
             \/ Fail(i)
      PROVE  StatesInv'
  BY <1>4, SaveKeeps, ProbeKeeps, WriteImportKeeps, ReadRenamedKeeps, CheckRenamedKeeps,
     WriteRenamedKeeps, RemoveRenamedKeeps, CheckDeletedKeeps, RemoveDeletedKeeps, FailKeeps
<1>5. CASE UNCHANGED vars
  <2>1. UNCHANGED <<store, ops, owed, crossed>>
    BY <1>5 DEF vars
  <2>2. TypeInv' /\ NamesLead' /\ InFlight' = InFlight
    BY <2>1 DEF StatesInv, TypeInv, NamesLead, InFlight
  <2>3. \A i \in InFlight : (OnItsWay(i) => OnItsWay(i)') /\ (Found(i) => Found(i)')
    BY <2>1 DEF OnItsWay, Found, MyTurn, Taken
  <2>4. Stays => Stays'
    BY <2>1, <2>2 DEF Stays, Leaving
  <2> QED BY <2>1, <2>2, <2>3, <2>4 DEF StatesInv
<1>6. CASE Finished
  BY <1>5, <1>6 DEF Finished
<1> QED
  BY <1>1, <1>2, <1>3, <1>4, <1>5, <1>6 DEF Next

LEMMA InitKeeps ==
  ASSUME Init
  PROVE  StatesInv
<1>1. store = << >> /\ ops = << >> /\ owed = {} /\ DOMAIN store = {} /\ DOMAIN ops = {} /\ crossed = FALSE
  BY DEF Init
<1>2. InFlight = {}
  BY <1>1 DEF InFlight
<1>3. TypeInv
  <2>1. ops \in Seq(Op)
    BY <1>1
  <2>2. store \in [DOMAIN store -> Text]
    BY <1>1
  <2> QED BY <1>1, <2>1, <2>2 DEF TypeInv
<1>4. Stays /\ NamesLead
  BY <1>1 DEF Stays, NamesLead
<1> QED
  BY <1>2, <1>3, <1>4 DEF StatesInv

(* Where every request stands, in every behaviour: until a request writes   *)
(* what another goes by, what one that is under way has found out of the    *)
(* files holds at its next step, though it awaited the host in between and  *)
(* any other request ran meanwhile; and what is owed is in a file no rename *)
(* is about to remove (debug-adapter/src/session.ts).                       *)
THEOREM RequestsStand == Spec => []StatesInv
<1>1. Init => StatesInv
  BY InitKeeps
<1>2. StatesInv /\ [Next]_vars => StatesInv'
  BY StatesNextKeeps
<1> QED
  BY <1>1, <1>2, PTL DEF Spec

(* The one way to lose a state: whichever requests overlap, without any     *)
(* assumption on what clients send, and whichever fail, a state someone was *)
(* told is kept is lost only after a save, an import or a rename wrote a    *)
(* file another request went by; imports alone never do that.  The name a   *)
(* listed state shows leads to it in any case (debug-adapter/src/session.ts,*)
(* #saveState to #removeFile; debug-ui/src/session-transport.ts).           *)
THEOREM StatesAreKept == Spec => []StatesKept
<1>1. StatesInv => StatesKept
  BY DEF StatesInv, TypeInv, Stays, NothingLost, StatesKept
<1> QED
  BY <1>1, RequestsStand, PTL

-----------------------------------------------------------------------------
(* The debug adapter                                                       *)

Kinds == {"none", "launch", "restart", "terminate", "stream", "setLabel"}
Stages == {"new", "saving", "creating", "configuring", "retiring", "connecting", "writing", "done"}
Maybe(S) == S \cup {None}

Core == [state : {"unborn", "stopped", "running", "disposed"}, epoch : Nat, revision : Nat,
         breakpoints : Nat, labels : SUBSET Tasks, dirty : BOOLEAN, wired : BOOLEAN, audio : BOOLEAN]
Handle == [on : Maybe(Sessions), epoch : Nat, revision : Nat, read : BOOLEAN, readAt : Nat]
Told == [thread : {"none", "stopped", "running"},
         state : {"none", "unborn", "stopped", "running", "disposed"}, epoch : Nat]
Request == [kind : Kinds, stage : Stages, on : Maybe(Sessions), next : Maybe(Sessions),
            wish : BOOLEAN, text : SUBSET Tasks, answers : Nat]

Adapters ==
  [core : [Sessions -> Core], session : Maybe(Sessions), launched : BOOLEAN, stopOnEntry : BOOLEAN,
   unwire : Maybe(Sessions), configurationDone : Maybe(Tasks), epochBase : Nat, breakpoints : Nat,
   handles : Seq(Handle), audioOff : Maybe(Sessions), audioWanted : BOOLEAN,
   stream : {"closed", "connected"}, pending : Maybe(Tasks), told : Told, fresh : BOOLEAN]

AdapterTypes ==
  /\ a \in Adapters
  /\ task \in [Tasks -> Request]
  /\ disk \subseteq Tasks
  /\ moves \in Nat

-----------------------------------------------------------------------------
(* The invariant: where each request is, and what that says of the         *)
(* sessions.                                                               *)

IsA(t, kind, stage) == task[t].kind = kind /\ task[t].stage = stage
Configuring == \E t \in Tasks : task[t].stage = "configuring"
Replacing == \E t \in Tasks : IsA(t, "restart", "retiring")

\* A request's stage is one of its kind, and it was not answered before it is done.
Shaped(t) ==
  /\ task[t].stage = "saving" => task[t].kind = "restart"
  /\ task[t].stage = "creating" => task[t].kind \in {"launch", "restart"}
  /\ task[t].stage = "configuring" => task[t].kind = "launch"
  /\ task[t].stage = "retiring" => task[t].kind \in {"restart", "terminate"}
  /\ task[t].stage = "connecting" => task[t].kind = "stream"
  /\ task[t].stage = "writing" => task[t].kind = "setLabel"
  /\ task[t].answers <= IF task[t].stage = "done" THEN 1 ELSE 0

\* A launch and a restart are under way alone, a restart without a stream that connects.
UnderWay == {"launch", "restart"}
Alone ==
  \A t, u \in Tasks : Awaits(t) /\ Awaits(u) /\ task[t].kind \in UnderWay =>
    /\ task[u].kind \in UnderWay => t = u
    /\ task[t].kind = "restart" => task[u].kind # "stream"

\* What each request under way holds.
Holding(t) ==
  /\ IsA(t, "launch", "creating") => ~a.launched
  /\ task[t].stage = "configuring" =>
       /\ a.session # None /\ task[t].next = a.session
       /\ a.core[a.session].state = "stopped" /\ a.told.thread = "none"
  /\ task[t].kind = "restart" /\ Awaits(t) => a.session # None /\ task[t].on = a.session
  /\ IsA(t, "restart", "retiring") =>
       /\ task[t].next \in Sessions \ {a.session}
       /\ a.core[task[t].next].state = "stopped" /\ a.audioOff = None
  /\ IsA(t, "terminate", "retiring") => a.session = None /\ task[t].on # None
  /\ task[t].stage = "connecting" /\ a.pending = t => a.session # None /\ task[t].on = a.session
  /\ task[t].stage = "writing" => task[t].on # None
  /\ task[t].on # None => a.core[task[t].on].state # "unborn"
  /\ task[t].kind = "setLabel" /\ task[t].on # None => t \in a.core[task[t].on].labels

\* Before the launch there is nothing.
Untouched ==
  ~a.launched =>
    /\ a.session = None
    /\ a.told.thread = "none" /\ a.told.epoch = 0 /\ a.breakpoints = 0 /\ a.handles = <<>>
    /\ a.stream = "closed"
    /\ \A s \in Sessions : a.core[s].state = "unborn"

\* Why a session lives, and who hears it.
Held ==
  \A s \in Sessions :
    /\ Alive(a, s) =>
         \/ s = a.session
         \/ \E t \in Tasks : \/ IsA(t, "restart", "retiring") /\ task[t].next = s
                             \/ IsA(t, "terminate", "retiring") /\ task[t].on = s
    /\ a.core[s].wired => s = a.session /\ s = a.unwire
    /\ a.core[s].audio => s = a.session /\ a.audioOff = s

\* The session requests go to.
InUse ==
  a.session # None =>
    /\ a.launched
    /\ Alive(a, a.session)
    /\ a.core[a.session].breakpoints = a.breakpoints
    /\ a.told.epoch <= a.core[a.session].epoch + a.epochBase
    /\ \A n \in DOMAIN a.handles :
         /\ a.handles[n].on = a.session
         /\ a.handles[n].read => a.handles[n].readAt = a.handles[n].revision
    /\ ~Replacing =>
         /\ a.core[a.session].wired
         /\ a.stream = "connected" /\ a.audioWanted => a.audioOff = a.session
         /\ ~Configuring => /\ a.told.thread = a.core[a.session].state
                            /\ a.told.state = a.core[a.session].state

AdapterInv ==
  /\ AdapterTypes
  /\ \A t \in Tasks : Shaped(t) /\ Holding(t)
  /\ Alone
  /\ Untouched
  /\ Held
  /\ InUse
  /\ a.fresh
-----------------------------------------------------------------------------
(* What the adapter's own operators leave.                                 *)

\* All that only the requests themselves change.
SameRest(b, c) ==
  /\ c.session = b.session /\ c.launched = b.launched /\ c.stopOnEntry = b.stopOnEntry
  /\ c.configurationDone = b.configurationDone /\ c.epochBase = b.epochBase
  /\ c.breakpoints = b.breakpoints /\ c.audioWanted = b.audioWanted /\ c.stream = b.stream
  /\ c.pending = b.pending /\ c.fresh = b.fresh

LEMMA NothingIsNoSession == None \notin Sessions /\ None \notin Tasks
BY DEF None, Sessions, Tasks

LEMMA StateBodyTells ==
  ASSUME NEW b \in Adapters, b.session \in Sessions
  PROVE  /\ StateBody(b) \in Adapters
         /\ SameRest(b, StateBody(b)) /\ StateBody(b).core = b.core /\ StateBody(b).unwire = b.unwire
         /\ StateBody(b).handles = b.handles /\ StateBody(b).audioOff = b.audioOff
         /\ StateBody(b).told = [thread |-> b.told.thread, state |-> b.core[b.session].state,
                                 epoch |-> b.core[b.session].epoch + b.epochBase]
<1>1. b.core[b.session].state \in {"unborn", "stopped", "running", "disposed"}
      /\ b.core[b.session].epoch + b.epochBase \in Nat
  BY DEF Adapters, Core
<1>2. b.session # None
  BY NothingIsNoSession
<1> QED
  BY <1>1, <1>2 DEF StateBody, Adapters, Told, SameRest

LEMMA SendStoppedTells ==
  ASSUME NEW b \in Adapters, b.session \in Sessions, NEW thread \in {"stopped", "running"},
         NEW c, c = StateBody([b EXCEPT !.handles = <<>>, !.told.thread = thread])
  PROVE  /\ c \in Adapters
         /\ SameRest(b, c) /\ c.core = b.core /\ c.unwire = b.unwire
         /\ c.handles = <<>> /\ c.audioOff = b.audioOff
         /\ c.told = [thread |-> thread, state |-> b.core[b.session].state,
                      epoch |-> b.core[b.session].epoch + b.epochBase]
<1> DEFINE d == [b EXCEPT !.handles = <<>>, !.told.thread = thread]
<1>0. <<>> \in Seq(Handle) /\ b.told \in Told
  BY DEF Adapters
<1>1. /\ d \in Adapters /\ SameRest(b, d) /\ d.core = b.core /\ d.unwire = b.unwire
      /\ d.handles = <<>> /\ d.audioOff = b.audioOff /\ d.told.thread = thread
  BY <1>0 DEF Adapters, Told, SameRest
<1> HIDE DEF d
<1>2. c = StateBody(d) /\ d.session \in Sessions
  BY <1>1 DEF d, SameRest
<1> QED
  BY <1>1, <1>2, StateBodyTells DEF SameRest

LEMMA TurnedIsCore ==
  ASSUME NEW core \in Core, NEW state \in {"stopped", "running"}
  PROVE  /\ Turned(core, state) \in Core
         /\ Turned(core, state) = [core EXCEPT !.state = state, !.revision = core.revision + 1]
         /\ Turned(core, state).wired = core.wired
<1>1. core.revision + 1 \in Nat
  BY DEF Core
<1>2. ASSUME NEW n \in Nat
      PROVE  [core EXCEPT !.state = state, !.revision = n] \in Core
  BY DEF Core
<1>3. Turned(core, state) = [core EXCEPT !.state = state, !.revision = core.revision + 1]
  BY DEF Turned, Core
<1>4. [core EXCEPT !.state = state, !.revision = core.revision + 1].wired = core.wired
  BY DEF Core
<1> QED
  BY <1>1, <1>2, <1>3, <1>4

\* One session replaced.
CoreSet(b, c, s, x) ==
  /\ c \in Adapters /\ SameRest(b, c) /\ c.unwire = b.unwire /\ c.audioOff = b.audioOff
  /\ c.handles = b.handles /\ c.told = b.told
  /\ c.core = [b.core EXCEPT ![s] = x] /\ c.core[s] = x

LEMMA OneSessionSet ==
  ASSUME NEW b \in Adapters, NEW s \in Sessions, NEW x \in Core, NEW c, c = [b EXCEPT !.core[s] = x]
  PROVE  CoreSet(b, c, s, x)
<1>1. c.core = [b.core EXCEPT ![s] = x]
  BY DEF Adapters
<1>2. c \in Adapters /\ c.core[s] = x
  BY DEF Adapters
<1>3. /\ SameRest(b, c) /\ c.unwire = b.unwire /\ c.audioOff = b.audioOff
      /\ c.handles = b.handles /\ c.told = b.told
  BY DEF Adapters, SameRest
<1> QED
  BY <1>1, <1>2, <1>3 DEF CoreSet

LEMMA CoreFields ==
  ASSUME NEW x \in Core, NEW on \in BOOLEAN, NEW n \in Nat
  PROVE  /\ [x EXCEPT !.wired = on] \in Core
         /\ [x EXCEPT !.audio = on] \in Core
         /\ [x EXCEPT !.dirty = on] \in Core
         /\ [x EXCEPT !.epoch = n] \in Core
         /\ [x EXCEPT !.revision = n] \in Core
         /\ [x EXCEPT !.breakpoints = n] \in Core
         /\ [x EXCEPT !.state = "disposed", !.wired = FALSE, !.audio = FALSE] \in Core
         /\ x.epoch + 1 \in Nat /\ x.revision + 1 \in Nat
<1>1. [x EXCEPT !.wired = on] \in Core /\ [x EXCEPT !.audio = on] \in Core
  BY DEF Core
<1>2. [x EXCEPT !.dirty = on] \in Core
  BY DEF Core
<1>3. [x EXCEPT !.epoch = n] \in Core /\ [x EXCEPT !.revision = n] \in Core
  BY DEF Core
<1>4. [x EXCEPT !.breakpoints = n] \in Core
  BY DEF Core
<1>5. [x EXCEPT !.state = "disposed", !.wired = FALSE, !.audio = FALSE] \in Core
  BY DEF Core
<1>6. x.epoch + 1 \in Nat /\ x.revision + 1 \in Nat
  BY DEF Core
<1> QED
  BY <1>1, <1>2, <1>3, <1>4, <1>5, <1>6

LEMMA WireSets ==
  ASSUME NEW b \in Adapters, NEW s \in Sessions, NEW on \in BOOLEAN
  PROVE  /\ CoreSet(b, Wire(b, s, on), s, [b.core[s] EXCEPT !.wired = on])
         /\ CoreSet(b, Hear(b, s, on), s, [b.core[s] EXCEPT !.audio = on])
<1>1. b.core[s] \in Core /\ s # None
  BY NothingIsNoSession DEF Adapters
<1>2. /\ [b.core[s] EXCEPT !.wired = on] \in Core
      /\ [b.core[s] EXCEPT !.audio = on] \in Core
  BY <1>1, CoreFields
<1>3. /\ Wire(b, s, on) = [b EXCEPT !.core[s] = [b.core[s] EXCEPT !.wired = on]]
      /\ Hear(b, s, on) = [b EXCEPT !.core[s] = [b.core[s] EXCEPT !.audio = on]]
  BY <1>1 DEF Wire, Hear
<1> QED
  BY <1>2, <1>3, OneSessionSet

\* A session's stop, or its start, as the adapter hears it.
Moved(b, c, s, state) ==
  /\ c \in Adapters /\ SameRest(b, c) /\ c.unwire = b.unwire /\ c.audioOff = b.audioOff
  /\ c.core = [b.core EXCEPT ![s] = Turned(@, state)]
  /\ IF b.core[s].wired
       THEN /\ c.handles = <<>>
            /\ c.told = [thread |-> state, state |-> c.core[b.session].state,
                         epoch |-> c.core[b.session].epoch + b.epochBase]
       ELSE c.handles = b.handles /\ c.told = b.told

LEMMA StopTells ==
  ASSUME NEW b \in Adapters, NEW s \in Sessions, b.core[s].wired => b.session \in Sessions
  PROVE  Moved(b, Stop(b, s), s, "stopped") /\ Moved(b, BeginRun(b, s), s, "running")
<1>1. ASSUME NEW state \in {"stopped", "running"}, NEW c,
             c = [b EXCEPT !.core[s] = Turned(@, state)]
      PROVE  /\ CoreSet(b, c, s, Turned(b.core[s], state))
             /\ c.core[s].wired = b.core[s].wired
  <2>1. b.core[s] \in Core
    BY DEF Adapters
  <2>2. Turned(b.core[s], state) \in Core /\ Turned(b.core[s], state).wired = b.core[s].wired
    BY <2>1, TurnedIsCore
  <2>3. c = [b EXCEPT !.core[s] = Turned(b.core[s], state)]
    BY <1>1 DEF Adapters
  <2>4. CoreSet(b, c, s, Turned(b.core[s], state))
    BY <2>2, <2>3, OneSessionSet
  <2> QED
    BY <2>2, <2>4 DEF CoreSet
<1>2. Moved(b, Stop(b, s), s, "stopped")
  <2> DEFINE c == [b EXCEPT !.core[s] = Turned(@, "stopped")]
  <2>1. CoreSet(b, c, s, Turned(b.core[s], "stopped")) /\ c.core[s].wired = b.core[s].wired
    BY <1>1
  <2> HIDE DEF c
  <2>2. Stop(b, s) = IF c.core[s].wired THEN SendStopped(c) ELSE c
    BY DEF Stop, c
  <2>3. CASE b.core[s].wired
    <3>1. c.session \in Sessions /\ Stop(b, s) = SendStopped(c)
      BY <2>1, <2>2, <2>3 DEF SameRest, CoreSet
    <3> DEFINE d == SendStopped(c)
    <3>2. d = StateBody([c EXCEPT !.handles = <<>>, !.told.thread = "stopped"])
      BY DEF SendStopped
    <3> HIDE DEF d
    <3>3. /\ d \in Adapters
          /\ SameRest(c, d) /\ d.core = c.core /\ d.unwire = c.unwire
          /\ d.handles = <<>> /\ d.audioOff = c.audioOff
          /\ d.told = [thread |-> "stopped", state |-> c.core[c.session].state,
                       epoch |-> c.core[c.session].epoch + c.epochBase]
      BY <2>1, <3>1, <3>2, SendStoppedTells DEF CoreSet
    <3> QED
      BY <2>1, <2>3, <3>1, <3>3 DEF Moved, CoreSet, SameRest, d
  <2>4. CASE ~b.core[s].wired
    BY <2>1, <2>2, <2>4 DEF Moved, CoreSet
  <2> QED BY <2>3, <2>4
<1>3. Moved(b, BeginRun(b, s), s, "running")
  <2> DEFINE c == [b EXCEPT !.core[s] = Turned(@, "running")]
  <2>1. CoreSet(b, c, s, Turned(b.core[s], "running")) /\ c.core[s].wired = b.core[s].wired
    BY <1>1
  <2> HIDE DEF c
  <2>2. BeginRun(b, s) = IF c.core[s].wired THEN Continued(c) ELSE c
    BY DEF BeginRun, c
  <2>3. CASE b.core[s].wired
    <3>1. c.session \in Sessions /\ BeginRun(b, s) = Continued(c)
      BY <2>1, <2>2, <2>3 DEF SameRest, CoreSet
    <3> DEFINE d == Continued(c)
    <3>2. d = StateBody([c EXCEPT !.handles = <<>>, !.told.thread = "running"])
      BY DEF Continued
    <3> HIDE DEF d
    <3>3. /\ d \in Adapters
          /\ SameRest(c, d) /\ d.core = c.core /\ d.unwire = c.unwire
          /\ d.handles = <<>> /\ d.audioOff = c.audioOff
          /\ d.told = [thread |-> "running", state |-> c.core[c.session].state,
                       epoch |-> c.core[c.session].epoch + c.epochBase]
      BY <2>1, <3>1, <3>2, SendStoppedTells DEF CoreSet
    <3> QED
      BY <2>1, <2>3, <3>1, <3>3 DEF Moved, CoreSet, SameRest, d
  <2>4. CASE ~b.core[s].wired
    BY <2>1, <2>2, <2>4 DEF Moved, CoreSet
  <2> QED BY <2>3, <2>4
<1> QED
  BY <1>2, <1>3
\* The audio is let go of, and heard from another session.
Muted(b, c) ==
  /\ c \in Adapters /\ SameRest(b, c) /\ c.unwire = b.unwire /\ c.handles = b.handles
  /\ c.told = b.told /\ c.audioOff = None
  /\ \A s \in Sessions :
       c.core[s] = IF s = b.audioOff THEN [b.core[s] EXCEPT !.audio = FALSE] ELSE b.core[s]

LEMMA AudioOffMutes ==
  ASSUME NEW b \in Adapters
  PROVE  Muted(b, AudioOff(b))
<1> DEFINE c == Hear(b, b.audioOff, FALSE)
<1>1. /\ c \in Adapters /\ SameRest(b, c) /\ c.unwire = b.unwire /\ c.handles = b.handles
      /\ c.told = b.told
      /\ \A s \in Sessions :
           c.core[s] = IF s = b.audioOff THEN [b.core[s] EXCEPT !.audio = FALSE] ELSE b.core[s]
  <2>1. CASE b.audioOff = None
    BY <2>1, NothingIsNoSession DEF Hear, SameRest
  <2>2. CASE b.audioOff \in Sessions
    <3>1. CoreSet(b, c, b.audioOff, [b.core[b.audioOff] EXCEPT !.audio = FALSE])
      BY <2>2, WireSets
    <3> HIDE DEF c
    <3>2. b.core \in [Sessions -> Core]
      BY DEF Adapters
    <3> QED BY <2>2, <3>1, <3>2 DEF CoreSet
  <2> QED BY <2>1, <2>2 DEF Adapters, Maybe
<1>2. AudioOff(b) = [c EXCEPT !.audioOff = None]
  BY DEF AudioOff
<1> HIDE DEF c
<1>3. /\ [c EXCEPT !.audioOff = None] \in Adapters
      /\ SameRest(c, [c EXCEPT !.audioOff = None])
      /\ [c EXCEPT !.audioOff = None].unwire = c.unwire
      /\ [c EXCEPT !.audioOff = None].handles = c.handles
      /\ [c EXCEPT !.audioOff = None].told = c.told
      /\ [c EXCEPT !.audioOff = None].core = c.core
      /\ [c EXCEPT !.audioOff = None].audioOff = None
  BY <1>1 DEF Adapters, SameRest, Maybe
<1> QED
  BY <1>1, <1>2, <1>3 DEF Muted, SameRest

Heard(b, c, n) ==
  /\ c \in Adapters /\ SameRest(b, c) /\ c.unwire = b.unwire /\ c.handles = b.handles
  /\ c.told = b.told /\ c.audioOff = n
  /\ \A s \in Sessions :
       c.core[s] = IF s = n THEN [b.core[s] EXCEPT !.audio = TRUE]
                   ELSE IF s = b.audioOff THEN [b.core[s] EXCEPT !.audio = FALSE] ELSE b.core[s]

LEMMA ListenAudioHears ==
  ASSUME NEW b \in Adapters, NEW n \in Sessions
  PROVE  Heard(b, ListenAudio(b, n), n)
<1> DEFINE c == AudioOff(b)
           d == Hear(c, n, TRUE)
<1>1. Muted(b, c)
  BY AudioOffMutes
<1> HIDE DEF c
<1>2. CoreSet(c, d, n, [c.core[n] EXCEPT !.audio = TRUE])
  BY <1>1, WireSets DEF Muted
<1>3. ListenAudio(b, n) = [d EXCEPT !.audioOff = n]
  BY DEF ListenAudio, c
<1> HIDE DEF d
<1>4. /\ [d EXCEPT !.audioOff = n] \in Adapters
      /\ SameRest(d, [d EXCEPT !.audioOff = n])
      /\ [d EXCEPT !.audioOff = n].unwire = d.unwire
      /\ [d EXCEPT !.audioOff = n].handles = d.handles
      /\ [d EXCEPT !.audioOff = n].told = d.told
      /\ [d EXCEPT !.audioOff = n].core = d.core
      /\ [d EXCEPT !.audioOff = n].audioOff = n
  BY <1>2 DEF Adapters, SameRest, Maybe, CoreSet
<1>5. c.core \in [Sessions -> Core] /\ b.core \in [Sessions -> Core]
  BY <1>1 DEF Adapters, Muted
<1>6. [c.core[n] EXCEPT !.audio = TRUE] = [b.core[n] EXCEPT !.audio = TRUE]
  <2>1. b.core[n] \in Core
    BY <1>5
  <2>2. [[b.core[n] EXCEPT !.audio = FALSE] EXCEPT !.audio = TRUE] = [b.core[n] EXCEPT !.audio = TRUE]
    BY <2>1 DEF Core
  <2> QED BY <1>1, <2>2 DEF Muted
<1>7. \A s \in Sessions : d.core[s] = IF s = n THEN [b.core[s] EXCEPT !.audio = TRUE] ELSE c.core[s]
  BY <1>2, <1>5, <1>6 DEF CoreSet
<1>8. \A s \in Sessions :
        d.core[s] = IF s = n THEN [b.core[s] EXCEPT !.audio = TRUE]
                    ELSE IF s = b.audioOff THEN [b.core[s] EXCEPT !.audio = FALSE] ELSE b.core[s]
  BY <1>1, <1>7 DEF Muted
<1>9. /\ SameRest(b, d) /\ d.unwire = b.unwire /\ d.handles = b.handles /\ d.told = b.told
  BY <1>1, <1>2 DEF Muted, SameRest, CoreSet
<1> DEFINE e == [d EXCEPT !.audioOff = n]
<1> HIDE DEF e
<1>10. Heard(b, e, n)
  BY <1>4, <1>8, <1>9 DEF Heard, SameRest, e
<1> QED
  BY <1>3, <1>10 DEF e
\* What a session keeps whoever hears it and however it runs.
SameStore(x, y) ==
  y.epoch = x.epoch /\ y.breakpoints = x.breakpoints /\ y.labels = x.labels /\ y.dirty = x.dirty

\* The session is let go of: nobody hears it.
Retired(b, c) ==
  /\ c \in Adapters /\ SameRest(b, c) /\ c.handles = b.handles /\ c.told = b.told
  /\ c.unwire = None /\ c.audioOff = None
  /\ \A s \in Sessions :
       /\ SameStore(b.core[s], c.core[s]) /\ c.core[s].state = b.core[s].state
       /\ c.core[s].wired <=> b.core[s].wired /\ s # b.unwire
       /\ c.core[s].audio <=> b.core[s].audio /\ s # b.audioOff

LEMMA RetireRetires ==
  ASSUME NEW b \in Adapters
  PROVE  Retired(b, Retire(b))
<1> DEFINE c == Wire(b, b.unwire, FALSE)
           d == [c EXCEPT !.unwire = None]
<1>1. /\ c \in Adapters /\ SameRest(b, c) /\ c.audioOff = b.audioOff /\ c.handles = b.handles
      /\ c.told = b.told
      /\ \A s \in Sessions :
           c.core[s] = IF s = b.unwire THEN [b.core[s] EXCEPT !.wired = FALSE] ELSE b.core[s]
  <2>1. CASE b.unwire = None
    BY <2>1, NothingIsNoSession DEF Wire, SameRest
  <2>2. CASE b.unwire \in Sessions
    <3>1. CoreSet(b, c, b.unwire, [b.core[b.unwire] EXCEPT !.wired = FALSE])
      BY <2>2, WireSets
    <3> HIDE DEF c
    <3>2. b.core \in [Sessions -> Core]
      BY DEF Adapters
    <3> QED BY <2>2, <3>1, <3>2 DEF CoreSet
  <2> QED BY <2>1, <2>2 DEF Adapters, Maybe
<1> HIDE DEF c
<1>2. /\ d \in Adapters /\ SameRest(c, d) /\ d.audioOff = c.audioOff /\ d.handles = c.handles
      /\ d.told = c.told /\ d.core = c.core /\ d.unwire = None
  BY <1>1 DEF Adapters, SameRest, Maybe
<1>3. Retire(b) = AudioOff(d)
  BY DEF Retire, c
<1> HIDE DEF d
<1> DEFINE e == AudioOff(d)
<1>4. Muted(d, e)
  BY <1>2, AudioOffMutes
<1> HIDE DEF e
<1>5. ASSUME NEW s \in Sessions
      PROVE  /\ SameStore(b.core[s], e.core[s]) /\ e.core[s].state = b.core[s].state
             /\ e.core[s].wired <=> b.core[s].wired /\ s # b.unwire
             /\ e.core[s].audio <=> b.core[s].audio /\ s # b.audioOff
  <2> DEFINE x == b.core[s]
             y == c.core[s]
  <2>1. x \in Core /\ y \in Core
    BY <1>1 DEF Adapters
  <2>2. /\ y = IF s = b.unwire THEN [x EXCEPT !.wired = FALSE] ELSE x
        /\ e.core[s] = IF s = b.audioOff THEN [y EXCEPT !.audio = FALSE] ELSE y
    BY <1>1, <1>2, <1>4 DEF Muted
  <2> HIDE DEF x, y
  <2>3. /\ SameStore(x, y) /\ y.state = x.state /\ y.audio = x.audio
        /\ y.wired <=> x.wired /\ s # b.unwire
    BY <2>1, <2>2 DEF Core, SameStore
  <2>4. /\ SameStore(y, e.core[s]) /\ e.core[s].state = y.state /\ e.core[s].wired = y.wired
        /\ e.core[s].audio <=> y.audio /\ s # b.audioOff
    BY <2>1, <2>2 DEF Core, SameStore
  <2> QED
    BY <2>3, <2>4 DEF SameStore, x
<1>6. Retired(b, e)
  BY <1>1, <1>2, <1>4, <1>5 DEF Retired, Muted, SameRest
<1> QED
  BY <1>3, <1>6 DEF e

LEMMA BornIsCore ==
  ASSUME disk \subseteq Tasks
  PROVE  LET x == Born(disk)
             y == [x EXCEPT !.wired = TRUE]
         IN  /\ x \in Core /\ y \in Core
             /\ x.state = "stopped" /\ ~x.wired /\ ~x.audio /\ x.breakpoints = 0 /\ x.epoch = 0
             /\ y.state = "stopped" /\ y.wired /\ ~y.audio /\ y.breakpoints = 0 /\ y.epoch = 0
<1> DEFINE x == Born(disk)
           y == [x EXCEPT !.wired = TRUE]
<1>1. /\ x \in Core
      /\ x.state = "stopped" /\ ~x.wired /\ ~x.audio /\ x.breakpoints = 0 /\ x.epoch = 0
  BY DEF Born, Unborn, Core
<1> HIDE DEF x
<1>2. /\ y \in Core
      /\ y.state = "stopped" /\ y.wired /\ ~y.audio /\ y.breakpoints = 0 /\ y.epoch = 0
  BY <1>1 DEF Core
<1> QED
  BY <1>1, <1>2 DEF x

LEMMA CoreUpdates ==
  ASSUME NEW b \in Adapters, NEW s \in Sessions, disk \subseteq Tasks
  PROVE  /\ CoreSet(b, Created(b, s), s, Born(disk))
         /\ b.core[s].state # "disposed" \/ (~b.core[s].wired /\ ~b.core[s].audio)
              => CoreSet(b, Dispose(b, s), s,
                         [b.core[s] EXCEPT !.state = "disposed", !.wired = FALSE, !.audio = FALSE])
         /\ CoreSet(b, RestoreBreakpoints(b, s), s, [b.core[s] EXCEPT !.breakpoints = b.breakpoints])
<1>1. b.core \in [Sessions -> Core] /\ b.core[s] \in Core /\ b.breakpoints \in Nat
  BY DEF Adapters
<1>2. Born(disk) \in Core
  BY BornIsCore
<1>3. /\ [b.core[s] EXCEPT !.state = "disposed", !.wired = FALSE, !.audio = FALSE] \in Core
      /\ [b.core[s] EXCEPT !.breakpoints = b.breakpoints] \in Core
  BY <1>1, CoreFields
<1>4. Created(b, s) = [b EXCEPT !.core[s] = Born(disk)]
  BY DEF Created
<1>5. ASSUME b.core[s].state # "disposed" \/ (~b.core[s].wired /\ ~b.core[s].audio)
      PROVE  CoreSet(b, Dispose(b, s), s,
                     [b.core[s] EXCEPT !.state = "disposed", !.wired = FALSE, !.audio = FALSE])
  <2> DEFINE x == b.core[s]
             y == [x EXCEPT !.state = "disposed", !.wired = FALSE, !.audio = FALSE]
  <2>1. CASE x.state # "disposed"
    <3>1. Dispose(b, s) = [b EXCEPT !.core[s] = y]
      BY <1>1, <2>1 DEF Dispose, Adapters
    <3> QED
      BY <1>3, <3>1, OneSessionSet
  <2>2. CASE x.state = "disposed"
    <3>1. ASSUME NEW z \in Core, z.state = "disposed", ~z.wired, ~z.audio
          PROVE  [z EXCEPT !.state = "disposed", !.wired = FALSE, !.audio = FALSE] = z
      BY <3>1 DEF Core
    <3>2. y = x
      BY <1>1, <1>5, <2>2, <3>1
    <3>3. Dispose(b, s) = b
      BY <2>2 DEF Dispose
    <3>4. [b.core EXCEPT ![s] = x] = b.core
      BY <1>1
    <3> HIDE DEF y
    <3>5. CoreSet(b, b, s, y)
      BY <3>2, <3>4 DEF CoreSet, SameRest
    <3> QED
      BY <3>3, <3>5 DEF y
  <2> QED
    BY <2>1, <2>2
<1>6. RestoreBreakpoints(b, s) =
        [b EXCEPT !.core[s] = [b.core[s] EXCEPT !.breakpoints = b.breakpoints]]
  BY DEF RestoreBreakpoints
<1> QED
  BY <1>2, <1>3, <1>4, <1>5, <1>6, OneSessionSet

\* The labels of a session are saved, or are not.
OnlySaved(b, c) ==
  /\ c \in Adapters /\ SameRest(b, c) /\ c.unwire = b.unwire /\ c.audioOff = b.audioOff
  /\ c.handles = b.handles /\ c.told = b.told
  /\ \A r \in Sessions :
       /\ c.core[r].state = b.core[r].state /\ c.core[r].epoch = b.core[r].epoch
       /\ c.core[r].breakpoints = b.core[r].breakpoints
       /\ c.core[r].wired = b.core[r].wired /\ c.core[r].audio = b.core[r].audio
       /\ c.core[r].labels = b.core[r].labels

LEMMA SavedSaves ==
  ASSUME NEW b \in Adapters, NEW s \in Sessions, NEW written \in BOOLEAN
  PROVE  OnlySaved(b, Saved(b, s, written))
<1> DEFINE x == [b.core[s] EXCEPT !.dirty = FALSE]
           c == [b EXCEPT !.core[s] = x]
<1>1. b.core \in [Sessions -> Core] /\ b.core[s] \in Core
  BY DEF Adapters
<1>2. CASE written
  <2>1. x \in Core
    BY <1>1, CoreFields
  <2>2. /\ x.labels = b.core[s].labels /\ x.state = b.core[s].state
        /\ x.epoch = b.core[s].epoch /\ x.breakpoints = b.core[s].breakpoints
        /\ x.wired = b.core[s].wired /\ x.audio = b.core[s].audio
    BY <1>1 DEF Core
  <2>3. Saved(b, s, written) = c
    BY <1>2 DEF Saved
  <2> HIDE DEF x
  <2>4. CoreSet(b, c, s, x)
    BY <2>1, OneSessionSet
  <2> HIDE DEF c
  <2>5. \A r \in Sessions : c.core[r] = IF r = s THEN x ELSE b.core[r]
    BY <1>1, <2>4 DEF CoreSet
  <2>6. OnlySaved(b, c)
    BY <2>2, <2>4, <2>5 DEF OnlySaved, CoreSet
  <2> QED
    BY <2>3, <2>6
<1>3. CASE ~written
  BY <1>3 DEF Saved, OnlySaved, SameRest
<1> QED
  BY <1>2, <1>3

\* A session takes the requests.
Adopted(b, c, s, stopOnEntry) ==
  /\ c \in Adapters
  /\ c.session = s /\ c.launched = TRUE /\ c.stopOnEntry = stopOnEntry /\ c.unwire = s
  /\ c.configurationDone = b.configurationDone /\ c.epochBase = b.epochBase
  /\ c.breakpoints = b.breakpoints /\ c.audioWanted = b.audioWanted /\ c.stream = b.stream
  /\ c.pending = b.pending /\ c.fresh = b.fresh
  /\ c.handles = b.handles /\ c.told = b.told /\ c.audioOff = b.audioOff
  /\ c.core = [b.core EXCEPT ![s] = [b.core[s] EXCEPT !.wired = TRUE]]

LEMMA AdoptAdopts ==
  ASSUME NEW b \in Adapters, NEW s \in Sessions, NEW stopOnEntry \in BOOLEAN
  PROVE  Adopted(b, Adopt(b, s, stopOnEntry), s, stopOnEntry)
<1> DEFINE c == [b EXCEPT !.session = s, !.stopOnEntry = stopOnEntry, !.launched = TRUE,
                          !.unwire = s]
<1>1. /\ c \in Adapters
      /\ c.session = s /\ c.launched = TRUE /\ c.stopOnEntry = stopOnEntry /\ c.unwire = s
      /\ c.configurationDone = b.configurationDone /\ c.epochBase = b.epochBase
      /\ c.breakpoints = b.breakpoints /\ c.audioWanted = b.audioWanted /\ c.stream = b.stream
      /\ c.pending = b.pending /\ c.fresh = b.fresh
      /\ c.handles = b.handles /\ c.told = b.told /\ c.audioOff = b.audioOff /\ c.core = b.core
  BY DEF Adapters, Maybe
<1>2. Adopt(b, s, stopOnEntry) = Wire(c, s, TRUE)
  BY DEF Adopt
<1> HIDE DEF c
<1> DEFINE d == Wire(c, s, TRUE)
<1>3. CoreSet(c, d, s, [c.core[s] EXCEPT !.wired = TRUE])
  BY <1>1, WireSets
<1> HIDE DEF d
<1>4. Adopted(b, d, s, stopOnEntry)
  BY <1>1, <1>3 DEF Adopted, CoreSet, SameRest
<1> QED
  BY <1>2, <1>4 DEF d

\* A session freshly booted stands at its entry, or runs, and the client knows.
Begun(b, c, s) ==
  /\ c \in Adapters /\ SameRest(b, c) /\ c.unwire = b.unwire /\ c.audioOff = b.audioOff
  /\ c.handles = <<>>
  /\ c.core = [b.core EXCEPT ![s] = c.core[s]]
  /\ SameStore(b.core[s], c.core[s]) /\ c.core[s].state \in {"stopped", "running"}
  /\ c.core[s].wired = b.core[s].wired /\ c.core[s].audio = b.core[s].audio
  /\ c.told.thread = c.core[s].state /\ c.told.state = c.core[s].state
  /\ c.told.epoch = b.core[s].epoch + b.epochBase

LEMMA BeginBegins ==
  ASSUME NEW b \in Adapters, b.session \in Sessions,
         b.core[b.session].state = "stopped", b.core[b.session].wired
  PROVE  CanBegin(b, b.session) /\ Begun(b, Begin(b, b.session), b.session)
<1> DEFINE s == b.session
<1>1. CanBegin(b, s) /\ s # None
  BY NothingIsNoSession DEF CanBegin
<1>2. b.core \in [Sessions -> Core] /\ b.core[s] \in Core
  BY DEF Adapters
<1>3. CASE b.stopOnEntry
  <2> DEFINE c == SendStopped(b)
  <2>1. Begin(b, s) = c
    BY <1>1, <1>3 DEF Begin
  <2>2. c = StateBody([b EXCEPT !.handles = <<>>, !.told.thread = "stopped"])
    BY DEF SendStopped
  <2> HIDE DEF c
  <2>3. /\ c \in Adapters
        /\ SameRest(b, c) /\ c.core = b.core /\ c.unwire = b.unwire
        /\ c.handles = <<>> /\ c.audioOff = b.audioOff
        /\ c.told = [thread |-> "stopped", state |-> b.core[b.session].state,
                     epoch |-> b.core[b.session].epoch + b.epochBase]
    BY <2>2, SendStoppedTells
  <2>4. c.core = [b.core EXCEPT ![s] = c.core[s]]
    BY <1>2, <2>3
  <2>5. c.told.thread = "stopped" /\ c.told.state = b.core[s].state
        /\ c.told.epoch = b.core[s].epoch + b.epochBase
    BY <2>3
  <2>6. Begun(b, c, s)
    BY <2>3, <2>4, <2>5 DEF Begun, SameStore
  <2> QED
    BY <1>1, <2>1, <2>6
<1>4. CASE ~b.stopOnEntry
  <2> DEFINE c == BeginRun(b, s)
             y == Turned(b.core[s], "running")
  <2>1. Begin(b, s) = c
    BY <1>1, <1>4 DEF Begin
  <2>2. Moved(b, c, s, "running")
    BY StopTells
  <2> HIDE DEF c
  <2>3. y = [b.core[s] EXCEPT !.state = "running", !.revision = b.core[s].revision + 1]
    BY <1>2, TurnedIsCore
  <2>4. /\ SameStore(b.core[s], y) /\ y.state = "running" /\ y.wired = b.core[s].wired
        /\ y.audio = b.core[s].audio /\ y.epoch = b.core[s].epoch
    BY <1>2, <2>3 DEF Core, SameStore
  <2>5. c.core = [b.core EXCEPT ![s] = y] /\ c.core[s] = y
    BY <1>2, <2>2 DEF Moved
  <2> HIDE DEF y
  <2>6. /\ c.handles = <<>>
        /\ c.told = [thread |-> "running", state |-> c.core[s].state,
                     epoch |-> c.core[s].epoch + b.epochBase]
    <3> HIDE DEF s
    <3>1. b.core[s].wired /\ s = b.session
      BY DEF s
    <3> QED
      BY <2>2, <3>1, Zenon DEF Moved
  <2>7. c.told.thread = "running" /\ c.told.state = c.core[s].state
        /\ c.told.epoch = c.core[s].epoch + b.epochBase
    BY <2>6
  <2>8. c.told.epoch = b.core[s].epoch + b.epochBase
    BY <2>4, <2>5, <2>7
  <2>9. Begun(b, c, s)
    BY <2>2, <2>4, <2>5, <2>6, <2>7, <2>8 DEF Begun, Moved
  <2> QED
    BY <1>1, <2>1, <2>9
<1> QED
  BY <1>3, <1>4 DEF Adapters
\* A new session in place of an old one.
TakenOver(b, c, old, new) ==
  /\ c \in Adapters
  /\ c.session = new /\ c.launched = TRUE /\ c.unwire = new
  /\ c.configurationDone = b.configurationDone /\ c.epochBase = b.epochBase
  /\ c.breakpoints = b.breakpoints /\ c.audioWanted = b.audioWanted /\ c.stream = b.stream
  /\ c.pending = b.pending /\ c.fresh = b.fresh /\ c.handles = <<>>
  /\ c.audioOff = IF b.stream = "connected" /\ b.audioWanted THEN new ELSE None
  /\ c.core[old].state = "disposed" /\ ~c.core[old].wired /\ ~c.core[old].audio
  /\ c.core[old].labels = b.core[old].labels
  /\ c.core[new].state \in {"stopped", "running"} /\ c.core[new].wired
  /\ c.core[new].breakpoints = b.breakpoints /\ c.core[new].epoch = b.core[new].epoch
  /\ c.core[new].labels = b.core[new].labels
  /\ c.core[new].audio => c.audioOff = new
  /\ \A s \in Sessions \ {old, new} : c.core[s] = b.core[s]
  /\ c.told.thread = c.core[new].state /\ c.told.state = c.core[new].state
  /\ c.told.epoch = b.core[new].epoch + b.epochBase

LEMMA TakeOverTakes ==
  ASSUME NEW b \in Adapters, NEW old \in Sessions, NEW new \in Sessions, old # new,
         NEW stopOnEntry \in BOOLEAN, disk \subseteq Tasks,
         b.core[new].state = "stopped", ~b.core[new].audio, b.audioOff = None,
         b.core[old].state # "disposed" \/ (~b.core[old].wired /\ ~b.core[old].audio)
  PROVE  TakenOver(b, TakeOver(b, old, new, stopOnEntry), old, new)
<1> DEFINE b1 == Dispose(b, old)
           b2 == Adopt(b1, new, stopOnEntry)
           b3 == RestoreBreakpoints(b2, new)
           wanted == b3.stream = "connected" /\ b3.audioWanted
           b4 == IF b.stream = "connected" /\ b.audioWanted THEN ListenAudio(b3, new) ELSE b3
           b5 == [b4 EXCEPT !.handles = <<>>]
           c == Begin(b5, new)
<1>1. b.core \in [Sessions -> Core] /\ b.core[old] \in Core /\ b.core[new] \in Core
  BY DEF Adapters
<1>2. TakeOver(b, old, new, stopOnEntry) = c
  BY DEF TakeOver
<1>3. CoreSet(b, b1, old, [b.core[old] EXCEPT !.state = "disposed", !.wired = FALSE, !.audio = FALSE])
  BY CoreUpdates
<1> HIDE DEF b1
<1>4. Adopted(b1, b2, new, stopOnEntry)
  BY <1>3, AdoptAdopts DEF CoreSet
<1> HIDE DEF b2
<1>5. CoreSet(b2, b3, new, [b2.core[new] EXCEPT !.breakpoints = b2.breakpoints])
  BY <1>4, CoreUpdates DEF Adopted
<1> HIDE DEF b3
<1>6. /\ b3.core[old] = [b.core[old] EXCEPT !.state = "disposed", !.wired = FALSE, !.audio = FALSE]
      /\ b3.core[new] = [[b.core[new] EXCEPT !.wired = TRUE] EXCEPT !.breakpoints = b.breakpoints]
      /\ \A s \in Sessions \ {old, new} : b3.core[s] = b.core[s]
  <2>1. b1.core[new] = b.core[new] /\ b2.core[old] = b1.core[old]
        /\ b2.core[new] = [b.core[new] EXCEPT !.wired = TRUE] /\ b2.breakpoints = b.breakpoints
    <3>1. b1.core[new] = b.core[new]
      BY <1>1, <1>3 DEF CoreSet
    <3>2. b1.core \in [Sessions -> Core] /\ b1.breakpoints = b.breakpoints
      BY <1>3 DEF CoreSet, SameRest, Adapters
    <3>3. b2.core = [b1.core EXCEPT ![new] = [b1.core[new] EXCEPT !.wired = TRUE]]
          /\ b2.breakpoints = b1.breakpoints
      BY <1>4 DEF Adopted
    <3> QED
      BY <3>1, <3>2, <3>3
  <2>2. b3.core[new] = [b2.core[new] EXCEPT !.breakpoints = b2.breakpoints]
        /\ b3.core[old] = b2.core[old]
    BY <1>4, <1>5 DEF CoreSet, Adopted, Adapters
  <2>3. \A s \in Sessions \ {old, new} : b3.core[s] = b.core[s]
    BY <1>1, <1>3, <1>4, <1>5 DEF CoreSet, Adopted, Adapters
  <2>4. b1.core[old] = [b.core[old] EXCEPT !.state = "disposed", !.wired = FALSE, !.audio = FALSE]
    BY <1>3 DEF CoreSet
  <2> QED
    BY <2>1, <2>2, <2>3, <2>4
<1>7. /\ b3 \in Adapters /\ b3.session = new /\ b3.launched = TRUE /\ b3.unwire = new
      /\ b3.configurationDone = b.configurationDone /\ b3.epochBase = b.epochBase
      /\ b3.breakpoints = b.breakpoints /\ b3.audioWanted = b.audioWanted /\ b3.stream = b.stream
      /\ b3.pending = b.pending /\ b3.fresh = b.fresh /\ b3.audioOff = None
  BY <1>3, <1>4, <1>5 DEF CoreSet, Adopted, SameRest
\* The old session's core, and the new one's, before they are heard.
<1>8. /\ b3.core[old].state = "disposed" /\ ~b3.core[old].wired /\ ~b3.core[old].audio
      /\ b3.core[old].labels = b.core[old].labels
      /\ b3.core[new].state = "stopped" /\ b3.core[new].wired
      /\ b3.core[new].breakpoints = b.breakpoints /\ b3.core[new].epoch = b.core[new].epoch
      /\ b3.core[new].labels = b.core[new].labels /\ ~b3.core[new].audio
      /\ b3.core[old] \in Core /\ b3.core[new] \in Core
  BY <1>1, <1>6, <1>7 DEF Core, Adapters
<1>9. /\ b4 \in Adapters /\ SameRest(b3, b4) /\ b4.unwire = b3.unwire
      /\ b4.audioOff = IF b.stream = "connected" /\ b.audioWanted THEN new ELSE None
      /\ \A s \in Sessions \ {new} : b4.core[s] = b3.core[s]
      /\ SameStore(b3.core[new], b4.core[new]) /\ b4.core[new].state = b3.core[new].state
      /\ b4.core[new].wired = b3.core[new].wired
      /\ b4.core[new].audio => b4.audioOff = new
  <2>1. CASE b.stream = "connected" /\ b.audioWanted
    <3>1. Heard(b3, b4, new)
      BY <1>7, <2>1, ListenAudioHears
    <3> HIDE DEF b4
    <3>2. b4.core[new] = [b3.core[new] EXCEPT !.audio = TRUE]
          /\ \A s \in Sessions \ {new} : b4.core[s] = b3.core[s]
      <4>1. \A s \in Sessions :
              b4.core[s] = IF s = new THEN [b3.core[s] EXCEPT !.audio = TRUE]
                           ELSE IF s = b3.audioOff THEN [b3.core[s] EXCEPT !.audio = FALSE]
                           ELSE b3.core[s]
        BY <3>1 DEF Heard
      <4>2. \A s \in Sessions : s # b3.audioOff
        BY <1>7, NothingIsNoSession
      <4> QED
        BY <4>1, <4>2
    <3>3. SameStore(b3.core[new], b4.core[new]) /\ b4.core[new].state = b3.core[new].state
          /\ b4.core[new].wired = b3.core[new].wired
      BY <1>8, <3>2 DEF Core, SameStore
    <3> QED
      BY <2>1, <3>1, <3>2, <3>3 DEF Heard
  <2>2. CASE ~(b.stream = "connected" /\ b.audioWanted)
    BY <1>7, <1>8, <2>2 DEF SameRest, SameStore
  <2> QED
    BY <2>1, <2>2
<1> HIDE DEF b4
<1>10. /\ b5 \in Adapters /\ SameRest(b4, b5) /\ b5.unwire = b4.unwire
       /\ b5.audioOff = b4.audioOff /\ b5.core = b4.core
  <2>1. <<>> \in Seq(Handle)
    OBVIOUS
  <2> QED
    BY <1>9, <2>1 DEF Adapters, SameRest
<1> HIDE DEF b5
<1>11. b5.session = new /\ b5.core[new].state = "stopped" /\ b5.core[new].wired
  BY <1>7, <1>8, <1>9, <1>10 DEF SameRest
<1>12. Begun(b5, c, new)
  BY <1>10, <1>11, BeginBegins
<1> HIDE DEF c
<1>13. \A s \in Sessions \ {new} : c.core[s] = b3.core[s]
  BY <1>9, <1>10, <1>12 DEF Begun, Adapters
<1>14. /\ c.session = new /\ c.launched = TRUE /\ c.unwire = new
       /\ c.configurationDone = b.configurationDone /\ c.epochBase = b.epochBase
       /\ c.breakpoints = b.breakpoints /\ c.audioWanted = b.audioWanted /\ c.stream = b.stream
       /\ c.pending = b.pending /\ c.fresh = b.fresh /\ c.audioOff = b4.audioOff
       /\ b5.epochBase = b.epochBase
  BY <1>7, <1>9, <1>10, <1>12 DEF Begun, SameRest
<1>15. /\ c.core[new].breakpoints = b.breakpoints /\ c.core[new].epoch = b.core[new].epoch
       /\ c.core[new].labels = b.core[new].labels /\ c.core[new].wired
       /\ c.core[new].audio => c.audioOff = new
       /\ b5.core[new].epoch = b.core[new].epoch
  <2>1. /\ SameStore(b5.core[new], c.core[new]) /\ c.core[new].wired = b5.core[new].wired
        /\ c.core[new].audio = b5.core[new].audio /\ c.audioOff = b5.audioOff
    BY <1>12 DEF Begun
  <2>2. /\ SameStore(b3.core[new], b5.core[new]) /\ b5.core[new].wired
        /\ b5.core[new].audio => b5.audioOff = new
    BY <1>9, <1>10, <1>11
  <2> QED
    BY <1>8, <2>1, <2>2 DEF SameStore
<1>16. c.core[old] = b3.core[old] /\ \A s \in Sessions \ {old, new} : c.core[s] = b.core[s]
  BY <1>6, <1>13
<1>17. /\ c \in Adapters /\ c.handles = <<>> /\ c.core[new].state \in {"stopped", "running"}
       /\ c.told.thread = c.core[new].state /\ c.told.state = c.core[new].state
       /\ c.told.epoch = b.core[new].epoch + b.epochBase
  BY <1>12, <1>14, <1>15 DEF Begun
<1>18. TakenOver(b, c, old, new)
  BY <1>8, <1>9, <1>14, <1>15, <1>16, <1>17 DEF TakenOver
<1> QED
  BY <1>2, <1>18 DEF c
-----------------------------------------------------------------------------
(* A step that starts, ends and resumes no request.                        *)

\* A session that moves was running, or is the one in use and no launch is unanswered.
Stirs(s) ==
  /\ a.core[s].state \in {"stopped", "running"} /\ a'.core[s].state \in {"stopped", "running"}
  /\ a.core[s].state = "running" \/ (s = a.session /\ ~Configuring)

Quiet ==
  /\ a' \in Adapters /\ UNCHANGED <<task, disk>> /\ moves' \in Nat
  /\ a'.session = a.session /\ a'.launched = a.launched /\ a'.unwire = a.unwire
  /\ a'.pending = a.pending /\ a'.audioWanted = a.audioWanted /\ a'.audioOff = a.audioOff
  /\ a'.epochBase = a.epochBase /\ a'.fresh
  /\ a'.stream = "connected" => a.stream = "connected"
  /\ \A s \in Sessions :
       /\ a'.core[s].wired = a.core[s].wired /\ a'.core[s].audio = a.core[s].audio
       /\ a'.core[s].labels = a.core[s].labels
       /\ a'.core[s].state = a.core[s].state \/ Stirs(s)
  /\ a.session = None =>
       a'.told = a.told /\ a'.breakpoints = a.breakpoints /\ a'.handles = a.handles

\* What a quiet step leaves of the session requests go to.
QuietInUse ==
  a.session # None =>
    /\ a'.core[a.session].breakpoints = a'.breakpoints
    /\ a.told.epoch <= a'.told.epoch
    /\ a'.told.epoch <= a'.core[a.session].epoch + a.epochBase
    /\ \A n \in DOMAIN a'.handles :
         /\ a'.handles[n].on = a.session
         /\ a'.handles[n].read => a'.handles[n].readAt = a'.handles[n].revision
    /\ Configuring => a'.told.thread = a.told.thread
    /\ ~Replacing /\ ~Configuring => /\ a'.told.thread = a'.core[a.session].state
                                     /\ a'.told.state = a'.core[a.session].state

LEMMA QuietKeeps ==
  ASSUME AdapterInv, Quiet, QuietInUse
  PROVE  AdapterInv' /\ EpochKept
<1>1. AdapterTypes'
  BY DEF AdapterInv, AdapterTypes, Quiet
<1>2. ASSUME NEW t \in Tasks PROVE Shaped(t)'
  BY DEF AdapterInv, Shaped, Quiet
<1>3. Alone'
  BY DEF AdapterInv, Alone, Awaits, Quiet
<1>4. ASSUME NEW t \in Tasks PROVE Holding(t)'
  <2>1. Holding(t) /\ AdapterTypes /\ task[t] \in Request
    BY DEF AdapterInv, AdapterTypes
  <2>2. task' = task /\ a'.session = a.session /\ a'.launched = a.launched /\ a'.pending = a.pending
    BY DEF Quiet
  <2>3. (IsA(t, "launch", "creating") => ~a.launched)'
    BY <2>1, <2>2 DEF Holding, IsA
  <2>4. (task[t].stage = "configuring" =>
          /\ a.session # None /\ task[t].next = a.session
          /\ a.core[a.session].state = "stopped" /\ a.told.thread = "none")'
    <3>1. SUFFICES ASSUME task[t].stage = "configuring"
                   PROVE  a'.core[a.session].state = "stopped" /\ a'.told.thread = "none"
      BY <2>1, <2>2 DEF Holding
    <3>2. /\ a.session # None /\ a.session \in Sessions
          /\ a.core[a.session].state = "stopped" /\ a.told.thread = "none"
      BY <2>1, <3>1 DEF Holding, AdapterTypes, Adapters, Maybe
    <3>4. Configuring
      BY <3>1 DEF Configuring
    <3>3. a'.core[a.session].state = "stopped"
      BY <3>2, <3>4 DEF Quiet, Stirs
    <3> QED
      BY <3>2, <3>3, <3>4 DEF QuietInUse
  <2>5. (task[t].kind = "restart" /\ Awaits(t) => a.session # None /\ task[t].on = a.session)'
    BY <2>1, <2>2 DEF Holding, Awaits
  <2>6. (IsA(t, "restart", "retiring") =>
          /\ task[t].next \in Sessions \ {a.session}
          /\ a.core[task[t].next].state = "stopped" /\ a.audioOff = None)'
    <3>1. SUFFICES ASSUME IsA(t, "restart", "retiring")
                   PROVE  a'.core[task[t].next].state = "stopped" /\ a'.audioOff = None
      BY <2>1, <2>2 DEF Holding, IsA
    <3>2. /\ task[t].next \in Sessions \ {a.session} /\ a.core[task[t].next].state = "stopped"
          /\ a.audioOff = None
      BY <2>1, <3>1 DEF Holding
    <3> QED
      BY <3>2 DEF Quiet, Stirs
  <2>7. (IsA(t, "terminate", "retiring") => a.session = None /\ task[t].on # None)'
    BY <2>1, <2>2 DEF Holding, IsA
  <2>8. (task[t].stage = "connecting" /\ a.pending = t => a.session # None /\ task[t].on = a.session)'
    BY <2>1, <2>2 DEF Holding
  <2>9. (task[t].stage = "writing" => task[t].on # None)'
    BY <2>1, <2>2 DEF Holding
  <2>10. (task[t].on # None => a.core[task[t].on].state # "unborn")'
    <3>1. task[t].on # None => task[t].on \in Sessions
      BY <2>1 DEF Request, Maybe
    <3> QED
      BY <2>1, <2>2, <3>1 DEF Holding, Quiet, Stirs
  <2>11. (task[t].kind = "setLabel" /\ task[t].on # None => t \in a.core[task[t].on].labels)'
    <3>1. task[t].on # None => task[t].on \in Sessions
      BY <2>1 DEF Request, Maybe
    <3> QED
      BY <2>1, <2>2, <3>1 DEF Holding, Quiet
  <2> QED
    BY <2>3, <2>4, <2>5, <2>6, <2>7, <2>8, <2>9, <2>10, <2>11 DEF Holding
<1>5. Untouched'
  <2>1. \A s \in Sessions : a.core[s].state = "unborn" => a'.core[s].state = "unborn"
    BY DEF Quiet, Stirs
  <2>2. a.stream = "closed" => a'.stream = "closed"
    BY DEF Quiet, Adapters
  <2> QED
    BY <2>1, <2>2 DEF AdapterInv, Untouched, Quiet
<1>6. Held'
  <2> SUFFICES ASSUME NEW s \in Sessions
               PROVE  /\ Alive(a, s)' =>
                           \/ s = a'.session
                           \/ \E t \in Tasks : \/ IsA(t, "restart", "retiring")' /\ task'[t].next = s
                                               \/ IsA(t, "terminate", "retiring")' /\ task'[t].on = s
                      /\ a'.core[s].wired => s = a'.session /\ s = a'.unwire
                      /\ a'.core[s].audio => s = a'.session /\ a'.audioOff = s
    BY DEF Held
  <2>1. Alive(a, s)' => Alive(a, s)
    BY DEF Alive, Quiet, Stirs
  <2>2. task' = task /\ a'.session = a.session /\ a'.unwire = a.unwire /\ a'.audioOff = a.audioOff
        /\ a'.core[s].wired = a.core[s].wired /\ a'.core[s].audio = a.core[s].audio
    BY DEF Quiet
  <2> QED
    BY <2>1, <2>2 DEF AdapterInv, Held, IsA
<1>7. InUse'
  <2> SUFFICES ASSUME a'.session # None
               PROVE  /\ a'.launched
                      /\ Alive(a, a.session)'
                      /\ a'.core[a'.session].breakpoints = a'.breakpoints
                      /\ a'.told.epoch <= a'.core[a'.session].epoch + a'.epochBase
                      /\ \A n \in DOMAIN a'.handles :
                           /\ a'.handles[n].on = a'.session
                           /\ a'.handles[n].read => a'.handles[n].readAt = a'.handles[n].revision
                      /\ ~Replacing' =>
                           /\ a'.core[a'.session].wired
                           /\ a'.stream = "connected" /\ a'.audioWanted => a'.audioOff = a'.session
                           /\ ~Configuring' => /\ a'.told.thread = a'.core[a'.session].state
                                               /\ a'.told.state = a'.core[a'.session].state
    BY DEF InUse
  <2>1. /\ task' = task /\ a'.session = a.session /\ a'.launched = a.launched
        /\ a'.epochBase = a.epochBase /\ a.session \in Sessions
        /\ a'.audioWanted = a.audioWanted /\ a'.audioOff = a.audioOff
        /\ a'.stream = "connected" => a.stream = "connected"
        /\ a'.core[a.session].wired = a.core[a.session].wired
    BY DEF Quiet, AdapterInv, AdapterTypes, Adapters, Maybe
  <2>2. (Replacing' <=> Replacing) /\ (Configuring' <=> Configuring)
    BY <2>1 DEF Replacing, Configuring, IsA
  <2>3. /\ a.launched /\ Alive(a, a.session)
        /\ ~Replacing => /\ a.core[a.session].wired
                         /\ a.stream = "connected" /\ a.audioWanted => a.audioOff = a.session
    BY <2>1 DEF AdapterInv, InUse
  <2>4. Alive(a, a.session)'
    BY <2>1, <2>3 DEF Alive, Quiet, Stirs
  <2>5. /\ a'.core[a.session].breakpoints = a'.breakpoints
        /\ a'.told.epoch <= a'.core[a.session].epoch + a.epochBase
        /\ \A n \in DOMAIN a'.handles :
             /\ a'.handles[n].on = a.session
             /\ a'.handles[n].read => a'.handles[n].readAt = a'.handles[n].revision
        /\ ~Replacing /\ ~Configuring => /\ a'.told.thread = a'.core[a.session].state
                                         /\ a'.told.state = a'.core[a.session].state
    BY <2>1 DEF QuietInUse
  <2> QED
    BY <2>1, <2>2, <2>3, <2>4, <2>5
<1>8. EpochKept
  BY DEF EpochKept, NoSmallerEpoch, Quiet, QuietInUse, AdapterInv, AdapterTypes, Adapters, Told
<1> QED
  BY <1>1, <1>2, <1>3, <1>4, <1>5, <1>6, <1>7, <1>8 DEF AdapterInv, Quiet
\* A session stops or starts, heard by the adapter when it listens.
LEMMA MoveIsQuiet ==
  ASSUME AdapterInv, UNCHANGED <<task, disk>>, moves' \in Nat,
         NEW s \in Sessions, NEW state \in {"stopped", "running"},
         a' \in Adapters, SameRest(a, a'), a'.unwire = a.unwire, a'.audioOff = a.audioOff,
         \A r \in Sessions \ {s} : a'.core[r] = a.core[r],
         a'.core[s].state = state, a'.core[s].labels = a.core[s].labels,
         a'.core[s].wired = a.core[s].wired, a'.core[s].audio = a.core[s].audio,
         a'.core[s].breakpoints = a.core[s].breakpoints, a'.core[s].epoch >= a.core[s].epoch,
         \/ a.core[s].state = "running"
         \/ a.core[s].state = "stopped" /\ s = a.session /\ ~Configuring,
         IF a.core[s].wired
           THEN /\ a'.handles = <<>>
                /\ a'.told.thread = state /\ a'.told.state = state
                /\ a'.told.epoch = a'.core[s].epoch + a.epochBase
           ELSE a'.handles = a.handles /\ a'.told = a.told
  PROVE  AdapterInv' /\ EpochKept
<1>1. /\ a \in Adapters /\ a.core[s] \in Core /\ a'.core[s] \in Core
      /\ a.session # None => a.session \in Sessions
      /\ a.epochBase \in Nat /\ a.told.epoch \in Nat
  BY DEF AdapterInv, AdapterTypes, Adapters, Maybe, Told
<1>2. a.core[s].wired => s = a.session
  BY DEF AdapterInv, Held
<1>3. Stirs(s)
  BY <1>1 DEF Stirs
<1>4. /\ a'.session = a.session /\ a'.launched = a.launched /\ a'.breakpoints = a.breakpoints
      /\ a'.pending = a.pending /\ a'.audioWanted = a.audioWanted /\ a'.stream = a.stream
      /\ a'.epochBase = a.epochBase /\ a'.fresh = a.fresh
  BY DEF SameRest
<1>5. a'.fresh
  BY <1>4 DEF AdapterInv
<1>6. a.session = None => a'.told = a.told /\ a'.handles = a.handles
  BY <1>2, NothingIsNoSession
<1>7. Quiet
  BY <1>1, <1>3, <1>4, <1>5, <1>6 DEF Quiet
<1>8. ASSUME a.session # None
      PROVE  /\ a.core[a.session].breakpoints = a.breakpoints
             /\ a.told.epoch <= a.core[a.session].epoch + a.epochBase
             /\ \A n \in DOMAIN a.handles :
                  /\ a.handles[n].on = a.session
                  /\ a.handles[n].read => a.handles[n].readAt = a.handles[n].revision
             /\ ~Replacing => a.core[a.session].wired
             /\ ~Replacing /\ ~Configuring => /\ a.told.thread = a.core[a.session].state
                                              /\ a.told.state = a.core[a.session].state
             /\ Configuring => a.core[a.session].state = "stopped" /\ a.told.thread = "none"
  BY <1>8 DEF AdapterInv, InUse, Configuring, Holding
<1>9. QuietInUse
  <2> SUFFICES ASSUME a.session # None
               PROVE  /\ a'.core[a.session].breakpoints = a'.breakpoints
                      /\ a.told.epoch <= a'.told.epoch
                      /\ a'.told.epoch <= a'.core[a.session].epoch + a.epochBase
                      /\ \A n \in DOMAIN a'.handles :
                           /\ a'.handles[n].on = a.session
                           /\ a'.handles[n].read => a'.handles[n].readAt = a'.handles[n].revision
                      /\ Configuring => a'.told.thread = a.told.thread
                      /\ ~Replacing /\ ~Configuring =>
                           /\ a'.told.thread = a'.core[a.session].state
                           /\ a'.told.state = a'.core[a.session].state
    BY DEF QuietInUse
  <2>1. CASE a.core[s].wired
    <3>1. /\ s = a.session /\ a'.handles = <<>>
          /\ a'.told.thread = state /\ a'.told.state = state
          /\ a'.told.epoch = a'.core[s].epoch + a.epochBase
      BY <1>2, <2>1
    <3>2. ~Configuring
      BY <1>8, <3>1
    <3>3. a.core[s].epoch \in Nat /\ a'.core[s].epoch \in Nat
      BY <1>1 DEF Core
    <3>4. \A n \in DOMAIN a'.handles : FALSE
      BY <3>1
    <3> QED
      BY <1>1, <1>4, <1>8, <3>1, <3>2, <3>3, <3>4
  <2>2. CASE ~a.core[s].wired
    <3>1. a'.handles = a.handles /\ a'.told = a.told
      BY <2>2
    <3>2. CASE s = a.session
      <4>1. Replacing
        BY <1>8, <2>2, <3>2
      <4>2. a.core[s].epoch \in Nat /\ a'.core[s].epoch \in Nat
        BY <1>1 DEF Core
      <4> QED
        BY <1>1, <1>4, <1>8, <3>1, <3>2, <4>1, <4>2
    <3>3. CASE s # a.session
      <4>1. a'.core[a.session] = a.core[a.session]
        BY <1>1, <3>3
      <4> QED
        BY <1>1, <1>4, <1>8, <3>1, <4>1
    <3> QED
      BY <3>2, <3>3
  <2> QED
    BY <2>1, <2>2
<1> QED
  BY <1>7, <1>9, QuietKeeps
\* What Moved says of the session that moved.
LEMMA MovedFields ==
  ASSUME NEW b \in Adapters, NEW c, NEW s \in Sessions, NEW state \in {"stopped", "running"},
         Moved(b, c, s, state)
  PROVE  /\ c \in Adapters /\ SameRest(b, c) /\ c.unwire = b.unwire /\ c.audioOff = b.audioOff
         /\ \A r \in Sessions \ {s} : c.core[r] = b.core[r]
         /\ c.core[s].state = state /\ SameStore(b.core[s], c.core[s])
         /\ c.core[s].wired = b.core[s].wired /\ c.core[s].audio = b.core[s].audio
         /\ IF b.core[s].wired
              THEN /\ c.handles = <<>>
                   /\ c.told.thread = state /\ c.told.state = c.core[b.session].state
                   /\ c.told.epoch = c.core[b.session].epoch + b.epochBase
              ELSE c.handles = b.handles /\ c.told = b.told
<1> DEFINE x == b.core[s]
           y == Turned(x, state)
<1>1. b.core \in [Sessions -> Core] /\ x \in Core
  BY DEF Adapters
<1>2. c.core = [b.core EXCEPT ![s] = y]
  BY <1>1 DEF Moved
<1>3. y = [x EXCEPT !.state = state, !.revision = x.revision + 1]
  BY <1>1, TurnedIsCore
<1> HIDE DEF y
<1>4. y.state = state /\ SameStore(x, y) /\ y.wired = x.wired /\ y.audio = x.audio
  <2> HIDE DEF x
  <2> QED
    BY <1>1, <1>3 DEF Core, SameStore
<1>5. c.core[s] = y /\ \A r \in Sessions \ {s} : c.core[r] = b.core[r]
  BY <1>1, <1>2
<1>6. /\ c \in Adapters /\ SameRest(b, c) /\ c.unwire = b.unwire /\ c.audioOff = b.audioOff
  BY DEF Moved
<1>7. CASE b.core[s].wired
  <2>1. /\ c.handles = <<>>
        /\ c.told = [thread |-> state, state |-> c.core[b.session].state,
                     epoch |-> c.core[b.session].epoch + b.epochBase]
    BY <1>7, Zenon DEF Moved
  <2>2. /\ c.told.thread = state /\ c.told.state = c.core[b.session].state
        /\ c.told.epoch = c.core[b.session].epoch + b.epochBase
    BY <2>1
  <2> QED
    BY <1>4, <1>5, <1>6, <1>7, <2>1, <2>2
<1>8. CASE ~b.core[s].wired
  <2>1. c.handles = b.handles /\ c.told = b.told
    BY <1>8, Zenon DEF Moved
  <2> QED
    BY <1>4, <1>5, <1>6, <1>8, <2>1
<1> QED
  BY <1>7, <1>8

LEMMA StoppedSession ==
  ASSUME AdapterInv, Stopped, ~overlapped'
  PROVE  /\ a \in Adapters /\ a.session \in Sessions /\ a.core[a.session] \in Core
         /\ a.core[a.session].state = "stopped" /\ ~Configuring
         /\ UNCHANGED <<task, disk>>
BY DEF AdapterInv, AdapterTypes, Adapters, Maybe, Stopped, Configuring

LEMMA MoveCounts ==
  ASSUME AdapterInv
  PROVE  Counted => moves' \in Nat
BY DEF AdapterInv, AdapterTypes, Counted

LEMMA TurnCounts ==
  ASSUME AdapterInv, Turn
  PROVE  UNCHANGED <<task, disk>> /\ moves' \in Nat
BY MoveCounts DEF Turn

LEMMA ContinueKeeps ==
  ASSUME AdapterInv, Continue, ~overlapped'
  PROVE  AdapterInv' /\ EpochKept
<1> DEFINE s == a.session
<1>1. Stopped /\ UNCHANGED <<task, disk>> /\ moves' \in Nat /\ a' = BeginRun(a, s)
  BY MoveCounts, StoppedSession DEF Continue
<1>2. /\ a \in Adapters /\ s \in Sessions /\ a.core[s] \in Core
      /\ a.core[s].state = "stopped" /\ ~Configuring
  BY <1>1, StoppedSession
<1>3. Moved(a, a', s, "running")
  BY <1>1, <1>2, StopTells
<1>4. /\ a' \in Adapters /\ SameRest(a, a') /\ a'.unwire = a.unwire /\ a'.audioOff = a.audioOff
      /\ \A r \in Sessions \ {s} : a'.core[r] = a.core[r]
      /\ a'.core[s].state = "running" /\ SameStore(a.core[s], a'.core[s])
      /\ a'.core[s].wired = a.core[s].wired /\ a'.core[s].audio = a.core[s].audio
      /\ IF a.core[s].wired
           THEN /\ a'.handles = <<>>
                /\ a'.told.thread = "running" /\ a'.told.state = a'.core[a.session].state
                /\ a'.told.epoch = a'.core[a.session].epoch + a.epochBase
           ELSE a'.handles = a.handles /\ a'.told = a.told
  BY <1>2, <1>3, MovedFields
<1>5. /\ a'.core[s].labels = a.core[s].labels /\ a'.core[s].breakpoints = a.core[s].breakpoints
      /\ a'.core[s].epoch >= a.core[s].epoch
  BY <1>2, <1>4 DEF SameStore, Core
<1>6. /\ IF a.core[s].wired
           THEN /\ a'.handles = <<>>
                /\ a'.told.thread = "running" /\ a'.told.state = "running"
                /\ a'.told.epoch = a'.core[s].epoch + a.epochBase
           ELSE a'.handles = a.handles /\ a'.told = a.told
  BY <1>4
<1> QED
  BY <1>1, <1>2, <1>4, <1>5, <1>6, MoveIsQuiet

LEMMA MachineStopsKeeps ==
  ASSUME AdapterInv, NEW s \in Sessions, MachineStops(s)
  PROVE  AdapterInv' /\ EpochKept
<1>1. /\ UNCHANGED <<task, disk>> /\ moves' \in Nat /\ a' = Stop(a, s)
      /\ a.core[s].state = "running" /\ a \in Adapters /\ a.core[s] \in Core
  BY DEF MachineStops, AdapterInv, AdapterTypes, Adapters
<1>2. a.core[s].wired => s = a.session
  BY DEF AdapterInv, Held
<1>3. Moved(a, a', s, "stopped")
  BY <1>1, <1>2, StopTells
<1>4. /\ a' \in Adapters /\ SameRest(a, a') /\ a'.unwire = a.unwire /\ a'.audioOff = a.audioOff
      /\ \A r \in Sessions \ {s} : a'.core[r] = a.core[r]
      /\ a'.core[s].state = "stopped" /\ SameStore(a.core[s], a'.core[s])
      /\ a'.core[s].wired = a.core[s].wired /\ a'.core[s].audio = a.core[s].audio
      /\ IF a.core[s].wired
           THEN /\ a'.handles = <<>>
                /\ a'.told.thread = "stopped" /\ a'.told.state = a'.core[a.session].state
                /\ a'.told.epoch = a'.core[a.session].epoch + a.epochBase
           ELSE a'.handles = a.handles /\ a'.told = a.told
  BY <1>1, <1>3, MovedFields
<1>5. /\ a'.core[s].labels = a.core[s].labels /\ a'.core[s].breakpoints = a.core[s].breakpoints
      /\ a'.core[s].epoch >= a.core[s].epoch
  BY <1>1, <1>4 DEF SameStore, Core
<1>6. /\ IF a.core[s].wired
           THEN /\ a'.handles = <<>>
                /\ a'.told.thread = "stopped" /\ a'.told.state = "stopped"
                /\ a'.told.epoch = a'.core[s].epoch + a.epochBase
           ELSE a'.handles = a.handles /\ a'.told = a.told
  BY <1>2, <1>4
<1> QED
  BY <1>1, <1>4, <1>5, <1>6, MoveIsQuiet

\* A step: the session starts, and stops within the request.
LEMMA StepRequestKeeps ==
  ASSUME AdapterInv, StepRequest, ~overlapped'
  PROVE  AdapterInv' /\ EpochKept
<1> DEFINE s == a.session
           b == BeginRun(a, s)
<1>1. Stopped /\ UNCHANGED <<task, disk>> /\ moves' \in Nat /\ a' = Stop(b, s)
  BY MoveCounts, StoppedSession DEF StepRequest
<1>2. /\ a \in Adapters /\ s \in Sessions /\ a.core[s] \in Core
      /\ a.core[s].state = "stopped" /\ ~Configuring
  BY <1>1, StoppedSession
<1>3. Moved(a, b, s, "running")
  BY <1>2, StopTells
<1> HIDE DEF b
<1>4. /\ b \in Adapters /\ SameRest(a, b) /\ b.unwire = a.unwire /\ b.audioOff = a.audioOff
      /\ \A r \in Sessions \ {s} : b.core[r] = a.core[r]
      /\ SameStore(a.core[s], b.core[s])
      /\ b.core[s].wired = a.core[s].wired /\ b.core[s].audio = a.core[s].audio
      /\ ~a.core[s].wired => b.handles = a.handles /\ b.told = a.told
  BY <1>2, <1>3, MovedFields
<1>5. b.session = s
  BY <1>4 DEF SameRest
<1>6. Moved(b, a', s, "stopped")
  BY <1>1, <1>2, <1>4, <1>5, StopTells
<1>7. /\ a' \in Adapters /\ SameRest(b, a') /\ a'.unwire = b.unwire /\ a'.audioOff = b.audioOff
      /\ \A r \in Sessions \ {s} : a'.core[r] = b.core[r]
      /\ a'.core[s].state = "stopped" /\ SameStore(b.core[s], a'.core[s])
      /\ a'.core[s].wired = b.core[s].wired /\ a'.core[s].audio = b.core[s].audio
      /\ IF b.core[s].wired
           THEN /\ a'.handles = <<>>
                /\ a'.told.thread = "stopped" /\ a'.told.state = a'.core[b.session].state
                /\ a'.told.epoch = a'.core[b.session].epoch + b.epochBase
           ELSE a'.handles = b.handles /\ a'.told = b.told
  BY <1>2, <1>4, <1>6, MovedFields
<1>8. SameRest(a, a') /\ a'.unwire = a.unwire /\ a'.audioOff = a.audioOff
      /\ b.epochBase = a.epochBase
  BY <1>4, <1>7 DEF SameRest
<1>9. /\ a'.core[s].labels = a.core[s].labels /\ a'.core[s].breakpoints = a.core[s].breakpoints
      /\ a'.core[s].epoch >= a.core[s].epoch
      /\ a'.core[s].wired = a.core[s].wired /\ a'.core[s].audio = a.core[s].audio
      /\ \A r \in Sessions \ {s} : a'.core[r] = a.core[r]
  BY <1>2, <1>4, <1>7 DEF SameStore, Core
<1>10. /\ IF a.core[s].wired
            THEN /\ a'.handles = <<>>
                 /\ a'.told.thread = "stopped" /\ a'.told.state = "stopped"
                 /\ a'.told.epoch = a'.core[s].epoch + a.epochBase
            ELSE a'.handles = a.handles /\ a'.told = a.told
  BY <1>4, <1>5, <1>7, <1>8
<1> QED
  BY <1>1, <1>2, <1>7, <1>8, <1>9, <1>10, MoveIsQuiet

\* A move back: the epoch grows, and the session stops where it is.
LEMMA GoBackKeeps ==
  ASSUME AdapterInv, GoBack, ~overlapped'
  PROVE  AdapterInv' /\ EpochKept
<1> DEFINE s == a.session
           b == [a EXCEPT !.core[s].epoch = @ + 1]
<1>1. Stopped /\ UNCHANGED <<task, disk>> /\ moves' \in Nat /\ a' = Stop(b, s)
  BY MoveCounts, StoppedSession DEF GoBack
<1>2. /\ a \in Adapters /\ s \in Sessions /\ a.core[s] \in Core
      /\ a.core[s].state = "stopped" /\ ~Configuring
  BY <1>1, StoppedSession
<1>3. CoreSet(a, b, s, [a.core[s] EXCEPT !.epoch = a.core[s].epoch + 1])
  <2>1. a.core[s].epoch + 1 \in Nat
    BY <1>2 DEF Core
  <2>2. [a.core[s] EXCEPT !.epoch = a.core[s].epoch + 1] \in Core
    BY <1>2, <2>1, CoreFields
  <2>3. b = [a EXCEPT !.core[s] = [a.core[s] EXCEPT !.epoch = a.core[s].epoch + 1]]
    BY <1>2 DEF Adapters, Core
  <2> QED
    BY <1>2, <2>2, <2>3, OneSessionSet
<1> HIDE DEF b
<1>4. /\ b \in Adapters /\ SameRest(a, b) /\ b.unwire = a.unwire /\ b.audioOff = a.audioOff
      /\ b.handles = a.handles /\ b.told = a.told /\ b.session = s /\ b.epochBase = a.epochBase
  BY <1>3 DEF CoreSet, SameRest
<1>5. \A r \in Sessions \ {s} : b.core[r] = a.core[r]
  BY <1>2, <1>3 DEF CoreSet, Adapters
<1>6. /\ b.core[s].labels = a.core[s].labels /\ b.core[s].breakpoints = a.core[s].breakpoints
      /\ b.core[s].epoch >= a.core[s].epoch
      /\ b.core[s].wired = a.core[s].wired /\ b.core[s].audio = a.core[s].audio
  BY <1>2, <1>3 DEF CoreSet, Core
<1>7. Moved(b, a', s, "stopped")
  BY <1>1, <1>2, <1>4, StopTells
<1>8. /\ a' \in Adapters /\ SameRest(b, a') /\ a'.unwire = b.unwire /\ a'.audioOff = b.audioOff
      /\ \A r \in Sessions \ {s} : a'.core[r] = b.core[r]
      /\ a'.core[s].state = "stopped" /\ SameStore(b.core[s], a'.core[s])
      /\ a'.core[s].wired = b.core[s].wired /\ a'.core[s].audio = b.core[s].audio
      /\ IF b.core[s].wired
           THEN /\ a'.handles = <<>>
                /\ a'.told.thread = "stopped" /\ a'.told.state = a'.core[b.session].state
                /\ a'.told.epoch = a'.core[b.session].epoch + b.epochBase
           ELSE a'.handles = b.handles /\ a'.told = b.told
  BY <1>2, <1>4, <1>7, MovedFields
<1>9. SameRest(a, a') /\ a'.unwire = a.unwire /\ a'.audioOff = a.audioOff
  BY <1>4, <1>8 DEF SameRest
<1>10. /\ a'.core[s].labels = a.core[s].labels /\ a'.core[s].breakpoints = a.core[s].breakpoints
       /\ a'.core[s].epoch >= a.core[s].epoch
       /\ a'.core[s].wired = a.core[s].wired /\ a'.core[s].audio = a.core[s].audio
       /\ \A r \in Sessions \ {s} : a'.core[r] = a.core[r]
  BY <1>5, <1>6, <1>8 DEF SameStore
<1>11. /\ IF a.core[s].wired
            THEN /\ a'.handles = <<>>
                 /\ a'.told.thread = "stopped" /\ a'.told.state = "stopped"
                 /\ a'.told.epoch = a'.core[s].epoch + a.epochBase
            ELSE a'.handles = a.handles /\ a'.told = a.told
  BY <1>4, <1>6, <1>8
<1> QED
  BY <1>1, <1>2, <1>8, <1>9, <1>10, <1>11, MoveIsQuiet
\* A request that moves no session, and tells the client at most where it stands.
SameHold(b, c) ==
  /\ c.session = b.session /\ c.launched = b.launched /\ c.epochBase = b.epochBase
  /\ c.audioWanted = b.audioWanted /\ c.stream = b.stream /\ c.pending = b.pending
  /\ c.unwire = b.unwire /\ c.audioOff = b.audioOff

\* A reference is into the session requests go to, read no earlier than its revision says.
Refers(handle, s) == handle.on = s /\ (handle.read => handle.readAt = handle.revision)

LEMMA RequestIsQuiet ==
  ASSUME AdapterInv, UNCHANGED <<task, disk>>, moves' \in Nat, a.session \in Sessions,
         a' \in Adapters, SameHold(a, a'), a'.fresh,
         \A s \in Sessions :
           /\ a'.core[s].wired = a.core[s].wired /\ a'.core[s].audio = a.core[s].audio
           /\ a'.core[s].labels = a.core[s].labels /\ a'.core[s].state = a.core[s].state
           /\ a'.core[s].epoch = a.core[s].epoch,
         a'.core[a.session].breakpoints = a'.breakpoints,
         \A n \in DOMAIN a'.handles : Refers(a'.handles[n], a.session),
         \/ a'.told.thread = a.told.thread
         \/ a'.told.thread = a.core[a.session].state /\ ~Configuring,
         \/ a'.told.state = a.told.state /\ a'.told.epoch = a.told.epoch
         \/ /\ a'.told.state = a.core[a.session].state
            /\ a'.told.epoch = a.core[a.session].epoch + a.epochBase
  PROVE  AdapterInv' /\ EpochKept
<1>1. /\ a \in Adapters /\ a.core[a.session] \in Core /\ a.session # None
      /\ a.epochBase \in Nat /\ a.told.epoch \in Nat
  BY NothingIsNoSession DEF AdapterInv, AdapterTypes, Adapters, Told
<1>2. Quiet
  BY <1>1 DEF Quiet, SameHold
<1>3. /\ a.told.epoch <= a.core[a.session].epoch + a.epochBase
      /\ ~Replacing /\ ~Configuring => /\ a.told.thread = a.core[a.session].state
                                       /\ a.told.state = a.core[a.session].state
  BY <1>1 DEF AdapterInv, InUse
<1>4. a.core[a.session].epoch \in Nat
  BY <1>1 DEF Core
<1>5. QuietInUse
  BY <1>1, <1>3, <1>4 DEF QuietInUse, Refers
<1> QED
  BY <1>2, <1>5, QuietKeeps

\* What the invariant says of the session requests go to.
LEMMA SessionThere ==
  ASSUME AdapterInv, a.session # None
  PROVE  /\ a \in Adapters /\ a.session \in Sessions /\ a.core[a.session] \in Core
         /\ a.core \in [Sessions -> Core] /\ a.fresh
         /\ a.core[a.session].breakpoints = a.breakpoints
         /\ \A n \in DOMAIN a.handles : Refers(a.handles[n], a.session)
BY DEF AdapterInv, AdapterTypes, Adapters, Maybe, InUse, Refers

LEMMA StayStoppedKeeps ==
  ASSUME AdapterInv, StayStopped, ~overlapped'
  PROVE  AdapterInv' /\ EpochKept
<1>1. /\ Stopped /\ UNCHANGED <<task, disk>> /\ moves' \in Nat
      /\ a' = StateBody([a EXCEPT !.handles = <<>>, !.told.thread = "stopped"])
  BY StoppedSession DEF StayStopped, SendStopped, AdapterInv, AdapterTypes
<1>2. /\ a \in Adapters /\ a.session \in Sessions /\ a.session # None
      /\ a.core[a.session].state = "stopped" /\ ~Configuring
  BY <1>1, StoppedSession DEF Stopped
<1>3. /\ a' \in Adapters
      /\ SameRest(a, a') /\ a'.core = a.core /\ a'.unwire = a.unwire
      /\ a'.handles = <<>> /\ a'.audioOff = a.audioOff
      /\ a'.told = [thread |-> "stopped", state |-> a.core[a.session].state,
                    epoch |-> a.core[a.session].epoch + a.epochBase]
  BY <1>1, <1>2, SendStoppedTells
<1>4. /\ a'.told.thread = a.core[a.session].state /\ a'.told.state = a.core[a.session].state
      /\ a'.told.epoch = a.core[a.session].epoch + a.epochBase
  BY <1>2, <1>3
<1>5. /\ SameHold(a, a') /\ a'.fresh = a.fresh /\ a'.breakpoints = a.breakpoints
      /\ \A n \in DOMAIN a'.handles : Refers(a'.handles[n], a.session)
  BY <1>3 DEF SameHold, SameRest
<1> QED
  BY <1>1, <1>2, <1>3, <1>4, <1>5, SessionThere, RequestIsQuiet

LEMMA AskStateKeeps ==
  ASSUME AdapterInv, AskState
  PROVE  AdapterInv' /\ EpochKept
<1>1. /\ a.session # None /\ UNCHANGED <<task, disk>> /\ moves' \in Nat /\ a' = StateBody(a)
  BY DEF AskState, AdapterInv, AdapterTypes
<1>2. a \in Adapters /\ a.session \in Sessions
  BY <1>1, SessionThere
<1>3. /\ a' \in Adapters
      /\ SameRest(a, a') /\ a'.core = a.core /\ a'.unwire = a.unwire
      /\ a'.handles = a.handles /\ a'.audioOff = a.audioOff
      /\ a'.told = [thread |-> a.told.thread, state |-> a.core[a.session].state,
                    epoch |-> a.core[a.session].epoch + a.epochBase]
  BY <1>1, <1>2, StateBodyTells
<1>4. /\ a'.told.thread = a.told.thread /\ a'.told.state = a.core[a.session].state
      /\ a'.told.epoch = a.core[a.session].epoch + a.epochBase
  BY <1>3
<1>5. SameHold(a, a') /\ a'.fresh = a.fresh /\ a'.breakpoints = a.breakpoints
  BY <1>3 DEF SameHold, SameRest
<1> QED
  BY <1>1, <1>2, <1>3, <1>4, <1>5, SessionThere, RequestIsQuiet

LEMMA WriteKeeps ==
  ASSUME AdapterInv, Write
  PROVE  AdapterInv' /\ EpochKept
<1> DEFINE s == a.session
           b == [a EXCEPT !.core[s].revision = @ + 1]
           x == [a.core[s] EXCEPT !.revision = a.core[s].revision + 1]
<1>1. /\ s # None /\ UNCHANGED <<task, disk>> /\ moves' \in Nat /\ a' = StateBody(b)
  BY TurnCounts DEF Write
<1>2. a \in Adapters /\ s \in Sessions /\ a.core[s] \in Core /\ a.core \in [Sessions -> Core]
  BY <1>1, SessionThere
<1>3. CoreSet(a, b, s, x)
  <2>1. x \in Core
    BY <1>2, CoreFields
  <2>2. b = [a EXCEPT !.core[s] = x]
    BY <1>2 DEF Adapters, Core
  <2> QED
    BY <1>2, <2>1, <2>2, OneSessionSet
<1>4. /\ x.wired = a.core[s].wired /\ x.audio = a.core[s].audio /\ x.labels = a.core[s].labels
      /\ x.state = a.core[s].state /\ x.epoch = a.core[s].epoch
      /\ x.breakpoints = a.core[s].breakpoints
  BY <1>2 DEF Core
<1> HIDE DEF b, x
<1>5. /\ b \in Adapters /\ SameRest(a, b) /\ b.unwire = a.unwire /\ b.audioOff = a.audioOff
      /\ b.handles = a.handles /\ b.told = a.told /\ b.core = [a.core EXCEPT ![s] = x]
  BY <1>3 DEF CoreSet
<1>6. b.session = s /\ b.epochBase = a.epochBase
  BY <1>5 DEF SameRest
<1>7. /\ a' \in Adapters
      /\ SameRest(b, a') /\ a'.core = b.core /\ a'.unwire = b.unwire
      /\ a'.handles = b.handles /\ a'.audioOff = b.audioOff
      /\ a'.told = [thread |-> b.told.thread, state |-> b.core[b.session].state,
                    epoch |-> b.core[b.session].epoch + b.epochBase]
  BY <1>1, <1>2, <1>5, <1>6, StateBodyTells
<1>8. \A r \in Sessions :
        /\ a'.core[r].wired = a.core[r].wired /\ a'.core[r].audio = a.core[r].audio
        /\ a'.core[r].labels = a.core[r].labels /\ a'.core[r].state = a.core[r].state
        /\ a'.core[r].epoch = a.core[r].epoch /\ a'.core[r].breakpoints = a.core[r].breakpoints
  BY <1>2, <1>4, <1>5, <1>7
<1>9. /\ a'.told.thread = a.told.thread /\ a'.told.state = a.core[s].state
      /\ a'.told.epoch = a.core[s].epoch + a.epochBase
  BY <1>2, <1>5, <1>6, <1>7, <1>8
<1>10. SameHold(a, a') /\ a'.fresh = a.fresh /\ a'.breakpoints = a.breakpoints
  BY <1>5, <1>7 DEF SameHold, SameRest
<1> QED
  BY <1>1, <1>2, <1>5, <1>7, <1>8, <1>9, <1>10, SessionThere, RequestIsQuiet

LEMMA SetBreakpointsKeeps ==
  ASSUME AdapterInv, SetBreakpoints
  PROVE  AdapterInv' /\ EpochKept
<1> DEFINE s == a.session
           n == moves + 1
           b == [a EXCEPT !.breakpoints = n]
           x == [a.core[s] EXCEPT !.breakpoints = n]
<1>1. /\ s # None /\ UNCHANGED <<task, disk>> /\ moves' \in Nat
      /\ a' = [a EXCEPT !.breakpoints = n, !.core[s].breakpoints = n] /\ n \in Nat
  BY TurnCounts DEF SetBreakpoints, AdapterInv, AdapterTypes
<1>2. a \in Adapters /\ s \in Sessions /\ a.core[s] \in Core /\ a.core \in [Sessions -> Core]
  BY <1>1, SessionThere
<1> HIDE DEF n
<1>3. /\ b \in Adapters /\ SameHold(a, b) /\ b.handles = a.handles /\ b.told = a.told
      /\ b.core = a.core /\ b.fresh = a.fresh /\ b.breakpoints = n
  BY <1>1, <1>2 DEF Adapters, SameHold
<1>4. a' = [b EXCEPT !.core[s] = x]
  BY <1>1, <1>2 DEF Adapters
<1>5. x \in Core
  BY <1>1, <1>2, CoreFields
<1>6. /\ x.wired = a.core[s].wired /\ x.audio = a.core[s].audio /\ x.labels = a.core[s].labels
      /\ x.state = a.core[s].state /\ x.epoch = a.core[s].epoch /\ x.breakpoints = n
  BY <1>2 DEF Core
<1> HIDE DEF b, x
<1>7. CoreSet(b, a', s, x)
  BY <1>2, <1>3, <1>4, <1>5, OneSessionSet
<1>8. /\ a' \in Adapters /\ a'.handles = a.handles /\ a'.told = a.told
      /\ a'.core = [a.core EXCEPT ![s] = x] /\ SameRest(b, a')
      /\ a'.unwire = b.unwire /\ a'.audioOff = b.audioOff
  BY <1>3, <1>7 DEF CoreSet
<1>9. SameHold(a, a') /\ a'.fresh = a.fresh /\ a'.breakpoints = n
  BY <1>3, <1>8 DEF SameHold, SameRest
<1>10. \A r \in Sessions :
         /\ a'.core[r].wired = a.core[r].wired /\ a'.core[r].audio = a.core[r].audio
         /\ a'.core[r].labels = a.core[r].labels /\ a'.core[r].state = a.core[r].state
         /\ a'.core[r].epoch = a.core[r].epoch
  BY <1>2, <1>6, <1>8
<1>11. a'.core[s].breakpoints = n
  BY <1>2, <1>6, <1>8
<1> QED
  BY <1>1, <1>2, <1>8, <1>9, <1>10, <1>11, SessionThere, RequestIsQuiet

LEMMA StreamClosesKeeps ==
  ASSUME AdapterInv, StreamCloses
  PROVE  AdapterInv' /\ EpochKept
<1>1. /\ UNCHANGED <<task, disk>> /\ moves' \in Nat /\ a' = [a EXCEPT !.stream = "closed"]
      /\ a \in Adapters
  BY DEF StreamCloses, AdapterInv, AdapterTypes
<1>2. /\ a' \in Adapters /\ a'.session = a.session /\ a'.launched = a.launched
      /\ a'.unwire = a.unwire /\ a'.pending = a.pending /\ a'.audioWanted = a.audioWanted
      /\ a'.audioOff = a.audioOff /\ a'.epochBase = a.epochBase /\ a'.fresh = a.fresh
      /\ a'.stream = "closed" /\ a'.core = a.core /\ a'.told = a.told
      /\ a'.breakpoints = a.breakpoints /\ a'.handles = a.handles
  BY <1>1 DEF Adapters
<1>3. Quiet
  BY <1>1, <1>2 DEF Quiet, AdapterInv
<1>4. QuietInUse
  BY <1>2 DEF QuietInUse, AdapterInv, InUse, AdapterTypes, Adapters, Told
<1> QED
  BY <1>3, <1>4, QuietKeeps
\* The references are replaced, and nothing else but what the answer showed.
LEMMA HandlesAreQuiet ==
  ASSUME AdapterInv, UNCHANGED <<task, disk, moves>>, a.session # None,
         NEW handles \in Seq(Handle), NEW fresh, fresh = TRUE,
         a' = [a EXCEPT !.handles = handles, !.fresh = fresh],
         \A n \in DOMAIN handles : Refers(handles[n], a.session)
  PROVE  AdapterInv' /\ EpochKept
<1>1. a \in Adapters /\ a.session \in Sessions
      /\ a.core[a.session].breakpoints = a.breakpoints
  BY SessionThere
<1>2. /\ a' \in Adapters /\ SameHold(a, a') /\ a'.core = a.core /\ a'.told = a.told
      /\ a'.handles = handles /\ a'.fresh = TRUE /\ a'.breakpoints = a.breakpoints
  BY <1>1 DEF Adapters, SameHold
<1>3. moves' \in Nat
  BY DEF AdapterInv, AdapterTypes
<1> QED
  BY <1>1, <1>2, <1>3, RequestIsQuiet

LEMMA ScopesKeeps ==
  ASSUME AdapterInv, Scopes
  PROVE  AdapterInv' /\ EpochKept
<1> DEFINE x == a.core[a.session]
           handle == [on |-> a.session, epoch |-> x.epoch, revision |-> x.revision,
                      read |-> FALSE, readAt |-> 0]
           handles == Append(a.handles, handle)
<1>1. /\ UNCHANGED <<task, disk, moves>> /\ a.session # None
      /\ a' = [a EXCEPT !.handles = Append(@, handle)]
  BY DEF Scopes
<1>2. /\ a \in Adapters /\ a.session \in Sessions /\ x \in Core /\ a.fresh
      /\ \A n \in DOMAIN a.handles : Refers(a.handles[n], a.session)
  BY <1>1, SessionThere
<1>3. handle \in Handle /\ Refers(handle, a.session)
  BY <1>2 DEF Handle, Core, Maybe, Refers
<1> HIDE DEF handle
<1>4. a.handles \in Seq(Handle)
  BY <1>2 DEF Adapters
<1>5. handles \in Seq(Handle) /\ \A n \in DOMAIN handles : Refers(handles[n], a.session)
  <2>1. /\ handles \in Seq(Handle) /\ DOMAIN handles = 1 .. Len(a.handles) + 1
        /\ DOMAIN a.handles = 1 .. Len(a.handles) /\ Len(a.handles) \in Nat
        /\ \A n \in 1 .. Len(a.handles) : handles[n] = a.handles[n]
        /\ handles[Len(a.handles) + 1] = handle
    BY <1>3, <1>4
  <2> HIDE DEF handles
  <2>2. ASSUME NEW n \in DOMAIN handles PROVE Refers(handles[n], a.session)
    <3>1. n \in 1 .. Len(a.handles) \/ n = Len(a.handles) + 1
      BY <2>1
    <3> QED
      BY <1>2, <1>3, <2>1, <3>1
  <2> QED
    BY <2>1, <2>2
<1>6. a' = [a EXCEPT !.handles = handles, !.fresh = TRUE]
  <2>1. a.fresh = TRUE
    BY <1>2 DEF Adapters
  <2> QED
    BY <1>1, <1>2, <2>1 DEF Adapters
<1> QED
  BY <1>1, <1>5, <1>6, HandlesAreQuiet

LEMMA VariablesKeeps ==
  ASSUME AdapterInv, NEW n, Variables(n)
  PROVE  AdapterInv' /\ EpochKept
<1> DEFINE s == a.session
           now == a.core[s].revision
           old == a.handles[n]
           handle == Resolve(old)
           fresh == handle.on = s /\ handle.readAt = now
           handles == [a.handles EXCEPT ![n] = handle]
<1>1. /\ UNCHANGED <<task, disk, moves>> /\ s # None /\ n \in DOMAIN a.handles
      /\ a' = [a EXCEPT !.handles[n] = handle, !.fresh = fresh]
  BY DEF Variables
<1>2. /\ a \in Adapters /\ s \in Sessions /\ a.core[s] \in Core
      /\ \A m \in DOMAIN a.handles : Refers(a.handles[m], s)
  BY <1>1, SessionThere
<1>3. a.handles \in Seq(Handle) /\ old \in Handle /\ Refers(old, s) /\ now \in Nat
  <2>1. a.handles \in Seq(Handle)
    BY <1>2 DEF Adapters
  <2> QED
    BY <1>1, <1>2, <2>1 DEF Core
<1>4. handle \in Handle /\ Refers(handle, s) /\ handle.readAt = now
  <2>1. CASE old.read /\ old.revision = now
    BY <1>3, <2>1 DEF Resolve, Refers, Handle
  <2>2. CASE ~(old.read /\ old.revision = now)
    <3>1. handle = [old EXCEPT !.revision = now, !.read = TRUE, !.readAt = a.core[old.on].revision]
      BY <2>2 DEF Resolve
    <3>2. a.core[old.on].revision = now /\ old.on = s
      BY <1>3 DEF Refers
    <3> HIDE DEF handle, old, now
    <3>3. handle = [old EXCEPT !.revision = now, !.read = TRUE, !.readAt = now]
      BY <3>1, <3>2
    <3> QED
      BY <1>3, <3>2, <3>3 DEF Refers, Handle
  <2> QED
    BY <2>1, <2>2
<1>5. fresh = TRUE
  BY <1>4 DEF Refers
<1> HIDE DEF handle
<1>6. handles \in Seq(Handle) /\ \A m \in DOMAIN handles : Refers(handles[m], s)
  <2>1. DOMAIN handles = DOMAIN a.handles /\ handles[n] = handle
        /\ \A m \in DOMAIN a.handles \ {n} : handles[m] = a.handles[m]
    BY <1>1
  <2>2. handles \in Seq(Handle)
    BY <1>1, <1>3, <1>4
  <2> QED
    BY <1>2, <1>4, <2>1, <2>2
<1>7. a' = [a EXCEPT !.handles = handles, !.fresh = fresh]
  BY <1>1
<1> HIDE DEF handles, fresh
<1> QED
  BY <1>1, <1>5, <1>6, <1>7, HandlesAreQuiet
-----------------------------------------------------------------------------
(* A request comes in, is resumed, or ends.                                *)

\* One request changes.
OnlyTask(t) == \A u \in Tasks \ {t} : task'[u] = task[u]

\* The stages a request of each kind is in before it is done.
StagesOf(kind) ==
  CASE kind = "launch" -> {"creating", "configuring"}
    [] kind = "restart" -> {"saving", "creating", "retiring"}
    [] kind = "terminate" -> {"retiring"}
    [] kind = "stream" -> {"connecting"}
    [] kind = "setLabel" -> {"writing"}

LEMMA TaskSent ==
  ASSUME AdapterInv, NEW t \in Tasks, NEW kind \in Kinds \ {"none"}, Sends(t, kind), ~overlapped',
         NEW stage \in Stages, stage = "done" \/ stage \in StagesOf(kind), NEW wish \in BOOLEAN,
         NEW text \in SUBSET Tasks, Task(t, kind, stage, wish, text),
         kind = "launch" /\ stage # "done" => a.session = None
  PROVE  /\ task' \in [Tasks -> Request] /\ OnlyTask(t) /\ Alone' /\ ~Awaits(t)
         /\ \A u \in Tasks : Shaped(u)'
         /\ task'[t].kind = kind /\ task'[t].stage = stage /\ task'[t].on = a.session
         /\ task'[t].next = None /\ task'[t].wish = wish
<1> DEFINE r == [kind |-> kind, stage |-> stage, on |-> a.session, next |-> None, wish |-> wish,
                 text |-> text, answers |-> IF stage = "done" THEN 1 ELSE 0]
<1>1. task \in [Tasks -> Request] /\ a.session \in Maybe(Sessions) /\ task[t].stage = "new"
  BY DEF AdapterInv, AdapterTypes, Adapters, Sends, Fresh
<1>2. r \in Request
  BY <1>1 DEF Request, Maybe
<1>3. task' = [task EXCEPT ![t] = r]
  BY DEF Task
<1>4. /\ r.kind = kind /\ r.stage = stage /\ r.on = a.session /\ r.next = None /\ r.wish = wish
      /\ r.answers = IF stage = "done" THEN 1 ELSE 0
  OBVIOUS
<1> HIDE DEF r
<1>5. task' \in [Tasks -> Request] /\ OnlyTask(t) /\ task'[t] = r
  BY <1>1, <1>2, <1>3 DEF OnlyTask
<1>6. ~Awaits(t)
  BY <1>1 DEF Awaits
<1>7. ASSUME NEW u \in Tasks PROVE Shaped(u)'
  <2>1. CASE u = t
    <3>1. /\ stage = "creating" => kind \in {"launch", "restart"}
          /\ stage = "saving" => kind = "restart"
          /\ stage = "configuring" => kind = "launch"
          /\ stage = "retiring" => kind \in {"restart", "terminate"}
          /\ stage = "connecting" => kind = "stream"
          /\ stage = "writing" => kind = "setLabel"
      BY DEF StagesOf, Kinds
    <3>2. r.answers <= IF stage = "done" THEN 1 ELSE 0
      BY <1>4
    <3> QED
      BY <1>4, <1>5, <2>1, <3>1, <3>2 DEF Shaped
  <2>2. CASE u # t
    <3>1. task'[u] = task[u] /\ Shaped(u)
      BY <1>5, <2>2 DEF OnlyTask, AdapterInv
    <3> QED
      BY <3>1 DEF Shaped
  <2> QED
    BY <2>1, <2>2
<1>8. Alone'
  <2> SUFFICES ASSUME NEW u \in Tasks, NEW v \in Tasks, Awaits(u)', Awaits(v)',
                      task'[u].kind \in UnderWay
               PROVE  /\ task'[v].kind \in UnderWay => u = v
                      /\ task'[u].kind = "restart" => task'[v].kind # "stream"
    BY DEF Alone
  <2>1. \A w \in Tasks \ {t} : /\ task'[w] = task[w]
                               /\ Awaits(w)' => Awaits(w)
                               /\ Awaits(w) => <<task[w].kind, kind>> \notin Crossing
    BY <1>5 DEF OnlyTask, Awaits, Sends, Unserialised
  <2>2. CASE u # t /\ v # t
    BY <2>1, <2>2 DEF AdapterInv, Alone
  <2>3. CASE u = t /\ v = t
    BY <1>4, <1>5, <2>3 DEF UnderWay
  \* A request that awaits, met by the one that comes in.
  <2>4. ASSUME NEW w \in Tasks \ {t}, Awaits(w)', Awaits(t)'
        PROVE  /\ ~(task[w].kind \in UnderWay /\ kind \in UnderWay)
               /\ ~(task[w].kind = "restart" /\ kind = "stream")
               /\ ~(task[w].kind = "stream" /\ kind = "restart")
    <3>1. Awaits(w) /\ <<task[w].kind, kind>> \notin Crossing /\ stage # "done"
      BY <1>4, <1>5, <2>1, <2>4 DEF Awaits
    <3>2. /\ <<"launch", "launch">> \in Crossing /\ <<"launch", "restart">> \in Crossing
          /\ <<"restart", "restart">> \in Crossing /\ <<"restart", "stream">> \in Crossing
          /\ <<"stream", "restart">> \in Crossing
      BY DEF Crossing
    <3>3. task[w].kind = "restart" => a.session # None
      BY <3>1 DEF AdapterInv, Holding
    <3> QED
      BY <3>1, <3>2, <3>3 DEF UnderWay
  <2>5. CASE u = t /\ v # t
    <3>1. /\ ~(task[v].kind \in UnderWay /\ kind \in UnderWay)
          /\ ~(task[v].kind = "stream" /\ kind = "restart")
      BY <2>4, <2>5
    <3> QED
      BY <1>4, <1>5, <2>1, <2>5, <3>1
  <2>6. CASE u # t /\ v = t
    <3>1. /\ ~(task[u].kind \in UnderWay /\ kind \in UnderWay)
          /\ ~(task[u].kind = "restart" /\ kind = "stream")
      BY <2>4, <2>6
    <3> QED
      BY <1>4, <1>5, <2>1, <2>6, <3>1
  <2> QED
    BY <2>2, <2>3, <2>5, <2>6
<1> QED
  BY <1>4, <1>5, <1>6, <1>7, <1>8

LEMMA TaskAdvanced ==
  ASSUME AdapterInv, NEW t \in Tasks, Awaits(t), NEW stage \in Stages, stage # "new",
         NEW next \in Maybe(Sessions), NEW answers \in {0, 1},
         stage = "done" \/ (answers = 0 /\ stage \in StagesOf(task[t].kind)),
         task[t].kind # "none", Advance(t, stage, next, answers)
  PROVE  /\ task' \in [Tasks -> Request] /\ OnlyTask(t) /\ Alone'
         /\ \A u \in Tasks : Shaped(u)'
         /\ task'[t].kind = task[t].kind /\ task'[t].stage = stage /\ task'[t].on = task[t].on
         /\ task'[t].next = next
<1> DEFINE x == task[t]
           text == IF stage = "retiring" THEN Labels(x.on) ELSE {}
           r == [x EXCEPT !.stage = stage, !.next = next, !.answers = x.answers + answers,
                          !.text = text]
<1>1. task \in [Tasks -> Request] /\ x \in Request
  BY DEF AdapterInv, AdapterTypes
<1>0. text \in SUBSET Tasks
  <2>1. ASSUME NEW s \in Maybe(Sessions) PROVE Labels(s) \subseteq Tasks
    BY <2>1 DEF Labels, Maybe, AdapterInv, AdapterTypes, Adapters, Core
  <2> QED
    BY <1>1, <2>1 DEF Request
<1> HIDE DEF text
<1>2. x.answers = 0 /\ x.answers + answers \in Nat
  <2>1. Shaped(t) /\ x.stage # "done" /\ x.answers \in Nat
    BY <1>1 DEF AdapterInv, Awaits, Request
  <2> QED
    BY <2>1 DEF Shaped
<1>3. r \in Request /\ r.kind = x.kind /\ r.stage = stage /\ r.on = x.on /\ r.next = next
      /\ r.answers = answers
  <2>1. x.answers + answers = answers
    BY <1>2
  <2>2. r = [x EXCEPT !.stage = stage, !.next = next, !.answers = answers, !.text = text]
    BY <2>1
  <2>3. answers \in Nat
    OBVIOUS
  <2> HIDE DEF r
  <2> QED
    BY <1>0, <1>1, <2>2, <2>3 DEF Request
<1>4. task' = [task EXCEPT ![t] = r]
  BY <1>1 DEF Advance, text
<1> HIDE DEF r
<1>5. task' \in [Tasks -> Request] /\ OnlyTask(t) /\ task'[t] = r
  BY <1>1, <1>3, <1>4 DEF OnlyTask
<1>6. ASSUME NEW u \in Tasks PROVE Shaped(u)'
  <2>1. CASE u = t
    <3>1. /\ stage = "creating" => x.kind \in {"launch", "restart"}
          /\ stage = "saving" => x.kind = "restart"
          /\ stage = "configuring" => x.kind = "launch"
          /\ stage = "retiring" => x.kind \in {"restart", "terminate"}
          /\ stage = "connecting" => x.kind = "stream"
          /\ stage = "writing" => x.kind = "setLabel"
      BY <1>1 DEF StagesOf, Kinds, Request
    <3>2. r.answers <= IF stage = "done" THEN 1 ELSE 0
      BY <1>3
    <3> QED
      BY <1>3, <1>5, <2>1, <3>1, <3>2 DEF Shaped
  <2>2. CASE u # t
    <3>1. task'[u] = task[u] /\ Shaped(u)
      BY <1>5, <2>2 DEF OnlyTask, AdapterInv
    <3> QED
      BY <3>1 DEF Shaped
  <2> QED
    BY <2>1, <2>2
<1>7. Alone'
  <2>1. \A u \in Tasks : task'[u].kind = task[u].kind /\ (Awaits(u)' => Awaits(u))
    BY <1>3, <1>5 DEF OnlyTask, Awaits
  <2> QED
    BY <2>1 DEF AdapterInv, Alone
<1> QED
  BY <1>3, <1>5, <1>6, <1>7
\* A step of one request that leaves every session as it is but for its labels.
Light(t) ==
  /\ a' \in Adapters /\ disk' \subseteq Tasks /\ moves' = moves
  /\ task' \in [Tasks -> Request] /\ OnlyTask(t) /\ Alone' /\ \A u \in Tasks : Shaped(u)'
  /\ task[t].stage \notin {"configuring", "retiring"}
  /\ task'[t].stage \notin {"configuring", "retiring"}
  /\ a'.session = a.session /\ a'.launched = a.launched /\ a'.unwire = a.unwire
  /\ a'.epochBase = a.epochBase /\ a'.breakpoints = a.breakpoints /\ a'.handles = a.handles
  /\ a'.audioOff = a.audioOff /\ a'.audioWanted = a.audioWanted /\ a'.told = a.told
  /\ a'.fresh = a.fresh
  /\ a'.stream = "connected" => a.stream = "connected"
  /\ \A s \in Sessions :
       /\ a'.core[s].state = a.core[s].state /\ a'.core[s].epoch = a.core[s].epoch
       /\ a'.core[s].breakpoints = a.core[s].breakpoints
       /\ a'.core[s].wired = a.core[s].wired /\ a'.core[s].audio = a.core[s].audio
       /\ a.core[s].labels \subseteq a'.core[s].labels
  /\ \A u \in Tasks \ {t} : a'.pending = u => a.pending = u

LEMMA LightKeeps ==
  ASSUME AdapterInv, NEW t \in Tasks, Light(t), Holding(t)'
  PROVE  AdapterInv' /\ EpochKept
<1>1. /\ a \in Adapters /\ task \in [Tasks -> Request] /\ a.session \in Maybe(Sessions)
      /\ \A u \in Tasks : task[u].on \in Maybe(Sessions) /\ task[u].next \in Maybe(Sessions)
  BY DEF AdapterInv, AdapterTypes, Adapters, Request
<1>2. AdapterTypes'
  BY DEF Light, AdapterInv, AdapterTypes
<1>3. ASSUME NEW u \in Tasks PROVE Holding(u)'
  <2>1. CASE u = t
    BY <2>1
  <2>2. CASE u # t
    <3>1. task'[u] = task[u] /\ Holding(u)
      BY <2>2 DEF Light, OnlyTask, AdapterInv
    <3>2. /\ a'.session = a.session /\ a'.launched = a.launched /\ a'.told = a.told
          /\ a'.audioOff = a.audioOff
          /\ a'.pending = u => a.pending = u
          /\ \A s \in Sessions : /\ a'.core[s].state = a.core[s].state
                                 /\ a.core[s].labels \subseteq a'.core[s].labels
      BY <2>2 DEF Light
    <3> QED
      BY <1>1, <3>1, <3>2 DEF Holding, IsA, Awaits, Maybe
  <2> QED
    BY <2>1, <2>2
<1>4. Untouched'
  BY DEF AdapterInv, Untouched, Light, Adapters
<1>5. \A u \in Tasks : task[u].stage \in {"configuring", "retiring"} => u # t /\ task'[u] = task[u]
  BY DEF Light, OnlyTask
<1>6. \A u \in Tasks : task'[u].stage \in {"configuring", "retiring"} => u # t /\ task'[u] = task[u]
  BY DEF Light, OnlyTask
<1>7. (Replacing' <=> Replacing) /\ (Configuring' <=> Configuring)
  BY <1>5, <1>6 DEF Replacing, Configuring, IsA
<1>8. Held'
  <2> SUFFICES ASSUME NEW s \in Sessions
               PROVE  /\ Alive(a, s)' =>
                           \/ s = a'.session
                           \/ \E u \in Tasks : \/ IsA(u, "restart", "retiring")' /\ task'[u].next = s
                                               \/ IsA(u, "terminate", "retiring")' /\ task'[u].on = s
                      /\ a'.core[s].wired => s = a'.session /\ s = a'.unwire
                      /\ a'.core[s].audio => s = a'.session /\ a'.audioOff = s
    BY DEF Held
  <2>1. Alive(a, s)' => Alive(a, s)
    BY DEF Alive, Light
  <2>2. /\ a'.session = a.session /\ a'.unwire = a.unwire /\ a'.audioOff = a.audioOff
        /\ a'.core[s].wired = a.core[s].wired /\ a'.core[s].audio = a.core[s].audio
    BY DEF Light
  <2> QED
    BY <1>5, <2>1, <2>2 DEF AdapterInv, Held, IsA
<1>9. InUse'
  <2>1. /\ a'.session = a.session /\ a'.launched = a.launched /\ a'.breakpoints = a.breakpoints
        /\ a'.epochBase = a.epochBase /\ a'.handles = a.handles /\ a'.told = a.told
        /\ a'.audioWanted = a.audioWanted /\ a'.audioOff = a.audioOff
        /\ a'.stream = "connected" => a.stream = "connected"
    BY DEF Light
  <2>2. a.session # None =>
          /\ a'.core[a.session].state = a.core[a.session].state
          /\ a'.core[a.session].epoch = a.core[a.session].epoch
          /\ a'.core[a.session].breakpoints = a.core[a.session].breakpoints
          /\ a'.core[a.session].wired = a.core[a.session].wired
    BY <1>1 DEF Light, Maybe
  <2> QED
    BY <1>7, <2>1, <2>2 DEF AdapterInv, InUse, Alive
<1>10. EpochKept
  BY DEF Light, EpochKept, NoSmallerEpoch, AdapterInv, AdapterTypes, Adapters, Told
<1> QED
  BY <1>2, <1>3, <1>4, <1>8, <1>9, <1>10 DEF AdapterInv, Light

\* The adapter as it was.
LEMMA SameAdapterIsLight ==
  ASSUME AdapterInv, NEW t \in Tasks, UNCHANGED <<a, moves>>, disk' \subseteq Tasks,
         task' \in [Tasks -> Request], OnlyTask(t), Alone', \A u \in Tasks : Shaped(u)',
         task[t].stage \notin {"configuring", "retiring"},
         task'[t].stage \notin {"configuring", "retiring"}, Holding(t)'
  PROVE  AdapterInv' /\ EpochKept
<1>1. Light(t)
  BY DEF Light, AdapterInv, AdapterTypes
<1> QED
  BY <1>1, LightKeeps

LEMMA CreationFailsKeeps ==
  ASSUME AdapterInv, NEW t \in Tasks, CreationFails(t)
  PROVE  AdapterInv' /\ EpochKept
<1>1. /\ task[t].stage = "creating" /\ UNCHANGED <<a, disk, moves>>
      /\ Advance(t, "done", task[t].next, 1)
  BY DEF CreationFails, Finish
<1>2. /\ task[t] \in Request /\ Holding(t) /\ Shaped(t) /\ disk \subseteq Tasks
  BY DEF AdapterInv, AdapterTypes
<1>3. Awaits(t) /\ task[t].kind \in {"launch", "restart"} /\ task[t].next \in Maybe(Sessions)
  BY <1>1, <1>2 DEF Awaits, Shaped, Request
<1>4. /\ task' \in [Tasks -> Request] /\ OnlyTask(t) /\ Alone' /\ \A u \in Tasks : Shaped(u)'
      /\ task'[t].kind = task[t].kind /\ task'[t].stage = "done" /\ task'[t].on = task[t].on
  BY <1>1, <1>3, TaskAdvanced DEF Stages
<1>5. Holding(t)'
  BY <1>1, <1>2, <1>4 DEF Holding, IsA, Awaits
<1> QED
  BY <1>1, <1>2, <1>4, <1>5, SameAdapterIsLight

LEMMA SessionOrNone ==
  ASSUME AdapterInv
  PROVE  /\ a.session \in Maybe(Sessions)
         /\ a.session # None => a.session \in Sessions /\ Alive(a, a.session) /\ a.launched
         /\ a.session # None => a.core[a.session].state # "unborn"
BY DEF AdapterInv, AdapterTypes, Adapters, Maybe, InUse, Alive

LEMMA LaunchKeeps ==
  ASSUME AdapterInv, NEW t \in Tasks, NEW wish \in BOOLEAN, Launch(t, wish), ~overlapped'
  PROVE  AdapterInv' /\ EpochKept
<1> DEFINE stage == IF a.session # None THEN "done" ELSE "creating"
<1>1. /\ Sends(t, "launch") /\ UNCHANGED <<a, disk, moves>>
      /\ Task(t, "launch", stage, wish, {})
  BY DEF Launch
<1>2. a.session # None \/ ~a.launched
  BY <1>1 DEF Sends, Unserialised
<1>3. stage \in Stages /\ (stage = "done" \/ stage \in StagesOf("launch"))
      /\ UNCHANGED <<a, disk, moves>> /\ disk \subseteq Tasks
  BY DEF Stages, StagesOf, Launch, AdapterInv, AdapterTypes
<1>4. /\ task' \in [Tasks -> Request] /\ OnlyTask(t) /\ Alone' /\ ~Awaits(t)
      /\ \A u \in Tasks : Shaped(u)'
      /\ task'[t].kind = "launch" /\ task'[t].stage = stage /\ task'[t].on = a.session
  BY <1>1, <1>3, TaskSent DEF Kinds
<1>5. Holding(t)'
  BY <1>2, <1>3, <1>4, SessionOrNone DEF Holding, IsA, Awaits
<1>6. task[t].stage \notin {"configuring", "retiring"} /\ stage \notin {"configuring", "retiring"}
  BY <1>4 DEF Awaits
<1> QED
  BY <1>3, <1>4, <1>5, <1>6, SameAdapterIsLight

LEMMA RestartKeeps ==
  ASSUME AdapterInv, NEW t \in Tasks, NEW wish \in BOOLEAN, Restart(t, wish), ~overlapped'
  PROVE  AdapterInv' /\ EpochKept
<1>1. Sends(t, "restart") /\ UNCHANGED <<a, disk, moves>> /\ disk' \subseteq Tasks
  BY DEF Restart, AdapterInv, AdapterTypes
<1>2. ASSUME NEW s \in Maybe(Sessions) PROVE Labels(s) \subseteq Tasks
  BY <1>2 DEF Labels, Maybe, AdapterInv, AdapterTypes, Adapters, Core
\* There is no session, or its labels are saved first, or the new one is created.
<1>3. ASSUME NEW stage \in {"done", "saving", "creating"}, NEW text \in SUBSET Tasks,
             Task(t, "restart", stage, wish, text), stage # "done" => a.session # None
      PROVE  AdapterInv' /\ EpochKept
  <2>1. stage \in Stages /\ (stage = "done" \/ stage \in StagesOf("restart"))
    BY DEF Stages, StagesOf
  <2>2. /\ task' \in [Tasks -> Request] /\ OnlyTask(t) /\ Alone' /\ ~Awaits(t)
        /\ \A u \in Tasks : Shaped(u)'
        /\ task'[t].kind = "restart" /\ task'[t].stage = stage /\ task'[t].on = a.session
    BY <1>1, <1>3, <2>1, TaskSent DEF Kinds
  <2>3. Holding(t)'
    BY <1>1, <1>3, <2>2, SessionOrNone DEF Holding, IsA, Awaits
  <2>4. task[t].stage \notin {"configuring", "retiring"} /\ stage \notin {"configuring", "retiring"}
    BY <2>2 DEF Awaits
  <2> QED
    BY <1>1, <2>2, <2>3, <2>4, SameAdapterIsLight
<1>4. CASE a.session = None \/ ~a.launched
  BY <1>3, <1>4 DEF Restart
<1>5. CASE a.session # None /\ a.launched /\ a.core[a.session].dirty
  <2>1. Labels(a.session) \in SUBSET Tasks
    BY <1>2, SessionOrNone
  <2> QED
    BY <1>3, <1>5, <2>1 DEF Restart
<1>6. CASE a.session # None /\ a.launched /\ ~a.core[a.session].dirty
  BY <1>3, <1>6 DEF Restart
<1> QED
  BY <1>4, <1>5, <1>6

LEMMA SetLabelKeeps ==
  ASSUME AdapterInv, NEW t \in Tasks, SetLabel(t), ~overlapped'
  PROVE  AdapterInv' /\ EpochKept
<1> DEFINE s == a.session
           stage == IF s = None THEN "done" ELSE "writing"
           text == IF s = None THEN {} ELSE Labels(s) \cup {t}
           x == Labelled(a.core[s], t)
<1>1. /\ Sends(t, "setLabel") /\ UNCHANGED <<disk, moves>> /\ Task(t, "setLabel", stage, FALSE, text)
      /\ IF s = None THEN a' = a ELSE a' = [a EXCEPT !.core[s] = Labelled(@, t)]
      /\ disk \subseteq Tasks
  BY DEF SetLabel, AdapterInv, AdapterTypes
<1>2. stage \in Stages /\ (stage = "done" \/ stage \in StagesOf("setLabel"))
  BY DEF Stages, StagesOf
<1>0. text \in SUBSET Tasks
  <2>1. CASE s = None BY <2>1
  <2>2. CASE s # None
    <3>1. a.core[s] \in Core
      BY <2>2, SessionThere
    <3> QED
      BY <2>2, <3>1 DEF Labels, Core
  <2> QED BY <2>1, <2>2
<1> HIDE DEF text
<1>3. /\ task' \in [Tasks -> Request] /\ OnlyTask(t) /\ Alone' /\ ~Awaits(t)
      /\ \A u \in Tasks : Shaped(u)'
      /\ task'[t].kind = "setLabel" /\ task'[t].stage = stage /\ task'[t].on = s
  <2>1. Sends(t, "setLabel") /\ Task(t, "setLabel", stage, FALSE, text)
    BY <1>1
  <2>2. "setLabel" \in Kinds \ {"none"} /\ FALSE \in BOOLEAN
    BY DEF Kinds
  <2> HIDE DEF stage
  <2> QED
    BY <1>0, <1>2, <2>1, <2>2, TaskSent
<1>4. task[t].stage \notin {"configuring", "retiring"} /\ stage \notin {"configuring", "retiring"}
  BY <1>3 DEF Awaits
<1>5. CASE s = None
  <2>1. Holding(t)'
    BY <1>1, <1>3, <1>5 DEF Holding, IsA, Awaits
  <2> QED
    BY <1>1, <1>3, <1>4, <1>5, <2>1, SameAdapterIsLight
<1>6. CASE s # None
  <2>1. /\ a \in Adapters /\ s \in Sessions /\ a.core[s] \in Core /\ a.core \in [Sessions -> Core]
        /\ a.core[s].state # "unborn"
    BY <1>6, SessionThere, SessionOrNone
  <2>2. x = [a.core[s] EXCEPT !.labels = a.core[s].labels \cup {t}, !.dirty = TRUE]
    BY <2>1 DEF Labelled, Core
  <2>3. a.core[s].labels \cup {t} \in SUBSET Tasks
    BY <2>1 DEF Core
  <2>4. /\ x \in Core /\ x.labels = a.core[s].labels \cup {t} /\ x.state = a.core[s].state
        /\ x.epoch = a.core[s].epoch /\ x.breakpoints = a.core[s].breakpoints
        /\ x.wired = a.core[s].wired /\ x.audio = a.core[s].audio
    <3> HIDE DEF x
    <3> QED
      BY <2>1, <2>2, <2>3 DEF Core
  <2>5. a' = [a EXCEPT !.core[s] = x]
    BY <1>1, <1>6, <2>1 DEF Adapters
  <2> HIDE DEF x
  <2>6. CoreSet(a, a', s, x)
    BY <2>1, <2>4, <2>5, OneSessionSet
  <2>7. /\ a' \in Adapters /\ SameRest(a, a') /\ a'.unwire = a.unwire /\ a'.audioOff = a.audioOff
        /\ a'.handles = a.handles /\ a'.told = a.told /\ a'.core = [a.core EXCEPT ![s] = x]
    BY <2>6 DEF CoreSet
  <2>8. /\ a'.session = s /\ a'.launched = a.launched
        /\ a'.epochBase = a.epochBase /\ a'.breakpoints = a.breakpoints
        /\ a'.audioWanted = a.audioWanted /\ a'.fresh = a.fresh /\ a'.stream = a.stream
        /\ a'.pending = a.pending
    BY <2>7 DEF SameRest
  <2>9. \A r \in Sessions :
          /\ a'.core[r].state = a.core[r].state /\ a'.core[r].epoch = a.core[r].epoch
          /\ a'.core[r].breakpoints = a.core[r].breakpoints
          /\ a'.core[r].wired = a.core[r].wired /\ a'.core[r].audio = a.core[r].audio
          /\ a.core[r].labels \subseteq a'.core[r].labels
    BY <2>1, <2>4, <2>7
  <2>10. t \in a'.core[s].labels /\ a'.core[s].state # "unborn"
    BY <2>1, <2>4, <2>7
  <2>11. Holding(t)'
    BY <1>3, <1>6, <2>8, <2>10 DEF Holding, IsA, Awaits
  <2>12. Light(t)
    BY <1>1, <1>3, <1>4, <2>7, <2>8, <2>9 DEF Light
  <2> QED
    BY <2>11, <2>12, LightKeeps
<1> QED
  BY <1>5, <1>6

\* A request's write ends: nothing but what counts as saved is another.
LEMMA WriteEnds ==
  ASSUME AdapterInv, NEW t \in Tasks, task[t].on \in Sessions, NEW written \in BOOLEAN,
         Saves(t, written), a' = Saved(a, task[t].on, written), moves' = moves,
         task' \in [Tasks -> Request], OnlyTask(t), Alone', \A u \in Tasks : Shaped(u)',
         task[t].stage \notin {"configuring", "retiring"},
         task'[t].stage \notin {"configuring", "retiring"},
         OnlySaved(a, a') => Holding(t)'
  PROVE  AdapterInv' /\ EpochKept
<1>1. OnlySaved(a, a')
  BY SavedSaves DEF AdapterInv, AdapterTypes
<1>2. disk' \subseteq Tasks
  BY DEF Saves, AdapterInv, AdapterTypes, Request
<1>3. Light(t)
  BY <1>1, <1>2 DEF Light, OnlySaved, SameRest
<1> QED
  BY <1>1, <1>3, LightKeeps

LEMMA LabelWrittenKeeps ==
  ASSUME AdapterInv, NEW t \in Tasks, LabelWritten(t)
  PROVE  AdapterInv' /\ EpochKept
<1> DEFINE s == task[t].on
<1>1. /\ task[t].stage = "writing" /\ moves' = moves /\ Advance(t, "done", task[t].next, 1)
  BY DEF LabelWritten, Finish
<1>2. PICK written \in BOOLEAN : Saves(t, written) /\ a' = Saved(a, s, written)
  BY DEF LabelWritten
<1>3. task[t] \in Request /\ Holding(t) /\ Shaped(t)
  BY DEF AdapterInv, AdapterTypes
<1>4. /\ Awaits(t) /\ task[t].kind = "setLabel" /\ s \in Sessions /\ s # None
      /\ task[t].next \in Maybe(Sessions)
  BY <1>1, <1>3 DEF Awaits, Shaped, Holding, Request, Maybe
<1>5. /\ task' \in [Tasks -> Request] /\ OnlyTask(t) /\ Alone' /\ \A u \in Tasks : Shaped(u)'
      /\ task'[t].kind = "setLabel" /\ task'[t].stage = "done" /\ task'[t].on = s
  BY <1>1, <1>4, TaskAdvanced DEF Stages
<1>6. OnlySaved(a, a') => Holding(t)'
  BY <1>3, <1>4, <1>5 DEF Holding, IsA, Awaits, OnlySaved
<1> QED
  BY <1>1, <1>2, <1>4, <1>5, <1>6, WriteEnds

LEMMA RestartSavedKeeps ==
  ASSUME AdapterInv, NEW t \in Tasks, RestartSaved(t)
  PROVE  AdapterInv' /\ EpochKept
<1> DEFINE s == task[t].on
<1>1. /\ task[t].stage = "saving" /\ moves' = moves /\ Advance(t, "creating", None, 0)
  BY DEF RestartSaved
<1>2. PICK written \in BOOLEAN : Saves(t, written) /\ a' = Saved(a, s, written)
  BY DEF RestartSaved
<1>3. task[t] \in Request /\ Holding(t) /\ Shaped(t)
  BY DEF AdapterInv, AdapterTypes
<1>4. /\ Awaits(t) /\ task[t].kind = "restart" /\ s \in Sessions /\ s # None /\ s = a.session
  BY <1>1, <1>3 DEF Awaits, Shaped, Holding, Request, Maybe
<1>5. /\ task' \in [Tasks -> Request] /\ OnlyTask(t) /\ Alone' /\ \A u \in Tasks : Shaped(u)'
      /\ task'[t].kind = "restart" /\ task'[t].stage = "creating" /\ task'[t].on = s
  <2>1. "creating" \in Stages /\ "creating" \in StagesOf("restart") /\ None \in Maybe(Sessions)
    BY DEF Stages, StagesOf, Maybe
  <2> QED
    BY <1>1, <1>4, <2>1, TaskAdvanced
<1>6. OnlySaved(a, a') => Holding(t)'
  BY <1>3, <1>4, <1>5 DEF Holding, IsA, Awaits, OnlySaved, SameRest
<1> QED
  BY <1>1, <1>2, <1>4, <1>5, <1>6, WriteEnds

LEMMA StreamKeeps ==
  ASSUME AdapterInv, NEW t \in Tasks, NEW wish \in BOOLEAN, Stream(t, wish), ~overlapped'
  PROVE  AdapterInv' /\ EpochKept
<1> DEFINE stage == IF a.session = None THEN "done" ELSE "connecting"
<1>1. /\ Sends(t, "stream") /\ UNCHANGED <<disk, moves>> /\ Task(t, "stream", stage, wish, {})
      /\ IF a.session = None THEN a' = a ELSE a' = [CloseStream(a) EXCEPT !.pending = t]
      /\ disk \subseteq Tasks /\ a \in Adapters
  BY DEF Stream, AdapterInv, AdapterTypes
<1>2. stage \in Stages /\ (stage = "done" \/ stage \in StagesOf("stream"))
  BY DEF Stages, StagesOf
<1>3. /\ task' \in [Tasks -> Request] /\ OnlyTask(t) /\ Alone' /\ ~Awaits(t)
      /\ \A u \in Tasks : Shaped(u)'
      /\ task'[t].kind = "stream" /\ task'[t].stage = stage /\ task'[t].on = a.session
  BY <1>1, <1>2, TaskSent DEF Kinds
<1>4. task[t].stage \notin {"configuring", "retiring"} /\ stage \notin {"configuring", "retiring"}
  BY <1>3 DEF Awaits
<1>5. CASE a.session = None
  <2>1. Holding(t)'
    BY <1>1, <1>3, <1>5 DEF Holding, IsA, Awaits
  <2> QED
    BY <1>1, <1>3, <1>4, <1>5, <2>1, SameAdapterIsLight
<1>6. CASE a.session # None
  <2>1. a' = [a EXCEPT !.stream = "closed", !.pending = t]
    BY <1>1, <1>6 DEF CloseStream, Adapters
  <2>2. /\ a' \in Adapters /\ a'.session = a.session /\ a'.launched = a.launched
        /\ a'.unwire = a.unwire /\ a'.pending = t /\ a'.audioWanted = a.audioWanted
        /\ a'.audioOff = a.audioOff /\ a'.epochBase = a.epochBase /\ a'.fresh = a.fresh
        /\ a'.stream = "closed" /\ a'.core = a.core /\ a'.told = a.told
        /\ a'.breakpoints = a.breakpoints /\ a'.handles = a.handles
    BY <1>1, <2>1 DEF Adapters, Maybe
  <2>3. Holding(t)'
    BY <1>3, <1>6, <2>2, SessionOrNone DEF Holding, IsA, Awaits
  <2>4. Light(t)
    BY <1>1, <1>3, <1>4, <2>2 DEF Light
  <2> QED
    BY <2>3, <2>4, LightKeeps
<1> QED
  BY <1>5, <1>6

LEMMA StreamFailsKeeps ==
  ASSUME AdapterInv, NEW t \in Tasks, StreamFails(t)
  PROVE  AdapterInv' /\ EpochKept
<1>1. /\ task[t].stage = "connecting" /\ UNCHANGED <<disk, moves>>
      /\ Advance(t, "done", task[t].next, 1)
      /\ a' = IF a.pending = t THEN [a EXCEPT !.pending = None] ELSE a
  BY DEF StreamFails, Finish
<1>2. /\ a \in Adapters /\ task[t] \in Request /\ Holding(t) /\ Shaped(t) /\ disk \subseteq Tasks
  BY DEF AdapterInv, AdapterTypes
<1>3. Awaits(t) /\ task[t].kind = "stream" /\ task[t].next \in Maybe(Sessions)
  BY <1>1, <1>2 DEF Awaits, Shaped, Request
<1>4. /\ task' \in [Tasks -> Request] /\ OnlyTask(t) /\ Alone' /\ \A u \in Tasks : Shaped(u)'
      /\ task'[t].kind = "stream" /\ task'[t].stage = "done" /\ task'[t].on = task[t].on
  BY <1>1, <1>3, TaskAdvanced DEF Stages
<1>5. /\ a' \in Adapters /\ a'.session = a.session /\ a'.launched = a.launched
      /\ a'.unwire = a.unwire /\ a'.pending \in {a.pending, None}
      /\ a'.audioWanted = a.audioWanted
      /\ a'.audioOff = a.audioOff /\ a'.epochBase = a.epochBase /\ a'.fresh = a.fresh
      /\ a'.stream = a.stream /\ a'.core = a.core /\ a'.told = a.told
      /\ a'.breakpoints = a.breakpoints /\ a'.handles = a.handles
  BY <1>1, <1>2 DEF Adapters, Maybe
<1>6. Holding(t)'
  BY <1>2, <1>4, <1>5 DEF Holding, IsA, Awaits
<1>7. Light(t)
  BY <1>1, <1>2, <1>4, <1>5, NothingIsNoSession DEF Light
<1> QED
  BY <1>6, <1>7, LightKeeps
\* What the audio's listener moves from one session to another.
LEMMA AudioMoves ==
  ASSUME NEW b \in Adapters, NEW c, NEW n \in Maybe(Sessions),
         c = IF n = None THEN AudioOff(b) ELSE ListenAudio(b, n),
         \A s \in Sessions : b.core[s].audio => b.audioOff = s
  PROVE  /\ c \in Adapters /\ SameRest(b, c) /\ c.unwire = b.unwire /\ c.handles = b.handles
         /\ c.told = b.told /\ c.audioOff = n
         /\ \A s \in Sessions :
              /\ SameStore(b.core[s], c.core[s]) /\ c.core[s].state = b.core[s].state
              /\ c.core[s].wired = b.core[s].wired
              /\ c.core[s].audio => s = n
<1>1. b.core \in [Sessions -> Core]
  BY DEF Adapters
<1>2. ASSUME NEW x \in Core, NEW y, NEW on \in BOOLEAN, y = [x EXCEPT !.audio = on]
      PROVE  /\ SameStore(x, y) /\ y.state = x.state /\ y.wired = x.wired
             /\ y.audio = on
  BY <1>2 DEF Core, SameStore
<1>3. \A x \in Core : SameStore(x, x)
  BY DEF SameStore
<1>4. CASE n = None
  <2>1. Muted(b, c)
    BY <1>4, AudioOffMutes
  <2>2. ASSUME NEW s \in Sessions
        PROVE  /\ SameStore(b.core[s], c.core[s]) /\ c.core[s].state = b.core[s].state
               /\ c.core[s].wired = b.core[s].wired
               /\ c.core[s].audio => s = n
    <3>1. CASE s = b.audioOff
      BY <1>1, <1>2, <2>1, <3>1 DEF Muted
    <3>2. CASE s # b.audioOff
      BY <1>1, <1>3, <2>1, <3>2 DEF Muted
    <3> QED
      BY <3>1, <3>2
  <2> QED
    BY <1>4, <2>1, <2>2 DEF Muted
<1>5. CASE n # None
  <2>1. Heard(b, c, n) /\ n \in Sessions
    BY <1>5, ListenAudioHears DEF Maybe
  <2>2. ASSUME NEW s \in Sessions
        PROVE  /\ SameStore(b.core[s], c.core[s]) /\ c.core[s].state = b.core[s].state
               /\ c.core[s].wired = b.core[s].wired
               /\ c.core[s].audio => s = n
    <3>0. b.core[s] \in Core
      BY <1>1
    <3>1. CASE s = n
      <4>1. c.core[s] = [b.core[s] EXCEPT !.audio = TRUE]
        BY <2>1, <3>1 DEF Heard
      <4> QED
        BY <1>2, <3>0, <3>1, <4>1
    <3>2. CASE s # n /\ s = b.audioOff
      <4>1. c.core[s] = [b.core[s] EXCEPT !.audio = FALSE]
        BY <2>1, <3>2 DEF Heard
      <4> QED
        BY <1>2, <3>0, <4>1
    <3>3. CASE s # n /\ s # b.audioOff
      <4>1. c.core[s] = b.core[s]
        BY <2>1, <3>3 DEF Heard
      <4> QED
        BY <1>3, <1>5, <3>0, <3>3, <4>1
    <3> QED
      BY <3>1, <3>2, <3>3
  <2> QED
    BY <2>1, <2>2 DEF Heard
<1> QED
  BY <1>4, <1>5

LEMMA StreamConnectsKeeps ==
  ASSUME AdapterInv, NEW t \in Tasks, StreamConnects(t)
  PROVE  AdapterInv' /\ EpochKept
<1> DEFINE wish == task[t].wish
           b == [a EXCEPT !.stream = "connected", !.pending = None, !.audioWanted = wish]
           n == IF wish THEN task[t].on ELSE None
<1>1. /\ task[t].stage = "connecting" /\ a.pending = t /\ UNCHANGED <<disk, moves>>
      /\ Advance(t, "done", task[t].next, 1)
      /\ a' = IF wish THEN ListenAudio(AudioOff(b), task[t].on) ELSE AudioOff(b)
  BY DEF StreamConnects, Finish
<1>2. /\ a \in Adapters /\ task[t] \in Request /\ Holding(t) /\ Shaped(t) /\ disk \subseteq Tasks
      /\ \A s \in Sessions : a.core[s].audio => s = a.session /\ a.audioOff = s
  BY DEF AdapterInv, AdapterTypes, Held
<1>3. /\ Awaits(t) /\ task[t].kind = "stream" /\ task[t].next \in Maybe(Sessions)
      /\ wish \in BOOLEAN /\ a.session # None /\ task[t].on = a.session /\ a.session \in Sessions
  BY <1>1, <1>2 DEF Awaits, Shaped, Request, Holding, Adapters, Maybe
<1>4. /\ task' \in [Tasks -> Request] /\ OnlyTask(t) /\ Alone' /\ \A u \in Tasks : Shaped(u)'
      /\ task'[t].kind = "stream" /\ task'[t].stage = "done" /\ task'[t].on = task[t].on
  BY <1>1, <1>3, TaskAdvanced DEF Stages
\* The stream is connected, and nobody hears the audio; then the session may.
<1>5. /\ b \in Adapters /\ b.session = a.session /\ b.launched = a.launched
      /\ b.epochBase = a.epochBase /\ b.breakpoints = a.breakpoints /\ b.fresh = a.fresh
      /\ b.audioWanted = wish /\ b.stream = "connected" /\ b.pending = None
      /\ b.core = a.core /\ b.audioOff = a.audioOff /\ b.unwire = a.unwire
      /\ b.handles = a.handles /\ b.told = a.told
  BY <1>2, <1>3 DEF Adapters, Maybe
<1> HIDE DEF b
<1> DEFINE c == AudioOff(b)
<1>6. /\ c \in Adapters /\ SameRest(b, c) /\ c.unwire = b.unwire /\ c.handles = b.handles
      /\ c.told = b.told /\ c.audioOff = None
      /\ \A s \in Sessions :
           /\ SameStore(b.core[s], c.core[s]) /\ c.core[s].state = b.core[s].state
           /\ c.core[s].wired = b.core[s].wired
           /\ ~c.core[s].audio
  <2>1. None \in Maybe(Sessions) /\ \A s \in Sessions : s # None
    BY NothingIsNoSession DEF Maybe
  <2> HIDE DEF c
  <2>2. c = IF None = None THEN AudioOff(b) ELSE ListenAudio(b, None)
    BY DEF c
  <2>3. \A s \in Sessions : b.core[s].audio => b.audioOff = s
    BY <1>2, <1>5
  <2>4. /\ c \in Adapters /\ SameRest(b, c) /\ c.unwire = b.unwire /\ c.handles = b.handles
        /\ c.told = b.told /\ c.audioOff = None
        /\ \A s \in Sessions :
             /\ SameStore(b.core[s], c.core[s]) /\ c.core[s].state = b.core[s].state
             /\ c.core[s].wired = b.core[s].wired
             /\ c.core[s].audio => s = None
    BY <1>5, <2>1, <2>2, <2>3, AudioMoves
  <2> QED
    BY <2>1, <2>4
<1>7. /\ a' \in Adapters /\ SameRest(b, a') /\ a'.unwire = b.unwire /\ a'.handles = b.handles
      /\ a'.told = b.told /\ a'.audioOff = n
      /\ \A s \in Sessions :
           /\ SameStore(b.core[s], a'.core[s]) /\ a'.core[s].state = b.core[s].state
           /\ a'.core[s].wired = b.core[s].wired
           /\ a'.core[s].audio => s = n
  <2>1. CASE wish
    <3>1. a' = ListenAudio(c, n) /\ n \in Sessions /\ n # None /\ n \in Maybe(Sessions)
      BY <1>1, <1>3, <2>1 DEF Maybe
    <3> HIDE DEF c, n
    <3>2. a' = IF n = None THEN AudioOff(c) ELSE ListenAudio(c, n)
      BY <3>1
    <3>3. \A s \in Sessions : c.core[s].audio => c.audioOff = s
      BY <1>6
    <3>4. /\ a' \in Adapters /\ SameRest(c, a') /\ a'.unwire = c.unwire /\ a'.handles = c.handles
          /\ a'.told = c.told /\ a'.audioOff = n
          /\ \A s \in Sessions :
               /\ SameStore(c.core[s], a'.core[s]) /\ a'.core[s].state = c.core[s].state
               /\ a'.core[s].wired = c.core[s].wired
               /\ a'.core[s].audio => s = n
      BY <1>6, <3>1, <3>2, <3>3, AudioMoves
    <3> QED
      BY <1>6, <3>4 DEF SameRest, SameStore
  <2>2. CASE ~wish
    <3>1. a' = c /\ n = None
      BY <1>1, <2>2
    <3> HIDE DEF c, n
    <3> QED
      BY <1>6, <3>1
  <2> QED
    BY <1>3, <2>1, <2>2
<1>8. /\ a'.session = a.session /\ a'.launched = a.launched /\ a'.epochBase = a.epochBase
      /\ a'.breakpoints = a.breakpoints /\ a'.fresh = a.fresh /\ a'.audioWanted = wish
      /\ a'.pending = None /\ a'.unwire = a.unwire /\ a'.handles = a.handles /\ a'.told = a.told
  BY <1>5, <1>7 DEF SameRest
<1>9. \A s \in Sessions :
        /\ a'.core[s].state = a.core[s].state /\ a'.core[s].epoch = a.core[s].epoch
        /\ a'.core[s].breakpoints = a.core[s].breakpoints /\ a'.core[s].labels = a.core[s].labels
        /\ a'.core[s].wired = a.core[s].wired
  BY <1>5, <1>7 DEF SameStore
\* No restart is under way while a stream connects.
<1>10. \A u \in Tasks : task[u].kind = "restart" => ~Awaits(u)
  BY <1>3 DEF AdapterInv, Alone, UnderWay
<1>11. ASSUME NEW u \in Tasks PROVE Holding(u)'
  <2>1. /\ task[u] \in Request /\ Holding(u)
    BY DEF AdapterInv, AdapterTypes
  <2>2. CASE u = t
    BY <1>2, <1>3, <1>4, <1>8, <1>9, <2>2, SessionOrNone DEF Holding, IsA, Awaits
  <2>3. CASE u # t
    <3>1. task'[u] = task[u]
      BY <1>4, <2>3 DEF OnlyTask
    <3>2. task[u].on # None => task[u].on \in Sessions
      BY <2>1 DEF Request, Maybe
    <3>3. ~IsA(u, "restart", "retiring") /\ u # None
      BY <1>10, NothingIsNoSession DEF IsA, Awaits
    <3> QED
      BY <1>3, <1>8, <1>9, <1>10, <2>1, <3>1, <3>2, <3>3 DEF Holding, IsA, Awaits
  <2> QED
    BY <2>2, <2>3
<1>12. Untouched'
  BY <1>3, <1>8, SessionOrNone DEF Untouched
<1>13. Held'
  <2> SUFFICES ASSUME NEW s \in Sessions
               PROVE  /\ Alive(a, s)' =>
                           \/ s = a'.session
                           \/ \E u \in Tasks : \/ IsA(u, "restart", "retiring")' /\ task'[u].next = s
                                               \/ IsA(u, "terminate", "retiring")' /\ task'[u].on = s
                      /\ a'.core[s].wired => s = a'.session /\ s = a'.unwire
                      /\ a'.core[s].audio => s = a'.session /\ a'.audioOff = s
    BY DEF Held
  <2>1. Alive(a, s)' => Alive(a, s)
    BY <1>9 DEF Alive
  <2>2. Alive(a, s) => s = a.session
    <3>1. \A u \in Tasks : ~IsA(u, "restart", "retiring") /\ ~IsA(u, "terminate", "retiring")
      BY <1>3, <1>10 DEF IsA, Awaits, AdapterInv, Holding
    <3> QED
      BY <3>1 DEF AdapterInv, Held
  <2>3. a'.core[s].wired => s = a'.session /\ s = a'.unwire
    BY <1>8, <1>9 DEF AdapterInv, Held
  <2>4. a'.core[s].audio => s = a'.session /\ a'.audioOff = s
    BY <1>3, <1>7, <1>8, NothingIsNoSession
  <2> QED
    BY <1>8, <2>1, <2>2, <2>3, <2>4
<1>14. InUse'
  <2>1. ~Replacing
    BY <1>10 DEF Replacing, IsA, Awaits
  <2>2. Configuring <=> Configuring'
    BY <1>1, <1>4 DEF Configuring, OnlyTask
  <2>3. a'.audioWanted => a'.audioOff = a'.session
    BY <1>3, <1>7, <1>8
  <2>4. InUse
    BY DEF AdapterInv
  <2> QED
    BY <1>3, <1>8, <1>9, <2>1, <2>2, <2>3, <2>4 DEF InUse, Alive
<1>15. EpochKept
  BY <1>2, <1>8 DEF EpochKept, NoSmallerEpoch, Adapters, Told
<1>16. AdapterTypes'
  BY <1>1, <1>4, <1>7 DEF AdapterInv, AdapterTypes
<1> QED
  BY <1>4, <1>8, <1>11, <1>12, <1>13, <1>14, <1>15, <1>16 DEF AdapterInv
LEMMA LaunchCreatedKeeps ==
  ASSUME AdapterInv, NEW t \in Tasks, LaunchCreated(t)
  PROVE  AdapterInv' /\ EpochKept
<1> PICK s \in Sessions :
           /\ IsNext(s)
           /\ a' = [Adopt(Created(a, s), s, task[t].wish) EXCEPT !.configurationDone = t]
           /\ Advance(t, "configuring", s, 0)
           /\ UNCHANGED <<disk, moves>>
  BY DEF LaunchCreated
<1> DEFINE b == Created(a, s)
           c == Adopt(b, s, task[t].wish)
<1>1. /\ task[t].kind = "launch" /\ task[t].stage = "creating"
      /\ a' = [c EXCEPT !.configurationDone = t]
  BY DEF LaunchCreated
<1>2. /\ a \in Adapters /\ task[t] \in Request /\ Holding(t) /\ disk \subseteq Tasks
      /\ a.core \in [Sessions -> Core] /\ task[t].wish \in BOOLEAN /\ s \in Maybe(Sessions)
  BY DEF AdapterInv, AdapterTypes, Adapters, Request, Maybe
<1>3. /\ ~a.launched /\ a.session = None /\ a.told.thread = "none" /\ a.told.epoch = 0
      /\ a.breakpoints = 0 /\ a.handles = <<>> /\ a.stream = "closed"
      /\ \A r \in Sessions : a.core[r].state = "unborn"
      /\ \A r \in Sessions : ~a.core[r].wired /\ ~a.core[r].audio
  <2>1. ~a.launched /\ Untouched /\ Held
    BY <1>1, <1>2 DEF Holding, IsA, AdapterInv
  <2>2. a.session = None
    BY <2>1 DEF Untouched
  <2> QED
    BY <2>1, <2>2, NothingIsNoSession DEF Untouched, Held
<1>4. /\ task' \in [Tasks -> Request] /\ OnlyTask(t) /\ Alone' /\ \A u \in Tasks : Shaped(u)'
      /\ task'[t].kind = "launch" /\ task'[t].stage = "configuring"
      /\ task'[t].on = task[t].on /\ task'[t].next = s
  BY <1>1, <1>2, TaskAdvanced DEF Stages, StagesOf, Awaits
<1>5. CoreSet(a, b, s, Born(disk))
  BY <1>2, CoreUpdates
<1> HIDE DEF b
<1>6. Adopted(b, c, s, task[t].wish)
  BY <1>2, <1>5, AdoptAdopts DEF CoreSet
<1> HIDE DEF c
<1>7. a' \in Adapters /\ a'.core = c.core /\ a'.told = c.told /\ a'.handles = c.handles
      /\ a'.session = c.session /\ a'.launched = c.launched /\ a'.unwire = c.unwire
      /\ a'.epochBase = c.epochBase /\ a'.breakpoints = c.breakpoints /\ a'.stream = c.stream
      /\ a'.pending = c.pending /\ a'.fresh = c.fresh
  BY <1>1, <1>6 DEF Adopted, Adapters, Maybe
<1>8. /\ a'.session = s /\ a'.launched = TRUE /\ a'.unwire = s /\ a'.epochBase = a.epochBase
      /\ a'.breakpoints = a.breakpoints /\ a'.stream = a.stream /\ a'.pending = a.pending
      /\ a'.fresh = a.fresh /\ a'.handles = a.handles /\ a'.told = a.told
  BY <1>5, <1>6, <1>7 DEF Adopted, CoreSet, SameRest
<1>9. /\ a'.core[s] = [Born(disk) EXCEPT !.wired = TRUE]
      /\ \A r \in Sessions \ {s} : a'.core[r] = a.core[r]
  <2>1. b.core = [a.core EXCEPT ![s] = Born(disk)]
    BY <1>5 DEF CoreSet
  <2>2. a'.core = [b.core EXCEPT ![s] = [b.core[s] EXCEPT !.wired = TRUE]]
    BY <1>6, <1>7 DEF Adopted
  <2> QED
    BY <1>2, <2>1, <2>2
<1>10. /\ a'.core[s].state = "stopped" /\ a'.core[s].wired /\ ~a'.core[s].audio
       /\ a'.core[s].breakpoints = 0 /\ a'.core[s].epoch = 0
  BY <1>2, <1>9, BornIsCore
\* Nobody else held a session: there was none.
<1>11. \A u \in Tasks \ {t} :
         /\ ~IsA(u, "launch", "creating") /\ task[u].stage # "configuring"
         /\ ~(task[u].kind = "restart" /\ Awaits(u)) /\ ~IsA(u, "terminate", "retiring")
         /\ ~(task[u].stage = "connecting" /\ a.pending = u) /\ task[u].stage # "writing"
         /\ task[u].on = None
  <2> SUFFICES ASSUME NEW u \in Tasks \ {t}
               PROVE  /\ ~IsA(u, "launch", "creating") /\ task[u].stage # "configuring"
                      /\ ~(task[u].kind = "restart" /\ Awaits(u))
                      /\ ~IsA(u, "terminate", "retiring")
                      /\ ~(task[u].stage = "connecting" /\ a.pending = u)
                      /\ task[u].stage # "writing" /\ task[u].on = None
    OBVIOUS
  <2>1. Holding(u) /\ task[u] \in Request
    BY DEF AdapterInv, AdapterTypes
  <2>2. task[u].on = None
    <3>1. task[u].on \in Sessions \/ task[u].on = None
      BY <2>1 DEF Request, Maybe
    <3> QED
      BY <1>3, <2>1, <3>1 DEF Holding
  <2>3. ~IsA(u, "launch", "creating")
    BY <1>1 DEF AdapterInv, Alone, IsA, Awaits, UnderWay
  <2> QED
    BY <1>3, <2>1, <2>2, <2>3 DEF Holding
<1>12. task[t].on = None
  <2>1. task[t].on \in Sessions \/ task[t].on = None
    BY <1>2 DEF Request, Maybe
  <2> QED
    BY <1>2, <1>3, <2>1 DEF Holding
<1>13. ASSUME NEW u \in Tasks PROVE Holding(u)'
  <2>1. CASE u = t
    BY <1>3, <1>4, <1>8, <1>10, <1>12, <2>1, NothingIsNoSession DEF Holding, IsA, Awaits
  <2>2. CASE u # t
    <3>1. task'[u] = task[u] /\ a'.pending = a.pending
      BY <1>4, <1>8, <2>2 DEF OnlyTask
    <3>2. ~IsA(u, "restart", "retiring")
      BY <1>11, <2>2 DEF IsA, Awaits
    <3> QED
      BY <1>11, <2>2, <3>1, <3>2 DEF Holding, IsA, Awaits
  <2> QED
    BY <2>1, <2>2
<1>14. Untouched'
  BY <1>8 DEF Untouched
<1>15. Held'
  BY <1>3, <1>8, <1>9, <1>10 DEF Held, Alive
<1>16. InUse'
  <2>1. Configuring'
    BY <1>4 DEF Configuring
  <2>2. \A n \in DOMAIN a'.handles : FALSE
    BY <1>3, <1>8
  <2>3. a'.told.epoch <= a'.core[s].epoch + a'.epochBase
    BY <1>2, <1>3, <1>8, <1>10 DEF Adapters
  <2> QED
    BY <1>3, <1>8, <1>10, <2>1, <2>2, <2>3 DEF InUse, Alive
<1>17. EpochKept
  BY <1>2, <1>8 DEF EpochKept, NoSmallerEpoch, Adapters, Told
<1>18. AdapterTypes'
  BY <1>4, <1>7 DEF AdapterInv, AdapterTypes
<1> QED
  BY <1>4, <1>8, <1>13, <1>14, <1>15, <1>16, <1>17, <1>18 DEF AdapterInv

\* The session that was launched begins: who else waits holds nothing of it.
LEMMA LaunchBeginsKeeps ==
  ASSUME AdapterInv, NEW t \in Tasks, task[t].stage = "configuring", LaunchBegins(t)
  PROVE  AdapterInv' /\ EpochKept
<1> DEFINE s == a.session
           b == [a EXCEPT !.configurationDone = None]
<1>1. /\ a \in Adapters /\ task[t] \in Request /\ Holding(t) /\ Shaped(t) /\ disk \subseteq Tasks
      /\ a.core \in [Sessions -> Core] /\ InUse
  BY DEF AdapterInv, AdapterTypes, Adapters
<1>2. /\ Awaits(t) /\ task[t].kind = "launch" /\ s # None /\ s \in Sessions /\ task[t].next = s
      /\ a.core[s].state = "stopped" /\ a.told.thread = "none" /\ a.core[s] \in Core
  BY <1>1 DEF Holding, Shaped, Awaits, Adapters, Maybe
<1>3. \A u \in Tasks \ {t} : Awaits(u) => task[u].kind \notin UnderWay
  BY <1>2 DEF AdapterInv, Alone, UnderWay
<1>4. ~Replacing
  BY <1>2, <1>3 DEF Replacing, IsA, Awaits, UnderWay
<1>6. /\ a.core[s].wired /\ a.launched /\ a.core[s].breakpoints = a.breakpoints
      /\ a.told.epoch <= a.core[s].epoch + a.epochBase
  BY <1>1, <1>2, <1>4 DEF InUse
<1>7. /\ b \in Adapters /\ SameHold(a, b) /\ b.core = a.core /\ b.told = a.told
      /\ b.fresh = a.fresh /\ b.breakpoints = a.breakpoints
  BY <1>1 DEF Adapters, SameHold, Maybe
<1>8. /\ a' = Begin(b, s) /\ UNCHANGED <<disk, moves>>
      /\ Advance(t, "done", s, IF CanBegin(b, s) THEN 1 ELSE 2)
  BY <1>2 DEF LaunchBegins
<1> HIDE DEF b
<1>9. b.session = s /\ b.epochBase = a.epochBase
  BY <1>7 DEF SameHold
<1>10. CanBegin(b, s) /\ Begun(b, a', s)
  BY <1>2, <1>6, <1>7, <1>8, <1>9, BeginBegins
<1>11. /\ task' \in [Tasks -> Request] /\ OnlyTask(t) /\ Alone' /\ \A u \in Tasks : Shaped(u)'
       /\ task'[t].kind = "launch" /\ task'[t].stage = "done"
       /\ task'[t].on = task[t].on
  <2>1. Advance(t, "done", s, 1)
    BY <1>8, <1>10
  <2> QED
    BY <1>2, <2>1, TaskAdvanced DEF Stages, Maybe
<1>12. /\ a' \in Adapters /\ a'.handles = <<>> /\ SameRest(b, a') /\ a'.unwire = b.unwire
       /\ a'.audioOff = b.audioOff /\ a'.core = [a.core EXCEPT ![s] = a'.core[s]]
       /\ SameStore(a.core[s], a'.core[s]) /\ a'.core[s].state \in {"stopped", "running"}
       /\ a'.core[s].wired = a.core[s].wired /\ a'.core[s].audio = a.core[s].audio
       /\ a'.told.thread = a'.core[s].state /\ a'.told.state = a'.core[s].state
       /\ a'.told.epoch = a.core[s].epoch + a.epochBase
  BY <1>7, <1>9, <1>10 DEF Begun
<1>13. /\ a'.session = s /\ a'.launched = a.launched /\ a'.unwire = a.unwire
       /\ a'.epochBase = a.epochBase /\ a'.breakpoints = a.breakpoints /\ a'.stream = a.stream
       /\ a'.pending = a.pending /\ a'.fresh = a.fresh /\ a'.audioWanted = a.audioWanted
       /\ a'.audioOff = a.audioOff
  BY <1>7, <1>12 DEF SameHold, SameRest
<1>14. /\ \A r \in Sessions \ {s} : a'.core[r] = a.core[r]
       /\ a'.core[s].epoch = a.core[s].epoch /\ a'.core[s].labels = a.core[s].labels
       /\ a'.core[s].breakpoints = a.core[s].breakpoints
  BY <1>1, <1>12 DEF SameStore
<1>15. \A r \in Sessions :
         /\ a'.core[r].labels = a.core[r].labels
         /\ a.core[r].state # "unborn" => a'.core[r].state # "unborn"
         /\ a'.core[r].wired = a.core[r].wired /\ a'.core[r].audio = a.core[r].audio
  BY <1>12, <1>14
<1>16. ASSUME NEW u \in Tasks PROVE Holding(u)'
  <2>1. Holding(u) /\ (task[u].on # None => task[u].on \in Sessions)
    BY DEF AdapterInv, AdapterTypes, Request, Maybe
  <2>2. CASE u = t
    BY <1>11, <1>13, <1>15, <2>1, <2>2 DEF Holding, IsA, Awaits
  <2>3. CASE u # t
    <3>1. /\ task'[u] = task[u] /\ (Awaits(u) => task[u].kind \notin UnderWay)
      BY <1>3, <1>11, <2>3 DEF OnlyTask
    <3>2. /\ ~IsA(u, "launch", "creating") /\ ~(task[u].kind = "restart" /\ Awaits(u))
          /\ ~IsA(u, "restart", "retiring") /\ task[u].stage # "configuring"
      <4>1. Shaped(u)
        BY DEF AdapterInv
      <4> QED
        BY <3>1, <4>1 DEF IsA, Awaits, UnderWay, Shaped
    <3> QED
      BY <1>13, <1>15, <2>1, <3>1, <3>2 DEF Holding, IsA, Awaits
  <2> QED
    BY <2>2, <2>3
<1>17. Untouched'
  BY <1>6, <1>13 DEF Untouched
<1>18. \A u \in Tasks \ {t} : task'[u] = task[u]
  BY <1>11 DEF OnlyTask
<1>19. Held'
  <2> SUFFICES ASSUME NEW r \in Sessions
               PROVE  /\ Alive(a, r)' =>
                           \/ r = a'.session
                           \/ \E u \in Tasks : \/ IsA(u, "restart", "retiring")' /\ task'[u].next = r
                                               \/ IsA(u, "terminate", "retiring")' /\ task'[u].on = r
                      /\ a'.core[r].wired => r = a'.session /\ r = a'.unwire
                      /\ a'.core[r].audio => r = a'.session /\ a'.audioOff = r
    BY DEF Held
  <2>1. Alive(a, r)' => r = s \/ Alive(a, r)
    BY <1>14 DEF Alive
  <2>2. \A u \in Tasks : ~IsA(u, "terminate", "retiring") /\ ~IsA(u, "restart", "retiring")
    BY <1>2, <1>4 DEF AdapterInv, Holding, Replacing
  <2>3. Alive(a, r) => r = s
    BY <2>2 DEF AdapterInv, Held
  <2> QED
    BY <1>13, <1>15, <2>1, <2>3 DEF AdapterInv, Held
<1>20. InUse'
  <2>1. \A n \in DOMAIN a'.handles : FALSE
    BY <1>12
  <2>2. a'.told.epoch <= a'.core[s].epoch + a'.epochBase
    BY <1>1, <1>2, <1>12, <1>13, <1>14 DEF Adapters, Core
  <2>3. a'.stream = "connected" /\ a'.audioWanted => a'.audioOff = s
    BY <1>1, <1>2, <1>4, <1>13 DEF InUse
  <2>4. /\ a'.launched /\ Alive(a, a.session)' /\ a'.core[s].breakpoints = a'.breakpoints
        /\ a'.core[s].wired
    BY <1>6, <1>12, <1>13, <1>14 DEF Alive
  <2> QED
    BY <1>12, <1>13, <2>1, <2>2, <2>3, <2>4 DEF InUse
<1>21. EpochKept
  BY <1>1, <1>2, <1>6, <1>12 DEF EpochKept, NoSmallerEpoch, Adapters, Told, Core
<1>22. AdapterTypes'
  BY <1>1, <1>8, <1>11, <1>12 DEF AdapterInv, AdapterTypes
<1>23. a'.fresh
  BY <1>13 DEF AdapterInv
<1> QED
  BY <1>11, <1>16, <1>17, <1>19, <1>20, <1>21, <1>22, <1>23 DEF AdapterInv
\* A restart ends: its new session is in place of the one it was asked of.
LEMMA RestartEnds ==
  ASSUME AdapterInv, NEW t \in Tasks, task[t].kind = "restart", Awaits(t),
         Advance(t, "done", task'[t].next, 1), task'[t].next \in Maybe(Sessions),
         disk' \subseteq Tasks, moves' = moves,
         NEW b \in Adapters, NEW new \in Sessions, new # a.session,
         TakenOver(b, a', a.session, new),
         task[t].stage = "retiring" => task[t].next = new,
         b.breakpoints = a.breakpoints, b.audioWanted = a.audioWanted, b.stream = a.stream,
         b.pending = a.pending, b.fresh = a.fresh, b.epochBase \in Nat,
         \A r \in Sessions \ {new} :
           /\ b.core[r].state = a.core[r].state /\ b.core[r].labels = a.core[r].labels
           /\ r # a.session => ~b.core[r].wired /\ ~b.core[r].audio,
         a.core[new].state # "unborn" => b.core[new].labels = a.core[new].labels
  PROVE  AdapterInv'
<1> DEFINE old == a.session
<1>1. /\ a \in Adapters /\ Holding(t) /\ old # None /\ old \in Sessions
      /\ task \in [Tasks -> Request] /\ a.fresh
      /\ \A u \in Tasks : Holding(u) /\ Shaped(u) /\ (task[u].on # None => task[u].on \in Sessions)
  BY DEF AdapterInv, AdapterTypes, Holding, Adapters, Request, Maybe
<1>2. /\ task' \in [Tasks -> Request] /\ OnlyTask(t) /\ Alone' /\ \A u \in Tasks : Shaped(u)'
      /\ task'[t].kind = "restart" /\ task'[t].stage = "done" /\ task'[t].on = task[t].on
  BY TaskAdvanced DEF Stages
<1>3. \A u \in Tasks \ {t} :
        task'[u] = task[u] /\ (Awaits(u) => task[u].kind \notin UnderWay /\ task[u].kind # "stream")
  BY <1>2 DEF OnlyTask, AdapterInv, Alone, UnderWay
<1>4. /\ a' \in Adapters /\ a'.session = new /\ a'.launched = TRUE /\ a'.unwire = new
      /\ a'.epochBase = b.epochBase /\ a'.breakpoints = a.breakpoints
      /\ a'.audioWanted = a.audioWanted /\ a'.stream = a.stream /\ a'.pending = a.pending
      /\ a'.fresh /\ a'.handles = <<>>
      /\ a'.audioOff = IF a.stream = "connected" /\ a.audioWanted THEN new ELSE None
  BY <1>1 DEF TakenOver
<1>5. /\ a'.core[old].state = "disposed" /\ ~a'.core[old].wired /\ ~a'.core[old].audio
      /\ a'.core[old].labels = b.core[old].labels
      /\ a'.core[new].state \in {"stopped", "running"} /\ a'.core[new].wired
      /\ a'.core[new].breakpoints = a.breakpoints /\ a'.core[new].epoch = b.core[new].epoch
      /\ a'.core[new].labels = b.core[new].labels
      /\ \A s \in Sessions \ {old, new} : a'.core[s] = b.core[s]
      /\ a'.told.thread = a'.core[new].state /\ a'.told.state = a'.core[new].state
      /\ a'.told.epoch = b.core[new].epoch + b.epochBase
  BY DEF TakenOver
<1>6. a'.core[new].audio => a'.audioOff = new
  BY DEF TakenOver
<1>7. \A r \in Sessions : a.core[r].state # "unborn" =>
        a'.core[r].state # "unborn" /\ a'.core[r].labels = a.core[r].labels
  <2> SUFFICES ASSUME NEW r \in Sessions, a.core[r].state # "unborn"
               PROVE  a'.core[r].state # "unborn" /\ a'.core[r].labels = a.core[r].labels
    OBVIOUS
  <2>1. CASE r = old
    BY <1>1, <1>5, <2>1
  <2>2. CASE r = new
    BY <1>5, <2>2
  <2>3. CASE r \notin {old, new}
    BY <1>5, <2>3
  <2> QED
    BY <2>1, <2>2, <2>3
<1>8. ASSUME NEW u \in Tasks PROVE Holding(u)'
  <2>1. Holding(u) /\ (task[u].on # None => task[u].on \in Sessions)
    BY <1>1
  <2>2. CASE u = t
    BY <1>2, <1>7, <2>1, <2>2 DEF Holding, IsA, Awaits
  <2>3. CASE u # t
    <3>1. /\ task'[u] = task[u]
          /\ ~IsA(u, "launch", "creating") /\ ~(task[u].kind = "restart" /\ Awaits(u))
          /\ ~IsA(u, "restart", "retiring") /\ task[u].stage # "configuring"
          /\ task[u].stage # "connecting"
      <4>1. Shaped(u)
        BY <1>1
      <4> QED
        BY <1>3, <2>3, <4>1 DEF IsA, Awaits, UnderWay, Shaped
    <3>2. ~IsA(u, "terminate", "retiring")
      BY <1>1, <2>1 DEF Holding
    <3> QED
      BY <1>7, <2>1, <3>1, <3>2 DEF Holding, IsA, Awaits
  <2> QED
    BY <2>2, <2>3
<1>9. Untouched'
  BY <1>4 DEF Untouched
<1>10. Held'
  <2> SUFFICES ASSUME NEW s \in Sessions
               PROVE  /\ Alive(a, s)' =>
                           \/ s = a'.session
                           \/ \E u \in Tasks : \/ IsA(u, "restart", "retiring")' /\ task'[u].next = s
                                               \/ IsA(u, "terminate", "retiring")' /\ task'[u].on = s
                      /\ a'.core[s].wired => s = a'.session /\ s = a'.unwire
                      /\ a'.core[s].audio => s = a'.session /\ a'.audioOff = s
    BY DEF Held
  <2>1. CASE s = old
    BY <1>5, <2>1 DEF Alive
  <2>2. CASE s = new
    BY <1>4, <1>6, <2>2
  <2>3. CASE s \notin {old, new}
    <3>1. a'.core[s] = b.core[s] /\ ~b.core[s].wired /\ ~b.core[s].audio
          /\ b.core[s].state = a.core[s].state
      BY <1>5, <2>3
    <3>2. ASSUME NEW u \in Tasks PROVE ~IsA(u, "terminate", "retiring")
      BY <1>1 DEF Holding
    <3>3. ASSUME NEW u \in Tasks, IsA(u, "restart", "retiring"), task[u].next = s PROVE FALSE
      <4>1. u = t
        BY <1>3, <3>3 DEF IsA, Awaits, UnderWay
      <4> QED
        BY <2>3, <3>3, <4>1 DEF IsA
    <3>4. ~Alive(a, s)
      BY <2>3, <3>2, <3>3 DEF AdapterInv, Held
    <3> QED
      BY <3>1, <3>4 DEF Alive
  <2> QED
    BY <2>1, <2>2, <2>3
<1>11. InUse'
  <2>1. \A n \in DOMAIN a'.handles : FALSE
    BY <1>4
  <2>2. a'.told.epoch <= a'.core[new].epoch + a'.epochBase
    <3>1. a'.core[new].epoch \in Nat
      BY <1>4 DEF Adapters, Core
    <3> QED
      BY <1>4, <1>5, <3>1
  <2>3. a'.stream = "connected" /\ a'.audioWanted => a'.audioOff = new
    BY <1>4
  <2> QED
    BY <1>4, <1>5, <2>1, <2>2, <2>3 DEF InUse, Alive
<1>12. AdapterTypes'
  BY <1>2, <1>4 DEF AdapterInv, AdapterTypes
<1> QED
  BY <1>2, <1>4, <1>8, <1>9, <1>10, <1>11, <1>12 DEF AdapterInv

LEMMA RestartRetiredKeeps ==
  ASSUME AdapterInv, NEW t \in Tasks, RestartRetired(t)
  PROVE  AdapterInv' /\ EpochKept
<1> DEFINE old == a.session
           new == task[t].next
<1>1. /\ task[t].kind = "restart" /\ task[t].stage = "retiring" /\ moves' = moves
      /\ Advance(t, "done", new, 1)
  BY DEF RestartRetired, Finish
<1> PICK written \in BOOLEAN :
           /\ Saves(t, written)
           /\ a' = TakeOver(Saved(a, task[t].on, written), task[t].on, new, task[t].wish)
  BY DEF RestartRetired
<1> DEFINE b == Saved(a, old, written)
<1>2. /\ a \in Adapters /\ task \in [Tasks -> Request] /\ Holding(t) /\ Held /\ disk \subseteq Tasks
      /\ a.core \in [Sessions -> Core] /\ task[t] \in Request /\ InUse
  BY DEF AdapterInv, AdapterTypes, Adapters
<1>3. /\ Awaits(t) /\ old # None /\ task[t].on = old /\ old \in Sessions
      /\ new \in Sessions \ {old} /\ a.core[new].state = "stopped" /\ a.audioOff = None
      /\ task[t].wish \in BOOLEAN /\ a.core[old] \in Core
  <2>1. Awaits(t) /\ IsA(t, "restart", "retiring")
    BY <1>1 DEF Awaits, IsA
  <2> QED
    BY <1>1, <1>2, <2>1 DEF Holding, Adapters, Maybe, Request
<1>4. OnlySaved(a, b)
  BY <1>2, <1>3, SavedSaves
<1>5. a' = TakeOver(b, old, new, task[t].wish)
  BY <1>3
<1>6. disk' \subseteq Tasks
  BY <1>2 DEF Saves, Request
<1> HIDE DEF b
<1>7. /\ b \in Adapters /\ b.audioOff = None /\ b.epochBase = a.epochBase
      /\ b.breakpoints = a.breakpoints /\ b.audioWanted = a.audioWanted /\ b.stream = a.stream
      /\ b.pending = a.pending /\ b.fresh = a.fresh /\ b.epochBase \in Nat
  BY <1>3, <1>4 DEF OnlySaved, SameRest, Adapters
<1>8. \A r \in Sessions \ {old} : ~a.core[r].wired /\ ~a.core[r].audio
  BY <1>2 DEF Held
<1>9. /\ \A r \in Sessions \ {new} :
           /\ b.core[r].state = a.core[r].state /\ b.core[r].labels = a.core[r].labels
           /\ r # old => ~b.core[r].wired /\ ~b.core[r].audio
      /\ b.core[new].state = "stopped" /\ b.core[new].labels = a.core[new].labels
      /\ ~b.core[new].audio
  BY <1>3, <1>4, <1>8 DEF OnlySaved
<1>10. b.core[old].state # "disposed"
  BY <1>2, <1>3, <1>9 DEF InUse, Alive
<1>11. TakenOver(b, a', old, new)
  BY <1>2, <1>3, <1>5, <1>7, <1>9, <1>10, TakeOverTakes
<1>12. task'[t].next = new /\ task'[t].stage = "done"
  BY <1>1, <1>2, <1>3 DEF Advance
<1>13. AdapterInv'
  BY <1>1, <1>3, <1>6, <1>7, <1>9, <1>11, <1>12, RestartEnds DEF Maybe
<1>14. EpochKept
  <2>1. a'.told.epoch = b.core[new].epoch + a.epochBase
    BY <1>7, <1>11 DEF TakenOver
  <2>2. /\ a.told.epoch <= a.core[old].epoch + a.epochBase
        /\ a.told.epoch \in Nat /\ a.epochBase \in Nat /\ a.core[old].epoch \in Nat
        /\ b.core[new].epoch \in Nat
    BY <1>2, <1>3, <1>7 DEF InUse, Adapters, Told, Core
  <2>3. a'.told.epoch + a.core[task[t].on].epoch >= a.told.epoch
    BY <1>3, <2>1, <2>2
  <2> QED
    BY <1>1, <1>12, <2>3 DEF EpochKept, CountedTwice
<1> QED
  BY <1>13, <1>14
\* The new session is there, and the one it replaces is let go of.
LEMMA RestartCreatedKeeps ==
  ASSUME AdapterInv, NEW t \in Tasks, RestartCreated(t)
  PROVE  AdapterInv' /\ EpochKept
<1> DEFINE old == a.session
<1>1. /\ task[t].kind = "restart" /\ task[t].stage = "creating" /\ UNCHANGED <<disk, moves>>
  BY DEF RestartCreated
<1>2. /\ a \in Adapters /\ task \in [Tasks -> Request] /\ Holding(t) /\ Held /\ disk \subseteq Tasks
      /\ a.core \in [Sessions -> Core] /\ task[t] \in Request /\ InUse /\ a.fresh
  BY DEF AdapterInv, AdapterTypes, Adapters
<1>3. /\ Awaits(t) /\ old # None /\ task[t].on = old /\ old \in Sessions
      /\ task[t].wish \in BOOLEAN /\ a.core[old] \in Core
      /\ a.core[old].epoch \in Nat /\ a.epochBase \in Nat /\ a.told.epoch \in Nat
  <2>1. Awaits(t)
    BY <1>1 DEF Awaits
  <2>2. old # None /\ task[t].on = old /\ old \in Sessions /\ task[t].wish \in BOOLEAN
    BY <1>1, <1>2, <2>1 DEF Holding, Adapters, Maybe, Request
  <2> QED
    BY <1>2, <2>1, <2>2 DEF Adapters, Core, Told
<1> PICK s \in Sessions :
           LET b == Retire([Created(a, s) EXCEPT !.epochBase = @ + a.core[old].epoch + 1])
           IN  /\ IsNext(s)
               /\ IF a.core[old].dirty
                    THEN a' = b /\ Advance(t, "retiring", s, 0)
                    ELSE a' = TakeOver(b, old, s, task[t].wish) /\ Advance(t, "done", s, 1)
  BY <1>3, Zenon DEF RestartCreated
<1> DEFINE base == a.epochBase + a.core[old].epoch + 1
           d == Created(a, s)
           e == [d EXCEPT !.epochBase = base]
           b == Retire(e)
<1>4. /\ IsNext(s)
      /\ IF a.core[old].dirty
           THEN a' = Retire([d EXCEPT !.epochBase = @ + a.core[old].epoch + 1])
                /\ Advance(t, "retiring", s, 0)
           ELSE a' = TakeOver(Retire([d EXCEPT !.epochBase = @ + a.core[old].epoch + 1]),
                              old, s, task[t].wish)
                /\ Advance(t, "done", s, 1)
  BY Zenon
<1>5. a.core[s].state = "unborn" /\ s # old /\ base \in Nat
  BY <1>2, <1>3, <1>4, SessionOrNone DEF IsNext, NextUnborn
<1>6. CoreSet(a, d, s, Born(disk))
  BY <1>2, CoreUpdates
<1>7. [d EXCEPT !.epochBase = @ + a.core[old].epoch + 1] = e
  <2> HIDE DEF d
  <2>1. d \in Adapters /\ d.epochBase = a.epochBase
    BY <1>6 DEF CoreSet, SameRest
  <2> QED
    BY <2>1 DEF Adapters
<1> HIDE DEF d, base
<1>8. /\ e \in Adapters /\ e.core = [a.core EXCEPT ![s] = Born(disk)] /\ e.session = old
      /\ e.unwire = a.unwire /\ e.audioOff = a.audioOff /\ e.handles = a.handles
      /\ e.told = a.told /\ e.launched = a.launched /\ e.epochBase = base
      /\ e.breakpoints = a.breakpoints /\ e.audioWanted = a.audioWanted /\ e.stream = a.stream
      /\ e.pending = a.pending /\ e.fresh = a.fresh
  <2>1. /\ d \in Adapters /\ d.core = [a.core EXCEPT ![s] = Born(disk)] /\ SameRest(a, d)
        /\ d.unwire = a.unwire /\ d.audioOff = a.audioOff /\ d.handles = a.handles
        /\ d.told = a.told
    BY <1>6 DEF CoreSet
  <2>2. /\ e \in Adapters /\ e.core = d.core /\ e.session = d.session
        /\ e.unwire = d.unwire /\ e.audioOff = d.audioOff /\ e.handles = d.handles
        /\ e.told = d.told /\ e.launched = d.launched /\ e.epochBase = base
        /\ e.breakpoints = d.breakpoints /\ e.audioWanted = d.audioWanted
        /\ e.stream = d.stream /\ e.pending = d.pending /\ e.fresh = d.fresh
    BY <1>5, <2>1 DEF Adapters
  <2> QED
    BY <2>1, <2>2 DEF SameRest
<1> HIDE DEF e
<1>9. Retired(e, b)
  BY <1>8, RetireRetires
<1> HIDE DEF b
<1>10. /\ b \in Adapters /\ b.session = old /\ b.handles = a.handles /\ b.told = a.told
       /\ b.launched = a.launched /\ b.epochBase = base /\ b.unwire = None /\ b.audioOff = None
       /\ b.breakpoints = a.breakpoints /\ b.audioWanted = a.audioWanted /\ b.stream = a.stream
       /\ b.pending = a.pending /\ b.fresh = a.fresh
  BY <1>8, <1>9 DEF Retired, SameRest
<1>11. /\ Born(disk) \in Core /\ Born(disk).state = "stopped" /\ ~Born(disk).wired
       /\ ~Born(disk).audio
  BY <1>2, BornIsCore
<1>12. \A r \in Sessions : ~b.core[r].wired /\ ~b.core[r].audio
  <2> SUFFICES ASSUME NEW r \in Sessions PROVE ~b.core[r].wired /\ ~b.core[r].audio
    OBVIOUS
  <2>1. /\ b.core[r].wired <=> e.core[r].wired /\ r # e.unwire
        /\ b.core[r].audio <=> e.core[r].audio /\ r # e.audioOff
    BY <1>9 DEF Retired
  <2>2. e.core[r] = IF r = s THEN Born(disk) ELSE a.core[r]
    BY <1>2, <1>8
  <2>3. /\ a.core[r].wired => r = a.unwire
        /\ a.core[r].audio => r = a.audioOff
    BY <1>2 DEF Held
  <2> QED
    BY <1>8, <1>11, <2>1, <2>2, <2>3
<1>13. /\ \A r \in Sessions \ {s} :
            b.core[r].state = a.core[r].state /\ SameStore(a.core[r], b.core[r])
       /\ b.core[s].state = "stopped"
  <2>1. \A r \in Sessions : e.core[r] = IF r = s THEN Born(disk) ELSE a.core[r]
    BY <1>2, <1>8
  <2> QED
    BY <1>9, <1>11, <2>1 DEF Retired
<1>14. CASE ~a.core[old].dirty
  <2>1. a' = TakeOver(b, old, s, task[t].wish) /\ Advance(t, "done", s, 1)
    BY <1>4, <1>7, <1>14 DEF b
  <2>2. TakenOver(b, a', old, s)
    BY <1>2, <1>3, <1>5, <1>10, <1>12, <1>13, <2>1, TakeOverTakes
  <2>3. task'[t].next = s /\ s \in Maybe(Sessions)
    BY <1>2, <2>1 DEF Advance, Maybe
  <2>4. \A r \in Sessions \ {s} :
          /\ b.core[r].state = a.core[r].state /\ b.core[r].labels = a.core[r].labels
          /\ r # old => ~b.core[r].wired /\ ~b.core[r].audio
    BY <1>12, <1>13 DEF SameStore
  <2>5. AdapterInv'
    BY <1>1, <1>2, <1>3, <1>5, <1>10, <2>1, <2>2, <2>3, <2>4, RestartEnds
  <2>6. EpochKept
    <3>1. a'.told.epoch = b.core[s].epoch + b.epochBase /\ b.core[s].epoch \in Nat
      BY <1>10, <2>2 DEF TakenOver, Adapters, Core
    <3>2. a.told.epoch <= a.core[old].epoch + a.epochBase
      BY <1>2, <1>3 DEF InUse
    <3> QED
      BY <1>3, <1>10, <3>1, <3>2 DEF EpochKept, NoSmallerEpoch, base
  <2> QED
    BY <2>5, <2>6
<1>15. CASE a.core[old].dirty
  <2>1. a' = b /\ Advance(t, "retiring", s, 0)
    BY <1>4, <1>7, <1>15 DEF b
  <2>2. /\ task' \in [Tasks -> Request] /\ OnlyTask(t) /\ Alone' /\ \A u \in Tasks : Shaped(u)'
        /\ task'[t].kind = "restart" /\ task'[t].stage = "retiring"
        /\ task'[t].on = task[t].on /\ task'[t].next = s
    BY <1>1, <1>3, <2>1, TaskAdvanced DEF Stages, StagesOf, Maybe
  <2>3. \A u \in Tasks \ {t} :
          task'[u] = task[u] /\ (Awaits(u) => task[u].kind \notin UnderWay /\ task[u].kind # "stream")
    BY <1>1, <1>3, <2>2 DEF OnlyTask, AdapterInv, Alone, UnderWay
  <2>4. \A r \in Sessions : a.core[r].state # "unborn" =>
          b.core[r].state # "unborn" /\ b.core[r].labels = a.core[r].labels
    BY <1>5, <1>13 DEF SameStore
  <2>5. ASSUME NEW u \in Tasks PROVE Holding(u)'
    <3>1. Holding(u) /\ Shaped(u) /\ (task[u].on # None => task[u].on \in Sessions)
      BY DEF AdapterInv, AdapterTypes, Request, Maybe
    <3>2. CASE u = t
      BY <1>3, <1>5, <1>10, <1>13, <2>1, <2>2, <2>4, <3>1, <3>2 DEF Holding, IsA, Awaits
    <3>3. CASE u # t
      <4>1. /\ task'[u] = task[u]
            /\ ~IsA(u, "launch", "creating") /\ ~(task[u].kind = "restart" /\ Awaits(u))
            /\ ~IsA(u, "restart", "retiring") /\ task[u].stage # "configuring"
            /\ task[u].stage # "connecting"
        BY <2>3, <3>1, <3>3 DEF IsA, Awaits, UnderWay, Shaped
      <4>2. ~IsA(u, "terminate", "retiring")
        BY <1>3, <3>1 DEF Holding
      <4> QED
        BY <2>1, <2>4, <3>1, <4>1, <4>2 DEF Holding, IsA, Awaits
    <3> QED
      BY <3>2, <3>3
  <2>6. Untouched'
    BY <1>2, <1>3, <1>10, <2>1 DEF Untouched, InUse
  <2>7. Held'
    <3> SUFFICES ASSUME NEW r \in Sessions, Alive(a, r)'
                 PROVE  \/ r = a'.session
                        \/ \E u \in Tasks : \/ IsA(u, "restart", "retiring")' /\ task'[u].next = r
                                            \/ IsA(u, "terminate", "retiring")' /\ task'[u].on = r
      BY <1>12, <2>1 DEF Held
    <3>1. CASE r = s
      BY <2>2, <3>1 DEF IsA
    <3>2. CASE r # s
      <4>1. Alive(a, r)
        BY <1>13, <2>1, <3>2 DEF Alive
      <4>2. \A u \in Tasks : ~IsA(u, "terminate", "retiring") /\ ~IsA(u, "restart", "retiring")
        <5> SUFFICES ASSUME NEW u \in Tasks
                     PROVE  ~IsA(u, "terminate", "retiring") /\ ~IsA(u, "restart", "retiring")
          OBVIOUS
        <5>1. Holding(u)
          BY DEF AdapterInv
        <5> QED
          BY <1>1, <1>3, <2>3, <5>1 DEF Holding, IsA, Awaits, UnderWay
      <4> QED
        BY <1>2, <1>10, <2>1, <4>1, <4>2 DEF Held
    <3> QED
      BY <3>1, <3>2
  <2>8. InUse'
    <3>1. Replacing'
      BY <2>2 DEF Replacing, IsA
    <3>2. /\ a.launched /\ Alive(a, old) /\ a.core[old].breakpoints = a.breakpoints
          /\ a.told.epoch <= a.core[old].epoch + a.epochBase
          /\ \A n \in DOMAIN a.handles :
               /\ a.handles[n].on = old
               /\ a.handles[n].read => a.handles[n].readAt = a.handles[n].revision
      BY <1>2, <1>3 DEF InUse
    <3>3. SameStore(a.core[old], b.core[old]) /\ b.core[old].state = a.core[old].state
      BY <1>3, <1>5, <1>13
    <3>4. /\ a'.session = old /\ a'.launched /\ Alive(a, old)'
          /\ a'.core[old].breakpoints = a'.breakpoints
          /\ a'.handles = a.handles /\ a'.told = a.told
      BY <1>10, <2>1, <3>2, <3>3 DEF SameStore, Alive
    <3>5. a'.told.epoch <= a'.core[old].epoch + a'.epochBase
      BY <1>3, <1>10, <2>1, <3>2, <3>3 DEF SameStore, base
    <3>6. Alive(a, a.session)' /\ a'.core[a'.session].breakpoints = a'.breakpoints
      BY <3>4 DEF Alive
    <3> QED
      BY <3>1, <3>2, <3>4, <3>5, <3>6 DEF InUse
  <2>9. EpochKept
    BY <1>3, <1>10, <2>1 DEF EpochKept, NoSmallerEpoch
  <2>10. AdapterTypes'
    BY <1>1, <1>2, <1>10, <2>1, <2>2 DEF AdapterInv, AdapterTypes
  <2> QED
    BY <1>2, <1>10, <2>1, <2>2, <2>5, <2>6, <2>7, <2>8, <2>9, <2>10 DEF AdapterInv
<1> QED
  BY <1>3, <1>14, <1>15
\* No session takes requests any more: the one that did is disposed of, or held by its terminate.
LEMMA TerminateEnds ==
  ASSUME AdapterInv, NEW t \in Tasks, NEW wish \in BOOLEAN,
         NEW stage \in {"done", "retiring"}, Sends(t, "terminate"), ~overlapped',
         NEW text \in SUBSET Tasks, Task(t, "terminate", stage, wish, text), UNCHANGED <<disk, moves>>,
         a' \in Adapters, a'.session = None, a'.launched = a.launched, a'.stream = "closed",
         a'.pending = None, a'.breakpoints = a.breakpoints, a'.handles = a.handles,
         a'.fresh = a.fresh, a'.told.epoch = a.told.epoch,
         a'.told.thread \in {"none", a.told.thread},
         stage = "retiring" => a.session # None,
         \A r \in Sessions :
           /\ ~a'.core[r].wired /\ ~a'.core[r].audio /\ a'.core[r].labels = a.core[r].labels
           /\ \/ a'.core[r].state = a.core[r].state /\ (r = a.session => stage = "retiring")
              \/ r = a.session /\ a'.core[r].state = "disposed"
  PROVE  AdapterInv' /\ EpochKept
<1>1. /\ a \in Adapters /\ disk \subseteq Tasks /\ moves \in Nat /\ a.fresh
      /\ \A u \in Tasks : Holding(u) /\ Shaped(u) /\ (task[u].on # None => task[u].on \in Sessions)
  BY DEF AdapterInv, AdapterTypes, Request, Maybe
<1>2. /\ task' \in [Tasks -> Request] /\ OnlyTask(t) /\ Alone' /\ ~Awaits(t)
      /\ \A u \in Tasks : Shaped(u)'
      /\ task'[t].kind = "terminate" /\ task'[t].stage = stage /\ task'[t].on = a.session
  <2>1. stage \in Stages /\ (stage = "done" \/ stage \in StagesOf("terminate"))
    BY DEF Stages, StagesOf
  <2> QED
    BY <2>1, TaskSent DEF Kinds
\* No launch and no restart is under way, or the two requests overlap.
<1>3. \A u \in Tasks \ {t} : task'[u] = task[u] /\ (Awaits(u) => task[u].kind \notin UnderWay)
  <2>1. <<"launch", "terminate">> \in Crossing /\ <<"restart", "terminate">> \in Crossing
    BY DEF Crossing
  <2> QED
    BY <1>2, <2>1 DEF OnlyTask, Sends, Unserialised, UnderWay
<1>4. \A r \in Sessions : a.core[r].state # "unborn" =>
        a'.core[r].state # "unborn" /\ a'.core[r].labels = a.core[r].labels
  OBVIOUS
<1>5. ASSUME NEW u \in Tasks PROVE Holding(u)'
  <2>1. Holding(u) /\ Shaped(u) /\ (task[u].on # None => task[u].on \in Sessions)
    BY <1>1
  <2>2. u # None
    BY NothingIsNoSession
  <2>3. CASE u = t
    BY <1>2, <1>4, <2>2, <2>3, SessionOrNone DEF Holding, IsA, Awaits
  <2>4. CASE u # t
    <3>1. /\ task'[u] = task[u]
          /\ ~(task[u].kind = "restart" /\ Awaits(u))
          /\ ~IsA(u, "restart", "retiring") /\ task[u].stage # "configuring"
      BY <1>3, <2>1, <2>4 DEF IsA, Awaits, UnderWay, Shaped
    <3> QED
      BY <1>4, <2>1, <2>2, <3>1 DEF Holding, IsA, Awaits
  <2> QED
    BY <2>3, <2>4
<1>6. Untouched'
  <2> SUFFICES ASSUME ~a.launched
               PROVE  /\ a'.told.thread = "none" /\ a'.told.epoch = 0
                      /\ a'.breakpoints = 0 /\ a'.handles = <<>>
                      /\ \A s \in Sessions : a'.core[s].state = "unborn"
    BY DEF Untouched
  <2>1. /\ a.session = None /\ a.told.thread = "none" /\ a.told.epoch = 0
        /\ a.breakpoints = 0 /\ a.handles = <<>>
        /\ \A s \in Sessions : a.core[s].state = "unborn" /\ s # a.session
    BY NothingIsNoSession DEF AdapterInv, Untouched
  <2> QED
    BY <2>1
<1>7. Held'
  <2> SUFFICES ASSUME NEW r \in Sessions, Alive(a, r)'
               PROVE  \E u \in Tasks : \/ IsA(u, "restart", "retiring")' /\ task'[u].next = r
                                       \/ IsA(u, "terminate", "retiring")' /\ task'[u].on = r
    BY DEF Held
  <2>1. a'.core[r].state = a.core[r].state /\ (r = a.session => stage = "retiring")
    BY DEF Alive
  <2>2. Alive(a, r)
    BY <2>1 DEF Alive
  <2>3. CASE r = a.session
    BY <1>2, <2>1, <2>3 DEF IsA
  <2>4. CASE r # a.session
    <3>1. PICK u \in Tasks : \/ IsA(u, "restart", "retiring") /\ task[u].next = r
                             \/ IsA(u, "terminate", "retiring") /\ task[u].on = r
      BY <2>2, <2>4 DEF AdapterInv, Held
    <3>2. u # t
      BY <1>2, <3>1 DEF IsA, Awaits
    <3> QED
      BY <1>3, <3>1, <3>2 DEF IsA
  <2> QED
    BY <2>3, <2>4
<1>8. InUse'
  BY DEF InUse
<1>9. EpochKept
  BY <1>1 DEF EpochKept, NoSmallerEpoch, Adapters, Told
<1>10. AdapterTypes'
  BY <1>1, <1>2 DEF AdapterTypes
<1> QED
  BY <1>1, <1>2, <1>5, <1>6, <1>7, <1>8, <1>9, <1>10 DEF AdapterInv

LEMMA TerminateKeeps ==
  ASSUME AdapterInv, NEW t \in Tasks, Terminate(t), ~overlapped'
  PROVE  AdapterInv' /\ EpochKept
<1> DEFINE s == a.session
           b == CloseStream([a EXCEPT !.session = None])
           c == Retire(b)
           d == Dispose(c, s)
<1>1. /\ Sends(t, "terminate") /\ UNCHANGED <<disk, moves>>
      /\ IF s = None
           THEN a' = Terminated(b) /\ Task(t, "terminate", "done", FALSE, {})
           ELSE IF a.core[s].dirty
             THEN a' = c /\ Task(t, "terminate", "retiring", FALSE, Labels(s))
             ELSE a' = Terminated(d) /\ Task(t, "terminate", "done", FALSE, {})
  BY Zenon DEF Terminate
<1>2. /\ a \in Adapters /\ disk \subseteq Tasks /\ s \in Maybe(Sessions)
      /\ \A r \in Sessions : /\ a.core[r].wired => r = s /\ r = a.unwire
                             /\ a.core[r].audio => r = s /\ a.audioOff = r
  BY DEF AdapterInv, AdapterTypes, Adapters, Held
<1>3. /\ b \in Adapters /\ b.session = None /\ b.launched = a.launched
      /\ b.stream = "closed" /\ b.pending = None /\ b.breakpoints = a.breakpoints
      /\ b.handles = a.handles /\ b.fresh = a.fresh /\ b.told = a.told /\ b.core = a.core
      /\ b.unwire = a.unwire /\ b.audioOff = a.audioOff
  <2>1. b = [a EXCEPT !.session = None, !.stream = "closed", !.pending = None]
    BY <1>2 DEF CloseStream, Adapters
  <2> QED
    BY <1>2, <2>1 DEF Adapters, Maybe
<1> HIDE DEF b
\* The protocol's own `terminated`, after the answer.
<1>4. ASSUME NEW x \in Adapters
      PROVE  /\ Terminated(x) \in Adapters /\ SameRest(x, Terminated(x))
             /\ Terminated(x).core = x.core /\ Terminated(x).handles = x.handles
             /\ Terminated(x).told.thread = "none" /\ Terminated(x).told.epoch = x.told.epoch
  BY <1>4 DEF Terminated, Adapters, Told, SameRest
<1>5. CASE s = None
  <2>1. a' = Terminated(b) /\ Task(t, "terminate", "done", FALSE, {})
    BY <1>1, <1>5
  <2>2. /\ a' \in Adapters /\ SameRest(b, a') /\ a'.core = a.core /\ a'.handles = a.handles
        /\ a'.told.thread = "none" /\ a'.told.epoch = a.told.epoch
    BY <1>3, <1>4, <2>1
  <2>3. /\ a'.session = None /\ a'.launched = a.launched /\ a'.stream = "closed"
        /\ a'.pending = None /\ a'.breakpoints = a.breakpoints /\ a'.fresh = a.fresh
    BY <1>3, <2>2 DEF SameRest
  <2>4. \A r \in Sessions :
          /\ ~a'.core[r].wired /\ ~a'.core[r].audio /\ a'.core[r].labels = a.core[r].labels
          /\ a'.core[r].state = a.core[r].state /\ r # s
    BY <1>2, <1>5, <2>2, NothingIsNoSession
  <2>5. {} \in SUBSET Tasks /\ FALSE \in BOOLEAN /\ "done" \in {"done", "retiring"}
    OBVIOUS
  <2> QED
    BY <1>1, <2>1, <2>2, <2>3, <2>4, <2>5, TerminateEnds
<1>6. CASE s # None
  <2>1. s \in Sessions
    BY <1>2, <1>6 DEF Maybe
  <2>2. Retired(b, c)
    BY <1>3, RetireRetires
  <2> HIDE DEF c
  <2>3. /\ c \in Adapters /\ c.handles = a.handles /\ c.told = a.told /\ c.session = None
        /\ c.launched = a.launched /\ c.stream = "closed" /\ c.pending = None
        /\ c.breakpoints = a.breakpoints /\ c.fresh = a.fresh
    BY <1>3, <2>2 DEF Retired, SameRest
  <2>4. \A r \in Sessions :
          /\ ~c.core[r].wired /\ ~c.core[r].audio /\ c.core[r].labels = a.core[r].labels
          /\ c.core[r].state = a.core[r].state
    BY <1>2, <1>3, <2>2 DEF Retired, SameStore
  <2>5. CASE a.core[s].dirty
    <3>1. a' = c /\ Task(t, "terminate", "retiring", FALSE, Labels(s))
      BY <1>1, <1>6, <2>5, Zenon
    <3>2. Labels(s) \in SUBSET Tasks
      BY <1>2, <2>1 DEF Labels, Adapters, Core
    <3> QED
      BY <1>1, <1>6, <2>3, <2>4, <3>1, <3>2, TerminateEnds
  <2>6. CASE ~a.core[s].dirty
    <3>1. a' = Terminated(d) /\ Task(t, "terminate", "done", FALSE, {})
      BY <1>1, <1>6, <2>6, Zenon
    <3>2. CoreSet(c, d, s, [c.core[s] EXCEPT !.state = "disposed", !.wired = FALSE, !.audio = FALSE])
      BY <1>2, <2>1, <2>3, <2>4, CoreUpdates
    <3> HIDE DEF d
    <3>3. /\ d \in Adapters /\ d.handles = a.handles /\ d.told = a.told /\ d.session = None
          /\ d.launched = a.launched /\ d.stream = "closed" /\ d.pending = None
          /\ d.breakpoints = a.breakpoints /\ d.fresh = a.fresh
      BY <2>3, <3>2 DEF CoreSet, SameRest
    <3>4. /\ \A r \in Sessions \ {s} : d.core[r] = c.core[r]
          /\ d.core[s].state = "disposed" /\ ~d.core[s].wired /\ ~d.core[s].audio
          /\ d.core[s].labels = c.core[s].labels
      <4>1. c.core \in [Sessions -> Core] /\ c.core[s] \in Core
        BY <2>1, <2>3 DEF Adapters
      <4>2. d.core = [c.core EXCEPT ![s] =
                        [c.core[s] EXCEPT !.state = "disposed", !.wired = FALSE, !.audio = FALSE]]
        BY <3>2 DEF CoreSet
      <4>3. ASSUME NEW x \in Core, NEW y,
                   y = [x EXCEPT !.state = "disposed", !.wired = FALSE, !.audio = FALSE]
            PROVE  y.state = "disposed" /\ ~y.wired /\ ~y.audio /\ y.labels = x.labels
        BY <4>3 DEF Core
      <4> QED
        BY <2>1, <4>1, <4>2, <4>3
    <3>5. /\ a' \in Adapters /\ SameRest(d, a') /\ a'.core = d.core /\ a'.handles = a.handles
          /\ a'.told.thread = "none" /\ a'.told.epoch = a.told.epoch
      BY <1>4, <3>1, <3>3
    <3>6. /\ a'.session = None /\ a'.launched = a.launched /\ a'.stream = "closed"
          /\ a'.pending = None /\ a'.breakpoints = a.breakpoints /\ a'.fresh = a.fresh
      BY <3>3, <3>5 DEF SameRest
    <3>7. \A r \in Sessions :
            /\ ~a'.core[r].wired /\ ~a'.core[r].audio /\ a'.core[r].labels = a.core[r].labels
            /\ \/ a'.core[r].state = a.core[r].state /\ r # s
               \/ r = s /\ a'.core[r].state = "disposed"
      BY <2>4, <3>4, <3>5
    <3>8. {} \in SUBSET Tasks /\ FALSE \in BOOLEAN /\ "done" \in {"done", "retiring"}
      OBVIOUS
    <3> QED
      BY <1>1, <3>1, <3>5, <3>6, <3>7, <3>8, TerminateEnds
  <2> QED
    BY <2>5, <2>6
<1> QED
  BY <1>5, <1>6

LEMMA TerminateRetiredKeeps ==
  ASSUME AdapterInv, NEW t \in Tasks, TerminateRetired(t)
  PROVE  AdapterInv' /\ EpochKept
<1> DEFINE s == task[t].on
<1> PICK written \in BOOLEAN :
           Saves(t, written) /\ a' = Terminated(Dispose(Saved(a, s, written), s))
  BY DEF TerminateRetired
<1> DEFINE b == Saved(a, s, written)
           c == Dispose(b, s)
           y == [b.core[s] EXCEPT !.state = "disposed", !.wired = FALSE, !.audio = FALSE]
<1>1. /\ task[t].kind = "terminate" /\ task[t].stage = "retiring" /\ moves' = moves
      /\ Advance(t, "done", task[t].next, 1) /\ a' = Terminated(c)
  BY DEF TerminateRetired, Finish
<1>2. /\ a \in Adapters /\ task[t] \in Request /\ Holding(t) /\ disk \subseteq Tasks
      /\ a.core \in [Sessions -> Core] /\ a.fresh
      /\ \A u \in Tasks : Holding(u) /\ Shaped(u) /\ (task[u].on # None => task[u].on \in Sessions)
      /\ \A r \in Sessions : /\ a.core[r].wired => r = a.session
                             /\ a.core[r].audio => r = a.session
  BY DEF AdapterInv, AdapterTypes, Adapters, Request, Maybe, Held
<1>3. /\ Awaits(t) /\ a.session = None /\ s # None /\ s \in Sessions /\ a.core[s] \in Core
      /\ task[t].next \in Maybe(Sessions) /\ a.core[s].state # "unborn"
  <2>1. Awaits(t) /\ IsA(t, "terminate", "retiring")
    BY <1>1 DEF Awaits, IsA
  <2> QED
    BY <1>2, <2>1 DEF Holding, Request
<1>4. /\ task' \in [Tasks -> Request] /\ OnlyTask(t) /\ Alone' /\ \A u \in Tasks : Shaped(u)'
      /\ task'[t].kind = "terminate" /\ task'[t].stage = "done" /\ task'[t].on = s
  BY <1>1, <1>3, TaskAdvanced DEF Stages
<1>5. OnlySaved(a, b)
  BY <1>2, <1>3, SavedSaves
<1> HIDE DEF b
<1>7. /\ b \in Adapters /\ SameRest(a, b) /\ b.handles = a.handles /\ b.told = a.told
      /\ b.core \in [Sessions -> Core]
  BY <1>5 DEF OnlySaved, Adapters
<1>6. \A r \in Sessions :
        /\ b.core[r].state = a.core[r].state /\ b.core[r].labels = a.core[r].labels
        /\ ~b.core[r].wired /\ ~b.core[r].audio
  BY <1>2, <1>3, <1>5, NothingIsNoSession DEF OnlySaved
<1>8. CoreSet(b, c, s, y)
  BY <1>2, <1>3, <1>6, <1>7, CoreUpdates
<1>9. y.state = "disposed" /\ ~y.wired /\ ~y.audio /\ y.labels = a.core[s].labels
  <2>1. b.core[s] \in Core
    BY <1>3, <1>7
  <2> QED
    BY <1>3, <1>6, <2>1 DEF Core
<1> HIDE DEF c, y
<1>10. /\ c \in Adapters /\ c.core = [b.core EXCEPT ![s] = y] /\ SameRest(b, c)
       /\ c.handles = b.handles /\ c.told = b.told
  BY <1>8 DEF CoreSet
<1>11. /\ a' \in Adapters /\ SameRest(c, a') /\ a'.core = c.core /\ a'.handles = c.handles
       /\ a'.told.thread = "none" /\ a'.told.epoch = c.told.epoch
  BY <1>1, <1>10 DEF Terminated, Adapters, Told, SameRest
<1>12. /\ a'.session = None /\ a'.launched = a.launched /\ a'.stream = a.stream
       /\ a'.pending = a.pending /\ a'.breakpoints = a.breakpoints /\ a'.fresh = a.fresh
       /\ a'.handles = a.handles /\ a'.told.epoch = a.told.epoch
  BY <1>3, <1>7, <1>10, <1>11 DEF SameRest
<1>13. /\ \A r \in Sessions \ {s} : a'.core[r] = b.core[r]
       /\ a'.core[s] = y
  BY <1>3, <1>7, <1>10, <1>11
<1>14. \A r \in Sessions :
         /\ ~a'.core[r].wired /\ ~a'.core[r].audio /\ a'.core[r].labels = a.core[r].labels
         /\ a.core[r].state # "unborn" => a'.core[r].state # "unborn"
  BY <1>6, <1>9, <1>13
<1>15. ASSUME NEW u \in Tasks PROVE Holding(u)'
  <2>1. Holding(u) /\ Shaped(u) /\ (task[u].on # None => task[u].on \in Sessions)
    BY <1>2
  <2>2. CASE u = t
    BY <1>4, <1>14, <2>1, <2>2 DEF Holding, IsA, Awaits
  <2>3. CASE u # t
    <3>1. task'[u] = task[u]
      BY <1>4, <2>3 DEF OnlyTask
    <3>2. /\ ~(task[u].kind = "restart" /\ Awaits(u)) /\ ~IsA(u, "restart", "retiring")
          /\ task[u].stage # "configuring"
      BY <1>3, <2>1 DEF Holding, IsA, Awaits
    <3> QED
      BY <1>3, <1>12, <1>14, <2>1, <3>1, <3>2 DEF Holding, IsA, Awaits
  <2> QED
    BY <2>2, <2>3
<1>16. Untouched'
  <2>1. a.launched
    BY <1>3 DEF AdapterInv, Untouched
  <2> QED
    BY <1>12, <2>1 DEF Untouched
<1>17. Held'
  <2> SUFFICES ASSUME NEW r \in Sessions, Alive(a, r)'
               PROVE  \E u \in Tasks : \/ IsA(u, "restart", "retiring")' /\ task'[u].next = r
                                       \/ IsA(u, "terminate", "retiring")' /\ task'[u].on = r
    BY <1>14 DEF Held
  <2>1. r # s /\ Alive(a, r)
    BY <1>6, <1>9, <1>13 DEF Alive
  <2>2. PICK u \in Tasks : \/ IsA(u, "restart", "retiring") /\ task[u].next = r
                           \/ IsA(u, "terminate", "retiring") /\ task[u].on = r
    BY <1>3, <2>1, NothingIsNoSession DEF AdapterInv, Held
  <2>3. u # t
    BY <1>1, <2>1, <2>2 DEF IsA
  <2> QED
    BY <1>4, <2>2, <2>3 DEF IsA, OnlyTask
<1>18. InUse'
  BY <1>12 DEF InUse
<1>19. EpochKept
  BY <1>2, <1>12 DEF EpochKept, NoSmallerEpoch, Adapters, Told
<1>20. disk' \subseteq Tasks
  BY <1>2 DEF Saves, Request
<1>21. AdapterTypes'
  BY <1>1, <1>4, <1>11, <1>20 DEF AdapterInv, AdapterTypes
<1> QED
  BY <1>2, <1>4, <1>12, <1>15, <1>16, <1>17, <1>18, <1>19, <1>21 DEF AdapterInv
-----------------------------------------------------------------------------
(* The theorems.                                                           *)

LEMMA InitInv == AdapterInit => AdapterInv
<1> SUFFICES ASSUME AdapterInit PROVE AdapterInv
  OBVIOUS
<1> DEFINE told == [thread |-> "none", state |-> "none", epoch |-> 0]
           r == [kind |-> "none", stage |-> "new", on |-> None, next |-> None, wish |-> FALSE,
                 text |-> {}, answers |-> 0]
<1>1. /\ a.core = [s \in Sessions |-> Unborn] /\ a.session = None /\ a.launched = FALSE
      /\ a.breakpoints = 0 /\ a.handles = <<>> /\ a.stream = "closed"
      /\ a.told.thread = "none" /\ a.told.epoch = 0 /\ a.fresh
      /\ task = [t \in Tasks |-> r] /\ disk = {} /\ moves = 0
  BY DEF AdapterInit
<1>2. /\ Unborn \in Core /\ Unborn.state = "unborn" /\ ~Unborn.wired /\ ~Unborn.audio
  BY DEF Unborn, Core
<1>3. a \in Adapters
  <2>1. told \in Told
    BY DEF Told
  <2>2. [s \in Sessions |-> Unborn] \in [Sessions -> Core]
    BY <1>2
  <2>3. <<>> \in Seq(Handle)
    OBVIOUS
  <2>4. a = [core |-> [s \in Sessions |-> Unborn], session |-> None, launched |-> FALSE,
             stopOnEntry |-> TRUE, unwire |-> None, configurationDone |-> None,
             epochBase |-> 0, breakpoints |-> 0, handles |-> <<>>,
             audioOff |-> None, audioWanted |-> FALSE, stream |-> "closed", pending |-> None,
             told |-> told, fresh |-> TRUE]
    BY DEF AdapterInit
  <2> HIDE DEF told
  <2> DEFINE cores == [s \in Sessions |-> Unborn]
  <2> HIDE DEF cores
  <2>5. cores \in [Sessions -> Core]
    BY <2>2 DEF cores
  <2>6. a = [core |-> cores, session |-> None, launched |-> FALSE,
             stopOnEntry |-> TRUE, unwire |-> None, configurationDone |-> None,
             epochBase |-> 0, breakpoints |-> 0, handles |-> <<>>,
             audioOff |-> None, audioWanted |-> FALSE, stream |-> "closed", pending |-> None,
             told |-> told, fresh |-> TRUE]
    BY <2>4 DEF cores
  <2> QED
    BY <2>1, <2>3, <2>5, <2>6 DEF Adapters, Maybe
<1>4. r \in Request
  BY DEF Request, Kinds, Stages, Maybe
<1>5. AdapterTypes
  BY <1>1, <1>3, <1>4 DEF AdapterTypes
<1>6. \A t \in Tasks : /\ task[t].stage = "new" /\ task[t].kind = "none" /\ task[t].on = None
                       /\ task[t].answers = 0
  BY <1>1
<1>7. \A t \in Tasks : Shaped(t) /\ Holding(t)
  BY <1>6 DEF Shaped, Holding, IsA, Awaits
<1>8. Alone
  BY <1>6 DEF Alone, Awaits
<1>9. Untouched
  BY <1>1, <1>2 DEF Untouched
<1>10. Held
  BY <1>1, <1>2 DEF Held, Alive
<1>11. InUse
  BY <1>1 DEF InUse
<1> QED
  BY <1>1, <1>5, <1>7, <1>8, <1>9, <1>10, <1>11 DEF AdapterInv

LEMMA StutterKeeps ==
  ASSUME AdapterInv, UNCHANGED adapterVars
  PROVE  AdapterInv'
BY DEF AdapterInv, adapterVars, AdapterTypes, Shaped, Holding, IsA, Awaits, Alone, Untouched, Held,
       Alive, InUse, Replacing, Configuring

\* Every request, and everything a request may meet while it waits, keeps the
\* invariant, and tells no smaller epoch.
LEMMA NextKeeps ==
  ASSUME AdapterInv, AdapterNext, ~overlapped'
  PROVE  AdapterInv' /\ EpochKept
<1>1. CASE \E t \in Tasks : Resumed(t)
  <2> PICK t \in Tasks : Resumed(t)
    BY <1>1
  <2>1. CASE CreationFails(t) BY <2>1, CreationFailsKeeps
  <2>2. CASE LaunchCreated(t) BY <2>2, LaunchCreatedKeeps
  <2>3. CASE ConfigurationTimer(t) BY <2>3, LaunchBeginsKeeps DEF ConfigurationTimer
  <2>4. CASE RestartCreated(t) BY <2>4, RestartCreatedKeeps
  <2>5. CASE RestartRetired(t) BY <2>5, RestartRetiredKeeps
  <2>6. CASE TerminateRetired(t) BY <2>6, TerminateRetiredKeeps
  <2>7. CASE StreamConnects(t) BY <2>7, StreamConnectsKeeps
  <2>8. CASE StreamFails(t) BY <2>8, StreamFailsKeeps
  <2>9. CASE LabelWritten(t) BY <2>9, LabelWrittenKeeps
  <2>10. CASE RestartSaved(t) BY <2>10, RestartSavedKeeps
  <2> QED
    BY <2>1, <2>2, <2>3, <2>4, <2>5, <2>6, <2>7, <2>8, <2>9, <2>10 DEF Resumed
<1>2. ASSUME NEW t \in Tasks, NEW wish \in BOOLEAN,
             Launch(t, wish) \/ Restart(t, wish) \/ Stream(t, wish)
      PROVE  AdapterInv' /\ EpochKept
  BY <1>2, LaunchKeeps, RestartKeeps, StreamKeeps
<1>3. ASSUME NEW t \in Tasks, Terminate(t) \/ SetLabel(t)
      PROVE  AdapterInv' /\ EpochKept
  BY <1>3, TerminateKeeps, SetLabelKeeps
<1>4. CASE ConfigurationDone
  <2>1. /\ a.configurationDone \in Tasks /\ task[a.configurationDone].stage = "configuring"
        /\ LaunchBegins(a.configurationDone)
    BY <1>4 DEF ConfigurationDone, AdapterInv, AdapterTypes, Adapters, Maybe
  <2> QED
    BY <2>1, LaunchBeginsKeeps
<1>5. CASE StreamCloses BY <1>5, StreamClosesKeeps
<1>6. CASE Continue BY <1>6, ContinueKeeps
<1>7. CASE StepRequest BY <1>7, StepRequestKeeps
<1>8. CASE GoBack BY <1>8, GoBackKeeps
<1>9. CASE StayStopped BY <1>9, StayStoppedKeeps
<1>10. ASSUME NEW s \in Sessions, MachineStops(s)
       PROVE  AdapterInv' /\ EpochKept
  BY <1>10, MachineStopsKeeps
<1>11. CASE Write BY <1>11, WriteKeeps
<1>12. CASE SetBreakpoints BY <1>12, SetBreakpointsKeeps
<1>13. CASE Scopes BY <1>13, ScopesKeeps
<1>14. CASE AskState BY <1>14, AskStateKeeps
<1>15. ASSUME NEW n \in 1 .. MAX_HANDLES, Variables(n)
       PROVE  AdapterInv' /\ EpochKept
  BY <1>15, VariablesKeeps
<1> QED
  BY <1>1, <1>2, <1>3, <1>4, <1>5, <1>6, <1>7, <1>8, <1>9, <1>10, <1>11, <1>12, <1>13, <1>14, <1>15
     DEF AdapterNext

\* Requests that overlapped have overlapped.
LEMMA OverlapStays ==
  ASSUME overlapped, [AdapterNext]_adapterVars
  PROVE  overlapped'
<1>1. ASSUME NEW t \in Tasks, Resumed(t) PROVE UNCHANGED overlapped
  BY <1>1 DEF Resumed, CreationFails, LaunchCreated, ConfigurationTimer, LaunchBegins, RestartSaved,
              RestartCreated, RestartRetired, TerminateRetired, StreamConnects, StreamFails,
              LabelWritten
<1>2. ASSUME NEW t \in Tasks, NEW wish \in BOOLEAN,
             Launch(t, wish) \/ Restart(t, wish) \/ Stream(t, wish) \/ Terminate(t) \/ SetLabel(t)
      PROVE  overlapped'
  BY <1>2 DEF Launch, Restart, Stream, Terminate, SetLabel, Sends
<1>3. ASSUME ConfigurationDone \/ StreamCloses \/ Write \/ SetBreakpoints \/ Scopes \/ AskState
      PROVE  UNCHANGED overlapped
  BY <1>3 DEF ConfigurationDone, LaunchBegins, StreamCloses, Write, SetBreakpoints, Scopes, AskState,
              Turn
<1>4. ASSUME Continue \/ StepRequest \/ GoBack \/ StayStopped PROVE overlapped'
  BY <1>4 DEF Continue, StepRequest, GoBack, StayStopped, Stopped
<1>5. ASSUME NEW s \in Sessions, MachineStops(s) PROVE UNCHANGED overlapped
  BY <1>5 DEF MachineStops
<1>6. ASSUME NEW n \in 1 .. MAX_HANDLES, Variables(n) PROVE UNCHANGED overlapped
  BY <1>6 DEF Variables
<1>7. CASE AdapterNext
  <2>1. TRUE \in BOOLEAN
    OBVIOUS
  <2> QED
    BY <1>1, <1>2, <1>3, <1>4, <1>5, <1>6, <1>7, <2>1 DEF AdapterNext
<1>8. CASE UNCHANGED adapterVars
  BY <1>8 DEF adapterVars
<1> QED
  BY <1>7, <1>8

\* Until two requests overlap that nothing serialises, the sessions, the
\* requests under way and what the client was told fit together (AdapterInv).
THEOREM AdapterInvariant == AdapterSpec => [](overlapped \/ AdapterInv)
<1>1. (overlapped \/ AdapterInv) /\ [AdapterNext]_adapterVars => (overlapped \/ AdapterInv)'
  BY NextKeeps, StutterKeeps, OverlapStays
<1> QED
  BY <1>1, InitInv, PTL DEF AdapterSpec

LEMMA InvariantSays == overlapped \/ AdapterInv => SessionsKept
<1> SUFFICES ASSUME AdapterInv PROVE SessionsKept
  BY DEF SessionsKept
<1>1. /\ \A t \in Tasks : Holding(t) /\ Shaped(t)
      /\ Held /\ InUse /\ a.fresh /\ task \in [Tasks -> Request]
  BY DEF AdapterInv, AdapterTypes
<1>2. SessionsAccounted
  BY <1>1 DEF SessionsAccounted, Held, IsA, Awaits
<1>3. ASSUME ~Busy({"restart", "launch"})
      PROVE  ~Replacing /\ ~Configuring
  BY <1>1, <1>3 DEF Busy, Replacing, Configuring, IsA, Awaits, Shaped
<1>4. CarriedOver
  BY <1>1, <1>3 DEF CarriedOver, InUse, Holding
<1>5. ToldTheState
  <2>1. Busy({"restart", "launch"}) => Busy({"restart", "launch", "terminate"})
    BY DEF Busy
  <2> QED
    BY <1>1, <1>3, <2>1 DEF ToldTheState, InUse
<1>6. AnsweredOnce
  BY <1>1 DEF AnsweredOnce, Shaped, Request
<1> QED
  BY <1>1, <1>2, <1>4, <1>5, <1>6 DEF SessionsKept, FreshNodes

\* Any launch, restart, terminate, stream, label and move, each resumed as late
\* as it may be and any write failing, and until two of them overlap that
\* nothing in session.ts:398-426, 615-646 or 656-685 serialises: no session
\* outlives its reason, the client's breakpoints, labels and audio follow it
\* into every session, what it was told is the state there is, and no request
\* is answered twice or with values of another machine.
THEOREM SessionsAreKept == AdapterSpec => []SessionsKept
BY AdapterInvariant, InvariantSays, PTL

\* The epoch the client holds falls only at the end of a restart that waited for
\* its labels to be saved, and by no more than the epoch of the session it
\* replaces; or after requests overlapped that nothing serialises.
THEOREM EpochsGrow == AdapterSpec => EpochGrows
<1>1. (overlapped \/ AdapterInv) /\ [AdapterNext]_adapterVars => [EpochKept]_adapterVars
  <2>1. ASSUME overlapped \/ AdapterInv, AdapterNext PROVE EpochKept
    <3>1. CASE overlapped' BY <3>1 DEF EpochKept
    <3>2. CASE ~overlapped' BY <2>1, <3>2, NextKeeps, OverlapStays
    <3> QED BY <3>1, <3>2
  <2> QED BY <2>1
<1> QED
  BY <1>1, AdapterInvariant, PTL DEF AdapterSpec, EpochGrows
=============================================================================
