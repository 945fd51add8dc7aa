------------------------------- MODULE States -------------------------------
(***************************************************************************)
(* Where save states are kept and how a request reaches one: the debug     *)
(* adapter's state files (debug-adapter/src/session.ts, #saveState to      *)
(* #removeFile) and the states a page's transport keeps in memory          *)
(* (debug-ui/src/session-transport.ts).  Every await of a request on its   *)
(* files is a point where other requests go on, of whatever kind; in       *)
(* memory only an import awaits.  Imports queue behind one another, and    *)
(* nothing else waits for anything.                                        *)
(*                                                                         *)
(* A name is <<base, n>>: n = 1 is the base itself, n > 1 the base with    *)
(* the mark `(n)` an import gives a repeat.  A text is an id of its own    *)
(* and the name written in it.                                             *)
(***************************************************************************)
EXTENDS Integers, Sequences, FiniteSets

CONSTANTS Bases,        \* the names requests use
          Safe,         \* safeName: the file part of each base
          InMemory,     \* the page's own map, not a directory of files
          Faults,       \* what the host may fail at: "write", "remove"
          MaxRepeat,    \* MAX_SAME_NAME
          MaxOps        \* bound: requests made

ASSUME StatesAssumption ==
  /\ InMemory \in BOOLEAN
  /\ MaxRepeat \in Nat
  /\ MaxOps \in Nat

VARIABLES store,    \* key |-> [id, name]
          ops,      \* the requests made, each where it has got to
          owed,     \* ids answered for that no later request took away
          crossed   \* a file was written while another request went by what it found there

vars == <<store, ops, owed, crossed>>

\* #statePath: the file a name is kept in; in memory, the name is the key.
Key(name) == IF InMemory THEN name ELSE <<Safe[name[1]], name[2]>>

Taken(name) == Key(name) \in DOMAIN store

\* What a client asks for: a name listStates showed, or one of its own.
Asked == {store[k].name : k \in DOMAIN store} \union (Bases \X {1})

Without(k) == [x \in DOMAIN store \ {k} |-> store[x]]

With(k, text) == [x \in DOMAIN store \union {k} |-> IF x = k THEN text ELSE store[x]]

Over == {"done", "failed"}

InFlight == {i \in DOMAIN ops : ops[i].step \notin Over}

\* Mutant: an import does not wait for the one before it.
MyTurnAtOnce(i) == TRUE

\* The queue of imports: each begins when those before it have settled.
MyTurn(i) == \A j \in 1 .. i - 1 : ops[j].kind = "import" => ops[j].step \in Over

\* What other requests leave to request i between two of its steps.
Free(i) ==
  InMemory => \A j \in InFlight \ {i} : ops[j].kind = "import" \/ ops[j].step = "asked"

\* The files a request has looked into and still goes by: an import about to
\* write found its own free; a rename read the one and found the other free,
\* and removes the one last.
GoesBy(op, k) ==
  \/ op.kind = "import" /\ op.step = "write" /\ k = Key(op.text.name)
  \/ op.kind = "rename" /\ op.step \in {"check", "write", "remove"} /\ k = Key(op.name)
  \/ op.kind = "rename" /\ op.step = "write" /\ k = Key(op.to)

\* Request i writes file k.  Imports are left out: that one never writes what
\* another goes by is what their queue is for.
Writes(i, k) ==
  crossed' = (crossed \/ \E j \in InFlight \ {i} :
                            /\ GoesBy(ops[j], k)
                            /\ {ops[i].kind, ops[j].kind} # {"import"})

\* A request settled has nothing more to do: only how it ended is kept.
Settled(op, step) == [op EXCEPT !.step = step, !.name = << >>, !.to = << >>, !.text.name = << >>]

To(i, step) ==
  ops' = [ops EXCEPT ![i] = IF step \in Over THEN Settled(@, step) ELSE [@ EXCEPT !.step = step]]

Init == store = << >> /\ ops = << >> /\ owed = {} /\ crossed = FALSE

\* A request arrives; its id is that of the text it will write.
Ask(kind, name, to) ==
  /\ Len(ops) < MaxOps
  /\ ops' = Append(ops, [kind |-> kind, name |-> name, to |-> to, step |-> "asked",
                         text |-> [id |-> Len(ops) + 1, name |-> name]])
  /\ UNCHANGED <<store, owed, crossed>>

(* #saveState: it writes over whatever has the name, which is its meaning. *)
Save(i) ==
  /\ ops[i].kind = "save" /\ ops[i].step = "asked" /\ Free(i)
  /\ LET k == Key(ops[i].name)
         was == IF k \in DOMAIN store THEN {store[k].id} ELSE {}
     IN /\ store' = With(k, ops[i].text)
        /\ owed' = (owed \ was) \union {i}
        /\ Writes(i, k)
  /\ To(i, "done")

(* #importSave: candidates are tried from the name itself on. *)
Probe(i) ==
  /\ ops[i].kind = "import" /\ ops[i].step = "asked" /\ MyTurn(i) /\ Free(i)
  /\ LET name == ops[i].text.name
     IN IF ~Taken(name) THEN To(i, "write")
        ELSE IF name[2] = MaxRepeat THEN To(i, "failed")
        ELSE ops' = [ops EXCEPT ![i].text.name = <<name[1], name[2] + 1>>]
  /\ UNCHANGED <<store, owed, crossed>>

WriteImport(i) ==
  /\ ops[i].kind = "import" /\ ops[i].step = "write" /\ Free(i)
  /\ store' = With(Key(ops[i].text.name), ops[i].text)
  /\ owed' = owed \union {i}
  /\ Writes(i, Key(ops[i].text.name))
  /\ To(i, "done")

(* #renameState: read, look for the target, write it, remove the old file. *)
ReadRenamed(i) ==
  /\ ops[i].kind = "rename" /\ ops[i].step = "asked" /\ Free(i)
  /\ IF Taken(ops[i].name)
     THEN ops' = [ops EXCEPT ![i].step = "check",
                             ![i].text = [store[Key(ops[i].name)] EXCEPT !.name = ops[i].to]]
     ELSE To(i, "failed")
  /\ UNCHANGED <<store, owed, crossed>>

\* Mutant: only the names are compared, not the files they are kept in.
RefusedByName(op) == op.to # op.name /\ \E k \in DOMAIN store : store[k].name = op.to

\* A rename onto a name already taken is refused.
Refused(op) == Key(op.to) # Key(op.name) /\ Taken(op.to)

CheckRenamed(i) ==
  /\ ops[i].kind = "rename" /\ ops[i].step = "check" /\ Free(i)
  /\ To(i, IF Refused(ops[i]) THEN "failed" ELSE "write")
  /\ UNCHANGED <<store, owed, crossed>>

\* Mutant: the file is moved with the name it held.
RenamedStale(op) == [op.text EXCEPT !.name = op.name]

\* renameSaveState: the text with the new name in it.
Renamed(op) == op.text

WriteRenamed(i) ==
  /\ ops[i].kind = "rename" /\ ops[i].step = "write" /\ Free(i)
  /\ store' = With(Key(ops[i].to), Renamed(ops[i]))
  /\ Writes(i, Key(ops[i].to))
  /\ To(i, IF Key(ops[i].to) = Key(ops[i].name) THEN "done" ELSE "remove")
  /\ UNCHANGED owed

RemoveRenamed(i) ==
  /\ ops[i].kind = "rename" /\ ops[i].step = "remove" /\ Free(i)
  /\ store' = Without(Key(ops[i].name))
  /\ To(i, "done")
  /\ UNCHANGED <<owed, crossed>>

(* #deleteState: nothing there is an answer, not an error. *)
CheckDeleted(i) ==
  /\ ops[i].kind = "delete" /\ ops[i].step = "asked" /\ Free(i)
  /\ To(i, IF Taken(ops[i].name) THEN "remove" ELSE "done")
  /\ UNCHANGED <<store, owed, crossed>>

RemoveDeleted(i) ==
  /\ ops[i].kind = "delete" /\ ops[i].step = "remove" /\ Free(i)
  /\ LET k == Key(ops[i].name)
     IN /\ owed' = IF k \in DOMAIN store THEN owed \ {store[k].id} ELSE owed
        /\ store' = Without(k)
  /\ To(i, "done")
  /\ UNCHANGED crossed

(* The host fails at a write or a removal: the request fails, and what it  *)
(* would have done next is not done.  A failed import frees the next of    *)
(* its turn.                                                               *)
Fail(i) ==
  /\ \/ /\ "write" \in Faults
        /\ \/ ops[i].step = "write"
           \/ ops[i].kind = "save" /\ ops[i].step = "asked"
     \/ "remove" \in Faults /\ ops[i].step = "remove"
  /\ To(i, "failed")
  /\ UNCHANGED <<store, owed, crossed>>

Finished == Len(ops) = MaxOps /\ InFlight = {} /\ UNCHANGED vars

Next ==
  \/ \E kind \in {"save", "import"}, b \in Bases : Ask(kind, <<b, 1>>, <<b, 1>>)
  \/ \E name \in Asked, b \in Bases : Ask("rename", name, <<b, 1>>)
  \/ \E name \in Asked : Ask("delete", name, name)
  \/ \E i \in InFlight :
       \/ Save(i) \/ Probe(i) \/ WriteImport(i)
       \/ ReadRenamed(i) \/ CheckRenamed(i) \/ WriteRenamed(i) \/ RemoveRenamed(i)
       \/ CheckDeleted(i) \/ RemoveDeleted(i)
       \/ Fail(i)
  \/ Finished

Spec == Init /\ [][Next]_vars

----------------------------------------------------------------------------
(* A state someone was told is kept is kept until a delete or a save of    *)
(* its name takes it: "importing the same file twice keeps both rather     *)
(* than writing over the first", "a rename onto a name already taken is    *)
(* refused rather than overwriting it" (debug-adapter/src/session.ts).     *)
(* Violated: an import and a rename look whether a name is free and write  *)
(* after awaits that only imports keep others out of, so that what is      *)
(* saved, imported or renamed to the name in between is written over.      *)
NothingLost == \A id \in owed : \E k \in DOMAIN store : store[k].id = id

(* The name a listed state shows leads back to that state, so two states   *)
(* never show one name; of a state renamed half way, which a failed        *)
(* removal leaves twice, either is still the same state.                   *)
NamesLead == \A k \in DOMAIN store : Key(store[k].name) = k

(* The one way to lose a state: whatever requests overlap and whichever    *)
(* fail, nothing is lost as long as no save, import or rename wrote a file *)
(* another request still went by; two imports never do that to each other. *)
(* The name listed leads to the state in any case.                         *)
StatesKept == (crossed \/ NothingLost) /\ NamesLead
============================================================================
