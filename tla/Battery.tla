------------------------------- MODULE Battery -------------------------------
(* What a cartridge's battery-backed memory promises the game and the       *)
(* person with the .sav: each operation the game asks for happens at once   *)
(* and whole, a read answers with what is kept, and a file exported from    *)
(* one machine and imported into another brings everything the game can     *)
(* reach.  Cartridge.tla refines it: there an operation is a sequence of    *)
(* bits or of command bytes, each its own access of the bus.                *)

CONSTANTS Carts,           \* the cartridges there are
          Requests(_),     \* what the game can ask of one
          Blank(_),        \* its cells, erased
          Applied(_, _, _),   \* cartridge, cells, request: the cells after it
          Told(_, _, _)       \* and what it answers

NoRequest == [do |-> "none"]

VARIABLES cart,
          kept,      \* cell -> what it holds
          asked,     \* the request under way
          answer,    \* what the last read gave
          file,      \* the .sav last exported, <<>> before
          restore    \* a saved state of all of it, <<>> before
vars == <<cart, kept, asked, answer, file, restore>>

Init == /\ cart \in Carts /\ kept = Blank(cart) /\ asked = NoRequest /\ answer = <<>>
        /\ file = <<>> /\ restore = <<>>

Ask == /\ asked = NoRequest
       /\ asked' \in Requests(cart)
       /\ UNCHANGED <<cart, kept, answer, file, restore>>

Do == /\ asked # NoRequest
      /\ kept' = Applied(cart, kept, asked)
      /\ answer' = Told(cart, kept, asked)
      /\ asked' = NoRequest
      /\ UNCHANGED <<cart, file, restore>>

Export == file' = <<kept>> /\ UNCHANGED <<cart, kept, asked, answer, restore>>

\* The machine starts over with the file's memory.
Import == /\ file # <<>>
          /\ kept' = file[1]
          /\ asked' = NoRequest /\ answer' = <<>>
          /\ UNCHANGED <<cart, file, restore>>

Save == restore' = <<[kept |-> kept, asked |-> asked, answer |-> answer]>> /\ UNCHANGED <<cart, kept, asked, answer, file>>

Load == /\ restore # <<>>
        /\ kept' = restore[1].kept /\ asked' = restore[1].asked /\ answer' = restore[1].answer
        /\ UNCHANGED <<cart, file, restore>>

Next == Ask \/ Do \/ Export \/ Import \/ Save \/ Load

Spec == Init /\ [][Next]_vars
==============================================================================
