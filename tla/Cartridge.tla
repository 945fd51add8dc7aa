------------------------------ MODULE Cartridge ------------------------------
(* The save chips of a cartridge (gba-emulator system-bus.ts, flash.ts): an *)
(* EEPROM, whose every access is one serial bit, and a flash chip, whose    *)
(* commands are sequences of byte writes.  Chips are records with their     *)
(* operations; the actions are a game that drives one through whole         *)
(* requests, an access at a time, with save states taken and loaded and     *)
(* .sav files exported and imported between any two accesses.  A byte is    *)
(* the set of its 1 bits.                                                   *)
EXTENDS Integers, Sequences, FiniteSets

CONSTANTS NARROW,     \* address bits of a 4 Kbit EEPROM (6 in the code)
          WIDE,       \* of a 64 Kbit one (14)
          UNITS,      \* units in the chip's array (1024), fewer than WIDE bits address
          UNIT_BITS,  \* bits of a unit (64)
          DUMMIES,    \* bits a read sends before the unit (4)
          CARTS,      \* the cartridges: [type, width] or [type, banks, offsets], the flash offsets in use
          REQUESTS,   \* bound: requests of one behaviour
          UnitValues, ByteValues   \* what games write

\* 2 to the power n.
Pow2[n \in Nat] == IF n = 0 THEN 1 ELSE 2 * Pow2[n - 1]

\* The narrow chip is a part of the array; a flash chip has one bank or two.
ASSUME CartridgeAssumption ==
  /\ NARROW \in Nat \ {0} /\ WIDE \in Nat /\ NARROW < WIDE
  /\ UNITS \in Nat /\ Pow2[NARROW] <= UNITS
  /\ UNIT_BITS \in Nat \ {0} /\ DUMMIES \in Nat
  /\ CARTS \subseteq [type : {"eeprom"}, width : {NARROW, WIDE}]
                      \cup [type : {"flash"}, banks : {1, 2}, offsets : (SUBSET Nat) \ {{}}]
  /\ UnitValues \subseteq [1 .. UNIT_BITS -> {0, 1}] /\ ByteValues \subseteq SUBSET (0 .. 7)

VARIABLES cart,      \* the cartridge in the slot
          eeprom, flash,
          request,   \* the game's request under way
          line,      \* the accesses of it still to come
          got,       \* what its reads returned so far
          answer,    \* what the last whole request read
          sav,       \* the file exported last
          state,     \* a save state
          asks       \* how many requests there were
cartVars == <<cart, eeprom, flash, request, line, got, answer, sav, state, asks>>

None == {}   \* no flash command
NoRequest == [do |-> "none"]

-----------------------------------------------------------------------------
(* EEPROM                                                                  *)
Ones == [i \in 1 .. UNIT_BITS |-> 1]

Idle(e) == [e EXCEPT !.state = "Idle", !.command = 0, !.address = 0, !.received = 0, !.buffer = <<>>, !.send = <<>>]

NewEeprom == [data |-> [u \in 0 .. UNITS - 1 |-> Ones], addrBits |-> 0, installed |-> 0, state |-> "Idle",
              command |-> 0, address |-> 0, received |-> 0, buffer |-> <<>>, send |-> <<>>]

\* Units a chip of `width` address bits holds.
UnitsOf(width) == IF width = NARROW THEN Pow2[NARROW] ELSE UNITS

SaveUnits(e) == IF e.addrBits # 0 THEN UnitsOf(e.addrBits) ELSE e.installed

Installed(units) == [NewEeprom EXCEPT !.data = [u \in DOMAIN @ |-> IF u < Len(units) THEN units[u + 1] ELSE Ones],
                                      !.installed = Len(units)]

FinishAddressPhase(e) ==
  IF e.command = 1
  THEN [e EXCEPT !.state = "SendingData",
                 !.send = [i \in 1 .. DUMMIES |-> 0] \o (IF e.address < UNITS THEN e.data[e.address] ELSE Ones)]
  ELSE [e EXCEPT !.state = "ReceivingData", !.buffer = <<>>, !.received = 0]

ExecuteWrite(e) == IF e.address >= UNITS THEN e ELSE [e EXCEPT !.data[e.address] = e.buffer]

\* Mutant: the width of a request is what came in, its stop bit included.
SettleAddressWidthWithStop(e) ==
  LET width == e.received
  IN  IF width \notin {NARROW, WIDE} THEN Idle(e)
      ELSE FinishAddressPhase([e EXCEPT !.addrBits = width, !.address = @ % Pow2[width]])

\* A read's own length says how wide the cartridge addresses.
SettleAddressWidth(e) ==
  LET width == e.received - 1
  IN  IF width \notin {NARROW, WIDE} THEN Idle(e)
      ELSE FinishAddressPhase([e EXCEPT !.addrBits = width, !.address = (@ \div 2) % Pow2[width]])

AddressBit(e, bit) ==
  LET more == [e EXCEPT !.address = 2 * @ + bit, !.received = @ + 1]
      known == [more EXCEPT !.addrBits = IF @ = 0 THEN NARROW ELSE @]
  IN  IF e.command = 1 THEN IF more.received > WIDE + 1 THEN Idle(more) ELSE more
      ELSE IF known.received = known.addrBits THEN FinishAddressPhase(known) ELSE known

EepromWrite(e, bit) ==
  CASE e.state = "Idle"             -> IF bit = 1 THEN [e EXCEPT !.state = "ReceivingCommand", !.received = 0] ELSE e
    [] e.state = "ReceivingCommand" -> [e EXCEPT !.state = "ReceivingAddress", !.command = bit, !.address = 0, !.received = 0]
    [] e.state = "ReceivingAddress" -> AddressBit(e, bit)
    [] e.state = "ReceivingData"    -> [e EXCEPT !.buffer = Append(@, bit), !.received = @ + 1,
                                                 !.state = IF e.received + 1 = UNIT_BITS THEN "ReceivingStopBit" ELSE @]
    [] e.state = "ReceivingStopBit" -> [(IF e.command = 0 THEN ExecuteWrite(e) ELSE e) EXCEPT !.state = "Idle"]
    [] e.state = "SendingData"      -> e

\* What a read of one bit leaves, and the bit.
EepromRead(e) ==
  LET s == IF e.state = "ReceivingAddress" /\ e.command = 1 THEN SettleAddressWidth(e) ELSE e
      sent == [s EXCEPT !.send = Tail(@), !.state = IF Len(s.send) = 1 THEN "Idle" ELSE @]
  IN  IF s.state = "SendingData" THEN [chip |-> sent, bit |-> Head(s.send)] ELSE [chip |-> s, bit |-> 1]

-----------------------------------------------------------------------------
(* Flash: programming clears bits, erasing sets them.                      *)
Erased == 0 .. 7

First  == [at |-> 21845, byte |-> {1, 3, 5, 7}]   \* the two unlock writes
Second == [at |-> 10922, byte |-> {0, 2, 4, 6}]

EraseCommand  == {7}
IdCommand     == {7, 4}
Program       == {7, 5}
SwitchBank    == {7, 5, 4}
EraseChip     == {4}
EraseSector   == {5, 4}
LeaveIdMode   == {7, 6, 5, 4}

SectorOf(offset) == offset \div 4096

NewFlash(c) == [data |-> [x \in (0 .. c.banks - 1) \X c.offsets |-> Erased], unlock |-> 0, command |-> None, bank |-> 0]
Banks(f) == {c[1] : c \in DOMAIN f.data}

FlashInstalled(f, bytes) == [f EXCEPT !.data = bytes, !.unlock = 0, !.command = None, !.bank = 0]

FlashRead(f, offset) ==
  IF f.command = IdCommand /\ offset < 2 THEN [id |-> <<Cardinality(Banks(f)), offset>>] ELSE [byte |-> f.data[<<f.bank, offset>>]]

\* The write that follows a complete unlock sequence.
RunCommand(f, w) ==
  CASE f.command = EraseCommand ->
         [f EXCEPT !.command = None,
                   !.data = [c \in DOMAIN @ |->
                     IF \/ w.at = First.at /\ w.byte = EraseChip
                        \/ w.byte = EraseSector /\ c[1] = f.bank /\ SectorOf(c[2]) = SectorOf(w.at)
                     THEN Erased ELSE @[c]]]
    [] f.command = IdCommand ->
         IF w.at = First.at /\ w.byte = LeaveIdMode THEN [f EXCEPT !.command = None] ELSE f
    [] OTHER ->
         IF \/ w.at # First.at
            \/ w.byte \notin {EraseCommand, IdCommand, Program, SwitchBank}
            \/ w.byte = SwitchBank /\ Cardinality(Banks(f)) = 1
         THEN f ELSE [f EXCEPT !.command = w.byte]

FlashWrite(f, w) ==
  CASE f.unlock = 0 /\ f.command = Program ->
         [f EXCEPT !.data[<<f.bank, w.at>>] = @ \cap w.byte, !.command = None]
    [] f.unlock = 0 /\ f.command = SwitchBank ->
         [f EXCEPT !.bank = IF w.at = 0 /\ w.byte \in {{}, {0}} THEN Cardinality(w.byte) ELSE @, !.command = None]
    [] f.unlock = 0 /\ f.command \notin {Program, SwitchBank} -> IF w = First THEN [f EXCEPT !.unlock = 1] ELSE f
    [] f.unlock = 1 -> [f EXCEPT !.unlock = IF w = Second THEN 2 ELSE 0]
    [] f.unlock = 2 -> RunCommand([f EXCEPT !.unlock = 0], w)

-----------------------------------------------------------------------------
(* The game's requests, as the accesses they are made of.                  *)
Wr(v) == [do |-> "write", value |-> v]
Rd(at) == [do |-> "read", value |-> at]

Address(n, width) == [i \in 1 .. width |-> (n \div Pow2[width - i]) % 2]
EepromLine(c, r) ==
  LET bits(s) == [i \in 1 .. Len(s) |-> Wr(s[i])]
  IN  IF r.do = "write" THEN bits(<<1, 0>> \o Address(r.at, c.width) \o r.unit \o <<0>>)
      ELSE bits(<<1, 1>> \o Address(r.at, c.width) \o <<0>>) \o [i \in 1 .. DUMMIES + UNIT_BITS |-> Rd(0)]

Unlocked(command) == <<Wr(First), Wr(Second), Wr([at |-> First.at, byte |-> command])>>
FlashLine(c, r) ==
  LET bank == IF c.banks = 1 THEN <<>>
              ELSE Unlocked(SwitchBank) \o <<Wr([at |-> 0, byte |-> IF r.at[1] = 1 THEN {0} ELSE {}])>>
      erase(at, how) == Unlocked(EraseCommand) \o <<Wr(First), Wr(Second), Wr([at |-> at, byte |-> how])>>
  IN  CASE r.do = "program"     -> bank \o Unlocked(Program) \o <<Wr([at |-> r.at[2], byte |-> r.byte])>>
        [] r.do = "eraseSector" -> bank \o erase(r.at[2], EraseSector)
        [] r.do = "eraseChip"   -> erase(First.at, EraseChip)
        [] r.do = "read"        -> bank \o <<Rd(r.at[2])>>
        [] r.do = "id"          -> Unlocked(IdCommand) \o <<Rd(0), Rd(1)>> \o Unlocked(LeaveIdMode)

EepromRequests(width) == [do : {"write"}, at : 0 .. Pow2[width] - 1, unit : UnitValues]
                           \cup [do : {"read"}, at : 0 .. Pow2[width] - 1]
FlashRequests(c) ==
  LET cells == (0 .. c.banks - 1) \X c.offsets
  IN  [do : {"program"}, at : cells, byte : ByteValues] \cup [do : {"eraseSector", "read"}, at : cells]
        \cup [do : {"eraseChip", "id"}]
Requests(c) == IF c.type = "eeprom" THEN EepromRequests(c.width) ELSE FlashRequests(c)

\* A game on a wide chip reads before it writes: until then a write is taken
\* to be narrow (the EEPROM's header comment).
Legal(r) == r.do = "write" => eeprom.addrBits = cart.width \/ cart.width = NARROW

-----------------------------------------------------------------------------
Ask ==
  /\ request = NoRequest /\ asks < REQUESTS
  /\ asks' = asks + 1
  /\ \E r \in Requests(cart) : /\ Legal(r)
                         /\ request' = r
                         /\ line' = IF cart.type = "eeprom" THEN EepromLine(cart, r) ELSE FlashLine(cart, r)
  /\ got' = <<>>
  /\ UNCHANGED <<cart, eeprom, flash, answer, sav, state>>

\* What the game makes of its reads.
Heard(bits) == IF cart.type = "eeprom" THEN SubSeq(bits, DUMMIES + 1, Len(bits)) ELSE bits

Access ==
  /\ request # NoRequest
  /\ LET a == Head(line)
         read == EepromRead(eeprom)
     IN  /\ eeprom' = IF cart.type # "eeprom" THEN eeprom
                      ELSE IF a.do = "write" THEN EepromWrite(eeprom, a.value) ELSE read.chip
         /\ flash' = IF cart.type = "flash" /\ a.do = "write" THEN FlashWrite(flash, a.value) ELSE flash
         /\ got' = IF a.do = "write" THEN got
                   ELSE Append(got, IF cart.type = "eeprom" THEN read.bit ELSE FlashRead(flash, a.value))
  /\ line' = Tail(line)
  /\ IF Len(line) = 1 THEN request' = NoRequest /\ answer' = Heard(got') ELSE UNCHANGED <<request, answer>>
  /\ UNCHANGED <<cart, sav, state, asks>>

\* Between requests a game polls the chip for its last write to end.
Poll ==
  /\ request = NoRequest /\ cart.type = "eeprom"
  /\ eeprom' = EepromRead(eeprom).chip
  /\ UNCHANGED <<cart, flash, request, line, got, answer, sav, state, asks>>

\* The .sav: as much of the chip as the cartridge has (exportSaveFile).
Export ==
  /\ cart.type = "eeprom" => SaveUnits(eeprom) # 0
  /\ sav' = <<IF cart.type = "eeprom" THEN [i \in 1 .. SaveUnits(eeprom) |-> eeprom.data[i - 1]] ELSE flash.data>>
  /\ UNCHANGED <<cart, eeprom, flash, request, line, got, answer, state, asks>>

\* A fresh machine with the file in its cartridge (importSaveState).
Import ==
  /\ sav # <<>>
  /\ eeprom' = IF cart.type = "eeprom" THEN Installed(sav[1]) ELSE eeprom
  /\ flash' = IF cart.type = "flash" THEN FlashInstalled(NewFlash(cart), sav[1]) ELSE flash
  /\ request' = NoRequest /\ line' = <<>> /\ got' = <<>> /\ answer' = <<>>
  /\ UNCHANGED <<cart, sav, state, asks>>

Save ==
  /\ state' = <<[eeprom |-> eeprom, flash |-> flash, request |-> request, line |-> line, got |-> got, answer |-> answer]>>
  /\ UNCHANGED <<cart, eeprom, flash, request, line, got, answer, sav, asks>>

Load ==
  /\ state # <<>>
  /\ eeprom' = state[1].eeprom /\ flash' = state[1].flash
  /\ request' = state[1].request /\ line' = state[1].line /\ got' = state[1].got /\ answer' = state[1].answer
  /\ UNCHANGED <<cart, sav, state, asks>>

CartInit ==
  /\ cart \in CARTS
  /\ eeprom = NewEeprom
  /\ flash = IF cart.type = "flash" THEN NewFlash(cart) ELSE NewFlash([banks |-> 0, offsets |-> {}])
  /\ request = NoRequest /\ line = <<>> /\ got = <<>> /\ answer = <<>> /\ sav = <<>> /\ state = <<>> /\ asks = 0

CartNext == Ask \/ Access \/ Poll \/ Export \/ Import \/ Save \/ Load

CartSpec == CartInit /\ [][CartNext]_cartVars

-----------------------------------------------------------------------------
(* Properties *)

\* What the game can reach of the chip.
Reached(e, f) == IF cart.type = "eeprom" THEN [u \in 0 .. UnitsOf(cart.width) - 1 |-> e.data[u]] ELSE f.data

Applied(c, kept, r) ==
  CASE r.do = "write" -> IF r.at \in DOMAIN kept THEN [kept EXCEPT ![r.at] = r.unit] ELSE kept
    [] r.do = "program" -> [kept EXCEPT ![r.at] = @ \cap r.byte]
    [] r.do = "eraseSector" -> [x \in DOMAIN kept |->
         IF x[1] = r.at[1] /\ SectorOf(x[2]) = SectorOf(r.at[2]) THEN Erased ELSE kept[x]]
    [] r.do = "eraseChip" -> [x \in DOMAIN kept |-> Erased]
    [] OTHER -> kept

Told(c, kept, r) ==
  CASE c.type = "eeprom" /\ r.do = "read" -> IF r.at \in DOMAIN kept THEN kept[r.at] ELSE Ones
    [] c.type = "flash" /\ r.do = "read" -> <<[byte |-> kept[r.at]]>>
    [] r.do = "id" -> <<[id |-> <<c.banks, 0>>], [id |-> <<c.banks, 1>>]>>
    [] OTHER -> <<>>

Blank(c) == IF c.type = "eeprom" THEN [u \in 0 .. UnitsOf(c.width) - 1 |-> Ones] ELSE NewFlash(c).data

Promise == INSTANCE Battery WITH
  Carts <- CARTS, Requests <- Requests, Blank <- Blank, Applied <- Applied, Told <- Told,
  kept <- Reached(eeprom, flash), asked <- request,
  answer <- answer,
  file <- IF sav = <<>> THEN <<>>
          ELSE <<IF cart.type = "flash" THEN sav[1]
                 ELSE [u \in DOMAIN Blank(cart) |-> IF u < Len(sav[1]) THEN sav[1][u + 1] ELSE Ones]>>,
  restore <- IF state = <<>> THEN <<>>
             ELSE <<[kept |-> Reached(state[1].eeprom, state[1].flash), asked |-> state[1].request, answer |-> state[1].answer]>>

\* Every request of the game to the cartridge's chip does what it asks, at once
\* and whole, however it is clocked in, and a .sav or a save state holds all of
\* it (system-bus.ts, flash.ts, gba.ts).
ChipKeepsAsAsked == Promise!Spec

==============================================================================
