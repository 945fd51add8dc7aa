-------------------------------- MODULE Serial --------------------------------
(* The serial port with nothing connected (gba-emulator serial.ts): the     *)
(* registers, whose meaning RCNT and SIOCNT select together, and the        *)
(* transfer the GBA clocks itself, an event of the scheduler that the       *)
(* game's writes and a loaded save state may overtake.  A register is the   *)
(* set of its 1 bits.                                                       *)
EXTENDS Integers, FiniteSets

CONSTANTS SHORT, LONG,   \* bits of a Normal transfer (8 and 32)
          SLOW, FAST,    \* cycles per bit (64 and 8)
          WRITES,        \* what the game stores: <<register, bits, lanes>>
          TIME           \* bound: the last cycle

\* A bit takes time, and so does a transfer; a store is of a register's 16 bits.
ASSUME SerialAssumption ==
  /\ SHORT \in Nat \ {0} /\ LONG \in Nat \ {0} /\ SLOW \in Nat \ {0} /\ FAST \in Nat \ {0}
  /\ TIME \in Nat

VARIABLES io,        \* register -> its bits
          due,       \* when the transfer under way ends, {} without one
          attached,  \* whether its event has its callback
          time,
          irqs,      \* the cycles the serial interrupt was requested at
          began,     \* the transfers started: <<first cycle, last, bits, SIOCNT mode>>
          saved      \* a save state
serialVars == <<io, due, attached, time, irqs, began, saved>>

Registers == {"SIODATA32", "SIOMULTI", "SIOCNT", "SIODATA8", "RCNT", "JOYCNT", "JOY_RECV", "JOY_TRANS", "JOYSTAT"}
Word == 0 .. 15
LowByte == 0 .. 7
INTERNAL_CLOCK == 0
FAST_CLOCK == 1
SI == 2
SO_IDLE == 3
START == 7
IRQ == 14
LINES == 0 .. 3   \* SC, SD, SI, SO

SiocntMode(regs) ==
  CASE {12, 13} \cap regs["SIOCNT"] = {} -> "Normal8"
    [] {12, 13} \cap regs["SIOCNT"] = {12} -> "Normal32"
    [] {12, 13} \cap regs["SIOCNT"] = {13} -> "Multi"
    [] OTHER -> "Uart"
Mode(regs) ==
  IF 15 \in regs["RCNT"] THEN IF 14 \in regs["RCNT"] THEN "JoyBus" ELSE "GeneralPurpose" ELSE SiocntMode(regs)

-----------------------------------------------------------------------------
(* Reads                                                                   *)
Lines ==
  CASE Mode(io) = "GeneralPurpose" ->
         LET outputs == {i \in LINES : i + 4 \in io["RCNT"]} IN (io["RCNT"] \cap outputs) \cup (LINES \ outputs)
    [] Mode(io) = "JoyBus" -> {2, 3}
    [] Mode(io) \in {"Multi", "Uart"} -> LINES
    [] OTHER -> {0, 2} \cup (IF SO_IDLE \in io["SIOCNT"] THEN {3} ELSE {})

ReadSiocnt ==
  CASE SiocntMode(io) = "Multi" -> (io["SIOCNT"] \cap ({0, 1} \cup 7 .. 14)) \cup {SI, 3}
    [] SiocntMode(io) = "Uart"  -> (io["SIOCNT"] \cap ({0, 1, 2, 3} \cup 7 .. 14)) \cup {5}
    [] OTHER -> (io["SIOCNT"] \cap ({0, 1, 3} \cup 7 .. 14)) \cup {SI}

Read16(register) ==
  CASE register = "SIOCNT" -> ReadSiocnt
    [] register = "SIODATA8" -> IF Mode(io) = "Uart" THEN {} ELSE io[register]
    [] register = "RCNT" -> (io[register] \ LINES) \cup Lines
    [] register = "JOYCNT" -> io[register] \cap {0, 1, 2, 6}
    [] register = "JOY_TRANS" -> {}
    [] register = "JOYSTAT" -> io[register] \cap {1, 3, 4, 5}
    [] OTHER -> io[register]

-----------------------------------------------------------------------------
(* Writes                                                                  *)
\* What the register file holds after the lanes of a register are written.
Stored(register, value, lanes) ==
  LET old == io[register]
      merged == (old \ lanes) \cup (value \cap lanes)
  IN  CASE register = "SIODATA32" -> IF Mode(io) = "Normal32" THEN merged ELSE old
        [] register \in {"SIOMULTI", "JOY_RECV"} -> old
        [] register = "SIODATA8" -> IF Mode(io) = "Uart" THEN old ELSE merged
        [] register = "RCNT" -> merged \ (9 .. 13)
        [] register = "JOYCNT" -> ((old \cap {0, 1, 2}) \ (value \cap lanes)) \cup (merged \cap {6})
        [] register = "JOYSTAT" -> (old \ {4, 5}) \cup (merged \cap {4, 5})
        [] register = "SIOCNT" -> (merged \ {15}) \cup (IF due # {} THEN {START} ELSE {})
        [] OTHER -> merged

Length(regs) == (IF Mode(regs) = "Normal32" THEN LONG ELSE SHORT) * (IF FAST_CLOCK \in regs["SIOCNT"] THEN FAST ELSE SLOW)

\* Mutant: setting the start bit again starts over.
StartsAgain(regs) == Mode(regs) \in {"Normal8", "Normal32"} /\ {START, INTERNAL_CLOCK} \subseteq regs["SIOCNT"]

StartsTransfer(regs) ==
  due = {} /\ Mode(regs) \in {"Normal8", "Normal32"} /\ {START, INTERNAL_CLOCK} \subseteq regs["SIOCNT"]

Write16(register, value, lanes) ==
  LET regs == [io EXCEPT ![register] = Stored(register, value, lanes)]
      starts == register = "SIOCNT" /\ StartsTransfer(regs)
  IN  /\ io' = regs
      /\ due' = IF starts THEN {time + Length(regs)} ELSE due
      /\ attached' = (attached \/ starts)
      /\ began' = IF starts THEN began \cup {<<time, time + Length(regs), Mode(regs)>>} ELSE began
      /\ UNCHANGED <<time, irqs, saved>>

\* Time passes, to the end of the transfer at the furthest.
AdvanceBy(cycles) ==
  /\ time + cycles <= TIME
  /\ due # {} => time + cycles < CHOOSE t \in due : TRUE
  /\ time' = time + cycles
  /\ UNCHANGED <<io, due, attached, irqs, began, saved>>

FinishTransfer ==
  LET siocnt == io["SIOCNT"] \ {START}
      at == CHOOSE t \in due : TRUE
  IN  /\ due # {} /\ attached
      /\ time' = at /\ at <= TIME
      /\ io' = [r \in Registers |->
           CASE r = "SIOCNT" -> siocnt
             [] r = "SIODATA32" /\ 12 \in siocnt -> Word
             [] r = "SIODATA8" /\ 12 \notin siocnt -> io[r] \cup LowByte
             [] OTHER -> io[r]]
      /\ due' = {} /\ attached' = FALSE
      /\ irqs' = IF IRQ \in siocnt THEN irqs \cup {at} ELSE irqs
      /\ UNCHANGED <<began, saved>>

\* The scheduler's snapshot keeps the event's cycle, not its callback.  Bound:
\* one state, taken while a transfer runs.
SaveState ==
  /\ saved = <<>> /\ due # {}
  /\ saved' = <<[io |-> io, due |-> due, time |-> time, irqs |-> irqs, began |-> began]>>
  /\ UNCHANGED <<io, due, attached, time, irqs, began>>

ReattachEvents(scheduled) == scheduled # {}

LoadState ==
  /\ saved # <<>>
  /\ io' = saved[1].io /\ due' = saved[1].due /\ time' = saved[1].time
  /\ irqs' = saved[1].irqs /\ began' = saved[1].began
  /\ attached' = ReattachEvents(saved[1].due)
  /\ UNCHANGED saved

SerialInit ==
  /\ io = [r \in Registers |-> {}]
  /\ due = {} /\ attached = FALSE /\ time = 0 /\ irqs = {} /\ began = {} /\ saved = <<>>

SerialNext ==
  \/ \E w \in WRITES : Write16(w[1], w[2], w[3])
  \/ AdvanceBy(1)
  \/ FinishTransfer
  \/ SaveState \/ LoadState

SerialSpec == SerialInit /\ [][SerialNext]_serialVars

-----------------------------------------------------------------------------
(* Properties *)

\* A transfer runs the cycles of its bits from the write that started it: its
\* start bit reads set until then, no write in between ends it, starts it over
\* or makes it shorter, whichever register or byte is written; a state loaded
\* in the middle of it still ends it; no two run at once; and each that has
\* ended asked for its interrupt at its last cycle or not at all
\* (#writeSiocnt, #finishTransfer, reattachEvents).
TransfersRunOut ==
  /\ due # {} => attached /\ START \in Read16("SIOCNT") /\ \E t \in began : t[2] \in due /\ time < t[2]
  /\ \A s, t \in began : s # t => s[2] <= t[1] \/ t[2] <= s[1]
  /\ \A t \in began : t[2] > time => t[2] \in due
  /\ irqs \subseteq {t[2] : t \in began}

=============================================================================
