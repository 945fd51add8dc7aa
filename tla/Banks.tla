-------------------------------- MODULE Banks --------------------------------
(***************************************************************************)
(* The modes of the ARM7TDMI and the registers each keeps for itself       *)
(* (packages/arm-emulator/src/arm-cpu.ts).  A processor is a record: `r`   *)
(* the sixteen registers the mode in force shows, `psr` the CPSR, `bank`   *)
(* the stack pointer and link register of each bank, `high` r8 to r12 of   *)
(* FIQ and of every other mode, `spsr` the saved status of the privileged  *)
(* modes.  The live registers of a bank are in `r`; what `bank` and `high` *)
(* then hold for it is out of date.                                        *)
(***************************************************************************)
EXTENDS Integers

Usr == 16
Fiq == 17
Irq == 18
Svc == 19
Abt == 23
Und == 27
Sys == 31

Modes      == {Usr, Fiq, Irq, Svc, Abt, Und, Sys}
Privileged == Modes \ {Usr, Sys}

Registers == 0 .. 15
High      == 8 .. 12
SP == 13
LR == 14
PC == 15
Pair == {SP, LR}

Bank(m)     == IF m = Sys THEN Usr ELSE m
BankNames   == Modes \ {Sys}
HighBank(m) == IF m = Fiq THEN "fiq" ELSE "usr"

Psr == [mode : 0 .. 31, i : BOOLEAN, f : BOOLEAN, t : BOOLEAN,
        n : BOOLEAN, z : BOOLEAN, c : BOOLEAN, v : BOOLEAN]

\* What a program writes to a PSR keeps it in one of the seven modes.
ValidPsr == {p \in Psr : p.mode \in Modes}

SaveBankedRegisters(c, m) ==
  [c EXCEPT !.bank = IF m \in Modes THEN [@ EXCEPT ![Bank(m)] = [i \in Pair |-> c.r[i]]] ELSE @,
            !.high = [@ EXCEPT ![HighBank(m)] = [i \in High |-> c.r[i]]]]

\* Mutant: r8 to r12 stay those of the mode left.
RestoreNotHigh(c, m) ==
  [c EXCEPT !.r = [i \in Registers |-> IF i \in Pair THEN c.bank[Bank(m)][i] ELSE @[i]]]

RestoreBankedRegisters(c, m) ==
  [c EXCEPT !.r = [i \in Registers |-> IF i \in Pair THEN c.bank[Bank(m)][i]
                                       ELSE IF i \in High THEN c.high[HighBank(m)][i]
                                       ELSE @[i]]]

SwitchMode(c, new) ==
  IF new = c.psr.mode \/ new \notin Modes THEN c
  ELSE RestoreBankedRegisters([SaveBankedRegisters(c, c.psr.mode) EXCEPT !.psr.mode = new], new)

GetSpsr(c)    == c.spsr[c.psr.mode]
SetSpsr(c, p) == IF c.psr.mode \in Privileged THEN [c EXCEPT !.spsr[c.psr.mode] = p] ELSE c

\* Taking an exception, up to the branch to its vector.
TakeException(c, mode, return) ==
  LET d == SetSpsr([SwitchMode(c, mode) EXCEPT !.r[LR] = return], c.psr)
  IN  [d EXCEPT !.psr.i = TRUE, !.psr.t = FALSE]

\* Mutant: the CPSR is put back before the registers of its mode are.
RestoreCpsrFirst(c) ==
  IF c.psr.mode \in Privileged THEN SwitchMode([c EXCEPT !.psr = GetSpsr(c)], GetSpsr(c).mode) ELSE c

RestoreCpsrFromSpsr(c) ==
  IF c.psr.mode \in Privileged
  THEN [SwitchMode(c, GetSpsr(c).mode) EXCEPT !.psr = GetSpsr(c)]
  ELSE c

\* A register as User mode sees it, for the block transfers with the S bit.
ReadUserRegister(c, i) ==
  IF i \in High /\ c.psr.mode = Fiq THEN c.high["usr"][i]
  ELSE IF i \in Pair /\ c.psr.mode \notin {Usr, Sys} THEN c.bank[Usr][i]
  ELSE c.r[i]

WriteUserRegister(c, i, v) ==
  IF i \in High /\ c.psr.mode = Fiq THEN [c EXCEPT !.high["usr"][i] = v]
  ELSE IF i \in Pair /\ c.psr.mode \notin {Usr, Sys} THEN [c EXCEPT !.bank[Usr][i] = v]
  ELSE [c EXCEPT !.r[i] = v]

\* MSR: user mode writes the flags only, and the SPSR of a mode without one
\* is not there.
MaskedPsr(old, new, flags, control) ==
  [n |-> IF flags THEN new.n ELSE old.n, z |-> IF flags THEN new.z ELSE old.z,
   c |-> IF flags THEN new.c ELSE old.c, v |-> IF flags THEN new.v ELSE old.v,
   mode |-> IF control THEN new.mode ELSE old.mode,
   i |-> IF control THEN new.i ELSE old.i, f |-> IF control THEN new.f ELSE old.f,
   t |-> IF control THEN new.t ELSE old.t]

WritePsr(c, p, saved, fields) ==
  LET control == "control" \in fields /\ c.psr.mode # Usr
      masked(old) == MaskedPsr(old, p, "flags" \in fields, control)
  IN  IF saved
      THEN IF c.psr.mode \in Privileged THEN SetSpsr(c, masked(GetSpsr(c))) ELSE c
      ELSE [SwitchMode(c, masked(c.psr).mode) EXCEPT !.psr = masked(c.psr)]

-----------------------------------------------------------------------------
(* The register file the banks stand for: a register of a mode is live in  *)
(* `r` while a mode that shares it is in force, and in its bank otherwise. *)
View(c, m, i) ==
  IF i \in Pair THEN IF Bank(m) = Bank(c.psr.mode) THEN c.r[i] ELSE c.bank[Bank(m)][i]
  ELSE IF i \in High THEN IF HighBank(m) = HighBank(c.psr.mode) THEN c.r[i] ELSE c.high[HighBank(m)][i]
  ELSE c.r[i]

SameViews(c, d) == \A m \in Modes : \A i \in Registers : View(c, m, i) = View(d, m, i)
=============================================================================
