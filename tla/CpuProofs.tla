------------------------------ MODULE CpuProofs ------------------------------
(***************************************************************************)
(* What the banks of registers and the flags of an addition promise, for   *)
(* every value of every register and every width of word.                  *)
(***************************************************************************)
EXTENDS Alu, Banks, TLAPS

\* A processor as Cpu.tla has it, in one of the seven modes; V is the set of
\* its words, the others are what the banks do not touch.
Processors(V, Pipes, Memories, Buses) ==
  [r : [Registers -> V], psr : ValidPsr, bank : [BankNames -> [Pair -> V]],
   high : [{"fiq", "usr"} -> [High -> V]], spsr : [Privileged -> ValidPsr],
   pipe : Pipes, halted : BOOLEAN, mem : Memories, bus : Buses, seq : BOOLEAN]

LEMMA BanksOfModes ==
  /\ \A m \in Modes : Bank(m) \in BankNames /\ HighBank(m) \in {"fiq", "usr"}
  /\ \A m \in Privileged : m \in Modes /\ m \in BankNames /\ Bank(m) = m
  /\ Pair \subseteq Registers /\ High \subseteq Registers /\ Pair \intersect High = {}
BY DEF Bank, BankNames, HighBank, Modes, Privileged, Pair, High, Registers, SP, LR,
       Usr, Fiq, Irq, Svc, Abt, Und, Sys

LEMMA ModeOfPsr ==
  ASSUME NEW p \in ValidPsr, NEW m \in Modes
  PROVE  [p EXCEPT !.mode = m] \in ValidPsr /\ [p EXCEPT !.mode = m].mode = m
<1>1. m \in 0 .. 31
  BY DEF Modes, Usr, Fiq, Irq, Svc, Abt, Und, Sys
<1>2. p \in Psr
  BY DEF ValidPsr
<1>3. [p EXCEPT !.mode = m] \in Psr /\ [p EXCEPT !.mode = m].mode = m
  BY <1>1, <1>2 DEF Psr
<1> QED
  BY <1>3 DEF ValidPsr

LEMMA MaskedStatus ==
  ASSUME NEW p \in ValidPsr
  PROVE  /\ [[p EXCEPT !.i = TRUE] EXCEPT !.t = FALSE] \in ValidPsr
         /\ [[p EXCEPT !.i = TRUE] EXCEPT !.t = FALSE].mode = p.mode
<1> DEFINE q == [[p EXCEPT !.i = TRUE] EXCEPT !.t = FALSE]
<1>1. p \in Psr /\ p.mode \in Modes
  BY DEF ValidPsr
<1>2. q \in Psr /\ q.mode = p.mode
  BY <1>1 DEF Psr
<1> QED
  BY <1>1, <1>2 DEF ValidPsr

\* The operator keeps a processor a processor.
LEMMA SwitchModeType ==
  ASSUME NEW V, NEW P, NEW M, NEW B, NEW c \in Processors(V, P, M, B), NEW new \in Modes
  PROVE  SwitchMode(c, new) \in Processors(V, P, M, B)
<1> DEFINE s == SaveBankedRegisters(c, c.psr.mode)
           t == [s EXCEPT !.psr.mode = new]
<1>0. c.psr.mode \in Modes
  BY DEF Processors, ValidPsr
<1>1. s \in Processors(V, P, M, B)
  <2>1. s.bank = [c.bank EXCEPT ![Bank(c.psr.mode)] = [i \in Pair |-> c.r[i]]]
    BY <1>0 DEF SaveBankedRegisters, Processors
  <2>2. s.bank \in [BankNames -> [Pair -> V]]
    BY <2>1, <1>0, BanksOfModes DEF Processors
  <2>3. s.high = [c.high EXCEPT ![HighBank(c.psr.mode)] = [i \in High |-> c.r[i]]]
    BY DEF SaveBankedRegisters, Processors
  <2>4. s.high \in [{"fiq", "usr"} -> [High -> V]]
    BY <2>3, <1>0, BanksOfModes DEF Processors
  <2> QED
    BY <2>2, <2>4 DEF SaveBankedRegisters, Processors
<1>2. t \in Processors(V, P, M, B)
  <2>1. s.psr \in ValidPsr
    BY <1>1 DEF Processors
  <2>2. [s.psr EXCEPT !.mode = new] \in ValidPsr
    BY <2>1, ModeOfPsr
  <2> QED
    BY <1>1, <2>2 DEF Processors
<1>3. RestoreBankedRegisters(t, new) \in Processors(V, P, M, B)
  <2> DEFINE u == [i \in Registers |-> IF i \in Pair THEN t.bank[Bank(new)][i]
                                       ELSE IF i \in High THEN t.high[HighBank(new)][i] ELSE t.r[i]]
  <2>1. t.bank[Bank(new)] \in [Pair -> V] /\ t.high[HighBank(new)] \in [High -> V] /\ t.r \in [Registers -> V]
    BY <1>2, BanksOfModes DEF Processors
  <2>2. u \in [Registers -> V]
    BY <2>1
  <2>3. RestoreBankedRegisters(t, new) = [t EXCEPT !.r = u]
    BY DEF RestoreBankedRegisters
  <2> QED
    BY <1>2, <2>2, <2>3 DEF Processors
<1> QED
  BY <1>3 DEF SwitchMode

\* A switch of modes loses no register of any mode: what each mode sees is
\* what it saw, though half of it is kept elsewhere (switchMode).
THEOREM SwitchModeKeepsViews ==
  ASSUME NEW V, NEW P, NEW M, NEW B, NEW c \in Processors(V, P, M, B), NEW new \in Modes
  PROVE  /\ SwitchMode(c, new).psr = [c.psr EXCEPT !.mode = new]
         /\ SwitchMode(c, new).spsr = c.spsr
         /\ SameViews(SwitchMode(c, new), c)
<1> DEFINE old == c.psr.mode
           s == SaveBankedRegisters(c, old)
           t == [s EXCEPT !.psr.mode = new]
           d == SwitchMode(c, new)
<1>0. old \in Modes
  BY DEF Processors, ValidPsr
<1>1. CASE new = old
  <2>1. d = c
    BY <1>1 DEF SwitchMode
  <2>2. c.psr = [c.psr EXCEPT !.mode = new]
    BY <1>1 DEF Processors, ValidPsr, Psr
  <2> QED
    BY <2>1, <2>2 DEF SameViews
<1>2. CASE new # old
  <2>1. d = RestoreBankedRegisters(t, new)
    BY <1>2 DEF SwitchMode
  <2>2. /\ s.bank = [c.bank EXCEPT ![Bank(old)] = [i \in Pair |-> c.r[i]]]
        /\ s.high = [c.high EXCEPT ![HighBank(old)] = [i \in High |-> c.r[i]]]
        /\ s.r = c.r /\ s.psr = c.psr /\ s.spsr = c.spsr
    BY <1>0 DEF SaveBankedRegisters, Processors
  <2>2a. t.psr = [c.psr EXCEPT !.mode = new] /\ t.bank = s.bank /\ t.high = s.high /\ t.r = s.r /\ t.spsr = s.spsr
    BY <2>2 DEF SaveBankedRegisters, Processors
  <2>3. /\ d.bank = s.bank /\ d.high = s.high
        /\ d.psr = [c.psr EXCEPT !.mode = new] /\ d.spsr = c.spsr
        /\ d.r = [i \in Registers |-> IF i \in Pair THEN s.bank[Bank(new)][i]
                                      ELSE IF i \in High THEN s.high[HighBank(new)][i] ELSE c.r[i]]
    BY <2>1, <2>2, <2>2a DEF RestoreBankedRegisters, SaveBankedRegisters, Processors
  <2>4. d.psr.mode = new
    BY <2>3 DEF Processors, ValidPsr, Psr
  <2>5. ASSUME NEW m \in Modes, NEW i \in Registers
        PROVE  View(d, m, i) = View(c, m, i)
    <3>1. CASE i \in Pair
      <4>1. View(d, m, i) = s.bank[Bank(m)][i]
        BY <3>1, <2>3, <2>4 DEF View
      <4>2. s.bank[Bank(m)][i] = IF Bank(m) = Bank(old) THEN c.r[i] ELSE c.bank[Bank(m)][i]
        BY <3>1, <2>2, <1>0, BanksOfModes DEF Processors
      <4> QED
        BY <3>1, <4>1, <4>2 DEF View
    <3>2. CASE i \in High
      <4>0. i \notin Pair
        BY <3>2, BanksOfModes
      <4>1. View(d, m, i) = s.high[HighBank(m)][i]
        BY <3>2, <4>0, <2>3, <2>4 DEF View
      <4>2. s.high[HighBank(m)][i] = IF HighBank(m) = HighBank(old) THEN c.r[i] ELSE c.high[HighBank(m)][i]
        BY <3>2, <2>2, <1>0, BanksOfModes DEF Processors
      <4> QED
        BY <3>2, <4>0, <4>1, <4>2 DEF View
    <3>3. CASE i \notin Pair /\ i \notin High
      BY <3>3, <2>3 DEF View
    <3> QED
      BY <3>1, <3>2, <3>3
  <2> QED
    BY <2>3, <2>5 DEF SameViews
<1> QED
  BY <1>1, <1>2

\* Taking an exception keeps the interrupted status in the exception's own
\* SPSR and moves no register but its own link register (enterIrq, #enterSwi,
\* enterUnd).
THEOREM TakeExceptionSaves ==
  ASSUME NEW V, NEW P, NEW M, NEW B, NEW c \in Processors(V, P, M, B),
         NEW mode \in Privileged, NEW return \in V
  PROVE  LET d == TakeException(c, mode, return)
         IN  /\ d \in Processors(V, P, M, B)
             /\ d.psr.mode = mode /\ d.spsr[mode] = c.psr /\ View(d, mode, LR) = return
             /\ \A m \in Modes, i \in Registers :
                  (i = LR /\ m = mode) \/ View(d, m, i) = View(c, m, i)
<1> DEFINE a == SwitchMode(c, mode)
           b == [a EXCEPT !.r[LR] = return]
           e == SetSpsr(b, c.psr)
           d == TakeException(c, mode, return)
<1>0. mode \in Modes /\ c.psr \in ValidPsr /\ LR \in Registers /\ LR \in Pair
  BY BanksOfModes DEF Processors, Pair, LR
<1>1. a \in Processors(V, P, M, B) /\ a.psr = [c.psr EXCEPT !.mode = mode] /\ SameViews(a, c)
  BY <1>0, SwitchModeType, SwitchModeKeepsViews
<1>2. a.psr.mode = mode
  BY <1>1, <1>0 DEF ValidPsr, Psr
<1>3. b \in Processors(V, P, M, B) /\ b.psr = a.psr /\ b.r = [a.r EXCEPT ![LR] = return]
      /\ b.bank = a.bank /\ b.high = a.high
  BY <1>1, <1>0 DEF Processors
<1>4. e = [b EXCEPT !.spsr[mode] = c.psr]
  BY <1>3, <1>2 DEF SetSpsr
<1>5. e \in Processors(V, P, M, B) /\ e.psr = b.psr /\ e.spsr[mode] = c.psr
      /\ e.r = b.r /\ e.bank = b.bank /\ e.high = b.high
  <2>1. [b.spsr EXCEPT ![mode] = c.psr] \in [Privileged -> ValidPsr]
        /\ [b.spsr EXCEPT ![mode] = c.psr][mode] = c.psr
    BY <1>3, <1>0 DEF Processors
  <2>2. e = [b EXCEPT !.spsr = [b.spsr EXCEPT ![mode] = c.psr]]
    BY <1>4, <1>3 DEF Processors
  <2> QED
    BY <2>1, <2>2, <1>3 DEF Processors
<1>6. d = [e EXCEPT !.psr.i = TRUE, !.psr.t = FALSE]
  BY DEF TakeException
<1>7. /\ d.psr = [[e.psr EXCEPT !.i = TRUE] EXCEPT !.t = FALSE]
      /\ d.r = e.r /\ d.bank = e.bank /\ d.high = e.high /\ d.spsr = e.spsr
  BY <1>6, <1>5 DEF Processors
<1>8. d.psr \in ValidPsr /\ d.psr.mode = mode
  <2>1. e.psr \in ValidPsr /\ e.psr.mode = mode
    BY <1>5, <1>3, <1>2 DEF Processors
  <2> QED
    BY <2>1, <1>7, MaskedStatus
<1>9. d \in Processors(V, P, M, B)
  BY <1>6, <1>7, <1>8, <1>5 DEF Processors
<1>10. \A m \in Modes, i \in Registers : (i = LR /\ m = mode) \/ View(d, m, i) = View(a, m, i)
  <2> SUFFICES ASSUME NEW m \in Modes, NEW i \in Registers, ~(i = LR /\ m = mode)
               PROVE  View(d, m, i) = View(a, m, i)
    OBVIOUS
  <2>1. d.r = [a.r EXCEPT ![LR] = return] /\ d.bank = a.bank /\ d.high = a.high
    BY <1>7, <1>5, <1>3
  <2>2. d.psr.mode = a.psr.mode
    BY <1>8, <1>2
  <2>3. i # LR => d.r[i] = a.r[i]
    BY <2>1, <1>1 DEF Processors
  <2>4. m # mode => Bank(m) # Bank(mode)
    BY DEF Bank, Modes, Privileged, Usr, Fiq, Irq, Svc, Abt, Und, Sys
  <2>5. LR \notin High
    BY DEF LR, High
  <2> QED
    BY <2>1, <2>2, <2>3, <2>4, <2>5, <1>2, <1>0 DEF View
<1>11. View(d, mode, LR) = return
  BY <1>7, <1>5, <1>3, <1>8, <1>1, <1>0 DEF View, Processors
<1> QED
  BY <1>1, <1>5, <1>7, <1>8, <1>9, <1>10, <1>11 DEF SameViews

\* An exception taken and returned from leaves the status as it was and every
\* register of every mode but the exception's link register.
THEOREM ExceptionReturns ==
  ASSUME NEW V, NEW P, NEW M, NEW B, NEW c \in Processors(V, P, M, B),
         NEW mode \in Privileged, NEW return \in V
  PROVE  LET d == RestoreCpsrFromSpsr(TakeException(c, mode, return))
         IN  /\ d.psr = c.psr
             /\ \A m \in Modes, i \in Registers :
                  (i = LR /\ m = mode) \/ View(d, m, i) = View(c, m, i)
<1> DEFINE t == TakeException(c, mode, return)
           s == SwitchMode(t, c.psr.mode)
           d == RestoreCpsrFromSpsr(t)
<1>1. /\ t \in Processors(V, P, M, B) /\ t.psr.mode = mode /\ t.spsr[mode] = c.psr
      /\ \A m \in Modes, i \in Registers : (i = LR /\ m = mode) \/ View(t, m, i) = View(c, m, i)
  BY TakeExceptionSaves
<1>2. d = [s EXCEPT !.psr = c.psr]
  BY <1>1 DEF RestoreCpsrFromSpsr, GetSpsr
<1>3. c.psr.mode \in Modes /\ c.psr \in ValidPsr
  BY DEF Processors, ValidPsr
<1>4. s \in Processors(V, P, M, B) /\ s.psr = [t.psr EXCEPT !.mode = c.psr.mode] /\ SameViews(s, t)
  BY <1>1, <1>3, SwitchModeType, SwitchModeKeepsViews
<1>5. s.psr.mode = c.psr.mode
  BY <1>4, <1>1 DEF Processors, ValidPsr, Psr
<1>6. d.psr = c.psr /\ d.r = s.r /\ d.bank = s.bank /\ d.high = s.high
  BY <1>2, <1>4 DEF Processors
<1>7. SameViews(d, s)
  BY <1>6, <1>5 DEF SameViews, View
<1> QED
  BY <1>1, <1>4, <1>6, <1>7 DEF SameViews

\* The flags of an addition of any width of word: the carry says that the sum
\* of the unsigned numbers does not fit, the overflow that the sum of the
\* signed ones does not (addWithFlags).
THEOREM AdditionFlags ==
  ASSUME NEW a \in Word, NEW b \in Word, NEW k \in {0, 1}
  PROVE  LET p == AddWithFlags(a, b, k)
         IN  /\ p.value \in Word
             /\ p.c <=> p.value # a + b + k
             /\ p.v <=> Signed(p.value) # Signed(a) + Signed(b) + k
<1> DEFINE r == Truncated(a + b + k)
<1>1. Sign \in Nat \ {0} /\ Wrap = 2 * Sign /\ a \in 0 .. Wrap - 1 /\ b \in 0 .. Wrap - 1
  BY AluAssumption DEF Word, Wrap
<1>2. r = IF a + b + k >= 2 * Sign THEN a + b + k - 2 * Sign ELSE a + b + k
  BY <1>1 DEF Truncated
<1>3. AddWithFlags(a, b, k).value = r
  BY DEF AddWithFlags
<1>4. r \in Word
  BY <1>1, <1>2 DEF Word
<1>5. AddWithFlags(a, b, k).c = (a + b + k >= 2 * Sign)
  BY <1>1 DEF AddWithFlags
<1>6. AddWithFlags(a, b, k).v = (IsNegative(a) # IsNegative(r) /\ IsNegative(b) # IsNegative(r))
  BY DEF AddWithFlags
<1>7. (a + b + k >= 2 * Sign) <=> r # a + b + k
  BY <1>1, <1>2
<1>8. (IsNegative(a) # IsNegative(r) /\ IsNegative(b) # IsNegative(r)) <=> Signed(r) # Signed(a) + Signed(b) + k
  BY <1>1, <1>2 DEF Signed, IsNegative
<1> QED
  BY <1>3, <1>4, <1>5, <1>6, <1>7, <1>8
=============================================================================
