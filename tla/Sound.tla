-------------------------------- MODULE Sound --------------------------------
(* The sound hardware (gba-emulator apu/): the four tone channels, the two  *)
(* sample FIFOs and the frame sequencer, which run on the machine's clock   *)
(* but only catch up with it when something looks at them: a register       *)
(* access, a FIFO's timer, the host, a save state.  Beside the APU as the   *)
(* code runs it, `exact` is advanced on every cycle.                        *)
EXTENDS Integers, SequencesExt

CONSTANTS FREQS,         \* 2048
          SQUARE_CYCLES, WAVE_CYCLES, NOISE_CYCLES,  \* cycles of the shortest step (16, 8 and 64)
          LENGTH, WAVE_LENGTH,                       \* 64 and 256
          VOLUME,        \* the loudest of an envelope (15)
          DIGITS,        \* digits in a wave RAM bank (32)
          LONG, SHORT,   \* bits of the noise register (15 and 7)
          SEQUENCER,     \* cycles of a frame sequencer step (32768)
          SAMPLE,        \* cycles of an output sample (512)
          RING,          \* samples the ring holds (4096)
          FIFO, REFILL, BURST, \* bytes of a FIFO (32), left when it asks (16), words sent (4)
          WRITES,        \* what one instruction stores: a sequence of <<register, fields>>
          READS,         \* the registers it reads
          PERIOD,        \* cycles between two overflows of a FIFO's timer, by timer
          CYCLES, ACCESSES   \* bounds: the last cycle, the game's stores and the host's calls

VARIABLES apu,      \* the APU of the code
          synced,   \* the cycle it has reached
          exact,    \* the APU advanced every cycle
          clock,
          due,      \* the next overflow of each timer
          owed,     \* words the DMA still has to send to each FIFO
          saved,    \* a save state: <<>> or <<[apu, exact, clock, due, owed, swept]>>
          swept,    \* channel 1's sweep has changed its frequency
          ahead,    \* the host looked while an overflow was due and had not been delivered
          fed,      \* the game itself stored to a FIFO
          lost,     \* a byte met a full FIFO
          left      \* accesses left
vars == <<apu, synced, exact, clock, due, owed, saved, swept, ahead, fed, lost, left>>

-----------------------------------------------------------------------------
(* Channels                                                                *)
Tone == 1 .. 4
Fifos == {"a", "b"}
Least(i, j) == IF i < j THEN i ELSE j
Most(i, j) == IF i > j THEN i ELSE j
Bits(n) == 2 ^ n - 1
MaxLength(c) == IF c = 3 THEN WAVE_LENGTH ELSE LENGTH
Off(c, wave) ==
  [on |-> FALSE, dac |-> FALSE, length |-> 0, lengthOn |-> FALSE, frequency |-> 0, timer |-> 0, at |-> 0, duty |-> 0,
   initial |-> 0, up |-> FALSE, period |-> 0, volume |-> 0, envelope |-> 0,
   sweep |-> [period |-> 0, negate |-> FALSE, shift |-> 0, timer |-> 0, on |-> FALSE, shadow |-> 0],
   both |-> FALSE, bank |-> 0, code |-> 0, force |-> FALSE, wave |-> wave,
   divisor |-> 0, shift |-> 0, narrow |-> FALSE, lfsr |-> IF c = 4 THEN Bits(LONG) ELSE 0]
Silence == [d \in 0 .. 2 * DIGITS - 1 |-> 0]

DUTY == <<{7}, {0, 7}, {0, 5, 6, 7}, 1 .. 6>>
WAVE_SHIFT == <<16, 1, 2, 4>>
SquareOutput(ch) == IF ch.at \in DUTY[ch.duty + 1] THEN ch.volume ELSE 0
WaveOutput(ch) ==
  LET bank  == IF ch.both THEN ch.at \div DIGITS ELSE ch.bank
      digit == ch.wave[bank * DIGITS + (ch.at % DIGITS)]
  IN IF ch.force THEN (digit * 3) \div 4 ELSE digit \div WAVE_SHIFT[ch.code + 1]
NoiseOutput(ch) == IF ch.lfsr % 2 = 0 THEN ch.volume ELSE 0
Output(c, ch) ==
  CASE ~ch.on \/ ~ch.dac -> 0
    [] c \in {1, 2} -> SquareOutput(ch)
    [] c = 3 -> WaveOutput(ch)
    [] c = 4 -> NoiseOutput(ch)

NoiseStepCycles(ch) == (IF ch.divisor = 0 THEN NOISE_CYCLES \div 2 ELSE NOISE_CYCLES * ch.divisor) * 2 ^ ch.shift
StepCycles(c, ch) == IF c = 4 THEN NoiseStepCycles(ch) ELSE (IF c = 3 THEN WAVE_CYCLES ELSE SQUARE_CYCLES) * (FREQS - ch.frequency)

Shifted(ch) ==
  LET xor  == (ch.lfsr + ch.lfsr \div 2) % 2
      next == ch.lfsr \div 2 + xor * 2 ^ (LONG - 1)
      at6  == 2 ^ (SHORT - 1)
  IN IF ch.narrow THEN next - ((next \div at6) % 2) * at6 + xor * at6 ELSE next
LfsrAfter(ch, n) == LET after[i \in 0 .. n] == IF i = 0 THEN ch.lfsr ELSE Shifted([ch EXCEPT !.lfsr = after[i - 1]]) IN after[n]

\* Steps of a channel whose timer runs for some cycles.
Steps(c, ch, cycles) == IF ch.timer > cycles THEN 0 ELSE (cycles - ch.timer) \div StepCycles(c, ch) + 1
Ran(c, ch, cycles) == [ch EXCEPT !.timer = @ - cycles + Steps(c, ch, cycles) * StepCycles(c, ch)]
ClockSquare(c, ch, cycles) == [Ran(c, ch, cycles) EXCEPT !.at = (@ + Steps(c, ch, cycles)) % 8]
ClockWave(ch, cycles) == [Ran(3, ch, cycles) EXCEPT !.at = (@ + Steps(3, ch, cycles)) % (IF ch.both THEN 2 * DIGITS ELSE DIGITS)]
ClockNoise(ch, cycles) == [Ran(4, ch, cycles) EXCEPT !.lfsr = LfsrAfter(ch, Steps(4, ch, cycles))]
ClockTimer(c, ch, cycles) ==
  CASE c \in {1, 2} -> ClockSquare(c, ch, cycles) [] c = 3 -> ClockWave(ch, cycles) [] c = 4 -> ClockNoise(ch, cycles)

SweepFrequency(ch) ==
  LET delta == ch.sweep.shadow \div 2 ^ ch.sweep.shift IN ch.sweep.shadow + (IF ch.sweep.negate THEN 0 - delta ELSE delta)

Started(c, ch) ==
  [ch EXCEPT !.on = ch.dac, !.length = IF @ = 0 THEN MaxLength(c) ELSE @, !.timer = StepCycles(c, ch),
             !.volume = ch.initial, !.envelope = ch.period]
TriggerSweep(ch) ==
  LET set == [Started(1, ch) EXCEPT !.sweep.shadow = ch.frequency, !.sweep.on = ch.sweep.period # 0 \/ ch.sweep.shift # 0,
                                    !.sweep.timer = IF ch.sweep.period = 0 THEN 8 ELSE ch.sweep.period]
  IN IF set.sweep.shift # 0 /\ SweepFrequency(set) >= FREQS THEN [set EXCEPT !.on = FALSE] ELSE set
TriggerWave(ch) == [Started(3, ch) EXCEPT !.at = 0]
TriggerNoise(ch) == [Started(4, ch) EXCEPT !.lfsr = Bits(IF ch.narrow THEN SHORT ELSE LONG)]
Trigger(c, ch) ==
  CASE c = 1 -> TriggerSweep(ch) [] c = 2 -> Started(2, ch) [] c = 3 -> TriggerWave(ch) [] c = 4 -> TriggerNoise(ch)

ClockLength(ch) ==
  IF ~ch.lengthOn \/ ch.length = 0 THEN ch
  ELSE [ch EXCEPT !.length = @ - 1, !.on = @ /\ ch.length # 1]
ClockEnvelope(ch) ==
  LET timer == Most(ch.envelope - 1, 0)
  IN IF ch.period = 0 THEN ch
     ELSE IF timer # 0 THEN [ch EXCEPT !.envelope = timer]
     ELSE [ch EXCEPT !.envelope = ch.period, !.volume = IF ch.up THEN Least(@ + 1, VOLUME) ELSE Most(@ - 1, 0)]
ClockSweep(ch) ==
  LET timer == Most(ch.sweep.timer - 1, 0)
      again == [ch EXCEPT !.sweep.timer = IF timer # 0 THEN timer ELSE IF ch.sweep.period = 0 THEN 8 ELSE ch.sweep.period]
      next  == SweepFrequency(ch)
      moved == [again EXCEPT !.frequency = next, !.sweep.shadow = next]
  IN IF timer # 0 \/ ~ch.sweep.on \/ ch.sweep.period = 0 THEN again
     ELSE IF next >= FREQS THEN [again EXCEPT !.on = FALSE]
     ELSE IF ch.sweep.shift = 0 THEN again
     ELSE [moved EXCEPT !.on = @ /\ SweepFrequency(moved) < FREQS]

-----------------------------------------------------------------------------
(* The mix, in the units of the 10-bit DAC                                 *)
RATIO == <<16, 8, 4, 4>>
Mixed(m, side) ==
  LET sum[c \in 0 .. 4] == IF c = 0 THEN 0 ELSE sum[c - 1] + (IF c \in m.routed[side] THEN Output(c, m.ch[c]) ELSE 0)
      tones   == (sum[4] * 8 * (m.loudness[side] + 1)) \div RATIO[m.ratio + 1]
      part[f \in Fifos] == IF side \notin m.fifo[f].sides THEN 0
                           ELSE (m.fifo[f].sample * 4) \div (IF m.fifo[f].full THEN 1 ELSE 2)
      level   == tones + part["a"] + part["b"]
  IN Most(0 - 512, Least(512, Most(0, Least(1023, level + m.bias)) - m.bias))
PushSample(m, sample) == [m EXCEPT !.ring = Append(IF Len(@) >= RING THEN Tail(@) ELSE @, sample)]
GenerateSample(m) == PushSample(m, IF m.master THEN <<Mixed(m, 1), Mixed(m, 2)>> ELSE <<0, 0>>)

ClockFrameSequencer(m) ==
  LET lengths == [c \in Tone |-> IF m.step % 2 = 0 THEN ClockLength(m.ch[c]) ELSE m.ch[c]]
      sweeps  == IF m.step \in {2, 6} THEN [lengths EXCEPT ![1] = ClockSweep(@)] ELSE lengths
  IN [m EXCEPT !.step = (@ + 1) % 8, !.sequencer = @ - SEQUENCER,
               !.ch = IF m.step # 7 THEN sweeps ELSE [c \in Tone |-> IF c = 3 THEN sweeps[c] ELSE ClockEnvelope(sweeps[c])]]

\* One slice, which ends on a sample boundary at the latest.
Slice(m, cycles) ==
  LET clocked == [m EXCEPT !.ch = [c \in Tone |-> ClockTimer(c, m.ch[c], cycles)], !.sequencer = @ + cycles]
      steps   == clocked.sequencer \div SEQUENCER
      after[i \in 0 .. steps] == IF i = 0 THEN clocked ELSE ClockFrameSequencer(after[i - 1])
      run     == IF m.master THEN after[steps] ELSE m
      timed   == [run EXCEPT !.timer = @ + cycles]
  IN IF timed.timer < SAMPLE THEN timed ELSE GenerateSample([timed EXCEPT !.timer = @ - SAMPLE])
Advance(m, cycles) ==
  LET first == Least(cycles, SAMPLE - m.timer)
      rest  == cycles - first
      n     == (rest + SAMPLE - 1) \div SAMPLE
      after[i \in 0 .. n] == IF i = 0 THEN Slice(m, first) ELSE Slice(after[i - 1], Least(SAMPLE, rest - (i - 1) * SAMPLE))
  IN IF cycles = 0 THEN m ELSE after[n]
SyncTo(cycle) == IF cycle > synced THEN Advance(apu, cycle - synced) ELSE apu

-----------------------------------------------------------------------------
(* Registers                                                               *)
DacOn(ch, on) == [ch EXCEPT !.dac = on, !.on = @ /\ on]
ResetFifo(f) == [f EXCEPT !.bytes = <<>>, !.sample = 0]
SoundcntX(m, on) ==
  IF m.master /\ ~on
  THEN [m EXCEPT !.master = FALSE, !.ch = [c \in Tone |-> Off(c, m.ch[c].wave)],
                 !.loudness = <<0, 0>>, !.routed = <<{}, {}>>]
  ELSE [m EXCEPT !.master = on]
SetWave(ch, register, v) ==
  CASE register = "wave"   -> DacOn([ch EXCEPT !.both = v.both, !.bank = v.bank], v.play)
    [] register = "length" -> [ch EXCEPT !.length = WAVE_LENGTH - v.length]
    [] register = "volume" -> [ch EXCEPT !.code = v.code, !.force = v.force]
SetNoise(ch, register, v) ==
  IF register = "noise" THEN [ch EXCEPT !.divisor = v.divisor, !.shift = v.shift, !.narrow = v.narrow]
  ELSE [ch EXCEPT !.length = LENGTH - v.length]
SetSquare(ch, register, v) ==
  IF register = "sweep" THEN [ch EXCEPT !.sweep.period = v.period, !.sweep.negate = v.negate, !.sweep.shift = v.shift]
  ELSE [ch EXCEPT !.length = LENGTH - v.length, !.duty = v.duty]
SetEnvelope(ch, v) == DacOn([ch EXCEPT !.initial = v.volume, !.up = v.up, !.period = v.period], v.volume # 0 \/ v.up)
SetControl(c, ch, v) ==
  LET set == [ch EXCEPT !.lengthOn = v.lengthOn] IN IF v.restart THEN Trigger(c, set) ELSE set
SetChannel(m, r, v) ==
  LET ch == m.ch[r[2]]
      new == CASE r[1] = "envelope"  -> SetEnvelope(ch, v)
               [] r[1] = "frequency" -> [ch EXCEPT !.frequency = v]
               [] r[1] = "control"   -> SetControl(r[2], ch, v)
               [] r[2] \in {1, 2}    -> SetSquare(ch, r[1], v)
               [] r[2] = 3           -> SetWave(ch, r[1], v)
               [] OTHER              -> SetNoise(ch, r[1], v)
  IN [m EXCEPT !.ch[r[2]] = new]
SoundcntH(m, v) ==
  [m EXCEPT !.ratio = v.ratio,
            !.fifo = [f \in Fifos |-> LET set == [m.fifo[f] EXCEPT !.full = v[f].full, !.sides = v[f].sides, !.select = v[f].select]
                                      IN IF v[f].reset THEN ResetFifo(set) ELSE set]]
WriteWaveRam(m, digit, v) == [m EXCEPT !.ch[3].wave[(1 - m.ch[3].bank) * DIGITS + digit] = v]
\* A store of any width sets part of the latch, and the whole latch joins the queue.
Latched(f, from, bytes) == [i \in 1 .. 4 |-> IF i > from /\ i <= from + Len(bytes) THEN bytes[i - from] ELSE f.latch[i]]
WriteFifo(f, from, bytes) ==
  LET latch == Latched(f, from, bytes)
  IN [f EXCEPT !.latch = latch, !.bytes = SubSeq(@ \o latch, 1, Least(FIFO, Len(@) + 4))]
Overfills(f) == Len(f.bytes) + 4 > FIFO

Held == {"sweep", "length", "envelope", "volume", "wave", "noise", "frequency", "control", "soundcntL"}
Written(m, r, v) ==
  CASE r[1] \in Held /\ ~m.master -> m
    [] r[1] = "soundcntL" -> [m EXCEPT !.loudness = v.loudness, !.routed = v.routed]
    [] r[1] = "soundcntH" -> SoundcntH(m, v)
    [] r[1] = "soundcntX" -> SoundcntX(m, v)
    [] r[1] = "soundbias" -> [m EXCEPT !.bias = v]
    [] r[1] = "waveRam" -> WriteWaveRam(m, r[2], v)
    [] r[1] = "fifo" -> [m EXCEPT !.fifo[r[2]] = WriteFifo(@, v.from, v.bytes)]
    [] OTHER -> SetChannel(m, r, v)

PopSample(f) == [f EXCEPT !.sample = IF f.bytes = <<>> THEN 0 ELSE Head(f.bytes), !.bytes = IF @ = <<>> THEN @ ELSE Tail(@)]
Popped(m, t) == [m EXCEPT !.fifo = [f \in Fifos |-> IF m.fifo[f].select = t THEN PopSample(m.fifo[f]) ELSE m.fifo[f]]]
\* Mutant: it asks while a byte too many is left.
NeedsRefillEarly(m, f) == Len(m.fifo[f].bytes) <= (3 * FIFO) \div 4
NeedsRefill(m, f) == Len(m.fifo[f].bytes) <= REFILL

-----------------------------------------------------------------------------
PoweredOn ==
  [ch |-> [c \in Tone |-> Off(c, Silence)], sequencer |-> 0, step |-> 0, timer |-> 0, ring |-> <<>>,
   fifo |-> [f \in Fifos |-> [bytes |-> <<>>, latch |-> <<0, 0, 0, 0>>, sample |-> 0, full |-> FALSE, sides |-> {}, select |-> 0]],
   loudness |-> <<0, 0>>, routed |-> <<{}, {}>>, ratio |-> 0, master |-> FALSE, bias |-> 512]
Init ==
  /\ apu = PoweredOn /\ exact = PoweredOn
  /\ synced = 0 /\ clock = 0
  /\ due = PERIOD /\ owed = [f \in Fifos |-> 0]
  /\ saved = <<>> /\ swept = FALSE /\ ahead = FALSE /\ fed = FALSE /\ lost = FALSE /\ left = ACCESSES

Overdue == \E t \in {0, 1} : due[t] <= clock
\* The CPU runs once the events due have fired and the DMA has let go of the bus.
CpuRuns == ~Overdue /\ \A f \in Fifos : owed[f] = 0
\* The exact APU takes one cycle at a time, and a sample is popped on its own cycle.
Cycle ==
  /\ clock < CYCLES
  /\ clock' = clock + 1
  /\ exact' = LET next == Advance(exact, 1)
                  first == IF due[0] = clock + 1 THEN Popped(next, 0) ELSE next
              IN IF due[1] = clock + 1 THEN Popped(first, 1) ELSE first
  /\ \A t \in {0, 1} : due[t] > clock   \* an instruction or a DMA unit ends where an event is due
  /\ swept' = (swept \/ exact'.ch[1].sweep.shadow # exact.ch[1].sweep.shadow)
  /\ UNCHANGED <<apu, synced, due, owed, saved, ahead, fed, lost, left>>

\* A register access brings the APU up to the clock first; a FIFO word does not.
\* Mutant: the store lands on the APU as it was last looked at.
TouchesUnsynced(stores) == FALSE
Touches(stores) == \E i \in DOMAIN stores : stores[i][1][1] # "fifo" \/ Len(stores[i][2].bytes) < 4
Stored(m, stores) == FoldLeft(LAMBDA n, store : Written(n, store[1], store[2]), m, stores)
WriteRegisters(stores) ==
  /\ CpuRuns /\ left > 0 /\ left' = left - 1
  /\ apu' = Stored(IF Touches(stores) THEN SyncTo(clock) ELSE apu, stores)
  /\ synced' = IF Touches(stores) THEN Most(synced, clock) ELSE synced
  /\ exact' = Stored(exact, stores)
  /\ LET queued == {i \in DOMAIN stores : stores[i][1][1] = "fifo"}
     IN /\ fed' = (fed \/ queued # {})
        /\ lost' = (lost \/ \E i \in queued : Overfills(apu.fifo[stores[i][1][2]]))
  /\ UNCHANGED <<clock, due, owed, saved, swept, ahead>>
ReadRegister(r) ==
  /\ r \in READS /\ CpuRuns /\ synced < clock
  /\ apu' = SyncTo(clock) /\ synced' = clock
  /\ UNCHANGED <<exact, clock, due, owed, saved, swept, ahead, fed, lost, left>>

\* A timer of the FIFOs overflows; the APU runs up to that cycle and no further.
Overflow(t) ==
  /\ due[t] <= clock
  /\ \A other \in {0, 1} : due[t] < due[other] \/ (due[t] = due[other] /\ t <= other)
  /\ apu' = Popped(SyncTo(due[t]), t)
  /\ synced' = Most(synced, due[t])
  /\ due' = [due EXCEPT ![t] = @ + PERIOD[t]]
  /\ owed' = [f \in Fifos |-> IF apu.fifo[f].select = t /\ NeedsRefill(apu', f) /\ owed[f] = 0 THEN BURST ELSE owed[f]]
  /\ UNCHANGED <<exact, clock, saved, swept, ahead, fed, lost, left>>
Refill(f) ==
  /\ owed[f] > 0 /\ ~Overdue
  /\ LET word == <<1, 2, 0 - 2, 0 - 1>>
     IN /\ apu' = [apu EXCEPT !.fifo[f] = WriteFifo(@, 0, word)]
        /\ exact' = [exact EXCEPT !.fifo[f] = WriteFifo(@, 0, word)]
  /\ owed' = [owed EXCEPT ![f] = @ - 1]
  /\ lost' = (lost \/ Overfills(apu.fifo[f]))
  /\ UNCHANGED <<synced, clock, due, saved, swept, ahead, fed, left>>

\* The host asks between two instructions, when an overflow may be due already.
ReadSamples ==
  /\ left > 0 /\ left' = left - 1
  /\ apu' = [SyncTo(clock) EXCEPT !.ring = <<>>] /\ synced' = clock
  /\ exact' = [exact EXCEPT !.ring = <<>>]
  /\ ahead' = (ahead \/ Overdue)
  /\ UNCHANGED <<clock, due, owed, saved, swept, fed, lost>>
Serialize ==
  /\ saved = <<>> /\ left > 0 /\ left' = left - 1
  /\ apu' = SyncTo(clock) /\ synced' = clock
  /\ ahead' = (ahead \/ Overdue)
  /\ saved' = <<[apu |-> [apu' EXCEPT !.ring = <<>>], exact |-> [exact EXCEPT !.ring = <<>>], clock |-> clock,
                 due |-> due, owed |-> owed, swept |-> swept]>>
  /\ UNCHANGED <<exact, clock, due, owed, swept, fed, lost>>
Deserialize ==
  /\ saved # <<>> /\ left > 0 /\ left' = left - 1
  /\ apu' = saved[1].apu /\ exact' = saved[1].exact
  /\ clock' = saved[1].clock /\ synced' = saved[1].clock
  /\ due' = saved[1].due /\ owed' = saved[1].owed /\ swept' = saved[1].swept
  /\ UNCHANGED <<saved, ahead, fed, lost>>

Next ==
  \/ Cycle
  \/ \E stores \in WRITES : WriteRegisters(stores)
  \/ \E r \in READS : ReadRegister(r)
  \/ \E t \in {0, 1} : Overflow(t)
  \/ \E f \in Fifos : Refill(f)
  \/ ReadSamples \/ Serialize \/ Deserialize

-----------------------------------------------------------------------------
Caught == SyncTo(clock)
Quiet(m) == [m EXCEPT !.ring = <<>>]
\* The APU that catches up when it is looked at is the APU advanced on every
\* cycle: its registers, channels and FIFOs always, and the samples it hands
\* over too, whatever the game, the timers, the host and the save states ask
\* and when.  Two cases are left out: a sweep that changed the frequency in the
\* middle of a slice, and samples heard by a host that looked past an overflow.
CatchesUpExactly ==
  (~swept /\ ~Overdue) => IF ahead THEN Quiet(Caught) = Quiet(exact) ELSE Caught = exact

\* A FIFO that only the DMA feeds never drops a byte: it asks for a burst when
\* the burst fits, and overflows while one is under way do not ask for another.
RefillsFit == ~fed => ~lost
=============================================================================
