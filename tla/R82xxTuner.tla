----------------------------- MODULE R82xxTuner -----------------------------
(***************************************************************************)
(* The R820T and R828D tuners in the vendored driver (tuner_r82xx.c): an    *)
(* operation is a list of I2C transactions, masked writes of a register or  *)
(* reads.  The driver keeps a copy of the registers, stores a value there   *)
(* before it sends it, and computes the bits a masked write leaves alone    *)
(* from the copy.  The first transaction that fails ends the operation.     *)
(* r820t_set_bw and rtlsdr_set_center_freq of librtlsdr.c are part of it.   *)
(*                                                                          *)
(* What a read returns is the environment's choice: the fine tuning of the  *)
(* VCO, whether the PLL locks, the code of the filter calibration.          *)
(* Frequencies are in kHz, between those the PLL reaches and above those    *)
(* that need direct sampling.                                               *)
(***************************************************************************)
EXTENDS Integers, SequencesExt, Bitwise

CONSTANTS Dongles,     \* a set of [chip, model, xtal]: the tuner, the
                       \* dongle around it and its crystal
          Frequencies, Bandwidths, Gains, StageSteps, \* what may be asked for
          Answers,     \* what the tuner may answer: [fine, lock, code]
          FailingAt,   \* the transactions of an operation that may fail; 0: none
          MaxOps,      \* bound: operations after the initialisation
          MaxFailed    \* bound: operations with a failing transaction

ASSUME R82xxAssumption ==
  /\ \A f \in Frequencies : f \in 24000..1760000
  /\ Bandwidths \subseteq Nat /\ FailingAt \subseteq Nat /\ {MaxOps, MaxFailed} \subseteq Nat

VARIABLES dongle,  \* the one that is plugged in
          tuner,   \* see Powered
          wanted,  \* history: the gain steps last asked for, the frequency
          ops, failed \* bounds

r82xxVars == <<dongle, tuner, wanted, ops, failed>>

Registers == 5..31

\* r82xx_init_array
InitArray ==
  <<131, 48, 117, 192, 64, 214, 108, 245, 99, 117, 104, 108, 131, 128, 0, 15, 0, 192, 48,
    72, 204, 96, 0, 84, 174, 74, 192>>
InitByte == [r \in Registers |-> InitArray[r - 4]]

\* cache, regs of struct r82xx_priv; chip, the tuner's own registers.
Powered ==
  [cache |-> [r \in Registers |-> 0], chip |-> [r \in Registers |-> 0], locked |-> FALSE,
   if |-> 0, input |-> 0, freq |-> 0, ok |-> FALSE, calls |-> 0, failAt |-> 0]

InitR82xx ==
  /\ dongle \in Dongles /\ tuner = Powered
  /\ wanted = [lna |-> -1, mixer |-> -1, vga |-> -1, tuned |-> FALSE, bw |-> 0]
  /\ ops = -1 /\ failed = 0

-----------------------------------------------------------------------------
(* Transactions *)

Masked(reg, val, mask) == [reg |-> reg, val |-> val, mask |-> mask]
Whole(reg, val) == Masked(reg, val, 255)
Other == Masked(0, 0, 0)   \* a read, a GPIO or a register of the demodulator

\* Mutant: the bits a masked write leaves alone are taken as 0.
MixedAlone(old, val, mask) == val & mask
Mixed(old, val, mask) == (old & (255 - mask)) + (val & mask)

Transact(t, w) ==
  LET fails == t.calls + 1 = t.failAt
      byte == IF w = Other THEN 0 ELSE Mixed(t.cache[w.reg], w.val, w.mask)
      sent == [t EXCEPT !.calls = @ + 1, !.ok = ~fails]
  IN  CASE ~t.ok -> t
        [] t.ok /\ w = Other -> sent
        [] t.ok /\ w # Other /\ fails -> [sent EXCEPT !.cache[w.reg] = byte]
        [] OTHER -> [sent EXCEPT !.cache[w.reg] = byte, !.chip[w.reg] = byte]

Run(t, writes) == FoldLeft(Transact, t, writes)
Fresh82(t, failAt) == [t EXCEPT !.ok = TRUE, !.calls = 0, !.failAt = failAt]
Rejects(t) == [t EXCEPT !.ok = FALSE]

-----------------------------------------------------------------------------
(* Tuning *)

\* freq_ranges: the start in MHz, open_d, rf_mux_ploy and tf_c.
FreqRanges ==
  << <<0, 8, 2, 223>>, <<50, 8, 2, 190>>, <<55, 8, 2, 139>>, <<60, 8, 2, 123>>,
     <<65, 8, 2, 105>>, <<70, 8, 2, 88>>, <<75, 0, 2, 68>>, <<80, 0, 2, 68>>, <<90, 0, 2, 52>>,
     <<100, 0, 2, 52>>, <<110, 0, 2, 36>>, <<120, 0, 2, 36>>, <<140, 0, 2, 20>>,
     <<180, 0, 2, 19>>, <<220, 0, 2, 19>>, <<250, 0, 2, 17>>, <<280, 0, 2, 0>>,
     <<310, 0, 65, 0>>, <<450, 0, 65, 0>>, <<588, 0, 64, 0>>, <<650, 0, 64, 0>> >>

\* The crystal's capacitors are those of XTAL_HIGH_CAP_0P, 0 in every range.
SetMux(lo) ==
  LET i == CHOOSE i \in DOMAIN FreqRanges :
             /\ i = 1 \/ lo \div 1000 >= FreqRanges[i][1]
             /\ i = Len(FreqRanges) \/ lo \div 1000 < FreqRanges[i + 1][1]
      range == FreqRanges[i]
  IN  << Masked(23, range[2], 8), Masked(26, range[3], 195), Whole(27, range[4]),
         Masked(16, 0, 11), Masked(8, 0, 63), Masked(9, 0, 63) >>

SetVga8 == << Masked(12, 8, 159) >>

VcoMin == 1770000
Dividers == {2, 4, 8, 16, 32, 64}
InVco(vco) == vco \in VcoMin..(2 * VcoMin - 1)
MixDiv(lo) ==
  IF \E m \in Dividers : InVco(lo * m) THEN CHOOSE m \in Dividers : InVco(lo * m) ELSE 128
DivNum(lo) == IF MixDiv(lo) = 128 THEN 0 ELSE CHOOSE n \in 0..5 : MixDiv(lo) = 2^(n + 1)

PowerRef == IF dongle.chip = "R828D" \/ dongle.model = "V4L" THEN 1 ELSE 2

\* uint8_t arithmetic: below 0 comes 255.
FineDivider(lo, fine) ==
  CASE fine > PowerRef -> (DivNum(lo) - 1) % 256
    [] fine < PowerRef -> DivNum(lo) + 1
    [] fine = PowerRef -> DivNum(lo)

\* The sigma-delta modulator's share of the VCO, one bit after the other.
RECURSIVE Sdm(_, _)
Sdm(fra, n) ==
  LET weight == (2 * dongle.xtal) \div n
  IN  CASE fra <= 1 -> 0
        [] fra > 1 /\ fra <= weight -> Sdm(fra, 2 * n)
        [] fra > 1 /\ fra > weight ->
             32768 \div (n \div 2) + IF n >= 32768 THEN 0 ELSE Sdm(fra - weight, 2 * n)

PllOff == << Masked(16, 0, 16), Masked(26, 0, 12), Masked(18, 6, 255), Other >>

\* The counters of a VCO that is nint and fra twice the crystal.
PllCounters(nint, fra, sdm, lock) ==
  << Whole(20, (nint - 13) \div 4 + 64 * ((nint - 13) % 4)), Masked(18, IF fra = 0 THEN 8 ELSE 0, 8),
     Whole(22, sdm \div 256), Whole(21, sdm % 256), Other >>
  \o IF lock = "first" THEN <<>> ELSE << Masked(18, 6, 255), Other >>

\* A PLL that does not lock is a success without a lock.
PllLocked(t, lock) ==
  IF lock = "never" THEN [t EXCEPT !.locked = ~t.ok /\ @]
  ELSE Run([t EXCEPT !.locked = t.ok \/ @], << Masked(26, 8, 8) >>)
PllCounted(t, nint, fra, lock) ==
  IF nint > 128 \div PowerRef - 1 THEN Rejects(t)
  ELSE PllLocked(Run(t, PllCounters(nint, fra, Sdm(fra, 2), lock)), lock)

\* r82xx_set_pll
SetPll(t, lo, answer) ==
  LET vco == lo * MixDiv(lo)
      divider == (FineDivider(lo, answer.fine) * 32) % 256
  IN  PllCounted(Run(t, PllOff \o << Masked(16, divider, 224) >>),
                 vco \div (2 * dongle.xtal), vco % (2 * dongle.xtal), answer.lock)

IsHf(khz) == khz <= 28800
Upconverted(khz) == IF dongle.model \in {"V4", "V4L"} /\ khz < 28800 THEN khz + 28800 ELSE khz

\* The notch filters are off within the notch bands.
Notch(khz) == khz <= 2200 \/ khz \in 85000..112000 \/ khz \in 172000..242000
BypassHf(khz) == IF IsHf(khz) THEN << Masked(26, 64, 195), Whole(27, 0) >> ELSE <<>>

BandV4(khz) == IF IsHf(khz) THEN 1 ELSE IF khz < 250000 THEN 2 ELSE 3
BandV4L(khz) == IF IsHf(khz) THEN 1 ELSE 3

\* The input is noted as switched before the writes that switch it.
Switch(t, input, writes) ==
  IF ~t.ok \/ t.input = input THEN t ELSE Run([t EXCEPT !.input = input], writes)

SelectInput(t, khz) ==
  CASE dongle.model = "V4" ->
         LET band == BandV4(khz)
         IN  Switch(Run(t, << Masked(23, IF Notch(khz) THEN 0 ELSE 8, 8) >> \o BypassHf(khz)), band,
                    << Masked(6, IF band = 1 THEN 8 ELSE 0, 8), Other,
                       Masked(5, IF band = 2 THEN 64 ELSE 0, 64),
                       Masked(5, IF band = 3 THEN 0 ELSE 32, 32) >>)
    [] dongle.model = "V4L" ->
         LET band == BandV4L(khz)
         IN  Switch(Run(t, BypassHf(khz)), band,
                    << Other, Masked(5, IF band = 1 THEN 64 ELSE 0, 64),
                       Masked(5, IF band = 3 THEN 0 ELSE 32, 32) >>)
    [] dongle.model = "plain" /\ dongle.chip = "R828D" ->
         LET air == IF khz > 345000 THEN 0 ELSE 96 IN Switch(t, air, << Masked(5, air, 96) >>)
    [] OTHER -> t

SelectInputOf(t, khz) == IF t.ok /\ t.locked THEN SelectInput(t, khz) ELSE t
TunerSetFreq(t, khz, answer) ==
  LET lo == Upconverted(khz) + t.if
  IN  SelectInputOf(SetPll(Run(t, SetMux(lo) \o SetVga8), lo, answer), khz)

\* rtlsdr_set_center_freq
FreqNoted(t, khz) == [t EXCEPT !.freq = IF t.ok THEN khz ELSE 0]
SetCenterFreq(t, khz, answer) == FreqNoted(TunerSetFreq(t, khz, answer), khz)

-----------------------------------------------------------------------------
(* The filter of the intermediate frequency *)

LowPass == <<1700, 1600, 1550, 1450, 1200, 900, 700, 550, 450, 350>>
HighPass1 == 350
HighPass2 == 380

\* The last filter that is not narrower.
LowPassPlace(bw) == CHOOSE i \in 1..10 : bw <= LowPass[i] /\ (i = 10 \/ bw > LowPass[i + 1])

\* r82xx_set_bandwidth: two register values and the intermediate frequency.
Filter(bw) ==
  LET over2 == bw > LowPass[1] + HighPass1
      bw2 == IF over2 THEN bw - HighPass2 ELSE bw
      over1 == bw2 > LowPass[1]
      i == LowPassPlace(IF over1 THEN bw2 - HighPass1 ELSE bw2)
      high == (IF over2 THEN HighPass2 ELSE 0) + (IF over1 THEN HighPass1 ELSE 0)
  IN  CASE bw > 7000 -> [a |-> 16, b |-> 11, if |-> 4570]
        [] bw \in 6001..7000 -> [a |-> 16, b |-> 42, if |-> 4570]
        [] bw \in 2431..6000 -> [a |-> 16, b |-> 107, if |-> 3570]
        [] OTHER -> [a |-> 0, b |-> 128 + (IF over2 THEN 0 ELSE 32) + (IF over1 THEN 0 ELSE 64) + 16 - i,
                     if |-> 2300 + high - (high + LowPass[i]) \div 2]

FilterSet(t, bw) ==
  LET filter == Filter(bw)
  IN  Run([t EXCEPT !.if = filter.if],
          << Masked(10, filter.a, 16), Masked(11, filter.b, 239), Other, Other, Other >>)

\* r820t_set_bw: the filter, the demodulator's intermediate frequency, and the
\* tuner is tuned again.
TunedAgain(t, answer) == IF t.ok THEN SetCenterFreq(t, t.freq, answer) ELSE t
SetBandwidth(t, bw, answer) == TunedAgain(FilterSet(t, bw), answer)

-----------------------------------------------------------------------------
(* The gain *)

LnaGains == <<9, 13, 40, 38, 13, 31, 22, 26, 31, 26, 14, 19, 5, 35, 13>>
MixerGains == <<5, 10, 10, 19, 9, 10, 25, 17, 10, 8, 16, 13, 6, 3, -8>>

\* The LNA and the mixer take turns until the sum reaches the gain.
RECURSIVE TakeTurns(_, _, _, _)
TakeTurns(gain, total, lna, mixer) ==
  CASE total >= gain \/ lna = 15 -> <<lna, mixer>>
    [] total < gain /\ lna < 15 ->
         LET half == total + LnaGains[lna + 1]
         IN  IF half >= gain THEN <<lna + 1, mixer>>
             ELSE TakeTurns(gain, half + MixerGains[mixer + 1], lna + 1, mixer + 1)

ManualGain(gain) ==
  LET steps == TakeTurns(gain, 0, 0, 0)
  IN  << Masked(5, 16, 16), Masked(7, 0, 16), Other >> \o SetVga8
        \o << Masked(5, steps[1], 15), Masked(7, steps[2], 15) >>

\* r82xx_set_lna_gain, _mixer_gain and _vga_gain_new.
StageGain(stage, step) ==
  CASE stage = "lna" -> << Masked(5, 16, 16), Masked(5, step, 15) >>
    [] stage = "mixer" -> << Masked(7, 0, 16), Masked(7, step, 15) >>
    [] stage = "vga" -> << Masked(12, step, 159) >>

-----------------------------------------------------------------------------
(* Initialisation and standby *)

\* All registers in messages of seven bytes; nobody looks at the result.
WriteArray(t) ==
  LET sent == IF t.failAt \in 1..4 THEN t.failAt - 1 ELSE 4
  IN  [t EXCEPT !.cache = InitByte, !.calls = 4,
                !.chip = [r \in Registers |-> IF r < 5 + 7 * sent THEN InitByte[r] ELSE t.chip[r]]]

CodeRead(t) ==
  IF t.ok /\ t.locked THEN Run(t, << Masked(11, 16, 16), Masked(11, 0, 16), Masked(15, 0, 4), Other >>)
  ELSE t
Calibrate(t, answer) ==
  CodeRead(SetPll(Run(t, << Masked(11, 107, 96), Masked(15, 4, 4), Masked(16, 0, 3) >>), 56000, answer))

\* A second time when the first gave no code; the widest code means none.
CalibrateAgain(t, answer) ==
  IF t.ok /\ t.locked /\ answer.code \in {0, 15} THEN Calibrate(t, answer) ELSE t
FilterCode(code) == IF code = 15 THEN 0 ELSE code
StandardSet(t, code) ==
  IF t.ok /\ t.locked
  THEN Run(t, << Masked(10, 16 + FilterCode(code), 31), Masked(11, 107, 239), Masked(7, 0, 128),
                 Masked(6, 48, 48), Masked(30, 96, 96), Masked(5, 128, 128), Masked(31, 0, 128),
                 Masked(15, 0, 128), Masked(25, 96, 96) >>)
  ELSE t
SetStandard(t, answer) ==
  LET begun == Run([t EXCEPT !.cache = InitByte, !.if = 3570],
                   << Masked(12, 0, 15), Masked(19, 49, 63), Masked(29, 0, 56) >>)
  IN  StandardSet(CalibrateAgain(Calibrate(begun, answer), answer), answer.code)

\* r82xx_sysfreq_sel for DVB-T.
SelectSystem(t) ==
  LET first == Run(t, << Masked(29, 229, 199), Masked(28, 36, 248), Whole(13, 83), Whole(14, 117) >>)
  IN  Run([first EXCEPT !.input = IF first.ok THEN 0 ELSE @],
          << Masked(5, 0, 96), Masked(6, 0, 8), Masked(17, 56, 56), Masked(23, 160, 48),
             Masked(10, 64, 96), Masked(29, 0, 56), Masked(28, 0, 4), Masked(6, 0, 64),
             Masked(26, 48, 48), Masked(29, 24, 56), Masked(28, 36, 4), Masked(30, 14, 31),
             Masked(26, 32, 48) >>)

\* A new struct r82xx_priv for a tuner that keeps its registers.
Initialise(t, answer) ==
  LET blank == [Powered EXCEPT !.chip = t.chip, !.ok = TRUE, !.failAt = t.failAt]
  IN  SelectSystem(SetStandard(WriteArray(blank), answer))

StandbyWrites ==
  << Whole(6, 177), Whole(5, 160), Whole(7, 58), Whole(8, 64), Whole(9, 192), Whole(10, 54),
     Whole(12, 53), Whole(15, 104), Whole(17, 3), Whole(23, 244), Whole(25, 12) >>

-----------------------------------------------------------------------------
(* What the device asks for *)

Operate(outcome) ==
  /\ tuner' = outcome
  /\ failed' = IF outcome.ok THEN failed ELSE failed + 1
  /\ UNCHANGED dongle

MayFail(n) == n > 0 => failed < MaxFailed
Counts == ops \in 0..(MaxOps - 1) /\ ops' = ops + 1
Unsure == [lna |-> -1, mixer |-> -1, vga |-> -1, tuned |-> FALSE, bw |-> 0]

OpenTuner(answer, n) ==
  /\ ops = -1 /\ ops' = 0 /\ MayFail(n)
  /\ Operate(Initialise(Fresh82(tuner, n), answer))
  /\ wanted' = Unsure

\* A retune puts the VGA back.
Retuned(answer) ==
  [wanted EXCEPT !.vga = IF tuner'.ok THEN 8 ELSE -1,
                 !.tuned = tuner'.ok /\ tuner'.locked /\ answer.fine = PowerRef]

Tune(khz, answer, n) ==
  /\ Counts /\ MayFail(n)
  /\ Operate(SetCenterFreq(Fresh82(tuner, n), khz, answer))
  /\ wanted' = Retuned(answer)

\* Not after a tuning that failed, for that forgets the frequency.
Bandwidth(bw, answer, n) ==
  /\ Counts /\ MayFail(n) /\ tuner.freq # 0
  /\ Operate(SetBandwidth(Fresh82(tuner, n), bw, answer))
  /\ wanted' = [Retuned(answer) EXCEPT !.bw = IF tuner'.ok THEN bw ELSE 0]

SetGain(gain, n) ==
  /\ Counts /\ MayFail(n)
  /\ Operate(Run(Fresh82(tuner, n), ManualGain(gain)))
  /\ LET steps == TakeTurns(gain, 0, 0, 0)
     IN  wanted' = IF tuner'.ok
                   THEN [wanted EXCEPT !.lna = steps[1], !.mixer = steps[2], !.vga = 8]
                   ELSE [wanted EXCEPT !.lna = -1, !.mixer = -1, !.vga = -1]

SetStage(stage, step, n) ==
  /\ Counts /\ MayFail(n)
  /\ Operate(Run(Fresh82(tuner, n), StageGain(stage, step)))
  /\ wanted' = [wanted EXCEPT ![stage] = IF tuner'.ok THEN step ELSE -1]

\* The device is closed and opened again.
Standby(n) ==
  /\ Counts /\ MayFail(n)
  /\ Operate(Run(Fresh82(tuner, n), StandbyWrites))
  /\ wanted' = Unsure
Reopen(answer, n) ==
  /\ Counts /\ MayFail(n)
  /\ Operate(Initialise(Fresh82(tuner, n), answer))
  /\ wanted' = Unsure

NextR82xx ==
  \E n \in FailingAt :
    \/ \E answer \in Answers :
         \/ OpenTuner(answer, n) \/ Reopen(answer, n)
         \/ \E khz \in Frequencies : Tune(khz, answer, n)
         \/ \E bw \in Bandwidths : Bandwidth(bw, answer, n)
    \/ \E gain \in Gains : SetGain(gain, n)
    \/ \E step \in StageSteps, stage \in {"lna", "mixer", "vga"} : SetStage(stage, step, n)
    \/ Standby(n)

-----------------------------------------------------------------------------
(* Properties *)

\* The VCO the registers of the tuner ask for, in kHz.
VcoOf(chip) ==
  LET nint == 4 * (chip[20] % 64) + chip[20] \div 64 + 13
      sdm == 256 * chip[22] + chip[21]
  IN  2 * dongle.xtal * nint + (dongle.xtal * (sdm \div 2)) \div 16384
DividerOf(chip) == 2^(chip[16] \div 32 + 1)

\* After a retune that succeeded, locked and found the fine tuning in its
\* middle, whatever failed before it, the tuner's registers give the frequency
\* asked for with the intermediate frequency of the filter in force, up to the
\* rounding of the modulator.
TunedWhereAsked ==
  wanted.tuned =>
    LET lo == Upconverted(tuner.freq) + tuner.if
        off == VcoOf(tuner.chip) - DividerOf(tuner.chip) * lo
    IN  DividerOf(tuner.chip) = MixDiv(lo) /\ off \in -16..16

\* No retune, input switch or failure in between disturbs a gain that was set:
\* the LNA and the mixer keep their steps, the VGA its own or the fixed one.
GainsOnChip ==
  /\ wanted.lna >= 0 => tuner.chip[5] % 16 = wanted.lna
  /\ wanted.mixer >= 0 => tuner.chip[7] % 16 = wanted.mixer
  /\ wanted.vga >= 0 => tuner.chip[12] % 16 = wanted.vga

\* The filter lets the bandwidth through that was asked for.
FilterPasses ==
  wanted.bw \in 1..2430 =>
    LET b == tuner.chip[11]
    IN  /\ LowPass[16 - (b % 16)] + (IF (b & 32) = 0 THEN HighPass2 ELSE 0)
             + (IF (b & 64) = 0 THEN HighPass1 ELSE 0) >= wanted.bw
        /\ tuner.chip[10] & 16 = 0

\* What a call that succeeded set stays set in the chip until another call
\* sets it, whatever fails or is switched in between: the frequency, the gains
\* and the filter (tuner_r82xx.c:428-1440).
SettingsHold == TunedWhereAsked /\ GainsOnChip /\ FilterPasses
=============================================================================
