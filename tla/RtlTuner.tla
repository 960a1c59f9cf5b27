------------------------------ MODULE RtlTuner ------------------------------
(***************************************************************************)
(* The settings of an RTL-SDR dongle: what RtlSdrDevice remembers of them   *)
(* (its shadow), what the vendored driver wrote to the tuner (the chip) and *)
(* the history the configuration report prints.  A device is one record;    *)
(* each setter maps it to the next one.  All setters run under              *)
(* m_controlMutex, so an operation is a step.                               *)
(*                                                                          *)
(* A gain is a place in the driver's table; an agc, bias tee or offset      *)
(* setting is TRUE or FALSE, everything else a number.  The calls in        *)
(* faults.failing fail; faults.partial says whether they fail after they    *)
(* wrote.                                                                   *)
(***************************************************************************)
EXTENDS Absent, Integers, Sequences, FiniteSets

CONSTANTS Table,      \* the driver's gains, in tenths of a dB, ascending
          LnaSteps,   \* gain of each LNA step above the one before it
          MixerSteps, \* the same for the mixer
          VgaLinear,  \* 8: the VGA step of the combined gain
          VgaTop,     \* 15: the last step of a stage
          IsR82xx     \* the tuner is an R820T or R828D

ASSUME TunerAssumption ==
  /\ Table \in Seq(Nat) /\ Len(Table) > 0
  /\ {LnaSteps, MixerSteps} \subseteq Seq(Int) /\ Len(LnaSteps) = Len(MixerSteps)
  /\ VgaLinear \in Nat /\ VgaTop \in Nat /\ VgaLinear < VgaTop
  /\ IsR82xx \in BOOLEAN /\ None \notin Int

Stages == {"lna_gain", "mixer_gain", "vga_gain"}
Top == Len(Table)

\* The LNA and the mixer take turns until the sum reaches the gain: the steps
\* each has after n turns, and the gain they add up to.
Turns == 0..2 * Len(LnaSteps)
StepsAfter(n) == <<(n + 1) \div 2, n \div 2>>
GainAfter[n \in Turns] ==
  IF n = 0 THEN 0
  ELSE GainAfter[n - 1] + IF n % 2 = 1 THEN LnaSteps[(n + 1) \div 2] ELSE MixerSteps[n \div 2]

Reaches(gain) == {n \in Turns : GainAfter[n] >= gain \/ n = 2 * Len(LnaSteps)}
WalkPartition(gain) ==
  StepsAfter(CHOOSE n \in Reaches(gain) : \A m \in Reaches(gain) : n <= m)
TableSteps == [index \in 1..Top |-> WalkPartition(Table[index])]

-----------------------------------------------------------------------------
(* The driver, rtlsdr_set_... of the vendored library *)

Set(field, value) == [f \in {field} |-> value]
Write(chip, change) == [f \in DOMAIN chip |-> IF f \in DOMAIN change THEN change[f] ELSE chip[f]]

\* Whatever makes an R82xx tune again, the frequency, the rate, the
\* bandwidth or the correction, also puts the VGA back to its fixed step.
Retune(field, value) ==
  IF IsR82xx THEN [f \in {field, "vga_gain"} |-> IF f = field THEN value ELSE VgaLinear]
  ELSE Set(field, value)

\* A combined gain picks the LNA and mixer steps and fixes the VGA.
LinearGain(split) == [lna_gain |-> split[1], mixer_gain |-> split[2], vga_gain |-> VgaLinear]

\* Manual mode comes with a gain of 0 dB.
GainMode == LinearGain(<<0, 0>>)

\* An R82xx has no offset tuning: the fork switches the bias tee instead and
\* says that the call failed.
OffsetTuning(on) ==
  IF IsR82xx THEN Set("bias_tee", on) ELSE Set("offset_tuning", on)
OffsetFails == IsR82xx

Accepts(key, value) == key \in Stages => IsR82xx /\ value \in 0..VgaTop

-----------------------------------------------------------------------------
(* The history of the calls *)

NoCalls == [called |-> {}, failed |-> {}, invalid |-> {}, accepted |-> <<>>]

\* Mutant: the call leaves what it overwrites in the history.
RecordCallOnly(h, key, value, ok) ==
  [called |-> h.called \cup {key},
   failed |-> IF ok THEN h.failed \ {key} ELSE h.failed \cup {key},
   invalid |-> h.invalid,
   accepted |-> [k \in DOMAIN h.accepted \cup {key} |->
                   IF k # key THEN h.accepted[k] ELSE IF ok THEN value ELSE None]]

\* A combined gain and the gain of a stage overwrite one another.
RecordCall(h, key, value, ok) ==
  [called |-> h.called \cup {key},
   failed |-> IF ok THEN h.failed \ {key} ELSE h.failed \cup {key},
   invalid |-> (h.invalid \ {key}) \cup
               (CASE key = "gain" -> Stages [] key \in Stages -> {"gain"} [] OTHER -> {}),
   accepted |-> [k \in DOMAIN h.accepted \cup {key} |->
                   IF k # key THEN h.accepted[k] ELSE IF ok THEN value ELSE None]]

\* A call of the driver that writes "change" to the tuner.
Call(d, key, value, change, faults) ==
  LET ok == key \notin faults.failing /\ Accepts(key, value)
                 /\ ~(key = "offset_tuning" /\ OffsetFails)
      writes == ok \/ (key \in faults.failing /\ faults.partial)
                   \/ (key = "offset_tuning" /\ OffsetFails)
  IN  [d EXCEPT !.chip = IF writes THEN Write(d.chip, change) ELSE @,
                !.history = RecordCall(d.history, key, value, ok),
                !.ok = ok]

-----------------------------------------------------------------------------
(* The setters; ok says what the last one returned *)

\* What the shadow holds already is not asked of the driver again.
Setting(d, key, value, change, faults) ==
  IF d.shadow[key] = value THEN [d EXCEPT !.ok = TRUE]
  ELSE LET after == Call(d, key, value, change, faults)
       IN  IF after.ok THEN [after EXCEPT !.shadow[key] = value] ELSE after

SetFrequency(d, hz, faults) == Setting(d, "frequency", hz, Retune("frequency", hz), faults)
SetAgc(d, on, faults) == Setting(d, "agc", on, Set("agc", on), faults)
SetBiasTee(d, on, faults) == Setting(d, "bias_tee", on, Set("bias_tee", on), faults)
SetPpm(d, ppm, faults) == Setting(d, "ppm", ppm, Retune("ppm", ppm), faults)
SetOffsetTuning(d, on, faults) == Setting(d, "offset_tuning", on, OffsetTuning(on), faults)
\* The shadow begins with None, for no bandwidth was applied.
SetTunerBandwidth(d, bw, faults) ==
  Setting(d, "tuner_bandwidth", bw, Retune("tuner_bandwidth", bw), faults)
SetLnaGain(d, step, faults) == Setting(d, "lna_gain", step, Set("lna_gain", step), faults)
SetMixerGain(d, step, faults) == Setting(d, "mixer_gain", step, Set("mixer_gain", step), faults)
SetVgaGain(d, step, faults) == Setting(d, "vga_gain", step, Set("vga_gain", step), faults)

\* The adaptive loop writes the VGA without looking at the shadow.
ApplyVgaGain(d, step, faults) ==
  IF ~IsR82xx \/ step \notin 0..VgaTop THEN [d EXCEPT !.ok = FALSE]
  ELSE LET after == Call(d, "vga_gain", step, Set("vga_gain", step), faults)
       IN  IF after.ok THEN [after EXCEPT !.shadow.vga_gain = step] ELSE after

RecordLinearGain(d, index) ==
  [d EXCEPT !.shadow = Write(d.shadow, LinearGain(TableSteps[index])), !.gain = index]

\* applyManualTunerGain: the mode, then the gain.
ApplyTableStep(d, index, faults) ==
  LET mode == Call(d, "tuner_mode", 1, GainMode, faults)
      both == Call(mode, "gain", index, LinearGain(TableSteps[index]), faults)
  IN  IF ~mode.ok THEN mode ELSE IF both.ok THEN RecordLinearGain(both, index) ELSE both

Apart(a, b) == IF a >= b THEN a - b ELSE b - a

\* The first of the nearest gains of the table.
NearestGain(tenths) ==
  CHOOSE i \in 1..Top :
    /\ \A j \in 1..Top : Apart(tenths, Table[i]) <= Apart(tenths, Table[j])
    /\ \A j \in 1..(i - 1) : Apart(tenths, Table[j]) > Apart(tenths, Table[i])

\* d.gain is None until a gain was applied (gain_known).
SetGain(d, tenths, faults) ==
  LET index == NearestGain(tenths)
  IN  IF d.gain = index THEN [d EXCEPT !.ok = TRUE] ELSE ApplyTableStep(d, index, faults)

-----------------------------------------------------------------------------
(* Opening and the first configuration *)

Closed(bias) ==
  [shadow |-> [frequency |-> 1090, agc |-> FALSE, bias_tee |-> FALSE, ppm |-> 0,
               offset_tuning |-> FALSE, tuner_bandwidth |-> None,
               lna_gain |-> 5, mixer_gain |-> 5, vga_gain |-> 5],
   chip |-> [frequency |-> 0, sample_rate |-> 0, agc |-> FALSE, bias_tee |-> bias,
             ppm |-> 0, offset_tuning |-> FALSE, tuner_bandwidth |-> 0,
             lna_gain |-> 0, mixer_gain |-> 0, vga_gain |-> VgaLinear],
   history |-> NoCalls, gain |-> None, ok |-> FALSE, open |-> FALSE]

\* open_with_serial: any failure closes the handle.
Open(d, hz, rate, faults) ==
  LET tuned == Call([d EXCEPT !.history = NoCalls], "frequency", hz, Retune("frequency", hz), faults)
      clocked == Call(tuned, "sample_rate", rate, Retune("sample_rate", rate), faults)
      shadowed == [clocked EXCEPT !.shadow.frequency = hz]
  IN  CASE ~tuned.ok -> tuned
        [] tuned.ok /\ ~clocked.ok -> [shadowed EXCEPT !.ok = FALSE]
        [] OTHER -> [shadowed EXCEPT !.open = TRUE]

ApplySetting(d, key, value, faults) ==
  CASE key = "frequency" -> SetFrequency(d, value, faults)
    [] key = "agc" -> SetAgc(d, value, faults)
    [] key = "gain" -> SetGain(d, value, faults)
    [] key = "tuner_bandwidth" -> SetTunerBandwidth(d, value, faults)
    [] key = "bias_tee" -> SetBiasTee(d, value, faults)
    [] key = "offset_tuning" -> SetOffsetTuning(d, value, faults)
    [] key = "ppm" -> SetPpm(d, value, faults)
    [] key = "lna_gain" -> SetLnaGain(d, value, faults)
    [] key = "mixer_gain" -> SetMixerGain(d, value, faults)
    [] key = "vga_gain" -> SetVgaGain(d, value, faults)

KeepFailure(d, after) == [after EXCEPT !.ok = d.ok /\ after.ok]

\* A setting that the configuration leaves out is None.
Optional(d, key, value, faults) ==
  IF value = None THEN d ELSE KeepFailure(d, ApplySetting(d, key, value, faults))

\* applyConfigPostOpen; ok at the end is the report's "incomplete".
ApplyConfig(d, cfg, faults) ==
  LET d0 == [d EXCEPT !.history.called = {}, !.ok = TRUE]
      d1 == Optional(d0, "frequency", cfg.frequency, faults)
      d2 == Optional(d1, "agc", cfg.agc, faults)
      d3 == Optional(d2, "gain", cfg.gain, faults)
      d4 == Optional(d3, "tuner_bandwidth", cfg.tuner_bandwidth, faults)
      d5 == Optional(d4, "bias_tee", cfg.bias_tee, faults)
      d6 == Optional(d5, "offset_tuning", cfg.offset_tuning, faults)
      d7 == Optional(d6, "ppm", cfg.ppm, faults)
      d8 == Optional(d7, "lna_gain", cfg.lna_gain, faults)
      d9 == Optional(d8, "mixer_gain", cfg.mixer_gain, faults)
  IN  Optional(d9, "vga_gain", cfg.vga_gain, faults)

\* What the report says of a setting: it was accepted, and no later call
\* failed or made it stale.
Reported(d, key) ==
  /\ key \in DOMAIN d.history.accepted /\ d.history.accepted[key] # None
  /\ key \notin d.history.failed \cup d.history.invalid
=============================================================================
