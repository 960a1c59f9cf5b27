---------------------------- MODULE AirspyDevice ----------------------------
(***************************************************************************)
(* AirspyDevice, and MainInstance::setup_device that opens it: the          *)
(* candidates are tried in order, the first that opens is configured and    *)
(* started.  The object keeps a shadow of every setting and asks libairspy  *)
(* only for what the shadow does not hold; a combined preset moves the      *)
(* three stages.  The supervisor makes a new object for every run.          *)
(*                                                                          *)
(* A radio is what libairspy wrote to it, which outlives the object.  A     *)
(* handle claims its radio until it is closed.                              *)
(***************************************************************************)
EXTENDS Absent, Integers, SequencesExt

CONSTANTS Radios,        \* the serials of the attached radios
          Busy,          \* those another process has open
          Candidates,    \* the serials to try, each a radio and how it is written
          SpyConfigs,    \* the configurations the command line may give
          Linearity, Sensitivity, \* the presets of libairspy: index -> stages
          FirmwareGain,  \* the stages of a radio nobody configured
          MaxSpyFaults,  \* bound: openings or configurations in which a call fails
          MaxRuns        \* bound: runs of the supervisor

ASSUME SpyAssumption ==
  /\ Busy \subseteq Radios
  /\ Candidates \in Seq([radio : Radios, written : {"0x", "letters", "digits"}])
  /\ MaxSpyFaults \in Nat /\ MaxRuns \in Nat

VARIABLES object,     \* the AirspyDevice: shadow, mode, handle; did a setting fail
          radio,      \* what each radio was set to
          claimed,    \* the radios this process has a handle of, lost or not
          untried,    \* the candidates left
          spyPhase, spyFaults, runs,
          asked       \* the configuration of the run, None before it

objectVars == <<object, untried, spyPhase, asked>>
spyVars == <<object, radio, claimed, untried, spyPhase, spyFaults, runs, asked>>

Opening == <<"sample_type", "sample_rate", "frequency", "packing">>
Stages3 == {"lna", "mixer", "vga"}
Calls == ToSet(Opening) \cup Stages3 \cup {"linearity", "sensitivity", "bias", "start"}

ASSUME CallsAssumption == None \notin Calls

NewObject ==
  [frequency |-> 1090, linearity |-> 5, sensitivity |-> 5, lna |-> 5, mixer |-> 5, vga |-> 5,
   bias |-> FALSE, mode |-> None, handle |-> None, failed |-> FALSE]
Unconfigured ==
  [frequency |-> 0, lna |-> FirmwareGain, mixer |-> FirmwareGain, vga |-> FirmwareGain,
   bias |-> FALSE]

InitSpy ==
  /\ object = NewObject /\ radio = [s \in Radios |-> Unconfigured]
  /\ claimed = {} /\ untried = Candidates /\ spyPhase = "closed"
  /\ spyFaults = MaxSpyFaults /\ runs = 1 /\ asked = None

\* At most one call fails in an opening or a configuration.
Failing == {None} \cup IF spyFaults > 0 THEN Calls ELSE {}
Spend(failing) == spyFaults' = IF failing = None THEN spyFaults ELSE spyFaults - 1

\* With one candidate less the next is tried, or the run fails.
Left == /\ untried' = Tail(untried)
        /\ spyPhase' = IF Tail(untried) = <<>> THEN "failed" ELSE "closed"

\* applyConfigPreOpen takes the text for a number of the base it shows.  The
\* enumeration writes hexadecimal digits without a prefix: with a letter or a
\* leading 0 the text is no number and stands for any radio, with digits
\* alone it is the number of no radio.
Meant(candidate) ==
  CASE candidate.written = "0x" -> {candidate.radio}
    [] candidate.written = "letters" -> Radios
    [] candidate.written = "digits" -> {}

\* Somebody has the radio, or there is none: airspy_open leaves no handle.
FindNone ==
  /\ spyPhase = "closed"
  /\ Meant(Head(untried)) # {} => Meant(Head(untried)) \cap (Busy \cup claimed) # {}
  /\ object' = [object EXCEPT !.handle = None]
  /\ Left
  /\ UNCHANGED <<radio, claimed, spyFaults, runs, asked>>

\* airspy_open has claimed the radio; a setting that fails returns at once.
OpenRadio(r, failing) ==
  /\ spyPhase = "closed" /\ r \in Meant(Head(untried)) \ (Busy \cup claimed)
  /\ object' = [object EXCEPT !.handle = r]
  /\ claimed' = claimed \cup {r}
  /\ radio' = IF failing \in {"sample_type", "sample_rate", "frequency"} THEN radio
              ELSE [radio EXCEPT ![r].frequency = object.frequency]
  /\ IF failing \in ToSet(Opening) THEN Left
     ELSE spyPhase' = "open" /\ UNCHANGED untried
  /\ Spend(failing)
  /\ UNCHANGED <<runs, asked>>

-----------------------------------------------------------------------------
(* The setters map [object, radio of the handle] to the next pair *)

Frequency(d, hz, failing) ==
  IF hz = d.object.frequency \/ failing = "frequency" THEN d
  ELSE [object |-> [d.object EXCEPT !.frequency = hz], radio |-> [d.radio EXCEPT !.frequency = hz]]

\* Mutant: the stages a preset moved keep their old shadow.
PresetKeepStages(d, preset, table, index, failing) ==
  IF index \in {None, d.object[preset]} THEN d
  ELSE IF failing = preset THEN [d EXCEPT !.radio.vga = table[index].vga]
  ELSE [object |-> [d.object EXCEPT ![preset] = index, !.mode = preset],
        radio |-> [d.radio EXCEPT !.lna = table[index].lna, !.mixer = table[index].mixer,
                                  !.vga = table[index].vga]]

\* A preset moves all three stages, and their shadow follows.  libairspy
\* begins with the VGA, so a call that fails has moved that one at least.
Preset(d, preset, table, index, failing) ==
  IF index \in {None, d.object[preset]} THEN d
  ELSE IF failing = preset THEN [d EXCEPT !.radio.vga = table[index].vga]
  ELSE LET stages == table[index]
           Follow(r) == [r EXCEPT !.lna = stages.lna, !.mixer = stages.mixer, !.vga = stages.vga]
       IN  [object |-> Follow([d.object EXCEPT ![preset] = index, !.mode = preset]),
            radio |-> Follow(d.radio)]

Stage(d, stage, gain, failing) ==
  IF gain \in {None, d.object[stage]} \/ failing = stage THEN d
  ELSE [object |-> [d.object EXCEPT ![stage] = gain], radio |-> [d.radio EXCEPT ![stage] = gain]]

Bias(d, on, failing) ==
  IF on = d.object.bias \/ failing = "bias" THEN d
  ELSE [object |-> [d.object EXCEPT !.bias = on], radio |-> [d.radio EXCEPT !.bias = on]]

\* Combined presets first, so explicit stages win over them.
Applied(d, cfg, failing) ==
  LET d1 == Frequency(d, cfg.frequency, failing)
      d2 == Preset(d1, "linearity", Linearity, cfg.linearity, failing)
      d3 == Preset(d2, "sensitivity", Sensitivity, cfg.sensitivity, failing)
      d4 == Stage(d3, "lna", cfg.lna, failing)
      d5 == Stage(d4, "mixer", cfg.mixer, failing)
      d6 == Stage(d5, "vga", cfg.vga, failing)
  IN  Bias(d6, cfg.bias, failing)

ConfigureSpy(cfg, failing) ==
  /\ spyPhase = "open"
  /\ LET after == Applied([object |-> object, radio |-> radio[object.handle]], cfg, failing)
     IN  /\ object' = [after.object EXCEPT !.failed = failing # None]
         /\ radio' = [radio EXCEPT ![object.handle] = after.radio]
  /\ spyPhase' = "configured" /\ asked' = cfg
  /\ Spend(failing)
  /\ UNCHANGED <<claimed, untried, runs>>

\* A device that refuses to start ends the run without being closed.
StartSpy(failing) ==
  /\ spyPhase = "configured"
  /\ spyPhase' = IF failing = "start" THEN "failed" ELSE "running"
  /\ Spend(failing)
  /\ UNCHANGED <<object, radio, claimed, untried, runs, asked>>

\* The run ends: stop and close.
CloseSpy ==
  /\ spyPhase = "running"
  /\ claimed' = claimed \ {object.handle}
  /\ object' = [object EXCEPT !.handle = None]
  /\ spyPhase' = "ended"
  /\ UNCHANGED <<radio, untried, spyFaults, runs, asked>>

\* The supervisor runs again, with an object of its own.
NextRun ==
  /\ spyPhase \in {"failed", "ended"} /\ runs < MaxRuns
  /\ object' = NewObject /\ untried' = Candidates
  /\ spyPhase' = "closed" /\ asked' = None /\ runs' = runs + 1
  /\ UNCHANGED <<radio, claimed, spyFaults>>

NextSpy ==
  \/ FindNone \/ CloseSpy \/ NextRun
  \/ \E r \in Radios, failing \in Failing \cap (ToSet(Opening) \cup {None}) : OpenRadio(r, failing)
  \/ \E cfg \in SpyConfigs, failing \in Failing : ConfigureSpy(cfg, failing)
  \/ \E failing \in Failing \cap {"start", None} : StartSpy(failing)

-----------------------------------------------------------------------------
(* Properties *)

\* Once a preset reached the radio and no setting failed, the object knows the
\* three stages of the radio, so a stage that is asked for is never skipped by
\* mistake and the gain the metrics publish is the gain of the radio.
StagesKnown ==
  object.handle # None /\ object.mode # None /\ ~object.failed =>
    \A stage \in Stages3 : object[stage] = radio[object.handle][stage]

Asks(cfg, stage) ==
  CASE cfg[stage] # None -> cfg[stage]
    [] cfg[stage] = None /\ cfg.sensitivity # None -> Sensitivity[cfg.sensitivity][stage]
    [] OTHER -> Linearity[cfg.linearity][stage]

\* Not so.  README.md:276: linearity, sensitivity and the stages can be chosen.
AppliedAsAsked ==
  spyPhase = "running" /\ ~object.failed =>
    \A stage \in Stages3 :
      (asked[stage] # None \/ asked.linearity # None \/ asked.sensitivity # None) =>
        radio[object.handle][stage] = Asks(asked, stage)

\* Not so.  README.md:280: --serial binds to one specific unit, and the candidates of
\* an automatic choice are tried in the order of their serials.
BoundToSerial ==
  spyPhase \in {"open", "configured", "running"} => object.handle = Head(untried).radio

\* Not so.  README.md:60: a lost device is recovered, so a run that failed leaves
\* nothing that keeps the next one from opening the radio.
NothingHeld == spyPhase \in {"failed", "ended"} => claimed = {}
=============================================================================
