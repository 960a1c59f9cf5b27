------------------------------ MODULE MCRtlSdr ------------------------------
(***************************************************************************)
(* The RTL-SDR device for TLC: the crystal calibration, the adaptive gain   *)
(* and the asynchronous reader of its driver.  They share no state, so a    *)
(* behaviour is one of them, whichever "part" says, and the others stay     *)
(* where they begin.  Four gains, each of which adds a step of the LNA and  *)
(* one of the mixer to the gain before it, and a VGA with two steps above   *)
(* the combined gain.                                                       *)
(***************************************************************************)
EXTENDS AutoPpm, AdaptiveGain, RtlsdrAsync

CONSTANT Parts   \* the parts to look at

VARIABLES part,
          turn    \* history: the parity of the windows the gain loop evaluated

MCDrifts == {0, 3, -3, 6}
MCTable == <<0, 10, 20, 30>>
MCSteps == <<5, 5, 5>>

Config(gain, bias, stages, pinned) ==
  [frequency |-> 1090, agc |-> FALSE, gain |-> gain, tuner_bandwidth |-> 3, bias_tee |-> bias,
   offset_tuning |-> FALSE, ppm |-> 4, lna_gain |-> IF stages THEN 2 ELSE None,
   mixer_gain |-> None, vga_gain |-> IF stages THEN 2 ELSE None, pinned |-> pinned]
MCConfigs ==
  {Config(12, FALSE, TRUE, FALSE), Config(30, TRUE, FALSE, FALSE), Config(12, FALSE, TRUE, TRUE)}
MCFaults ==
  {[failing |-> {key}, partial |-> partial] :
     key \in {"sample_rate", "gain", "tuner_mode", "vga_gain"}, partial \in BOOLEAN}
\* From an antenna that needs more than all the gain there is to one that
\* overloads the receiver; bursts below and above the floor's own bounds.
MCAntennas == [noise : {-6, -3, 1, 4, 8}, burst : {-2, 2, 5}]

MCInit ==
  /\ part \in Parts /\ turn = FALSE /\ InitPpm /\ InitGain /\ InitAsync
  /\ part # "ppm" => drift = 0
  /\ part # "gain" => antenna = [noise |-> 1, burst |-> 2]
  /\ part # "usb" => prompt
MCPpm == part = "ppm" /\ NextPpm /\ UNCHANGED <<part, turn, gainVars, asyncVars>>
MCGain ==
  /\ part = "gain" /\ NextGain /\ UNCHANGED <<part, ppmVars, asyncVars>>
  /\ turn' = IF phase = "running" /\ feed' = feed /\ recalibrations' = recalibrations
              THEN ~turn ELSE turn
MCUsb == part = "usb" /\ NextAsync /\ UNCHANGED <<part, turn, ppmVars, gainVars>>
MCNext == MCPpm \/ MCGain \/ MCUsb

\* The fairness of each part, where it is the one that runs.  The gain loop
\* can evaluate a window whenever it runs, so its weak fairness says that it
\* does, again and again; the parity tells a window that changed nothing
\* from a stutter, and spares TLC an ENABLED.
MCVars == <<part, turn, ppmVars, gainVars, asyncVars>>
MCFairPpm ==
  /\ WF_ppmVars(part = "ppm" /\ ObserveSamples(0))
  /\ WF_ppmVars(part = "ppm" /\ Maintain)
MCFairGain == []<>(phase # "running") \/ []<><<turn' # turn>>_turn
MCFairUsb ==
  /\ WF_asyncVars(part = "usb" /\ EndLate)
  /\ WF_asyncVars(part = "usb" /\ ReadAsync)
  /\ WF_asyncVars(part = "usb" /\ (Join \/ Probe \/ CloseDevice))
MCSpec == MCInit /\ [][MCNext]_MCVars /\ MCFairPpm /\ MCFairGain /\ MCFairUsb
=============================================================================
