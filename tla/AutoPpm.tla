------------------------------ MODULE AutoPpm ------------------------------
(***************************************************************************)
(* The crystal calibration of RtlSdrDevice.  The callback thread counts the *)
(* sample pairs (observeSamples) under m_autoPpmMutex; the watchdog thread  *)
(* (periodicMaintenance) closes a window when it is long enough, throws it  *)
(* away when samples were dropped meanwhile, and corrects the tuner by the  *)
(* median of several windows.  It applies the correction after it released  *)
(* the mutex, so callbacks fall between the decision, the driver call and   *)
(* the reset of the measurement.                                            *)
(*                                                                          *)
(* Time is counted in callbacks.  Only the excess of the pairs over the     *)
(* nominal rate is counted, in ppm per callback, and only since the last    *)
(* baseline.  A loss is confirmed as a drop event only Confirm callbacks    *)
(* later, as SampleClock has it.  The driver notes a correction before it   *)
(* applies it and refuses one it has noted (rtlsdr_set_freq_correction).    *)
(***************************************************************************)
EXTENDS Absent, Integers, SequencesExt

CONSTANTS Warmup, Interval, Samples, MaxStep, Deadband, Limit, \* AutoPpmConfig
          Drifts,    \* the errors of a crystal, in ppm
          Confirm,   \* callbacks from a loss to its drop event
          LossSize,  \* what a loss takes from the excess of a window
          MaxMissed, \* bound: losses in a behaviour
          MaxFailures, \* bound: calls of the driver that fail on the bus
          Lateness   \* bound: callbacks the watchdog may be late for a window

ASSUME AutoPpmAssumption ==
  /\ {Interval, Samples, MaxStep, Limit} \subseteq Nat \ {0}
  /\ {Warmup, Deadband, Confirm, LossSize, MaxMissed, MaxFailures, Lateness} \subseteq Nat
  /\ Drifts \subseteq Int /\ None \notin Int

VARIABLES
  drift,       \* the error of this device
  ppm,         \* the correction in force
  shadow,      \* m_state.ppm: the correction of the last successful call
  corr,        \* the driver's dev->corr
  warm,        \* callbacks since firstSample, up to Warmup
  window,      \* None, or what was counted since the baseline
  measurements,\* the clean windows
  target,      \* watchdog: None, or the correction it decided on
  applied,     \* watchdog: setPpm has called the driver, the reset is to come
  unconfirmed, \* None, or callbacks until the last loss is a drop event
  lossesLeft,  \* bound
  failuresLeft \* bound

tunerVars == <<ppm, shadow, corr, failuresLeft>>
ppmVars == <<drift, tunerVars, warm, window, measurements, target, applied,
             unconfirmed, lossesLeft>>

\* A window: callbacks, excess, drop events and, as history, the corrections
\* that were in force.
Fresh == [elapsed |-> 0, excess |-> 0, drops |-> 0, under |-> {}]

InitPpm ==
  /\ drift \in Drifts /\ ppm = 0 /\ shadow = 0 /\ corr = 0
  /\ warm = 0 /\ window = None
  /\ measurements = <<>> /\ target = None /\ applied = FALSE
  /\ unconfirmed = None /\ lossesLeft = MaxMissed /\ failuresLeft = MaxFailures

-----------------------------------------------------------------------------
(* The callback thread *)

Confirmed == IF unconfirmed = 0 THEN 1 ELSE 0

Count(w, lost) ==
  [elapsed |-> w.elapsed + 1, excess |-> w.excess + drift - ppm - lost,
   drops |-> w.drops + Confirmed, under |-> w.under \cup {ppm}]

ObserveSamples(lost) ==
  /\ window # None => window.elapsed < Interval + Lateness
  /\ lost > 0 => lossesLeft > 0 /\ unconfirmed = None
  /\ warm' = IF warm < Warmup THEN warm + 1 ELSE warm
  /\ window' = IF window = None THEN None ELSE Count(window, lost)
  /\ unconfirmed' = CASE lost > 0 -> Confirm
                      [] lost = 0 /\ unconfirmed \in Nat \ {0} -> unconfirmed - 1
                      [] OTHER -> None
  /\ lossesLeft' = IF lost > 0 THEN lossesLeft - 1 ELSE lossesLeft
  /\ UNCHANGED <<drift, tunerVars, measurements, target, applied>>

-----------------------------------------------------------------------------
(* The watchdog thread, periodicMaintenance *)

callbackVars == <<drift, warm, unconfirmed, lossesLeft>>

EndWarmup ==
  /\ target = None /\ window = None /\ warm = Warmup
  /\ window' = Fresh
  /\ UNCHANGED <<callbackVars, tunerVars, measurements, target, applied>>

IsComplete == target = None /\ window # None /\ window.elapsed >= Interval

DiscardWindow ==
  /\ IsComplete /\ window.drops > 0
  /\ window' = Fresh
  /\ UNCHANGED <<callbackVars, tunerVars, measurements, target, applied>>

Clamp(x, lo, hi) == IF x < lo THEN lo ELSE IF x > hi THEN hi ELSE x

\* The nearest integer to a quotient (std::lround of the median).
Rounded(a, n) == IF a >= 0 THEN (2 * a + n) \div (2 * n) ELSE -((2 * (-a) + n) \div (2 * n))

Observation == [value |-> Rounded(window.excess, window.elapsed), under |-> window.under]

Median(s) == SortSeq(s, <)[(Len(s) \div 2) + 1]

Values(s) == [i \in DOMAIN s |-> s[i].value]

\* Mutant: the correction is moved against the residual.
CorrectionAway(residual) == Clamp(shadow - Clamp(residual, -MaxStep, MaxStep), -Limit, Limit)

Correction(residual) ==
  LET requested == IF Clamp(residual, -Deadband, Deadband) = residual THEN 0 ELSE residual
  IN  Clamp(shadow + Clamp(requested, -MaxStep, MaxStep), -Limit, Limit)

CloseWindow ==
  /\ IsComplete /\ window.drops = 0
  /\ window' = Fresh
  /\ LET all == Append(measurements, Observation)
         enough == Len(all) >= Samples
         chosen == Correction(Median(Values(all)))
     IN  /\ measurements' = IF enough THEN <<>> ELSE all
         /\ target' = IF enough /\ chosen # shadow THEN chosen ELSE None
  /\ UNCHANGED <<callbackVars, tunerVars, applied>>

\* setPpm: the driver first, then the measurement.
CallDriver ==
  /\ target # None /\ ~applied /\ corr # target
  /\ ppm' = target /\ shadow' = target /\ corr' = target /\ applied' = TRUE
  /\ UNCHANGED <<callbackVars, failuresLeft, window, measurements, target>>

\* A register write fails: the driver has noted the correction, the hardware
\* has it or not, and the measurement goes on.
DriverFails ==
  /\ target # None /\ ~applied /\ corr # target /\ failuresLeft > 0
  /\ corr' = target /\ ppm' \in {ppm, target}
  /\ target' = None /\ failuresLeft' = failuresLeft - 1
  /\ UNCHANGED <<callbackVars, shadow, window, measurements, applied>>

\* The driver refuses a correction it has noted.
DriverRefuses ==
  /\ target # None /\ ~applied /\ corr = target
  /\ target' = None
  /\ UNCHANGED <<callbackVars, tunerVars, window, measurements, applied>>

ResetMeasurement ==
  /\ applied
  /\ applied' = FALSE /\ target' = None
  /\ window' = None /\ measurements' = <<>> /\ warm' = 0
  /\ UNCHANGED <<drift, unconfirmed, lossesLeft, tunerVars>>

\* A run of the watchdog's loop; a call that may fail comes to an end.
Maintain ==
  EndWarmup \/ DiscardWindow \/ CloseWindow \/ CallDriver \/ DriverFails
    \/ DriverRefuses \/ ResetMeasurement

NextPpm == Maintain \/ \E lost \in {0, LossSize} : ObserveSamples(lost)

-----------------------------------------------------------------------------
(* Properties *)

Untroubled == failuresLeft = MaxFailures

\* Every window that counts was sampled under one correction, the one in
\* force: what was begun before a change never reaches the median.
WindowsUnderOnePpm ==
  Untroubled => \A i \in DOMAIN measurements : measurements[i].under = {ppm}

\* The correction is within the deadband of the crystal's error, or of the
\* limit that is nearest to it.
Settled == Clamp(drift, -Limit, Limit) - ppm \in -Deadband..Deadband

\* When the losses have ended and the driver never failed, the correction
\* settles and stays.
Converges == []Untroubled => <>[]Settled

\* The calibration measures what it believes to measure, and so gets there
\* (RtlSdrDevice.cpp:554-760).
Calibrates == []WindowsUnderOnePpm /\ Converges

\* Not so: the same whatever the driver does.  README.md:49-51 says the calibration is
\* continuous and README.md:278 that it applies its correction.
ConvergesAgain == <>[]Settled
=============================================================================
