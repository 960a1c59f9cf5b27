---------------------------- MODULE AdaptiveGain ----------------------------
(***************************************************************************)
(* RtlSdrDevice::adaptiveGainLoop: a thread that looks at the histogram of  *)
(* the raw samples, once per window of five seconds, and moves the tuner    *)
(* gain towards a noise floor between two bounds; at the top of the gain    *)
(* table it climbs with the VGA.  The device is configured first; then only *)
(* the loop sets a gain, but the watchdog's corrections of the crystal      *)
(* (AutoPpm) tune the same chip again.                                      *)
(*                                                                          *)
(* A window is what the loop makes of its histogram: on which side of its   *)
(* thresholds the floor, the RMS and the share of clipped samples are.      *)
(* Levels count in gain steps.  An antenna is a noise floor and a strength  *)
(* of its bursts, before any gain; what is under the digital floor of the   *)
(* converter is not seen.  A window a pause interrupts is thrown away and   *)
(* changes nothing.                                                         *)
(***************************************************************************)
EXTENDS RtlTuner, Functions

CONSTANTS Antennas,   \* a set of [noise, burst]
          Configs,    \* the resolved configurations the device may get
          CallFaults, \* the ways its calls may fail
          MaxRecalibrations, \* bound: corrections of the crystal while the loop runs
          MaxFaults,  \* bound: evaluations or configurations in which calls fail
          DigitalFloor, Low, Target, High, HardOverload, \* the floor's bounds
          Headroom,   \* burst level from which the RMS exceeds 16 LSB
          RailsWarm, RailsHot, \* burst levels of 0.2 % and 0.3 % clipped samples
          DropoutWindows \* 3: silent windows that decide nothing

ASSUME LoopAssumption ==
  /\ {MaxFaults, MaxRecalibrations, DropoutWindows} \subseteq Nat
  /\ {DigitalFloor, Low, Target, High, HardOverload, Headroom, RailsWarm, RailsHot} \subseteq Int
  /\ Low <= Target /\ Target <= High /\ High < HardOverload /\ RailsWarm <= RailsHot

\* Every configuration has a gain: applyBackendDefaults sees to it.
ASSUME ConfigAssumption ==
  \A cfg \in Configs :
    cfg.gain \in Int /\ {cfg.agc, cfg.bias_tee, cfg.offset_tuning} \subseteq BOOLEAN

VARIABLES device, loop, antenna, feed, phase,
          faultsLeft, recalibrations, \* bounds
          retuned \* history: the tuner tuned again since the loop last wrote a gain

boundVars == <<faultsLeft, recalibrations>>
gainVars == <<device, loop, antenna, feed, phase, boundVars, retuned>>

NoFaults == [failing |-> {}, partial |-> FALSE]
Faults == {NoFaults} \cup IF faultsLeft > 0 THEN CallFaults ELSE {}
Spent(faults) == IF faults = NoFaults THEN faultsLeft ELSE faultsLeft - 1

InitGain ==
  /\ device = Closed(FALSE) /\ loop = None /\ antenna \in Antennas
  /\ feed = TRUE /\ faultsLeft = MaxFaults /\ phase = "closed"
  /\ recalibrations = 0 /\ retuned = FALSE

OpenDevice(faults) ==
  /\ phase = "closed"
  /\ device' = Open(device, 1090, 1, faults)
  /\ phase' = IF device'.open THEN "open" ELSE "failed"
  /\ faultsLeft' = Spent(faults)
  /\ UNCHANGED <<loop, antenna, feed, recalibrations, retuned>>

StartLoop(cfg) ==
  [pinned |-> cfg.pinned, vga |-> device'.shadow.vga_gain, mud |-> 0, mudStreak |-> 0,
   hotStreak |-> 0, lowStreak |-> 0, awaiting |-> FALSE, climbFrom |-> 0,
   silent |-> 0, wasHard |-> FALSE]

ConfigureTuner(cfg, faults) ==
  /\ phase = "open"
  /\ device' = ApplyConfig(device, cfg, faults)
  /\ loop' = StartLoop(cfg)
  /\ phase' = "running" /\ faultsLeft' = Spent(faults)
  /\ UNCHANGED <<antenna, feed, recalibrations, retuned>>

\* The feed is pulled or put back.
Feed ==
  /\ phase = "running" /\ feed' = ~feed
  /\ UNCHANGED <<device, loop, antenna, phase, boundVars, retuned>>

\* The watchdog's automatic correction of the crystal: setPpm on the same
\* device, under m_controlMutex.
Recalibrate ==
  /\ phase = "running" /\ recalibrations < MaxRecalibrations
  /\ device' = SetPpm(device, device.shadow.ppm + 1, NoFaults)
  /\ recalibrations' = recalibrations + 1 /\ retuned' = TRUE
  /\ UNCHANGED <<loop, antenna, feed, phase, faultsLeft>>

-----------------------------------------------------------------------------
(* A window *)

Max2(a, b) == IF a >= b THEN a ELSE b

SumTo(steps, n) == FoldFunctionOnSet(LAMBDA x, y : x + y, 0, steps, 1..n)

\* The gains ascend, and each is what the steps of its walk add up to: true of
\* the 29 gains of an R820T.
ASSUME WalkAssumption ==
  /\ \A i, j \in 1..Top : i < j => Table[i] < Table[j]
  /\ \A i \in 1..Top :
       SumTo(LnaSteps, TableSteps[i][1]) + SumTo(MixerSteps, TableSteps[i][2]) = Table[i]

\* The gain of the chip in steps of the table; explicit stages may lie between.
StageIndex ==
  [steps \in (0..Len(LnaSteps)) \X (0..Len(MixerSteps)) |->
     NearestGain(SumTo(LnaSteps, steps[1]) + SumTo(MixerSteps, steps[2]))]
ChipIndex == StageIndex[<<device.chip.lna_gain, device.chip.mixer_gain>>]
ChipSteps == ChipIndex + device.chip.vga_gain - VgaLinear

Floor == IF feed THEN Max2(antenna.noise + ChipSteps, DigitalFloor) ELSE DigitalFloor
Burst == IF feed THEN antenna.burst + ChipSteps ELSE DigitalFloor
IsSilent == Floor <= DigitalFloor /\ Burst <= DigitalFloor
IsStarved == Floor = DigitalFloor

\* A step up lands nearer to the target and below the upper bound.
ClosesOnTarget ==
  /\ Floor < Target /\ Floor + 1 < High
  /\ Apart(Floor + 1, Target) < Apart(Floor, Target)

-----------------------------------------------------------------------------
(* The tuner moves *)

TargetIndex(index, steps) ==
  CASE steps > 0 -> IF index < Top THEN index + 1 ELSE Top
    [] steps = -1 -> Max2(index - 1, 1)
    [] steps = -3 -> Max2(index - 3, 1)

\* The place of the shadow's gain in the table; its 0 dB before a gain is
\* known is the first.
ShadowIndex == IF device.gain = None THEN 1 ELSE device.gain

\* Mutant: after a step of the table the loop forgets that the VGA was reset.
StepTableKeepVga(l, steps, faults) ==
  LET next == TargetIndex(ShadowIndex, steps)
      moved == ApplyTableStep(device, next, faults)
  IN  [device |-> moved, loop |-> l]

StepTable(l, steps, faults) ==
  LET moved == ApplyTableStep(device, TargetIndex(ShadowIndex, steps), faults)
      scored == IF steps > 0 THEN [l EXCEPT !.awaiting = TRUE, !.climbFrom = Floor] ELSE l
  IN  [device |-> moved, loop |-> IF moved.ok THEN [scored EXCEPT !.vga = VgaLinear] ELSE l]

\* At the end of the table only the VGA is left to climb with.
ClimbVga(l, mayClimb, faults) ==
  IF mayClimb /\ ShadowIndex = Top /\ IsR82xx /\ l.vga < VgaTop /\ Burst < RailsWarm
  THEN LET moved == ApplyVgaGain(device, l.vga + 1, faults)
       IN  [device |-> moved, loop |-> [l EXCEPT !.vga = moved.shadow.vga_gain]]
  ELSE [device |-> device, loop |-> [l EXCEPT !.mud = 2]]

Move(l, steps, mayClimb, faults) ==
  CASE steps = 0 -> [device |-> device, loop |-> l]
    [] steps # 0 /\ TargetIndex(ShadowIndex, steps) # ShadowIndex -> StepTable(l, steps, faults)
    [] steps > 0 /\ TargetIndex(ShadowIndex, steps) = ShadowIndex -> ClimbVga(l, mayClimb, faults)
    [] OTHER -> [device |-> device, loop |-> l]

\* The VGA gives back first; a failed call falls back on the table, or not.
VgaBack(l, fallsBack, faults) ==
  IF l.vga <= VgaLinear THEN Move(l, -1, FALSE, faults)
  ELSE LET moved == ApplyVgaGain(device, l.vga - 1, faults)
       IN  IF moved.ok THEN [device |-> moved, loop |-> [l EXCEPT !.vga = @ - 1]]
           ELSE IF fallsBack
           THEN LET step == TargetIndex(ShadowIndex, -1)
                    next == IF step = ShadowIndex THEN moved ELSE ApplyTableStep(moved, step, faults)
                IN  [device |-> next,
                     loop |-> IF step # ShadowIndex /\ next.ok THEN [l EXCEPT !.vga = VgaLinear] ELSE l]
           ELSE [device |-> moved, loop |-> l]

-----------------------------------------------------------------------------
(* The loop *)

Persistent == IsSilent /\ loop.silent >= DropoutWindows
Responded == Floor > loop.climbFrom
AtMost(n, x) == IF x <= n THEN x ELSE n

\* The last climb is scored before anything is decided.
Scored ==
  [loop EXCEPT !.silent = IF IsSilent THEN DropoutWindows ELSE 0,
               !.mud = CASE ~loop.awaiting -> @
                         [] loop.awaiting /\ ~Responded /\ ~Persistent -> AtMost(2, @ + 1)
                         [] OTHER -> 0,
               !.awaiting = FALSE, !.climbFrom = 0,
               !.wasHard = Floor > HardOverload]

Becomes(outcome, faults) ==
  /\ device' = outcome.device /\ loop' = outcome.loop
  /\ faultsLeft' = Spent(faults)
  /\ retuned' = (retuned /\ Restrict(outcome.device.shadow, Stages) = Restrict(device.shadow, Stages))
  /\ UNCHANGED <<antenna, feed, phase, recalibrations>>

Hold(l) == Becomes([device |-> device, loop |-> l], NoFaults)

\* A few silent windows decide nothing.
SilentWindow ==
  /\ phase = "running" /\ IsSilent /\ ~Persistent
  /\ Hold([loop EXCEPT !.silent = @ + 1])

Decides == phase = "running" /\ (IsSilent => Persistent)

PinnedWindow == Decides /\ loop.pinned /\ Hold(Scored)

Acts == Decides /\ ~loop.pinned
IsHard == Floor > HardOverload /\ loop.wasHard

HardOverloaded(faults) ==
  /\ Acts /\ IsHard
  /\ Becomes(Move([Scored EXCEPT !.mud = 0, !.mudStreak = 0, !.hotStreak = 0], -3, FALSE, faults),
             faults)

\* The second hot window in a row steps back.
TooHot(faults) ==
  /\ Acts /\ ~IsHard /\ Floor > High
  /\ LET l == [Scored EXCEPT !.hotStreak = AtMost(2, @ + 1), !.mudStreak = 0]
     IN  IF l.hotStreak < 2 THEN Hold(l)
         ELSE Becomes(VgaBack([l EXCEPT !.mud = 0], TRUE, faults), faults)

\* Below the band the clipped samples decide how far the climb may go.
InTheMud(faults) ==
  /\ Acts /\ Floor < Low
  /\ LET l == [Scored EXCEPT !.mudStreak = AtMost(2, @ + 1), !.hotStreak = 0]
         rails == Burst >= RailsHot
         climbs == /\ ~rails /\ ~(IsStarved /\ ~Persistent)
                   /\ l.mudStreak = 2 /\ l.mud < 2 /\ Burst < RailsWarm
     IN  CASE rails -> Becomes(VgaBack([l EXCEPT !.mud = 0], FALSE, faults), faults)
           [] climbs -> Becomes(Move(l, 1, TRUE, faults), faults)
           [] OTHER -> Hold(l)

InBand == Floor \in Low..High

Compressed(faults) ==
  /\ Acts /\ InBand /\ Burst >= Headroom
  /\ Becomes(VgaBack([Scored EXCEPT !.mud = 0], TRUE, faults), faults)

\* Mutant: a step is taken although it does not land nearer to the target.
AtEaseAlways(faults) ==
  /\ Acts /\ InBand /\ Burst < Headroom
  /\ Becomes(Move([Scored EXCEPT !.mud = 0, !.mudStreak = 0, !.hotStreak = 0], 1, TRUE, faults),
             faults)

\* In the band a step that lands nearer to the target is taken at the second
\* window that wants it; other windows in between do not count.
AtEase(faults) ==
  /\ Acts /\ InBand /\ Burst < Headroom
  /\ LET l == [Scored EXCEPT !.mud = 0, !.mudStreak = 0, !.hotStreak = 0]
         wants == Burst < RailsWarm /\ ~Persistent /\ ClosesOnTarget
     IN  CASE ~wants -> Hold([l EXCEPT !.lowStreak = 0])
           [] wants /\ l.lowStreak = 0 -> Hold([l EXCEPT !.lowStreak = 1])
           [] OTHER -> Becomes(Move([l EXCEPT !.lowStreak = 0], 1, TRUE, faults), faults)

Evaluate ==
  \/ SilentWindow \/ PinnedWindow
  \/ \E faults \in Faults :
       \/ HardOverloaded(faults) \/ TooHot(faults) \/ InTheMud(faults)
       \/ Compressed(faults) \/ AtEase(faults)

NextGain ==
  \/ \E faults \in Faults : OpenDevice(faults) \/ \E cfg \in Configs : ConfigureTuner(cfg, faults)
  \/ Feed \/ Recalibrate \/ Evaluate

-----------------------------------------------------------------------------
(* Properties *)

\* A setting the start-up report calls accepted is what the tuner has: a
\* combined gain its three stages, everything else itself.
Has(d, key) ==
  IF key = "gain"
  THEN Restrict(d.chip, Stages) = LinearGain(TableSteps[d.history.accepted.gain])
  ELSE d.chip[key] = d.history.accepted[key]
ReportTruthful ==
  [][phase = "open" =>
       \A key \in DOMAIN device'.chip \cup {"gain"} :
         Reported(device', key) => Has(device', key)]_gainVars

\* The configuration set the LNA or the mixer by itself.
Staged == {"lna_gain", "mixer_gain"} \cap DOMAIN device.history.accepted # {}

\* While no call failed, the loop knows the gain the tuner has and, from the
\* gain it sets after a retune on, the VGA.
LoopFollowsTuner ==
  phase = "running" /\ faultsLeft = MaxFaults /\ ~Staged =>
    /\ ~retuned => loop.vga = device.chip.vga_gain
    /\ device.gain # None /\ ChipIndex = device.gain

\* Not so.  README.md:117 calls the exported stages the effective gain, Metrics.hpp:673
\* the applied one: while no call failed they are what the tuner has.
EffectiveGainShown ==
  phase = "running" /\ faultsLeft = MaxFaults =>
    Restrict(device.shadow, Stages) = Restrict(device.chip, Stages)

\* Two rules of the loop contradict each other one step apart: the bursts
\* leave no headroom where the floor asks for more gain.
Wants(noise, burst) ==
  \/ noise < Low /\ burst < RailsWarm
  \/ noise \in Low..(Target - 1) /\ burst < RailsWarm /\ burst < Headroom
RefusesBack(noise, burst) ==
  \/ noise < Low /\ burst >= RailsHot
  \/ noise \in Low..High /\ burst >= Headroom
Contradicts(a) ==
  \E s \in 1..(Top + VgaTop - VgaLinear) :
    Wants(a.noise + s, a.burst + s) /\ RefusesBack(a.noise + s + 1, a.burst + s + 1)

\* With a steady antenna the gain comes to rest: the confirmations and the
\* target end every hunt.
ComesToRest ==
  (~Contradicts(antenna) /\ <>[]feed) => <>[][UNCHANGED device]_gainVars

\* Not so: AdaptiveGainLogic.hpp:68-71 promises it of every antenna.
ComesToRestAnywhere == <>[]feed => <>[][UNCHANGED device]_gainVars

\* Not so.  RtlSdrDevice.cpp:1441-1445: the VGA climbs only above the mechanical top.
VgaOnlyAtTop ==
  phase = "running" /\ ~Staged /\ device.chip.vga_gain > VgaLinear => ChipIndex = Top
=============================================================================
