---------------------------- MODULE DeviceProofs ----------------------------
(***************************************************************************)
(* What is known of the device, proved for every value of the constants:    *)
(* the stages of an Airspy (AirspyDevice), the monitor of lost samples      *)
(* (SampleClock), a calibration that measures under one correction only     *)
(* (AutoPpm), and of an RTL-SDR's tuner a report that says nothing the      *)
(* tuner does not have, and a gain loop that knows where the tuner is       *)
(* (AdaptiveGain).                                                          *)
(***************************************************************************)
EXTENDS AirspyDevice, SampleClock, AutoPpm, AdaptiveGain,
        ModularArithmetic, WellFoundedInduction, TLAPS

-----------------------------------------------------------------------------
(* An Airspy *)

ObjectFields == {"frequency", "linearity", "sensitivity", "lna", "mixer", "vga", "bias", "mode",
                 "handle", "failed"}
RadioFields == {"frequency", "lna", "mixer", "vga", "bias"}
Knows(o, r) == \A stage \in Stages3 : o[stage] = r[stage]

SpyInv ==
  /\ DOMAIN object = ObjectFields
  /\ DOMAIN radio = Radios /\ \A r \in Radios : DOMAIN radio[r] = RadioFields
  /\ spyPhase \in {"closed", "open"} => object.mode = None
  /\ spyPhase = "open" => object.handle \in Radios
  /\ StagesKnown

SpecSpy == InitSpy /\ [][NextSpy]_spyVars

\* What each setter keeps of an object and its radio: unless a call failed, an
\* object that set a preset knows the stages.
Paired(d, failing) ==
  /\ DOMAIN d = {"object", "radio"} /\ DOMAIN d.object = ObjectFields /\ DOMAIN d.radio = RadioFields
  /\ failing = None /\ d.object.mode # None => Knows(d.object, d.radio)

LEMMA FrequencyPaired ==
  ASSUME NEW d, NEW hz, NEW failing, Paired(d, failing)
  PROVE  /\ Paired(Frequency(d, hz, failing), failing)
         /\ Frequency(d, hz, failing).object.handle = d.object.handle
BY DEF Paired, Frequency, ObjectFields, RadioFields, Knows, Stages3

LEMMA PresetPaired ==
  ASSUME NEW d, NEW preset \in {"linearity", "sensitivity"}, NEW table, NEW index, NEW failing,
         Paired(d, failing)
  PROVE  /\ Paired(Preset(d, preset, table, index, failing), failing)
         /\ Preset(d, preset, table, index, failing).object.handle = d.object.handle
<1> DEFINE o == [d.object EXCEPT ![preset] = index, !.mode = preset]
           p == [o EXCEPT !.lna = table[index].lna, !.mixer = table[index].mixer, !.vga = table[index].vga]
           r == [d.radio EXCEPT !.lna = table[index].lna, !.mixer = table[index].mixer,
                                !.vga = table[index].vga]
<1>1. CASE index \in {None, d.object[preset]}
  BY <1>1 DEF Preset
<1>2. CASE index \notin {None, d.object[preset]} /\ failing = preset
  <2>1. Preset(d, preset, table, index, failing) = [d EXCEPT !.radio.vga = table[index].vga]
    BY <1>2 DEF Preset
  <2>2. failing # None
    BY <1>2, CallsAssumption DEF Calls
  <2> QED BY <2>1, <2>2 DEF Paired, ObjectFields, RadioFields
<1>3. CASE index \notin {None, d.object[preset]} /\ failing # preset
  <2>1. Preset(d, preset, table, index, failing) = [object |-> p, radio |-> r]
    BY <1>3 DEF Preset
  <2>2. DOMAIN o = ObjectFields /\ o.handle = d.object.handle
    BY DEF Paired, ObjectFields
  <2> HIDE DEF o
  <2>3. DOMAIN p = ObjectFields /\ DOMAIN r = RadioFields /\ Knows(p, r) /\ p.handle = o.handle
    BY <2>2 DEF Paired, ObjectFields, RadioFields, Knows, Stages3
  <2> HIDE DEF p, r
  <2> QED BY <2>1, <2>2, <2>3 DEF Paired
<1> QED BY <1>1, <1>2, <1>3

LEMMA StagePaired ==
  ASSUME NEW d, NEW stage \in Stages3, NEW gain, NEW failing, Paired(d, failing)
  PROVE  /\ Paired(Stage(d, stage, gain, failing), failing)
         /\ Stage(d, stage, gain, failing).object.handle = d.object.handle
BY DEF Paired, Stage, ObjectFields, RadioFields, Knows, Stages3

LEMMA BiasPaired ==
  ASSUME NEW d, NEW on, NEW failing, Paired(d, failing)
  PROVE  /\ Paired(Bias(d, on, failing), failing)
         /\ Bias(d, on, failing).object.handle = d.object.handle
BY DEF Paired, Bias, ObjectFields, RadioFields, Knows, Stages3

LEMMA AppliedPaired ==
  ASSUME NEW d, NEW cfg, NEW failing, Paired(d, failing)
  PROVE  /\ Paired(Applied(d, cfg, failing), failing)
         /\ Applied(d, cfg, failing).object.handle = d.object.handle
<1> DEFINE d1 == Frequency(d, cfg.frequency, failing)
           d2 == Preset(d1, "linearity", Linearity, cfg.linearity, failing)
           d3 == Preset(d2, "sensitivity", Sensitivity, cfg.sensitivity, failing)
           d4 == Stage(d3, "lna", cfg.lna, failing)
           d5 == Stage(d4, "mixer", cfg.mixer, failing)
           d6 == Stage(d5, "vga", cfg.vga, failing)
           Good(x) == Paired(x, failing) /\ x.object.handle = d.object.handle
<1>1. Good(d1)
  BY FrequencyPaired
<1> HIDE DEF d1
<1>2. Good(d2)
  BY <1>1, PresetPaired
<1> HIDE DEF d2
<1>3. Good(d3)
  BY <1>2, PresetPaired
<1> HIDE DEF d3
<1>4. Good(d4)
  BY <1>3, StagePaired DEF Stages3
<1> HIDE DEF d4
<1>5. Good(d5)
  BY <1>4, StagePaired DEF Stages3
<1> HIDE DEF d5
<1>6. Good(d6)
  BY <1>5, StagePaired DEF Stages3
<1> HIDE DEF d6
<1>7. Good(Bias(d6, cfg.bias, failing))
  BY <1>6, BiasPaired
<1>8. Applied(d, cfg, failing) = Bias(d6, cfg.bias, failing)
  BY DEF Applied, d1, d2, d3, d4, d5, d6
<1> QED BY <1>7, <1>8

LEMMA SpyInit == InitSpy => SpyInv
BY DEF InitSpy, SpyInv, NewObject, Unconfigured, ObjectFields, RadioFields, StagesKnown

LEMMA SpyStep == SpyInv /\ [NextSpy]_spyVars => SpyInv'
<1> SUFFICES ASSUME SpyInv, [NextSpy]_spyVars PROVE SpyInv'
  OBVIOUS
<1>1. CASE UNCHANGED spyVars
  BY <1>1 DEF spyVars, SpyInv, StagesKnown
<1>2. CASE FindNone
  BY <1>2 DEF FindNone, Left, SpyInv, StagesKnown, ObjectFields
<1>3. ASSUME NEW r \in Radios, NEW failing, OpenRadio(r, failing) PROVE SpyInv'
  <2>1. object.mode = None /\ object' = [object EXCEPT !.handle = r]
    BY <1>3 DEF OpenRadio, SpyInv
  <2>2. /\ DOMAIN object' = ObjectFields /\ object'.mode = None /\ object'.handle = r
    BY <2>1 DEF SpyInv, ObjectFields
  <2>3. DOMAIN radio' = Radios /\ \A q \in Radios : DOMAIN radio'[q] = RadioFields
    BY <1>3 DEF OpenRadio, SpyInv, RadioFields
  <2> QED BY <2>2, <2>3 DEF SpyInv, StagesKnown
<1>4. ASSUME NEW cfg, NEW failing, ConfigureSpy(cfg, failing) PROVE SpyInv'
  <2> DEFINE before == [object |-> object, radio |-> radio[object.handle]]
             after == Applied(before, cfg, failing)
  <2>1. object.mode = None /\ object.handle \in Radios
    BY <1>4 DEF ConfigureSpy, SpyInv
  <2>2. Paired(before, failing) /\ before.object = object
    BY <2>1 DEF Paired, SpyInv
  <2>3. /\ object' = [after.object EXCEPT !.failed = failing # None]
        /\ radio' = [radio EXCEPT ![object.handle] = after.radio]
        /\ spyPhase' = "configured"
    BY <1>4 DEF ConfigureSpy
  <2> HIDE DEF before
  <2>4. Paired(after, failing) /\ after.object.handle = object.handle
    BY <2>2, AppliedPaired
  <2> HIDE DEF after
  <2>5. /\ DOMAIN object' = ObjectFields /\ object'.handle = object.handle
        /\ object'.mode = after.object.mode /\ object'.failed = (failing # None)
        /\ \A stage \in Stages3 : object'[stage] = after.object[stage]
    BY <2>3, <2>4 DEF Paired, ObjectFields, Stages3
  <2>6. /\ DOMAIN radio' = Radios /\ radio'[object.handle] = after.radio
        /\ \A r \in Radios : DOMAIN radio'[r] = RadioFields
    BY <2>1, <2>3, <2>4 DEF Paired, SpyInv
  <2>7. StagesKnown'
    BY <2>4, <2>5, <2>6 DEF StagesKnown, Paired, Knows
  <2> QED BY <2>3, <2>5, <2>6, <2>7 DEF SpyInv
<1>5. ASSUME NEW failing, StartSpy(failing) PROVE SpyInv'
  BY <1>5 DEF StartSpy, SpyInv, StagesKnown
<1>6. CASE CloseSpy
  BY <1>6 DEF CloseSpy, SpyInv, StagesKnown, ObjectFields
<1>7. CASE NextRun
  BY <1>7 DEF NextRun, SpyInv, StagesKnown, NewObject, ObjectFields
<1> QED BY <1>1, <1>2, <1>3, <1>4, <1>5, <1>6, <1>7 DEF NextSpy

\* Once a preset reached the radio and no setting failed, the object knows the
\* three stages of its radio, in whatever order the configuration names them.
THEOREM SpyStagesKnown == SpecSpy => []StagesKnown
<1>1. SpyInv => StagesKnown
  BY DEF SpyInv
<1> QED BY <1>1, SpyInit, SpyStep, PTL DEF SpecSpy

-----------------------------------------------------------------------------
(* The sample clock *)

\* Some positions of a sequence have a last one.
LEMMA LastPosition ==
  ASSUME NEW n \in Nat, NEW T, T \subseteq 1..n, T # {}
  PROVE  \E i \in T : \A j \in T : j <= i
<1> DEFINE U == {k \in Nat : n - k \in T}
           R == OpToRel(<, Nat)
<1>1. IsWellFoundedOn(R, Nat)
  BY NatLessThanWellFounded
<1>2. U \subseteq Nat /\ U # {}
  <2>1. PICK i \in T : TRUE
    OBVIOUS
  <2>2. i \in 1..n /\ n - i \in Nat /\ n - (n - i) = i
    BY <2>1
  <2> QED BY <2>1, <2>2
<1>3. \A x, y \in Nat : <<y, x>> \in R <=> y < x
  BY DEF OpToRel
<1> HIDE DEF R
<1>4. PICK x \in U : \A y \in U : ~(<<y, x>> \in R)
  <2> HIDE DEF U
  <2> QED BY <1>1, <1>2, WFMin, Zenon
<1>5. ASSUME NEW j \in T PROVE j <= n - x
  <2>1. j \in 1..n /\ n - j \in Nat /\ n - (n - j) = j
    OBVIOUS
  <2>2. n - j \in U
    BY <2>1
  <2>3. ~(n - j < x)
    BY <2>2, <1>2, <1>3, <1>4
  <2> QED BY <2>1, <2>3, <1>4
<1> QED BY <1>4, <1>5

\* The ring of deficits reaches Past back even after the driver's whole queue
\* came at once: 15 transfers and the 16.5 of 900 ms at 2.4 MHz.
HistoryReaches == QueueRoom + Past <= History

Deficits == [at : Nat, size : Nat]
Beyond == Larger(lost - acc.owed, 0)

Accounts == [last : Int \cup {None}, first : Int \cup {None}, t0 : Int, pairs0 : Int, owed : Nat]
Gates == [state : {"Idle", "Pending", "Latched"}, start : Nat, base : Nat, min : Nat]

ClockTypes ==
  /\ now \in Nat /\ delivered \in Nat /\ lost \in Nat /\ caughtUp \in Nat /\ reported \in Nat
  /\ overdue \in BOOLEAN
  /\ acc \in Accounts /\ hist \in Seq(Deficits) /\ gate \in Gates

\* The same, field by field.
FieldTypes ==
  /\ now \in Nat /\ delivered \in Nat /\ lost \in Nat /\ caughtUp \in Nat /\ reported \in Nat
  /\ overdue \in BOOLEAN
  /\ acc.t0 \in Int /\ acc.pairs0 \in Int /\ acc.owed \in Nat
  /\ gate.state \in {"Idle", "Pending", "Latched"}
  /\ gate.start \in Nat /\ gate.base \in Nat /\ gate.min \in Nat
  /\ Len(hist) \in Nat /\ \A i \in 1..Len(hist) : hist[i].at \in Nat /\ hist[i].size \in Nat

\* What waits, and how far back the remembered deficits reach.
ReachInv ==
  /\ Queued \in 0..QueueRoom /\ caughtUp <= now /\ gate.start <= now
  /\ acc.owed = acc.t0 - acc.pairs0
  /\ gate.state # "Idle" => acc.first # None /\ now - acc.first >= Startup
  /\ Len(hist) <= History
  /\ \A i \in 1..Len(hist) : Len(hist) - i + Queued < QueueRoom + now - hist[i].at
  /\ gate.state = "Pending" => \E i \in 1..Len(hist) : now - hist[i].at >= Past

\* A deficit below the level is never compared with again.
Overtaken(level) ==
  \A i \in 1..Len(hist) :
    hist[i].size < level => \E j \in i+1..Len(hist) : now - hist[j].at >= Past
\* Nor one below what has not been caught up since the candidate began.
OvertakenAt(level, start) ==
  \A i \in 1..Len(hist) : hist[i].size < level => \E j \in i+1..Len(hist) : hist[j].at <= start

\* What was reported before the baseline, and the level it reaches since.
Covered(level, before) ==
  /\ reported <= before + level /\ before <= acc.owed /\ level <= Beyond
  /\ Overtaken(level)
  /\ gate.state = "Pending" =>
       /\ level <= gate.base
       /\ OvertakenAt(gate.base + gate.min, gate.start)
       /\ caughtUp > gate.start => gate.base + gate.min <= Beyond

ClockInv ==
  /\ ClockTypes /\ ReachInv
  /\ ~overdue => \E level, before \in 0..lost : Covered(level, before)

SpecClock == InitClock /\ [][NextClock]_clockVars

\* What the ring of deficits keeps: the last ones, the new one among them.
LEMMA RememberedFacts ==
  ASSUME NEW s \in Seq(Deficits), NEW x \in Deficits
  PROVE  /\ Remembered(s, x) \in Seq(Deficits)
         /\ Len(Remembered(s, x)) = Smaller(Len(s) + 1, History)
         /\ Len(Remembered(s, x)) \in 1..History /\ Len(Remembered(s, x)) <= Len(s) + 1
         /\ Remembered(s, x)[Len(Remembered(s, x))] = x
         /\ \A i \in 1..Len(Remembered(s, x))-1 :
              Remembered(s, x)[i] = s[Len(s) + 1 - Len(Remembered(s, x)) + i]
<1> DEFINE all == Append(s, x)
           m == Smaller(Len(all), History)
           lo == Len(all) - m + 1
<1>0. History \in Nat \ {0}
  BY MonitorAssumption
<1>1. all \in Seq(Deficits) /\ Len(all) = Len(s) + 1 /\ all[Len(s) + 1] = x
      /\ \A i \in 1..Len(s) : all[i] = s[i]
  OBVIOUS
<1>2. m \in 1..History /\ m <= Len(s) + 1 /\ lo \in 1..Len(all) /\ m = Len(all) - lo + 1
  <2>1. m \in 1..History /\ m <= Len(all)
    <3>1. Len(all) \in Nat \ {0}
      BY <1>1
    <3> HIDE DEF all
    <3> QED BY <1>0, <3>1 DEF Smaller
  <2> QED BY <1>0, <1>1, <2>1
<1>3. m = Smaller(Len(s) + 1, History)
  BY <1>1
<1> HIDE DEF all, m
<1>8. Len(all) = Len(s) + 1 /\ Len(s) \in Nat
  BY <1>1
<1>4. Remembered(s, x) = SubSeq(all, lo, Len(all))
  BY DEF Remembered, all, m
<1>5. /\ SubSeq(all, lo, Len(all)) \in Seq(Deficits) /\ Len(SubSeq(all, lo, Len(all))) = m
      /\ \A i \in 1..m : SubSeq(all, lo, Len(all))[i] = all[lo + i - 1]
  BY <1>1, <1>2
<1>6. \A i \in 1..m-1 : lo + i - 1 \in 1..Len(s) /\ lo + i - 1 = Len(s) + 1 - m + i
  BY <1>1, <1>2
<1>7. lo + m - 1 = Len(s) + 1
  BY <1>1, <1>2
<1> DEFINE h == Remembered(s, x)
<1>9. h \in Seq(Deficits) /\ Len(h) = m /\ \A i \in 1..m : h[i] = all[lo + i - 1]
  BY <1>4, <1>5
<1> HIDE DEF h, lo
<1>10. h[m] = x
  <2>1. m \in 1..m
    BY <1>2
  <2> QED BY <2>1, <1>1, <1>7, <1>9
<1>11. ASSUME NEW i \in 1..m-1 PROVE h[i] = s[Len(s) + 1 - m + i]
  <2>1. i \in 1..m
    BY <1>2
  <2> QED BY <2>1, <1>1, <1>6, <1>9
<1> QED BY <1>2, <1>3, <1>9, <1>10, <1>11 DEF h

\* The comparison is with the last of those that are old enough, if any is.
LEMMA PastFacts ==
  ASSUME NEW s \in Seq(Deficits), now \in Nat
  PROVE  \/ PastDeficit(s) = None /\ \A i \in 1..Len(s) : now - s[i].at < Past
         \/ \E i \in 1..Len(s) : /\ PastDeficit(s) = s[i].size /\ now - s[i].at >= Past
                                 /\ \A j \in i+1..Len(s) : now - s[j].at < Past
<1> DEFINE old == {i \in 1..Len(s) : now - s[i].at >= Past}
           newest == {i \in DOMAIN s : now - s[i].at >= Past
                                       /\ \A j \in DOMAIN s : j > i => ~(now - s[j].at >= Past)}
<1>0. Past \in Nat /\ DOMAIN s = 1..Len(s) /\ \A i \in 1..Len(s) : s[i].at \in Nat
  <2>1. Past \in Nat
    BY MonitorAssumption
  <2>2. \A i \in 1..Len(s) : s[i] \in Deficits
    OBVIOUS
  <2> QED BY <2>1, <2>2 DEF Deficits
<1>1. PastDeficit(s) = IF newest = {} THEN None ELSE s[CHOOSE i \in newest : TRUE].size
  BY DEF PastDeficit
<1>2. CASE old = {}
  <2>1. newest = {}
    BY <1>0, <1>2
  <2>2. PastDeficit(s) = None
    BY <1>1, <2>1
  <2>3. \A i \in 1..Len(s) : ~(now - s[i].at >= Past)
    BY <1>2
  <2> HIDE DEF old, newest
  <2>4. ASSUME NEW i \in 1..Len(s) PROVE now - s[i].at < Past
    <3>1. s[i].at \in Nat /\ ~(now - s[i].at >= Past)
      BY <1>0, <2>3
    <3> QED BY <1>0, <3>1
  <2> QED BY <2>2, <2>4
<1>3. CASE old # {}
  <2>1. PICK i \in old : \A j \in old : j <= i
    <3> HIDE DEF old
    <3>1. Len(s) \in Nat /\ old \subseteq 1..Len(s)
      BY DEF old
    <3> QED BY <1>3, <3>1, LastPosition
  <2>2. i \in newest
    BY <2>1, <1>0
  <2>3. PICK k \in newest : k = CHOOSE j \in newest : TRUE
    BY <2>2
  <2>4. PastDeficit(s) = s[k].size
    BY <1>1, <2>2, <2>3
  <2>5. /\ k \in 1..Len(s) /\ now - s[k].at >= Past
        /\ \A j \in DOMAIN s : j > k => ~(now - s[j].at >= Past)
    BY <1>0, <2>3
  <2>6. \A j \in k+1..Len(s) : j \in 1..Len(s) /\ j > k /\ s[j].at \in Nat
    BY <1>0, <2>5
  <2>7. ASSUME NEW j \in k+1..Len(s) PROVE now - s[j].at < Past
    <3>1. j \in 1..Len(s) /\ j > k /\ s[j].at \in Nat /\ ~(now - s[j].at >= Past)
      BY <1>0, <2>5, <2>6
    <3> HIDE DEF old, newest
    <3> QED BY <1>0, <3>1
  <2> QED BY <2>4, <2>5, <2>7
<1> QED BY <1>2, <1>3

\* What the gate makes of a deficit.
LEMMA ObserveFacts ==
  ASSUME FieldTypes, NEW d \in Nat, NEW p \in Nat
  PROVE  \/ /\ gate.state = "Idle" /\ d - p > Threshold
            /\ Observe(d, p) = [gate |-> [state |-> "Pending", start |-> now, base |-> p, min |-> d - p],
                                event |-> None]
         \/ gate.state # "Pending" /\ Observe(d, p) = [gate |-> gate, event |-> None]
         \/ Observe(d, p) = [gate |-> Idle, event |-> None]
         \/ /\ gate.state = "Pending" /\ d - gate.base > Threshold /\ now - gate.start >= Recovery
            /\ Observe(d, p) = [gate |-> [Idle EXCEPT !.state = "Latched"],
                                event |-> Smaller(gate.min, d - gate.base)]
         \/ /\ gate.state = "Pending" /\ d - gate.base > Threshold
            /\ Observe(d, p) = [gate |-> [gate EXCEPT !.min = Smaller(gate.min, d - gate.base)],
                                event |-> None]
<1>0. Threshold \in Nat /\ Recovery \in Nat
  BY MonitorAssumption
<1>1. gate.state \in {"Idle", "Pending", "Latched"} /\ now \in Nat
      /\ gate.start \in Nat /\ gate.base \in Nat /\ gate.min \in Nat
  BY DEF FieldTypes
<1>2. CASE gate.state = "Idle"
  BY <1>0, <1>1, <1>2 DEF Observe
<1>3. CASE gate.state = "Pending"
  BY <1>0, <1>1, <1>3 DEF Observe
<1>4. CASE gate.state = "Latched"
  BY <1>0, <1>1, <1>4 DEF Observe
<1> QED BY <1>1, <1>2, <1>3, <1>4

\* A record's type is that of its fields.
LEMMA Fields == ClockTypes => FieldTypes
<1> SUFFICES ASSUME ClockTypes PROVE FieldTypes
  OBVIOUS
<1>0. hist \in Seq(Deficits)
  BY DEF ClockTypes
<1>1. Len(hist) \in Nat /\ \A i \in 1..Len(hist) : hist[i] \in Deficits
  BY <1>0
<1>2. \A i \in 1..Len(hist) : hist[i].at \in Nat /\ hist[i].size \in Nat
  BY <1>1 DEF Deficits
<1>3. acc.t0 \in Int /\ acc.pairs0 \in Int /\ acc.owed \in Nat
  BY DEF ClockTypes, Accounts
<1>4. /\ gate.state \in {"Idle", "Pending", "Latched"}
      /\ gate.start \in Nat /\ gate.base \in Nat /\ gate.min \in Nat
  BY DEF ClockTypes, Gates
<1> QED BY <1>1, <1>2, <1>3, <1>4 DEF ClockTypes, FieldTypes

LEMMA ClockInit == InitClock => ClockInv
<1> SUFFICES ASSUME InitClock PROVE ClockInv
  OBVIOUS
<1>0. None \notin Int /\ History \in Nat \ {0} /\ QueueRoom \in Nat \ {0}
  BY MonitorAssumption
<1>1. ClockTypes
  <2>1. acc \in Accounts
    BY DEF InitClock, Accounts
  <2>2. gate \in Gates
    BY DEF InitClock, Idle, Gates
  <2>3. hist \in Seq(Deficits)
    BY DEF InitClock
  <2>4. /\ now \in Nat /\ delivered \in Nat /\ lost \in Nat /\ caughtUp \in Nat /\ reported \in Nat
        /\ overdue \in BOOLEAN
    BY DEF InitClock
  <2> QED BY <2>1, <2>2, <2>3, <2>4 DEF ClockTypes
<1>2. ReachInv
  BY <1>0 DEF InitClock, ReachInv, Idle, Queued
<1>3. Covered(0, 0)
  BY DEF InitClock, Covered, Idle, Beyond, Larger, Overtaken
<1> QED BY <1>1, <1>2, <1>3 DEF ClockInv, InitClock

\* What an arrival is to the rest.
LEMMA ArriveFacts ==
  ASSUME FieldTypes, ReachInv, Arrive
  PROVE  /\ now' = now /\ lost' = lost /\ delivered' = delivered + 1
         /\ Queued \in 1..QueueRoom /\ Queued' = Queued - 1 /\ Queued' = now - lost - delivered'
         /\ caughtUp' = IF Queued = 1 THEN now ELSE caughtUp
         /\ overdue' \in BOOLEAN /\ (overdue => overdue')
         /\ ~overdue' /\ Queued > 1 => now - caughtUp < Recovery
         /\ caughtUp' \in Nat /\ caughtUp' <= now
<1>0. QueueRoom \in Nat \ {0} /\ Recovery \in Nat
  BY MonitorAssumption
<1>1. Queued \in 0..QueueRoom /\ Queued > 0 /\ caughtUp <= now
  BY DEF Arrive, ReachInv
<1>2. /\ now' = now /\ lost' = lost /\ delivered' = delivered + 1
      /\ caughtUp' = (IF Queued = 1 THEN now ELSE caughtUp)
      /\ overdue' = (overdue \/ (Queued > 1 /\ now - caughtUp >= Recovery))
  BY DEF Arrive
<1>3. Queued' = Queued - 1 /\ Queued' = now - lost - delivered'
  BY <1>2 DEF FieldTypes, Queued
<1>4. caughtUp' \in Nat /\ caughtUp' <= now
  BY <1>1, <1>2 DEF FieldTypes
<1>5. overdue' \in BOOLEAN /\ (overdue => overdue')
  BY <1>2
<1>6. ~overdue' /\ Queued > 1 => now - caughtUp < Recovery
  <2>1. now - caughtUp \in Int
    BY DEF FieldTypes
  <2>2. Queued > 1 /\ now - caughtUp >= Recovery => overdue'
    BY <1>2
  <2> QED BY <1>0, <2>1, <2>2
<1>7. Queued \in 1..QueueRoom
  BY <1>0, <1>1
<1> QED BY <1>2, <1>3, <1>4, <1>5, <1>6, <1>7

\* A baseline: what was reported is behind it.
LEMMA BaselineStep ==
  ASSUME ClockInv, Arrive, gate' = Idle \/ (gate' = gate /\ gate.state = "Idle"),
         hist' = hist \/ hist' = <<>>, reported' = reported,
         \/ acc' = Baseline
         \/ acc' = [Baseline EXCEPT !.first = now]
  PROVE  ClockInv'
<1>0. None \notin Int /\ History \in Nat \ {0} /\ QueueRoom \in Nat \ {0}
  BY MonitorAssumption
<1>1. FieldTypes /\ ClockTypes /\ ReachInv
  BY Fields DEF ClockInv
<1>2. /\ now' = now /\ lost' = lost /\ delivered' = delivered + 1
      /\ Queued \in 1..QueueRoom /\ Queued' = Queued - 1 /\ Queued' = now - lost - delivered'
      /\ overdue' \in BOOLEAN /\ (overdue => overdue')
      /\ caughtUp' \in Nat /\ caughtUp' <= now
  BY <1>1, ArriveFacts
<1>3. Owed \in Nat /\ Owed >= lost /\ Owed = now - delivered'
  <2>1. Owed = Queued' + lost
    BY DEF Owed
  <2>2. Queued' \in Nat /\ lost \in Nat /\ now \in Nat /\ delivered' \in Nat
    <3>1. lost \in Nat /\ now \in Nat /\ delivered \in Nat
      BY <1>1 DEF FieldTypes
    <3> QED BY <1>0, <1>2, <3>1
  <2> QED BY <1>2, <2>1, <2>2
<1>4. acc'.t0 = now /\ acc'.pairs0 = delivered' /\ acc'.owed = Owed /\ acc' \in Accounts
  <2>1. now \in Int /\ delivered' \in Int /\ acc \in Accounts
    BY <1>1, <1>2 DEF ClockTypes, FieldTypes
  <2>2. Baseline \in Accounts /\ Baseline.t0 = now /\ Baseline.pairs0 = delivered' /\ Baseline.owed = Owed
    BY <1>3, <2>1 DEF Baseline, Accounts
  <2> HIDE DEF Baseline
  <2> QED BY <2>1, <2>2 DEF Accounts
<1>5. gate' \in Gates /\ gate'.state = "Idle" /\ gate'.start <= now
  BY <1>1 DEF ClockTypes, FieldTypes, ReachInv, Gates, Idle
<1>6. hist' \in Seq(Deficits)
  <2>1. hist \in Seq(Deficits) /\ <<>> \in Seq(Deficits)
    BY <1>1 DEF ClockTypes
  <2> QED BY <2>1
<1>7. ClockTypes' /\ FieldTypes'
  <2>1. ClockTypes'
    <3>1. /\ now' \in Nat /\ delivered' \in Nat /\ lost' \in Nat /\ reported' \in Nat
          /\ caughtUp' \in Nat /\ overdue' \in BOOLEAN
      BY <1>1, <1>2 DEF FieldTypes
    <3> QED BY <1>4, <1>5, <1>6, <3>1 DEF ClockTypes
  <2>2. ClockTypes' => FieldTypes'
    BY Fields, PTL
  <2> QED BY <2>1, <2>2
<1>8. ReachInv'
  <2>1. Len(hist') <= History
    BY <1>0, <1>1 DEF ReachInv
  <2>2. ASSUME NEW i \in 1..Len(hist')
        PROVE  Len(hist') - i + Queued' < QueueRoom + now - hist'[i].at
    <3>1. hist' = hist
      BY <2>2
    <3>2. /\ Len(hist) - i + Queued < QueueRoom + now - hist[i].at
          /\ hist[i].at \in Nat /\ Len(hist) \in Nat /\ i \in Int
      BY <1>1, <2>2, <3>1 DEF ReachInv, FieldTypes
    <3>3. Len(hist) - i + Queued' < QueueRoom + now - hist[i].at
      <4>1. now \in Nat /\ Queued \in Int /\ QueueRoom \in Int /\ Queued' = Queued - 1
        BY <1>0, <1>1, <1>2 DEF FieldTypes
      <4> QED BY <3>2, <4>1
    <3> QED BY <3>1, <3>3
  <2>3. Queued' \in 0..QueueRoom /\ acc'.owed = acc'.t0 - acc'.pairs0
    BY <1>0, <1>2, <1>3, <1>4
  <2> QED BY <1>2, <1>5, <2>1, <2>2, <2>3 DEF ReachInv
<1>9. ASSUME ~overdue' PROVE \E level, before \in 0..lost' : Covered(level, before)'
  <2>1. PICK level \in 0..lost, before \in 0..lost : Covered(level, before)
    BY <1>2, <1>9 DEF ClockInv
  <2>2. reported <= lost
    BY <1>1, <2>1 DEF Covered, Beyond, Larger, FieldTypes
  <2>3. Overtaken(0)'
    BY <1>7 DEF Overtaken, FieldTypes
  <2>4. 0 <= Beyond'
    BY <1>7 DEF Beyond, Larger, FieldTypes
  <2>5. PICK all \in 0..lost : all = lost
    BY <1>1 DEF FieldTypes
  <2>6. Covered(0, all)'
    BY <1>1, <1>2, <1>3, <1>4, <1>5, <2>2, <2>3, <2>4, <2>5 DEF Covered, FieldTypes
  <2>7. 0 \in 0..lost' /\ all \in 0..lost'
    BY <1>1, <1>2, <2>5 DEF FieldTypes
  <2> QED BY <2>6, <2>7
<1> QED BY <1>7, <1>8, <1>9 DEF ClockInv

\* A deficit that is remembered behind the others keeps what is below a level
\* overtaken, if it is not below it itself.
LEMMA OvertakenKept ==
  ASSUME FieldTypes, FieldTypes', now' = now, NEW d \in Nat, NEW level \in Int, level <= d, NEW start \in Nat,
         hist \in Seq(Deficits), hist' = Remembered(hist, [at |-> now, size |-> d])
  PROVE  /\ Overtaken(level) => Overtaken(level)'
         /\ OvertakenAt(level, start) => OvertakenAt(level, start)'
<1> DEFINE x == [at |-> now, size |-> d]
           m == Len(hist')
           n == Len(hist) + 1
<1>1. /\ m \in Nat /\ n \in Nat /\ m <= n /\ m >= 1 /\ hist'[m] = x
      /\ \A i \in 1..m-1 : hist'[i] = hist[n - m + i]
  <2>1. x \in Deficits
    BY DEF Deficits, FieldTypes
  <2> DEFINE h == Remembered(hist, x)
  <2>2. hist' = h
    OBVIOUS
  <2> HIDE DEF x
  <2>3. /\ Len(h) \in 1..History /\ Len(h) <= Len(hist) + 1 /\ h[Len(h)] = x
        /\ \A i \in 1..Len(h)-1 : h[i] = hist[Len(hist) + 1 - Len(h) + i]
    BY <2>1, RememberedFacts
  <2> HIDE DEF h
  <2>4. Len(h) \in Nat /\ Len(h) >= 1
    BY <2>3, MonitorAssumption
  <2>5. n \in Nat
    BY DEF FieldTypes
  <2>6. m = Len(h)
    BY <2>2
  <2>7. hist'[m] = x
    BY <2>2, <2>3, <2>6
  <2> HIDE DEF m
  <2>8. m \in Nat /\ m >= 1 /\ m <= n
    BY <2>3, <2>4, <2>6
  <2>9. ASSUME NEW i \in 1..m-1 PROVE hist'[i] = hist[n - m + i]
    <3>1. i \in 1..Len(h)-1 /\ hist'[i] = h[i]
      BY <2>2, <2>6
    <3>2. h[i] = hist[Len(hist) + 1 - Len(h) + i]
      BY <2>3, <3>1
    <3> QED BY <2>6, <3>1, <3>2
  <2> HIDE DEF n
  <2> QED BY <2>5, <2>7, <2>8, <2>9
<1>2. x.size = d
  OBVIOUS
<1>0. Len(hist) = n - 1
  BY DEF FieldTypes
<1> HIDE DEF x, m, n
<1>3. ASSUME NEW i \in 1..m, hist'[i].size < level
      PROVE  n - m + i \in 1..Len(hist) /\ hist[n - m + i].size < level
  <2>1. i # m
    BY <1>1, <1>2, <1>3
  <2>2. i \in 1..m-1
    BY <1>1, <2>1
  <2>3. hist'[i] = hist[n - m + i]
    BY <1>1, <2>2
  <2>4. n - m + i \in 1..Len(hist)
    BY <1>0, <1>1, <2>2
  <2> QED BY <1>3, <2>3, <2>4
<1>4. ASSUME NEW i \in 1..m, NEW j \in (n - m + i + 1)..Len(hist)
      PROVE  j - (n - m) \in i+1..m /\ hist'[j - (n - m)] = hist[j]
  <2>1. PICK k \in 1..m-1 : k = j - (n - m) /\ k \in i+1..m /\ n - m + k = j
    <3>1. j \in Int /\ i \in Int /\ n - m + i + 1 <= j /\ j <= n - 1 /\ i >= 1
      BY <1>0, <1>1
    <3>2. j - (n - m) \in 1..m-1 /\ j - (n - m) \in i+1..m /\ n - m + (j - (n - m)) = j
      BY <1>1, <3>1
    <3> QED BY <3>2
  <2> QED BY <1>1, <2>1
<1>5. ASSUME Overtaken(level) PROVE Overtaken(level)'
  <2> SUFFICES ASSUME NEW i \in 1..m, hist'[i].size < level
               PROVE  \E j \in i+1..m : now' - hist'[j].at >= Past
    BY DEF Overtaken, m
  <2>1. PICK j \in (n - m + i + 1)..Len(hist) : now - hist[j].at >= Past
    BY <1>3, <1>5 DEF Overtaken
  <2> QED BY <1>4, <2>1
<1>6. ASSUME OvertakenAt(level, start) PROVE OvertakenAt(level, start)'
  <2> SUFFICES ASSUME NEW i \in 1..m, hist'[i].size < level
               PROVE  \E j \in i+1..m : hist'[j].at <= start
    BY DEF OvertakenAt, m
  <2>1. PICK j \in (n - m + i + 1)..Len(hist) : hist[j].at <= start
    BY <1>3, <1>6 DEF OvertakenAt
  <2> QED BY <1>4, <2>1
<1> QED BY <1>5, <1>6

\* The deficit a callback finds: what was lost since the baseline, and what
\* still waits.
LEMMA DeficitFacts ==
  ASSUME FieldTypes, ReachInv, Arrive
  PROVE  Deficit \in Nat /\ Beyond \in 0..lost /\ Beyond <= Deficit /\ (Queued' = 0 => Deficit = Beyond)
<1>1. now \in Nat /\ lost \in Nat /\ acc.t0 \in Int /\ acc.pairs0 \in Int /\ acc.owed \in Nat
  BY DEF FieldTypes
<1>2. /\ delivered' \in Int /\ Queued' = now - lost - delivered' /\ Queued' >= 0
      /\ acc.owed = acc.t0 - acc.pairs0
  <2>1. delivered' = delivered + 1 /\ delivered \in Nat
    BY ArriveFacts DEF FieldTypes
  <2>2. Queued \in 1..QueueRoom /\ Queued' = Queued - 1 /\ Queued' = now - lost - delivered'
    BY ArriveFacts
  <2>3. Queued' >= 0
    BY <2>2, MonitorAssumption
  <2> QED BY <2>1, <2>2, <2>3 DEF ReachInv
<1> DEFINE q == Queued'
           d == delivered'
<1>3. Deficit = Larger((now - acc.t0) - (d - acc.pairs0), 0)
  BY DEF Deficit
<1>4. q \in Int /\ d \in Int /\ q = now - lost - d /\ q >= 0
  <2>1. d \in Int /\ q = now - lost - d /\ q >= 0
    BY <1>2
  <2> HIDE DEF q, d
  <2> QED BY <1>1, <2>1
<1> HIDE DEF q, d
<1>5. (now - acc.t0) - (d - acc.pairs0) = q + lost - acc.owed
  BY <1>1, <1>2, <1>4
<1>6. Deficit = Larger(q + lost - acc.owed, 0)
  BY <1>3, <1>5
<1>7. Deficit \in Nat /\ Beyond \in 0..lost /\ Beyond <= Deficit /\ (q = 0 => Deficit = Beyond)
  BY <1>1, <1>4, <1>6 DEF Larger, Beyond
<1> QED BY <1>7 DEF q

\* What the ring of deficits holds after a callback: it still reaches back far
\* enough for a candidate to be held against something.
LEMMA HistoryStep ==
  ASSUME HistoryReaches, ClockTypes, ReachInv, Arrive, NEW d \in Nat,
         hist' = Remembered(hist, [at |-> now, size |-> d])
  PROVE  /\ hist' \in Seq(Deficits) /\ Len(hist') \in 1..History
         /\ hist'[Len(hist')] = [at |-> now, size |-> d]
         /\ \A i \in 1..Len(hist') : Len(hist') - i + Queued' < QueueRoom + now - hist'[i].at
         /\ gate.state = "Pending" => \E i \in 1..Len(hist') : now - hist'[i].at >= Past
<1> DEFINE x == [at |-> now, size |-> d]
           h == Remembered(hist, x)
           m == Len(h)
           n == Len(hist) + 1
<1>0. FieldTypes /\ hist \in Seq(Deficits) /\ x \in Deficits
  BY Fields DEF ClockTypes, Deficits
<1>1. hist' = h
  OBVIOUS
<1>2. x.at = now
  OBVIOUS
<1> HIDE DEF x
<1>3. /\ h \in Seq(Deficits) /\ m = Smaller(n, History) /\ m \in 1..History /\ m <= n /\ h[m] = x
      /\ \A i \in 1..m-1 : h[i] = hist[n - m + i]
  BY <1>0, RememberedFacts
<1>4. n - 1 = Len(hist) /\ n \in Nat /\ History \in Nat \ {0} /\ QueueRoom \in Nat \ {0} /\ Past \in Nat
  BY <1>0, MonitorAssumption DEF FieldTypes
<1> HIDE DEF h, m, n
<1> DEFINE q == Queued'
<1>5. q = Queued - 1 /\ Queued \in 1..QueueRoom /\ now \in Nat
  BY <1>0, ArriveFacts DEF FieldTypes
<1> HIDE DEF q
<1>6. ASSUME NEW i \in 1..m PROVE m - i + q < QueueRoom + now - h[i].at
  <2>1. CASE i = m
    <3>1. h[i].at = now /\ m - i = 0
      BY <1>2, <1>3, <1>4, <2>1
    <3>2. q < QueueRoom /\ q \in Int
      BY <1>4, <1>5
    <3>3. QueueRoom \in Int /\ now \in Int
      BY <1>4, <1>5
    <3>4. m - i + q = q /\ QueueRoom + now - h[i].at = QueueRoom
      BY <3>1, <3>2, <3>3
    <3> QED BY <3>2, <3>4
  <2>2. CASE i # m
    <3>1. i \in 1..m-1
      BY <1>3, <1>4, <2>2
    <3>2. h[i] = hist[n - m + i]
      BY <1>3, <3>1
    <3>3. n - m + i \in 1..Len(hist) /\ (n - 1) - (n - m + i) = m - i - 1
      BY <1>3, <1>4, <3>1
    <3>4. /\ (n - 1) - (n - m + i) + Queued < QueueRoom + now - hist[n - m + i].at
          /\ hist[n - m + i].at \in Nat
      BY <1>0, <1>4, <3>3 DEF ReachInv, FieldTypes
    <3>5. m - i - 1 + Queued < QueueRoom + now - h[i].at /\ h[i].at \in Nat
      BY <3>2, <3>3, <3>4
    <3> QED BY <1>3, <1>4, <1>5, <3>5
  <2> QED BY <2>1, <2>2
<1>7. ASSUME gate.state = "Pending" PROVE \E i \in 1..m : now - h[i].at >= Past
  <2>1. PICK k \in 1..Len(hist) : now - hist[k].at >= Past
    BY <1>7 DEF ReachInv
  <2>2. CASE n <= History
    <3>1. m = n
      BY <1>3, <1>4, <2>2 DEF Smaller
    <3>2. k \in 1..m-1 /\ n - m + k = k
      BY <1>4, <3>1
    <3>3. h[k] = hist[k]
      BY <1>3, <3>2
    <3>4. k \in 1..m
      BY <1>3, <1>4, <3>2
    <3> QED BY <2>1, <3>3, <3>4
  <2>3. CASE n > History
    <3>1. m = History
      BY <1>3, <1>4, <2>3 DEF Smaller
    <3>2. 1 \in 1..m
      BY <1>4, <3>1
    <3>3. m - 1 + q < QueueRoom + now - h[1].at
      BY <1>6, <3>2
    <3>4. h[1].at \in Nat
      <4>1. h[1] \in Deficits
        BY <1>3, <3>2 DEF m
      <4> QED BY <4>1 DEF Deficits
    <3>5. now - h[1].at >= Past
      BY <1>4, <1>5, <3>1, <3>3, <3>4 DEF HistoryReaches
    <3> QED BY <3>2, <3>5
  <2> QED BY <1>3, <1>4, <2>2, <2>3
<1> QED BY <1>1, <1>3, <1>6, <1>7 DEF m, q, x

\* What a measuring callback makes of the gate.
Held == gate.state # "Pending" /\ gate' = gate /\ reported' = reported
Cleared == gate' = Idle /\ reported' = reported
Begun(d) ==
  \E i \in 1..Len(hist') :
    /\ d - hist'[i].size > Threshold /\ now - hist'[i].at >= Past
    /\ \A j \in i+1..Len(hist') : now - hist'[j].at < Past
    /\ gate' = [state |-> "Pending", start |-> now, base |-> hist'[i].size, min |-> d - hist'[i].size]
    /\ reported' = reported
Waits(d) ==
  /\ gate.state = "Pending" /\ d - gate.base > Threshold
  /\ gate' = [gate EXCEPT !.min = Smaller(gate.min, d - gate.base)] /\ reported' = reported
Reports(d) ==
  /\ gate.state = "Pending" /\ d - gate.base > Threshold /\ now - gate.start >= Recovery
  /\ gate' = [Idle EXCEPT !.state = "Latched"]
  /\ reported' = reported + Smaller(gate.min, d - gate.base)

LEMMA MeasureOutcome ==
  ASSUME HistoryReaches, ClockTypes, ReachInv, Measure, NEW d \in Nat, d = Deficit
  PROVE  Held \/ Cleared \/ Begun(d) \/ Waits(d) \/ Reports(d)
<1>0. FieldTypes /\ now \in Nat /\ None \notin Int
  BY Fields, MonitorAssumption DEF FieldTypes
<1>1. Arrive /\ hist' = Remembered(hist, [at |-> now, size |-> d])
  BY DEF Measure
<1>2. PICK h \in Seq(Deficits) : h = hist' /\ Len(h) \in Nat
                                 /\ (gate.state = "Pending" => \E i \in 1..Len(h) : now - h[i].at >= Past)
  <2>1. hist' \in Seq(Deficits)
        /\ (gate.state = "Pending" => \E i \in 1..Len(hist') : now - hist'[i].at >= Past)
    BY <1>1, HistoryStep
  <2> QED BY <2>1
<1>3. \A i \in 1..Len(h) : h[i].at \in Nat /\ h[i].size \in Nat
  <2>1. \A i \in 1..Len(h) : h[i] \in Deficits
    BY <1>2
  <2> QED BY <2>1 DEF Deficits
<1>4. CASE PastDeficit(h) = None
  <2>1. \A i \in 1..Len(h) : now - h[i].at < Past
    <3>1. \A i \in 1..Len(h) : h[i].size # None
      BY <1>0, <1>3
    <3> QED BY <1>0, <1>4, <3>1, PastFacts
  <2>2. gate.state # "Pending"
    <3>1. \A i \in 1..Len(h) : ~(now - h[i].at >= Past)
      <4> SUFFICES ASSUME NEW i \in 1..Len(h) PROVE ~(now - h[i].at >= Past)
        OBVIOUS
      <4>1. h[i].at \in Nat /\ Past \in Nat /\ now - h[i].at < Past
        BY <1>3, <2>1, MonitorAssumption
      <4> QED BY <1>0, <4>1
    <3> QED BY <1>2, <3>1
  <2>3. gate' = gate /\ reported' = reported
    BY <1>2, <1>4 DEF Measure
  <2> QED BY <2>2, <2>3 DEF Held
<1>5. CASE PastDeficit(h) # None
  <2>1. PICK k \in 1..Len(h) : /\ PastDeficit(h) = h[k].size /\ now - h[k].at >= Past
                               /\ \A j \in k+1..Len(h) : now - h[j].at < Past
    BY <1>0, <1>5, PastFacts
  <2>2. PICK p \in Nat : p = h[k].size
    BY <1>3
  <2>3. /\ gate' = Observe(d, p).gate
        /\ IF Observe(d, p).event = None THEN reported' = reported
           ELSE reported' = reported + Observe(d, p).event
    BY <1>2, <1>5, <2>1, <2>2 DEF Measure
  <2>4. \/ /\ gate.state = "Idle" /\ d - p > Threshold
           /\ Observe(d, p) = [gate |-> [state |-> "Pending", start |-> now, base |-> p, min |-> d - p],
                               event |-> None]
        \/ gate.state # "Pending" /\ Observe(d, p) = [gate |-> gate, event |-> None]
        \/ Observe(d, p) = [gate |-> Idle, event |-> None]
        \/ /\ gate.state = "Pending" /\ d - gate.base > Threshold /\ now - gate.start >= Recovery
           /\ Observe(d, p) = [gate |-> [Idle EXCEPT !.state = "Latched"],
                               event |-> Smaller(gate.min, d - gate.base)]
        \/ /\ gate.state = "Pending" /\ d - gate.base > Threshold
           /\ Observe(d, p) = [gate |-> [gate EXCEPT !.min = Smaller(gate.min, d - gate.base)],
                               event |-> None]
    BY <1>0, ObserveFacts
  <2>5. Smaller(gate.min, d - gate.base) # None
    <3>1. Smaller(gate.min, d - gate.base) \in Int
      BY <1>0 DEF Smaller, FieldTypes
    <3> QED BY <1>0, <3>1
  <2> DEFINE o == Observe(d, p)
             least == Smaller(gate.min, d - gate.base)
             waiting == [gate EXCEPT !.min = least]
             latched == [Idle EXCEPT !.state = "Latched"]
  <2> HIDE DEF o, least, waiting, latched
  <2>6. CASE gate.state = "Idle" /\ d - p > Threshold
             /\ o = [gate |-> [state |-> "Pending", start |-> now, base |-> p, min |-> d - p], event |-> None]
    BY <1>2, <2>1, <2>2, <2>3, <2>6 DEF Begun, o
  <2>7. CASE gate.state # "Pending" /\ o = [gate |-> gate, event |-> None]
    BY <2>3, <2>7 DEF Held, o
  <2>8. CASE o = [gate |-> Idle, event |-> None]
    BY <2>3, <2>8 DEF Cleared, o
  <2>9. CASE /\ gate.state = "Pending" /\ d - gate.base > Threshold /\ now - gate.start >= Recovery
             /\ o = [gate |-> latched, event |-> least]
    <3>1. o.gate = latched /\ o.event = least /\ least # None
      BY <2>5, <2>9 DEF least
    <3> QED BY <2>3, <2>9, <3>1 DEF Reports, o, least, latched
  <2>10. CASE /\ gate.state = "Pending" /\ d - gate.base > Threshold
              /\ o = [gate |-> waiting, event |-> None]
    <3>1. o.gate = waiting /\ o.event = None
      BY <2>10
    <3> QED BY <2>3, <2>10, <3>1 DEF Waits, o, least, waiting
  <2> QED BY <2>4, <2>6, <2>7, <2>8, <2>9, <2>10 DEF o, least, waiting, latched
<1> QED BY <1>4, <1>5

\* The gate stays well-formed, and a candidate has something to be compared with.
LEMMA MeasureGate ==
  ASSUME HistoryReaches, ClockTypes, ReachInv, Measure
  PROVE  /\ gate' \in Gates /\ gate'.start <= now /\ reported' \in Nat
         /\ gate'.state = "Pending" => \E i \in 1..Len(hist') : now - hist'[i].at >= Past
<1>0. FieldTypes /\ Arrive /\ Threshold \in Nat
  BY Fields, MonitorAssumption DEF Measure
<1>1. now \in Nat /\ reported \in Nat /\ gate \in Gates /\ gate.start <= now
      /\ gate.start \in Nat /\ gate.base \in Nat /\ gate.min \in Nat
  BY <1>0 DEF FieldTypes, ClockTypes, ReachInv
<1>2. PICK d \in Nat : d = Deficit
  BY <1>0, DeficitFacts
<1>3. /\ hist' \in Seq(Deficits)
      /\ gate.state = "Pending" => \E i \in 1..Len(hist') : now - hist'[i].at >= Past
  <2>1. hist' = Remembered(hist, [at |-> now, size |-> d])
    BY <1>2 DEF Measure
  <2> QED BY <1>0, <2>1, HistoryStep
<1>4. Idle \in Gates /\ Idle.state = "Idle" /\ Idle.start = 0
  BY DEF Idle, Gates
<1>5. CASE Held
  BY <1>1, <1>3, <1>5 DEF Held
<1>6. CASE Cleared
  BY <1>1, <1>4, <1>6 DEF Cleared
<1>7. CASE Begun(d)
  <2>1. PICK i \in 1..Len(hist') :
          /\ d - hist'[i].size > Threshold /\ now - hist'[i].at >= Past
          /\ gate' = [state |-> "Pending", start |-> now, base |-> hist'[i].size, min |-> d - hist'[i].size]
          /\ reported' = reported
    BY <1>7 DEF Begun
  <2>2. hist'[i].size \in Nat
    <3>1. hist'[i] \in Deficits
      BY <1>3
    <3> QED BY <3>1 DEF Deficits
  <2>3. d - hist'[i].size \in Nat
    BY <1>0, <2>1, <2>2
  <2> QED BY <1>1, <2>1, <2>2, <2>3 DEF Gates
<1>8. d - gate.base > Threshold => Smaller(gate.min, d - gate.base) \in Nat
  BY <1>0, <1>1 DEF Smaller
<1>9. CASE Waits(d)
  <2>1. gate' \in Gates /\ gate'.start = gate.start
    BY <1>1, <1>8, <1>9 DEF Waits, Gates
  <2> QED BY <1>1, <1>3, <1>9, <2>1 DEF Waits
<1>10. CASE Reports(d)
  <2>1. gate' \in Gates /\ gate'.start = 0 /\ gate'.state = "Latched"
    BY <1>10 DEF Reports, Gates, Idle
  <2>2. reported' \in Nat
    BY <1>1, <1>8, <1>10 DEF Reports
  <2> QED BY <1>1, <2>1, <2>2
<1> QED BY <1>2, <1>5, <1>6, <1>7, <1>9, <1>10, MeasureOutcome

\* What was reported stays covered: a candidate is measured from a level that
\* is not below the last one, and at the end of its window what remains of it
\* was lost, for the queue was caught up within the window.
LEMMA MeasureCovered ==
  ASSUME HistoryReaches, ClockTypes, ReachInv, Measure, ClockTypes', ~overdue',
         NEW level \in 0..lost, NEW before \in 0..lost, Covered(level, before)
  PROVE  \E next \in 0..lost : Covered(next, before)'
<1>0. /\ FieldTypes /\ FieldTypes' /\ Arrive
      /\ Recovery \in Nat /\ Past \in Nat /\ Past <= Recovery /\ Threshold \in Nat
  <2>1. ClockTypes' => FieldTypes'
    BY Fields, PTL
  <2> QED BY <2>1, Fields, MonitorAssumption DEF Measure
<1>1. PICK d \in Nat, b \in Nat, mn \in Nat, st \in Nat, byd \in 0..lost :
        /\ d = Deficit /\ b = gate.base /\ mn = gate.min /\ st = gate.start /\ byd = Beyond
        /\ byd <= d /\ (Queued' = 0 => d = byd)
  <2>1. Deficit \in Nat /\ Beyond \in 0..lost /\ Beyond <= Deficit /\ (Queued' = 0 => Deficit = Beyond)
    BY <1>0, DeficitFacts
  <2>2. gate.base \in Nat /\ gate.min \in Nat /\ gate.start \in Nat
    BY <1>0 DEF FieldTypes
  <2> QED BY <2>1, <2>2
<1>2. now' = now /\ lost' = lost /\ acc'.owed = acc.owed /\ now \in Nat /\ lost \in Nat /\ acc.owed \in Nat
  <2>1. acc' = [acc EXCEPT !.last = now] /\ acc \in Accounts
    BY DEF Measure, ClockTypes
  <2>2. acc'.owed = acc.owed
    BY <2>1 DEF Accounts
  <2> QED BY <1>0, <2>2, ArriveFacts DEF FieldTypes
<1>3. Beyond' = byd
  BY <1>1, <1>2 DEF Beyond
<1>4. level \in Nat /\ before \in Nat /\ level <= byd /\ before <= acc.owed /\ reported <= before + level
      /\ level <= d /\ Overtaken(level) /\ reported \in Nat /\ byd \in Nat
  <2>1. level <= byd /\ before <= acc.owed /\ reported <= before + level /\ Overtaken(level)
    BY <1>1 DEF Covered
  <2> QED BY <1>0, <1>1, <1>2, <2>1 DEF FieldTypes
<1>5. hist \in Seq(Deficits) /\ hist' = Remembered(hist, [at |-> now, size |-> d])
  BY <1>1 DEF Measure, ClockTypes
<1>6. /\ hist' \in Seq(Deficits) /\ Len(hist') \in Nat /\ Len(hist') >= 1
      /\ hist'[Len(hist')] = [at |-> now, size |-> d]
  <2>1. /\ hist' \in Seq(Deficits) /\ Len(hist') \in 1..History
        /\ hist'[Len(hist')] = [at |-> now, size |-> d]
    BY <1>0, <1>5, HistoryStep
  <2> QED BY <2>1
<1>7. Overtaken(level)'
  BY <1>0, <1>2, <1>4, <1>5, OvertakenKept
<1>8. ASSUME gate'.state # "Pending", reported' = reported
      PROVE  \E next \in 0..lost : Covered(next, before)'
  BY <1>2, <1>3, <1>4, <1>7, <1>8 DEF Covered
<1>9. CASE Held
  BY <1>8, <1>9 DEF Held
<1>10. CASE Cleared
  BY <1>8, <1>10 DEF Cleared, Idle
<1>11. CASE Begun(d)
  <2>1. PICK k \in 1..Len(hist') :
          /\ d - hist'[k].size > Threshold /\ now - hist'[k].at >= Past
          /\ \A j \in k+1..Len(hist') : now - hist'[j].at < Past
          /\ gate' = [state |-> "Pending", start |-> now, base |-> hist'[k].size, min |-> d - hist'[k].size]
          /\ reported' = reported
    BY <1>11 DEF Begun
  <2>2. \A j \in 1..Len(hist') : hist'[j].at \in Nat /\ hist'[j].size \in Nat
    BY <1>0 DEF FieldTypes
  <2>3. level <= hist'[k].size
    <3>1. ASSUME hist'[k].size < level PROVE FALSE
      <4>1. PICK j \in k+1..Len(hist') : now - hist'[j].at >= Past
        BY <1>2, <1>7, <3>1 DEF Overtaken
      <4>2. now - hist'[j].at < Past /\ hist'[j].at \in Nat
        <5>1. j \in 1..Len(hist')
          BY <1>6
        <5> QED BY <2>1, <2>2, <5>1
      <4> QED BY <1>0, <1>2, <4>1, <4>2
    <3> QED BY <1>4, <2>2, <3>1
  <2>4. /\ gate'.base = hist'[k].size /\ gate'.min = d - hist'[k].size /\ gate'.start = now
        /\ gate'.base + gate'.min = d
    BY <2>1, <2>2
  <2>5. OvertakenAt(d, now)'
    <3> SUFFICES ASSUME NEW i \in 1..Len(hist'), hist'[i].size < d
                 PROVE  \E j \in i+1..Len(hist') : hist'[j].at <= now
      BY <1>2 DEF OvertakenAt
    <3>1. i # Len(hist')
      BY <1>6
    <3>2. Len(hist') \in i+1..Len(hist')
      BY <1>6, <3>1
    <3>3. hist'[Len(hist')].at <= now
      BY <1>2, <1>6
    <3> QED BY <3>2, <3>3
  <2>6. ~(caughtUp' > gate'.start)
    <3>1. caughtUp' \in Nat /\ caughtUp' <= now
      BY <1>0, ArriveFacts
    <3> QED BY <1>2, <2>4, <3>1
  <2>7. OvertakenAt(gate.base + gate.min, gate.start)'
    BY <1>2, <2>4, <2>5 DEF OvertakenAt
  <2>8. Covered(level, before)'
    BY <1>2, <1>3, <1>4, <1>7, <2>1, <2>3, <2>4, <2>6, <2>7 DEF Covered
  <2> QED BY <2>8
<1> DEFINE top == b + Smaller(mn, d - b)
<1>12. ASSUME gate.state = "Pending", d - b > Threshold
       PROVE  /\ top \in Nat /\ top <= d /\ top <= b + mn /\ level <= b
              /\ OvertakenAt(top, st)' /\ (caughtUp' > st => top <= byd)
  <2>1. top \in Nat /\ top <= d /\ top <= b + mn /\ Smaller(mn, d - b) \in Nat
    BY <1>0, <1>12 DEF Smaller
  <2> HIDE DEF top
  <2>2. level <= b /\ OvertakenAt(b + mn, st) /\ (caughtUp > st => b + mn <= byd)
    BY <1>1, <1>12 DEF Covered
  <2>3. OvertakenAt(top, st)
    <3> SUFFICES ASSUME NEW i \in 1..Len(hist), hist[i].size < top
                 PROVE  \E j \in i+1..Len(hist) : hist[j].at <= st
      BY DEF OvertakenAt
    <3>1. hist[i].size < b + mn
      <4>1. hist[i].size \in Nat
        BY <1>0 DEF FieldTypes
      <4> QED BY <2>1, <4>1
    <3> QED BY <2>2, <3>1 DEF OvertakenAt
  <2>4. OvertakenAt(top, st)'
    BY <1>0, <1>2, <1>5, <2>1, <2>3, OvertakenKept
  <2>5. ASSUME caughtUp' > st PROVE top <= byd
    <3>1. /\ caughtUp' = (IF Queued = 1 THEN now ELSE caughtUp)
          /\ Queued' = Queued - 1 /\ Queued \in 1..QueueRoom
      BY <1>0, ArriveFacts
    <3>2. CASE Queued = 1
      <4>1. Queued' = 0
        BY <3>1, <3>2
      <4> QED BY <1>1, <2>1, <4>1
    <3>3. CASE Queued # 1
      <4>1. caughtUp' = caughtUp
        BY <3>1, <3>3
      <4>2. b + mn <= byd
        BY <2>2, <2>5, <4>1
      <4> QED BY <1>4, <2>1, <4>2
    <3> QED BY <3>2, <3>3
  <2> QED BY <2>1, <2>2, <2>4, <2>5
<1> HIDE DEF top
<1>13. CASE Waits(d)
  <2>1. gate.state = "Pending" /\ d - b > Threshold /\ reported' = reported
        /\ gate' = [gate EXCEPT !.min = Smaller(mn, d - b)]
    BY <1>1, <1>13 DEF Waits
  <2>2. gate'.base = b /\ gate'.start = st /\ gate'.min = Smaller(mn, d - b)
    <3>1. gate \in Gates
      BY DEF ClockTypes
    <3> QED BY <1>1, <2>1, <3>1 DEF Gates
  <2>3. gate'.base + gate'.min = top
    BY <2>2 DEF top
  <2>4. OvertakenAt(gate.base + gate.min, gate.start)'
    BY <1>12, <2>1, <2>2, <2>3 DEF OvertakenAt
  <2>5. caughtUp' > gate'.start => gate'.base + gate'.min <= Beyond'
    BY <1>3, <1>12, <2>1, <2>2, <2>3
  <2>6. level <= gate'.base
    BY <1>12, <2>1, <2>2
  <2>7. Covered(level, before)'
    BY <1>2, <1>3, <1>4, <1>7, <2>1, <2>4, <2>5, <2>6 DEF Covered
  <2> QED BY <2>7
<1>14. CASE Reports(d)
  <2>1. /\ gate.state = "Pending" /\ d - b > Threshold /\ now - st >= Recovery
        /\ gate'.state = "Latched" /\ reported' = reported + Smaller(mn, d - b)
    BY <1>1, <1>14 DEF Reports, Idle
  <2>2. top \in Nat /\ level <= b /\ OvertakenAt(top, st)' /\ (caughtUp' > st => top <= byd) /\ top <= d
    BY <1>12, <2>1
  <2>3. reported' <= before + top
    <3>1. Smaller(mn, d - b) \in Int
      BY DEF Smaller
    <3> QED BY <1>4, <2>1, <2>2, <3>1 DEF top
  <2>4. top <= byd
    <3>1. /\ caughtUp' = (IF Queued = 1 THEN now ELSE caughtUp) /\ caughtUp' \in Nat
          /\ Queued' = Queued - 1 /\ Queued \in 1..QueueRoom
          /\ (Queued > 1 => now - caughtUp < Recovery)
      BY <1>0, ArriveFacts
    <3>2. CASE Queued = 1
      <4>1. Queued' = 0
        BY <3>1, <3>2
      <4> QED BY <1>1, <2>2, <4>1
    <3>3. CASE Queued # 1
      <4>1. Queued > 1 /\ caughtUp' = caughtUp
        BY <3>1, <3>3, MonitorAssumption
      <4>2. now - caughtUp' < Recovery /\ caughtUp' \in Nat
        BY <3>1, <4>1
      <4>3. caughtUp' > st
        <5>1. PICK c \in Nat : c = caughtUp'
          BY <4>2
        <5>2. now - c < Recovery /\ now - st >= Recovery
          BY <2>1, <4>2, <5>1
        <5>3. c > st
          BY <1>0, <1>2, <5>2
        <5> QED BY <5>1, <5>3
      <4> QED BY <2>2, <4>3
    <3> QED BY <3>2, <3>3
  <2>5. Overtaken(top)'
    <3> SUFFICES ASSUME NEW i \in 1..Len(hist'), hist'[i].size < top
                 PROVE  \E j \in i+1..Len(hist') : now - hist'[j].at >= Past
      BY <1>2 DEF Overtaken
    <3>1. PICK j \in i+1..Len(hist') : hist'[j].at <= st
      BY <2>2 DEF OvertakenAt
    <3>2. hist'[j].at \in Nat
      <4>1. j \in 1..Len(hist')
        BY <1>6
      <4> QED BY <1>0, <4>1 DEF FieldTypes
    <3>3. now - hist'[j].at >= Past
      BY <1>0, <1>2, <2>1, <3>1, <3>2
    <3> QED BY <3>3
  <2>6. top \in 0..lost
    BY <1>2, <1>4, <2>2, <2>4
  <2>7. PICK next \in 0..lost : next = top
    BY <2>6
  <2>8. Covered(next, before)'
    BY <1>2, <1>3, <1>4, <2>1, <2>3, <2>4, <2>5, <2>7 DEF Covered
  <2> QED BY <2>8
<1> QED BY <1>1, <1>9, <1>10, <1>11, <1>13, <1>14, MeasureOutcome

\* The steps of the callback thread, of the device and of the watchdog.
LEMMA MeasureStep ==
  ASSUME HistoryReaches, ClockInv, Measure
  PROVE  ClockInv'
<1>0. FieldTypes /\ ClockTypes /\ ReachInv /\ Arrive /\ QueueRoom \in Nat
  BY Fields, MonitorAssumption DEF Measure, ClockInv
<1>1. /\ now' = now /\ lost' = lost /\ delivered' = delivered + 1
      /\ Queued \in 1..QueueRoom /\ Queued' = Queued - 1
      /\ overdue' \in BOOLEAN /\ (overdue => overdue')
      /\ caughtUp' \in Nat /\ caughtUp' <= now
  BY <1>0, ArriveFacts
<1>2. PICK d \in Nat : d = Deficit
  BY <1>0, DeficitFacts
<1>3. /\ hist' \in Seq(Deficits) /\ Len(hist') \in 1..History
      /\ \A i \in 1..Len(hist') : Len(hist') - i + Queued' < QueueRoom + now - hist'[i].at
  <2>1. hist' = Remembered(hist, [at |-> now, size |-> d])
    BY <1>2 DEF Measure
  <2> QED BY <1>0, <2>1, HistoryStep
<1>4. /\ gate' \in Gates /\ gate'.start <= now /\ reported' \in Nat
      /\ gate'.state = "Pending" => \E i \in 1..Len(hist') : now - hist'[i].at >= Past
  BY <1>0, MeasureGate
<1>5. /\ acc' \in Accounts /\ acc'.owed = acc.owed /\ acc'.first = acc.first
      /\ acc'.t0 = acc.t0 /\ acc'.pairs0 = acc.pairs0
  <2>1. acc' = [acc EXCEPT !.last = now] /\ acc \in Accounts /\ now \in Int
    BY <1>0 DEF Measure, ClockTypes, FieldTypes
  <2> QED BY <2>1 DEF Accounts
<1>6. ClockTypes'
  <2>1. now' \in Nat /\ delivered' \in Nat /\ lost' \in Nat
    BY <1>0, <1>1 DEF FieldTypes
  <2> QED BY <1>1, <1>3, <1>4, <1>5, <2>1 DEF ClockTypes
<1>7. acc.first # None /\ now - acc.first >= Startup
  <2>1. acc.first # None /\ ~(now - acc.first < Startup)
    BY DEF Measure, IsFirst, IsStartup
  <2>2. acc.first \in Int /\ now \in Int /\ Startup \in Int
    BY <1>0, <2>1, MonitorAssumption DEF ClockTypes, Accounts, FieldTypes
  <2> QED BY <2>1, <2>2
<1>8. ReachInv'
  <2>1. Queued' \in 0..QueueRoom
    BY <1>0, <1>1
  <2>2. acc'.owed = acc'.t0 - acc'.pairs0
    BY <1>0, <1>5 DEF ReachInv
  <2>3. Len(hist') <= History
    BY <1>3, MonitorAssumption
  <2> QED BY <1>1, <1>3, <1>4, <1>5, <1>7, <2>1, <2>2, <2>3 DEF ReachInv
<1>9. ASSUME ~overdue' PROVE \E level, before \in 0..lost' : Covered(level, before)'
  <2>1. PICK level \in 0..lost, before \in 0..lost : Covered(level, before)
    BY <1>1, <1>9 DEF ClockInv
  <2>2. \E next \in 0..lost : Covered(next, before)'
    BY <1>0, <1>6, <1>9, <2>1, MeasureCovered
  <2> QED BY <1>1, <2>2
<1> QED BY <1>6, <1>8, <1>9 DEF ClockInv

\* Time passing does not lower what is old, nor a loss what was lost.
LEMMA QuietStep ==
  ASSUME ClockInv, UNCHANGED <<delivered, caughtUp, overdue, acc, hist, gate, reported>>,
         now' \in Nat, now' >= now, lost' \in Nat, lost' >= lost,
         now' - lost' - delivered \in 0..QueueRoom,
         now' - lost' - delivered <= Queued + (now' - now)
  PROVE  ClockInv'
<1>0. /\ FieldTypes /\ ClockTypes /\ ReachInv
      /\ QueueRoom \in Nat /\ Past \in Nat /\ Startup \in Nat
  BY Fields, MonitorAssumption DEF ClockInv
<1>1. PICK n \in Nat, l \in Nat, q \in 0..QueueRoom :
        /\ n = now' /\ l = lost' /\ q = now' - lost' - delivered
        /\ n >= now /\ l >= lost /\ q <= Queued + (n - now)
  OBVIOUS
<1>2. Queued' = q /\ Queued \in Int
  BY <1>0, <1>1 DEF Queued, FieldTypes
<1>7. n >= now /\ l >= lost /\ q <= Queued + (n - now) /\ n \in Int /\ l \in Int /\ q \in Int
      /\ Past \in Int
  BY <1>0, <1>1
<1>8. now \in Int /\ lost \in Int /\ caughtUp \in Int /\ gate.start \in Int /\ Len(hist) \in Int
  BY <1>0 DEF FieldTypes
<1>3. ClockTypes'
  BY <1>0 DEF ClockTypes
<1>4. \A i \in 1..Len(hist) : hist[i].at \in Nat /\ (now - hist[i].at >= Past => n - hist[i].at >= Past)
  <2> SUFFICES ASSUME NEW i \in 1..Len(hist)
               PROVE hist[i].at \in Nat /\ (now - hist[i].at >= Past => n - hist[i].at >= Past)
    OBVIOUS
  <2>1. PICK a \in Nat : a = hist[i].at
    BY <1>0 DEF FieldTypes
  <2>2. now - a >= Past => n - a >= Past
    BY <1>7, <1>8
  <2> QED BY <2>1, <2>2
<1>5. ReachInv'
  <2>1. ASSUME NEW i \in 1..Len(hist)
        PROVE  Len(hist) - i + q < QueueRoom + n - hist[i].at
    <3>1. Len(hist) - i + Queued < QueueRoom + now - hist[i].at
      BY <1>0 DEF ReachInv
    <3>2. PICK a \in Nat, len \in Nat, w \in Int : a = hist[i].at /\ len = Len(hist) /\ w = Queued
      BY <1>0, <1>2, <1>4 DEF FieldTypes
    <3>3. len - i + w < QueueRoom + now - a /\ q <= w + (n - now)
      BY <1>7, <3>1, <3>2
    <3>4. len - i + q < QueueRoom + n - a
      BY <1>0, <1>7, <1>8, <3>3
    <3> QED BY <3>2, <3>4
  <2>2. gate.state # "Idle" => acc.first # None /\ n - acc.first >= Startup
    <3> SUFFICES ASSUME gate.state # "Idle" PROVE acc.first # None /\ n - acc.first >= Startup
      OBVIOUS
    <3>1. acc.first # None /\ now - acc.first >= Startup
      BY <1>0 DEF ReachInv
    <3>2. acc.first \in Int /\ now \in Nat
      BY <1>0, <3>1 DEF ClockTypes, Accounts, FieldTypes
    <3> QED BY <1>0, <1>1, <3>1, <3>2
  <2>3. caughtUp <= n /\ gate.start <= n
    <3>1. caughtUp <= now /\ gate.start <= now
      BY <1>0 DEF ReachInv
    <3> QED BY <1>7, <1>8, <3>1
  <2>4. gate.state = "Pending" => \E i \in 1..Len(hist) : n - hist[i].at >= Past
    BY <1>0, <1>4 DEF ReachInv
  <2>5. Len(hist) <= History /\ acc.owed = acc.t0 - acc.pairs0
    BY <1>0 DEF ReachInv
  <2> QED BY <1>1, <1>2, <2>1, <2>2, <2>3, <2>4, <2>5 DEF ReachInv
<1>6. ASSUME ~overdue' PROVE \E level, before \in 0..lost' : Covered(level, before)'
  <2>1. PICK level \in 0..lost, before \in 0..lost : Covered(level, before)
    BY <1>6 DEF ClockInv
  <2>2. PICK byd \in Nat, more \in Nat : byd = Beyond /\ more = Beyond' /\ byd <= more
    <3>1. lost \in Nat /\ acc.owed \in Nat /\ acc'.owed = acc.owed
      BY <1>0 DEF FieldTypes
    <3>2. Beyond \in Nat /\ Larger(l - acc.owed, 0) \in Nat /\ Beyond <= Larger(l - acc.owed, 0)
      BY <1>1, <3>1 DEF Beyond, Larger
    <3>3. Beyond' = Larger(l - acc.owed, 0)
      BY <1>1, <3>1 DEF Beyond
    <3> QED BY <3>2, <3>3
  <2>3. Overtaken(level)'
    <3> SUFFICES ASSUME NEW i \in 1..Len(hist), hist[i].size < level
                 PROVE  \E j \in i+1..Len(hist) : n - hist[j].at >= Past
      BY <1>1 DEF Overtaken
    <3>1. PICK j \in i+1..Len(hist) : now - hist[j].at >= Past
      BY <2>1 DEF Covered, Overtaken
    <3>2. j \in 1..Len(hist)
      BY <1>0 DEF FieldTypes
    <3> QED BY <1>4, <3>1, <3>2
  <2>4. level <= more /\ (gate.state = "Pending" /\ caughtUp > gate.start => gate.base + gate.min <= more)
    <3>1. level <= byd /\ (gate.state = "Pending" /\ caughtUp > gate.start => gate.base + gate.min <= byd)
      BY <2>1, <2>2 DEF Covered
    <3>2. level \in Int /\ gate.base \in Nat /\ gate.min \in Nat
      BY <1>0 DEF FieldTypes
    <3> QED BY <2>2, <3>1, <3>2
  <2>5. OvertakenAt(gate.base + gate.min, gate.start)' <=> OvertakenAt(gate.base + gate.min, gate.start)
    BY DEF OvertakenAt
  <2>6. Covered(level, before)'
    BY <2>1, <2>2, <2>3, <2>4, <2>5 DEF Covered
  <2>7. level \in 0..lost' /\ before \in 0..lost'
    <3>1. level \in 0..l /\ before \in 0..l
      BY <1>7, <1>8
    <3> QED BY <1>1, <3>1
  <2> QED BY <2>6, <2>7
<1> QED BY <1>3, <1>5, <1>6 DEF ClockInv

LEMMA ClockStep ==
  ASSUME HistoryReaches, ClockInv, [NextClock]_clockVars
  PROVE  ClockInv'
<1>0. /\ now \in Nat /\ lost \in Nat /\ delivered \in Nat /\ Queued \in 0..QueueRoom
      /\ QueueRoom \in Nat /\ Queued = now - lost - delivered /\ MaxLoss \in Nat
  BY Fields, MonitorAssumption DEF ClockInv, ReachInv, FieldTypes, Queued
<1>1. CASE Tick
  <2>1. now' = now + 1 /\ Queued < QueueRoom
        /\ UNCHANGED <<lost, delivered, caughtUp, overdue, acc, hist, gate, reported>>
    BY <1>1 DEF Tick, monitorVars
  <2>2. now' \in Nat /\ now' >= now /\ lost' \in Nat /\ lost' >= lost
        /\ now' - lost' - delivered \in 0..QueueRoom
        /\ now' - lost' - delivered <= Queued + (now' - now)
    BY <1>0, <2>1
  <2> QED BY <2>1, <2>2, QuietStep
<1>2. ASSUME NEW k \in 1..MaxLoss, Lose(k) PROVE ClockInv'
  <2>1. lost' = lost + k /\ k <= Queued
        /\ UNCHANGED <<now, delivered, caughtUp, overdue, acc, hist, gate, reported>>
    BY <1>2 DEF Lose, monitorVars
  <2>2. now' \in Nat /\ now' >= now /\ lost' \in Nat /\ lost' >= lost
        /\ now' - lost' - delivered \in 0..QueueRoom
        /\ now' - lost' - delivered <= Queued + (now' - now)
    BY <1>0, <2>1
  <2> QED BY <2>1, <2>2, QuietStep
<1>3. CASE UNCHANGED <<deviceVars, monitorVars>>
  <2>1. UNCHANGED <<now, lost, delivered, caughtUp, overdue, acc, hist, gate, reported>>
    BY <1>3 DEF deviceVars, monitorVars
  <2>2. now' \in Nat /\ now' >= now /\ lost' \in Nat /\ lost' >= lost
        /\ now' - lost' - delivered \in 0..QueueRoom
        /\ now' - lost' - delivered <= Queued + (now' - now)
    BY <1>0, <2>1
  <2> QED BY <2>1, <2>2, QuietStep
<1>4. CASE FirstData
  <2>1. gate.state = "Idle"
    BY <1>4 DEF FirstData, IsFirst, ClockInv, ReachInv
  <2>2. Arrive /\ acc' = [Baseline EXCEPT !.first = now] /\ gate' = gate /\ hist' = hist /\ reported' = reported
    BY <1>4 DEF FirstData
  <2> QED BY <2>1, <2>2, BaselineStep
<1>5. CASE AfterGap
  <2>1. Arrive /\ acc' = Baseline /\ gate' = Idle /\ hist' = <<>> /\ reported' = reported
    BY <1>5 DEF AfterGap
  <2>2. /\ gate' = Idle \/ (gate' = gate /\ gate.state = "Idle")
        /\ hist' = hist \/ hist' = <<>>
        /\ acc' = Baseline \/ acc' = [Baseline EXCEPT !.first = now]
    BY <2>1
  <2> QED BY <2>1, <2>2, BaselineStep, Zenon
<1>6. CASE RampUp
  <2>1. gate.state = "Idle"
    <3>1. acc.first # None /\ now - acc.first < Startup
      BY <1>6 DEF RampUp, IsFirst, IsStartup
    <3>2. acc.first \in Int /\ Startup \in Int
      BY <3>1, MonitorAssumption DEF ClockInv, ClockTypes, Accounts
    <3>3. ~(now - acc.first >= Startup)
      BY <1>0, <3>1, <3>2
    <3> QED BY <3>3 DEF ClockInv, ReachInv
  <2>2. Arrive /\ acc' = Baseline /\ gate' = gate /\ hist' = <<>> /\ reported' = reported
    BY <1>6 DEF RampUp
  <2> QED BY <2>1, <2>2, BaselineStep
<1>7. CASE Measure
  BY <1>7, MeasureStep
<1>8. CountDrops \/ UNCHANGED clockVars => UNCHANGED <<deviceVars, monitorVars>>
  BY DEF CountDrops, clockVars
<1> QED BY <1>1, <1>2, <1>3, <1>4, <1>5, <1>6, <1>7, <1>8 DEF NextClock

\* However late and in whatever bursts the transfers come, and whatever is lost:
\* as long as the queue is caught up within the recovery window, what the monitor
\* reports was lost (SampleDropEventGate.hpp:30-71, InputDeviceBase.hpp:74-148).
THEOREM ClockNoPhantomDrop ==
  ASSUME HistoryReaches
  PROVE  SpecClock => []NoPhantomDrop
<1>1. InitClock => ClockInv
  BY ClockInit
<1>2. ClockInv /\ [NextClock]_clockVars => ClockInv'
  BY ClockStep
<1>3. ClockInv => NoPhantomDrop
  <2> SUFFICES ASSUME ClockInv, ~overdue PROVE reported <= lost
    BY DEF NoPhantomDrop
  <2>1. PICK level \in 0..lost, before \in 0..lost : Covered(level, before)
    BY DEF ClockInv
  <2>2. FieldTypes
    BY Fields DEF ClockInv
  <2>3. /\ reported <= before + level /\ before <= acc.owed /\ level <= Beyond
        /\ Beyond = (IF lost - acc.owed >= 0 THEN lost - acc.owed ELSE 0)
        /\ lost \in Nat /\ acc.owed \in Nat /\ reported \in Nat
    BY <2>1, <2>2 DEF Covered, FieldTypes, Beyond, Larger
  <2> QED BY <2>1, <2>3
<1> QED BY <1>1, <1>2, <1>3, PTL DEF SpecClock

-----------------------------------------------------------------------------
(* What is lost is counted *)

\* What is remembered are the deficits of consecutive callbacks since the baseline,
\* the last callback's last; a candidate stands above its base there.
TraceInv ==
  /\ dropEvents \in Nat /\ acc.t0 <= now
  /\ acc.first = None => hist = <<>> /\ gate.state = "Idle"
  /\ acc.first # None => acc.last \in Int /\ acc.last <= now
  /\ acc.first # None /\ hist = <<>> => acc.last = acc.t0 /\ gate.state # "Pending"
  /\ hist # <<>> =>
       /\ hist[Len(hist)].at = acc.last
       /\ Len(hist) = History \/ hist[1].at - acc.t0 <= Gap
       /\ gate.state = "Pending" =>
            /\ hist[Len(hist)].size > gate.base + Threshold
            /\ gate.start <= acc.last /\ acc.last - gate.start < Recovery
  /\ \A i \in 1..Len(hist)-1 : hist[i+1].at - hist[i].at <= Gap

\* A loss that no callback has followed yet.
Unanswered(x) ==
  /\ acc.first # None /\ gate.state # "Latched"
  /\ x.at - acc.t0 >= Past + Gap /\ acc.last <= x.at
  /\ \A i \in 1..Len(hist) : x.at - hist[i].at < Past + Gap => Beyond > hist[i].size + Threshold

\* One whose candidate nothing can clear any more.
Pinned(x) == gate.state = "Pending" /\ gate.start <= x.at + Gap /\ Beyond > gate.base + Threshold

Pursued(x) == dropEvents > x.told \/ Pinned(x) \/ Unanswered(x)

Losses == [at : Nat, told : Nat, standsOut : BOOLEAN]

LossInv ==
  /\ losses \in Seq(Losses)
  /\ \A i \in 1..Len(losses) :
       /\ losses[i].at <= now /\ losses[i].told <= dropEvents
       /\ losses[i].standsOut /\ losses[i].at > acc.t0 => Pursued(losses[i])

CountInv == ClockInv /\ TraceInv /\ LossInv

\* A callback adds its deficit to those of the callbacks before it.
LEMMA TraceKept ==
  ASSUME ClockTypes, TraceInv, Arrive, ~IsFirst, ~IsGap, NEW d \in Nat,
         hist' = Remembered(hist, [at |-> now, size |-> d])
  PROVE  /\ hist' \in Seq(Deficits) /\ Len(hist') \in 1..History
         /\ hist'[Len(hist')] = [at |-> now, size |-> d]
         /\ Len(hist') = History \/ hist'[1].at - acc.t0 <= Gap
         /\ \A i \in 1..Len(hist')-1 : /\ hist'[i+1].at - hist'[i].at <= Gap
                                       /\ \E j \in 1..Len(hist) : hist'[i] = hist[j]
<1> DEFINE x == [at |-> now, size |-> d]
           h == Remembered(hist, x)
           m == Len(h)
           n == Len(hist) + 1
<1>0. FieldTypes /\ hist \in Seq(Deficits) /\ x \in Deficits
  BY Fields DEF ClockTypes, Deficits
<1>1. hist' = h
  OBVIOUS
<1>2. x.at = now
  OBVIOUS
<1> HIDE DEF x
<1>3. /\ h \in Seq(Deficits) /\ m = Smaller(n, History) /\ m \in 1..History /\ m <= n /\ h[m] = x
      /\ \A i \in 1..m-1 : h[i] = hist[n - m + i]
  BY <1>0, RememberedFacts
<1>4. n - 1 = Len(hist) /\ n \in Nat /\ n >= 1 /\ History \in Nat \ {0} /\ Gap \in Nat
  <2>1. Len(hist) \in Nat
    BY <1>0 DEF FieldTypes
  <2>2. n - 1 = Len(hist) /\ n \in Nat /\ n >= 1
    BY <2>1
  <2>3. History \in Nat \ {0} /\ Gap \in Nat
    BY MonitorAssumption
  <2> QED BY <2>2, <2>3
<1>5. /\ acc.first # None /\ acc.last \in Int /\ now - acc.last <= Gap /\ now \in Nat /\ acc.t0 \in Int
      /\ (hist = <<>> => acc.last = acc.t0)
  <2>1. acc.first # None /\ ~(now - acc.last > Gap)
    BY DEF IsFirst, IsGap
  <2>2. acc.last \in Int /\ now \in Nat /\ acc.t0 \in Int /\ (hist = <<>> => acc.last = acc.t0)
    BY <1>0, <2>1 DEF TraceInv, FieldTypes
  <2> QED BY <1>4, <2>1, <2>2
<1>7. n = 1 => hist = <<>>
  BY <1>0, <1>4
<1> HIDE DEF h, m, n
<1>6. n > 1 => /\ hist # <<>> /\ hist[n-1].at = acc.last
               /\ n - 1 = History \/ hist[1].at - acc.t0 <= Gap
  <2>1. n > 1 => Len(hist) # 0
    BY <1>4
  <2>2. Len(<<>>) = 0
    OBVIOUS
  <2>3. n > 1 => hist # <<>>
    BY <2>1, <2>2
  <2> QED BY <1>4, <2>3 DEF TraceInv
<1>8. \A i \in 1..n-2 : hist[i+1].at - hist[i].at <= Gap
  <2>1. n - 2 = Len(hist) - 1
    BY <1>4
  <2> QED BY <2>1 DEF TraceInv
<1>9. ASSUME NEW i \in 1..m-1
      PROVE  h[i+1].at - h[i].at <= Gap /\ \E j \in 1..Len(hist) : h[i] = hist[j]
  <2>0. m \in Int /\ n \in Int /\ i \in Int /\ 1 <= i /\ i <= m - 1 /\ m <= n
    BY <1>3, <1>4
  <2>1. PICK j \in 1..n-1 : j = n - m + i /\ h[i] = hist[j]
    <3>1. n - m + i \in 1..n-1
      BY <2>0
    <3> QED BY <1>3, <3>1
  <2>2. CASE i + 1 = m
    <3>1. j = n - 1 /\ n > 1
      BY <2>0, <2>1, <2>2
    <3>2. h[i].at = acc.last /\ h[i+1].at = now
      BY <1>2, <1>3, <1>6, <2>1, <2>2, <3>1
    <3> QED BY <1>4, <1>5, <2>1, <3>2
  <2>3. CASE i + 1 # m
    <3>1. i + 1 \in 1..m-1 /\ j \in 1..n-2 /\ n - m + (i + 1) = j + 1
      BY <2>0, <2>1, <2>3
    <3>2. h[i+1] = hist[j+1]
      BY <1>3, <3>1
    <3>3. hist[j+1].at - hist[j].at <= Gap
      BY <1>8, <3>1
    <3> QED BY <1>4, <2>1, <3>2, <3>3
  <2> QED BY <2>2, <2>3
<1>10. m = History \/ h[1].at - acc.t0 <= Gap
  <2>1. CASE n > History
    BY <1>3, <1>4, <2>1 DEF Smaller
  <2>2. CASE n <= History
    <3>1. m = n
      BY <1>3, <1>4, <2>2 DEF Smaller
    <3>2. CASE n = 1
      <4>1. h[1].at = now /\ acc.last = acc.t0
        BY <1>2, <1>3, <1>5, <1>7, <3>1, <3>2
      <4> QED BY <1>5, <4>1
    <3>3. CASE n # 1
      <4>1. n > 1 /\ 1 \in 1..m-1 /\ n - m + 1 = 1 /\ n - 1 # History
        BY <1>4, <2>2, <3>1, <3>3
      <4>2. h[1] = hist[1]
        BY <1>3, <4>1
      <4> QED BY <1>6, <4>1, <4>2
    <3> QED BY <3>2, <3>3
  <2> QED BY <1>4, <2>1, <2>2
<1> QED BY <1>1, <1>3, <1>9, <1>10 DEF m, x

\* The deficit a callback is compared with.
NewestOld(k) ==
  /\ k \in 1..Len(hist') /\ now - hist'[k].at >= Past
  /\ \A j \in k+1..Len(hist') : now - hist'[j].at < Past

\* What the gate makes of a callback's deficit, and when it counts an event.
Passes(d) ==
  /\ gate.state # "Pending" /\ gate'.state # "Pending" /\ dropEvents' = dropEvents
  /\ gate.state = "Idle" =>
       \/ \A i \in 1..Len(hist') : now - hist'[i].at < Past
       \/ \E k \in 1..Len(hist') : NewestOld(k) /\ d - hist'[k].size <= Threshold
Suspects(d) ==
  /\ gate.state = "Idle" /\ gate'.state = "Pending" /\ dropEvents' = dropEvents
  /\ gate'.start = now
  /\ \E k \in 1..Len(hist') :
       NewestOld(k) /\ d - hist'[k].size > Threshold /\ gate'.base = hist'[k].size
Clears(d) ==
  /\ gate.state = "Pending" /\ d - gate.base <= Threshold
  /\ gate' = Idle /\ dropEvents' = dropEvents
Persists(d) ==
  /\ gate.state = "Pending" /\ d - gate.base > Threshold /\ now - gate.start < Recovery
  /\ gate'.state = "Pending" /\ gate'.base = gate.base /\ gate'.start = gate.start
  /\ dropEvents' = dropEvents
Counts(d) ==
  /\ gate.state = "Pending" /\ d - gate.base > Threshold /\ now - gate.start >= Recovery
  /\ gate'.state = "Latched" /\ dropEvents' = dropEvents + 1

LEMMA MeasureVerdict ==
  ASSUME HistoryReaches, ClockTypes, ReachInv, Measure, NEW d \in Nat, d = Deficit
  PROVE  Passes(d) \/ Suspects(d) \/ Clears(d) \/ Persists(d) \/ Counts(d)
<1>0. /\ FieldTypes /\ now \in Nat /\ None \notin Int /\ Threshold \in Nat /\ Past \in Nat /\ Recovery \in Nat
      /\ gate \in Gates
  BY Fields, MonitorAssumption DEF FieldTypes, ClockTypes
<1>1. Arrive /\ hist' = Remembered(hist, [at |-> now, size |-> d])
  BY DEF Measure
<1>2. PICK h \in Seq(Deficits) : h = hist' /\ Len(h) \in Nat
                                 /\ (gate.state = "Pending" => \E i \in 1..Len(h) : now - h[i].at >= Past)
  <2>1. hist' \in Seq(Deficits)
        /\ (gate.state = "Pending" => \E i \in 1..Len(hist') : now - hist'[i].at >= Past)
    BY <1>1, HistoryStep
  <2> QED BY <2>1
<1>3. \A i \in 1..Len(h) : h[i].at \in Nat /\ h[i].size \in Nat
  <2>1. \A i \in 1..Len(h) : h[i] \in Deficits
    BY <1>2
  <2> QED BY <2>1 DEF Deficits
<1>6. /\ gate.state \in {"Idle", "Pending", "Latched"} /\ gate.start \in Nat /\ gate.base \in Nat
      /\ gate.min \in Nat
  BY <1>0 DEF FieldTypes
<1>4. CASE PastDeficit(h) = None
  <2>1. \A i \in 1..Len(h) : now - h[i].at < Past
    <3>1. \A i \in 1..Len(h) : h[i].size # None
      BY <1>0, <1>3
    <3> QED BY <1>0, <1>4, <3>1, PastFacts
  <2>2. gate.state # "Pending"
    <3>1. \A i \in 1..Len(h) : ~(now - h[i].at >= Past)
      <4> SUFFICES ASSUME NEW i \in 1..Len(h) PROVE ~(now - h[i].at >= Past)
        OBVIOUS
      <4>1. h[i].at \in Nat /\ now - h[i].at < Past
        BY <1>3, <2>1
      <4> QED BY <1>0, <4>1
    <3> QED BY <1>2, <3>1
  <2>3. gate' = gate /\ dropEvents' = dropEvents
    BY <1>2, <1>4 DEF Measure
  <2> QED BY <1>2, <2>1, <2>2, <2>3 DEF Passes
<1>5. CASE PastDeficit(h) # None
  <2>1. PICK k \in 1..Len(h) : /\ PastDeficit(h) = h[k].size /\ now - h[k].at >= Past
                               /\ \A j \in k+1..Len(h) : now - h[j].at < Past
    BY <1>0, <1>5, PastFacts
  <2>2. PICK p \in Nat : p = h[k].size
    BY <1>3
  <2>3. /\ gate' = Observe(d, p).gate
        /\ IF Observe(d, p).event = None THEN dropEvents' = dropEvents
           ELSE dropEvents' = dropEvents + 1
    BY <1>2, <1>5, <2>1, <2>2 DEF Measure
  <2>4. NewestOld(k) /\ hist'[k].size = p /\ k \in 1..Len(hist')
    BY <1>2, <2>1, <2>2 DEF NewestOld
  <2>5. CASE gate.state = "Idle"
    <3>1. CASE d - p > Threshold
      <4>1. Observe(d, p) = [gate |-> [state |-> "Pending", start |-> now, base |-> p, min |-> d - p],
                             event |-> None]
        BY <2>5, <3>1 DEF Observe
      <4>2. gate'.state = "Pending" /\ gate'.start = now /\ gate'.base = p /\ dropEvents' = dropEvents
        BY <2>3, <4>1
      <4> QED BY <2>4, <2>5, <3>1, <4>2 DEF Suspects
    <3>2. CASE ~(d - p > Threshold)
      <4>1. Observe(d, p) = [gate |-> gate, event |-> None]
        BY <2>5, <3>2 DEF Observe
      <4>2. gate' = gate /\ dropEvents' = dropEvents /\ d - p <= Threshold
        BY <1>0, <2>3, <3>2, <4>1
      <4> QED BY <2>4, <2>5, <4>2 DEF Passes
    <3> QED BY <3>1, <3>2
  <2>6. CASE gate.state = "Latched"
    <3>1. Observe(d, p) = [gate |-> gate, event |-> None] \/ Observe(d, p) = [gate |-> Idle, event |-> None]
      BY <2>6 DEF Observe
    <3>2. (gate' = gate \/ gate' = Idle) /\ dropEvents' = dropEvents
      BY <2>3, <3>1
    <3> QED BY <2>6, <3>2 DEF Passes, Idle
  <2>7. CASE gate.state = "Pending"
    <3> DEFINE least == Smaller(gate.min, d - gate.base)
    <3>1. least \in Int /\ least # None
      BY <1>0, <1>6 DEF Smaller
    <3>2. CASE d - gate.base <= Threshold
      <4>1. ~(d - gate.base > Threshold)
        BY <1>0, <1>6, <3>2
      <4>2. Observe(d, p) = [gate |-> Idle, event |-> None]
        BY <2>7, <3>2, <4>1 DEF Observe
      <4> QED BY <2>3, <2>7, <3>2, <4>2 DEF Clears
    <3>3. CASE d - gate.base > Threshold /\ now - gate.start >= Recovery
      <4>1. ~(d - gate.base <= Threshold) /\ ~(now - gate.start < Recovery)
        BY <1>0, <1>6, <3>3
      <4>2. Observe(d, p) = [gate |-> [Idle EXCEPT !.state = "Latched"], event |-> least]
        BY <2>7, <3>3, <4>1 DEF Observe
      <4> HIDE DEF least
      <4>3. gate' = [Idle EXCEPT !.state = "Latched"] /\ dropEvents' = dropEvents + 1
        BY <2>3, <3>1, <4>2
      <4> QED BY <2>7, <3>3, <4>3 DEF Counts, Idle
    <3>4. CASE d - gate.base > Threshold /\ now - gate.start < Recovery
      <4>1. ~(d - gate.base <= Threshold) /\ ~(now - gate.start >= Recovery)
        BY <1>0, <1>6, <3>4
      <4>2. Observe(d, p) = [gate |-> [gate EXCEPT !.min = least], event |-> None]
        BY <2>7, <3>4, <4>1 DEF Observe
      <4> HIDE DEF least
      <4>3. gate' = [gate EXCEPT !.min = least] /\ dropEvents' = dropEvents
        BY <2>3, <4>2
      <4>4. gate'.state = "Pending" /\ gate'.base = gate.base /\ gate'.start = gate.start
        BY <1>0, <2>7, <4>3 DEF Gates
      <4> QED BY <2>7, <3>4, <4>3, <4>4 DEF Persists
    <3> QED BY <1>0, <1>6, <3>2, <3>3, <3>4
  <2> QED BY <1>6, <2>5, <2>6, <2>7
<1> QED BY <1>4, <1>5

\* The deficit of a callback is compared with is one remembered before, and not
\* older than the comparison by more than a silence the monitor tolerates.
LEMMA ComparedRecently ==
  ASSUME ClockTypes, TraceInv, Arrive, ~IsFirst, ~IsGap, NEW d \in Nat,
         hist' = Remembered(hist, [at |-> now, size |-> d]),
         NEW k \in 1..Len(hist'), NewestOld(k)
  PROVE  /\ now - hist'[k].at < Past + Gap
         /\ \E j \in 1..Len(hist) : hist'[k] = hist[j]
<1>0. now \in Nat /\ Past \in Nat \ {0} /\ Gap \in Nat
  <2>1. Past \in Nat /\ Gap \in Nat /\ Gap < Past
    BY MonitorAssumption
  <2> QED BY <2>1 DEF ClockTypes
<1>1. PICK h \in Seq(Deficits), m \in Nat :
        /\ h = hist' /\ m = Len(h) /\ h[m].at = now
        /\ \A i \in 1..m-1 : h[i+1].at - h[i].at <= Gap /\ \E j \in 1..Len(hist) : h[i] = hist[j]
  <2>1. /\ hist' \in Seq(Deficits) /\ hist'[Len(hist')] = [at |-> now, size |-> d]
        /\ \A i \in 1..Len(hist')-1 : /\ hist'[i+1].at - hist'[i].at <= Gap
                                      /\ \E j \in 1..Len(hist) : hist'[i] = hist[j]
    BY TraceKept
  <2>2. Len(hist') \in Nat
    BY <2>1
  <2>3. hist'[Len(hist')].at = now
    BY <2>1
  <2> QED BY <2>1, <2>2, <2>3, Zenon
<1>2. k \in 1..m /\ now - h[k].at >= Past /\ \A j \in k+1..m : now - h[j].at < Past
  BY <1>1 DEF NewestOld
<1>3. \A i \in 1..m : h[i].at \in Nat
  <2>1. \A i \in 1..m : h[i] \in Deficits
    BY <1>1
  <2> QED BY <2>1 DEF Deficits
<1>4. k # m
  BY <1>0, <1>1, <1>2
<1>5. k \in 1..m-1 /\ k+1 \in k+1..m /\ k+1 \in 1..m
  BY <1>2, <1>4
<1>6. now - h[k+1].at < Past /\ h[k+1].at - h[k].at <= Gap /\ h[k].at \in Nat /\ h[k+1].at \in Nat
  BY <1>1, <1>2, <1>3, <1>5
<1>7. now - h[k].at < Past + Gap
  <2>1. PICK a \in Nat, b \in Nat : a = h[k].at /\ b = h[k+1].at
    BY <1>6
  <2>2. now - b < Past /\ b - a <= Gap
    BY <1>6, <2>1
  <2>3. now - a < Past + Gap
    BY <1>0, <2>2
  <2> QED BY <2>1, <2>3
<1>8. \E j \in 1..Len(hist) : h[k] = hist[j]
  BY <1>1, <1>5
<1> QED BY <1>1, <1>7, <1>8

\* A callback leaves the accounting at its own time.
LEMMA MeasureAccounts ==
  ASSUME ClockTypes, Measure
  PROVE  /\ acc'.last = now /\ acc'.first = acc.first /\ acc'.t0 = acc.t0 /\ acc'.owed = acc.owed
         /\ now' = now /\ lost' = lost /\ losses' = losses
<1>1. acc' = [acc EXCEPT !.last = now] /\ acc \in Accounts /\ now' = now /\ lost' = lost /\ losses' = losses
  BY DEF Measure, Arrive, ClockTypes
<1> QED BY <1>1 DEF Accounts

LEMMA MeasureTrace ==
  ASSUME HistoryReaches, ClockTypes, ReachInv, TraceInv, Measure
  PROVE  TraceInv'
<1>0. Arrive /\ ~IsFirst /\ ~IsGap /\ acc.first # None /\ FieldTypes
  BY Fields DEF Measure, IsFirst
<1>1. PICK d \in Nat : d = Deficit
  BY <1>0, DeficitFacts
<1>2. hist' = Remembered(hist, [at |-> now, size |-> d])
  BY <1>1 DEF Measure
<1>3. /\ hist' \in Seq(Deficits) /\ Len(hist') \in 1..History
      /\ hist'[Len(hist')] = [at |-> now, size |-> d]
      /\ Len(hist') = History \/ hist'[1].at - acc.t0 <= Gap
      /\ \A i \in 1..Len(hist')-1 : hist'[i+1].at - hist'[i].at <= Gap
  BY <1>0, <1>2, TraceKept
<1>4. hist' # <<>>
  <2>1. Len(hist') # 0 /\ Len(<<>>) = 0
    BY <1>3, MonitorAssumption
  <2> QED BY <2>1
<1>5. /\ acc'.last = now /\ acc'.first = acc.first /\ acc'.t0 = acc.t0 /\ now' = now
  BY MeasureAccounts
<1>6. dropEvents' \in Nat
  <2>1. dropEvents \in Nat /\ (dropEvents' = dropEvents \/ dropEvents' = dropEvents + 1)
    BY <1>1, MeasureVerdict DEF TraceInv, Passes, Suspects, Clears, Persists, Counts
  <2> QED BY <2>1
<1>7. ASSUME gate'.state = "Pending"
      PROVE  d > gate'.base + Threshold /\ gate'.start <= now /\ now - gate'.start < Recovery
  <2>0. /\ Threshold \in Nat /\ now \in Nat /\ gate.base \in Nat /\ gate.start \in Nat /\ gate.start <= now
        /\ Recovery \in Nat \ {0}
    <3>1. {Threshold, Recovery, Past} \subseteq Nat /\ Gap \in Nat /\ Gap < Past /\ Past <= Recovery
      BY MonitorAssumption
    <3> QED BY <1>0, <3>1 DEF FieldTypes, ReachInv
  <2>1. Suspects(d) \/ Persists(d)
    BY <1>1, <1>7, MeasureVerdict DEF Passes, Clears, Counts, Idle
  <2>2. CASE Suspects(d)
    <3>1. PICK k \in 1..Len(hist') :
            d - hist'[k].size > Threshold /\ gate'.base = hist'[k].size /\ gate'.start = now
      BY <2>2 DEF Suspects
    <3>2. hist'[k].size \in Nat
      <4>1. hist'[k] \in Deficits
        BY <1>3
      <4> QED BY <4>1 DEF Deficits
    <3> QED BY <2>0, <3>1, <3>2
  <2>3. CASE Persists(d)
    <3>1. /\ d - gate.base > Threshold /\ now - gate.start < Recovery
          /\ gate'.base = gate.base /\ gate'.start = gate.start
      BY <2>3 DEF Persists
    <3>2. d > gate.base + Threshold
      BY <2>0, <3>1
    <3> QED BY <2>0, <3>1, <3>2
  <2> QED BY <2>1, <2>2, <2>3
<1>8. acc'.t0 <= now' /\ now \in Int /\ now <= now
  BY <1>0, <1>5 DEF TraceInv, FieldTypes
<1> QED BY <1>0, <1>3, <1>4, <1>5, <1>6, <1>7, <1>8 DEF TraceInv

\* A loss that stands out becomes a candidate at the next callback, and stays one
\* until it is counted.
LEMMA MeasurePursues ==
  ASSUME HistoryReaches, ClockTypes, ReachInv, TraceInv, Measure,
         NEW x \in Losses, x.at <= now, x.told <= dropEvents, x.at > acc.t0, Pursued(x)
  PROVE  Pursued(x)' /\ x.told <= dropEvents'
<1>0. Arrive /\ ~IsFirst /\ ~IsGap /\ acc.first # None /\ FieldTypes
  BY Fields DEF Measure, IsFirst
<1>1. PICK d \in Nat : d = Deficit
  BY <1>0, DeficitFacts
<1>2. hist' = Remembered(hist, [at |-> now, size |-> d])
  BY <1>1 DEF Measure
<1>3. PICK byd \in Nat : byd = Beyond /\ byd <= d /\ byd = Beyond'
  <2>1. Beyond \in 0..lost /\ Beyond <= d /\ lost \in Nat
    BY <1>0, <1>1, DeficitFacts DEF FieldTypes
  <2>2. Beyond' = Beyond
    BY MeasureAccounts DEF Beyond
  <2>3. Beyond \in Nat
    BY <2>1
  <2> QED BY <2>1, <2>2, <2>3
<1>4. /\ x.at \in Nat /\ x.told \in Nat /\ dropEvents \in Nat /\ now \in Nat /\ acc.t0 \in Int
      /\ gate.base \in Nat /\ gate.start \in Nat /\ gate.start <= now
      /\ acc.last \in Int /\ now - acc.last <= Gap
  <2>1. acc.last \in Int /\ dropEvents \in Nat
    BY <1>0 DEF TraceInv
  <2>2. ~(now - acc.last > Gap)
    BY <1>0 DEF IsGap
  <2>3. Gap \in Nat
    BY MonitorAssumption
  <2>4. now \in Nat /\ acc.t0 \in Int /\ gate.base \in Nat /\ gate.start \in Nat /\ gate.start <= now
    BY <1>0 DEF FieldTypes, ReachInv
  <2>5. now - acc.last <= Gap
    BY <2>1, <2>2, <2>3, <2>4
  <2> QED BY <2>1, <2>4, <2>5 DEF Losses
<1>5. /\ Threshold \in Nat /\ Past \in Nat \ {0} /\ Gap \in Nat /\ Recovery \in Nat
      /\ History \in Nat \ {0} /\ QueueRoom \in Nat
  BY MonitorAssumption
<1>6. dropEvents' = dropEvents \/ dropEvents' = dropEvents + 1
  BY <1>1, MeasureVerdict DEF Passes, Suspects, Clears, Persists, Counts
<1>7. x.told <= dropEvents' /\ dropEvents' \in Nat
  BY <1>4, <1>6
<1>8. Passes(d) \/ Suspects(d) \/ Clears(d) \/ Persists(d) \/ Counts(d)
  BY <1>1, MeasureVerdict
<1>9. CASE dropEvents > x.told
  <2>1. dropEvents' > x.told
    BY <1>4, <1>6, <1>9
  <2> QED BY <1>7, <2>1 DEF Pursued
<1>10. ASSUME gate.state = "Pending", gate.start <= x.at + Gap, byd > gate.base + Threshold
       PROVE  Pursued(x)'
  <2>1. d - gate.base > Threshold /\ ~(d - gate.base <= Threshold)
    BY <1>3, <1>4, <1>5, <1>10
  <2>2. CASE Persists(d)
    <3>1. gate'.state = "Pending" /\ gate'.base = gate.base /\ gate'.start = gate.start
      BY <2>2 DEF Persists
    <3> QED BY <1>3, <1>10, <3>1 DEF Pursued, Pinned
  <2>3. CASE Counts(d)
    <3>1. dropEvents' > x.told
      BY <1>4, <2>3 DEF Counts
    <3> QED BY <3>1 DEF Pursued
  <2> QED BY <1>8, <1>10, <2>1, <2>2, <2>3 DEF Passes, Suspects, Clears
<1>11. CASE Pinned(x)
  BY <1>3, <1>7, <1>10, <1>11 DEF Pinned
<1>12. CASE Unanswered(x)
  <2>1. /\ gate.state # "Latched" /\ x.at - acc.t0 >= Past + Gap /\ acc.last <= x.at
        /\ \A i \in 1..Len(hist) : x.at - hist[i].at < Past + Gap => byd > hist[i].size + Threshold
    BY <1>3, <1>12 DEF Unanswered
  <2>2. now <= x.at + Gap
    BY <1>4, <1>5, <2>1
  <2>3. \A i \in 1..Len(hist) : hist[i].at \in Nat /\ hist[i].size \in Nat
    BY <1>0 DEF FieldTypes
  <2>4. CASE gate.state = "Pending"
    <3>1. /\ hist # <<>> /\ hist[Len(hist)].at = acc.last
          /\ hist[Len(hist)].size > gate.base + Threshold /\ gate.start <= acc.last
      BY <1>0, <2>4 DEF TraceInv
    <3>2. Len(hist) \in 1..Len(hist)
      <4>1. hist \in Seq(Deficits)
        BY DEF ClockTypes
      <4> QED BY <3>1, <4>1
    <3>3. x.at - acc.last < Past + Gap /\ gate.start <= x.at + Gap
      BY <1>4, <1>5, <2>1, <3>1
    <3>4. byd > hist[Len(hist)].size + Threshold /\ hist[Len(hist)].size \in Nat
      BY <2>1, <2>3, <3>1, <3>2, <3>3
    <3>5. byd > gate.base + Threshold
      BY <1>4, <1>5, <3>1, <3>4
    <3> QED BY <1>7, <1>10, <2>4, <3>3, <3>5
  <2>5. CASE gate.state = "Idle"
    <3>1. /\ hist' \in Seq(Deficits) /\ Len(hist') \in 1..History
          /\ Len(hist') = History \/ hist'[1].at - acc.t0 <= Gap
      BY <1>0, <1>2, TraceKept
    <3>2. 1 \in 1..Len(hist') /\ hist'[1].at \in Nat
      <4>1. 1 \in 1..Len(hist')
        BY <1>5, <3>1
      <4>2. hist'[1] \in Deficits
        BY <3>1, <4>1
      <4> QED BY <4>1, <4>2 DEF Deficits
    <3>3. now - hist'[1].at >= Past
      <4>1. CASE Len(hist') = History
        <5>1. Len(hist') - 1 + Queued' < QueueRoom + now - hist'[1].at
          BY <1>0, <1>2, <3>2, HistoryStep
        <5>2. Queued' \in Nat
          <6>1. Queued \in 1..QueueRoom /\ Queued' = Queued - 1
            BY <1>0, ArriveFacts
          <6> QED BY <1>5, <6>1
        <5> QED BY <1>4, <1>5, <3>2, <4>1, <5>1, <5>2 DEF HistoryReaches
      <4>2. CASE hist'[1].at - acc.t0 <= Gap
        <5>1. PICK a \in Nat, t \in Nat, b \in Int : a = hist'[1].at /\ t = x.at /\ b = acc.t0
          BY <1>4, <3>2
        <5>2. a - b <= Gap /\ t - b >= Past + Gap /\ t <= now
          BY <2>1, <4>2, <5>1
        <5>3. now - a >= Past
          BY <1>4, <1>5, <5>2
        <5> QED BY <5>1, <5>3
      <4> QED BY <3>1, <4>1, <4>2
    <3>4. ASSUME NEW k \in 1..Len(hist'), NewestOld(k)
          PROVE  hist'[k].size \in Nat /\ byd > hist'[k].size + Threshold
      <4>1. now - hist'[k].at < Past + Gap /\ \E j \in 1..Len(hist) : hist'[k] = hist[j]
        BY <1>0, <1>2, <3>4, ComparedRecently
      <4>2. PICK j \in 1..Len(hist) : hist'[k] = hist[j]
        BY <4>1
      <4>3. now - hist[j].at < Past + Gap /\ hist[j].at \in Nat /\ hist[j].size \in Nat
        BY <2>3, <4>1, <4>2
      <4>4. x.at - hist[j].at < Past + Gap
        <5>1. PICK a \in Nat, t \in Nat : a = hist[j].at /\ t = x.at
          BY <1>4, <4>3
        <5>2. now - a < Past + Gap /\ t <= now
          BY <4>3, <5>1
        <5>3. t - a < Past + Gap
          BY <1>4, <1>5, <5>2
        <5> QED BY <5>1, <5>3
      <4> QED BY <2>1, <4>2, <4>3, <4>4
    <3>5. CASE Passes(d)
      <4>1. ~(now - hist'[1].at < Past)
        BY <1>4, <1>5, <3>2, <3>3
      <4>2. PICK k \in 1..Len(hist') : NewestOld(k) /\ d - hist'[k].size <= Threshold
        BY <2>5, <3>2, <3>5, <4>1 DEF Passes
      <4>3. hist'[k].size \in Nat /\ byd > hist'[k].size + Threshold
        BY <3>4, <4>2
      <4>4. FALSE
        BY <1>3, <1>5, <4>2, <4>3
      <4> QED BY <4>4
    <3>6. CASE Suspects(d)
      <4>1. PICK k \in 1..Len(hist') :
              NewestOld(k) /\ gate'.base = hist'[k].size /\ gate'.start = now /\ gate'.state = "Pending"
        BY <3>6 DEF Suspects
      <4>2. byd > hist'[k].size + Threshold
        BY <3>4, <4>1
      <4>3. Pinned(x)'
        BY <1>3, <2>2, <4>1, <4>2 DEF Pinned
      <4> QED BY <1>7, <4>3 DEF Pursued
    <3> QED BY <1>8, <2>5, <3>5, <3>6 DEF Clears, Persists, Counts
  <2>6. gate.state \in {"Idle", "Pending", "Latched"}
    BY <1>0 DEF FieldTypes
  <2> QED BY <2>1, <2>4, <2>5, <2>6
<1> QED BY <1>9, <1>11, <1>12 DEF Pursued

\* Time and further losses take nothing from what is pursued.
LEMMA QuietPursues ==
  ASSUME ClockTypes, UNCHANGED <<acc, hist, gate, dropEvents>>, lost' \in Nat, lost' >= lost,
         NEW x \in Losses, Pursued(x)
  PROVE  Pursued(x)'
<1>0. /\ FieldTypes /\ lost \in Nat /\ acc.owed \in Nat /\ gate.base \in Nat /\ Threshold \in Nat
      /\ \A i \in 1..Len(hist) : hist[i].size \in Nat
  BY Fields, MonitorAssumption DEF FieldTypes
<1>1. PICK byd \in Nat, more \in Nat : byd = Beyond /\ more = Beyond' /\ byd <= more
  <2>1. PICK l \in Nat : l = lost' /\ l >= lost
    OBVIOUS
  <2>2. Beyond \in Nat /\ Larger(l - acc.owed, 0) \in Nat /\ Beyond <= Larger(l - acc.owed, 0)
    BY <1>0, <2>1 DEF Beyond, Larger
  <2>3. Beyond' = Larger(l - acc.owed, 0)
    BY <2>1 DEF Beyond
  <2> QED BY <2>2, <2>3
<1>2. Pinned(x) => Pinned(x)'
  <2>1. byd > gate.base + Threshold => more > gate.base + Threshold
    BY <1>0, <1>1
  <2> QED BY <1>1, <2>1 DEF Pinned
<1>3. Unanswered(x) => Unanswered(x)'
  <2>1. \A i \in 1..Len(hist) : byd > hist[i].size + Threshold => more > hist[i].size + Threshold
    <3> SUFFICES ASSUME NEW i \in 1..Len(hist), byd > hist[i].size + Threshold
                 PROVE  more > hist[i].size + Threshold
      OBVIOUS
    <3>1. hist[i].size \in Nat
      BY <1>0
    <3> QED BY <1>0, <1>1, <3>1
  <2> QED BY <1>1, <2>1 DEF Unanswered
<1>4. dropEvents > x.told => dropEvents' > x.told
  OBVIOUS
<1> QED BY <1>2, <1>3, <1>4 DEF Pursued

LEMMA QuietTrace ==
  ASSUME ClockTypes, TraceInv, UNCHANGED <<acc, hist, gate, dropEvents>>, now' \in Nat, now' >= now
  PROVE  TraceInv'
<1>1. acc.t0 \in Int /\ now \in Nat
  BY Fields DEF FieldTypes
<1>2. acc.t0 <= now'
  BY <1>1 DEF TraceInv
<1>3. acc.first # None => acc.last <= now'
  BY <1>1 DEF TraceInv
<1> QED BY <1>2, <1>3 DEF TraceInv

\* A new baseline starts with nothing remembered and nothing to pursue.
LEMMA BaselineTrace ==
  ASSUME ClockTypes, TraceInv, LossInv, Arrive, gate'.state = "Idle", hist' = <<>>,
         dropEvents' = dropEvents, acc'.t0 = now, acc'.last = now
  PROVE  TraceInv' /\ LossInv'
<1>1. now' = now /\ losses' = losses /\ now \in Nat
  BY DEF Arrive, ClockTypes
<1>2. TraceInv'
  <2>1. Len(hist') = 0
    OBVIOUS
  <2>2. \A i \in 1..Len(hist')-1 : FALSE
    BY <2>1
  <2>3. acc'.last \in Int /\ acc'.last <= now' /\ acc'.t0 <= now'
    BY <1>1
  <2> QED BY <1>1, <2>2, <2>3 DEF TraceInv
<1>3. LossInv'
  <2> SUFFICES ASSUME NEW i \in 1..Len(losses)
               PROVE  losses[i].at <= now /\ losses[i].told <= dropEvents /\ ~(losses[i].at > now)
    BY <1>1 DEF LossInv
  <2>1. losses[i] \in Losses
    BY DEF LossInv
  <2>2. losses[i].at \in Nat /\ losses[i].at <= now /\ losses[i].told <= dropEvents
    BY <2>1 DEF Losses, LossInv
  <2> QED BY <1>1, <2>2
<1> QED BY <1>2, <1>3

LEMMA CountInit == InitClock => CountInv
<1> SUFFICES ASSUME InitClock PROVE CountInv
  OBVIOUS
<1>1. ClockInv
  BY ClockInit
<1>2. TraceInv
  <2>1. Len(<<>>) = 0 /\ None \notin Int
    BY MonitorAssumption
  <2> QED BY <2>1 DEF InitClock, TraceInv, Idle
<1>3. LossInv
  <2>1. losses = <<>> /\ <<>> \in Seq(Losses) /\ Len(<<>>) = 0
    BY DEF InitClock
  <2> QED BY <2>1 DEF LossInv
<1> QED BY <1>1, <1>2, <1>3 DEF CountInv

\* What is to be shown of the losses after a step, one by one.
LEMMA LossesKept ==
  ASSUME losses' \in Seq(Losses),
         \A i \in 1..Len(losses') : \A y \in Losses :
           y = losses'[i] => /\ y.at <= now' /\ y.told <= dropEvents'
                             /\ y.standsOut /\ y.at > acc'.t0 => Pursued(y)'
  PROVE  LossInv'
<1> SUFFICES ASSUME NEW i \in 1..Len(losses')
             PROVE  /\ losses'[i].at <= now' /\ losses'[i].told <= dropEvents'
                    /\ losses'[i].standsOut /\ losses'[i].at > acc'.t0 => Pursued(losses[i])'
  BY DEF LossInv
<1>1. losses'[i] \in Losses
  OBVIOUS
<1> QED BY <1>1 DEF Pursued, Pinned, Unanswered, Beyond

\* A loss itself: what it leaves is above all that the next callback may be
\* compared with.
LEMMA LoseStep ==
  ASSUME CountInv, NEW k \in 1..MaxLoss, Lose(k)
  PROVE  TraceInv' /\ LossInv'
<1>0. /\ ClockTypes /\ TraceInv /\ LossInv /\ FieldTypes /\ k \in Nat
      /\ now \in Nat /\ lost \in Nat /\ acc.owed \in Nat /\ acc.t0 \in Int /\ dropEvents \in Nat
      /\ Threshold \in Nat /\ \A i \in 1..Len(hist) : hist[i].size \in Nat /\ hist[i].at \in Nat
  <2>1. ClockTypes /\ TraceInv /\ LossInv /\ FieldTypes
    BY Fields DEF CountInv, ClockInv
  <2>2. k \in Nat /\ Threshold \in Nat
    BY MonitorAssumption
  <2> QED BY <2>1, <2>2 DEF FieldTypes, TraceInv
<1>1. PICK x \in Losses :
        /\ x.at = now /\ x.told = dropEvents /\ x.standsOut = StandsOut(k)
        /\ losses' = Append(losses, x)
  <2> DEFINE y == [at |-> now, told |-> dropEvents, standsOut |-> StandsOut(k)]
  <2>1. StandsOut(k) \in BOOLEAN
    BY DEF StandsOut
  <2>2. y \in Losses /\ y.at = now /\ y.told = dropEvents /\ y.standsOut = StandsOut(k)
    BY <1>0, <2>1 DEF Losses
  <2>3. losses' = Append(losses, y)
    BY DEF Lose
  <2> HIDE DEF y
  <2> QED BY <2>2, <2>3
<1>2. lost' = lost + k /\ now' = now /\ UNCHANGED <<acc, hist, gate, dropEvents>>
  BY DEF Lose, monitorVars
<1>3. TraceInv'
  BY <1>0, <1>2, QuietTrace
<1>4. x.standsOut => Unanswered(x)'
  <2> SUFFICES ASSUME StandsOut(k) PROVE Unanswered(x)'
    BY <1>1
  <2>1. /\ acc.first # None /\ now - acc.t0 >= Past + Gap /\ gate.state # "Latched"
        /\ \A i \in DOMAIN hist :
             now - hist[i].at < Past + Gap => lost + k - acc.owed > hist[i].size + Threshold
    BY DEF StandsOut
  <2>2. DOMAIN hist = 1..Len(hist) /\ acc.last <= now
    BY <1>0, <2>1 DEF ClockTypes, TraceInv
  <2>3. PICK left \in Int : left = lost + k - acc.owed
    BY <1>0
  <2>4. left >= 0 => Beyond' = left
    <3>1. Beyond' = Larger(left, 0)
      <4>1. acc' = acc /\ lost' = lost + k
        BY <1>2
      <4>2. lost' - acc'.owed = left
        BY <1>0, <2>3, <4>1
      <4> QED BY <4>2 DEF Beyond, Larger
    <3> QED BY <2>3, <3>1 DEF Larger
  <2>5. ASSUME NEW i \in 1..Len(hist), now - hist[i].at < Past + Gap
        PROVE  Beyond' > hist[i].size + Threshold
    <3>1. left > hist[i].size + Threshold /\ hist[i].size \in Nat
      BY <1>0, <2>1, <2>2, <2>3, <2>5
    <3>2. left >= 0
      BY <1>0, <2>3, <3>1
    <3> QED BY <2>4, <3>1, <3>2
  <2> QED BY <1>1, <1>2, <2>1, <2>2, <2>5 DEF Unanswered
<1>5. losses \in Seq(Losses) /\ Len(losses) \in Nat
  BY <1>0 DEF LossInv
<1>6. /\ losses' \in Seq(Losses) /\ Len(losses') = Len(losses) + 1 /\ losses'[Len(losses) + 1] = x
      /\ \A i \in 1..Len(losses) : losses'[i] = losses[i]
  BY <1>1, <1>5
<1>7. ASSUME NEW i \in 1..Len(losses'), NEW y \in Losses, y = losses'[i]
      PROVE  /\ y.at <= now /\ y.told <= dropEvents
             /\ y.standsOut /\ y.at > acc.t0 => Pursued(y)'
  <2>1. CASE i = Len(losses) + 1
    <3>1. y = x /\ now <= now /\ dropEvents <= dropEvents
      BY <1>0, <1>6, <1>7, <2>1
    <3>2. x.standsOut => Pursued(x)'
      BY <1>4 DEF Pursued
    <3> QED BY <1>1, <3>1, <3>2
  <2>2. CASE i # Len(losses) + 1
    <3>1. i \in 1..Len(losses) /\ y = losses[i]
      BY <1>5, <1>6, <1>7, <2>2
    <3>2. y.at <= now /\ y.told <= dropEvents /\ (y.standsOut /\ y.at > acc.t0 => Pursued(y))
      BY <1>0, <3>1 DEF LossInv
    <3>3. lost' \in Nat /\ lost' >= lost
      BY <1>0, <1>2
    <3>4. Pursued(y) => Pursued(y)'
      BY <1>0, <1>2, <3>3, QuietPursues
    <3> QED BY <3>2, <3>4
  <2> QED BY <2>1, <2>2
<1>8. LossInv'
  BY <1>2, <1>6, <1>7, LossesKept
<1> QED BY <1>3, <1>8

\* The steps that neither lose anything nor hand anything over.
LEMMA QuietCounts ==
  ASSUME CountInv, UNCHANGED <<acc, hist, gate, dropEvents, lost, losses>>, now' \in Nat, now' >= now
  PROVE  TraceInv' /\ LossInv'
<1>0. /\ ClockTypes /\ TraceInv /\ LossInv /\ FieldTypes /\ losses' = losses /\ lost \in Nat
      /\ now \in Nat
  BY Fields DEF CountInv, ClockInv, ClockTypes
<1>1. ASSUME NEW i \in 1..Len(losses'), NEW y \in Losses, y = losses'[i]
      PROVE  /\ y.at <= now' /\ y.told <= dropEvents'
             /\ y.standsOut /\ y.at > acc'.t0 => Pursued(y)'
  <2>1. y.at <= now /\ y.told <= dropEvents /\ (y.standsOut /\ y.at > acc.t0 => Pursued(y))
    BY <1>0, <1>1 DEF LossInv
  <2>2. Pursued(y) => Pursued(y)'
    <3>1. lost' \in Nat /\ lost' >= lost
      BY <1>0
    <3> QED BY <1>0, <3>1, QuietPursues
  <2>3. y.at \in Nat
    BY DEF Losses
  <2>4. y.at <= now'
    BY <1>0, <2>1, <2>3
  <2> QED BY <2>1, <2>2, <2>4
<1>2. losses' \in Seq(Losses)
  BY <1>0 DEF LossInv
<1>3. TraceInv'
  BY <1>0, QuietTrace
<1>4. LossInv'
  BY <1>1, <1>2, LossesKept
<1> QED BY <1>3, <1>4

LEMMA MeasureCounts ==
  ASSUME HistoryReaches, CountInv, Measure
  PROVE  TraceInv' /\ LossInv'
<1>0. ClockTypes /\ ReachInv /\ TraceInv /\ LossInv
  BY DEF CountInv, ClockInv
<1>1. /\ now' = now /\ losses' = losses /\ acc'.t0 = acc.t0
  BY <1>0, MeasureAccounts
<1>2. PICK d \in Nat : d = Deficit
  BY <1>0, Fields, DeficitFacts DEF Measure
<1>3. dropEvents \in Nat /\ (dropEvents' = dropEvents \/ dropEvents' = dropEvents + 1)
  BY <1>0, <1>2, MeasureVerdict DEF TraceInv, Passes, Suspects, Clears, Persists, Counts
<1>4. ASSUME NEW i \in 1..Len(losses'), NEW y \in Losses, y = losses'[i]
      PROVE  /\ y.at <= now' /\ y.told <= dropEvents'
             /\ y.standsOut /\ y.at > acc'.t0 => Pursued(y)'
  <2>1. y.at <= now /\ y.told <= dropEvents /\ (y.standsOut /\ y.at > acc.t0 => Pursued(y))
    BY <1>0, <1>1, <1>4 DEF LossInv
  <2>2. y.told <= dropEvents'
    <3>1. y.told \in Nat
      BY DEF Losses
    <3> QED BY <1>3, <2>1, <3>1
  <2>3. y.at > acc.t0 /\ Pursued(y) => Pursued(y)'
    BY <1>0, <2>1, MeasurePursues
  <2> QED BY <1>1, <2>1, <2>2, <2>3
<1>5. losses' \in Seq(Losses)
  BY <1>0, <1>1 DEF LossInv
<1>6. LossInv'
  BY <1>4, <1>5, LossesKept
<1> QED BY <1>0, <1>6, MeasureTrace

LEMMA CountStep ==
  ASSUME HistoryReaches, CountInv, [NextClock]_clockVars
  PROVE  CountInv'
<1>0. /\ ClockInv /\ ClockTypes /\ ReachInv /\ TraceInv /\ LossInv /\ now \in Nat /\ acc \in Accounts
      /\ gate.state \in {"Idle", "Pending", "Latched"}
  BY Fields DEF CountInv, ClockInv, ClockTypes, FieldTypes
<1>1. ClockInv'
  BY <1>0, ClockStep
<1>2. CASE Tick
  <2>1. now' = now + 1 /\ UNCHANGED <<acc, hist, gate, dropEvents, lost, losses>>
    BY <1>2 DEF Tick, monitorVars
  <2>2. now' \in Nat /\ now' >= now
    BY <1>0, <2>1
  <2> QED BY <1>1, <2>1, <2>2, QuietCounts DEF CountInv
<1>3. CASE UNCHANGED <<deviceVars, monitorVars>>
  <2>1. now' = now /\ UNCHANGED <<acc, hist, gate, dropEvents, lost, losses>>
    BY <1>3 DEF deviceVars, monitorVars
  <2>2. now' \in Nat /\ now' >= now
    BY <1>0, <2>1
  <2> QED BY <1>1, <2>1, <2>2, QuietCounts DEF CountInv
<1>4. ASSUME NEW k \in 1..MaxLoss, Lose(k) PROVE CountInv'
  BY <1>1, <1>4, LoseStep DEF CountInv
<1>5. Baseline.t0 = now /\ Baseline.last = now
      /\ [Baseline EXCEPT !.first = now].t0 = now /\ [Baseline EXCEPT !.first = now].last = now
  BY <1>0 DEF Baseline, Accounts
<1>6. CASE FirstData
  <2>1. Arrive /\ acc' = [Baseline EXCEPT !.first = now] /\ UNCHANGED <<hist, gate, dropEvents>>
    BY <1>6 DEF FirstData
  <2>2. hist = <<>> /\ gate.state = "Idle"
    BY <1>0, <1>6 DEF FirstData, IsFirst, TraceInv
  <2>3. gate'.state = "Idle" /\ hist' = <<>> /\ acc'.t0 = now /\ acc'.last = now
    BY <1>5, <2>1, <2>2
  <2> QED BY <1>0, <1>1, <2>1, <2>3, BaselineTrace DEF CountInv
<1>7. CASE AfterGap
  <2>1. Arrive /\ acc' = Baseline /\ gate' = Idle /\ hist' = <<>> /\ dropEvents' = dropEvents
    BY <1>7 DEF AfterGap
  <2>2. gate'.state = "Idle" /\ acc'.t0 = now /\ acc'.last = now
    BY <1>5, <2>1 DEF Idle
  <2> QED BY <1>0, <1>1, <2>1, <2>2, BaselineTrace DEF CountInv
<1>8. CASE RampUp
  <2>1. Arrive /\ acc' = Baseline /\ gate' = gate /\ hist' = <<>> /\ dropEvents' = dropEvents
    BY <1>8 DEF RampUp
  <2>2. gate.state = "Idle"
    <3>1. acc.first # None /\ now - acc.first < Startup
      BY <1>8 DEF RampUp, IsFirst, IsStartup
    <3>2. acc.first \in Int /\ Startup \in Int
      BY <1>0, <3>1, MonitorAssumption DEF Accounts
    <3>3. ~(now - acc.first >= Startup)
      BY <1>0, <3>1, <3>2
    <3> QED BY <1>0, <3>3 DEF ReachInv
  <2>3. gate'.state = "Idle" /\ acc'.t0 = now /\ acc'.last = now
    BY <1>5, <2>1, <2>2
  <2> QED BY <1>0, <1>1, <2>1, <2>3, BaselineTrace DEF CountInv
<1>9. CASE Measure
  BY <1>1, <1>9, MeasureCounts DEF CountInv
<1>10. CountDrops \/ UNCHANGED clockVars => UNCHANGED <<deviceVars, monitorVars>>
  BY DEF CountDrops, clockVars
<1> QED BY <1>2, <1>3, <1>4, <1>6, <1>7, <1>8, <1>9, <1>10 DEF NextClock

\* However late the transfers come, and whatever else is lost: a loss that stands
\* out against the last comparison is counted within the recovery window and one
\* silence the monitor tolerates (InputDeviceBase.hpp:111-145,
\* SampleDropEventGate.hpp:30-71).
THEOREM ClockLossesCounted ==
  ASSUME HistoryReaches
  PROVE  SpecClock => []LossesCounted
<1>1. InitClock => CountInv
  BY CountInit
<1>2. CountInv /\ [NextClock]_clockVars => CountInv'
  BY CountStep
<1>3. CountInv => LossesCounted
  <2> SUFFICES ASSUME CountInv, NEW i \in DOMAIN losses, losses[i].standsOut, losses[i].at > acc.t0,
                      acc.last >= losses[i].at + Gap + Recovery
               PROVE  dropEvents > losses[i].told
    BY DEF LossesCounted
  <2>0. /\ losses \in Seq(Losses) /\ Gap \in Nat \ {0} /\ Recovery \in Nat
        /\ ClockTypes /\ TraceInv /\ FieldTypes
    BY Fields, MonitorAssumption DEF CountInv, ClockInv, LossInv
  <2>1. PICK x \in Losses : x = losses[i]
    BY <2>0
  <2>2. x.at \in Nat /\ Pursued(x) /\ acc.last >= x.at + Gap + Recovery
    <3>1. i \in 1..Len(losses)
      BY <2>0
    <3> QED BY <2>1, <3>1 DEF CountInv, LossInv, Losses
  <2>3. ~Unanswered(x)
    <3> SUFFICES ASSUME acc.first # None, acc.last <= x.at PROVE FALSE
      BY DEF Unanswered
    <3>1. acc.last \in Int
      BY <2>0 DEF TraceInv
    <3> QED BY <2>0, <2>2, <3>1
  <2>4. ~Pinned(x)
    <3> SUFFICES ASSUME gate.state = "Pending", gate.start <= x.at + Gap PROVE FALSE
      BY DEF Pinned
    <3>1. acc.first # None /\ hist # <<>>
      BY <2>0 DEF TraceInv
    <3>2. acc.last \in Int /\ acc.last - gate.start < Recovery /\ gate.start \in Nat
      BY <2>0, <3>1 DEF TraceInv, FieldTypes
    <3> QED BY <2>0, <2>2, <3>2
  <2> QED BY <2>1, <2>2, <2>3, <2>4 DEF Pursued
<1> QED BY <1>1, <1>2, <1>3, PTL DEF SpecClock

-----------------------------------------------------------------------------
(* The calibration *)

SpecPpm == InitPpm /\ [][NextPpm]_ppmVars

\* Of a window begun under a correction only that one is known; between the
\* call of the driver and the reset the window is stale, but nothing counts.
WindowInv ==
  window # None => /\ window.elapsed \in Nat
                   /\ ~applied => window.under = IF window.elapsed = 0 THEN {} ELSE {ppm}
PpmInv ==
  /\ failuresLeft \in Int /\ failuresLeft <= MaxFailures
  /\ \E S : measurements \in Seq(S)
  /\ Untroubled =>
       /\ WindowInv
       /\ applied => target # None
       /\ target # None => measurements = << >>
       /\ \A i \in DOMAIN measurements : measurements[i].under = {ppm}

LEMMA PpmStep == PpmInv /\ [NextPpm]_ppmVars => PpmInv'
<1> SUFFICES ASSUME PpmInv, [NextPpm]_ppmVars PROVE PpmInv'
  OBVIOUS
<1>1. /\ failuresLeft \in Int /\ failuresLeft <= MaxFailures /\ MaxFailures \in Nat
      /\ {Interval, Samples} \subseteq Nat \ {0}
  BY AutoPpmAssumption DEF PpmInv
<1>2. Fresh.elapsed = 0 /\ Fresh.under = {} /\ << >> \in Seq({})
  BY DEF Fresh
<1>3. ASSUME NEW short, ObserveSamples(short) PROVE PpmInv'
  <2>1. /\ window' = IF window = None THEN None ELSE Count(window, short)
        /\ UNCHANGED <<ppm, failuresLeft, measurements, target, applied>>
    BY <1>3 DEF ObserveSamples, tunerVars
  <2>2. ASSUME WindowInv PROVE WindowInv'
    <3> SUFFICES ASSUME window # None
                 PROVE  /\ window'.elapsed \in Nat
                        /\ ~applied => window'.under = IF window'.elapsed = 0 THEN {} ELSE {ppm}
      BY <2>1 DEF WindowInv
    <3>1. window'.elapsed = window.elapsed + 1 /\ window'.under = window.under \cup {ppm}
      BY <2>1 DEF Count
    <3>2. window.elapsed \in Nat /\ (~applied => window.under \in {{}, {ppm}})
      BY <2>2 DEF WindowInv
    <3> QED BY <3>1, <3>2
  <2> QED BY <2>1, <2>2 DEF PpmInv, Untroubled
<1>4. CASE EndWarmup \/ DiscardWindow
  <2>1. window' = Fresh /\ UNCHANGED <<ppm, failuresLeft, measurements, target, applied>>
    BY <1>4 DEF EndWarmup, DiscardWindow, tunerVars
  <2>2. WindowInv'
    BY <1>2, <2>1 DEF WindowInv
  <2> QED BY <2>1, <2>2 DEF PpmInv, Untroubled
<1>5. CASE CloseWindow
  <2> DEFINE all == Append(measurements, Observation)
  <2>1. /\ target = None /\ window # None /\ window.elapsed >= Interval
        /\ window' = Fresh /\ UNCHANGED <<ppm, failuresLeft, applied>>
        /\ \/ measurements' = << >>
           \/ measurements' = all /\ target' = None
    BY <1>5 DEF CloseWindow, IsComplete, tunerVars
  <2>2. PICK S : measurements \in Seq(S)
    BY DEF PpmInv
  <2>3. /\ all \in Seq(S \cup {Observation})
        /\ \A i \in DOMAIN all : IF i \in DOMAIN measurements THEN all[i] = measurements[i]
                                 ELSE all[i] = Observation
    <3> HIDE DEF Observation
    <3>1. measurements \in Seq(S \cup {Observation})
      BY <2>2
    <3> QED BY <3>1
  <2>4. ASSUME Untroubled PROVE Observation.under = {ppm}
    <3>1. ~applied /\ window.elapsed \in Nat /\ window.elapsed # 0
      BY <1>1, <2>1, <2>4 DEF PpmInv, WindowInv
    <3>2. window.under = {ppm}
      BY <2>1, <2>4, <3>1 DEF PpmInv, WindowInv
    <3> QED BY <3>2 DEF Observation
  <2>5. WindowInv'
    BY <1>2, <2>1 DEF WindowInv
  <2>6. \E T : measurements' \in Seq(T)
    BY <1>2, <2>1, <2>3
  <2>7. ASSUME Untroubled PROVE \A i \in DOMAIN measurements' : measurements'[i].under = {ppm}
    <3> HIDE DEF all, Observation
    <3>1. \A i \in DOMAIN all : all[i].under = {ppm}
      BY <2>3, <2>4, <2>7 DEF PpmInv
    <3>2. DOMAIN << >> = {}
      OBVIOUS
    <3> QED BY <2>1, <3>1, <3>2
  <2>8. ASSUME Untroubled PROVE ~applied
    BY <2>1, <2>8 DEF PpmInv
  <2> HIDE DEF all
  <2> QED BY <2>1, <2>5, <2>6, <2>7, <2>8 DEF PpmInv, Untroubled
<1>6. CASE CallDriver
  <2>1. target # None /\ applied' /\ UNCHANGED <<failuresLeft, window, measurements, target>>
    BY <1>6 DEF CallDriver
  <2>2. Untroubled => WindowInv'
    BY <2>1 DEF PpmInv, WindowInv
  <2>3. Untroubled => measurements = << >>
    BY <2>1 DEF PpmInv
  <2>4. DOMAIN << >> = {}
    OBVIOUS
  <2> QED BY <2>1, <2>2, <2>3, <2>4 DEF PpmInv, Untroubled
<1>7. CASE DriverFails
  <2>1. failuresLeft' = failuresLeft - 1 /\ measurements' = measurements
    BY <1>7 DEF DriverFails
  <2> QED BY <1>1, <2>1 DEF PpmInv, Untroubled
<1>8. CASE DriverRefuses
  <2>1. target' = None /\ ~applied /\ UNCHANGED <<ppm, failuresLeft, window, measurements, applied>>
    BY <1>8 DEF DriverRefuses, tunerVars
  <2> QED BY <2>1 DEF PpmInv, WindowInv, Untroubled
<1>9. CASE ResetMeasurement
  <2>1. window' = None /\ ~applied' /\ target' = None /\ measurements' = << >> /\ failuresLeft' = failuresLeft
    BY <1>9 DEF ResetMeasurement, tunerVars
  <2>2. DOMAIN << >> = {}
    OBVIOUS
  <2> QED BY <1>2, <2>1, <2>2 DEF PpmInv, WindowInv, Untroubled
<1>10. CASE UNCHANGED ppmVars
  BY <1>10 DEF PpmInv, WindowInv, Untroubled, ppmVars, tunerVars
<1> QED BY <1>3, <1>4, <1>5, <1>6, <1>7, <1>8, <1>9, <1>10 DEF NextPpm, Maintain

\* What the median is made of was sampled under the correction in force, so
\* long as the driver failed no call (RtlSdrDevice::periodicMaintenance).
THEOREM WindowsCountTruly == SpecPpm => []WindowsUnderOnePpm
<1>1. InitPpm => PpmInv
  <2>1. << >> \in Seq({}) /\ DOMAIN << >> = {}
    OBVIOUS
  <2> QED BY <2>1, AutoPpmAssumption DEF InitPpm, PpmInv, WindowInv
<1>2. PpmInv => WindowsUnderOnePpm
  BY DEF PpmInv, WindowsUnderOnePpm
<1> QED BY <1>1, <1>2, PpmStep, PTL DEF SpecPpm

-----------------------------------------------------------------------------
(* The gains of the table *)

\* A set of numbers with a member has a least one.
LEMMA LeastMember ==
  ASSUME NEW S \in SUBSET Nat, NEW x \in S
  PROVE  \E n \in S : \A m \in S : n <= m
<1> DEFINE R == OpToRel(<, Nat)
<1>1. IsWellFoundedOn(R, Nat)
  BY NatLessThanWellFounded
<1>2. S \subseteq Nat /\ S # {}
  OBVIOUS
<1>3. \A x0, y0 \in Nat : <<y0, x0>> \in R <=> y0 < x0
  BY DEF OpToRel
<1> HIDE DEF R
<1>4. PICK n \in S : \A m \in S : ~(<<m, n>> \in R)
  BY <1>1, <1>2, WFMin, Zenon
<1>5. ASSUME NEW m \in S PROVE n <= m
  <2>1. n \in Nat /\ m \in Nat
    OBVIOUS
  <2>2. ~(m < n)
    BY <1>3, <1>4, <2>1
  <2> QED BY <2>1, <2>2
<1> QED BY <1>5

\* There always is a nearest gain, and it is in the table.
LEMMA NearestInTable ==
  ASSUME NEW tenths \in Int
  PROVE  NearestGain(tenths) \in 1..Top
<1> DEFINE apart(i) == Apart(tenths, Table[i])
           S == {n \in Nat : \E i \in 1..Top : n = apart(i)}
           Good(i) == /\ \A j \in 1..Top : apart(i) <= apart(j)
                      /\ \A j \in 1..(i - 1) : apart(j) > apart(i)
<1>1. Top \in Nat \ {0} /\ \A i \in 1..Top : Table[i] \in Nat
  BY TunerAssumption DEF Top
<1>2. \A i \in 1..Top : apart(i) \in Nat
  BY <1>1 DEF Apart
<1> HIDE DEF apart
<1>3. PICK n \in S : \A m \in S : n <= m
  <2>1. S \in SUBSET Nat /\ apart(1) \in S
    BY <1>1, <1>2
  <2> HIDE DEF S
  <2> QED BY <2>1, LeastMember
<1> DEFINE I == {i \in 1..Top : apart(i) = n}
<1>4. PICK k \in I : \A m \in I : k <= m
  <2>1. PICK i \in 1..Top : n = apart(i)
    BY <1>3
  <2>2. I \in SUBSET Nat /\ i \in I
    BY <1>1, <2>1
  <2> HIDE DEF I
  <2> QED BY <2>2, LeastMember
<1>5. k \in 1..Top /\ apart(k) = n
  BY <1>4
<1>6. ASSUME NEW j \in 1..Top PROVE apart(k) <= apart(j)
  BY <1>2, <1>3, <1>5
<1>7. ASSUME NEW j \in 1..(k - 1) PROVE apart(j) > apart(k)
  <2>1. j \in 1..Top /\ j \notin I
    BY <1>1, <1>4, <1>5
  <2> QED BY <1>2, <1>5, <1>6, <2>1
<1>8. \E i \in 1..Top : Good(i)
  BY <1>5, <1>6, <1>7
<1>9. NearestGain(tenths) = CHOOSE i \in 1..Top : Good(i)
  BY DEF NearestGain, apart
<1> HIDE DEF Good
<1> QED BY <1>8, <1>9

\* A gain of the table is the nearest to itself.
LEMMA NearestOfItself ==
  ASSUME NEW i \in 1..Top
  PROVE  NearestGain(Table[i]) = i
<1> DEFINE Good(k) == /\ \A j \in 1..Top : Apart(Table[i], Table[k]) <= Apart(Table[i], Table[j])
                      /\ \A j \in 1..(k - 1) : Apart(Table[i], Table[j]) > Apart(Table[i], Table[k])
<1>1. Top \in Nat \ {0} /\ \A j \in 1..Top : Table[j] \in Nat
  BY TunerAssumption DEF Top
<1>2. \A j, k \in 1..Top : j < k => Table[j] < Table[k]
  BY WalkAssumption
<1>3. \A j \in 1..Top : Apart(Table[i], Table[j]) \in Nat
  BY <1>1 DEF Apart
<1>4. Apart(Table[i], Table[i]) = 0
  BY <1>1 DEF Apart
<1>5. \A j \in 1..Top : j # i => Apart(Table[i], Table[j]) > 0
  BY <1>1, <1>2 DEF Apart
<1>6. Good(i)
  BY <1>1, <1>3, <1>4, <1>5
<1>7. ASSUME NEW k \in 1..Top, Good(k) PROVE k = i
  <2>1. Apart(Table[i], Table[k]) <= 0
    BY <1>4, <1>7
  <2> QED BY <1>3, <1>5, <2>1
<1>8. NearestGain(Table[i]) = CHOOSE k \in 1..Top : Good(k)
  BY DEF NearestGain
<1> HIDE DEF Good
<1> QED BY <1>6, <1>7, <1>8

\* The walk ends within the steps that the stages have.
LEMMA StepsInRange ==
  ASSUME NEW i \in 1..Top
  PROVE  TableSteps[i] \in (0..Len(LnaSteps)) \X (0..Len(MixerSteps))
<1>1. Len(LnaSteps) \in Nat /\ Len(MixerSteps) = Len(LnaSteps)
  BY TunerAssumption
<1> DEFINE R == Reaches(Table[i])
<1>2. PICK least \in R : \A m \in R : least <= m
  <2>1. R \in SUBSET Nat /\ 2 * Len(LnaSteps) \in R
    BY <1>1 DEF Reaches, Turns
  <2> HIDE DEF R
  <2> QED BY <2>1, LeastMember
<1> DEFINE n == CHOOSE k \in R : \A m \in R : k <= m
<1>3. n \in R
  <2> HIDE DEF R
  <2> QED BY <1>2
<1>4. n \in 0..2 * Len(LnaSteps)
  BY <1>3 DEF Reaches, Turns
<1>5. TableSteps[i] = StepsAfter(n)
  BY DEF TableSteps, WalkPartition
<1> HIDE DEF n
<1>6. (n + 1) \div 2 \in 0..Len(LnaSteps) /\ n \div 2 \in 0..Len(LnaSteps)
  BY <1>1, <1>4
<1> QED BY <1>1, <1>5, <1>6 DEF StepsAfter

\* The steps the driver takes for a gain of the table are read back as that gain.
LEMMA StepsExact ==
  ASSUME NEW i \in 1..Top
  PROVE  StageIndex[TableSteps[i]] = i
<1>1. TableSteps[i] \in (0..Len(LnaSteps)) \X (0..Len(MixerSteps))
  BY StepsInRange
<1>2. StageIndex[TableSteps[i]]
        = NearestGain(SumTo(LnaSteps, TableSteps[i][1]) + SumTo(MixerSteps, TableSteps[i][2]))
  BY <1>1 DEF StageIndex
<1>3. SumTo(LnaSteps, TableSteps[i][1]) + SumTo(MixerSteps, TableSteps[i][2]) = Table[i]
  BY WalkAssumption
<1> QED BY <1>2, <1>3, NearestOfItself

-----------------------------------------------------------------------------
(* What a call of the driver leaves true of the report *)

ChipFields ==
  {"frequency", "sample_rate", "agc", "bias_tee", "ppm", "offset_tuning", "tuner_bandwidth"} \cup Stages
ShadowFields == ChipFields \ {"sample_rate"}

\* The form of a device.
Formed(d) ==
  /\ DOMAIN d = {"shadow", "chip", "history", "gain", "ok", "open"}
  /\ DOMAIN d.shadow = ShadowFields /\ DOMAIN d.chip = ChipFields
  /\ DOMAIN d.history = {"called", "failed", "invalid", "accepted"}

Accepted(d) == DOMAIN d.history.accepted
Truthful(d) == \A key \in ChipFields \cup {"gain"} : Reported(d, key) => Has(d, key)

\* What a call writes to the chip, that nothing reported of another setting
\* becomes false.
Harmless(d, key, change) ==
  /\ \A k \in ChipFields \ {key} :
       k \in DOMAIN change /\ Reported(d, k) => change[k] = d.history.accepted[k]
  /\ key \notin Stages \cup {"gain"} /\ Reported(d, "gain") =>
       \A s \in Stages :
         s \in DOMAIN change => change[s] = LinearGain(TableSteps[d.history.accepted.gain])[s]
Achieves(key, value, change) ==
  /\ key \in ChipFields => key \in DOMAIN change /\ change[key] = value
  /\ key = "gain" => change = LinearGain(TableSteps[value])

\* What a call of the driver leaves alone, whether it fails or not.
LEMMA CallForm ==
  ASSUME NEW d, Formed(d), NEW key, NEW value, NEW change, NEW faults
  PROVE  LET after == Call(d, key, value, change, faults)
         IN  /\ Formed(after) /\ after.shadow = d.shadow /\ after.gain = d.gain /\ after.open = d.open
             /\ after.ok \in BOOLEAN
             /\ after.history = RecordCall(d.history, key, value, after.ok)
             /\ \/ after.chip = Write(d.chip, change)
                \/ ~after.ok /\ after.chip = d.chip
<1> DEFINE after == Call(d, key, value, change, faults)
           ok == key \notin faults.failing /\ Accepts(key, value)
                   /\ ~(key = "offset_tuning" /\ OffsetFails)
           writes == ok \/ (key \in faults.failing /\ faults.partial)
                     \/ (key = "offset_tuning" /\ OffsetFails)
           chip == IF writes THEN Write(d.chip, change) ELSE d.chip
           history == RecordCall(d.history, key, value, ok)
<1>1. after = [d EXCEPT !.chip = chip, !.history = history, !.ok = ok]
  BY DEF Call
<1>2. ok \in BOOLEAN
  OBVIOUS
<1>3. chip = Write(d.chip, change) \/ (~ok /\ chip = d.chip)
  OBVIOUS
<1>4. DOMAIN chip = ChipFields
  BY DEF Formed, Write
<1>5. DOMAIN history = {"called", "failed", "invalid", "accepted"}
  BY DEF RecordCall
<1> HIDE DEF ok, chip, history
<1>6. /\ DOMAIN after = DOMAIN d /\ after.chip = chip /\ after.history = history /\ after.ok = ok
      /\ after.shadow = d.shadow /\ after.gain = d.gain /\ after.open = d.open
  BY <1>1 DEF Formed
<1>7. history = RecordCall(d.history, key, value, ok)
  BY DEF history
<1> QED BY <1>2, <1>3, <1>4, <1>5, <1>6, <1>7 DEF Formed

\* Without a fault a call fails only where the tuner has no such control.
LEMMA CallSound ==
  ASSUME NEW d, Formed(d), NEW key, NEW value, NEW change
  PROVE  LET after == Call(d, key, value, change, NoFaults)
         IN  /\ after.ok <=> Accepts(key, value) /\ ~(key = "offset_tuning" /\ IsR82xx)
             /\ ~after.ok /\ key # "offset_tuning" => after.chip = d.chip
BY DEF Call, NoFaults, OffsetFails, Formed, Accepts

\* What recordCall makes of the history.
LEMMA RecordFacts ==
  ASSUME NEW h, NEW key, NEW value, NEW ok \in BOOLEAN
  PROVE  LET new == RecordCall(h, key, value, ok)
         IN  /\ DOMAIN new.accepted = DOMAIN h.accepted \cup {key}
             /\ \A k \in DOMAIN h.accepted \ {key} : new.accepted[k] = h.accepted[k]
             /\ new.accepted[key] = (IF ok THEN value ELSE None)
             /\ new.failed \cup {key} = h.failed \cup {key} /\ (~ok => key \in new.failed)
             /\ h.invalid \subseteq new.invalid \cup {key}
             /\ key \in Stages => "gain" \in new.invalid
             /\ key = "gain" => Stages \subseteq new.invalid
<1> DEFINE new == RecordCall(h, key, value, ok)
<1>1. new.accepted = [k \in DOMAIN h.accepted \cup {key} |->
                   IF k # key THEN h.accepted[k] ELSE IF ok THEN value ELSE None]
  BY DEF RecordCall
<1>2. new.failed = IF ok THEN h.failed \ {key} ELSE h.failed \cup {key}
  BY DEF RecordCall
<1>3. new.invalid = (h.invalid \ {key}) \cup
               (CASE key = "gain" -> Stages [] key \in Stages -> {"gain"} [] OTHER -> {})
  BY DEF RecordCall
<1> HIDE DEF new
<1>4. /\ key \in Stages => "gain" \in new.invalid
      /\ key = "gain" => Stages \subseteq new.invalid
  BY <1>3 DEF Stages
<1>5. new.failed \cup {key} = h.failed \cup {key} /\ (~ok => key \in new.failed)
  BY <1>2
<1>6. h.invalid \subseteq new.invalid \cup {key}
  BY <1>3
<1> QED BY <1>1, <1>4, <1>5, <1>6 DEF new

\* A harmless call that achieves what it reports keeps the report true.
LEMMA CallTruthful ==
  ASSUME NEW d, Formed(d), Truthful(d), NEW key, NEW value, NEW change, NEW faults,
         Harmless(d, key, change),
         Call(d, key, value, change, faults).ok => Achieves(key, value, change)
  PROVE  Truthful(Call(d, key, value, change, faults))
<1> DEFINE after == Call(d, key, value, change, faults)
<1>1. /\ Formed(after) /\ after.ok \in BOOLEAN
      /\ after.history = RecordCall(d.history, key, value, after.ok)
      /\ after.chip = Write(d.chip, change) \/ (~after.ok /\ after.chip = d.chip)
      /\ after.ok => Achieves(key, value, change)
  BY CallForm
<1> HIDE DEF after
<1> DEFINE h == d.history
           new == after.history
<1>2. /\ DOMAIN new.accepted = DOMAIN h.accepted \cup {key}
      /\ \A k \in DOMAIN h.accepted \ {key} : new.accepted[k] = h.accepted[k]
      /\ new.accepted[key] = (IF after.ok THEN value ELSE None)
      /\ new.failed \cup {key} = h.failed \cup {key} /\ (~after.ok => key \in new.failed)
      /\ h.invalid \subseteq new.invalid \cup {key}
      /\ key \in Stages => "gain" \in new.invalid
  BY <1>1, RecordFacts
<1> SUFFICES ASSUME NEW k \in ChipFields \cup {"gain"}, Reported(after, k)
             PROVE  Has(after, k)
  BY DEF Truthful, after
<1>3. k \in DOMAIN new.accepted /\ new.accepted[k] # None /\ k \notin new.failed /\ k \notin new.invalid
  BY DEF Reported
<1>4. \A f \in ChipFields :
        after.chip[f] = IF after.chip # d.chip /\ f \in DOMAIN change THEN change[f] ELSE d.chip[f]
  BY <1>1 DEF Write, Formed
<1>5. CASE k = key
  <2>1. after.ok /\ after.history.accepted[key] = value
    BY <1>2, <1>3, <1>5
  <2>2. after.chip = Write(d.chip, change)
    BY <1>1, <2>1
  <2>3. CASE key \in ChipFields
    <3>1. after.chip[key] = value /\ key # "gain"
      BY <1>1, <2>1, <2>2, <2>3 DEF Write, Formed, Achieves, ChipFields, Stages
    <3> QED BY <1>5, <2>1, <3>1 DEF Has
  <2>4. CASE key = "gain"
    <3>1. change = LinearGain(TableSteps[value])
      BY <1>1, <2>1, <2>4 DEF Achieves
    <3>2. Restrict(after.chip, Stages) = change
      BY <2>2, <3>1 DEF Restrict, Write, Formed, LinearGain, Stages, ChipFields
    <3> QED BY <1>5, <2>1, <2>4, <3>1, <3>2 DEF Has
  <2> QED BY <1>5, <2>3, <2>4
<1>6. CASE k # key
  <2>1. Reported(d, k) /\ new.accepted[k] = h.accepted[k]
    BY <1>2, <1>3, <1>6 DEF Reported
  <2>2. Has(d, k)
    BY <2>1 DEF Truthful
  <2>3. CASE k \in ChipFields
    <3>1. k # "gain" /\ d.chip[k] = d.history.accepted[k]
      BY <2>2, <2>3 DEF Has, ChipFields, Stages
    <3>2. k \in DOMAIN change => change[k] = d.history.accepted[k]
      BY <2>1, <2>3, <1>6 DEF Harmless
    <3>3. after.chip[k] = d.history.accepted[k]
      BY <1>4, <2>3, <3>1, <3>2
    <3> QED BY <2>1, <3>1, <3>3 DEF Has
  <2>4. CASE k = "gain"
    <3> DEFINE linear == LinearGain(TableSteps[d.history.accepted.gain])
    <3>1. key \notin Stages \cup {"gain"}
      BY <1>2, <1>3, <1>6, <2>4
    <3>2. \A s \in Stages : s \in DOMAIN change => change[s] = linear[s]
      BY <2>1, <2>4, <3>1 DEF Harmless
    <3>3. Restrict(d.chip, Stages) = linear
      BY <2>2, <2>4 DEF Has
    <3> HIDE DEF linear
    <3>4. \A s \in Stages : d.chip[s] = linear[s]
      BY <3>3 DEF Restrict
    <3>5. \A s \in Stages : after.chip[s] = linear[s]
      BY <1>4, <3>2, <3>4 DEF ChipFields
    <3>6. Restrict(after.chip, Stages) = linear
      BY <3>3, <3>4, <3>5 DEF Restrict
    <3> QED BY <2>1, <2>4, <3>6 DEF Has, linear
  <2> QED BY <2>3, <2>4
<1> QED BY <1>5, <1>6

-----------------------------------------------------------------------------
(* What a configuration leaves true of the report *)

\* A device half-way through its configuration, where "done" was set.
Chain(d, done) ==
  /\ Formed(d) /\ Truthful(d)
  /\ Accepted(d) \subseteq {"frequency", "sample_rate"} \cup done
  /\ "bias_tee" \notin done => d.shadow.bias_tee = FALSE
  /\ "offset_tuning" \notin done => d.shadow.offset_tuning = FALSE
  /\ "bias_tee" \in Accepted(d) => d.history.accepted.bias_tee \in {TRUE, None}

\* What a call returned says nothing of the settings.
LEMMA OkChain ==
  ASSUME NEW d, NEW done, Chain(d, done), NEW ok
  PROVE  Chain([d EXCEPT !.ok = ok], done)
<1> DEFINE new == [d EXCEPT !.ok = ok]
<1>1. /\ Formed(new) /\ new.shadow = d.shadow /\ new.chip = d.chip /\ new.history = d.history
  BY DEF Formed, Chain
<1> HIDE DEF new
<1>2. Truthful(new)
  BY <1>1 DEF Chain, Truthful, Reported, Has
<1>3. Chain(new, done)
  BY <1>1, <1>2 DEF Chain, Accepted
<1> QED BY <1>3 DEF new

LEMMA MoreChain ==
  ASSUME NEW d, NEW done, NEW more, Chain(d, done), done \subseteq more
  PROVE  Chain(d, more)
BY DEF Chain

\* A setter keeps the report true, called or found in the shadow.
LEMMA SettingChain ==
  ASSUME NEW d, NEW done, Chain(d, done), NEW key \in ShadowFields, NEW value, NEW change, NEW faults,
         key = "bias_tee" => value \in BOOLEAN /\ "bias_tee" \notin done,
         d.shadow[key] # value =>
           /\ Harmless(d, key, change)
           /\ Call(d, key, value, change, faults).ok => Achieves(key, value, change)
  PROVE  Chain(Setting(d, key, value, change, faults), done \cup {key})
<1>1. CASE d.shadow[key] = value
  <2>1. Setting(d, key, value, change, faults) = [d EXCEPT !.ok = TRUE]
    BY <1>1 DEF Setting
  <2> QED BY <2>1, OkChain, MoreChain
<1>2. CASE d.shadow[key] # value
  <2> DEFINE after == Call(d, key, value, change, faults)
             new == IF after.ok THEN [after EXCEPT !.shadow[key] = value] ELSE after
  <2>1. /\ Formed(after) /\ after.shadow = d.shadow /\ after.ok \in BOOLEAN
        /\ after.history = RecordCall(d.history, key, value, after.ok)
    BY CallForm DEF Chain
  <2>2. Truthful(after)
    BY <1>2, CallTruthful DEF Chain
  <2>3. Setting(d, key, value, change, faults) = new
    BY <1>2 DEF Setting
  <2> HIDE DEF after
  <2>4. /\ Accepted(after) = Accepted(d) \cup {key}
        /\ \A k \in Accepted(d) \ {key} : after.history.accepted[k] = d.history.accepted[k]
        /\ after.history.accepted[key] \in {value, None}
    BY <2>1, RecordFacts DEF Accepted
  <2>5. key = "bias_tee" => value = TRUE
    BY <1>2 DEF Chain
  <2>6. /\ Formed(new) /\ new.chip = after.chip /\ new.history = after.history
        /\ \A f \in ShadowFields \ {key} : new.shadow[f] = d.shadow[f]
    BY <2>1 DEF Formed
  <2> HIDE DEF new
  <2>7. Truthful(new)
    BY <2>2, <2>6 DEF Truthful, Reported, Has
  <2>8. "bias_tee" \in Accepted(new) => new.history.accepted.bias_tee \in {TRUE, None}
    <3> SUFFICES ASSUME "bias_tee" \in Accepted(after)
                 PROVE  after.history.accepted.bias_tee \in {TRUE, None}
      BY <2>6 DEF Accepted
    <3>1. CASE key = "bias_tee"
      BY <2>4, <2>5, <3>1
    <3>2. CASE key # "bias_tee"
      BY <2>4, <3>2 DEF Chain
    <3> QED BY <3>1, <3>2
  <2>9. Accepted(new) \subseteq {"frequency", "sample_rate"} \cup (done \cup {key})
    BY <2>4, <2>6 DEF Chain, Accepted
  <2>10. /\ "bias_tee" \notin done \cup {key} => new.shadow.bias_tee = FALSE
         /\ "offset_tuning" \notin done \cup {key} => new.shadow.offset_tuning = FALSE
    BY <2>6 DEF Chain, ShadowFields, ChipFields
  <2> QED BY <2>3, <2>6, <2>7, <2>8, <2>9, <2>10 DEF Chain
<1> QED BY <1>1, <1>2

\* The setters that tune again put the VGA back, which no stage setting has
\* reported yet.
LEMMA RetuneChain ==
  ASSUME NEW d, NEW done, Chain(d, done), "vga_gain" \notin done, NEW value, NEW faults,
         NEW key \in {"frequency", "ppm", "tuner_bandwidth"}
  PROVE  Chain(Setting(d, key, value, Retune(key, value), faults), done \cup {key})
<1> DEFINE change == Retune(key, value)
<1>1. /\ DOMAIN change \subseteq {key, "vga_gain"} /\ key \in DOMAIN change /\ change[key] = value
      /\ "vga_gain" \in DOMAIN change => change["vga_gain"] = VgaLinear
  BY DEF Retune, Set
<1> HIDE DEF change
<1>2. key \in ShadowFields /\ key # "bias_tee" /\ key \notin Stages \cup {"gain"}
  BY DEF ShadowFields, ChipFields, Stages
<1>3. ~Reported(d, "vga_gain")
  BY DEF Chain, Accepted, Reported
<1>4. Harmless(d, key, change)
  BY <1>1, <1>3 DEF Harmless, LinearGain, Stages
<1>5. Achieves(key, value, change)
  BY <1>1, <1>2 DEF Achieves
<1>6. Chain(Setting(d, key, value, change, faults), done \cup {key})
  BY <1>2, <1>4, <1>5, SettingChain
<1> QED BY <1>6 DEF change

\* The setters that write what they are about and nothing else.
LEMMA PlainChain ==
  ASSUME NEW d, NEW done, Chain(d, done), NEW value, NEW faults,
         NEW key \in {"agc", "bias_tee"} \cup Stages,
         key = "bias_tee" => value \in BOOLEAN /\ "bias_tee" \notin done
  PROVE  Chain(Setting(d, key, value, Set(key, value), faults), done \cup {key})
<1> DEFINE change == Set(key, value)
<1>1. DOMAIN change = {key} /\ change[key] = value
  BY DEF Set
<1> HIDE DEF change
<1>2. key \in ShadowFields /\ key # "gain"
  BY DEF ShadowFields, ChipFields, Stages
<1>4. Harmless(d, key, change)
  BY <1>1 DEF Harmless
<1>5. Achieves(key, value, change)
  BY <1>1, <1>2 DEF Achieves
<1>6. Chain(Setting(d, key, value, change, faults), done \cup {key})
  BY <1>2, <1>4, <1>5, SettingChain
<1> QED BY <1>6 DEF change

\* The fork's offset tuning is a bias tee; what it does to it is what was asked
\* of the bias tee before.
LEMMA OffsetChain ==
  ASSUME NEW d, NEW done, Chain(d, done), "offset_tuning" \notin done, NEW on \in BOOLEAN, NEW faults
  PROVE  Chain(SetOffsetTuning(d, on, faults), done \cup {"offset_tuning"})
<1> DEFINE change == OffsetTuning(on)
<1>1. CASE IsR82xx
  <2>1. DOMAIN change = {"bias_tee"} /\ change["bias_tee"] = on
    BY <1>1 DEF OffsetTuning, Set
  <2>2. ~Call(d, "offset_tuning", on, change, faults).ok
    BY <1>1 DEF Call, OffsetFails, Chain, Formed
  <2> HIDE DEF change
  <2>3. ASSUME d.shadow["offset_tuning"] # on, Reported(d, "bias_tee")
        PROVE  change["bias_tee"] = d.history.accepted["bias_tee"]
    <3>1. on = TRUE
      BY <2>3 DEF Chain
    <3>2. d.history.accepted.bias_tee = TRUE
      BY <2>3 DEF Chain, Reported, Accepted
    <3> QED BY <2>1, <3>1, <3>2
  <2>4. d.shadow["offset_tuning"] # on => Harmless(d, "offset_tuning", change)
    BY <2>1, <2>3 DEF Harmless, Stages
  <2>5. Chain(Setting(d, "offset_tuning", on, change, faults), done \cup {"offset_tuning"})
    BY <2>2, <2>4, SettingChain DEF ShadowFields, ChipFields
  <2> QED BY <2>5 DEF SetOffsetTuning, change
<1>2. CASE ~IsR82xx
  <2>1. DOMAIN change = {"offset_tuning"} /\ change["offset_tuning"] = on
    BY <1>2 DEF OffsetTuning, Set
  <2> HIDE DEF change
  <2>2. Harmless(d, "offset_tuning", change) /\ Achieves("offset_tuning", on, change)
    BY <2>1 DEF Harmless, Achieves, Stages
  <2>5. Chain(Setting(d, "offset_tuning", on, change, faults), done \cup {"offset_tuning"})
    BY <2>2, SettingChain DEF ShadowFields, ChipFields
  <2> QED BY <2>5 DEF SetOffsetTuning, change
<1> QED BY <1>1, <1>2

\* What the steps of the table leave: the mode that is switched first puts the
\* gain to 0 dB, which nothing has reported yet.
LEMMA TableStepChain ==
  ASSUME NEW d, NEW done, Chain(d, done), done \cap (Stages \cup {"gain"}) = {},
         NEW index, NEW faults
  PROVE  Chain(ApplyTableStep(d, index, faults), done \cup {"tuner_mode", "gain"})
<1> DEFINE mode == Call(d, "tuner_mode", 1, GainMode, faults)
           linear == LinearGain(TableSteps[index])
           both == Call(mode, "gain", index, linear, faults)
           more == done \cup {"tuner_mode", "gain"}
<1>1. /\ \A k \in Stages \cup {"gain"} : k \notin Accepted(d)
      /\ DOMAIN GainMode = Stages /\ DOMAIN linear = Stages
  BY DEF Chain, GainMode, LinearGain, Stages
<1>2. /\ Formed(mode) /\ mode.shadow = d.shadow /\ mode.ok \in BOOLEAN
      /\ mode.history = RecordCall(d.history, "tuner_mode", 1, mode.ok)
  BY CallForm DEF Chain
<1>3. Truthful(mode)
  <2>1. Harmless(d, "tuner_mode", GainMode)
    BY <1>1 DEF Harmless, Reported, Accepted
  <2>2. Achieves("tuner_mode", 1, GainMode)
    BY DEF Achieves, ChipFields, Stages
  <2> QED BY <2>1, <2>2, CallTruthful DEF Chain
<1> HIDE DEF mode
<1>4. /\ Accepted(mode) = Accepted(d) \cup {"tuner_mode"}
      /\ \A k \in Accepted(d) \ {"tuner_mode"} : mode.history.accepted[k] = d.history.accepted[k]
  BY <1>2, RecordFacts DEF Accepted
<1>5. Chain(mode, more)
  BY <1>2, <1>3, <1>4 DEF Chain
<1>6. /\ Formed(both) /\ both.shadow = mode.shadow /\ both.ok \in BOOLEAN
      /\ both.history = RecordCall(mode.history, "gain", index, both.ok)
  BY <1>2, CallForm
<1>7. Truthful(both)
  <2>1. Harmless(mode, "gain", linear)
    BY <1>1, <1>4 DEF Harmless, Reported, Accepted, Stages
  <2>2. Achieves("gain", index, linear)
    BY DEF Achieves, ChipFields, Stages
  <2> QED BY <1>2, <1>3, <2>1, <2>2, CallTruthful
<1> HIDE DEF both
<1>8. /\ Accepted(both) = Accepted(mode) \cup {"gain"}
      /\ \A k \in Accepted(mode) \ {"gain"} : both.history.accepted[k] = mode.history.accepted[k]
  BY <1>6, RecordFacts DEF Accepted
<1>9. Chain(both, more)
  BY <1>5, <1>6, <1>7, <1>8 DEF Chain
<1>10. Chain(RecordLinearGain(both, index), more)
  <2> DEFINE memory == Write(both.shadow, LinearGain(TableSteps[index]))
             new == [both EXCEPT !.shadow = memory, !.gain = index]
  <2>1. /\ DOMAIN memory = ShadowFields
        /\ memory.bias_tee = both.shadow.bias_tee /\ memory.offset_tuning = both.shadow.offset_tuning
    BY <1>6 DEF Write, LinearGain, Formed, ShadowFields, ChipFields, Stages
  <2> HIDE DEF memory
  <2>2. Formed(new) /\ new.shadow = memory /\ new.chip = both.chip /\ new.history = both.history
    BY <1>6, <2>1 DEF Formed
  <2>3. RecordLinearGain(both, index) = new
    BY DEF RecordLinearGain, memory
  <2> HIDE DEF new
  <2>4. Truthful(new)
    BY <1>7, <2>2 DEF Truthful, Reported, Has
  <2>5. Chain(new, more)
    BY <1>9, <2>1, <2>2, <2>4 DEF Chain, Accepted
  <2> QED BY <2>3, <2>5
<1>11. ApplyTableStep(d, index, faults) \in {mode, both, RecordLinearGain(both, index)}
  BY DEF ApplyTableStep, mode, both, linear
<1> QED BY <1>5, <1>9, <1>10, <1>11

LEMMA GainChain ==
  ASSUME NEW d, NEW done, Chain(d, done), done \cap (Stages \cup {"gain"}) = {},
         NEW tenths, NEW faults
  PROVE  Chain(SetGain(d, tenths, faults), done \cup {"tuner_mode", "gain"})
<1>1. Chain([d EXCEPT !.ok = TRUE], done \cup {"tuner_mode", "gain"})
  BY OkChain, MoreChain
<1>2. Chain(ApplyTableStep(d, NearestGain(tenths), faults), done \cup {"tuner_mode", "gain"})
  BY TableStepChain
<1> QED BY <1>1, <1>2 DEF SetGain

\* Every setting of the configuration keeps the report true.
LEMMA OptionalChain ==
  ASSUME NEW d, NEW done, Chain(d, done),
         NEW key \in ShadowFields \cup {"gain"}, key \notin done,
         key \notin Stages => done \cap {"vga_gain"} = {},
         key = "gain" => done \cap Stages = {},
         NEW value, key \in {"bias_tee", "offset_tuning"} => value \in BOOLEAN, NEW faults
  PROVE  Chain(Optional(d, key, value, faults),
               done \cup IF key = "gain" THEN {"tuner_mode", "gain"} ELSE {key})
<1> DEFINE after == ApplySetting(d, key, value, faults)
           more == done \cup IF key = "gain" THEN {"tuner_mode", "gain"} ELSE {key}
<1>1. Chain(after, more)
  <2>1. CASE key = "frequency"
    <3>1. after = SetFrequency(d, value, faults)
      BY <2>1 DEF ApplySetting
    <3>2. Chain(SetFrequency(d, value, faults), more)
      BY <2>1, RetuneChain DEF Stages, SetFrequency
    <3> QED BY <3>1, <3>2
  <2>2. CASE key = "agc"
    <3>1. after = SetAgc(d, value, faults)
      BY <2>2 DEF ApplySetting
    <3>2. Chain(SetAgc(d, value, faults), more)
      BY <2>2, PlainChain DEF Stages, SetAgc
    <3> QED BY <3>1, <3>2
  <2>3. CASE key = "gain"
    <3>1. after = SetGain(d, value, faults)
      BY <2>3 DEF ApplySetting
    <3>2. Chain(SetGain(d, value, faults), more)
      BY <2>3, GainChain DEF Stages
    <3> QED BY <3>1, <3>2
  <2>4. CASE key = "tuner_bandwidth"
    <3>1. after = SetTunerBandwidth(d, value, faults)
      BY <2>4 DEF ApplySetting
    <3>2. Chain(SetTunerBandwidth(d, value, faults), more)
      BY <2>4, RetuneChain DEF Stages, SetTunerBandwidth
    <3> QED BY <3>1, <3>2
  <2>5. CASE key = "bias_tee"
    <3>1. after = SetBiasTee(d, value, faults)
      BY <2>5 DEF ApplySetting
    <3>2. Chain(SetBiasTee(d, value, faults), more)
      BY <2>5, PlainChain DEF Stages, SetBiasTee
    <3> QED BY <3>1, <3>2
  <2>6. CASE key = "offset_tuning"
    <3>1. after = SetOffsetTuning(d, value, faults)
      BY <2>6 DEF ApplySetting
    <3>2. Chain(SetOffsetTuning(d, value, faults), more)
      BY <2>6, OffsetChain DEF Stages
    <3> QED BY <3>1, <3>2
  <2>7. CASE key = "ppm"
    <3>1. after = SetPpm(d, value, faults)
      BY <2>7 DEF ApplySetting
    <3>2. Chain(SetPpm(d, value, faults), more)
      BY <2>7, RetuneChain DEF Stages, SetPpm
    <3> QED BY <3>1, <3>2
  <2>8. CASE key = "lna_gain"
    <3>1. after = SetLnaGain(d, value, faults)
      BY <2>8 DEF ApplySetting
    <3>2. Chain(SetLnaGain(d, value, faults), more)
      BY <2>8, PlainChain DEF Stages, SetLnaGain
    <3> QED BY <3>1, <3>2
  <2>9. CASE key = "mixer_gain"
    <3>1. after = SetMixerGain(d, value, faults)
      BY <2>9 DEF ApplySetting
    <3>2. Chain(SetMixerGain(d, value, faults), more)
      BY <2>9, PlainChain DEF Stages, SetMixerGain
    <3> QED BY <3>1, <3>2
  <2>10. CASE key = "vga_gain"
    <3>1. after = SetVgaGain(d, value, faults)
      BY <2>10 DEF ApplySetting
    <3>2. Chain(SetVgaGain(d, value, faults), more)
      BY <2>10, PlainChain DEF Stages, SetVgaGain
    <3> QED BY <3>1, <3>2
  <2> QED
    BY <2>1, <2>2, <2>3, <2>4, <2>5, <2>6, <2>7, <2>8, <2>9, <2>10
    DEF ShadowFields, ChipFields, Stages
<1> HIDE DEF after
<1>2. Chain(KeepFailure(d, after), more)
  BY <1>1, OkChain DEF KeepFailure
<1>3. Chain(d, more)
  BY MoreChain
<1> HIDE DEF more
<1>4. Optional(d, key, value, faults) = IF value = None THEN d ELSE KeepFailure(d, after)
  BY DEF Optional, after
<1>5. Chain(Optional(d, key, value, faults), more)
  BY <1>2, <1>3, <1>4
<1> QED BY <1>5 DEF more

\* The whole configuration keeps the report true, whichever calls fail.
LEMMA ConfigChain ==
  ASSUME NEW d, Chain(d, {}), NEW faults, NEW cfg,
         {cfg.bias_tee, cfg.offset_tuning} \subseteq BOOLEAN
  PROVE  Formed(ApplyConfig(d, cfg, faults)) /\ Truthful(ApplyConfig(d, cfg, faults))
<1> DEFINE d0 == [d EXCEPT !.history.called = {}, !.ok = TRUE]
           d1 == Optional(d0, "frequency", cfg.frequency, faults)
           d2 == Optional(d1, "agc", cfg.agc, faults)
           d3 == Optional(d2, "gain", cfg.gain, faults)
           d4 == Optional(d3, "tuner_bandwidth", cfg.tuner_bandwidth, faults)
           d5 == Optional(d4, "bias_tee", cfg.bias_tee, faults)
           d6 == Optional(d5, "offset_tuning", cfg.offset_tuning, faults)
           d7 == Optional(d6, "ppm", cfg.ppm, faults)
           d8 == Optional(d7, "lna_gain", cfg.lna_gain, faults)
           d9 == Optional(d8, "mixer_gain", cfg.mixer_gain, faults)
           d10 == Optional(d9, "vga_gain", cfg.vga_gain, faults)
<1>a. Chain(d0, {})
  <2> DEFINE history == [d.history EXCEPT !.called = {}]
             new == [d EXCEPT !.history = history, !.ok = TRUE]
  <2>1. /\ DOMAIN history = DOMAIN d.history /\ history.accepted = d.history.accepted
        /\ history.failed = d.history.failed /\ history.invalid = d.history.invalid
    BY DEF Formed, Chain
  <2>2. d0 = new
    BY DEF Formed, Chain
  <2> HIDE DEF history
  <2>3. Formed(new) /\ new.shadow = d.shadow /\ new.chip = d.chip /\ new.history = history
    BY <2>1 DEF Formed, Chain
  <2> HIDE DEF new
  <2>4. Truthful(new)
    BY <2>1, <2>3 DEF Chain, Truthful, Reported, Has
  <2>5. Chain(new, {})
    BY <2>1, <2>3, <2>4 DEF Chain, Accepted
  <2> HIDE DEF d0
  <2> QED BY <2>2, <2>5
<1> HIDE DEF d0
<1>1. Chain(d1, {"frequency"})
  BY <1>a, OptionalChain DEF ShadowFields, ChipFields, Stages
<1> HIDE DEF d1
<1>2. Chain(d2, {"frequency", "agc"})
  BY <1>1, OptionalChain DEF ShadowFields, ChipFields, Stages
<1> HIDE DEF d2
<1>3. Chain(d3, {"frequency", "agc", "tuner_mode", "gain"})
  BY <1>2, OptionalChain DEF ShadowFields, ChipFields, Stages
<1> HIDE DEF d3
<1>4. Chain(d4, {"frequency", "agc", "tuner_mode", "gain", "tuner_bandwidth"})
  BY <1>3, OptionalChain DEF ShadowFields, ChipFields, Stages
<1> HIDE DEF d4
<1>5. Chain(d5, {"frequency", "agc", "tuner_mode", "gain", "tuner_bandwidth", "bias_tee"})
  BY <1>4, OptionalChain DEF ShadowFields, ChipFields, Stages
<1> HIDE DEF d5
<1>6. Chain(d6, {"frequency", "agc", "tuner_mode", "gain", "tuner_bandwidth",
                 "bias_tee", "offset_tuning"})
  BY <1>5, OptionalChain DEF ShadowFields, ChipFields, Stages
<1> HIDE DEF d6
<1>7. Chain(d7, {"frequency", "agc", "tuner_mode", "gain", "tuner_bandwidth",
                 "bias_tee", "offset_tuning", "ppm"})
  BY <1>6, OptionalChain DEF ShadowFields, ChipFields, Stages
<1> HIDE DEF d7
<1>8. Chain(d8, {"frequency", "agc", "tuner_mode", "gain", "tuner_bandwidth",
                 "bias_tee", "offset_tuning", "ppm", "lna_gain"})
  BY <1>7, OptionalChain DEF ShadowFields, ChipFields, Stages
<1> HIDE DEF d8
<1>9. Chain(d9, {"frequency", "agc", "tuner_mode", "gain", "tuner_bandwidth",
                 "bias_tee", "offset_tuning", "ppm", "lna_gain", "mixer_gain"})
  BY <1>8, OptionalChain DEF ShadowFields, ChipFields, Stages
<1> HIDE DEF d9
<1>10. Chain(d10, {"frequency", "agc", "tuner_mode", "gain", "tuner_bandwidth",
                   "bias_tee", "offset_tuning", "ppm", "lna_gain", "mixer_gain",
                   "vga_gain"})
  BY <1>9, OptionalChain DEF ShadowFields, ChipFields, Stages
<1> HIDE DEF d10
<1>11. ApplyConfig(d, cfg, faults) = d10
  BY DEF ApplyConfig, d0, d1, d2, d3, d4, d5, d6, d7, d8, d9, d10
<1> QED BY <1>10, <1>11 DEF Chain

-----------------------------------------------------------------------------
(* The report *)

\* A device that was never opened, and each of the two calls that open it.
LEMMA ClosedChain ==
  ASSUME NEW d, d = Closed(FALSE)
  PROVE  Chain(d, {}) /\ d.gain = None /\ d.history = NoCalls
<1>1. Formed(d) /\ d.history = NoCalls /\ d.shadow.bias_tee = FALSE /\ d.shadow.offset_tuning = FALSE
  BY DEF Closed, NoCalls, Formed, ShadowFields, ChipFields, Stages
<1>2. DOMAIN d.history.accepted = {}
  <2>1. d.history.accepted = << >>
    <3>1. NoCalls.accepted = << >>
      BY DEF NoCalls
    <3> QED BY <1>1, <3>1
  <2>2. DOMAIN << >> = {}
    OBVIOUS
  <2> QED BY <2>1, <2>2
<1>3. Truthful(d)
  BY <1>2 DEF Truthful, Reported
<1>4. Chain(d, {})
  BY <1>1, <1>2, <1>3 DEF Chain, Accepted
<1> QED BY <1>1, <1>4 DEF Closed

\* The two calls of opening.
LEMMA TuneChain ==
  ASSUME NEW d, Chain(d, {}), NEW key \in {"frequency", "sample_rate"}, NEW value, NEW faults
  PROVE  LET after == Call(d, key, value, Retune(key, value), faults)
         IN  Chain(after, {}) /\ after.gain = d.gain
<1> DEFINE change == Retune(key, value)
           after == Call(d, key, value, change, faults)
<1>1. /\ DOMAIN change \subseteq {key, "vga_gain"} /\ key \in DOMAIN change /\ change[key] = value
      /\ "vga_gain" \in DOMAIN change => change["vga_gain"] = VgaLinear
  BY DEF Retune, Set
<1> HIDE DEF change
<1>2. key \notin Stages \cup {"gain"}
  BY DEF Stages
<1>3. ~Reported(d, "vga_gain")
  BY DEF Chain, Accepted, Reported
<1>4. Harmless(d, key, change) /\ Achieves(key, value, change)
  BY <1>1, <1>2, <1>3 DEF Harmless, Achieves, LinearGain, Stages
<1>5. /\ Formed(after) /\ after.shadow = d.shadow /\ after.gain = d.gain /\ after.ok \in BOOLEAN
      /\ after.history = RecordCall(d.history, key, value, after.ok)
  BY CallForm DEF Chain
<1>6. Truthful(after)
  BY <1>4, CallTruthful DEF Chain
<1> HIDE DEF after
<1>7. /\ Accepted(after) = Accepted(d) \cup {key}
      /\ \A k \in Accepted(d) \ {key} : after.history.accepted[k] = d.history.accepted[k]
  BY <1>5, RecordFacts DEF Accepted
<1>8. Chain(after, {})
  BY <1>5, <1>6, <1>7 DEF Chain
<1> QED BY <1>5, <1>8 DEF after, change

LEMMA OpenChain ==
  ASSUME NEW d, Chain(d, {}), d.gain = None, d.history = NoCalls, NEW faults
  PROVE  /\ Chain(Open(d, 1090, 1, faults), {})
         /\ Open(d, 1090, 1, faults).gain = None
<1> DEFINE cleared == [d EXCEPT !.history = NoCalls]
           hz == 1090
           rate == 1
           tuned == Call(cleared, "frequency", hz, Retune("frequency", hz), faults)
           clocked == Call(tuned, "sample_rate", rate, Retune("sample_rate", rate), faults)
           shadowed == [clocked EXCEPT !.shadow.frequency = hz]
           new == Open(d, hz, rate, faults)
<1> HIDE DEF hz, rate
<1>2. Chain(cleared, {}) /\ cleared.gain = None
  <2>1. /\ Formed(cleared) /\ cleared.shadow = d.shadow /\ cleared.chip = d.chip
        /\ cleared.history = d.history /\ cleared.gain = None
    BY DEF Formed, Chain
  <2> HIDE DEF cleared
  <2>2. Truthful(cleared)
    BY <2>1 DEF Chain, Truthful, Reported, Has
  <2> QED BY <2>1, <2>2 DEF Chain, Accepted
<1> HIDE DEF cleared
<1>3. Chain(tuned, {}) /\ tuned.gain = None
  BY <1>2, TuneChain
<1> HIDE DEF tuned
<1>4. Chain(clocked, {}) /\ clocked.gain = None
  BY <1>3, TuneChain
<1> HIDE DEF clocked
<1>5. Chain(shadowed, {}) /\ shadowed.gain = None
  <2> DEFINE memory == [clocked.shadow EXCEPT !.frequency = hz]
             s == [clocked EXCEPT !.shadow = memory]
  <2>1. /\ DOMAIN memory = ShadowFields
        /\ memory.bias_tee = clocked.shadow.bias_tee /\ memory.offset_tuning = clocked.shadow.offset_tuning
    BY <1>4 DEF Chain, Formed, ShadowFields, ChipFields, Stages
  <2>2. shadowed = s
    OBVIOUS
  <2> HIDE DEF memory
  <2>3. Formed(s) /\ s.chip = clocked.chip /\ s.history = clocked.history /\ s.shadow = memory /\ s.gain = None
    BY <1>4, <2>1 DEF Chain, Formed
  <2> HIDE DEF s
  <2>4. Truthful(s)
    BY <1>4, <2>3 DEF Chain, Truthful, Reported, Has
  <2>5. Chain(s, {})
    BY <1>4, <2>1, <2>3, <2>4 DEF Chain, Accepted
  <2> HIDE DEF shadowed
  <2> QED BY <2>2, <2>3, <2>5
<1> HIDE DEF shadowed
<1> DEFINE shut == [shadowed EXCEPT !.ok = FALSE]
           opened == [shadowed EXCEPT !.open = TRUE]
<1>6. Chain(shut, {}) /\ shut.gain = None
  <2>1. shut.gain = None
    BY <1>5 DEF Chain, Formed
  <2> QED BY <1>5, <2>1, OkChain
<1>7. Chain(opened, {}) /\ opened.gain = None
  <2>1. /\ Formed(opened) /\ opened.shadow = shadowed.shadow /\ opened.chip = shadowed.chip
        /\ opened.history = shadowed.history /\ opened.gain = None
    BY <1>5 DEF Formed, Chain
  <2> HIDE DEF opened
  <2>2. Truthful(opened)
    BY <1>5, <2>1 DEF Chain, Truthful, Reported, Has
  <2> QED BY <1>5, <2>1, <2>2 DEF Chain, Accepted
<1>8. new \in {tuned, shut, opened}
  BY DEF Open, hz, rate, cleared, tuned, clocked, shadowed
<1> HIDE DEF shut, opened, new
<1>9. Chain(new, {}) /\ new.gain = None
  BY <1>3, <1>6, <1>7, <1>8
<1> QED BY <1>9 DEF new, hz, rate

SpecGain == InitGain /\ [][NextGain]_gainVars

\* What is known of the device before its configuration.
OpenInv ==
  /\ phase = "closed" => device = Closed(FALSE)
  /\ phase = "open" => Chain(device, {}) /\ device.gain = None

\* The evaluation of a window is one move of the loop.
LEMMA EvaluateBecomes ==
  ASSUME Evaluate
  PROVE  phase = "running" /\ \E outcome, faults : faults \in Faults /\ Becomes(outcome, faults)
<1> DEFINE Acted == /\ phase = "running"
                    /\ \E outcome, faults : faults \in Faults /\ Becomes(outcome, faults)
<1>1. NoFaults \in Faults
  BY DEF Faults
<1>2. CASE SilentWindow
  BY <1>1, <1>2 DEF SilentWindow, Hold
<1>3. CASE PinnedWindow
  BY <1>1, <1>3 DEF PinnedWindow, Decides, Hold
<1>4. ASSUME NEW faults \in Faults, HardOverloaded(faults) PROVE Acted
  BY <1>4 DEF HardOverloaded, Acts, Decides
<1>5. ASSUME NEW faults \in Faults, TooHot(faults) PROVE Acted
  BY <1>1, <1>5 DEF TooHot, Acts, Decides, Hold
<1>6. ASSUME NEW faults \in Faults, InTheMud(faults) PROVE Acted
  BY <1>1, <1>6 DEF InTheMud, Acts, Decides, Hold
<1>7. ASSUME NEW faults \in Faults, Compressed(faults) PROVE Acted
  BY <1>7 DEF Compressed, Acts, Decides
<1>8. ASSUME NEW faults \in Faults, AtEase(faults) PROVE Acted
  BY <1>1, <1>8 DEF AtEase, Acts, Decides, Hold
<1> QED BY <1>2, <1>3, <1>4, <1>5, <1>6, <1>7, <1>8 DEF Evaluate

\* Which step may follow each phase.
LEMMA GainPhases ==
  ASSUME [NextGain]_gainVars
  PROVE  \/ \E faults \in Faults : OpenDevice(faults)
         \/ \E faults \in Faults, cfg \in Configs : ConfigureTuner(cfg, faults)
         \/ phase = "running" /\ phase' = "running"
         \/ UNCHANGED gainVars
<1>1. CASE Evaluate
  BY <1>1, EvaluateBecomes DEF Becomes
<1>2. CASE Feed \/ Recalibrate
  BY <1>2 DEF Feed, Recalibrate
<1> QED BY <1>1, <1>2 DEF NextGain

LEMMA OpenStep == OpenInv /\ [NextGain]_gainVars => OpenInv'
<1> SUFFICES ASSUME OpenInv, [NextGain]_gainVars PROVE OpenInv'
  OBVIOUS
<1>1. ASSUME NEW faults \in Faults, OpenDevice(faults) PROVE OpenInv'
  <2>1. device' = Open(device, 1090, 1, faults) /\ phase' # "closed"
    BY <1>1 DEF OpenDevice, OpenInv
  <2>a. device = Closed(FALSE)
    BY <1>1 DEF OpenDevice, OpenInv
  <2>b. Chain(device, {}) /\ device.gain = None /\ device.history = NoCalls
    BY <2>a, ClosedChain
  <2>2. /\ Chain(Open(device, 1090, 1, faults), {})
        /\ Open(device, 1090, 1, faults).gain = None
    BY <2>b, OpenChain
  <2>3. Chain(device', {}) /\ device'.gain = None
    BY <2>1, <2>2
  <2> QED BY <2>1, <2>3 DEF OpenInv
<1>2. ASSUME NEW faults \in Faults, NEW cfg \in Configs, ConfigureTuner(cfg, faults) PROVE OpenInv'
  BY <1>2 DEF ConfigureTuner, OpenInv
<1>3. CASE phase' = "running"
  BY <1>3 DEF OpenInv
<1>4. CASE UNCHANGED gainVars
  BY <1>4 DEF OpenInv, gainVars
<1> QED BY <1>1, <1>2, <1>3, <1>4, GainPhases

\* The start-up report says nothing of a setting that the tuner does not have,
\* whichever calls of the configuration fail (RtlSdrDevice::reportConfig).
THEOREM ReportsTruthfully == SpecGain => ReportTruthful
<1>1. InitGain => OpenInv
  BY DEF InitGain, OpenInv
<1>2. ASSUME OpenInv, [NextGain]_gainVars, phase = "open", ~UNCHANGED gainVars
      PROVE  \A key \in DOMAIN device'.chip \cup {"gain"} : Reported(device', key) => Has(device', key)
  <2>1. PICK faults \in Faults, cfg \in Configs : ConfigureTuner(cfg, faults)
    BY <1>2, GainPhases DEF OpenDevice
  <2>2. device' = ApplyConfig(device, cfg, faults) /\ Chain(device, {})
    BY <1>2, <2>1 DEF ConfigureTuner, OpenInv
  <2>3. Formed(device') /\ Truthful(device')
    BY <2>2, ConfigChain, ConfigAssumption
  <2> QED BY <2>3 DEF Formed, Truthful
<1>3. OpenInv /\ [NextGain]_gainVars =>
        [phase = "open" =>
           \A key \in DOMAIN device'.chip \cup {"gain"} :
             Reported(device', key) => Has(device', key)]_gainVars
  BY <1>2
<1> QED BY <1>1, <1>3, OpenStep, PTL DEF SpecGain, ReportTruthful

-----------------------------------------------------------------------------
(* What the loop knows of the gain *)

SplitSteps == {"lna_gain", "mixer_gain"}
OnTable(d) ==
  /\ d.gain \in 1..Top
  /\ SplitSteps \cap Accepted(d) = {} =>
       d.chip.lna_gain = TableSteps[d.gain][1] /\ d.chip.mixer_gain = TableSteps[d.gain][2]
Linear(d) == Formed(d) /\ OnTable(d) /\ d.shadow.vga_gain = VgaLinear /\ d.chip.vga_gain = VgaLinear
Synced(d) == Formed(d) /\ OnTable(d) /\ d.shadow.vga_gain = d.chip.vga_gain
Unset(d) == Formed(d) /\ d.gain = None

\* A change touches another stage only by putting the VGA back.
TouchesOnly(key, change) ==
  /\ \A s \in SplitSteps : s \in DOMAIN change => s = key
  /\ "vga_gain" \in DOMAIN change => key = "vga_gain" \/ change["vga_gain"] = VgaLinear

\* What a setter leaves of the gain, the other settings and the chip.
LEMMA SettingForm ==
  ASSUME NEW d, Formed(d), NEW key \in ShadowFields, NEW value, NEW change, NEW faults
  PROVE  LET new == Setting(d, key, value, change, faults)
         IN  /\ Formed(new) /\ new.gain = d.gain
             /\ \A f \in ShadowFields \ {key} : new.shadow[f] = d.shadow[f]
             /\ Accepted(d) \subseteq Accepted(new)
             /\ \/ new.chip = d.chip
                \/ new.chip = Write(d.chip, change) /\ key \in Accepted(new)
<1> DEFINE after == Call(d, key, value, change, faults)
           same == [d EXCEPT !.ok = TRUE]
           written == [after EXCEPT !.shadow[key] = value]
           new == Setting(d, key, value, change, faults)
<1>1. new \in {same, after, written}
  BY DEF Setting
<1>2. /\ Formed(same) /\ same.gain = d.gain /\ same.shadow = d.shadow /\ same.chip = d.chip
      /\ same.history = d.history
  BY DEF Formed
<1>3. /\ Formed(after) /\ after.shadow = d.shadow /\ after.gain = d.gain /\ after.ok \in BOOLEAN
      /\ after.history = RecordCall(d.history, key, value, after.ok)
      /\ after.chip = Write(d.chip, change) \/ after.chip = d.chip
  BY CallForm
<1> HIDE DEF after, same
<1>4. /\ Formed(written) /\ written.chip = after.chip /\ written.gain = after.gain
      /\ written.history = after.history
      /\ \A f \in ShadowFields \ {key} : written.shadow[f] = d.shadow[f]
  BY <1>3 DEF Formed
<1>5. Accepted(after) = Accepted(d) \cup {key}
  BY <1>3, RecordFacts DEF Accepted
<1> HIDE DEF written, new
<1>6. /\ Formed(new) /\ new.gain = d.gain
      /\ \A f \in ShadowFields \ {key} : new.shadow[f] = d.shadow[f]
      /\ Accepted(d) \subseteq Accepted(new)
      /\ new.chip = d.chip \/ (new.chip = Write(d.chip, change) /\ key \in Accepted(new))
  BY <1>1, <1>2, <1>3, <1>4, <1>5 DEF Accepted
<1> QED BY <1>6 DEF new

\* A setting but the VGA leaves the gain where it is; the LNA and the mixer are
\* then no longer those of the table.
LEMMA SettingLinear ==
  ASSUME NEW d, NEW key \in ShadowFields \ {"vga_gain"}, NEW value, NEW change, TouchesOnly(key, change),
         NEW faults
  PROVE  LET new == Setting(d, key, value, change, faults)
         IN  /\ Unset(d) => Unset(new)
             /\ Linear(d) => Linear(new)
             /\ Formed(d) /\ OnTable(d) => OnTable(new) /\ new.shadow.vga_gain = d.shadow.vga_gain
<1> DEFINE new == Setting(d, key, value, change, faults)
<1> SUFFICES ASSUME Formed(d)
             PROVE  /\ Unset(d) => Unset(new)
                    /\ Linear(d) => Linear(new)
                    /\ OnTable(d) => OnTable(new) /\ new.shadow.vga_gain = d.shadow.vga_gain
  BY DEF Unset, Linear
<1>1. /\ Formed(new) /\ new.gain = d.gain
      /\ \A f \in ShadowFields \ {key} : new.shadow[f] = d.shadow[f]
      /\ Accepted(d) \subseteq Accepted(new)
      /\ \/ new.chip = d.chip
         \/ new.chip = Write(d.chip, change) /\ key \in Accepted(new)
  BY SettingForm
<1> HIDE DEF new
<1>2. new.shadow.vga_gain = d.shadow.vga_gain
  BY <1>1 DEF ShadowFields, ChipFields, Stages
<1>3. new.chip.vga_gain \in {d.chip.vga_gain, VgaLinear}
  BY <1>1 DEF Write, Formed, TouchesOnly, ChipFields, Stages
<1>4. SplitSteps \cap Accepted(new) = {} =>
        new.chip.lna_gain = d.chip.lna_gain /\ new.chip.mixer_gain = d.chip.mixer_gain
  BY <1>1 DEF Write, Formed, TouchesOnly, ChipFields, Stages, SplitSteps
<1>5. OnTable(d) => OnTable(new)
  BY <1>1, <1>4 DEF OnTable
<1> QED BY <1>1, <1>2, <1>3, <1>5 DEF Unset, Linear

\* Every setter of the configuration but the gain's writes in that way.
LEMMA ApplyForm ==
  ASSUME NEW d, NEW key \in ShadowFields, NEW value, NEW faults
  PROVE  \E change : /\ ApplySetting(d, key, value, faults) = Setting(d, key, value, change, faults)
                     /\ TouchesOnly(key, change)
<1>1. /\ key \in {"frequency", "ppm", "tuner_bandwidth"} => TouchesOnly(key, Retune(key, value))
      /\ key \in {"agc", "bias_tee"} \cup Stages => TouchesOnly(key, Set(key, value))
      /\ key = "offset_tuning" => TouchesOnly(key, OffsetTuning(value))
  BY DEF TouchesOnly, Retune, Set, OffsetTuning, SplitSteps, Stages
<1>2. CASE key = "frequency"
  BY <1>1, <1>2 DEF ApplySetting, SetFrequency
<1>3. CASE key = "ppm"
  BY <1>1, <1>3 DEF ApplySetting, SetPpm
<1>4. CASE key = "tuner_bandwidth"
  BY <1>1, <1>4 DEF ApplySetting, SetTunerBandwidth
<1>5. CASE key = "agc"
  BY <1>1, <1>5 DEF ApplySetting, SetAgc
<1>6. CASE key = "bias_tee"
  BY <1>1, <1>6 DEF ApplySetting, SetBiasTee
<1>7. CASE key = "offset_tuning"
  BY <1>1, <1>7 DEF ApplySetting, SetOffsetTuning
<1>8. CASE key = "lna_gain"
  BY <1>1, <1>8 DEF ApplySetting, SetLnaGain, Stages
<1>9. CASE key = "mixer_gain"
  BY <1>1, <1>9 DEF ApplySetting, SetMixerGain, Stages
<1>10. CASE key = "vga_gain"
  BY <1>1, <1>10 DEF ApplySetting, SetVgaGain, Stages
<1> QED
  BY <1>2, <1>3, <1>4, <1>5, <1>6, <1>7, <1>8, <1>9, <1>10 DEF ShadowFields, ChipFields, Stages

LEMMA OkForm ==
  ASSUME NEW d, NEW ok
  PROVE  LET new == [d EXCEPT !.ok = ok]
         IN  /\ Unset(d) => Unset(new)
             /\ Linear(d) => Linear(new)
             /\ Synced(d) => Synced(new)
<1> DEFINE new == [d EXCEPT !.ok = ok]
<1> SUFFICES ASSUME Formed(d)
             PROVE  /\ Unset(d) => Unset(new)
                    /\ Linear(d) => Linear(new)
                    /\ Synced(d) => Synced(new)
  BY DEF Unset, Linear, Synced
<1>1. /\ Formed(new) /\ new.gain = d.gain /\ new.shadow = d.shadow /\ new.chip = d.chip
      /\ new.history = d.history
  BY DEF Formed
<1> HIDE DEF new
<1> QED BY <1>1 DEF Unset, Linear, Synced, OnTable, Accepted

\* Without a fault a call of the VGA fails only where it is refused, and then
\* changes nothing.
LEMMA VgaForm ==
  ASSUME NEW d, Formed(d), NEW step
  PROVE  LET after == Call(d, "vga_gain", step, Set("vga_gain", step), NoFaults)
             new == [after EXCEPT !.shadow.vga_gain = step]
         IN  /\ Formed(after) /\ after.gain = d.gain /\ Accepted(after) = Accepted(d) \cup {"vga_gain"}
             /\ after.shadow = d.shadow
             /\ after.ok <=> IsR82xx /\ step \in 0..VgaTop
             /\ ~after.ok => after.chip = d.chip
             /\ Formed(new) /\ new.gain = d.gain /\ new.ok = after.ok
             /\ Accepted(new) = Accepted(d) \cup {"vga_gain"}
             /\ new.shadow = [d.shadow EXCEPT !.vga_gain = step]
             /\ after.ok => new.chip = [d.chip EXCEPT !.vga_gain = step]
<1> DEFINE change == Set("vga_gain", step)
           after == Call(d, "vga_gain", step, change, NoFaults)
           new == [after EXCEPT !.shadow.vga_gain = step]
<1>1. /\ Formed(after) /\ after.shadow = d.shadow /\ after.gain = d.gain /\ after.ok \in BOOLEAN
      /\ after.history = RecordCall(d.history, "vga_gain", step, after.ok)
      /\ \/ after.chip = Write(d.chip, change)
         \/ ~after.ok /\ after.chip = d.chip
  BY CallForm
<1>2. /\ after.ok <=> Accepts("vga_gain", step)
      /\ ~after.ok => after.chip = d.chip
  BY CallSound
<1>3. Accepts("vga_gain", step) <=> IsR82xx /\ step \in 0..VgaTop
  BY DEF Accepts, Stages
<1> HIDE DEF after
<1>4. Accepted(after) = Accepted(d) \cup {"vga_gain"}
  BY <1>1, RecordFacts DEF Accepted
<1>5. Write(d.chip, change) = [d.chip EXCEPT !.vga_gain = step]
  BY DEF Write, Set, Formed, ChipFields, Stages
<1>6. /\ Formed(new) /\ new.chip = after.chip /\ new.gain = after.gain /\ new.history = after.history
      /\ new.shadow = [after.shadow EXCEPT !.vga_gain = step]
      /\ new.ok = after.ok
  BY <1>1 DEF Formed
<1> HIDE DEF new
<1>7. Accepted(new) = Accepted(after)
  BY <1>6 DEF Accepted
<1>8. /\ Formed(after) /\ after.gain = d.gain /\ Accepted(after) = Accepted(d) \cup {"vga_gain"}
      /\ after.shadow = d.shadow
      /\ after.ok <=> IsR82xx /\ step \in 0..VgaTop
      /\ ~after.ok => after.chip = d.chip
  BY <1>1, <1>2, <1>3, <1>4
<1>9. /\ Formed(new) /\ new.gain = d.gain /\ new.ok = after.ok
      /\ Accepted(new) = Accepted(d) \cup {"vga_gain"}
      /\ new.shadow = [d.shadow EXCEPT !.vga_gain = step]
      /\ after.ok => new.chip = [d.chip EXCEPT !.vga_gain = step]
  BY <1>1, <1>2, <1>4, <1>5, <1>6, <1>7
<1> QED BY <1>8, <1>9 DEF after, new, change

\* What a gain of the table leaves, when no call fails.
LEMMA TableStepSound ==
  ASSUME NEW d, Formed(d), NEW index \in 1..Top
  PROVE  LET new == ApplyTableStep(d, index, NoFaults)
         IN  Linear(new) /\ new.ok /\ Accepted(d) \subseteq Accepted(new)
<1> DEFINE linear == LinearGain(TableSteps[index])
           mode == Call(d, "tuner_mode", 1, GainMode, NoFaults)
           both == Call(mode, "gain", index, linear, NoFaults)
           memory == Write(both.shadow, linear)
           new == [both EXCEPT !.shadow = memory, !.gain = index]
<1>1. /\ Formed(mode) /\ mode.ok \in BOOLEAN
      /\ mode.history = RecordCall(d.history, "tuner_mode", 1, mode.ok)
  BY CallForm
<1>2. mode.ok
  BY CallSound DEF Accepts, Stages
<1> HIDE DEF mode
<1>3. /\ Formed(both) /\ both.ok \in BOOLEAN
      /\ both.history = RecordCall(mode.history, "gain", index, both.ok)
      /\ both.chip = Write(mode.chip, linear) \/ ~both.ok
  BY <1>1, CallForm
<1>4. both.ok
  BY <1>1, CallSound DEF Accepts, Stages
<1> HIDE DEF both
<1>5. Accepted(d) \subseteq Accepted(both)
  BY <1>1, <1>3, RecordFacts DEF Accepted
<1>6. /\ both.chip.lna_gain = TableSteps[index][1] /\ both.chip.mixer_gain = TableSteps[index][2]
      /\ both.chip.vga_gain = VgaLinear
  BY <1>1, <1>3, <1>4 DEF Write, LinearGain, Formed, ChipFields, Stages
<1>7. DOMAIN memory = ShadowFields /\ memory.vga_gain = VgaLinear
  BY <1>3 DEF Write, LinearGain, Formed, ShadowFields, ChipFields, Stages
<1>8. ApplyTableStep(d, index, NoFaults) = new
  BY <1>2, <1>4 DEF ApplyTableStep, RecordLinearGain, mode, both, memory
<1> HIDE DEF memory
<1>9. /\ Formed(new) /\ new.gain = index /\ new.shadow = memory /\ new.chip = both.chip
      /\ new.history = both.history /\ new.ok = both.ok
  BY <1>3, <1>7 DEF Formed
<1> HIDE DEF new
<1>10. Linear(new) /\ Accepted(new) = Accepted(both)
  BY <1>6, <1>7, <1>9 DEF Linear, OnTable, Accepted
<1> QED BY <1>4, <1>5, <1>8, <1>9, <1>10

\* One setting of a configuration whose calls do not fail.
LEMMA OptionalForm ==
  ASSUME NEW d, NEW key \in ShadowFields \ {"vga_gain"}, NEW value, NEW faults
  PROVE  LET new == Optional(d, key, value, faults)
         IN  /\ Unset(d) => Unset(new)
             /\ Linear(d) => Linear(new)
<1> DEFINE after == ApplySetting(d, key, value, faults)
           kept == KeepFailure(d, after)
           new == Optional(d, key, value, faults)
<1>1. (Unset(d) => Unset(after)) /\ (Linear(d) => Linear(after))
  <2>1. PICK change : after = Setting(d, key, value, change, faults) /\ TouchesOnly(key, change)
    BY ApplyForm
  <2> HIDE DEF after
  <2>2. /\ Unset(d) => Unset(Setting(d, key, value, change, faults))
        /\ Linear(d) => Linear(Setting(d, key, value, change, faults))
    BY <2>1, SettingLinear
  <2> QED BY <2>1, <2>2
<1>2. new \in {d, kept}
  BY DEF Optional
<1> HIDE DEF after, new
<1>3. (Unset(after) => Unset(kept)) /\ (Linear(after) => Linear(kept))
  BY OkForm DEF KeepFailure
<1> HIDE DEF kept
<1>4. (Unset(d) => Unset(new)) /\ (Linear(d) => Linear(new))
  BY <1>1, <1>2, <1>3
<1> QED BY <1>4 DEF new

LEMMA OptionalGain ==
  ASSUME NEW d, Unset(d), NEW tenths \in Int
  PROVE  Linear(Optional(d, "gain", tenths, NoFaults))
<1> DEFINE after == ApplySetting(d, "gain", tenths, NoFaults)
           index == NearestGain(tenths)
<1>1. index \in 1..Top
  BY NearestInTable
<1>2. Linear(ApplyTableStep(d, index, NoFaults))
  <2> HIDE DEF index
  <2> QED BY <1>1, TableStepSound DEF Unset
<1>3. tenths # None /\ index # None
  <2>1. index \in Int
    BY <1>1
  <2> HIDE DEF index
  <2> QED BY <2>1, TunerAssumption
<1>4. after = ApplyTableStep(d, index, NoFaults)
  BY <1>3 DEF ApplySetting, SetGain, Unset
<1> HIDE DEF index, after
<1>5. Linear(KeepFailure(d, after))
  BY <1>2, <1>4, OkForm DEF KeepFailure
<1>6. Optional(d, "gain", tenths, NoFaults) = KeepFailure(d, after)
  BY <1>3 DEF Optional, after
<1> QED BY <1>5, <1>6

LEMMA OptionalVga ==
  ASSUME NEW d, Linear(d), NEW step
  PROVE  Synced(Optional(d, "vga_gain", step, NoFaults))
<1> DEFINE after == ApplySetting(d, "vga_gain", step, NoFaults)
           called == Call(d, "vga_gain", step, Set("vga_gain", step), NoFaults)
           written == [called EXCEPT !.shadow.vga_gain = step]
           same == [d EXCEPT !.ok = TRUE]
<1>1. Synced(d)
  BY DEF Linear, Synced
<1>2. Synced(same)
  BY <1>1, OkForm
<1>3. /\ Formed(called) /\ called.gain = d.gain /\ Accepted(called) = Accepted(d) \cup {"vga_gain"}
      /\ called.shadow = d.shadow
      /\ ~called.ok => called.chip = d.chip
      /\ Formed(written) /\ written.gain = d.gain
      /\ Accepted(written) = Accepted(d) \cup {"vga_gain"}
      /\ written.shadow = [d.shadow EXCEPT !.vga_gain = step]
      /\ called.ok => written.chip = [d.chip EXCEPT !.vga_gain = step]
  BY VgaForm DEF Linear
<1>4. after \in {same, IF called.ok THEN written ELSE called}
  BY DEF ApplySetting, SetVgaGain, Setting
<1> HIDE DEF after, called, written, same
<1>5. called.ok => Synced(written)
  BY <1>3 DEF Linear, Synced, OnTable, SplitSteps, Formed, ShadowFields, ChipFields, Stages
<1>6. ~called.ok => Synced(called)
  BY <1>3 DEF Linear, Synced, OnTable, SplitSteps
<1>7. Synced(after)
  BY <1>2, <1>4, <1>5, <1>6
<1>8. Synced(KeepFailure(d, after))
  BY <1>7, OkForm DEF KeepFailure
<1>9. Optional(d, "vga_gain", step, NoFaults) \in {d, KeepFailure(d, after)}
  BY DEF Optional, after
<1> QED BY <1>1, <1>8, <1>9

\* A configuration whose calls do not fail leaves shadow and chip in step.
LEMMA ConfigSynced ==
  ASSUME NEW d, Unset(d), NEW cfg, cfg.gain \in Int
  PROVE  Synced(ApplyConfig(d, cfg, NoFaults))
<1> DEFINE d0 == [d EXCEPT !.history.called = {}, !.ok = TRUE]
           d1 == Optional(d0, "frequency", cfg.frequency, NoFaults)
           d2 == Optional(d1, "agc", cfg.agc, NoFaults)
           d3 == Optional(d2, "gain", cfg.gain, NoFaults)
           d4 == Optional(d3, "tuner_bandwidth", cfg.tuner_bandwidth, NoFaults)
           d5 == Optional(d4, "bias_tee", cfg.bias_tee, NoFaults)
           d6 == Optional(d5, "offset_tuning", cfg.offset_tuning, NoFaults)
           d7 == Optional(d6, "ppm", cfg.ppm, NoFaults)
           d8 == Optional(d7, "lna_gain", cfg.lna_gain, NoFaults)
           d9 == Optional(d8, "mixer_gain", cfg.mixer_gain, NoFaults)
           d10 == Optional(d9, "vga_gain", cfg.vga_gain, NoFaults)
<1>0. Unset(d0)
  <2>1. Formed(d)
    BY DEF Unset
  <2>2. DOMAIN d0 = DOMAIN d /\ d0.gain = d.gain /\ d0.shadow = d.shadow /\ d0.chip = d.chip
    BY <2>1 DEF Formed
  <2>3. DOMAIN d0.history = DOMAIN d.history
    BY <2>1 DEF Formed
  <2> HIDE DEF d0
  <2> QED BY <2>1, <2>2, <2>3 DEF Unset, Formed
<1> HIDE DEF d0
<1>a. {"frequency", "agc", "tuner_bandwidth", "bias_tee", "offset_tuning", "ppm", "lna_gain", "mixer_gain"}
        \subseteq ShadowFields \ {"vga_gain"}
  BY DEF ShadowFields, ChipFields, Stages
<1>1. Unset(d1)
  BY <1>0, <1>a, OptionalForm
<1> HIDE DEF d1
<1>2. Unset(d2)
  BY <1>1, <1>a, OptionalForm
<1> HIDE DEF d2
<1>3. Linear(d3)
  BY <1>2, OptionalGain
<1> HIDE DEF d3
<1>4. Linear(d4)
  BY <1>3, <1>a, OptionalForm
<1> HIDE DEF d4
<1>5. Linear(d5)
  BY <1>4, <1>a, OptionalForm
<1> HIDE DEF d5
<1>6. Linear(d6)
  BY <1>5, <1>a, OptionalForm
<1> HIDE DEF d6
<1>7. Linear(d7)
  BY <1>6, <1>a, OptionalForm
<1> HIDE DEF d7
<1>8. Linear(d8)
  BY <1>7, <1>a, OptionalForm
<1> HIDE DEF d8
<1>9. Linear(d9)
  BY <1>8, <1>a, OptionalForm
<1> HIDE DEF d9
<1>10. Synced(d10)
  BY <1>9, OptionalVga
<1> HIDE DEF d10
<1>11. ApplyConfig(d, cfg, NoFaults) = d10
  BY DEF ApplyConfig, d0, d1, d2, d3, d4, d5, d6, d7, d8, d9, d10
<1> QED BY <1>10, <1>11

LoopFields == {"pinned", "vga", "mud", "mudStreak", "hotStreak", "lowStreak", "awaiting",
               "climbFrom", "silent", "wasHard"}

\* The loop knows the gain; of the VGA it knows what the shadow does, which is
\* what the chip has unless the tuner was tuned again.
Known(d, l) ==
  /\ Formed(d) /\ OnTable(d)
  /\ DOMAIN l = LoopFields /\ l.vga = d.shadow.vga_gain
Followed == Known(device, loop) /\ (~retuned => device.shadow.vga_gain = device.chip.vga_gain)

\* What the evaluation of a window may leave.
Sound(outcome) ==
  /\ Known(outcome.device, outcome.loop)
  /\ \/ outcome.device.shadow.vga_gain = outcome.device.chip.vga_gain
     \/ outcome.device.shadow = device.shadow /\ outcome.device.chip = device.chip

\* What the loop may remember while it decides.
Memory(l) == DOMAIN l = LoopFields /\ l.vga = loop.vga

LEMMA VgaSound ==
  ASSUME NEW d, Formed(d), OnTable(d), NEW step
  PROVE  LET new == ApplyVgaGain(d, step, NoFaults)
         IN  /\ Formed(new) /\ OnTable(new) /\ new.gain = d.gain
             /\ new.ok => new.shadow.vga_gain = step /\ new.chip.vga_gain = step
             /\ ~new.ok => new.shadow = d.shadow /\ new.chip = d.chip
<1> DEFINE called == Call(d, "vga_gain", step, Set("vga_gain", step), NoFaults)
           written == [called EXCEPT !.shadow.vga_gain = step]
           refused == [d EXCEPT !.ok = FALSE]
           new == ApplyVgaGain(d, step, NoFaults)
<1>1. /\ called.ok <=> IsR82xx /\ step \in 0..VgaTop
      /\ Formed(written) /\ written.gain = d.gain /\ written.ok = called.ok
      /\ Accepted(written) = Accepted(d) \cup {"vga_gain"}
      /\ written.shadow = [d.shadow EXCEPT !.vga_gain = step]
      /\ called.ok => written.chip = [d.chip EXCEPT !.vga_gain = step]
  BY VgaForm
<1>2. /\ Formed(refused) /\ refused.gain = d.gain /\ refused.shadow = d.shadow /\ refused.chip = d.chip
      /\ refused.history = d.history /\ refused.ok = FALSE
  BY DEF Formed
<1>3. new = IF ~IsR82xx \/ step \notin 0..VgaTop THEN refused
            ELSE IF called.ok THEN written ELSE called
  BY DEF ApplyVgaGain
<1> HIDE DEF called, written, refused, new
<1>4. CASE ~IsR82xx \/ step \notin 0..VgaTop
  <2>1. new = refused
    BY <1>3, <1>4
  <2>2. OnTable(refused)
    BY <1>2 DEF OnTable, Accepted
  <2> QED BY <1>2, <2>1, <2>2 DEF new
<1>5. CASE IsR82xx /\ step \in 0..VgaTop
  <2>1. new = written /\ called.ok
    BY <1>1, <1>3, <1>5
  <2>2. written.shadow.vga_gain = step /\ written.chip.vga_gain = step
    BY <1>1, <2>1 DEF Formed, ShadowFields, ChipFields, Stages
  <2>3. written.chip.lna_gain = d.chip.lna_gain /\ written.chip.mixer_gain = d.chip.mixer_gain
    BY <1>1, <2>1 DEF Formed, ChipFields, Stages
  <2>4. OnTable(written)
    BY <1>1, <2>3 DEF OnTable, SplitSteps
  <2>5. written.ok = called.ok /\ Formed(written) /\ written.gain = d.gain
    BY <1>1
  <2> QED BY <2>1, <2>2, <2>4, <2>5 DEF new
<1> QED BY <1>4, <1>5

LEMMA TargetInTable ==
  ASSUME NEW index \in 1..Top, NEW steps \in {1, -1, -3}
  PROVE  TargetIndex(index, steps) \in 1..Top
<1>1. Top \in Nat
  BY TunerAssumption DEF Top
<1> QED BY <1>1 DEF TargetIndex, Max2

LEMMA HeldSound ==
  ASSUME Followed, NEW l, Memory(l)
  PROVE  Sound([device |-> device, loop |-> l])
BY DEF Followed, Known, Sound, Memory

LEMMA KnownIndex ==
  ASSUME Followed
  PROVE  ShadowIndex \in 1..Top /\ ShadowIndex = device.gain
<1>1. device.gain \in 1..Top
  BY DEF Followed, Known, OnTable
<1>2. device.gain # None
  BY <1>1, TunerAssumption
<1> QED BY <1>1, <1>2 DEF ShadowIndex

LEMMA StepTableSound ==
  ASSUME Followed, NEW l, Memory(l), NEW steps \in {1, -1, -3}
  PROVE  Sound(StepTable(l, steps, NoFaults))
<1> DEFINE next == TargetIndex(ShadowIndex, steps)
           moved == ApplyTableStep(device, next, NoFaults)
           scored == IF steps > 0 THEN [l EXCEPT !.awaiting = TRUE, !.climbFrom = Floor] ELSE l
           new == [scored EXCEPT !.vga = VgaLinear]
<1>1. next \in 1..Top
  BY KnownIndex, TargetInTable
<1> HIDE DEF next
<1>2. Linear(moved) /\ moved.ok
  BY <1>1, TableStepSound DEF Followed, Known
<1>3. DOMAIN scored = LoopFields
  BY DEF Memory
<1>4. StepTable(l, steps, NoFaults) = [device |-> moved, loop |-> new]
  BY <1>2 DEF StepTable, next
<1> HIDE DEF moved, scored
<1>5. DOMAIN new = LoopFields /\ new.vga = VgaLinear
  BY <1>3 DEF LoopFields
<1> HIDE DEF new
<1> QED BY <1>2, <1>4, <1>5 DEF Sound, Known, Linear

LEMMA ClimbSound ==
  ASSUME Followed, NEW l, Memory(l), NEW mayClimb
  PROVE  Sound(ClimbVga(l, mayClimb, NoFaults))
<1> DEFINE moved == ApplyVgaGain(device, l.vga + 1, NoFaults)
           climbed == [l EXCEPT !.vga = moved.shadow.vga_gain]
           stuck == [l EXCEPT !.mud = 2]
<1>1. /\ Formed(moved) /\ OnTable(moved)
      /\ moved.ok => moved.shadow.vga_gain = l.vga + 1 /\ moved.chip.vga_gain = l.vga + 1
      /\ ~moved.ok => moved.shadow = device.shadow /\ moved.chip = device.chip
  BY VgaSound DEF Followed, Known
<1>2. ClimbVga(l, mayClimb, NoFaults) \in
        {[device |-> moved, loop |-> climbed], [device |-> device, loop |-> stuck]}
  BY DEF ClimbVga
<1> HIDE DEF moved
<1>3. DOMAIN climbed = LoopFields /\ climbed.vga = moved.shadow.vga_gain
  BY DEF Memory, LoopFields
<1>4. Memory(stuck)
  BY DEF Memory, LoopFields
<1> HIDE DEF climbed, stuck
<1>5. Sound([device |-> moved, loop |-> climbed])
  BY <1>1, <1>3 DEF Sound, Known
<1>6. Sound([device |-> device, loop |-> stuck])
  BY <1>4, HeldSound
<1> QED BY <1>2, <1>5, <1>6

\* A move of the loop when no call fails: a gain of the table, the VGA or none.
LEMMA MoveSound ==
  ASSUME Followed, NEW l, Memory(l), NEW steps \in {1, -1, -3}, NEW mayClimb
  PROVE  Sound(Move(l, steps, mayClimb, NoFaults))
<1>1. Sound([device |-> device, loop |-> l])
  BY HeldSound
<1>2. Sound(StepTable(l, steps, NoFaults)) /\ Sound(ClimbVga(l, mayClimb, NoFaults))
  BY StepTableSound, ClimbSound
<1>3. Move(l, steps, mayClimb, NoFaults) \in
        {[device |-> device, loop |-> l], StepTable(l, steps, NoFaults), ClimbVga(l, mayClimb, NoFaults)}
  BY DEF Move
<1> QED BY <1>1, <1>2, <1>3

\* The VGA gives back, or the table does.
LEMMA BackSound ==
  ASSUME Followed, NEW l, Memory(l), NEW fallsBack
  PROVE  Sound(VgaBack(l, fallsBack, NoFaults))
<1> DEFINE moved == ApplyVgaGain(device, l.vga - 1, NoFaults)
           back == [l EXCEPT !.vga = @ - 1]
           step == TargetIndex(ShadowIndex, -1)
           stepped == ApplyTableStep(moved, step, NoFaults)
           next == IF step = ShadowIndex THEN moved ELSE stepped
           reset == [l EXCEPT !.vga = VgaLinear]
           fallen == [device |-> next, loop |-> IF step # ShadowIndex /\ next.ok THEN reset ELSE l]
<1>1. /\ Formed(moved) /\ OnTable(moved)
      /\ moved.ok => moved.shadow.vga_gain = l.vga - 1 /\ moved.chip.vga_gain = l.vga - 1
      /\ ~moved.ok => moved.shadow = device.shadow /\ moved.chip = device.chip
  BY VgaSound DEF Followed, Known
<1>2. /\ DOMAIN back = LoopFields /\ back.vga = l.vga - 1
      /\ DOMAIN reset = LoopFields /\ reset.vga = VgaLinear
  BY DEF Memory, LoopFields
<1>3. \/ VgaBack(l, fallsBack, NoFaults) = Move(l, -1, FALSE, NoFaults)
      \/ moved.ok /\ VgaBack(l, fallsBack, NoFaults) = [device |-> moved, loop |-> back]
      \/ ~moved.ok /\ VgaBack(l, fallsBack, NoFaults) = fallen
      \/ ~moved.ok /\ VgaBack(l, fallsBack, NoFaults) = [device |-> moved, loop |-> l]
  BY DEF VgaBack
<1>4. step \in 1..Top
  BY KnownIndex, TargetInTable
<1> HIDE DEF moved, back, step, reset
<1>5. Sound(Move(l, -1, FALSE, NoFaults))
  BY MoveSound
<1>6. moved.ok => Sound([device |-> moved, loop |-> back])
  BY <1>1, <1>2 DEF Sound, Known
<1>7. ~moved.ok => Sound([device |-> moved, loop |-> l])
  BY <1>1 DEF Sound, Known, Memory, Followed
<1>8. ~moved.ok => Sound(fallen)
  <2>1. CASE step = ShadowIndex
    <3>1. fallen = [device |-> moved, loop |-> l]
      BY <2>1
    <3> HIDE DEF fallen
    <3> QED BY <1>7, <3>1
  <2>2. CASE step # ShadowIndex
    <3>1. Linear(stepped) /\ stepped.ok
      BY <1>1, <1>4, TableStepSound
    <3>2. fallen = [device |-> stepped, loop |-> reset]
      BY <2>2, <3>1
    <3> HIDE DEF fallen, stepped
    <3> QED BY <1>2, <3>1, <3>2 DEF Sound, Known, Linear
  <2> QED BY <2>1, <2>2
<1> HIDE DEF fallen
<1> QED BY <1>3, <1>5, <1>6, <1>7, <1>8

\* A window is one move, and a sound one when no call fails.
LEMMA EvaluateSound ==
  ASSUME Followed, Evaluate
  PROVE  \E outcome, faults : /\ faults \in Faults /\ Becomes(outcome, faults)
                              /\ faults = NoFaults => Sound(outcome)
<1> DEFINE Done == \E outcome, faults : /\ faults \in Faults /\ Becomes(outcome, faults)
                                        /\ faults = NoFaults => Sound(outcome)
<1>1. ASSUME NEW l, Memory(l), Hold(l) PROVE Done
  <2>1. Sound([device |-> device, loop |-> l])
    BY <1>1, HeldSound
  <2>2. NoFaults \in Faults
    BY DEF Faults
  <2>3. Becomes([device |-> device, loop |-> l], NoFaults)
    BY <1>1 DEF Hold
  <2> QED BY <2>1, <2>2, <2>3
<1>2. ASSUME NEW l, Memory(l), NEW steps \in {1, -1, -3}, NEW mayClimb, NEW faults \in Faults,
             Becomes(Move(l, steps, mayClimb, faults), faults)
      PROVE  Done
  BY <1>2, MoveSound
<1>3. ASSUME NEW l, Memory(l), NEW fallsBack, NEW faults \in Faults,
             Becomes(VgaBack(l, fallsBack, faults), faults)
      PROVE  Done
  BY <1>3, BackSound
<1>4. Memory(Scored)
  BY DEF Followed, Known, Memory, Scored, LoopFields
<1> DEFINE calm == [Scored EXCEPT !.mud = 0, !.mudStreak = 0, !.hotStreak = 0]
           hot == [Scored EXCEPT !.hotStreak = AtMost(2, @ + 1), !.mudStreak = 0]
           low == [Scored EXCEPT !.mudStreak = AtMost(2, @ + 1), !.hotStreak = 0]
<1>5. /\ Memory(calm) /\ Memory(hot) /\ Memory(low)
      /\ Memory([Scored EXCEPT !.mud = 0]) /\ Memory([hot EXCEPT !.mud = 0])
      /\ Memory([low EXCEPT !.mud = 0])
      /\ Memory([calm EXCEPT !.lowStreak = 0]) /\ Memory([calm EXCEPT !.lowStreak = 1])
      /\ Memory([loop EXCEPT !.silent = @ + 1])
  <2>1. /\ Memory(calm) /\ Memory(hot) /\ Memory(low) /\ Memory([Scored EXCEPT !.mud = 0])
    <3> HIDE DEF Scored
    <3> QED BY <1>4 DEF Memory, LoopFields
  <2>2. Memory([loop EXCEPT !.silent = @ + 1])
    BY DEF Followed, Known, Memory, LoopFields
  <2> HIDE DEF calm, hot, low
  <2> QED BY <2>1, <2>2 DEF Memory, LoopFields
<1> HIDE DEF Done
<1>6. ASSUME SilentWindow PROVE Done
  BY <1>1, <1>5, <1>6 DEF SilentWindow
<1>7. ASSUME PinnedWindow PROVE Done
  BY <1>1, <1>4, <1>7 DEF PinnedWindow
<1>8. ASSUME NEW faults \in Faults, HardOverloaded(faults) PROVE Done
  BY <1>2, <1>5, <1>8 DEF HardOverloaded
<1>9. ASSUME NEW faults \in Faults, TooHot(faults) PROVE Done
  <2>1. Hold(hot) \/ Becomes(VgaBack([hot EXCEPT !.mud = 0], TRUE, faults), faults)
    BY <1>9 DEF TooHot
  <2> HIDE DEF hot
  <2> QED BY <1>1, <1>3, <1>5, <2>1
<1>10. ASSUME NEW faults \in Faults, InTheMud(faults) PROVE Done
  <2>1. \/ Hold(low)
        \/ Becomes(VgaBack([low EXCEPT !.mud = 0], FALSE, faults), faults)
        \/ Becomes(Move(low, 1, TRUE, faults), faults)
    BY <1>10 DEF InTheMud
  <2> HIDE DEF low
  <2> QED BY <1>1, <1>2, <1>3, <1>5, <2>1
<1>11. ASSUME NEW faults \in Faults, Compressed(faults) PROVE Done
  BY <1>3, <1>5, <1>11 DEF Compressed
<1>12. ASSUME NEW faults \in Faults, AtEase(faults) PROVE Done
  <2>1. \/ Hold([calm EXCEPT !.lowStreak = 0]) \/ Hold([calm EXCEPT !.lowStreak = 1])
        \/ Becomes(Move([calm EXCEPT !.lowStreak = 0], 1, TRUE, faults), faults)
    BY <1>12 DEF AtEase
  <2> HIDE DEF calm
  <2> QED BY <1>1, <1>2, <1>5, <2>1
<1>13. Done
  BY <1>6, <1>7, <1>8, <1>9, <1>10, <1>11, <1>12 DEF Evaluate
<1> QED BY <1>13 DEF Done

\* While no fault was spent the loop follows the tuner.
FollowInv ==
  /\ faultsLeft \in Int /\ faultsLeft <= MaxFaults
  /\ phase = "running" /\ faultsLeft = MaxFaults => Followed

\* Calls that fail use up a fault: it was none where none is used up.
LEMMA SpentFaults ==
  ASSUME FollowInv, NEW faults \in Faults, faultsLeft' = Spent(faults)
  PROVE  /\ faultsLeft' \in Int /\ faultsLeft' <= MaxFaults
         /\ faultsLeft' = MaxFaults => faults = NoFaults /\ faultsLeft = MaxFaults
<1>1. MaxFaults \in Nat
  BY LoopAssumption
<1> QED BY <1>1 DEF FollowInv, Spent

LEMMA FollowStep == OpenInv /\ FollowInv /\ [NextGain]_gainVars => FollowInv'
<1> SUFFICES ASSUME OpenInv, FollowInv, [NextGain]_gainVars PROVE FollowInv'
  OBVIOUS
<1>1. ASSUME NEW faults \in Faults, OpenDevice(faults) PROVE FollowInv'
  <2>1. faultsLeft' = Spent(faults) /\ phase' # "running"
    BY <1>1 DEF OpenDevice
  <2> QED BY <2>1, SpentFaults DEF FollowInv
<1>2. ASSUME NEW faults \in Faults, NEW cfg \in Configs, ConfigureTuner(cfg, faults) PROVE FollowInv'
  <2>1. /\ faultsLeft' = Spent(faults) /\ device' = ApplyConfig(device, cfg, faults)
        /\ Unset(device) /\ cfg.gain \in Int /\ loop' = StartLoop(cfg)
    BY <1>2, ConfigAssumption DEF ConfigureTuner, OpenInv, Chain, Unset
  <2>2. ASSUME faultsLeft' = MaxFaults PROVE Followed'
    <3>1. device' = ApplyConfig(device, cfg, NoFaults)
      BY <2>1, <2>2, SpentFaults
    <3>2. Synced(ApplyConfig(device, cfg, NoFaults))
      BY <2>1, ConfigSynced
    <3>3. Synced(device')
      BY <3>1, <3>2
    <3>4. DOMAIN loop' = LoopFields /\ loop'.vga = device'.shadow.vga_gain
      BY <2>1 DEF StartLoop, LoopFields
    <3> QED BY <3>3, <3>4 DEF Followed, Known, Synced
  <2> QED BY <2>1, <2>2, SpentFaults DEF FollowInv
<1>3. CASE Feed
  BY <1>3 DEF Feed, FollowInv, Followed, boundVars
<1>4. CASE Recalibrate
  <2>1. /\ device' = SetPpm(device, device.shadow.ppm + 1, NoFaults) /\ retuned'
        /\ UNCHANGED <<loop, phase, faultsLeft>>
    BY <1>4 DEF Recalibrate
  <2>2. ASSUME Followed PROVE Followed'
    <3> DEFINE correction == device.shadow.ppm + 1
               change == Retune("ppm", correction)
               new == Setting(device, "ppm", correction, change, NoFaults)
    <3>1. device' = new
      BY <2>1 DEF SetPpm
    <3>2. TouchesOnly("ppm", change) /\ "ppm" \in ShadowFields \ {"vga_gain"}
      BY DEF TouchesOnly, Retune, Set, SplitSteps, ShadowFields, ChipFields, Stages
    <3> HIDE DEF change, correction
    <3>3. OnTable(new) /\ new.shadow.vga_gain = device.shadow.vga_gain
      BY <2>2, <3>2, SettingLinear DEF Followed, Known
    <3>4. Formed(new)
      BY <2>2, <3>2, SettingForm DEF Followed, Known
    <3> HIDE DEF new
    <3> QED BY <2>1, <2>2, <3>1, <3>3, <3>4 DEF Followed, Known
  <2> QED BY <2>1, <2>2 DEF FollowInv
<1>5. CASE Evaluate
  <2>1. CASE Followed
    <3>1. PICK outcome, faults : /\ faults \in Faults /\ Becomes(outcome, faults)
                                 /\ faults = NoFaults => Sound(outcome)
      BY <1>5, <2>1, EvaluateSound
    <3>2. /\ device' = outcome.device /\ loop' = outcome.loop /\ faultsLeft' = Spent(faults)
          /\ retuned' = (retuned /\ Restrict(outcome.device.shadow, Stages)
                                      = Restrict(device.shadow, Stages))
      BY <3>1 DEF Becomes
    <3>3. ASSUME Sound(outcome) PROVE Followed'
      <4>1. Known(device', loop')
        BY <3>2, <3>3 DEF Sound
      <4>2. CASE device'.shadow.vga_gain = device'.chip.vga_gain
        BY <4>1, <4>2 DEF Followed
      <4>3. CASE device'.shadow = device.shadow /\ device'.chip = device.chip
        <5>1. ~retuned' => ~retuned
          BY <3>2, <4>3
        <5> QED BY <2>1, <4>1, <4>3, <5>1 DEF Followed
      <4> QED BY <3>2, <3>3, <4>2, <4>3 DEF Sound
    <3>4. /\ faultsLeft' \in Int /\ faultsLeft' <= MaxFaults
          /\ faultsLeft' = MaxFaults => faults = NoFaults
      BY <3>1, <3>2, SpentFaults
    <3> QED BY <3>1, <3>3, <3>4 DEF FollowInv
  <2>2. CASE ~Followed
    <3>1. PICK outcome, faults : faults \in Faults /\ Becomes(outcome, faults)
      BY <1>5, EvaluateBecomes
    <3>2. phase = "running" /\ faultsLeft # MaxFaults
      BY <1>5, <2>2, EvaluateBecomes DEF FollowInv
    <3>3. faultsLeft' = Spent(faults)
      BY <3>1 DEF Becomes
    <3> QED BY <3>1, <3>2, <3>3, SpentFaults DEF FollowInv
  <2> QED BY <2>1, <2>2
<1>6. CASE UNCHANGED gainVars
  BY <1>6 DEF FollowInv, Followed, gainVars, boundVars
<1> QED BY <1>1, <1>2, <1>3, <1>4, <1>5, <1>6 DEF NextGain

\* While no call failed the loop knows the tuner's gain, and the VGA from the
\* gain it sets after a correction of the crystal on (adaptiveGainLoop).
THEOREM LoopFollows == SpecGain => []LoopFollowsTuner
<1>1. InitGain => OpenInv /\ FollowInv
  BY LoopAssumption DEF InitGain, OpenInv, FollowInv
<1>2. FollowInv => LoopFollowsTuner
  <2> SUFFICES ASSUME FollowInv, phase = "running", faultsLeft = MaxFaults, ~Staged
               PROVE  /\ ~retuned => loop.vga = device.chip.vga_gain
                      /\ device.gain # None /\ ChipIndex = device.gain
    BY DEF LoopFollowsTuner
  <2>1. Followed
    BY DEF FollowInv
  <2>2. /\ device.gain \in 1..Top
        /\ device.chip.lna_gain = TableSteps[device.gain][1]
        /\ device.chip.mixer_gain = TableSteps[device.gain][2]
    BY <2>1 DEF Followed, Known, OnTable, Staged, SplitSteps, Accepted
  <2>3. TableSteps[device.gain] = <<device.chip.lna_gain, device.chip.mixer_gain>>
    BY <2>2, StepsInRange
  <2>4. ChipIndex = device.gain
    BY <2>2, <2>3, StepsExact DEF ChipIndex
  <2>5. device.gain # None
    BY <2>2, TunerAssumption
  <2> QED BY <2>1, <2>4, <2>5 DEF Followed, Known
<1> QED BY <1>1, <1>2, OpenStep, FollowStep, PTL DEF SpecGain
=============================================================================
