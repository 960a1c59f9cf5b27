-------------------------- MODULE DeviceSelection --------------------------
(***************************************************************************)
(* The choice of the input: choose_device, resolve_input_rate and           *)
(* build_device_config of DeviceSelection.hpp, and, for an RTL-SDR, the     *)
(* candidates MainInstance::setup_device tries to open one after the other. *)
(* Devices come and go between the steps.                                   *)
(*                                                                          *)
(* A serial is a text, of which only the rank among the texts matters, and  *)
(* the positive number it stands for, or None: decimal for an RTL-SDR,      *)
(* hexadecimal for an Airspy.  The rates of the presets are a set of pairs. *)
(* A value of the command line is None when it was not given.               *)
(***************************************************************************)
EXTENDS Absent, Integers, Sequences, FiniteSetsExt

CONSTANTS Units,      \* the devices there are: [type, serial, rates, place]
          RatePairs,  \* the <<input, output>> rates of the presets
          AirspyFrom, \* 6 MHz: the lowest rate of an Airspy
          RtlDefault, \* 2.56 MHz
          NarrowRate, \* 3.2 MHz: the rate with a narrow tuner filter
          CommandLines, \* [device, stdin, serial, rate, set, adaptive, ppm,
                        \* autoPpm]: "set" holds the gains that are given
          MaxPlugs    \* bound: units plugged or unplugged

ASSUME SelectionAssumption ==
  /\ IsFiniteSet(Units) /\ None \notin Units /\ None \notin Nat
  /\ \A u \in Units : /\ u.type \in {"airspy", "rtlsdr"}
                      /\ u.serial.text \in Nat /\ u.place \in Nat
  /\ \A u, v \in Units : u.type = v.type /\ u.place = v.place => u = v
  /\ AirspyFrom \in Nat /\ RtlDefault < AirspyFrom /\ NarrowRate < AirspyFrom
  /\ MaxPlugs \in Nat

VARIABLES args, attached, taken, \* taken: units another process has open
          choice, inputRate, config, tried, opened, step, plugs

Empty == 0   \* the text of a serial that is empty or cannot be read

selectionVars == <<args, attached, taken, choice, inputRate, config, tried, opened, step, plugs>>
environment == <<args, attached, taken, plugs>>

InitSelection ==
  /\ args \in CommandLines /\ attached \in SUBSET Units /\ taken \in SUBSET attached
  /\ choice = None /\ inputRate = None /\ config = None
  /\ tried = <<>> /\ opened = None /\ step = "choose" /\ plugs = MaxPlugs

\* A unit is plugged in or pulled out; one that was pulled is not busy.
Plug ==
  /\ plugs > 0 /\ plugs' = plugs - 1 /\ opened = None
  /\ \E u \in Units :
       /\ attached' = IF u \in attached THEN attached \ {u} ELSE attached \cup {u}
       /\ taken' = taken \ {u}
  /\ UNCHANGED <<args, choice, inputRate, config, tried, opened, step>>

\* orderDevices: Airspy first, then by serial, equal serials as they came.
Precedes(u, v) ==
  CASE u.type # v.type -> u.type = "airspy"
    [] u.type = v.type /\ u.serial.text # v.serial.text -> u.serial.text < v.serial.text
    [] OTHER -> u.place < v.place
Ordered(units) ==
  [i \in 1..Cardinality(units) |->
    CHOOSE u \in units : Cardinality({v \in units : Precedes(v, u)}) = i - 1]
Kind(type) == {u \in attached : u.type = type}

-----------------------------------------------------------------------------
(* choose_device *)

ReadsStdin == args.device = "stdin" \/ (args.device = None /\ args.stdin = "data")

SelectedType ==
  CASE args.device \in {"airspy", "rtlsdr"} -> args.device
    [] args.device \in {None, "auto"} /\ attached # {} -> Ordered(attached)[1].type
    [] OTHER -> None

CandidatesOf(type) ==
  IF args.serial # None THEN <<args.serial>>
  ELSE [i \in 1..Cardinality(Kind(type)) |-> Ordered(Kind(type))[i].serial]

Ends(reason) == step' = reason /\ UNCHANGED <<environment, choice, inputRate, config, tried, opened>>

ChooseDevice ==
  /\ step = "choose"
  /\ IF ReadsStdin
     THEN /\ choice' = [type |-> "stream", serials |-> <<>>] /\ step' = "rate"
          /\ UNCHANGED <<environment, inputRate, config, tried, opened>>
     ELSE IF SelectedType = None \/ CandidatesOf(SelectedType) = <<>> THEN Ends("failed")
     ELSE /\ choice' = [type |-> SelectedType, serials |-> CandidatesOf(SelectedType)]
          /\ step' = "rate"
          /\ UNCHANGED <<environment, inputRate, config, tried, opened>>

-----------------------------------------------------------------------------
(* resolve_input_rate *)

InputRates == {pair[1] : pair \in RatePairs}
Matches(requested, serial) ==
  requested.text = serial.text \/ (requested.value # None /\ requested.value = serial.value)

\* queryAirspyRates opens the unit with that number, or without a number any
\* that is not busy.
Reported(serial) ==
  LET free == {u \in Kind("airspy") \ taken : serial.value \in {None, u.serial.value}}
      first == {u \in free : \A v \in free : u.place <= v.place}
  IN  UNION {u.rates \cap InputRates : u \in first}

\* The first candidate that reports a rate there is a preset for decides.
AirspyDefault ==
  LET reporting == SelectSeq(choice.serials, LAMBDA s : Reported(s) # {})
  IN  IF reporting = <<>> THEN None ELSE Max(Reported(reporting[1]))

ResolvedRate ==
  CASE args.rate # None -> args.rate
    [] args.rate = None /\ choice.type = "rtlsdr" -> RtlDefault
    [] args.rate = None /\ choice.type = "airspy" -> AirspyDefault
    [] OTHER -> None   \* stdin needs an explicit rate

ResolveRate ==
  /\ step = "rate"
  /\ IF \/ ResolvedRate = None \/ ResolvedRate \notin InputRates
        \/ choice.type = "rtlsdr" /\ ResolvedRate >= AirspyFrom
        \/ choice.type = "airspy" /\ ResolvedRate < AirspyFrom
     THEN Ends("failed")
     ELSE /\ inputRate' = ResolvedRate /\ step' = "config"
          /\ UNCHANGED <<environment, choice, config, tried, opened>>

\* The highest upsampling of the input rate, unless one is given.
OutputRate == Max({pair[2] : pair \in {p \in RatePairs : p[1] = inputRate}})

-----------------------------------------------------------------------------
(* build_device_config and applyBackendDefaults *)

GainSettings == {"gain", "agc", "lna", "mixer", "vga"}
Presets == {"linearity", "sensitivity"}

\* What the user left unset; adaptive gain unless the gain was fixed somehow.
Defaults(cfg, type, rate) ==
  CASE type = "rtlsdr" ->
         [cfg EXCEPT !.adaptive = IF @ = None THEN cfg.set \cap GainSettings = {} ELSE @,
                     !.set = @ \cup {"gain"},
                     !.bandwidth = IF rate = NarrowRate THEN "narrow" ELSE "wide",
                     !.autoPpm = @ \/ ~cfg.ppm]
    [] type = "airspy" /\ cfg.set \cap (Presets \cup {"lna", "mixer", "vga"}) = {} ->
         [cfg EXCEPT !.set = @ \cup {"linearity"}]
    [] OTHER -> cfg

BuildConfig ==
  /\ step = "config"
  /\ IF choice.type = "stream" THEN config' = None
     ELSE LET asked == [serial |-> args.serial, set |-> args.set, adaptive |-> args.adaptive,
                        bandwidth |-> None, ppm |-> args.ppm, autoPpm |-> FALSE]
              filled == Defaults(asked, choice.type, inputRate)
          IN  config' = IF args.autoPpm = None THEN filled
                        ELSE [filled EXCEPT !.autoPpm = args.autoPpm]
  /\ step' = IF choice.type = "rtlsdr" THEN "open" ELSE "done"
  /\ UNCHANGED <<environment, choice, inputRate, tried, opened>>

-----------------------------------------------------------------------------
(* setup_device with RtlSdrDevice::open_with_serial *)

\* The RTL-SDR units by their places on the bus.
OnBus ==
  [i \in 1..Cardinality(Kind("rtlsdr")) |->
    CHOOSE u \in Kind("rtlsdr") :
      Cardinality({v \in Kind("rtlsdr") : v.place < u.place}) = i - 1]

\* Mutant: a number that is equal is as good as the text.
ResolveIndexByNumber(requested, units) ==
  LET fits == {i \in DOMAIN units : Matches(requested, units[i].serial)}
  IN  IF fits = {} THEN None ELSE Min(fits)

\* resolveIndex: the first unit with the text, else the first with the number.
ResolveIndex(requested, units) ==
  LET exact == {i \in DOMAIN units : units[i].serial.text = requested.text}
      equal == {i \in DOMAIN units : Matches(requested, units[i].serial)}
  IN  CASE exact # {} -> Min(exact)
        [] exact = {} /\ equal # {} -> Min(equal)
        [] OTHER -> None

\* open_with_serial: without a serial it is the first unit on the bus.
OpenIndex(requested, units) ==
  IF requested.text # Empty THEN ResolveIndex(requested, units)
  ELSE IF units = <<>> THEN None ELSE 1

Untried == SubSeq(choice.serials, Len(tried) + 1, Len(choice.serials))

TryOpen ==
  /\ step = "open"
  /\ IF Untried = <<>> THEN Ends("failed")
     ELSE LET index == OpenIndex(Untried[1], OnBus)
              free == index # None /\ OnBus[index] \notin taken
          IN  /\ tried' = Append(tried, Untried[1])
              /\ opened' = IF free THEN OnBus[index] ELSE None
              /\ step' = IF free THEN "done" ELSE "open"
              /\ UNCHANGED <<environment, choice, inputRate, config>>

NextSelection == Plug \/ ChooseDevice \/ ResolveRate \/ BuildConfig \/ TryOpen

-----------------------------------------------------------------------------
(* Properties *)

\* The units a candidate of the list may open, by its text.
Leads(text, u) ==
  IF text = Empty THEN \A v \in Kind("rtlsdr") : u.place <= v.place
  ELSE u.serial.text = text

\* A unit its own serial leads to, and to no other.
Found(u) == \A v \in Kind("rtlsdr") : Leads(u.serial.text, v) => v = u

\* README.md:268: units that are busy are skipped.  As long as nobody touches
\* the bus an automatic choice opens a free RTL-SDR, the one its candidate
\* names or the first on the bus if that has no serial.  No free unit comes
\* before it in the order of the serials, and none is left when it fails, but
\* those that share their serial or have none and are not the first.
Undisturbed ==
  choice # None /\ choice.type = "rtlsdr" /\ args.serial = None /\ plugs = MaxPlugs
FirstFreeOpened ==
  Undisturbed =>
    /\ opened # None =>
         LET text == tried[Len(tried)].text
         IN  /\ opened \in Kind("rtlsdr") \ taken /\ Leads(text, opened)
             /\ \A u \in Kind("rtlsdr") \ taken :
                  Found(u) => u = opened \/ text < u.serial.text
    /\ step = "failed" /\ config # None =>
         \A u \in Kind("rtlsdr") : Found(u) => u \in taken

\* Not so: the same of units that share a serial, as many leave the factory
\* with, or of one without a serial that is not the first on the bus.
FirstFreeOpenedAnyway ==
  Undisturbed /\ step = "failed" /\ config # None => Kind("rtlsdr") \subseteq taken

\* The gain adapts only where nobody fixed it, whichever way it was fixed,
\* unless it was asked for; a fixed ppm stops the calibration likewise.
FixedMeansFixed ==
  config # None /\ choice.type = "rtlsdr" =>
    /\ args.adaptive = None => (config.adaptive <=> args.set \cap GainSettings = {})
    /\ args.autoPpm = None => (config.autoPpm <=> ~args.ppm)

\* What was chosen is what was asked for: the unit that is opened, and whether
\* its gain and its correction are fixed (DeviceSelection.hpp:80-261).
ChosenAsAsked == FirstFreeOpened /\ FixedMeansFixed
=============================================================================
