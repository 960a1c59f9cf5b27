----------------------------- MODULE MCDevices -----------------------------
(***************************************************************************)
(* The devices and the start of a run for TLC: the sample-drop monitor, the *)
(* Airspy, the choice of a device, the R82xx tuner, the opening of a        *)
(* dongle, the command line and the servers.  They share no state, so a behaviour is one of them,        *)
(* whichever "part" says; the others stay where they begin.                 *)
(***************************************************************************)
EXTENDS SampleClock, AirspyDevice, DeviceSelection, R82xxTuner, DongleOpen, CommandLine,
        ServerStart, TLC

CONSTANTS Parts, r1, r2, r3

VARIABLE part

\* Airspy: one serial that is taken for its number, one that is taken for the
\* number of no radio and one that stands for any; presets of libairspy, the
\* one the shadow begins with among them.
MCCandidates ==
  <<[radio |-> r1, written |-> "0x"], [radio |-> r2, written |-> "digits"],
    [radio |-> r3, written |-> "letters"]>>
Stages3Of(lna, mixer, vga) == [lna |-> lna, mixer |-> mixer, vga |-> vga]
MCLinearity == (4 :> Stages3Of(0, 1, 8)) @@ (5 :> Stages3Of(0, 1, 9)) @@ (15 :> Stages3Of(9, 6, 11))
MCSensitivity ==
  (4 :> Stages3Of(5, 1, 4)) @@ (5 :> Stages3Of(6, 2, 4)) @@ (15 :> Stages3Of(14, 10, 7))
MCSpyConfigs ==
  [frequency : {1090}, linearity : {None, 4, 5, 15}, sensitivity : {None, 4, 5}, lna : {None, 5},
   mixer : {None, 2}, vga : {None}, bias : {TRUE}]

\* Serials 1 and 2 are "02" and "2"; 3 is no number, and two units share it;
\* one unit has none and is the first on the bus only without another.
Serial(text, value) == [text |-> text, value |-> value]
MCUnits ==
  {[type |-> "rtlsdr", serial |-> Serial(2, 2), rates |-> {}, place |-> 3],
   [type |-> "rtlsdr", serial |-> Serial(1, 2), rates |-> {}, place |-> 1],
   [type |-> "rtlsdr", serial |-> Serial(Empty, None), rates |-> {}, place |-> 2],
   [type |-> "rtlsdr", serial |-> Serial(3, None), rates |-> {}, place |-> 4],
   [type |-> "rtlsdr", serial |-> Serial(3, None), rates |-> {}, place |-> 5],
   [type |-> "airspy", serial |-> Serial(4, 4), rates |-> {1, 6, 10}, place |-> 1]}
MCPairs == {<<2, 8>>, <<3, 12>>, <<6, 12>>, <<6, 24>>, <<10, 10>>}
Line(device, serial, rate, set, adaptive, ppm, autoPpm) ==
  [device |-> device, stdin |-> "nodata", serial |-> serial, rate |-> rate, set |-> set,
   adaptive |-> adaptive, ppm |-> ppm, autoPpm |-> autoPpm]
MCLines ==
  {Line(None, None, None, {}, None, FALSE, None), Line("auto", None, 6, {"agc"}, None, TRUE, None),
   Line("rtlsdr", None, 3, {"lna"}, TRUE, FALSE, FALSE),
   Line("rtlsdr", Serial(5, 2), None, {"gain"}, None, TRUE, TRUE),
   Line("airspy", None, None, {"lna"}, None, FALSE, None),
   [Line(None, None, 6, {}, None, FALSE, None) EXCEPT !.stdin = "data"]}

\* Tuner: the two chips, bare and in the dongles that drive them differently;
\* answers that tune finely in either direction, lock at once, on a second
\* try and never, and filter codes with the one that stands for none.
MCDongles ==
  {[chip |-> "R820T", model |-> "plain", xtal |-> 28800],
   [chip |-> "R828D", model |-> "plain", xtal |-> 16000],
   [chip |-> "R828D", model |-> "V4", xtal |-> 28800],
   [chip |-> "R820T", model |-> "V4L", xtal |-> 28800]}
Answer(fine, lock, code) == [fine |-> fine, lock |-> lock, code |-> code]
MCAnswers ==
  {Answer(2, "first", 5), Answer(1, "second", 15), Answer(2, "never", 3), Answer(3, "first", 0)}

\* Opening: both chips, above and below direct sampling.
MCSetups == [chip : {"R820T", "R828D"}, frequency : {1090, 10}, bandwidth : {0, 3}]

\* Command lines: an option of every kind, with a value in the same word, in the
\* next one or none; values that look like an option and like a value of
\* another kind; a port that is written twice in two ways.
MCPortOf(text) == CASE text \in {"30005", "+30005"} -> 30005 [] text = "7" -> 7 [] OTHER -> None
With(name, value) == [name |-> name, value |-> value]
MCWords ==
  {Word(t) : t \in {"-s", "-f", "-q", "--no-stdout", "--agc", "--no-auto-ppm", "--auto-ppm", "--ppm",
                    "--metrics", "--net-beast-port", "false", "7", "-7", "-h"}}
  \cup {With("--agc", "no"), With("--ppm", "7"), With("--metrics", "7"), With("--no-stdout", "false"),
        With("--net-avr-port", "+30005")}
MCArgvs ==
  UNION {[1..n -> MCWords] : n \in 0..3}
  \cup {<<Word("--net-beast-port"), Word("30005"), With("--net-avr-port", "+30005"), w>> : w \in MCWords}
  \cup {<<Word("--debug"), Word("--verbose"), Word("--no-adaptive-gain"), w>> : w \in MCWords}
MCBackends == {<<"airspy", FALSE>>, <<"rtlsdr", TRUE>>, <<"stream", TRUE>>, <<"stream", FALSE>>}

\* Servers: the same port for the metrics as for a protocol among them.
MCAsked ==
  {[metrics |-> m, avr |-> a, beast |-> b] : m \in {None, 5, 9}, a \in {None, 4}, b \in {None, 5}}
MCAddresses == <<"v6", "v4">>

MCInit ==
  /\ part \in Parts
  /\ argv \in IF part = "words" THEN MCArgvs ELSE {<<>>}
  /\ ports \in IF part = "servers" THEN MCAsked ELSE {[metrics |-> None, avr |-> None, beast |-> None]}
  /\ dongle \in IF part = "tuner" THEN MCDongles ELSE {d \in MCDongles : d.model = "V4"}
  /\ attached \in IF part = "selection" THEN SUBSET MCUnits ELSE {{}}
  /\ args \in IF part = "selection" THEN MCLines ELSE {l \in MCLines : l.device = "airspy"}
  /\ setup \in IF part = "dongle" THEN Setups
               ELSE {s \in Setups : s.chip = "R820T" /\ s.frequency = 1090 /\ s.bandwidth = 0}
  /\ InitClock /\ InitSpy /\ InitSelection /\ InitR82xx /\ InitDongle /\ InitCommandLine /\ InitStart

MCClock ==
  /\ part = "clock" /\ NextClock
  /\ UNCHANGED <<part, dongleVars, spyVars, selectionVars, r82xxVars, cliVars, startVars>>
MCSpy ==
  /\ part = "airspy" /\ NextSpy
  /\ UNCHANGED <<part, dongleVars, clockVars, selectionVars, r82xxVars, cliVars, startVars>>
MCSelection ==
  /\ part = "selection" /\ NextSelection
  /\ UNCHANGED <<part, dongleVars, clockVars, spyVars, r82xxVars, cliVars, startVars>>
MCTuner ==
  /\ part = "tuner" /\ NextR82xx
  /\ UNCHANGED <<part, dongleVars, clockVars, spyVars, selectionVars, cliVars, startVars>>
MCDongle ==
  /\ part = "dongle" /\ NextDongle
  /\ UNCHANGED <<part, clockVars, spyVars, selectionVars, r82xxVars, cliVars, startVars>>
MCWordsPart ==
  /\ part = "words" /\ NextCommandLine
  /\ UNCHANGED <<part, dongleVars, clockVars, spyVars, selectionVars, r82xxVars, startVars>>
MCServers ==
  /\ part = "servers" /\ NextStart
  /\ UNCHANGED <<part, dongleVars, clockVars, spyVars, selectionVars, r82xxVars, cliVars>>
MCNext == MCClock \/ MCSpy \/ MCSelection \/ MCTuner \/ MCDongle \/ MCWordsPart \/ MCServers
=============================================================================
