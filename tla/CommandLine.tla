---------------------------- MODULE CommandLine ----------------------------
(***************************************************************************)
(* The words of the command line (parse_cli of Cli.hpp), the checks main    *)
(* makes of them, and the format and the filters a run is given for them    *)
(* (run_once of main.cpp).                                                  *)
(*                                                                          *)
(* A word is the text before its "=", and the text after it when it is a    *)
(* long option and has one.  A setting is named for the option that makes   *)
(* it; of the texts it matters only which are read as a Boolean or a port.  *)
(***************************************************************************)
EXTENDS Absent, Integers, Sequences, FiniteSetsExt

CONSTANTS Argvs,      \* the command lines
          Dashed,     \* texts that begin with "-" and are no option
          TrueTexts, FalseTexts, \* of parse_bool
          PortOf(_),  \* the port that a text stands for, or None
          Backends,   \* <<device, whether its rate is below 6 MHz>>
          MetricsDefault \* "127.0.0.1:9109"

TextWord == [name : STRING, value : STRING \cup {None}]
ASSUME WordsAssumption ==
  /\ Argvs \subseteq Seq(TextWord) /\ None \notin TextWord \cup BOOLEAN
  /\ TrueTexts \cap FalseTexts = {} /\ "true" \in TrueTexts

VARIABLES argv,
          parsed,     \* how many of its words are behind the parser
          settings,   \* CliArgs
          parsing,    \* "words", "checks", then "run" and "planned", "help" or "refused"
          plan        \* what a run is made of

cliVars == <<argv, parsed, settings, parsing, plan>>

Word(text) == [name |-> text, value |-> None]

-----------------------------------------------------------------------------
(* The options, by the way they take a value *)

Short == {"-s", "-u", "-f"}
Texts ==
  {"--net-bind-address", "--device", "--serial", "--freq", "--gain", "--ppm", "--tuner-bandwidth",
   "--linearity-gain", "--sensitivity-gain", "--lna-gain", "--mixer-gain", "--vga-gain",
   "--auto-ppm-warmup", "--auto-ppm-interval", "--auto-ppm-samples", "--auto-ppm-max-step",
   "--auto-ppm-deadband", "--auto-ppm-limit"}
Ports == {"--net-avr-port", "--net-beast-port"}
Booleans ==
  {"--adaptive-gain", "--agc", "--bias-tee", "--offset-tuning", "--airspy-packing", "--auto-ppm"}
Switches ==
  [s \in {"-q", "--no-iq-filter", "-v", "--verbose", "--debug", "--no-stdout", "--no-adaptive-gain",
          "--no-auto-ppm"} |->
     CASE s = "-q" -> <<"-q", TRUE>>
       [] s = "--no-iq-filter" -> <<"-q", FALSE>>
       [] s \in {"-v", "--verbose"} -> <<"-v", TRUE>>
       [] s = "--debug" -> <<"--debug", TRUE>>
       [] s = "--no-stdout" -> <<"stdout", FALSE>>
       [] s = "--no-adaptive-gain" -> <<"--adaptive-gain", FALSE>>
       [] s = "--no-auto-ppm" -> <<"--auto-ppm", FALSE>>]
Help == {"-h", "--help"}
OptionNames == Short \cup Texts \cup Ports \cup Booleans \cup DOMAIN Switches \cup Help \cup {"--metrics"}

\* What CliArgs is built with; the two that tell "not set" from "off" are None.
DefaultSettings ==
  [s \in Short \cup Texts \cup Ports \cup Booleans
         \cup {"--metrics", "-q", "stdout", "-v", "--debug"} |->
     CASE s \in {"-q", "stdout", "--airspy-packing"} -> TRUE
       [] s \in {"-v", "--debug", "--agc", "--bias-tee", "--offset-tuning"} -> FALSE
       [] OTHER -> None]

InitCommandLine ==
  /\ argv \in Argvs /\ parsed = 0 /\ settings = DefaultSettings /\ parsing = "words" /\ plan = None

-----------------------------------------------------------------------------
(* parse_cli, an option at a time *)

Arg == argv[parsed + 1]
HasNext == parsed + 1 < Len(argv)
Next1 == argv[parsed + 2]
LooksLikeValue(word) == word.name \notin OptionNames \cup Dashed

Refuse == parsing' = "refused" /\ UNCHANGED <<argv, parsed, settings, plan>>
Set(setting, value, words) ==
  /\ settings' = [settings EXCEPT ![setting] = value]
  /\ parsed' = parsed + words /\ UNCHANGED <<argv, parsing, plan>>

\* take: the value of the word itself, or else the whole next word.
Taken ==
  IF Arg.value # None THEN [value |-> Word(Arg.value), words |-> 1]
  ELSE IF HasNext THEN [value |-> Next1, words |-> 2]
  ELSE [value |-> None, words |-> 1]

\* Mutant: the next word is the value, whatever it looks like.
TakenBooleanAnyway ==
  IF Arg.value # None THEN [value |-> Word(Arg.value), words |-> 1]
  ELSE IF HasNext THEN [value |-> Next1, words |-> 2]
  ELSE [value |-> Word("true"), words |-> 1]
\* takeBoolean: the next word only if it does not look like an option.
TakenBoolean ==
  IF Arg.value # None THEN [value |-> Word(Arg.value), words |-> 1]
  ELSE IF HasNext /\ LooksLikeValue(Next1) THEN [value |-> Next1, words |-> 2]
  ELSE [value |-> Word("true"), words |-> 1]

ParseBool(word) ==
  CASE word \in {Word(t) : t \in TrueTexts} -> TRUE
    [] word \in {Word(t) : t \in FalseTexts} -> FALSE
    [] OTHER -> None
ParseTcpPort(word) == IF word = None \/ word.value # None THEN None ELSE PortOf(word.name)

Parsing == parsing = "words" /\ parsed < Len(argv)
ParseHelp ==
  /\ Parsing /\ Arg.name \in Help
  /\ parsing' = "help" /\ UNCHANGED <<argv, parsed, settings, plan>>
ParseShort ==
  /\ Parsing /\ Arg.name \in Short
  /\ IF HasNext THEN Set(Arg.name, Next1, 2) ELSE Refuse
ParseSwitch ==
  /\ Parsing /\ Arg.name \in DOMAIN Switches
  /\ Set(Switches[Arg.name][1], Switches[Arg.name][2], 1)
ParseText ==
  /\ Parsing /\ Arg.name \in Texts
  /\ IF Taken.value = None THEN Refuse ELSE Set(Arg.name, Taken.value, Taken.words)
ParsePort ==
  /\ Parsing /\ Arg.name \in Ports
  /\ IF ParseTcpPort(Taken.value) = None THEN Refuse
     ELSE Set(Arg.name, ParseTcpPort(Taken.value), Taken.words)
ParseBoolean ==
  /\ Parsing /\ Arg.name \in Booleans
  /\ IF ParseBool(TakenBoolean.value) = None THEN Refuse
     ELSE Set(Arg.name, ParseBool(TakenBoolean.value), TakenBoolean.words)
ParseMetrics ==
  /\ Parsing /\ Arg.name = "--metrics"
  /\ CASE Arg.value # None -> Set("--metrics", Word(Arg.value), 1)
       [] Arg.value = None /\ HasNext /\ LooksLikeValue(Next1) -> Set("--metrics", Next1, 2)
       [] OTHER -> Set("--metrics", Word(MetricsDefault), 1)
ParseUnknown == Parsing /\ Arg.name \notin OptionNames /\ Refuse
EndOfWords ==
  /\ parsing = "words" /\ parsed = Len(argv)
  /\ parsing' = "checks" /\ UNCHANGED <<argv, parsed, settings, plan>>

-----------------------------------------------------------------------------
(* main, before the first run, and what every run makes of the settings *)

CheckPorts ==
  /\ parsing = "checks"
  /\ parsing' = IF \/ settings["--net-avr-port"] # None
                      /\ settings["--net-avr-port"] = settings["--net-beast-port"]
                   \/ ~settings["stdout"] /\ \A p \in Ports : settings[p] = None
                THEN "refused" ELSE "run"
  /\ UNCHANGED <<argv, parsed, settings, plan>>

\* The level of the log: --debug comes after --verbose.
LogLevel == IF settings["--debug"] THEN "debug" ELSE IF settings["-v"] THEN "info" ELSE "message"

\* The raw format is the backend's; for stdin the rate decides.
RawFormat(type, lowRate) ==
  CASE type = "airspy" -> "uint16" [] type = "rtlsdr" -> "uint8"
    [] OTHER -> IF lowRate THEN "uint8" ELSE "uint16"
\* A file of taps comes before the switch for the filter that is built in.
PipelineOption ==
  IF settings["-f"] # None THEN "file" ELSE IF settings["-q"] THEN "built in" ELSE "none"

PlanRun ==
  /\ parsing = "run" /\ parsing' = "planned"
  /\ \E b \in Backends :
       plan' = [level |-> LogLevel, rawFormat |-> RawFormat(b[1], b[2]), filter |-> PipelineOption]
  /\ UNCHANGED <<argv, parsed, settings>>

NextCommandLine ==
  \/ ParseHelp \/ ParseShort \/ ParseSwitch \/ ParseText \/ ParsePort \/ ParseBoolean
  \/ ParseMetrics \/ ParseUnknown \/ EndOfWords \/ CheckPorts
  \/ PlanRun

-----------------------------------------------------------------------------
(* Properties *)

\* What a piece of the command line sets, as a setting and its value, when it
\* is one option and all that belongs to it.
Value(piece) == IF Len(piece) = 2 THEN piece[2] ELSE Word(piece[1].value)
IsPiece(piece) ==
  LET name == piece[1].name
      valued == (Len(piece) = 2) # (piece[1].value # None)
      bare == Len(piece) = 1 /\ piece[1].value = None
      optional == bare \/ (valued /\ (Len(piece) = 2 => LooksLikeValue(piece[2])))
  IN  \/ name \in Short /\ Len(piece) = 2
      \/ name \in Texts /\ valued
      \/ name \in Ports /\ valued /\ ParseTcpPort(Value(piece)) # None
      \/ name \in Booleans /\ optional /\ (bare \/ ParseBool(Value(piece)) # None)
      \/ name = "--metrics" /\ optional
      \/ name \in DOMAIN Switches /\ Len(piece) = 1
Says(piece) ==
  LET name == piece[1].name
  IN  CASE name \in DOMAIN Switches -> Switches[name]
        [] name \in Ports -> <<name, ParseTcpPort(Value(piece))>>
        [] name \in Booleans -> <<name, IF piece = <<Word(name)>> THEN TRUE ELSE ParseBool(Value(piece))>>
        [] name = "--metrics" ->
             <<name, IF piece = <<Word(name)>> THEN Word(MetricsDefault) ELSE Value(piece)>>
        [] OTHER -> <<name, Value(piece)>>

\* The ways to cut the first n words into pieces: where each of them ends.
From(cut, e) == Max({0} \cup {c \in cut : c < e}) + 1
Piece(line, cut, e) == SubSeq(line, From(cut, e), e)
Cuts(line, n) ==
  {cut \in SUBSET (1..n) :
     /\ n > 0 => n \in cut
     /\ \A e \in cut : e - From(cut, e) \in {0, 1} /\ IsPiece(Piece(line, cut, e))}
\* The value of a setting is the last that is said about it.
About(line, cut, setting) == {e \in cut : Says(Piece(line, cut, e))[1] = setting}
Said(line, cut, setting) ==
  IF About(line, cut, setting) = {} THEN DefaultSettings[setting]
  ELSE Says(Piece(line, cut, Max(About(line, cut, setting))))[2]

\* A command line that is taken has one reading, and the parser found it: every
\* setting is what the last piece about it says and no word is read twice; one
\* that is refused by the parser has no reading, or one with a name that asks
\* for help is not read to its end (Cli.hpp:104-371).
LineReadOnce ==
  /\ parsing = "checks" =>
       /\ Cardinality(Cuts(argv, Len(argv))) = 1
       /\ \A cut \in Cuts(argv, Len(argv)), setting \in DOMAIN settings :
            settings[setting] = Said(argv, cut, setting)
  /\ parsing = "refused" /\ parsed < Len(argv) => Cuts(argv, Len(argv)) = {}
=============================================================================
