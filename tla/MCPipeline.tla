----------------------------- MODULE MCPipeline -----------------------------
(***************************************************************************)
(* The way of a sample for TLC: the filters, the stream of magnitudes that  *)
(* becomes bits, the frame that is mended, read and sent out, and the       *)
(* numbers that are shown of it all.  They share no state, so a         *)
(* behaviour is one of them, whichever "part" says; the counters and the    *)
(* clients of the metrics are parts of their own, and "metrics" is both     *)
(* together.                                                                *)
(***************************************************************************)
EXTENDS SampleStream, IqPipeline, BitRepair, AltitudeCode, FrameOutput, MetricsService

CONSTANTS Parts, prompt, slow

VARIABLE part

\* Every sampler of Sampler.hpp, in kHz.
MCRatePairs ==
  {<<n, n>> : n \in {2000, 4000, 6000, 8000, 10000, 12000, 20000, 24000}}
  \cup {<<2000, n>> : n \in {4000, 8000}}
  \cup {<<2400, n>> : n \in {4000, 6000, 8000, 12000, 24000}}
  \cup {<<2560, n>> : n \in {8000, 12000, 24000}}
  \cup {<<3200, n>> : n \in {8000, 12000, 16000, 24000}}
  \cup {<<6000, n>> : n \in {12000, 16000, 24000}}
  \cup {<<10000, n>> : n \in {20000, 24000, 30000, 36000, 40000, 48000}}
  \cup {<<12000, 24000>>, <<3000, 6000>>, <<20000, 24000>>, <<20000, 40000>>}
\* A passthrough, linear interpolation, the cubic and a table of its own.
MCFewRatePairs == {<<2000, 2000>>, <<2400, 12000>>, <<2560, 8000>>, <<6000, 16000>>}

\* The three kinds of pipeline, and none; of the filters from a file one is not
\* symmetric and one has a line that cannot be read.
Taken(taps) == [i \in DOMAIN taps |-> [kind |-> "tap", tap |-> taps[i]]]
FromFile(lines) == SetTaps(LoadTaps(<<[kind |-> "none"]>> \o lines))
Aligned == MakeAlignedIQTaps(<<100, 500, 100>>, 6)
Pipeline(format, stages, tapsI, tapsQ) ==
  [format |-> format, stages |-> stages, tapsI |-> tapsI, tapsQ |-> tapsQ]
Custom(lines) == Pipeline("rtlsdr", {"fir"}, FromFile(lines), FromFile(lines))
MCPipelines ==
  {Pipeline("airspy", {"dc", "flip", "dual"}, SetBranch(Aligned[1]), SetBranch(Aligned[2])),
   Custom(Taken(<<-100, 700, 300>>)), Custom(Taken(<<-100, 700, -100>>)),
   Custom(Taken(<<500>>) \o <<[kind |-> "junk"]>>),
   Pipeline("antsdr", {"dc"}, <<1>>, <<1>>), Pipeline("rtlsdr", {}, <<1>>, <<1>>)}
MCRawValues(format) ==
  CASE format = "rtlsdr" -> {0, 255} [] format = "airspy" -> {0, 4095}
    [] format = "antsdr" -> {-2048, 2047}

\* A DF11 and a DF17.  Eight bits of the first window are a frame of their own, so
\* that one of its columns depends on the others.
Doubted(bits) ==
  [b \in 0..111 |-> IF b \in ToSet(bits) THEN CHOOSE i \in DOMAIN bits : bits[i] = b ELSE 10]
MCConfidences ==
  {Doubted(<<25, 12, 0, 1, 3, 11, 4, 10, 17>>), Doubted(<<95, 0, 63, 29, 106, 64, 1>>),
   [b \in 0..111 |-> 1]}
MCPayloads == {{24, 30, 47, 51, 52, 54}, {24, 63, 86, 103, 107, 111}}

MCInit ==
  /\ part \in Parts /\ InitStream /\ InitPipe /\ InitRepair
  /\ InitAltitude /\ InitOutput /\ InitService
  /\ part # "stream" => sampler.pair = <<2000, 2000>>
  /\ part # "iq" => pipe.stages = {}
  /\ part # "output" => streams = 12 /\ withRssi
  /\ client = prompt

MCStream ==
  /\ part = "stream" /\ NextStream
  /\ UNCHANGED <<part, code, pipeVars, repairVars, outputVars, serviceVars>>
MCIq ==
  /\ part = "iq" /\ NextPipe
  /\ UNCHANGED <<part, code, streamVars, repairVars, outputVars, serviceVars>>
MCRepair ==
  /\ part = "repair" /\ NextRepair
  /\ UNCHANGED <<part, code, streamVars, pipeVars, outputVars, serviceVars>>
MCAltitude ==
  /\ part = "altitude" /\ NextAltitude
  /\ UNCHANGED <<part, streamVars, pipeVars, repairVars, outputVars, serviceVars>>
MCOutput ==
  /\ part = "output" /\ NextOutput
  /\ UNCHANGED <<part, code, streamVars, pipeVars, repairVars, serviceVars>>
MCMetrics ==
  /\ part \in {"metrics", "counters", "clients"} /\ NextService
  /\ part = "counters" => peer' = peer
  /\ part = "clients" => counted' = NothingCounted
  /\ UNCHANGED <<part, code, streamVars, pipeVars, repairVars, outputVars>>
MCNext == MCStream \/ MCIq \/ MCRepair \/ MCAltitude \/ MCOutput \/ MCMetrics

\* The server's thread is scheduled, and so is the main thread that joins it.
MCSpec ==
  /\ MCInit /\ [][MCNext]_<<part, code, streamVars, pipeVars, repairVars, outputVars, serviceVars>>
  /\ WF_serviceVars(ServerStep) /\ WF_serviceVars(JoinServer)
=============================================================================
