INIT MCInit
NEXT MCNext
CONSTANTS
  None = None
  Parts = {"clock", "airspy", "selection", "tuner", "dongle", "words", "servers"}
  Gap = 2
  Past = 3
  Recovery = 4
  Startup = 1
  History = 6
  Threshold = 0
  Minute = 5
  MaxDrops = 1
  QueueRoom = 2
  MaxLoss = 1
  MaxLosses = 2
  MaxTime = 13
  r1 = r1
  r2 = r2
  r3 = r3
  Radios = {r1, r2, r3}
  Busy = {r1}
  Candidates <- MCCandidates
  SpyConfigs <- MCSpyConfigs
  Linearity <- MCLinearity
  Sensitivity <- MCSensitivity
  FirmwareGain = 1
  MaxSpyFaults = 1
  MaxRuns = 2
  Units <- MCUnits
  RatePairs <- MCPairs
  AirspyFrom = 6
  RtlDefault = 2
  NarrowRate = 3
  CommandLines <- MCLines
  MaxPlugs = 1
  Dongles <- MCDongles
  Answers <- MCAnswers
  Frequencies = {1090000, 137500, 27100}
  Bandwidths = {2430, 2050}
  Gains = {496}
  StageSteps = {15}
  FailingAt = {0, 3, 9, 20}
  MaxOps = 2
  MaxFailed = 1
  Setups <- MCSetups
  SampleRate = 2
  DirectBelow = 24
  Ppms = {0, 4}
  MaxFaulty = 2
  Argvs <- MCArgvs
  Dashed = {"-7"}
  TrueTexts = {"1", "true", "on", "yes"}
  FalseTexts = {"0", "false", "off", "no"}
  PortOf <- MCPortOf
  Backends <- MCBackends
  MetricsDefault = "127.0.0.1:9109"
  Asked <- MCAsked
  Addresses <- MCAddresses
  MetricsAddress = "v4"
  MaxStarts = 2
  MaxErrors = 2
  MaxTaken = 2
INVARIANTS NoPhantomDrop LossesCounted StagesKnown ChosenAsAsked SettingsHold DongleWhole LineReadOnce ServersWhole
CHECK_DEADLOCK FALSE
