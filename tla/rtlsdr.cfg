SPECIFICATION MCSpec
CONSTANTS
  None = None
  Parts = {"ppm", "gain", "usb"}
  Warmup = 1
  Interval = 2
  Samples = 3
  MaxStep = 2
  Deadband = 1
  Limit = 4
  Drifts <- MCDrifts
  Confirm = 1
  LossSize = 8
  MaxMissed = 2
  MaxFailures = 1
  Lateness = 1
  Table <- MCTable
  LnaSteps <- MCSteps
  MixerSteps <- MCSteps
  VgaLinear = 1
  VgaTop = 3
  IsR82xx = TRUE
  Antennas <- MCAntennas
  Configs <- MCConfigs
  CallFaults <- MCFaults
  MaxFaults = 1
  MaxRecalibrations = 1
  DigitalFloor = 0
  Low = 2
  Target = 4
  High = 6
  HardOverload = 9
  Headroom = 7
  RailsWarm = 9
  RailsHot = 10
  DropoutWindows = 2
  Xfers = {1, 2}
  Hosts = {TRUE, FALSE}
  IdleProbe = 2
  MaxErrors = 2
INVARIANTS LoopFollowsTuner FreedAtRest
PROPERTIES Calibrates ReportTruthful ComesToRest StreamEnds
CHECK_DEADLOCK FALSE
