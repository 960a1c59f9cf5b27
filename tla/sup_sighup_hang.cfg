SPECIFICATION Spec
CONSTANTS
  MaxAttempts = 2
  Hardware = {"good", "dead"}
  Signals = {"HUP"}
  Stalls = FALSE
PROPERTIES SighupStopsRun
CHECK_DEADLOCK FALSE
