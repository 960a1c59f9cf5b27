SPECIFICATION Spec
CONSTANTS
  MaxAttempts = 2
  Hardware = {"good", "dead", "absent"}
  Signals = {"INT", "HUP"}
  Stalls = TRUE
INVARIANTS NothingLeftBehind ReaderGoneBeforeClose EndToldOnce
PROPERTIES SilenceEndsRun ComesToAnEnd
CHECK_DEADLOCK FALSE
