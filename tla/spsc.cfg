SPECIFICATION MCSpec
CONSTANTS
  Frame = {f1, f2}
  Capacity = 2
  WordSize = 4
  NoWord = NoWord
  MaxPushes = 6
INVARIANTS NoSlotRace
PROPERTIES ImplementsFifo
