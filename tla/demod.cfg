SPECIFICATION MCSpec
CONSTANTS
  a = a
  b = b
  c = c
  None = None
  Addr = {a, b, c}
  Capability = {1, 2}
  NumKeys = 1
  KeyOf <- MCKeyOf
  Period = 2
  SeenTtl = 1
  TrustTtl = 2
  MinSeparation = 2
  AltDelta = 1
  DupWindow = 1
  PairWindow = 2
  PositionMaxAge = 2
  DecodeCpr <- MCDecodeCpr
  Near <- MCNear
  Squitters <- MCSquitters
  Damaged <- MCDamaged
  AllCalls <- MCAllCalls
  Interrogated <- MCInterrogated
  Corrected <- MCCorrected
  ValueFrames <- MCValueFrames
  PlausibleAddr = {a, b}
  TrustMax = 2
  Df11Max = 2
  RejectedMax = 2
  TrustIndex <- MCTrustIndex
  Df11Index <- MCTrustIndex
  RejectedIndex <- MCRejectedIndex
INVARIANTS TrustIsTimely EmissionsApart Corroborated RescueIsRepeat
