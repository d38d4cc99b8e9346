CONSTANTS
  MIN_POS = 1
  MAX_POS = 3
  MAX_SAMPLES = 2
  CAP_NOISE_TOLERANCE = 10
  MIN_CAP_VALUE = 50
  MAX_CAP_VALUE = 200
  NUMBER_STATIONS = 10
  SampleValues = {100}
  EncoderTurns = FALSE
  StoredIds = {153}
  StoredPositions = {3}
  ResetTypes = {3}
  MaxPowerCycles = 0
  Instructions = {2, 4, 7}
  ErrorCodes = {5}
  Overruns = TRUE
SPECIFICATION Spec
INVARIANT TypeOK
INVARIANT FramesAgree
