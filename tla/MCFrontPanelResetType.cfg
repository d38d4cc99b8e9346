CONSTANTS
  MIN_POS = 1
  MAX_POS = 3
  MAX_SAMPLES = 1
  CAP_NOISE_TOLERANCE = 10
  MIN_CAP_VALUE = 50
  MAX_CAP_VALUE = 200
  NUMBER_STATIONS = 10
  SampleValues = {100}
  EncoderTurns = FALSE
  StoredIds = {153}
  StoredPositions = {3}
  ResetTypes = {0, 1, 2, 3}
  MaxPowerCycles = 0
  Instructions = {2, 6}
  ErrorCodes = {}
  Overruns = FALSE
SPECIFICATION Spec
INVARIANT FramesAgree
