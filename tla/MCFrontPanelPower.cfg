CONSTANTS
  MIN_POS = 1
  MAX_POS = 3
  MAX_SAMPLES = 1
  CAP_NOISE_TOLERANCE = 10
  MIN_CAP_VALUE = 50
  MAX_CAP_VALUE = 200
  NUMBER_STATIONS = 10
  SampleValues = {100}
  EncoderTurns = TRUE
  StoredIds = {153, 255}
  StoredPositions = {0, 255}
  ResetTypes = {3}
  MaxPowerCycles = 1
  Instructions = {}
  ErrorCodes = {}
  Overruns = FALSE
SPECIFICATION FairSpec
INVARIANT VolumeInRange
PROPERTY PositionGetsStored
