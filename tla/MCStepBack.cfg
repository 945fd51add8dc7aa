CONSTANTS
  Parts = {"rewinds"}
  Masks = {0, 1}
  Slots = 4
  Asleep = {1}
  KeypadIrq = FALSE
  SavedStates <- SavedOfRewinds
  KeyframeInterval = 2
  FullEvery = 1
  MaxBytes = 13
  SnapshotBytes = 4
  DeltaHeader = 0
  MaxFrame = 2
  MaxTakes = 0
  MaxWrites = 0
  None = None
SPECIFICATION PartsSpec
PROPERTY StepsBackExactly
