SPECIFICATION AllSpec
CONSTANTS
  SHORT = 1
  LONG = 2
  SLOW = 2
  FAST = 1
  WRITES <- SerialWrites
  TIME = 4
  Cells = {c1, c2}
  Masks = {0, 1}
  KeyframeInterval = 2
  FullEvery = 2
  MaxBytes = 6
  SnapshotBytes = 3
  DeltaHeader = 0
  MaxFrame = 7
CHECK_DEADLOCK FALSE
INVARIANTS BusIsOneMemory TransfersRunOut SoundKeepsTime RestoredDrawsTheSame LinesMergeInOrder
  TypeOK RestoreBounded WithinBudget
PROPERTIES PictureFollowsWrites ImplementsExact
