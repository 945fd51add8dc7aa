SPECIFICATION Spec
CONSTANTS
  ByteBits <- MCByteBits
  Sign <- MCSign
  MEM_WORDS <- MCMemWords
  ArmIsa <- MCArmIsa
  ThumbIsa <- MCThumbIsa
  Sentinel <- MCSentinel
  HleCalls = {1}
  MultiplyCarry <- MCMultiplyCarry
  MAX_IRQS = 1
  MAX_FLUSHES = 1
  HandlerCells <- MCHandlerCells
  TestWords <- MCTestWords
  TestAmounts <- MCTestAmounts
  TARGETS <- Targets
  DATA <- Loads
  CONTROLS <- Controls
  BUFFER_BYTES = 8
  CYCLES = 14
  NARROW = 1
  WIDE = 2
  UNITS = 3
  UNIT_BITS = 2
  DUMMIES = 1
  CARTS <- Carts
  REQUESTS = 3
  UnitValues <- UnitsWritten
  ByteValues <- BytesWritten
INVARIANTS ProcessorComputes BiosDelivers ReadsAhead
PROPERTIES BurstsArePaid ChipKeepsAsAsked
CHECK_DEADLOCK FALSE
