CONSTANTS
  Events <- MCEvents
  Never = Never
  None = None
  Flags = {"VBlank", "Keypad", "Timer", "Dma"}
  StopFlags = {"Keypad"}
  IrqDelay = 4
  LastTimer = 1
  CounterSize = 4
  Prescalers = {1, 2}
  ReadOffset = 2
  TimerFlag <- MCTimerFlag
  LastChannel = 1
  DmaStartDelay = 3
  RunEdgeCycles = 1
  UnitCycles = 2
  DmaFlag <- MCDmaFlag
  LineCycles = 6
  HBlankStart = 4
  Lines = 2
  VisibleLines = 1
  IrqCycles = 2
  Lengths = {1, 9}
  Controls <- MCControls
  Reloads = {0, 3}
  DmaControls <- MCDmaControls
  DmaUnits = {1, 5}
  Programs <- MCPrograms
  CountUpRewritten = FALSE
SPECIFICATION Spec
INVARIANTS
  EventsWillFire
  LinesOnTheGrid
  NoLostWakeup
  TransfersHoldTheBus
PROPERTIES
  FramesStayAligned
  KeepsTime
