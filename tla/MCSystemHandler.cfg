CONSTANTS
    Parts = {"stepping"}
    SteppedOver <- HandledInSystemMode
    PlacedOn <- PlacedPrograms
SPECIFICATION Spec
INVARIANT IntoSkipsInterrupts
CHECK_DEADLOCK FALSE
