CONSTANTS
    Parts = {"placement"}
    SteppedOver <- StepPrograms
    PlacedOn <- Aliased
SPECIFICATION Spec
INVARIANT DescribedAlike
CHECK_DEADLOCK FALSE
