CONSTANTS
    Parts = {"diff", "script", "expression", "unwind", "placement", "stepping"}
    SteppedOver <- StepPrograms
    PlacedOn <- PlacedPrograms
SPECIFICATION Spec
INVARIANTS
    DiffIsCurrent
    ScriptsAddUp
    ValuesAreTheProgram
    WalkIsTrue
    NamesLeadBack
    StepsEndWhereAsked
PROPERTY PlacesAskedForStop
CHECK_DEADLOCK FALSE
