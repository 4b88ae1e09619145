CONSTANTS
    Programs <- FusionPrograms
    Cancels = {c1}
    MaxTroubles = 2
SPECIFICATION Spec
INVARIANTS TypeOK EndedMeansStill StepsInOrder NothingMissing FusionConcluded CancelledLeavesNothing
PROPERTY ImplementsLife
CHECK_DEADLOCK FALSE
