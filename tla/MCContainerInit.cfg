CONSTANTS
    old = old  young = young
    Table = "container"
    Owners <- MCOwners
    Samples <- MCSamples
    Answers <- MCAnswers
    MaxRuns = 3
SPECIFICATION Spec
INVARIANTS IInv SeriesSurvive MissingForAReason
PROPERTIES WholeCheckpointsStay
CHECK_DEADLOCK FALSE
