CONSTANTS
    old = old  young = young
    Table = "workload"
    Owners <- MCOwners
    Samples <- MCSamples
    Answers <- MCAnswers
    MaxRuns = 3
SPECIFICATION Spec
INVARIANT LoadedIsFetched
CHECK_DEADLOCK FALSE
