SPECIFICATION Spec
CONSTANTS
    Tokens <- MCTokens
    Removable <- MCRemovable
    Sentences <- MCSentences
    Predictions <- MCPredictions
    Pronunciations <- MCPronunciations
    SystemGrams <- MCSystemGrams
    Masks <- MCMasks
    InitialSeed = 1
    ExpandFactor = 2
    CeilingSeed = 2
    Wrap = 3
INVARIANTS GramsBalance MergeAgrees PairsNameItems ExportIsSafe
PROPERTY ExportEnds
CHECK_DEADLOCK FALSE
