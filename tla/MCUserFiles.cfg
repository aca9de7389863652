SPECIFICATION Spec
CONSTANTS
    Files <- MCFiles
    Limit = 2
    MaxVersion = 2
    MaxGen = 2
    Missing = Missing
    Cut = Cut
INVARIANTS
    FilesWhole
    SavedSurvives
    LibrariesFirst
PROPERTIES
    CleanedForAReason
