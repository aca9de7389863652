SPECIFICATION InputSpec
CONSTANTS
    Tasks = {"matrix", "keyboards", "sentences"}
    max_full_pinyin_length = 3
    max_double_pinyin_length = 2
    max_chewing_length = 2
    zero_key <- MCzero_key
    ValidZhuyin <- MCValidZhuyin
    NoSyllable <- MCNoSyllable
    Spelled <- MCSpelled
    Spans <- MCSpans
    Divided <- MCDivided
    Resplit <- MCResplit
    AmbInitials <- MCAmbInitials
    AmbFinals <- MCAmbFinals
    LibrarySize = 10
    SystemPhrases <- MCSystemPhrases
    UserPhrases <- MCUserPhrases
    Masks <- MCMasks
    Queries <- MCQueries
    Keyboards <- MCKeyboards
    Typings <- MCTypings
    Said <- MCSaid
    MAX_PHRASE_LENGTH = 3
    MaxTyped = 4
    MaxTypedThen = 2
    MaxIndices = 6
    Lookups <- MCKinds
    Problems <- MCProblems
    nbeam = 4
    Unit = 2
    LONG_SENTENCE_PENALTY = 1
INVARIANTS
    ParseIsBest
    TypedReadAndCounted
    SearchNeverAborts
    NoPhraseMissed
    TableAgrees
    CursorOnKey
    ResultsAreChains
    BestSentence
CHECK_DEADLOCK FALSE
