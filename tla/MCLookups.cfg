\* Short texts; three libraries' worth of one phrase; three documents.
CONSTANTS
    Tasks = {"lists", "texts", "models", "tables"}
    File = {f1, f2}
    Document <- MCDocument
    null_token = 0
    sentence_start = 1
    g_train_pi_gram = TRUE
    g_maximum_occurs = 2
    g_maximum_increase_rates = 2
    g_prune_k = 3
    g_prune_poss <- MCPrunePoss
    MaxCount = 9
    MaxDocuments = 3
SPECIFICATION LookupsSpec
SYMMETRY Symmetry
INVARIANTS
    OfferedOnceInOrder
    PhrasesReached
    MergedLongest
    ModelsValidate
    ModelOfCorpus
    ItemsPossible
    PruneNeverStops
    InterpolationBalances
CHECK_DEADLOCK FALSE
