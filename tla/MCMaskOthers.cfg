CONSTANTS
    Tasks = {"tables"}
    File = {f1, f2}
    Document <- MCDocument
    null_token = 0
    sentence_start = 1
    g_train_pi_gram = TRUE
    g_maximum_occurs = 2
    g_maximum_increase_rates = 2
    g_prune_k = 3
    g_prune_poss <- MCPrunePoss
    MaxCount = 9
    MaxDocuments = 3
SPECIFICATION LookupsSpec
INVARIANT OnlyMatchedMasked
CHECK_DEADLOCK FALSE
