SPECIFICATION Spec
CONSTANTS
    i1 = i1
    i2 = i2
    p = p
    q = q
    k = k
    l = l
    a = a
    Instance <- MCInstance
    Phrase <- MCPhrase
    Pinyin <- MCPinyin
    Imports <- MCImports
    Remembered <- MCRemembered
    MaxLearned = 2
    Addon <- MCAddon
    MaxSlot = 2
    NoItem = NoItem
    Masks <- MCMasks
SYMMETRY Interchangeable
INVARIANTS
    TablesNameItems
    ItemsFindable
    UserPhrasesOnce
    FreshListsHold
    LearnedOfItsOwn
CHECK_DEADLOCK FALSE
