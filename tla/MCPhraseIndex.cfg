SPECIFICATION MCSpec
CONSTANTS
    SystemLib = {1}
    UserLib = {7}
    MaxSlot = 2
    MaxPron = 2
    Seeds = {2}
    Wrap = 4
    NoItem = NoItem
    Shipped <- MCShipped
    Masks <- MCMasks
INVARIANTS
    BooksBalance
    ItemsKept
PROPERTIES
    MaskedForgotten
    ImplementsStore
CHECK_DEADLOCK FALSE
