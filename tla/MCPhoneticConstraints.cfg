SPECIFICATION MCSpec
CONSTANTS
    t = t
    u = u
    v = v
    w = w
    NullToken = NullToken
    Token <- MCToken
    Input <- MCInput
    NBest = 2
INVARIANTS
    SentencesPronounced
    Shape
    ChoicesPronounced
    ProtocolNeverAborts
    LoopsAgree
PROPERTY
    ImplementsChosenSpans
CHECK_DEADLOCK FALSE
