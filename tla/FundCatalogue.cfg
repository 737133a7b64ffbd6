\* One catalogue after the other, one history per refresh.
SPECIFICATION CatalogueSpec
CONSTANTS
    Catalogues <- Sent
    Files <- Written
    HistoryLimit = 1
    Since <- Founded
    LastDay = 2
    None = None
INVARIANT FailureHasCause
PROPERTIES NumbersGoWithCause EveryoneServed
