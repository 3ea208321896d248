SPECIFICATION Spec
CONSTANTS
    c1 = c1
    c2 = c2
    m1 = m1
    m2 = m2
    AllMethods = AllMethods
    Methods <- MCMethods
    Catalogue <- MCCatalogue
    Callers <- MCCallers
    MaxFaults = 2
INVARIANTS
    TypeOK
    BudgetIsExact
    ChargedForWhatItGot
    LiveFaultsStay
    ClearIsFinal
PROPERTIES
    ImplementsFaultSource
    CancelledCallsEnd
