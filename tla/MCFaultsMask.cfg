SPECIFICATION Spec
CONSTANTS
    c1 = c1
    c2 = c2
    m1 = m1
    m2 = m2
    AllMethods = AllMethods
    Methods <- MCOneMethod
    Catalogue <- MCCatalogue
    Callers <- MCOneCaller
    MaxFaults = 2
PROPERTIES SpentDelayMasksNone
