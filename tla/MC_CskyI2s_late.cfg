CONSTANTS
    Rates <- MCRates
    PhysWidths = {16, 32}
    Channels = {2}
    MclkFreqs <- MCMclkFreqs
    ClkFs48k = 24576000
    ClkFs44k = 22579200
    BootSrcClks <- MCBootSrcClks
    DtSclkFsDividers = {0, 32}
    ClkSetRateMayFail = TRUE
    HdmiBuilt = TRUE
    LateSetters = TRUE
SPECIFICATION Spec
INVARIANT CachedRatiosConsistent
