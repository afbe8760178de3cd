CONSTANTS
    MayFail <- MCAllFail
    DtClockFrequency = {FALSE, TRUE}
    DtDmas = {FALSE, TRUE}
    DtFifoDepths = {32}
    DtDmaTxThresholds = {16}
    BootImrUnmasked = {FALSE, TRUE}
    UintModulus = 65536
SPECIFICATION Spec
PROPERTY LifetimeSpec
