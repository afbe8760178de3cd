CONSTANTS
    MayFail <- MCNoGateEnableFail
    DtClockFrequency = {FALSE, TRUE}
    DtDmas = {FALSE, TRUE}
    DtFifoDepths = {32}
    DtDmaTxThresholds = {16}
    BootImrUnmasked = {FALSE, TRUE}
    UintModulus = 65536
SPECIFICATION Spec
INVARIANT NoClkWarn
INVARIANT ClkWarnInv
