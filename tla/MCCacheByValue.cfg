CONSTANTS
    CUFuncs <- MCCUFuncs
    UnitFuncs <- MCUnitFuncs
    Metas <- MCMetas
    Insts <- MCInsts
    NoExport = NoExport
    None = None
    Programs <- SameArgPrograms
    MaxDepth <- MCMaxDepth
SPECIFICATION Spec
INVARIANT CacheByValue
