CONSTANTS
    CUFuncs <- MCCUFuncs
    UnitFuncs <- MCUnitFuncs
    Metas <- MCMetas
    Insts <- MCInsts
    NoExport = NoExport
    None = None
    Programs <- CyclicPrograms
    MaxDepth <- MCMaxDepth
SPECIFICATION Spec
INVARIANT NoReentrantInstantiation
