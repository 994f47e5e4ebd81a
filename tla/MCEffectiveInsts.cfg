CONSTANTS
    CUFuncs <- MCCUFuncs
    UnitFuncs <- MCUnitFuncs
    Metas <- MCMetas
    Insts <- MCInsts
    NoExport = NoExport
    None = None
    Programs <- AcyclicPrograms
    MaxDepth <- MCMaxDepth
SPECIFICATION Spec
INVARIANT EffectiveInstantiationsConsumed
