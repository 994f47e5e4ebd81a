CONSTANTS
    CUFuncs <- MCCUFuncs
    UnitFuncs <- MCUnitFuncs
    Metas <- MCMetas
    Insts <- MCInsts
    NoExport = NoExport
    None = None
    Programs <- MCPrograms
    MaxDepth <- MCMaxDepth
SPECIFICATION Spec
INVARIANTS
    TypeOK
    ReferencesTracked
    NoFailedResolution
PROPERTIES
    Termination
    ImplementsInstantiation
