CONSTANTS
    Decls <- MiscompiledDecls
    Conds <- MCConds
    Vals <- MCVals
INIT Init
NEXT Next
INVARIANT CompiledAsWritten
CHECK_DEADLOCK FALSE
