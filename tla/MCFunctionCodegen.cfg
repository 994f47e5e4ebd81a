CONSTANTS
    Decls <- MCDecls
    Conds <- MCConds
    Vals <- MCVals
INIT Init
NEXT Next
INVARIANTS
    Verdict
    SameReturn
    LazyContinueBlock
    EmitterFaithful
    InstantiatedBeforeUse
    WalkerOnlyMetaTime
    ExportedLocalsPresent
CHECK_DEADLOCK FALSE
