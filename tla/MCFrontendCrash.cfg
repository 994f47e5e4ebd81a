CONSTANTS
  NoName = NoName
  Programs <- CrashPrograms
SPECIFICATION Spec
INVARIANT NoCrash
