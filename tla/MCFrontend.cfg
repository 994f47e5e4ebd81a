CONSTANTS
  NoName = NoName
  Programs <- MCPrograms
SPECIFICATION Spec
INVARIANTS ScopeCorrect RedeclarationDiagnosed SuggestionClosest RoundTrip ExportContract
