CONSTANTS
  NoName = NoName
  Programs <- ForwardLocalPrograms
SPECIFICATION Spec
INVARIANT ForwardLocalsResolve
