SPECIFICATION Spec
CONSTANTS
  Versions <- MCVersions
INVARIANTS ObjectIsMerge CallbacksBracket NothingIsLost
CHECK_DEADLOCK FALSE
