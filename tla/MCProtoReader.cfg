SPECIFICATION FairSpec
CONSTANTS
  Fields = {1, 2}
  Base = 3
  VarintSpace = 3
  FixedLength = 2
  MaxCells = 26
  Messages <- MCMessages
  Following <- MCFollowing
  BufferLength = 4
  Lookahead = 3
INVARIANTS WindowIsStream OnlyOwnBytes ExtensionIsVerbatim
PROPERTIES ImplementsCursor Terminates
