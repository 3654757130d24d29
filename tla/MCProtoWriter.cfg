SPECIFICATION Spec
CONSTANTS
  Fields = {1}
  Base = 2
  VarintSpace = 3
  FixedLength = 2
  MaxCells = 8
  Objects = {o1}
  NoObject = NoObject
  BufferLength = 3
  ItemSpace = 2
  CopySpace = 2
  RecursionCheckDepth = 1
  MaxDepth = 3
INVARIANTS BufferAccounts RoomIsKept RecursionStackMatches ClosedIsComplete
PROPERTY ImplementsStream
