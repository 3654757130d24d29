SPECIFICATION Spec
CONSTANTS
  Fields = {1, 2}
  Base = 2
  VarintSpace = 4
  FixedLength = 2
  MaxCells = 16
  Lengths = {0, 2}
  MaxItems = 3
INVARIANTS FirstMatch BytesReadAgree FramesAreKept
CHECK_DEADLOCK FALSE
