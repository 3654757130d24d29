SPECIFICATION Spec
CONSTANTS
  Writers = {w1, w2}
  Readers = {r1, r2}
  Values = {a, b}
  Null = Null
  InitialLength = 1
  MaxLength = 5
SYMMETRY MCSymmetry
INVARIANTS ReadersAreSafe KeyIsIndex
PROPERTY ImplementsLog
