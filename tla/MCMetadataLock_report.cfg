SPECIFICATION Spec
CONSTANTS
  Threads = {t1, t2, t3}
  MaxDepth = 2
  MaxContention = 2
SYMMETRY MCSymmetry
INVARIANTS LockMatchesRegions ContentionIsReported
