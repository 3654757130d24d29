SPECIFICATION Spec
CONSTANTS
  StringType = 9
  LeafTypes = {2, 9}
  DynamicTargets = {2, 3}
  Graphs <- MCGraphs
INVARIANTS ReadsBack
