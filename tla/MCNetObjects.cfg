SPECIFICATION Spec
CONSTANTS
  StringType = 9
  LeafTypes = {2, 9}
  DynamicTargets = {3}
  Graphs <- MCGraphs
INVARIANTS KeysAgree ReadsBack GraphIsPreserved
