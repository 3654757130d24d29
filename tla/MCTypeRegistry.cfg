SPECIFICATION Spec
CONSTANTS
  t1 = t1
  t2 = t2
  t3 = t3
  base = base
  derived = derived
  message = message
  Threads = {t1, t2, t3}
  Types = {base, derived, message}
  NoType = NoType
  NoSerializer = NoSerializer
  BaseOf <- MCBaseOf
  Assignable <- MCPairs
  Includes <- MCIncludes
  Members <- MCMembers
  Faulty = {base, message}
  Ops = {"Use", "AddField", "Freeze", "Compile"}
  MaxOps = 1
  Timeouts = TRUE
SYMMETRY MCSymmetry
INVARIANTS TypeOK NoDuplicates PendingIsOwned SerializerComplete KeyStable SerializerIsCurrent SerializerIsFrozen
PROPERTY OnlyMisuseThrows
