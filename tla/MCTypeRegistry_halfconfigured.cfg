SPECIFICATION Spec
CONSTANTS
  t1 = t1
  t2 = t2
  t3 = t3
  base = base
  derived = derived
  message = message
  Threads = {t1, t2}
  Types = {base, derived, message}
  NoType = NoType
  NoSerializer = NoSerializer
  BaseOf <- MCBaseOf
  Assignable <- MCPairs
  Includes <- MCIncludes
  Members <- MCMembers
  Faulty = {message}
  Ops = {"Use"}
  MaxOps = 2
  Timeouts = FALSE
INVARIANT SerializerWaitsForMembers
