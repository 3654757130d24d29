SPECIFICATION FairSpec
CONSTANTS
  Clients = {c1, c2}
  Standard = {s1, s2, s3}
  Large = {l1, l2}
  NoArray = NoArray
  Zero = Zero
  PoolSize = 2
INVARIANTS Exclusive OwnBytes
PROPERTIES ImplementsLease PoolCallsReturn
