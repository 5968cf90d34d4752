SPECIFICATION FairSpec
CONSTANTS
  Copies = {c1, c2}
  Pastes = {}
  Clears = {l1}
  Collector = gc
  NoKey = NoKey
  Lease = 2
  TxnCapacity = 2
  BatchLimit = 1
  IoErrors = FALSE
  DiscardMax = 3
  MaxChunks = 2
  MaxRestarts = 0
INVARIANTS TypeOK LocksReleased RunningCopyIntact Inductive
PROPERTIES GarbageCollected ClearCompletes
