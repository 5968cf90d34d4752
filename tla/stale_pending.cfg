SPECIFICATION FairSpec
CONSTANTS
  Copies = {c1}
  Pastes = {}
  Clears = {}
  Collector = gc
  NoKey = NoKey
  Lease = 2
  TxnCapacity = 2
  BatchLimit = 1
  IoErrors = FALSE
  DiscardMax = 2
  MaxChunks = 2
  MaxRestarts = 1
PROPERTY GarbageCollected
