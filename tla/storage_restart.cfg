SPECIFICATION Spec
CONSTANTS
  Copies = {c1, c2}
  Pastes = {p1}
  Clears = {}
  Collector = gc
  NoKey = NoKey
  Lease = 2
  TxnCapacity = 2
  BatchLimit = 1
  IoErrors = TRUE
  DiscardMax = 2
  MaxChunks = 2
  MaxRestarts = 1
SYMMETRY Symmetry
INVARIANTS LatestWhole PasteWhole RunningCopyIntact OneCopyPerVersion
PROPERTY RefinesClipboard
