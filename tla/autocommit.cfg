SPECIFICATION Spec
CONSTANTS
  Copies = {c1, c2}
  Pastes = {p1}
  Clears = {}
  Collector = gc
  NoKey = NoKey
  Lease = 2
  TxnCapacity = 1
  BatchLimit = 3
  IoErrors = FALSE
  DiscardMax = 2
  MaxChunks = 2
  MaxRestarts = 0
SYMMETRY Symmetry
INVARIANT PasteWhole
