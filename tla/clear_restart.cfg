SPECIFICATION Spec
CONSTANTS
  Copies = {c1, c2}
  Pastes = {p1}
  Clears = {l1}
  Collector = gc
  NoKey = NoKey
  Lease = 2
  TxnCapacity = 2
  BatchLimit = 1
  IoErrors = FALSE
  DiscardMax = 2
  MaxChunks = 1
  MaxRestarts = 1
SYMMETRY Symmetry
INVARIANT PasteWhole
