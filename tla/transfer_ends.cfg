SPECIFICATION FairSpec
CONSTANTS
  c1 = c1
  c2 = c2
  Copies = {c1}
  Pastes = {p1}
  None = None
  CopyOpts <- OneCopy
  PasteOpts <- AllPasteOpts
PROPERTY CallsEnd
CHECK_DEADLOCK FALSE
