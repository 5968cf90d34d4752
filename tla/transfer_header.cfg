SPECIFICATION Spec
CONSTANTS
  c1 = c1
  c2 = c2
  Copies = {c1, c2}
  Pastes = {p1}
  None = None
  CopyOpts <- HeadlessOpts
  PasteOpts <- AllPasteOpts
INVARIANT ServerStaysUp
CHECK_DEADLOCK FALSE
