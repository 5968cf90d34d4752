SPECIFICATION Spec
CONSTANTS
  WordBits = 22
  FieldBits = 8
  Sent <- MCSent
  Rates = {1, 127, 128, 16384}
  Added <- MCAdded
  Foreign <- MCForeign
  Longest = 40
INVARIANTS RoundTrip NewerKept CutNoticed PasteFits Canonical
CHECK_DEADLOCK FALSE
