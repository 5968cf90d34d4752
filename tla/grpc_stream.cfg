SPECIFICATION FairSpec
CONSTANTS
  Rates = {1, 2, 3, 4}
  Bufs = {1, 2, 3}
  MaxWrite = 4
  MaxBytes = 9
  Window = 2
INVARIANTS InOrder EofComplete StreamInv
PROPERTY StreamEnds
CHECK_DEADLOCK FALSE
