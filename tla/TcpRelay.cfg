CONSTANTS
  MaxBytes = 3
  Buffer = 2
  Timeouts = {0, 2}
SPECIFICATION FairSpec
INVARIANTS HalfCloseKeepsData DeadlineSound TypeOK
PROPERTIES IdleEnds HalfClosePropagates
