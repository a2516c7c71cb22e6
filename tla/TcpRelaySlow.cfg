CONSTANTS
  MaxBytes = 2
  Buffer = 2
  Timeouts = {2}
SPECIFICATION Spec
INVARIANTS TimesOutOnlyWhenQuiet
