CONSTANTS
  MaxAddresses = 3
SPECIFICATION FairSpec
INVARIANTS Interleaved NeverIdle ReplyTruthful TypeOK
PROPERTIES GoodAddressWins
