\* Options.MaxRetries is 3 by default: as it is.
CONSTANT MaxRetries = 3
SPECIFICATION FairSpec
INVARIANTS NoEarlyVerdict
PROPERTIES KeepsContract
CHECK_DEADLOCK FALSE
