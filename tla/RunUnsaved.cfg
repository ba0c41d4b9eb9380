CONSTANTS
  vrchat = vrchat
  twitter = twitter
  Tagger <- Taggers
  Unknown = unknown
  Service = {k1, k2}
  Name = {n1, n2}
  NoName = NoName
  NoKey = NoKey
  EmptyKey = EmptyKey
  MaxEntries = 3
SPECIFICATION Spec
INVARIANT CancelledIsSaved
CHECK_DEADLOCK FALSE
