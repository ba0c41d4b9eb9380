\* Two services, so that the choice may be ambiguous, or change while taggers run.
CONSTANTS
  vrchat = vrchat
  twitter = twitter
  Tagger <- Taggers
  Unknown = unknown
  Service = {k1, k2}
  Name = {n1, n2}
  NoName = NoName
  NoKey = NoKey
  EmptyKey = EmptyKey
  MaxEntries = 3
SPECIFICATION Spec
INVARIANTS PreflightFirst DryRunLeavesNoTrace ExitTells OthersStillRun
PROPERTIES OnePushTarget ClearChoiceIsTaken
CHECK_DEADLOCK FALSE
