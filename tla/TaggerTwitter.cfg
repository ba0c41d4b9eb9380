SPECIFICATION PowerFairSpec
CONSTANTS
  Proc = {p1}
  DryRun = {}
  File = {f1, f2}
  f1 = f1
  t1 = t1
  t2 = t2
  TagSet = {empty, t1, t2}
  Empty = empty
  None = none
  TagsOf <- TwitterTagsOf
  HasExtract = FALSE
  Rederive = TRUE
  MaxExtractVersion = 1
  MaxDeriveVersion = 1
  MaxRevision = 1
  MaxFaults = 2
  MetadataBatch = 2
  RecordBatch = 2
  PushBatch = 1
  Concurrency = 2
INVARIANTS
  DurableBacked
PROPERTIES
  CleanRunIsCurrent
  Converges
