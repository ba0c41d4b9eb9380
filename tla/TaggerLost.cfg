SPECIFICATION Spec
CONSTANTS
  Proc = {p1}
  DryRun = {}
  File = {f1, f2}
  t1 = t1
  t2 = t2
  t3 = t3
  TagSet = {empty, t1, t2, t3}
  Empty = empty
  None = none
  TagsOf <- VrchatTagsOf
  HasExtract = TRUE
  Rederive = FALSE
  MaxExtractVersion = 1
  MaxDeriveVersion = 1
  MaxRevision = 0
  MaxFaults = 2
  MetadataBatch = 2
  RecordBatch = 2
  PushBatch = 1
  Concurrency = 2
SYMMETRY Symmetry
PROPERTIES
  CleanRunIsCurrent
