\* Three builds, two steps: a migration can stop halfway, and an older build can
\* follow a newer one.
CONSTANTS
  Proc = {p1}
  Steps = 2
  Build = {1, 2, 3}
  MaxFaults = 3
SPECIFICATION FairSpec
INVARIANTS VersionTells StepsHaveBackup
PROPERTIES LeavesOthersAlone GetsCurrent
