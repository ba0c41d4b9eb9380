SPECIFICATION FairSpec
CONSTANTS
  small = small
  large = large
  Photo = {1, 2, 3, 4, 5, 6, 7, 8}
  Shot <- EightShots
  Size = {small, large}
  Gap <- SkippedHour
  Never = never
  MaxFaults = 2
INVARIANTS
  PassedAreCopied
  OneTornPerFault
PROPERTIES
  Mends
