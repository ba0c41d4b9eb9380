SPECIFICATION FairSpec
CONSTANTS
  home = home
  away = away
  h1 = h1
  h2 = h2
  h3 = h3
  Proc = {p1}
  Tagger = {vrchat, twitter}
  Extracting = {vrchat}
  Client = {home, away}
  Service = {s1, s2}
  Id = {1, 2}
  Hash = {h1, h2, h3}
  HashOf <- TwoDatabases
  Empty = empty
  None = none
  MaxTargets = 2
  MaxFaults = 1
INVARIANTS
  OneHydrusIsRight
  RunsGoByTheRecord
  ArtifactsAreOwn
  LedgerKnowsNotWhere
PROPERTIES
  OneServiceArrives
