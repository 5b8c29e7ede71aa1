SPECIFICATION ComparisonSpec
CONSTANTS
  c1 = c1
  c2 = c2
  c3 = c3
  g1 = g1
  g2 = g2
  chair = chair
  Corpus = {c1, c2, c3}
  Gold = {g1, g2}
  WeakGold = {g1}
  Roster = {chair}
  OffRoster = other
  Unlimited = all
  MaxEvents = 4
  GoldClass <- MCGoldClass
  Glb <- MCGlb
  CensusRank <- MCRank
  SubsetRank <- MCSubsetRank
  Flaky = {c2}
  Limits = {all, 2, 0}
  Cap = 2
  NumViews = 2
  Bucket <- MCBucket
  SampleRank <- MCSampleRank
  Seeds = {1, 2}
  Configs <- MCConfigs
  OldTables <- MCOldTables
  SubsetLists <- MCSubsetLists
  DevLists <- MCDevLists
  MaxRuns = 2
CONSTRAINT OldRunIsAnEvent
INVARIANTS
  ComparisonTypeOK
  ScoresFollowTheRun
  SubsampleIsStable
  VerifiedListsRender
  GoldIsClean
CHECK_DEADLOCK FALSE
