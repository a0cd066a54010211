SPECIFICATION LifeSpec
CONSTANTS
  p1 = p1
  p2 = p2
  p3 = p3
  ra = ra
  rb = rb
  Prs = {p1}
  Repos = {ra}
  Order <- Listed
  RepoOf <- OneRepo
  PageSize = 2
  MaxOpenPages = 2
  MaxMergedPages = 2
  Excludable = {ra}
  CanRestart = TRUE
  Beside = {"detail", "queue"}
PROPERTIES PruneKeepsStamps MergesAreRecorded BoardConverges
