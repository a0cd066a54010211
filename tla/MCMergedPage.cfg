SPECIFICATION Spec
CONSTANTS
  p1 = p1
  p2 = p2
  p3 = p3
  ra = ra
  rb = rb
  Prs = {p1, p2}
  Repos = {ra}
  Order <- Listed
  RepoOf <- OneRepo
  PageSize = 1
  MaxOpenPages = 3
  MaxMergedPages = 3
  Excludable = {}
  CanRestart = FALSE
  Beside = {}
INVARIANT NoMergeLost
