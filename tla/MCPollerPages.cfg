SPECIFICATION PagesSpec
CONSTANTS
  p1 = p1
  p2 = p2
  p3 = p3
  ra = ra
  rb = rb
  Prs = {p1, p2, p3}
  Repos = {ra, rb}
  Order <- Listed
  RepoOf <- OneRepo
  PageSize = 1
  MaxOpenPages = 2
  MaxMergedPages = 2
  Excludable = {ra}
  CanRestart = FALSE
  Beside = {"detail", "queue"}
  MaxSweeps = 2
  MaxDetails = 1
  MaxQueues = 1
  MaxMoves = 2
  MaxToggles = 1
VIEW PagesView
CHECK_DEADLOCK FALSE
PROPERTIES OpenRowsSurvive
