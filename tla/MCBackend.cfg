SPECIFICATION BackendSpec
CONSTANTS
  c1 = c1
  c2 = c2
  Callers = {c1, c2}
  MaxToken = 4
  spot = spot
  shed = shed
  more = more
  Maps = {spot, shed, more}
  Swallows = TRUE
  Ambiguous = FALSE
  CanRestart = TRUE
INVARIANTS NobodyAwaitsTheDead RetryIsFresh NewestIsCached HashIsLive
PROPERTIES RejectedTokensGo PlanConverges
