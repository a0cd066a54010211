SPECIFICATION RoutingFairSpec
CONSTANTS
  spot = spot
  shed = shed
  more = more
  Maps = {spot, shed}
  Swallows = TRUE
  Ambiguous = FALSE
  CanRestart = TRUE
PROPERTY KillSwitchConverges
