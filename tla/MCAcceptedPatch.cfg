SPECIFICATION Spec
CONSTANTS
  Series = {s1, s2}
  Pools = {p1, p2}
  Kinds = {k1, k2}
  MaxPr = 2
  Orphans = {}
  MaxExpired = 1
  Minute = 1
  Day = 1000
  SeriesLimit = 20
  FreshMin = 5
  FallbackLimit = 10
  MaxChanges = 3
  Conditional <- ConditionalJobs
  MaxCommits = 3
  Slots = {r1, r2}
  MaxInstallations = 2
  Proposable <- ProposableChecks
  Browsers = {b1}
  Contents = {"c1", "c2"}
  Keepalive = 2
  SummaryInterval = 2
  StaleAfter = 4
  BrowserStale = 3
  DayHours = 4
  Lengths <- DayLengths
  DigestHours = {1, 2}
  MaxFaults = 2
  MaxTime = 4
  Chains = {"sweep", "detail"}
  Clients = {c1}
  Paces <- PaceChoices
  LowHot = 2
  LowSweep = 3
  Responses <- GithubResponses
PROPERTY AcceptedPatchBoots
CHECK_DEADLOCK FALSE
