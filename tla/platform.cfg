SPECIFICATION MCSpec
CONSTANTS
  Bodies = {b1, b2}
  Writers = {w1, w2}
  MaxCrashes = 1
  Clients = {c1, c2}
  Keys = {"k"}
  NoKey = "nokey"
  SourcesOf <- MCSourcesOf
  OwnerOf <- MCOwnerOf
  JobLimit = 1
  PageSize = 2
  LogWriters = {l1, l2}
  Blobs = {"blob"}
  MaxDepth = 2
  MaxJobs = 2
  MaxTries = 2
  MaxEvents = 5
  Files <- MCFiles
  Uploaders = {u1, u2}
  Projects = {"P", "unknown"}
  KnownProjects = {"P"}
  Scans = {"none", "clean", "detects", "breaks"}
  Locators = {"url with secret"}
  MaxFile = 6
  MaxMembers = 3
  MaxRatio = 3
  AllowNested = FALSE
  Sites <- MCSites
  Enabled = TRUE
  AllowHttp = FALSE
  Allowlisting = TRUE
  MaxRedirects = 2
  MaxRows = 2
  MaxOutages = 1
  Requests <- MCRequests
  ApiToken = "good"
  NoToken = "none"
  Configured = Default
  Default = Default
  Admins = {"root"}
  InitialOwners <- MCOwners
  Nobody = "nobody"
  Errors = {"ConcurrencyError"}
  RateCap = 2
  RateWindow = 2
  BodyCap = 3
  MaxClock = 2
INVARIANTS
  SettledIsWhole MarkerMeansWhole RestoredRefsResolve OneJobPerKey StoredOnce WalkMissesOnlyTies
  SourcesAreGuarded ActsWithinLimits
CHECK_DEADLOCK FALSE
