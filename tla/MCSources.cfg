SPECIFICATION MCSpec
CONSTANTS
  Lists = {"acap"}
  Numbers = {1, 2}
  Size = 2
  MaxPlans = 2
  MaxFaults = 2
  MaxKills = 2
  Years = {1995, 1999, 2001, 2002}
  Names = {"a", "b"}
  MaxLines = 3
  LaneHosts = {h}
  Other = other
  MaxFileLines = 4
  MaxFiles = 2
  Host = host
  Www = www
  Parent = parent
  NoRow = NoRow
  MaxRaw = 2
  MaxRuns = 2
  MaxRetractKills = 1
  Page <- Pages
  StampsOf <- Captured
  Anchors <- LinksIn
  PerPage = 2
  AtOnce = 1
  HisNames = {"his"}
  SeedFile = {"b", "his", "s"}
  MaxDownloads = 2
  MaxOutages = 1
  MaxStops = 1
  MaxMarked = 1
  MaxUnbanked = 1
INVARIANTS
  MonthsAreKept
  YearsAreRead
  LanesAreRead
  ErrorsAreRetracted
  ExpansionIsFollowed
PROPERTIES
  PassingStays
CHECK_DEADLOCK FALSE
