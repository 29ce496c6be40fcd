SPECIFICATION MCSpec
CONSTANTS
  Release = {release}
  Spent = {spent}
  Backup = {backup}
  Staged = {1, 2}
  Scenes = {{release}, {spent}, {backup}, {1, 2}}
  NoFile = NoFile
  Verifying = Verifying
  MaxWrites = 2
  MaxDrift = 1
  MaxPassKills = 1
  Order <- MCOrder
  Optional = {"late"}
  Lazy = {"late"}
  Stager = {bank}
  MaxSourceEdits = 2
  MaxBytes = 2
  MaxStageKills = 1
  Name = {1, 2, 3, 4, 5}
  ParentOf <- MCParentOf
  CoreNames = {1, 2}
  Extended = {3}
  Items <- MCItems
  MaxItems = 3
  Releases <- MCReleasesOf
  MaxArrivals = 1
  MaxPulls = 1
  MaxRetracts = 1
  MaxShips = 3
  Markers = {"first", "next"}
  NoMarker = "none"
  Archives <- Zips
  MarkerOf <- Marks
  Members <- Listing
  Core = {"1996", "2001"}
  Unsorted = {"2001"}
  MaxIntakes = 3
  MaxKills = 1
  MaxEdits = 1
  Inputs = {"eot", "har"}
  Years = {2002, 2003}
  Refused = {"har"}
  MaxLands = 2
  MaxReleases = 2
  MaxExports = 2
  MaxBuilds = 1
  MaxCuts = 1
  Root = {"d"}
  Leaf <- Leaves
  RootOf <- Roots
  Span = {1, 2}
  Holdings <- Stores
  HisFiles <- HisChoices
  Bars <- Barred
INVARIANTS
  DeletedAsProved
  PriceCitesTheStage
  PriceIsRight
  DeliveryIsWhole
  ReleaseIsHis
  FiguresAreCurrent
  ShippedRebuilds
PROPERTIES
  ShownIsWhole
CHECK_DEADLOCK FALSE
