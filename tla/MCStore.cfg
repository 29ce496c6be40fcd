SPECIFICATION MCSpec
CONSTANTS
  p1 = p1  h1 = h1  cdx = cdx  listing = listing  targets = targets  sweep = sweep  items = items
  b1 = b1  b2 = b2  b3 = b3  c1 = c1  c2 = c2  i1 = i1
  Pair = {p1}
  Host = {h1}
  ClassOf <- ClassesOf
  Source = {cdx, listing, targets, sweep, items}
  File = {b1, b2, b3, c1, c2, i1}
  SourceOf <- Sources
  LaneOf <- LanesOf
  MaxRecords = 2
  MaxUnbanks = 1
  MaxKills = 1
  Registrable = {"d"}
  Hostname = {"h"}
  BeneathOf <- Parents
  Batch <- Sent
  Gives <- Naming
  Sender <- Senders
  MaxTakes = 1
  MaxRebuilds = 2
  MaxGraphKills = 1
CHECK_DEADLOCK FALSE
INVARIANTS
  RowsAreSound
  ReadIsStored
  GraphIsSound
PROPERTIES
  RebuildDiscardsNothing
