SPECIFICATION FairSpec
CONSTANTS
  Lead = {lead1}
  Covered = {lead1}
  OldSource = {}
  Journal = {plain}
  Cdx = {}
  MaxKills = 1
  MaxMarker = 1
  NoStamp = NoStamp
INVARIANT
  StampedPlainIsFolded
PROPERTY
  BankSettles
