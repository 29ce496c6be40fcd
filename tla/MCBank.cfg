SPECIFICATION Spec
CONSTANTS
  Lead = {lead1, lead2}
  Covered = {lead1}
  OldSource = {lead2}
  Journal = {cdx}
  Cdx = {cdx}
  MaxKills = 1
  MaxMarker = 0
  NoStamp = NoStamp
INVARIANTS
  PublishedIsGatedUnlessCut
  GateSettles
PROPERTY
  NothingBanksUnderRed
