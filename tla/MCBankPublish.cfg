SPECIFICATION Spec
CONSTANTS
  Lead = {lead1}
  Covered = {}
  OldSource = {}
  Journal = {plain}
  Cdx = {}
  MaxKills = 1
  MaxMarker = 0
  NoStamp = NoStamp
INVARIANT
  PublishedIsGated
