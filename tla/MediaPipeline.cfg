\* A ring of two units, one viewer, one loss or rebuild and one change of the
\* bitrate at any point.
SPECIFICATION FairSpec
CONSTANTS
  Units = {"idr", "delta"}
  Capacity = 2
  NoUnit = NoUnit
  Viewers = {v1}
  Rates = {500, 900}
  MaxFaults = 1
  MaxReloads = 1
INVARIANTS NoRequestLost BitrateFollows
PROPERTY EveryViewerRecovers
