SPECIFICATION Spec
CONSTANTS
  MaxRtcSessions = 2
  MaxOffers = 3
  MaxRestarts = 1
  MaxDecoded = 1
  MaxLogged = 6
  LogCapacity = 4
  LogLimit = 3
  LogRoom = 2
  MaxWindows = 3
  MaxPerWindow = 1
  MediaRecent = 1
  RrRecent = 3
INVARIANTS CountsAddUp OwnContext StatusIsTrue
