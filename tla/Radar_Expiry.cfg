SPECIFICATION Spec
CONSTANTS
  LateStale = 1
  LateHide = 2
  LateDelete = 3
  InavFactor = 2
  Second = 10
  AlertAltitude = 2
  AlertMinSpeed = 1
  Aircraft <- Ac
  Nodes <- INAV
  Worlds <- OnePair
  ChainMax = 3
PROPERTIES ExpiredTracksGo
