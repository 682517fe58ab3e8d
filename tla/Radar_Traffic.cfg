SPECIFICATION Spec
CONSTANTS
  LateStale = 1
  LateHide = 2
  LateDelete = 3
  InavFactor = 2
  Second = 10
  AlertAltitude = 2
  AlertMinSpeed = 1
  Aircraft <- Ac
  Nodes <- INAV
  Worlds <- Traffic
  ChainMax = 3
INVARIANTS TypeOK MapAgrees 
PROPERTIES OnlyExpiredRemoved OddCachePurges DeviceComesBack
