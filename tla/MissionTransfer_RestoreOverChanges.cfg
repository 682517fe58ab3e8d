SPECIFICATION Spec
CONSTANTS
  PollTimeout = 1
  MavIntvl = 1
  RestartIntvl = 10
  PollList <- Polls
  Worlds <- Edits
  MaxHomes = 1
  MaxApproach = 5
  WpMax = 3
  WpLast = 4
  LenMine = 3
  LenRam = 2
  LenRom = 1
  Overlap = FALSE
  WireMax = 2
  PendMax = 1
PROPERTIES ChangesKept
