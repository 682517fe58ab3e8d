SPECIFICATION Spec
CONSTANTS
  PollTimeout = 1
  MavIntvl = 1
  RestartIntvl = 10
  PollList <- Polls
  Worlds <- Transfers
  MaxHomes = 1
  MaxApproach = 5
  WpMax = 3
  WpLast = 4
  LenMine = 3
  LenRam = 2
  LenRom = 1
  Overlap = FALSE
  WireMax = 3
  PendMax = 1
INVARIANTS TypeOK UploadFaithful DownloadFaithful ApproachesFaithful
PROPERTIES PollerResumes CallReturns FailureIsTrue PollsGoOn
