SPECIFICATION Spec
CONSTANTS
  PollTimeout = 1
  MavIntvl = 1
  RestartIntvl = 3
  Worlds <- OneFrame
  IdentLimit = 2
  MaxHomes = 2
  MaxGz = 2
  AutoSafehomes = TRUE
  AutoGeozones = TRUE
  ArmedMspPlacebo = FALSE
  LateReplies = FALSE
  WireMax = 2
  PendMax = 1
  OpenMax = 1
PROPERTIES TelemetryGivesWay
