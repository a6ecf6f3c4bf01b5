\* One job for each case: time, images, commands, output and invalid requests.
SPECIFICATION Spec
CONSTANTS
  Half = 8
  Second = 3
  DefaultSeconds = 1
  MaxSeconds = 2
  PullSeconds = 1
  OutputBytes = 3
  DefaultCPU = 1
  DefaultMemoryMB = 2
  BytesPerMB = 2
  Limit <- Limits
  Capitals = {"A", "B"}
  Digits = {"1"}
  Lower <- LowerCase
  Placeholder <- Stars
  Cases <- SmallCases
  RuntimePull = 3
  StopTime = 2
  KillTime = 1
  LogsTime = 1
  RemoveTime = 2
CHECK_DEADLOCK FALSE
INVARIANTS
  TypeOK
  WhitelistDecides
  CommandReachesContainer
  TimeoutWithinMaximum
  EndsInTime
  DurationWithinTimeout
  CrashStillCleansUp
  NoSecretSurvives
  OnlyFragmentsLeft
  OtherOutputKept
  GrowthBounded
