\* One job with output and with up to two daemon faults, to its end.
SPECIFICATION FairSpec
CONSTANTS
  j1 = j1
  j2 = j2
  Jobs = {j1}
  NoJob = NoJob
  ExitCodes = {0, 1}
  MaxOutputBytes = 1
  MaxOutput = 2
  MaxFailures = 2
CHECK_DEADLOCK FALSE
INVARIANTS
  ResultTruthful
  ReportedIsStopped
  OutputHonest
PROPERTIES
  JobEnds
  StreamerEnds
  ImplementsSlot
