\* Two processes after each other, three requests of any kind.
SPECIFICATION FairSpec
CONSTANTS
  Jobs = {j1, j2, j3}
  NoJob = NoJob
  Requests = {r1, r2, r3}
  MaxBoots = 2
CHECK_DEADLOCK FALSE
INVARIANTS
  TypeOK
  LeftoverExplained
  OneLeftoverPerProcess
PROPERTIES
  SignalEndsProcess
