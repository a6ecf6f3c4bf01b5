\* Three concurrent requests of any kind and the jobs they submit.
SPECIFICATION FairSpec
CONSTANTS
  Jobs = {j1, j2, j3}
  NoJob = NoJob
  Requests = {r1, r2, r3}
  Statuses <- TwoStatuses
CHECK_DEADLOCK FALSE
INVARIANTS
  TypeOK
  AcceptedJobsAreExclusive
  AnswersBelongToTheJob
  BusyNamesAJob
PROPERTIES
  EveryRequestEnds
