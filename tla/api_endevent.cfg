\* A submission and a log stream of the job it starts.
SPECIFICATION Spec
CONSTANTS
  Jobs = {j1, j2}
  NoJob = NoJob
  Requests = {r1, r2}
  Statuses <- TwoStatuses
CHECK_DEADLOCK FALSE
INVARIANTS
  EndEventKnown
