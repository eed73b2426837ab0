SPECIFICATION FairSpec
CONSTANTS
  q1 = q1
  q2 = q2
  q3 = q3
  create = create
  Requests = {q1, q2}
  Creator = create
  MaxFaults = 1
CHECK_DEADLOCK FALSE
PROPERTY NoEndlessSpinner
