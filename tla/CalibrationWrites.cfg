SPECIFICATION FairSpec
CONSTANTS
  NumMotors = 2
  Counted = 1
  So101Motors = 2
  Retries = 2
  Midpoints = {0, 3000}
  MaxAcc = 200
  MaxFaults = 2
  MaxMissed = 1
  MaxStale = 1
INVARIANT SuccessMeansWritten
INVARIANT RejectedForAReason
PROPERTY Terminates
CHECK_DEADLOCK FALSE
