CONSTANTS
  Steps = 8
  Setups <- TheSetups
  Margin = 1
  Deadband = 1
  Leads = {1, 3, 5}
  MaxMoves = 2
  MaxFaults = 1
  MaxQueue = 2
SPECIFICATION FairSpec
INVARIANT GoalsInRange
PROPERTY FollowerStays
PROPERTY OverloadEnds
PROPERTY Arrives
CHECK_DEADLOCK FALSE
