CONSTANTS
  Buses = {b1, b2}
  NoBus = NoBus
  MaxCommands = 3
  MaxTasks = 2
  MaxUnplugs = 1
SPECIFICATION FairSpec
INVARIANTS TablesAgree PublishedCurrent MirroredHaveModes TorqueFollowsTables
PROPERTY FollowersPowered
CHECK_DEADLOCK FALSE
