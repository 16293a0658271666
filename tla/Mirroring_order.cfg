CONSTANTS
  Buses = {b1, b2}
  NoBus = NoBus
  MaxCommands = 2
  MaxTasks = 2
  MaxUnplugs = 0
SPECIFICATION Spec
INVARIANT FreedBusesAreLimp
CHECK_DEADLOCK FALSE
