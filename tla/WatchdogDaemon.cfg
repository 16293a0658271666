CONSTANTS
  Feed = 3
  Check = 5
  Window = 9
  Retry = 2
  Hard = 3
  Grace = 1
  Limit = 8
  MaxFaults = 2
  MaxMisreads = 1
SPECIFICATION FairSpec
INVARIANT NoSpuriousReset
INVARIANT WindowNotOverlooked
PROPERTY NoEarlyReset
PROPERTY GivenUpResets
PROPERTY OutageResets
CHECK_DEADLOCK FALSE
