CONSTANTS
    NumSlots = 3
    Values = {1, 2}
    Capacity = 2
    MaxDiscrete = 3
SPECIFICATION FairSpec
INVARIANT NoLostWakeup
INVARIANT NewestKept
INVARIANT DiscreteKept
PROPERTY MailboxSpec
CHECK_DEADLOCK FALSE
