CONSTANTS
    MaxStarts = 2
    Sweeps = 1
    Watchers = {w1}
    Kinds = {"auto", "stop", "reset", "freeze"}
    MaxCommands = 2
    MaxErrors = 1
SPECIFICATION FairSpec
CHECK_DEADLOCK FALSE
INVARIANT CleanIsStoppable
INVARIANT QuietAfterStop
INVARIANT ProgressIsLive
INVARIANT BoundsGoWithPoints
PROPERTY StopHeard
PROPERTY StopEnds
