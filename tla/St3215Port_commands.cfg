CONSTANTS
    MaxMotors = 1
    Grace = 1
    SearchDelay = 1
    SearchGap = 1
    Kinds = {"reg_write", "action", "reset"}
    MaxCommands = 3
    MaxFaults = 1
SPECIFICATION Spec
INVARIANT FlagHonest
INVARIANT NoCommandLost
INVARIANT CacheCoherent
PROPERTY ServerSpec
