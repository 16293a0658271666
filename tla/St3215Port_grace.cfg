CONSTANTS
    MaxMotors = 2
    Grace = 1
    SearchDelay = 1
    SearchGap = 1
    Kinds = {"write"}
    MaxCommands = 1
    MaxFaults = 2
SPECIFICATION Spec
PROPERTY EvictedOnlyAfterConsecutiveFailures
