CONSTANTS
    MaxMotors = 1
    Grace = 1
    SearchDelay = 1
    SearchGap = 1
    Kinds = {"reg_write", "action"}
    MaxCommands = 2
    MaxFaults = 0
SPECIFICATION FairSpec
PROPERTY EepromWriteAppears
