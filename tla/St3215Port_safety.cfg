CONSTANTS
    MaxMotors = 2
    Grace = 1
    SearchDelay = 1
    SearchGap = 1
    Kinds = {"write", "write_eeprom", "write_id", "reg_write", "action", "reset", "reset_calibration", "freeze_calibration", "sync_write", "other"}
    MaxCommands = 1
    MaxFaults = 1
SPECIFICATION FairSpec
INVARIANT ResultsSettle
INVARIANT RegistersAreScanned
PROPERTY CommandsAnswered
PROPERTY MotorsDiscovered
PROPERTY MotorsDropped
