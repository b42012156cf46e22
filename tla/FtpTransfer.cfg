CONSTANTS
    Commands = {"PWD"}
    Types = {"LIST", "STOR"}
    Lengths = {0, 1}
    Options <- MCOptions
    NumFds = 5
    MaxBlocks = 1
    MaxConnects = 2
    Wordy = {"USER"}
    Long = {"PWD"}
SPECIFICATION Spec
CHECK_DEADLOCK FALSE
INVARIANT TransferMeansDone

