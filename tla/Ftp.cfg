CONSTANTS
    Commands = {"PWD"}
    Types = {"RETR", "STOR"}
    Lengths = {1, 1017, 1018}
    Options <- MCOptions
    NumFds = 5
    MaxBlocks = 1
    MaxConnects = 2
    Wordy = {"USER"}
    Long = {"PWD"}
SPECIFICATION FairSpec
CHECK_DEADLOCK FALSE
PROPERTY CallsReturn
INVARIANTS TypeOK RepliesMatch LoginHonest CloseHonest OwnDescriptors Linked

