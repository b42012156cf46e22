CONSTANTS
    Threads = {t1, t2}
    LOG_BUFFER_LENGTH = 6
    TimeCells = {"d"}
    NameCells = {"F", "l"}
    CellLen <- MCCellLen
    LevelLen = 1
    NoCell = NoCell
    eTop = 3
    Formats <- MCFormats
    MsgLens = {0, 3, 9}
    MaxLines = 3
SYMMETRY MCSymmetry
SPECIFICATION Spec
CHECK_DEADLOCK FALSE
INVARIANTS TypeOK EndsInside AloneIsWhole
