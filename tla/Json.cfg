CONSTANTS
    MaxText <- MCMaxText
    Nested = FALSE
    MaxParses = 2
SPECIFICATION Spec
CHECK_DEADLOCK FALSE
INVARIANTS TypeOK TreeMatches Accepts OneTree FreshStart
