CONSTANTS
    MaxText <- MCMaxDocument
    Nested = TRUE
    MaxParses = 1
SPECIFICATION Spec
CHECK_DEADLOCK FALSE
INVARIANT ObjectIsOpen
