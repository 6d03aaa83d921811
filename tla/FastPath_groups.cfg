SPECIFICATION Spec
CONSTANTS
    Messages <- AllMessages
    Hints = {""}
    Versions = {"v2"}
    Enabled = TRUE
    Counts <- OneCount
    StoreFails = FALSE
INVARIANTS OneGroupPerField
CHECK_DEADLOCK FALSE
