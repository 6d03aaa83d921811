SPECIFICATION FairSpec
CONSTANTS
    Messages <- AllMessages
    Hints = {"", "customer"}
    Versions = {"v1", "v2"}
    Enabled = TRUE
    Counts <- SomeCounts
    StoreFails = TRUE
INVARIANTS TypeOK ReplyCoversThePlan FailsIfAnyLookupFails NoGoroutineIsLeft
PROPERTIES EveryRequestIsAnswered
CHECK_DEADLOCK FALSE
