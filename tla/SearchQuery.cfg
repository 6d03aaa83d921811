SPECIFICATION FairSpecAll
CONSTANTS
    Versions = {"", "v1", "v2", "v3"}
    IntentsAsked = {"", "default", "wismo", "crm_profile", "returns_refunds", "unsupported_domain"}
    FilterLists <- OneOrTwo
    SortsAsked = {"", "created_at", "payment_state", "tier", "ORDER_STATE"}
    Texts <- Conversations
    Hints = {"", "customer"}
    Overrides = {"", "rule-slm", "intent-ollama-llama", "rewrite-intent-routed", "superlinked",
                 "superlinked-mock"}
    ModelAnswers <- Readings
    Values = {"Shipped", "Paid", "silver", "Requested", "open"}
    GatewayAnswers <- Payloads
    Deployments <- BothModes
    TopK = 2
    PostCap = 1
INVARIANTS TypeOK FiltersSayWhatWasAsked RefusalsAreJustified SortIsHonoured
INVARIANTS NotShippedIsHonoured ConflictsAreClarified VettedQueriesPass CandidatesNarrowAlone
PROPERTIES EveryMessageIsAnswered
CHECK_DEADLOCK FALSE
