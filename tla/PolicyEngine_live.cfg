SPECIFICATION FairSpec
CONSTANTS
    Caller = {c1, c2}
    Tenant = {"tenantA"}
    User = {"alice"}
    Role = {"manager"}
    ResourceId = {"ord1"}
    Wildcard = "*"
    Attr = {"region"}
    Value = {"west", "east"}
    Empty = ""
    MatchResource = "__MATCH_RESOURCE__"
    NoRequest = NoRequest
    NoDecision = NoDecision
    NoEntry = NoEntry
    RoleSets <- StableRoles
    SubjectAttrs <- OneSubject
    Docs <- OneDoc
    TTL = 1
    MaxFill = 1
    EditableAcl <- ManagerAcl
    EditableRules <- NoRows
    SeedAcl <- ManagerAcl
    SeedRules <- NoRows
PROPERTIES OwnGrantsOnly EveryCallReturns
