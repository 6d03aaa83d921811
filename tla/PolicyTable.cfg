SPECIFICATION Spec
CONSTANTS
    Tenant = {tenantA, tenantB}
    HomeTenant = tenantA
    ResourceId = {ord1, ord2}
    Wildcard = star
    Attr = {region}
    Value = {west, east}
    Empty = empty
    MatchResource = matchResource
    MaxRows = 2
INVARIANTS TypeOK RowOrderIsIrrelevant DenyPrecedence AbsenceOpensOnlyIfAsked
PROPERTIES GrantNeverRevokes
