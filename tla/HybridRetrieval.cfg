SPECIFICATION Spec
CONSTANTS
    Orders <- SomeOrders
    Customers <- SomeCustomers
    IndexVersions = {"v2", "v3"}
    TenantOf <- Owner
    KnownBy <- Known
    TextOf <- Text
    Messages <- Sayings
    DefaultTenant = "tenant-a"
    RowsPerGroup = 2
    RowsPerWord = 2
    TopKLexical = 3
    TopKVector = 2
    TopK = 2
    FusionCap = 3
    Scale = 60
INVARIANTS TypeOK IndexIsWhole VersionsAgree
INVARIANTS CandidatesMatch BetterComesFirst NamedDocumentLeads DegradedIsTold
