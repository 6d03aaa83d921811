SPECIFICATION Spec
CONSTANTS
    Versions = {"v1"}
    IntentsAsked = {""}
    FilterLists <- AnyName
    SortsAsked = {"", "created_at"}
INVARIANTS V1FieldsAreSearchable
CHECK_DEADLOCK FALSE
