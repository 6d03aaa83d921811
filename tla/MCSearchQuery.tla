--------------------------- MODULE MCSearchQuery ---------------------------
(***************************************************************************)
(* SearchQuery over every name, version and intent, one or two filters.    *)
(***************************************************************************)
EXTENDS SearchQuery

\* one filter on any name, by a known operator
AnyName == {<<[field |-> name, op |-> "eq"]>> : name \in Names}

\* a good filter before one that is bad in some way
TwoFilters ==
    {<<[field |-> "id", op |-> "eq"], [field |-> name, op |-> op]>> :
        name \in {"status", "created_at", "shipment_state", "warehouse"}, op \in Operators}

OneOrTwo == {<<>>} \cup AnyName \cup TwoFilters

=============================================================================
