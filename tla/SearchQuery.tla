----------------------------- MODULE SearchQuery -----------------------------
(***************************************************************************)
(* A query on its way from the request to SQL: the defaults, the           *)
(* normalisation of names and the allowlist check of Service.Search        *)
(* (internal/search/service.go), then the WHERE and ORDER BY that the      *)
(* SQLite adapter builds (internal/store/sqlite/adapter.go).  Names are    *)
(* looked up at every one of these stages, each time in another table of   *)
(* the schema registry, and each stage rewrites the query for the next.    *)
(***************************************************************************)
EXTENDS FieldContracts, Integers, SequencesExt

CONSTANTS
    Versions,       \* contractVersion of a request, Unset when absent
    IntentsAsked,   \* intentCategory of a request, Unset when absent
    FilterLists,    \* the filters of a request
    SortsAsked      \* sort.field of a request, Unset when absent

\* contract versions and intents that programs know, blank, and one that none knows
ContractVersions == {Unset, "v1", "v2", "v3"}

IntentCategories == Intents \cup {Unset, "unsupported_domain", "unknown"}

\* emptyIn is "in" without a list of values, "regex" any operator not known
Operators == {"eq", "neq", "gte", "like", "in", "emptyIn", "regex"}

Filter == [field : Names, op : Operators]

ASSUME SearchQueryConstants ==
    /\ Versions \subseteq ContractVersions
    /\ IntentsAsked \subseteq IntentCategories
    /\ FilterLists \subseteq Seq(Filter)
    /\ SortsAsked \subseteq Names \cup {Unset}

VARIABLES
    endpoint,       \* "search", or "interpret" for a query made from a message
    resourceType,   \* what is searched
    asked,          \* the query as the client sent it
    query,          \* the query as Search and the adapter see it
    stage,          \* how far it got
    sql,            \* the columns of WHERE, and of ORDER BY
    status          \* of the HTTP response once the query is refused

vars == <<endpoint, resourceType, asked, query, stage, sql, status>>

NoSql == [where |-> <<>>, orderBy |-> Unset]

Query == [version : ContractVersions, intent : IntentCategories,
          filters : Seq(Filter), sort : Names \cup {Unset}]

Columns(r) == {f.column : f \in FieldsOf(r)}

TypeOK ==
    /\ endpoint \in {"search", "interpret"}
    /\ resourceType \in Resources
    /\ asked \in Query /\ query \in Query
    /\ stage \in {"drafting", "clarified"}    \* a message that is no query yet, or never
            \cup {"received", "defaulted", "normalised", "validated", "compiled", "refused"}
    /\ sql.where \in Seq(Columns(resourceType))
    /\ sql.orderBy \in Columns(resourceType) \cup {Unset}
    /\ status \in {"none", "400", "500"}

Init ==
    /\ endpoint = "search"
    /\ resourceType \in Resources
    /\ asked \in [version : Versions, intent : IntentsAsked,
                  filters : FilterLists, sort : SortsAsked]
    /\ query = asked
    /\ stage = "received"
    /\ sql = NoSql
    /\ status = "none"

Goto(from, to) == stage = from /\ stage' = to

Refuse(code) ==
    /\ stage' = "refused"
    /\ status' = code
    /\ UNCHANGED <<endpoint, resourceType, asked, query, sql>>

-----------------------------------------------------------------------------
(* Service.Search *)

Default ==
    /\ Goto("received", "defaulted")
    /\ query' = [query EXCEPT !.version = IF @ = Unset THEN "v2" ELSE @,
                              !.intent  = IF @ = Unset THEN "default" ELSE @]
    /\ UNCHANGED <<endpoint, resourceType, asked, sql, status>>

NormalisedFilters(q) ==
    [i \in DOMAIN q.filters |->
        [q.filters[i] EXCEPT !.field = NormalizeField(resourceType, @)]]

\* mutant: the filters keep the names of the request
NormaliseSortOnly ==
    /\ Goto("defaulted", "normalised")
    /\ query' = IF query.version # "v2" \/ query.sort = Unset THEN query
                ELSE [query EXCEPT !.sort = NormalizeField(resourceType, @)]
    /\ UNCHANGED <<endpoint, resourceType, asked, sql, status>>

\* mutant: the sort field keeps the name of the request
NormaliseFiltersOnly ==
    /\ Goto("defaulted", "normalised")
    /\ query' = IF query.version # "v2" THEN query
                ELSE [query EXCEPT !.filters = NormalisedFilters(query)]
    /\ UNCHANGED <<endpoint, resourceType, asked, sql, status>>

\* version v1 keeps the names as they were spelled
Normalise ==
    /\ Goto("defaulted", "normalised")
    /\ query' = IF query.version # "v2" THEN query
                ELSE [query EXCEPT !.filters = NormalisedFilters(query),
                                   !.sort = IF @ = Unset THEN @ ELSE NormalizeField(resourceType, @)]
    /\ UNCHANGED <<endpoint, resourceType, asked, sql, status>>

\* every name the query mentions
Mentioned(q) ==
    {q.filters[i].field : i \in DOMAIN q.filters}
        \cup (IF q.sort = Unset THEN {} ELSE {q.sort})

Valid(q) == \A name \in Mentioned(q) : ValidateField(resourceType, q.version, q.intent, name)

Validate ==
    /\ Goto("normalised", "validated")
    /\ Valid(query)
    /\ UNCHANGED <<endpoint, resourceType, asked, query, sql, status>>

\* FIELD_NOT_ALLOWED is a 400, an unsupported contract version a 500; the
\* interpret endpoint answers every error of Search with a 500
FieldNotAllowed == IF endpoint = "search" THEN "400" ELSE "500"

RefuseField ==
    /\ stage = "normalised"
    /\ ~Valid(query)
    /\ Refuse(IF query.version \in {"v1", "v2"} THEN FieldNotAllowed ELSE "500")

-----------------------------------------------------------------------------
(* Adapter.Search *)

\* buildWhere returns no error
Expressible(filter) ==
    /\ filter.field \in Filterable(resourceType)
    /\ filter.op \in {"eq", "neq", "gte", "like", "in"}

\* an absent or unsortable field gives way to the default, silently
OrderBy(q) ==
    GetNativeColumn(resourceType, IF q.sort \in Sortable(resourceType) THEN q.sort
                              ELSE DefaultSort(resourceType))

Compile ==
    /\ Goto("validated", "compiled")
    /\ \A i \in DOMAIN query.filters : Expressible(query.filters[i])
    /\ sql' = [where   |-> [i \in DOMAIN query.filters |->
                              NativeColumnForField(query.filters[i].field)],
               orderBy |-> OrderBy(query)]
    /\ UNCHANGED <<endpoint, resourceType, asked, query, status>>

RefuseFilter ==
    /\ stage = "validated"
    /\ \E i \in DOMAIN query.filters : ~Expressible(query.filters[i])
    /\ Refuse("500")

Next == Default \/ Normalise \/ Validate \/ RefuseField \/ Compile \/ RefuseFilter

Spec == Init /\ [][Next]_vars

-----------------------------------------------------------------------------
(* Properties *)

\* the field of the searched resource that a name of the request means
Means(name, f) == f \in FieldsOf(resourceType) /\ Lowered(name) \in {f.name, f.column}

Scopes(f) == f.scopes \cap {"default", IF asked.intent = Unset THEN "default" ELSE asked.intent}

\* Three lookups stand between the name a client sends and the column SQLite
\* filters on (service.go:67, contracts.go:45, adapter.go:185; the last scans
\* all resources): the column is that of the field the name means for the
\* searched resource, and a field the intent of the request may use.
FiltersSayWhatWasAsked ==
    stage = "compiled" /\ asked.version # "v1" =>
        /\ Len(sql.where) = Len(asked.filters)
        /\ \A i \in DOMAIN asked.filters : \E f \in FieldsOf(resourceType) :
             /\ Means(asked.filters[i].field, f)
             /\ sql.where[i] = f.column
             /\ Scopes(f) # {}

\* The allowlist of the contract and the tables of the adapter are separate
\* (service.go:73, adapter.go:182): under version v2 a name is refused, with a
\* 400, only if it means no field that the intent may use, and once the names
\* are accepted the adapter refuses the query for an operator only.
RefusalsAreJustified ==
    stage = "refused" /\ query.version = "v2" =>
        \/ /\ status = FieldNotAllowed
           /\ \E name \in Mentioned(asked) :
                \A f \in FieldsOf(resourceType) : Means(name, f) => Scopes(f) = {}
        \/ /\ status = "500"
           /\ \E i \in DOMAIN asked.filters : asked.filters[i].op \in {"emptyIn", "regex"}

\* An accepted sort field orders the rows if it can; one that cannot, or none,
\* leaves the default order and never an error (adapter.go:44-58).
SortIsHonoured ==
    stage = "compiled" /\ asked.version # "v1" =>
        \/ \E f \in FieldsOf(resourceType) :
             Means(asked.sort, f) /\ f.sortable /\ sql.orderBy = f.column
        \/ /\ \A f \in FieldsOf(resourceType) : Means(asked.sort, f) => ~f.sortable
           /\ sql.orderBy = "created_at"

\* schema/types.go:66, "V1SearchableFields is the legacy set of field alias names
\* allowed under contract v1. These use native/alias names": a v1 query on such
\* names, with operators the adapter knows, is answered, as service_test.go:47
\* expects of a search by status.
V1FieldsAreSearchable ==
    /\ asked.version = "v1"
    /\ Mentioned(asked) \subseteq V1SearchableFields(resourceType)
    /\ \A i \in DOMAIN asked.filters : asked.filters[i].op \notin {"emptyIn", "regex"}
    => stage # "refused"

=============================================================================
