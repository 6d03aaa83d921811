-------------------------- MODULE SearchQueryProofs --------------------------
(***************************************************************************)
(* Proofs about what the two endpoints do with a query.                    *)
(*                                                                         *)
(* First SearchQuery: names of the request, and what became of them in     *)
(* SQL.  Every stage keeps its query as a function of the one that was     *)
(* asked (StageByStage), and what a name means does not depend on how      *)
(* often it was normalised.                                                *)
(*                                                                         *)
(* Then SemanticSearch, from a message to such a query: what the framer    *)
(* writes and what a rewriting keeps, what the guardrails, the router, the *)
(* gateway and the merge make of an analysis, and last the way of a        *)
(* message through them (PipelineInv).                                     *)
(*                                                                         *)
(* Unset is left unexpanded wherever SMT is to answer.                     *)
(***************************************************************************)
EXTENDS SemanticSearch, SequenceLemmas

-----------------------------------------------------------------------------
(* The field tables *)

Spells(name, f) == name \in {f.name, f.column}

\* no spelling stands for two fields of one resource, and none is the one that
\* is lowered
LEMMA OrderSpelling ==
    /\ \A f, g \in OrderFields : {f.name, f.column} \cap {g.name, g.column} # {} => f = g
    /\ \A f \in OrderFields : f.name # "ORDER_STATE" /\ f.column # "ORDER_STATE"
BY SMTT(60) DEF OrderFields, Field

LEMMA CustomerSpelling ==
    /\ \A f, g \in CustomerFields : {f.name, f.column} \cap {g.name, g.column} # {} => f = g
    /\ \A f \in CustomerFields : f.name # "ORDER_STATE" /\ f.column # "ORDER_STATE"
BY SMTT(60) DEF CustomerFields, Field

\* nor does a canonical name stand for fields of both
LEMMA ResourcesApart == \A f \in OrderFields, g \in CustomerFields : f.name # g.name
BY SMTT(60) DEF OrderFields, CustomerFields, Field

LEMMA OneMeaning ==
    ASSUME NEW r, NEW f \in FieldsOf(r), NEW g \in FieldsOf(r), NEW name,
           Spells(name, f), Spells(name, g)
    PROVE  f = g
<1>1. CASE r = "order"
    BY <1>1, OrderSpelling DEF FieldsOf, Spells
<1>2. CASE r # "order"
    BY <1>2, CustomerSpelling DEF FieldsOf, Spells
<1> QED BY <1>1, <1>2

\* a spelling of a field is lowered to itself
LEMMA LoweredSpelling ==
    ASSUME NEW r, NEW f \in FieldsOf(r), NEW name, Spells(name, f)
    PROVE  Lowered(name) = name
<1>1. CASE r = "order"
    BY <1>1, OrderSpelling DEF FieldsOf, Spells, Lowered
<1>2. CASE r # "order"
    BY <1>2, CustomerSpelling DEF FieldsOf, Spells, Lowered
<1> QED BY <1>1, <1>2

\* the column the adapter takes, from either table, is that of the field
LEMMA ColumnOf ==
    ASSUME NEW r, NEW f \in FieldsOf(r)
    PROVE  NativeColumnForField(f.name) = f.column /\ GetNativeColumn(r, f.name) = f.column
<1>1. f \in AllFields
    BY DEF FieldsOf, AllFields
<1>2. \A g \in AllFields : g.name = f.name => g = f
    BY OrderSpelling, CustomerSpelling, ResourcesApart DEF FieldsOf, AllFields
<1>3. \A g \in FieldsOf(r) : g.name = f.name => g = f
    BY OneMeaning DEF Spells
<1>4. (CHOOSE g \in AllFields : g.name = f.name) = f
    BY <1>1, <1>2
<1>5. (CHOOSE g \in FieldsOf(r) : g.name = f.name) = f
    BY <1>3
<1> QED BY <1>4, <1>5 DEF NativeColumnForField, GetNativeColumn

LEMMA DefaultSortIsSortable ==
    ASSUME NEW r
    PROVE  \E f \in FieldsOf(r) : f.name = DefaultSort(r) /\ f.column = "created_at" /\ f.sortable
<1> DEFINE d == Field(DefaultSort(r), "created_at", TRUE,
                      IF r = "order" THEN Intents ELSE {"crm_profile"})
<1>1. d \in FieldsOf(r)
    BY SMTT(60) DEF FieldsOf, OrderFields, CustomerFields, Field, DefaultSort
<1>2. d.name = DefaultSort(r) /\ d.column = "created_at" /\ d.sortable
    BY DEF Field
<1> QED BY <1>1, <1>2

-----------------------------------------------------------------------------
(* Normalisation *)

LEMMA Resolved ==
    ASSUME NEW r, NEW name, NEW f \in FieldsOf(r), Spells(Lowered(name), f)
    PROVE  NormalizeField(r, name) = f.name
<1>1. \A g \in FieldsOf(r) : Lowered(name) \in {g.name, g.column} => g = f
    BY OneMeaning DEF Spells
<1>2. (CHOOSE g \in FieldsOf(r) : Lowered(name) \in {g.name, g.column}) = f
    BY <1>1 DEF Spells
<1> QED BY <1>2 DEF NormalizeField, Spells

LEMMA Unresolved ==
    ASSUME NEW r, NEW name, \A f \in FieldsOf(r) : ~Spells(Lowered(name), f)
    PROVE  NormalizeField(r, name) = Lowered(name)
BY DEF NormalizeField, Spells

\* what a normalised name spells, the name it was made from spells
LEMMA MeaningKept ==
    ASSUME NEW r, NEW name, NEW f \in FieldsOf(r)
    PROVE  Spells(Lowered(NormalizeField(r, name)), f) <=> Spells(Lowered(name), f)
<1>1. CASE \E g \in FieldsOf(r) : Spells(Lowered(name), g)
    <2>1. PICK g \in FieldsOf(r) : Spells(Lowered(name), g)
        BY <1>1
    <2>2. NormalizeField(r, name) = g.name
        BY <2>1, Resolved
    <2>3. Spells(g.name, g)
        BY DEF Spells
    <2>4. Lowered(g.name) = g.name
        BY <2>3, LoweredSpelling
    <2> QED BY <2>1, <2>2, <2>3, <2>4, OneMeaning
<1>2. CASE \A g \in FieldsOf(r) : ~Spells(Lowered(name), g)
    <2>1. NormalizeField(r, name) = Lowered(name)
        BY <1>2, Unresolved
    <2>2. Lowered(Lowered(name)) = Lowered(name)
        BY DEF Lowered
    <2> QED BY <2>1, <2>2
<1> QED BY <1>1, <1>2

LEMMA NormalIsNormal ==
    ASSUME NEW r, NEW name
    PROVE  NormalizeField(r, NormalizeField(r, name)) = NormalizeField(r, name)
<1>1. CASE \E g \in FieldsOf(r) : Spells(Lowered(name), g)
    <2>1. PICK g \in FieldsOf(r) : Spells(Lowered(name), g)
        BY <1>1
    <2>2. NormalizeField(r, name) = g.name
        BY <2>1, Resolved
    <2>3. Spells(Lowered(NormalizeField(r, name)), g)
        BY <2>1, MeaningKept
    <2>4. NormalizeField(r, NormalizeField(r, name)) = g.name
        BY <2>3, Resolved
    <2> QED BY <2>2, <2>4, Zenon
<1>2. CASE \A g \in FieldsOf(r) : ~Spells(Lowered(name), g)
    <2>1. NormalizeField(r, name) = Lowered(name)
        BY <1>2, Unresolved
    <2>2. Lowered(Lowered(name)) = Lowered(name)
        BY DEF Lowered
    <2>3. NormalizeField(r, Lowered(name)) = Lowered(Lowered(name))
        BY <1>2, <2>2, Unresolved
    <2> QED BY <2>1, <2>2, <2>3
<1> QED BY <1>1, <1>2

\* the names of a query are a closed set
LEMMA LoweredNames == \A name \in Names : Lowered(name) \in Names
<1> DEFINE state == Field("order.state", "order_state", TRUE, Support)
<1>1. state \in OrderFields
    BY DEF OrderFields
<1>2. state.column = "order_state"
    BY DEF Field
<1> QED BY <1>1, <1>2 DEF Names, AllFields, Lowered

LEMMA NormalNames ==
    ASSUME NEW r, NEW name \in Names
    PROVE  NormalizeField(r, name) \in Names
<1>1. CASE \E g \in FieldsOf(r) : Spells(Lowered(name), g)
    BY <1>1, Resolved DEF Names, AllFields, FieldsOf
<1>2. CASE \A g \in FieldsOf(r) : ~Spells(Lowered(name), g)
    BY <1>2, Unresolved, LoweredNames
<1> QED BY <1>1, <1>2

\* the zero value of a string is none of the names
Spellings ==
    {"order.id", "id", "order.number", "order_number", "order.customer_id", "customer_id",
     "order.customer_email", "customer_email", "order.state", "order_state",
     "order.created_at", "created_at", "order.completed_at", "completed_at",
     "order.total_cent_amount", "total_cent_amount", "order.currency_code", "currency_code",
     "shipment.state", "shipment_state", "shipment.tracking_id", "tracking_id",
     "payment.state", "payment_state", "payment.reference", "payment_reference",
     "return.eligible", "return_eligible", "return.status", "return_status",
     "refund.status", "refund_status", "order.legacy_status", "status",
     "order.legacy_total_amount", "total_amount", "order.region", "region",
     "customer.id", "customer.number", "customer_number", "customer.email", "email",
     "customer.first_name", "first_name", "customer.last_name", "last_name",
     "customer.is_email_verified", "is_email_verified", "customer.created_at",
     "customer.group", "customer_group", "customer.vip_tier", "vip_tier",
     "customer.legacy_name", "name", "customer.legacy_tier", "tier", "customer.region"}

LEMMA UnsetIsNoName ==
    ASSUME NEW r, NEW f \in FieldsOf(r)
    PROVE  ~Spells(Lowered(Unset), f) /\ Lowered(Unset) = Unset
<1>1. Unset \notin Spellings
    BY Zenon DEF Unset, Spellings
<1>2. Unset # "ORDER_STATE"
    BY Zenon DEF Unset
<1>3. \A g \in OrderFields : g.name \in Spellings /\ g.column \in Spellings
    BY SMTT(60) DEF OrderFields, Field, Spellings
<1>4. \A g \in CustomerFields : g.name \in Spellings /\ g.column \in Spellings
    BY SMTT(60) DEF CustomerFields, Field, Spellings
<1>5. f.name \in Spellings /\ f.column \in Spellings
    BY <1>3, <1>4 DEF FieldsOf
<1> QED BY <1>1, <1>2, <1>5 DEF Spells, Lowered

-----------------------------------------------------------------------------
(* The query of every stage *)

Defaulted(q) ==
    [q EXCEPT !.version = IF @ = Unset THEN "v2" ELSE @,
              !.intent  = IF @ = Unset THEN "default" ELSE @]

Normal(q) ==
    IF q.version # "v2" THEN q
    ELSE [q EXCEPT !.filters = NormalisedFilters(q),
                   !.sort = IF @ = Unset THEN @ ELSE NormalizeField(resourceType, @)]

AllExpressible == \A i \in DOMAIN query.filters : Expressible(query.filters[i])

Statement ==
    [where   |-> [i \in DOMAIN query.filters |-> NativeColumnForField(query.filters[i].field)],
     orderBy |-> OrderBy(query)]

\* what is known of the query, and of the outcome, at every stage
StageByStage ==
    /\ stage = "received" => query = asked
    /\ stage = "defaulted" => query = Defaulted(asked)
    /\ stage \in {"normalised", "validated", "compiled", "refused"} =>
          query = Normal(Defaulted(asked))
    /\ stage \in {"validated", "compiled"} => Valid(query)
    /\ stage = "compiled" => AllExpressible /\ sql = Statement
    /\ stage = "refused" =>
          \/ ~Valid(query) /\ (query.version = "v2" => status = FieldNotAllowed)
          \/ Valid(query) /\ ~AllExpressible /\ status = "500"

IInv == TypeOK /\ StageByStage

-----------------------------------------------------------------------------
(* Typing *)

LEMMA DefaultedType ==
    ASSUME NEW q \in Query
    PROVE  Defaulted(q) \in Query
BY DEF Query, Defaulted, ContractVersions, IntentCategories, Intents

LEMMA NormalType ==
    ASSUME NEW q \in Query
    PROVE  Normal(q) \in Query
<1>1. \A i \in DOMAIN q.filters : q.filters[i] \in Filter
    BY DEF Query
<1>2. \A i \in DOMAIN q.filters :
        [q.filters[i] EXCEPT !.field = NormalizeField(resourceType, @)] \in Filter
    BY <1>1, NormalNames DEF Filter
<1>3. NormalisedFilters(q) \in Seq(Filter)
    BY <1>2 DEF NormalisedFilters, Query
<1>4. q.sort # Unset => NormalizeField(resourceType, q.sort) \in Names
    BY NormalNames DEF Query
<1> QED BY <1>3, <1>4 DEF Normal, Query

LEMMA OrderByType == OrderBy(query) \in Columns(resourceType)
<1>1. \A f \in FieldsOf(resourceType) : GetNativeColumn(resourceType, f.name) \in Columns(resourceType)
    BY ColumnOf DEF Columns
<1> QED BY <1>1, DefaultSortIsSortable DEF OrderBy, Sortable

LEMMA StatementType ==
    ASSUME query \in Query, AllExpressible
    PROVE  /\ Statement.where \in Seq(Columns(resourceType))
           /\ Statement.orderBy \in Columns(resourceType)
<1>1. \A i \in DOMAIN query.filters :
        NativeColumnForField(query.filters[i].field) \in Columns(resourceType)
    BY ColumnOf DEF AllExpressible, Expressible, Filterable, Columns
<1>2. query.filters \in Seq(Filter)
    BY DEF Query
<1>3. [i \in DOMAIN query.filters |-> NativeColumnForField(query.filters[i].field)]
          \in Seq(Columns(resourceType))
    BY <1>1, <1>2
<1> QED BY <1>3, OrderByType DEF Statement

-----------------------------------------------------------------------------
(* The invariant is inductive *)

LEMMA Start == Init => IInv
<1> SUFFICES ASSUME Init PROVE IInv
    OBVIOUS
<1>1. asked \in Query
    BY SearchQueryConstants DEF Init, Query
<1>2. TypeOK
    BY <1>1 DEF Init, TypeOK, NoSql
<1>3. StageByStage
    BY DEF Init, StageByStage
<1> QED BY <1>2, <1>3 DEF IInv

LEMMA Step == IInv /\ [Next]_vars => IInv'
<1> SUFFICES ASSUME IInv, [Next]_vars PROVE IInv'
    OBVIOUS
<1> USE DEF IInv
<1>1. CASE Default
    <2>1. query' = Defaulted(query) /\ query = asked
        BY <1>1 DEF Default, Goto, StageByStage, Defaulted
    <2>2. query' \in Query
        BY <2>1, DefaultedType DEF TypeOK
    <2>3. TypeOK'
        BY <1>1, <2>2 DEF Default, Goto, TypeOK, Columns
    <2>4. StageByStage'
        BY <1>1, <2>1 DEF Default, Goto, StageByStage
    <2> QED BY <2>3, <2>4
<1>2. CASE Normalise
    <2>1. query' = Normal(query) /\ query = Defaulted(asked)
        BY <1>2 DEF Normalise, Goto, StageByStage, Normal
    <2>2. query' \in Query
        BY <2>1, NormalType DEF TypeOK
    <2>3. TypeOK'
        BY <1>2, <2>2 DEF Normalise, Goto, TypeOK, Columns
    <2>4. query' = Normal(Defaulted(asked))'
        BY <1>2, <2>1 DEF Normalise, Normal, NormalisedFilters, Defaulted
    <2>5. StageByStage'
        BY <1>2, <2>4 DEF Normalise, Goto, StageByStage
    <2> QED BY <2>3, <2>5
<1>3. CASE Validate
    <2>1. TypeOK'
        BY <1>3 DEF Validate, Goto, TypeOK, Columns
    <2>2. query' = Normal(Defaulted(asked))' /\ Valid(query)'
        BY <1>3 DEF Validate, Goto, StageByStage, Normal, NormalisedFilters, Defaulted, Valid, Mentioned
    <2>3. StageByStage'
        BY <1>3, <2>2 DEF Validate, Goto, StageByStage
    <2> QED BY <2>1, <2>3
<1>4. CASE RefuseField
    <2>1. TypeOK'
        BY <1>4 DEF RefuseField, Refuse, FieldNotAllowed, TypeOK, Columns
    <2>2. query' = Normal(Defaulted(asked))' /\ ~Valid(query)'
        BY <1>4 DEF RefuseField, Refuse, StageByStage, Normal, NormalisedFilters, Defaulted, Valid, Mentioned
    <2>3. query'.version = "v2" => status' = FieldNotAllowed'
        BY <1>4 DEF RefuseField, Refuse, FieldNotAllowed
    <2>4. StageByStage'
        BY <1>4, <2>2, <2>3 DEF RefuseField, Refuse, StageByStage
    <2> QED BY <2>1, <2>4
<1>5. CASE Compile
    <2>1. AllExpressible /\ sql' = Statement
        BY <1>5 DEF Compile, AllExpressible, Statement
    <2>2. sql'.where \in Seq(Columns(resourceType)) /\ sql'.orderBy \in Columns(resourceType)
        BY <2>1, StatementType DEF TypeOK
    <2>3. TypeOK'
        BY <1>5, <2>2 DEF Compile, Goto, TypeOK, Columns
    <2>4. query' = Normal(Defaulted(asked))' /\ Valid(query)'
        BY <1>5 DEF Compile, Goto, StageByStage, Normal, NormalisedFilters, Defaulted, Valid, Mentioned
    <2>5. AllExpressible' /\ Statement' = Statement
        BY <1>5, <2>1 DEF Compile, AllExpressible, Expressible, Statement, OrderBy
    <2>6. StageByStage'
        BY <1>5, <2>1, <2>4, <2>5 DEF Compile, Goto, StageByStage
    <2> QED BY <2>3, <2>6
<1>6. CASE RefuseFilter
    <2>1. TypeOK'
        BY <1>6 DEF RefuseFilter, Refuse, TypeOK, Columns
    <2>2. query' = Normal(Defaulted(asked))' /\ Valid(query)'
        BY <1>6 DEF RefuseFilter, Refuse, StageByStage, Normal, NormalisedFilters, Defaulted, Valid, Mentioned
    <2>3. ~AllExpressible'
        BY <1>6 DEF RefuseFilter, Refuse, AllExpressible, Expressible
    <2>4. StageByStage'
        BY <1>6, <2>2, <2>3 DEF RefuseFilter, Refuse, StageByStage
    <2> QED BY <2>1, <2>4
<1>7. CASE UNCHANGED vars
    <2>1. TypeOK'
        BY <1>7 DEF vars, TypeOK, Columns
    <2>2. StageByStage'
        BY <1>7 DEF vars, StageByStage, Normal, NormalisedFilters, Defaulted, Valid, Mentioned,
                    AllExpressible, Expressible, Statement, OrderBy, FieldNotAllowed
    <2> QED BY <2>1, <2>2
<1> QED BY <1>1, <1>2, <1>3, <1>4, <1>5, <1>6, <1>7 DEF Next

LEMMA Invariant == Spec => []IInv
BY Start, Step, PTL DEF Spec

\* Whatever is asked, of whichever resource: the query keeps its shape through
\* the rewriting, and only columns of the searched resource reach the statement.
THEOREM TypeCorrect == Spec => []TypeOK
<1>1. IInv => TypeOK
    BY DEF IInv
<1> QED BY <1>1, Invariant, PTL

-----------------------------------------------------------------------------
(* What the stages made of the names *)

Intent == IF asked.intent = Unset THEN "default" ELSE asked.intent

Renamed ==
    /\ Len(query.filters) = Len(asked.filters)
    /\ DOMAIN query.filters = DOMAIN asked.filters
    /\ \A i \in DOMAIN asked.filters :
          /\ query.filters[i].op = asked.filters[i].op
          /\ query.filters[i].field = NormalizeField(resourceType, asked.filters[i].field)
    /\ query.sort = IF asked.sort = Unset THEN Unset
                    ELSE NormalizeField(resourceType, asked.sort)
    /\ query.intent = Intent

LEMMA Renaming ==
    ASSUME asked \in Query, query = Normal(Defaulted(asked)), query.version = "v2"
    PROVE  Renamed
<1> DEFINE q == Defaulted(asked)
<1>1. /\ q.filters = asked.filters /\ q.sort = asked.sort /\ q.intent = Intent
      /\ q.version = query.version
    BY DEF Defaulted, Query, Normal, Intent
<1>2. q \in Query
    BY DefaultedType
<1> HIDE DEF q
<1>3. /\ query.filters = NormalisedFilters(q)
      /\ query.sort = IF q.sort = Unset THEN Unset ELSE NormalizeField(resourceType, q.sort)
      /\ query.intent = q.intent
    BY <1>1, <1>2 DEF Normal, Query, q
<1>4. q.filters \in Seq(Filter)
    BY <1>2 DEF Query
<1>5. DOMAIN query.filters = DOMAIN q.filters /\ Len(query.filters) = Len(q.filters)
    BY <1>3, <1>4 DEF NormalisedFilters
<1>6. \A i \in DOMAIN q.filters :
          /\ query.filters[i].op = q.filters[i].op
          /\ query.filters[i].field = NormalizeField(resourceType, q.filters[i].field)
    BY <1>3, <1>4 DEF NormalisedFilters, Filter
<1> QED BY <1>1, <1>3, <1>5, <1>6 DEF Renamed

\* the canonical name of a field is what its spellings are normalised to
LEMMA CanonicalMeaning ==
    ASSUME NEW name, NEW f \in FieldsOf(resourceType)
    PROVE  Means(name, f) <=> f.name = NormalizeField(resourceType, name)
<1>1. Means(name, f) => f.name = NormalizeField(resourceType, name)
    BY Resolved DEF Means, Spells
<1>2. ASSUME f.name = NormalizeField(resourceType, name) PROVE Means(name, f)
    <2>1. Spells(Lowered(NormalizeField(resourceType, name)), f)
        BY <1>2, LoweredSpelling DEF Spells
    <2> QED BY <2>1, MeaningKept DEF Means, Spells
<1> QED BY <1>1, <1>2

\* a normalised name is allowed if and only if it means a field the intent may use
LEMMA AllowedMeaning ==
    ASSUME NEW name
    PROVE  ValidateField(resourceType, "v2", Intent, NormalizeField(resourceType, name)) <=>
             \E f \in FieldsOf(resourceType) : Means(name, f) /\ Scopes(f) # {}
<1> DEFINE canonical == NormalizeField(resourceType, name)
<1>1. NormalizeField(resourceType, canonical) = canonical
    BY NormalIsNormal
<1>2. \A f \in FieldsOf(resourceType) : Means(name, f) <=> f.name = canonical
    BY CanonicalMeaning
<1> HIDE DEF canonical
<1>3. ValidateField(resourceType, "v2", Intent, canonical) <=>
        \E f \in FieldsOf(resourceType) : f.name = canonical /\ f.scopes \cap {Intent, "default"} # {}
    BY <1>1 DEF ValidateField, IsFieldAllowed
<1>4. \A f \in FieldsOf(resourceType) : f.scopes \cap {Intent, "default"} = Scopes(f)
    BY DEF Scopes, Intent
<1> QED BY <1>2, <1>3, <1>4 DEF canonical

\* a query of a version that is not known mentions no name, or is refused
LEMMA NothingMentioned ==
    ASSUME asked \in Query, query = Normal(Defaulted(asked)), asked.version # "v1",
           query.version # "v2", Valid(query)
    PROVE  /\ query.filters = asked.filters /\ DOMAIN asked.filters = {}
           /\ query.sort = Unset /\ asked.sort = Unset
<1>1. query = Defaulted(asked) /\ query.version # "v1"
    BY DEF Normal, Defaulted, Query
<1>2. query.filters = asked.filters /\ query.sort = asked.sort
    BY <1>1 DEF Defaulted, Query
<1>3. Mentioned(query) = {}
    BY <1>1 DEF Valid, ValidateField
<1>4. query.sort = Unset /\ DOMAIN query.filters = {}
    BY <1>3 DEF Mentioned
<1> QED BY <1>2, <1>4

-----------------------------------------------------------------------------
(* The properties *)

LEMMA FiltersFromStages == IInv => FiltersSayWhatWasAsked
<1> SUFFICES ASSUME IInv, stage = "compiled", asked.version # "v1"
             PROVE  /\ Len(sql.where) = Len(asked.filters)
                    /\ \A i \in DOMAIN asked.filters : \E f \in FieldsOf(resourceType) :
                         /\ Means(asked.filters[i].field, f)
                         /\ sql.where[i] = f.column
                         /\ Scopes(f) # {}
    BY DEF FiltersSayWhatWasAsked
<1>1. /\ asked \in Query /\ query \in Query
      /\ query = Normal(Defaulted(asked)) /\ Valid(query)
      /\ AllExpressible /\ sql = Statement
    BY DEF IInv, TypeOK, StageByStage
<1>2. query.filters \in Seq(Filter)
    BY <1>1 DEF Query
<1>3. /\ Len(sql.where) = Len(query.filters)
      /\ \A i \in DOMAIN query.filters :
            sql.where[i] = NativeColumnForField(query.filters[i].field)
    BY <1>1, <1>2 DEF Statement
<1>4. CASE query.version = "v2"
    <2>1. Renamed
        BY <1>1, <1>4, Renaming
    <2>2. ASSUME NEW i \in DOMAIN asked.filters
          PROVE  \E f \in FieldsOf(resourceType) :
                    /\ Means(asked.filters[i].field, f)
                    /\ sql.where[i] = f.column
                    /\ Scopes(f) # {}
        <3> DEFINE canonical == NormalizeField(resourceType, asked.filters[i].field)
        <3>1. query.filters[i].field = canonical /\ i \in DOMAIN query.filters
            BY <2>1 DEF Renamed
        <3>2. canonical \in Mentioned(query)
            BY <3>1 DEF Mentioned
        <3>3. ValidateField(resourceType, "v2", Intent, canonical)
            BY <1>1, <1>4, <2>1, <3>2 DEF Valid, Renamed
        <3>4. PICK f \in FieldsOf(resourceType) : Means(asked.filters[i].field, f) /\ Scopes(f) # {}
            BY <3>3, AllowedMeaning
        <3>5. f.name = canonical
            BY <3>4, CanonicalMeaning
        <3>6. sql.where[i] = f.column
            BY <1>3, <3>1, <3>5, ColumnOf
        <3> QED BY <3>4, <3>6
    <2> QED BY <1>3, <2>1, <2>2 DEF Renamed
<1>5. CASE query.version # "v2"
    BY <1>1, <1>3, <1>5, NothingMentioned
<1> QED BY <1>4, <1>5

LEMMA SortFromStages == IInv => SortIsHonoured
<1> SUFFICES ASSUME IInv, stage = "compiled", asked.version # "v1"
             PROVE  \/ \E f \in FieldsOf(resourceType) :
                         Means(asked.sort, f) /\ f.sortable /\ sql.orderBy = f.column
                    \/ /\ \A f \in FieldsOf(resourceType) : Means(asked.sort, f) => ~f.sortable
                       /\ sql.orderBy = "created_at"
    BY DEF SortIsHonoured
<1>1. /\ asked \in Query
      /\ query = Normal(Defaulted(asked)) /\ Valid(query)
      /\ sql = Statement
    BY DEF IInv, TypeOK, StageByStage
<1>2. sql.orderBy = OrderBy(query)
    BY <1>1 DEF Statement
<1>3. query.sort = IF asked.sort = Unset THEN Unset ELSE NormalizeField(resourceType, asked.sort)
    BY <1>1, Renaming, NothingMentioned DEF Renamed
<1>4. \A f \in FieldsOf(resourceType) : Means(asked.sort, f) <=> f.name = query.sort
    <2>1. CASE asked.sort = Unset
        BY <1>3, <2>1, UnsetIsNoName DEF Means, Spells
    <2>2. CASE asked.sort # Unset
        BY <1>3, <2>2, CanonicalMeaning
    <2> QED BY <2>1, <2>2
<1>5. CASE query.sort \in Sortable(resourceType)
    <2>1. PICK f \in FieldsOf(resourceType) : f.sortable /\ f.name = query.sort
        BY <1>5 DEF Sortable
    <2>2. OrderBy(query) = f.column
        BY <1>5, <2>1, ColumnOf DEF OrderBy
    <2> QED BY <1>2, <1>4, <2>1, <2>2
<1>6. CASE query.sort \notin Sortable(resourceType)
    <2>1. OrderBy(query) = GetNativeColumn(resourceType, DefaultSort(resourceType))
        BY <1>6 DEF OrderBy
    <2>2. OrderBy(query) = "created_at"
        BY <2>1, DefaultSortIsSortable, ColumnOf
    <2> QED BY <1>2, <1>4, <1>6, <2>2 DEF Sortable
<1> QED BY <1>5, <1>6

LEMMA RefusalsFromStages == IInv => RefusalsAreJustified
<1> SUFFICES ASSUME IInv, stage = "refused", query.version = "v2"
             PROVE  \/ /\ status = FieldNotAllowed
                       /\ \E name \in Mentioned(asked) :
                            \A f \in FieldsOf(resourceType) : Means(name, f) => Scopes(f) = {}
                    \/ /\ status = "500"
                       /\ \E i \in DOMAIN asked.filters : asked.filters[i].op \in {"emptyIn", "regex"}
    BY DEF RefusalsAreJustified
<1>1. /\ asked \in Query
      /\ query = Normal(Defaulted(asked))
      /\ \/ ~Valid(query) /\ status = FieldNotAllowed
         \/ Valid(query) /\ ~AllExpressible /\ status = "500"
    BY DEF IInv, TypeOK, StageByStage
<1>2. Renamed
    BY <1>1, Renaming
<1>3. CASE ~Valid(query)
    <2>1. PICK canonical \in Mentioned(query) : ~ValidateField(resourceType, "v2", Intent, canonical)
        BY <1>2, <1>3 DEF Valid, Renamed
    <2>2. \E name \in Mentioned(asked) : canonical = NormalizeField(resourceType, name)
        BY <1>2, <2>1 DEF Renamed, Mentioned
    <2>3. PICK name \in Mentioned(asked) : canonical = NormalizeField(resourceType, name)
        BY <2>2
    <2>4. \A f \in FieldsOf(resourceType) : Means(name, f) => Scopes(f) = {}
        BY <2>1, <2>3, AllowedMeaning
    <2> QED BY <1>1, <1>3, <2>3, <2>4
<1>4. CASE Valid(query)
    <2>1. PICK i \in DOMAIN query.filters : ~Expressible(query.filters[i])
        BY <1>1, <1>4 DEF AllExpressible
    <2>2. i \in DOMAIN asked.filters /\ query.filters[i].op = asked.filters[i].op
        BY <1>2, <2>1 DEF Renamed
    <2> DEFINE canonical == NormalizeField(resourceType, asked.filters[i].field)
    <2>3. query.filters[i].field = canonical /\ canonical \in Mentioned(query)
        BY <1>2, <2>1, <2>2 DEF Renamed, Mentioned
    <2>4. ValidateField(resourceType, "v2", Intent, canonical)
        BY <1>2, <1>4, <2>3 DEF Valid, Renamed
    <2>5. canonical \in Filterable(resourceType)
        BY <2>4, AllowedMeaning, CanonicalMeaning DEF Filterable
    <2>6. asked.filters[i].op \in Operators
        <3>1. asked.filters \in Seq(Filter)
            BY <1>1 DEF Query
        <3>2. asked.filters[i] \in Filter
            BY <2>2, <3>1
        <3> QED BY <3>2 DEF Filter
    <2>7. asked.filters[i].op \in {"emptyIn", "regex"}
        BY <2>1, <2>2, <2>3, <2>5, <2>6 DEF Expressible, Operators
    <2> QED BY <1>1, <1>4, <2>2, <2>7
<1> QED BY <1>3, <1>4

\* Between the name a client sends and the column SQLite filters on stand three
\* tables (service.go:67, contracts.go:45, adapter.go:185): whatever the names, the
\* intent and the resource, the column is that of the field that was meant.
THEOREM FiltersMeanWhatTheySay == Spec => []FiltersSayWhatWasAsked
BY FiltersFromStages, Invariant, PTL

\* The order of the rows is the one asked for if the field can order them, and the
\* default one if not (adapter.go:44-58), never an error and never another field's.
THEOREM SortMeansWhatItSays == Spec => []SortIsHonoured
BY SortFromStages, Invariant, PTL

\* The allowlist and the adapter's tables agree (service.go:73, adapter.go:182): a
\* 400 has a name that nothing the intent may use answers to, a 500 an operator.
THEOREM Refusals == Spec => []RefusalsAreJustified
BY RefusalsFromStages, Invariant, PTL

-----------------------------------------------------------------------------
(* What the framer writes *)

FramerValues ==
    {"since", "ORD", "TRK", "PAY", "MAIL", "CUST", "Open", "Shipped", "Delivered", "Ready",
     "Delayed", "Failed", "Pending", "Paid", "silver", "1", "true", "NotInitiated", "NotRequested"}

\* filters of the framer and of a model
Plain == [field : Names, op : Operators, value : Values \cup FramerValues]

Opposites == {Is("shipment.state", state) : state \in DeniedStates}

\* those that a reading of this text may have
Fair(text) == {f \in Plain : HasNotShippedCue(text) => f \notin Opposites}

ClueOf(text) == [filters : Seq(Fair(text)), weight : Int]

\* the names it uses are in the schema
LEMMA FramerNames ==
    {"order.created_at", "customer.created_at", "order.number", "shipment.tracking_id",
     "payment.reference", "order.customer_email", "customer.email", "order.customer_id",
     "customer.number", "order.state", "shipment.state", "payment.state", "customer.vip_tier",
     "customer.is_email_verified", "return.eligible", "refund.status", "return.status", "id"}
    \subseteq Names
<1>1. \A name \in {"order.created_at", "order.number", "shipment.tracking_id",
                   "payment.reference", "order.customer_email", "order.customer_id",
                   "order.state", "shipment.state", "payment.state",
                   "return.eligible", "refund.status", "return.status"} :
        \E f \in OrderFields : f.name = name
    BY SMTT(60) DEF OrderFields, Field
<1>2. \A name \in {"customer.created_at", "customer.email", "customer.number",
                   "customer.vip_tier", "customer.is_email_verified"} :
        \E f \in CustomerFields : f.name = name
    BY SMTT(60) DEF CustomerFields, Field
<1>3. \E f \in OrderFields : f.column = "id"
    BY SMTT(60) DEF OrderFields, Field
<1> QED BY <1>1, <1>2, <1>3 DEF Names, AllFields

\* a filter the framer writes for its own reasons
LEMMA FairFilter ==
    ASSUME NEW text, NEW name, NEW op \in {"eq", "neq", "gte"}, NEW value \in FramerValues,
           name \in {"order.created_at", "customer.created_at", "order.number", "shipment.tracking_id",
     "payment.reference", "order.customer_email", "customer.email", "order.customer_id",
     "customer.number", "order.state", "shipment.state", "payment.state", "customer.vip_tier",
     "customer.is_email_verified", "return.eligible", "refund.status", "return.status"},
           HasNotShippedCue(text) => name # "shipment.state" \/ op # "eq" \/ value \notin DeniedStates
    PROVE  [field |-> name, op |-> op, value |-> value] \in Fair(text)
<1> DEFINE f == [field |-> name, op |-> op, value |-> value]
<1>1. name \in Names /\ op \in Operators
    BY FramerNames DEF Operators
<1>2. f \in Plain
    BY <1>1 DEF Plain
<1>3. HasNotShippedCue(text) => f \notin Opposites
    BY DEF Opposites, Is
<1> QED BY <1>2, <1>3 DEF Fair

LEMMA ClueType ==
    ASSUME NEW text, NEW applies, NEW filters, applies => filters \in Seq(Fair(text)),
           NEW weight \in Int
    PROVE  Clue(applies, filters, weight) \in ClueOf(text)
BY DEF Clue, ClueOf

LEMMA OneClue ==
    ASSUME NEW text, NEW applies, NEW f, applies => f \in Fair(text), NEW weight \in Int
    PROVE  Clue(applies, <<f>>, weight) \in ClueOf(text)
<1>1. applies => <<f>> \in Seq(Fair(text))
    OBVIOUS
<1> QED BY <1>1, ClueType

LEMMA NoFilterClue ==
    ASSUME NEW text, NEW applies, NEW weight \in Int
    PROVE  Clue(applies, <<>>, weight) \in ClueOf(text)
<1>1. <<>> \in Seq(Fair(text))
    OBVIOUS
<1> QED BY <1>1, ClueType

LEMMA DenialsFair == \A text : Denials \in Seq(Fair(text)) /\ NotShippedFilters(<<>>) \in Seq(Fair(text))
<1> SUFFICES ASSUME NEW text
             PROVE  Denials \in Seq(Fair(text)) /\ NotShippedFilters(<<>>) \in Seq(Fair(text))
    OBVIOUS
<1>1. \A value \in {"Shipped", "Delivered", "Ready"} : Not("shipment.state", value) \in Fair(text)
    BY FairFilter DEF Not, FramerValues
<1>2. Denials \in Seq(Fair(text))
    <2> DEFINE a == Not("shipment.state", "Shipped")
               b == Not("shipment.state", "Delivered")
               c == Not("shipment.state", "Ready")
               S == Fair(text)
    <2>1. a \in S /\ b \in S /\ c \in S
        BY <1>1
    <2>2. Denials = <<a, b, c>>
        BY DEF Denials
    <2> HIDE DEF a, b, c, S
    <2>3. Denials \in Seq(S)
        BY <2>1, <2>2
    <2> QED BY <2>3 DEF S
<1> QED BY <1>2, KeptType DEF NotShippedFilters

LEMMA CommonType ==
    ASSUME NEW text, NEW r
    PROVE  CommonClues(text, r) \in Seq(ClueOf(text))
<1> DEFINE S == ClueOf(text)
           a == Clue(SaysAny(text, WeekCues \cup ShortWindowCues),
                     <<[field |-> DefaultSort(r), op |-> "gte", value |-> "since"]>>, 8)
           b == Clue(Says(text, <<"ORD">>), <<Is("order.number", "ORD")>>, 20)
           c == Clue(Says(text, <<"TRK">>), <<Is("shipment.tracking_id", "TRK")>>, 20)
           d == Clue(Says(text, <<"PAY">>), <<Is("payment.reference", "PAY")>>, 20)
<1>1. /\ [field |-> DefaultSort(r), op |-> "gte", value |-> "since"] \in Fair(text)
      /\ Is("order.number", "ORD") \in Fair(text)
      /\ Is("shipment.tracking_id", "TRK") \in Fair(text)
      /\ Is("payment.reference", "PAY") \in Fair(text)
    BY FairFilter DEF Is, FramerValues, DefaultSort
<1>2. a \in S
    BY <1>1, OneClue
<1>3. b \in S /\ c \in S /\ d \in S
    BY <1>1, OneClue
<1>4. CommonClues(text, r) = <<a, b, c, d>>
    BY DEF CommonClues
<1> HIDE DEF a, b, c, d, S
<1>5. CommonClues(text, r) \in Seq(S)
    BY <1>2, <1>3, <1>4
<1> QED BY <1>5 DEF S

LEMMA CustomerScopeType ==
    ASSUME NEW text, NEW r
    PROVE  CustomerScopeClues(text, r) \in Seq(ClueOf(text))
<1> DEFINE S == ClueOf(text)
           a == Clue(Says(text, <<"MAIL">>),
                     <<Is(IF r = "order" THEN "order.customer_email" ELSE "customer.email", "MAIL")>>, 22)
           b == Clue(Says(text, <<"CUST">>),
                     <<Is(IF r = "order" THEN "order.customer_id" ELSE "customer.number", "CUST")>>, 20)
           c == Clue(Says(text, <<"PHONE">>), <<>>, 10)
<1>1. /\ Is(IF r = "order" THEN "order.customer_email" ELSE "customer.email", "MAIL") \in Fair(text)
      /\ Is(IF r = "order" THEN "order.customer_id" ELSE "customer.number", "CUST") \in Fair(text)
    BY FairFilter DEF Is, FramerValues
<1>2. a \in S /\ b \in S
    BY <1>1, OneClue
<1>3. c \in S
    BY NoFilterClue
<1>4. CustomerScopeClues(text, r) = <<a, b, c>>
    BY DEF CustomerScopeClues
<1> HIDE DEF a, b, c, S
<1>5. CustomerScopeClues(text, r) \in Seq(S)
    BY <1>2, <1>3, <1>4
<1> QED BY <1>5 DEF S

\* a text that names one payment state
LEMMA OnePaymentState ==
    ASSUME NEW text, Len(PaymentStates(text)) = 1
    PROVE  Last(PaymentStates(text)) \in {"Failed", "Pending", "Paid"}
<1> DEFINE T == {"Failed", "Pending", "Paid"}
           a == IF SaysAny(text, FailedCues) THEN <<"Failed">> ELSE <<>>
           b == IF SaysAny(text, PendingCues) THEN <<"Pending">> ELSE <<>>
           c == IF SaysAny(text, PaidCues) THEN <<"Paid">> ELSE <<>>
<1>1. a \in Seq(T) /\ b \in Seq(T) /\ c \in Seq(T)
    <2>1. <<"Failed">> \in Seq(T) /\ <<"Pending">> \in Seq(T) /\ <<"Paid">> \in Seq(T) /\ <<>> \in Seq(T)
        OBVIOUS
    <2> QED BY <2>1
<1>2. PaymentStates(text) = a \o b \o c
    BY DEF PaymentStates
<1> HIDE DEF a, b, c, T
<1>3. PaymentStates(text) \in Seq(T)
    BY <1>1, <1>2
<1>4. PaymentStates(text)[1] \in T
    BY <1>3
<1> QED BY <1>4 DEF Last, T

LEMMA WISMOType ==
    ASSUME NEW text, NEW r
    PROVE  WISMOClues(text, r) \in Seq(ClueOf(text))
<1> DEFINE S == ClueOf(text)
           a == Clue(Says(text, <<"tracking">>), <<>>, 12)
           b == Clue(SaysAny(text, OpenCues), <<Is("order.state", "Open")>>, 14)
           c == Clue(HasNotShippedCue(text), NotShippedFilters(<<>>), 12)
           d == Clue(~HasNotShippedCue(text) /\ HasPositiveShippedCue(text),
                     <<Is("shipment.state", "Shipped")>>, 12)
           e == Clue(Says(text, <<"delay">>), <<Is("shipment.state", "Delayed")>>, 12)
           f == Clue(Len(PaymentStates(text)) = 1,
                     <<Is("payment.state", Last(PaymentStates(text)))>>, 12)
           g == Clue(Says(text, <<"courier">>), <<>>, 8)
<1>1. a \in S /\ g \in S
    BY NoFilterClue
<1>2. b \in S /\ e \in S
    <2> DEFINE open == Is("order.state", "Open")
               delayed == Is("shipment.state", "Delayed")
    <2>1. open \in Fair(text) /\ delayed \in Fair(text)
        BY FairFilter DEF Is, FramerValues, DeniedStates
    <2> HIDE DEF open, delayed
    <2>2. 14 \in Int /\ 12 \in Int
        OBVIOUS
    <2>3. Clue(SaysAny(text, OpenCues), <<open>>, 14) \in ClueOf(text)
        BY <2>1, <2>2, OneClue, Zenon
    <2>4. Clue(Says(text, <<"delay">>), <<delayed>>, 12) \in ClueOf(text)
        BY <2>1, <2>2, OneClue, Zenon
    <2> QED BY <2>3, <2>4 DEF open, delayed
<1>3. c \in S
    <2>1. NotShippedFilters(<<>>) \in Seq(Fair(text))
        BY DenialsFair
    <2> QED BY <2>1 DEF Clue, ClueOf
<1>4. d \in S
    <2>1. ~HasNotShippedCue(text) => Is("shipment.state", "Shipped") \in Fair(text)
        BY FairFilter DEF Is, FramerValues
    <2> DEFINE clue == Is("shipment.state", "Shipped")
    <2>2. ~HasNotShippedCue(text) => <<clue>> \in Seq(Fair(text))
        BY <2>1
    <2> HIDE DEF clue
    <2>3. Clue(~HasNotShippedCue(text) /\ HasPositiveShippedCue(text), <<clue>>, 12) \in S
        BY <2>2 DEF Clue, ClueOf
    <2> QED BY <2>3 DEF clue
<1>5. f \in S
    <2>1. Len(PaymentStates(text)) = 1 =>
             Is("payment.state", Last(PaymentStates(text))) \in Fair(text)
        BY OnePaymentState, FairFilter DEF Is, FramerValues
    <2> DEFINE clue == Is("payment.state", Last(PaymentStates(text)))
    <2>2. Len(PaymentStates(text)) = 1 => <<clue>> \in Seq(Fair(text))
        BY <2>1
    <2> HIDE DEF clue
    <2>3. Clue(Len(PaymentStates(text)) = 1, <<clue>>, 12) \in S
        BY <2>2 DEF Clue, ClueOf
    <2> QED BY <2>3 DEF clue
<1>6. WISMOClues(text, r) = <<a, b, c, d, e, f, g>> \o CustomerScopeClues(text, r)
    BY DEF WISMOClues
<1>7. CustomerScopeClues(text, r) \in Seq(S)
    BY CustomerScopeType
<1> HIDE DEF a, b, c, d, e, f, g, S
<1>8. <<a, b, c, d, e, f, g>> \in Seq(S)
    BY <1>1, <1>2, <1>3, <1>4, <1>5
<1>9. WISMOClues(text, r) \in Seq(S)
    BY <1>6, <1>7, <1>8, JoinType
<1> QED BY <1>9 DEF S

LEMMA CRMType ==
    ASSUME NEW text, NEW r
    PROVE  CRMClues(text, r) \in Seq(ClueOf(text))
<1> DEFINE S == ClueOf(text)
           a == Clue(Says(text, <<"vip">>), <<Not("customer.vip_tier", "silver")>>, 12)
           b == Clue(Says(text, <<"verified">>), <<Is("customer.is_email_verified", "1")>>, 10)
<1>1. Not("customer.vip_tier", "silver") \in Fair(text) /\ Is("customer.is_email_verified", "1") \in Fair(text)
    BY FairFilter DEF Is, Not, FramerValues
<1>2. a \in S
    BY <1>1, OneClue
<1>9. b \in S
    BY <1>1, OneClue
<1>3. CRMClues(text, r) = CustomerScopeClues(text, r) \o <<a, b>>
    BY DEF CRMClues
<1>4. CustomerScopeClues(text, r) \in Seq(S)
    BY CustomerScopeType
<1> HIDE DEF a, b, S
<1>5. <<a, b>> \in Seq(S)
    BY <1>2, <1>9
<1>6. CRMClues(text, r) \in Seq(S)
    BY <1>3, <1>4, <1>5, JoinType
<1> QED BY <1>6 DEF S

LEMMA ReturnsType ==
    ASSUME NEW text
    PROVE  ReturnsClues(text) \in Seq(ClueOf(text))
<1> DEFINE S == ClueOf(text)
           a == Clue(Says(text, <<"eligible">>), <<Is("return.eligible", "true")>>, 14)
           b == Clue(Says(text, <<"refund">>), <<Not("refund.status", "NotInitiated")>>, 12)
           c == Clue(Says(text, <<"return">>), <<Not("return.status", "NotRequested")>>, 12)
<1>1. /\ Is("return.eligible", "true") \in Fair(text)
      /\ Not("refund.status", "NotInitiated") \in Fair(text)
      /\ Not("return.status", "NotRequested") \in Fair(text)
    BY FairFilter DEF Is, Not, FramerValues
<1>2. a \in S /\ b \in S /\ c \in S
    BY <1>1, OneClue
<1>3. ReturnsClues(text) = <<a, b, c>>
    BY DEF ReturnsClues
<1> HIDE DEF a, b, c, S
<1>4. ReturnsClues(text) \in Seq(S)
    BY <1>2, <1>3
<1> QED BY <1>4 DEF S

LEMMA IntentCluesType ==
    ASSUME NEW text, NEW r, NEW intent
    PROVE  IntentClues(text, r, intent) \in Seq(ClueOf(text))
<1>1. <<>> \in Seq(ClueOf(text))
    OBVIOUS
<1> QED BY <1>1, WISMOType, CRMType, ReturnsType DEF IntentClues

-----------------------------------------------------------------------------
(* A reading of a text *)

\* versions, and intents, of an analysis: never blank
Known(strings) == strings \ {Unset}

Queries(filters) ==
    [version : Known(ContractVersions), intent : Known(IntentCategories),
     filters : Seq(filters), sort : Names \cup {Unset}]

Parsed(filters) ==
    [query : Queries(filters), intent : Known(IntentCategories), resource : Resources,
     confidence : Int, clarify : BOOLEAN]

LEMMA NamedValues ==
    /\ {"v1", "v2", "v3"} = Known(ContractVersions)
    /\ Intents \cup {"unsupported_domain", "unknown"} = Known(IntentCategories)
<1>1. Unset \notin {"v1", "v2", "v3"}
    BY Zenon DEF Unset
<1>2. Unset \notin Intents \cup {"unsupported_domain", "unknown"}
    BY Zenon DEF Unset, Intents
<1> QED BY <1>1, <1>2 DEF Known, ContractVersions, IntentCategories

\* confidence adds up
LEMMA ConfidenceType ==
    ASSUME NEW text, NEW C, NEW clues \in Seq(C), \A c \in C : c.weight \in Int
    PROVE  ConfidenceOf(text, clues) \in Int
<1> SUFFICES ASSUME Contradicted(text) = {} PROVE ConfidenceOf(text, clues) \in Int
    BY DEF ConfidenceOf
<1> DEFINE n == Len(clues)
           F == [p \in Int \X (1..n) |-> Plus(p[1], clues[p[2]])]
<1>1. n \in Nat /\ DOMAIN clues = 1..n /\ \A i \in 1..n : clues[i] \in C
    OBVIOUS
<1>2. F \in [Int \X (1..n) -> Int]
    BY <1>1 DEF Plus
<1>3. PICK g : IsLoop(g, Int, 55, n, F)
    <2> DEFINE base == 55
    <2>1. base \in Int
        OBVIOUS
    <2> HIDE DEF n, F, base
    <2>2. \E g : IsLoop(g, Int, base, n, F)
        BY <1>1, <1>2, <2>1, LoopTable
    <2> QED BY <2>2 DEF base
<1>4. ASSUME NEW t \in SUBSET (1..n), t # {}
      PROVE  g[t] = Plus(g[t \ {Max(t)}], clues[Max(t)])
    <2>1. Max(t) \in 1..n /\ t \ {Max(t)} \in SUBSET (1..n)
        BY <1>1, <1>4, MaxIsGreatest
    <2> QED BY <1>3, <1>4, <2>1 DEF IsLoop
<1>5. g = [t \in SUBSET (1..n) |-> IF t = {} THEN 55 ELSE Plus(g[t \ {Max(t)}], clues[Max(t)])]
    BY <1>3, <1>4 DEF IsLoop
<1>6. PICK k : /\ k = [t \in SUBSET (1..n) |-> IF t = {} THEN 55
                                                 ELSE Plus(k[t \ {Max(t)}], clues[Max(t)])]
               /\ ConfidenceOf(text, clues) = k[1..n]
    <2> HIDE DEF n
    <2> QED BY <1>1, <1>5 DEF ConfidenceOf, FoldLeft, MapThenFoldSet
<1> DEFINE T == {i \in Nat : i <= n => k[1..i] \in Int}
<1>7. 0 \in T
    BY <1>1, <1>6
<1>8. ASSUME NEW i \in Nat, i \in T PROVE i + 1 \in T
    <2> SUFFICES ASSUME i + 1 <= n PROVE k[1..(i + 1)] \in Int
        OBVIOUS
    <2>1. /\ 1..(i + 1) # {} /\ Max(1..(i + 1)) = i + 1
          /\ (1..(i + 1)) \ {i + 1} = 1..((i + 1) - 1)
        BY InitialSegment
    <2>2. 1..(i + 1) \in SUBSET (1..n) /\ (i + 1) - 1 = i /\ i + 1 \in 1..n
        BY <1>1
    <2>3. k[1..(i + 1)] = Plus(k[1..i], clues[i + 1])
        BY <1>6, <2>1, <2>2
    <2>4. k[1..i] \in Int /\ clues[i + 1].weight \in Int
        BY <1>1, <1>8, <2>2
    <2> QED BY <2>3, <2>4 DEF Plus
<1>9. n \in T
    <2> HIDE DEF T
    <2> QED BY <1>1, <1>7, <1>8, Induct
<1> QED BY <1>1, <1>6, <1>9

LEMMA ParseType ==
    ASSUME NEW text, NEW version \in {"v1", "v2"}, NEW hint
    PROVE  ParseText(text, version, hint) \in Parsed(Fair(text))
<1> DEFINE intent == ClassifyIntent(text)
           resource == InferResourceType(text, hint)
           clues == CommonClues(text, resource) \o IntentClues(text, resource, intent)
           lists == [i \in DOMAIN clues |-> clues[i].filters]
           named == FlattenSeq(lists)
           agreed == {f \in Range(named) : f.field \notin Contradicted(text)}
           confidence == ConfidenceOf(text, clues)
<1>1. intent \in Known(IntentCategories)
    BY NamedValues DEF ClassifyIntent, Intents
<1>2. resource \in Resources
    BY DEF InferResourceType, Resources
<1>3. clues \in Seq(ClueOf(text))
    BY CommonType, IntentCluesType, JoinType
<1>4. lists \in Seq(Seq(Fair(text)))
    <2>1. \A i \in DOMAIN clues : clues[i].filters \in Seq(Fair(text))
        <3>1. \A c \in ClueOf(text) : c.filters \in Seq(Fair(text))
            BY DEF ClueOf
        <3> HIDE DEF clues
        <3> QED BY <1>3, <3>1
    <2> HIDE DEF clues
    <2> QED BY <1>3, <2>1
<1>5. named \in Seq(Fair(text))
    BY <1>4, FlattenType
<1>6. Kept(named, agreed) \in Seq(Fair(text))
    BY <1>5, KeptType
<1>7. confidence \in Int
    <2>1. \A c \in ClueOf(text) : c.weight \in Int
        BY DEF ClueOf
    <2> HIDE DEF clues
    <2> QED BY <1>3, <2>1, ConfidenceType
<1>8. version \in Known(ContractVersions) /\ DefaultSort(resource) \in Names
    BY NamedValues, FramerNames DEF DefaultSort
<1>9. ParseText(text, version, hint) =
        [query |-> [version |-> version, intent |-> intent, sort |-> DefaultSort(resource),
                    filters |-> Kept(named, agreed)],
         intent |-> intent, resource |-> resource, confidence |-> confidence,
         clarify |-> confidence < 66]
    BY DEF ParseText
<1> HIDE DEF intent, resource, clues, lists, named, agreed, confidence
<1> QED BY <1>1, <1>2, <1>6, <1>7, <1>8, <1>9 DEF Parsed, Queries

\* what a contradiction removes it asks about, and without one a message that says
\* "not shipped" has all its denials
LEMMA ParseMeans ==
    ASSUME NEW text, NEW version, NEW hint
    PROVE  LET p == ParseText(text, version, hint)
           IN /\ p.query.intent = p.intent
              /\ HasPaymentConflict(text) => p.clarify
              /\ HasNotShippedCue(text) /\ p.intent = "wismo" /\ ~p.clarify =>
                    Range(Denials) \subseteq Range(p.query.filters)
<1> DEFINE intent == ClassifyIntent(text)
           resource == InferResourceType(text, hint)
           common == CommonClues(text, resource)
           own == IntentClues(text, resource, intent)
           clues == common \o own
           lists == [i \in DOMAIN clues |-> clues[i].filters]
           named == FlattenSeq(lists)
           agreed == {f \in Range(named) : f.field \notin Contradicted(text)}
           confidence == ConfidenceOf(text, clues)
           p == ParseText(text, version, hint)
<1>1. /\ p.query.intent = intent /\ p.intent = intent
      /\ p.clarify = (confidence < 66)
      /\ p.query.filters = Kept(named, agreed)
    BY DEF ParseText
<1>2. Contradicted(text) # {} => confidence < 66
    BY DEF ConfidenceOf
<1>3. HasPaymentConflict(text) => Contradicted(text) # {}
    BY DEF Contradicted
<1>4. ASSUME HasNotShippedCue(text), intent = "wismo", Contradicted(text) = {}
      PROVE  Range(Denials) \subseteq Range(Kept(named, agreed))
    <2>1. common \in Seq(ClueOf(text)) /\ own \in Seq(ClueOf(text)) /\ Len(common) = 4
        <3>1. Len(common) = 4
            BY DEF CommonClues
        <3> QED BY <3>1, CommonType, IntentCluesType
    <2>2. CustomerScopeClues(text, resource) \in Seq(ClueOf(text))
        BY CustomerScopeType
    <2>3. /\ Len(own) \in Nat /\ Len(own) >= 7
          /\ own[3] = Clue(HasNotShippedCue(text), NotShippedFilters(<<>>), 12)
        <3>1. own = WISMOClues(text, resource)
            BY <1>4 DEF IntentClues
        <3> HIDE DEF own, resource
        <3> QED BY <2>2, <3>1 DEF WISMOClues
    <2>4. own[3].filters = NotShippedFilters(<<>>)
        BY <1>4, <2>3 DEF Clue
    <2> HIDE DEF common, own
    <2>5. clues \in Seq(ClueOf(text)) /\ 7 \in DOMAIN clues /\ clues[7] = own[3]
        <3> DEFINE S == ClueOf(text)
        <3> HIDE DEF S
        <3>1. common \in Seq(S) /\ own \in Seq(S) /\ Len(common) = 4 /\ Len(own) \in Nat /\ Len(own) >= 7
            BY <2>1, <2>3 DEF S
        <3>2. 3 \in 1..Len(own) /\ Len(common) + 3 = 7
            BY <3>1
        <3>3. clues \in Seq(S) /\ 7 \in DOMAIN clues /\ clues[7] = own[3]
            <4>1. clues \in Seq(S)
                BY <3>1, JoinType
            <4>2. ASSUME NEW n \in Nat, n = 3
                  PROVE  Len(common) + n \in DOMAIN (common \o own)
                         /\ (common \o own)[Len(common) + n] = own[n]
                <5>1. n \in 1..Len(own)
                    BY <3>2, <4>2
                <5>2. common \in Seq(S) /\ own \in Seq(S)
                    BY <3>1
                <5> HIDE DEF S
                <5> QED BY <5>1, <5>2, JoinAt, Zenon
            <4> QED BY <3>2, <4>1, <4>2
        <3> HIDE DEF clues
        <3> QED BY <3>3 DEF S
    <2> HIDE DEF clues
    <2>6. lists \in Seq(Seq(Fair(text))) /\ lists[7] = NotShippedFilters(<<>>) /\ 7 \in 1..Len(lists)
        <3>1. \A c \in ClueOf(text) : c.filters \in Seq(Fair(text))
            BY DEF ClueOf
        <3>2. \A i \in DOMAIN clues : clues[i].filters \in Seq(Fair(text))
            BY <2>5, <3>1
        <3>3. Len(clues) \in Nat /\ DOMAIN clues = 1..Len(clues)
            BY <2>5
        <3>4. DOMAIN lists = 1..Len(clues) /\ \A i \in 1..Len(clues) : lists[i] \in Seq(Fair(text))
            BY <3>2, <3>3
        <3> QED BY <2>4, <2>5, <3>3, <3>4
    <2>7. Range(NotShippedFilters(<<>>)) = Range(Denials)
        <3>1. Denials \in Seq(Fair(text))
            BY DenialsFair
        <3>2. Range(<<>>) = {}
            BY DEF Range
        <3> DEFINE S == Range(Denials) \ Range(<<>>)
        <3>3. Range(Denials) \cap S = Range(Denials)
            BY <3>2
        <3> HIDE DEF S
        <3>4. Range(Kept(Denials, S)) = Range(Denials)
            BY <3>1, <3>3, KeptRange
        <3> QED BY <3>4 DEF NotShippedFilters, S
    <2> HIDE DEF lists
    <2>8. Range(Denials) \subseteq Range(named) /\ named \in Seq(Fair(text))
        BY <2>6, <2>7, FlattenRange, FlattenType
    <2>9. agreed = Range(named)
        BY <1>4
    <2> HIDE DEF named, agreed
    <2> QED BY <2>8, <2>9, KeptRange
<1> HIDE DEF intent, resource, common, own, clues, lists, named, agreed, confidence, p
<1>5. /\ p.query.intent = p.intent
      /\ HasPaymentConflict(text) => p.clarify
      /\ HasNotShippedCue(text) /\ p.intent = "wismo" /\ ~p.clarify =>
            Range(Denials) \subseteq Range(p.query.filters)
    BY <1>1, <1>2, <1>3, <1>4
<1> QED BY <1>5 DEF p

-----------------------------------------------------------------------------
(* Rewriting a text *)

\* where a text says "not shipped"
Denies(text, i) ==
    \/ i \in 1..Len(text) /\ text[i] = "unshipped"
    \/ i \in 1..Len(text) - 1 /\ text[i] = "not" /\ text[i + 1] = "shipped"
    \/ i \in 1..Len(text) - 2 /\ text[i] = "not" /\ text[i + 1] = "yet" /\ text[i + 2] = "shipped"

\* the cue is there as a word, or as adjacent words
LEMMA CueIsThere ==
    ASSUME NEW E, NEW text \in Seq(E)
    PROVE  HasNotShippedCue(text) <=> \E i \in Nat : Denies(text, i)
<1>1. \A word : /\ ~Begins(word, "shipped") /\ ~Begins(word, "unshipped")
                /\ ~Begins(word, "not") /\ ~Begins(word, "yet")
                /\ ~Ends(word, "unshipped") /\ ~Ends(word, "not")
    BY DEF Begins, Ends, Beginning, Ending
<1>2. Len(text) \in Nat
    BY LenNat
<1>3. Says(text, <<"unshipped">>) <=> \E i \in 1..Len(text) : text[i] = "unshipped"
    <2>1. Says(text, <<"unshipped">>) <=> \E i \in 0..(Len(text) - 1) : text[i + 1] = "unshipped"
        BY <1>1 DEF Says
    <2>2. \A i \in 1..Len(text) : i - 1 \in 0..(Len(text) - 1) /\ (i - 1) + 1 = i
        BY <1>2
    <2>3. \A i \in 0..(Len(text) - 1) : i + 1 \in 1..Len(text)
        BY <1>2
    <2> QED BY <2>1, <2>2, <2>3
<1>4. Says(text, <<"not", "shipped">>) <=>
        \E i \in 1..Len(text) - 1 : text[i] = "not" /\ text[i + 1] = "shipped"
    <2>1. Says(text, <<"not", "shipped">>) <=>
            \E i \in 0..(Len(text) - 2) : text[i + 1] = "not" /\ text[i + 2] = "shipped"
        BY <1>1 DEF Says
    <2>2. \A i \in 1..Len(text) - 1 :
            i - 1 \in 0..(Len(text) - 2) /\ (i - 1) + 1 = i /\ (i - 1) + 2 = i + 1
        BY <1>2
    <2>3. \A i \in 0..(Len(text) - 2) : i + 1 \in 1..Len(text) - 1 /\ (i + 1) + 1 = i + 2
        BY <1>2
    <2> QED BY <2>1, <2>2, <2>3
<1>5. Says(text, <<"not", "yet", "shipped">>) <=>
        \E i \in 1..Len(text) - 2 :
            text[i] = "not" /\ text[i + 1] = "yet" /\ text[i + 2] = "shipped"
    <2>1. Says(text, <<"not", "yet", "shipped">>) <=>
            \E i \in 0..(Len(text) - 3) :
                text[i + 1] = "not" /\ text[i + 2] = "yet" /\ text[i + 3] = "shipped"
        BY <1>1 DEF Says
    <2>2. \A i \in 1..Len(text) - 2 :
            /\ i - 1 \in 0..(Len(text) - 3) /\ (i - 1) + 1 = i
            /\ (i - 1) + 2 = i + 1 /\ (i - 1) + 3 = i + 2
        BY <1>2
    <2>3. \A i \in 0..(Len(text) - 3) :
            i + 1 \in 1..Len(text) - 2 /\ (i + 1) + 1 = i + 2 /\ (i + 1) + 2 = i + 3
        BY <1>2
    <2> QED BY <2>1, <2>2, <2>3
<1>6. HasNotShippedCue(text) <=> \/ Says(text, <<"unshipped">>)
                                 \/ Says(text, <<"not", "shipped">>)
                                 \/ Says(text, <<"not", "yet", "shipped">>)
    BY DEF HasNotShippedCue, SaysAny, NotShippedCues
<1> QED BY <1>2, <1>3, <1>4, <1>5, <1>6 DEF Denies

\* no phrase that is replaced ends or begins within "not shipped"
Neutral(phrase) ==
    /\ phrase # <<>>
    /\ phrase[1] # "shipped"
    /\ \A j \in 1..Len(phrase) : phrase[j] \notin {"not", "yet", "unshipped"}

\* so "not shipped" stays when one of them is replaced
LEMMA DenialStays ==
    ASSUME NEW E, NEW t \in Seq(E), NEW s \in Seq(E), NEW r \in Seq(E), NEW new \in Seq(E),
           NEW p \in Nat, IsReplacement(new, t, s, r, p), Neutral(s), NEW i \in Nat, Denies(t, i)
    PROVE  \E k \in Nat : Denies(new, k)
<1>1. Len(t) \in Nat /\ Len(s) \in Nat /\ Len(r) \in Nat /\ Len(s) > 0
    <2>1. Len(s) # 0
        BY DEF Neutral
    <2> QED BY <2>1, LenNat
<1>2. /\ p + Len(s) <= Len(t) /\ Len(new) = Len(t) - Len(s) + Len(r)
      /\ \A k \in 1..p : new[k] = t[k]
      /\ \A k \in p + Len(s) + 1..Len(t) : new[k - Len(s) + Len(r)] = t[k]
    BY DEF IsReplacement
\* within the phrase
<1>3. \A k \in p + 1..p + Len(s) :
        /\ t[k] \notin {"not", "yet", "unshipped"}
        /\ t[k] = "shipped" => k # p + 1
    <2> SUFFICES ASSUME NEW k \in p + 1..p + Len(s)
                 PROVE  /\ t[k] \notin {"not", "yet", "unshipped"}
                        /\ t[k] = "shipped" => k # p + 1
        OBVIOUS
    <2> DEFINE j == k - p
    <2>1. j \in 1..Len(s) /\ p + j = k /\ (j # 1 => k # p + 1)
        BY <1>1
    <2> HIDE DEF j
    <2>2. t[k] = s[j]
        BY <2>1 DEF IsReplacement
    <2> QED BY <2>1, <2>2 DEF Neutral
<1> DEFINE shift == Len(r) - Len(s)
<1>4. \A k \in p + Len(s) + 1..Len(t) : new[k + shift] = t[k]
    <2>1. \A k \in p + Len(s) + 1..Len(t) : k + shift = k - Len(s) + Len(r)
        BY <1>1
    <2> QED BY <1>2, <2>1
<1>5. shift \in Int /\ Len(new) = Len(t) + shift /\ p + Len(s) + shift >= 0
    BY <1>1, <1>2
<1> HIDE DEF shift
<1>6. i \in 1..Len(t) /\ ~(i \in p + 1..p + Len(s))
    BY <1>1, <1>3 DEF Denies
<1>7. CASE i <= p
    <2>1. i \in 1..p /\ new[i] = t[i] /\ i \in 1..Len(new)
        BY <1>1, <1>2, <1>5, <1>6, <1>7
    <2>2. CASE t[i] = "unshipped"
        BY <2>1, <2>2 DEF Denies
    <2>3. CASE i \in 1..Len(t) - 1 /\ t[i] = "not" /\ t[i + 1] = "shipped"
        <3>1. i + 1 \in 1..p
            BY <1>1, <1>3, <1>7, <2>3
        <3>2. new[i + 1] = t[i + 1] /\ i \in 1..Len(new) - 1
            BY <1>1, <1>2, <1>5, <2>1, <3>1
        <3> QED BY <2>1, <2>3, <3>2 DEF Denies
    <2>4. CASE i \in 1..Len(t) - 2 /\ t[i] = "not" /\ t[i + 1] = "yet" /\ t[i + 2] = "shipped"
        <3>1. i + 1 \in 1..p
            BY <1>1, <1>3, <1>7, <2>4
        <3>2. i + 2 \in 1..p
            BY <1>1, <1>3, <2>4, <3>1
        <3>3. new[i + 1] = t[i + 1] /\ new[i + 2] = t[i + 2] /\ i \in 1..Len(new) - 2
            BY <1>1, <1>2, <1>5, <2>1, <3>1, <3>2
        <3> QED BY <2>1, <2>4, <3>3 DEF Denies
    <2> QED BY <2>2, <2>3, <2>4 DEF Denies
<1>8. CASE i > p + Len(s)
    <2> DEFINE k == i + shift
    <2>0. i \in p + Len(s) + 1..Len(t)
        BY <1>1, <1>6, <1>8
    <2>1. k \in Nat /\ k \in 1..Len(new) /\ new[k] = t[i]
        <3>1. new[k] = t[i]
            BY <1>4, <2>0
        <3>2. k \in Nat /\ k \in 1..Len(new)
            BY <1>1, <1>5, <2>0
        <3> QED BY <3>1, <3>2
    <2>2. i < Len(t) => k + 1 \in 1..Len(new) /\ new[k + 1] = t[i + 1]
        <3>1. i < Len(t) => i + 1 \in p + Len(s) + 1..Len(t) /\ k + 1 = (i + 1) + shift
            BY <1>1, <1>5, <1>6, <1>8
        <3> QED BY <1>1, <1>4, <1>5, <1>6, <3>1, <2>1
    <2>3. i + 1 < Len(t) => k + 2 \in 1..Len(new) /\ new[k + 2] = t[i + 2]
        <3>1. i + 1 < Len(t) => i + 2 \in p + Len(s) + 1..Len(t) /\ k + 2 = (i + 2) + shift
            BY <1>1, <1>5, <1>6, <1>8
        <3> QED BY <1>1, <1>4, <1>5, <1>6, <3>1, <2>1
    <2>4. Len(new) \in Nat
        BY LenNat
    <2> HIDE DEF k
    <2>5. Denies(new, k)
        <3>1. CASE t[i] = "unshipped"
            BY <2>1, <3>1 DEF Denies
        <3>2. CASE i \in 1..Len(t) - 1 /\ t[i] = "not" /\ t[i + 1] = "shipped"
            <4>1. i < Len(t)
                BY <1>1, <3>2
            <4>2. k \in 1..Len(new) - 1
                BY <2>1, <2>2, <2>4, <4>1
            <4> QED BY <2>1, <2>2, <3>2, <4>1, <4>2 DEF Denies
        <3>3. CASE i \in 1..Len(t) - 2 /\ t[i] = "not" /\ t[i + 1] = "yet" /\ t[i + 2] = "shipped"
            <4>1. i < Len(t) /\ i + 1 < Len(t)
                BY <1>1, <3>3
            <4>2. k \in 1..Len(new) - 2
                BY <2>1, <2>3, <2>4, <4>1
            <4> QED BY <2>1, <2>2, <2>3, <3>3, <4>1, <4>2 DEF Denies
        <3> QED BY <3>1, <3>2, <3>3 DEF Denies
    <2> QED BY <2>1, <2>5
<1> QED BY <1>1, <1>6, <1>7, <1>8

\* the words of the phrases
Vocabulary ==
    {"ordres", "orders", "opne", "open", "paymnt", "payment", "un-successful", "unsuccessful",
     "failed", "declined", "in", "status", "state", "is", "where", "my", "order", "tracking",
     "has", "shipped", "last", "3", "recent", "initiate", "refund"}

IsPhrasing(r) ==
    r.from \in Seq(Vocabulary) /\ r.to \in Seq(Vocabulary) /\ Neutral(r.from)

\* a phrase of a few of these words
LEMMA PhraseType ==
    \A a, b, c, d \in Vocabulary : /\ <<a>> \in Seq(Vocabulary) /\ <<a, b>> \in Seq(Vocabulary)
                                   /\ <<a, b, c>> \in Seq(Vocabulary)
                                   /\ <<a, b, c, d>> \in Seq(Vocabulary)
OBVIOUS

LEMMA Phrasings == \A r \in Spelling \cup Prompts : IsPhrasing(r)
<1> DEFINE S == Seq(Vocabulary)
<1>0. /\ "ordres" \in Vocabulary /\ "orders" \in Vocabulary /\ "opne" \in Vocabulary
      /\ "open" \in Vocabulary /\ "paymnt" \in Vocabulary /\ "payment" \in Vocabulary
      /\ "un-successful" \in Vocabulary /\ "unsuccessful" \in Vocabulary /\ "failed" \in Vocabulary
      /\ "declined" \in Vocabulary /\ "in" \in Vocabulary /\ "status" \in Vocabulary
      /\ "state" \in Vocabulary /\ "is" \in Vocabulary /\ "where" \in Vocabulary
      /\ "my" \in Vocabulary /\ "order" \in Vocabulary /\ "tracking" \in Vocabulary
      /\ "has" \in Vocabulary /\ "shipped" \in Vocabulary /\ "last" \in Vocabulary
      /\ "3" \in Vocabulary /\ "recent" \in Vocabulary /\ "initiate" \in Vocabulary
      /\ "refund" \in Vocabulary
    BY DEF Vocabulary
<1>1. /\ <<"ordres">> \in S /\ <<"orders">> \in S /\ <<"opne">> \in S /\ <<"open">> \in S
      /\ <<"paymnt">> \in S /\ <<"payment">> \in S /\ <<"un-successful">> \in S
      /\ <<"unsuccessful">> \in S
    BY <1>0, PhraseType
<1>2. /\ <<"payment", "unsuccessful">> \in S /\ <<"payment", "failed">> \in S
      /\ <<"declined", "payment">> \in S /\ <<"open", "state">> \in S
      /\ <<"recent", "orders">> \in S /\ <<"initiate", "refund">> \in S
      /\ <<"refund", "status">> \in S
    BY <1>0, PhraseType
<1>3. /\ <<"state", "is", "open">> \in S /\ <<"order", "tracking", "status">> \in S
      /\ <<"order", "shipped", "status">> \in S /\ <<"last", "3", "orders">> \in S
    BY <1>0, PhraseType
<1>4. /\ <<"orders", "in", "open", "status">> \in S /\ <<"orders", "in", "open", "state">> \in S
      /\ <<"where", "is", "my", "order">> \in S /\ <<"has", "my", "order", "shipped">> \in S
    BY <1>0, PhraseType
<1> HIDE DEF S
<1>5. \A r \in Spelling : r.from \in S /\ r.to \in S
    <2>1. \A a, b \in S : [from |-> a, to |-> b] \in [from : S, to : S]
        OBVIOUS
    <2>2. Spelling \subseteq [from : S, to : S]
        BY <1>1, <1>2, <1>3, <1>4, <2>1, Zenon DEF Spelling
    <2> QED BY <2>2
<1>6. \A r \in Prompts : r.from \in S /\ r.to \in S
    <2>1. \A a, b \in S : [from |-> a, to |-> b] \in [from : S, to : S]
        OBVIOUS
    <2>2. Prompts \subseteq [from : S, to : S]
        BY <1>1, <1>2, <1>3, <1>4, <2>1, Zenon DEF Prompts
    <2> QED BY <2>2
<1>7. \A r \in Spelling : Neutral(r.from)
    BY SMTT(60) DEF Spelling, Neutral
<1>8. \A r \in Prompts : Neutral(r.from)
    BY SMTT(60) DEF Prompts, Neutral
<1> QED BY <1>5, <1>6, <1>7, <1>8 DEF IsPhrasing, S

LEMMA FourFinite == ASSUME NEW a, NEW b, NEW c, NEW d PROVE IsFiniteSet({a, b, c, d})
<1>1. IsFiniteSet({a})
    BY FS_Singleton
<1>2. IsFiniteSet({a} \cup {b})
    BY <1>1, FS_AddElement
<1>3. IsFiniteSet(({a} \cup {b}) \cup {c})
    BY <1>2, FS_AddElement
<1>4. IsFiniteSet((({a} \cup {b}) \cup {c}) \cup {d})
    BY <1>3, FS_AddElement
<1>5. (({a} \cup {b}) \cup {c}) \cup {d} = {a, b, c, d}
    OBVIOUS
<1> QED BY <1>4, <1>5, Zenon

LEMMA EightFinite ==
    ASSUME NEW a, NEW b, NEW c, NEW d, NEW e, NEW f, NEW g, NEW h
    PROVE  IsFiniteSet({a, b, c, d, e, f, g, h})
<1>1. IsFiniteSet({a, b, c, d}) /\ IsFiniteSet({e, f, g, h})
    BY FourFinite
<1>2. IsFiniteSet({a, b, c, d} \cup {e, f, g, h})
    BY <1>1, FS_Union
<1>3. {a, b, c, d} \cup {e, f, g, h} = {a, b, c, d, e, f, g, h}
    OBVIOUS
<1> QED BY <1>2, <1>3, Zenon

LEMMA PhrasingsFinite == IsFiniteSet(Spelling) /\ IsFiniteSet(Prompts)
BY FourFinite, EightFinite, Zenon DEF Spelling, Prompts

\* one step of a replacement, and all of them
LEMMA ReadOnKeeps ==
    ASSUME NEW E, Vocabulary \subseteq E, NEW r, IsPhrasing(r),
           NEW p \in [done : Seq(E), rest : Seq(E)]
    PROVE  LET q == ReadOn(r, p)
           IN /\ q \in [done : Seq(E), rest : Seq(E)]
              /\ HasNotShippedCue(p.done \o p.rest) => HasNotShippedCue(q.done \o q.rest)
<1>1. r.from \in Seq(E) /\ r.to \in Seq(E) /\ p.done \in Seq(E) /\ p.rest \in Seq(E)
    <2>1. Seq(Vocabulary) \subseteq Seq(E)
        OBVIOUS
    <2> QED BY <2>1 DEF IsPhrasing
<1>2. CASE p.rest = <<>>
    <2>1. ReadOn(r, p) = p
        BY <1>2 DEF ReadOn
    <2> QED BY <2>1
<1>3. CASE p.rest # <<>> /\ IsPrefix(r.from, p.rest)
    <2> DEFINE b == SubSeq(p.rest, Len(r.from) + 1, Len(p.rest))
               old == p.done \o p.rest
               c == p.done \o r.to
               new == c \o b
    <2>1. b \in Seq(E) /\ IsReplacement(new, old, r.from, r.to, Len(p.done))
        BY <1>1, <1>3, OneReplacement
    <2>2. ReadOn(r, p) = [done |-> c, rest |-> b]
        BY <1>3 DEF ReadOn
    <2> HIDE DEF b
    <2>3. c \in Seq(E) /\ old \in Seq(E)
        BY <1>1, JoinType
    <2> HIDE DEF old, c
    <2>4. new \in Seq(E)
        BY <2>1, <2>3, JoinType
    <2> HIDE DEF new
    <2>5. ASSUME HasNotShippedCue(old) PROVE HasNotShippedCue(new)
        <3>1. PICK i \in Nat : Denies(old, i)
            BY <2>3, <2>5, CueIsThere
        <3>2. Neutral(r.from) /\ Len(p.done) \in Nat
            BY <1>1, LenNat DEF IsPhrasing
        <3>3. \E k \in Nat : Denies(new, k)
            BY <1>1, <2>1, <2>3, <2>4, <3>1, <3>2, DenialStays
        <3> QED BY <2>4, <3>3, CueIsThere
    <2> DEFINE q == [done |-> c, rest |-> b]
    <2>6. q \in [done : Seq(E), rest : Seq(E)] /\ q.done \o q.rest = new
        BY <2>1, <2>3 DEF new
    <2> HIDE DEF q
    <2>7. ReadOn(r, p) = q
        BY <2>2 DEF q
    <2> QED BY <2>5, <2>6, <2>7 DEF old
<1>4. CASE p.rest # <<>> /\ ~IsPrefix(r.from, p.rest)
    <2>1. ReadOn(r, p) = [done |-> Append(p.done, Head(p.rest)), rest |-> Tail(p.rest)]
        BY <1>4 DEF ReadOn
    <2> DEFINE c == Append(p.done, Head(p.rest))
               b == Tail(p.rest)
    <2>2. c \in Seq(E) /\ b \in Seq(E) /\ c \o b = p.done \o p.rest
        BY <1>1, <1>4, MovedOn
    <2>3. ReadOn(r, p) = [done |-> c, rest |-> b]
        BY <2>1
    <2> DEFINE q == [done |-> c, rest |-> b]
    <2> HIDE DEF c, b
    <2>4. q \in [done : Seq(E), rest : Seq(E)] /\ q.done \o q.rest = p.done \o p.rest
        BY <2>2
    <2> HIDE DEF q
    <2>5. ReadOn(r, p) = q
        BY <2>3 DEF q
    <2> QED BY <2>4, <2>5
<1> QED BY <1>2, <1>3, <1>4

LEMMA ReplacedKeeps ==
    ASSUME NEW E, Vocabulary \subseteq E, NEW text \in Seq(E), NEW r, IsPhrasing(r)
    PROVE  /\ Replaced(text, r) \in Seq(E)
           /\ HasNotShippedCue(text) => HasNotShippedCue(Replaced(text, r))
<1> DEFINE n == Len(text)
           A == {p \in [done : Seq(E), rest : Seq(E)] :
                    HasNotShippedCue(text) => HasNotShippedCue(p.done \o p.rest)}
           base == [done |-> <<>>, rest |-> text]
           F == [q \in A \X (1..n) |-> ReadOn(r, q[1])]
<1>1. n \in Nat /\ DOMAIN text = 1..n
    BY LenNat
<1>2. base \in A
    <2>1. <<>> \o text = text /\ <<>> \in Seq(E)
        OBVIOUS
    <2> QED BY <2>1
<1>3. \A p \in A : ReadOn(r, p) \in A
    BY ReadOnKeeps
<1>4. F \in [A \X (1..n) -> A]
    <2> HIDE DEF A
    <2> QED BY <1>3
<1>5. PICK g : IsLoop(g, A, base, n, F)
    <2> HIDE DEF n, F, A, base
    <2> QED BY <1>1, <1>2, <1>4, LoopTable
<1> HIDE DEF A, base
<1>6. ASSUME NEW t \in SUBSET (1..n), t # {}
      PROVE  g[t] = ReadOn(r, g[t \ {Max(t)}])
    <2>1. Max(t) \in 1..n /\ t \ {Max(t)} \in SUBSET (1..n)
        BY <1>1, <1>6, MaxIsGreatest
    <2> QED BY <1>5, <1>6, <2>1 DEF IsLoop
<1>7. g = [t \in SUBSET (1..n) |-> IF t = {} THEN base ELSE ReadOn(r, g[t \ {Max(t)}])]
    BY <1>5, <1>6 DEF IsLoop
<1>8. PICK k : /\ k = [t \in SUBSET (1..n) |-> IF t = {} THEN base ELSE ReadOn(r, k[t \ {Max(t)}])]
               /\ Replaced(text, r) = k[1..n].done \o k[1..n].rest
    <2> DEFINE It == CHOOSE f : f = [t \in SUBSET (1..n) |-> IF t = {} THEN base ELSE ReadOn(r, f[t \ {Max(t)}])]
    <2>1. It = [t \in SUBSET (1..n) |-> IF t = {} THEN base ELSE ReadOn(r, It[t \ {Max(t)}])]
        BY <1>7
    <2> HIDE DEF n
    <2>2. Replaced(text, r) = It[1..n].done \o It[1..n].rest
        BY <1>1, Zenon DEF Replaced, FoldLeft, MapThenFoldSet, base
    <2> HIDE DEF It
    <2> QED BY <2>1, <2>2
<1> DEFINE T == {i \in Nat : i <= n => k[1..i] \in A}
<1>9. 0 \in T
    BY <1>1, <1>2, <1>8
<1>10. ASSUME NEW i \in Nat, i \in T PROVE i + 1 \in T
    <2> SUFFICES ASSUME i + 1 <= n PROVE k[1..(i + 1)] \in A
        OBVIOUS
    <2>1. /\ 1..(i + 1) # {} /\ Max(1..(i + 1)) = i + 1
          /\ (1..(i + 1)) \ {i + 1} = 1..((i + 1) - 1)
        BY InitialSegment
    <2>2. 1..(i + 1) \in SUBSET (1..n) /\ (i + 1) - 1 = i /\ i + 1 \in 1..n
        BY <1>1
    <2>3. k[1..(i + 1)] = ReadOn(r, k[1..i])
        BY <1>8, <2>1, <2>2
    <2> QED BY <1>1, <1>3, <1>10, <2>3
<1>11. n \in T
    <2> HIDE DEF T
    <2> QED BY <1>1, <1>9, <1>10, Induct
<1>12. k[1..n] \in A
    BY <1>1, <1>11
<1> DEFINE end == k[1..n]
<1>13. end \in A /\ Replaced(text, r) = end.done \o end.rest
    BY <1>8, <1>12
<1> HIDE DEF end
<1>14. end.done \in Seq(E) /\ end.rest \in Seq(E)
    BY <1>13 DEF A
<1>15. end.done \o end.rest \in Seq(E)
    BY <1>14, JoinType
<1> QED BY <1>13, <1>15 DEF A

\* whatever the order of the replacements, the text goes on to say what it said
LEMMA RewrittenKeeps ==
    ASSUME NEW E, Vocabulary \subseteq E, NEW text \in Seq(E), NEW R, IsFiniteSet(R),
           \A r \in R : IsPhrasing(r), NEW new \in Rewritten(text, R)
    PROVE  /\ new \in Seq(E)
           /\ HasNotShippedCue(text) => HasNotShippedCue(new)
<1> DEFINE n == Cardinality(R)
           Good == {p \in Seq(E) \X SUBSET R : HasNotShippedCue(text) => HasNotShippedCue(p[1])}
           A == SUBSET Good
           base == {<<text, R>>}
           F == [q \in A \X (1..n) |-> OneMore(q[1])]
           turns == [k \in 1..n |-> k]
<1>1. n \in Nat
    BY FS_CardinalityType
<1>2. ASSUME NEW p \in Good, NEW r \in p[2] PROVE <<Replaced(p[1], r), p[2] \ {r}>> \in Good
    <2>1. p[1] \in Seq(E) /\ p[2] \in SUBSET R /\ r \in R
        OBVIOUS
    <2>2. IsPhrasing(r)
        BY <2>1
    <2>3. /\ Replaced(p[1], r) \in Seq(E)
          /\ HasNotShippedCue(p[1]) => HasNotShippedCue(Replaced(p[1], r))
        BY <2>1, <2>2, ReplacedKeeps
    <2> QED BY <2>1, <2>3
<1>3. base \in A
    OBVIOUS
<1>4. \A pairs \in A : OneMore(pairs) \in A
    <2> HIDE DEF Good
    <2> QED BY <1>2 DEF OneMore
<1>5. F \in [A \X (1..n) -> A]
    <2> HIDE DEF A
    <2> QED BY <1>4
<1>6. PICK g : IsLoop(g, A, base, n, F)
    <2> HIDE DEF n, F, A, base
    <2> QED BY <1>1, <1>3, <1>5, LoopTable
<1> HIDE DEF A, base
<1>7. ASSUME NEW t \in SUBSET (1..n), t # {}
      PROVE  g[t] = OneMore(g[t \ {Max(t)}])
    <2>1. Max(t) \in 1..n /\ t \ {Max(t)} \in SUBSET (1..n)
        BY <1>1, <1>7, MaxIsGreatest
    <2> QED BY <1>6, <1>7, <2>1 DEF IsLoop
<1>8. g = [t \in SUBSET (1..n) |-> IF t = {} THEN base ELSE OneMore(g[t \ {Max(t)}])]
    BY <1>6, <1>7 DEF IsLoop
<1>9. PICK k : /\ k = [t \in SUBSET (1..n) |-> IF t = {} THEN base ELSE OneMore(k[t \ {Max(t)}])]
               /\ Rewritten(text, R) = {p[1] : p \in k[1..n]}
    <2> DEFINE It == CHOOSE f : f = [t \in SUBSET (1..n) |-> IF t = {} THEN base ELSE OneMore(f[t \ {Max(t)}])]
    <2>1. It = [t \in SUBSET (1..n) |-> IF t = {} THEN base ELSE OneMore(It[t \ {Max(t)}])]
        BY <1>8
    <2>2. DOMAIN turns = 1..n
        OBVIOUS
    <2>3. Rewritten(text, R) = {p[1] : p \in It[1..n]}
        BY <2>2, Zenon DEF Rewritten, FoldLeft, MapThenFoldSet, base
    <2> HIDE DEF It
    <2> QED BY <2>1, <2>3
<1> DEFINE T == {i \in Nat : i <= n => k[1..i] \in A}
<1>10. 0 \in T
    BY <1>1, <1>3, <1>9
<1>11. ASSUME NEW i \in Nat, i \in T PROVE i + 1 \in T
    <2> SUFFICES ASSUME i + 1 <= n PROVE k[1..(i + 1)] \in A
        OBVIOUS
    <2>1. /\ 1..(i + 1) # {} /\ Max(1..(i + 1)) = i + 1
          /\ (1..(i + 1)) \ {i + 1} = 1..((i + 1) - 1)
        BY InitialSegment
    <2>2. 1..(i + 1) \in SUBSET (1..n) /\ (i + 1) - 1 = i /\ i + 1 \in 1..n
        BY <1>1
    <2>3. k[1..(i + 1)] = OneMore(k[1..i])
        BY <1>9, <2>1, <2>2
    <2> QED BY <1>1, <1>4, <1>11, <2>3
<1>12. n \in T
    <2> HIDE DEF T
    <2> QED BY <1>1, <1>10, <1>11, Induct
<1>13. k[1..n] \in A
    BY <1>1, <1>12
<1>14. PICK p \in k[1..n] : new = p[1]
    BY <1>9
<1>15. p \in Good
    BY <1>13, <1>14 DEF A
<1> QED BY <1>14, <1>15

LEMMA NormalisedKeeps ==
    ASSUME NEW E, Vocabulary \subseteq E, NEW text \in Seq(E), NEW new \in Normalised(text)
    PROVE  /\ new \in Seq(E)
           /\ HasNotShippedCue(text) => HasNotShippedCue(new)
BY RewrittenKeeps, Phrasings, PhrasingsFinite DEF Normalised

LEMMA PromptKeeps ==
    ASSUME NEW E, Vocabulary \subseteq E, NEW text \in Seq(E), NEW new \in PromptNormalised(text)
    PROVE  HasNotShippedCue(text) => HasNotShippedCue(new)
<1>1. PICK prompt \in Rewritten(text, Prompts) : new \in Normalised(prompt)
    BY DEF PromptNormalised
<1>2. /\ prompt \in Seq(E)
      /\ HasNotShippedCue(text) => HasNotShippedCue(prompt)
    BY <1>1, RewrittenKeeps, Phrasings, PhrasingsFinite
<1> QED BY <1>1, <1>2, NormalisedKeeps

\* a wording of a message says "not shipped" if the message does
LEMMA WordingKeeps ==
    ASSUME NEW w \in Wordings \cup PromptWordings, HasNotShippedCue(w[1])
    PROVE  HasNotShippedCue(w[2])
<1>1. PICK t \in Texts : w \in {<<t, m>> : m \in Normalised(t)} \/ w \in {<<t, m>> : m \in PromptNormalised(t)}
    BY DEF Wordings, PromptWordings
<1>2. w[1] = t /\ (w[2] \in Normalised(t) \/ w[2] \in PromptNormalised(t))
    BY <1>1
<1> DEFINE E == Range(t) \cup Vocabulary
<1>3. t \in Seq(E)
    BY SemanticSearchConstants
<1>4. Vocabulary \subseteq E
    OBVIOUS
<1> HIDE DEF E
<1> QED BY <1>2, <1>3, <1>4, NormalisedKeeps, PromptKeeps

-----------------------------------------------------------------------------
(* Analyses *)

NoteNames ==
    {"slm_remote_used", "slm_remote_fallback", "slm_remote_invalid_fallback",
     "vetted", "last_resort", "superlinked_served"}

Analysis(filters) ==
    [query : Queries(filters), intent : Known(IntentCategories), resource : Resources,
     confidence : Int, clarify : BOOLEAN, notes : SUBSET NoteNames]

\* what an analysis owes to the text it was made from
Honest(text, a) ==
    /\ a.query.intent = a.intent
    /\ text \in Contradictory => a.clarify \/ "slm_remote_used" \in a.notes
    /\ HasNotShippedCue(text) /\ a.resource = "order" /\ a.query.intent = "wismo" /\ ~a.clarify =>
         Range(Denials) \subseteq Range(a.query.filters)

Reading(text, a) == a \in Analysis(Fair(text)) /\ Honest(text, a)

LEMMA WiderSeq == ASSUME NEW S, NEW T, S \subseteq T PROVE Seq(S) \subseteq Seq(T)
OBVIOUS

LEMMA FairByCue ==
    ASSUME NEW text, NEW wording, HasNotShippedCue(text) => HasNotShippedCue(wording)
    PROVE  Fair(wording) \subseteq Fair(text)
BY DEF Fair

LEMMA WiderParsed ==
    ASSUME NEW S, NEW T, S \subseteq T
    PROVE  Parsed(S) \subseteq Parsed(T)
BY WiderSeq DEF Parsed, Queries

\* the framer's reading of a wording of the text
LEMMA WordingReads ==
    ASSUME NEW w \in Wordings \cup PromptWordings, NEW version \in {"v1", "v2"}, NEW hint
    PROVE  LET p == ParseText(w[2], version, hint)
           IN /\ p \in Parsed(Fair(w[1]))
              /\ p.query.intent = p.intent
              /\ w[1] \in Contradictory => p.clarify
              /\ HasNotShippedCue(w[1]) /\ p.intent = "wismo" /\ ~p.clarify =>
                    Range(Denials) \subseteq Range(p.query.filters)
<1> DEFINE p == ParseText(w[2], version, hint)
<1>1. HasNotShippedCue(w[1]) => HasNotShippedCue(w[2])
    BY WordingKeeps
<1>2. p \in Parsed(Fair(w[1]))
    BY <1>1, ParseType, FairByCue, WiderParsed
<1>3. w[1] \in Contradictory => HasPaymentConflict(w[2])
    BY DEF Contradictory
<1>4. /\ p.query.intent = p.intent
      /\ HasPaymentConflict(w[2]) => p.clarify
      /\ HasNotShippedCue(w[2]) /\ p.intent = "wismo" /\ ~p.clarify =>
            Range(Denials) \subseteq Range(p.query.filters)
    BY ParseMeans
<1> HIDE DEF p
<1>5. /\ p \in Parsed(Fair(w[1]))
      /\ p.query.intent = p.intent
      /\ w[1] \in Contradictory => p.clarify
      /\ HasNotShippedCue(w[1]) /\ p.intent = "wismo" /\ ~p.clarify =>
            Range(Denials) \subseteq Range(p.query.filters)
    BY <1>1, <1>2, <1>3, <1>4
<1> QED BY <1>5 DEF p

LEMMA NotedReads ==
    ASSUME NEW text, NEW p \in Parsed(Fair(text)), NEW notes \in SUBSET NoteNames,
           p.query.intent = p.intent, text \in Contradictory => p.clarify,
           HasNotShippedCue(text) /\ p.resource = "order" /\ p.intent = "wismo" /\ ~p.clarify =>
              Range(Denials) \subseteq Range(p.query.filters)
    PROVE  Reading(text, Noted(p, notes))
BY DEF Reading, Honest, Noted, Parsed, Analysis

LEMMA FramedReads ==
    ASSUME request \in Requests, NEW notes \in SUBSET NoteNames, NEW a \in Framed(notes)
    PROVE  Reading(request.text, a) /\ a.notes = notes
<1>1. PICK m \in Entries(Framings) : a = Noted(m[2], notes)
    BY DEF Framed
<1>2. PICK w \in Wordings, version \in {"v1", "v2"}, hint \in Hints \cup Resources :
        m = <<<<w[1], version, hint>>, ParseText(w[2], version, hint)>>
    BY <1>1 DEF Entries, Framings, Parses
<1>3. w[1] = request.text /\ m[2] = ParseText(w[2], version, hint)
    BY <1>1, <1>2 DEF Entries
<1> DEFINE p == ParseText(w[2], version, hint)
<1>4. /\ p \in Parsed(Fair(w[1]))
      /\ p.query.intent = p.intent
      /\ w[1] \in Contradictory => p.clarify
      /\ HasNotShippedCue(w[1]) /\ p.intent = "wismo" /\ ~p.clarify =>
            Range(Denials) \subseteq Range(p.query.filters)
    BY WordingReads
<1> HIDE DEF p
<1>5. Reading(request.text, Noted(p, notes))
    BY <1>3, <1>4, NotedReads
<1>6. a = Noted(p, notes) /\ a.notes = notes
    BY <1>1, <1>3 DEF p, Noted
<1> QED BY <1>5, <1>6

-----------------------------------------------------------------------------
(* The guardrails *)

\* what the guardrail leaves of a model's filters excludes what the user ruled out
LEMMA Overruling ==
    ASSUME NEW text, HasNotShippedCue(text), NEW filters \in Seq(Plain)
    PROVE  LET result == Tolerated(filters) \o NotShippedFilters(Tolerated(filters))
           IN result \in Seq(Fair(text)) /\ Range(Denials) \subseteq Range(result)
<1> DEFINE Named(f) == [f EXCEPT !.field = NormalizeField("order", @)]
           named == [i \in DOMAIN filters |-> Named(filters[i])]
           rest == Range(named) \ {Is("shipment.state", state) : state \in DeniedStates}
           tolerated == Kept(named, rest)
           S == Range(Denials) \ Range(tolerated)
           added == Kept(Denials, S)
<1>1. \A f \in Plain : Named(f) \in Plain
    BY NormalNames DEF Plain
<1>2. named \in Seq(Plain)
    <2> HIDE DEF Named
    <2> QED BY <1>1
<1>3. tolerated \in Seq(Fair(text))
    <2> HIDE DEF named
    <2>1. tolerated \in Seq(Plain \cap rest)
        BY <1>2, KeptFrom
    <2>2. Plain \cap rest \subseteq Fair(text)
        BY DEF Fair, Opposites
    <2> HIDE DEF tolerated, rest
    <2> QED BY <2>1, <2>2
<1>4. Denials \in Seq(Fair(text))
    BY DenialsFair
<1> HIDE DEF tolerated
<1>5. added \in Seq(Fair(text)) /\ Range(added) = Range(Denials) \cap S
    BY <1>4, KeptType, KeptRange
<1> HIDE DEF added
<1>6. tolerated \o added \in Seq(Fair(text)) /\ Range(tolerated \o added) = Range(tolerated) \cup Range(added)
    BY <1>3, <1>5, JoinType, JoinRange
<1>7. Range(Denials) \subseteq Range(tolerated \o added)
    BY <1>5, <1>6
<1>8. Tolerated(filters) = tolerated
    BY DEF Tolerated, tolerated
<1>9. NotShippedFilters(Tolerated(filters)) = added
    BY <1>8 DEF NotShippedFilters, added
<1> QED BY <1>6, <1>7, <1>8, <1>9

\* only orders, for their shipping, may be asked for a shipment state
LEMMA ShippingOnly ==
    ASSUME NEW r \in Resources, NEW version, NEW intent,
           ValidateField(r, version, intent, "shipment.state")
    PROVE  r = "order" /\ intent = "wismo"
<1>1. version = "v2"
    BY DEF ValidateField, V1SearchableFields
<1>2. PICK f \in FieldsOf(r) : /\ f.name = NormalizeField(r, "shipment.state")
                               /\ f.scopes \cap {intent, "default"} # {}
    BY <1>1 DEF ValidateField, IsFieldAllowed
<1>3. CASE r = "order"
    <2> DEFINE state == Field("shipment.state", "shipment_state", TRUE, {"wismo"})
    <2>1. state \in FieldsOf(r) /\ state.name = "shipment.state" /\ state.scopes = {"wismo"}
        BY <1>3 DEF FieldsOf, OrderFields, Field
    <2> HIDE DEF state
    <2>2. Spells("shipment.state", state) /\ Lowered("shipment.state") = "shipment.state"
        BY <2>1 DEF Spells, Lowered
    <2>3. f.name = state.name
        BY <1>2, <2>1, <2>2, Resolved
    <2>4. f = state
        BY <2>1, <2>3, OneMeaning DEF Spells
    <2> QED BY <1>2, <1>3, <2>1, <2>4
<1>4. CASE r = "customer"
    <2>1. \A g \in CustomerFields : g.name # "shipment.state" /\ g.column # "shipment.state"
        BY SMTT(60) DEF CustomerFields, Field
    <2>2. FieldsOf(r) = CustomerFields /\ Lowered("shipment.state") = "shipment.state"
        BY <1>4 DEF FieldsOf, Lowered
    <2>3. NormalizeField(r, "shipment.state") = "shipment.state"
        BY <2>1, <2>2, Unresolved DEF Spells
    <2> QED BY <1>2, <2>1, <2>2, <2>3
<1> QED BY <1>3, <1>4 DEF Resources

LEMMA GuardedReads ==
    ASSUME NEW text, NEW a, a.query.filters \in Seq(Plain),
           IsOverruled(text, a) \/ a.query.filters \in Seq(Fair(text))
    PROVE  LET g == Guarded(text, a)
               fs == IF IsOverruled(text, a)
                     THEN Tolerated(a.query.filters) \o NotShippedFilters(Tolerated(a.query.filters))
                     ELSE a.query.filters
           IN /\ g = IF IsOverruled(text, a) THEN [a EXCEPT !.query.filters = fs] ELSE a
              /\ fs \in Seq(Fair(text))
              /\ IsOverruled(text, a) => Range(Denials) \subseteq Range(fs)
<1>1. IsOverruled(text, a) => HasNotShippedCue(text)
    BY DEF IsOverruled
<1> QED BY <1>1, Overruling DEF Guarded

\* the framer's reading of the prompt
LEMMA FallbackReads ==
    ASSUME request \in Requests, NEW notes \in SUBSET NoteNames, NEW a \in ModelFallback(notes)
    PROVE  Reading(request.text, a) /\ a.notes = {"slm_remote_fallback"} \cup notes
<1>1. PICK m \in Entries(Fallbacks) : a = Noted(m[2], {"slm_remote_fallback"} \cup notes)
    BY DEF ModelFallback
<1>2. PICK k \in Parses(PromptWordings) : m = <<k[1], Fallback(k[1][1], k[2])>>
    BY <1>1 DEF Entries, Fallbacks
<1>3. PICK w \in PromptWordings, version \in {"v1", "v2"}, hint \in Hints \cup Resources :
        k = <<<<w[1], version, hint>>, ParseText(w[2], version, hint)>>
    BY <1>2 DEF Parses
<1> DEFINE p == ParseText(w[2], version, hint)
           text == request.text
           q == [p EXCEPT !.confidence = IF @ + 5 > 98 THEN 98 ELSE @ + 5]
           g == Guarded(text, q)
           fs == IF IsOverruled(text, q)
                 THEN Tolerated(q.query.filters) \o NotShippedFilters(Tolerated(q.query.filters))
                 ELSE q.query.filters
<1>4. w[1] = text /\ m[2] = g
    BY <1>1, <1>2, <1>3 DEF Entries, Fallback
<1>5. /\ p \in Parsed(Fair(w[1]))
      /\ p.query.intent = p.intent
      /\ w[1] \in Contradictory => p.clarify
      /\ HasNotShippedCue(w[1]) /\ p.intent = "wismo" /\ ~p.clarify =>
            Range(Denials) \subseteq Range(p.query.filters)
    BY WordingReads
<1> HIDE DEF p, text
<1>6. /\ q \in Parsed(Fair(text)) /\ q.query.filters \in Seq(Fair(text))
      /\ q.query.intent = q.intent
      /\ text \in Contradictory => q.clarify
      /\ HasNotShippedCue(text) /\ q.intent = "wismo" /\ ~q.clarify =>
            Range(Denials) \subseteq Range(q.query.filters)
    BY <1>4, <1>5 DEF Parsed, Queries
<1> HIDE DEF q
<1>7. q.query.filters \in Seq(Plain)
    <2>1. Fair(text) \subseteq Plain
        BY DEF Fair
    <2> QED BY <1>6, <2>1
<1>8. /\ g = IF IsOverruled(text, q) THEN [q EXCEPT !.query.filters = fs] ELSE q
      /\ fs \in Seq(Fair(text))
      /\ IsOverruled(text, q) => Range(Denials) \subseteq Range(fs)
    BY <1>6, <1>7, GuardedReads
<1> HIDE DEF g, fs
<1>9. /\ g \in Parsed(Fair(text)) /\ g.query.intent = g.intent /\ g.resource = q.resource
      /\ g.intent = q.intent /\ g.clarify = q.clarify
      /\ IsOverruled(text, q) => Range(Denials) \subseteq Range(g.query.filters)
      /\ ~IsOverruled(text, q) => g = q
    BY <1>6, <1>8 DEF Parsed, Queries
<1>10. HasNotShippedCue(text) /\ g.resource = "order" /\ g.intent = "wismo" /\ ~g.clarify =>
              Range(Denials) \subseteq Range(g.query.filters)
    BY <1>9 DEF IsOverruled
<1>11. {"slm_remote_fallback"} \cup notes \in SUBSET NoteNames
    BY DEF NoteNames
<1>12. Reading(text, Noted(g, {"slm_remote_fallback"} \cup notes))
    BY <1>6, <1>9, <1>10, <1>11, NotedReads
<1> QED BY <1>1, <1>4, <1>12 DEF text, Noted

\* the names an analysis uses are allowed by its version and intent
Allowed(a) ==
    /\ \A i \in DOMAIN a.query.filters :
         ValidateField(a.resource, a.query.version, a.query.intent, a.query.filters[i].field)
    /\ a.query.sort = Unset \/ ValidateField(a.resource, a.query.version, a.query.intent, a.query.sort)

\* a model's answer that validates
LEMMA AnswerReads ==
    ASSUME request \in Requests, NEW g \in ValidAnswers
    PROVE  Reading(request.text, g) /\ g.notes = {"slm_remote_used"}
<1> DEFINE text == request.text
           version == request.version
<1>1. PICK a \in ModelAnswers \ Invalid :
        g = Guarded(text, Completed(Noted(a, {"slm_remote_used"}), version))
    BY DEF ValidAnswers
<1>2. Acceptable(a, version) /\ a \in Replies /\ version \in {"v1", "v2"}
    BY <1>1, SemanticSearchConstants DEF Invalid, Requests
<1> DEFINE c == Completed(Noted(a, {"slm_remote_used"}), version)
<1> HIDE DEF text, version
<1>3. a.query.filters \in Seq(Plain)
    <2> DEFINE S == [field : Names, op : Operators, value : Values]
    <2>1. S \subseteq Plain
        BY DEF Plain
    <2>2. a.query.filters \in Seq(S)
        BY <1>2 DEF Replies
    <2> HIDE DEF S
    <2> QED BY <2>1, <2>2, WiderSeq
<1>4. /\ a.resource \in Resources /\ a.intent \in Intents
      /\ Completed(a, version).query.intent = a.intent
      /\ \A i \in DOMAIN a.query.filters :
            ValidateField(a.resource, Completed(a, version).query.version, a.intent,
                          a.query.filters[i].field)
    BY <1>2 DEF Acceptable, Completed, Replies
<1>5. /\ c.query.version = Completed(a, version).query.version
      /\ c.query.intent = Completed(a, version).query.intent
      /\ c.query.filters = a.query.filters /\ c.query.sort = a.query.sort
      /\ c.intent = a.intent /\ c.resource = a.resource /\ c.clarify = a.clarify
      /\ c.notes = {"slm_remote_used"}
    BY <1>2 DEF Completed, Noted, Replies
<1>6. c.query.version \in Known(ContractVersions) /\ c.query.intent \in Known(IntentCategories)
      /\ c.intent \in Known(IntentCategories)
    <2>1. {"v1", "v2"} \subseteq Known(ContractVersions)
        BY NamedValues
    <2>2. Completed(a, version).query.version \in Known(ContractVersions)
        <3>1. Completed(a, version).query.version = IF a.query.version = Unset THEN version ELSE a.query.version
            BY <1>2 DEF Completed, Replies
        <3>2. a.query.version \in ContractVersions
            BY <1>2 DEF Replies
        <3> QED BY <1>2, <2>1, <3>1, <3>2 DEF Known
    <2>3. a.intent \in Known(IntentCategories)
        BY <1>4, NamedValues
    <2> QED BY <1>4, <1>5, <2>2, <2>3
<1>7. c \in Analysis(Plain)
    <2>1. {"slm_remote_used"} \in SUBSET NoteNames
        BY DEF NoteNames
    <2> DEFINE n == Noted(a, {"slm_remote_used"})
               x == c.query.version
               y == c.query.intent
    <2>2. /\ n.query \in [version : ContractVersions, intent : IntentCategories,
                          filters : Seq(Plain), sort : Names \cup {Unset}]
          /\ n.intent = a.intent /\ n.resource = a.resource /\ n.confidence \in Int
          /\ n.clarify \in BOOLEAN /\ n.notes = {"slm_remote_used"}
          /\ n = [query |-> n.query, intent |-> n.intent, resource |-> n.resource,
                  confidence |-> n.confidence, clarify |-> n.clarify, notes |-> n.notes]
        BY <1>2, <1>3 DEF Noted, Replies
    <2>3. c = [n EXCEPT !.query.version = x, !.query.intent = y]
        <3> DEFINE v == IF n.query.version = Unset THEN version ELSE n.query.version
                   u == IF n.query.intent = Unset THEN n.intent ELSE n.query.intent
        <3>1. c = [n EXCEPT !.query.version = v, !.query.intent = u]
            BY DEF Completed
        <3> HIDE DEF v, u, n, c
        <3>2. c.query.version = v /\ c.query.intent = u
            BY <2>2, <3>1
        <3> QED BY <3>1, <3>2
    <2>4. x \in Known(ContractVersions) /\ y \in Known(IntentCategories) /\ n.intent \in Known(IntentCategories)
        BY <1>5, <1>6, <2>2
    <2> HIDE DEF n, x, y, c
    <2> QED BY <1>4, <2>1, <2>2, <2>3, <2>4 DEF Analysis, Queries
<1> HIDE DEF c
<1>8. IsOverruled(text, c) \/ c.query.filters \in Seq(Fair(text))
    <2> SUFFICES ASSUME ~IsOverruled(text, c) PROVE c.query.filters \in Seq(Fair(text))
        OBVIOUS
    <2>1. ASSUME NEW i \in DOMAIN a.query.filters PROVE a.query.filters[i] \in Fair(text)
        <3>1. a.query.filters[i] \in Plain
            BY <1>3
        <3>2. a.query.filters[i] \in Opposites => a.query.filters[i].field = "shipment.state"
            BY DEF Opposites, Is
        <3>3. a.query.filters[i] \in Opposites => a.resource = "order" /\ a.intent = "wismo"
            BY <1>4, <3>2, ShippingOnly
        <3> QED BY <1>5, <3>1, <3>3 DEF IsOverruled, Fair
    <2> QED BY <1>3, <1>5, <2>1
<1> DEFINE fs == IF IsOverruled(text, c)
                 THEN Tolerated(c.query.filters) \o NotShippedFilters(Tolerated(c.query.filters))
                 ELSE c.query.filters
<1>9. /\ g = IF IsOverruled(text, c) THEN [c EXCEPT !.query.filters = fs] ELSE c
      /\ fs \in Seq(Fair(text))
      /\ IsOverruled(text, c) => Range(Denials) \subseteq Range(fs)
    BY <1>1, <1>3, <1>5, <1>8, GuardedReads DEF c
<1> HIDE DEF fs
<1>10. /\ g \in Analysis(Fair(text)) /\ g.notes = c.notes /\ g.query.intent = c.query.intent
       /\ g.intent = c.intent /\ g.resource = c.resource
       /\ IsOverruled(text, c) => Range(Denials) \subseteq Range(g.query.filters)
    <2>1. CASE IsOverruled(text, c)
        BY <1>7, <1>9, <2>1 DEF Analysis, Queries
    <2>2. CASE ~IsOverruled(text, c)
        <3>1. c.query.filters \in Seq(Fair(text))
            BY <1>8, <2>2
        <3> QED BY <1>7, <1>9, <2>2, <3>1 DEF Analysis, Queries
    <2> QED BY <2>1, <2>2
<1>11. Honest(text, g)
    BY <1>4, <1>5, <1>10 DEF Honest, IsOverruled
<1> QED BY <1>5, <1>10, <1>11 DEF Reading, text

-----------------------------------------------------------------------------
(* What the gateway and the router make of a reading *)

Explicit(r, f) == f # CandidateFilter /\ HasAuthoritativeSupportFilter(r, <<f>>)

\* vetted by the router and by nothing else
Vetted(a) == "vetted" \in a.notes /\ a.notes \cap {"last_resort", "superlinked_served"} = {}

Traced(a) == a.notes \cap {"vetted", "last_resort", "superlinked_served"} # {}

\* an analysis on its own
Whole(text, a) ==
    /\ a \in Analysis(Fair(text) \cup {CandidateFilter})
    /\ Honest(text, a)
    /\ CandidateFilter \in Range(a.query.filters) =>
         \A f \in Range(a.query.filters) : ~Explicit(a.resource, f)
    /\ Vetted(a) => Allowed(a)

\* one of two
Leg(text, a) == Reading(text, a) /\ Traced(a) /\ (Vetted(a) => Allowed(a))

Agree(first, a) ==
    /\ first.resource = a.resource
    /\ first.query.version = a.query.version
    /\ first.query.intent = a.query.intent

\* what the reply is made of
Reply(text, legs, a) ==
    /\ a \in Analysis(Fair(text) \cup {CandidateFilter})
    /\ Honest(text, a)
    /\ CandidateFilter \in Range(a.query.filters) =>
         \A f \in Range(a.query.filters) :
            Explicit(a.resource, f) => legs # <<>> /\ f \in Range(legs[1].query.filters)
    /\ Vetted(a) /\ (legs # <<>> => Agree(legs[1], a)) => Allowed(a)

\* neither the framer nor a model writes the candidates' filter
LEMMA CandidatesAreNotPlain == CandidateFilter \notin Plain
<1>1. CandidateFilter.value \notin FramerValues
    BY DEF CandidateFilter, FramerValues
<1> QED BY <1>1, SemanticSearchConstants DEF Plain

LEMMA WiderAnalysis ==
    ASSUME NEW text
    PROVE  Analysis(Fair(text)) \subseteq Analysis(Fair(text) \cup {CandidateFilter})
<1> DEFINE S == Fair(text)
           T == Fair(text) \cup {CandidateFilter}
<1>1. Seq(S) \subseteq Seq(T)
    <2>1. S \subseteq T
        OBVIOUS
    <2> HIDE DEF S, T
    <2> QED BY <2>1, WiderSeq
<1> HIDE DEF S, T
<1>2. Analysis(S) \subseteq Analysis(T)
    BY <1>1 DEF Analysis, Queries
<1> QED BY <1>2 DEF S, T

LEMMA NoCandidates ==
    ASSUME NEW text, NEW a \in Analysis(Fair(text))
    PROVE  CandidateFilter \notin Range(a.query.filters)
<1>1. a.query.filters \in Seq(Fair(text)) /\ Fair(text) \subseteq Plain
    BY DEF Analysis, Queries, Fair
<1> QED BY <1>1, CandidatesAreNotPlain DEF Range

LEMMA ReadingIsWhole ==
    ASSUME NEW text, NEW a, Reading(text, a), Vetted(a) => Allowed(a)
    PROVE  Whole(text, a)
BY WiderAnalysis, NoCandidates DEF Reading, Whole

LEMMA WholeIsReply ==
    ASSUME NEW text, NEW a, Whole(text, a)
    PROVE  Reply(text, <<>>, a)
BY DEF Whole, Reply

\* the router lets pass what is allowed
LEMMA PassReads ==
    ASSUME request \in Requests, Reading(request.text, draft), Passes(draft)
    PROVE  LET a == [Completed(draft, request.version) EXCEPT !.notes = @ \cup {"vetted"}]
           IN Leg(request.text, a)
<1> DEFINE a == [draft EXCEPT !.notes = @ \cup {"vetted"}]
<1>1. draft \in Analysis(Fair(request.text)) /\ Honest(request.text, draft)
    BY DEF Reading
<1>2. draft.query.version # Unset /\ draft.query.intent # Unset
    BY <1>1 DEF Analysis, Queries, Known
<1>3. Completed(draft, request.version) = draft
    <2> DEFINE S == Fair(request.text)
    <2>0. draft \in Analysis(S)
        BY <1>1
    <2> HIDE DEF S
    <2>1. draft.query = [version |-> draft.query.version, intent |-> draft.query.intent,
                         filters |-> draft.query.filters, sort |-> draft.query.sort]
        BY <2>0 DEF Analysis, Queries
    <2>2. draft = [query |-> draft.query, intent |-> draft.intent, resource |-> draft.resource,
                   confidence |-> draft.confidence, clarify |-> draft.clarify, notes |-> draft.notes]
        BY <2>0 DEF Analysis, Queries
    <2> QED BY <1>2, <2>1, <2>2 DEF Completed
<1>4. Acceptable(draft, request.version)
    BY DEF Passes
<1>5. Allowed(draft)
    BY <1>1, <1>3, <1>4 DEF Acceptable, Allowed, Honest
<1>6. /\ a \in Analysis(Fair(request.text)) /\ a.query = draft.query /\ a.resource = draft.resource
      /\ a.intent = draft.intent /\ a.clarify = draft.clarify /\ a.notes = draft.notes \cup {"vetted"}
    <2> DEFINE S == Fair(request.text)
    <2>0. draft \in Analysis(S)
        BY <1>1
    <2> HIDE DEF S
    <2>1. a \in Analysis(S)
        BY <2>0 DEF Analysis, NoteNames
    <2>2. /\ a.query = draft.query /\ a.resource = draft.resource
          /\ a.intent = draft.intent /\ a.clarify = draft.clarify /\ a.notes = draft.notes \cup {"vetted"}
        BY <2>0 DEF Analysis
    <2> QED BY <2>1, <2>2 DEF S
<1> HIDE DEF a
<1>7. Honest(request.text, a) /\ Traced(a) /\ Allowed(a)
    BY <1>1, <1>5, <1>6 DEF Honest, Traced, Allowed
<1>8. Leg(request.text, a)
    BY <1>6, <1>7 DEF Leg, Reading
<1> QED BY <1>3, <1>8 DEF a

\* candidates come where nothing explicit is
LEMMA NarrowedIsWhole ==
    ASSUME NEW text, NEW a, Reading(text, a), "vetted" \notin a.notes
    PROVE  /\ Whole(text, Narrowed(a))
           /\ Narrowed(a).notes = a.notes
           /\ Narrowed(a).clarify = a.clarify
           /\ Narrowed(a).confidence = a.confidence
<1> DEFINE S == Fair(text)
           T == Fair(text) \cup {CandidateFilter}
           n == [a EXCEPT !.query.filters = Append(@, CandidateFilter)]
<1>0. ~Vetted(a)
    BY DEF Vetted
<1>1. CASE HasAuthoritativeSupportFilter(a.resource, a.query.filters)
    BY <1>0, <1>1, ReadingIsWhole DEF Narrowed
<1>2. CASE ~HasAuthoritativeSupportFilter(a.resource, a.query.filters)
    <2>1. a \in Analysis(T) /\ a \in Analysis(S) /\ Honest(text, a) /\ CandidateFilter \in T
        BY WiderAnalysis DEF Reading
    <2> HIDE DEF S, T
    <2> DEFINE fs == a.query.filters
               longer == Append(fs, CandidateFilter)
    <2>2. fs \in Seq(T)
        BY <2>1 DEF Analysis, Queries
    <2>3. longer \in Seq(T) /\ Range(longer) = Range(fs) \cup {CandidateFilter}
        <3> HIDE DEF fs
        <3> DEFINE c == CandidateFilter
        <3>1. c \in T
            BY <2>1
        <3> HIDE DEF c
        <3>2. Append(fs, c) \in Seq(T) /\ Append(fs, c) = fs \o <<c>> /\ <<c>> \in Seq(T)
            BY <2>2, <3>1
        <3>3. Range(fs \o <<c>>) = Range(fs) \cup Range(<<c>>)
            BY <2>2, <3>2, JoinRange
        <3>4. Range(<<c>>) = {c}
            BY DEF Range
        <3> QED BY <3>2, <3>3, <3>4 DEF c
    <2> HIDE DEF longer
    <2>4. /\ n = [a EXCEPT !.query.filters = longer] /\ n \in Analysis(T)
          /\ n.query.filters = longer /\ n.query.intent = a.query.intent
          /\ n.intent = a.intent /\ n.resource = a.resource /\ n.clarify = a.clarify
          /\ n.notes = a.notes /\ n.confidence = a.confidence
        <3>1. n = [a EXCEPT !.query.filters = longer]
            BY DEF longer
        <3> HIDE DEF n, fs
        <3> QED BY <2>1, <2>3, <3>1 DEF Analysis, Queries
    <2> HIDE DEF n
    <2>5. Honest(text, n)
        BY <2>1, <2>3, <2>4 DEF Honest
    <2>6. \A f \in Range(fs) : ~Explicit(a.resource, f)
        <3> SUFFICES ASSUME NEW f \in Range(fs) PROVE ~Explicit(a.resource, f)
            OBVIOUS
        <3>1. PICK i \in DOMAIN fs : f = fs[i]
            BY DEF Range
        <3>2. ~HasAuthoritativeSupportFilter(a.resource, <<f>>)
            BY <1>2, <3>1 DEF HasAuthoritativeSupportFilter
        <3> QED BY <3>2 DEF Explicit
    <2>7. ~Explicit(a.resource, CandidateFilter)
        BY DEF Explicit
    <2>8. Whole(text, n)
        BY <1>0, <2>3, <2>4, <2>5, <2>6, <2>7 DEF Whole, Vetted, T
    <2>9. Narrowed(a) = n
        BY <1>2 DEF Narrowed, n
    <2> QED BY <2>4, <2>8, <2>9
<1> QED BY <1>1, <1>2

LEMMA ServedIsWhole ==
    ASSUME NEW text, NEW p, Reading(text, p), ~p.clarify, p.notes = {"superlinked_served"},
           NEW answer, answer.confidence \in Int
    PROVE  Whole(text, Served(p, answer)) /\ Traced(Served(p, answer))
<1> DEFINE S == Fair(text)
           c == IF answer.confidence > p.confidence THEN answer.confidence ELSE p.confidence
           r == [p EXCEPT !.confidence = c, !.clarify = FALSE]
<1>1. p \in Analysis(S) /\ Honest(text, p)
    BY DEF Reading
<1>2. r = Raised(p, answer)
    BY DEF Raised
<1> HIDE DEF S
<1>3. c \in Int
    BY <1>1 DEF Analysis
<1> HIDE DEF c
<1>4. /\ r \in Analysis(S) /\ r.query = p.query /\ r.intent = p.intent
      /\ r.resource = p.resource /\ r.notes = p.notes /\ r.clarify = FALSE
    BY <1>1, <1>3 DEF Analysis
<1> HIDE DEF r
<1>5. Reading(text, r)
    BY <1>1, <1>4 DEF Honest, Reading, S
<1>6. "vetted" \notin r.notes
    BY <1>4
<1>7. Whole(text, Narrowed(r)) /\ Narrowed(r).notes = r.notes
    BY <1>5, <1>6, NarrowedIsWhole
<1>8. Served(p, answer) = Narrowed(r)
    BY <1>2 DEF Served
<1> QED BY <1>4, <1>7, <1>8 DEF Traced

LEMMA MockedIsWhole ==
    ASSUME NEW text, NEW p, Reading(text, p), p.notes = {}, NEW found \in BOOLEAN
    PROVE  Whole(text, Mocked(p, found))
<1> DEFINE T == Fair(text) \cup {CandidateFilter}
           b == IF found /\ ~p.clarify THEN Narrowed(p) ELSE p
           c == IF b.confidence + 8 > 99 THEN 99 ELSE b.confidence + 8
           m == [b EXCEPT !.confidence = c]
<1>1. Whole(text, b) /\ b.notes = {}
    <2>1. Whole(text, p)
        BY ReadingIsWhole DEF Vetted
    <2>2. Whole(text, Narrowed(p)) /\ Narrowed(p).notes = {}
        BY NarrowedIsWhole
    <2> QED BY <2>1, <2>2
<1>2. m = Mocked(p, found)
    BY DEF Mocked
<1> HIDE DEF b, T
<1>3. b \in Analysis(T)
    BY <1>1 DEF Whole, T
<1>4. c \in Int
    BY <1>3 DEF Analysis
<1> HIDE DEF c
<1>5. /\ m \in Analysis(T) /\ m.query = b.query /\ m.intent = b.intent
      /\ m.resource = b.resource /\ m.notes = b.notes /\ m.clarify = b.clarify
    BY <1>3, <1>4 DEF Analysis
<1> HIDE DEF m
<1>6. Honest(text, m)
    BY <1>1, <1>5 DEF Honest, Whole
<1>7. ~Vetted(m)
    BY <1>1, <1>5 DEF Vetted
<1>8. Whole(text, m)
    BY <1>1, <1>5, <1>6, <1>7 DEF Whole, T
<1> QED BY <1>2, <1>8

\* the merge of two analyses denies what either does, and its notes are those of both
LEMMA MergedIsReply ==
    ASSUME NEW text, NEW first, Leg(text, first), NEW second, Whole(text, second), Traced(second)
    PROVE  Reply(text, <<first>>, Merged(first, second))
<1> DEFINE T == Fair(text) \cup {CandidateFilter}
           fs == MergeFilters(first.query.filters, second.query.filters)
           q == MergeQuery(first.query, second.query)
           c == IF first.confidence > second.confidence THEN first.confidence ELSE second.confidence
           notes == first.notes \cup second.notes
           m == [second EXCEPT !.query = q, !.confidence = c, !.notes = notes]
<1>1. m = Merged(first, second)
    BY DEF Merged
<1>2. first \in Analysis(T) /\ second \in Analysis(T)
    BY WiderAnalysis DEF Leg, Reading, Whole
<1>3. CandidateFilter \notin Range(first.query.filters)
    BY NoCandidates DEF Leg, Reading
<1> HIDE DEF T
<1>4. fs \in Seq(T) /\ Range(fs) = Range(first.query.filters) \cup Range(second.query.filters)
    <2> DEFINE a == first.query.filters
               b == second.query.filters
    <2>1. a \in Seq(T) /\ b \in Seq(T)
        BY <1>2 DEF Analysis, Queries
    <2> HIDE DEF a, b
    <2>2. a \o b \in Seq(T) /\ Range(a \o b) = Range(a) \cup Range(b)
        BY <2>1, JoinType, JoinRange
    <2>3. Distinct(a \o b) \in Seq(T) /\ ToSet(Distinct(a \o b)) = ToSet(a \o b)
        BY <2>2, DistinctType
    <2>4. \A s : ToSet(s) = Range(s)
        BY DEF ToSet, Range
    <2>5. fs = Distinct(a \o b)
        BY DEF MergeFilters, a, b
    <2> HIDE DEF fs
    <2> QED BY <2>2, <2>3, <2>4, <2>5 DEF a, b
<1>5. second.query.version # Unset /\ second.query.intent # Unset
    BY <1>2 DEF Analysis, Queries, Known
<1>6. /\ q.version = second.query.version /\ q.intent = second.query.intent
      /\ q.sort = IF second.query.sort = Unset THEN first.query.sort ELSE second.query.sort
      /\ q.filters = fs
      /\ q = [version |-> q.version, intent |-> q.intent, sort |-> q.sort, filters |-> q.filters]
    BY <1>5 DEF MergeQuery
<1> HIDE DEF q, fs
<1>7. q \in Queries(T)
    <2>1. /\ second.query.version \in Known(ContractVersions)
          /\ second.query.intent \in Known(IntentCategories)
          /\ q.sort \in Names \cup {Unset}
        BY <1>2, <1>6 DEF Analysis, Queries
    <2> QED BY <1>4, <1>6, <2>1 DEF Queries
<1>8. c \in Int
    BY <1>2 DEF Analysis
<1>9. notes \in SUBSET NoteNames
    BY <1>2 DEF Analysis
<1> HIDE DEF c, notes
<1>10. /\ m \in Analysis(T) /\ m.query = q /\ m.intent = second.intent /\ m.notes = notes
       /\ m.resource = second.resource /\ m.clarify = second.clarify
    BY <1>2, <1>7, <1>8, <1>9 DEF Analysis
<1> HIDE DEF m
<1>11. Honest(text, m)
    <2>1. Honest(text, second)
        BY DEF Whole
    <2>2. second.notes \subseteq m.notes
        BY <1>10 DEF notes
    <2> QED BY <1>4, <1>6, <1>10, <2>1, <2>2 DEF Honest
<1>12. CandidateFilter \in Range(m.query.filters) =>
         \A f \in Range(m.query.filters) :
            Explicit(m.resource, f) => <<first>> # <<>> /\ f \in Range(<<first>>[1].query.filters)
    <2> SUFFICES ASSUME CandidateFilter \in Range(m.query.filters),
                        NEW f \in Range(m.query.filters), Explicit(m.resource, f)
                 PROVE  f \in Range(first.query.filters)
        OBVIOUS
    <2>1. CandidateFilter \in Range(second.query.filters)
        BY <1>3, <1>4, <1>6, <1>10
    <2>2. f \notin Range(second.query.filters)
        BY <1>10, <2>1 DEF Whole
    <2> QED BY <1>4, <1>6, <1>10, <2>2
<1>13. ASSUME Vetted(m), Agree(first, m) PROVE Allowed(m)
    <2>1. notes \cap {"last_resort", "superlinked_served"} = {}
        BY <1>10, <1>13 DEF Vetted
    <2>2. Vetted(first) /\ Vetted(second)
        <3>1. first.notes \cap {"last_resort", "superlinked_served"} = {}
              /\ second.notes \cap {"last_resort", "superlinked_served"} = {}
            BY <2>1 DEF notes
        <3>2. Traced(first) /\ Traced(second)
            BY DEF Leg
        <3> QED BY <3>1, <3>2 DEF Vetted, Traced
    <2>3. Allowed(first) /\ Allowed(second)
        BY <2>2 DEF Leg, Whole
    <2>4. /\ m.resource = first.resource /\ m.query.version = first.query.version
          /\ m.query.intent = first.query.intent
        BY <1>13 DEF Agree
    <2>5. \A f \in Range(first.query.filters) :
            ValidateField(m.resource, m.query.version, m.query.intent, f.field)
        BY <2>3, <2>4 DEF Allowed, Range
    <2>6. \A f \in Range(second.query.filters) :
            ValidateField(m.resource, m.query.version, m.query.intent, f.field)
        BY <1>6, <1>10, <2>3 DEF Allowed, Range
    <2>7. \A i \in DOMAIN m.query.filters :
            ValidateField(m.resource, m.query.version, m.query.intent, m.query.filters[i].field)
        <3>1. \A i \in DOMAIN fs : fs[i] \in Range(fs)
            BY DEF Range
        <3> QED BY <1>4, <1>6, <1>10, <2>5, <2>6, <3>1
    <2>8. m.query.sort = Unset \/ ValidateField(m.resource, m.query.version, m.query.intent, m.query.sort)
        BY <1>6, <1>10, <2>3, <2>4 DEF Allowed
    <2> QED BY <2>7, <2>8 DEF Allowed
<1>14. <<first>>[1] = first
    OBVIOUS
<1>15. Reply(text, <<first>>, m)
    BY <1>10, <1>11, <1>12, <1>13, <1>14 DEF Reply, T
<1> QED BY <1>1, <1>15

-----------------------------------------------------------------------------
(* The way of a message *)

Way ==
    /\ request \in Requests
    /\ step # "done" => stage = "drafting" /\ sql = NoSql
    /\ slmRes # <<>> =>
         /\ slmRes = <<slmRes[1]>>
         /\ Leg(request.text, slmRes[1])
         /\ Provider = "slm-superlinked"
    /\ Provider = "slm-superlinked" =>
         /\ step \notin {"framing", "mocking"}
         /\ step \in {"asking", "repairing"} => chain # <<>>
         /\ step = "gateway" => slmRes # <<>>
    /\ step \notin {"answering", "done"} => CandidateFilter \notin Range(draft.query.filters)
    /\ step = "judging" => Reading(request.text, draft)
    /\ step \in {"answering", "done"} => Reply(request.text, slmRes, draft)
    /\ step = "done" /\ stage # "clarified" =>
         /\ stage # "drafting" /\ ~draft.clarify
         /\ resourceType = draft.resource /\ asked = AsAsked(draft.query)

\* a structured search takes none of it
Apart == step = "done" /\ draft = NoAnalysis

PipelineInv ==
    /\ IInv
    /\ endpoint = "search" => Apart
    /\ endpoint = "interpret" => Way

LEMMA NoDraft == Range(NoAnalysis.query.filters) = {}
BY DEF NoAnalysis, NoQuery, Range

LEMMA PipelineStart == InitAll => PipelineInv
<1> SUFFICES ASSUME InitAll PROVE PipelineInv
    OBVIOUS
<1>1. CASE Drafting
    <2>1. NoQuery \in Query
        <3>1. <<>> \in Seq(Filter)
            OBVIOUS
        <3> QED BY <3>1 DEF NoQuery, Query, ContractVersions, IntentCategories
    <2>2. TypeOK
        BY <1>1, <2>1 DEF Drafting, TypeOK, NoSql, Resources
    <2>3. StageByStage
        BY <1>1 DEF Drafting, StageByStage
    <2>4. slmRes = <<>> /\ draft = NoAnalysis
        BY DEF InitAll
    <2>5. /\ step \in {"framing", "asking", "routing", "mocking", "gateway"}
          /\ Provider = "slm-superlinked" => step = "routing"
        BY <1>1 DEF Drafting, StartOf, Rules, LocalModels, Routed
    <2>6. endpoint = "interpret" /\ stage = "drafting" /\ sql = NoSql /\ request \in Requests
        BY <1>1 DEF Drafting
    <2>7. Way
        BY <2>4, <2>5, <2>6, NoDraft DEF Way
    <2> QED BY <2>2, <2>3, <2>6, <2>7 DEF PipelineInv, IInv
<1>2. CASE Structured
    <2>1. IInv
        BY <1>2, Start DEF Structured
    <2>2. endpoint = "search" /\ Apart
        BY <1>2 DEF Structured, Init, InitAll, Apart
    <2> QED BY <2>1, <2>2 DEF PipelineInv
<1> QED BY <1>1, <1>2 DEF InitAll

\* an analysis is delivered
LEMMA Delivered ==
    ASSUME Way, step \notin {"answering", "done"}, UNCHANGED <<vars, request, deployment>>,
           NEW a, Deliver(a), Whole(request.text, a),
           Provider = "slm-superlinked" => Traced(a),
           Provider = "slm-superlinked" /\ slmRes = <<>> => Leg(request.text, a)
    PROVE  Way'
<1>1. request' = request /\ stage' = stage /\ sql' = sql /\ Provider' = Provider
    BY DEF vars, Provider
<1>2. CASE Provider = "slm-superlinked" /\ slmRes = <<>>
    <2>1. step' = "gateway" /\ slmRes' = <<a>> /\ draft' = a
        BY <1>2 DEF Deliver
    <2>2. slmRes' # <<>> /\ slmRes' = <<slmRes'[1]>> /\ slmRes'[1] = a
        BY <2>1
    <2>3. CandidateFilter \notin Range(draft'.query.filters)
        BY <1>2, <2>1, NoCandidates DEF Leg, Reading
    <2> QED BY <1>1, <1>2, <2>1, <2>2, <2>3 DEF Way
<1>3. CASE Provider = "slm-superlinked" /\ slmRes # <<>>
    <2>1. step' = "answering" /\ slmRes' = slmRes /\ draft' = Merged(slmRes[1], a)
        BY <1>3 DEF Deliver
    <2>2. slmRes = <<slmRes[1]>> /\ Leg(request.text, slmRes[1])
        BY <1>3 DEF Way
    <2>3. Reply(request.text, <<slmRes[1]>>, draft')
        BY <1>3, <2>1, <2>2, MergedIsReply
    <2>4. Reply(request'.text, slmRes', draft')
        BY <1>1, <2>1, <2>2, <2>3
    <2> QED BY <1>1, <1>3, <2>1, <2>2, <2>4 DEF Way
<1>4. CASE Provider # "slm-superlinked"
    <2>1. slmRes = <<>>
        BY <1>4 DEF Way
    <2>2. step' = "answering" /\ slmRes' = <<>> /\ draft' = a
        BY <1>4, <2>1 DEF Deliver
    <2>3. Reply(request'.text, slmRes', draft')
        BY <1>1, <2>2, WholeIsReply
    <2> QED BY <1>1, <1>4, <2>2, <2>3 DEF Way
<1> QED BY <1>2, <1>3, <1>4

\* or submitted to the router
LEMMA Submitted ==
    ASSUME Way, step \notin {"answering", "done"}, UNCHANGED <<vars, request, deployment>>,
           NEW a, Submit(a), Reading(request.text, a), Vetted(a) => Allowed(a),
           Provider = "slm-superlinked" => chain # <<>>
    PROVE  Way'
<1>1. CASE chain = <<>>
    BY <1>1, ReadingIsWhole, Delivered DEF Submit
<1>2. CASE chain # <<>>
    <2>1. step' = "judging" /\ draft' = a /\ UNCHANGED <<chain, slmRes>>
        BY <1>2 DEF Submit
    <2>2. request' = request /\ stage' = stage /\ sql' = sql /\ Provider' = Provider
        BY DEF vars, Provider
    <2>3. CandidateFilter \notin Range(draft'.query.filters)
        BY <2>1, NoCandidates DEF Reading
    <2> QED BY <2>1, <2>2, <2>3 DEF Way
<1> QED BY <1>1, <1>2

\* or the message goes on without one
LEMMA WentOn ==
    ASSUME Way, step \notin {"answering", "done"}, UNCHANGED <<vars, request, deployment>>,
           UNCHANGED <<slmRes, draft>>, step' \in {"trying", "asking", "repairing", "routing"},
           step' \in {"asking", "repairing"} /\ Provider = "slm-superlinked" => chain' # <<>>
    PROVE  Way'
<1>1. request' = request /\ stage' = stage /\ sql' = sql /\ Provider' = Provider
    BY DEF vars, Provider
<1> QED BY <1>1 DEF Way

\* every step of the analysis, but the last
LEMMA AnalysingStep ==
    ASSUME Way, Analyse, ~Done
    PROVE  Way' /\ UNCHANGED vars
<1>0. request \in Requests
    BY DEF Way
<1>1. CASE FrameOnly
    <2>1. PICK p \in Framed({}) : Deliver(p)
        BY <1>1 DEF FrameOnly
    <2>2. Reading(request.text, p) /\ p.notes = {}
        BY <1>0, FramedReads
    <2>3. step = "framing" /\ UNCHANGED <<vars, request, deployment>>
        BY <1>1 DEF FrameOnly, Analysing
    <2>4. Provider # "slm-superlinked" /\ Whole(request.text, p)
        BY <2>2, <2>3, ReadingIsWhole DEF Way, Vetted
    <2> QED BY <2>1, <2>3, <2>4, Delivered
<1>2. CASE Route
    <2>1. /\ step = "routing" /\ UNCHANGED <<vars, request, deployment>>
          /\ step' = "trying" /\ UNCHANGED <<slmRes, draft>>
        BY <1>2 DEF Route, Analysing
    <2> QED BY <2>1, WentOn
<1>3. CASE SkipMissing
    <2>1. /\ step = "trying" /\ UNCHANGED <<vars, request, deployment>>
          /\ step' = "trying" /\ UNCHANGED <<slmRes, draft>>
        BY <1>3 DEF SkipMissing, Analysing
    <2> QED BY <2>1, WentOn
<1>4. CASE TryRule
    <2>1. PICK p \in Framed({}) : Submit(p)
        BY <1>4 DEF TryRule
    <2>2. Reading(request.text, p) /\ ~Vetted(p)
        BY <1>0, FramedReads DEF Vetted
    <2>3. step = "trying" /\ chain # <<>> /\ UNCHANGED <<vars, request, deployment>>
        BY <1>4 DEF TryRule, Trying, Analysing
    <2> QED BY <2>1, <2>2, <2>3, Submitted
<1>5. CASE TryModel
    <2>1. /\ step = "trying" /\ chain # <<>> /\ UNCHANGED <<vars, request, deployment>>
          /\ step' = "asking" /\ UNCHANGED <<slmRes, draft>> /\ chain' = chain
        BY <1>5 DEF TryModel, Trying, Analysing
    <2> QED BY <2>1, WentOn
<1>6. CASE Pass
    <2> DEFINE a == [Completed(draft, request.version) EXCEPT !.notes = @ \cup {"vetted"}]
    <2>1. Deliver(a)
        BY <1>6 DEF Pass
    <2>2. step = "judging" /\ Passes(draft) /\ UNCHANGED <<vars, request, deployment>>
        BY <1>6 DEF Pass, Analysing
    <2>3. Reading(request.text, draft)
        BY <2>2 DEF Way
    <2>4. Leg(request.text, a)
        BY <1>0, <2>2, <2>3, PassReads
    <2> HIDE DEF a
    <2>5. Whole(request.text, a) /\ Traced(a)
        BY <2>4, ReadingIsWhole DEF Leg
    <2> QED BY <2>1, <2>2, <2>4, <2>5, Delivered
<1>7. CASE Reject
    <2>1. /\ step = "judging" /\ UNCHANGED <<vars, request, deployment>>
          /\ step' = "trying" /\ UNCHANGED <<slmRes, draft>>
        BY <1>7 DEF Reject, Analysing
    <2> QED BY <2>1, WentOn
<1>8. CASE LastResort
    <2>1. PICK p \in Framed({"last_resort"}) : Deliver(p)
        BY <1>8 DEF LastResort
    <2>2. Reading(request.text, p) /\ p.notes = {"last_resort"}
        BY <1>0, FramedReads DEF NoteNames
    <2>3. step = "trying" /\ UNCHANGED <<vars, request, deployment>>
        BY <1>8 DEF LastResort, Analysing
    <2>4. Traced(p) /\ ~Vetted(p)
        BY <2>2 DEF Traced, Vetted
    <2>5. Whole(request.text, p) /\ Leg(request.text, p)
        BY <2>2, <2>4, ReadingIsWhole DEF Leg
    <2> QED BY <2>1, <2>3, <2>4, <2>5, Delivered
<1>9. ASSUME NEW at \in {"asking", "repairing"}, ModelAnswersWell(at)
      PROVE  Way' /\ UNCHANGED vars
    <2>1. PICK a \in ValidAnswers : Submit(a)
        BY <1>9 DEF ModelAnswersWell
    <2>2. Reading(request.text, a) /\ ~Vetted(a)
        BY <1>0, AnswerReads DEF Vetted
    <2>3. step = at /\ UNCHANGED <<vars, request, deployment>>
        BY <1>9 DEF ModelAnswersWell, Analysing
    <2>4. Provider = "slm-superlinked" => chain # <<>>
        BY <2>3 DEF Way
    <2> QED BY <2>1, <2>2, <2>3, <2>4, Submitted
<1>10. ASSUME NEW notes \in SUBSET NoteNames, "vetted" \notin notes, FallBack(notes),
              step \in {"asking", "repairing"}, UNCHANGED <<vars, request, deployment>>
       PROVE  Way' /\ UNCHANGED vars
    <2>1. PICK a \in ModelFallback(notes) : Submit(a)
        BY <1>10 DEF FallBack
    <2>2. Reading(request.text, a) /\ ~Vetted(a)
        BY <1>0, <1>10, FallbackReads DEF Vetted
    <2>3. Provider = "slm-superlinked" => chain # <<>>
        BY <1>10 DEF Way
    <2> QED BY <1>10, <2>1, <2>2, <2>3, Submitted
<1>11. CASE ModelFails
    <2>1. step = "asking" /\ FallBack({}) /\ UNCHANGED <<vars, request, deployment>>
        BY <1>11 DEF ModelFails, Analysing
    <2> QED BY <1>10, <2>1
<1>12. CASE RepairFails
    <2>1. /\ step = "repairing" /\ FallBack({"slm_remote_invalid_fallback"})
          /\ UNCHANGED <<vars, request, deployment>>
        BY <1>12 DEF RepairFails, Analysing
    <2>2. {"slm_remote_invalid_fallback"} \in SUBSET NoteNames
        BY DEF NoteNames
    <2> QED BY <1>10, <2>1, <2>2
<1>13. CASE AskRepair
    <2>1. /\ step = "asking" /\ UNCHANGED <<vars, request, deployment>>
          /\ step' = "repairing" /\ UNCHANGED <<slmRes, draft>> /\ chain' = chain
        BY <1>13 DEF AskRepair, Analysing
    <2>2. Provider = "slm-superlinked" => chain' # <<>>
        BY <2>1 DEF Way
    <2> QED BY <2>1, <2>2, WentOn
<1>14. CASE GatewayFails
    <2>1. /\ step = "gateway" /\ UNCHANGED <<vars, request, deployment>>
          /\ step' = "routing" /\ UNCHANGED <<slmRes, draft>>
        BY <1>14 DEF GatewayFails, Analysing
    <2> QED BY <2>1, WentOn
<1>15. CASE GatewayServes
    <2>1. PICK m \in Framed({"superlinked_served"}) \X GatewayAnswers :
            IsServed(m[1], m[2]) /\ Deliver(Served(m[1], m[2]))
        BY <1>15 DEF GatewayServes
    <2>2. Reading(request.text, m[1]) /\ m[1].notes = {"superlinked_served"}
        BY <1>0, <2>1, FramedReads DEF NoteNames
    <2>3. ~m[1].clarify /\ m[2].confidence \in Int
        BY <2>1, SemanticSearchConstants DEF IsServed, Serves
    <2>4. step = "gateway" /\ UNCHANGED <<vars, request, deployment>>
        BY <1>15 DEF GatewayServes, Analysing
    <2>5. Whole(request.text, Served(m[1], m[2])) /\ Traced(Served(m[1], m[2]))
        BY <2>2, <2>3, ServedIsWhole
    <2>6. Provider = "slm-superlinked" => slmRes # <<>>
        BY <2>4 DEF Way
    <2> QED BY <2>1, <2>4, <2>5, <2>6, Delivered
<1>16. CASE MockServes
    <2>1. PICK m \in Framed({}) \X BOOLEAN : Deliver(Mocked(m[1], m[2]))
        BY <1>16 DEF MockServes
    <2>2. Reading(request.text, m[1]) /\ m[1].notes = {}
        BY <1>0, <2>1, FramedReads
    <2>3. step = "mocking" /\ UNCHANGED <<vars, request, deployment>>
        BY <1>16 DEF MockServes, Analysing
    <2>4. Whole(request.text, Mocked(m[1], m[2])) /\ Provider # "slm-superlinked"
        BY <2>2, <2>3, MockedIsWhole DEF Way
    <2> QED BY <2>1, <2>3, <2>4, Delivered
<1>17. CASE Clarify \/ HandOver
    BY <1>17 DEF Clarify, HandOver
<1> QED BY <1>1, <1>2, <1>3, <1>4, <1>5, <1>6, <1>7, <1>8, <1>9, <1>11, <1>12, <1>13, <1>14,
           <1>15, <1>16, <1>17 DEF Analyse

\* what SearchQuery sees of the query is a query
LEMMA HandedOver ==
    ASSUME NEW text, NEW a \in Analysis(Fair(text) \cup {CandidateFilter})
    PROVE  AsAsked(a.query) \in Query
<1> DEFINE T == Fair(text) \cup {CandidateFilter}
           fs == a.query.filters
           seen == [i \in DOMAIN fs |-> [field |-> fs[i].field, op |-> fs[i].op]]
<1>1. \A f \in T : f.field \in Names /\ f.op \in Operators
    <2>1. CandidateFilter.field \in Names /\ CandidateFilter.op \in Operators
        BY FramerNames DEF CandidateFilter, Operators
    <2>2. \A f \in Fair(text) : f.field \in Names /\ f.op \in Operators
        BY DEF Fair, Plain
    <2> QED BY <2>1, <2>2
<1> HIDE DEF T
<1>2. fs \in Seq(T) /\ a.query.version \in ContractVersions /\ a.query.intent \in IntentCategories
      /\ a.query.sort \in Names \cup {Unset}
    BY DEF Analysis, Queries, Known, T
<1> HIDE DEF fs
<1>3. seen \in Seq(Filter)
    <2>1. \A i \in DOMAIN fs : [field |-> fs[i].field, op |-> fs[i].op] \in Filter
        BY <1>1, <1>2 DEF Filter
    <2> QED BY <1>2, <2>1
<1> HIDE DEF seen
<1>4. AsAsked(a.query) = [version |-> a.query.version, intent |-> a.query.intent,
                          sort |-> a.query.sort, filters |-> seen]
    BY DEF AsAsked, seen, fs
<1> QED BY <1>2, <1>3, <1>4 DEF Query

LEMMA LastStep ==
    ASSUME IInv, Way, Clarify \/ HandOver
    PROVE  IInv' /\ Way' /\ endpoint' = endpoint
<1>0. step = "answering" /\ step' = "done" /\ UNCHANGED <<request, deployment, chain, slmRes, draft>>
      /\ endpoint' = endpoint
    BY DEF Clarify, HandOver, Done
<1>1. /\ Reply(request.text, slmRes, draft) /\ stage = "drafting" /\ sql = NoSql
      /\ request' = request /\ Provider' = Provider
    BY <1>0 DEF Way, Provider
<1>2. CASE Clarify
    <2>1. stage' = "clarified" /\ UNCHANGED <<resourceType, asked, query, sql, status>>
        BY <1>2 DEF Clarify
    <2>2. TypeOK'
        BY <1>0, <2>1 DEF IInv, TypeOK, Columns
    <2>3. StageByStage'
        BY <2>1 DEF StageByStage
    <2>4. Way'
        BY <1>0, <1>1, <2>1 DEF Way
    <2> QED BY <1>0, <2>2, <2>3, <2>4 DEF IInv
<1>3. CASE HandOver
    <2>1. /\ stage' = "received" /\ UNCHANGED <<sql, status>> /\ resourceType' = draft.resource
          /\ asked' = AsAsked(draft.query) /\ query' = asked' /\ ~draft.clarify
        BY <1>3 DEF HandOver
    <2>2. draft.resource \in Resources /\ AsAsked(draft.query) \in Query
        BY <1>1, HandedOver DEF Reply, Analysis
    <2>3. sql'.where = <<>> /\ sql'.orderBy = Unset
        BY <1>1, <2>1 DEF NoSql
    <2>4. TypeOK'
        BY <1>0, <2>1, <2>2, <2>3 DEF IInv, TypeOK
    <2>5. StageByStage'
        BY <2>1 DEF StageByStage
    <2>6. Way'
        BY <1>0, <1>1, <2>1 DEF Way
    <2> QED BY <1>0, <2>4, <2>5, <2>6 DEF IInv
<1> QED BY <1>2, <1>3

LEMMA PipelineStep == PipelineInv /\ [NextAll]_allVars => PipelineInv'
<1> SUFFICES ASSUME PipelineInv, [NextAll]_allVars PROVE PipelineInv'
    OBVIOUS
<1>0. IInv /\ endpoint \in {"search", "interpret"}
    BY DEF PipelineInv, IInv, TypeOK
<1>1. CASE Analyse
    <2>1. step # "done"
        BY <1>1 DEF Analyse, FrameOnly, Route, SkipMissing, TryRule, TryModel, Pass, Reject, LastResort,
                    ModelAnswersWell, ModelFails, AskRepair, RepairFails, GatewayFails, GatewayServes,
                    MockServes, Clarify, HandOver, Done, Analysing, Trying
    <2>2. endpoint = "interpret" /\ Way
        BY <1>0, <2>1 DEF PipelineInv, Apart
    <2>3. CASE Done
        <3>1. Clarify \/ HandOver
            BY <1>1, <2>3 DEF Analyse, FrameOnly, Route, SkipMissing, TryRule, TryModel, Pass, Reject,
                    LastResort, ModelAnswersWell, ModelFails, AskRepair, RepairFails, GatewayFails,
                    GatewayServes, MockServes, Done, Analysing, Trying
        <3> QED BY <1>0, <2>2, <3>1, LastStep DEF PipelineInv
    <2>4. CASE ~Done
        <3>1. Way' /\ UNCHANGED vars
            BY <1>1, <2>2, <2>4, AnalysingStep
        <3>2. IInv' /\ endpoint' = endpoint
            BY <1>0, <3>1, Step DEF vars
        <3> QED BY <2>2, <3>1, <3>2 DEF PipelineInv
    <2> QED BY <2>3, <2>4
<1>2. CASE Next /\ UNCHANGED pipelineVars
    <2>1. IInv'
        BY <1>0, <1>2, Step
    <2>2. UNCHANGED <<request, deployment, step, chain, slmRes, draft>> /\ Provider' = Provider
        BY <1>2 DEF pipelineVars, Provider
    <2>3. /\ UNCHANGED <<endpoint, resourceType, asked>>
          /\ stage \notin {"drafting", "clarified"} /\ stage' \notin {"drafting", "clarified"}
        BY <1>2 DEF Next, Default, Normalise, Validate, RefuseField, Compile, RefuseFilter, Refuse, Goto
    <2>4. endpoint' = "search" => Apart'
        BY <2>2, <2>3 DEF PipelineInv, Apart
    <2>5. ASSUME endpoint' = "interpret" PROVE Way'
        <3>1. Way
            BY <2>3, <2>5 DEF PipelineInv
        <3>2. step = "done"
            BY <2>3, <3>1 DEF Way
        <3> QED BY <2>2, <2>3, <3>1, <3>2 DEF Way
    <2> QED BY <2>1, <2>4, <2>5 DEF PipelineInv
<1>3. CASE UNCHANGED allVars
    <2>1. UNCHANGED vars /\ UNCHANGED pipelineVars
        BY <1>3 DEF allVars
    <2>2. IInv'
        BY <1>0, <2>1, Step
    <2>3. /\ UNCHANGED <<endpoint, resourceType, asked, stage, sql>>
          /\ UNCHANGED <<request, step, chain, slmRes, draft>> /\ Provider' = Provider
        BY <2>1 DEF vars, pipelineVars, Provider
    <2> QED BY <2>2, <2>3 DEF PipelineInv, Apart, Way
<1> QED BY <1>1, <1>2, <1>3 DEF NextAll

LEMMA PipelineHolds == SpecAll => []PipelineInv
BY PipelineStart, PipelineStep, PTL DEF SpecAll

-----------------------------------------------------------------------------
(* Messages *)

\* what a search that came from a message says
LEMMA SearchedReply ==
    ASSUME PipelineInv, Searched
    PROVE  /\ Way /\ step = "done" /\ ~draft.clarify
           /\ Reply(request.text, slmRes, draft)
           /\ resourceType = draft.resource /\ asked = AsAsked(draft.query)
<1>1. Way /\ stage # "drafting" /\ stage # "clarified"
    BY DEF PipelineInv, Searched
<1>2. step = "done"
    BY <1>1 DEF Way
<1> QED BY <1>1, <1>2 DEF Way

LEMMA NotShippedFromReply == PipelineInv => NotShippedIsHonoured
<1> SUFFICES ASSUME PipelineInv, Searched, draft.resource = "order", draft.query.intent = "wismo",
                    HasNotShippedCue(request.text), NEW state \in DeniedStates
             PROVE  Denied(state) /\ Is("shipment.state", state) \notin Range(draft.query.filters)
    BY DEF NotShippedIsHonoured
<1> DEFINE fs == draft.query.filters
           T == Fair(request.text) \cup {CandidateFilter}
<1>1. ~draft.clarify /\ Reply(request.text, slmRes, draft)
    BY SearchedReply
<1>2. Range(Denials) \subseteq Range(fs)
    BY <1>1 DEF Reply, Honest
<1>3. fs \in Seq(T)
    BY <1>1 DEF Reply, Analysis, Queries
<1>4. Not("shipment.state", state) \in Range(Denials)
    BY DEF Denials, DeniedStates, Range
<1>5. Denied(state)
    BY <1>2, <1>4 DEF Denied, Range
<1>6. Is("shipment.state", state) \notin T
    <2>1. Is("shipment.state", state) \in Opposites
        BY DEF Opposites
    <2>2. Is("shipment.state", state) # CandidateFilter
        BY DEF Is, CandidateFilter
    <2> QED BY <2>1, <2>2 DEF Fair
<1> HIDE DEF T
<1>7. Range(fs) \subseteq T
    BY <1>3 DEF Range
<1> QED BY <1>5, <1>6, <1>7

LEMMA ConflictsFromReply == PipelineInv => ConflictsAreClarified
BY SearchedReply DEF ConflictsAreClarified, Reply, Honest

LEMMA CandidatesFromReply == PipelineInv => CandidatesNarrowAlone
<1> SUFFICES ASSUME PipelineInv, CandidateFilter \in Range(draft.query.filters),
                    NEW f \in Range(draft.query.filters), Explicit(draft.resource, f)
             PROVE  slmRes # <<>> /\ f \in Range(slmRes[1].query.filters)
    BY DEF CandidatesNarrowAlone, Explicit
<1>1. endpoint = "interpret" /\ Way
    BY NoDraft DEF PipelineInv, Apart, IInv, TypeOK
<1>2. Reply(request.text, slmRes, draft)
    BY <1>1 DEF Way
<1> QED BY <1>2 DEF Reply

\* allowed names stay allowed on the way through Search
LEMMA AllowedIsValid ==
    ASSUME NEW text, NEW a \in Analysis(Fair(text) \cup {CandidateFilter}), Allowed(a),
           resourceType = a.resource
    PROVE  Valid(Normal(Defaulted(AsAsked(a.query))))
<1> DEFINE q == AsAsked(a.query)
           fs == a.query.filters
           T == Fair(text) \cup {CandidateFilter}
<1>1. q \in Query
    BY HandedOver
<1> HIDE DEF T
<1>2. a.query.version # Unset /\ a.query.intent # Unset /\ fs \in Seq(T)
    BY DEF Analysis, Queries, Known, T
<1>3. /\ q.version = a.query.version /\ q.intent = a.query.intent /\ q.sort = a.query.sort
      /\ DOMAIN q.filters = DOMAIN fs /\ \A i \in DOMAIN fs : q.filters[i].field = fs[i].field
    BY DEF AsAsked
<1> HIDE DEF q
<1>4. Defaulted(q) = q
    BY <1>1, <1>2, <1>3 DEF Defaulted, Query
<1>5. Valid(q)
    BY <1>3 DEF Valid, Mentioned, Allowed
<1>6. CASE q.version # "v2"
    BY <1>4, <1>5, <1>6 DEF Normal, q
<1>7. CASE q.version = "v2"
    <2> DEFINE n == Normal(q)
    <2>1. /\ n.version = "v2" /\ n.intent = q.intent
          /\ n.filters = NormalisedFilters(q)
          /\ n.sort = IF q.sort = Unset THEN Unset ELSE NormalizeField(resourceType, q.sort)
        BY <1>1, <1>7 DEF Normal, Query
    <2>2. /\ DOMAIN n.filters = DOMAIN q.filters
          /\ \A i \in DOMAIN q.filters : n.filters[i].field = NormalizeField(resourceType, q.filters[i].field)
        <3>1. q.filters \in Seq(Filter)
            BY <1>1 DEF Query
        <3>2. \A i \in DOMAIN q.filters : q.filters[i] \in Filter
            BY <3>1
        <3> HIDE DEF n
        <3> QED BY <2>1, <3>2 DEF NormalisedFilters, Filter
    <2> HIDE DEF n
    <2>3. \A name : ValidateField(resourceType, "v2", q.intent, name) =>
                    ValidateField(resourceType, "v2", q.intent, NormalizeField(resourceType, name))
        BY NormalIsNormal DEF ValidateField
    <2>4. \A name \in Mentioned(n) : \E m \in Mentioned(q) : name = NormalizeField(resourceType, m)
        BY <2>1, <2>2 DEF Mentioned
    <2>5. Valid(n)
        BY <1>5, <1>7, <2>1, <2>3, <2>4 DEF Valid
    <2> QED BY <1>4, <2>5 DEF n, q
<1> QED BY <1>6, <1>7

LEMMA VettedFromReply == PipelineInv => VettedQueriesPass
<1> SUFFICES ASSUME PipelineInv, endpoint = "interpret", stage = "refused", ~Valid(query),
                    draft.notes \cap {"last_resort", "superlinked_served"} = {},
                    "vetted" \in draft.notes, LegsAgree
             PROVE  FALSE
    BY DEF VettedQueriesPass
<1>1. /\ Reply(request.text, slmRes, draft)
      /\ resourceType = draft.resource /\ asked = AsAsked(draft.query)
    BY SearchedReply DEF Searched
<1>2. Allowed(draft)
    BY <1>1 DEF Reply, Vetted, LegsAgree, Agree
<1>3. Valid(Normal(Defaulted(AsAsked(draft.query))))
    BY <1>1, <1>2, AllowedIsValid DEF Reply
<1>4. query = Normal(Defaulted(asked))
    BY DEF PipelineInv, IInv, StageByStage
<1> QED BY <1>1, <1>3, <1>4

\* Of the interpret endpoint, too, and whatever comes before the query: it keeps its
\* shape, its filters and its sort field mean what was asked, refusals are justified.
THEOREM QueriesOfMessages ==
    SpecAll => []TypeOK /\ []FiltersSayWhatWasAsked /\ []SortIsHonoured /\ []RefusalsAreJustified
<1>1. PipelineInv => TypeOK /\ FiltersSayWhatWasAsked /\ SortIsHonoured /\ RefusalsAreJustified
    BY FiltersFromStages, SortFromStages, RefusalsFromStages DEF PipelineInv, IInv
<1> QED BY <1>1, PipelineHolds, PTL

\* "not shipped" survives every rewriting of the message, in whatever order, a model
\* that reads it the other way round, its repair and fallback, and the merge
\* (analyzer_slm_local.go:159, parser.go:461, analyzer_slm_superlinked.go:128).
THEOREM NotShipped == SpecAll => []NotShippedIsHonoured
BY NotShippedFromReply, PipelineHolds, PTL

\* A message of which every wording names two payment states is clarified, or a
\* language model decided what it means (parser.go:140).
THEOREM Conflicts == SpecAll => []ConflictsAreClarified
BY ConflictsFromReply, PipelineHolds, PTL

\* What the router vetted is not refused for a field by Search, unless it took the
\* last resort, was served, or is merged with an analysis that disagrees
\* (analyzer_slm_local.go:350, service.go:73, rewrite_intent_router.go:119).
THEOREM VettedPass == SpecAll => []VettedQueriesPass
BY VettedFromReply, PipelineHolds, PTL

\* Candidates meet an explicit filter only if the first of two analyses brought it
\* (retrieval_guard.go:10).
THEOREM NarrowAlone == SpecAll => []CandidatesNarrowAlone
BY CandidatesFromReply, PipelineHolds, PTL

=============================================================================
