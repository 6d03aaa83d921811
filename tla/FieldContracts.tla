--------------------------- MODULE FieldContracts ---------------------------
(***************************************************************************)
(* The schema registry (internal/schema) and the field allowlists built on *)
(* it (internal/contracts): which names a query may use for a resource,    *)
(* under which contract version and intent, and which SQL column a name    *)
(* stands for.                                                             *)
(*                                                                         *)
(* Every alias of the schema is the canonical name or the native column of *)
(* its field, so the alias index is derived from the fields.               *)
(***************************************************************************)
EXTENDS Sequences

Unset == ""     \* the zero value of a string

Intents == {"default", "wismo", "crm_profile", "returns_refunds"}

Field(name, column, sortable, scopes) ==
    [name |-> name, column |-> column, sortable |-> sortable, scopes |-> scopes]

Support == {"default", "wismo", "crm_profile"}

OrderFields == {
    Field("order.id",                  "id",                 TRUE,  Intents),
    Field("order.number",              "order_number",       TRUE,  Intents),
    Field("order.customer_id",         "customer_id",        TRUE,  Support),
    Field("order.customer_email",      "customer_email",     TRUE,  Support),
    Field("order.state",               "order_state",        TRUE,  Support),
    Field("order.created_at",          "created_at",         TRUE,  Intents),
    Field("order.completed_at",        "completed_at",       TRUE,  Intents),
    Field("order.total_cent_amount",   "total_cent_amount",  TRUE,  {"default", "crm_profile"}),
    Field("order.currency_code",       "currency_code",      FALSE, {"default"}),
    Field("shipment.state",            "shipment_state",     TRUE,  {"wismo"}),
    Field("shipment.tracking_id",      "tracking_id",        TRUE,  {"wismo"}),
    Field("payment.state",             "payment_state",      FALSE, Support),
    Field("payment.reference",         "payment_reference",  TRUE,  {"default", "wismo", "returns_refunds"}),
    Field("return.eligible",           "return_eligible",    FALSE, {"returns_refunds"}),
    Field("return.status",             "return_status",      FALSE, {"returns_refunds"}),
    Field("refund.status",             "refund_status",      FALSE, {"returns_refunds"}),
    Field("order.legacy_status",       "status",             FALSE, {"default"}),
    Field("order.legacy_total_amount", "total_amount",       FALSE, {"default"}),
    Field("order.region",              "region",             FALSE, {"default"})}

CustomerFields == {
    Field("customer.id",                "id",                TRUE,  Intents),
    Field("customer.number",            "customer_number",   TRUE,  Intents),
    Field("customer.email",             "email",             TRUE,  Intents),
    Field("customer.first_name",        "first_name",        TRUE,  Intents),
    Field("customer.last_name",         "last_name",         TRUE,  Intents),
    Field("customer.is_email_verified", "is_email_verified", FALSE, {"crm_profile"}),
    Field("customer.created_at",        "created_at",        TRUE,  {"crm_profile"}),
    Field("customer.group",             "customer_group",    TRUE,  {"default", "crm_profile"}),
    Field("customer.vip_tier",          "vip_tier",          TRUE,  {"crm_profile"}),
    Field("customer.legacy_name",       "name",              TRUE,  {"default"}),
    Field("customer.legacy_tier",       "tier",              TRUE,  {"default"}),
    Field("customer.region",            "region",            TRUE,  {"default"})}

Resources == {"order", "customer"}

FieldsOf(resource) == IF resource = "order" THEN OrderFields ELSE CustomerFields

AllFields == OrderFields \cup CustomerFields

DefaultSort(resource) == IF resource = "order" THEN "order.created_at" ELSE "customer.created_at"

V1SearchableFields(resource) ==
    IF resource = "order"
    THEN {"id", "status", "created_at", "total_amount", "customer_id"}
    ELSE {"id", "name", "tier", "region", "created_at"}

-----------------------------------------------------------------------------
(* Names *)

\* every spelling a query may use: canonical names, columns, one spelling in
\* capitals, a name no resource has
Names == {f.name : f \in AllFields} \cup {f.column : f \in AllFields}
            \cup {"ORDER_STATE", "warehouse"}

\* strings.ToLower(strings.TrimSpace(...))
Lowered(input) == IF input = "ORDER_STATE" THEN "order_state" ELSE input

\* the canonical name, or the lowered input when no field has it
NormalizeField(resource, input) ==
    IF \E f \in FieldsOf(resource) : Lowered(input) \in {f.name, f.column}
    THEN (CHOOSE f \in FieldsOf(resource) : Lowered(input) \in {f.name, f.column}).name
    ELSE Lowered(input)

\* mutant: a field of the resource is allowed whatever the intent
IsFieldAllowedAnyIntent(resource, intent, name) == \E f \in FieldsOf(resource) : f.name = name

\* a field in the scope "default" is allowed under every intent, known or not
IsFieldAllowed(resource, intent, name) ==
    \E f \in FieldsOf(resource) : f.name = name /\ f.scopes \cap {intent, "default"} # {}

\* ValidateField: version v1 compares the name as it was spelled, v2 resolves it
ValidateField(resource, version, intent, name) ==
    \/ version = "v1" /\ name \in V1SearchableFields(resource)
    \/ version = "v2" /\ IsFieldAllowed(resource, intent, NormalizeField(resource, name))

-----------------------------------------------------------------------------
(* What the store makes of a name: canonical names only *)

Filterable(resource) == {f.name : f \in FieldsOf(resource)}

Sortable(resource) == {f.name : f \in {g \in FieldsOf(resource) : g.sortable}}

\* mutant: the name goes into the statement as it is
NativeColumnAsNamed(name) == name

\* the first resource that has the field decides
NativeColumnForField(name) == (CHOOSE f \in AllFields : f.name = name).column

GetNativeColumn(resource, name) == (CHOOSE f \in FieldsOf(resource) : f.name = name).column

=============================================================================
