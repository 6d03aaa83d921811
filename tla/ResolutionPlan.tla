--------------------------- MODULE ResolutionPlan ---------------------------
(***************************************************************************)
(* The resolver of internal/identifier: from the identifiers detected in a *)
(* message to the lookups that answer it.  The regular expressions are not *)
(* modelled: a message is what they made of it.                            *)
(***************************************************************************)
EXTENDS Naturals, Selection

IdentifierTypes == {"order_number", "tracking_id", "payment_reference",
                    "customer_number", "email", "phone", "unknown_token"}

\* no two elements of detected are equal (dedupeDetected); a purely numeric
\* message is looked up as it was sent, whatever was detected in it
Message == [short : BOOLEAN,        \* at most ShortNoOpLen characters
            catalog : BOOLEAN,      \* holds a word of the product domain
            numeric : BOOLEAN,      \* digits only
            words : Nat,
            prefixed : BOOLEAN,     \* starts with ORD-, TRK-, PAY- or CUST-
            verb : BOOLEAN,         \* containsVerb
            detected : Seq([type : IdentifierTypes, value : Nat])]

Detected(message) == ToSet(message.detected)

HasTypedIdentifier(message) == \E d \in Detected(message) : d.type # "unknown_token"

\* AnalyzeQuery: a typed identifier or contact outweighs the product words
UnsupportedDomain(message) == message.catalog /\ ~HasTypedIdentifier(message)

ShouldUseFastPath(message) ==
    /\ message.detected # <<>>
    /\ \/ message.prefixed
       \/ message.words <= 6 /\ (HasTypedIdentifier(message) \/ ~message.verb)

-----------------------------------------------------------------------------
(* Lookups *)

\* value.as says what the lookup makes of the detected value: itself, a prefix
\* pattern, or the customer id that ends in the same digits
Lookup(resource, field, op, as, value) ==
    [resource |-> resource, field |-> field, op |-> op,
     value |-> [as |-> as, of |-> value]]

\* the primary field of each identifier type (GetIdentifierByType)
Primary(type) ==
    CASE type = "order_number"      -> <<"order", "order.number">>
      [] type = "tracking_id"       -> <<"order", "shipment.tracking_id">>
      [] type = "payment_reference" -> <<"order", "payment.reference">>
      [] type = "customer_number"   -> <<"customer", "customer.number">>
      [] type \in {"email", "phone"} -> <<"customer", "customer.email">>

\* GetSecondaryLookups
Secondary(d) ==
    CASE d.type = "customer_number" ->
             <<Lookup("order", "order.customer_id", "eq", "customerId", d.value)>>
      [] d.type = "email" ->
             <<Lookup("order", "order.customer_email", "eq", "itself", d.value)>>
      [] OTHER -> <<>>

\* the patterns of the schema in order; several are for order numbers
AllPatternTypes ==
    <<"order_number", "tracking_id", "payment_reference", "order_number", "order_number",
      "order_number", "order_number", "customer_number", "email", "phone">>

ByPrefix(types, value) ==
    [i \in DOMAIN types |->
        Lookup(Primary(types[i])[1], Primary(types[i])[2], "like", "prefix", value)]

NumericTypes == <<"order_number", "tracking_id", "payment_reference", "customer_number">>

\* the value of a purely numeric message as it was sent
WholeInput == 0

\* what a message says that identifies something
Identifiers(m) == {d.value : d \in Detected(m)} \cup (IF m.numeric THEN {WholeInput} ELSE {})

LookupsOf(d, numeric) ==
    IF numeric THEN ByPrefix(NumericTypes, WholeInput)
    ELSE IF d.type = "unknown_token" THEN ByPrefix(AllPatternTypes, d.value)
    ELSE <<Lookup(Primary(d.type)[1], Primary(d.type)[2], "eq", "itself", d.value)>>
            \o Secondary(d)

AllLookups(message) ==
    FlattenSeq([i \in DOMAIN message.detected |->
                  LookupsOf(message.detected[i], message.numeric)])

\* the hint narrows the lookups unless none fits it
Hinted(lookups, hint) ==
    LET narrowed == Kept(lookups, {l \in ToSet(lookups) : l.resource = hint})
    IN  IF narrowed = <<>> THEN lookups ELSE narrowed

\* mutant: the same lookup may be made twice
NotDeduped(lookups) == lookups

\* dedupeGroups: the first of equal lookups stays
DedupeGroups(lookups) == Distinct(lookups)

\* BuildResolutionPlanWithConfig
Plan(message, hint) == DedupeGroups(Hinted(AllLookups(message), hint))

=============================================================================
