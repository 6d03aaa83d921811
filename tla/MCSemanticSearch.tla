--------------------------- MODULE MCSemanticSearch ---------------------------
(***************************************************************************)
(* SemanticSearch over messages with one hazard each, a local model that   *)
(* answers well, wrongly or not at all, and two deployments; together with *)
(* the structured requests of MCSearchQuery.                               *)
(***************************************************************************)
EXTENDS SemanticSearch

\* as in MCSearchQuery, with fewer names
SomeNames == {"status", "shipment_state", "vip_tier"}

OneOrTwo ==
    {<<>>} \cup {<<[field |-> name, op |-> "eq"]>> : name \in Names}
           \cup {<<[field |-> "id", op |-> "eq"], [field |-> name, op |-> op]>> :
                    name \in SomeNames, op \in Operators}

Conversations == {
    <<"ordres", "in", "opne", "status">>,
    <<"orders", "not", "yet", "shipped">>,
    <<"unshipped", "orders", "but", "shipped", "delayed">>,
    <<"PAY", "payment", "failed", "payment", "captured">>,
    <<"declined", "payment", "but", "payment", "paid">>,
    <<"return", "eligible", "TRK">>,
    <<"refund", "status">>,
    <<"tracking", "PAY">>,
    <<"has", "my", "order", "shipped">>,
    <<"initiate", "refund", "CUST">>,
    <<"delayed", "orders", "last", "14", "days", "PHONE">>,
    <<"vip", "profile", "verified">>,
    <<"orders", "this", "week">>,
    <<"calendar", "orders", "for", "MAIL">>}

Answer(about, intent, version, filters, confidence, clarify) ==
    [query |-> [version |-> version, intent |-> intent, filters |-> filters,
                sort |-> DefaultSort(about)],
     intent |-> intent, resource |-> about, confidence |-> confidence, clarify |-> clarify]

Readings == {
    \* what was said, the other way round
    Answer("order", "wismo", "v2", <<Is("shipment_state", "Shipped")>>, 90, FALSE),
    \* not sure enough for one of the two models, and blanks to fill
    [Answer("order", "wismo", "", <<Is("payment.state", "Paid")>>, 52, FALSE)
        EXCEPT !.query.intent = ""],
    Answer("customer", "crm_profile", "v2", <<Not("vip_tier", "silver")>>, 80, FALSE),
    Answer("order", "returns_refunds", "v2", <<Is("return_status", "Requested")>>, 80, TRUE),
    \* the legacy contract
    Answer("order", "default", "v1", <<Is("status", "open")>>, 80, FALSE),
    \* invalid: a field of another intent, a sort nobody has, an intent on customers
    Answer("order", "default", "v2", <<Is("return_status", "Requested")>>, 90, FALSE),
    [Answer("order", "default", "v2", <<>>, 90, FALSE) EXCEPT !.query.sort = "warehouse"],
    Answer("customer", "wismo", "v2", <<>>, 90, FALSE)}

Payloads ==
    [ids : {<<"", "c1", "c1">>, <<"c1", "c2", "c3">>, <<"">>}, scores : {<<>>, <<9, 8, 7>>},
     confidence : {50, 90}, late : BOOLEAN]

Shipped == [
    mode |-> "shadow", minServed |-> 55,
    routes |-> <<[shape |-> "identifier_token", intent |-> "", chain |-> <<"intent-rule">>],
                 [shape |-> "contact_lookup", intent |-> "", chain |-> <<"intent-rule">>],
                 [shape |-> "typeahead_prefix", intent |-> "", chain |-> <<"intent-rule">>],
                 [shape |-> "", intent |-> "returns_refunds",
                  chain |-> <<"intent-gpu", "", "intent-ollama-llama">>]>>,
    defaults |-> <<"intent-ollama-qwen", "intent-ollama-llama">>,
    minimum |-> [p \in LocalModels |-> IF p = "intent-ollama-qwen" THEN 55 ELSE 50]]

BothModes == {Shipped, [Shipped EXCEPT !.mode = "gated"]}

=============================================================================
