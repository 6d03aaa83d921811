-------------------------- MODULE SemanticAnalysis --------------------------
(***************************************************************************)
(* What the analyzers of internal/semantic do with an AnalyzeResult: the   *)
(* validation every provider's result goes through, the guardrails of the  *)
(* local model, the serving gate, the payload check of the Superlinked     *)
(* gateway and the merge of two results.                                   *)
(*                                                                         *)
(* An analysis is a query, an intent, a resource type, a confidence,       *)
(* whether the user is asked to clarify, and notes that say which path the *)
(* message took.                                                           *)
(***************************************************************************)
EXTENDS QueryParser

\* a parse or a model's answer as an analysis
Noted(a, notes) ==
    [query |-> a.query, intent |-> a.intent, resource |-> a.resource,
     confidence |-> a.confidence, clarify |-> a.clarify, notes |-> notes]

-----------------------------------------------------------------------------
(* validateRemoteResult *)

KnownOperators == {"eq", "neq", "gt", "gte", "lt", "lte", "like", "in", "emptyIn"}

\* blanks of the result are filled before the rest is looked at
Completed(a, version) ==
    [a EXCEPT !.query.version = IF @ = Unset THEN version ELSE @,
              !.query.intent  = IF @ = Unset THEN a.intent ELSE @]

\* mutant: the sort field is not looked at
AcceptableWithoutSort(a, version) ==
    LET q == Completed(a, version).query
    IN /\ a.resource \in Resources
       /\ a.intent \in Intents
       /\ q.intent = a.intent
       /\ \A i \in DOMAIN q.filters :
            /\ q.filters[i].op \in KnownOperators
            /\ ValidateField(a.resource, q.version, a.intent, q.filters[i].field)
       /\ ~(a.resource = "customer" /\ a.intent \in {"wismo", "returns_refunds"})

\* the intent is checked before a blank one could be filled from the query,
\* and the version of the result decides which names are allowed
Acceptable(a, version) ==
    LET q == Completed(a, version).query
    IN /\ a.resource \in Resources
       /\ a.intent \in Intents
       /\ q.intent = a.intent
       /\ \A i \in DOMAIN q.filters :
            /\ q.filters[i].op \in KnownOperators
            /\ ValidateField(a.resource, q.version, a.intent, q.filters[i].field)
       /\ q.sort = Unset \/ ValidateField(a.resource, q.version, a.intent, q.sort)
       /\ ~(a.resource = "customer" /\ a.intent \in {"wismo", "returns_refunds"})

-----------------------------------------------------------------------------
(* The local model *)

\* what a message that says "not shipped" leaves of a model's filters: the field
\* is named as in the registry, what asks for the opposite is dropped
Tolerated(filters) ==
    LET Named(f) == [f EXCEPT !.field = NormalizeField("order", @)]
        named == [i \in DOMAIN filters |-> Named(filters[i])]
    IN Kept(named, Range(named) \ {Is("shipment.state", state) : state \in DeniedStates})

IsOverruled(text, a) == a.resource = "order" /\ a.intent = "wismo" /\ HasNotShippedCue(text)

\* mutant: what the user ruled out is dropped and not excluded
GuardedByDropping(text, a) ==
    IF IsOverruled(text, a) THEN [a EXCEPT !.query.filters = Tolerated(@)] ELSE a

\* applyMessageGuardrails: a message that says "not shipped" overrules the model
Guarded(text, a) ==
    IF IsOverruled(text, a)
    THEN [a EXCEPT !.query.filters = Tolerated(@) \o NotShippedFilters(Tolerated(@))]
    ELSE a

\* the framer reads the prompt, and normalises it again
PromptNormalised(text) == UNION {Normalised(prompt) : prompt \in Rewritten(text, Prompts)}

\* the framer's analysis of the prompt, used when the model fails
Fallback(text, p) == Guarded(text, [p EXCEPT !.confidence = IF @ + 5 > 98 THEN 98 ELSE @ + 5])

-----------------------------------------------------------------------------
(* Superlinked *)

\* hasAuthoritativeSupportFilter; "id" is the canonical name of no field, so
\* the exception for it in the code never applies
HasAuthoritativeSupportFilter(resource, filters) ==
    \E i \in DOMAIN filters :
        NormalizeField(resource, filters[i].field) \notin
            {Unset, "order.created_at", "order.completed_at", "customer.created_at"}

\* normalize of the gateway: blank ("") and repeated ids go, the rest is cut
Deduplicated(ids) == Distinct(Kept(ids, Range(ids) \ {""}))

Candidates(ids, cap) ==
    LET distinct == Deduplicated(ids)
    IN SubSeq(distinct, 1, IF Len(distinct) > cap THEN cap ELSE Len(distinct))

\* a payload needs a candidate, and as many scores as ids or none
Usable(answer) ==
    /\ Deduplicated(answer.ids) # <<>>
    /\ Len(answer.scores) \in {0, Len(answer.ids)}

\* mutant: a message that needs clarification is served
ServesUnclear(gate, answer, count, unclear) ==
    /\ gate.mode \notin {"", "off", "shadow"}
    /\ answer.confidence >= gate.minConfidence
    /\ ~answer.late
    /\ count > 0
    /\ gate.maxCandidates > 0 => count <= gate.maxCandidates

\* ServingGate.Decide; an answer is late when it took more than maxLatencyMs
Serves(gate, answer, count, unclear) ==
    /\ gate.mode \notin {"", "off", "shadow"}
    /\ ~unclear
    /\ answer.confidence >= gate.minConfidence
    /\ ~answer.late
    /\ count > 0
    /\ gate.maxCandidates > 0 => count <= gate.maxCandidates

\* what the gateway adds; the ids themselves are one value here
CandidateFilter == [field |-> "id", op |-> "in", value |-> "candidates"]

Raised(a, answer) ==
    [a EXCEPT !.confidence = IF answer.confidence > @ THEN answer.confidence ELSE @,
              !.clarify = FALSE]

\* mutant: the candidates narrow a query that has explicit filters
ServedAlways(a, answer) == [Raised(a, answer) EXCEPT !.query.filters = Append(@, CandidateFilter)]

\* candidates narrow a query only when it has no explicit filter
Narrowed(a) ==
    IF HasAuthoritativeSupportFilter(a.resource, a.query.filters) THEN a
    ELSE [a EXCEPT !.query.filters = Append(@, CandidateFilter)]

\* the framer's analysis with the candidates of the provider
Served(a, answer) == Narrowed(Raised(a, answer))

\* the same with those of the built-in retriever, if it was asked and found any,
\* behind no gate
Mocked(a, found) ==
    [(IF found /\ ~a.clarify THEN Narrowed(a) ELSE a)
        EXCEPT !.confidence = IF @ + 8 > 99 THEN 99 ELSE @ + 8]

-----------------------------------------------------------------------------
(* mergeQueryDSL and the merge around it: the second result decides, the   *)
(* filters of both apply                                                   *)

MergeFilters(first, second) == Distinct(first \o second)

MergeQuery(first, second) ==
    [version |-> IF second.version = Unset THEN first.version ELSE second.version,
     intent  |-> IF second.intent = Unset THEN first.intent ELSE second.intent,
     sort    |-> IF second.sort = Unset THEN first.sort ELSE second.sort,
     filters |-> MergeFilters(first.filters, second.filters)]

Merged(first, second) ==
    [second EXCEPT !.query = MergeQuery(first.query, second.query),
                   !.confidence = IF first.confidence > @ THEN first.confidence ELSE @,
                   !.notes = first.notes \cup @]

=============================================================================
