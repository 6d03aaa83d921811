---------------------------- MODULE SemanticSearch ----------------------------
(***************************************************************************)
(* The interpret endpoint's way from a message to a search                 *)
(* (internal/http/server.go, internal/semantic): the provider the request  *)
(* or the configuration names, the rewrite/intent router with its chain of *)
(* providers, the calls of a local model with one repair, the Superlinked  *)
(* gateway behind its serving gate, the combination of the two, and then   *)
(* the clarification or the query, which goes the way of SearchQuery.      *)
(*                                                                         *)
(* The local model and the Superlinked service are outside: they answer    *)
(* anything of ModelAnswers and GatewayAnswers, or fail.  The local model  *)
(* has the timeout of its own client and ignores the one of the router, so *)
(* no provider of the chain returns an error.                              *)
(***************************************************************************)
EXTENDS SearchQuery, SemanticAnalysis

CONSTANTS
    Texts,          \* the messages
    Hints,          \* resourceHint of a request, Unset when absent
    Overrides,      \* provider of a request, "" when absent
    ModelAnswers,   \* analyses a local model may answer
    Values,         \* what it may compare a field with
    GatewayAnswers, \* payloads the Superlinked service may answer
    Deployments,    \* serving mode, routes and thresholds
    TopK, PostCap   \* caps on candidates: asked for, and served

\* what decodes as an analysis; it need not validate
Replies ==
    [query      : [version : ContractVersions, intent : IntentCategories,
                   filters : Seq([field : Names, op : Operators, value : Values]),
                   sort : Names \cup {Unset}],
     intent     : IntentCategories,
     resource   : Resources \cup {"warehouse"},
     confidence : Int,
     clarify    : BOOLEAN]

ASSUME SemanticSearchConstants ==
    /\ \A t \in Texts : t \in Seq(Range(t))
    /\ Hints \subseteq Resources \cup {Unset}
    /\ ModelAnswers \subseteq Replies
    /\ CandidateFilter.value \notin Values
    /\ \A answer \in GatewayAnswers : answer.confidence \in Int
    /\ TopK \in Nat \ {0} /\ PostCap \in Nat \ {0}

VARIABLES
    request,    \* what the client asked
    deployment, \* the configuration, read once at the start
    step,       \* where the message is on its way
    chain,      \* the providers the router has left to try
    slmRes,     \* the first analysis of slm-superlinked, once it is there
    draft       \* the analysis at hand

pipelineVars == <<request, deployment, step, chain, slmRes, draft>>

allVars == <<vars, pipelineVars>>

Requests == [text : Texts, hint : Hints, version : {"v1", "v2"}, asked : Overrides]

-----------------------------------------------------------------------------
(* The wiring of cmd/api/main.go *)

Rules == {"rule-slm", "intent-rule"}
LocalModels == {"slm-local", "intent-ollama-qwen", "intent-ollama-llama"}
Routed == {"rewrite-intent-routed", "slm-superlinked"}
Registered == {"intent-rule", "intent-ollama-qwen", "intent-ollama-llama"}

\* Router.Analyze: an override that is not wired is ignored
Provider == IF request.asked \in Rules \cup LocalModels \cup Routed
                                   \cup {"superlinked", "superlinked-mock"}
            THEN request.asked ELSE "slm-superlinked"

StartOf(provider) ==
    CASE provider \in Rules       -> "framing"
      [] provider \in LocalModels -> "asking"
      [] provider \in Routed      -> "routing"
      [] provider = "superlinked-mock" -> "mocking"
      [] OTHER                    -> "gateway"

-----------------------------------------------------------------------------
(* Framing.  The framer iterates a map on every call, so two calls on the  *)
(* same message may read it differently.                                   *)

\* what each message may be normalised to, and the prompt made of it
Wordings == UNION {{<<t, n>> : n \in Normalised(t)} : t \in Texts}

PromptWordings == UNION {{<<t, n>> : n \in PromptNormalised(t)} : t \in Texts}

\* what the framer makes of one of the wordings, for each version and hint;
\* tables, so that TLC computes an entry once
Parses(wordings) ==
    {<<<<w[1], version, hint>>, ParseText(w[2], version, hint)>> :
        w \in wordings, version \in {"v1", "v2"}, hint \in Hints \cup Resources}

Framings == Parses(Wordings)

Fallbacks == {<<m[1], Fallback(m[1][1], m[2])>> : m \in Parses(PromptWordings)}

\* the second analysis of slm-superlinked takes the resource of the first
Hint == IF request.hint = Unset /\ slmRes # <<>> THEN slmRes[1].resource ELSE request.hint

Entries(table) == {m \in table : m[1] = <<request.text, request.version, Hint>>}

Framed(notes) == {Noted(m[2], notes) : m \in Entries(Framings)}

ModelFallback(notes) ==
    {Noted(m[2], {"slm_remote_fallback"} \cup notes) : m \in Entries(Fallbacks)}

-----------------------------------------------------------------------------
(* The two ends of an analysis *)

\* an analyzer returned: its analysis is the result, or half of it
Deliver(a) ==
    /\ chain' = <<>>
    /\ IF Provider = "slm-superlinked" /\ slmRes = <<>>
       THEN step' = "gateway" /\ slmRes' = <<a>> /\ draft' = a
       ELSE /\ step' = "answering"
            /\ \E result \in {IF slmRes = <<>> THEN a ELSE Merged(slmRes[1], a)} : draft' = result
            /\ UNCHANGED slmRes

\* a provider of the chain returned; the router judges its analysis
Submit(a) ==
    IF chain = <<>> THEN Deliver(a)
    ELSE step' = "judging" /\ draft' = a /\ UNCHANGED <<chain, slmRes>>

Analysing(at) == step = at /\ UNCHANGED <<vars, request, deployment>>

FrameOnly ==
    /\ Analysing("framing")
    /\ \E p \in Framed({}) : Deliver(p)

-----------------------------------------------------------------------------
(* The rewrite/intent router *)

EnsureRuleFallback(ids) ==
    LET distinct == Deduplicated(ids)
    IN IF "intent-rule" \in Range(distinct) THEN distinct ELSE Append(distinct, "intent-rule")

\* the first route that fits decides
ResolveProviderChain(intent) ==
    LET Fits(route) == /\ route.shape \in {"", QueryShape(request.text)}
                       /\ route.intent \in {"", intent}
        fitting == SelectSeq(deployment.routes, Fits)
    IN EnsureRuleFallback(IF fitting = <<>> THEN deployment.defaults ELSE fitting[1].chain)

Route ==
    /\ Analysing("routing")
    /\ \E providers \in {ResolveProviderChain(p.intent) : p \in Framed({})} : chain' = providers
    /\ step' = "trying"
    /\ UNCHANGED <<slmRes, draft>>

Trying(providers) == Analysing("trying") /\ chain # <<>> /\ Head(chain) \in providers

SkipMissing ==
    /\ Analysing("trying")
    /\ chain # <<>> /\ Head(chain) \notin Registered
    /\ chain' = Tail(chain)
    /\ UNCHANGED <<step, slmRes, draft>>

TryRule ==
    /\ Trying(Rules)
    /\ \E p \in Framed({}) : Submit(p)

TryModel ==
    /\ Trying(LocalModels)
    /\ step' = "asking"
    /\ UNCHANGED <<chain, slmRes, draft>>

MinConfidence(provider) ==
    IF provider \in DOMAIN deployment.minimum THEN deployment.minimum[provider] ELSE 0

Passes(a) ==
    /\ Acceptable(a, request.version)
    /\ a.confidence >= MinConfidence(Head(chain))

Pass ==
    /\ Analysing("judging")
    /\ Passes(draft)
    /\ \E a \in {[Completed(draft, request.version) EXCEPT !.notes = @ \cup {"vetted"}]} : Deliver(a)

\* invalid_output or low_confidence
Reject ==
    /\ Analysing("judging")
    /\ ~Passes(draft)
    /\ chain' = Tail(chain) /\ step' = "trying"
    /\ UNCHANGED <<slmRes, draft>>

\* the chain is used up: the rule provider again, whatever it says
LastResort ==
    /\ Analysing("trying") /\ chain = <<>>
    /\ \E p \in Framed({"last_resort"}) : Deliver(p)

-----------------------------------------------------------------------------
(* The local model *)

FallBack(notes) == \E p \in ModelFallback(notes) : Submit(p)

Invalid == {a \in ModelAnswers : ~Acceptable(a, request.version)}

ValidAnswers ==
    {Guarded(request.text, Completed(Noted(a, {"slm_remote_used"}), request.version)) :
        a \in ModelAnswers \ Invalid}

ModelAnswersWell(at) ==
    /\ Analysing(at)
    /\ \E a \in ValidAnswers : Submit(a)

ModelFails == Analysing("asking") /\ FallBack({})

\* an answer that does not validate is sent back with its errors
AskRepair ==
    /\ Analysing("asking")
    /\ Invalid # {}
    /\ step' = "repairing"
    /\ UNCHANGED <<chain, slmRes, draft>>

\* mutant: and sent back again
RepairAgain ==
    /\ Analysing("repairing")
    /\ Invalid # {}
    /\ step' = "asking"
    /\ UNCHANGED <<chain, slmRes, draft>>

\* once: no answer, or one that still does not validate
RepairFails == Analysing("repairing") /\ FallBack({"slm_remote_invalid_fallback"})

-----------------------------------------------------------------------------
(* Superlinked *)

\* a request error, a timeout, a bad status, a body that does not decode, an
\* unusable payload, or one that the gate holds back
GatewayFails ==
    /\ Analysing("gateway")
    /\ step' = "routing"
    /\ UNCHANGED <<chain, slmRes, draft>>

Count(answer) == Len(Candidates(answer.ids, TopK))

Gate == [mode |-> deployment.mode, minConfidence |-> deployment.minServed, maxCandidates |-> PostCap]

IsServed(p, answer) == Usable(answer) /\ Serves(Gate, answer, Count(answer), p.clarify)

GatewayServes ==
    /\ Analysing("gateway")
    /\ \E a \in {Served(m[1], m[2]) :
                     m \in {m \in Framed({"superlinked_served"}) \X GatewayAnswers :
                               IsServed(m[1], m[2])}} :
         Deliver(a)

\* the built-in retriever, asked for by name; it finds something or not
MockServes ==
    /\ Analysing("mocking")
    /\ \E a \in {Mocked(m[1], m[2]) : m \in Framed({}) \X BOOLEAN} : Deliver(a)

-----------------------------------------------------------------------------
(* The reply *)

Done ==
    /\ step = "answering" /\ step' = "done"
    /\ UNCHANGED <<request, deployment, chain, slmRes, draft>>

Clarify ==
    /\ Done
    /\ draft.clarify
    /\ stage' = "clarified"
    /\ UNCHANGED <<endpoint, resourceType, asked, query, sql, status>>

\* what SearchQuery sees of the query
AsAsked(q) ==
    [version |-> q.version, intent |-> q.intent, sort |-> q.sort,
     filters |-> [i \in DOMAIN q.filters |-> [field |-> q.filters[i].field, op |-> q.filters[i].op]]]

HandOver ==
    /\ Done
    /\ ~draft.clarify
    /\ resourceType' = draft.resource
    /\ \E q \in {AsAsked(draft.query)} : asked' = q /\ query' = q
    /\ stage' = "received"
    /\ UNCHANGED <<endpoint, sql, status>>

-----------------------------------------------------------------------------

NoQuery == [version |-> Unset, intent |-> Unset, filters |-> <<>>, sort |-> Unset]

NoAnalysis == [query |-> NoQuery, intent |-> Unset, resource |-> Unset, confidence |-> 0,
               clarify |-> FALSE, notes |-> {}]

Drafting ==
    /\ endpoint = "interpret" /\ resourceType = "order"
    /\ asked = NoQuery /\ query = NoQuery
    /\ stage = "drafting" /\ sql = NoSql /\ status = "none"
    /\ request \in Requests
    /\ step = StartOf(Provider)

\* a structured search, which needs none of this
Structured ==
    /\ Init
    /\ request = [text |-> <<>>, hint |-> Unset, version |-> "v2", asked |-> ""]
    /\ step = "done"

InitAll ==
    /\ deployment \in Deployments
    /\ chain = <<>> /\ slmRes = <<>> /\ draft = NoAnalysis
    /\ \/ Drafting
       \/ Structured /\ deployment = CHOOSE d \in Deployments : TRUE

Analyse ==
    \/ FrameOnly \/ Route \/ SkipMissing \/ TryRule \/ TryModel \/ Pass \/ Reject \/ LastResort
    \/ ModelAnswersWell("asking") \/ ModelAnswersWell("repairing")
    \/ ModelFails \/ AskRepair \/ RepairFails
    \/ GatewayFails \/ GatewayServes \/ MockServes
    \/ Clarify \/ HandOver

NextAll == Analyse \/ (Next /\ UNCHANGED pipelineVars)

SpecAll == InitAll /\ [][NextAll]_allVars

\* a handler runs to its end: every call to a model or to the gateway returns,
\* with an answer or with the timeout of its client
FairSpecAll == SpecAll /\ WF_allVars(NextAll)

-----------------------------------------------------------------------------
(* Properties *)

\* what became of a message
Searched == endpoint = "interpret" /\ stage \notin {"drafting", "clarified"}

Denied(state) == \E i \in DOMAIN draft.query.filters : draft.query.filters[i] = Not("shipment.state", state)

\* A message that says "not shipped" passes the framer, a model that may have
\* read it the other way round, its repair, the fallbacks, and a merge with a
\* second analysis (analyzer_slm_local.go:159, parser.go:461,
\* analyzer_slm_superlinked.go:128): if orders are then searched for their
\* shipping, those shipped, delivered or ready are excluded and none asked for.
NotShippedIsHonoured ==
    Searched /\ draft.resource = "order" /\ draft.query.intent = "wismo"
             /\ HasNotShippedCue(request.text) =>
        \A state \in DeniedStates :
            /\ Denied(state)
            /\ Is("shipment.state", state) \notin Range(draft.query.filters)

\* messages that name two payment states however they are read
Contradictory ==
    {t \in Texts : \A w \in Wordings \cup PromptWordings : w[1] = t => HasPaymentConflict(w[2])}

\* parser.go:140, "If both failed and paid cues are present, force clarification
\* instead of emitting contradictory filters": through every chain, fallback,
\* gate and merge such a message is searched only if a language model read it.
ConflictsAreClarified ==
    Searched /\ request.text \in Contradictory => "slm_remote_used" \in draft.notes

LegsAgree ==
    slmRes # <<>> =>
        /\ slmRes[1].resource = draft.resource
        /\ slmRes[1].query.version = draft.query.version
        /\ slmRes[1].query.intent = draft.query.intent

\* Two validations guard a query, the analyzers' and that of Search
\* (analyzer_slm_local.go:350, service.go:73).  What the router vetted is not
\* refused for a field: only the last resort (rewrite_intent_router.go:119), a
\* served or unrouted analysis, or a merge of two that disagree can be.
VettedQueriesPass ==
    endpoint = "interpret" /\ stage = "refused" /\ ~Valid(query) =>
        \/ draft.notes \cap {"last_resort", "superlinked_served"} # {}
        \/ "vetted" \notin draft.notes
        \/ ~LegsAgree

\* retrieval_guard.go:10: explicit filters remain authoritative, candidates must
\* not be applied to them "as a hard id IN".  They meet in one query only if the
\* merge brings the filters of the first analysis in.
CandidatesNarrowAlone ==
    CandidateFilter \in Range(draft.query.filters) =>
        LET Explicit(f) == f # CandidateFilter /\ HasAuthoritativeSupportFilter(draft.resource, <<f>>)
        IN \A f \in Range(draft.query.filters) :
             Explicit(f) => slmRes # <<>> /\ f \in Range(slmRes[1].query.filters)

\* Every message gets a clarification, a search or an error, whatever the model
\* and the gateway answer and however often they fail.
EveryMessageIsAnswered == endpoint = "interpret" ~> stage \in {"clarified", "compiled", "refused"}

=============================================================================
