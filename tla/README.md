# Permission-aware search: specifications and proofs

The program answers searches over orders and customers so that a caller sees the
documents the policy allows and placeholders for the rest.  A request may be a
structured query, a single document, or a sentence or identifier typed by a
support agent.  This directory holds TLA+ modules of its core, TLC runs over
small instances, and proofs for instances of every size.  Paths below are
relative to the repository; line numbers are those of the modelled commit.

## 1. Inventory

```
 headers --> auth --> Subject                                    migrations, seed
                         |                                            |
 POST /search  ----> HTTP server ----> Service.Search/Detail --> SQLite adapter
 POST /interpret      |      |              |        |                |
                      |      |        contracts,   policy engine --> acl_grants,
     identifier resolver     |        schema         |               policy_rules
       (fast path: one       |        registry     grants cache
        goroutine per        |
        lookup)              +--> rewrite/intent router --> rule | local SLM
                                                     --> superlinked | hybrid retriever
```

| component | state | operations | what is hard | what makes it correct |
|---|---|---|---|---|
| policy engine, grants cache (`internal/policy`, `internal/cache`) | `acl_grants`, `policy_rules` in SQLite; `items` map with expiry under an RWMutex | `Evaluate`, `Explain`, `Get`, `Set`, `InvalidatePrefix` | locks are dropped between a read and the write that depends on it, and around SQL; edits do not invalidate; restart | bounded staleness; no foreign grants; deny wins; an answer for every call |
| search service (`internal/search`) | none between requests | `Search`, `Detail`, `Explain`, request tokens | three and more statements without a transaction; windows, pages and cursors are counted differently | nothing denied is shown; counts and reason are true; paging ends and is complete |
| store adapter (`internal/store/sqlite`) | document tables | `Search`, `GetByID`, `FetchByIDs` | a field name is translated after it was accepted | the statement filters on what was asked |
| field contracts, schema registry (`internal/contracts`, `internal/schema`) | immutable after start | `NormalizeField`, `ValidateField`, columns | four tables of names that must agree | accepted means answerable; refused means not allowed |
| identifier resolver (`internal/identifier`) | immutable patterns | `AnalyzeQuery`, `BuildResolutionPlan` | overlapping patterns | one lookup per meaning |
| HTTP server (`internal/http`) | trace counter | `handleSearch`, `handleQueryInterpret`, `handleDetail`, ... | goroutines, channel, WaitGroup; one failing lookup | every request is answered, all or nothing |
| semantic pipeline (`internal/semantic`) | configuration | router with timeouts and fallbacks, local SLM, superlinked gateway and gate, hybrid retriever, embedding index | providers that are slow, wrong or absent; merging two analyses | an answer whatever the providers do; filters stay authoritative |
| migrations, seed, reindex (`cmd`, `migrations`) | all tables | drop, create, seed, rebuild the index | not one transaction; races with the running API | the same tables after every restart |
| metrics (`internal/observability`) | two slices under a mutex | `RecordSearch`, `Snapshot` | growth | percentiles of what was recorded |

`PROJECT.json` lists these components file by file with what is left out of each,
and the hazards of the code line by line.

## 2. The modules

**Policy.**
`PolicyRules` is the pure part: `matchRule`, `evalABAC`, `hasDenyRule` and the
combination of ACL and ABAC in `Evaluate`.  `EvalABACInOrder` is the loop of the
code over rows in some order, `EvalABAC` what the rest of the project uses; that
they agree is the property `RowOrderIsIrrelevant`.  `PolicyTable` is a table of
rules and grants under edits, on which the algebra of decisions is stated.
`PolicyData` holds the two tables, the administrator, the reseeding restart and
the clock.  `PolicyEngine` has several goroutines in `Evaluate`: `GetRead`, then
`Hit`, `Miss` or `Evict`, `Query` (the SELECT), `SetEntry`, `DecideStep`.  Each is
one critical section of the mutex or one SQL statement.  An entry stores the
time it has left, so no clock grows.  `AccessControl` is the promise of
`policy.Engine` without a cache: a decision by the rules of the moment and by
grants at most `Staleness` ticks old, or a failure.

**Search.**
`SearchService` follows one client through `Search`, page after page, and through
`Detail`: `Accept`, `Count`, `Select`, one `Judge` per candidate, `Compose`.  The
table and the policy's answers change between any two of these.  `visible` stands
for what `policy.Evaluate` would answer at this moment; how that follows from
grants and rules is the business of `PolicyEngine`.
`FieldContracts` is the schema: all 31 fields with columns, intents and
sortability, normalisation and allowlists.  `SearchQuery` takes a query through
defaults, normalisation, validation and the building of SQL.

**Interpretation.**
`ResolutionPlan` turns what the detector found into lookups; `FastPath` is the
routing of `handleQueryInterpret` and the parallel execution of a plan: `Spawn`,
`Search`, `Send`, `Done` per goroutine, `Join`, `Collect`, `Abort`, `Reply` in the
handler.  A lookup is validated by the operators of `FieldContracts`.

What the fast path does not answer goes through the semantic pipeline.
`QueryParser` is the deterministic framer as operators: rewriting (`Normalised`),
cues, `ClassifyIntent`, `InferResourceType`, what each cue contributes (`WISMOClues`,
`CRMClues`, ...), and `ParseText`, which puts them together.  `SemanticAnalysis` is
what is done with a result: validation (`Acceptable`), the guardrail (`Guarded`),
the serving gate (`Serves`), the payload check (`Usable`, `Candidates`) and the merge
(`Merged`).  `SemanticSearch` is the state machine over both: `request.asked` names a
provider or the configured one runs; `FrameOnly`; the router (`Route`, then
`SkipMissing`, `TryRule` or `TryModel`, then `Pass` or `Reject`, in the end
`LastResort`); the local model (`ModelAnswersWell`, `ModelFails`, `AskRepair`,
`RepairFails`); the gateway (`GatewayServes`, `GatewayFails`, which goes back to the
router); `MockServes`; and `Clarify` or `HandOver`.  `Deliver` is the end of an
analyzer: of a request, or of the first half of slm-superlinked, whose second half
is the gateway.  `SemanticSearch` EXTENDS `SearchQuery`, so a query made from a
message goes on through defaults, normalisation, validation and SQL.

**Retrieval.**
`EmbeddingIndex` is the two tables of the index and their two writers: start-up
(`Begin`, `SeedOrder`, `SeedCustomer`, `Commit`, `Abandon`) and the reindex command
(`Copy`, `Stamp`, `Quit`), either of which may end between two statements.
`HybridRetrieval` is one retrieval over that index: `IdentifierCandidates` (over the
plan of `ResolutionPlan`), `LexicalCandidates`, `Embed`, then `VectorCandidates` or
`VectorError`, and `Fuse`.

**Lists.**
`Selection` has the two loops over lists that the code writes again and again: keep
what fits (`Kept`), and keep what is seen for the first time (`Distinct`).
`SequenceLemmas` is what the proofs know of them and of the folds of the community
modules; `ResolutionPlanProofs` is what they know of plans.  `SearchQueryProofs`
holds the proofs of both `SearchQuery` and `SemanticSearch`, which shares its
variables.

`MCPolicyEngine`, `MCSearchService`, `MCSearchQuery`, `MCSemanticSearch`, `MCFastPath`
and `MCHybridRetrieval` hold the values of the small instances.  The `mutant:` operators are plausible mistakes in the
code; each property is known to fail for one of them.

## 3. Abstractions

* Resource type and action are one fixed pair in the policy modules: they select
  rows and are part of the cache key just as the tenant is.  The key is a string
  joined with colons; the model's record is faithful as long as ids hold no colon.
* One tick is a unit of the cache's TTL (30 s in the code).  A call of `Evaluate`
  lasts at most `MaxFill` ticks; the code has no such limit, so staleness is stated
  relative to it.
* A failed SQL statement, a failed scan and a malformed row are one failure.
* Rows with equal sort keys are taken to come in the same order from one statement
  to the next; a negative cursor, which SQLite reads as zero, is not modelled.
* What the regular expressions of the resolver find in a message is given by
  examples (`MCFastPath`).
* For the framer a message is a sequence of words.  An identifier is one word and
  stands for its value; a list of phrases with one effect is represented by some of
  them.  `Says` keeps what `strings.Contains` does to parts of words ("unshipped"
  contains "shipped").  Rewriting is what it is in the code: one `strings.ReplaceAll`
  (`Replaced`) per entry of a Go map that is iterated in any order, so `Normalised` is
  the set of texts it may end with.  `Wordings`, `PromptWordings`, `Framings` and
  `Fallbacks` are tables of these texts and of how they read, for the messages given.
* Confidence is in hundredths.  The ids of served candidates are one value.
* The models and the Superlinked service answer any member of a small set, or fail;
  for the proofs it is any set of `Replies`, what decodes as an analysis, with the
  names of the schema and any `Values` but the one that stands for candidates;
  a slow answer is a failure of the client's own timeout.  The timeout of the router
  is not a step: `SLMLocalAnalyzer.Analyze` ignores its context, so it ends nothing.
* A row of the index is the version it was written under, since both writers copy
  or compute the same vector for it.  Likeness of message and document is given, a
  vector of another length compares with none.  Scores are `Scale` times those of the
  code, a multiple of every rank, so that weight over rank is a whole number: 60 for
  the ranks of the run, and some number for any finite set of documents.
* One client asks the mock endpoint at a time; retrievals share nothing but tables.
* `InvalidatePrefix` has no caller in the repository.  It is an action that may
  happen at any time: what is shown holds with and without it.

## 4. Runs

| run | question | bounds, and why they suffice |
|---|---|---|
| `policy_table` | Is the decision independent of row order; does a deny win over grants, wildcards and allow rules; does an attribute the subject lacks open a document no allow rule asks to open for its absence; can a new grant take access away? | two rows of all rules over one attribute and two values, every subject and document: a decision depends on whether some allow and some deny match, and two rows give all four cases in both orders |
| `engine` | How old may the grants behind a decision be? Does the cached engine implement `AccessControl`? | two callers with one key, two tenants, one of them foreign to the document; a user with and without a role; grants and one deny rule edited at any time; TTL and call of one tick each, so an entry lives, expires and is replaced while the other caller is still on its way |
| `engine_live` | Does every call return? Does the ACL admit only by own grants, if roles are stable? | two callers, one tenant |
| `engine_roles` (violation) | the same with roles that vary from request to request | |
| `search` | Do windows, pages, counts, placeholders and cursors add up? Is anything shown that was not allowed, or a reason given that was not true? Does following the cursors end? | every table of up to three rows, every visibility of six copies, window 2, default 2, placeholders 1, limits absent, below and above the window, starts inside and past the end: every `min` and `max` of the code is taken on either side and a walk has several windows; one change at any point, so each pair of statements disagrees somewhere |
| `search_pages` (violation) | Does a walk show every visible match? | no change at all |
| `search_query` | From a message to a query: is "not shipped" honoured and a contradiction clarified on every path, do the two validations agree, do candidates stay out of explicit filters, is every message answered? From a spelled name to a column: is it the field that was meant, and is every refusal right? | fourteen messages, at least one per intent, conflict, rewriting and shape; every provider a request may name; eight model answers: right, wrong, unsure, incomplete, of the other contract and invalid in three ways; payloads with blanks, repeats, too many ids, mismatched scores; gate open and shadow; a chain with a missing and a blank provider. For structured requests every name of the schema, versions v1, v2, absent and unknown, six intents, one or two filters |
| `search_query_v1` (violation) | Are the v1 fields searchable? | |
| `retrieval` | Is an index whole and of one version after crashes, restarts and reindexes in any order? Are candidates of the tenant and the message, well ordered, and is a degraded answer named as one? | three orders and a customer of one tenant, an order of another that is most like the message; two versions; messages of all four shapes that matter; every subset of queries fails; every cap cuts for some message |
| `fast_path` | Whatever the order of completion: is every lookup accounted for, is a failure never partial, is no goroutine left, is every request answered? | one message of every kind the patterns distinguish; plans of up to five lookups, with results of three kinds |
| `fast_path_lookups`, `fast_path_groups` (violations) | Do the documented lookups work; one group per field? | |

Deadlock is checked where the system goes on for ever (the engine, the table, the
search client and retrieval over its index); `SemanticSearch`, `SearchQuery` and
`FastPath` follow one request and stop with its answer.

**Fairness.**  `EveryCallReturns` assumes weak fairness of the steps of each caller
in `Evaluate`: the Go scheduler runs every runnable goroutine, a mutex of the cache
is never held across a database call, and no step waits for another caller.
Starting a call, failing, and everything of the environment are unfair.
`WalkEnds` assumes that a handler runs to its end and that the client keeps
paging; `EveryRequestIsAnswered` only that the process runs something as long as
something can run, which is enough as handler and goroutines take finitely many
steps.  `EveryMessageIsAnswered` assumes weak fairness of the whole handler: every
call it makes has a client with a timeout of its own (`http.Client.Timeout` in
`analyzer_slm_local.go` and `superlinked_gateway.go`), so each returns.  Which way it
returns is not fair: models and gateway may fail for ever.

### What the runs found

1. `sqlite_engine.go:72`: roles are missing from the cache key.  The grants of one
   request are served to later requests of the same user with other roles, for up
   to 30 seconds.  Bounded staleness (`GrantsUsedAreRecent`) still holds, in the
   sense that any role the user presented counts.
2. `service.go:108`: a page is cut to the limit while the cursor moves on by the
   whole window of five times as many rows; visible matches in between are on no
   page.
3. `adapter.go:182`: under contract v1 the names the contract accepts are the ones
   the adapter refuses; a v1 search with a filter ends with a 500.
4. `server.go:448`: the fast path validates all lookups under the default intent,
   which excludes tracking numbers and the sort field of customers; one such
   lookup fails the whole request.
5. `resolver.go:140`: an order number such as ORD-000001 yields two groups of one
   field.

Not violations of a stated claim, but seen while modelling:

* A reindex stamped over a rebuild, or one that dies between its statements, leaves
  rows and vectors of different versions until the next undisturbed reindex or
  restart (`torn`).  A restart always goes back to version v2, and the vectors of
  the other profiles are never restamped.
* When the query vector has another length than the index's and nothing is found,
  the evidence `semantic_dim_mismatch_filtered` is dropped with the empty result;
  `DegradedIsTold` therefore speaks of replies with candidates.
* A rule `equals ''`, which the table admits, matches a subject that lacks the
  attribute (`sqlite_engine.go:175`): a literal is compared without the guard on ""
  that `__MATCH_RESOURCE__` has.  `AbsenceOpensOnlyIfAsked` counts it, with
  `not_equals`, as a rule that asks for absence.
* `slots.go:63` rewrites "state is open" to "open state", which makes the intent
  wismo (`parser.go:215`) but is no cue of `hasOpenStateCue` (`parser.go:431`): the
  filter on the order's state is not set for it.
* The merge of slm-superlinked adds the filters of the first analysis to the
  candidates of the second: `CandidatesNarrowAlone` has to allow for it.
* The mock endpoint looks for candidates of the default tenant, whatever tenant the
  payload names.

## 5. Proofs

The proofs hold for any number of callers, tenants, users, roles, documents, rows,
filters, lookups and words, any TTL and any length of a call, and for any messages,
model answers, payloads, routes and thresholds.  They assume only the named
assumptions on the constants (`PolicyConstants`, `PolicyDataConstants`,
`PolicyEngineConstants`, `SearchConstants`, `SearchQueryConstants`,
`SemanticSearchConstants`, `EmbeddingIndexConstants`, `HybridRetrievalConstants`,
`FastPathConstants`), which TLC evaluates on every run.  They say that sets and numbers
are what they are called, that placeholders are not values, that limits are positive,
that there are finitely many documents and that `Scale` is a multiple of every rank.

| theorem | module | argument |
|---|---|---|
| `TypeCorrect` | `PolicyEngineProofs` | one step per action |
| `AgesInvariant`: `Spec => []AgesAddUp` | `PolicyEngineProofs` | see below |
| `GrantsRecent`: `Spec => []GrantsUsedAreRecent` | `PolicyEngineProofs` | from `AgesAddUp`, as `TTL + MaxFill + spent` is at most `Staleness` |
| `OwnGrants`: `Spec => OwnGrantsOnly` if roles are stable | `PolicyEngineProofs` | only `DecideStep` lets in, and what it holds reflects the grants of the roles a user ever presents; with stable roles these are the request's own |
| `Refinement`: `Spec => ImplementsAccessControl` | `PolicyEngineProofs` | `AgesAddUp` gives `DecideStep` the grant set `Answer` asks for; `RefuseTenant` is the other way to answer; the steps between `Start` and the decision stutter |
| `TypeCorrect`, `DenyPrevails`, `AbsenceIsAsked`, `GrantsOnlyOpen` | `PolicyTableProofs` | the two paths of `Evaluate` unfolded over any set of rows; that rows stay rows under edits is `TableOK` |
| `AnyOrder`: `Spec => []RowOrderIsIrrelevant` | `PolicyTableProofs` | the table of intermediate decisions of the loop, row by row |
| `TypeCorrect` | `SearchServiceProofs` | sequences stay sequences of copies |
| `Gathered`, `AnswersJudged` | `SearchServiceProofs` | `JudgedSoFar` is inductive: what the loop gathered was allowed or denied at a moment since the request began, and an edit only adds to what was |
| `ReasonsAreTrue`, `PagesAreViews`, `WalksTile` | `SearchServiceProofs` | `PagingSoFar`, see below |
| `TypeCorrect`, `FiltersMeanWhatTheySay`, `SortMeansWhatItSays`, `Refusals` | `SearchQueryProofs` | stage by stage, see below |
| `QueriesOfMessages`, `NotShipped`, `Conflicts`, `VettedPass`, `NarrowAlone` (of `SpecAll`) | `SearchQueryProofs` | `PipelineInv`, see below |
| `PathInvariant`, `NoneIsLeft`, `AllOrNothing`, `TypeCorrect`, `ReplyIsWhole` | `FastPathProofs` | `PathInv` and `ArrivalInv`, see below |
| `IndexInvariant`, `Whole`, `Agreement` | `HybridRetrievalProofs` | for the two writers of the index alone, see below |
| `TypeCorrect`, `IndexStands`, `CandidatesAreReasoned`, `BetterFirst`, `NamedLeads`, `FallbackIsTold` | `HybridRetrievalProofs` | `RetrievalInv`, see below |

**Cache.**  `GrantsUsedAreRecent` speaks of a caller about to decide and is not
inductive: where its grants came from is not part of it.  `AgesAddUp` follows a grant
set through its four holders and bounds its age in each: a caller back from the SELECT
(at most `spent` ticks), an entry in the map and the same entry in the hands of
`Get` (`MaxFill` more than it has lived), and a caller with a decision to make
(`TTL + MaxFill` plus what its own call has taken).  The clock adds one tick to the
age and one to the bound; an edit of the table is zero ticks old; a restart
empties the cache, so nothing of before is held.  `OwnGrants` is stated under the
hypothesis `RolesAreStable` because without it the run `engine_roles` refutes the
property.

**Loops.**  The provers have no induction over data with a formula for a parameter.
An induction over the natural numbers is instead put as one over a set: the numbers
up to which a claim holds contain zero and the successor of each member.  A loop that
appends to a list is a fold, a fold is a table of its intermediate results
(`SequenceLemmas`), and what is claimed of the loop is claimed of every entry of the
table.

**Pages.**  The properties of a reply speak of one moment.  `PagingSoFar` follows a
request there: what COUNT returned (`CountSoFar`), where the walk stands between two
windows (`WalkSoFar`), and what the loop has split into allowed and denied so far
(`PageSoFar`).  `WindowsTileTheTable` needs
that adjacent windows concatenate to a stretch of the table, and that the one past the
end is empty.

**Names.**  A filter is rewritten in place, so each property relates the statement to
the request through the stages in between.  The invariant says of every stage which
list of names it works on, and finite lemmas about the schema say what each of its
tables does to one name; lists may have any length.

**Messages.**  The four properties of the pipeline speak of a query that is searched,
long after it was read.  `PipelineInv` adds to the invariant of `SearchQuery` what each
analysis owes to the message on its way (`Way`).  A reading is `Fair`, so with "not
shipped" in the message it never asks for one of the denied states, and `Honest`: it
denies them all, or is about something else, or asks the user; a contradiction is asked
about unless a model read it.  `Reading` is both, of an analysis without candidates;
`Leg` is what slm-superlinked keeps as its first half, `Whole` what an analyzer
delivers, `Reply` what is left of both after the merge.  `Vetted` analyses use only
allowed names (`Allowed`), and those stay allowed when Search normalises them
(`AllowedIsValid`).  One lemma per operation says that it makes the one out of the
other: `PassReads`, `NarrowedIsWhole`, `ServedIsWhole`, `MockedIsWhole`,
`MergedIsReply`.  `AnswerReads` covers a model: a valid answer is overruled by
`Guarded` or is not about shipping at all, as no other intent allows the field
(`ShippingOnly`).

That a message says "not shipped" must survive its rewriting, though the framer and the
fallback read different texts.  The cue is a place in the text (`CueIsThere`); no phrase
that is replaced starts or ends within such a place (`Neutral`), so a replacement moves it
at most (`DenialStays`); then it holds after every step of `ReplaceAll` (`ReadOnKeeps`),
and after the replacements in every order (`RewrittenKeeps`).  Nothing of the kind holds
of payment states, where one replacement may complete or spoil the phrase of another:
`Contradictory` therefore asks for the contradiction in every wording.

**Fast path.**  `FailsIfAnyLookupFails` speaks of the end of a request; `Conserved`
follows results on their way there: what a goroutine sent is in the channel or was
received, the channel holds nothing else, and what was received did not fail.  With
`Joined` (the collector starts after all are done) an empty channel means that every
lookup was received, and a failed head that one of them failed.  `ArrivalInv` adds that
each lookup is on its way at most once, so that what was received when the channel is
empty is the plan in some order.  The totals of a response are folds over what was
received; `TotalsInAnyOrder` shows that they are the same in every order, by bringing
any lookup to the end of the list (`AnyLast`).

**Index and retrieval.**  `VersionsAgree` says nothing of the time between the two
statements of a reindex, so it is not inductive: `Stamp` needs to know that the vectors
are still those that `Copy` left.  `CopyStands` says so as long as no rebuild has come
between; a rebuild is remembered as `overtaken`, and what is stamped over it as `torn`.
`RetrievalInv` follows one retrieval over that index: every list of hits holds
candidates that the message names, mentions or is like, without repetition
(`HitsOK`); before the reply there is none (`Pending`); and a reply is a ranking of what
was found by the scores, cut (`Answer`), which the index may leave behind at once.  That
a document dominating another has the higher score then is arithmetic: `Scale` over a
rank falls strictly with the rank, as the division is exact, and every weight is
positive.

**Model-checked only.**

* Liveness: `EveryCallReturns`, `WalkEnds`, `EveryMessageIsAnswered`,
  `EveryRequestIsAnswered`.  The prover has no rules for fairness and `ENABLED`.
* What a recursive or folded computation yields for a particular input, for example
  that a rewriting ends with a certain text: the runs compute it, the proofs show what
  it keeps.

Every safety invariant and action property of the passing runs is also a theorem.

## 6. Not modelled

* Text for models and for users: prompts, examples and the schema provider, the
  rendering of responses, evidence, filter sources and debug output.  They carry no
  state and no decision reads them.
* Regular expressions and the arithmetic of vectors, beyond what section 3 says.
* Branches this wiring cannot reach: the second half of slm-superlinked failing
  (`superlinked_refinement_failed`), an error of a provider of the chain
  (`timeout_or_error`), as every analyzer wired there falls back itself; routes of
  single tenants, which the shipped configuration does not have.
* A client that disconnects: the context ends statements, which is the failure of a
  statement in the modules that have one.
* A second API process on one database, and the files and variables configuration
  is read from.
* Metrics: two slices that grow for the life of the process, which a bounded model
  would assume away.
* The MongoDB stub, the replay tool, the Python service, the web page and scripts,
  which the Go program meets only through HTTP or not at all; request tokens, which
  are a signed payload without state.

## 7. Plan

Done: the policy engine with its cache, its rules and its abstract specification;
search and detail; names and contracts; the identifier fast path; the semantic
pipeline down to SQL; retrieval, the embedding index and its reindex.

Theorems for every safety property of the passing runs.

Left, in this order:

1. `SearchService` over `AccessControl` instead of the free set `visible`, and the
   implementation of `AccessControl` by the search composed with it.
2. `FastPath` composed with `SemanticSearch` where its route is `semantic`.
