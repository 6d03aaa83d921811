--------------------------- MODULE HybridRetrieval ---------------------------
(***************************************************************************)
(* The candidates behind the Superlinked mock endpoint                     *)
(* (internal/semantic/analyzer_superlinked_mock.go, hybrid_retriever.go,   *)
(* embedding_index.go): three lookups, each of which may fail on its own,  *)
(* their fusion by weighted ranks and the cut, over an index that start-up *)
(* and reindex rewrite.                                                    *)
(*                                                                         *)
(* The SELECTs have no ORDER BY and the sorts are not stable, so rows come *)
(* in any order and so do equal scores.                                    *)
(***************************************************************************)
EXTENDS EmbeddingIndex, ResolutionPlan, Integers, FiniteSets

CONSTANTS
    TenantOf,       \* the tenant of each document
    KnownBy,        \* for each document the <<field, value>> a lookup finds it by
    TextOf,         \* for each document its lexical columns, the words in each
    Messages,       \* what is asked
    DefaultTenant,  \* the tenant of a request without headers
    RowsPerGroup, RowsPerWord,  \* LIMIT of the SELECTs
    TopKLexical, TopKVector,    \* caps of two of the lookups
    TopK, FusionCap,            \* caps of the whole
    Scale                       \* a multiple of every rank, so that weight / rank is exact

\* a message as the resolver, the tokenizer and the embedding see it
Asked == [identified : Message, shape : STRING, tokens : Seq(STRING),
          likeness : [Docs -> Nat]]     \* cosine, 0 for none or negative

\* lexicalFieldsFor
Columns(about) == IF about = "order" THEN 7 ELSE 6

ASSUME HybridRetrievalConstants ==
    /\ Messages \subseteq Asked /\ Messages # {}
    /\ DefaultTenant \in {TenantOf[d] : d \in Docs}
    /\ \A cap \in {RowsPerGroup, RowsPerWord, TopKLexical, TopKVector, TopK, FusionCap} :
         cap \in Nat \ {0}
    /\ IsFiniteSet(Docs)
    /\ Scale \in Nat \ {0} /\ \A rank \in 1..Cardinality(Docs) : Scale % rank = 0
    /\ \A d \in Docs : DOMAIN TextOf[d] = 1..Columns(IF d \in Orders THEN "order" ELSE "customer")

VARIABLES
    at,         \* how far the retrieval got
    message,    \* what was asked
    resource,   \* what the framer took it to be about
    dims,       \* length of the query vector: that of the index ("hash") or not
    hits,       \* the documents of each lookup, best first
    reply       \* the candidates, and the strategy the reply names

retrievalVars == <<at, message, resource, dims, hits, reply>>

allVars == <<indexVars, retrievalVars>>

Sources == {"identifier", "lexical", "vector"}

NoHits == [s \in Sources |-> <<>>]

NoReply == [ids |-> <<>>, strategy |-> "none"]

Lesser(m, n) == IF m < n THEN m ELSE n

Limit == Lesser(TopK, FusionCap)

Candidates == {d \in Docs : TenantOf[d] = DefaultTenant
                            /\ d \in (IF resource = "order" THEN Orders ELSE Customers)}

TypeOK ==
    /\ IndexTypeOK
    /\ at \in {"idle", "identifying", "matching", "embedding", "scanning", "fusing", "answered"}
    /\ message \in Messages
    /\ resource \in {"order", "customer"}
    /\ dims \in {"hash", "model"}
    /\ \A s \in Sources : hits[s] \in Seq(Docs) /\ IsInjective(hits[s])
    /\ reply.ids \in Seq(Docs) /\ IsInjective(reply.ids) /\ Len(reply.ids) <= Limit
    /\ reply.strategy \in {"none", "hybrid_fusion", "lexical_only_fallback", "identifier_only",
                           "vector_only_fallback"}

Goto(from, to) == at = from /\ at' = to /\ UNCHANGED indexVars

-----------------------------------------------------------------------------
(* The three lookups *)

\* the mock endpoint asks for the tenant of its own request, which has no
\* headers; a message that needs clarification is not looked up at all
Retrieve ==
    /\ service = "up"
    /\ Goto("idle", "identifying")
    /\ message' \in Messages
    /\ resource' \in {"order", "customer"}
    /\ UNCHANGED <<dims, hits, reply>>

First(s, n) == SubSeq(s, 1, Lesser(Len(s), n))

\* mutant: a document found twice stays twice
IDsAsFound(ids) == ids

DedupeIDs(ids) == Distinct(ids)

\* a query is the documents it matches; the rows of those that did not fail,
\* one query after another
RowsOf(scan, queries, failed, limit) ==
    FlattenSeq([i \in DOMAIN queries |->
                  IF i \in failed THEN <<>> ELSE First(Kept(scan, queries[i]), limit)])

\* the groups of the plan for the resource
Groups ==
    LET plan == Plan(message.identified, resource)
    IN  Kept(plan, {g \in ToSet(plan) : g.resource = resource})

IdentifierQueries ==
    [i \in DOMAIN Groups |->
        {d \in Candidates : <<Groups[i].field, Groups[i].value>> \in KnownBy[d]}]

\* one query for each token and column
LexicalQueries ==
    LET columns == Columns(resource)
    IN [q \in 1..(Len(message.tokens) * columns) |->
          {d \in Candidates :
             message.tokens[((q - 1) \div columns) + 1] \in TextOf[d][((q - 1) % columns) + 1]}]

\* a failed query is skipped
IdentifierCandidates ==
    /\ Goto("identifying", "matching")
    /\ \E scan \in SetToSeqs(Candidates), queries \in {IdentifierQueries} :
         \E failed \in SUBSET DOMAIN queries :
           hits' = [hits EXCEPT !["identifier"] =
                      DedupeIDs(RowsOf(scan, queries, failed, RowsPerGroup))]
    /\ UNCHANGED <<message, resource, dims, reply>>

\* the cap counts a document as often as it was found
LexicalCandidates ==
    /\ Goto("matching", "embedding")
    /\ \E scan \in SetToSeqs(Candidates), queries \in {LexicalQueries} :
         \E failed \in SUBSET {i \in DOMAIN queries : queries[i] # {}} :
           hits' = [hits EXCEPT !["lexical"] =
                      DedupeIDs(First(RowsOf(scan, queries, failed, RowsPerWord), TopKLexical))]
    /\ UNCHANGED <<message, resource, dims, reply>>

\* the embedding service answers with vectors of its own length, or hashing does
Embed ==
    /\ Goto("embedding", "scanning")
    /\ dims' \in {"hash", "model"}
    /\ UNCHANGED <<message, resource, hits, reply>>

\* mutant: the rows of every tenant
SimilarAnyTenant ==
    {d \in Docs : index[d] # Absent /\ dims = "hash" /\ message.likeness[d] > 0}

\* rows whose vector can be compared, and compares
Similar == {d \in Candidates : index[d] # Absent /\ dims = "hash" /\ message.likeness[d] > 0}

\* the orders of a set of documents that follow a rank
Ranked(docs, Rank(_)) ==
    {s \in SetToSeqs(docs) : \A i, j \in DOMAIN s : i < j => Rank(s[i]) >= Rank(s[j])}

VectorCandidates ==
    LET Likeness(d) == message.likeness[d]
    IN /\ Goto("scanning", "fusing")
       /\ \E ranked \in Ranked(Similar, Likeness) :
            hits' = [hits EXCEPT !["vector"] = First(ranked, Lesser(TopKVector, TopK))]
       /\ UNCHANGED <<message, resource, dims, reply>>

VectorError ==
    /\ Goto("scanning", "fusing")
    /\ UNCHANGED <<message, resource, dims, hits, reply>>

-----------------------------------------------------------------------------
(* Fusion *)

\* mutant: the weights of the configuration for every shape
WeightsConfigured == [identifier |-> 20, lexical |-> 35, vector |-> 45]

Weights ==
    IF message.shape \in {"identifier_token", "contact_lookup", "typeahead_prefix"}
    THEN [identifier |-> 55, lexical |-> 30, vector |-> 15]
    ELSE [identifier |-> 20, lexical |-> 35, vector |-> 45]

\* weight over rank, Scale times over
Contribution(s, d) ==
    IF d \in Range(hits[s]) THEN Weights[s] * (Scale \div (CHOOSE i \in DOMAIN hits[s] : hits[s][i] = d))
    ELSE 0

\* mutant: the last lookup that found it counts
ScoreOfLast(d) ==
    IF Contribution("vector", d) > 0 THEN Contribution("vector", d)
    ELSE IF Contribution("lexical", d) > 0 THEN Contribution("lexical", d)
    ELSE Contribution("identifier", d)

Score(d) == Contribution("identifier", d) + Contribution("lexical", d) + Contribution("vector", d)

Found == UNION {Range(hits[s]) : s \in Sources}

\* mutant: what was found by identifiers only is called a fusion
StrategyByWords ==
    IF hits["vector"] = <<>> /\ hits["lexical"] # <<>> THEN "lexical_only_fallback" ELSE "hybrid_fusion"

\* later assignments win; the last one never applies, no weight being zero
Strategy ==
    IF Found = {} /\ hits["vector"] # <<>> THEN "vector_only_fallback"
    ELSE IF hits["vector"] # <<>> THEN "hybrid_fusion"
    ELSE IF hits["lexical"] # <<>> THEN "lexical_only_fallback"
    ELSE IF hits["identifier"] # <<>> THEN "identifier_only"
    ELSE "hybrid_fusion"

Fuse ==
    /\ Goto("fusing", "answered")
    /\ \E ranked \in Ranked(Found, Score) :
         reply' = [ids |-> First(ranked, Limit), strategy |-> Strategy]
    /\ UNCHANGED <<message, resource, dims, hits>>

\* the client takes the reply
Forget ==
    /\ at = "answered" /\ at' = "idle"
    /\ dims' = "hash" /\ hits' = NoHits /\ reply' = NoReply
    /\ UNCHANGED <<indexVars, message, resource>>

-----------------------------------------------------------------------------

Init ==
    /\ IndexInit
    /\ at = "idle" /\ dims = "hash" /\ hits = NoHits /\ reply = NoReply
    /\ message = (CHOOSE m \in Messages : TRUE) /\ resource = "order"

\* the service goes down between requests or takes the retrieval with it
Crash ==
    /\ Stop
    /\ at' = "idle" /\ dims' = "hash" /\ hits' = NoHits /\ reply' = NoReply
    /\ UNCHANGED <<message, resource>>

\* an open cursor locks the reindex out
Maintain ==
    /\ \/ Begin \/ SeedOrder \/ SeedCustomer \/ Commit \/ Abandon
       \/ Quit
       \/ at # "scanning" /\ (Stamp \/ \E v \in IndexVersions : Copy(v))
    /\ UNCHANGED retrievalVars

Next ==
    \/ Retrieve \/ IdentifierCandidates \/ LexicalCandidates \/ Embed
    \/ VectorCandidates \/ VectorError \/ Fuse \/ Forget
    \/ Crash \/ Maintain

Spec == Init /\ [][Next]_allVars

-----------------------------------------------------------------------------
(* Properties *)

\* Rows are read for one tenant and resource in three places, two of them with
\* statements put together from the plan and the message (hybrid_retriever.go:198,
\* :228, embedding_index.go:51): a candidate is of the tenant and resource asked
\* for, and the message names it, mentions it or is like it.
CandidatesMatch ==
    \A d \in Range(reply.ids) :
        /\ d \in Candidates
        /\ \/ \E known \in KnownBy[d] : known[2].of \in Identifiers(message.identified)
           \/ \E c \in DOMAIN TextOf[d] : TextOf[d][c] \cap Range(message.tokens) # {}
           \/ message.likeness[d] > 0

RankIn(s, d) == IF \E i \in DOMAIN hits[s] : hits[s][i] = d
                THEN CHOOSE i \in DOMAIN hits[s] : hits[s][i] = d
                ELSE Cardinality(Docs) + 1

Dominates(d, e) ==
    /\ \A s \in Sources : RankIn(s, d) <= RankIn(s, e)
    /\ \E s \in Sources : RankIn(s, d) < RankIn(s, e)

\* Scores are added up in a map, sorted unstably and cut (hybrid_retriever.go:115):
\* whatever the weights and the order of the map, a document that no lookup ranks
\* lower than another, and one ranks higher, comes before it and survives the cut
\* if the other does.
BetterComesFirst ==
    \A i \in DOMAIN reply.ids : \A d \in Found :
        Dominates(d, reply.ids[i]) => d \in Range(SubSeq(reply.ids, 1, i - 1))

\* A message in the shape of an identifier that finds one document has it first,
\* before anything its words or its vector find (hybrid_retriever.go:90).
NamedDocumentLeads ==
    /\ at = "answered"
    /\ message.shape \in {"identifier_token", "contact_lookup", "typeahead_prefix"}
    /\ Len(hits["identifier"]) = 1
    => reply.ids[1] = hits["identifier"][1]

\* A query vector of another length than the index's compares with no row
\* (embedding_index.go:77) and the evidence of that is lost with the hits it
\* would have come with: what is found all the same is reported as a fallback,
\* and as one that is true of it.
DegradedIsTold ==
    at = "answered" /\ dims = "model" /\ reply.ids # <<>> =>
        \/ reply.strategy = "lexical_only_fallback" /\ hits["lexical"] # <<>>
        \/ reply.strategy = "identifier_only" /\ Range(reply.ids) \subseteq Range(hits["identifier"])

=============================================================================
