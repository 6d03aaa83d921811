------------------------ MODULE HybridRetrievalProofs ------------------------
(***************************************************************************)
(* The index and the retrieval over it, for any documents, messages,       *)
(* versions and caps.                                                      *)
(***************************************************************************)
EXTENDS HybridRetrieval, ResolutionPlanProofs

-----------------------------------------------------------------------------
(* The index *)

\* Between its two statements a reindex that no rebuild has overtaken finds the
\* vectors as it left them: what makes the second statement agree with the first.
CopyStands ==
    reindexer = "copied" =>
        \A d \in Docs : index[d] # Absent => vectors[<<d, DefaultProfile(d)>>] = target

IndexInv == IndexTypeOK /\ IndexIsWhole /\ VersionsAgree /\ CopyStands

\* The vector a reindex replaces is one of the table's (the primary key of
\* 005_semantic_vectors.sql).
LEMMA DefaultKey == \A d \in Docs : <<d, DefaultProfile(d)>> \in Keys
BY DEF Keys, Profiles

\* A key is a document and a profile.
LEMMA KeyParts == \A k \in Keys : k[1] \in Docs
BY DEF Keys

LEMMA IndexStart == IndexInit => IndexInv
<1> SUFFICES ASSUME IndexInit PROVE IndexInv
  OBVIOUS
<1>1. IndexTypeOK
  BY DEF IndexInit, IndexTypeOK, Row, ReindexStates
<1>2. IndexIsWhole
  BY DEF IndexInit, IndexIsWhole
<1>3. VersionsAgree
  BY DefaultKey DEF IndexInit, VersionsAgree
<1>4. CopyStands
  BY DEF IndexInit, CopyStands
<1> QED
  BY <1>1, <1>2, <1>3, <1>4 DEF IndexInv

\* The steps of the transaction before its end touch neither table.
LEMMA QuietStepInv ==
    IndexInv /\ (Begin \/ SeedOrder \/ SeedCustomer \/ Abandon \/ Stop) => IndexInv'
<1> SUFFICES ASSUME IndexInv, Begin \/ SeedOrder \/ SeedCustomer \/ Abandon \/ Stop
             PROVE  IndexInv'
  OBVIOUS
<1> USE DEF IndexInv
<1>0. UNCHANGED <<index, vectors, reindexer, target>> /\ (service' = "up" => service = "up")
  BY DEF Begin, Seed, SeedOrder, SeedCustomer, Abandon, Stop
<1>1. IndexTypeOK'
  BY DEF Begin, Seed, SeedOrder, SeedCustomer, Abandon, Stop, IndexTypeOK
<1>2. IndexIsWhole'
  BY <1>0 DEF IndexIsWhole
<1>3. VersionsAgree'
  BY <1>0 DEF VersionsAgree
<1>4. CopyStands'
  BY <1>0 DEF CopyStands
<1> QED
  BY <1>1, <1>2, <1>3, <1>4

\* The end of the transaction brings all rows of one version.
LEMMA CommitInv == IndexInv /\ Commit => IndexInv'
<1> SUFFICES ASSUME IndexInv, Commit PROVE IndexInv'
  OBVIOUS
<1> USE DEF IndexInv
<1>1. IndexTypeOK'
  BY DEF Commit, IndexTypeOK, Row, ReindexStates
<1>2. IndexIsWhole'
  BY DEF Commit, IndexIsWhole, Built, Absent
<1>3. VersionsAgree'
  BY DefaultKey DEF Commit, VersionsAgree
<1>4. CopyStands'
  BY DEF Commit, CopyStands
<1> QED
  BY <1>1, <1>2, <1>3, <1>4

\* The first statement of a reindex.
LEMMA CopyInv == ASSUME NEW v \in IndexVersions, IndexInv, Copy(v) PROVE IndexInv'
<1> USE DEF IndexInv
<1>0. v # Absent
  BY EmbeddingIndexConstants
<1>1. IndexTypeOK'
  BY DEF Copy, IndexTypeOK, Row, ReindexStates
<1>2. IndexIsWhole'
  <2>1. CASE (\A d \in Docs : index[d] = Absent) /\ (\A k \in Keys : vectors[k] = Absent)
             /\ service # "up"
    BY <2>1, KeyParts DEF Copy, IndexIsWhole
  <2>2. CASE (\A d \in Docs : index[d] # Absent) /\ (\A k \in Keys : vectors[k] # Absent)
    BY <2>2, <1>0 DEF Copy, IndexIsWhole
  <2> QED
    BY <2>1, <2>2 DEF IndexIsWhole
<1>3. VersionsAgree'
  BY DEF Copy, VersionsAgree
<1>4. CopyStands'
  BY DefaultKey DEF Copy, CopyStands
<1> QED
  BY <1>1, <1>2, <1>3, <1>4

\* The second statement: the vectors have the version that the rows get.
LEMMA StampInv == IndexInv /\ Stamp => IndexInv'
<1> SUFFICES ASSUME IndexInv, Stamp PROVE IndexInv'
  OBVIOUS
<1> USE DEF IndexInv
<1>0. target # Absent
  BY EmbeddingIndexConstants DEF IndexTypeOK, Built, Absent
<1>1. IndexTypeOK'
  BY DEF Stamp, IndexTypeOK, Row, ReindexStates
<1>2. IndexIsWhole'
  BY <1>0 DEF Stamp, IndexIsWhole
<1>3. VersionsAgree'
  <2>1. CASE reindexer = "overtaken"
    BY <2>1 DEF Stamp, VersionsAgree
  <2>2. CASE reindexer = "copied"
    <3> SUFFICES ASSUME NEW d \in Docs
                 PROVE  index'[d] = vectors'[<<d, DefaultProfile(d)>>]
      BY DEF VersionsAgree
    <3>1. CASE index[d] = Absent
      BY <3>1, DefaultKey DEF Stamp, IndexIsWhole
    <3>2. CASE index[d] # Absent
      BY <3>2, <2>2 DEF Stamp, CopyStands
    <3> QED
      BY <3>1, <3>2
  <2> QED
    BY <2>1, <2>2 DEF Stamp
<1>4. CopyStands'
  BY DEF Stamp, CopyStands
<1> QED
  BY <1>1, <1>2, <1>3, <1>4

\* The end of a reindex before its second statement.
LEMMA QuitInv == IndexInv /\ Quit => IndexInv'
<1> SUFFICES ASSUME IndexInv, Quit PROVE IndexInv'
  OBVIOUS
<1> USE DEF IndexInv
<1>1. IndexTypeOK'
  BY DEF Quit, IndexTypeOK, ReindexStates
<1>2. IndexIsWhole'
  BY DEF Quit, IndexIsWhole
<1>3. VersionsAgree'
  BY DEF Quit, VersionsAgree
<1>4. CopyStands'
  BY DEF Quit, CopyStands
<1> QED
  BY <1>1, <1>2, <1>3, <1>4

\* Nothing happens.
LEMMA IndexStutter == IndexInv /\ UNCHANGED indexVars => IndexInv'
BY DEF IndexInv, indexVars, IndexTypeOK, IndexIsWhole, VersionsAgree, CopyStands

\* The invariant is inductive: one step for each of the writers' actions.
THEOREM IndexInvariant == IndexSpec => []IndexInv
<1>1. IndexInit => IndexInv
  BY IndexStart
<1>2. IndexInv /\ [Rebuild \/ Reindex]_indexVars => IndexInv'
  BY QuietStepInv, CommitInv, CopyInv, StampInv, QuitInv, IndexStutter DEF Rebuild, Reindex
<1> QED
  BY <1>1, <1>2, PTL DEF IndexSpec

\* A crash at any point of a start-up or a reindex leaves a whole index or none
\* (the transaction of rebuildSemanticIndex, the two statements of the reindex).
THEOREM Whole == IndexSpec => []IndexIsWhole
BY IndexInvariant, PTL DEF IndexInv

\* Rows and vectors are of one version after every undisturbed reindex and every
\* rebuild that nothing was stamped over (cmd/reindex/main.go:24-37).
THEOREM Agreement == IndexSpec => []VersionsAgree
BY IndexInvariant, PTL DEF IndexInv

-----------------------------------------------------------------------------
(* Rows *)

\* A cut keeps the elements before it.
LEMMA FirstType ==
  ASSUME NEW S, NEW s \in Seq(S), NEW n \in Nat
  PROVE  /\ First(s, n) \in Seq(S)
         /\ Len(First(s, n)) <= n
         /\ Len(First(s, n)) = Lesser(Len(s), n)
         /\ \A i \in DOMAIN First(s, n) : i \in DOMAIN s /\ First(s, n)[i] = s[i]
<1>1. Lesser(Len(s), n) \in Nat /\ Lesser(Len(s), n) <= Len(s) /\ Lesser(Len(s), n) <= n
  BY LenNat DEF Lesser
<1> QED
  BY <1>1, PrefixType DEF First

LEMMA FirstOnce ==
  ASSUME NEW S, NEW s \in Seq(S), NEW n \in Nat, IsInjective(s)
  PROVE  IsInjective(First(s, n))
BY FirstType DEF IsInjective

\* The rows of several queries are of what some query matches.
LEMMA RowsType ==
  ASSUME NEW S, NEW scan \in Seq(S), NEW n \in Nat, NEW queries, DOMAIN queries = 1..n,
         NEW failed, NEW limit \in Nat, NEW M, \A i \in 1..n : queries[i] \subseteq M
  PROVE  RowsOf(scan, queries, failed, limit) \in Seq(M)
<1> DEFINE Rows(i) == IF i \in failed THEN <<>> ELSE First(Kept(scan, queries[i]), limit)
<1>1. ASSUME NEW i \in 1..n PROVE Rows(i) \in Seq(M)
  <2>1. Kept(scan, queries[i]) \in Seq(S \cap queries[i])
    BY KeptFrom
  <2>2. S \cap queries[i] \subseteq M
    OBVIOUS
  <2>3. Kept(scan, queries[i]) \in Seq(M)
    BY <2>1, <2>2
  <2>4. First(Kept(scan, queries[i]), limit) \in Seq(M)
    BY <2>3, FirstType
  <2> QED
    BY <2>4
<1>2. [i \in DOMAIN queries |-> Rows(i)] \in Seq(Seq(M))
  <2> HIDE DEF Rows
  <2> QED
    BY <1>1
<1>3. RowsOf(scan, queries, failed, limit) = FlattenSeq([i \in DOMAIN queries |-> Rows(i)])
  BY DEF RowsOf
<1> HIDE DEF Rows
<1> QED
  BY <1>2, <1>3, FlattenType

\* Weight over rank falls as the rank does.
LEMMA Quotient ==
  ASSUME NEW rank \in 1..Cardinality(Docs)
  PROVE  /\ Scale \div rank \in Nat \ {0}
         /\ Scale \div rank <= Scale
         /\ rank * (Scale \div rank) = Scale
<1>1. Cardinality(Docs) \in Nat
  BY HybridRetrievalConstants, FS_CardinalityType
<1>2. rank \in Nat /\ rank > 0 /\ Scale \in Nat /\ Scale > 0 /\ Scale % rank = 0
  BY <1>1, HybridRetrievalConstants
<1> DEFINE q == Scale \div rank
<1>3. q \in Int /\ Scale = rank * q + (Scale % rank)
  BY <1>2
<1>4. rank * q = Scale
  BY <1>2, <1>3
<1> HIDE DEF q
<1>5. q > 0 
  BY <1>2, <1>3, <1>4
<1>6. q <= Scale
  BY <1>2, <1>3, <1>4, <1>5
<1>7. q \in Nat \ {0} /\ q <= Scale /\ rank * q = Scale
  BY <1>3, <1>4, <1>5, <1>6
<1> QED
  BY <1>7, Zenon DEF q

LEMMA Smaller ==
  ASSUME NEW m \in 1..Cardinality(Docs), NEW n \in 1..Cardinality(Docs), m < n
  PROVE  Scale \div m > Scale \div n
<1> DEFINE p == Scale \div m
           q == Scale \div n
<1>1. p \in Nat /\ q \in Nat /\ q > 0 /\ p > 0 /\ m * p = n * q
  BY Quotient
<1>2. Cardinality(Docs) \in Nat
  BY HybridRetrievalConstants, FS_CardinalityType
<1>3. m \in Nat /\ n \in Nat /\ m > 0
  BY <1>2
<1> HIDE DEF p, q
<1>4. p > q
  <2> SUFFICES ASSUME p <= q PROVE FALSE
    BY <1>1
  <2>1. m * p <= m * q
    BY <1>1, <1>3
  <2>2. m * q < n * q
    BY <1>1, <1>3
  <2> QED
    BY <1>1, <1>3, <2>1, <2>2
<1> QED
  BY <1>4 DEF p, q

-----------------------------------------------------------------------------
(* The invariant *)

\* documents for which there is a reason, one lookup at a time
Identified == {d \in Candidates : \E known \in KnownBy[d] :
                                      known[2].of \in Identifiers(message.identified)}

Worded == {d \in Candidates : \E c \in DOMAIN TextOf[d] : TextOf[d][c] \cap Range(message.tokens) # {}}

Alike == {d \in Candidates : message.likeness[d] > 0}

\* where the retrieval is
Control ==
  /\ at \in {"idle", "identifying", "matching", "embedding", "scanning", "fusing", "answered"}
  /\ message \in Messages
  /\ resource \in {"order", "customer"}
  /\ dims \in {"hash", "model"}

\* what each lookup found is justified by the message
HitsOK ==
  /\ hits \in [Sources -> Seq(Docs)]
  /\ \A s \in Sources : IsInjective(hits[s])
  /\ hits["identifier"] \in Seq(Identified)
  /\ hits["lexical"] \in Seq(Worded)
  /\ hits["vector"] \in Seq(Alike)

\* what the lookups that are still to come have left empty
Pending ==
  /\ at \in {"idle", "identifying"} => hits["identifier"] = <<>>
  /\ at \in {"idle", "identifying", "matching"} => hits["lexical"] = <<>>
  /\ at \in {"idle", "identifying", "matching", "embedding", "scanning"} \/ dims = "model" =>
        hits["vector"] = <<>>
  /\ at = "idle" => hits = NoHits
  /\ at # "answered" => reply = NoReply

\* the reply is a cut of what was found, best first
Answer ==
  at = "answered" =>
    \E ranked \in Ranked(Found, Score) : reply = [ids |-> First(ranked, Limit), strategy |-> Strategy]

RetrievalInv == IndexInv /\ Control /\ HitsOK /\ Pending /\ Answer

LEMMA LimitType == Limit \in Nat \ {0}
BY HybridRetrievalConstants DEF Limit, Lesser

LEMMA FoundType == HitsOK => Found \subseteq Candidates /\ Candidates \subseteq Docs /\ IsFiniteSet(Found)
<1> SUFFICES ASSUME HitsOK PROVE Found \subseteq Candidates /\ Candidates \subseteq Docs /\ IsFiniteSet(Found)
  OBVIOUS
<1>1. Candidates \subseteq Docs
  BY DEF Candidates
<1>2. /\ Range(hits["identifier"]) \subseteq Candidates
      /\ Range(hits["lexical"]) \subseteq Candidates
      /\ Range(hits["vector"]) \subseteq Candidates
  BY DEF HitsOK, Identified, Worded, Alike, Range
<1>3. Found \subseteq Candidates
  BY <1>2 DEF Found, Sources
<1>4. IsFiniteSet(Found)
  BY <1>1, <1>3, HybridRetrievalConstants, FS_Subset
<1> QED
  BY <1>1, <1>3, <1>4

-----------------------------------------------------------------------------
(* Ranks and scores *)

LEMMA WeightsType == \A s \in Sources : Weights[s] \in Nat \ {0}
BY DEF Weights, Sources

LEMMA RankType ==
  ASSUME HitsOK, NEW s \in Sources, NEW d
  PROVE  /\ d \in Range(hits[s]) =>
              /\ RankIn(s, d) \in 1..Cardinality(Docs)
              /\ Contribution(s, d) = Weights[s] * (Scale \div RankIn(s, d))
         /\ d \notin Range(hits[s]) =>
              /\ RankIn(s, d) = Cardinality(Docs) + 1
              /\ Contribution(s, d) = 0
<1> DEFINE list == hits[s]
<1>1. list \in Seq(Docs) /\ IsInjective(list)
  BY DEF HitsOK
<1> HIDE DEF list
<1>2. Len(list) \in Nat /\ DOMAIN list = 1..Len(list)
  BY <1>1
<1>3. list \in Injection(1..Len(list), Docs)
  BY <1>1, <1>2 DEF Injection
<1>4. Len(list) <= Cardinality(Docs) /\ Cardinality(Docs) \in Nat
  <2>1. IsFiniteSet(Docs) /\ Cardinality(Docs) \in Nat
    BY HybridRetrievalConstants, FS_CardinalityType
  <2>2. Cardinality(1..Len(list)) <= Cardinality(Docs)
    BY <1>3, <2>1, FS_Injection
  <2>3. Cardinality(1..Len(list)) = Len(list)
    <3>1. ASSUME NEW n \in Nat PROVE Cardinality(1..n) = n
      <4>1. Cardinality(1..n) = IF 1 > n THEN 0 ELSE n - 1 + 1
        BY FS_Interval
      <4> QED
        BY <4>1
    <3> QED
      BY <1>2, <3>1
  <2> QED
    BY <2>1, <2>2, <2>3
<1>5. DOMAIN list \subseteq 1..Cardinality(Docs)
  BY <1>2, <1>4
<1>6. ASSUME d \in Range(list)
      PROVE  /\ RankIn(s, d) = CHOOSE i \in DOMAIN list : list[i] = d
             /\ RankIn(s, d) \in DOMAIN list
  BY <1>6 DEF RankIn, Range, list
<1>7. d \notin Range(list) => RankIn(s, d) = Cardinality(Docs) + 1
  BY DEF RankIn, Range, list
<1> QED
  BY <1>5, <1>6, <1>7 DEF Contribution, list

LEMMA ScoreType ==
  ASSUME HitsOK, NEW d
  PROVE  /\ \A s \in Sources : Contribution(s, d) \in Nat /\ Contribution(s, d) <= Weights[s] * Scale
         /\ Score(d) \in Nat
<1>1. ASSUME NEW s \in Sources
      PROVE  Contribution(s, d) \in Nat /\ Contribution(s, d) <= Weights[s] * Scale
  <2>1. Weights[s] \in Nat /\ Scale \in Nat
    BY WeightsType, HybridRetrievalConstants
  <2>2. CASE d \in Range(hits[s])
    <3> DEFINE q == Scale \div RankIn(s, d)
    <3>1. q \in Nat /\ q <= Scale /\ Contribution(s, d) = Weights[s] * q
      BY <2>2, RankType, Quotient
    <3> HIDE DEF q
    <3> QED
      BY <2>1, <3>1
  <2>3. CASE d \notin Range(hits[s])
    BY <2>1, <2>3, RankType
  <2> QED
    BY <2>2, <2>3
<1>2. Score(d) \in Nat
  BY <1>1 DEF Score, Sources
<1> QED
  BY <1>1, <1>2

\* A document that no lookup ranks lower, and one ranks higher, has the greater score.
LEMMA DominantScore ==
  ASSUME HitsOK, NEW d, NEW e, Dominates(d, e)
  PROVE  Score(d) > Score(e)
<1>1. Cardinality(Docs) \in Nat
  BY HybridRetrievalConstants, FS_CardinalityType
<1>2. ASSUME NEW s \in Sources
      PROVE  /\ RankIn(s, d) <= RankIn(s, e) => Contribution(s, d) >= Contribution(s, e)
             /\ RankIn(s, d) < RankIn(s, e) => Contribution(s, d) > Contribution(s, e)
  <2>1. Weights[s] \in Nat /\ Weights[s] > 0
    BY WeightsType
  <2>2. CASE e \in Range(hits[s]) /\ d \in Range(hits[s])
    <3> DEFINE p == Scale \div RankIn(s, d)
               q == Scale \div RankIn(s, e)
    <3>1. /\ p \in Nat /\ q \in Nat
          /\ Contribution(s, d) = Weights[s] * p /\ Contribution(s, e) = Weights[s] * q
      BY <2>2, RankType, Quotient
    <3>2. RankIn(s, d) < RankIn(s, e) => p > q
      BY <2>2, RankType, Smaller
    <3>3. RankIn(s, d) = RankIn(s, e) => p = q
      OBVIOUS
    <3>4. RankIn(s, d) \in Int /\ RankIn(s, e) \in Int
      BY <1>1, <2>2, RankType
    <3> HIDE DEF p, q
    <3>5. p > q => Weights[s] * p > Weights[s] * q
      BY <2>1, <3>1
    <3>6. Weights[s] * p \in Nat /\ Weights[s] * q \in Nat
      BY <2>1, <3>1
    <3>7. RankIn(s, d) < RankIn(s, e) => Contribution(s, d) > Contribution(s, e)
      BY <3>1, <3>2, <3>5
    <3>8. RankIn(s, d) = RankIn(s, e) => Contribution(s, d) = Contribution(s, e)
      BY <3>1, <3>3
    <3>9. Contribution(s, d) \in Nat /\ Contribution(s, e) \in Nat
      BY <3>1, <3>6
    <3> QED
      BY <3>4, <3>7, <3>8, <3>9
  <2>3. CASE e \notin Range(hits[s]) /\ d \in Range(hits[s])
    <3> DEFINE p == Scale \div RankIn(s, d)
    <3>1. p \in Nat /\ p > 0 /\ Contribution(s, d) = Weights[s] * p /\ Contribution(s, e) = 0
      BY <2>3, RankType, Quotient
    <3> HIDE DEF p
    <3> QED
      BY <2>1, <3>1
  <2>4. CASE d \notin Range(hits[s])
    <3>1. RankIn(s, d) = Cardinality(Docs) + 1 /\ Contribution(s, d) = 0
      BY <2>4, RankType
    <3>2. CASE e \in Range(hits[s])
      <4>1. RankIn(s, e) \in 1..Cardinality(Docs)
        BY <3>2, RankType
      <4> QED
        BY <1>1, <3>1, <4>1
    <3>3. CASE e \notin Range(hits[s])
      <4>1. RankIn(s, e) = Cardinality(Docs) + 1 /\ Contribution(s, e) = 0
        BY <3>3, RankType
      <4> QED
        BY <1>1, <3>1, <4>1
    <3> QED
      BY <3>2, <3>3
  <2> QED
    BY <2>2, <2>3, <2>4
<1>3. \A s \in Sources : Contribution(s, d) \in Nat /\ Contribution(s, e) \in Nat
  BY ScoreType
<1>4. \A s \in Sources : Contribution(s, d) >= Contribution(s, e)
  BY <1>2 DEF Dominates
<1>5. \E s \in Sources : Contribution(s, d) > Contribution(s, e)
  BY <1>2 DEF Dominates
<1> QED
  BY <1>3, <1>4, <1>5 DEF Score, Sources

-----------------------------------------------------------------------------
(* What the invariant says of a reply *)

\* An answer is an initial piece of an order of all that was found.
LEMMA AnswerOrder ==
  ASSUME RetrievalInv, at = "answered"
  PROVE  \E ranked : /\ ranked \in Seq(Found) /\ ToSet(ranked) = Found /\ IsInjective(ranked)
                     /\ \A i, j \in DOMAIN ranked : i < j => Score(ranked[i]) >= Score(ranked[j])
                     /\ reply.ids = First(ranked, Limit) /\ reply.strategy = Strategy
<1>1. PICK ranked \in Ranked(Found, Score) :
         reply = [ids |-> First(ranked, Limit), strategy |-> Strategy]
  BY DEF RetrievalInv, Answer
<1>2. ranked \in SetToSeqs(Found)
      /\ \A i, j \in DOMAIN ranked : i < j => Score(ranked[i]) >= Score(ranked[j])
  BY DEF Ranked
<1>3. IsFiniteSet(Found)
  BY FoundType DEF RetrievalInv
<1>4. ranked \in Seq(Found) /\ ToSet(ranked) = Found /\ IsInjective(ranked)
  BY <1>2, <1>3, OrderType
<1>5. reply.ids = First(ranked, Limit) /\ reply.strategy = Strategy
  BY <1>1
<1> QED
  BY <1>2, <1>4, <1>5

LEMMA NoAnswer == ASSUME RetrievalInv, at # "answered" PROVE reply.ids = <<>>
BY DEF RetrievalInv, Pending, NoReply

LEMMA Matching == RetrievalInv => CandidatesMatch
<1> SUFFICES ASSUME RetrievalInv, NEW d \in Range(reply.ids)
             PROVE  /\ d \in Candidates
                    /\ \/ \E known \in KnownBy[d] : known[2].of \in Identifiers(message.identified)
                       \/ \E c \in DOMAIN TextOf[d] : TextOf[d][c] \cap Range(message.tokens) # {}
                       \/ message.likeness[d] > 0
  BY DEF CandidatesMatch
<1>1. at = "answered"
  BY NoAnswer DEF Range
<1>2. PICK ranked : ranked \in Seq(Found) /\ reply.ids = First(ranked, Limit)
  BY <1>1, AnswerOrder
<1>3. d \in Found
  <2>1. First(ranked, Limit) \in Seq(Found)
    BY <1>2, LimitType, FirstType
  <2> QED
    BY <1>2, <2>1 DEF Range
<1>4. PICK s \in Sources : d \in Range(hits[s])
  BY <1>3 DEF Found
<1>5. HitsOK
  BY DEF RetrievalInv
<1>6. d \in Identified \/ d \in Worded \/ d \in Alike
  <2>1. s = "identifier" => d \in Identified
    BY <1>4, <1>5 DEF HitsOK, Range
  <2>2. s = "lexical" => d \in Worded
    BY <1>4, <1>5 DEF HitsOK, Range
  <2>3. s = "vector" => d \in Alike
    BY <1>4, <1>5 DEF HitsOK, Range
  <2> QED
    BY <2>1, <2>2, <2>3 DEF Sources
<1> QED
  BY <1>6 DEF Identified, Worded, Alike

LEMMA Better == RetrievalInv => BetterComesFirst
<1> SUFFICES ASSUME RetrievalInv, NEW i \in DOMAIN reply.ids, NEW d \in Found,
                    Dominates(d, reply.ids[i])
             PROVE  d \in Range(SubSeq(reply.ids, 1, i - 1))
  BY DEF BetterComesFirst
<1>1. at = "answered"
  BY NoAnswer
<1>2. PICK ranked : /\ ranked \in Seq(Found) /\ ToSet(ranked) = Found
                    /\ \A m, n \in DOMAIN ranked : m < n => Score(ranked[m]) >= Score(ranked[n])
                    /\ reply.ids = First(ranked, Limit)
  BY <1>1, AnswerOrder
<1>3. /\ reply.ids \in Seq(Found) /\ Len(reply.ids) = Lesser(Len(ranked), Limit)
      /\ \A k \in DOMAIN reply.ids : k \in DOMAIN ranked /\ reply.ids[k] = ranked[k]
  BY <1>2, LimitType, FirstType
<1>4. PICK j \in DOMAIN ranked : ranked[j] = d
  BY <1>2 DEF ToSet
<1>5. /\ DOMAIN ranked = 1..Len(ranked) /\ Len(ranked) \in Nat
      /\ DOMAIN reply.ids = 1..Len(reply.ids) /\ Len(reply.ids) \in Nat
  BY <1>2, <1>3
<1>6. i \in Nat /\ j \in Nat
  BY <1>4, <1>5
<1>7. Score(d) > Score(ranked[i]) /\ Score(d) \in Nat /\ Score(ranked[i]) \in Nat
  <2>1. HitsOK
    BY DEF RetrievalInv
  <2>2. ranked[i] = reply.ids[i]
    BY <1>3
  <2> QED
    BY <2>1, <2>2, DominantScore, ScoreType
<1>8. j < i
  <2>1. ~(i < j)
    BY <1>2, <1>3, <1>4, <1>7
  <2>2. i # j
    BY <1>4, <1>7
  <2> QED
    BY <1>6, <2>1, <2>2
<1>9. j \in DOMAIN reply.ids /\ reply.ids[j] = d
  <2>1. j \in DOMAIN reply.ids
    BY <1>4, <1>5, <1>6, <1>8
  <2> QED
    BY <1>3, <1>4, <2>1
<1> DEFINE before == SubSeq(reply.ids, 1, i - 1)
<1>10. /\ Len(before) = i - 1 /\ DOMAIN before = 1..(i - 1)
       /\ \A k \in 1..(i - 1) : before[k] = reply.ids[k]
  BY <1>3, <1>5, <1>6
<1>11. j \in DOMAIN before /\ before[j] = d
  <2> HIDE DEF before
  <2>1. j \in 1..(i - 1)
    BY <1>4, <1>5, <1>6, <1>8
  <2> QED
    BY <1>9, <1>10, <2>1
<1> QED
  BY <1>11 DEF Range

LEMMA NamedFirst == RetrievalInv => NamedDocumentLeads
<1> SUFFICES ASSUME RetrievalInv, at = "answered",
                    message.shape \in {"identifier_token", "contact_lookup", "typeahead_prefix"},
                    Len(hits["identifier"]) = 1
             PROVE  reply.ids[1] = hits["identifier"][1]
  BY DEF NamedDocumentLeads
<1>1. HitsOK
  BY DEF RetrievalInv
<1>2. Weights = [identifier |-> 55, lexical |-> 30, vector |-> 15]
  BY DEF Weights
<1> DEFINE named == hits["identifier"][1]
<1>3. hits["identifier"] \in Seq(Docs) /\ DOMAIN hits["identifier"] = {1}
  BY <1>1 DEF HitsOK, Sources
<1>4. Range(hits["identifier"]) = {named} /\ named \in Found
  BY <1>3 DEF Range, Found, Sources
<1>5. Scale \in Nat /\ Scale > 0 /\ Cardinality(Docs) \in Nat
  BY HybridRetrievalConstants, FS_CardinalityType
<1>6. \A s \in Sources : \A d : Contribution(s, d) \in Nat /\ Contribution(s, d) <= Weights[s] * Scale
  BY <1>1, ScoreType
<1>7. Score(named) >= 55 * Scale
  <2>1. RankIn("identifier", named) = 1
    BY <1>3 DEF RankIn
  <2>2. Contribution("identifier", named) = 55 * (Scale \div 1)
    BY <1>1, <1>2, <1>4, <2>1, RankType DEF Sources
  <2>3. Scale \div 1 = Scale
    BY <1>5
  <2>4. Contribution("lexical", named) \in Nat /\ Contribution("vector", named) \in Nat
    BY <1>6 DEF Sources
  <2> QED
    BY <1>5, <2>2, <2>3, <2>4 DEF Score
<1>8. ASSUME NEW d, d # named PROVE Score(d) <= 45 * Scale
  <2>1. Contribution("identifier", d) = 0
    BY <1>1, <1>4, <1>8, RankType DEF Sources
  <2>2. /\ Contribution("lexical", d) \in Nat /\ Contribution("lexical", d) <= 30 * Scale
        /\ Contribution("vector", d) \in Nat /\ Contribution("vector", d) <= 15 * Scale
    BY <1>2, <1>6 DEF Sources
  <2> QED
    BY <1>5, <2>1, <2>2 DEF Score
<1>9. PICK ranked : /\ ranked \in Seq(Found) /\ ToSet(ranked) = Found
                    /\ \A m, n \in DOMAIN ranked : m < n => Score(ranked[m]) >= Score(ranked[n])
                    /\ reply.ids = First(ranked, Limit)
  BY AnswerOrder
<1> HIDE DEF named
<1>10. PICK j \in DOMAIN ranked : ranked[j] = named
  BY <1>4, <1>9 DEF ToSet
<1>11. /\ DOMAIN ranked = 1..Len(ranked) /\ Len(ranked) \in Nat /\ j \in Nat /\ 1 <= j
       /\ 1 \in DOMAIN ranked
  BY <1>9, <1>10
<1>12. ranked[1] = named
  <2> SUFFICES ASSUME ranked[1] # named PROVE FALSE
    OBVIOUS
  <2>1. j # 1 /\ Score(ranked[1]) >= Score(ranked[j])
    BY <1>9, <1>10, <1>11
  <2>2. Score(ranked[1]) <= 45 * Scale /\ Score(named) >= 55 * Scale
    BY <1>7, <1>8
  <2>3. Score(ranked[1]) \in Nat /\ Score(named) \in Nat
    BY <1>1, ScoreType
  <2> QED
    BY <1>5, <1>10, <2>1, <2>2, <2>3
<1>13. 1 \in DOMAIN reply.ids
  <2>1. Len(reply.ids) = Lesser(Len(ranked), Limit) /\ reply.ids \in Seq(Found)
    BY <1>9, LimitType, FirstType
  <2>2. Len(ranked) > 0 /\ Limit \in Nat /\ Limit > 0
    BY <1>11, LimitType
  <2>3. Len(reply.ids) > 0 /\ Len(reply.ids) \in Nat
    BY <1>11, <2>1, <2>2 DEF Lesser
  <2> QED
    BY <2>1, <2>3
<1>14. reply.ids[1] = ranked[1]
  BY <1>9, <1>13, LimitType, FirstType
<1> QED
  BY <1>12, <1>14 DEF named

LEMMA Told == RetrievalInv => DegradedIsTold
<1> SUFFICES ASSUME RetrievalInv, at = "answered", dims = "model", reply.ids # <<>>
             PROVE  \/ reply.strategy = "lexical_only_fallback" /\ hits["lexical"] # <<>>
                    \/ reply.strategy = "identifier_only"
                       /\ Range(reply.ids) \subseteq Range(hits["identifier"])
  BY DEF DegradedIsTold
<1>1. hits["vector"] = <<>>
  BY DEF RetrievalInv, Pending
<1>2. PICK ranked : /\ ranked \in Seq(Found) /\ ToSet(ranked) = Found
                    /\ reply.ids = First(ranked, Limit) /\ reply.strategy = Strategy
  BY AnswerOrder
<1>3. reply.ids \in Seq(Found)
  BY <1>2, LimitType, FirstType
<1>4. CASE hits["lexical"] # <<>>
  BY <1>1, <1>2, <1>4 DEF Strategy
<1>5. CASE hits["lexical"] = <<>>
  <2>1. Found = Range(hits["identifier"])
    BY <1>1, <1>5 DEF Found, Sources, Range
  <2>2. Range(reply.ids) \subseteq Range(hits["identifier"])
    BY <1>3, <2>1 DEF Range
  <2>3. hits["identifier"] # <<>>
    <3> SUFFICES ASSUME hits["identifier"] = <<>> PROVE FALSE
      OBVIOUS
    <3>1. Found = {}
      BY <2>1 DEF Range
    <3>2. reply.ids \in Seq({})
      BY <1>3, <3>1
    <3> QED
      BY <3>2
  <2> QED
    BY <1>1, <1>2, <1>5, <2>2, <2>3 DEF Strategy
<1> QED
  BY <1>4, <1>5

-----------------------------------------------------------------------------
(* The steps *)

\* The reply that the invariant allows has the type it should have.
LEMMA Typed == RetrievalInv => TypeOK
<1> SUFFICES ASSUME RetrievalInv PROVE TypeOK
  OBVIOUS
<1>1. IndexTypeOK /\ Control /\ \A s \in Sources : hits[s] \in Seq(Docs) /\ IsInjective(hits[s])
  BY DEF RetrievalInv, IndexInv, HitsOK
<1>2. CASE at # "answered"
  <2>1. reply = NoReply
    BY <1>2 DEF RetrievalInv, Pending
  <2>2. reply.ids = <<>> /\ reply.strategy = "none"
    BY <2>1 DEF NoReply
  <2>3. reply.ids \in Seq(Docs) /\ IsInjective(reply.ids) /\ Len(reply.ids) <= Limit
    BY <2>2, LimitType DEF IsInjective
  <2> QED
    BY <1>1, <2>2, <2>3 DEF TypeOK, Control
<1>3. CASE at = "answered"
  <2>1. PICK ranked : /\ ranked \in Seq(Found) /\ IsInjective(ranked)
                      /\ reply.ids = First(ranked, Limit) /\ reply.strategy = Strategy
    BY <1>3, AnswerOrder
  <2>2. Found \subseteq Docs
    BY FoundType DEF RetrievalInv
  <2>3. ranked \in Seq(Docs)
    BY <2>1, <2>2
  <2>4. reply.ids \in Seq(Docs) /\ IsInjective(reply.ids) /\ Len(reply.ids) <= Limit
    BY <2>1, <2>3, LimitType, FirstType, FirstOnce
  <2>5. reply.strategy \in {"hybrid_fusion", "lexical_only_fallback", "identifier_only",
                            "vector_only_fallback"}
    BY <2>1 DEF Strategy
  <2> QED
    BY <1>1, <2>4, <2>5 DEF TypeOK, Control
<1> QED
  BY <1>2, <1>3

LEMMA Start == Init => RetrievalInv
<1> SUFFICES ASSUME Init PROVE RetrievalInv
  OBVIOUS
<1>1. IndexInv
  BY IndexStart DEF Init
<1>2. Control
  BY HybridRetrievalConstants DEF Init, Control
<1>3. hits = NoHits /\ reply = NoReply /\ at = "idle"
  BY DEF Init
<1>4. HitsOK
  BY <1>3 DEF HitsOK, NoHits, Sources, IsInjective
<1>5. Pending /\ Answer
  BY <1>3 DEF Pending, Answer, NoHits, Sources
<1> QED
  BY <1>1, <1>2, <1>4, <1>5 DEF RetrievalInv

\* What a lookup may find depends on the message and the resource only.
LEMMA SameReasons ==
  ASSUME UNCHANGED <<message, resource>>
  PROVE  /\ Candidates' = Candidates /\ Identified' = Identified
         /\ Worded' = Worded /\ Alike' = Alike
<1>1. Candidates' = Candidates
  BY DEF Candidates
<1> QED
  BY <1>1 DEF Identified, Worded, Alike

\* Nothing found, nothing answered.
LEMMA Emptied ==
  ASSUME IndexInv', Control', hits' = NoHits, reply' = NoReply, at' # "answered"
  PROVE  RetrievalInv'
<1>1. HitsOK'
  BY DEF HitsOK, NoHits, Sources, IsInjective
<1>2. Pending' /\ Answer'
  BY DEF Pending, Answer, NoHits, Sources
<1> QED
  BY <1>1, <1>2 DEF RetrievalInv

LEMMA RetrieveInv == RetrievalInv /\ Retrieve => RetrievalInv'
<1> SUFFICES ASSUME RetrievalInv, Retrieve PROVE RetrievalInv'
  OBVIOUS
<1>1. IndexInv'
  BY IndexStutter DEF RetrievalInv, Retrieve, Goto
<1>2. Control' /\ at' = "identifying"
  BY DEF RetrievalInv, Control, Retrieve, Goto
<1>3. hits' = NoHits /\ reply' = NoReply
  BY DEF RetrievalInv, Pending, Retrieve, Goto
<1> QED
  BY <1>1, <1>2, <1>3, Emptied

\* The documents of one lookup come in; the message stays.
LEMMA LookupInv ==
  ASSUME RetrievalInv, NEW s \in Sources, NEW found \in Seq(Docs), IsInjective(found),
         hits' = [hits EXCEPT ![s] = found], UNCHANGED <<message, resource, dims>>,
         s = "identifier" => found \in Seq(Identified),
         s = "lexical" => found \in Seq(Worded),
         s = "vector" => found \in Seq(Alike)
  PROVE  HitsOK'
<1>1. HitsOK
  BY DEF RetrievalInv
<1>2. hits' \in [Sources -> Seq(Docs)] /\ hits'[s] = found
      /\ \A t \in Sources \ {s} : hits'[t] = hits[t]
  BY <1>1 DEF HitsOK
<1>3. \A t \in Sources : IsInjective(hits'[t])
  BY <1>1, <1>2 DEF HitsOK
<1>4. /\ hits'["identifier"] \in Seq(Identified)
      /\ hits'["lexical"] \in Seq(Worded)
      /\ hits'["vector"] \in Seq(Alike)
  BY <1>1, <1>2 DEF HitsOK, Sources
<1>5. /\ hits'["identifier"] \in Seq(Identified')
      /\ hits'["lexical"] \in Seq(Worded')
      /\ hits'["vector"] \in Seq(Alike')
  BY <1>4, SameReasons
<1> QED
  BY <1>2, <1>3, <1>5 DEF HitsOK

LEMMA SomeDocs ==
  /\ IsFiniteSet(Candidates) /\ Candidates \subseteq Docs
  /\ Identified \subseteq Docs /\ Worded \subseteq Docs /\ Alike \subseteq Docs
<1>1. Candidates \subseteq Docs
  BY DEF Candidates
<1>2. IsFiniteSet(Candidates)
  BY <1>1, HybridRetrievalConstants, FS_Subset
<1> QED
  BY <1>1, <1>2 DEF Identified, Worded, Alike

\* Each query is for something the message says.
LEMMA IdentifierQueriesMatch ==
  ASSUME RetrievalInv
  PROVE  /\ Len(Groups) \in Nat /\ DOMAIN IdentifierQueries = 1..Len(Groups)
         /\ \A i \in 1..Len(Groups) : IdentifierQueries[i] \subseteq Identified
<1> DEFINE plan == Plan(message.identified, resource)
           G == ToSet(plan)
<1>1. message.identified \in Message
  BY HybridRetrievalConstants DEF RetrievalInv, Control, Asked
<1>2. plan \in Seq(G) /\ Saying(G, Identifiers(message.identified))
  BY <1>1, PlanType
<1>3. Groups \in Seq(G)
  <2>1. Groups = Kept(plan, {g \in ToSet(plan) : g.resource = resource})
    BY DEF Groups
  <2> HIDE DEF plan, G
  <2> QED
    BY <1>2, <2>1, KeptType
<1> HIDE DEF plan, G
<1>4. /\ Len(Groups) \in Nat /\ DOMAIN Groups = 1..Len(Groups)
      /\ \A i \in 1..Len(Groups) : Groups[i].value.of \in Identifiers(message.identified)
  BY <1>2, <1>3 DEF Saying
<1>5. DOMAIN IdentifierQueries = 1..Len(Groups)
  BY <1>4 DEF IdentifierQueries
<1>6. ASSUME NEW i \in 1..Len(Groups) PROVE IdentifierQueries[i] \subseteq Identified
  <2> SUFFICES ASSUME NEW d \in IdentifierQueries[i] PROVE d \in Identified
    OBVIOUS
  <2>1. d \in Candidates /\ <<Groups[i].field, Groups[i].value>> \in KnownBy[d]
    BY <1>4 DEF IdentifierQueries
  <2>2. <<Groups[i].field, Groups[i].value>>[2].of \in Identifiers(message.identified)
    BY <1>4
  <2> QED
    BY <2>1, <2>2 DEF Identified
<1> QED
  BY <1>4, <1>5, <1>6

LEMMA IdentifierInv == RetrievalInv /\ IdentifierCandidates => RetrievalInv'
<1> SUFFICES ASSUME RetrievalInv, IdentifierCandidates PROVE RetrievalInv'
  OBVIOUS
<1>1. IndexInv'
  BY IndexStutter DEF RetrievalInv, IdentifierCandidates, Goto
<1>2. Control' /\ at' = "matching" /\ at = "identifying"
  BY DEF RetrievalInv, Control, IdentifierCandidates, Goto
<1>3. PICK scan \in SetToSeqs(Candidates), failed \in SUBSET DOMAIN IdentifierQueries :
         hits' = [hits EXCEPT !["identifier"] =
                    DedupeIDs(RowsOf(scan, IdentifierQueries, failed, RowsPerGroup))]
  BY DEF IdentifierCandidates
<1> DEFINE rows == RowsOf(scan, IdentifierQueries, failed, RowsPerGroup)
<1>4. rows \in Seq(Identified)
  <2>1. scan \in Seq(Candidates)
    BY SomeDocs, OrderType
  <2>2. RowsPerGroup \in Nat
    BY HybridRetrievalConstants
  <2> QED
    BY <2>1, <2>2, IdentifierQueriesMatch, RowsType
<1> HIDE DEF rows
<1>5. DedupeIDs(rows) \in Seq(Identified) /\ IsInjective(DedupeIDs(rows))
  BY <1>4, DistinctType DEF DedupeIDs
<1>6. HitsOK'
  <2>1. DedupeIDs(rows) \in Seq(Docs)
    BY <1>5, SomeDocs
  <2>2. UNCHANGED <<message, resource, dims>>
    BY DEF IdentifierCandidates
  <2> QED
    BY <1>3, <1>5, <2>1, <2>2, LookupInv DEF Sources, rows
<1>7. Pending'
  BY <1>2, <1>3 DEF RetrievalInv, Pending, IdentifierCandidates
<1>8. Answer'
  BY <1>2 DEF Answer
<1> QED
  BY <1>1, <1>2, <1>6, <1>7, <1>8 DEF RetrievalInv

\* Each query is for one word in one column.
LEMMA LexicalQueriesMatch ==
  ASSUME RetrievalInv
  PROVE  \E n \in Nat : /\ DOMAIN LexicalQueries = 1..n
                        /\ \A q \in 1..n : LexicalQueries[q] \subseteq Worded
<1> DEFINE tokens == message.tokens
           columns == Columns(resource)
           n == Len(tokens) * columns
<1>1. tokens \in Seq(STRING)
  BY HybridRetrievalConstants DEF RetrievalInv, Control, Asked
<1>2. columns \in {6, 7} /\ Len(tokens) \in Nat /\ DOMAIN tokens = 1..Len(tokens)
  BY <1>1 DEF Columns
<1>3. n \in Nat
  BY <1>2
<1>4. /\ DOMAIN LexicalQueries = 1..n
      /\ \A q \in 1..n : LexicalQueries[q] =
            {d \in Candidates :
               tokens[((q - 1) \div columns) + 1] \in TextOf[d][((q - 1) % columns) + 1]}
  BY DEF LexicalQueries
<1>5. ASSUME NEW d \in Candidates PROVE DOMAIN TextOf[d] = 1..columns
  <2>1. d \in Docs /\ (IF d \in Orders THEN "order" ELSE "customer") = resource
    BY EmbeddingIndexConstants DEF RetrievalInv, Control, Candidates
  <2> QED
    BY <2>1, HybridRetrievalConstants
<1> HIDE DEF columns, tokens
<1>6. ASSUME NEW q \in 1..n
      PROVE  /\ ((q - 1) \div columns) + 1 \in DOMAIN tokens
             /\ ((q - 1) % columns) + 1 \in 1..columns
  <2>1. q - 1 \in Nat /\ q - 1 < Len(tokens) * columns
    BY <1>2, <1>3
  <2>2. CASE columns = 6
    BY <1>2, <2>1, <2>2
  <2>3. CASE columns = 7
    BY <1>2, <2>1, <2>3
  <2> QED
    BY <1>2, <2>2, <2>3
<1>7. ASSUME NEW q \in 1..n, NEW d \in LexicalQueries[q] PROVE d \in Worded
  <2> DEFINE t == ((q - 1) \div columns) + 1
             c == ((q - 1) % columns) + 1
  <2>1. d \in Candidates /\ tokens[t] \in TextOf[d][c]
    BY <1>4
  <2>2. t \in DOMAIN tokens /\ c \in DOMAIN TextOf[d]
    BY <1>5, <1>6, <2>1
  <2> HIDE DEF t, c
  <2>3. tokens[t] \in TextOf[d][c] \cap Range(tokens)
    BY <2>1, <2>2 DEF Range
  <2> QED
    BY <2>1, <2>2, <2>3 DEF Worded, tokens
<1> HIDE DEF n
<1> QED
  BY <1>3, <1>4, <1>7

LEMMA LexicalInv == RetrievalInv /\ LexicalCandidates => RetrievalInv'
<1> SUFFICES ASSUME RetrievalInv, LexicalCandidates PROVE RetrievalInv'
  OBVIOUS
<1>1. IndexInv'
  BY IndexStutter DEF RetrievalInv, LexicalCandidates, Goto
<1>2. Control' /\ at' = "embedding" /\ at = "matching"
  BY DEF RetrievalInv, Control, LexicalCandidates, Goto
<1>3. PICK scan \in SetToSeqs(Candidates), failed \in SUBSET DOMAIN LexicalQueries :
         hits' = [hits EXCEPT !["lexical"] =
                    DedupeIDs(First(RowsOf(scan, LexicalQueries, failed, RowsPerWord), TopKLexical))]
  BY DEF LexicalCandidates
<1> DEFINE rows == First(RowsOf(scan, LexicalQueries, failed, RowsPerWord), TopKLexical)
<1>4. rows \in Seq(Worded)
  <2>1. scan \in Seq(Candidates)
    BY SomeDocs, OrderType
  <2>2. RowsPerWord \in Nat /\ TopKLexical \in Nat
    BY HybridRetrievalConstants
  <2>3. RowsOf(scan, LexicalQueries, failed, RowsPerWord) \in Seq(Worded)
    BY <2>1, <2>2, LexicalQueriesMatch, RowsType
  <2> QED
    BY <2>2, <2>3, FirstType
<1> HIDE DEF rows
<1>5. DedupeIDs(rows) \in Seq(Worded) /\ IsInjective(DedupeIDs(rows))
  BY <1>4, DistinctType DEF DedupeIDs
<1>6. HitsOK'
  <2>1. DedupeIDs(rows) \in Seq(Docs)
    BY <1>5, SomeDocs
  <2>2. UNCHANGED <<message, resource, dims>>
    BY DEF LexicalCandidates
  <2> QED
    BY <1>3, <1>5, <2>1, <2>2, LookupInv DEF Sources, rows
<1>7. Pending'
  BY <1>2, <1>3 DEF RetrievalInv, Pending, LexicalCandidates
<1>8. Answer'
  BY <1>2 DEF Answer
<1> QED
  BY <1>1, <1>2, <1>6, <1>7, <1>8 DEF RetrievalInv

LEMMA VectorInv == RetrievalInv /\ VectorCandidates => RetrievalInv'
<1> SUFFICES ASSUME RetrievalInv, VectorCandidates PROVE RetrievalInv'
  OBVIOUS
<1>1. IndexInv'
  BY IndexStutter DEF RetrievalInv, VectorCandidates, Goto
<1>2. Control' /\ at' = "fusing" /\ at = "scanning"
  BY DEF RetrievalInv, Control, VectorCandidates, Goto
<1>3. PICK ranked \in SetToSeqs(Similar) :
         hits' = [hits EXCEPT !["vector"] = First(ranked, Lesser(TopKVector, TopK))]
  BY DEF VectorCandidates, Ranked
<1>4. Similar \subseteq Alike /\ Similar \subseteq Docs /\ IsFiniteSet(Similar)
  <2>1. Similar \subseteq Alike
    BY DEF Similar, Alike
  <2>2. Similar \subseteq Docs
    BY <2>1, SomeDocs
  <2> QED
    BY <2>1, <2>2, HybridRetrievalConstants, FS_Subset
<1>5. Lesser(TopKVector, TopK) \in Nat
  BY HybridRetrievalConstants DEF Lesser
<1> DEFINE best == First(ranked, Lesser(TopKVector, TopK))
<1>6. best \in Seq(Similar) /\ IsInjective(best)
  BY <1>4, <1>5, OrderType, FirstType, FirstOnce
<1>7. dims = "model" => best = <<>>
  <2> SUFFICES ASSUME dims = "model" PROVE best = <<>>
    OBVIOUS
  <2>1. Similar = {}
    BY DEF Similar
  <2> HIDE DEF best
  <2> QED
    BY <1>6, <2>1
<1> HIDE DEF best
<1>8. HitsOK'
  <2>1. best \in Seq(Docs) /\ best \in Seq(Alike)
    BY <1>4, <1>6
  <2>2. UNCHANGED <<message, resource, dims>>
    BY DEF VectorCandidates
  <2> QED
    BY <1>3, <1>6, <2>1, <2>2, LookupInv DEF Sources, best
<1>9. Pending'
  <2>1. hits'["vector"] = best /\ dims' = dims /\ reply' = reply /\ reply = NoReply
    BY <1>2, <1>3 DEF RetrievalInv, Pending, VectorCandidates, HitsOK, Sources, best
  <2> QED
    BY <1>2, <1>7, <2>1 DEF Pending
<1>10. Answer'
  BY <1>2 DEF Answer
<1> QED
  BY <1>1, <1>2, <1>8, <1>9, <1>10 DEF RetrievalInv

\* The hits stay as they are.
LEMMA HitsStay == ASSUME HitsOK, UNCHANGED <<message, resource, hits>> PROVE HitsOK'
BY SameReasons DEF HitsOK

LEMMA EmbedInv == RetrievalInv /\ (Embed \/ VectorError) => RetrievalInv'
<1> SUFFICES ASSUME RetrievalInv, Embed \/ VectorError PROVE RetrievalInv'
  OBVIOUS
<1>1. IndexInv'
  BY IndexStutter DEF RetrievalInv, Embed, VectorError, Goto
<1>2. Control' /\ at' \in {"scanning", "fusing"}
  BY DEF RetrievalInv, Control, Embed, VectorError, Goto
<1>3. HitsOK'
  BY HitsStay DEF RetrievalInv, Embed, VectorError
<1>4. Pending'
  BY DEF RetrievalInv, Pending, Embed, VectorError, Goto
<1>5. Answer'
  BY <1>2 DEF Answer
<1> QED
  BY <1>1, <1>2, <1>3, <1>4, <1>5 DEF RetrievalInv

\* Scores are those of the hits and the shape of the message.
LEMMA SameScores ==
  ASSUME UNCHANGED <<message, hits>>
  PROVE  /\ Found' = Found /\ Strategy' = Strategy
         /\ Ranked(Found, Score)' = Ranked(Found, Score)
<1>1. Found' = Found
  BY DEF Found
<1>2. Weights' = Weights
  BY DEF Weights
<1>3. ASSUME NEW s, NEW d PROVE Contribution(s, d)' = Contribution(s, d)
  BY <1>2 DEF Contribution
<1>4. ASSUME NEW d PROVE Score(d)' = Score(d)
  BY <1>3 DEF Score
<1>5. Strategy' = Strategy
  BY <1>1 DEF Strategy
<1> QED
  BY <1>1, <1>4, <1>5 DEF Ranked

LEMMA FuseInv == RetrievalInv /\ Fuse => RetrievalInv'
<1> SUFFICES ASSUME RetrievalInv, Fuse PROVE RetrievalInv'
  OBVIOUS
<1>1. IndexInv'
  BY IndexStutter DEF RetrievalInv, Fuse, Goto
<1>2. Control' /\ at' = "answered" /\ at = "fusing"
  BY DEF RetrievalInv, Control, Fuse, Goto
<1>3. HitsOK'
  BY HitsStay DEF RetrievalInv, Fuse
<1>4. Pending'
  BY <1>2 DEF RetrievalInv, Pending, Fuse
<1>5. Answer'
  BY SameScores DEF Answer, Fuse
<1> QED
  BY <1>1, <1>2, <1>3, <1>4, <1>5 DEF RetrievalInv

LEMMA ForgetInv == RetrievalInv /\ (Forget \/ Crash) => RetrievalInv'
<1> SUFFICES ASSUME RetrievalInv, Forget \/ Crash PROVE RetrievalInv'
  OBVIOUS
<1>1. IndexInv'
  BY IndexStutter, QuietStepInv DEF RetrievalInv, Forget, Crash
<1>2. Control' /\ at' = "idle"
  BY DEF RetrievalInv, Control, Forget, Crash
<1>3. hits' = NoHits /\ reply' = NoReply
  BY DEF Forget, Crash
<1> QED
  BY <1>1, <1>2, <1>3, Emptied

\* The index may change under a retrieval and changes nothing it has found.
LEMMA MaintainInv ==
  ASSUME RetrievalInv, IndexInv', UNCHANGED retrievalVars
  PROVE  RetrievalInv'
<1> USE DEF retrievalVars
<1>1. Control' /\ Pending'
  BY DEF RetrievalInv, Control, Pending
<1>2. HitsOK'
  BY HitsStay DEF RetrievalInv
<1>3. Answer'
  BY SameScores DEF RetrievalInv, Answer
<1> QED
  BY <1>1, <1>2, <1>3 DEF RetrievalInv

LEMMA RetrievalStep == RetrievalInv /\ [Next]_allVars => RetrievalInv'
<1> SUFFICES ASSUME RetrievalInv, [Next]_allVars PROVE RetrievalInv'
  OBVIOUS
<1>1. CASE Maintain
  <2>1. IndexInv'
    BY <1>1, QuietStepInv, CommitInv, CopyInv, StampInv, QuitInv DEF RetrievalInv, Maintain
  <2> QED
    BY <1>1, <2>1, MaintainInv DEF Maintain
<1>2. CASE UNCHANGED allVars
  <2>1. IndexInv' /\ UNCHANGED retrievalVars
    BY <1>2, IndexStutter DEF RetrievalInv, allVars
  <2> QED
    BY <2>1, MaintainInv
<1> QED
  BY <1>1, <1>2, RetrieveInv, IdentifierInv, LexicalInv, VectorInv, EmbedInv, FuseInv, ForgetInv
     DEF Next

LEMMA RetrievalInvariant == Spec => []RetrievalInv
BY Start, RetrievalStep, PTL DEF Spec

-----------------------------------------------------------------------------
(* What holds of every retrieval *)

\* No lookup and no reply repeats a document, and a reply has at most the caps' many.
THEOREM TypeCorrect == Spec => []TypeOK
BY Typed, RetrievalInvariant, PTL

\* The index that retrievals read while it is rewritten is whole, and of one version
\* where the two statements of a reindex do not make it torn (cmd/api/main.go:57).
THEOREM IndexStands == Spec => [](IndexIsWhole /\ VersionsAgree)
<1>1. RetrievalInv => IndexIsWhole /\ VersionsAgree
  BY DEF RetrievalInv, IndexInv
<1> QED
  BY <1>1, RetrievalInvariant, PTL

\* A candidate is of the tenant and the resource asked for, and the message has
\* some hold on it: three sets of SELECTs are put together from the plan and the
\* words (hybrid_retriever.go:198, :228, embedding_index.go:51).
THEOREM CandidatesAreReasoned == Spec => []CandidatesMatch
BY Matching, RetrievalInvariant, PTL

\* Unstable sorts and map order (hybrid_retriever.go:115) never put a document
\* before one that all lookups rank at least as high and one ranks higher, and the
\* cut never drops the better of the two: for any lists and any number of ties.
THEOREM BetterFirst == Spec => []BetterComesFirst
BY Better, RetrievalInvariant, PTL

\* A message in the shape of an identifier that names one document has it first:
\* the weight of a first place among identifiers exceeds what words and vector
\* can add up to (hybrid_retriever.go:90).
THEOREM NamedLeads == Spec => []NamedDocumentLeads
BY NamedFirst, RetrievalInvariant, PTL

\* Candidates found without comparable vectors are told as a fallback, and as the
\* one that happened (embedding_index.go:77).
THEOREM FallbackIsTold == Spec => []DegradedIsTold
BY Told, RetrievalInvariant, PTL

=============================================================================
