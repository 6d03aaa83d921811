---------------------------- MODULE EmbeddingIndex ----------------------------
(***************************************************************************)
(* The tables semantic_index and semantic_vectors and their two writers:   *)
(* the start-up of the API, which rebuilds both in one transaction         *)
(* (cmd/api/main.go), and the reindex command, which copies rows from the  *)
(* first to the second under a new version and then stamps the first, in   *)
(* two statements of their own (cmd/reindex/main.go).  Either process may  *)
(* end between any two statements.                                         *)
(*                                                                         *)
(* A row is the version it was written under.  The embedding is a function *)
(* of the document, both writers leave it alone otherwise.                 *)
(***************************************************************************)

CONSTANTS
    Orders, Customers,  \* the documents
    IndexVersions       \* values of REINDEX_VERSION

Absent == "absent"      \* no row

Built == "v2"           \* the version every start-up writes

ASSUME EmbeddingIndexConstants ==
    /\ Orders \cap Customers = {}
    /\ Absent \notin IndexVersions

Docs == Orders \cup Customers

\* the profile semantic_index keeps, and those semantic_vectors keeps besides
DefaultProfile(d) == IF d \in Orders THEN "order_tracking_text" ELSE "customer_profile_text"

Profiles(d) ==
    {DefaultProfile(d)} \cup
    (IF d \in Orders THEN {"order_returns_refunds_text", "order_customer_context_text"}
                     ELSE {"customer_support_context_text"})

\* primary keys of semantic_vectors
Keys == UNION {{<<d, p>> : p \in Profiles(d)} : d \in Docs}

Row == IndexVersions \cup {Built, Absent}

VARIABLES
    index,      \* semantic_index: the version of each document's row
    vectors,    \* semantic_vectors: the version of each key's row
    service,    \* the API: "down", "building" the index, or "up"
    left,       \* the documents a start-up has yet to write, uncommitted as the rest
    reindexer,  \* what became of the last reindex, see below
    target      \* its REINDEX_VERSION

indexVars == <<index, vectors, service, left, reindexer, target>>

\* clean: no reindex since the last rebuild, or one that finished undisturbed;
\* copied: between its statements; overtaken: there, with a rebuild since;
\* torn: ended between them, or stamped over a rebuild
ReindexStates == {"clean", "copied", "overtaken", "torn"}

IndexTypeOK ==
    /\ index \in [Docs -> Row]
    /\ vectors \in [Keys -> Row]
    /\ service \in {"down", "building", "up"}
    /\ left \subseteq Docs
    /\ reindexer \in ReindexStates
    /\ target \in IndexVersions \cup {Built}

IndexInit ==
    /\ index = [d \in Docs |-> Absent]
    /\ vectors = [k \in Keys |-> Absent]
    /\ service = "down" /\ left = {}
    /\ reindexer = "clean" /\ target = Built

-----------------------------------------------------------------------------
(* rebuildSemanticIndex.  The rows written so far are those of Docs \ left *)
(* and only the transaction sees them.                                     *)

Begin ==
    /\ service = "down"
    /\ service' = "building" /\ left' = Docs
    /\ UNCHANGED <<index, vectors, reindexer, target>>

\* the row of the document and one vector for each of its profiles
Seed(d) ==
    /\ service = "building" /\ d \in left
    /\ left' = left \ {d}
    /\ UNCHANGED <<index, vectors, service, reindexer, target>>

SeedOrder == \E d \in Orders : Seed(d)

SeedCustomer == left \cap Orders = {} /\ \E d \in Customers : Seed(d)

Commit ==
    /\ service = "building" /\ left = {}
    /\ index' = [d \in Docs |-> Built]
    /\ vectors' = [k \in Keys |-> Built]
    /\ service' = "up"
    /\ reindexer' = IF reindexer \in {"copied", "overtaken"} THEN "overtaken" ELSE "clean"
    /\ UNCHANGED <<left, target>>

\* mutant: what was written so far stays
AbandonHalfway ==
    /\ service = "building"
    /\ index' = [d \in Docs |-> IF d \in left THEN Absent ELSE Built]
    /\ vectors' = [k \in Keys |-> IF k[1] \in left THEN Absent ELSE Built]
    /\ service' = "down" /\ left' = {}
    /\ UNCHANGED <<reindexer, target>>

\* a statement fails or the process is killed: the transaction is rolled back
Abandon ==
    /\ service = "building"
    /\ service' = "down" /\ left' = {}
    /\ UNCHANGED <<index, vectors, reindexer, target>>

Stop ==
    /\ service = "up" /\ service' = "down"
    /\ UNCHANGED <<index, vectors, left, reindexer, target>>

-----------------------------------------------------------------------------
(* The reindex command.  A statement that finds the database locked by the *)
(* open transaction fails at once, and the command ends.                   *)

Unlocked == service # "building"

\* mutant: INSERT OR IGNORE, the rows that are there stay
CopyMissing(v) ==
    /\ Unlocked
    /\ reindexer \in {"clean", "torn"}
    /\ vectors' = [k \in Keys |->
                     IF k[2] = DefaultProfile(k[1]) /\ index[k[1]] # Absent /\ vectors[k] = Absent
                     THEN v ELSE vectors[k]]
    /\ reindexer' = "copied" /\ target' = v
    /\ UNCHANGED <<index, service, left>>

\* INSERT OR REPLACE INTO semantic_vectors SELECT ... FROM semantic_index
Copy(v) ==
    /\ Unlocked
    /\ reindexer \in {"clean", "torn"}
    /\ vectors' = [k \in Keys |->
                     IF k[2] = DefaultProfile(k[1]) /\ index[k[1]] # Absent
                     THEN v ELSE vectors[k]]
    /\ reindexer' = "copied" /\ target' = v
    /\ UNCHANGED <<index, service, left>>

\* UPDATE semantic_index SET index_version
Stamp ==
    /\ Unlocked
    /\ reindexer \in {"copied", "overtaken"}
    /\ index' = [d \in Docs |-> IF index[d] = Absent THEN Absent ELSE target]
    /\ reindexer' = IF reindexer = "copied" THEN "clean" ELSE "torn"
    /\ UNCHANGED <<vectors, service, left, target>>

\* the second statement fails or never comes; a rebuild has undone the first
Quit ==
    /\ reindexer \in {"copied", "overtaken"}
    /\ reindexer' = IF reindexer = "copied" THEN "torn" ELSE "clean"
    /\ UNCHANGED <<index, vectors, service, left, target>>

Rebuild == Begin \/ SeedOrder \/ SeedCustomer \/ Commit \/ Abandon \/ Stop

Reindex == (\E v \in IndexVersions : Copy(v)) \/ Stamp \/ Quit

IndexSpec == IndexInit /\ [][Rebuild \/ Reindex]_indexVars

-----------------------------------------------------------------------------
(* Properties *)

\* A start-up that dies half-way leaves no half of an index (main.go:171): a
\* reader or a reindex finds all rows of all documents or, before the first
\* start-up, none; a service that is up finds all.
IndexIsWhole ==
    \/ /\ \A d \in Docs : index[d] = Absent
       /\ \A k \in Keys : vectors[k] = Absent
       /\ service # "up"
    \/ /\ \A d \in Docs : index[d] # Absent
       /\ \A k \in Keys : vectors[k] # Absent

\* The two statements of a reindex (reindex/main.go:24, 35) race with start-ups
\* and with the end of the process: a row of the index and its vector are of
\* one version again once a reindex ran undisturbed or the API was restarted,
\* even if the restart fell between the statements and nothing followed it.
VersionsAgree ==
    reindexer \in {"clean", "overtaken"} =>
        \A d \in Docs : index[d] = vectors[<<d, DefaultProfile(d)>>]

=============================================================================
