---------------------------- MODULE AccessControl ----------------------------
(***************************************************************************)
(* What policy.Engine promises its callers, without a cache: a caller asks *)
(* about a subject and a document; the answer is the decision of the rules *)
(* as they are when the answer is given and of the subject's grants as     *)
(* they were at most Staleness ticks ago; or the call fails, with no       *)
(* decision.  PolicyEngine implements this specification.                  *)
(***************************************************************************)
EXTENDS PolicyData

CONSTANTS
    Caller,         \* goroutines that call Evaluate
    NoRequest,      \* req[c] while c asks nothing
    NoDecision      \* result[c] before an answer, and of a failed call

VARIABLES
    phase,          \* phase[c] is "idle", "asked" or "answered"
    req,            \* what c asked
    result          \* what c was told

acVars == <<acl, policyRules, since, phase, req, result>>

ACInit ==
    /\ DataInit
    /\ phase = [c \in Caller |-> "idle"]
    /\ req = [c \in Caller |-> NoRequest]
    /\ result = [c \in Caller |-> NoDecision]

Ask(c) ==
    /\ phase[c] = "idle"
    /\ phase' = [phase EXCEPT ![c] = "asked"]
    /\ \E q \in Request : req' = [req EXCEPT ![c] = q]
    /\ UNCHANGED <<acl, policyRules, since, result>>

\* a document of another tenant is refused whatever the grants are
Justified(q, decision) ==
    \/ /\ TenantMismatch(q.tenant, q.doc)
       /\ decision = Deny("tenant_mismatch")
    \/ /\ ~TenantMismatch(q.tenant, q.doc)
       /\ \E ids \in SUBSET (ResourceId \cup {Wildcard}) :
            /\ Reflects(q.tenant, q.user, ids, Staleness)
            /\ decision = Decide(ids, RulesOf(q.tenant), q.attrs, q.doc)

Answer(c) ==
    /\ phase[c] = "asked"
    /\ phase' = [phase EXCEPT ![c] = "answered"]
    /\ \E decision \in Decision :
         /\ Justified(req[c], decision)
         /\ result' = [result EXCEPT ![c] = decision]
    /\ UNCHANGED <<acl, policyRules, since, req>>

Fail(c) ==
    /\ phase[c] = "asked"
    /\ phase' = [phase EXCEPT ![c] = "answered"]
    /\ UNCHANGED <<acl, policyRules, since, req, result>>

Leave(c) ==
    /\ phase[c] = "answered"
    /\ phase' = [phase EXCEPT ![c] = "idle"]
    /\ req' = [req EXCEPT ![c] = NoRequest]
    /\ result' = [result EXCEPT ![c] = NoDecision]
    /\ UNCHANGED <<acl, policyRules, since>>

Environment ==
    /\ EditAcl \/ EditRules \/ AgeData
    /\ UNCHANGED <<phase, req, result>>

ACRestart ==
    /\ Reseed
    /\ phase' = [c \in Caller |-> "idle"]
    /\ req' = [c \in Caller |-> NoRequest]
    /\ result' = [c \in Caller |-> NoDecision]

ACNext ==
    \/ \E c \in Caller : Ask(c) \/ Answer(c) \/ Fail(c) \/ Leave(c)
    \/ Environment
    \/ ACRestart

ACSpec == ACInit /\ [][ACNext]_acVars

=============================================================================
