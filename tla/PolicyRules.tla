---------------------------- MODULE PolicyRules ----------------------------
(***************************************************************************)
(* The access decision of internal/policy/sqlite_engine.go, as pure        *)
(* operators: how one attribute rule matches, how the ABAC rows of a       *)
(* (tenant, action, resource type) combine, and how ACL grants and ABAC    *)
(* rules make one decision.  Nothing here has state; PolicyTable           *)
(* evaluates the operators against tables being edited and PolicyEngine    *)
(* against a cached copy of the grants.                                    *)
(*                                                                         *)
(* A missing map key and a non-string document field both read as "" in    *)
(* Go; Empty stands for that value.                                        *)
(***************************************************************************)
EXTENDS SequencesExt


CONSTANTS
    Tenant,         \* tenant identifiers
    ResourceId,     \* ids of documents
    Wildcard,       \* the resource_id '*' of a grant on every document
    Attr,           \* attribute names, of subjects and of documents
    Value,          \* non-empty attribute values
    Empty,          \* the empty string
    MatchResource   \* the rule value __MATCH_RESOURCE__

ASSUME PolicyConstants ==
    /\ Wildcard \notin ResourceId
    /\ Empty \notin Tenant
    /\ Empty \notin Value
    /\ MatchResource \notin Value
    /\ MatchResource # Empty

-----------------------------------------------------------------------------
(* Rows and arguments *)

\* columns of policy_rules; the TEXT columns effect and op are not
\* constrained by the table, "other" is any text the code does not know;
\* value is NOT NULL, but it may be the empty string
Rule == [effect       : {"allow", "deny", "other"},
         subjectAttr  : Attr,
         resourceAttr : Attr,
         op           : {"equals", "not_equals", "other"},
         value        : Value \cup {Empty, MatchResource}]

AttrMap == [Attr -> Value \cup {Empty}]

Document == [id : ResourceId, tenant : Tenant \cup {Empty}, attrs : AttrMap]

Decision == [allowed : BOOLEAN,
             reason  : {"tenant_mismatch", "acl_grant", "abac_allow",
                        "abac_deny", "no_grant"}]

Allow(reason) == [allowed |-> TRUE,  reason |-> reason]
Deny(reason)  == [allowed |-> FALSE, reason |-> reason]

-----------------------------------------------------------------------------
(* Matching and combining ABAC rules *)

\* mutant: the guard sVal # "" of the equals branch is lost
MatchRuleNoEmptyGuard(rule, sAttrs, rAttrs) ==
    LET sVal == sAttrs[rule.subjectAttr]
        wanted == IF rule.value = MatchResource
                  THEN rAttrs[rule.resourceAttr] ELSE rule.value
    IN  \/ rule.op = "equals" /\ sVal = wanted
        \/ rule.op = "not_equals" /\ sVal # wanted

MatchRule(rule, sAttrs, rAttrs) ==
    LET sVal == sAttrs[rule.subjectAttr]
        wanted == IF rule.value = MatchResource
                  THEN rAttrs[rule.resourceAttr] ELSE rule.value
    IN  \/ /\ rule.op = "equals"
           /\ sVal = wanted
           /\ rule.value = MatchResource => sVal # Empty
        \/ /\ rule.op = "not_equals"
           /\ sVal # wanted

\* mutant: the last matching row wins instead of the first deny
EvalABACLastMatchWins(rows, sAttrs, rAttrs) ==
    LET step(acc, rule) ==
          IF ~MatchRule(rule, sAttrs, rAttrs) THEN acc
          ELSE IF rule.effect = "deny" THEN Deny("abac_deny")
          ELSE IF rule.effect = "allow" THEN Allow("abac_allow")
          ELSE acc
    IN  FoldLeft(step, Deny("no_grant"), rows)

\* evalABAC as written: the rows in the order the cursor yields them, an
\* early return on the first matching deny
EvalABACInOrder(rows, sAttrs, rAttrs) ==
    LET step(acc, rule) ==
          IF acc = Deny("abac_deny") \/ ~MatchRule(rule, sAttrs, rAttrs) THEN acc
          ELSE IF rule.effect = "deny" THEN Deny("abac_deny")
          ELSE IF rule.effect = "allow" THEN Allow("abac_allow")
          ELSE acc
    IN  FoldLeft(step, Deny("no_grant"), rows)

HasDenyRule(rules, sAttrs, rAttrs) ==
    \E rule \in rules : rule.effect = "deny" /\ MatchRule(rule, sAttrs, rAttrs)

HasAllowRule(rules, sAttrs, rAttrs) ==
    \E rule \in rules : rule.effect = "allow" /\ MatchRule(rule, sAttrs, rAttrs)

\* mutant: the scan of the rows starts from an open decision
EvalABACOpenDefault(rules, sAttrs, rAttrs) ==
    IF HasDenyRule(rules, sAttrs, rAttrs) THEN Deny("abac_deny")
    ELSE IF HasAllowRule(rules, sAttrs, rAttrs) THEN Allow("abac_allow")
    ELSE Allow("no_grant")

\* evalABAC over the set of rows: the SELECT has no ORDER BY, so the engine's
\* callers can rely on nothing but the set (checked as RowOrderIsIrrelevant)
EvalABAC(rules, sAttrs, rAttrs) ==
    IF HasDenyRule(rules, sAttrs, rAttrs) THEN Deny("abac_deny")
    ELSE IF HasAllowRule(rules, sAttrs, rAttrs) THEN Allow("abac_allow")
    ELSE Deny("no_grant")

-----------------------------------------------------------------------------
(* One decision *)

\* a document without a tenant_id passes
TenantMismatch(tenant, doc) == doc.tenant # Empty /\ doc.tenant # tenant

AclCovers(grants, doc) == Wildcard \in grants \/ doc.id \in grants

\* mutant: an ACL grant is final, the deny rules are not consulted
DecideAclFinal(grants, rules, sAttrs, doc) ==
    IF AclCovers(grants, doc) THEN Allow("acl_grant")
    ELSE EvalABAC(rules, sAttrs, doc.attrs)

\* mutant: a deny rule wins only where no wildcard grant is held
DecideWildcardWins(grants, rules, sAttrs, doc) ==
    IF ~AclCovers(grants, doc) THEN EvalABAC(rules, sAttrs, doc.attrs)
    ELSE IF Wildcard \notin grants /\ HasDenyRule(rules, sAttrs, doc.attrs)
         THEN Deny("abac_deny")
         ELSE Allow("acl_grant")

\* mutant: any deny rule of the table blocks ACL holders, matching or not
DecideAnyDenyBlocks(grants, rules, sAttrs, doc) ==
    IF ~AclCovers(grants, doc) THEN EvalABAC(rules, sAttrs, doc.attrs)
    ELSE IF \E rule \in rules : rule.effect = "deny"
         THEN Deny("abac_deny")
         ELSE Allow("acl_grant")

\* Evaluate once the grants are in hand: ABAC decides for a document no grant
\* covers; a covered one is allowed unless a deny rule matches
Decide(grants, rules, sAttrs, doc) ==
    IF ~AclCovers(grants, doc) THEN EvalABAC(rules, sAttrs, doc.attrs)
    ELSE IF HasDenyRule(rules, sAttrs, doc.attrs) THEN Deny("abac_deny")
    ELSE Allow("acl_grant")

Evaluate(tenant, grants, rules, sAttrs, doc) ==
    IF TenantMismatch(tenant, doc) THEN Deny("tenant_mismatch")
    ELSE Decide(grants, rules, sAttrs, doc)

=============================================================================
