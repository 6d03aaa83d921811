---------------------------- MODULE PolicyTable ----------------------------
(***************************************************************************)
(* The acl_grants and policy_rules rows of one (tenant, action, resource   *)
(* type) while an administrator edits them, and the decision Evaluate      *)
(* takes on them for one subject and one document.  No cache here: every   *)
(* decision reads the tables as they are (PolicyEngine adds the cache).    *)
(*                                                                         *)
(* The rows are a sequence, because loadRules has no ORDER BY and evalABAC *)
(* consumes them in the order the cursor happens to yield.                 *)
(***************************************************************************)
EXTENDS PolicyRules, Naturals


CONSTANTS
    HomeTenant,     \* the tenant of the subject
    MaxRows         \* bound: rows of policy_rules at one time

ASSUME PolicyTableConstants == HomeTenant \in Tenant /\ MaxRows \in Nat

VARIABLES
    rows,       \* policy_rules, in the order the SELECT yields them
    grants,     \* resource ids of acl_grants held by the subject
    attrs,      \* the subject's attributes
    doc         \* the document asked for

vars == <<rows, grants, attrs, doc>>

RuleSet == ToSet(rows)

Verdict == Evaluate(HomeTenant, grants, RuleSet, attrs, doc)

\* ranges of the variables, and the pairs of Allowed and Reason Evaluate returns
TypeOK ==
    /\ rows \in Seq(Rule)
    /\ Len(rows) <= MaxRows
    /\ grants \subseteq ResourceId \cup {Wildcard}
    /\ attrs \in AttrMap
    /\ doc \in Document
    /\ Verdict \in Decision
    /\ Verdict.allowed <=> Verdict.reason \in {"acl_grant", "abac_allow"}

Init ==
    /\ rows = <<>>
    /\ grants = {}
    /\ attrs \in AttrMap
    /\ doc \in Document

-----------------------------------------------------------------------------
(* The administrator, who is outside the program *)

InsertRule(rule) ==
    /\ Len(rows) < MaxRows
    /\ \E i \in 1..Len(rows) + 1 : rows' = InsertAt(rows, i, rule)
    /\ UNCHANGED <<grants, attrs, doc>>

DeleteRule(i) ==
    /\ rows' = RemoveAt(rows, i)
    /\ UNCHANGED <<grants, attrs, doc>>

InsertGrant(id) ==
    /\ id \notin grants
    /\ grants' = grants \cup {id}
    /\ UNCHANGED <<rows, attrs, doc>>

DeleteGrant(id) ==
    /\ grants' = grants \ {id}
    /\ UNCHANGED <<rows, attrs, doc>>

Next ==
    \/ \E rule \in Rule : InsertRule(rule)
    \/ \E i \in DOMAIN rows : DeleteRule(i)
    \/ \E id \in ResourceId \cup {Wildcard} : InsertGrant(id)
    \/ \E id \in grants : DeleteGrant(id)

Spec == Init /\ [][Next]_vars

-----------------------------------------------------------------------------
(* Properties *)

\* evalABAC (sqlite_engine.go:111) walks rows that SQLite returns in no
\* particular order and leaves at the first deny: the outcome is the same for
\* every order, a deny anywhere beating an allow before it.
RowOrderIsIrrelevant ==
    EvalABACInOrder(rows, attrs, doc.attrs) = EvalABAC(RuleSet, attrs, doc.attrs)

\* README.md:221, "ACL + ABAC with deny precedence": whichever of the two
\* paths of Evaluate (sqlite_engine.go:43, :56) decides, by a grant on the
\* document, a wildcard or an allow rule, a matching deny rule prevails.
DenyPrecedence ==
    (\E rule \in RuleSet : rule.effect = "deny" /\ MatchRule(rule, attrs, doc.attrs))
        => ~Verdict.allowed

\* A grant moves the decision from evalABAC to hasDenyRule, two loops over the
\* same rows (sqlite_engine.go:117, :139): they must agree on what a deny is,
\* so that a document visible by attribute stays visible once it is granted.
GrantNeverRevokes ==
    [][rows' = rows /\ grants \subseteq grants' => (Verdict.allowed => Verdict'.allowed)]_vars

\* the administrator asks, in the rule's own words, for an attribute to be
\* absent, or only for it to be something else
AsksForAbsence(rule) ==
    rule.op = "not_equals" \/ (rule.op = "equals" /\ rule.value = Empty)

\* matchRule (sqlite_engine.go:167) reads an attribute the subject lacks, and a
\* field the document lacks, as "".  Two of them are not a match: a document
\* opened by attribute was opened by an allow rule on an attribute the subject
\* does carry, or by one that asks for absence, which is what not_equals and a
\* literal '' do (:175 compares a literal with no guard on "").
AbsenceOpensOnlyIfAsked ==
    Verdict.reason = "abac_allow" =>
        \E rule \in RuleSet :
            /\ rule.effect = "allow"
            /\ MatchRule(rule, attrs, doc.attrs)
            /\ attrs[rule.subjectAttr] # Empty \/ AsksForAbsence(rule)

=============================================================================
