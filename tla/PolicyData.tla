----------------------------- MODULE PolicyData -----------------------------
(***************************************************************************)
(* What the policy engine reads: the acl_grants and policy_rules tables of *)
(* the SQLite database, the administrator who edits them, the restart that *)
(* drops and reseeds them, and the clock.  AccessControl and PolicyEngine  *)
(* both extend this module.                                                *)
(*                                                                         *)
(* The resource type and the action are one fixed pair: like the tenant,   *)
(* they select rows and are part of the cache key.                         *)
(***************************************************************************)
EXTENDS PolicyRules, Integers

CONSTANTS
    User, Role,     \* X-User-Id and the members of X-Roles
    RoleSets,       \* RoleSets[u]: the role sets user u presents, request by request
    SubjectAttrs,   \* the attribute maps subjects present
    Docs,           \* the documents asked about
    TTL,            \* lifetime of a cached grant set, in ticks
    MaxFill,        \* bound: ticks one call of Evaluate may take
    EditableAcl,    \* bound: grants the administrator inserts and deletes
    EditableRules,  \* bound: rules the administrator inserts and deletes
    SeedAcl, SeedRules  \* rows left by the migrations

\* columns of acl_grants; subject_id is 'user:'u or 'role:'r
AclRow == [tenant : Tenant, sid : User \cup Role, id : ResourceId \cup {Wildcard}]

RuleRow == [tenant : Tenant, rule : Rule]

\* what Evaluate is given: the subject built from the headers of one HTTP
\* request, and a document
Request ==
    {q \in [tenant : Tenant, user : User, roles : SUBSET Role,
            attrs : SubjectAttrs, doc : Docs] : q.roles \in RoleSets[q.user]}

ASSUME PolicyDataConstants ==
    /\ User \cap Role = {}
    /\ RoleSets \in [User -> SUBSET SUBSET Role]
    /\ SubjectAttrs \subseteq AttrMap
    /\ Docs \subseteq Document
    /\ TTL \in Nat
    /\ MaxFill \in Nat
    /\ EditableAcl \subseteq AclRow
    /\ EditableRules \subseteq RuleRow
    /\ SeedAcl \subseteq AclRow
    /\ SeedRules \subseteq RuleRow

VARIABLES
    acl,            \* the rows of acl_grants
    policyRules,    \* the rows of policy_rules
    since           \* history: ticks since each grant was inserted or deleted

dataVars == <<acl, policyRules, since>>

\* how old the grants behind a decision may be: a lookup of MaxFill ticks
\* fills an entry that is served for TTL ticks to a call of MaxFill ticks
Staleness == TTL + 2 * MaxFill

\* since[row] counts no further than this
Horizon == Staleness + 1

DataTypeOK ==
    /\ acl \subseteq AclRow
    /\ policyRules \subseteq RuleRow
    /\ since \in [AclRow -> 0..Horizon]

DataInit ==
    /\ acl = SeedAcl
    /\ policyRules = SeedRules
    /\ since = [row \in AclRow |-> Horizon]

-----------------------------------------------------------------------------
(* What a lookup reads *)

SubjectIds(user, roles) == {user} \cup roles

\* mutant: the tenant is missing from the WHERE clause
GrantedIdsAnyTenant(tenant, sids) == {row.id : row \in {r \in acl : r.sid \in sids}}

GrantedIds(tenant, sids) ==
    {row.id : row \in {r \in acl : r.tenant = tenant /\ r.sid \in sids}}

RulesOf(tenant) == {row.rule : row \in {r \in policyRules : r.tenant = tenant}}

\* subject ids a user goes by in some request, and in every request
AnySid(user)    == {user} \cup UNION RoleSets[user]
CommonSid(user) == {user} \cup {r \in Role : \A R \in RoleSets[user] : r \in R}

\* the user's grants as of at most n ticks ago: no grant settled for longer is
\* missing, and no grant gone for longer is still there
Reflects(tenant, user, ids, n) ==
    /\ \A row \in acl :
         row.tenant = tenant /\ row.sid \in CommonSid(user) /\ since[row] > n
             => row.id \in ids
    /\ \A id \in ids : \E row \in AclRow :
         /\ row.tenant = tenant /\ row.sid \in AnySid(user) /\ row.id = id
         /\ row \in acl \/ since[row] <= n

-----------------------------------------------------------------------------
(* The environment: administrator, restart, time *)

\* since after acl becomes rows
Touched(rows) ==
    [row \in AclRow |-> IF row \in acl <=> row \in rows THEN since[row] ELSE 0]

EditAcl ==
    /\ \E row \in EditableAcl : acl' = acl \cup {row} \/ acl' = acl \ {row}
    /\ since' = Touched(acl')
    /\ UNCHANGED policyRules

EditRules ==
    /\ \E row \in EditableRules :
         policyRules' = policyRules \cup {row} \/ policyRules' = policyRules \ {row}
    /\ UNCHANGED <<acl, since>>

\* 001_init.sql drops both tables, 002 and 003 fill them again
Reseed ==
    /\ acl' = SeedAcl
    /\ policyRules' = SeedRules
    /\ since' = Touched(acl')

AgeData ==
    /\ since' = [row \in AclRow |-> IF since[row] = Horizon THEN Horizon
                                    ELSE since[row] + 1]
    /\ UNCHANGED <<acl, policyRules>>

=============================================================================
