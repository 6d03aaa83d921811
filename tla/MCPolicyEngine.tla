--------------------------- MODULE MCPolicyEngine ---------------------------
(***************************************************************************)
(* Small instances of PolicyEngine: one user, with grants of her own in    *)
(* one tenant and of her role in another, and one order.                   *)
(***************************************************************************)
EXTENDS PolicyEngine, TLC

West == [a \in Attr |-> "west"]

\* every request of a user presents the same roles
StableRoles == [u \in User |-> {Role}]

\* a user presents all roles in some requests and none in others
VaryingRoles == [u \in User |-> {{}, Role}]

OneSubject == {West}

\* asked about by tenant-a and by tenant-b, for whom it is a foreign document
OneDoc == {[id |-> "ord1", tenant |-> "tenantA", attrs |-> West]}

Grant(t, s, i) == [tenant |-> t, sid |-> s, id |-> i]

\* the wildcard of her role
ManagerAcl == {Grant("tenantA", "manager", "*")}

DenyWest == {[tenant |-> "tenantA",
              rule |-> [effect |-> "deny", subjectAttr |-> "region",
                        resourceAttr |-> "region", op |-> "equals",
                        value |-> "west"]]}

\* the same user id in two tenants
TwoTenantAcl == {Grant("tenantA", "manager", "*"), Grant("tenantB", "alice", "ord1")}

NoRows == {}

CallerSymmetry == Permutations(Caller)

=============================================================================
