---------------------------- MODULE PolicyEngine ----------------------------
(***************************************************************************)
(* SQLiteEngine.Evaluate with its read-through grants cache                *)
(* (internal/policy/sqlite_engine.go, internal/cache/grants_cache.go),     *)
(* run by several goroutines at once.                                      *)
(*                                                                         *)
(* One call of Evaluate goes through                                       *)
(*                                                                         *)
(*    Start --> RefuseTenant --> done                                      *)
(*        \---> SameTenant --> GetRead --> Hit ----------> DecideStep       *)
(*                                   \--> Miss, Evict         |             *)
(*                                          \--> Query --> SetEntry        *)
(*                                                                         *)
(* Each action is one critical section of the cache's RWMutex or one SQL   *)
(* statement; between two of them other callers, the administrator, the    *)
(* clock and a restart may act.  Entries store the time left instead of    *)
(* expiresAt, so that no clock grows: left < 0 is                          *)
(* time.Now().After(expiresAt).                                            *)
(***************************************************************************)
EXTENDS PolicyData

CONSTANTS
    Caller,         \* goroutines that call Evaluate
    NoRequest,      \* req[c] while c is idle
    NoDecision,     \* result[c] before an answer, and of a failed call
    NoEntry         \* a key the cache does not hold

VARIABLES
    items,          \* GrantsCache.items
    pc,             \* where each caller is in Evaluate
    req,            \* its subject and document
    found,          \* local of Get: the entry read under the read lock
    held,           \* local of Evaluate: the grants it works with
    spent,          \* ticks since the call began
    result          \* the decision returned

engineVars == <<items, pc, req, found, held, spent, result>>
vars == <<acl, policyRules, since, items, pc, req, found, held, spent, result>>

Key == [tenant : Tenant, user : User]

Ids == ResourceId \cup {Wildcard}

\* left is -1 once the entry has expired
Entry == [ids : SUBSET Ids, left : -1..TTL]

ASSUME PolicyEngineConstants ==
    /\ NoRequest \notin Request
    /\ NoDecision \notin Decision
    /\ NoEntry \notin Entry

Busy == {"begin", "get", "check", "query", "set", "decide"}

TypeOK ==
    /\ DataTypeOK
    /\ items \in [Key -> Entry \cup {NoEntry}]
    /\ pc \in [Caller -> Busy \cup {"idle", "done"}]
    /\ req \in [Caller -> Request \cup {NoRequest}]
    /\ \A c \in Caller : pc[c] # "idle" => req[c] \in Request
    /\ found \in [Caller -> Entry \cup {NoEntry}]
    /\ held \in [Caller -> SUBSET Ids]
    /\ spent \in [Caller -> 0..MaxFill]
    /\ result \in [Caller -> Decision \cup {NoDecision}]

Init ==
    /\ DataInit
    /\ items  = [k \in Key |-> NoEntry]
    /\ pc     = [c \in Caller |-> "idle"]
    /\ req    = [c \in Caller |-> NoRequest]
    /\ found  = [c \in Caller |-> NoEntry]
    /\ held   = [c \in Caller |-> {}]
    /\ spent  = [c \in Caller |-> 0]
    /\ result = [c \in Caller |-> NoDecision]

Goto(c, from, to) ==
    /\ pc[c] = from
    /\ pc' = [pc EXCEPT ![c] = to]

\* cacheKey: the roles of the request are not part of it
CacheKey(q) == [tenant |-> q.tenant, user |-> q.user]

-----------------------------------------------------------------------------
(* Evaluate *)

Start(c, q) ==
    /\ Goto(c, "idle", "begin")
    /\ req' = [req EXCEPT ![c] = q]
    /\ UNCHANGED <<dataVars, items, found, held, spent, result>>

\* a document of another tenant is refused before the cache is touched
RefuseTenant(c) ==
    /\ Goto(c, "begin", "done")
    /\ TenantMismatch(req[c].tenant, req[c].doc)
    /\ result' = [result EXCEPT ![c] = Deny("tenant_mismatch")]
    /\ spent' = [spent EXCEPT ![c] = 0]
    /\ UNCHANGED <<dataVars, items, req, found, held>>

SameTenant(c) ==
    /\ Goto(c, "begin", "get")
    /\ ~TenantMismatch(req[c].tenant, req[c].doc)
    /\ UNCHANGED <<dataVars, items, req, found, held, spent, result>>

\* Get, under RLock
GetRead(c) ==
    /\ Goto(c, "get", "check")
    /\ found' = [found EXCEPT ![c] = items[CacheKey(req[c])]]
    /\ UNCHANGED <<dataVars, items, req, held, spent, result>>

\* mutant: an expired entry is served once more
HitStale(c) ==
    /\ found[c] # NoEntry
    /\ Goto(c, "check", "decide")
    /\ held' = [held EXCEPT ![c] = found[c].ids]
    /\ found' = [found EXCEPT ![c] = NoEntry]
    /\ UNCHANGED <<dataVars, items, req, spent, result>>

\* Get after RUnlock: the entry is live, its ids are copied
Hit(c) ==
    /\ found[c] # NoEntry
    /\ found[c].left >= 0
    /\ Goto(c, "check", "decide")
    /\ held' = [held EXCEPT ![c] = found[c].ids]
    /\ found' = [found EXCEPT ![c] = NoEntry]
    /\ UNCHANGED <<dataVars, items, req, spent, result>>

Miss(c) ==
    /\ found[c] = NoEntry
    /\ Goto(c, "check", "query")
    /\ UNCHANGED <<dataVars, items, req, found, held, spent, result>>

\* mutant: the expired entry stays and Get is tried again
EvictRetry(c) ==
    /\ found[c] # NoEntry
    /\ found[c].left < 0
    /\ Goto(c, "check", "get")
    /\ found' = [found EXCEPT ![c] = NoEntry]
    /\ UNCHANGED <<dataVars, items, req, held, spent, result>>

\* Get, under Lock: whatever the key holds by now is deleted, be it the
\* expired entry or one that another caller has set since the read
Evict(c) ==
    /\ found[c] # NoEntry
    /\ found[c].left < 0
    /\ Goto(c, "check", "query")
    /\ items' = [items EXCEPT ![CacheKey(req[c])] = NoEntry]
    /\ found' = [found EXCEPT ![c] = NoEntry]
    /\ UNCHANGED <<dataVars, req, held, spent, result>>

\* the SELECT on acl_grants
Query(c) ==
    /\ Goto(c, "query", "set")
    /\ held' = [held EXCEPT ![c] =
                  GrantedIds(req[c].tenant, SubjectIds(req[c].user, req[c].roles))]
    /\ UNCHANGED <<dataVars, items, req, found, spent, result>>

\* Set, under Lock; expiresAt counts from here, not from the SELECT
SetEntry(c) ==
    /\ Goto(c, "set", "decide")
    /\ items' = [items EXCEPT ![CacheKey(req[c])] = [ids |-> held[c], left |-> TTL]]
    /\ UNCHANGED <<dataVars, req, found, held, spent, result>>

\* mutant: the grants a caller holds are final
DecideIgnoringDeny(c) ==
    /\ Goto(c, "decide", "done")
    /\ result' = [result EXCEPT ![c] =
                    DecideAclFinal(held[c], RulesOf(req[c].tenant), req[c].attrs, req[c].doc)]
    /\ held' = [held EXCEPT ![c] = {}]
    /\ spent' = [spent EXCEPT ![c] = 0]
    /\ UNCHANGED <<dataVars, items, req, found>>

\* loadRules and the loop of evalABAC or hasDenyRule: the rules are never cached
DecideStep(c) ==
    /\ Goto(c, "decide", "done")
    /\ result' = [result EXCEPT ![c] =
                    Decide(held[c], RulesOf(req[c].tenant), req[c].attrs, req[c].doc)]
    /\ held' = [held EXCEPT ![c] = {}]
    /\ spent' = [spent EXCEPT ![c] = 0]
    /\ UNCHANGED <<dataVars, items, req, found>>

\* either SELECT fails: Evaluate returns the error and nothing is cached
Fail(c) ==
    /\ pc[c] \in {"query", "decide"}
    /\ pc' = [pc EXCEPT ![c] = "done"]
    /\ held' = [held EXCEPT ![c] = {}]
    /\ spent' = [spent EXCEPT ![c] = 0]
    /\ UNCHANGED <<dataVars, items, req, found, result>>

\* the caller consumes the answer
Leave(c) ==
    /\ Goto(c, "done", "idle")
    /\ req' = [req EXCEPT ![c] = NoRequest]
    /\ result' = [result EXCEPT ![c] = NoDecision]
    /\ UNCHANGED <<dataVars, items, found, held, spent>>

-----------------------------------------------------------------------------
(* The cache's other operation, time, administrator, restart *)

\* InvalidatePrefix: the prefix selects a tenant and some of its users
InvalidatePrefix(tenant, users) ==
    /\ items' = [k \in Key |-> IF k.tenant = tenant /\ k.user \in users
                               THEN NoEntry ELSE items[k]]
    /\ UNCHANGED <<dataVars, pc, req, found, held, spent, result>>

Older(e) ==
    IF e = NoEntry THEN NoEntry
    ELSE [e EXCEPT !.left = IF e.left = -1 THEN -1 ELSE e.left - 1]

\* the clock moves unless a call has lasted MaxFill ticks
Tick ==
    /\ \A c \in Caller : pc[c] \in Busy => spent[c] < MaxFill
    /\ AgeData
    /\ items' = [k \in Key |-> Older(items[k])]
    /\ found' = [c \in Caller |-> Older(found[c])]
    /\ spent' = [c \in Caller |-> IF pc[c] \in Busy THEN spent[c] + 1 ELSE spent[c]]
    /\ UNCHANGED <<pc, req, held, result>>

Administer ==
    /\ EditAcl \/ EditRules
    /\ UNCHANGED engineVars

\* the process dies and starts again: migrations reseed, the cache is empty,
\* calls in flight are lost
Restart ==
    /\ Reseed
    /\ items'  = [k \in Key |-> NoEntry]
    /\ pc'     = [c \in Caller |-> "idle"]
    /\ req'    = [c \in Caller |-> NoRequest]
    /\ found'  = [c \in Caller |-> NoEntry]
    /\ held'   = [c \in Caller |-> {}]
    /\ spent'  = [c \in Caller |-> 0]
    /\ result' = [c \in Caller |-> NoDecision]

-----------------------------------------------------------------------------
(* Specification *)

\* the steps of a call once it has started
Work(c) ==
    \/ RefuseTenant(c)
    \/ SameTenant(c)
    \/ GetRead(c)
    \/ Hit(c)
    \/ Miss(c)
    \/ Evict(c)
    \/ Query(c)
    \/ SetEntry(c)
    \/ DecideStep(c)

Next ==
    \/ \E c \in Caller :
         \/ \E q \in Request : Start(c, q)
         \/ Work(c)
         \/ Fail(c)
         \/ Leave(c)
    \/ \E tenant \in Tenant, users \in SUBSET User : InvalidatePrefix(tenant, users)
    \/ Tick
    \/ Administer
    \/ Restart

\* a goroutine inside Evaluate keeps running: no step waits for another caller
Fairness == \A c \in Caller : WF_vars(Work(c))

Spec == Init /\ [][Next]_vars
FairSpec == Spec /\ Fairness

-----------------------------------------------------------------------------
(* Properties *)

\* The cache (grants_cache.go:26, :45) races: a slow reader overwrites a newer
\* entry, a lock is dropped between the expiry check and the delete, the
\* lifetime starts at Set and not at the SELECT.  Still, the grants a decision
\* is about to use (sqlite_engine.go:43, :56) are those of the caller's user
\* and tenant at most Staleness ticks ago: a grant deleted longer ago is not
\* used, a grant inserted longer ago is not missed.
GrantsUsedAreRecent ==
    \A c \in Caller : pc[c] = "decide" =>
        Reflects(req[c].tenant, req[c].user, held[c], Staleness)

\* why it holds, from the table to the decision: a caller back from the SELECT
\* holds what the table said since its call began
FillIsRecent ==
    \A c \in Caller : pc[c] = "set" =>
        Reflects(req[c].tenant, req[c].user, held[c], spent[c])

\* an entry with time left is at most MaxFill ticks older than its Set
EntryIsRecent(k, e) ==
    e # NoEntry /\ e.left >= 0
        => Reflects(k.tenant, k.user, e.ids, (TTL - e.left) + MaxFill)

\* in the cache as well as in the hands of Get
CacheIsRecent ==
    /\ \A k \in Key : EntryIsRecent(k, items[k])
    /\ \A c \in Caller : pc[c] = "check" => EntryIsRecent(CacheKey(req[c]), found[c])

\* and a caller served by it may use up the rest of its call
HeldIsRecent ==
    \A c \in Caller : pc[c] = "decide" =>
        Reflects(req[c].tenant, req[c].user, held[c], TTL + MaxFill + spent[c])

\* The four facts together are inductive: every hand-over of a grant set, from
\* SELECT to Set, from the map to Get, from Get to the decision, keeps its age
\* within what the next holder assumes (sqlite_engine.go:71-109).
AgesAddUp == TypeOK /\ FillIsRecent /\ CacheIsRecent /\ HeldIsRecent

\* Evaluate always returns, with a decision or an error: no lock is held across
\* a database call and no caller waits for another (grants_cache.go:26-53).
EveryCallReturns ==
    \A c \in Caller : pc[c] \in Busy ~> pc[c] \in {"done", "idle"}

\* README.md:20, "Strict permission enforcement (RBAC + ABAC)": a subject is
\* let in by the ACL only through a grant to the user or to one of the roles of
\* this very request.
OwnGrantsOnly ==
    [][\A c \in Caller :
        result[c] = NoDecision /\ result'[c] = Allow("acl_grant") =>
          \E row \in AclRow :
            /\ row.tenant = req[c].tenant
            /\ row.sid \in SubjectIds(req[c].user, req[c].roles)
            /\ row.id \in {Wildcard, req[c].doc.id}
            /\ row \in acl \/ since[row] <= Staleness]_vars

\* The abstract promise (policy/types.go:17): callers see answers of an uncached engine working on
\* grants at most Staleness ticks old and on the rules of the moment.
AC == INSTANCE AccessControl WITH
        phase <- [c \in Caller |-> IF pc[c] = "idle" THEN "idle"
                                   ELSE IF pc[c] = "done" THEN "answered"
                                   ELSE "asked"]

ImplementsAccessControl == AC!ACSpec

=============================================================================
