------------------------- MODULE PolicyEngineProofs -------------------------
(***************************************************************************)
(* Theorems about PolicyEngine for every value of its constants.           *)
(***************************************************************************)
EXTENDS PolicyEngine, TLAPS

USE PolicyConstants, PolicyDataConstants, PolicyEngineConstants

-----------------------------------------------------------------------------
(* Type correctness *)

LEMMA InitType == Init => TypeOK
BY DEF Init, TypeOK, DataInit, DataTypeOK, Horizon, Staleness, Key

LEMMA GrantedIdsType ==
  ASSUME acl \subseteq AclRow, NEW t, NEW S
  PROVE  GrantedIds(t, S) \in SUBSET Ids
BY DEF GrantedIds, AclRow, Ids

LEMMA DecideType ==
  ASSUME NEW G, NEW R, NEW s, NEW d
  PROVE  Decide(G, R, s, d) \in Decision
BY DEF Decide, EvalABAC, Decision, Allow, Deny

LEMMA TouchedType ==
  ASSUME DataTypeOK, NEW S
  PROVE  Touched(S) \in [AclRow -> 0..Horizon]
BY DEF DataTypeOK, Touched, Horizon, Staleness

LEMMA OlderType ==
  ASSUME NEW e \in Entry \cup {NoEntry}
  PROVE  Older(e) \in Entry \cup {NoEntry}
BY DEF Older, Entry

LEMMA NextType == TypeOK /\ [Next]_vars => TypeOK'
<1> SUFFICES ASSUME TypeOK, [Next]_vars PROVE TypeOK'
  OBVIOUS
<1>1. ASSUME NEW c \in Caller, NEW q \in Request, Start(c, q) PROVE TypeOK'
  BY <1>1 DEF TypeOK, DataTypeOK, Start, Goto, Busy, dataVars
<1>2. ASSUME NEW c \in Caller, RefuseTenant(c) PROVE TypeOK'
  BY <1>2 DEF TypeOK, DataTypeOK, RefuseTenant, Goto, Busy, dataVars, Decision, Deny
<1>3. ASSUME NEW c \in Caller, SameTenant(c) PROVE TypeOK'
  BY <1>3 DEF TypeOK, DataTypeOK, SameTenant, Goto, Busy, dataVars
<1>4. ASSUME NEW c \in Caller, GetRead(c) PROVE TypeOK'
  <2>1. CacheKey(req[c]) \in Key
    BY <1>4 DEF TypeOK, GetRead, Goto, CacheKey, Key, Request
  <2>2. QED
    BY <1>4, <2>1 DEF TypeOK, DataTypeOK, GetRead, Goto, Busy, dataVars
<1>5. ASSUME NEW c \in Caller, Hit(c) PROVE TypeOK'
  BY <1>5 DEF TypeOK, DataTypeOK, Hit, Goto, Busy, dataVars, Entry
<1>6. ASSUME NEW c \in Caller, Miss(c) PROVE TypeOK'
  BY <1>6 DEF TypeOK, DataTypeOK, Miss, Goto, Busy, dataVars
<1>7. ASSUME NEW c \in Caller, Evict(c) PROVE TypeOK'
  BY <1>7 DEF TypeOK, DataTypeOK, Evict, Goto, Busy, dataVars
<1>8. ASSUME NEW c \in Caller, Query(c) PROVE TypeOK'
  BY <1>8, GrantedIdsType DEF TypeOK, DataTypeOK, Query, Goto, Busy, dataVars
<1>9. ASSUME NEW c \in Caller, SetEntry(c) PROVE TypeOK'
  <2>1. [ids |-> held[c], left |-> TTL] \in Entry
    BY DEF TypeOK, Entry
  <2>2. QED
    BY <1>9, <2>1 DEF TypeOK, DataTypeOK, SetEntry, Goto, Busy, dataVars
<1>10. ASSUME NEW c \in Caller, DecideStep(c) PROVE TypeOK'
  BY <1>10, DecideType DEF TypeOK, DataTypeOK, DecideStep, Goto, Busy, dataVars
<1>11. ASSUME NEW c \in Caller, Fail(c) PROVE TypeOK'
  BY <1>11 DEF TypeOK, DataTypeOK, Fail, Busy, dataVars
<1>12. ASSUME NEW c \in Caller, Leave(c) PROVE TypeOK'
  BY <1>12 DEF TypeOK, DataTypeOK, Leave, Goto, Busy, dataVars
<1>13. ASSUME NEW t \in Tenant, NEW U \in SUBSET User, InvalidatePrefix(t, U) PROVE TypeOK'
  BY <1>13 DEF TypeOK, DataTypeOK, InvalidatePrefix, dataVars
<1>14. ASSUME Tick PROVE TypeOK'
  <2>1. DataTypeOK'
    BY <1>14 DEF TypeOK, DataTypeOK, Tick, AgeData, Horizon, Staleness
  <2>2. items' \in [Key -> Entry \cup {NoEntry}] /\ found' \in [Caller -> Entry \cup {NoEntry}]
    BY <1>14, OlderType DEF TypeOK, Tick
  <2>3. spent' \in [Caller -> 0..MaxFill]
    BY <1>14 DEF TypeOK, Tick
  <2>4. QED
    BY <1>14, <2>1, <2>2, <2>3 DEF TypeOK, Tick
<1>15. ASSUME Administer PROVE TypeOK'
  <2>1. acl' \subseteq AclRow /\ policyRules' \subseteq RuleRow
    BY <1>15 DEF TypeOK, DataTypeOK, Administer, EditAcl, EditRules
  <2>2. since' \in [AclRow -> 0..Horizon]
    BY <1>15, TouchedType DEF TypeOK, DataTypeOK, Administer, EditAcl, EditRules
  <2>3. QED
    BY <1>15, <2>1, <2>2 DEF TypeOK, DataTypeOK, Administer, engineVars
<1>16. ASSUME Restart PROVE TypeOK'
  <2>1. DataTypeOK'
    BY <1>16, TouchedType DEF TypeOK, DataTypeOK, Restart, Reseed
  <2>2. QED
    BY <1>16, <2>1 DEF TypeOK, Restart
<1>17. CASE UNCHANGED vars
  BY <1>17 DEF TypeOK, DataTypeOK, vars
<1>18. QED
  BY <1>1, <1>2, <1>3, <1>4, <1>5, <1>6, <1>7, <1>8, <1>9, <1>10, <1>11,
     <1>12, <1>13, <1>14, <1>15, <1>16, <1>17 DEF Next, Work

\* Every variable keeps its type in every behaviour of the engine.
THEOREM TypeCorrect == Spec => []TypeOK
BY InitType, NextType, PTL DEF Spec

-----------------------------------------------------------------------------
(* How Reflects moves with the tables and with time *)

LEMMA StalenessNat == Staleness \in Nat /\ Horizon \in Nat
BY DEF Staleness, Horizon

\* an older view is a weaker claim
LEMMA ReflectsWeaken ==
  ASSUME DataTypeOK, NEW t, NEW u, NEW ids, NEW n \in Int, NEW m \in Int, n <= m,
         Reflects(t, u, ids, n)
  PROVE  Reflects(t, u, ids, m)
<1>1. \A row \in AclRow : since[row] \in Int
  BY StalenessNat DEF DataTypeOK
<1>2. acl \subseteq AclRow
  BY DEF DataTypeOK
<1> QED
  BY <1>1, <1>2 DEF Reflects

\* a tick makes every view one tick older
LEMMA TickRows ==
  ASSUME DataTypeOK, AgeData, NEW n \in Nat
  PROVE  /\ acl' = acl /\ acl \subseteq AclRow
         /\ \A row \in AclRow : since'[row] > n + 1 => since[row] > n
         /\ \A row \in AclRow : since[row] <= n => since'[row] <= n + 1
<1>1. \A row \in AclRow : since[row] \in 0..Horizon
  BY DEF DataTypeOK
<1>2. \A row \in AclRow : since'[row] = IF since[row] = Horizon THEN Horizon
                                        ELSE since[row] + 1
  BY DEF AgeData
<1> QED
  BY <1>1, <1>2, StalenessNat DEF AgeData, DataTypeOK

LEMMA ReflectsTick ==
  ASSUME DataTypeOK, AgeData, NEW t, NEW u, NEW ids, NEW n \in Nat,
         Reflects(t, u, ids, n)
  PROVE  Reflects(t, u, ids, n + 1)'
BY TickRows DEF Reflects

\* editing the tables never invalidates a view: what it got wrong is young
LEMMA TouchedRows ==
  ASSUME DataTypeOK, acl' \subseteq AclRow, since' = Touched(acl'), NEW n \in Nat
  PROVE  /\ \A row \in acl' : since'[row] > n => row \in acl /\ since[row] > n
         /\ \A row \in AclRow : row \in acl \/ since[row] <= n
                                => row \in acl' \/ since'[row] <= n
<1>1. \A row \in AclRow : since'[row] = IF row \in acl <=> row \in acl' THEN since[row] ELSE 0
  BY DEF Touched
<1> QED
  BY <1>1

LEMMA AdministerRows ==
  ASSUME DataTypeOK, Administer, NEW n \in Nat
  PROVE  /\ \A row \in acl' : since'[row] > n => row \in acl /\ since[row] > n
         /\ \A row \in AclRow : row \in acl \/ since[row] <= n
                                => row \in acl' \/ since'[row] <= n
<1>1. CASE EditAcl
  <2>1. acl' \subseteq AclRow /\ since' = Touched(acl')
    BY <1>1 DEF EditAcl, DataTypeOK
  <2> QED
    BY <2>1, TouchedRows
<1>2. CASE EditRules
  BY <1>2 DEF EditRules, DataTypeOK
<1> QED
  BY <1>1, <1>2 DEF Administer

LEMMA ReflectsAdminister ==
  ASSUME DataTypeOK, Administer, NEW t, NEW u, NEW ids, NEW n \in Nat,
         Reflects(t, u, ids, n)
  PROVE  Reflects(t, u, ids, n)'
BY AdministerRows DEF Reflects

LEMMA ReflectsUnchanged ==
  ASSUME UNCHANGED dataVars, NEW t, NEW u, NEW ids, NEW n, Reflects(t, u, ids, n)
  PROVE  Reflects(t, u, ids, n)'
BY DEF dataVars, Reflects

\* the SELECT of grantsForSubject is exact, for the roles of its request
LEMMA QueryReflects ==
  ASSUME DataTypeOK, NEW q \in Request
  PROVE  Reflects(q.tenant, q.user, GrantedIds(q.tenant, SubjectIds(q.user, q.roles)), 0)
<1>1. q.roles \in RoleSets[q.user] /\ q.user \in User
  BY DEF Request
<1>2. CommonSid(q.user) \subseteq SubjectIds(q.user, q.roles)
  BY <1>1 DEF CommonSid, SubjectIds
<1>3. SubjectIds(q.user, q.roles) \subseteq AnySid(q.user)
  BY <1>1 DEF AnySid, SubjectIds
<1> QED
  BY <1>2, <1>3 DEF Reflects, GrantedIds, DataTypeOK

-----------------------------------------------------------------------------
(* Ages add up *)

LEMMA InitAges == Init => AgesAddUp
BY InitType DEF Init, AgesAddUp, FillIsRecent, CacheIsRecent, EntryIsRecent, HeldIsRecent

\* Each holder of a grant set, by name
Fill(c)  == pc[c] = "set" => Reflects(req[c].tenant, req[c].user, held[c], spent[c])
Got(c)   == pc[c] = "check" => EntryIsRecent(CacheKey(req[c]), found[c])
Using(c) == pc[c] = "decide" =>
              Reflects(req[c].tenant, req[c].user, held[c], TTL + MaxFill + spent[c])

\* a step of one caller that leaves the tables alone
LEMMA CallerStep ==
  ASSUME AgesAddUp, TypeOK', UNCHANGED dataVars,
         NEW c \in Caller,
         \A d \in Caller \ {c} :
            /\ pc'[d] = pc[d] /\ req'[d] = req[d] /\ found'[d] = found[d]
            /\ held'[d] = held[d] /\ spent'[d] = spent[d],
         \A k \in Key : EntryIsRecent(k, items[k])',
         Fill(c)', Got(c)', Using(c)'
  PROVE  AgesAddUp'
<1>1. ASSUME NEW d \in Caller, d # c PROVE Fill(d)' /\ Got(d)' /\ Using(d)'
  BY <1>1, ReflectsUnchanged
     DEF AgesAddUp, FillIsRecent, CacheIsRecent, HeldIsRecent, Fill, Got, Using,
         EntryIsRecent, CacheKey, Reflects, dataVars
<1> QED
  BY <1>1 DEF AgesAddUp, FillIsRecent, CacheIsRecent, HeldIsRecent, Fill, Got, Using

LEMMA EntriesUnchanged ==
  ASSUME AgesAddUp, UNCHANGED dataVars,
         \A k \in Key : items'[k] = items[k] \/ items'[k] = NoEntry
  PROVE  \A k \in Key : EntryIsRecent(k, items[k])'
BY DEF AgesAddUp, CacheIsRecent, EntryIsRecent, Reflects, dataVars

LEMMA NextAges == AgesAddUp /\ [Next]_vars => AgesAddUp'
<1> SUFFICES ASSUME AgesAddUp, [Next]_vars PROVE AgesAddUp'
  OBVIOUS
<1> USE DEF Fill, Got, Using
<1>0. TypeOK /\ TypeOK'
  BY NextType DEF AgesAddUp
<1>a. \A c \in Caller : Fill(c) /\ Got(c) /\ Using(c)
  BY DEF AgesAddUp, FillIsRecent, CacheIsRecent, HeldIsRecent
<1>b. \A c \in Caller : pc[c] # "idle" => req[c] \in Request /\ CacheKey(req[c]) \in Key
  BY <1>0 DEF TypeOK, CacheKey, Key, Request
<1>1. ASSUME NEW c \in Caller, NEW q \in Request, Start(c, q) PROVE AgesAddUp'
  <2>1. pc'[c] = "begin"
    BY <1>1, <1>0 DEF Start, Goto, TypeOK
  <2> QED
    BY <1>1, <1>0, <2>1, CallerStep, EntriesUnchanged DEF Start, Goto, TypeOK
<1>2. ASSUME NEW c \in Caller, RefuseTenant(c) PROVE AgesAddUp'
  <2>1. pc'[c] = "done"
    BY <1>2, <1>0 DEF RefuseTenant, Goto, TypeOK
  <2> QED
    BY <1>2, <1>0, <2>1, CallerStep, EntriesUnchanged DEF RefuseTenant, Goto, TypeOK
<1>3. ASSUME NEW c \in Caller, SameTenant(c) PROVE AgesAddUp'
  <2>1. pc'[c] = "get"
    BY <1>3, <1>0 DEF SameTenant, Goto, TypeOK
  <2> QED
    BY <1>3, <1>0, <2>1, CallerStep, EntriesUnchanged DEF SameTenant, Goto, TypeOK
<1>4. ASSUME NEW c \in Caller, GetRead(c) PROVE AgesAddUp'
  <2>1. pc'[c] = "check" /\ found'[c] = items[CacheKey(req[c])] /\ req' = req
    BY <1>4, <1>0 DEF GetRead, Goto, TypeOK
  <2>2. CacheKey(req[c]) \in Key
    BY <1>4, <1>b DEF GetRead, Goto
  <2>3. Got(c)'
    BY <1>4, <2>1, <2>2
       DEF GetRead, AgesAddUp, CacheIsRecent, EntryIsRecent, Reflects, CacheKey, dataVars
  <2> QED
    BY <1>4, <1>0, <2>1, <2>3, CallerStep, EntriesUnchanged DEF GetRead, Goto, TypeOK
<1>5. ASSUME NEW c \in Caller, Hit(c) PROVE AgesAddUp'
  <2>1. /\ pc[c] = "check" /\ pc'[c] = "decide" /\ req' = req /\ spent' = spent
        /\ held'[c] = found[c].ids /\ found[c] \in Entry /\ found[c].left >= 0
    BY <1>5, <1>0 DEF Hit, Goto, TypeOK
  <2>2. Reflects(req[c].tenant, req[c].user, found[c].ids, (TTL - found[c].left) + MaxFill)
    BY <1>a, <2>1, <1>5 DEF EntryIsRecent, CacheKey, Hit
  <2>3. /\ (TTL - found[c].left) + MaxFill \in Int
        /\ TTL + MaxFill + spent[c] \in Int
        /\ (TTL - found[c].left) + MaxFill <= TTL + MaxFill + spent[c]
    BY <2>1, <1>0 DEF Entry, TypeOK
  <2>4. Reflects(req[c].tenant, req[c].user, found[c].ids, TTL + MaxFill + spent[c])
    BY <2>2, <2>3, <1>0, ReflectsWeaken DEF TypeOK
  <2>5. Using(c)'
    BY <2>1, <2>4, <1>5 DEF Hit, Reflects, dataVars
  <2> QED
    BY <1>5, <1>0, <2>1, <2>5, CallerStep, EntriesUnchanged DEF Hit, Goto, TypeOK
<1>6. ASSUME NEW c \in Caller, Miss(c) PROVE AgesAddUp'
  <2>1. pc'[c] = "query"
    BY <1>6, <1>0 DEF Miss, Goto, TypeOK
  <2> QED
    BY <1>6, <1>0, <2>1, CallerStep, EntriesUnchanged DEF Miss, Goto, TypeOK
<1>7. ASSUME NEW c \in Caller, Evict(c) PROVE AgesAddUp'
  <2>1. pc'[c] = "query"
    BY <1>7, <1>0 DEF Evict, Goto, TypeOK
  <2>2. \A k \in Key : items'[k] = items[k] \/ items'[k] = NoEntry
    BY <1>7, <1>0 DEF Evict, TypeOK
  <2> QED
    BY <1>7, <1>0, <2>1, <2>2, CallerStep, EntriesUnchanged DEF Evict, Goto, TypeOK
<1>8. ASSUME NEW c \in Caller, Query(c) PROVE AgesAddUp'
  <2>1. /\ pc'[c] = "set" /\ req' = req /\ spent' = spent /\ req[c] \in Request
        /\ held'[c] = GrantedIds(req[c].tenant, SubjectIds(req[c].user, req[c].roles))
    BY <1>8, <1>0, <1>b DEF Query, Goto, TypeOK
  <2>2. spent[c] \in Int /\ 0 <= spent[c]
    BY <1>0 DEF TypeOK
  <2>3. Reflects(req[c].tenant, req[c].user, held'[c], spent[c])
    BY <2>1, <2>2, <1>0, QueryReflects, ReflectsWeaken DEF TypeOK
  <2>4. Fill(c)'
    BY <1>8, <2>1, <2>3 DEF Query, Reflects, dataVars
  <2> QED
    BY <1>8, <1>0, <2>1, <2>4, CallerStep, EntriesUnchanged DEF Query, Goto, TypeOK
<1>9. ASSUME NEW c \in Caller, SetEntry(c) PROVE AgesAddUp'
  <2> DEFINE k0 == CacheKey(req[c])
             e0 == [ids |-> held[c], left |-> TTL]
  <2>1. /\ pc[c] = "set" /\ pc'[c] = "decide" /\ req' = req /\ spent' = spent
        /\ held' = held /\ k0 \in Key /\ items' = [items EXCEPT ![k0] = e0]
    BY <1>9, <1>0, <1>b DEF SetEntry, Goto, TypeOK
  <2>2. spent[c] \in 0..MaxFill
    BY <1>0 DEF TypeOK
  <2>3. Reflects(req[c].tenant, req[c].user, held[c], spent[c])
    BY <1>a, <2>1
  <2>4. Reflects(req[c].tenant, req[c].user, held[c], MaxFill)
    BY <2>2, <2>3, <1>0, ReflectsWeaken DEF TypeOK
  <2>5. Reflects(req[c].tenant, req[c].user, held[c], TTL + MaxFill + spent[c])
    BY <2>2, <2>3, <1>0, ReflectsWeaken DEF TypeOK
  <2>6. EntryIsRecent(k0, e0)
    BY <2>4 DEF EntryIsRecent, CacheKey
  <2>7. \A k \in Key : EntryIsRecent(k, items[k])'
    BY <1>9, <2>1, <2>6, <1>0
       DEF SetEntry, TypeOK, AgesAddUp, CacheIsRecent, EntryIsRecent, Reflects, dataVars
  <2>8. Using(c)'
    BY <1>9, <2>1, <2>5 DEF SetEntry, Reflects, dataVars
  <2> QED
    BY <1>9, <1>0, <2>1, <2>7, <2>8, CallerStep DEF SetEntry, Goto, TypeOK
<1>10. ASSUME NEW c \in Caller, DecideStep(c) PROVE AgesAddUp'
  <2>1. pc'[c] = "done"
    BY <1>10, <1>0 DEF DecideStep, Goto, TypeOK
  <2> QED
    BY <1>10, <1>0, <2>1, CallerStep, EntriesUnchanged DEF DecideStep, Goto, TypeOK
<1>11. ASSUME NEW c \in Caller, Fail(c) PROVE AgesAddUp'
  <2>1. pc'[c] = "done"
    BY <1>11, <1>0 DEF Fail, TypeOK
  <2> QED
    BY <1>11, <1>0, <2>1, CallerStep, EntriesUnchanged DEF Fail, TypeOK
<1>12. ASSUME NEW c \in Caller, Leave(c) PROVE AgesAddUp'
  <2>1. pc'[c] = "idle"
    BY <1>12, <1>0 DEF Leave, Goto, TypeOK
  <2> QED
    BY <1>12, <1>0, <2>1, CallerStep, EntriesUnchanged DEF Leave, Goto, TypeOK
<1>13. ASSUME NEW t \in Tenant, NEW U \in SUBSET User, InvalidatePrefix(t, U) PROVE AgesAddUp'
  <2>1. \A k \in Key : items'[k] = items[k] \/ items'[k] = NoEntry
    BY <1>13 DEF InvalidatePrefix
  <2>2. \A k \in Key : EntryIsRecent(k, items[k])'
    BY <1>13, <2>1, EntriesUnchanged DEF InvalidatePrefix
  <2> QED
    BY <1>13, <1>0, <2>2
       DEF InvalidatePrefix, AgesAddUp, FillIsRecent, CacheIsRecent, HeldIsRecent,
           EntryIsRecent, Reflects, CacheKey, dataVars
<1>14. ASSUME Tick PROVE AgesAddUp'
  <2>0. AgeData /\ DataTypeOK
    BY <1>14, <1>0 DEF Tick, TypeOK
  <2>1. ASSUME NEW k, NEW e \in Entry \cup {NoEntry}, EntryIsRecent(k, e)
        PROVE  Older(e) # NoEntry /\ Older(e).left >= 0 =>
                 Reflects(k.tenant, k.user, Older(e).ids, (TTL - Older(e).left) + MaxFill)'
    <3>1. SUFFICES ASSUME Older(e) # NoEntry, Older(e).left >= 0
          PROVE Reflects(k.tenant, k.user, Older(e).ids, (TTL - Older(e).left) + MaxFill)'
      OBVIOUS
    <3>2. /\ e \in Entry /\ e.left \in 1..TTL
          /\ Older(e).left = e.left - 1 /\ Older(e).ids = e.ids
      BY <3>1 DEF Older, Entry
    <3>3. Reflects(k.tenant, k.user, e.ids, (TTL - e.left) + MaxFill)
      BY <2>1, <3>2 DEF EntryIsRecent
    <3>4. (TTL - e.left) + MaxFill \in Nat
      BY <3>2
    <3>5. Reflects(k.tenant, k.user, e.ids, ((TTL - e.left) + MaxFill) + 1)'
      BY <2>0, <3>3, <3>4, ReflectsTick
    <3>6. ((TTL - e.left) + MaxFill) + 1 = (TTL - Older(e).left) + MaxFill
      BY <3>2
    <3> QED
      BY <3>2, <3>5, <3>6
  <2>2. /\ pc' = pc /\ req' = req /\ held' = held
        /\ \A k \in Key : items'[k] = Older(items[k])
        /\ \A c \in Caller : found'[c] = Older(found[c])
        /\ \A c \in Caller : pc[c] \in {"set", "decide"} =>
             spent'[c] = spent[c] + 1 /\ spent[c] \in Nat
    BY <1>14, <1>0 DEF Tick, TypeOK, Busy
  <2>3. \A k \in Key : EntryIsRecent(k, items[k])'
    <3> SUFFICES ASSUME NEW k \in Key PROVE EntryIsRecent(k, items[k])'
      OBVIOUS
    <3>1. items[k] \in Entry \cup {NoEntry} /\ EntryIsRecent(k, items[k])
      BY <1>0 DEF TypeOK, AgesAddUp, CacheIsRecent
    <3> QED
      BY <3>1, <2>1, <2>2 DEF EntryIsRecent, Reflects
  <2>4. ASSUME NEW c \in Caller, pc[c] = "check"
        PROVE  EntryIsRecent(CacheKey(req[c]), found[c])'
    <3>1. found[c] \in Entry \cup {NoEntry} /\ EntryIsRecent(CacheKey(req[c]), found[c])
      BY <1>0, <1>a, <2>4 DEF TypeOK
    <3> QED
      BY <3>1, <2>1, <2>2 DEF EntryIsRecent, Reflects, CacheKey
  <2>5. ASSUME NEW c \in Caller, pc[c] = "set"
        PROVE  Reflects(req[c].tenant, req[c].user, held[c], spent[c])'
    <3>1. /\ acl' = acl /\ acl \subseteq AclRow
          /\ \A row \in AclRow : since'[row] > spent[c] + 1 => since[row] > spent[c]
          /\ \A row \in AclRow : since[row] <= spent[c] => since'[row] <= spent[c] + 1
      BY <2>0, <2>2, <2>5, TickRows
    <3> QED
      BY <3>1, <1>a, <2>2, <2>5 DEF Reflects
  <2>6. ASSUME NEW c \in Caller, pc[c] = "decide"
        PROVE  Reflects(req[c].tenant, req[c].user, held[c], TTL + MaxFill + spent[c])'
    <3>1. TTL + MaxFill + spent[c] \in Nat
      BY <2>2, <2>6
    <3>2. /\ acl' = acl /\ acl \subseteq AclRow
          /\ \A row \in AclRow : since'[row] > (TTL + MaxFill + spent[c]) + 1
                                   => since[row] > TTL + MaxFill + spent[c]
          /\ \A row \in AclRow : since[row] <= TTL + MaxFill + spent[c]
                                   => since'[row] <= (TTL + MaxFill + spent[c]) + 1
      BY <2>0, <3>1, TickRows
    <3>3. (TTL + MaxFill + spent[c]) + 1 = TTL + MaxFill + spent'[c]
      BY <2>2, <2>6
    <3> QED
      BY <3>2, <3>3, <1>a, <2>2, <2>6 DEF Reflects
  <2> QED
    BY <1>0, <2>2, <2>3, <2>4, <2>5, <2>6
       DEF AgesAddUp, FillIsRecent, CacheIsRecent, HeldIsRecent
<1>15. ASSUME Administer PROVE AgesAddUp'
  <2>1. DataTypeOK /\ TTL + MaxFill \in Nat
    BY <1>0 DEF TypeOK
  <2>3. UNCHANGED engineVars
    BY <1>15 DEF Administer
  <2>4. ASSUME NEW k, NEW e \in Entry \cup {NoEntry}, EntryIsRecent(k, e)
        PROVE  e # NoEntry /\ e.left >= 0 =>
                 Reflects(k.tenant, k.user, e.ids, (TTL - e.left) + MaxFill)'
    <3> SUFFICES ASSUME e # NoEntry, e.left >= 0
          PROVE  Reflects(k.tenant, k.user, e.ids, (TTL - e.left) + MaxFill)'
      OBVIOUS
    <3>1. (TTL - e.left) + MaxFill \in Nat
      BY DEF Entry
    <3> QED
      BY <1>15, <2>1, <3>1, <2>4, ReflectsAdminister DEF EntryIsRecent
  <2>5. \A k \in Key : EntryIsRecent(k, items[k])'
    <3> SUFFICES ASSUME NEW k \in Key PROVE EntryIsRecent(k, items[k])'
      OBVIOUS
    <3>1. items[k] \in Entry \cup {NoEntry} /\ EntryIsRecent(k, items[k])
      BY <1>0 DEF TypeOK, AgesAddUp, CacheIsRecent
    <3>2. /\ items'[k] = items[k]
          /\ items[k] # NoEntry /\ items[k].left >= 0 =>
               Reflects(k.tenant, k.user, items[k].ids, (TTL - items[k].left) + MaxFill)'
      BY <3>1, <2>3, <2>4 DEF engineVars
    <3> QED
      BY <3>2 DEF EntryIsRecent, Reflects
  <2>6. ASSUME NEW c \in Caller PROVE Fill(c)' /\ Got(c)' /\ Using(c)'
    <3>1. /\ spent[c] \in Nat /\ TTL + MaxFill + spent[c] \in Nat
          /\ found[c] \in Entry => (TTL - found[c].left) + MaxFill \in Int
          /\ found[c] \in Entry \cup {NoEntry} /\ NoEntry \notin Entry
      BY <1>0 DEF TypeOK, Entry
    <3>2. Fill(c)'
      <4> SUFFICES ASSUME pc[c] = "set"
                   PROVE  Reflects(req[c].tenant, req[c].user, held[c], spent[c])'
        BY <2>3 DEF engineVars
      <4>1. Reflects(req[c].tenant, req[c].user, held[c], spent[c])
        BY <1>a
      <4>2. /\ \A row \in acl' : since'[row] > spent[c] => row \in acl /\ since[row] > spent[c]
            /\ \A row \in AclRow : row \in acl \/ since[row] <= spent[c]
                                   => row \in acl' \/ since'[row] <= spent[c]
        BY <1>15, <2>1, <3>1, AdministerRows
      <4> QED
        BY <4>1, <4>2, <2>3 DEF Reflects, engineVars
    <3>3. Using(c)'
      <4> DEFINE n == TTL + MaxFill + spent[c]
      <4> SUFFICES ASSUME pc[c] = "decide"
                   PROVE  Reflects(req[c].tenant, req[c].user, held[c], n)'
        BY <2>3 DEF engineVars
      <4>1. Reflects(req[c].tenant, req[c].user, held[c], n)
        BY <1>a
      <4>2. /\ \A row \in acl' : since'[row] > n => row \in acl /\ since[row] > n
            /\ \A row \in AclRow : row \in acl \/ since[row] <= n
                                   => row \in acl' \/ since'[row] <= n
        BY <1>15, <2>1, <3>1, AdministerRows
      <4> QED
        BY <4>1, <4>2, <2>3 DEF Reflects, engineVars
    <3>4. Got(c)'
      <4> DEFINE n == (TTL - found[c].left) + MaxFill
      <4> SUFFICES ASSUME pc[c] = "check", found[c] # NoEntry, found[c].left >= 0
                   PROVE  Reflects(req[c].tenant, req[c].user, found[c].ids, n)'
        BY <2>3 DEF engineVars, EntryIsRecent, CacheKey
      <4>1. Reflects(req[c].tenant, req[c].user, found[c].ids, n)
        BY <1>a DEF EntryIsRecent, CacheKey
      <4>2. n \in Nat
        BY <1>0, <3>1 DEF Entry
      <4>3. /\ \A row \in acl' : since'[row] > n => row \in acl /\ since[row] > n
            /\ \A row \in AclRow : row \in acl \/ since[row] <= n
                                   => row \in acl' \/ since'[row] <= n
        BY <1>15, <2>1, <4>2, AdministerRows
      <4> QED
        BY <4>1, <4>3, <2>3 DEF Reflects, engineVars
    <3> QED
      BY <3>2, <3>3, <3>4
  <2> QED
    BY <1>0, <2>5, <2>6 DEF AgesAddUp, FillIsRecent, CacheIsRecent, HeldIsRecent
<1>16. ASSUME Restart PROVE AgesAddUp'
  BY <1>16, <1>0
     DEF Restart, AgesAddUp, FillIsRecent, CacheIsRecent, EntryIsRecent, HeldIsRecent, TypeOK
<1>17. CASE UNCHANGED vars
  BY <1>17, <1>0
     DEF vars, AgesAddUp, FillIsRecent, CacheIsRecent, HeldIsRecent,
         EntryIsRecent, Reflects, CacheKey
<1>18. QED
  BY <1>1, <1>2, <1>3, <1>4, <1>5, <1>6, <1>7, <1>8, <1>9, <1>10, <1>11,
     <1>12, <1>13, <1>14, <1>15, <1>16, <1>17 DEF Next, Work

LEMMA AgesBound == AgesAddUp => GrantsUsedAreRecent
<1> SUFFICES ASSUME AgesAddUp, NEW c \in Caller, pc[c] = "decide"
             PROVE  Reflects(req[c].tenant, req[c].user, held[c], Staleness)
  BY DEF GrantsUsedAreRecent
<1>1. DataTypeOK /\ spent[c] \in 0..MaxFill
  BY DEF AgesAddUp, TypeOK
<1>2. Reflects(req[c].tenant, req[c].user, held[c], TTL + MaxFill + spent[c])
  BY DEF AgesAddUp, HeldIsRecent
<1>3. /\ TTL + MaxFill + spent[c] \in Int /\ Staleness \in Int
      /\ TTL + MaxFill + spent[c] <= Staleness
  BY <1>1 DEF Staleness
<1> QED
  BY <1>1, <1>2, <1>3, ReflectsWeaken

\* The strengthening holds in every behaviour: ages add up along every
\* hand-over of a grant set.
THEOREM AgesInvariant == Spec => []AgesAddUp
BY InitAges, NextAges, PTL DEF Spec

\* For every number of callers, every table and every TTL: no decision is made
\* on grants older than TTL + 2 * MaxFill, whatever the interleaving of
\* lookups, fills, evictions, table edits and restarts.
THEOREM GrantsRecent == Spec => []GrantsUsedAreRecent
BY AgesInvariant, AgesBound, PTL

-----------------------------------------------------------------------------
(* Whose grants let a subject in *)

\* every request of a user presents the same roles
RolesAreStable == \A u \in User : \A R, S \in RoleSets[u] : R = S

LEMMA OwnSids ==
  ASSUME RolesAreStable, NEW q \in Request
  PROVE  AnySid(q.user) = SubjectIds(q.user, q.roles)
BY DEF RolesAreStable, Request, AnySid, SubjectIds

\* the reason acl_grant is given to nothing but a grant held
LEMMA GrantedByAcl ==
  ASSUME NEW G, NEW R, NEW s, NEW d, Decide(G, R, s, d) = Allow("acl_grant")
  PROVE  Wildcard \in G \/ d.id \in G
BY DEF Decide, EvalABAC, AclCovers, Allow, Deny

\* of all steps only DecideStep lets a caller in
LEMMA OnlyDecideAllows ==
  ASSUME TypeOK, Next, NEW c \in Caller,
         result[c] = NoDecision, result'[c] = Allow("acl_grant")
  PROVE  DecideStep(c)
<1>1. NoDecision # Allow("acl_grant")
  <2>1. Allow("acl_grant") \in Decision
    BY DEF Decision, Allow
  <2> QED
    BY <2>1, PolicyEngineConstants, Zenon
<1>2. result \in [Caller -> Decision \cup {NoDecision}] /\ result' # result
  BY <1>1 DEF TypeOK
<1>3. ASSUME NEW d \in Caller, RefuseTenant(d) PROVE FALSE
  BY <1>1, <1>2, <1>3 DEF RefuseTenant, Deny, Allow
<1>4. ASSUME NEW d \in Caller, DecideStep(d) PROVE DecideStep(c)
  BY <1>1, <1>2, <1>4 DEF DecideStep
<1>5. ASSUME NEW d \in Caller, Leave(d) PROVE FALSE
  BY <1>1, <1>2, <1>5 DEF Leave
<1>6. ~Restart
  BY <1>1 DEF Restart
<1>7. ASSUME NEW d \in Caller,
             \/ \E q \in Request : Start(d, q)
             \/ SameTenant(d) \/ GetRead(d) \/ Hit(d) \/ Miss(d) \/ Evict(d)
             \/ Query(d) \/ SetEntry(d) \/ Fail(d)
      PROVE  FALSE
  BY <1>2, <1>7
     DEF Start, SameTenant, GetRead, Hit, Miss, Evict, Query, SetEntry, Fail
<1>8. ~Tick /\ ~Administer /\ \A t \in Tenant, U \in SUBSET User : ~InvalidatePrefix(t, U)
  BY <1>2 DEF Tick, Administer, engineVars, InvalidatePrefix
<1> QED
  BY <1>3, <1>4, <1>5, <1>6, <1>7, <1>8 DEF Next, Work

LEMMA DecideByOwnGrant ==
  ASSUME RolesAreStable, TypeOK, GrantsUsedAreRecent, NEW c \in Caller, DecideStep(c),
         result'[c] = Allow("acl_grant")
  PROVE  \E row \in AclRow :
            /\ row.tenant = req[c].tenant
            /\ row.sid \in SubjectIds(req[c].user, req[c].roles)
            /\ row.id \in {Wildcard, req[c].doc.id}
            /\ row \in acl \/ since[row] <= Staleness
<1>1. pc[c] = "decide" /\ req[c] \in Request
  BY DEF DecideStep, Goto, TypeOK
<1>2. Reflects(req[c].tenant, req[c].user, held[c], Staleness)
  BY <1>1 DEF GrantsUsedAreRecent
<1>3. Wildcard \in held[c] \/ req[c].doc.id \in held[c]
  <2>1. Decide(held[c], RulesOf(req[c].tenant), req[c].attrs, req[c].doc) = Allow("acl_grant")
    BY DEF DecideStep, TypeOK
  <2> QED
    BY <2>1, GrantedByAcl
<1>4. AnySid(req[c].user) = SubjectIds(req[c].user, req[c].roles)
  BY <1>1, OwnSids
<1> QED
  BY <1>2, <1>3, <1>4 DEF Reflects

\* README.md:20, "Strict permission enforcement (RBAC + ABAC)", for any number of
\* callers, users, roles and grants: as long as a user presents the same roles in
\* every request, the ACL lets a subject in only by a grant of its own.  Without
\* that the cache key, which lacks the roles (sqlite_engine.go:72), refutes it.
THEOREM OwnGrants == ASSUME RolesAreStable PROVE Spec => OwnGrantsOnly
<1>1. TypeOK /\ GrantsUsedAreRecent /\ [Next]_vars =>
        [\A c \in Caller :
           result[c] = NoDecision /\ result'[c] = Allow("acl_grant") =>
             \E row \in AclRow :
               /\ row.tenant = req[c].tenant
               /\ row.sid \in SubjectIds(req[c].user, req[c].roles)
               /\ row.id \in {Wildcard, req[c].doc.id}
               /\ row \in acl \/ since[row] <= Staleness]_vars
  BY OnlyDecideAllows, DecideByOwnGrant
<1> QED
  BY <1>1, TypeCorrect, GrantsRecent, PTL DEF Spec, OwnGrantsOnly

-----------------------------------------------------------------------------
(***************************************************************************)
(* PolicyEngine implements AccessControl, for every value of its           *)
(* constants: the cached engine's callers cannot tell it from an engine    *)
(* that reads grants at most Staleness ticks old.                          *)
(***************************************************************************)

(* A call that got past the tenant check asks about its own tenant *)

PassedTenant ==
    \A c \in Caller : pc[c] \in Busy \ {"begin"} =>
        ~TenantMismatch(req[c].tenant, req[c].doc)

LEMMA InitPassed == Init => PassedTenant
BY DEF Init, PassedTenant, Busy

LEMMA NextPassed == TypeOK /\ PassedTenant /\ [Next]_vars => PassedTenant'
<1> SUFFICES ASSUME TypeOK, PassedTenant, [Next]_vars PROVE PassedTenant'
  OBVIOUS
<1> USE DEF PassedTenant, Goto, Busy, TypeOK
<1>1. ASSUME NEW c \in Caller, NEW q \in Request, Start(c, q) PROVE PassedTenant'
  BY <1>1 DEF Start
<1>2. ASSUME NEW c \in Caller, RefuseTenant(c) PROVE PassedTenant'
  BY <1>2 DEF RefuseTenant
<1>3. ASSUME NEW c \in Caller, SameTenant(c) PROVE PassedTenant'
  BY <1>3 DEF SameTenant
<1>4. ASSUME NEW c \in Caller, GetRead(c) PROVE PassedTenant'
  BY <1>4 DEF GetRead
<1>5. ASSUME NEW c \in Caller, Hit(c) PROVE PassedTenant'
  BY <1>5 DEF Hit
<1>6. ASSUME NEW c \in Caller, Miss(c) PROVE PassedTenant'
  BY <1>6 DEF Miss
<1>7. ASSUME NEW c \in Caller, Evict(c) PROVE PassedTenant'
  BY <1>7 DEF Evict
<1>8. ASSUME NEW c \in Caller, Query(c) PROVE PassedTenant'
  BY <1>8 DEF Query
<1>9. ASSUME NEW c \in Caller, SetEntry(c) PROVE PassedTenant'
  BY <1>9 DEF SetEntry
<1>10. ASSUME NEW c \in Caller, DecideStep(c) PROVE PassedTenant'
  BY <1>10 DEF DecideStep
<1>11. ASSUME NEW c \in Caller, Fail(c) PROVE PassedTenant'
  BY <1>11 DEF Fail
<1>12. ASSUME NEW c \in Caller, Leave(c) PROVE PassedTenant'
  BY <1>12 DEF Leave
<1>13. ASSUME NEW t \in Tenant, NEW U \in SUBSET User, InvalidatePrefix(t, U) PROVE PassedTenant'
  BY <1>13 DEF InvalidatePrefix
<1>14. ASSUME Tick PROVE PassedTenant'
  BY <1>14 DEF Tick
<1>15. ASSUME Administer PROVE PassedTenant'
  BY <1>15 DEF Administer, engineVars
<1>16. ASSUME Restart PROVE PassedTenant'
  BY <1>16 DEF Restart
<1>17. CASE UNCHANGED vars
  BY <1>17 DEF vars
<1> QED
  BY <1>1, <1>2, <1>3, <1>4, <1>5, <1>6, <1>7, <1>8, <1>9, <1>10, <1>11,
     <1>12, <1>13, <1>14, <1>15, <1>16, <1>17 DEF Next, Work

-----------------------------------------------------------------------------
(* The simulation *)

\* the phase of AccessControl that pc stands for
Phase == [c \in Caller |-> IF pc[c] = "idle" THEN "idle"
                           ELSE IF pc[c] = "done" THEN "answered"
                           ELSE "asked"]

\* AccessControl's copies of the operators of PolicyData and PolicyRules
LEMMA SameData ==
  /\ AC!AclRow = AclRow /\ AC!Request = Request /\ AC!Horizon = Horizon
  /\ AC!Staleness = Staleness
BY DEF AC!AclRow, AclRow, AC!Request, Request, AC!Horizon, Horizon, AC!Staleness, Staleness

LEMMA SameEnvironment ==
  /\ AC!DataInit <=> DataInit
  /\ AC!EditAcl <=> EditAcl
  /\ AC!EditRules <=> EditRules
  /\ AC!Reseed <=> Reseed
  /\ AC!AgeData <=> AgeData
<1>1. \A rows : AC!Touched(rows) = Touched(rows)
  BY SameData DEF AC!Touched, Touched
<1> QED
  BY <1>1, SameData DEF AC!DataInit, DataInit, AC!EditAcl, EditAcl, AC!EditRules, EditRules,
     AC!Reseed, Reseed, AC!AgeData, AgeData

LEMMA SameReflects ==
  ASSUME NEW t, NEW u, NEW ids, NEW n
  PROVE  AC!Reflects(t, u, ids, n) <=> Reflects(t, u, ids, n)
BY SameData DEF AC!Reflects, Reflects, AC!CommonSid, CommonSid, AC!AnySid, AnySid

LEMMA SameDecide ==
  ASSUME NEW G, NEW R, NEW s, NEW d
  PROVE  AC!Decide(G, R, s, d) = Decide(G, R, s, d)
<1>1. \A rule, r : AC!MatchRule(rule, s, r) <=> MatchRule(rule, s, r)
  BY DEF AC!MatchRule, MatchRule
<1>2. \A r : /\ AC!HasDenyRule(R, s, r) <=> HasDenyRule(R, s, r)
             /\ AC!HasAllowRule(R, s, r) <=> HasAllowRule(R, s, r)
  BY <1>1 DEF AC!HasDenyRule, HasDenyRule, AC!HasAllowRule, HasAllowRule
<1>3. \A r : AC!EvalABAC(R, s, r) = EvalABAC(R, s, r)
  BY <1>2 DEF AC!EvalABAC, EvalABAC, AC!Deny, Deny, AC!Allow, Allow
<1> QED
  BY <1>2, <1>3 DEF AC!Decide, Decide, AC!AclCovers, AclCovers, AC!Deny, Deny, AC!Allow, Allow

LEMMA SameRules ==
  /\ \A t, d : AC!TenantMismatch(t, d) <=> TenantMismatch(t, d)
  /\ \A t : AC!RulesOf(t) = RulesOf(t)
  /\ \A x : AC!Deny(x) = Deny(x)
  /\ AC!Decision = Decision
BY DEF AC!TenantMismatch, TenantMismatch, AC!RulesOf, RulesOf, AC!Deny, Deny,
   AC!Decision, Decision

LEMMA InitRefines == Init => AC!ACInit
BY SameEnvironment DEF Init, AC!ACInit

\* a step inside a call shows nothing
LEMMA HiddenStep ==
  ASSUME UNCHANGED <<dataVars, req, result>>, Phase' = Phase
  PROVE  UNCHANGED AC!acVars
BY DEF AC!acVars, Phase, dataVars

\* pc moves, inside a call or to its end
LEMMA PhaseOf ==
  ASSUME TypeOK, NEW c \in Caller, NEW p \in Busy \cup {"idle", "done"},
         pc' = [pc EXCEPT ![c] = p]
  PROVE  Phase' = [Phase EXCEPT ![c] = IF p = "idle" THEN "idle"
                                       ELSE IF p = "done" THEN "answered" ELSE "asked"]
BY DEF TypeOK, Phase

LEMMA InsideCall ==
  ASSUME TypeOK, NEW c \in Caller, NEW p \in Busy, NEW r \in Busy, Goto(c, p, r),
         UNCHANGED <<dataVars, req, result>>
  PROVE  UNCHANGED AC!acVars
<1>1. Phase' = Phase
  BY PhaseOf DEF Goto, Phase, Busy, TypeOK
<1> QED
  BY <1>1, HiddenStep

LEMMA NextRefines ==
  ASSUME TypeOK, GrantsUsedAreRecent, PassedTenant, [Next]_vars
  PROVE  AC!ACNext \/ UNCHANGED AC!acVars
<1>1. ASSUME NEW c \in Caller, NEW q \in Request, Start(c, q) PROVE AC!ACNext
  <2>1. Phase[c] = "idle" /\ Phase' = [Phase EXCEPT ![c] = "asked"]
    <3>1. pc[c] = "idle" /\ pc' = [pc EXCEPT ![c] = "begin"] /\ "begin" \in Busy
      BY <1>1 DEF Start, Goto, Busy
    <3>2. Phase[c] = "idle"
      BY <3>1 DEF Phase
    <3>3. Phase' = [Phase EXCEPT ![c] = IF "begin" = "idle" THEN "idle"
                                        ELSE IF "begin" = "done" THEN "answered" ELSE "asked"]
      BY <3>1, PhaseOf
    <3> QED
      BY <3>2, <3>3
  <2>2. /\ \E r \in AC!Request : req' = [req EXCEPT ![c] = r]
        /\ UNCHANGED <<acl, policyRules, since, result>>
    BY <1>1, SameData DEF Start, dataVars
  <2>3. AC!Ask(c)
    BY <2>1, <2>2 DEF AC!Ask, Phase
  <2> QED
    BY <2>3 DEF AC!ACNext
<1>2. ASSUME NEW c \in Caller, RefuseTenant(c) PROVE AC!ACNext
  <2>1. Phase[c] = "asked" /\ Phase' = [Phase EXCEPT ![c] = "answered"]
    BY <1>2, PhaseOf DEF RefuseTenant, Goto, Phase, Busy
  <2>2. AC!Justified(req[c], Deny("tenant_mismatch")) /\ Deny("tenant_mismatch") \in AC!Decision
    BY <1>2, SameRules DEF RefuseTenant, AC!Justified, Decision, Deny
  <2>3. /\ result' = [result EXCEPT ![c] = Deny("tenant_mismatch")]
        /\ UNCHANGED <<acl, policyRules, since, req>>
    BY <1>2 DEF RefuseTenant, dataVars
  <2>4. AC!Answer(c)
    BY <2>1, <2>2, <2>3 DEF AC!Answer, Phase
  <2> QED
    BY <2>4 DEF AC!ACNext
<1>3. ASSUME NEW c \in Caller,
             \/ SameTenant(c) \/ GetRead(c) \/ Hit(c) \/ Miss(c)
             \/ Evict(c) \/ Query(c) \/ SetEntry(c)
      PROVE  UNCHANGED AC!acVars
  BY <1>3, InsideCall
     DEF SameTenant, GetRead, Hit, Miss, Evict, Query, SetEntry, Goto, Busy
<1>4. ASSUME NEW c \in Caller, DecideStep(c) PROVE AC!ACNext
  <2> DEFINE d == Decide(held[c], RulesOf(req[c].tenant), req[c].attrs, req[c].doc)
  <2>1. pc[c] = "decide" /\ pc' = [pc EXCEPT ![c] = "done"]
    BY <1>4 DEF DecideStep, Goto
  <2>2. Phase[c] = "asked" /\ Phase' = [Phase EXCEPT ![c] = "answered"]
    BY <2>1, PhaseOf DEF Phase
  <2>3. /\ ~AC!TenantMismatch(req[c].tenant, req[c].doc)
        /\ AC!Reflects(req[c].tenant, req[c].user, held[c], AC!Staleness)
        /\ held[c] \in SUBSET (ResourceId \cup {Wildcard})
    BY <2>1, SameRules, SameData, SameReflects
       DEF PassedTenant, Busy, GrantsUsedAreRecent, TypeOK, Ids
  <2>4. d = AC!Decide(held[c], AC!RulesOf(req[c].tenant), req[c].attrs, req[c].doc)
    BY SameDecide, SameRules
  <2>5. AC!Justified(req[c], d)
    BY <2>3, <2>4 DEF AC!Justified
  <2>6. d \in AC!Decision
    BY DecideType, SameRules
  <2>7. /\ result' = [result EXCEPT ![c] = d]
        /\ UNCHANGED <<acl, policyRules, since, req>>
    BY <1>4 DEF DecideStep, dataVars
  <2> HIDE DEF d
  <2>8. AC!Answer(c)
    BY <2>2, <2>5, <2>6, <2>7 DEF AC!Answer, Phase
  <2> QED
    BY <2>8 DEF AC!ACNext
<1>5. ASSUME NEW c \in Caller, Fail(c) PROVE AC!ACNext
  <2>1. Phase[c] = "asked" /\ Phase' = [Phase EXCEPT ![c] = "answered"]
    BY <1>5, PhaseOf DEF Fail, Phase
  <2>2. UNCHANGED <<acl, policyRules, since, req, result>>
    BY <1>5 DEF Fail, dataVars
  <2>3. AC!Fail(c)
    BY <2>1, <2>2 DEF AC!Fail, Phase
  <2> QED
    BY <2>3 DEF AC!ACNext
<1>6. ASSUME NEW c \in Caller, Leave(c) PROVE AC!ACNext
  <2>1. Phase[c] = "answered" /\ Phase' = [Phase EXCEPT ![c] = "idle"]
    BY <1>6, PhaseOf DEF Leave, Goto, Phase
  <2>2. /\ req' = [req EXCEPT ![c] = NoRequest] /\ result' = [result EXCEPT ![c] = NoDecision]
        /\ UNCHANGED <<acl, policyRules, since>>
    BY <1>6 DEF Leave, dataVars
  <2>3. AC!Leave(c)
    BY <2>1, <2>2 DEF AC!Leave, Phase
  <2> QED
    BY <2>3 DEF AC!ACNext
<1>7. ASSUME NEW t \in Tenant, NEW U \in SUBSET User, InvalidatePrefix(t, U)
      PROVE  UNCHANGED AC!acVars
  BY <1>7, HiddenStep DEF InvalidatePrefix, Phase
<1>8. ASSUME Tick \/ Administer PROVE AC!ACNext
  <2>1. UNCHANGED <<Phase, req, result>>
    BY <1>8 DEF Tick, Administer, engineVars, Phase
  <2>2. AC!EditAcl \/ AC!EditRules \/ AC!AgeData
    BY <1>8, SameEnvironment DEF Tick, Administer
  <2>3. AC!Environment
    BY <2>1, <2>2 DEF AC!Environment, Phase
  <2> QED
    BY <2>3 DEF AC!ACNext
<1>9. ASSUME Restart PROVE AC!ACNext
  <2>1. AC!Reseed /\ Phase' = [c \in Caller |-> "idle"]
    BY <1>9, SameEnvironment DEF Restart, Phase
  <2>2. req' = [c \in Caller |-> NoRequest] /\ result' = [c \in Caller |-> NoDecision]
    BY <1>9 DEF Restart
  <2>3. AC!ACRestart
    BY <2>1, <2>2 DEF AC!ACRestart, Phase
  <2> QED
    BY <2>3 DEF AC!ACNext
<1>10. CASE UNCHANGED vars
  BY <1>10, HiddenStep DEF vars, dataVars, Phase
<1> QED
  BY <1>1, <1>2, <1>3, <1>4, <1>5, <1>6, <1>7, <1>8, <1>9, <1>10 DEF Next, Work

\* The engine with its cache, races and all, implements the abstract engine:
\* whatever Evaluate answers is the decision of the rules of that moment on the
\* subject's grants as they were at most TTL + 2 * MaxFill ticks ago.
THEOREM Refinement == Spec => ImplementsAccessControl
<1>1. Spec => []PassedTenant
  BY InitPassed, NextPassed, TypeCorrect, PTL DEF Spec
<1>2. TypeOK /\ GrantsUsedAreRecent /\ PassedTenant /\ [Next]_vars => [AC!ACNext]_(AC!acVars)
  BY NextRefines
<1> QED
  BY <1>1, <1>2, InitRefines, TypeCorrect, GrantsRecent, PTL
     DEF Spec, ImplementsAccessControl, AC!ACSpec

=============================================================================
