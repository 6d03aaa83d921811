-------------------------- MODULE PolicyTableProofs --------------------------
(***************************************************************************)
(* The algebra of decisions for tables of any size: what PolicyTable's run *)
(* shows for two rows, proved for every table, subject and document.       *)
(***************************************************************************)
EXTENDS PolicyTable, SequenceLemmas


\* What an edit can do to the table: the rows stay rows of policy_rules.
TableOK ==
    /\ rows \in Seq(Rule)
    /\ Len(rows) <= MaxRows
    /\ grants \subseteq ResourceId \cup {Wildcard}
    /\ attrs \in AttrMap
    /\ doc \in Document

LEMMA TableStep == TableOK /\ [Next]_vars => TableOK'
<1> SUFFICES ASSUME TableOK, [Next]_vars PROVE TableOK'
  OBVIOUS
<1> USE DEF TableOK
<1>1. ASSUME NEW rule \in Rule, InsertRule(rule) PROVE TableOK'
  BY <1>1, InsertAtType, LenNat, PolicyTableConstants DEF InsertRule
<1>2. ASSUME NEW i \in DOMAIN rows, DeleteRule(i) PROVE TableOK'
  BY <1>2, RemoveAtType, LenNat, PolicyTableConstants DEF DeleteRule
<1>3. ASSUME NEW id \in ResourceId \cup {Wildcard}, InsertGrant(id) PROVE TableOK'
  BY <1>3 DEF InsertGrant
<1>4. ASSUME NEW id \in grants, DeleteGrant(id) PROVE TableOK'
  BY <1>4 DEF DeleteGrant
<1>5. CASE UNCHANGED vars
  BY <1>5 DEF vars
<1> QED
  BY <1>1, <1>2, <1>3, <1>4, <1>5 DEF Next

LEMMA TableInvariant == Spec => []TableOK
<1>1. Init => TableOK
  BY PolicyTableConstants DEF Init, TableOK
<1> QED
  BY <1>1, TableStep, PTL DEF Spec

\* The reason of a decision fits its outcome, and the table stays what it is
\* through any history of edits (Evaluate, sqlite_engine.go:31-63).
THEOREM TypeCorrect == Spec => []TypeOK
<1>1. TableOK => TypeOK
  BY DEF TableOK, TypeOK, Verdict, Evaluate, Decide, EvalABAC, Allow, Deny, Decision
<1> QED
  BY <1>1, TableInvariant, PTL

\* The two paths of Evaluate, over all rows at once: a matching deny row closes
\* the document whether a grant covers it or not.
LEMMA DenyCloses == HasDenyRule(RuleSet, attrs, doc.attrs) => ~Verdict.allowed
BY DEF Verdict, Evaluate, Decide, EvalABAC, Allow, Deny

\* Whatever the rules, the grants and the moment: a matching deny rule prevails
\* (Evaluate, sqlite_engine.go:43-63).
THEOREM DenyPrevails == Spec => []DenyPrecedence
<1>1. DenyPrecedence
  BY DenyCloses DEF DenyPrecedence, HasDenyRule
<1> QED
  BY <1>1, PTL

\* A match without the subject's attribute is one the rule asks for: neither the
\* resource's value nor a literal other than '' equals the empty string.
LEMMA AbsentMatch ==
    ASSUME NEW rule \in Rule, NEW sAttrs, NEW rAttrs,
           MatchRule(rule, sAttrs, rAttrs), sAttrs[rule.subjectAttr] = Empty
    PROVE  AsksForAbsence(rule)
<1>1. CASE rule.op = "not_equals"
  BY <1>1 DEF AsksForAbsence
<1>2. CASE rule.op = "equals"
  <2>1. rule.value # MatchResource
    BY <1>2 DEF MatchRule
  <2>2. rule.value = Empty
    BY <1>2, <2>1 DEF MatchRule
  <2> QED
    BY <1>2, <2>2 DEF AsksForAbsence
<1> QED
  BY <1>1, <1>2 DEF MatchRule

\* For any rules, the literal '' included, and through any history of edits: an
\* attribute the subject lacks opens a document only where a matching allow rule
\* asks for that (matchRule, sqlite_engine.go:166-184).
THEOREM AbsenceIsAsked == Spec => []AbsenceOpensOnlyIfAsked
<1>1. TableOK => AbsenceOpensOnlyIfAsked
  <2> SUFFICES ASSUME TableOK, Verdict.reason = "abac_allow"
               PROVE  \E rule \in RuleSet :
                        /\ rule.effect = "allow"
                        /\ MatchRule(rule, attrs, doc.attrs)
                        /\ attrs[rule.subjectAttr] # Empty \/ AsksForAbsence(rule)
    BY DEF AbsenceOpensOnlyIfAsked
  <2>1. RuleSet \subseteq Rule
    BY DEF RuleSet, ToSet, TableOK
  <2>2. HasAllowRule(RuleSet, attrs, doc.attrs)
    BY DEF Verdict, Evaluate, Decide, EvalABAC, Allow, Deny
  <2>3. PICK rule \in RuleSet : rule.effect = "allow" /\ MatchRule(rule, attrs, doc.attrs)
    BY <2>2 DEF HasAllowRule
  <2>4. attrs[rule.subjectAttr] = Empty => AsksForAbsence(rule)
    BY <2>1, <2>3, AbsentMatch
  <2> QED
    BY <2>3, <2>4
<1> QED
  BY <1>1, TableInvariant, PTL

\* More grants on the same rules never close a document: the deny loop of the
\* granted path and that of evalABAC agree (sqlite_engine.go:117, :139).
THEOREM GrantsOnlyOpen == Spec => GrantNeverRevokes
<1>1. [Next]_vars => [rows' = rows /\ grants \subseteq grants' => (Verdict.allowed => Verdict'.allowed)]_vars
  <2> SUFFICES ASSUME Next, rows' = rows, grants \subseteq grants', Verdict.allowed
               PROVE  Verdict'.allowed
    BY DEF vars
  <2>1. attrs' = attrs /\ doc' = doc
    BY DEF Next, InsertRule, DeleteRule, InsertGrant, DeleteGrant
  <2>2. RuleSet' = RuleSet
    BY DEF RuleSet
  <2>3. ~HasDenyRule(RuleSet, attrs, doc.attrs) /\ ~TenantMismatch(HomeTenant, doc)
    BY DenyCloses DEF Verdict, Evaluate, Deny
  <2>4. AclCovers(grants, doc) => AclCovers(grants', doc)
    BY DEF AclCovers
  <2>5. Verdict' = Evaluate(HomeTenant, grants', RuleSet, attrs, doc)
    BY <2>1, <2>2 DEF Verdict
  <2>6. CASE AclCovers(grants', doc)
    BY <2>3, <2>5, <2>6 DEF Evaluate, Decide, Allow
  <2>7. CASE ~AclCovers(grants', doc)
    BY <2>3, <2>4, <2>5, <2>7 DEF Verdict, Evaluate, Decide
  <2> QED
    BY <2>6, <2>7
<1> QED
  BY <1>1, PTL DEF Spec, GrantNeverRevokes

-----------------------------------------------------------------------------
(* The order of the rows *)

\* one turn of the loop of evalABAC (sqlite_engine.go:117-133)
Turn(acc, rule, sAttrs, rAttrs) ==
    IF acc = Deny("abac_deny") \/ ~MatchRule(rule, sAttrs, rAttrs) THEN acc
    ELSE IF rule.effect = "deny" THEN Deny("abac_deny")
    ELSE IF rule.effect = "allow" THEN Allow("abac_allow")
    ELSE acc

LEMMA TurnType ==
    ASSUME NEW acc \in Decision, NEW rule, NEW sAttrs, NEW rAttrs
    PROVE  Turn(acc, rule, sAttrs, rAttrs) \in Decision
BY DEF Turn, Decision, Allow, Deny

\* The loop over rows in some order, as the sequence of its outcomes row by row.
LEMMA RowByRow ==
    ASSUME NEW s \in Seq(Rule), NEW sAttrs, NEW rAttrs
    PROVE  \E h \in [0..Len(s) -> Decision] :
             /\ h[0] = Deny("no_grant")
             /\ \A i \in 1..Len(s) : h[i] = Turn(h[i - 1], s[i], sAttrs, rAttrs)
             /\ EvalABACInOrder(s, sAttrs, rAttrs) = h[Len(s)]
<1> DEFINE n == Len(s)
           base == Deny("no_grant")
           F == [p \in Decision \X (1..n) |-> Turn(p[1], s[p[2]], sAttrs, rAttrs)]
<1>1. base \in Decision /\ n \in Nat /\ DOMAIN s = 1..n
  BY DEF Deny, Decision
<1>2. F \in [Decision \X (1..n) -> Decision]
  BY TurnType
<1>3. PICK g : IsLoop(g, Decision, base, n, F)
  <2> HIDE DEF n, base, F
  <2> QED
    BY <1>1, <1>2, LoopTable
<1>4. ASSUME NEW t \in SUBSET (1..n), t # {}
      PROVE  g[t] = Turn(g[t \ {Max(t)}], s[Max(t)], sAttrs, rAttrs)
  <2>1. Max(t) \in 1..n /\ t \ {Max(t)} \in SUBSET (1..n)
    BY <1>1, <1>4, MaxIsGreatest
  <2> QED
    BY <1>3, <1>4, <2>1 DEF IsLoop
<1>5. g = [t \in SUBSET (1..n) |-> IF t = {} THEN base
                                   ELSE Turn(g[t \ {Max(t)}], s[Max(t)], sAttrs, rAttrs)]
  BY <1>3, <1>4 DEF IsLoop
<1>6. PICK k : /\ k = [t \in SUBSET (1..n) |-> IF t = {} THEN base
                                   ELSE Turn(k[t \ {Max(t)}], s[Max(t)], sAttrs, rAttrs)]
               /\ EvalABACInOrder(s, sAttrs, rAttrs) = k[1..n]
  <2> HIDE DEF n
  <2> QED
    BY <1>1, <1>5 DEF EvalABACInOrder, FoldLeft, MapThenFoldSet, Turn
<1> DEFINE h == [i \in 0..n |-> k[1..i]]
           T == {i \in Nat : i <= n => h[i] \in Decision}
<1>7. h[0] = base
  BY <1>1, <1>6
<1>8. ASSUME NEW i \in 1..n
      PROVE  h[i] = Turn(h[i - 1], s[i], sAttrs, rAttrs)
  <2>1. i \in Nat /\ i # 0 /\ i - 1 \in 0..n /\ 1..i \in SUBSET (1..n)
    BY <1>1
  <2>2. k[1..i] = Turn(k[(1..i) \ {Max(1..i)}], s[Max(1..i)], sAttrs, rAttrs)
    BY <2>1, <1>6, InitialSegment
  <2>3. h[i] = k[1..i] /\ h[i - 1] = k[1..(i - 1)]
    BY <2>1
  <2>4. Max(1..i) = i /\ (1..i) \ {i} = 1..(i - 1)
    BY <2>1, InitialSegment
  <2> HIDE DEF h
  <2> QED
    BY <2>2, <2>3, <2>4
<1>9. Nat \subseteq T
  <2>1. 0 \in T
    BY <1>1, <1>7
  <2>2. ASSUME NEW i \in Nat, i \in T PROVE i + 1 \in T
    <3> SUFFICES ASSUME i + 1 <= n PROVE h[i + 1] \in Decision
      OBVIOUS
    <3>1. i + 1 \in 1..n /\ (i + 1) - 1 = i /\ i <= n
      BY <1>1
    <3>2. h[i] \in Decision
      BY <2>2, <3>1
    <3>3. h[i + 1] = Turn(h[i], s[i + 1], sAttrs, rAttrs)
      <4> HIDE DEF h
      <4> QED
        BY <1>8, <3>1
    <3> QED
      BY <3>2, <3>3, TurnType
  <2> HIDE DEF T
  <2> QED
    BY <2>1, <2>2, Induct
<1>10. h \in [0..n -> Decision]
  <2> SUFFICES ASSUME NEW i \in 0..n PROVE h[i] \in Decision
    OBVIOUS
  <2>1. i \in Nat /\ i <= n
    BY <1>1
  <2> QED
    BY <1>9, <2>1
<1>11. EvalABACInOrder(s, sAttrs, rAttrs) = h[n]
  BY <1>1, <1>6
<1> HIDE DEF h
<1> QED
  BY <1>7, <1>8, <1>10, <1>11

\* What the loop has decided after some rows: a deny among them, else an allow
\* among them, else nothing.
LEMMA LoopDecides ==
    ASSUME NEW s \in Seq(Rule), NEW sAttrs, NEW rAttrs
    PROVE  EvalABACInOrder(s, sAttrs, rAttrs) = EvalABAC(ToSet(s), sAttrs, rAttrs)
<1> DEFINE n == Len(s)
           Hit(j, effect) == s[j].effect = effect /\ MatchRule(s[j], sAttrs, rAttrs)
           Denied(i) == \E j \in 1..i : Hit(j, "deny")
           Allowed(i) == \E j \in 1..i : Hit(j, "allow")
           SoFar(i) == IF Denied(i) THEN Deny("abac_deny")
                       ELSE IF Allowed(i) THEN Allow("abac_allow")
                       ELSE Deny("no_grant")
<1>1. n \in Nat /\ DOMAIN s = 1..n
  OBVIOUS
<1>2. PICK h \in [0..n -> Decision] :
        /\ h[0] = Deny("no_grant")
        /\ \A i \in 1..n : h[i] = Turn(h[i - 1], s[i], sAttrs, rAttrs)
        /\ EvalABACInOrder(s, sAttrs, rAttrs) = h[n]
  BY RowByRow
<1> DEFINE T == {i \in Nat : i <= n => h[i] = SoFar(i)}
<1>3. 0 \in T
  BY <1>2
<1>4. ASSUME NEW i \in Nat, i \in T PROVE i + 1 \in T
  <2> SUFFICES ASSUME i + 1 <= n PROVE h[i + 1] = SoFar(i + 1)
    OBVIOUS
  <2>1. h[i + 1] = Turn(SoFar(i), s[i + 1], sAttrs, rAttrs)
    <3>1. i + 1 \in 1..n /\ (i + 1) - 1 = i /\ i <= n
      BY <1>1
    <3>2. h[i] = SoFar(i)
      BY <1>4, <3>1
    <3> HIDE DEF SoFar
    <3> QED
      BY <1>2, <3>1, <3>2
  <2>2. 1..(i + 1) = (1..i) \cup {i + 1}
    OBVIOUS
  <2>3. /\ Denied(i + 1) <=> Denied(i) \/ Hit(i + 1, "deny")
        /\ Allowed(i + 1) <=> Allowed(i) \/ Hit(i + 1, "allow")
    <3> HIDE DEF Hit
    <3> QED
      BY <2>2
  <2> HIDE DEF Denied, Allowed
  <2> QED
    BY <2>1, <2>3 DEF Turn, Allow, Deny
<1>5. n \in T
  <2> HIDE DEF T
  <2> QED
    BY <1>1, <1>3, <1>4, Induct
<1>6. /\ Denied(n) <=> HasDenyRule(ToSet(s), sAttrs, rAttrs)
      /\ Allowed(n) <=> HasAllowRule(ToSet(s), sAttrs, rAttrs)
  BY <1>1 DEF HasDenyRule, HasAllowRule, ToSet
<1>7. h[n] = SoFar(n)
  BY <1>1, <1>5
<1> HIDE DEF Denied, Allowed
<1> QED
  BY <1>2, <1>6, <1>7 DEF EvalABAC

\* A table of any length decides the same in every order of its rows, so callers
\* may speak of the set of rules (evalABAC, sqlite_engine.go:111-136).
THEOREM AnyOrder == Spec => []RowOrderIsIrrelevant
<1>1. TableOK => RowOrderIsIrrelevant
  BY LoopDecides DEF TableOK, RowOrderIsIrrelevant, RuleSet
<1> QED
  BY <1>1, TableInvariant, PTL

=============================================================================
