---------------------------- MODULE FastPathProofs ----------------------------
(***************************************************************************)
(* The parallel lookups for plans of any length, any results and any order *)
(* of completion: no goroutine outlives the request, and the request fails *)
(* exactly when a lookup did.                                              *)
(***************************************************************************)
EXTENDS FastPath, ResolutionPlanProofs

\* what a goroutine may have found, whatever the plan
Outcome == [at : DOMAIN groups \cup {0}, ok : BOOLEAN, counts : CountsType,
            cause : {"none", "contract", "store"}]

Phases == {"received", "spawning", "collecting"} \cup Ended

Shape ==
    /\ phase \in Phases
    /\ task \in [DOMAIN groups -> TaskStates]
    /\ found \in [DOMAIN groups -> Outcome]
    /\ ch \in Seq(Outcome)
    /\ collected \in Seq(Outcome)

\* Goroutines exist only between Dispatch and Join.
Idle == phase \in {"received", "short", "unsupported", "semantic"} =>
            \A i \in DOMAIN groups : task[i] = "new"

Joined == phase \in {"collecting", "replied", "failed"} =>
              \A i \in DOMAIN groups : task[i] = "done"

Delivered(i) == task[i] \in {"sent", "done"}

Waiting(r) == \E k \in DOMAIN ch : ch[k] = r

Received(r) == \E k \in DOMAIN collected : collected[k] = r

\* A result that was sent is in the channel or was received, until one that
\* failed ends the request; the channel holds nothing else, and what was
\* received is of lookups that did not fail.
Conserved ==
    /\ phase # "failed" => \A i \in DOMAIN groups :
                               Delivered(i) => Waiting(found[i]) \/ Received(found[i])
    /\ \A k \in DOMAIN ch : \E i \in DOMAIN groups : Delivered(i) /\ ch[k] = found[i]
    /\ \A k \in DOMAIN collected : collected[k].ok

Verdicts ==
    /\ phase = "replied" => \A i \in DOMAIN groups : found[i].ok
    /\ phase = "failed" => \E i \in DOMAIN groups : ~found[i].ok

PathInv == Shape /\ Idle /\ Joined /\ Conserved /\ Verdicts

-----------------------------------------------------------------------------
(* Sequences *)

\* A send adds one result and keeps the others.
LEMMA AfterAppend ==
    ASSUME NEW S, NEW s \in Seq(S), NEW e \in S, NEW t, t = Append(s, e)
    PROVE  /\ t \in Seq(S)
           /\ \A k \in DOMAIN s : k \in DOMAIN t /\ t[k] = s[k]
           /\ \E k \in DOMAIN t : t[k] = e
           /\ \A k \in DOMAIN t : t[k] = e \/ \E j \in DOMAIN s : t[k] = s[j]
<1>1. t \in Seq(S) /\ Len(t) = Len(s) + 1
  OBVIOUS
<1>2. t[Len(s) + 1] = e /\ Len(s) + 1 \in DOMAIN t
  BY <1>1
<1>3. ASSUME NEW k \in DOMAIN s PROVE k \in DOMAIN t /\ t[k] = s[k]
  BY <1>1
<1>4. ASSUME NEW k \in DOMAIN t
      PROVE  k = Len(s) + 1 \/ k \in DOMAIN s
  BY <1>1
<1> QED
  BY <1>1, <1>2, <1>3, <1>4

\* A receive takes the first result and keeps the others.
LEMMA AfterTail ==
    ASSUME NEW S, NEW s \in Seq(S), s # <<>>
    PROVE  /\ Tail(s) \in Seq(S)
           /\ Head(s) \in S /\ 1 \in DOMAIN s /\ Head(s) = s[1]
           /\ \A k \in DOMAIN Tail(s) : k + 1 \in DOMAIN s /\ Tail(s)[k] = s[k + 1]
           /\ \A k \in DOMAIN s : k = 1 \/ (k - 1 \in DOMAIN Tail(s) /\ Tail(s)[k - 1] = s[k])
<1>1. Tail(s) \in Seq(S) /\ Len(Tail(s)) = Len(s) - 1 /\ Len(s) > 0
  OBVIOUS
<1>2. Head(s) \in S /\ 1 \in DOMAIN s /\ Head(s) = s[1]
  BY <1>1
<1>3. ASSUME NEW k \in DOMAIN Tail(s) PROVE k + 1 \in DOMAIN s /\ Tail(s)[k] = s[k + 1]
  BY <1>1
<1>4. ASSUME NEW k \in DOMAIN s
      PROVE  k = 1 \/ (k - 1 \in DOMAIN Tail(s) /\ Tail(s)[k - 1] = s[k])
  BY <1>1
<1> QED
  BY <1>1, <1>2, <1>3, <1>4

-----------------------------------------------------------------------------
(* Totals *)

\* one turn of the loop
Added(acc, r) == [authorized |-> acc.authorized + r.counts.authorized,
                  hidden     |-> acc.hidden + r.counts.hidden]

\* records with counts
Counted(R) == \A r \in R : r.counts \in CountsType

LEMMA AddedType ==
    ASSUME NEW acc \in CountsType, NEW r, r.counts \in CountsType
    PROVE  Added(acc, r) \in CountsType
BY DEF Added, CountsType

\* Whose turn it is does not matter.
LEMMA AddedSwap ==
    ASSUME NEW acc \in CountsType, NEW r, r.counts \in CountsType, NEW q, q.counts \in CountsType
    PROVE  Added(Added(acc, r), q) = Added(Added(acc, q), r)
BY DEF Added, CountsType

\* g tells what the results with the indices of a set add up to
IsSum(g, s) ==
    /\ g \in [SUBSET (1..Len(s)) -> CountsType]
    /\ g[{}] = NoCounts
    /\ \A t \in SUBSET (1..Len(s)) : t # {} => g[t] = Added(g[t \ {Max(t)}], s[Max(t)])
    /\ Totals(s) = g[1..Len(s)]

LEMMA Summing ==
    ASSUME NEW R, Counted(R), NEW s \in Seq(R)
    PROVE  \E g : IsSum(g, s)
<1> DEFINE n == Len(s)
           F == [p \in CountsType \X (1..n) |-> Added(p[1], s[p[2]])]
<1>1. n \in Nat /\ DOMAIN s = 1..n /\ \A i \in 1..n : s[i].counts \in CountsType
  BY DEF Counted
<1>2. NoCounts \in CountsType
  BY DEF NoCounts, CountsType
<1>3. F \in [CountsType \X (1..n) -> CountsType]
  BY <1>1, AddedType
<1>4. PICK g : IsLoop(g, CountsType, NoCounts, n, F)
  <2> HIDE DEF n, F
  <2> QED
    BY <1>1, <1>2, <1>3, LoopTable
<1>5. ASSUME NEW t \in SUBSET (1..n), t # {}
      PROVE  g[t] = Added(g[t \ {Max(t)}], s[Max(t)])
  <2>1. Max(t) \in 1..n /\ t \ {Max(t)} \in SUBSET (1..n)
    BY <1>1, <1>5, MaxIsGreatest
  <2> QED
    BY <1>4, <1>5, <2>1 DEF IsLoop
<1>6. g = [t \in SUBSET (1..n) |-> IF t = {} THEN NoCounts ELSE Added(g[t \ {Max(t)}], s[Max(t)])]
  BY <1>4, <1>5 DEF IsLoop
<1>7. PICK k : /\ k = [t \in SUBSET (1..n) |-> IF t = {} THEN NoCounts
                                               ELSE Added(k[t \ {Max(t)}], s[Max(t)])]
               /\ Totals(s) = k[1..n]
  <2> HIDE DEF n
  <2> QED
    BY <1>1, <1>6 DEF Totals, FoldLeft, MapThenFoldSet, Added
<1> DEFINE Agree(m) == \A t \in SUBSET (1..m) : k[t] = g[t]
           T == {m \in Nat : m <= n => Agree(m)}
<1>8. Nat \subseteq T
  <2>1. 0 \in T
    <3>1. k[{}] = g[{}]
      BY <1>4, <1>7 DEF IsLoop
    <3>2. \A t \in SUBSET (1..0) : t = {}
      OBVIOUS
    <3> QED
      BY <3>1, <3>2
  <2>2. ASSUME NEW m \in Nat, m \in T PROVE m + 1 \in T
    <3> SUFFICES ASSUME m + 1 <= n PROVE Agree(m + 1)
      <4> HIDE DEF Agree
      <4> QED
        OBVIOUS
    <3> SUFFICES ASSUME NEW t \in SUBSET (1..(m + 1)) PROVE k[t] = g[t]
      OBVIOUS
    <3>1. CASE t = {}
      BY <1>4, <1>7, <3>1 DEF IsLoop
    <3>2. CASE t # {}
      <4>0. m + 1 \in Nat
        OBVIOUS
      <4>1. Max(t) \in t /\ \A x \in t : x <= Max(t)
        BY <3>2, <4>0, MaxIsGreatest
      <4>2. t \ {Max(t)} \in SUBSET (1..m)
        <5>1. ASSUME NEW x \in t, x # Max(t) PROVE x \in 1..m
          <6>1. x <= Max(t) /\ Max(t) \in 1..(m + 1) /\ x \in 1..(m + 1)
            BY <4>1
          <6> QED
            BY <5>1, <6>1
        <5> QED
          BY <5>1
      <4>3. k[t \ {Max(t)}] = g[t \ {Max(t)}]
        BY <1>1, <2>2, <4>2
      <4>4. t \in SUBSET (1..n)
        BY <1>1
      <4>5. k[t] = Added(k[t \ {Max(t)}], s[Max(t)]) /\ g[t] = Added(g[t \ {Max(t)}], s[Max(t)])
        BY <1>5, <1>7, <3>2, <4>4
      <4> QED
        BY <4>3, <4>5
    <3> QED
      BY <3>1, <3>2
  <2> HIDE DEF T
  <2> QED
    BY <2>1, <2>2, Induct
<1>9. k[1..n] = g[1..n]
  BY <1>1, <1>8
<1>10. Totals(s) = g[1..n]
  BY <1>7, <1>9
<1> QED
  BY <1>4, <1>5, <1>10 DEF IsSum, IsLoop

\* Any index may be taken last.
LEMMA AnyLast ==
    ASSUME NEW R, Counted(R), NEW s \in Seq(R), NEW g, IsSum(g, s),
           NEW t \in SUBSET (1..Len(s)), NEW x \in t
    PROVE  g[t] = Added(g[t \ {x}], s[x])
<1> DEFINE n == Len(s)
           Swaps(m) == \A u \in SUBSET (1..m) : \A y \in u : g[u] = Added(g[u \ {y}], s[y])
           T == {m \in Nat : m <= n => Swaps(m)}
<1>1. n \in Nat /\ \A i \in 1..n : s[i].counts \in CountsType
  BY DEF Counted
<1>2. 0 \in T
  OBVIOUS
<1>3. ASSUME NEW m \in Nat, m \in T PROVE m + 1 \in T
  <2> SUFFICES ASSUME m + 1 <= n PROVE Swaps(m + 1)
    <3> HIDE DEF Swaps
    <3> QED
      OBVIOUS
  <2> SUFFICES ASSUME NEW u \in SUBSET (1..(m + 1)), NEW y \in u
               PROVE  g[u] = Added(g[u \ {y}], s[y])
    OBVIOUS
  <2>1. Swaps(m) /\ 1..(m + 1) \subseteq 1..n /\ m + 1 \in 1..n
    <3>1. m <= n /\ 1..(m + 1) \subseteq 1..n /\ m + 1 \in 1..n
      BY <1>1
    <3> HIDE DEF Swaps
    <3> QED
      BY <1>3, <3>1
  <2> HIDE DEF T
  <2>2. ASSUME NEW v \in SUBSET (1..(m + 1)), m + 1 \in v
        PROVE  /\ g[v] = Added(g[v \ {m + 1}], s[m + 1])
               /\ v \ {m + 1} \in SUBSET (1..m)
    <3>0. m + 1 \in Nat /\ v # {}
      BY <2>2
    <3>1. Max(v) \in v /\ \A z \in v : z <= Max(v)
      BY <3>0, MaxIsGreatest
    <3>2. Max(v) = m + 1
      <4>1. Max(v) \in 1..(m + 1) /\ m + 1 <= Max(v)
        BY <2>2, <3>1
      <4> QED
        BY <4>1
    <3>3. v \in SUBSET (1..n) /\ v # {}
      BY <2>1, <2>2
    <3>4. g[v] = Added(g[v \ {Max(v)}], s[Max(v)])
      BY <3>3 DEF IsSum
    <3>5. v \ {m + 1} \in SUBSET (1..m)
      OBVIOUS
    <3> QED
      BY <3>2, <3>4, <3>5
  <2>3. CASE m + 1 \notin u
    <3>1. u \in SUBSET (1..m)
      BY <2>3
    <3> QED
      BY <2>1, <3>1
  <2>4. CASE m + 1 \in u /\ y = m + 1
    BY <2>2, <2>4
  <2>5. CASE m + 1 \in u /\ y # m + 1
    <3> DEFINE w == u \ {m + 1}
               b == (u \ {y}) \ {m + 1}
    <3>1. g[u] = Added(g[w], s[m + 1]) /\ w \in SUBSET (1..m)
      BY <2>2, <2>5
    <3>2. g[w] = Added(g[w \ {y}], s[y]) /\ w \ {y} = b
      BY <2>1, <2>5, <3>1
    <3>3. g[u \ {y}] = Added(g[b], s[m + 1])
      <4>1. u \ {y} \in SUBSET (1..(m + 1)) /\ m + 1 \in u \ {y}
        BY <2>5
      <4> QED
        BY <2>2, <4>1
    <3>4. g[b] \in CountsType
      <4>1. b \in SUBSET (1..n)
        BY <2>1
      <4> QED
        BY <4>1 DEF IsSum
    <3>5. s[m + 1].counts \in CountsType /\ s[y].counts \in CountsType
      BY <1>1, <2>1
    <3>6. g[u] = Added(Added(g[b], s[y]), s[m + 1])
      BY <3>1, <3>2
    <3>7. Added(Added(g[b], s[y]), s[m + 1]) = Added(Added(g[b], s[m + 1]), s[y])
      <4> HIDE DEF b
      <4> QED
        BY <3>4, <3>5, AddedSwap
    <3> HIDE DEF w, b
    <3> QED
      BY <3>3, <3>6, <3>7
  <2> QED
    BY <2>3, <2>4, <2>5
<1>4. n \in T
  <2> HIDE DEF T
  <2> QED
    BY <1>1, <1>2, <1>3, Induct
<1> QED
  BY <1>1, <1>4

\* p tells where in s each element of t is
Permutes(p, s, t) ==
    /\ \A k \in DOMAIN t : p[k] \in DOMAIN s /\ t[k] = s[p[k]]
    /\ \A j, k \in DOMAIN t : p[j] = p[k] => j = k
    /\ \A i \in DOMAIN s : \E k \in DOMAIN t : p[k] = i

\* In whatever order the same results are added up, the totals are the same.
LEMMA TotalsInAnyOrder ==
    ASSUME NEW R, Counted(R), NEW s \in Seq(R), NEW t \in Seq(R),
           Len(s) = Len(t), NEW p, Permutes(p, s, t)
    PROVE  Totals(t) = Totals(s)
<1> DEFINE n == Len(s)
           P(i) == {p[k] : k \in 1..i}
<1>1. n \in Nat /\ DOMAIN s = 1..n /\ DOMAIN t = 1..n
  OBVIOUS
<1>2. PICK g : IsSum(g, s)
  BY Summing
<1>3. PICK h : IsSum(h, t)
  BY Summing
<1>9. \A u \in SUBSET (1..n) : \A y \in u : g[u] = Added(g[u \ {y}], s[y])
  BY <1>2, AnyLast
<1> DEFINE T == {i \in Nat : i <= n => h[1..i] = g[P(i)]}
<1>4. 0 \in T
  <2>1. 1..0 = {} /\ P(0) = {}
    OBVIOUS
  <2>2. h[1..0] = g[P(0)]
    BY <1>2, <1>3, <2>1 DEF IsSum
  <2> QED
    BY <2>2
<1>5. ASSUME NEW i \in Nat, i \in T PROVE i + 1 \in T
  <2> SUFFICES ASSUME i + 1 <= n PROVE h[1..(i + 1)] = g[P(i + 1)]
    OBVIOUS
  <2> DEFINE x == p[i + 1]
  <2>1. h[1..i] = g[P(i)] /\ i + 1 \in 1..n /\ 1..i \subseteq 1..n
    BY <1>1, <1>5
  <2>2. h[1..(i + 1)] = Added(h[1..i], t[i + 1])
    <3>1. 1..(i + 1) # {} /\ Max(1..(i + 1)) = i + 1 /\ (1..(i + 1)) \ {i + 1} = 1..((i + 1) - 1)
      BY InitialSegment
    <3>2. 1..(i + 1) \in SUBSET (1..Len(t)) /\ (i + 1) - 1 = i
      BY <1>1, <2>1
    <3>3. h[1..(i + 1)] = Added(h[(1..(i + 1)) \ {Max(1..(i + 1))}], t[Max(1..(i + 1))])
      BY <1>3, <3>1, <3>2 DEF IsSum
    <3>4. (1..(i + 1)) \ {Max(1..(i + 1))} = 1..i
      BY <3>1, <3>2
    <3> QED
      BY <3>1, <3>3, <3>4
  <2>3. x \notin P(i)
    <3> SUFFICES ASSUME NEW k \in 1..i, p[k] = x PROVE FALSE
      OBVIOUS
    <3>1. k \in DOMAIN t /\ i + 1 \in DOMAIN t /\ k # i + 1
      BY <1>1, <2>1
    <3> QED
      BY <3>1 DEF Permutes
  <2>4. P(i + 1) = P(i) \cup {x}
    OBVIOUS
  <2>5. P(i + 1) \in SUBSET (1..n) /\ x \in P(i + 1) /\ P(i + 1) \ {x} = P(i)
    <3>1. ASSUME NEW k \in 1..(i + 1) PROVE p[k] \in 1..n
      <4>1. k \in DOMAIN t
        BY <1>1, <2>1
      <4> QED
        BY <1>1, <4>1 DEF Permutes
    <3>2. P(i + 1) \in SUBSET (1..n)
      BY <3>1
    <3> HIDE DEF P, x
    <3> QED
      BY <2>3, <2>4, <3>2
  <2>6. t[i + 1] = s[x]
    BY <1>1, <2>1 DEF Permutes
  <2> HIDE DEF x, P
  <2>7. g[P(i + 1)] = Added(g[P(i + 1) \ {x}], s[x])
    BY <1>9, <2>5
  <2> QED
    BY <2>1, <2>2, <2>5, <2>6, <2>7
<1>6. n \in T
  <2> HIDE DEF T
  <2> QED
    BY <1>1, <1>4, <1>5, Induct
<1>7. P(n) = 1..n
  <2>1. ASSUME NEW i \in 1..n PROVE i \in P(n)
    BY <1>1 DEF Permutes
  <2>2. ASSUME NEW k \in 1..n PROVE p[k] \in 1..n
    BY <1>1 DEF Permutes
  <2>3. 1..n \subseteq P(n)
    <3> HIDE DEF P
    <3> QED
      BY <2>1
  <2>4. P(n) \subseteq 1..n
    BY <2>2
  <2> HIDE DEF P
  <2> QED
    BY <2>3, <2>4
<1>8. h[1..n] = g[1..n]
  <2>1. h[1..n] = g[P(n)]
    BY <1>1, <1>6
  <2> HIDE DEF P
  <2> QED
    BY <1>7, <2>1
<1> QED
  BY <1>2, <1>3, <1>8 DEF IsSum

\* Totals are of the type of counts, and are zero where every count is.
LEMMA TotalsType ==
    ASSUME NEW R, Counted(R), NEW s \in Seq(R)
    PROVE  /\ Totals(s) \in CountsType
           /\ Totals(s).authorized = 0 <=> \A i \in DOMAIN s : s[i].counts.authorized = 0
           /\ Totals(s).hidden = 0 <=> \A i \in DOMAIN s : s[i].counts.hidden = 0
<1> DEFINE n == Len(s)
<1>1. n \in Nat /\ DOMAIN s = 1..n /\ \A i \in 1..n : s[i].counts \in CountsType
  BY DEF Counted
<1>2. PICK g : IsSum(g, s)
  BY Summing
<1> DEFINE Zero(i) ==
             /\ g[1..i].authorized = 0 <=> \A j \in 1..i : s[j].counts.authorized = 0
             /\ g[1..i].hidden = 0 <=> \A j \in 1..i : s[j].counts.hidden = 0
           T == {i \in Nat : i <= n => Zero(i)}
<1>3. 0 \in T
  <2>1. 1..0 = {} /\ g[1..0] = NoCounts
    BY <1>2 DEF IsSum
  <2> QED
    BY <2>1 DEF NoCounts
<1>4. ASSUME NEW i \in Nat, i \in T PROVE i + 1 \in T
  <2> SUFFICES ASSUME i + 1 <= n PROVE Zero(i + 1)
    OBVIOUS
  <2>1. Zero(i) /\ i + 1 \in 1..n /\ 1..i \in SUBSET (1..n) /\ 1..(i + 1) \in SUBSET (1..n)
    BY <1>1, <1>4
  <2>2. g[1..(i + 1)] = Added(g[1..i], s[i + 1])
    <3>1. 1..(i + 1) # {} /\ Max(1..(i + 1)) = i + 1 /\ (1..(i + 1)) \ {i + 1} = 1..((i + 1) - 1)
      BY InitialSegment
    <3>2. (i + 1) - 1 = i
      OBVIOUS
    <3>3. g[1..(i + 1)] = Added(g[(1..(i + 1)) \ {Max(1..(i + 1))}], s[Max(1..(i + 1))])
      BY <1>2, <2>1, <3>1 DEF IsSum
    <3>4. (1..(i + 1)) \ {Max(1..(i + 1))} = 1..i
      BY <3>1, <3>2
    <3> QED
      BY <3>1, <3>3, <3>4
  <2>3. g[1..i] \in CountsType /\ s[i + 1].counts \in CountsType
    BY <1>1, <1>2, <2>1 DEF IsSum
  <2>4. /\ g[1..(i + 1)].authorized = g[1..i].authorized + s[i + 1].counts.authorized
        /\ g[1..(i + 1)].hidden = g[1..i].hidden + s[i + 1].counts.hidden
        /\ g[1..i].authorized \in Nat /\ s[i + 1].counts.authorized \in Nat
        /\ g[1..i].hidden \in Nat /\ s[i + 1].counts.hidden \in Nat
    BY <2>2, <2>3 DEF Added, CountsType
  <2>5. 1..(i + 1) = (1..i) \cup {i + 1}
    OBVIOUS
  <2> DEFINE a == g[1..i].authorized   b == s[i + 1].counts.authorized
             c == g[1..i].hidden       d == s[i + 1].counts.hidden
  <2>6. /\ g[1..(i + 1)].authorized = 0 <=> (a = 0 /\ b = 0)
        /\ g[1..(i + 1)].hidden = 0 <=> (c = 0 /\ d = 0)
    <3> DEFINE e == g[1..(i + 1)].authorized   f == g[1..(i + 1)].hidden
    <3>1. /\ e = a + b /\ f = c + d
          /\ a \in Nat /\ b \in Nat /\ c \in Nat /\ d \in Nat
      BY <2>4
    <3> HIDE DEF a, b, c, d, e, f
    <3>2. (e = 0 <=> (a = 0 /\ b = 0)) /\ (f = 0 <=> (c = 0 /\ d = 0))
      BY <3>1
    <3> QED
      BY <3>2 DEF e, f
  <2> QED
    BY <2>1, <2>5, <2>6
<1>5. n \in T
  <2> HIDE DEF T
  <2> QED
    BY <1>1, <1>3, <1>4, Induct
<1>6. Totals(s) = g[1..n] /\ g[1..n] \in CountsType
  BY <1>2 DEF IsSum
<1> QED
  BY <1>1, <1>5, <1>6

-----------------------------------------------------------------------------
(* The steps *)

\* Nothing has been looked up before the route is chosen.
LEMMA InitInv == Init => PathInv
<1> SUFFICES ASSUME Init PROVE PathInv
  OBVIOUS
<1> USE DEF Init
<1>1. NoResult \in Outcome
  BY DEF NoResult, NoCounts, Outcome, CountsType
<1>2. Shape
  BY <1>1 DEF Shape, Phases, TaskStates
<1>3. Idle /\ Joined /\ Verdicts
  BY DEF Idle, Joined, Verdicts
<1>4. Conserved
  BY DEF Conserved, Delivered
<1> QED
  BY <1>2, <1>3, <1>4 DEF PathInv

\* The steps of the handler that move on and touch no goroutine.
LEMMA RouteInv == PathInv /\ (Ignore \/ Refuse \/ Semantic \/ Dispatch \/ Join) => PathInv'
<1> SUFFICES ASSUME PathInv, Ignore \/ Refuse \/ Semantic \/ Dispatch \/ Join PROVE PathInv'
  OBVIOUS
<1> USE DEF PathInv
<1>1. /\ UNCHANGED <<groups, task, found, ch, collected>>
      /\ \/ phase = "received" /\ phase' \in {"short", "unsupported", "semantic", "spawning"}
         \/ phase = "spawning" /\ phase' = "collecting"
            /\ \A i \in DOMAIN groups : task[i] = "done"
  BY DEF Ignore, Refuse, Semantic, Dispatch, Join, End, Goto
<1>2. Shape'
  BY <1>1 DEF Shape, Phases, Ended, Outcome
<1>3. Idle' /\ Joined' /\ Verdicts'
  BY <1>1 DEF Idle, Joined, Verdicts
<1>4. Conserved'
  BY <1>1 DEF Conserved, Delivered, Waiting, Received
<1> QED
  BY <1>2, <1>3, <1>4

\* A goroutine that moves on is neither new nor done, so it runs while the
\* handler waits; only a spawn starts one.
LEMMA Running ==
    ASSUME PathInv, NEW i, NEW from \in {"started", "found", "sent"}, NEW to,
           Advance(i, from, to)
    PROVE  i \in DOMAIN groups /\ phase = "spawning" /\ task[i] = from
BY DEF PathInv, Shape, Phases, Ended, Idle, Joined, Advance

\* Spawn and Done change where a goroutine is and nothing else.
LEMMA SpawnDoneInv == ASSUME PathInv, NEW i, Spawn(i) \/ Done(i) PROVE PathInv'
<1> USE DEF PathInv
<1>1. /\ i \in DOMAIN groups /\ phase = "spawning"
      /\ UNCHANGED <<phase, groups, found, ch, collected>>
      /\ \/ task[i] = "new" /\ task' = [task EXCEPT ![i] = "started"]
         \/ task[i] = "sent" /\ task' = [task EXCEPT ![i] = "done"]
  BY Running DEF Spawn, Done, Advance
<1>2. Shape'
  BY <1>1 DEF Shape, TaskStates, Outcome
<1>3. Idle' /\ Joined' /\ Verdicts'
  BY <1>1 DEF Idle, Joined, Verdicts
<1>4. \A j \in DOMAIN groups : Delivered(j)' <=> Delivered(j)
  BY <1>1 DEF Shape, Delivered
<1>5. Conserved'
  BY <1>1, <1>4 DEF Conserved, Waiting, Received
<1> QED
  BY <1>2, <1>3, <1>5

\* A lookup that returns has not sent anything yet.
LEMMA SearchInv == ASSUME PathInv, NEW i, Search(i) PROVE PathInv'
<1> USE DEF PathInv
<1>1. /\ i \in DOMAIN groups /\ phase = "spawning" /\ task[i] = "started"
      /\ UNCHANGED <<phase, groups, ch, collected>>
      /\ task' = [task EXCEPT ![i] = "found"]
  BY Running DEF Search, Advance
<1>2. PICK r \in Outcome : found' = [found EXCEPT ![i] = r]
  <2>1. [NoResult EXCEPT !.at = i, !.cause = "contract"] \in Outcome
    BY <1>1 DEF NoResult, NoCounts, Outcome, CountsType
  <2>2. [NoResult EXCEPT !.at = i, !.cause = "store"] \in Outcome
    BY <1>1 DEF NoResult, NoCounts, Outcome, CountsType
  <2>3. \A n \in Counts : [at |-> i, ok |-> TRUE, counts |-> n, cause |-> "none"] \in Outcome
    BY <1>1, FastPathConstants DEF Outcome
  <2> QED
    BY <2>1, <2>2, <2>3 DEF Search
<1>3. Shape'
  BY <1>1, <1>2 DEF Shape, TaskStates, Outcome
<1>4. Idle' /\ Joined' /\ Verdicts'
  BY <1>1 DEF Idle, Joined, Verdicts
<1>5. \A j \in DOMAIN groups : /\ Delivered(j)' <=> Delivered(j)
                               /\ Delivered(j) => found'[j] = found[j]
  BY <1>1, <1>2 DEF Shape, Delivered
<1>6. Conserved'
  BY <1>1, <1>5 DEF Conserved, Waiting, Received
<1> QED
  BY <1>3, <1>4, <1>6

\* What is sent is in the channel, and nothing there is lost.
LEMMA SendInv == ASSUME PathInv, NEW i, Send(i) PROVE PathInv'
<1> USE DEF PathInv
<1>1. /\ i \in DOMAIN groups /\ phase = "spawning" /\ task[i] = "found"
      /\ UNCHANGED <<phase, groups, found, collected>>
      /\ task' = [task EXCEPT ![i] = "sent"]
      /\ ch' = Append(ch, found[i])
  BY Running DEF Send, Advance
<1>2. found[i] \in Outcome
  BY <1>1 DEF Shape
<1>3. /\ ch' \in Seq(Outcome)
      /\ \A k \in DOMAIN ch : k \in DOMAIN ch' /\ ch'[k] = ch[k]
      /\ \E k \in DOMAIN ch' : ch'[k] = found[i]
      /\ \A k \in DOMAIN ch' : ch'[k] = found[i] \/ \E j \in DOMAIN ch : ch'[k] = ch[j]
  <2>1. ch \in Seq(Outcome)
    BY DEF Shape
  <2>2. ch' = Append(ch, found[i])
    BY <1>1
  <2> QED
    BY <1>2, <2>1, <2>2, AfterAppend
<1>4. Shape'
  BY <1>1, <1>3 DEF Shape, TaskStates, Outcome
<1>5. Idle' /\ Joined' /\ Verdicts'
  BY <1>1 DEF Idle, Joined, Verdicts
<1>6. \A j \in DOMAIN groups : Delivered(j)' <=> (Delivered(j) \/ j = i)
  BY <1>1 DEF Shape, Delivered
<1>7. \A j \in DOMAIN groups : Delivered(j)' => Waiting(found[j])' \/ Received(found[j])'
  BY <1>1, <1>3, <1>6 DEF Conserved, Waiting, Received
<1>8. \A k \in DOMAIN ch' : \E j \in DOMAIN groups : Delivered(j)' /\ ch'[k] = found[j]
  BY <1>1, <1>3, <1>6 DEF Conserved
<1>9. Conserved'
  BY <1>1, <1>7, <1>8 DEF Conserved
<1> QED
  BY <1>4, <1>5, <1>9

\* A result received moves from the channel to those collected.
LEMMA CollectInv == PathInv /\ Collect => PathInv'
<1> SUFFICES ASSUME PathInv, Collect PROVE PathInv'
  OBVIOUS
<1> USE DEF PathInv
<1>1. /\ phase = "collecting" /\ ch # <<>> /\ Head(ch).ok
      /\ ch' = Tail(ch) /\ collected' = Append(collected, Head(ch))
      /\ UNCHANGED <<phase, groups, task, found>>
  BY DEF Collect
<1>2. /\ ch' \in Seq(Outcome) /\ Head(ch) \in Outcome /\ Head(ch) = ch[1]
      /\ \A k \in DOMAIN ch' : k + 1 \in DOMAIN ch /\ ch'[k] = ch[k + 1]
      /\ \A k \in DOMAIN ch : k = 1 \/ (k - 1 \in DOMAIN ch' /\ ch'[k - 1] = ch[k])
  BY <1>1, AfterTail DEF Shape
<1>3. /\ collected' \in Seq(Outcome)
      /\ \A k \in DOMAIN collected : k \in DOMAIN collected' /\ collected'[k] = collected[k]
      /\ \E k \in DOMAIN collected' : collected'[k] = Head(ch)
      /\ \A k \in DOMAIN collected' :
           collected'[k] = Head(ch) \/ \E j \in DOMAIN collected : collected'[k] = collected[j]
  <2>1. collected \in Seq(Outcome) /\ Head(ch) \in Outcome
    BY <1>2 DEF Shape
  <2>2. collected' = Append(collected, Head(ch))
    BY <1>1
  <2> QED
    BY <2>1, <2>2, AfterAppend
<1>4. Shape'
  BY <1>1, <1>2, <1>3 DEF Shape, Outcome
<1>5. Idle' /\ Joined' /\ Verdicts'
  BY <1>1 DEF Idle, Joined, Verdicts
<1>6. ASSUME NEW j \in DOMAIN groups, Delivered(j)
      PROVE  Waiting(found[j])' \/ Received(found[j])'
  <2>1. CASE Received(found[j])
    BY <1>1, <1>3, <2>1 DEF Received
  <2>2. ASSUME NEW k \in DOMAIN ch, ch[k] = found[j]
        PROVE  Waiting(found[j])' \/ Received(found[j])'
    <3>1. CASE k = 1
      BY <1>1, <1>2, <1>3, <2>2, <3>1 DEF Received
    <3>2. CASE k # 1
      <4>1. k - 1 \in DOMAIN ch' /\ ch'[k - 1] = found[j]
        BY <1>2, <2>2, <3>2
      <4> QED
        BY <1>1, <4>1 DEF Waiting
    <3> QED
      BY <3>1, <3>2
  <2> QED
    BY <1>1, <1>6, <2>1, <2>2 DEF Conserved, Waiting
<1>7. Conserved'
  <2>1. \A k \in DOMAIN ch' : \E j \in DOMAIN groups' : Delivered(j)' /\ ch'[k] = found'[j]
    BY <1>1, <1>2 DEF Conserved, Delivered
  <2>2. \A k \in DOMAIN collected' : collected'[k].ok
    BY <1>1, <1>3 DEF Conserved
  <2> QED
    BY <1>1, <1>6, <2>1, <2>2 DEF Conserved, Delivered
<1> QED
  BY <1>4, <1>5, <1>7

\* A result that failed is that of some lookup.
LEMMA AbortInv == PathInv /\ Abort => PathInv'
<1> SUFFICES ASSUME PathInv, Abort PROVE PathInv'
  OBVIOUS
<1> USE DEF PathInv
<1>1. /\ phase = "collecting" /\ phase' = "failed" /\ ch # <<>> /\ ~Head(ch).ok
      /\ ch' = Tail(ch)
      /\ UNCHANGED <<groups, task, found, collected>>
  BY DEF Abort, Goto
<1>2. /\ ch' \in Seq(Outcome) /\ 1 \in DOMAIN ch /\ Head(ch) = ch[1]
      /\ \A k \in DOMAIN ch' : k + 1 \in DOMAIN ch /\ ch'[k] = ch[k + 1]
  BY <1>1, AfterTail DEF Shape
<1>3. \E i \in DOMAIN groups : ~found[i].ok
  BY <1>1, <1>2 DEF Conserved
<1>4. Shape'
  BY <1>1, <1>2 DEF Shape, Phases, Ended, Outcome
<1>5. Idle' /\ Joined' /\ Verdicts'
  BY <1>1, <1>3 DEF Idle, Joined, Verdicts
<1>6. Conserved'
  BY <1>1, <1>2 DEF Conserved, Delivered
<1> QED
  BY <1>4, <1>5, <1>6

\* Once the channel is empty every lookup was received, and none failed.
LEMMA ReplyInv == PathInv /\ Reply => PathInv'
<1> SUFFICES ASSUME PathInv, Reply PROVE PathInv'
  OBVIOUS
<1> USE DEF PathInv
<1>1. /\ phase = "collecting" /\ phase' = "replied" /\ ch = <<>>
      /\ UNCHANGED <<groups, task, found, ch, collected>>
  BY DEF Reply, Goto
<1>2. \A i \in DOMAIN groups : found[i].ok
  BY <1>1 DEF Joined, Conserved, Delivered, Waiting, Received
<1>3. Shape'
  BY <1>1 DEF Shape, Phases, Ended, Outcome
<1>4. Idle' /\ Joined' /\ Verdicts'
  BY <1>1, <1>2 DEF Idle, Joined, Verdicts
<1>5. Conserved'
  BY <1>1 DEF Conserved, Delivered, Waiting, Received
<1> QED
  BY <1>3, <1>4, <1>5

\* Nothing happens.
LEMMA StutterInv == PathInv /\ UNCHANGED vars => PathInv'
BY DEF PathInv, vars, Shape, Outcome, Idle, Joined, Conserved, Delivered, Waiting, Received, Verdicts

-----------------------------------------------------------------------------
(* Each lookup once *)

\* The plan is that of the message.
Planned ==
    /\ message \in Messages /\ hint \in Hints /\ version \in Versions
    /\ groups = Plan(message, hint)

\* what has come in is what a lookup found that sent it
Entered(results) ==
    \A k \in DOMAIN results :
        /\ results[k].at \in DOMAIN groups
        /\ Delivered(results[k].at)
        /\ results[k] = found[results[k].at]

Once(results) == \A j, k \in DOMAIN results : results[j].at = results[k].at => j = k

\* No lookup is twice among the results on their way and those received, though
\* they carry no index.
Arrivals ==
    /\ \A i \in DOMAIN groups : task[i] \in {"found", "sent", "done"} => found[i].at = i
    /\ Entered(ch) /\ Entered(collected)
    /\ Once(ch) /\ Once(collected)
    /\ \A j \in DOMAIN ch, k \in DOMAIN collected : ch[j].at # collected[k].at

\* The response is made of what was received, when the channel is empty.
Told ==
    /\ phase # "replied" => reply = NoReply
    /\ phase = "replied" =>
          /\ ch = <<>>
          /\ reply = [totals |-> Totals(collected), reason |-> Reason(Totals(collected))]

ArrivalInv == PathInv /\ Planned /\ Arrivals /\ Told

LEMMA ArrivalStart == Init => ArrivalInv
<1> SUFFICES ASSUME Init PROVE ArrivalInv
  OBVIOUS
<1>1. PathInv
  BY InitInv
<1>2. Planned /\ Told
  BY DEF Init, Planned, Told
<1>3. Arrivals
  BY DEF Init, Arrivals, Entered, Once
<1> QED
  BY <1>1, <1>2, <1>3 DEF ArrivalInv

\* The payload and the plan are not touched, and the response only at the end.
LEMMA PlannedStep == Planned /\ [Next]_vars => Planned'
BY DEF Planned, Next, Handler, Task, Ignore, Refuse, Semantic, End, Dispatch, Spawn, Join,
       Collect, Abort, Reply, Search, Send, Done, payload, vars

LEMMA ToldStep == PathInv /\ Told /\ [Next]_vars => Told'
<1> SUFFICES ASSUME PathInv, Told, [Next]_vars PROVE Told'
  OBVIOUS
<1>1. CASE Reply
  BY <1>1 DEF Told, Reply, Goto
<1>2. CASE Abort
  BY <1>2 DEF Told, Abort, Goto
<1>3. CASE Collect
  BY <1>3 DEF Told, Collect
<1>4. CASE Ignore \/ Refuse \/ Semantic \/ Dispatch \/ Join
  BY <1>4 DEF Told, Ignore, Refuse, Semantic, End, Dispatch, Join, Goto
<1>5. CASE \E i \in DOMAIN groups : Spawn(i)
  BY <1>5 DEF Told, Spawn
<1>6. CASE \E i \in DOMAIN groups : Search(i) \/ Done(i)
  BY <1>6 DEF Told, Search, Done
<1>7. ASSUME NEW i \in DOMAIN groups, Send(i) PROVE Told'
  <2>1. phase = "spawning"
    BY <1>7, Running DEF Send
  <2> QED
    BY <1>7, <2>1 DEF Told, Send
<1>8. CASE UNCHANGED vars
  BY <1>8 DEF Told, vars
<1> QED
  BY <1>1, <1>2, <1>3, <1>4, <1>5, <1>6, <1>7, <1>8 DEF Next, Handler, Task

\* What a lookup found does not change once it is sent.
LEMMA StillEntered ==
    ASSUME NEW results, Entered(results), UNCHANGED groups,
           \A i \in DOMAIN groups : Delivered(i) => Delivered(i)' /\ found'[i] = found[i]
    PROVE  \A k \in DOMAIN results :
              /\ results[k].at \in DOMAIN groups'
              /\ Delivered(results[k].at)'
              /\ results[k] = found'[results[k].at]
BY DEF Entered, Delivered

\* The steps that put nothing into the channel and take nothing out.
LEMMA QuietArrivals ==
    ASSUME Arrivals, UNCHANGED <<groups, ch, collected>>,
           \A i \in DOMAIN groups : Delivered(i) => Delivered(i)' /\ found'[i] = found[i],
           \A i \in DOMAIN groups : task'[i] \in {"found", "sent", "done"} => found'[i].at = i
    PROVE  Arrivals'
<1>1. Entered(ch)' /\ Entered(collected)'
  <2>1. Entered(ch) /\ Entered(collected)
    BY DEF Arrivals
  <2>2. /\ \A k \in DOMAIN ch : ch[k].at \in DOMAIN groups' /\ Delivered(ch[k].at)'
                                /\ ch[k] = found'[ch[k].at]
        /\ \A k \in DOMAIN collected :
              /\ collected[k].at \in DOMAIN groups' /\ Delivered(collected[k].at)'
              /\ collected[k] = found'[collected[k].at]
    BY <2>1, StillEntered
  <2> QED
    BY <2>2 DEF Entered, Delivered
<1>2. Once(ch)' /\ Once(collected)'
  BY DEF Arrivals, Once
<1> QED
  BY <1>1, <1>2 DEF Arrivals

LEMMA RouteArrivals ==
    PathInv /\ Arrivals /\ (Ignore \/ Refuse \/ Semantic \/ Dispatch \/ Join \/ Reply \/ UNCHANGED vars)
        => Arrivals'
<1> SUFFICES ASSUME PathInv, Arrivals,
                    Ignore \/ Refuse \/ Semantic \/ Dispatch \/ Join \/ Reply \/ UNCHANGED vars
             PROVE  Arrivals'
  OBVIOUS
<1>1. UNCHANGED <<groups, task, found, ch, collected>>
  BY DEF Ignore, Refuse, Semantic, End, Dispatch, Join, Reply, vars
<1> QED
  BY <1>1, QuietArrivals DEF Arrivals, Delivered

LEMMA SpawnDoneArrivals ==
    ASSUME PathInv, Arrivals, NEW i, Spawn(i) \/ Done(i) PROVE Arrivals'
<1>1. /\ i \in DOMAIN groups /\ UNCHANGED <<groups, found, ch, collected>>
      /\ \/ task[i] = "new" /\ task' = [task EXCEPT ![i] = "started"]
         \/ task[i] = "sent" /\ task' = [task EXCEPT ![i] = "done"]
      /\ task \in [DOMAIN groups -> TaskStates]
  BY DEF Spawn, Done, Advance, PathInv, Shape
<1>2. \A j \in DOMAIN groups : Delivered(j) => Delivered(j)' /\ found'[j] = found[j]
  BY <1>1 DEF Delivered
<1>3. \A j \in DOMAIN groups : task'[j] \in {"found", "sent", "done"} => found'[j].at = j
  BY <1>1 DEF Arrivals
<1> QED
  BY <1>1, <1>2, <1>3, QuietArrivals

\* The result says which lookup it is of.
LEMMA SearchArrivals == ASSUME PathInv, Arrivals, NEW i, Search(i) PROVE Arrivals'
<1>1. /\ i \in DOMAIN groups /\ task[i] = "started" /\ UNCHANGED <<groups, ch, collected>>
      /\ task' = [task EXCEPT ![i] = "found"]
      /\ task \in [DOMAIN groups -> TaskStates] /\ found \in [DOMAIN groups -> Outcome]
  BY DEF Search, Advance, PathInv, Shape
<1>2. found'[i].at = i /\ \A j \in DOMAIN groups \ {i} : found'[j] = found[j]
  <2>1. \E r : r.at = i /\ found' = [found EXCEPT ![i] = r]
    <3>1. [NoResult EXCEPT !.at = i, !.cause = "contract"].at = i
      BY DEF NoResult
    <3>2. [NoResult EXCEPT !.at = i, !.cause = "store"].at = i
      BY DEF NoResult
    <3>3. \A n : [at |-> i, ok |-> TRUE, counts |-> n, cause |-> "none"].at = i
      OBVIOUS
    <3> QED
      BY <3>1, <3>2, <3>3 DEF Search
  <2> QED
    BY <1>1, <2>1
<1>3. \A j \in DOMAIN groups : Delivered(j) => Delivered(j)' /\ found'[j] = found[j]
  BY <1>1, <1>2 DEF Delivered
<1>4. \A j \in DOMAIN groups : task'[j] \in {"found", "sent", "done"} => found'[j].at = j
  BY <1>1, <1>2 DEF Arrivals
<1> QED
  BY <1>1, <1>3, <1>4, QuietArrivals

\* A lookup that sends has not sent before.
LEMMA SendArrivals == ASSUME PathInv, Arrivals, NEW i, Send(i) PROVE Arrivals'
<1>1. /\ i \in DOMAIN groups /\ task[i] = "found" /\ UNCHANGED <<groups, found, collected>>
      /\ task' = [task EXCEPT ![i] = "sent"] /\ ch' = Append(ch, found[i])
      /\ task \in [DOMAIN groups -> TaskStates] /\ ch \in Seq(Outcome)
      /\ found[i] \in Outcome
  BY DEF Send, Advance, PathInv, Shape
<1>2. found[i].at = i
  BY <1>1 DEF Arrivals
<1> DEFINE last == Len(ch) + 1
<1>3. /\ DOMAIN ch = 1..Len(ch) /\ Len(ch) \in Nat
      /\ DOMAIN ch' = 1..last /\ last \notin DOMAIN ch /\ ch'[last] = found[i]
      /\ \A k \in DOMAIN ch : ch'[k] = ch[k]
  BY <1>1
<1>4. \A k \in DOMAIN ch' : k = last \/ k \in DOMAIN ch
  BY <1>3
<1>5. /\ Entered(ch) /\ Entered(collected) /\ Once(ch) /\ Once(collected)
      /\ \A j \in DOMAIN ch, k \in DOMAIN collected : ch[j].at # collected[k].at
  BY DEF Arrivals
<1>6. \A j \in DOMAIN groups : task'[j] \in {"sent", "done"} <=> (Delivered(j) \/ j = i)
  BY <1>1 DEF Delivered
<1> HIDE DEF last
<1>7. /\ \A k \in DOMAIN ch : ch[k].at # i
      /\ \A k \in DOMAIN collected : collected[k].at # i
  BY <1>1, <1>5 DEF Entered, Delivered
<1>8. Entered(ch)' /\ Entered(collected)'
  <2>1. ASSUME NEW k \in DOMAIN ch'
        PROVE  /\ ch'[k].at \in DOMAIN groups /\ task'[ch'[k].at] \in {"sent", "done"}
               /\ ch'[k] = found[ch'[k].at]
    <3>1. CASE k = last
      BY <1>1, <1>2, <1>3, <1>6, <3>1
    <3>2. CASE k \in DOMAIN ch
      BY <1>3, <1>5, <1>6, <3>2 DEF Entered
    <3> QED
      BY <1>4, <3>1, <3>2
  <2>2. \A k \in DOMAIN collected : /\ collected[k].at \in DOMAIN groups
                                    /\ task'[collected[k].at] \in {"sent", "done"}
                                    /\ collected[k] = found[collected[k].at]
    BY <1>5, <1>6 DEF Entered
  <2> QED
    BY <1>1, <2>1, <2>2 DEF Entered, Delivered
<1>9. Once(ch)' /\ Once(collected)'
  <2>1. ASSUME NEW j \in DOMAIN ch', NEW k \in DOMAIN ch', ch'[j].at = ch'[k].at PROVE j = k
    BY <1>2, <1>3, <1>4, <1>5, <1>7, <2>1 DEF Once
  <2> QED
    BY <1>1, <1>5, <2>1 DEF Once
<1>10. \A j \in DOMAIN ch', k \in DOMAIN collected' : ch'[j].at # collected'[k].at
  BY <1>1, <1>2, <1>3, <1>4, <1>5, <1>7
<1>11. \A j \in DOMAIN groups' : task'[j] \in {"found", "sent", "done"} => found'[j].at = j
  BY <1>1 DEF Arrivals
<1> QED
  BY <1>8, <1>9, <1>10, <1>11 DEF Arrivals

\* What is taken out of the channel leaves it.
LEMMA TailArrivals ==
    ASSUME PathInv, Arrivals, ch # <<>>, ch' = Tail(ch), UNCHANGED <<groups, task, found>>,
           collected' = collected \/ collected' = Append(collected, Head(ch))
    PROVE  Arrivals'
<1>1. ch \in Seq(Outcome) /\ collected \in Seq(Outcome)
  BY DEF PathInv, Shape
<1>2. /\ Head(ch) \in Outcome /\ 1 \in DOMAIN ch /\ Head(ch) = ch[1]
      /\ \A k \in DOMAIN ch' : k + 1 \in DOMAIN ch /\ ch'[k] = ch[k + 1] /\ k \in Nat /\ k # 0
  <2>1. Tail(ch) \in Seq(Outcome)
    BY <1>1, AfterTail
  <2>2. \A k \in DOMAIN Tail(ch) : k \in Nat /\ k # 0
    BY <2>1
  <2> QED
    BY <1>1, <2>2, AfterTail
<1> DEFINE last == Len(collected) + 1
<1>3. \A k \in DOMAIN collected' : /\ k \in DOMAIN collected \/ k = last
                                   /\ k \in DOMAIN collected => collected'[k] = collected[k]
                                   /\ k \notin DOMAIN collected => collected'[k] = ch[1]
  <2>1. CASE collected' = collected
    BY <2>1
  <2>2. CASE collected' = Append(collected, Head(ch))
    BY <1>1, <1>2, <2>2
  <2> QED
    BY <2>1, <2>2
<1> HIDE DEF last
<1>4. /\ Entered(ch) /\ Entered(collected) /\ Once(ch) /\ Once(collected)
      /\ \A j \in DOMAIN ch, k \in DOMAIN collected : ch[j].at # collected[k].at
  BY DEF Arrivals
<1>5. Entered(ch)' /\ Entered(collected)'
  <2>1. \A k \in DOMAIN ch' : /\ ch'[k].at \in DOMAIN groups /\ Delivered(ch'[k].at)
                              /\ ch'[k] = found[ch'[k].at]
    BY <1>2, <1>4 DEF Entered
  <2>2. \A k \in DOMAIN collected' :
           /\ collected'[k].at \in DOMAIN groups /\ Delivered(collected'[k].at)
           /\ collected'[k] = found[collected'[k].at]
    BY <1>2, <1>3, <1>4 DEF Entered
  <2> QED
    BY <2>1, <2>2 DEF Entered, Delivered
<1>6. Once(ch)'
  <2>1. ASSUME NEW j \in DOMAIN ch', NEW k \in DOMAIN ch', ch'[j].at = ch'[k].at PROVE j = k
    <3>1. j + 1 = k + 1
      BY <1>2, <1>4, <2>1 DEF Once
    <3> QED
      BY <1>2, <3>1
  <2> QED
    BY <2>1 DEF Once
<1>7. Once(collected)'
  <2>1. ASSUME NEW j \in DOMAIN collected', NEW k \in DOMAIN collected',
               collected'[j].at = collected'[k].at
        PROVE  j = k
    BY <1>2, <1>3, <1>4, <2>1 DEF Once
  <2> QED
    BY <2>1 DEF Once
<1>8. ASSUME NEW j \in DOMAIN ch', NEW k \in DOMAIN collected' PROVE ch'[j].at # collected'[k].at
  <2>1. j + 1 \in DOMAIN ch /\ ch'[j] = ch[j + 1] /\ j + 1 # 1
    BY <1>2
  <2> QED
    BY <1>2, <1>3, <1>4, <2>1 DEF Once
<1>9. \A i \in DOMAIN groups' : task'[i] \in {"found", "sent", "done"} => found'[i].at = i
  BY DEF Arrivals
<1> QED
  BY <1>5, <1>6, <1>7, <1>8, <1>9 DEF Arrivals

LEMMA ArrivalStep == ArrivalInv /\ [Next]_vars => ArrivalInv'
<1> SUFFICES ASSUME ArrivalInv, [Next]_vars PROVE ArrivalInv'
  OBVIOUS
<1> USE DEF ArrivalInv
<1>1. PathInv'
  BY RouteInv, SpawnDoneInv, SearchInv, SendInv, CollectInv, AbortInv, ReplyInv, StutterInv
     DEF Next, Handler, Task
<1>2. Planned' /\ Told'
  BY PlannedStep, ToldStep
<1>3. CASE Collect \/ Abort
  <2>1. Arrivals'
    BY <1>3, TailArrivals DEF Collect, Abort
  <2> QED
    BY <1>1, <1>2, <2>1
<1>4. Arrivals'
  BY <1>3, RouteArrivals, SpawnDoneArrivals, SearchArrivals, SendArrivals DEF Next, Handler, Task
<1> QED
  BY <1>1, <1>2, <1>4

LEMMA ArrivalInvariant == Spec => []ArrivalInv
BY ArrivalStart, ArrivalStep, PTL DEF Spec

-----------------------------------------------------------------------------
(* What the arrivals come to *)

\* The lookup that the k-th of some results is of.
Places(results) == [k \in DOMAIN results |-> results[k].at]

LEMMA Interval == ASSUME NEW n \in Nat PROVE IsFiniteSet(1..n) /\ Cardinality(1..n) = n
<1>1. IsFiniteSet(1..n) /\ Cardinality(1..n) = IF 1 > n THEN 0 ELSE n - 1 + 1
  BY FS_Interval
<1> QED
  BY <1>1

LEMMA GroupsType ==
    ASSUME ArrivalInv
    PROVE  /\ IsInjective(groups)
           /\ Len(groups) \in Nat /\ DOMAIN groups = 1..Len(groups)
           /\ found \in Seq(Outcome) /\ Len(found) = Len(groups)
           /\ Counted(Outcome)
<1>1. message \in Message /\ groups = Plan(message, hint)
  BY FastPathConstants DEF ArrivalInv, Planned
<1>2. groups \in Seq(ToSet(groups)) /\ IsInjective(groups)
  BY <1>1, PlanType
<1>3. Len(groups) \in Nat /\ DOMAIN groups = 1..Len(groups)
  BY <1>2
<1>4. found \in [DOMAIN groups -> Outcome]
  BY DEF ArrivalInv, PathInv, Shape
<1>5. found \in Seq(Outcome) /\ Len(found) = Len(groups)
  BY <1>3, <1>4
<1>6. Counted(Outcome)
  BY DEF Counted, Outcome
<1> QED
  BY <1>2, <1>3, <1>5, <1>6

\* There are at most as many results on their way as lookups.
LEMMA FewArrivals ==
    ASSUME ArrivalInv
    PROVE  Len(ch) <= Len(groups)
<1>1. ch \in Seq(Outcome) /\ Entered(ch) /\ Once(ch)
  BY DEF ArrivalInv, PathInv, Shape, Arrivals
<1>2. Len(ch) \in Nat /\ DOMAIN ch = 1..Len(ch)
  BY <1>1
<1>3. Places(ch) \in Injection(1..Len(ch), 1..Len(groups))
  BY <1>1, <1>2, GroupsType DEF Places, Injection, IsInjective, Entered, Once
<1>4. Cardinality(1..Len(ch)) <= Cardinality(1..Len(groups))
  BY <1>3, GroupsType, Interval, FS_Injection
<1> QED
  BY <1>2, <1>4, GroupsType, Interval

\* A response was made of every result, each once.
LEMMA AllArrived ==
    ASSUME ArrivalInv, phase = "replied"
    PROVE  /\ collected \in Seq(Outcome) /\ Len(collected) = Len(groups)
           /\ \A i \in DOMAIN groups : found[i].ok /\ \E k \in DOMAIN collected : collected[k] = found[i]
           /\ Permutes(Places(collected), found, collected)
<1>1. collected \in Seq(Outcome) /\ Entered(collected) /\ Once(collected) /\ ch = <<>>
  BY DEF ArrivalInv, PathInv, Shape, Arrivals, Told
<1>2. Len(collected) \in Nat /\ DOMAIN collected = 1..Len(collected)
  BY <1>1
<1>3. \A i \in DOMAIN groups :
         /\ found[i].ok /\ found[i].at = i
         /\ \E k \in DOMAIN collected : collected[k] = found[i]
  <2> SUFFICES ASSUME NEW i \in DOMAIN groups
               PROVE  /\ found[i].ok /\ found[i].at = i
                      /\ \E k \in DOMAIN collected : collected[k] = found[i]
    OBVIOUS
  <2>1. task[i] = "done" /\ found[i].ok
    BY DEF ArrivalInv, PathInv, Joined, Verdicts
  <2>2. found[i].at = i
    BY <2>1 DEF ArrivalInv, Arrivals
  <2>3. ~Waiting(found[i])
    BY <1>1 DEF Waiting
  <2>4. Received(found[i])
    BY <2>1, <2>3 DEF ArrivalInv, PathInv, Conserved, Delivered
  <2> QED
    BY <2>1, <2>2, <2>4 DEF Received
<1> DEFINE p == Places(collected)
<1>4. \A k \in DOMAIN collected : /\ p[k] = collected[k].at /\ p[k] \in DOMAIN groups
                                  /\ collected[k] = found[p[k]]
  BY <1>1 DEF Places, Entered
<1>5. \A j, k \in DOMAIN collected : p[j] = p[k] => j = k
  BY <1>1, <1>4 DEF Once
<1>6. \A i \in DOMAIN groups : \E k \in DOMAIN collected : p[k] = i
  BY <1>3, <1>4
<1>7. p \in [1..Len(collected) -> 1..Len(groups)]
  BY <1>2, <1>4, GroupsType DEF Places
<1> HIDE DEF p
<1>8. DOMAIN found = DOMAIN groups
  BY GroupsType
<1>9. Permutes(p, found, collected)
  BY <1>4, <1>5, <1>6, <1>8 DEF Permutes
<1>10. Len(collected) = Len(groups)
  <2>1. Len(groups) \in Nat /\ DOMAIN groups = 1..Len(groups)
    BY GroupsType
  <2>2. p \in Injection(1..Len(collected), 1..Len(groups))
    BY <1>2, <1>5, <1>7 DEF Injection, IsInjective
  <2>3. p \in Surjection(1..Len(collected), 1..Len(groups))
    BY <1>2, <1>6, <1>7, <2>1 DEF Surjection
  <2>4. Cardinality(1..Len(collected)) <= Cardinality(1..Len(groups))
    BY <1>2, <2>1, <2>2, Interval, FS_Injection
  <2>5. Cardinality(1..Len(groups)) <= Cardinality(1..Len(collected))
    BY <1>2, <2>3, Interval, FS_Surjection
  <2>6. Cardinality(1..Len(collected)) = Len(collected)
    BY <1>2, Interval
  <2>7. Cardinality(1..Len(groups)) = Len(groups)
    BY <2>1, Interval
  <2>8. Len(collected) <= Len(groups) /\ Len(groups) <= Len(collected)
    BY <2>4, <2>5, <2>6, <2>7, Zenon
  <2>9. \A m, n \in Nat : m <= n /\ n <= m => m = n
    OBVIOUS
  <2> QED
    BY <1>2, <2>1, <2>8, <2>9, Zenon
<1> QED
  BY <1>1, <1>3, <1>9, <1>10 DEF p

LEMMA Covers == ArrivalInv => ReplyCoversThePlan
<1> SUFFICES ASSUME ArrivalInv, phase = "replied"
             PROVE  /\ Len(collected) = Len(groups)
                    /\ \A i \in DOMAIN groups : \E r \in ToSet(collected) : r = found[i] /\ r.ok
                    /\ reply.totals = Totals(found)
                    /\ reply.reason = "NO_MATCH_IN_TENANT" <=>
                         \A i \in DOMAIN groups : found[i].counts = NoCounts
                    /\ reply.reason = "VISIBLE_RESULTS" <=>
                         \E i \in DOMAIN groups : found[i].counts.authorized > 0
  BY DEF ReplyCoversThePlan
<1>1. /\ collected \in Seq(Outcome) /\ Len(collected) = Len(groups)
      /\ \A i \in DOMAIN groups : found[i].ok /\ \E k \in DOMAIN collected : collected[k] = found[i]
      /\ Permutes(Places(collected), found, collected)
  BY AllArrived
<1>2. Totals(collected) = Totals(found)
  BY <1>1, GroupsType, TotalsInAnyOrder
<1>3. reply = [totals |-> Totals(found), reason |-> Reason(Totals(found))]
  BY <1>2 DEF ArrivalInv, Told
<1> DEFINE sum == Totals(found)
<1>4. /\ sum \in CountsType
      /\ sum.authorized = 0 <=> \A i \in DOMAIN found : found[i].counts.authorized = 0
      /\ sum.hidden = 0 <=> \A i \in DOMAIN found : found[i].counts.hidden = 0
  BY GroupsType, TotalsType
<1>5. DOMAIN found = DOMAIN groups
  BY GroupsType
<1>6. \A i \in DOMAIN groups : found[i].counts \in CountsType
  BY GroupsType, <1>5 DEF Counted
<1>7. reply.totals = sum /\ reply.reason = Reason(sum)
  BY <1>3
<1> HIDE DEF sum
<1>8. sum.authorized \in Nat /\ sum.hidden \in Nat
  BY <1>4 DEF CountsType
<1>9. \A i \in DOMAIN groups :
         /\ found[i].counts.authorized \in Nat /\ found[i].counts.hidden \in Nat
         /\ found[i].counts = NoCounts <=>
               (found[i].counts.authorized = 0 /\ found[i].counts.hidden = 0)
  BY <1>6 DEF CountsType, NoCounts
<1>10. \A i \in DOMAIN groups : \E r \in ToSet(collected) : r = found[i] /\ r.ok
  BY <1>1 DEF ToSet
<1>11. reply.reason = "NO_MATCH_IN_TENANT" <=> \A i \in DOMAIN groups : found[i].counts = NoCounts
  <2>1. reply.reason = "NO_MATCH_IN_TENANT" <=> (sum.authorized = 0 /\ sum.hidden = 0)
    BY <1>7, <1>8 DEF Reason
  <2> QED
    BY <1>4, <1>5, <1>9, <2>1
<1>12. reply.reason = "VISIBLE_RESULTS" <=> \E i \in DOMAIN groups : found[i].counts.authorized > 0
  <2>1. reply.reason = "VISIBLE_RESULTS" <=> sum.authorized # 0
    BY <1>7, <1>8 DEF Reason
  <2>2. \A i \in DOMAIN groups : found[i].counts.authorized > 0 <=> found[i].counts.authorized # 0
    BY <1>9
  <2> QED
    BY <1>4, <1>5, <2>1, <2>2
<1> QED
  BY <1>1, <1>7, <1>10, <1>11, <1>12 DEF sum

LEMMA Typed == ArrivalInv => TypeOK
<1> SUFFICES ASSUME ArrivalInv PROVE TypeOK
  OBVIOUS
<1>1. /\ message \in Messages /\ hint \in Hints /\ version \in Versions
      /\ phase \in Phases /\ task \in [DOMAIN groups -> TaskStates]
      /\ found \in [DOMAIN groups -> Outcome]
      /\ ch \in Seq(Outcome) /\ collected \in Seq(Outcome)
  BY DEF ArrivalInv, Planned, PathInv, Shape
<1>2. Outcome \subseteq Result
  BY GroupsType DEF Outcome, Result
<1>3. /\ found \in [DOMAIN groups -> Result]
      /\ ch \in Seq(Result) /\ collected \in Seq(Result)
  BY <1>1, <1>2
<1>4. IsInjective(groups) /\ Len(ch) <= Len(groups)
  BY GroupsType, FewArrivals
<1>5. /\ reply.totals \in CountsType
      /\ reply.reason \in {"none", "VISIBLE_RESULTS", "MATCHES_EXIST_BUT_NOT_VISIBLE",
                           "NO_MATCH_IN_TENANT"}
  <2>1. CASE phase # "replied"
    BY <2>1 DEF ArrivalInv, Told, NoReply, NoCounts, CountsType
  <2>2. CASE phase = "replied"
    <3>1. reply = [totals |-> Totals(collected), reason |-> Reason(Totals(collected))]
      BY <2>2 DEF ArrivalInv, Told
    <3>2. Totals(collected) \in CountsType
      BY <1>1, GroupsType, TotalsType
    <3> QED
      BY <3>1, <3>2 DEF Reason
  <2> QED
    BY <2>1, <2>2
<1> QED
  BY <1>1, <1>3, <1>4, <1>5 DEF TypeOK, Phases

-----------------------------------------------------------------------------
(* The theorems *)

\* Every step of the handler and of its goroutines keeps the results together.
THEOREM PathInvariant == Spec => []PathInv
<1>1. Init => PathInv
  BY InitInv
<1>2. PathInv /\ [Next]_vars => PathInv'
  BY RouteInv, SpawnDoneInv, SearchInv, SendInv, CollectInv, AbortInv, ReplyInv, StutterInv
     DEF Next, Handler, Task
<1> QED
  BY <1>1, <1>2, PTL DEF Spec

\* No goroutine of tryIdentifierFastPath outlives the request (server.go:468),
\* whatever the plan, the results and the order in which they come.
THEOREM NoneIsLeft == Spec => []NoGoroutineIsLeft
<1>1. PathInv => NoGoroutineIsLeft
  BY DEF PathInv, Shape, Phases, Ended, Idle, Joined, NoGoroutineIsLeft
<1> QED
  BY <1>1, PathInvariant, PTL

\* A request fails if some lookup failed and only then (server.go:474-481).
THEOREM AllOrNothing == Spec => []FailsIfAnyLookupFails
<1>1. PathInv => FailsIfAnyLookupFails
  BY DEF PathInv, Verdicts, FailsIfAnyLookupFails
<1> QED
  BY <1>1, PathInvariant, PTL

\* No lookup of a plan repeats another, the channel has room for the results on
\* their way (server.go:439), and the response has counts and a reason.
THEOREM TypeCorrect == Spec => []TypeOK
BY Typed, ArrivalInvariant, PTL

\* The results carry no index and come in any order (server.go:439-481): for any
\* plan and any interleaving a response accounts for every lookup once, and its
\* totals and its reason are those of all lookups.
THEOREM ReplyIsWhole == Spec => []ReplyCoversThePlan
BY Covers, ArrivalInvariant, PTL

=============================================================================
