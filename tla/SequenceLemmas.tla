--------------------------- MODULE SequenceLemmas ---------------------------
(***************************************************************************)
(* Induction over the natural numbers, for the proofs about loops over     *)
(* sequences of any length.  A property P is shown of every number by      *)
(* showing that the set {n \in Nat : P(n)} is closed, so no lemma here is  *)
(* parameterised by an operator.                                           *)
(***************************************************************************)
EXTENDS Selection, Integers, FiniteSetTheorems, TLAPS

\* Every non-empty set of natural numbers has a least element: the initial
\* segments below its members are finite sets, well-founded by inclusion.
LEMMA Least ==
  ASSUME NEW T, T \subseteq Nat, T # {}
  PROVE  \E n \in T : \A m \in T : n <= m
<1> DEFINE Below(n) == 0..(n - 1)
           U == {Below(n) : n \in T}
<1>1. U \subseteq FiniteSubsetsOf(Nat)
  <2> SUFFICES ASSUME NEW n \in T PROVE Below(n) \in FiniteSubsetsOf(Nat)
    OBVIOUS
  <2>1. IsFiniteSet(Below(n))
    BY FS_Interval
  <2> QED
    BY <2>1 DEF FiniteSubsetsOf
<1>2. U # {}
  OBVIOUS
<1>3. IsWellFoundedOn(StrictSubsetOrdering(Nat), FiniteSubsetsOf(Nat))
  BY FS_StrictSubsetOrderingWellFounded
<1>4. \E x \in U : \A y \in U : ~(<<y, x>> \in StrictSubsetOrdering(Nat))
  <2> HIDE DEF U
  <2> QED
    BY <1>1, <1>2, <1>3, WFMin
<1>5. PICK n \in T : \A m \in T : ~(<<Below(m), Below(n)>> \in StrictSubsetOrdering(Nat))
  BY <1>4
<1>6. ASSUME NEW m \in T, m < n PROVE FALSE
  <2>1. m \in Nat /\ n \in Nat
    OBVIOUS
  <2>2. Below(m) \subseteq Below(n) /\ Below(m) # Below(n) /\ Below(n) \subseteq Nat
    <3>1. m \in Below(n) /\ m \notin Below(m)
      BY <1>6, <2>1
    <3> QED
      BY <1>6, <2>1, <3>1
  <2> QED
    BY <2>2, <1>5 DEF StrictSubsetOrdering
<1> QED
  BY <1>5, <1>6

\* A set of numbers that holds zero and, with every number, the next.
LEMMA Induct ==
  ASSUME NEW T, 0 \in T, \A n \in Nat : n \in T => n + 1 \in T
  PROVE  Nat \subseteq T
<1> DEFINE U == Nat \ T
<1> SUFFICES ASSUME U # {} PROVE FALSE
  OBVIOUS
<1>0. U \subseteq Nat
  OBVIOUS
<1>1. PICK n \in U : \A m \in U : n <= m
  <2> HIDE DEF U
  <2> QED
    BY <1>0, Least
<1>2. n # 0 /\ n \in Nat
  OBVIOUS
<1>3. n - 1 \in Nat /\ n - 1 \in T
  BY <1>1, <1>2
<1> QED
  BY <1>3, <1>1

-----------------------------------------------------------------------------
(* Sequences *)

LEMMA LenNat == ASSUME NEW S, NEW s \in Seq(S) PROVE Len(s) \in Nat
OBVIOUS

LEMMA JoinType ==
  ASSUME NEW S, NEW s \in Seq(S), NEW t \in Seq(S)
  PROVE  s \o t \in Seq(S) /\ Len(s \o t) = Len(s) + Len(t)
OBVIOUS

LEMMA InsertAtType ==
  ASSUME NEW S, NEW s \in Seq(S), NEW c \in S, NEW i \in 1..Len(s) + 1
  PROVE  InsertAt(s, i, c) \in Seq(S) /\ Len(InsertAt(s, i, c)) = Len(s) + 1
<1>1. /\ SubSeq(s, 1, i - 1) \in Seq(S) /\ Len(SubSeq(s, 1, i - 1)) = i - 1
      /\ SubSeq(s, i, Len(s)) \in Seq(S) /\ Len(SubSeq(s, i, Len(s))) = Len(s) + 1 - i
  OBVIOUS
<1>2. <<c>> \in Seq(S) /\ Len(<<c>>) = 1
  OBVIOUS
<1>3. /\ SubSeq(s, 1, i - 1) \o <<c>> \in Seq(S)
      /\ Len(SubSeq(s, 1, i - 1) \o <<c>>) = i
  BY <1>1, <1>2
<1>4. Len(s) \in Nat
  BY LenNat
<1> DEFINE a == SubSeq(s, 1, i - 1) \o <<c>>
           b == SubSeq(s, i, Len(s))
<1>5. a \o b \in Seq(S) /\ Len(a \o b) = Len(a) + Len(b)
  <2>1. a \in Seq(S) /\ b \in Seq(S)
    BY <1>1, <1>3
  <2> HIDE DEF a, b
  <2> QED
    BY <2>1, JoinType
<1>6. InsertAt(s, i, c) = a \o b
  BY DEF InsertAt
<1> HIDE DEF a, b
<1>7. Len(a) = i /\ Len(b) = Len(s) + 1 - i
  BY <1>1, <1>3 DEF a, b
<1> QED
  BY <1>4, <1>5, <1>6, <1>7

LEMMA RemoveAtType ==
  ASSUME NEW S, NEW s \in Seq(S), NEW i \in DOMAIN s
  PROVE  RemoveAt(s, i) \in Seq(S) /\ Len(RemoveAt(s, i)) = Len(s) - 1
<1>1. /\ SubSeq(s, 1, i - 1) \in Seq(S) /\ Len(SubSeq(s, 1, i - 1)) = i - 1
      /\ SubSeq(s, i + 1, Len(s)) \in Seq(S) /\ Len(SubSeq(s, i + 1, Len(s))) = Len(s) - i
  OBVIOUS
<1> DEFINE a == SubSeq(s, 1, i - 1)
           b == SubSeq(s, i + 1, Len(s))
<1>2. RemoveAt(s, i) = a \o b
  BY DEF RemoveAt
<1>3. Len(s) \in Nat /\ i \in 1..Len(s)
  BY LenNat
<1> HIDE DEF a, b
<1>4. a \in Seq(S) /\ b \in Seq(S) /\ Len(a) = i - 1 /\ Len(b) = Len(s) - i
  BY <1>1 DEF a, b
<1>5. a \o b \in Seq(S) /\ Len(a \o b) = Len(a) + Len(b)
  BY <1>4, JoinType
<1> QED
  BY <1>2, <1>3, <1>4, <1>5

\* A cut of a sequence: its elements are elements of the sequence.
LEMMA PrefixType ==
  ASSUME NEW S, NEW s \in Seq(S), NEW n \in Nat, n <= Len(s)
  PROVE  /\ SubSeq(s, 1, n) \in Seq(S)
         /\ Len(SubSeq(s, 1, n)) = n
         /\ \A i \in DOMAIN SubSeq(s, 1, n) : i \in DOMAIN s /\ SubSeq(s, 1, n)[i] = s[i]
OBVIOUS

\* What is left of a sequence before its end.
LEMMA RestType ==
  ASSUME NEW S, NEW s \in Seq(S), NEW n \in Nat, n < Len(s)
  PROVE  SubSeq(s, n + 1, Len(s)) # <<>>
<1> DEFINE rest == SubSeq(s, n + 1, Len(s))
<1>1. Len(rest) = Len(s) - n /\ Len(s) \in Nat
  OBVIOUS
<1> HIDE DEF rest
<1>2. rest # <<>>
  BY <1>1
<1> QED
  BY <1>2 DEF rest

LEMMA AppendType ==
  ASSUME NEW S, NEW s \in Seq(S), NEW e \in S
  PROVE  /\ Append(s, e) \in Seq(S)
         /\ \A i \in DOMAIN Append(s, e) :
              \/ i \in DOMAIN s /\ Append(s, e)[i] = s[i]
              \/ Append(s, e)[i] = e
OBVIOUS

-----------------------------------------------------------------------------
(* Folds *)

\* The element FoldLeft takes last.
LEMMA MaxIsGreatest ==
  ASSUME NEW n \in Nat, NEW S \in SUBSET (1..n), S # {}
  PROVE  Max(S) \in S /\ \A x \in S : x <= Max(S)
<1> DEFINE T == {n - x : x \in S}
<1>1. T \subseteq Nat /\ T # {}
  <2>1. ASSUME NEW x \in S PROVE n - x \in Nat
    <3>1. x \in 1..n
      OBVIOUS
    <3> QED
      BY <3>1
  <2> QED
    BY <2>1
<1>2. PICK k \in T : \A m \in T : k <= m
  <2> HIDE DEF T
  <2> QED
    BY <1>1, Least
<1>3. PICK y \in S : k = n - y
  OBVIOUS
<1>4. \A x \in S : y >= x
  BY <1>2, <1>3
<1>5. Max(S) \in S /\ \A x \in S : Max(S) >= x
  BY <1>4 DEF Max
<1> QED
  BY <1>5

\* g tells, for every set of indices, what a loop over them comes to that starts
\* from base, takes the indices in ascending order and whose turn is F.
IsLoop(g, A, base, n, F) ==
  /\ g \in [SUBSET (1..n) -> A]
  /\ g[{}] = base
  /\ \A s \in SUBSET (1..n) : s # {} => g[s] = F[<<g[s \ {Max(s)}], Max(s)>>]

\* A loop over 1..n with the turn F has one outcome per set of indices, whatever
\* the turn computes: the recursion of MapThenFoldSet is well founded.
LEMMA LoopTable ==
  ASSUME NEW A, NEW base \in A, NEW n \in Nat, NEW F \in [A \X (1..n) -> A]
  PROVE  \E g : IsLoop(g, A, base, n, F)
<1> DEFINE Good(g, k) ==
             /\ g \in [SUBSET (1..k) -> A]
             /\ g[{}] = base
             /\ \A s \in SUBSET (1..k) : s # {} => g[s] = F[<<g[s \ {Max(s)}], Max(s)>>]
           T == {k \in Nat : k <= n => \E g : Good(g, k)}
<1>1. 0 \in T
  <2> DEFINE g0 == [s \in SUBSET (1..0) |-> base]
  <2>1. 1..0 = {}
    OBVIOUS
  <2>2. Good(g0, 0)
    BY <2>1
  <2> QED
    BY <2>2
<1>2. ASSUME NEW k \in Nat, k \in T PROVE k + 1 \in T
  <2> SUFFICES ASSUME k + 1 <= n PROVE \E g : Good(g, k + 1)
    <3> HIDE DEF Good
    <3> QED
      OBVIOUS
  <2>1. PICK g : Good(g, k)
    <3> HIDE DEF Good
    <3> QED
      BY <1>2
  <2> DEFINE G == [s \in SUBSET (1..(k + 1)) |->
                     IF k + 1 \in s THEN F[<<g[s \ {k + 1}], k + 1>>] ELSE g[s]]
  <2>2. ASSUME NEW s \in SUBSET (1..(k + 1)), k + 1 \in s
        PROVE  s \ {k + 1} \in SUBSET (1..k) /\ Max(s) = k + 1
    <3>1. s \ {k + 1} \in SUBSET (1..k)
      OBVIOUS
    <3>2. Max(s) \in s /\ k + 1 <= Max(s)
      <4>1. k + 1 \in Nat /\ s # {}
        BY <2>2
      <4> QED
        BY <2>2, <4>1, MaxIsGreatest
    <3>3. Max(s) \in 1..(k + 1)
      BY <3>2
    <3> QED
      BY <3>1, <3>2, <3>3
  <2>3. ASSUME NEW s \in SUBSET (1..(k + 1)), k + 1 \notin s
        PROVE  s \in SUBSET (1..k)
    BY <2>3
  <2>4. ASSUME NEW s \in SUBSET (1..k), s # {}
        PROVE  Max(s) \in s /\ Max(s) \in 1..k /\ s \ {Max(s)} \in SUBSET (1..k)
    BY <2>4, MaxIsGreatest
  <2>5. G \in [SUBSET (1..(k + 1)) -> A]
    <3> SUFFICES ASSUME NEW s \in SUBSET (1..(k + 1)) PROVE G[s] \in A
      OBVIOUS
    <3>1. CASE k + 1 \in s
      BY <2>1, <2>2, <3>1
    <3>2. CASE k + 1 \notin s
      BY <2>1, <2>3, <3>2
    <3> QED
      BY <3>1, <3>2
  <2>6. G[{}] = base
    BY <2>1
  <2>7. ASSUME NEW s \in SUBSET (1..(k + 1)), s # {}
        PROVE  G[s] = F[<<G[s \ {Max(s)}], Max(s)>>]
    <3>1. CASE k + 1 \in s
      <4>1. s \ {k + 1} \in SUBSET (1..(k + 1)) /\ k + 1 \notin s \ {k + 1}
        OBVIOUS
      <4>2. G[s \ {k + 1}] = g[s \ {k + 1}]
        BY <4>1
      <4> QED
        BY <2>2, <3>1, <4>2
    <3>2. CASE k + 1 \notin s
      <4>1. G[s] = g[s]
        BY <3>2
      <4>2. s \ {Max(s)} \in SUBSET (1..(k + 1)) /\ k + 1 \notin s \ {Max(s)}
        BY <3>2
      <4>3. G[s \ {Max(s)}] = g[s \ {Max(s)}]
        BY <4>2
      <4>4. s \in SUBSET (1..k)
        BY <2>3, <3>2
      <4> QED
        BY <2>1, <2>7, <4>1, <4>3, <4>4
    <3> QED
      BY <3>1, <3>2
  <2>8. Good(G, k + 1)
    <3> HIDE DEF G
    <3> QED
      BY <2>5, <2>6, <2>7
  <2> QED
    BY <2>8
<1>3. Nat \subseteq T
  <2> HIDE DEF T
  <2> QED
    BY <1>1, <1>2, Induct
<1>4. n \in T
  BY <1>3
<1>5. PICK g : Good(g, n)
  <2> HIDE DEF Good
  <2> QED
    BY <1>4
<1> QED
  BY <1>5 DEF IsLoop

\* The table of a loop, read along the prefixes 1..i, is the loop turn by turn.
LEMMA InitialSegment ==
  ASSUME NEW i \in Nat, i # 0
  PROVE  /\ 1..i # {}
         /\ Max(1..i) = i
         /\ (1..i) \ {i} = 1..(i - 1)
<1>1. i \in 1..i /\ 1..i \in SUBSET (1..i) /\ 1..i # {}
  OBVIOUS
<1>2. Max(1..i) \in 1..i /\ \A x \in 1..i : x <= Max(1..i)
  BY <1>1, MaxIsGreatest
<1>3. Max(1..i) = i
  BY <1>1, <1>2
<1>4. (1..i) \ {i} = 1..(i - 1)
  OBVIOUS
<1> QED
  BY <1>1, <1>3, <1>4

-----------------------------------------------------------------------------
(* What a loop keeps *)

\* one turn of the loop
Keep(list, e, S) == IF e \in S THEN Append(list, e) ELSE list

LEMMA KeepType ==
  ASSUME NEW E, NEW list \in Seq(E), NEW e \in E, NEW S
  PROVE  Keep(list, e, S) \in Seq(E)
BY AppendType DEF Keep

\* the lists it has built after each of its turns
IsRun(h, E, s, S) ==
  /\ h \in [0..Len(s) -> Seq(E)]
  /\ h[0] = <<>>
  /\ \A i \in 1..Len(s) : h[i] = Keep(h[i - 1], s[i], S)
  /\ Kept(s, S) = h[Len(s)]

LEMMA KeptRun ==
  ASSUME NEW E, NEW s \in Seq(E), NEW S
  PROVE  \E h : IsRun(h, E, s, S)
<1> DEFINE n == Len(s)
           F == [p \in Seq(E) \X (1..n) |-> Keep(p[1], s[p[2]], S)]
<1>1. <<>> \in Seq(E) /\ n \in Nat /\ DOMAIN s = 1..n /\ \A i \in 1..n : s[i] \in E
  OBVIOUS
<1>2. F \in [Seq(E) \X (1..n) -> Seq(E)]
  BY <1>1, KeepType
<1>3. PICK g : IsLoop(g, Seq(E), <<>>, n, F)
  <2> HIDE DEF n, F
  <2> QED
    BY <1>1, <1>2, LoopTable
<1>4. ASSUME NEW t \in SUBSET (1..n), t # {}
      PROVE  g[t] = Keep(g[t \ {Max(t)}], s[Max(t)], S)
  <2>1. Max(t) \in 1..n /\ t \ {Max(t)} \in SUBSET (1..n)
    BY <1>1, <1>4, MaxIsGreatest
  <2> QED
    BY <1>3, <1>4, <2>1 DEF IsLoop
<1>5. g = [t \in SUBSET (1..n) |-> IF t = {} THEN <<>> ELSE Keep(g[t \ {Max(t)}], s[Max(t)], S)]
  BY <1>3, <1>4 DEF IsLoop
<1>6. PICK k : /\ k = [t \in SUBSET (1..n) |-> IF t = {} THEN <<>>
                                               ELSE Keep(k[t \ {Max(t)}], s[Max(t)], S)]
               /\ Kept(s, S) = k[1..n]
  <2> HIDE DEF n
  <2> QED
    BY <1>1, <1>5 DEF Kept, FoldLeft, MapThenFoldSet, Keep
<1> DEFINE h == [i \in 0..n |-> k[1..i]]
           T == {i \in Nat : i <= n => h[i] \in Seq(E)}
<1>7. h[0] = <<>>
  BY <1>1, <1>6
<1>8. ASSUME NEW i \in 1..n
      PROVE  h[i] = Keep(h[i - 1], s[i], S)
  <2>1. i \in Nat /\ i # 0 /\ i - 1 \in 0..n /\ 1..i \in SUBSET (1..n)
    BY <1>1
  <2>2. k[1..i] = Keep(k[(1..i) \ {Max(1..i)}], s[Max(1..i)], S)
    BY <2>1, <1>6, InitialSegment
  <2>3. h[i] = k[1..i] /\ h[i - 1] = k[1..(i - 1)]
    BY <2>1
  <2>4. Max(1..i) = i /\ (1..i) \ {i} = 1..(i - 1)
    BY <2>1, InitialSegment
  <2> HIDE DEF h
  <2> QED
    BY <2>2, <2>3, <2>4
<1>9. Nat \subseteq T
  <2>1. 0 \in T
    BY <1>1, <1>7
  <2>2. ASSUME NEW i \in Nat, i \in T PROVE i + 1 \in T
    <3> SUFFICES ASSUME i + 1 <= n PROVE h[i + 1] \in Seq(E)
      OBVIOUS
    <3>1. i + 1 \in 1..n /\ (i + 1) - 1 = i /\ i <= n
      BY <1>1
    <3>2. h[i] \in Seq(E)
      BY <2>2, <3>1
    <3>3. h[i + 1] = Keep(h[i], s[i + 1], S)
      <4> HIDE DEF h
      <4> QED
        BY <1>8, <3>1
    <3> QED
      BY <1>1, <3>1, <3>2, <3>3, KeepType
  <2> HIDE DEF T
  <2> QED
    BY <2>1, <2>2, Induct
<1>10. h \in [0..n -> Seq(E)]
  <2> SUFFICES ASSUME NEW i \in 0..n PROVE h[i] \in Seq(E)
    OBVIOUS
  <2>1. i \in Nat /\ i <= n
    BY <1>1
  <2> QED
    BY <1>9, <2>1
<1>11. Kept(s, S) = h[n]
  BY <1>1, <1>6
<1> HIDE DEF h
<1> QED
  BY <1>7, <1>8, <1>10, <1>11 DEF IsRun

LEMMA KeptType ==
  ASSUME NEW E, NEW s \in Seq(E), NEW S
  PROVE  Kept(s, S) \in Seq(E)
<1>1. Len(s) \in 0..Len(s)
  BY LenNat
<1> QED
  BY KeptRun, <1>1 DEF IsRun

LEMMA KeptNothing == ASSUME NEW S PROVE Kept(<<>>, S) = <<>>
<1>1. <<>> \in Seq({}) /\ Len(<<>>) = 0
  OBVIOUS
<1>2. PICK h : IsRun(h, {}, <<>>, S)
  BY KeptRun, <1>1
<1> QED
  BY <1>1, <1>2 DEF IsRun

\* One element more: it is kept or not, what was kept before stays.
LEMMA KeptOneMore ==
  ASSUME NEW E, NEW s \in Seq(E), NEW S, NEW n \in Nat, n < Len(s)
  PROVE  Kept(SubSeq(s, 1, n + 1), S) = Keep(Kept(SubSeq(s, 1, n), S), s[n + 1], S)
<1> DEFINE a == SubSeq(s, 1, n)
           b == SubSeq(s, 1, n + 1)
<1>1. /\ a \in Seq(E) /\ Len(a) = n /\ \A i \in 1..n : a[i] = s[i]
      /\ b \in Seq(E) /\ Len(b) = n + 1 /\ \A i \in 1..(n + 1) : b[i] = s[i]
  OBVIOUS
<1> HIDE DEF a, b
<1>2. PICK h : IsRun(h, E, a, S)
  BY <1>1, KeptRun
<1>3. PICK k : IsRun(k, E, b, S)
  BY <1>1, KeptRun
<1> DEFINE T == {i \in Nat : i <= n => h[i] = k[i]}
<1>4. 0 \in T
  BY <1>2, <1>3 DEF IsRun
<1>5. ASSUME NEW i \in Nat, i \in T PROVE i + 1 \in T
  <2> SUFFICES ASSUME i + 1 <= n PROVE h[i + 1] = k[i + 1]
    OBVIOUS
  <2>1. i + 1 \in 1..n /\ i + 1 \in 1..(n + 1) /\ (i + 1) - 1 = i /\ h[i] = k[i]
    BY <1>5
  <2>2. a[i + 1] = s[i + 1] /\ b[i + 1] = s[i + 1]
    BY <1>1, <2>1
  <2>3. h[i + 1] = Keep(h[i], s[i + 1], S)
    BY <1>1, <1>2, <2>1, <2>2 DEF IsRun
  <2>4. k[i + 1] = Keep(k[i], s[i + 1], S)
    BY <1>1, <1>3, <2>1, <2>2 DEF IsRun
  <2> QED
    BY <2>1, <2>3, <2>4
<1>6. n \in T
  <2> HIDE DEF T
  <2> QED
    BY <1>4, <1>5, Induct
<1>7. n + 1 \in 1..(n + 1) /\ (n + 1) - 1 = n
  OBVIOUS
<1>8. Kept(b, S) = Keep(Kept(a, S), s[n + 1], S)
  <2>1. Kept(b, S) = k[n + 1] /\ Kept(a, S) = h[n]
    BY <1>1, <1>2, <1>3 DEF IsRun
  <2>2. k[n + 1] = Keep(k[n], s[n + 1], S)
    BY <1>1, <1>3, <1>7 DEF IsRun
  <2> QED
    BY <1>6, <2>1, <2>2
<1> QED
  BY <1>8 DEF a, b

\* Two loops that keep what the other leaves share the elements between them.
LEMMA KeptParts ==
  ASSUME NEW E, NEW s \in Seq(E), NEW S, NEW R, \A e \in E : e \in S <=> e \notin R
  PROVE  Len(Kept(s, S)) + Len(Kept(s, R)) = Len(s)
<1> DEFINE Both(n) == Len(Kept(SubSeq(s, 1, n), S)) + Len(Kept(SubSeq(s, 1, n), R))
           T == {n \in Nat : n <= Len(s) => Both(n) = n}
<1>1. 0 \in T
  <2>1. SubSeq(s, 1, 0) = <<>>
    OBVIOUS
  <2>2. Both(0) = Len(<<>>) + Len(<<>>)
    BY <2>1, KeptNothing
  <2> QED
    BY <2>2
<1>2. ASSUME NEW n \in Nat, n \in T PROVE n + 1 \in T
  <2> SUFFICES ASSUME n + 1 <= Len(s) PROVE Both(n + 1) = n + 1
    OBVIOUS
  <2> DEFINE a == Kept(SubSeq(s, 1, n), S)
             b == Kept(SubSeq(s, 1, n), R)
  <2>1. n < Len(s) /\ s[n + 1] \in E /\ SubSeq(s, 1, n) \in Seq(E)
    BY LenNat
  <2>2. a \in Seq(E) /\ b \in Seq(E)
    BY <2>1, KeptType
  <2>3. Both(n + 1) = Len(Keep(a, s[n + 1], S)) + Len(Keep(b, s[n + 1], R))
    BY <2>1, KeptOneMore
  <2>4. Both(n) = n
    BY <1>2, <2>1
  <2>5. Len(a) + Len(b) = n
    BY <2>4
  <2> DEFINE e == s[n + 1]
  <2> HIDE DEF a, b, e, Both
  <2>6. /\ Len(Append(a, e)) = Len(a) + 1 /\ Len(Append(b, e)) = Len(b) + 1
        /\ Len(a) \in Nat /\ Len(b) \in Nat
    BY <2>2
  <2>7. Both(n + 1) = Len(Keep(a, e, S)) + Len(Keep(b, e, R)) /\ e \in E
    BY <2>1, <2>3 DEF e
  <2>8. CASE e \in S
    <3>1. Keep(a, e, S) = Append(a, e) /\ Keep(b, e, R) = b
      BY <2>7, <2>8 DEF Keep
    <3> QED
      BY <2>5, <2>6, <2>7, <3>1
  <2>9. CASE e \notin S
    <3>1. Keep(a, e, S) = a /\ Keep(b, e, R) = Append(b, e)
      BY <2>7, <2>9 DEF Keep
    <3> QED
      BY <2>5, <2>6, <2>7, <3>1
  <2> QED
    BY <2>8, <2>9
<1>3. Len(s) \in T
  <2> HIDE DEF T
  <2> QED
    BY <1>1, <1>2, Induct, LenNat
<1>4. SubSeq(s, 1, Len(s)) = s
  OBVIOUS
<1>5. Both(Len(s)) = Len(s)
  BY <1>3, LenNat
<1> QED
  BY <1>4, <1>5

\* Two neighbouring pieces of a sequence.
LEMMA Pieces ==
  ASSUME NEW E, NEW s \in Seq(E), NEW a \in Nat, NEW b \in Nat, NEW c \in Nat,
         a <= b, b <= c, c <= Len(s)
  PROVE  SubSeq(s, a + 1, b) \o SubSeq(s, b + 1, c) = SubSeq(s, a + 1, c)
OBVIOUS

\* What is kept is of both.
LEMMA KeptFrom ==
  ASSUME NEW E, NEW s \in Seq(E), NEW S
  PROVE  Kept(s, S) \in Seq(E \cap S)
<1>1. PICK h : IsRun(h, E, s, S)
  BY KeptRun
<1> DEFINE T == {i \in Nat : i <= Len(s) => h[i] \in Seq(E \cap S)}
<1>2. 0 \in T
  BY <1>1 DEF IsRun
<1>3. ASSUME NEW i \in Nat, i \in T PROVE i + 1 \in T
  <2> SUFFICES ASSUME i + 1 <= Len(s) PROVE h[i + 1] \in Seq(E \cap S)
    OBVIOUS
  <2>1. i + 1 \in 1..Len(s) /\ (i + 1) - 1 = i /\ s[i + 1] \in E /\ i <= Len(s)
    BY LenNat
  <2>2. h[i] \in Seq(E \cap S) /\ h[i + 1] = Keep(h[i], s[i + 1], S)
    BY <1>1, <1>3, <2>1 DEF IsRun
  <2> QED
    BY <2>1, <2>2, AppendType DEF Keep
<1>4. Len(s) \in T
  <2> HIDE DEF T
  <2> QED
    BY <1>2, <1>3, Induct, LenNat
<1> QED
  BY <1>1, <1>4, LenNat DEF IsRun

-----------------------------------------------------------------------------
(* Each element once *)

\* one turn of the loop
AddNew(list, e) == IF e \in ToSet(list) THEN list ELSE Append(list, e)

LEMMA AddNewType ==
  ASSUME NEW E, NEW list \in Seq(E), NEW e \in E
  PROVE  AddNew(list, e) \in Seq(E)
BY AppendType DEF AddNew

\* nothing is repeated, and the element is there
LEMMA AddNewOnce ==
  ASSUME NEW E, NEW list \in Seq(E), NEW e \in E, IsInjective(list)
  PROVE  IsInjective(AddNew(list, e)) /\ ToSet(AddNew(list, e)) = ToSet(list) \cup {e}
<1> DEFINE longer == Append(list, e)
<1>1. /\ longer \in Seq(E) /\ Len(longer) = Len(list) + 1 /\ Len(list) \in Nat
      /\ longer[Len(list) + 1] = e
      /\ \A i \in 1..Len(list) : longer[i] = list[i]
      /\ DOMAIN list = 1..Len(list) /\ DOMAIN longer = 1..(Len(list) + 1)
  OBVIOUS
<1> HIDE DEF longer
<1>2. ToSet(longer) = ToSet(list) \cup {e}
  BY <1>1 DEF ToSet
<1>3. e \notin ToSet(list) => IsInjective(longer)
  BY <1>1 DEF ToSet, IsInjective
<1> QED
  BY <1>2, <1>3 DEF AddNew, longer

\* the lists it has built after each of its turns
IsAddRun(h, E, s) ==
  /\ h \in [0..Len(s) -> Seq(E)]
  /\ h[0] = <<>>
  /\ \A i \in 1..Len(s) : h[i] = AddNew(h[i - 1], s[i])
  /\ Distinct(s) = h[Len(s)]

LEMMA DistinctRun ==
  ASSUME NEW E, NEW s \in Seq(E)
  PROVE  \E h : IsAddRun(h, E, s)
<1> DEFINE n == Len(s)
           F == [p \in Seq(E) \X (1..n) |-> AddNew(p[1], s[p[2]])]
<1>1. <<>> \in Seq(E) /\ n \in Nat /\ DOMAIN s = 1..n /\ \A i \in 1..n : s[i] \in E
  OBVIOUS
<1>2. F \in [Seq(E) \X (1..n) -> Seq(E)]
  BY <1>1, AddNewType
<1>3. PICK g : IsLoop(g, Seq(E), <<>>, n, F)
  <2> HIDE DEF n, F
  <2> QED
    BY <1>1, <1>2, LoopTable
<1>4. ASSUME NEW t \in SUBSET (1..n), t # {}
      PROVE  g[t] = AddNew(g[t \ {Max(t)}], s[Max(t)])
  <2>1. Max(t) \in 1..n /\ t \ {Max(t)} \in SUBSET (1..n)
    BY <1>1, <1>4, MaxIsGreatest
  <2> QED
    BY <1>3, <1>4, <2>1 DEF IsLoop
<1>5. g = [t \in SUBSET (1..n) |-> IF t = {} THEN <<>> ELSE AddNew(g[t \ {Max(t)}], s[Max(t)])]
  BY <1>3, <1>4 DEF IsLoop
<1>6. PICK k : /\ k = [t \in SUBSET (1..n) |-> IF t = {} THEN <<>>
                                               ELSE AddNew(k[t \ {Max(t)}], s[Max(t)])]
               /\ Distinct(s) = k[1..n]
  <2> HIDE DEF n
  <2> QED
    BY <1>1, <1>5 DEF Distinct, FoldLeft, MapThenFoldSet, AddNew
<1> DEFINE h == [i \in 0..n |-> k[1..i]]
           T == {i \in Nat : i <= n => h[i] \in Seq(E)}
<1>7. h[0] = <<>>
  BY <1>1, <1>6
<1>8. ASSUME NEW i \in 1..n
      PROVE  h[i] = AddNew(h[i - 1], s[i])
  <2>1. i \in Nat /\ i # 0 /\ i - 1 \in 0..n /\ 1..i \in SUBSET (1..n)
    BY <1>1
  <2>2. k[1..i] = AddNew(k[(1..i) \ {Max(1..i)}], s[Max(1..i)])
    BY <2>1, <1>6, InitialSegment
  <2>3. h[i] = k[1..i] /\ h[i - 1] = k[1..(i - 1)]
    BY <2>1
  <2>4. Max(1..i) = i /\ (1..i) \ {i} = 1..(i - 1)
    BY <2>1, InitialSegment
  <2> HIDE DEF h
  <2> QED
    BY <2>2, <2>3, <2>4
<1>9. Nat \subseteq T
  <2>1. 0 \in T
    BY <1>1, <1>7
  <2>2. ASSUME NEW i \in Nat, i \in T PROVE i + 1 \in T
    <3> SUFFICES ASSUME i + 1 <= n PROVE h[i + 1] \in Seq(E)
      OBVIOUS
    <3>1. i + 1 \in 1..n /\ (i + 1) - 1 = i /\ i <= n
      BY <1>1
    <3>2. h[i] \in Seq(E)
      BY <2>2, <3>1
    <3>3. h[i + 1] = AddNew(h[i], s[i + 1])
      <4> HIDE DEF h
      <4> QED
        BY <1>8, <3>1
    <3> QED
      BY <1>1, <3>1, <3>2, <3>3, AddNewType
  <2> HIDE DEF T
  <2> QED
    BY <2>1, <2>2, Induct
<1>10. h \in [0..n -> Seq(E)]
  <2> SUFFICES ASSUME NEW i \in 0..n PROVE h[i] \in Seq(E)
    OBVIOUS
  <2>1. i \in Nat /\ i <= n
    BY <1>1
  <2> QED
    BY <1>9, <2>1
<1>11. Distinct(s) = h[n]
  BY <1>1, <1>6
<1> HIDE DEF h
<1> QED
  BY <1>7, <1>8, <1>10, <1>11 DEF IsAddRun

\* Distinct repeats nothing and leaves nothing out.
LEMMA DistinctType ==
  ASSUME NEW E, NEW s \in Seq(E)
  PROVE  /\ Distinct(s) \in Seq(E)
         /\ IsInjective(Distinct(s))
         /\ ToSet(Distinct(s)) = ToSet(s)
<1>1. PICK h : IsAddRun(h, E, s)
  BY DistinctRun
<1> DEFINE T == {i \in Nat : i <= Len(s) =>
                   IsInjective(h[i]) /\ ToSet(h[i]) = {s[j] : j \in 1..i}}
<1>2. 0 \in T
  BY <1>1 DEF IsAddRun, IsInjective, ToSet
<1>3. ASSUME NEW i \in Nat, i \in T PROVE i + 1 \in T
  <2> SUFFICES ASSUME i + 1 <= Len(s)
               PROVE  IsInjective(h[i + 1]) /\ ToSet(h[i + 1]) = {s[j] : j \in 1..(i + 1)}
    OBVIOUS
  <2>1. i + 1 \in 1..Len(s) /\ (i + 1) - 1 = i /\ s[i + 1] \in E /\ i <= Len(s) /\ i \in 0..Len(s)
    BY LenNat
  <2>2. h[i] \in Seq(E) /\ h[i + 1] = AddNew(h[i], s[i + 1])
    BY <1>1, <2>1 DEF IsAddRun
  <2>3. IsInjective(h[i]) /\ ToSet(h[i]) = {s[j] : j \in 1..i}
    BY <1>3, <2>1
  <2>4. IsInjective(h[i + 1]) /\ ToSet(h[i + 1]) = ToSet(h[i]) \cup {s[i + 1]}
    BY <2>1, <2>2, <2>3, AddNewOnce
  <2>5. {s[j] : j \in 1..(i + 1)} = {s[j] : j \in 1..i} \cup {s[i + 1]}
    OBVIOUS
  <2> QED
    BY <2>3, <2>4, <2>5
<1>4. Len(s) \in T
  <2> HIDE DEF T
  <2> QED
    BY <1>2, <1>3, Induct, LenNat
<1>5. ToSet(s) = {s[j] : j \in 1..Len(s)} /\ Len(s) \in 0..Len(s)
  BY LenNat DEF ToSet
<1> QED
  BY <1>1, <1>4, <1>5, LenNat DEF IsAddRun

-----------------------------------------------------------------------------
(* Sequences one after another *)

\* f tells what the first i of the sequences come to, one after another
IsFlattening(f, seqs) ==
  f = [i \in 1..Len(seqs) |-> IF i = 1 THEN seqs[i] ELSE f[i - 1] \o seqs[i]]

LEMMA Flattening ==
  ASSUME NEW E, NEW seqs \in Seq(Seq(E))
  PROVE  \E f : IsFlattening(f, seqs)
<1> DEFINE n == Len(seqs)
           F == [p \in Seq(E) \X (1..n) |-> IF p[2] = 1 THEN seqs[p[2]] ELSE p[1] \o seqs[p[2]]]
<1>1. <<>> \in Seq(E) /\ n \in Nat /\ \A i \in 1..n : seqs[i] \in Seq(E)
  OBVIOUS
<1>2. F \in [Seq(E) \X (1..n) -> Seq(E)]
  BY <1>1
<1>3. PICK g : IsLoop(g, Seq(E), <<>>, n, F)
  <2> HIDE DEF n, F
  <2> QED
    BY <1>1, <1>2, LoopTable
<1> DEFINE f == [i \in 1..n |-> g[1..i]]
<1>4. ASSUME NEW i \in 1..n
      PROVE  f[i] = IF i = 1 THEN seqs[i] ELSE f[i - 1] \o seqs[i]
  <2>1. i \in Nat /\ i # 0 /\ 1..i \in SUBSET (1..n) /\ 1..(i - 1) \in SUBSET (1..n)
    BY <1>1
  <2>2. 1..i # {} /\ Max(1..i) = i /\ (1..i) \ {i} = 1..(i - 1)
    BY <2>1, InitialSegment
  <2>3. g[1..i] = F[<<g[1..(i - 1)], i>>] /\ g[1..(i - 1)] \in Seq(E)
    <3> HIDE DEF F
    <3> QED
      BY <1>3, <2>1, <2>2 DEF IsLoop
  <2>4. i # 1 => i - 1 \in 1..n
    BY <1>1
  <2> QED
    BY <2>3, <2>4
<1>5. f = [i \in 1..Len(seqs) |-> IF i = 1 THEN seqs[i] ELSE f[i - 1] \o seqs[i]]
  <2>1. f = [i \in 1..n |-> f[i]]
    OBVIOUS
  <2> HIDE DEF f
  <2> QED
    BY <1>4, <2>1
<1> HIDE DEF f
<1> QED
  BY <1>5 DEF IsFlattening

\* FlattenSeq invents no element.
LEMMA FlattenType ==
  ASSUME NEW E, NEW seqs \in Seq(Seq(E))
  PROVE  FlattenSeq(seqs) \in Seq(E)
<1>1. Len(seqs) \in Nat /\ \A i \in 1..Len(seqs) : seqs[i] \in Seq(E)
  OBVIOUS
<1>2. CASE Len(seqs) = 0
  <2>1. FlattenSeq(seqs) = seqs
    BY <1>2 DEF FlattenSeq
  <2>2. seqs \in Seq(E)
    BY <1>2
  <2> QED
    BY <2>1, <2>2
<1>3. CASE Len(seqs) # 0
  <2>1. PICK f : IsFlattening(f, seqs) /\ FlattenSeq(seqs) = f[Len(seqs)]
    BY <1>3, Flattening DEF FlattenSeq, IsFlattening
  <2> DEFINE T == {i \in Nat : i \in 1..Len(seqs) => f[i] \in Seq(E)}
  <2>2. 0 \in T
    OBVIOUS
  <2>3. ASSUME NEW i \in Nat, i \in T PROVE i + 1 \in T
    <3> SUFFICES ASSUME i + 1 \in 1..Len(seqs) PROVE f[i + 1] \in Seq(E)
      OBVIOUS
    <3>1. f[i + 1] = IF i + 1 = 1 THEN seqs[i + 1] ELSE f[(i + 1) - 1] \o seqs[i + 1]
      BY <2>1 DEF IsFlattening
    <3>2. CASE i = 0
      BY <1>1, <3>1, <3>2
    <3>3. CASE i # 0
      <4>1. f[i] \in Seq(E) /\ seqs[i + 1] \in Seq(E) /\ (i + 1) - 1 = i
        BY <1>1, <2>3, <3>3
      <4> QED
        BY <3>1, <3>3, <4>1, JoinType
    <3> QED
      BY <3>2, <3>3
  <2>4. Len(seqs) \in T
    <3> HIDE DEF T
    <3> QED
      BY <1>1, <2>2, <2>3, Induct
  <2> QED
    BY <1>1, <1>3, <2>1, <2>4
<1> QED
  BY <1>2, <1>3

-----------------------------------------------------------------------------
(* Orders *)

\* An order of a finite set: it has every element, once.
LEMMA OrderType ==
  ASSUME NEW S, IsFiniteSet(S), NEW s \in SetToSeqs(S)
  PROVE  /\ s \in Seq(S) /\ Len(s) = Cardinality(S)
         /\ IsInjective(s)
         /\ ToSet(s) = S
<1> DEFINE n == Cardinality(S)
<1>1. n \in Nat
  BY FS_CardinalityType
<1>2. s \in [1..n -> S] /\ \A i, j \in 1..n : i # j => s[i] # s[j]
  BY DEF SetToSeqs
<1>3. s \in Injection(1..n, S)
  BY <1>2 DEF Injection, IsInjective
<1>4. IsFiniteSet(1..n) /\ Cardinality(1..n) = n
  BY <1>1, FS_Interval
<1>5. s \in Surjection(1..n, S)
  BY <1>3, <1>4, FS_Injection
<1>6. s \in Seq(S) /\ Len(s) = n
  BY <1>1, <1>2
<1>7. IsInjective(s)
  BY <1>2 DEF IsInjective
<1>8. ToSet(s) = S
  BY <1>2, <1>5 DEF Surjection, ToSet
<1> QED
  BY <1>6, <1>7, <1>8

-----------------------------------------------------------------------------
(* What is kept, joined and replaced *)

\* What is kept is all there is of both.
LEMMA KeptRange ==
  ASSUME NEW E, NEW s \in Seq(E), NEW S
  PROVE  Range(Kept(s, S)) = Range(s) \cap S
<1>1. PICK h : IsRun(h, E, s, S)
  BY KeptRun
<1> DEFINE T == {i \in Nat : i <= Len(s) => Range(h[i]) = {s[j] : j \in 1..i} \cap S}
<1>2. 0 \in T
  BY <1>1 DEF IsRun, Range
<1>3. ASSUME NEW i \in Nat, i \in T PROVE i + 1 \in T
  <2> SUFFICES ASSUME i + 1 <= Len(s)
               PROVE  Range(h[i + 1]) = {s[j] : j \in 1..(i + 1)} \cap S
    OBVIOUS
  <2>1. i + 1 \in 1..Len(s) /\ (i + 1) - 1 = i /\ s[i + 1] \in E /\ i <= Len(s) /\ i \in 0..Len(s)
    BY LenNat
  <2>2. h[i] \in Seq(E) /\ h[i + 1] = Keep(h[i], s[i + 1], S)
    BY <1>1, <2>1 DEF IsRun
  <2>3. Range(h[i]) = {s[j] : j \in 1..i} \cap S
    BY <1>3, <2>1
  <2>4. Range(Append(h[i], s[i + 1])) = Range(h[i]) \cup {s[i + 1]}
    <3> DEFINE list == h[i]
               e == s[i + 1]
               longer == Append(list, e)
    <3>1. /\ Len(longer) = Len(list) + 1 /\ Len(list) \in Nat
          /\ longer[Len(list) + 1] = e
          /\ \A j \in 1..Len(list) : longer[j] = list[j]
          /\ DOMAIN list = 1..Len(list) /\ DOMAIN longer = 1..(Len(list) + 1)
      <4>1. list \in Seq(E) /\ e \in E
        BY <2>1, <2>2
      <4> HIDE DEF list, e
      <4> QED
        BY <4>1
    <3> HIDE DEF longer, list, e
    <3>2. Range(longer) = Range(list) \cup {e}
      BY <3>1 DEF Range
    <3> QED
      BY <3>2 DEF longer, list, e
  <2>5. {s[j] : j \in 1..(i + 1)} = {s[j] : j \in 1..i} \cup {s[i + 1]}
    OBVIOUS
  <2> QED
    BY <2>2, <2>3, <2>4, <2>5 DEF Keep
<1>4. Len(s) \in T
  <2> HIDE DEF T
  <2> QED
    BY <1>2, <1>3, Induct, LenNat
<1>5. Range(s) = {s[j] : j \in 1..Len(s)}
  BY DEF Range
<1> QED
  BY <1>1, <1>4, <1>5, LenNat DEF IsRun

\* Two sequences, one after the other.
LEMMA JoinRange ==
  ASSUME NEW E, NEW s \in Seq(E), NEW t \in Seq(E)
  PROVE  Range(s \o t) = Range(s) \cup Range(t)
<1>1. /\ DOMAIN s = 1..Len(s) /\ DOMAIN t = 1..Len(t) /\ DOMAIN (s \o t) = 1..(Len(s) + Len(t))
      /\ Len(s) \in Nat /\ Len(t) \in Nat
      /\ \A i \in 1..(Len(s) + Len(t)) :
            (s \o t)[i] = IF i <= Len(s) THEN s[i] ELSE t[i - Len(s)]
  OBVIOUS
<1> DEFINE both == s \o t
<1>2. \A i \in DOMAIN s : i \in DOMAIN both /\ both[i] = s[i]
  BY <1>1
<1>3. \A i \in DOMAIN t : i + Len(s) \in DOMAIN both /\ both[i + Len(s)] = t[i]
  BY <1>1
<1>4. \A i \in DOMAIN both : both[i] \in Range(s) \cup Range(t)
  <2> SUFFICES ASSUME NEW i \in DOMAIN both PROVE both[i] \in Range(s) \cup Range(t)
    OBVIOUS
  <2>1. CASE i <= Len(s)
    BY <1>1, <2>1 DEF Range
  <2>2. CASE ~(i <= Len(s))
    <3>1. i - Len(s) \in DOMAIN t /\ both[i] = t[i - Len(s)]
      BY <1>1, <2>2
    <3> QED
      BY <3>1 DEF Range
  <2> QED
    BY <2>1, <2>2
<1> HIDE DEF both
<1>5. Range(both) = Range(s) \cup Range(t)
  BY <1>2, <1>3, <1>4 DEF Range
<1> QED
  BY <1>5 DEF both

LEMMA JoinAt ==
  ASSUME NEW E, NEW s \in Seq(E), NEW t \in Seq(E), NEW i \in 1..Len(t)
  PROVE  Len(s) + i \in DOMAIN (s \o t) /\ (s \o t)[Len(s) + i] = t[i]
OBVIOUS

\* FlattenSeq leaves no element out.
LEMMA FlattenRange ==
  ASSUME NEW E, NEW seqs \in Seq(Seq(E)), NEW n \in 1..Len(seqs)
  PROVE  Range(seqs[n]) \subseteq Range(FlattenSeq(seqs))
<1>1. Len(seqs) \in Nat /\ Len(seqs) # 0 /\ \A i \in 1..Len(seqs) : seqs[i] \in Seq(E)
  OBVIOUS
<1>2. PICK f : IsFlattening(f, seqs) /\ FlattenSeq(seqs) = f[Len(seqs)]
  BY <1>1, Flattening DEF FlattenSeq, IsFlattening
<1> DEFINE T == {i \in Nat : i \in 1..Len(seqs) =>
                   f[i] \in Seq(E) /\ (n <= i => Range(seqs[n]) \subseteq Range(f[i]))}
<1>3. 0 \in T
  OBVIOUS
<1>4. ASSUME NEW i \in Nat, i \in T PROVE i + 1 \in T
  <2> SUFFICES ASSUME i + 1 \in 1..Len(seqs)
               PROVE  f[i + 1] \in Seq(E) /\ (n <= i + 1 => Range(seqs[n]) \subseteq Range(f[i + 1]))
    OBVIOUS
  <2>1. f[i + 1] = IF i + 1 = 1 THEN seqs[i + 1] ELSE f[(i + 1) - 1] \o seqs[i + 1]
    BY <1>2 DEF IsFlattening
  <2>2. CASE i = 0
    BY <1>1, <2>1, <2>2
  <2>3. CASE i # 0
    <3>1. f[i] \in Seq(E) /\ (n <= i => Range(seqs[n]) \subseteq Range(f[i])) /\ (i + 1) - 1 = i
      BY <1>1, <1>4, <2>3
    <3>2. f[i + 1] = f[i] \o seqs[i + 1] /\ seqs[i + 1] \in Seq(E)
      <4>1. i + 1 # 1 /\ i + 1 \in 1..Len(seqs)
        BY <2>3
      <4>2. f[i + 1] = f[(i + 1) - 1] \o seqs[i + 1]
        BY <2>1, <4>1
      <4> QED
        BY <1>1, <3>1, <4>1, <4>2
    <3>3. f[i + 1] \in Seq(E) /\ Range(f[i + 1]) = Range(f[i]) \cup Range(seqs[i + 1])
      BY <3>1, <3>2, JoinType, JoinRange
    <3>4. n <= i + 1 => n <= i \/ n = i + 1
      OBVIOUS
    <3> QED
      BY <3>1, <3>3, <3>4
  <2> QED
    BY <2>2, <2>3
<1>5. Len(seqs) \in T
  <2> HIDE DEF T
  <2> QED
    BY <1>1, <1>3, <1>4, Induct
<1> QED
  BY <1>1, <1>2, <1>5

LEMMA JoinParts ==
  ASSUME NEW E, NEW s \in Seq(E), NEW t \in Seq(E)
  PROVE  /\ s \o t \in Seq(E) /\ Len(s \o t) = Len(s) + Len(t)
         /\ \A i \in 1..Len(s) : (s \o t)[i] = s[i]
         /\ \A i \in 1..Len(t) : (s \o t)[Len(s) + i] = t[i]
OBVIOUS

\* new is t with r in place of the s that follows the first p elements
IsReplacement(new, t, s, r, p) ==
  /\ p + Len(s) <= Len(t)
  /\ \A j \in 1..Len(s) : t[p + j] = s[j]
  /\ Len(new) = Len(t) - Len(s) + Len(r)
  /\ \A i \in 1..p : new[i] = t[i]
  /\ \A i \in p + Len(s) + 1..Len(t) : new[i - Len(s) + Len(r)] = t[i]

LEMMA OneReplacement ==
  ASSUME NEW E, NEW a \in Seq(E), NEW t \in Seq(E), NEW s \in Seq(E), NEW r \in Seq(E),
         IsPrefix(s, t)
  PROVE  LET b == SubSeq(t, Len(s) + 1, Len(t))
         IN b \in Seq(E) /\ IsReplacement((a \o r) \o b, a \o t, s, r, Len(a))
<1> DEFINE b == SubSeq(t, Len(s) + 1, Len(t))
           c == a \o r
           old == a \o t
           new == c \o b
<1>1. Len(a) \in Nat /\ Len(t) \in Nat /\ Len(s) \in Nat /\ Len(r) \in Nat /\ Len(s) <= Len(t)
  BY LenNat DEF IsPrefix
<1>2. \A j \in 1..Len(s) : t[j] = s[j]
  <2>1. SubSeq(s, 1, Len(s)) = SubSeq(t, 1, Len(s))
    BY DEF IsPrefix
  <2>2. \A j \in 1..Len(s) : SubSeq(s, 1, Len(s))[j] = s[j] /\ SubSeq(t, 1, Len(s))[j] = t[j]
    BY <1>1
  <2> QED
    BY <2>1, <2>2
<1>3. /\ b \in Seq(E) /\ Len(b) = Len(t) - Len(s)
      /\ \A i \in 1..(Len(t) - Len(s)) : b[i] = t[Len(s) + i]
  BY <1>1
<1> HIDE DEF b
<1>4. /\ c \in Seq(E) /\ Len(c) = Len(a) + Len(r)
      /\ \A i \in 1..Len(a) : c[i] = a[i]
  BY JoinParts
<1>5. /\ Len(old) = Len(a) + Len(t)
      /\ \A i \in 1..Len(a) : old[i] = a[i]
      /\ \A i \in 1..Len(t) : old[Len(a) + i] = t[i]
  BY JoinParts
<1> HIDE DEF c, old
<1>6. /\ Len(new) = Len(c) + Len(b)
      /\ \A i \in 1..Len(c) : new[i] = c[i]
      /\ \A i \in 1..Len(b) : new[Len(c) + i] = b[i]
  <2>0. b \in Seq(E) /\ c \in Seq(E)
    BY <1>3, <1>4
  <2>1. new = c \o b
    OBVIOUS
  <2> HIDE DEF new
  <2>2. /\ Len(c \o b) = Len(c) + Len(b)
        /\ \A i \in 1..Len(c) : (c \o b)[i] = c[i]
        /\ \A i \in 1..Len(b) : (c \o b)[Len(c) + i] = b[i]
    BY <2>0, JoinParts
  <2> QED
    BY <2>1, <2>2
<1> HIDE DEF new
<1>7. \A i \in 1..Len(a) : new[i] = old[i]
  <2>1. \A i \in 1..Len(a) : i \in 1..Len(c)
    BY <1>1, <1>4
  <2> QED
    BY <1>4, <1>5, <1>6, <2>1
<1>8. ASSUME NEW i \in Len(a) + Len(s) + 1..Len(old) PROVE new[i - Len(s) + Len(r)] = old[i]
  <2> DEFINE j == i - Len(s) - Len(a)
  <2>1. /\ j \in 1..Len(b) /\ Len(c) + j = i - Len(s) + Len(r)
        /\ Len(s) + j \in 1..Len(t) /\ Len(a) + (Len(s) + j) = i
    BY <1>1, <1>3, <1>4, <1>5
  <2> HIDE DEF j
  <2>2. new[Len(c) + j] = b[j] /\ b[j] = t[Len(s) + j]
    BY <1>3, <1>6, <2>1
  <2>3. old[Len(a) + (Len(s) + j)] = t[Len(s) + j]
    BY <1>5, <2>1
  <2> QED
    BY <2>1, <2>2, <2>3
<1>9. /\ Len(a) + Len(s) <= Len(old)
      /\ \A j \in 1..Len(s) : old[Len(a) + j] = s[j]
      /\ Len(new) = Len(old) - Len(s) + Len(r)
  BY <1>1, <1>2, <1>3, <1>4, <1>5, <1>6
<1>10. IsReplacement(new, old, s, r, Len(a))
  BY <1>7, <1>8, <1>9 DEF IsReplacement
<1> QED
  BY <1>3, <1>10 DEF b, c, old, new

\* Moving on by an element.
LEMMA MovedOn ==
  ASSUME NEW E, NEW a \in Seq(E), NEW t \in Seq(E), t # <<>>
  PROVE  /\ Append(a, Head(t)) \in Seq(E) /\ Tail(t) \in Seq(E)
         /\ Append(a, Head(t)) \o Tail(t) = a \o t
OBVIOUS

=============================================================================
