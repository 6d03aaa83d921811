------------------------- MODULE ResolutionPlanProofs -------------------------
(***************************************************************************)
(* What the resolver's plan holds, for any message and any hint.           *)
(***************************************************************************)
EXTENDS ResolutionPlan, SequenceLemmas

\* The lookups of a message are for what it says.
Saying(lookups, values) == \A l \in lookups : l.value.of \in values

LEMMA LookupsType ==
  ASSUME NEW d, NEW numeric \in BOOLEAN
  PROVE  /\ LookupsOf(d, numeric) \in Seq(ToSet(LookupsOf(d, numeric)))
         /\ Saying(ToSet(LookupsOf(d, numeric)), {IF numeric THEN WholeInput ELSE d.value})
<1>1. ASSUME NEW types, NEW n \in Nat, DOMAIN types = 1..n, NEW value
      PROVE  /\ ByPrefix(types, value) \in Seq(ToSet(ByPrefix(types, value)))
             /\ Saying(ToSet(ByPrefix(types, value)), {value})
  BY <1>1 DEF ByPrefix, Lookup, Saying, ToSet
<1>2. DOMAIN NumericTypes = 1..4 /\ DOMAIN AllPatternTypes = 1..10
  BY DEF NumericTypes, AllPatternTypes
<1>3. CASE numeric
  BY <1>1, <1>2, <1>3 DEF LookupsOf
<1>4. CASE ~numeric /\ d.type = "unknown_token"
  BY <1>1, <1>2, <1>4 DEF LookupsOf
<1>5. CASE ~numeric /\ d.type # "unknown_token"
  <2> DEFINE one == Lookup(Primary(d.type)[1], Primary(d.type)[2], "eq", "itself", d.value)
             other == IF d.type = "customer_number"
                      THEN Lookup("order", "order.customer_id", "eq", "customerId", d.value)
                      ELSE Lookup("order", "order.customer_email", "eq", "itself", d.value)
  <2>1. one.value.of = d.value /\ other.value.of = d.value
    BY DEF Lookup
  <2>2. Secondary(d) = <<other>> \/ Secondary(d) = <<>>
    BY DEF Secondary
  <2>3. LookupsOf(d, numeric) = <<one>> \o Secondary(d)
    BY <1>5 DEF LookupsOf
  <2> HIDE DEF one, other
  <2>4. <<one>> \in Seq({one, other}) /\ Secondary(d) \in Seq({one, other})
    <3> DEFINE both == {one, other}
    <3>1. one \in both /\ other \in both
      OBVIOUS
    <3> HIDE DEF both
    <3>2. <<one>> \in Seq(both) /\ <<other>> \in Seq(both) /\ <<>> \in Seq(both)
      BY <3>1
    <3>3. Secondary(d) \in Seq(both)
      BY <2>2, <3>2
    <3> QED
      BY <3>2, <3>3 DEF both
  <2>5. LookupsOf(d, numeric) \in Seq({one, other})
    BY <2>3, <2>4, JoinType
  <2>6. ToSet(LookupsOf(d, numeric)) \subseteq {one, other}
        /\ LookupsOf(d, numeric) \in Seq(ToSet(LookupsOf(d, numeric)))
    BY <2>5 DEF ToSet
  <2> QED
    BY <1>5, <2>1, <2>6 DEF Saying
<1> QED
  BY <1>3, <1>4, <1>5

\* A plan has no lookup twice, and each is for a value of the message.
LEMMA PlanType ==
  ASSUME NEW m \in Message, NEW hint
  PROVE  /\ Plan(m, hint) \in Seq(ToSet(Plan(m, hint)))
         /\ IsInjective(Plan(m, hint))
         /\ Saying(ToSet(Plan(m, hint)), Identifiers(m))
<1> DEFINE of == [i \in DOMAIN m.detected |-> LookupsOf(m.detected[i], m.numeric)]
           E == UNION {ToSet(of[i]) : i \in DOMAIN m.detected}
<1>1. m.numeric \in BOOLEAN /\ m.detected \in Seq([type : IdentifierTypes, value : Nat])
  BY DEF Message
<1>2. DOMAIN m.detected = 1..Len(m.detected) /\ Len(m.detected) \in Nat
  BY <1>1
<1>3. ASSUME NEW i \in DOMAIN m.detected
      PROVE  /\ of[i] \in Seq(ToSet(of[i])) /\ ToSet(of[i]) \subseteq E
             /\ Saying(ToSet(of[i]), Identifiers(m))
  <2>1. of[i] = LookupsOf(m.detected[i], m.numeric)
    OBVIOUS
  <2>2. m.detected[i].value \in {d.value : d \in Detected(m)}
    BY DEF Detected, ToSet
  <2>3. (IF m.numeric THEN WholeInput ELSE m.detected[i].value) \in Identifiers(m)
    BY <2>2 DEF Identifiers
  <2>4. ToSet(of[i]) \subseteq E
    OBVIOUS
  <2> QED
    BY <1>1, <2>1, <2>3, <2>4, LookupsType DEF Saying
<1>4. of \in Seq(Seq(E)) /\ Saying(E, Identifiers(m))
  <2>1. \A i \in 1..Len(m.detected) : of[i] \in Seq(E)
    <3>1. ASSUME NEW i \in 1..Len(m.detected) PROVE of[i] \in Seq(E)
      <4>1. of[i] \in Seq(ToSet(of[i])) /\ ToSet(of[i]) \subseteq E
        BY <1>2, <1>3
      <4> HIDE DEF of, E
      <4> QED
        BY <4>1
    <3> QED
      BY <3>1
  <2>2. DOMAIN of = 1..Len(m.detected) /\ of = [i \in 1..Len(m.detected) |-> of[i]]
    BY <1>2
  <2>3. Saying(E, Identifiers(m))
    <3> HIDE DEF of
    <3> QED
      BY <1>3 DEF Saying
  <2> HIDE DEF of, E
  <2> QED
    BY <1>2, <2>1, <2>2, <2>3
<1>5. AllLookups(m) \in Seq(E)
  <2>1. AllLookups(m) = FlattenSeq(of)
    BY DEF AllLookups
  <2> HIDE DEF of, E
  <2> QED
    BY <1>4, <2>1, FlattenType
<1> HIDE DEF of, E
<1>6. Hinted(AllLookups(m), hint) \in Seq(E)
  BY <1>5, KeptType DEF Hinted
<1>7. Plan(m, hint) \in Seq(E) /\ IsInjective(Plan(m, hint))
  BY <1>6, DistinctType DEF Plan, DedupeGroups
<1>8. ToSet(Plan(m, hint)) \subseteq E /\ Plan(m, hint) \in Seq(ToSet(Plan(m, hint)))
  <2> DEFINE p == Plan(m, hint)
  <2> HIDE DEF p
  <2>1. p \in Seq(E) => ToSet(p) \subseteq E /\ p \in Seq(ToSet(p))
    BY DEF ToSet
  <2> QED
    BY <1>7, <2>1 DEF p
<1> QED
  BY <1>4, <1>7, <1>8 DEF Saying

=============================================================================
