------------------------ MODULE SearchServiceProofs ------------------------
(***************************************************************************)
(* Theorems about SearchService for every value of its constants: its type *)
(* invariant, and that whatever Search and Detail answer was judged during *)
(* the same request.                                                       *)
(***************************************************************************)
EXTENDS SearchService, SequenceLemmas

USE SearchConstants

-----------------------------------------------------------------------------
(* Windows and replies *)

LEMMA LesserType ==
  ASSUME NEW a \in Nat, NEW b \in Nat
  PROVE  Lesser(a, b) \in Nat /\ Lesser(a, b) <= a /\ Lesser(a, b) <= b
BY DEF Lesser

LEMMA WindowType ==
  ASSUME NEW s \in Seq(Copy), NEW from \in Nat, NEW l \in Nat
  PROVE  WindowAt(s, from, l) \in Seq(Copy)
<1>1. PageSize(l) \in Nat
  BY DEF PageSize, Lesser
<1>2. WindowFactor * PageSize(l) \in Nat
  BY <1>1
<1>3. WindowSize(l) \in Nat
  BY <1>2, LesserType DEF WindowSize
<1>4. /\ Lesser(from + WindowSize(l), Len(s)) \in Nat
      /\ Lesser(from + WindowSize(l), Len(s)) <= Len(s)
  <2>1. from + WindowSize(l) \in Nat /\ Len(s) \in Nat
    BY <1>3, LenNat
  <2> QED
    BY <2>1, LesserType
<1> QED
  BY <1>4 DEF WindowAt

LEMMA FreshType ==
  ASSUME TypeOK, NEW n \in Nat, NEW w \in Seq(Copy), NEW S \in SUBSET Copy
  PROVE  Fresh(n, w, S) \in History
BY DEF TypeOK, Fresh, History, Denied

LEMMA PageType ==
  ASSUME NEW items \in Seq(Copy), NEW h \in Nat, NEW ids \in Seq(Id), NEW r \in ReasonCodes
  PROVE  [status |-> "page", items |-> items, hiddenCount |-> h,
          placeholders |-> ids, reason |-> r] \in Reply
BY DEF Reply, Status

LEMMA SayType == ASSUME NEW x \in Status PROVE Say(x) \in Reply
BY DEF Say, Reply

-----------------------------------------------------------------------------
(* Type correctness *)

LEMMA InitType == Init => TypeOK
<1> SUFFICES ASSUME Init PROVE TypeOK
  OBVIOUS
<1>1. Say("none") \in Reply
  BY SayType DEF Status
<1>2. Fresh(0, <<>>, {}) \in History
  BY DEF Init, Fresh, History, Denied
<1> QED
  BY <1>1, <1>2 DEF Init, TypeOK

LEMMA NextType == TypeOK /\ [Next]_vars => TypeOK'
<1> SUFFICES ASSUME TypeOK, [Next]_vars PROVE TypeOK'
  OBVIOUS
<1>a. \A x \in Status : Say(x) \in Reply
  BY SayType
<1>b. \A n \in Nat : Fresh(n, <<>>, {}) \in History
  <2>1. <<>> \in Seq(Copy) /\ {} \in SUBSET Copy
    OBVIOUS
  <2> QED
    BY <2>1, FreshType
<1>1. ASSUME NEW l \in Limits, NEW start \in Starts, Open(l, start) PROVE TypeOK'
  BY <1>1, <1>b DEF TypeOK, Open, Goto
<1>2. CASE Reject
  BY <1>2, <1>a DEF TypeOK, Reject, Goto, search, Status
<1>3. CASE Accept
  BY <1>3 DEF TypeOK, Accept, Goto, search
<1>4. CASE Count
  BY <1>4 DEF TypeOK, Count, Goto
<1>5. CASE Select
  <2>1. window' \in Seq(Copy)
    BY <1>5, WindowType DEF TypeOK, Select
  <2>2. cursor' \in Nat \cup {NoCursor}
    BY <1>5, <2>1 DEF TypeOK, Select, NextCursor
  <2>3. seen' \in History
    <3>1. seen.windows \o window' \in Seq(Copy)
      BY <2>1 DEF TypeOK, History
    <3> QED
      BY <1>5, <3>1 DEF TypeOK, Select, History
  <2> QED
    BY <1>5, <2>1, <2>2, <2>3 DEF TypeOK, Select, Goto
<1>6. CASE Judge
  <2>1. Head(window) \in Copy /\ Tail(window) \in Seq(Copy)
    BY <1>6 DEF TypeOK, Judge
  <2>2. Head(window).id \in Id
    BY <2>1 DEF Copy
  <2>3. /\ Append(allowed, Head(window)) \in Seq(Copy)
        /\ Append(hidden, Head(window).id) \in Seq(Id)
    BY <2>1, <2>2 DEF TypeOK
  <2> QED
    BY <1>6, <2>1, <2>3 DEF TypeOK, Judge
<1>7. CASE Compose
  <2> DEFINE n == Lesser(Len(allowed), ItemsAtMost(limit))
             m == Lesser(Len(hidden), MaxPlaceholders)
  <2>1. n \in Nat /\ n <= Len(allowed) /\ m \in Nat /\ m <= Len(hidden)
    <3>1. ItemsAtMost(limit) \in Nat
      BY DEF TypeOK, ItemsAtMost
    <3>2. Len(allowed) \in Nat /\ Len(hidden) \in Nat
      BY LenNat DEF TypeOK
    <3> QED
      BY <3>1, <3>2, LesserType
  <2>2. SubSeq(allowed, 1, n) \in Seq(Copy) /\ SubSeq(hidden, 1, m) \in Seq(Id)
    BY <2>1, PrefixType DEF TypeOK
  <2>3. \A t, c, a, h : ReasonCode(t, c, a, h) \in ReasonCodes
    BY DEF ReasonCode, ReasonCodes
  <2>4. /\ reply' = [status |-> "page", items |-> SubSeq(allowed, 1, n),
                     hiddenCount |-> Len(hidden), placeholders |-> SubSeq(hidden, 1, m),
                     reason |-> reply'.reason]
        /\ reply'.reason \in ReasonCodes
    BY <1>7, <2>3 DEF Compose
  <2>5. reply' \in Reply
    <3>1. Len(hidden) \in Nat
      BY LenNat DEF TypeOK
    <3> HIDE DEF n, m
    <3>2. [status |-> "page", items |-> SubSeq(allowed, 1, n),
           hiddenCount |-> Len(hidden), placeholders |-> SubSeq(hidden, 1, m),
           reason |-> reply'.reason] \in Reply
      BY <2>2, <2>4, <3>1, PageType
    <3> QED
      BY <2>4, <3>2, Zenon
  <2>6. seen' \in History
    <3>1. ToSet(SubSeq(allowed, 1, n)) \in SUBSET Copy
      BY <2>2 DEF ToSet
    <3>2. seen' = [seen EXCEPT !.shown = seen.shown \cup ToSet(SubSeq(allowed, 1, n))]
      BY <1>7 DEF Compose
    <3> HIDE DEF n, m
    <3> QED
      BY <3>1, <3>2 DEF TypeOK, History
  <2>7. <<>> \in Seq(Copy) /\ <<>> \in Seq(Id)
    OBVIOUS
  <2>8. /\ pc' = "replied" /\ allowed' = <<>> /\ hidden' = <<>> /\ total' = 0
        /\ UNCHANGED <<table, visible, edits, limit, offset, window, cursor, copy>>
    BY <1>7 DEF Compose, Goto
  <2> QED
    BY <2>5, <2>6, <2>7, <2>8 DEF TypeOK
<1>8. CASE Follow
  <2>1. seen' \in History
    BY <1>8, FreshType DEF Follow, TypeOK, History
  <2> QED
    BY <1>8, <2>1 DEF Follow, TypeOK, Goto
<1>9. CASE Finish
  BY <1>9 DEF TypeOK, Finish, Goto, search
<1>10. CASE OpenDetail
  BY <1>10, <1>b DEF TypeOK, OpenDetail, Goto, search
<1>11. ASSUME NEW id \in Id, Fetch(id) PROVE TypeOK'
  <2>1. ToSet(table) \subseteq Copy
    BY DEF TypeOK, ToSet
  <2> QED
    BY <1>11, <1>a, <2>1 DEF TypeOK, Fetch, Status
<1>12. CASE JudgeDetail
  <2>1. copy \in visible => [Say("document") EXCEPT !.items = <<copy>>] \in Reply
    <3>1. copy \in visible => <<copy>> \in Seq(Copy)
      BY DEF TypeOK
    <3>2. Say("document") \in Reply
      BY <1>a DEF Status
    <3> QED
      BY <3>1, <3>2 DEF Reply
  <2> QED
    BY <1>12, <1>a, <2>1 DEF TypeOK, JudgeDetail, Goto, Status
<1>13. CASE Fail
  BY <1>13, <1>a DEF TypeOK, Fail, Status
<1>14. CASE StartOver
  BY <1>14, <1>a, <1>b DEF TypeOK, StartOver, Goto, Status
<1>15. CASE Edit
  <2>1. table' \in Seq(Copy) /\ visible' \subseteq Copy
    <3>1. CASE EditTable
      <4>1. ASSUME NEW i \in DOMAIN table, NEW x \in Content
            PROVE  [table EXCEPT ![i].content = x] \in Seq(Copy)
        <5>0. table[i] \in Copy
          BY DEF TypeOK
        <5>1. [table[i] EXCEPT !.content = x] \in Copy
          BY <5>0 DEF Copy
        <5> QED
          BY <5>1 DEF TypeOK
      <4>2. table \in Seq(Copy) /\ visible' \subseteq Copy
        BY <3>1 DEF TypeOK, EditTable
      <4>3. \/ \E c \in Copy, i \in 1..Len(table) + 1 : table' = InsertAt(table, i, c)
            \/ \E i \in DOMAIN table : table' = RemoveAt(table, i)
            \/ \E i \in DOMAIN table, x \in Content : table' = [table EXCEPT ![i].content = x]
        BY <3>1 DEF EditTable
      <4>4. ASSUME NEW c \in Copy, NEW i \in 1..Len(table) + 1 PROVE InsertAt(table, i, c) \in Seq(Copy)
        BY InsertAtType DEF TypeOK
      <4>5. ASSUME NEW i \in DOMAIN table PROVE RemoveAt(table, i) \in Seq(Copy)
        BY RemoveAtType DEF TypeOK
      <4> QED
        BY <4>1, <4>2, <4>3, <4>4, <4>5, Zenon
    <3>2. CASE EditPolicy
      BY <3>2 DEF TypeOK, EditPolicy
    <3> QED
      BY <1>15, <3>1, <3>2 DEF Edit
  <2>2. seen' \in History
    BY <1>15, <2>1 DEF Edit, TypeOK, History, Denied
  <2>3. edits' \in 0..MaxEdits
    BY <1>15 DEF Edit, TypeOK
  <2> QED
    BY <1>15, <2>1, <2>2, <2>3 DEF Edit, TypeOK, search
<1>16. CASE UNCHANGED vars
  BY <1>16 DEF TypeOK, vars, search
<1> QED
  BY <1>1, <1>2, <1>3, <1>4, <1>5, <1>6, <1>7, <1>8, <1>9, <1>10, <1>11,
     <1>12, <1>13, <1>14, <1>15, <1>16 DEF Next, Serve

\* Every variable keeps its type in every behaviour of the service.
THEOREM TypeCorrect == Spec => []TypeOK
BY InitType, NextType, PTL DEF Spec

-----------------------------------------------------------------------------
(* Whatever is answered was judged *)

LEMMA InitJudged == Init => JudgedSoFar
<1> SUFFICES ASSUME Init PROVE JudgedSoFar
  OBVIOUS
<1>1. AnswersWereJudged
  BY DEF Init, AnswersWereJudged
<1>2. visible \subseteq seen.allowed /\ Denied \subseteq seen.denied
  BY DEF Init, Fresh
<1> QED
  BY <1>1, <1>2, InitType DEF Init, JudgedSoFar

\* a step that gathers nothing and answers nothing
LEMMA QuietStep ==
  ASSUME JudgedSoFar, TypeOK', pc # "judge", pc' \notin {"replied", "over"},
         UNCHANGED <<visible, allowed, hidden>>,
         \/ seen'.allowed = visible /\ seen'.denied = Denied
         \/ seen'.allowed = seen.allowed /\ seen'.denied = seen.denied
  PROVE  JudgedSoFar'
BY DEF JudgedSoFar, AnswersWereJudged, Denied

\* a step that answers with no document at all
LEMMA BareAnswer ==
  ASSUME JudgedSoFar, TypeOK', NEW x \in Status, reply' = Say(x),
         allowed' = <<>>, hidden' = <<>>, UNCHANGED <<visible, seen>>
  PROVE  JudgedSoFar'
BY DEF JudgedSoFar, AnswersWereJudged, Denied, Say

LEMMA NextJudged == JudgedSoFar /\ [Next]_vars => JudgedSoFar'
<1> SUFFICES ASSUME JudgedSoFar, [Next]_vars PROVE JudgedSoFar'
  OBVIOUS
<1>0. TypeOK /\ TypeOK'
  BY NextType DEF JudgedSoFar
<1>1. ASSUME NEW l \in Limits, NEW start \in Starts, Open(l, start) PROVE JudgedSoFar'
  BY <1>0, <1>1, QuietStep DEF Open, Goto, Fresh
<1>2. CASE Reject
  BY <1>0, <1>2, BareAnswer DEF Reject, Goto, search, Status, JudgedSoFar
<1>3. CASE Accept
  BY <1>0, <1>3, QuietStep DEF Accept, Goto, search
<1>4. CASE Count
  BY <1>0, <1>4, QuietStep DEF Count, Goto
<1>5. CASE Select
  <2>1. seen'.allowed = seen.allowed /\ seen'.denied = seen.denied
    BY <1>0, <1>5 DEF Select, TypeOK, History
  <2>2. pc = "select" /\ pc' = "judge" /\ UNCHANGED <<visible, allowed, hidden, reply>>
    BY <1>5 DEF Select, Goto
  <2> QED
    BY <1>0, <2>1, <2>2, QuietStep
<1>6. CASE Judge
  <2>1. /\ pc = "judge" /\ pc' = "judge" /\ UNCHANGED <<visible, seen, reply>>
        /\ Head(window) \in Copy
        /\ \/ /\ Head(window) \in visible
              /\ allowed' = Append(allowed, Head(window)) /\ hidden' = hidden
           \/ /\ Head(window) \in Denied
              /\ allowed' = allowed /\ hidden' = Append(hidden, Head(window).id)
    BY <1>0, <1>6 DEF Judge, TypeOK, Denied
  <2>2. \A i \in DOMAIN allowed' : allowed'[i] \in seen.allowed
    <3>1. /\ \A i \in DOMAIN allowed : allowed[i] \in seen.allowed
          /\ visible \subseteq seen.allowed /\ allowed \in Seq(Copy)
      BY <1>0 DEF JudgedSoFar, TypeOK
    <3> QED
      BY <2>1, <3>1, AppendType
  <2>3. \A i \in DOMAIN hidden' : \E c \in seen.denied : c.id = hidden'[i]
    <3>1. /\ \A i \in DOMAIN hidden : \E c \in seen.denied : c.id = hidden[i]
          /\ Denied \subseteq seen.denied /\ hidden \in Seq(Id)
      BY <1>0 DEF JudgedSoFar, TypeOK
    <3>2. Head(window).id \in Id
      BY <2>1 DEF Copy
    <3> QED
      BY <2>1, <3>1, <3>2, AppendType
  <2> QED
    BY <1>0, <2>1, <2>2, <2>3 DEF JudgedSoFar, AnswersWereJudged, Denied
<1>7. CASE Compose
  <2> DEFINE n == Lesser(Len(allowed), ItemsAtMost(limit))
             m == Lesser(Len(hidden), MaxPlaceholders)
  <2>1. n \in Nat /\ n <= Len(allowed) /\ m \in Nat /\ m <= Len(hidden)
    <3>1. ItemsAtMost(limit) \in Nat
      BY <1>0 DEF TypeOK, ItemsAtMost
    <3>2. Len(allowed) \in Nat /\ Len(hidden) \in Nat
      BY <1>0, LenNat DEF TypeOK
    <3> QED
      BY <3>1, <3>2, LesserType
  <2>2. /\ reply'.items = SubSeq(allowed, 1, n) /\ reply'.placeholders = SubSeq(hidden, 1, m)
        /\ allowed' = <<>> /\ hidden' = <<>> /\ visible' = visible
    BY <1>7 DEF Compose
  <2>3. seen'.allowed = seen.allowed /\ seen'.denied = seen.denied
    BY <1>0, <1>7 DEF Compose, TypeOK, History
  <2>4. \A i \in DOMAIN reply'.items : reply'.items[i] \in seen.allowed
    <3>0. allowed \in Seq(Copy)
      BY <1>0 DEF TypeOK
    <3> HIDE DEF n
    <3>1. \A i \in DOMAIN SubSeq(allowed, 1, n) :
            i \in DOMAIN allowed /\ SubSeq(allowed, 1, n)[i] = allowed[i]
      BY <2>1, <3>0, PrefixType
    <3> QED
      BY <2>2, <3>1 DEF JudgedSoFar
  <2>5. \A i \in DOMAIN reply'.placeholders :
          \E c \in seen.denied : c.id = reply'.placeholders[i]
    <3>0. hidden \in Seq(Id)
      BY <1>0 DEF TypeOK
    <3> HIDE DEF m
    <3>1. \A i \in DOMAIN SubSeq(hidden, 1, m) :
            i \in DOMAIN hidden /\ SubSeq(hidden, 1, m)[i] = hidden[i]
      BY <2>1, <3>0, PrefixType
    <3> QED
      BY <2>2, <3>1 DEF JudgedSoFar
  <2>6. AnswersWereJudged'
    BY <2>3, <2>4, <2>5 DEF AnswersWereJudged
  <2> QED
    BY <1>0, <2>2, <2>3, <2>6 DEF JudgedSoFar, Denied
<1>8. CASE Follow
  BY <1>0, <1>8, QuietStep DEF Follow, Goto, Fresh
<1>9. CASE Finish
  BY <1>0, <1>9 DEF Finish, Goto, search, JudgedSoFar, AnswersWereJudged, Denied
<1>10. CASE OpenDetail
  BY <1>0, <1>10, QuietStep DEF OpenDetail, Goto, search, Fresh
<1>11. ASSUME NEW id \in Id, Fetch(id) PROVE JudgedSoFar'
  <2>1. pc = "fetch" /\ UNCHANGED <<visible, allowed, hidden, seen>>
    BY <1>11 DEF Fetch
  <2>2. CASE \E row \in ToSet(table) : row.id = id
    BY <1>0, <1>11, <2>1, <2>2, QuietStep DEF Fetch
  <2>3. CASE ~ \E row \in ToSet(table) : row.id = id
    BY <1>0, <1>11, <2>1, <2>3, BareAnswer DEF Fetch, Status, JudgedSoFar
  <2> QED
    BY <2>2, <2>3
<1>12. CASE JudgeDetail
  <2>1. pc = "judgeDetail" /\ UNCHANGED <<visible, allowed, hidden, seen>>
    BY <1>12 DEF JudgeDetail, Goto
  <2>2. CASE copy \in visible
    <3>1. reply' = [Say("document") EXCEPT !.items = <<copy>>]
      BY <1>12, <2>2 DEF JudgeDetail
    <3>2. reply'.items = <<copy>> /\ reply'.placeholders = <<>>
      BY <3>1 DEF Say
    <3> QED
      BY <1>0, <2>1, <2>2, <3>2 DEF JudgedSoFar, AnswersWereJudged, Denied
  <2>3. CASE copy \notin visible
    BY <1>0, <1>12, <2>1, <2>3, BareAnswer DEF JudgeDetail, Status, JudgedSoFar
  <2> QED
    BY <2>2, <2>3
<1>13. CASE Fail
  BY <1>0, <1>13, BareAnswer DEF Fail, Status
<1>14. CASE StartOver
  BY <1>0, <1>14, QuietStep DEF StartOver, Goto, Fresh
<1>15. CASE Edit
  <2>1. /\ seen.allowed \subseteq seen'.allowed /\ seen.denied \subseteq seen'.denied
        /\ visible' \subseteq seen'.allowed /\ Denied' \subseteq seen'.denied
    BY <1>0, <1>15 DEF Edit, TypeOK, History
  <2>2. UNCHANGED <<pc, allowed, hidden, reply>>
    BY <1>15 DEF Edit, search
  <2> QED
    BY <1>0, <2>1, <2>2 DEF JudgedSoFar, AnswersWereJudged
<1>16. CASE UNCHANGED vars
  BY <1>0, <1>16 DEF JudgedSoFar, AnswersWereJudged, Denied, vars, search
<1> QED
  BY <1>1, <1>2, <1>3, <1>4, <1>5, <1>6, <1>7, <1>8, <1>9, <1>10, <1>11,
     <1>12, <1>13, <1>14, <1>15, <1>16 DEF Next, Serve

\* For every table, page size, window and bound, and for any change made from
\* outside at any moment: every document and every placeholder of an answer was
\* judged during the request that is answered.
THEOREM AnswersJudged == Spec => []AnswersWereJudged
<1>1. JudgedSoFar => AnswersWereJudged
  BY DEF JudgedSoFar
<1> QED
  BY <1>1, InitJudged, NextJudged, PTL DEF Spec

-----------------------------------------------------------------------------
(* Paging *)

\* the history knows the present, and a COUNT of zero was true at its moment
CountSoFar ==
    /\ table = <<>> => seen.empty
    /\ pc \in {"select", "judge"} => /\ total = 0 => seen.empty
                                     /\ edits = 0 => total = Len(table)

\* the rows before number n, from where the walk started
Covered(n) == seen.windows = SubSeq(table, seen.start + 1, n)

\* While nothing changes, the windows so far end where the next one begins: at
\* the offset before the SELECT, at the cursor after it, at the end of the table
\* when there is no cursor.
WalkSoFar ==
    /\ pc \in {"idle", "fetch", "judgeDetail"} => reply.status = "none"
    /\ edits = 0 =>
         /\ pc \in {"validate", "count", "select"} =>
              Covered(offset) /\ seen.start <= offset /\ (offset <= Len(table) \/ offset = seen.start)
         /\ pc \in {"judge", "replied"} =>
              IF cursor = NoCursor THEN Covered(Len(table))
              ELSE Covered(cursor) /\ seen.start <= cursor /\ cursor <= Len(table)
         /\ pc = "over" /\ reply.status = "page" => Covered(Len(table))

Ids(docs) == [i \in DOMAIN docs |-> docs[i].id]

\* the first n rows are judged, the rest lies ahead
Split(rows, n, ahead, in, out, may) ==
    /\ ahead = SubSeq(rows, n + 1, Len(rows))
    /\ in = Kept(SubSeq(rows, 1, n), may)
    /\ out = Ids(Kept(SubSeq(rows, 1, n), Copy \ may))

\* While nothing changes, the loop has split a first part of the window into
\* documents and ids, in order, and the rest lies ahead.
PageSoFar ==
    edits = 0 /\ pc = "judge" =>
        LET rows == WindowAt(table, offset, limit)
        IN  \E n \in 0..Len(rows) : Split(rows, n, window, allowed, hidden, visible)

PagingSoFar ==
    /\ JudgedSoFar
    /\ CountSoFar
    /\ WalkSoFar
    /\ PageSoFar
    /\ ReasonIsTrue
    /\ PageIsThePolicysView

\* seen is a record whose fields a step replaces one by one
LEMMA SeenFields ==
  ASSUME TypeOK
  PROVE  /\ \A w : [seen EXCEPT !.windows = w].empty = seen.empty
         /\ \A w : [seen EXCEPT !.windows = w].windows = w
         /\ \A w : [seen EXCEPT !.windows = w].start = seen.start
         /\ \A S : [seen EXCEPT !.shown = S].empty = seen.empty
         /\ \A S : [seen EXCEPT !.shown = S].windows = seen.windows
         /\ \A S : [seen EXCEPT !.shown = S].start = seen.start
BY DEF TypeOK, History

LEMMA NextCount == TypeOK /\ CountSoFar /\ [Next]_vars => CountSoFar'
<1> SUFFICES ASSUME TypeOK, CountSoFar, [Next]_vars PROVE CountSoFar'
  OBVIOUS
<1> USE DEF CountSoFar
<1>1. ASSUME NEW l \in Limits, NEW start \in Starts, Open(l, start) PROVE CountSoFar'
  BY <1>1 DEF Open, Goto, Fresh
<1>2. CASE Reject
  BY <1>2 DEF Reject, Goto
<1>3. CASE Accept
  BY <1>3 DEF Accept, Goto
<1>4. CASE Count
  <2>1. Len(table) = 0 => table = <<>>
    BY DEF TypeOK
  <2> QED
    BY <1>4, <2>1 DEF Count, Goto
<1>5. CASE Select
  BY <1>5, SeenFields DEF Select, Goto
<1>6. CASE Judge
  BY <1>6 DEF Judge
<1>7. CASE Compose
  <2>1. seen'.empty = seen.empty
    BY <1>7, SeenFields DEF Compose
  <2> QED
    BY <1>7, <2>1 DEF Compose, Goto
<1>8. CASE Follow
  BY <1>8 DEF Follow, Goto, Fresh
<1>9. CASE Finish
  BY <1>9 DEF Finish, Goto
<1>10. CASE OpenDetail
  BY <1>10 DEF OpenDetail, Goto, Fresh
<1>11. ASSUME NEW id \in Id, Fetch(id) PROVE CountSoFar'
  BY <1>11 DEF Fetch
<1>12. CASE JudgeDetail
  BY <1>12 DEF JudgeDetail, Goto
<1>13. CASE Fail
  BY <1>13 DEF Fail
<1>14. CASE StartOver
  BY <1>14 DEF StartOver, Goto, Fresh
<1>15. CASE Edit
  <2>1. /\ seen'.empty = (seen.empty \/ table' = <<>>) /\ edits' = edits + 1
        /\ UNCHANGED <<pc, total>>
    BY <1>15 DEF Edit, search, TypeOK, History
  <2>2. edits' # 0
    BY <2>1 DEF TypeOK
  <2> QED
    BY <2>1, <2>2
<1>16. CASE UNCHANGED vars
  BY <1>16 DEF vars, search
<1> QED
  BY <1>1, <1>2, <1>3, <1>4, <1>5, <1>6, <1>7, <1>8, <1>9, <1>10, <1>11,
     <1>12, <1>13, <1>14, <1>15, <1>16 DEF Next, Serve

\* The window of a request that starts inside the table, and the cursor after it.
LEMMA NextWindow ==
  ASSUME NEW s \in Seq(Copy), NEW from \in Nat, NEW l \in Nat
  PROVE  LET w == WindowAt(s, from, l)
             c == NextCursor(from, Len(w), Len(s), l)
             to == Lesser(from + WindowSize(l), Len(s))
         IN  /\ w \in Seq(Copy)
             /\ from >= Len(s) => w = <<>> /\ c = NoCursor
             /\ from < Len(s) =>
                  /\ w = SubSeq(s, from + 1, to) /\ Len(w) = to - from
                  /\ to \in Nat /\ from < to /\ to <= Len(s)
                  /\ c = IF to < Len(s) THEN to ELSE NoCursor
<1>1. PageSize(l) \in Nat \ {0}
  BY DEF PageSize, Lesser
<1>2. WindowFactor * PageSize(l) \in Nat \ {0}
  BY <1>1
<1>3. WindowSize(l) \in Nat \ {0}
  BY <1>2 DEF WindowSize, Lesser
<1> DEFINE to == Lesser(from + WindowSize(l), Len(s))
<1>4. /\ to \in Nat /\ to <= Len(s) /\ Len(s) \in Nat
      /\ from < Len(s) => from < to
      /\ from >= Len(s) => to <= from
  BY <1>3, LenNat DEF Lesser
<1>5. WindowAt(s, from, l) = SubSeq(s, from + 1, to)
  BY DEF WindowAt
<1> HIDE DEF to
<1>6. /\ from < Len(s) => Len(SubSeq(s, from + 1, to)) = to - from
      /\ from >= Len(s) => SubSeq(s, from + 1, to) = <<>>
  BY <1>4
<1>7. WindowAt(s, from, l) \in Seq(Copy)
  BY WindowType
<1>8. CASE from >= Len(s)
  <2>1. NextCursor(from, Len(<<>>), Len(s), l) = NoCursor
    BY <1>4, <1>8 DEF NextCursor
  <2> QED
    BY <1>4, <1>5, <1>6, <1>7, <1>8, <2>1
<1>9. CASE from < Len(s)
  <2>1. NextCursor(from, to - from, Len(s), l) = IF to < Len(s) THEN to ELSE NoCursor
    BY <1>4 DEF NextCursor
  <2> QED
    BY <1>4, <1>5, <1>6, <1>7, <1>9, <2>1 DEF to
<1> QED
  BY <1>4, <1>8, <1>9

LEMMA NextWalk == TypeOK /\ CountSoFar /\ WalkSoFar /\ [Next]_vars => WalkSoFar'
<1> SUFFICES ASSUME TypeOK, CountSoFar, WalkSoFar, [Next]_vars PROVE WalkSoFar'
  OBVIOUS
<1> USE DEF WalkSoFar, Covered
<1>0. /\ table \in Seq(Copy) /\ offset \in Nat /\ limit \in Nat
      /\ cursor \in Nat \cup {NoCursor}
      /\ seen.start \in Nat /\ seen.windows \in Seq(Copy) /\ Len(table) \in Nat
  <2>1. Len(table) \in Nat
    BY LenNat DEF TypeOK
  <2> QED
    BY <2>1 DEF TypeOK, History
<1>1. ASSUME NEW l \in Limits, NEW start \in Starts, Open(l, start) PROVE WalkSoFar'
  <2>1. /\ pc' = "validate" /\ offset' = start /\ start \in Nat /\ table' = table
        /\ seen'.start = start /\ seen'.windows = <<>>
    BY <1>1 DEF Open, Goto, Fresh
  <2>2. <<>> = SubSeq(table, start + 1, start)
    BY <1>0, <2>1
  <2> QED
    BY <2>1, <2>2
<1>2. CASE Reject
  BY <1>2 DEF Reject, Goto, Say
<1>3. CASE Accept
  BY <1>3 DEF Accept, Goto, search
<1>4. CASE Count
  BY <1>4 DEF Count, Goto
<1>5. CASE Select
  <2> DEFINE w == WindowAt(table, offset, limit)
             c == NextCursor(offset, Len(w), Len(table), limit)
             to == Lesser(offset + WindowSize(limit), Len(table))
  <2>1. /\ pc = "select" /\ pc' = "judge" /\ UNCHANGED <<table, edits, offset, limit, reply>>
        /\ window' = w
        /\ cursor' = NextCursor(offset, Len(w), total, limit)
        /\ seen'.windows = seen.windows \o w /\ seen'.start = seen.start
    BY <1>5, SeenFields DEF Select, Goto
  <2> SUFFICES ASSUME edits = 0
               PROVE  IF cursor' = NoCursor THEN seen'.windows = SubSeq(table, seen.start + 1, Len(table))
                      ELSE /\ seen'.windows = SubSeq(table, seen.start + 1, cursor')
                           /\ seen.start <= cursor' /\ cursor' <= Len(table)
    BY <2>1
  <2>2. cursor' = c
    BY <2>1 DEF CountSoFar
  <2>3. /\ seen.windows = SubSeq(table, seen.start + 1, offset) /\ seen.start <= offset
        /\ offset <= Len(table) \/ offset = seen.start
    BY <2>1
  <2>4. CASE offset >= Len(table)
    <3>1. w = <<>> /\ c = NoCursor
      BY <1>0, <2>4, NextWindow
    <3> HIDE DEF w, c
    <3>2. seen'.windows = seen.windows
      BY <1>0, <2>1, <3>1
    <3>3. SubSeq(table, seen.start + 1, offset) = SubSeq(table, seen.start + 1, Len(table))
      <4>1. CASE offset = Len(table)
        BY <4>1
      <4>2. CASE offset = seen.start
        <5>1. SubSeq(table, seen.start + 1, offset) = <<>>
          BY <1>0, <4>2
        <5>2. SubSeq(table, seen.start + 1, Len(table)) = <<>>
          BY <1>0, <2>4, <4>2
        <5> QED
          BY <5>1, <5>2
      <4>3. offset = Len(table) \/ offset = seen.start
        BY <1>0, <2>3, <2>4
      <4> QED
        BY <4>1, <4>2, <4>3
    <3> QED
      BY <2>2, <2>3, <3>1, <3>2, <3>3
  <2>5. CASE offset < Len(table)
    <3>1. /\ w = SubSeq(table, offset + 1, to) /\ offset < to /\ to <= Len(table)
          /\ c = IF to < Len(table) THEN to ELSE NoCursor
          /\ to \in Nat
      BY <1>0, <2>5, NextWindow
    <3> HIDE DEF w, c, to
    <3>2. SubSeq(table, seen.start + 1, offset) \o SubSeq(table, offset + 1, to)
            = SubSeq(table, seen.start + 1, to)
      <4>1. seen.start <= offset /\ offset <= to
        BY <1>0, <2>3, <3>1
      <4>2. \A i, j, k \in Nat : i <= j /\ j <= k /\ k <= Len(table) =>
              SubSeq(table, i + 1, j) \o SubSeq(table, j + 1, k) = SubSeq(table, i + 1, k)
        BY <1>0, Pieces
      <4> QED
        BY <1>0, <3>1, <4>1, <4>2, Zenon
    <3>3. seen'.windows = SubSeq(table, seen.start + 1, to)
      BY <2>1, <2>3, <3>1, <3>2
    <3>4. CASE to < Len(table)
      <4>1. cursor' = to
        BY <2>2, <3>1, <3>4
      <4>2. to # NoCursor /\ seen.start <= to /\ to <= Len(table)
        BY <1>0, <2>3, <3>1 DEF NoCursor
      <4> QED
        BY <3>3, <4>1, <4>2
    <3>5. CASE to = Len(table)
      BY <2>2, <3>1, <3>3, <3>5
    <3>6. to < Len(table) \/ to = Len(table)
      BY <1>0, <3>1
    <3> QED
      BY <3>4, <3>5, <3>6, Zenon
  <2> QED
    BY <1>0, <2>4, <2>5
<1>6. CASE Judge
  BY <1>6 DEF Judge
<1>7. CASE Compose
  <2>1. seen'.windows = seen.windows /\ seen'.start = seen.start
    BY <1>7, SeenFields DEF Compose
  <2> QED
    BY <1>7, <2>1 DEF Compose, Goto
<1>8. CASE Follow
  <2>1. /\ pc = "replied" /\ pc' = "validate" /\ cursor # NoCursor /\ offset' = cursor
        /\ seen'.windows = seen.windows /\ seen'.start = seen.start
        /\ UNCHANGED <<table, edits, reply>>
    BY <1>8 DEF Follow, Goto, Fresh
  <2> QED
    BY <2>1
<1>9. CASE Finish
  BY <1>9 DEF Finish, Goto, search
<1>10. CASE OpenDetail
  BY <1>10 DEF OpenDetail, Goto, search
<1>11. ASSUME NEW id \in Id, Fetch(id) PROVE WalkSoFar'
  BY <1>11 DEF Fetch, Say
<1>12. CASE JudgeDetail
  <2>1. reply'.status # "page" /\ pc' = "over"
    BY <1>12 DEF JudgeDetail, Goto, Say
  <2> QED
    BY <2>1
<1>13. CASE Fail
  BY <1>13 DEF Fail, Say
<1>14. CASE StartOver
  BY <1>14 DEF StartOver, Goto, Say
<1>15. CASE Edit
  <2>1. edits' # 0 /\ UNCHANGED <<pc, reply>>
    BY <1>15 DEF Edit, TypeOK
  <2> QED
    BY <2>1
<1>16. CASE UNCHANGED vars
  BY <1>16 DEF vars, search
<1> QED
  BY <1>1, <1>2, <1>3, <1>4, <1>5, <1>6, <1>7, <1>8, <1>9, <1>10, <1>11,
     <1>12, <1>13, <1>14, <1>15, <1>16 DEF Next, Serve

LEMMA PiecePrefix ==
  ASSUME NEW E, NEW s \in Seq(E), NEW a \in Nat, NEW n \in Nat, n <= Len(s) \/ n = a
  PROVE  IsPrefix(SubSeq(s, a + 1, n), SubSeq(s, a + 1, Len(s)))
<1> DEFINE p == SubSeq(s, a + 1, n)
           w == SubSeq(s, a + 1, Len(s))
<1>1. CASE n <= a
  <2>1. p = <<>>
    BY <1>1
  <2>2. SubSeq(<<>>, 1, Len(<<>>)) = <<>> /\ SubSeq(w, 1, Len(<<>>)) = <<>> /\ Len(<<>>) <= Len(w)
    OBVIOUS
  <2> HIDE DEF p, w
  <2>3. IsPrefix(p, w)
    BY <2>1, <2>2 DEF IsPrefix
  <2> QED
    BY <2>3 DEF p, w
<1>2. CASE a < n
  <2>1. /\ p \in Seq(E) /\ Len(p) = n - a /\ \A i \in 1..(n - a) : p[i] = s[a + i]
        /\ w \in Seq(E) /\ Len(w) = Len(s) - a /\ \A i \in 1..(Len(s) - a) : w[i] = s[a + i]
        /\ Len(s) \in Nat /\ n <= Len(s)
    BY <1>2
  <2> HIDE DEF p, w
  <2>2. SubSeq(p, 1, Len(p)) = SubSeq(w, 1, Len(p)) /\ Len(p) <= Len(w)
    BY <1>2, <2>1
  <2>3. IsPrefix(p, w)
    BY <2>2 DEF IsPrefix
  <2> QED
    BY <2>3 DEF p, w
<1> QED
  BY <1>1, <1>2

LEMMA Tiled == TypeOK /\ WalkSoFar => WindowsTileTheTable
<1> SUFFICES ASSUME TypeOK, WalkSoFar, edits = 0, reply.status = "page"
             PROVE  /\ IsPrefix(seen.windows, SubSeq(table, seen.start + 1, Len(table)))
                    /\ pc = "over" => seen.windows = SubSeq(table, seen.start + 1, Len(table))
  BY DEF WindowsTileTheTable
<1>1. pc \in {"validate", "count", "select", "judge", "replied", "over"}
  BY DEF TypeOK, WalkSoFar
<1>2. table \in Seq(Copy) /\ Len(table) \in Nat /\ seen.start \in Nat
  BY LenNat DEF TypeOK, History
<1>3. PICK n \in Nat : /\ seen.windows = SubSeq(table, seen.start + 1, n)
                       /\ n <= Len(table) \/ n = seen.start
                       /\ pc = "over" => n = Len(table)
  <2>1. CASE pc \in {"validate", "count", "select"}
    BY <2>1 DEF WalkSoFar, Covered, TypeOK
  <2>2. CASE pc \in {"judge", "replied"} /\ cursor = NoCursor
    BY <1>2, <2>2 DEF WalkSoFar, Covered
  <2>3. CASE pc \in {"judge", "replied"} /\ cursor # NoCursor
    BY <2>3 DEF WalkSoFar, Covered, TypeOK
  <2>4. CASE pc = "over"
    BY <1>2, <2>4 DEF WalkSoFar, Covered
  <2> QED
    BY <1>1, <2>1, <2>2, <2>3, <2>4
<1> QED
  BY <1>2, <1>3, PiecePrefix

LEMMA AppendIds ==
  ASSUME NEW s \in Seq(Copy), NEW c \in Copy
  PROVE  Ids(Append(s, c)) = Append(Ids(s), c.id)
BY DEF Ids

LEMMA NextPage == JudgedSoFar /\ PageSoFar /\ [Next]_vars => PageSoFar'
<1> SUFFICES ASSUME JudgedSoFar, PageSoFar, [Next]_vars, edits' = 0, pc' = "judge"
             PROVE  PageSoFar'
  BY DEF PageSoFar
<1>0. TypeOK
  BY DEF JudgedSoFar
<1>1. CASE Select
  <2> DEFINE rows == WindowAt(table, offset, limit)
  <2>1. /\ pc = "select" /\ window' = rows
        /\ UNCHANGED <<table, visible, offset, limit, allowed, hidden>>
    BY <1>1 DEF Select, Goto
  <2>2. allowed = <<>> /\ hidden = <<>>
    BY <2>1 DEF JudgedSoFar
  <2>3. rows \in Seq(Copy) /\ Len(rows) \in Nat
    BY <1>0, WindowType, LenNat DEF TypeOK
  <2> HIDE DEF rows
  <2>4. SubSeq(rows, 0 + 1, Len(rows)) = rows /\ SubSeq(rows, 1, 0) = <<>> /\ 0 \in 0..Len(rows)
    BY <2>3
  <2>5. Kept(<<>>, visible) = <<>> /\ Kept(<<>>, Denied) = <<>> /\ Ids(<<>>) = <<>>
    BY KeptNothing DEF Ids
  <2>6. Split(rows, 0, window', allowed', hidden', visible')
    BY <2>1, <2>2, <2>4, <2>5 DEF Split, Denied
  <2> QED
    BY <2>1, <2>4, <2>6 DEF rows, PageSoFar
<1>2. CASE Judge
  <2> DEFINE rows == WindowAt(table, offset, limit)
  <2>1. /\ pc = "judge" /\ window # <<>> /\ window' = Tail(window)
        /\ UNCHANGED <<table, visible, edits, offset, limit>>
        /\ IF Head(window) \in visible
           THEN allowed' = Append(allowed, Head(window)) /\ hidden' = hidden
           ELSE allowed' = allowed /\ hidden' = Append(hidden, Head(window).id)
    BY <1>2 DEF Judge
  <2>2. rows \in Seq(Copy) /\ Len(rows) \in Nat
    BY <1>0, WindowType, LenNat DEF TypeOK
  <2>3. PICK n \in 0..Len(rows) : Split(rows, n, window, allowed, hidden, visible)
    BY <2>1 DEF PageSoFar
  <2> HIDE DEF rows
  <2>4. window = SubSeq(rows, n + 1, Len(rows))
    BY <2>3 DEF Split
  <2>5. n < Len(rows)
    BY <2>1, <2>2, <2>4
  <2>6. /\ Head(window) = rows[n + 1] /\ rows[n + 1] \in Copy
        /\ Tail(window) = SubSeq(rows, (n + 1) + 1, Len(rows))
        /\ n + 1 \in 0..Len(rows)
    BY <2>2, <2>4, <2>5
  <2> DEFINE e == rows[n + 1]
             shown == Kept(SubSeq(rows, 1, n), visible)
             denied == Kept(SubSeq(rows, 1, n), Denied)
  <2>7. /\ Kept(SubSeq(rows, 1, n + 1), visible) = Keep(shown, e, visible)
        /\ Kept(SubSeq(rows, 1, n + 1), Denied) = Keep(denied, e, Denied)
    BY <2>2, <2>5, KeptOneMore
  <2>8. denied \in Seq(Copy)
    <3>1. SubSeq(rows, 1, n) \in Seq(Copy)
      BY <2>2, <2>5, PrefixType
    <3> QED
      BY <3>1, KeptType
  <2>9. allowed = shown /\ hidden = Ids(denied)
    BY <2>3 DEF Split, Denied
  <2> HIDE DEF e, shown, denied
  <2>10. Head(window) = e /\ e \in Copy
    BY <2>6 DEF e
  <2>11. allowed' = Keep(shown, e, visible) /\ hidden' = Ids(Keep(denied, e, Denied))
    <3>1. CASE e \in visible
      <4>1. e \notin Denied
        BY <3>1 DEF Denied
      <4> QED
        BY <2>1, <2>9, <2>10, <3>1, <4>1 DEF Keep
    <3>2. CASE e \notin visible
      <4>1. e \in Denied
        BY <2>10, <3>2 DEF Denied
      <4>2. Ids(Append(denied, e)) = Append(Ids(denied), e.id)
        BY <2>8, <2>10, AppendIds
      <4> QED
        BY <2>1, <2>9, <2>10, <3>2, <4>1, <4>2 DEF Keep
    <3> QED
      BY <3>1, <3>2
  <2>12. Split(rows, n + 1, window', allowed', hidden', visible')
    BY <2>1, <2>6, <2>7, <2>11 DEF Split, Denied, e
  <2> QED
    BY <2>1, <2>6, <2>12 DEF rows, PageSoFar
<1>3. CASE UNCHANGED vars
  BY <1>3 DEF vars, search, PageSoFar
<1>4. ~Edit
  BY <1>0 DEF Edit, TypeOK
<1> QED
  BY <1>1, <1>2, <1>3, <1>4 DEF Next, Serve, Open, OpenDetail, Reject, Accept, Count, Compose,
     Follow, Finish, Fetch, JudgeDetail, Fail, StartOver, Goto

\* When the loop is through, it has kept what the policy shows of the window.
LEMMA LoopDone ==
  ASSUME TypeOK, PageSoFar, edits = 0, pc = "judge", window = <<>>
  PROVE  LET rows == WindowAt(table, offset, limit)
         IN  /\ rows \in Seq(Copy)
             /\ allowed = Kept(rows, visible)
             /\ hidden = Ids(Kept(rows, Denied))
             /\ Len(allowed) = Len(rows) - Len(Kept(rows, Denied))
             /\ Kept(rows, Denied) \in Seq(Copy)
<1> DEFINE rows == WindowAt(table, offset, limit)
<1>1. rows \in Seq(Copy) /\ Len(rows) \in Nat
  BY WindowType, LenNat DEF TypeOK
<1>2. PICK n \in 0..Len(rows) : Split(rows, n, window, allowed, hidden, visible)
  BY DEF PageSoFar
<1> HIDE DEF rows
<1>3. n = Len(rows)
  <2>1. ASSUME n < Len(rows) PROVE FALSE
    <3>1. n \in Nat /\ n < Len(rows) /\ Len(rows) \in Nat
      BY <1>1, <2>1
    <3>2. SubSeq(rows, n + 1, Len(rows)) # <<>>
      BY <1>1, <3>1, RestType
    <3> QED
      BY <1>2, <3>2 DEF Split
  <2> QED
    BY <1>1, <2>1
<1>4. SubSeq(rows, 1, Len(rows)) = rows
  BY <1>1
<1>5. allowed = Kept(rows, visible) /\ hidden = Ids(Kept(rows, Denied))
  BY <1>2, <1>3, <1>4 DEF Split, Denied
<1>6. Len(Kept(rows, visible)) + Len(Kept(rows, Denied)) = Len(rows)
  BY <1>1, KeptParts DEF Denied
<1>7. Kept(rows, visible) \in Seq(Copy) /\ Kept(rows, Denied) \in Seq(Copy)
  BY <1>1, KeptType
<1>8. Len(Kept(rows, visible)) = Len(rows) - Len(Kept(rows, Denied))
  BY <1>1, <1>6, <1>7
<1> QED
  BY <1>1, <1>5, <1>7, <1>8 DEF rows

\* What Compose makes of the documents and ids it was handed.
LEMMA Composed ==
  ASSUME TypeOK, Compose
  PROVE  LET n == Lesser(Len(allowed), ItemsAtMost(limit))
             m == Lesser(Len(hidden), MaxPlaceholders)
         IN  /\ n \in Nat /\ n <= Len(allowed) /\ (n = 0 <=> allowed = <<>>)
             /\ m \in Nat /\ m <= Len(hidden) /\ (m = 0 <=> hidden = <<>>)
             /\ reply'.items = SubSeq(allowed, 1, n) /\ Len(reply'.items) = n
             /\ reply'.placeholders = SubSeq(hidden, 1, m) /\ Len(reply'.placeholders) = m
             /\ reply'.hiddenCount = Len(hidden)
             /\ reply'.reason = ReasonCode(total, Len(allowed) + Len(hidden), n, Len(hidden))
             /\ pc = "judge" /\ window = <<>>
             /\ UNCHANGED <<table, visible, edits, offset, limit>>
             /\ seen'.empty = seen.empty
<1> DEFINE n == Lesser(Len(allowed), ItemsAtMost(limit))
           m == Lesser(Len(hidden), MaxPlaceholders)
<1>1. /\ allowed \in Seq(Copy) /\ Len(allowed) \in Nat /\ (Len(allowed) = 0 <=> allowed = <<>>)
      /\ hidden \in Seq(Id) /\ Len(hidden) \in Nat /\ (Len(hidden) = 0 <=> hidden = <<>>)
  BY LenNat DEF TypeOK
<1>2. ItemsAtMost(limit) \in Nat \ {0}
  BY DEF TypeOK, ItemsAtMost
<1>3. /\ n \in Nat /\ n <= Len(allowed) /\ (n = 0 <=> Len(allowed) = 0)
      /\ m \in Nat /\ m <= Len(hidden) /\ (m = 0 <=> Len(hidden) = 0)
  BY <1>1, <1>2 DEF Lesser
<1>4. /\ reply'.items = SubSeq(allowed, 1, n)
      /\ reply'.placeholders = SubSeq(hidden, 1, m)
      /\ reply'.hiddenCount = Len(hidden)
      /\ reply'.reason = ReasonCode(total, Len(allowed) + Len(hidden),
                                    Len(SubSeq(allowed, 1, n)), Len(hidden))
      /\ pc = "judge" /\ window = <<>>
      /\ UNCHANGED <<table, visible, edits, offset, limit>>
  BY DEF Compose, Goto
<1>5. seen'.empty = seen.empty
  BY SeenFields DEF Compose
<1> HIDE DEF n, m
<1>6. Len(SubSeq(allowed, 1, n)) = n /\ Len(SubSeq(hidden, 1, m)) = m
  BY <1>1, <1>3, PrefixType
<1> QED
  BY <1>1, <1>3, <1>4, <1>5, <1>6 DEF n, m

LEMMA NextReason == JudgedSoFar /\ CountSoFar /\ PageSoFar /\ ReasonIsTrue /\ [Next]_vars => ReasonIsTrue'
<1> SUFFICES ASSUME JudgedSoFar, CountSoFar, PageSoFar, ReasonIsTrue, [Next]_vars, pc' = "replied"
             PROVE  ReasonIsTrue'
  BY DEF ReasonIsTrue
<1>0. TypeOK
  BY DEF JudgedSoFar
<1>1. CASE Compose
  <2> DEFINE n == Lesser(Len(allowed), ItemsAtMost(limit))
             m == Lesser(Len(hidden), MaxPlaceholders)
             r == ReasonCode(total, Len(allowed) + Len(hidden), n, Len(hidden))
  <2>1. /\ n \in Nat /\ n <= Len(allowed) /\ (n = 0 <=> allowed = <<>>)
        /\ m \in Nat /\ m <= Len(hidden) /\ (m = 0 <=> hidden = <<>>)
        /\ reply'.items = SubSeq(allowed, 1, n) /\ Len(reply'.items) = n
        /\ reply'.placeholders = SubSeq(hidden, 1, m) /\ Len(reply'.placeholders) = m
        /\ reply'.hiddenCount = Len(hidden)
        /\ reply'.reason = r
        /\ pc = "judge" /\ window = <<>>
        /\ UNCHANGED <<table, visible, edits, offset, limit>>
        /\ seen'.empty = seen.empty
    BY <1>0, <1>1, Composed
  <2>2. hidden \in Seq(Id) /\ Len(hidden) \in Nat /\ (Len(hidden) = 0 <=> hidden = <<>>) /\ total \in Nat
    BY <1>0, LenNat DEF TypeOK
  <2> HIDE DEF n, m
  <2>3. /\ r = "VISIBLE_RESULTS" <=> n # 0
        /\ r = "MATCHES_EXIST_BUT_NOT_VISIBLE" => Len(hidden) # 0
        /\ r = "NO_MATCH_IN_TENANT" => total = 0 /\ Len(hidden) = 0 /\ n = 0
        /\ r = "NO_VISIBLE_RESULTS_FOR_CURRENT_SCOPE" => total # 0 /\ Len(hidden) = 0 /\ n = 0
    BY <2>1, <2>2 DEF ReasonCode
  <2> HIDE DEF r
  <2>4. reply'.reason = "NO_MATCH_IN_TENANT" => seen'.empty /\ reply'.hiddenCount = 0
    BY <2>1, <2>3 DEF CountSoFar
  <2>5. reply'.reason = "VISIBLE_RESULTS" <=> reply'.items # <<>>
    <3>1. reply'.items = <<>> <=> n = 0
      <4>1. allowed \in Seq(Copy)
        BY <1>0 DEF TypeOK
      <4>2. SubSeq(allowed, 1, n) = <<>> <=> n = 0
        BY <2>1, <4>1
      <4> QED
        BY <2>1, <4>2
    <3> QED
      BY <2>1, <2>3, <3>1
  <2>6. reply'.reason = "MATCHES_EXIST_BUT_NOT_VISIBLE" => reply'.placeholders # <<>>
    <3>1. reply'.placeholders = <<>> => m = 0
      BY <2>1
    <3> QED
      BY <2>1, <2>2, <2>3, <3>1
  <2>7. ASSUME reply'.reason = "NO_VISIBLE_RESULTS_FOR_CURRENT_SCOPE", edits = 0
        PROVE  offset >= Len(table)
    <3> DEFINE rows == WindowAt(table, offset, limit)
    <3>1. allowed = <<>> /\ hidden = <<>>
      BY <2>1, <2>2, <2>3, <2>7
    <3>2. /\ rows \in Seq(Copy)
          /\ allowed = Kept(rows, visible)
          /\ hidden = Ids(Kept(rows, Denied))
          /\ Len(allowed) = Len(rows) - Len(Kept(rows, Denied))
          /\ Kept(rows, Denied) \in Seq(Copy)
      BY <1>0, <2>1, <2>7, LoopDone
    <3>3. offset < Len(table) => Len(rows) > 0
      <4>1. table \in Seq(Copy) /\ offset \in Nat /\ limit \in Nat
        BY <1>0 DEF TypeOK
      <4> DEFINE to == Lesser(offset + WindowSize(limit), Len(table))
      <4>2. offset < Len(table) => Len(rows) = to - offset /\ offset < to /\ to \in Nat
        BY <4>1, NextWindow
      <4> HIDE DEF rows, to
      <4> QED
        BY <4>1, <4>2
    <3> HIDE DEF rows
    <3>4. Len(Kept(rows, Denied)) = 0
      BY <3>1, <3>2 DEF Ids
    <3>5. Len(rows) = 0
      BY <3>1, <3>2, <3>4
    <3>6. Len(table) \in Nat /\ offset \in Nat
      BY <1>0, LenNat DEF TypeOK
    <3> QED
      BY <3>3, <3>5, <3>6
  <2>8. edits \in Nat /\ edits' = edits
    BY <1>0, <2>1 DEF TypeOK
  <2>9. reply'.reason = "NO_VISIBLE_RESULTS_FOR_CURRENT_SCOPE" =>
          edits' > 0 \/ offset' >= Len(table')
    BY <2>1, <2>7, <2>8
  <2> QED
    BY <2>4, <2>5, <2>6, <2>9 DEF ReasonIsTrue
<1>2. CASE Edit
  <2>1. /\ seen.empty => seen'.empty
        /\ edits' > 0
        /\ UNCHANGED <<pc, reply>>
    BY <1>0, <1>2 DEF Edit, TypeOK, History
  <2> QED
    BY <2>1 DEF ReasonIsTrue
<1>3. CASE UNCHANGED vars
  BY <1>3 DEF vars, search, ReasonIsTrue
<1> QED
  BY <1>1, <1>2, <1>3 DEF Next, Serve, Open, OpenDetail, Reject, Accept, Count, Select, Judge,
     Follow, Finish, Fetch, JudgeDetail, Fail, StartOver, Goto

LEMMA NextView == JudgedSoFar /\ PageSoFar /\ PageIsThePolicysView /\ [Next]_vars => PageIsThePolicysView'
<1> SUFFICES ASSUME JudgedSoFar, PageSoFar, PageIsThePolicysView, [Next]_vars,
                    edits' = 0, pc' = "replied"
             PROVE  PageIsThePolicysView'
  BY DEF PageIsThePolicysView
<1>0. TypeOK
  BY DEF JudgedSoFar
<1>1. CASE Compose
  <2> DEFINE rows == WindowAt(table, offset, limit)
             denied == Kept(rows, Denied)
             n == Lesser(Len(allowed), ItemsAtMost(limit))
             m == Lesser(Len(hidden), MaxPlaceholders)
  <2>1. /\ n \in Nat /\ n <= Len(allowed) /\ (n = 0 <=> allowed = <<>>)
        /\ m \in Nat /\ m <= Len(hidden) /\ (m = 0 <=> hidden = <<>>)
        /\ reply'.items = SubSeq(allowed, 1, n) /\ Len(reply'.items) = n
        /\ reply'.placeholders = SubSeq(hidden, 1, m) /\ Len(reply'.placeholders) = m
        /\ reply'.hiddenCount = Len(hidden)
        /\ reply'.reason = ReasonCode(total, Len(allowed) + Len(hidden), n, Len(hidden))
        /\ pc = "judge" /\ window = <<>>
        /\ UNCHANGED <<table, visible, edits, offset, limit>>
        /\ seen'.empty = seen.empty
    BY <1>0, <1>1, Composed
  <2>2. /\ rows \in Seq(Copy)
        /\ allowed = Kept(rows, visible)
        /\ hidden = Ids(denied)
        /\ Len(allowed) = Len(rows) - Len(denied)
        /\ denied \in Seq(Copy)
    BY <1>0, <2>1, LoopDone
  <2> HIDE DEF rows, denied
  <2>3. IsPrefix(SubSeq(allowed, 1, n), allowed) /\ Len(SubSeq(allowed, 1, n)) = n
    <3>1. allowed \in Seq(Copy)
      BY <1>0 DEF TypeOK
    <3> HIDE DEF n
    <3> QED
      BY <2>1, <3>1 DEF IsPrefix
  <2>4. IsPrefix(reply'.items, Kept(rows, visible))
    BY <2>1, <2>2, <2>3
  <2>5. Len(reply'.items) = Lesser(Len(rows) - Len(denied), ItemsAtMost(limit))
    BY <2>1, <2>2
  <2>6. Len(hidden) = Len(denied) /\ \A i \in 1..Len(denied) : hidden[i] = denied[i].id
    BY <2>2 DEF Ids
  <2>7. reply'.placeholders = [i \in 1..Lesser(Len(denied), MaxPlaceholders) |-> denied[i].id]
    <3>1. m = Lesser(Len(denied), MaxPlaceholders)
      BY <2>6
    <3>2. hidden \in Seq(Id)
      BY <1>0 DEF TypeOK
    <3> HIDE DEF m
    <3>3. SubSeq(hidden, 1, m) = [i \in 1..m |-> hidden[i]]
      BY <2>1, <3>2
    <3>4. \A i \in 1..m : hidden[i] = denied[i].id
      BY <2>1, <2>2, <2>6
    <3> QED
      BY <2>1, <3>1, <3>3, <3>4
  <2>8. UNCHANGED <<rows, denied>>
    BY <2>1 DEF rows, denied, Denied
  <2>9. reply'.hiddenCount = Len(denied)
    BY <2>1, <2>6
  <2> QED
    BY <2>1, <2>4, <2>5, <2>7, <2>8, <2>9 DEF PageIsThePolicysView, rows, denied
<1>2. CASE UNCHANGED vars
  BY <1>2 DEF vars, search, PageIsThePolicysView, Denied
<1>3. ~Edit
  BY <1>0 DEF Edit, TypeOK
<1> QED
  BY <1>1, <1>2, <1>3 DEF Next, Serve, Open, OpenDetail, Reject, Accept, Count, Select, Judge,
     Follow, Finish, Fetch, JudgeDetail, Fail, StartOver, Goto

\* The inductive invariant of a walk, page after page.
LEMMA PagingInvariant == Spec => []PagingSoFar
<1>1. Init => PagingSoFar
  <2> SUFFICES ASSUME Init PROVE PagingSoFar
    OBVIOUS
  <2>1. CountSoFar /\ WalkSoFar /\ PageSoFar /\ ReasonIsTrue /\ PageIsThePolicysView
    BY DEF Init, Fresh, Say, CountSoFar, WalkSoFar, PageSoFar, ReasonIsTrue, PageIsThePolicysView
  <2> QED
    BY <2>1, InitJudged DEF PagingSoFar
<1>2. PagingSoFar /\ [Next]_vars => PagingSoFar'
  BY NextJudged, NextCount, NextWalk, NextPage, NextReason, NextView DEF PagingSoFar, JudgedSoFar
<1> QED
  BY <1>1, <1>2, PTL DEF Spec

\* What a request has gathered was judged since it began, for any table, any
\* number of edits and any interleaving.
THEOREM Gathered == Spec => []JudgedSoFar
BY InitJudged, NextJudged, PTL DEF Spec

\* The reason code of every reply tells the truth about the moment it speaks of
\* (deriveResultReason, service.go:145), however COUNT and SELECT were torn apart.
THEOREM ReasonsAreTrue == Spec => []ReasonIsTrue
<1>1. PagingSoFar => ReasonIsTrue
  BY DEF PagingSoFar
<1> QED
  BY <1>1, PagingInvariant, PTL

\* Undisturbed, a page is the policy's view of its window, for windows, limits and
\* tables of any size (service.go:89-127).
THEOREM PagesAreViews == Spec => []PageIsThePolicysView
<1>1. PagingSoFar => PageIsThePolicysView
  BY DEF PagingSoFar
<1> QED
  BY <1>1, PagingInvariant, PTL

\* Undisturbed, a walk along the cursors judges every matching row once, and at
\* its end has judged them all (adapter.go:89-92).
THEOREM WalksTile == Spec => []WindowsTileTheTable
<1>1. PagingSoFar => WindowsTileTheTable
  BY Tiled DEF PagingSoFar, JudgedSoFar
<1> QED
  BY <1>1, PagingInvariant, PTL

=============================================================================
