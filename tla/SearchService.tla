---------------------------- MODULE SearchService ----------------------------
(***************************************************************************)
(* Service.Search and Service.Detail (internal/search/service.go) over the *)
(* SQLite adapter (internal/store/sqlite/adapter.go), as one client sees   *)
(* them who pages through a result with the cursor of each reply.          *)
(*                                                                         *)
(*   Open -> Reject                                                        *)
(*       \-> Accept -> Count -> Select -> Judge* -> Compose -> Follow ...  *)
(*                                                        \-> Finish       *)
(*   OpenDetail -> Fetch -> JudgeDetail                                    *)
(*                                                                         *)
(* Search opens no transaction: the rows and the permissions may change    *)
(* between the COUNT, the SELECT and any two decisions.  Service keeps no  *)
(* state of its own, so one client is enough.                              *)
(***************************************************************************)
EXTENDS Integers, Selection

CONSTANTS
    Id,                 \* ids of the documents a query can match
    Content,            \* what a document may say
    DefaultLimit,       \* 20
    MaxCandidates,      \* maxCandidateWindow, 500
    WindowFactor,       \* 5, rows read for each row of the page
    MaxPlaceholders,    \* maxPlaceholderCount, 3
    Limits, Starts,     \* page.limit and page.cursor of a client's first request
    NoCopy,             \* no document
    Tables,             \* the matching rows, before any change
    MaxEdits            \* bound: changes made from outside

\* a document as it was when it was read
Copy == [id : Id, content : Content]

NoCursor == -1

ASSUME SearchConstants ==
    /\ DefaultLimit \in Nat \ {0}
    /\ MaxCandidates \in Nat \ {0}
    /\ WindowFactor \in Nat \ {0}
    /\ MaxPlaceholders \in Nat \ {0}
    /\ Limits \subseteq Nat
    /\ Starts \subseteq Nat
    /\ MaxEdits \in Nat
    /\ NoCopy \notin Copy
    /\ \A rows \in Tables :
         /\ rows \in Seq(Copy)
         /\ \A i, j \in DOMAIN rows : rows[i].id = rows[j].id => i = j

VARIABLES
    table,      \* the rows the query matches, in the order of its ORDER BY
    visible,    \* the copies policy.Evaluate allows this subject to view
    edits,      \* changes made to table and visible
    pc,         \* where the request is
    limit,      \* query.Page.Limit; 0 when absent or negative
    offset,     \* query.Page.Cursor; 0 when absent or not a number
    total,      \* the COUNT
    window,     \* candidates not judged yet
    allowed,    \* candidates allowed so far
    hidden,     \* ids of the candidates denied so far
    cursor,     \* NextCursor, or NoCursor
    copy,       \* the document Detail fetched
    reply,      \* the last answer
    seen        \* history, see History

search == <<limit, offset, total, window, allowed, hidden, cursor, copy>>
vars == <<table, visible, edits, pc, search, reply, seen>>

Status == {"none", "page", "document", "invalid", "forbidden", "error"}

ReasonCodes == {"VISIBLE_RESULTS", "MATCHES_EXIST_BUT_NOT_VISIBLE",
                "NO_MATCH_IN_TENANT", "NO_VISIBLE_RESULTS_FOR_CURRENT_SCOPE"}

Reply == [status : Status, items : Seq(Copy), hiddenCount : Nat,
          placeholders : Seq(Id), reason : ReasonCodes \cup {"none"}]

\* what no request can see, kept to state the properties: the copies allowed
\* and denied at some moment since the request began, whether the table was
\* empty at such a moment, where the walk started, the rows of all its windows
\* and the items of all its pages
History == [allowed : SUBSET Copy, denied : SUBSET Copy, empty : BOOLEAN,
            start : Nat, windows : Seq(Copy), shown : SUBSET Copy]

TypeOK ==
    /\ table \in Seq(Copy)
    /\ visible \subseteq Copy
    /\ edits \in 0..MaxEdits
    /\ pc \in {"idle", "validate", "count", "select", "judge", "replied",
               "fetch", "judgeDetail", "over"}
    /\ limit \in Nat /\ offset \in Nat /\ total \in Nat
    /\ cursor \in Nat \cup {NoCursor}
    /\ window \in Seq(Copy) /\ allowed \in Seq(Copy) /\ hidden \in Seq(Id)
    /\ copy \in Copy \cup {NoCopy}
    /\ reply \in Reply
    /\ seen \in History

Say(status) == [status |-> status, items |-> <<>>, hiddenCount |-> 0,
                placeholders |-> <<>>, reason |-> "none"]

Denied == Copy \ visible

Fresh(start, windows, shown) ==
    [allowed |-> visible, denied |-> Denied, empty |-> table = <<>>,
     start |-> start, windows |-> windows, shown |-> shown]

Init ==
    /\ table \in Tables
    /\ visible \in SUBSET Copy
    /\ edits = 0
    /\ pc = "idle"
    /\ limit = 0 /\ offset = 0 /\ total = 0 /\ cursor = NoCursor
    /\ window = <<>> /\ allowed = <<>> /\ hidden = <<>>
    /\ copy = NoCopy
    /\ reply = Say("none")
    /\ seen = Fresh(0, <<>>, {})

-----------------------------------------------------------------------------
(* The arithmetic of a page *)

Lesser(a, b) == IF a < b THEN a ELSE b

\* what the adapter makes of the limit; a limit above the window counts as none
PageSize(l) == IF l = 0 \/ l > MaxCandidates THEN Lesser(DefaultLimit, MaxCandidates) ELSE l

WindowSize(l) == Lesser(MaxCandidates, WindowFactor * PageSize(l))

\* what Search makes of it; a limit above the window is kept
ItemsAtMost(l) == IF l = 0 THEN DefaultLimit ELSE l

WindowAt(rows, from, l) == SubSeq(rows, from + 1, Lesser(from + WindowSize(l), Len(rows)))

\* mutant: the next page starts where the items shown end
NextCursorByPage(from, got, count, l) ==
    IF from + Lesser(got, PageSize(l)) < count THEN from + Lesser(got, PageSize(l)) ELSE NoCursor

\* mutant: a last page that ends on the last row is followed by an empty one
NextCursorAtEnd(from, got, count, l) == IF from + got <= count THEN from + got ELSE NoCursor

NextCursor(from, got, count, l) == IF from + got < count THEN from + got ELSE NoCursor

\* mutant: the total of the whole query decides before the rows of this page
ReasonTotalFirst(count, candidates, authorized, notVisible) ==
    IF count = 0 THEN "NO_MATCH_IN_TENANT"
    ELSE IF authorized > 0 THEN "VISIBLE_RESULTS"
    ELSE IF notVisible > 0 THEN "MATCHES_EXIST_BUT_NOT_VISIBLE"
    ELSE "NO_VISIBLE_RESULTS_FOR_CURRENT_SCOPE"

\* mutant: the page is given the reason code of its placeholders
ReasonOfPlaceholder(count, candidates, authorized, notVisible) ==
    IF authorized > 0 THEN "VISIBLE_RESULTS"
    ELSE IF notVisible > 0 THEN "INSUFFICIENT_PERMISSION"
    ELSE IF count = 0 THEN "NO_MATCH_IN_TENANT"
    ELSE "NO_VISIBLE_RESULTS_FOR_CURRENT_SCOPE"

\* deriveResultReason
ReasonCode(count, candidates, authorized, notVisible) ==
    IF authorized > 0 THEN "VISIBLE_RESULTS"
    ELSE IF notVisible > 0 THEN "MATCHES_EXIST_BUT_NOT_VISIBLE"
    ELSE IF count = 0 THEN "NO_MATCH_IN_TENANT"
    ELSE "NO_VISIBLE_RESULTS_FOR_CURRENT_SCOPE"

-----------------------------------------------------------------------------
(* Search *)

Goto(from, to) == pc = from /\ pc' = to

\* the client's first request
Open(l, start) ==
    /\ Goto("idle", "validate")
    /\ limit' = l /\ offset' = start
    /\ seen' = Fresh(start, <<>>, {})
    /\ UNCHANGED <<table, visible, edits, total, window, allowed, hidden, cursor, copy, reply>>

\* ValidateField refuses a filter or the sort field: 400, the store is not read
Reject ==
    /\ Goto("validate", "over")
    /\ reply' = Say("invalid")
    /\ UNCHANGED <<table, visible, edits, search, seen>>

Accept ==
    /\ Goto("validate", "count")
    /\ UNCHANGED <<table, visible, edits, search, reply, seen>>

Count ==
    /\ Goto("count", "select")
    /\ total' = Len(table)
    /\ UNCHANGED <<table, visible, edits, limit, offset, window, allowed, hidden,
                   cursor, copy, reply, seen>>

\* the SELECT and the rows.Next loop
Select ==
    /\ Goto("select", "judge")
    /\ window' = WindowAt(table, offset, limit)
    /\ cursor' = NextCursor(offset, Len(window'), total, limit)
    /\ seen' = [seen EXCEPT !.windows = @ \o window']
    /\ UNCHANGED <<table, visible, edits, limit, offset, total, allowed, hidden, copy, reply>>

\* mutant: a candidate is judged as it is by now and shown as it was read
JudgeCurrent ==
    /\ pc = "judge" /\ window # <<>>
    /\ window' = Tail(window)
    /\ IF \E c \in visible : c.id = Head(window).id
       THEN allowed' = Append(allowed, Head(window)) /\ hidden' = hidden
       ELSE allowed' = allowed /\ hidden' = Append(hidden, Head(window).id)
    /\ UNCHANGED <<table, visible, edits, pc, limit, offset, total, cursor, copy, reply, seen>>

\* mutant: the loop is left as soon as the page is full
JudgeStopsAtLimit ==
    /\ pc = "judge" /\ window # <<>>
    /\ IF Head(window) \in visible
       THEN allowed' = Append(allowed, Head(window)) /\ hidden' = hidden
       ELSE allowed' = allowed /\ hidden' = Append(hidden, Head(window).id)
    /\ window' = IF Len(allowed') >= ItemsAtMost(limit) THEN <<>> ELSE Tail(window)
    /\ UNCHANGED <<table, visible, edits, pc, limit, offset, total, cursor, copy, reply, seen>>

\* one turn of the loop: the copy just read is judged by the policy of this moment
Judge ==
    /\ pc = "judge" /\ window # <<>>
    /\ window' = Tail(window)
    /\ IF Head(window) \in visible
       THEN allowed' = Append(allowed, Head(window)) /\ hidden' = hidden
       ELSE allowed' = allowed /\ hidden' = Append(hidden, Head(window).id)
    /\ UNCHANGED <<table, visible, edits, pc, limit, offset, total, cursor, copy, reply, seen>>

\* items are cut to the limit, placeholders to MaxPlaceholders, counts are not
Compose ==
    /\ Goto("judge", "replied") /\ window = <<>>
    /\ LET items == SubSeq(allowed, 1, Lesser(Len(allowed), ItemsAtMost(limit)))
       IN  /\ reply' =
                [status       |-> "page",
                 items        |-> items,
                 hiddenCount  |-> Len(hidden),
                 placeholders |-> SubSeq(hidden, 1, Lesser(Len(hidden), MaxPlaceholders)),
                 reason       |-> ReasonCode(total, Len(allowed) + Len(hidden),
                                             Len(items), Len(hidden))]
           /\ seen' = [seen EXCEPT !.shown = @ \cup ToSet(items)]
    /\ allowed' = <<>> /\ hidden' = <<>> /\ total' = 0
    /\ UNCHANGED <<table, visible, edits, limit, offset, window, cursor, copy>>

\* the client asks for the next page with the cursor it was given
Follow ==
    /\ Goto("replied", "validate") /\ cursor # NoCursor
    /\ offset' = cursor /\ cursor' = NoCursor
    /\ seen' = Fresh(seen.start, seen.windows, seen.shown)
    /\ UNCHANGED <<table, visible, edits, limit, total, window, allowed, hidden, copy, reply>>

\* no cursor: this was the last page
Finish ==
    /\ Goto("replied", "over") /\ cursor = NoCursor
    /\ UNCHANGED <<table, visible, edits, search, reply, seen>>

-----------------------------------------------------------------------------
(* Detail *)

OpenDetail ==
    /\ Goto("idle", "fetch")
    /\ seen' = Fresh(0, <<>>, {})
    /\ UNCHANGED <<table, visible, edits, search, reply>>

\* GetByID; no such row is answered like a row the subject may not view
Fetch(id) ==
    /\ pc = "fetch"
    /\ IF \E row \in ToSet(table) : row.id = id
       THEN /\ copy' = CHOOSE row \in ToSet(table) : row.id = id
            /\ pc' = "judgeDetail"
            /\ reply' = reply
       ELSE /\ copy' = NoCopy
            /\ pc' = "over"
            /\ reply' = Say("forbidden")
    /\ UNCHANGED <<table, visible, edits, limit, offset, total, window, allowed,
                   hidden, cursor, seen>>

\* mutant: the policy is asked about the bare id, as Explain does
JudgeDetailById ==
    /\ Goto("judgeDetail", "over")
    /\ reply' = IF \E c \in visible : c.id = copy.id
                THEN [Say("document") EXCEPT !.items = <<copy>>]
                ELSE Say("forbidden")
    /\ copy' = NoCopy
    /\ UNCHANGED <<table, visible, edits, limit, offset, total, window, allowed,
                   hidden, cursor, seen>>

JudgeDetail ==
    /\ Goto("judgeDetail", "over")
    /\ reply' = IF copy \in visible
                THEN [Say("document") EXCEPT !.items = <<copy>>]
                ELSE Say("forbidden")
    /\ copy' = NoCopy
    /\ UNCHANGED <<table, visible, edits, limit, offset, total, window, allowed,
                   hidden, cursor, seen>>

-----------------------------------------------------------------------------
(* Failures, the client's next walk, changes from outside *)

\* a statement, a row or a decision fails: 500, whatever was gathered is dropped
Fail ==
    /\ pc \in {"count", "select", "judge", "fetch", "judgeDetail"}
    /\ pc = "judge" => window # <<>>
    /\ pc' = "over"
    /\ reply' = Say("error")
    /\ total' = 0 /\ cursor' = NoCursor
    /\ window' = <<>> /\ allowed' = <<>> /\ hidden' = <<>>
    /\ copy' = NoCopy
    /\ UNCHANGED <<table, visible, edits, limit, offset, seen>>

StartOver ==
    /\ Goto("over", "idle")
    /\ limit' = 0 /\ offset' = 0
    /\ reply' = Say("none")
    /\ seen' = Fresh(0, <<>>, {})
    /\ UNCHANGED <<table, visible, edits, total, window, allowed, hidden, cursor, copy>>

\* a row is inserted, deleted or rewritten
EditTable ==
    /\ \/ \E c \in Copy, i \in 1..Len(table) + 1 :
            /\ \A row \in ToSet(table) : row.id # c.id
            /\ table' = InsertAt(table, i, c)
       \/ \E i \in DOMAIN table : table' = RemoveAt(table, i)
       \/ \E i \in DOMAIN table, x \in Content : table' = [table EXCEPT ![i].content = x]
    /\ visible' = visible

\* a grant, a rule or the grants cache changes what the policy answers
EditPolicy ==
    /\ \E c \in Copy : visible' = visible \cup {c} \/ visible' = visible \ {c}
    /\ table' = table

Edit ==
    /\ edits < MaxEdits
    /\ edits' = edits + 1
    /\ EditTable \/ EditPolicy
    /\ seen' = [seen EXCEPT !.allowed = @ \cup visible', !.denied = @ \cup Denied',
                            !.empty = @ \/ table' = <<>>]
    /\ UNCHANGED <<pc, search, reply>>

-----------------------------------------------------------------------------
(* Specification *)

\* the steps that serve a request, and the client asking for the next page
Serve ==
    \/ Accept
    \/ Count
    \/ Select
    \/ Judge
    \/ Compose
    \/ Follow
    \/ Finish
    \/ \E id \in Id : Fetch(id)
    \/ JudgeDetail

Next ==
    \/ \E l \in Limits, start \in Starts : Open(l, start)
    \/ OpenDetail
    \/ Serve
    \/ Reject
    \/ Fail
    \/ StartOver
    \/ Edit

Spec == Init /\ [][Next]_vars

\* a handler runs to its end and the client keeps paging
FairSpec == Spec /\ WF_vars(Serve)

-----------------------------------------------------------------------------
(* Properties *)

\* README.md:228, "No sensitive fields from unauthorized docs are returned":
\* Search and Detail judge the copy they return (service.go:92, :181), so even
\* while rows and permissions change, every document of an answer was allowed,
\* in the very state it is shown in, at some moment of this request, and every
\* placeholder stands for a document that was denied at some moment of it.
AnswersWereJudged ==
    pc \in {"replied", "over"} =>
        /\ \A i \in DOMAIN reply.items : reply.items[i] \in seen.allowed
        /\ \A i \in DOMAIN reply.placeholders :
             \E c \in seen.denied : c.id = reply.placeholders[i]

\* why it holds: what a request has gathered so far was judged since it began,
\* nothing is gathered outside the loop (service.go:89-101), and the history
\* covers the present
JudgedSoFar ==
    /\ TypeOK
    /\ visible \subseteq seen.allowed /\ Denied \subseteq seen.denied
    /\ pc # "judge" => allowed = <<>> /\ hidden = <<>>
    /\ \A i \in DOMAIN allowed : allowed[i] \in seen.allowed
    /\ \A i \in DOMAIN hidden : \E c \in seen.denied : c.id = hidden[i]
    /\ AnswersWereJudged

\* While nothing changes, a page is the policy's view of its window: the loop,
\* the cuts and the counts of Search (service.go:89-127) add up to the first
\* items allowed and the first ids denied, in the order of the rows.
PageIsThePolicysView ==
    edits = 0 /\ pc = "replied" =>
        LET rows == WindowAt(table, offset, limit)
            denied == Kept(rows, Denied)
        IN  /\ IsPrefix(reply.items, Kept(rows, visible))
            /\ Len(reply.items) = Lesser(Len(rows) - Len(denied), ItemsAtMost(limit))
            /\ reply.hiddenCount = Len(denied)
            /\ reply.placeholders = [i \in 1..Lesser(Len(denied), MaxPlaceholders)
                                       |-> denied[i].id]

\* deriveResultReason (service.go:145) takes the COUNT and the rows of two
\* statements: a reply says that nothing matched only if nothing did at some
\* moment of the request, and that nothing is visible in the current scope, the
\* answer for an empty window, only past the end of the table or after a change.
ReasonIsTrue ==
    pc = "replied" =>
        /\ reply.reason = "NO_MATCH_IN_TENANT" => seen.empty /\ reply.hiddenCount = 0
        /\ reply.reason = "VISIBLE_RESULTS" <=> reply.items # <<>>
        /\ reply.reason = "MATCHES_EXIST_BUT_NOT_VISIBLE" => reply.placeholders # <<>>
        /\ reply.reason = "NO_VISIBLE_RESULTS_FOR_CURRENT_SCOPE" =>
             edits > 0 \/ offset >= Len(table)

\* The cursor (adapter.go:89) makes the windows of a walk tile the table: while
\* nothing changes, no matching row is judged twice and none is skipped.
WindowsTileTheTable ==
    edits = 0 /\ reply.status = "page" =>
        /\ IsPrefix(seen.windows, SubSeq(table, seen.start + 1, Len(table)))
        /\ pc = "over" => seen.windows = SubSeq(table, seen.start + 1, Len(table))

\* README.md:11, "Return authorized items and redacted placeholders for hidden
\* matches": a client who pages to the end has seen every match it may view.
WalkShowsWhatIsVisible ==
    edits = 0 /\ pc = "over" /\ reply.status = "page" /\ seen.start = 0 =>
        ToSet(table) \cap visible \subseteq seen.shown

\* Every walk along the cursors ends (adapter.go:90), also when rows vanish
\* between the COUNT that promises them and the SELECT.
WalkEnds == pc \notin {"idle", "over"} ~> pc = "over"

=============================================================================
