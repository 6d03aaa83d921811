------------------------------ MODULE FastPath ------------------------------
(***************************************************************************)
(* handleQueryInterpret up to the semantic router, and tryIdentifierFast-  *)
(* Path (internal/http/server.go): one goroutine per lookup of the plan, a *)
(* buffered channel with room for every result, a WaitGroup, and a         *)
(* collector that drains the channel after all goroutines are done.        *)
(*                                                                         *)
(*   Ignore / Refuse / Semantic                                            *)
(*   Dispatch -> Spawn(1), Spawn(2), ... -> Join -> Collect* -> Reply      *)
(*                  |                                \-> Abort             *)
(*                  \-> Search(i) -> Send(i) -> Done(i)                    *)
(*                                                                         *)
(* The model ends with the response to one request.                        *)
(***************************************************************************)
EXTENDS ResolutionPlan, FieldContracts, Integers, FiniteSets

CONSTANTS
    Messages,       \* messages that users send
    Hints,          \* resourceHint of the payload
    Versions,       \* contractVersion of the payload, "v2" when absent
    Enabled,        \* both feature flags of the fast path
    Counts,         \* bound: what a lookup may find
    StoreFails      \* lookups may fail in the store

\* the counts of one SearchResponse
CountsType == [authorized : Nat, hidden : Nat]

ASSUME FastPathConstants ==
    /\ Messages \subseteq Message
    /\ Hints \subseteq {"", "order", "customer"}
    /\ Versions \subseteq {"v1", "v2"}
    /\ Enabled \in BOOLEAN
    /\ Counts \subseteq CountsType
    /\ StoreFails \in BOOLEAN

VARIABLES
    message, hint, version,     \* the payload
    phase,      \* where the handler is
    groups,     \* plan.Groups
    task,       \* task[i]: where the goroutine of groups[i] is
    found,      \* found[i]: what its Search returned
    ch,         \* the channel
    collected,  \* the results received so far
    reply       \* the totals of the response, and its reason

payload == <<message, hint, version>>
vars == <<payload, phase, groups, task, found, ch, collected, reply>>

\* what Search of goroutine i returned; cause says why it failed
Result == [at : Nat, ok : BOOLEAN, counts : CountsType, cause : {"none", "contract", "store"}]

NoCounts == [authorized |-> 0, hidden |-> 0]
NoResult == [at |-> 0, ok |-> FALSE, counts |-> NoCounts, cause |-> "none"]
NoReply == [totals |-> NoCounts, reason |-> "none"]

Ended == {"short", "unsupported", "semantic", "replied", "failed"}

TaskStates == {"new", "started", "found", "sent", "done"}

TypeOK ==
    /\ message \in Messages /\ hint \in Hints /\ version \in Versions
    /\ phase \in {"received", "spawning", "collecting"} \cup Ended
    /\ IsInjective(groups)
    /\ task \in [DOMAIN groups -> TaskStates]
    /\ found \in [DOMAIN groups -> Result]
    /\ ch \in Seq(Result) /\ Len(ch) <= Len(groups)
    /\ collected \in Seq(Result)
    /\ reply.totals \in CountsType
    /\ reply.reason \in {"none", "VISIBLE_RESULTS", "MATCHES_EXIST_BUT_NOT_VISIBLE",
                         "NO_MATCH_IN_TENANT"}

\* the plan is made before the route is chosen
Init ==
    /\ message \in Messages /\ hint \in Hints /\ version \in Versions
    /\ phase = "received"
    /\ groups = Plan(message, hint)
    /\ task = [i \in DOMAIN groups |-> "new"]
    /\ found = [i \in DOMAIN groups |-> NoResult]
    /\ ch = <<>> /\ collected = <<>>
    /\ reply = NoReply

Goto(from, to) == phase = from /\ phase' = to

-----------------------------------------------------------------------------
(* Routing *)

End(how) ==
    /\ Goto("received", how)
    /\ UNCHANGED <<payload, groups, task, found, ch, collected, reply>>

TakesFastPath == Enabled /\ ShouldUseFastPath(message) /\ groups # <<>>

Ignore == End("short") /\ message.short

Refuse == End("unsupported") /\ ~message.short /\ UnsupportedDomain(message)

Semantic ==
    /\ End("semantic")
    /\ ~message.short /\ ~UnsupportedDomain(message)
    /\ ~TakesFastPath

Dispatch ==
    /\ Goto("received", "spawning")
    /\ ~message.short /\ ~UnsupportedDomain(message)
    /\ TakesFastPath
    /\ UNCHANGED <<payload, groups, task, found, ch, collected, reply>>

-----------------------------------------------------------------------------
(* The goroutines *)

Advance(i, from, to) ==
    /\ i \in DOMAIN groups
    /\ task[i] = from
    /\ task' = [task EXCEPT ![i] = to]

\* wg.Add and go, in the order of the plan, while earlier ones already run
Spawn(i) ==
    /\ phase = "spawning"
    /\ \A j \in 1..i - 1 : task[j] # "new"
    /\ Advance(i, "new", "started")
    /\ UNCHANGED <<payload, phase, groups, found, ch, collected, reply>>

\* the query of every lookup has the default intent and sorts by created_at
Accepted(l) ==
    \A name \in {l.field, "created_at"} : ValidateField(l.resource, version, "default", name)

\* s.search.Search: refused by the contract, failed by the store, or counted
Search(i) ==
    /\ Advance(i, "started", "found")
    /\ \/ /\ ~Accepted(groups[i])
          /\ found' = [found EXCEPT ![i] = [NoResult EXCEPT !.at = i, !.cause = "contract"]]
       \/ /\ Accepted(groups[i]) /\ StoreFails
          /\ found' = [found EXCEPT ![i] = [NoResult EXCEPT !.at = i, !.cause = "store"]]
       \/ /\ Accepted(groups[i])
          /\ \E n \in Counts : found' = [found EXCEPT ![i] =
                [at |-> i, ok |-> TRUE, counts |-> n, cause |-> "none"]]
    /\ UNCHANGED <<payload, phase, groups, ch, collected, reply>>

\* mutant: make(chan result, 1)
SendToOneSlot(i) ==
    /\ Advance(i, "found", "sent")
    /\ ch = <<>>
    /\ ch' = Append(ch, found[i])
    /\ UNCHANGED <<payload, phase, groups, found, collected, reply>>

\* a send blocks while the channel is full
Send(i) ==
    /\ Advance(i, "found", "sent")
    /\ Len(ch) < Len(groups)
    /\ ch' = Append(ch, found[i])
    /\ UNCHANGED <<payload, phase, groups, found, collected, reply>>

\* the deferred wg.Done
Done(i) ==
    /\ Advance(i, "sent", "done")
    /\ UNCHANGED <<payload, phase, groups, found, ch, collected, reply>>

-----------------------------------------------------------------------------
(* The collector *)

\* mutant: the collector goes on once all goroutines are started
JoinEarly ==
    /\ Goto("spawning", "collecting")
    /\ \A i \in DOMAIN groups : task[i] # "new"
    /\ UNCHANGED <<payload, groups, task, found, ch, collected, reply>>

\* wg.Wait, close(ch)
Join ==
    /\ Goto("spawning", "collecting")
    /\ \A i \in DOMAIN groups : task[i] = "done"
    /\ UNCHANGED <<payload, groups, task, found, ch, collected, reply>>

\* mutant: a failed lookup is skipped
CollectSkipsError ==
    /\ phase = "collecting" /\ ch # <<>>
    /\ ch' = Tail(ch)
    /\ collected' = IF Head(ch).ok THEN Append(collected, Head(ch)) ELSE collected
    /\ UNCHANGED <<payload, phase, groups, task, found, reply>>

Collect ==
    /\ phase = "collecting" /\ ch # <<>>
    /\ Head(ch).ok
    /\ ch' = Tail(ch)
    /\ collected' = Append(collected, Head(ch))
    /\ UNCHANGED <<payload, phase, groups, task, found, reply>>

\* the first error received fails the request; what is left stays in the channel
Abort ==
    /\ Goto("collecting", "failed") /\ ch # <<>>
    /\ ~Head(ch).ok
    /\ ch' = Tail(ch)
    /\ UNCHANGED <<payload, groups, task, found, collected, reply>>

\* totalAuthorized and totalHidden
Totals(results) ==
    LET add(acc, r) == [authorized |-> acc.authorized + r.counts.authorized,
                        hidden     |-> acc.hidden + r.counts.hidden]
    IN  FoldLeft(add, NoCounts, results)

\* resultReasonForFastPath
Reason(totals) ==
    IF totals.authorized > 0 THEN "VISIBLE_RESULTS"
    ELSE IF totals.hidden > 0 THEN "MATCHES_EXIST_BUT_NOT_VISIBLE"
    ELSE "NO_MATCH_IN_TENANT"

\* mutant: the reason is that of the last result
ReplyByLast ==
    /\ Goto("collecting", "replied") /\ ch = <<>>
    /\ reply' = [totals |-> Totals(collected),
                 reason |-> Reason(collected[Len(collected)].counts)]
    /\ UNCHANGED <<payload, groups, task, found, ch, collected>>

\* the channel is closed and empty
Reply ==
    /\ Goto("collecting", "replied") /\ ch = <<>>
    /\ reply' = [totals |-> Totals(collected), reason |-> Reason(Totals(collected))]
    /\ UNCHANGED <<payload, groups, task, found, ch, collected>>

-----------------------------------------------------------------------------
(* Specification *)

Task(i) == Search(i) \/ Send(i) \/ Done(i)

Handler ==
    \/ Ignore
    \/ Refuse
    \/ Semantic
    \/ Dispatch
    \/ \E i \in DOMAIN groups : Spawn(i)
    \/ Join
    \/ Collect
    \/ Abort
    \/ Reply

Next == Handler \/ \E i \in DOMAIN groups : Task(i)

Spec == Init /\ [][Next]_vars

\* the runtime runs something as long as something can run; that is enough, as
\* the handler and its goroutines take finitely many steps
FairSpec == Spec /\ WF_vars(Next)

-----------------------------------------------------------------------------
(* Properties *)

\* The results arrive in any order and carry no index (server.go:439-481): a
\* response accounts for every lookup of the plan exactly once, whatever the
\* interleaving, and its totals and reason are those of all of them.
ReplyCoversThePlan ==
    phase = "replied" =>
        /\ Len(collected) = Len(groups)
        /\ \A i \in DOMAIN groups : \E r \in ToSet(collected) : r = found[i] /\ r.ok
        /\ reply.totals = Totals(found)
        /\ reply.reason = "NO_MATCH_IN_TENANT" <=>
             \A i \in DOMAIN groups : found[i].counts = NoCounts
        /\ reply.reason = "VISIBLE_RESULTS" <=>
             \E i \in DOMAIN groups : found[i].counts.authorized > 0

\* All or nothing (server.go:475): the request fails if and only if some lookup
\* failed, however the results were ordered, and never on part of them.
FailsIfAnyLookupFails ==
    phase \in {"replied", "failed"} =>
        (phase = "failed" <=> \E i \in DOMAIN groups : ~found[i].ok)

\* No goroutine outlives its request, not even one that fails: nobody sends on
\* the closed channel and nobody is left blocked in a send (server.go:468).
NoGoroutineIsLeft ==
    phase \in {"collecting"} \cup Ended => \A i \in DOMAIN groups : task[i] \in {"new", "done"}

\* Every message gets a response: the collector waits for the goroutines before
\* it receives anything, so the channel must have room for all (server.go:439).
EveryRequestIsAnswered == <>(phase \in Ended)

\* README.md:208, "Parallel identifier lookup fields: Orders: `order.number`,
\* `shipment.tracking_id`, ... Customers: `customer.number`, `customer.email`":
\* a lookup on one of these fields fails a request only when the store fails.
LookupsAreSupported ==
    phase = "failed" => \E i \in DOMAIN groups : found[i].cause = "store"

\* README.md:206, "`groupedMatches[]` grouped by `resourceType + matchField`": a
\* response has one group for a resource type and field.
OneGroupPerField ==
    phase = "replied" =>
        \A i, j \in DOMAIN groups :
            groups[i].resource = groups[j].resource /\ groups[i].field = groups[j].field
                => i = j

=============================================================================
