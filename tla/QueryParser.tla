----------------------------- MODULE QueryParser -----------------------------
(***************************************************************************)
(* The deterministic framer (internal/semantic/parser.go, slots.go) behind *)
(* rule-slm and behind every fallback: a message is normalised, its slots, *)
(* intent and resource type are read off cues, and each cue that applies   *)
(* adds filters and confidence.                                            *)
(*                                                                         *)
(* A message is a sequence of words.  The text of an identifier is one     *)
(* word, ORD, TRK, PAY, CUST, MAIL or PHONE, and stands for its value too. *)
(* Letter case, quotes, wrappers and blanks are left out.  A list of cues  *)
(* is represented by some of its phrases, another phrase of the same list  *)
(* has the same effect.  Confidence is in hundredths.                      *)
(***************************************************************************)
EXTENDS FieldContracts, Integers, Selection

-----------------------------------------------------------------------------
(* Cues *)

\* what a word begins with, and what it ends with, besides itself
Beginning == [orders |-> "order", failed |-> "fail", delayed |-> "delay"]

Ending == [unshipped |-> "shipped"]

Begins(word, term) == word \in DOMAIN Beginning /\ Beginning[word] = term

Ends(word, term) == word \in DOMAIN Ending /\ Ending[word] = term

\* strings.Contains: within a phrase only its last word may go on in the text,
\* and only its first may have begun before
Says(text, phrase) ==
    \E i \in 0..(Len(text) - Len(phrase)) :
        \A j \in DOMAIN phrase :
            \/ text[i + j] = phrase[j]
            \/ j = Len(phrase) /\ Begins(text[i + j], phrase[j])
            \/ j = 1 /\ Ends(text[i + j], phrase[j])

SaysAny(text, phrases) == \E phrase \in phrases : Says(text, phrase)

OpenCues == {<<"open", "order">>, <<"orders", "in", "open", "state">>,
             <<"order", "in", "open", "state">>, <<"orders", "open", "state">>,
             <<"state", "is", "open">>, <<"state", "open">>}
FailedCues == {<<"payment", "failed">>, <<"payment", "unsuccessful">>, <<"declined", "payment">>}
PendingCues == {<<"payment", "pending">>, <<"unpaid">>}
PaidCues == {<<"payment", "captured">>, <<"payment", "paid">>}
NotShippedCues == {<<"not", "shipped">>, <<"not", "yet", "shipped">>, <<"unshipped">>}
WeekCues == {<<"this", "week">>, <<"last", "7", "days">>}
ShortWindowCues == {<<"last", "14", "days">>}

-----------------------------------------------------------------------------
(* The shape of a message (internal/identifier/query_shape.go), for a      *)
(* message of more than two characters that is not about the catalogue.    *)

Verbs == {"show", "find", "where", "has", "is", "why"}

\* nothing here is the beginning of an identifier
QueryShape(text) ==
    LET HasWord(words) == Range(text) \cap words # {}
    IN IF HasWord({"MAIL", "PHONE"}) THEN "contact_lookup"
       ELSE IF HasWord({"ORD", "TRK", "PAY", "CUST"}) THEN "identifier_token"
       ELSE IF HasWord(Verbs) \/ Len(text) > 3 THEN "sentence_nl"
       ELSE IF Len(text) > 1 THEN "keyword_phrase"
       ELSE "typeahead_prefix"

-----------------------------------------------------------------------------
(* Rewriting: phrases of a Go map, each replaced wherever it occurs, in    *)
(* the order in which the map happens to be iterated.  One replacement may *)
(* complete the phrase of another, or spoil it.                            *)

Spelling == {
    [from |-> <<"ordres">>,                         to |-> <<"orders">>],
    [from |-> <<"opne">>,                           to |-> <<"open">>],
    [from |-> <<"paymnt">>,                         to |-> <<"payment">>],
    [from |-> <<"un-successful">>,                  to |-> <<"unsuccessful">>],
    [from |-> <<"payment", "unsuccessful">>,        to |-> <<"payment", "failed">>],
    [from |-> <<"declined", "payment">>,            to |-> <<"payment", "failed">>],
    [from |-> <<"orders", "in", "open", "status">>, to |-> <<"orders", "in", "open", "state">>],
    [from |-> <<"state", "is", "open">>,            to |-> <<"open", "state">>]}

\* normalizePrompt, for the local model
Prompts == {
    [from |-> <<"where", "is", "my", "order">>,     to |-> <<"order", "tracking", "status">>],
    [from |-> <<"has", "my", "order", "shipped">>,  to |-> <<"order", "shipped", "status">>],
    [from |-> <<"last", "3", "orders">>,            to |-> <<"recent", "orders">>],
    [from |-> <<"initiate", "refund">>,             to |-> <<"refund", "status">>]}

\* strings.ReplaceAll from left to right, which does not read again what it wrote: it
\* finds the phrase at the head of what is left, or moves on by a word
ReadOn(r, p) ==
    IF p.rest = <<>> THEN p
    ELSE IF IsPrefix(r.from, p.rest)
         THEN [done |-> p.done \o r.to, rest |-> SubSeq(p.rest, Len(r.from) + 1, Len(p.rest))]
         ELSE [done |-> Append(p.done, Head(p.rest)), rest |-> Tail(p.rest)]

Replaced(text, r) ==
    LET turn(p, word) == ReadOn(r, p)
        end == FoldLeft(turn, [done |-> <<>>, rest |-> text], text)
    IN end.done \o end.rest

\* one more replacement, whichever comes next; a pair is a text and what is left
OneMore(pairs) ==
    UNION {{<<Replaced(p[1], r), p[2] \ {r}>> : r \in p[2]} : p \in pairs}

\* every text the iteration may end with
Rewritten(text, replacements) ==
    LET turn(pairs, k) == OneMore(pairs)
        turns == [k \in 1..Cardinality(replacements) |-> k]
    IN {p[1] : p \in FoldLeft(turn, {<<text, replacements>>}, turns)}

Normalised(text) == Rewritten(text, Spelling)

-----------------------------------------------------------------------------
(* Slots *)

HasNotShippedCue(text) == SaysAny(text, NotShippedCues)

HasPositiveShippedCue(text) ==
    \/ SaysAny(text, {<<"but", "shipped">>, <<"already", "shipped">>})
    \/ ~HasNotShippedCue(text) /\ Says(text, <<"shipped">>)

HasShipmentConflict(text) == HasNotShippedCue(text) /\ HasPositiveShippedCue(text)

\* the payment states a text names, in the order in which they are read
PaymentStates(text) ==
    (IF SaysAny(text, FailedCues) THEN <<"Failed">> ELSE <<>>)
        \o (IF SaysAny(text, PendingCues) THEN <<"Pending">> ELSE <<>>)
        \o (IF SaysAny(text, PaidCues) THEN <<"Paid">> ELSE <<>>)

HasPaymentConflict(text) == Len(PaymentStates(text)) > 1

-----------------------------------------------------------------------------
(* Intent and resource type *)

HasCRMIdentityCue(text) ==
    SaysAny(text, {<<"MAIL">>, <<"PHONE">>, <<"CUST">>, <<"vip">>, <<"profile">>})

IsTemporalOrderListing(text) == Says(text, <<"order">>) /\ SaysAny(text, WeekCues)

ClassifyIntent(text) ==
    IF SaysAny(text, {<<"calendar">>, <<"color">>}) THEN "unsupported_domain"
    ELSE IF SaysAny(text, {<<"return">>, <<"refund">>, <<"eligible">>}) THEN "returns_refunds"
    ELSE IF \/ IsTemporalOrderListing(text)
            \/ SaysAny(text, PendingCues \cup
                   {<<"open", "order">>, <<"open", "state">>, <<"state", "open">>,
                    <<"payment", "fail">>, <<"payment", "captured">>, <<"payment", "unsuccessful">>,
                    <<"declined", "payment">>, <<"tracking">>, <<"shipped">>, <<"delay">>,
                    <<"where", "is", "my", "order">>}) THEN "wismo"
    ELSE IF HasCRMIdentityCue(text) /\
            SaysAny(text, {<<"orders", "for">>, <<"recent", "orders">>, <<"vip">>,
                           <<"profile">>, <<"history">>}) THEN "crm_profile"
    ELSE "default"

InferResourceType(text, hint) ==
    IF hint \in Resources THEN hint
    ELSE IF SaysAny(text, {<<"order">>, <<"tracking">>, <<"refund">>, <<"return">>}) THEN "order"
    ELSE IF SaysAny(text, {<<"customer">>, <<"vip">>, <<"profile">>}) THEN "customer"
    ELSE "order"

-----------------------------------------------------------------------------
(* Filters *)

Is(field, value)  == [field |-> field, op |-> "eq", value |-> value]
Not(field, value) == [field |-> field, op |-> "neq", value |-> value]

DeniedStates == {"Shipped", "Delivered", "Ready"}

Denials == <<Not("shipment.state", "Shipped"), Not("shipment.state", "Delivered"),
             Not("shipment.state", "Ready")>>

\* applyNotShippedFilters: what is not denied yet
NotShippedFilters(filters) == Kept(Denials, Range(Denials) \ Range(filters))

\* what a cue contributes when it applies
Clue(applies, filters, weight) ==
    IF applies THEN [filters |-> filters, weight |-> weight] ELSE [filters |-> <<>>, weight |-> 0]

CommonClues(text, resource) == <<
    Clue(SaysAny(text, WeekCues \cup ShortWindowCues),
         <<[field |-> DefaultSort(resource), op |-> "gte", value |-> "since"]>>, 8),
    Clue(Says(text, <<"ORD">>), <<Is("order.number", "ORD")>>, 20),
    Clue(Says(text, <<"TRK">>), <<Is("shipment.tracking_id", "TRK")>>, 20),
    Clue(Says(text, <<"PAY">>), <<Is("payment.reference", "PAY")>>, 20)>>

CustomerScopeClues(text, resource) == <<
    Clue(Says(text, <<"MAIL">>),
         <<Is(IF resource = "order" THEN "order.customer_email" ELSE "customer.email", "MAIL")>>, 22),
    Clue(Says(text, <<"CUST">>),
         <<Is(IF resource = "order" THEN "order.customer_id" ELSE "customer.number", "CUST")>>, 20),
    Clue(Says(text, <<"PHONE">>), <<>>, 10)>>

WISMOClues(text, resource) == <<
    Clue(Says(text, <<"tracking">>), <<>>, 12),
    Clue(SaysAny(text, OpenCues), <<Is("order.state", "Open")>>, 14),
    Clue(HasNotShippedCue(text), NotShippedFilters(<<>>), 12),
    Clue(~HasNotShippedCue(text) /\ HasPositiveShippedCue(text),
         <<Is("shipment.state", "Shipped")>>, 12),
    Clue(Says(text, <<"delay">>), <<Is("shipment.state", "Delayed")>>, 12),
    Clue(Len(PaymentStates(text)) = 1, <<Is("payment.state", Last(PaymentStates(text)))>>, 12),
    Clue(Says(text, <<"courier">>), <<>>, 8)>> \o CustomerScopeClues(text, resource)

CRMClues(text, resource) == CustomerScopeClues(text, resource) \o <<
    Clue(Says(text, <<"vip">>), <<Not("customer.vip_tier", "silver")>>, 12),
    Clue(Says(text, <<"verified">>), <<Is("customer.is_email_verified", "1")>>, 10)>>

ReturnsClues(text) == <<
    Clue(Says(text, <<"eligible">>), <<Is("return.eligible", "true")>>, 14),
    Clue(Says(text, <<"refund">>), <<Not("refund.status", "NotInitiated")>>, 12),
    Clue(Says(text, <<"return">>), <<Not("return.status", "NotRequested")>>, 12)>>

IntentClues(text, resource, intent) ==
    CASE intent = "wismo"           -> WISMOClues(text, resource)
      [] intent = "crm_profile"     -> CRMClues(text, resource)
      [] intent = "returns_refunds" -> ReturnsClues(text)
      [] OTHER                      -> <<>>

-----------------------------------------------------------------------------
(* ParseNaturalLanguage on a normalised text.  A query is its version,     *)
(* intent, filters and sort field; the page is always the first 20 rows.   *)

\* fields whose filters a contradiction removes
Contradicted(text) ==
    (IF HasPaymentConflict(text) THEN {"payment.state"} ELSE {})
        \cup (IF HasShipmentConflict(text) THEN {"shipment.state"} ELSE {})

Plus(confidence, clue) == confidence + clue.weight

\* mutant: a contradiction removes the filters and leaves the confidence
ConfidenceAsAdded(text, clues) == FoldLeft(Plus, 55, clues)

ConfidenceOf(text, clues) ==
    IF Contradicted(text) # {} THEN 40
    ELSE FoldLeft(Plus, 55, clues)

ParseText(text, version, hint) ==
    LET intent == ClassifyIntent(text)
        resource == InferResourceType(text, hint)
        clues == CommonClues(text, resource) \o IntentClues(text, resource, intent)
        named == FlattenSeq([i \in DOMAIN clues |-> clues[i].filters])
        agreed == {f \in Range(named) : f.field \notin Contradicted(text)}
        confidence == ConfidenceOf(text, clues)
    IN [query      |-> [version |-> version, intent |-> intent, sort |-> DefaultSort(resource),
                        filters |-> Kept(named, agreed)],
        intent     |-> intent,
        resource   |-> resource,
        confidence |-> confidence,
        clarify    |-> confidence < 66]

=============================================================================
