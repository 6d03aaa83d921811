--------------------------- MODULE MCHybridRetrieval ---------------------------
(***************************************************************************)
(* HybridRetrieval over three orders and a customer of one tenant and an   *)
(* order of another that is like the first.                                *)
(***************************************************************************)
EXTENDS HybridRetrieval, TLC

SomeOrders == {"o1", "o2", "o3", "other"}

SomeCustomers == {"c1"}

Owner == [d \in Docs |-> IF d = "other" THEN "tenant-b" ELSE "tenant-a"]

As(as, value) == [as |-> as, of |-> value]

\* 1 is the number of o1 and other, 2 a prefix of those of all orders, 3 the
\* address of the customer and of two orders, 0 digits that a number begins with
Known ==
    "o1"    :> {<<"order.number", As("itself", 1)>>, <<"order.number", As("prefix", 2)>>,
                <<"order.customer_email", As("itself", 3)>>} @@
    "o2"    :> {<<"order.number", As("prefix", 2)>>, <<"order.customer_email", As("itself", 3)>>} @@
    "o3"    :> {<<"order.number", As("prefix", 2)>>, <<"order.number", As("prefix", 0)>>} @@
    "other" :> {<<"order.number", As("itself", 1)>>, <<"order.number", As("prefix", 2)>>} @@
    "c1"    :> {<<"customer.email", As("itself", 3)>>}

\* words in the columns of lexicalFieldsFor
Text ==
    "o1"    :> <<{"ord-1"}, {}, {}, {"mail"}, {"open"}, {}, {}>> @@
    "o2"    :> <<{}, {}, {}, {"mail"}, {"open"}, {"delayed"}, {}>> @@
    "o3"    :> <<{}, {}, {}, {}, {"open"}, {"delayed"}, {"paid"}>> @@
    "other" :> <<{"ord-1"}, {}, {}, {}, {"open"}, {}, {}>> @@
    "c1"    :> <<{}, {"mail"}, {}, {}, {}, {}>>

Typed(types, values) ==
    [short |-> FALSE, catalog |-> FALSE, numeric |-> FALSE, words |-> Len(types), prefixed |-> FALSE,
     verb |-> FALSE, detected |-> [i \in DOMAIN types |-> [type |-> types[i], value |-> values[i]]]]

Like(o1, o2, o3, other, c1) ==
    "o1" :> o1 @@ "o2" :> o2 @@ "o3" :> o3 @@ "other" :> other @@ "c1" :> c1

Sayings == {
    [identified |-> Typed(<<"order_number">>, <<1>>), shape |-> "identifier_token",
     tokens |-> <<"ord-1">>, likeness |-> Like(1, 2, 0, 3, 0)],
    [identified |-> Typed(<<"unknown_token">>, <<2>>), shape |-> "typeahead_prefix",
     tokens |-> <<"open">>, likeness |-> Like(1, 1, 2, 1, 0)],
    [identified |-> Typed(<<"email">>, <<3>>), shape |-> "contact_lookup",
     tokens |-> <<"mail">>, likeness |-> Like(0, 0, 1, 0, 1)],
    [identified |-> Typed(<<"order_number">>, <<1>>), shape |-> "identifier_token",
     tokens |-> <<"ord-1", "delayed">>, likeness |-> Like(0, 1, 1, 0, 0)],
    [identified |-> [Typed(<<"unknown_token">>, <<4>>) EXCEPT !.numeric = TRUE],
     shape |-> "identifier_token", tokens |-> <<"open">>, likeness |-> Like(1, 0, 0, 0, 0)],
    [identified |-> Typed(<<>>, <<>>), shape |-> "sentence_nl",
     tokens |-> <<"delayed", "open">>, likeness |-> Like(3, 2, 1, 3, 0)],
    [identified |-> Typed(<<>>, <<>>), shape |-> "keyword_phrase",
     tokens |-> <<>>, likeness |-> Like(2, 0, 1, 2, 0)]}

=============================================================================
