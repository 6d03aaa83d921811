----------------------------- MODULE MCFastPath -----------------------------
(***************************************************************************)
(* Messages the detector produces, by example.  A typed identifier whose   *)
(* digits number six or more is also detected as an order number.          *)
(***************************************************************************)
EXTENDS FastPath

\* types in the order of the patterns; equal values are equal texts
Says(types) ==
    [short |-> FALSE, catalog |-> FALSE, numeric |-> FALSE, words |-> 1,
     prefixed |-> FALSE, verb |-> FALSE,
     detected |-> [i \in DOMAIN types |-> [type |-> types[i], value |-> i]]]

OrderMessage    == [Says(<<"order_number", "order_number">>) EXCEPT !.prefixed = TRUE]   \* ORD-000001
PaymentMessage  == [Says(<<"payment_reference", "order_number">>) EXCEPT !.prefixed = TRUE] \* PAY-00001001
TrackingMessage == [Says(<<"tracking_id", "order_number">>) EXCEPT !.prefixed = TRUE]    \* TRK-00001001
CustomerMessage == [Says(<<"customer_number", "order_number">>) EXCEPT !.prefixed = TRUE] \* CUST-000001
PixMessage      == Says(<<"order_number">>)                                 \* PIX-ABC-77
EmailMessage    == Says(<<"email">>)                                        \* a@example.com
PhoneMessage    == [Says(<<"phone">>) EXCEPT !.words = 2]                   \* +1 (415)555-0100
TokenMessage    == Says(<<"unknown_token">>)                                \* alpha
CatalogToken    == [TokenMessage EXCEPT !.catalog = TRUE]                   \* poster
FewDigits       == [TokenMessage EXCEPT !.numeric = TRUE]                   \* 1004
ManyDigits      == [PixMessage EXCEPT !.numeric = TRUE]                     \* 1234567890
Sentence        == [Says(<<>>) EXCEPT !.words = 5, !.verb = TRUE]
LongSentence    == [PaymentMessage EXCEPT !.words = 9, !.prefixed = FALSE, !.verb = TRUE]
ShortMessage    == [TokenMessage EXCEPT !.short = TRUE]
\* PAY-00001001 of order PIX-ABC-77
ThreeMessage    == [Says(<<"payment_reference", "order_number", "order_number">>)
                      EXCEPT !.words = 4, !.prefixed = TRUE]

AllMessages == {OrderMessage, PaymentMessage, TrackingMessage, CustomerMessage, PixMessage,
                EmailMessage, PhoneMessage, TokenMessage, CatalogToken, FewDigits, ManyDigits,
                Sentence, LongSentence, ShortMessage, ThreeMessage}

SomeCounts == {[authorized |-> 0, hidden |-> 0], [authorized |-> 1, hidden |-> 0],
               [authorized |-> 0, hidden |-> 2]}

OneCount == {[authorized |-> 1, hidden |-> 1]}

=============================================================================
