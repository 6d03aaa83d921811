-------------------------- MODULE MCSearchService --------------------------
(***************************************************************************)
(* Small instances of SearchService.                                       *)
(***************************************************************************)
EXTENDS SearchService

\* the rows of one content, in one order; names do not matter to paging
Rows(ids, content) == [i \in DOMAIN ids |-> [id |-> ids[i], content |-> content]]

ThreeOrders == <<"d1", "d2", "d3">>

UpToThree == {Rows(SubSeq(ThreeOrders, 1, n), "west") : n \in 0..3}

=============================================================================
