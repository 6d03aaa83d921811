------------------------------ MODULE Selection ------------------------------
(***************************************************************************)
(* Loops that append the elements they keep to a list.                     *)
(***************************************************************************)
EXTENDS SequencesExt

\* the elements of s that are in S, in their order
Kept(s, S) ==
    LET keep(list, e) == IF e \in S THEN Append(list, e) ELSE list
    IN  FoldLeft(keep, <<>>, s)

\* the elements of s, each where it occurs first
Distinct(s) ==
    LET add(list, e) == IF e \in ToSet(list) THEN list ELSE Append(list, e)
    IN  FoldLeft(add, <<>>, s)

=============================================================================
