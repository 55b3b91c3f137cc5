---------------------------- MODULE ListFilters ----------------------------
(***************************************************************************)
(* A filter (Array.prototype.filter, a Python comprehension, the domain of *)
(* a read), for the predicates the code passes it: keep what is not thrown *)
(* away.                                                                   *)
(***************************************************************************)
EXTENDS Naturals, Sequences

\* The entries of the list that are not in `gone`, in their order.
Without(list, gone) ==
    LET kept[n \in 0..Len(list)] ==
            IF n = 0 THEN <<>>
            ELSE IF list[n] \in gone THEN kept[n - 1]
            ELSE Append(kept[n - 1], list[n])
    IN kept[Len(list)]
=============================================================================
