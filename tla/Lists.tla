------------------------------- MODULE Lists --------------------------------
(***************************************************************************)
(* The lists that the models share: linked lists and vectors of objects,   *)
(* walked from the front, from which elements are taken out in place.      *)
(* Kept is written as a recursive function of the prefix, and takes the    *)
(* set of elements to keep rather than a test, so that it can be reasoned  *)
(* about (ListTheorems).                                                   *)
(***************************************************************************)
EXTENDS Naturals, Sequences

\* What is in the list.
Elements(s) == {s[i] : i \in DOMAIN s}

\* No element is in it twice.
Distinct(s) == \A i, j \in DOMAIN s : s[i] = s[j] => i = j

\* The elements of the list that are in S, in their order.
Kept(s, S) ==
    LET kept[i \in 0..Len(s)] ==
            IF i = 0 THEN <<>>
            ELSE IF s[i] \in S THEN Append(kept[i - 1], s[i]) ELSE kept[i - 1]
    IN  kept[Len(s)]
=============================================================================
