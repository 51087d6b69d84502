---------------------------- MODULE Collections ----------------------------
(***************************************************************************)
(* Lists and dictionaries as the code handles them: comprehensions with a  *)
(* condition, and assignments to a key.  SelectSeq and the operators of    *)
(* TLC say the same, but their definitions are out of the provers' reach.  *)
(***************************************************************************)
EXTENDS Integers, FiniteSets

\* The elements of s at the positions ks, in their order.
Picked(s, ks) ==
    [n \in 1..Cardinality(ks) |->
        s[CHOOSE k \in ks : Cardinality({j \in ks : j <= k}) = n]]

\* A dictionary after an assignment to one of its keys.
Stored(dict, key, value) ==
    [k \in DOMAIN dict \cup {key} |-> IF k = key THEN value ELSE dict[k]]
=============================================================================
