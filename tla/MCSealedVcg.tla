---------------------------- MODULE MCSealedVcg -----------------------------
(* Three bidders over two items: two of them want a single item or the pair, *)
(* the third either item alone.                                              *)
EXTENDS SealedVcg

MCOrder == <<"b1", "b2", "b3">>
MCNamed == [i \in {"b1", "b2", "b3"} |->
              CASE i = "b1" -> {{"A"}, {"A", "B"}}
                [] i = "b2" -> {{"B"}, {"A", "B"}}
                [] i = "b3" -> {{"A"}, {"B"}}]
=============================================================================
