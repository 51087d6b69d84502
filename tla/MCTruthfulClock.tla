--------------------------- MODULE MCTruthfulClock ---------------------------
(* Two bidders with any table over the bundles of two items.                *)
EXTENDS TruthfulClock

MCOrder == <<"b1", "b2">>
MCNamed == [i \in {"b1", "b2"} |-> {{1}, {2}, {1, 2}}]
=============================================================================
