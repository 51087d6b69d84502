-------------------------- MODULE MCProxyRefinement --------------------------
(* One proxy over the three bundles of two items. *)
EXTENDS ProxyRefinement

MCPrices == {[x \in Items |-> 1], [x \in Items |-> IF x = "A" THEN 1 ELSE 2]}
=============================================================================
