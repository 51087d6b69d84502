----------------------------- MODULE ClockDemand -----------------------------
(***************************************************************************)
(* How a bidder that knows a value for every bundle it names answers the   *)
(* clock: the ranking of instances/base.py, shared by the demand oracle of *)
(* an instance, the full-information proxy and the cached bid of a         *)
(* language-model proxy.  Items are numbers in the order of their names.   *)
(***************************************************************************)
EXTENDS Clock, XorWdp

CONSTANTS
    TopK        \* top_k

ASSUME DemandAssumption == Items \subseteq Nat /\ TopK \in Nat \ {0}

BundlePrice(b, p) == SumFunctionOnSet(p, b)

\* Mutated: demand ignores the prices.
SurplusIgnoresPrices(v, b, p) == v[b]

Surplus(v, b, p) == v[b] - BundlePrice(b, p)

\* Mutated: the key holds the surplus where it should hold its negation.
RanksBeforeAscending(v, p, a, b) ==
    \/ Surplus(v, a, p) < Surplus(v, b, p)
    \/ Surplus(v, a, p) = Surplus(v, b, p) /\ LexLess(a, b)

\* demand_rank_key: higher surplus, then smaller, then lexicographic.
RanksBefore(v, p, a, b) ==
    \/ Surplus(v, a, p) > Surplus(v, b, p)
    \/ /\ Surplus(v, a, p) = Surplus(v, b, p)
       /\ \/ Cardinality(a) < Cardinality(b)
          \/ Cardinality(a) = Cardinality(b) /\ LexLess(a, b)

Wanted(v, p) == {b \in DOMAIN v : Surplus(v, b, p) > 0}

\* The bundles of S from best to worst, the first n of them.
Ranked(n, v, p, S) ==
    LET place(b) == Cardinality({a \in S : RanksBefore(v, p, a, b)}) + 1
    IN  [k \in 1..Min({n, Cardinality(S)}) |-> CHOOSE b \in S : place(b) = k]

\* Mutated: only demanded bundles are reported as supplementary atoms.
DemandAtPricesTopOnly(v, p) ==
    LET best == Ranked(TopK, v, p, Wanted(v, p))
    IN  [primaries |-> best,
         primary   |-> IF best = <<>> THEN NoBundle ELSE best[1],
         atoms     |-> Restrict(v, Range(best))]

\* demand_oracle of make_demand_oracle.
DemandAtPrices(v, p) ==
    LET best == Ranked(TopK, v, p, Wanted(v, p))
    IN  [primaries |-> best,
         primary   |-> IF best = <<>> THEN NoBundle ELSE best[1],
         atoms     |-> v]
=============================================================================
