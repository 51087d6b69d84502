----------------------------- MODULE EventPolicy -----------------------------
(***************************************************************************)
(* The selectors of experiments/event_policy.py and the rankings the       *)
(* auction runners share: which atom of a bid is worth a question.  A bid  *)
(* maps its bundles to reported values; {} stands for "no bundle".         *)
(***************************************************************************)
EXTENDS XorWdp, Collections, Sequences

CONSTANTS
    AtomOrder,  \* the order in which the atoms of a bid are listed
    Unit        \* a common multiple of the sizes of bundles

ASSUME RankingAssumption ==
    /\ Unit \in Nat \ {0}
    /\ \A k \in DOMAIN AtomOrder : Unit % Cardinality(AtomOrder[k]) = 0

\* The atoms a selector looks at.
Positive(bid, excluded) == {b \in DOMAIN bid \ excluded : b # {} /\ bid[b] > 0}

\* Comparison of sort keys, tuples of numbers, and of bundles with equal keys.
KeyBefore(k, l) ==
    \E n \in DOMAIN k : k[n] < l[n] /\ \A m \in 1..n - 1 : k[m] = l[m]

\* The candidate with the least key, the lexicographically first of several.
LeastBy(candidates, key) ==
    IF candidates = {} THEN {}
    ELSE CHOOSE b \in candidates :
            \A c \in candidates \ {b} :
                \/ KeyBefore(key[b], key[c])
                \/ key[b] = key[c] /\ LexLess(b, c)

\* The candidate with the greatest score, the first listed of several.
FirstGreatest(candidates, score) ==
    IF candidates = {} THEN {}
    ELSE LET top == {b \in candidates : \A c \in candidates : score[c] <= score[b]}
             first == Min({k \in DOMAIN AtomOrder : AtomOrder[k] \in top})
         IN  AtomOrder[first]

\* correction_fraction(record) >= threshold, in percent.
IsLargeCorrection(old, new, percent) ==
    100 * (Max({old, new}) - Min({old, new})) >= percent * Max({old, new, 1})

\* best_neighbour_bundle.
BestNeighbour(bid, source, excluded) ==
    LET near == Positive(bid, excluded \cup {source})
    IN  LeastBy(near, [b \in near |->
            <<Cardinality(SymDiff(b, source)), -bid[b], Cardinality(b)>>])

\* contested_goods_from_bundles: goods in two or more of the bundles.
ContestedGoods(bundles) ==
    {x \in UNION Range(bundles) : Cardinality({i \in DOMAIN bundles : x \in bundles[i]}) > 1}

\* What a bid says of a bundle, 0 if it does not name it.
Worth(bid, b) == IF b \in DOMAIN bid THEN bid[b] ELSE 0

\* The atoms less exposed to contested goods than the incumbent that are worth 0.6 of it.
Freer(bid, incumbent, contested, excluded) ==
    {b \in Positive(bid, excluded) :
        /\ Cardinality(b \cap contested) < Cardinality(incumbent \cap contested)
        /\ 10 * bid[b] >= 6 * Worth(bid, incumbent)}

\* best_scarcity_avoiding_bundle with min_value_ratio 0.6.
BestScarcityAvoiding(bid, incumbent, contested, excluded) ==
    LET freer == Freer(bid, incumbent, contested, excluded)
    IN  LeastBy(freer, [b \in freer |->
            <<Cardinality(b \cap contested), -bid[b], Cardinality(b)>>])

\* _best_positive_value_bundle.
BestPositive(bid) == FirstGreatest(Positive(bid, {}), bid)

\* _compute_item_shadow_prices, times Unit.
ShadowPrices(bids, alloc) ==
    [x \in UNION Range(alloc) |->
        LET i == CHOOSE j \in DOMAIN alloc : x \in alloc[j]
        IN  (Unit * bids[i][alloc[i]]) \div Cardinality(alloc[i])]

\* _competitive_bundle: the greatest value net of what it displaces.
Competitive(bids, alloc, i, excluded) ==
    LET shadow == ShadowPrices(bids, alloc)
        open   == Positive(bids[i], excluded)
    IN  FirstGreatest(open, [b \in open |->
            Unit * bids[i][b] - SumFunctionOnSet(shadow, b \cap DOMAIN shadow)])

\* _forced_allocation_gap: the reported welfare lost by giving b to bidder i.
ForcedGap(bids, i, b, welfare) ==
    LET around(bid) == Restrict(bid, {a \in DOMAIN bid : a \cap b = {}})
        residual == [j \in DOMAIN bids \ {i} |-> around(bids[j])]
    IN  welfare - (bids[i][b] + OptWelfare(residual))
=============================================================================
