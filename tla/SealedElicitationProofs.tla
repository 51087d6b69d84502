----------------------- MODULE SealedElicitationProofs -----------------------
(***************************************************************************)
(* Theorems about the sealed auction with elicitation, for any number of   *)
(* bidders and items, any truths, guesses and configurations: what was     *)
(* attempted was asked, the frontier was queried, stopping early loses     *)
(* nothing, and the runner implements ElicitedAuction.  The first half     *)
(* says of every selector and event what it may return; the second half    *)
(* is the invariant, one lemma per action, and what follows from it.       *)
(***************************************************************************)
EXTENDS SealedElicitation, AuctionLemmas

-----------------------------------------------------------------------------
(* Bundles, bidders and bids.                                              *)

\* A bid reports natural values on some bundles.
Reports == UNION {[D -> Nat] : D \in SUBSET Named}

\* There are finitely many bundles, and each is a finite set of numbers with something
\* in it.
LEMMA NamedFacts ==
    /\ IsFiniteSet(Named) /\ {} \notin Named
    /\ \A b \in Named : /\ b \in SUBSET Nat /\ IsFiniteSet(b)
                        /\ Cardinality(b) \in Nat \ {0}
<1>1. IsFiniteSet(Items) /\ Items \subseteq Nat
    BY SealedAssumption
<1>2. IsFiniteSet(Named)
    BY <1>1, FS_SUBSET, FS_Subset DEF Named
<1>3. ASSUME NEW b \in Named
      PROVE  b \in SUBSET Nat /\ IsFiniteSet(b) /\ Cardinality(b) \in Nat \ {0}
    <2>1. b \subseteq Items /\ b # {}
        BY DEF Named
    <2>2. IsFiniteSet(b) /\ b \in SUBSET Nat
        BY <1>1, <2>1, FS_Subset
    <2> QED
        BY <2>1, <2>2, FS_CardinalityType, FS_EmptySet
<1> QED
    BY <1>2, <1>3 DEF Named

\* The order lists finitely many bidders.
LEMMA OrderFacts ==
    /\ Len(Order) \in Nat
    /\ DOMAIN Order = 1..Len(Order)
    /\ IsFiniteSet(DOMAIN Order) /\ DOMAIN Order \in SUBSET Nat
    /\ Bidders = {Order[k] : k \in DOMAIN Order}
    /\ IsFiniteSet(Bidders)
<1>1. Len(Order) \in Nat /\ DOMAIN Order = 1..Len(Order)
    BY SealedAssumption
<1>2. Bidders = {Order[k] : k \in DOMAIN Order}
    BY SealedAssumption DEF Range
<1>3. IsFiniteSet(1..Len(Order))
    BY <1>1, FS_Interval
<1>4. IsFiniteSet({Order[k] : k \in DOMAIN Order})
    BY <1>1, <1>3, FiniteImage
<1>5. 1..Len(Order) \in SUBSET Nat
    BY <1>1
<1> QED
    BY <1>1, <1>2, <1>3, <1>4, <1>5

\* The atoms are listed once each.
LEMMA AtomFacts ==
    /\ Len(AtomOrder) \in Nat
    /\ DOMAIN AtomOrder = 1..Len(AtomOrder)
    /\ IsFiniteSet(DOMAIN AtomOrder) /\ DOMAIN AtomOrder \in SUBSET Nat
    /\ Named = {AtomOrder[k] : k \in DOMAIN AtomOrder}
<1>1. Len(AtomOrder) \in Nat /\ DOMAIN AtomOrder = 1..Len(AtomOrder)
    BY SealedAssumption
<1>2. Named = {AtomOrder[k] : k \in DOMAIN AtomOrder}
    BY SealedAssumption DEF Range
<1>3. IsFiniteSet(1..Len(AtomOrder))
    BY <1>1, FS_Interval
<1> QED
    BY <1>1, <1>2, <1>3

\* The bids of all bidders are a profile.
LEMMA ReportsAreProfiles ==
    ASSUME NEW bids \in [Bidders -> Reports]
    PROVE  /\ IsProfile(bids) /\ DOMAIN bids = Bidders
           /\ \A i \in Bidders : /\ DOMAIN bids[i] \subseteq Named
                                 /\ IsFiniteSet(DOMAIN bids[i])
                                 /\ bids[i] \in [DOMAIN bids[i] -> Nat]
                                 /\ \A b \in DOMAIN bids[i] : IsFiniteSet(b)
<1>1. \A i \in Bidders : /\ DOMAIN bids[i] \subseteq Named
                         /\ bids[i] \in [DOMAIN bids[i] -> Nat]
    BY DEF Reports
<1>2. \A i \in Bidders : IsFiniteSet(DOMAIN bids[i]) /\ {} \notin DOMAIN bids[i]
    BY <1>1, NamedFacts, FS_Subset
<1>3. \A i \in Bidders : IsBid(bids[i])
    BY <1>1, <1>2 DEF IsBid
<1>4. IsProfile(bids) /\ DOMAIN bids = Bidders
    BY <1>3, OrderFacts DEF IsProfile
<1> QED
    BY <1>1, <1>2, <1>4, NamedFacts

\* What the solver makes of bids awards every bidder an atom of its bid or nothing.
LEMMA SolveIs ==
    ASSUME NEW bids \in [Bidders -> Reports]
    PROVE  /\ Solve(bids) \in Optima(bids) /\ Solve(bids) \in Feasible(bids)
           /\ \A i \in Bidders : Solve(bids)[i] \in DOMAIN bids[i] \cup {{}}
           /\ Solve(bids) \in [Bidders -> SUBSET Items]
<1>1. /\ Solve(bids) \in Optima(bids) /\ Solve(bids) \in Feasible(bids)
      /\ \A i \in Bidders : Solve(bids)[i] \in DOMAIN bids[i] \cup {{}}
    BY ReportsAreProfiles, SolvedIsOptimal DEF Solve
<1>2. Solve(bids) = [i \in DOMAIN bids |-> Solve(bids)[i]] /\ DOMAIN bids = Bidders
    BY <1>1, FeasibleIs, ReportsAreProfiles
<1>3. \A i \in Bidders : DOMAIN bids[i] \subseteq SUBSET Items
    BY ReportsAreProfiles DEF Named
<1> QED
    BY <1>1, <1>2, <1>3

-----------------------------------------------------------------------------
(* The selectors.                                                          *)

\* The first listed of the greatest candidates is a candidate.
LEMMA FirstGreatestIs ==
    ASSUME NEW candidates \in SUBSET Named, NEW score,
           \A b \in candidates : score[b] \in Int
    PROVE  /\ candidates = {} => FirstGreatest(candidates, score) = {}
           /\ candidates # {} => FirstGreatest(candidates, score) \in candidates
<1>1. CASE candidates = {}
    BY <1>1 DEF FirstGreatest
<1>2. CASE candidates # {}
    <2> DEFINE scores == {score[b] : b \in candidates}
               top == {b \in candidates : \A c \in candidates : score[c] <= score[b]}
               places == {k \in DOMAIN AtomOrder : AtomOrder[k] \in top}
    <2>1. IsFiniteSet(scores)
        <3>1. IsFiniteSet(candidates)
            BY NamedFacts, FS_Subset
        <3> QED
            BY <3>1, FiniteImage
    <2>2. scores \subseteq Int /\ scores # {}
        BY <1>2
    <2>3. Max(scores) \in scores /\ \A y \in scores : y <= Max(scores)
        <3> HIDE DEF scores
        <3> QED
            BY <2>1, <2>2, MaxIsGreatest
    <2>4. PICK b \in candidates : score[b] = Max(scores)
        BY <2>3
    <2>5. b \in top
        BY <2>3, <2>4
    <2>6. places \in SUBSET Nat /\ places # {}
        <3>1. PICK k \in DOMAIN AtomOrder : AtomOrder[k] = b
            BY AtomFacts
        <3> HIDE DEF top
        <3> QED
            BY <2>5, <3>1, AtomFacts
    <2>7. Min(places) \in places
        <3> HIDE DEF places
        <3> QED
            BY <2>6, FirstPosition DEF Min
    <2>8. FirstGreatest(candidates, score) = AtomOrder[Min(places)]
        BY <1>2 DEF FirstGreatest
    <2> QED
        BY <2>7, <2>8
<1> QED
    BY <1>1, <1>2

\* Comparison of triples.
LEMMA TripleBefore ==
    ASSUME NEW k \in Int \X Int \X Int, NEW l \in Int \X Int \X Int
    PROVE  KeyBefore(k, l) <=> \/ k[1] < l[1]
                               \/ k[1] = l[1] /\ k[2] < l[2]
                               \/ k[1] = l[1] /\ k[2] = l[2] /\ k[3] < l[3]
<1>1. DOMAIN k = 1..3
    OBVIOUS
<1>2. KeyBefore(k, l) <=> \E n \in {1, 2, 3} : k[n] < l[n] /\ \A m \in 1..n - 1 : k[m] = l[m]
    <2>1. 1..3 = {1, 2, 3}
        OBVIOUS
    <2> QED
        BY <1>1, <2>1 DEF KeyBefore
<1>3. 1..1 - 1 = {} /\ 1..2 - 1 = {1} /\ 1..3 - 1 = {1, 2}
    OBVIOUS
<1> QED
    BY <1>2, <1>3

\* The candidate with the least key, whose last entry is its size, is a candidate.
LEMMA LeastByIs ==
    ASSUME NEW candidates \in SUBSET Named, NEW key,
           \A b \in candidates : key[b] \in Int \X Int \X Int /\ key[b][3] = Cardinality(b)
    PROVE  /\ candidates = {} => LeastBy(candidates, key) = {}
           /\ candidates # {} => LeastBy(candidates, key) \in candidates
<1>1. CASE candidates = {}
    BY <1>1 DEF LeastBy
<1>2. CASE candidates # {}
    <2> DEFINE before(b, c) == \/ KeyBefore(key[b], key[c])
                               \/ key[b] = key[c] /\ LexLess(b, c)
               R == {bc \in candidates \X candidates : before(bc[1], bc[2])}
    <2>1. \A b \in candidates : b \in SUBSET Nat /\ IsFiniteSet(b)
        BY NamedFacts
    <2>2. \A b, c \in candidates :
              before(b, c) <=> \/ KeyBefore(key[b], key[c])
                               \/ key[b] = key[c] /\ FirstIn(b, c)
        <3> SUFFICES ASSUME NEW b \in candidates, NEW c \in candidates, key[b] = key[c]
                     PROVE  LexLess(b, c) <=> FirstIn(b, c)
            OBVIOUS
        <3>1. Cardinality(b) = Cardinality(c)
            OBVIOUS
        <3> QED
            BY <2>1, <3>1, LexIsFirst
    <2>3. \A b, c \in candidates : <<b, c>> \in R <=> before(b, c)
        OBVIOUS
    <2> HIDE DEF before, R
    <2>4. \A b \in candidates : <<b, b>> \notin R
        BY <2>1, <2>2, <2>3, TripleBefore, FirstInOrders
    <2>5. \A b, c, d \in candidates : <<b, c>> \in R /\ <<c, d>> \in R => <<b, d>> \in R
        BY <2>1, <2>2, <2>3, TripleBefore, FirstInOrders
    <2>6. \A b, c \in candidates : b # c => <<b, c>> \in R \/ <<c, b>> \in R
        <3> SUFFICES ASSUME NEW b \in candidates, NEW c \in candidates, b # c,
                            ~KeyBefore(key[b], key[c]), ~KeyBefore(key[c], key[b])
                     PROVE  key[b] = key[c] /\ (FirstIn(b, c) \/ FirstIn(c, b))
            BY <2>2, <2>3
        <3>1. key[b][1] = key[c][1] /\ key[b][2] = key[c][2] /\ key[b][3] = key[c][3]
            BY TripleBefore
        <3> QED
            BY <2>1, <3>1, FirstInOrders
    <2>7. Orders(R, candidates)
        BY <2>4, <2>5, <2>6 DEF Orders
    <2>8. IsFiniteSet(candidates)
        BY NamedFacts, FS_Subset
    <2>9. 1 \in 1..Cardinality(candidates)
        BY <1>2, <2>8, FS_EmptySet, FS_CardinalityType
    <2>10. PICK b \in candidates : Cardinality(Predecessors(R, candidates, b)) + 1 = 1
        BY <2>7, <2>8, <2>9, PlacesAreTaken
    <2>11. Predecessors(R, candidates, b) = {}
        <3>1. IsFiniteSet(Predecessors(R, candidates, b))
            BY <2>8, FS_Subset DEF Predecessors
        <3>2. Cardinality(Predecessors(R, candidates, b)) = 0
            BY <2>10, <3>1, FS_CardinalityType
        <3> QED
            BY <3>1, <3>2, FS_EmptySet
    <2>12. \A c \in candidates \ {b} : before(b, c)
        BY <2>3, <2>6, <2>11 DEF Predecessors
    <2>13. LeastBy(candidates, key) =
               CHOOSE x \in candidates : \A c \in candidates \ {x} : before(x, c)
        BY <1>2 DEF LeastBy, before
    <2> QED
        BY <2>12, <2>13
<1> QED
    BY <1>1, <1>2

\* The atoms a selector looks at are atoms of the bid.
LEMMA PositiveIs ==
    ASSUME NEW bid \in Reports, NEW excluded
    PROVE  /\ Positive(bid, excluded) \in SUBSET Named
           /\ Positive(bid, excluded) \subseteq DOMAIN bid
           /\ Positive(bid, excluded) \cap excluded = {}
           /\ DOMAIN bid \subseteq Named
           /\ \A b \in DOMAIN bid : bid[b] \in Nat
BY DEF Positive, Reports

\* What a bidder values most is an atom of its bid, if anything.
LEMMA BestPositiveIs ==
    ASSUME NEW bid \in Reports
    PROVE  BestPositive(bid) \in DOMAIN bid \cup {{}}
<1>1. /\ Positive(bid, {}) \in SUBSET Named /\ Positive(bid, {}) \subseteq DOMAIN bid
      /\ \A b \in Positive(bid, {}) : bid[b] \in Int
    BY PositiveIs
<1> QED
    BY <1>1, FirstGreatestIs DEF BestPositive

\* The nearest neighbour of a bundle is another atom of the bid, if any.
LEMMA BestNeighbourIs ==
    ASSUME NEW bid \in Reports, NEW source \in Named, NEW excluded
    PROVE  /\ BestNeighbour(bid, source, excluded) \in DOMAIN bid \cup {{}}
           /\ BestNeighbour(bid, source, excluded) \notin excluded \ {{}}
<1> DEFINE near == Positive(bid, excluded \cup {source})
           key == [b \in near |-> <<Cardinality(SymDiff(b, source)), -bid[b], Cardinality(b)>>]
<1>1. /\ near \in SUBSET Named /\ near \subseteq DOMAIN bid
      /\ near \cap (excluded \cup {source}) = {} /\ \A b \in near : bid[b] \in Nat
    BY PositiveIs
<1> HIDE DEF near
<1>2. ASSUME NEW b \in near
      PROVE  key[b] \in Int \X Int \X Int /\ key[b][3] = Cardinality(b)
    <2>1. IsFiniteSet(b) /\ IsFiniteSet(source) /\ Cardinality(b) \in Nat
        BY <1>1, NamedFacts
    <2>2. IsFiniteSet(b \cup source) /\ SymDiff(b, source) \subseteq b \cup source
        BY <2>1, FS_Union DEF SymDiff
    <2>3. Cardinality(SymDiff(b, source)) \in Nat
        BY <2>2, FS_Subset, FS_CardinalityType
    <2>4. bid[b] \in Nat
        BY <1>1
    <2> QED
        BY <2>1, <2>3, <2>4
<1>3. BestNeighbour(bid, source, excluded) = LeastBy(near, key)
    BY DEF BestNeighbour, near
<1> HIDE DEF key
<1> QED
    BY <1>1, <1>2, <1>3, LeastByIs

\* The scarcity fallback is an atom of the bid, if any.
LEMMA BestScarcityIs ==
    ASSUME NEW bid \in Reports, NEW incumbent, NEW contested, NEW excluded
    PROVE  BestScarcityAvoiding(bid, incumbent, contested, excluded) \in DOMAIN bid \cup {{}}
<1> DEFINE freer == Freer(bid, incumbent, contested, excluded)
           key == [b \in freer |-> <<Cardinality(b \cap contested), -bid[b], Cardinality(b)>>]
<1>1. /\ freer \in SUBSET Named /\ freer \subseteq DOMAIN bid
      /\ \A b \in freer : bid[b] \in Nat
    BY PositiveIs DEF Freer
<1>2. BestScarcityAvoiding(bid, incumbent, contested, excluded) = LeastBy(freer, key)
    BY DEF BestScarcityAvoiding
<1> HIDE DEF freer
<1>3. ASSUME NEW b \in freer
      PROVE  key[b] \in Int \X Int \X Int /\ key[b][3] = Cardinality(b)
    <2>1. IsFiniteSet(b) /\ Cardinality(b) \in Nat
        BY <1>1, NamedFacts
    <2>2. Cardinality(b \cap contested) \in Nat
        BY <2>1, FS_Subset, FS_CardinalityType
    <2>3. bid[b] \in Nat
        BY <1>1
    <2> QED
        BY <2>1, <2>2, <2>3
<1> HIDE DEF key
<1> QED
    BY <1>1, <1>2, <1>3, LeastByIs

\* A shadow price is a number.
LEMMA ShadowPricesType ==
    ASSUME NEW bids \in [Bidders -> Reports], NEW alloc \in Feasible(bids)
    PROVE  \A x \in DOMAIN ShadowPrices(bids, alloc) : ShadowPrices(bids, alloc)[x] \in Int
<1>1. /\ DOMAIN alloc = Bidders /\ DOMAIN bids = Bidders
      /\ \A i \in Bidders : alloc[i] \in DOMAIN bids[i] \cup {{}}
    BY FeasibleIs
<1>2. \A i \in Bidders : DOMAIN bids[i] \subseteq Named /\ bids[i] \in [DOMAIN bids[i] -> Nat]
    BY ReportsAreProfiles
<1> SUFFICES ASSUME NEW x \in UNION Range(alloc)
             PROVE  ShadowPrices(bids, alloc)[x] \in Int
    BY DEF ShadowPrices
<1> DEFINE j == CHOOSE i \in DOMAIN alloc : x \in alloc[i]
<1>3. j \in Bidders /\ x \in alloc[j]
    BY <1>1 DEF Range
<1>4. ShadowPrices(bids, alloc)[x] = (Unit * bids[j][alloc[j]]) \div Cardinality(alloc[j])
    BY DEF ShadowPrices
<1> HIDE DEF j
<1>5. alloc[j] \in DOMAIN bids[j] /\ alloc[j] \in Named
    BY <1>1, <1>2, <1>3
<1>6. bids[j][alloc[j]] \in Nat /\ Cardinality(alloc[j]) \in Nat \ {0} /\ Unit \in Nat
    BY <1>2, <1>3, <1>5, NamedFacts, RankingAssumption
<1> QED
    BY <1>4, <1>6

\* The strongest challenger of a bidder is an atom of its bid that is not excluded, if any.
LEMMA CompetitiveIs ==
    ASSUME NEW bids \in [Bidders -> Reports], NEW alloc \in Feasible(bids),
           NEW i \in Bidders, NEW excluded
    PROVE  /\ Competitive(bids, alloc, i, excluded) \in DOMAIN bids[i] \cup {{}}
           /\ Competitive(bids, alloc, i, excluded) \notin excluded \ {{}}
<1> DEFINE shadow == ShadowPrices(bids, alloc)
           open == Positive(bids[i], excluded)
           score == [b \in open |->
                        Unit * bids[i][b] - SumFunctionOnSet(shadow, b \cap DOMAIN shadow)]
<1>1. /\ open \in SUBSET Named /\ open \subseteq DOMAIN bids[i]
      /\ open \cap excluded = {} /\ \A b \in open : bids[i][b] \in Nat
    BY PositiveIs
<1>2. Competitive(bids, alloc, i, excluded) = FirstGreatest(open, score)
    BY DEF Competitive
<1>3. \A x \in DOMAIN shadow : shadow[x] \in Int
    BY ShadowPricesType
<1> HIDE DEF open, shadow
<1>4. ASSUME NEW b \in open
      PROVE  score[b] \in Int
    <2> DEFINE taken == b \cap DOMAIN shadow
    <2>1. IsFiniteSet(taken) /\ \A x \in taken : shadow[x] \in Int
        BY <1>1, <1>3, NamedFacts, FS_Subset
    <2> HIDE DEF taken
    <2>2. SumFunctionOnSet(shadow, taken) \in Int
        BY <2>1, SumStep
    <2>3. Unit \in Nat /\ bids[i][b] \in Nat /\ Unit * bids[i][b] \in Nat
        BY <1>1, RankingAssumption
    <2>4. score[b] = Unit * bids[i][b] - SumFunctionOnSet(shadow, taken)
        BY DEF taken
    <2> QED
        BY <2>2, <2>3, <2>4
<1> HIDE DEF score
<1> QED
    BY <1>1, <1>2, <1>4, FirstGreatestIs

\* What forcing an atom on a bidder loses is a number.
LEMMA ForcedGapType ==
    ASSUME NEW bids \in [Bidders -> Reports], NEW i \in Bidders, NEW b \in DOMAIN bids[i],
           NEW welfare \in Int
    PROVE  ForcedGap(bids, i, b, welfare) \in Int
<1> DEFINE around(bid) == Restrict(bid, {a \in DOMAIN bid : a \cap b = {}})
           residual == [j \in DOMAIN bids \ {i} |-> around(bids[j])]
<1>1. DOMAIN bids = Bidders /\ \A j \in Bidders : /\ DOMAIN bids[j] \subseteq Named
                                                  /\ IsFiniteSet(DOMAIN bids[j])
                                                  /\ bids[j] \in [DOMAIN bids[j] -> Nat]
    BY ReportsAreProfiles
<1>2. ASSUME NEW j \in Bidders
      PROVE  IsBid(around(bids[j]))
    <2>1. /\ DOMAIN around(bids[j]) \subseteq DOMAIN bids[j]
          /\ around(bids[j]) \in [DOMAIN around(bids[j]) -> Nat]
        BY <1>1 DEF Restrict
    <2> QED
        BY <1>1, <2>1, FS_Subset, NamedFacts DEF IsBid
<1>3. IsProfile(residual)
    <2>1. IsFiniteSet(Bidders \ {i})
        BY OrderFacts, FS_Subset
    <2> HIDE DEF around
    <2>2. DOMAIN residual = Bidders \ {i} /\ \A j \in Bidders \ {i} : IsBid(residual[j])
        BY <1>1, <1>2
    <2> QED
        BY <2>1, <2>2 DEF IsProfile
<1>4. OptWelfare(residual) \in Nat
    <2> HIDE DEF residual
    <2> QED
        BY <1>3, OptimumIsGreatest
<1>5. ForcedGap(bids, i, b, welfare) = welfare - (bids[i][b] + OptWelfare(residual))
    BY DEF ForcedGap
<1> HIDE DEF residual
<1> QED
    BY <1>1, <1>4, <1>5

-----------------------------------------------------------------------------
(* The events of a round.                                                  *)

\* Why an event is raised.
Types == {"frontier", "valued_bundle", "allocated_bundle", "lost_interested_bundle",
          "pivotal_challenger", "scarcity", "followup"}

\* The events about an atom of the bidder they are about.
AptEvents(bids) ==
    {e \in [bidder : Bidders, bundle : Named, type : Types] : e.bundle \in DOMAIN bids[e.bidder]}

\* An event about an atom is apt.
LEMMA EventIs ==
    ASSUME NEW bids \in [Bidders -> Reports], NEW i \in Bidders, NEW b \in DOMAIN bids[i],
           NEW type \in Types
    PROVE  Event(i, b, type) \in AptEvents(bids)
<1>1. b \in Named
    BY ReportsAreProfiles
<1> QED
    BY <1>1 DEF Event, AptEvents

\* A list of one, or of none.
LEMMA ShortLists ==
    ASSUME NEW S
    PROVE  <<>> \in Seq(S) /\ \A x \in S : <<x>> \in Seq(S)
OBVIOUS

\* The first of a list that is not empty is one of its elements.
LEMMA FirstElement ==
    ASSUME NEW S, NEW s \in Seq(S), s # <<>>
    PROVE  1 \in DOMAIN s /\ s[1] \in S /\ Head(s) = s[1] /\ Tail(s) \in Seq(S)
OBVIOUS

\* The frontier of a bidder lists atoms of its bid.
LEMMA FrontierIs ==
    ASSUME NEW bids \in [Bidders -> Reports], NEW now \in Feasible(bids), NEW i \in Bidders
    PROVE  Frontier(bids, now, i) \in Seq(DOMAIN bids[i])
<1> DEFINE less(w) == [bids EXCEPT ![w] = Restrict(@, DOMAIN @ \ {now[w]})]
           removed(w) == Solve(less(w))
           Atoms == DOMAIN bids[i] \cup {{}}
           parts == [k \in DOMAIN Order |->
                        IF now[Order[k]] = {} THEN <<>> ELSE <<removed(Order[k])[i]>>]
           exposed == FlattenSeq(parts)
           challenger == IF policy.challenger = "shadow_price" /\ now[i] = {}
                         THEN <<Competitive(bids, now, i, {})>> ELSE <<>>
           listed == exposed \o challenger
           ks == {k \in DOMAIN listed : listed[k] # {}}
<1>1. ASSUME NEW w \in Bidders
      PROVE  removed(w)[i] \in Atoms
    <2>1. Restrict(bids[w], DOMAIN bids[w] \ {now[w]}) \in Reports
        <3>1. bids[w] \in [DOMAIN bids[w] -> Nat] /\ DOMAIN bids[w] \subseteq Named
            BY ReportsAreProfiles
        <3>2. Restrict(bids[w], DOMAIN bids[w] \ {now[w]})
                  \in [DOMAIN bids[w] \ {now[w]} -> Nat]
            BY <3>1 DEF Restrict
        <3>3. DOMAIN bids[w] \ {now[w]} \in SUBSET Named
            BY <3>1
        <3> QED
            BY <3>2, <3>3 DEF Reports
    <2>2. less(w) \in [Bidders -> Reports]
        BY <2>1
    <2>3. DOMAIN less(w)[i] \subseteq DOMAIN bids[i]
        BY DEF Restrict
    <2> HIDE DEF less
    <2> QED
        BY <2>2, <2>3, SolveIs
<1>2. parts \in Seq(Seq(Atoms))
    <2>1. \A k \in DOMAIN Order : Order[k] \in Bidders
        BY OrderFacts
    <2> HIDE DEF removed, Atoms
    <2>2. \A k \in DOMAIN Order : parts[k] \in Seq(Atoms)
        BY <1>1, <2>1
    <2>3. Len(Order) \in Nat /\ parts = [k \in 1..Len(Order) |-> parts[k]]
        BY OrderFacts
    <2> HIDE DEF parts
    <2> QED
        BY <2>2, <2>3, OrderFacts
<1>3. exposed \in Seq(Atoms)
    <2> HIDE DEF parts, Atoms
    <2> QED
        BY <1>2, FlattenIs
<1>4. challenger \in Seq(Atoms)
    <2>1. Competitive(bids, now, i, {}) \in Atoms
        BY CompetitiveIs
    <2> HIDE DEF Atoms
    <2> QED
        BY <2>1
<1>5. listed \in Seq(Atoms)
    <2> HIDE DEF exposed, challenger, Atoms
    <2> QED
        BY <1>3, <1>4
<1>6. Frontier(bids, now, i) = Picked(listed, ks)
    BY DEF Frontier, PerBidder
<1> HIDE DEF listed
<1>7. Picked(listed, ks) \in Seq({listed[k] : k \in ks})
    <2>1. ks \in SUBSET DOMAIN listed
        OBVIOUS
    <2> HIDE DEF ks, Atoms
    <2> QED
        BY <1>5, <2>1, PickedSeq
<1>8. {listed[k] : k \in ks} \subseteq DOMAIN bids[i]
    BY <1>5
<1> HIDE DEF ks
<1> QED
    BY <1>6, <1>7, <1>8

\* Competitive feedback asks about an atom.
LEMMA NextOnFrontierIs ==
    ASSUME NEW bids \in [Bidders -> Reports], NEW now \in Feasible(bids), NEW i \in Bidders
    PROVE  NextOnFrontier(bids, now, i) \in Seq(AptEvents(bids))
<1> DEFINE all == Frontier(bids, now, i)
           ks == {k \in DOMAIN all : all[k] \notin attempted[i]}
           ahead == Picked(all, ks)
<1>1. all \in Seq(DOMAIN bids[i]) /\ ks \in SUBSET DOMAIN all
    BY FrontierIs
<1>2. NextOnFrontier(bids, now, i) =
          IF ahead = <<>> THEN <<>> ELSE <<Event(i, ahead[1], "frontier")>>
    BY DEF NextOnFrontier
<1> HIDE DEF all, ks
<1>3. ahead # <<>> => ahead[1] \in {all[k] : k \in ks}
    <2>1. ahead \in Seq({all[k] : k \in ks})
        BY <1>1, PickedSeq
    <2> HIDE DEF ahead
    <2> QED
        BY <2>1, FirstElement
<1>4. ahead # <<>> => ahead[1] \in DOMAIN bids[i]
    BY <1>1, <1>3
<1> HIDE DEF ahead
<1>5. ahead # <<>> => Event(i, ahead[1], "frontier") \in AptEvents(bids)
    BY <1>4, EventIs DEF Types
<1> QED
    BY <1>2, <1>5, ShortLists

\* The atoms of a bid, by value.
LEMMA ByValueIs ==
    ASSUME NEW bid \in Reports
    PROVE  ByValue(bid) \in Seq(DOMAIN bid)
<1> DEFINE ks == {k \in DOMAIN AtomOrder : AtomOrder[k] \in Positive(bid, {})}
           atoms == Picked(AtomOrder, ks)
           ahead(k) == {j \in DOMAIN atoms : \/ bid[atoms[j]] > bid[atoms[k]]
                                             \/ bid[atoms[j]] = bid[atoms[k]] /\ j <= k}
           at(n) == CHOOSE k \in DOMAIN atoms : Cardinality(ahead(k)) = n
<1>1. atoms \in Seq(DOMAIN bid)
    <2>1. AtomOrder \in Seq(Named) /\ ks \in SUBSET DOMAIN AtomOrder
        BY SealedAssumption
    <2>2. \A k \in ks : AtomOrder[k] \in DOMAIN bid
        BY PositiveIs
    <2> HIDE DEF ks
    <2>3. atoms \in Seq({AtomOrder[k] : k \in ks})
        BY <2>1, PickedSeq
    <2>4. {AtomOrder[k] : k \in ks} \subseteq DOMAIN bid
        BY <2>2
    <2> HIDE DEF atoms
    <2> QED
        BY <2>3, <2>4
<1>2. ByValue(bid) = [n \in DOMAIN atoms |-> atoms[at(n)]]
    BY DEF ByValue
<1> HIDE DEF atoms
<1>3. \A j \in DOMAIN atoms : bid[atoms[j]] \in Nat
    BY <1>1, PositiveIs
<1>4. \A n \in DOMAIN atoms : at(n) \in DOMAIN atoms
    <2> DEFINE n == Len(atoms)
               v == [j \in 1..n |-> bid[atoms[j]]]
    <2>1. n \in Nat /\ DOMAIN atoms = 1..n
        BY <1>1
    <2> HIDE DEF n
    <2>2. \A k \in 1..n : v[k] \in Int /\ v[k] = bid[atoms[k]]
        BY <1>3, <2>1
    <2>3. \A k \in 1..n : ahead(k) = Ahead(v, n, k)
        BY <2>1, <2>2 DEF Ahead
    <2> HIDE DEF v, ahead
    <2>4. \A m \in 1..n : \E k \in 1..n : Cardinality(Ahead(v, n, k)) = m
        <3>1. n \in Nat /\ \A k \in 1..n : v[k] \in Int
            BY <2>1, <2>2
        <3> QED
            BY <3>1, RankIsTaken
    <2> QED
        BY <2>1, <2>3, <2>4
<1> HIDE DEF at
<1> QED
    BY <1>1, <1>2, <1>4

\* The provisional events of a bidder are apt.
LEMMA ProvisionalIs ==
    ASSUME policy \in Policies,
           NEW bids \in [Bidders -> Reports], NEW now \in Feasible(bids), NEW i \in Bidders
    PROVE  ProvisionalEvents(bids, now, i) \in Seq(AptEvents(bids))
<1> DEFINE won == now[i]
           rule == policy.feedback
           incumbent == IF policy.incumbents THEN <<Event(i, won, "allocated_bundle")>> ELSE <<>>
           valued == ByValue(bids[i])
           best == BestPositive(bids[i])
           lost == <<Event(i, best, "lost_interested_bundle")>>
           list == [k \in DOMAIN valued |-> Event(i, valued[k], "valued_bundle")]
           Apt == AptEvents(bids)
<1>1. rule \in {"none", "allocated_bundle", "lost_interested_bundle", "all_provisional",
                "competitive", "all_valued_bundles"}
    <2>1. policy \in ProxySealedConfig
        BY SealedAssumption
    <2> QED
        BY <2>1 DEF ProxySealedConfig
<1>2. won \in DOMAIN bids[i] \cup {{}} /\ bids[i] \in Reports
    <2>1. DOMAIN bids = Bidders
        OBVIOUS
    <2> QED
        BY <2>1, FeasibleIs
<1>3. won # {} => incumbent \in Seq(Apt)
    <2>1. won # {} => Event(i, won, "allocated_bundle") \in Apt
        BY <1>2, EventIs DEF Types
    <2> HIDE DEF won, Apt
    <2> QED
        BY <2>1, ShortLists
<1>4. best # {} => lost \in Seq(Apt)
    <2>1. best # {} => best \in DOMAIN bids[i]
        BY <1>2, BestPositiveIs
    <2> HIDE DEF best
    <2>2. best # {} => Event(i, best, "lost_interested_bundle") \in Apt
        BY <2>1, EventIs DEF Types
    <2> HIDE DEF Apt
    <2> QED
        BY <2>2, ShortLists
<1>5. list \in Seq(Apt)
    <2>1. valued \in Seq(DOMAIN bids[i])
        BY <1>2, ByValueIs
    <2> HIDE DEF valued
    <2>2. \A k \in DOMAIN valued : Event(i, valued[k], "valued_bundle") \in Apt
        BY <2>1, EventIs DEF Types
    <2>3. Len(valued) \in Nat /\ DOMAIN valued = 1..Len(valued)
        BY <2>1
    <2> HIDE DEF Apt
    <2> QED
        BY <2>2, <2>3
<1>6. NextOnFrontier(bids, now, i) \in Seq(Apt)
    BY NextOnFrontierIs
<1>7. ProvisionalEvents(bids, now, i) =
          CASE rule = "none" -> <<>>
            [] rule = "all_valued_bundles" -> list
            [] rule = "competitive" ->
                  IF won # {} /\ won \notin attempted[i] THEN incumbent
                  ELSE NextOnFrontier(bids, now, i)
            [] rule \in {"allocated_bundle", "lost_interested_bundle", "all_provisional"} ->
                  IF won # {}
                  THEN IF rule = "lost_interested_bundle" THEN <<>> ELSE incumbent
                  ELSE IF rule = "allocated_bundle" \/ best = {} THEN <<>> ELSE lost
    BY DEF ProvisionalEvents
<1> HIDE DEF won, rule, incumbent, best, lost, list, Apt
<1> QED
    BY <1>1, <1>3, <1>4, <1>5, <1>6, <1>7, ShortLists DEF Apt

\* The pivotal event, if any, is one about a bundle not attempted.
LEMMA PivotalIs ==
    ASSUME policy \in Policies,
           NEW bids \in [Bidders -> Reports], NEW now \in Feasible(bids)
    PROVE  /\ PivotalEvent(bids, now) \in Seq(AptEvents(bids))
           /\ PivotalEvent(bids, now) # <<>> =>
                 \E e \in AptEvents(bids) : /\ PivotalEvent(bids, now) = <<e>>
                                            /\ e.bundle \notin attempted[e.bidder]
<1> DEFINE challenger(i) ==
               Competitive(bids, now, i,
                           attempted[i] \cup (IF now[i] = {} THEN {} ELSE {now[i]}))
           gap(i) == LET g == ForcedGap(bids, i, challenger(i), Welfare(bids, now))
                     IN  IF g < 0 THEN -g ELSE g
           near == {k \in DOMAIN Order :
                       challenger(Order[k]) # {} /\ gap(Order[k]) <= policy.gap}
           ks == {k \in near : \A j \in near : gap(Order[k]) <= gap(Order[j])}
           closest == Picked(Order, ks)
<1>1. PivotalEvent(bids, now) =
          IF near = {} THEN <<>>
          ELSE <<Event(closest[1], challenger(closest[1]), "pivotal_challenger")>>
    BY DEF PivotalEvent
<1>2. CASE near = {}
    BY <1>1, <1>2, ShortLists
<1>3. CASE near # {}
    <2>1. ASSUME NEW i \in Bidders
          PROVE  /\ challenger(i) \in DOMAIN bids[i] \cup {{}}
                 /\ challenger(i) # {} => challenger(i) \notin attempted[i]
        <3> DEFINE out == attempted[i] \cup (IF now[i] = {} THEN {} ELSE {now[i]})
        <3>1. attempted[i] \subseteq out
            OBVIOUS
        <3> HIDE DEF out
        <3>2. Competitive(bids, now, i, out) \in DOMAIN bids[i] \cup {{}}
            BY CompetitiveIs
        <3>3. Competitive(bids, now, i, out) \notin out \ {{}}
            BY CompetitiveIs
        <3>4. challenger(i) = Competitive(bids, now, i, out)
            BY DEF out
        <3> HIDE DEF challenger
        <3> QED
            BY <3>1, <3>2, <3>3, <3>4
    <2> HIDE DEF challenger
    <2>2. Welfare(bids, now) \in Int
        BY ReportsAreProfiles, OptimumIsGreatest
    <2>3. ASSUME NEW i \in Bidders, challenger(i) # {}
          PROVE  gap(i) \in Nat
        <3>1. ForcedGap(bids, i, challenger(i), Welfare(bids, now)) \in Int
            BY <2>1, <2>2, <2>3, ForcedGapType
        <3> QED
            BY <3>1
    <2> HIDE DEF gap
    <2>4. \A k \in near : Order[k] \in Bidders /\ gap(Order[k]) \in Nat
        BY <2>3, OrderFacts
    <2>5. ks # {}
        <3> DEFINE gaps == {gap(Order[k]) : k \in near}
                   least == CHOOSE g \in gaps : \A h \in gaps : g <= h
        <3>1. gaps \in SUBSET Nat /\ gaps # {}
            BY <1>3, <2>4
        <3>2. least \in gaps /\ \A h \in gaps : least <= h
            <4> HIDE DEF gaps
            <4> QED
                BY <3>1, FirstPosition
        <3> HIDE DEF least
        <3>3. PICK k \in near : gap(Order[k]) = least
            BY <3>2
        <3> QED
            BY <3>2, <3>3
    <2>6. Order \in Seq(Bidders) /\ ks \in SUBSET DOMAIN Order
        BY SealedAssumption
    <2> DEFINE firsts == {Order[k] : k \in ks}
    <2>7. \A i \in firsts : i \in Bidders /\ challenger(i) # {}
        BY <2>4
    <2> HIDE DEF ks, near
    <2>8. closest \in Seq(firsts) /\ closest # <<>>
        BY <2>5, <2>6, PickedSeq
    <2> HIDE DEF closest, firsts
    <2>9. closest[1] \in firsts
        BY <2>8, FirstElement
    <2> DEFINE i == closest[1]
               e == Event(i, challenger(i), "pivotal_challenger")
    <2>10. i \in Bidders /\ challenger(i) \in DOMAIN bids[i] /\ challenger(i) \notin attempted[i]
        BY <2>1, <2>7, <2>9
    <2>11. e \in AptEvents(bids)
        BY <2>10, EventIs DEF Types
    <2>12. e.bundle \notin attempted[e.bidder]
        BY <2>10 DEF Event
    <2>13. PivotalEvent(bids, now) = <<e>>
        BY <1>1, <1>3
    <2> HIDE DEF e
    <2> QED
        BY <2>11, <2>12, <2>13, ShortLists
<1> QED
    BY <1>2, <1>3

\* The fallback of a bidder that tried some bundles before, and the two bidders
\* whose fallbacks are worth most.
Fallback(bids, now, tried, i) ==
    LET wants == [j \in Bidders |-> IF now[j] # {} THEN now[j] ELSE BestPositive(bids[j])]
    IN  BestScarcityAvoiding(bids[i], wants[i], ContestedGoods(wants), tried[i])

TwoGreatest(bids, now, tried) ==
    LET offered == Picked(Order, {k \in DOMAIN Order :
                                     Fallback(bids, now, tried, Order[k]) # {}})
        value(k) == bids[offered[k]][Fallback(bids, now, tried, offered[k])]
        ahead(k) == {j \in DOMAIN offered :
                        value(j) > value(k) \/ (value(j) = value(k) /\ j <= k)}
        ranked == [n \in DOMAIN offered |->
                      offered[CHOOSE k \in DOMAIN offered : Cardinality(ahead(k)) = n]]
    IN  SubSeq(ranked, 1, Min({2, Len(ranked)}))

\* The smaller of two and a length.
LEMMA MinOfTwo ==
    ASSUME NEW n \in Nat
    PROVE  Min({2, n}) \in Nat /\ Min({2, n}) <= n
<1>1. {2, n} \in SUBSET Nat /\ {2, n} # {}
    OBVIOUS
<1>2. Min({2, n}) = CHOOSE k \in {2, n} : \A j \in {2, n} : k <= j
    BY DEF Min
<1> QED
    BY <1>1, <1>2, FirstPosition

\* They are bidders with a fallback.
LEMMA TwoGreatestIs ==
    ASSUME NEW bids \in [Bidders -> Reports], NEW now \in Feasible(bids), NEW tried
    PROVE  TwoGreatest(bids, now, tried)
               \in Seq({i \in Bidders : /\ Fallback(bids, now, tried, i) \in DOMAIN bids[i]
                                        /\ Fallback(bids, now, tried, i) # {}})
<1> DEFINE back(i) == Fallback(bids, now, tried, i)
           ks == {k \in DOMAIN Order : back(Order[k]) # {}}
           offered == Picked(Order, ks)
           value(k) == bids[offered[k]][back(offered[k])]
           ahead(k) == {j \in DOMAIN offered :
                           value(j) > value(k) \/ (value(j) = value(k) /\ j <= k)}
           at(n) == CHOOSE k \in DOMAIN offered : Cardinality(ahead(k)) = n
           ranked == [n \in DOMAIN offered |-> offered[at(n)]]
           Able == {i \in Bidders : back(i) \in DOMAIN bids[i] /\ back(i) # {}}
<1>1. \A i \in Bidders : back(i) \in DOMAIN bids[i] \cup {{}}
    BY BestScarcityIs DEF Fallback
<1>2. \A k \in ks : Order[k] \in Able
    BY <1>1, OrderFacts
<1>3. TwoGreatest(bids, now, tried) = SubSeq(ranked, 1, Min({2, Len(ranked)}))
    BY DEF TwoGreatest
<1> HIDE DEF back
<1>4. offered \in Seq(Able)
    <2>1. Order \in Seq(Bidders) /\ ks \in SUBSET DOMAIN Order
        BY SealedAssumption
    <2> HIDE DEF ks, Able
    <2>2. offered \in Seq({Order[k] : k \in ks})
        BY <2>1, PickedSeq
    <2>3. {Order[k] : k \in ks} \subseteq Able
        BY <1>2
    <2> HIDE DEF offered
    <2> QED
        BY <2>2, <2>3
<1> HIDE DEF offered
<1>5. \A k \in DOMAIN offered : value(k) \in Nat
    <2>1. \A i \in Able : bids[i][back(i)] \in Nat
        BY ReportsAreProfiles
    <2>2. \A k \in DOMAIN offered : offered[k] \in Able
        BY <1>4
    <2> HIDE DEF Able
    <2> QED
        BY <2>1, <2>2
<1> HIDE DEF value
<1>6. \A n \in DOMAIN offered : at(n) \in DOMAIN offered
    <2> DEFINE n == Len(offered)
               v == [j \in 1..n |-> value(j)]
    <2>1. n \in Nat /\ DOMAIN offered = 1..n
        BY <1>4
    <2> HIDE DEF n
    <2>2. \A k \in 1..n : v[k] \in Int /\ v[k] = value(k)
        BY <1>5, <2>1
    <2>3. \A k \in 1..n : ahead(k) = Ahead(v, n, k)
        BY <2>1, <2>2 DEF Ahead
    <2> HIDE DEF v, ahead
    <2>4. \A m \in 1..n : \E k \in 1..n : Cardinality(Ahead(v, n, k)) = m
        <3>1. n \in Nat /\ \A k \in 1..n : v[k] \in Int
            BY <2>1, <2>2
        <3> QED
            BY <3>1, RankIsTaken
    <2> QED
        BY <2>1, <2>3, <2>4
<1> HIDE DEF at
<1>7. ranked \in Seq(Able)
    <2> HIDE DEF Able
    <2> QED
        BY <1>4, <1>6
<1> HIDE DEF ranked
<1>8. Len(ranked) \in Nat /\ Min({2, Len(ranked)}) \in Nat
      /\ Min({2, Len(ranked)}) <= Len(ranked)
    BY <1>7, MinOfTwo
<1> DEFINE m == Min({2, Len(ranked)})
<1> HIDE DEF m
<1>9. m \in Nat /\ m <= Len(ranked)
    BY <1>8 DEF m
<1>10. SubSeq(ranked, 1, m) \in Seq(Able)
    <2> HIDE DEF Able
    <2> QED
        BY <1>7, <1>9
<1> QED
    BY <1>3, <1>10 DEF m, back

\* The scarcity events, in terms of what was tried and of who was asked before.
Scarcity(bids, now, tried, before) ==
    LET top == TwoGreatest(bids, now, tried)
        new == Picked(top, {k \in DOMAIN top : top[k] \notin before})
    IN  [k \in DOMAIN new |-> Event(new[k], Fallback(bids, now, tried, new[k]), "scarcity")]

\* They ask those of the two that were not asked about a fallback before.
LEMMA ScarcityIs ==
    ASSUME NEW bids \in [Bidders -> Reports], NEW now \in Feasible(bids),
           NEW tried, NEW before
    PROVE  /\ Scarcity(bids, now, tried, before) \in Seq(AptEvents(bids))
           /\ Range(Scarcity(bids, now, tried, before)) =
                 {Event(i, Fallback(bids, now, tried, i), "scarcity") :
                      i \in Range(TwoGreatest(bids, now, tried)) \ before}
<1> DEFINE back(i) == Fallback(bids, now, tried, i)
           Able == {i \in Bidders : back(i) \in DOMAIN bids[i] /\ back(i) # {}}
           top == TwoGreatest(bids, now, tried)
           ks == {k \in DOMAIN top : top[k] \notin before}
           new == Picked(top, ks)
           list == [k \in DOMAIN new |-> Event(new[k], back(new[k]), "scarcity")]
<1>1. Scarcity(bids, now, tried, before) = list
    BY DEF Scarcity
<1>2. top \in Seq(Able)
    BY TwoGreatestIs
<1> HIDE DEF top, back
<1>3. ks \in SUBSET DOMAIN top
    OBVIOUS
<1>4. Range(top) \ before = {top[k] : k \in ks}
    BY DEF Range
<1>5. new \in Seq({top[k] : k \in ks}) /\ Range(new) = {top[k] : k \in ks}
    <2> HIDE DEF ks, Able
    <2> QED
        BY <1>2, <1>3, PickedSeq
<1> HIDE DEF new
<1>6. {top[k] : k \in ks} \subseteq Able
    BY <1>2
<1>7. new \in Seq(Able)
    <2> HIDE DEF ks, Able
    <2> QED
        BY <1>5, <1>6
<1>8. \A k \in DOMAIN new : Event(new[k], back(new[k]), "scarcity") \in AptEvents(bids)
    <2>1. \A i \in Able : Event(i, back(i), "scarcity") \in AptEvents(bids)
        BY EventIs DEF Types
    <2>2. \A k \in DOMAIN new : new[k] \in Able
        BY <1>7
    <2> HIDE DEF Able
    <2> QED
        BY <2>1, <2>2
<1>9. Len(new) \in Nat /\ DOMAIN new = 1..Len(new)
    BY <1>7
<1>10. list \in Seq(AptEvents(bids))
    BY <1>8, <1>9
<1>11. Range(list) = {Event(i, back(i), "scarcity") : i \in Range(new)}
    BY DEF Range
<1> QED
    BY <1>1, <1>4, <1>5, <1>10, <1>11 DEF back, top

\* Of several events about the same bundle of the same bidder one is left.
LEMMA DeduplicatedIs ==
    ASSUME NEW S, NEW es \in Seq(S)
    PROVE  /\ Deduplicated(es) \in Seq(S)
           /\ Range(Deduplicated(es)) \subseteq Range(es)
           /\ \A e \in Range(es) : \E d \in Range(Deduplicated(es)) :
                 d.bidder = e.bidder /\ d.bundle = e.bundle
<1> DEFINE pair(k) == <<es[k].bidder, es[k].bundle>>
           ks == {k \in DOMAIN es : \A j \in 1..k - 1 : pair(j) # pair(k)}
<1>1. Deduplicated(es) = Picked(es, ks)
    BY DEF Deduplicated
<1>2. ks \in SUBSET DOMAIN es
    OBVIOUS
<1>3. /\ Picked(es, ks) \in Seq({es[k] : k \in ks})
      /\ Range(Picked(es, ks)) = {es[k] : k \in ks}
    <2> HIDE DEF ks
    <2> QED
        BY <1>2, PickedSeq
<1>4. {es[k] : k \in ks} \subseteq S /\ {es[k] : k \in ks} \subseteq Range(es)
    BY DEF Range
<1>5. ASSUME NEW k \in DOMAIN es
      PROVE  \E j \in ks : pair(j) = pair(k)
    <2> DEFINE same == {j \in DOMAIN es : pair(j) = pair(k)}
               j == CHOOSE i \in same : \A m \in same : i <= m
    <2> HIDE DEF pair
    <2>1. DOMAIN es \in SUBSET Nat /\ Len(es) \in Nat /\ DOMAIN es = 1..Len(es)
        OBVIOUS
    <2>2. same \in SUBSET Nat /\ same # {}
        BY <2>1
    <2>3. j \in same /\ \A m \in same : j <= m
        <3> HIDE DEF same
        <3> QED
            BY <2>2, FirstPosition
    <2> HIDE DEF j
    <2>4. j \in DOMAIN es /\ pair(j) = pair(k)
        BY <2>3
    <2>5. ASSUME NEW m \in 1..j - 1
          PROVE  pair(m) # pair(j)
        <3>1. m \in DOMAIN es /\ ~(j <= m)
            BY <2>1, <2>4
        <3> QED
            BY <2>3, <2>4, <3>1
    <2> QED
        BY <2>4, <2>5
<1>6. ASSUME NEW e \in Range(es)
      PROVE  \E d \in {es[k] : k \in ks} : d.bidder = e.bidder /\ d.bundle = e.bundle
    <2>1. PICK k \in DOMAIN es : es[k] = e
        BY DEF Range
    <2>2. PICK j \in ks : pair(j) = pair(k)
        BY <1>5
    <2>3. es[j].bidder = e.bidder /\ es[j].bundle = e.bundle
        BY <2>1, <2>2
    <2> QED
        BY <2>3
<1> HIDE DEF ks
<1>7. Picked(es, ks) \in Seq(S)
    <2> DEFINE X == {es[k] : k \in ks}
    <2>1. X \subseteq S /\ Picked(es, ks) \in Seq(X)
        BY <1>3, <1>4
    <2> HIDE DEF X
    <2> QED
        BY <2>1
<1> QED
    BY <1>1, <1>3, <1>4, <1>6, <1>7

\* What the rules and factors propose before doubles are dropped.
Provisionals(bids, now) ==
    FlattenSeq([k \in DOMAIN Order |-> ProvisionalEvents(bids, now, Order[k])])

Regular(bids, now) ==
    Provisionals(bids, now)
    \o (IF policy.pivotal THEN PivotalEvent(bids, now) ELSE <<>>)

Proposed(bids, now) ==
    Regular(bids, now)
    \o (IF policy.scarcity THEN Scarcity(bids, now, attempted, fallbacks) ELSE <<>>)

\* They are apt.
LEMMA ProposedIs ==
    ASSUME policy \in Policies,
           NEW bids \in [Bidders -> Reports], NEW now \in Feasible(bids)
    PROVE  /\ Regular(bids, now) \in Seq(AptEvents(bids))
           /\ Proposed(bids, now) \in Seq(AptEvents(bids))
           /\ \A i \in Bidders :
                 Range(ProvisionalEvents(bids, now, i)) \subseteq Range(Proposed(bids, now))
<1> DEFINE Apt == AptEvents(bids)
           parts == [k \in DOMAIN Order |-> ProvisionalEvents(bids, now, Order[k])]
           p == IF policy.pivotal THEN PivotalEvent(bids, now) ELSE <<>>
           s == IF policy.scarcity THEN Scarcity(bids, now, attempted, fallbacks) ELSE <<>>
           f == Provisionals(bids, now)
           fp == f \o p
<1>1. \A i \in Bidders : ProvisionalEvents(bids, now, i) \in Seq(Apt)
    BY ProvisionalIs
<1>2. p \in Seq(Apt) /\ s \in Seq(Apt)
    BY PivotalIs, ScarcityIs, ShortLists
<1> HIDE DEF Apt
<1>3. \A k \in DOMAIN Order : parts[k] \in Seq(Apt) /\ parts[k] = ProvisionalEvents(bids, now, Order[k])
    BY <1>1, OrderFacts
<1>4. DOMAIN parts = DOMAIN Order
    OBVIOUS
<1>5. parts \in Seq(Seq(Apt))
    <2>1. parts = [k \in 1..Len(Order) |-> parts[k]] /\ Len(Order) \in Nat
        BY OrderFacts
    <2> HIDE DEF parts
    <2> QED
        BY <1>3, <2>1, OrderFacts
<1>6. f = FlattenSeq(parts)
    BY DEF Provisionals
<1> HIDE DEF parts, f
<1>7. f \in Seq(Apt) /\ Range(f) = UNION {Range(parts[k]) : k \in DOMAIN parts}
    BY <1>5, <1>6, FlattenIs
<1>8. \A i \in Bidders : Range(ProvisionalEvents(bids, now, i)) \subseteq Range(f)
    <2> SUFFICES ASSUME NEW i \in Bidders
                 PROVE  Range(ProvisionalEvents(bids, now, i)) \subseteq Range(f)
        OBVIOUS
    <2>1. PICK k \in DOMAIN Order : Order[k] = i
        BY OrderFacts
    <2>2. parts[k] = ProvisionalEvents(bids, now, i)
        BY <1>3, <2>1
    <2> QED
        BY <1>4, <1>7, <2>2
<1>9. Regular(bids, now) = fp /\ Proposed(bids, now) = fp \o s
    BY DEF Regular, Proposed, f
<1> HIDE DEF p, s
<1>10. fp \in Seq(Apt) /\ Range(fp) = Range(f) \cup Range(p)
    BY <1>2, <1>7, RangeOfConcat
<1> HIDE DEF fp
<1>11. fp \o s \in Seq(Apt) /\ Range(fp \o s) = Range(fp) \cup Range(s)
    BY <1>2, <1>10, RangeOfConcat
<1> QED
    BY <1>8, <1>9, <1>10, <1>11 DEF Apt

\* The events of a round are these.
LEMMA RoundEventsAre ==
    /\ RoundEvents = Deduplicated(Proposed(CurrentBids, Solve(CurrentBids)))
    /\ RoundEvents' = Deduplicated(Proposed(CurrentBids, Solve(CurrentBids))')
<1>1. ASSUME NEW bids, NEW now
      PROVE  ScarcityEvents(bids, now) = Scarcity(bids, now, attempted, fallbacks)
    BY DEF ScarcityEvents, Scarcity, TwoGreatest, Fallback
<1>2. ASSUME NEW bids, NEW now
      PROVE  ScarcityEvents(bids, now)' = Scarcity(bids, now, attempted, fallbacks)'
    BY DEF ScarcityEvents, Scarcity, TwoGreatest, Fallback
<1>3. RoundEvents = Deduplicated(Proposed(CurrentBids, Solve(CurrentBids)))
    BY <1>1 DEF RoundEvents, PerBidder, Proposed, Regular, Provisionals
<1>4. RoundEvents' = Deduplicated(Proposed(CurrentBids, Solve(CurrentBids))')
    BY <1>2 DEF RoundEvents, PerBidder, Proposed, Regular, Provisionals
<1> QED
    BY <1>3, <1>4

\* They are apt, and there is one for everything proposed.
LEMMA RoundEventsIs ==
    ASSUME policy \in Policies, CurrentBids \in [Bidders -> Reports]
    PROVE  LET bids == CurrentBids
               now  == Solve(bids)
           IN  /\ RoundEvents \in Seq(AptEvents(bids))
               /\ Range(RoundEvents) \subseteq Range(Proposed(bids, now))
               /\ \A e \in Range(Proposed(bids, now)) : \E d \in Range(RoundEvents) :
                     d.bidder = e.bidder /\ d.bundle = e.bundle
<1> DEFINE bids == CurrentBids
           now == Solve(bids)
<1>1. RoundEvents = Deduplicated(Proposed(bids, now))
    BY RoundEventsAre
<1>2. bids \in [Bidders -> Reports] /\ now \in Feasible(bids)
    BY SolveIs
<1> HIDE DEF bids, now
<1>3. Proposed(bids, now) \in Seq(AptEvents(bids))
    BY <1>2, ProposedIs
<1>4. /\ RoundEvents \in Seq(AptEvents(bids))
      /\ Range(RoundEvents) \subseteq Range(Proposed(bids, now))
      /\ \A e \in Range(Proposed(bids, now)) : \E d \in Range(RoundEvents) :
            d.bidder = e.bidder /\ d.bundle = e.bundle
    BY <1>1, <1>3, DeduplicatedIs
<1> QED
    BY <1>4 DEF bids, now

-----------------------------------------------------------------------------
(* Proxies.                                                                *)

\* The proxies of persons who answer from ground truth, each with its record of
\* what it was asked.
Records ==
    [bid : Reports, provisional : SUBSET Named, refined : SUBSET Named, count : Nat,
     exact : BOOLEAN]

Recording(p) ==
    /\ p \in Records /\ p.exact
    /\ p.provisional \subseteq DOMAIN p.bid
    /\ p.refined = DOMAIN p.bid \ p.provisional
    /\ p.count = Cardinality(p.refined)

\* The repair raises an atom to what the bid says of a part of it, or leaves it.
LEMMA RepairIs ==
    ASSUME NEW bid \in Reports
    PROVE  /\ Repair(bid) \in Reports /\ DOMAIN Repair(bid) = DOMAIN bid
           /\ \A b \in DOMAIN bid : /\ Repair(bid)[b] >= bid[b]
                                    /\ \E a \in DOMAIN bid : a \subseteq b /\ Repair(bid)[b] = bid[a]
<1> DEFINE D == DOMAIN bid
           worth(b) == {bid[a] : a \in {s \in D : s \subseteq b}}
<1>1. D \in SUBSET Named /\ IsFiniteSet(D) /\ bid \in [D -> Nat]
    BY NamedFacts, FS_Subset DEF Reports
<1>2. ASSUME NEW b \in D
      PROVE  /\ Max(worth(b)) \in worth(b) /\ \A x \in worth(b) : x <= Max(worth(b))
             /\ bid[b] \in worth(b) /\ worth(b) \subseteq Nat
    <2> DEFINE parts == {s \in D : s \subseteq b}
    <2>1. IsFiniteSet(parts)
        BY <1>1, FS_Subset
    <2>2. b \in parts /\ parts \subseteq D
        OBVIOUS
    <2> HIDE DEF parts
    <2>3. IsFiniteSet({bid[a] : a \in parts})
        BY <2>1, FiniteImage
    <2>4. worth(b) = {bid[a] : a \in parts}
        BY DEF parts
    <2>5. worth(b) \subseteq Nat /\ bid[b] \in worth(b)
        BY <1>1, <2>2, <2>4
    <2>6. IsFiniteSet(worth(b)) /\ worth(b) # {} /\ worth(b) \subseteq Int
        <3> HIDE DEF worth
        <3> QED
            BY <2>3, <2>4, <2>5
    <2> DEFINE W == worth(b)
    <2> HIDE DEF W
    <2>7. Max(W) \in W /\ \A x \in W : x <= Max(W)
        BY <2>6, MaxIsGreatest DEF W
    <2> QED
        BY <2>5, <2>7 DEF W
<1>3. Repair(bid) = [b \in D |-> Max(worth(b))]
    BY DEF Repair
<1>4. \A b \in D : \E a \in D : a \subseteq b /\ Max(worth(b)) = bid[a]
    <2> SUFFICES ASSUME NEW b \in D
                 PROVE  \E a \in D : a \subseteq b /\ Max(worth(b)) = bid[a]
        OBVIOUS
    <2>1. \A x \in worth(b) : \E a \in D : a \subseteq b /\ x = bid[a]
        OBVIOUS
    <2> HIDE DEF worth, D
    <2> QED
        BY <1>2, <2>1
<1> HIDE DEF worth
<1>5. \A b \in D : Repair(bid)[b] >= bid[b] /\ Repair(bid)[b] \in Nat
    BY <1>1, <1>2, <1>3
<1>6. Repair(bid) \in [D -> Nat]
    BY <1>3, <1>5
<1>7. Repair(bid) \in Reports
    BY <1>1, <1>6 DEF Reports
<1> QED
    BY <1>3, <1>4, <1>5, <1>7

\* An answer about a provisional atom is reported as it was given; another atom may
\* be raised to what is reported for a part of it; and the question is recorded.
LEMMA AskedIs ==
    ASSUME NEW p, Recording(p), NEW b \in p.provisional, NEW answer \in Nat
    PROVE  LET q == Revalued(p, b, answer)
           IN  /\ Recording(q) /\ DOMAIN q.bid = DOMAIN p.bid
               /\ b \in DOMAIN p.bid /\ b \notin p.refined
               /\ q.refined = p.refined \cup {b} /\ q.provisional = p.provisional \ {b}
               /\ q.count = p.count + 1
               /\ q.bid[b] = answer
               /\ \A c \in DOMAIN p.bid \ {b} :
                     /\ q.bid[c] >= p.bid[c]
                     /\ \E a \in DOMAIN p.bid :
                           a \subseteq c /\ q.bid[c] \in {p.bid[a], answer}
<1> DEFINE D == DOMAIN p.bid
           up == Upsert(p.bid, b, answer)
           settled == Repair(up)
           last == Upsert(settled, b, answer)
           q == Revalued(p, b, answer)
<1>1. /\ D \in SUBSET Named /\ p.bid \in [D -> Nat] /\ b \in D /\ b \notin p.refined
      /\ p.provisional \in SUBSET Named /\ p.refined \in SUBSET Named /\ p.count \in Nat
      /\ p.exact = TRUE
    BY DEF Recording, Records, Reports
<1>2. /\ up \in [D -> Nat] /\ up[b] = answer /\ \A a \in D \ {b} : up[a] = p.bid[a]
    BY <1>1 DEF Upsert
<1>3. up \in Reports
    BY <1>1, <1>2 DEF Reports
<1> HIDE DEF up
<1>4. /\ settled \in Reports /\ DOMAIN settled = D
      /\ \A c \in D : settled[c] >= up[c] /\ \E a \in D : a \subseteq c /\ settled[c] = up[a]
    BY <1>2, <1>3, RepairIs
<1> HIDE DEF settled
<1>5. settled \in [D -> Nat]
    BY <1>4 DEF Reports
<1>6. /\ last \in [D -> Nat] /\ last[b] = answer /\ \A c \in D \ {b} : last[c] = settled[c]
    BY <1>1, <1>5 DEF Upsert
<1>7. last \in Reports
    BY <1>1, <1>6 DEF Reports
<1>8. q = [bid |-> last, provisional |-> p.provisional \ {b}, refined |-> p.refined \cup {b},
           count |-> p.count + 1, exact |-> p.exact]
    <2>1. p = [bid |-> p.bid, provisional |-> p.provisional, refined |-> p.refined,
               count |-> p.count, exact |-> p.exact]
        BY DEF Recording, Records
    <2>2. q = [p EXCEPT !.bid = last, !.provisional = @ \ {b}, !.refined = @ \cup {b},
                        !.count = @ + 1]
        BY <1>1 DEF Revalued, last, settled, up
    <2> HIDE DEF last, q
    <2> QED
        BY <2>1, <2>2
<1> HIDE DEF last, q
<1>9. /\ q.bid = last /\ q.provisional = p.provisional \ {b} /\ q.refined = p.refined \cup {b}
      /\ q.count = p.count + 1 /\ q.exact = p.exact /\ DOMAIN last = D
    BY <1>6, <1>8
<1>10. q \in Records
    <2>1. /\ p.provisional \ {b} \in SUBSET Named /\ p.refined \cup {b} \in SUBSET Named
          /\ p.count + 1 \in Nat /\ p.exact \in BOOLEAN
        <3>1. b \in Named
            BY <1>1
        <3>2. p.exact \in BOOLEAN
            BY DEF Recording, Records
        <3> HIDE DEF D
        <3>3. p.provisional \ {b} \in SUBSET Named /\ p.refined \cup {b} \in SUBSET Named
            BY <1>1, <3>1
        <3> QED
            BY <1>1, <3>2, <3>3
    <2> QED
        BY <1>7, <1>8, <2>1 DEF Records
<1>11. IsFiniteSet(p.refined) /\ Cardinality(p.refined \cup {b}) = Cardinality(p.refined) + 1
    BY <1>1, NamedFacts, FS_Subset, FS_AddElement
<1>12. Recording(q)
    <2>1. q.provisional \subseteq D /\ q.refined = D \ q.provisional
        BY <1>1, <1>9 DEF Recording
    <2>2. q.count = Cardinality(q.refined)
        BY <1>9, <1>11 DEF Recording
    <2> QED
        BY <1>1, <1>9, <1>10, <2>1, <2>2 DEF Recording
<1>13. \A c \in D \ {b} : /\ last[c] >= p.bid[c]
                          /\ \E a \in D : a \subseteq c /\ last[c] \in {p.bid[a], answer}
    BY <1>1, <1>2, <1>4, <1>6
<1> QED
    BY <1>1, <1>6, <1>9, <1>12, <1>13 DEF q

\* A fresh proxy has nothing on record.
LEMMA FreshIs ==
    ASSUME NEW g \in Guesses
    PROVE  Recording(ProvisionalProxy(g, TRUE)) /\ ProvisionalProxy(g, TRUE).refined = {}
<1> DEFINE named == [b \in DOMAIN g \ {{}} |-> g[b]]
           p == ProvisionalProxy(g, TRUE)
<1>1. DOMAIN g \in SUBSET Named /\ g \in [DOMAIN g -> Nat]
    BY SealedAssumption
<1>2. named \in [DOMAIN g \ {{}} -> Nat] /\ DOMAIN g \ {{}} \in SUBSET Named
    BY <1>1
<1>3. named \in Reports
    BY <1>2 DEF Reports
<1>4. p = [bid |-> Repair(named), provisional |-> DOMAIN named, refined |-> {}, count |-> 0,
           exact |-> TRUE]
    BY DEF ProvisionalProxy
<1>5. DOMAIN named \in SUBSET Named
    BY <1>2
<1> HIDE DEF named, p
<1>6. Repair(named) \in Reports /\ DOMAIN Repair(named) = DOMAIN named
    BY <1>3, RepairIs
<1>7. Cardinality({}) = 0
    BY FS_EmptySet
<1>8. p \in Records
    BY <1>4, <1>5, <1>6 DEF Records
<1>9. p.provisional = DOMAIN p.bid /\ p.refined = {} /\ p.count = 0 /\ p.exact
    BY <1>4, <1>6
<1>10. Recording(p)
    BY <1>7, <1>8, <1>9 DEF Recording
<1> QED
    BY <1>9, <1>10 DEF p

\* The questions asked of all proxies are counted, one more with every question.
LEMMA QueriesAre ==
    ASSUME NEW ps \in [Bidders -> Records]
    PROVE  /\ TotalQueries(ps) \in Nat
           /\ \A i \in Bidders : \A q \in Records :
                 q.count = ps[i].count + 1 =>
                     TotalQueries([ps EXCEPT ![i] = q]) = TotalQueries(ps) + 1
<1> DEFINE f(s) == [i \in Bidders |-> s[i].count]
<1>1. ASSUME NEW s \in [Bidders -> Records]
      PROVE  /\ TotalQueries(s) = SumFunctionOnSet(f(s), Bidders)
             /\ \A i \in Bidders : f(s)[i] \in Nat
    <2>1. DOMAIN s = Bidders /\ DOMAIN f(s) = Bidders
        OBVIOUS
    <2>2. TotalQueries(s) = SumFunctionOnSet(f(s), Bidders)
        BY <2>1 DEF TotalQueries, SumFunction
    <2>3. \A i \in Bidders : f(s)[i] \in Nat
        BY DEF Records
    <2> QED
        BY <2>2, <2>3
<1>2. ASSUME NEW i \in Bidders, NEW q \in Records, q.count = ps[i].count + 1
      PROVE  TotalQueries([ps EXCEPT ![i] = q]) = TotalQueries(ps) + 1
    <2> DEFINE qs == [ps EXCEPT ![i] = q]
               old == f(ps)
               new == f(qs)
    <2>1. qs \in [Bidders -> Records]
        OBVIOUS
    <2>2. new[i] = old[i] + 1 /\ \A j \in Bidders \ {i} : new[j] = old[j]
        BY <1>2
    <2>3. /\ TotalQueries(qs) = SumFunctionOnSet(new, Bidders)
          /\ TotalQueries(ps) = SumFunctionOnSet(old, Bidders)
          /\ \A j \in Bidders : new[j] \in Nat /\ old[j] \in Nat
        <3> HIDE DEF qs, f
        <3> QED
            BY <1>1, <2>1
    <2> HIDE DEF old, new, qs, f
    <2>4. IsFiniteSet(Bidders) /\ IsFiniteSet(Bidders \ {i})
        BY OrderFacts, FS_Subset
    <2>5. /\ SumFunctionOnSet(new, Bidders) = new[i] + SumFunctionOnSet(new, Bidders \ {i})
          /\ SumFunctionOnSet(old, Bidders) = old[i] + SumFunctionOnSet(old, Bidders \ {i})
        BY <2>3, <2>4, SumStep
    <2>6. SumFunctionOnSet(new, Bidders \ {i}) = SumFunctionOnSet(old, Bidders \ {i})
        BY <2>2, <2>4, SumAgrees
    <2>7. SumFunctionOnSet(old, Bidders \ {i}) \in Nat
        BY <2>3, <2>4, SumIsNat
    <2> QED
        BY <2>2, <2>3, <2>5, <2>6, <2>7 DEF qs
<1>3. TotalQueries(ps) \in Nat
    <2> HIDE DEF f
    <2> QED
        BY <1>1, OrderFacts, SumIsNat
<1> QED
    BY <1>2, <1>3

-----------------------------------------------------------------------------
(* The inductive invariant.                                                *)

\* What is recorded of a round.
Rows == [allocation : [Bidders -> SUBSET Items], queries : Nat]

\* The values of the variables.
SealedTypes ==
    /\ policy \in Policies
    /\ truth \in [Bidders -> Truths]
    /\ stage \in {"start", "open", "feedback", "record", "done"}
    /\ proxies \in [Bidders -> Records]
    /\ attempted \in [Bidders -> SUBSET Named]
    /\ events \in Seq(AptEvents(CurrentBids))
    /\ trajectory \in Seq(Rows)

\* What is attempted, asked and provisional.
SealedAsked ==
    \A i \in Bidders : Recording(proxies[i]) /\ attempted[i] = proxies[i].refined

\* A question about an atom changes the proxies and what is attempted, or nothing
\* because the atom was asked about.
AskedOf(ps, tries, i, b) ==
    /\ b \in DOMAIN CurrentBids[i] \ attempted[i]
    /\ tries = [attempted EXCEPT ![i] = @ \cup {b}]
    /\ \A j \in Bidders \ {i} : ps[j] = proxies[j]
    /\ ps[i].bid[b] = truth[i][b]
    /\ \A c \in DOMAIN CurrentBids[i] \ {b} :
          /\ ps[i].bid[c] >= CurrentBids[i][c]
          /\ \E a \in DOMAIN CurrentBids[i] :
                a \subseteq c /\ ps[i].bid[c] \in {CurrentBids[i][a], truth[i][b]}
    /\ TotalQueries(ps) = TotalQueries(proxies) + 1

\* Feedback on an atom asks, or leaves everything as it is.
OnceAsked(ps, tries, i, b) ==
    /\ ps \in [Bidders -> Records] /\ tries \in [Bidders -> SUBSET Named]
    /\ \A j \in Bidders : /\ Recording(ps[j]) /\ tries[j] = ps[j].refined
                          /\ DOMAIN ps[j].bid = DOMAIN CurrentBids[j]
    /\ \/ /\ AlreadyAsked(proxies[i], b)
          /\ ps = proxies /\ tries = attempted /\ Refined(i, b) = proxies[i]
       \/ AskedOf(ps, tries, i, b)

\* It does one or the other.
LEMMA AskingIs ==
    ASSUME SealedTypes, SealedAsked, NEW i \in Bidders, NEW b \in DOMAIN CurrentBids[i]
    PROVE  OnceAsked([proxies EXCEPT ![i] = Refined(i, b)],
                     [attempted EXCEPT ![i] = @ \cup {b}], i, b)
<1> SUFFICES ASSUME NEW ps, ps = [proxies EXCEPT ![i] = Refined(i, b)],
                    NEW tries, tries = [attempted EXCEPT ![i] = @ \cup {b}]
             PROVE  OnceAsked(ps, tries, i, b)
    OBVIOUS
<1> USE DEF OnceAsked
<1> DEFINE p == proxies[i]
           q == Refined(i, b)
<1>1. /\ proxies \in [Bidders -> Records] /\ attempted \in [Bidders -> SUBSET Named]
      /\ truth \in [Bidders -> Truths]
      /\ \A j \in Bidders : /\ CurrentBids[j] = proxies[j].bid
                            /\ Recording(proxies[j]) /\ attempted[j] = proxies[j].refined
    BY DEF SealedTypes, SealedAsked, CurrentBids
<1>2. b \in DOMAIN p.bid /\ p.refined = DOMAIN p.bid \ p.provisional /\ b \in Named
    <2>1. p.bid \in Reports
        BY <1>1 DEF Records
    <2> QED
        BY <1>1, <2>1 DEF Recording, Reports
<1>3. truth[i][b] \in Nat
    <2>1. Truths \subseteq [Named -> Nat]
        BY SealedAssumption
    <2> QED
        BY <1>1, <1>2, <2>1
<1>4. CASE AlreadyAsked(p, b)
    <2>1. q = p
        BY <1>4 DEF Refined
    <2>2. b \in p.refined
        BY <1>2, <1>4 DEF AlreadyAsked
    <2>3. ps = proxies
        BY <1>1, <2>1
    <2>4. tries = attempted
        <3>1. attempted[i] \cup {b} = attempted[i]
            BY <1>1, <2>2
        <3> QED
            BY <1>1, <3>1
    <2> QED
        BY <1>1, <1>4, <2>1, <2>3, <2>4
<1>5. CASE ~AlreadyAsked(p, b)
    <2>1. b \in p.provisional
        BY <1>2, <1>5 DEF AlreadyAsked
    <2>2. q = Revalued(p, b, truth[i][b])
        BY <1>5 DEF Refined
    <2>3. Recording(p)
        BY <1>1
    <2> DEFINE answer == truth[i][b]
    <2>4. /\ Recording(q) /\ DOMAIN q.bid = DOMAIN p.bid
          /\ b \in DOMAIN p.bid /\ b \notin p.refined
          /\ q.refined = p.refined \cup {b}
          /\ q.count = p.count + 1
          /\ q.bid[b] = answer
          /\ \A c \in DOMAIN p.bid \ {b} :
                /\ q.bid[c] >= p.bid[c]
                /\ \E a \in DOMAIN p.bid : a \subseteq c /\ q.bid[c] \in {p.bid[a], answer}
        <3> HIDE DEF p, answer, q
        <3>1. answer \in Nat
            BY <1>3 DEF answer
        <3>2. q = Revalued(p, b, answer)
            BY <2>2 DEF answer
        <3> QED
            BY <2>1, <2>3, <3>1, <3>2, AskedIs
    <2> HIDE DEF q
    <2>5. q \in Records
        BY <2>4 DEF Recording
    <2>6. /\ ps \in [Bidders -> Records] /\ ps[i] = q
          /\ \A j \in Bidders \ {i} : ps[j] = proxies[j]
        BY <1>1, <2>5 DEF q
    <2>7. /\ tries \in [Bidders -> SUBSET Named] /\ tries[i] = attempted[i] \cup {b}
          /\ \A j \in Bidders \ {i} : tries[j] = attempted[j]
        BY <1>1, <1>2
    <2>8. TotalQueries(ps) = TotalQueries(proxies) + 1
        <3>1. ps = [proxies EXCEPT ![i] = q] /\ q.count = proxies[i].count + 1
            BY <2>4 DEF q
        <3> HIDE DEF p, answer
        <3>2. \A r \in Records : r.count = proxies[i].count + 1 =>
                  TotalQueries([proxies EXCEPT ![i] = r]) = TotalQueries(proxies) + 1
            BY <1>1, QueriesAre
        <3> QED
            BY <2>5, <3>1, <3>2
    <2>9. \A j \in Bidders : /\ Recording(ps[j]) /\ tries[j] = ps[j].refined
                             /\ DOMAIN ps[j].bid = DOMAIN CurrentBids[j]
        <3> SUFFICES ASSUME NEW j \in Bidders
                     PROVE  /\ Recording(ps[j]) /\ tries[j] = ps[j].refined
                            /\ DOMAIN ps[j].bid = DOMAIN CurrentBids[j]
            OBVIOUS
        <3>1. CASE j = i
            BY <1>1, <2>4, <2>6, <2>7, <3>1
        <3>2. CASE j # i
            BY <1>1, <2>6, <2>7, <3>2
        <3> QED
            BY <3>1, <3>2
    <2>10. AskedOf(ps, tries, i, b)
        <3>1. b \in DOMAIN CurrentBids[i] \ attempted[i] /\ ps[i].bid[b] = truth[i][b]
            BY <1>1, <2>4, <2>6
        <3>2. \A c \in DOMAIN CurrentBids[i] \ {b} :
                 /\ ps[i].bid[c] >= CurrentBids[i][c]
                 /\ \E a \in DOMAIN CurrentBids[i] :
                       a \subseteq c /\ ps[i].bid[c] \in {CurrentBids[i][a], truth[i][b]}
            BY <1>1, <2>4, <2>6
        <3> QED
            BY <2>6, <2>8, <3>1, <3>2 DEF AskedOf
    <2> QED
        BY <2>6, <2>7, <2>9, <2>10
<1> QED
    BY <1>4, <1>5

-----------------------------------------------------------------------------
(* How the events of a round depend on the state.                          *)

\* The pivotal challenger, in view of what was attempted.
PivotalOf(bids, now, tried, bound) ==
    LET challenger(i) ==
            Competitive(bids, now, i, tried[i] \cup (IF now[i] = {} THEN {} ELSE {now[i]}))
        gap(i) == LET g == ForcedGap(bids, i, challenger(i), Welfare(bids, now))
                  IN  IF g < 0 THEN -g ELSE g
        near == {k \in DOMAIN Order : challenger(Order[k]) # {} /\ gap(Order[k]) <= bound}
        closest == Picked(Order, {k \in near : \A j \in near : gap(Order[k]) <= gap(Order[j])})
    IN  IF near = {} THEN <<>>
        ELSE <<Event(closest[1], challenger(closest[1]), "pivotal_challenger")>>

\* The rules propose the same while the bids and what was attempted stay.
LEMMA RulesAreStable ==
    ASSUME policy' = policy, favoured' = favoured, attempted' = attempted,
           NEW bids, NEW now
    PROVE  /\ Provisionals(bids, now)' = Provisionals(bids, now)
           /\ PivotalEvent(bids, now)' = PivotalEvent(bids, now)
<1>1. \A i : ProvisionalEvents(bids, now, i)' = ProvisionalEvents(bids, now, i)
    BY DEF ProvisionalEvents, NextOnFrontier, Frontier, PerBidder, Solve
<1>2. Provisionals(bids, now)' = Provisionals(bids, now)
    BY <1>1 DEF Provisionals
<1>3. PivotalEvent(bids, now)' = PivotalEvent(bids, now)
    <2>1. PivotalEvent(bids, now) = PivotalOf(bids, now, attempted, policy.gap)
        BY Zenon DEF PivotalEvent, PivotalOf
    <2>2. PivotalEvent(bids, now)' = PivotalOf(bids, now, attempted', policy'.gap)
        BY Zenon DEF PivotalEvent, PivotalOf
    <2> QED
        BY <2>1, <2>2
<1> QED
    BY <1>2, <1>3

\* While the bids and what was attempted stay, a fallback asked about once more only
\* takes scarcity events away.
LEMMA ProposalsShrink ==
    ASSUME policy \in Policies, CurrentBids \in [Bidders -> Reports],
           policy' = policy, favoured' = favoured, proxies' = proxies, attempted' = attempted,
           fallbacks \subseteq fallbacks'
    PROVE  \A e \in Range(RoundEvents') : \E d \in Range(RoundEvents) :
               d.bidder = e.bidder /\ d.bundle = e.bundle
<1> DEFINE bids == CurrentBids
           now == Solve(bids)
           sc(before) == IF policy.scarcity THEN Scarcity(bids, now, attempted, before) ELSE <<>>
           base == Regular(bids, now)
           Apt == AptEvents(bids)
           before == fallbacks
           after == fallbacks'
<1>1. bids \in [Bidders -> Reports] /\ now \in Feasible(bids)
    BY SolveIs
<1>2. CurrentBids' = bids /\ Solve(CurrentBids)' = now
    BY DEF CurrentBids, Solve
<1>3. Proposed(CurrentBids, Solve(CurrentBids)) = base \o sc(before)
    BY DEF Proposed
<1>4. Proposed(CurrentBids, Solve(CurrentBids))' = base \o sc(after)
    <2>1. \A b, n : Regular(b, n)' = Regular(b, n)
        BY RulesAreStable DEF Regular
    <2>2. \A b, n : Proposed(b, n)' =
                        Regular(b, n)
                        \o (IF policy.scarcity THEN Scarcity(b, n, attempted, fallbacks') ELSE <<>>)
        BY <2>1 DEF Proposed
    <2>3. Proposed(CurrentBids, Solve(CurrentBids))' =
              Regular(CurrentBids', Solve(CurrentBids)')
              \o (IF policy.scarcity
                  THEN Scarcity(CurrentBids', Solve(CurrentBids)', attempted, fallbacks')
                  ELSE <<>>)
        BY <2>1 DEF Proposed, Regular
    <2> QED
        BY <1>2, <2>3
<1> HIDE DEF now, bids
<1>5. base \in Seq(Apt)
    BY <1>1, ProposedIs
<1>6. ASSUME NEW x
      PROVE  /\ sc(x) \in Seq(Apt) /\ Range(base \o sc(x)) = Range(base) \cup Range(sc(x))
             /\ base \o sc(x) \in Seq(Apt)
    <2>1. Scarcity(bids, now, attempted, x) \in Seq(Apt)
        BY <1>1, ScarcityIs
    <2> HIDE DEF Apt, base
    <2>2. sc(x) \in Seq(Apt)
        BY <2>1
    <2> HIDE DEF sc
    <2> QED
        BY <1>5, <2>2, RangeOfConcat
<1>7. Range(sc(after)) \subseteq Range(sc(before))
    <2>1. \A x : Range(Scarcity(bids, now, attempted, x)) =
              {Event(i, Fallback(bids, now, attempted, i), "scarcity") :
                   i \in Range(TwoGreatest(bids, now, attempted)) \ x}
        BY <1>1, ScarcityIs
    <2>2. Range(Scarcity(bids, now, attempted, after))
              \subseteq Range(Scarcity(bids, now, attempted, before))
        <3>1. Range(TwoGreatest(bids, now, attempted)) \ after
                  \subseteq Range(TwoGreatest(bids, now, attempted)) \ before
            OBVIOUS
        <3> HIDE DEF before, after
        <3> QED
            BY <2>1, <3>1
    <2> HIDE DEF before, after
    <2> QED
        BY <2>2
<1> DEFINE old == base \o sc(before)
           new == base \o sc(after)
<1>8. old \in Seq(Apt) /\ new \in Seq(Apt) /\ Range(new) \subseteq Range(old)
    BY <1>6, <1>7
<1>9. RoundEvents = Deduplicated(old) /\ RoundEvents' = Deduplicated(new)
    BY <1>3, <1>4, RoundEventsAre
<1> HIDE DEF old, new, Apt
<1> QED
    BY <1>8, <1>9, DeduplicatedIs

-----------------------------------------------------------------------------
(* The rounds.                                                             *)

\* The records of the trajectory.
SealedRecords ==
    /\ trajectory = <<>> <=> stage = "start"
    /\ stage \in {"open", "done"} => Last(trajectory) = Recorded
    /\ stage # "start" => Last(trajectory).queries <= TotalQueries(proxies)

\* Nothing is left to do about an event: it was asked about or is capped.
Handled(e) == AlreadyAsked(proxies[e.bidder], e.bundle) \/ ~CapAllows(proxies, e.bidder)

\* There is an event about the same atom.
Among(e, es) == \E d \in Range(es) : d.bidder = e.bidder /\ d.bundle = e.bundle

\* A round that asked nothing so far has handled, or has still before it, whatever
\* would be proposed now; a round without events is known to be one.
SealedRounds ==
    /\ stage = "record" => events = <<>>
    /\ stage \in {"feedback", "record"} /\ ~eligible =>
          events = <<>> /\ (policy.regret \/ RoundEvents = <<>>)
    /\ stage \in {"feedback", "record"} /\ NothingNew =>
          \A e \in Range(RoundEvents) : Handled(e) \/ Among(e, events)
    /\ stage \in {"open", "done"} /\ Quiet => \A e \in Range(RoundEvents) : Handled(e)

\* What a termination reason says.
SealedReasons ==
    /\ reason # "none" => stage = "done"
    /\ reason = "no_eligible_refinements" =>
          policy.feedback = "competitive" /\ (policy.regret \/ RoundEvents = <<>>)
    /\ reason = "no_new_refinements" => Quiet

SealedIInv == SealedTypes /\ SealedAsked /\ SealedRecords /\ SealedRounds /\ SealedReasons

\* The bids of the proxies are reports.
LEMMA BidsAre ==
    ASSUME NEW ps \in [Bidders -> Records]
    PROVE  [i \in Bidders |-> ps[i].bid] \in [Bidders -> Reports]
BY DEF Records

\* Only the domains of bids matter to which events are apt.
LEMMA SameApt ==
    ASSUME NEW p, NEW q, \A i \in Bidders : DOMAIN p[i] = DOMAIN q[i]
    PROVE  AptEvents(p) = AptEvents(q)
BY DEF AptEvents

\* What is recorded is a record.
LEMMA RecordedIs ==
    ASSUME SealedTypes
    PROVE  /\ CurrentBids \in [Bidders -> Reports]
           /\ Recorded \in Rows
           /\ Recorded.queries = TotalQueries(proxies) /\ TotalQueries(proxies) \in Nat
           /\ Recorded.allocation = Solve(CurrentBids)
           /\ RoundEvents \in Seq(AptEvents(CurrentBids))
<1>1. CurrentBids \in [Bidders -> Reports]
    BY BidsAre DEF SealedTypes, CurrentBids
<1>2. Solve(CurrentBids) \in [Bidders -> SUBSET Items] /\ TotalQueries(proxies) \in Nat
    BY <1>1, SolveIs, QueriesAre DEF SealedTypes
<1>3. RoundEvents \in Seq(AptEvents(CurrentBids))
    BY <1>1, RoundEventsIs DEF SealedTypes
<1> QED
    BY <1>1, <1>2, <1>3 DEF Recorded, Rows

\* What u is when r was added to t.
Extended(u, t, r, S) ==
    /\ u \in Seq(S) /\ u # <<>> /\ Last(u) = r
    /\ Len(t) \in Nat /\ Len(u) = Len(t) + 1
    /\ u[Len(t) + 1] = r
    /\ t # <<>> => Len(t) # 0 /\ Last(t) \in S /\ u[Len(t)] = Last(t)

\* A trajectory one longer ends with what was added, and that one was its end before.
LEMMA LastOf ==
    ASSUME NEW S, NEW t \in Seq(S), NEW r \in S
    PROVE  /\ Extended(Append(t, r), t, r, S)
           /\ <<r>> \in Seq(S) /\ Last(<<r>>) = r /\ Len(<<r>>) = 1 /\ <<r>> # <<>>
<1>1. <<r>> \in Seq(S) /\ Last(<<r>>) = r /\ Len(<<r>>) = 1 /\ <<r>> # <<>>
    BY DEF Last
<1> DEFINE u == Append(t, r)
<1>2. /\ u \in Seq(S) /\ Len(t) \in Nat /\ Len(u) = Len(t) + 1
      /\ u[Len(t) + 1] = r /\ \A k \in 1..Len(t) : u[k] = t[k]
    OBVIOUS
<1>3. t # <<>> => Len(t) # 0 /\ t[Len(t)] \in S
    OBVIOUS
<1> HIDE DEF u
<1>4. u # <<>>
    BY <1>2
<1>5. Last(u) = r
    BY <1>2 DEF Last
<1>6. t # <<>> => Last(t) \in S /\ u[Len(t)] = Last(t)
    BY <1>2, <1>3 DEF Last
<1>7. Extended(u, t, r, S)
    BY <1>2, <1>3, <1>4, <1>5, <1>6 DEF Extended
<1> QED
    BY <1>1, <1>7 DEF u

\* The initial states.
LEMMA SealedInit == Init => SealedIInv
<1> SUFFICES ASSUME Init
             PROVE  SealedIInv
    OBVIOUS
<1>1. ASSUME NEW i \in Bidders
      PROVE  Recording(proxies[i]) /\ proxies[i].refined = {}
    <2>1. PICK g \in Guesses : proxies[i] = ProvisionalProxy(g, TRUE)
        BY DEF Init
    <2> QED
        BY <2>1, FreshIs
<1>2. proxies \in [Bidders -> Records]
    <2>1. \A i \in Bidders : proxies[i] \in Records
        BY <1>1 DEF Recording
    <2>2. proxies = [i \in Bidders |-> proxies[i]]
        BY DEF Init
    <2> QED
        BY <2>1, <2>2
<1>3. SealedTypes
    BY <1>2 DEF SealedTypes, Init
<1>4. SealedAsked
    BY <1>1 DEF SealedAsked, Init
<1>5. SealedRecords /\ SealedRounds /\ SealedReasons
    BY DEF SealedRecords, SealedRounds, SealedReasons, Init
<1> QED
    BY <1>3, <1>4, <1>5 DEF SealedIInv

\* What a step that changes neither bids nor what was attempted leaves alone.
Kept ==
    /\ policy' = policy /\ truth' = truth /\ favoured' = favoured
    /\ proxies' = proxies /\ attempted' = attempted

\* Under such a step, with no more fallbacks than before, the same is proposed.
LEMMA KeptStable ==
    ASSUME SealedTypes, SealedAsked, Kept
    PROVE  /\ SealedAsked'
           /\ CurrentBids' = CurrentBids /\ Recorded' = Recorded
           /\ TotalQueries(proxies)' = TotalQueries(proxies)
           /\ policy' \in Policies /\ truth' \in [Bidders -> Truths]
           /\ proxies' \in [Bidders -> Records] /\ attempted' \in [Bidders -> SUBSET Named]
           /\ \A e : Handled(e)' <=> Handled(e)
           /\ fallbacks \subseteq fallbacks' =>
                 \A e \in Range(RoundEvents') : Among(e, RoundEvents)
           /\ fallbacks' = fallbacks => RoundEvents' = RoundEvents
<1>1. policy' = policy /\ truth' = truth /\ favoured' = favoured
      /\ proxies' = proxies /\ attempted' = attempted
    BY DEF Kept
<1>2. CurrentBids \in [Bidders -> Reports] /\ policy \in Policies
    BY RecordedIs DEF SealedTypes
<1>3. CurrentBids' = CurrentBids /\ Recorded' = Recorded
    BY <1>1 DEF CurrentBids, Recorded, Solve
<1>4. SealedAsked'
    BY <1>1 DEF SealedAsked
<1>5. \A e : Handled(e)' <=> Handled(e)
    BY <1>1 DEF Handled, CapAllows
<1>6. fallbacks \subseteq fallbacks' => \A e \in Range(RoundEvents') : Among(e, RoundEvents)
    BY <1>1, <1>2, ProposalsShrink DEF Among
<1>7. fallbacks' = fallbacks => RoundEvents' = RoundEvents
    <2> SUFFICES ASSUME fallbacks' = fallbacks
                 PROVE  RoundEvents' = RoundEvents
        OBVIOUS
    <2>1. \A b, n : Regular(b, n)' = Regular(b, n)
        BY <1>1, RulesAreStable DEF Regular
    <2>2. Proposed(CurrentBids, Solve(CurrentBids))' = Proposed(CurrentBids, Solve(CurrentBids))
        <3>1. Solve(CurrentBids)' = Solve(CurrentBids)
            BY <1>1, <1>3 DEF Solve
        <3>2. Proposed(CurrentBids, Solve(CurrentBids))' =
                  Regular(CurrentBids', Solve(CurrentBids)')
                  \o (IF policy.scarcity
                      THEN Scarcity(CurrentBids', Solve(CurrentBids)', attempted, fallbacks)
                      ELSE <<>>)
            BY <1>1, <2>1 DEF Proposed, Regular
        <3> QED
            BY <1>3, <3>1, <3>2 DEF Proposed
    <2> QED
        BY <2>2, RoundEventsAre
<1> QED
    BY <1>1, <1>2, <1>3, <1>4, <1>5, <1>6, <1>7 DEF SealedTypes

\* A list is its head and its tail.
LEMMA HeadAndTail ==
    ASSUME NEW S, NEW s \in Seq(S), s # <<>>
    PROVE  /\ Head(s) \in S /\ Head(s) \in Range(s) /\ Tail(s) \in Seq(S)
           /\ \A x \in Range(s) : x = Head(s) \/ x \in Range(Tail(s))
<1>1. /\ Len(s) \in Nat \ {0} /\ DOMAIN s = 1..Len(s) /\ Head(s) = s[1] /\ s[1] \in S
      /\ Tail(s) \in Seq(S) /\ Len(Tail(s)) = Len(s) - 1 /\ DOMAIN Tail(s) = 1..Len(s) - 1
      /\ \A k \in 1..Len(s) - 1 : Tail(s)[k] = s[k + 1]
    OBVIOUS
<1>2. ASSUME NEW k \in DOMAIN s, k # 1
      PROVE  s[k] \in Range(Tail(s))
    <2> DEFINE j == k - 1
    <2>1. j \in 1..Len(s) - 1 /\ j + 1 = k
        BY <1>1, <1>2
    <2> HIDE DEF j
    <2>2. Tail(s)[j] = s[k] /\ j \in DOMAIN Tail(s)
        BY <1>1, <2>1
    <2> QED
        BY <2>2 DEF Range
<1>3. \A x \in Range(s) : x = Head(s) \/ x \in Range(Tail(s))
    BY <1>1, <1>2 DEF Range
<1>4. Head(s) \in Range(s)
    BY <1>1 DEF Range
<1> QED
    BY <1>1, <1>3, <1>4

\* Recording round 0.
LEMMA RecordStaticKeeps == SealedIInv /\ RecordStatic => SealedIInv'
<1> SUFFICES ASSUME SealedIInv, RecordStatic
             PROVE  SealedIInv'
    OBVIOUS
<1> USE DEF SealedIInv
<1>1. Kept /\ fallbacks' = fallbacks
    BY DEF Kept, RecordStatic, fixed
<1>2. /\ SealedAsked' /\ CurrentBids' = CurrentBids /\ Recorded' = Recorded
      /\ TotalQueries(proxies)' = TotalQueries(proxies)
      /\ policy' \in Policies /\ truth' \in [Bidders -> Truths]
      /\ proxies' \in [Bidders -> Records] /\ attempted' \in [Bidders -> SUBSET Named]
    BY <1>1, KeptStable
<1>3. /\ Recorded \in Rows
      /\ Recorded.queries = TotalQueries(proxies) /\ TotalQueries(proxies) \in Nat
    BY RecordedIs
<1>4. /\ trajectory' \in Seq(Rows)
      /\ trajectory' # <<>> /\ Last(trajectory') = Recorded /\ Len(trajectory') = 1
    <2>1. trajectory' = <<Recorded>> /\ trajectory \in Seq(Rows)
        BY DEF RecordStatic, SealedTypes
    <2> QED
        BY <1>3, <2>1, LastOf
<1>5. stage' \in {"open", "done"} /\ events' = events /\ stage = "start"
    BY DEF RecordStatic
<1>6. SealedTypes'
    BY <1>2, <1>4, <1>5 DEF SealedTypes
<1>7. SealedRecords'
    <2>1. Last(trajectory').queries <= TotalQueries(proxies)'
        BY <1>2, <1>3, <1>4
    <2> QED
        BY <1>2, <1>4, <1>5, <2>1 DEF SealedRecords
<1>8. SealedRounds'
    <2>1. ~Quiet'
        BY <1>4 DEF Quiet
    <2> QED
        BY <1>5, <2>1 DEF SealedRounds
<1>9. SealedReasons'
    <2>1. reason = "none"
        BY <1>5 DEF SealedReasons
    <2>2. \/ stage' = "done" /\ reason' = "no_elicitation_rounds"
          \/ reason' = "none"
        BY <2>1 DEF RecordStatic
    <2> QED
        BY <2>2 DEF SealedReasons
<1> QED
    BY <1>2, <1>6, <1>7, <1>8, <1>9

\* Opening a round.
LEMMA OpenRoundKeeps == SealedIInv /\ OpenRound => SealedIInv'
<1> SUFFICES ASSUME SealedIInv, OpenRound
             PROVE  SealedIInv'
    OBVIOUS
<1> USE DEF SealedIInv
<1>1. Kept /\ fallbacks' = fallbacks
    BY DEF Kept, OpenRound, fixed
<1>2. /\ SealedAsked' /\ CurrentBids' = CurrentBids /\ Recorded' = Recorded
      /\ TotalQueries(proxies)' = TotalQueries(proxies)
      /\ policy' \in Policies /\ truth' \in [Bidders -> Truths]
      /\ proxies' \in [Bidders -> Records] /\ attempted' \in [Bidders -> SUBSET Named]
      /\ RoundEvents' = RoundEvents
    BY <1>1, KeptStable
<1>3. /\ stage = "open" /\ stage' = "feedback" /\ events' = RoundEvents
      /\ eligible' = (RoundEvents # <<>>) /\ trajectory' = trajectory /\ reason' = reason
    BY DEF OpenRound
<1>4. SealedTypes'
    BY <1>2, <1>3, RecordedIs DEF SealedTypes
<1>5. SealedRecords'
    BY <1>2, <1>3 DEF SealedRecords
<1>6. SealedRounds'
    <2>1. \A e \in Range(RoundEvents') : Among(e, events')
        BY <1>2, <1>3 DEF Among
    <2>2. ~eligible' => events' = <<>> /\ RoundEvents' = <<>>
        BY <1>2, <1>3
    <2> QED
        BY <1>3, <2>1, <2>2 DEF SealedRounds
<1>7. SealedReasons'
    BY <1>3 DEF SealedReasons
<1> QED
    BY <1>2, <1>4, <1>5, <1>6, <1>7

\* A cap blocks an event.
LEMMA BlockKeeps == SealedIInv /\ Block => SealedIInv'
<1> SUFFICES ASSUME SealedIInv, Block
             PROVE  SealedIInv'
    OBVIOUS
<1> USE DEF SealedIInv
<1>1. Kept /\ fallbacks' = fallbacks
    BY DEF Kept, Block, fixed
<1>2. /\ SealedAsked' /\ CurrentBids' = CurrentBids /\ Recorded' = Recorded
      /\ TotalQueries(proxies)' = TotalQueries(proxies)
      /\ policy' \in Policies /\ truth' \in [Bidders -> Truths]
      /\ proxies' \in [Bidders -> Records] /\ attempted' \in [Bidders -> SUBSET Named]
      /\ RoundEvents' = RoundEvents
      /\ \A e : Handled(e)' <=> Handled(e)
    BY <1>1, KeptStable
<1>3. /\ stage = "feedback" /\ stage' = "feedback" /\ events # <<>> /\ events' = Tail(events)
      /\ ~CapAllows(proxies, Head(events).bidder)
      /\ eligible' = eligible /\ trajectory' = trajectory /\ reason' = reason
    BY DEF Block
<1>4. events \in Seq(AptEvents(CurrentBids))
    BY DEF SealedTypes
<1>5. SealedTypes'
    <2>1. events' \in Seq(AptEvents(CurrentBids))
        BY <1>3, <1>4, HeadAndTail
    <2> QED
        BY <1>2, <1>3, <2>1 DEF SealedTypes
<1>6. SealedRecords'
    BY <1>2, <1>3 DEF SealedRecords
<1>7. SealedRounds'
    <2>1. eligible'
        BY <1>3 DEF SealedRounds
    <2>2. ASSUME NothingNew', NEW e \in Range(RoundEvents')
          PROVE  Handled(e)' \/ Among(e, events')
        <3>1. NothingNew
            BY <1>2, <1>3, <2>2 DEF NothingNew
        <3>2. Handled(e) \/ Among(e, events)
            BY <1>2, <1>3, <2>2, <3>1 DEF SealedRounds
        <3>3. CASE Among(e, events)
            <4>1. PICK d \in Range(events) : d.bidder = e.bidder /\ d.bundle = e.bundle
                BY <3>3 DEF Among
            <4>2. CASE d = Head(events)
                BY <1>2, <1>3, <4>1, <4>2 DEF Handled
            <4>3. CASE d \in Range(Tail(events))
                BY <1>3, <4>1, <4>3 DEF Among
            <4> QED
                BY <1>3, <1>4, <4>2, <4>3, HeadAndTail
        <3> QED
            BY <1>2, <3>2, <3>3
    <2> QED
        BY <1>3, <2>1, <2>2 DEF SealedRounds
<1>8. SealedReasons'
    BY <1>3 DEF SealedReasons
<1> QED
    BY <1>2, <1>5, <1>6, <1>7, <1>8

\* Feedback that finds its atom asked about before.
RepeatedFeedback ==
    /\ Kept /\ fallbacks \subseteq fallbacks'
    /\ AlreadyAsked(proxies[Head(events).bidder], Head(events).bundle)
    /\ events' = Tail(events)

\* Feedback that asks.
NewFeedback ==
    /\ AskedOf(proxies', attempted', Head(events).bidder, Head(events).bundle)
    /\ proxies' \in [Bidders -> Records] /\ attempted' \in [Bidders -> SUBSET Named]
    /\ \A j \in Bidders : /\ Recording(proxies'[j]) /\ attempted'[j] = proxies'[j].refined
                          /\ DOMAIN proxies'[j].bid = DOMAIN CurrentBids[j]
    /\ events' \in Seq(AptEvents(CurrentBids)')

\* Feedback is one or the other.
LEMMA FeedbackIs ==
    ASSUME SealedTypes, SealedAsked, Feedback
    PROVE  /\ RepeatedFeedback \/ NewFeedback
           /\ policy' = policy /\ truth' = truth /\ favoured' = favoured
           /\ Head(events).bidder \in Bidders
           /\ Head(events).bundle \in DOMAIN CurrentBids[Head(events).bidder]
<1> DEFINE e == Head(events)
           i == e.bidder
           b == e.bundle
           p == Refined(i, b)
           tried == attempted[i] \cup {b}
           large == /\ policy.followup /\ i \notin followed /\ e.type # "followup"
                    /\ p # proxies[i]
                    /\ IsLargeCorrection(proxies[i].bid[b], p.bid[b], policy.correction)
           neighbour == IF large THEN BestNeighbour(p.bid, b, tried) ELSE {}
<1>1. events \in Seq(AptEvents(CurrentBids)) /\ events # <<>>
    BY DEF SealedTypes, Feedback
<1>2. e \in AptEvents(CurrentBids) /\ Tail(events) \in Seq(AptEvents(CurrentBids))
    BY <1>1, HeadAndTail
<1>3. i \in Bidders /\ b \in DOMAIN CurrentBids[i] /\ b \in Named
    BY <1>2 DEF AptEvents
<1>4. /\ proxies' = [proxies EXCEPT ![i] = p] /\ attempted' = [attempted EXCEPT ![i] = tried]
      /\ fallbacks \subseteq fallbacks'
      /\ IF neighbour # {} THEN events' = Append(Tail(events), Event(i, neighbour, "followup"))
         ELSE events' = Tail(events)
      /\ policy' = policy /\ truth' = truth /\ favoured' = favoured
    BY DEF Feedback, fixed
<1>5. proxies[i] = proxies[i] /\ large => p # proxies[i]
    OBVIOUS
<1> HIDE DEF e, large
<1>6. /\ proxies' \in [Bidders -> Records] /\ attempted' \in [Bidders -> SUBSET Named]
      /\ \A j \in Bidders : /\ Recording(proxies'[j]) /\ attempted'[j] = proxies'[j].refined
                            /\ DOMAIN proxies'[j].bid = DOMAIN CurrentBids[j]
      /\ \/ /\ AlreadyAsked(proxies[i], b)
            /\ proxies' = proxies /\ attempted' = attempted /\ p = proxies[i]
         \/ AskedOf(proxies', attempted', i, b)
    <2> HIDE DEF i, b
    <2>1. attempted' = [attempted EXCEPT ![i] = @ \cup {b}]
        BY <1>4
    <2> HIDE DEF tried, p
    <2>2. proxies' = [proxies EXCEPT ![i] = Refined(i, b)]
        BY <1>4 DEF p
    <2>3. OnceAsked([proxies EXCEPT ![i] = Refined(i, b)],
                    [attempted EXCEPT ![i] = @ \cup {b}], i, b)
        BY <1>3, AskingIs
    <2>4. OnceAsked(proxies', attempted', i, b)
        BY <2>1, <2>2, <2>3
    <2>5. p = Refined(i, b)
        BY DEF p
    <2> QED
        BY <2>4, <2>5 DEF OnceAsked
<1>7. CASE AlreadyAsked(proxies[i], b) /\ proxies' = proxies /\ attempted' = attempted
           /\ p = proxies[i]
    <2>1. neighbour = {}
        BY <1>5, <1>7
    <2> HIDE DEF neighbour
    <2>2. events' = Tail(events)
        BY <1>4, <2>1
    <2>3. Kept
        BY <1>4, <1>7 DEF Kept
    <2>4. RepeatedFeedback
        BY <1>4, <1>7, <2>2, <2>3 DEF RepeatedFeedback, e
    <2> QED
        BY <1>3, <1>4, <2>4 DEF e
<1>8. CASE AskedOf(proxies', attempted', i, b)
    <2>1. CurrentBids' = [j \in Bidders |-> proxies'[j].bid]
        BY DEF CurrentBids
    <2>2. /\ CurrentBids' \in [Bidders -> Reports]
          /\ \A j \in Bidders : DOMAIN CurrentBids'[j] = DOMAIN CurrentBids[j]
        BY <1>6, <2>1, BidsAre
    <2>3. AptEvents(CurrentBids)' = AptEvents(CurrentBids)
        BY <2>2, SameApt DEF AptEvents
    <2>4. p.bid \in Reports /\ DOMAIN p.bid = DOMAIN CurrentBids[i]
        <3>1. proxies'[i] = p
            BY <1>3, <1>4 DEF SealedTypes
        <3> HIDE DEF p, i
        <3> QED
            BY <1>3, <1>6, <3>1 DEF Records
    <2>5. neighbour # {} => neighbour \in DOMAIN CurrentBids[i]
        <3> HIDE DEF p, i, b, tried
        <3> QED
            BY <1>3, <2>4, BestNeighbourIs
    <2> HIDE DEF neighbour, i
    <2>6. neighbour # {} => Event(i, neighbour, "followup") \in AptEvents(CurrentBids)
        BY <1>3, <2>5, EventIs, RecordedIs DEF Types
    <2>7. events' \in Seq(AptEvents(CurrentBids))
        BY <1>2, <1>4, <2>6
    <2>8. events' \in Seq(AptEvents(CurrentBids)')
        BY <2>3, <2>7
    <2>9. NewFeedback
        BY <1>6, <1>8, <2>8 DEF NewFeedback, e, i
    <2> QED
        BY <1>3, <1>4, <2>9 DEF e, i
<1> QED
    BY <1>6, <1>7, <1>8

\* Feedback.
LEMMA FeedbackKeeps == SealedIInv /\ Feedback => SealedIInv'
<1> SUFFICES ASSUME SealedIInv, Feedback
             PROVE  SealedIInv'
    OBVIOUS
<1> USE DEF SealedIInv
<1>1. /\ stage = "feedback" /\ stage' = "feedback" /\ events # <<>>
      /\ eligible' = eligible /\ trajectory' = trajectory /\ reason' = reason
    BY DEF Feedback
<1>2. eligible'
    BY <1>1 DEF SealedRounds
<1>3. events \in Seq(AptEvents(CurrentBids))
    BY DEF SealedTypes
<1>4. SealedReasons'
    BY <1>1 DEF SealedReasons
<1>5. CASE RepeatedFeedback
    <2>1. /\ SealedAsked' /\ CurrentBids' = CurrentBids /\ Recorded' = Recorded
          /\ TotalQueries(proxies)' = TotalQueries(proxies)
          /\ policy' \in Policies /\ truth' \in [Bidders -> Truths]
          /\ proxies' \in [Bidders -> Records] /\ attempted' \in [Bidders -> SUBSET Named]
          /\ \A e \in Range(RoundEvents') : Among(e, RoundEvents)
          /\ \A e : Handled(e)' <=> Handled(e)
        BY <1>5, KeptStable DEF RepeatedFeedback
    <2>2. events' = Tail(events) /\ AlreadyAsked(proxies[Head(events).bidder], Head(events).bundle)
        BY <1>5 DEF RepeatedFeedback
    <2>3. SealedTypes'
        <3>1. events' \in Seq(AptEvents(CurrentBids))
            BY <1>1, <1>3, <2>2, HeadAndTail
        <3> QED
            BY <1>1, <2>1, <3>1 DEF SealedTypes
    <2>4. SealedRecords'
        BY <1>1, <2>1 DEF SealedRecords
    <2>5. ASSUME NothingNew', NEW e \in Range(RoundEvents')
          PROVE  Handled(e)' \/ Among(e, events')
        <3>1. NothingNew
            BY <1>1, <2>1, <2>5 DEF NothingNew
        <3>2. PICK c \in Range(RoundEvents) : c.bidder = e.bidder /\ c.bundle = e.bundle
            BY <2>1 DEF Among
        <3>3. Handled(c) \/ Among(c, events)
            BY <1>1, <3>1 DEF SealedRounds
        <3>4. CASE Among(c, events)
            <4>1. PICK d \in Range(events) : d.bidder = e.bidder /\ d.bundle = e.bundle
                BY <3>2, <3>4 DEF Among
            <4>2. CASE d = Head(events)
                BY <2>1, <2>2, <4>1, <4>2 DEF Handled
            <4>3. CASE d \in Range(Tail(events))
                BY <2>2, <4>1, <4>3 DEF Among
            <4> QED
                BY <1>1, <1>3, <4>2, <4>3, HeadAndTail
        <3>5. CASE Handled(c)
            BY <2>1, <3>2, <3>5 DEF Handled
        <3> QED
            BY <3>3, <3>4, <3>5
    <2>6. SealedRounds'
        BY <1>1, <1>2, <2>5 DEF SealedRounds
    <2> QED
        BY <1>4, <2>1, <2>3, <2>4, <2>6
<1>6. CASE NewFeedback
    <2>1. policy' = policy /\ truth' = truth
        BY FeedbackIs
    <2>2. /\ proxies' \in [Bidders -> Records] /\ attempted' \in [Bidders -> SUBSET Named]
          /\ \A j \in Bidders : Recording(proxies'[j]) /\ attempted'[j] = proxies'[j].refined
          /\ events' \in Seq(AptEvents(CurrentBids)')
          /\ TotalQueries(proxies') = TotalQueries(proxies) + 1
        BY <1>6 DEF NewFeedback, AskedOf
    <2>3. SealedTypes'
        BY <1>1, <2>1, <2>2 DEF SealedTypes
    <2>4. SealedAsked'
        BY <2>2 DEF SealedAsked
    <2>5. /\ Last(trajectory).queries <= TotalQueries(proxies) /\ trajectory # <<>>
          /\ TotalQueries(proxies) \in Nat /\ Last(trajectory).queries \in Nat
        <3>1. Last(trajectory).queries <= TotalQueries(proxies) /\ trajectory # <<>>
            BY <1>1 DEF SealedRecords
        <3>2. trajectory \in Seq(Rows)
            BY DEF SealedTypes
        <3>3. Last(trajectory) \in Rows
            BY <3>1, <3>2 DEF Last
        <3> QED
            BY <3>1, <3>3, RecordedIs DEF Rows
    <2>6. SealedRecords'
        BY <1>1, <2>2, <2>5 DEF SealedRecords
    <2>7. ~NothingNew'
        BY <1>1, <2>2, <2>5 DEF NothingNew
    <2>8. SealedRounds'
        BY <1>1, <1>2, <2>7 DEF SealedRounds
    <2> QED
        BY <1>4, <2>3, <2>4, <2>6, <2>8
<1> QED
    BY <1>5, <1>6, FeedbackIs

\* The terminal audit asks.
Audited ==
    /\ policy.regret
    /\ \E i \in Bidders : \E b \in DOMAIN CurrentBids[i] :
          AskedOf(proxies', attempted', i, b)
    /\ proxies' \in [Bidders -> Records] /\ attempted' \in [Bidders -> SUBSET Named]
    /\ \A j \in Bidders : /\ Recording(proxies'[j]) /\ attempted'[j] = proxies'[j].refined
                          /\ DOMAIN proxies'[j].bid = DOMAIN CurrentBids[j]

\* The end of the feedback audits, or changes nothing.
LEMMA EndFeedbackIs ==
    ASSUME SealedTypes, SealedAsked, EndFeedback
    PROVE  (Kept /\ fallbacks' = fallbacks) \/ Audited
<1> DEFINE last == \/ round = policy.rounds
                   \/ policy.stopping = "no_new_refinements" /\ NothingNew
           pivot == PivotalEvent(CurrentBids, Solve(CurrentBids))
           found == IF policy.regret /\ last THEN pivot ELSE <<>>
           e == found[1]
<1>1. policy' = policy /\ truth' = truth /\ favoured' = favoured /\ fallbacks' = fallbacks
    BY DEF EndFeedback, fixed
<1>2. CASE found = <<>> \/ ~CapAllows(proxies, e.bidder)
    <2>1. proxies' = proxies /\ attempted' = attempted
        BY <1>2 DEF EndFeedback
    <2> QED
        BY <1>1, <2>1 DEF Kept
<1>3. CASE ~(found = <<>> \/ ~CapAllows(proxies, e.bidder))
    <2>1. /\ proxies' = [proxies EXCEPT ![e.bidder] = Refined(e.bidder, e.bundle)]
          /\ attempted' = [attempted EXCEPT ![e.bidder] = @ \cup {e.bundle}]
        BY <1>3 DEF EndFeedback
    <2>2. policy.regret /\ pivot # <<>> /\ found = pivot
        BY <1>3
    <2>3. Solve(CurrentBids) \in Feasible(CurrentBids) /\ CurrentBids \in [Bidders -> Reports]
        BY RecordedIs, SolveIs
    <2> HIDE DEF pivot
    <2>4. PICK d \in AptEvents(CurrentBids) : pivot = <<d>> /\ d.bundle \notin attempted[d.bidder]
        BY <2>2, <2>3, PivotalIs DEF pivot, SealedTypes
    <2>5. e = d
        BY <2>2, <2>4
    <2> DEFINE i == d.bidder
               b == d.bundle
    <2>6. i \in Bidders /\ b \in DOMAIN CurrentBids[i] /\ b \notin attempted[i]
        BY <2>4 DEF AptEvents
    <2> HIDE DEF found
    <2>7. /\ proxies' = [proxies EXCEPT ![i] = Refined(i, b)]
          /\ attempted' = [attempted EXCEPT ![i] = @ \cup {b}]
        BY <2>1, <2>5
    <2> HIDE DEF i, b
    <2>8. OnceAsked([proxies EXCEPT ![i] = Refined(i, b)],
                    [attempted EXCEPT ![i] = @ \cup {b}], i, b)
        BY <2>6, AskingIs
    <2>9. OnceAsked(proxies', attempted', i, b)
        BY <2>7, <2>8
    <2>10. attempted' # attempted
        <3>1. attempted'[i] = attempted[i] \cup {b}
            BY <2>6, <2>7 DEF SealedTypes
        <3> QED
            BY <2>6, <3>1
    <2> QED
        BY <2>2, <2>6, <2>9, <2>10 DEF OnceAsked, Audited
<1> QED
    BY <1>2, <1>3

\* The end of the feedback.
LEMMA EndFeedbackKeeps == SealedIInv /\ EndFeedback => SealedIInv'
<1> SUFFICES ASSUME SealedIInv, EndFeedback
             PROVE  SealedIInv'
    OBVIOUS
<1> USE DEF SealedIInv
<1>1. /\ stage = "feedback" /\ stage' = "record" /\ events = <<>> /\ events' = events
      /\ eligible' = eligible /\ trajectory' = trajectory /\ reason' = reason
      /\ policy' = policy /\ truth' = truth
    BY DEF EndFeedback, fixed
<1>2. SealedReasons'
    BY <1>1 DEF SealedReasons
<1>3. CASE Kept /\ fallbacks' = fallbacks
    <2>1. /\ SealedAsked' /\ CurrentBids' = CurrentBids /\ Recorded' = Recorded
          /\ TotalQueries(proxies)' = TotalQueries(proxies)
          /\ policy' \in Policies /\ truth' \in [Bidders -> Truths]
          /\ proxies' \in [Bidders -> Records] /\ attempted' \in [Bidders -> SUBSET Named]
          /\ RoundEvents' = RoundEvents
          /\ \A e : Handled(e)' <=> Handled(e)
        BY <1>3, KeptStable
    <2>2. SealedTypes'
        BY <1>1, <2>1 DEF SealedTypes
    <2>3. SealedRecords'
        BY <1>1, <2>1 DEF SealedRecords
    <2>4. ASSUME NothingNew', NEW e \in Range(RoundEvents')
          PROVE  Handled(e)'
        <3>1. NothingNew
            BY <1>1, <2>1, <2>4 DEF NothingNew
        <3>2. Handled(e) \/ Among(e, events)
            BY <1>1, <2>1, <2>4, <3>1 DEF SealedRounds
        <3>3. ~Among(e, events)
            BY <1>1 DEF Among, Range
        <3> QED
            BY <2>1, <3>2, <3>3
    <2>5. ~eligible' => events' = <<>> /\ (policy'.regret \/ RoundEvents' = <<>>)
        BY <1>1, <2>1 DEF SealedRounds
    <2>6. SealedRounds'
        BY <1>1, <2>4, <2>5 DEF SealedRounds
    <2> QED
        BY <1>2, <2>1, <2>2, <2>3, <2>6
<1>4. CASE Audited
    <2>1. /\ policy.regret
          /\ proxies' \in [Bidders -> Records] /\ attempted' \in [Bidders -> SUBSET Named]
          /\ \A j \in Bidders : /\ Recording(proxies'[j]) /\ attempted'[j] = proxies'[j].refined
                                /\ DOMAIN proxies'[j].bid = DOMAIN CurrentBids[j]
          /\ TotalQueries(proxies') = TotalQueries(proxies) + 1
        BY <1>4 DEF Audited, AskedOf
    <2>2. SealedTypes'
        BY <1>1, <2>1 DEF SealedTypes
    <2>3. SealedAsked'
        BY <2>1 DEF SealedAsked
    <2>4. /\ Last(trajectory).queries <= TotalQueries(proxies) /\ trajectory # <<>>
          /\ TotalQueries(proxies) \in Nat /\ Last(trajectory).queries \in Nat
        <3>1. Last(trajectory).queries <= TotalQueries(proxies) /\ trajectory # <<>>
            BY <1>1 DEF SealedRecords
        <3>2. trajectory \in Seq(Rows)
            BY DEF SealedTypes
        <3>3. Last(trajectory) \in Rows
            BY <3>1, <3>2 DEF Last
        <3> QED
            BY <3>1, <3>3, RecordedIs DEF Rows
    <2>5. SealedRecords'
        BY <1>1, <2>1, <2>4 DEF SealedRecords
    <2>6. ~NothingNew'
        BY <1>1, <2>1, <2>4 DEF NothingNew
    <2>7. SealedRounds'
        BY <1>1, <2>1, <2>6 DEF SealedRounds
    <2> QED
        BY <1>2, <2>2, <2>3, <2>5, <2>7
<1> QED
    BY <1>3, <1>4, EndFeedbackIs

\* Recording a round.
LEMMA RecordRoundKeeps == SealedIInv /\ RecordRound => SealedIInv'
<1> SUFFICES ASSUME SealedIInv, RecordRound
             PROVE  SealedIInv'
    OBVIOUS
<1> USE DEF SealedIInv
<1>1. Kept /\ fallbacks' = fallbacks
    BY DEF Kept, RecordRound, fixed
<1>2. /\ SealedAsked' /\ CurrentBids' = CurrentBids /\ Recorded' = Recorded
      /\ TotalQueries(proxies)' = TotalQueries(proxies)
      /\ policy' \in Policies /\ truth' \in [Bidders -> Truths]
      /\ proxies' \in [Bidders -> Records] /\ attempted' \in [Bidders -> SUBSET Named]
      /\ RoundEvents' = RoundEvents
      /\ \A e : Handled(e)' <=> Handled(e)
    BY <1>1, KeptStable
<1>3. /\ stage = "record" /\ stage' \in {"open", "done"} /\ events = <<>> /\ events' = events
      /\ trajectory' = Append(trajectory, Recorded) /\ policy' = policy
    BY DEF RecordRound, SealedRounds, fixed
<1>4. /\ Recorded \in Rows /\ trajectory \in Seq(Rows) /\ trajectory # <<>>
      /\ Recorded.queries = TotalQueries(proxies) /\ TotalQueries(proxies) \in Nat
    BY <1>3, RecordedIs DEF SealedTypes, SealedRecords
<1>5. /\ trajectory' \in Seq(Rows) /\ trajectory' # <<>> /\ Last(trajectory') = Recorded
      /\ Len(trajectory') = Len(trajectory) + 1 /\ Len(trajectory) \in Nat \ {0}
      /\ trajectory'[Len(trajectory)] = Last(trajectory)
      /\ trajectory'[Len(trajectory) + 1] = Recorded
    <2>1. Extended(Append(trajectory, Recorded), trajectory, Recorded, Rows)
        BY <1>4, LastOf
    <2>2. Extended(trajectory', trajectory, Recorded, Rows)
        BY <1>3, <2>1
    <2> QED
        BY <1>4, <2>2 DEF Extended
<1>6. SealedTypes'
    BY <1>2, <1>3, <1>5 DEF SealedTypes
<1>7. SealedRecords'
    BY <1>2, <1>3, <1>4, <1>5 DEF SealedRecords
<1>8. Quiet' <=> NothingNew
    <2> DEFINE n == Len(trajectory')
    <2>1. n > 1 /\ n - 1 = Len(trajectory) /\ n = Len(trajectory) + 1
        BY <1>5
    <2>2. Quiet' <=> n > 1 /\ trajectory'[n].queries = trajectory'[n - 1].queries
        BY DEF Quiet
    <2> HIDE DEF n
    <2> QED
        BY <1>4, <1>5, <2>1, <2>2 DEF NothingNew
<1>9. SealedRounds'
    <2>1. ASSUME Quiet', NEW e \in Range(RoundEvents')
          PROVE  Handled(e)'
        <3>1. NothingNew
            BY <1>8, <2>1
        <3>2. Handled(e) \/ Among(e, events)
            BY <1>2, <1>3, <2>1, <3>1 DEF SealedRounds
        <3>3. ~Among(e, events)
            BY <1>3 DEF Among, Range
        <3> QED
            BY <1>2, <3>2, <3>3
    <2> QED
        BY <1>3, <2>1 DEF SealedRounds
<1>10. SealedReasons'
    <2>1. reason = "none"
        BY <1>3 DEF SealedReasons
    <2>2. CASE Converged
        <3>1. stage' = "done"
            BY <2>2 DEF RecordRound
        <3>2. reason' = IF blocked > 0 THEN "refinement_cap_reached"
                        ELSE IF policy.feedback = "competitive" THEN "no_eligible_refinements"
                        ELSE "no_new_refinements"
            BY <2>2 DEF RecordRound
        <3>3. CASE reason' = "no_eligible_refinements"
            <4>1. policy.feedback = "competitive"
                BY <3>2, <3>3
            <4>2. ~eligible
                BY <2>2, <4>1 DEF Converged
            <4>3. policy.regret \/ RoundEvents = <<>>
                BY <1>3, <4>2 DEF SealedRounds
            <4> QED
                BY <1>2, <1>3, <3>1, <3>3, <4>1, <4>3 DEF SealedReasons
        <3>4. CASE reason' = "no_new_refinements"
            <4>1. policy.feedback # "competitive"
                BY <3>2, <3>4
            <4>2. NothingNew
                BY <2>2, <4>1 DEF Converged
            <4> QED
                BY <1>8, <3>1, <3>4, <4>2 DEF SealedReasons
        <3>5. CASE reason' = "refinement_cap_reached"
            BY <3>1, <3>5 DEF SealedReasons
        <3> QED
            BY <3>2, <3>3, <3>4, <3>5
    <2>3. CASE ~Converged
        <3>1. \/ stage' = "done" /\ reason' = "max_rounds_reached"
              \/ reason' = "none"
            BY <2>1, <2>3 DEF RecordRound
        <3> QED
            BY <3>1 DEF SealedReasons
    <2> QED
        BY <2>2, <2>3
<1> QED
    BY <1>2, <1>6, <1>7, <1>9, <1>10

\* Every step keeps the invariant.
LEMMA SealedNext == SealedIInv /\ [Next]_vars => SealedIInv'
<1>1. SealedIInv /\ UNCHANGED vars => SealedIInv'
    <2> SUFFICES ASSUME SealedIInv, UNCHANGED vars
                 PROVE  SealedIInv'
        OBVIOUS
    <2> USE DEF SealedIInv
    <2>1. Kept /\ fallbacks' = fallbacks
        BY DEF Kept, vars
    <2>2. /\ SealedAsked' /\ CurrentBids' = CurrentBids /\ Recorded' = Recorded
          /\ TotalQueries(proxies)' = TotalQueries(proxies)
          /\ policy' \in Policies /\ truth' \in [Bidders -> Truths]
          /\ proxies' \in [Bidders -> Records] /\ attempted' \in [Bidders -> SUBSET Named]
          /\ RoundEvents' = RoundEvents
          /\ \A e : Handled(e)' <=> Handled(e)
        BY <2>1, KeptStable
    <2>3. /\ stage' = stage /\ events' = events /\ trajectory' = trajectory
          /\ eligible' = eligible /\ reason' = reason /\ policy' = policy
        BY DEF vars
    <2>4. (Quiet' <=> Quiet) /\ (NothingNew' <=> NothingNew)
        BY <2>2, <2>3 DEF Quiet, NothingNew
    <2>5. SealedTypes' /\ SealedRecords' /\ SealedReasons'
        BY <2>2, <2>3, <2>4 DEF SealedTypes, SealedRecords, SealedReasons
    <2>6. SealedRounds'
        BY <2>2, <2>3, <2>4 DEF SealedRounds
    <2> QED
        BY <2>2, <2>5, <2>6
<1> QED
    BY <1>1, RecordStaticKeeps, OpenRoundKeeps, BlockKeeps, FeedbackKeeps, EndFeedbackKeeps,
       RecordRoundKeeps DEF Next, Returned

\* The invariant holds in every reachable state.
THEOREM SealedInvariant == Spec => []SealedIInv
BY SealedInit, SealedNext, PTL DEF Spec

-----------------------------------------------------------------------------
(* The properties.                                                         *)

\* What was attempted is what was asked (AttemptedIsAsked).
THEOREM AttemptedBooksAgree == Spec => []AttemptedIsAsked
<1>1. SealedIInv => AttemptedIsAsked
    BY DEF SealedIInv, SealedAsked, Recording, AttemptedIsAsked
<1> QED
    BY <1>1, SealedInvariant, PTL

\* In a round without events the competitive rule has nothing left to ask, for any
\* bidder and any bundle it wins or is exposed to (FrontierIsVerified).
THEOREM FrontierWasQueried == Spec => []FrontierIsVerified
<1>1. SealedIInv => FrontierIsVerified
    <2> SUFFICES ASSUME SealedIInv, reason = "no_eligible_refinements", policy.incumbents,
                        ~policy.regret, NEW i \in Bidders
                 PROVE  LET now == Last(trajectory).allocation
                        IN  (Range(Frontier(CurrentBids, now, i)) \cup {now[i]}) \ {{}}
                                \subseteq proxies[i].refined
        BY DEF FrontierIsVerified
    <2> USE DEF SealedIInv
    <2> DEFINE bids == CurrentBids
               now == Solve(bids)
               all == Frontier(bids, now, i)
               ks == {k \in DOMAIN all : all[k] \notin attempted[i]}
               ahead == Picked(all, ks)
    <2>1. policy.feedback = "competitive" /\ RoundEvents = <<>> /\ stage = "done"
        BY DEF SealedReasons
    <2>2. Last(trajectory).allocation = now
        BY <2>1, RecordedIs DEF SealedRecords
    <2>3. bids \in [Bidders -> Reports] /\ now \in Feasible(bids)
        BY RecordedIs, SolveIs
    <2>4. attempted[i] = proxies[i].refined
        BY DEF SealedAsked
    <2>5. /\ \A e \in Range(Proposed(bids, now)) : \E d \in Range(RoundEvents) :
                d.bidder = e.bidder /\ d.bundle = e.bundle
          /\ Range(ProvisionalEvents(bids, now, i)) \subseteq Range(Proposed(bids, now))
          /\ ProvisionalEvents(bids, now, i) \in Seq(AptEvents(bids))
        <3>1. policy \in Policies
            BY DEF SealedTypes
        <3> QED
            BY <2>3, <3>1, RoundEventsIs, ProposedIs, ProvisionalIs
    <2> HIDE DEF bids, now
    <2>6. Range(ProvisionalEvents(bids, now, i)) = {}
        BY <2>1, <2>5 DEF Range
    <2>7. ProvisionalEvents(bids, now, i) = <<>>
        <3>1. ProvisionalEvents(bids, now, i) # <<>> =>
                  1 \in DOMAIN ProvisionalEvents(bids, now, i)
            BY <2>5
        <3> QED
            BY <2>6, <3>1 DEF Range
    <2>8. ProvisionalEvents(bids, now, i) =
              IF now[i] # {} /\ now[i] \notin attempted[i]
              THEN <<Event(i, now[i], "allocated_bundle")>>
              ELSE NextOnFrontier(bids, now, i)
        BY <2>1 DEF ProvisionalEvents
    <2>9. now[i] = {} \/ now[i] \in attempted[i]
        BY <2>7, <2>8
    <2>10. NextOnFrontier(bids, now, i) = <<>>
        BY <2>7, <2>8, <2>9
    <2>11. NextOnFrontier(bids, now, i) =
               IF ahead = <<>> THEN <<>> ELSE <<Event(i, ahead[1], "frontier")>>
        BY DEF NextOnFrontier
    <2>12. all \in Seq(DOMAIN bids[i]) /\ ks \in SUBSET DOMAIN all
        BY <2>3, FrontierIs
    <2> HIDE DEF all
    <2>13. ks = {}
        <3> HIDE DEF ks
        <3>1. ahead = <<>> <=> ks = {}
            BY <2>12, PickedSeq
        <3> HIDE DEF ahead
        <3> QED
            BY <2>10, <2>11, <3>1
    <2>14. Range(all) \subseteq attempted[i]
        BY <2>13 DEF Range
    <2> QED
        BY <2>2, <2>4, <2>9, <2>14 DEF all, bids
<1> QED
    BY <1>1, SealedInvariant, PTL

\* A round that asked nothing would ask nothing again (StopsAtFixpoint).
THEOREM StoppingLosesNothing == Spec => []StopsAtFixpoint
<1>1. SealedIInv => StopsAtFixpoint
    <2> SUFFICES ASSUME SealedIInv,
                        \/ Quiet /\ stage \in {"open", "done"}
                        \/ /\ reason \in {"no_new_refinements", "no_eligible_refinements"}
                           /\ policy.feedback = "competitive" => ~policy.regret
                 PROVE  \A e \in Range(RoundEvents) : Handled(e)
        BY DEF StopsAtFixpoint, Handled
    <2> USE DEF SealedIInv
    <2>1. CASE Quiet /\ stage \in {"open", "done"}
        BY <2>1 DEF SealedRounds
    <2>2. CASE reason = "no_new_refinements"
        BY <2>2 DEF SealedReasons, SealedRounds
    <2>3. CASE reason = "no_eligible_refinements" /\ ~policy.regret
        <3>1. RoundEvents = <<>>
            BY <2>3 DEF SealedReasons
        <3> QED
            BY <3>1 DEF Range
    <2>4. reason = "no_eligible_refinements" => policy.feedback = "competitive"
        BY DEF SealedReasons
    <2> QED
        BY <2>1, <2>2, <2>3, <2>4
<1> QED
    BY <1>1, SealedInvariant, PTL

-----------------------------------------------------------------------------
(* The auction that is implemented.                                        *)

\* What an answered question leaves alone.
Unresolved ==
    /\ truth' = truth /\ trajectory' = trajectory
    /\ stage # "done" /\ stage' # "done"

\* An answered question is a question of the auction.
LEMMA AnswersAreQuestions ==
    ASSUME SealedTypes, SealedAsked, SealedAsked', Unresolved,
           proxies' \in [Bidders -> Records], attempted' \in [Bidders -> SUBSET Named],
           \A j \in Bidders : DOMAIN proxies'[j].bid = DOMAIN CurrentBids[j],
           NEW i \in Bidders, NEW b \in DOMAIN CurrentBids[i],
           AskedOf(proxies', attempted', i, b)
    PROVE  Auction!Next
<1>1. /\ CurrentBids \in [Bidders -> Reports] /\ CurrentBids' \in [Bidders -> Reports]
      /\ \A j \in Bidders : CurrentBids'[j] = proxies'[j].bid
    BY BidsAre DEF SealedTypes, CurrentBids
<1>2. \A j \in Bidders : attempted[j] = proxies[j].refined /\ attempted'[j] = proxies'[j].refined
    BY DEF SealedAsked
<1>3. /\ b \notin attempted[i] /\ attempted'[i] = attempted[i] \cup {b}
      /\ \A j \in Bidders \ {i} : /\ proxies'[j] = proxies[j]
                                  /\ attempted'[j] = attempted[j]
      /\ proxies'[i].bid[b] = truth[i][b]
      /\ \A c \in DOMAIN CurrentBids[i] \ {b} :
            /\ proxies'[i].bid[c] >= CurrentBids[i][c]
            /\ \E a \in DOMAIN CurrentBids[i] :
                  a \subseteq c /\ proxies'[i].bid[c] \in {CurrentBids[i][a], truth[i][b]}
    BY DEF AskedOf
<1>4. [j \in Bidders |-> proxies[j].refined]' =
          [[j \in Bidders |-> proxies[j].refined] EXCEPT ![i] = @ \cup {b}]
    BY <1>2, <1>3
<1>5. \A j \in Bidders \ {i} : CurrentBids'[j] = CurrentBids[j]
    BY <1>1, <1>3 DEF CurrentBids
<1>6. DOMAIN CurrentBids'[i] = DOMAIN CurrentBids[i]
    BY <1>1
<1>7. \A c \in DOMAIN CurrentBids[i] \ {b} :
         \/ CurrentBids'[i][c] = CurrentBids[i][c]
         \/ /\ CurrentBids'[i][c] > CurrentBids[i][c]
            /\ \E a \in DOMAIN CurrentBids[i] :
                  a \subseteq c /\ CurrentBids'[i][c] \in {CurrentBids[i][a], truth[i][b]}
    <2> SUFFICES ASSUME NEW c \in DOMAIN CurrentBids[i] \ {b}
                 PROVE  \/ CurrentBids'[i][c] = CurrentBids[i][c]
                        \/ CurrentBids'[i][c] > CurrentBids[i][c]
        BY <1>1, <1>3
    <2>1. CurrentBids'[i][c] \in Nat /\ CurrentBids[i][c] \in Nat
        BY <1>1, <1>6 DEF Reports
    <2>2. CurrentBids'[i][c] >= CurrentBids[i][c]
        BY <1>1, <1>3
    <2>3. \A x, y \in Nat : x >= y => x = y \/ x > y
        OBVIOUS
    <2> QED
        BY <2>1, <2>2, <2>3, Zenon
<1>8. b \in DOMAIN CurrentBids[i] \ [j \in Bidders |-> proxies[j].refined][i]
    BY <1>2, <1>3
<1>9. CurrentBids'[i][b] = truth[i][b]
    BY <1>1, <1>3
<1>10. Auction!Question(i, b)
    <2>1. UNCHANGED <<truth, IF trajectory = <<>> THEN "none" ELSE Last(trajectory).allocation,
                      stage # "done">>
        BY DEF Unresolved
    <2>2. stage # "done"
        BY DEF Unresolved
    <2> QED
        BY <1>4, <1>5, <1>6, <1>7, <1>8, <1>9, <2>1, <2>2 DEF Auction!Question
<1> QED
    BY <1>10 DEF Auction!Next

\* The auction is resolved by the same winner determination.
LEMMA SameOptima == \A p : Auction!Optima(p) = Optima(p)
<1>1. \A f : Auction!SumFunction(f) = SumFunction(f)
    BY DEF Auction!SumFunction, SumFunction, Auction!SumFunctionOnSet, SumFunctionOnSet,
           Auction!FoldFunctionOnSet, FoldFunctionOnSet, Auction!MapThenFoldSet, MapThenFoldSet
<1>2. \A p, a : Auction!Welfare(p, a) = Welfare(p, a)
    BY <1>1 DEF Auction!Welfare, Welfare, Auction!AtomValue, AtomValue
<1>3. \A p : Auction!Feasible(p) = Feasible(p)
    BY DEF Auction!Feasible, Feasible, Auction!Disjoint, Disjoint
<1>4. \A S : Auction!Max(S) = Max(S)
    BY DEF Auction!Max, Max
<1> QED
    BY <1>2, <1>3, <1>4 DEF Auction!Optima, Optima

\* A recorded round is a result of the auction.
LEMMA RecordsAreResults ==
    ASSUME SealedTypes, Kept, stage # "done", trajectory' # <<>>, Last(trajectory') = Recorded
    PROVE  Auction!Next
<1>1. CurrentBids' = CurrentBids
    BY DEF Kept, CurrentBids
<1>2. Recorded.allocation \in Optima(CurrentBids)
    BY RecordedIs, SolveIs
<1>3. truth' = truth
      /\ [j \in Bidders |-> proxies[j].refined]' = [j \in Bidders |-> proxies[j].refined]
    BY DEF Kept
<1>4. Auction!Resolve
    BY <1>1, <1>2, <1>3, SameOptima DEF Auction!Resolve
<1> QED
    BY <1>4 DEF Auction!Next

\* A step that asks nothing and records nothing changes nothing of the auction.
LEMMA OthersStutter ==
    ASSUME Kept, trajectory' = trajectory, (stage' = "done") = (stage = "done")
    PROVE  UNCHANGED Auction!auction
<1>1. CurrentBids' = CurrentBids
    BY DEF Kept, CurrentBids
<1>2. truth' = truth /\ proxies' = proxies
    BY DEF Kept
<1> QED
    BY <1>1, <1>2 DEF Auction!auction

\* The runner keeps the promise of an elicited auction: bids change only by the answer
\* to a question not asked before, and every recorded allocation is optimal for the
\* bids as last corrected (ImplementsAuction).
THEOREM RunnerImplementsAuction == Spec => ImplementsAuction
<1>1. Init => Auction!Init
    <2> SUFFICES ASSUME Init
                 PROVE  Auction!Init
        OBVIOUS
    <2>1. \A i \in Bidders : proxies[i].refined = {}
        BY FreshIs DEF Init
    <2>2. trajectory = <<>> /\ stage # "done"
        BY DEF Init
    <2> QED
        BY <2>1, <2>2 DEF Auction!Init
<1>2. SealedIInv /\ SealedIInv' /\ [Next]_vars => [Auction!Next]_(Auction!auction)
    <2> SUFFICES ASSUME SealedIInv, SealedIInv', [Next]_vars
                 PROVE  Auction!Next \/ UNCHANGED Auction!auction
        OBVIOUS
    <2> USE DEF SealedIInv
    <2>1. CASE RecordStatic
        <3>1. Kept /\ stage # "done" /\ trajectory' = <<Recorded>>
            BY <2>1 DEF RecordStatic, Kept, fixed
        <3>2. Recorded \in Rows /\ trajectory \in Seq(Rows)
            BY RecordedIs DEF SealedTypes
        <3>3. trajectory' # <<>> /\ Last(trajectory') = Recorded
            BY <3>1, <3>2, LastOf
        <3> QED
            BY <3>1, <3>3, RecordsAreResults
    <2>2. CASE RecordRound
        <3>1. Kept /\ stage # "done" /\ trajectory' = Append(trajectory, Recorded)
            BY <2>2 DEF RecordRound, Kept, fixed
        <3>2. Recorded \in Rows /\ trajectory \in Seq(Rows)
            BY RecordedIs DEF SealedTypes
        <3>3. Extended(trajectory', trajectory, Recorded, Rows)
            BY <3>1, <3>2, LastOf
        <3> QED
            BY <3>1, <3>3, RecordsAreResults DEF Extended
    <2>3. CASE Feedback
        <3>1. stage = "feedback" /\ stage' = stage /\ trajectory' = trajectory
            BY <2>3 DEF Feedback
        <3>2. CASE RepeatedFeedback
            BY <3>1, <3>2, OthersStutter DEF RepeatedFeedback
        <3>3. CASE NewFeedback
            <4>1. Unresolved
                BY <2>3, <3>1, FeedbackIs DEF Unresolved
            <4> QED
                BY <2>3, <3>3, <4>1, FeedbackIs, AnswersAreQuestions DEF NewFeedback
        <3> QED
            BY <2>3, <3>2, <3>3, FeedbackIs
    <2>4. CASE EndFeedback
        <3>1. stage = "feedback" /\ stage' = "record" /\ trajectory' = trajectory
              /\ truth' = truth
            BY <2>4 DEF EndFeedback, fixed
        <3>2. CASE Kept
            BY <3>1, <3>2, OthersStutter
        <3>3. CASE Audited
            <4>1. Unresolved
                BY <3>1 DEF Unresolved
            <4> QED
                BY <3>3, <4>1, AnswersAreQuestions DEF Audited
        <3> QED
            BY <2>4, <3>2, <3>3, EndFeedbackIs
    <2>5. CASE OpenRound \/ Block \/ Returned \/ UNCHANGED vars
        <3>1. Kept /\ trajectory' = trajectory /\ (stage' = "done") = (stage = "done")
            BY <2>5 DEF OpenRound, Block, Returned, vars, fixed, Kept
        <3> QED
            BY <3>1, OthersStutter
    <2> QED
        BY <2>1, <2>2, <2>3, <2>4, <2>5 DEF Next
<1> QED
    BY <1>1, <1>2, SealedInvariant, PTL DEF Spec, ImplementsAuction, Auction!Spec
=============================================================================
