--------------------------- MODULE SealedBidProofs ---------------------------
(***************************************************************************)
(* Theorems about a sealed bid, from the proxy that forms it to the        *)
(* auction that prices it.  First the sealed VCG auction, for any number   *)
(* of bidders, any finite bids of natural values and any choice among tied *)
(* optima: no payment is negative, none exceeds the reported value, and    *)
(* truth is dominant.  Then one bidder's proxy refined by events in any    *)
(* order, for any finite set of items, any answers, prices and number of   *)
(* events.                                                                 *)
(***************************************************************************)
EXTENDS SealedVcg, ProxyRefinement, AuctionLemmas

-----------------------------------------------------------------------------
(* The auction.                                                            *)

\* The reported profile is one, whatever the bidders report.
Reported == bids = [i \in Bidders |-> bids[i]] /\ \A i \in Bidders : bids[i] \in Reports(i)

\* What the payment of i is computed from.
Raw(i) == RawPayment(bids, full, Welfare(bids, full), OptWelfare(Without(bids, i)), i)

\* The inductive invariant: once the full problem is solved `full` is optimal for the
\* reports, and the bidders of the order priced so far pay their raw externality.
VcgIInv ==
    /\ Reported
    /\ phase \in {"solve", "price", "done"}
    /\ next \in 1..Len(Order) + 1
    /\ phase = "solve" => next = 1
    /\ phase = "done" => next = Len(Order) + 1
    /\ phase # "solve" => full \in Optima(bids)
    /\ DOMAIN payments = {Order[k] : k \in 1..next - 1}
    /\ \A i \in DOMAIN payments : payments[i] = Raw(i)

\* The order lists finitely many bidders, each at some position.
LEMMA OrderFacts ==
    /\ Len(Order) \in Nat
    /\ DOMAIN Order = 1..Len(Order)
    /\ Bidders = {Order[k] : k \in 1..Len(Order)}
    /\ IsFiniteSet(Bidders)
<1>1. Len(Order) \in Nat /\ DOMAIN Order = 1..Len(Order)
    BY OrderAssumption
<1>2. Bidders = {Order[k] : k \in 1..Len(Order)}
    BY <1>1 DEF Bidders, Range
<1>3. IsFiniteSet(1..Len(Order))
    BY <1>1, FS_Interval
<1> QED
    BY <1>1, <1>2, <1>3, FiniteImage

\* Reported bids are a profile, and so they are when one bidder reports otherwise.
LEMMA ReportsAreProfiles ==
    ASSUME NEW q, q = [i \in Bidders |-> q[i]], \A i \in Bidders : q[i] \in Reports(i)
    PROVE  /\ IsProfile(q)
           /\ DOMAIN q = Bidders
           /\ \A i \in Bidders : DOMAIN q[i] = Named[i]
<1>1. DOMAIN q = Bidders
    OBVIOUS
<1>2. \A i \in Bidders : DOMAIN q[i] = Named[i] /\ q[i] \in [DOMAIN q[i] -> Nat]
    BY ValuesAssumption DEF Reports
<1>3. \A i \in Bidders : IsBid(q[i])
    BY <1>2, NamedAssumption DEF IsBid
<1> QED
    BY <1>1, <1>2, <1>3, OrderFacts DEF IsProfile

\* Before the full problem is solved nobody is priced.
LEMMA VcgIInvInit == VcgInit => VcgIInv
<1> SUFFICES ASSUME VcgInit
             PROVE  VcgIInv
    OBVIOUS
<1>1. Reported
    BY DEF VcgInit, Reported
<1>2. next = 1 /\ phase = "solve" /\ DOMAIN payments = {}
    BY DEF VcgInit, Nothing
<1>3. {Order[k] : k \in 1..next - 1} = {}
    BY <1>2
<1> QED
    BY <1>1, <1>2, <1>3, OrderFacts DEF VcgIInv

\* Every step preserves the invariant: no externality it computes is negative.
LEMMA VcgIInvStep == VcgIInv /\ [VcgNext]_vcgVars => VcgIInv'
<1> SUFFICES ASSUME VcgIInv, [VcgNext]_vcgVars
             PROVE  VcgIInv'
    OBVIOUS
<1>1. CASE Solve
    <2>1. full' \in Optima(bids) /\ bids' = bids /\ phase' = "price" /\ next' = next
          /\ payments' = payments /\ next = 1
        BY <1>1 DEF Solve, VcgIInv
    <2>2. DOMAIN payments = {}
        BY <2>1 DEF VcgIInv
    <2> QED
        BY <2>1, <2>2 DEF VcgIInv, Reported, Raw
<1>2. CASE Price
    <2> DEFINE i == Order[next]
    <2>1. next \in 1..Len(Order) /\ i \in Bidders /\ Raw(i) \in Nat
        <3>1. next \in 1..Len(Order)
            BY <1>2, OrderFacts DEF Price, VcgIInv
        <3>2. i \in Bidders
            BY <3>1, OrderFacts
        <3>3. IsProfile(bids) /\ DOMAIN bids = Bidders /\ full \in Optima(bids)
            BY <1>2, ReportsAreProfiles DEF VcgIInv, Price, Reported
        <3> HIDE DEF i
        <3> QED
            BY <3>1, <3>2, <3>3, RawPaymentBounds DEF Raw
    <2>2. payments' = Stored(payments, i, Max({Raw(i), 0})) /\ phase' = "price"
        BY <1>2, <2>1 DEF Price, Raw
    <2>3. Max({Raw(i), 0}) = Raw(i)
        <3>1. {Raw(i), 0} \subseteq Int /\ \A y \in {Raw(i), 0} : y <= Raw(i)
            BY <2>1
        <3> QED
            BY <3>1, MaxIs
    <2>4. /\ DOMAIN payments' = DOMAIN payments \cup {i}
          /\ payments'[i] = Raw(i)
          /\ \A j \in DOMAIN payments : j # i => payments'[j] = payments[j]
        <3> HIDE DEF i
        <3> QED
            BY <2>2, <2>3 DEF Stored
    <2>5. bids' = bids /\ full' = full /\ next' = next + 1 /\ \A j : Raw(j)' = Raw(j)
        BY <1>2 DEF Price, Raw
    <2>6. {Order[k] : k \in 1..next' - 1} = {Order[k] : k \in 1..next - 1} \cup {i}
        BY <2>1, <2>5
    <2>7. DOMAIN payments' = {Order[k] : k \in 1..next' - 1}
        BY <2>4, <2>6 DEF VcgIInv
    <2>8. \A j \in DOMAIN payments' : payments'[j] = Raw(j)'
        BY <2>4, <2>5 DEF VcgIInv
    <2>9. full \in Optima(bids) /\ next' \in 1..Len(Order) + 1
        BY <1>2, <2>1, <2>5, OrderFacts DEF VcgIInv, Price
    <2> QED
        BY <2>2, <2>5, <2>7, <2>8, <2>9 DEF VcgIInv, Reported
<1>3. CASE Finish
    <2>1. next = Len(Order) + 1
        BY <1>3, OrderFacts DEF Finish, VcgIInv
    <2> QED
        BY <1>3, <2>1 DEF Finish, VcgIInv, Reported, Raw
<1>4. CASE UNCHANGED vcgVars
    BY <1>4 DEF vcgVars, VcgIInv, Reported, Raw
<1> QED
    BY <1>1, <1>2, <1>3, <1>4 DEF VcgNext

\* The invariant holds in every state of the auction.
THEOREM VcgInvariant == VcgSpec => []VcgIInv
BY VcgIInvInit, VcgIInvStep, PTL DEF VcgSpec

\* The error branch for a negative payment is never taken.
THEOREM PaymentsNeverRaise == VcgSpec => []NeverRaises
<1>1. VcgIInv => NeverRaises
    BY DEF VcgIInv, NeverRaises
<1> QED
    BY <1>1, VcgInvariant, PTL

\* Nobody ever pays more than the value its bid puts on what it won.
THEOREM PaymentsAreRational == VcgSpec => []IndividuallyRational
<1>1. VcgIInv => IndividuallyRational
    <2> SUFFICES ASSUME VcgIInv, NEW i \in DOMAIN payments
                 PROVE  payments[i] <= ValueOf(bids[i], full[i])
        BY DEF IndividuallyRational
    <2>1. i \in Bidders
        BY OrderFacts DEF VcgIInv
    <2>2. phase # "solve"
        BY DEF VcgIInv
    <2>3. IsProfile(bids) /\ DOMAIN bids = Bidders /\ full \in Optima(bids)
        BY <2>2, ReportsAreProfiles DEF VcgIInv, Reported
    <2>4. payments[i] = Raw(i)
        BY DEF VcgIInv
    <2> QED
        BY <2>1, <2>3, <2>4, RawPaymentBounds DEF Raw
<1> QED
    BY <1>1, VcgInvariant, PTL

\* Reporting the truth is a dominant strategy in every outcome.
THEOREM TruthDominates == VcgSpec => []TruthIsDominant
<1>1. VcgIInv => TruthIsDominant
    <2> SUFFICES ASSUME VcgIInv, phase = "done", NEW i \in Bidders, NEW dev \in Reports(i),
                        NEW a \in Optima([bids EXCEPT ![i] = dev])
                 PROVE  UtilityOf(i, bids[i], dev, a)
                            <= ValueOf(bids[i], full[i]) - payments[i]
        BY DEF TruthIsDominant
    <2> DEFINE reported == [bids EXCEPT ![i] = dev]
               rest     == OptWelfare(Without(bids, i))
               others   == Welfare(Without(bids, i), a)
    <2>1. /\ IsProfile(bids) /\ DOMAIN bids = Bidders /\ full \in Optima(bids)
          /\ \A j \in Bidders : DOMAIN bids[j] = Named[j]
        BY ReportsAreProfiles DEF VcgIInv, Reported
    <2>2. /\ IsProfile(reported) /\ DOMAIN reported = Bidders
          /\ \A j \in Bidders : DOMAIN reported[j] = Named[j]
        <3>1. /\ reported = [j \in Bidders |-> reported[j]]
              /\ \A j \in Bidders : reported[j] \in Reports(j)
            BY DEF VcgIInv, Reported
        <3> HIDE DEF reported
        <3> QED
            BY <3>1, ReportsAreProfiles
    <2>3. Without(reported, i) = Without(bids, i)
        BY <2>1 DEF Without, Restrict
    <2>4. a \in Feasible(bids)
        <3>1. a \in Feasible(reported)
            BY <2>2, OptimumIsGreatest
        <3> HIDE DEF reported
        <3> QED
            BY <2>1, <2>2, <3>1, FeasibleIs
    <2>5. UtilityOf(i, bids[i], dev, a) = ValueOf(bids[i], a[i]) - (rest - others)
        <3> DEFINE raw == RawPayment(reported, a, Welfare(reported, a), rest, i)
        <3>1. UtilityOf(i, bids[i], dev, a) = ValueOf(bids[i], a[i]) - raw
            BY DEF UtilityOf
        <3>2. raw = rest - others
            <4> HIDE DEF reported
            <4> QED
                BY <2>2, <2>3, RawPaymentBounds DEF reported
        <3> QED
            BY <3>1, <3>2
    <2>6. ValueOf(bids[i], a[i]) + others <= OptWelfare(bids)
        BY <2>1, <2>4, ValueWithinOptimum
    <2>7. /\ OptWelfare(bids) = ValueOf(bids[i], full[i]) + Welfare(Without(bids, i), full)
          /\ full \in Feasible(bids)
        BY <2>1, OptimumSplits, OptimumIsGreatest
    <2>8. payments[i] = rest - Welfare(Without(bids, i), full)
        <3>1. i \in DOMAIN payments
            BY OrderFacts DEF VcgIInv
        <3>2. payments[i] = Raw(i)
            BY <3>1 DEF VcgIInv
        <3> QED
            BY <2>1, <3>2, RawPaymentBounds DEF Raw
    <2>9. /\ rest \in Nat /\ others \in Nat /\ Welfare(Without(bids, i), full) \in Nat
          /\ ValueOf(bids[i], a[i]) \in Nat /\ ValueOf(bids[i], full[i]) \in Nat
        <3>1. others \in Nat /\ Welfare(Without(bids, i), full) \in Nat
            BY <2>1, <2>4, <2>7, OthersFallShort
        <3>2. rest \in Nat
            BY <2>1, WithoutProfile, OptimumIsGreatest
        <3>3. ValueOf(bids[i], a[i]) \in Nat /\ ValueOf(bids[i], full[i]) \in Nat
            BY <2>1, ValueOfBest DEF IsProfile
        <3> QED
            BY <3>1, <3>2, <3>3
    <2> HIDE DEF rest, others
    <2> QED
        BY <2>5, <2>6, <2>7, <2>8, <2>9
<1> QED
    BY <1>1, VcgInvariant, PTL

-----------------------------------------------------------------------------
(* Bids.                                                                   *)

Bids == [Bundles -> Nat]

\* No bundle but x is worth less than a part of it.
MonotoneBut(bid, x) == \A a, b \in Bundles : a \subseteq b /\ b # x => bid[a] <= bid[b]

Monotone(bid) == \A a, b \in Bundles : a \subseteq b => bid[a] <= bid[b]

\* There are finitely many bundles.
LEMMA BundlesFinite == IsFiniteSet(Bundles)
BY SessionAssumption, FS_SUBSET, FS_Subset DEF Bundles

\* The repair raises values, never lowers one, and leaves no bundle below a part of it.
LEMMA RepairRaises ==
    ASSUME NEW bid \in Bids
    PROVE  /\ Repair(bid) \in Bids
           /\ \A b \in Bundles : bid[b] <= Repair(bid)[b]
           /\ Monotone(Repair(bid))
<1> DEFINE within(b) == {a \in Bundles : a \subseteq b}
           worth(b) == {bid[a] : a \in within(b)}
<1>1. ASSUME NEW b \in Bundles
      PROVE  /\ Max(worth(b)) \in worth(b)
             /\ \A y \in worth(b) : y <= Max(worth(b))
             /\ worth(b) \subseteq Nat
             /\ bid[b] \in worth(b)
    <2>1. IsFiniteSet(within(b))
        BY BundlesFinite, FS_Subset
    <2>2. IsFiniteSet(worth(b))
        <3> HIDE DEF within
        <3> QED
            BY <2>1, FiniteImage
    <2>3. worth(b) \subseteq Nat /\ worth(b) \subseteq Int /\ bid[b] \in worth(b)
        BY DEF Bids
    <2> HIDE DEF worth
    <2>4. worth(b) # {}
        BY <2>3
    <2> QED
        BY <2>2, <2>3, <2>4, MaxIsGreatest
<1>2. Repair(bid) = [b \in Bundles |-> Max(worth(b))]
    BY DEF Repair, Bids
<1>3. \A a, b \in Bundles : a \subseteq b => worth(a) \subseteq worth(b)
    OBVIOUS
<1> HIDE DEF worth
<1>4. \A a, b \in Bundles : a \subseteq b => Max(worth(a)) <= Max(worth(b))
    BY <1>1, <1>3
<1> QED
    BY <1>1, <1>2, <1>4 DEF Bids, Monotone

\* Writing one value leaves the others.
LEMMA UpsertBid ==
    ASSUME NEW bid \in Bids, NEW b \in Bundles, NEW v \in Nat
    PROVE  /\ Upsert(bid, b, v) \in Bids
           /\ Upsert(bid, b, v)[b] = v
           /\ \A a \in Bundles : a # b => Upsert(bid, b, v)[a] = bid[a]
BY DEF Upsert, Bids

\* The price of a bundle is a natural number.
LEMMA BundlePriceType ==
    ASSUME NEW b \in Bundles, NEW prices \in PriceVectors
    PROVE  BundlePrice(b, prices) \in Nat
<1>1. BundlePrice(b, prices) = SumFunctionOnSet(prices, b)
    BY DEF BundlePrice, MapThenSumSet, SumFunctionOnSet, FoldFunctionOnSet
<1>2. IsFiniteSet(b) /\ \A x \in b : prices[x] \in Nat
    BY SessionAssumption, FS_Subset DEF Bundles
<1> QED
    BY <1>1, <1>2, SumIsNat

-----------------------------------------------------------------------------
(* The session.                                                            *)

Tables == UNION {[D -> Nat] : D \in SUBSET Bundles}

Proxies == [bid : Bids, provisional : SUBSET Bundles, refined : SUBSET Bundles,
            count : Nat, exact : BOOLEAN]

Sessions == [p : Proxies, answer : Tables, quoted : Tables,
             floors : SUBSET (Bundles \X PriceVectors), last : SUBSET Items]

\* What a session keeps whatever event it handles.
Kept(t) ==
    /\ t \in Sessions
    /\ t.p.exact = (truth # NoAnswers)
    /\ MonotoneBut(t.p.bid, IF t.p.exact THEN t.last ELSE {})
    /\ \A b \in DOMAIN t.answer :
          t.p.bid[b] >= t.answer[b] * (IF t.p.exact THEN 1 ELSE Scale)
    /\ strategy = "value_query" =>
          /\ t.p.count = Cardinality(t.p.refined)
          /\ t.p.refined \cap t.p.provisional = {}
          /\ t.p.provisional \cap DOMAIN t.answer = {}
    /\ t.p.exact =>
          \A f \in t.floors :
              \/ truth[f[1]] >= BundlePrice(f[1], f[2])
              \/ \A b \in Bundles : Surplus(b, f[2]) < 0
    /\ ~t.p.exact =>
          \A b \in DOMAIN t.quoted \cap DOMAIN t.answer : t.quoted[b] >= t.answer[b]

\* The person has a valuation of every bundle or none.
People == strategy \in {"value_query", "demand_query"} /\ truth \in [Bundles -> Values] \cup {NoAnswers}

ProxyIInv == People /\ Kept(s)

\* What the person answers is a natural number.
LEMMA AnswersAreValues ==
    ASSUME People, NEW t, Kept(t), NEW b \in Bundles, NEW v \in ValueAnswers(t, b)
    PROVE  v \in Nat /\ (t.p.exact => v = truth[b])
BY SessionAssumption DEF People, Kept, ValueAnswers

-----------------------------------------------------------------------------
(* Events.                                                                 *)

\* The bid after a revaluation: the answer is where it was asked for, nothing else is
\* worth less, and only the bundle asked about may undercut a part of it, if answers
\* are exact.
LEMMA RevaluedBid ==
    ASSUME NEW q \in Proxies, NEW b \in Bundles, NEW v \in Nat,
           NEW bid, bid = Revalued(q, b, v).bid
    PROVE  /\ bid \in Bids
           /\ bid[b] >= v * (IF q.exact THEN 1 ELSE Scale)
           /\ \A a \in Bundles : a # b => bid[a] >= q.bid[a]
           /\ MonotoneBut(bid, IF q.exact THEN b ELSE {})
<1> DEFINE value == IF q.exact THEN v ELSE v * Scale
           fixed == Repair(Upsert(q.bid, b, value))
<1>1. q.bid \in Bids /\ q.exact \in BOOLEAN
    BY DEF Proxies
<1>2. value \in Nat /\ value = v * (IF q.exact THEN 1 ELSE Scale)
    BY <1>1, CalibrationAssumption
<1>3. bid = IF q.exact THEN Upsert(fixed, b, value) ELSE fixed
    BY DEF Revalued, Proxies
<1> HIDE DEF value, fixed
<1>4. /\ Upsert(q.bid, b, value) \in Bids
      /\ Upsert(q.bid, b, value)[b] = value
      /\ \A a \in Bundles : a # b => Upsert(q.bid, b, value)[a] = q.bid[a]
    BY <1>1, <1>2, UpsertBid
<1>5. fixed \in Bids /\ Monotone(fixed)
    BY <1>4, RepairRaises DEF fixed
<1>6. fixed[b] >= value /\ \A a \in Bundles : a # b => fixed[a] >= q.bid[a]
    <2>1. \A a \in Bundles : Upsert(q.bid, b, value)[a] <= fixed[a]
        BY <1>4, RepairRaises DEF fixed
    <2>2. fixed[b] \in Nat /\ \A a \in Bundles : fixed[a] \in Nat /\ q.bid[a] \in Nat
        BY <1>1, <1>5 DEF Bids
    <2> QED
        BY <1>2, <1>4, <2>1, <2>2
<1>7. CASE q.exact
    <2>1. /\ bid \in Bids /\ bid[b] = value
          /\ \A a \in Bundles : a # b => bid[a] = fixed[a]
        BY <1>2, <1>3, <1>5, <1>7, UpsertBid
    <2>2. ASSUME NEW a \in Bundles, NEW c \in Bundles, a \subseteq c, c # b
          PROVE  bid[a] <= bid[c]
        <3>1. fixed[a] <= fixed[c] /\ fixed[a] \in Nat /\ fixed[c] \in Nat
            BY <1>5, <2>2 DEF Monotone, Bids
        <3>2. bid[c] = fixed[c]
            BY <2>1, <2>2
        <3>3. bid[a] <= fixed[a]
            <4>1. CASE a = b
                BY <1>2, <1>6, <2>1, <3>1, <4>1
            <4>2. CASE a # b
                BY <2>1, <3>1, <4>2
            <4> QED
                BY <4>1, <4>2
        <3>4. bid[a] \in Nat
            BY <2>1 DEF Bids
        <3> QED
            BY <3>1, <3>2, <3>3, <3>4
    <2> QED
        BY <1>2, <1>6, <1>7, <2>1, <2>2 DEF MonotoneBut
<1>8. CASE ~q.exact
    BY <1>2, <1>3, <1>5, <1>6, <1>8 DEF MonotoneBut, Monotone
<1> QED
    BY <1>1, <1>7, <1>8

\* The singletons quoted when a bundle is revalued are other bundles, each at what the
\* cached bid says of it, uncalibrated unless it was refined.
LEMMA AnchorsType ==
    ASSUME NEW q \in Proxies, NEW b \in Bundles
    PROVE  /\ Anchors(q, b) \in Tables
           /\ b \notin DOMAIN Anchors(q, b)
           /\ \A a \in DOMAIN Anchors(q, b) :
                 Anchors(q, b)[a] = IF a \in q.refined THEN q.bid[a] ELSE q.bid[a] \div Scale
<1> DEFINE D == {a \in Singletons(q.bid) : a \subseteq b /\ a # b}
           quote == [a \in D |-> IF a \in q.refined THEN q.bid[a] ELSE q.bid[a] \div Scale]
<1>1. Anchors(q, b) = quote
    BY DEF Anchors
<1>2. D \in SUBSET Bundles /\ b \notin D
    BY DEF Singletons, Proxies, Bids
<1>3. \A a \in D : q.bid[a] \in Nat
    BY <1>2 DEF Proxies, Bids
<1>4. \A n \in Nat : n \div Scale \in Nat
    BY CalibrationAssumption
<1> HIDE DEF D
<1>5. quote \in [D -> Nat]
    BY <1>3, <1>4
<1>6. quote \in Tables
    BY <1>2, <1>5 DEF Tables
<1> QED
    BY <1>1, <1>2, <1>6

\* A quote is no less than an answer that the bid does not fall below.
LEMMA QuotientCovers ==
    ASSUME NEW n \in Nat, NEW a \in Nat, n >= a * Scale
    PROVE  n >= a /\ n \div Scale >= a
<1>1. Scale \in Nat /\ Scale > 0
    BY CalibrationAssumption
<1> DEFINE q == n \div Scale
<1>2. q \in Nat /\ n < Scale * q + Scale
    BY <1>1
<1> HIDE DEF q
<1>3. ASSUME q < a
      PROVE  FALSE
    <2> DEFINE d == a - (q + 1)
    <2>1. d \in Nat /\ a = q + 1 + d
        BY <1>2, <1>3
    <2> HIDE DEF d
    <2>2. a * Scale = Scale * q + Scale + Scale * d /\ Scale * d \in Nat /\ Scale * q \in Nat
        BY <1>1, <1>2, <2>1
    <2> QED
        BY <1>1, <1>2, <2>2
<1>4. n >= a
    <2> DEFINE m == a * (Scale - 1)
    <2>1. m \in Nat /\ a * Scale = a + m
        BY <1>1
    <2> HIDE DEF m
    <2> QED
        BY <2>1
<1>5. q >= a
    BY <1>2, <1>3
<1> QED
    BY <1>4, <1>5 DEF q

\* A revaluation keeps the session, if a bundle is not asked about again.
LEMMA ValueQueryKeeps ==
    ASSUME People, NEW t, Kept(t), NEW b \in Bundles, NEW r \in AfterValueQuery(t, b),
           strategy = "value_query" => ~AlreadyAsked(t.p, b)
    PROVE  Kept(r) /\ r.answer[b] \in Nat /\ r.p = Revalued(t.p, b, r.answer[b])
<1>1. PICK v \in ValueAnswers(t, b) :
          r = [p |-> Revalued(t.p, b, v), answer |-> Upsert(t.answer, b, v),
               quoted |-> Anchors(t.p, b), floors |-> t.floors, last |-> b]
    BY DEF AfterValueQuery
<1>2. v \in Nat
    BY AnswersAreValues
<1>3. /\ t.p \in Proxies /\ t.answer \in Tables
      /\ t.floors \in SUBSET (Bundles \X PriceVectors) /\ t.last \in SUBSET Items
    BY DEF Kept, Sessions
<1> DEFINE new == r.p
           factor == IF t.p.exact THEN 1 ELSE Scale
<1>4. /\ new.provisional = t.p.provisional \ {b}
      /\ new.refined = t.p.refined \cup {b}
      /\ new.count = t.p.count + 1
      /\ new.exact = t.p.exact
      /\ new = Revalued(t.p, b, v)
    BY <1>1, <1>3 DEF Revalued, Proxies
<1>5. /\ new.bid \in Bids
      /\ new.bid[b] >= v * factor
      /\ \A a \in Bundles : a # b => new.bid[a] >= t.p.bid[a]
      /\ MonotoneBut(new.bid, IF t.p.exact THEN b ELSE {})
    BY <1>2, <1>3, <1>4, RevaluedBid
<1>6. new \in Proxies
    <2>1. new = [bid |-> new.bid, provisional |-> t.p.provisional \ {b},
                 refined |-> t.p.refined \cup {b}, count |-> t.p.count + 1,
                 exact |-> t.p.exact]
        BY <1>3, <1>4 DEF Revalued, Proxies
    <2> HIDE DEF new
    <2> QED
        BY <1>3, <1>5, <2>1 DEF Proxies
<1>7. /\ r.answer \in Tables
      /\ DOMAIN r.answer = DOMAIN t.answer \cup {b}
      /\ r.answer[b] = v
      /\ \A a \in DOMAIN t.answer : a # b => r.answer[a] = t.answer[a]
      /\ DOMAIN t.answer \subseteq Bundles
      /\ \A a \in DOMAIN t.answer : t.answer[a] \in Nat
    <2>1. PICK D \in SUBSET Bundles : t.answer \in [D -> Nat]
        BY <1>3 DEF Tables
    <2>2. r.answer = [a \in D \cup {b} |-> IF a = b THEN v ELSE t.answer[a]]
        BY <1>1, <2>1 DEF Upsert
    <2>3. r.answer \in [D \cup {b} -> Nat] /\ D \cup {b} \in SUBSET Bundles
        BY <1>2, <2>1, <2>2
    <2>4. r.answer \in Tables
        BY <2>3 DEF Tables
    <2> QED
        BY <2>1, <2>2, <2>4
<1> HIDE DEF new
<1>8. r \in Sessions
    <2>1. r = [p |-> new, answer |-> r.answer, quoted |-> Anchors(t.p, b),
               floors |-> t.floors, last |-> b]
        BY <1>1 DEF new
    <2>2. Anchors(t.p, b) \in Tables /\ b \in SUBSET Items
        BY <1>3, AnchorsType DEF Bundles
    <2> QED
        BY <1>3, <1>6, <1>7, <2>1, <2>2 DEF Sessions
<1>9. \A a \in DOMAIN r.answer : new.bid[a] >= r.answer[a] * factor
    <2> SUFFICES ASSUME NEW a \in DOMAIN r.answer
                 PROVE  new.bid[a] >= r.answer[a] * factor
        OBVIOUS
    <2>1. CASE a = b
        BY <1>5, <1>7, <2>1
    <2>2. CASE a # b
        <3>1. a \in DOMAIN t.answer /\ a \in Bundles /\ r.answer[a] = t.answer[a]
            BY <1>7, <2>2
        <3>2. t.p.bid[a] >= t.answer[a] * factor
            BY <3>1 DEF Kept
        <3>3. new.bid[a] >= t.p.bid[a]
            BY <1>5, <2>2, <3>1
        <3>4. new.bid[a] \in Nat /\ t.p.bid[a] \in Nat /\ t.answer[a] * factor \in Nat
            BY <1>3, <1>5, <1>7, <3>1, CalibrationAssumption DEF Bids, Proxies
        <3> HIDE DEF factor
        <3> QED
            BY <3>1, <3>2, <3>3, <3>4
    <2> QED
        BY <2>1, <2>2
<1>10. ASSUME strategy = "value_query"
       PROVE  /\ new.count = Cardinality(new.refined)
              /\ new.refined \cap new.provisional = {}
              /\ new.provisional \cap DOMAIN r.answer = {}
    <2>1. /\ t.p.count = Cardinality(t.p.refined)
          /\ t.p.refined \cap t.p.provisional = {}
          /\ t.p.provisional \cap DOMAIN t.answer = {}
        BY <1>10 DEF Kept
    <2>2. b \in t.p.provisional /\ b \notin t.p.refined
        BY <1>3, <1>10, <2>1 DEF AlreadyAsked, Proxies, Bids
    <2>3. IsFiniteSet(t.p.refined)
        BY <1>3, BundlesFinite, FS_Subset DEF Proxies
    <2>4. Cardinality(t.p.refined \cup {b}) = Cardinality(t.p.refined) + 1
        BY <2>2, <2>3, FS_AddElement
    <2> QED
        BY <1>4, <1>7, <2>1, <2>4
<1>11. ASSUME ~t.p.exact, NEW a \in DOMAIN r.quoted \cap DOMAIN r.answer
       PROVE  r.quoted[a] >= r.answer[a]
    <2>1. r.quoted = Anchors(t.p, b)
        BY <1>1
    <2>2. a # b /\ r.quoted[a] = IF a \in t.p.refined THEN t.p.bid[a] ELSE t.p.bid[a] \div Scale
        BY <1>3, <1>11, <2>1, AnchorsType
    <2>3. a \in DOMAIN t.answer /\ r.answer[a] = t.answer[a] /\ t.answer[a] \in Nat
        BY <1>7, <1>11, <2>2
    <2>4. t.p.bid[a] >= t.answer[a] * Scale /\ t.p.bid[a] \in Nat
        BY <1>3, <1>7, <1>11, <2>3 DEF Kept, Proxies, Bids
    <2>5. t.p.bid[a] >= t.answer[a] /\ t.p.bid[a] \div Scale >= t.answer[a]
        BY <2>3, <2>4, QuotientCovers
    <2> QED
        BY <2>2, <2>3, <2>5
<1>12. r.floors = t.floors /\ r.last = b
    BY <1>1
<1>13. Kept(r)
    <2>1. MonotoneBut(new.bid, IF new.exact THEN r.last ELSE {})
        BY <1>4, <1>5, <1>12
    <2>2. new.exact =>
             \A f \in r.floors :
                 \/ truth[f[1]] >= BundlePrice(f[1], f[2])
                 \/ \A c \in Bundles : Surplus(c, f[2]) < 0
        BY <1>4, <1>12 DEF Kept
    <2>3. new.exact = (truth # NoAnswers)
        BY <1>4 DEF Kept
    <2> QED
        BY <1>4, <1>8, <1>9, <1>10, <1>11, <2>1, <2>2, <2>3 DEF Kept, new
<1> QED
    BY <1>2, <1>4, <1>7, <1>13 DEF new

\* Where a session keeps what it must, only the proxy's record of what was asked may
\* change: any further bundle may count as refined.
LEMMA RefinedMore ==
    ASSUME strategy = "demand_query", NEW t, Kept(t), NEW b \in Bundles
    PROVE  Kept([t EXCEPT !.p = [t.p EXCEPT !.refined = @ \cup {b}]])
<1> DEFINE q == [t.p EXCEPT !.refined = @ \cup {b}]
           r == [t EXCEPT !.p = q]
<1>1. t \in Sessions /\ t.p \in Proxies
    BY DEF Kept, Sessions
<1>2. q = [bid |-> t.p.bid, provisional |-> t.p.provisional,
           refined |-> t.p.refined \cup {b}, count |-> t.p.count, exact |-> t.p.exact]
    BY <1>1 DEF Proxies
<1>3. q \in Proxies /\ q.bid = t.p.bid /\ q.exact = t.p.exact
    BY <1>1, <1>2 DEF Proxies
<1> HIDE DEF q
<1>4. /\ r = [p |-> q, answer |-> t.answer, quoted |-> t.quoted,
              floors |-> t.floors, last |-> t.last]
      /\ r.p = q
      /\ r.answer = t.answer /\ r.quoted = t.quoted /\ r.floors = t.floors /\ r.last = t.last
    BY <1>1 DEF Sessions
<1> HIDE DEF r
<1>5. r \in Sessions
    BY <1>1, <1>3, <1>4 DEF Sessions
<1>6. Kept(r)
    BY <1>3, <1>4, <1>5 DEF Kept
<1> QED
    BY <1>6 DEF r, q

\* A person satisfied with a bundle it names as its best either values it at the price at
\* least, or wants nothing at these prices.
LEMMA SatisfiedIsBest ==
    ASSUME People, NEW b \in Bundles, NEW prices \in PriceVectors, truth # NoAnswers,
           b \in BestBundles(b, prices)
    PROVE  \/ truth[b] >= BundlePrice(b, prices)
           \/ \A a \in Bundles : Surplus(a, prices) < 0
<1>1. \A a \in Bundles : Surplus(a, prices) <= Surplus(b, prices)
    BY DEF BestBundles
<1>2. \A a \in Bundles : truth[a] \in Nat /\ BundlePrice(a, prices) \in Nat
    BY SessionAssumption, BundlePriceType DEF People
<1>3. \A a \in Bundles : Surplus(a, prices) \in Int
    BY <1>2 DEF Surplus
<1>4. CASE Surplus(b, prices) >= 0
    BY <1>2, <1>4 DEF Surplus
<1>5. CASE ~(Surplus(b, prices) >= 0)
    BY <1>1, <1>3, <1>5
<1> QED
    BY <1>4, <1>5

\* A satisfied demand query keeps the session.
LEMMA SatisfiedKeeps ==
    ASSUME People, strategy = "demand_query", NEW t, Kept(t), NEW b \in Bundles,
           NEW prices \in PriceVectors, b \in DemandAnswers(t, b, prices),
           NEW rises \in BOOLEAN,
           rises = (b \in DOMAIN t.p.bid /\ BundlePrice(b, prices) > t.p.bid[b])
    PROVE  Kept([t EXCEPT !.p = Satisfied(t.p, b, BundlePrice(b, prices)),
                          !.floors = IF rises THEN @ \cup {<<b, prices>>} ELSE @])
<1> DEFINE price == BundlePrice(b, prices)
           bid == IF rises THEN Repair(Upsert(t.p.bid, b, price)) ELSE t.p.bid
           floors == IF rises THEN t.floors \cup {<<b, prices>>} ELSE t.floors
           r == [t EXCEPT !.p = Satisfied(t.p, b, price),
                          !.floors = IF rises THEN @ \cup {<<b, prices>>} ELSE @]
<1>1. /\ t.p \in Proxies /\ t.answer \in Tables /\ t.quoted \in Tables
      /\ t.floors \in SUBSET (Bundles \X PriceVectors) /\ t.last \in SUBSET Items
      /\ t.p.bid \in Bids /\ price \in Nat
    BY BundlePriceType DEF Kept, Sessions, Proxies
<1>2. r.p = [bid |-> bid, provisional |-> t.p.provisional,
             refined |-> t.p.refined \cup {b}, count |-> t.p.count + 1, exact |-> t.p.exact]
    BY <1>1 DEF Satisfied, Proxies, Kept, Sessions
<1>3. /\ r = [p |-> r.p, answer |-> t.answer, quoted |-> t.quoted,
              floors |-> floors, last |-> t.last]
      /\ r.answer = t.answer /\ r.quoted = t.quoted /\ r.floors = floors /\ r.last = t.last
    <2>1. t \in Sessions
        BY DEF Kept
    <2> DEFINE q == [t EXCEPT !.p = Satisfied(t.p, b, price)]
    <2>2. q = [p |-> Satisfied(t.p, b, price), answer |-> t.answer, quoted |-> t.quoted,
               floors |-> t.floors, last |-> t.last]
        BY <2>1 DEF Sessions
    <2>3. r = [q EXCEPT !.floors = floors]
        BY <2>2
    <2> HIDE DEF r, floors, q
    <2> QED
        BY <2>2, <2>3
<1> HIDE DEF r, price, bid
<1>4. bid \in Bids /\ \A a \in Bundles : t.p.bid[a] <= bid[a]
    <2>1. CASE rises
        <3> DEFINE up == Upsert(t.p.bid, b, price)
        <3>1. /\ up \in Bids /\ up[b] = price
              /\ \A a \in Bundles : a # b => up[a] = t.p.bid[a]
            BY <1>1, UpsertBid
        <3>2. price > t.p.bid[b] /\ bid = Repair(up)
            BY <2>1 DEF price, bid
        <3> HIDE DEF up
        <3>3. bid \in Bids /\ \A a \in Bundles : up[a] <= bid[a]
            BY <3>1, <3>2, RepairRaises
        <3>4. \A a \in Bundles : up[a] \in Nat /\ bid[a] \in Nat /\ t.p.bid[a] \in Nat
            BY <1>1, <3>1, <3>3 DEF Bids
        <3>5. \A a \in Bundles : t.p.bid[a] <= up[a]
            BY <1>1, <3>1, <3>2, <3>4
        <3> QED
            BY <3>3, <3>4, <3>5
    <2>2. CASE ~rises
        BY <1>1, <2>2 DEF bid, Bids
    <2> QED
        BY <2>1, <2>2
<1>5. MonotoneBut(bid, IF t.p.exact THEN t.last ELSE {})
    <2>1. CASE rises
        <3>1. bid = Repair(Upsert(t.p.bid, b, price)) /\ Upsert(t.p.bid, b, price) \in Bids
            BY <1>1, <2>1, UpsertBid DEF bid
        <3>2. Monotone(bid)
            BY <3>1, RepairRaises
        <3> QED
            BY <3>2 DEF Monotone, MonotoneBut
    <2>2. CASE ~rises
        BY <2>2 DEF bid, Kept
    <2> QED
        BY <2>1, <2>2
<1>6. r.p \in Proxies /\ r.p.bid = bid /\ r.p.exact = t.p.exact
    BY <1>1, <1>2, <1>4 DEF Proxies
<1>7. r \in Sessions
    <2>1. floors \in SUBSET (Bundles \X PriceVectors)
        BY <1>1
    <2> HIDE DEF floors
    <2> QED
        BY <1>1, <1>3, <1>6, <2>1 DEF Sessions
<1>8. \A a \in DOMAIN r.answer :
          r.p.bid[a] >= r.answer[a] * (IF r.p.exact THEN 1 ELSE Scale)
    <2> DEFINE factor == IF t.p.exact THEN 1 ELSE Scale
    <2> SUFFICES ASSUME NEW a \in DOMAIN t.answer
                 PROVE  bid[a] >= t.answer[a] * factor
        BY <1>3, <1>6
    <2>1. a \in Bundles /\ t.answer[a] \in Nat
        BY <1>1 DEF Tables
    <2>2. t.p.bid[a] >= t.answer[a] * factor
        BY DEF Kept
    <2>3. t.answer[a] * factor \in Nat
        BY <2>1, CalibrationAssumption
    <2>4. bid[a] \in Nat /\ t.p.bid[a] \in Nat /\ t.p.bid[a] <= bid[a]
        BY <1>1, <1>4, <2>1 DEF Bids
    <2> HIDE DEF factor
    <2> QED
        BY <2>2, <2>3, <2>4
<1>9. ASSUME r.p.exact, NEW f \in r.floors
      PROVE  \/ truth[f[1]] >= BundlePrice(f[1], f[2])
             \/ \A a \in Bundles : Surplus(a, f[2]) < 0
    <2>1. CASE f \in t.floors
        BY <1>6, <1>9, <2>1 DEF Kept
    <2>2. CASE f = <<b, prices>>
        <3>1. t.p.exact /\ truth # NoAnswers /\ b \in BestBundles(b, prices)
            BY <1>6, <1>9 DEF Kept, DemandAnswers
        <3>2. f[1] = b /\ f[2] = prices
            BY <2>2
        <3> QED
            BY <3>1, <3>2, SatisfiedIsBest
    <2> QED
        BY <1>3, <1>9, <2>1, <2>2
<1>10. Kept(r)
    BY <1>3, <1>5, <1>6, <1>7, <1>8, <1>9 DEF Kept
<1> QED
    BY <1>10 DEF r, price

\* A demand query keeps the session, whatever the person answers.
LEMMA DemandQueryKeeps ==
    ASSUME People, strategy = "demand_query", NEW t, Kept(t), NEW b \in Bundles,
           NEW prices \in PriceVectors, NEW r \in AfterDemandQuery(t, b, prices)
    PROVE  Kept(r)
<1> DEFINE price == BundlePrice(b, prices)
           rises == b \in DOMAIN t.p.bid /\ price > t.p.bid[b]
           satisfied == [t EXCEPT !.p = Satisfied(t.p, b, price),
                                  !.floors = IF rises THEN @ \cup {<<b, prices>>} ELSE @]
<1>1. PICK best \in DemandAnswers(t, b, prices) :
          \/ best = b /\ r = satisfied
          \/ best = {} /\ r \in AfterValueQuery(t, b)
          \/ /\ best # {}
             /\ \E q \in AfterValueQuery(t, best) :
                   r = [q EXCEPT !.p = Diverted(t.p, b, best, q.answer[best])]
    BY DEF AfterDemandQuery
<1>2. best \in Bundles \cup {{}}
    BY DEF DemandAnswers, BestBundles
<1>3. CASE best = b /\ r = satisfied
    <2>1. b \in DemandAnswers(t, b, prices) /\ rises \in BOOLEAN
        BY <1>3
    <2> QED
        BY <1>3, <2>1, SatisfiedKeeps
<1>4. CASE best = {} /\ r \in AfterValueQuery(t, b)
    BY <1>4, ValueQueryKeeps
<1>5. CASE /\ best # {}
           /\ \E q \in AfterValueQuery(t, best) :
                 r = [q EXCEPT !.p = Diverted(t.p, b, best, q.answer[best])]
    <2>1. PICK q \in AfterValueQuery(t, best) :
              r = [q EXCEPT !.p = Diverted(t.p, b, best, q.answer[best])]
        BY <1>5
    <2>2. Kept(q) /\ q.p = Revalued(t.p, best, q.answer[best])
        BY <1>2, <1>5, ValueQueryKeeps
    <2>3. r = [q EXCEPT !.p = [q.p EXCEPT !.refined = @ \cup {b}]]
        BY <2>1, <2>2 DEF Diverted
    <2> QED
        BY <2>2, <2>3, RefinedMore
<1> QED
    BY <1>1, <1>3, <1>4, <1>5

\* Refining one bundle keeps the session.
LEMMA RefiningKeeps ==
    ASSUME People, NEW t, Kept(t), NEW b \in Bundles,
           NEW prices \in PriceVectors \cup {NoPrices}, NEW r \in AfterRefining(t, b, prices)
    PROVE  Kept(r)
<1>1. CASE strategy = "demand_query" /\ prices # NoPrices
    BY <1>1, DemandQueryKeeps DEF AfterRefining
<1>2. CASE ~(strategy = "demand_query" /\ prices # NoPrices) /\ AlreadyAsked(t.p, b)
    BY <1>2 DEF AfterRefining
<1>3. CASE ~(strategy = "demand_query" /\ prices # NoPrices) /\ ~AlreadyAsked(t.p, b)
    <2>1. r \in AfterValueQuery(t, b)
        BY <1>3 DEF AfterRefining
    <2> QED
        BY <1>3, <2>1, ValueQueryKeeps
<1> QED
    BY <1>1, <1>2, <1>3

-----------------------------------------------------------------------------
(* Behaviours.                                                             *)

\* A bid built from a bulk valuation or from answers is repaired, and empty of queries.
LEMMA FreshKept ==
    ASSUME People, NEW t, NEW raw \in Bids, NEW answer \in Tables,
           NEW exact \in BOOLEAN, exact = (truth # NoAnswers),
           NEW provisional \in SUBSET Bundles, provisional \cap DOMAIN answer = {},
           \A b \in DOMAIN answer : raw[b] = answer[b] * Scale,
           t = [p |-> [bid |-> Repair(raw), provisional |-> provisional, refined |-> {},
                       count |-> 0, exact |-> exact],
                answer |-> answer, quoted |-> NoAnswers, floors |-> {}, last |-> {}]
    PROVE  Kept(t)
<1>1. /\ Repair(raw) \in Bids /\ \A b \in Bundles : raw[b] <= Repair(raw)[b]
      /\ Monotone(Repair(raw))
    BY RepairRaises
<1>2. /\ t.p \in Proxies /\ t.p.bid = Repair(raw) /\ t.p.exact = exact
      /\ t.p.refined = {} /\ t.p.count = 0 /\ t.p.provisional = provisional
    BY <1>1 DEF Proxies
<1>3. NoAnswers \in Tables /\ DOMAIN NoAnswers = {}
    <2>1. NoAnswers \in [{} -> Nat] /\ {} \in SUBSET Bundles
        BY DEF NoAnswers
    <2> QED
        BY <2>1 DEF Tables
<1>4. /\ t.answer = answer /\ t.quoted = NoAnswers /\ t.floors = {} /\ t.last = {}
      /\ t = [p |-> t.p, answer |-> answer, quoted |-> NoAnswers, floors |-> {}, last |-> {}]
    OBVIOUS
<1>5. t \in Sessions
    BY <1>2, <1>3, <1>4 DEF Sessions
<1>6. \A b \in DOMAIN t.answer : t.p.bid[b] >= t.answer[b] * (IF t.p.exact THEN 1 ELSE Scale)
    <2> SUFFICES ASSUME NEW b \in DOMAIN answer
                 PROVE  Repair(raw)[b] >= answer[b] * (IF exact THEN 1 ELSE Scale)
        BY <1>2, <1>4
    <2>1. b \in Bundles /\ answer[b] \in Nat
        BY DEF Tables
    <2>2. raw[b] \in Nat /\ Repair(raw)[b] \in Nat /\ raw[b] <= Repair(raw)[b]
        BY <1>1, <2>1 DEF Bids
    <2> DEFINE n == raw[b]
    <2>3. n \in Nat /\ n >= answer[b] * Scale /\ n = answer[b] * Scale
        BY <2>2
    <2>4. n >= answer[b]
        BY <2>1, <2>3, QuotientCovers
    <2> HIDE DEF n
    <2> QED
        BY <2>1, <2>2, <2>3, <2>4 DEF n
<1>7. MonotoneBut(t.p.bid, IF t.p.exact THEN t.last ELSE {})
    BY <1>1, <1>2 DEF Monotone, MonotoneBut
<1>8. Cardinality({}) = 0
    BY FS_EmptySet
<1>9. strategy = "value_query" =>
          /\ t.p.count = Cardinality(t.p.refined)
          /\ t.p.refined \cap t.p.provisional = {}
          /\ t.p.provisional \cap DOMAIN t.answer = {}
    BY <1>2, <1>4, <1>8
<1> QED
    BY <1>2, <1>3, <1>4, <1>5, <1>6, <1>7, <1>9 DEF Kept

\* The invariant holds at the start.
LEMMA ProxyInit == Init => ProxyIInv
<1> SUFFICES ASSUME Init
             PROVE  ProxyIInv
    OBVIOUS
<1>1. People
    BY DEF Init, People
<1> DEFINE exact == truth # NoAnswers
<1>2. ASSUME NEW v \in [Bundles -> {w * Scale : w \in Values}],
             s = [p |-> ProvisionalProxy(v, exact), answer |-> NoAnswers,
                  quoted |-> NoAnswers, floors |-> {}, last |-> {}]
      PROVE  Kept(s)
    <2> DEFINE named == [b \in DOMAIN v \ {{}} |-> v[b]]
    <2>1. v \in Bids
        <3>1. \A w \in Values : w * Scale \in Nat
            BY SessionAssumption, CalibrationAssumption
        <3> QED
            BY <3>1 DEF Bids
    <2>2. named \in Bids /\ DOMAIN named = Bundles
        BY <2>1 DEF Bids, Bundles
    <2>3. ProvisionalProxy(v, exact) =
              [bid |-> Repair(named), provisional |-> Bundles, refined |-> {}, count |-> 0,
               exact |-> exact]
        BY <2>2 DEF ProvisionalProxy
    <2>4. NoAnswers \in Tables /\ DOMAIN NoAnswers = {}
        <3>1. NoAnswers \in [{} -> Nat] /\ {} \in SUBSET Bundles
            BY DEF NoAnswers
        <3> QED
            BY <3>1 DEF Tables
    <2>5. exact \in BOOLEAN /\ Bundles \in SUBSET Bundles
        OBVIOUS
    <2> HIDE DEF named, exact
    <2> QED
        BY <1>1, <1>2, <2>2, <2>3, <2>4, <2>5, FreshKept DEF exact
<1>3. ASSUME NEW v \in [Bundles -> Values],
             s = [p |-> InferredProxy(v, exact), answer |-> v,
                  quoted |-> NoAnswers, floors |-> {}, last |-> {}]
      PROVE  Kept(s)
    <2> DEFINE raw == [b \in DOMAIN v |-> v[b] * Scale]
    <2>1. \A b \in Bundles : v[b] \in Nat /\ v[b] * Scale \in Nat
        <3>1. \A w \in Values : w \in Nat /\ w * Scale \in Nat
            BY SessionAssumption, CalibrationAssumption
        <3> QED
            BY <3>1
    <2>2. raw \in Bids /\ \A b \in DOMAIN v : raw[b] = v[b] * Scale
        BY <2>1 DEF Bids
    <2>3. v \in Tables
        <3>1. v \in [Bundles -> Nat] /\ Bundles \in SUBSET Bundles
            BY <2>1
        <3> QED
            BY <3>1 DEF Tables
    <2>4. InferredProxy(v, exact) =
              [bid |-> Repair(raw), provisional |-> {}, refined |-> {}, count |-> 0,
               exact |-> exact]
        BY DEF InferredProxy
    <2>5. exact \in BOOLEAN /\ {} \in SUBSET Bundles /\ {} \cap DOMAIN v = {}
        OBVIOUS
    <2> HIDE DEF raw, exact
    <2> QED
        BY <1>1, <1>3, <2>2, <2>3, <2>4, <2>5, FreshKept DEF exact
<1>4. truth # NoAnswers => truth \in [Bundles -> Values]
    BY <1>1 DEF People
<1> QED
    BY <1>1, <1>2, <1>3, <1>4 DEF Init, ProxyIInv

\* An event keeps the invariant.
LEMMA ProxyRefine ==
    ASSUME ProxyIInv, NEW targets \in EventTargets,
           NEW prices \in PriceVectors \cup {NoPrices}, Refine(targets, prices)
    PROVE  ProxyIInv'
<1>1. People /\ Kept(s)
    BY DEF ProxyIInv
<1>2. UNCHANGED <<strategy, truth>>
    BY DEF Refine
<1>3. PICK one \in AfterRefining(s, targets[1], prices) :
          \/ Len(targets) = 1 /\ s' = one
          \/ Len(targets) # 1 /\ \E two \in AfterRefining(one, targets[2], prices) : s' = two
    BY DEF Refine
<1>4. targets[1] \in Bundles /\ (Len(targets) # 1 => targets[2] \in Bundles)
    BY DEF EventTargets
<1>5. Kept(one)
    BY <1>1, <1>4, RefiningKeeps
<1>6. Kept(s')
    BY <1>1, <1>3, <1>4, <1>5, RefiningKeeps
<1>7. Kept(s)'
    BY <1>2, <1>6 DEF Kept, Surplus
<1> QED
    BY <1>1, <1>2, <1>7 DEF ProxyIInv, People

\* A reset keeps the invariant.
LEMMA ProxyReset ==
    ASSUME ProxyIInv, Reset
    PROVE  ProxyIInv'
<1>1. People /\ Kept(s) /\ UNCHANGED <<strategy, truth>>
    BY DEF ProxyIInv, Reset
<1>2. s \in Sessions /\ s.p \in Proxies
    BY <1>1 DEF Kept, Sessions
<1>3. s'.p = [bid |-> s.p.bid, provisional |-> s.p.provisional, refined |-> {},
              count |-> 0, exact |-> s.p.exact]
    BY <1>2 DEF Reset, Sessions, Proxies
<1>4. /\ s' = [p |-> s'.p, answer |-> s.answer, quoted |-> s.quoted,
               floors |-> s.floors, last |-> s.last]
      /\ s'.answer = s.answer /\ s'.quoted = s.quoted
      /\ s'.floors = s.floors /\ s'.last = s.last
    BY <1>2 DEF Reset, Sessions
<1>5. /\ s'.p \in Proxies /\ s'.p.bid = s.p.bid /\ s'.p.exact = s.p.exact
      /\ s'.p.provisional = s.p.provisional /\ s'.p.refined = {} /\ s'.p.count = 0
    BY <1>2, <1>3 DEF Proxies
<1>6. s' \in Sessions
    BY <1>2, <1>4, <1>5 DEF Sessions
<1>7. Cardinality({}) = 0
    BY FS_EmptySet
<1>8. Kept(s')
    BY <1>1, <1>4, <1>5, <1>6, <1>7 DEF Kept
<1>9. Kept(s)'
    BY <1>1, <1>8 DEF Kept, Surplus
<1> QED
    BY <1>1, <1>9 DEF ProxyIInv, People

\* Whatever events and resets a session goes through: types, a repaired bid, no bid below
\* an answer, exact bookkeeping of the queries, sound floors and sound anchors
\* (llm/proxies.py:900-1060, llm/auction_adapter.py).
THEOREM ProxyInvariant == Spec => []ProxyIInv
<1>1. ProxyIInv /\ [Next]_vars => ProxyIInv'
    <2> SUFFICES ASSUME ProxyIInv, [Next]_vars
                 PROVE  ProxyIInv'
        OBVIOUS
    <2>1. CASE UNCHANGED vars
        BY <2>1 DEF vars, ProxyIInv, People, Kept, Surplus
    <2>2. CASE Next
        BY <2>2, ProxyRefine, ProxyReset DEF Next
    <2> QED
        BY <2>1, <2>2
<1> QED
    BY <1>1, ProxyInit, PTL DEF Spec

\* With exact answers only the bundle revalued last undercuts one of its subsets.
THEOREM MonotoneButTheLast == Spec => []OnlyLastAnswerUndercuts
<1>1. ProxyIInv => OnlyLastAnswerUndercuts
    <2> SUFFICES ASSUME ProxyIInv, NEW a \in Bundles, NEW b \in Bundles,
                        a \subseteq b, s.p.bid[a] > s.p.bid[b], b # s.last
                 PROVE  FALSE
        BY DEF OnlyLastAnswerUndercuts
    <2>1. MonotoneBut(s.p.bid, IF s.p.exact THEN s.last ELSE {}) /\ b # {}
        BY DEF ProxyIInv, Kept, Bundles
    <2>2. s.p.bid[a] \in Nat /\ s.p.bid[b] \in Nat
        BY DEF ProxyIInv, Kept, Sessions, Proxies, Bids
    <2> QED
        BY <2>1, <2>2 DEF MonotoneBut
<1> QED
    BY <1>1, ProxyInvariant, PTL

\* No reported value falls below the answer it came from.
THEOREM BidsCoverAnswers == Spec => []NeverUnderAnswer
<1>1. ProxyIInv => NeverUnderAnswer
    BY DEF ProxyIInv, Kept, NeverUnderAnswer
<1> QED
    BY <1>1, ProxyInvariant, PTL

\* Between two resets a bundle is asked about at most once.
THEOREM QueriesAreNotWasted == Spec => []AskedOnce
<1>1. ProxyIInv => AskedOnce
    BY DEF ProxyIInv, Kept, AskedOnce
<1> QED
    BY <1>1, ProxyInvariant, PTL

\* A price floor overstates a value only for a person who wanted nothing.
THEOREM FloorsAreSound == Spec => []FloorsOverstateOnlyUnwanted
<1>1. ProxyIInv => FloorsOverstateOnlyUnwanted
    BY DEF ProxyIInv, Kept, FloorsOverstateOnlyUnwanted
<1> QED
    BY <1>1, ProxyInvariant, PTL

\* An estimating person is never quoted less than it answered itself.
THEOREM AnchorsAreSound == Spec => []AnchorsNeverUnderstate
<1>1. ProxyIInv => AnchorsNeverUnderstate
    BY DEF ProxyIInv, Kept, AnchorsNeverUnderstate
<1> QED
    BY <1>1, ProxyInvariant, PTL
=============================================================================
