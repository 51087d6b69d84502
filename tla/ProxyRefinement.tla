--------------------------- MODULE ProxyRefinement ---------------------------
(***************************************************************************)
(* One bidder's proxy behind LlmAuctionProxyAdapter, refined by elicitation*)
(* events in any order.  The person answers value and demand queries from  *)
(* its true valuation when exact, else with anything in Values.            *)
(***************************************************************************)
EXTENDS XorProxy, Sequences

CONSTANTS
    Items,
    Values,     \* what a value answer may be
    PriceVectors,
    MaxEvents   \* bound on the events handled

Bundles == (SUBSET Items) \ {{}}
NoPrices == [x \in {} |-> 0]

ASSUME SessionAssumption ==
    /\ IsFiniteSet(Items)
    /\ Values \subseteq Nat
    /\ PriceVectors \subseteq [Items -> Nat]
    /\ MaxEvents \in Nat

VARIABLES
    strategy,   \* refinement_strategy: "value_query" or "demand_query"
    truth,      \* ground_truth_valuations of the person
    s,          \* the session: the proxy record and what was exchanged
    events      \* events handled so far, at most MaxEvents

\* The fields of s besides the proxy p: answer keeps the person's last value
\* answer per bundle, quoted the anchors of the last value query, floors the
\* bundles whose price a satisfied demand query wrote into the bid, with the item
\* prices, and last the bundle revalued last.
vars == <<strategy, truth, s, events>>

NoAnswers == [b \in {} |-> 0]

BundlePrice(b, prices) == MapThenSumSet(LAMBDA x : prices[x], b)

\* The bid starts from a bulk valuation, or from answers about every bundle.
Init ==
    /\ strategy \in {"value_query", "demand_query"}
    /\ truth \in [Bundles -> Values] \cup {NoAnswers}
    /\ LET exact == truth # NoAnswers
       IN  \/ \E v \in [Bundles -> {w * Scale : w \in Values}] :
                 s = [p |-> ProvisionalProxy(v, exact), answer |-> NoAnswers,
                      quoted |-> NoAnswers, floors |-> {}, last |-> {}]
           \/ \E v \in IF exact THEN {truth} ELSE [Bundles -> Values] :
                 s = [p |-> InferredProxy(v, exact), answer |-> v,
                      quoted |-> NoAnswers, floors |-> {}, last |-> {}]
    /\ events = 0

\* What the person may answer to a value query about b.
ValueAnswers(t, b) == IF t.p.exact THEN {truth[b]} ELSE Values

\* The session after b was revalued with one of the possible answers.
AfterValueQuery(t, b) ==
    {[p |-> Revalued(t.p, b, v), answer |-> Upsert(t.answer, b, v),
      quoted |-> Anchors(t.p, b), floors |-> t.floors, last |-> b] : v \in ValueAnswers(t, b)}

Surplus(b, prices) == truth[b] - BundlePrice(b, prices)

\* Mutated: the prices are forgotten.
BestBundlesByValue(b, prices) ==
    IF \A a \in Bundles : truth[a] <= truth[b] THEN {b}
    ELSE {a \in Bundles : \A c \in Bundles : truth[c] <= truth[a]}

\* The bundles a ground-truth person may name as its best at these prices: b
\* itself unless another is strictly better, else the first strict maximum.
BestBundles(b, prices) ==
    IF \A a \in Bundles : Surplus(a, prices) <= Surplus(b, prices) THEN {b}
    ELSE {a \in Bundles : \A c \in Bundles : Surplus(c, prices) <= Surplus(a, prices)}

\* A demand query about b: the preferred bundle, b itself when satisfied, {} when
\* the person is not and names no other.
DemandAnswers(t, b, prices) ==
    IF t.p.exact THEN BestBundles(b, prices) ELSE Bundles \cup {{}}

\* refine_via_demand_query.
AfterDemandQuery(t, b, prices) ==
    UNION { IF best = b
            THEN LET price == BundlePrice(b, prices)
                     rises == b \in DOMAIN t.p.bid /\ price > t.p.bid[b]
                 IN  {[t EXCEPT !.p = Satisfied(t.p, b, price),
                                !.floors = IF rises THEN @ \cup {<<b, prices>>} ELSE @]}
            ELSE IF best = {} THEN AfterValueQuery(t, b)
            ELSE {[r EXCEPT !.p = Diverted(t.p, b, best, r.answer[best])] :
                      r \in AfterValueQuery(t, best)}
          : best \in DemandAnswers(t, b, prices)}

\* _refine_single_bundle.
AfterRefining(t, b, prices) ==
    IF strategy = "demand_query" /\ prices # NoPrices THEN AfterDemandQuery(t, b, prices)
    ELSE IF AlreadyAsked(t.p, b) THEN {t}
    ELSE AfterValueQuery(t, b)

\* refine: an event names one bundle, or the pair of a near tie.
Refine(targets, prices) ==
    /\ events < MaxEvents
    /\ events' = events + 1
    /\ \E one \in AfterRefining(s, targets[1], prices) :
          IF Len(targets) = 1 THEN s' = one
          ELSE \E two \in AfterRefining(one, targets[2], prices) : s' = two
    /\ UNCHANGED <<strategy, truth>>

\* reset_refinement_state, between two clock runs over one proxy.
Reset ==
    /\ s' = [s EXCEPT !.p.refined = {}, !.p.count = 0]
    /\ UNCHANGED <<strategy, truth, events>>

EventTargets == {<<b>> : b \in Bundles} \cup {<<a, b>> : a \in Bundles, b \in Bundles}

Next ==
    \/ \E targets \in EventTargets, prices \in PriceVectors \cup {NoPrices} :
          Refine(targets, prices)
    \/ Reset

Spec == Init /\ [][Next]_vars

-----------------------------------------------------------------------------

\* With exact answers only the bundle revalued last may undercut one of its
\* subsets: the repair exempts nothing else (llm/proxies.py:972-981).
OnlyLastAnswerUndercuts ==
    \A a, b \in Bundles :
        a \subseteq b /\ s.p.bid[a] > s.p.bid[b] => b = s.last

\* No reported value ever falls below the answer it came from: repairs, floors
\* and later answers about other bundles only add to it.
NeverUnderAnswer ==
    \A b \in DOMAIN s.answer :
        s.p.bid[b] >= s.answer[b] * (IF s.p.exact THEN 1 ELSE Scale)

\* Value queries are not wasted: between two resets a bundle is asked about at
\* most once, and a bundle is provisional until it is.
AskedOnce ==
    strategy = "value_query" =>
        /\ s.p.count = Cardinality(s.p.refined)
        /\ s.p.refined \cap s.p.provisional = {}
        /\ s.p.provisional \cap DOMAIN s.answer = {}

\* The price floor of a satisfied demand answer overstates the person's value
\* only if the person wanted nothing at those prices (llm/proxies.py:1037).
FloorsOverstateOnlyUnwanted ==
    s.p.exact =>
        \A f \in s.floors :
            \/ truth[f[1]] >= BundlePrice(f[1], f[2])
            \/ \A b \in Bundles : Surplus(b, f[2]) < 0

\* An anchor never tells an estimating person less than what it answered itself,
\* however the atom was calibrated, repaired or refined since, and though a reset
\* makes a refined atom look like one to uncalibrate (llm/proxies.py:918-935).
AnchorsNeverUnderstate ==
    ~s.p.exact =>
        \A t \in DOMAIN s.quoted \cap DOMAIN s.answer : s.quoted[t] >= s.answer[t]

\* llm/proxies.py:948-949 and 974-977: exact answers are reported verbatim and
\* the monotonicity repair does not overwrite an oracle answer.
ExactAnswersStick ==
    s.p.exact /\ strategy = "value_query" =>
        \A b \in s.p.refined : s.p.bid[b] = s.answer[b]
=============================================================================
