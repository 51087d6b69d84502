---------------------------- MODULE TruthfulClock ----------------------------
(***************************************************************************)
(* The clock asked of bidders who know their own valuation table: the      *)
(* positive-surplus oracle of instances/base.py (make_demand_oracle, and   *)
(* FullInfoAuctionProxy.demand_at_prices, which answers the same), followed*)
(* by finalize_from_supplementary_vcg.                                     *)
(***************************************************************************)
EXTENDS ClockDemand

CONSTANTS
    Named,      \* Named[i]: the bundles of bidder i's valuation table
    Values      \* the values in the tables

ASSUME TruthfulAssumption ==
    /\ Values \subseteq Nat
    /\ \A i \in Bidders : Named[i] \subseteq Bundles \ {{}}

VARIABLES
    valuation,  \* AuctionInstance.valuations
    outcome     \* the final allocation, NoOutcome until it is determined

tvars == <<vars, valuation, outcome>>

NoOutcome == [i \in {} |-> {}]

Tables(i) == [Named[i] -> Values]

-----------------------------------------------------------------------------
TInit ==
    /\ Init
    /\ valuation \in {f \in [Bidders -> UNION {Tables(i) : i \in Bidders}] :
                         \A i \in Bidders : f[i] \in Tables(i)}
    /\ outcome = NoOutcome

TAsk ==
    /\ turn <= Len(Order)
    /\ Answer(DemandAtPrices(valuation[Order[turn]], prices))
    /\ UNCHANGED <<valuation, outcome>>

TCloseRound == CloseRound /\ UNCHANGED <<valuation, outcome>>

TAllocate == Allocate /\ UNCHANGED <<valuation, outcome>>

TReturn == Return /\ UNCHANGED <<valuation, outcome>>

\* finalize_from_supplementary_vcg: the allocation; SealedVcg has the payments.
Finalize ==
    /\ pc = "done"
    /\ outcome = NoOutcome
    /\ \E a \in Optima(supplementary) : outcome' = a
    /\ UNCHANGED <<vars, valuation>>

TNext == TAsk \/ TCloseRound \/ TAllocate \/ TReturn \/ Finalize

TSpec == TInit /\ [][TNext]_tvars

-----------------------------------------------------------------------------

HighestValue == Max({0} \cup UNION {Range(valuation[i]) : i \in Bidders})

\* The rounds in which some price can still rise.
RoundBound == Cardinality(Items) * ((HighestValue \div Step) + 1) + 1

\* A round limit above that bound is never what ends the clock.
ClearsUnlessCapIsTight ==
    (pc = "done" /\ MaxRounds > RoundBound /\ Step > 0) => Cleared

\* At clearing prices every bidder provisionally holds a bundle it likes best.
ClearingIsCompetitive ==
    (pc = "done" /\ Cleared) =>
        \A i \in Bidders :
            LET v == valuation[i]
                won == IF provisional[i] = {} THEN 0 ELSE Surplus(v, provisional[i], prices)
            IN  /\ won >= 0
                /\ \A b \in DOMAIN v : Surplus(v, b, prices) <= won

\* However the clock stops, even at its round cap, the supplementary bids of
\* bidders who report their table make the final allocation truly efficient.
OutcomeIsEfficient ==
    outcome # NoOutcome /\ MaxRounds > 0 => outcome \in Optima(valuation)
=============================================================================
