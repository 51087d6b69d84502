------------------------- MODULE TruthfulClockProofs -------------------------
(***************************************************************************)
(* Theorems about the clock asked of bidders who know their own tables, for*)
(* any number of bidders, items and rounds and any tables: what the final  *)
(* allocation is worth, what clearing prices support, and that prices end  *)
(* the clock by themselves.                                                *)
(***************************************************************************)
EXTENDS TruthfulClock, ClockProofs

-----------------------------------------------------------------------------
(* The inductive invariant.                                                *)

\* Everybody has a table, and answers from it at the current prices.
TruthInv ==
    /\ valuation = [i \in Bidders |-> valuation[i]]
    /\ \A i \in Bidders : valuation[i] \in Tables(i)
    /\ \A i \in DOMAIN responses : responses[i] = DemandAtPrices(valuation[i], prices)

\* The rounds recorded are those answers, the last one at the final prices if it
\* cleared, and once a round is recorded the supplementary bids are the tables.
RecordInv ==
    /\ \A k \in 1..Len(history) : \A i \in Bidders :
          history[k].demands[i] =
              DemandList(DemandAtPrices(valuation[i], history[k].prices))
    /\ Cleared => history[Len(history)].prices = prices
    /\ supplementary = [i \in Bidders |-> IF history = <<>> THEN NoAtoms ELSE valuation[i]]

\* No item is overdemanded again once its price has reached the highest value.
HotInv ==
    \A x \in Items :
        HotRounds(history, x) # {} =>
            Step * (Cardinality(HotRounds(history, x)) - 1) < HighestValue

OutcomeInv == outcome = NoOutcome \/ (pc = "done" /\ outcome \in Optima(supplementary))

TruthfulIInv ==
    IInv /\ PriceCountsOverdemand /\ TruthInv /\ RecordInv /\ HotInv /\ OutcomeInv

\* The tables of bidders are tables, no value in them above the highest.
LEMMA TablesAreTables ==
    ASSUME TruthInv
    PROVE  /\ HighestValue \in Nat
           /\ \A i \in Bidders :
                /\ IsTable(valuation[i])
                /\ valuation[i] = [b \in Named[i] |-> valuation[i][b]]
                /\ \A b \in DOMAIN valuation[i] : valuation[i][b] <= HighestValue
<1> DEFINE image == [i \in Bidders |-> Range(valuation[i])]
           all == UNION {image[i] : i \in Bidders}
           V == {0} \cup all
<1>1. ASSUME NEW i \in Bidders
      PROVE  /\ IsTable(valuation[i])
             /\ valuation[i] = [b \in Named[i] |-> valuation[i][b]]
             /\ DOMAIN valuation[i] = Named[i]
             /\ IsFiniteSet(Range(valuation[i]))
             /\ Range(valuation[i]) \subseteq Nat
    <2>1. valuation[i] \in [Named[i] -> Nat]
        BY TruthfulAssumption DEF TruthInv, Tables
    <2>2. DOMAIN valuation[i] = Named[i] /\ IsTable(valuation[i])
        BY <2>1, TruthfulAssumption DEF IsTable
    <2>3. IsFiniteSet(Named[i])
        BY BundlesFinite, FS_Subset, TruthfulAssumption
    <2>4. IsFiniteSet({valuation[i][b] : b \in Named[i]})
        BY <2>3, FiniteImage
    <2> QED
        BY <2>1, <2>2, <2>4 DEF Range
<1>2. IsFiniteSet(all)
    <2>1. IsFiniteSet({image[i] : i \in Bidders})
        <3> HIDE DEF image
        <3> QED
            BY BiddersAssumption, FiniteImage
    <2>2. \A T \in {image[i] : i \in Bidders} : IsFiniteSet(T)
        BY <1>1
    <2> HIDE DEF image
    <2> QED
        BY <2>1, <2>2, FS_UNION
<1>3. all = UNION {Range(valuation[i]) : i \in Bidders} /\ all \subseteq Nat
    BY <1>1
<1> HIDE DEF all
<1>4. IsFiniteSet(V) /\ V \subseteq Int /\ V # {}
    <2>1. IsFiniteSet({0})
        BY FS_Singleton
    <2>2. IsFiniteSet(V)
        BY <1>2, <2>1, FS_Union
    <2>3. V \subseteq Int /\ V # {}
        BY <1>3
    <2> QED
        BY <2>2, <2>3
<1>5. Max(V) \in V /\ \A y \in V : y <= Max(V)
    <2> HIDE DEF V
    <2> QED
        BY <1>4, MaxIsGreatest
<1>6. HighestValue = Max(V)
    BY <1>3 DEF HighestValue
<1>7. HighestValue \in Nat
    BY <1>3, <1>5, <1>6
<1>8. ASSUME NEW i \in Bidders, NEW b \in DOMAIN valuation[i]
      PROVE  valuation[i][b] <= HighestValue
    <2>1. valuation[i][b] \in V
        BY <1>3 DEF Range
    <2> HIDE DEF V
    <2> QED
        BY <1>5, <1>6, <2>1
<1> QED
    BY <1>1, <1>7, <1>8

\* What everybody demands in a round in which everybody has answered.
LEMMA DemandsOfRound ==
    ASSUME TypeOK, TruthInv, pc = "ask", turn > Len(Order)
    PROVE  \A i \in Bidders :
              /\ DemandList(responses[i]) = DemandList(DemandAtPrices(valuation[i], prices))
              /\ DemandList(responses[i]) \in Seq(Wanted(valuation[i], prices))
              /\ responses[i].atoms = valuation[i]
<1>1. DOMAIN responses = Bidders
    BY AllAnswered
<1>2. prices \in [Items -> Nat]
    BY DEF TypeOK
<1> QED
    BY <1>1, <1>2, TablesAreTables, TruthfulDemand DEF TruthInv

\* An item is overdemanded only at a price below the highest value.
LEMMA OverdemandedIsAffordable ==
    ASSUME TypeOK, TruthInv, pc = "ask", turn > Len(Order), NEW x \in Items,
           Excess([i \in Bidders |-> DemandList(responses[i])])[x] > 0
    PROVE  prices[x] < HighestValue
<1> DEFINE demands == [i \in Bidders |-> DemandList(responses[i])]
           wanting == {i \in Bidders : x \in ItemsIn(demands[i])}
<1>1. wanting # {}
    <2>1. Cardinality(wanting) - 1 > 0
        BY DEF Excess
    <2> HIDE DEF wanting
    <2> QED
        BY <2>1, FS_EmptySet
<1>2. PICK i \in Bidders : x \in ItemsIn(demands[i])
    BY <1>1
<1> DEFINE v == valuation[i]
<1>3. PICK k \in DOMAIN demands[i] : x \in demands[i][k]
    BY <1>2 DEF ItemsIn
<1>4. demands[i][k] \in Wanted(v, prices)
    <2>1. demands[i] \in Seq(Wanted(v, prices))
        BY DemandsOfRound
    <2> HIDE DEF demands
    <2> QED
        BY <1>3, <2>1
<1> DEFINE b == demands[i][k]
<1> HIDE DEF demands, wanting
<1>5. b \in DOMAIN v /\ v[b] - BundlePrice(b, prices) > 0
    BY <1>4 DEF Wanted, Surplus
<1>6. /\ HighestValue \in Nat /\ IsTable(v) /\ v[b] <= HighestValue
      /\ v[b] \in Nat /\ b \in Bundles
    BY <1>5, TablesAreTables DEF IsTable
<1>7. /\ prices[x] \in Nat /\ BundlePrice(b, prices) \in Nat
      /\ prices[x] <= BundlePrice(b, prices)
    BY <1>3, <1>6, BundlePriceCovers DEF TypeOK
<1> QED
    BY <1>5, <1>6, <1>7

-----------------------------------------------------------------------------
(* The steps.                                                              *)

\* At the start nothing is asked, recorded or awarded.
LEMMA TruthfulInit == TInit => TruthfulIInv
<1> SUFFICES ASSUME TInit
             PROVE  TruthfulIInv
    OBVIOUS
<1>1. Init
    BY DEF TInit
<1>2. IInv /\ PriceCountsOverdemand
    BY <1>1, TypeInit, RoundInit, HoldInit, PriceInit DEF IInv
<1>3. TruthInv
    BY DEF TInit, Init, TruthInv
<1>4. history = <<>> /\ Len(history) = 0
    BY <1>1 DEF Init
<1>5. RecordInv
    BY <1>1, <1>4 DEF Init, RecordInv, Cleared
<1>6. HotInv
    BY <1>4 DEF HotInv, HotRounds
<1>7. OutcomeInv
    BY DEF TInit, OutcomeInv
<1> QED
    BY <1>2, <1>3, <1>5, <1>6, <1>7 DEF TruthfulIInv

\* Every step is a step of the engine, or leaves the engine alone.
LEMMA TruthfulStepIsEngineStep ==
    ASSUME TypeOK, TruthInv, [TNext]_tvars
    PROVE  /\ EngineStep
           /\ valuation' = valuation
<1>1. ASSUME TAsk
      PROVE  EngineStep /\ valuation' = valuation
    <2>1. Order[turn] \in Bidders
        BY <1>1, OrderFacts DEF TAsk, TypeOK
    <2>2. IsResponse(DemandAtPrices(valuation[Order[turn]], prices))
        BY <2>1, TablesAreTables, TruthfulDemand DEF TypeOK
    <2> QED
        BY <1>1, <2>2 DEF TAsk, EngineStep
<1>2. CASE TCloseRound
    BY <1>2 DEF TCloseRound, EngineStep
<1>3. CASE TAllocate
    BY <1>3 DEF TAllocate, EngineStep
<1>4. CASE TReturn
    BY <1>4 DEF TReturn, EngineStep
<1>5. CASE Finalize
    BY <1>5 DEF Finalize, EngineStep
<1>6. CASE UNCHANGED tvars
    BY <1>6 DEF tvars, EngineStep
<1> QED
    BY <1>1, <1>2, <1>3, <1>4, <1>5, <1>6 DEF TNext

\* Answers are taken from the tables.
LEMMA TruthNext ==
    ASSUME TypeOK, TruthInv, [TNext]_tvars
    PROVE  TruthInv'
<1>1. CASE TAsk
    <2> DEFINE r == DemandAtPrices(valuation[Order[turn]], prices)
    <2>1. /\ responses' = [i \in DOMAIN responses \cup {Order[turn]} |->
                              IF i = Order[turn] THEN r ELSE responses[i]]
          /\ prices' = prices /\ valuation' = valuation
        BY <1>1 DEF TAsk, Answer
    <2>2. \A i \in DOMAIN responses' : responses'[i] = DemandAtPrices(valuation[i], prices)
        BY <2>1 DEF TruthInv
    <2> QED
        BY <2>1, <2>2 DEF TruthInv
<1>2. CASE TCloseRound
    BY <1>2 DEF TCloseRound, CloseRound, TruthInv
<1>3. CASE TAllocate
    BY <1>3 DEF TAllocate, Allocate, TruthInv
<1>4. CASE TReturn
    BY <1>4 DEF TReturn, Return, TruthInv
<1>5. CASE Finalize
    BY <1>5 DEF Finalize, vars, TruthInv
<1>6. CASE UNCHANGED tvars
    BY <1>6 DEF tvars, vars, TruthInv
<1> QED
    BY <1>1, <1>2, <1>3, <1>4, <1>5, <1>6 DEF TNext

\* What a closing round appends to the records.
LEMMA ClosingRound ==
    ASSUME TypeOK, TruthInv, TCloseRound,
           NEW demands, demands = [i \in Bidders |-> DemandList(responses[i])]
    PROVE  /\ demands \in [Bidders -> Demands]
           /\ Len(history) \in Nat
           /\ Len(history') = Len(history) + 1
           /\ \A k \in 1..Len(history) : history'[k] = history[k]
           /\ history'[Len(history) + 1] = [prices |-> prices, demands |-> demands]
           /\ Cleared' <=> NoExcess(Excess(demands))
<1> DEFINE rec == [prices |-> prices, demands |-> demands]
<1>1. demands \in [Bidders -> Demands]
    BY AllAnswered DEF TCloseRound, CloseRound
<1>2. rec \in [prices : [Items -> Nat], demands : [Bidders -> Demands]]
    BY <1>1 DEF TypeOK
<1>3. history' = Append(history, rec)
    BY DEF TCloseRound, CloseRound
<1>4. rec.demands = demands
    OBVIOUS
<1> HIDE DEF rec
<1>5. /\ Len(history) \in Nat
      /\ Len(history') = Len(history) + 1
      /\ \A k \in 1..Len(history) : history'[k] = history[k]
      /\ history'[Len(history')] = rec
      /\ Cleared' <=> NoExcess(Excess(rec.demands))
    BY <1>2, <1>3, AppendedRound
<1> QED
    BY <1>1, <1>4, <1>5 DEF rec

\* What is recorded once is recorded again, and nothing else.
LEMMA RecordedTable ==
    ASSUME TruthInv, NEW i \in Bidders
    PROVE  /\ Recorded(NoAtoms, valuation[i]) = valuation[i]
           /\ Recorded(valuation[i], valuation[i]) = valuation[i]
<1> DEFINE v == valuation[i]
<1>1. v = [b \in Named[i] |-> v[b]] /\ DOMAIN v = Named[i] /\ {} \notin Named[i]
    BY TablesAreTables, TruthfulAssumption
<1> HIDE DEF v
<1>2. Recorded(NoAtoms, v) = [b \in Named[i] |-> v[b]]
    <2>1. (DOMAIN NoAtoms \cup DOMAIN v) \ {{}} = Named[i]
        BY <1>1 DEF NoAtoms
    <2> QED
        BY <1>1, <2>1 DEF Recorded
<1>3. Recorded(v, v) = [b \in Named[i] |-> v[b]]
    <2>1. (DOMAIN v \cup DOMAIN v) \ {{}} = Named[i]
        BY <1>1
    <2> QED
        BY <1>1, <2>1 DEF Recorded
<1> QED
    BY <1>1, <1>2, <1>3 DEF v

\* Every round records what the bidders demand of their tables at its prices.
LEMMA RecordNext ==
    ASSUME TypeOK, RoundInv, TruthInv, RecordInv, [TNext]_tvars
    PROVE  RecordInv'
<1>1. valuation' = valuation
    BY TruthfulStepIsEngineStep
<1>2. CASE history' = history /\ prices' = prices /\ supplementary' = supplementary
    BY <1>1, <1>2 DEF RecordInv, Cleared, LastDemands
<1>3. CASE TCloseRound
    <2> DEFINE demands == [i \in Bidders |-> DemandList(responses[i])]
    <2>1. /\ Len(history) \in Nat
          /\ Len(history') = Len(history) + 1
          /\ \A k \in 1..Len(history) : history'[k] = history[k]
          /\ history'[Len(history) + 1] = [prices |-> prices, demands |-> demands]
          /\ Cleared' <=> NoExcess(Excess(demands))
        <3> HIDE DEF demands
        <3> QED
            BY <1>3, ClosingRound DEF demands
    <2>2. \A i \in Bidders :
             /\ demands[i] = DemandList(DemandAtPrices(valuation[i], prices))
             /\ responses[i].atoms = valuation[i]
        BY <1>3, DemandsOfRound DEF TCloseRound, CloseRound
    <2>3. \A k \in 1..Len(history') : \A i \in Bidders :
             history'[k].demands[i] =
                 DemandList(DemandAtPrices(valuation[i], history'[k].prices))
        <3> SUFFICES ASSUME NEW k \in 1..Len(history'), NEW i \in Bidders
                     PROVE  history'[k].demands[i] =
                                DemandList(DemandAtPrices(valuation[i], history'[k].prices))
            OBVIOUS
        <3>1. CASE k \in 1..Len(history)
            BY <2>1, <3>1 DEF RecordInv
        <3>2. CASE k = Len(history) + 1
            <4> HIDE DEF demands
            <4>1. history'[k].demands = demands /\ history'[k].prices = prices
                BY <2>1, <3>2
            <4> QED
                BY <2>2, <4>1
        <3> QED
            BY <2>1, <3>1, <3>2
    <2>4. Cleared' => history'[Len(history')].prices = prices'
        <3>1. NoExcess(Excess(demands)) => prices' = prices
            BY <1>3 DEF TCloseRound, CloseRound
        <3> HIDE DEF demands
        <3>2. history'[Len(history')].prices = prices
            BY <2>1
        <3> QED
            BY <2>1, <3>1, <3>2
    <2>5. supplementary' = [i \in Bidders |-> valuation[i]]
        <3>1. supplementary' = [i \in Bidders |->
                                   Recorded(supplementary[i], responses[i].atoms)]
            BY <1>3 DEF TCloseRound, CloseRound
        <3>2. \A i \in Bidders : Recorded(supplementary[i], responses[i].atoms) = valuation[i]
            BY <2>2, RecordedTable DEF RecordInv
        <3> QED
            BY <3>1, <3>2
    <2>6. history' # <<>>
        BY <2>1
    <2> QED
        BY <1>1, <2>3, <2>4, <2>5, <2>6 DEF RecordInv
<1> QED
    BY <1>2, <1>3 DEF TNext, TAsk, Answer, TAllocate, Allocate, TReturn, Return, Finalize,
                      tvars, vars

\* A bound on one product is one on its factor.
LEMMA FactorBound ==
    ASSUME NEW s \in Nat, NEW n \in Nat, NEW h \in Nat, NEW p \in Nat, NEW r \in Nat,
           p = r + s * n, p < h
    PROVE  s * n < h
<1>1. s * n \in Nat
    OBVIOUS
<1> DEFINE m == s * n
<1> HIDE DEF m
<1>2. m < h
    BY <1>1 DEF m
<1> QED
    BY <1>2 DEF m

\* The round that overdemands an item once more still found its price below the
\* highest value.
LEMMA HotNext ==
    ASSUME TypeOK, PriceCountsOverdemand, TruthInv, HotInv, [TNext]_tvars
    PROVE  HotInv'
<1>1. HighestValue' = HighestValue
    BY TruthfulStepIsEngineStep DEF HighestValue
<1>2. CASE history' = history
    BY <1>1, <1>2 DEF HotInv
<1>3. CASE TCloseRound
    <2> DEFINE demands == [i \in Bidders |-> DemandList(responses[i])]
    <2>1. /\ Len(history) \in Nat
          /\ Len(history') = Len(history) + 1
          /\ \A k \in 1..Len(history) : history'[k] = history[k]
          /\ history'[Len(history) + 1] = [prices |-> prices, demands |-> demands]
        <3> HIDE DEF demands
        <3> QED
            BY <1>3, ClosingRound DEF demands
    <2> SUFFICES ASSUME NEW x \in Items, HotRounds(history', x) # {}
                 PROVE  Step * (Cardinality(HotRounds(history', x)) - 1) < HighestValue
        BY <1>1 DEF HotInv
    <2>2. Excess(demands)[x] > 0 => prices[x] < HighestValue
        BY <1>3, OverdemandedIsAffordable DEF TCloseRound, CloseRound
    <2> HIDE DEF demands
    <2>3. history'[Len(history) + 1].demands = demands
        BY <2>1
    <2> DEFINE hot == HotRounds(history, x)
    <2>4. IsFiniteSet(hot) /\ Cardinality(hot) \in Nat
        <3>1. IsFiniteSet(1..Len(history))
            BY <2>1, FS_Interval
        <3>2. IsFiniteSet(hot)
            BY <3>1, FS_Subset DEF HotRounds
        <3> HIDE DEF hot
        <3> QED
            BY <3>2, FS_CardinalityType
    <2>5. CASE ~(Excess(demands)[x] > 0)
        <3>1. HotRounds(history', x) = HotRounds(history, x)
            BY <2>1, <2>3, <2>5 DEF HotRounds
        <3> QED
            BY <3>1 DEF HotInv
    <2>6. CASE Excess(demands)[x] > 0
        <3>1. HotRounds(history', x) = hot \cup {Len(history) + 1}
            BY <2>1, <2>3, <2>6 DEF HotRounds
        <3>2. Len(history) + 1 \notin hot
            BY <2>1 DEF HotRounds
        <3>3. prices[x] = Reserve + Step * Cardinality(hot)
            BY DEF PriceCountsOverdemand, HotRounds
        <3>4. prices[x] \in Nat /\ HighestValue \in Nat
            BY TablesAreTables DEF TypeOK
        <3> HIDE DEF hot
        <3>5. Cardinality(HotRounds(history', x)) = Cardinality(hot) + 1
            BY <2>4, <3>1, <3>2, FS_AddElement
        <3>6. Cardinality(HotRounds(history', x)) - 1 = Cardinality(hot)
            BY <2>4, <3>5
        <3>7. Step * Cardinality(hot) < HighestValue
            BY <2>2, <2>4, <2>6, <3>3, <3>4, FactorBound, ConfigAssumption
        <3> QED
            BY <3>6, <3>7
    <2> QED
        BY <2>5, <2>6
<1> QED
    BY <1>2, <1>3 DEF TNext, TAsk, Answer, TAllocate, Allocate, TReturn, Return, Finalize,
                      tvars, vars

\* Once the clock is done the supplementary bids stand.
LEMMA OutcomeNext ==
    ASSUME OutcomeInv, [TNext]_tvars
    PROVE  OutcomeInv'
BY DEF OutcomeInv, TNext, TAsk, Answer, TCloseRound, CloseRound, TAllocate, Allocate,
       TReturn, Return, Finalize, tvars, vars

\* The inductive invariant holds of every run of the truthful clock.
THEOREM TruthfulInvariant == TSpec => []TruthfulIInv
<1>1. TInit => TruthfulIInv
    BY TruthfulInit
<1>2. TruthfulIInv /\ [TNext]_tvars => TruthfulIInv'
    <2> SUFFICES ASSUME TruthfulIInv, [TNext]_tvars
                 PROVE  TruthfulIInv'
        OBVIOUS
    <2> USE DEF TruthfulIInv, IInv
    <2>1. EngineStep
        BY TruthfulStepIsEngineStep
    <2>2. IInv'
        BY <2>1, TypeNext, RoundNext, HoldNext
    <2>3. PriceCountsOverdemand'
        BY <2>1, PriceNext
    <2> QED
        BY <2>2, <2>3, TruthNext, RecordNext, HotNext, OutcomeNext
<1> QED
    BY <1>1, <1>2, PTL DEF TSpec

-----------------------------------------------------------------------------
(* The theorems.                                                           *)

\* However the clock stops, the final allocation is efficient for the true tables.
THEOREM FinalOutcomeIsEfficient == TSpec => []OutcomeIsEfficient
<1>1. TruthfulIInv => OutcomeIsEfficient
    <2> SUFFICES ASSUME TruthfulIInv, outcome # NoOutcome, MaxRounds > 0
                 PROVE  outcome \in Optima(valuation)
        BY DEF OutcomeIsEfficient
    <2>1. pc = "done" /\ outcome \in Optima(supplementary)
        BY DEF TruthfulIInv, OutcomeInv
    <2>2. history # <<>>
        <3>1. Cleared \/ Len(history) = MaxRounds
            BY <2>1 DEF TruthfulIInv, IInv, RoundInv
        <3>2. MaxRounds # 0 /\ Len(<<>>) = 0
            BY ConfigAssumption
        <3> QED
            BY <3>1, <3>2 DEF Cleared
    <2>3. supplementary = [i \in Bidders |-> valuation[i]]
        BY <2>2 DEF TruthfulIInv, RecordInv
    <2> QED
        BY <2>1, <2>3 DEF TruthfulIInv, TruthInv
<1> QED
    BY <1>1, TruthfulInvariant, PTL

\* At clearing prices everybody provisionally holds a bundle it likes best.
THEOREM ClearedIsCompetitive == TSpec => []ClearingIsCompetitive
<1>1. TruthfulIInv => ClearingIsCompetitive
    <2> SUFFICES ASSUME TruthfulIInv, pc = "done", Cleared, NEW i \in Bidders,
                        NEW won, won = IF provisional[i] = {} THEN 0
                                       ELSE Surplus(valuation[i], provisional[i], prices)
                 PROVE  /\ won >= 0
                        /\ \A b \in DOMAIN valuation[i] : Surplus(valuation[i], b, prices) <= won
        BY DEF ClearingIsCompetitive
    <2> DEFINE v == valuation[i]
               W == Wanted(v, prices)
               best == Ranked(TopK, v, prices, W)
    <2>1. IsTable(v) /\ prices \in [Items -> Nat]
        BY TablesAreTables DEF TruthfulIInv, IInv, TypeOK
    <2>2. LastDemands[i] = best
        <3>1. Len(history) \in Nat \ {0}
            BY LastDemandsType DEF Cleared, TruthfulIInv, IInv
        <3>2. LastDemands[i] = DemandList(DemandAtPrices(v, prices))
            BY <3>1 DEF LastDemands, TruthfulIInv, RecordInv
        <3> QED
            BY <2>1, <3>2, TruthfulDemand
    <2>3. provisional[i] = FirstFit(best, {})
        BY <2>2 DEF TruthfulIInv, IInv, HoldInv, ClearedAwardsFirstChoice
    <2>4. W \in SUBSET DOMAIN v /\ {} \notin W
        BY <2>1 DEF Wanted, IsTable
    <2>5. /\ best \in Seq(W)
          /\ W = {} => best = <<>>
          /\ W # {} => /\ best # <<>> /\ best[1] \in W
                       /\ \A a \in W : Surplus(v, a, prices) <= Surplus(v, best[1], prices)
        <3>1. TopK \in Nat \ {0}
            BY DemandAssumption
        <3> HIDE DEF W, v
        <3>2. W \in SUBSET DOMAIN v
            BY <2>4
        <3> QED
            BY <2>1, <3>1, <3>2, RankedPicks
    <2>6. ASSUME NEW b \in DOMAIN v
          PROVE  /\ Surplus(v, b, prices) \in Int
                 /\ b \notin W => Surplus(v, b, prices) <= 0
        <3>1. Surplus(v, b, prices) \in Int
            BY <2>1, RanksOrder
        <3> QED
            BY <3>1 DEF Wanted
    <2>7. CASE W = {}
        <3>1. FirstFit(<<>>, {}) = {}
            BY DEF FirstFit
        <3>2. won = 0
            BY <2>3, <2>5, <2>7, <3>1
        <3> QED
            BY <2>6, <2>7, <3>2
    <2>8. CASE W # {}
        <3> DEFINE top == best[1]
        <3>1. top \in W /\ \A a \in W : Surplus(v, a, prices) <= Surplus(v, top, prices)
            BY <2>5, <2>8
        <3>2. FirstFit(best, {}) = top
            <4> HIDE DEF best, W
            <4>1. 1 \in DOMAIN best /\ \A k \in DOMAIN best : best[k] # {} /\ k \in Nat /\ 1 <= k
                <5>1. best \in Seq(W) /\ best # <<>>
                    BY <2>5, <2>8
                <5>2. DOMAIN best = 1..Len(best) /\ Len(best) \in Nat /\ Len(best) # 0
                    BY <5>1
                <5>3. \A k \in DOMAIN best : best[k] \in W
                    BY <5>1
                <5>4. \A k \in DOMAIN best : best[k] # {}
                    BY <2>4, <5>3
                <5>5. 1 \in DOMAIN best /\ \A k \in DOMAIN best : k \in Nat /\ 1 <= k
                    BY <5>2
                <5> QED
                    BY <5>4, <5>5
            <4> DEFINE fits == {k \in DOMAIN best : best[k] # {} /\ best[k] \cap {} = {}}
            <4>2. fits = DOMAIN best
                BY <4>1
            <4>3. FirstFit(best, {}) = best[CHOOSE k \in fits : \A j \in fits : k <= j]
                BY <4>1, <4>2 DEF FirstFit
            <4>4. (CHOOSE k \in fits : \A j \in fits : k <= j) = 1
                <5> HIDE DEF fits
                <5>1. fits \in SUBSET Nat /\ 1 \in fits /\ \A j \in fits : 1 <= j
                    BY <4>1, <4>2
                <5> DEFINE first == CHOOSE k \in fits : \A j \in fits : k <= j
                <5>2. first \in fits /\ \A j \in fits : first <= j
                    BY <5>1, FirstPosition
                <5> HIDE DEF first
                <5>3. first \in Nat /\ first <= 1 /\ 1 <= first
                    BY <5>1, <5>2
                <5>4. first = 1
                    BY <5>3
                <5> QED
                    BY <5>4 DEF first
            <4> QED
                BY <4>3, <4>4
        <3>3. won = Surplus(v, top, prices)
            BY <2>3, <2>4, <3>1, <3>2
        <3>4. won > 0
            BY <3>1, <3>3 DEF Wanted
        <3>5. won \in Int
            BY <2>4, <2>6, <3>1, <3>3
        <3> HIDE DEF top, W
        <3> QED
            BY <2>6, <3>1, <3>3, <3>4, <3>5
    <2> QED
        BY <2>7, <2>8
<1> QED
    BY <1>1, TruthfulInvariant, PTL

\* What a product of steps below a height says of the quotient.
LEMMA QuotientBounds ==
    ASSUME NEW h \in Nat, NEW s \in Nat, s > 0
    PROVE  /\ h \div s \in Nat
           /\ \A n \in Nat : s * n < h => n <= h \div s
<1> DEFINE q == h \div s
<1>1. q \in Nat /\ h < s * q + s
    OBVIOUS
<1> HIDE DEF q
<1>2. ASSUME NEW n \in Nat, s * n < h, n > q
      PROVE  FALSE
    <2> DEFINE d == n - (q + 1)
    <2>1. d \in Nat /\ n = q + 1 + d
        BY <1>1, <1>2
    <2> HIDE DEF d
    <2>2. s * n = s * q + s + s * d
        BY <1>1, <2>1
    <2>3. s * d \in Nat /\ s * q \in Nat
        BY <1>1, <2>1
    <2> QED
        BY <1>2, <1>1, <2>2, <2>3
<1>3. \A n \in Nat : s * n < h => n <= q
    BY <1>1, <1>2
<1> QED
    BY <1>1, <1>3 DEF q

\* A round limit above the number of rounds in which some price can rise never ends
\* the clock.
THEOREM PricesEndTheClock == TSpec => []ClearsUnlessCapIsTight
<1>1. TruthfulIInv => ClearsUnlessCapIsTight
    <2> SUFFICES ASSUME TruthfulIInv, pc = "done", MaxRounds > RoundBound, Step > 0, ~Cleared
                 PROVE  FALSE
        BY DEF ClearsUnlessCapIsTight
    <2> USE DEF TruthfulIInv, IInv
    <2> DEFINE N == Len(history)
               c == (HighestValue \div Step) + 1
               hot == [x \in Items |-> HotRounds(history, x)]
               all == UNION {hot[x] : x \in Items}
    <2>1. N = MaxRounds /\ N \in Nat
        BY ConfigAssumption DEF RoundInv
    <2>2. HighestValue \in Nat /\ c \in Nat
        BY TablesAreTables, QuotientBounds, ConfigAssumption
    <2>3. Cardinality(Items) \in Nat
        BY ItemsAssumption, FS_CardinalityType
    <2>4. RoundBound = Cardinality(Items) * c + 1 /\ Cardinality(Items) * c \in Nat
        BY <2>2, <2>3 DEF RoundBound
    <2>5. N > 0 /\ history # <<>>
        <3>1. N > 0
            BY <2>1, <2>4
        <3> QED
            BY <3>1
    <2>6. 1..N \subseteq all
        <3> SUFFICES ASSUME NEW k \in 1..N
                     PROVE  \E x \in Items : Excess(history[k].demands)[x] > 0
            BY DEF HotRounds
        <3>1. ~NoExcess(Excess(history[k].demands))
            BY <2>1, <2>5 DEF RoundInv, Cleared, LastDemands
        <3>2. PICK x \in Items : ~(Excess(history[k].demands)[x] <= 0)
            BY <3>1 DEF NoExcess
        <3>3. Excess(history[k].demands)[x] \in Int
            <4> DEFINE wanting == {i \in Bidders : x \in ItemsIn(history[k].demands[i])}
            <4>1. IsFiniteSet(wanting)
                BY BiddersAssumption, FS_Subset
            <4>2. Excess(history[k].demands)[x] = Cardinality(wanting) - 1
                BY DEF Excess
            <4> HIDE DEF wanting
            <4> QED
                BY <4>1, <4>2, FS_CardinalityType
        <3> QED
            BY <3>2, <3>3
    <2>7. ASSUME NEW x \in Items
          PROVE  IsFiniteSet(hot[x]) /\ Cardinality(hot[x]) <= c
        <3>1. IsFiniteSet(1..N)
            BY <2>1, FS_Interval
        <3>2. IsFiniteSet(HotRounds(history, x))
            BY <3>1, FS_Subset DEF HotRounds
        <3> DEFINE n == Cardinality(HotRounds(history, x))
        <3>3. n \in Nat
            BY <3>2, FS_CardinalityType
        <3>4. n = 0 \/ Step * (n - 1) < HighestValue
            <4>1. HotRounds(history, x) = {} => n = 0
                BY FS_EmptySet
            <4> QED
                BY <4>1 DEF HotInv
        <3>5. hot[x] = HotRounds(history, x)
            OBVIOUS
        <3> HIDE DEF n, hot, N
        <3>6. n <= c
            <4>1. n = 0 \/ n - 1 \in Nat
                BY <3>3
            <4> QED
                BY <2>2, <3>3, <3>4, <4>1, QuotientBounds, ConfigAssumption
        <3> QED
            BY <3>2, <3>5, <3>6 DEF n
    <2>8. IsFiniteSet(all) /\ Cardinality(all) <= Cardinality(Items) * c
        <3> HIDE DEF hot, c
        <3> QED
            BY <2>2, <2>7, ItemsAssumption, UnionIsBounded
    <2>9. Cardinality(1..N) = N /\ Cardinality(1..N) <= Cardinality(all)
        <3> HIDE DEF all, N
        <3>1. Cardinality(1..N) = N
            <4>1. Cardinality(1..N) = IF 1 > N THEN 0 ELSE N - 1 + 1
                BY <2>1, FS_Interval
            <4> QED
                BY <2>1, <4>1
        <3>2. Cardinality(1..N) <= Cardinality(all)
            BY <2>6, <2>8, FS_Subset
        <3> QED
            BY <3>1, <3>2
    <2>10. Cardinality(all) \in Nat
        <3> HIDE DEF all
        <3> QED
            BY <2>8, FS_CardinalityType
    <2> HIDE DEF all, N, c, hot
    <2> QED
        BY <2>1, <2>3, <2>4, <2>8, <2>9, <2>10
<1> QED
    BY <1>1, TruthfulInvariant, PTL
=============================================================================
