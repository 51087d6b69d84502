----------------------------- MODULE ClockProofs -----------------------------
(***************************************************************************)
(* Theorems about the clock engine, for any oracle, any number of bidders, *)
(* items and rounds, and lemmas about how a bidder answers it.             *)
(***************************************************************************)
EXTENDS ClockDemand, AuctionLemmas

-----------------------------------------------------------------------------
(* The operators of the engine.                                            *)

\* Every position of the order names a bidder.
LEMMA OrderFacts ==
    /\ Len(Order) \in Nat
    /\ \A k \in 1..Len(Order) : Order[k] \in Bidders
BY BiddersAssumption

\* What a response counts as demanded is a sequence of bundles.
LEMMA DemandListType ==
    ASSUME NEW r, IsResponse(r)
    PROVE  DemandList(r) \in Demands
<1>1. CASE r.primaries # <<>>
    BY <1>1 DEF DemandList, IsResponse
<1>2. CASE r.primaries = <<>> /\ r.primary = NoBundle
    BY <1>2 DEF DemandList, Demands, Bundles
<1>3. CASE r.primaries = <<>> /\ r.primary # NoBundle
    <2>1. r.primary \in Bundles
        BY <1>3 DEF IsResponse
    <2> QED
        BY <1>3, <2>1 DEF DemandList, Demands
<1> QED
    BY <1>1, <1>2, <1>3

\* FirstFit answers {} or one of the demanded bundles, clear of what is taken.
LEMMA FirstFitType ==
    ASSUME NEW d \in Demands, NEW taken
    PROVE  /\ FirstFit(d, taken) \in Bundles
           /\ FirstFit(d, taken) \subseteq ItemsIn(d)
           /\ FirstFit(d, taken) \cap taken = {}
<1> DEFINE fits == {k \in DOMAIN d : d[k] # {} /\ d[k] \cap taken = {}}
           first == CHOOSE k \in fits : \A j \in fits : k <= j
<1>1. CASE fits = {}
    <2>1. FirstFit(d, taken) = {}
        BY <1>1 DEF FirstFit
    <2> QED
        BY <2>1 DEF Bundles
<1>2. CASE fits # {}
    <2>1. fits \in SUBSET Nat
        BY DEF Demands
    <2>2. first \in fits
        BY <1>2, <2>1, FirstPosition
    <2>3. FirstFit(d, taken) = d[first]
        BY <1>2 DEF FirstFit
    <2>4. d[first] \in Bundles
        BY <2>2 DEF Demands
    <2> QED
        BY <2>2, <2>3, <2>4 DEF ItemsIn
<1> QED
    BY <1>1, <1>2

\* What is taken elsewhere does not matter to a demand it does not touch.
LEMMA FirstFitUndisturbed ==
    ASSUME NEW d \in Demands, NEW taken, taken \cap ItemsIn(d) = {}
    PROVE  FirstFit(d, taken) = FirstFit(d, {})
<1> DEFINE fits(t) == {k \in DOMAIN d : d[k] # {} /\ d[k] \cap t = {}}
           pick(S)  == IF S = {} THEN {} ELSE d[CHOOSE k \in S : \A j \in S : k <= j]
<1>1. fits(taken) = fits({})
    BY DEF ItemsIn
<1>2. FirstFit(d, taken) = pick(fits(taken)) /\ FirstFit(d, {}) = pick(fits({}))
    BY DEF FirstFit
<1> HIDE DEF fits, pick
<1> QED
    BY <1>1, <1>2

\* Without excess demand no item is wanted by two bidders.
LEMMA NoExcessSeparates ==
    ASSUME NEW demands \in [Bidders -> Demands], NoExcess(Excess(demands)),
           NEW i \in Bidders, NEW j \in Bidders, i # j
    PROVE  ItemsIn(demands[i]) \cap ItemsIn(demands[j]) = {}
<1> SUFFICES ASSUME NEW x \in ItemsIn(demands[i]), x \in ItemsIn(demands[j])
             PROVE  FALSE
    OBVIOUS
<1> DEFINE wanting == {b \in Bidders : x \in ItemsIn(demands[b])}
<1>1. x \in Items
    BY DEF ItemsIn, Demands, Bundles
<1>2. IsFiniteSet(wanting)
    BY BiddersAssumption, FS_Subset
<1>3. Cardinality(wanting) \in Nat /\ Cardinality(wanting) <= 1
    <2>1. Cardinality(wanting) - 1 <= 0
        BY <1>1 DEF NoExcess, Excess
    <2> QED
        BY <1>2, <2>1, FS_CardinalityType
<1>4. {i, j} \subseteq wanting
    OBVIOUS
<1>5. Cardinality({i, j}) = 2
    <2>1. IsFiniteSet({i}) /\ Cardinality({i}) = 1
        BY FS_Singleton
    <2>2. Cardinality({i} \cup {j}) = 1 + 1
        <3>1. j \notin {i}
            OBVIOUS
        <3>2. Cardinality({i} \cup {j}) =
                  IF j \in {i} THEN Cardinality({i}) ELSE Cardinality({i}) + 1
            <4> DEFINE one == {i}
            <4>1. IsFiniteSet(one)
                BY <2>1
            <4> HIDE DEF one
            <4>2. Cardinality(one \cup {j}) =
                      IF j \in one THEN Cardinality(one) ELSE Cardinality(one) + 1
                BY <4>1, FS_AddElement
            <4> QED
                BY <4>2 DEF one
        <3> QED
            BY <2>1, <3>1, <3>2
    <2>3. {i} \cup {j} = {i, j}
        OBVIOUS
    <2> QED
        BY <2>2, <2>3
<1>6. Cardinality({i, j}) <= Cardinality(wanting)
    BY <1>2, <1>4, FS_Subset
<1> QED
    BY <1>3, <1>5, <1>6

-----------------------------------------------------------------------------
(* The inductive invariant.                                                *)

\* Which rounds are behind: while prices still rise nothing has cleared, and
\* round counts the recorded rounds.
RoundInv ==
    /\ pc = "ask" => Len(history) = round /\ round < MaxRounds
    /\ pc = "allocate" => Cleared
    /\ pc = "done" => Cleared \/ Len(history) = MaxRounds
    /\ \A k \in 1..Len(history) :
          (pc = "ask" \/ k < Len(history)) => ~NoExcess(Excess(history[k].demands))

\* What the bidders hold: nothing before the clock clears, then, for those
\* the greedy loop has passed, their first choice.
HoldInv ==
    /\ pc = "ask" => \A i \in Bidders : provisional[i] = {}
    /\ pc = "allocate" =>
          \A k \in 1..Len(Order) :
              provisional[Order[k]] =
                  IF k < turn THEN FirstFit(LastDemands[Order[k]], {}) ELSE {}
    /\ ClearedAwardsFirstChoice

IInv == TypeOK /\ RoundInv /\ HoldInv

\* A step of the engine whatever oracle answers, as long as it answers responses.
EngineStep ==
    \/ \E r : IsResponse(r) /\ Answer(r)
    \/ CloseRound
    \/ Allocate
    \/ Return
    \/ UNCHANGED vars

\* The steps of the clock are such steps.
LEMMA StepsAreEngineSteps == [Next]_vars => EngineStep
<1>1. ASSUME NEW r \in Responses, Answer(r)
      PROVE  EngineStep
    BY <1>1, ResponsesAssumption DEF EngineStep
<1> QED
    BY <1>1 DEF Next, Ask, EngineStep

-----------------------------------------------------------------------------
(* Type correctness.                                                       *)

\* The demands of a round in which everybody has answered.
LEMMA AllAnswered ==
    ASSUME TypeOK, pc = "ask", turn > Len(Order)
    PROVE  /\ DOMAIN responses = Bidders
           /\ [i \in Bidders |-> DemandList(responses[i])] \in [Bidders -> Demands]
<1>1. DOMAIN responses = Bidders
    <2>1. \A n \in 1..Len(Order) : n < turn
        BY OrderFacts DEF TypeOK
    <2>2. DOMAIN responses = {Order[k] : k \in 1..Len(Order)}
        BY <2>1 DEF TypeOK
    <2> QED
        BY <2>2, BiddersAssumption, OrderFacts
<1>2. \A i \in Bidders : DemandList(responses[i]) \in Demands
    BY <1>1, DemandListType DEF TypeOK
<1> QED
    BY <1>1, <1>2

\* Recording a round keeps the supplementary bids a table of atoms.
LEMMA RecordedType ==
    ASSUME NEW old, NEW atoms,
           DOMAIN old \subseteq Bundles \ {{}},
           \A b \in DOMAIN old : old[b] \in Nat,
           DOMAIN atoms \subseteq Bundles,
           \A b \in DOMAIN atoms : atoms[b] \in Nat
    PROVE  /\ DOMAIN Recorded(old, atoms) \subseteq Bundles \ {{}}
           /\ \A b \in DOMAIN Recorded(old, atoms) : Recorded(old, atoms)[b] \in Nat
BY DEF Recorded

\* update_prices keeps the prices natural.
LEMMA UpdatedPricesType ==
    ASSUME NEW old \in [Items -> Nat], NEW excess
    PROVE  UpdatedPrices(old, excess) \in [Items -> Nat]
BY ConfigAssumption DEF UpdatedPrices

\* The clock starts well typed.
LEMMA TypeInit == Init => TypeOK
<1> SUFFICES ASSUME Init
             PROVE  TypeOK
    OBVIOUS
<1>1. pc \in {"ask", "allocate", "done"}
    BY DEF Init
<1>2. turn \in 1..Len(Order) + 1 /\ round \in Nat
    BY OrderFacts DEF Init
<1>3. prices \in [Items -> Nat]
    BY ConfigAssumption DEF Init
<1>4. DOMAIN responses = {}
    BY DEF Init
<1>5. {n \in 1..Len(Order) : n < turn /\ pc = "ask"} = {}
    BY OrderFacts DEF Init
<1>6. history \in Seq([prices : [Items -> Nat], demands : [Bidders -> Demands]])
    BY DEF Init
<1>7. DOMAIN supplementary = Bidders
    BY DEF Init
<1>8. \A i \in Bidders : DOMAIN supplementary[i] = {}
    BY DEF Init, NoAtoms
<1>9. provisional \in [Bidders -> Bundles]
    BY DEF Init, Bundles
<1> QED
    BY <1>1, <1>2, <1>3, <1>4, <1>5, <1>6, <1>7, <1>8, <1>9 DEF TypeOK

\* The demands of the last recorded round.
LEMMA LastDemandsType ==
    ASSUME TypeOK, history # <<>>
    PROVE  /\ Len(history) \in Nat \ {0}
           /\ LastDemands \in [Bidders -> Demands]
<1> DEFINE Rounds == [prices : [Items -> Nat], demands : [Bidders -> Demands]]
<1>1. history \in Seq(Rounds)
    BY DEF TypeOK
<1>2. Len(history) \in Nat \ {0} /\ history[Len(history)] \in Rounds
    <2> HIDE DEF Rounds
    <2> QED
        BY <1>1
<1> QED
    BY <1>2 DEF LastDemands

\* Every step keeps the types.
LEMMA TypeNext ==
    ASSUME TypeOK, RoundInv, EngineStep
    PROVE  TypeOK'
<1> USE OrderFacts
<1>1. ASSUME NEW r, IsResponse(r), Answer(r)
      PROVE  TypeOK'
    <2> USE <1>1
    <2>1. IsResponse(r)
        OBVIOUS
    <2>2. turn' \in 1..Len(Order) + 1
        BY DEF Answer, TypeOK
    <2>3. (DOMAIN responses = {Order[k] : k \in {n \in 1..Len(Order) : n < turn /\ pc = "ask"}})'
        <3>1. DOMAIN responses' = DOMAIN responses \cup {Order[turn]}
            BY DEF Answer
        <3>2. {n \in 1..Len(Order) : n < turn + 1} = {n \in 1..Len(Order) : n < turn} \cup {turn}
            BY DEF Answer, TypeOK
        <3>3. DOMAIN responses = {Order[k] : k \in {n \in 1..Len(Order) : n < turn}}
            BY DEF Answer, TypeOK
        <3> QED
            BY <3>1, <3>2, <3>3 DEF Answer
    <2>4. \A i \in DOMAIN responses' : IsResponse(responses'[i])
        BY <2>1 DEF Answer, TypeOK
    <2> QED
        BY <2>2, <2>3, <2>4 DEF Answer, TypeOK
<1>2. CASE CloseRound
    <2> DEFINE demands == [i \in Bidders |-> DemandList(responses[i])]
    <2>1. DOMAIN responses = Bidders /\ demands \in [Bidders -> Demands]
        BY <1>2, AllAnswered DEF CloseRound
    <2>2. history' \in Seq([prices : [Items -> Nat], demands : [Bidders -> Demands]])
        <3>1. history' = Append(history, [prices |-> prices, demands |-> demands])
            BY <1>2 DEF CloseRound
        <3>2. [prices |-> prices, demands |-> demands]
                \in [prices : [Items -> Nat], demands : [Bidders -> Demands]]
            BY <2>1 DEF TypeOK
        <3> HIDE DEF demands
        <3> QED
            BY <3>1, <3>2 DEF TypeOK
    <2>3. prices' \in [Items -> Nat]
        BY <1>2, UpdatedPricesType DEF CloseRound, TypeOK
    <2>4. DOMAIN supplementary' = Bidders
        BY <1>2 DEF CloseRound
    <2>5. \A i \in Bidders : /\ DOMAIN supplementary'[i] \subseteq Bundles \ {{}}
                             /\ \A b \in DOMAIN supplementary'[i] : supplementary'[i][b] \in Nat
        <3> TAKE i \in Bidders
        <3>1. supplementary'[i] = Recorded(supplementary[i], responses[i].atoms)
            BY <1>2 DEF CloseRound
        <3>2. IsResponse(responses[i])
            BY <2>1 DEF TypeOK
        <3> QED
            BY <3>1, <3>2, RecordedType DEF TypeOK, IsResponse
    <2>6. /\ pc' \in {"ask", "allocate", "done"}
          /\ turn' = 1
          /\ round' \in Nat
          /\ provisional' = provisional
        BY <1>2 DEF CloseRound, TypeOK
    <2>7. DOMAIN responses' = {} /\ {n \in 1..Len(Order) : n < turn' /\ pc' = "ask"} = {}
        BY <1>2 DEF CloseRound
    <2> QED
        BY <2>2, <2>3, <2>4, <2>5, <2>6, <2>7 DEF TypeOK
<1>3. CASE Allocate
    <2>1. turn' \in 1..Len(Order) + 1
        BY <1>3 DEF Allocate, TypeOK
    <2>2. Order[turn] \in Bidders
        BY <1>3 DEF Allocate, TypeOK
    <2>3. FirstFit(LastDemands[Order[turn]], Taken) \in Bundles
        <3>1. LastDemands \in [Bidders -> Demands]
            BY <1>3, LastDemandsType DEF Allocate, RoundInv, Cleared
        <3> QED
            BY <2>2, <3>1, FirstFitType
    <2> QED
        BY <1>3, <2>1, <2>3 DEF Allocate, TypeOK
<1>4. CASE Return
    BY <1>4 DEF Return, TypeOK
<1>5. CASE UNCHANGED vars
    BY <1>5 DEF vars, TypeOK
<1> QED
    BY <1>1, <1>2, <1>3, <1>4, <1>5 DEF EngineStep

-----------------------------------------------------------------------------
(* The rounds.                                                             *)

\* What CloseRound appends is what Cleared reads afterwards.
LEMMA AppendedRound ==
    ASSUME TypeOK, NEW rec \in [prices : [Items -> Nat], demands : [Bidders -> Demands]],
           history' = Append(history, rec)
    PROVE  /\ Len(history) \in Nat
           /\ Len(history') = Len(history) + 1
           /\ \A k \in 1..Len(history) : history'[k] = history[k]
           /\ history'[Len(history')] = rec
           /\ LastDemands' = rec.demands
           /\ Cleared' <=> NoExcess(Excess(rec.demands))
<1> DEFINE Rounds == [prices : [Items -> Nat], demands : [Bidders -> Demands]]
<1>1. history \in Seq(Rounds) /\ rec \in Rounds
    BY DEF TypeOK
<1>2. /\ Len(history) \in Nat
      /\ Len(history') = Len(history) + 1
      /\ \A k \in 1..Len(history) : history'[k] = history[k]
      /\ history'[Len(history')] = rec
      /\ history' # <<>>
    <2> HIDE DEF Rounds
    <2> QED
        BY <1>1
<1>3. LastDemands' = rec.demands
    BY <1>2 DEF LastDemands
<1> QED
    BY <1>2, <1>3 DEF Cleared

\* Before the first round nothing is claimed of the last.
LEMMA RoundInit == Init => RoundInv
<1> SUFFICES ASSUME Init
             PROVE  RoundInv
    OBVIOUS
<1>1. history = <<>> /\ Len(history) = 0
    BY DEF Init
<1>2. MaxRounds # 0 => 0 < MaxRounds
    BY ConfigAssumption
<1> QED
    BY <1>1, <1>2 DEF Init, RoundInv

\* Every step keeps what the phase knows of the recorded rounds.
LEMMA RoundNext ==
    ASSUME TypeOK, RoundInv, EngineStep
    PROVE  RoundInv'
<1>1. ASSUME NEW r, Answer(r)
      PROVE  RoundInv'
    BY <1>1 DEF Answer, RoundInv, Cleared, LastDemands
<1>2. CASE CloseRound
    <2> DEFINE demands == [i \in Bidders |-> DemandList(responses[i])]
               rec     == [prices |-> prices, demands |-> demands]
               clear   == NoExcess(Excess(demands))
    <2>1. demands \in [Bidders -> Demands]
        BY <1>2, AllAnswered DEF CloseRound
    <2>2. rec \in [prices : [Items -> Nat], demands : [Bidders -> Demands]]
        BY <2>1 DEF TypeOK
    <2>3. history' = Append(history, rec)
        BY <1>2 DEF CloseRound
    <2>4. /\ Len(history) \in Nat
          /\ Len(history') = Len(history) + 1
          /\ \A k \in 1..Len(history) : history'[k] = history[k]
          /\ history'[Len(history')] = rec
          /\ Cleared' <=> clear
        <3> HIDE DEF rec
        <3>1. rec.demands = demands
            BY DEF rec
        <3> HIDE DEF demands
        <3> QED
            BY <2>2, <2>3, <3>1, AppendedRound
    <2>5. Len(history) = round /\ round < MaxRounds
        BY <1>2 DEF CloseRound, RoundInv
    <2>6. \A k \in 1..Len(history) : ~NoExcess(Excess(history[k].demands))
        BY <1>2 DEF CloseRound, RoundInv
    <2>7. \A k \in 1..Len(history') :
             (k < Len(history') \/ ~clear) => ~NoExcess(Excess(history'[k].demands))
        <3> TAKE k \in 1..Len(history')
        <3>1. CASE k <= Len(history)
            BY <2>4, <2>6, <3>1
        <3>2. CASE k = Len(history')
            BY <2>4, <3>2
        <3> QED
            BY <2>4, <3>1, <3>2
    <2>8. CASE clear
        <3>1. pc' = "allocate"
            BY <1>2, <2>8 DEF CloseRound
        <3> HIDE DEF clear
        <3> QED
            BY <2>4, <2>7, <2>8, <3>1 DEF RoundInv
    <2>9. CASE ~clear
        <3>1. /\ pc' = IF RoundsLeft(round) THEN "ask" ELSE "done"
              /\ round' = IF RoundsLeft(round) THEN round + 1 ELSE round
            BY <1>2, <2>9 DEF CloseRound
        <3>2. pc' = "ask" => Len(history') = round' /\ round' < MaxRounds
            BY <2>4, <2>5, <3>1 DEF RoundsLeft
        <3>3. pc' # "ask" => pc' = "done" /\ Len(history') = MaxRounds
            BY <2>4, <2>5, <3>1, ConfigAssumption DEF RoundsLeft, TypeOK
        <3> HIDE DEF clear
        <3> QED
            BY <2>7, <2>9, <3>2, <3>3 DEF RoundInv
    <2> QED
        BY <2>8, <2>9
<1>3. CASE Allocate
    BY <1>3 DEF Allocate, RoundInv, Cleared, LastDemands
<1>4. CASE Return
    BY <1>4 DEF Return, RoundInv, Cleared, LastDemands
<1>5. CASE UNCHANGED vars
    BY <1>5 DEF vars, RoundInv, Cleared, LastDemands
<1> QED
    BY <1>1, <1>2, <1>3, <1>4, <1>5 DEF EngineStep

-----------------------------------------------------------------------------
(* The provisional allocation.                                             *)

\* At the start nobody holds anything.
LEMMA HoldInit == Init => HoldInv
BY DEF Init, HoldInv, ClearedAwardsFirstChoice, Cleared

\* Whoever the greedy loop has passed holds items it demanded; the bidder whose
\* turn it is therefore finds its first choice free.
LEMMA FirstChoiceIsFree ==
    ASSUME TypeOK, RoundInv, HoldInv, pc = "allocate", turn <= Len(Order)
    PROVE  FirstFit(LastDemands[Order[turn]], Taken) = FirstFit(LastDemands[Order[turn]], {})
<1> USE OrderFacts
<1> DEFINE me == Order[turn]
<1>1. turn \in 1..Len(Order) /\ me \in Bidders
    BY DEF TypeOK
<1>2. history # <<>> /\ NoExcess(Excess(LastDemands)) /\ LastDemands \in [Bidders -> Demands]
    BY LastDemandsType DEF RoundInv, Cleared
<1>3. \A i \in Bidders : provisional[i] \cap ItemsIn(LastDemands[me]) = {}
    <2> TAKE i \in Bidders
    <2>1. PICK k \in 1..Len(Order) : Order[k] = i
        BY BiddersAssumption
    <2>2. CASE k < turn
        <3>1. i # me
            <4>1. k # turn
                BY <1>1, <2>2
            <4>2. Order[k] # Order[turn]
                BY <1>1, <4>1, BiddersAssumption
            <4> QED
                BY <2>1, <4>2
        <3>2. provisional[i] \subseteq ItemsIn(LastDemands[i])
            BY <1>2, <2>1, <2>2, FirstFitType DEF HoldInv
        <3>3. ItemsIn(LastDemands[i]) \cap ItemsIn(LastDemands[me]) = {}
            BY <1>1, <1>2, <3>1, NoExcessSeparates
        <3> QED
            BY <3>2, <3>3
    <2>3. CASE ~(k < turn)
        BY <2>1, <2>3 DEF HoldInv
    <2> QED
        BY <2>2, <2>3
<1>4. Taken \cap ItemsIn(LastDemands[me]) = {}
    BY <1>3 DEF Taken
<1> QED
    BY <1>1, <1>2, <1>4, FirstFitUndisturbed

\* Every step keeps what the greedy loop has given so far.
LEMMA HoldNext ==
    ASSUME TypeOK, RoundInv, HoldInv, EngineStep
    PROVE  HoldInv'
<1> USE OrderFacts
<1>1. ASSUME NEW r, Answer(r)
      PROVE  HoldInv'
    BY <1>1 DEF Answer, HoldInv, ClearedAwardsFirstChoice, Cleared, LastDemands
<1>2. CASE CloseRound
    <2> DEFINE demands == [i \in Bidders |-> DemandList(responses[i])]
               rec     == [prices |-> prices, demands |-> demands]
               clear   == NoExcess(Excess(demands))
    <2>1. \A i \in Bidders : provisional'[i] = {}
        BY <1>2 DEF CloseRound, HoldInv
    <2>2. pc' = "allocate" => turn' = 1
        BY <1>2 DEF CloseRound
    <2>3. pc' = "done" => ~Cleared'
        <3>1. rec \in [prices : [Items -> Nat], demands : [Bidders -> Demands]]
            BY <1>2, AllAnswered DEF CloseRound, TypeOK
        <3>2. history' = Append(history, rec)
            BY <1>2 DEF CloseRound
        <3>3. rec.demands = demands
            OBVIOUS
        <3>4. pc' = "done" => ~clear
            BY <1>2 DEF CloseRound
        <3>5. Cleared' <=> clear
            <4> HIDE DEF rec, demands
            <4> QED
                BY <3>1, <3>2, <3>3, AppendedRound
        <3> QED
            BY <3>4, <3>5
    <2>4. pc' = "allocate" =>
             \A k \in 1..Len(Order) :
                provisional'[Order[k]] =
                    IF k < turn' THEN FirstFit(LastDemands'[Order[k]], {}) ELSE {}
        <3> SUFFICES ASSUME pc' = "allocate", NEW k \in 1..Len(Order)
                     PROVE  provisional'[Order[k]] =
                               IF k < turn' THEN FirstFit(LastDemands'[Order[k]], {}) ELSE {}
            OBVIOUS
        <3>1. ~(k < turn')
            BY <2>2
        <3>2. provisional'[Order[k]] = {}
            BY <2>1
        <3> QED
            BY <3>1, <3>2
    <2> QED
        BY <2>1, <2>3, <2>4 DEF HoldInv, ClearedAwardsFirstChoice
<1>3. CASE Allocate
    <2>1. Order[turn] \in Bidders /\ turn \in 1..Len(Order)
        BY <1>3 DEF Allocate, TypeOK
    <2>2. provisional' = [provisional EXCEPT
                            ![Order[turn]] = FirstFit(LastDemands[Order[turn]], {})]
        BY <1>3, FirstChoiceIsFree DEF Allocate
    <2>3. LastDemands' = LastDemands
        BY <1>3 DEF Allocate, LastDemands
    <2>4. \A k \in 1..Len(Order) :
             provisional'[Order[k]] =
                IF k < turn' THEN FirstFit(LastDemands'[Order[k]], {}) ELSE {}
        <3> TAKE k \in 1..Len(Order)
        <3>1. turn' = turn + 1
            BY <1>3 DEF Allocate
        <3>2. provisional[Order[k]] =
                 IF k < turn THEN FirstFit(LastDemands[Order[k]], {}) ELSE {}
            BY <1>3 DEF Allocate, HoldInv
        <3>3. CASE k = turn
            BY <2>1, <2>2, <2>3, <3>1, <3>3 DEF TypeOK
        <3>4. CASE k # turn
            <4>1. Order[k] # Order[turn]
                BY <2>1, <3>4, BiddersAssumption
            <4>2. k < turn + 1 <=> k < turn
                BY <2>1, <3>4
            <4> QED
                BY <2>1, <2>2, <2>3, <3>1, <3>2, <4>1, <4>2 DEF TypeOK
        <3> QED
            BY <3>3, <3>4
    <2> QED
        BY <1>3, <2>4 DEF Allocate, HoldInv, ClearedAwardsFirstChoice
<1>4. CASE Return
    <2>1. Cleared /\ LastDemands' = LastDemands
        BY <1>4 DEF Return, RoundInv, LastDemands
    <2>2. \A i \in Bidders : provisional[i] = FirstFit(LastDemands[i], {})
        <3> TAKE i \in Bidders
        <3>1. PICK k \in 1..Len(Order) : Order[k] = i
            BY BiddersAssumption
        <3>2. k < turn
            BY <1>4 DEF Return, TypeOK
        <3> QED
            BY <1>4, <3>1, <3>2 DEF Return, HoldInv
    <2> QED
        BY <1>4, <2>1, <2>2 DEF Return, HoldInv, ClearedAwardsFirstChoice, Cleared, LastDemands
<1>5. CASE UNCHANGED vars
    BY <1>5 DEF vars, HoldInv, ClearedAwardsFirstChoice, Cleared, LastDemands
<1> QED
    BY <1>1, <1>2, <1>3, <1>4, <1>5 DEF EngineStep

-----------------------------------------------------------------------------
(* The prices.                                                             *)

\* The rounds in which item x was overdemanded.
HotRounds(h, x) == {k \in 1..Len(h) : Excess(h[k].demands)[x] > 0}

\* At the start every price is the reserve.
LEMMA PriceInit == Init => PriceCountsOverdemand
<1> SUFFICES ASSUME Init, NEW x \in Items
             PROVE  prices[x] = Reserve + Step * Cardinality(HotRounds(history, x))
    BY DEF PriceCountsOverdemand, HotRounds
<1>1. HotRounds(history, x) = {}
    BY DEF Init, HotRounds
<1>2. Cardinality(HotRounds(history, x)) = 0
    BY <1>1, FS_EmptySet
<1> QED
    BY <1>2, ConfigAssumption DEF Init

\* A round that raises a price is also the record that counts it.
LEMMA PriceNext ==
    ASSUME TypeOK, RoundInv, PriceCountsOverdemand, EngineStep
    PROVE  PriceCountsOverdemand'
<1>1. CASE prices' = prices /\ history' = history
    BY <1>1 DEF PriceCountsOverdemand
<1>2. CASE CloseRound
    <2> DEFINE demands == [i \in Bidders |-> DemandList(responses[i])]
               rec     == [prices |-> prices, demands |-> demands]
               excess  == Excess(demands)
    <2> SUFFICES ASSUME NEW x \in Items
                 PROVE  prices'[x] = Reserve + Step * Cardinality(HotRounds(history', x))
        BY DEF PriceCountsOverdemand, HotRounds
    <2>1. prices[x] = Reserve + Step * Cardinality(HotRounds(history, x))
        BY DEF PriceCountsOverdemand, HotRounds
    <2>2. /\ Len(history) \in Nat
          /\ Len(history') = Len(history) + 1
          /\ \A k \in 1..Len(history) : history'[k] = history[k]
          /\ history'[Len(history) + 1] = rec
        <3>1. rec \in [prices : [Items -> Nat], demands : [Bidders -> Demands]]
            BY <1>2, AllAnswered DEF CloseRound, TypeOK
        <3>2. history' = Append(history, rec)
            BY <1>2 DEF CloseRound
        <3> HIDE DEF rec
        <3> QED
            BY <3>1, <3>2, AppendedRound
    <2>3. IsFiniteSet(HotRounds(history, x)) /\ Cardinality(HotRounds(history, x)) \in Nat
        <3>1. IsFiniteSet(1..Len(history))
            BY <2>2, FS_Interval
        <3>2. IsFiniteSet(HotRounds(history, x))
            BY <3>1, FS_Subset DEF HotRounds
        <3> QED
            BY <3>2, FS_CardinalityType
    <2>4. rec.demands = demands
        OBVIOUS
    <2>5. excess[x] \in Int
        <3>1. IsFiniteSet({i \in Bidders : x \in ItemsIn(demands[i])})
            BY BiddersAssumption, FS_Subset
        <3>2. excess[x] = Cardinality({i \in Bidders : x \in ItemsIn(demands[i])}) - 1
            BY DEF Excess
        <3> QED
            BY <3>1, <3>2, FS_CardinalityType
    <2>6. prices'[x] = IF excess[x] > 0 THEN prices[x] + Step ELSE prices[x]
        <3>1. NoExcess(excess) => prices' = prices
            BY <1>2 DEF CloseRound
        <3>2. ~NoExcess(excess) => prices' = UpdatedPrices(prices, excess)
            BY <1>2 DEF CloseRound
        <3> HIDE DEF excess
        <3> QED
            BY <2>5, <3>1, <3>2 DEF NoExcess, UpdatedPrices
    <2> HIDE DEF excess
    <2>7. excess = Excess(rec.demands)
        BY <2>4 DEF excess
    <2> HIDE DEF demands, rec
    <2>8. CASE excess[x] > 0
        <3>1. HotRounds(history', x) = HotRounds(history, x) \cup {Len(history) + 1}
            BY <2>2, <2>7, <2>8 DEF HotRounds
        <3>2. Len(history) + 1 \notin HotRounds(history, x)
            BY <2>2 DEF HotRounds
        <3>3. Cardinality(HotRounds(history', x)) = Cardinality(HotRounds(history, x)) + 1
            BY <2>3, <3>1, <3>2, FS_AddElement
        <3> QED
            BY <2>1, <2>3, <2>6, <2>8, <3>3, ConfigAssumption
    <2>9. CASE ~(excess[x] > 0)
        <3>1. HotRounds(history', x) = HotRounds(history, x)
            BY <2>2, <2>7, <2>9 DEF HotRounds
        <3> QED
            BY <2>1, <2>6, <2>9, <3>1
    <2> QED
        BY <2>8, <2>9
<1> QED
    BY <1>1, <1>2 DEF EngineStep, Answer, Allocate, Return, vars

-----------------------------------------------------------------------------
(* Demand.                                                                 *)

\* A table: natural values on bundles of items, none of them empty.
IsTable(v) ==
    /\ DOMAIN v \subseteq Bundles \ {{}}
    /\ \A b \in DOMAIN v : v[b] \in Nat

\* Bundles are finite sets of numbers.
LEMMA BundleFacts ==
    ASSUME NEW b \in Bundles
    PROVE  b \in SUBSET Nat /\ IsFiniteSet(b) /\ Cardinality(b) \in Nat
BY ItemsAssumption, DemandAssumption, FS_Subset, FS_CardinalityType DEF Bundles

\* There are finitely many bundles.
LEMMA BundlesFinite == IsFiniteSet(Bundles)
BY ItemsAssumption, FS_SUBSET DEF Bundles

\* The price of a bundle is a natural number that no item of it exceeds.
LEMMA BundlePriceCovers ==
    ASSUME NEW p \in [Items -> Nat], NEW b \in Bundles
    PROVE  /\ BundlePrice(b, p) \in Nat
           /\ \A x \in b : p[x] <= BundlePrice(b, p)
<1>1. IsFiniteSet(b) /\ \A x \in b : p[x] \in Nat /\ p[x] \in Int
    BY BundleFacts DEF Bundles
<1>2. SumFunctionOnSet(p, b) \in Nat
    BY <1>1, SumIsNat
<1>3. ASSUME NEW x \in b
      PROVE  p[x] <= SumFunctionOnSet(p, b)
    <2>1. SumFunctionOnSet(p, b) = p[x] + SumFunctionOnSet(p, b \ {x})
        BY <1>1, SumStep
    <2>2. SumFunctionOnSet(p, b \ {x}) \in Nat
        <3>1. IsFiniteSet(b \ {x}) /\ \A y \in b \ {x} : p[y] \in Nat
            BY <1>1, FS_Subset
        <3> QED
            BY <3>1, SumIsNat
    <2> QED
        BY <1>1, <2>1, <2>2
<1> QED
    BY <1>2, <1>3 DEF BundlePrice

\* demand_rank_key orders the bundles of a table strictly and totally.
LEMMA RanksOrder ==
    ASSUME NEW v, IsTable(v), NEW p \in [Items -> Nat],
           NEW a \in DOMAIN v, NEW b \in DOMAIN v, NEW c \in DOMAIN v
    PROVE  /\ Surplus(v, a, p) \in Int
           /\ ~RanksBefore(v, p, a, a)
           /\ RanksBefore(v, p, a, b) /\ RanksBefore(v, p, b, c) => RanksBefore(v, p, a, c)
           /\ a # b => RanksBefore(v, p, a, b) \/ RanksBefore(v, p, b, a)
<1>1. \A x \in DOMAIN v : Surplus(v, x, p) \in Int
    BY BundlePriceCovers DEF Surplus, IsTable
<1>2. \A x \in DOMAIN v : x \in SUBSET Nat /\ IsFiniteSet(x) /\ Cardinality(x) \in Nat
    BY BundleFacts DEF IsTable
<1>3. \A x, y \in DOMAIN v :
          Cardinality(x) = Cardinality(y) => (LexLess(x, y) <=> FirstIn(x, y))
    BY <1>2, LexIsFirst
<1>4. \A x, y \in DOMAIN v :
          RanksBefore(v, p, x, y) <=>
              \/ Surplus(v, x, p) > Surplus(v, y, p)
              \/ /\ Surplus(v, x, p) = Surplus(v, y, p)
                 /\ \/ Cardinality(x) < Cardinality(y)
                    \/ Cardinality(x) = Cardinality(y) /\ FirstIn(x, y)
    BY <1>3 DEF RanksBefore
<1>5. \A x, y, z \in DOMAIN v :
          /\ ~FirstIn(x, x)
          /\ FirstIn(x, y) /\ FirstIn(y, z) => FirstIn(x, z)
          /\ x # y => FirstIn(x, y) \/ FirstIn(y, x)
    BY <1>2, FirstInOrders
<1>6. ~RanksBefore(v, p, a, a)
    BY <1>1, <1>2, <1>4, <1>5
<1>7. RanksBefore(v, p, a, b) /\ RanksBefore(v, p, b, c) => RanksBefore(v, p, a, c)
    BY <1>1, <1>2, <1>4, <1>5
<1>8. a # b => RanksBefore(v, p, a, b) \/ RanksBefore(v, p, b, a)
    BY <1>1, <1>2, <1>4, <1>5
<1> QED
    BY <1>1, <1>6, <1>7, <1>8

\* The ranked bundles are taken from those ranked, and nothing that is ranked comes
\* before the first.
LEMMA RankedPicks ==
    ASSUME NEW v, IsTable(v), NEW p \in [Items -> Nat], NEW S \in SUBSET DOMAIN v,
           NEW n \in Nat \ {0}
    PROVE  /\ Ranked(n, v, p, S) \in Seq(S)
           /\ S = {} => Ranked(n, v, p, S) = <<>>
           /\ S # {} => /\ Ranked(n, v, p, S) # <<>>
                        /\ Ranked(n, v, p, S)[1] \in S
                        /\ \A a \in S : Surplus(v, a, p) <= Surplus(v, Ranked(n, v, p, S)[1], p)
<1> DEFINE R == {ab \in S \X S : RanksBefore(v, p, ab[1], ab[2])}
           place(b) == Cardinality({a \in S : RanksBefore(v, p, a, b)}) + 1
           N == Cardinality(S)
           M == Min({n, N})
           ranked == Ranked(n, v, p, S)
<1>1. IsFiniteSet(S) /\ N \in Nat
    BY BundlesFinite, FS_Subset, FS_CardinalityType DEF IsTable
<1>2. \A k \in 1..N : \E b \in S : place(b) = k
    <2>1. \A a, b \in S : <<a, b>> \in R <=> RanksBefore(v, p, a, b)
        OBVIOUS
    <2>2. \A b \in S : {a \in S : RanksBefore(v, p, a, b)} = Predecessors(R, S, b)
        BY <2>1 DEF Predecessors
    <2>3. \A k \in 1..N : \E b \in S : Cardinality(Predecessors(R, S, b)) + 1 = k
        <3> HIDE DEF R, N
        <3>1. \A a \in S : <<a, a>> \notin R
            BY <2>1, RanksOrder
        <3>2. \A a, b, c \in S : <<a, b>> \in R /\ <<b, c>> \in R => <<a, c>> \in R
            BY <2>1, RanksOrder
        <3>3. \A a, b \in S : a # b => <<a, b>> \in R \/ <<b, a>> \in R
            BY <2>1, RanksOrder
        <3>4. Orders(R, S)
            BY <3>1, <3>2, <3>3 DEF Orders
        <3> QED
            BY <1>1, <3>4, PlacesAreTaken DEF N
    <2> HIDE DEF R
    <2> QED
        BY <2>2, <2>3
<1>3. M \in Nat /\ M <= N /\ (N # 0 => 1 <= M)
    <2>1. \A x \in {n, N} : x \in Nat
        BY <1>1
    <2>2. M \in {n, N} /\ \A x \in {n, N} : M <= x
        <3>1. {n, N} \in SUBSET Nat /\ {n, N} # {}
            BY <2>1
        <3> HIDE DEF N
        <3> QED
            BY <3>1, FirstPosition DEF Min
    <2> HIDE DEF M, N
    <2> QED
        BY <1>1, <2>1, <2>2
<1>4. ranked = [k \in 1..M |-> CHOOSE b \in S : place(b) = k]
    BY DEF Ranked
<1>5. \A k \in 1..M : (CHOOSE b \in S : place(b) = k) \in S
                      /\ place(CHOOSE b \in S : place(b) = k) = k
    <2>1. \A k \in 1..M : k \in 1..N
        <3> HIDE DEF M, N
        <3> QED
            BY <1>1, <1>3
    <2> HIDE DEF place, M, N
    <2> QED
        BY <1>2, <2>1
<1> HIDE DEF ranked, M, N
<1>6. ranked \in Seq(S)
    <2> DEFINE pick(k) == CHOOSE b \in S : place(b) = k
    <2>1. ranked = [k \in 1..M |-> pick(k)] /\ \A k \in 1..M : pick(k) \in S
        BY <1>4, <1>5
    <2> HIDE DEF pick, place
    <2>2. ranked \in [1..M -> S]
        BY <2>1
    <2> QED
        BY <1>3, <2>2
<1>7. ASSUME S = {}
      PROVE  ranked = <<>>
    <2>1. N = 0
        BY <1>7, FS_EmptySet DEF N
    <2>2. M = 0
        BY <1>3, <2>1
    <2> QED
        BY <1>4, <2>2
<1>8. ASSUME S # {}
      PROVE  /\ ranked # <<>>
             /\ ranked[1] \in S
             /\ \A a \in S : Surplus(v, a, p) <= Surplus(v, ranked[1], p)
    <2>1. 1 \in 1..M
        <3>1. N # 0
            BY <1>1, <1>8, FS_EmptySet DEF N
        <3> QED
            BY <1>3, <3>1
    <2> DEFINE top == CHOOSE b \in S : place(b) = 1
    <2>2. ranked[1] = top /\ ranked # <<>>
        <3> HIDE DEF place
        <3> QED
            BY <1>4, <2>1
    <2>3. top \in S /\ place(top) = 1
        <3> HIDE DEF place
        <3> QED
            BY <1>5, <2>1
    <2> HIDE DEF top
    <2>4. {a \in S : RanksBefore(v, p, a, top)} = {}
        <3> DEFINE before == {a \in S : RanksBefore(v, p, a, top)}
        <3>1. IsFiniteSet(before)
            BY <1>1, FS_Subset
        <3>2. Cardinality(before) \in Nat /\ Cardinality(before) + 1 = 1
            <4>1. Cardinality(before) \in Nat
                <5> HIDE DEF before
                <5> QED
                    BY <3>1, FS_CardinalityType
            <4> QED
                BY <2>3, <4>1
        <3> HIDE DEF before
        <3>3. before = {}
            BY <3>1, <3>2, FS_EmptySet
        <3> QED
            BY <3>3 DEF before
    <2>5. ASSUME NEW a \in S
          PROVE  Surplus(v, a, p) <= Surplus(v, top, p)
        <3>1. ~(Surplus(v, a, p) > Surplus(v, top, p))
            BY <2>4 DEF RanksBefore
        <3>2. Surplus(v, a, p) \in Int /\ Surplus(v, top, p) \in Int
            BY <2>3, RanksOrder
        <3> QED
            BY <3>1, <3>2
    <2> QED
        BY <2>2, <2>3, <2>5
<1> QED
    BY <1>6, <1>7, <1>8 DEF ranked

\* The oracle answers a response that demands the best of the wanted bundles.
LEMMA TruthfulDemand ==
    ASSUME NEW v, IsTable(v), NEW p \in [Items -> Nat]
    PROVE  /\ IsResponse(DemandAtPrices(v, p))
           /\ DemandAtPrices(v, p).atoms = v
           /\ DemandList(DemandAtPrices(v, p)) = Ranked(TopK, v, p, Wanted(v, p))
           /\ DemandList(DemandAtPrices(v, p)) \in Seq(Wanted(v, p))
<1> DEFINE best == Ranked(TopK, v, p, Wanted(v, p))
           r == DemandAtPrices(v, p)
<1>1. Wanted(v, p) \in SUBSET DOMAIN v /\ Wanted(v, p) \subseteq Bundles
    BY DEF Wanted, IsTable
<1>2. best \in Seq(Wanted(v, p)) /\ (best # <<>> => best[1] \in Wanted(v, p))
    <2> DEFINE W == Wanted(v, p)
    <2>1. W \in SUBSET DOMAIN v /\ TopK \in Nat \ {0}
        BY <1>1, DemandAssumption
    <2> HIDE DEF W
    <2>2. /\ Ranked(TopK, v, p, W) \in Seq(W)
          /\ W = {} => Ranked(TopK, v, p, W) = <<>>
          /\ W # {} => Ranked(TopK, v, p, W)[1] \in W
        BY <2>1, RankedPicks
    <2> QED
        BY <2>2 DEF W
<1>3. /\ r.primaries = best
      /\ r.primary = IF best = <<>> THEN NoBundle ELSE best[1]
      /\ r.atoms = v
    BY DEF DemandAtPrices
<1> HIDE DEF best, r
<1>4. IsResponse(r)
    <2>1. best \in Demands
        BY <1>1, <1>2 DEF Demands
    <2> QED
        BY <1>1, <1>2, <1>3, <2>1 DEF IsResponse, IsTable
<1>5. DemandList(r) = best
    BY <1>3 DEF DemandList
<1> QED
    BY <1>2, <1>3, <1>4, <1>5 DEF best, r

-----------------------------------------------------------------------------
(* The theorems.                                                           *)

\* The inductive invariant holds of every run of the clock.
THEOREM ClockInvariant == Spec => []IInv
<1>1. Init => IInv
    BY TypeInit, RoundInit, HoldInit DEF IInv
<1>2. IInv /\ [Next]_vars => IInv'
    BY StepsAreEngineSteps, TypeNext, RoundNext, HoldNext DEF IInv
<1> QED
    BY <1>1, <1>2, PTL DEF Spec

\* The clock keeps its types whatever the oracle answers.
THEOREM ClockTypeCorrect == Spec => []TypeOK
<1>1. IInv => TypeOK
    BY DEF IInv
<1> QED
    BY <1>1, ClockInvariant, PTL

\* A clock that ends has cleared or used up its rounds, and cleared in no
\* earlier round.
THEOREM ClockStops == Spec => []StopsOnlyClearedOrCapped
<1>1. IInv => StopsOnlyClearedOrCapped
    BY DEF IInv, RoundInv, StopsOnlyClearedOrCapped
<1> QED
    BY <1>1, ClockInvariant, PTL

\* When the clock clears everybody is provisionally given its first choice.
THEOREM ClockAwardsFirstChoice == Spec => []ClearedAwardsFirstChoice
<1>1. IInv => ClearedAwardsFirstChoice
    BY DEF IInv, HoldInv
<1> QED
    BY <1>1, ClockInvariant, PTL

\* A price is the reserve plus a step for every round that overdemanded the item.
THEOREM ClockPrices == Spec => []PriceCountsOverdemand
<1>1. Init => PriceCountsOverdemand
    BY PriceInit
<1>2. IInv /\ PriceCountsOverdemand /\ [Next]_vars => PriceCountsOverdemand'
    BY StepsAreEngineSteps, PriceNext DEF IInv
<1> QED
    BY <1>1, <1>2, ClockInvariant, PTL DEF Spec
=============================================================================
