-------------------------------- MODULE Clock --------------------------------
(***************************************************************************)
(* The ascending item-price clock with supplementary bids, up to the VCG   *)
(* finalization (auctions/clock.py).  The demand oracle is a parameter:    *)
(* here it may answer anything in Responses; the modules that extend this  *)
(* one give it a proxy.                                                    *)
(*                                                                         *)
(* A response has primaries (primary_bundles), primary (primary_bundle,    *)
(* NoBundle for None) and atoms, a function from bundles to values.        *)
(***************************************************************************)
EXTENDS Integers, Sequences, FiniteSets

CONSTANTS
    Items,
    Bidders,
    Order,          \* bidder_ids: Bidders in the order they are asked
    MaxRounds,      \* ClockConfig.max_rounds
    Step,           \* ClockConfig.price_step
    Reserve,        \* ClockConfig.reserve
    NoBundle,       \* primary_bundle = None
    Responses       \* what the oracle may answer

ASSUME ItemsAssumption == IsFiniteSet(Items)
ASSUME BiddersAssumption ==
    /\ Order \in Seq(Bidders)
    /\ \A b \in Bidders : \E k \in 1..Len(Order) : Order[k] = b
    /\ \A j, k \in 1..Len(Order) : Order[j] = Order[k] => j = k
    /\ IsFiniteSet(Bidders)
ASSUME ConfigAssumption == MaxRounds \in Nat /\ Step \in Nat /\ Reserve \in Nat

Bundles == SUBSET Items
Demands == Seq(Bundles)
Atoms   == UNION {[D -> Nat] : D \in SUBSET Bundles}

\* What the code may take for a response.
IsResponse(r) ==
    /\ r.primaries \in Demands
    /\ r.primary \in Bundles \cup {NoBundle}
    /\ DOMAIN r.atoms \subseteq Bundles
    /\ \A b \in DOMAIN r.atoms : r.atoms[b] \in Nat

ASSUME ResponsesAssumption == \A r \in Responses : IsResponse(r)

VARIABLES
    pc,             \* "ask", "allocate" or "done"
    turn,           \* index in Order of the bidder whose turn it is
    round,          \* state.round_idx
    prices,         \* state.prices
    responses,      \* demand_responses gathered so far in this round
    history,        \* state.history
    supplementary,  \* state.supplementary: bidder -> bundle -> value
    provisional     \* provisional_allocation

vars == <<pc, turn, round, prices, responses, history, supplementary, provisional>>

-----------------------------------------------------------------------------
NoAtoms == [b \in {} |-> 0]

\* Which bundles a response counts as demanded.
DemandList(r) ==
    IF r.primaries # <<>> THEN r.primaries
    ELSE IF r.primary = NoBundle THEN <<>> ELSE <<r.primary>>

ItemsIn(demand) == UNION {demand[k] : k \in DOMAIN demand}

\* Mutated: one unit of excess demand goes unnoticed.
ExcessOffByOne(demands) ==
    [x \in Items |-> Cardinality({i \in Bidders : x \in ItemsIn(demands[i])}) - 2]

\* compute_excess_demand: a bidder counts once for every item of its demand.
Excess(demands) ==
    [x \in Items |-> Cardinality({i \in Bidders : x \in ItemsIn(demands[i])}) - 1]

NoExcess(excess) == \A x \in Items : excess[x] <= 0

\* Mutated: one item in excess demand makes every item dearer.
UpdatedPricesTogether(old, excess) ==
    [x \in Items |-> IF NoExcess(excess) THEN old[x] ELSE old[x] + Step]

\* update_prices.
UpdatedPrices(old, excess) ==
    [x \in Items |-> IF excess[x] > 0 THEN old[x] + Step ELSE old[x]]

\* record_supplementary_bids for one bidder: the latest value of every bundle.
Recorded(old, atoms) ==
    [b \in (DOMAIN old \cup DOMAIN atoms) \ {{}} |->
        IF b \in DOMAIN atoms THEN atoms[b] ELSE old[b]]

\* The first demanded bundle that avoids what is already taken.
FirstFit(demand, taken) ==
    LET fits == {k \in DOMAIN demand : demand[k] # {} /\ demand[k] \cap taken = {}}
    IN  IF fits = {} THEN {}
        ELSE demand[CHOOSE k \in fits : \A j \in fits : k <= j]

-----------------------------------------------------------------------------
Init ==
    /\ pc = IF MaxRounds = 0 THEN "done" ELSE "ask"
    /\ turn = 1
    /\ round = 0
    /\ prices = [x \in Items |-> Reserve]
    /\ responses = [i \in {} |-> NoAtoms]
    /\ history = <<>>
    /\ supplementary = [i \in Bidders |-> NoAtoms]
    /\ provisional = [i \in Bidders |-> {}]

\* The oracle answers r to the bidder whose turn it is.
Answer(r) ==
    /\ pc = "ask"
    /\ turn <= Len(Order)
    /\ responses' = [i \in DOMAIN responses \cup {Order[turn]} |->
                        IF i = Order[turn] THEN r ELSE responses[i]]
    /\ turn' = turn + 1
    /\ UNCHANGED <<pc, round, prices, history, supplementary, provisional>>

Ask == \E r \in Responses : Answer(r)

\* Mutated: the last round is never run.
RoundsLeftButOne(r) == r + 2 < MaxRounds

\* range(cfg.max_rounds) has another round after r.
RoundsLeft(r) == r + 1 < MaxRounds

\* Everybody has answered: the round is recorded, and it clears or prices rise.
CloseRound ==
    /\ pc = "ask"
    /\ turn > Len(Order)
    /\ LET demands == [i \in Bidders |-> DemandList(responses[i])]
           excess  == Excess(demands)
       IN  /\ history' = Append(history, [prices |-> prices, demands |-> demands])
           /\ supplementary' = [i \in Bidders |->
                                  Recorded(supplementary[i], responses[i].atoms)]
           /\ IF NoExcess(excess)
              THEN pc' = "allocate" /\ UNCHANGED <<prices, round>>
              ELSE /\ prices' = UpdatedPrices(prices, excess)
                   /\ pc' = IF RoundsLeft(round) THEN "ask" ELSE "done"
                   /\ round' = IF RoundsLeft(round) THEN round + 1 ELSE round
    /\ turn' = 1
    /\ responses' = [i \in {} |-> NoAtoms]
    /\ UNCHANGED provisional

LastDemands == history[Len(history)].demands

Taken == UNION {provisional[i] : i \in Bidders}

\* One iteration of greedy_provisional_allocation.
Allocate ==
    /\ pc = "allocate"
    /\ turn <= Len(Order)
    /\ provisional' = [provisional EXCEPT
                         ![Order[turn]] = FirstFit(LastDemands[Order[turn]], Taken)]
    /\ turn' = turn + 1
    /\ UNCHANGED <<pc, round, prices, responses, history, supplementary>>

\* The clock returns its state and the provisional allocation.
Return ==
    /\ pc = "allocate"
    /\ turn > Len(Order)
    /\ pc' = "done"
    /\ UNCHANGED <<turn, round, prices, responses, history, supplementary, provisional>>

Next == Ask \/ CloseRound \/ Allocate \/ Return

Spec == Init /\ [][Next]_vars

-----------------------------------------------------------------------------
TypeOK ==
    /\ pc \in {"ask", "allocate", "done"}
    /\ turn \in 1..Len(Order) + 1
    /\ round \in Nat
    /\ prices \in [Items -> Nat]
    /\ DOMAIN responses = {Order[k] : k \in {n \in 1..Len(Order) : n < turn /\ pc = "ask"}}
    /\ \A i \in DOMAIN responses : IsResponse(responses[i])
    /\ history \in Seq([prices : [Items -> Nat], demands : [Bidders -> Demands]])
    /\ DOMAIN supplementary = Bidders
    /\ \A i \in Bidders : /\ DOMAIN supplementary[i] \subseteq Bundles \ {{}}
                          /\ \A b \in DOMAIN supplementary[i] : supplementary[i][b] \in Nat
    /\ provisional \in [Bidders -> Bundles]

\* The last round recorded left no item demanded by two bidders.
Cleared == history # <<>> /\ NoExcess(Excess(LastDemands))

\* When the clock clears, the greedy rule turns nobody's first choice down: the
\* union of a bidder's demands drives excess demand, so no earlier bidder can
\* have taken an item of a later bidder's bundle.
ClearedAwardsFirstChoice ==
    pc = "done" =>
        \A i \in Bidders :
            provisional[i] = IF Cleared THEN FirstFit(LastDemands[i], {}) ELSE {}

\* A clock that stops without clearing has used all its rounds, and every round
\* before the last left some item overdemanded.
StopsOnlyClearedOrCapped ==
    /\ pc = "done" => Cleared \/ Len(history) = MaxRounds
    /\ \A k \in 1..Len(history) :
          k < Len(history) => ~NoExcess(Excess(history[k].demands))

\* The price of an item is the reserve plus one step for every recorded round
\* in which at least two bidders wanted it: rounds are asked at the prices their
\* predecessors led to, no round raises a price twice and none lowers one.
PriceCountsOverdemand ==
    \A x \in Items :
        prices[x] = Reserve + Step * Cardinality(
            {k \in 1..Len(history) : Excess(history[k].demands)[x] > 0})
=============================================================================
