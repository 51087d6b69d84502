----------------------------- MODULE FrozenPacks -----------------------------
(***************************************************************************)
(* Frozen elicitation packs (llm/frozen_elicitation.py), the scenarios     *)
(* they are bound to, and the grid of cases that shares them               *)
(* (scripts/run_scalability_experiment.py and                              *)
(* scripts/prepare_scalability_elicitation_packs.py).                      *)
(*                                                                         *)
(* A population is a sequence of profiles, one per bidder.  A bidder is    *)
(* its position in it, so that selections keep the order of the population.*)
(***************************************************************************)
EXTENDS Naturals, Sequences, FiniteSetsExt, SequencesExt, Collections, Files

CONSTANTS
    Sizes,          \* --sizes
    FixedSize,      \* --fixed-size
    CoverageOrder   \* coverage_orders: the bidders in the order they are sampled

ASSUME GridAssumption ==
    /\ Sizes \subseteq Nat \ {0} /\ IsFiniteSet(Sizes)
    /\ FixedSize \in Sizes
    /\ CoverageOrder \in Seq(Nat \ {0}) /\ IsInjective(CoverageOrder)
    /\ \A n \in Sizes : n <= Len(CoverageOrder)

-----------------------------------------------------------------------------
\* ScalabilityRun.
Case(goods, bidders) == [goods |-> goods, bidders |-> bidders]

\* build_master_pack_plans: one master for every number of goods, in ascending order.
Masters == Picked([n \in Sizes |-> n], Sizes)

\* build_scalability_runs, for one seed.
CasesOf(n) ==
    IF n = FixedSize THEN <<Case(n, n)>>
    ELSE <<Case(n, FixedSize), Case(FixedSize, n), Case(n, n)>>

Cases == FlattenSeq([k \in DOMAIN Masters |-> CasesOf(Masters[k])])

\* master_bidder_count.
MasterBidders(goods) == Max({FixedSize, goods} \cup IF goods = FixedSize THEN Sizes ELSE {})

\* The bidders of a sample of size n: nested, and not prefixes of the population.
Sample(n) == {CoverageOrder[k] : k \in 1..n}

\* make_pc_build_scenario_from_spec, as scenario_fingerprint tells scenarios apart:
\* the goods, the bidders and what the person of every bidder is made of.
Scenario(population, goods, n) ==
    [goods |-> goods, persons |-> [i \in Sample(n) |-> population[i].id]]

\* The entry of one bidder: whose answers, about which goods, and from which asking.
Entry(scenario, i, asking) ==
    [person |-> scenario.persons[i], goods |-> scenario.goods, asking |-> asking]

\* build_frozen_elicitation_pack.
Pack(population, scenario, entries) ==
    [spec |-> population, scenario |-> scenario, entries |-> entries]

\* Mutated: the scenario is not compared with the pack.
IsPackForAny(pack, population, scenario) ==
    /\ Readable(pack)
    /\ pack.scenario.goods = scenario.goods
    /\ DOMAIN scenario.persons \subseteq DOMAIN pack.scenario.persons

\* load_frozen_elicitation_pack and validate_pack_for_scenario.
IsPackFor(pack, population, scenario) ==
    /\ Readable(pack)
    /\ pack.scenario = scenario
    /\ pack.spec = population

\* project_frozen_pack_to_bidders: the same goods, fewer bidders, and the identity
\* of the target.
CanProject(parent, scenario) ==
    /\ parent.scenario.goods = scenario.goods
    /\ DOMAIN scenario.persons \subseteq DOMAIN parent.scenario.persons

Projected(parent, population, scenario) ==
    Pack(population, scenario, Restrict(parent.entries, DOMAIN scenario.persons))

\* A pack vouches only for answers of the persons it names, about its goods.
IsGenuine(pack) ==
    \A i \in DOMAIN pack.scenario.persons :
        /\ i \in DOMAIN pack.entries
        /\ pack.entries[i].person = pack.scenario.persons[i]
        /\ pack.entries[i].goods = pack.scenario.goods
=============================================================================
