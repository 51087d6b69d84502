------------------------- MODULE MCClockElicitation -------------------------
(* Two bidders over the bundles of two items; a truth is worth 1 or 4 per     *)
(* bundle, a guess 2 or 5, most for both items and least for one of them.     *)
EXTENDS ClockTrajectory

MCOrder == <<"b1", "b2">>
MCTruths == [Named -> {1, 4}]
MCGuesses == {g \in [Named -> {2, 5}] : g[{1, 2}] = 5 /\ 2 \in {g[{1}], g[{2}]}}
MCMonotoneGuesses == {g \in [Named -> {2, 5}] :
                         \A b \in Named : g[b] <= g[{1, 2}]}

MCAtomOrder == <<{1}, {2}, {1, 2}>>

\* A configuration with one width for near-zero margins and for near ties, run and
\* recorded by run_proxy_clock_trajectory.
Policy(framework, support, audited, width, switches) ==
    [framework |-> framework, support |-> support, audited |-> audited,
     margin |-> width, tie |-> width, bidderCap |-> 0, totalCap |-> 0,
     switches |-> switches, driver |-> "trajectory"]

Unrecorded(p) == [p EXCEPT !.driver = "experiment"]

MCPolicies ==
    {Policy("legacy", "all_atoms", TRUE, 0, {}),
     Policy("legacy", "all_atoms", FALSE, 1, {"scarcity", "pivotal", "followup"}),
     [Policy("legacy", "all_atoms", TRUE, 1, {"top_k", "counterfactual"})
         EXCEPT !.bidderCap = 2, !.totalCap = 3],
     Policy("legacy", "all_atoms", FALSE, 1, {"gate", "allocation_pivotal", "terminal_challenger"}),
     Policy("targeted_v1", "all_atoms", FALSE, 1, {"contested", "followup", "terminal_challenger"}),
     Policy("targeted_v1", "demand_revealed", TRUE, 1, {}),
     Policy("frontier_v1", "demand_revealed", TRUE, 1, {"frontier_challenger"}),
     Unrecorded(Policy("frontier_v1", "demand_revealed", TRUE, 1, {}))}

MCFrontierOverAllAtoms   == {Unrecorded(Policy("frontier_v1", "all_atoms", FALSE, 1, {}))}
MCTargetedOverRevealed == {Policy("targeted_v1", "demand_revealed", TRUE, 1, {})}
=============================================================================
