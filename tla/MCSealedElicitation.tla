------------------------- MODULE MCSealedElicitation -------------------------
(* Two bidders over the bundles of two items; a truth is worth 1 or 4 per     *)
(* bundle, a guess 2 or 5.                                                    *)
EXTENDS SealedElicitation

MCOrder == <<"b1", "b2">>
MCAtomOrder == <<{1}, {2}, {1, 2}>>
MCTruths == [Named -> {1, 4}]
MCGuesses == {g \in [Named -> {2, 5}] :
                 \A b \in Named : b \subseteq {1, 2} => g[b] <= g[{1, 2}]}

\* A configuration without caps and without the event-policy factors.
Plain(feedback, stopping, rounds) ==
    [rounds |-> rounds, feedback |-> feedback, stopping |-> stopping, challenger |-> "off",
     bidderCap |-> 0, totalCap |-> 0, incumbents |-> TRUE, pivotal |-> FALSE, gap |-> 0,
     scarcity |-> FALSE, followup |-> FALSE, correction |-> 50, regret |-> FALSE]

MCPolicies ==
    {Plain("competitive", "no_new_refinements", 7),
     [Plain("competitive", "no_new_refinements", 7) EXCEPT
         !.challenger = "shadow_price", !.scarcity = TRUE, !.followup = TRUE],
     [Plain("competitive", "no_new_refinements", 5) EXCEPT
         !.gap = 5, !.bidderCap = 2, !.totalCap = 4, !.regret = TRUE],
     [Plain("all_provisional", "no_new_refinements", 4) EXCEPT
         !.pivotal = TRUE, !.gap = 2, !.incumbents = FALSE, !.bidderCap = 2, !.totalCap = 3],
     [Plain("all_valued_bundles", "fixed_rounds", 2) EXCEPT !.totalCap = 4, !.followup = TRUE],
     [Plain("allocated_bundle", "no_new_refinements", 5) EXCEPT !.regret = TRUE, !.gap = 5],
     [Plain("allocated_bundle", "fixed_rounds", 4) EXCEPT !.pivotal = TRUE, !.gap = 1],
     Plain("lost_interested_bundle", "fixed_rounds", 0)}
=============================================================================
