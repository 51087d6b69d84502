--------------------------- MODULE ClockElicitation ---------------------------
(***************************************************************************)
(* The clock run over language-model proxies that are refined on the way:  *)
(* experiments/proxy_clock_runner.py composed with the clock of            *)
(* auctions/clock.py and the proxies of llm/proxies.py.                    *)
(*                                                                         *)
(* The proxies start from provisional values, and the persons behind them  *)
(* answer value queries from their ground truth (Scale = 1), the           *)
(* setting of the frozen experiments.  The solver is deterministic; how it *)
(* breaks ties is unknown, and here it favours one bidder.                 *)
(***************************************************************************)
EXTENDS ClockDemand, XorProxy, EventPolicy, SequencesExt

CONSTANTS
    Policies,       \* the configurations an experiment may be run under
    Truths,         \* what a person may truly value
    Guesses         \* what the bulk valuation may have reported

Named == Bundles \ {{}}

\* The factors that are off by default: pivotal_challengers, scarcity_fallbacks,
\* large_correction_followup, gate_near_zero_surplus, top_k_frontier_policy ("all" or
\* "allocation_pivotal"), allocation_counterfactual_frontier,
\* contested_bundle_refinement, terminal_regret_audit with
\* terminal_best_losing_challenger, and frontier_pivotal_challengers.
Switches == {"pivotal", "scarcity", "followup", "gate", "top_k", "allocation_pivotal",
             "counterfactual", "contested", "terminal_challenger", "frontier_challenger"}

\* The fields of ProxyClockConfig: event_framework, supplementary_support_policy,
\* incumbent_verification with allocation_change_audit, margin_threshold,
\* tie_threshold, max_refinements_per_bidder and max_total_refinements (0: no cap),
\* and the factors that are on; driver is the function that runs the clock,
\* run_proxy_clock_experiment or run_proxy_clock_trajectory.
ProxyClockConfig ==
    [framework : {"legacy", "targeted_v1", "frontier_v1"},
     support   : {"all_atoms", "demand_revealed"},
     audited   : BOOLEAN,
     margin    : Nat,
     tie       : Nat,
     bidderCap : Nat,
     totalCap  : Nat,
     switches  : SUBSET Switches,
     driver    : {"experiment", "trajectory"}]

ASSUME ElicitationAssumption ==
    /\ Policies \subseteq ProxyClockConfig
    /\ Truths \subseteq [Named -> Nat] /\ Guesses \subseteq [Named -> Nat]
    /\ Scale = 1 /\ MaxRounds > 0 /\ Items # {}

VARIABLES
    policy,     \* the configuration of the experiment
    truth,      \* ground_truth_valuations of every person
    favoured,   \* the bidder the solver's tie-breaking favours
    stage,      \* "clock", then the terminal phases, then "final" and "priced"
    proxies,    \* the proxy of every bidder
    issued,     \* states[i].refined_bundles: bundles an event was issued for
    lastPrimary,\* states[i].previous_primary_bundle
    marks,      \* states[i]: which of its once-only events were issued
    topSeen,    \* states[i].seen_top_k_frontier_bundles
    revealed,   \* audit_state.revealed_atoms
    checked,    \* audit_state.checked_rounds: how many rounds were audited
    previous,   \* audit_state.previous_allocation
    iteration,  \* iterations of the current terminal loop
    outcome     \* the final allocation

evars == <<vars, policy, truth, favoured, stage, proxies, issued, lastPrimary, marks,
           topSeen, revealed, checked, previous, iteration, outcome>>

\* What the handlers do not touch.
fixed == <<policy, truth, favoured>>

\* What only the demand oracle touches.
oracleVars == <<lastPrimary, topSeen>>

On(switch) == switch \in policy.switches

NoOutcome == [i \in {} |-> {}]

-----------------------------------------------------------------------------
\* The winner determination, a function of the bids.
Solve(bids) == Solved(bids, favoured)

CurrentBids == [i \in Bidders |-> proxies[i].bid]

\* The pairs of bidder and bundle an allocation awards, in the order of bidders.
Awards(alloc) ==
    LET who == Picked(Order, {k \in DOMAIN Order :
                   Order[k] \in DOMAIN alloc /\ alloc[Order[k]] # {}})
    IN  [k \in DOMAIN who |-> <<who[k], alloc[who[k]]>>]

\* _winner_removal_frontier: what is awarded when a winner loses its atom, or
\* altogether.
Frontier(bids, alloc, wholeBidder) ==
    LET counterfactual(i) ==
            IF wholeBidder THEN Without(bids, i)
            ELSE [bids EXCEPT ![i] = Restrict(@, DOMAIN @ \ {alloc[i]})]
        awards == Awards(alloc)
    IN  FlattenSeq([k \in DOMAIN awards |-> Awards(Solve(counterfactual(awards[k][1])))])

\* The state the query loops fold over.
Session == [proxies |-> proxies, issued |-> issued, revealed |-> revealed,
            supplementary |-> supplementary, marks |-> marks, count |-> 0,
            followup |-> {}]

\* Mutated: the whole bid is looked at, whatever was demanded.
ReportedEverything(s, restricted) == [i \in Bidders |-> s.proxies[i].bid]

\* The bids a reported winner determination sees; restricted are the atoms that
\* count under demand_revealed.
Reported(s, restricted) ==
    IF policy.support = "demand_revealed" THEN restricted
    ELSE [i \in Bidders |-> s.proxies[i].bid]

\* aggregate_query_counts: the value queries made so far.
QueryCount(ps) == SumFunction([i \in Bidders |-> ps[i].count])

\* Mutated: the refinement caps are not looked at.
CapAllowsAlways(ps, i) == TRUE

\* _refinement_cap_allows.
CapAllows(ps, i) ==
    /\ policy.bidderCap = 0 \/ ps[i].count < policy.bidderCap
    /\ policy.totalCap = 0 \/ QueryCount(ps) < policy.totalCap

\* LlmAuctionProxyAdapter.refine of one bundle by value query.
RefinedProxy(p, b, answer) == IF AlreadyAsked(p, b) THEN p ELSE Revalued(p, b, answer)

\* Mutated: the bundle is refined but not remembered as issued.
IssueForgotten(s, i, bundles) ==
    [s EXCEPT !.proxies[i] = FoldLeft(LAMBDA p, b : RefinedProxy(p, b, truth[i][b]), @, bundles),
              !.count = @ + 1]

\* An event for bidder i: its last bundle is marked issued, all are refined.
Issue(s, i, bundles) ==
    [s EXCEPT !.issued[i] = @ \cup {Last(bundles)},
              !.proxies[i] = FoldLeft(LAMBDA p, b : RefinedProxy(p, b, truth[i][b]), @, bundles),
              !.count = @ + 1]

\* Whether an event for the bundle is still to be issued.
Open(s, i, b) == b # {} /\ b \notin s.issued[i] /\ CapAllows(s.proxies, i)

\* A query of a terminal or allocation audit; keep says where the refined atom
\* is recorded besides the proxy: "revealed", "supplementary" or "nowhere".
AuditQuery(s, pair, keep) ==
    LET i == pair[1]
        b == pair[2]
        t == Issue(s, i, <<b>>)
        atoms(old) == Upsert(old, b, t.proxies[i].bid[b])
    IN  IF Open(s, i, b)
        THEN [t EXCEPT !.revealed[i] = IF keep = "revealed" THEN atoms(@) ELSE @,
                       !.supplementary[i] = IF keep = "supplementary" THEN atoms(@) ELSE @]
        ELSE s

AuditQueries(s, pairs, keep) ==
    FoldLeft(LAMBDA t, pair : AuditQuery(t, pair, keep), s, pairs)

-----------------------------------------------------------------------------
EInit ==
    /\ Init
    /\ policy \in Policies
    /\ truth \in [Bidders -> Truths]
    /\ favoured \in Bidders
    /\ stage = "clock"
    /\ proxies \in [Bidders -> {ProvisionalProxy(g, TRUE) : g \in Guesses}]
    /\ issued = [i \in Bidders |-> {}]
    /\ lastPrimary = [i \in Bidders |-> NoBundle]
    /\ marks = [i \in Bidders |-> {}]
    /\ topSeen = [i \in Bidders |-> {}]
    /\ revealed = [i \in Bidders |-> NoAtoms]
    /\ checked = 0
    /\ previous = NoOutcome
    /\ iteration = 0
    /\ outcome = NoOutcome

\* allocation_counterfactual_frontier: at most one exposed bundle per bidder.
CounterfactualQueries(s) ==
    LET bids    == Reported(s, s.revealed)
        once(t, pair) == IF t.issued[pair[1]] # s.issued[pair[1]] THEN t
                         ELSE AuditQuery(t, pair, "nowhere")
    IN  IF On("counterfactual") THEN FoldLeft(once, s, Frontier(bids, Solve(bids), FALSE)) ELSE s

\* _audit_changed_allocation, once per round before the first bidder answers:
\* the bundles the reported allocation newly awards are queried.
AuditAllocation ==
    /\ policy.audited
    /\ pc = "ask" /\ turn = 1 /\ checked = round
    /\ LET now   == Solve(Reported(Session, revealed))
           first == previous = NoOutcome
           awards == Awards(now)
           fresh == Picked(awards, {k \in DOMAIN awards :
                        first \/ awards[k][2] # previous[awards[k][1]]})
           keep  == IF policy.support = "demand_revealed" THEN "revealed" ELSE "nowhere"
           s     == IF now = previous \/ (first /\ ~On("counterfactual")) THEN Session
                    ELSE CounterfactualQueries(AuditQueries(Session, fresh, keep))
       IN  /\ proxies' = s.proxies
           /\ issued' = s.issued
           /\ revealed' = s.revealed
           /\ previous' = now
    /\ checked' = checked + 1
    /\ UNCHANGED <<vars, fixed, stage, oracleVars, marks, iteration, outcome>>

-----------------------------------------------------------------------------
(* The demand oracle.                                                      *)

\* What the oracle knows of bidder i before any event of the round: the surplus of
\* its bundles, ranked, and current_primary_bundle.
View(i) ==
    LET bid     == proxies[i].bid
        surplus == [b \in DOMAIN bid |-> Surplus(bid, b, prices)]
        ranked  == Ranked(Cardinality(Named), bid, prices, DOMAIN bid)
        now     == IF surplus[ranked[1]] > 0 THEN ranked[1] ELSE NoBundle
    IN  [surplus |-> surplus, ranked |-> ranked, now |-> now,
         switched |-> lastPrimary[i] # NoBundle /\ lastPrimary[i] # now]

\* _contested_goods_by_round of the round before.
Contested ==
    IF history = <<>> THEN {} ELSE {x \in Items : Excess(LastDemands)[x] > 0}

\* The reported welfare lost by giving bidder i the bundle.
GapNow(i, b) == ForcedGap(CurrentBids, i, b, OptWelfare(CurrentBids))

Magnitude(n) == IF n < 0 THEN -n ELSE n

\* candidate_refinements, gated and filtered as the factors say.  An event is the
\* sequence of bundles it spans and is about the last of them; one that must be
\* pivotal for the allocation spans no other.
PriceEvents(i, view) ==
    LET best   == view.ranked[1]
        second == view.ranked[2]
        margin == view.surplus[best]
        pivotal(b) == On("allocation_pivotal") => GapNow(i, b) <= policy.tie
        alone    == view.now = NoBundle \/ On("allocation_pivotal")
        nearZero == margin \in 0..policy.margin /\ (On("gate") => best \cap Contested # {})
        changed  == view.switched /\ pivotal(lastPrimary[i])
        nearTie  == /\ Len(view.ranked) > 1 /\ margin - view.surplus[second] <= policy.tie
                    /\ pivotal(second)
    IN  (IF nearZero THEN <<<<best>>>> ELSE <<>>)
        \o (IF changed THEN <<<<lastPrimary[i]>>>> ELSE <<>>)
        \o (IF nearTie THEN <<IF alone THEN <<second>> ELSE <<view.now, second>>>> ELSE <<>>)

\* The demand switches of targeted_v1.
SwitchEvents(i, view) ==
    IF ~view.switched THEN <<>>
    ELSE (IF view.now = NoBundle THEN <<>> ELSE <<<<view.now>>>>) \o <<<<lastPrimary[i]>>>>

\* contested_bundle_refinement, once per bidder: the closest bundle it would also
\* like that meets the contested goods, {} if there is none.
ContestedAlternative(i, view) ==
    LET options == {b \in DOMAIN view.surplus \ issued[i] :
                       view.surplus[b] > 0 /\ b # view.now /\ b \cap Contested # {}}
    IN  IF ~On("contested") \/ "contested" \in marks[i] THEN {}
        ELSE LeastBy(options, [b \in options |->
                 <<-view.surplus[b], -Cardinality(b \cap Contested)>>])

\* pivotal_challengers: of the three best bundles the one whose forced allocation is
\* nearest to the incumbent one, unless the bidder is awarded its primary.
PivotalChallenger(i, view) ==
    LET top     == Range(SubSeq(view.ranked, 1, Min({3, Len(view.ranked)})))
        gap     == [b \in {c \in top \ issued[i] : view.surplus[c] > 0} |->
                       <<Magnitude(GapNow(i, b))>>]
    IN  IF ~On("pivotal") \/ view.now = NoBundle \/ Solve(CurrentBids)[i] = view.now THEN {}
        ELSE LeastBy({b \in DOMAIN gap : gap[b][1] <= policy.tie}, gap)

\* scarcity_fallbacks, once per bidder.
ScarcityFallback(i, view) ==
    IF ~On("scarcity") \/ "scarcity" \in marks[i] \/ Contested = {} \/ view.now = NoBundle
    THEN {}
    ELSE BestScarcityAvoiding(proxies[i].bid, view.now, Contested, issued[i])

FrontierByPivotality == On("allocation_pivotal") /\ policy.framework = "legacy"

\* The top-k bundles of positive surplus, where new ones raise an event.
TopFrontier(view) ==
    LET top == {k \in DOMAIN view.ranked : k <= TopK /\ view.surplus[view.ranked[k]] > 0}
    IN  IF On("top_k") \/ FrontierByPivotality THEN Picked(view.ranked, top) ELSE <<>>

FrontierEvents(i, view) ==
    LET top == TopFrontier(view)
        new == Picked(top, {k \in DOMAIN top :
                   /\ top[k] \notin topSeen[i]
                   /\ FrontierByPivotality => GapNow(i, top[k]) <= policy.tie})
    IN  [k \in DOMAIN new |-> <<new[k]>>]

\* The events of a round for bidder i, in the order they are refined.
Candidates(i, view) ==
    LET single(b) == IF b = {} THEN <<>> ELSE <<<<b>>>>
    IN  CASE policy.framework = "legacy" ->
                PriceEvents(i, view) \o single(PivotalChallenger(i, view))
                \o single(ScarcityFallback(i, view)) \o FrontierEvents(i, view)
          [] policy.framework = "targeted_v1" ->
                SwitchEvents(i, view) \o single(ContestedAlternative(i, view))
                \o FrontierEvents(i, view)
          [] policy.framework = "frontier_v1" -> FrontierEvents(i, view)

\* The once-only events of a round are used up by being raised, refined or not.
Raised(i, view) ==
    (IF policy.framework = "legacy" /\ ScarcityFallback(i, view) # {} THEN {"scarcity"} ELSE {})
    \cup (IF policy.framework = "targeted_v1" /\ ContestedAlternative(i, view) # {}
          THEN {"contested"} ELSE {})

\* An event is refined; once per bidder a large correction adds an event about a
\* neighbour of the bundle corrected last.
Refine(s, i, span) ==
    LET t     == Issue(s, i, span)
        asked == Picked(span, {k \in DOMAIN span : ~AlreadyAsked(s.proxies[i], span[k])})
        large == \E b \in Range(asked) : IsLargeCorrection(s.proxies[i].bid[b], truth[i][b], 25)
        near  == IF On("followup") /\ "followup" \notin s.marks[i] /\ large
                 THEN BestNeighbour(t.proxies[i].bid, Last(asked), t.issued[i]) ELSE {}
    IN  IF ~Open(s, i, Last(span)) THEN s
        ELSE IF near = {} THEN t
        ELSE [t EXCEPT !.marks[i] = @ \cup {"followup"}, !.followup = near]

\* The neighbour of the bundle corrected last is refined last.
Followed(s, i) == IF s.followup = {} THEN s ELSE Refine(s, i, <<s.followup>>)

\* The session after the events of bidder i.
Questioned(i, view) ==
    Followed(FoldLeft(LAMBDA s, span : Refine(s, i, span),
                      [Session EXCEPT !.marks[i] = @ \cup Raised(i, view)],
                      Candidates(i, view)), i)

\* Bidder i answers with its full demand, or with what it demanded of it.
Respond(i, full, demanded) ==
    /\ Answer(IF policy.support = "demand_revealed"
              THEN [full EXCEPT !.atoms = demanded] ELSE full)
    /\ lastPrimary' = [lastPrimary EXCEPT ![i] = full.primary]
    /\ revealed' = [revealed EXCEPT ![i] = Recorded(@, demanded)]

\* The answer from the bid as the session left it.
RespondRefined(i, view, s, full) ==
    /\ Respond(i, full, Restrict(full.atoms, Range(full.primaries)))
    /\ proxies' = s.proxies
    /\ issued' = s.issued
    /\ marks' = s.marks
    /\ topSeen' = [topSeen EXCEPT ![i] = @ \cup Range(TopFrontier(view))]
    /\ UNCHANGED <<fixed, stage, checked, previous, iteration, outcome>>

\* The demand oracle: refine what the events ask for, then answer from the refined bid.
Elicit ==
    /\ turn <= Len(Order)
    /\ policy.audited => checked = round + 1
    /\ \E i \in {Order[turn]} : \E view \in {View(i)} : \E s \in {Questioned(i, view)} :
          RespondRefined(i, view, s, DemandAtPrices(s.proxies[i].bid, prices))

\* The rounds close and the clock stops as in Clock.
Run ==
    /\ CloseRound \/ Allocate \/ Return
    /\ UNCHANGED <<fixed, stage, proxies, issued, oracleVars, marks, revealed, checked,
                   previous, iteration, outcome>>

\* Mutated: the corrections made during the clock are not synchronised.
SynchroniseNothing ==
    /\ pc = "done" /\ stage = "clock"
    /\ stage' = IF policy.framework = "frontier_v1" THEN "witnesses" ELSE "stability"
    /\ UNCHANGED <<vars, fixed, proxies, issued, oracleVars, marks, revealed, checked,
                   previous, iteration, outcome>>

\* The audit's corrections are recorded again before the terminal audit.
Synchronised == [i \in Bidders |-> Recorded(supplementary[i], revealed[i])]

\* run_proxy_clock_experiment after the clock; run_proxy_clock_trajectory starts the
\* terminal audit at once.
Synchronise ==
    /\ pc = "done" /\ stage = "clock"
    /\ stage' = IF policy.framework = "frontier_v1" THEN "witnesses" ELSE "stability"
    /\ supplementary' = IF policy.support = "demand_revealed" /\ policy.driver = "experiment"
                        THEN Synchronised ELSE supplementary
    /\ UNCHANGED <<pc, turn, round, prices, responses, history, provisional, fixed,
                   proxies, issued, oracleVars, marks, revealed, checked, previous,
                   iteration, outcome>>

\* max_iterations of the terminal loops.
MaxIterations ==
    1 + SumFunction([i \in Bidders |-> Cardinality(DOMAIN proxies[i].bid)])

\* What the queries of session s leave to the mechanism.
Queried(s) ==
    /\ proxies' = s.proxies
    /\ issued' = s.issued
    /\ supplementary' = s.supplementary
    /\ UNCHANGED <<pc, turn, round, prices, responses, history, provisional, fixed,
                   oracleVars, revealed, checked, previous, outcome>>

\* Mutated: one iteration is enough.
LoopOnce(s, after) ==
    /\ Queried(s)
    /\ marks' = s.marks
    /\ iteration' = 0 /\ stage' = after

\* One iteration of a terminal loop that ended in session s: the loop goes on
\* while it queries something and has iterations left.
Loop(s, after) ==
    /\ Queried(s)
    /\ marks' = s.marks
    /\ IF s.count > 0 /\ iteration + 1 < MaxIterations
       THEN iteration' = iteration + 1 /\ UNCHANGED stage
       ELSE iteration' = 0 /\ stage' = after

\* Of the bundles every bidder may be asked about, those whose forced allocation costs
\* no more than a near tie; key ranks them by that gap first.
NearlyTied(key) ==
    [i \in Bidders |-> Restrict(key[i], {b \in DOMAIN key[i] : key[i][b][1] <= policy.tie})]

\* The bidder and bundle that come first by key, if any.
Nearest(key) ==
    LET closest == [i \in Bidders |-> LeastBy(DOMAIN key[i], key[i])]
        who     == {k \in DOMAIN Order : DOMAIN key[Order[k]] # {}}
        least   == {k \in who : \A l \in who :
                       ~KeyBefore(key[Order[l]][closest[Order[l]]],
                                  key[Order[k]][closest[Order[k]]])}
        first   == Order[Min(least)]
    IN  IF who = {} THEN <<>> ELSE <<<<first, closest[first]>>>>

\* terminal_regret_audit and terminal_best_losing_challenger: of the three best
\* bundles of every bidder that are neither awarded nor issued, the one whose
\* forced allocation is nearest to the given welfare.  The bids are the proxies',
\* whatever the support is.
TerminalChallenger(s, now, welfare) ==
    LET bids    == [i \in Bidders |-> s.proxies[i].bid]
        open(i) == Positive(bids[i], s.issued[i] \cup {now[i]})
        rank(i, b)  == <<-bids[i][b], Cardinality(b)>>
        ahead(i, b) == {c \in open(i) :
                           \/ KeyBefore(rank(i, c), rank(i, b))
                           \/ rank(i, c) = rank(i, b) /\ c # b /\ LexLess(c, b)}
    IN  Nearest(NearlyTied([i \in Bidders |->
            [b \in {c \in open(i) : Cardinality(ahead(i, c)) < 3} |->
                <<Magnitude(ForcedGap(bids, i, b, welfare))>>]]))

\* The challenger's query of an iteration; targeted_v1 makes one in all.
ChallengerQuery(s, pairs, keep) ==
    LET t == AuditQueries(s, pairs, keep)
    IN  IF t.count = s.count \/ policy.framework # "targeted_v1" THEN t
        ELSE [t EXCEPT !.marks[pairs[1][1]] = @ \cup {"challenger"}]

\* Under all_atoms every bid is recorded again if anything was queried.
Rerecorded(s) ==
    IF policy.support = "all_atoms" /\ s.count > 0
    THEN [s EXCEPT !.supplementary = [i \in Bidders |-> Recorded(@[i], s.proxies[i].bid)]]
    ELSE s

\* An iteration of _terminal_stability_audit: the winners, what their removal
\* exposes and a challenger are queried.
StabilityPass(s) ==
    LET bids == Reported(s, s.supplementary)
        now  == Solve(bids)
        keep == IF policy.support = "demand_revealed" THEN "supplementary" ELSE "nowhere"
        targeted == policy.framework = "targeted_v1"
        issue == On("terminal_challenger")
                 /\ (targeted => \A i \in Bidders : "challenger" \notin s.marks[i])
        challenger == IF issue THEN TerminalChallenger(s, now, Welfare(bids, now)) ELSE <<>>
    IN  Rerecorded(ChallengerQuery(
            AuditQueries(s, Awards(now) \o Frontier(bids, now, targeted), keep),
            challenger, keep))

StabilityAudit == stage = "stability" /\ Loop(StabilityPass(Session), "final")

\* Mutated: only the atom a winner holds is removed.
RevealedWitnessesOfAtoms(s) ==
    LET bids == Reported(s, s.supplementary)
        all  == Frontier(bids, Solve(bids), FALSE)
    IN  Picked(all, {k \in DOMAIN all : all[k][2] \in DOMAIN s.revealed[all[k][1]]})

\* The awards a removed winner exposes that were demanded during the clock.
RevealedWitnesses(s) ==
    LET bids == Reported(s, s.supplementary)
        all  == Frontier(bids, Solve(bids), TRUE)
    IN  Picked(all, {k \in DOMAIN all : all[k][2] \in DOMAIN s.revealed[all[k][1]]})

Winners(s) == Awards(Solve(Reported(s, s.supplementary)))

\* frontier_pivotal_challengers: for every winner the strongest losing bundle that
\* was demanded during the clock and overlaps what it wins.
FrontierChallengers(s) ==
    LET bids == Reported(s, s.supplementary)
        now  == Solve(bids)
        rivals(w, i) == {b \in DOMAIN s.revealed[i] \cap DOMAIN bids[i] :
                            i # w /\ b # now[i] /\ b \cap now[w] # {}}
        strongest(w) == Nearest(NearlyTied([i \in Bidders |-> [b \in rivals(w, i) |->
            <<ForcedGap(bids, i, b, Welfare(bids, now)), -Surplus(s.revealed[i], b, prices)>>]]))
    IN  IF On("frontier_challenger")
        THEN FlattenSeq([k \in DOMAIN Order |-> strongest(Order[k])]) ELSE <<>>

\* _terminal_clock_frontier_audit, the single pass over the frozen challengers and
\* witnesses.
VerifyWitnesses ==
    /\ stage = "witnesses"
    /\ Queried(AuditQueries(Session,
                            FrontierChallengers(Session) \o RevealedWitnesses(Session),
                            "supplementary"))
    /\ stage' = "winners"
    /\ UNCHANGED <<marks, iteration>>

\* An iteration of the winner closure.
CloseWinners ==
    /\ stage = "winners"
    /\ Loop(AuditQueries(Session, Winners(Session), "supplementary"), "staged")

\* An iteration of the staged revealed closure: the revealed witnesses, then the
\* winners of the corrected bids.
CloseStaged ==
    /\ stage = "staged"
    /\ LET s == AuditQueries(Session, RevealedWitnesses(Session), "supplementary")
       IN  Loop(AuditQueries(s, Winners(s), "supplementary"), "final")

\* _build_clock_mechanism_result: the allocation of the supplementary bids.
Price ==
    /\ stage = "final"
    /\ stage' = "priced"
    /\ outcome' = Solve(supplementary)
    /\ UNCHANGED <<vars, fixed, proxies, issued, oracleVars, marks, revealed, checked,
                   previous, iteration>>

ENext ==
    \/ AuditAllocation \/ Elicit \/ Run \/ Synchronise
    \/ StabilityAudit \/ VerifyWitnesses \/ CloseWinners \/ CloseStaged
    \/ Price

ESpec == EInit /\ [][ENext]_evars

-----------------------------------------------------------------------------

Capped == \E i \in Bidders : ~CapAllows(proxies, i)

\* proxy_clock_runner.py:1135: the closures verify newly selected bundles to a fixed
\* point.  Unless a cap binds, nobody is awarded a bundle that was never queried.
AwardsAreVerified ==
    stage = "priced" /\ ~Capped =>
        \A i \in Bidders : outcome[i] # {} => outcome[i] \in proxies[i].refined

\* So it is, through every correction and repair in between, where the audit looks at
\* the bids that are priced: everywhere but in frontier_v1 over all atoms.
AuditedAwardsAreVerified ==
    policy.framework # "frontier_v1" \/ policy.support = "demand_revealed" => AwardsAreVerified

\* Unless a cap binds, neither is any bundle that removing a winner exposes in
\* the bids the audits look at; frontier_v1 leaves alone what the clock did not
\* reveal.
CounterfactualsAreVerified ==
    stage = "priced" /\ ~Capped =>
        LET bids    == Reported(Session, supplementary)
            exposed == Frontier(bids, Solve(bids), policy.framework # "legacy")
        IN  \A k \in DOMAIN exposed :
                LET i == exposed[k][1]
                    b == exposed[k][2]
                IN  policy.framework # "frontier_v1" \/ b \in DOMAIN revealed[i]
                        => b \in proxies[i].refined

\* proxy_clock_runner.py:1977-1978: exact corrections made during the clock reach
\* the mechanism's bids, as answered or as repairs have raised them since.
CorrectionsReachTheBids ==
    stage = "priced" =>
        \A i \in Bidders :
            \A b \in DOMAIN supplementary[i] \cap proxies[i].refined :
                supplementary[i][b] \in truth[i][b]..proxies[i].bid[b]

\* They do reach it where every bid is recorded again after the last query, and
\* under frontier_v1, where each query records its own atom, if they are synchronised
\* and the rounds query awards only: what they are asked to query besides need not be
\* demanded again, and the value it had when it was demanded stands.
AuditedCorrectionsReachTheBids ==
    \/ policy.support = "all_atoms"
    \/ /\ policy.framework = "frontier_v1" /\ policy.driver = "experiment"
       /\ ~On("top_k") /\ ~On("counterfactual")
    => CorrectionsReachTheBids

\* Under demand_revealed the mechanism sees the bundles demanded at the posted prices
\* and no others, whatever the audits ask about; only the terminal challenger, which
\* ranks the whole bid and records what it asked, brings in another.
SupportIsWhatWasDemanded ==
    policy.support = "demand_revealed" /\ ~On("terminal_challenger") =>
        \A i \in Bidders :
            DOMAIN supplementary[i] =
                UNION {Range(history[k].demands[i]) : k \in DOMAIN history}

\* A near tie spans two bundles, so a cap is overrun by one query at most, and no
\* bidder is asked about a bundle twice.
CapsOverrunByOne ==
    /\ policy.bidderCap > 0 => \A i \in Bidders : proxies[i].count <= policy.bidderCap + 1
    /\ policy.totalCap > 0 => QueryCount(proxies) <= policy.totalCap + 1
    /\ \A i \in Bidders : proxies[i].count = Cardinality(proxies[i].refined)

\* A terminal loop ends because it found nothing to query, never because it ran
\* out of iterations: when one is left, nothing is left to query.
LoopsEndByThemselves ==
    iteration + 1 < MaxIterations \/ \A i \in Bidders : Named \subseteq issued[i]
=============================================================================
