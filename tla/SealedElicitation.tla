-------------------------- MODULE SealedElicitation --------------------------
(***************************************************************************)
(* The sealed auction over language-model proxies that are refined between *)
(* provisional allocations: run_proxy_sealed_vcg_trajectory of             *)
(* experiments/proxy_sealed_runner.py.                                     *)
(*                                                                         *)
(* As in ClockElicitation, the proxies start from provisional values, the  *)
(* persons answer value queries from their ground truth (Scale = 1), and   *)
(* the solver's tie-breaking, which is unknown, favours one bidder.  A     *)
(* round derives its events, gives feedback on them one at a time, may     *)
(* audit regret, and records the auction of the bids as they are.          *)
(***************************************************************************)
EXTENDS EventPolicy, XorProxy, SequencesExt

CONSTANTS
    Items,
    Bidders,
    Order,          \* instance.bidder_ids, in the order of their names
    Policies,       \* the configurations an experiment may be run under
    Truths,         \* what a person may truly value
    Guesses         \* what the bulk valuation may have reported

Named == (SUBSET Items) \ {{}}

\* ProxySealedConfig; correction is correction_followup_threshold in percent.
ProxySealedConfig ==
    [rounds     : Nat,
     feedback   : {"none", "allocated_bundle", "lost_interested_bundle", "all_provisional",
                   "competitive", "all_valued_bundles"},
     stopping   : {"fixed_rounds", "no_new_refinements"},
     challenger : {"off", "shadow_price"},
     bidderCap  : Nat,
     totalCap   : Nat,
     incumbents : BOOLEAN,
     pivotal    : BOOLEAN,
     gap        : Nat,
     scarcity   : BOOLEAN,
     followup   : BOOLEAN,
     correction : 0..100,
     regret     : BOOLEAN]

ASSUME SealedAssumption ==
    /\ IsFiniteSet(Items) /\ Items \subseteq Nat
    /\ Order \in Seq(Bidders) /\ Range(Order) = Bidders /\ IsInjective(Order)
    /\ AtomOrder \in Seq(Named) /\ Range(AtomOrder) = Named /\ IsInjective(AtomOrder)
    /\ Policies \subseteq ProxySealedConfig
    /\ Truths \subseteq [Named -> Nat]
    /\ \A g \in Guesses : DOMAIN g \subseteq Named /\ g \in [DOMAIN g -> Nat]
    /\ Scale = 1

VARIABLES
    policy,     \* the configuration of the experiment
    truth,      \* ground_truth_valuations of every person
    favoured,   \* the bidder the solver's tie-breaking favours
    stage,      \* "start", "open", "feedback", "record" or "done"
    round,      \* round_number
    proxies,    \* the proxy of every bidder
    attempted,  \* attempted_bundles_by_bidder
    fallbacks,  \* scarcity_queried_bidders
    followed,   \* correction_followup_bidders
    events,     \* the events of the round not yet handled
    eligible,   \* ~no_eligible_competitive_events
    blocked,    \* events_blocked_by_refinement_cap
    trajectory, \* the recorded rounds: allocation and queries so far
    reason      \* termination_reason

vars == <<policy, truth, favoured, stage, round, proxies, attempted, fallbacks, followed,
          events, eligible, blocked, trajectory, reason>>

fixed == <<policy, truth, favoured>>

CurrentBids == [i \in Bidders |-> proxies[i].bid]

Solve(bids) == Solved(bids, favoured)

\* refinement_queries summed over the proxies.
TotalQueries(ps) == SumFunction([i \in DOMAIN ps |-> ps[i].count])

-----------------------------------------------------------------------------
\* The events of a round.
Event(i, b, type) == [bidder |-> i, bundle |-> b, type |-> type]

\* What every bidder contributes, in the order of bidders.
PerBidder(Contribution(_)) == FlattenSeq([k \in DOMAIN Order |-> Contribution(Order[k])])

\* _competitive_frontier of bidder i: what it is awarded when each winning atom in
\* turn is removed, then, if it lost, its strongest challenger.
Frontier(bids, now, i) ==
    LET removed(w) == Solve([bids EXCEPT ![w] = Restrict(@, DOMAIN @ \ {now[w]})])
        exposed    == PerBidder(LAMBDA w : IF now[w] = {} THEN <<>> ELSE <<removed(w)[i]>>)
        challenger == IF policy.challenger = "shadow_price" /\ now[i] = {}
                      THEN <<Competitive(bids, now, i, {})>> ELSE <<>>
        listed     == exposed \o challenger
    IN  Picked(listed, {k \in DOMAIN listed : listed[k] # {}})

\* Mutated: the frontier is not advanced.
NextOnFrontierFirst(bids, now, i) ==
    LET ahead == Frontier(bids, now, i)
    IN  IF ahead = <<>> \/ ahead[1] \in attempted[i] THEN <<>>
        ELSE <<Event(i, ahead[1], "frontier")>>

\* Competitive feedback: the next bundle of the frontier not yet attempted.
NextOnFrontier(bids, now, i) ==
    LET all   == Frontier(bids, now, i)
        ahead == Picked(all, {k \in DOMAIN all : all[k] \notin attempted[i]})
    IN  IF ahead = <<>> THEN <<>> ELSE <<Event(i, ahead[1], "frontier")>>

\* _all_valued_bundle_events: by value, as listed where values are equal.
ByValue(bid) ==
    LET atoms == Picked(AtomOrder, {k \in DOMAIN AtomOrder : AtomOrder[k] \in Positive(bid, {})})
        ahead(k) == {j \in DOMAIN atoms : \/ bid[atoms[j]] > bid[atoms[k]]
                                          \/ bid[atoms[j]] = bid[atoms[k]] /\ j <= k}
    IN  [n \in DOMAIN atoms |->
            atoms[CHOOSE k \in DOMAIN atoms : Cardinality(ahead(k)) = n]]

\* _provisional_events of bidder i, and the filter on incumbents.
ProvisionalEvents(bids, now, i) ==
    LET won  == now[i]
        rule == policy.feedback
        incumbent == IF policy.incumbents THEN <<Event(i, won, "allocated_bundle")>> ELSE <<>>
        valued    == ByValue(bids[i])
        best      == BestPositive(bids[i])
    IN  CASE rule = "none" -> <<>>
          [] rule = "all_valued_bundles" ->
                [k \in DOMAIN valued |-> Event(i, valued[k], "valued_bundle")]
          [] rule = "competitive" ->
                IF won # {} /\ won \notin attempted[i] THEN incumbent
                ELSE NextOnFrontier(bids, now, i)
          [] rule \in {"allocated_bundle", "lost_interested_bundle", "all_provisional"} ->
                IF won # {}
                THEN IF rule = "lost_interested_bundle" THEN <<>> ELSE incumbent
                ELSE IF rule = "allocated_bundle" \/ best = {} THEN <<>>
                ELSE <<Event(i, best, "lost_interested_bundle")>>

\* _pivotal_challenger_event: of one challenger per bidder the one whose forced
\* allocation loses the least welfare.
PivotalEvent(bids, now) ==
    LET challenger(i) ==
            Competitive(bids, now, i,
                        attempted[i] \cup (IF now[i] = {} THEN {} ELSE {now[i]}))
        gap(i) == LET g == ForcedGap(bids, i, challenger(i), Welfare(bids, now))
                  IN  IF g < 0 THEN -g ELSE g
        near == {k \in DOMAIN Order : challenger(Order[k]) # {} /\ gap(Order[k]) <= policy.gap}
        closest == Picked(Order, {k \in near : \A j \in near : gap(Order[k]) <= gap(Order[j])})
    IN  IF near = {} THEN <<>>
        ELSE <<Event(closest[1], challenger(closest[1]), "pivotal_challenger")>>

\* _scarcity_fallback_events: the two fallbacks of greatest value, then those of
\* them whose bidder was not asked about one before.
ScarcityEvents(bids, now) ==
    LET wants == [i \in Bidders |-> IF now[i] # {} THEN now[i] ELSE BestPositive(bids[i])]
        fallback(i) == BestScarcityAvoiding(bids[i], wants[i], ContestedGoods(wants),
                                            attempted[i])
        offered == Picked(Order, {k \in DOMAIN Order : fallback(Order[k]) # {}})
        value(k) == bids[offered[k]][fallback(offered[k])]
        ahead(k) == {j \in DOMAIN offered :
                        value(j) > value(k) \/ (value(j) = value(k) /\ j <= k)}
        ranked == [n \in DOMAIN offered |->
                      offered[CHOOSE k \in DOMAIN offered : Cardinality(ahead(k)) = n]]
        top    == SubSeq(ranked, 1, Min({2, Len(ranked)}))
        new    == Picked(top, {k \in DOMAIN top : top[k] \notin fallbacks})
    IN  [k \in DOMAIN new |-> Event(new[k], fallback(new[k]), "scarcity")]

\* The first of several events about the same bundle of the same bidder.
Deduplicated(es) ==
    LET first(k) == \A j \in 1..k - 1 :
                        <<es[j].bidder, es[j].bundle>> # <<es[k].bidder, es[k].bundle>>
    IN  Picked(es, {k \in DOMAIN es : first(k)})

\* The events of a round over the current bids.
RoundEvents ==
    LET bids == CurrentBids
        now  == Solve(bids)
    IN  Deduplicated(
            PerBidder(LAMBDA i : ProvisionalEvents(bids, now, i))
            \o (IF policy.pivotal THEN PivotalEvent(bids, now) ELSE <<>>)
            \o (IF policy.scarcity THEN ScarcityEvents(bids, now) ELSE <<>>))

-----------------------------------------------------------------------------

\* The checks before each event.
CapAllows(ps, i) ==
    /\ policy.bidderCap = 0 \/ ps[i].count < policy.bidderCap
    /\ policy.totalCap = 0 \/ TotalQueries(ps) < policy.totalCap

\* receive_provisional_feedback: a value query, unless the bundle was asked about.
Refined(i, b) ==
    IF AlreadyAsked(proxies[i], b) THEN proxies[i]
    ELSE Revalued(proxies[i], b, truth[i][b])

\* What _record_round records: the auction of the current bids.
Recorded == [allocation |-> Solve(CurrentBids), queries |-> TotalQueries(proxies)]

Init ==
    /\ policy \in Policies
    /\ truth \in [Bidders -> Truths]
    /\ favoured \in Bidders
    /\ stage = "start"
    /\ round = 0
    /\ proxies \in [Bidders -> {ProvisionalProxy(g, TRUE) : g \in Guesses}]
    /\ attempted = [i \in Bidders |-> {}]
    /\ fallbacks = {} /\ followed = {}
    /\ events = <<>>
    /\ eligible = TRUE
    /\ blocked = 0
    /\ trajectory = <<>>
    /\ reason = "none"

\* Round 0: the auction of the initial bids.
RecordStatic ==
    /\ stage = "start"
    /\ trajectory' = <<Recorded>>
    /\ IF policy.rounds = 0
       THEN stage' = "done" /\ reason' = "no_elicitation_rounds"
       ELSE stage' = "open" /\ UNCHANGED reason
    /\ UNCHANGED <<fixed, round, proxies, attempted, fallbacks, followed, events, eligible,
                   blocked>>

\* A provisional winner determination and the events it gives rise to.
OpenRound ==
    /\ stage = "open"
    /\ stage' = "feedback"
    /\ round' = round + 1
    /\ events' = RoundEvents
    /\ eligible' = (RoundEvents # <<>>)
    /\ blocked' = 0
    /\ UNCHANGED <<fixed, proxies, attempted, fallbacks, followed, trajectory, reason>>

\* Mutated: a blocked event is put off.
BlockPutOff ==
    /\ stage = "feedback" /\ events # <<>>
    /\ ~CapAllows(proxies, Head(events).bidder)
    /\ events' = Append(Tail(events), Head(events))
    /\ UNCHANGED <<fixed, stage, round, proxies, attempted, fallbacks, followed, eligible,
                   blocked, trajectory, reason>>

\* A cap blocks the next event.
Block ==
    /\ stage = "feedback" /\ events # <<>>
    /\ ~CapAllows(proxies, Head(events).bidder)
    /\ events' = Tail(events)
    /\ blocked' = blocked + 1
    /\ UNCHANGED <<fixed, stage, round, proxies, attempted, fallbacks, followed, eligible,
                   trajectory, reason>>

\* Mutated: what was fed back is not remembered as attempted.
FeedbackUnremembered ==
    /\ stage = "feedback" /\ events # <<>>
    /\ CapAllows(proxies, Head(events).bidder)
    /\ LET e == Head(events)
       IN  /\ proxies' = [proxies EXCEPT ![e.bidder] = Refined(e.bidder, e.bundle)]
           /\ fallbacks' = IF e.type = "scarcity" THEN fallbacks \cup {e.bidder} ELSE fallbacks
           /\ events' = Tail(events)
    /\ UNCHANGED <<fixed, stage, round, attempted, followed, eligible, blocked, trajectory,
                   reason>>

\* Feedback on the next event; a large correction adds an event about a neighbour
\* of the corrected bundle, once per bidder.
Feedback ==
    /\ stage = "feedback" /\ events # <<>>
    /\ CapAllows(proxies, Head(events).bidder)
    /\ LET e == Head(events)
           i == e.bidder
           b == e.bundle
           p == Refined(i, b)
           tried == attempted[i] \cup {b}
           large == /\ policy.followup /\ i \notin followed /\ e.type # "followup"
                    /\ p # proxies[i]
                    /\ IsLargeCorrection(proxies[i].bid[b], p.bid[b], policy.correction)
           neighbour == IF large THEN BestNeighbour(p.bid, b, tried) ELSE {}
       IN  /\ proxies' = [proxies EXCEPT ![i] = p]
           /\ attempted' = [attempted EXCEPT ![i] = tried]
           /\ fallbacks' = IF e.type = "scarcity" THEN fallbacks \cup {i} ELSE fallbacks
           /\ IF neighbour # {}
              THEN /\ followed' = followed \cup {i}
                   /\ events' = Append(Tail(events), Event(i, neighbour, "followup"))
              ELSE /\ events' = Tail(events) /\ UNCHANGED followed
    /\ UNCHANGED <<fixed, stage, round, eligible, blocked, trajectory, reason>>

\* Nothing was asked since the last record.
NothingNew == TotalQueries(proxies) = Last(trajectory).queries

\* The feedback ends; in the last round, or when nothing new was asked, the
\* terminal regret audit may ask about one more challenger.
EndFeedback ==
    /\ stage = "feedback" /\ events = <<>>
    /\ LET last  == \/ round = policy.rounds
                    \/ policy.stopping = "no_new_refinements" /\ NothingNew
           found == IF policy.regret /\ last
                    THEN PivotalEvent(CurrentBids, Solve(CurrentBids)) ELSE <<>>
       IN  IF found = <<>> \/ ~CapAllows(proxies, found[1].bidder)
           THEN UNCHANGED <<proxies, attempted>>
           ELSE LET e == found[1]
                IN  /\ proxies' = [proxies EXCEPT ![e.bidder] = Refined(e.bidder, e.bundle)]
                    /\ attempted' = [attempted EXCEPT ![e.bidder] = @ \cup {e.bundle}]
    /\ stage' = "record"
    /\ UNCHANGED <<fixed, round, fallbacks, followed, events, eligible, blocked, trajectory,
                   reason>>

\* Mutated: a round that leaves the allocation as it was ends the elicitation.
ConvergedWhenFlat ==
    /\ policy.stopping = "no_new_refinements"
    /\ Recorded.allocation = Last(trajectory).allocation

\* When the elicitation ends before its last round.
Converged ==
    /\ policy.stopping = "no_new_refinements"
    /\ IF policy.feedback = "competitive" THEN ~eligible ELSE NothingNew

\* Mutated: the round records the allocation of the round before.
RecordRoundStale ==
    /\ stage = "record"
    /\ trajectory' = Append(trajectory,
                            [Recorded EXCEPT !.allocation = Last(trajectory).allocation])
    /\ stage' = IF round = policy.rounds THEN "done" ELSE "open"
    /\ UNCHANGED <<fixed, round, proxies, attempted, fallbacks, followed, events, eligible,
                   blocked, reason>>

\* The auction of the bids after the round is recorded; the loop ends or goes on.
RecordRound ==
    /\ stage = "record"
    /\ trajectory' = Append(trajectory, Recorded)
    /\ IF Converged
       THEN /\ stage' = "done"
            /\ reason' = IF blocked > 0 THEN "refinement_cap_reached"
                         ELSE IF policy.feedback = "competitive" THEN "no_eligible_refinements"
                         ELSE "no_new_refinements"
       ELSE IF round = policy.rounds
       THEN stage' = "done" /\ reason' = "max_rounds_reached"
       ELSE stage' = "open" /\ UNCHANGED reason
    /\ UNCHANGED <<fixed, round, proxies, attempted, fallbacks, followed, events, eligible,
                   blocked>>

\* The trajectory was returned.
Returned == stage = "done" /\ UNCHANGED vars

Next ==
    \/ RecordStatic \/ OpenRound
    \/ Block \/ Feedback \/ EndFeedback
    \/ RecordRound
    \/ Returned

\* Weak fairness of Next, with the condition under which it is enabled written
\* out: some step is possible until the trajectory is returned, or the run would
\* find a deadlock.
Fairness == []<>(stage = "done") \/ []<><<Next>>_vars

Spec == Init /\ [][Next]_vars /\ Fairness

-----------------------------------------------------------------------------

\* The runner's record of what it attempted and the proxies' own record of what
\* they were asked never come apart, though one is written after a cap check and
\* the other behind the adapter's check for repeated questions; so no question
\* is asked twice, whichever rules propose it and in however many rounds.
AttemptedIsAsked ==
    \A i \in Bidders :
        /\ attempted[i] = proxies[i].refined
        /\ proxies[i].count = Cardinality(proxies[i].refined)

\* proxy_sealed_runner.py:42-46: when the competitive rule stops by itself, every
\* bundle it awards, and every bundle that losing a winning atom exposes, was
\* queried, under the allocation and the bids that are recorded; provided no
\* audit came after the events ran out.
FrontierIsVerified ==
    reason = "no_eligible_refinements" /\ policy.incumbents /\ ~policy.regret =>
        LET now == Last(trajectory).allocation
        IN  \A i \in Bidders :
                (Range(Frontier(CurrentBids, now, i)) \cup {now[i]}) \ {{}} \subseteq proxies[i].refined

\* The last recorded round asked nothing.
Quiet ==
    LET n == Len(trajectory)
    IN  n > 1 /\ trajectory[n].queries = trajectory[n - 1].queries

\* proxy_sealed_runner.py:123-126: stopping early loses nothing.  After a round that
\* asked nothing, and whenever the elicitation stops by itself, another round
\* would propose only what was asked before or what a cap forbids, whichever rules
\* and factors propose it; provided no audit came after the events ran out.
StopsAtFixpoint ==
    \/ Quiet /\ stage \in {"open", "done"}
    \/ /\ reason \in {"no_new_refinements", "no_eligible_refinements"}
       /\ policy.feedback = "competitive" => ~policy.regret
    => \A e \in Range(RoundEvents) :
           AlreadyAsked(proxies[e.bidder], e.bundle) \/ ~CapAllows(proxies, e.bidder)

\* The mechanism keeps the promise of an elicited auction, in every round.
Auction == INSTANCE ElicitedAuction WITH
    bids     <- CurrentBids,
    asked    <- [i \in Bidders |-> proxies[i].refined],
    result   <- IF trajectory = <<>> THEN "none" ELSE Last(trajectory).allocation,
    open     <- stage # "done",
    NoResult <- "none"

ImplementsAuction == Auction!Spec

\* The elicitation ends, by itself or by its rounds.
Finishes == <>(stage = "done")
=============================================================================
