--------------------------- MODULE ClockTrajectory ---------------------------
(***************************************************************************)
(* The recorder that watches an elicited clock, and what it says of it:    *)
(* experiments/proxy_clock_trajectory.py.  The recorder observes the       *)
(* answers of the demand oracle, not the clock: it keeps a mirror of the   *)
(* supplementary atoms, works out for itself when the clock stops, prices  *)
(* every round as if it were the last, and is corrected once, after the    *)
(* terminal audit.  Under run_proxy_clock_experiment nothing is recorded.  *)
(***************************************************************************)
EXTENDS ClockElicitation

VARIABLES
    mirror,         \* recorder.supplementary
    roundRows,      \* recorder.round_rows
    bidderRows,     \* recorder.bidder_round_rows
    eventRows,      \* recorder.event_rows, one for every bidder and bundle
    seen,           \* recorder._seen_bundles
    pending,        \* audit_state.pending_events: events whose bidder is still to answer
    terminalEvents, \* audit_state.terminal_events
    verdict         \* failure_classification

recorderVars == <<mirror, roundRows, bidderRows, eventRows, seen, pending, terminalEvents,
                  verdict>>

tvars == <<evars, recorderVars>>

Recording == policy.driver = "trajectory"

-----------------------------------------------------------------------------
\* run_sealed_vcg_experiment on the instance itself.
Efficient == Solve(truth)

\* true_welfare_for_allocation: an award is worth the best bundle it contains.
TrueWelfare(alloc) == SumFunction([i \in Bidders |-> ValueOf(truth[i], alloc[i])])

Ideal == TrueWelfare(Efficient)

\* The events of a step, from the bundles it marks as issued.
NewlyIssued ==
    UNION {{[bidder |-> i, bundle |-> b] : b \in issued'[i] \ issued[i]} : i \in Bidders}

\* What a row says of the auction priced now.
Priced(atoms) ==
    LET alloc == Solve(atoms)
    IN  [allocation |-> alloc, reported |-> Welfare(atoms, alloc), achieved |-> TrueWelfare(alloc)]

-----------------------------------------------------------------------------
TInit ==
    /\ EInit
    /\ mirror = [i \in Bidders |-> NoAtoms]
    /\ roundRows = <<>>
    /\ bidderRows = {}
    /\ eventRows = {}
    /\ seen = [i \in Bidders |-> {}]
    /\ pending = {}
    /\ terminalEvents = {}
    /\ verdict = "none"

\* The events of the audit are kept for the answers of their bidders.
TAuditAllocation ==
    /\ AuditAllocation
    /\ pending' = IF Recording THEN pending \cup {[round |-> round, event |-> e] : e \in NewlyIssued}
                  ELSE pending
    /\ UNCHANGED <<mirror, roundRows, bidderRows, eventRows, seen, terminalEvents, verdict>>

\* fired_events of bidder i's answer.
Fired(i) ==
    NewlyIssued \cup {p.event : p \in {q \in pending : q.round = round /\ q.event.bidder = i}}

EventRow(e, number) ==
    [round |-> number, bidder |-> e.bidder, bundle |-> e.bundle, won |-> FALSE, efficient |-> FALSE]

\* _record_event_row.
EventRowsOf(events, number) == {EventRow(e, number) : e \in events}

\* What is written about the round, priced as if it were the last.
RoundRow(reason, atoms, rows) ==
    [round |-> round + 1, reason |-> reason,
     events |-> Cardinality({r \in rows : r.round = round + 1}),
     queries |-> QueryCount(proxies'), auction |-> Priced(atoms)]

\* _finalize_round, when the last bidder of the round has answered.
FinalizeRound(atoms, answers, rows) ==
    LET excess == Excess([i \in Bidders |-> DemandList(answers[i])])
        reason == IF NoExcess(excess) THEN "no_excess_demand"
                  ELSE IF round = MaxRounds - 1 THEN "max_rounds_reached" ELSE ""
    IN  Append(roundRows, RoundRow(reason, atoms, rows))

\* _append_bidder_round_row for every bidder of the round.
BidderRoundRows(atoms, answers, rows) ==
    {[round |-> round + 1, bidder |-> i, primary |-> answers[i].primary,
      refined |-> {r.bundle : r \in {e \in rows : e.round = round + 1 /\ e.bidder = i}},
      atoms |-> Cardinality(DOMAIN atoms[i])] : i \in Bidders}

\* The demand oracle, and the recorder's observe at its end.
TElicit ==
    /\ Elicit
    /\ LET i == Order[turn]
           rows == eventRows \cup EventRowsOf(Fired(i), round + 1)
           atoms == [j \in Bidders |-> Recorded(mirror[j], responses'[j].atoms)]
           last == turn = Len(Order)
       IN  IF Recording
           THEN /\ seen' = [seen EXCEPT ![i] = @ \cup Range(DemandList(responses'[i]))]
                /\ eventRows' = rows
                /\ mirror' = IF last THEN atoms ELSE mirror
                /\ roundRows' = IF last THEN FinalizeRound(atoms, responses', rows) ELSE roundRows
                /\ bidderRows' = bidderRows \cup
                       (IF last THEN BidderRoundRows(atoms, responses', rows) ELSE {})
           ELSE UNCHANGED <<seen, eventRows, mirror, roundRows, bidderRows>>
    /\ pending' = {p \in pending : p.round # round \/ p.event.bidder # Order[turn]}
    /\ UNCHANGED <<terminalEvents, verdict>>

\* The clock and the drivers between its end and the audit.
TRun == (Run \/ Synchronise) /\ UNCHANGED recorderVars

\* The terminal audits.
TAudit ==
    /\ StabilityAudit \/ VerifyWitnesses \/ CloseWinners \/ CloseStaged
    /\ terminalEvents' = terminalEvents \cup NewlyIssued
    /\ UNCHANGED <<mirror, roundRows, bidderRows, eventRows, seen, pending, verdict>>

\* Mutated: only the counts of the last row are corrected.
ReconciledCounts(row) ==
    [row EXCEPT !.events = @ + Cardinality(terminalEvents), !.queries = QueryCount(proxies)]

\* Mutated: the award of the last row is corrected, and what it is worth is not.
ReconciledAward(row) ==
    [row EXCEPT !.events = @ + Cardinality(terminalEvents), !.queries = QueryCount(proxies),
                !.auction.allocation = Solve(supplementary)]

\* apply_terminal_audit: the last row is corrected for the terminal queries.
Reconciled(row) ==
    [row EXCEPT !.events = @ + Cardinality(terminalEvents), !.queries = QueryCount(proxies),
                !.auction = Priced(supplementary)]

\* backfill_event_allocation_columns.
Backfilled(rows, alloc) ==
    {[r EXCEPT !.won = alloc[r.bidder] = r.bundle,
               !.efficient = Efficient[r.bidder] = r.bundle] : r \in rows}

\* build_coverage_rows: what became of the bundle bidder i should have won.
Coverage(i) ==
    LET b == Efficient[i]
    IN  [bidder |-> i, seen |-> b \in seen[i], refined |-> b \in proxies[i].refined,
         included |-> b \in DOMAIN supplementary[i],
         error |-> IF b \in DOMAIN supplementary[i]
                   THEN supplementary[i][b] - ValueOf(truth[i], b) ELSE 0]

CoverageRows == {Coverage(i) : i \in {j \in Bidders : Efficient[j] # {}}}

\* The value error exceeds a fifth of the value.
LargeError(c) == 5 * Magnitude(c.error) > ValueOf(truth[c.bidder], Efficient[c.bidder])

\* _compute_best_final_round_diagnostics.
BestAchieved(rows) == Max({rows[k].auction.achieved : k \in DOMAIN rows})

\* classify_clock_failure; the full-information clock reports every bundle it names,
\* so that its own ceiling is the global optimum.
Classified(final, rows, coverage) ==
    CASE final >= Ideal -> "no_failure_global"
      [] final < Ideal /\ 100 * (BestAchieved(rows) - final) > 5 * Ideal ->
             "late_refinement_worsened_final_allocation"
      [] OTHER ->
             IF Last(rows).reason = "max_rounds_reached" THEN "hit_max_rounds_unconverged"
             ELSE IF \E c \in coverage : ~c.included THEN "candidate_omission"
             ELSE IF \E c \in coverage : c.seen /\ ~c.refined /\ LargeError(c)
                  THEN "seen_but_not_refined"
             ELSE IF \E c \in coverage : LargeError(c) THEN "refined_but_miscalibrated"
             ELSE "unknown"

\* The driver reconciles the recorder with the audit, prices, and classifies.
TPrice ==
    /\ Price
    /\ LET audited == terminalEvents # {}
           rows == IF audited THEN [roundRows EXCEPT ![Len(roundRows)] = Reconciled(@)]
                   ELSE roundRows
           events == eventRows \cup EventRowsOf(terminalEvents, Len(history) + 1)
       IN  IF Recording
           THEN /\ mirror' = IF audited THEN supplementary ELSE mirror
                /\ roundRows' = rows
                /\ eventRows' = Backfilled(events, outcome')
                /\ verdict' = Classified(TrueWelfare(outcome'), rows, CoverageRows)
           ELSE UNCHANGED <<mirror, roundRows, eventRows, verdict>>
    /\ UNCHANGED <<bidderRows, seen, pending, terminalEvents>>

TNext == TAuditAllocation \/ TElicit \/ TRun \/ TAudit \/ TPrice

TSpec == TInit /\ [][TNext]_tvars

-----------------------------------------------------------------------------

\* Between rounds the mirror holds the clock's atoms, what was demanded has been seen,
\* and the last row knows whether the clock has stopped, and why.
RoundsAreFollowed ==
    stage = "clock" /\ turn = 1 /\ history # <<>> =>
        /\ mirror = supplementary
        /\ Len(roundRows) = Len(history)
        /\ \A i \in Bidders : seen[i] = UNION {Range(history[k].demands[i]) : k \in DOMAIN history}
        /\ Last(roundRows).reason =
               (CASE pc = "ask" -> "" [] pc = "allocate" -> "no_excess_demand"
                  [] pc = "done" -> "max_rounds_reached")

\* Every bundle an event was issued for has an event row, and a round counts the events
\* of its bidders, the last round those of the terminal audit as well.
EventsAreLogged ==
    /\ \A i \in Bidders : issued[i] = {r.bundle : r \in {e \in eventRows : e.bidder = i}}
    /\ \A k \in DOMAIN roundRows :
          roundRows[k].events =
              SumFunction([r \in {b \in bidderRows : b.round = k} |-> Cardinality(r.refined)])
              + (IF k = Len(history) THEN Cardinality(terminalEvents) ELSE 0)

\* The recorder, which watches the answers only, agrees with the run at every round,
\* and in the end: the last row tells of the allocation that is priced, whatever the
\* terminal audit did to it, and no event is lost.
RowsFollowTheClock ==
    Recording =>
        /\ RoundsAreFollowed
        /\ stage = "priced" =>
               /\ mirror = supplementary
               /\ Last(roundRows).auction.allocation = outcome
               /\ Last(roundRows).queries = QueryCount(proxies)
               /\ EventsAreLogged

\* The bundles bidder i named in a recorded round.
NamedInHistory(i) == UNION {Range(history[k].demands[i]) : k \in DOMAIN history}

\* proxy_clock_trajectory.py:920-937: what a verdict says of the run is so, although it
\* is read off the rows and the coverage.  A late regression: the award of an earlier
\* round was worth more than the one that is priced.  Not converged: the last round
\* left an item overdemanded.  Seen and not refined: a bundle of the efficient
\* allocation was demanded, and no question about it was ever due.  An event row says
\* that its bundle was won exactly if it was awarded.
VerdictsAreEarned ==
    Recording /\ stage = "priced" =>
        /\ verdict = "late_refinement_worsened_final_allocation" =>
               \E k \in 1..Len(history) - 1 :
                   roundRows[k].auction.achieved > TrueWelfare(outcome)
        /\ verdict = "hit_max_rounds_unconverged" =>
               ~NoExcess(Excess(Last(history).demands))
        /\ verdict = "seen_but_not_refined" =>
               \E i \in Bidders : Efficient[i] \in NamedInHistory(i) \ issued[i]
        /\ \A r \in eventRows : r.won <=> outcome[r.bidder] = r.bundle

\* The allocation after the terminal audit of a session that starts with the atoms.
Audited(atoms) ==
    LET pass(t, k) == IF k > 1 /\ t.count = 0 THEN t ELSE StabilityPass([t EXCEPT !.count = 0])
        passes == [k \in 1..MaxIterations |-> k]
    IN  Solve(FoldLeft(pass, [Session EXCEPT !.supplementary = atoms], passes).supplementary)

\* proxy_clock_trajectory.py:1015-1018: final_result is bit-for-bit what
\* run_proxy_clock_experiment would return.
TrajectoryIsTheExperiment ==
    Recording /\ stage = "clock" /\ pc = "done" => Audited(supplementary) = Audited(Synchronised)
=============================================================================
