# A TLA+ verification development of Auction-Lab

Auction-Lab runs combinatorial auctions over bidders that may be
language-model proxies: a sealed VCG auction, an ascending clock with
supplementary bids, proxies whose XOR bids start from provisional guesses and are
refined by elicitation events, a cache that lets experiments be replayed, and the
scripts that generate populations, freeze elicitations and sweep over cases.
This directory holds TLA+ models of that code, TLC configurations that check
them on small instances, and TLAPS proofs about the sealed auction, the clock, the
proxies, the sealed auction with elicitation, the initial elicitation over the response
cache, the generation of populations, and the scripts over their shared files. Paths below are relative to `src/src/auctionlab/`
unless they start with `src/`.

## 1. Inventory

| Component | State | Operations | Hard behaviour | What makes it correct |
|---|---|---|---|---|
| XOR bids and winner determination: `bids/xor.py`, `solvers/wdp_ilp.py` | none (pure) | `value_of`, candidate set, exact optimum, optional `max_winners` stage | ties; bids that price a subset above a superset | the value read for an award is the value the solver credited |
| Sealed VCG: `auctions/sealed_vcg.py`, `payments/vcg.py` | payments and witnesses of the loop | solve, price one bidder at a time, raise on a negative externality | the error path; which tied optimum is used | never raises, individually rational, truthful |
| Clock: `auctions/clock.py` | prices, round, history, supplementary bids, provisional allocation | ask the bidders in turn, record, compute excess, raise prices, greedy allocation, finalise by VCG | bidders may answer anything; the round cap; order of bidders | stops cleared or capped; prices record overdemand; greedy is exact once cleared |
| Price-taking bidders: `instances/base.py`, `proxies/full_info.py` | cached table | top-k demand with lexicographic ties | only k bundles revealed; free items | supplementary bids suffice for an efficient outcome |
| Language-model proxies: `llm/proxies.py`, `llm/value_calibration.py` | cached bid, provisional and refined sets, query count | bulk and inferred bids, value and demand refinement, monotonicity repair, reset | repairs rewrite earlier answers; order of answers | no value under its answer; at most one question per bundle |
| Clock with elicitation: `experiments/proxy_clock_runner.py`, `proxies/elicitation.py` | per-bidder event state, revealed atoms, audit state | round oracle with events and ablation switches, allocation-change audit, synchronisation, stability or frontier audit, pricing | queries inside a round; terminal loops to a fixed point; caps; two copies of the bids | what is priced is current and queried |
| Trajectory recording: `experiments/proxy_clock_trajectory.py` | mirror of the clock's bids, round, bidder, event and coverage rows | observe an answer, finalise a round, reconcile, classify | it never sees the clock, and the audit comes after its last row | the rows agree with the run |
| Sealed auction with elicitation: `experiments/proxy_sealed_runner.py`, `experiments/event_policy.py` | attempted bundles, followed bidders, trajectory | provisional auction, frontier, events, policies, feedback, audits, stopping | several stopping rules whose counters are reset; two caps | stops only when nothing is left to ask; awards an optimum of its bids |
| Response cache: `llm/cache.py` | database of responses, last key of a client | look up, ask, store, reject and evict, retry | kills between two statements; retry keys; modes | replays are faithful; rejected responses leave |
| Initial elicitation: `compute_elicitation_cache` of `src/examples/run_live_llm_curated_batch.py`, `llm/person_simulator.py`, `llm/interest_map.py`, `llm/provisional_valuations.py` | the bidder in hand, entries so far | opening answer and its verifier, map and its audit, candidates, chunked valuation, failure policies | a chain of calls of which any may be malformed, turned down, missing or killed | what was returned replays; what is valued is what the map says |
| Frozen packs: `llm/frozen_elicitation.py`, `src/scripts/prepare_scalability_elicitation_packs.py` | pack and manifest files | build, validate, write, load, project | stale and torn files; reuse | a pack is used only for its own persons and goods |
| Generation of populations: `src/scripts/generate_pc_build_population.py` | response files, manifest, population | batches, repairs, budget, resume, regenerate | kills and resumes; costs known afterwards | what is accepted is what a later run finds |
| Experiment drivers: `src/examples/run_live_llm_curated_batch.py`, `src/scripts/run_*.py`, `src/scripts/freeze_final_experiment.py`, `experiments/final_pipeline.py` | result directories, frozen specification | run a case, skip, rerun, sweep, freeze, verify, start the ablation | a killed case; files of several ages | a sweep's exit code and tables tell the truth |
| Calibration fitting, scenarios, prompts, clients, logging, analysis | files, text | | | pure functions, I/O or numerics; not modelled |

The auction code calls bidders synchronously: `run_ascending_clock_with_supplementary`
calls the demand oracle for each bidder in turn, the oracle calls the proxies'
`refine`, and a refinement calls the person, who calls the client through the
cache. Nothing runs concurrently but a driver and its one subprocess; what is hard
is that handlers deep in this stack rewrite state (bids, caps, revealed atoms) that
outer loops have already read, that elicitation events come in any order, and that
scripts are killed and run again over the same database and files. The hazards are
listed in `PROJECT.json`, each at its line with the properties that would catch it.

## 2. Modules

| Module | Models | Composes |
|---|---|---|
| `XorWdp` | pure operators: XOR values, feasible and optimal allocations, the externality of a bidder | |
| `AuctionLemmas` | proved facts about sums, rankings, feasible allocations, their welfare and the order of bundles | `XorWdp`, `Collections` |
| `SealedVcg` | the sealed auction as a loop: `Solve`, `Price` (one bidder, or the error), `Finish` | `XorWdp`, `Collections` |
| `Clock` | the clock: `Answer` (one call of the demand oracle, any response), `CloseRound` (record, excess, prices or the end), `Allocate` (one iteration of the greedy loop), `Return` | |
| `ClockProofs` | theorems about `Clock`, facts about `ClockDemand` | `ClockDemand`, `AuctionLemmas` |
| `ClockDemand` | the demand of a price-taking bidder with a value table | `Clock`, `XorWdp` |
| `TruthfulClock` | the clock with full-information bidders and `Finalize`, the VCG outcome of the supplementary bids | `ClockDemand` |
| `TruthfulClockProofs` | theorems about `TruthfulClock` | `TruthfulClock`, `ClockProofs` |
| `XorProxy` | the proxy's bid and the functions that rewrite it: repair, revaluation, satisfied and diverted demand answers | |
| `ProxyRefinement` | one proxy behind its adapter: `Refine` (an event with one or two bundles), `Reset` | `XorProxy` |
| `SealedBidProofs` | theorems about `SealedVcg` and `ProxyRefinement` | both, and `AuctionLemmas` |
| `ClockElicitation` | the clock over refined proxies | `ClockDemand`, `XorProxy` |
| `ClockTrajectory` | the recorder that watches an elicited clock | `ClockElicitation` |
| `ClockElicitationProofs` | theorems about `ClockElicitation` and `ClockTrajectory` | `ClockTrajectory`, `ClockProofs` |
| `Collections` | a list filtered by position, a dictionary assigned to | |
| `EventPolicy` | pure operators: neighbours, contested goods, shadow prices, the competitive bundle, the gap of a forced award | `XorWdp`, `Collections` |
| `SealedElicitation` | the sealed auction over refined proxies | `EventPolicy`, `XorProxy` |
| `ElicitedAuction` | the abstract promise of an auction with elicitation | `XorWdp` |
| `SealedElicitationProofs` | theorems about `SealedElicitation` | `SealedElicitation`, `AuctionLemmas` |
| `LlmCache` | the cache, the retry loop of a caller, and sessions that end or are killed | |
| `InterestMaps` | pure operators: parsed, normalised and audited maps, disclosures, candidate bundles and chunks | |
| `InitialElicitation` | the initial elicitation of the bidders of a case | `LlmCache`, `InterestMaps` |
| `InitialElicitationProofs` | theorems about `InitialElicitation`, `LlmCache` and `InterestMaps` | `InitialElicitation`, `AuctionLemmas` |
| `Files` | what a reader may find of a file: nothing, half of it, or its contents | |
| `PopulationGeneration` | the generator of populations | `Files` |
| `FrozenPacks` | cases, scenarios, packs, their validation and projection | `PopulationGeneration`, `Collections` |
| `BatchRun` | one subprocess of a driver: prepare a pack, or run the arms of a case and write its tables | `FrozenPacks` |
| `PackPreparation` | the script that makes the masters and projects the cases | `BatchRun` |
| `Sweeps` | the scalability sweep, the frozen final runs, and freezing; the event ablation, which does not get beyond its start (section 4) | `BatchRun` |
| `ExperimentWorkspace` | the scripts one after the other over one set of files | `PackPreparation`, `Sweeps` |
| `WorkspaceProofs` | theorems about `PopulationGeneration` and `ExperimentWorkspace` | `ExperimentWorkspace`, `AuctionLemmas` |
| `MC*` | values of the constants for TLC | |

Definitions marked *Mutated* are the definition that follows with a plausible
mistake; `PROJECT.json` names, for every property of every run, one that makes TLC
report that property.

State variables carry the names of the code where it has one (`prices`, `history`,
`supplementary`, `revealed` for `audit_state.revealed_atoms`, `issued` for
`states[i].refined_bundles`, `attempted` for `attempted_bundles_by_bidder`). Program
counters (`pc`, `turn`, `stage`, the stages of `call`, `task`, `gen`, `job`) replace
the position in a function. `map` in `PROJECT.json` names the lines of each definition.

**`ClockElicitation`** has one action per phase of `run_proxy_clock_experiment`:
`AuditAllocation` (before the first bidder of a round is asked, the newly awarded
bundles of the reported allocation are queried), `Elicit` (one bidder: its events
are issued, its proxy refined, its demand answered), `Run` (the clock's own
steps), `Synchronise`, then iterations of `StabilityAudit` or of
`VerifyWitnesses`, `CloseWinners` and `CloseStaged` of the frontier audit, and
`Price`. The configuration is a record of `Policies`, chosen at the start and
kept: the framework (`legacy`, `targeted_v1`, `frontier_v1`), the support
(`all_atoms`, `demand_revealed`), the allocation-change audit, thresholds, caps,
the switches that are on, and which of the two drivers runs it. The switches are
the pivotal challenger, the scarcity fallback, the follow-up of a large correction,
contested bundles, the pivotality gate, the top frontier, the counterfactuals of
the allocation audit, and the terminal challengers. Persons answer from ground
truth, as in the frozen experiments. The solver is a function of the bids whose
tie-breaking favours a bidder chosen at the start: the code's solver is
deterministic, so an audit and the pricing after it see one optimum of the same bids.

**`ClockTrajectory`** adds to each of these actions what
`run_proxy_clock_trajectory` records then. `TElicit` is an answer followed by
`observe`, which at the last answer of a round works out what the clock is about to
do; `TAudit` collects terminal events; `TPrice` reconciles the last row, fills in
the event rows, derives the coverage rows and classifies the run. A configuration whose
driver is `experiment` records nothing and synchronises; the trajectory does not.

**`SealedElicitation`** is `run_proxy_sealed_vcg_trajectory`: `RecordStatic` (round
0), `OpenRound` (the events of the round from the provisional auction and the
policies), `Feedback` or `Block` (one event refined, or stopped by a cap),
`EndFeedback` (the regret audit), `RecordRound` (the rebuilt auction recorded, then
the stopping rules). `ElicitedAuction` is what it implements: bids change only by
the answer to a question not asked before, which is reported as given and may raise
a superset to what was reported for a part; every result is an optimum of the bids of its moment. The
refinement mapping reads the bids and the questions off the proxies and the result
off the last recorded round.

**`LlmCache`** and **`InitialElicitation`**: a cache key is the request, the attempt
and the quoted response; callers differ in how many attempts they make, whether a
retry quotes the malformed response, and whether a rejected response is evicted. A
call is looked up, asked, stored and then judged, with a kill possible between any
two of these. A `task` runs the calls of a bidder in order: answer, extraction and
entailment by the verifier (which may turn the answer down and evict it), map,
audit of its complements, and one valuation per chunk. What a response says is a table from tokens to
maps and readings; the numbers in a valuation are one token. In mode `off` the script does not wrap
its clients: nothing is looked up, stored or evicted, and nothing it says has to replay.

**`ExperimentWorkspace`** runs scripts over shared files. A write is one step that
a kill may leave `Torn` where the code writes in place; a driver waits for its
subprocess; either may be killed, or a call may fail, at any step. A pack holds
for every person an entry that names the person, the goods and which call
answered, so that a stale, mixed or foreign entry is visible.

**Abstractions.** Prices and values are small integers instead of floats; budgets
and size discounts are left out of the calibration, which is a factor `Scale`; a
prompt is what its answer depends on; in the budget of the generator a token costs one unit and the estimate
of a prompt is a constant; a run of a case is assumed to have at least one arm, so that it writes a summary
(`if _summary`, `src/examples/run_live_llm_curated_batch.py:3842`); a response parses or it does not, and says one
of a few things; wording, tokens, elapsed time and derived statistics are left out.
`Answer` in `Clock` lets a bidder answer anything from a set of responses, which
covers every proxy: the theorems of `ClockProofs` are about it, the runs about bidders who answer from tables
(`truthful_clock`) and from proxies that are refined meanwhile (`elicit`).

## 3. Runs

| Run | Instance | What it shows |
|---|---|---|
| `sealed_vcg` | 2 items, bidders with all small XOR bids, non-monotone ones included, every tied optimum | pricing never raises; payments stay below reported values; truth is dominant |
| `truthful_clock` | 2 items, 2 full-information bidders with any tables over {0, 1, 3, 7}, top 2, 6 rounds | why the clock stops, what a price counts, what the greedy rule gives; it clears unless the cap is too tight for the highest value, clearing is competitive, and the outcome is efficient whether it cleared or was capped |
| `proxy` | 2 items, ground-truth or estimating person, value or demand queries, scale 2, two events (single or paired), any resets | with exact answers only the last may undercut a subset; no value falls below its answer; no question is asked twice between resets; floors and anchors |
| `elicit` | 2 items, 2 bidders, values 1 or 4, guesses 2 or 5, step 1, 4 rounds, eight configurations | what is priced was queried and is current; the recorder agrees with the run, and what it says of it is so |
| `sealed_elicit` | the same bidders, eight configurations of feedback, stopping, policies and caps, 0 to 7 rounds | what was attempted was asked, the award and its frontier were verified, it stops at a fixed point, it stops, and it implements `ElicitedAuction` |
| `cache` | one bidder, 3 goods, two answers, readings and maps, one retry, two sessions of any mode, two mishaps | what was returned replays, what is valued is what the map says, rejected responses leave the cache |
| `workspace` | 2 profiles, 1 or 2 goods, two batches, three scripts of any kind and argument, one mishap, an empty or a prepared disk | populations, packs, runs and sweeps agree with themselves and with what they are bound to |

`elicit`: the configurations are `legacy` over all atoms with the audit; with
scarcity, pivotal and follow-up events; with caps of 2 per bidder and 3 in all, the
top frontier and audited counterfactuals; with the gated events and a terminal
challenger; `targeted_v1` over all atoms with contested bundles and a challenger, and over
revealed demand with the audit; `frontier_v1` over revealed demand, recorded and
not. Under all of them what is awarded (`AuditedAwardsAreVerified`: `frontier_v1` over all atoms is the case of
`elicit_final_policy`, section 4), and what removing a winner exposes among
what was demanded, was queried unless a cap binds; the terminal loops end because nothing is left to query,
not by their bound; a cap is overrun by one query at most; under `demand_revealed`
the priced bids hold what was demanded and nothing else, a terminal challenger aside (section 4); and
where the code copies corrections to the priced bids, all of them arrive.
`RowsFollowTheClock` compares the recorder, which infers the course of the clock from
answers, with the clock: after every round it holds the same bids and the same
verdict on stopping, and in the end the last row describes the allocation that is priced and
every event has its row. `VerdictsAreEarned` compares what the recorder concludes with the run: a late
regression is one of the priced allocation against an earlier round's, a clock that did not converge left an
item overdemanded, no question was ever due about a demanded bundle that is called seen and not refined, and an event row says
`won` exactly if the bundle was awarded. Seven of the eight labels of `classify_clock_failure` occur.

`sealed_elicit`: `StopsAtFixpoint` says that when the elicitation stops by itself, or a round
asks nothing, all events that any rule would propose next were asked before or are
capped. It is conditioned on the regret audit being off for the competitive rule; section 4
says what happens otherwise.

`workspace`: `ZeroSweepLeavesNoGap` says of a sweep that returned zero that every case has a summary, that a
directory no failure or kill touched (`disturbed`) holds one of a run that returned zero, and that a directory whose
last run returned zero holds the tables of that run alone, however many failed or were killed before. What it leaves out, a
run killed after its summary, is `skipped_cases` of section 4. `FrozenRunsUseFrozenInputs` and `ResumePaysOnce` are properties of steps.

**Bounds.** Two items give a singleton of each, the pair that contains both, and
nothing, which is every relation between bundles that the ranking, the repair and
the supply constraint tell apart (equal, contained, disjoint). Two bidders give
overdemand, a winner and a counterfactual; each loses, wins alone or shares. Values
are few but ordered both ways across containment, so that non-monotone truths, ties
and guesses above and below the truth all occur. Guesses in `elicit` are worth most
for the pair and least for one item, which leaves an unqueried alternative
attractive; with every guess
that prices the pair at least as high as its items the run holds as well (`MCMonotoneGuesses`, 413,496 states). Rounds, caps, retries and widths are
parameters of the code; four rounds let a price pass every value that matters. In `cache` three goods are the fewest
with an exclusive and a complementary group that overlap; four candidates and chunks of
three make both the cap and the last chunk cut. One retry and two attempts at a map
follow each chain to its second link; two mishaps put a kill on top of a failed call; two sessions are one that
writes and one that replays. In `workspace` three scripts are enough for make, change
and use: generate, prepare, sweep, or freeze, generate again, run. Two replies, one metered and one booked by its
bytes, cost less and more than the projection of a call. `ScriptBound`, `MishapBound`, `MaxMishaps`, `MaxSessions` and `MaxEvents` bound what could go on.
Deadlock is not checked where the modelled function returns.

**Fairness.** `SealedElicitation` has weak fairness on its next-state relation, for `Finishes`, written without
ENABLED: the trajectory is returned or steps go on, since a step is always possible until it is returned. The
code is a sequential loop with no blocking of its own, so a step that can be taken is taken; that
an answer arrives is the assumption that a call of a bidder returns. The clock and the sealed auction are
bounded `for` loops whose end needs no argument, and only safety is checked of them. So it is of
the specifications that include kills, which have no fairness: a killed script promises nothing.

## 4. Where the code and its words differ

Runs that end in a counterexample:

| Run | Statement | What happens |
|---|---|---|
| `proxy_exact_sticks` | exact answers are "reported verbatim" and the repair does not overwrite them, `llm/proxies.py:948-949`, `974-977` | only the latest answer is written again after the repair; earlier exact answers may be raised |
| `trajectory_differs` | `final_result` is "bit-for-bit what that function would return", `experiments/proxy_clock_trajectory.py:1017` | the trajectory lacks the synchronisation of `proxy_clock_runner.py:1976-1981`, so under `demand_revealed` the two may award different bundles; the live batch uses the trajectory when asked for one (`src/examples/run_live_llm_curated_batch.py:3642`) |
| `elicit_final_policy` | "Winner closure then verifies only newly selected allocation bundles", `experiments/proxy_clock_runner.py:1135` | under `all_atoms` the closure sees repaired atoms the priced bids do not have: an award may be unqueried |
| `cache_retried` | responses are replayed instead of re-issued, `llm/cache.py:4-8` | a bulk valuation answered at its second attempt is missed by a replay, which starts at the first |
| `skipped_cases` | "Completed cases are skipped", `src/README.md:171` | a case counts as completed by its summary, which is written before its other tables: after a kill in between it is skipped for ever, and the sweep returns zero |

Smaller disagreements, read off the code while modelling and without a run of their own.

Proxies and clock:

- `llm/proxies.py:1037` calls `satisfied=True` a lower bound on the value; a
  ground-truth person whose surplus is negative everywhere is satisfied too.
  `FloorsOverstateOnlyUnwanted` says that this is the only exception.
- `llm/proxies.py:931-932` says that refined atoms were never calibrated; estimated
  answers are, and a reset (`882-885`) makes an exact refined atom be uncalibrated when
  it is next quoted. `AnchorsNeverUnderstate` bounds the effect for estimating persons.
- `experiments/proxy_clock_runner.py:1131` says that the clock of `frontier_v1` makes no
  exact value queries; the allocation-change audit, on by default, does, and the top
  frontier overrides the framework's "off".
- `experiments/proxy_clock_runner.py:98` gives a cap per bidder; a near tie makes two
  queries after one check. `CapsOverrunByOne` is what holds.
- `experiments/proxy_clock_runner.py:1977-1978` synchronises "any exact mid-clock
  corrections"; a revealed atom holds the bundle's value as of its last demand or audit, so a
  correction of a bundle that is not demanded afterwards is priced at its old guess.
- `experiments/proxy_clock_runner.py:308-313` says that a bundle never demanded cannot
  become a terminal witness; the terminal challenger under `demand_revealed` ranks the
  full bids and records the atom it queries. `SupportIsWhatWasDemanded` excludes that switch.
- `experiments/proxy_clock_trajectory.py:1030` says that the mechanism's ceiling may lie below the global
  optimum; the full-information clock reports its whole table in every round, so it
  does not (`OutcomeIsEfficient`) and `no_failure_mechanism_relative` is never given. The label
  `late_refinement_worsened_final_allocation` can be given to a run in which nothing was refined late, and
  the primary bundle of a near tie is refined without an event row.

Sealed trajectory:

- Under `competitive`, the trajectory stops although the regret audit just changed the
  award (the reset at `proxy_sealed_runner.py:1129-1131` is not read again),
  `refinement_cap_reached` is never given, and a capped run goes on to its last round.
- With incumbent verification off, the frontier of a winner is never visited; the
  scarcity fallback takes its two bidders before leaving out those already asked.

Cache and elicitation:

- `llm/provisional_valuations.py:339-341` says malformed responses are never retained;
  demand queries and verifier calls (`llm/person_simulator.py`) retain theirs, so a resumed
  run fails again without asking; a malformed verifier response evicts the answer and stays itself.
- `llm/cache.py:24` says that mode off never writes; `invalidate_last` deletes a row in
  every mode (the live script gives no client a cache when off).
- A cache miss is a `RuntimeError`, which the audit of complements and the failure policy
  `zero` swallow: a read-only run silently drops complements or fills in zeros.
- A verifier's reading may outlive the answer it was made of, and an answer at the second attempt
  shares the verifier's key whatever it quotes.

Scripts:

- **`src/scripts/run_event_ablation_8x8.py` does not run.** Its table of treatments unpacks `_COUNTERFACTUAL_FLAGS` (48, 59, 71,
  96, 107), which nothing binds: importing the script raises `NameError`, although `src/README.md:252-256` starts it for
  "the final event-policy comparison". `Ablate` is what it does: it ends with a failure, before it has looked at a pack.
- The budget guard of the generator projects a "conservative" and "upper-bound" cost
  (`src/scripts/generate_pc_build_population.py:198`, `946`): `max_tokens` for the reply, nothing without `--max-tokens`. A reply
  without usage data is booked at a third of its bytes, uncapped (`1043-1052`, `1170-1187`), so the spent total may
  pass the ceiling. `CeilingPassedByOneCall` is what holds.
- Resuming the generator after an invocation that started afresh and failed mixes generations
  (`redone`); with no retries an invalid response on disk fails every resumed run; reused responses
  are paired with prompts written anew; bidder ids may repeat; the cost of failed calls is not counted.
- A rerun that fails leaves the old summary beside new files, and tables without rows leave the old ones; a
  subprocess killed after its summary counts as failed now and is skipped later.
- A torn master makes the preparation return 2 until masters are regenerated; regeneration over a
  read-write cache replays the same responses; changed model settings do not invalidate a pack; frozen final
  runs skip complete cases unverified; the projection does not check its parent's persons itself.
- `--pv-failure-policy skip_bidder` of `src/scripts/prepare_pv_calibration_benchmark.py` says
  that it omits the bidder; the whole domain and seed are skipped.

## 5. Proofs

Everything here holds for every value of the constants that the named assumptions
admit: any finite number of bidders and items, any natural values, any number of
rounds. The assumptions are what the code makes sure of or its callers meet: distinct
bidder ids, natural steps, reserves and values, finite sets of items, atoms that
are listed once, bundles that are not empty.

**Common ground.** The library's induction theorems take an operator, which the provers
cannot instantiate. `AuctionLemmas` therefore derives from well-foundedness of the
strict subset order (`WFMin`) an induction over *sets of sets* (`SetInduction`,
`MinimalSet`), and from it what is needed of `SumFunctionOnSet` (a sum
may be split, changed at one index, compared term by term), of greatest elements,
of rankings by counting (`Ahead`, `RankIsTaken`), and of `Picked` and flattened lists.
On these stand the lemmas about the solver: an allocation of the others extends to everybody, one
bidder's removal or new report changes welfare by its own term, an optimum exists and `Solved`
is one. `SelectSeq` is defined by recursion and opaque to the provers, so
the comprehensions of the runners are `Picked`, which is the same list by position.

**`SealedBidProofs`**, of the auction. `VcgIInv` says that `full` is optimal for the reports once it
is solved and that the bidders priced so far, a prefix of the order, have their raw
externality for payment.

- `PaymentsNeverRaise`: an optimum without bidder i is at least what the others get beside it;
- `PaymentsAreRational`: the full optimum is at least the optimum without i. A bid may price a part
  above the whole, so the argument needs that the value *read* for an award (`value_of`, the best atom
  contained) is the value *credited* by the solver at an optimum, which is a lemma of its own;
- `TruthDominates`: what a truthful bidder gets is the full optimum less the optimum without it, and
  no award under another report is worth more with the others.

**`ClockProofs`.** `ClockTypeCorrect`; `ClockStops`: the clock stops only cleared or capped,
and every round before the last left some item overdemanded; `ClockAwardsFirstChoice`:
once cleared, the greedy allocation gives every bidder the first nonempty bundle of
its demands; `ClockPrices`: a price is the reserve plus a step per recorded round that
overdemanded the item. The stopping and the award property are not inductive. `IInv` adds `RoundInv`
(what the phase says of the last recorded round) and `HoldInv` (the bidders already
served by the loop hold their first choice, the others nothing, and what is taken is
within the items their demands span). The step of `HoldInv` is the argument: excess
demand counts each bidder once for every item in the union of its demands, so when no
item is counted twice the unions are disjoint, and no bundle of a later bidder meets
what was taken. `ClockPrices` has an invariant of its own: a round that raises a price
appends the record that counts it.

**`TruthfulClockProofs`** adds to `IInv` that answers and records are the demands at their
prices (`TruthInv`, `RecordInv`) and `HotInv`: an item whose price has reached the
highest value is not overdemanded again.

- `FinalOutcomeIsEfficient`: the supplementary bids are the tables as soon as one round is recorded;
- `ClearedIsCompetitive`: the first demanded bundle is a best one, and it is the one awarded;
- `PricesEndTheClock`: each uncleared round makes some item hot; an item is hot at most
  `HighestValue \div Step + 1` times, so the rounds are at most that many for every item (`HotInv` summed over items).

**`SealedBidProofs`**, of a proxy. One invariant, `ProxyIInv`, is kept by every event: a session's types, that its bid is
monotone except at the bundle answered last, that no answer is above its report, the books
of questions, and what floors and anchors mean. Most of the work is in lemmas on the
operators: the repair is monotone, only raises, and leaves a value that is reported
for some part. `MonotoneButTheLast`, `BidsCoverAnswers`, `QueriesAreNotWasted`, `FloorsAreSound` and
`AnchorsAreSound` follow.

**`SealedElicitationProofs`.** The first half says of each rule, factor and policy which events it may
propose, and (`ProposalsShrink`) that under unchanged bids and questions, with no fewer bidders among those
asked for a fallback, no new bundle is proposed. `StopsAtFixpoint` speaks of the end of a round and is not inductive:
what an event-handling step must know is that *a round that asked nothing so far has handled, or still
has before it, everything that would be proposed now*. That is `SealedRounds`; the other conjuncts of `SealedIInv` are the
types, the two books of questions with `refined` and `provisional` a partition of the bid's atoms
(`SealedAsked`), that the last record is the auction of the present bids whenever no round is open and
holds no more queries than were asked (`SealedRecords`), and what each termination reason
stands for (`SealedReasons`). Feedback either finds its bundle asked about and changes neither
bids nor books, or asks: then the total grows, the round is no longer quiet, and the conclusion is due to nobody.

- `AttemptedBooksAgree`, `FrontierWasQueried` and `StoppingLosesNothing` follow from it;
- `RunnerImplementsAuction` is the refinement: under the mapping of section 2 an answer is a `Question` of
  `ElicitedAuction`, a recorded round a `Resolve`, and every other step a stutter.

**`WorkspaceProofs`** first proves of `PopulationGeneration`, for any number of batches, any
invocations allowed by `GenerationAssumption` (only resumed invocations name batches to
regenerate, which the script enforces), any replies at any cost, and
any number of invocations, failures and kills:

- `GenerationIsCanonical`: what an invocation accepted, and what it declared complete, is what is on disk;
- `GenerationPassesCeilingOnce`: whatever calls turn out to cost, the ceiling is passed by one call at most;
- `GenerationQuotesItself`: the batches of a population were asked for in view of one another;
- `GenerationResumes`: a resumed invocation neither pays for nor replaces a valid response.

`GenIInv` is `GenTypeOK`, `AcceptedSoFar` (the accepted batches are a prefix of the
disk, up to the one in hand), `AttemptsSoFar` (what the attempts of the batch in hand left
in its file, which is what lets `Accept` conclude that the canonical file is the accepted one) and
`CeilingPassedByOneCall`. Two more invariants rest on it: `QuotesSoFar` (unless a valid response was
replaced, every valid response on disk quotes the ids before it, and the valid ones are a prefix as far as
they were asked for) and `Written` (what a finished invocation left). `GenerationInvariant` proves their conjunction and the
properties follow; `GenerationResumes` is an action property, proved from the same invariant.

Then it proves of `ExperimentWorkspace`, for any grid of sizes, any population size, any
arguments of the scripts, and any number of scripts, failures and kills:

- `WorkspacePacksAreGenuine`: no pack passes off an answer as another person's or about other goods;
- `WorkspaceCasesMatchMasters`: the cases of a complete manifest are projections of its masters;
- `WorkspaceSweepsLeaveNoGap`: a sweep that returned zero left every case with a summary, and whole where the last
  run returned zero;
- `WorkspaceFrozenRuns`, an action property: a frozen final run reads what was frozen;
- `WorkspaceGenerates` and `WorkspaceResumes`: what was shown of the generator alone holds
  in sessions with the other scripts, because these leave its files alone.

None of the first four is inductive, and what they need lies in other scripts and in the subprocess.
`WorkspaceIInv` says who runs (`Exclusive`, `JobInv`: a subprocess runs only for the script that waits for
it, with its command line), what is on disk (`FilesOK`), and how far the running script has got:

- `PrepInv`: while masters are made, those passed validate for the population on disk; while cases are
  projected, all do, and the packs of the cases passed are the projections. A preparation reuses,
  regenerates or rejects a master, so this is three arguments; that a valid pack can be projected is a lemma;
- `DirInv` (`Kept`, of every directory): where the last run returned zero the tables are those of that run; a
  directory in hand of the subprocess is between two of its writes (`Underway`); and one that no failure or
  kill touched has a summary only of a run that returned zero (`Settled`). This is what makes the order of
  the writes, summary first and refinement records last, harmless where nothing interrupts them, and lets a
  rerun make up for an interrupted one;
- `SweepInv`: every cell passed has a summary or is among the failures. It needs that a summary once written
  is never taken away (`SummariesStay`);
- `FinalInv`: while the final runs go on, the frozen specification describes the disk, since nothing else runs.

A step is one of four kinds (`GenMove`, `PrepMove`, `SweepMove`, `JobMove`), and each has a lemma that it keeps
`WorkspaceIInv`. Assumed are `GridAssumption` (the fixed size is one of the sizes, and the sampling order names that
many persons), `ContentsAssumption` (the order is within the population, and a missing or torn file is not
taken for contents) and `ScriptsAssumption` (arguments are what the parsers return); TLC evaluates all of them in `workspace`.

Type correctness needs no run of its own: it is a conjunct of every inductive invariant
(`TypeOK`, `GenTypeOK`, `VcgIInv`, `Kept`, `SealedTypes`, `FilesOK`).

**`InitialElicitationProofs`** proves of `InitialElicitation`, for any bidders and goods, any responses with any
maps and readings, any chunk size and cap, sessions of all four modes, and any number of kills and failed calls:

- `AnswersAreReplayed`: what a call answered is what a read-only session makes of it later;
- `ElicitationsReplay`: so for a whole elicitation, with its readings, audits and chunks;
- `ComplementsAreAlwaysValued`: what is valued is what the map says, however it was normalised and audited;
- `RejectedAreAlwaysEvicted`: a rejected response stays only where a kill or a failed call left it.

It starts with what normalisation leaves of a map (`NormalForm`), what the candidates and chunks of such a map are, and
what `Replay` returns: a `Trail` is the malformed responses a replay meets up to an attempt, and a text is `Answered` where a
trail ends in it. `Replay` is a recursive function, so its values follow by induction on the attempts left.
The properties speak of what is settled or done. The inductive `CacheInv` has to say the same of work in
progress: a call stands at the end of its trail (`CallOk`), what is held for verification is in the
store under the key its client would evict (`HeldOk`), what the bidder in hand has come to can be replayed as far as it goes
(`TaskOk`: the answer, the reading that took it, the map with or without its audit, the chunks before those left),
and so can the entries of the elicitation in progress (`EntriesOk`). `StoreOk` says that keys are keys of prompts
and `FewLeft` counts the rejected responses but the one in hand. A step changes the store in one of
few ways (`Moves`): it stores what was missing, a refresh overwrites one key, a rejected response goes.
That replays survive it is one lemma per predicate; what a refresh overwrites is no longer
claimed (`Rewritten`), since it starts by forgetting what was settled for the request. Assumed are
`CacheAssumption` (good and bad responses are disjoint and none is mistaken for a missing one; every caller asks at least
once) and `ElicitationAssumption` (distinct bidders, finitely many goods, tables that cover the responses).

**`ClockElicitationProofs`** proves of `ClockElicitation`, for any bidders, any items, any values and guesses,
any caps, thresholds, frameworks and sets of switches, and either driver:

- `ElicitedAwardsAreVerified`, `ElicitedCounterfactualsAreVerified`: what is priced, and what removing a winner
  exposes, was queried unless a cap binds;
- `ElicitedCorrectionsReachTheBids`: a priced atom that was queried lies between the answer and the report;
- `ElicitedSupportIsWhatWasDemanded`: the priced bids name what was demanded, and nothing else;
- `ElicitedCapsOverrunByOne`: caps are overrun by one query, and no bundle is queried twice;
- `ElicitedLoopsEndByThemselves`: `max_iterations` cuts no loop short;
- `RecorderOnlyWatches`: `ClockTrajectory` implements `ClockElicitation`, so all of this holds under the recorder;
- `RecorderFollowsTheClock`: the recorder agrees with the run it cannot see (`RowsFollowTheClock`);
- `VerdictsHold`: what its verdict and its event rows say of a priced run is so (`VerdictsAreEarned`).

Most of it is about *sessions*, the record that a chain of queries is folded over. `Sessions` are those whose books
agree (what was issued was asked, the count is the number of questions, caps overrun by at most one), and `After(s, t)` says
what queries may do: nothing asked is forgotten or reported lower, and a query that counts issued something new. Every
kind of question, list of questions, event of a round and pass of an audit is shown to keep these, with what it does to the
recorded atoms (`Kept`, `SameAtoms`, `PassOf`). A pass that counted nothing changed nothing, so each of its
questions is `Settled`: issued, or stopped by a cap. That is what makes the last pass of a loop a verdict on the bids priced.

`EInv` has five parts. `EngineInv` takes types and rounds over from `ClockProofs`, whose lemmas are stated for any oracle.
`BookInv` adds that a loop which goes on has issued an event in each iteration behind it, so
`iteration` is at most the number of events issued and `max_iterations`, one more than there are bundles, is enough. `SupportInv` follows
a demanded bundle from the answer through `revealed` to the recorded bids, with the round in progress on
the way. `CorrectedInv` says which bids hold which corrections in every phase: under
`all_atoms` all of them after every round and pass but those of `frontier_v1`; under a synchronising `demand_revealed`
those of each queried atom. `FinalInv` keeps the verdict of the last pass until prices are computed. Assumed is
`ElicitationAssumption`: there are items and rounds, and tables name every bundle.

`RowsFollowTheClock` is about moments when the recorder and the clock have both finished a round; between them there is one
when the recorder has closed a round that the clock has yet to record (`Closing`). `RecordInv` bridges it.
`MirrorInv`: the mirror holds the atoms of the clock, those of the closing round among them,
until the terminal audit asks anything, and once prices are computed. `RowInv`: there is a row for each round behind, the last
with the allocation of the mirror, the queries so far and the reason the clock is about to act on. `LogInv`: an
event is in a row, waits for the answer of its bidder in this round, or belongs to the terminal audit.
`CountInv`: a row counts the events of its bidders, the last one in the end those of the audit too. The delicate step is an audit
without events: then no query was counted, so the session is unchanged (`PassOf`), and the driver may leave the last row alone.

`VerdictsHold` adds `WorthInv`: the worth of the award of each row is a number, and the last row gives
the cap as reason only if the recorded round left an item overdemanded. A verdict rests on what
`RecordInv` says of all rows at once. The last row, corrected or not, holds the award that is priced, so a better row is an
earlier one; the bundles a bidder saw are those it named in recorded rounds, as no round is closing; and what was
issued was refined, so that no question about a bundle not refined was ever due.

**Only model-checked.** Liveness (`Finishes`), since fairness is
beyond the prover. Every safety property of a passing run is stated by a theorem.

## 6. Not modelled

- `max_winners` of the solver: only tests pass it, and its rounding is a question of floats.
- `native_v1`, `priority_scoring`, the iterative form of
  `frontier_vcg_witness_verification`, and any framework with its terminal winner or witness
  verification switched off: neither preset of the live script, `recommended` or `final-v3`, uses them
  (`experiments/run_config.py:153-214`). `frontier_v1` is modelled with the closures of `final-v3`.
- Fitting of calibrations (`experiments/pv_calibration.py` and its scripts): regression over
  floats. What a calibration does to a bid is in `XorProxy`; its hash in a frozen specification is left out.
- Scenario and population design (`instances/`), prompts, clients, logging, figures, exports and
  statistics: pure functions and text whose state no other component depends on. Valuations enter
  as arbitrary tables, which covers every generator of them.
- The event ablation beyond its start: its loop over treatments and cells is never reached (section 4).
- In `workspace`: several seeds and output directories (each is independent), dry runs, a preflight
  (a choice of passing or not), half-written manifests, and a subprocess that survives its killed driver.

What would come next, in this order: the remaining configurations of the clock runner above, and a
refinement of an abstract store by `LlmCache`.
