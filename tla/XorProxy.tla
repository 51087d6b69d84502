------------------------------ MODULE XorProxy ------------------------------
(***************************************************************************)
(* The cached XOR bid of one language-model proxy and the operations that  *)
(* rewrite it (llm/proxies.py), as functions of a proxy record             *)
(*                                                                         *)
(*   bid          the cached bid: bundle -> reported value                 *)
(*   provisional  _provisional_bundles: values nobody was asked about one  *)
(*                by one                                                   *)
(*   refined      refined_bundles                                          *)
(*   count        refinement_query_count                                   *)
(*   exact        the person behind it answers from ground_truth_valuations*)
(*                                                                         *)
(* The calibration multiplies a raw answer by Scale; budget caps and the   *)
(* size discount are left out.                                             *)
(***************************************************************************)
EXTENDS Integers, FiniteSets, FiniteSetsExt

CONSTANT Scale      \* ValueCalibration.scale

ASSUME CalibrationAssumption == Scale \in Nat \ {0}

\* Replace or append the atom of b.
Upsert(bid, b, v) == [a \in DOMAIN bid \cup {b} |-> IF a = b THEN v ELSE bid[a]]

\* Mutated: nothing is repaired.
RepairNothing(bid) == bid

\* enforce_atom_monotonicity: the fixpoint of raising a superset to its subset.
Repair(bid) ==
    [b \in DOMAIN bid |-> Max({bid[a] : a \in {s \in DOMAIN bid : s \subseteq b}})]

\* set_provisional_bid on a fresh proxy.
ProvisionalProxy(values, exact) ==
    LET named == [b \in DOMAIN values \ {{}} |-> values[b]]
    IN  [bid |-> Repair(named), provisional |-> DOMAIN named, refined |-> {}, count |-> 0,
         exact |-> exact]

\* infer_cached_xor_bid on a fresh proxy: every candidate bundle was asked about,
\* and here even an exact answer is calibrated.
InferredProxy(answers, exact) ==
    [bid |-> Repair([b \in DOMAIN answers |-> answers[b] * Scale]),
     provisional |-> {}, refined |-> {}, count |-> 0,
         exact |-> exact]

Singletons(bid) == {s \in DOMAIN bid : Cardinality(s) = 1}

\* The singleton values quoted to the person when bundle b is revalued: an atom
\* that was not refined is uncalibrated first.
Anchors(p, b) ==
    [s \in {t \in Singletons(p.bid) : t \subseteq b /\ t # b} |->
        IF s \in p.refined THEN p.bid[s] ELSE p.bid[s] \div Scale]

\* Mutated: no answer is calibrated.
RevaluedRaw(p, b, answer) ==
    LET fixed == Repair(Upsert(p.bid, b, answer))
    IN  [p EXCEPT !.bid = IF p.exact THEN Upsert(fixed, b, answer) ELSE fixed,
                  !.provisional = @ \ {b},
                  !.refined = @ \cup {b},
                  !.count = @ + 1]

\* Mutated: the bundle stays provisional.
RevaluedStillProvisional(p, b, answer) ==
    LET value == IF p.exact THEN answer ELSE answer * Scale
        fixed == Repair(Upsert(p.bid, b, value))
    IN  [p EXCEPT !.bid = IF p.exact THEN Upsert(fixed, b, value) ELSE fixed,
                  !.refined = @ \cup {b},
                  !.count = @ + 1]

\* _revalue_and_upsert_atom once the person has answered: an exact answer is
\* written again after the repair, any other is left as the repair made it.
Revalued(p, b, answer) ==
    LET value == IF p.exact THEN answer ELSE answer * Scale
        fixed == Repair(Upsert(p.bid, b, value))
    IN  [p EXCEPT !.bid = IF p.exact THEN Upsert(fixed, b, value) ELSE fixed,
                  !.provisional = @ \ {b},
                  !.refined = @ \cup {b},
                  !.count = @ + 1]

\* Mutated: the floor is written whatever the cached value is.
SatisfiedAlwaysRewrites(p, b, price) ==
    [p EXCEPT !.bid = Repair(Upsert(p.bid, b, price)),
              !.refined = @ \cup {b},
              !.count = @ + 1]

\* refine_via_demand_query, person satisfied with b at this bundle price: a
\* cached value below the price is raised to it.
Satisfied(p, b, price) ==
    [p EXCEPT !.bid = IF b \in DOMAIN p.bid /\ price > p.bid[b]
                      THEN Repair(Upsert(p.bid, b, price)) ELSE p.bid,
              !.refined = @ \cup {b},
              !.count = @ + 1]

\* refine_via_demand_query, person prefers another bundle, which is revalued.
Diverted(p, b, preferred, answer) ==
    [Revalued(p, preferred, answer) EXCEPT !.refined = @ \cup {b}]

\* Mutated: a bundle is asked about again and again.
AlreadyAskedNever(p, b) == FALSE

\* The adapter asks no value query about a bundle whose atom is not provisional.
AlreadyAsked(p, b) == b \in DOMAIN p.bid /\ b \notin p.provisional
=============================================================================
