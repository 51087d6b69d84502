----------------------------- MODULE SealedVcg ------------------------------
(***************************************************************************)
(* The one-shot sealed VCG auction: run_sealed_xor_vcg and the loop of     *)
(* compute_vcg_payments_with_witnesses that prices one bidder at a time.   *)
(* finalize_from_supplementary_vcg of the clock performs the same steps on *)
(* the supplementary bids.                                                 *)
(***************************************************************************)
EXTENDS XorWdp, Collections, Sequences

CONSTANTS
    Order,          \* the bidders, in the order their bids are supplied
    Named,          \* Named[i]: the bundles bidder i's bid names
    ReportValues    \* the values a bid may report

Bidders == Range(Order)

ASSUME OrderAssumption == Order \in Seq(Bidders) /\ IsInjective(Order)
ASSUME NamedAssumption ==
    \A i \in Bidders : IsFiniteSet(Named[i]) /\ {} \notin Named[i]
ASSUME ValuesAssumption == ReportValues \subseteq Nat

VARIABLES
    bids,       \* the reported profile
    phase,      \* "solve", "price", "done" or "failed"
    full,       \* the allocation of the full winner determination
    next,       \* index in Order of the next bidder to price
    payments,   \* payments fixed so far
    witnesses   \* counterfactuals: the bidder-removal allocations kept so far

vcgVars == <<bids, phase, full, next, payments, witnesses>>

Nothing == [i \in {} |-> {}]

Reports(i) == [Named[i] -> ReportValues]

VcgInit ==
    /\ bids \in {p \in [Bidders -> UNION {Reports(i) : i \in Bidders}] :
                    \A i \in Bidders : p[i] \in Reports(i)}
    /\ phase = "solve"
    /\ full = Nothing
    /\ next = 1
    /\ payments = Nothing
    /\ witnesses = Nothing

\* full = solve_wdp_xor_ilp(items, bids).
Solve ==
    /\ phase = "solve"
    /\ \E a \in Optima(bids) : full' = a
    /\ phase' = "price"
    /\ UNCHANGED <<bids, next, payments, witnesses>>

\* One iteration of the pricing loop; a negative externality raises ValueError
\* after the witness was stored and before the payment is.
Price ==
    /\ phase = "price"
    /\ next <= Len(Order)
    /\ LET i    == Order[next]
           rest == Without(bids, i)
           raw  == RawPayment(bids, full, Welfare(bids, full), OptWelfare(rest), i)
       IN  /\ \E w \in Optima(rest) : witnesses' = Stored(witnesses, i, w)
           /\ payments' = IF raw < 0 THEN payments
                                     ELSE Stored(payments, i, Max({raw, 0}))
           /\ phase' = IF raw < 0 THEN "failed" ELSE phase
    /\ next' = next + 1
    /\ UNCHANGED <<bids, full>>

\* Every bidder is priced: the outcome is returned.
Finish ==
    /\ phase = "price"
    /\ next > Len(Order)
    /\ phase' = "done"
    /\ UNCHANGED <<bids, full, next, payments, witnesses>>

VcgNext == Solve \/ Price \/ Finish

VcgSpec == VcgInit /\ [][VcgNext]_vcgVars

-----------------------------------------------------------------------------

\* The "Negative VCG payment" error is unreachable: although the solver credits
\* one atom and value_of credits the best contained atom, the two agree at an
\* optimum, so no externality is materially negative (vcg.py:84-92).
NeverRaises == phase # "failed"

\* Individual rationality in reported space: a bidder never pays more than the
\* value its own bid puts on what it won, so losers pay nothing.
IndividuallyRational ==
    \A i \in DOMAIN payments : payments[i] <= ValueOf(bids[i], full[i])

\* The utility of bidder i, whose true valuation is v, when it reports `dev`
\* and the solver settles on allocation a.
UtilityOf(i, v, dev, a) ==
    LET reported == [bids EXCEPT ![i] = dev]
    IN  ValueOf(v, a[i])
          - RawPayment(reported, a, Welfare(reported, a), OptWelfare(Without(bids, i)), i)

\* Reporting the truth is a dominant strategy: whatever the others report and
\* whichever tied optimum the solver returns, no other report of the same
\* bundles pays a bidder more than what it gets if its bid is the truth.
TruthIsDominant ==
    phase = "done" =>
        \A i \in Bidders : \A dev \in Reports(i) :
            \A a \in Optima([bids EXCEPT ![i] = dev]) :
                UtilityOf(i, bids[i], dev, a)
                    <= ValueOf(bids[i], full[i]) - payments[i]

=============================================================================
