------------------------------- MODULE XorWdp -------------------------------
(***************************************************************************)
(* XOR bids, winner determination and VCG payments as pure operators       *)
(* (bids/xor.py, solvers/wdp_ilp.py, payments/vcg.py).                     *)
(*                                                                         *)
(* A bundle is a set of items.  A bid maps the bundles it names (its atoms)*)
(* to reported values; a profile maps every bidder to a bid.  An allocation*)
(* maps every bidder of a profile to a bundle, {} when the bidder wins     *)
(* nothing.  The solver is deterministic but its choice among tied optima  *)
(* is opaque to the code that calls it, so Optima returns all of them.     *)
(***************************************************************************)
EXTENDS Integers, FiniteSets, FiniteSetsExt, Functions

\* XorBid.value_of: the best atom contained in the assigned bundle, at least 0.
ValueOf(bid, assigned) ==
    Max({0} \cup {bid[b] : b \in {a \in DOMAIN bid : a \subseteq assigned}})

\* What the solver credits for the atom it selects; no selected atom is worth 0.
AtomValue(bid, b) == IF b = {} THEN 0 ELSE bid[b]

Disjoint(alloc) ==
    \A i, j \in DOMAIN alloc : i # j => alloc[i] \cap alloc[j] = {}

\* The 0/1 selections the model admits: one atom per bidder, one owner per item.
Feasible(bids) ==
    LET named == {{}} \cup UNION {DOMAIN bids[i] : i \in DOMAIN bids}
    IN  {alloc \in [DOMAIN bids -> named] :
            /\ \A i \in DOMAIN bids : alloc[i] \in DOMAIN bids[i] \cup {{}}
            /\ Disjoint(alloc)}

\* _extract_allocation: the sum of the selected candidates' values.
Welfare(bids, alloc) ==
    SumFunction([i \in DOMAIN bids |-> AtomValue(bids[i], alloc[i])])

\* solve_wdp_xor_ilp.
OptWelfare(bids) == Max({Welfare(bids, a) : a \in Feasible(bids)})

Optima(bids) ==
    LET F    == Feasible(bids)
        best == Max({Welfare(bids, a) : a \in F})
    IN  {a \in F : Welfare(bids, a) = best}

\* One deterministic answer of the solver; which of the tied optima is unknown, and
\* here it is one that is largest for the favoured bidder.
Solved(bids, favoured) ==
    LET best    == Optima(bids)
        gain(a) == IF favoured \in DOMAIN a THEN Cardinality(a[favoured]) ELSE 0
    IN  CHOOSE a \in best : \A c \in best : gain(c) <= gain(a)

\* Lexicographic order of two bundles as sorted tuples; items are numbers in the
\* order of their names.
LexLess(a, b) ==
    LET d == Min(SymDiff(a, b))
    IN  a # b /\ IF d \in a THEN \E y \in b : y > d ELSE \A x \in a : x < d

\* bids_excluded in compute_vcg_payments_with_witnesses.
Without(bids, i) == Restrict(bids, DOMAIN bids \ {i})

\* Mutated: the bidder's own value stays in the welfare of the others.
RawPaymentKeepsOwnValue(bids, alloc, welfare, welfareWithout, i) ==
    welfareWithout - welfare

\* Mutated: the welfare the others do get is not subtracted.
RawPaymentNoOthers(bids, alloc, welfare, welfareWithout, i) == welfareWithout

\* Mutated: winners pay what they bid.
RawPaymentAsBid(bids, alloc, welfare, welfareWithout, i) ==
    ValueOf(bids[i], alloc[i])

\* The externality of bidder i before it is clipped at 0.
RawPayment(bids, alloc, welfare, welfareWithout, i) ==
    welfareWithout - (welfare - ValueOf(bids[i], alloc[i]))
=============================================================================
