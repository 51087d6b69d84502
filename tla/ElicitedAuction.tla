--------------------------- MODULE ElicitedAuction ---------------------------
(***************************************************************************)
(* What an auction with elicitation promises, whatever it asks and when:   *)
(* bids change only by the answer to a question that was not asked before, *)
(* and every result is optimal for the bids as last corrected.             *)
(***************************************************************************)
EXTENDS XorWdp

CONSTANTS
    Bidders,
    NoResult

VARIABLES
    truth,      \* what every bidder answers about a bundle
    bids,       \* the profile of reported bids
    asked,      \* the bundles every bidder was asked about
    result,     \* the allocation last resolved
    open        \* whether questions may still be asked

auction == <<truth, bids, asked, result, open>>

Init ==
    /\ asked = [i \in Bidders |-> {}]
    /\ result = NoResult
    /\ open = TRUE

\* A question about b: the answer is reported as it was given; another atom may be
\* raised, to what the bidder reports for a part of it, and never falls.
Question(i, b) ==
    /\ open
    /\ b \in DOMAIN bids[i] \ asked[i]
    /\ asked' = [asked EXCEPT ![i] = @ \cup {b}]
    /\ \A j \in Bidders \ {i} : bids'[j] = bids[j]
    /\ DOMAIN bids'[i] = DOMAIN bids[i]
    /\ bids'[i][b] = truth[i][b]
    /\ \A c \in DOMAIN bids[i] \ {b} :
          \/ bids'[i][c] = bids[i][c]
          \/ /\ bids'[i][c] > bids[i][c]
             /\ \E a \in DOMAIN bids[i] :
                   a \subseteq c /\ bids'[i][c] \in {bids[i][a], truth[i][b]}
    /\ UNCHANGED <<truth, result, open>>

\* A result; it may be the last.
Resolve ==
    /\ open
    /\ result' \in Optima(bids)
    /\ open' \in BOOLEAN
    /\ UNCHANGED <<truth, bids, asked>>

Next == Resolve \/ \E i \in Bidders : \E b \in DOMAIN bids[i] : Question(i, b)

Spec == Init /\ [][Next]_auction
=============================================================================
