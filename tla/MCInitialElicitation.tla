------------------------ MODULE MCInitialElicitation ------------------------
(***************************************************************************)
(* One bidder and three goods: 1 and 2 are alternatives, 2 and 3 belong    *)
(* together.  The person, the verifier, the map and the audit may each say *)
(* one of two things, or something malformed.                              *)
(***************************************************************************)
EXTENDS InitialElicitation

MCItems == 1..3
MCBidders == <<"b1">>

Alternatives == [items |-> {1, 2}, mode |-> "choose_one", explicit |-> TRUE]
Joint        == {2, 3}

Profile == [interested |-> MCItems, excluded |-> {}, complements |-> {Joint},
            substitutes |-> {Alternatives}]
MCTruth == [b \in {"b1"} |-> Profile]

MCAnswers == {"answer 1", "answer 2"}

MCExtraction ==
    [agrees  |-> [positive |-> MCItems, excluded |-> {}, complements |-> {Joint},
                  substitutes |-> {Alternatives}, figuresKept |-> TRUE],
     differs |-> [positive |-> MCItems, excluded |-> {}, complements |-> {},
                  substitutes |-> {Alternatives}, figuresKept |-> TRUE]]

MCUpheldModes == [upholds |-> {{1, 2}}, doubts |-> {}]

Map(complements) ==
    [interested |-> MCItems, excluded |-> {}, complements |-> complements,
     proven |-> complements, substitutes |-> {Alternatives}]
MCRawMap == [joint |-> Map({Joint}), plain |-> Map({}), contradicts |-> Map({{1, 2}})]

MCEntailed == [retains |-> {Joint}, drops |-> {}]

MCValues == {"values"}
MCQueried == {"value"}

MCGood == MCAnswers \cup {"agrees", "differs", "upholds", "doubts", "joint", "plain",
                          "retains", "drops"} \cup MCValues \cup MCQueried
MCBad == {"malformed", "contradicts"}
MCUnwelcome == MCBad \cup {"differs", "doubts"}

MCPlans == {[disclosed |-> "none", policy |-> "degrade"],
            [disclosed |-> "answer 1", policy |-> "raise"]}

MCRequests == {Prompt("demand_query", "b1")}
=============================================================================
