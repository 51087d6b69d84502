----------------------------- MODULE InterestMaps -----------------------------
(***************************************************************************)
(* What a proxy makes of a person's opening answer, without its wording:   *)
(* the check of the answer against the hidden profile                      *)
(* (llm/person_simulator.py), the interest map parsed from a response      *)
(* (llm/parsing.py), its validation and normalisation, and the candidate   *)
(* bundles derived from it (llm/interest_map.py), split in chunks for the  *)
(* bulk valuation (llm/provisional_valuations.py).                         *)
(*                                                                         *)
(* Items are numbers in the order of their names.  A map has interested    *)
(* and excluded items, complementary groups, and substitute groups with an *)
(* acquisition mode and whether the answer states it; budget hints and     *)
(* quoted evidence are left out.                                           *)
(***************************************************************************)
EXTENDS Sequences, SequencesExt, XorWdp

\* Groups of two known items or more, each once.
Groups(groups, known) == {g \in {h \cap known : h \in groups} : Cardinality(g) >= 2}

Substitutes(groups, known) ==
    {g \in {[items |-> h.items \cap known, mode |-> h.mode, explicit |-> h.explicit] :
                h \in groups} : Cardinality(g.items) >= 2}

Shares(a, b) == Cardinality(a \cap b) >= 2

-----------------------------------------------------------------------------
\* The opening answer, read back by the verifier.

\* A mode the person did not state counts as unclear.
StatedMode(g) == IF g.explicit THEN g.mode ELSE "unclear"

\* compare_person_answer_extraction: nothing missing, nothing invented, every
\* group with its mode, the figures as disclosed.
Discloses(extraction, truth, known) ==
    LET positive == extraction.positive \cap known
    IN  /\ truth.interested \cap known \subseteq positive
        /\ truth.interested \cap extraction.excluded \cap known = {}
        /\ positive \cap truth.excluded = {}
        /\ {<<g.items, StatedMode(g)>> : g \in Substitutes(extraction.substitutes, known)}
             = {<<g.items, g.mode>> : g \in Substitutes(truth.substitutes, known)}
        /\ Groups(extraction.complements, known) = Groups(truth.complements, known)
        /\ extraction.figuresKept

\* The modes an extraction claims the person stated.
Claims(extraction) ==
    {g \in extraction.substitutes : g.mode # "unclear" /\ g.explicit}

\* _check_substitute_mode_entailment: a claim the second pass does not uphold
\* becomes unclear.
Upheld(extraction, upheld) ==
    [extraction EXCEPT !.substitutes =
        {IF g \in Claims(extraction) /\ g.items \notin upheld
         THEN [g EXCEPT !.mode = "unclear", !.explicit = FALSE] ELSE g : g \in @}]

-----------------------------------------------------------------------------
\* The interest map.

\* parse_interest_map_response: unknown items go, a complementary group needs
\* explicit evidence and a mode needs an explicit statement.
ParsedMap(raw, known) ==
    [interested  |-> raw.interested \cap known,
     excluded    |-> raw.excluded \cap known,
     complements |-> Groups(raw.complements, known) \cap raw.proven,
     substitutes |-> {[g EXCEPT !.mode = StatedMode(g)] :
                        g \in Substitutes(raw.substitutes, known)}]

\* Reports of one group are merged; a disagreement on the mode makes it unclear.
Merged(groups) ==
    {LET reports == {h \in groups : h.items = g.items}
         mode    == IF \A h \in reports : h.mode = g.mode THEN g.mode ELSE "unclear"
     IN  [items |-> g.items, mode |-> mode,
          explicit |-> mode # "unclear" /\ \A h \in reports : h.explicit]
     : g \in groups}

Grouped(map) ==
    (UNION map.complements) \cup (UNION {g.items : g \in map.substitutes})

ChooseOne(map) == {g.items : g \in {h \in map.substitutes : h.mode = "choose_one"}}

\* Complementary groups that no exclusive group contradicts.
Compatible(complements, exclusive) ==
    {c \in complements : \A g \in exclusive : ~Shares(c, g)}

\* normalise_interest_map: exclusion is authoritative, grouped items become
\* interesting, what is not mentioned is excluded, contradicted groups go.
NormalMap(map, known) ==
    LET excluded   == map.excluded \cap known
        kept       == known \ excluded
        structure  == [complements |-> Groups(map.complements, kept),
                       substitutes |-> Merged(Substitutes(map.substitutes, kept))]
        interested == (map.interested \cap kept) \cup Grouped(structure)
    IN  [interested  |-> interested,
         excluded    |-> known \ interested,
         complements |-> Compatible(structure.complements, ChooseOne(structure)),
         substitutes |-> structure.substitutes]

\* validate_interest_map_semantics.
Consistent(map, known) ==
    /\ map.interested \cup map.excluded = known
    /\ map.interested \cap map.excluded = {}
    /\ Grouped(map) \subseteq map.interested
    /\ NormalMap(map, known).complements = map.complements

\* _fallback_interest_map: everything may be of interest.
AllItems(known) ==
    [interested |-> known, excluded |-> {}, complements |-> {}, substitutes |-> {}]

-----------------------------------------------------------------------------
\* Candidate bundles.

\* Complementary groups first, then single items, then the other bundles by size.
Tier(map, bundle) ==
    IF bundle \in map.complements THEN 0 ELSE IF Cardinality(bundle) = 1 THEN 1 ELSE 2

\* Mutated: bundles by size only.
PrecedesBySize(map, a, b) ==
    \/ Cardinality(a) < Cardinality(b)
    \/ Cardinality(a) = Cardinality(b) /\ LexLess(a, b)

Precedes(map, a, b) ==
    \/ Tier(map, a) < Tier(map, b)
    \/ /\ Tier(map, a) = Tier(map, b)
       /\ \/ Cardinality(a) < Cardinality(b)
          \/ Cardinality(a) = Cardinality(b) /\ LexLess(a, b)

\* generate_candidate_bundles_from_interest_map, cut at the cap if there is one.
CandidateBundles(map, known, cap) ==
    LET normal    == NormalMap(map, known)
        valid     == {b \in (SUBSET normal.interested) \ {{}} :
                        \A g \in ChooseOne(normal) : ~Shares(b, g)}
        before(b) == {a \in valid : Precedes(normal, a, b)}
        taken     == IF cap = 0 THEN Cardinality(valid) ELSE Min({cap, Cardinality(valid)})
    IN  [n \in 1..taken |-> CHOOSE b \in valid : Cardinality(before(b)) = n - 1]

\* chunk_candidate_bundles.
Chunks(bundles, size) ==
    IF bundles = <<>> THEN <<>>
    ELSE IF size = 0 \/ Len(bundles) <= size THEN <<bundles>>
    ELSE [i \in 1..((Len(bundles) + size - 1) \div size) |->
            SubSeq(bundles, (i - 1) * size + 1, Min({i * size, Len(bundles)}))]
=============================================================================
