------------------------ MODULE InitialElicitationProofs ------------------------
(***************************************************************************)
(* Theorems about the initial elicitation over the response cache, for any *)
(* bidders, goods, requests, responses, session modes and cap: what was    *)
(* answered is replayed, an elicitation replays as a whole, rejected       *)
(* responses do not stay, and what is valued is what the map says.  First  *)
(* what maps, candidates, chunks and replays are, then what a step may do  *)
(* to the store, then the invariant with one lemma per action.             *)
(***************************************************************************)
EXTENDS InitialElicitation, AuctionLemmas, SequenceTheorems

-----------------------------------------------------------------------------
(* Interest maps.                                                          *)

\* A normalised map: nothing is named that is not of interest, groups have two items
\* or more, a substitute group has one mode, and no exclusive group contradicts a
\* complementary one.
NormalForm(m, known) ==
    /\ m.interested \subseteq known /\ m.excluded = known \ m.interested
    /\ \A c \in m.complements : c \subseteq m.interested /\ Cardinality(c) >= 2
    /\ \A g \in m.substitutes : /\ g.items \subseteq m.interested /\ Cardinality(g.items) >= 2
                                /\ \A h \in m.substitutes : h.items = g.items => h.mode = g.mode
    /\ \A c \in m.complements, g \in ChooseOne(m) : ~Shares(c, g)

\* Merged reports keep their items; reports of one group get one mode.
LEMMA MergedIs ==
    ASSUME NEW S
    PROVE  /\ \A g \in Merged(S) : \E h \in S : g.items = h.items
           /\ \A g \in S : \E h \in Merged(S) : h.items = g.items
           /\ \A g, h \in Merged(S) : g.items = h.items => g.mode = h.mode
<1> DEFINE reports(g) == {h \in S : h.items = g.items}
           modeOf(g) == IF \A h \in reports(g) : h.mode = g.mode THEN g.mode ELSE "unclear"
           report(g) == [items |-> g.items, mode |-> modeOf(g),
                         explicit |-> modeOf(g) # "unclear" /\ \A h \in reports(g) : h.explicit]
<1>1. Merged(S) = {report(g) : g \in S}
    BY DEF Merged
<1>2. \A g : report(g).items = g.items /\ report(g).mode = modeOf(g)
    OBVIOUS
<1>3. ASSUME NEW a \in S, NEW b \in S, a.items = b.items
      PROVE  modeOf(a) = modeOf(b)
    <2>1. reports(a) = reports(b) /\ a \in reports(a) /\ b \in reports(a)
        BY <1>3
    <2> QED
        BY <2>1
<1> HIDE DEF modeOf, report
<1> QED
    BY <1>1, <1>2, <1>3

\* Where no two reports of a group differ, merging changes no mode.
LEMMA MergedAgain ==
    ASSUME NEW S, \A g \in S, h \in S : h.items = g.items => h.mode = g.mode
    PROVE  \A i, md : (\E g \in Merged(S) : g.items = i /\ g.mode = md)
                        <=> (\E g \in S : g.items = i /\ g.mode = md)
<1> DEFINE reports(g) == {h \in S : h.items = g.items}
           modeOf(g) == IF \A h \in reports(g) : h.mode = g.mode THEN g.mode ELSE "unclear"
           report(g) == [items |-> g.items, mode |-> modeOf(g),
                         explicit |-> modeOf(g) # "unclear" /\ \A h \in reports(g) : h.explicit]
<1>1. Merged(S) = {report(g) : g \in S}
    BY DEF Merged
<1>2. \A g \in S : report(g).items = g.items /\ report(g).mode = g.mode
    OBVIOUS
<1> HIDE DEF report
<1> QED
    BY <1>1, <1>2

\* Substitute groups cut to known items.
LEMMA SubstitutesAre ==
    ASSUME NEW groups, NEW known
    PROVE  /\ \A g \in Substitutes(groups, known) :
                 /\ g.items \subseteq known /\ Cardinality(g.items) >= 2
                 /\ \E h \in groups : g.items = h.items \cap known /\ g.mode = h.mode
           /\ \A h \in groups : Cardinality(h.items \cap known) >= 2 =>
                 \E g \in Substitutes(groups, known) :
                    g.items = h.items \cap known /\ g.mode = h.mode
<1> DEFINE cut(h) == [items |-> h.items \cap known, mode |-> h.mode, explicit |-> h.explicit]
<1>1. Substitutes(groups, known) = {g \in {cut(h) : h \in groups} : Cardinality(g.items) >= 2}
    BY DEF Substitutes
<1>2. \A h : cut(h).items = h.items \cap known /\ cut(h).mode = h.mode
    OBVIOUS
<1> HIDE DEF cut
<1> QED
    BY <1>1, <1>2

\* Normalising a map brings it into normal form.
LEMMA NormalMapIs ==
    ASSUME NEW m, NEW known
    PROVE  /\ NormalForm(NormalMap(m, known), known)
           /\ NormalMap(m, known) = [interested  |-> NormalMap(m, known).interested,
                                     excluded    |-> NormalMap(m, known).excluded,
                                     complements |-> NormalMap(m, known).complements,
                                     substitutes |-> NormalMap(m, known).substitutes]
<1> DEFINE kept == known \ (m.excluded \cap known)
           groups == Groups(m.complements, kept)
           subs == Merged(Substitutes(m.substitutes, kept))
           structure == [complements |-> groups, substitutes |-> subs]
           grouped == Grouped(structure)
           interested == (m.interested \cap kept) \cup grouped
           n == [interested |-> interested, excluded |-> known \ interested,
                 complements |-> Compatible(groups, ChooseOne(structure)),
                 substitutes |-> subs]
<1>1. NormalMap(m, known) = n
    BY DEF NormalMap
<1>2. \A c \in groups : c \subseteq kept /\ Cardinality(c) >= 2
    BY DEF Groups
<1>3. \A g \in subs : g.items \subseteq kept /\ Cardinality(g.items) >= 2
    <2> HIDE DEF kept
    <2> QED
        BY SubstitutesAre, MergedIs
<1>4. \A g, h \in subs : g.items = h.items => g.mode = h.mode
    BY MergedIs
<1> DEFINE of == UNION {g.items : g \in subs}
<1>5. grouped = (UNION groups) \cup of
    BY DEF Grouped
<1>6. ChooseOne(structure) = ChooseOne(n)
    BY DEF ChooseOne
<1>7. n.complements = Compatible(groups, ChooseOne(n)) /\ n.substitutes = subs
      /\ n.interested = interested /\ n.excluded = known \ interested
    BY <1>6
<1> HIDE DEF groups, subs, structure, grouped
<1>8. interested \subseteq known
    <2>1. UNION groups \subseteq kept
        BY <1>2
    <2>2. of \subseteq kept
        BY <1>3
    <2> HIDE DEF of
    <2> QED
        BY <1>5, <2>1, <2>2
<1>9. (\A c \in groups : c \subseteq interested) /\ \A g \in subs : g.items \subseteq interested
    <2>1. \A c \in groups : c \subseteq UNION groups
        OBVIOUS
    <2>2. \A g \in subs : g.items \subseteq of
        OBVIOUS
    <2> HIDE DEF of
    <2> QED
        BY <1>5, <2>1, <2>2
<1>10. NormalForm(n, known)
    <2> HIDE DEF n, interested
    <2> QED
        BY <1>2, <1>3, <1>4, <1>7, <1>8, <1>9 DEF NormalForm, Compatible
<1> QED
    BY <1>1, <1>10

\* The audit takes complementary groups away.
LEMMA AuditedForm ==
    ASSUME NEW m, NEW n, NEW known, NormalForm(m, known), n.complements \subseteq m.complements,
           n.interested = m.interested, n.excluded = m.excluded, n.substitutes = m.substitutes
    PROVE  NormalForm(n, known) /\ ChooseOne(n) = ChooseOne(m)
<1>1. ChooseOne(n) = ChooseOne(m)
    BY DEF ChooseOne
<1> QED
    BY <1>1 DEF NormalForm

\* The fallback is in normal form.
LEMMA AllItemsForm ==
    ASSUME NEW known
    PROVE  NormalForm(AllItems(known), known)
BY DEF NormalForm, AllItems, ChooseOne

\* Normalising a map in normal form changes neither its complementary groups nor its
\* exclusive ones.
LEMMA NormalAgain ==
    ASSUME NEW m, NEW known, NormalForm(m, known)
    PROVE  /\ NormalMap(m, known).complements = m.complements
           /\ ChooseOne(NormalMap(m, known)) = ChooseOne(m)
           /\ NormalMap(m, known).interested = m.interested
<1> DEFINE kept == known \ (m.excluded \cap known)
           groups == Groups(m.complements, kept)
           cut == Substitutes(m.substitutes, kept)
           subs == Merged(cut)
           structure == [complements |-> groups, substitutes |-> subs]
           grouped == Grouped(structure)
           interested == (m.interested \cap kept) \cup grouped
           n == [interested |-> interested, excluded |-> known \ interested,
                 complements |-> Compatible(groups, ChooseOne(structure)),
                 substitutes |-> subs]
<1>1. NormalMap(m, known) = n
    BY DEF NormalMap
<1>2. kept = m.interested
    BY DEF NormalForm
<1> HIDE DEF kept
<1>3. groups = m.complements
    <2>1. \A c \in m.complements : c \cap m.interested = c /\ Cardinality(c) >= 2
        BY DEF NormalForm
    <2>2. {h \cap m.interested : h \in m.complements} = m.complements
        BY <2>1
    <2> QED
        BY <1>2, <2>1, <2>2 DEF Groups
<1>4. \A i, md : (\E g \in cut : g.items = i /\ g.mode = md)
                   <=> (\E g \in m.substitutes : g.items = i /\ g.mode = md)
    <2>1. \A g \in m.substitutes : g.items \cap m.interested = g.items
                                   /\ Cardinality(g.items) >= 2
        BY DEF NormalForm
    <2>2. cut = Substitutes(m.substitutes, m.interested)
        BY <1>2
    <2> HIDE DEF cut
    <2>3. \A g \in cut : \E h \in m.substitutes : g.items = h.items /\ g.mode = h.mode
        <3>1. \A g \in cut : \E h \in m.substitutes :
                 g.items = h.items \cap m.interested /\ g.mode = h.mode
            BY <2>2, SubstitutesAre
        <3> QED
            BY <2>1, <3>1
    <2>4. \A h \in m.substitutes : \E g \in cut : g.items = h.items /\ g.mode = h.mode
        <3>1. \A h \in m.substitutes : Cardinality(h.items \cap m.interested) >= 2 =>
                 \E g \in cut : g.items = h.items \cap m.interested /\ g.mode = h.mode
            BY <2>2, SubstitutesAre
        <3> QED
            BY <2>1, <3>1
    <2> QED
        BY <2>3, <2>4
<1>5. \A g \in cut, h \in cut : h.items = g.items => h.mode = g.mode
    <2>1. \A g, h \in m.substitutes : h.items = g.items => h.mode = g.mode
        BY DEF NormalForm
    <2> HIDE DEF cut
    <2> QED
        BY <1>4, <2>1
<1> HIDE DEF cut
<1>6. \A i, md : (\E g \in subs : g.items = i /\ g.mode = md)
                   <=> (\E g \in m.substitutes : g.items = i /\ g.mode = md)
    BY <1>4, <1>5, MergedAgain
<1> HIDE DEF subs
<1>7. ChooseOne(structure) = ChooseOne(m)
    <2>1. \A i : i \in ChooseOne(structure)
                   <=> \E g \in subs : g.items = i /\ g.mode = "choose_one"
        BY DEF ChooseOne
    <2>2. \A i : i \in ChooseOne(m)
                   <=> \E g \in m.substitutes : g.items = i /\ g.mode = "choose_one"
        BY DEF ChooseOne
    <2> HIDE DEF structure
    <2> QED
        BY <1>6, <2>1, <2>2
<1>8. ChooseOne(n) = ChooseOne(structure)
    BY DEF ChooseOne
<1>9. Compatible(groups, ChooseOne(structure)) = m.complements
    BY <1>3, <1>7 DEF Compatible, NormalForm
<1>10. interested = m.interested
    <2>1. UNION m.complements \subseteq m.interested
        BY DEF NormalForm
    <2> DEFINE of == UNION {g.items : g \in subs}
    <2>2. of \subseteq m.interested
        <3>1. \A g \in m.substitutes : g.items \subseteq m.interested
            BY DEF NormalForm
        <3> QED
            BY <1>6, <3>1
    <2>3. grouped = (UNION groups) \cup of
        BY DEF Grouped
    <2> HIDE DEF of, grouped, groups
    <2> QED
        BY <1>2, <1>3, <2>1, <2>2, <2>3
<1> QED
    BY <1>1, <1>7, <1>8, <1>9, <1>10
\* What comes before an element in a strict total order is fewer than what comes
\* before a later one.
LEMMA PlacesDiffer ==
    ASSUME NEW S, IsFiniteSet(S), NEW R, Orders(R, S), NEW a \in S, NEW b \in S
    PROVE  /\ Cardinality(Predecessors(R, S, a)) \in Nat
           /\ Cardinality(Predecessors(R, S, a)) < Cardinality(S)
           /\ <<a, b>> \in R =>
                 Cardinality(Predecessors(R, S, a)) < Cardinality(Predecessors(R, S, b))
<1> DEFINE A == Predecessors(R, S, a)
           B == Predecessors(R, S, b)
<1>1. A \subseteq S /\ B \subseteq S /\ a \notin A
    BY DEF Predecessors, Orders
<1>2. <<a, b>> \in R => A \subseteq B /\ a \in B
    BY DEF Predecessors, Orders
<1> HIDE DEF A, B
<1>3. IsFiniteSet(A) /\ IsFiniteSet(B)
    BY <1>1, FS_Subset
<1>4. Cardinality(A) \in Nat /\ Cardinality(B) \in Nat /\ Cardinality(S) \in Nat
    BY <1>3, FS_CardinalityType
<1>5. Cardinality(A) < Cardinality(S)
    <2>1. Cardinality(A) <= Cardinality(S) /\ (Cardinality(A) = Cardinality(S) => A = S)
        BY <1>1, FS_Subset
    <2> QED
        BY <1>1, <1>4, <2>1
<1>6. <<a, b>> \in R => Cardinality(A) < Cardinality(B)
    <2> SUFFICES ASSUME <<a, b>> \in R
                 PROVE  Cardinality(A) < Cardinality(B)
        OBVIOUS
    <2>1. Cardinality(A) <= Cardinality(B) /\ (Cardinality(A) = Cardinality(B) => A = B)
        BY <1>2, <1>3, FS_Subset
    <2> QED
        BY <1>1, <1>2, <1>4, <2>1
<1> QED
    BY <1>4, <1>5, <1>6 DEF A, B

\* Candidates are put in a strict total order.
LEMMA PrecedesOrders ==
    ASSUME NEW m, NEW known \in SUBSET Nat, IsFiniteSet(known), NEW valid \in SUBSET SUBSET known
    PROVE  Orders({ab \in valid \X valid : Precedes(m, ab[1], ab[2])}, valid)
<1> DEFINE R == {ab \in valid \X valid : Precedes(m, ab[1], ab[2])}
<1>1. \A a \in valid : /\ Tier(m, a) \in Int /\ a \in SUBSET Nat
                       /\ IsFiniteSet(a) /\ Cardinality(a) \in Int
    <2>1. \A a \in valid : a \subseteq known /\ a \in SUBSET Nat
        OBVIOUS
    <2>2. \A a \in valid : IsFiniteSet(a)
        BY <2>1, FS_Subset
    <2>3. \A a \in valid : Cardinality(a) \in Int
        BY <2>2, FS_CardinalityType
    <2>4. \A a \in valid : Tier(m, a) \in Int
        BY DEF Tier
    <2> QED
        BY <2>1, <2>2, <2>3, <2>4
<1> DEFINE tier == [a \in valid |-> Tier(m, a)]
           size == [a \in valid |-> Cardinality(a)]
           first == {ab \in valid \X valid : FirstIn(ab[1], ab[2])}
<1>2. \A a, b \in valid : <<a, b>> \in R <=>
        \/ tier[a] < tier[b]
        \/ tier[a] = tier[b] /\ (size[a] < size[b] \/ (size[a] = size[b] /\ <<a, b>> \in first))
    <2> SUFFICES ASSUME NEW a \in valid, NEW b \in valid
                 PROVE  <<a, b>> \in R <=>
                          \/ tier[a] < tier[b]
                          \/ /\ tier[a] = tier[b]
                             /\ size[a] < size[b] \/ (size[a] = size[b] /\ <<a, b>> \in first)
        OBVIOUS
    <2>1. <<a, b>> \in R <=> Precedes(m, a, b)
        OBVIOUS
    <2>2. <<a, b>> \in first <=> FirstIn(a, b)
        OBVIOUS
    <2>3. size[a] = size[b] => (LexLess(a, b) <=> FirstIn(a, b))
        BY <1>1, LexIsFirst
    <2>4. Precedes(m, a, b) <=>
            \/ tier[a] < tier[b]
            \/ tier[a] = tier[b] /\ (size[a] < size[b] \/ (size[a] = size[b] /\ LexLess(a, b)))
        BY DEF Precedes
    <2> HIDE DEF tier, size, first, R
    <2> QED
        BY <2>1, <2>2, <2>3, <2>4
<1>3. /\ \A a \in valid : <<a, a>> \notin first
      /\ \A a, b, c \in valid : <<a, b>> \in first /\ <<b, c>> \in first => <<a, c>> \in first
      /\ \A a, b \in valid : a # b => <<a, b>> \in first \/ <<b, a>> \in first
    <2>1. \A a, b \in valid : <<a, b>> \in first <=> FirstIn(a, b)
        OBVIOUS
    <2> HIDE DEF first
    <2>2. \A a \in valid : <<a, a>> \notin first
        BY <1>1, <2>1, FirstInOrders
    <2>3. \A a, b, c \in valid : <<a, b>> \in first /\ <<b, c>> \in first => <<a, c>> \in first
        BY <1>1, <2>1, FirstInOrders
    <2>4. \A a, b \in valid : a # b => <<a, b>> \in first \/ <<b, a>> \in first
        BY <1>1, <2>1, FirstInOrders
    <2> QED
        BY <2>2, <2>3, <2>4
<1>4. \A a \in valid : tier[a] \in Int /\ size[a] \in Int
    BY <1>1
<1> HIDE DEF tier, size, first, R
<1>5. Orders(R, valid)
    <2>1. ASSUME NEW a \in valid
          PROVE  <<a, a>> \notin R
        <3>1. <<a, a>> \notin first /\ tier[a] \in Int /\ size[a] \in Int
            BY <1>3, <1>4
        <3> QED
            BY <1>2, <3>1
    <2>2. ASSUME NEW a \in valid, NEW b \in valid, NEW c \in valid, <<a, b>> \in R, <<b, c>> \in R
          PROVE  <<a, c>> \in R
        BY <1>2, <1>3, <1>4, <2>2
    <2>3. ASSUME NEW a \in valid, NEW b \in valid, a # b
          PROVE  <<a, b>> \in R \/ <<b, a>> \in R
        <3>1. <<a, b>> \in first \/ <<b, a>> \in first
            BY <1>3, <2>3
        <3>2. tier[a] \in Int /\ size[a] \in Int /\ tier[b] \in Int /\ size[b] \in Int
            BY <1>4
        <3> QED
            BY <1>2, <3>1, <3>2
    <2> QED
        BY <2>1, <2>2, <2>3 DEF Orders
<1> QED
    BY <1>5 DEF R

\* The bundles of interest that respect the exclusive groups.
ValidBundles(m) ==
    {b \in (SUBSET m.interested) \ {{}} : \A g \in ChooseOne(m) : ~Shares(b, g)}

\* The candidates of a map are valid bundles, each once; complementary groups come
\* first, so a cap that leaves one of them out is spent on others.
CandidatesAre(c, m, cap) ==
    /\ c \in Seq(ValidBundles(m))
    /\ \A i, j \in DOMAIN c : c[i] = c[j] => i = j
    /\ \/ m.complements \subseteq ToSet(c)
       \/ ToSet(c) \subseteq m.complements /\ Cardinality(ToSet(c)) = cap

\* CandidateBundles returns them, for every map in normal form.
LEMMA CandidateBundlesAre ==
    ASSUME NEW m, NEW known \in SUBSET Nat, IsFiniteSet(known), NEW cap \in Nat,
           NormalForm(m, known)
    PROVE  CandidatesAre(CandidateBundles(m, known, cap), m, cap)
<1> DEFINE normal == NormalMap(m, known)
           valid == {b \in (SUBSET normal.interested) \ {{}} :
                        \A g \in ChooseOne(normal) : ~Shares(b, g)}
           before(b) == {a \in valid : Precedes(normal, a, b)}
           N == Cardinality(valid)
           taken == IF cap = 0 THEN N ELSE Min({cap, N})
           C == [n \in 1..taken |-> CHOOSE b \in valid : Cardinality(before(b)) = n - 1]
           R == {ab \in valid \X valid : Precedes(normal, ab[1], ab[2])}
<1>1. CandidateBundles(m, known, cap) = C
    BY DEF CandidateBundles
<1>2. /\ normal.complements = m.complements /\ normal.interested = m.interested
      /\ ChooseOne(normal) = ChooseOne(m)
    BY NormalAgain
<1> HIDE DEF normal
<1>3. valid = ValidBundles(m)
    BY <1>2 DEF ValidBundles
<1>4. valid \in SUBSET SUBSET known /\ IsFiniteSet(valid) /\ N \in Nat
    <2>1. valid \subseteq SUBSET known
        BY <1>2 DEF NormalForm
    <2> HIDE DEF valid
    <2>2. IsFiniteSet(SUBSET known)
        BY FS_SUBSET
    <2>3. IsFiniteSet(valid)
        BY <2>1, <2>2, FS_Subset
    <2> QED
        BY <2>1, <2>3, FS_CardinalityType
<1>5. taken \in Nat /\ taken <= N /\ (taken < N => taken = cap)
    <2> HIDE DEF N
    <2>1. Min({cap, N}) = IF cap <= N THEN cap ELSE N
        BY <1>4 DEF Min
    <2> QED
        BY <1>4, <2>1
<1>6. m.complements \subseteq valid
    <2>1. ASSUME NEW c \in m.complements
          PROVE  c \in valid
        <3>1. c \subseteq m.interested /\ Cardinality(c) >= 2 /\ \A g \in ChooseOne(m) : ~Shares(c, g)
            BY DEF NormalForm
        <3>2. c # {}
            BY <3>1, FS_EmptySet
        <3> QED
            BY <1>3, <3>1, <3>2 DEF ValidBundles
    <2> QED
        BY <2>1
<1>7. Orders(R, valid)
    <2> HIDE DEF valid
    <2> QED
        BY <1>4, PrecedesOrders
<1>8. \A b \in valid : before(b) = Predecessors(R, valid, b)
    BY DEF Predecessors
<1>9. \A a, b \in valid : <<a, b>> \in R <=> Precedes(normal, a, b)
    OBVIOUS
<1> HIDE DEF valid, before, R, N, taken
<1>10. ASSUME NEW k \in 1..N
       PROVE  \E b \in valid : Cardinality(before(b)) = k - 1
    <2>1. PICK b \in valid : Cardinality(Predecessors(R, valid, b)) + 1 = k
        BY <1>4, <1>7, PlacesAreTaken DEF N
    <2>2. Cardinality(before(b)) \in Nat
        BY <1>4, <1>7, <1>8, PlacesDiffer
    <2> QED
        BY <1>8, <2>1, <2>2
<1>11. \A n \in 1..taken : C[n] \in valid /\ Cardinality(before(C[n])) = n - 1
    <2> SUFFICES ASSUME NEW n \in 1..taken
                 PROVE  C[n] \in valid /\ Cardinality(before(C[n])) = n - 1
        OBVIOUS
    <2>1. n \in 1..N
        BY <1>4, <1>5
    <2>2. C[n] = CHOOSE b \in valid : Cardinality(before(b)) = n - 1
        OBVIOUS
    <2>3. \E b \in valid : Cardinality(before(b)) = n - 1
        BY <1>10, <2>1
    <2> HIDE DEF C
    <2> QED
        BY <2>2, <2>3
<1>12. DOMAIN C = 1..taken /\ C = [n \in 1..taken |-> C[n]]
    OBVIOUS
<1> HIDE DEF C
<1>13. C \in Seq(valid)
    BY <1>5, <1>11, <1>12
<1>14. \A i, j \in DOMAIN C : C[i] = C[j] => i = j
    <2>1. \A i, j \in 1..taken : i - 1 = j - 1 => i = j
        BY <1>5
    <2> QED
        BY <1>11, <1>12, <2>1
<1>15. ASSUME NEW c \in m.complements, c \notin ToSet(C)
       PROVE  ToSet(C) \subseteq m.complements /\ Cardinality(ToSet(C)) = cap
    <2> DEFINE q == Cardinality(before(c))
               p == q + 1
    <2>1. c \in valid
        BY <1>6
    <2>2. q \in Nat /\ q < N
        BY <1>4, <1>7, <1>8, <2>1, PlacesDiffer DEF N
    <2>3. ASSUME NEW n \in 1..taken, n <= p
          PROVE  <<C[n], c>> \in R
        <3>1. C[n] \in valid /\ Cardinality(before(C[n])) = n - 1 /\ C[n] # c
            BY <1>11, <1>12, <1>15 DEF ToSet
        <3>2. <<c, C[n]>> \in R => q < Cardinality(before(C[n]))
            BY <1>4, <1>7, <1>8, <2>1, <3>1, PlacesDiffer
        <3> HIDE DEF q
        <3>3. ~(<<c, C[n]>> \in R)
            BY <1>5, <2>2, <2>3, <3>1, <3>2
        <3> QED
            BY <1>7, <2>1, <3>1, <3>3 DEF Orders
    <2>4. taken < p
        <3> SUFFICES ASSUME p <= taken
                     PROVE  FALSE
            BY <1>5, <2>2
        <3>1. p \in 1..taken
            BY <1>5, <2>2
        <3>2. <<C[p], c>> \in R /\ C[p] \in valid /\ Cardinality(before(C[p])) = p - 1
            BY <1>11, <2>3, <3>1
        <3>3. Cardinality(before(C[p])) < q
            BY <1>4, <1>7, <1>8, <2>1, <3>2, PlacesDiffer
        <3> HIDE DEF q
        <3> QED
            BY <2>2, <3>2, <3>3
    <2>5. ToSet(C) \subseteq m.complements
        <3> SUFFICES ASSUME NEW n \in 1..taken
                     PROVE  C[n] \in m.complements
            BY <1>12 DEF ToSet
        <3>1. n <= p
            <4> HIDE DEF q
            <4> QED
                BY <1>5, <2>2, <2>4
        <3>2. Precedes(normal, C[n], c)
            BY <1>9, <1>11, <2>1, <2>3, <3>1
        <3>3. Tier(normal, c) = 0
            BY <1>2 DEF Tier
        <3>4. Tier(normal, C[n]) < 0 \/ Tier(normal, C[n]) = 0
            BY <3>2, <3>3 DEF Precedes
        <3> QED
            BY <1>2, <3>4 DEF Tier
    <2>6. Cardinality(ToSet(C)) = taken
        <3>1. C \in Bijection(1..taken, ToSet(C))
            BY <1>12, <1>14 DEF Bijection, Injection, Surjection, IsInjective, ToSet
        <3>2. Cardinality(1..taken) = taken /\ IsFiniteSet(1..taken)
            BY <1>5, FS_Interval
        <3>3. ExistsBijection(1..taken, ToSet(C))
            BY <3>1 DEF ExistsBijection
        <3> QED
            BY <3>2, <3>3, FS_Bijection
    <2> HIDE DEF q
    <2> QED
        BY <1>4, <1>5, <2>2, <2>4, <2>5, <2>6
<1> QED
    BY <1>1, <1>3, <1>13, <1>14, <1>15 DEF CandidatesAre
\* Where the parts of a list of n elements cut every s of them begin and end.
LEMMA CutsAre ==
    ASSUME NEW n \in Nat \ {0}, NEW s \in Nat \ {0}
    PROVE  LET parts == (n + s - 1) \div s
           IN  /\ parts \in Nat \ {0}
               /\ \A i \in 1..parts : (i - 1) * s \in Nat /\ i * s \in Nat
                                      /\ (i - 1) * s < n /\ i * s = (i - 1) * s + s
               /\ \A i, j \in 1..parts : i < j => i * s <= (j - 1) * s
               /\ \A p \in 1..n : \E i \in 1..parts : (i - 1) * s < p /\ p <= i * s
<1> DEFINE parts == (n + s - 1) \div s
<1>1. parts \in Nat /\ parts * s <= n + s - 1 /\ n + s - 1 < parts * s + s
    OBVIOUS
<1> HIDE DEF parts
<1>2. \A a, b \in Nat : a < b => a * s + s <= b * s
    <2> SUFFICES ASSUME NEW a \in Nat, NEW b \in Nat, a < b
                 PROVE  a * s + s <= b * s
        OBVIOUS
    <2> DEFINE d == b - a - 1
    <2>1. d \in Nat /\ b = a + 1 + d
        OBVIOUS
    <2> HIDE DEF d
    <2>2. b * s = a * s + s + d * s
        BY <2>1
    <2>3. d * s \in Nat /\ a * s \in Nat /\ b * s \in Nat
        BY <2>1
    <2> QED
        BY <2>2, <2>3
<1>3. parts # 0
    <2> SUFFICES ASSUME parts = 0
                 PROVE  FALSE
        OBVIOUS
    <2>1. parts * s = 0
        OBVIOUS
    <2> QED
        BY <1>1, <2>1
<1>4. ASSUME NEW i \in 1..parts
      PROVE  (i - 1) * s \in Nat /\ i * s \in Nat /\ (i - 1) * s < n /\ i * s = (i - 1) * s + s
    <2>1. (i - 1) * s \in Nat /\ i * s \in Nat /\ i * s = (i - 1) * s + s
        OBVIOUS
    <2>2. i * s <= parts * s
        <3>1. i = parts \/ i < parts
            BY <1>1
        <3>2. i < parts => i * s + s <= parts * s
            BY <1>1, <1>2
        <3> QED
            BY <1>1, <2>1, <3>1, <3>2
    <2>3. parts * s \in Nat
        BY <1>1
    <2> QED
        BY <1>1, <2>1, <2>2, <2>3
<1>5. ASSUME NEW i \in 1..parts, NEW j \in 1..parts, i < j
      PROVE  i * s <= (j - 1) * s
    <2>1. i * s + s <= j * s
        BY <1>2, <1>5
    <2>2. j * s = (j - 1) * s + s /\ (j - 1) * s \in Nat /\ i * s \in Nat
        OBVIOUS
    <2> QED
        BY <2>1, <2>2
<1>6. ASSUME NEW p \in 1..n
      PROVE  \E i \in 1..parts : (i - 1) * s < p /\ p <= i * s
    <2> DEFINE k == (p - 1) \div s
    <2>1. k \in Nat /\ k * s <= p - 1 /\ p - 1 < k * s + s
        OBVIOUS
    <2> HIDE DEF k
    <2>2. (k + 1) * s = k * s + s /\ k * s \in Nat /\ parts * s \in Nat
        BY <1>1, <2>1
    <2>3. k < parts
        <3> SUFFICES ASSUME parts <= k
                     PROVE  FALSE
            BY <1>1, <2>1
        <3>1. parts * s <= k * s
            <4>1. parts = k \/ parts < k
                BY <1>1, <2>1
            <4>2. parts < k => parts * s + s <= k * s
                BY <1>1, <1>2, <2>1
            <4> QED
                BY <2>2, <4>1, <4>2
        <3> QED
            BY <1>1, <2>1, <2>2, <3>1
    <2>4. k + 1 \in 1..parts /\ (k + 1) - 1 = k
        BY <1>1, <2>1, <2>3
    <2>5. k * s < p /\ p <= (k + 1) * s
        BY <2>1, <2>2
    <2> QED
        BY <2>4, <2>5
<1> QED
    BY <1>1, <1>3, <1>4, <1>5, <1>6 DEF parts

\* Chunks cut a list in parts that are not empty and hold every element, each once.
ChunksAre(cs, c) ==
    /\ cs \in Seq(Seq(ToSet(c)))
    /\ (cs = <<>> <=> c = <<>>)
    /\ \A i \in DOMAIN cs : cs[i] # <<>>
    /\ \A i, j \in DOMAIN cs : i # j => ToSet(cs[i]) \cap ToSet(cs[j]) = {}
    /\ UNION {ToSet(cs[i]) : i \in DOMAIN cs} = ToSet(c)

\* Chunks cuts a list without repetitions so, whatever the size.
LEMMA ChunksAreParts ==
    ASSUME NEW X, NEW c \in Seq(X), NEW size \in Nat,
           \A i, j \in DOMAIN c : c[i] = c[j] => i = j
    PROVE  ChunksAre(Chunks(c, size), c)
<1> DEFINE n == Len(c)
<1>0. n \in Nat /\ DOMAIN c = 1..n /\ c \in Seq(ToSet(c))
    BY DEF ToSet
<1>1. CASE c = <<>>
    BY <1>1 DEF Chunks, ChunksAre, ToSet
<1>2. CASE c # <<>> /\ (size = 0 \/ Len(c) <= size)
    <2>1. Chunks(c, size) = <<c>>
        BY <1>2 DEF Chunks
    <2>2. DOMAIN <<c>> = {1} /\ <<c>>[1] = c /\ <<c>> # <<>>
        OBVIOUS
    <2>3. UNION {ToSet(<<c>>[i]) : i \in DOMAIN <<c>>} = ToSet(c)
        BY <2>2
    <2>4. <<c>> \in Seq(Seq(ToSet(c)))
        BY <1>0
    <2> QED
        BY <1>2, <2>1, <2>2, <2>3, <2>4 DEF ChunksAre
<1>3. CASE c # <<>> /\ size # 0 /\ ~(Len(c) <= size)
    <2> DEFINE parts == (n + size - 1) \div size
               from(i) == (i - 1) * size
               end(i) == i * size
               to(i) == Min({end(i), n})
               part(i) == SubSeq(c, from(i) + 1, to(i))
               cs == [i \in 1..parts |-> part(i)]
    <2>1. Chunks(c, size) = cs
        BY <1>3 DEF Chunks
    <2>2. n \in Nat \ {0} /\ size \in Nat \ {0}
        BY <1>0, <1>3
    <2>3. /\ parts \in Nat \ {0}
          /\ \A i \in 1..parts : from(i) \in Nat /\ end(i) \in Nat
                                 /\ from(i) < n /\ end(i) = from(i) + size
          /\ \A i, j \in 1..parts : i < j => end(i) <= from(j)
          /\ \A p \in 1..n : \E i \in 1..parts : from(i) < p /\ p <= end(i)
        <3> HIDE DEF n
        <3> QED
            BY <2>2, CutsAre
    <2> HIDE DEF parts, from, end, n
    <2>4. ASSUME NEW i \in 1..parts
          PROVE  /\ to(i) \in Nat /\ from(i) < to(i) /\ to(i) <= n /\ to(i) <= end(i)
                 /\ (to(i) = n \/ to(i) = end(i))
        <3>1. to(i) = IF end(i) <= n THEN end(i) ELSE n
            <4>1. end(i) \in Nat
                BY <2>3
            <4> QED
                BY <2>2, <4>1 DEF Min
        <3> HIDE DEF to
        <3>2. from(i) \in Nat /\ end(i) \in Nat /\ from(i) < n /\ end(i) = from(i) + size
            BY <2>3
        <3>3. CASE end(i) <= n
            <4>1. to(i) = end(i)
                BY <3>1, <3>3
            <4> QED
                BY <2>2, <3>2, <3>3, <4>1
        <3>4. CASE ~(end(i) <= n)
            <4>1. to(i) = n
                BY <3>1, <3>4
            <4> QED
                BY <2>2, <3>2, <3>4, <4>1
        <3> QED
            BY <3>3, <3>4
    <2> HIDE DEF to
    <2>5. ASSUME NEW i \in 1..parts
          PROVE  /\ part(i) \in Seq(ToSet(c)) /\ part(i) # <<>> /\ ToSet(part(i)) \subseteq ToSet(c)
                 /\ ToSet(part(i)) = {c[p] : p \in (from(i) + 1)..to(i)}
        <3>1. /\ from(i) + 1 \in 1..n /\ to(i) \in 1..n /\ from(i) + 1 <= to(i)
              /\ from(i) \in Nat /\ to(i) \in Nat
            <4>1. from(i) \in Nat /\ to(i) \in Nat /\ from(i) < to(i) /\ to(i) <= n
                BY <2>3, <2>4
            <4> QED
                BY <2>2, <4>1
        <3>2. /\ part(i) \in Seq(ToSet(c)) /\ Len(part(i)) = to(i) - from(i)
              /\ \A k \in 1..to(i) - from(i) : part(i)[k] = c[from(i) + k]
            <4> HIDE DEF part
            <4>1. part(i) = [k \in 1..to(i) - from(i) |-> c[from(i) + k]]
                <5>1. SubSeq(c, from(i) + 1, to(i))
                        = [k \in 1..1 + to(i) - (from(i) + 1) |-> c[k + (from(i) + 1) - 1]]
                    BY <1>0, <3>1
                <5>2. 1 + to(i) - (from(i) + 1) = to(i) - from(i)
                      /\ \A k \in Int : k + (from(i) + 1) - 1 = from(i) + k
                    BY <3>1
                <5> QED
                    BY <5>1, <5>2 DEF part
            <4>2. to(i) - from(i) \in Nat
                BY <3>1
            <4>3. \A k \in 1..to(i) - from(i) : from(i) + k \in 1..n
                BY <2>2, <3>1
            <4>4. \A k \in 1..to(i) - from(i) : c[from(i) + k] \in ToSet(c)
                BY <1>0, <4>3 DEF ToSet
            <4> QED
                BY <4>1, <4>2, <4>4
        <3>3. DOMAIN part(i) = 1..to(i) - from(i)
            BY <3>2
        <3> HIDE DEF part
        <3>4. part(i) # <<>>
            BY <3>1, <3>2
        <3>5. \A p \in (from(i) + 1)..to(i) :
                 p - from(i) \in 1..to(i) - from(i) /\ p = from(i) + (p - from(i))
            BY <3>1
        <3>6. \A k \in 1..to(i) - from(i) : from(i) + k \in (from(i) + 1)..to(i)
            BY <3>1
        <3>7. ToSet(part(i)) = {c[p] : p \in (from(i) + 1)..to(i)}
            <4>1. ToSet(part(i)) = {part(i)[k] : k \in 1..to(i) - from(i)}
                BY <3>3 DEF ToSet
            <4>2. ASSUME NEW k \in 1..to(i) - from(i)
                  PROVE  part(i)[k] \in {c[p] : p \in (from(i) + 1)..to(i)}
                BY <3>2, <3>6
            <4>3. ASSUME NEW p \in (from(i) + 1)..to(i)
                  PROVE  c[p] \in {part(i)[k] : k \in 1..to(i) - from(i)}
                BY <3>2, <3>5
            <4> QED
                BY <4>1, <4>2, <4>3
        <3>8. ToSet(part(i)) \subseteq ToSet(c)
            <4>1. \A p \in (from(i) + 1)..to(i) : p \in 1..n
                BY <2>2, <3>1
            <4>2. ToSet(c) = {c[p] : p \in 1..n}
                BY <1>0 DEF ToSet
            <4> QED
                BY <3>7, <4>1, <4>2
        <3> QED
            BY <3>2, <3>4, <3>7, <3>8
    <2> HIDE DEF part
    <2>6. ASSUME NEW i \in 1..parts, NEW j \in 1..parts, i < j
          PROVE  ToSet(part(i)) \cap ToSet(part(j)) = {}
        <3> SUFFICES ASSUME NEW p \in (from(i) + 1)..to(i), NEW q \in (from(j) + 1)..to(j),
                            c[p] = c[q]
                     PROVE  FALSE
            BY <2>5
        <3>1. /\ from(i) \in Nat /\ from(j) \in Nat /\ to(i) \in Nat /\ to(j) \in Nat
              /\ end(i) \in Nat /\ to(i) <= end(i) /\ end(i) <= from(j)
              /\ to(i) <= n /\ to(j) <= n
            BY <2>3, <2>4, <2>6
        <3>2. p \in 1..n /\ q \in 1..n /\ p < q
            BY <2>2, <3>1
        <3> QED
            BY <1>0, <3>2
    <2>7. ASSUME NEW p \in 1..n
          PROVE  \E i \in 1..parts : c[p] \in ToSet(part(i))
        <3>1. PICK i \in 1..parts : from(i) < p /\ p <= end(i)
            BY <2>3
        <3>2. p \in (from(i) + 1)..to(i)
            <4>1. from(i) \in Nat /\ to(i) \in Nat /\ (to(i) = n \/ to(i) = end(i))
                BY <2>3, <2>4
            <4> QED
                BY <2>2, <3>1, <4>1
        <3> QED
            BY <2>5, <3>2
    <2>8. DOMAIN cs = 1..parts /\ Len(cs) = parts /\ cs \in Seq(Seq(ToSet(c))) /\ cs # <<>>
          /\ \A i \in 1..parts : cs[i] = part(i)
        BY <2>3, <2>5
    <2> HIDE DEF cs
    <2>9. \A i, j \in DOMAIN cs : i # j => ToSet(cs[i]) \cap ToSet(cs[j]) = {}
        <3> SUFFICES ASSUME NEW i \in 1..parts, NEW j \in 1..parts, i # j
                     PROVE  ToSet(part(i)) \cap ToSet(part(j)) = {}
            BY <2>8
        <3>1. i < j \/ j < i
            BY <2>3
        <3> QED
            BY <2>6, <3>1
    <2>10. UNION {ToSet(cs[i]) : i \in DOMAIN cs} = ToSet(c)
        <3>1. \A i \in 1..parts : ToSet(part(i)) \subseteq ToSet(c)
            BY <2>5
        <3>2. \A x \in ToSet(c) : \E i \in 1..parts : x \in ToSet(part(i))
            BY <1>0, <2>7 DEF ToSet
        <3> QED
            BY <2>8, <3>1, <3>2
    <2>11. \A i \in DOMAIN cs : cs[i] # <<>>
        BY <2>5, <2>8
    <2>12. cs \in Seq(Seq(ToSet(c))) /\ (cs = <<>> <=> c = <<>>)
        BY <1>3, <2>8
    <2> QED
        BY <2>1, <2>9, <2>10, <2>11, <2>12 DEF ChunksAre
<1> QED
    BY <1>1, <1>2, <1>3
-----------------------------------------------------------------------------
(* The inductive invariant.                                                *)

\* Response t is stored under key k.
Holds(db, k, t) == k \in DOMAIN db /\ db[k] = t

\* The key of the first attempt at r: it quotes nothing.
FirstKey(r) == Key(r, 1, NoQuote)

\* The first response to request r is t, and the caller takes it.
First(db, r, t) == t \in Good /\ Holds(db, FirstKey(r), t)

\* Replaying request r meets malformed responses only and comes to attempt n, quoting q.
Trail(db, r, n, q) ==
    \E f \in [1..n -> Quotes] :
        /\ f[1] = NoQuote /\ f[n] = q
        /\ \A m \in 1..n - 1 :
              /\ Key(r, m, f[m]) \in DOMAIN db /\ db[Key(r, m, f[m])] \in Bad
              /\ f[m + 1] = QuotedNext(r.kind, <<db[Key(r, m, f[m])]>>)

\* Replaying r ends with answer t, or with no answer.
Answered(db, r, t) ==
    t \in Good /\ \E n \in 1..Attempts(r.kind), q \in Quotes :
                     Trail(db, r, n, q) /\ Holds(db, Key(r, n, q), t)

\* Replaying r meets malformed responses at every attempt.
Exhausted(db, r) ==
    \E q \in Quotes : /\ Trail(db, r, Attempts(r.kind), q)
                      /\ Key(r, Attempts(r.kind), q) \in DOMAIN db
                      /\ db[Key(r, Attempts(r.kind), q)] \in Bad

\* The stored readings of an answer take it.
ReadAs(db, b, answer, n, t) ==
    First(db, ExtractionPrompt(b, answer, n), t) /\ Discloses(Extraction[t], Truth[b], Items)

Seconded(db, b, answer, n, t) ==
    \E u : /\ First(db, EntailmentPrompt(b, answer, n, Extraction[t]), u)
           /\ Discloses(Upheld(Extraction[t], UpheldModes[u]), Truth[b], Items)

VouchedBy(db, b, answer, n) ==
    \E t : /\ ReadAs(db, b, answer, n, t)
           /\ (Claims(Extraction[t]) = {} \/ Seconded(db, b, answer, n, t))

\* The stored reading of an answer does not take it.
TurnedDownBy(db, b, answer, n) ==
    LET k == FirstKey(ExtractionPrompt(b, answer, n))
    IN  /\ k \in DOMAIN db
        /\ db[k] \in Good => ~Discloses(Extraction[db[k]], Truth[b], Items)

\* A first pass that asks the bidder finds this answer again, and accepts it.
AnswerKept(db, b, plan, answer) ==
    plan.disclosed = NoText => First(db, AnswerPrompt(b), answer) /\ VouchedBy(db, b, answer, 1)

\* The map read from a response, and the map that an audit leaves of it.
ReadMap(t) == NormalMap(ParsedMap(RawMap[t], Items), Items)

Retained(map, a) == [map EXCEPT !.complements = @ \cap IF a \in Good THEN Entailed[a] ELSE {}]

\* The stored responses make this map of an answer.
MapKept(db, b, answer, policy, map) ==
    \/ \E t : /\ Answered(db, MapPrompt(b, answer), t)
              /\ \/ (ReadMap(t).complements = {} /\ map = ReadMap(t))
                 \/ \E a \in Texts : /\ Holds(db, FirstKey(AuditPrompt(b, answer, ReadMap(t))), a)
                                     /\ map = Retained(ReadMap(t), a)
    \/ Exhausted(db, MapPrompt(b, answer)) /\ policy # "raise" /\ map = AllItems(Items)

\* The chunks cs of a map have the values stored for them.
ValuesKept(db, b, answer, map, cs, values) ==
    \A c \in cs : \A bundle \in ToSet(c) : First(db, ValuePrompt(b, answer, map, c), values[bundle])

\* The bundles that are valued under a map, and the requests that value them.
Candidates(map) == CandidateBundles(map, Items, MaxCandidates)
AllChunks(map) == Chunks(Candidates(map), ChunkSize)

\* What an entry that was kept took from the store can be taken again.
EntryKept(db, b, e) ==
    e.kept => /\ AnswerKept(db, b, e.plan, e.answer)
              /\ MapKept(db, b, e.answer, e.plan.policy, e.map)
              /\ ValuesKept(db, b, e.answer, e.map, ToSet(AllChunks(e.map)), e.values)

\* An entry has a map in normal form and values its candidates.
EntryShape(e) == NormalForm(e.map, Items) /\ DOMAIN e.values = ToSet(Candidates(e.map))

EntriesOk(db, es) == \A b \in DOMAIN es : EntryKept(db, b, es[b]) /\ EntryShape(es[b])

-----------------------------------------------------------------------------

\* The clients go through the cache.
Cached == mode # "off"

\* The store holds what the provider may answer, under keys of prompts.
StoreOk ==
    /\ IsFiniteSet(DOMAIN store) /\ store \in [DOMAIN store -> Texts]
    /\ \A k \in DOMAIN store :
          /\ k = Key(k[1], k[2], k[3])
          /\ k[1].kind \in Kinds
          /\ k[2] = 1 => k[3] = NoQuote
          /\ k[1].kind = "person_nl_response" => k[1] = AnswerPrompt(k[1].bidder)

\* The key of the answer that is being verified.
HeldKey == Key(task.held.request, task.held.attempt, task.held.quoted)

\* The sessions and their clients.
SessionOk ==
    /\ mode \in Modes \cup {"none"}
    /\ DOMAIN lastKey = Evicting
    /\ mode = "none" => call = NoCall /\ task = Idle
    /\ mode \in {"none", "off"} => lastKey = NoKeys

\* The call in progress: where a replay would be, or a first response.
CallOk ==
    call # NoCall =>
        /\ call.stage \in {"ask", "parse"}
        /\ \/ Working /\ call.request = Wanted
           \/ task = Returns /\ call.request \in Requests
        /\ call.attempt \in 1..Attempts(Kind)
        /\ call.attempt = 1 => call.quoted = NoQuote
        /\ Kind \notin Evicting => call.quoted \in Quotes
        /\ Cached /\ Kind \notin Evicting => Trail(store, call.request, call.attempt, call.quoted)
        /\ call.stage = "parse" =>
              /\ call.text \in Texts
              /\ Cached => /\ Holds(store, CallKey, call.text)
                           /\ Kind \in Evicting => lastKey[Kind] = CallKey
        /\ mode = "refresh" => call.request \notin DOMAIN settled

\* What is settled can be replayed.
SettledIn(db, said) ==
    \A r \in DOMAIN said :
        /\ r.kind \notin Evicting => Answered(db, r, said[r].text)
        /\ r.kind \in Evicting /\ said[r].attempt = 1 => First(db, r, said[r].text)
        /\ r.kind = "person_nl_response" =>
              /\ r = AnswerPrompt(r.bidder)
              /\ said[r].attempt = 1 => VouchedBy(db, r.bidder, said[r].text, 1)

\* The answer that is being verified.
HeldOk ==
    task.stage \in {"extract", "entail"} =>
        /\ task.held.request = AnswerPrompt(Bidder)
        /\ task.held.text \in Good
        /\ task.held.attempt \in 1..Attempts("person_nl_response")
        /\ task.held.attempt = 1 => task.held.quoted = NoQuote
        /\ task.kept => task.held.attempt = 1
        /\ Cached => Holds(store, HeldKey, task.held.text) /\ lastKey["person_nl_response"] = HeldKey
        /\ mode = "refresh" => AnswerPrompt(Bidder) \notin DOMAIN settled
        /\ task.stage = "entail" =>
              /\ Claims(Extraction[task.extraction]) # {}
              /\ Cached => ReadAs(store, Bidder, task.held.text, task.held.attempt, task.extraction)

\* The chunks that are valued so far; the others are to come.
Past == Len(AllChunks(task.map)) - Len(task.chunks)
Valued == {AllChunks(task.map)[i] : i \in 1..Past}

\* A valuation has valued the chunks before those left, and there are some left.
ChunksOk ==
    LET all == AllChunks(task.map)
    IN  /\ Past \in Nat /\ Past < Len(all)
        /\ task.chunks = SubSeq(all, Past + 1, Len(all))
        /\ DOMAIN task.values = UNION {ToSet(c) : c \in Valued}

\* What the bidder has come to can be replayed.
TaskKept(db) ==
    /\ task.stage \in {"map", "audit", "value"} =>
          AnswerKept(db, Bidder, task.plan, task.answer)
    /\ task.stage = "audit" => \E t : /\ Answered(db, MapPrompt(Bidder, task.answer), t)
                                      /\ task.map = ReadMap(t)
    /\ task.stage = "value" =>
          /\ MapKept(db, Bidder, task.answer, task.plan.policy, task.map)
          /\ ValuesKept(db, Bidder, task.answer, task.map, Valued, task.values)

\* The fields of the elicitation of a bidder.
Fields == {"stage", "pos", "plan", "held", "extraction", "answer", "map", "chunks",
           "values", "kept"}

\* The bidder that is being elicited.
TaskOk ==
    Working =>
        /\ DOMAIN task = Fields
        /\ task.pos \in 1..Len(Bidders)
        /\ task.kept \in BOOLEAN
        /\ task.kept => Cached
        /\ DOMAIN entries = {Bidders[i] : i \in 1..task.pos - 1}
        /\ mode = "refresh" => done = NoEntry
        /\ task.stage = "answer" /\ task.kept /\ call # NoCall => call.attempt = 1
        /\ task.stage \in {"answer", "extract", "entail"} => task.plan.disclosed = NoText
        /\ task.stage # "value" => DOMAIN task.values = {}
        /\ task.stage \in {"audit", "value"} => NormalForm(task.map, Items)
        /\ task.stage = "audit" =>
              DOMAIN task.map = {"interested", "excluded", "complements", "substitutes"}
        /\ task.stage = "value" => ChunksOk
        /\ task.kept => TaskKept(store)

\* Between two elicitations nothing is left of the last one.
IdleOk == ~Working => task \in {Idle, Failed, Returns}

\* The responses an evicting caller rejects, but for the one in hand.
InHand ==
    IF ~Cached THEN {}
    ELSE IF call.stage = "parse" /\ Kind \in Evicting THEN {CallKey}
    ELSE IF task.stage \in {"extract", "entail"} THEN {HeldKey}
    ELSE {}

\* A response its caller rejects and should have evicted.
IsRejected(db, k) ==
    /\ k[1].kind \in Evicting
    /\ \/ db[k] \in Bad
       \/ /\ k[1].kind = "person_nl_response" /\ k[2] = 1
          /\ TurnedDownBy(db, k[1].bidder, db[k], 1)

\* The rejected responses left in the store.
Left == {k \in DOMAIN store \ InHand : IsRejected(store, k)}

\* Each of them was left by a crash or by a failed call.
FewLeft ==
    /\ crashes \in Nat /\ failures \in Nat
    /\ Cardinality(Left) <= crashes + failures

\* The inductive invariant.
CacheInv ==
    /\ StoreOk /\ SessionOk /\ CallOk /\ SettledIn(store, settled) /\ HeldOk /\ TaskOk /\ IdleOk
    /\ EntriesOk(store, entries) /\ EntriesOk(store, done)
    /\ FewLeft
-----------------------------------------------------------------------------
(* Replays.                                                                *)

\* The function Replay is made of, from attempt lo on.
Replaying(g, r, lo) ==
    g = [n \in lo..Attempts(r.kind) + 1 |->
            [q \in Quotes |->
                IF n > Attempts(r.kind) THEN "rejected"
                ELSE IF Key(r, n, q) \notin DOMAIN store THEN NoText
                ELSE IF store[Key(r, n, q)] \in Good THEN store[Key(r, n, q)]
                ELSE g[n + 1][QuotedNext(r.kind, <<store[Key(r, n, q)]>>)]]]

\* Every caller asks at least once; the verifier and the audit ask no second time.
LEMMA AttemptsAre ==
    ASSUME NEW kind
    PROVE  /\ Attempts(kind) \in Nat \ {0}
           /\ kind \in {"person_answer_semantic_extraction", "interest_map_complement_entailment",
                        "person_answer_substitute_entailment"} => Attempts(kind) = 1
BY CacheAssumption DEF Attempts

\* There is such a function.
LEMMA ReplayingExists ==
    ASSUME NEW r
    PROVE  \E g : Replaying(g, r, 1)
<1> DEFINE last == Attempts(r.kind)
           Z == {m \in Nat : m <= last => \E g : Replaying(g, r, last + 1 - m)}
           after(g, n, q) ==
                IF n > last THEN "rejected"
                ELSE IF Key(r, n, q) \notin DOMAIN store THEN NoText
                ELSE IF store[Key(r, n, q)] \in Good THEN store[Key(r, n, q)]
                ELSE g[n + 1][QuotedNext(r.kind, <<store[Key(r, n, q)]>>)]
<1>1. last \in Nat \ {0}
    BY AttemptsAre
<1>2. \A g, lo : Replaying(g, r, lo) <=>
                    g = [n \in lo..last + 1 |-> [q \in Quotes |-> after(g, n, q)]]
    BY DEF Replaying
<1>3. ASSUME NEW g, NEW h, NEW n, g[n + 1] = h[n + 1]
      PROVE  \A q : after(g, n, q) = after(h, n, q)
    BY <1>3
<1>4. \A g, h, q : after(g, last + 1, q) = after(h, last + 1, q)
    BY <1>1
<1> HIDE DEF last, after
<1>5. 0 \in Z
    <2> DEFINE g == [n \in last + 1..last + 1 |-> [q \in Quotes |-> after(<<>>, n, q)]]
    <2>1. g = [n \in last + 1..last + 1 |-> [q \in Quotes |-> after(g, n, q)]]
        <3> HIDE DEF g
        <3>1. \A n \in last + 1..last + 1 : n = last + 1
            BY <1>1
        <3>2. \A n \in last + 1..last + 1 : \A q : after(<<>>, n, q) = after(g, n, q)
            BY <1>4, <3>1
        <3> QED
            BY <3>2 DEF g
    <2> HIDE DEF g
    <2>2. Replaying(g, r, last + 1 - 0)
        <3>1. last + 1 - 0 = last + 1
            BY <1>1
        <3>2. Replaying(g, r, last + 1)
            BY <1>2, <2>1
        <3> QED
            BY <3>1, <3>2
    <2> QED
        BY <2>2
<1>6. ASSUME NEW m \in Nat, m \in Z
      PROVE  m + 1 \in Z
    <2> SUFFICES ASSUME m + 1 <= last
                 PROVE  \E g : Replaying(g, r, last + 1 - (m + 1))
        OBVIOUS
    <2> DEFINE lo == last + 1 - m
    <2>1. lo \in Nat /\ last + 1 - (m + 1) = lo - 1 /\ lo <= last + 1 /\ lo - 1 \in Nat
        BY <1>1
    <2>2. PICK g : g = [n \in lo..last + 1 |-> [q \in Quotes |-> after(g, n, q)]]
        BY <1>1, <1>2, <1>6
    <2> HIDE DEF lo
    <2> DEFINE h == [n \in lo - 1..last + 1 |-> [q \in Quotes |-> after(g, n, q)]]
    <2>3. \A n \in lo..last + 1 : h[n] = g[n]
        <3>1. \A n \in lo..last + 1 : n \in lo - 1..last + 1
            BY <1>1, <2>1
        <3>2. \A n \in lo..last + 1 : g[n] = [q \in Quotes |-> after(g, n, q)]
            BY <2>2
        <3> QED
            BY <3>1, <3>2
    <2>4. \A n \in lo - 1..last + 1 : \A q : after(g, n, q) = after(h, n, q)
        <3> SUFFICES ASSUME NEW n \in lo - 1..last + 1
                     PROVE  \A q : after(g, n, q) = after(h, n, q)
            OBVIOUS
        <3> HIDE DEF h
        <3>1. CASE n = last + 1
            BY <1>4, <3>1
        <3>2. CASE n # last + 1
            <4>1. n + 1 \in lo..last + 1
                BY <1>1, <2>1, <3>2
            <4> QED
                BY <1>3, <2>3, <4>1
        <3> QED
            BY <3>1, <3>2
    <2>5. h = [n \in lo - 1..last + 1 |-> [q \in Quotes |-> after(h, n, q)]]
        <3> HIDE DEF h
        <3> QED
            BY <2>4 DEF h
    <2> HIDE DEF h
    <2>6. Replaying(h, r, lo - 1)
        BY <1>2, <2>5
    <2> QED
        BY <2>1, <2>6
<1> HIDE DEF Z
<1>7. Nat \subseteq Z
    BY <1>5, <1>6, NatSetInduction
<1>8. last \in Z /\ last + 1 - last = 1
    BY <1>1, <1>7
<1> QED
    BY <1>1, <1>8 DEF Z

\* A replay unfolds attempt by attempt.
LEMMA ReplayUnfolds ==
    ASSUME NEW r
    PROVE  \E g : /\ Replay(r) = g[1][NoQuote]
                  /\ \A n \in 1..Attempts(r.kind) + 1 : \A q \in Quotes :
                        g[n][q] = IF n > Attempts(r.kind) THEN "rejected"
                                  ELSE IF Key(r, n, q) \notin DOMAIN store THEN NoText
                                  ELSE IF store[Key(r, n, q)] \in Good THEN store[Key(r, n, q)]
                                  ELSE g[n + 1][QuotedNext(r.kind, <<store[Key(r, n, q)]>>)]
<1> DEFINE g == CHOOSE h : Replaying(h, r, 1)
<1>1. Replaying(g, r, 1)
    BY ReplayingExists
<1>2. Replay(r) = g[1][NoQuote]
    BY DEF Replay, Replaying
<1> HIDE DEF g
<1> DEFINE after(n, q) ==
                IF n > Attempts(r.kind) THEN "rejected"
                ELSE IF Key(r, n, q) \notin DOMAIN store THEN NoText
                ELSE IF store[Key(r, n, q)] \in Good THEN store[Key(r, n, q)]
                ELSE g[n + 1][QuotedNext(r.kind, <<store[Key(r, n, q)]>>)]
<1>3. g = [n \in 1..Attempts(r.kind) + 1 |-> [q \in Quotes |-> after(n, q)]]
    BY <1>1 DEF Replaying
<1> HIDE DEF after
<1>4. \A n \in 1..Attempts(r.kind) + 1 : \A q \in Quotes : g[n][q] = after(n, q)
    BY <1>3
<1> QED
    BY <1>2, <1>4 DEF after

\* After a rejected response the next prompt quotes it, or nothing.
LEMMA QuotesAre ==
    /\ NoQuote \in Quotes
    /\ \A kind, t : t \in Bad => QuotedNext(kind, <<t>>) \in Quotes
BY DEF Quotes, QuotedNext

\* A replay that has come to an attempt goes on from there.
LEMMA TrailReplays ==
    ASSUME NEW r, NEW n \in 1..Attempts(r.kind), NEW q \in Quotes, Trail(store, r, n, q),
           Key(r, n, q) \in DOMAIN store, store[Key(r, n, q)] \in Texts
    PROVE  /\ store[Key(r, n, q)] \in Good => Replay(r) = store[Key(r, n, q)]
           /\ store[Key(r, n, q)] \in Bad /\ n = Attempts(r.kind) => Replay(r) = "rejected"
<1> DEFINE last == Attempts(r.kind)
<1>1. last \in Nat \ {0}
    BY AttemptsAre
<1>2. PICK g : /\ Replay(r) = g[1][NoQuote]
               /\ \A m \in 1..last + 1 : \A p \in Quotes :
                     g[m][p] = IF m > last THEN "rejected"
                               ELSE IF Key(r, m, p) \notin DOMAIN store THEN NoText
                               ELSE IF store[Key(r, m, p)] \in Good THEN store[Key(r, m, p)]
                               ELSE g[m + 1][QuotedNext(r.kind, <<store[Key(r, m, p)]>>)]
    BY ReplayUnfolds
<1>3. PICK f \in [1..n -> Quotes] :
        /\ f[1] = NoQuote /\ f[n] = q
        /\ \A m \in 1..n - 1 :
              /\ Key(r, m, f[m]) \in DOMAIN store /\ store[Key(r, m, f[m])] \in Bad
              /\ f[m + 1] = QuotedNext(r.kind, <<store[Key(r, m, f[m])]>>)
    BY DEF Trail
<1> HIDE DEF last
<1>4. Good \cap Bad = {}
    BY CacheAssumption
<1>5. n \in 1..last /\ n \in Nat
    BY <1>1 DEF last
<1> DEFINE Z == {m \in Nat : m + 1 <= n => g[m + 1][f[m + 1]] = Replay(r)}
<1>6. 0 \in Z
    BY <1>2, <1>3
<1>7. ASSUME NEW m \in Nat, m \in Z
      PROVE  m + 1 \in Z
    <2> SUFFICES ASSUME m + 2 <= n
                 PROVE  g[m + 2][f[m + 2]] = Replay(r)
        OBVIOUS
    <2>1. m + 1 \in 1..n - 1 /\ m + 1 \in 1..last + 1 /\ ~(m + 1 > last) /\ m + 1 \in 1..n
          /\ (m + 1) + 1 = m + 2 /\ m + 1 <= n
        BY <1>1, <1>5
    <2> DEFINE k == Key(r, m + 1, f[m + 1])
    <2>2. k \in DOMAIN store /\ store[k] \in Bad /\ f[m + 2] = QuotedNext(r.kind, <<store[k]>>)
        BY <1>3, <2>1
    <2>3. store[k] \notin Good /\ f[m + 1] \in Quotes
        BY <1>3, <1>4, <2>1, <2>2
    <2>4. g[m + 1][f[m + 1]] = g[m + 2][QuotedNext(r.kind, <<store[k]>>)]
        BY <1>2, <2>1, <2>2, <2>3
    <2>5. g[m + 1][f[m + 1]] = Replay(r)
        BY <1>7, <2>1
    <2> HIDE DEF k
    <2> QED
        BY <2>2, <2>4, <2>5
<1>8. g[n][q] = Replay(r)
    <2>1. n - 1 \in Nat /\ (n - 1) + 1 = n
        BY <1>5
    <2>2. Nat \subseteq Z
        <3> HIDE DEF Z
        <3> QED
            BY <1>6, <1>7, NatSetInduction
    <2> QED
        BY <1>3, <1>5, <2>1, <2>2
<1> HIDE DEF Z
<1>9. n \in 1..last + 1 /\ ~(n > last) /\ n + 1 \in 1..last + 1
    BY <1>1, <1>5
<1> DEFINE k == Key(r, n, q)
<1>10. g[n][q] = IF store[k] \in Good THEN store[k]
                 ELSE g[n + 1][QuotedNext(r.kind, <<store[k]>>)]
    BY <1>2, <1>9
<1>11. ASSUME store[k] \in Bad, n = last
       PROVE  g[n + 1][QuotedNext(r.kind, <<store[k]>>)] = "rejected"
    <2>1. n + 1 > last
        BY <1>1, <1>11
    <2>2. QuotedNext(r.kind, <<store[k]>>) \in Quotes
        BY <1>11, QuotesAre
    <2> QED
        BY <1>2, <1>9, <2>1, <2>2
<1> HIDE DEF k
<1> QED
    BY <1>4, <1>8, <1>10, <1>11 DEF k, last

\* No attempt comes before the first.
LEMMA TrailBegins ==
    ASSUME NEW db, NEW r
    PROVE  Trail(db, r, 1, NoQuote)
<1> DEFINE f == [m \in 1..1 |-> NoQuote]
<1>1. f \in [1..1 -> Quotes] /\ f[1] = NoQuote /\ 1..1 - 1 = {}
    BY QuotesAre
<1> HIDE DEF f
<1> QED
    BY <1>1 DEF Trail

\* A rejected response leads to the next attempt.
LEMMA TrailGoesOn ==
    ASSUME NEW db, NEW r, NEW n \in Nat \ {0}, NEW q, Trail(db, r, n, q),
           NEW t \in Bad, Holds(db, Key(r, n, q), t)
    PROVE  Trail(db, r, n + 1, QuotedNext(r.kind, <<t>>))
<1>1. PICK f \in [1..n -> Quotes] :
        /\ f[1] = NoQuote /\ f[n] = q
        /\ \A m \in 1..n - 1 :
              /\ Key(r, m, f[m]) \in DOMAIN db /\ db[Key(r, m, f[m])] \in Bad
              /\ f[m + 1] = QuotedNext(r.kind, <<db[Key(r, m, f[m])]>>)
    BY DEF Trail
<1> DEFINE next == QuotedNext(r.kind, <<t>>)
           g == [m \in 1..n + 1 |-> IF m = n + 1 THEN next ELSE f[m]]
<1>2. next \in Quotes
    BY QuotesAre
<1> HIDE DEF next
<1>3. g \in [1..n + 1 -> Quotes] /\ g[n + 1] = next /\ \A m \in 1..n : g[m] = f[m]
    BY <1>2
<1> HIDE DEF g
<1>4. ASSUME NEW m \in 1..(n + 1) - 1
      PROVE  /\ Key(r, m, g[m]) \in DOMAIN db /\ db[Key(r, m, g[m])] \in Bad
             /\ g[m + 1] = QuotedNext(r.kind, <<db[Key(r, m, g[m])]>>)
    <2>1. m \in 1..n /\ g[m] = f[m]
        BY <1>3
    <2>2. CASE m = n
        BY <1>1, <1>3, <2>1, <2>2 DEF Holds, next
    <2>3. CASE m # n
        <3>1. m \in 1..n - 1 /\ m + 1 \in 1..n
            BY <2>1, <2>3
        <3> QED
            BY <1>1, <1>3, <2>1, <3>1
    <2> QED
        BY <2>2, <2>3
<1>5. g[1] = NoQuote
    BY <1>1, <1>3
<1> QED
    BY <1>3, <1>4, <1>5 DEF Trail, next

\* Replays of what is kept.
LEMMA ReplaysAre ==
    ASSUME NEW r, \A k \in DOMAIN store : store[k] \in Texts
    PROVE  /\ \A t : Answered(store, r, t) => Replay(r) = t
           /\ \A t : First(store, r, t) => Replay(r) = t
           /\ Exhausted(store, r) => Replay(r) = "rejected"
           /\ FirstKey(r) \notin DOMAIN store => Replay(r) = NoText
           /\ Attempts(r.kind) = 1 /\ FirstKey(r) \in DOMAIN store
                 /\ store[FirstKey(r)] \in Bad => Replay(r) = "rejected"
<1>1. Attempts(r.kind) \in Nat \ {0} /\ 1 \in 1..Attempts(r.kind)
      /\ Attempts(r.kind) \in 1..Attempts(r.kind)
    BY AttemptsAre
<1>2. ASSUME NEW t, Answered(store, r, t)
      PROVE  Replay(r) = t
    BY <1>2, TrailReplays DEF Answered, Holds
<1>3. ASSUME NEW t, First(store, r, t)
      PROVE  Replay(r) = t
    <2>1. Trail(store, r, 1, NoQuote) /\ NoQuote \in Quotes
        BY TrailBegins, QuotesAre
    <2> QED
        BY <1>1, <1>3, <2>1, TrailReplays DEF First, Holds, FirstKey
<1>4. ASSUME Exhausted(store, r)
      PROVE  Replay(r) = "rejected"
    BY <1>1, <1>4, TrailReplays DEF Exhausted
<1>5. ASSUME FirstKey(r) \notin DOMAIN store
      PROVE  Replay(r) = NoText
    <2>1. PICK g : /\ Replay(r) = g[1][NoQuote]
                   /\ \A n \in 1..Attempts(r.kind) + 1 : \A q \in Quotes :
                        g[n][q] = IF n > Attempts(r.kind) THEN "rejected"
                                  ELSE IF Key(r, n, q) \notin DOMAIN store THEN NoText
                                  ELSE IF store[Key(r, n, q)] \in Good THEN store[Key(r, n, q)]
                                  ELSE g[n + 1][QuotedNext(r.kind, <<store[Key(r, n, q)]>>)]
        BY ReplayUnfolds
    <2>2. 1 \in 1..Attempts(r.kind) + 1 /\ ~(1 > Attempts(r.kind)) /\ NoQuote \in Quotes
        BY <1>1, QuotesAre
    <2> QED
        BY <1>5, <2>1, <2>2 DEF FirstKey
<1>6. ASSUME Attempts(r.kind) = 1, FirstKey(r) \in DOMAIN store, store[FirstKey(r)] \in Bad
      PROVE  Replay(r) = "rejected"
    <2>1. Trail(store, r, 1, NoQuote) /\ NoQuote \in Quotes
        BY TrailBegins, QuotesAre
    <2> QED
        BY <1>1, <1>6, <2>1, TrailReplays DEF FirstKey
<1> QED
    BY <1>2, <1>3, <1>4, <1>5, <1>6
-----------------------------------------------------------------------------
(* What a step does to the store.                                          *)

\* An answer of the bidder at hand that its stored readings do not take.
Unvouched(k) ==
    k[1] = AnswerPrompt(Bidder) /\ (k[2] = 1 => ~VouchedBy(store, Bidder, store[k], 1))

\* The call in progress overwrites what is stored for it.
Refreshing == mode = "refresh" /\ call.stage = "ask"

\* A refresh overwrites the response to the call in progress; rejected responses of
\* evicting callers and unvouched answers go; nothing else changes.
Moves ==
    \A k \in DOMAIN store :
        \/ Holds(store', k, store[k])
        \/ Refreshing /\ k = CallKey
        \/ k[1].kind \in Evicting /\ (store[k] \in Bad \/ Unvouched(k))

\* What is stored for r may be overwritten.
Rewritten(r) == Refreshing /\ call.request = r

\* No call of these kinds about bidder b is being refreshed.
Untouched(b, kinds) == ~(Refreshing /\ Kind \in kinds /\ call.request.bidder = b)

\* The calls that read an answer, that read a map, and all that an elicitation makes.
ReadingKinds == {"person_answer_semantic_extraction", "person_answer_substitute_entailment"}
MapKinds     == {"interest_map", "interest_map_complement_entailment"}
ElicitKinds  == ReadingKinds \cup MapKinds \cup {"person_nl_response", "provisional_valuations"}

\* The prompts, by kind and bidder.
LEMMA PromptsAre ==
    ASSUME NEW b
    PROVE  /\ AnswerPrompt(b).kind = "person_nl_response" /\ AnswerPrompt(b).bidder = b
           /\ \A a, n : /\ ExtractionPrompt(b, a, n).kind = "person_answer_semantic_extraction"
                        /\ ExtractionPrompt(b, a, n).bidder = b
           /\ \A a, n, e : /\ EntailmentPrompt(b, a, n, e).kind = "person_answer_substitute_entailment"
                           /\ EntailmentPrompt(b, a, n, e).bidder = b
           /\ \A a : MapPrompt(b, a).kind = "interest_map" /\ MapPrompt(b, a).bidder = b
           /\ \A a, m : /\ AuditPrompt(b, a, m).kind = "interest_map_complement_entailment"
                        /\ AuditPrompt(b, a, m).bidder = b
           /\ \A a, m, c : /\ ValuePrompt(b, a, m, c).kind = "provisional_valuations"
                           /\ ValuePrompt(b, a, m, c).bidder = b
                           /\ ValuePrompt(b, a, m, c).bundles = c
BY DEF Prompt, AnswerPrompt, ExtractionPrompt, EntailmentPrompt, MapPrompt, AuditPrompt, ValuePrompt

\* The parts of a key.
LEMMA KeyParts ==
    \A r, n, q : Key(r, n, q)[1] = r /\ Key(r, n, q)[2] = n /\ Key(r, n, q)[3] = q
                 /\ Key(r, n, q) # NoKey
BY DEF Key, NoKey

\* A first response stays; a person's answer does if it is vouched for.
LEMMA FirstStays ==
    ASSUME Moves, NEW r, NEW t, First(store, r, t), ~Rewritten(r),
           \A b : r = AnswerPrompt(b) => VouchedBy(store, b, t, 1)
    PROVE  First(store', r, t)
<1> DEFINE k == FirstKey(r)
<1>1. k \in DOMAIN store /\ store[k] = t /\ t \in Good /\ t \notin Bad
    BY CacheAssumption DEF First, Holds
<1>2. k[1] = r /\ k[2] = 1
    BY KeyParts DEF FirstKey
<1>3. ~(Refreshing /\ k = CallKey)
    BY <1>2, KeyParts DEF Rewritten, CallKey
<1>4. ~Unvouched(k)
    BY <1>1, <1>2 DEF Unvouched
<1>5. Holds(store', k, store[k])
    BY <1>1, <1>3, <1>4 DEF Moves
<1> QED
    BY <1>1, <1>5 DEF First

\* So does a trail of a caller that does not evict.
LEMMA TrailStays ==
    ASSUME Moves, NEW r, r.kind \notin Evicting, NEW n \in Nat, NEW q, Trail(store, r, n, q),
           Rewritten(r) => call.attempt \notin 1..n - 1
    PROVE  Trail(store', r, n, q)
<1>1. PICK f \in [1..n -> Quotes] :
        /\ f[1] = NoQuote /\ f[n] = q
        /\ \A m \in 1..n - 1 :
              /\ Key(r, m, f[m]) \in DOMAIN store /\ store[Key(r, m, f[m])] \in Bad
              /\ f[m + 1] = QuotedNext(r.kind, <<store[Key(r, m, f[m])]>>)
    BY DEF Trail
<1>2. ASSUME NEW m \in 1..n - 1
      PROVE  Holds(store', Key(r, m, f[m]), store[Key(r, m, f[m])])
    <2> DEFINE k == Key(r, m, f[m])
    <2>1. k \in DOMAIN store
        BY <1>1
    <2>0. k[1] = r /\ k[2] = m
        BY KeyParts
    <2>2. ~(Refreshing /\ k = CallKey)
        BY <2>0, KeyParts DEF Rewritten, CallKey
    <2> HIDE DEF k
    <2>3. Holds(store', k, store[k])
        BY <2>0, <2>1, <2>2 DEF Moves
    <2> QED
        BY <2>3 DEF k
<1> QED
    BY <1>1, <1>2 DEF Trail, Holds

\* So do the answers such a caller ends with.
LEMMA AnsweredStays ==
    ASSUME Moves, NEW r, r.kind \notin Evicting, ~Rewritten(r)
    PROVE  /\ \A t : Answered(store, r, t) => Answered(store', r, t)
           /\ Exhausted(store, r) => Exhausted(store', r)
<1>1. ASSUME NEW n, NEW q, Key(r, n, q) \in DOMAIN store
      PROVE  Holds(store', Key(r, n, q), store[Key(r, n, q)])
    <2> DEFINE k == Key(r, n, q)
    <2>1. k \in DOMAIN store /\ k[1] = r
        BY <1>1, KeyParts
    <2>2. ~(Refreshing /\ k = CallKey)
        BY <2>1, KeyParts DEF Rewritten, CallKey
    <2> HIDE DEF k
    <2>3. Holds(store', k, store[k])
        BY <2>1, <2>2 DEF Moves
    <2> QED
        BY <2>3 DEF k
<1>2. Attempts(r.kind) \in Nat /\ \A n \in 1..Attempts(r.kind) : n \in Nat
    BY AttemptsAre
<1>3. ASSUME NEW t, Answered(store, r, t)
      PROVE  Answered(store', r, t)
    <2>1. PICK n \in 1..Attempts(r.kind), q \in Quotes :
                Trail(store, r, n, q) /\ Holds(store, Key(r, n, q), t)
        BY <1>3 DEF Answered
    <2>2. Trail(store', r, n, q)
        BY <1>2, <2>1, TrailStays
    <2>3. Holds(store', Key(r, n, q), t)
        BY <1>1, <2>1 DEF Holds
    <2> QED
        BY <1>3, <2>2, <2>3 DEF Answered
<1>4. ASSUME Exhausted(store, r)
      PROVE  Exhausted(store', r)
    <2> DEFINE n == Attempts(r.kind)
    <2>1. PICK q \in Quotes : /\ Trail(store, r, n, q)
                              /\ Key(r, n, q) \in DOMAIN store
                              /\ store[Key(r, n, q)] \in Bad
        BY <1>4 DEF Exhausted
    <2>2. Trail(store', r, n, q)
        BY <1>2, <2>1, TrailStays
    <2>3. Holds(store', Key(r, n, q), store[Key(r, n, q)])
        BY <1>1, <2>1
    <2> QED
        BY <2>1, <2>2, <2>3 DEF Exhausted, Holds
<1> QED
    BY <1>3, <1>4

\* The readings of an answer stay.
LEMMA ReadingStays ==
    ASSUME Moves, NEW b, Untouched(b, ReadingKinds), NEW a, NEW n
    PROVE  /\ \A t : ReadAs(store, b, a, n, t) => ReadAs(store', b, a, n, t)
           /\ VouchedBy(store, b, a, n) => VouchedBy(store', b, a, n)
<1>1. ASSUME NEW t, ReadAs(store, b, a, n, t)
      PROVE  ReadAs(store', b, a, n, t)
    <2> DEFINE r == ExtractionPrompt(b, a, n)
    <2>1. r.kind \in ReadingKinds /\ r.bidder = b /\ \A c : r # AnswerPrompt(c)
        BY PromptsAre DEF ReadingKinds
    <2>2. ~Rewritten(r)
        BY <2>1 DEF Untouched, Rewritten, Kind
    <2> HIDE DEF r
    <2>3. First(store, r, t) => First(store', r, t)
        BY <2>1, <2>2, FirstStays
    <2> QED
        BY <1>1, <2>3 DEF ReadAs, r
<1>2. ASSUME NEW t, Seconded(store, b, a, n, t)
      PROVE  Seconded(store', b, a, n, t)
    <2> DEFINE r == EntailmentPrompt(b, a, n, Extraction[t])
    <2>0. r.kind = "person_answer_substitute_entailment" /\ r.bidder = b
        BY PromptsAre
    <2>1. r.kind \in ReadingKinds /\ r.bidder = b /\ \A c : r # AnswerPrompt(c)
        BY <2>0, PromptsAre DEF ReadingKinds
    <2>2. ~Rewritten(r)
        BY <2>1 DEF Untouched, Rewritten, Kind
    <2>3. PICK u : First(store, r, u) /\ Discloses(Upheld(Extraction[t], UpheldModes[u]), Truth[b], Items)
        BY <1>2 DEF Seconded
    <2> HIDE DEF r
    <2>4. First(store', r, u)
        BY <2>1, <2>2, <2>3, FirstStays
    <2> QED
        BY <2>3, <2>4 DEF Seconded, r
<1>3. ASSUME VouchedBy(store, b, a, n)
      PROVE  VouchedBy(store', b, a, n)
    BY <1>1, <1>2, <1>3 DEF VouchedBy
<1> QED
    BY <1>1, <1>3

\* A vouched answer stays.
LEMMA AnswerStays ==
    ASSUME Moves, NEW b, Untouched(b, ReadingKinds \cup {"person_nl_response"}),
           NEW plan, NEW a, AnswerKept(store, b, plan, a)
    PROVE  AnswerKept(store', b, plan, a)
<1> SUFFICES ASSUME plan.disclosed = NoText
             PROVE  First(store', AnswerPrompt(b), a) /\ VouchedBy(store', b, a, 1)
    BY DEF AnswerKept
<1>1. First(store, AnswerPrompt(b), a) /\ VouchedBy(store, b, a, 1)
    BY DEF AnswerKept
<1>2. Untouched(b, ReadingKinds) /\ ~Rewritten(AnswerPrompt(b))
    BY PromptsAre DEF Untouched, Rewritten, Kind
<1>3. \A c : AnswerPrompt(b) = AnswerPrompt(c) => c = b
    BY PromptsAre
<1>4. First(store', AnswerPrompt(b), a)
    BY <1>1, <1>2, <1>3, FirstStays
<1> QED
    BY <1>1, <1>2, <1>4, ReadingStays

\* The responses a map was made of stay.
LEMMA MapStays ==
    ASSUME Moves, NEW b, Untouched(b, MapKinds), NEW a, NEW policy, NEW map,
           MapKept(store, b, a, policy, map)
    PROVE  MapKept(store', b, a, policy, map)
<1>1. MapPrompt(b, a).kind \notin Evicting /\ ~Rewritten(MapPrompt(b, a))
    BY PromptsAre DEF Untouched, Rewritten, Kind, MapKinds, Evicting
<1>2. ASSUME NEW m, NEW t, Holds(store, FirstKey(AuditPrompt(b, a, m)), t)
      PROVE  Holds(store', FirstKey(AuditPrompt(b, a, m)), t)
    <2> DEFINE r == AuditPrompt(b, a, m)
               k == FirstKey(r)
    <2>0. r.kind = "interest_map_complement_entailment" /\ r.bidder = b
        BY PromptsAre
    <2>1. r.kind \notin Evicting /\ ~Rewritten(r)
        BY <2>0 DEF Untouched, Rewritten, Kind, MapKinds, Evicting
    <2> HIDE DEF r
    <2>2. k \in DOMAIN store /\ k[1] = r /\ store[k] = t
        BY <1>2, KeyParts DEF FirstKey, Holds, r
    <2>3. ~(Refreshing /\ k = CallKey)
        BY <2>1, <2>2, KeyParts DEF Rewritten, CallKey
    <2> HIDE DEF k
    <2>4. Holds(store', k, store[k])
        BY <2>1, <2>2, <2>3 DEF Moves
    <2> QED
        BY <2>2, <2>4 DEF k, r
<1>3. \A t : Answered(store, MapPrompt(b, a), t) => Answered(store', MapPrompt(b, a), t)
    BY <1>1, AnsweredStays
<1>4. Exhausted(store, MapPrompt(b, a)) => Exhausted(store', MapPrompt(b, a))
    BY <1>1, AnsweredStays
<1> QED
    BY <1>2, <1>3, <1>4 DEF MapKept

\* The values of chunks stay.
LEMMA ValuesStay ==
    ASSUME Moves, NEW b, NEW a, NEW map, NEW cs, NEW values,
           \A c \in cs : ~Rewritten(ValuePrompt(b, a, map, c)),
           ValuesKept(store, b, a, map, cs, values)
    PROVE  ValuesKept(store', b, a, map, cs, values)
<1> SUFFICES ASSUME NEW c \in cs, NEW bundle \in ToSet(c)
             PROVE  First(store', ValuePrompt(b, a, map, c), values[bundle])
    BY DEF ValuesKept
<1>1. First(store, ValuePrompt(b, a, map, c), values[bundle])
    BY DEF ValuesKept
<1>2. \A d : ValuePrompt(b, a, map, c) # AnswerPrompt(d)
    BY PromptsAre
<1> QED
    BY <1>1, <1>2, FirstStays

\* An entry stays, unless its bidder is being refreshed.
LEMMA EntryStays ==
    ASSUME Moves, NEW b, Untouched(b, ElicitKinds), NEW e, EntryKept(store, b, e)
    PROVE  EntryKept(store', b, e)
<1>1. /\ Untouched(b, ReadingKinds \cup {"person_nl_response"}) /\ Untouched(b, MapKinds)
      /\ \A m, a, c : ~Rewritten(ValuePrompt(b, a, m, c))
    BY PromptsAre DEF Untouched, ElicitKinds, Rewritten, Kind
<1> QED
    BY <1>1, AnswerStays, MapStays, ValuesStay DEF EntryKept
-----------------------------------------------------------------------------
(* What the invariant says of the call in progress, and what stays of it.  *)

\* A stage is one of those of a bidder being elicited, or none.
LEMMA StagesAre ==
    /\ Idle.stage = "idle" /\ Failed.stage = "failed" /\ Returns.stage = "returned"
    /\ NoCall.stage = "idle"
    /\ task \in {Idle, Failed, Returns} => ~Working
BY DEF Idle, Failed, Returns, NoCall, Working

\* The next prompt of every stage.
LEMMA WantedIs ==
    /\ task.stage = "answer" => Wanted = AnswerPrompt(Bidder)
    /\ task.stage = "extract" =>
          Wanted = ExtractionPrompt(Bidder, task.held.text, task.held.attempt)
    /\ task.stage = "entail" =>
          Wanted = EntailmentPrompt(Bidder, task.held.text, task.held.attempt,
                                    Extraction[task.extraction])
    /\ task.stage = "map" => Wanted = MapPrompt(Bidder, task.answer)
    /\ task.stage = "audit" => Wanted = AuditPrompt(Bidder, task.answer, task.map)
    /\ task.stage = "value" =>
          Wanted = ValuePrompt(Bidder, task.answer, task.map, Head(task.chunks))
BY DEF Wanted

\* The stage in which a caller asks.
StageOf(kind) ==
    CASE kind = "person_nl_response"                  -> "answer"
      [] kind = "person_answer_semantic_extraction"   -> "extract"
      [] kind = "person_answer_substitute_entailment" -> "entail"
      [] kind = "interest_map"                        -> "map"
      [] kind = "interest_map_complement_entailment"  -> "audit"
      [] kind = "provisional_valuations"              -> "value"

\* The calls of an auction.
QueryKinds == {"value_query", "demand_query"}

\* A call asks what its stage wants, or is a query of an auction.
LEMMA CallIs ==
    ASSUME CacheInv, call # NoCall
    PROVE  /\ Kind \in Kinds
           /\ Kind \in QueryKinds => task = Returns /\ ~Working /\ call.request \in Requests
           /\ Kind \notin QueryKinds =>
                 /\ Kind \in ElicitKinds /\ Working /\ task.stage = StageOf(Kind)
                 /\ call.request = Wanted /\ call.request.bidder = Bidder
<1>1. CASE Working /\ call.request = Wanted
    <2>1. Kind \in ElicitKinds /\ task.stage = StageOf(Kind) /\ call.request.bidder = Bidder
        BY <1>1, WantedIs, PromptsAre
           DEF Working, Kind, ElicitKinds, ReadingKinds, MapKinds, StageOf
    <2>2. Kind \notin QueryKinds /\ Kind \in Kinds
        BY <2>1 DEF ElicitKinds, ReadingKinds, MapKinds, QueryKinds, Kinds
    <2> QED
        BY <1>1, <2>1, <2>2
<1>2. CASE task = Returns /\ call.request \in Requests
    <2>1. Kind \in QueryKinds /\ Kind \in Kinds
        BY <1>2, ElicitationAssumption, CacheAssumption DEF QueryKinds, Kind
    <2> QED
        BY <1>2, <2>1, StagesAre
<1> QED
    BY <1>1, <1>2 DEF CacheInv, CallOk

\* The bidders come once each.
LEMMA BiddersAre ==
    /\ Len(Bidders) \in Nat \ {0} /\ DOMAIN Bidders = 1..Len(Bidders)
    /\ \A i, j \in 1..Len(Bidders) : Bidders[i] = Bidders[j] => i = j
<1>1. Bidders \in Seq(Range(Bidders)) /\ IsInjective(Bidders) /\ Bidders # <<>>
    BY ElicitationAssumption
<1> DEFINE S == Range(Bidders)
<1> HIDE DEF S
<1>2. Bidders \in Seq(S)
    BY <1>1 DEF S
<1>3. Len(Bidders) \in Nat \ {0} /\ DOMAIN Bidders = 1..Len(Bidders)
    BY <1>1, <1>2
<1> QED
    BY <1>1, <1>3 DEF IsInjective

\* The chunks of a map in normal form.
LEMMA ChunksOfMap ==
    ASSUME NEW map, NormalForm(map, Items)
    PROVE  /\ CandidatesAre(Candidates(map), map, MaxCandidates)
           /\ ChunksAre(AllChunks(map), Candidates(map))
<1>1. Items \in SUBSET Nat /\ IsFiniteSet(Items) /\ MaxCandidates \in Nat /\ ChunkSize \in Nat
    BY ElicitationAssumption
<1>2. CandidatesAre(Candidates(map), map, MaxCandidates)
    BY <1>1, CandidateBundlesAre DEF Candidates
<1>3. ChunksAre(AllChunks(map), Candidates(map))
    BY <1>1, <1>2, ChunksAreParts DEF CandidatesAre, AllChunks
<1> QED
    BY <1>2, <1>3

\* r is what is left of sequence s after its first p elements.
RestOf(r, s, p) ==
    /\ p + 1 \in 1..Len(s) /\ Len(s) \in Nat /\ DOMAIN s = 1..Len(s)
    /\ r # <<>> /\ Head(r) = s[p + 1] /\ Tail(r) = SubSeq(s, p + 2, Len(s))
    /\ Len(Tail(r)) = Len(s) - (p + 1) /\ (Tail(r) = <<>> <=> p + 1 = Len(s))

\* So is the sequence from the next element on.
LEMMA RestIs ==
    ASSUME NEW S, NEW s \in Seq(S), NEW p \in Nat, p < Len(s)
    PROVE  RestOf(SubSeq(s, p + 1, Len(s)), s, p)
<1> DEFINE r == SubSeq(s, p + 1, Len(s))
<1>1. Len(s) \in Nat /\ DOMAIN s = 1..Len(s) /\ p + 1 \in 1..Len(s) /\ (p + 1) + 1 = p + 2
    OBVIOUS
<1>2. Len(s) \in p + 1..Len(s)
    BY <1>1
<1>3. r # <<>>
    <2>1. \A i \in p + 1..Len(s) : s[i] \in S
        BY <1>1
    <2>2. Len(SubSeq(s, p + 1, Len(s))) = Len(s) - (p + 1) + 1
        BY <1>1, <2>1, SubSeqProperties
    <2> DEFINE n == Len(s)
    <2>3. n \in Nat /\ p < n
        BY <1>1
    <2> HIDE DEF n
    <2>4. n - (p + 1) + 1 # 0
        BY <2>3
    <2>5. Len(r) # 0
        BY <2>2, <2>4, Zenon DEF n
    <2> QED
        BY <2>5
<1>4. Head(r) = s[p + 1] /\ Tail(r) = SubSeq(s, (p + 1) + 1, Len(s))
    BY <1>1, <1>2, HeadTailOfSubSeq
<1>5. r \in Seq(S) /\ Len(r) = Len(s) - (p + 1) + 1
    <2>1. \A i \in p + 1..Len(s) : s[i] \in S
        BY <1>1
    <2> QED
        BY <1>1, <1>2, <2>1, SubSeqProperties
<1>6. Tail(r) \in Seq(S) /\ Len(Tail(r)) = Len(r) - 1
    BY <1>3, <1>5, HeadTailProperties
<1> DEFINE n == Len(s)
           m == Len(Tail(r))
<1>7. n \in Nat /\ m \in Nat /\ (m = 0 <=> Tail(r) = <<>>) /\ m = n - (p + 1) + 1 - 1
    <2>1. \A seq \in Seq(S) : Len(seq) = 0 <=> seq = <<>>
        OBVIOUS
    <2>2. m = 0 <=> Tail(r) = <<>>
        BY <1>6, <2>1
    <2>3. m = n - (p + 1) + 1 - 1
        BY <1>5, <1>6
    <2>4. n \in Nat /\ m \in Nat
        BY <1>1, <1>6
    <2> QED
        BY <2>2, <2>3, <2>4
<1> HIDE DEF n, m
<1>8. m = n - (p + 1) /\ (m = 0 <=> p + 1 = n)
    BY <1>7
<1> QED
    BY <1>1, <1>3, <1>4, <1>7, <1>8 DEF n, m, RestOf

\* The chunk to be valued next is not one of those that are valued.
LEMMA NextChunk ==
    ASSUME CacheInv, Working, task.stage = "value"
    PROVE  /\ Past \in Nat /\ Past + 1 \in 1..Len(AllChunks(task.map))
           /\ Len(AllChunks(task.map)) \in Nat
           /\ DOMAIN AllChunks(task.map) = 1..Len(AllChunks(task.map))
           /\ AllChunks(task.map) \in Seq(Seq(ToSet(Candidates(task.map))))
           /\ task.chunks # <<>> /\ Head(task.chunks) = AllChunks(task.map)[Past + 1]
           /\ Tail(task.chunks) = SubSeq(AllChunks(task.map), Past + 2, Len(AllChunks(task.map)))
           /\ Len(Tail(task.chunks)) = Len(AllChunks(task.map)) - (Past + 1)
           /\ (Tail(task.chunks) = <<>> <=> Past + 1 = Len(AllChunks(task.map)))
           /\ \A c \in Valued : ToSet(c) \cap ToSet(Head(task.chunks)) = {}
           /\ Head(task.chunks) \notin Valued
<1> DEFINE all == AllChunks(task.map)
           C == ToSet(Candidates(task.map))
<1>1. /\ ChunksAre(all, Candidates(task.map))
      /\ Past \in Nat /\ Past < Len(all) /\ task.chunks = SubSeq(all, Past + 1, Len(all))
    BY ChunksOfMap DEF CacheInv, TaskOk, ChunksOk
<1>2. all \in Seq(Seq(C))
    BY <1>1 DEF ChunksAre
<1>3. /\ \A i \in DOMAIN all : all[i] # <<>>
      /\ \A i, j \in DOMAIN all : i # j => ToSet(all[i]) \cap ToSet(all[j]) = {}
    BY <1>1 DEF ChunksAre
<1> HIDE DEF all, C
<1>4. Len(all) \in Nat /\ DOMAIN all = 1..Len(all) /\ Past + 1 \in 1..Len(all)
    BY <1>1, <1>2
<1>5. /\ task.chunks # <<>> /\ Head(task.chunks) = all[Past + 1]
      /\ Tail(task.chunks) = SubSeq(all, Past + 2, Len(all))
      /\ Len(Tail(task.chunks)) = Len(all) - (Past + 1)
      /\ (Tail(task.chunks) = <<>> <=> Past + 1 = Len(all))
    <2> DEFINE r == task.chunks
               p == Past
    <2>1. all \in Seq(Seq(C)) /\ p \in Nat /\ p < Len(all) /\ r = SubSeq(all, p + 1, Len(all))
        BY <1>1, <1>2
    <2> HIDE DEF r, p
    <2>3. RestOf(SubSeq(all, p + 1, Len(all)), all, p)
        BY <2>1, RestIs
    <2>4. RestOf(r, all, p)
        BY <2>1, <2>3
    <2>2. /\ r # <<>> /\ Head(r) = all[p + 1]
          /\ Tail(r) = SubSeq(all, p + 2, Len(all))
          /\ Len(Tail(r)) = Len(all) - (p + 1)
          /\ (Tail(r) = <<>> <=> p + 1 = Len(all))
        BY <2>4 DEF RestOf
    <2> QED
        BY <2>2 DEF r, p
<1>6. ASSUME NEW c \in Valued
      PROVE  ToSet(c) \cap ToSet(Head(task.chunks)) = {} /\ c # Head(task.chunks)
    <2>1. PICK i \in 1..Past : c = all[i]
        BY DEF Valued, all
    <2>2. i \in DOMAIN all /\ Past + 1 \in DOMAIN all /\ i # Past + 1
        BY <1>1, <1>4
    <2>3. ToSet(c) \cap ToSet(Head(task.chunks)) = {}
        BY <1>3, <1>5, <2>1, <2>2
    <2>4. c # <<>> /\ c \in Seq(C)
        BY <1>2, <1>3, <2>1, <2>2
    <2>5. c[1] \in ToSet(c)
        BY <2>4 DEF ToSet
    <2> QED
        BY <2>3, <2>5
<1> QED
    BY <1>1, <1>2, <1>4, <1>5, <1>6 DEF all, C

\* What stays of what a step found.
Framed ==
    /\ SettledIn(store', settled)
    /\ EntriesOk(store', entries) /\ EntriesOk(store', done)
    /\ Working /\ task.kept => TaskKept(store')

\* What the invariant says of settled calls, entries and the bidder outlasts every
\* such step.
LEMMA FrameStays ==
    ASSUME CacheInv, Moves
    PROVE  Framed
<1>1. Refreshing => call # NoCall
    BY StagesAre DEF Refreshing
<1>2. ASSUME NEW r \in DOMAIN settled
      PROVE  /\ r.kind \notin Evicting => Answered(store', r, settled[r].text)
             /\ r.kind \in Evicting /\ settled[r].attempt = 1 => First(store', r, settled[r].text)
             /\ r.kind = "person_nl_response" =>
                   /\ r = AnswerPrompt(r.bidder)
                   /\ settled[r].attempt = 1 => VouchedBy(store', r.bidder, settled[r].text, 1)
    <2>1. /\ r.kind \notin Evicting => Answered(store, r, settled[r].text)
          /\ r.kind \in Evicting /\ settled[r].attempt = 1 => First(store, r, settled[r].text)
          /\ r.kind = "person_nl_response" =>
                   /\ r = AnswerPrompt(r.bidder)
                   /\ settled[r].attempt = 1 => VouchedBy(store, r.bidder, settled[r].text, 1)
        BY DEF CacheInv, SettledIn
    <2>2. ~Rewritten(r)
        BY <1>1 DEF CacheInv, CallOk, Rewritten, Refreshing
    <2>3. r.kind \notin Evicting => Answered(store', r, settled[r].text)
        BY <2>1, <2>2, AnsweredStays
    <2>4. r.kind \in Evicting /\ settled[r].attempt = 1 => First(store', r, settled[r].text)
        <3> SUFFICES ASSUME r.kind \in Evicting, settled[r].attempt = 1
                     PROVE  First(store', r, settled[r].text)
            OBVIOUS
        <3>1. First(store, r, settled[r].text)
            BY <2>1
        <3>2. \A b : r = AnswerPrompt(b) => VouchedBy(store, b, settled[r].text, 1)
            BY <2>1, PromptsAre
        <3> QED
            BY <2>2, <3>1, <3>2, FirstStays
    <2>5. r.kind = "person_nl_response" /\ settled[r].attempt = 1 =>
             VouchedBy(store', r.bidder, settled[r].text, 1)
        <3> SUFFICES ASSUME r.kind = "person_nl_response", settled[r].attempt = 1
                     PROVE  VouchedBy(store', r.bidder, settled[r].text, 1)
            OBVIOUS
        <3>1. Untouched(r.bidder, ReadingKinds)
            <4> SUFFICES ASSUME Refreshing, Kind \in ReadingKinds, call.request.bidder = r.bidder
                         PROVE  FALSE
                BY DEF Untouched
            <4>1. Kind \notin QueryKinds
                BY DEF ReadingKinds, QueryKinds
            <4>2. task.stage \in {"extract", "entail"} /\ call.request.bidder = Bidder
                BY <1>1, <4>1, CallIs DEF ReadingKinds, StageOf
            <4>3. AnswerPrompt(Bidder) \notin DOMAIN settled
                BY <4>2 DEF CacheInv, HeldOk, Refreshing
            <4> QED
                BY <2>1, <4>2, <4>3
        <3> QED
            BY <2>1, <3>1, ReadingStays
    <2> QED
        BY <2>1, <2>3, <2>4, <2>5
<1>3. ASSUME NEW b \in DOMAIN entries
      PROVE  EntryKept(store', b, entries[b]) /\ EntryShape(entries[b])
    <2>1. Untouched(b, ElicitKinds)
        <3> SUFFICES ASSUME Refreshing, Kind \in ElicitKinds, call.request.bidder = b
                     PROVE  FALSE
            BY DEF Untouched
        <3>1. Kind \notin QueryKinds
            BY DEF ElicitKinds, ReadingKinds, MapKinds, QueryKinds
        <3>2. Working /\ b = Bidder
            BY <1>1, <3>1, CallIs
        <3>3. DOMAIN entries = {Bidders[i] : i \in 1..task.pos - 1} /\ task.pos \in 1..Len(Bidders)
            BY <3>2 DEF CacheInv, TaskOk
        <3>4. PICK i \in 1..task.pos - 1 : b = Bidders[i]
            BY <3>3
        <3>5. i \in 1..Len(Bidders) /\ i # task.pos /\ Bidders[i] = Bidders[task.pos]
            BY <3>2, <3>3, <3>4, BiddersAre DEF Bidder
        <3> QED
            BY <3>3, <3>5, BiddersAre
    <2> QED
        BY <2>1, EntryStays DEF CacheInv, EntriesOk
<1>4. ASSUME NEW b \in DOMAIN done
      PROVE  EntryKept(store', b, done[b]) /\ EntryShape(done[b])
    <2>1. Untouched(b, ElicitKinds)
        <3> SUFFICES ASSUME Refreshing, Kind \in ElicitKinds
                     PROVE  FALSE
            BY DEF Untouched
        <3>1. Kind \notin QueryKinds
            BY DEF ElicitKinds, ReadingKinds, MapKinds, QueryKinds
        <3>2. Working
            BY <1>1, <3>1, CallIs
        <3> QED
            BY <3>2 DEF CacheInv, TaskOk, Refreshing, NoEntry
    <2> QED
        BY <2>1, EntryStays DEF CacheInv, EntriesOk
<1>5. ASSUME Working, task.kept
      PROVE  TaskKept(store')
    <2>1. TaskKept(store)
        BY <1>5 DEF CacheInv, TaskOk
    <2>2. Refreshing => task.stage = StageOf(Kind) /\ Kind \in ElicitKinds /\ call.request = Wanted
        BY <1>1, <1>5, CallIs, StagesAre
    <2>3. ASSUME task.stage \in {"map", "audit", "value"}
          PROVE  AnswerKept(store', Bidder, task.plan, task.answer)
        <3>1. AnswerKept(store, Bidder, task.plan, task.answer)
            BY <2>1, <2>3 DEF TaskKept
        <3>2. Untouched(Bidder, ReadingKinds \cup {"person_nl_response"})
            BY <2>2, <2>3 DEF Untouched, StageOf, ReadingKinds
        <3> QED
            BY <3>1, <3>2, AnswerStays
    <2>4. ASSUME task.stage = "audit"
          PROVE  \E t : Answered(store', MapPrompt(Bidder, task.answer), t) /\ task.map = ReadMap(t)
        <3> DEFINE r == MapPrompt(Bidder, task.answer)
        <3>1. PICK t : Answered(store, r, t) /\ task.map = ReadMap(t)
            BY <2>1, <2>4 DEF TaskKept
        <3>2. r.kind = "interest_map"
            BY PromptsAre
        <3>3. ~Rewritten(r)
            BY <2>2, <2>4, <3>2 DEF Rewritten, Kind, StageOf
        <3>4. r.kind \notin Evicting
            BY <3>2 DEF Evicting
        <3> HIDE DEF r
        <3>5. Answered(store', r, t)
            BY <3>1, <3>3, <3>4, AnsweredStays
        <3> QED
            BY <3>1, <3>5 DEF r
    <2>5. ASSUME task.stage = "value"
          PROVE  /\ MapKept(store', Bidder, task.answer, task.plan.policy, task.map)
                 /\ ValuesKept(store', Bidder, task.answer, task.map, Valued, task.values)
        <3>1. /\ MapKept(store, Bidder, task.answer, task.plan.policy, task.map)
              /\ ValuesKept(store, Bidder, task.answer, task.map, Valued, task.values)
            BY <2>1, <2>5 DEF TaskKept
        <3>2. Untouched(Bidder, MapKinds)
            BY <2>2, <2>5 DEF Untouched, StageOf, MapKinds
        <3>3. Wanted.bundles = Head(task.chunks)
            BY <2>5, WantedIs, PromptsAre
        <3>4. ASSUME NEW c \in Valued
              PROVE  ~Rewritten(ValuePrompt(Bidder, task.answer, task.map, c))
            <4>1. c # Head(task.chunks)
                BY <1>5, <2>5, NextChunk
            <4> QED
                BY <2>2, <3>3, <4>1, PromptsAre DEF Rewritten
        <3> QED
            BY <3>1, <3>2, <3>4, MapStays, ValuesStay
    <2> QED
        BY <2>3, <2>4, <2>5 DEF TaskKept
<1> QED
    BY <1>2, <1>3, <1>4, <1>5 DEF Framed, SettledIn, EntriesOk
-----------------------------------------------------------------------------
(* What the steps do to the store, and which rejected responses are left.  *)

\* A step that leaves the store alone.
LEMMA StoreSame ==
    ASSUME CacheInv, store' = store
    PROVE  StoreOk' /\ Moves
BY DEF CacheInv, StoreOk, Moves, Holds

\* The key of the call in progress is one the store may have.
LEMMA CallKeyIs ==
    ASSUME CacheInv, call # NoCall
    PROVE  /\ CallKey[1] = call.request /\ CallKey[2] = call.attempt /\ CallKey[3] = call.quoted
           /\ CallKey = Key(CallKey[1], CallKey[2], CallKey[3])
           /\ CallKey[1].kind = Kind /\ Kind \in Kinds
           /\ CallKey[2] = 1 => CallKey[3] = NoQuote
           /\ Kind = "person_nl_response" => CallKey[1] = AnswerPrompt(CallKey[1].bidder)
           /\ Attempts(Kind) = 1 => CallKey = FirstKey(call.request)
           /\ call.attempt \in Nat \ {0}
<1>1. CallKey[1] = call.request /\ CallKey[2] = call.attempt /\ CallKey[3] = call.quoted
    BY KeyParts DEF CallKey
<1>2. Kind \in Kinds
    BY CallIs
<1>3. call.attempt = 1 => call.quoted = NoQuote
    BY DEF CacheInv, CallOk
<1>4. ASSUME Kind = "person_nl_response"
      PROVE  call.request = AnswerPrompt(call.request.bidder)
    <2>1. Kind \notin QueryKinds
        BY <1>4 DEF QueryKinds
    <2>2. task.stage = "answer" /\ call.request = Wanted
        BY <1>4, <2>1, CallIs DEF StageOf
    <2> QED
        BY <2>2, WantedIs, PromptsAre
<1>5. call.attempt \in 1..Attempts(Kind) /\ Attempts(Kind) \in Nat
    BY AttemptsAre DEF CacheInv, CallOk
<1>6. Attempts(Kind) = 1 => CallKey = FirstKey(call.request)
    BY <1>3, <1>5 DEF FirstKey, CallKey
<1>7. call.attempt \in Nat \ {0}
    BY <1>5
<1> QED
    BY <1>1, <1>2, <1>3, <1>4, <1>6, <1>7 DEF CallKey, Kind

\* The provider's answer is stored, unless the session does without the cache.
LEMMA AskStores ==
    ASSUME CacheInv, NEW texts \in SUBSET Texts, AskProvider(texts)
    PROVE  /\ StoreOk' /\ Moves
           /\ call # NoCall /\ call.stage = "ask"
           /\ call'.text \in texts /\ Returned(call'.text)
           /\ Cached => /\ Holds(store', CallKey, call'.text)
                        /\ \A k \in DOMAIN store' :
                              k # CallKey => k \in DOMAIN store /\ store'[k] = store[k]
           /\ ~Cached => store' = store
<1>1. call.stage = "ask" /\ MustAsk /\ call # NoCall
    BY StagesAre DEF AskProvider
<1>2. PICK text \in texts :
         /\ Returned(text)
         /\ store' = IF mode = "off" THEN store
                     ELSE [k \in DOMAIN store \cup {CallKey} |->
                             IF k = CallKey THEN text ELSE store[k]]
    BY DEF AskProvider
<1>3. call'.text = text
    BY <1>2 DEF Returned
<1>4. CASE mode = "off"
    BY <1>1, <1>2, <1>3, <1>4, StoreSame DEF Cached
<1>5. CASE mode # "off"
    <2>1. /\ DOMAIN store' = DOMAIN store \cup {CallKey} /\ store'[CallKey] = text
          /\ \A k \in DOMAIN store : k # CallKey => store'[k] = store[k]
        BY <1>2, <1>5
    <2>2. Moves
        <3> SUFFICES ASSUME NEW k \in DOMAIN store, k = CallKey, ~Refreshing
                     PROVE  FALSE
            BY <2>1 DEF Moves, Holds
        <3> QED
            BY <1>1, <1>5 DEF MustAsk, Refreshing
    <2>3. StoreOk'
        <3>1. StoreOk
            BY DEF CacheInv
        <3>2. IsFiniteSet(DOMAIN store')
            BY <2>1, <3>1, FS_AddElement DEF StoreOk
        <3>4. store' \in [DOMAIN store' -> Texts]
            BY <1>2, <1>5, <3>1 DEF StoreOk
        <3>3. ASSUME NEW k \in DOMAIN store'
              PROVE  /\ k = Key(k[1], k[2], k[3])
                     /\ k[1].kind \in Kinds
                     /\ k[2] = 1 => k[3] = NoQuote
                     /\ k[1].kind = "person_nl_response" => k[1] = AnswerPrompt(k[1].bidder)
            <4>1. CASE k = CallKey
                BY <1>1, <4>1, CallKeyIs
            <4>2. CASE k # CallKey
                BY <2>1, <3>1, <4>2 DEF StoreOk
            <4> QED
                BY <4>1, <4>2
        <3> QED
            BY <3>2, <3>3, <3>4 DEF StoreOk
    <2> QED
        BY <1>1, <1>2, <1>3, <1>5, <2>1, <2>2, <2>3 DEF Holds, Cached
<1> QED
    BY <1>4, <1>5

\* No caller of the elicitation evicts but the person and the bulk valuation.
LEMMA EvictingAre ==
    /\ Evicting = {"provisional_valuations", "person_nl_response"}
    /\ Evicting \subseteq ElicitKinds
    /\ \A kind \in Evicting : kind \notin ReadingKinds \cup MapKinds \cup QueryKinds
BY DEF Evicting, ElicitKinds, ReadingKinds, MapKinds, QueryKinds

\* A response that is turned down goes, if its caller evicts.
LEMMA TurnDownEvicts ==
    ASSUME CacheInv, NEW c, NEW complaint, NEW k, TurnDown(c, complaint), c.request.kind \in Kinds,
           Cached /\ c.request.kind \in Evicting =>
                /\ lastKey[c.request.kind] = k /\ k \in DOMAIN store /\ k[1].kind \in Evicting
                /\ store[k] \in Bad \/ Unvouched(k)
    PROVE  /\ StoreOk' /\ Moves
           /\ ~(Cached /\ c.request.kind \in Evicting) => store' = store
           /\ Cached /\ c.request.kind \in Evicting =>
                store' = [l \in DOMAIN store \ {k} |-> store[l]]
<1> DEFINE kind == c.request.kind
<1>1. store' = Evicted(kind)
    BY DEF TurnDown
<1>2. CASE kind \notin Evicting
    BY <1>1, <1>2, StoreSame DEF Evicted
<1>3. CASE kind \in Evicting /\ ~Cached
    <2>1. lastKey[kind] = NoKey
        BY <1>3 DEF CacheInv, SessionOk, Cached, NoKeys
    <2>2. NoKey \notin DOMAIN store
        BY KeyParts DEF CacheInv, StoreOk
    <2>3. DOMAIN store \ {lastKey[kind]} = DOMAIN store
        BY <2>1, <2>2
    <2>4. store = [l \in DOMAIN store |-> store[l]]
        BY DEF CacheInv, StoreOk
    <2>5. store' = store
        BY <1>1, <1>3, <2>3, <2>4 DEF Evicted, Restrict
    <2> QED
        BY <1>3, <2>5, StoreSame
<1>4. CASE kind \in Evicting /\ Cached
    <2>1. store' = [l \in DOMAIN store \ {k} |-> store[l]]
        BY <1>1, <1>4 DEF Evicted, Restrict
    <2>2. StoreOk'
        <3>1. StoreOk
            BY DEF CacheInv
        <3>2. DOMAIN store' \subseteq DOMAIN store /\ \A l \in DOMAIN store' : store'[l] = store[l]
            BY <2>1
        <3>3. IsFiniteSet(DOMAIN store')
            BY <3>1, <3>2, FS_Subset DEF StoreOk
        <3>4. store' \in [DOMAIN store' -> Texts]
            BY <2>1, <3>1 DEF StoreOk
        <3> QED
            BY <3>1, <3>2, <3>3, <3>4 DEF StoreOk
    <2>3. Moves
        BY <1>4, <2>1 DEF Moves, Holds
    <2> QED
        BY <1>4, <2>1, <2>2, <2>3
<1> QED
    BY <1>2, <1>3, <1>4

\* At most one response is in hand.
LEMMA InHandIs ==
    ASSUME CacheInv
    PROVE  /\ InHand = {} \/ InHand = {CallKey} \/ InHand = {HeldKey}
           /\ call # NoCall /\ Kind \in QueryKinds \cup MapKinds => InHand = {}
           /\ call # NoCall /\ call.stage = "ask" /\ Kind \in Evicting => InHand = {}
           /\ call # NoCall /\ Kind \in ReadingKinds /\ Cached => InHand = {HeldKey}
           /\ call.stage = "parse" /\ Kind \in Evicting /\ Cached => InHand = {CallKey}
<1>1. InHand = {} \/ InHand = {CallKey} \/ InHand = {HeldKey}
    BY DEF InHand
<1>2. ASSUME call # NoCall, Kind \in QueryKinds \cup MapKinds
      PROVE  InHand = {}
    <2>1. Kind \notin Evicting
        BY <1>2, EvictingAre
    <2>2. task.stage \notin {"extract", "entail"}
        <3>1. CASE Kind \in QueryKinds
            BY <1>2, <3>1, CallIs, StagesAre
        <3>2. CASE Kind \in MapKinds
            BY <1>2, <3>2, CallIs DEF StageOf, MapKinds, QueryKinds
        <3> QED
            BY <1>2, <3>1, <3>2
    <2> QED
        BY <2>1, <2>2 DEF InHand
<1>3. ASSUME call # NoCall, Kind \in Evicting
      PROVE  task.stage \in {"answer", "value"}
    BY <1>3, CallIs DEF StageOf, Evicting, QueryKinds
<1>4. ASSUME call # NoCall, call.stage = "ask", Kind \in Evicting
      PROVE  InHand = {}
    BY <1>3, <1>4 DEF InHand
<1>5. ASSUME call # NoCall, Kind \in ReadingKinds, Cached
      PROVE  InHand = {HeldKey}
    <2>1. Kind \notin Evicting
        BY <1>5, EvictingAre
    <2>2. task.stage \in {"extract", "entail"}
        BY <1>5, CallIs DEF StageOf, ReadingKinds, QueryKinds
    <2> QED
        BY <1>5, <2>1, <2>2 DEF InHand
<1>6. ASSUME call.stage = "parse", Kind \in Evicting, Cached
      PROVE  InHand = {CallKey}
    BY <1>6 DEF InHand
<1> QED
    BY <1>1, <1>2, <1>4, <1>5, <1>6

\* No further rejected response is left behind.
LEMMA NoMoreLeft ==
    ASSUME CacheInv, Left' \subseteq Left, UNCHANGED <<crashes, failures>>
    PROVE  FewLeft'
<1>1. IsFiniteSet(Left) /\ Cardinality(Left) \in Nat
    BY FS_Subset, FS_CardinalityType DEF CacheInv, StoreOk, Left
<1>2. Cardinality(Left') <= Cardinality(Left) /\ Cardinality(Left') \in Nat
    BY <1>1, FS_Subset, FS_CardinalityType
<1>3. crashes \in Nat /\ failures \in Nat /\ Cardinality(Left) <= crashes + failures
    BY DEF CacheInv, FewLeft
<1> HIDE DEF Left
<1> QED
    BY <1>1, <1>2, <1>3 DEF FewLeft

\* The response in hand is left behind by a kill or a failed call.
LEMMA OneMoreLeft ==
    ASSUME CacheInv, Left' \subseteq Left \cup InHand, crashes' \in Nat, failures' \in Nat,
           crashes' + failures' = crashes + failures + 1
    PROVE  FewLeft'
<1>1. IsFiniteSet(Left) /\ Cardinality(Left) \in Nat
    BY FS_Subset, FS_CardinalityType DEF CacheInv, StoreOk, Left
<1>2. PICK x : InHand \subseteq {x}
    BY InHandIs
<1> HIDE DEF Left, InHand
<1> DEFINE more == Left \cup {x}
<1>3. IsFiniteSet(more) /\ (Cardinality(more) = Cardinality(Left)
                             \/ Cardinality(more) = Cardinality(Left) + 1)
    BY <1>1, FS_AddElement
<1>4. Left' \subseteq more
    BY <1>2
<1> HIDE DEF more
<1>5. Cardinality(Left') <= Cardinality(more) /\ Cardinality(Left') \in Nat
      /\ Cardinality(more) \in Nat
    BY <1>3, <1>4, FS_Subset, FS_CardinalityType
<1>6. crashes \in Nat /\ failures \in Nat /\ Cardinality(Left) <= crashes + failures
    BY DEF CacheInv, FewLeft
<1> DEFINE c == Cardinality(Left)
           d == Cardinality(Left')
           m == Cardinality(more)
<1>7. /\ c \in Nat /\ d \in Nat /\ m \in Nat /\ (m = c \/ m = c + 1) /\ d <= m
      /\ c <= crashes + failures /\ crashes \in Nat /\ failures \in Nat
    BY <1>1, <1>3, <1>5, <1>6
<1> HIDE DEF c, d, m
<1>8. d <= crashes + failures + 1
    BY <1>7
<1>9. Cardinality(Left') <= crashes' + failures'
    BY <1>8 DEF d
<1> QED
    BY <1>9 DEF FewLeft

\* What is left when the store is left alone: what was in hand may be.
LEMMA LeftOf ==
    ASSUME CacheInv, store' = store
    PROVE  /\ Left' \subseteq Left \cup InHand
           /\ (\A k \in InHand \ InHand' : k \in DOMAIN store => ~IsRejected(store, k))
                 => Left' \subseteq Left
<1> SUFFICES ASSUME NEW k \in Left'
             PROVE  k \in DOMAIN store /\ IsRejected(store, k) /\ k \notin InHand'
    BY DEF Left
<1> QED
    BY DEF Left, IsRejected, TurnedDownBy

\* An evicted response is not left, and no other becomes one that is rejected.
LEMMA LeftEvicted ==
    ASSUME CacheInv, NEW k, k[1].kind \in Evicting, InHand \subseteq {k},
           store' = [l \in DOMAIN store \ {k} |-> store[l]]
    PROVE  Left' \subseteq Left
<1> SUFFICES ASSUME NEW l \in Left'
             PROVE  l \in Left
    OBVIOUS
<1>1. l \in DOMAIN store' /\ IsRejected(store', l)
    BY DEF Left, IsRejected, TurnedDownBy
<1>2. l \in DOMAIN store /\ l # k /\ store'[l] = store[l]
    BY <1>1
<1>3. ASSUME TurnedDownBy(store', l[1].bidder, store'[l], 1)
      PROVE  TurnedDownBy(store, l[1].bidder, store[l], 1)
    <2> DEFINE e == FirstKey(ExtractionPrompt(l[1].bidder, store[l], 1))
    <2>1. e \in DOMAIN store' /\ (store'[e] \in Good =>
             ~Discloses(Extraction[store'[e]], Truth[l[1].bidder], Items))
        BY <1>2, <1>3 DEF TurnedDownBy
    <2> HIDE DEF e
    <2>2. e \in DOMAIN store /\ store'[e] = store[e]
        BY <2>1
    <2> QED
        BY <2>1, <2>2 DEF TurnedDownBy, e
<1>4. IsRejected(store, l)
    BY <1>1, <1>2, <1>3 DEF IsRejected
<1> QED
    BY <1>2, <1>4 DEF Left

\* A response to the call in progress is in hand if it is one that may be rejected,
\* and turns down no answer but the one in hand.
LEMMA LeftAsked ==
    ASSUME CacheInv, NEW texts \in SUBSET Texts, AskProvider(texts), UNCHANGED <<task, mode>>
    PROVE  Left' \subseteq Left
<1>1. /\ call # NoCall /\ call.stage = "ask" /\ Returned(call'.text)
      /\ Cached => /\ Holds(store', CallKey, call'.text)
                   /\ \A k \in DOMAIN store' :
                         k # CallKey => k \in DOMAIN store /\ store'[k] = store[k]
      /\ ~Cached => store' = store
    BY AskStores
<1>2. call'.stage = "parse" /\ Kind' = Kind /\ CallKey' = CallKey /\ HeldKey' = HeldKey
      /\ (Cached <=> Cached')
    BY <1>1 DEF Returned, Kind, CallKey, HeldKey, Cached
<1>3. InHand \subseteq InHand'
    <2>1. CASE Kind \in Evicting
        BY <1>1, <2>1, InHandIs
    <2>2. CASE Kind \notin Evicting
        BY <1>2, <2>2 DEF InHand
    <2> QED
        BY <2>1, <2>2
<1>4. CASE ~Cached
    BY <1>1, <1>3, <1>4, LeftOf
<1>5. CASE Cached
    <2> SUFFICES ASSUME NEW l \in Left'
                 PROVE  l \in Left
        OBVIOUS
    <2>1. l \in DOMAIN store' /\ IsRejected(store', l) /\ l \notin InHand'
        BY DEF Left, IsRejected, TurnedDownBy
    <2>2. l # CallKey
        <3> SUFFICES ASSUME l = CallKey PROVE FALSE
            OBVIOUS
        <3>1. l[1].kind = Kind
            BY <1>1, CallKeyIs
        <3>2. Kind \in Evicting
            BY <2>1, <3>1 DEF IsRejected
        <3>3. CallKey \in InHand'
            BY <1>2, <1>5, <3>2 DEF InHand
        <3> QED
            BY <2>1, <3>3
    <2>3. l \in DOMAIN store /\ store'[l] = store[l]
        BY <1>1, <1>5, <2>1, <2>2
    <2>4. ASSUME l[1].kind = "person_nl_response", l[2] = 1,
                 TurnedDownBy(store', l[1].bidder, store'[l], 1)
          PROVE  TurnedDownBy(store, l[1].bidder, store[l], 1)
        <3> DEFINE r == ExtractionPrompt(l[1].bidder, store[l], 1)
                   e == FirstKey(r)
        <3>1. e \in DOMAIN store' /\ (store'[e] \in Good =>
                 ~Discloses(Extraction[store'[e]], Truth[l[1].bidder], Items))
            BY <2>3, <2>4 DEF TurnedDownBy
        <3>2. ASSUME e = CallKey
              PROVE  FALSE
            <4>1. call.request = r
                BY <1>1, <3>2, CallKeyIs, KeyParts DEF FirstKey
            <4>2. Kind = "person_answer_semantic_extraction"
                BY <4>1, PromptsAre DEF Kind
            <4>3. task.stage = "extract" /\ call.request = Wanted
                BY <1>1, <4>2, CallIs DEF StageOf, QueryKinds
            <4>4. r = ExtractionPrompt(Bidder, task.held.text, task.held.attempt)
                BY <4>1, <4>3, WantedIs
            <4>5. l[1].bidder = Bidder /\ task.held.attempt = 1
                BY <4>4 DEF ExtractionPrompt, Prompt
            <4>6. task.held.request = AnswerPrompt(Bidder) /\ task.held.quoted = NoQuote
                BY <4>3, <4>5 DEF CacheInv, HeldOk
            <4>7. l = Key(l[1], l[2], l[3]) /\ l[3] = NoQuote /\ l[1] = AnswerPrompt(l[1].bidder)
                BY <2>3, <2>4 DEF CacheInv, StoreOk
            <4>8. l = HeldKey
                BY <2>4, <4>5, <4>6, <4>7 DEF HeldKey
            <4>9. Kind \notin Evicting
                BY <4>2 DEF Evicting
            <4>10. l \in InHand'
                BY <1>2, <1>5, <4>3, <4>8, <4>9 DEF InHand
            <4> QED
                BY <2>1, <4>10
        <3> HIDE DEF e
        <3>3. e \in DOMAIN store /\ store'[e] = store[e]
            BY <1>1, <1>5, <3>1, <3>2
        <3> QED
            BY <3>1, <3>3 DEF TurnedDownBy, e
    <2>5. IsRejected(store, l)
        BY <2>1, <2>3, <2>4 DEF IsRejected
    <2> QED
        BY <1>3, <2>1, <2>3, <2>5 DEF Left
<1> QED
    BY <1>4, <1>5
-----------------------------------------------------------------------------
(* What becomes of the bidder that is being elicited.                      *)

\* No entry is all right.
LEMMA NoEntriesOk == \A db : EntriesOk(db, NoEntry)
BY DEF EntriesOk, NoEntry

\* Between calls, and between bidders, nothing is in hand.
Idles ==
    /\ CallOk' /\ TaskOk' /\ HeldOk' /\ IdleOk' /\ InHand' = {}

\* A step that ends with no call and no bidder keeps what is said of both.
LEMMA IdlesWhen ==
    ASSUME call' = NoCall, task' \in {Idle, Failed, Returns}
    PROVE  Idles
<1>1. call'.stage = "idle" /\ task'.stage \in {"idle", "failed", "returned"} /\ ~Working'
    BY DEF NoCall, Idle, Failed, Returns, Working
<1>2. CallOk' /\ IdleOk'
    BY DEF CallOk, IdleOk
<1>3. TaskOk' /\ HeldOk'
    BY <1>1 DEF TaskOk, HeldOk
<1>4. InHand' = {}
    BY <1>1 DEF InHand
<1> QED
    BY <1>2, <1>3, <1>4 DEF Idles

\* What is settled stays so.
LEMMA SettledStays ==
    ASSUME Framed, DOMAIN settled' \subseteq DOMAIN settled,
           \A r \in DOMAIN settled' : settled'[r] = settled[r]
    PROVE  SettledIn(store, settled)'
<1> SUFFICES ASSUME NEW r \in DOMAIN settled'
             PROVE  /\ r.kind \notin Evicting => Answered(store', r, settled'[r].text)
                    /\ r.kind \in Evicting /\ settled'[r].attempt = 1 => First(store', r, settled'[r].text)
                    /\ r.kind = "person_nl_response" =>
                          /\ r = AnswerPrompt(r.bidder)
                          /\ settled'[r].attempt = 1 => VouchedBy(store', r.bidder, settled'[r].text, 1)
    BY DEF SettledIn
<1> QED
    BY DEF Framed, SettledIn

\* What a step makes of the bidder and the entries.
Outcome == Idles /\ EntriesOk(store, entries)' /\ EntriesOk(store, done)'

\* An exception leaves the elicitation: its entries are lost.
LEMMA RaisesKeeps ==
    ASSUME Framed, Raises, call' = NoCall
    PROVE  Outcome
BY IdlesWhen, NoEntriesOk DEF Framed, Raises, Outcome

\* The entry that a finished bidder leaves.
EntryOf(t) ==
    [answer |-> t.answer, map |-> t.map, values |-> t.values, plan |-> t.plan, kept |-> t.kept]

\* The entry of a bidder joins the others; the next bidder is taken up.
LEMMA CompletesKeeps ==
    ASSUME CacheInv, Framed, Working, mode' = mode, call' = NoCall,
           NEW t, Completes(t), t.pos = task.pos,
           EntryKept(store', Bidder, EntryOf(t)), EntryShape(EntryOf(t))
    PROVE  Outcome
<1> DEFINE all == [b \in DOMAIN entries \cup {Bidder} |->
                      IF b = Bidder THEN EntryOf(t) ELSE entries[b]]
<1>1. entries' = all
    BY DEF Completes, EntryOf
<1>2. EntriesOk(store', all)
    <2> SUFFICES ASSUME NEW b \in DOMAIN all
                 PROVE  EntryKept(store', b, all[b]) /\ EntryShape(all[b])
        BY DEF EntriesOk
    <2>1. CASE b = Bidder
        BY <2>1
    <2>2. CASE b # Bidder
        BY <2>2 DEF Framed, EntriesOk
    <2> QED
        BY <2>1, <2>2
<1>3. EntriesOk(store, entries)'
    BY <1>1, <1>2
<1>4. CASE t.pos = Len(Bidders)
    <2>1. task' = Returns /\ done' = all
        BY <1>4 DEF Completes, EntryOf
    <2>2. EntriesOk(store, done)'
        BY <1>2, <2>1
    <2> QED
        BY <1>3, <2>1, <2>2, IdlesWhen DEF Outcome
<1>5. CASE t.pos # Len(Bidders)
    <2>1. task' = TakeUp(t.pos + 1, t.plan) /\ done' = done
        BY <1>5 DEF Completes, EntryOf
    <2>2. EntriesOk(store, done)'
        BY <2>1 DEF Framed
    <2>3. /\ task.pos \in 1..Len(Bidders) /\ Len(Bidders) \in Nat
          /\ DOMAIN entries = {Bidders[i] : i \in 1..task.pos - 1}
          /\ mode = "refresh" => done = NoEntry
        BY BiddersAre DEF CacheInv, TaskOk
    <2>4. task'.pos = task.pos + 1 /\ task'.pos \in 1..Len(Bidders) /\ task'.pos - 1 = task.pos
        BY <1>5, <2>1, <2>3 DEF TakeUp
    <2>5. DOMAIN entries' = {Bidders[i] : i \in 1..task'.pos - 1}
        <3>1. 1..task.pos = (1..task.pos - 1) \cup {task.pos}
            BY <2>3
        <3>2. DOMAIN entries' = {Bidders[i] : i \in 1..task.pos - 1} \cup {Bidders[task.pos]}
            BY <1>1, <2>3 DEF Bidder
        <3>3. DOMAIN entries' = {Bidders[i] : i \in 1..task.pos}
            BY <3>1, <3>2
        <3> QED
            BY <2>4, <3>3
    <2>6. /\ task'.stage = IF t.plan.disclosed = NoText THEN "answer" ELSE "map"
          /\ task'.plan = t.plan /\ task'.kept = (mode # "off") /\ DOMAIN task'.values = {}
          /\ DOMAIN task' = Fields
        BY <2>1 DEF TakeUp, Fields
    <2>7. TaskKept(store)'
        <3>1. task'.stage = "map" => AnswerKept(store', Bidder', task'.plan, task'.answer)
            BY <2>6 DEF AnswerKept
        <3> QED
            BY <2>6, <3>1 DEF TaskKept
    <2>8. TaskOk'
        BY <2>1, <2>3, <2>4, <2>5, <2>6, <2>7 DEF TaskOk, Cached
    <2>9. CallOk' /\ HeldOk' /\ IdleOk' /\ InHand' = {}
        BY <2>6 DEF CallOk, HeldOk, IdleOk, InHand, NoCall, Working
    <2> QED
        BY <1>3, <2>2, <2>8, <2>9 DEF Outcome, Idles
<1> QED
    BY <1>4, <1>5

\* The candidates of a map are cut into chunks, the first of which comes next.
LEMMA HasMapKeeps ==
    ASSUME CacheInv, Framed, Working, mode' = mode, call' = NoCall,
           NEW t, HasMap(t), DOMAIN t = Fields, t.pos = task.pos,
           t.kept \in BOOLEAN, t.kept => Cached, DOMAIN t.values = {}, NormalForm(t.map, Items),
           t.kept => /\ AnswerKept(store', Bidder, t.plan, t.answer)
                     /\ MapKept(store', Bidder, t.answer, t.plan.policy, t.map)
    PROVE  Outcome
<1> DEFINE chunks == AllChunks(t.map)
<1>0. HasMap(t) <=> IF chunks = <<>> THEN Completes(t)
                    ELSE /\ task' = [t EXCEPT !.stage = "value", !.chunks = chunks]
                         /\ UNCHANGED <<entries, done>>
    BY DEF HasMap, AllChunks, Candidates
<1>1. CandidatesAre(Candidates(t.map), t.map, MaxCandidates) /\ ChunksAre(chunks, Candidates(t.map))
    BY ChunksOfMap
<1>2. CASE chunks = <<>>
    <2>1. Candidates(t.map) = <<>> /\ ToSet(Candidates(t.map)) = {} /\ ToSet(chunks) = {}
        BY <1>1, <1>2 DEF ChunksAre, ToSet
    <2>2. EntryShape(EntryOf(t))
        BY <2>1 DEF EntryShape, EntryOf
    <2>3. EntryKept(store', Bidder, EntryOf(t))
        BY <2>1 DEF EntryKept, EntryOf, ValuesKept
    <2> QED
        BY <1>0, <1>2, <2>2, <2>3, CompletesKeeps
<1>3. CASE chunks # <<>>
    <2>1. task' = [t EXCEPT !.stage = "value", !.chunks = chunks] /\ UNCHANGED <<entries, done>>
        BY <1>0, <1>3
    <2> HIDE DEF chunks
    <2>2. /\ DOMAIN task' = Fields /\ task'.stage = "value" /\ task'.chunks = chunks
          /\ task'.pos = task.pos /\ task'.kept = t.kept /\ task'.map = t.map
          /\ task'.values = t.values /\ task'.plan = t.plan /\ task'.answer = t.answer
        BY <2>1 DEF Fields
    <2>3. Bidder' = Bidder
        BY <2>2 DEF Bidder
    <2>4. AllChunks(task'.map) = chunks
        BY <2>2 DEF chunks
    <2>5. Len(chunks) \in Nat \ {0} /\ SubSeq(chunks, 1, Len(chunks)) = chunks
        <3> DEFINE S == Seq(ToSet(Candidates(t.map)))
        <3>1. chunks \in Seq(S)
            BY <1>1 DEF ChunksAre
        <3> HIDE DEF S
        <3> QED
            BY <1>3, <3>1, SubSeqFull
    <2>6. Past' = 0
        BY <2>2, <2>4, <2>5 DEF Past
    <2>7. Valued' = {}
        BY <2>6 DEF Valued
    <2>8. ChunksOk'
        BY <2>2, <2>4, <2>5, <2>6, <2>7 DEF ChunksOk
    <2>9. t.kept => TaskKept(store)'
        BY <2>2, <2>3, <2>7 DEF TaskKept, ValuesKept
    <2>10. TaskOk'
        BY <2>1, <2>2, <2>8, <2>9 DEF CacheInv, TaskOk, Cached
    <2>11. CallOk' /\ HeldOk' /\ IdleOk' /\ InHand' = {}
        BY <2>2 DEF CallOk, HeldOk, IdleOk, InHand, NoCall, Working
    <2>12. EntriesOk(store, entries)' /\ EntriesOk(store, done)'
        BY <2>1 DEF Framed
    <2> QED
        BY <2>10, <2>11, <2>12 DEF Outcome, Idles
<1> QED
    BY <1>2, <1>3
-----------------------------------------------------------------------------
(* The sessions.                                                           *)

\* A session starts, ends or is killed: what was stored, settled and returned stays.
LEMMA SessionsKeep ==
    ASSUME CacheInv, Starts \/ Ends \/ Dies
    PROVE  CacheInv'
<1>1. /\ store' = store /\ settled' = settled /\ done' = done /\ entries' = NoEntry
      /\ task' = Idle /\ call' = NoCall
    BY DEF Starts, Ends, Dies, StartSession, EndSession, Crash, Forgets, CacheInv, SessionOk
<1>2. StoreOk' /\ Moves
    BY <1>1, StoreSame
<1>3. Framed
    BY <1>2, FrameStays
<1>4. SettledIn(store, settled)' /\ Idles
    BY <1>1, <1>3, SettledStays, IdlesWhen
<1>5. EntriesOk(store, entries)' /\ EntriesOk(store, done)'
    BY <1>1, <1>3, NoEntriesOk DEF Framed
<1>6. SessionOk'
    <2>1. DOMAIN NoKeys = Evicting
        BY DEF NoKeys
    <2> QED
        BY <1>1, <2>1 DEF Starts, Ends, Dies, StartSession, EndSession, Crash, CacheInv, SessionOk
<1>7. FewLeft'
    <2>1. CASE Dies
        <3>1. crashes' = crashes + 1 /\ failures' = failures
            BY <2>1 DEF Dies, Crash
        <3>2. crashes' \in Nat /\ failures' \in Nat /\ crashes' + failures' = crashes + failures + 1
            BY <3>1 DEF CacheInv, FewLeft
        <3>3. Left' \subseteq Left \cup InHand
            BY <1>1, LeftOf
        <3> QED
            BY <3>2, <3>3, OneMoreLeft
    <2>2. CASE Starts \/ Ends
        <3>1. UNCHANGED <<crashes, failures>>
            BY <2>2 DEF Starts, Ends, StartSession, EndSession, mishaps
        <3>2. call = NoCall /\ ~Working
            BY <2>2, StagesAre DEF Starts, Ends, StartSession, EndSession, CacheInv, SessionOk
        <3>3. InHand = {}
            BY <3>2, StagesAre DEF InHand, Working
        <3>4. Left' \subseteq Left
            BY <1>1, <3>3, LeftOf
        <3> QED
            BY <3>1, <3>4, NoMoreLeft
    <2> QED
        BY <2>1, <2>2
<1> QED
    BY <1>2, <1>4, <1>5, <1>6, <1>7 DEF CacheInv, Idles

\* The elicitation of a case starts with the first bidder.
LEMMA StartElicitationKeeps ==
    ASSUME CacheInv, StartElicitation
    PROVE  CacheInv'
<1>1. /\ store' = store /\ settled' = settled /\ entries' = NoEntry /\ call' = call
      /\ mode' = mode /\ lastKey' = lastKey /\ mode # "none" /\ task = Idle
      /\ UNCHANGED <<crashes, failures>>
      /\ done' = IF mode = "refresh" THEN NoEntry ELSE done
    BY DEF StartElicitation, cacheVars, mishaps
<1>2. PICK plan \in Plans : task' = TakeUp(1, plan)
    BY DEF StartElicitation
<1>3. call = NoCall
    <2>1. ~Working /\ task # Returns
        BY <1>1, StagesAre DEF Idle, Returns
    <2> QED
        BY <2>1 DEF CacheInv, CallOk
<1>4. /\ task'.stage = IF plan.disclosed = NoText THEN "answer" ELSE "map"
      /\ task'.plan = plan /\ task'.kept = (mode # "off") /\ DOMAIN task'.values = {}
      /\ DOMAIN task' = Fields /\ task'.pos = 1
    BY <1>2 DEF TakeUp, Fields
<1>5. StoreOk' /\ Moves
    BY <1>1, StoreSame
<1>6. Framed
    BY <1>5, FrameStays
<1>7. SettledIn(store, settled)' /\ EntriesOk(store, entries)' /\ EntriesOk(store, done)'
    BY <1>1, <1>6, SettledStays, NoEntriesOk DEF Framed
<1>8. SessionOk'
    BY <1>1 DEF CacheInv, SessionOk
<1>9. TaskKept(store)'
    <2>1. task'.stage = "map" => AnswerKept(store', Bidder', task'.plan, task'.answer)
        BY <1>4 DEF AnswerKept
    <2> QED
        BY <1>4, <2>1 DEF TaskKept
<1>10. TaskOk'
    <2>1. 1 \in 1..Len(Bidders) /\ 1..1 - 1 = {}
        BY BiddersAre
    <2>2. DOMAIN entries' = {Bidders[i] : i \in 1..task'.pos - 1}
        BY <1>1, <1>4, <2>1 DEF NoEntry
    <2> QED
        BY <1>1, <1>3, <1>4, <1>9, <2>1, <2>2 DEF TaskOk, Cached
<1>11. CallOk' /\ HeldOk' /\ IdleOk' /\ InHand' = {}
    BY <1>1, <1>3, <1>4, StagesAre DEF CallOk, HeldOk, IdleOk, InHand, Working
<1>12. InHand = {}
    BY <1>1, <1>3, StagesAre DEF InHand
<1>13. FewLeft'
    BY <1>1, <1>12, LeftOf, NoMoreLeft
<1> QED
    BY <1>5, <1>7, <1>8, <1>10, <1>11, <1>13 DEF CacheInv

-----------------------------------------------------------------------------
(* A call is begun and returns.                                            *)

\* What the task says stays when only the call moves.
TaskStays ==
    /\ UNCHANGED <<elicitVars, mode>>
    /\ Wanted' = Wanted /\ Bidder' = Bidder /\ (Working' <=> Working) /\ HeldKey' = HeldKey
    /\ EntriesOk(store, entries)' /\ EntriesOk(store, done)' /\ IdleOk'
    /\ Working /\ task.kept => TaskKept(store)'
    /\ Working /\ task.stage = "value" => ChunksOk'

\* A step within a call keeps what is said of the bidder.
LEMMA TaskStaysWhen ==
    ASSUME CacheInv, Framed, UNCHANGED <<elicitVars, mode>>
    PROVE  TaskStays
<1>1. task' = task /\ entries' = entries /\ done' = done
    BY DEF elicitVars
<1>2. Wanted' = Wanted /\ Bidder' = Bidder /\ (Working' <=> Working) /\ HeldKey' = HeldKey
    BY <1>1 DEF Wanted, Bidder, Working, HeldKey
<1>3. EntriesOk(store, entries)' /\ EntriesOk(store, done)' /\ IdleOk'
    BY <1>1, <1>2 DEF CacheInv, IdleOk, Framed
<1>4. Past' = Past /\ Valued' = Valued
    BY <1>1 DEF Past, Valued
<1>5. Working /\ task.kept => TaskKept(store)'
    BY <1>1, <1>2, <1>4 DEF Framed, TaskKept
<1>6. Working /\ task.stage = "value" => ChunksOk'
    BY <1>1, <1>4 DEF CacheInv, TaskOk, ChunksOk
<1> QED
    BY <1>2, <1>3, <1>5, <1>6 DEF TaskStays

\* A caller starts a call.
LEMMA BeginKeeps ==
    ASSUME CacheInv, UNCHANGED elicitVars, NEW r, Begin(r),
           (Working /\ r = Wanted) \/ (task = Returns /\ r \in Requests)
    PROVE  CacheInv'
<1>1. /\ mode # "none" /\ call = NoCall /\ store' = store /\ mode' = mode /\ lastKey' = lastKey
      /\ call' = [stage |-> "ask", request |-> r, attempt |-> 1, quoted |-> NoQuote]
      /\ settled' = IF mode = "refresh" THEN Restrict(settled, DOMAIN settled \ {r}) ELSE settled
      /\ UNCHANGED <<crashes, failures>>
    BY DEF Begin, mishaps
<1>2. StoreOk' /\ Moves
    BY <1>1, StoreSame
<1>3. Framed
    BY <1>2, FrameStays
<1>4. TaskStays
    BY <1>1, <1>3, TaskStaysWhen
<1>5. SettledIn(store, settled)' /\ DOMAIN settled' \subseteq DOMAIN settled
    <2>1. DOMAIN settled' \subseteq DOMAIN settled /\ \A s \in DOMAIN settled' : settled'[s] = settled[s]
        BY <1>1 DEF Restrict
    <2> QED
        BY <1>3, <2>1, SettledStays
<1>6. SessionOk'
    BY <1>1 DEF CacheInv, SessionOk
<1>7. CallOk'
    <2>1. /\ call'.stage = "ask" /\ call'.request = r /\ call'.attempt = 1 /\ call'.quoted = NoQuote
        BY <1>1
    <2>2. (Working' /\ r = Wanted') \/ (task' = Returns /\ r \in Requests)
        BY <1>4 DEF TaskStays, elicitVars
    <2>3. 1 \in 1..Attempts(r.kind) /\ NoQuote \in Quotes
        BY AttemptsAre, QuotesAre
    <2>4. Trail(store', r, 1, NoQuote)
        BY TrailBegins
    <2>5. mode' = "refresh" => r \notin DOMAIN settled'
        BY <1>1 DEF Restrict
    <2>6. Kind' = r.kind
        BY <2>1 DEF Kind
    <2> QED
        BY <2>1, <2>2, <2>3, <2>4, <2>5, <2>6 DEF CallOk
<1>8. HeldOk'
    BY <1>1, <1>4, <1>5 DEF CacheInv, HeldOk, TaskStays, elicitVars, Cached
<1>9. TaskOk'
    BY <1>1, <1>4 DEF CacheInv, TaskOk, TaskStays, elicitVars, Cached
<1>10. InHand' = InHand
    BY <1>1, <1>4, StagesAre DEF InHand, TaskStays, elicitVars, Cached
<1>11. FewLeft'
    BY <1>1, <1>10, LeftOf, NoMoreLeft
<1> QED
    BY <1>2, <1>4, <1>5, <1>6, <1>7, <1>8, <1>9, <1>11 DEF CacheInv, TaskStays

\* A response reaches the caller.
LEMMA ReturnedKeeps ==
    ASSUME CacheInv, Framed, StoreOk', FewLeft', UNCHANGED <<elicitVars, mode, settled>>,
           call # NoCall, call.stage = "ask", NEW text \in Texts, Returned(text),
           Cached => Holds(store', CallKey, text),
           Cached /\ Kind \notin Evicting => Trail(store', call.request, call.attempt, call.quoted),
           \A k : Holds(store, k, task.held.text) /\ k[1].kind \in Evicting /\ k # CallKey
                    => Holds(store', k, task.held.text),
           task.stage = "entail" /\ Cached =>
                ReadAs(store', Bidder, task.held.text, task.held.attempt, task.extraction)
    PROVE  CacheInv'
<1>1. TaskStays
    BY TaskStaysWhen
<1>2. SettledIn(store, settled)'
    BY SettledStays
<1>3. /\ call' = [stage |-> "parse", request |-> call.request, attempt |-> call.attempt,
                  quoted |-> call.quoted, text |-> text]
      /\ lastKey' = IF mode # "off" /\ Kind \in Evicting
                    THEN [lastKey EXCEPT ![Kind] = CallKey] ELSE lastKey
    BY DEF Returned, Kind
<1>4. /\ call'.stage = "parse" /\ call'.request = call.request /\ call'.attempt = call.attempt
      /\ call'.quoted = call.quoted /\ call'.text = text /\ Kind' = Kind /\ CallKey' = CallKey
    BY <1>3 DEF Kind, CallKey
<1>5. DOMAIN lastKey = Evicting
    BY DEF CacheInv, SessionOk
<1>6. SessionOk'
    BY <1>3, <1>5, StagesAre DEF CacheInv, SessionOk
<1>7. CallOk'
    BY <1>1, <1>3, <1>4, <1>5 DEF CacheInv, CallOk, TaskStays, elicitVars, Cached
<1>8. HeldOk'
    <2> SUFFICES ASSUME task.stage \in {"extract", "entail"}
                 PROVE  HeldOk'
        BY <1>1 DEF HeldOk, TaskStays, elicitVars
    <2>1. Kind \in ReadingKinds
        BY CallIs, StagesAre DEF ReadingKinds, QueryKinds, Working, StageOf, Kinds
    <2>2. lastKey' = lastKey
        BY <1>3, <2>1, EvictingAre
    <2>3. Cached => Holds(store', HeldKey, task.held.text)
        <3>1. HeldKey[1].kind \in Evicting /\ HeldKey # CallKey
            <4>1. HeldKey[1] = AnswerPrompt(Bidder)
                BY KeyParts DEF HeldKey, CacheInv, HeldOk
            <4>2. HeldKey[1].kind = "person_nl_response"
                BY <4>1, PromptsAre
            <4> QED
                BY <2>1, <4>2, CallKeyIs DEF Evicting, ReadingKinds
        <3> QED
            BY <3>1 DEF CacheInv, HeldOk
    <2> QED
        BY <1>1, <2>2, <2>3 DEF CacheInv, HeldOk, TaskStays, elicitVars, Cached
<1>9. TaskOk'
    BY <1>1, <1>4, StagesAre DEF CacheInv, TaskOk, TaskStays, elicitVars, Cached
<1> QED
    BY <1>1, <1>2, <1>6, <1>7, <1>8, <1>9 DEF CacheInv, TaskStays

\* What of the verified answer a step outlasts: it, and its reading.
LEMMA HeldStays ==
    ASSUME CacheInv, call # NoCall, Moves, Cached,
           \A k \in DOMAIN store : k # CallKey => Holds(store', k, store[k])
    PROVE  /\ \A k : Holds(store, k, task.held.text) /\ k[1].kind \in Evicting /\ k # CallKey
                    => Holds(store', k, task.held.text)
           /\ task.stage = "entail" =>
                ReadAs(store', Bidder, task.held.text, task.held.attempt, task.extraction)
<1>1. ASSUME task.stage = "entail"
      PROVE  ReadAs(store', Bidder, task.held.text, task.held.attempt, task.extraction)
    <2> DEFINE r == ExtractionPrompt(Bidder, task.held.text, task.held.attempt)
    <2>1. ReadAs(store, Bidder, task.held.text, task.held.attempt, task.extraction)
        BY <1>1 DEF CacheInv, HeldOk
    <2>2. Kind # "person_answer_semantic_extraction"
        BY <1>1, CallIs, StagesAre DEF StageOf, QueryKinds, Working
    <2>3. FirstKey(r) # CallKey
        BY <2>2, PromptsAre, KeyParts, CallKeyIs DEF FirstKey
    <2> HIDE DEF r
    <2>4. First(store, r, task.extraction) => First(store', r, task.extraction)
        BY <2>3 DEF First, Holds
    <2> QED
        BY <2>1, <2>4 DEF ReadAs, r
<1> QED
    BY <1>1 DEF Holds

\* A cache hit.
LEMMA LooksUpKeeps ==
    ASSUME CacheInv, LooksUp
    PROVE  CacheInv'
<1>1. /\ call.stage = "ask" /\ call # NoCall /\ mode \in {"read-write", "read-only"}
      /\ CallKey \in DOMAIN store /\ Returned(store[CallKey]) /\ store' = store
      /\ UNCHANGED <<elicitVars, mode, settled>> /\ UNCHANGED <<crashes, failures>>
    BY StagesAre DEF LooksUp, Hit, mishaps
<1>2. StoreOk' /\ Moves
    BY <1>1, StoreSame
<1>3. Framed
    BY <1>2, FrameStays
<1>4. store[CallKey] \in Texts
    BY <1>1 DEF CacheInv, StoreOk
<1>5. /\ call'.stage = "parse" /\ Kind' = Kind /\ CallKey' = CallKey /\ HeldKey' = HeldKey
      /\ (Cached <=> Cached') /\ task' = task
    BY <1>1 DEF Returned, Kind, CallKey, HeldKey, Cached, elicitVars
<1>6. InHand \subseteq InHand'
    <2>1. CASE Kind \in Evicting
        BY <1>1, <2>1, InHandIs
    <2>2. CASE Kind \notin Evicting
        BY <1>5, <2>2 DEF InHand
    <2> QED
        BY <2>1, <2>2
<1>7. FewLeft'
    BY <1>1, <1>6, LeftOf, NoMoreLeft
<1>8. Cached /\ Kind \notin Evicting => Trail(store', call.request, call.attempt, call.quoted)
    BY <1>1 DEF CacheInv, CallOk
<1>9. Cached => Holds(store', CallKey, store[CallKey])
    BY <1>1 DEF Holds
<1>10. /\ \A k : Holds(store, k, task.held.text) => Holds(store', k, task.held.text)
       /\ task.stage = "entail" /\ Cached =>
                ReadAs(store', Bidder, task.held.text, task.held.attempt, task.extraction)
    BY <1>1 DEF CacheInv, HeldOk
<1> QED
    BY <1>1, <1>2, <1>3, <1>4, <1>7, <1>8, <1>9, <1>10, ReturnedKeeps

\* A response of the provider, stored.
LEMMA AsksKeeps ==
    ASSUME CacheInv, Asks
    PROVE  CacheInv'
<1> DEFINE texts == Says(Kind) \cup (Bad \ DOMAIN RawMap)
<1>1. AskProvider(texts) /\ UNCHANGED <<elicitVars, mode, settled>>
      /\ UNCHANGED <<crashes, failures>> /\ task' = task
    BY DEF Asks, AskProvider, elicitVars
<1>2. texts \subseteq Texts
    BY ElicitationAssumption DEF Says, Texts
<1> HIDE DEF texts
<1>3. /\ StoreOk' /\ Moves
      /\ call # NoCall /\ call.stage = "ask"
      /\ call'.text \in Texts /\ Returned(call'.text)
      /\ Cached => /\ Holds(store', CallKey, call'.text)
                   /\ \A k \in DOMAIN store' :
                         k # CallKey => k \in DOMAIN store /\ store'[k] = store[k]
      /\ ~Cached => store' = store
    BY <1>1, <1>2, AskStores
<1>4. Framed
    BY <1>3, FrameStays
<1>5. Left' \subseteq Left
    BY <1>1, <1>2, LeftAsked
<1>6. FewLeft'
    BY <1>1, <1>5, NoMoreLeft
<1>7. Cached => \A k \in DOMAIN store : k # CallKey => Holds(store', k, store[k])
    BY <1>1 DEF AskProvider, Cached, Holds
<1>8. Cached /\ Kind \notin Evicting => Trail(store', call.request, call.attempt, call.quoted)
    <2>1. call.attempt \notin 1..call.attempt - 1 /\ call.attempt \in Nat
        BY <1>3, CallKeyIs
    <2> QED
        BY <1>3, <2>1, TrailStays DEF CacheInv, CallOk, Kind
<1>9. /\ \A k : Holds(store, k, task.held.text) /\ k[1].kind \in Evicting /\ k # CallKey
                    => Holds(store', k, task.held.text)
      /\ task.stage = "entail" /\ Cached =>
                ReadAs(store', Bidder, task.held.text, task.held.attempt, task.extraction)
    BY <1>3, <1>7, HeldStays
<1> QED
    BY <1>1, <1>3, <1>4, <1>6, <1>8, <1>9, ReturnedKeeps

\* A call of an elicitation or of an auction starts.
LEMMA CallsKeep ==
    ASSUME CacheInv, Calls \/ Queries
    PROVE  CacheInv'
BY BeginKeeps DEF Calls, Queries

-----------------------------------------------------------------------------
(* The elicitation goes on after a call.                                   *)

\* A call that is over: the sessions go on, and what is settled stays.
LEMMA OverKeeps ==
    ASSUME CacheInv, call # NoCall, Framed, StoreOk', FewLeft', Outcome,
           UNCHANGED <<mode, settled>>, DOMAIN lastKey' = Evicting,
           mode = "off" => lastKey' = NoKeys
    PROVE  CacheInv'
<1>1. mode # "none"
    BY DEF CacheInv, SessionOk
<1>2. SessionOk'
    BY <1>1 DEF CacheInv, SessionOk
<1>3. SettledIn(store, settled)'
    BY SettledStays
<1> QED
    BY <1>2, <1>3 DEF CacheInv, Outcome, Idles

\* What the map and its kept answer are while it is audited.
LEMMA AuditingIs ==
    ASSUME CacheInv, Working, task.stage = "audit", NEW m \in SUBSET task.map.complements
    PROVE  /\ [task EXCEPT !.map.complements = m].map = [task.map EXCEPT !.complements = m]
           /\ NormalForm([task.map EXCEPT !.complements = m], Items)
<1>1. /\ DOMAIN task = Fields /\ NormalForm(task.map, Items)
      /\ DOMAIN task.map = {"interested", "excluded", "complements", "substitutes"}
    BY DEF CacheInv, TaskOk
<1> DEFINE new == [task.map EXCEPT !.complements = m]
<1>2. /\ new.complements = m /\ new.interested = task.map.interested
      /\ new.excluded = task.map.excluded /\ new.substitutes = task.map.substitutes
    BY <1>1
<1>3. [task EXCEPT !.map.complements = m].map = new
    BY <1>1 DEF Fields
<1> HIDE DEF new
<1> QED
    BY <1>1, <1>2, <1>3, AuditedForm DEF new

\* The audit leaves a part of the complementary groups.
LEMMA AuditKeeps ==
    ASSUME CacheInv, Framed, call' = NoCall, mode' = mode, Working, task.stage = "audit",
           NEW m \in SUBSET task.map.complements, NEW kept \in BOOLEAN, NEW t,
           t = [task EXCEPT !.map.complements = m, !.kept = kept], HasMap(t),
           kept => /\ task.kept
                   /\ \E a \in Texts :
                         /\ Holds(store', FirstKey(AuditPrompt(Bidder, task.answer, task.map)), a)
                         /\ m = task.map.complements \cap IF a \in Good THEN Entailed[a] ELSE {}
    PROVE  Outcome
<1> DEFINE map == [task.map EXCEPT !.complements = m]
<1>1. /\ DOMAIN task = Fields /\ (task.kept => Cached) /\ DOMAIN task.values = {}
    BY DEF CacheInv, TaskOk
<1>2. /\ DOMAIN t = Fields /\ t.pos = task.pos /\ t.kept = kept /\ t.values = task.values
      /\ t.plan = task.plan /\ t.answer = task.answer
    BY <1>1 DEF Fields
<1>3. t.map = map
    BY <1>1 DEF Fields
<1>4. NormalForm(map, Items)
    BY AuditingIs
<1> HIDE DEF map
<1>5. ASSUME kept
      PROVE  /\ AnswerKept(store', Bidder, t.plan, t.answer)
             /\ MapKept(store', Bidder, t.answer, t.plan.policy, t.map)
    <2>1. TaskKept(store')
        BY <1>5 DEF Framed
    <2>2. PICK said : Answered(store', MapPrompt(Bidder, task.answer), said) /\ task.map = ReadMap(said)
        BY <2>1 DEF TaskKept
    <2>3. PICK a \in Texts :
             /\ Holds(store', FirstKey(AuditPrompt(Bidder, task.answer, task.map)), a)
             /\ m = task.map.complements \cap IF a \in Good THEN Entailed[a] ELSE {}
        BY <1>5
    <2>4. map = Retained(task.map, a)
        BY <2>3 DEF map, Retained
    <2>5. MapKept(store', Bidder, task.answer, task.plan.policy, map)
        BY <2>2, <2>3, <2>4 DEF MapKept
    <2> QED
        BY <1>2, <1>3, <2>1, <2>5 DEF TaskKept
<1> QED
    BY <1>1, <1>2, <1>3, <1>4, <1>5, HasMapKeeps

\* The valuation fails.
LEMMA UnvaluedKeeps ==
    ASSUME CacheInv, Framed, call' = NoCall, mode' = mode, Working, task.stage = "value", Unvalued
    PROVE  Outcome
<1> DEFINE t == [task EXCEPT !.kept = FALSE, !.values =
                    [b \in ToSet(Candidates(task.map)) |-> NoText]]
<1>1. DOMAIN task = Fields /\ NormalForm(task.map, Items)
    BY DEF CacheInv, TaskOk
<1>2. CASE Raises
    BY <1>2, RaisesKeeps
<1>3. CASE Completes(t)
    <2>1. /\ t.pos = task.pos /\ t.kept = FALSE /\ t.map = task.map
          /\ DOMAIN t.values = ToSet(Candidates(task.map))
        BY <1>1 DEF Fields
    <2> HIDE DEF t
    <2>2. EntryShape(EntryOf(t)) /\ EntryKept(store', Bidder, EntryOf(t))
        BY <1>1, <2>1 DEF EntryShape, EntryKept, EntryOf
    <2> QED
        BY <1>3, <2>1, <2>2, CompletesKeeps
<1> QED
    BY <1>2, <1>3 DEF Unvalued, Candidates

\* The answer in hand is not rejected as long as nothing stored turns it down.
LEMMA HeldIsNotRejected ==
    ASSUME CacheInv, Cached, task.stage \in {"extract", "entail"},
           \/ FirstKey(ExtractionPrompt(Bidder, task.held.text, task.held.attempt)) \notin DOMAIN store
           \/ \E t : ReadAs(store, Bidder, task.held.text, task.held.attempt, t)
    PROVE  ~IsRejected(store, HeldKey)
<1>1. /\ task.held.request = AnswerPrompt(Bidder) /\ task.held.text \in Good
      /\ HeldKey \in DOMAIN store /\ store[HeldKey] = task.held.text
    BY DEF CacheInv, HeldOk, Holds
<1>2. /\ HeldKey[1] = AnswerPrompt(Bidder) /\ HeldKey[1].bidder = Bidder
      /\ HeldKey[2] = task.held.attempt
    BY <1>1, KeyParts, PromptsAre DEF HeldKey
<1>3. store[HeldKey] \notin Bad
    BY <1>1, CacheAssumption
<1>4. task.held.attempt = 1 => ~TurnedDownBy(store, Bidder, task.held.text, 1)
    BY CacheAssumption DEF TurnedDownBy, ReadAs, First, Holds
<1> QED
    BY <1>1, <1>2, <1>3, <1>4 DEF IsRejected

\* A call is given up.
LEMMA GivesUpKeeps ==
    ASSUME CacheInv, GivesUp
    PROVE  CacheInv'
<1>1. /\ call.stage = "ask" /\ call # NoCall /\ call' = NoCall /\ store' = store
      /\ UNCHANGED <<mode, settled, lastKey>> /\ crashes' = crashes
    BY StagesAre DEF GivesUp, Miss, ProviderFails, mishaps
<1>2. StoreOk' /\ Moves
    BY <1>1, StoreSame
<1>3. Framed
    BY <1>2, FrameStays
<1>4. Outcome
    <2>1. CASE Kind = "interest_map_complement_entailment"
        <3>1. Unaudited(FALSE) /\ Working /\ task.stage = "audit"
            BY <1>1, <2>1, CallIs DEF GivesUp, StageOf, QueryKinds
        <3>2. HasMap([task EXCEPT !.map.complements = {}, !.kept = @ /\ FALSE])
            BY <3>1 DEF Unaudited
        <3>3. [task EXCEPT !.map.complements = {}, !.kept = @ /\ FALSE]
                = [task EXCEPT !.map.complements = {}, !.kept = FALSE]
            OBVIOUS
        <3>4. HasMap([task EXCEPT !.map.complements = {}, !.kept = FALSE])
            BY <3>2, <3>3
        <3> QED
            BY <1>1, <1>3, <3>1, <3>4, AuditKeeps
    <2>2. CASE Kind = "provisional_valuations"
        <3>1. Unvalued /\ Working /\ task.stage = "value"
            BY <1>1, <2>2, CallIs DEF GivesUp, StageOf, QueryKinds
        <3> QED
            BY <1>1, <1>3, <3>1, UnvaluedKeeps
    <2>3. CASE Kind \in {"value_query", "demand_query"}
        <3>1. UNCHANGED elicitVars /\ task = Returns
            BY <1>1, <2>3, CallIs DEF GivesUp, QueryKinds
        <3>2. task' = Returns /\ entries' = entries /\ done' = done
            BY <3>1 DEF elicitVars
        <3> QED
            BY <1>1, <1>3, <3>2, IdlesWhen DEF Outcome, Framed
    <2>4. CASE Kind \notin {"interest_map_complement_entailment", "provisional_valuations",
                            "value_query", "demand_query"}
        <3>1. Raises
            BY <2>4 DEF GivesUp
        <3> QED
            BY <1>1, <1>3, <3>1, RaisesKeeps
    <2> QED
        BY <2>1, <2>2, <2>3, <2>4
<1>5. FewLeft'
    <2>1. CASE ProviderFails
        <3>1. failures' = failures + 1
            BY <2>1 DEF ProviderFails
        <3>2. crashes' \in Nat /\ failures' \in Nat /\ crashes' + failures' = crashes + failures + 1
            BY <1>1, <3>1 DEF CacheInv, FewLeft
        <3> QED
            BY <1>1, <3>2, LeftOf, OneMoreLeft
    <2>2. CASE Miss
        <3>1. CallKey \notin DOMAIN store /\ Cached /\ UNCHANGED <<crashes, failures>>
            BY <2>2 DEF Miss, Cached, mishaps
        <3>2. ASSUME Kind \in ReadingKinds
              PROVE  InHand = {HeldKey} /\ ~IsRejected(store, HeldKey)
            <4>1. InHand = {HeldKey}
                BY <1>1, <3>1, <3>2, InHandIs
            <4>2. Attempts(Kind) = 1
                BY <3>2, AttemptsAre DEF ReadingKinds
            <4>3. CASE Kind = "person_answer_semantic_extraction"
                <5>1. task.stage = "extract" /\ call.request = Wanted
                    BY <1>1, <4>3, CallIs DEF StageOf, QueryKinds
                <5>2. CallKey = FirstKey(ExtractionPrompt(Bidder, task.held.text, task.held.attempt))
                    BY <1>1, <4>2, <5>1, CallKeyIs, WantedIs
                <5> QED
                    BY <3>1, <4>1, <5>1, <5>2, HeldIsNotRejected
            <4>4. CASE Kind = "person_answer_substitute_entailment"
                <5>1. task.stage = "entail"
                    BY <1>1, <4>4, CallIs DEF StageOf, QueryKinds
                <5>2. ReadAs(store, Bidder, task.held.text, task.held.attempt, task.extraction)
                    BY <3>1, <5>1 DEF CacheInv, HeldOk
                <5> QED
                    BY <3>1, <4>1, <5>1, <5>2, HeldIsNotRejected
            <4> QED
                BY <3>2, <4>3, <4>4 DEF ReadingKinds
        <3>3. Kind \in ReadingKinds \/ InHand = {}
            <4>1. Kind \in ReadingKinds \cup QueryKinds \cup MapKinds \cup Evicting
                BY <1>1, CallIs DEF Kinds, ReadingKinds, QueryKinds, MapKinds, Evicting
            <4> QED
                BY <1>1, <4>1, InHandIs
        <3>4. Left' \subseteq Left
            BY <1>1, <3>2, <3>3, LeftOf
        <3> QED
            BY <3>1, <3>4, NoMoreLeft
    <2> QED
        BY <2>1, <2>2 DEF GivesUp
<1>6. DOMAIN lastKey' = Evicting /\ (mode = "off" => lastKey' = NoKeys)
    BY <1>1 DEF CacheInv, SessionOk
<1> QED
    BY <1>1, <1>2, <1>3, <1>4, <1>5, <1>6, OverKeeps

\* A response that does not parse: it is evicted if its caller evicts, and not left.
LEMMA RejectLeaves ==
    ASSUME CacheInv, Reject, Kind \notin ReadingKinds
    PROVE  /\ call # NoCall /\ call.stage = "parse" /\ call.text \in Bad
           /\ UNCHANGED <<mode, settled>> /\ UNCHANGED <<crashes, failures>>
           /\ StoreOk' /\ Moves /\ Framed /\ FewLeft'
           /\ Kind \notin Evicting => store' = store
           /\ DOMAIN lastKey' = Evicting /\ (mode = "off" => lastKey' = NoKeys)
           /\ call' = IF call.attempt >= Attempts(Kind) THEN NoCall
                      ELSE [stage |-> "ask", request |-> call.request, attempt |-> call.attempt + 1,
                            quoted |-> QuotedNext(Kind, <<call.text>>)]
<1>1. /\ call.stage = "parse" /\ call # NoCall /\ call.text \in Bad /\ TurnDown(call, <<call.text>>)
      /\ UNCHANGED <<mode, settled>> /\ UNCHANGED <<crashes, failures>>
    BY StagesAre DEF Reject, mishaps
<1>2. Cached => /\ CallKey \in DOMAIN store /\ store[CallKey] = call.text
                /\ (Kind \in Evicting => lastKey[Kind] = CallKey)
    BY <1>1 DEF CacheInv, CallOk, Holds
<1>3. /\ StoreOk' /\ Moves
      /\ ~(Cached /\ Kind \in Evicting) => store' = store
      /\ Cached /\ Kind \in Evicting =>
            store' = [l \in DOMAIN store \ {CallKey} |-> store[l]]
    BY <1>1, <1>2, CallKeyIs, TurnDownEvicts DEF Kind
<1>4. Framed
    BY <1>3, FrameStays
<1>5. Left' \subseteq Left
    <2>1. CASE Cached /\ Kind \in Evicting
        <3>1. InHand = {CallKey} /\ CallKey[1].kind \in Evicting
            BY <1>1, <2>1, InHandIs, CallKeyIs
        <3> QED
            BY <1>3, <2>1, <3>1, LeftEvicted
    <2>2. CASE ~(Cached /\ Kind \in Evicting)
        <3>1. Kind \in QueryKinds \cup MapKinds \cup Evicting
            BY <1>1, CallIs DEF Kinds, ReadingKinds, QueryKinds, MapKinds, Evicting
        <3>2. InHand = {}
            BY <1>1, <2>2, <3>1, InHandIs DEF InHand
        <3> QED
            BY <1>3, <2>2, <3>2, LeftOf
    <2> QED
        BY <2>1, <2>2
<1>6. FewLeft'
    BY <1>1, <1>5, NoMoreLeft
<1>7. /\ lastKey' = IF Kind \in Evicting THEN [lastKey EXCEPT ![Kind] = NoKey] ELSE lastKey
      /\ call' = IF call.attempt >= Attempts(Kind) THEN NoCall
                 ELSE [stage |-> "ask", request |-> call.request, attempt |-> call.attempt + 1,
                       quoted |-> QuotedNext(Kind, <<call.text>>)]
    BY <1>1 DEF TurnDown, Kind
<1>8. DOMAIN lastKey' = Evicting /\ (mode = "off" => lastKey' = NoKeys)
    BY <1>7 DEF CacheInv, SessionOk, NoKeys
<1> QED
    BY <1>1, <1>3, <1>4, <1>6, <1>7, <1>8

\* Its retry asks where the replay is.
LEMMA RetryIs ==
    ASSUME CacheInv, Reject, Kind \notin ReadingKinds, call' # NoCall,
           \/ Working /\ Working' /\ Wanted' = Wanted
           \/ task = Returns /\ task' = Returns
    PROVE  CallOk' /\ call'.stage = "ask" /\ Kind' = Kind
<1>1. /\ call # NoCall /\ call.stage = "parse" /\ call.text \in Bad
      /\ UNCHANGED <<mode, settled>>
      /\ Kind \notin Evicting => store' = store
      /\ call' = IF call.attempt >= Attempts(Kind) THEN NoCall
                 ELSE [stage |-> "ask", request |-> call.request, attempt |-> call.attempt + 1,
                       quoted |-> QuotedNext(Kind, <<call.text>>)]
    BY RejectLeaves
<1>2. /\ ~(call.attempt >= Attempts(Kind))
      /\ call'.stage = "ask" /\ call'.request = call.request /\ call'.attempt = call.attempt + 1
      /\ call'.quoted = QuotedNext(Kind, <<call.text>>) /\ Kind' = Kind
    BY <1>1 DEF Kind
<1>3. call.attempt \in Nat \ {0} /\ Attempts(Kind) \in Nat
    BY <1>1, CallKeyIs, AttemptsAre
<1>4. call'.attempt \in 1..Attempts(Kind) /\ call'.attempt # 1
    BY <1>2, <1>3
<1>5. call'.quoted \in Quotes
    BY <1>1, <1>2, QuotesAre
<1>6. ASSUME Cached, Kind \notin Evicting
      PROVE  Trail(store', call'.request, call'.attempt, call'.quoted)
    <2>1. /\ Trail(store, call.request, call.attempt, call.quoted)
          /\ Holds(store, Key(call.request, call.attempt, call.quoted), call.text)
        BY <1>1, <1>6 DEF CacheInv, CallOk, CallKey
    <2> QED
        BY <1>1, <1>2, <1>3, <1>6, <2>1, TrailGoesOn DEF Kind
<1>7. /\ (Working' /\ call'.request = Wanted') \/ (task' = Returns /\ call'.request \in Requests)
      /\ mode' = "refresh" => call'.request \notin DOMAIN settled'
    <2>1. (Working /\ call.request = Wanted) \/ (task = Returns /\ call.request \in Requests)
        BY <1>1 DEF CacheInv, CallOk
    <2>2. ~(Working /\ task = Returns)
        BY StagesAre
    <2>3. mode = "refresh" => call.request \notin DOMAIN settled
        BY <1>1 DEF CacheInv, CallOk
    <2> QED
        BY <1>1, <1>2, <2>1, <2>2, <2>3
<1> QED
    BY <1>1, <1>2, <1>4, <1>5, <1>6, <1>7 DEF CallOk, Cached

\* A retry that leaves the task alone.
LEMMA RetryKeeps ==
    ASSUME CacheInv, Reject, Kind \notin ReadingKinds \cup {"person_nl_response"}, call' # NoCall,
           UNCHANGED elicitVars
    PROVE  CacheInv'
<1>1. /\ call # NoCall /\ UNCHANGED <<mode, settled>>
      /\ StoreOk' /\ Framed /\ FewLeft'
      /\ DOMAIN lastKey' = Evicting /\ (mode = "off" => lastKey' = NoKeys)
    BY RejectLeaves
<1>2. TaskStays
    BY <1>1, TaskStaysWhen
<1>3. task' = task /\ entries' = entries /\ done' = done
    BY DEF elicitVars
<1>4. \/ Working /\ Working' /\ Wanted' = Wanted
      \/ task = Returns /\ task' = Returns
    BY <1>1, <1>2, <1>3 DEF CacheInv, CallOk, TaskStays
<1>5. CallOk'
    BY <1>4, RetryIs
<1>6. task.stage \notin {"answer", "extract", "entail"}
    BY <1>1, CallIs, StagesAre DEF StageOf, QueryKinds, ReadingKinds, Working, Kinds
<1>7. HeldOk' /\ TaskOk'
    BY <1>1, <1>2, <1>3, <1>6 DEF CacheInv, TaskOk, HeldOk, TaskStays, Cached
<1>8. SessionOk'
    BY <1>1, StagesAre, <1>3 DEF CacheInv, SessionOk
<1>9. SettledIn(store, settled)'
    BY <1>1, SettledStays
<1> QED
    BY <1>1, <1>2, <1>5, <1>7, <1>8, <1>9 DEF CacheInv, TaskStays

\* What a caller that keeps its retries, or answers at once, takes is settled.
LEMMA AcceptSettles ==
    ASSUME CacheInv, Framed, store' = store, mode' = mode, call # NoCall, call.stage = "parse",
           call.text \in Good, settled' = Settled(call), Kind # "person_nl_response"
    PROVE  /\ SettledIn(store, settled)'
           /\ Cached /\ Kind \notin Evicting => Answered(store, call.request, call.text)
           /\ Cached /\ call.attempt = 1 => First(store, call.request, call.text)
<1>1. Cached => Holds(store, CallKey, call.text)
    BY DEF CacheInv, CallOk
<1>2. ASSUME Cached, Kind \notin Evicting
      PROVE  Answered(store, call.request, call.text)
    <2>1. /\ call.attempt \in 1..Attempts(Kind) /\ call.quoted \in Quotes
          /\ Trail(store, call.request, call.attempt, call.quoted)
        BY <1>2 DEF CacheInv, CallOk
    <2> QED
        BY <1>1, <1>2, <2>1 DEF Answered, Kind, CallKey
<1>3. ASSUME Cached, call.attempt = 1
      PROVE  First(store, call.request, call.text)
    <2>1. call.quoted = NoQuote
        BY <1>3 DEF CacheInv, CallOk
    <2> QED
        BY <1>1, <1>3, <2>1 DEF First, FirstKey, CallKey
<1>4. SettledIn(store, settled)'
    <2>1. CASE ~Cached
        <3>1. settled' = settled
            BY <2>1 DEF Settled, Cached
        <3> QED
            BY <3>1, SettledStays
    <2>2. CASE Cached
        <3>1. /\ DOMAIN settled' = DOMAIN settled \cup {call.request}
              /\ settled'[call.request] = [text |-> call.text, attempt |-> call.attempt]
              /\ \A r \in DOMAIN settled : r # call.request => settled'[r] = settled[r]
            BY <2>2 DEF Settled, Cached
        <3> SUFFICES ASSUME NEW r \in DOMAIN settled'
                     PROVE  /\ r.kind \notin Evicting => Answered(store', r, settled'[r].text)
                            /\ r.kind \in Evicting /\ settled'[r].attempt = 1 => First(store', r, settled'[r].text)
                            /\ r.kind = "person_nl_response" =>
                                  /\ r = AnswerPrompt(r.bidder)
                                  /\ settled'[r].attempt = 1 => VouchedBy(store', r.bidder, settled'[r].text, 1)
            BY DEF SettledIn
        <3>2. CASE r = call.request
            BY <1>2, <1>3, <2>2, <3>1, <3>2 DEF Kind
        <3>3. CASE r # call.request
            BY <3>1, <3>3 DEF Framed, SettledIn
        <3> QED
            BY <3>2, <3>3
    <2> QED
        BY <2>1, <2>2
<1> QED
    BY <1>2, <1>3, <1>4

\* A call is over, whatever it settled.
LEMMA FinishedKeeps ==
    ASSUME CacheInv, call # NoCall, StoreOk', FewLeft', Outcome, SettledIn(store, settled)',
           mode' = mode, DOMAIN lastKey' = Evicting, mode = "off" => lastKey' = NoKeys
    PROVE  CacheInv'
<1>1. SessionOk'
    BY DEF CacheInv, SessionOk
<1> QED
    BY <1>1 DEF CacheInv, Outcome, Idles

\* A response of a caller of the elicitation is at hand.
LEMMA ParsingIs ==
    ASSUME CacheInv, NEW kind \in ElicitKinds, Parsing(kind)
    PROVE  /\ call # NoCall /\ call.stage = "parse" /\ Kind = kind /\ Working
           /\ task.stage = StageOf(kind) /\ call.request = Wanted /\ call.text \in Texts
           /\ mode # "none" /\ DOMAIN lastKey = Evicting /\ (mode = "off" => lastKey = NoKeys)
           /\ Cached => Holds(store, CallKey, call.text)
           /\ Attempts(kind) = 1 /\ Cached => Holds(store, FirstKey(call.request), call.text)
<1>1. call.stage = "parse" /\ call # NoCall /\ Kind = kind
    BY StagesAre DEF Parsing
<1>2. Kind \notin QueryKinds
    BY <1>1 DEF QueryKinds, ElicitKinds, ReadingKinds, MapKinds
<1>3. Working /\ task.stage = StageOf(kind) /\ call.request = Wanted
    BY <1>1, <1>2, CallIs
<1>4. call.text \in Texts /\ (Cached => Holds(store, CallKey, call.text))
    BY <1>1 DEF CacheInv, CallOk
<1>5. mode # "none" /\ DOMAIN lastKey = Evicting /\ (mode = "off" => lastKey = NoKeys)
    BY <1>1 DEF CacheInv, SessionOk
<1> QED
    BY <1>1, <1>3, <1>4, <1>5, CallKeyIs

\* A complete map is settled, or goes to the audit.
LEMMA MapTakenKeeps ==
    ASSUME CacheInv, MapTaken
    PROVE  CacheInv'
<1> DEFINE map == ReadMap(call.text)
           t == [task EXCEPT !.map = map]
<1>1. /\ call # NoCall /\ call.stage = "parse" /\ Kind = "interest_map" /\ Working
      /\ task.stage = "map" /\ call.request = MapPrompt(Bidder, task.answer)
      /\ DOMAIN lastKey = Evicting /\ (mode = "off" => lastKey = NoKeys)
    BY ParsingIs, WantedIs DEF MapTaken, ElicitKinds, MapKinds, StageOf
<1>2. /\ call.text \in Good /\ settled' = Settled(call) /\ call' = NoCall /\ store' = store
      /\ UNCHANGED <<mode, lastKey>> /\ UNCHANGED <<crashes, failures>>
    BY DEF MapTaken, Accept, mishaps
<1>3. IF map.complements = {} THEN HasMap(t)
      ELSE /\ task' = [task EXCEPT !.stage = "audit", !.map = map]
           /\ UNCHANGED <<entries, done>>
    BY DEF MapTaken, ReadMap
<1>4. /\ NormalForm(map, Items)
      /\ DOMAIN map = {"interested", "excluded", "complements", "substitutes"}
    <2>1. map = [interested |-> map.interested, excluded |-> map.excluded,
                 complements |-> map.complements, substitutes |-> map.substitutes]
        BY NormalMapIs DEF ReadMap
    <2> QED
        BY <2>1, NormalMapIs DEF ReadMap
<1>5. StoreOk' /\ Moves
    BY <1>2, StoreSame
<1>6. Framed
    BY <1>5, FrameStays
<1>7. Kind \notin Evicting
    BY <1>1 DEF Evicting
<1>8. SettledIn(store, settled)' /\ (Cached => Answered(store, call.request, call.text))
    BY <1>1, <1>2, <1>6, <1>7, AcceptSettles
<1>9. InHand = {}
    BY <1>1, InHandIs DEF MapKinds
<1>10. FewLeft'
    BY <1>2, <1>9, LeftOf, NoMoreLeft
<1>11. /\ DOMAIN task = Fields /\ task.kept \in BOOLEAN /\ (task.kept => Cached)
       /\ DOMAIN task.values = {}
       /\ task.kept => AnswerKept(store, Bidder, task.plan, task.answer)
    BY <1>1 DEF CacheInv, TaskOk, TaskKept
<1>12. CASE map.complements = {}
    <2>1. HasMap(t)
        BY <1>3, <1>12
    <2>2. /\ DOMAIN t = Fields /\ t.pos = task.pos /\ t.kept = task.kept /\ t.values = task.values
          /\ t.plan = task.plan /\ t.answer = task.answer /\ t.map = map
        BY <1>11 DEF Fields
    <2>3. Cached => MapKept(store, Bidder, task.answer, task.plan.policy, map)
        BY <1>1, <1>8, <1>12 DEF MapKept
    <2> HIDE DEF t, map
    <2>4. Outcome
        BY <1>1, <1>2, <1>4, <1>6, <1>11, <2>1, <2>2, <2>3, HasMapKeeps
    <2> QED
        BY <1>1, <1>2, <1>5, <1>8, <1>10, <2>4, FinishedKeeps
<1>13. CASE map.complements # {}
    <2>1. task' = [task EXCEPT !.stage = "audit", !.map = map] /\ UNCHANGED <<entries, done>>
        BY <1>3, <1>13
    <2>2. /\ DOMAIN task' = Fields /\ task'.stage = "audit" /\ task'.pos = task.pos
          /\ task'.kept = task.kept /\ task'.values = task.values /\ task'.map = map
          /\ task'.plan = task.plan /\ task'.answer = task.answer
        BY <1>11, <2>1 DEF Fields
    <2>3. Bidder' = Bidder
        BY <2>2 DEF Bidder
    <2>4. task.kept => TaskKept(store)'
        BY <1>1, <1>2, <1>8, <1>11, <2>2, <2>3 DEF TaskKept
    <2>5. TaskOk'
        BY <1>1, <1>2, <1>4, <1>11, <2>1, <2>2, <2>4 DEF CacheInv, TaskOk, Cached
    <2>6. CallOk' /\ HeldOk' /\ IdleOk' /\ InHand' = {}
        BY <1>2, <2>2, StagesAre DEF CallOk, HeldOk, IdleOk, InHand, Working
    <2>7. EntriesOk(store, entries)' /\ EntriesOk(store, done)'
        BY <1>6, <2>1 DEF Framed
    <2>8. Outcome
        BY <2>5, <2>6, <2>7 DEF Outcome, Idles
    <2> QED
        BY <1>1, <1>2, <1>5, <1>8, <1>10, <2>8, FinishedKeeps
<1> QED
    BY <1>12, <1>13

\* A map that does not parse: its caller asks again, raises, or takes everything.
LEMMA MapRejectedKeeps ==
    ASSUME CacheInv, MapRejected
    PROVE  CacheInv'
<1> DEFINE t == [task EXCEPT !.map = AllItems(Items)]
<1>1. /\ call # NoCall /\ call.stage = "parse" /\ Kind = "interest_map" /\ Working
      /\ task.stage = "map" /\ call.request = MapPrompt(Bidder, task.answer)
      /\ Reject /\ (Cached => Holds(store, CallKey, call.text))
    BY ParsingIs, WantedIs DEF MapRejected, ElicitKinds, MapKinds, StageOf
<1>2. Kind \notin Evicting /\ Kind \notin ReadingKinds \cup {"person_nl_response"}
    BY <1>1 DEF Evicting, ReadingKinds
<1>3. /\ call.text \in Bad /\ UNCHANGED <<mode, settled>> /\ StoreOk' /\ Framed /\ FewLeft'
      /\ store' = store /\ DOMAIN lastKey' = Evicting /\ (mode = "off" => lastKey' = NoKeys)
      /\ call' = IF call.attempt >= Attempts(Kind) THEN NoCall
                 ELSE [stage |-> "ask", request |-> call.request, attempt |-> call.attempt + 1,
                       quoted |-> QuotedNext(Kind, <<call.text>>)]
    BY <1>1, <1>2, RejectLeaves
<1>4. CASE call' # NoCall
    BY <1>1, <1>2, <1>4, RetryKeeps DEF MapRejected
<1>5. CASE call' = NoCall
    <2>1. Outcome
        <3>1. CASE task.plan.policy = "raise"
            BY <1>3, <1>5, <3>1, RaisesKeeps DEF MapRejected
        <3>2. CASE task.plan.policy # "raise"
            <4>1. HasMap(t)
                BY <1>5, <3>2 DEF MapRejected
            <4>2. /\ DOMAIN task = Fields /\ task.kept \in BOOLEAN /\ (task.kept => Cached)
                  /\ DOMAIN task.values = {}
                  /\ task.kept => AnswerKept(store, Bidder, task.plan, task.answer)
                BY <1>1 DEF CacheInv, TaskOk, TaskKept
            <4>3. /\ DOMAIN t = Fields /\ t.pos = task.pos /\ t.kept = task.kept
                  /\ t.values = task.values /\ t.plan = task.plan /\ t.answer = task.answer
                  /\ t.map = AllItems(Items)
                BY <4>2 DEF Fields
            <4>4. call.attempt = Attempts(Kind)
                <5>1. call.attempt >= Attempts(Kind)
                    BY <1>3, <1>5, StagesAre
                <5>2. call.attempt \in 1..Attempts(Kind) /\ Attempts(Kind) \in Nat
                    BY <1>1, AttemptsAre DEF CacheInv, CallOk
                <5> QED
                    BY <5>1, <5>2
            <4>5. Cached => Exhausted(store, MapPrompt(Bidder, task.answer))
                <5> SUFFICES ASSUME Cached
                             PROVE  Exhausted(store, call.request)
                    BY <1>1
                <5>1. call.quoted \in Quotes /\ Trail(store, call.request, call.attempt, call.quoted)
                    BY <1>1, <1>2 DEF CacheInv, CallOk
                <5> QED
                    BY <1>1, <1>3, <4>4, <5>1 DEF Exhausted, Holds, CallKey, Kind
            <4>6. Cached => MapKept(store, Bidder, task.answer, task.plan.policy, AllItems(Items))
                BY <3>2, <4>5 DEF MapKept
            <4> HIDE DEF t
            <4> QED
                BY <1>1, <1>3, <1>5, <4>1, <4>2, <4>3, <4>6, AllItemsForm, HasMapKeeps
        <3> QED
            BY <3>1, <3>2
    <2>2. SettledIn(store, settled)'
        BY <1>3, SettledStays
    <2> QED
        BY <1>1, <1>3, <2>1, <2>2, FinishedKeeps
<1> QED
    BY <1>4, <1>5

\* The audit is read, or not.
LEMMA AuditedKeeps ==
    ASSUME CacheInv, Audited
    PROVE  CacheInv'
<1>1. /\ call # NoCall /\ call.stage = "parse" /\ Working
      /\ Kind = "interest_map_complement_entailment" /\ call.text \in Texts
      /\ task.stage = "audit" /\ call.request = AuditPrompt(Bidder, task.answer, task.map)
      /\ DOMAIN lastKey = Evicting /\ (mode = "off" => lastKey = NoKeys)
      /\ Cached => Holds(store, FirstKey(call.request), call.text)
    BY ParsingIs, WantedIs, AttemptsAre DEF Audited, ElicitKinds, MapKinds, StageOf
<1>2. /\ call' = NoCall /\ store' = store /\ UNCHANGED <<mode, lastKey, settled>>
      /\ UNCHANGED <<crashes, failures>>
    BY DEF Audited, mishaps
<1>3. StoreOk' /\ Moves
    BY <1>2, StoreSame
<1>4. Framed
    BY <1>3, FrameStays
<1>5. InHand = {}
    BY <1>1, InHandIs DEF MapKinds
<1>6. FewLeft'
    BY <1>2, <1>5, LeftOf, NoMoreLeft
<1>7. DOMAIN task = Fields /\ task.kept \in BOOLEAN /\ (task.kept => Cached)
    BY <1>1 DEF CacheInv, TaskOk
<1>8. task.kept => Holds(store', FirstKey(AuditPrompt(Bidder, task.answer, task.map)), call.text)
    BY <1>1, <1>2, <1>7
<1>9. Outcome
    <2>1. CASE call.text \in Bad
        <3>1. HasMap([task EXCEPT !.map.complements = {}, !.kept = @ /\ TRUE])
            BY <2>1 DEF Audited, Unaudited
        <3>2. [task EXCEPT !.map.complements = {}, !.kept = @ /\ TRUE]
                = [task EXCEPT !.map.complements = {}, !.kept = task.kept]
            BY <1>7
        <3>3. HasMap([task EXCEPT !.map.complements = {}, !.kept = task.kept])
            BY <3>1, <3>2
        <3>4. call.text \notin Good
            BY <2>1, CacheAssumption
        <3> QED
            BY <1>1, <1>2, <1>4, <1>7, <1>8, <3>3, <3>4, AuditKeeps
    <2>2. CASE call.text \in Good
        <3> DEFINE m == task.map.complements \cap Entailed[call.text]
        <3>0. call.text \notin Bad
            BY <2>2, CacheAssumption
        <3>1. HasMap([task EXCEPT !.map.complements = @ \cap Entailed[call.text]])
            BY <3>0 DEF Audited
        <3>2. [task EXCEPT !.map.complements = @ \cap Entailed[call.text]]
                = [task EXCEPT !.map.complements = m, !.kept = task.kept]
            BY <1>7 DEF Fields
        <3>3. HasMap([task EXCEPT !.map.complements = m, !.kept = task.kept])
            BY <3>1, <3>2
        <3>4. m \subseteq task.map.complements
            OBVIOUS
        <3>5. m = task.map.complements \cap IF call.text \in Good THEN Entailed[call.text] ELSE {}
            BY <2>2
        <3> HIDE DEF m
        <3> QED
            BY <1>1, <1>2, <1>4, <1>7, <1>8, <3>3, <3>4, <3>5, AuditKeeps
    <2> QED
        BY <1>1, <2>1, <2>2 DEF Texts
<1> QED
    BY <1>1, <1>2, <1>3, <1>4, <1>6, <1>9, OverKeeps

\* An answer parses, and is held while it is verified.
LEMMA AnswerParsesKeeps ==
    ASSUME CacheInv, AnswerParses
    PROVE  CacheInv'
<1>1. /\ call # NoCall /\ call.stage = "parse" /\ Kind = "person_nl_response" /\ Working
      /\ task.stage = "answer" /\ call.request = AnswerPrompt(Bidder)
      /\ DOMAIN lastKey = Evicting /\ (mode = "off" => lastKey = NoKeys)
      /\ Cached => Holds(store, CallKey, call.text)
    BY ParsingIs, WantedIs DEF AnswerParses, ElicitKinds, StageOf
<1>2. /\ call.text \in Good /\ task' = [task EXCEPT !.stage = "extract", !.held = call]
      /\ call' = NoCall /\ store' = store
      /\ UNCHANGED <<mode, lastKey, settled, entries, done>> /\ UNCHANGED <<crashes, failures>>
    BY DEF AnswerParses, mishaps
<1>3. StoreOk' /\ Moves
    BY <1>2, StoreSame
<1>4. Framed
    BY <1>3, FrameStays
<1>5. /\ DOMAIN task = Fields
    BY <1>1 DEF CacheInv, TaskOk
<1>6. /\ DOMAIN task' = Fields /\ task'.stage = "extract" /\ task'.pos = task.pos
      /\ task'.kept = task.kept /\ task'.values = task.values /\ task'.held = call
      /\ task'.plan = task.plan
    BY <1>2, <1>5 DEF Fields
<1>7. Bidder' = Bidder /\ HeldKey' = CallKey
    BY <1>6 DEF Bidder, HeldKey, CallKey
<1>8. TaskOk'
    BY <1>1, <1>2, <1>6 DEF CacheInv, TaskOk, TaskKept, Cached
<1>9. HeldOk'
    <2>1. /\ call.attempt \in 1..Attempts("person_nl_response")
          /\ call.attempt = 1 => call.quoted = NoQuote
          /\ mode = "refresh" => AnswerPrompt(Bidder) \notin DOMAIN settled
          /\ Cached => lastKey["person_nl_response"] = CallKey
        BY <1>1 DEF CacheInv, CallOk, Evicting
    <2>2. task.kept => call.attempt = 1
        BY <1>1 DEF CacheInv, TaskOk
    <2> QED
        BY <1>1, <1>2, <1>6, <1>7, <2>1, <2>2 DEF HeldOk, Cached
<1>10. CallOk' /\ IdleOk'
    BY <1>2, <1>6 DEF CallOk, IdleOk, Working
<1>11. EntriesOk(store, entries)' /\ EntriesOk(store, done)'
    BY <1>2, <1>4 DEF Framed
<1>12. SettledIn(store, settled)'
    BY <1>2, <1>4, SettledStays
<1>13. SessionOk'
    BY <1>1, <1>2 DEF CacheInv, SessionOk
<1>14. FewLeft'
    <2>1. InHand \subseteq InHand'
        <3>1. CASE Cached
            <4>1. InHand = {CallKey}
                BY <1>1, <3>1, InHandIs DEF Evicting
            <4> QED
                BY <1>2, <1>6, <1>7, <3>1, <4>1, StagesAre DEF InHand, Cached
        <3>2. CASE ~Cached
            BY <3>2 DEF InHand
        <3> QED
            BY <3>1, <3>2
    <2> QED
        BY <1>2, <2>1, LeftOf, NoMoreLeft
<1> QED
    BY <1>3, <1>8, <1>9, <1>10, <1>11, <1>12, <1>13, <1>14 DEF CacheInv

\* The person is asked again, with what was in hand gone.
LEMMA AskedAgain ==
    ASSUME CacheInv, Framed, Working, task.stage \in {"answer", "extract", "entail"},
           mode' = mode, settled' = settled, mode = "refresh" => AnswerPrompt(Bidder) \notin DOMAIN settled,
           DOMAIN task' = Fields, task'.stage = "answer", task'.kept = FALSE,
           task'.pos = task.pos, task'.plan = task.plan, task'.values = task.values,
           NEW n \in Nat \ {0}, n + 1 <= Attempts("person_nl_response"), NEW q,
           call' = [stage |-> "ask", request |-> AnswerPrompt(Bidder), attempt |-> n + 1,
                    quoted |-> q],
           UNCHANGED <<entries, done>>
    PROVE  Outcome
<1>1. Bidder' = Bidder /\ Working' /\ Wanted' = AnswerPrompt(Bidder)
    BY DEF Bidder, Working, Wanted
<1>2. call'.stage = "ask" /\ call'.request = AnswerPrompt(Bidder) /\ call'.attempt = n + 1
    OBVIOUS
<1>3. Kind' = "person_nl_response" /\ Kind' \in Evicting
    BY <1>2, PromptsAre DEF Kind, Evicting
<1>4. n + 1 \in 1..Attempts("person_nl_response") /\ n + 1 # 1
    BY AttemptsAre
<1>5. CallOk'
    BY <1>1, <1>2, <1>3, <1>4 DEF CallOk
<1>6. HeldOk' /\ IdleOk' /\ InHand' = {}
    BY <1>1, <1>2 DEF HeldOk, IdleOk, InHand
<1>7. TaskOk'
    BY DEF CacheInv, TaskOk
<1>8. EntriesOk(store, entries)' /\ EntriesOk(store, done)'
    BY DEF Framed
<1> QED
    BY <1>5, <1>6, <1>7, <1>8 DEF Outcome, Idles

\* An answer does not parse.
LEMMA AnswerRejectedKeeps ==
    ASSUME CacheInv, AnswerRejected
    PROVE  CacheInv'
<1>1. /\ call # NoCall /\ call.stage = "parse" /\ Kind = "person_nl_response" /\ Working
      /\ task.stage = "answer" /\ call.request = AnswerPrompt(Bidder) /\ Reject
    BY ParsingIs, WantedIs DEF AnswerRejected, ElicitKinds, StageOf
<1>2. Kind \notin ReadingKinds
    BY <1>1 DEF ReadingKinds
<1>3. /\ UNCHANGED <<mode, settled>> /\ StoreOk' /\ Framed /\ FewLeft'
      /\ DOMAIN lastKey' = Evicting /\ (mode = "off" => lastKey' = NoKeys)
      /\ call' = IF call.attempt >= Attempts(Kind) THEN NoCall
                 ELSE [stage |-> "ask", request |-> call.request, attempt |-> call.attempt + 1,
                       quoted |-> QuotedNext(Kind, <<call.text>>)]
    BY <1>1, <1>2, RejectLeaves
<1>4. CASE call' = NoCall
    <2>1. Outcome
        BY <1>3, <1>4, RaisesKeeps DEF AnswerRejected
    <2> QED
        BY <1>1, <1>3, <2>1, OverKeeps
<1>5. CASE call' # NoCall
    <2>1. /\ task' = [task EXCEPT !.kept = FALSE] /\ UNCHANGED <<entries, done>>
          /\ ~(call.attempt >= Attempts(Kind))
        BY <1>3, <1>5 DEF AnswerRejected
    <2>2. DOMAIN task = Fields
        BY <1>1 DEF CacheInv, TaskOk
    <2>3. /\ DOMAIN task' = Fields /\ task'.stage = "answer" /\ task'.kept = FALSE
          /\ task'.pos = task.pos /\ task'.plan = task.plan /\ task'.values = task.values
        BY <1>1, <2>1, <2>2 DEF Fields
    <2>4. call.attempt \in Nat \ {0} /\ Attempts(Kind) \in Nat
        BY <1>1, CallKeyIs, AttemptsAre
    <2>5. call.attempt + 1 <= Attempts("person_nl_response")
        BY <1>1, <2>1, <2>4
    <2>6. call' = [stage |-> "ask", request |-> AnswerPrompt(Bidder), attempt |-> call.attempt + 1,
                   quoted |-> QuotedNext(Kind, <<call.text>>)]
        BY <1>1, <1>3, <2>1
    <2>7. mode = "refresh" => AnswerPrompt(Bidder) \notin DOMAIN settled
        BY <1>1 DEF CacheInv, CallOk
    <2>8. Outcome
        BY <1>1, <1>3, <2>1, <2>3, <2>4, <2>5, <2>6, <2>7, AskedAgain
    <2> QED
        BY <1>1, <1>3, <2>8, OverKeeps
<1> QED
    BY <1>4, <1>5

\* The verifier, or its second pass, has read the answer in hand.
LEMMA ReadingIs ==
    ASSUME CacheInv, call.stage = "parse", Kind \in ReadingKinds
    PROVE  /\ call # NoCall /\ Working /\ task.stage \in {"extract", "entail"}
           /\ task.held.request = AnswerPrompt(Bidder)
           /\ HeldKey[1] = AnswerPrompt(Bidder) /\ HeldKey[2] = task.held.attempt
           /\ HeldKey[1].kind = "person_nl_response"
           /\ mode # "none" /\ DOMAIN lastKey = Evicting /\ (mode = "off" => lastKey = NoKeys)
           /\ DOMAIN task = Fields
           /\ Cached => /\ HeldKey \in DOMAIN store /\ store[HeldKey] = task.held.text
                        /\ lastKey["person_nl_response"] = HeldKey
                        /\ InHand = {HeldKey}
           /\ ~Cached => InHand = {}
<1>1. call # NoCall /\ Kind \in ElicitKinds /\ Kind \notin QueryKinds
    BY StagesAre DEF ElicitKinds, ReadingKinds, QueryKinds
<1>2. Working /\ task.stage \in {"extract", "entail"}
    BY <1>1, CallIs DEF ReadingKinds, StageOf
<1>3. task.held.request = AnswerPrompt(Bidder)
      /\ (Cached => Holds(store, HeldKey, task.held.text) /\ lastKey["person_nl_response"] = HeldKey)
    BY <1>2 DEF CacheInv, HeldOk
<1>4. HeldKey[1] = AnswerPrompt(Bidder) /\ HeldKey[2] = task.held.attempt
    BY <1>3, KeyParts DEF HeldKey
<1>5. DOMAIN task = Fields
    BY <1>2 DEF CacheInv, TaskOk
<1>6. mode # "none" /\ DOMAIN lastKey = Evicting /\ (mode = "off" => lastKey = NoKeys)
    BY <1>1 DEF CacheInv, SessionOk
<1>7. (Cached => InHand = {HeldKey}) /\ (~Cached => InHand = {})
    BY <1>1, InHandIs DEF InHand
<1>8. AnswerPrompt(Bidder).kind = "person_nl_response"
    BY PromptsAre
<1> QED
    BY <1>1, <1>2, <1>3, <1>4, <1>5, <1>6, <1>7, <1>8 DEF Holds

\* The answer in hand is turned down.
LEMMA AnswerTurnedDownKeeps ==
    ASSUME CacheInv, call.stage = "parse", Kind \in ReadingKinds, NEW complaint,
           AnswerTurnedDown(complaint),
           Cached /\ task.held.attempt = 1 => ~VouchedBy(store, Bidder, task.held.text, 1)
    PROVE  CacheInv'
<1> DEFINE nl == "person_nl_response"
           complained == <<task.held.text, complaint>>
<1>1. /\ call # NoCall /\ Working /\ task.stage \in {"extract", "entail"}
      /\ task.held.request = AnswerPrompt(Bidder)
      /\ HeldKey[1] = AnswerPrompt(Bidder) /\ HeldKey[2] = task.held.attempt
      /\ HeldKey[1].kind = nl /\ DOMAIN task = Fields
      /\ DOMAIN lastKey = Evicting /\ (mode = "off" => lastKey = NoKeys)
      /\ Cached => /\ HeldKey \in DOMAIN store /\ store[HeldKey] = task.held.text
                   /\ lastKey[nl] = HeldKey /\ InHand = {HeldKey}
      /\ ~Cached => InHand = {}
    BY ReadingIs
<1>2. task.held.request.kind = nl /\ nl \in Evicting /\ nl \in Kinds
    BY <1>1, PromptsAre DEF Evicting, Kinds
<1>3. /\ TurnDown(task.held, complained) /\ UNCHANGED <<mode, settled>>
      /\ UNCHANGED <<crashes, failures>>
      /\ IF task.held.attempt >= Attempts(nl) THEN Raises
         ELSE /\ task' = [task EXCEPT !.stage = "answer", !.held = NoCall,
                                      !.extraction = NoText, !.kept = FALSE]
              /\ UNCHANGED <<entries, done>>
    BY DEF AnswerTurnedDown, mishaps
<1> HIDE DEF complained
<1>4. Cached => Unvouched(HeldKey)
    BY <1>1 DEF Unvouched
<1>5. /\ StoreOk' /\ Moves
      /\ ~Cached => store' = store
      /\ Cached => store' = [l \in DOMAIN store \ {HeldKey} |-> store[l]]
    <2> DEFINE c == task.held
               k == HeldKey
    <2>1. Cached /\ c.request.kind \in Evicting =>
             /\ lastKey[c.request.kind] = k /\ k \in DOMAIN store /\ k[1].kind \in Evicting
             /\ store[k] \in Bad \/ Unvouched(k)
        BY <1>1, <1>2, <1>4
    <2>2. TurnDown(c, complained) /\ c.request.kind \in Kinds /\ c.request.kind \in Evicting
        BY <1>2, <1>3
    <2> HIDE DEF c, k
    <2>3. /\ StoreOk' /\ Moves
          /\ ~(Cached /\ c.request.kind \in Evicting) => store' = store
          /\ Cached /\ c.request.kind \in Evicting => store' = [l \in DOMAIN store \ {k} |-> store[l]]
        BY <2>1, <2>2, TurnDownEvicts
    <2> QED
        BY <2>2, <2>3 DEF k
<1>6. Framed
    BY <1>5, FrameStays
<1>7. FewLeft'
    <2>1. Left' \subseteq Left
        BY <1>1, <1>2, <1>5, LeftEvicted, LeftOf
    <2> QED
        BY <1>3, <2>1, NoMoreLeft
<1>8. /\ lastKey' = [lastKey EXCEPT ![nl] = NoKey]
      /\ call' = IF task.held.attempt >= Attempts(nl) THEN NoCall
                 ELSE [stage |-> "ask", request |-> AnswerPrompt(Bidder),
                       attempt |-> task.held.attempt + 1, quoted |-> QuotedNext(nl, complained)]
    BY <1>1, <1>2, <1>3 DEF TurnDown
<1>9. DOMAIN lastKey' = Evicting /\ (mode = "off" => lastKey' = NoKeys)
    BY <1>1, <1>8 DEF NoKeys
<1>10. Outcome
    <2>1. CASE task.held.attempt >= Attempts(nl)
        BY <1>3, <1>6, <1>8, <2>1, RaisesKeeps
    <2>2. CASE ~(task.held.attempt >= Attempts(nl))
        <3>1. task' = [task EXCEPT !.stage = "answer", !.held = NoCall,
                                   !.extraction = NoText, !.kept = FALSE]
              /\ UNCHANGED <<entries, done>>
            BY <1>3, <2>2
        <3>2. /\ DOMAIN task' = Fields /\ task'.stage = "answer" /\ task'.kept = FALSE
              /\ task'.pos = task.pos /\ task'.plan = task.plan /\ task'.values = task.values
            BY <1>1, <3>1 DEF Fields
        <3>3. /\ task.held.attempt \in 1..Attempts(nl)
              /\ mode = "refresh" => AnswerPrompt(Bidder) \notin DOMAIN settled
            BY <1>1 DEF CacheInv, HeldOk
        <3>4. task.held.attempt \in Nat \ {0} /\ task.held.attempt + 1 <= Attempts(nl)
            BY <2>2, <3>3, AttemptsAre
        <3> QED
            BY <1>1, <1>3, <1>6, <1>8, <2>2, <3>1, <3>2, <3>3, <3>4, AskedAgain
    <2> QED
        BY <2>1, <2>2
<1> QED
    BY <1>1, <1>3, <1>5, <1>6, <1>7, <1>9, <1>10, OverKeeps

\* What the verifier's responses of a cached session say of the answer in hand.
LEMMA ReadingSays ==
    ASSUME CacheInv, call.stage = "parse", Cached
    PROVE  /\ Kind = "person_answer_semantic_extraction" =>
                /\ \A t : ReadAs(store, Bidder, task.held.text, task.held.attempt, t) =>
                        /\ t = call.text /\ t \in Good
                        /\ Discloses(Extraction[t], Truth[Bidder], Items)
                /\ call.text \in Good /\ Discloses(Extraction[call.text], Truth[Bidder], Items)
                     => ReadAs(store, Bidder, task.held.text, task.held.attempt, call.text)
           /\ Kind = "person_answer_substitute_entailment" =>
                /\ Claims(Extraction[task.extraction]) # {}
                /\ \A t : ReadAs(store, Bidder, task.held.text, task.held.attempt, t)
                        <=> t = task.extraction
                /\ Seconded(store, Bidder, task.held.text, task.held.attempt, task.extraction)
                     <=> /\ call.text \in Good
                         /\ Discloses(Upheld(Extraction[task.extraction], UpheldModes[call.text]),
                                      Truth[Bidder], Items)
<1>1. ASSUME Kind = "person_answer_semantic_extraction"
      PROVE  /\ task.stage = "extract"
             /\ Holds(store, FirstKey(ExtractionPrompt(Bidder, task.held.text, task.held.attempt)),
                      call.text)
    BY <1>1, ParsingIs, WantedIs, AttemptsAre
       DEF Parsing, ElicitKinds, ReadingKinds, StageOf
<1>2. ASSUME Kind = "person_answer_substitute_entailment"
      PROVE  /\ task.stage = "entail"
             /\ Holds(store, FirstKey(EntailmentPrompt(Bidder, task.held.text, task.held.attempt,
                                                       Extraction[task.extraction])), call.text)
    BY <1>2, ParsingIs, WantedIs, AttemptsAre
       DEF Parsing, ElicitKinds, ReadingKinds, StageOf
<1>3. ASSUME Kind = "person_answer_substitute_entailment"
      PROVE  /\ Claims(Extraction[task.extraction]) # {}
             /\ ReadAs(store, Bidder, task.held.text, task.held.attempt, task.extraction)
    BY <1>2, <1>3 DEF CacheInv, HeldOk
<1>4. ASSUME Kind = "person_answer_substitute_entailment", NEW t,
             ReadAs(store, Bidder, task.held.text, task.held.attempt, t)
      PROVE  t = task.extraction
    BY <1>3, <1>4 DEF ReadAs, First, Holds
<1>5. ASSUME Kind = "person_answer_semantic_extraction", NEW t,
             ReadAs(store, Bidder, task.held.text, task.held.attempt, t)
      PROVE  t = call.text /\ t \in Good /\ Discloses(Extraction[t], Truth[Bidder], Items)
    BY <1>1, <1>5 DEF ReadAs, First, Holds
<1>6. ASSUME Kind = "person_answer_semantic_extraction", call.text \in Good,
             Discloses(Extraction[call.text], Truth[Bidder], Items)
      PROVE  ReadAs(store, Bidder, task.held.text, task.held.attempt, call.text)
    BY <1>1, <1>6 DEF ReadAs, First
<1>7. ASSUME Kind = "person_answer_substitute_entailment"
      PROVE  Seconded(store, Bidder, task.held.text, task.held.attempt, task.extraction)
                <=> /\ call.text \in Good
                    /\ Discloses(Upheld(Extraction[task.extraction], UpheldModes[call.text]),
                                 Truth[Bidder], Items)
    <2> DEFINE r == EntailmentPrompt(Bidder, task.held.text, task.held.attempt,
                                     Extraction[task.extraction])
    <2>1. Holds(store, FirstKey(r), call.text)
        BY <1>2, <1>7
    <2> HIDE DEF r
    <2>2. \A u : First(store, r, u) <=> u = call.text /\ u \in Good
        BY <2>1 DEF First, Holds
    <2>3. Seconded(store, Bidder, task.held.text, task.held.attempt, task.extraction)
            <=> \E u : /\ First(store, r, u)
                       /\ Discloses(Upheld(Extraction[task.extraction], UpheldModes[u]),
                                    Truth[Bidder], Items)
        BY DEF Seconded, r
    <2> QED
        BY <2>2, <2>3
<1> QED
    BY <1>3, <1>4, <1>5, <1>6, <1>7

\* The answer in hand is taken.
LEMMA AnswerTakenKeeps ==
    ASSUME CacheInv, call.stage = "parse", Kind \in ReadingKinds, AnswerTaken,
           Cached => VouchedBy(store, Bidder, task.held.text, task.held.attempt)
    PROVE  CacheInv'
<1>1. /\ call # NoCall /\ Working /\ task.stage \in {"extract", "entail"}
      /\ task.held.request = AnswerPrompt(Bidder) /\ DOMAIN task = Fields
      /\ DOMAIN lastKey = Evicting /\ (mode = "off" => lastKey = NoKeys)
      /\ Cached => InHand = {HeldKey}
      /\ ~Cached => InHand = {}
    BY ReadingIs
<1>2. /\ settled' = Settled(task.held) /\ call' = NoCall /\ store' = store
      /\ task' = [task EXCEPT !.stage = "map", !.answer = task.held.text, !.held = NoCall,
                              !.extraction = NoText]
      /\ UNCHANGED <<mode, lastKey, entries, done>> /\ UNCHANGED <<crashes, failures>>
    BY DEF AnswerTaken, mishaps
<1>3. StoreOk' /\ Moves
    BY <1>2, StoreSame
<1>4. Framed
    BY <1>3, FrameStays
<1>5. /\ task.held.text \in Good
      /\ task.held.attempt = 1 => task.held.quoted = NoQuote
      /\ task.kept => task.held.attempt = 1
      /\ Cached => Holds(store, HeldKey, task.held.text)
    BY <1>1 DEF CacheInv, HeldOk
<1>6. ASSUME Cached, task.held.attempt = 1
      PROVE  /\ First(store, AnswerPrompt(Bidder), task.held.text)
             /\ VouchedBy(store, Bidder, task.held.text, 1)
    BY <1>1, <1>5, <1>6 DEF First, FirstKey, HeldKey
<1>7. SettledIn(store, settled)'
    <2>1. CASE ~Cached
        <3>1. settled' = settled
            BY <1>2, <2>1 DEF Settled, Cached
        <3> QED
            BY <1>4, <3>1, SettledStays
    <2>2. CASE Cached
        <3> DEFINE r == AnswerPrompt(Bidder)
        <3>1. /\ DOMAIN settled' = DOMAIN settled \cup {r}
              /\ settled'[r] = [text |-> task.held.text, attempt |-> task.held.attempt]
              /\ \A s \in DOMAIN settled : s # r => settled'[s] = settled[s]
            BY <1>1, <1>2, <2>2 DEF Settled, Cached
        <3>2. r.kind = "person_nl_response" /\ r.kind \in Evicting /\ r = AnswerPrompt(r.bidder)
              /\ r.bidder = Bidder
            BY PromptsAre DEF Evicting
        <3>3. /\ settled'[r].text = task.held.text
              /\ settled'[r].attempt = task.held.attempt
            BY <3>1
        <3>4. settled'[r].attempt = 1 => First(store', r, settled'[r].text)
                                         /\ VouchedBy(store', r.bidder, settled'[r].text, 1)
            BY <1>2, <1>6, <2>2, <3>2, <3>3
        <3> HIDE DEF r
        <3> SUFFICES ASSUME NEW s \in DOMAIN settled'
                     PROVE  /\ s.kind \notin Evicting => Answered(store', s, settled'[s].text)
                            /\ s.kind \in Evicting /\ settled'[s].attempt = 1 => First(store', s, settled'[s].text)
                            /\ s.kind = "person_nl_response" =>
                                  /\ s = AnswerPrompt(s.bidder)
                                  /\ settled'[s].attempt = 1 => VouchedBy(store', s.bidder, settled'[s].text, 1)
            BY DEF SettledIn
        <3>5. CASE s = r
            BY <3>2, <3>4, <3>5
        <3>6. CASE s # r
            BY <1>4, <3>1, <3>6 DEF Framed, SettledIn
        <3> QED
            BY <3>5, <3>6
    <2> QED
        BY <2>1, <2>2
<1>8. /\ DOMAIN task' = Fields /\ task'.stage = "map" /\ task'.pos = task.pos
      /\ task'.kept = task.kept /\ task'.values = task.values /\ task'.plan = task.plan
      /\ task'.answer = task.held.text
    BY <1>1, <1>2 DEF Fields
<1>9. Bidder' = Bidder
    BY <1>8 DEF Bidder
<1>10. task.kept => Cached
    BY <1>1 DEF CacheInv, TaskOk
<1>11. task.kept => TaskKept(store)'
    BY <1>2, <1>5, <1>6, <1>8, <1>9, <1>10 DEF TaskKept, AnswerKept
<1>12. TaskOk'
    BY <1>1, <1>2, <1>8, <1>11 DEF CacheInv, TaskOk, Cached
<1>13. CallOk' /\ HeldOk' /\ IdleOk' /\ InHand' = {}
    BY <1>2, <1>8, StagesAre DEF CallOk, HeldOk, IdleOk, InHand, Working
<1>14. EntriesOk(store, entries)' /\ EntriesOk(store, done)'
    BY <1>2, <1>4 DEF Framed
<1>15. Outcome
    BY <1>12, <1>13, <1>14 DEF Outcome, Idles
<1>16. FewLeft'
    <2>1. Cached => ~IsRejected(store, HeldKey)
        BY <1>1, HeldIsNotRejected DEF VouchedBy
    <2>2. Left' \subseteq Left
        BY <1>1, <1>2, <2>1, LeftOf
    <2> QED
        BY <1>2, <2>2, NoMoreLeft
<1> QED
    BY <1>1, <1>2, <1>3, <1>7, <1>15, <1>16, FinishedKeeps

\* The first reading of an answer.
LEMMA ExtractedKeeps ==
    ASSUME CacheInv, Extracted
    PROVE  CacheInv'
<1> DEFINE said == call.text
           goes == /\ task' = [task EXCEPT !.stage = "entail", !.extraction = said]
                   /\ call' = NoCall
                   /\ UNCHANGED <<store, mode, lastKey, settled, mishaps, entries, done>>
<1>1. /\ call.stage = "parse" /\ Kind = "person_answer_semantic_extraction"
      /\ Kind \in ReadingKinds /\ task.stage = "extract" /\ call.text \in Texts
    BY ParsingIs DEF Extracted, Parsing, ElicitKinds, ReadingKinds, StageOf
<1>2. CASE call.text \in Bad \/ ~Discloses(Extraction[said], Truth[Bidder], Items)
    <2>1. \E complaint : AnswerTurnedDown(complaint)
        BY <1>2 DEF Extracted
    <2>2. PICK complaint : AnswerTurnedDown(complaint)
        BY <2>1
    <2>3. ASSUME Cached, task.held.attempt = 1
          PROVE  ~VouchedBy(store, Bidder, task.held.text, 1)
        BY <1>1, <1>2, <2>3, ReadingSays, CacheAssumption DEF VouchedBy
    <2> QED
        BY <1>1, <2>2, <2>3, AnswerTurnedDownKeeps
<1>3. CASE call.text \in Good /\ Discloses(Extraction[said], Truth[Bidder], Items)
    <2>1. call.text \notin Bad
        BY <1>3, CacheAssumption
    <2>2. Cached => ReadAs(store, Bidder, task.held.text, task.held.attempt, said)
        BY <1>1, <1>3, ReadingSays
    <2>3. CASE Claims(Extraction[said]) = {}
        <3>1. AnswerTaken
            BY <1>3, <2>1, <2>3 DEF Extracted
        <3>2. Cached => VouchedBy(store, Bidder, task.held.text, task.held.attempt)
            BY <2>2, <2>3 DEF VouchedBy
        <3> QED
            BY <1>1, <3>1, <3>2, AnswerTakenKeeps
    <2>4. CASE Claims(Extraction[said]) # {}
        <3>1. goes
            BY <1>3, <2>1, <2>4 DEF Extracted
        <3>2. /\ call # NoCall /\ Working /\ DOMAIN task = Fields
              /\ DOMAIN lastKey = Evicting /\ (mode = "off" => lastKey = NoKeys)
              /\ Cached => InHand = {HeldKey}
              /\ ~Cached => InHand = {}
            BY <1>1, ReadingIs
        <3>3. /\ DOMAIN task' = Fields /\ task'.stage = "entail" /\ task'.pos = task.pos
              /\ task'.kept = task.kept /\ task'.values = task.values /\ task'.plan = task.plan
              /\ task'.held = task.held /\ task'.extraction = said
            BY <3>1, <3>2 DEF Fields
        <3>4. Bidder' = Bidder /\ HeldKey' = HeldKey /\ store' = store /\ mode' = mode
              /\ call' = NoCall /\ lastKey' = lastKey /\ settled' = settled
              /\ entries' = entries /\ done' = done /\ UNCHANGED <<crashes, failures>>
            BY <3>1, <3>3 DEF Bidder, HeldKey, mishaps
        <3> HIDE DEF goes, said
        <3>5. StoreOk' /\ Moves
            BY <3>4, StoreSame
        <3>6. Framed
            BY <3>5, FrameStays
        <3>7. HeldOk'
            BY <1>1, <2>2, <2>4, <3>3, <3>4 DEF CacheInv, HeldOk, Cached
        <3>8. TaskOk'
            BY <1>1, <3>2, <3>3, <3>4 DEF CacheInv, TaskOk, TaskKept, Cached
        <3>9. CallOk' /\ IdleOk'
            BY <3>3, <3>4 DEF CallOk, IdleOk, Working
        <3>10. EntriesOk(store, entries)' /\ EntriesOk(store, done)' /\ SettledIn(store, settled)'
            BY <3>4, <3>6, SettledStays DEF Framed
        <3>11. SessionOk'
            BY <3>2, <3>4 DEF CacheInv, SessionOk
        <3>12. FewLeft'
            <4>1. InHand \subseteq InHand'
                BY <3>2, <3>3, <3>4, StagesAre DEF InHand, Cached
            <4> QED
                BY <3>4, <4>1, LeftOf, NoMoreLeft
        <3> QED
            BY <3>5, <3>7, <3>8, <3>9, <3>10, <3>11, <3>12 DEF CacheInv
    <2> QED
        BY <2>3, <2>4
<1> QED
    BY <1>1, <1>2, <1>3 DEF Texts

\* The second pass.
LEMMA VerifiedKeeps ==
    ASSUME CacheInv, Verified
    PROVE  CacheInv'
<1> DEFINE upheld == Discloses(Upheld(Extraction[task.extraction], UpheldModes[call.text]),
                               Truth[Bidder], Items)
<1>1. /\ call.stage = "parse" /\ Kind = "person_answer_substitute_entailment"
      /\ Kind \in ReadingKinds /\ call.text \in Texts
    BY ParsingIs DEF Verified, Parsing, ElicitKinds, ReadingKinds, StageOf
<1>2. CASE call.text \in Bad \/ ~upheld
    <2>1. \E complaint : AnswerTurnedDown(complaint)
        BY <1>2 DEF Verified
    <2>2. PICK complaint : AnswerTurnedDown(complaint)
        BY <2>1
    <2> HIDE DEF upheld
    <2>3. ASSUME Cached, task.held.attempt = 1
          PROVE  ~VouchedBy(store, Bidder, task.held.text, 1)
        BY <1>1, <1>2, <2>3, ReadingSays, CacheAssumption DEF VouchedBy, upheld
    <2> QED
        BY <1>1, <2>2, <2>3, AnswerTurnedDownKeeps
<1>3. CASE call.text \in Good /\ upheld
    <2>1. AnswerTaken
        BY <1>3, CacheAssumption DEF Verified
    <2>2. Cached => VouchedBy(store, Bidder, task.held.text, task.held.attempt)
        BY <1>1, <1>3, ReadingSays DEF VouchedBy
    <2> QED
        BY <1>1, <2>1, <2>2, AnswerTakenKeeps
<1> QED
    BY <1>1, <1>2, <1>3 DEF Texts

\* A chunk more is valued.
LEMMA OneMoreChunk ==
    ASSUME CacheInv, Framed, Working, task.stage = "value", NEW text, NEW values,
           values = MergedValues(task.values, Head(task.chunks), text), NEW more,
           more = {AllChunks(task.map)[i] : i \in 1..Past + 1}
    PROVE  /\ DOMAIN values = UNION {ToSet(c) : c \in more}
           /\ (task.kept /\ First(store', ValuePrompt(Bidder, task.answer, task.map, Head(task.chunks)), text))
                => ValuesKept(store', Bidder, task.answer, task.map, more, values)
<1> DEFINE head == Head(task.chunks)
<1>1. /\ Past \in Nat /\ head = AllChunks(task.map)[Past + 1]
      /\ \A c \in Valued : ToSet(c) \cap ToSet(head) = {}
    BY NextChunk
<1>2. 1..Past + 1 = (1..Past) \cup {Past + 1}
    BY <1>1
<1>3. more = Valued \cup {head}
    BY <1>1, <1>2 DEF Valued
<1>4. DOMAIN task.values = UNION {ToSet(c) : c \in Valued}
    BY DEF CacheInv, TaskOk, ChunksOk
<1> HIDE DEF head
<1>5. /\ DOMAIN values = DOMAIN task.values \cup ToSet(head)
      /\ \A b \in ToSet(head) : values[b] = text
      /\ \A b \in DOMAIN task.values : b \notin ToSet(head) => values[b] = task.values[b]
    BY DEF MergedValues, head
<1>6. DOMAIN values = UNION {ToSet(c) : c \in more}
    BY <1>3, <1>4, <1>5
<1>7. ASSUME task.kept, First(store', ValuePrompt(Bidder, task.answer, task.map, head), text),
             NEW c \in more, NEW bundle \in ToSet(c)
      PROVE  First(store', ValuePrompt(Bidder, task.answer, task.map, c), values[bundle])
    <2>1. CASE c = head
        BY <1>5, <1>7, <2>1
    <2>2. CASE c \in Valued
        <3>1. ValuesKept(store', Bidder, task.answer, task.map, Valued, task.values)
            BY <1>7 DEF Framed, TaskKept
        <3>2. First(store', ValuePrompt(Bidder, task.answer, task.map, c), task.values[bundle])
            BY <2>2, <3>1 DEF ValuesKept
        <3>3. bundle \in DOMAIN task.values /\ bundle \notin ToSet(head)
            BY <1>1, <1>4, <2>2
        <3> QED
            BY <1>5, <3>2, <3>3
    <2> QED
        BY <1>3, <2>1, <2>2
<1> QED
    BY <1>6, <1>7 DEF ValuesKept, head

\* A chunk is valued: the next one follows, or the bidder is complete.
LEMMA ChunkValuedKeeps ==
    ASSUME CacheInv, ChunkValued
    PROVE  CacheInv'
<1> DEFINE all == AllChunks(task.map)
           values == MergedValues(task.values, Head(task.chunks), call.text)
           more == {all[i] : i \in 1..Past + 1}
           kept == task.kept /\ call.attempt = 1
           t == [task EXCEPT !.values = values, !.chunks = Tail(task.chunks), !.kept = kept]
<1>1. /\ call # NoCall /\ call.stage = "parse" /\ Kind = "provisional_valuations" /\ Working
      /\ task.stage = "value"
      /\ call.request = ValuePrompt(Bidder, task.answer, task.map, Head(task.chunks))
      /\ DOMAIN lastKey = Evicting /\ (mode = "off" => lastKey = NoKeys)
      /\ Cached => Holds(store, CallKey, call.text)
    BY ParsingIs, WantedIs DEF ChunkValued, ElicitKinds, StageOf
<1>2. /\ call.text \in Good /\ settled' = Settled(call) /\ call' = NoCall /\ store' = store
      /\ UNCHANGED <<mode, lastKey>> /\ UNCHANGED <<crashes, failures>>
    BY DEF ChunkValued, Accept, mishaps
<1>3. IF t.chunks = <<>> THEN Completes(t) ELSE task' = t /\ UNCHANGED <<entries, done>>
    BY DEF ChunkValued
<1>4. StoreOk' /\ Moves
    BY <1>2, StoreSame
<1>5. Framed
    BY <1>4, FrameStays
<1>6. /\ SettledIn(store, settled)'
      /\ Cached /\ call.attempt = 1 => First(store, call.request, call.text)
    BY <1>1, <1>2, <1>5, AcceptSettles
<1>7. FewLeft'
    <2>1. ASSUME Cached
          PROVE  InHand = {CallKey} /\ ~IsRejected(store, CallKey)
        <3>1. InHand = {CallKey}
            BY <1>1, <2>1, InHandIs DEF Evicting
        <3>2. CallKey[1].kind = "provisional_valuations" /\ store[CallKey] = call.text
            BY <1>1, <2>1, CallKeyIs DEF Holds
        <3> QED
            BY <1>2, <3>1, <3>2, CacheAssumption DEF IsRejected
    <2>2. ~Cached => InHand = {}
        BY DEF InHand
    <2>3. Left' \subseteq Left
        BY <1>2, <2>1, <2>2, LeftOf
    <2> QED
        BY <1>2, <2>3, NoMoreLeft
<1>8. /\ DOMAIN task = Fields /\ NormalForm(task.map, Items) /\ task.kept \in BOOLEAN
      /\ (task.kept => Cached)
    BY <1>1 DEF CacheInv, TaskOk
<1>9. /\ DOMAIN t = Fields /\ t.stage = "value" /\ t.pos = task.pos /\ t.kept = kept
      /\ t.values = values /\ t.chunks = Tail(task.chunks) /\ t.map = task.map
      /\ t.plan = task.plan /\ t.answer = task.answer
    BY <1>1, <1>8 DEF Fields
<1>10. /\ DOMAIN values = UNION {ToSet(c) : c \in more}
       /\ kept => ValuesKept(store', Bidder, task.answer, task.map, more, values)
    <2>1. kept => First(store', ValuePrompt(Bidder, task.answer, task.map, Head(task.chunks)), call.text)
        BY <1>1, <1>2, <1>6, <1>8
    <2> DEFINE text == call.text
    <2>2. values = MergedValues(task.values, Head(task.chunks), text)
        OBVIOUS
    <2> HIDE DEF values, more, kept, text
    <2>3. more = {AllChunks(task.map)[i] : i \in 1..Past + 1}
        BY DEF more
    <2>4. /\ DOMAIN values = UNION {ToSet(c) : c \in more}
          /\ (task.kept /\ First(store', ValuePrompt(Bidder, task.answer, task.map, Head(task.chunks)), text))
                => ValuesKept(store', Bidder, task.answer, task.map, more, values)
        BY <1>1, <1>5, <2>2, <2>3, OneMoreChunk
    <2> QED
        BY <2>1, <2>4 DEF kept, text
<1>11. kept => /\ AnswerKept(store', Bidder, task.plan, task.answer)
               /\ MapKept(store', Bidder, task.answer, task.plan.policy, task.map)
    BY <1>1, <1>5 DEF Framed, TaskKept
<1>12. /\ Past \in Nat /\ Past + 1 \in 1..Len(all) /\ Len(all) \in Nat /\ DOMAIN all = 1..Len(all)
       /\ Tail(task.chunks) = SubSeq(all, Past + 2, Len(all))
       /\ all \in Seq(Seq(ToSet(Candidates(task.map))))
    BY <1>1, NextChunk
<1>13. CandidatesAre(Candidates(task.map), task.map, MaxCandidates) /\ ChunksAre(all, Candidates(task.map))
    BY <1>8, ChunksOfMap
<1>14. Len(Tail(task.chunks)) = Len(all) - (Past + 1)
       /\ (Tail(task.chunks) = <<>> <=> Past + 1 = Len(all))
    BY <1>1, NextChunk
<1> HIDE DEF values, kept
<1>15. CASE t.chunks = <<>>
    <2>1. Completes(t)
        BY <1>3, <1>15
    <2>2. Past + 1 = Len(all)
        BY <1>9, <1>14, <1>15
    <2>3. more = ToSet(all)
        BY <1>12, <2>2 DEF ToSet
    <2>4. DOMAIN values = ToSet(Candidates(task.map))
        <3>1. more = {all[i] : i \in DOMAIN all}
            BY <1>12, <2>2
        <3>2. UNION {ToSet(c) : c \in more} = UNION {ToSet(all[i]) : i \in DOMAIN all}
            BY <3>1
        <3> QED
            BY <1>10, <1>13, <3>2 DEF ChunksAre
    <2> HIDE DEF t, more, all
    <2>5. EntryShape(EntryOf(t))
        BY <1>8, <1>9, <2>4 DEF EntryShape, EntryOf
    <2>6. EntryKept(store', Bidder, EntryOf(t))
        BY <1>9, <1>10, <1>11, <2>3 DEF EntryKept, EntryOf, all
    <2>7. Outcome
        BY <1>1, <1>2, <1>5, <1>9, <2>1, <2>5, <2>6, CompletesKeeps
    <2> QED
        BY <1>1, <1>2, <1>4, <1>6, <1>7, <2>7, FinishedKeeps
<1>16. CASE t.chunks # <<>>
    <2>1. task' = t /\ UNCHANGED <<entries, done>>
        BY <1>3, <1>16
    <2>2. Bidder' = Bidder
        BY <1>9, <2>1 DEF Bidder
    <2>3. AllChunks(task'.map) = all
        BY <1>9, <2>1
    <2>4. Past' = Past + 1
        <3> DEFINE m == Len(all)
                   p == Past
        <3>1. Past' = m - (m - (p + 1))
            BY <1>9, <1>14, <2>1, <2>3 DEF Past
        <3>2. m \in Nat /\ p \in Nat
            BY <1>12
        <3> HIDE DEF m, p
        <3>3. m - (m - (p + 1)) = p + 1
            BY <3>2
        <3> QED
            BY <3>1, <3>3 DEF p
    <2>5. Valued' = more
        BY <2>3, <2>4 DEF Valued
    <2>6. Past + 1 < Len(all)
        <3>1. Past + 1 # Len(all)
            BY <1>9, <1>14, <1>16
        <3> DEFINE m == Len(all)
                   p == Past
        <3>2. m \in Nat /\ p \in Nat /\ p + 1 \in 1..m /\ p + 1 # m
            BY <1>12, <3>1
        <3> HIDE DEF m, p
        <3>3. p + 1 < m
            BY <3>2
        <3> QED
            BY <3>3 DEF m, p
    <2> HIDE DEF t, more, all
    <2>7. ChunksOk'
        <3>1. task'.chunks = SubSeq(all, Past' + 1, Len(all))
            <4>1. (Past + 1) + 1 = Past + 2
                BY <1>12
            <4> QED
                BY <1>9, <1>12, <2>1, <2>4, <4>1
        <3>2. Past' \in Nat /\ Past' < Len(all)
            BY <1>12, <2>4, <2>6
        <3>3. DOMAIN task'.values = UNION {ToSet(c) : c \in Valued'}
            BY <1>9, <1>10, <2>1, <2>5
        <3> QED
            BY <2>3, <3>1, <3>2, <3>3 DEF ChunksOk
    <2>8. kept => TaskKept(store)'
        BY <1>9, <1>10, <1>11, <2>1, <2>2, <2>5 DEF TaskKept
    <2>9. kept \in BOOLEAN /\ (kept => task.kept)
        BY <1>8 DEF kept
    <2>10. TaskOk'
        BY <1>1, <1>2, <1>8, <1>9, <2>1, <2>7, <2>8, <2>9 DEF CacheInv, TaskOk, Cached
    <2>11. CallOk' /\ HeldOk' /\ IdleOk' /\ InHand' = {}
        BY <1>2, <1>9, <2>1, StagesAre DEF CallOk, HeldOk, IdleOk, InHand, Working
    <2>12. EntriesOk(store, entries)' /\ EntriesOk(store, done)'
        BY <1>5, <2>1 DEF Framed
    <2>13. Outcome
        BY <2>10, <2>11, <2>12 DEF Outcome, Idles
    <2> QED
        BY <1>1, <1>2, <1>4, <1>6, <1>7, <2>13, FinishedKeeps
<1> QED
    BY <1>15, <1>16

\* A chunk's response is rejected.
LEMMA ChunkRejectedKeeps ==
    ASSUME CacheInv, ChunkRejected
    PROVE  CacheInv'
<1>1. /\ call # NoCall /\ Kind = "provisional_valuations" /\ Working /\ task.stage = "value" /\ Reject
      /\ Kind \notin ReadingKinds \cup {"person_nl_response"}
    BY ParsingIs DEF ChunkRejected, ElicitKinds, StageOf, ReadingKinds
<1>2. /\ UNCHANGED <<mode, settled>> /\ StoreOk' /\ Framed /\ FewLeft'
      /\ DOMAIN lastKey' = Evicting /\ (mode = "off" => lastKey' = NoKeys)
    BY <1>1, RejectLeaves
<1>3. CASE call' = NoCall
    <2>1. Unvalued
        BY <1>3 DEF ChunkRejected
    <2>2. Outcome
        BY <1>1, <1>2, <1>3, <2>1, UnvaluedKeeps
    <2> QED
        BY <1>1, <1>2, <2>2, OverKeeps
<1>4. CASE call' # NoCall
    BY <1>1, <1>4, RetryKeeps DEF ChunkRejected
<1> QED
    BY <1>3, <1>4

\* A query of an auction is answered, or asked again.
LEMMA QueryAnsweredKeeps ==
    ASSUME CacheInv, QueryAnswered
    PROVE  CacheInv'
<1>1. /\ call # NoCall /\ call.stage = "parse" /\ Kind \in QueryKinds /\ task = Returns
      /\ UNCHANGED elicitVars /\ (Accept \/ Reject)
      /\ Kind \notin ReadingKinds \cup {"person_nl_response"} /\ Kind \notin Evicting
    <2>1. call # NoCall /\ call.stage = "parse" /\ Kind \in QueryKinds
        BY StagesAre DEF QueryAnswered, QueryKinds
    <2> QED
        BY <2>1, CallIs DEF QueryAnswered, QueryKinds, ReadingKinds, Evicting
<1>2. task' = Returns /\ entries' = entries /\ done' = done
    BY <1>1 DEF elicitVars
<1>3. ASSUME Framed, call' = NoCall
      PROVE  Outcome
    BY <1>2, <1>3, IdlesWhen DEF Outcome, Framed
<1>4. CASE Accept
    <2>1. /\ call.text \in Good /\ settled' = Settled(call) /\ call' = NoCall /\ store' = store
          /\ UNCHANGED <<mode, lastKey>> /\ UNCHANGED <<crashes, failures>>
        BY <1>4 DEF Accept, mishaps
    <2>2. StoreOk' /\ Moves
        BY <2>1, StoreSame
    <2>3. Framed
        BY <2>2, FrameStays
    <2>4. SettledIn(store, settled)'
        BY <1>1, <2>1, <2>3, AcceptSettles
    <2>5. FewLeft'
        BY <1>1, <2>1, InHandIs, LeftOf, NoMoreLeft
    <2>6. DOMAIN lastKey' = Evicting /\ (mode = "off" => lastKey' = NoKeys)
        BY <2>1 DEF CacheInv, SessionOk
    <2> QED
        BY <1>1, <1>3, <2>1, <2>2, <2>3, <2>4, <2>5, <2>6, FinishedKeeps
<1>5. CASE Reject
    <2>1. /\ UNCHANGED <<mode, settled>> /\ StoreOk' /\ Framed /\ FewLeft'
          /\ DOMAIN lastKey' = Evicting /\ (mode = "off" => lastKey' = NoKeys)
        BY <1>1, <1>5, RejectLeaves
    <2>2. CASE call' = NoCall
        BY <1>1, <1>3, <2>1, <2>2, OverKeeps
    <2>3. CASE call' # NoCall
        BY <1>1, <1>5, <2>3, RetryKeeps
    <2> QED
        BY <2>2, <2>3
<1> QED
    BY <1>1, <1>4, <1>5

-----------------------------------------------------------------------------
(* The theorems.                                                           *)

\* Nothing is stored, settled or under way at first.
LEMMA CacheInvInit == Init => CacheInv
<1> SUFFICES ASSUME Init PROVE CacheInv
    OBVIOUS
<1>1. /\ store = [k \in {} |-> NoText] /\ mode = "none" /\ call = NoCall /\ lastKey = NoKeys
      /\ settled = [r \in {} |-> NoText] /\ crashes = 0 /\ failures = 0
      /\ task = Idle /\ entries = NoEntry /\ done = NoEntry
    BY DEF Init, CacheInit
<1>2. DOMAIN store = {} /\ DOMAIN settled = {}
    BY <1>1
<1>3. StoreOk
    BY <1>1, <1>2, FS_EmptySet DEF StoreOk
<1>4. SessionOk
    BY <1>1 DEF SessionOk, NoKeys
<1>5. CallOk /\ SettledIn(store, settled)
    BY <1>1, <1>2 DEF CallOk, SettledIn
<1>6. HeldOk /\ TaskOk /\ IdleOk
    BY <1>1, StagesAre DEF HeldOk, TaskOk, IdleOk
<1>7. EntriesOk(store, entries) /\ EntriesOk(store, done)
    BY <1>1, NoEntriesOk
<1>8. FewLeft
    <2>1. Left = {}
        BY <1>2 DEF Left
    <2> QED
        BY <1>1, <2>1, FS_EmptySet DEF FewLeft
<1> QED
    BY <1>3, <1>4, <1>5, <1>6, <1>7, <1>8 DEF CacheInv

\* A step that changes nothing.
LEMMA CacheInvStutters ==
    ASSUME CacheInv, UNCHANGED vars
    PROVE  CacheInv'
<1>1. /\ store' = store /\ mode' = mode /\ call' = call /\ lastKey' = lastKey /\ settled' = settled
      /\ task' = task /\ entries' = entries /\ done' = done
      /\ crashes' = crashes /\ failures' = failures
    BY DEF vars, cacheVars, elicitVars, mishaps
<1>2. StoreOk' /\ Moves
    BY <1>1, StoreSame
<1>3. Framed
    BY <1>2, FrameStays
<1>4. TaskStays
    BY <1>1, <1>3, TaskStaysWhen DEF elicitVars
<1>5. SettledIn(store, settled)'
    BY <1>1, <1>3, SettledStays
<1>6. Kind' = Kind /\ CallKey' = CallKey /\ (Cached' <=> Cached) /\ InHand' = InHand
    BY <1>1, <1>4 DEF Kind, CallKey, Cached, InHand, TaskStays
<1>7. SessionOk' /\ CallOk'
    BY <1>1, <1>4, <1>6 DEF CacheInv, SessionOk, CallOk, TaskStays
<1>8. HeldOk' /\ TaskOk'
    BY <1>1, <1>4, <1>6 DEF CacheInv, HeldOk, TaskOk, TaskStays
<1>9. FewLeft'
    BY <1>1, <1>6, LeftOf, NoMoreLeft
<1> QED
    BY <1>2, <1>4, <1>5, <1>7, <1>8, <1>9 DEF CacheInv, TaskStays

\* Every step keeps the invariant.
LEMMA CacheInvNext == CacheInv /\ [Next]_vars => CacheInv'
<1> SUFFICES ASSUME CacheInv, [Next]_vars
             PROVE  CacheInv'
    OBVIOUS
<1>1. CASE Starts \/ Ends \/ Dies
    BY <1>1, SessionsKeep
<1>2. CASE StartElicitation
    BY <1>2, StartElicitationKeeps
<1>3. CASE Calls \/ Queries
    BY <1>3, CallsKeep
<1>4. CASE LooksUp
    BY <1>4, LooksUpKeeps
<1>5. CASE Asks
    BY <1>5, AsksKeeps
<1>6. CASE GivesUp
    BY <1>6, GivesUpKeeps
<1>7. CASE AnswerParses \/ AnswerRejected
    BY <1>7, AnswerParsesKeeps, AnswerRejectedKeeps
<1>8. CASE Extracted \/ Verified
    BY <1>8, ExtractedKeeps, VerifiedKeeps
<1>9. CASE MapTaken \/ MapRejected \/ Audited
    BY <1>9, MapTakenKeeps, MapRejectedKeeps, AuditedKeeps
<1>10. CASE ChunkValued \/ ChunkRejected \/ QueryAnswered
    BY <1>10, ChunkValuedKeeps, ChunkRejectedKeeps, QueryAnsweredKeeps
<1>11. CASE UNCHANGED vars
    BY <1>11, CacheInvStutters
<1> QED
    BY <1>1, <1>2, <1>3, <1>4, <1>5, <1>6, <1>7, <1>8, <1>9, <1>10, <1>11 DEF Next

\* The invariant of the elicitation over the cache (llm/cache.py and
\* compute_elicitation_cache of examples/run_live_llm_curated_batch.py).
THEOREM CacheInvariant == Spec => []CacheInv
<1>1. Init => CacheInv
    BY CacheInvInit
<1>2. CacheInv /\ [Next]_vars => CacheInv'
    BY CacheInvNext
<1> QED
    BY <1>1, <1>2, PTL DEF Spec

\* Replays are faithful: an answered call replays to the same answer until it is
\* refreshed, through crashes, retries and the evictions of others (llm/cache.py).
THEOREM AnswersAreReplayed == Spec => []AnswersReplay
<1>1. CacheInv => AnswersReplay
    <2> SUFFICES ASSUME CacheInv, NEW r \in DOMAIN settled,
                        r.kind \notin Evicting \/ settled[r].attempt = 1
                 PROVE  Replay(r) = settled[r].text
        BY DEF AnswersReplay
    <2>1. \A k \in DOMAIN store : store[k] \in Texts
        BY DEF CacheInv, StoreOk
    <2>2. Answered(store, r, settled[r].text) \/ First(store, r, settled[r].text)
        BY DEF CacheInv, SettledIn
    <2> QED
        BY <2>1, <2>2, ReplaysAre
<1> QED
    BY <1>1, CacheInvariant, PTL

\* A vouched answer replays with the readings that took it.
LEMMA VouchedReplays ==
    ASSUME CacheInv, NEW b, NEW answer, VouchedBy(store, b, answer, 1)
    PROVE  Vouched(b, answer, 1)
<1>1. \A k \in DOMAIN store : store[k] \in Texts
    BY DEF CacheInv, StoreOk
<1>2. PICK t : /\ ReadAs(store, b, answer, 1, t)
               /\ (Claims(Extraction[t]) = {} \/ Seconded(store, b, answer, 1, t))
    BY DEF VouchedBy
<1>3. /\ t \in Good /\ Discloses(Extraction[t], Truth[b], Items)
      /\ Replay(ExtractionPrompt(b, answer, 1)) = t
    BY <1>1, <1>2, ReplaysAre DEF ReadAs, First
<1>4. Seconded(store, b, answer, 1, t) =>
        \E u \in Good : /\ Replay(EntailmentPrompt(b, answer, 1, Extraction[t])) = u
                        /\ Discloses(Upheld(Extraction[t], UpheldModes[u]), Truth[b], Items)
    <2>1. \A r, u : First(store, r, u) => u \in Good /\ Replay(r) = u
        BY <1>1, ReplaysAre DEF First
    <2> QED
        BY <2>1 DEF Seconded
<1> QED
    BY <1>2, <1>3, <1>4 DEF Vouched

\* The stored responses make the map a read-only session derives.
LEMMA MapReplays ==
    ASSUME CacheInv, NEW b, NEW answer, NEW policy, NEW map, MapKept(store, b, answer, policy, map)
    PROVE  ReplayedMap(b, answer, policy) = map
<1>1. \A k \in DOMAIN store : store[k] \in Texts
    BY DEF CacheInv, StoreOk
<1> DEFINE text  == Replay(MapPrompt(b, answer))
           audit(m) == Replay(AuditPrompt(b, answer, m))
<1>2. ReplayedMap(b, answer, policy) =
        IF text = NoText THEN NoMap
        ELSE IF text = "rejected" THEN IF policy = "raise" THEN NoMap ELSE AllItems(Items)
        ELSE Retained(ReadMap(text), audit(ReadMap(text)))
    BY DEF ReplayedMap, ReadMap, Retained
<1>3. NoText # "rejected" /\ NoText \notin Texts /\ "rejected" \notin Texts
    BY CacheAssumption
<1>4. CASE Exhausted(store, MapPrompt(b, answer)) /\ policy # "raise" /\ map = AllItems(Items)
    BY <1>1, <1>2, <1>3, <1>4, ReplaysAre
<1>5. ASSUME NEW t, Answered(store, MapPrompt(b, answer), t),
             \/ (ReadMap(t).complements = {} /\ map = ReadMap(t))
             \/ \E a \in Texts : /\ Holds(store, FirstKey(AuditPrompt(b, answer, ReadMap(t))), a)
                                 /\ map = Retained(ReadMap(t), a)
      PROVE  ReplayedMap(b, answer, policy) = map
    <2>1. text = t /\ t \in Good
        BY <1>1, <1>5, ReplaysAre DEF Answered
    <2>2. ReplayedMap(b, answer, policy) = Retained(ReadMap(t), audit(ReadMap(t)))
        BY <1>2, <1>3, <2>1 DEF Texts
    <2>3. CASE ReadMap(t).complements = {} /\ map = ReadMap(t)
        <3> DEFINE m == ReadMap(t)
        <3>1. m = [interested |-> m.interested, excluded |-> m.excluded,
                   complements |-> m.complements, substitutes |-> m.substitutes]
            BY NormalMapIs DEF ReadMap
        <3> HIDE DEF m
        <3>2. \A a : m.complements = {} => Retained(m, a) = m
            BY <3>1 DEF Retained
        <3> QED
            BY <2>2, <2>3, <3>2 DEF m
    <2>4. ASSUME NEW a \in Texts, Holds(store, FirstKey(AuditPrompt(b, answer, ReadMap(t))), a),
                 map = Retained(ReadMap(t), a)
          PROVE  ReplayedMap(b, answer, policy) = map
        <3> DEFINE r == AuditPrompt(b, answer, ReadMap(t))
        <3>1. Attempts(r.kind) = 1
            BY PromptsAre, AttemptsAre
        <3>2. a \in Good => Replay(r) = a
            BY <1>1, <2>4, ReplaysAre DEF First
        <3>3. a \in Bad => Replay(r) = "rejected"
            BY <1>1, <2>4, <3>1, ReplaysAre DEF Holds
        <3>4. a \in Good \/ (a \notin Good /\ a \in Bad)
            BY DEF Texts
        <3>5. Retained(ReadMap(t), Replay(r)) = Retained(ReadMap(t), a)
            BY <1>3, <3>2, <3>3, <3>4 DEF Retained, Texts
        <3> QED
            BY <2>2, <2>4, <3>5
    <2> QED
        BY <1>5, <2>3, <2>4
<1> QED
    BY <1>4, <1>5 DEF MapKept

\* An elicitation replays as a whole (compute_elicitation_cache of
\* examples/run_live_llm_curated_batch.py over llm/cache.py).
THEOREM ElicitationsReplay == Spec => []ElicitationReplays
<1>1. CacheInv => ElicitationReplays
    <2> SUFFICES ASSUME CacheInv, NEW b \in DOMAIN done, done[b].kept
                 PROVE  /\ done[b].plan.disclosed = NoText =>
                              /\ Replay(AnswerPrompt(b)) = done[b].answer
                              /\ Vouched(b, done[b].answer, 1)
                        /\ ReplayedMap(b, done[b].answer, done[b].plan.policy) = done[b].map
                        /\ \A c \in ChunksOf(done[b].map) : \A bundle \in ToSet(c) :
                              done[b].values[bundle]
                                = Replay(ValuePrompt(b, done[b].answer, done[b].map, c))
        BY DEF ElicitationReplays
    <2> DEFINE e == done[b]
    <2>1. /\ AnswerKept(store, b, e.plan, e.answer)
          /\ MapKept(store, b, e.answer, e.plan.policy, e.map)
          /\ ValuesKept(store, b, e.answer, e.map, ToSet(AllChunks(e.map)), e.values)
        BY DEF CacheInv, EntriesOk, EntryKept
    <2>2. \A r, t : First(store, r, t) => Replay(r) = t
        BY ReplaysAre DEF CacheInv, StoreOk
    <2>3. e.plan.disclosed = NoText =>
             Replay(AnswerPrompt(b)) = e.answer /\ Vouched(b, e.answer, 1)
        BY <2>1, <2>2, VouchedReplays DEF AnswerKept
    <2>4. ReplayedMap(b, e.answer, e.plan.policy) = e.map
        BY <2>1, MapReplays
    <2>5. ASSUME NEW c \in ChunksOf(e.map), NEW bundle \in ToSet(c)
          PROVE  e.values[bundle] = Replay(ValuePrompt(b, e.answer, e.map, c))
        BY <2>1, <2>2 DEF ValuesKept, ChunksOf, AllChunks, Candidates
    <2> QED
        BY <2>3, <2>4, <2>5
<1> QED
    BY <1>1, CacheInvariant, PTL

\* What is valued is what the map says, however it was normalised, audited, ordered,
\* cut and chunked (llm/interest_map.py).
THEOREM ComplementsAreAlwaysValued == Spec => []ComplementsAreValued
<1>1. CacheInv => ComplementsAreValued
    <2> SUFFICES ASSUME CacheInv, NEW b \in DOMAIN done
                 PROVE  /\ \/ done[b].map.complements \subseteq DOMAIN done[b].values
                           \/ /\ DOMAIN done[b].values \subseteq done[b].map.complements
                              /\ Cardinality(DOMAIN done[b].values) = MaxCandidates
                        /\ \A bundle \in DOMAIN done[b].values, g \in ChooseOne(done[b].map) :
                              ~Shares(bundle, g)
        BY DEF ComplementsAreValued
    <2> DEFINE map == done[b].map
    <2>1. NormalForm(map, Items) /\ DOMAIN done[b].values = ToSet(Candidates(map))
        BY DEF CacheInv, EntriesOk, EntryShape
    <2>2. CandidatesAre(Candidates(map), map, MaxCandidates)
        BY <2>1, ChunksOfMap
    <2>3. ToSet(Candidates(map)) \subseteq ValidBundles(map)
        BY <2>2 DEF CandidatesAre, ToSet
    <2> QED
        BY <2>1, <2>2, <2>3 DEF CandidatesAre, ValidBundles
<1> QED
    BY <1>1, CacheInvariant, PTL

\* A response an evicting caller rejects does not stay, but for those a kill or a
\* failed call leaves behind (invalidate_last of llm/cache.py and its callers).
THEOREM RejectedAreAlwaysEvicted == Spec => []RejectedAreEvicted
<1>1. CacheInv => RejectedAreEvicted
    <2> SUFFICES ASSUME CacheInv PROVE RejectedAreEvicted
        OBVIOUS
    <2> DEFINE rejected == {k \in DOMAIN store :
            /\ k[1].kind \in Evicting
            /\ \/ store[k] \in Bad
               \/ /\ k[1].kind = "person_nl_response" /\ k[2] = 1
                  /\ TurnedDown(k[1].bidder, store[k], 1)}
               hand == IF call.stage = "parse" \/ task.stage \in {"extract", "entail"} THEN 1 ELSE 0
    <2>1. \A k \in DOMAIN store : store[k] \in Texts
        BY DEF CacheInv, StoreOk
    <2>2. ASSUME NEW b, NEW answer, TurnedDown(b, answer, 1)
          PROVE  TurnedDownBy(store, b, answer, 1)
        <3> DEFINE r == ExtractionPrompt(b, answer, 1)
                   k == FirstKey(r)
        <3>1. \/ Replay(r) = "rejected"
              \/ Replay(r) \in Good /\ ~Discloses(Extraction[Replay(r)], Truth[b], Items)
            BY <2>2 DEF TurnedDown
        <3>2. k \in DOMAIN store
            BY <2>1, <3>1, ReplaysAre, CacheAssumption DEF Texts
        <3>3. store[k] \in Good => Replay(r) = store[k]
            BY <2>1, <3>2, ReplaysAre DEF First, Holds
        <3>4. "rejected" \notin Good
            BY CacheAssumption DEF Texts
        <3> QED
            BY <3>1, <3>2, <3>3, <3>4 DEF TurnedDownBy
    <2>3. rejected \subseteq Left \cup InHand
        <3> SUFFICES ASSUME NEW k \in rejected
                     PROVE  IsRejected(store, k)
            BY DEF Left
        <3> QED
            BY <2>2 DEF IsRejected
    <2>4. IsFiniteSet(Left) /\ Cardinality(Left) \in Nat
        BY FS_Subset, FS_CardinalityType DEF CacheInv, StoreOk, Left
    <2>5. crashes \in Nat /\ failures \in Nat /\ Cardinality(Left) <= crashes + failures
        BY DEF CacheInv, FewLeft
    <2>6. RejectedAreEvicted <=> Cardinality(rejected) <= crashes + failures + hand
        BY DEF RejectedAreEvicted
    <2>7. hand \in {0, 1} /\ (hand = 0 => InHand = {})
        BY DEF InHand
    <2> HIDE DEF rejected, hand, Left
    <2>8. CASE InHand = {}
        <3>1. Cardinality(rejected) <= Cardinality(Left) /\ Cardinality(rejected) \in Nat
            BY <2>3, <2>4, <2>8, FS_Subset, FS_CardinalityType
        <3> QED
            BY <2>4, <2>5, <2>6, <2>7, <3>1
    <2>9. CASE InHand # {}
        <3>1. PICK x : InHand = {x}
            BY <2>9, InHandIs
        <3> DEFINE more == Left \cup {x}
        <3>2. IsFiniteSet(more) /\ (Cardinality(more) = Cardinality(Left)
                                     \/ Cardinality(more) = Cardinality(Left) + 1)
            BY <2>4, FS_AddElement
        <3>3. rejected \subseteq more
            BY <2>3, <3>1
        <3> HIDE DEF more
        <3>4. Cardinality(rejected) <= Cardinality(more) /\ Cardinality(rejected) \in Nat
              /\ Cardinality(more) \in Nat
            BY <3>2, <3>3, FS_Subset, FS_CardinalityType
        <3>5. hand = 1
            BY <2>7, <2>9
        <3> QED
            BY <2>4, <2>5, <2>6, <3>2, <3>4, <3>5
    <2> QED
        BY <2>8, <2>9
<1> QED
    BY <1>1, CacheInvariant, PTL
=============================================================================
