------------------------ MODULE ClockElicitationProofs ------------------------
(***************************************************************************)
(* Theorems about the clock over proxies refined on the way, for any       *)
(* number of bidders and items, any values and guesses, any number of      *)
(* rounds and any policies: what the terminal audits verify, what reaches  *)
(* the bids that are priced and with which values, by how much a cap is    *)
(* overrun, and that the audit loops have the iterations they need.        *)
(*                                                                         *)
(* Facts come first about what queries make of a session: each kind of     *)
(* question, then the events of a bidder, the passes of the terminal       *)
(* audits.  From them follows that every step keeps EInv.                  *)
(*                                                                         *)
(* The last part is about the recorder that watches the clock: it changes  *)
(* nothing, and RecordInv, which every recorded step keeps, says what it   *)
(* knows between any two answers.                                          *)
(***************************************************************************)
EXTENDS ClockTrajectory, ClockProofs

\* Where two sets of numbers first differ decides which one comes first as a tuple.
LEMMA LexAt ==
    ASSUME NEW a \in SUBSET Nat, NEW b \in SUBSET Nat, NEW d \in Nat,
           d \in a <=> d \notin b, \A n \in Nat : n < d => (n \in a <=> n \in b)
    PROVE  LexLess(a, b) <=> IF d \in a THEN \E y \in b : y > d ELSE \A x \in a : x < d
<1>1. a # b
    OBVIOUS
<1>2. /\ Min(SymDiff(a, b)) \in SymDiff(a, b)
      /\ \A n \in Nat : n < Min(SymDiff(a, b)) => (n \in a <=> n \in b)
    BY <1>1, FirstDifference
<1> DEFINE m == Min(SymDiff(a, b))
<1>3. m \in Nat /\ (m \in a <=> m \notin b) /\ \A n \in Nat : n < m => (n \in a <=> n \in b)
    BY <1>2 DEF SymDiff
<1>4. LexLess(a, b) <=> IF m \in a THEN \E y \in b : y > m ELSE \A x \in a : x < m
    BY <1>1 DEF LexLess
<1> HIDE DEF m
<1>5. m = d
    <2>1. ~(m < d) /\ ~(d < m)
        BY <1>3
    <2> QED
        BY <1>3, <2>1
<1> QED
    BY <1>4, <1>5

\* Two different sets of numbers differ somewhere for the first time.
LEMMA DiffersFirst ==
    ASSUME NEW a \in SUBSET Nat, NEW b \in SUBSET Nat, a # b
    PROVE  \E d \in Nat : /\ d \in a <=> d \notin b
                          /\ \A n \in Nat : n < d => (n \in a <=> n \in b)
<1>1. /\ Min(SymDiff(a, b)) \in SymDiff(a, b)
      /\ \A n \in Nat : n < Min(SymDiff(a, b)) => (n \in a <=> n \in b)
    BY FirstDifference
<1> DEFINE m == Min(SymDiff(a, b))
<1>2. m \in Nat /\ (m \in a <=> m \notin b) /\ \A n \in Nat : n < m => (n \in a <=> n \in b)
    BY <1>1 DEF SymDiff
<1> HIDE DEF m
<1> QED
    BY <1>2

\* Tuples of numbers are strictly and totally ordered, whatever their lengths.
LEMMA LexOrders ==
    ASSUME NEW a \in SUBSET Nat, NEW b \in SUBSET Nat, NEW c \in SUBSET Nat
    PROVE  /\ ~LexLess(a, a)
           /\ LexLess(a, b) /\ LexLess(b, c) => LexLess(a, c)
           /\ a # b => LexLess(a, b) \/ LexLess(b, a)
<1>1. ~LexLess(a, a)
    BY DEF LexLess
<1>2. ASSUME a # b
      PROVE  LexLess(a, b) \/ LexLess(b, a)
    <2>1. PICK d \in Nat : /\ d \in a <=> d \notin b
                           /\ \A n \in Nat : n < d => (n \in a <=> n \in b)
        BY <1>2, DiffersFirst
    <2>2. LexLess(a, b) <=> IF d \in a THEN \E y \in b : y > d ELSE \A x \in a : x < d
        BY <2>1, LexAt
    <2>3. LexLess(b, a) <=> IF d \in b THEN \E y \in a : y > d ELSE \A x \in b : x < d
        <3>1. (d \in b <=> d \notin a) /\ \A n \in Nat : n < d => (n \in b <=> n \in a)
            BY <2>1
        <3> QED
            BY <3>1, LexAt
    <2> QED
        BY <2>1, <2>2, <2>3
<1>3. ASSUME LexLess(a, b), LexLess(b, c)
      PROVE  LexLess(a, c)
    <2>1. a # b /\ b # c
        BY <1>3 DEF LexLess
    <2>2. PICK d \in Nat : /\ d \in a <=> d \notin b
                           /\ \A n \in Nat : n < d => (n \in a <=> n \in b)
        BY <2>1, DiffersFirst
    <2>3. PICK e \in Nat : /\ e \in b <=> e \notin c
                           /\ \A n \in Nat : n < e => (n \in b <=> n \in c)
        BY <2>1, DiffersFirst
    <2>4. IF d \in a THEN \E y \in b : y > d ELSE \A x \in a : x < d
        BY <1>3, <2>2, LexAt
    <2>5. IF e \in b THEN \E y \in c : y > e ELSE \A x \in b : x < e
        BY <1>3, <2>3, LexAt
    <2>6. CASE d < e
        <3>1. (d \in a <=> d \notin c) /\ \A n \in Nat : n < d => (n \in a <=> n \in c)
            BY <2>2, <2>3, <2>6
        <3>2. IF d \in a THEN \E y \in c : y > d ELSE \A x \in a : x < d
            <4> SUFFICES ASSUME d \in a
                         PROVE  \E y \in c : y > d
                BY <2>4
            <4>1. CASE e \in c
                BY <2>6, <4>1
            <4>2. CASE e \in b
                BY <2>5, <2>6, <4>2
            <4> QED
                BY <2>3, <4>1, <4>2
        <3> QED
            BY <3>1, <3>2, LexAt
    <2>7. CASE e < d
        <3>1. (e \in a <=> e \notin c) /\ \A n \in Nat : n < e => (n \in a <=> n \in c)
            BY <2>2, <2>3, <2>7
        <3>2. IF e \in a THEN \E y \in c : y > e ELSE \A x \in a : x < e
            <4>1. CASE e \in b
                BY <2>2, <2>5, <2>7, <4>1
            <4>2. CASE e \notin b
                <5>1. \A x \in b : x < e
                    BY <2>5, <4>2
                <5>2. d \in a => FALSE
                    BY <2>4, <2>7, <5>1
                <5>3. d \notin a => FALSE
                    BY <2>2, <2>7, <5>1
                <5> QED
                    BY <5>2, <5>3
            <4> QED
                BY <4>1, <4>2
        <3> QED
            BY <3>1, <3>2, LexAt
    <2>8. CASE e = d
        <3>1. CASE d \in a
            BY <2>2, <2>3, <2>4, <2>5, <2>8, <3>1
        <3>2. CASE d \notin a
            <4>1. d \in b /\ d \notin c /\ (\A x \in a : x < d) /\ \E y \in c : y > d
                BY <2>2, <2>3, <2>4, <2>5, <2>8, <3>2
            <4>2. a # c
                BY <4>1
            <4>3. PICK f \in Nat : /\ f \in a <=> f \notin c
                                   /\ \A n \in Nat : n < f => (n \in a <=> n \in c)
                BY <4>2, DiffersFirst
            <4>4. ~(f < d) /\ f # d
                BY <2>2, <2>3, <2>8, <4>1, <4>3
            <4>5. f \notin a /\ \A x \in a : x < f
                BY <4>1, <4>4
            <4> QED
                BY <4>3, <4>5, LexAt
        <3> QED
            BY <3>1, <3>2
    <2> QED
        BY <2>6, <2>7, <2>8
<1> QED
    BY <1>1, <1>2, <1>3

\* What is strictly and totally ordered, finite and not empty, has a first element.
LEMMA FirstOfOrder ==
    ASSUME NEW S, IsFiniteSet(S), S # {}, NEW R, Orders(R, S)
    PROVE  \E b \in S : \A c \in S \ {b} : <<b, c>> \in R /\ <<c, b>> \notin R
<1>1. Cardinality(S) \in Nat /\ Cardinality(S) # 0
    BY FS_CardinalityType, FS_EmptySet
<1>2. PICK b \in S : Cardinality(Predecessors(R, S, b)) + 1 = 1
    <2>1. 1 \in 1..Cardinality(S)
        BY <1>1
    <2> QED
        BY <2>1, PlacesAreTaken
<1>3. Predecessors(R, S, b) = {}
    <2>1. IsFiniteSet(Predecessors(R, S, b))
        BY FS_Subset DEF Predecessors
    <2>2. Cardinality(Predecessors(R, S, b)) = 0
        BY <1>2, <2>1, FS_CardinalityType
    <2> QED
        BY <2>1, <2>2, FS_EmptySet
<1> QED
    BY <1>3 DEF Predecessors, Orders

\* The function a fold over the numbers up to m is made of, where next says what a
\* number makes of a value.
Folds(f, base, next, m) ==
    f = [S \in SUBSET (1..m) |->
            IF S = {} THEN base ELSE next[<<f[S \ {Max(S)}], Max(S)>>]]

\* There is such a function, and its values are of the kind that next makes.
LEMMA FoldExists ==
    ASSUME NEW m \in Nat, NEW U, NEW base \in U, NEW next \in [U \X (1..m) -> U]
    PROVE  \E f \in [SUBSET (1..m) -> U] : Folds(f, base, next, m)
<1> DEFINE Upto(n)  == {T \in SUBSET (1..m) : Cardinality(T) <= n}
           Sol(f, n) == /\ f = [S \in Upto(n) |->
                                   IF S = {} THEN base ELSE next[<<f[S \ {Max(S)}], Max(S)>>]]
                        /\ f \in [Upto(n) -> U]
           Z == {n \in Nat : \E f : Sol(f, n)}
<1>1. ASSUME NEW T \in SUBSET (1..m)
      PROVE  IsFiniteSet(T) /\ Cardinality(T) \in Nat
    <2>1. IsFiniteSet(1..m)
        BY FS_Interval
    <2>2. IsFiniteSet(T)
        BY <2>1, FS_Subset
    <2> QED
        BY <2>2, FS_CardinalityType
<1>2. ASSUME NEW T \in SUBSET (1..m), T # {}
      PROVE  /\ T \ {Max(T)} \in SUBSET (1..m) /\ Max(T) \in 1..m
             /\ Cardinality(T \ {Max(T)}) = Cardinality(T) - 1
    <2>1. Max(T) \in T /\ IsFiniteSet(T)
        <3>1. IsFiniteSet(T) /\ T \subseteq Int
            BY <1>1
        <3> QED
            BY <1>2, <3>1, MaxIsGreatest
    <2> QED
        BY <2>1, FS_RemoveElement
<1>3. 0 \in Z
    <2>1. \A T \in Upto(0) : T = {}
        BY <1>1, FS_EmptySet
    <2>2. Sol([S \in Upto(0) |-> base], 0)
        BY <2>1
    <2> QED
        BY <2>2
<1>4. ASSUME NEW n \in Nat, n \in Z
      PROVE  n + 1 \in Z
    <2>1. PICK g : Sol(g, n)
        BY <1>4
    <2> DEFINE h == [S \in Upto(n + 1) |->
                        IF S = {} THEN base ELSE next[<<g[S \ {Max(S)}], Max(S)>>]]
    <2>2. Upto(n) \subseteq Upto(n + 1)
        BY <1>1
    <2>3. ASSUME NEW S \in Upto(n + 1), S # {}
          PROVE  S \ {Max(S)} \in Upto(n) /\ Max(S) \in 1..m
        <3>1. S \in SUBSET (1..m) /\ Cardinality(S) <= n + 1 /\ Cardinality(S) \in Nat
            BY <1>1
        <3>2. /\ S \ {Max(S)} \in SUBSET (1..m) /\ Max(S) \in 1..m
              /\ Cardinality(S \ {Max(S)}) = Cardinality(S) - 1
            BY <1>2, <2>3, <3>1
        <3>3. Cardinality(S \ {Max(S)}) <= n
            BY <3>1, <3>2
        <3> QED
            BY <3>2, <3>3
    <2>4. \A T \in Upto(n) : g[T] = h[T]
        <3> HIDE DEF Upto
        <3> QED
            BY <2>1, <2>2
    <2>5. Sol(h, n + 1)
        <3>1. \A S \in Upto(n + 1) : S # {} => g[S \ {Max(S)}] = h[S \ {Max(S)}]
            BY <2>3, <2>4
        <3>2. \A S \in Upto(n + 1) : S # {} => next[<<g[S \ {Max(S)}], Max(S)>>] \in U
            <4> HIDE DEF Upto
            <4> QED
                BY <2>1, <2>3
        <3> HIDE DEF Upto
        <3>3. h \in [Upto(n + 1) -> U]
            BY <3>2
        <3> QED
            BY <3>1, <3>3
    <2> HIDE DEF Sol, h
    <2> QED
        BY <2>5
<1>5. m \in Z
    <2> HIDE DEF Z
    <2>1. Nat \subseteq Z
        BY <1>3, <1>4, NatSetInduction
    <2> QED
        BY <2>1
<1>6. Upto(m) = SUBSET (1..m)
    <2>1. ASSUME NEW T \in SUBSET (1..m)
          PROVE  Cardinality(T) <= m
        <3>1. IsFiniteSet(1..m) /\ Cardinality(1..m) = m
            BY FS_Interval
        <3>2. T \subseteq 1..m
            OBVIOUS
        <3>3. Cardinality(T) <= Cardinality(1..m)
            BY <3>1, <3>2, FS_Subset
        <3> QED
            BY <3>1, <3>3
    <2> QED
        BY <2>1
<1>7. PICK f : Sol(f, m)
    BY <1>5
<1>8. Folds(f, base, next, m) /\ f \in [SUBSET (1..m) -> U]
    BY <1>6, <1>7 DEF Folds
<1> QED
    BY <1>8

\* The largest number of a beginning of the naturals, and what is left without it.
LEMMA Beginning ==
    ASSUME NEW k \in Nat \ {0}
    PROVE  1..k # {} /\ Max(1..k) = k /\ (1..k) \ {Max(1..k)} = 1..k - 1
<1>1. 1..k \subseteq Int /\ k \in 1..k /\ \A y \in 1..k : y <= k
    OBVIOUS
<1>2. Max(1..k) = k
    BY <1>1, MaxIs
<1> QED
    BY <1>2

\* What every step keeps, the steps reach.
LEMMA StepByStep ==
    ASSUME NEW m \in Nat, NEW g, NEW U, g[0] \in U,
           \A k \in 1..m : g[k - 1] \in U => g[k] \in U
    PROVE  \A k \in 0..m : g[k] \in U
<1> DEFINE Z == {k \in Nat : k <= m => g[k] \in U}
<1>1. 0 \in Z
    OBVIOUS
<1>2. ASSUME NEW k \in Nat, k \in Z
      PROVE  k + 1 \in Z
    <2> SUFFICES ASSUME k + 1 <= m
                 PROVE  g[k + 1] \in U
        OBVIOUS
    <2> DEFINE n == k + 1
    <2>1. n \in 1..m /\ n - 1 = k /\ g[k] \in U
        BY <1>2
    <2> HIDE DEF n
    <2>2. g[n] \in U
        BY <2>1
    <2> QED
        BY <2>2 DEF n
<1> HIDE DEF Z
<1>3. Nat \subseteq Z
    BY <1>1, <1>2, NatSetInduction
<1> QED
    BY <1>3 DEF Z


\* The largest of some of the numbers up to m is one of them.
LEMMA LargestOfPart ==
    ASSUME NEW m \in Nat
    PROVE  \A S \in SUBSET (1..m) :
              S # {} => Max(S) \in 1..m /\ S \ {Max(S)} \in SUBSET (1..m)
<1> SUFFICES ASSUME NEW S \in SUBSET (1..m), S # {}
             PROVE  Max(S) \in 1..m
    OBVIOUS
<1>1. IsFiniteSet(S) /\ S \subseteq Int
    <2>1. IsFiniteSet(1..m)
        BY FS_Interval
    <2>2. IsFiniteSet(S)
        BY <2>1, FS_Subset
    <2>3. S \subseteq Int
        OBVIOUS
    <2> QED
        BY <2>2, <2>3
<1> QED
    BY <1>1, MaxIsGreatest
-----------------------------------------------------------------------------
(* Bids and what the solver makes of them.                                 *)

\* What a bid, or a record of part of it, may say.
Reports == UNION {[D -> Nat] : D \in SUBSET Named}

\* A report is a function, and nothing else is.
LEMMA ReportIs ==
    ASSUME NEW r
    PROVE  r \in Reports <=> r \in [DOMAIN r -> Nat] /\ DOMAIN r \in SUBSET Named
BY DEF Reports

\* There are finitely many bundles, and each is a finite set of numbers with something
\* in it.
LEMMA NamedFacts ==
    /\ IsFiniteSet(Named) /\ {} \notin Named /\ Named \subseteq Bundles
    /\ Cardinality(Named) \in Nat
    /\ \A b \in Named : b \in SUBSET Nat /\ IsFiniteSet(b) /\ b # {}
<1>1. IsFiniteSet(Named)
    BY BundlesFinite, FS_Subset DEF Named
<1>2. \A b \in Named : b \in SUBSET Nat /\ IsFiniteSet(b) /\ b # {}
    BY BundleFacts DEF Named
<1> QED
    BY <1>1, <1>2, FS_CardinalityType DEF Named

\* The order lists finitely many bidders.
LEMMA ListedBidders ==
    /\ Len(Order) \in Nat
    /\ DOMAIN Order = 1..Len(Order)
    /\ IsFiniteSet(DOMAIN Order) /\ DOMAIN Order \in SUBSET Nat
    /\ \A k \in DOMAIN Order : Order[k] \in Bidders
    /\ \A i \in Bidders : \E k \in DOMAIN Order : Order[k] = i
    /\ IsFiniteSet(Bidders)
<1>1. Len(Order) \in Nat /\ DOMAIN Order = 1..Len(Order)
    BY BiddersAssumption
<1>2. IsFiniteSet(1..Len(Order)) /\ 1..Len(Order) \in SUBSET Nat
    BY <1>1, FS_Interval
<1> QED
    BY <1>1, <1>2, BiddersAssumption

\* Reports of some of the bidders are a profile.
LEMMA ReportsAreProfiles ==
    ASSUME NEW S \in SUBSET Bidders, NEW bids \in [S -> Reports]
    PROVE  /\ IsProfile(bids) /\ DOMAIN bids = S
           /\ \A i \in S : /\ DOMAIN bids[i] \subseteq Named
                           /\ IsFiniteSet(DOMAIN bids[i])
                           /\ bids[i] \in [DOMAIN bids[i] -> Nat]
                           /\ \A b \in DOMAIN bids[i] : IsFiniteSet(b)
<1>1. \A i \in S : DOMAIN bids[i] \subseteq Named /\ bids[i] \in [DOMAIN bids[i] -> Nat]
    BY ReportIs
<1>2. \A i \in S : IsFiniteSet(DOMAIN bids[i]) /\ {} \notin DOMAIN bids[i]
    BY <1>1, NamedFacts, FS_Subset
<1>3. \A i \in S : IsBid(bids[i])
    BY <1>1, <1>2 DEF IsBid
<1>4. IsFiniteSet(S)
    BY ListedBidders, FS_Subset
<1>5. IsProfile(bids) /\ DOMAIN bids = S
    BY <1>3, <1>4 DEF IsProfile
<1> QED
    BY <1>1, <1>2, <1>5, NamedFacts

\* What the solver makes of bids awards every bidder an atom of its bid or nothing.
LEMMA SolveIs ==
    ASSUME NEW S \in SUBSET Bidders, NEW bids \in [S -> Reports]
    PROVE  /\ DOMAIN Solve(bids) = S
           /\ \A i \in S : Solve(bids)[i] \in DOMAIN bids[i] \cup {{}}
           /\ Solve(bids) \in [S -> Bundles]
           /\ Welfare(bids, Solve(bids)) \in Int
<1>1. /\ Solve(bids) \in Feasible(bids)
      /\ \A i \in S : Solve(bids)[i] \in DOMAIN bids[i] \cup {{}}
    BY ReportsAreProfiles, SolvedIsOptimal DEF Solve
<1>2. Solve(bids) = [i \in S |-> Solve(bids)[i]] /\ DOMAIN Solve(bids) = S
    BY <1>1, FeasibleIs, ReportsAreProfiles
<1>3. \A i \in S : DOMAIN bids[i] \subseteq Bundles
    BY ReportsAreProfiles, NamedFacts
<1>4. {} \in Bundles
    BY DEF Bundles
<1>5. Welfare(bids, Solve(bids)) \in Nat
    BY <1>1, ReportsAreProfiles, OptimumIsGreatest
<1>6. \A i \in S : Solve(bids)[i] \in Bundles
    BY <1>1, <1>3, <1>4
<1>7. Solve(bids) \in [S -> Bundles]
    BY <1>2, <1>6
<1> QED
    BY <1>1, <1>2, <1>5, <1>7

\* A part of a report is one.
LEMMA PartOfReport ==
    ASSUME NEW r \in Reports, NEW D, D \subseteq DOMAIN r
    PROVE  /\ Restrict(r, D) \in Reports /\ DOMAIN Restrict(r, D) = D
           /\ \A b \in D : Restrict(r, D)[b] = r[b]
<1>1. r \in [DOMAIN r -> Nat] /\ DOMAIN r \in SUBSET Named
    BY ReportIs
<1>2. /\ Restrict(r, D) \in [D -> Nat] /\ D \in SUBSET Named /\ DOMAIN Restrict(r, D) = D
      /\ \A b \in D : Restrict(r, D)[b] = r[b]
    BY <1>1 DEF Restrict
<1> QED
    BY <1>2, ReportIs

\* The gap of a forced allocation is a number.
LEMMA ForcedGapType ==
    ASSUME NEW bids \in [Bidders -> Reports], NEW i \in Bidders, NEW b \in DOMAIN bids[i],
           NEW welfare \in Int
    PROVE  ForcedGap(bids, i, b, welfare) \in Int
<1> DEFINE around(bid) == Restrict(bid, {a \in DOMAIN bid : a \cap b = {}})
           residual == [j \in DOMAIN bids \ {i} |-> around(bids[j])]
<1>1. DOMAIN bids = Bidders /\ bids[i] \in [DOMAIN bids[i] -> Nat]
    BY ReportIs
<1>2. \A j \in Bidders : around(bids[j]) \in Reports
    <2> SUFFICES ASSUME NEW j \in Bidders
                 PROVE  around(bids[j]) \in Reports
        OBVIOUS
    <2>1. bids[j] \in Reports /\ {a \in DOMAIN bids[j] : a \cap b = {}} \subseteq DOMAIN bids[j]
        OBVIOUS
    <2> QED
        BY <2>1, PartOfReport
<1>3. residual \in [Bidders \ {i} -> Reports]
    <2> HIDE DEF around
    <2> QED
        BY <1>1, <1>2
<1>4. ForcedGap(bids, i, b, welfare) = welfare - (bids[i][b] + OptWelfare(residual))
    BY DEF ForcedGap
<1> HIDE DEF residual
<1>5. OptWelfare(residual) \in Nat
    <2>1. Bidders \ {i} \in SUBSET Bidders
        OBVIOUS
    <2> QED
        BY <1>3, <2>1, ReportsAreProfiles, OptimumIsGreatest
<1> QED
    BY <1>1, <1>4, <1>5

\* A number without its sign is one.
LEMMA MagnitudeType ==
    ASSUME NEW n \in Int
    PROVE  Magnitude(n) \in Int
BY DEF Magnitude

-----------------------------------------------------------------------------
(* Rankings.                                                               *)

\* Keys of the same length are strictly and totally ordered.
LEMMA KeysOrder ==
    ASSUME NEW n \in Nat, NEW k \in [1..n -> Int], NEW l \in [1..n -> Int],
           NEW m \in [1..n -> Int]
    PROVE  /\ ~KeyBefore(k, k)
           /\ KeyBefore(k, l) /\ KeyBefore(l, m) => KeyBefore(k, m)
           /\ k # l => KeyBefore(k, l) \/ KeyBefore(l, k)
<1>1. \A x, y \in [1..n -> Int] :
          KeyBefore(x, y) <=> \E p \in 1..n : x[p] < y[p] /\ \A q \in 1..p - 1 : x[q] = y[q]
    BY DEF KeyBefore
<1>2. ~KeyBefore(k, k)
    BY <1>1
<1>3. ASSUME KeyBefore(k, l), KeyBefore(l, m)
      PROVE  KeyBefore(k, m)
    <2>1. PICK p \in 1..n : k[p] < l[p] /\ \A q \in 1..p - 1 : k[q] = l[q]
        BY <1>1, <1>3
    <2>2. PICK r \in 1..n : l[r] < m[r] /\ \A q \in 1..r - 1 : l[q] = m[q]
        BY <1>1, <1>3
    <2>3. CASE p < r
        <3>1. k[p] < m[p]
            BY <2>1, <2>2, <2>3
        <3>2. \A q \in 1..p - 1 : k[q] = m[q]
            BY <2>1, <2>2, <2>3
        <3> QED
            BY <1>1, <3>1, <3>2
    <2>4. CASE r < p
        <3>1. k[r] < m[r]
            BY <2>1, <2>2, <2>4
        <3>2. \A q \in 1..r - 1 : k[q] = m[q]
            BY <2>1, <2>2, <2>4
        <3> QED
            BY <1>1, <3>1, <3>2
    <2>5. CASE r = p
        <3>1. k[r] < m[r]
            BY <2>1, <2>2, <2>5
        <3>2. \A q \in 1..r - 1 : k[q] = m[q]
            BY <2>1, <2>2, <2>5
        <3> QED
            BY <1>1, <3>1, <3>2
    <2> QED
        BY <2>3, <2>4, <2>5
<1>4. ASSUME k # l
      PROVE  KeyBefore(k, l) \/ KeyBefore(l, k)
    <2> DEFINE P == {p \in 1..n : k[p] # l[p]}
    <2>1. P \in SUBSET Nat /\ P # {}
        BY <1>4
    <2> DEFINE p == CHOOSE q \in P : \A r \in P : q <= r
    <2>2. p \in P /\ \A r \in P : p <= r
        <3> HIDE DEF P
        <3> QED
            BY <2>1, FirstPosition
    <2> HIDE DEF p
    <2>3. p \in 1..n /\ k[p] # l[p] /\ \A q \in 1..p - 1 : k[q] = l[q]
        BY <2>2
    <2>4. k[p] < l[p] \/ l[p] < k[p]
        BY <2>3
    <2> QED
        BY <1>1, <2>3, <2>4
<1> QED
    BY <1>2, <1>3, <1>4

\* The candidate with the least key is one of them.
LEMMA LeastByIs ==
    ASSUME NEW candidates \in SUBSET Named, NEW n \in Nat, NEW key,
           \A b \in candidates : key[b] \in [1..n -> Int]
    PROVE  /\ candidates = {} => LeastBy(candidates, key) = {}
           /\ candidates # {} => LeastBy(candidates, key) \in candidates
           /\ LeastBy(candidates, key) \in candidates \cup {{}}
<1>1. CASE candidates = {}
    BY <1>1 DEF LeastBy
<1>2. CASE candidates # {}
    <2> DEFINE before(b, c) == \/ KeyBefore(key[b], key[c])
                               \/ key[b] = key[c] /\ LexLess(b, c)
               R == {bc \in candidates \X candidates : before(bc[1], bc[2])}
    <2>1. \A b \in candidates : b \in SUBSET Nat
        BY NamedFacts
    <2>2. \A b, c, d \in candidates :
              /\ ~KeyBefore(key[b], key[b]) /\ ~LexLess(b, b)
              /\ KeyBefore(key[b], key[c]) /\ KeyBefore(key[c], key[d]) => KeyBefore(key[b], key[d])
              /\ LexLess(b, c) /\ LexLess(c, d) => LexLess(b, d)
        <3> SUFFICES ASSUME NEW b \in candidates, NEW c \in candidates, NEW d \in candidates
                     PROVE  /\ ~KeyBefore(key[b], key[b]) /\ ~LexLess(b, b)
                            /\ KeyBefore(key[b], key[c]) /\ KeyBefore(key[c], key[d])
                                   => KeyBefore(key[b], key[d])
                            /\ LexLess(b, c) /\ LexLess(c, d) => LexLess(b, d)
            OBVIOUS
        <3>1. ~LexLess(b, b) /\ (LexLess(b, c) /\ LexLess(c, d) => LexLess(b, d))
            BY <2>1, LexOrders
        <3>2. key[b] \in [1..n -> Int] /\ key[c] \in [1..n -> Int] /\ key[d] \in [1..n -> Int]
            OBVIOUS
        <3> QED
            BY <3>1, <3>2, KeysOrder
    <2>3. \A b, c \in candidates :
              b # c => \/ KeyBefore(key[b], key[c]) \/ KeyBefore(key[c], key[b])
                       \/ key[b] = key[c] /\ (LexLess(b, c) \/ LexLess(c, b))
        <3> SUFFICES ASSUME NEW b \in candidates, NEW c \in candidates, b # c
                     PROVE  \/ KeyBefore(key[b], key[c]) \/ KeyBefore(key[c], key[b])
                            \/ key[b] = key[c] /\ (LexLess(b, c) \/ LexLess(c, b))
            OBVIOUS
        <3>1. LexLess(b, c) \/ LexLess(c, b)
            BY <2>1, LexOrders
        <3>2. key[b] \in [1..n -> Int] /\ key[c] \in [1..n -> Int]
            OBVIOUS
        <3> QED
            BY <3>1, <3>2, KeysOrder
    <2>4. \A b, c \in candidates : <<b, c>> \in R <=> before(b, c)
        OBVIOUS
    <2>5. \A b, c, d \in candidates : <<b, b>> \notin R
              /\ (<<b, c>> \in R /\ <<c, d>> \in R => <<b, d>> \in R)
              /\ (b # c => <<b, c>> \in R \/ <<c, b>> \in R)
        <3> HIDE DEF R
        <3> QED
            BY <2>2, <2>3, <2>4
    <2>6. Orders(R, candidates)
        <3> HIDE DEF R
        <3> QED
            BY <2>5 DEF Orders
    <2>7. IsFiniteSet(candidates)
        BY NamedFacts, FS_Subset
    <2>8. PICK b \in candidates :
              \A c \in candidates \ {b} : <<b, c>> \in R /\ <<c, b>> \notin R
        <3> HIDE DEF R
        <3> QED
            BY <1>2, <2>6, <2>7, FirstOfOrder
    <2>9. \A c \in candidates \ {b} : before(b, c)
        <3> HIDE DEF before
        <3> QED
            BY <2>4, <2>8
    <2>10. LeastBy(candidates, key) =
               CHOOSE x \in candidates : \A c \in candidates \ {x} : before(x, c)
        BY <1>2 DEF LeastBy
    <2> HIDE DEF before
    <2> QED
        BY <1>2, <2>9, <2>10
<1> QED
    BY <1>1, <1>2

\* The atoms a selector looks at are atoms of the bid worth something.
LEMMA PositiveIs ==
    ASSUME NEW bid \in Reports, NEW excluded
    PROVE  /\ Positive(bid, excluded) \in SUBSET Named
           /\ Positive(bid, excluded) \subseteq DOMAIN bid
           /\ \A b \in Positive(bid, excluded) : bid[b] \in Nat /\ b \in Named
BY ReportIs DEF Positive

\* Two numbers, or three, are a key.
LEMMA ShortKeys ==
    ASSUME NEW a \in Int, NEW b \in Int, NEW c \in Int
    PROVE  /\ <<a>> \in [1..1 -> Int] /\ <<a, b>> \in [1..2 -> Int]
           /\ <<a, b, c>> \in [1..3 -> Int]
OBVIOUS

\* The sizes of parts of bundles are numbers, and so is how much two of them differ.
LEMMA PartsAreSized ==
    ASSUME NEW b \in Named, NEW x
    PROVE  /\ Cardinality(b) \in Int /\ Cardinality(b \cap x) \in Int
           /\ x \in Named => Cardinality(SymDiff(b, x)) \in Int
<1>1. IsFiniteSet(b) /\ IsFiniteSet(b \cap x)
    BY NamedFacts, FS_Subset
<1>2. ASSUME x \in Named
      PROVE  IsFiniteSet(SymDiff(b, x))
    <2>1. SymDiff(b, x) \subseteq b \cup x
        BY DEF SymDiff
    <2>2. IsFiniteSet(b \cup x)
        BY <1>1, <1>2, NamedFacts, FS_Union
    <2> QED
        BY <2>1, <2>2, FS_Subset
<1> QED
    BY <1>1, <1>2, FS_CardinalityType

\* The neighbour of a bundle is an atom of the bid, or none.
LEMMA BestNeighbourIs ==
    ASSUME NEW bid \in Reports, NEW source \in Named, NEW excluded
    PROVE  BestNeighbour(bid, source, excluded) \in DOMAIN bid \cup {{}}
<1> DEFINE near == Positive(bid, excluded \cup {source})
           key == [b \in near |-> <<Cardinality(SymDiff(b, source)), -bid[b], Cardinality(b)>>]
<1>1. /\ near \in SUBSET Named /\ near \subseteq DOMAIN bid
      /\ \A b \in near : bid[b] \in Nat /\ b \in Named
    BY PositiveIs
<1>2. \A b \in near : key[b] \in [1..3 -> Int]
    <2> SUFFICES ASSUME NEW b \in near
                 PROVE  <<Cardinality(SymDiff(b, source)), -bid[b], Cardinality(b)>>
                            \in [1..3 -> Int]
        OBVIOUS
    <2> HIDE DEF near
    <2>1. b \in Named /\ bid[b] \in Nat
        BY <1>1
    <2>2. Cardinality(SymDiff(b, source)) \in Int /\ Cardinality(b) \in Int
        BY <2>1, PartsAreSized
    <2>3. -bid[b] \in Int
        BY <2>1
    <2> QED
        BY <2>2, <2>3, ShortKeys
<1>3. BestNeighbour(bid, source, excluded) = LeastBy(near, key)
    BY DEF BestNeighbour
<1> HIDE DEF near, key
<1>4. LeastBy(near, key) \in near \cup {{}}
    BY <1>1, <1>2, LeastByIs
<1> QED
    BY <1>1, <1>3, <1>4

\* The bundle that avoids scarcity is an atom of the bid, or none.
LEMMA BestScarcityIs ==
    ASSUME NEW bid \in Reports, NEW incumbent, NEW contested, NEW excluded
    PROVE  BestScarcityAvoiding(bid, incumbent, contested, excluded) \in DOMAIN bid \cup {{}}
<1> DEFINE freer == Freer(bid, incumbent, contested, excluded)
           key == [b \in freer |-> <<Cardinality(b \cap contested), -bid[b], Cardinality(b)>>]
<1>1. /\ freer \in SUBSET Named /\ freer \subseteq DOMAIN bid
      /\ \A b \in freer : bid[b] \in Nat /\ b \in Named
    <2>1. freer \subseteq Positive(bid, excluded)
        BY DEF Freer
    <2> HIDE DEF freer
    <2> QED
        BY <2>1, PositiveIs
<1>2. \A b \in freer : key[b] \in [1..3 -> Int]
    <2> SUFFICES ASSUME NEW b \in freer
                 PROVE  <<Cardinality(b \cap contested), -bid[b], Cardinality(b)>>
                            \in [1..3 -> Int]
        OBVIOUS
    <2> HIDE DEF freer
    <2>1. b \in Named /\ bid[b] \in Nat
        BY <1>1
    <2>2. Cardinality(b \cap contested) \in Int /\ Cardinality(b) \in Int
        BY <2>1, PartsAreSized
    <2>3. -bid[b] \in Int
        BY <2>1
    <2> QED
        BY <2>2, <2>3, ShortKeys
<1>3. BestScarcityAvoiding(bid, incumbent, contested, excluded) = LeastBy(freer, key)
    BY DEF BestScarcityAvoiding
<1> HIDE DEF freer, key
<1>4. LeastBy(freer, key) \in freer \cup {{}}
    BY <1>1, <1>2, LeastByIs
<1> QED
    BY <1>1, <1>3, <1>4

-----------------------------------------------------------------------------
(* Lists of questions.                                                     *)

\* A question: a bidder and a bundle.
Pairs == Bidders \X Named

\* The questions about atoms of the bids.
AtomPairs(bids) == {q \in Pairs : q[2] \in DOMAIN bids[q[1]]}

\* The awards of an allocation, as questions.
LEMMA AwardsAre ==
    ASSUME NEW S \in SUBSET Bidders, NEW alloc \in [S -> Bundles]
    PROVE  /\ Awards(alloc) \in Seq(Pairs)
           /\ Range(Awards(alloc)) = {<<i, alloc[i]>> : i \in {j \in S : alloc[j] # {}}}
<1> DEFINE ks == {k \in DOMAIN Order : Order[k] \in DOMAIN alloc /\ alloc[Order[k]] # {}}
           who == Picked(Order, ks)
           winners == {j \in S : alloc[j] # {}}
<1>1. DOMAIN alloc = S
    OBVIOUS
<1>2. Order \in Seq(Bidders) /\ ks \in SUBSET DOMAIN Order
    BY BiddersAssumption
<1>3. {Order[k] : k \in ks} = winners
    BY <1>1, ListedBidders
<1>4. Awards(alloc) = [k \in DOMAIN who |-> <<who[k], alloc[who[k]]>>]
    BY DEF Awards
<1> HIDE DEF ks
<1>5. who \in Seq({Order[k] : k \in ks}) /\ Range(who) = {Order[k] : k \in ks}
    BY <1>2, PickedSeq
<1>6. who \in Seq(winners) /\ Range(who) = winners
    BY <1>3, <1>5
<1> HIDE DEF who
<1>7. \A j \in winners : <<j, alloc[j]>> \in Pairs
    BY DEF Pairs, Named
<1> HIDE DEF winners
<1>8. DOMAIN who = 1..Len(who) /\ Len(who) \in Nat /\ \A k \in DOMAIN who : who[k] \in winners
    BY <1>6
<1>9. Awards(alloc) \in Seq(Pairs)
    <2>1. Awards(alloc) \in [1..Len(who) -> Pairs]
        BY <1>4, <1>7, <1>8
    <2> QED
        BY <1>8, <2>1
<1>10. Range(Awards(alloc)) = {<<i, alloc[i]>> : i \in winners}
    BY <1>4, <1>6 DEF Range
<1> QED
    BY <1>9, <1>10 DEF winners

\* What the solver awards are questions about atoms of the bids.
LEMMA SolvedAwards ==
    ASSUME NEW bids \in [Bidders -> Reports], NEW S \in SUBSET Bidders,
           NEW part \in [S -> Reports], \A i \in S : DOMAIN part[i] \subseteq DOMAIN bids[i]
    PROVE  Awards(Solve(part)) \in Seq(AtomPairs(bids))
<1> DEFINE alloc == Solve(part)
<1>1. alloc \in [S -> Bundles] /\ \A i \in S : alloc[i] \in DOMAIN part[i] \cup {{}}
    BY SolveIs
<1> HIDE DEF alloc
<1>2. /\ Awards(alloc) \in Seq(Pairs)
      /\ Range(Awards(alloc)) = {<<i, alloc[i]>> : i \in {j \in S : alloc[j] # {}}}
    BY <1>1, AwardsAre
<1>3. \A q \in Range(Awards(alloc)) : q[2] \in DOMAIN bids[q[1]]
    BY <1>1, <1>2
<1>4. \A k \in DOMAIN Awards(alloc) : Awards(alloc)[k] \in AtomPairs(bids)
    BY <1>2, <1>3 DEF Range, AtomPairs
<1>5. Awards(alloc) \in Seq(AtomPairs(bids))
    <2>1. /\ Len(Awards(alloc)) \in Nat /\ DOMAIN Awards(alloc) = 1..Len(Awards(alloc))
          /\ Awards(alloc) = [k \in 1..Len(Awards(alloc)) |-> Awards(alloc)[k]]
        BY <1>2
    <2> QED
        BY <1>4, <2>1
<1> QED
    BY <1>5 DEF alloc

\* What a winner's removal exposes are questions about atoms of the bids.
LEMMA FrontierIs ==
    ASSUME NEW bids \in [Bidders -> Reports], NEW alloc \in [Bidders -> Bundles],
           NEW whole \in BOOLEAN
    PROVE  Frontier(bids, alloc, whole) \in Seq(AtomPairs(bids))
<1> DEFINE less(i) == [bids EXCEPT ![i] = Restrict(@, DOMAIN @ \ {alloc[i]})]
           counterfactual(i) == IF whole THEN Without(bids, i) ELSE less(i)
           awards == Awards(alloc)
           parts == [k \in DOMAIN awards |-> Awards(Solve(counterfactual(awards[k][1])))]
<1>1. ASSUME NEW i \in Bidders
      PROVE  Awards(Solve(counterfactual(i))) \in Seq(AtomPairs(bids))
    <2>1. CASE whole
        <3>1. Without(bids, i) \in [Bidders \ {i} -> Reports]
              /\ \A j \in Bidders \ {i} : Without(bids, i)[j] = bids[j]
            BY DEF Without, Restrict
        <3>2. Bidders \ {i} \in SUBSET Bidders
            OBVIOUS
        <3>3. Awards(Solve(Without(bids, i))) \in Seq(AtomPairs(bids))
            BY <3>1, <3>2, SolvedAwards
        <3> QED
            BY <2>1, <3>3
    <2>2. CASE ~whole
        <3>1. /\ Restrict(bids[i], DOMAIN bids[i] \ {alloc[i]}) \in Reports
              /\ DOMAIN Restrict(bids[i], DOMAIN bids[i] \ {alloc[i]}) = DOMAIN bids[i] \ {alloc[i]}
            <4>1. bids[i] \in Reports /\ DOMAIN bids[i] \ {alloc[i]} \subseteq DOMAIN bids[i]
                OBVIOUS
            <4> QED
                BY <4>1, PartOfReport
        <3>2. less(i) \in [Bidders -> Reports]
              /\ \A j \in Bidders : DOMAIN less(i)[j] \subseteq DOMAIN bids[j]
            BY <3>1
        <3> HIDE DEF less
        <3>3. Awards(Solve(less(i))) \in Seq(AtomPairs(bids))
            BY <3>2, SolvedAwards
        <3> QED
            BY <2>2, <3>3
    <2> QED
        BY <2>1, <2>2
<1>2. awards \in Seq(Pairs)
    BY AwardsAre
<1>3. Frontier(bids, alloc, whole) = FlattenSeq(parts)
    BY DEF Frontier
<1>4. parts \in Seq(Seq(AtomPairs(bids)))
    <2> HIDE DEF counterfactual, awards
    <2>1. /\ Len(awards) \in Nat /\ DOMAIN awards = 1..Len(awards)
          /\ \A k \in DOMAIN awards : awards[k][1] \in Bidders
        BY <1>2 DEF Pairs
    <2>2. parts \in [1..Len(awards) -> Seq(AtomPairs(bids))]
        BY <1>1, <2>1
    <2> HIDE DEF parts
    <2> QED
        BY <2>1, <2>2
<1> HIDE DEF parts
<1> QED
    BY <1>3, <1>4, FlattenIs

-----------------------------------------------------------------------------
(* Proxies.                                                                *)

\* The proxies of persons who answer from the values v, with their books in order:
\* what was asked is no longer provisional, was counted, and is reported at least as
\* answered.
ProxyRecords ==
    [bid : [Named -> Nat], provisional : SUBSET Named, refined : SUBSET Named, count : Nat,
     exact : BOOLEAN]

ProxiesOf(v) ==
    {p \in ProxyRecords :
        /\ p.exact
        /\ p.provisional = Named \ p.refined
        /\ p.count = Cardinality(p.refined)
        /\ \A b \in p.refined : v[b] <= p.bid[b]}

\* The repair lowers nothing.
LEMMA RepairIs ==
    ASSUME NEW bid \in [Named -> Nat]
    PROVE  /\ Repair(bid) \in [Named -> Nat]
           /\ \A b \in Named : Repair(bid)[b] >= bid[b]
<1> DEFINE worth(b) == {bid[a] : a \in {s \in Named : s \subseteq b}}
<1>1. ASSUME NEW b \in Named
      PROVE  Max(worth(b)) \in Nat /\ bid[b] <= Max(worth(b))
    <2> DEFINE parts == {s \in Named : s \subseteq b}
    <2>1. IsFiniteSet(parts) /\ b \in parts /\ parts \subseteq Named
        BY NamedFacts, FS_Subset
    <2> HIDE DEF parts
    <2> DEFINE W == {bid[a] : a \in parts}
    <2>2. IsFiniteSet(W)
        BY <2>1, FiniteImage
    <2>3. W \subseteq Nat /\ bid[b] \in W
        BY <2>1
    <2>4. worth(b) = W
        BY DEF parts
    <2> HIDE DEF W
    <2>5. Max(W) \in W /\ \A x \in W : x <= Max(W)
        <3>1. IsFiniteSet(W) /\ W \subseteq Int /\ W # {}
            BY <2>2, <2>3
        <3> QED
            BY <3>1, MaxIsGreatest
    <2> HIDE DEF worth
    <2> QED
        BY <2>3, <2>4, <2>5
<1>2. Repair(bid) = [b \in Named |-> Max(worth(b))]
    BY DEF Repair
<1> HIDE DEF worth
<1> QED
    BY <1>1, <1>2

\* What a query makes of a proxy: its books stay in order, what was asked before stays
\* so, and nothing that was asked is reported lower.
AskedMore(p, q, bundles) ==
    /\ q.refined = p.refined \cup bundles
    /\ q.count >= p.count
    /\ \A c \in p.refined : q.bid[c] >= p.bid[c]

\* A query keeps the books in order.
LEMMA RefinedIs ==
    ASSUME NEW v \in [Named -> Nat], NEW p \in ProxiesOf(v), NEW b \in Named
    PROVE  LET q == RefinedProxy(p, b, v[b])
           IN  q \in ProxiesOf(v) /\ AskedMore(p, q, {b}) /\ q.count <= p.count + 1
<1>1. /\ p.bid \in [Named -> Nat] /\ p.provisional = Named \ p.refined /\ p.refined \in SUBSET Named
      /\ p.count \in Nat /\ p.exact = TRUE /\ p.count = Cardinality(p.refined)
      /\ \A c \in p.refined : v[c] <= p.bid[c]
      /\ p = [bid |-> p.bid, provisional |-> p.provisional, refined |-> p.refined,
              count |-> p.count, exact |-> p.exact]
    BY DEF ProxiesOf, ProxyRecords
<1>2. AlreadyAsked(p, b) <=> b \in p.refined
    BY <1>1 DEF AlreadyAsked
<1>3. CASE b \in p.refined
    <2>1. RefinedProxy(p, b, v[b]) = p /\ p.refined = p.refined \cup {b}
        BY <1>2, <1>3 DEF RefinedProxy
    <2> QED
        BY <1>1, <2>1 DEF AskedMore
<1>4. CASE b \notin p.refined
    <2> DEFINE up == Upsert(p.bid, b, v[b])
               settled == Repair(up)
               last == Upsert(settled, b, v[b])
               q == RefinedProxy(p, b, v[b])
    <2>1. up \in [Named -> Nat] /\ \A c \in Named \ {b} : up[c] = p.bid[c]
        BY <1>1 DEF Upsert
    <2> HIDE DEF up
    <2>2. settled \in [Named -> Nat] /\ \A c \in Named : settled[c] >= up[c]
        BY <2>1, RepairIs
    <2> HIDE DEF settled
    <2>3. /\ last \in [Named -> Nat] /\ last[b] = v[b]
          /\ \A c \in Named \ {b} : last[c] >= p.bid[c]
        BY <2>1, <2>2 DEF Upsert
    <2>4. q = [bid |-> last, provisional |-> p.provisional \ {b}, refined |-> p.refined \cup {b},
               count |-> p.count + 1, exact |-> p.exact]
        <3>1. q = [p EXCEPT !.bid = last, !.provisional = @ \ {b}, !.refined = @ \cup {b},
                            !.count = @ + 1]
            BY <1>1, <1>2, <1>4 DEF RefinedProxy, Revalued, last, settled, up
        <3> HIDE DEF last, q
        <3> QED
            BY <1>1, <3>1
    <2> HIDE DEF last, q
    <2>5. Cardinality(p.refined \cup {b}) = Cardinality(p.refined) + 1
        BY <1>1, <1>4, NamedFacts, FS_Subset, FS_AddElement
    <2>6. q \in ProxyRecords
        <3>1. p.provisional \ {b} \in SUBSET Named /\ p.refined \cup {b} \in SUBSET Named
            BY <1>1
        <3>2. p.count + 1 \in Nat
            BY <1>1
        <3>3. p.exact \in BOOLEAN
            BY DEF ProxiesOf, ProxyRecords
        <3> QED
            BY <2>3, <2>4, <3>1, <3>2, <3>3 DEF ProxyRecords
    <2>7. \A c \in p.refined \cup {b} : v[c] <= last[c]
        <3> SUFFICES ASSUME NEW c \in p.refined \cup {b}
                     PROVE  v[c] <= last[c]
            OBVIOUS
        <3>1. CASE c = b
            BY <2>3, <3>1
        <3>2. CASE c # b
            <4>1. c \in p.refined /\ c \in Named
                BY <1>1, <3>2
            <4>2. v[c] \in Nat /\ p.bid[c] \in Nat /\ last[c] \in Nat
                BY <1>1, <2>3, <4>1
            <4> QED
                BY <1>1, <2>3, <3>2, <4>1, <4>2
        <3> QED
            BY <3>1, <3>2
    <2>8. /\ q.bid = last /\ q.provisional = p.provisional \ {b} /\ q.refined = p.refined \cup {b}
          /\ q.count = p.count + 1 /\ q.exact = TRUE
        BY <1>1, <2>4
    <2>9. q.provisional = Named \ q.refined /\ q.count = Cardinality(q.refined)
        BY <1>1, <2>5, <2>8
    <2>10. q \in ProxiesOf(v)
        BY <2>6, <2>7, <2>8, <2>9 DEF ProxiesOf
    <2>11. AskedMore(p, q, {b}) /\ q.count <= p.count + 1
        BY <1>1, <1>4, <2>3, <2>8 DEF AskedMore
    <2> QED
        BY <2>10, <2>11 DEF q
<1> QED
    BY <1>3, <1>4

\* A proxy that starts from a guess has its books in order.
LEMMA FreshIs ==
    ASSUME NEW g \in Guesses, NEW v
    PROVE  /\ ProvisionalProxy(g, TRUE) \in ProxiesOf(v)
           /\ ProvisionalProxy(g, TRUE).refined = {} /\ ProvisionalProxy(g, TRUE).count = 0
<1> DEFINE named == [b \in DOMAIN g \ {{}} |-> g[b]]
           p == ProvisionalProxy(g, TRUE)
<1>1. g \in [Named -> Nat] /\ Named \ {{}} = Named
    BY ElicitationAssumption, NamedFacts
<1>2. named \in [Named -> Nat]
    BY <1>1
<1>3. p = [bid |-> Repair(named), provisional |-> DOMAIN named, refined |-> {}, count |-> 0,
           exact |-> TRUE]
    BY DEF ProvisionalProxy
<1> HIDE DEF named, p
<1>4. Repair(named) \in [Named -> Nat] /\ DOMAIN named = Named
    BY <1>2, RepairIs
<1>5. p \in ProxyRecords
    BY <1>3, <1>4 DEF ProxyRecords
<1>6. /\ p.exact /\ p.provisional = Named \ p.refined /\ p.refined = {}
      /\ p.count = 0 /\ Cardinality({}) = 0
    BY <1>3, <1>4, FS_EmptySet
<1>7. p \in ProxiesOf(v)
    BY <1>5, <1>6 DEF ProxiesOf
<1> QED
    BY <1>6, <1>7 DEF p


\* The questions of an event, one after the other.
Asking(p, bundles, v) == FoldLeft(LAMBDA q, b : RefinedProxy(q, b, v[b]), p, bundles)

\* They are asked one by one.
LEMMA AskingSteps ==
    ASSUME NEW v \in [Named -> Nat], NEW p \in ProxiesOf(v), NEW bundles \in Seq(Named)
    PROVE  \E g : /\ g[0] = p /\ Asking(p, bundles, v) = g[Len(bundles)]
                  /\ \A k \in 0..Len(bundles) : g[k] \in ProxiesOf(v)
                  /\ \A k \in 1..Len(bundles) :
                        g[k] = RefinedProxy(g[k - 1], bundles[k], v[bundles[k]])
<1> DEFINE m == Len(bundles)
           U == ProxiesOf(v)
           op(q, b) == RefinedProxy(q, b, v[b])
           next == [qk \in U \X (1..m) |-> op(qk[1], bundles[qk[2]])]
           P(f) == f = [S \in SUBSET (1..m) |->
                           IF S = {} THEN p ELSE op(f[S \ {Max(S)}], bundles[Max(S)])]
           c == CHOOSE f : P(f)
<1>1. m \in Nat /\ DOMAIN bundles = 1..m /\ \A k \in 1..m : bundles[k] \in Named
    OBVIOUS
<1>2. Asking(p, bundles, v) = c[1..m]
    BY <1>1 DEF Asking, FoldLeft, MapThenFoldSet
<1>3. \A q \in U : \A b \in Named : op(q, b) \in U
    BY RefinedIs
<1> HIDE DEF U, op, m
<1>4. next \in [U \X (1..m) -> U] /\ p \in U
    BY <1>1, <1>3 DEF U
<1>5. \A q \in U : \A k \in 1..m : next[<<q, k>>] = op(q, bundles[k])
    OBVIOUS
<1> HIDE DEF next
<1>6. \E f : P(f)
    <2>1. PICK f \in [SUBSET (1..m) -> U] : Folds(f, p, next, m)
        BY <1>1, <1>4, FoldExists
    <2>2. \A S \in SUBSET (1..m) :
              f[S] = IF S = {} THEN p ELSE next[<<f[S \ {Max(S)}], Max(S)>>]
        BY <2>1 DEF Folds
    <2>3. \A S \in SUBSET (1..m) :
              f[S] = IF S = {} THEN p ELSE op(f[S \ {Max(S)}], bundles[Max(S)])
        BY <1>5, <2>1, <2>2, LargestOfPart, <1>1
    <2>4. P(f)
        BY <2>1, <2>3
    <2> HIDE DEF P
    <2> QED
        BY <2>4
<1>7. P(c)
    <2> HIDE DEF P
    <2> QED
        BY <1>6
<1> HIDE DEF c
<1> DEFINE g == [k \in 0..m |-> c[1..k]]
<1>8. g[0] = p
    <2>1. 1..0 = {} /\ {} \in SUBSET (1..m) /\ 0 \in 0..m
        BY <1>1
    <2>2. c[{}] = p
        BY <1>7, <2>1
    <2> QED
        BY <2>1, <2>2
<1>9. \A k \in 1..m : g[k] = op(g[k - 1], bundles[k])
    <2> SUFFICES ASSUME NEW k \in 1..m
                 PROVE  g[k] = op(g[k - 1], bundles[k])
        OBVIOUS
    <2>1. k \in Nat \ {0} /\ k \in 0..m /\ k - 1 \in 0..m /\ 1..k \in SUBSET (1..m)
        BY <1>1
    <2>2. 1..k # {} /\ Max(1..k) = k /\ (1..k) \ {Max(1..k)} = 1..k - 1
        BY <2>1, Beginning
    <2>3. c[1..k] = op(c[1..k - 1], bundles[k])
        BY <1>7, <2>1, <2>2
    <2> QED
        BY <2>1, <2>3
<1> HIDE DEF P
<1>10. g[m] = c[1..m]
    BY <1>1
<1> HIDE DEF g
<1>11. \A k \in 0..m : g[k] \in U
    <2>1. \A k \in 1..m : g[k - 1] \in U => g[k] \in U
        BY <1>1, <1>3, <1>9
    <2>2. g[0] \in U
        BY <1>4, <1>8
    <2> QED
        BY <1>1, <2>1, <2>2, StepByStep
<1> QED
    BY <1>2, <1>8, <1>9, <1>10, <1>11 DEF U, op, m

\* What an event's questions make of a proxy; two at most are counted.
LEMMA AskingIs ==
    ASSUME NEW v \in [Named -> Nat], NEW p \in ProxiesOf(v), NEW bundles \in Seq(Named),
           Len(bundles) \in {1, 2}
    PROVE  LET q == Asking(p, bundles, v)
           IN  /\ q \in ProxiesOf(v) /\ AskedMore(p, q, Range(bundles))
               /\ q.count <= p.count + 2
<1> DEFINE q == Asking(p, bundles, v)
<1>1. PICK g : /\ g[0] = p /\ q = g[Len(bundles)]
               /\ \A k \in 0..Len(bundles) : g[k] \in ProxiesOf(v)
               /\ \A k \in 1..Len(bundles) :
                     g[k] = RefinedProxy(g[k - 1], bundles[k], v[bundles[k]])
    BY AskingSteps
<1> HIDE DEF q
<1>2. \A r \in ProxiesOf(v) : r.count \in Nat /\ r.bid \in [Named -> Nat] /\ r.refined \in SUBSET Named
    BY DEF ProxiesOf, ProxyRecords
<1>3. \A k \in 1..Len(bundles) : bundles[k] \in Named /\ bundles \in [1..Len(bundles) -> Named]
    OBVIOUS
<1>4. CASE Len(bundles) = 1
    <2>1. /\ 1 \in 1..Len(bundles) /\ 0 \in 0..Len(bundles) /\ 1 \in 0..Len(bundles) /\ 1 - 1 = 0
          /\ Range(bundles) = {bundles[1]}
        BY <1>3, <1>4 DEF Range
    <2>2. bundles[1] \in Named /\ q = RefinedProxy(p, bundles[1], v[bundles[1]])
        BY <1>1, <1>3, <1>4, <2>1
    <2>3. q \in ProxiesOf(v) /\ AskedMore(p, q, {bundles[1]}) /\ q.count <= p.count + 1
        BY <2>2, RefinedIs
    <2>4. p.count \in Nat /\ q.count \in Nat
        BY <1>2, <2>3
    <2>5. q.count <= p.count + 2
        BY <2>3, <2>4
    <2> QED
        BY <2>1, <2>3, <2>5 DEF q
<1>5. CASE Len(bundles) = 2
    <2>1. /\ 1 \in 1..Len(bundles) /\ 2 \in 1..Len(bundles) /\ 1 \in 0..Len(bundles)
          /\ 2 \in 0..Len(bundles) /\ 1 - 1 = 0 /\ 2 - 1 = 1
          /\ Range(bundles) = {bundles[1], bundles[2]}
        BY <1>3, <1>5 DEF Range
    <2> DEFINE r == g[1]
    <2>2. /\ bundles[1] \in Named /\ bundles[2] \in Named /\ r \in ProxiesOf(v) /\ q \in ProxiesOf(v)
          /\ r = RefinedProxy(p, bundles[1], v[bundles[1]])
          /\ q = RefinedProxy(r, bundles[2], v[bundles[2]])
        BY <1>1, <1>3, <1>5, <2>1
    <2> HIDE DEF r
    <2>3. AskedMore(p, r, {bundles[1]}) /\ r.count <= p.count + 1
        BY <2>2, RefinedIs
    <2>4. AskedMore(r, q, {bundles[2]}) /\ q.count <= r.count + 1
        BY <2>2, RefinedIs
    <2>5. /\ p.count \in Nat /\ r.count \in Nat /\ q.count \in Nat
          /\ p.bid \in [Named -> Nat] /\ r.bid \in [Named -> Nat] /\ q.bid \in [Named -> Nat]
          /\ p.refined \in SUBSET Named
        BY <1>2, <2>2
    <2>6. q.count <= p.count + 2 /\ q.count >= p.count
        BY <2>3, <2>4, <2>5 DEF AskedMore
    <2>7. q.refined = p.refined \cup Range(bundles)
        BY <2>1, <2>3, <2>4 DEF AskedMore
    <2>8. \A c \in p.refined : q.bid[c] >= p.bid[c]
        <3> SUFFICES ASSUME NEW c \in p.refined
                     PROVE  q.bid[c] >= p.bid[c]
            OBVIOUS
        <3>1. c \in Named /\ c \in r.refined
            BY <2>3, <2>5 DEF AskedMore
        <3>2. p.bid[c] \in Nat /\ r.bid[c] \in Nat /\ q.bid[c] \in Nat
            BY <2>5, <3>1
        <3>3. r.bid[c] >= p.bid[c] /\ q.bid[c] >= r.bid[c]
            BY <2>3, <2>4, <3>1 DEF AskedMore
        <3> QED
            BY <3>2, <3>3
    <2>9. AskedMore(p, q, Range(bundles))
        BY <2>6, <2>7, <2>8 DEF AskedMore
    <2> QED
        BY <2>2, <2>6, <2>9 DEF q
<1> QED
    BY <1>4, <1>5

-----------------------------------------------------------------------------
(* Sessions.                                                               *)

\* The number of queries made is the sum of the counts: that of one proxy and of the
\* others.
LEMMA QueriesAre ==
    ASSUME NEW ps, NEW qs, NEW i \in Bidders,
           \A j \in Bidders : ps[j].count \in Nat /\ qs[j].count \in Nat,
           \A j \in Bidders \ {i} : qs[j].count = ps[j].count
    PROVE  /\ QueryCount(ps) \in Nat /\ QueryCount(qs) \in Nat
           /\ QueryCount(qs) = QueryCount(ps) + qs[i].count - ps[i].count
<1> DEFINE old == [j \in Bidders |-> ps[j].count]
           new == [j \in Bidders |-> qs[j].count]
<1>1. /\ QueryCount(ps) = SumFunctionOnSet(old, Bidders)
      /\ QueryCount(qs) = SumFunctionOnSet(new, Bidders)
    BY DEF QueryCount, SumFunction
<1>2. /\ \A j \in Bidders : old[j] \in Nat /\ new[j] \in Nat
      /\ \A j \in Bidders \ {i} : new[j] = old[j]
      /\ old[i] = ps[i].count /\ new[i] = qs[i].count
    OBVIOUS
<1> HIDE DEF old, new
<1>3. IsFiniteSet(Bidders) /\ IsFiniteSet(Bidders \ {i})
    BY ListedBidders, FS_Subset
<1>4. /\ SumFunctionOnSet(new, Bidders) = new[i] + SumFunctionOnSet(new, Bidders \ {i})
      /\ SumFunctionOnSet(old, Bidders) = old[i] + SumFunctionOnSet(old, Bidders \ {i})
    BY <1>2, <1>3, SumStep
<1>5. SumFunctionOnSet(new, Bidders \ {i}) = SumFunctionOnSet(old, Bidders \ {i})
    BY <1>2, <1>3, SumAgrees
<1>6. SumFunctionOnSet(old, Bidders \ {i}) \in Nat
    BY <1>2, <1>3, SumIsNat
<1> QED
    BY <1>1, <1>2, <1>4, <1>5, <1>6

\* What an experiment leaves alone.
Settings == policy \in Policies /\ truth \in [Bidders -> Truths] /\ favoured \in Bidders

\* The events a bidder has once.
Marks == {"scarcity", "contested", "followup", "challenger"}

\* The values of a session.
SessionRecords ==
    [proxies : [Bidders -> ProxyRecords], issued : [Bidders -> SUBSET Named],
     revealed : [Bidders -> Reports], supplementary : [Bidders -> Reports],
     marks : [Bidders -> SUBSET Marks], count : Nat, followup : Bundles]

\* The caps are overrun by one query at most.
Capping(ps) ==
    /\ policy.bidderCap > 0 => \A i \in Bidders : ps[i].count <= policy.bidderCap + 1
    /\ policy.totalCap > 0 => QueryCount(ps) <= policy.totalCap + 1

\* The sessions with their books in order: what an event was issued for was asked.
Sessions ==
    {s \in SessionRecords :
        /\ \A i \in Bidders : /\ s.proxies[i] \in ProxiesOf(truth[i])
                              /\ s.issued[i] \subseteq s.proxies[i].refined
        /\ Capping(s.proxies)}

\* What queries make of a session: nothing asked is forgotten or reported lower, and a
\* query that is counted issued a bundle that was not issued before.
After(s, t) ==
    /\ \A i \in Bidders :
          /\ s.issued[i] \subseteq t.issued[i]
          /\ s.proxies[i].refined \subseteq t.proxies[i].refined
          /\ s.proxies[i].count <= t.proxies[i].count
          /\ \A b \in s.proxies[i].refined : s.proxies[i].bid[b] <= t.proxies[i].bid[b]
    /\ s.count <= t.count
    /\ t.count > s.count => \E i \in Bidders : \E b \in t.issued[i] : b \notin s.issued[i]

\* The parts of a session.
LEMMA SessionIs ==
    ASSUME NEW s \in Sessions
    PROVE  /\ s = [proxies |-> s.proxies, issued |-> s.issued, revealed |-> s.revealed,
                   supplementary |-> s.supplementary, marks |-> s.marks, count |-> s.count,
                   followup |-> s.followup]
           /\ s.proxies \in [Bidders -> ProxyRecords] /\ s.issued \in [Bidders -> SUBSET Named]
           /\ s.revealed \in [Bidders -> Reports] /\ s.supplementary \in [Bidders -> Reports]
           /\ s.marks \in [Bidders -> SUBSET Marks] /\ s.count \in Nat /\ s.followup \in Bundles
           /\ \A i \in Bidders : /\ s.proxies[i] \in ProxiesOf(truth[i])
                                 /\ s.issued[i] \subseteq s.proxies[i].refined
           /\ Capping(s.proxies)
<1>1. s \in SessionRecords
    BY DEF Sessions
<1>2. s = [proxies |-> s.proxies, issued |-> s.issued, revealed |-> s.revealed,
           supplementary |-> s.supplementary, marks |-> s.marks, count |-> s.count,
           followup |-> s.followup]
    BY <1>1 DEF SessionRecords
<1>3. /\ s.proxies \in [Bidders -> ProxyRecords] /\ s.issued \in [Bidders -> SUBSET Named]
      /\ s.revealed \in [Bidders -> Reports] /\ s.supplementary \in [Bidders -> Reports]
      /\ s.marks \in [Bidders -> SUBSET Marks] /\ s.count \in Nat /\ s.followup \in Bundles
    BY <1>1 DEF SessionRecords
<1> QED
    BY <1>2, <1>3 DEF Sessions

\* The parts of a proxy.
LEMMA ProxyIs ==
    ASSUME NEW v, NEW p \in ProxiesOf(v)
    PROVE  /\ p.bid \in [Named -> Nat] /\ p.refined \in SUBSET Named /\ p.count \in Nat
           /\ p.bid \in Reports /\ DOMAIN p.bid = Named
           /\ p.count = Cardinality(p.refined)
           /\ \A b \in p.refined : v[b] <= p.bid[b]
<1>1. p.bid \in [Named -> Nat] /\ p.refined \in SUBSET Named /\ p.count \in Nat
    BY DEF ProxiesOf, ProxyRecords
<1>2. p.bid \in Reports /\ DOMAIN p.bid = Named
    BY <1>1, ReportIs
<1> QED
    BY <1>1, <1>2 DEF ProxiesOf

\* Queries follow queries.
LEMMA AfterOrders ==
    ASSUME NEW s \in Sessions, NEW t \in Sessions, NEW u \in Sessions
    PROVE  After(s, s) /\ (After(s, t) /\ After(t, u) => After(s, u))
<1>1. \A x \in Sessions : /\ x.count \in Nat
                          /\ \A i \in Bidders : /\ x.proxies[i].count \in Nat
                                                /\ x.proxies[i].refined \in SUBSET Named
                                                /\ \A b \in Named : x.proxies[i].bid[b] \in Nat
    BY SessionIs, ProxyIs
<1>2. After(s, s)
    BY <1>1 DEF After
<1>3. ASSUME After(s, t), After(t, u)
      PROVE  After(s, u)
    <2>1. ASSUME NEW i \in Bidders
          PROVE  /\ s.issued[i] \subseteq u.issued[i]
                 /\ s.proxies[i].refined \subseteq u.proxies[i].refined
                 /\ s.proxies[i].count <= u.proxies[i].count
                 /\ \A b \in s.proxies[i].refined : s.proxies[i].bid[b] <= u.proxies[i].bid[b]
        <3>1. /\ s.issued[i] \subseteq t.issued[i] /\ t.issued[i] \subseteq u.issued[i]
              /\ s.proxies[i].refined \subseteq t.proxies[i].refined
              /\ t.proxies[i].refined \subseteq u.proxies[i].refined
              /\ s.proxies[i].count <= t.proxies[i].count
              /\ t.proxies[i].count <= u.proxies[i].count
            BY <1>3 DEF After
        <3>2. /\ s.proxies[i].count \in Nat /\ t.proxies[i].count \in Nat
              /\ u.proxies[i].count \in Nat
            BY <1>1
        <3>3. ASSUME NEW b \in s.proxies[i].refined
              PROVE  s.proxies[i].bid[b] <= u.proxies[i].bid[b]
            <4>1. b \in Named /\ b \in t.proxies[i].refined
                BY <1>1, <3>1
            <4>2. /\ s.proxies[i].bid[b] \in Nat /\ t.proxies[i].bid[b] \in Nat
                  /\ u.proxies[i].bid[b] \in Nat
                BY <1>1, <4>1
            <4>3. /\ s.proxies[i].bid[b] <= t.proxies[i].bid[b]
                  /\ t.proxies[i].bid[b] <= u.proxies[i].bid[b]
                BY <1>3, <4>1 DEF After
            <4> QED
                BY <4>2, <4>3
        <3>4. s.proxies[i].count <= u.proxies[i].count
            BY <3>1, <3>2
        <3> QED
            BY <3>1, <3>3, <3>4
    <2>2. s.count \in Nat /\ t.count \in Nat /\ u.count \in Nat
        BY <1>1
    <2>3. s.count <= t.count /\ t.count <= u.count
        BY <1>3 DEF After
    <2>4. s.count <= u.count
        BY <2>2, <2>3
    <2>5. ASSUME u.count > s.count
          PROVE  \E i \in Bidders : \E b \in u.issued[i] : b \notin s.issued[i]
        <3>1. t.count > s.count \/ u.count > t.count
            BY <2>2, <2>3, <2>5
        <3>2. \A i \in Bidders : s.issued[i] \subseteq t.issued[i] /\ t.issued[i] \subseteq u.issued[i]
            BY <1>3 DEF After
        <3>3. CASE t.count > s.count
            BY <1>3, <3>2, <3>3 DEF After
        <3>4. CASE u.count > t.count
            BY <1>3, <3>2, <3>4 DEF After
        <3> QED
            BY <3>1, <3>3, <3>4
    <2> QED
        BY <2>1, <2>4, <2>5 DEF After
<1> QED
    BY <1>2, <1>3

\* What an event leaves: its bundles are asked, the last is issued, nothing else changes.
IssuedOf(s, t, i, bundles) ==
    /\ t \in Sessions /\ After(s, t)
    /\ t.count = s.count + 1
    /\ t.revealed = s.revealed /\ t.supplementary = s.supplementary
    /\ t.marks = s.marks /\ t.followup = s.followup
    /\ t.proxies[i].refined = s.proxies[i].refined \cup Range(bundles)
    /\ t.issued[i] = s.issued[i] \cup {Last(bundles)}
    /\ \A j \in Bidders \ {i} : t.proxies[j] = s.proxies[j] /\ t.issued[j] = s.issued[j]

\* An event that is still open keeps the books in order.
LEMMA IssueIs ==
    ASSUME Settings, NEW s \in Sessions, NEW i \in Bidders, NEW bundles \in Seq(Named),
           Len(bundles) \in {1, 2}, Open(s, i, Last(bundles))
    PROVE  IssuedOf(s, Issue(s, i, bundles), i, bundles)
<1> DEFINE v == truth[i]
           p == s.proxies[i]
           q == Asking(p, bundles, v)
           b == Last(bundles)
           ps == [s.proxies EXCEPT ![i] = q]
           is == [s.issued EXCEPT ![i] = @ \cup {b}]
           t == Issue(s, i, bundles)
<1>1. truth[i] \in [Named -> Nat] /\ truth[i] \in Truths
    BY ElicitationAssumption DEF Settings
<1>2. /\ s = [proxies |-> s.proxies, issued |-> s.issued, revealed |-> s.revealed,
              supplementary |-> s.supplementary, marks |-> s.marks, count |-> s.count,
              followup |-> s.followup]
      /\ s.proxies \in [Bidders -> ProxyRecords] /\ s.issued \in [Bidders -> SUBSET Named]
      /\ s.revealed \in [Bidders -> Reports] /\ s.supplementary \in [Bidders -> Reports]
      /\ s.marks \in [Bidders -> SUBSET Marks] /\ s.count \in Nat /\ s.followup \in Bundles
      /\ \A j \in Bidders : s.proxies[j] \in ProxiesOf(truth[j]) /\ s.issued[j] \subseteq s.proxies[j].refined
      /\ Capping(s.proxies)
    BY SessionIs
<1>3. t = [proxies |-> ps, issued |-> is, revealed |-> s.revealed,
           supplementary |-> s.supplementary, marks |-> s.marks, count |-> s.count + 1,
           followup |-> s.followup]
    <2>1. t = [s EXCEPT !.issued[i] = @ \cup {Last(bundles)}, !.proxies[i] = Asking(@, bundles, truth[i]),
                        !.count = @ + 1]
        BY DEF Issue, Asking, FoldLeft, MapThenFoldSet
    <2>2. t = [s EXCEPT !.issued = is, !.proxies = ps, !.count = s.count + 1]
        <3> HIDE DEF t
        <3> QED
            BY <1>2, <2>1
    <2> HIDE DEF t, is, ps
    <2> QED
        BY <1>2, <2>2
<1>4. v \in [Named -> Nat] /\ p \in ProxiesOf(v)
    BY <1>1, <1>2
<1> HIDE DEF p
<1>5. q \in ProxiesOf(v) /\ AskedMore(p, q, Range(bundles)) /\ q.count <= p.count + 2
    BY <1>4, AskingIs
<1> HIDE DEF q, t
<1>6. b \in Range(bundles) /\ b \in Named
    BY DEF Range, Last
<1> HIDE DEF b
<1>7. /\ q.refined = p.refined \cup Range(bundles) /\ p.count <= q.count
      /\ \A c \in p.refined : p.bid[c] <= q.bid[c]
      /\ q.refined \in SUBSET Named /\ p.count \in Nat /\ q.count \in Nat
    BY <1>4, <1>5, ProxyIs DEF AskedMore
<1>8. /\ ps \in [Bidders -> ProxyRecords] /\ is \in [Bidders -> SUBSET Named]
      /\ ps[i] = q /\ is[i] = s.issued[i] \cup {b}
      /\ \A j \in Bidders \ {i} : ps[j] = s.proxies[j] /\ is[j] = s.issued[j]
    <2>1. q \in ProxyRecords
        BY <1>5 DEF ProxiesOf
    <2> QED
        BY <1>2, <1>6, <2>1
<1> HIDE DEF ps, is
<1>9. \A j \in Bidders : ps[j] \in ProxiesOf(truth[j]) /\ is[j] \subseteq ps[j].refined
    <2>1. s.issued[i] \subseteq p.refined
        BY <1>2 DEF p
    <2>2. is[i] \subseteq q.refined
        BY <1>6, <1>7, <1>8, <2>1
    <2> QED
        BY <1>2, <1>5, <1>8, <2>2
<1>10. Capping(ps)
    <2>1. \A j \in Bidders : s.proxies[j].count \in Nat /\ ps[j].count \in Nat
        BY <1>2, <1>9, ProxyIs
    <2>2. \A j \in Bidders \ {i} : ps[j].count = s.proxies[j].count
        BY <1>8
    <2>3. /\ QueryCount(s.proxies) \in Nat /\ QueryCount(ps) \in Nat
          /\ QueryCount(ps) = QueryCount(s.proxies) + ps[i].count - s.proxies[i].count
        BY <2>1, <2>2, QueriesAre
    <2>4. ps[i].count = q.count /\ s.proxies[i].count = p.count
        BY <1>8 DEF p
    <2>5. /\ policy.bidderCap = 0 \/ p.count < policy.bidderCap
          /\ policy.totalCap = 0 \/ QueryCount(s.proxies) < policy.totalCap
        BY <2>4 DEF Open, CapAllows
    <2>6. policy.bidderCap \in Nat /\ policy.totalCap \in Nat
        BY ElicitationAssumption DEF Settings, ProxyClockConfig
    <2>7. ASSUME policy.bidderCap > 0
          PROVE  \A j \in Bidders : ps[j].count <= policy.bidderCap + 1
        <3>1. q.count <= policy.bidderCap + 1
            BY <1>5, <1>7, <2>5, <2>6, <2>7
        <3> QED
            BY <1>2, <1>8, <2>4, <2>7, <3>1 DEF Capping
    <2>8. ASSUME policy.totalCap > 0
          PROVE  QueryCount(ps) <= policy.totalCap + 1
        BY <1>5, <1>7, <2>3, <2>4, <2>5, <2>6, <2>8
    <2> QED
        BY <2>7, <2>8 DEF Capping
<1>11. /\ t.proxies = ps /\ t.issued = is /\ t.revealed = s.revealed
       /\ t.supplementary = s.supplementary /\ t.marks = s.marks /\ t.count = s.count + 1
       /\ t.followup = s.followup
    BY <1>3
<1>12. t \in Sessions
    <2>1. t \in SessionRecords
        <3>1. s.count + 1 \in Nat
            BY <1>2
        <3> QED
            BY <1>2, <1>3, <1>8, <3>1 DEF SessionRecords
    <2> QED
        BY <1>9, <1>10, <1>11, <2>1 DEF Sessions
<1>13. After(s, t)
    <2>1. ASSUME NEW j \in Bidders
          PROVE  /\ s.issued[j] \subseteq t.issued[j]
                 /\ s.proxies[j].refined \subseteq t.proxies[j].refined
                 /\ s.proxies[j].count <= t.proxies[j].count
                 /\ \A c \in s.proxies[j].refined : s.proxies[j].bid[c] <= t.proxies[j].bid[c]
        <3>1. CASE j = i
            <4>1. s.proxies[j] = p /\ t.proxies[j] = q /\ t.issued[j] = s.issued[j] \cup {b}
                BY <1>8, <1>11, <3>1 DEF p
            <4> QED
                BY <1>7, <4>1
        <3>2. CASE j # i
            <4>1. s.proxies[j] = t.proxies[j] /\ t.issued[j] = s.issued[j]
                BY <1>8, <1>11, <3>2
            <4>2. /\ s.proxies[j].count \in Nat /\ s.proxies[j].refined \in SUBSET Named
                  /\ \A c \in Named : s.proxies[j].bid[c] \in Nat
                BY <1>2, ProxyIs
            <4> QED
                BY <4>1, <4>2
        <3> QED
            BY <3>1, <3>2
    <2>2. b \in t.issued[i] /\ b \notin s.issued[i]
        BY <1>8, <1>11 DEF b, Open
    <2>3. s.count <= t.count
        BY <1>2, <1>11
    <2> QED
        BY <2>1, <2>2, <2>3 DEF After
<1>14. t.proxies[i].refined = s.proxies[i].refined \cup Range(bundles)
    BY <1>7, <1>8, <1>11 DEF p
<1>15. t.issued[i] = s.issued[i] \cup {Last(bundles)}
    BY <1>8, <1>11 DEF b
<1> QED
    BY <1>8, <1>11, <1>12, <1>13, <1>14, <1>15 DEF IssuedOf, t

\* A question that is no longer open, because it was asked or a cap binds.
Settled(s, pair) == pair[2] \in s.issued[pair[1]] \/ ~CapAllows(s.proxies, pair[1])

\* Atoms recorded in a session that were asked about are within what the person said
\* and what is reported.
Fine(s, atoms) ==
    \A i \in Bidders : \A b \in DOMAIN atoms[i] \cap s.proxies[i].refined :
        truth[i][b] <= atoms[i][b] /\ atoms[i][b] <= s.proxies[i].bid[b]

\* The atom of a question is recorded already where the answer is.
Within(s, pair, keep) ==
    /\ keep = "revealed" => pair[2] \in DOMAIN s.revealed[pair[1]]
    /\ keep = "supplementary" => pair[2] \in DOMAIN s.supplementary[pair[1]]

\* The same atoms are recorded, whatever they are worth.
SameAtoms(s, t) ==
    \A i \in Bidders : /\ DOMAIN t.revealed[i] = DOMAIN s.revealed[i]
                       /\ DOMAIN t.supplementary[i] = DOMAIN s.supplementary[i]

\* What audits make of a session: nothing, if they asked nothing, and no record but that
\* of the answers is touched.
Kept(s, t, keep) ==
    /\ t \in Sessions /\ After(s, t)
    /\ t.count = s.count => t = s
    /\ keep # "revealed" => t.revealed = s.revealed
    /\ keep # "supplementary" => t.supplementary = s.supplementary
    /\ t.marks = s.marks /\ t.followup = s.followup
    /\ keep = "revealed" /\ Fine(s, s.revealed) => Fine(t, t.revealed)
    /\ keep = "supplementary" /\ Fine(s, s.supplementary) => Fine(t, t.supplementary)

\* Audits follow audits.
LEMMA KeptOrders ==
    ASSUME NEW s \in Sessions, NEW t \in Sessions, NEW u \in Sessions, NEW keep
    PROVE  Kept(s, s, keep) /\ (Kept(s, t, keep) /\ Kept(t, u, keep) => Kept(s, u, keep))
<1>1. Kept(s, s, keep)
    BY AfterOrders DEF Kept
<1>2. ASSUME Kept(s, t, keep), Kept(t, u, keep)
      PROVE  Kept(s, u, keep)
    <2>1. After(s, t) /\ After(t, u) /\ After(s, u)
        BY <1>2, AfterOrders DEF Kept
    <2>2. s.count \in Nat /\ t.count \in Nat /\ u.count \in Nat
        BY SessionIs
    <2>3. s.count <= t.count /\ t.count <= u.count
        BY <2>1 DEF After
    <2>4. ASSUME u.count = s.count
          PROVE  u = s
        <3>1. t.count = s.count /\ u.count = t.count
            BY <2>2, <2>3, <2>4
        <3> QED
            BY <1>2, <3>1 DEF Kept
    <2> QED
        BY <1>2, <2>1, <2>4 DEF Kept
<1> QED
    BY <1>1, <1>2

\* Reports say more when they are said more often: counts add up.
LEMMA CountsGrow ==
    ASSUME NEW s \in Sessions, NEW t \in Sessions, After(s, t)
    PROVE  QueryCount(s.proxies) <= QueryCount(t.proxies)
           /\ QueryCount(s.proxies) \in Nat /\ QueryCount(t.proxies) \in Nat
<1> DEFINE old == [i \in Bidders |-> s.proxies[i].count]
           new == [i \in Bidders |-> t.proxies[i].count]
<1>1. /\ QueryCount(s.proxies) = SumFunctionOnSet(old, Bidders)
      /\ QueryCount(t.proxies) = SumFunctionOnSet(new, Bidders)
    BY DEF QueryCount, SumFunction
<1>2. \A i \in Bidders : old[i] \in Nat /\ new[i] \in Nat /\ old[i] <= new[i]
    BY SessionIs, ProxyIs DEF After
<1> HIDE DEF old, new
<1>3. IsFiniteSet(Bidders)
    BY ListedBidders
<1>4. /\ SumFunctionOnSet(old, Bidders) \in Nat /\ SumFunctionOnSet(new, Bidders) \in Nat
    BY <1>2, <1>3, SumIsNat
<1>5. SumFunctionOnSet(old, Bidders) <= SumFunctionOnSet(new, Bidders)
    <2>1. \A i \in Bidders : old[i] \in Int /\ new[i] \in Int /\ old[i] <= new[i]
        BY <1>2
    <2> QED
        BY <1>3, <2>1, SumMonotone
<1> QED
    BY <1>1, <1>4, <1>5

\* What is settled stays so.
LEMMA SettledStays ==
    ASSUME Settings, NEW s \in Sessions, NEW t \in Sessions, After(s, t), NEW pair \in Pairs,
           Settled(s, pair)
    PROVE  Settled(t, pair)
<1> DEFINE i == pair[1]
<1>1. i \in Bidders
    BY DEF Pairs
<1> HIDE DEF i
<1>2. CASE pair[2] \in s.issued[i]
    BY <1>1, <1>2 DEF Settled, After, i
<1>3. CASE ~CapAllows(s.proxies, i)
    <2>1. /\ s.proxies[i].count \in Nat /\ t.proxies[i].count \in Nat
          /\ s.proxies[i].count <= t.proxies[i].count
        BY <1>1, SessionIs, ProxyIs DEF After
    <2>2. /\ QueryCount(s.proxies) <= QueryCount(t.proxies)
          /\ QueryCount(s.proxies) \in Nat /\ QueryCount(t.proxies) \in Nat
        BY CountsGrow
    <2>3. policy.bidderCap \in Nat /\ policy.totalCap \in Nat
        BY ElicitationAssumption DEF Settings, ProxyClockConfig
    <2>4. ~CapAllows(t.proxies, i)
        BY <1>3, <2>1, <2>2, <2>3 DEF CapAllows
    <2> QED
        BY <2>4 DEF Settled, i
<1> QED
    BY <1>2, <1>3 DEF Settled, i

\* What an audit's query leaves.
QueriedOf(s, t, pair, keep) ==
    /\ Kept(s, t, keep)
    /\ Settled(t, pair)
    /\ Within(s, pair, keep) => SameAtoms(s, t)

\* A query keeps the books in order, and is settled by being made or withheld.
LEMMA AuditQueryIs ==
    ASSUME Settings, NEW s \in Sessions, NEW pair \in Pairs, NEW keep
    PROVE  QueriedOf(s, AuditQuery(s, pair, keep), pair, keep)
<1> DEFINE i == pair[1]
           b == pair[2]
           t == Issue(s, i, <<b>>)
           up(old) == Upsert(old, b, t.proxies[i].bid[b])
           rv == [t.revealed EXCEPT ![i] = IF keep = "revealed" THEN up(@) ELSE @]
           sp == [t.supplementary EXCEPT ![i] = IF keep = "supplementary" THEN up(@) ELSE @]
           u == AuditQuery(s, pair, keep)
<1>1. i \in Bidders /\ b \in Named /\ b # {}
    BY NamedFacts DEF Pairs
<1> HIDE DEF i, b
<1>2. CASE ~Open(s, i, b)
    <2>1. u = s
        BY <1>2 DEF AuditQuery, i, b
    <2>2. Settled(s, pair)
        BY <1>1, <1>2 DEF Open, Settled, i, b
    <2>3. SameAtoms(s, s)
        BY DEF SameAtoms
    <2> QED
        BY <2>1, <2>2, <2>3, KeptOrders DEF QueriedOf
<1>3. CASE Open(s, i, b)
    <2>1. u = [t EXCEPT !.revealed[i] = IF keep = "revealed" THEN up(@) ELSE @,
                        !.supplementary[i] = IF keep = "supplementary" THEN up(@) ELSE @]
        BY <1>3 DEF AuditQuery, i, b
    <2>2. /\ <<b>> \in Seq(Named) /\ Len(<<b>>) \in {1, 2} /\ Last(<<b>>) = b
          /\ Range(<<b>>) = {b}
        BY <1>1 DEF Last, Range
    <2>3. IssuedOf(s, t, i, <<b>>)
        BY <1>1, <1>3, <2>2, IssueIs
    <2> HIDE DEF t
    <2>4. /\ t \in Sessions /\ After(s, t) /\ t.count = s.count + 1
          /\ t.revealed = s.revealed /\ t.supplementary = s.supplementary
          /\ t.marks = s.marks /\ t.followup = s.followup
          /\ t.proxies[i].refined = s.proxies[i].refined \cup {b}
          /\ t.issued[i] = s.issued[i] \cup {b}
          /\ \A j \in Bidders \ {i} : t.proxies[j] = s.proxies[j] /\ t.issued[j] = s.issued[j]
        BY <2>2, <2>3 DEF IssuedOf
    <2>5. /\ t = [proxies |-> t.proxies, issued |-> t.issued, revealed |-> t.revealed,
                  supplementary |-> t.supplementary, marks |-> t.marks, count |-> t.count,
                  followup |-> t.followup]
          /\ t.proxies \in [Bidders -> ProxyRecords] /\ t.issued \in [Bidders -> SUBSET Named]
          /\ t.revealed \in [Bidders -> Reports] /\ t.supplementary \in [Bidders -> Reports]
          /\ t.marks \in [Bidders -> SUBSET Marks] /\ t.count \in Nat /\ t.followup \in Bundles
          /\ \A j \in Bidders : t.proxies[j] \in ProxiesOf(truth[j]) /\ t.issued[j] \subseteq t.proxies[j].refined
          /\ Capping(t.proxies)
        BY <2>4, SessionIs
    <2>6. u = [proxies |-> t.proxies, issued |-> t.issued, revealed |-> rv,
               supplementary |-> sp, marks |-> t.marks, count |-> t.count,
               followup |-> t.followup]
        <3>1. u = [t EXCEPT !.revealed = rv, !.supplementary = sp]
            <4> HIDE DEF u, up
            <4> QED
                BY <2>1, <2>5
        <3> HIDE DEF u, rv, sp
        <3> QED
            BY <2>5, <3>1
    <2>7. /\ t.proxies[i].bid \in [Named -> Nat] /\ b \in t.proxies[i].refined
          /\ truth[i][b] <= t.proxies[i].bid[b]
        BY <1>1, <2>4, <2>5, ProxyIs
    <2>8. \A r \in Reports : /\ up(r) \in Reports /\ DOMAIN up(r) = DOMAIN r \cup {b}
                             /\ up(r)[b] = t.proxies[i].bid[b]
                             /\ \A c \in DOMAIN r : c # b => up(r)[c] = r[c]
        <3> SUFFICES ASSUME NEW r \in Reports
                     PROVE  /\ up(r) \in Reports /\ DOMAIN up(r) = DOMAIN r \cup {b}
                            /\ up(r)[b] = t.proxies[i].bid[b]
                            /\ \A c \in DOMAIN r : c # b => up(r)[c] = r[c]
            OBVIOUS
        <3>1. r \in [DOMAIN r -> Nat] /\ DOMAIN r \in SUBSET Named
            BY ReportIs
        <3>2. /\ up(r) \in [DOMAIN r \cup {b} -> Nat] /\ DOMAIN up(r) = DOMAIN r \cup {b}
              /\ DOMAIN r \cup {b} \in SUBSET Named
              /\ up(r)[b] = t.proxies[i].bid[b]
              /\ \A c \in DOMAIN r : c # b => up(r)[c] = r[c]
            BY <1>1, <2>7, <3>1 DEF Upsert
        <3> HIDE DEF up
        <3> QED
            BY <3>2, ReportIs
    <2> HIDE DEF u, up
    <2>9. /\ rv \in [Bidders -> Reports] /\ sp \in [Bidders -> Reports]
          /\ \A j \in Bidders \ {i} : rv[j] = t.revealed[j] /\ sp[j] = t.supplementary[j]
          /\ keep = "revealed" => rv[i] = up(t.revealed[i])
          /\ keep = "supplementary" => sp[i] = up(t.supplementary[i])
          /\ keep # "revealed" => rv = t.revealed
          /\ keep # "supplementary" => sp = t.supplementary
        BY <1>1, <2>5, <2>8
    <2> HIDE DEF rv, sp
    <2>10. /\ u.proxies = t.proxies /\ u.issued = t.issued /\ u.revealed = rv
           /\ u.supplementary = sp /\ u.marks = t.marks /\ u.count = t.count
           /\ u.followup = t.followup
        BY <2>6
    <2>11. u \in Sessions
        <3>1. u \in SessionRecords
            BY <2>5, <2>6, <2>9 DEF SessionRecords
        <3> QED
            BY <2>5, <2>10, <3>1 DEF Sessions
    <2>12. After(s, u)
        BY <2>4, <2>10 DEF After
    <2>13. u.count # s.count
        <3>1. s.count \in Nat
            BY SessionIs
        <3> QED
            BY <2>4, <2>10, <3>1
    <2>14. ASSUME NEW old \in [Bidders -> Reports], NEW new, Fine(s, old),
                  new[i] = up(old[i]), \A j \in Bidders \ {i} : new[j] = old[j]
           PROVE  Fine(u, new)
        <3> SUFFICES ASSUME NEW j \in Bidders, NEW c \in DOMAIN new[j] \cap u.proxies[j].refined
                     PROVE  truth[j][c] <= new[j][c] /\ new[j][c] <= u.proxies[j].bid[c]
            BY DEF Fine
        <3>1. CASE j = i /\ c = b
            <4>1. new[j][c] = t.proxies[i].bid[b] /\ t.proxies[i].bid[b] \in Nat
                <5>1. old[i] \in Reports
                    BY <1>1
                <5>2. up(old[i])[b] = t.proxies[i].bid[b]
                    BY <2>8, <5>1
                <5> QED
                    BY <1>1, <2>7, <2>14, <3>1, <5>2
            <4> QED
                BY <2>7, <2>10, <3>1, <4>1
        <3>2. CASE j # i \/ c # b
            <4>1. c \in DOMAIN old[j] /\ new[j][c] = old[j][c]
                <5>1. CASE j = i
                    <6>1. old[i] \in Reports /\ c # b
                        BY <1>1, <3>2, <5>1
                    <6>2. /\ DOMAIN up(old[i]) = DOMAIN old[i] \cup {b}
                          /\ \A a \in DOMAIN old[i] : a # b => up(old[i])[a] = old[i][a]
                        BY <2>8, <6>1
                    <6> QED
                        BY <2>14, <5>1, <6>1, <6>2
                <5>2. CASE j # i
                    BY <2>14, <5>2
                <5> QED
                    BY <5>1, <5>2
            <4>2. c \in s.proxies[j].refined
                BY <2>4, <2>10, <3>2
            <4>3. truth[j][c] <= old[j][c] /\ old[j][c] <= s.proxies[j].bid[c]
                BY <2>14, <4>1, <4>2 DEF Fine
            <4>4. s.proxies[j].bid[c] <= u.proxies[j].bid[c]
                BY <2>12, <4>2 DEF After
            <4>5. c \in Named /\ old[j][c] \in Nat
                BY <4>1, ReportIs
            <4>6. s.proxies[j].bid[c] \in Nat /\ u.proxies[j].bid[c] \in Nat
                BY <2>11, <4>5, SessionIs, ProxyIs
            <4> QED
                BY <4>1, <4>3, <4>4, <4>5, <4>6
        <3> QED
            BY <3>1, <3>2
    <2>15. s.revealed \in [Bidders -> Reports] /\ s.supplementary \in [Bidders -> Reports]
        BY SessionIs
    <2>16. keep = "revealed" /\ Fine(s, s.revealed) => Fine(u, u.revealed)
        BY <2>4, <2>9, <2>10, <2>14, <2>15
    <2>17. keep = "supplementary" /\ Fine(s, s.supplementary) => Fine(u, u.supplementary)
        BY <2>4, <2>9, <2>10, <2>14, <2>15
    <2>18. Kept(s, u, keep)
        BY <2>4, <2>9, <2>10, <2>11, <2>12, <2>13, <2>16, <2>17 DEF Kept
    <2>19. Settled(u, pair)
        BY <2>4, <2>10 DEF Settled, i, b
    <2>20. ASSUME Within(s, pair, keep)
           PROVE  SameAtoms(s, u)
        <3> SUFFICES ASSUME NEW j \in Bidders
                     PROVE  /\ DOMAIN u.revealed[j] = DOMAIN s.revealed[j]
                            /\ DOMAIN u.supplementary[j] = DOMAIN s.supplementary[j]
            BY DEF SameAtoms
        <3>1. /\ keep = "revealed" => b \in DOMAIN s.revealed[i]
              /\ keep = "supplementary" => b \in DOMAIN s.supplementary[i]
            BY <2>20 DEF Within, i, b
        <3>2. CASE j = i
            <4>1. /\ s.revealed[i] \in Reports /\ s.supplementary[i] \in Reports
                  /\ t.revealed[i] = s.revealed[i] /\ t.supplementary[i] = s.supplementary[i]
                BY <1>1, <2>4, <2>15
            <4>2. /\ DOMAIN up(s.revealed[i]) = DOMAIN s.revealed[i] \cup {b}
                  /\ DOMAIN up(s.supplementary[i]) = DOMAIN s.supplementary[i] \cup {b}
                BY <2>8, <4>1
            <4>3. DOMAIN rv[i] = DOMAIN s.revealed[i]
                BY <2>9, <3>1, <4>1, <4>2
            <4>4. DOMAIN sp[i] = DOMAIN s.supplementary[i]
                BY <2>9, <3>1, <4>1, <4>2
            <4> QED
                BY <2>10, <3>2, <4>3, <4>4
        <3>3. CASE j # i
            BY <2>4, <2>9, <2>10, <3>3
        <3> QED
            BY <3>2, <3>3
    <2> QED
        BY <2>18, <2>19, <2>20 DEF QueriedOf, u
<1> QED
    BY <1>2, <1>3

\* What every step keeps, at its place, the steps reach.
LEMMA StepsKeep ==
    ASSUME NEW m \in Nat, NEW g, NEW V, <<0, g[0]>> \in V,
           \A k \in 1..m : <<k - 1, g[k - 1]>> \in V => <<k, g[k]>> \in V
    PROVE  <<m, g[m]>> \in V
<1> DEFINE h == [k \in 0..m |-> <<k, g[k]>>]
<1>1. \A k \in 0..m : h[k] = <<k, g[k]>>
    OBVIOUS
<1>2. \A k \in 1..m : k \in 0..m /\ k - 1 \in 0..m
    OBVIOUS
<1> HIDE DEF h
<1>3. h[0] \in V /\ \A k \in 1..m : h[k - 1] \in V => h[k] \in V
    BY <1>1, <1>2
<1>4. \A k \in 0..m : h[k] \in V
    BY <1>3, StepByStep
<1>5. m \in 0..m
    OBVIOUS
<1> QED
    BY <1>1, <1>4, <1>5

\* The audits query one pair after the other.
LEMMA AuditSteps ==
    ASSUME Settings, NEW s \in Sessions, NEW pairs \in Seq(Pairs), NEW keep
    PROVE  \E g : /\ g[0] = s /\ AuditQueries(s, pairs, keep) = g[Len(pairs)]
                  /\ \A k \in 0..Len(pairs) : g[k] \in Sessions
                  /\ \A k \in 1..Len(pairs) : g[k] = AuditQuery(g[k - 1], pairs[k], keep)
<1> DEFINE m == Len(pairs)
           U == Sessions
           op(q, b) == AuditQuery(q, b, keep)
           next == [qk \in U \X (1..m) |-> op(qk[1], pairs[qk[2]])]
           P(f) == f = [S \in SUBSET (1..m) |->
                           IF S = {} THEN s ELSE op(f[S \ {Max(S)}], pairs[Max(S)])]
           c == CHOOSE f : P(f)
<1>1. m \in Nat /\ DOMAIN pairs = 1..m /\ \A k \in 1..m : pairs[k] \in Pairs
    OBVIOUS
<1>2. AuditQueries(s, pairs, keep) = c[1..m]
    BY <1>1 DEF AuditQueries, FoldLeft, MapThenFoldSet
<1>3. \A q \in U : \A b \in Pairs : op(q, b) \in U
    BY AuditQueryIs DEF QueriedOf, Kept
<1> HIDE DEF U, op, m
<1>4. next \in [U \X (1..m) -> U] /\ s \in U
    BY <1>1, <1>3 DEF U
<1>5. \A q \in U : \A k \in 1..m : next[<<q, k>>] = op(q, pairs[k])
    OBVIOUS
<1> HIDE DEF next
<1>6. \E f : P(f)
    <2>1. PICK f \in [SUBSET (1..m) -> U] : Folds(f, s, next, m)
        BY <1>1, <1>4, FoldExists
    <2>2. \A S \in SUBSET (1..m) :
              f[S] = IF S = {} THEN s ELSE next[<<f[S \ {Max(S)}], Max(S)>>]
        BY <2>1 DEF Folds
    <2>3. \A S \in SUBSET (1..m) :
              f[S] = IF S = {} THEN s ELSE op(f[S \ {Max(S)}], pairs[Max(S)])
        BY <1>1, <1>5, <2>1, <2>2, LargestOfPart
    <2>4. P(f)
        BY <2>1, <2>3
    <2> HIDE DEF P
    <2> QED
        BY <2>4
<1>7. P(c)
    <2> HIDE DEF P
    <2> QED
        BY <1>6
<1> HIDE DEF c
<1> DEFINE g == [k \in 0..m |-> c[1..k]]
<1>8. g[0] = s
    <2>1. 1..0 = {} /\ {} \in SUBSET (1..m) /\ 0 \in 0..m
        BY <1>1
    <2>2. c[{}] = s
        BY <1>7, <2>1
    <2> QED
        BY <2>1, <2>2
<1>9. \A k \in 1..m : g[k] = op(g[k - 1], pairs[k])
    <2> SUFFICES ASSUME NEW k \in 1..m
                 PROVE  g[k] = op(g[k - 1], pairs[k])
        OBVIOUS
    <2>1. k \in Nat \ {0} /\ k \in 0..m /\ k - 1 \in 0..m /\ 1..k \in SUBSET (1..m)
        BY <1>1
    <2>2. 1..k # {} /\ Max(1..k) = k /\ (1..k) \ {Max(1..k)} = 1..k - 1
        BY <2>1, Beginning
    <2>3. c[1..k] = op(c[1..k - 1], pairs[k])
        BY <1>7, <2>1, <2>2
    <2> QED
        BY <2>1, <2>3
<1> HIDE DEF P
<1>10. g[m] = c[1..m]
    BY <1>1
<1> HIDE DEF g
<1>11. \A k \in 0..m : g[k] \in U
    <2>1. \A k \in 1..m : g[k - 1] \in U => g[k] \in U
        BY <1>1, <1>3, <1>9
    <2>2. g[0] \in U
        BY <1>4, <1>8
    <2> QED
        BY <1>1, <2>1, <2>2, StepByStep
<1> QED
    BY <1>2, <1>8, <1>9, <1>10, <1>11 DEF U, op, m

\* What the queries of an audit leave: every one is settled.
QueriedAll(s, t, pairs, keep) ==
    /\ Kept(s, t, keep)
    /\ \A k \in DOMAIN pairs : Settled(t, pairs[k])
    /\ (\A k \in DOMAIN pairs : Within(s, pairs[k], keep)) => SameAtoms(s, t)

\* The queries of an audit keep the books in order, and all of them are settled.
LEMMA AuditQueriesAre ==
    ASSUME Settings, NEW s \in Sessions, NEW pairs \in Seq(Pairs), NEW keep
    PROVE  QueriedAll(s, AuditQueries(s, pairs, keep), pairs, keep)
<1> DEFINE m == Len(pairs)
           t == AuditQueries(s, pairs, keep)
           Good(k, x) ==
               /\ Kept(s, x, keep)
               /\ \A l \in 1..k : Settled(x, pairs[l])
               /\ (\A l \in 1..m : Within(s, pairs[l], keep)) => SameAtoms(s, x)
           V == {kx \in (0..m) \X Sessions : Good(kx[1], kx[2])}
<1>1. m \in Nat /\ DOMAIN pairs = 1..m /\ \A k \in 1..m : pairs[k] \in Pairs
    OBVIOUS
<1>2. PICK g : /\ g[0] = s /\ t = g[m]
               /\ \A k \in 0..m : g[k] \in Sessions
               /\ \A k \in 1..m : g[k] = AuditQuery(g[k - 1], pairs[k], keep)
    BY AuditSteps
<1> HIDE DEF m, t
<1>3. \A k \in 0..m : <<k, g[k]>> \in V <=> Good(k, g[k])
    <2> HIDE DEF Good
    <2> QED
        BY <1>2
<1>4. Good(0, g[0])
    <2>1. SameAtoms(s, s)
        BY DEF SameAtoms
    <2>2. 1..0 = {}
        OBVIOUS
    <2> QED
        BY <1>2, <2>1, <2>2, KeptOrders
<1>5. ASSUME NEW k \in 1..m, Good(k - 1, g[k - 1])
      PROVE  Good(k, g[k])
    <2> DEFINE x == g[k - 1]
               y == g[k]
    <2>1. k - 1 \in 0..m /\ k \in 0..m /\ 1..k = 1..k - 1 \cup {k} /\ 1..k - 1 \subseteq 1..m
        BY <1>1
    <2>2. x \in Sessions /\ y \in Sessions /\ y = AuditQuery(x, pairs[k], keep) /\ pairs[k] \in Pairs
        BY <1>1, <1>2, <2>1
    <2>3. /\ Kept(s, x, keep)
          /\ \A l \in 1..k - 1 : Settled(x, pairs[l])
          /\ (\A l \in 1..m : Within(s, pairs[l], keep)) => SameAtoms(s, x)
        BY <1>5
    <2> HIDE DEF x, y
    <2>4. QueriedOf(x, y, pairs[k], keep)
        BY <2>2, AuditQueryIs
    <2>5. Kept(x, y, keep) /\ After(x, y) /\ Settled(y, pairs[k])
        BY <2>4 DEF QueriedOf, Kept
    <2>6. Kept(s, y, keep)
        BY <2>2, <2>3, <2>5, KeptOrders
    <2>7. \A l \in 1..k : Settled(y, pairs[l])
        <3>1. \A l \in 1..k - 1 : pairs[l] \in Pairs
            BY <1>1, <2>1
        <3>2. \A l \in 1..k - 1 : Settled(y, pairs[l])
            BY <2>2, <2>3, <2>5, <3>1, SettledStays
        <3> QED
            BY <2>1, <2>5, <3>2
    <2>8. ASSUME \A l \in 1..m : Within(s, pairs[l], keep)
          PROVE  SameAtoms(s, y)
        <3>1. SameAtoms(s, x) /\ Within(s, pairs[k], keep)
            BY <2>3, <2>8
        <3>2. pairs[k][1] \in Bidders
            BY <2>2 DEF Pairs
        <3>3. Within(x, pairs[k], keep)
            BY <3>1, <3>2 DEF Within, SameAtoms
        <3>4. SameAtoms(x, y)
            BY <2>4, <3>3 DEF QueriedOf
        <3> QED
            BY <3>1, <3>4 DEF SameAtoms
    <2> QED
        BY <2>6, <2>7, <2>8 DEF y
<1>6. Good(m, g[m])
    <2>1. \A k \in 1..m : k \in 0..m /\ k - 1 \in 0..m
        BY <1>1
    <2>2. 0 \in 0..m /\ m \in 0..m
        BY <1>1
    <2> HIDE DEF Good, V
    <2>3. \A k \in 1..m : <<k - 1, g[k - 1]>> \in V => <<k, g[k]>> \in V
        BY <1>3, <1>5, <2>1
    <2>4. <<0, g[0]>> \in V
        BY <1>3, <1>4, <2>2
    <2>5. <<m, g[m]>> \in V
        BY <1>1, <2>3, <2>4, StepsKeep
    <2> QED
        BY <1>3, <2>2, <2>5
<1> QED
    BY <1>1, <1>2, <1>6 DEF QueriedAll, t

\* The sessions that audits make of a session without recording the answers.
KeptFrom(s) == {t \in Sessions : Kept(s, t, "nowhere")}

\* What is asked of the exposed bundles, one for every bidder at most.
Exposed(s, pairs) ==
    FoldLeft(LAMBDA t, pair : IF t.issued[pair[1]] # s.issued[pair[1]] THEN t
                              ELSE AuditQuery(t, pair, "nowhere"), s, pairs)

\* They are asked one after the other.
LEMMA ExposedSteps ==
    ASSUME Settings, NEW s \in Sessions, NEW pairs \in Seq(Pairs)
    PROVE  \E g : /\ g[0] = s /\ Exposed(s, pairs) = g[Len(pairs)]
                  /\ \A k \in 0..Len(pairs) : g[k] \in KeptFrom(s)
                  /\ \A k \in 1..Len(pairs) : g[k] =
                        IF g[k - 1].issued[pairs[k][1]] # s.issued[pairs[k][1]] THEN g[k - 1]
                        ELSE AuditQuery(g[k - 1], pairs[k], "nowhere")
<1> DEFINE m == Len(pairs)
           U == KeptFrom(s)
           op(q, b) == IF q.issued[b[1]] # s.issued[b[1]] THEN q ELSE AuditQuery(q, b, "nowhere")
           next == [qk \in U \X (1..m) |-> op(qk[1], pairs[qk[2]])]
           P(f) == f = [S \in SUBSET (1..m) |->
                           IF S = {} THEN s ELSE op(f[S \ {Max(S)}], pairs[Max(S)])]
           c == CHOOSE f : P(f)
<1>1. m \in Nat /\ DOMAIN pairs = 1..m /\ \A k \in 1..m : pairs[k] \in Pairs
    OBVIOUS
<1>2. Exposed(s, pairs) = c[1..m]
    BY <1>1 DEF Exposed, FoldLeft, MapThenFoldSet
<1>3. \A q \in U : \A b \in Pairs : op(q, b) \in U
    <2> SUFFICES ASSUME NEW q \in U, NEW b \in Pairs
                 PROVE  op(q, b) \in U
        OBVIOUS
    <2>1. q \in Sessions /\ Kept(s, q, "nowhere")
        BY DEF KeptFrom
    <2> DEFINE t == AuditQuery(q, b, "nowhere")
    <2>2. Kept(q, t, "nowhere") /\ t \in Sessions
        BY <2>1, AuditQueryIs DEF QueriedOf, Kept
    <2> HIDE DEF t
    <2>3. Kept(s, t, "nowhere")
        BY <2>1, <2>2, KeptOrders
    <2>4. t \in U
        BY <2>2, <2>3 DEF KeptFrom
    <2>5. op(q, b) = q \/ op(q, b) = t
        BY DEF t
    <2> QED
        BY <2>4, <2>5
<1> HIDE DEF U, op, m
<1>4. next \in [U \X (1..m) -> U] /\ s \in U
    BY <1>1, <1>3, KeptOrders DEF U, KeptFrom
<1>5. \A q \in U : \A k \in 1..m : next[<<q, k>>] = op(q, pairs[k])
    OBVIOUS
<1> HIDE DEF next
<1>6. \E f : P(f)
    <2>1. PICK f \in [SUBSET (1..m) -> U] : Folds(f, s, next, m)
        BY <1>1, <1>4, FoldExists
    <2>2. \A S \in SUBSET (1..m) :
              f[S] = IF S = {} THEN s ELSE next[<<f[S \ {Max(S)}], Max(S)>>]
        BY <2>1 DEF Folds
    <2>3. \A S \in SUBSET (1..m) :
              f[S] = IF S = {} THEN s ELSE op(f[S \ {Max(S)}], pairs[Max(S)])
        BY <1>1, <1>5, <2>1, <2>2, LargestOfPart
    <2>4. P(f)
        BY <2>1, <2>3
    <2> HIDE DEF P
    <2> QED
        BY <2>4
<1>7. P(c)
    <2> HIDE DEF P
    <2> QED
        BY <1>6
<1> HIDE DEF c
<1> DEFINE g == [k \in 0..m |-> c[1..k]]
<1>8. g[0] = s
    <2>1. 1..0 = {} /\ {} \in SUBSET (1..m) /\ 0 \in 0..m
        BY <1>1
    <2>2. c[{}] = s
        BY <1>7, <2>1
    <2> QED
        BY <2>1, <2>2
<1>9. \A k \in 1..m : g[k] = op(g[k - 1], pairs[k])
    <2> SUFFICES ASSUME NEW k \in 1..m
                 PROVE  g[k] = op(g[k - 1], pairs[k])
        OBVIOUS
    <2>1. k \in Nat \ {0} /\ k \in 0..m /\ k - 1 \in 0..m /\ 1..k \in SUBSET (1..m)
        BY <1>1
    <2>2. 1..k # {} /\ Max(1..k) = k /\ (1..k) \ {Max(1..k)} = 1..k - 1
        BY <2>1, Beginning
    <2>3. c[1..k] = op(c[1..k - 1], pairs[k])
        BY <1>7, <2>1, <2>2
    <2> QED
        BY <2>1, <2>3
<1> HIDE DEF P
<1>10. g[m] = c[1..m]
    BY <1>1
<1> HIDE DEF g
<1>11. \A k \in 0..m : g[k] \in U
    <2>1. \A k \in 1..m : g[k - 1] \in U => g[k] \in U
        BY <1>1, <1>3, <1>9
    <2>2. g[0] \in U
        BY <1>4, <1>8
    <2> QED
        BY <1>1, <2>1, <2>2, StepByStep
<1> QED
    BY <1>2, <1>8, <1>9, <1>10, <1>11 DEF U, op, m

\* Questions about atoms are questions, and so are some of a list of questions.
LEMMA AtomPairsAre ==
    ASSUME NEW bids, NEW pairs \in Seq(AtomPairs(bids))
    PROVE  /\ pairs \in Seq(Pairs)
           /\ \A k \in DOMAIN pairs :
                 pairs[k] \in Pairs /\ pairs[k][1] \in Bidders /\ pairs[k][2] \in DOMAIN bids[pairs[k][1]]
<1>1. AtomPairs(bids) \subseteq Pairs
    BY DEF AtomPairs
<1>2. \A k \in DOMAIN pairs : pairs[k] \in AtomPairs(bids)
    OBVIOUS
<1> QED
    BY <1>1, <1>2 DEF AtomPairs, Pairs

\* The elements picked of a list are a list of elements of the same kind.
LEMMA PickedStays ==
    ASSUME NEW T, NEW s \in Seq(T), NEW ks \in SUBSET DOMAIN s
    PROVE  /\ Picked(s, ks) \in Seq(T)
           /\ Range(Picked(s, ks)) = {s[k] : k \in ks}
           /\ Picked(s, ks) = <<>> <=> ks = {}
<1>1. /\ Picked(s, ks) \in Seq({s[k] : k \in ks})
      /\ Range(Picked(s, ks)) = {s[k] : k \in ks}
    BY PickedSeq
<1>3. Picked(s, ks) = <<>> <=> ks = {}
    BY PickedSeq
<1>2. {s[k] : k \in ks} \subseteq T
    OBVIOUS
<1> QED
    BY <1>1, <1>2, <1>3

\* The bids a winner determination sees are reports.
LEMMA ReportedIs ==
    ASSUME Settings, NEW s \in Sessions, NEW restricted \in [Bidders -> Reports]
    PROVE  /\ Reported(s, restricted) \in [Bidders -> Reports]
           /\ policy.support = "demand_revealed" => Reported(s, restricted) = restricted
           /\ policy.support = "all_atoms" =>
                 Reported(s, restricted) = [i \in Bidders |-> s.proxies[i].bid]
           /\ policy.support \in {"all_atoms", "demand_revealed"}
<1>1. \A i \in Bidders : s.proxies[i].bid \in Reports
    BY SessionIs, ProxyIs
<1>2. policy.support \in {"all_atoms", "demand_revealed"}
    BY ElicitationAssumption DEF Settings, ProxyClockConfig
<1> QED
    BY <1>1, <1>2 DEF Reported

\* The bundles exposed during the clock are asked about without a record.
LEMMA CounterfactualIs ==
    ASSUME Settings, NEW s \in Sessions
    PROVE  /\ Kept(s, CounterfactualQueries(s), "nowhere")
           /\ ~On("counterfactual") => CounterfactualQueries(s) = s
<1> DEFINE bids == Reported(s, s.revealed)
           pairs == Frontier(bids, Solve(bids), FALSE)
<1>1. CASE ~On("counterfactual")
    <2>1. CounterfactualQueries(s) = s
        BY <1>1 DEF CounterfactualQueries
    <2> QED
        BY <2>1, KeptOrders
<1>2. CASE On("counterfactual")
    <2>1. CounterfactualQueries(s) = Exposed(s, pairs)
        BY <1>2 DEF CounterfactualQueries, Exposed, FoldLeft, MapThenFoldSet
    <2>2. s.revealed \in [Bidders -> Reports]
        BY SessionIs
    <2>3. bids \in [Bidders -> Reports]
        BY <2>2, ReportedIs
    <2> HIDE DEF bids
    <2>4. Solve(bids) \in [Bidders -> Bundles]
        <3>1. Bidders \in SUBSET Bidders
            OBVIOUS
        <3> QED
            BY <2>3, <3>1, SolveIs
    <2>5. pairs \in Seq(Pairs)
        <3>1. pairs \in Seq(AtomPairs(bids))
            BY <2>3, <2>4, FrontierIs
        <3> HIDE DEF pairs
        <3> QED
            BY <3>1, AtomPairsAre
    <2> HIDE DEF pairs
    <2>6. PICK g : /\ Exposed(s, pairs) = g[Len(pairs)]
                   /\ \A k \in 0..Len(pairs) : g[k] \in KeptFrom(s)
        BY <2>5, ExposedSteps
    <2>7. Len(pairs) \in 0..Len(pairs)
        BY <2>5
    <2>8. CounterfactualQueries(s) \in KeptFrom(s)
        BY <2>1, <2>6, <2>7
    <2> QED
        BY <1>2, <2>8 DEF KeptFrom
<1> QED
    BY <1>1, <1>2

-----------------------------------------------------------------------------
(* The events of a round.                                                  *)

\* What an event spans: a bundle, or two.
Spans == {span \in Seq(Named) : Len(span) \in {1, 2}}

\* Events are of one bundle, of two, or there is none.
LEMMA SpansAre ==
    /\ \A b \in Named : <<b>> \in Spans /\ <<<<b>>>> \in Seq(Spans)
    /\ \A b, c \in Named : <<b, c>> \in Spans /\ <<<<b, c>>>> \in Seq(Spans)
    /\ <<>> \in Seq(Spans)
    /\ \A s, t \in Seq(Spans) : s \o t \in Seq(Spans)
<1>1. \A b \in Named : <<b>> \in Spans
    BY DEF Spans
<1>2. \A b, c \in Named : <<b, c>> \in Spans
    BY DEF Spans
<1>3. \A x \in Spans : <<x>> \in Seq(Spans)
    OBVIOUS
<1>4. <<>> \in Seq(Spans) /\ \A s, t \in Seq(Spans) : s \o t \in Seq(Spans)
    OBVIOUS
<1> QED
    BY <1>1, <1>2, <1>3, <1>4

\* What the oracle looks at is about bundles that have a name.
IsView(i, view) ==
    /\ view.surplus \in [Named -> Int]
    /\ view.ranked \in Seq(Named) /\ view.ranked # <<>>
    /\ view.now \in Named \cup {NoBundle}
    /\ view.switched => lastPrimary[i] # NoBundle

\* What the events of a round are made from.
Asked ==
    /\ Settings
    /\ Session \in Sessions
    /\ prices \in [Items -> Nat]
    /\ lastPrimary \in [Bidders -> Named \cup {NoBundle}]

\* The bids are about all bundles with a name, of which there are some.
LEMMA BidsAre ==
    ASSUME Settings, Session \in Sessions
    PROVE  /\ \A i \in Bidders : /\ proxies[i] \in ProxiesOf(truth[i])
                                 /\ proxies[i].bid \in [Named -> Nat] /\ proxies[i].bid \in Reports
                                 /\ DOMAIN proxies[i].bid = Named /\ IsTable(proxies[i].bid)
           /\ CurrentBids \in [Bidders -> Reports]
           /\ Named # {} /\ Cardinality(Named) \in Nat \ {0}
<1>1. Session.proxies = proxies
    BY DEF Session
<1>2. \A i \in Bidders : /\ proxies[i] \in ProxiesOf(truth[i])
                         /\ proxies[i].bid \in [Named -> Nat] /\ proxies[i].bid \in Reports
                         /\ DOMAIN proxies[i].bid = Named
    BY <1>1, SessionIs, ProxyIs
<1>3. \A i \in Bidders : IsTable(proxies[i].bid)
    BY <1>2 DEF IsTable, Named
<1>4. CurrentBids \in [Bidders -> Reports]
    BY <1>2 DEF CurrentBids
<1>5. Named # {}
    <2>1. Items \in Bundles /\ Items # {}
        BY ElicitationAssumption DEF Bundles
    <2> QED
        BY <2>1 DEF Named
<1>6. Cardinality(Named) \in Nat \ {0}
    BY <1>5, NamedFacts, FS_EmptySet
<1> QED
    BY <1>2, <1>3, <1>4, <1>5, <1>6

\* So is what the oracle looks at.
LEMMA ViewIs ==
    ASSUME Asked, NEW i \in Bidders
    PROVE  IsView(i, View(i))
<1> DEFINE bid == proxies[i].bid
           surplus == [b \in DOMAIN bid |-> Surplus(bid, b, prices)]
           ranked == Ranked(Cardinality(Named), bid, prices, DOMAIN bid)
           now == IF surplus[ranked[1]] > 0 THEN ranked[1] ELSE NoBundle
           view == View(i)
<1>1. view = [surplus |-> surplus, ranked |-> ranked, now |-> now,
              switched |-> lastPrimary[i] # NoBundle /\ lastPrimary[i] # now]
    BY DEF View
<1> HIDE DEF view
<1>2. /\ bid \in [Named -> Nat] /\ DOMAIN bid = Named /\ IsTable(bid) /\ Named # {}
      /\ Cardinality(Named) \in Nat \ {0} /\ prices \in [Items -> Nat]
    BY BidsAre DEF Asked
<1> HIDE DEF bid
<1>3. ranked \in Seq(Named) /\ ranked # <<>> /\ ranked[1] \in Named
    BY <1>2, RankedPicks
<1> HIDE DEF ranked
<1>4. surplus \in [Named -> Int]
    BY <1>2, RanksOrder
<1> HIDE DEF surplus
<1>5. now \in Named \cup {NoBundle}
    BY <1>3
<1> HIDE DEF now
<1>6. /\ view.surplus = surplus /\ view.ranked = ranked /\ view.now = now
      /\ view.switched = (lastPrimary[i] # NoBundle /\ lastPrimary[i] # now)
    BY <1>1
<1> QED
    BY <1>3, <1>4, <1>5, <1>6 DEF IsView, view

\* The events at the prices are such.
LEMMA PriceEventsAre ==
    ASSUME Asked, NEW i \in Bidders, NEW view, IsView(i, view)
    PROVE  PriceEvents(i, view) \in Seq(Spans)
<1> DEFINE best   == view.ranked[1]
           second == view.ranked[2]
           margin == view.surplus[best]
           pivotal(b) == On("allocation_pivotal") => GapNow(i, b) <= policy.tie
           alone    == view.now = NoBundle \/ On("allocation_pivotal")
           nearZero == margin \in 0..policy.margin /\ (On("gate") => best \cap Contested # {})
           changed  == view.switched /\ pivotal(lastPrimary[i])
           nearTie  == /\ Len(view.ranked) > 1 /\ margin - view.surplus[second] <= policy.tie
                       /\ pivotal(second)
           zero == IF nearZero THEN <<<<best>>>> ELSE <<>>
           switch == IF changed THEN <<<<lastPrimary[i]>>>> ELSE <<>>
           tie == IF nearTie THEN <<IF alone THEN <<second>> ELSE <<view.now, second>>>> ELSE <<>>
<1>1. PriceEvents(i, view) = zero \o switch \o tie
    BY DEF PriceEvents
<1>2. view.ranked \in Seq(Named) /\ view.ranked # <<>> /\ view.now \in Named \cup {NoBundle}
    BY DEF IsView
<1>3. best \in Named
    BY <1>2
<1>4. zero \in Seq(Spans)
    <2> HIDE DEF nearZero, best
    <2> QED
        BY <1>3, SpansAre
<1>5. switch \in Seq(Spans)
    <2>1. view.switched => lastPrimary[i] \in Named
        BY DEF IsView, Asked
    <2>2. changed => view.switched
        OBVIOUS
    <2> HIDE DEF changed
    <2> QED
        BY <2>1, <2>2, SpansAre
<1>6. tie \in Seq(Spans)
    <2>1. nearTie => second \in Named
        BY <1>2
    <2>2. ~alone => view.now \in Named
        BY <1>2
    <2> HIDE DEF nearTie, alone, second
    <2>3. nearTie => (IF alone THEN <<second>> ELSE <<view.now, second>>) \in Spans
        BY <2>1, <2>2, SpansAre
    <2>4. \A x \in Spans : <<x>> \in Seq(Spans)
        OBVIOUS
    <2> QED
        BY <2>3, <2>4, SpansAre
<1> HIDE DEF zero, switch, tie
<1> QED
    BY <1>1, <1>4, <1>5, <1>6, SpansAre

\* The demand switches are such.
LEMMA SwitchEventsAre ==
    ASSUME Asked, NEW i \in Bidders, NEW view, IsView(i, view)
    PROVE  SwitchEvents(i, view) \in Seq(Spans)
<1>1. view.now # NoBundle => <<<<view.now>>>> \in Seq(Spans)
    BY SpansAre DEF IsView
<1>2. view.switched => <<<<lastPrimary[i]>>>> \in Seq(Spans)
    BY SpansAre DEF IsView, Asked
<1> DEFINE first == IF view.now = NoBundle THEN <<>> ELSE <<<<view.now>>>>
<1>3. first \in Seq(Spans)
    BY <1>1, SpansAre
<1>4. SwitchEvents(i, view) = IF ~view.switched THEN <<>> ELSE first \o <<<<lastPrimary[i]>>>>
    BY DEF SwitchEvents
<1> HIDE DEF first
<1> QED
    BY <1>2, <1>3, <1>4, SpansAre

\* The alternative to contested goods is a bundle with a name, or none.
LEMMA ContestedAlternativeIs ==
    ASSUME Asked, NEW i \in Bidders, NEW view, IsView(i, view)
    PROVE  ContestedAlternative(i, view) \in Named \cup {{}}
<1> DEFINE options == {b \in DOMAIN view.surplus \ issued[i] :
                           view.surplus[b] > 0 /\ b # view.now /\ b \cap Contested # {}}
           key == [b \in options |-> <<-view.surplus[b], -Cardinality(b \cap Contested)>>]
<1>1. options \in SUBSET Named /\ \A b \in options : view.surplus[b] \in Int /\ b \in Named
    BY DEF IsView
<1>2. \A b \in options : key[b] \in [1..2 -> Int]
    <2> SUFFICES ASSUME NEW b \in options
                 PROVE  <<-view.surplus[b], -Cardinality(b \cap Contested)>> \in [1..2 -> Int]
        OBVIOUS
    <2> HIDE DEF options
    <2>1. -view.surplus[b] \in Int
        BY <1>1
    <2>2. Cardinality(b \cap Contested) \in Int
        BY <1>1, PartsAreSized
    <2>3. -Cardinality(b \cap Contested) \in Int
        BY <2>2
    <2> QED
        BY <2>1, <2>3, ShortKeys
<1>3. ContestedAlternative(i, view) = {} \/ ContestedAlternative(i, view) = LeastBy(options, key)
    BY DEF ContestedAlternative
<1> HIDE DEF options, key
<1>4. LeastBy(options, key) \in options \cup {{}}
    BY <1>1, <1>2, LeastByIs
<1> QED
    BY <1>1, <1>3, <1>4

\* The least of two numbers is not more than either.
LEMMA MinOfTwo ==
    ASSUME NEW a \in Nat, NEW b \in Nat
    PROVE  Min({a, b}) \in Nat /\ Min({a, b}) <= a /\ Min({a, b}) <= b
<1>1. {a, b} \in SUBSET Nat /\ {a, b} # {}
    OBVIOUS
<1>2. Min({a, b}) = CHOOSE k \in {a, b} : \A j \in {a, b} : k <= j
    BY DEF Min
<1>3. Min({a, b}) \in {a, b} /\ \A j \in {a, b} : Min({a, b}) <= j
    BY <1>1, <1>2, FirstPosition
<1> QED
    BY <1>3

\* So is the pivotal challenger.
LEMMA PivotalChallengerIs ==
    ASSUME Asked, NEW i \in Bidders, NEW view, IsView(i, view)
    PROVE  PivotalChallenger(i, view) \in Named \cup {{}}
<1> DEFINE n == Min({3, Len(view.ranked)})
           top == Range(SubSeq(view.ranked, 1, n))
           gap == [b \in {c \in top \ issued[i] : view.surplus[c] > 0} |->
                      <<Magnitude(GapNow(i, b))>>]
           near == {b \in DOMAIN gap : gap[b][1] <= policy.tie}
<1>1. view.ranked \in Seq(Named) /\ Len(view.ranked) \in Nat
    BY DEF IsView
<1>2. n \in Nat /\ n <= Len(view.ranked)
    BY <1>1, MinOfTwo
<1> HIDE DEF n
<1>3. top \in SUBSET Named
    <2>1. SubSeq(view.ranked, 1, n) \in Seq(Named)
        BY <1>1, <1>2
    <2> QED
        BY <2>1 DEF Range
<1> HIDE DEF top
<1>4. \A b \in DOMAIN gap : b \in Named /\ gap[b] = <<Magnitude(GapNow(i, b))>>
    BY <1>3
<1>5. \A b \in Named : GapNow(i, b) \in Int
    <2>1. CurrentBids \in [Bidders -> Reports] /\ DOMAIN CurrentBids[i] = Named
        BY BidsAre DEF Asked, CurrentBids
    <2>2. OptWelfare(CurrentBids) \in Int
        <3>1. Bidders \in SUBSET Bidders
            OBVIOUS
        <3> QED
            BY <2>1, <3>1, ReportsAreProfiles, OptimumIsGreatest
    <2> QED
        BY <2>1, <2>2, ForcedGapType DEF GapNow
<1>6. near \in SUBSET Named /\ \A b \in near : gap[b] \in [1..1 -> Int]
    <2> HIDE DEF gap
    <2>1. \A b \in DOMAIN gap : gap[b] \in [1..1 -> Int]
        BY <1>4, <1>5, MagnitudeType, ShortKeys
    <2> QED
        BY <1>4, <2>1
<1>7. PivotalChallenger(i, view) = {} \/ PivotalChallenger(i, view) = LeastBy(near, gap)
    BY DEF PivotalChallenger, n, top
<1> HIDE DEF near, gap
<1>8. LeastBy(near, gap) \in near \cup {{}}
    BY <1>6, LeastByIs
<1> QED
    BY <1>6, <1>7, <1>8

\* So is the fallback from scarcity.
LEMMA ScarcityFallbackIs ==
    ASSUME Asked, NEW i \in Bidders, NEW view
    PROVE  ScarcityFallback(i, view) \in Named \cup {{}}
<1> DEFINE b == BestScarcityAvoiding(proxies[i].bid, view.now, Contested, issued[i])
<1>1. proxies[i].bid \in Reports /\ DOMAIN proxies[i].bid = Named
    BY BidsAre DEF Asked
<1>2. b \in Named \cup {{}}
    BY <1>1, BestScarcityIs
<1>3. ScarcityFallback(i, view) = {} \/ ScarcityFallback(i, view) = b
    BY DEF ScarcityFallback
<1> HIDE DEF b
<1> QED
    BY <1>2, <1>3

\* The top of the ranking, and the events it raises.
LEMMA FrontierEventsAre ==
    ASSUME Asked, NEW i \in Bidders, NEW view, IsView(i, view)
    PROVE  /\ TopFrontier(view) \in Seq(Named)
           /\ FrontierEvents(i, view) \in Seq(Spans)
           /\ TopFrontier(view) = <<>> => FrontierEvents(i, view) = <<>>
<1> DEFINE ks == {k \in DOMAIN view.ranked : k <= TopK /\ view.surplus[view.ranked[k]] > 0}
           top == TopFrontier(view)
           ns == {k \in DOMAIN top : /\ top[k] \notin topSeen[i]
                                     /\ FrontierByPivotality => GapNow(i, top[k]) <= policy.tie}
           new == Picked(top, ns)
<1>1. view.ranked \in Seq(Named) /\ ks \in SUBSET DOMAIN view.ranked
    BY DEF IsView
<1>2. top = Picked(view.ranked, ks) \/ top = <<>>
    BY DEF TopFrontier
<1> HIDE DEF ks, ns, top
<1>3. top \in Seq(Named)
    <2>1. Picked(view.ranked, ks) \in Seq(Named)
        BY <1>1, PickedStays
    <2>2. <<>> \in Seq(Named)
        OBVIOUS
    <2> QED
        BY <1>2, <2>1, <2>2
<1>4. ns \in SUBSET DOMAIN top
    BY DEF ns
<1>5. FrontierEvents(i, view) = [k \in DOMAIN new |-> <<new[k]>>]
    BY DEF FrontierEvents, top, ns
<1>6. new \in Seq(Named) /\ (ns = {} => new = <<>>)
    BY <1>3, <1>4, PickedStays
<1> HIDE DEF new
<1>7. FrontierEvents(i, view) \in Seq(Spans)
    <2>1. Len(new) \in Nat /\ DOMAIN new = 1..Len(new) /\ \A k \in 1..Len(new) : new[k] \in Named
        BY <1>6
    <2>2. FrontierEvents(i, view) \in [1..Len(new) -> Spans]
        BY <1>5, <2>1, SpansAre
    <2> QED
        BY <2>1, <2>2
<1>8. ASSUME top = <<>>
      PROVE  FrontierEvents(i, view) = <<>>
    <2>1. ns = {}
        BY <1>4, <1>8
    <2> QED
        BY <1>5, <1>6, <2>1
<1> QED
    BY <1>3, <1>7, <1>8 DEF top

\* All events are such; under frontier_v1 there are none but those of the top.
LEMMA CandidatesAre ==
    ASSUME Asked, NEW i \in Bidders, NEW view, IsView(i, view)
    PROVE  /\ Candidates(i, view) \in Seq(Spans)
           /\ Raised(i, view) \in SUBSET Marks
           /\ policy.framework = "frontier_v1" /\ ~On("top_k") =>
                 Candidates(i, view) = <<>> /\ Raised(i, view) = {}
<1> DEFINE single(b) == IF b = {} THEN <<>> ELSE <<<<b>>>>
<1>1. \A b \in Named \cup {{}} : single(b) \in Seq(Spans)
    BY SpansAre
<1>2. /\ single(PivotalChallenger(i, view)) \in Seq(Spans)
      /\ single(ScarcityFallback(i, view)) \in Seq(Spans)
      /\ single(ContestedAlternative(i, view)) \in Seq(Spans)
    <2> HIDE DEF single
    <2> QED
        BY <1>1, PivotalChallengerIs, ScarcityFallbackIs, ContestedAlternativeIs
<1>3. policy.framework \in {"legacy", "targeted_v1", "frontier_v1"}
    BY ElicitationAssumption DEF Asked, Settings, ProxyClockConfig
<1>4. /\ PriceEvents(i, view) \in Seq(Spans) /\ SwitchEvents(i, view) \in Seq(Spans)
      /\ FrontierEvents(i, view) \in Seq(Spans)
    BY PriceEventsAre, SwitchEventsAre, FrontierEventsAre
<1>8. Raised(i, view) \in SUBSET Marks
    <2> DEFINE scarce == policy.framework = "legacy" /\ ScarcityFallback(i, view) # {}
               fought == policy.framework = "targeted_v1" /\ ContestedAlternative(i, view) # {}
    <2>1. Raised(i, view) =
              (IF scarce THEN {"scarcity"} ELSE {}) \cup (IF fought THEN {"contested"} ELSE {})
        BY DEF Raised
    <2> HIDE DEF scarce, fought
    <2> QED
        BY <2>1 DEF Marks
<1>5. CASE policy.framework = "legacy"
    <2>1. Candidates(i, view) =
              PriceEvents(i, view) \o single(PivotalChallenger(i, view))
              \o single(ScarcityFallback(i, view)) \o FrontierEvents(i, view)
        BY <1>5 DEF Candidates
    <2> HIDE DEF single
    <2>2. Candidates(i, view) \in Seq(Spans)
        BY <1>2, <1>4, <2>1, SpansAre
    <2> QED
        BY <1>5, <1>8, <2>2
<1>6. CASE policy.framework = "targeted_v1"
    <2>1. Candidates(i, view) =
              SwitchEvents(i, view) \o single(ContestedAlternative(i, view))
              \o FrontierEvents(i, view)
        BY <1>6 DEF Candidates
    <2> HIDE DEF single
    <2>2. Candidates(i, view) \in Seq(Spans)
        BY <1>2, <1>4, <2>1, SpansAre
    <2> QED
        BY <1>6, <1>8, <2>2
<1>7. CASE policy.framework = "frontier_v1"
    <2>1. Candidates(i, view) = FrontierEvents(i, view) /\ Raised(i, view) = {}
        BY <1>7 DEF Candidates, Raised
    <2>2. ~On("top_k") => TopFrontier(view) = <<>>
        BY <1>7 DEF TopFrontier, FrontierByPivotality
    <2> QED
        BY <1>4, <1>8, <2>1, <2>2, FrontierEventsAre
<1> QED
    BY <1>3, <1>5, <1>6, <1>7

\* What events of bidder i make of a session: they change no other proxy and no record.
RefinedOf(s, t, i) ==
    /\ t \in Sessions /\ After(s, t)
    /\ t.revealed = s.revealed /\ t.supplementary = s.supplementary
    /\ \A j \in Bidders \ {i} : t.proxies[j] = s.proxies[j]

\* Events follow events.
LEMMA RefinedOrders ==
    ASSUME NEW s \in Sessions, NEW t \in Sessions, NEW u \in Sessions, NEW i
    PROVE  RefinedOf(s, s, i) /\ (RefinedOf(s, t, i) /\ RefinedOf(t, u, i) => RefinedOf(s, u, i))
<1>1. RefinedOf(s, s, i)
    BY AfterOrders DEF RefinedOf
<1>2. ASSUME RefinedOf(s, t, i), RefinedOf(t, u, i)
      PROVE  RefinedOf(s, u, i)
    <2>1. After(s, u)
        BY <1>2, AfterOrders DEF RefinedOf
    <2>2. \A j \in Bidders \ {i} : u.proxies[j] = s.proxies[j]
        BY <1>2 DEF RefinedOf
    <2> QED
        BY <1>2, <2>1, <2>2 DEF RefinedOf
<1> QED
    BY <1>1, <1>2

\* A session may be marked, and told which bundle follows.
LEMMA MarkedIs ==
    ASSUME NEW s \in Sessions, NEW i \in Bidders, NEW m \in SUBSET Marks, NEW b \in Bundles
    PROVE  /\ RefinedOf(s, [s EXCEPT !.marks[i] = @ \cup m, !.followup = b], i)
           /\ RefinedOf(s, [s EXCEPT !.marks[i] = @ \cup m], i)
<1> DEFINE ms == [s.marks EXCEPT ![i] = @ \cup m]
           rec(c) == [proxies |-> s.proxies, issued |-> s.issued, revealed |-> s.revealed,
                      supplementary |-> s.supplementary, marks |-> ms, count |-> s.count,
                      followup |-> c]
<1>1. /\ s = [proxies |-> s.proxies, issued |-> s.issued, revealed |-> s.revealed,
              supplementary |-> s.supplementary, marks |-> s.marks, count |-> s.count,
              followup |-> s.followup]
      /\ s \in SessionRecords
      /\ s.marks \in [Bidders -> SUBSET Marks] /\ s.followup \in Bundles
    BY SessionIs DEF Sessions
<1>2. ms \in [Bidders -> SUBSET Marks]
    BY <1>1
<1>3. /\ [s EXCEPT !.marks[i] = @ \cup m, !.followup = b] = rec(b)
      /\ [s EXCEPT !.marks[i] = @ \cup m] = rec(s.followup)
    <2>1. /\ [s EXCEPT !.marks[i] = @ \cup m, !.followup = b] = [s EXCEPT !.marks = ms, !.followup = b]
          /\ [s EXCEPT !.marks[i] = @ \cup m] = [s EXCEPT !.marks = ms]
        BY <1>1
    <2> HIDE DEF ms
    <2>2. [s EXCEPT !.marks = ms] = rec(s.followup)
        BY <1>1
    <2>3. [s EXCEPT !.marks = ms, !.followup = b] = rec(b)
        <3>1. [s EXCEPT !.marks = ms, !.followup = b] = [rec(s.followup) EXCEPT !.followup = b]
            <4> HIDE DEF rec
            <4> QED
                BY <2>2
        <3> QED
            BY <3>1
    <2> QED
        BY <2>1, <2>3, <2>2
<1> HIDE DEF ms
<1>4. ASSUME NEW c \in Bundles
      PROVE  RefinedOf(s, rec(c), i)
    <2> DEFINE t == rec(c)
    <2>1. /\ t.proxies = s.proxies /\ t.issued = s.issued /\ t.revealed = s.revealed
          /\ t.supplementary = s.supplementary /\ t.count = s.count
        OBVIOUS
    <2>2. t \in SessionRecords
        BY <1>1, <1>2 DEF SessionRecords
    <2> HIDE DEF t
    <2>3. t \in Sessions
        BY <2>1, <2>2, SessionIs DEF Sessions
    <2>4. After(s, t)
        <3>1. After(s, s)
            BY AfterOrders
        <3> QED
            BY <2>1, <3>1 DEF After
    <2>5. RefinedOf(s, t, i)
        BY <2>1, <2>3, <2>4 DEF RefinedOf
    <2> QED
        BY <2>5 DEF t
<1> HIDE DEF rec
<1> QED
    BY <1>1, <1>3, <1>4

\* An event changes the bidder's proxy only, and keeps the books in order.
LEMMA RefineIs ==
    ASSUME Settings, NEW s \in Sessions, NEW i \in Bidders, NEW span \in Spans
    PROVE  RefinedOf(s, Refine(s, i, span), i)
<1> DEFINE t     == Issue(s, i, span)
           ks    == {k \in DOMAIN span : ~AlreadyAsked(s.proxies[i], span[k])}
           asked == Picked(span, ks)
           large == \E b \in Range(asked) :
                        IsLargeCorrection(s.proxies[i].bid[b], truth[i][b], 25)
           follows == On("followup") /\ "followup" \notin s.marks[i] /\ large
           next  == BestNeighbour(t.proxies[i].bid, Last(asked), t.issued[i])
           near  == IF follows THEN next ELSE {}
           u == [t EXCEPT !.marks[i] = @ \cup {"followup"}, !.followup = near]
<1>1. span \in Seq(Named) /\ Len(span) \in {1, 2} /\ ks \in SUBSET DOMAIN span
    BY DEF Spans
<1>2. Refine(s, i, span) =
          IF ~Open(s, i, Last(span)) THEN s ELSE IF near = {} THEN t ELSE u
    BY DEF Refine
<1> HIDE DEF ks
<1>3. CASE ~Open(s, i, Last(span))
    BY <1>2, <1>3, RefinedOrders
<1>4. CASE Open(s, i, Last(span))
    <2>1. IssuedOf(s, t, i, span)
        BY <1>1, <1>4, IssueIs
    <2>2. RefinedOf(s, t, i) /\ t \in Sessions
        BY <2>1 DEF IssuedOf, RefinedOf
    <2> HIDE DEF t
    <2>3. CASE near = {}
        BY <1>2, <1>4, <2>2, <2>3
    <2>4. CASE near # {}
        <3>1. follows /\ near = next
            BY <2>4
        <3>2. asked \in Seq(Named)
            BY <1>1, PickedStays
        <3>3. asked # <<>>
            BY <3>1 DEF Range
        <3> HIDE DEF asked
        <3>4. Last(asked) \in Named
            BY <3>2, <3>3 DEF Last
        <3>5. t.proxies[i].bid \in Reports /\ DOMAIN t.proxies[i].bid = Named
            BY <2>2, SessionIs, ProxyIs
        <3>6. next \in Named \cup {{}}
            BY <3>4, <3>5, BestNeighbourIs
        <3>7. near \in Bundles
            BY <2>4, <3>1, <3>6, NamedFacts
        <3>8. {"followup"} \in SUBSET Marks
            BY DEF Marks
        <3> HIDE DEF near
        <3>9. RefinedOf(t, u, i)
            BY <2>2, <3>7, <3>8, MarkedIs
        <3> HIDE DEF u
        <3>10. u \in Sessions
            BY <3>9 DEF RefinedOf
        <3>11. RefinedOf(s, u, i)
            BY <2>2, <3>9, <3>10, RefinedOrders
        <3> QED
            BY <1>2, <1>4, <2>4, <3>11 DEF u
    <2> QED
        BY <2>3, <2>4
<1> QED
    BY <1>3, <1>4

\* The sessions that events of bidder i make of a session.
RefinedFrom(s, i) == {t \in Sessions : RefinedOf(s, t, i)}

\* The events of bidder i.
Events(s, i, spans) == FoldLeft(LAMBDA t, span : Refine(t, i, span), s, spans)

\* They are refined one after the other.
LEMMA EventSteps ==
    ASSUME Settings, NEW i \in Bidders, NEW s \in Sessions, NEW spans \in Seq(Spans)
    PROVE  \E g : /\ g[0] = s /\ Events(s, i, spans) = g[Len(spans)]
                  /\ \A k \in 0..Len(spans) : g[k] \in RefinedFrom(s, i)
                  /\ \A k \in 1..Len(spans) : g[k] = Refine(g[k - 1], i, spans[k])
<1> DEFINE m == Len(spans)
           U == RefinedFrom(s, i)
           op(q, b) == Refine(q, i, b)
           next == [qk \in U \X (1..m) |-> op(qk[1], spans[qk[2]])]
           P(f) == f = [S \in SUBSET (1..m) |->
                           IF S = {} THEN s ELSE op(f[S \ {Max(S)}], spans[Max(S)])]
           c == CHOOSE f : P(f)
<1>1. m \in Nat /\ DOMAIN spans = 1..m /\ \A k \in 1..m : spans[k] \in Spans
    OBVIOUS
<1>2. Events(s, i, spans) = c[1..m]
    BY <1>1 DEF Events, FoldLeft, MapThenFoldSet
<1>3. \A q \in U : \A b \in Spans : op(q, b) \in U
    <2> SUFFICES ASSUME NEW q \in U, NEW b \in Spans
                 PROVE  op(q, b) \in U
        OBVIOUS
    <2>1. q \in Sessions /\ RefinedOf(s, q, i)
        BY DEF RefinedFrom
    <2> DEFINE t == Refine(q, i, b)
    <2>2. RefinedOf(q, t, i) /\ t \in Sessions
        BY <2>1, RefineIs DEF RefinedOf
    <2> HIDE DEF t
    <2>3. RefinedOf(s, t, i)
        BY <2>1, <2>2, RefinedOrders
    <2>4. t \in RefinedFrom(s, i)
        BY <2>2, <2>3 DEF RefinedFrom
    <2> QED
        BY <2>4 DEF t
<1> HIDE DEF U, op, m
<1>4. next \in [U \X (1..m) -> U] /\ s \in U
    BY <1>1, <1>3, RefinedOrders DEF U, RefinedFrom
<1>5. \A q \in U : \A k \in 1..m : next[<<q, k>>] = op(q, spans[k])
    OBVIOUS
<1> HIDE DEF next
<1>6. \E f : P(f)
    <2>1. PICK f \in [SUBSET (1..m) -> U] : Folds(f, s, next, m)
        BY <1>1, <1>4, FoldExists
    <2>2. \A S \in SUBSET (1..m) :
              f[S] = IF S = {} THEN s ELSE next[<<f[S \ {Max(S)}], Max(S)>>]
        BY <2>1 DEF Folds
    <2>3. \A S \in SUBSET (1..m) :
              f[S] = IF S = {} THEN s ELSE op(f[S \ {Max(S)}], spans[Max(S)])
        BY <1>1, <1>5, <2>1, <2>2, LargestOfPart
    <2>4. P(f)
        BY <2>1, <2>3
    <2> HIDE DEF P
    <2> QED
        BY <2>4
<1>7. P(c)
    <2> HIDE DEF P
    <2> QED
        BY <1>6
<1> HIDE DEF c
<1> DEFINE g == [k \in 0..m |-> c[1..k]]
<1>8. g[0] = s
    <2>1. 1..0 = {} /\ {} \in SUBSET (1..m) /\ 0 \in 0..m
        BY <1>1
    <2>2. c[{}] = s
        BY <1>7, <2>1
    <2> QED
        BY <2>1, <2>2
<1>9. \A k \in 1..m : g[k] = op(g[k - 1], spans[k])
    <2> SUFFICES ASSUME NEW k \in 1..m
                 PROVE  g[k] = op(g[k - 1], spans[k])
        OBVIOUS
    <2>1. k \in Nat \ {0} /\ k \in 0..m /\ k - 1 \in 0..m /\ 1..k \in SUBSET (1..m)
        BY <1>1
    <2>2. 1..k # {} /\ Max(1..k) = k /\ (1..k) \ {Max(1..k)} = 1..k - 1
        BY <2>1, Beginning
    <2>3. c[1..k] = op(c[1..k - 1], spans[k])
        BY <1>7, <2>1, <2>2
    <2> QED
        BY <2>1, <2>3
<1> HIDE DEF P
<1>10. g[m] = c[1..m]
    BY <1>1
<1> HIDE DEF g
<1>11. \A k \in 0..m : g[k] \in U
    <2>1. \A k \in 1..m : g[k - 1] \in U => g[k] \in U
        BY <1>1, <1>3, <1>9
    <2>2. g[0] \in U
        BY <1>4, <1>8
    <2> QED
        BY <1>1, <2>1, <2>2, StepByStep
<1> QED
    BY <1>2, <1>8, <1>9, <1>10, <1>11 DEF U, op, m

\* The events of a round change the bidder's proxy only, and keep the books in order.
LEMMA QuestionedIs ==
    ASSUME Asked, NEW i \in Bidders, NEW view, IsView(i, view)
    PROVE  RefinedOf(Session, Questioned(i, view), i)
<1> DEFINE s == [Session EXCEPT !.marks[i] = @ \cup Raised(i, view)]
           spans == Candidates(i, view)
           t == Events(s, i, spans)
<1>1. Questioned(i, view) = Followed(t, i)
    BY DEF Questioned, Events, FoldLeft, MapThenFoldSet
<1>2. Settings /\ Session \in Sessions
    BY DEF Asked
<1>3. RefinedOf(Session, s, i) /\ s \in Sessions
    <2>1. Raised(i, view) \in SUBSET Marks /\ {} \in Bundles
        BY CandidatesAre DEF Bundles
    <2> QED
        BY <1>2, <2>1, MarkedIs DEF RefinedOf
<1> HIDE DEF s
<1>4. spans \in Seq(Spans)
    BY CandidatesAre
<1> HIDE DEF spans
<1>5. PICK g : /\ t = g[Len(spans)]
               /\ \A k \in 0..Len(spans) : g[k] \in RefinedFrom(s, i)
    BY <1>2, <1>3, <1>4, EventSteps
<1>6. t \in Sessions /\ RefinedOf(s, t, i)
    <2>1. Len(spans) \in 0..Len(spans)
        BY <1>4
    <2> QED
        BY <1>5, <2>1 DEF RefinedFrom
<1> HIDE DEF t
<1>7. RefinedOf(Session, t, i)
    BY <1>2, <1>3, <1>6, RefinedOrders
<1>8. RefinedOf(t, Followed(t, i), i)
    <2>1. CASE t.followup = {}
        BY <1>6, <2>1, RefinedOrders DEF Followed
    <2>2. CASE t.followup # {}
        <3>1. <<t.followup>> \in Spans
            BY <1>6, <2>2, SessionIs, SpansAre DEF Named
        <3> QED
            BY <1>2, <1>6, <2>2, <3>1, RefineIs DEF Followed
    <2> QED
        BY <2>1, <2>2
<1>9. Followed(t, i) \in Sessions
    BY <1>8 DEF RefinedOf
<1> QED
    BY <1>1, <1>2, <1>6, <1>7, <1>8, <1>9, RefinedOrders

\* Under frontier_v1 without the top of the ranking, nothing is asked.
LEMMA NothingAsked ==
    ASSUME Asked, NEW i \in Bidders, NEW view, IsView(i, view),
           policy.framework = "frontier_v1", ~On("top_k")
    PROVE  Questioned(i, view).proxies = proxies
<1> DEFINE s == [Session EXCEPT !.marks[i] = @ \cup Raised(i, view)]
           spans == Candidates(i, view)
           t == Events(s, i, spans)
<1>1. Questioned(i, view) = Followed(t, i)
    BY DEF Questioned, Events, FoldLeft, MapThenFoldSet
<1>2. Settings /\ Session \in Sessions
    BY DEF Asked
<1>3. spans = <<>> /\ Raised(i, view) = {}
    BY CandidatesAre
<1>4. s.proxies = proxies /\ s.followup = {}
    BY DEF Session
<1>5. s \in Sessions
    <2>1. Raised(i, view) \in SUBSET Marks /\ {} \in Bundles
        BY <1>3 DEF Bundles
    <2> QED
        BY <1>2, <2>1, MarkedIs DEF RefinedOf
<1> HIDE DEF s, spans
<1>6. spans \in Seq(Spans)
    BY <1>3
<1>7. t = s
    <2>1. PICK g : /\ g[0] = s /\ t = g[Len(spans)]
                   /\ \A k \in 0..Len(spans) : g[k] \in RefinedFrom(s, i)
        BY <1>2, <1>5, <1>6, EventSteps
    <2>2. Len(spans) = 0
        BY <1>3
    <2> HIDE DEF t
    <2> QED
        BY <2>1, <2>2
<1> QED
    BY <1>1, <1>4, <1>7 DEF Followed

-----------------------------------------------------------------------------
(* The terminal audits.                                                    *)

\* The questions a ranking may choose.
KeyPairs(key) == {q \in Pairs : q[2] \in DOMAIN key[q[1]]}

\* Keys of n numbers for some bundles of every bidder.
Keys(key, n) ==
    \A i \in Bidders : /\ DOMAIN key[i] \in SUBSET Named
                       /\ \A b \in DOMAIN key[i] : key[i][b] \in [1..n -> Int]

\* The nearest question is one that was ranked, or there is none.
LEMMA NearestIs ==
    ASSUME NEW n \in Nat, NEW key, Keys(key, n)
    PROVE  Nearest(key) \in Seq(KeyPairs(key))
<1> DEFINE closest == [i \in Bidders |-> LeastBy(DOMAIN key[i], key[i])]
           who == {k \in DOMAIN Order : DOMAIN key[Order[k]] # {}}
           at(k) == key[Order[k]][closest[Order[k]]]
           least == {k \in who : \A l \in who : ~KeyBefore(at(l), at(k))}
           first == Order[Min(least)]
           R == {lk \in who \X who : \/ KeyBefore(at(lk[1]), at(lk[2]))
                                     \/ at(lk[1]) = at(lk[2]) /\ lk[1] < lk[2]}
<1>1. Nearest(key) = IF who = {} THEN <<>> ELSE <<<<first, closest[first]>>>>
    BY DEF Nearest
<1>2. CASE who = {}
    BY <1>1, <1>2
<1>3. CASE who # {}
    <2>1. who \in SUBSET Nat /\ IsFiniteSet(who) /\ \A k \in who : Order[k] \in Bidders
        <3>1. who \subseteq DOMAIN Order
            OBVIOUS
        <3> HIDE DEF who
        <3> QED
            BY <3>1, ListedBidders, FS_Subset
    <2>2. \A i \in Bidders : DOMAIN key[i] # {} => closest[i] \in DOMAIN key[i]
        <3> SUFFICES ASSUME NEW i \in Bidders, DOMAIN key[i] # {}
                     PROVE  LeastBy(DOMAIN key[i], key[i]) \in DOMAIN key[i]
            OBVIOUS
        <3>1. DOMAIN key[i] \in SUBSET Named /\ \A b \in DOMAIN key[i] : key[i][b] \in [1..n -> Int]
            BY DEF Keys
        <3> QED
            BY <3>1, LeastByIs
    <2>3. \A k \in who : closest[Order[k]] \in DOMAIN key[Order[k]]
        <3> HIDE DEF closest
        <3> QED
            BY <2>1, <2>2
    <2> HIDE DEF closest
    <2>4. \A k \in who : at(k) \in [1..n -> Int]
        BY <2>1, <2>3 DEF Keys
    <2> HIDE DEF at
    <2>5. \A j, k \in who : <<j, k>> \in R <=> (KeyBefore(at(j), at(k)) \/ (at(j) = at(k) /\ j < k))
        OBVIOUS
    <2>6. \A j, k, l \in who :
              /\ ~KeyBefore(at(j), at(j))
              /\ KeyBefore(at(j), at(k)) /\ KeyBefore(at(k), at(l)) => KeyBefore(at(j), at(l))
              /\ at(j) # at(k) => KeyBefore(at(j), at(k)) \/ KeyBefore(at(k), at(j))
        BY <2>4, KeysOrder
    <2>7. Orders(R, who)
        <3>1. \A j \in who : <<j, j>> \notin R
            <4> HIDE DEF R, who
            <4> QED
                BY <2>1, <2>5, <2>6
        <3>2. \A j, k, l \in who : <<j, k>> \in R /\ <<k, l>> \in R => <<j, l>> \in R
            <4> HIDE DEF R, who
            <4> SUFFICES ASSUME NEW j \in who, NEW k \in who, NEW l \in who,
                                <<j, k>> \in R, <<k, l>> \in R
                         PROVE  <<j, l>> \in R
                OBVIOUS
            <4>1. j \in Nat /\ k \in Nat /\ l \in Nat
                BY <2>1
            <4>2. KeyBefore(at(j), at(k)) \/ (at(j) = at(k) /\ j < k)
                BY <2>5
            <4>3. KeyBefore(at(k), at(l)) \/ (at(k) = at(l) /\ k < l)
                BY <2>5
            <4>4. KeyBefore(at(j), at(l)) \/ (at(j) = at(l) /\ j < l)
                BY <2>6, <4>1, <4>2, <4>3
            <4> QED
                BY <2>5, <4>4
        <3>3. \A j, k \in who : j # k => <<j, k>> \in R \/ <<k, j>> \in R
            <4> HIDE DEF R, who
            <4> SUFFICES ASSUME NEW j \in who, NEW k \in who, j # k
                         PROVE  <<j, k>> \in R \/ <<k, j>> \in R
                OBVIOUS
            <4>1. j < k \/ k < j
                BY <2>1
            <4> QED
                BY <2>5, <2>6, <4>1
        <3> HIDE DEF R, who
        <3> QED
            BY <3>1, <3>2, <3>3 DEF Orders
    <2> HIDE DEF R
    <2>8. PICK k \in who : \A c \in who \ {k} : <<k, c>> \in R /\ <<c, k>> \notin R
        <3> HIDE DEF who
        <3> QED
            BY <1>3, <2>1, <2>7, FirstOfOrder
    <2>9. k \in least
        <3>1. \A l \in who : ~KeyBefore(at(l), at(k))
            <4> HIDE DEF who
            <4> SUFFICES ASSUME NEW l \in who
                         PROVE  ~KeyBefore(at(l), at(k))
                OBVIOUS
            <4>1. CASE l = k
                BY <2>6, <4>1
            <4>2. CASE l # k
                BY <2>5, <2>8, <4>2
            <4> QED
                BY <4>1, <4>2
        <3> QED
            BY <3>1
    <2>10. least \subseteq who
        OBVIOUS
    <2> HIDE DEF least
    <2>11. Min(least) \in least
        <3>1. least \in SUBSET Nat /\ least # {}
            BY <2>1, <2>9, <2>10
        <3>2. Min(least) = CHOOSE x \in least : \A y \in least : x <= y
            BY DEF Min
        <3> QED
            BY <3>1, <3>2, FirstPosition
    <2>12. first \in Bidders /\ closest[first] \in DOMAIN key[first]
        BY <2>1, <2>3, <2>10, <2>11
    <2> HIDE DEF first
    <2>13. <<first, closest[first]>> \in KeyPairs(key)
        BY <2>12 DEF Keys, KeyPairs, Pairs
    <2> QED
        BY <1>1, <1>3, <2>13
<1> QED
    BY <1>2, <1>3

\* What is nearly tied is ranked as before.
LEMMA NearlyTiedIs ==
    ASSUME NEW n \in Nat, NEW key, Keys(key, n)
    PROVE  /\ Keys(NearlyTied(key), n)
           /\ \A i \in Bidders : DOMAIN NearlyTied(key)[i] \subseteq DOMAIN key[i]
<1> DEFINE near(i) == {b \in DOMAIN key[i] : key[i][b][1] <= policy.tie}
<1>1. \A i \in Bidders : NearlyTied(key)[i] = [b \in near(i) |-> key[i][b]]
    BY DEF NearlyTied, Restrict
<1>2. \A i \in Bidders : near(i) \subseteq DOMAIN key[i]
    OBVIOUS
<1> HIDE DEF near
<1> QED
    BY <1>1, <1>2 DEF Keys

\* The bids the terminal audits look at, and what they award.
Seen(s) == Reported(s, s.supplementary)

\* The bids of a session, and what is awarded when they are priced.
LEMMA SeenIs ==
    ASSUME Settings, NEW s \in Sessions
    PROVE  /\ Seen(s) \in [Bidders -> Reports]
           /\ Solve(Seen(s)) \in [Bidders -> Bundles]
           /\ Welfare(Seen(s), Solve(Seen(s))) \in Int
           /\ policy.support = "demand_revealed" => Seen(s) = s.supplementary
           /\ Awards(Solve(Seen(s))) \in Seq(AtomPairs(Seen(s)))
           /\ Range(Awards(Solve(Seen(s)))) =
                  {<<i, Solve(Seen(s))[i]>> : i \in {j \in Bidders : Solve(Seen(s))[j] # {}}}
           /\ \A whole \in BOOLEAN :
                 Frontier(Seen(s), Solve(Seen(s)), whole) \in Seq(AtomPairs(Seen(s)))
<1> DEFINE bids == Seen(s)
<1>1. s.supplementary \in [Bidders -> Reports] /\ Bidders \in SUBSET Bidders
    BY SessionIs
<1>2. /\ bids \in [Bidders -> Reports]
      /\ policy.support = "demand_revealed" => bids = s.supplementary
    BY <1>1, ReportedIs DEF Seen
<1> HIDE DEF bids
<1>3. Solve(bids) \in [Bidders -> Bundles] /\ Welfare(bids, Solve(bids)) \in Int
    BY <1>1, <1>2, SolveIs
<1>4. Awards(Solve(bids)) \in Seq(AtomPairs(bids))
    BY <1>1, <1>2, SolvedAwards
<1>5. Range(Awards(Solve(bids))) = {<<i, Solve(bids)[i]>> : i \in {j \in Bidders : Solve(bids)[j] # {}}}
    BY <1>1, <1>3, AwardsAre
<1>6. \A whole \in BOOLEAN : Frontier(bids, Solve(bids), whole) \in Seq(AtomPairs(bids))
    BY <1>2, <1>3, FrontierIs
<1> QED
    BY <1>2, <1>3, <1>4, <1>5, <1>6 DEF bids

\* The terminal challenger is a question, or there is none.
LEMMA TerminalChallengerIs ==
    ASSUME Settings, NEW s \in Sessions, NEW now, NEW welfare \in Int
    PROVE  TerminalChallenger(s, now, welfare) \in Seq(Pairs)
<1> DEFINE bids    == [i \in Bidders |-> s.proxies[i].bid]
           open(i) == Positive(bids[i], s.issued[i] \cup {now[i]})
           rank(i, b)  == <<-bids[i][b], Cardinality(b)>>
           ahead(i, b) == {c \in open(i) :
                              \/ KeyBefore(rank(i, c), rank(i, b))
                              \/ rank(i, c) = rank(i, b) /\ c # b /\ LexLess(c, b)}
           few(i) == {c \in open(i) : Cardinality(ahead(i, c)) < 3}
           key == [i \in Bidders |->
                      [b \in few(i) |-> <<Magnitude(ForcedGap(bids, i, b, welfare))>>]]
<1>1. TerminalChallenger(s, now, welfare) = Nearest(NearlyTied(key))
    BY DEF TerminalChallenger
<1>2. \A i \in Bidders : few(i) \subseteq open(i)
    OBVIOUS
<1> HIDE DEF few
<1>3. bids \in [Bidders -> Reports] /\ \A i \in Bidders : bids[i] \in Reports
    BY SessionIs, ProxyIs
<1> HIDE DEF bids
<1>4. \A i \in Bidders : open(i) \in SUBSET Named /\ open(i) \subseteq DOMAIN bids[i]
    BY <1>3, PositiveIs
<1> HIDE DEF open
<1>5. \A i \in Bidders : key[i] = [b \in few(i) |-> <<Magnitude(ForcedGap(bids, i, b, welfare))>>]
    OBVIOUS
<1> HIDE DEF key
<1>6. Keys(key, 1)
    <2> SUFFICES ASSUME NEW i \in Bidders
                 PROVE  /\ DOMAIN key[i] \in SUBSET Named
                        /\ \A b \in DOMAIN key[i] : key[i][b] \in [1..1 -> Int]
        BY DEF Keys
    <2>1. DOMAIN key[i] = few(i) /\ few(i) \subseteq Named /\ few(i) \subseteq DOMAIN bids[i]
        BY <1>2, <1>4, <1>5
    <2>2. ASSUME NEW b \in few(i)
          PROVE  key[i][b] \in [1..1 -> Int]
        <3>1. ForcedGap(bids, i, b, welfare) \in Int
            BY <1>3, <2>1, ForcedGapType
        <3>2. Magnitude(ForcedGap(bids, i, b, welfare)) \in Int
            BY <3>1, MagnitudeType
        <3>3. key[i][b] = <<Magnitude(ForcedGap(bids, i, b, welfare))>>
            BY <1>5
        <3> QED
            BY <3>2, <3>3, ShortKeys
    <2> QED
        BY <2>1, <2>2
<1>7. 1 \in Nat
    OBVIOUS
<1>8. Keys(NearlyTied(key), 1)
    BY <1>6, <1>7, NearlyTiedIs
<1>9. Nearest(NearlyTied(key)) \in Seq(KeyPairs(NearlyTied(key)))
    BY <1>7, <1>8, NearestIs
<1>10. KeyPairs(NearlyTied(key)) \subseteq Pairs
    BY DEF KeyPairs
<1> QED
    BY <1>1, <1>9, <1>10

\* The challengers of the frontier are questions about atoms of the bids.
LEMMA FrontierChallengersAre ==
    ASSUME Settings, NEW s \in Sessions, prices \in [Items -> Nat]
    PROVE  FrontierChallengers(s) \in Seq(AtomPairs(Seen(s)))
<1> DEFINE bids == Reported(s, s.supplementary)
           now  == Solve(bids)
           welfare == Welfare(bids, now)
           rivals(w, i) == {b \in DOMAIN s.revealed[i] \cap DOMAIN bids[i] :
                               i # w /\ b # now[i] /\ b \cap now[w] # {}}
           key(w) == [i \in Bidders |-> [b \in rivals(w, i) |->
               <<ForcedGap(bids, i, b, Welfare(bids, now)), -Surplus(s.revealed[i], b, prices)>>]]
           strongest(w) == Nearest(NearlyTied(key(w)))
           lists == [k \in DOMAIN Order |-> strongest(Order[k])]
<1>1. FrontierChallengers(s) = IF On("frontier_challenger") THEN FlattenSeq(lists) ELSE <<>>
    BY DEF FrontierChallengers
<1>2. /\ bids = Seen(s) /\ bids \in [Bidders -> Reports] /\ welfare \in Int
      /\ s.revealed \in [Bidders -> Reports]
    BY SeenIs, SessionIs DEF Seen
<1>3. \A w \in Bidders : \A i \in Bidders :
          rivals(w, i) \subseteq DOMAIN s.revealed[i] /\ rivals(w, i) \subseteq DOMAIN bids[i]
    OBVIOUS
<1> HIDE DEF rivals, bids, now
<1>4. ASSUME NEW w \in Bidders
      PROVE  strongest(w) \in Seq(AtomPairs(bids))
    <2>1. ASSUME NEW i \in Bidders
          PROVE  /\ DOMAIN key(w)[i] = rivals(w, i)
                 /\ DOMAIN key(w)[i] \in SUBSET Named
                 /\ \A b \in DOMAIN key(w)[i] : key(w)[i][b] \in [1..2 -> Int]
        <3>1. /\ DOMAIN s.revealed[i] \in SUBSET Named /\ s.revealed[i] \in [DOMAIN s.revealed[i] -> Nat]
            BY <1>2, ReportIs
        <3>2. DOMAIN key(w)[i] = rivals(w, i) /\ rivals(w, i) \in SUBSET Named
            BY <1>3, <3>1
        <3>3. ASSUME NEW b \in rivals(w, i)
              PROVE  key(w)[i][b] \in [1..2 -> Int]
            <4>1. b \in DOMAIN s.revealed[i] /\ b \in DOMAIN bids[i]
                BY <1>3
            <4>2. ForcedGap(bids, i, b, welfare) \in Int
                BY <1>2, <4>1, ForcedGapType
            <4>3. Surplus(s.revealed[i], b, prices) \in Int
                <5>1. IsTable(s.revealed[i])
                    BY <3>1 DEF IsTable, Named
                <5> QED
                    BY <4>1, <5>1, RanksOrder
            <4>4. key(w)[i][b] = <<ForcedGap(bids, i, b, welfare), -Surplus(s.revealed[i], b, prices)>>
                OBVIOUS
            <4>5. -Surplus(s.revealed[i], b, prices) \in Int
                BY <4>3
            <4> QED
                BY <4>2, <4>4, <4>5, ShortKeys
        <3> HIDE DEF key
        <3> QED
            BY <3>2, <3>3
    <2> HIDE DEF key
    <2>2. Keys(key(w), 2) /\ 2 \in Nat
        BY <2>1 DEF Keys
    <2>3. Keys(NearlyTied(key(w)), 2) /\ \A i \in Bidders : DOMAIN NearlyTied(key(w))[i] \subseteq DOMAIN key(w)[i]
        BY <2>2, NearlyTiedIs
    <2>4. strongest(w) \in Seq(KeyPairs(NearlyTied(key(w))))
        BY <2>2, <2>3, NearestIs
    <2>5. KeyPairs(NearlyTied(key(w))) \subseteq AtomPairs(bids)
        <3> SUFFICES ASSUME NEW q \in KeyPairs(NearlyTied(key(w)))
                     PROVE  q \in AtomPairs(bids)
            OBVIOUS
        <3>1. q \in Pairs /\ q[1] \in Bidders /\ q[2] \in DOMAIN NearlyTied(key(w))[q[1]]
            BY DEF KeyPairs, Pairs
        <3>2. q[2] \in DOMAIN bids[q[1]]
            BY <1>3, <2>1, <2>3, <3>1
        <3> QED
            BY <3>1, <3>2 DEF AtomPairs
    <2> HIDE DEF strongest
    <2> QED
        BY <2>4, <2>5
<1> HIDE DEF strongest
<1>5. lists \in Seq(Seq(AtomPairs(bids)))
    <2>1. lists \in [1..Len(Order) -> Seq(AtomPairs(bids))]
        BY <1>4, ListedBidders
    <2> HIDE DEF lists
    <2> QED
        BY <2>1, ListedBidders
<1> HIDE DEF lists
<1>6. FlattenSeq(lists) \in Seq(AtomPairs(bids))
    BY <1>5, FlattenIs
<1>7. <<>> \in Seq(AtomPairs(bids))
    OBVIOUS
<1> QED
    BY <1>1, <1>2, <1>6, <1>7

\* The witnesses are questions about atoms of the bids, all that were revealed.
LEMMA RevealedWitnessesAre ==
    ASSUME Settings, NEW s \in Sessions
    PROVE  /\ RevealedWitnesses(s) \in Seq(AtomPairs(Seen(s)))
           /\ \A q \in Range(Frontier(Seen(s), Solve(Seen(s)), TRUE)) :
                 q[2] \in DOMAIN s.revealed[q[1]] => q \in Range(RevealedWitnesses(s))
<1> DEFINE all == Frontier(Seen(s), Solve(Seen(s)), TRUE)
           ks == {k \in DOMAIN all : all[k][2] \in DOMAIN s.revealed[all[k][1]]}
<1>1. all \in Seq(AtomPairs(Seen(s)))
    BY SeenIs
<1>2. RevealedWitnesses(s) = Picked(all, ks)
    BY DEF RevealedWitnesses, Seen
<1> HIDE DEF all
<1>3. ks \in SUBSET DOMAIN all /\ \A k \in DOMAIN all : all[k][2] \in DOMAIN s.revealed[all[k][1]] => k \in ks
    OBVIOUS
<1> HIDE DEF ks
<1>4. /\ Picked(all, ks) \in Seq(AtomPairs(Seen(s)))
      /\ Range(Picked(all, ks)) = {all[k] : k \in ks}
    BY <1>1, <1>3, PickedStays
<1>5. \A q \in Range(all) : q[2] \in DOMAIN s.revealed[q[1]] => q \in {all[k] : k \in ks}
    BY <1>3 DEF Range
<1> QED
    BY <1>2, <1>4, <1>5 DEF all

-----------------------------------------------------------------------------
(* How often the terminal loops can go on.                                 *)

\* A sum with a larger term and no smaller one is larger.
LEMMA SumGrows ==
    ASSUME NEW S, IsFiniteSet(S), NEW f, NEW e,
           \A x \in S : f[x] \in Int /\ e[x] \in Int /\ f[x] <= e[x],
           NEW y \in S, f[y] < e[y]
    PROVE  SumFunctionOnSet(f, S) < SumFunctionOnSet(e, S)
<1> DEFINE rest == S \ {y}
           a == SumFunctionOnSet(f, rest)
           b == SumFunctionOnSet(e, rest)
<1>1. /\ SumFunctionOnSet(f, S) = f[y] + a
      /\ SumFunctionOnSet(e, S) = e[y] + b
    BY SumStep
<1>2. IsFiniteSet(rest)
    BY FS_Subset
<1>3. a \in Int /\ b \in Int
    <2>1. \A x \in rest : f[x] \in Int /\ e[x] \in Int
        OBVIOUS
    <2> HIDE DEF rest
    <2> QED
        BY <1>2, <2>1, SumStep
<1>4. a <= b
    <2>1. \A x \in rest : f[x] \in Int /\ e[x] \in Int /\ f[x] <= e[x]
        OBVIOUS
    <2> HIDE DEF rest
    <2> QED
        BY <1>2, <2>1, SumMonotone
<1>5. f[y] \in Int /\ e[y] \in Int
    OBVIOUS
<1> HIDE DEF a, b
<1> QED
    BY <1>1, <1>3, <1>4, <1>5

\* How many events were issued, and how many there can be.
IssuedCount(is) == SumFunctionOnSet([i \in Bidders |-> Cardinality(is[i])], Bidders)

EventCount == SumFunctionOnSet([i \in Bidders |-> Cardinality(Named)], Bidders)

\* Events are issued for bundles that have a name, each once.
LEMMA IssuedGrows ==
    ASSUME NEW is \in [Bidders -> SUBSET Named], NEW js \in [Bidders -> SUBSET Named],
           \A i \in Bidders : is[i] \subseteq js[i]
    PROVE  /\ IssuedCount(is) \in Nat /\ IssuedCount(is) <= IssuedCount(js)
           /\ \A i \in Bidders : is[i] # js[i] => IssuedCount(is) < IssuedCount(js)
<1> DEFINE f == [i \in Bidders |-> Cardinality(is[i])]
           e == [i \in Bidders |-> Cardinality(js[i])]
<1>1. \A i \in Bidders : /\ IsFiniteSet(is[i]) /\ IsFiniteSet(js[i])
                         /\ Cardinality(is[i]) \in Nat /\ Cardinality(js[i]) \in Nat
                         /\ Cardinality(is[i]) <= Cardinality(js[i])
                         /\ is[i] # js[i] => Cardinality(is[i]) # Cardinality(js[i])
    <2> SUFFICES ASSUME NEW i \in Bidders
                 PROVE  /\ IsFiniteSet(is[i]) /\ IsFiniteSet(js[i])
                        /\ Cardinality(is[i]) \in Nat /\ Cardinality(js[i]) \in Nat
                        /\ Cardinality(is[i]) <= Cardinality(js[i])
                        /\ is[i] # js[i] => Cardinality(is[i]) # Cardinality(js[i])
        OBVIOUS
    <2>1. IsFiniteSet(js[i]) /\ is[i] \subseteq js[i]
        <3>1. js[i] \subseteq Named
            OBVIOUS
        <3> QED
            BY <3>1, NamedFacts, FS_Subset
    <2>2. IsFiniteSet(is[i]) /\ Cardinality(is[i]) <= Cardinality(js[i])
          /\ (Cardinality(is[i]) = Cardinality(js[i]) => is[i] = js[i])
        BY <2>1, FS_Subset
    <2> QED
        BY <2>1, <2>2, FS_CardinalityType
<1>2. \A i \in Bidders : /\ f[i] \in Nat /\ f[i] \in Int /\ e[i] \in Int /\ f[i] <= e[i]
                         /\ is[i] # js[i] => f[i] < e[i]
    BY <1>1
<1>3. IssuedCount(is) = SumFunctionOnSet(f, Bidders) /\ IssuedCount(js) = SumFunctionOnSet(e, Bidders)
    BY DEF IssuedCount
<1>4. IsFiniteSet(Bidders)
    BY ListedBidders
<1> HIDE DEF f, e
<1>5. SumFunctionOnSet(f, Bidders) \in Nat
    BY <1>2, <1>4, SumIsNat
<1>6. SumFunctionOnSet(f, Bidders) <= SumFunctionOnSet(e, Bidders)
    BY <1>2, <1>4, SumMonotone
<1>7. ASSUME NEW i \in Bidders, is[i] # js[i]
      PROVE  SumFunctionOnSet(f, Bidders) < SumFunctionOnSet(e, Bidders)
    BY <1>2, <1>4, <1>7, SumGrows
<1> QED
    BY <1>3, <1>5, <1>6, <1>7

\* There is an event for every bidder and bundle.
LEMMA IssuedWithin ==
    ASSUME NEW is \in [Bidders -> SUBSET Named]
    PROVE  /\ IssuedCount(is) \in Nat /\ EventCount \in Nat /\ IssuedCount(is) <= EventCount
           /\ \A i \in Bidders : ~(Named \subseteq is[i]) => IssuedCount(is) < EventCount
<1> DEFINE all == [i \in Bidders |-> Named]
<1>1. all \in [Bidders -> SUBSET Named] /\ \A i \in Bidders : is[i] \subseteq all[i]
    OBVIOUS
<1>2. IssuedCount(all) = EventCount
    <2>1. [i \in Bidders |-> Cardinality(all[i])] = [i \in Bidders |-> Cardinality(Named)]
        OBVIOUS
    <2> QED
        BY <2>1 DEF IssuedCount, EventCount
<1>3. \A i \in Bidders : ~(Named \subseteq is[i]) => is[i] # all[i]
    OBVIOUS
<1> HIDE DEF all
<1>4. /\ IssuedCount(is) \in Nat /\ IssuedCount(is) <= IssuedCount(all)
      /\ \A i \in Bidders : is[i] # all[i] => IssuedCount(is) < IssuedCount(all)
    BY <1>1, IssuedGrows
<1>5. IssuedCount(all) \in Nat
    BY <1>1, IssuedGrows
<1> QED
    BY <1>2, <1>3, <1>4, <1>5

\* The loops may go on once for every event and once more.
LEMMA MaxIterationsIs ==
    ASSUME Settings, Session \in Sessions
    PROVE  MaxIterations = 1 + EventCount
<1>1. \A i \in Bidders : DOMAIN proxies[i].bid = Named
    BY BidsAre
<1>2. [i \in Bidders |-> Cardinality(DOMAIN proxies[i].bid)] = [i \in Bidders |-> Cardinality(Named)]
    BY <1>1
<1> QED
    BY <1>2 DEF MaxIterations, EventCount, SumFunction

-----------------------------------------------------------------------------
(* The iterations of the terminal audits.                                  *)

\* The terminal challenger brings no atom in.
Closed == policy.support = "demand_revealed" /\ ~On("terminal_challenger")

\* What an iteration makes of a session: nothing, if it asked nothing.
PassOf(s, t) ==
    /\ t \in Sessions /\ After(s, t)
    /\ t.count = s.count => t = s
    /\ t.revealed = s.revealed
    /\ Closed => SameAtoms(s, t)

\* The questions are settled.
AllSettled(s, pairs) == \A q \in Range(pairs) : Settled(s, q)

\* Iterations follow iterations.
LEMMA PassOrders ==
    ASSUME NEW s \in Sessions, NEW t \in Sessions, NEW u \in Sessions, PassOf(s, t), PassOf(t, u)
    PROVE  PassOf(s, u) /\ (u.count = s.count => t.count = s.count /\ u.count = t.count)
<1>1. After(s, t) /\ After(t, u) /\ After(s, u)
    BY AfterOrders DEF PassOf
<1>2. s.count \in Nat /\ t.count \in Nat /\ u.count \in Nat
    BY SessionIs
<1>3. s.count <= t.count /\ t.count <= u.count
    BY <1>1 DEF After
<1>4. ASSUME u.count = s.count
      PROVE  t.count = s.count /\ u.count = t.count /\ u = s
    <2>1. t.count = s.count /\ u.count = t.count
        BY <1>2, <1>3, <1>4
    <2> QED
        BY <2>1 DEF PassOf
<1>5. Closed => SameAtoms(s, u)
    BY DEF PassOf, SameAtoms
<1> QED
    BY <1>1, <1>4, <1>5 DEF PassOf

\* Questions about what is seen are an iteration, wherever the answers are recorded.
LEMMA SeenPass ==
    ASSUME Settings, NEW s \in Sessions, NEW pairs \in Seq(AtomPairs(Seen(s))),
           NEW keep \in {"supplementary", "nowhere"},
           keep = "nowhere" => policy.support = "all_atoms"
    PROVE  LET t == AuditQueries(s, pairs, keep)
           IN  /\ PassOf(s, t) /\ t.marks = s.marks
               /\ t.count = s.count => AllSettled(s, pairs)
               /\ keep = "supplementary" /\ Fine(s, s.supplementary) => Fine(t, t.supplementary)
               /\ keep = "nowhere" => t.supplementary = s.supplementary
<1> DEFINE t == AuditQueries(s, pairs, keep)
<1>1. /\ pairs \in Seq(Pairs)
      /\ \A k \in DOMAIN pairs :
            pairs[k] \in Pairs /\ pairs[k][1] \in Bidders /\ pairs[k][2] \in DOMAIN Seen(s)[pairs[k][1]]
    BY AtomPairsAre
<1>2. QueriedAll(s, t, pairs, keep)
    BY <1>1, AuditQueriesAre
<1> HIDE DEF t
<1>3. Kept(s, t, keep)
    BY <1>2 DEF QueriedAll
<1>4. ASSUME Closed
      PROVE  SameAtoms(s, t)
    <2>1. Seen(s) = s.supplementary /\ keep = "supplementary"
        BY <1>4, SeenIs DEF Closed
    <2>2. \A k \in DOMAIN pairs : Within(s, pairs[k], keep)
        BY <1>1, <2>1 DEF Within
    <2> QED
        BY <1>2, <2>2 DEF QueriedAll
<1>5. PassOf(s, t)
    BY <1>3, <1>4 DEF PassOf, Kept
<1>6. ASSUME t.count = s.count
      PROVE  AllSettled(s, pairs)
    <2>1. t = s
        BY <1>5, <1>6 DEF PassOf
    <2>2. \A k \in DOMAIN pairs : Settled(s, pairs[k])
        BY <1>2, <2>1 DEF QueriedAll
    <2> QED
        BY <2>2 DEF AllSettled, Range
<1> QED
    BY <1>3, <1>5, <1>6 DEF Kept, t

\* The challenger's query leaves the books in order, too.
LEMMA ChallengerQueryIs ==
    ASSUME Settings, NEW s \in Sessions, NEW pairs \in Seq(Pairs),
           NEW keep \in {"supplementary", "nowhere"}
    PROVE  LET t == ChallengerQuery(s, pairs, keep)
           IN  /\ t \in Sessions /\ After(s, t) /\ t.revealed = s.revealed
               /\ t.count = s.count => t = s
               /\ pairs = <<>> => t = s
               /\ keep = "nowhere" => t.supplementary = s.supplementary
<1> DEFINE q == AuditQueries(s, pairs, keep)
           i == pairs[1][1]
           t == ChallengerQuery(s, pairs, keep)
<1>1. QueriedAll(s, q, pairs, keep)
    BY AuditQueriesAre
<1>2. pairs = <<>> => q = s
    <2>1. PICK g : /\ g[0] = s /\ AuditQueries(s, pairs, keep) = g[Len(pairs)]
                   /\ \A k \in 0..Len(pairs) : g[k] \in Sessions
                   /\ \A k \in 1..Len(pairs) : g[k] = AuditQuery(g[k - 1], pairs[k], keep)
        BY AuditSteps
    <2>2. pairs = <<>> => Len(pairs) = 0
        OBVIOUS
    <2> QED
        BY <2>1, <2>2
<1>3. t = IF q.count = s.count \/ policy.framework # "targeted_v1" THEN q
          ELSE [q EXCEPT !.marks[i] = @ \cup {"challenger"}]
    BY DEF ChallengerQuery
<1> HIDE DEF q, t
<1>4. /\ q \in Sessions /\ After(s, q) /\ q.revealed = s.revealed /\ (q.count = s.count => q = s)
      /\ (keep = "nowhere" => q.supplementary = s.supplementary)
    BY <1>1 DEF QueriedAll, Kept
<1>5. CASE t = q
    BY <1>2, <1>4, <1>5 DEF t
<1>6. CASE t # q
    <2>1. t = [q EXCEPT !.marks[i] = @ \cup {"challenger"}] /\ q.count # s.count /\ pairs # <<>>
        BY <1>2, <1>3, <1>6
    <2>2. i \in Bidders
        <3>1. pairs[1] \in Pairs
            BY <2>1
        <3> QED
            BY <3>1 DEF Pairs
    <2> HIDE DEF i
    <2>3. {"challenger"} \in SUBSET Marks
        BY DEF Marks
    <2>4. RefinedOf(q, t, i)
        <3>1. {} \in Bundles
            BY DEF Bundles
        <3> DEFINE m == {"challenger"}
        <3>2. m \in SUBSET Marks /\ t = [q EXCEPT !.marks[i] = @ \cup m]
            BY <2>1, <2>3
        <3> HIDE DEF m
        <3> QED
            BY <1>4, <2>2, <3>1, <3>2, MarkedIs
    <2>5. /\ t \in Sessions /\ After(q, t) /\ t.revealed = q.revealed
          /\ t.supplementary = q.supplementary
        BY <2>4 DEF RefinedOf
    <2>6. After(s, t)
        BY <1>4, <2>5, AfterOrders
    <2>7. t.count # s.count
        <3>1. s.count \in Nat /\ q.count \in Nat /\ t.count \in Nat
            BY <1>4, <2>5, SessionIs
        <3>2. s.count <= q.count /\ q.count <= t.count
            BY <1>4, <2>5 DEF After
        <3> QED
            BY <2>1, <3>1, <3>2
    <2> QED
        BY <1>4, <2>1, <2>5, <2>6, <2>7 DEF t
<1> QED
    BY <1>5, <1>6

\* A full bid that is recorded replaces what was recorded.
LEMMA RecordedFull ==
    ASSUME NEW old \in Reports, NEW bid \in [Named -> Nat]
    PROVE  Recorded(old, bid) = bid /\ Recorded(old, bid) \in Reports
<1>1. DOMAIN old \subseteq Named /\ DOMAIN bid = Named /\ {} \notin Named
    BY ReportIs, NamedFacts
<1>2. (DOMAIN old \cup DOMAIN bid) \ {{}} = Named
    BY <1>1
<1>3. Recorded(old, bid) = [b \in Named |-> bid[b]]
    BY <1>1, <1>2 DEF Recorded
<1> QED
    BY <1>3, ReportIs

\* The bids of a session.
BidsOf(s) == [i \in Bidders |-> s.proxies[i].bid]

\* Recording the bids again changes nothing else.
LEMMA RerecordedIs ==
    ASSUME Settings, NEW s \in Sessions
    PROVE  LET t == Rerecorded(s)
           IN  /\ t \in Sessions /\ After(s, t) /\ t.revealed = s.revealed /\ t.count = s.count
               /\ t.proxies = s.proxies
               /\ s.count = 0 \/ policy.support # "all_atoms" => t = s
               /\ policy.support = "all_atoms" /\ s.count > 0 => t.supplementary = BidsOf(s)
<1> DEFINE t == Rerecorded(s)
           sp == [i \in Bidders |-> Recorded(s.supplementary[i], s.proxies[i].bid)]
<1>0. s.count \in Nat
    BY SessionIs
<1>1. CASE ~(policy.support = "all_atoms" /\ s.count > 0)
    <2>1. t = s
        BY <1>1 DEF Rerecorded
    <2> QED
        BY <1>1, <2>1, AfterOrders
<1>2. CASE policy.support = "all_atoms" /\ s.count > 0
    <2>1. t = [s EXCEPT !.supplementary = [i \in Bidders |-> Recorded(@[i], s.proxies[i].bid)]]
        BY <1>2 DEF Rerecorded
    <2>2. t = [s EXCEPT !.supplementary = sp]
        BY <2>1
    <2>3. sp = BidsOf(s) /\ sp \in [Bidders -> Reports]
        <3>1. \A i \in Bidders : s.supplementary[i] \in Reports /\ s.proxies[i].bid \in [Named -> Nat]
            BY SessionIs, ProxyIs
        <3>2. \A i \in Bidders : /\ Recorded(s.supplementary[i], s.proxies[i].bid) = s.proxies[i].bid
                                 /\ Recorded(s.supplementary[i], s.proxies[i].bid) \in Reports
            BY <3>1, RecordedFull
        <3> QED
            BY <3>2 DEF BidsOf
    <2> HIDE DEF sp, t
    <2>4. s = [proxies |-> s.proxies, issued |-> s.issued, revealed |-> s.revealed,
               supplementary |-> s.supplementary, marks |-> s.marks, count |-> s.count,
               followup |-> s.followup]
        BY SessionIs
    <2>5. t = [proxies |-> s.proxies, issued |-> s.issued, revealed |-> s.revealed,
               supplementary |-> sp, marks |-> s.marks, count |-> s.count,
               followup |-> s.followup]
        BY <2>2, <2>4
    <2>6. /\ t.proxies = s.proxies /\ t.issued = s.issued /\ t.revealed = s.revealed
          /\ t.supplementary = sp /\ t.count = s.count
        BY <2>5
    <2>7. t \in Sessions
        <3>1. t \in SessionRecords
            BY <2>3, <2>5, SessionIs DEF SessionRecords
        <3> QED
            BY <2>6, <3>1, SessionIs DEF Sessions
    <2>8. After(s, t)
        <3>1. After(s, s)
            BY AfterOrders
        <3> QED
            BY <2>6, <3>1 DEF After
    <2> QED
        BY <1>0, <1>2, <2>3, <2>6, <2>7, <2>8 DEF t
<1> QED
    BY <1>1, <1>2

\* What the stability audit makes of a session.
StableOf(s, t) ==
    /\ PassOf(s, t)
    /\ t.count = s.count =>
          /\ AllSettled(s, Awards(Solve(Seen(s))))
          /\ AllSettled(s, Frontier(Seen(s), Solve(Seen(s)), policy.framework = "targeted_v1"))
    /\ policy.support = "all_atoms" /\ s.supplementary = BidsOf(s) => t.supplementary = BidsOf(t)

\* An iteration of the stability audit.
LEMMA StabilityIs ==
    ASSUME Settings, NEW s \in Sessions, s.count = 0
    PROVE  StableOf(s, StabilityPass(s))
<1> DEFINE now == Solve(Seen(s))
           keep == IF policy.support = "demand_revealed" THEN "supplementary" ELSE "nowhere"
           targeted == policy.framework = "targeted_v1"
           issue == On("terminal_challenger")
                    /\ (targeted => \A i \in Bidders : "challenger" \notin s.marks[i])
           challenger == IF issue THEN TerminalChallenger(s, now, Welfare(Seen(s), now)) ELSE <<>>
           awards == Awards(now)
           frontier == Frontier(Seen(s), now, targeted)
           pairs == awards \o frontier
           q == AuditQueries(s, pairs, keep)
           w == ChallengerQuery(q, challenger, keep)
           t == StabilityPass(s)
<1>1. t = Rerecorded(w)
    BY DEF StabilityPass, Seen
<1>2. keep \in {"supplementary", "nowhere"} /\ (keep = "nowhere" => policy.support = "all_atoms")
    BY ReportedIs, SessionIs
<1> HIDE DEF keep
<1>3. /\ awards \in Seq(AtomPairs(Seen(s))) /\ frontier \in Seq(AtomPairs(Seen(s)))
      /\ Welfare(Seen(s), now) \in Int
    BY SeenIs
<1>4. challenger \in Seq(Pairs)
    <2>1. TerminalChallenger(s, now, Welfare(Seen(s), now)) \in Seq(Pairs)
        BY <1>3, TerminalChallengerIs
    <2> QED
        BY <2>1
<1>5. Closed => challenger = <<>>
    BY DEF Closed
<1> HIDE DEF challenger, awards, frontier, issue
<1>6. pairs \in Seq(AtomPairs(Seen(s))) /\ Range(pairs) = Range(awards) \cup Range(frontier)
    BY <1>3, RangeOfConcat
<1> HIDE DEF pairs
<1>7. /\ PassOf(s, q)
      /\ q.count = s.count => AllSettled(s, pairs)
      /\ keep = "nowhere" => q.supplementary = s.supplementary
    BY <1>2, <1>6, SeenPass
<1> HIDE DEF q
<1>8. q \in Sessions
    BY <1>7 DEF PassOf
<1>9. /\ w \in Sessions /\ After(q, w) /\ w.revealed = q.revealed
      /\ w.count = q.count => w = q
      /\ challenger = <<>> => w = q
      /\ keep = "nowhere" => w.supplementary = q.supplementary
    BY <1>2, <1>4, <1>8, ChallengerQueryIs
<1> HIDE DEF w
<1>10. /\ t \in Sessions /\ After(w, t) /\ t.revealed = w.revealed /\ t.count = w.count
       /\ t.proxies = w.proxies
       /\ w.count = 0 \/ policy.support # "all_atoms" => t = w
       /\ policy.support = "all_atoms" /\ w.count > 0 => t.supplementary = BidsOf(w)
    BY <1>1, <1>9, RerecordedIs
<1> HIDE DEF t
<1>11. PassOf(s, w)
    <2>1. PassOf(q, w)
        <3>1. Closed => SameAtoms(q, w)
            BY <1>5, <1>9 DEF SameAtoms
        <3> QED
            BY <1>9, <3>1 DEF PassOf
    <2> QED
        BY <1>7, <1>8, <1>9, <2>1, PassOrders
<1>12. t.count = s.count => t = w /\ w = s /\ q = s /\ q.count = s.count
    <2> SUFFICES ASSUME t.count = s.count
                 PROVE  t = w /\ w = s /\ q = s /\ q.count = s.count
        OBVIOUS
    <2>1. w.count = 0 /\ w.count = s.count
        BY <1>10
    <2>2. s.count <= q.count /\ q.count <= w.count /\ s.count \in Nat /\ q.count \in Nat /\ w.count \in Nat
        BY <1>7, <1>8, <1>9, SessionIs DEF PassOf, After
    <2>3. q.count = s.count
        BY <2>1, <2>2
    <2> QED
        BY <1>7, <1>10, <1>11, <2>1, <2>3 DEF PassOf
<1>13. PassOf(s, t)
    <2>1. After(s, t)
        BY <1>9, <1>10, <1>11, AfterOrders DEF PassOf
    <2>2. Closed => t = w
        BY <1>10 DEF Closed
    <2> QED
        BY <1>10, <1>11, <1>12, <2>1, <2>2 DEF PassOf
<1>14. ASSUME t.count = s.count
      PROVE  AllSettled(s, awards) /\ AllSettled(s, frontier)
    BY <1>6, <1>7, <1>12, <1>14 DEF AllSettled
<1>15. ASSUME policy.support = "all_atoms", s.supplementary = BidsOf(s)
      PROVE  t.supplementary = BidsOf(t)
    <2>1. CASE w.count > 0
        BY <1>10, <1>15, <2>1 DEF BidsOf
    <2>2. CASE ~(w.count > 0)
        <3>1. w.count = 0
            BY <1>9, <2>2, SessionIs
        <3>2. t.count = s.count
            BY <1>10, <3>1
        <3>3. t = s
            BY <1>12, <3>2
        <3> QED
            BY <1>15, <3>3
    <2> QED
        BY <2>1, <2>2
<1> QED
    BY <1>13, <1>14, <1>15 DEF StableOf, t, awards, frontier

\* What a pass of the frontier audits makes of a session.
VerifiedOf(s, t) ==
    /\ PassOf(s, t) /\ t.marks = s.marks
    /\ Fine(s, s.supplementary) => Fine(t, t.supplementary)

\* The pass over the frozen challengers and witnesses.
LEMMA WitnessesPass ==
    ASSUME Settings, NEW s \in Sessions, prices \in [Items -> Nat]
    PROVE  VerifiedOf(s, AuditQueries(s, FrontierChallengers(s) \o RevealedWitnesses(s), "supplementary"))
<1> DEFINE pairs == FrontierChallengers(s) \o RevealedWitnesses(s)
<1>1. pairs \in Seq(AtomPairs(Seen(s)))
    <2>1. FrontierChallengers(s) \in Seq(AtomPairs(Seen(s))) /\ RevealedWitnesses(s) \in Seq(AtomPairs(Seen(s)))
        BY FrontierChallengersAre, RevealedWitnessesAre
    <2> QED
        BY <2>1
<1> DEFINE keep == "supplementary"
<1>2. keep \in {"supplementary", "nowhere"} /\ (keep = "nowhere" => policy.support = "all_atoms") /\ keep = "supplementary"
    OBVIOUS
<1> HIDE DEF keep, pairs
<1>3. VerifiedOf(s, AuditQueries(s, pairs, keep))
    BY <1>1, <1>2, SeenPass DEF VerifiedOf
<1> QED
    BY <1>2, <1>3 DEF pairs

\* An iteration over the winners.
LEMMA WinnersPass ==
    ASSUME Settings, NEW s \in Sessions
    PROVE  LET t == AuditQueries(s, Winners(s), "supplementary")
           IN  VerifiedOf(s, t) /\ (t.count = s.count => AllSettled(s, Awards(Solve(Seen(s)))))
<1> DEFINE pairs == Winners(s)
           keep == "supplementary"
<1>1. pairs = Awards(Solve(Seen(s))) /\ pairs \in Seq(AtomPairs(Seen(s)))
    BY SeenIs DEF Winners, Seen
<1>2. keep \in {"supplementary", "nowhere"} /\ (keep = "nowhere" => policy.support = "all_atoms") /\ keep = "supplementary"
    OBVIOUS
<1> HIDE DEF keep, pairs
<1>3. LET t == AuditQueries(s, pairs, keep)
      IN  VerifiedOf(s, t) /\ (t.count = s.count => AllSettled(s, pairs))
    BY <1>1, <1>2, SeenPass DEF VerifiedOf
<1> QED
    BY <1>1, <1>2, <1>3 DEF pairs

\* An iteration of the staged closure.
LEMMA StagedPass ==
    ASSUME Settings, NEW s \in Sessions
    PROVE  LET t == AuditQueries(s, RevealedWitnesses(s), "supplementary")
               u == AuditQueries(t, Winners(t), "supplementary")
           IN  /\ VerifiedOf(s, u)
               /\ u.count = s.count =>
                     AllSettled(s, RevealedWitnesses(s)) /\ AllSettled(s, Awards(Solve(Seen(s))))
<1> DEFINE pairs == RevealedWitnesses(s)
           keep == "supplementary"
           t == AuditQueries(s, pairs, keep)
           u == AuditQueries(t, Winners(t), keep)
<1>1. pairs \in Seq(AtomPairs(Seen(s)))
    BY RevealedWitnessesAre
<1>2. keep \in {"supplementary", "nowhere"} /\ (keep = "nowhere" => policy.support = "all_atoms") /\ keep = "supplementary"
    OBVIOUS
<1> HIDE DEF keep, pairs
<1>3. VerifiedOf(s, t) /\ (t.count = s.count => AllSettled(s, pairs))
    BY <1>1, <1>2, SeenPass DEF VerifiedOf
<1> HIDE DEF t
<1>4. t \in Sessions
    BY <1>3 DEF VerifiedOf, PassOf
<1>5. VerifiedOf(t, u) /\ (u.count = t.count => AllSettled(t, Awards(Solve(Seen(t)))))
    BY <1>2, <1>4, WinnersPass
<1> HIDE DEF u
<1>6. u \in Sessions /\ PassOf(s, t) /\ PassOf(t, u)
    BY <1>3, <1>5 DEF VerifiedOf, PassOf
<1>7. PassOf(s, u) /\ (u.count = s.count => t.count = s.count /\ u.count = t.count)
    BY <1>4, <1>6, PassOrders
<1>8. VerifiedOf(s, u)
    BY <1>3, <1>5, <1>7 DEF VerifiedOf
<1>9. u.count = s.count => AllSettled(s, pairs) /\ AllSettled(s, Awards(Solve(Seen(s))))
    BY <1>3, <1>5, <1>6, <1>7 DEF PassOf
<1> QED
    BY <1>8, <1>9 DEF t, u, pairs, keep

-----------------------------------------------------------------------------
(* The inductive invariant.                                                *)

\* What bidder i demanded in the rounds behind, and what it answered in this one.
Demanded(i) == UNION {Range(history[k].demands[i]) : k \in DOMAIN history}

Answered(i) == IF i \in DOMAIN responses THEN Range(DemandList(responses[i])) ELSE {}

\* The clock is in order, and done before the terminal audits start.
EngineInv == TypeOK /\ RoundInv /\ (stage # "clock" => pc = "done")

\* The terminal phases.
Phases == {"stability", "witnesses", "winners", "staged", "final", "priced"}

\* The books are in order, each framework has its own audit, and a loop that goes on has
\* issued an event in every iteration behind it.
BookInv ==
    /\ Settings /\ Session \in Sessions
    /\ lastPrimary \in [Bidders -> Named \cup {NoBundle}]
    /\ stage \in {"clock"} \cup Phases
    /\ stage = "stability" => policy.framework # "frontier_v1"
    /\ stage \in {"witnesses", "winners", "staged"} => policy.framework = "frontier_v1"
    /\ iteration \in Nat /\ iteration <= IssuedCount(issued)

\* Under demand_revealed what was demanded is revealed, and recorded.
SupportInv ==
    policy.support = "demand_revealed" =>
        /\ \A i \in Bidders : DOMAIN revealed[i] = Demanded(i) \cup Answered(i)
        /\ \A i \in DOMAIN responses :
              DOMAIN responses[i].atoms = Range(DemandList(responses[i]))
        /\ stage = "clock" \/ ~On("terminal_challenger") =>
              \A i \in Bidders : DOMAIN supplementary[i] = Demanded(i)

\* The bids are synchronised with what the clock revealed, which awards only may change.
Synchronising ==
    /\ policy.support = "demand_revealed" /\ policy.framework = "frontier_v1"
    /\ policy.driver = "experiment" /\ ~On("top_k") /\ ~On("counterfactual")

\* Corrections reach the bids: all of them, when they are recorded again, or those of the
\* atoms that were queried.
CorrectedInv ==
    /\ policy.support = "all_atoms" =>
          /\ \A i \in DOMAIN responses : responses[i].atoms = proxies[i].bid
          /\ pc # "ask" /\ (policy.framework # "frontier_v1" \/ stage \in {"clock", "witnesses"})
                => supplementary = CurrentBids
          /\ stage # "clock" => Fine(Session, supplementary)
    /\ Synchronising => Fine(Session, IF stage = "clock" THEN revealed ELSE supplementary)

\* The bundles the removal of a winner exposes that an audit looks at.
Audits(q) == policy.framework # "frontier_v1" \/ q[2] \in DOMAIN revealed[q[1]]

\* Audits that ended have settled every question about the bids as they are.
FinalInv ==
    /\ stage \in {"final", "priced"} =>
          /\ AllSettled(Session, Awards(Solve(Seen(Session))))
          /\ \A q \in Range(Frontier(Seen(Session), Solve(Seen(Session)),
                                     policy.framework # "legacy")) :
                Audits(q) => Settled(Session, q)
    /\ stage = "priced" => outcome = Solve(supplementary)

EInv == EngineInv /\ BookInv /\ SupportInv /\ CorrectedInv /\ FinalInv

\* The session of a state.
LEMMA SessionFields ==
    /\ Session.proxies = proxies /\ Session.issued = issued /\ Session.revealed = revealed
    /\ Session.supplementary = supplementary /\ Session.marks = marks /\ Session.count = 0
    /\ Session.followup = {}
BY DEF Session

\* A state that takes proxies and issues from a session with its books in order has its
\* books in order.
LEMMA SessionNext ==
    ASSUME Settings, UNCHANGED fixed, NEW s \in Sessions,
           proxies' = s.proxies, issued' = s.issued,
           revealed' \in [Bidders -> Reports], supplementary' \in [Bidders -> Reports],
           marks' \in [Bidders -> SUBSET Marks]
    PROVE  Settings' /\ (Session \in Sessions)'
<1> DEFINE t == [proxies |-> s.proxies, issued |-> s.issued, revealed |-> revealed',
                 supplementary |-> supplementary', marks |-> marks', count |-> 0, followup |-> {}]
<1>1. Settings'
    BY DEF Settings, fixed
<1>2. Session' = t
    BY DEF Session
<1>3. t \in SessionRecords
    <2>1. {} \in Bundles /\ 0 \in Nat
        BY DEF Bundles
    <2>2. s.proxies \in [Bidders -> ProxyRecords] /\ s.issued \in [Bidders -> SUBSET Named]
        BY SessionIs
    <2> QED
        BY <2>1, <2>2 DEF SessionRecords
<1>4. t.proxies = s.proxies /\ t.issued = s.issued
    OBVIOUS
<1> HIDE DEF t
<1>5. \A i \in Bidders : t.proxies[i] \in ProxiesOf(truth[i]) /\ t.issued[i] \subseteq t.proxies[i].refined
    BY <1>4, SessionIs
<1>6. Capping(t.proxies)
    BY <1>4, SessionIs
<1>7. policy' = policy /\ truth' = truth
    BY DEF fixed
<1>8. \A i \in Bidders : t.proxies[i] \in ProxiesOf(truth'[i])
    BY <1>5, <1>7
<1>9. /\ policy'.bidderCap > 0 => \A i \in Bidders : t.proxies[i].count <= policy'.bidderCap + 1
      /\ policy'.totalCap > 0 => QueryCount(t.proxies) <= policy'.totalCap + 1
    BY <1>6, <1>7 DEF Capping
<1>10. t \in {u \in SessionRecords :
        /\ \A i \in Bidders : /\ u.proxies[i] \in ProxiesOf(truth'[i])
                              /\ u.issued[i] \subseteq u.proxies[i].refined
        /\ policy'.bidderCap > 0 => \A i \in Bidders : u.proxies[i].count <= policy'.bidderCap + 1
        /\ policy'.totalCap > 0 => QueryCount(u.proxies) <= policy'.totalCap + 1}
    BY <1>3, <1>5, <1>8, <1>9
<1>11. (Session \in Sessions)'
    BY <1>2, <1>10 DEF Sessions, Capping
<1> QED
    BY <1>1, <1>11

\* What an audit has settled, and the bids it looks at, stay as they are.
LEMMA SettledNext ==
    ASSUME UNCHANGED fixed, UNCHANGED <<proxies, issued, revealed, supplementary>>
    PROVE  /\ Awards(Solve(Seen(Session)))' = Awards(Solve(Seen(Session)))
           /\ Frontier(Seen(Session), Solve(Seen(Session)), policy.framework # "legacy")'
                 = Frontier(Seen(Session), Solve(Seen(Session)), policy.framework # "legacy")
           /\ \A q : Settled(Session, q)' <=> Settled(Session, q)
           /\ \A q : Audits(q)' <=> Audits(q)
<1>1. Seen(Session)' = Seen(Session)
    BY DEF Seen, Reported, Session, fixed
<1>2. Solve(Seen(Session))' = Solve(Seen(Session))
    <2>1. Solve(Seen(Session))' = Solved(Seen(Session)', favoured')
        BY DEF Solve
    <2>2. favoured' = favoured
        BY DEF fixed
    <2> QED
        BY <1>1, <2>1, <2>2 DEF Solve
<1>3. Awards(Solve(Seen(Session)))' = Awards(Solve(Seen(Session)))
    BY <1>2 DEF Awards
<1>4. policy' = policy /\ favoured' = favoured
    BY DEF fixed
<1>5. Frontier(Seen(Session), Solve(Seen(Session)), policy.framework # "legacy")'
          = Frontier(Seen(Session), Solve(Seen(Session)), policy.framework # "legacy")
    BY <1>1, <1>2, <1>4 DEF Frontier, Solve
<1>6. \A q : Settled(Session, q)' <=> Settled(Session, q)
    BY <1>4 DEF Settled, CapAllows, Session, QueryCount
<1>7. \A q : Audits(q)' <=> Audits(q)
    BY <1>4 DEF Audits
<1> QED
    BY <1>3, <1>5, <1>6, <1>7

-----------------------------------------------------------------------------
(* The terminal audits.                                                    *)

\* The clock runs before the audits only, so they leave it in order.
LEMMA AuditedEngine ==
    ASSUME EInv, stage # "clock",
           UNCHANGED <<pc, turn, round, prices, responses, history, provisional>>,
           supplementary' \in [Bidders -> Reports]
    PROVE  EngineInv'
<1>1. TypeOK /\ RoundInv /\ pc = "done"
    BY DEF EInv, EngineInv
<1>2. TypeOK'
    <2>1. /\ DOMAIN supplementary' = Bidders
          /\ \A i \in Bidders : /\ DOMAIN supplementary'[i] \subseteq Bundles \ {{}}
                                /\ \A b \in DOMAIN supplementary'[i] : supplementary'[i][b] \in Nat
        <3>1. \A i \in Bidders : supplementary'[i] \in Reports
            OBVIOUS
        <3>2. \A i \in Bidders : supplementary'[i] \in [DOMAIN supplementary'[i] -> Nat]
                                 /\ DOMAIN supplementary'[i] \in SUBSET Named
            BY <3>1, ReportIs
        <3> QED
            BY <3>2 DEF Named
    <2> QED
        BY <1>1, <2>1 DEF TypeOK
<1>3. RoundInv'
    BY <1>1 DEF RoundInv, Cleared, LastDemands
<1> QED
    BY <1>1, <1>2, <1>3 DEF EngineInv

\* Nobody has an answer pending during the audits.
LEMMA NoAnswers ==
    ASSUME EInv, pc # "ask" \/ turn = 1
    PROVE  DOMAIN responses = {} /\ \A i \in Bidders : Answered(i) = {}
<1>1. DOMAIN responses = {Order[k] : k \in {n \in 1..Len(Order) : n < turn /\ pc = "ask"}}
    BY DEF EInv, EngineInv, TypeOK
<1>2. {n \in 1..Len(Order) : n < turn /\ pc = "ask"} = {}
    BY ListedBidders
<1>3. DOMAIN responses = {}
    BY <1>1, <1>2
<1> QED
    BY <1>3 DEF Answered

\* The audits leave what was demanded as it is.
LEMMA AuditedSupport ==
    ASSUME EInv, stage # "clock", stage' # "clock", UNCHANGED fixed,
           UNCHANGED <<responses, history, revealed>>,
           Closed => SameAtoms(Session, [revealed |-> revealed, supplementary |-> supplementary'])
    PROVE  SupportInv'
<1> SUFFICES ASSUME policy'.support = "demand_revealed"
             PROVE  /\ \A i \in Bidders : DOMAIN revealed'[i] = Demanded(i)' \cup Answered(i)'
                    /\ \A i \in DOMAIN responses' :
                          DOMAIN responses'[i].atoms = Range(DemandList(responses'[i]))
                    /\ stage' = "clock" \/ ~On("terminal_challenger")' =>
                          \A i \in Bidders : DOMAIN supplementary'[i] = Demanded(i)'
    BY DEF SupportInv
<1>1. policy' = policy /\ policy.support = "demand_revealed"
    BY DEF fixed
<1>2. \A i \in Bidders : Demanded(i)' = Demanded(i) /\ Answered(i)' = Answered(i)
    BY DEF Demanded, Answered
<1>3. /\ \A i \in Bidders : DOMAIN revealed[i] = Demanded(i) \cup Answered(i)
      /\ \A i \in DOMAIN responses : DOMAIN responses[i].atoms = Range(DemandList(responses[i]))
      /\ ~On("terminal_challenger") => \A i \in Bidders : DOMAIN supplementary[i] = Demanded(i)
    BY <1>1 DEF EInv, SupportInv
<1>4. ASSUME ~On("terminal_challenger")'
      PROVE  \A i \in Bidders : DOMAIN supplementary'[i] = Demanded(i)'
    <2>1. Closed
        BY <1>1, <1>4 DEF Closed, On
    <2>2. \A i \in Bidders : DOMAIN supplementary'[i] = DOMAIN supplementary[i]
        BY <2>1, SessionFields DEF SameAtoms
    <2> QED
        BY <1>2, <1>3, <2>1, <2>2 DEF Closed
<1> QED
    BY <1>2, <1>3, <1>4

\* What an iteration leaves to the mechanism keeps everything in order that is not about
\* corrections and the end.
LEMMA PassKeeps ==
    ASSUME EInv, stage # "clock", stage' \in Phases, NEW s, PassOf(Session, s),
           Queried(s), marks' = s.marks,
           stage' = "stability" => policy.framework # "frontier_v1",
           stage' \in {"witnesses", "winners", "staged"} => policy.framework = "frontier_v1",
           iteration' \in Nat, iteration' <= IssuedCount(s.issued)
    PROVE  EngineInv' /\ BookInv' /\ SupportInv'
<1>1. /\ UNCHANGED <<pc, turn, round, prices, responses, history, provisional>>
      /\ UNCHANGED fixed /\ UNCHANGED <<lastPrimary, revealed>>
      /\ proxies' = s.proxies /\ issued' = s.issued /\ supplementary' = s.supplementary
    BY DEF Queried, oracleVars
<1>2. s \in Sessions /\ s.revealed = revealed /\ (Closed => SameAtoms(Session, s))
    BY SessionFields DEF PassOf
<1>3. /\ s.revealed \in [Bidders -> Reports] /\ s.supplementary \in [Bidders -> Reports]
      /\ s.marks \in [Bidders -> SUBSET Marks]
    BY <1>2, SessionIs
<1>4. EngineInv'
    BY <1>1, <1>3, AuditedEngine
<1>5. Settings' /\ (Session \in Sessions)'
    <2>1. Settings
        BY DEF EInv, BookInv
    <2> QED
        BY <1>1, <1>2, <1>3, <2>1, SessionNext
<1>6. BookInv'
    <2>1. policy' = policy
        BY <1>1 DEF fixed
    <2>2. lastPrimary \in [Bidders -> Named \cup {NoBundle}]
        BY DEF EInv, BookInv
    <2>3. IssuedCount(issued)' = IssuedCount(s.issued)
        BY <1>1 DEF IssuedCount
    <2>4. stage' \in {"clock"} \cup Phases
        OBVIOUS
    <2> QED
        BY <1>1, <1>5, <2>1, <2>2, <2>3, <2>4 DEF BookInv
<1>7. SupportInv'
    <2>1. stage' # "clock"
        BY DEF Phases
    <2>2. Closed => SameAtoms(Session, [revealed |-> revealed, supplementary |-> supplementary'])
        BY <1>1, <1>2 DEF SameAtoms
    <2> QED
        BY <1>1, <2>1, <2>2, AuditedSupport
<1> QED
    BY <1>4, <1>6, <1>7

\* A loop goes on as long as it asks something, because there is a question for every
\* iteration it has left, and leaves everything as it is when it ends.
LEMMA LoopIs ==
    ASSUME EInv, NEW s, PassOf(Session, s), NEW after, Loop(s, after)
    PROVE  /\ iteration' \in Nat /\ iteration' <= IssuedCount(s.issued)
           /\ \/ stage' = stage /\ s.count > 0
              \/ stage' = after /\ s = Session
<1>1. Settings /\ Session \in Sessions /\ iteration \in Nat /\ iteration <= IssuedCount(issued)
    BY DEF EInv, BookInv
<1>2. s \in Sessions /\ After(Session, s) /\ (s.count = 0 => s = Session)
    BY SessionFields DEF PassOf
<1>3. /\ issued \in [Bidders -> SUBSET Named] /\ s.issued \in [Bidders -> SUBSET Named]
      /\ s.count \in Nat
    BY <1>1, <1>2, SessionIs, SessionFields
<1>4. \A i \in Bidders : issued[i] \subseteq s.issued[i]
    BY <1>2, SessionFields DEF After
<1>5. /\ IssuedCount(issued) \in Nat /\ IssuedCount(issued) <= IssuedCount(s.issued)
      /\ \A i \in Bidders : issued[i] # s.issued[i] => IssuedCount(issued) < IssuedCount(s.issued)
    BY <1>3, <1>4, IssuedGrows
<1>6. IssuedCount(s.issued) \in Nat /\ EventCount \in Nat /\ IssuedCount(s.issued) <= EventCount
    BY <1>3, IssuedWithin
<1>7. MaxIterations = 1 + EventCount
    BY <1>1, MaxIterationsIs
<1>8. IF s.count > 0 /\ iteration + 1 < MaxIterations
      THEN iteration' = iteration + 1 /\ stage' = stage
      ELSE iteration' = 0 /\ stage' = after
    BY DEF Loop
<1>9. CASE s.count > 0
    <2>1. IssuedCount(issued) < IssuedCount(s.issued)
        <3>1. PICK i \in Bidders : \E b \in s.issued[i] : b \notin issued[i]
            BY <1>2, <1>9, SessionFields DEF After
        <3> QED
            BY <1>5, <3>1
    <2>2. iteration + 1 < MaxIterations /\ iteration + 1 <= IssuedCount(s.issued)
        BY <1>1, <1>5, <1>6, <1>7, <2>1
    <2> QED
        BY <1>1, <1>8, <1>9, <2>2
<1>10. CASE ~(s.count > 0)
    <2>1. s.count = 0
        BY <1>3, <1>10
    <2> QED
        BY <1>2, <1>6, <1>8, <2>1
<1> QED
    BY <1>9, <1>10

\* What is recorded stays within what was said and what is reported.
LEMMA FineNext ==
    ASSUME UNCHANGED fixed, NEW s, proxies' = s.proxies, supplementary' = s.supplementary,
           Fine(s, s.supplementary)
    PROVE  Fine(Session, supplementary)'
<1>1. truth' = truth
    BY DEF fixed
<1> QED
    BY <1>1 DEF Fine, Session

\* The bids themselves are.
LEMMA FineBids ==
    ASSUME NEW s \in Sessions
    PROVE  Fine(s, BidsOf(s))
<1>1. \A i \in Bidders : /\ s.proxies[i].refined \in SUBSET Named
                         /\ \A b \in Named : s.proxies[i].bid[b] \in Nat
                         /\ \A b \in s.proxies[i].refined : truth[i][b] <= s.proxies[i].bid[b]
    BY SessionIs, ProxyIs
<1>2. \A i \in Bidders : BidsOf(s)[i] = s.proxies[i].bid
    BY DEF BidsOf
<1> QED
    BY <1>1, <1>2 DEF Fine

\* An audit that ended has settled its questions.
LEMMA EndsSettled ==
    ASSUME UNCHANGED fixed, UNCHANGED <<proxies, issued, revealed, supplementary>>,
           stage' = "final",
           AllSettled(Session, Awards(Solve(Seen(Session)))),
           \A q \in Range(Frontier(Seen(Session), Solve(Seen(Session)), policy.framework # "legacy")) :
               Audits(q) => Settled(Session, q)
    PROVE  FinalInv'
<1> DEFINE awards == Awards(Solve(Seen(Session)))
           frontier == Frontier(Seen(Session), Solve(Seen(Session)), policy.framework # "legacy")
<1>1. /\ awards' = awards /\ frontier' = frontier
      /\ \A q : Settled(Session, q)' <=> Settled(Session, q)
      /\ \A q : Audits(q)' <=> Audits(q)
    BY SettledNext
<1>2. AllSettled(Session, awards) /\ \A q \in Range(frontier) : Audits(q) => Settled(Session, q)
    OBVIOUS
<1>3. FinalInv' <=> /\ stage' \in {"final", "priced"} =>
                           /\ \A q \in Range(awards') : Settled(Session, q)'
                           /\ \A q \in Range(frontier') : Audits(q)' => Settled(Session, q)'
                    /\ stage' = "priced" => outcome' = Solve(supplementary)'
    BY DEF FinalInv, AllSettled
<1> HIDE DEF awards, frontier
<1>4. /\ \A q \in Range(awards') : Settled(Session, q)'
      /\ \A q \in Range(frontier') : Audits(q)' => Settled(Session, q)'
    BY <1>1, <1>2 DEF AllSettled
<1>5. stage' # "priced"
    OBVIOUS
<1> QED
    BY <1>3, <1>4, <1>5

\* An iteration of the stability audit.
LEMMA StabilityNext ==
    ASSUME EInv, StabilityAudit
    PROVE  EInv'
<1> DEFINE s == StabilityPass(Session)
<1>1. stage = "stability" /\ Loop(s, "final")
    BY DEF StabilityAudit
<1>2. /\ Settings /\ Session \in Sessions /\ policy.framework # "frontier_v1"
      /\ policy.framework \in {"legacy", "targeted_v1", "frontier_v1"}
    BY <1>1, ElicitationAssumption DEF EInv, BookInv, Settings, ProxyClockConfig
<1>3. StableOf(Session, s)
    BY <1>2, SessionFields, StabilityIs
<1> HIDE DEF s
<1>4. PassOf(Session, s) /\ s \in Sessions
    BY <1>3 DEF StableOf, PassOf
<1>5. Queried(s) /\ marks' = s.marks
    BY <1>1 DEF Loop
<1>6. /\ iteration' \in Nat /\ iteration' <= IssuedCount(s.issued)
      /\ \/ stage' = stage /\ s.count > 0
         \/ stage' = "final" /\ s = Session
    BY <1>1, <1>4, LoopIs
<1>7. EngineInv' /\ BookInv' /\ SupportInv'
    <2>1. /\ stage # "clock" /\ stage' \in Phases /\ (stage' = "stability" => policy.framework # "frontier_v1")
          /\ (stage' \in {"witnesses", "winners", "staged"} => policy.framework = "frontier_v1")
        BY <1>1, <1>2, <1>6 DEF Phases
    <2> QED
        BY <1>4, <1>5, <1>6, <2>1, PassKeeps
<1>8. /\ UNCHANGED fixed /\ UNCHANGED <<pc, responses, revealed, outcome>>
      /\ proxies' = s.proxies /\ issued' = s.issued /\ supplementary' = s.supplementary
    BY <1>5 DEF Queried
<1>9. policy' = policy
    BY <1>8 DEF fixed
<1>10. CorrectedInv'
    <2>1. ASSUME policy.support = "all_atoms"
          PROVE  /\ DOMAIN responses' = {}
                 /\ supplementary' = CurrentBids'
                 /\ Fine(Session, supplementary)'
        <3>1. pc = "done"
            BY <1>1 DEF EInv, EngineInv
        <3>2. DOMAIN responses' = {}
            BY <1>8, <3>1, NoAnswers
        <3>3. supplementary = CurrentBids
            BY <1>2, <2>1, <3>1 DEF EInv, CorrectedInv
        <3>4. Session.supplementary = BidsOf(Session)
            BY <3>3, SessionFields DEF CurrentBids, BidsOf
        <3>5. s.supplementary = BidsOf(s)
            BY <1>3, <2>1, <3>4 DEF StableOf
        <3>6. supplementary' = CurrentBids'
            BY <1>8, <3>5 DEF CurrentBids, BidsOf
        <3>7. Fine(Session, supplementary)'
            BY <1>4, <1>8, <3>5, FineBids, FineNext
        <3> QED
            BY <3>2, <3>6, <3>7
    <2>2. ~Synchronising'
        BY <1>2, <1>9 DEF Synchronising
    <2> QED
        BY <1>9, <2>1, <2>2 DEF CorrectedInv
<1>11. FinalInv'
    <2>1. CASE stage' = stage
        BY <1>1, <2>1 DEF FinalInv
    <2>2. CASE stage' = "final" /\ s = Session
        <3>1. UNCHANGED <<proxies, issued, revealed, supplementary>>
            BY <1>8, <2>2, SessionFields
        <3>2. (policy.framework = "targeted_v1") = (policy.framework # "legacy")
            BY <1>2
        <3>3. /\ AllSettled(Session, Awards(Solve(Seen(Session))))
              /\ AllSettled(Session, Frontier(Seen(Session), Solve(Seen(Session)), policy.framework # "legacy"))
            BY <1>3, <2>2, <3>2 DEF StableOf
        <3> QED
            BY <1>8, <2>2, <3>1, <3>3, EndsSettled DEF AllSettled
    <2> QED
        BY <1>6, <2>1, <2>2
<1> QED
    BY <1>7, <1>10, <1>11 DEF EInv

\* A pass of the frontier audits, at whatever phase it leaves the auction.
LEMMA VerifiedNext ==
    ASSUME EInv, stage \in {"witnesses", "winners", "staged"},
           stage' \in {"winners", "staged", "final"}, NEW s, VerifiedOf(Session, s), Queried(s),
           iteration' \in Nat, iteration' <= IssuedCount(s.issued), marks' = s.marks
    PROVE  EngineInv' /\ BookInv' /\ SupportInv' /\ CorrectedInv'
<1>1. policy.framework = "frontier_v1" /\ Session \in Sessions
    BY DEF EInv, BookInv
<1>2. PassOf(Session, s)
    BY DEF VerifiedOf
<1>3. EngineInv' /\ BookInv' /\ SupportInv'
    <2>1. stage # "clock" /\ stage' \in Phases /\ stage' # "stability"
        BY DEF Phases
    <2> QED
        BY <1>1, <1>2, <2>1, PassKeeps
<1>4. /\ UNCHANGED fixed /\ UNCHANGED <<pc, responses>>
      /\ proxies' = s.proxies /\ supplementary' = s.supplementary
    BY DEF Queried
<1>5. policy' = policy
    BY <1>4 DEF fixed
<1>6. stage # "clock" /\ stage' # "clock" /\ stage' # "witnesses"
    OBVIOUS
<1>7. policy.support = "all_atoms" \/ Synchronising => Fine(Session, supplementary)'
    <2>1. policy.support = "all_atoms" \/ Synchronising => Fine(Session, supplementary)
        BY <1>6 DEF EInv, CorrectedInv
    <2>2. Fine(Session, supplementary) => Fine(s, s.supplementary)
        BY SessionFields DEF VerifiedOf
    <2> QED
        BY <1>4, <2>1, <2>2, FineNext
<1>8. DOMAIN responses' = {}
    <2>1. pc = "done"
        BY <1>6 DEF EInv, EngineInv
    <2> QED
        BY <1>4, <2>1, NoAnswers
<1>9. CorrectedInv'
    <2>1. Synchronising' <=> Synchronising
        BY <1>5 DEF Synchronising, On
    <2> QED
        BY <1>1, <1>5, <1>6, <1>7, <1>8, <2>1 DEF CorrectedInv
<1> QED
    BY <1>3, <1>9

\* The pass over the frozen challengers and witnesses.
LEMMA WitnessesNext ==
    ASSUME EInv, VerifyWitnesses
    PROVE  EInv'
<1> DEFINE s == AuditQueries(Session, FrontierChallengers(Session) \o RevealedWitnesses(Session),
                             "supplementary")
<1>1. /\ stage = "witnesses" /\ stage' = "winners" /\ Queried(s)
      /\ marks' = marks /\ iteration' = iteration
    BY DEF VerifyWitnesses
<1>2. VerifiedOf(Session, s)
    <2>1. Settings /\ Session \in Sessions /\ prices \in [Items -> Nat]
        BY DEF EInv, EngineInv, BookInv, TypeOK
    <2> QED
        BY <2>1, WitnessesPass
<1> HIDE DEF s
<1>3. marks' = s.marks
    BY <1>1, <1>2, SessionFields DEF VerifiedOf
<1>4. iteration' \in Nat /\ iteration' <= IssuedCount(s.issued)
    <2>1. /\ iteration \in Nat /\ iteration <= IssuedCount(issued)
          /\ Session \in Sessions /\ s \in Sessions
        BY <1>2 DEF EInv, BookInv, VerifiedOf, PassOf
    <2>2. issued \in [Bidders -> SUBSET Named] /\ s.issued \in [Bidders -> SUBSET Named]
        BY <2>1, SessionIs, SessionFields
    <2>3. \A i \in Bidders : issued[i] \subseteq s.issued[i]
        BY <1>2, SessionFields DEF VerifiedOf, PassOf, After
    <2>4. /\ IssuedCount(issued) \in Nat /\ IssuedCount(s.issued) \in Nat
          /\ IssuedCount(issued) <= IssuedCount(s.issued)
        BY <2>2, <2>3, IssuedGrows, IssuedWithin
    <2> QED
        BY <1>1, <2>1, <2>4
<1>5. EngineInv' /\ BookInv' /\ SupportInv' /\ CorrectedInv'
    BY <1>1, <1>2, <1>3, <1>4, VerifiedNext
<1>6. FinalInv'
    BY <1>1 DEF FinalInv
<1> QED
    BY <1>5, <1>6 DEF EInv

\* An iteration of the winner closure.
LEMMA WinnersNext ==
    ASSUME EInv, CloseWinners
    PROVE  EInv'
<1> DEFINE s == AuditQueries(Session, Winners(Session), "supplementary")
<1>1. stage = "winners" /\ Loop(s, "staged")
    BY DEF CloseWinners
<1>2. VerifiedOf(Session, s)
    <2>1. Settings /\ Session \in Sessions
        BY DEF EInv, BookInv
    <2> QED
        BY <2>1, WinnersPass
<1> HIDE DEF s
<1>3. Queried(s) /\ marks' = s.marks
    BY <1>1 DEF Loop
<1>4. PassOf(Session, s)
    BY <1>2 DEF VerifiedOf
<1>5. iteration' \in Nat /\ iteration' <= IssuedCount(s.issued) /\ stage' \in {"winners", "staged"}
    BY <1>1, <1>4, LoopIs
<1>6. EngineInv' /\ BookInv' /\ SupportInv' /\ CorrectedInv'
    BY <1>1, <1>2, <1>3, <1>5, VerifiedNext
<1>7. FinalInv'
    BY <1>5 DEF FinalInv
<1> QED
    BY <1>6, <1>7 DEF EInv

\* An iteration of the staged closure.
LEMMA StagedNext ==
    ASSUME EInv, CloseStaged
    PROVE  EInv'
<1> DEFINE t == AuditQueries(Session, RevealedWitnesses(Session), "supplementary")
           s == AuditQueries(t, Winners(t), "supplementary")
<1>1. stage = "staged" /\ Loop(s, "final")
    BY DEF CloseStaged
<1>2. Settings /\ Session \in Sessions /\ policy.framework = "frontier_v1"
    BY <1>1 DEF EInv, BookInv
<1>3. /\ VerifiedOf(Session, s)
      /\ s.count = 0 => /\ AllSettled(Session, RevealedWitnesses(Session))
                        /\ AllSettled(Session, Awards(Solve(Seen(Session))))
    BY <1>2, StagedPass, SessionFields
<1> HIDE DEF s, t
<1>4. Queried(s) /\ marks' = s.marks
    BY <1>1 DEF Loop
<1>5. PassOf(Session, s)
    BY <1>3 DEF VerifiedOf
<1>6. /\ iteration' \in Nat /\ iteration' <= IssuedCount(s.issued)
      /\ \/ stage' = stage /\ s.count > 0
         \/ stage' = "final" /\ s = Session
    BY <1>1, <1>5, LoopIs
<1>7. EngineInv' /\ BookInv' /\ SupportInv' /\ CorrectedInv'
    BY <1>1, <1>3, <1>4, <1>6, VerifiedNext
<1>8. FinalInv'
    <2>1. CASE stage' = stage
        BY <1>1, <2>1 DEF FinalInv
    <2>2. CASE stage' = "final" /\ s = Session
        <3>1. UNCHANGED fixed /\ UNCHANGED <<proxies, issued, revealed, supplementary>>
            BY <1>4, <2>2, SessionFields DEF Queried
        <3>2. /\ AllSettled(Session, RevealedWitnesses(Session))
              /\ AllSettled(Session, Awards(Solve(Seen(Session))))
            BY <1>3, <2>2, SessionFields
        <3>3. (policy.framework # "legacy") = TRUE
            BY <1>2
        <3>4. ASSUME NEW q \in Range(Frontier(Seen(Session), Solve(Seen(Session)), policy.framework # "legacy")),
                     Audits(q)
              PROVE  Settled(Session, q)
            <4>1. q \in Range(Frontier(Seen(Session), Solve(Seen(Session)), TRUE))
                BY <3>3
            <4>2. q[2] \in DOMAIN Session.revealed[q[1]]
                BY <1>2, <3>4, SessionFields DEF Audits
            <4>3. q \in Range(RevealedWitnesses(Session))
                BY <1>2, <4>1, <4>2, RevealedWitnessesAre
            <4> QED
                BY <3>2, <4>3 DEF AllSettled
        <3> QED
            BY <2>2, <3>1, <3>2, <3>4, EndsSettled
    <2> QED
        BY <1>6, <2>1, <2>2
<1> QED
    BY <1>7, <1>8 DEF EInv

\* Pricing changes nothing.
LEMMA PricedNext ==
    ASSUME EInv, Price
    PROVE  EInv'
<1>1. /\ stage = "final" /\ stage' = "priced" /\ outcome' = Solve(supplementary)
      /\ UNCHANGED <<vars, fixed, proxies, issued, oracleVars, marks, revealed, checked,
                     previous, iteration>>
    BY DEF Price
<1>2. /\ UNCHANGED <<pc, turn, round, prices, responses, history, supplementary, provisional>>
      /\ UNCHANGED fixed /\ UNCHANGED <<proxies, issued, lastPrimary, marks, revealed, iteration>>
      /\ UNCHANGED <<policy, truth, favoured>>
    BY <1>1 DEF vars, oracleVars, fixed
<1>3. Settings /\ Session \in Sessions
    BY DEF EInv, BookInv
<1>4. /\ supplementary \in [Bidders -> Reports] /\ revealed \in [Bidders -> Reports]
      /\ marks \in [Bidders -> SUBSET Marks]
    BY <1>3, SessionIs, SessionFields
<1>5. EngineInv'
    BY <1>1, <1>2, <1>4, AuditedEngine
<1>6. BookInv'
    <2>1. Settings' /\ (Session \in Sessions)'
        BY <1>2, <1>3, <1>4, SessionFields, SessionNext
    <2>2. IssuedCount(issued)' = IssuedCount(issued)
        BY <1>2 DEF IssuedCount
    <2> QED
        BY <1>1, <1>2, <2>1, <2>2 DEF EInv, BookInv, Phases
<1>7. SupportInv'
    <2>1. stage # "clock" /\ stage' # "clock" /\ UNCHANGED <<responses, history, revealed>>
        BY <1>1, <1>2
    <2>2. SameAtoms(Session, [revealed |-> revealed, supplementary |-> supplementary'])
        BY <1>2, SessionFields DEF SameAtoms
    <2> QED
        BY <1>2, <2>1, <2>2, AuditedSupport
<1>8. CorrectedInv'
    <2>1. Synchronising' <=> Synchronising
        BY <1>2 DEF Synchronising, On
    <2>2. (Fine(Session, supplementary))' <=> Fine(Session, supplementary)
        BY <1>2 DEF Fine, Session
    <2>3. CurrentBids' = CurrentBids
        BY <1>2 DEF CurrentBids
    <2> QED
        BY <1>1, <1>2, <2>1, <2>2, <2>3 DEF EInv, CorrectedInv
<1>9. FinalInv'
    <2> DEFINE awards == Awards(Solve(Seen(Session)))
               frontier == Frontier(Seen(Session), Solve(Seen(Session)), policy.framework # "legacy")
    <2>1. /\ awards' = awards /\ frontier' = frontier
          /\ \A q : Settled(Session, q)' <=> Settled(Session, q)
          /\ \A q : Audits(q)' <=> Audits(q)
        BY <1>2, SettledNext
    <2>2. AllSettled(Session, awards) /\ \A q \in Range(frontier) : Audits(q) => Settled(Session, q)
        BY <1>1 DEF EInv, FinalInv
    <2>3. FinalInv' <=> /\ stage' \in {"final", "priced"} =>
                               /\ \A q \in Range(awards') : Settled(Session, q)'
                               /\ \A q \in Range(frontier') : Audits(q)' => Settled(Session, q)'
                        /\ stage' = "priced" => outcome' = Solve(supplementary)'
        BY DEF FinalInv, AllSettled
    <2>4. Solve(supplementary)' = Solve(supplementary)
        BY <1>2 DEF Solve
    <2> HIDE DEF awards, frontier
    <2>5. /\ \A q \in Range(awards') : Settled(Session, q)'
          /\ \A q \in Range(frontier') : Audits(q)' => Settled(Session, q)'
        BY <2>1, <2>2 DEF AllSettled
    <2> QED
        BY <1>1, <2>3, <2>4, <2>5
<1> QED
    BY <1>5, <1>6, <1>7, <1>8, <1>9 DEF EInv

-----------------------------------------------------------------------------
(* The clock.                                                              *)

\* A sum of nothing is nothing.
LEMMA SumOfNothing ==
    ASSUME NEW S, IsFiniteSet(S), NEW f, \A x \in S : f[x] = 0
    PROVE  SumFunctionOnSet(f, S) = 0
<1> DEFINE Z == {T \in SUBSET S : SumFunctionOnSet(f, T) = 0}
<1>1. ASSUME NEW T \in SUBSET S
      PROVE  /\ SumFunctionOnSet(f, T) \in Int
             /\ T = {} => SumFunctionOnSet(f, T) = 0
             /\ \A x \in T : SumFunctionOnSet(f, T) = f[x] + SumFunctionOnSet(f, T \ {x})
    <2>1. IsFiniteSet(T)
        BY FS_Subset
    <2>2. \A x \in T : f[x] \in Int
        OBVIOUS
    <2> QED
        BY <2>1, <2>2, SumStep
<1>2. {} \in Z
    <2>1. {} \in SUBSET S
        OBVIOUS
    <2> QED
        BY <1>1, <2>1
<1>3. ASSUME NEW T \in SUBSET S, NEW x \in S \ T, T \in Z
      PROVE  T \cup {x} \in Z
    <2> DEFINE U == T \cup {x}
    <2>1. U \in SUBSET S /\ x \in U /\ U \ {x} = T
        OBVIOUS
    <2> HIDE DEF U
    <2>2. SumFunctionOnSet(f, U) = f[x] + SumFunctionOnSet(f, U \ {x})
        BY <1>1, <2>1
    <2>3. SumFunctionOnSet(f, T) = 0 /\ f[x] = 0
        BY <1>3
    <2> QED
        BY <2>1, <2>2, <2>3 DEF U
<1> HIDE DEF Z
<1>4. S \in Z
    BY <1>2, <1>3, SetInduction
<1> QED
    BY <1>4 DEF Z

\* The experiment starts in order.
LEMMA EInvInit ==
    ASSUME EInit
    PROVE  EInv
<1>0. /\ Init /\ Settings /\ stage = "clock" /\ iteration = 0
      /\ proxies \in [Bidders -> {ProvisionalProxy(g, TRUE) : g \in Guesses}]
      /\ issued = [i \in Bidders |-> {}] /\ marks = [i \in Bidders |-> {}]
      /\ revealed = [i \in Bidders |-> NoAtoms]
      /\ lastPrimary = [i \in Bidders |-> NoBundle]
    BY DEF EInit, Settings
<1>1. /\ supplementary = [i \in Bidders |-> NoAtoms]
      /\ responses = [i \in {} |-> NoAtoms] /\ history = <<>> /\ pc = "ask"
    <2>1. MaxRounds # 0
        BY ElicitationAssumption, ConfigAssumption
    <2> QED
        BY <1>0, <2>1 DEF Init
<1>2. EngineInv
    BY <1>0, <1>1, TypeInit, RoundInit DEF EngineInv
<1>3. \A i \in Bidders : /\ proxies[i] \in ProxiesOf(truth[i]) /\ proxies[i] \in ProxyRecords
                         /\ proxies[i].refined = {} /\ proxies[i].count = 0
    <2> SUFFICES ASSUME NEW i \in Bidders
                 PROVE  /\ proxies[i] \in ProxiesOf(truth[i]) /\ proxies[i] \in ProxyRecords
                        /\ proxies[i].refined = {} /\ proxies[i].count = 0
        OBVIOUS
    <2>1. PICK g \in Guesses : proxies[i] = ProvisionalProxy(g, TRUE)
        BY <1>0, <1>1
    <2>2. g \in [Named -> Nat] /\ truth[i] \in [Named -> Nat]
        BY <1>0, <1>1, ElicitationAssumption DEF Settings
    <2>3. /\ proxies[i] \in ProxiesOf(truth[i])
          /\ proxies[i].refined = {} /\ proxies[i].count = 0
        BY <2>1, <2>2, FreshIs
    <2> QED
        BY <2>3 DEF ProxiesOf
<1>4. NoAtoms \in Reports /\ DOMAIN NoAtoms = {}
    BY ReportIs DEF NoAtoms
<1>5. Session \in Sessions
    <2> DEFINE t == [proxies |-> proxies, issued |-> issued, revealed |-> revealed,
                     supplementary |-> supplementary, marks |-> marks, count |-> 0,
                     followup |-> {}]
    <2>1. Session = t
        BY DEF Session
    <2>2. t \in SessionRecords
        <3>1. {} \in Bundles /\ 0 \in Nat
            BY DEF Bundles
        <3>2. proxies \in [Bidders -> ProxyRecords]
            BY <1>0, <1>1, <1>3
        <3>3. /\ issued \in [Bidders -> SUBSET Named] /\ marks \in [Bidders -> SUBSET Marks]
              /\ revealed \in [Bidders -> Reports] /\ supplementary \in [Bidders -> Reports]
            BY <1>0, <1>1, <1>4
        <3> QED
            BY <3>1, <3>2, <3>3 DEF SessionRecords
    <2>3. Capping(proxies)
        <3>1. QueryCount(proxies) = 0
            <4> DEFINE f == [i \in Bidders |-> proxies[i].count]
            <4>1. \A i \in Bidders : f[i] = 0
                BY <1>3
            <4> HIDE DEF f
            <4>2. SumFunctionOnSet(f, Bidders) = 0
                BY <4>1, ListedBidders, SumOfNothing
            <4> QED
                BY <4>2 DEF QueryCount, SumFunction, f
        <3>2. policy.bidderCap \in Nat /\ policy.totalCap \in Nat
            BY <1>0, <1>1, ElicitationAssumption DEF Settings, ProxyClockConfig
        <3> QED
            BY <1>3, <3>1, <3>2 DEF Capping
    <2>4. \A i \in Bidders : proxies[i] \in ProxiesOf(truth[i]) /\ issued[i] \subseteq proxies[i].refined
        BY <1>0, <1>1, <1>3
    <2>5. t.proxies = proxies /\ t.issued = issued
        OBVIOUS
    <2> HIDE DEF t
    <2> QED
        BY <2>1, <2>2, <2>3, <2>4, <2>5 DEF Sessions
<1>6. BookInv
    <2>1. issued \in [Bidders -> SUBSET Named]
        BY <1>0, <1>1
    <2>2. IssuedCount(issued) \in Nat
        BY <2>1, IssuedWithin
    <2> QED
        BY <1>0, <1>1, <1>5, <2>2 DEF BookInv, Phases
<1>7. \A i \in Bidders : Demanded(i) = {} /\ Answered(i) = {}
    BY <1>0, <1>1 DEF Demanded, Answered
<1>8. SupportInv
    BY <1>0, <1>1, <1>4, <1>7 DEF SupportInv
<1>9. CorrectedInv
    <2>1. Fine(Session, revealed)
        BY <1>0, <1>1, <1>4 DEF Fine
    <2> QED
        BY <1>0, <1>1, <2>1 DEF CorrectedInv
<1>10. FinalInv
    BY <1>0, <1>1 DEF FinalInv
<1> QED
    BY <1>2, <1>6, <1>8, <1>9, <1>10 DEF EInv

\* What the audit of a changed allocation asks.
AuditedAllocation ==
    LET now   == Solve(Reported(Session, revealed))
        first == previous = NoOutcome
        awards == Awards(now)
        fresh == Picked(awards, {k \in DOMAIN awards :
                     first \/ awards[k][2] # previous[awards[k][1]]})
        keep  == IF policy.support = "demand_revealed" THEN "revealed" ELSE "nowhere"
    IN  IF now = previous \/ (first /\ ~On("counterfactual")) THEN Session
        ELSE CounterfactualQueries(AuditQueries(Session, fresh, keep))

\* It leaves the books in order, and reveals nothing new.
LEMMA AuditedAllocationIs ==
    ASSUME Settings, Session \in Sessions
    PROVE  LET s == AuditedAllocation
           IN  /\ s \in Sessions /\ After(Session, s)
               /\ s.supplementary = supplementary /\ s.marks = marks
               /\ policy.support = "demand_revealed" => SameAtoms(Session, s)
               /\ Synchronising /\ Fine(Session, revealed) => Fine(s, s.revealed)
<1> DEFINE bids == Reported(Session, revealed)
           now   == Solve(bids)
           first == previous = NoOutcome
           awards == Awards(now)
           ks == {k \in DOMAIN awards : first \/ awards[k][2] # previous[awards[k][1]]}
           fresh == Picked(awards, ks)
           keep  == IF policy.support = "demand_revealed" THEN "revealed" ELSE "nowhere"
           t == AuditQueries(Session, fresh, keep)
           u == CounterfactualQueries(t)
           s == AuditedAllocation
           Ok(x) == /\ x \in Sessions /\ After(Session, x)
                    /\ x.supplementary = supplementary /\ x.marks = marks
                    /\ policy.support = "demand_revealed" => SameAtoms(Session, x)
                    /\ Synchronising /\ Fine(Session, revealed) => Fine(x, x.revealed)
<1>1. s = IF now = previous \/ (first /\ ~On("counterfactual")) THEN Session ELSE u
    BY DEF AuditedAllocation
<1>2. Ok(Session)
    BY SessionFields, AfterOrders DEF SameAtoms
<1>3. revealed \in [Bidders -> Reports]
    BY SessionIs, SessionFields
<1>4. bids \in [Bidders -> Reports] /\ (policy.support = "demand_revealed" => bids = revealed)
    BY <1>3, ReportedIs
<1> HIDE DEF bids, keep, s
<1>5. awards \in Seq(AtomPairs(bids))
    <2>1. Bidders \in SUBSET Bidders
        OBVIOUS
    <2> QED
        BY <1>4, <2>1, SolvedAwards
<1> HIDE DEF awards
<1>6. fresh \in Seq(AtomPairs(bids))
    <2>1. ks \in SUBSET DOMAIN awards
        OBVIOUS
    <2> HIDE DEF ks
    <2> QED
        BY <1>5, <2>1, PickedStays
<1> HIDE DEF fresh
<1>7. /\ fresh \in Seq(Pairs)
      /\ \A k \in DOMAIN fresh :
            fresh[k] \in Pairs /\ fresh[k][1] \in Bidders /\ fresh[k][2] \in DOMAIN bids[fresh[k][1]]
    BY <1>6, AtomPairsAre
<1>8. QueriedAll(Session, t, fresh, keep)
    BY <1>7, AuditQueriesAre
<1> HIDE DEF t
<1>9. Kept(Session, t, keep) /\ t \in Sessions
    BY <1>8 DEF QueriedAll, Kept
<1>10. Kept(t, u, "nowhere") /\ (~On("counterfactual") => u = t)
    BY <1>9, CounterfactualIs
<1> HIDE DEF u
<1>11. u \in Sessions /\ After(Session, u)
    BY <1>9, <1>10, AfterOrders DEF Kept
<1>12. t.supplementary = supplementary /\ t.marks = marks
    BY <1>9, SessionFields DEF Kept, keep
<1>13. u.supplementary = supplementary /\ u.marks = marks /\ u.revealed = t.revealed
    BY <1>10, <1>12 DEF Kept
<1>14. ASSUME policy.support = "demand_revealed"
       PROVE  SameAtoms(Session, u)
    <2>1. keep = "revealed" /\ bids = revealed
        BY <1>4, <1>14 DEF keep
    <2>2. \A k \in DOMAIN fresh : Within(Session, fresh[k], keep)
        BY <1>7, <2>1, SessionFields DEF Within
    <2>3. SameAtoms(Session, t)
        BY <1>8, <2>2 DEF QueriedAll
    <2> QED
        BY <1>12, <1>13, <2>3 DEF SameAtoms
<1>15. ASSUME Synchronising, Fine(Session, revealed)
       PROVE  Fine(u, u.revealed)
    <2>1. u = t /\ keep = "revealed"
        BY <1>10, <1>15 DEF Synchronising, keep
    <2> QED
        BY <1>9, <1>15, <2>1, SessionFields DEF Kept
<1>16. Ok(u)
    BY <1>11, <1>13, <1>14, <1>15
<1>17. s = Session \/ s = u
    BY <1>1
<1>18. Ok(s)
    <2> HIDE DEF Ok
    <2> QED
        BY <1>2, <1>16, <1>17
<1> QED
    BY <1>18 DEF s

\* Issuing more events leaves the loops room.
LEMMA IterationsLeft ==
    ASSUME EInv, NEW s \in Sessions, After(Session, s)
    PROVE  iteration \in Nat /\ iteration <= IssuedCount(s.issued)
<1>1. Session \in Sessions /\ iteration \in Nat /\ iteration <= IssuedCount(issued)
    BY DEF EInv, BookInv
<1>2. issued \in [Bidders -> SUBSET Named] /\ s.issued \in [Bidders -> SUBSET Named]
    BY <1>1, SessionIs, SessionFields
<1>3. \A i \in Bidders : issued[i] \subseteq s.issued[i]
    BY SessionFields DEF After
<1>4. /\ IssuedCount(issued) \in Nat /\ IssuedCount(s.issued) \in Nat
      /\ IssuedCount(issued) <= IssuedCount(s.issued)
    BY <1>2, <1>3, IssuedGrows, IssuedWithin
<1> QED
    BY <1>1, <1>4

\* The audit of the allocation between rounds.
LEMMA AuditAllocationNext ==
    ASSUME EInv, AuditAllocation
    PROVE  EInv'
<1> DEFINE s == AuditedAllocation
<1>1. /\ pc = "ask" /\ turn = 1
      /\ proxies' = s.proxies /\ issued' = s.issued /\ revealed' = s.revealed
      /\ UNCHANGED <<vars, fixed, stage, oracleVars, marks, iteration, outcome>>
    BY DEF AuditAllocation, AuditedAllocation
<1>2. /\ UNCHANGED <<pc, turn, round, prices, responses, history, supplementary, provisional>>
      /\ UNCHANGED fixed /\ UNCHANGED <<lastPrimary, marks, iteration, stage>>
      /\ policy' = policy
    BY <1>1 DEF vars, oracleVars, fixed
<1>3. Settings /\ Session \in Sessions /\ TypeOK /\ RoundInv /\ stage = "clock"
    BY <1>1 DEF EInv, BookInv, EngineInv
<1>4. /\ s \in Sessions /\ After(Session, s)
      /\ s.supplementary = supplementary /\ s.marks = marks
      /\ policy.support = "demand_revealed" => SameAtoms(Session, s)
      /\ Synchronising /\ Fine(Session, revealed) => Fine(s, s.revealed)
    BY <1>3, AuditedAllocationIs
<1> HIDE DEF s
<1>5. /\ s.revealed \in [Bidders -> Reports] /\ supplementary \in [Bidders -> Reports]
      /\ marks \in [Bidders -> SUBSET Marks]
    BY <1>3, <1>4, SessionIs, SessionFields
<1>6. EngineInv'
    BY <1>2, <1>3 DEF EngineInv, TypeOK, RoundInv, Cleared, LastDemands
<1>7. BookInv'
    <2>1. Settings' /\ (Session \in Sessions)'
        BY <1>1, <1>2, <1>3, <1>4, <1>5, SessionNext
    <2>2. iteration \in Nat /\ iteration <= IssuedCount(s.issued)
        BY <1>4, IterationsLeft
    <2>3. IssuedCount(issued)' = IssuedCount(s.issued)
        BY <1>1 DEF IssuedCount
    <2>4. lastPrimary \in [Bidders -> Named \cup {NoBundle}]
        BY DEF EInv, BookInv
    <2> QED
        BY <1>2, <1>3, <2>1, <2>2, <2>3, <2>4 DEF BookInv
<1>8. SupportInv'
    <2>1. \A i \in Bidders : Demanded(i)' = Demanded(i) /\ Answered(i)' = Answered(i)
        BY <1>2 DEF Demanded, Answered
    <2>2. policy.support = "demand_revealed" =>
              \A i \in Bidders : DOMAIN s.revealed[i] = DOMAIN revealed[i]
        BY <1>4, SessionFields DEF SameAtoms
    <2> QED
        BY <1>1, <1>2, <1>3, <2>1, <2>2 DEF EInv, SupportInv
<1>9. CorrectedInv'
    <2>1. DOMAIN responses' = {}
        BY <1>1, <1>2, NoAnswers
    <2>2. Synchronising' <=> Synchronising
        BY <1>2 DEF Synchronising, On
    <2>3. Synchronising => Fine(s, s.revealed)
        BY <1>3, <1>4 DEF EInv, CorrectedInv
    <2>4. Fine(s, s.revealed) => Fine(Session, revealed)'
        <3>1. truth' = truth
            BY <1>2 DEF fixed
        <3> QED
            BY <1>1, <3>1 DEF Fine, Session
    <2> QED
        BY <1>1, <1>2, <1>3, <2>1, <2>2, <2>3, <2>4 DEF CorrectedInv
<1>10. FinalInv'
    BY <1>2, <1>3 DEF FinalInv
<1> QED
    BY <1>6, <1>7, <1>8, <1>9, <1>10 DEF EInv

\* Nothing happens.
LEMMA EStutter ==
    ASSUME EInv, UNCHANGED evars
    PROVE  EInv'
<1>1. /\ UNCHANGED <<pc, turn, round, prices, responses, history, supplementary, provisional>>
      /\ UNCHANGED fixed /\ UNCHANGED <<policy, truth, favoured>>
      /\ UNCHANGED <<proxies, issued, lastPrimary, marks, revealed, iteration, stage, outcome>>
    BY DEF evars, vars, fixed
<1>2. Session' = Session
    BY <1>1 DEF Session
<1>3. EngineInv'
    BY <1>1 DEF EInv, EngineInv, TypeOK, RoundInv, Cleared, LastDemands
<1>4. BookInv'
    <2>1. Settings' /\ (Session \in Sessions)'
        <3>1. /\ Settings /\ Session \in Sessions
              /\ revealed \in [Bidders -> Reports] /\ supplementary \in [Bidders -> Reports]
              /\ marks \in [Bidders -> SUBSET Marks]
            BY SessionIs, SessionFields DEF EInv, BookInv
        <3> QED
            BY <1>1, <3>1, SessionNext, SessionFields
    <2>2. IssuedCount(issued)' = IssuedCount(issued)
        BY <1>1 DEF IssuedCount
    <2> QED
        BY <1>1, <2>1, <2>2 DEF EInv, BookInv
<1>5. SupportInv'
    <2>1. \A i \in Bidders : Demanded(i)' = Demanded(i) /\ Answered(i)' = Answered(i)
        BY <1>1 DEF Demanded, Answered
    <2> QED
        BY <1>1, <2>1 DEF EInv, SupportInv, On
<1>6. CorrectedInv'
    <2>1. Synchronising' <=> Synchronising
        BY <1>1 DEF Synchronising, On
    <2>2. /\ (Fine(Session, supplementary))' <=> Fine(Session, supplementary)
          /\ (Fine(Session, revealed))' <=> Fine(Session, revealed)
        BY <1>1, <1>2 DEF Fine
    <2>3. CurrentBids' = CurrentBids
        BY <1>1 DEF CurrentBids
    <2>4. CASE stage = "clock"
        BY <1>1, <2>1, <2>2, <2>3, <2>4 DEF EInv, CorrectedInv
    <2>5. CASE stage # "clock"
        BY <1>1, <2>1, <2>2, <2>3, <2>5 DEF EInv, CorrectedInv
    <2> QED
        BY <2>4, <2>5
<1>7. FinalInv'
    <2> DEFINE awards == Awards(Solve(Seen(Session)))
               frontier == Frontier(Seen(Session), Solve(Seen(Session)), policy.framework # "legacy")
    <2>1. /\ awards' = awards /\ frontier' = frontier
          /\ \A q : Settled(Session, q)' <=> Settled(Session, q)
          /\ \A q : Audits(q)' <=> Audits(q)
        BY <1>1, SettledNext
    <2>2. FinalInv <=> /\ stage \in {"final", "priced"} =>
                              /\ \A q \in Range(awards) : Settled(Session, q)
                              /\ \A q \in Range(frontier) : Audits(q) => Settled(Session, q)
                       /\ stage = "priced" => outcome = Solve(supplementary)
        BY DEF FinalInv, AllSettled
    <2>3. FinalInv' <=> /\ stage' \in {"final", "priced"} =>
                               /\ \A q \in Range(awards') : Settled(Session, q)'
                               /\ \A q \in Range(frontier') : Audits(q)' => Settled(Session, q)'
                        /\ stage' = "priced" => outcome' = Solve(supplementary)'
        BY DEF FinalInv, AllSettled
    <2>4. Solve(supplementary)' = Solve(supplementary)
        BY <1>1 DEF Solve
    <2> HIDE DEF awards, frontier
    <2> QED
        BY <1>1, <2>1, <2>2, <2>3, <2>4 DEF EInv
<1> QED
    BY <1>3, <1>4, <1>5, <1>6, <1>7 DEF EInv

\* What a bidder demands of its bid.
DemandedOf(full) == Restrict(full.atoms, Range(full.primaries))

\* What the response tells the clock.
ToldOf(full) ==
    IF policy.support = "demand_revealed" THEN [full EXCEPT !.atoms = DemandedOf(full)] ELSE full

\* The answer of a bidder is a response, and what it demands is part of its bid.
LEMMA AnswerIs ==
    ASSUME NEW bid \in [Named -> Nat], prices \in [Items -> Nat],
           NEW full, full = DemandAtPrices(bid, prices)
    PROVE  /\ full.primary \in Named \cup {NoBundle} /\ full.atoms = bid
           /\ DemandedOf(full) \in Reports
           /\ DOMAIN DemandedOf(full) = Range(DemandList(full))
           /\ \A b \in DOMAIN DemandedOf(full) : b \in Named /\ DemandedOf(full)[b] = bid[b]
           /\ IsResponse(ToldOf(full)) /\ DemandList(ToldOf(full)) = DemandList(full)
           /\ policy.support = "demand_revealed" => ToldOf(full).atoms = DemandedOf(full)
           /\ policy.support # "demand_revealed" => ToldOf(full).atoms = bid
<1> DEFINE best == Ranked(TopK, bid, prices, Wanted(bid, prices))
           demanded == DemandedOf(full)
           told == ToldOf(full)
<1>1. IsTable(bid) /\ DOMAIN bid = Named
    BY DEF IsTable, Named
<1>2. /\ IsResponse(full) /\ full.atoms = bid
      /\ DemandList(full) = best /\ best \in Seq(Wanted(bid, prices))
    BY <1>1, TruthfulDemand
<1>3. /\ full = [primaries |-> best, primary |-> IF best = <<>> THEN NoBundle ELSE best[1], atoms |-> bid]
      /\ full.primaries = best
    BY DEF DemandAtPrices
<1> HIDE DEF best
<1>4. Wanted(bid, prices) \subseteq Named
    BY <1>1 DEF Wanted
<1>5. best \in Seq(Named) /\ Range(best) \subseteq Named /\ (best # <<>> => best[1] \in Named)
    <2>1. best \in Seq(Named)
        BY <1>2, <1>4
    <2>2. Range(best) \subseteq Named
        BY <2>1 DEF Range
    <2> QED
        BY <2>1, <2>2
<1>6. full.primary \in Named \cup {NoBundle}
    BY <1>3, <1>5
<1>7. demanded = [b \in Range(best) |-> bid[b]]
    BY <1>2, <1>3 DEF DemandedOf, Restrict
<1> HIDE DEF demanded
<1>8. /\ demanded \in Reports /\ DOMAIN demanded = Range(DemandList(full))
      /\ \A b \in DOMAIN demanded : b \in Named /\ demanded[b] = bid[b] /\ demanded[b] \in Nat
    <2>1. DOMAIN demanded = Range(best) /\ demanded \in [Range(best) -> Nat]
        BY <1>5, <1>7
    <2>2. demanded \in Reports
        BY <1>5, <2>1, ReportIs
    <2> QED
        BY <1>2, <1>5, <1>7, <2>1, <2>2
<1>9. CASE policy.support = "demand_revealed"
    <2>1. told = [primaries |-> best, primary |-> full.primary, atoms |-> demanded]
        BY <1>3, <1>9 DEF ToldOf, demanded
    <2> HIDE DEF told
    <2>2. told.primaries = full.primaries /\ told.primary = full.primary /\ told.atoms = demanded
        BY <1>3, <2>1
    <2>3. IsResponse(told)
        <3>1. DOMAIN demanded \subseteq Bundles
            BY <1>8, NamedFacts
        <3> QED
            BY <1>2, <1>8, <2>2, <3>1 DEF IsResponse
    <2>4. DemandList(told) = DemandList(full)
        BY <2>2 DEF DemandList
    <2> QED
        BY <1>2, <1>6, <1>8, <1>9, <2>2, <2>3, <2>4 DEF told, demanded
<1>10. CASE policy.support # "demand_revealed"
    <2>1. told = full
        BY <1>10 DEF ToldOf
    <2> QED
        BY <1>2, <1>6, <1>8, <1>10, <2>1 DEF demanded
<1> QED
    BY <1>9, <1>10

\* What was recorded last counts.
LEMMA RecordedIs ==
    ASSUME NEW new \in Reports, NEW old \in Reports
    PROVE  /\ Recorded(old, new) \in Reports
           /\ DOMAIN Recorded(old, new) = DOMAIN old \cup DOMAIN new
           /\ \A b \in DOMAIN new : Recorded(old, new)[b] = new[b]
           /\ \A b \in DOMAIN old \ DOMAIN new : Recorded(old, new)[b] = old[b]
<1> DEFINE both == Recorded(old, new)
<1>1. /\ new \in [DOMAIN new -> Nat] /\ DOMAIN new \in SUBSET Named
      /\ old \in [DOMAIN old -> Nat] /\ DOMAIN old \in SUBSET Named
    BY ReportIs
<1>2. (DOMAIN old \cup DOMAIN new) \ {{}} = DOMAIN old \cup DOMAIN new
    BY <1>1, NamedFacts
<1>3. both = [b \in DOMAIN old \cup DOMAIN new |-> IF b \in DOMAIN new THEN new[b] ELSE old[b]]
    BY <1>2 DEF Recorded
<1> HIDE DEF both
<1>4. both \in [DOMAIN both -> Nat] /\ DOMAIN both \in SUBSET Named
    BY <1>1, <1>3
<1>5. both \in Reports
    BY <1>4, ReportIs
<1> QED
    BY <1>3, <1>5 DEF both

\* A bidder answers from the bid its events have left.
LEMMA ElicitNext ==
    ASSUME EInv, Elicit
    PROVE  EInv'
<1>1. turn <= Len(Order) /\ pc = "ask" /\ TypeOK
    BY DEF Elicit, RespondRefined, Respond, Answer, EInv, EngineInv
<1>0. PICK i \in Bidders : i = Order[turn] /\ i \notin DOMAIN responses
    <2>1. turn \in 1..Len(Order) /\ \A j, k \in 1..Len(Order) : Order[j] = Order[k] => j = k
        BY <1>1, BiddersAssumption DEF TypeOK
    <2>2. DOMAIN responses = {Order[k] : k \in {n \in 1..Len(Order) : n < turn /\ pc = "ask"}}
        BY <1>1 DEF TypeOK
    <2> QED
        BY <2>1, <2>2, ListedBidders
<1> DEFINE s == Questioned(i, View(i))
           bid == s.proxies[i].bid
           full == DemandAtPrices(bid, prices)
           new == DemandedOf(full)
           told == ToldOf(full)
<1>2. /\ Answer(told)
      /\ lastPrimary' = [lastPrimary EXCEPT ![i] = full.primary]
      /\ revealed' = [revealed EXCEPT ![i] = Recorded(@, new)]
      /\ proxies' = s.proxies /\ issued' = s.issued /\ marks' = s.marks
      /\ UNCHANGED <<fixed, stage, checked, previous, iteration, outcome>>
    BY <1>0 DEF Elicit, RespondRefined, Respond, ToldOf, DemandedOf
<1>3. /\ pc = "ask" /\ UNCHANGED <<pc, history, supplementary, prices>>
      /\ responses' = [j \in DOMAIN responses \cup {i} |-> IF j = i THEN told ELSE responses[j]]
    BY <1>0, <1>2 DEF Answer
<1>4. stage = "clock" /\ TypeOK /\ RoundInv /\ Settings /\ Session \in Sessions
    BY <1>3 DEF EInv, EngineInv, BookInv
<1>5. UNCHANGED fixed /\ policy' = policy /\ stage' = "clock" /\ iteration' = iteration
    BY <1>2, <1>4 DEF fixed
<1>6. i \in Bidders /\ i \notin DOMAIN responses
    BY <1>0
<1> HIDE DEF s
<1>7. Asked
    BY <1>4 DEF Asked, TypeOK, EInv, BookInv
<1>8. RefinedOf(Session, s, i)
    BY <1>6, <1>7, ViewIs, QuestionedIs DEF s
<1>9. /\ s \in Sessions /\ After(Session, s)
      /\ s.revealed = revealed /\ s.supplementary = supplementary
      /\ \A j \in Bidders \ {i} : s.proxies[j] = proxies[j]
    BY <1>8, SessionFields DEF RefinedOf
<1>10. bid \in [Named -> Nat]
    BY <1>6, <1>9, SessionIs, ProxyIs
<1> HIDE DEF bid
<1>11. /\ full.primary \in Named \cup {NoBundle} /\ full.atoms = bid
       /\ new \in Reports
       /\ DOMAIN new = Range(DemandList(full))
       /\ \A b \in DOMAIN new : b \in Named /\ new[b] = bid[b]
       /\ IsResponse(told) /\ DemandList(told) = DemandList(full)
       /\ policy.support = "demand_revealed" => told.atoms = new
       /\ policy.support # "demand_revealed" => told.atoms = bid
    <2>1. prices \in [Items -> Nat] /\ full = DemandAtPrices(bid, prices)
        BY <1>4 DEF TypeOK
    <2> HIDE DEF full
    <2> QED
        BY <1>10, <2>1, AnswerIs
<1> HIDE DEF full, new, told
<1>12. revealed \in [Bidders -> Reports] /\ supplementary \in [Bidders -> Reports]
    BY <1>4, SessionIs, SessionFields
<1>13. /\ revealed' \in [Bidders -> Reports]
       /\ DOMAIN revealed'[i] = DOMAIN revealed[i] \cup DOMAIN new
       /\ \A b \in DOMAIN new : revealed'[i][b] = new[b]
       /\ \A b \in DOMAIN revealed[i] \ DOMAIN new : revealed'[i][b] = revealed[i][b]
       /\ \A j \in Bidders \ {i} : revealed'[j] = revealed[j]
    <2> DEFINE both == Recorded(revealed[i], new)
    <2>1. /\ both \in Reports /\ DOMAIN both = DOMAIN revealed[i] \cup DOMAIN new
          /\ \A b \in DOMAIN new : both[b] = new[b]
          /\ \A b \in DOMAIN revealed[i] \ DOMAIN new : both[b] = revealed[i][b]
        <3>1. revealed[i] \in Reports
            BY <1>6, <1>12
        <3> QED
            BY <1>11, <3>1, RecordedIs
    <2>2. revealed' = [revealed EXCEPT ![i] = both]
        BY <1>2
    <2> HIDE DEF both
    <2> QED
        BY <1>6, <1>12, <2>1, <2>2
<1>14. EngineInv'
    <2>1. EngineStep
        BY <1>2, <1>11 DEF EngineStep
    <2> QED
        BY <1>4, <1>5, <2>1, TypeNext, RoundNext DEF EngineInv
<1>15. BookInv'
    <2>1. s.marks \in [Bidders -> SUBSET Marks]
        BY <1>9, SessionIs
    <2>2. Settings' /\ (Session \in Sessions)'
        BY <1>2, <1>3, <1>4, <1>5, <1>9, <1>12, <1>13, <2>1, SessionNext
    <2>3. iteration \in Nat /\ iteration <= IssuedCount(s.issued)
        BY <1>9, IterationsLeft
    <2>4. IssuedCount(issued)' = IssuedCount(s.issued)
        BY <1>2 DEF IssuedCount
    <2>5. lastPrimary' \in [Bidders -> Named \cup {NoBundle}]
        BY <1>2, <1>11 DEF EInv, BookInv
    <2> QED
        BY <1>5, <2>2, <2>3, <2>4, <2>5 DEF BookInv
<1>16. /\ DOMAIN responses' = DOMAIN responses \cup {i} /\ responses'[i] = told
       /\ \A j \in DOMAIN responses : responses'[j] = responses[j]
    BY <1>3, <1>6
<1>17. SupportInv'
    <2> SUFFICES ASSUME policy.support = "demand_revealed"
                 PROVE  /\ \A j \in Bidders : DOMAIN revealed'[j] = Demanded(j)' \cup Answered(j)'
                        /\ \A j \in DOMAIN responses' :
                              DOMAIN responses'[j].atoms = Range(DemandList(responses'[j]))
                        /\ \A j \in Bidders : DOMAIN supplementary'[j] = Demanded(j)'
        BY <1>5 DEF SupportInv
    <2>1. /\ \A j \in Bidders : DOMAIN revealed[j] = Demanded(j) \cup Answered(j)
          /\ \A j \in DOMAIN responses : DOMAIN responses[j].atoms = Range(DemandList(responses[j]))
          /\ \A j \in Bidders : DOMAIN supplementary[j] = Demanded(j)
        BY <1>4 DEF EInv, SupportInv
    <2>2. \A j \in Bidders : Demanded(j)' = Demanded(j)
        BY <1>3 DEF Demanded
    <2>3. Answered(i) = {} /\ Answered(i)' = Range(DemandList(told))
        BY <1>6, <1>16 DEF Answered
    <2>4. \A j \in Bidders \ {i} : Answered(j)' = Answered(j)
        BY <1>16 DEF Answered
    <2>5. \A j \in Bidders : DOMAIN revealed'[j] = Demanded(j)' \cup Answered(j)'
        <3>1. DOMAIN revealed'[i] = Demanded(i)' \cup Answered(i)'
            BY <1>6, <1>11, <1>13, <2>1, <2>2, <2>3
        <3>2. \A j \in Bidders \ {i} : DOMAIN revealed'[j] = Demanded(j)' \cup Answered(j)'
            BY <1>13, <2>1, <2>2, <2>4
        <3> QED
            BY <3>1, <3>2
    <2>6. \A j \in DOMAIN responses' : DOMAIN responses'[j].atoms = Range(DemandList(responses'[j]))
        BY <1>11, <1>16, <2>1
    <2> QED
        BY <1>3, <2>1, <2>2, <2>5, <2>6
<1>18. CorrectedInv'
    <2>1. ASSUME policy.support = "all_atoms"
          PROVE  \A j \in DOMAIN responses' : responses'[j].atoms = proxies'[j].bid
        <3>1. responses'[i].atoms = proxies'[i].bid
            BY <1>2, <1>11, <1>16, <2>1 DEF bid
        <3>2. \A j \in DOMAIN responses : j \in Bidders /\ responses[j].atoms = proxies[j].bid
            <4>1. DOMAIN responses = {Order[k] : k \in {n \in 1..Len(Order) : n < turn /\ pc = "ask"}}
                BY <1>4 DEF TypeOK
            <4>2. DOMAIN responses \subseteq Bidders
                BY <4>1, ListedBidders
            <4>3. \A j \in DOMAIN responses : responses[j].atoms = proxies[j].bid
                BY <2>1 DEF EInv, CorrectedInv
            <4> QED
                BY <4>2, <4>3
        <3>3. \A j \in DOMAIN responses : proxies'[j] = proxies[j]
            BY <1>2, <1>6, <1>9, <3>2
        <3> QED
            BY <1>16, <3>1, <3>2, <3>3
    <2>2. Synchronising' <=> Synchronising
        BY <1>5 DEF Synchronising, On
    <2>3. ASSUME Synchronising
          PROVE  Fine(Session, revealed)'
        <3>1. s.proxies = proxies
            BY <1>6, <1>7, <2>3, ViewIs, NothingAsked DEF Synchronising, s
        <3>2. Fine(Session, revealed)
            BY <1>4, <2>3 DEF EInv, CorrectedInv
        <3>3. \A j \in Bidders : \A b \in DOMAIN revealed[j] \cap proxies[j].refined :
                  truth[j][b] <= revealed[j][b] /\ revealed[j][b] <= proxies[j].bid[b]
            BY <3>2, SessionFields DEF Fine
        <3>4. ASSUME NEW b \in DOMAIN revealed'[i] \cap proxies[i].refined
              PROVE  truth[i][b] <= revealed'[i][b] /\ revealed'[i][b] <= proxies[i].bid[b]
            <4>1. CASE b \in DOMAIN new
                <5>1. revealed'[i][b] = proxies[i].bid[b]
                    BY <1>11, <1>13, <3>1, <4>1 DEF bid
                <5>2. /\ proxies[i].refined \in SUBSET Named /\ proxies[i].bid \in [Named -> Nat]
                      /\ truth[i][b] <= proxies[i].bid[b]
                    BY <1>4, <1>6, <3>4, BidsAre, ProxyIs
                <5>3. proxies[i].bid[b] \in Nat
                    BY <3>4, <5>2
                <5> QED
                    BY <5>1, <5>2, <5>3
            <4>2. CASE b \notin DOMAIN new
                BY <1>6, <1>13, <3>3, <3>4, <4>2
            <4> QED
                BY <4>1, <4>2
        <3>5. \A j \in Bidders : \A b \in DOMAIN revealed'[j] \cap proxies[j].refined :
                  truth[j][b] <= revealed'[j][b] /\ revealed'[j][b] <= proxies[j].bid[b]
            BY <1>13, <3>3, <3>4
        <3>6. truth' = truth /\ proxies' = proxies
            BY <1>2, <1>5, <3>1 DEF fixed
        <3> QED
            BY <3>5, <3>6 DEF Fine, Session
    <2> QED
        BY <1>3, <1>5, <2>1, <2>2, <2>3 DEF CorrectedInv
<1>19. FinalInv'
    BY <1>5 DEF FinalInv
<1> QED
    BY <1>14, <1>15, <1>17, <1>18, <1>19 DEF EInv

\* The clock's own steps leave the proxies and their books alone.
LEMMA RunKeeps ==
    ASSUME EInv, Run, supplementary' \in [Bidders -> Reports]
    PROVE  /\ UNCHANGED <<fixed, policy, truth, stage, proxies, issued, revealed, iteration>>
           /\ stage = "clock" /\ EngineInv' /\ BookInv' /\ FinalInv'
<1>1. /\ UNCHANGED <<fixed, stage, proxies, issued, oracleVars, marks, revealed, iteration>>
      /\ CloseRound \/ Allocate \/ Return
    BY DEF Run
<1>2. /\ UNCHANGED fixed /\ UNCHANGED <<stage, proxies, issued, lastPrimary, marks, revealed, iteration>>
      /\ policy' = policy /\ truth' = truth
    BY <1>1 DEF oracleVars, fixed
<1>3. stage = "clock" /\ TypeOK /\ RoundInv /\ Settings /\ Session \in Sessions
    BY <1>1 DEF EInv, EngineInv, BookInv, CloseRound, Allocate, Return
<1>4. EngineInv'
    <2>1. EngineStep
        BY <1>1 DEF EngineStep
    <2> QED
        BY <1>2, <1>3, <2>1, TypeNext, RoundNext DEF EngineInv
<1>5. BookInv'
    <2>1. Settings' /\ (Session \in Sessions)'
        <3>1. revealed \in [Bidders -> Reports] /\ marks \in [Bidders -> SUBSET Marks]
            BY <1>3, SessionIs, SessionFields
        <3> QED
            BY <1>2, <1>3, <3>1, SessionNext, SessionFields
    <2>2. IssuedCount(issued)' = IssuedCount(issued)
        BY <1>2 DEF IssuedCount
    <2> QED
        BY <1>2, <1>3, <2>1, <2>2 DEF EInv, BookInv
<1>6. FinalInv'
    BY <1>2, <1>3 DEF FinalInv
<1> QED
    BY <1>2, <1>3, <1>4, <1>5, <1>6

\* The corrections made in the clock stay what they are.
LEMMA CorrectedStays ==
    ASSUME EInv, UNCHANGED <<fixed, policy, truth, stage, proxies, issued, revealed>>,
           stage = "clock", DOMAIN responses' = {},
           policy.support = "all_atoms" /\ pc' # "ask" => supplementary' = CurrentBids
    PROVE  CorrectedInv'
<1>1. Synchronising' <=> Synchronising
    BY DEF Synchronising, On
<1>2. (Fine(Session, revealed))' <=> Fine(Session, revealed)
    BY DEF Fine, Session
<1>3. CurrentBids' = CurrentBids
    BY DEF CurrentBids
<1> QED
    BY <1>1, <1>2, <1>3 DEF EInv, CorrectedInv

\* A round closes.
LEMMA CloseRoundNext ==
    ASSUME EInv, Run, CloseRound
    PROVE  EInv'
<1> DEFINE demands == [i \in Bidders |-> DemandList(responses[i])]
           rec == [prices |-> prices, demands |-> demands]
<1>1. /\ pc = "ask" /\ turn > Len(Order) /\ TypeOK
      /\ history' = Append(history, rec)
      /\ supplementary' = [i \in Bidders |-> Recorded(supplementary[i], responses[i].atoms)]
      /\ responses' = [i \in {} |-> NoAtoms]
    BY DEF CloseRound, EInv, EngineInv
<1>2. DOMAIN responses = Bidders /\ demands \in [Bidders -> Demands] /\ DOMAIN responses' = {}
    BY <1>1, AllAnswered
<1>3. \A i \in Bidders : IsResponse(responses[i])
    BY <1>1, <1>2 DEF TypeOK
<1>4. supplementary' \in [Bidders -> Reports]
    <2> SUFFICES ASSUME NEW i \in Bidders
                 PROVE  Recorded(supplementary[i], responses[i].atoms) \in Reports
        BY <1>1
    <2> DEFINE old == supplementary[i]
               new == responses[i].atoms
    <2>1. /\ DOMAIN old \subseteq Bundles \ {{}} /\ \A b \in DOMAIN old : old[b] \in Nat
          /\ DOMAIN new \subseteq Bundles /\ \A b \in DOMAIN new : new[b] \in Nat
        BY <1>1, <1>3 DEF TypeOK, IsResponse
    <2> HIDE DEF old, new
    <2>2. /\ DOMAIN Recorded(old, new) \subseteq Bundles \ {{}}
          /\ \A b \in DOMAIN Recorded(old, new) : Recorded(old, new)[b] \in Nat
        BY <2>1, RecordedType
    <2>3. Recorded(old, new) = [b \in DOMAIN Recorded(old, new) |-> Recorded(old, new)[b]]
        BY DEF Recorded
    <2>4. Recorded(old, new) \in Reports
        BY <2>2, <2>3, ReportIs DEF Named
    <2> QED
        BY <2>4 DEF old, new
<1>5. /\ UNCHANGED <<fixed, policy, truth, stage, proxies, issued, revealed, iteration>>
      /\ stage = "clock" /\ EngineInv' /\ BookInv' /\ FinalInv'
    BY <1>4, RunKeeps
<1>6. \A i \in Bidders : Demanded(i)' = Demanded(i) \cup Range(demands[i])
    <2>1. rec \in [prices : [Items -> Nat], demands : [Bidders -> Demands]]
        BY <1>1, <1>2 DEF TypeOK
    <2> DEFINE n == Len(history)
    <2>2. rec.demands = demands
        OBVIOUS
    <2> HIDE DEF rec, demands
    <2>3. /\ n \in Nat /\ Len(history') = n + 1
          /\ \A k \in 1..n : history'[k] = history[k]
          /\ history'[n + 1] = rec
        BY <1>1, <2>1, AppendedRound
    <2>4. DOMAIN history = 1..n /\ DOMAIN history' = 1..(n + 1)
        <3>1. history \in Seq([prices : [Items -> Nat], demands : [Bidders -> Demands]])
            BY <1>1 DEF TypeOK
        <3>2. history' \in Seq([prices : [Items -> Nat], demands : [Bidders -> Demands]])
            BY <1>1, <2>1, <3>1
        <3> QED
            BY <2>3, <3>1, <3>2
    <2> HIDE DEF n
    <2>5. 1..(n + 1) = 1..n \cup {n + 1}
        BY <2>3
    <2>6. \A i \in Bidders : \A k \in 1..n : Range(history'[k].demands[i]) = Range(history[k].demands[i])
        BY <2>3
    <2>7. \A i \in Bidders : Range(history'[n + 1].demands[i]) = Range(demands[i])
        BY <2>2, <2>3
    <2> SUFFICES ASSUME NEW i \in Bidders
                 PROVE  Demanded(i)' = Demanded(i) \cup Range(demands[i])
        OBVIOUS
    <2>8. Demanded(i) = UNION {Range(history[k].demands[i]) : k \in 1..n}
        BY <2>4 DEF Demanded
    <2>9. Demanded(i)' = UNION {Range(history'[k].demands[i]) : k \in 1..(n + 1)}
        BY <2>4 DEF Demanded
    <2> QED
        BY <2>5, <2>6, <2>7, <2>8, <2>9
<1>7. SupportInv'
    <2> SUFFICES ASSUME policy.support = "demand_revealed"
                 PROVE  /\ \A i \in Bidders : DOMAIN revealed'[i] = Demanded(i)' \cup Answered(i)'
                        /\ \A i \in DOMAIN responses' :
                              DOMAIN responses'[i].atoms = Range(DemandList(responses'[i]))
                        /\ \A i \in Bidders : DOMAIN supplementary'[i] = Demanded(i)'
        BY <1>5 DEF SupportInv
    <2>1. /\ \A i \in Bidders : DOMAIN revealed[i] = Demanded(i) \cup Answered(i)
          /\ \A i \in DOMAIN responses : DOMAIN responses[i].atoms = Range(DemandList(responses[i]))
          /\ \A i \in Bidders : DOMAIN supplementary[i] = Demanded(i)
        BY <1>5 DEF EInv, SupportInv
    <2>2. \A i \in Bidders : Answered(i) = Range(demands[i]) /\ Answered(i)' = {}
        BY <1>2 DEF Answered
    <2>3. \A i \in Bidders : DOMAIN responses[i].atoms = Range(demands[i])
        BY <1>2, <2>1
    <2>4. \A i \in Bidders : {} \notin DOMAIN revealed[i]
        <3>1. revealed \in [Bidders -> Reports]
            BY SessionIs, SessionFields DEF EInv, BookInv
        <3> QED
            BY <3>1, ReportIs, NamedFacts
    <2> HIDE DEF demands
    <2>5. \A i \in Bidders : DOMAIN revealed'[i] = Demanded(i)' \cup Answered(i)'
        BY <1>5, <1>6, <2>1, <2>2
    <2>6. \A i \in Bidders : DOMAIN supplementary'[i] = Demanded(i)'
        <3> SUFFICES ASSUME NEW i \in Bidders
                     PROVE  DOMAIN supplementary'[i] = Demanded(i)'
            OBVIOUS
        <3>1. DOMAIN supplementary'[i] = (DOMAIN supplementary[i] \cup DOMAIN responses[i].atoms) \ {{}}
            BY <1>1 DEF Recorded
        <3>2. DOMAIN supplementary'[i] = (Demanded(i) \cup Range(demands[i])) \ {{}}
            BY <2>1, <2>3, <3>1
        <3>3. {} \notin Demanded(i) \cup Range(demands[i])
            BY <2>1, <2>2, <2>4
        <3> QED
            BY <1>6, <3>2, <3>3
    <2> QED
        BY <1>2, <2>5, <2>6
<1>8. CorrectedInv'
    <2>1. ASSUME policy.support = "all_atoms"
          PROVE  supplementary' = CurrentBids
        <3>1. \A i \in Bidders : responses[i].atoms = proxies[i].bid
            BY <1>2, <2>1 DEF EInv, CorrectedInv
        <3>2. supplementary \in [Bidders -> Reports] /\ \A i \in Bidders : proxies[i].bid \in [Named -> Nat]
            BY SessionIs, SessionFields, BidsAre DEF EInv, BookInv
        <3>3. \A i \in Bidders : Recorded(supplementary[i], responses[i].atoms) = proxies[i].bid
            BY <3>1, <3>2, RecordedFull
        <3> QED
            BY <1>1, <3>3 DEF CurrentBids
    <2> QED
        BY <1>2, <1>5, <2>1, CorrectedStays
<1> QED
    BY <1>5, <1>7, <1>8 DEF EInv

\* The clock allocates and returns.
LEMMA AllocateNext ==
    ASSUME EInv, Run, Allocate \/ Return
    PROVE  EInv'
<1>1. /\ pc = "allocate" /\ UNCHANGED <<responses, history, supplementary>>
      /\ pc' \in {"allocate", "done"} /\ TypeOK
    BY DEF Allocate, Return, EInv, EngineInv
<1>2. supplementary' \in [Bidders -> Reports]
    BY <1>1, SessionIs, SessionFields DEF EInv, BookInv
<1>3. /\ UNCHANGED <<fixed, policy, truth, stage, proxies, issued, revealed, iteration>>
      /\ stage = "clock" /\ EngineInv' /\ BookInv' /\ FinalInv'
    BY <1>2, RunKeeps
<1>4. SupportInv'
    <2>1. \A i \in Bidders : Demanded(i)' = Demanded(i) /\ Answered(i)' = Answered(i)
        BY <1>1 DEF Demanded, Answered
    <2> QED
        BY <1>1, <1>3, <2>1 DEF EInv, SupportInv
<1>5. CorrectedInv'
    <2>1. DOMAIN responses' = {}
        BY <1>1 DEF TypeOK
    <2>2. policy.support = "all_atoms" => supplementary' = CurrentBids
        BY <1>1, <1>3 DEF EInv, CorrectedInv
    <2> QED
        BY <1>3, <2>1, <2>2, CorrectedStays
<1> QED
    BY <1>3, <1>4, <1>5 DEF EInv

\* The clock ends and the terminal audits start.
LEMMA SynchroniseNext ==
    ASSUME EInv, Synchronise
    PROVE  EInv'
<1>1. /\ pc = "done" /\ stage = "clock"
      /\ stage' = IF policy.framework = "frontier_v1" THEN "witnesses" ELSE "stability"
      /\ supplementary' = IF policy.support = "demand_revealed" /\ policy.driver = "experiment"
                          THEN Synchronised ELSE supplementary
      /\ UNCHANGED <<pc, turn, round, prices, responses, history, provisional>>
      /\ UNCHANGED fixed
      /\ UNCHANGED <<proxies, issued, lastPrimary, marks, revealed, iteration, outcome>>
    BY DEF Synchronise, oracleVars
<1>2. policy' = policy /\ truth' = truth
    BY <1>1 DEF fixed
<1>3. TypeOK /\ RoundInv /\ Settings /\ Session \in Sessions
    BY DEF EInv, EngineInv, BookInv
<1>4. /\ supplementary \in [Bidders -> Reports] /\ revealed \in [Bidders -> Reports]
      /\ marks \in [Bidders -> SUBSET Marks]
    BY <1>3, SessionIs, SessionFields
<1>5. /\ Synchronised \in [Bidders -> Reports]
      /\ \A i \in Bidders :
            /\ DOMAIN Synchronised[i] = DOMAIN supplementary[i] \cup DOMAIN revealed[i]
            /\ \A b \in DOMAIN revealed[i] : Synchronised[i][b] = revealed[i][b]
    <2>1. \A i \in Bidders :
              /\ Recorded(supplementary[i], revealed[i]) \in Reports
              /\ DOMAIN Recorded(supplementary[i], revealed[i])
                    = DOMAIN supplementary[i] \cup DOMAIN revealed[i]
              /\ \A b \in DOMAIN revealed[i] :
                    Recorded(supplementary[i], revealed[i])[b] = revealed[i][b]
        BY <1>4, RecordedIs
    <2> QED
        BY <2>1 DEF Synchronised
<1>6. supplementary' \in [Bidders -> Reports]
    BY <1>1, <1>4, <1>5
<1>7. EngineInv'
    <2>1. /\ DOMAIN supplementary' = Bidders
          /\ \A i \in Bidders : /\ DOMAIN supplementary'[i] \subseteq Bundles \ {{}}
                                /\ \A b \in DOMAIN supplementary'[i] : supplementary'[i][b] \in Nat
        BY <1>6, ReportIs DEF Named
    <2>2. TypeOK'
        BY <1>1, <1>3, <2>1 DEF TypeOK
    <2>3. RoundInv'
        BY <1>1, <1>3 DEF RoundInv, Cleared, LastDemands
    <2> QED
        BY <1>1, <2>2, <2>3 DEF EngineInv
<1>8. BookInv'
    <2>1. Settings' /\ (Session \in Sessions)'
        BY <1>1, <1>3, <1>4, <1>6, SessionNext, SessionFields
    <2>2. IssuedCount(issued)' = IssuedCount(issued)
        BY <1>1 DEF IssuedCount
    <2>3. /\ lastPrimary \in [Bidders -> Named \cup {NoBundle}]
          /\ iteration \in Nat /\ iteration <= IssuedCount(issued)
        BY DEF EInv, BookInv
    <2>4. stage' \in Phases /\ stage' \in {"stability", "witnesses"}
        BY <1>1 DEF Phases
    <2>5. stage' = "stability" <=> policy.framework # "frontier_v1"
        BY <1>1
    <2> QED
        BY <1>1, <1>2, <2>1, <2>2, <2>3, <2>4, <2>5 DEF BookInv
<1>9. DOMAIN responses' = {}
    BY <1>1, <1>3 DEF TypeOK
<1>10. policy.support = "demand_revealed" =>
          /\ \A i \in Bidders : /\ DOMAIN revealed[i] = Demanded(i)
                                /\ DOMAIN supplementary[i] = Demanded(i)
          /\ \A i \in Bidders : DOMAIN supplementary'[i] = Demanded(i)
    <2> SUFFICES ASSUME policy.support = "demand_revealed"
                 PROVE  /\ \A i \in Bidders : /\ DOMAIN revealed[i] = Demanded(i)
                                              /\ DOMAIN supplementary[i] = Demanded(i)
                        /\ \A i \in Bidders : DOMAIN supplementary'[i] = Demanded(i)
        OBVIOUS
    <2>1. \A i \in Bidders : Answered(i) = {}
        BY <1>1, <1>9 DEF Answered
    <2>2. \A i \in Bidders : /\ DOMAIN revealed[i] = Demanded(i)
                             /\ DOMAIN supplementary[i] = Demanded(i)
        BY <1>1, <2>1 DEF EInv, SupportInv
    <2>3. \A i \in Bidders : DOMAIN Synchronised[i] = Demanded(i)
        BY <1>5, <2>2
    <2> QED
        BY <1>1, <2>2, <2>3
<1>11. SupportInv'
    <2>1. \A i \in Bidders : Demanded(i)' = Demanded(i) /\ Answered(i)' = {}
        BY <1>1, <1>9 DEF Demanded, Answered
    <2> QED
        BY <1>1, <1>2, <1>9, <1>10, <2>1 DEF SupportInv
<1>12. Fine(Session, supplementary)' <=> Fine(Session, supplementary')
    BY <1>1, <1>2 DEF Fine, Session
<1>13. CorrectedInv'
    <2>1. ASSUME policy.support = "all_atoms"
          PROVE  supplementary' = CurrentBids' /\ Fine(Session, supplementary')
        <3>1. supplementary' = CurrentBids
            BY <1>1, <2>1 DEF EInv, CorrectedInv
        <3>2. CurrentBids' = CurrentBids /\ CurrentBids = BidsOf(Session)
            BY <1>1, SessionFields DEF CurrentBids, BidsOf
        <3> QED
            BY <1>3, <3>1, <3>2, FineBids
    <2>2. Synchronising' <=> Synchronising
        BY <1>2 DEF Synchronising, On
    <2>3. ASSUME Synchronising
          PROVE  Fine(Session, supplementary')
        <3>1. supplementary' = Synchronised /\ policy.support = "demand_revealed"
            BY <1>1, <2>3 DEF Synchronising
        <3>2. Fine(Session, revealed)
            BY <1>1, <2>3 DEF EInv, CorrectedInv
        <3>3. \A i \in Bidders : DOMAIN Synchronised[i] = DOMAIN revealed[i]
            BY <1>5, <1>10, <3>1
        <3> QED
            BY <1>5, <3>1, <3>2, <3>3 DEF Fine
    <2>4. stage' # "clock"
        BY <1>1
    <2> QED
        BY <1>2, <1>9, <1>12, <2>1, <2>2, <2>3, <2>4 DEF CorrectedInv
<1>14. FinalInv'
    BY <1>1 DEF FinalInv
<1> QED
    BY <1>7, <1>8, <1>11, <1>13, <1>14 DEF EInv

-----------------------------------------------------------------------------
(* The invariant of the elicited clock.                                    *)

\* Every step keeps it.
LEMMA EInvNext ==
    ASSUME EInv, [ENext]_evars
    PROVE  EInv'
<1>1. ASSUME Run
      PROVE  EInv'
    BY <1>1, CloseRoundNext, AllocateNext DEF Run
<1>2. CASE UNCHANGED evars
    BY <1>2, EStutter
<1> QED
    BY <1>1, <1>2, AuditAllocationNext, ElicitNext, SynchroniseNext, StabilityNext,
       WitnessesNext, WinnersNext, StagedNext, PricedNext DEF ENext

\* The books of the elicited clock stay in order.
THEOREM ElicitedClockInvariant == ESpec => []EInv
<1>1. EInit => EInv
    BY EInvInit
<1>2. EInv /\ [ENext]_evars => EInv'
    BY EInvNext
<1> QED
    BY <1>1, <1>2, PTL DEF ESpec

\* What is awarded and exposed in the end was asked about, unless a cap binds.
LEMMA SettledIsVerified ==
    ASSUME EInv, ~Capped, NEW i \in Bidders, NEW b, Settled(Session, <<i, b>>)
    PROVE  b \in proxies[i].refined
<1>1. CapAllows(proxies, i)
    BY DEF Capped
<1>2. b \in issued[i]
    BY <1>1, SessionFields DEF Settled
<1>3. issued[i] \subseteq proxies[i].refined
    BY SessionIs, SessionFields DEF EInv, BookInv
<1> QED
    BY <1>2, <1>3

\* The bids that are priced are the bids the audits look at.
LEMMA PricedIsSeen ==
    ASSUME EInv, stage = "priced",
           policy.framework # "frontier_v1" \/ policy.support = "demand_revealed"
    PROVE  supplementary = Seen(Session)
<1>1. Settings /\ Session \in Sessions /\ pc = "done"
    BY DEF EInv, BookInv, EngineInv
<1>2. policy.support = "demand_revealed" => Seen(Session) = supplementary
    BY <1>1, SeenIs, SessionFields
<1>3. CASE policy.support = "all_atoms"
    <2>1. supplementary = CurrentBids
        BY <1>1, <1>3 DEF EInv, CorrectedInv
    <2>2. Seen(Session) = CurrentBids
        BY <1>3, SessionFields DEF Seen, Reported, CurrentBids
    <2> QED
        BY <2>1, <2>2
<1>4. policy.support \in {"all_atoms", "demand_revealed"}
    BY <1>1, ElicitationAssumption DEF Settings, ProxyClockConfig
<1> QED
    BY <1>2, <1>3, <1>4

\* The awards that are priced were asked about wherever the audits look at the priced
\* bids, proxy_clock_runner.py's closures run to their fixed point.
THEOREM ElicitedAwardsAreVerified == ESpec => []AuditedAwardsAreVerified
<1>1. EInv => AuditedAwardsAreVerified
    <2> SUFFICES ASSUME EInv, stage = "priced", ~Capped,
                        policy.framework # "frontier_v1" \/ policy.support = "demand_revealed",
                        NEW i \in Bidders, outcome[i] # {}
                 PROVE  outcome[i] \in proxies[i].refined
        BY DEF AuditedAwardsAreVerified, AwardsAreVerified
    <2>1. outcome = Solve(Seen(Session))
        BY PricedIsSeen DEF EInv, FinalInv
    <2>2. Range(Awards(Solve(Seen(Session)))) =
              {<<j, Solve(Seen(Session))[j]>> : j \in {k \in Bidders : Solve(Seen(Session))[k] # {}}}
        BY SeenIs DEF EInv, BookInv
    <2>3. <<i, outcome[i]>> \in Range(Awards(Solve(Seen(Session))))
        BY <2>1, <2>2
    <2>4. Settled(Session, <<i, outcome[i]>>)
        BY <2>3 DEF EInv, FinalInv, AllSettled
    <2> QED
        BY <2>4, SettledIsVerified
<1> QED
    BY <1>1, ElicitedClockInvariant, PTL

\* What the removal of a winner exposes was asked about as well.
THEOREM ElicitedCounterfactualsAreVerified == ESpec => []CounterfactualsAreVerified
<1>1. EInv => CounterfactualsAreVerified
    <2> DEFINE exposed == Frontier(Seen(Session), Solve(Seen(Session)), policy.framework # "legacy")
    <2> SUFFICES ASSUME EInv, stage = "priced", ~Capped, NEW k \in DOMAIN exposed,
                        policy.framework # "frontier_v1" \/ exposed[k][2] \in DOMAIN revealed[exposed[k][1]]
                 PROVE  exposed[k][2] \in proxies[exposed[k][1]].refined
        BY SessionFields DEF CounterfactualsAreVerified, Seen
    <2> DEFINE q == exposed[k]
    <2>1. Settings /\ Session \in Sessions /\ (policy.framework # "legacy") \in BOOLEAN
        BY DEF EInv, BookInv
    <2>2. Seen(Session) \in [Bidders -> Reports] /\ exposed \in Seq(AtomPairs(Seen(Session)))
        BY <2>1, SeenIs
    <2>3. Audits(q)
        BY DEF Audits
    <2>4. q \in Range(exposed)
        BY DEF Range
    <2>5. Settled(Session, q)
        BY <2>3, <2>4 DEF EInv, FinalInv
    <2> HIDE DEF exposed
    <2>6. q \in AtomPairs(Seen(Session))
        BY <2>2
    <2> HIDE DEF q
    <2>7. q[1] \in Bidders /\ Settled(Session, <<q[1], q[2]>>)
        <3>1. q[1] \in Bidders
            BY <2>6 DEF AtomPairs, Pairs
        <3>2. q = <<q[1], q[2]>>
            BY <2>6 DEF AtomPairs, Pairs
        <3> QED
            BY <2>5, <3>1, <3>2
    <2>8. q[2] \in proxies[q[1]].refined
        BY <2>7, SettledIsVerified
    <2> QED
        BY <2>8 DEF q
<1> QED
    BY <1>1, ElicitedClockInvariant, PTL

\* Corrections reach the priced bids where every bid is recorded again, and where each
\* query records its own atom.
THEOREM ElicitedCorrectionsReachTheBids == ESpec => []AuditedCorrectionsReachTheBids
<1>1. EInv => AuditedCorrectionsReachTheBids
    <2> SUFFICES ASSUME EInv, stage = "priced",
                        \/ policy.support = "all_atoms"
                        \/ /\ policy.framework = "frontier_v1" /\ policy.driver = "experiment"
                           /\ ~On("top_k") /\ ~On("counterfactual"),
                        NEW i \in Bidders, NEW b \in DOMAIN supplementary[i] \cap proxies[i].refined
                 PROVE  supplementary[i][b] \in truth[i][b]..proxies[i].bid[b]
        BY DEF AuditedCorrectionsReachTheBids, CorrectionsReachTheBids
    <2>1. Settings /\ Session \in Sessions
        BY DEF EInv, BookInv
    <2>2. policy.support \in {"all_atoms", "demand_revealed"}
        BY <2>1, ElicitationAssumption DEF Settings, ProxyClockConfig
    <2>3. policy.support = "all_atoms" \/ Synchronising
        BY <2>2 DEF Synchronising
    <2>4. Fine(Session, supplementary)
        BY <2>3 DEF EInv, CorrectedInv
    <2>5. truth[i][b] <= supplementary[i][b] /\ supplementary[i][b] <= proxies[i].bid[b]
        BY <2>4, SessionFields DEF Fine
    <2>6. supplementary[i] \in Reports /\ proxies[i].refined \in SUBSET Named
        BY <2>1, SessionIs, SessionFields, ProxyIs
    <2>7. supplementary[i][b] \in Nat /\ proxies[i].bid[b] \in Nat /\ truth[i][b] \in Nat
        <3>1. proxies[i].bid \in [Named -> Nat] /\ truth[i] \in [Named -> Nat]
            BY <2>1, BidsAre, ElicitationAssumption DEF Settings
        <3>2. supplementary[i] \in [DOMAIN supplementary[i] -> Nat]
            BY <2>6, ReportIs
        <3> QED
            BY <2>6, <3>1, <3>2
    <2> QED
        BY <2>5, <2>7
<1> QED
    BY <1>1, ElicitedClockInvariant, PTL

\* The mechanism's bids name what was demanded at the posted prices, and nothing else.
THEOREM ElicitedSupportIsWhatWasDemanded == ESpec => []SupportIsWhatWasDemanded
<1>1. EInv => SupportIsWhatWasDemanded
    BY DEF EInv, SupportInv, SupportIsWhatWasDemanded, Demanded
<1> QED
    BY <1>1, ElicitedClockInvariant, PTL

\* A cap is overrun by one query at most, and nobody is asked about a bundle twice.
THEOREM ElicitedCapsOverrunByOne == ESpec => []CapsOverrunByOne
<1>1. EInv => CapsOverrunByOne
    <2> SUFFICES ASSUME EInv
                 PROVE  CapsOverrunByOne
        OBVIOUS
    <2>1. Capping(proxies) /\ \A i \in Bidders : proxies[i].count = Cardinality(proxies[i].refined)
        BY SessionIs, SessionFields, ProxyIs DEF EInv, BookInv
    <2> QED
        BY <2>1 DEF Capping, CapsOverrunByOne
<1> QED
    BY <1>1, ElicitedClockInvariant, PTL

\* A terminal loop that runs out of iterations has nothing left to ask.
THEOREM ElicitedLoopsEndByThemselves == ESpec => []LoopsEndByThemselves
<1>1. EInv => LoopsEndByThemselves
    <2> SUFFICES ASSUME EInv, NEW i \in Bidders, ~(Named \subseteq issued[i])
                 PROVE  iteration + 1 < MaxIterations
        BY DEF LoopsEndByThemselves
    <2>1. Settings /\ Session \in Sessions /\ iteration \in Nat /\ iteration <= IssuedCount(issued)
        BY DEF EInv, BookInv
    <2>2. issued \in [Bidders -> SUBSET Named]
        BY <2>1, SessionIs, SessionFields
    <2>3. IssuedCount(issued) \in Nat /\ EventCount \in Nat /\ IssuedCount(issued) < EventCount
        BY <2>2, IssuedWithin
    <2>4. MaxIterations = 1 + EventCount
        BY <2>1, MaxIterationsIs
    <2> QED
        BY <2>1, <2>3, <2>4
<1> QED
    BY <1>1, ElicitedClockInvariant, PTL

-----------------------------------------------------------------------------
(* The recorder.                                                           *)

\* The recorder only watches: a run it watches is a run of the elicited clock, so that
\* all of the above holds of it.
THEOREM RecorderOnlyWatches == TSpec => ESpec
<1>1. TInit => EInit
    BY DEF TInit
<1>2. [TNext]_tvars => [ENext]_evars
    BY DEF TNext, TAuditAllocation, TElicit, TRun, TAudit, TPrice, ENext, tvars
<1> QED
    BY <1>1, <1>2, PTL DEF TSpec, ESpec

-----------------------------------------------------------------------------
(* What the recorder counts.                                               *)

\* The events of the bidders of a round.
CountOf(rows) == SumFunction([r \in rows |-> Cardinality(r.refined)])

\* Entries about bidders and bundles are counted by bidder: Q has an entry of each
\* bidder, with the bundles of the bidder's entries.
LEMMA CountedByBidder ==
    ASSUME NEW N, IsFiniteSet(N), \A r \in N : r.bidder \in Bidders,
           \A r, q \in N : r.bidder = q.bidder /\ r.bundle = q.bundle => r = q,
           NEW f, NEW Q, Q = {f[i] : i \in Bidders},
           \A i \in Bidders : /\ f[i].bidder = i
                              /\ f[i].refined = {r.bundle : r \in {e \in N : e.bidder = i}}
    PROVE  CountOf(Q) = Cardinality(N) /\ Cardinality(N) \in Nat
<1> DEFINE g == [q \in Q |-> Cardinality(q.refined)]
           part == [T \in SUBSET Bidders |-> {r \in N : r.bidder \in T}]
           Z == {T \in SUBSET Bidders : Cardinality(part[T]) = SumFunctionOnSet(g, {f[i] : i \in T})}
<1>1. CountOf(Q) = SumFunctionOnSet(g, Q)
    BY DEF CountOf, SumFunction
<1>2. part[{}] = {} /\ part[Bidders] = N
    OBVIOUS
<1>3. \A T \in SUBSET Bidders : IsFiniteSet(part[T]) /\ Cardinality(part[T]) \in Nat
    BY FS_Subset, FS_CardinalityType
<1>4. \A x \in Bidders : f[x] \in Q /\ g[f[x]] = Cardinality(part[{x}]) /\ g[f[x]] \in Nat
    <2> SUFFICES ASSUME NEW x \in Bidders
                 PROVE  /\ Cardinality(f[x].refined) = Cardinality(part[{x}])
                        /\ Cardinality(f[x].refined) \in Nat
        OBVIOUS
    <2> DEFINE P == part[{x}]
               R == f[x].refined
               h == [r \in P |-> r.bundle]
    <2>1. IsFiniteSet(P) /\ Cardinality(P) \in Nat
        BY <1>3
    <2>2. R = {r.bundle : r \in P}
        OBVIOUS
    <2>3. \A r, q \in P : r.bundle = q.bundle => r = q
        OBVIOUS
    <2> HIDE DEF P, R
    <2>4. h \in Bijection(P, R)
        BY <2>2, <2>3 DEF Bijection, Injection, Surjection, IsInjective
    <2>5. ExistsBijection(P, R)
        BY <2>4 DEF ExistsBijection
    <2>6. Cardinality(R) = Cardinality(P)
        BY <2>1, <2>5, FS_Bijection
    <2> QED
        BY <2>1, <2>6 DEF P, R
<1>5. {} \in Z
    <2>1. SumFunctionOnSet(g, {}) = 0
        BY SumStep, FS_EmptySet
    <2>2. Cardinality({}) = 0 /\ {f[i] : i \in {}} = {}
        BY FS_EmptySet
    <2> QED
        BY <1>2, <2>1, <2>2
<1>6. ASSUME NEW T \in SUBSET Bidders, NEW x \in Bidders \ T, T \in Z
      PROVE  T \cup {x} \in Z
    <2> DEFINE U == {f[i] : i \in T \cup {x}}
               S == {f[i] : i \in T}
    <2>1. part[T \cup {x}] = part[T] \cup part[{x}] /\ part[T] \cap part[{x}] = {}
        OBVIOUS
    <2>2. /\ IsFiniteSet(part[T]) /\ Cardinality(part[T]) \in Nat
          /\ IsFiniteSet(part[{x}]) /\ Cardinality(part[{x}]) \in Nat
        BY <1>3
    <2>3. /\ f[x] \in U /\ U \ {f[x]} = S
          /\ \A q \in U : \E i \in Bidders : q = f[i]
        BY <1>6
    <2>4. IsFiniteSet(U)
        <3>1. IsFiniteSet(T \cup {x})
            BY ListedBidders, FS_Subset
        <3> QED
            BY <3>1, FiniteImage
    <2>5. \A q \in U : g[q] \in Int
        <3>1. \A i \in Bidders : g[f[i]] \in Nat
            BY <1>4
        <3> HIDE DEF U, g
        <3> QED
            BY <2>3, <3>1
    <2>6. Cardinality(part[T]) = SumFunctionOnSet(g, S)
        BY <1>6
    <2> HIDE DEF part, g, U, S
    <2>7. SumFunctionOnSet(g, U) = g[f[x]] + SumFunctionOnSet(g, S)
        BY <2>3, <2>4, <2>5, SumStep
    <2>8. Cardinality(part[T \cup {x}]) = Cardinality(part[T]) + Cardinality(part[{x}])
        <3> DEFINE A == part[T]
                   B == part[{x}]
                   C == part[T \cup {x}]
        <3>1. /\ IsFiniteSet(A) /\ Cardinality(A) \in Nat /\ IsFiniteSet(B) /\ Cardinality(B) \in Nat
              /\ C = A \cup B /\ A \cap B = {}
            BY <2>1, <2>2
        <3> HIDE DEF A, B, C
        <3>2. Cardinality(A \cup B) = Cardinality(A) + Cardinality(B) - Cardinality(A \cap B)
            BY <3>1, FS_Union
        <3>3. Cardinality(A \cap B) = 0
            BY <3>1, FS_EmptySet
        <3>4. Cardinality(C) = Cardinality(A) + Cardinality(B)
            BY <3>1, <3>2, <3>3
        <3> QED
            BY <3>4 DEF A, B, C
    <2>9. Cardinality(part[T \cup {x}]) = SumFunctionOnSet(g, U)
        BY <1>4, <2>2, <2>6, <2>7, <2>8
    <2> QED
        BY <1>6, <2>9 DEF U
<1> HIDE DEF part, g
<1>7. Bidders \in Z
    <2>1. \A T \in SUBSET Bidders : \A x \in Bidders \ T : T \in Z => T \cup {x} \in Z
        BY <1>6
    <2> HIDE DEF Z
    <2> QED
        BY <1>5, <2>1, ListedBidders, SetInduction
<1>8. Bidders \in SUBSET Bidders
    OBVIOUS
<1> QED
    BY <1>1, <1>2, <1>3, <1>7, <1>8

\* A sequence is one of its own entries.
LEMMA RangesOver ==
    ASSUME NEW S, NEW s \in Seq(S)
    PROVE  s \in Seq(Range(s))
<1>1. DOMAIN s = 1..Len(s) /\ Len(s) \in Nat
    OBVIOUS
<1>2. \A k \in 1..Len(s) : s[k] \in Range(s)
    BY <1>1 DEF Range
<1> QED
    BY <1>1, <1>2

\* A row is appended.
LEMMA AppendedRow ==
    ASSUME NEW rows, rows \in Seq(Range(rows)), NEW row, NEW new, new = Append(rows, row)
    PROVE  /\ new \in Seq(Range(new)) /\ Len(rows) \in Nat /\ Len(new) = Len(rows) + 1
           /\ DOMAIN rows = 1..Len(rows) /\ DOMAIN new = 1..Len(new)
           /\ \A k \in 1..Len(rows) : new[k] = rows[k]
           /\ new[Len(new)] = row /\ Last(new) = row
<1> DEFINE S == Range(rows) \cup {row}
<1>1. rows \in Seq(S)
    OBVIOUS
<1> HIDE DEF S
<1>2. /\ new \in Seq(S) /\ Len(rows) \in Nat /\ Len(new) = Len(rows) + 1
      /\ DOMAIN rows = 1..Len(rows) /\ DOMAIN new = 1..Len(new)
      /\ \A k \in 1..Len(rows) : new[k] = rows[k]
      /\ new[Len(new)] = row
    BY <1>1 DEF S
<1>3. new \in Seq(Range(new))
    BY <1>2, RangesOver
<1> QED
    BY <1>2, <1>3 DEF Last

\* The last row is corrected.
LEMMA CorrectedRow ==
    ASSUME NEW rows, rows \in Seq(Range(rows)), Len(rows) > 0, NEW row, NEW new,
           new = [rows EXCEPT ![Len(rows)] = row]
    PROVE  /\ new \in Seq(Range(new)) /\ Len(rows) \in Nat /\ Len(new) = Len(rows)
           /\ DOMAIN rows = 1..Len(rows) /\ DOMAIN new = 1..Len(rows)
           /\ \A k \in 1..Len(rows) : k # Len(rows) => new[k] = rows[k]
           /\ new[Len(rows)] = row /\ Last(new) = row /\ rows[Len(rows)] = Last(rows)
<1> DEFINE S == Range(rows) \cup {row}
<1>1. rows \in Seq(S) /\ row \in S
    OBVIOUS
<1> HIDE DEF S
<1>2. Len(rows) \in Nat /\ DOMAIN rows = 1..Len(rows) /\ Len(rows) \in DOMAIN rows
    BY <1>1
<1>3. /\ new \in Seq(S) /\ Len(new) = Len(rows) /\ DOMAIN new = 1..Len(rows)
      /\ \A k \in 1..Len(rows) : k # Len(rows) => new[k] = rows[k]
      /\ new[Len(rows)] = row
    BY <1>1, <1>2
<1>4. new \in Seq(Range(new))
    BY <1>3, RangesOver
<1> QED
    BY <1>2, <1>3, <1>4 DEF Last

-----------------------------------------------------------------------------
(* The recorder's invariant.                                               *)

\* Everybody has answered, and the clock is still to record the round.
Closing == pc = "ask" /\ turn > Len(Order)

\* How many rounds the recorder has seen to their end.
Behind == IF Closing THEN Len(history) + 1 ELSE Len(history)

\* The atoms of the clock, those of the round that closes among them.
Mirrored ==
    IF Closing THEN [i \in Bidders |-> Recorded(supplementary[i], responses[i].atoms)]
    ELSE supplementary

\* The recorder mirrors the atoms until the terminal audit asks anything, and again in
\* the end, and has seen what was demanded.
MirrorInv ==
    /\ terminalEvents = {} => mirror = Mirrored
    /\ stage = "clock" => terminalEvents = {}
    /\ stage = "priced" => mirror = supplementary
    /\ DOMAIN seen = Bidders /\ \A i \in Bidders : seen[i] = Demanded(i) \cup Answered(i)

\* What rows are.
IsRow(row) ==
    /\ row = [round |-> row.round, reason |-> row.reason, events |-> row.events,
              queries |-> row.queries, auction |-> row.auction]
    /\ row.events \in Nat

\* Why the clock stops after a round, or that it does not.
StopReason(demands) ==
    IF NoExcess(Excess(demands)) THEN "no_excess_demand"
    ELSE IF round = MaxRounds - 1 THEN "max_rounds_reached" ELSE ""

\* Why the clock stopped, between rounds.
StoppedReason ==
    CASE pc = "ask" -> "" [] pc = "allocate" -> "no_excess_demand"
      [] pc = "done" -> "max_rounds_reached"

\* There is a row for every round behind; the last one tells of the mirror, of the
\* queries made until the terminal audit asks anything and again in the end, and of why
\* the clock stops.
RowInv ==
    /\ roundRows \in Seq(Range(roundRows)) /\ Len(roundRows) = Behind
    /\ \A k \in DOMAIN roundRows : IsRow(roundRows[k])
    /\ roundRows # <<>> => Last(roundRows).auction = Priced(mirror)
    /\ (pc # "ask" \/ Closing) /\ (terminalEvents = {} \/ stage = "priced")
          => Last(roundRows).queries = QueryCount(proxies)
    /\ Closing => Last(roundRows).reason =
                     StopReason([i \in Bidders |-> DemandList(responses[i])])
    /\ stage = "clock" /\ turn = 1 /\ history # <<>> => Last(roundRows).reason = StoppedReason

\* An event about bidder i and bundle b is in a row, is to be answered, or is one of the
\* terminal audit.
Noted(i, b) ==
    \/ \E r \in eventRows : r.bidder = i /\ r.bundle = b
    \/ \E p \in pending : p.event.bidder = i /\ p.event.bundle = b
    \/ \E e \in terminalEvents : e.bidder = i /\ e.bundle = b

\* An event about a bidder and a bundle.
IsEvent(e) ==
    /\ e = [bidder |-> e.bidder, bundle |-> e.bundle]
    /\ e.bidder \in Bidders /\ e.bundle \in Named

\* Events wait for the answers of this round, and end up in rows, once.
LogInv ==
    /\ \A p \in pending : /\ p.round = round /\ IsEvent(p.event)
                          /\ pc = "ask" /\ p.event.bidder \notin DOMAIN responses
    /\ \A e \in terminalEvents : IsEvent(e)
    /\ \A i \in Bidders : \A b \in Named : b \in issued[i] <=> Noted(i, b)
    /\ \A r \in eventRows : r.bidder \in Bidders /\ r.bundle \in Named
    /\ stage # "priced" =>
          \A r \in eventRows : r = EventRow([bidder |-> r.bidder, bundle |-> r.bundle], r.round)
    /\ stage = "priced" => \A e \in terminalEvents :
          \E r \in eventRows : r.bidder = e.bidder /\ r.bundle = e.bundle

\* The events of the bidders in round k.
Counted(k) == CountOf({b \in bidderRows : b.round = k})

\* Every round counts the events of its bidders, the last one those of the terminal audit
\* as well, in the end.
CountInv ==
    /\ \A b \in bidderRows : b.round \in DOMAIN roundRows
    /\ \A k \in DOMAIN roundRows :
          roundRows[k].events = IF stage = "priced" /\ k = Len(history)
                                THEN Counted(k) + Cardinality(terminalEvents) ELSE Counted(k)

RecordInv == MirrorInv /\ RowInv /\ LogInv /\ CountInv

\* What a row says of the auction depends on the atoms only.
LEMMA PricedStays ==
    ASSUME UNCHANGED fixed, NEW atoms, mirror' = atoms
    PROVE  Priced(mirror)' = Priced(atoms)
<1>1. truth' = truth /\ favoured' = favoured
    BY DEF fixed
<1> QED
    BY <1>1 DEF Priced, Solve, TrueWelfare

\* The events of a step.
LEMMA NewlyIs ==
    ASSUME EInv, EInv', \A i \in Bidders : issued[i] \subseteq issued'[i]
    PROVE  /\ \A e \in NewlyIssued : IsEvent(e)
           /\ \A i \in Bidders : \A b \in Named :
                 b \in issued'[i] <=>
                    b \in issued[i] \/ \E e \in NewlyIssued : e.bidder = i /\ e.bundle = b
           /\ NewlyIssued = {} => \A i \in Bidders : issued'[i] = issued[i]
<1>1. issued' \in [Bidders -> SUBSET Named]
    <2>1. (Session \in Sessions)' /\ Session' = [proxies |-> proxies', issued |-> issued',
             revealed |-> revealed', supplementary |-> supplementary', marks |-> marks',
             count |-> 0, followup |-> {}]
        BY DEF EInv, BookInv, Session
    <2>2. Session' \in SessionRecords
        BY <2>1 DEF Sessions
    <2> QED
        BY <2>1, <2>2 DEF SessionRecords
<1>2. \A e : e \in NewlyIssued <=>
                \E i \in Bidders : \E b \in issued'[i] \ issued[i] : e = [bidder |-> i, bundle |-> b]
    BY DEF NewlyIssued
<1>3. \A e \in NewlyIssued : IsEvent(e) /\ e.bundle \in issued'[e.bidder]
    BY <1>1, <1>2 DEF IsEvent
<1>4. \A i \in Bidders : \A b \in issued'[i] \ issued[i] :
          [bidder |-> i, bundle |-> b] \in NewlyIssued
    BY <1>2
<1>5. \A i \in Bidders : \A b \in issued'[i] \ issued[i] :
          \E e \in NewlyIssued : e.bidder = i /\ e.bundle = b
    <2> SUFFICES ASSUME NEW i \in Bidders, NEW b \in issued'[i] \ issued[i]
                 PROVE  \E e \in NewlyIssued : e.bidder = i /\ e.bundle = b
        OBVIOUS
    <2> DEFINE e == [bidder |-> i, bundle |-> b]
    <2>1. e \in NewlyIssued /\ e.bidder = i /\ e.bundle = b
        BY <1>4
    <2> HIDE DEF e
    <2> QED
        BY <2>1
<1>6. ASSUME NEW i \in Bidders, NEW b \in Named
      PROVE  b \in issued'[i] <=>
                b \in issued[i] \/ \E e \in NewlyIssued : e.bidder = i /\ e.bundle = b
    BY <1>3, <1>5
<1>7. ASSUME NewlyIssued = {}, NEW i \in Bidders
      PROVE  issued'[i] = issued[i]
    BY <1>5, <1>7
<1> QED
    BY <1>3, <1>6, <1>7

-----------------------------------------------------------------------------
(* Steps of the clock.                                                     *)

\* The clock has not been stopped, or it has a round behind it; it asks somebody.
LEMMA ClockFacts ==
    ASSUME EInv
    PROVE  /\ Len(Order) \in Nat /\ Len(Order) >= 1 /\ turn \in 1..(Len(Order) + 1)
           /\ Len(history) \in Nat /\ DOMAIN history = 1..Len(history) /\ round \in Nat
           /\ history # <<>> <=> Len(history) > 0
           /\ pc \in {"ask", "allocate", "done"}
           /\ pc = "ask" => stage = "clock" /\ Len(history) = round /\ round < MaxRounds
           /\ pc # "ask" => Len(history) > 0
           /\ Closing => turn # 1
           /\ Closing => DOMAIN responses = Bidders
<1>1. TypeOK /\ RoundInv /\ Settings /\ (stage # "clock" => pc = "done")
    BY DEF EInv, EngineInv, BookInv
<1>2. Len(Order) \in Nat /\ Len(Order) >= 1
    <2>1. favoured \in Bidders
        BY <1>1 DEF Settings
    <2>2. Len(Order) \in Nat /\ DOMAIN Order = 1..Len(Order) /\ \E k \in DOMAIN Order : Order[k] = favoured
        BY <2>1, ListedBidders
    <2> QED
        BY <2>2
<1>3. /\ turn \in 1..(Len(Order) + 1) /\ round \in Nat /\ pc \in {"ask", "allocate", "done"}
      /\ history \in Seq([prices : [Items -> Nat], demands : [Bidders -> Demands]])
    BY <1>1 DEF TypeOK
<1>4. Len(history) \in Nat /\ DOMAIN history = 1..Len(history) /\ (history # <<>> <=> Len(history) > 0)
    BY <1>3
<1>5. pc = "ask" => Len(history) = round /\ round < MaxRounds
    BY <1>1 DEF RoundInv
<1>6. pc # "ask" => Len(history) > 0
    <2>1. Cleared => Len(history) > 0
        BY <1>4 DEF Cleared
    <2>2. MaxRounds \in Nat /\ MaxRounds > 0
        BY ElicitationAssumption, ConfigAssumption
    <2> QED
        BY <1>1, <1>3, <2>1, <2>2 DEF RoundInv
<1>7. Closing => DOMAIN responses = Bidders
    BY <1>1, AllAnswered DEF Closing
<1>8. Closing => turn # 1
    BY <1>2, <1>3 DEF Closing
<1> QED
    BY <1>1, <1>2, <1>3, <1>4, <1>5, <1>6, <1>7, <1>8

\* The counts stay with the rows.
LEMMA CountStays ==
    ASSUME CountInv, UNCHANGED <<roundRows, bidderRows>>, stage # "priced", stage' # "priced"
    PROVE  CountInv'
<1>1. \A k : Counted(k)' = Counted(k)
    BY DEF Counted, CountOf
<1> QED
    BY <1>1 DEF CountInv

\* What was demanded stays as long as nobody answers.
LEMMA SeenStays ==
    ASSUME UNCHANGED <<seen, history, responses>>,
           \A i \in Bidders : seen[i] = Demanded(i) \cup Answered(i)
    PROVE  \A i \in Bidders : seen'[i] = Demanded(i)' \cup Answered(i)'
<1>1. \A i \in Bidders : Demanded(i)' = Demanded(i) /\ Answered(i)' = Answered(i)
    BY DEF Demanded, Answered
<1> QED
    BY <1>1

\* The events of the audit between rounds wait for the answers of their bidders.
LEMMA AuditAllocationRecorded ==
    ASSUME EInv, EInv', RecordInv, Recording, TAuditAllocation
    PROVE  RecordInv'
<1>1. /\ AuditAllocation /\ pc = "ask" /\ turn = 1
      /\ UNCHANGED <<pc, turn, round, responses, history, supplementary, stage>>
      /\ UNCHANGED fixed
      /\ pending' = pending \cup {[round |-> round, event |-> e] : e \in NewlyIssued}
      /\ UNCHANGED <<mirror, roundRows, bidderRows, eventRows, seen, terminalEvents>>
    BY DEF TAuditAllocation, AuditAllocation, vars
<1>2. stage = "clock" /\ ~Closing /\ ~Closing' /\ DOMAIN responses = {}
    BY <1>1, ClockFacts, NoAnswers DEF Closing
<1>3. \A i \in Bidders : issued[i] \subseteq issued'[i]
    <2>1. issued' = AuditedAllocation.issued
        BY <1>1 DEF AuditAllocation, AuditedAllocation
    <2>2. After(Session, AuditedAllocation)
        BY AuditedAllocationIs DEF EInv, BookInv
    <2> QED
        BY <2>1, <2>2, SessionFields DEF After
<1>4. /\ \A e \in NewlyIssued : IsEvent(e)
      /\ \A i \in Bidders : \A b \in Named :
            b \in issued'[i] <=> b \in issued[i] \/ \E e \in NewlyIssued : e.bidder = i /\ e.bundle = b
    BY <1>3, NewlyIs
<1> DEFINE new == NewlyIssued
           asked == {[round |-> round, event |-> e] : e \in new}
<1>5. \A p \in asked : p.round = round /\ p.event \in new
    OBVIOUS
<1>6. \A e \in new : \E p \in asked : p.event = e
    <2> SUFFICES ASSUME NEW e \in new
                 PROVE  \E p \in asked : p.event = e
        OBVIOUS
    <2> DEFINE p == [round |-> round, event |-> e]
    <2>1. p \in asked /\ p.event = e
        OBVIOUS
    <2> HIDE DEF p, asked
    <2> QED
        BY <2>1
<1> HIDE DEF new
<1>7. MirrorInv'
    <2>1. Mirrored' = Mirrored
        BY <1>1, <1>2 DEF Mirrored
    <2> QED
        BY <1>1, <1>2, <2>1, SeenStays DEF RecordInv, MirrorInv
<1>8. RowInv'
    <2>1. Behind' = Behind /\ StoppedReason' = StoppedReason
        BY <1>1, <1>2 DEF Behind, StoppedReason
    <2>2. Priced(mirror)' = Priced(mirror)
        BY <1>1, PricedStays
    <2> QED
        BY <1>1, <1>2, <2>1, <2>2 DEF RecordInv, RowInv, IsRow
<1>9. LogInv'
    <2>1. \A p \in pending' : p \in pending \/ p \in asked
        BY <1>1 DEF new
    <2>2. pending \subseteq pending' /\ asked \subseteq pending'
        BY <1>1 DEF new
    <2> HIDE DEF asked
    <2>3. \A p \in pending' : /\ p.round = round /\ IsEvent(p.event)
                              /\ p.event.bidder \notin DOMAIN responses
        BY <1>2, <1>4, <1>5, <2>1 DEF RecordInv, LogInv, new
    <2>4. ASSUME NEW i \in Bidders, NEW b \in Named
          PROVE  b \in issued'[i] <=> Noted(i, b)'
        <3>1. Noted(i, b)' <=> Noted(i, b) \/ \E e \in new : e.bidder = i /\ e.bundle = b
            BY <1>1, <1>5, <1>6, <2>1, <2>2 DEF Noted
        <3>2. b \in issued[i] <=> Noted(i, b)
            BY DEF RecordInv, LogInv
        <3> QED
            BY <1>4, <3>1, <3>2 DEF new
    <2>5. \A r : (r = EventRow([bidder |-> r.bidder, bundle |-> r.bundle], r.round))' <=>
                 r = EventRow([bidder |-> r.bidder, bundle |-> r.bundle], r.round)
        BY DEF EventRow
    <2> QED
        BY <1>1, <1>2, <2>3, <2>4, <2>5 DEF RecordInv, LogInv, IsEvent
<1>10. CountInv'
    BY <1>1, <1>2, CountStays DEF RecordInv
<1> QED
    BY <1>7, <1>8, <1>9, <1>10 DEF RecordInv

\* Nothing is asked while the clock runs on.
LEMMA LogStays ==
    ASSUME LogInv, pending = {}, UNCHANGED <<eventRows, pending, terminalEvents, issued>>,
           stage # "priced", stage' # "priced"
    PROVE  LogInv'
<1>1. \A i, b : Noted(i, b)' <=> Noted(i, b)
    BY DEF Noted
<1>2. \A r : (r = EventRow([bidder |-> r.bidder, bundle |-> r.bundle], r.round))' <=>
             r = EventRow([bidder |-> r.bidder, bundle |-> r.bundle], r.round)
    BY DEF EventRow
<1>3. \A e : IsEvent(e)' <=> IsEvent(e)
    BY DEF IsEvent
<1> QED
    BY <1>1, <1>2, <1>3 DEF LogInv

\* Nobody has to answer when everybody has.
LEMMA NoneWaits ==
    ASSUME EInv, RecordInv, pc # "ask" \/ turn > Len(Order)
    PROVE  pending = {}
<1>1. pc = "ask" => DOMAIN responses = Bidders
    BY ClockFacts DEF Closing
<1> QED
    BY <1>1 DEF RecordInv, LogInv, IsEvent

\* The clock records the round the recorder has recorded.
LEMMA CloseRoundRecorded ==
    ASSUME EInv, EInv', RecordInv, Recording, Run, CloseRound, UNCHANGED recorderVars
    PROVE  RecordInv'
<1> DEFINE demands == [i \in Bidders |-> DemandList(responses[i])]
<1>1. /\ pc = "ask" /\ turn > Len(Order) /\ turn' = 1
      /\ supplementary' = [i \in Bidders |-> Recorded(supplementary[i], responses[i].atoms)]
      /\ responses' = [i \in {} |-> NoAtoms]
      /\ IF NoExcess(Excess(demands))
         THEN pc' = "allocate" /\ round' = round
         ELSE pc' = IF RoundsLeft(round) THEN "ask" ELSE "done"
      /\ history' = Append(history, [prices |-> prices, demands |-> demands])
    BY DEF CloseRound
<1>2. /\ UNCHANGED fixed /\ UNCHANGED <<stage, proxies, issued>>
      /\ UNCHANGED <<mirror, roundRows, bidderRows, eventRows, seen, pending, terminalEvents>>
    BY DEF Run, recorderVars
<1>3. Closing /\ stage = "clock" /\ pending = {} /\ DOMAIN responses = Bidders
    BY <1>1, ClockFacts, NoneWaits DEF Closing
<1>4. ~Closing'
    <2>1. Len(Order) \in Nat /\ Len(Order) >= 1
        BY ClockFacts
    <2> QED
        BY <1>1, <2>1 DEF Closing
<1>5. /\ \A i \in Bidders : Demanded(i)' = Demanded(i) \cup Answered(i) /\ Answered(i)' = {}
      /\ Len(history') = Len(history) + 1
    <2> DEFINE rec == [prices |-> prices, demands |-> demands]
    <2>1. TypeOK /\ demands \in [Bidders -> Demands] /\ \A i \in Bidders : Answered(i) = Range(demands[i])
        BY <1>1, <1>3, AllAnswered DEF EInv, EngineInv, Answered
    <2>2. rec \in [prices : [Items -> Nat], demands : [Bidders -> Demands]] /\ rec.demands = demands
        BY <2>1 DEF TypeOK
    <2> HIDE DEF demands, rec
    <2>3. /\ Len(history) \in Nat /\ Len(history') = Len(history) + 1
          /\ \A k \in 1..Len(history) : history'[k] = history[k]
          /\ history'[Len(history')] = rec
        BY <1>1, <2>1, <2>2, AppendedRound DEF rec
    <2>4. DOMAIN history = 1..Len(history) /\ DOMAIN history' = 1..Len(history')
        BY ClockFacts, <2>1, <2>2, <1>1 DEF TypeOK, rec
    <2> DEFINE n == Len(history)
    <2>5. n \in Nat /\ DOMAIN history = 1..n /\ DOMAIN history' = 1..n \cup {n + 1} /\ history'[n + 1] = rec
        BY <2>3, <2>4
    <2>6. \A i \in Bidders : Demanded(i)' = Demanded(i) \cup Range(demands[i])
        <3>1. \A k \in 1..n : history'[k] = history[k]
            BY <2>3
        <3> HIDE DEF n
        <3> SUFFICES ASSUME NEW i \in Bidders
                     PROVE  Demanded(i)' = Demanded(i) \cup Range(demands[i])
            OBVIOUS
        <3>2. Demanded(i) = UNION {Range(history[k].demands[i]) : k \in 1..n}
            BY <2>5 DEF Demanded
        <3>3. Demanded(i)' = UNION {Range(history'[k].demands[i]) : k \in 1..n \cup {n + 1}}
            BY <2>5 DEF Demanded
        <3>4. Range(history'[n + 1].demands[i]) = Range(demands[i])
            BY <2>2, <2>5
        <3>5. \A k \in 1..n : Range(history'[k].demands[i]) = Range(history[k].demands[i])
            BY <3>1
        <3> QED
            BY <3>2, <3>3, <3>4, <3>5
    <2>7. \A i \in Bidders : Answered(i)' = {}
        BY <1>1 DEF Answered
    <2> QED
        BY <2>1, <2>3, <2>6, <2>7
<1>6. MirrorInv'
    <2>1. Mirrored' = Mirrored
        BY <1>1, <1>3, <1>4 DEF Mirrored
    <2>2. \A i \in Bidders : seen'[i] = Demanded(i)' \cup Answered(i)'
        BY <1>2, <1>5 DEF RecordInv, MirrorInv
    <2> QED
        BY <1>2, <1>3, <2>1, <2>2 DEF RecordInv, MirrorInv
<1>7. RowInv'
    <2>1. Behind' = Behind
        BY <1>3, <1>4, <1>5 DEF Behind
    <2>2. Priced(mirror)' = Priced(mirror)
        BY <1>2, PricedStays
    <2>3. StoppedReason' = StopReason(demands)
        <3>1. round \in Nat /\ round < MaxRounds
            BY <1>1, ClockFacts
        <3>2. MaxRounds \in Nat
            BY ConfigAssumption
        <3> HIDE DEF demands
        <3>3. CASE NoExcess(Excess(demands))
            BY <1>1, <3>3 DEF StoppedReason, StopReason
        <3>4. CASE ~NoExcess(Excess(demands))
            <4>1. RoundsLeft(round) <=> round # MaxRounds - 1
                BY <3>1, <3>2 DEF RoundsLeft
            <4> QED
                BY <1>1, <3>4, <4>1 DEF StoppedReason, StopReason
        <3> QED
            BY <3>3, <3>4
    <2>4. Last(roundRows).reason = StopReason(demands) /\ Last(roundRows).queries = QueryCount(proxies)
        BY <1>3 DEF RecordInv, RowInv, MirrorInv
    <2>5. QueryCount(proxies)' = QueryCount(proxies)
        BY <1>2 DEF QueryCount
    <2> QED
        BY <1>2, <1>4, <2>1, <2>2, <2>3, <2>4, <2>5 DEF RecordInv, RowInv, IsRow
<1>8. LogInv'
    BY <1>2, <1>3, LogStays DEF RecordInv
<1>9. CountInv'
    BY <1>2, <1>3, CountStays DEF RecordInv
<1> QED
    BY <1>6, <1>7, <1>8, <1>9 DEF RecordInv

\* The clock allocates, returns, and gives way to the terminal audits.
LEMMA RunRecorded ==
    ASSUME EInv, EInv', RecordInv, Recording, TRun
    PROVE  RecordInv'
<1>1. ASSUME (Run /\ (Allocate \/ Return)) \/ Synchronise, UNCHANGED recorderVars
      PROVE  RecordInv'
    <2>1. /\ pc # "ask" /\ pc' # "ask" /\ UNCHANGED <<round, responses, history, supplementary>>
          /\ UNCHANGED fixed /\ UNCHANGED <<proxies, issued>>
          /\ stage = "clock" /\ stage' # "priced"
          /\ stage' = "clock" => turn' # 1 /\ stage = "clock"
        <3>1. CASE Run /\ (Allocate \/ Return)
            <4>1. turn' # 1
                BY <3>1, ClockFacts DEF Allocate, Return
            <4>2. stage = "clock" /\ stage' = "clock"
                BY <3>1 DEF Run, Allocate, Return, EInv, EngineInv
            <4> QED
                BY <3>1, <4>1, <4>2 DEF Run, Allocate, Return
        <3>2. CASE Synchronise
            <4>1. supplementary' = supplementary
                BY <3>2 DEF Synchronise, Recording
            <4> QED
                BY <3>2, <4>1 DEF Synchronise
        <3> QED
            BY <1>1, <3>1, <3>2
    <2>2. UNCHANGED <<mirror, roundRows, bidderRows, eventRows, seen, pending, terminalEvents>>
        BY <1>1 DEF recorderVars
    <2>3. ~Closing /\ ~Closing'
        BY <2>1 DEF Closing
    <2>4. MirrorInv'
        <3>1. Mirrored' = Mirrored
            BY <2>1, <2>3 DEF Mirrored
        <3> QED
            BY <2>1, <2>2, <3>1, SeenStays DEF RecordInv, MirrorInv
    <2>5. RowInv'
        <3>1. Behind' = Behind
            BY <2>1, <2>3 DEF Behind
        <3>2. Priced(mirror)' = Priced(mirror)
            BY <2>1, <2>2, PricedStays
        <3>3. QueryCount(proxies)' = QueryCount(proxies)
            BY <2>1 DEF QueryCount
        <3> QED
            BY <2>1, <2>2, <2>3, <3>1, <3>2, <3>3 DEF RecordInv, RowInv, IsRow
    <2>6. LogInv'
        BY <2>1, <2>2, NoneWaits, LogStays DEF RecordInv
    <2>7. CountInv'
        BY <2>1, <2>2, CountStays DEF RecordInv
    <2> QED
        BY <2>4, <2>5, <2>6, <2>7 DEF RecordInv
<1>2. ASSUME Run, UNCHANGED recorderVars, CloseRound
      PROVE  RecordInv'
    BY <1>2, CloseRoundRecorded
<1>3. Run => CloseRound \/ Allocate \/ Return
    BY DEF Run
<1> QED
    BY <1>1, <1>2, <1>3 DEF TRun

\* What an answer leaves to the recorder.
LEMMA ElicitIs ==
    ASSUME EInv, Elicit, NEW i, i = Order[turn]
    PROVE  /\ pc = "ask" /\ stage = "clock" /\ turn \in 1..Len(Order) /\ turn' = turn + 1
           /\ UNCHANGED <<pc, round, history, supplementary, stage>> /\ UNCHANGED fixed
           /\ i \in Bidders /\ i \notin DOMAIN responses
           /\ DOMAIN responses' = DOMAIN responses \cup {i}
           /\ \A j \in DOMAIN responses : responses'[j] = responses[j]
           /\ \A j \in Bidders : issued[j] \subseteq issued'[j]
<1>1. turn <= Len(Order) /\ pc = "ask" /\ TypeOK
    BY DEF Elicit, RespondRefined, Respond, Answer, EInv, EngineInv
<1>2. turn \in 1..Len(Order)
    BY <1>1, ClockFacts
<1>3. i \in Bidders /\ i \notin DOMAIN responses
    <2>1. \A j, k \in 1..Len(Order) : Order[j] = Order[k] => j = k
        BY BiddersAssumption
    <2>2. DOMAIN responses = {Order[k] : k \in {n \in 1..Len(Order) : n < turn /\ pc = "ask"}}
        BY <1>1 DEF TypeOK
    <2> QED
        BY <1>2, <2>1, <2>2, ListedBidders
<1>4. PICK s : s = Questioned(i, View(i)) /\ issued' = s.issued
    BY DEF Elicit, RespondRefined
<1>5. RefinedOf(Session, s, i)
    <2>1. Asked
        BY <1>1, ClockFacts DEF Asked, TypeOK, EInv, EngineInv, BookInv
    <2> QED
        BY <1>3, <1>4, <2>1, ViewIs, QuestionedIs
<1>6. \A j \in Bidders : issued[j] \subseteq issued'[j]
    BY <1>4, <1>5, SessionFields DEF RefinedOf, After
<1>7. /\ turn' = turn + 1 /\ UNCHANGED <<pc, round, history, supplementary, stage>> /\ UNCHANGED fixed
      /\ DOMAIN responses' = DOMAIN responses \cup {i}
      /\ \A j \in DOMAIN responses : responses'[j] = responses[j]
    BY <1>3 DEF Elicit, RespondRefined, Respond, Answer
<1> QED
    BY <1>1, <1>2, <1>3, <1>6, <1>7, ClockFacts

\* The events an answer brings along, its own and those that waited for it, get rows of
\* the round.
LEMMA ElicitLogged ==
    ASSUME EInv, EInv', RecordInv, Recording, TElicit
    PROVE  /\ LogInv'
           /\ \A r \in eventRows' : r = EventRow([bidder |-> r.bidder, bundle |-> r.bundle], r.round)
<1> DEFINE i == Order[turn]
<1>1. /\ pc = "ask" /\ stage = "clock" /\ UNCHANGED <<pc, round, stage>>
      /\ i \in Bidders /\ i \notin DOMAIN responses
      /\ DOMAIN responses' = DOMAIN responses \cup {i}
      /\ \A j \in Bidders : issued[j] \subseteq issued'[j]
    BY ElicitIs DEF TElicit
<1>2. /\ eventRows' = eventRows \cup EventRowsOf(Fired(i), round + 1)
      /\ pending' = {p \in pending : p.round # round \/ p.event.bidder # i}
      /\ terminalEvents' = terminalEvents
    BY DEF TElicit
<1> HIDE DEF i
<1>3. /\ \A p \in pending : /\ p.round = round /\ IsEvent(p.event)
                            /\ p.event.bidder \notin DOMAIN responses
      /\ terminalEvents = {}
      /\ \A j \in Bidders : \A b \in Named : b \in issued[j] <=> Noted(j, b)
      /\ \A r \in eventRows : /\ r.bidder \in Bidders /\ r.bundle \in Named
                              /\ r = EventRow([bidder |-> r.bidder, bundle |-> r.bundle], r.round)
    BY <1>1 DEF RecordInv, LogInv, MirrorInv
<1>4. /\ \A e \in NewlyIssued : IsEvent(e)
      /\ \A j \in Bidders : \A b \in Named :
            b \in issued'[j] <=> b \in issued[j] \/ \E e \in NewlyIssued : e.bidder = j /\ e.bundle = b
    BY <1>1, NewlyIs
<1> DEFINE fired == Fired(i)
           rows == EventRowsOf(fired, round + 1)
<1>5. /\ \A e : e \in fired <=> \/ e \in NewlyIssued
                                \/ \E p \in pending : p.event.bidder = i /\ p.event = e
      /\ \A e \in fired : IsEvent(e)
    <2>1. \A e : e \in fired <=> \/ e \in NewlyIssued
                                 \/ \E p \in {q \in pending : q.round = round /\ q.event.bidder = i} : p.event = e
        BY DEF Fired
    <2> HIDE DEF fired
    <2> QED
        BY <1>3, <1>4, <2>1
<1> HIDE DEF fired
<1>6. /\ \A r \in rows : /\ IsEvent([bidder |-> r.bidder, bundle |-> r.bundle])
                         /\ [bidder |-> r.bidder, bundle |-> r.bundle] \in fired
                         /\ r.bidder \in Bidders /\ r.bundle \in Named
                         /\ r = EventRow([bidder |-> r.bidder, bundle |-> r.bundle], r.round)
      /\ \A e \in fired : \E r \in rows : r.bidder = e.bidder /\ r.bundle = e.bundle
    <2>1. ASSUME NEW r \in rows
          PROVE  /\ IsEvent([bidder |-> r.bidder, bundle |-> r.bundle])
                 /\ [bidder |-> r.bidder, bundle |-> r.bundle] \in fired
                 /\ r.bidder \in Bidders /\ r.bundle \in Named
                 /\ r = EventRow([bidder |-> r.bidder, bundle |-> r.bundle], r.round)
        <3>1. PICK e \in fired : r = EventRow(e, round + 1)
            BY DEF EventRowsOf
        <3>2. e = [bidder |-> e.bidder, bundle |-> e.bundle] /\ e.bidder \in Bidders /\ e.bundle \in Named
            BY <1>5 DEF IsEvent
        <3>3. r.bidder = e.bidder /\ r.bundle = e.bundle /\ r.round = round + 1
            BY <3>1 DEF EventRow
        <3> QED
            BY <3>1, <3>2, <3>3 DEF IsEvent, EventRow
    <2>2. ASSUME NEW e \in fired
          PROVE  \E r \in rows : r.bidder = e.bidder /\ r.bundle = e.bundle
        <3> DEFINE r == EventRow(e, round + 1)
        <3>1. r \in rows /\ r.bidder = e.bidder /\ r.bundle = e.bundle
            BY DEF EventRowsOf, EventRow
        <3> HIDE DEF r, rows
        <3> QED
            BY <3>1
    <2> QED
        BY <2>1, <2>2
<1>7. eventRows' = eventRows \cup rows
    BY <1>2 DEF fired
<1> HIDE DEF rows
<1>8. ASSUME NEW j \in Bidders, NEW b \in Named
      PROVE  b \in issued'[j] <=> Noted(j, b)'
    <2> DEFINE logged == \E r \in eventRows : r.bidder = j /\ r.bundle = b
               waits == \E p \in pending : p.event.bidder = j /\ p.event.bundle = b
               kept == \E p \in pending : p.event.bidder # i /\ p.event.bidder = j /\ p.event.bundle = b
               answered == \E p \in pending : p.event.bidder = i /\ p.event.bidder = j /\ p.event.bundle = b
               new == \E e \in NewlyIssued : e.bidder = j /\ e.bundle = b
    <2>1. b \in issued'[j] <=> logged \/ waits \/ new
        BY <1>3, <1>4 DEF Noted
    <2>2. (\E r \in rows : r.bidder = j /\ r.bundle = b) <=> new \/ answered
        <3>1. (\E r \in rows : r.bidder = j /\ r.bundle = b) <=> \E e \in fired : e.bidder = j /\ e.bundle = b
            <4>1. ASSUME NEW r \in rows, r.bidder = j, r.bundle = b
                  PROVE  \E e \in fired : e.bidder = j /\ e.bundle = b
                <5> DEFINE e == [bidder |-> r.bidder, bundle |-> r.bundle]
                <5>1. e \in fired /\ e.bidder = j /\ e.bundle = b
                    BY <1>6, <4>1
                <5> HIDE DEF e
                <5> QED
                    BY <5>1
            <4> QED
                BY <1>6, <4>1
        <3> QED
            BY <1>5, <3>1
    <2>3. Noted(j, b)' <=> \/ logged \/ (\E r \in rows : r.bidder = j /\ r.bundle = b) \/ kept
        <3>1. \A p : p \in pending' <=> p \in pending /\ p.event.bidder # i
            BY <1>2, <1>3
        <3>2. Noted(j, b)' <=> \/ \E r \in eventRows' : r.bidder = j /\ r.bundle = b
                               \/ \E p \in pending' : p.event.bidder = j /\ p.event.bundle = b
            BY <1>2, <1>3 DEF Noted
        <3> QED
            BY <1>7, <3>1, <3>2
    <2>4. waits <=> kept \/ answered
        OBVIOUS
    <2> QED
        BY <2>1, <2>2, <2>3, <2>4
<1>9. \A p \in pending' : /\ p.round = round /\ IsEvent(p.event)
                          /\ p.event.bidder \notin DOMAIN responses'
    BY <1>1, <1>2, <1>3
<1>10. \A r \in eventRows' : /\ r.bidder \in Bidders /\ r.bundle \in Named
                             /\ r = EventRow([bidder |-> r.bidder, bundle |-> r.bundle], r.round)
    BY <1>3, <1>6, <1>7
<1>11. LogInv'
    <2>1. \A r : (r = EventRow([bidder |-> r.bidder, bundle |-> r.bundle], r.round))' <=>
                 r = EventRow([bidder |-> r.bidder, bundle |-> r.bundle], r.round)
        BY DEF EventRow
    <2>2. \A e : IsEvent(e)' <=> IsEvent(e)
        BY DEF IsEvent
    <2> QED
        BY <1>1, <1>2, <1>3, <1>8, <1>9, <1>10, <2>1, <2>2 DEF LogInv
<1> QED
    BY <1>10, <1>11

\* Rows of events as they are before the driver prices.
EventRowsIn(rows) ==
    \A r \in rows : /\ r.bidder \in Bidders /\ r.bundle \in Named
                    /\ r = EventRow([bidder |-> r.bidder, bundle |-> r.bundle], r.round)

\* The rows of a round.
OfRound(rows, n) == {r \in rows : r.round = n}

\* The events of a round are counted by its bidders.
LEMMA RoundCounted ==
    ASSUME NEW rows, EventRowsIn(rows), NEW n, n = round + 1,
           NEW atoms, NEW answers, NEW Q, Q = BidderRoundRows(atoms, answers, rows),
           NEW N, N = OfRound(rows, n)
    PROVE  CountOf(Q) = Cardinality(N) /\ Cardinality(N) \in Nat /\ \A q \in Q : q.round = n
<1> USE DEF EventRowsIn, OfRound
<1> DEFINE f == [i \in Bidders |->
                    [round |-> n, bidder |-> i, primary |-> answers[i].primary,
                     refined |-> {r.bundle : r \in {e \in rows : e.round = n /\ e.bidder = i}},
                     atoms |-> Cardinality(DOMAIN atoms[i])]]
           row == [x \in Bidders \X Named |-> EventRow([bidder |-> x[1], bundle |-> x[2]], n)]
<1>1. IsFiniteSet(N)
    <2>1. IsFiniteSet(Bidders \X Named)
        BY ListedBidders, NamedFacts, FS_Product
    <2>2. IsFiniteSet({row[x] : x \in Bidders \X Named})
        <3> DEFINE S == Bidders \X Named
        <3>1. IsFiniteSet(S)
            BY <2>1
        <3> HIDE DEF S, row
        <3>2. IsFiniteSet({row[x] : x \in S})
            BY <3>1, FiniteImage
        <3> QED
            BY <3>2 DEF S
    <2>3. \A r \in N : r \in {row[x] : x \in Bidders \X Named}
        <3> SUFFICES ASSUME NEW r \in N
                     PROVE  r \in {row[x] : x \in Bidders \X Named}
            OBVIOUS
        <3>1. <<r.bidder, r.bundle>> \in Bidders \X Named /\ r = row[<<r.bidder, r.bundle>>]
            OBVIOUS
        <3> HIDE DEF row
        <3> QED
            BY <3>1
    <2> QED
        BY <2>2, <2>3, FS_Subset
<1>2. \A r \in N : r.bidder \in Bidders
    OBVIOUS
<1>3. \A r, q \in N : r.bidder = q.bidder /\ r.bundle = q.bundle => r = q
    <2>1. \A r \in N : r = EventRow([bidder |-> r.bidder, bundle |-> r.bundle], n)
        OBVIOUS
    <2> QED
        BY <2>1
<1>4. Q = {f[i] : i \in Bidders}
    BY DEF BidderRoundRows
<1>5. \A i \in Bidders : /\ f[i].bidder = i /\ f[i].round = n
                         /\ f[i].refined = {r.bundle : r \in {e \in N : e.bidder = i}}
    <2> SUFFICES ASSUME NEW i \in Bidders
                 PROVE  {r.bundle : r \in {e \in rows : e.round = n /\ e.bidder = i}}
                            = {r.bundle : r \in {e \in N : e.bidder = i}}
        OBVIOUS
    <2>1. {e \in rows : e.round = n /\ e.bidder = i} = {e \in N : e.bidder = i}
        OBVIOUS
    <2> QED
        BY <2>1
<1> HIDE DEF f
<1>6. \A q \in Q : q.round = n
    BY <1>4, <1>5
<1>7. CountOf(Q) = Cardinality(N) /\ Cardinality(N) \in Nat
    BY <1>1, <1>2, <1>3, <1>4, <1>5, CountedByBidder
<1> QED
    BY <1>6, <1>7

\* The last answer of a round ends it.
LEMMA LastAnswerRecorded ==
    ASSUME EInv, EInv', RecordInv, Recording, TElicit, turn = Len(Order)
    PROVE  MirrorInv' /\ RowInv' /\ CountInv'
<1>0. PICK i : i = Order[turn]
    OBVIOUS
<1>00. PICK n : n = round + 1
    OBVIOUS
<1> DEFINE atoms == [j \in Bidders |-> Recorded(mirror[j], responses'[j].atoms)]
           demands == [j \in Bidders |-> DemandList(responses'[j])]
           row == RoundRow(StopReason(demands), atoms, eventRows')
           Q == BidderRoundRows(atoms, responses', eventRows')
<1>1. /\ pc = "ask" /\ stage = "clock" /\ turn \in 1..Len(Order) /\ turn' = turn + 1
      /\ UNCHANGED <<pc, round, history, supplementary, stage>> /\ UNCHANGED fixed
      /\ i \in Bidders /\ i \notin DOMAIN responses
      /\ DOMAIN responses' = DOMAIN responses \cup {i}
      /\ \A j \in DOMAIN responses : responses'[j] = responses[j]
    BY <1>0, ElicitIs DEF TElicit
<1>2. /\ seen' = [seen EXCEPT ![i] = @ \cup Range(DemandList(responses'[i]))]
      /\ mirror' = atoms /\ roundRows' = Append(roundRows, row)
      /\ bidderRows' = bidderRows \cup Q
      /\ terminalEvents' = terminalEvents
    BY <1>0 DEF TElicit, FinalizeRound, StopReason
<1>3. /\ ~Closing /\ Closing' /\ terminalEvents = {} /\ mirror = supplementary
      /\ \A j \in Bidders : seen[j] = Demanded(j) \cup Answered(j)
    BY <1>1 DEF Closing, RecordInv, MirrorInv, Mirrored
<1>4. /\ roundRows \in Seq(Range(roundRows)) /\ Len(roundRows) = Len(history)
      /\ Len(history) = round /\ round \in Nat
      /\ \A k \in DOMAIN roundRows : IsRow(roundRows[k])
    BY <1>1, <1>3, ClockFacts DEF RecordInv, RowInv, Behind
<1>5. \A r \in eventRows' : /\ r.bidder \in Bidders /\ r.bundle \in Named
                            /\ r = EventRow([bidder |-> r.bidder, bundle |-> r.bundle], r.round)
    BY ElicitLogged DEF LogInv
<1>6. MirrorInv'
    <2>1. Mirrored' = atoms
        BY <1>1, <1>3 DEF Mirrored
    <2>2. \A j \in Bidders : Demanded(j)' = Demanded(j)
        BY <1>1 DEF Demanded
    <2>3. Answered(i) = {} /\ Answered(i)' = Range(DemandList(responses'[i]))
        BY <1>1 DEF Answered
    <2>4. \A j \in Bidders \ {i} : Answered(j)' = Answered(j)
        BY <1>1 DEF Answered
    <2>5. \A j \in Bidders : seen'[j] = Demanded(j)' \cup Answered(j)'
        <3>1. \A j \in Bidders \ {i} : seen'[j] = seen[j]
            BY <1>2
        <3>2. seen'[i] = seen[i] \cup Range(DemandList(responses'[i]))
            BY <1>1, <1>2 DEF RecordInv, MirrorInv
        <3>3. seen'[i] = Demanded(i)' \cup Answered(i)'
            BY <1>1, <1>3, <2>2, <2>3, <3>2
        <3>4. \A j \in Bidders \ {i} : seen'[j] = Demanded(j)' \cup Answered(j)'
            BY <1>3, <2>2, <2>4, <3>1
        <3> QED
            BY <3>3, <3>4
    <2>6. DOMAIN seen' = Bidders
        BY <1>2 DEF RecordInv, MirrorInv
    <2>7. mirror' = atoms
        BY <1>2
    <2> HIDE DEF atoms, demands
    <2> QED
        BY <1>1, <1>2, <1>3, <2>1, <2>5, <2>6, <2>7 DEF MirrorInv
<1> HIDE DEF demands
<1>7. /\ CountOf(Q) = row.events
      /\ row.events \in Nat /\ \A q \in Q : q.round = n
    <2>1. row.events = Cardinality({r \in eventRows' : r.round = n})
        BY <1>00 DEF RoundRow
    <2> HIDE DEF row
    <2>2. PICK all : all = eventRows'
        OBVIOUS
    <2>3. PICK answers : answers = responses'
        OBVIOUS
    <2>4. PICK given : given = atoms
        OBVIOUS
    <2>5. PICK N : N = OfRound(all, n)
        OBVIOUS
    <2>6. PICK B : B = BidderRoundRows(given, answers, all)
        OBVIOUS
    <2>7. EventRowsIn(all)
        BY <1>5, <2>2 DEF EventRowsIn
    <2>8. CountOf(B) = Cardinality(N) /\ Cardinality(N) \in Nat /\ \A q \in B : q.round = n
        BY <1>00, <2>5, <2>6, <2>7, RoundCounted
    <2>9. B = Q
        BY <2>2, <2>3, <2>4, <2>6
    <2> HIDE DEF Q, atoms
    <2> QED
        BY <2>1, <2>2, <2>5, <2>8, <2>9 DEF OfRound
<1>8. /\ IsRow(row) /\ row.reason = StopReason(demands) /\ row.queries = QueryCount(proxies')
      /\ row.auction = Priced(atoms)
    BY <1>7 DEF RoundRow, IsRow
<1> HIDE DEF row, Q
<1>9. /\ roundRows' \in Seq(Range(roundRows')) /\ Len(roundRows') = n
      /\ DOMAIN roundRows = 1..round /\ DOMAIN roundRows' = 1..n
      /\ \A k \in 1..round : roundRows'[k] = roundRows[k]
      /\ roundRows'[n] = row /\ Last(roundRows') = row
    <2> DEFINE rows == roundRows
               new == roundRows'
    <2>1. new = Append(rows, row) /\ rows \in Seq(Range(rows)) /\ Len(rows) = round
        BY <1>2, <1>4
    <2> HIDE DEF rows, new, atoms
    <2>2. /\ new \in Seq(Range(new)) /\ Len(new) = Len(rows) + 1
          /\ DOMAIN rows = 1..Len(rows) /\ DOMAIN new = 1..Len(new)
        BY <2>1, AppendedRow
    <2>3. \A k \in 1..Len(rows) : new[k] = rows[k]
        BY <2>1, AppendedRow
    <2>4. new[Len(new)] = row
        BY <2>1, AppendedRow
    <2>6. Last(new) = row
        BY <2>1, AppendedRow
    <2>5. /\ new \in Seq(Range(new)) /\ Len(new) = n
          /\ DOMAIN rows = 1..round /\ DOMAIN new = 1..n
          /\ \A k \in 1..round : new[k] = rows[k]
          /\ new[n] = row /\ Last(new) = row
        BY <1>00, <2>1, <2>2, <2>3, <2>4, <2>6
    <2> QED
        BY <2>5 DEF rows, new
<1>10. RowInv'
    <2>1. \A k \in DOMAIN roundRows' : IsRow(roundRows'[k])
        <3>1. 1..n = 1..round \cup {n}
            BY <1>00, <1>4
        <3> QED
            BY <1>4, <1>8, <1>9, <3>1
    <2>2. Priced(mirror)' = Priced(atoms)
        BY <1>1, <1>2, PricedStays
    <2>3. StopReason([j \in Bidders |-> DemandList(responses[j])])' = StopReason(demands)
        BY <1>1 DEF StopReason, demands
    <2>4. Behind' = n
        BY <1>00, <1>1, <1>3, <1>4 DEF Behind
    <2>5. QueryCount(proxies)' = QueryCount(proxies')
        BY DEF QueryCount
    <2>6. turn' # 1
        BY <1>1
    <2>7. \A r : IsRow(r)' <=> IsRow(r)
        BY DEF IsRow
    <2> HIDE DEF atoms
    <2> QED
        BY <1>8, <1>9, <2>1, <2>2, <2>3, <2>4, <2>5, <2>6, <2>7 DEF RowInv
<1>11. CountInv'
    <2>1. /\ \A b \in bidderRows : b.round \in 1..round
          /\ \A k \in 1..round : roundRows[k].events = Counted(k)
        BY <1>1, <1>9 DEF RecordInv, CountInv
    <2>2. \A k \in 1..round : {b \in bidderRows' : b.round = k} = {b \in bidderRows : b.round = k}
        <3>1. \A k \in 1..round : k # n
            BY <1>00, <1>4
        <3> QED
            BY <1>2, <1>7, <3>1
    <2>3. {b \in bidderRows' : b.round = n} = Q
        <3>1. \A b \in bidderRows : b.round # n
            BY <1>00, <1>4, <2>1
        <3> QED
            BY <1>2, <1>7, <3>1
    <2>4. \A k \in 1..round : Counted(k)' = Counted(k)
        BY <2>2 DEF Counted, CountOf
    <2>5. Counted(n)' = row.events
        <3>1. Counted(n)' = CountOf({b \in bidderRows' : b.round = n})
            BY DEF Counted, CountOf
        <3> QED
            BY <1>7, <2>3, <3>1
    <2>6. \A k \in DOMAIN roundRows' : roundRows'[k].events = Counted(k)'
        <3>1. \A k \in 1..round : roundRows'[k].events = Counted(k)'
            BY <1>9, <2>1, <2>4
        <3>3. 1..n = 1..round \cup {n}
            BY <1>00, <1>4
        <3>4. roundRows'[n].events = Counted(n)'
            BY <1>9, <2>5
        <3> DEFINE new == roundRows'
        <3>5. /\ DOMAIN new = 1..round \cup {n}
              /\ \A k \in 1..round : new[k].events = Counted(k)'
              /\ new[n].events = Counted(n)'
            BY <1>9, <3>1, <3>3, <3>4
        <3> HIDE DEF new
        <3>6. \A k \in DOMAIN new : new[k].events = Counted(k)'
            <4> SUFFICES ASSUME NEW k \in DOMAIN new
                         PROVE  new[k].events = Counted(k)'
                OBVIOUS
            <4>1. CASE k \in 1..round
                BY <3>5, <4>1
            <4>2. CASE k = n
                BY <3>5, <4>2
            <4> QED
                BY <3>5, <4>1, <4>2
        <3> QED
            BY <3>6 DEF new
    <2>7. \A b \in bidderRows' : b.round \in DOMAIN roundRows'
        <3>1. \A k \in 1..round : k \in 1..n
            BY <1>00, <1>4
        <3>2. n \in 1..n
            BY <1>00, <1>4
        <3> QED
            BY <1>2, <1>7, <1>9, <2>1, <3>1, <3>2
    <2> QED
        BY <1>1, <2>6, <2>7 DEF CountInv
<1> QED
    BY <1>6, <1>10, <1>11

\* Another answer of a round: the recorder has nothing to close.
LEMMA NextAnswerRecorded ==
    ASSUME EInv, EInv', RecordInv, Recording, TElicit, turn # Len(Order)
    PROVE  MirrorInv' /\ RowInv' /\ CountInv'
<1>0. PICK i : i = Order[turn]
    OBVIOUS
<1>1. /\ pc = "ask" /\ stage = "clock" /\ turn \in 1..Len(Order) /\ turn' = turn + 1
      /\ UNCHANGED <<pc, round, history, supplementary, stage>> /\ UNCHANGED fixed
      /\ i \in Bidders /\ i \notin DOMAIN responses
      /\ DOMAIN responses' = DOMAIN responses \cup {i}
      /\ \A j \in DOMAIN responses : responses'[j] = responses[j]
    BY <1>0, ElicitIs DEF TElicit
<1>2. /\ seen' = [seen EXCEPT ![i] = @ \cup Range(DemandList(responses'[i]))]
      /\ mirror' = mirror /\ roundRows' = roundRows
      /\ bidderRows' = bidderRows /\ terminalEvents' = terminalEvents
    BY <1>0 DEF TElicit
<1>3. /\ ~Closing /\ ~Closing' /\ turn' # 1 /\ terminalEvents = {}
    <2>1. Len(Order) \in Nat /\ turn \in 1..Len(Order)
        BY <1>1, ClockFacts
    <2> QED
        BY <1>1, <2>1 DEF Closing, RecordInv, MirrorInv
<1>4. MirrorInv'
    <2>1. Mirrored' = Mirrored
        BY <1>1, <1>3 DEF Mirrored
    <2>2. \A j \in Bidders : Demanded(j)' = Demanded(j)
        BY <1>1 DEF Demanded
    <2>3. Answered(i) = {} /\ Answered(i)' = Range(DemandList(responses'[i]))
        BY <1>1 DEF Answered
    <2>4. \A j \in Bidders \ {i} : Answered(j)' = Answered(j)
        BY <1>1 DEF Answered
    <2>5. /\ DOMAIN seen = Bidders
          /\ \A j \in Bidders : seen[j] = Demanded(j) \cup Answered(j)
        BY DEF RecordInv, MirrorInv
    <2>6. \A j \in Bidders \ {i} : seen'[j] = Demanded(j)' \cup Answered(j)'
        BY <1>2, <2>2, <2>4, <2>5
    <2>7. seen'[i] = Demanded(i)' \cup Answered(i)'
        BY <1>1, <1>2, <2>2, <2>3, <2>5
    <2>8. DOMAIN seen' = Bidders
        BY <1>2, <2>5
    <2> QED
        BY <1>1, <1>2, <1>3, <2>1, <2>6, <2>7, <2>8 DEF RecordInv, MirrorInv
<1>5. RowInv'
    <2>1. Behind' = Behind
        BY <1>1, <1>3 DEF Behind
    <2>2. Priced(mirror)' = Priced(mirror)
        BY <1>1, <1>2, PricedStays
    <2> QED
        BY <1>1, <1>2, <1>3, <2>1, <2>2 DEF RecordInv, RowInv, IsRow
<1>6. CountInv'
    BY <1>1, <1>2, CountStays DEF RecordInv
<1> QED
    BY <1>4, <1>5, <1>6

\* The recorder follows every answer.
LEMMA ElicitRecorded ==
    ASSUME EInv, EInv', RecordInv, Recording, TElicit
    PROVE  RecordInv'
<1>1. LogInv'
    BY ElicitLogged
<1>2. CASE turn = Len(Order)
    BY <1>1, <1>2, LastAnswerRecorded DEF RecordInv
<1>3. CASE turn # Len(Order)
    BY <1>1, <1>3, NextAnswerRecorded DEF RecordInv
<1> QED
    BY <1>2, <1>3

-----------------------------------------------------------------------------
(* The terminal audit and the pricing.                                     *)

\* An iteration of a terminal audit, as the recorder sees it.
LEMMA AuditIs ==
    ASSUME EInv, StabilityAudit \/ VerifyWitnesses \/ CloseWinners \/ CloseStaged
    PROVE  /\ \E s : PassOf(Session, s) /\ Queried(s)
           /\ stage \notin {"clock", "priced"} /\ stage' \notin {"clock", "priced"}
<1>1. Settings /\ Session \in Sessions /\ prices \in [Items -> Nat]
    BY DEF EInv, EngineInv, BookInv, TypeOK
<1>2. CASE StabilityAudit
    <2> DEFINE s == StabilityPass(Session)
    <2>1. StableOf(Session, s)
        BY <1>1, SessionFields, StabilityIs
    <2>2. stage = "stability" /\ Loop(s, "final")
        BY <1>2 DEF StabilityAudit
    <2> HIDE DEF s
    <2>3. PassOf(Session, s) /\ Queried(s)
        BY <2>1, <2>2 DEF StableOf, Loop
    <2>4. stage' \in {"stability", "final"}
        BY <2>2 DEF Loop
    <2> QED
        BY <2>2, <2>3, <2>4
<1>3. CASE VerifyWitnesses
    <2> DEFINE s == AuditQueries(Session, FrontierChallengers(Session) \o RevealedWitnesses(Session),
                                 "supplementary")
    <2>1. VerifiedOf(Session, s)
        BY <1>1, WitnessesPass
    <2>2. stage = "witnesses" /\ stage' = "winners" /\ Queried(s)
        BY <1>3 DEF VerifyWitnesses
    <2> HIDE DEF s
    <2>3. PassOf(Session, s) /\ Queried(s)
        BY <2>1, <2>2 DEF VerifiedOf
    <2> QED
        BY <2>2, <2>3
<1>4. CASE CloseWinners
    <2> DEFINE s == AuditQueries(Session, Winners(Session), "supplementary")
    <2>1. VerifiedOf(Session, s)
        BY <1>1, WinnersPass
    <2>2. stage = "winners" /\ Loop(s, "staged")
        BY <1>4 DEF CloseWinners
    <2> HIDE DEF s
    <2>3. PassOf(Session, s) /\ Queried(s)
        BY <2>1, <2>2 DEF VerifiedOf, Loop
    <2>4. stage' \in {"winners", "staged"}
        BY <2>2 DEF Loop
    <2> QED
        BY <2>2, <2>3, <2>4
<1>5. CASE CloseStaged
    <2> DEFINE t == AuditQueries(Session, RevealedWitnesses(Session), "supplementary")
               s == AuditQueries(t, Winners(t), "supplementary")
    <2>1. VerifiedOf(Session, s)
        BY <1>1, StagedPass
    <2>2. stage = "staged" /\ Loop(s, "final")
        BY <1>5 DEF CloseStaged
    <2> HIDE DEF s, t
    <2>3. PassOf(Session, s) /\ Queried(s)
        BY <2>1, <2>2 DEF VerifiedOf, Loop
    <2>4. stage' \in {"staged", "final"}
        BY <2>2 DEF Loop
    <2> QED
        BY <2>2, <2>3, <2>4
<1> QED
    BY <1>2, <1>3, <1>4, <1>5

\* The recorder notes the events of the terminal audit; without one nothing was asked.
LEMMA AuditRecorded ==
    ASSUME EInv, EInv', RecordInv, Recording, TAudit
    PROVE  RecordInv'
<1>1. /\ terminalEvents' = terminalEvents \cup NewlyIssued
      /\ UNCHANGED <<mirror, roundRows, bidderRows, eventRows, seen, pending>>
      /\ StabilityAudit \/ VerifyWitnesses \/ CloseWinners \/ CloseStaged
    BY DEF TAudit
<1>2. stage \notin {"clock", "priced"} /\ stage' \notin {"clock", "priced"}
    BY <1>1, AuditIs
<1>3. PICK s : PassOf(Session, s) /\ Queried(s)
    BY <1>1, AuditIs
<1>4. /\ UNCHANGED <<pc, turn, round, responses, history>> /\ UNCHANGED fixed
      /\ proxies' = s.proxies /\ issued' = s.issued /\ supplementary' = s.supplementary
    BY <1>3 DEF Queried
<1>5. /\ pc = "done" /\ ~Closing /\ ~Closing' /\ pending = {}
    <2>1. pc = "done"
        BY <1>2 DEF EInv, EngineInv
    <2> QED
        BY <1>4, <2>1, NoneWaits DEF Closing
<1>6. After(Session, s) /\ (s.count = 0 => s = Session) /\ s.count \in Nat
    <2>1. s \in Sessions /\ After(Session, s) /\ (s.count = 0 => s = Session)
        BY <1>3, SessionFields DEF PassOf
    <2> QED
        BY <2>1, SessionIs
<1>7. \A i \in Bidders : issued[i] \subseteq issued'[i]
    BY <1>4, <1>6, SessionFields DEF After
<1>8. /\ \A e \in NewlyIssued : IsEvent(e)
      /\ \A i \in Bidders : \A b \in Named :
            b \in issued'[i] <=> b \in issued[i] \/ \E e \in NewlyIssued : e.bidder = i /\ e.bundle = b
      /\ NewlyIssued = {} => \A i \in Bidders : issued'[i] = issued[i]
    BY <1>7, NewlyIs
<1> DEFINE new == NewlyIssued
<1>9. new = {} => supplementary' = supplementary /\ proxies' = proxies
    <2> SUFFICES ASSUME new = {}
                 PROVE  supplementary' = supplementary /\ proxies' = proxies
        OBVIOUS
    <2>1. \A i \in Bidders : s.issued[i] = issued[i]
        BY <1>4, <1>8
    <2>2. ~(s.count > Session.count)
        BY <1>6, <2>1, SessionFields DEF After
    <2>3. s = Session
        BY <1>6, <2>2, SessionFields
    <2> QED
        BY <1>4, <2>3, SessionFields
<1>10. terminalEvents' = {} => terminalEvents = {} /\ new = {}
    BY <1>1
<1> HIDE DEF new
<1>11. MirrorInv'
    <2>1. terminalEvents' = {} => Mirrored' = Mirrored
        BY <1>5, <1>9, <1>10 DEF Mirrored
    <2>2. \A i \in Bidders : seen'[i] = Demanded(i)' \cup Answered(i)'
        BY <1>1, <1>4, SeenStays DEF RecordInv, MirrorInv
    <2> QED
        BY <1>1, <1>2, <1>10, <2>1, <2>2 DEF RecordInv, MirrorInv
<1>12. RowInv'
    <2>1. Behind' = Behind
        BY <1>4, <1>5 DEF Behind
    <2>2. Priced(mirror)' = Priced(mirror)
        BY <1>1, <1>4, PricedStays
    <2>3. terminalEvents' = {} => QueryCount(proxies)' = QueryCount(proxies)
        BY <1>9, <1>10 DEF QueryCount
    <2> QED
        BY <1>1, <1>2, <1>4, <1>5, <1>10, <2>1, <2>2, <2>3 DEF RecordInv, RowInv, IsRow
<1>13. LogInv'
    <2>1. \A e \in terminalEvents' : IsEvent(e)
        BY <1>1, <1>8 DEF RecordInv, LogInv
    <2>2. ASSUME NEW i \in Bidders, NEW b \in Named
          PROVE  b \in issued'[i] <=> Noted(i, b)'
        <3>1. Noted(i, b)' <=> Noted(i, b) \/ \E e \in new : e.bidder = i /\ e.bundle = b
            BY <1>1 DEF Noted, new
        <3>2. b \in issued[i] <=> Noted(i, b)
            BY DEF RecordInv, LogInv
        <3> QED
            BY <1>8, <3>1, <3>2 DEF new
    <2>3. \A r : (r = EventRow([bidder |-> r.bidder, bundle |-> r.bundle], r.round))' <=>
                 r = EventRow([bidder |-> r.bidder, bundle |-> r.bundle], r.round)
        BY DEF EventRow
    <2>4. \A e : IsEvent(e)' <=> IsEvent(e)
        BY DEF IsEvent
    <2> QED
        BY <1>1, <1>2, <1>5, <2>1, <2>2, <2>3, <2>4 DEF RecordInv, LogInv
<1>14. CountInv'
    BY <1>1, <1>2, CountStays DEF RecordInv
<1> QED
    BY <1>11, <1>12, <1>13, <1>14 DEF RecordInv

\* What the driver writes about the events of the run.
LEMMA BackfilledKeeps ==
    ASSUME NEW rows, EventRowsIn(rows), NEW alloc, NEW new, new = Backfilled(rows, alloc)
    PROVE  /\ \A r \in new : r.bidder \in Bidders /\ r.bundle \in Named
           /\ \A i, b : (\E r \in new : r.bidder = i /\ r.bundle = b)
                           <=> \E r \in rows : r.bidder = i /\ r.bundle = b
<1> DEFINE f == [r \in rows |-> [r EXCEPT !.won = alloc[r.bidder] = r.bundle,
                                          !.efficient = Efficient[r.bidder] = r.bundle]]
<1>1. \A q : q \in new <=> \E r \in rows : q = f[r]
    BY DEF Backfilled
<1>2. \A r \in rows : f[r].bidder = r.bidder /\ f[r].bundle = r.bundle
    <2> SUFFICES ASSUME NEW r \in rows
                 PROVE  f[r].bidder = r.bidder /\ f[r].bundle = r.bundle
        OBVIOUS
    <2>1. r = EventRow([bidder |-> r.bidder, bundle |-> r.bundle], r.round)
        BY DEF EventRowsIn
    <2>2. /\ DOMAIN r = {"round", "bidder", "bundle", "won", "efficient"}
        BY <2>1 DEF EventRow
    <2> QED
        BY <2>2
<1>3. \A r \in rows : r.bidder \in Bidders /\ r.bundle \in Named
    BY DEF EventRowsIn
<1> HIDE DEF f
<1>4. \A r \in new : r.bidder \in Bidders /\ r.bundle \in Named
    BY <1>1, <1>2, <1>3
<1>5. ASSUME NEW i, NEW b
      PROVE  (\E r \in new : r.bidder = i /\ r.bundle = b)
                <=> \E r \in rows : r.bidder = i /\ r.bundle = b
    <2>1. ASSUME NEW r \in rows, r.bidder = i, r.bundle = b
          PROVE  \E q \in new : q.bidder = i /\ q.bundle = b
        <3>1. f[r] \in new /\ f[r].bidder = i /\ f[r].bundle = b
            BY <1>1, <1>2, <2>1
        <3> QED
            BY <3>1
    <2>2. ASSUME NEW q \in new, q.bidder = i, q.bundle = b
          PROVE  \E r \in rows : r.bidder = i /\ r.bundle = b
        BY <1>1, <1>2, <2>2
    <2> QED
        BY <2>1, <2>2
<1> QED
    BY <1>4, <1>5

\* There are finitely many events.
LEMMA EventsAreFinite ==
    ASSUME NEW events, \A e \in events : IsEvent(e)
    PROVE  Cardinality(events) \in Nat
<1> DEFINE S == Bidders \X Named
           f == [x \in S |-> [bidder |-> x[1], bundle |-> x[2]]]
<1>1. IsFiniteSet(S)
    BY ListedBidders, NamedFacts, FS_Product
<1>2. \A e \in events : e \in {f[x] : x \in S}
    <2> SUFFICES ASSUME NEW e \in events
                 PROVE  e \in {f[x] : x \in S}
        OBVIOUS
    <2>1. <<e.bidder, e.bundle>> \in S /\ e = f[<<e.bidder, e.bundle>>]
        BY DEF IsEvent
    <2> HIDE DEF f, S
    <2> QED
        BY <2>1
<1> HIDE DEF f, S
<1>3. IsFiniteSet({f[x] : x \in S})
    BY <1>1, FiniteImage
<1> QED
    BY <1>2, <1>3, FS_Subset, FS_CardinalityType

\* The rows of the events of the audit.
LEMMA AuditRowsIn ==
    ASSUME \A e \in terminalEvents : IsEvent(e)
    PROVE  EventRowsIn(EventRowsOf(terminalEvents, Len(history) + 1))
<1> SUFFICES ASSUME NEW r \in EventRowsOf(terminalEvents, Len(history) + 1)
             PROVE  /\ r.bidder \in Bidders /\ r.bundle \in Named
                    /\ r = EventRow([bidder |-> r.bidder, bundle |-> r.bundle], r.round)
    BY DEF EventRowsIn
<1>1. PICK e \in terminalEvents : r = EventRow(e, Len(history) + 1)
    BY DEF EventRowsOf
<1>2. e.bidder \in Bidders /\ e.bundle \in Named
    BY DEF IsEvent
<1> QED
    BY <1>1, <1>2 DEF EventRow

\* The driver reconciles the recorder with the audit and prices.
LEMMA PriceRecorded ==
    ASSUME EInv, EInv', RecordInv, Recording, TPrice
    PROVE  RecordInv'
<1>1. /\ stage = "final" /\ stage' = "priced"
      /\ UNCHANGED <<pc, turn, round, responses, history, supplementary, proxies, issued>>
      /\ UNCHANGED fixed
      /\ UNCHANGED <<bidderRows, seen, pending, terminalEvents>>
    BY DEF TPrice, Price, vars
<1>2. /\ pc = "done" /\ ~Closing /\ ~Closing' /\ pending = {} /\ Len(history) > 0
      /\ Len(history) \in Nat
    <2>1. pc = "done"
        BY <1>1 DEF EInv, EngineInv
    <2> QED
        BY <1>1, <2>1, NoneWaits, ClockFacts DEF Closing
<1> DEFINE audited == terminalEvents # {}
           added == EventRowsOf(terminalEvents, Len(history) + 1)
           C == Cardinality(terminalEvents)
           n == Len(history)
           old == roundRows
           last == Reconciled(old[Len(old)])
<1>3. /\ mirror' = IF audited THEN supplementary ELSE mirror
      /\ roundRows' = IF audited THEN [old EXCEPT ![Len(old)] = last] ELSE old
      /\ eventRows' = Backfilled(eventRows \cup added, outcome')
    BY DEF TPrice
<1>4. /\ old \in Seq(Range(old)) /\ Len(old) = n
      /\ \A k \in DOMAIN old : IsRow(old[k])
      /\ terminalEvents = {} => /\ mirror = supplementary
                                /\ Last(old).queries = QueryCount(proxies)
      /\ Last(old).auction = Priced(mirror)
    <2>1. Behind = n /\ Mirrored = supplementary
        BY <1>2 DEF Behind, Mirrored
    <2>2. old # <<>>
        BY <1>2, <2>1 DEF RecordInv, RowInv
    <2> QED
        BY <1>1, <1>2, <2>1, <2>2 DEF RecordInv, RowInv, MirrorInv
<1>5. C \in Nat
    BY EventsAreFinite DEF RecordInv, LogInv
<1>6. MirrorInv'
    <2>1. mirror' = supplementary
        BY <1>3, <1>4
    <2>2. Mirrored' = supplementary
        BY <1>1, <1>2 DEF Mirrored
    <2>3. \A i \in Bidders : seen'[i] = Demanded(i)' \cup Answered(i)'
        BY <1>1, SeenStays DEF RecordInv, MirrorInv
    <2> HIDE DEF added
    <2> QED
        BY <1>1, <2>1, <2>2, <2>3 DEF RecordInv, MirrorInv
<1>7. /\ DOMAIN old = 1..n /\ n \in 1..n /\ Last(old) = old[n] /\ IsRow(old[n])
    BY <1>2, <1>4 DEF Last
<1>8. /\ IsRow(last) /\ last.events = old[n].events + C
      /\ last.queries = QueryCount(proxies) /\ last.auction = Priced(supplementary)
    <2>1. PICK row : row = old[n]
        OBVIOUS
    <2>2. /\ row = [round |-> row.round, reason |-> row.reason, events |-> row.events,
                    queries |-> row.queries, auction |-> row.auction]
          /\ row.events \in Nat
        BY <1>7, <2>1 DEF IsRow
    <2>3. last = [row EXCEPT !.events = @ + C, !.queries = QueryCount(proxies),
                             !.auction = Priced(supplementary)]
        BY <1>4, <2>1 DEF Reconciled
    <2> HIDE DEF last
    <2>4. last = [round |-> row.round, reason |-> row.reason, events |-> row.events + C,
                  queries |-> QueryCount(proxies), auction |-> Priced(supplementary)]
        BY <2>2, <2>3
    <2> HIDE DEF C
    <2> QED
        BY <1>5, <2>1, <2>2, <2>4 DEF IsRow
<1> HIDE DEF last, C
<1>9. /\ roundRows' \in Seq(Range(roundRows')) /\ Len(roundRows') = n /\ DOMAIN roundRows' = 1..n
      /\ \A k \in 1..n : k # n => roundRows'[k] = old[k]
      /\ Last(roundRows') = roundRows'[n] /\ IsRow(roundRows'[n])
      /\ roundRows'[n].events = old[n].events + C
      /\ roundRows'[n].queries = QueryCount(proxies)
      /\ roundRows'[n].auction = Priced(supplementary)
    <2>1. PICK new : new = roundRows'
        OBVIOUS
    <2> HIDE DEF old, n
    <2>2. CASE audited
        <3>1. new = [old EXCEPT ![Len(old)] = last]
            BY <1>3, <2>1, <2>2
        <3>2. /\ new \in Seq(Range(new)) /\ Len(new) = Len(old)
              /\ DOMAIN new = 1..Len(old)
              /\ \A k \in 1..Len(old) : k # Len(old) => new[k] = old[k]
              /\ new[Len(old)] = last /\ Last(new) = last
            <4>1. PICK rows : rows = old
                OBVIOUS
            <4>2. PICK row : row = last
                OBVIOUS
            <4>3. rows \in Seq(Range(rows)) /\ Len(rows) > 0 /\ new = [rows EXCEPT ![Len(rows)] = row]
                BY <1>2, <1>4, <3>1, <4>1, <4>2 DEF n
            <4>4. new \in Seq(Range(new)) /\ Len(new) = Len(rows) /\ DOMAIN new = 1..Len(rows)
                BY <4>3, CorrectedRow
            <4>5. \A k \in 1..Len(rows) : k # Len(rows) => new[k] = rows[k]
                BY <4>3, CorrectedRow
            <4>6. new[Len(rows)] = row
                BY <4>3
            <4>7. Last(new) = row
                BY <4>4, <4>6 DEF Last
            <4> QED
                BY <4>1, <4>2, <4>4, <4>5, <4>6, <4>7
        <3> QED
            BY <1>4, <1>8, <2>1, <3>2
    <2>3. CASE ~audited
        <3>1. new = old
            BY <1>3, <2>1, <2>3
        <3>2. C = 0
            BY <2>3, FS_EmptySet DEF C
        <3>3. old[n].events + C = old[n].events
            BY <1>7, <3>2 DEF IsRow
        <3> QED
            BY <1>4, <1>7, <2>1, <2>3, <3>1, <3>3
    <2> QED
        BY <2>2, <2>3
<1>10. RowInv'
    <2>1. Behind' = n
        BY <1>1, <1>2 DEF Behind
    <2>2. Priced(mirror)' = Priced(supplementary)
        <3>1. mirror' = supplementary
            BY <1>3, <1>4
        <3> QED
            BY <1>1, <3>1, PricedStays
    <2>3. QueryCount(proxies)' = QueryCount(proxies)
        BY <1>1 DEF QueryCount
    <2>4. \A k \in DOMAIN roundRows' : IsRow(roundRows'[k])
        <3>1. \A k \in 1..n : IsRow(old[k])
            BY <1>4, <1>7
        <3> QED
            BY <1>9, <3>1
    <2>5. \A r : IsRow(r)' <=> IsRow(r)
        BY DEF IsRow
    <2> QED
        BY <1>1, <1>2, <1>9, <2>1, <2>2, <2>3, <2>4, <2>5 DEF RowInv
<1>11. LogInv'
    <2>1. EventRowsIn(eventRows \cup added)
        <3>1. EventRowsIn(eventRows)
            BY <1>1 DEF RecordInv, LogInv, EventRowsIn
        <3>2. \A e \in terminalEvents : IsEvent(e)
            BY DEF RecordInv, LogInv
        <3>3. EventRowsIn(added)
            BY <3>2, AuditRowsIn
        <3> HIDE DEF added
        <3> QED
            BY <3>1, <3>3 DEF EventRowsIn
    <2>2. /\ \A e \in terminalEvents : \E r \in added : r.bidder = e.bidder /\ r.bundle = e.bundle
          /\ \A r \in added : \E e \in terminalEvents : r.bidder = e.bidder /\ r.bundle = e.bundle
        <3>1. ASSUME NEW e \in terminalEvents
              PROVE  \E r \in added : r.bidder = e.bidder /\ r.bundle = e.bundle
            <4> DEFINE r == EventRow(e, Len(history) + 1)
            <4>1. r \in added /\ r.bidder = e.bidder /\ r.bundle = e.bundle
                BY DEF EventRow, EventRowsOf
            <4> HIDE DEF r, added
            <4> QED
                BY <4>1
        <3>2. ASSUME NEW r \in added
              PROVE  \E e \in terminalEvents : r.bidder = e.bidder /\ r.bundle = e.bundle
            BY DEF EventRow, EventRowsOf
        <3> QED
            BY <3>1, <3>2
    <2> HIDE DEF added
    <2>3. PICK before : before = eventRows \cup added
        OBVIOUS
    <2>4. PICK new : new = eventRows'
        OBVIOUS
    <2>5. PICK alloc : alloc = outcome'
        OBVIOUS
    <2>6. /\ \A r \in new : r.bidder \in Bidders /\ r.bundle \in Named
          /\ \A i, b : (\E r \in new : r.bidder = i /\ r.bundle = b)
                          <=> \E r \in before : r.bidder = i /\ r.bundle = b
        <3>1. EventRowsIn(before) /\ new = Backfilled(before, alloc)
            BY <1>3, <2>1, <2>3, <2>4, <2>5
        <3> QED
            BY <3>1, BackfilledKeeps
    <2>7. \A i, b : (\E r \in new : r.bidder = i /\ r.bundle = b)
                       <=> \/ \E r \in eventRows : r.bidder = i /\ r.bundle = b
                           \/ \E e \in terminalEvents : e.bidder = i /\ e.bundle = b
        BY <2>2, <2>3, <2>6
    <2>8. ASSUME NEW i \in Bidders, NEW b \in Named
          PROVE  b \in issued'[i] <=> Noted(i, b)'
        <3>1. b \in issued[i] <=> Noted(i, b)
            BY DEF RecordInv, LogInv
        <3>2. Noted(i, b) <=> \E r \in new : r.bidder = i /\ r.bundle = b
            BY <1>2, <2>7 DEF Noted
        <3>3. Noted(i, b)' <=> \/ \E r \in new : r.bidder = i /\ r.bundle = b
                               \/ \E e \in terminalEvents : e.bidder = i /\ e.bundle = b
            BY <1>1, <1>2, <2>4 DEF Noted
        <3> QED
            BY <1>1, <2>7, <3>1, <3>2, <3>3
    <2>9. \A e \in terminalEvents : \E r \in new : r.bidder = e.bidder /\ r.bundle = e.bundle
        <3> SUFFICES ASSUME NEW e \in terminalEvents
                     PROVE  \E r \in new : r.bidder = e.bidder /\ r.bundle = e.bundle
            OBVIOUS
        <3>1. PICK i, b : i = e.bidder /\ b = e.bundle
            OBVIOUS
        <3>2. \E d \in terminalEvents : d.bidder = i /\ d.bundle = b
            BY <3>1
        <3>3. \E r \in new : r.bidder = i /\ r.bundle = b
            BY <2>7, <3>2
        <3> QED
            BY <3>1, <3>3
    <2>10. \A e : IsEvent(e)' <=> IsEvent(e)
        BY DEF IsEvent
    <2> QED
        BY <1>1, <1>2, <2>4, <2>6, <2>8, <2>9, <2>10 DEF RecordInv, LogInv
<1>12. CountInv'
    <2>1. \A k : Counted(k)' = Counted(k)
        BY <1>1 DEF Counted, CountOf
    <2>2. \A k \in 1..n : old[k].events = Counted(k)
        BY <1>1, <1>7 DEF RecordInv, CountInv
    <2>3. \A b \in bidderRows' : b.round \in DOMAIN roundRows'
        BY <1>1, <1>7, <1>9 DEF RecordInv, CountInv
    <2>4. \A k \in 1..n : roundRows'[k].events = IF k = n THEN Counted(k) + C ELSE Counted(k)
        BY <1>9, <2>2
    <2> QED
        BY <1>1, <1>9, <2>1, <2>3, <2>4 DEF CountInv, C
<1> QED
    BY <1>6, <1>10, <1>11, <1>12 DEF RecordInv

-----------------------------------------------------------------------------
(* The recorder follows the clock.                                         *)

\* Nothing is recorded before the clock starts.
LEMMA RecordInit ==
    ASSUME TInit
    PROVE  RecordInv
<1>1. EInv
    BY EInvInit DEF TInit
<1>2. /\ mirror = [i \in Bidders |-> NoAtoms] /\ roundRows = <<>> /\ bidderRows = {}
      /\ eventRows = {} /\ seen = [i \in Bidders |-> {}] /\ pending = {} /\ terminalEvents = {}
      /\ stage = "clock" /\ issued = [i \in Bidders |-> {}]
    BY DEF TInit, EInit
<1>3. /\ supplementary = [i \in Bidders |-> NoAtoms] /\ history = <<>> /\ pc = "ask" /\ turn = 1
    <2>1. MaxRounds # 0
        BY ElicitationAssumption, ConfigAssumption
    <2> QED
        BY <2>1 DEF TInit, EInit, Init
<1>4. ~Closing /\ \A i \in Bidders : Answered(i) = {}
    BY <1>1, <1>3, ClockFacts, NoAnswers DEF Closing
<1>5. \A i \in Bidders : Demanded(i) = {}
    BY <1>3 DEF Demanded
<1>6. MirrorInv
    BY <1>2, <1>3, <1>4, <1>5 DEF MirrorInv, Mirrored
<1>7. RowInv
    <2>1. roundRows \in Seq(Range(roundRows)) /\ Len(roundRows) = 0 /\ DOMAIN roundRows = {}
        BY <1>2
    <2>2. Behind = 0
        BY <1>3, <1>4 DEF Behind
    <2> QED
        BY <1>2, <1>3, <1>4, <2>1, <2>2 DEF RowInv
<1>8. LogInv
    BY <1>2 DEF LogInv, Noted
<1>9. CountInv
    BY <1>2 DEF CountInv
<1> QED
    BY <1>6, <1>7, <1>8, <1>9 DEF RecordInv

\* Nothing is recorded when nothing happens.
LEMMA RecordStutters ==
    ASSUME RecordInv, UNCHANGED tvars
    PROVE  RecordInv'
<1>1. /\ UNCHANGED <<pc, turn, round, responses, history, supplementary, stage, proxies, issued>>
      /\ UNCHANGED fixed
      /\ UNCHANGED <<mirror, roundRows, bidderRows, eventRows, seen, pending, terminalEvents>>
    BY DEF tvars, evars, vars, recorderVars, fixed
<1>2. Closing' <=> Closing
    BY <1>1 DEF Closing
<1>3. MirrorInv'
    <2>1. Mirrored' = Mirrored
        BY <1>1, <1>2 DEF Mirrored
    <2>2. \A i \in Bidders : seen'[i] = Demanded(i)' \cup Answered(i)'
        BY <1>1, SeenStays DEF RecordInv, MirrorInv
    <2> QED
        BY <1>1, <2>1, <2>2 DEF RecordInv, MirrorInv
<1>4. RowInv'
    <2>1. Behind' = Behind /\ StoppedReason' = StoppedReason
        BY <1>1, <1>2 DEF Behind, StoppedReason
    <2>2. Priced(mirror)' = Priced(mirror)
        BY <1>1, PricedStays
    <2>3. QueryCount(proxies)' = QueryCount(proxies)
        BY <1>1 DEF QueryCount
    <2>4. StopReason([i \in Bidders |-> DemandList(responses[i])])'
              = StopReason([i \in Bidders |-> DemandList(responses[i])])
        BY <1>1 DEF StopReason
    <2> QED
        BY <1>1, <1>2, <2>1, <2>2, <2>3, <2>4 DEF RecordInv, RowInv, IsRow
<1>5. LogInv'
    <2>1. \A i, b : Noted(i, b)' <=> Noted(i, b)
        BY <1>1 DEF Noted
    <2>2. \A r : (r = EventRow([bidder |-> r.bidder, bundle |-> r.bundle], r.round))' <=>
                 r = EventRow([bidder |-> r.bidder, bundle |-> r.bundle], r.round)
        BY DEF EventRow
    <2>3. \A e : IsEvent(e)' <=> IsEvent(e)
        BY DEF IsEvent
    <2> QED
        BY <1>1, <2>1, <2>2, <2>3 DEF RecordInv, LogInv
<1>6. CountInv'
    <2>1. \A k : Counted(k)' = Counted(k)
        BY <1>1 DEF Counted, CountOf
    <2> QED
        BY <1>1, <2>1 DEF RecordInv, CountInv
<1> QED
    BY <1>3, <1>4, <1>5, <1>6 DEF RecordInv

\* Whether the run is recorded is settled from the start.
LEMMA RecordingStays ==
    ASSUME [TNext]_tvars
    PROVE  Recording' = Recording
<1>1. UNCHANGED fixed
    <2>1. CASE TAuditAllocation
        BY <2>1 DEF TAuditAllocation, AuditAllocation
    <2>2. CASE TElicit
        BY <2>2 DEF TElicit, Elicit, RespondRefined
    <2>3. CASE TRun
        BY <2>3 DEF TRun, Run, Synchronise
    <2>4. CASE TAudit
        BY <2>4 DEF TAudit, StabilityAudit, VerifyWitnesses, CloseWinners, CloseStaged, Loop, Queried
    <2>5. CASE TPrice
        BY <2>5 DEF TPrice, Price
    <2>6. CASE UNCHANGED tvars
        BY <2>6 DEF tvars, evars, fixed
    <2> QED
        BY <2>1, <2>2, <2>3, <2>4, <2>5, <2>6 DEF TNext
<1> QED
    BY <1>1 DEF Recording, fixed

\* Every step keeps the records in order.
LEMMA RecordNext ==
    ASSUME EInv, Recording => RecordInv, [TNext]_tvars
    PROVE  EInv' /\ (Recording' => RecordInv')
<1>1. [ENext]_evars
    BY DEF TNext, TAuditAllocation, TElicit, TRun, TAudit, TPrice, ENext, tvars
<1>2. EInv'
    BY <1>1, EInvNext
<1>3. Recording' = Recording
    BY RecordingStays
<1>4. ASSUME Recording
      PROVE  RecordInv'
    BY <1>2, <1>4, AuditAllocationRecorded, ElicitRecorded, RunRecorded, AuditRecorded,
       PriceRecorded, RecordStutters DEF TNext
<1> QED
    BY <1>2, <1>3, <1>4

\* Records in order follow the clock.
LEMMA RecordsFollow ==
    ASSUME EInv, Recording => RecordInv
    PROVE  RowsFollowTheClock
<1> SUFFICES ASSUME RecordInv
             PROVE  /\ RoundsAreFollowed
                    /\ stage = "priced" =>
                           /\ mirror = supplementary
                           /\ Last(roundRows).auction.allocation = outcome
                           /\ Last(roundRows).queries = QueryCount(proxies)
                           /\ EventsAreLogged
    BY DEF RowsFollowTheClock
<1>1. ASSUME stage = "clock", turn = 1, history # <<>>
      PROVE  /\ mirror = supplementary
             /\ Len(roundRows) = Len(history)
             /\ \A i \in Bidders : seen[i] = UNION {Range(history[k].demands[i]) : k \in DOMAIN history}
             /\ Last(roundRows).reason = StoppedReason
    <2>1. ~Closing
        BY <1>1, ClockFacts
    <2>2. \A i \in Bidders : Answered(i) = {}
        BY <1>1, NoAnswers
    <2>3. \A i \in Bidders : seen[i] = UNION {Range(history[k].demands[i]) : k \in DOMAIN history}
        BY <2>2 DEF RecordInv, MirrorInv, Demanded
    <2> QED
        BY <1>1, <2>1, <2>3 DEF RecordInv, MirrorInv, Mirrored, RowInv, Behind
<1>2. RoundsAreFollowed
    BY <1>1 DEF RoundsAreFollowed, StoppedReason
<1>3. ASSUME stage = "priced"
      PROVE  /\ mirror = supplementary
             /\ Last(roundRows).auction.allocation = outcome
             /\ Last(roundRows).queries = QueryCount(proxies)
             /\ EventsAreLogged
    <2>1. pc = "done" /\ ~Closing /\ pending = {} /\ Len(history) > 0
        <3>1. pc = "done"
            BY <1>3 DEF EInv, EngineInv
        <3> QED
            BY <3>1, NoneWaits, ClockFacts DEF Closing
    <2>2. mirror = supplementary /\ Last(roundRows).queries = QueryCount(proxies)
        BY <1>3, <2>1 DEF RecordInv, MirrorInv, RowInv
    <2>3. Last(roundRows).auction.allocation = outcome
        <3>1. Last(roundRows).auction = Priced(mirror)
            <4>1. roundRows # <<>>
                BY <2>1 DEF RecordInv, RowInv, Behind
            <4> QED
                BY <4>1 DEF RecordInv, RowInv
        <3>2. Priced(mirror).allocation = Solve(mirror)
            BY DEF Priced
        <3>3. outcome = Solve(supplementary)
            BY <1>3 DEF EInv, FinalInv
        <3> QED
            BY <2>2, <3>1, <3>2, <3>3
    <2>4. \A i \in Bidders : issued[i] = {r.bundle : r \in {e \in eventRows : e.bidder = i}}
        <3>1. issued \in [Bidders -> SUBSET Named]
            BY SessionIs, SessionFields DEF EInv, BookInv
        <3>2. \A i \in Bidders : \A b \in Named : b \in issued[i] <=> Noted(i, b)
            BY DEF RecordInv, LogInv
        <3>3. \A i, b : Noted(i, b) <=> \E r \in eventRows : r.bidder = i /\ r.bundle = b
            <4>1. \A e \in terminalEvents : \E r \in eventRows : r.bidder = e.bidder /\ r.bundle = e.bundle
                BY <1>3 DEF RecordInv, LogInv
            <4> QED
                BY <2>1, <4>1 DEF Noted
        <3>4. \A r \in eventRows : r.bundle \in Named
            BY DEF RecordInv, LogInv
        <3> SUFFICES ASSUME NEW i \in Bidders
                     PROVE  issued[i] = {r.bundle : r \in {e \in eventRows : e.bidder = i}}
            OBVIOUS
        <3>5. \A b : b \in issued[i] <=> \E r \in eventRows : r.bidder = i /\ r.bundle = b
            BY <3>1, <3>2, <3>3, <3>4
        <3> QED
            BY <3>5
    <2>5. ASSUME NEW k \in DOMAIN roundRows
          PROVE  roundRows[k].events =
                     Counted(k) + (IF k = Len(history) THEN Cardinality(terminalEvents) ELSE 0)
        <3>1. roundRows[k].events = IF k = Len(history) THEN Counted(k) + Cardinality(terminalEvents)
                                    ELSE Counted(k)
            BY <1>3 DEF RecordInv, CountInv
        <3>2. roundRows[k].events \in Nat
            BY DEF RecordInv, RowInv, IsRow
        <3>3. CASE k = Len(history)
            BY <3>1, <3>3
        <3>4. CASE k # Len(history)
            BY <3>1, <3>2, <3>4
        <3> QED
            BY <3>3, <3>4
    <2>6. EventsAreLogged
        BY <2>4, <2>5 DEF EventsAreLogged, Counted, CountOf
    <2> QED
        BY <2>2, <2>3, <2>6
<1> QED
    BY <1>2, <1>3

\* The recorder, which sees the answers only, agrees with the run at the end of every round
\* and in the end: its mirror holds the bids, its last row tells why the clock stopped and of
\* the allocation that is priced, and no event is lost or counted twice.
THEOREM RecorderFollowsTheClock == TSpec => []RowsFollowTheClock
<1> DEFINE Inv == EInv /\ (Recording => RecordInv)
<1>1. TInit => Inv
    BY EInvInit, RecordInit DEF TInit
<1>2. Inv /\ [TNext]_tvars => Inv'
    BY RecordNext
<1>3. Inv => RowsFollowTheClock
    BY RecordsFollow
<1> QED
    BY <1>1, <1>2, <1>3, PTL DEF TSpec
-----------------------------------------------------------------------------
(* What a verdict rests on.                                                *)

\* What an award is worth is a number.
LEMMA WorthIs ==
    ASSUME Settings
    PROVE  \A alloc : TrueWelfare(alloc) \in Nat
<1> SUFFICES ASSUME NEW alloc
             PROVE  TrueWelfare(alloc) \in Nat
    OBVIOUS
<1> DEFINE f == [i \in Bidders |-> ValueOf(truth[i], alloc[i])]
<1>1. \A i \in Bidders : IsBid(truth[i])
    <2>1. \A i \in Bidders : truth[i] \in [Named -> Nat]
        BY ElicitationAssumption DEF Settings
    <2>2. IsFiniteSet(Named) /\ {} \notin Named
        BY NamedFacts
    <2> QED
        BY <2>1, <2>2 DEF IsBid
<1>2. DOMAIN f = Bidders /\ \A i \in Bidders : f[i] \in Nat
    BY <1>1, ValueOfBest
<1>3. TrueWelfare(alloc) = SumFunctionOnSet(f, DOMAIN f)
    BY DEF TrueWelfare, SumFunction
<1> HIDE DEF f
<1> QED
    BY <1>2, <1>3, ListedBidders, SumIsNat

\* The worth of the award of every row is a number, and the last row says why the clock
\* stopped.
WorthInv ==
    /\ \A k \in DOMAIN roundRows : roundRows[k].auction.achieved \in Nat
    /\ pc # "ask" => \/ Last(roundRows).reason # "max_rounds_reached"
                     \/ ~NoExcess(Excess(Last(history).demands))

\* What a verdict says is so, once there is one.
Earned ==
    /\ verdict = "late_refinement_worsened_final_allocation" =>
           \E k \in 1..Len(history) - 1 :
               roundRows[k].auction.achieved > TrueWelfare(outcome)
    /\ verdict = "hit_max_rounds_unconverged" =>
           ~NoExcess(Excess(Last(history).demands))
    /\ verdict = "seen_but_not_refined" =>
           \E i \in Bidders : Efficient[i] \in NamedInHistory(i) \ issued[i]
    /\ \A r \in eventRows : r.won <=> outcome[r.bidder] = r.bundle

\* Worth and reasons stay with the rows and the rounds.
LEMMA WorthStays ==
    ASSUME WorthInv, UNCHANGED <<roundRows, history>>, pc = "ask" => pc' = "ask"
    PROVE  WorthInv'
BY DEF WorthInv, Excess

\* The last answer of a round brings a row.
LEMMA LastAnswerAppends ==
    ASSUME TElicit, Recording, turn = Len(Order)
    PROVE  \E row : roundRows' = Append(roundRows, row)
<1> DEFINE atoms == [j \in Bidders |-> Recorded(mirror[j], responses'[j].atoms)]
           demands == [j \in Bidders |-> DemandList(responses'[j])]
           row == RoundRow(StopReason(demands), atoms, eventRows')
<1>1. roundRows' = IF turn = Len(Order) THEN Append(roundRows, row) ELSE roundRows
    BY ZenonT(30) DEF TElicit, FinalizeRound, StopReason
<1> HIDE DEF row
<1> QED
    BY <1>1

\* The last bidder of a round has answered: its row is priced.
LEMMA ElicitWorth ==
    ASSUME EInv, EInv', RecordInv, RecordInv', WorthInv, Recording, TElicit
    PROVE  WorthInv'
<1>0. PICK i : i = Order[turn]
    OBVIOUS
<1>1. pc = "ask" /\ pc' = "ask" /\ UNCHANGED fixed
    BY <1>0, ElicitIs DEF TElicit
<1>2. CASE turn # Len(Order)
    <2>1. roundRows' = roundRows
        BY <1>2 DEF TElicit
    <2> QED
        BY <1>1, <2>1 DEF WorthInv
<1>3. CASE turn = Len(Order)
    <2>1. PICK row : roundRows' = Append(roundRows, row)
        BY <1>3, LastAnswerAppends
    <2> DEFINE rows == roundRows
               new == roundRows'
    <2>2. rows \in Seq(Range(rows))
        BY DEF RecordInv, RowInv
    <2>3. new = Append(rows, row)
        BY <2>1
    <2>4. Last(new).auction.achieved \in Nat
        <3>1. new # <<>>
            <4> HIDE DEF rows, new
            <4> QED
                BY <2>2, <2>3
        <3>2. PICK atoms : atoms = mirror'
            OBVIOUS
        <3>3. Last(new).auction = Priced(atoms)
            BY <1>1, <3>1, <3>2, PricedStays DEF RecordInv, RowInv
        <3>4. Priced(atoms).achieved \in Nat
            BY WorthIs DEF EInv, BookInv, Priced
        <3> HIDE DEF new
        <3> QED
            BY <3>3, <3>4
    <2>5. \A k \in DOMAIN rows : rows[k].auction.achieved \in Nat
        BY DEF WorthInv
    <2> HIDE DEF rows, new
    <2>6. /\ DOMAIN rows = 1..Len(rows) /\ DOMAIN new = 1..Len(new) /\ Len(rows) \in Nat
          /\ Len(new) = Len(rows) + 1 /\ new[Len(new)] = Last(new)
          /\ \A k \in 1..Len(rows) : new[k] = rows[k]
        <3>1. /\ DOMAIN rows = 1..Len(rows) /\ DOMAIN new = 1..Len(new)
              /\ Len(rows) \in Nat /\ Len(new) = Len(rows) + 1
            BY <2>2, <2>3, AppendedRow
        <3>2. \A k \in 1..Len(rows) : new[k] = rows[k]
            BY <2>2, <2>3, AppendedRow
        <3> QED
            BY <3>1, <3>2 DEF Last
    <2>7. \A k \in DOMAIN new : new[k].auction.achieved \in Nat
        <3> SUFFICES ASSUME NEW k \in DOMAIN new
                     PROVE  new[k].auction.achieved \in Nat
            OBVIOUS
        <3>1. CASE k = Len(new)
            BY <2>4, <2>6, <3>1
        <3>2. CASE k # Len(new)
            <4>1. k \in 1..Len(rows)
                BY <2>6, <3>2
            <4> QED
                BY <2>5, <2>6, <4>1
        <3> QED
            BY <3>1, <3>2
    <2> QED
        BY <1>1, <2>7 DEF WorthInv, new
<1> QED
    BY <1>2, <1>3

\* The clock records the round, and the recorder knew why it would stop.
LEMMA CloseRoundWorth ==
    ASSUME EInv, EInv', RecordInv, WorthInv, Run, CloseRound, UNCHANGED recorderVars
    PROVE  WorthInv'
<1> DEFINE demands == [i \in Bidders |-> DemandList(responses[i])]
           rec == [prices |-> prices, demands |-> demands]
<1>1. /\ Closing /\ history' = Append(history, rec) /\ roundRows' = roundRows
    BY DEF CloseRound, Closing, recorderVars
<1>2. Last(roundRows).reason = StopReason(demands)
    BY <1>1 DEF RecordInv, RowInv
<1>3. Last(history') = rec
    <2>1. TypeOK /\ demands \in [Bidders -> Demands]
        BY <1>1, AllAnswered, ClockFacts DEF EInv, EngineInv, Closing
    <2>2. /\ history \in Seq([prices : [Items -> Nat], demands : [Bidders -> Demands]])
          /\ rec \in [prices : [Items -> Nat], demands : [Bidders -> Demands]]
        BY <2>1 DEF TypeOK
    <2> HIDE DEF rec
    <2>3. Len(history') = Len(history) + 1 /\ history'[Len(history')] = rec
        BY <1>1, <2>2, AppendedRound
    <2> QED
        BY <1>1, <2>3 DEF Last
<1>4. rec.demands = demands
    OBVIOUS
<1> HIDE DEF demands, rec
<1>5. \/ Last(roundRows).reason # "max_rounds_reached"
      \/ ~NoExcess(Excess(Last(history').demands))
    <2>1. NoExcess(Excess(demands)) => Last(roundRows).reason = "no_excess_demand"
        BY <1>2 DEF StopReason
    <2> QED
        BY <1>3, <1>4, <2>1
<1> QED
    BY <1>1, <1>5 DEF WorthInv, Excess

\* What a classification is made of.
LEMMA ClassifiedMeans ==
    ASSUME Settings, NEW final \in Nat, NEW rows, NEW coverage, NEW label,
           label = Classified(final, rows, coverage)
    PROVE  /\ label = "late_refinement_worsened_final_allocation" =>
                  100 * (BestAchieved(rows) - final) > 5 * Ideal
           /\ label = "hit_max_rounds_unconverged" => Last(rows).reason = "max_rounds_reached"
           /\ label = "seen_but_not_refined" => \E c \in coverage : c.seen /\ ~c.refined
<1>1. Ideal \in Nat
    BY WorthIs DEF Ideal
<1>2. CASE final >= Ideal
    BY <1>1, <1>2 DEF Classified
<1>3. CASE final < Ideal /\ 100 * (BestAchieved(rows) - final) > 5 * Ideal
    BY <1>1, <1>3 DEF Classified
<1>4. CASE ~(final >= Ideal) /\ ~(100 * (BestAchieved(rows) - final) > 5 * Ideal)
    BY <1>1, <1>4 DEF Classified
<1> QED
    BY <1>1, <1>2, <1>3, <1>4

\* An event row, filled in, says whether its bundle was awarded.
LEMMA BackfilledSays ==
    ASSUME NEW rows, EventRowsIn(rows), NEW alloc, NEW e \in Backfilled(rows, alloc)
    PROVE  e.won <=> alloc[e.bidder] = e.bundle
<1> DEFINE f == [r \in rows |-> [r EXCEPT !.won = alloc[r.bidder] = r.bundle,
                                          !.efficient = Efficient[r.bidder] = r.bundle]]
<1>1. \E q \in rows : e = f[q]
    BY DEF Backfilled
<1>2. PICK q \in rows : e = f[q]
    BY <1>1
<1>3. q = EventRow([bidder |-> q.bidder, bundle |-> q.bundle], q.round)
    BY DEF EventRowsIn
<1>4. DOMAIN q = {"round", "bidder", "bundle", "won", "efficient"}
    BY <1>3 DEF EventRow
<1>5. e.bidder = q.bidder /\ e.bundle = q.bundle /\ e.won = (alloc[q.bidder] = q.bundle)
    BY <1>2, <1>4
<1> QED
    BY <1>5

\* The driver reconciles the rows, prices, and classifies what the rows say.
LEMMA PriceEarned ==
    ASSUME EInv, EInv', RecordInv, RecordInv', WorthInv, Recording, TPrice
    PROVE  WorthInv' /\ Earned'
<1>1. /\ stage = "final" /\ stage' = "priced" /\ outcome' = Solve(supplementary)
      /\ UNCHANGED <<pc, turn, round, responses, history, supplementary, proxies, issued>>
      /\ UNCHANGED fixed /\ seen' = seen
    BY DEF TPrice, Price, vars
<1>2. /\ pc = "done" /\ ~Closing /\ Len(history) \in Nat /\ Len(history) > 0
      /\ \A i \in Bidders : seen[i] = NamedInHistory(i)
    <2>1. pc = "done"
        BY <1>1 DEF EInv, EngineInv
    <2>2. \A i \in Bidders : Answered(i) = {}
        BY <2>1, NoAnswers
    <2> QED
        BY <2>1, <2>2, ClockFacts DEF Closing, RecordInv, MirrorInv, Demanded, NamedInHistory
<1>3. Settings /\ Settings' /\ Efficient' = Efficient /\ \A a : TrueWelfare(a)' = TrueWelfare(a)
    BY <1>1 DEF EInv, BookInv, Efficient, Solve, TrueWelfare, fixed
<1> DEFINE final == TrueWelfare(outcome')
           n == Len(history)
           old == roundRows
           new == roundRows'
<1>4. final \in Nat
    BY <1>3, WorthIs
<1>5. /\ old \in Seq(Range(old)) /\ Len(old) = n /\ new \in Seq(Range(new)) /\ Len(new) = n
      /\ DOMAIN old = 1..n /\ DOMAIN new = 1..n
      /\ Last(old) = old[n] /\ Last(new) = new[n] /\ IsRow(old[n])
    <2>1. old \in Seq(Range(old)) /\ Len(old) = n /\ \A k \in DOMAIN old : IsRow(old[k])
        BY <1>2 DEF RecordInv, RowInv, Behind
    <2>2. new \in Seq(Range(new)) /\ Len(new) = n
        <3>1. ~Closing'
            BY <1>1, <1>2 DEF Closing
        <3> QED
            BY <1>1, <3>1 DEF RecordInv, RowInv, Behind
    <2> HIDE DEF old, new
    <2> QED
        BY <1>2, <2>1, <2>2 DEF Last
<1>6. new = IF terminalEvents # {} THEN [old EXCEPT ![n] = Reconciled(@)] ELSE old
    BY <1>5 DEF TPrice
<1>7. \A k \in 1..n : k # n => new[k] = old[k]
    <2>1. PICK rows, row : rows = old /\ row = Reconciled(old[n])
        OBVIOUS
    <2>2. new = IF terminalEvents # {} THEN [rows EXCEPT ![n] = row] ELSE rows
        BY <1>6, <2>1
    <2>3. \A k \in 1..n : k # n => new[k] = rows[k]
        <3> HIDE DEF new, old, n
        <3> QED
            BY <2>2
    <2> QED
        BY <2>1, <2>3
<1>8. new[n].reason = old[n].reason
    <2>1. CASE terminalEvents # {}
        <3>1. new[n] = Reconciled(old[n])
            BY <1>2, <1>5, <1>6, <2>1
        <3>2. PICK row : row = old[n]
            OBVIOUS
        <3>3. row = [round |-> row.round, reason |-> row.reason, events |-> row.events,
                     queries |-> row.queries, auction |-> row.auction]
            BY <1>5, <3>2 DEF IsRow
        <3>4. Reconciled(row).reason = row.reason
            BY <3>3 DEF Reconciled
        <3> QED
            BY <3>1, <3>2, <3>4
    <2>2. CASE terminalEvents = {}
        BY <1>6, <2>2
    <2> QED
        BY <2>1, <2>2
<1>9. new[n].auction.achieved = final
    <2>1. mirror' = supplementary
        BY <1>1 DEF RecordInv, MirrorInv
    <2>2. new # <<>>
        BY <1>2, <1>5
    <2>3. new[n].auction = Priced(supplementary)
        BY <1>1, <1>5, <2>1, <2>2, PricedStays DEF RecordInv, RowInv
    <2> QED
        BY <1>1, <2>3 DEF Priced
<1>10. \A k \in 1..n : new[k].auction.achieved \in Nat
    <2>1. \A k \in 1..n : old[k].auction.achieved \in Nat
        BY <1>5 DEF WorthInv
    <2> HIDE DEF old, new, final, n
    <2> QED
        BY <1>4, <1>7, <1>9, <2>1
<1>11. Last(new).reason = "max_rounds_reached" => ~NoExcess(Excess(Last(history).demands))
    BY <1>2, <1>5, <1>8 DEF WorthInv
<1>12. WorthInv'
    BY <1>1, <1>5, <1>10, <1>11 DEF WorthInv, Excess
<1>13. verdict' = Classified(final, new, CoverageRows)
    BY <1>5 DEF TPrice
<1>14. /\ verdict' = "late_refinement_worsened_final_allocation" =>
              100 * (BestAchieved(new) - final) > 5 * Ideal
       /\ verdict' = "hit_max_rounds_unconverged" => Last(new).reason = "max_rounds_reached"
       /\ verdict' = "seen_but_not_refined" => \E c \in CoverageRows : c.seen /\ ~c.refined
    <2>1. PICK label, rows, coverage : /\ label = verdict' /\ rows = new
                                       /\ coverage = CoverageRows
        OBVIOUS
    <2> HIDE DEF new, final
    <2> QED
        BY <1>3, <1>4, <1>13, <2>1, ClassifiedMeans
<1>15. ASSUME verdict' = "late_refinement_worsened_final_allocation"
       PROVE  \E k \in 1..n - 1 : new[k].auction.achieved > final
    <2> DEFINE S == {new[k].auction.achieved : k \in DOMAIN new}
    <2>1. IsFiniteSet(S) /\ S \subseteq Int /\ S # {}
        <3>1. IsFiniteSet(1..n) /\ n \in 1..n
            BY <1>2, FS_Interval
        <3> DEFINE f == [k \in 1..n |-> new[k].auction.achieved]
        <3>2. S = {f[k] : k \in 1..n}
            BY <1>5
        <3>3. \A k \in 1..n : f[k] \in Int
            BY <1>10
        <3> HIDE DEF f, S
        <3>4. IsFiniteSet({f[k] : k \in 1..n})
            BY <3>1, FiniteImage
        <3> QED
            BY <3>1, <3>2, <3>3, <3>4
    <2>2. Max(S) \in S /\ BestAchieved(new) = Max(S)
        <3>1. BestAchieved(new) = Max(S)
            BY DEF BestAchieved
        <3> HIDE DEF S
        <3> QED
            BY <2>1, <3>1, MaxIsGreatest
    <2>3. PICK k \in 1..n : new[k].auction.achieved = BestAchieved(new)
        BY <1>5, <2>2
    <2>4. 100 * (new[k].auction.achieved - final) > 5 * Ideal /\ Ideal \in Nat
        BY <1>3, <1>14, <1>15, <2>3, WorthIs DEF Ideal
    <2>5. new[k].auction.achieved \in Nat
        BY <1>10
    <2> HIDE DEF new, final, n
    <2>6. new[k].auction.achieved > final
        BY <1>4, <2>4, <2>5
    <2>7. k # n
        BY <1>4, <1>9, <2>6
    <2>8. k \in 1..n - 1
        BY <1>2, <2>7 DEF n
    <2> QED
        BY <2>6, <2>8
<1>16. ASSUME verdict' = "seen_but_not_refined"
       PROVE  \E i \in Bidders : Efficient[i] \in NamedInHistory(i) \ issued[i]
    <2>1. PICK c \in CoverageRows : c.seen /\ ~c.refined
        BY <1>14, <1>16
    <2>2. PICK i \in Bidders : c = Coverage(i)
        BY <2>1 DEF CoverageRows
    <2>3. Efficient[i] \in seen[i] /\ Efficient[i] \notin proxies[i].refined
        BY <2>1, <2>2 DEF Coverage
    <2>4. issued[i] \subseteq proxies[i].refined
        BY SessionFields DEF EInv, BookInv, Sessions
    <2> QED
        BY <1>2, <2>3, <2>4
<1>17. ASSUME NEW e \in eventRows'
       PROVE  e.won <=> outcome'[e.bidder] = e.bundle
    <2>1. PICK added : added = EventRowsOf(terminalEvents, Len(history) + 1)
        OBVIOUS
    <2>2. PICK before, alloc : before = eventRows \cup added /\ alloc = outcome'
        OBVIOUS
    <2>3. eventRows' = Backfilled(before, alloc)
        BY <2>1, <2>2 DEF TPrice
    <2>4. EventRowsIn(eventRows)
        BY <1>1 DEF RecordInv, LogInv, EventRowsIn
    <2>5. EventRowsIn(added)
        BY <2>1, AuditRowsIn DEF RecordInv, LogInv
    <2>6. EventRowsIn(before)
        BY <2>2, <2>4, <2>5 DEF EventRowsIn
    <2> QED
        BY <2>2, <2>3, <2>6, BackfilledSays
<1>18. Earned'
    <2>1. \A i \in Bidders : NamedInHistory(i)' = NamedInHistory(i)
        BY <1>1 DEF NamedInHistory
    <2>2. Excess(Last(history).demands)' = Excess(Last(history).demands)
        BY <1>1 DEF Excess
    <2>3. verdict' = "late_refinement_worsened_final_allocation" =>
              \E k \in 1..Len(history) - 1 : new[k].auction.achieved > TrueWelfare(outcome)'
        BY <1>3, <1>15 DEF TrueWelfare
    <2>4. verdict' = "hit_max_rounds_unconverged" => ~NoExcess(Excess(Last(history).demands))
        BY <1>11, <1>14
    <2>5. verdict' = "seen_but_not_refined" =>
              \E i \in Bidders : Efficient'[i] \in NamedInHistory(i)' \ issued'[i]
        BY <1>1, <1>3, <1>16, <2>1
    <2> HIDE DEF final
    <2> QED
        BY <1>1, <1>17, <2>2, <2>3, <2>4, <2>5 DEF Earned
<1> QED
    BY <1>12, <1>18

\* Nothing else touches a verdict.
LEMMA EarnedNext ==
    ASSUME EInv, EInv', [TNext]_tvars,
           Recording => RecordInv /\ WorthInv /\ (stage = "priced" => Earned),
           (Recording => RecordInv)'
    PROVE  (Recording => RecordInv /\ WorthInv /\ (stage = "priced" => Earned))'
<1>1. Recording' = Recording
    BY RecordingStays
<1> SUFFICES ASSUME Recording, RecordInv, RecordInv', WorthInv, stage = "priced" => Earned
             PROVE  WorthInv' /\ (stage' = "priced" => Earned')
    BY <1>1
<1>2. stage = "priced" => pc = "done"
    BY DEF EInv, EngineInv
<1>3. CASE TAuditAllocation
    <2>1. pc = "ask" /\ UNCHANGED <<roundRows, history, pc, stage>>
        BY <1>3 DEF TAuditAllocation, AuditAllocation, vars
    <2> QED
        BY <1>2, <2>1, WorthStays
<1>4. CASE TElicit
    <2>1. PICK i : i = Order[turn]
        OBVIOUS
    <2>2. stage' # "priced"
        BY <1>4, <2>1, ElicitIs DEF TElicit
    <2> QED
        BY <1>4, <2>2, ElicitWorth
<1>5. CASE TRun
    <2>1. stage' # "priced" /\ UNCHANGED recorderVars
        BY <1>2, <1>5 DEF TRun, Run, Synchronise, CloseRound, Allocate, Return
    <2>2. CASE Run /\ CloseRound
        BY <2>1, <2>2, CloseRoundWorth
    <2>3. CASE (Run /\ (Allocate \/ Return)) \/ Synchronise
        <3>1. pc # "ask" /\ UNCHANGED <<roundRows, history>>
            BY <2>1, <2>3 DEF Run, Allocate, Return, Synchronise, recorderVars
        <3> QED
            BY <2>1, <3>1, WorthStays
    <2> QED
        BY <1>5, <2>2, <2>3 DEF TRun, Run
<1>6. CASE TAudit
    <2>1. stage # "clock" /\ stage' # "priced" /\ UNCHANGED <<roundRows, history>>
        <3>1. stage # "clock" /\ stage' # "priced"
            BY <1>6, AuditIs DEF TAudit
        <3>2. UNCHANGED <<roundRows, history>>
            BY <1>6 DEF TAudit, StabilityAudit, VerifyWitnesses, CloseWinners, CloseStaged, Loop, Queried
        <3> QED
            BY <3>1, <3>2
    <2>2. pc = "done"
        BY <2>1 DEF EInv, EngineInv
    <2> QED
        BY <2>1, <2>2, WorthStays
<1>7. CASE TPrice
    BY <1>7, PriceEarned
<1>8. CASE UNCHANGED tvars
    <2>1. /\ UNCHANGED <<pc, history, stage, outcome, issued, truth, favoured>>
          /\ UNCHANGED <<roundRows, eventRows, verdict>>
        BY <1>8 DEF tvars, evars, vars, recorderVars, fixed
    <2>2. WorthInv'
        BY <2>1, WorthStays
    <2>3. Earned => Earned'
        BY <2>1 DEF Earned, TrueWelfare, Efficient, Solve, NamedInHistory, Excess
    <2> QED
        BY <2>1, <2>2, <2>3
<1> QED
    BY <1>3, <1>4, <1>5, <1>6, <1>7, <1>8 DEF TNext

\* proxy_clock_trajectory.py:920-937: a verdict about a run is so, although the recorder
\* reads it off rows and coverage: of an earlier award that was worth more, of a clock
\* that did not converge, of a bundle that was seen and never asked about; and an event
\* row says what was won.
THEOREM VerdictsHold == TSpec => []VerdictsAreEarned
<1> DEFINE Inv == /\ EInv /\ (Recording => RecordInv)
                  /\ Recording => RecordInv /\ WorthInv /\ (stage = "priced" => Earned)
<1>1. TInit => Inv
    <2> SUFFICES ASSUME TInit
                 PROVE  WorthInv /\ stage # "priced" /\ EInv /\ RecordInv
        OBVIOUS
    <2>1. EInv /\ RecordInv
        BY EInvInit, RecordInit DEF TInit
    <2>2. pc = "ask"
        <3>1. MaxRounds # 0
            BY ElicitationAssumption, ConfigAssumption
        <3> QED
            BY <3>1 DEF TInit, EInit, Init
    <2>3. roundRows = <<>> /\ stage = "clock"
        BY DEF TInit, EInit
    <2> QED
        BY <2>1, <2>2, <2>3 DEF WorthInv
<1>2. Inv /\ [TNext]_tvars => Inv'
    BY RecordNext, EarnedNext
<1>3. Inv => VerdictsAreEarned
    BY DEF VerdictsAreEarned, Earned
<1> QED
    BY <1>1, <1>2, <1>3, PTL DEF TSpec
=============================================================================
