---------------------------- MODULE AuctionLemmas ----------------------------
(***************************************************************************)
(* Facts that the proofs about auctions rest on: induction over a finite   *)
(* set, greatest elements, rankings and the sums of SumFunctionOnSet, and  *)
(* on top of them feasible allocations, their welfare, and the order of    *)
(* bundles.  Induction is stated over a set of sets, not over a predicate, *)
(* so that the provers can instantiate it.                                 *)
(***************************************************************************)
EXTENDS XorWdp, Collections, SequencesExt, FiniteSetTheorems, WellFoundedInduction, TLAPS


-----------------------------------------------------------------------------
(* Induction.                                                              *)

\* A non-empty set of subsets of a finite set has one that contains no other.
LEMMA MinimalSet ==
    ASSUME NEW S, IsFiniteSet(S), NEW U \in SUBSET SUBSET S, U # {}
    PROVE  \E T \in U : \A V \in U : V \subseteq T => V = T
<1>1. IsWellFoundedOn(StrictSubsetOrdering(S), SUBSET S)
    BY FS_StrictSubsetOrderingWellFounded, FS_FiniteSubsetsOfFinite
<1>2. PICK T \in U : \A V \in U : ~(<<V, T>> \in StrictSubsetOrdering(S))
    BY <1>1, WFMin
<1>3. ASSUME NEW V \in U, V \subseteq T, V # T
      PROVE  FALSE
    <2>1. <<V, T>> \in StrictSubsetOrdering(S)
        BY <1>3 DEF StrictSubsetOrdering
    <2> QED
        BY <1>2, <2>1
<1> QED
    BY <1>3

\* A set of subsets of S that holds the empty set, and with every set it holds the
\* ones that have one element of S more, holds the finite set S itself.
LEMMA SetInduction ==
    ASSUME NEW S, IsFiniteSet(S), NEW Z, {} \in Z,
           \A T \in SUBSET S : \A x \in S \ T : T \in Z => T \cup {x} \in Z
    PROVE  S \in Z
<1> DEFINE Out == {T \in SUBSET S : T \notin Z}
<1> SUFFICES ASSUME S \notin Z
             PROVE  FALSE
    OBVIOUS
<1>1. Out \in SUBSET SUBSET S /\ Out # {}
    OBVIOUS
<1>2. PICK T \in Out : \A V \in Out : V \subseteq T => V = T
    <2> HIDE DEF Out
    <2> QED
        BY <1>1, MinimalSet
<1>3. PICK x \in T : TRUE
    OBVIOUS
<1>4. T \ {x} \in SUBSET S /\ x \in S \ (T \ {x}) /\ (T \ {x}) \cup {x} = T
    OBVIOUS
<1>5. T \ {x} \notin Out
    BY <1>2, <1>3
<1> QED
    BY <1>2, <1>4, <1>5

\* A set that holds 0 and the successor of every number it holds holds them all.
LEMMA NatSetInduction ==
    ASSUME NEW Z, 0 \in Z, \A n \in Nat : n \in Z => n + 1 \in Z
    PROVE  Nat \subseteq Z
<1> DEFINE less == {ss \in Nat \X Nat : ss[1] < ss[2]}
           Out  == Nat \ Z
<1> SUFFICES ASSUME Out # {}
             PROVE  FALSE
    OBVIOUS
<1>1. IsWellFoundedOn(less, Nat)
    BY NatLessThanWellFounded DEF OpToRel
<1>2. PICK n \in Out : \A m \in Out : ~(<<m, n>> \in less)
    <2> HIDE DEF less
    <2> QED
        BY <1>1, WFMin
<1>3. n # 0 /\ n - 1 \in Nat
    OBVIOUS
<1>4. n - 1 \in Z
    <2>1. <<n - 1, n>> \in less
        BY <1>3
    <2>2. n - 1 \notin Out
        <3> HIDE DEF less
        <3> QED
            BY <1>2, <2>1
    <2> QED
        BY <1>3, <2>2
<1> QED
    BY <1>3, <1>4

\* A finite non-empty set of integers has a greatest element, which is its Max.
LEMMA MaxIsGreatest ==
    ASSUME NEW S, IsFiniteSet(S), S \subseteq Int, S # {}
    PROVE  /\ Max(S) \in S
           /\ \A y \in S : y <= Max(S)
<1> DEFINE Z == {T \in SUBSET S : T = {} \/ \E m \in T : \A y \in T : m >= y}
<1>1. {} \in Z
    OBVIOUS
<1>2. ASSUME NEW T \in SUBSET S, NEW x \in S \ T, T \in Z
      PROVE  T \cup {x} \in Z
    <2>1. CASE T = {}
        BY <2>1
    <2>2. CASE T # {}
        <3>1. PICK m \in T : \A y \in T : m >= y
            BY <1>2, <2>2
        <3>2. \A y \in T \cup {x} : (IF m >= x THEN m ELSE x) >= y
            BY <3>1
        <3>3. (IF m >= x THEN m ELSE x) \in T \cup {x}
            OBVIOUS
        <3> QED
            BY <3>2, <3>3
    <2> QED
        BY <2>1, <2>2
<1>3. S \in Z
    <2> HIDE DEF Z
    <2> QED
        BY <1>1, <1>2, SetInduction
<1>4. \E m \in S : \A y \in S : m >= y
    BY <1>3
<1> QED
    BY <1>4 DEF Max

\* An element of a set of integers that none exceeds is its Max.
LEMMA MaxIs ==
    ASSUME NEW S, S \subseteq Int, NEW m \in S, \A y \in S : y <= m
    PROVE  Max(S) = m
<1>1. \A x, y \in Int : x <= y /\ y <= x => x = y
    OBVIOUS
<1>2. \A x \in S : (\A y \in S : x >= y) <=> x = m
    BY <1>1
<1> QED
    BY <1>2 DEF Max

\* The values of a function on a finite set are finitely many.
LEMMA FiniteImage ==
    ASSUME NEW S, IsFiniteSet(S), NEW f
    PROVE  IsFiniteSet({f[x] : x \in S})
<1> DEFINE T == {f[x] : x \in S}
           g == [x \in S |-> f[x]]
<1>1. g \in Surjection(S, T)
    BY DEF Surjection
<1> HIDE DEF g, T
<1> QED
    BY <1>1, FS_Surjection DEF T

\* There are finitely many functions from a finite set to a finite set.
LEMMA FiniteFunctions ==
    ASSUME NEW S, IsFiniteSet(S), NEW T, IsFiniteSet(T)
    PROVE  IsFiniteSet([S -> T])
<1> DEFINE F == [S -> T]
           P == SUBSET (S \X T)
           graph(f) == {<<x, f[x]>> : x \in S}
           g == [f \in F |-> graph(f)]
<1>1. \A f \in F : graph(f) \in P
    OBVIOUS
<1>2. ASSUME NEW f \in F, NEW h \in F, graph(f) = graph(h)
      PROVE  f = h
    <2>1. ASSUME NEW x \in S
          PROVE  f[x] = h[x]
        <3>1. <<x, f[x]>> \in graph(h)
            BY <1>2
        <3>2. PICK y \in S : <<x, f[x]>> = <<y, h[y]>>
            BY <3>1
        <3> QED
            BY <3>2
    <2> QED
        BY <2>1
<1>3. g \in Injection(F, P)
    <2>1. g \in [F -> P]
        BY <1>1
    <2>2. \A a, b \in F : g[a] = g[b] => a = b
        BY <1>2
    <2> HIDE DEF F, P, g
    <2> QED
        BY <2>1, <2>2 DEF Injection, IsInjective
<1>4. IsFiniteSet(P)
    BY FS_Product, FS_SUBSET
<1> HIDE DEF F, P, g
<1> QED
    BY <1>3, <1>4, FS_Injection DEF F

\* As many sets as S has elements, of at most c elements each, hold at most so many
\* times c elements.
LEMMA UnionIsBounded ==
    ASSUME NEW S, IsFiniteSet(S), NEW F, NEW c \in Nat,
           \A x \in S : IsFiniteSet(F[x]) /\ Cardinality(F[x]) <= c
    PROVE  /\ IsFiniteSet(UNION {F[x] : x \in S})
           /\ Cardinality(UNION {F[x] : x \in S}) <= Cardinality(S) * c
<1> DEFINE all(T) == UNION {F[x] : x \in T}
           Z == {T \in SUBSET S : IsFiniteSet(all(T)) /\ Cardinality(all(T)) <= Cardinality(T) * c}
<1>1. {} \in Z
    <2>1. all({}) = {}
        OBVIOUS
    <2> HIDE DEF all
    <2>2. Cardinality({}) * c = 0
        BY FS_EmptySet
    <2> QED
        BY <2>1, <2>2, FS_EmptySet
<1>2. ASSUME NEW T \in SUBSET S, NEW x \in S \ T, T \in Z
      PROVE  T \cup {x} \in Z
    <2>1. all(T \cup {x}) = all(T) \cup F[x]
        OBVIOUS
    <2>2. IsFiniteSet(all(T)) /\ Cardinality(all(T)) <= Cardinality(T) * c
        BY <1>2
    <2> HIDE DEF all
    <2>3. /\ IsFiniteSet(all(T) \cup F[x])
          /\ Cardinality(all(T) \cup F[x]) <= Cardinality(all(T)) + Cardinality(F[x])
        <3>1. /\ IsFiniteSet(all(T) \cup F[x])
              /\ Cardinality(all(T) \cup F[x])
                   = Cardinality(all(T)) + Cardinality(F[x]) - Cardinality(all(T) \cap F[x])
            BY <2>2, FS_Union
        <3>2. Cardinality(all(T) \cap F[x]) \in Nat
            BY <2>2, FS_Intersection, FS_CardinalityType
        <3>3. Cardinality(all(T)) \in Nat /\ Cardinality(F[x]) \in Nat
            BY <2>2, FS_CardinalityType
        <3> QED
            BY <3>1, <3>2, <3>3
    <2>4. Cardinality(T) \in Nat /\ Cardinality(T \cup {x}) = Cardinality(T) + 1
        BY FS_Subset, FS_AddElement, FS_CardinalityType
    <2>5. /\ Cardinality(F[x]) <= c
          /\ Cardinality(all(T)) \in Nat /\ Cardinality(F[x]) \in Nat
          /\ Cardinality(all(T) \cup F[x]) \in Nat
        BY <2>2, <2>3, FS_CardinalityType
    <2>6. Cardinality(T \cup {x}) * c = Cardinality(T) * c + c /\ Cardinality(T) * c \in Nat
        BY <2>4
    <2>7. Cardinality(all(T) \cup F[x]) <= Cardinality(T \cup {x}) * c
        BY <2>2, <2>3, <2>5, <2>6
    <2> QED
        BY <2>1, <2>3, <2>7
<1>3. S \in Z
    <2> HIDE DEF Z
    <2> QED
        BY <1>1, <1>2, SetInduction
<1> QED
    BY <1>3

\* Every non-empty set of positions has a first one.
LEMMA FirstPosition ==
    ASSUME NEW S \in SUBSET Nat, S # {}
    PROVE  /\ (CHOOSE k \in S : \A j \in S : k <= j) \in S
           /\ \A j \in S : (CHOOSE k \in S : \A i \in S : k <= i) <= j
<1> DEFINE less == {ss \in Nat \X Nat : ss[1] < ss[2]}
<1>1. IsWellFoundedOn(less, Nat)
    BY NatLessThanWellFounded DEF OpToRel
<1>2. \E k \in S : \A j \in S : ~(<<j, k>> \in less)
    <2> HIDE DEF less
    <2> QED
        BY <1>1, WFMin
<1>3. PICK k \in S : \A j \in S : ~(<<j, k>> \in less)
    BY <1>2
<1>4. \A j \in S : k <= j
    <2> SUFFICES ASSUME NEW j \in S, ~(k <= j)
                 PROVE  FALSE
        OBVIOUS
    <2>1. j \in Nat /\ k \in Nat /\ j < k
        OBVIOUS
    <2>2. <<j, k>> \in less
        BY <2>1
    <2> QED
        BY <1>3, <2>2
<1> QED
    BY <1>4

-----------------------------------------------------------------------------
(* Rankings.                                                               *)

\* The elements of S that come before b.
Predecessors(R, S, b) == {a \in S : <<a, b>> \in R}

\* R orders S strictly and totally.
Orders(R, S) ==
    /\ \A a \in S : <<a, a>> \notin R
    /\ \A a, b, c \in S : <<a, b>> \in R /\ <<b, c>> \in R => <<a, c>> \in R
    /\ \A a, b \in S : a # b => <<a, b>> \in R \/ <<b, a>> \in R

\* In a strict total order of a finite set every place is taken by the element that
\* one fewer come before.
LEMMA PlacesAreTaken ==
    ASSUME NEW S, IsFiniteSet(S), NEW R, Orders(R, S)
    PROVE  \A k \in 1..Cardinality(S) :
              \E b \in S : Cardinality(Predecessors(R, S, b)) + 1 = k
<1> DEFINE before(b) == {a \in S : <<a, b>> \in R}
           N == Cardinality(S)
           place == [b \in S |-> Cardinality(before(b)) + 1]
<1> USE DEF Orders
<1>1. N \in Nat /\ IsFiniteSet(1..N) /\ Cardinality(1..N) = N
    <2>1. N \in Nat
        BY FS_CardinalityType
    <2> HIDE DEF N
    <2>2. IsFiniteSet(1..N) /\ Cardinality(1..N) = IF 1 > N THEN 0 ELSE N - 1 + 1
        BY <2>1, FS_Interval
    <2> QED
        BY <2>1, <2>2
<1>2. ASSUME NEW b \in S
      PROVE  /\ IsFiniteSet(before(b))
             /\ Cardinality(before(b)) \in Nat
             /\ Cardinality(before(b)) + 1 <= N
    <2>1. before(b) \subseteq S \ {b}
        OBVIOUS
    <2>2. IsFiniteSet(S \ {b}) /\ Cardinality(S \ {b}) = N - 1
        BY FS_RemoveElement
    <2> HIDE DEF before, N
    <2>3. IsFiniteSet(before(b)) /\ Cardinality(before(b)) <= N - 1
        BY <2>1, <2>2, FS_Subset
    <2>4. Cardinality(before(b)) \in Nat
        BY <2>3, FS_CardinalityType
    <2> QED
        BY <1>1, <2>3, <2>4
<1>3. ASSUME NEW a \in S, NEW b \in S, <<a, b>> \in R
      PROVE  place[a] < place[b]
    <2>1. before(a) \subseteq before(b) /\ before(a) # before(b)
        <3>1. a \in before(b) /\ a \notin before(a)
            BY <1>3
        <3>2. \A c \in before(a) : c \in before(b)
            BY <1>3
        <3> HIDE DEF before
        <3> QED
            BY <3>1, <3>2
    <2>2. /\ IsFiniteSet(before(b))
          /\ Cardinality(before(a)) \in Nat /\ Cardinality(before(b)) \in Nat
        BY <1>2
    <2>3. place[a] = Cardinality(before(a)) + 1 /\ place[b] = Cardinality(before(b)) + 1
        OBVIOUS
    <2> HIDE DEF before, place
    <2>4. Cardinality(before(a)) <= Cardinality(before(b))
          /\ Cardinality(before(a)) # Cardinality(before(b))
        BY <2>1, <2>2, FS_Subset
    <2> QED
        BY <2>2, <2>3, <2>4
<1>4. place \in [S -> 1..N]
    <2>1. ASSUME NEW b \in S
          PROVE  Cardinality(before(b)) + 1 \in 1..N
        <3>1. Cardinality(before(b)) \in Nat /\ Cardinality(before(b)) + 1 <= N
            BY <1>2
        <3> HIDE DEF before, N
        <3> QED
            BY <1>1, <3>1
    <2> QED
        BY <2>1
<1>5. \A a, b \in S : place[a] = place[b] => a = b
    <2> SUFFICES ASSUME NEW a \in S, NEW b \in S, place[a] = place[b], a # b
                 PROVE  FALSE
        OBVIOUS
    <2>1. place[a] < place[b] \/ place[b] < place[a]
        BY <1>3
    <2>2. place[a] \in Int /\ place[b] \in Int
        <3> HIDE DEF place, N
        <3> QED
            BY <1>1, <1>4
    <2> HIDE DEF place
    <2> QED
        BY <2>1, <2>2
<1> HIDE DEF place, N
<1>6. place \in Injection(S, 1..N)
    BY <1>4, <1>5 DEF Injection, IsInjective
<1>7. place \in Surjection(S, 1..N)
    <2>1. Cardinality(S) = Cardinality(1..N)
        BY <1>1 DEF N
    <2> QED
        BY <1>1, <1>6, <2>1, FS_Injection
<1>8. \A k \in 1..N : \E b \in S : place[b] = k
    BY <1>7 DEF Surjection
<1> QED
    BY <1>8 DEF place, N, Predecessors

-----------------------------------------------------------------------------
(* Sums.                                                                   *)

\* The function the folds of the library are made of: it takes the elements of a
\* set off one by one.
Peels(g, f, S) ==
    g = [s \in SUBSET S |-> IF s = {} THEN 0
                            ELSE f[CHOOSE x \in s : TRUE] + g[s \ {CHOOSE x \in s : TRUE}]]

\* There is such a function for every finite set.
LEMMA PeelsExists ==
    ASSUME NEW f, NEW S, IsFiniteSet(S)
    PROVE  \E g : Peels(g, f, S)
<1> DEFINE first(s) == CHOOSE x \in s : TRUE
           Upto(n)  == {T \in SUBSET S : Cardinality(T) <= n}
           Sol(g, n) == g = [s \in Upto(n) |->
                                IF s = {} THEN 0 ELSE f[first(s)] + g[s \ {first(s)}]]
           Z == {n \in Nat : \E g : Sol(g, n)}
<1>1. ASSUME NEW T \in SUBSET S
      PROVE  IsFiniteSet(T) /\ Cardinality(T) \in Nat
    BY FS_Subset, FS_CardinalityType
<1>2. ASSUME NEW T \in SUBSET S, T # {}
      PROVE  /\ first(T) \in T
             /\ T \ {first(T)} \in SUBSET S
             /\ Cardinality(T \ {first(T)}) = Cardinality(T) - 1
    <2>1. first(T) \in T
        BY <1>2
    <2>2. IsFiniteSet(T)
        BY <1>1
    <2> HIDE DEF first
    <2> QED
        BY <2>1, <2>2, FS_RemoveElement
<1>3. 0 \in Z
    <2>1. \A T \in Upto(0) : T = {}
        BY <1>1, FS_EmptySet
    <2>2. Sol([s \in Upto(0) |-> 0], 0)
        BY <2>1
    <2> QED
        BY <2>2
<1>4. ASSUME NEW n \in Nat, n \in Z
      PROVE  n + 1 \in Z
    <2>1. PICK g : Sol(g, n)
        BY <1>4
    <2> DEFINE h == [s \in Upto(n + 1) |->
                        IF s = {} THEN 0 ELSE f[first(s)] + g[s \ {first(s)}]]
    <2>2. Upto(n) \subseteq Upto(n + 1)
        BY <1>1
    <2>3. ASSUME NEW s \in Upto(n + 1), s # {}
          PROVE  s \ {first(s)} \in Upto(n)
        BY <1>1, <1>2, <2>3
    <2>4. \A t \in Upto(n) : g[t] = h[t]
        <3> HIDE DEF first, Upto
        <3> QED
            BY <2>1, <2>2
    <2>5. Sol(h, n + 1)
        <3>1. \A s \in Upto(n + 1) : s # {} => g[s \ {first(s)}] = h[s \ {first(s)}]
            BY <2>3, <2>4
        <3> HIDE DEF first, Upto
        <3> QED
            BY <3>1
    <2> HIDE DEF Sol, h
    <2> QED
        BY <2>5
<1>5. Cardinality(S) \in Z
    <2> HIDE DEF Z
    <2>1. Nat \subseteq Z
        BY <1>3, <1>4, NatSetInduction
    <2> QED
        BY <2>1, FS_CardinalityType
<1>6. Upto(Cardinality(S)) = SUBSET S
    BY FS_Subset
<1>7. PICK g : Sol(g, Cardinality(S))
    BY <1>5
<1>8. Peels(g, f, S)
    BY <1>6, <1>7 DEF Peels
<1> QED
    BY <1>8

\* What is taken off does not depend on the set one starts with.
LEMMA PeelsUnique ==
    ASSUME NEW f, NEW e, NEW g, NEW h, NEW R, NEW S, Peels(g, f, R), Peels(h, e, S),
           NEW T, IsFiniteSet(T), T \subseteq R, T \subseteq S, \A x \in T : f[x] = e[x]
    PROVE  g[T] = h[T]
<1> DEFINE Out == {U \in SUBSET T : g[U] # h[U]}
<1> SUFFICES ASSUME Out # {}
             PROVE  FALSE
    OBVIOUS
<1>1. PICK U \in Out : \A V \in Out : V \subseteq U => V = U
    <2>1. Out \in SUBSET SUBSET T
        OBVIOUS
    <2> HIDE DEF Out
    <2> QED
        BY <2>1, MinimalSet
<1> DEFINE x == CHOOSE y \in U : TRUE
<1>2. U \in SUBSET R /\ U \in SUBSET S
    OBVIOUS
<1>3. U # {}
    <2>1. g[{}] = 0 /\ h[{}] = 0
        BY DEF Peels
    <2> QED
        BY <2>1
<1>4. x \in U
    BY <1>3
<1>5. g[U] = f[x] + g[U \ {x}] /\ h[U] = e[x] + h[U \ {x}]
    BY <1>2, <1>3 DEF Peels
<1>6. g[U \ {x}] = h[U \ {x}]
    <2>1. U \ {x} # U /\ U \ {x} \subseteq U /\ U \ {x} \in SUBSET T
        BY <1>4
    <2>2. U \ {x} \notin Out
        BY <1>1, <2>1
    <2> QED
        BY <2>1, <2>2
<1>7. f[x] = e[x]
    BY <1>4
<1> QED
    BY <1>5, <1>6, <1>7

\* The sum of the library is the value of any such function.
LEMMA SumIsPeeled ==
    ASSUME NEW f, NEW S, IsFiniteSet(S), NEW g, Peels(g, f, S)
    PROVE  SumFunctionOnSet(f, S) = g[S]
<1> DEFINE iter == CHOOSE h : Peels(h, f, S)
<1>1. Peels(iter, f, S)
    BY PeelsExists
<1>2. SumFunctionOnSet(f, S) = iter[S]
    BY DEF SumFunctionOnSet, FoldFunctionOnSet, MapThenFoldSet, Peels
<1> HIDE DEF iter
<1> QED
    BY <1>1, <1>2, PeelsUnique

\* A sum is that of any element and of the others.
LEMMA SumStep ==
    ASSUME NEW f, NEW S, IsFiniteSet(S), \A x \in S : f[x] \in Int
    PROVE  /\ SumFunctionOnSet(f, S) \in Int
           /\ S = {} => SumFunctionOnSet(f, S) = 0
           /\ \A x \in S : SumFunctionOnSet(f, S) = f[x] + SumFunctionOnSet(f, S \ {x})
<1>1. PICK g : Peels(g, f, S)
    BY PeelsExists
<1>2. ASSUME NEW T \in SUBSET S
      PROVE  SumFunctionOnSet(f, T) = g[T]
    <2>1. IsFiniteSet(T)
        BY FS_Subset
    <2>2. PICK h : Peels(h, f, T)
        BY <2>1, PeelsExists
    <2>3. SumFunctionOnSet(f, T) = h[T]
        BY <2>1, <2>2, SumIsPeeled
    <2>4. g[T] = h[T]
        BY <1>1, <2>1, <2>2, PeelsUnique
    <2> QED
        BY <2>3, <2>4
<1> DEFINE first(T) == CHOOSE x \in T : TRUE
           Good(T) == /\ g[T] \in Int
                      /\ \A x \in T : g[T] = f[x] + g[T \ {x}]
           Out == {T \in SUBSET S : ~Good(T)}
<1>3. g[{}] = 0
    BY <1>1 DEF Peels
<1>4. ASSUME NEW T \in SUBSET S, T # {}
      PROVE  first(T) \in T /\ g[T] = f[first(T)] + g[T \ {first(T)}]
    BY <1>1, <1>4 DEF Peels
<1>5. Out = {}
    <2> SUFFICES ASSUME Out # {}
                 PROVE  FALSE
        OBVIOUS
    <2>1. PICK T \in Out : \A V \in Out : V \subseteq T => V = T
        <3>1. Out \in SUBSET SUBSET S
            OBVIOUS
        <3> HIDE DEF Out
        <3> QED
            BY <3>1, MinimalSet
    <2>2. ASSUME NEW V \in SUBSET T, V # T
          PROVE  Good(V)
        BY <2>1, <2>2
    <2>3. T # {}
        <3>1. Good({})
            BY <1>3
        <3>2. ~Good(T)
            OBVIOUS
        <3> HIDE DEF Good
        <3> QED
            BY <3>1, <3>2
    <2> DEFINE c == first(T)
    <2>4. c \in T /\ g[T] = f[c] + g[T \ {c}]
        BY <1>4, <2>3
    <2>5. Good(T \ {c})
        BY <2>2, <2>4
    <2>6. g[T] \in Int
        BY <2>4, <2>5
    <2>7. ASSUME NEW x \in T
          PROVE  g[T] = f[x] + g[T \ {x}]
        <3>1. CASE x = c
            BY <2>4, <3>1
        <3>2. CASE x # c
            <4>1. g[T \ {c}] = f[x] + g[(T \ {c}) \ {x}]
                BY <2>5, <3>2
            <4>2. Good(T \ {x})
                BY <2>2
            <4>3. g[T \ {x}] = f[c] + g[(T \ {x}) \ {c}]
                BY <2>4, <3>2, <4>2
            <4>4. (T \ {c}) \ {x} = (T \ {x}) \ {c}
                OBVIOUS
            <4>5. Good((T \ {c}) \ {x})
                BY <2>2, <2>4
            <4>6. f[x] \in Int /\ f[c] \in Int /\ g[(T \ {c}) \ {x}] \in Int
                BY <2>4, <4>5
            <4>7. \A p, q, r \in Int : q + (p + r) = p + (q + r)
                OBVIOUS
            <4>8. g[T] = f[c] + (f[x] + g[(T \ {c}) \ {x}])
                BY <2>4, <4>1
            <4>9. g[T] = f[x] + (f[c] + g[(T \ {c}) \ {x}])
                <5> HIDE DEF c
                <5> QED
                    BY <4>6, <4>7, <4>8
            <4> QED
                BY <4>3, <4>4, <4>9
        <3> QED
            BY <3>1, <3>2
    <2> QED
        BY <2>1, <2>6, <2>7
<1>6. Good(S)
    BY <1>5
<1> QED
    BY <1>2, <1>3, <1>6

\* The sums of functions one below the other are in that order.
LEMMA SumMonotone ==
    ASSUME NEW f, NEW e, NEW S, IsFiniteSet(S),
           \A x \in S : f[x] \in Int /\ e[x] \in Int /\ f[x] <= e[x]
    PROVE  SumFunctionOnSet(f, S) <= SumFunctionOnSet(e, S)
<1> DEFINE Z == {T \in SUBSET S : SumFunctionOnSet(f, T) <= SumFunctionOnSet(e, T)}
<1>1. {} \in Z
    BY SumStep, FS_EmptySet
<1>2. ASSUME NEW T \in SUBSET S, NEW x \in S \ T, T \in Z
      PROVE  T \cup {x} \in Z
    <2>1. IsFiniteSet(T) /\ IsFiniteSet(T \cup {x}) /\ (T \cup {x}) \ {x} = T
        BY FS_Subset
    <2> DEFINE U == T \cup {x}
    <2>2. \A y \in U : f[y] \in Int /\ e[y] \in Int
        OBVIOUS
    <2>3. /\ SumFunctionOnSet(f, U) = f[x] + SumFunctionOnSet(f, U \ {x})
          /\ SumFunctionOnSet(e, U) = e[x] + SumFunctionOnSet(e, U \ {x})
        <3>1. x \in U /\ IsFiniteSet(U)
            BY <2>1
        <3> HIDE DEF U
        <3> QED
            BY <2>2, <3>1, SumStep
    <2>4. SumFunctionOnSet(f, T) \in Int /\ SumFunctionOnSet(e, T) \in Int
        BY <2>1, SumStep
    <2> QED
        BY <1>2, <2>1, <2>3, <2>4
<1>3. S \in Z
    <2> HIDE DEF Z
    <2> QED
        BY <1>1, <1>2, SetInduction
<1> QED
    BY <1>3

\* The sums of functions that agree are equal.
LEMMA SumAgrees ==
    ASSUME NEW f, NEW e, NEW S, IsFiniteSet(S),
           \A x \in S : f[x] = e[x]
    PROVE  SumFunctionOnSet(f, S) = SumFunctionOnSet(e, S)
<1>1. PICK g : Peels(g, f, S)
    BY PeelsExists
<1>2. PICK h : Peels(h, e, S)
    BY PeelsExists
<1>3. g[S] = h[S]
    BY <1>1, <1>2, PeelsUnique
<1> QED
    BY <1>1, <1>2, <1>3, SumIsPeeled

\* A sum of natural numbers is one.
LEMMA SumIsNat ==
    ASSUME NEW f, NEW S, IsFiniteSet(S), \A x \in S : f[x] \in Nat
    PROVE  SumFunctionOnSet(f, S) \in Nat
<1> DEFINE zero == [x \in S |-> 0]
           Z == {T \in SUBSET S : SumFunctionOnSet(zero, T) = 0}
<1>1. {} \in Z
    BY SumStep, FS_EmptySet
<1>2. ASSUME NEW T \in SUBSET S, NEW x \in S \ T, T \in Z
      PROVE  T \cup {x} \in Z
    <2>1. IsFiniteSet(T \cup {x}) /\ (T \cup {x}) \ {x} = T
        BY FS_Subset
    <2> DEFINE U == T \cup {x}
    <2>2. SumFunctionOnSet(zero, U) = zero[x] + SumFunctionOnSet(zero, U \ {x})
        <3>1. x \in U /\ IsFiniteSet(U) /\ \A y \in U : zero[y] \in Int
            BY <2>1
        <3> HIDE DEF U, zero
        <3> QED
            BY <3>1, SumStep
    <2>3. zero[x] = 0
        OBVIOUS
    <2>4. SumFunctionOnSet(zero, U) = 0
        <3> HIDE DEF U, zero
        <3> QED
            BY <1>2, <2>1, <2>2, <2>3 DEF U
    <2> QED
        BY <2>4
<1>3. S \in Z
    <2> HIDE DEF Z
    <2> QED
        BY <1>1, <1>2, SetInduction
<1>4. SumFunctionOnSet(zero, S) <= SumFunctionOnSet(f, S)
    BY SumMonotone
<1>5. SumFunctionOnSet(f, S) \in Int
    BY SumStep
<1> QED
    BY <1>3, <1>4, <1>5

-----------------------------------------------------------------------------
(* Bids and profiles.                                                      *)

\* A bid of natural values on finitely many bundles, none of them empty.
IsBid(bid) ==
    /\ bid \in [DOMAIN bid -> Nat]
    /\ IsFiniteSet(DOMAIN bid)
    /\ {} \notin DOMAIN bid

\* Finitely many bidders with a bid each.
IsProfile(p) ==
    /\ p = [i \in DOMAIN p |-> p[i]]
    /\ IsFiniteSet(DOMAIN p)
    /\ \A i \in DOMAIN p : IsBid(p[i])

\* The values of a bid within a bundle, and nothing.
Credits(bid, s) == {0} \cup {bid[b] : b \in {a \in DOMAIN bid : a \subseteq s}}

\* value_of is what the best atom inside the bundle is worth, or 0.
LEMMA ValueOfBest ==
    ASSUME NEW bid, IsBid(bid), NEW s
    PROVE  /\ ValueOf(bid, s) \in Nat
           /\ \A b \in DOMAIN bid : b \subseteq s => bid[b] <= ValueOf(bid, s)
           /\ \E c \in DOMAIN bid \cup {{}} : c \subseteq s /\ AtomValue(bid, c) = ValueOf(bid, s)
<1> DEFINE inside == {a \in DOMAIN bid : a \subseteq s}
           C == Credits(bid, s)
<1>1. IsFiniteSet(C)
    <2>1. IsFiniteSet(inside)
        BY FS_Subset DEF IsBid
    <2>2. IsFiniteSet({bid[b] : b \in inside})
        <3> HIDE DEF inside
        <3> QED
            BY <2>1, FiniteImage
    <2> QED
        BY <2>2, FS_AddElement, FS_Union, FS_Singleton DEF Credits
<1>2. C \subseteq Nat /\ C \subseteq Int /\ C # {}
    BY DEF IsBid, Credits
<1>3. Max(C) \in C /\ \A y \in C : y <= Max(C)
    <2> HIDE DEF C
    <2> QED
        BY <1>1, <1>2, MaxIsGreatest
<1>4. ValueOf(bid, s) = Max(C)
    BY DEF ValueOf, Credits
<1>5. \A b \in DOMAIN bid : b \subseteq s => bid[b] \in C
    BY DEF Credits
<1>6. ValueOf(bid, s) = 0 \/ \E b \in DOMAIN bid : b \subseteq s /\ bid[b] = ValueOf(bid, s)
    BY <1>3, <1>4 DEF Credits
<1>7. \A b \in DOMAIN bid : AtomValue(bid, b) = bid[b]
    BY DEF AtomValue, IsBid
<1>8. AtomValue(bid, {}) = 0
    BY DEF AtomValue
<1> HIDE DEF C
<1> QED
    BY <1>2, <1>3, <1>4, <1>5, <1>6, <1>7, <1>8

\* What the solver credits for an atom is at most what value_of finds in a bundle
\* that holds it.
LEMMA AtomWithin ==
    ASSUME NEW bid, IsBid(bid), NEW c \in DOMAIN bid \cup {{}}, NEW s, c \subseteq s
    PROVE  AtomValue(bid, c) \in Nat /\ AtomValue(bid, c) <= ValueOf(bid, s)
BY ValueOfBest DEF AtomValue, IsBid

-----------------------------------------------------------------------------
(* Feasible selections.                                                    *)

\* There are finitely many selections, and selecting nothing is one.
LEMMA FeasibleFinite ==
    ASSUME NEW p, IsProfile(p)
    PROVE  /\ IsFiniteSet(Feasible(p))
           /\ [i \in DOMAIN p |-> {}] \in Feasible(p)
<1> DEFINE named == {{}} \cup UNION {DOMAIN p[i] : i \in DOMAIN p}
<1>1. IsFiniteSet(named)
    <2> DEFINE dom == [i \in DOMAIN p |-> DOMAIN p[i]]
               D == {dom[i] : i \in DOMAIN p}
    <2>1. IsFiniteSet(D)
        <3> HIDE DEF dom
        <3> QED
            BY FiniteImage DEF IsProfile
    <2>2. \A T \in D : IsFiniteSet(T)
        BY DEF IsProfile, IsBid
    <2>3. IsFiniteSet(UNION D)
        <3> HIDE DEF D
        <3> QED
            BY <2>1, <2>2, FS_UNION
    <2>4. named = {{}} \cup UNION D
        OBVIOUS
    <2> QED
        BY <2>3, <2>4, FS_Union, FS_Singleton
<1>2. Feasible(p) \subseteq [DOMAIN p -> named]
    BY DEF Feasible
<1>3. IsFiniteSet([DOMAIN p -> named])
    <2> HIDE DEF named
    <2> QED
        BY <1>1, FiniteFunctions DEF IsProfile
<1> QED
    BY <1>2, <1>3, FS_Subset DEF Feasible, Disjoint

\* What is feasible, bidder by bidder.
LEMMA FeasibleIs ==
    ASSUME NEW p, NEW a
    PROVE  a \in Feasible(p) <=>
              /\ a = [i \in DOMAIN p |-> a[i]]
              /\ DOMAIN a = DOMAIN p
              /\ \A i \in DOMAIN p : a[i] \in DOMAIN p[i] \cup {{}}
              /\ \A i, j \in DOMAIN p : i # j => a[i] \cap a[j] = {}
<1> DEFINE named == {{}} \cup UNION {DOMAIN p[i] : i \in DOMAIN p}
<1>1. a \in [DOMAIN p -> named] =>
          a = [i \in DOMAIN p |-> a[i]] /\ DOMAIN a = DOMAIN p
    OBVIOUS
<1>2. ASSUME a = [i \in DOMAIN p |-> a[i]], DOMAIN a = DOMAIN p,
             \A i \in DOMAIN p : a[i] \in DOMAIN p[i] \cup {{}}
      PROVE  a \in [DOMAIN p -> named]
    <2>1. \A i \in DOMAIN p : a[i] \in named
        BY <1>2
    <2> HIDE DEF named
    <2> QED
        BY <1>2, <2>1
<1>3. a \in Feasible(p) <=>
          /\ a \in [DOMAIN p -> named]
          /\ \A i \in DOMAIN p : a[i] \in DOMAIN p[i] \cup {{}}
          /\ Disjoint(a)
    BY DEF Feasible
<1> HIDE DEF named
<1> QED
    BY <1>1, <1>2, <1>3 DEF Disjoint

-----------------------------------------------------------------------------
(* Welfare.                                                                *)

\* The others of a profile are a profile, of the same bids.
LEMMA WithoutProfile ==
    ASSUME NEW p, IsProfile(p), NEW i
    PROVE  /\ IsProfile(Without(p, i))
           /\ DOMAIN Without(p, i) = DOMAIN p \ {i}
           /\ \A j \in DOMAIN p \ {i} : Without(p, i)[j] = p[j]
<1> DEFINE q == Without(p, i)
<1>1. DOMAIN q = DOMAIN p \ {i} /\ \A j \in DOMAIN q : q[j] = p[j]
    BY DEF Without, Restrict
<1>2. q = [j \in DOMAIN q |-> q[j]]
    BY DEF Without, Restrict
<1>3. IsFiniteSet(DOMAIN q)
    BY <1>1, FS_Subset DEF IsProfile
<1>4. \A j \in DOMAIN q : IsBid(q[j])
    BY <1>1 DEF IsProfile
<1>5. IsProfile(q)
    <2> HIDE DEF q
    <2> QED
        BY <1>2, <1>3, <1>4 DEF IsProfile
<1> QED
    BY <1>1, <1>5

\* Bids that credit every bidder the same give the same welfare.
LEMMA WelfareAgrees ==
    ASSUME NEW p, IsProfile(p), NEW q, DOMAIN q = DOMAIN p, NEW a, NEW c,
           \A i \in DOMAIN p : AtomValue(p[i], a[i]) = AtomValue(q[i], c[i])
    PROVE  Welfare(p, a) = Welfare(q, c)
<1> DEFINE f == [i \in DOMAIN p |-> AtomValue(p[i], a[i])]
           e == [i \in DOMAIN q |-> AtomValue(q[i], c[i])]
<1>1. f = e
    OBVIOUS
<1> QED
    BY <1>1 DEF Welfare

\* Welfare is a natural number: the credit of any bidder and the welfare of the rest.
LEMMA WelfareSplits ==
    ASSUME NEW p, IsProfile(p), NEW a,
           \A j \in DOMAIN p : a[j] \in DOMAIN p[j] \cup {{}}
    PROVE  /\ Welfare(p, a) \in Nat
           /\ \A i \in DOMAIN p :
                Welfare(p, a) = AtomValue(p[i], a[i]) + Welfare(Without(p, i), a)
<1> DEFINE f == [i \in DOMAIN p |-> AtomValue(p[i], a[i])]
<1>1. \A i \in DOMAIN p : f[i] \in Nat
    BY AtomWithin DEF IsProfile
<1>2. Welfare(p, a) = SumFunctionOnSet(f, DOMAIN p)
    BY DEF Welfare, SumFunction
<1>3. SumFunctionOnSet(f, DOMAIN p) \in Nat
    <2> HIDE DEF f
    <2> QED
        BY <1>1, SumIsNat DEF IsProfile
<1>4. ASSUME NEW i \in DOMAIN p
      PROVE  SumFunctionOnSet(f, DOMAIN p) = f[i] + Welfare(Without(p, i), a)
    <2> DEFINE q == Without(p, i)
               e == [j \in DOMAIN q |-> AtomValue(q[j], a[j])]
    <2>1. IsProfile(q) /\ DOMAIN q = DOMAIN p \ {i} /\ \A j \in DOMAIN q : q[j] = p[j]
        BY WithoutProfile
    <2>2. Welfare(q, a) = SumFunctionOnSet(e, DOMAIN p \ {i})
        BY <2>1 DEF Welfare, SumFunction
    <2>3. \A j \in DOMAIN p \ {i} : e[j] = f[j]
        <3> HIDE DEF q
        <3> QED
            BY <2>1
    <2>4. SumFunctionOnSet(e, DOMAIN p \ {i}) = SumFunctionOnSet(f, DOMAIN p \ {i})
        <3>1. IsFiniteSet(DOMAIN p \ {i})
            BY FS_Subset DEF IsProfile
        <3> HIDE DEF e, f, q
        <3> QED
            BY <2>3, <3>1, SumAgrees
    <2>5. SumFunctionOnSet(f, DOMAIN p) = f[i] + SumFunctionOnSet(f, DOMAIN p \ {i})
        <3>1. \A j \in DOMAIN p : f[j] \in Int
            BY <1>1
        <3> HIDE DEF f
        <3> QED
            BY <3>1, SumStep DEF IsProfile
    <2> HIDE DEF e, f, q
    <2> QED
        BY <2>2, <2>4, <2>5 DEF q
<1> QED
    BY <1>2, <1>3, <1>4

\* The optimum is the greatest welfare of a selection, and some selection reaches it.
LEMMA OptimumIsGreatest ==
    ASSUME NEW p, IsProfile(p)
    PROVE  /\ OptWelfare(p) \in Nat
           /\ \A a \in Feasible(p) : Welfare(p, a) \in Nat /\ Welfare(p, a) <= OptWelfare(p)
           /\ Optima(p) = {a \in Feasible(p) : Welfare(p, a) = OptWelfare(p)}
           /\ Optima(p) # {}
<1> DEFINE F == Feasible(p)
           w == [a \in F |-> Welfare(p, a)]
           W == {w[a] : a \in F}
<1>1. IsFiniteSet(F) /\ F # {}
    BY FeasibleFinite
<1>2. \A a \in F : Welfare(p, a) \in Nat
    BY FeasibleIs, WelfareSplits
<1>3. W = {Welfare(p, a) : a \in F}
    OBVIOUS
<1>4. IsFiniteSet(W)
    <2> HIDE DEF F, w
    <2> QED
        BY <1>1, FiniteImage
<1>5. W \subseteq Int /\ W # {}
    BY <1>1, <1>2, <1>3
<1>6. Max(W) \in W /\ \A y \in W : y <= Max(W)
    <2> HIDE DEF W
    <2> QED
        BY <1>4, <1>5, MaxIsGreatest
<1>7. OptWelfare(p) = Max(W)
    BY <1>3 DEF OptWelfare
<1>8. Optima(p) = {a \in F : Welfare(p, a) = Max(W)}
    BY <1>3 DEF Optima
<1> HIDE DEF F, w, W
<1>9. \E a \in F : Welfare(p, a) = Max(W)
    BY <1>3, <1>6
<1>10. Max(W) \in Nat /\ \A a \in F : Welfare(p, a) <= Max(W)
    BY <1>2, <1>3, <1>6
<1> QED
    BY <1>2, <1>7, <1>8, <1>9, <1>10 DEF F

-----------------------------------------------------------------------------
(* The economics of one outcome.                                           *)

\* Nobody's presence makes the others better off than they would be alone.
LEMMA OthersFallShort ==
    ASSUME NEW p, IsProfile(p), NEW a \in Feasible(p), NEW i \in DOMAIN p
    PROVE  /\ Welfare(Without(p, i), a) \in Nat
           /\ Welfare(Without(p, i), a) <= OptWelfare(Without(p, i))
<1> DEFINE q == Without(p, i)
           c == [j \in DOMAIN p \ {i} |-> a[j]]
<1>1. IsProfile(q) /\ DOMAIN q = DOMAIN p \ {i} /\ \A j \in DOMAIN q : q[j] = p[j]
    BY WithoutProfile
<1>2. /\ \A j \in DOMAIN p : a[j] \in DOMAIN p[j] \cup {{}}
      /\ \A j, k \in DOMAIN p : j # k => a[j] \cap a[k] = {}
    BY FeasibleIs
<1>3. c \in Feasible(q)
    <2>1. c = [j \in DOMAIN q |-> c[j]] /\ DOMAIN c = DOMAIN q
        BY <1>1
    <2>2. \A j \in DOMAIN q : c[j] \in DOMAIN q[j] \cup {{}}
        BY <1>1, <1>2
    <2>3. \A j, k \in DOMAIN q : j # k => c[j] \cap c[k] = {}
        BY <1>1, <1>2
    <2> HIDE DEF c, q
    <2> QED
        BY <2>1, <2>2, <2>3, FeasibleIs
<1>4. Welfare(q, c) = Welfare(q, a)
    <2>1. \A j \in DOMAIN q : c[j] = a[j]
        BY <1>1
    <2> HIDE DEF c, q
    <2> QED
        BY <1>1, <2>1, WelfareAgrees
<1> HIDE DEF c, q
<1> QED
    BY <1>1, <1>3, <1>4, OptimumIsGreatest DEF q

\* A bidder adds something to the optimum or nothing, but takes nothing off it.
LEMMA PresenceDoesNotHurt ==
    ASSUME NEW p, IsProfile(p), NEW i \in DOMAIN p
    PROVE  OptWelfare(Without(p, i)) <= OptWelfare(p)
<1> DEFINE q == Without(p, i)
<1>1. IsProfile(q) /\ DOMAIN q = DOMAIN p \ {i} /\ \A j \in DOMAIN q : q[j] = p[j]
    BY WithoutProfile
<1> HIDE DEF q
<1>2. PICK c \in Feasible(q) : Welfare(q, c) = OptWelfare(q)
    BY <1>1, OptimumIsGreatest
<1> DEFINE a == [j \in DOMAIN p |-> IF j = i THEN {} ELSE c[j]]
<1>3. /\ \A j \in DOMAIN q : c[j] \in DOMAIN q[j] \cup {{}}
      /\ \A j, k \in DOMAIN q : j # k => c[j] \cap c[k] = {}
    BY FeasibleIs
<1>4. /\ a = [j \in DOMAIN p |-> a[j]] /\ DOMAIN a = DOMAIN p
      /\ \A j \in DOMAIN p : a[j] \in DOMAIN p[j] \cup {{}}
      /\ \A j, k \in DOMAIN p : j # k => a[j] \cap a[k] = {}
    BY <1>1, <1>3
<1>5. a[i] = {} /\ \A j \in DOMAIN q : a[j] = c[j]
    BY <1>1
<1> HIDE DEF a
<1>6. a \in Feasible(p)
    BY <1>4, FeasibleIs
<1>7. Welfare(p, a) = AtomValue(p[i], a[i]) + Welfare(q, a)
    BY <1>4, WelfareSplits DEF q
<1>8. Welfare(q, a) = Welfare(q, c)
    BY <1>1, <1>5, WelfareAgrees
<1>9. AtomValue(p[i], a[i]) = 0
    BY <1>5 DEF AtomValue
<1>10. OptWelfare(q) \in Nat
    BY <1>1, OptimumIsGreatest
<1>11. Welfare(p, a) = OptWelfare(q)
    BY <1>2, <1>7, <1>8, <1>9, <1>10
<1> QED
    BY <1>6, <1>11, OptimumIsGreatest DEF q

\* Giving a bidder the best atom inside what it won is feasible, so no selection
\* makes value_of and the credits of the others exceed the optimum.
LEMMA ValueWithinOptimum ==
    ASSUME NEW p, IsProfile(p), NEW a \in Feasible(p), NEW i \in DOMAIN p
    PROVE  ValueOf(p[i], a[i]) + Welfare(Without(p, i), a) <= OptWelfare(p)
<1> DEFINE q == Without(p, i)
<1>1. IsProfile(q) /\ DOMAIN q = DOMAIN p \ {i} /\ \A j \in DOMAIN q : q[j] = p[j]
    BY WithoutProfile
<1> HIDE DEF q
<1>2. PICK b \in DOMAIN p[i] \cup {{}} : b \subseteq a[i] /\ AtomValue(p[i], b) = ValueOf(p[i], a[i])
    BY ValueOfBest DEF IsProfile
<1> DEFINE c == [j \in DOMAIN p |-> IF j = i THEN b ELSE a[j]]
<1>3. /\ \A j \in DOMAIN p : a[j] \in DOMAIN p[j] \cup {{}}
      /\ \A j, k \in DOMAIN p : j # k => a[j] \cap a[k] = {}
    BY FeasibleIs
<1>4. /\ c = [j \in DOMAIN p |-> c[j]] /\ DOMAIN c = DOMAIN p
      /\ \A j \in DOMAIN p : c[j] \in DOMAIN p[j] \cup {{}}
      /\ \A j \in DOMAIN p : c[j] \subseteq a[j]
    BY <1>2, <1>3
<1>5. c[i] = b /\ \A j \in DOMAIN q : c[j] = a[j]
    BY <1>1
<1> HIDE DEF c
<1>6. c \in Feasible(p)
    <2>1. \A j, k \in DOMAIN p : j # k => c[j] \cap c[k] = {}
        BY <1>3, <1>4
    <2> QED
        BY <1>4, <2>1, FeasibleIs
<1>7. Welfare(p, c) = AtomValue(p[i], c[i]) + Welfare(q, c)
    BY <1>4, WelfareSplits DEF q
<1>8. Welfare(q, c) = Welfare(q, a)
    BY <1>1, <1>5, WelfareAgrees
<1>9. Welfare(p, c) <= OptWelfare(p)
    BY <1>6, OptimumIsGreatest
<1> QED
    BY <1>2, <1>5, <1>7, <1>8, <1>9 DEF q

\* At an optimum the solver's credit of a winner is its value_of: the welfare is
\* that value and the welfare of the others.
LEMMA OptimumSplits ==
    ASSUME NEW p, IsProfile(p), NEW a \in Optima(p), NEW i \in DOMAIN p
    PROVE  /\ Welfare(p, a) = OptWelfare(p)
           /\ Welfare(p, a) = ValueOf(p[i], a[i]) + Welfare(Without(p, i), a)
<1>1. a \in Feasible(p) /\ Welfare(p, a) = OptWelfare(p) /\ Welfare(p, a) \in Nat
    BY OptimumIsGreatest
<1>2. \A j \in DOMAIN p : a[j] \in DOMAIN p[j] \cup {{}}
    BY <1>1, FeasibleIs
<1>3. Welfare(p, a) = AtomValue(p[i], a[i]) + Welfare(Without(p, i), a)
    BY <1>2, WelfareSplits
<1>4. /\ AtomValue(p[i], a[i]) \in Nat
      /\ AtomValue(p[i], a[i]) <= ValueOf(p[i], a[i])
      /\ ValueOf(p[i], a[i]) \in Nat
    BY <1>2, AtomWithin, ValueOfBest DEF IsProfile
<1>5. Welfare(Without(p, i), a) \in Nat
    BY <1>1, OthersFallShort
<1>6. ValueOf(p[i], a[i]) + Welfare(Without(p, i), a) <= Welfare(p, a)
    BY <1>1, ValueWithinOptimum
<1> QED
    BY <1>1, <1>3, <1>4, <1>5, <1>6

\* The externality at an optimum: what the others could have had without the bidder,
\* less what they have.
LEMMA RawPaymentBounds ==
    ASSUME NEW p, IsProfile(p), NEW a \in Optima(p), NEW i \in DOMAIN p,
           NEW raw, raw = RawPayment(p, a, Welfare(p, a), OptWelfare(Without(p, i)), i)
    PROVE  /\ raw \in Nat
           /\ raw = OptWelfare(Without(p, i)) - Welfare(Without(p, i), a)
           /\ raw <= ValueOf(p[i], a[i])
<1> DEFINE others == Welfare(Without(p, i), a)
           rest   == OptWelfare(Without(p, i))
           value  == ValueOf(p[i], a[i])
           total  == Welfare(p, a)
<1>1. a \in Feasible(p) /\ total = OptWelfare(p) /\ total = value + others
    BY OptimumIsGreatest, OptimumSplits
<1>2. others \in Nat /\ others <= rest
    BY <1>1, OthersFallShort
<1>3. rest \in Nat /\ rest <= total
    BY <1>1, PresenceDoesNotHurt, OptimumIsGreatest, WithoutProfile
<1>4. value \in Nat
    BY ValueOfBest DEF IsProfile
<1>5. raw = rest - (total - value)
    BY DEF RawPayment
<1> HIDE DEF others, rest, value, total
<1>6. raw \in Nat /\ raw = rest - others /\ raw <= value
    BY <1>1, <1>2, <1>3, <1>4, <1>5
<1> QED
    BY <1>6 DEF others, rest, value, total

\* Whichever bidder its ties favour, the solver answers with an optimum.
LEMMA SolvedIsOptimal ==
    ASSUME NEW p, IsProfile(p), \A i \in DOMAIN p : \A b \in DOMAIN p[i] : IsFiniteSet(b),
           NEW favoured
    PROVE  /\ Solved(p, favoured) \in Optima(p)
           /\ Solved(p, favoured) \in Feasible(p)
           /\ \A i \in DOMAIN p : Solved(p, favoured)[i] \in DOMAIN p[i] \cup {{}}
<1> DEFINE gain == [a \in Optima(p) |->
                       IF favoured \in DOMAIN a THEN Cardinality(a[favoured]) ELSE 0]
           gains == {gain[a] : a \in Optima(p)}
<1>1. IsFiniteSet(Optima(p)) /\ Optima(p) \subseteq Feasible(p) /\ Optima(p) # {}
    BY FeasibleFinite, OptimumIsGreatest, FS_Subset
<1>2. \A a \in Optima(p) : gain[a] \in Nat
    <2> SUFFICES ASSUME NEW a \in Optima(p), favoured \in DOMAIN a
                 PROVE  Cardinality(a[favoured]) \in Nat
        OBVIOUS
    <2>1. favoured \in DOMAIN p /\ a[favoured] \in DOMAIN p[favoured] \cup {{}}
        BY <1>1, FeasibleIs
    <2>2. IsFiniteSet(a[favoured])
        BY <2>1, FS_EmptySet
    <2> QED
        BY <2>2, FS_CardinalityType
<1>3. IsFiniteSet(gains) /\ gains \subseteq Int /\ gains # {}
    <2>1. gains \subseteq Int /\ gains # {}
        <3> HIDE DEF gain
        <3> QED
            BY <1>1, <1>2
    <2>2. IsFiniteSet(gains)
        <3> HIDE DEF gain
        <3> QED
            BY <1>1, FiniteImage
    <2> QED
        BY <2>1, <2>2
<1>4. PICK a \in Optima(p) : gain[a] = Max(gains) /\ \A c \in Optima(p) : gain[c] <= gain[a]
    <2>1. Max(gains) \in gains /\ \A y \in gains : y <= Max(gains)
        <3> HIDE DEF gains
        <3> QED
            BY <1>3, MaxIsGreatest
    <2> HIDE DEF gain
    <2> QED
        BY <2>1
<1>5. Solved(p, favoured) \in Optima(p)
    <2>1. Solved(p, favoured) =
              CHOOSE b \in Optima(p) : \A c \in Optima(p) : gain[c] <= gain[b]
        BY DEF Solved
    <2> HIDE DEF gain
    <2> QED
        BY <1>4, <2>1
<1> QED
    BY <1>1, <1>5, FeasibleIs

-----------------------------------------------------------------------------
(* Lexicographic order.                                                    *)

\* Two bundles of one size differ first at an item of the one LexLess puts first.
FirstIn(a, b) == \E d \in a : d \notin b /\ \A n \in Nat : n < d => (n \in a <=> n \in b)

\* Sets of numbers that differ have a first difference.
LEMMA FirstDifference ==
    ASSUME NEW a \in SUBSET Nat, NEW b \in SUBSET Nat, a # b
    PROVE  /\ Min(SymDiff(a, b)) \in SymDiff(a, b)
           /\ \A n \in Nat : n < Min(SymDiff(a, b)) => (n \in a <=> n \in b)
<1> DEFINE D == SymDiff(a, b)
<1>1. D \in SUBSET Nat /\ D # {} /\ \A n : n \in D <=> ~(n \in a <=> n \in b)
    BY DEF SymDiff
<1> HIDE DEF D
<1>2. Min(D) \in D /\ \A j \in D : Min(D) <= j
    BY <1>1, FirstPosition DEF Min
<1>3. ASSUME NEW n \in Nat, n < Min(D)
      PROVE  n \in a <=> n \in b
    <2> DEFINE m == Min(D)
    <2>1. m \in Nat /\ n < m /\ \A j \in D : m <= j
        BY <1>1, <1>2, <1>3
    <2> HIDE DEF m
    <2>2. n \notin D
        BY <2>1
    <2> QED
        BY <1>1, <2>2
<1> QED
    BY <1>2, <1>3 DEF D

\* Of two finite sets of one size, each has an element the other lacks.
LEMMA SameSizeDiffers ==
    ASSUME NEW a, IsFiniteSet(a), NEW b, IsFiniteSet(b), a # b,
           Cardinality(a) = Cardinality(b)
    PROVE  (\E y \in b : y \notin a) /\ (\E x \in a : x \notin b)
BY FS_Subset

\* On bundles of one size, LexLess says which of them holds the first difference.
LEMMA LexIsFirst ==
    ASSUME NEW a \in SUBSET Nat, IsFiniteSet(a), NEW b \in SUBSET Nat, IsFiniteSet(b),
           Cardinality(a) = Cardinality(b)
    PROVE  LexLess(a, b) <=> FirstIn(a, b)
<1>1. CASE a = b
    BY <1>1 DEF LexLess, FirstIn
<1>2. CASE a # b
    <2> DEFINE d == Min(SymDiff(a, b))
    <2>1. (d \in a /\ d \notin b) \/ (d \in b /\ d \notin a)
        BY <1>2, FirstDifference DEF SymDiff
    <2>2. \A n \in Nat : n < d => (n \in a <=> n \in b)
        BY <1>2, FirstDifference
    <2>3. (\E y \in b : y \notin a) /\ (\E x \in a : x \notin b)
        BY <1>2, SameSizeDiffers
    <2>4. LexLess(a, b) <=> IF d \in a THEN \E y \in b : y > d ELSE \A x \in a : x < d
        BY <1>2 DEF LexLess
    <2> HIDE DEF d
    <2>5. CASE d \in a
        <3>1. FirstIn(a, b)
            BY <2>1, <2>2, <2>5 DEF FirstIn
        <3>2. \E y \in b : y > d
            BY <2>1, <2>2, <2>3, <2>5
        <3> QED
            BY <2>4, <2>5, <3>1, <3>2
    <2>6. CASE d \notin a
        <3>1. ~FirstIn(a, b)
            <4> SUFFICES ASSUME NEW e \in a, e \notin b,
                                \A n \in Nat : n < e => (n \in a <=> n \in b)
                         PROVE  FALSE
                BY DEF FirstIn
            <4>1. d \in Nat /\ e \in Nat /\ d # e
                BY <2>1, <2>6
            <4>2. d < e \/ e < d
                BY <4>1
            <4> QED
                BY <2>1, <2>2, <2>6, <4>1, <4>2
        <3>2. ~(\A x \in a : x < d)
            BY <2>1, <2>2, <2>3, <2>6
        <3> QED
            BY <2>4, <2>6, <3>1, <3>2
    <2> QED
        BY <2>5, <2>6
<1> QED
    BY <1>1, <1>2

\* Holding the first difference is a strict total order.
LEMMA FirstInOrders ==
    ASSUME NEW a \in SUBSET Nat, NEW b \in SUBSET Nat, NEW c \in SUBSET Nat
    PROVE  /\ ~FirstIn(a, a)
           /\ FirstIn(a, b) /\ FirstIn(b, c) => FirstIn(a, c)
           /\ a # b => FirstIn(a, b) \/ FirstIn(b, a)
<1>1. ~FirstIn(a, a)
    BY DEF FirstIn
<1>2. ASSUME FirstIn(a, b), FirstIn(b, c)
      PROVE  FirstIn(a, c)
    <2>1. PICK d \in a : d \notin b /\ \A n \in Nat : n < d => (n \in a <=> n \in b)
        BY <1>2 DEF FirstIn
    <2>2. PICK e \in b : e \notin c /\ \A n \in Nat : n < e => (n \in b <=> n \in c)
        BY <1>2 DEF FirstIn
    <2>3. d \in Nat /\ e \in Nat /\ d # e
        BY <2>1, <2>2
    <2>4. CASE d < e
        <3>1. d \notin c /\ \A n \in Nat : n < d => (n \in a <=> n \in c)
            BY <2>1, <2>2, <2>3, <2>4
        <3> QED
            BY <3>1 DEF FirstIn
    <2>5. CASE e < d
        <3>1. e \in a /\ \A n \in Nat : n < e => (n \in a <=> n \in c)
            BY <2>1, <2>2, <2>3, <2>5
        <3> QED
            BY <2>2, <3>1 DEF FirstIn
    <2> QED
        BY <2>3, <2>4, <2>5
<1>3. ASSUME a # b
      PROVE  FirstIn(a, b) \/ FirstIn(b, a)
    <2> DEFINE d == Min(SymDiff(a, b))
    <2>1. (d \in a /\ d \notin b) \/ (d \in b /\ d \notin a)
        BY <1>3, FirstDifference DEF SymDiff
    <2>2. \A n \in Nat : n < d => (n \in a <=> n \in b)
        BY <1>3, FirstDifference
    <2> HIDE DEF d
    <2> QED
        BY <2>1, <2>2 DEF FirstIn
<1> QED
    BY <1>1, <1>2, <1>3

-----------------------------------------------------------------------------
(* Lists.                                                                  *)

\* The positions up to n whose value is greater than the k-th, or equal and not later.
Ahead(v, n, k) == {j \in 1..n : v[j] > v[k] \/ (v[j] = v[k] /\ j <= k)}

\* In a list ranked by value, ties by position, every rank is taken.
LEMMA RankIsTaken ==
    ASSUME NEW n \in Nat, NEW v, \A k \in 1..n : v[k] \in Int
    PROVE  \A m \in 1..n : \E k \in 1..n : Cardinality(Ahead(v, n, k)) = m
<1> DEFINE D == 1..n
           R == {kk \in D \X D : \/ v[kk[1]] > v[kk[2]]
                                 \/ v[kk[1]] = v[kk[2]] /\ kk[1] < kk[2]}
<1>1. IsFiniteSet(D) /\ Cardinality(D) = n
    BY FS_Interval
<1>2. \A j, k \in D : <<j, k>> \in R <=> v[j] > v[k] \/ (v[j] = v[k] /\ j < k)
    OBVIOUS
<1>3. Orders(R, D)
    <2>1. \A k \in D : v[k] \in Int /\ k \in Int
        OBVIOUS
    <2> HIDE DEF D, R
    <2> QED
        BY <1>2, <2>1 DEF Orders
<1>4. ASSUME NEW m \in D
      PROVE  \E k \in D : Cardinality(Ahead(v, n, k)) = m
    <2>1. PICK k \in D : Cardinality(Predecessors(R, D, k)) + 1 = m
        <3> HIDE DEF D, R
        <3>1. m \in 1..Cardinality(D)
            BY <1>1 DEF D
        <3>2. \A place \in 1..Cardinality(D) :
                  \E k \in D : Cardinality(Predecessors(R, D, k)) + 1 = place
            BY <1>1, <1>3, PlacesAreTaken
        <3> QED
            BY <3>1, <3>2
    <2> DEFINE P == Predecessors(R, D, k)
    <2>2. P \subseteq D /\ \A j \in D : j \in P <=> v[j] > v[k] \/ (v[j] = v[k] /\ j < k)
        BY <1>2 DEF Predecessors
    <2> HIDE DEF P
    <2>3. \A j \in D : j \in Ahead(v, n, k) <=> j \in P \/ j = k
        <3>1. \A j \in D : j <= k <=> j < k \/ j = k
            OBVIOUS
        <3>2. \A j \in D : j \in Ahead(v, n, k) <=> v[j] > v[k] \/ (v[j] = v[k] /\ j <= k)
            BY DEF Ahead
        <3> HIDE DEF D
        <3> QED
            BY <2>2, <3>1, <3>2
    <2>4. k \notin P
        BY <2>2
    <2>5. Ahead(v, n, k) = P \cup {k}
        <3>1. Ahead(v, n, k) \subseteq D
            BY DEF Ahead
        <3> HIDE DEF D
        <3> QED
            BY <2>2, <2>3, <3>1
    <2>6. IsFiniteSet(P)
        BY <1>1, <2>2, FS_Subset
    <2>7. Cardinality(P \cup {k}) = Cardinality(P) + 1
        BY <2>4, <2>6, FS_AddElement
    <2> QED
        BY <2>1, <2>5, <2>7 DEF P
<1> QED
    BY <1>4

\* What is picked out of a list is what stands at the positions, one for each.
LEMMA PickedIs ==
    ASSUME NEW s, NEW ks \in SUBSET Nat, IsFiniteSet(ks)
    PROVE  /\ Cardinality(ks) \in Nat
           /\ DOMAIN Picked(s, ks) = 1..Cardinality(ks)
           /\ \A n \in 1..Cardinality(ks) : \E k \in ks : Picked(s, ks)[n] = s[k]
           /\ \A k \in ks : \E n \in 1..Cardinality(ks) : Picked(s, ks)[n] = s[k]
<1> DEFINE N == Cardinality(ks)
           R == {kk \in ks \X ks : kk[1] < kk[2]}
           upto(k) == {j \in ks : j <= k}
           at(n) == CHOOSE k \in ks : Cardinality(upto(k)) = n
<1>1. N \in Nat
    BY FS_CardinalityType
<1>2. Orders(R, ks)
    BY DEF Orders
<1>3. \A k \in ks : /\ IsFiniteSet(upto(k)) /\ Cardinality(upto(k)) \in 1..N
                    /\ Cardinality(Predecessors(R, ks, k)) + 1 = Cardinality(upto(k))
    <2> SUFFICES ASSUME NEW k \in ks
                 PROVE  /\ IsFiniteSet(upto(k)) /\ Cardinality(upto(k)) \in 1..N
                        /\ Cardinality(Predecessors(R, ks, k)) + 1 = Cardinality(upto(k))
        OBVIOUS
    <2> DEFINE P == Predecessors(R, ks, k)
    <2>1. P = {j \in ks : j < k}
        BY DEF Predecessors
    <2>2. P \subseteq ks /\ k \notin P /\ upto(k) = P \cup {k}
        <3>1. \A j \in ks : (j <= k <=> j < k \/ j = k) /\ ~(k < k)
            OBVIOUS
        <3> QED
            BY <2>1, <3>1
    <2>3. IsFiniteSet(P) /\ IsFiniteSet(upto(k)) /\ Cardinality(upto(k)) <= N
        BY <2>2, FS_Subset
    <2>4. Cardinality(P) \in Nat /\ Cardinality(P \cup {k}) = Cardinality(P) + 1
        BY <2>2, <2>3, FS_AddElement, FS_CardinalityType
    <2> HIDE DEF P, upto, N
    <2> QED
        BY <1>1, <2>2, <2>3, <2>4 DEF P
<1>4. \A n \in 1..N : \E k \in ks : Cardinality(Predecessors(R, ks, k)) + 1 = n
    <2> HIDE DEF R
    <2> QED
        BY <1>2, PlacesAreTaken
<1>5. \A n \in 1..N : at(n) \in ks /\ Cardinality(upto(at(n))) = n
    <2> HIDE DEF R, upto, N
    <2> QED
        BY <1>3, <1>4
<1>6. Picked(s, ks) = [n \in 1..N |-> s[at(n)]]
    BY DEF Picked
<1>7. \A j, k \in ks : Cardinality(upto(j)) = Cardinality(upto(k)) => j = k
    <2> SUFFICES ASSUME NEW j \in ks, NEW k \in ks, j < k,
                        Cardinality(upto(j)) = Cardinality(upto(k))
                 PROVE  FALSE
        OBVIOUS
    <2>1. upto(j) \subseteq upto(k) /\ k \in upto(k) /\ k \notin upto(j)
        <3>1. (\A i \in ks : i <= j => i <= k) /\ k <= k /\ ~(k <= j)
            OBVIOUS
        <3> QED
            BY <3>1
    <2> HIDE DEF upto
    <2> QED
        BY <1>3, <2>1, FS_Subset
<1>8. \A k \in ks : at(Cardinality(upto(k))) = k
    <2> HIDE DEF R, upto, N, at
    <2> QED
        BY <1>3, <1>5, <1>7
<1> HIDE DEF R, upto, at, N
<1> QED
    BY <1>1, <1>3, <1>5, <1>6, <1>8 DEF N

\* What is picked out of a list at some of its positions is a list.
LEMMA PickedSeq ==
    ASSUME NEW T, NEW s \in Seq(T), NEW ks \in SUBSET DOMAIN s
    PROVE  /\ Picked(s, ks) \in Seq({s[k] : k \in ks})
           /\ Range(Picked(s, ks)) = {s[k] : k \in ks}
           /\ Picked(s, ks) = <<>> <=> ks = {}
           /\ ks # {} => Picked(s, ks)[1] \in {s[k] : k \in ks}
<1>1. IsFiniteSet(ks) /\ ks \in SUBSET Nat
    <2>1. Len(s) \in Nat /\ DOMAIN s = 1..Len(s)
        OBVIOUS
    <2>2. IsFiniteSet(1..Len(s)) /\ 1..Len(s) \in SUBSET Nat
        BY <2>1, FS_Interval
    <2> QED
        BY <2>1, <2>2, FS_Subset
<1> DEFINE p == Picked(s, ks)
           N == Cardinality(ks)
<1>2. /\ N \in Nat /\ DOMAIN p = 1..N
      /\ \A n \in 1..N : \E k \in ks : p[n] = s[k]
      /\ \A k \in ks : \E n \in 1..N : p[n] = s[k]
    BY <1>1, PickedIs
<1>3. p = [n \in 1..N |-> p[n]]
    BY DEF Picked
<1>4. N = 0 <=> ks = {}
    BY <1>1, FS_EmptySet
<1> HIDE DEF p, N
<1>5. p \in Seq({s[k] : k \in ks})
    BY <1>2, <1>3
<1>6. Range(p) = {s[k] : k \in ks}
    <2>1. Range(p) = {p[n] : n \in 1..N}
        BY <1>2 DEF Range
    <2>2. \A n \in 1..N : p[n] \in {s[k] : k \in ks}
        BY <1>2
    <2>3. \A k \in ks : s[k] \in {p[n] : n \in 1..N}
        BY <1>2
    <2> QED
        BY <2>1, <2>2, <2>3
<1>7. p = <<>> <=> ks = {}
    <2>1. Len(p) = N
        BY <1>2, <1>5
    <2> QED
        BY <1>4, <1>5, <2>1
<1>8. ks # {} => 1 \in 1..N
    BY <1>2, <1>4
<1>9. ks # {} => p[1] \in {s[k] : k \in ks}
    BY <1>2, <1>8
<1> QED
    BY <1>5, <1>6, <1>7, <1>9 DEF p

\* What is in a concatenation.
LEMMA RangeOfConcat ==
    ASSUME NEW S, NEW s \in Seq(S), NEW t \in Seq(S)
    PROVE  Range(s \o t) = Range(s) \cup Range(t)
<1>1. /\ Len(s) \in Nat /\ DOMAIN s = 1..Len(s)
      /\ Len(t) \in Nat /\ DOMAIN t = 1..Len(t)
      /\ DOMAIN (s \o t) = 1..Len(s) + Len(t)
      /\ \A i \in 1..Len(s) : (s \o t)[i] = s[i]
      /\ \A i \in 1..Len(t) : (s \o t)[Len(s) + i] = t[i]
    OBVIOUS
<1>2. \A i \in 1..Len(s) + Len(t) :
          \/ i \in 1..Len(s)
          \/ i - Len(s) \in 1..Len(t) /\ i = Len(s) + (i - Len(s))
    BY <1>1
<1>3. \A i \in 1..Len(s) : i \in 1..Len(s) + Len(t)
    BY <1>1
<1>4. \A i \in 1..Len(t) : Len(s) + i \in 1..Len(s) + Len(t)
    BY <1>1
<1> DEFINE u == s \o t
<1>5. \A i \in DOMAIN u : u[i] \in Range(s) \cup Range(t)
    <2> SUFFICES ASSUME NEW i \in DOMAIN u PROVE u[i] \in Range(s) \cup Range(t)
        OBVIOUS
    <2>1. CASE i \in 1..Len(s)
        BY <1>1, <2>1 DEF Range
    <2>2. CASE i - Len(s) \in 1..Len(t) /\ i = Len(s) + (i - Len(s))
        <3>1. u[i] = t[i - Len(s)]
            BY <1>1, <2>2
        <3> HIDE DEF u
        <3> QED
            BY <1>1, <2>2, <3>1 DEF Range
    <2> QED
        BY <1>1, <1>2, <2>1, <2>2
<1>6. \A i \in DOMAIN s : s[i] \in Range(u)
    <2> SUFFICES ASSUME NEW i \in DOMAIN s PROVE s[i] \in Range(u)
        OBVIOUS
    <2>1. i \in DOMAIN u /\ u[i] = s[i]
        BY <1>1, <1>3
    <2> HIDE DEF u
    <2> QED
        BY <2>1 DEF Range
<1>7. \A i \in DOMAIN t : t[i] \in Range(u)
    <2> SUFFICES ASSUME NEW i \in DOMAIN t PROVE t[i] \in Range(u)
        OBVIOUS
    <2>1. Len(s) + i \in DOMAIN u /\ u[Len(s) + i] = t[i]
        BY <1>1, <1>4
    <2> HIDE DEF u
    <2> QED
        BY <2>1 DEF Range
<1> HIDE DEF u
<1>8. Range(u) = Range(s) \cup Range(t)
    BY <1>5, <1>6, <1>7 DEF Range
<1> QED
    BY <1>8 DEF u

\* The lists that are concatenated one after the other, up to each of them.
Joins(f, seqs, n) == f = [i \in 1..n |-> IF i = 1 THEN seqs[i] ELSE f[i - 1] \o seqs[i]]

\* There is such a function.
LEMMA JoinsExists ==
    ASSUME NEW seqs, NEW n \in Nat
    PROVE  \E f : Joins(f, seqs, n)
<1> DEFINE Z == {m \in Nat : \E f : Joins(f, seqs, m)}
<1>1. 0 \in Z
    <2>1. Joins(<<>>, seqs, 0)
        BY DEF Joins
    <2> QED
        BY <2>1
<1>2. ASSUME NEW m \in Nat, m \in Z
      PROVE  m + 1 \in Z
    <2>1. PICK f : Joins(f, seqs, m)
        BY <1>2
    <2> DEFINE g == [i \in 1..m + 1 |->
                        IF i <= m THEN f[i]
                        ELSE IF i = 1 THEN seqs[i] ELSE f[i - 1] \o seqs[i]]
    <2>2. \A i \in 1..m : f[i] = IF i = 1 THEN seqs[i] ELSE f[i - 1] \o seqs[i]
        BY <2>1 DEF Joins
    <2>3. \A i \in 1..m : g[i] = f[i]
        OBVIOUS
    <2>4. \A i \in 1..m + 1 : g[i] = IF i = 1 THEN seqs[i] ELSE g[i - 1] \o seqs[i]
        <3> SUFFICES ASSUME NEW i \in 1..m + 1
                     PROVE  g[i] = IF i = 1 THEN seqs[i] ELSE g[i - 1] \o seqs[i]
            OBVIOUS
        <3>1. i = 1 \/ (i - 1 \in 1..m /\ g[i - 1] = f[i - 1])
            BY <2>3
        <3> QED
            BY <2>2, <3>1
    <2>5. Joins(g, seqs, m + 1)
        <3>1. g = [i \in 1..m + 1 |-> g[i]]
            OBVIOUS
        <3> HIDE DEF g
        <3> QED
            BY <2>4, <3>1 DEF Joins
    <2> QED
        BY <2>5
<1> HIDE DEF Z
<1>3. Nat \subseteq Z
    BY <1>1, <1>2, NatSetInduction
<1> QED
    BY <1>3 DEF Z

\* Lists of elements of S, one after the other, are a list of them, and no other.
LEMMA FlattenIs ==
    ASSUME NEW S, NEW seqs \in Seq(Seq(S))
    PROVE  /\ FlattenSeq(seqs) \in Seq(S)
           /\ Range(FlattenSeq(seqs)) = UNION {Range(seqs[k]) : k \in DOMAIN seqs}
<1> DEFINE n == Len(seqs)
           f == CHOOSE h : Joins(h, seqs, n)
           upto(m) == UNION {Range(seqs[k]) : k \in 1..m}
           Z == {m \in Nat : m \in 1..n => f[m] \in Seq(S) /\ Range(f[m]) = upto(m)}
<1>1. n \in Nat /\ DOMAIN seqs = 1..n /\ \A k \in 1..n : seqs[k] \in Seq(S)
    OBVIOUS
<1>2. CASE n = 0
    <2>1. FlattenSeq(seqs) = seqs /\ seqs = <<>>
        BY <1>2 DEF FlattenSeq
    <2> QED
        BY <2>1 DEF Range
<1>3. CASE n # 0
    <2>1. FlattenSeq(seqs) = f[n]
        BY <1>3 DEF FlattenSeq, Joins
    <2>2. Joins(f, seqs, n)
        BY <1>1, JoinsExists
    <2> HIDE DEF f
    <2>3. \A i \in 1..n : f[i] = IF i = 1 THEN seqs[i] ELSE f[i - 1] \o seqs[i]
        BY <2>2 DEF Joins
    <2>4. 0 \in Z
        BY <1>1
    <2>5. ASSUME NEW m \in Nat, m \in Z
          PROVE  m + 1 \in Z
        <3> SUFFICES ASSUME m + 1 \in 1..n
                     PROVE  f[m + 1] \in Seq(S) /\ Range(f[m + 1]) = upto(m + 1)
            OBVIOUS
        <3>1. CASE m = 0
            <4>1. m + 1 = 1 /\ 1 \in 1..n
                BY <3>1
            <4>2. f[m + 1] = seqs[1]
                BY <2>3, <4>1
            <4>3. upto(m + 1) = Range(seqs[1])
                <5>1. 1..1 = {1}
                    OBVIOUS
                <5>2. upto(1) = Range(seqs[1])
                    BY <5>1
                <5> QED
                    BY <4>1, <5>2
            <4> HIDE DEF upto
            <4> QED
                BY <1>1, <4>1, <4>2, <4>3
        <3>2. CASE m # 0
            <4>1. m \in 1..n /\ f[m] \in Seq(S) /\ Range(f[m]) = upto(m)
                BY <1>1, <2>5, <3>2
            <4>2. f[m + 1] = f[m] \o seqs[m + 1] /\ seqs[m + 1] \in Seq(S)
                <5> DEFINE i == m + 1
                <5>1. i \in 1..n /\ i # 1 /\ i - 1 = m
                    BY <3>2
                <5> HIDE DEF i
                <5>2. f[i] = f[m] \o seqs[i]
                    BY <2>3, <5>1
                <5> QED
                    BY <1>1, <5>1, <5>2 DEF i
            <4>3. upto(m + 1) = upto(m) \cup Range(seqs[m + 1])
                <5>1. 1..m + 1 = 1..m \cup {m + 1}
                    OBVIOUS
                <5> QED
                    BY <5>1
            <4>4. Range(f[m] \o seqs[m + 1]) = Range(f[m]) \cup Range(seqs[m + 1])
                BY <4>1, <4>2, RangeOfConcat
            <4> QED
                BY <4>1, <4>2, <4>3, <4>4
        <3> QED
            BY <3>1, <3>2
    <2>6. Nat \subseteq Z
        <3> HIDE DEF Z
        <3> QED
            BY <2>4, <2>5, NatSetInduction
    <2>7. f[n] \in Seq(S) /\ Range(f[n]) = upto(n)
        <3> HIDE DEF Z
        <3>1. n \in Z /\ n \in 1..n
            <4> HIDE DEF n
            <4> QED
                BY <1>1, <1>3, <2>6
        <3> USE DEF Z
        <3> HIDE DEF n, upto
        <3> QED
            BY <3>1
    <2> QED
        BY <1>1, <2>1, <2>7
<1> QED
    BY <1>2, <1>3
=============================================================================
