-------------------------------- MODULE Sums --------------------------------
(***************************************************************************)
(* Facts about the sum of a function over a finite set, as the folds of    *)
(* the library compute it: an element is chosen, and the rest summed;      *)
(* about such a fold with other steps than additions; about functions      *)
(* defined along an interval, each value from the next; and about the      *)
(* flattening of a sequence of sequences, which is one of these.           *)
(***************************************************************************)
EXTENDS Integers, FiniteSets, SequencesExt, FiniteSetTheorems, SequenceTheorems,
        WellFoundedInduction, TLAPS

Chosen(s) == CHOOSE x \in s : TRUE

(* F gives the sum of f over each subset of S.                             *)
IsSum(F, f, S) ==
  F = [s \in SUBSET S |-> IF s = {} THEN 0 ELSE f[Chosen(s)] + F[s \ {Chosen(s)}]]

(* Every nonempty set of numbers has a least one. *)
LEMMA LeastNumber ==
  ASSUME NEW S \in SUBSET Nat, S # {}
  PROVE  \E n \in S : \A k \in S : n <= k
<1>1. PICK n \in S : \A k \in S : ~(<<k, n>> \in OpToRel(<, Nat))
  BY NatLessThanWellFounded, WFMin
<1>2. \A k \in S : n <= k
  <2>1. TAKE k \in S
  <2>2. ~(<<k, n>> \in {ss \in Nat \X Nat : ss[1] < ss[2]})
    BY <1>1 DEF OpToRel
  <2>3. QED
    BY <2>2
<1>3. QED
  BY <1>2

(* Among some subsets of a finite set, one has no smaller one by an        *)
(* element: the step of an induction over subsets.                         *)
LEMMA SmallestSubset ==
  ASSUME NEW S, IsFiniteSet(S), NEW T \in SUBSET SUBSET S, T # {}
  PROVE  \E t \in T : \A x \in t : t \ {x} \notin T
<1> DEFINE sizes == {Cardinality(t) : t \in T}
<1>1. \A t \in T : IsFiniteSet(t) /\ Cardinality(t) \in Nat
  BY FS_Subset, FS_CardinalityType
<1>2. PICK n \in sizes : \A k \in sizes : n <= k
  <2>1. sizes \in SUBSET Nat /\ sizes # {}
    BY <1>1
  <2>2. QED
    BY <2>1, LeastNumber
<1>3. PICK t \in T : Cardinality(t) = n
  BY <1>2
<1>4. \A x \in t : t \ {x} \notin T
  <2> SUFFICES ASSUME NEW x \in t, t \ {x} \in T PROVE FALSE
    OBVIOUS
  <2>1. Cardinality(t \ {x}) = Cardinality(t) - 1
    BY <1>1, FS_RemoveElement
  <2>2. n <= Cardinality(t \ {x})
    BY <1>2
  <2>3. QED
    BY <1>1, <1>3, <2>1, <2>2
<1>5. QED
  BY <1>4

LEMMA ChosenIn ==
  ASSUME NEW s, s # {}
  PROVE  Chosen(s) \in s
BY DEF Chosen

(* The sums exist: those of the sets of at most n elements give those of   *)
(* the sets of at most n + 1.                                              *)
LEMMA SumExists ==
  ASSUME NEW S, IsFiniteSet(S), NEW f
  PROVE  \E F : IsSum(F, f, S)
<1> DEFINE Small(n) == {s \in SUBSET S : Cardinality(s) <= n}
           Value(F, s) == IF s = {} THEN 0 ELSE f[Chosen(s)] + F[s \ {Chosen(s)}]
           Good(F, n) == \A s \in Small(n) : F[s] = Value(F, s)
           Bad == {n \in Nat : \A F : ~Good(F, n)}
<1>1. \A s \in SUBSET S : IsFiniteSet(s) /\ Cardinality(s) \in Nat /\ Cardinality(s) <= Cardinality(S)
  BY FS_Subset, FS_CardinalityType
<1>2. Bad = {}
  <2> SUFFICES ASSUME Bad # {} PROVE FALSE
    OBVIOUS
  <2>1. PICK n \in Bad : \A k \in Bad : n <= k
    BY LeastNumber
  <2>2. n # 0
    <3> SUFFICES ASSUME n = 0 PROVE FALSE
      OBVIOUS
    <3>1. \A s \in Small(0) : s = {}
      BY <1>1, FS_EmptySet
    <3> DEFINE F == [s \in SUBSET S |-> 0]
    <3>2. Good(F, 0)
      BY <3>1
    <3>3. QED
      BY <2>1, <3>2
  <2>3. PICK G : Good(G, n - 1)
    <3> HIDE DEF Good
    <3>1. n \in Nat
      BY <2>1
    <3>2. n - 1 \in Nat /\ n - 1 \notin Bad
      <4> HIDE DEF Bad
      <4>1. QED
        BY <2>1, <2>2, <3>1
    <3>3. QED
      BY <3>2
  <2> DEFINE F == [s \in SUBSET S |-> Value(G, s)]
  <2>4. \A s \in Small(n) : s # {} => s \ {Chosen(s)} \in Small(n - 1)
    <3> SUFFICES ASSUME NEW s \in Small(n), s # {} PROVE s \ {Chosen(s)} \in Small(n - 1)
      OBVIOUS
    <3>1. Chosen(s) \in s
      BY ChosenIn
    <3>2. Cardinality(s \ {Chosen(s)}) = Cardinality(s) - 1
      BY <1>1, <3>1, FS_RemoveElement
    <3>3. QED
      BY <1>1, <2>1, <3>2
  <2>5. \A s \in Small(n - 1) : F[s] = G[s]
    BY <2>3
  <2>6. \A s \in Small(n) : F[s] = Value(F, s)
    <3> SUFFICES ASSUME NEW s \in Small(n) PROVE F[s] = Value(F, s)
      OBVIOUS
    <3>1. CASE s = {}
      BY <3>1
    <3>2. CASE s # {}
      BY <2>4, <2>5, <3>2
    <3>3. QED
      BY <3>1, <3>2
  <2> HIDE DEF F
  <2>7. QED
    BY <2>1, <2>6
<1>3. PICK G : Good(G, Cardinality(S))
  <2>1. Cardinality(S) \in Nat
    BY FS_CardinalityType
  <2>2. QED
    BY <1>2, <2>1
<1> DEFINE F == [s \in SUBSET S |-> G[s]]
<1>4. \A s \in SUBSET S : G[s] = Value(G, s)
  BY <1>1, <1>3
<1>5. \A s \in SUBSET S : Value(G, s) = Value(F, s)
  BY ChosenIn
<1>6. F = [s \in SUBSET S |-> Value(F, s)]
  BY <1>4, <1>5
<1> HIDE DEF F
<1>7. IsSum(F, f, S)
  BY <1>6 DEF IsSum
<1>8. QED
  BY <1>7

(* The library's fold is such a sum. *)
LEMMA LibrarySum ==
  ASSUME NEW S, IsFiniteSet(S), NEW f, DOMAIN f = S
  PROVE  \E F : IsSum(F, f, S) /\ SumFunction(f) = F[S]
<1> DEFINE F == CHOOSE F : IsSum(F, f, S)
<1>1. IsSum(F, f, S)
  BY SumExists
<1>2. SumFunction(f) = F[S]
  BY DEF SumFunction, SumFunctionOnSet, FoldFunctionOnSet, MapThenFoldSet, IsSum, Chosen
<1>3. QED
  BY <1>1, <1>2

LEMMA SumStep ==
  ASSUME NEW S, NEW f, NEW F, IsSum(F, f, S), NEW s \in SUBSET S, s # {}
  PROVE  Chosen(s) \in s /\ F[s] = f[Chosen(s)] + F[s \ {Chosen(s)}]
BY ChosenIn DEF IsSum

LEMMA SumOfNone ==
  ASSUME NEW S, NEW f, NEW F, IsSum(F, f, S)
  PROVE  F[{}] = 0
BY DEF IsSum

LEMMA SumType ==
  ASSUME NEW S, IsFiniteSet(S), NEW f \in [S -> Int], NEW F, IsSum(F, f, S), NEW s \in SUBSET S
  PROVE  F[s] \in Int
<1> DEFINE Bad == {t \in SUBSET S : F[t] \notin Int}
<1>1. ASSUME NEW t \in Bad PROVE \E x \in t : t \ {x} \in Bad
  <2>1. t \in SUBSET S /\ F[t] \notin Int
    OBVIOUS
  <2> HIDE DEF Bad
  <2>2. t # {}
    <3>1. F[{}] = 0
      BY SumOfNone
    <3>2. QED
      BY <2>1, <3>1
  <2> DEFINE c == Chosen(t)
  <2>3. c \in t /\ F[t] = f[c] + F[t \ {c}]
    <3>1. \A r \in SUBSET S : r # {} => Chosen(r) \in r /\ F[r] = f[Chosen(r)] + F[r \ {Chosen(r)}]
      BY SumStep
    <3>2. QED
      BY <2>1, <2>2, <3>1
  <2> HIDE DEF c
  <2>4. F[t \ {c}] \notin Int
    BY <2>1, <2>3
  <2>5. QED
    BY <2>1, <2>3, <2>4 DEF Bad
<1>2. Bad = {}
  <2>1. Bad \in SUBSET SUBSET S
    OBVIOUS
  <2> HIDE DEF Bad
  <2>2. QED
    BY <1>1, <2>1, SmallestSubset
<1>3. QED
  BY <1>2

LEMMA SumInt ==
  ASSUME NEW S, IsFiniteSet(S), NEW f \in [S -> Int]
  PROVE  SumFunction(f) \in Int
<1>1. PICK F : IsSum(F, f, S) /\ SumFunction(f) = F[S]
  BY LibrarySum
<1>2. QED
  BY <1>1, SumType

LEMMA SumNat ==
  ASSUME NEW S, IsFiniteSet(S), NEW f \in [S -> Nat]
  PROVE  SumFunction(f) \in Nat
<1>1. PICK F : IsSum(F, f, S) /\ SumFunction(f) = F[S]
  BY LibrarySum
<1> DEFINE Bad == {t \in SUBSET S : F[t] \notin Nat}
<1>2. ASSUME NEW t \in Bad PROVE \E x \in t : t \ {x} \in Bad
  <2>1. t \in SUBSET S /\ F[t] \notin Nat
    OBVIOUS
  <2> HIDE DEF Bad
  <2>2. t # {}
    <3>1. F[{}] = 0
      BY <1>1, SumOfNone
    <3>2. QED
      BY <2>1, <3>1
  <2> DEFINE c == Chosen(t)
  <2>3. c \in t /\ F[t] = f[c] + F[t \ {c}]
    BY <1>1, <2>1, <2>2, SumStep
  <2> HIDE DEF c
  <2>4. F[t \ {c}] \notin Nat
    BY <2>1, <2>3
  <2>5. QED
    BY <2>1, <2>3, <2>4 DEF Bad
<1>3. Bad = {}
  <2>1. Bad \in SUBSET SUBSET S
    OBVIOUS
  <2> HIDE DEF Bad
  <2>2. QED
    BY <1>2, <2>1, SmallestSubset
<1>4. QED
  BY <1>1, <1>3

(* Sums of numbers that differ in one place differ as much.                *)
LEMMA SumsDiffer ==
  ASSUME NEW S, IsFiniteSet(S), NEW f \in [S -> Int], NEW g \in [S -> Int],
         NEW x \in S, \A y \in S \ {x} : f[y] = g[y],
         NEW F, IsSum(F, f, S), NEW G, IsSum(G, g, S), NEW s \in SUBSET S
  PROVE  F[s] = G[s] + IF x \in s THEN f[x] - g[x] ELSE 0
<1> DEFINE Gap(t) == IF x \in t THEN f[x] - g[x] ELSE 0
           Bad == {t \in SUBSET S : F[t] # G[t] + Gap(t)}
<1>1. ASSUME NEW t \in Bad PROVE \E y \in t : t \ {y} \in Bad
  <2>1. t \in SUBSET S /\ F[t] # G[t] + Gap(t)
    OBVIOUS
  <2> HIDE DEF Bad
  <2>2. t # {}
    <3>1. F[{}] = 0 /\ G[{}] = 0 /\ Gap({}) = 0
      BY SumOfNone
    <3>2. QED
      BY <2>1, <3>1
  <2> DEFINE c == Chosen(t)
             rest == t \ {c}
  <2>3. c \in t /\ F[t] = f[c] + F[rest]
    BY <2>1, <2>2, SumStep
  <2>4. G[t] = g[c] + G[rest]
    BY <2>1, <2>2, SumStep
  <2> HIDE DEF c
  <2>5. F[rest] \in Int /\ G[rest] \in Int
    BY <2>1, <2>3, SumType
  <2>6. c \in S /\ f[c] \in Int /\ g[c] \in Int /\ f[x] \in Int /\ g[x] \in Int
    BY <2>1, <2>3
  <2>7. f[c] - g[c] + Gap(rest) = Gap(t) /\ Gap(rest) \in Int
    <3>1. CASE c = x
      BY <2>3, <2>6, <3>1
    <3>2. CASE c # x
      BY <2>3, <2>6, <3>2
    <3>3. QED
      BY <3>1, <3>2
  <2> HIDE DEF Gap
  <2>8. F[rest] # G[rest] + Gap(rest)
    BY <2>1, <2>3, <2>4, <2>5, <2>6, <2>7
  <2>9. QED
    BY <2>1, <2>3, <2>8 DEF Bad
<1>2. Bad = {}
  <2>1. Bad \in SUBSET SUBSET S
    OBVIOUS
  <2> HIDE DEF Bad
  <2>2. QED
    BY <1>1, <2>1, SmallestSubset
<1>3. QED
  BY <1>2

LEMMA LibrarySumsDiffer ==
  ASSUME NEW S, IsFiniteSet(S), NEW f \in [S -> Int], NEW g \in [S -> Int],
         NEW x \in S, \A y \in S \ {x} : f[y] = g[y]
  PROVE  SumFunction(f) \in Int /\ SumFunction(g) \in Int /\ SumFunction(f) = SumFunction(g) + f[x] - g[x]
<1>1. PICK F : IsSum(F, f, S) /\ SumFunction(f) = F[S]
  BY LibrarySum
<1>2. PICK G : IsSum(G, g, S) /\ SumFunction(g) = G[S]
  BY LibrarySum
<1>3. F[S] \in Int /\ G[S] \in Int
  BY <1>1, <1>2, SumType
<1>4. F[S] = G[S] + (f[x] - g[x])
  BY <1>1, <1>2, SumsDiffer
<1>5. QED
  BY <1>1, <1>2, <1>3, <1>4

(* The sum of two functions.                                               *)
LEMMA SumsAdd ==
  ASSUME NEW S, IsFiniteSet(S), NEW f \in [S -> Int], NEW g \in [S -> Int],
         NEW h \in [S -> Int], \A y \in S : h[y] = f[y] + g[y]
  PROVE  SumFunction(h) = SumFunction(f) + SumFunction(g)
<1>1. PICK F : IsSum(F, f, S) /\ SumFunction(f) = F[S]
  BY LibrarySum
<1>2. PICK G : IsSum(G, g, S) /\ SumFunction(g) = G[S]
  BY LibrarySum
<1>3. PICK H : IsSum(H, h, S) /\ SumFunction(h) = H[S]
  BY LibrarySum
<1> DEFINE Bad == {t \in SUBSET S : H[t] # F[t] + G[t]}
<1>4. ASSUME NEW t \in Bad PROVE \E y \in t : t \ {y} \in Bad
  <2>1. t \in SUBSET S /\ H[t] # F[t] + G[t]
    OBVIOUS
  <2> HIDE DEF Bad
  <2>2. t # {}
    <3>1. F[{}] = 0
      BY <1>1, SumOfNone
    <3>2. G[{}] = 0
      BY <1>2, SumOfNone
    <3>3. H[{}] = 0
      BY <1>3, SumOfNone
    <3>4. H[{}] = F[{}] + G[{}]
      BY <3>1, <3>2, <3>3
    <3>5. QED
      BY <2>1, <3>4
  <2> DEFINE c == Chosen(t)
             rest == t \ {c}
  <2>3. c \in t /\ F[t] = f[c] + F[rest]
    BY <1>1, <2>1, <2>2, SumStep
  <2>4. G[t] = g[c] + G[rest]
    BY <1>2, <2>1, <2>2, SumStep
  <2>5. H[t] = h[c] + H[rest]
    BY <1>3, <2>1, <2>2, SumStep
  <2> HIDE DEF c
  <2>6. F[rest] \in Int /\ G[rest] \in Int /\ H[rest] \in Int
    BY <1>1, <1>2, <1>3, <2>1, <2>3, SumType
  <2>7. c \in S /\ f[c] \in Int /\ g[c] \in Int /\ h[c] = f[c] + g[c]
    BY <2>1, <2>3
  <2>8. H[rest] # F[rest] + G[rest]
    BY <2>1, <2>3, <2>4, <2>5, <2>6, <2>7
  <2>9. QED
    BY <2>1, <2>3, <2>8 DEF Bad
<1>5. Bad = {}
  <2>1. Bad \in SUBSET SUBSET S
    OBVIOUS
  <2> HIDE DEF Bad
  <2>2. QED
    BY <1>4, <2>1, SmallestSubset
<1>6. QED
  BY <1>1, <1>2, <1>3, <1>5

LEMMA SumOfZeros ==
  ASSUME NEW S, IsFiniteSet(S), NEW f \in [S -> {0}]
  PROVE  SumFunction(f) = 0
<1>1. f \in [S -> Int] /\ \A y \in S : f[y] = f[y] + f[y]
  OBVIOUS
<1>2. SumFunction(f) = SumFunction(f) + SumFunction(f)
  BY <1>1, SumsAdd
<1>3. SumFunction(f) \in Int
  BY <1>1, SumInt
<1> DEFINE sum == SumFunction(f)
<1> HIDE DEF sum
<1>4. sum \in Int /\ sum = sum + sum => sum = 0
  OBVIOUS
<1>5. QED
  BY <1>2, <1>3, <1>4 DEF sum

(* How often v has each of the values of C, over t.                        *)
Tally(v, t, C) == [c \in C |-> Cardinality({x \in t : v[x] = c})]

LEMMA TallyType ==
  ASSUME NEW t, IsFiniteSet(t), NEW v, NEW C
  PROVE  Tally(v, t, C) \in [C -> Nat]
<1>1. \A c \in C : IsFiniteSet({x \in t : v[x] = c})
  BY FS_Subset
<1>2. QED
  BY <1>1, FS_CardinalityType DEF Tally

(* Every element is counted once, with its value.                          *)
LEMMA TallySum ==
  ASSUME NEW X, IsFiniteSet(X), NEW C, IsFiniteSet(C), NEW v
  PROVE  SumFunction(Tally(v, X, C)) = Cardinality({x \in X : v[x] \in C})
<1> DEFINE In(t) == {x \in t : v[x] \in C}
           Bad == {t \in SUBSET X : SumFunction(Tally(v, t, C)) # Cardinality(In(t))}
<1>1. ASSUME NEW t \in Bad PROVE \E y \in t : t \ {y} \in Bad
  <2>1. t \in SUBSET X /\ IsFiniteSet(t) /\ SumFunction(Tally(v, t, C)) # Cardinality(In(t))
    BY FS_Subset
  <2> HIDE DEF Bad
  <2>2. t # {}
    <3>1. Tally(v, {}, C) \in [C -> {0}] /\ In({}) = {}
      BY FS_EmptySet DEF Tally
    <3>2. SumFunction(Tally(v, {}, C)) = 0
      BY <3>1, SumOfZeros
    <3>3. QED
      BY <2>1, <3>1, <3>2, FS_EmptySet
  <2>3. PICK y \in t : TRUE
    BY <2>2
  <2> DEFINE rest == t \ {y}
             f == Tally(v, t, C)
             g == Tally(v, rest, C)
  <2>4. IsFiniteSet(rest) /\ rest \in SUBSET X
    BY <2>1, FS_RemoveElement
  <2>5. f \in [C -> Int] /\ g \in [C -> Int]
    <3>1. Tally(v, t, C) \in [C -> Nat]
      BY <2>1, TallyType
    <3>2. Tally(v, rest, C) \in [C -> Nat]
      BY <2>4, TallyType
    <3>3. QED
      BY <3>1, <3>2
  <2>6. \A c \in C : c # v[y] => f[c] = g[c]
    <3>1. \A c \in C : c # v[y] => {x \in t : v[x] = c} = {x \in rest : v[x] = c}
      BY <2>3
    <3>2. QED
      BY <3>1 DEF Tally
  <2>7. ASSUME v[y] \in C PROVE f[v[y]] = g[v[y]] + 1
    <3>1. {x \in rest : v[x] = v[y]} = {x \in t : v[x] = v[y]} \ {y}
      OBVIOUS
    <3>2. IsFiniteSet({x \in t : v[x] = v[y]}) /\ y \in {x \in t : v[x] = v[y]}
      BY <2>1, FS_Subset
    <3>3. Cardinality({x \in rest : v[x] = v[y]}) = Cardinality({x \in t : v[x] = v[y]}) - 1
      BY <3>1, <3>2, FS_RemoveElement
    <3>4. Cardinality({x \in t : v[x] = v[y]}) \in Nat
      BY <3>2, FS_CardinalityType
    <3>5. /\ f[v[y]] = Cardinality({x \in t : v[x] = v[y]})
          /\ g[v[y]] = Cardinality({x \in rest : v[x] = v[y]})
      BY <2>7 DEF Tally
    <3> HIDE DEF f, g, rest
    <3>6. QED
      BY <3>3, <3>4, <3>5
  <2> HIDE DEF f, g
  <2>8. SumFunction(g) # Cardinality(In(rest))
    <3>1. IsFiniteSet(In(t)) /\ Cardinality(In(t)) \in Nat
      BY <2>1, FS_Subset, FS_CardinalityType
    <3>2. SumFunction(f) \in Int /\ SumFunction(g) \in Int
      BY <2>5, SumInt
    <3>3. CASE v[y] \in C
      <4>1. In(rest) = In(t) \ {y} /\ y \in In(t)
        BY <3>3
      <4>2. Cardinality(In(rest)) = Cardinality(In(t)) - 1
        BY <3>1, <4>1, FS_RemoveElement
      <4>3. SumFunction(f) = SumFunction(g) + f[v[y]] - g[v[y]]
        BY <2>5, <2>6, <3>3, LibrarySumsDiffer
      <4>4. f[v[y]] = g[v[y]] + 1 /\ g[v[y]] \in Int
        BY <2>5, <2>7, <3>3
      <4>5. SumFunction(f) = SumFunction(g) + 1
        BY <3>2, <4>3, <4>4
      <4>6. SumFunction(f) # Cardinality(In(t))
        BY <2>1 DEF f
      <4> HIDE DEF rest, In
      <4>7. QED
        BY <3>1, <3>2, <4>2, <4>5, <4>6
    <3>4. CASE v[y] \notin C
      <4>1. In(rest) = In(t)
        BY <3>4
      <4>2. f = g
        BY <2>5, <2>6, <3>4
      <4>3. QED
        BY <2>1, <4>1, <4>2 DEF f
    <3>5. QED
      BY <3>3, <3>4
  <2>9. QED
    BY <2>3, <2>4, <2>8 DEF Bad, g
<1>2. Bad = {}
  <2>1. Bad \in SUBSET SUBSET X
    OBVIOUS
  <2> HIDE DEF Bad
  <2>2. QED
    BY <1>1, <2>1, SmallestSubset
<1>3. QED
  BY <1>2


-----------------------------------------------------------------------------
(* A fold over a finite set: the elements one after the other, in the      *)
(* order in which pick takes them out, the last one first.                 *)
IsFold(F, step, base, pick, S) ==
  F = [s \in SUBSET S |-> IF s = {} THEN base ELSE step[<<pick[s], F[s \ {pick[s]}]>>]]

LEMMA FoldExists ==
  ASSUME NEW S, IsFiniteSet(S), NEW base, NEW step, NEW pick,
         \A s \in SUBSET S : s # {} => pick[s] \in s
  PROVE  \E F : IsFold(F, step, base, pick, S)
<1> DEFINE Small(n) == {s \in SUBSET S : Cardinality(s) <= n}
           Value(F, s) == IF s = {} THEN base ELSE step[<<pick[s], F[s \ {pick[s]}]>>]
           Good(F, n) == \A s \in Small(n) : F[s] = Value(F, s)
           Bad == {n \in Nat : \A F : ~Good(F, n)}
<1>1. \A s \in SUBSET S : IsFiniteSet(s) /\ Cardinality(s) \in Nat /\ Cardinality(s) <= Cardinality(S)
  BY FS_Subset, FS_CardinalityType
<1>2. Bad = {}
  <2> SUFFICES ASSUME Bad # {} PROVE FALSE
    OBVIOUS
  <2>1. PICK n \in Bad : \A k \in Bad : n <= k
    BY LeastNumber
  <2>2. n # 0
    <3> SUFFICES ASSUME n = 0 PROVE FALSE
      OBVIOUS
    <3>1. \A s \in Small(0) : s = {}
      BY <1>1, FS_EmptySet
    <3> DEFINE F == [s \in SUBSET S |-> base]
    <3>2. Good(F, 0)
      BY <3>1
    <3>3. QED
      BY <2>1, <3>2
  <2>3. PICK G : Good(G, n - 1)
    <3> HIDE DEF Good
    <3>1. n \in Nat
      BY <2>1
    <3>2. n - 1 \in Nat /\ n - 1 \notin Bad
      <4> HIDE DEF Bad
      <4>1. QED
        BY <2>1, <2>2, <3>1
    <3>3. QED
      BY <3>2
  <2> DEFINE F == [s \in SUBSET S |-> Value(G, s)]
  <2>4. \A s \in Small(n) : s # {} => s \ {pick[s]} \in Small(n - 1)
    <3> SUFFICES ASSUME NEW s \in Small(n), s # {} PROVE s \ {pick[s]} \in Small(n - 1)
      OBVIOUS
    <3>1. Cardinality(s \ {pick[s]}) = Cardinality(s) - 1
      BY <1>1, FS_RemoveElement
    <3>2. QED
      BY <1>1, <2>1, <3>1
  <2>5. \A s \in Small(n - 1) : F[s] = G[s]
    BY <2>3
  <2>6. \A s \in Small(n) : F[s] = Value(F, s)
    <3> SUFFICES ASSUME NEW s \in Small(n) PROVE F[s] = Value(F, s)
      OBVIOUS
    <3>1. CASE s = {}
      BY <3>1
    <3>2. CASE s # {}
      BY <2>4, <2>5, <3>2
    <3>3. QED
      BY <3>1, <3>2
  <2> HIDE DEF F
  <2>7. QED
    BY <2>1, <2>6
<1>3. PICK G : Good(G, Cardinality(S))
  <2>1. Cardinality(S) \in Nat
    BY FS_CardinalityType
  <2> HIDE DEF Good
  <2>2. QED
    BY <1>2, <2>1
<1> DEFINE F == [s \in SUBSET S |-> G[s]]
<1>4. \A s \in SUBSET S : G[s] = Value(G, s)
  BY <1>1, <1>3
<1>5. \A s \in SUBSET S : Value(G, s) = Value(F, s)
  OBVIOUS
<1>6. F = [s \in SUBSET S |-> Value(F, s)]
  BY <1>4, <1>5
<1> HIDE DEF F
<1>7. IsFold(F, step, base, pick, S)
  BY <1>6 DEF IsFold
<1>8. QED
  BY <1>7

(* Its values lie where its steps lead.                                    *)
LEMMA FoldType ==
  ASSUME NEW S, IsFiniteSet(S), NEW V, NEW base \in V, NEW step \in [S \X V -> V], NEW pick,
         \A s \in SUBSET S : s # {} => pick[s] \in s,
         NEW F, IsFold(F, step, base, pick, S), NEW s \in SUBSET S
  PROVE  F[s] \in V
<1> DEFINE Bad == {t \in SUBSET S : F[t] \notin V}
<1>1. ASSUME NEW t \in Bad PROVE \E x \in t : t \ {x} \in Bad
  <2>1. t # {}
    BY DEF IsFold
  <2>2. F[t] = step[<<pick[t], F[t \ {pick[t]}]>>] /\ pick[t] \in t
    BY <2>1 DEF IsFold
  <2>3. QED
    BY <2>2
<1>2. Bad = {}
  <2>1. Bad \in SUBSET SUBSET S
    OBVIOUS
  <2> HIDE DEF Bad
  <2>2. QED
    BY <1>1, <2>1, SmallestSubset
<1>3. QED
  BY <1>2

-----------------------------------------------------------------------------
(* Functions on an interval that are defined from left to right.           *)

IsChain(F, step, first, a, b) ==
  F = [i \in a .. b |-> IF i = a THEN first ELSE step[<<i, F[i - 1]>>]]

LEMMA ChainExists ==
  ASSUME NEW a \in Int, NEW b \in Int, NEW first, NEW step
  PROVE  \E F : IsChain(F, step, first, a, b)
<1> DEFINE Bad == {n \in Nat : ~ \E F : IsChain(F, step, first, a, a + n)}
<1>1. Bad = {}
  <2> SUFFICES ASSUME Bad # {} PROVE FALSE
    OBVIOUS
  <2>1. PICK n \in Bad : \A k \in Bad : n <= k
    <3>1. Bad \in SUBSET Nat
      OBVIOUS
    <3> HIDE DEF Bad
    <3>2. QED
      BY <3>1, LeastNumber
  <2>2. n \in Nat /\ ~ \E F : IsChain(F, step, first, a, a + n)
    OBVIOUS
  <2>3. n # 0 => \E F : IsChain(F, step, first, a, a + n - 1)
    <3>1. n # 0 => n - 1 \in Nat /\ n - 1 \notin Bad
      BY <2>1, <2>2
    <3>2. n # 0 => a + (n - 1) = a + n - 1
      BY <2>2
    <3>3. QED
      BY <3>1, <3>2
  <2> HIDE DEF Bad
  <2>4. CASE n = 0
    <3> DEFINE F == [i \in a .. a + n |-> first]
    <3>1. F = [i \in a .. a + n |-> IF i = a THEN first ELSE step[<<i, F[i - 1]>>]]
      BY <2>4
    <3>2. QED
      BY <2>2, <3>1 DEF IsChain
  <2>5. CASE n # 0
    <3>1. PICK G : G = [i \in a .. a + n - 1 |-> IF i = a THEN first ELSE step[<<i, G[i - 1]>>]]
      BY <2>3, <2>5 DEF IsChain
    <3> DEFINE F == [i \in a .. a + n |-> IF i = a THEN first ELSE step[<<i, G[i - 1]>>]]
    <3>2. \A i \in a .. a + n - 1 : F[i] = G[i]
      BY <2>2, <3>1
    <3>3. \A i \in a .. a + n : i # a => i - 1 \in a .. a + n - 1
      BY <2>2
    <3>4. F = [i \in a .. a + n |-> IF i = a THEN first ELSE step[<<i, F[i - 1]>>]]
      <4>1. \A i \in a .. a + n : i # a => F[i - 1] = G[i - 1]
        BY <3>2, <3>3
      <4> DEFINE H == F
      <4>2. H = [i \in a .. a + n |-> IF i = a THEN first ELSE step[<<i, G[i - 1]>>]]
        OBVIOUS
      <4> HIDE DEF H
      <4>3. \A i \in a .. a + n : i # a => H[i - 1] = G[i - 1]
        BY <4>1 DEF H
      <4>4. H = [i \in a .. a + n |-> IF i = a THEN first ELSE step[<<i, H[i - 1]>>]]
        BY <4>2, <4>3
      <4>5. QED
        BY <4>4 DEF H
    <3> HIDE DEF F
    <3>5. QED
      BY <2>2, <3>4 DEF IsChain
  <2>6. QED
    BY <2>4, <2>5
<1>2. CASE a <= b
  <2>1. b - a \in Nat /\ a + (b - a) = b
    BY <1>2
  <2>2. b - a \notin Bad
    BY <1>1
  <2>3. \E F : IsChain(F, step, first, a, a + (b - a))
    BY <2>1, <2>2
  <2>4. QED
    BY <2>1, <2>3
<1>3. CASE b < a
  <2> DEFINE F == [i \in a .. b |-> first]
  <2>1. a .. b = {}
    BY <1>3
  <2>2. F = [i \in a .. b |-> IF i = a THEN first ELSE step[<<i, F[i - 1]>>]]
    BY <2>1
  <2>3. QED
    BY <2>2 DEF IsChain
<1>4. QED
  BY <1>2, <1>3

LEMMA ChainStep ==
  ASSUME NEW a \in Int, NEW b \in Int, NEW first, NEW step, NEW F,
         IsChain(F, step, first, a, b), NEW i \in a .. b
  PROVE  F[i] = IF i = a THEN first ELSE step[<<i, F[i - 1]>>]
BY DEF IsChain

LEMMA ChainType ==
  ASSUME NEW a \in Int, NEW b \in Int, NEW V, NEW first \in V, NEW step \in [(a .. b) \X V -> V],
         NEW F, IsChain(F, step, first, a, b)
  PROVE  F \in [a .. b -> V]
<1> DEFINE Bad == {n \in Nat : a + n <= b /\ F[a + n] \notin V}
<1>1. Bad = {}
  <2> SUFFICES ASSUME Bad # {} PROVE FALSE
    OBVIOUS
  <2>1. PICK n \in Bad : \A k \in Bad : n <= k
    <3>1. Bad \in SUBSET Nat
      OBVIOUS
    <3> HIDE DEF Bad
    <3>2. QED
      BY <3>1, LeastNumber
  <2>2. n \in Nat /\ a + n <= b /\ F[a + n] \notin V
    OBVIOUS
  <2>3. n # 0 => F[a + n - 1] \in V
    <3>1. n # 0 => n - 1 \in Nat /\ a + (n - 1) <= b /\ a + (n - 1) = a + n - 1 /\ n - 1 \notin Bad
      BY <2>1, <2>2
    <3>2. QED
      BY <3>1
  <2> HIDE DEF Bad
  <2>4. a + n \in a .. b
    BY <2>2
  <2>5. F[a + n] = IF a + n = a THEN first ELSE step[<<a + n, F[(a + n) - 1]>>]
    <3> DEFINE i == a + n
    <3>1. i \in a .. b
      BY <2>4
    <3> HIDE DEF i
    <3>2. F[i] = IF i = a THEN first ELSE step[<<i, F[i - 1]>>]
      BY <3>1, ChainStep
    <3>3. QED
      BY <3>2 DEF i
  <2>6. CASE n = 0
    BY <2>2, <2>5, <2>6
  <2>7. CASE n # 0
    <3>1. a + n # a /\ (a + n) - 1 = a + n - 1 /\ F[(a + n) - 1] \in V
      BY <2>2, <2>3, <2>7
    <3>2. step[<<a + n, F[(a + n) - 1]>>] \in V
      BY <2>4, <3>1
    <3>3. QED
      BY <2>2, <2>5, <3>1, <3>2
  <2>8. QED
    BY <2>6, <2>7
<1>2. \A i \in a .. b : F[i] \in V
  <2> SUFFICES ASSUME NEW i \in a .. b PROVE F[i] \in V
    OBVIOUS
  <2>1. i - a \in Nat /\ a + (i - a) = i /\ i <= b
    OBVIOUS
  <2>2. i - a \notin Bad
    BY <1>1
  <2>3. QED
    BY <2>1, <2>2
<1>3. F = [i \in a .. b |-> F[i]]
  BY DEF IsChain
<1>4. QED
  BY <1>2, <1>3

-----------------------------------------------------------------------------
(* The flattening of sequences.  The provers do not match the              *)
(* operators of sequences in a fact: they have names of their own for it.  *)
Joined(s, t) == s \o t

IsFlattening(F, s) ==
  /\ F[1] = s[1]
  /\ \A i \in 2 .. Len(s) : F[i] = Joined(F[i - 1], s[i])

LEMMA JoinedType ==
  ASSUME NEW V, NEW s \in Seq(V), NEW t \in Seq(V)
  PROVE  Joined(s, t) \in Seq(V)
BY ConcatProperties DEF Joined

LEMMA FlattenChain ==
  ASSUME NEW V, NEW s \in Seq(Seq(V)), s # << >>
  PROVE  \E F \in [1 .. Len(s) -> Seq(V)] : FlattenSeq(s) = F[Len(s)] /\ IsFlattening(F, s)
<1> DEFINE n == Len(s)
           Values(M) == [i \in 1 .. n |-> IF i = 1 THEN s[i] ELSE M[i - 1] \o s[i]]
           M == CHOOSE M : M = Values(M)
           one == 1
           first == s[1]
           step == [x \in (one .. n) \X Seq(V) |-> Joined(x[2], s[x[1]])]
<1>1. n \in Nat /\ n # 0 /\ \A i \in 1 .. n : s[i] \in Seq(V)
  BY LenProperties, ElementOfSeq, EmptySeq
<1>2. first \in Seq(V) /\ one \in Int /\ n \in Int
  BY <1>1
<1>3. step \in [(one .. n) \X Seq(V) -> Seq(V)]
  <2> HIDE DEF n
  <2>1. \A x \in (one .. n) \X Seq(V) : Joined(x[2], s[x[1]]) \in Seq(V)
    BY <1>1, JoinedType
  <2>2. QED
    BY <2>1
<1>4. \A i \in 1 .. n, u \in Seq(V) : step[<<i, u>>] = Joined(u, s[i])
  <2> HIDE DEF n
  <2>1. QED
    OBVIOUS
<1> HIDE DEF step, n, first, one
<1>5. PICK F : IsChain(F, step, first, one, n)
  BY <1>2, ChainExists
<1>6. F \in [one .. n -> Seq(V)]
  BY <1>2, <1>3, <1>5, ChainType
<1>7. F \in [1 .. n -> Seq(V)]
  BY <1>6 DEF one
<1>8. F = Values(F)
  <2>1. F = [i \in 1 .. n |-> IF i = 1 THEN s[1] ELSE step[<<i, F[i - 1]>>]]
    BY <1>5 DEF IsChain, one, first
  <2>2. \A i \in 1 .. n : i # 1 => i - 1 \in 1 .. n /\ F[i - 1] \in Seq(V)
    BY <1>1, <1>7
  <2>3. \A i \in 1 .. n : i # 1 => step[<<i, F[i - 1]>>] = F[i - 1] \o s[i]
    BY <1>4, <2>2 DEF Joined
  <2>4. QED
    BY <2>1, <2>3
<1>9. M = Values(M)
  <2> HIDE DEF Values
  <2>1. QED
    BY <1>8
<1>10. FlattenSeq(s) = M[n]
  BY <1>1 DEF FlattenSeq, n
<1> HIDE DEF M
<1>11. M[1] = s[1]
  BY <1>1, <1>9
<1>12. \A i \in 2 .. n : M[i] = Joined(M[i - 1], s[i])
  <2> SUFFICES ASSUME NEW i \in 2 .. n PROVE M[i] = Joined(M[i - 1], s[i])
    OBVIOUS
  <2>1. i \in 1 .. n /\ i # 1
    BY <1>1
  <2>2. M[i] = M[i - 1] \o s[i]
    BY <1>9, <2>1
  <2>3. QED
    BY <2>2 DEF Joined
<1>13. \A i \in 1 .. n : M[i] \in Seq(V)
  <2> DEFINE Bad == {i \in 1 .. n : M[i] \notin Seq(V)}
  <2> SUFFICES ASSUME Bad # {} PROVE FALSE
    OBVIOUS
  <2>1. PICK i \in Bad : \A j \in Bad : i <= j
    <3>1. Bad \in SUBSET Nat
      BY <1>1
    <3> HIDE DEF Bad
    <3>2. QED
      BY <3>1, LeastNumber
  <2>2. i \in 1 .. n /\ M[i] \notin Seq(V) /\ i # 1
    BY <1>1, <1>11
  <2>3. i \in 2 .. n /\ i - 1 \in 1 .. n /\ i - 1 \notin Bad
    BY <1>1, <2>1, <2>2
  <2>4. M[i - 1] \in Seq(V) /\ s[i] \in Seq(V)
    BY <1>1, <2>3
  <2>5. M[i] = Joined(M[i - 1], s[i])
    BY <1>12, <2>3
  <2>6. QED
    BY <2>2, <2>4, <2>5, JoinedType
<1>14. M \in [1 .. n -> Seq(V)]
  BY <1>9, <1>13
<1>15. IsFlattening(M, s)
  BY <1>11, <1>12 DEF IsFlattening, n
<1>16. QED
  BY <1>10, <1>14, <1>15 DEF n

LEMMA FlattenNone == FlattenSeq(<< >>) = << >>
BY DEF FlattenSeq

LEMMA FlattenType ==
  ASSUME NEW V, NEW s \in Seq(Seq(V))
  PROVE  FlattenSeq(s) \in Seq(V)
<1>1. CASE s = << >>
  BY <1>1, FlattenNone, EmptySeq
<1>2. CASE s # << >>
  <2>1. PICK F \in [1 .. Len(s) -> Seq(V)] : FlattenSeq(s) = F[Len(s)] /\ IsFlattening(F, s)
    BY <1>2, FlattenChain
  <2>2. Len(s) \in 1 .. Len(s)
    BY <1>2, EmptySeq
  <2>3. QED
    BY <2>1, <2>2
<1>3. QED
  BY <1>1, <1>2

=============================================================================
