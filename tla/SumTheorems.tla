---------------------------- MODULE SumTheorems ----------------------------
(***************************************************************************)
(* Sums over finite sets.  The community module defines SumFunctionOnSet   *)
(* by a recursive fold; these lemmas say what a proof needs of it: that it *)
(* is well defined, that any element can be taken out first, that it       *)
(* depends on the values only, and how it reacts to changing one value.    *)
(*                                                                         *)
(* Induction is over a SET of subsets or of numbers, so that every step is *)
(* first-order; it rests on the least-number principle, which the library  *)
(* proves as the well-foundedness of < on the naturals.                    *)
(***************************************************************************)
EXTENDS Integers, FiniteSets, Functions, FiniteSetTheorems, TLAPS

-----------------------------------------------------------------------------
(* Induction. *)

\* Every non-empty set of natural numbers has a least element.
LEMMA LeastElement ==
    ASSUME NEW T, T \subseteq Nat, T # {}
    PROVE  \E m \in T : \A n \in T : m <= n
<1> DEFINE R == OpToRel(<, Nat)
<1>1. IsWellFoundedOn(R, Nat)
  BY NatLessThanWellFounded
<1>2. \A x, y \in Nat : x < y => <<x, y>> \in R
  BY DEF OpToRel
<1> HIDE DEF R
<1>3. PICK m \in T : \A n \in T : ~ (<<n, m>> \in R)
  BY <1>1, WFMin
<1>4. ASSUME NEW n \in T PROVE m <= n
  <2>1. m \in Nat /\ n \in Nat
    OBVIOUS
  <2>2. ~(n < m)
    BY <1>2, <1>3, <2>1
  <2> QED BY <2>1, <2>2
<1> QED
  BY <1>4

\* A set of numbers that holds 0 and the successor of each of its members
\* holds every number.
LEMMA SetInduction ==
    ASSUME NEW G, 0 \in G, \A n \in Nat : n \in G => n + 1 \in G
    PROVE  Nat \subseteq G
<1> SUFFICES ASSUME Nat \ G # {} PROVE FALSE
  OBVIOUS
<1>1. PICK m \in Nat \ G : \A n \in Nat \ G : m <= n
  <2>1. Nat \ G \subseteq Nat
    OBVIOUS
  <2> QED BY <2>1, LeastElement
<1>2. m # 0 /\ m - 1 \in Nat /\ (m - 1) + 1 = m
  BY <1>1
<1>3. m - 1 \notin Nat \ G
  BY <1>1, <1>2
<1> QED
  BY <1>2, <1>3

\* A family of subsets of a finite set that holds the empty set, and with a
\* set T every T \cup {x}, holds every subset.
LEMMA FiniteInduction ==
    ASSUME NEW S, IsFiniteSet(S), NEW G, {} \in G,
           \A T \in SUBSET S : T \in G => \A x \in S \ T : T \cup {x} \in G
    PROVE  SUBSET S \subseteq G
<1> DEFINE N == {n \in Nat : \A T \in SUBSET S : Cardinality(T) = n => T \in G}
<1>0. \A T \in SUBSET S : IsFiniteSet(T) /\ Cardinality(T) \in Nat
  BY FS_Subset, FS_CardinalityType
<1>1. 0 \in N
  BY <1>0, FS_EmptySet
<1>2. ASSUME NEW n \in Nat, n \in N PROVE n + 1 \in N
  <2> SUFFICES ASSUME NEW T \in SUBSET S, Cardinality(T) = n + 1 PROVE T \in G
    OBVIOUS
  <2>1. PICK x \in T : TRUE
    BY <1>0, FS_EmptySet
  <2>2. T \ {x} \in SUBSET S /\ x \in S \ (T \ {x}) /\ (T \ {x}) \cup {x} = T
    BY <2>1
  <2>3. Cardinality(T \ {x}) = n
    <3>1. Cardinality(T \ {x}) = Cardinality(T) - 1
      BY <1>0, <2>1, FS_RemoveElement
    <3> QED BY <3>1
  <2>4. T \ {x} \in G
    BY <1>2, <2>2, <2>3
  <2> QED BY <2>2, <2>4
<1>3. Nat \subseteq N
  <2> HIDE DEF N
  <2> QED BY <1>1, <1>2, SetInduction
<1> QED
  BY <1>0, <1>3

-----------------------------------------------------------------------------
(* The fold behind SumFunctionOnSet is well defined. *)

\* One unfolding of the fold: take out the chosen element.
FoldStep(g, f, s) ==
    IF s = {} THEN 0 ELSE f[CHOOSE x \in s : TRUE] + g[s \ {CHOOSE x \in s : TRUE}]

\* g tabulates the sums of f over all subsets of S
IsTable(g, f, S) == g = [s \in SUBSET S |-> FoldStep(g, f, s)]

FoldTable(f, S) == CHOOSE g : IsTable(g, f, S)

\* The sum is the entry of the whole set in the table.
LEMMA SumIsFold == \A f, S : SumFunctionOnSet(f, S) = FoldTable(f, S)[S]
  BY DEF SumFunctionOnSet, FoldFunctionOnSet, MapThenFoldSet, FoldTable, IsTable, FoldStep

\* The chosen element is a member.
LEMMA ChosenMember == \A s : s # {} => (CHOOSE x \in s : TRUE) \in s
  OBVIOUS

\* FoldStep only looks at smaller sets.
LEMMA FoldStepLocal ==
    ASSUME NEW g, NEW h, NEW f, NEW s,
           \A x \in s : g[s \ {x}] = h[s \ {x}]
    PROVE  FoldStep(g, f, s) = FoldStep(h, f, s)
<1> DEFINE c == CHOOSE x \in s : TRUE
<1>1. s # {} => c \in s
  BY ChosenMember
<1>2. s # {} => g[s \ {c}] = h[s \ {c}]
  BY <1>1
<1> QED
  BY <1>2 DEF FoldStep

\* A finite set has a table.
LEMMA TableExists ==
    ASSUME NEW f, NEW S, IsFiniteSet(S)
    PROVE  IsTable(FoldTable(f, S), f, S)
<1> DEFINE Upto(g, n) == \A s \in SUBSET S : Cardinality(s) <= n => g[s] = FoldStep(g, f, s)
           N == {n \in Nat : \E g : g = [s \in SUBSET S |-> g[s]] /\ Upto(g, n)}
<1>0. \A T \in SUBSET S : IsFiniteSet(T) /\ Cardinality(T) \in Nat
  BY FS_Subset, FS_CardinalityType
<1>1. 0 \in N
  <2> DEFINE g == [s \in SUBSET S |-> 0]
  <2>1. ASSUME NEW s \in SUBSET S, Cardinality(s) <= 0 PROVE g[s] = FoldStep(g, f, s)
    <3>1. s = {}
      BY <1>0, <2>1, FS_EmptySet
    <3> QED BY <3>1 DEF FoldStep
  <2>2. g = [s \in SUBSET S |-> g[s]]
    OBVIOUS
  <2> HIDE DEF g
  <2> QED BY <2>1, <2>2
<1>2. ASSUME NEW n \in Nat, n \in N PROVE n + 1 \in N
  <2>1. PICK g : g = [s \in SUBSET S |-> g[s]] /\ Upto(g, n)
    BY <1>2
  <2> DEFINE h == [s \in SUBSET S |-> IF Cardinality(s) <= n THEN g[s] ELSE FoldStep(g, f, s)]
  <2>2. ASSUME NEW s \in SUBSET S, Cardinality(s) <= n + 1 PROVE h[s] = FoldStep(h, f, s)
    <3>1. ASSUME NEW x \in s PROVE g[s \ {x}] = h[s \ {x}]
      <4>1. s \ {x} \in SUBSET S
        OBVIOUS
      <4>2. Cardinality(s \ {x}) = Cardinality(s) - 1
        BY <1>0, FS_RemoveElement
      <4>3. Cardinality(s \ {x}) <= n
        BY <1>0, <2>2, <4>2
      <4> QED BY <4>1, <4>3
    <3>2. FoldStep(g, f, s) = FoldStep(h, f, s)
      <4> HIDE DEF h
      <4> QED BY <3>1, FoldStepLocal
    <3>3. h[s] = FoldStep(g, f, s)
      BY <2>1
    <3> QED BY <3>2, <3>3
  <2>3. h = [s \in SUBSET S |-> h[s]]
    OBVIOUS
  <2>4. Upto(h, n + 1)
    BY <2>2
  <2>5. n + 1 \in Nat
    OBVIOUS
  <2> HIDE DEF h, Upto
  <2> QED BY <2>3, <2>4, <2>5
<1>3. Cardinality(S) \in N
  <2> HIDE DEF N
  <2> QED BY <1>0, <1>1, <1>2, SetInduction
<1>4. PICK g : g = [s \in SUBSET S |-> g[s]] /\ Upto(g, Cardinality(S))
  BY <1>3
<1>5. \A s \in SUBSET S : g[s] = FoldStep(g, f, s)
  BY <1>4, FS_Subset
<1>6. IsTable(g, f, S)
  BY <1>4, <1>5 DEF IsTable
<1> QED
  BY <1>6 DEF FoldTable

\* The table of a finite set gives every subset's sum by one unfolding.
LEMMA TableEntry ==
    ASSUME NEW f, NEW S, NEW g, IsTable(g, f, S), NEW s \in SUBSET S
    PROVE  g[s] = FoldStep(g, f, s)
  BY DEF IsTable

\* Two tables of f, over sets that include T, agree on the subsets of T.
LEMMA TablesAgree ==
    ASSUME NEW f, NEW S, NEW g, IsTable(g, f, S),
           NEW R, NEW h, IsTable(h, f, R),
           NEW T, IsFiniteSet(T), T \subseteq S, T \subseteq R
    PROVE  g[T] = h[T]
<1> DEFINE N == {n \in Nat : \A s \in SUBSET T : Cardinality(s) = n => g[s] = h[s]}
<1>0. \A s \in SUBSET T : IsFiniteSet(s) /\ Cardinality(s) \in Nat
  BY FS_Subset, FS_CardinalityType
<1>1. \A s \in SUBSET T : g[s] = FoldStep(g, f, s) /\ h[s] = FoldStep(h, f, s)
  BY DEF IsTable
<1>2. 0 \in N
  <2> SUFFICES ASSUME NEW s \in SUBSET T, Cardinality(s) = 0 PROVE g[s] = h[s]
    OBVIOUS
  <2>1. s = {}
    BY <1>0, FS_EmptySet
  <2> QED BY <1>1, <2>1 DEF FoldStep
<1>3. ASSUME NEW n \in Nat, n \in N PROVE n + 1 \in N
  <2> SUFFICES ASSUME NEW s \in SUBSET T, Cardinality(s) = n + 1 PROVE g[s] = h[s]
    OBVIOUS
  <2>1. ASSUME NEW x \in s PROVE g[s \ {x}] = h[s \ {x}]
    <3>1. s \ {x} \in SUBSET T
      OBVIOUS
    <3>2. Cardinality(s \ {x}) = Cardinality(s) - 1
      BY <1>0, FS_RemoveElement
    <3>3. Cardinality(s \ {x}) = n
      BY <3>2
    <3> QED BY <1>3, <3>1, <3>3
  <2>2. FoldStep(g, f, s) = FoldStep(h, f, s)
    BY <2>1, FoldStepLocal
  <2> QED BY <1>1, <2>2
<1>4. Cardinality(T) \in N
  <2> HIDE DEF N
  <2> QED BY <1>0, <1>2, <1>3, SetInduction
<1> QED
  BY <1>4

\* Entries of a table of integers are integers.
LEMMA TableInt ==
    ASSUME NEW f, NEW S, IsFiniteSet(S), \A i \in S : f[i] \in Int,
           NEW g, IsTable(g, f, S)
    PROVE  \A s \in SUBSET S : g[s] \in Int
<1> DEFINE N == {n \in Nat : \A s \in SUBSET S : Cardinality(s) = n => g[s] \in Int}
<1>0. \A s \in SUBSET S : IsFiniteSet(s) /\ Cardinality(s) \in Nat
  BY FS_Subset, FS_CardinalityType
<1>1. \A s \in SUBSET S : g[s] = FoldStep(g, f, s)
  BY DEF IsTable
<1>2. 0 \in N
  <2> SUFFICES ASSUME NEW s \in SUBSET S, Cardinality(s) = 0 PROVE g[s] \in Int
    OBVIOUS
  <2>1. s = {}
    BY <1>0, FS_EmptySet
  <2> QED BY <1>1, <2>1 DEF FoldStep
<1>3. ASSUME NEW n \in Nat, n \in N PROVE n + 1 \in N
  <2> SUFFICES ASSUME NEW s \in SUBSET S, Cardinality(s) = n + 1 PROVE g[s] \in Int
    OBVIOUS
  <2> DEFINE c == CHOOSE x \in s : TRUE
  <2>1. s # {}
    BY <1>0, FS_EmptySet
  <2>2. c \in s
    BY <2>1, ChosenMember
  <2>3. g[s] = f[c] + g[s \ {c}]
    BY <1>1, <2>1 DEF FoldStep
  <2> HIDE DEF c
  <2>4. s \ {c} \in SUBSET S
    OBVIOUS
  <2>5. Cardinality(s \ {c}) = Cardinality(s) - 1
    BY <1>0, <2>2, FS_RemoveElement
  <2>6. Cardinality(s \ {c}) = n
    BY <2>5
  <2>7. g[s \ {c}] \in Int /\ f[c] \in Int
    BY <1>3, <2>2, <2>4, <2>6
  <2> QED BY <2>3, <2>7
<1>4. Nat \subseteq N
  <2> HIDE DEF N
  <2> QED BY <1>2, <1>3, SetInduction
<1> QED
  BY <1>0, <1>4

\* Any element of a set may be taken out of its sum first.
LEMMA TableSplit ==
    ASSUME NEW f, NEW S, IsFiniteSet(S), \A i \in S : f[i] \in Int,
           NEW g, IsTable(g, f, S)
    PROVE  \A s \in SUBSET S : \A x \in s : g[s] = f[x] + g[s \ {x}]
<1> DEFINE Good(s) == \A x \in s : g[s] = f[x] + g[s \ {x}]
           N == {n \in Nat : \A s \in SUBSET S : Cardinality(s) = n => Good(s)}
<1>0. \A s \in SUBSET S : IsFiniteSet(s) /\ Cardinality(s) \in Nat
  BY FS_Subset, FS_CardinalityType
<1>1. \A s \in SUBSET S : g[s] = FoldStep(g, f, s) /\ g[s] \in Int
  BY TableInt DEF IsTable
<1>2. 0 \in N
  <2> SUFFICES ASSUME NEW s \in SUBSET S, Cardinality(s) = 0 PROVE Good(s)
    OBVIOUS
  <2>1. s = {}
    BY <1>0, FS_EmptySet
  <2> QED BY <2>1
<1>3. ASSUME NEW n \in Nat, n \in N PROVE n + 1 \in N
  <2> SUFFICES ASSUME NEW s \in SUBSET S, Cardinality(s) = n + 1,
                      NEW x \in s
               PROVE  g[s] = f[x] + g[s \ {x}]
    OBVIOUS
  <2>0. ASSUME NEW y \in s PROVE Good(s \ {y})
    <3>1. s \ {y} \in SUBSET S
      OBVIOUS
    <3>2. Cardinality(s \ {y}) = Cardinality(s) - 1
      BY <1>0, FS_RemoveElement
    <3>3. Cardinality(s \ {y}) = n
      BY <3>2
    <3> QED BY <1>3, <3>1, <3>3
  <2> DEFINE c == CHOOSE y \in s : TRUE
  <2>1. c \in s
    BY ChosenMember
  <2>2. g[s] = f[c] + g[s \ {c}]
    BY <1>1 DEF FoldStep
  <2> HIDE DEF c
  <2>3. CASE x = c
    BY <2>2, <2>3
  <2>4. CASE x # c
    <3> DEFINE r == g[(s \ {c}) \ {x}]
    <3>1. x \in s \ {c} /\ c \in s \ {x} /\ (s \ {c}) \ {x} = (s \ {x}) \ {c}
      BY <2>1, <2>4
    <3>2. g[s \ {c}] = f[x] + r
      BY <2>0, <2>1, <3>1
    <3>3. g[s \ {x}] = f[c] + r
      BY <2>0, <3>1
    <3>4. r \in Int
      <4>1. (s \ {c}) \ {x} \in SUBSET S
        OBVIOUS
      <4> QED BY <1>1, <4>1
    <3>5. f[x] \in Int /\ f[c] \in Int
      BY <2>1
    <3> HIDE DEF r
    <3> QED BY <2>2, <3>2, <3>3, <3>4, <3>5
  <2> QED BY <2>3, <2>4
<1>4. Nat \subseteq N
  <2> HIDE DEF N
  <2> QED BY <1>2, <1>3, SetInduction
<1> QED
  BY <1>0, <1>4

-----------------------------------------------------------------------------
(* Sums. *)

\* The sum over the empty set is zero.
LEMMA SumEmpty == \A f : SumFunctionOnSet(f, {}) = 0
<1> SUFFICES ASSUME NEW f PROVE SumFunctionOnSet(f, {}) = 0
  OBVIOUS
<1> DEFINE g == FoldTable(f, {})
<1>1. IsTable(g, f, {})
  BY FS_EmptySet, TableExists
<1>2. g[{}] = FoldStep(g, f, {})
  BY <1>1 DEF IsTable
<1> QED
  BY <1>2, SumIsFold DEF FoldStep

\* A sum of integers is an integer, and is any one of them plus the others.
LEMMA SumSplit ==
    ASSUME NEW f, NEW S, IsFiniteSet(S), \A i \in S : f[i] \in Int
    PROVE  /\ SumFunctionOnSet(f, S) \in Int
           /\ \A x \in S : SumFunctionOnSet(f, S) = f[x] + SumFunctionOnSet(f, S \ {x})
<1> DEFINE g == FoldTable(f, S)
<1>1. IsTable(g, f, S)
  BY TableExists
<1>2. SumFunctionOnSet(f, S) = g[S]
  BY SumIsFold
<1>3. ASSUME NEW x \in S PROVE SumFunctionOnSet(f, S \ {x}) = g[S \ {x}]
  <2> DEFINE R == S \ {x}
             h == FoldTable(f, R)
  <2>1. IsFiniteSet(R) /\ R \subseteq S /\ R \subseteq R
    BY FS_RemoveElement
  <2>2. IsTable(h, f, R)
    BY <2>1, TableExists
  <2>3. SumFunctionOnSet(f, R) = h[R]
    BY SumIsFold
  <2> HIDE DEF g, h, R
  <2>4. g[R] = h[R]
    BY <1>1, <2>1, <2>2, TablesAgree
  <2> QED BY <2>3, <2>4 DEF R
<1>4. g[S] \in Int
  <2> HIDE DEF g
  <2> QED BY <1>1, TableInt
<1>5. \A x \in S : g[S] = f[x] + g[S \ {x}]
  <2> HIDE DEF g
  <2> QED BY <1>1, TableSplit
<1> HIDE DEF g
<1> QED
  BY <1>2, <1>3, <1>4, <1>5

\* Adding an element to a set adds its value to the sum.
LEMMA SumAdd ==
    ASSUME NEW f, NEW S, IsFiniteSet(S), NEW x, x \notin S,
           \A i \in S \cup {x} : f[i] \in Int
    PROVE  SumFunctionOnSet(f, S \cup {x}) = f[x] + SumFunctionOnSet(f, S)
<1>1. IsFiniteSet(S \cup {x})
  BY FS_AddElement
<1>2. (S \cup {x}) \ {x} = S
  OBVIOUS
<1> QED
  BY <1>1, <1>2, SumSplit

\* A sum depends only on the values at the members of the set.
LEMMA SumDepends ==
    ASSUME NEW S, IsFiniteSet(S), NEW f, NEW g,
           \A i \in S : f[i] \in Int /\ g[i] = f[i]
    PROVE  SumFunctionOnSet(g, S) = SumFunctionOnSet(f, S)
<1> DEFINE G == {T \in SUBSET S : SumFunctionOnSet(g, T) = SumFunctionOnSet(f, T)}
<1>1. {} \in G
  BY SumEmpty
<1>2. ASSUME NEW T \in SUBSET S, T \in G, NEW x \in S \ T PROVE T \cup {x} \in G
  <2>1. IsFiniteSet(T)
    BY FS_Subset
  <2>2. SumFunctionOnSet(f, T \cup {x}) = f[x] + SumFunctionOnSet(f, T)
    BY <2>1, SumAdd
  <2>3. SumFunctionOnSet(g, T \cup {x}) = g[x] + SumFunctionOnSet(g, T)
    BY <2>1, SumAdd
  <2> QED BY <1>2, <2>2, <2>3
<1>3. SUBSET S \subseteq G
  <2> HIDE DEF G
  <2> QED BY <1>1, <1>2, FiniteInduction
<1> QED
  BY <1>3

\* A sum of natural numbers is one, and no summand exceeds it.
LEMMA SumNat ==
    ASSUME NEW S, IsFiniteSet(S), NEW f, \A i \in S : f[i] \in Nat
    PROVE  /\ SumFunctionOnSet(f, S) \in Nat
           /\ \A x \in S : f[x] <= SumFunctionOnSet(f, S)
<1> DEFINE G == {T \in SUBSET S : SumFunctionOnSet(f, T) \in Nat}
<1>1. {} \in G
  BY SumEmpty
<1>2. ASSUME NEW T \in SUBSET S, T \in G, NEW x \in S \ T PROVE T \cup {x} \in G
  <2>1. IsFiniteSet(T)
    BY FS_Subset
  <2>2. SumFunctionOnSet(f, T \cup {x}) = f[x] + SumFunctionOnSet(f, T)
    BY <2>1, SumAdd
  <2> QED BY <1>2, <2>2
<1>3. SUBSET S \subseteq G
  <2> HIDE DEF G
  <2> QED BY <1>1, <1>2, FiniteInduction
<1>4. ASSUME NEW x \in S PROVE f[x] <= SumFunctionOnSet(f, S)
  <2>1. SumFunctionOnSet(f, S) = f[x] + SumFunctionOnSet(f, S \ {x})
    BY SumSplit
  <2>2. SumFunctionOnSet(f, S \ {x}) \in Nat
    <3>1. S \ {x} \in SUBSET S
      OBVIOUS
    <3> QED BY <1>3, <3>1
  <2> QED BY <2>1, <2>2
<1> QED
  BY <1>3, <1>4

\* Changing the value at one element changes the sum by as much.
LEMMA SumUpdate ==
    ASSUME NEW S, IsFiniteSet(S), NEW u \in S,
           NEW f, \A i \in S : f[i] \in Int,
           NEW g, \A i \in S \ {u} : g[i] = f[i], g[u] \in Int
    PROVE  SumFunctionOnSet(g, S) = SumFunctionOnSet(f, S) - f[u] + g[u]
<1> DEFINE R == S \ {u}
<1>1. IsFiniteSet(R)
  BY FS_RemoveElement
<1>2. SumFunctionOnSet(g, R) = SumFunctionOnSet(f, R)
  BY <1>1, SumDepends
<1>3. SumFunctionOnSet(f, S) = f[u] + SumFunctionOnSet(f, R)
  BY SumSplit
<1>4. SumFunctionOnSet(g, S) = g[u] + SumFunctionOnSet(g, R)
  <2>1. \A i \in S : g[i] \in Int
    OBVIOUS
  <2> QED BY <2>1, SumSplit
<1>5. SumFunctionOnSet(f, R) \in Int /\ f[u] \in Int
  BY <1>1, SumSplit
<1> QED
  BY <1>2, <1>3, <1>4, <1>5

\* The sum of f[i] + g[i] * d is the sum of f plus d times the sum of g.
LEMMA SumLinear ==
    ASSUME NEW S, IsFiniteSet(S), NEW d \in Int,
           NEW f, \A i \in S : f[i] \in Int,
           NEW g, \A i \in S : g[i] \in Int,
           NEW h, \A i \in S : h[i] = f[i] + g[i] * d
    PROVE  SumFunctionOnSet(h, S)
               = SumFunctionOnSet(f, S) + SumFunctionOnSet(g, S) * d
<1> DEFINE G == {T \in SUBSET S : SumFunctionOnSet(h, T)
                    = SumFunctionOnSet(f, T) + SumFunctionOnSet(g, T) * d}
<1>1. {} \in G
  BY SumEmpty
<1>2. ASSUME NEW T \in SUBSET S, T \in G, NEW x \in S \ T PROVE T \cup {x} \in G
  <2>1. IsFiniteSet(T)
    BY FS_Subset
  <2> DEFINE sf == SumFunctionOnSet(f, T)
             sg == SumFunctionOnSet(g, T)
             sh == SumFunctionOnSet(h, T)
  <2>2. SumFunctionOnSet(f, T \cup {x}) = f[x] + sf
    BY <2>1, SumAdd
  <2>3. SumFunctionOnSet(g, T \cup {x}) = g[x] + sg
    BY <2>1, SumAdd
  <2>4. SumFunctionOnSet(h, T \cup {x}) = h[x] + sh
    <3>1. \A i \in S : h[i] \in Int
      OBVIOUS
    <3> QED BY <2>1, <3>1, SumAdd
  <2>5. sf \in Int /\ sg \in Int /\ f[x] \in Int /\ g[x] \in Int
    BY <2>1, SumSplit
  <2>6. sh = sf + sg * d
    BY <1>2
  <2>7. h[x] = f[x] + g[x] * d
    OBVIOUS
  <2> HIDE DEF sf, sg, sh
  <2>8. h[x] + sh = (f[x] + sf) + (g[x] + sg) * d
    <3>1. (g[x] + sg) * d = g[x] * d + sg * d
      BY <2>5, SMT
    <3>2. g[x] * d \in Int /\ sg * d \in Int
      BY <2>5, SMT
    <3> QED BY <2>5, <2>6, <2>7, <3>1, <3>2
  <2> QED BY <2>2, <2>3, <2>4, <2>8
<1>3. SUBSET S \subseteq G
  <2> HIDE DEF G
  <2> QED BY <1>1, <1>2, FiniteInduction
<1> QED
  BY <1>3

-----------------------------------------------------------------------------
(* The same for SumFunction, the sum over a function's domain. *)

\* The sum of a function of naturals bounds its values.
LEMMA SumFunctionNat ==
    ASSUME NEW S, IsFiniteSet(S), NEW f \in [S -> Nat]
    PROVE  SumFunction(f) \in Nat /\ \A x \in S : f[x] <= SumFunction(f)
  BY SumNat DEF SumFunction

\* A function that is zero everywhere has sum zero.
LEMMA SumFunctionZero ==
    ASSUME NEW S, IsFiniteSet(S), NEW f \in [S -> Int], \A i \in S : f[i] = 0
    PROVE  SumFunction(f) = 0
<1> DEFINE G == {T \in SUBSET S : SumFunctionOnSet(f, T) = 0}
<1>1. {} \in G
  BY SumEmpty
<1>2. ASSUME NEW T \in SUBSET S, T \in G, NEW x \in S \ T PROVE T \cup {x} \in G
  <2>1. IsFiniteSet(T)
    BY FS_Subset
  <2>2. SumFunctionOnSet(f, T \cup {x}) = f[x] + SumFunctionOnSet(f, T)
    BY <2>1, SumAdd
  <2> QED BY <1>2, <2>2
<1>3. SUBSET S \subseteq G
  <2> HIDE DEF G
  <2> QED BY <1>1, <1>2, FiniteInduction
<1> QED
  BY <1>3 DEF SumFunction

\* Changing a function at one argument changes its sum by as much.
LEMMA SumFunctionUpdate ==
    ASSUME NEW S, IsFiniteSet(S), NEW u \in S,
           NEW f \in [S -> Int], NEW g \in [S -> Int],
           \A i \in S \ {u} : g[i] = f[i]
    PROVE  SumFunction(g) = SumFunction(f) - f[u] + g[u]
<1>1. DOMAIN f = S /\ DOMAIN g = S /\ g[u] \in Int /\ \A i \in S : f[i] \in Int
  OBVIOUS
<1>2. SumFunctionOnSet(g, S) = SumFunctionOnSet(f, S) - f[u] + g[u]
  BY <1>1, SumUpdate
<1> QED
  BY <1>1, <1>2 DEF SumFunction

\* Sums are linear.
LEMMA SumFunctionLinear ==
    ASSUME NEW S, IsFiniteSet(S), NEW d \in Int,
           NEW f \in [S -> Int], NEW g \in [S -> Int], NEW h \in [S -> Int],
           \A i \in S : h[i] = f[i] + g[i] * d
    PROVE  SumFunction(h) = SumFunction(f) + SumFunction(g) * d
<1>1. DOMAIN f = S /\ DOMAIN g = S /\ DOMAIN h = S
      /\ \A i \in S : f[i] \in Int /\ g[i] \in Int
  OBVIOUS
<1>2. SumFunctionOnSet(h, S) = SumFunctionOnSet(f, S) + SumFunctionOnSet(g, S) * d
  BY <1>1, SumLinear
<1> QED
  BY <1>1, <1>2 DEF SumFunction

=============================================================================
