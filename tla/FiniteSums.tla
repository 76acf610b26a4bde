----------------------------- MODULE FiniteSums -----------------------------
(***************************************************************************)
(* What the sums of HTLCManager and PaySession amount to.  They are folds, *)
(* recursive functions that take the elements of a set in an order of      *)
(* their own; here it is shown that the function exists and that the order *)
(* does not matter, and from that how sums change with what is summed.     *)
(***************************************************************************)
EXTENDS Integers, FiniteSets, Functions, FiniteSetsExt, FiniteSetTheorems,
        WellFoundedInduction, TLAPS

\* The element that a fold takes first
First(s) == CHOOSE x \in s : TRUE

\* The sum of f[x] over the x in S
Total(f, S) ==
    LET iter[s \in SUBSET S] == IF s = {} THEN 0 ELSE f[First(s)] + iter[s \ {First(s)}]
    IN  iter[S]

\* A fold of a function is its Total.
LEMMA FoldIsTotal == \A f : FoldFunction(+, 0, f) = Total(f, DOMAIN f)
  BY DEF FoldFunction, FoldFunctionOnSet, MapThenFoldSet, Total, First

-----------------------------------------------------------------------------
(* Induction, over numbers and over finite sets, on a set instead of a predicate *)

Below == {ss \in Nat \X Nat : ss[1] < ss[2]}

\* If a number has what all smaller ones having it implies, all numbers have it.
LEMMA NumberInduction ==
    ASSUME NEW G, \A n \in Nat : (\A k \in Nat : k < n => k \in G) => n \in G
    PROVE  Nat \subseteq G
<1> DEFINE Bad == Nat \ G
<1>1. IsWellFoundedOn(Below, Nat)
  <2>1. Below = OpToRel(<, Nat)
    BY DEF Below, OpToRel
  <2> QED BY <2>1, NatLessThanWellFounded
<1> SUFFICES ASSUME Bad # {} PROVE FALSE
  OBVIOUS
<1>2. PICK n \in Bad : \A y \in Bad : <<y, n>> \notin Below
  <2>1. Bad \subseteq Nat
    OBVIOUS
  <2> HIDE DEF Bad
  <2> QED BY <1>1, <2>1, WFMin
<1>3. \A k \in Nat : k < n => k \in G
  BY <1>2 DEF Below
<1> QED BY <1>2, <1>3

\* If a subset has what all smaller ones by one element having it implies, all have it.
LEMMA SubsetInduction ==
    ASSUME NEW S, IsFiniteSet(S), NEW G,
           \A T \in SUBSET S : (\A x \in T : T \ {x} \in G) => T \in G
    PROVE  SUBSET S \subseteq G
<1> DEFINE Good == {n \in Nat : \A T \in SUBSET S : Cardinality(T) = n => T \in G}
<1>1. ASSUME NEW n \in Nat, \A k \in Nat : k < n => k \in Good
      PROVE  n \in Good
  <2> SUFFICES ASSUME NEW T \in SUBSET S, Cardinality(T) = n PROVE T \in G
    OBVIOUS
  <2>1. ASSUME NEW x \in T PROVE T \ {x} \in G
    <3>1. IsFiniteSet(T)
      BY FS_Subset
    <3>2. Cardinality(T \ {x}) = n - 1 /\ Cardinality(T \ {x}) \in Nat
      BY <3>1, FS_RemoveElement, FS_CardinalityType
    <3>3. n - 1 \in Good
      BY <1>1, <3>2
    <3> QED BY <3>2, <3>3
  <2> QED BY <2>1
<1>2. Nat \subseteq Good
  <2> HIDE DEF Good
  <2> QED BY <1>1, NumberInduction
<1> SUFFICES ASSUME NEW T \in SUBSET S PROVE T \in G
  OBVIOUS
<1>3. Cardinality(T) \in Nat
  BY FS_Subset, FS_CardinalityType
<1> QED BY <1>2, <1>3

-----------------------------------------------------------------------------
(* The recursive function exists *)

IsTable(g, f, S) ==
    g = [s \in SUBSET S |-> IF s = {} THEN 0 ELSE f[First(s)] + g[s \ {First(s)}]]

UpTo(S, n) == {s \in SUBSET S : Cardinality(s) <= n}

\* The table for the subsets that have n elements at most
IsTableUpTo(g, f, S, n) ==
    /\ g \in [UpTo(S, n) -> Int]
    /\ \A s \in UpTo(S, n) : g[s] = IF s = {} THEN 0 ELSE f[First(s)] + g[s \ {First(s)}]

LEMMA TableUpTo ==
    ASSUME NEW S, IsFiniteSet(S), NEW f, \A x \in S : f[x] \in Int, NEW n \in Nat
    PROVE  \E g : IsTableUpTo(g, f, S, n)
<1> DEFINE G == {k \in Nat : \E g : IsTableUpTo(g, f, S, k)}
<1>0. \A s \in SUBSET S : IsFiniteSet(s) /\ Cardinality(s) \in Nat
  BY FS_Subset, FS_CardinalityType
<1>1. ASSUME NEW k \in Nat, \A l \in Nat : l < k => l \in G
      PROVE  k \in G
  <2>1. CASE k = 0
    <3>1. UpTo(S, 0) = {{}}
      BY <1>0, FS_EmptySet DEF UpTo
    <3>2. IsTableUpTo([s \in {{}} |-> 0], f, S, 0)
      BY <3>1 DEF IsTableUpTo
    <3> QED BY <2>1, <3>2
  <2>2. CASE k > 0
    <3>1. k - 1 \in Nat /\ k - 1 < k
      BY <2>2
    <3>2. PICK h : IsTableUpTo(h, f, S, k - 1)
      BY <1>1, <3>1
    <3> DEFINE g == [s \in UpTo(S, k) |-> IF s = {} THEN 0 ELSE f[First(s)] + h[s \ {First(s)}]]
    <3>3. ASSUME NEW s \in UpTo(S, k), s # {}
          PROVE  First(s) \in S /\ s \ {First(s)} \in UpTo(S, k - 1) /\ s \ {First(s)} \in UpTo(S, k)
      <4>1. First(s) \in s
        BY <3>3 DEF First
      <4>2. Cardinality(s \ {First(s)}) = Cardinality(s) - 1
        BY <1>0, <4>1, FS_RemoveElement DEF UpTo
      <4> QED BY <1>0, <4>1, <4>2, <3>1 DEF UpTo
    <3>4. \A s \in UpTo(S, k - 1) : h[s] \in Int /\ s \in UpTo(S, k)
      BY <3>2, <1>0 DEF IsTableUpTo, UpTo
    <3>5. g \in [UpTo(S, k) -> Int]
      <4>1. \A s \in UpTo(S, k) : g[s] \in Int
        BY <3>3, <3>4
      <4> QED BY <4>1
    <3>6. \A s \in UpTo(S, k - 1) : g[s] = h[s]
      BY <3>2, <3>4 DEF IsTableUpTo
    <3>7. IsTableUpTo(g, f, S, k)
      <4> SUFFICES ASSUME NEW s \in UpTo(S, k), s # {}
                   PROVE  g[s] = f[First(s)] + g[s \ {First(s)}]
        BY <3>5 DEF IsTableUpTo
      <4>1. g[s \ {First(s)}] = h[s \ {First(s)}]
        BY <3>3, <3>6
      <4> QED BY <4>1
    <3> QED BY <3>7
  <2> QED BY <2>1, <2>2
<1>2. Nat \subseteq G
  <2> HIDE DEF G
  <2> QED BY <1>1, NumberInduction
<1> QED BY <1>2

LEMMA TableExists ==
    ASSUME NEW S, IsFiniteSet(S), NEW f, \A x \in S : f[x] \in Int
    PROVE  \E g : IsTable(g, f, S)
<1> DEFINE n == Cardinality(S)
<1>1. n \in Nat /\ UpTo(S, n) = SUBSET S
  BY FS_Subset, FS_CardinalityType DEF UpTo
<1>2. PICK g : IsTableUpTo(g, f, S, n)
  <2> HIDE DEF n
  <2> QED BY <1>1, TableUpTo
<1>3. IsTable(g, f, S)
  BY <1>1, <1>2 DEF IsTable, IsTableUpTo
<1> QED BY <1>3

\* The table of all partial sums, as Total chooses it
Sums(f, S) ==
    CHOOSE g : g = [s \in SUBSET S |-> IF s = {} THEN 0 ELSE f[First(s)] + g[s \ {First(s)}]]

LEMMA TotalIsTable ==
    ASSUME NEW S, IsFiniteSet(S), NEW f, \A x \in S : f[x] \in Int
    PROVE  Total(f, S) = Sums(f, S)[S] /\ IsTable(Sums(f, S), f, S)
<1>1. Total(f, S) = Sums(f, S)[S]
  BY DEF Total, Sums
<1>2. IsTable(Sums(f, S), f, S)
  <2>1. PICK g : IsTable(g, f, S)
    BY TableExists
  <2> QED BY <2>1, Zenon DEF IsTable, Sums
<1> QED BY <1>1, <1>2

-----------------------------------------------------------------------------
(* The order does not matter *)

\* All values that are summed are integers.
OfInts(f, S) == IsFiniteSet(S) /\ \A x \in S : f[x] \in Int

LEMMA TableOfInts ==
    ASSUME NEW S, NEW f, OfInts(f, S), NEW g, IsTable(g, f, S)
    PROVE  \A T \in SUBSET S : g[T] \in Int
<1> DEFINE G == {T \in SUBSET S : g[T] \in Int}
<1>1. ASSUME NEW T \in SUBSET S, \A x \in T : T \ {x} \in G
      PROVE  T \in G
  <2>1. CASE T = {}
    BY <2>1 DEF IsTable
  <2>2. CASE T # {}
    <3>1. First(T) \in T
      BY <2>2 DEF First
    <3>2. g[T \ {First(T)}] \in Int /\ f[First(T)] \in Int
      BY <1>1, <3>1 DEF OfInts
    <3>3. g[T] = f[First(T)] + g[T \ {First(T)}]
      BY <2>2 DEF IsTable
    <3> QED BY <3>2, <3>3
  <2> QED BY <2>1, <2>2
<1>2. SUBSET S \subseteq G
  <2> HIDE DEF G
  <2> QED BY <1>1, SubsetInduction DEF OfInts
<1> QED BY <1>2

LEMMA TableSplit ==
    ASSUME NEW S, NEW f, OfInts(f, S), NEW g, IsTable(g, f, S)
    PROVE  \A T \in SUBSET S : \A x \in T : g[T] = f[x] + g[T \ {x}]
<1> DEFINE G == {T \in SUBSET S : \A x \in T : g[T] = f[x] + g[T \ {x}]}
<1>1. ASSUME NEW T \in SUBSET S, \A x \in T : T \ {x} \in G
      PROVE  T \in G
  <2> SUFFICES ASSUME NEW x \in T PROVE g[T] = f[x] + g[T \ {x}]
    OBVIOUS
  <2> DEFINE c == First(T)
  <2>1. c \in T
    BY DEF First
  <2>2. g[T] = f[c] + g[T \ {c}]
    BY DEF IsTable
  <2> HIDE DEF c
  <2>3. CASE x = c
    BY <2>2, <2>3
  <2>4. CASE x # c
    <3>1. g[T \ {c}] = f[x] + g[(T \ {c}) \ {x}] /\ g[T \ {x}] = f[c] + g[(T \ {x}) \ {c}]
      BY <1>1, <2>1, <2>4
    <3>2. (T \ {c}) \ {x} = (T \ {x}) \ {c}
      OBVIOUS
    <3>3. f[x] \in Int /\ f[c] \in Int /\ g[(T \ {x}) \ {c}] \in Int
      BY <2>1, TableOfInts DEF OfInts
    <3>4. g[T \ {c}] = f[x] + g[(T \ {x}) \ {c}] /\ g[T \ {x}] = f[c] + g[(T \ {x}) \ {c}]
      BY <3>1, <3>2
    <3> QED BY <2>2, <3>3, <3>4
  <2> QED BY <2>3, <2>4
<1>2. SUBSET S \subseteq G
  <2> HIDE DEF G
  <2> QED BY <1>1, SubsetInduction DEF OfInts
<1> QED BY <1>2

\* Tables agree on a set on which their functions do.
LEMMA TablesAgree ==
    ASSUME NEW S, NEW f, NEW g, IsTable(g, f, S),
           NEW R, NEW e, NEW h, IsTable(h, e, R),
           NEW T, IsFiniteSet(T), T \subseteq S, T \subseteq R, \A x \in T : f[x] = e[x]
    PROVE  g[T] = h[T]
<1> DEFINE G == {U \in SUBSET T : g[U] = h[U]}
<1>1. ASSUME NEW U \in SUBSET T, \A x \in U : U \ {x} \in G
      PROVE  U \in G
  <2>0. U \in SUBSET S /\ U \in SUBSET R
    OBVIOUS
  <2>1. CASE U = {}
    BY <2>0, <2>1 DEF IsTable
  <2>2. CASE U # {}
    <3>1. First(U) \in U
      BY <2>2 DEF First
    <3>2. g[U \ {First(U)}] = h[U \ {First(U)}] /\ f[First(U)] = e[First(U)]
      BY <1>1, <3>1
    <3>3. g[U] = f[First(U)] + g[U \ {First(U)}] /\ h[U] = e[First(U)] + h[U \ {First(U)}]
      BY <2>0, <2>2 DEF IsTable
    <3> QED BY <3>2, <3>3
  <2> QED BY <2>1, <2>2
<1>2. SUBSET T \subseteq G
  <2> HIDE DEF G
  <2> QED BY <1>1, SubsetInduction
<1> QED BY <1>2

-----------------------------------------------------------------------------
(* What a sum is *)

\* A sum of integers is one, and is split at any of its elements.
LEMMA TotalSplit ==
    ASSUME NEW f, NEW S, OfInts(f, S)
    PROVE  /\ Total(f, S) \in Int
           /\ S = {} => Total(f, S) = 0
           /\ \A x \in S : /\ f[x] \in Int /\ OfInts(f, S \ {x})
                           /\ Total(f, S) = f[x] + Total(f, S \ {x})
<1> DEFINE g == Sums(f, S)
<1>1. Total(f, S) = g[S] /\ IsTable(g, f, S)
  BY TotalIsTable DEF OfInts
<1>2. S \in SUBSET S
  OBVIOUS
<1> HIDE DEF g
<1>3. ASSUME NEW x \in S
      PROVE  OfInts(f, S \ {x}) /\ f[x] \in Int /\ Total(f, S) = f[x] + Total(f, S \ {x})
  <2> DEFINE h == Sums(f, S \ {x})
  <2>1. OfInts(f, S \ {x}) /\ f[x] \in Int
    BY FS_RemoveElement DEF OfInts
  <2>2. Total(f, S \ {x}) = h[S \ {x}] /\ IsTable(h, f, S \ {x})
    BY <2>1, TotalIsTable DEF OfInts
  <2> HIDE DEF h
  <2>3. h[S \ {x}] = g[S \ {x}]
    BY <1>1, <2>1, <2>2, TablesAgree DEF OfInts
  <2>4. g[S] = f[x] + g[S \ {x}]
    BY <1>1, <1>2, TableSplit
  <2> QED BY <1>1, <2>1, <2>2, <2>3, <2>4
<1>4. g[S] \in Int
  BY <1>1, <1>2, TableOfInts
<1>5. S = {} => g[S] = 0
  BY <1>1, <1>2 DEF IsTable
<1> QED BY <1>1, <1>3, <1>4, <1>5

\* It depends on what is summed only.
LEMMA TotalSame ==
    ASSUME NEW f, NEW e, NEW S, OfInts(f, S), \A x \in S : f[x] = e[x]
    PROVE  OfInts(e, S) /\ Total(f, S) = Total(e, S)
<1>1. OfInts(e, S)
  BY DEF OfInts
<1>2. /\ Total(f, S) = Sums(f, S)[S] /\ IsTable(Sums(f, S), f, S)
      /\ Total(e, S) = Sums(e, S)[S] /\ IsTable(Sums(e, S), e, S)
  BY <1>1, TotalIsTable DEF OfInts
<1>3. Sums(f, S)[S] = Sums(e, S)[S]
  BY <1>2, TablesAgree DEF OfInts
<1> QED BY <1>1, <1>2, <1>3

\* One more element
LEMMA TotalWith ==
    ASSUME NEW f, NEW S, OfInts(f, S), NEW x, x \notin S, f[x] \in Int
    PROVE  OfInts(f, S \cup {x}) /\ Total(f, S \cup {x}) = f[x] + Total(f, S)
<1>1. OfInts(f, S \cup {x})
  BY FS_AddElement DEF OfInts
<1>2. (S \cup {x}) \ {x} = S
  OBVIOUS
<1> QED BY <1>1, <1>2, TotalSplit

\* Fewer elements
LEMMA OfIntsSubset ==
    ASSUME NEW f, NEW S, OfInts(f, S), NEW T \in SUBSET S
    PROVE  OfInts(f, T)
  BY FS_Subset DEF OfInts

\* Disjoint sets
LEMMA TotalUnion ==
    ASSUME NEW f, NEW S, NEW R, OfInts(f, S), OfInts(f, R), S \cap R = {}
    PROVE  OfInts(f, S \cup R) /\ Total(f, S \cup R) = Total(f, S) + Total(f, R)
<1> DEFINE G == {T \in SUBSET R : OfInts(f, S \cup T) /\ Total(f, S \cup T) = Total(f, S) + Total(f, T)}
<1>1. ASSUME NEW T \in SUBSET R, \A x \in T : T \ {x} \in G
      PROVE  T \in G
  <2>0. OfInts(f, T)
    BY OfIntsSubset
  <2>1. CASE T = {}
    <3>1. S \cup T = S
      BY <2>1
    <3> QED BY <2>0, <2>1, <3>1, TotalSplit
  <2>2. CASE T # {}
    <3>1. PICK x \in T : TRUE
      BY <2>2
    <3>2. /\ OfInts(f, S \cup (T \ {x}))
          /\ Total(f, S \cup (T \ {x})) = Total(f, S) + Total(f, T \ {x})
      BY <1>1, <3>1
    <3>3. S \cup T = (S \cup (T \ {x})) \cup {x} /\ x \notin S \cup (T \ {x})
      BY <3>1
    <3>4. f[x] \in Int /\ OfInts(f, T \ {x}) /\ Total(f, T) = f[x] + Total(f, T \ {x})
      BY <2>0, <3>1, TotalSplit
    <3>5. /\ OfInts(f, S \cup T)
          /\ Total(f, S \cup T) = f[x] + Total(f, S \cup (T \ {x}))
      BY <3>2, <3>3, <3>4, TotalWith
    <3>6. Total(f, S) \in Int /\ Total(f, T \ {x}) \in Int
      BY <3>4, TotalSplit
    <3> QED BY <3>2, <3>4, <3>5, <3>6
  <2> QED BY <2>1, <2>2
<1>2. SUBSET R \subseteq G
  <2> HIDE DEF G
  <2> QED BY <1>1, SubsetInduction DEF OfInts
<1> QED BY <1>2

\* Sums of larger values are larger.
LEMMA TotalMonotone ==
    ASSUME NEW f, NEW e, NEW S, OfInts(f, S), OfInts(e, S), \A x \in S : f[x] <= e[x]
    PROVE  Total(f, S) <= Total(e, S)
<1> DEFINE G == {T \in SUBSET S : Total(f, T) <= Total(e, T)}
<1>1. ASSUME NEW T \in SUBSET S, \A x \in T : T \ {x} \in G
      PROVE  T \in G
  <2>0. OfInts(f, T) /\ OfInts(e, T)
    BY OfIntsSubset
  <2>1. CASE T = {}
    BY <2>0, <2>1, TotalSplit
  <2>2. CASE T # {}
    <3>1. PICK x \in T : TRUE
      BY <2>2
    <3>2. Total(f, T \ {x}) <= Total(e, T \ {x}) /\ f[x] <= e[x]
      BY <1>1, <3>1
    <3>3. /\ f[x] \in Int /\ OfInts(f, T \ {x}) /\ Total(f, T) = f[x] + Total(f, T \ {x})
          /\ e[x] \in Int /\ OfInts(e, T \ {x}) /\ Total(e, T) = e[x] + Total(e, T \ {x})
      BY <2>0, <3>1, TotalSplit
    <3>4. Total(f, T \ {x}) \in Int /\ Total(e, T \ {x}) \in Int
      BY <3>3, TotalSplit
    <3> QED BY <3>2, <3>3, <3>4
  <2> QED BY <2>1, <2>2
<1>2. SUBSET S \subseteq G
  <2> HIDE DEF G
  <2> QED BY <1>1, SubsetInduction DEF OfInts
<1>3. S \in SUBSET S
  OBVIOUS
<1> QED BY <1>2, <1>3

\* Zeros are nothing.
LEMMA TotalOfZeros ==
    ASSUME NEW f, NEW S, IsFiniteSet(S), \A x \in S : f[x] = 0
    PROVE  OfInts(f, S) /\ Total(f, S) = 0
<1> DEFINE G == {T \in SUBSET S : Total(f, T) = 0}
<1>0. OfInts(f, S)
  BY DEF OfInts
<1>1. ASSUME NEW T \in SUBSET S, \A x \in T : T \ {x} \in G
      PROVE  T \in G
  <2>0. OfInts(f, T)
    BY <1>0, OfIntsSubset
  <2>1. CASE T = {}
    BY <2>0, <2>1, TotalSplit
  <2>2. CASE T # {}
    <3>1. PICK x \in T : TRUE
      BY <2>2
    <3>2. Total(f, T) = f[x] + Total(f, T \ {x})
      BY <2>0, <3>1, TotalSplit
    <3> QED BY <1>1, <3>1, <3>2
  <2> QED BY <2>1, <2>2
<1>2. SUBSET S \subseteq G
  <2> HIDE DEF G
  <2> QED BY <1>1, SubsetInduction
<1>3. S \in SUBSET S
  OBVIOUS
<1> QED BY <1>0, <1>2, <1>3

\* Sums of naturals are naturals, and grow with the set.
LEMMA TotalOfNaturals ==
    ASSUME NEW f, NEW S, IsFiniteSet(S), \A x \in S : f[x] \in Nat
    PROVE  /\ OfInts(f, S) /\ Total(f, S) \in Nat
           /\ \A T \in SUBSET S : Total(f, T) \in Nat /\ Total(f, T) <= Total(f, S)
<1>1. ASSUME NEW T \in SUBSET S
      PROVE  OfInts(f, T) /\ Total(f, T) \in Nat
  <2> DEFINE z == [x \in T |-> 0]
  <2>1. OfInts(f, T) /\ OfInts(z, T)
    BY FS_Subset DEF OfInts
  <2>2. Total(z, T) = 0
    <3>1. \A x \in T : z[x] = 0
      OBVIOUS
    <3> HIDE DEF z
    <3> QED BY <2>1, <3>1, TotalOfZeros DEF OfInts
  <2>3. \A x \in T : z[x] <= f[x]
    OBVIOUS
  <2> HIDE DEF z
  <2>4. Total(z, T) <= Total(f, T) /\ Total(f, T) \in Int
    BY <2>1, <2>3, TotalMonotone, TotalSplit
  <2> QED BY <2>1, <2>2, <2>4
<1>2. ASSUME NEW T \in SUBSET S PROVE Total(f, T) <= Total(f, S)
  <2>1. /\ OfInts(f, T) /\ OfInts(f, S \ T) /\ Total(f, T) \in Nat /\ Total(f, S \ T) \in Nat
    BY <1>1
  <2>2. T \cup (S \ T) = S /\ T \cap (S \ T) = {}
    OBVIOUS
  <2>3. Total(f, S) = Total(f, T) + Total(f, S \ T)
    BY <2>1, <2>2, TotalUnion
  <2> QED BY <2>1, <2>3
<1> QED BY <1>1, <1>2

\* A sum over the images of a set's elements, which all differ
LEMMA TotalOfImage ==
    ASSUME NEW S, NEW e, OfInts(e, S), NEW g, NEW f,
           \A x, y \in S : g[x] = g[y] => x = y, \A x \in S : f[g[x]] = e[x]
    PROVE  OfInts(f, {g[x] : x \in S}) /\ Total(f, {g[x] : x \in S}) = Total(e, S)
<1> DEFINE I(T) == {g[x] : x \in T}
           G == {T \in SUBSET S : OfInts(f, I(T)) /\ Total(f, I(T)) = Total(e, T)}
<1>1. IsFiniteSet(S) /\ \A x \in S : e[x] \in Int
  BY DEF OfInts
<1>2. ASSUME NEW T \in SUBSET S, \A x \in T : T \ {x} \in G
      PROVE  T \in G
  <2>1. OfInts(e, T)
    BY OfIntsSubset
  <2>2. CASE T = {}
    <3>1. I(T) = {} /\ OfInts(f, {})
      BY <2>2, FS_EmptySet DEF OfInts
    <3>2. Total(f, {}) = 0 /\ Total(e, T) = 0
      BY <2>1, <2>2, <3>1, TotalSplit
    <3> QED BY <3>1, <3>2
  <2>3. CASE T # {}
    <3>1. PICK x \in T : TRUE
      BY <2>3
    <3>2. T \ {x} \in G
      BY <1>2
    <3>3. Total(e, T) = e[x] + Total(e, T \ {x})
      BY <2>1, TotalSplit
    <3> DEFINE J == I(T \ {x})
               y == g[x]
    <3>4. I(T) = J \cup {y}
      OBVIOUS
    <3>5. y \notin J
      OBVIOUS
    <3>6. f[y] = e[x] /\ e[x] \in Int
      BY <1>1
    <3>7. OfInts(f, J) /\ Total(f, J) = Total(e, T \ {x})
      BY <3>2
    <3> HIDE DEF I, J, y
    <3>8. OfInts(f, J \cup {y}) /\ Total(f, J \cup {y}) = f[y] + Total(f, J)
      BY <3>5, <3>6, <3>7, TotalWith
    <3>9. OfInts(f, I(T)) /\ Total(f, I(T)) = Total(e, T)
      BY <3>3, <3>4, <3>6, <3>7, <3>8
    <3> QED BY <3>9
  <2> QED BY <2>2, <2>3
<1>3. SUBSET S \subseteq G
  <2> HIDE DEF G
  <2> QED BY <1>1, <1>2, SubsetInduction
<1> QED BY <1>3

=============================================================================
