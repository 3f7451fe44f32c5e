---------------------------- MODULE SumTheorems -----------------------------
(***************************************************************************)
(* Sums of a function over a finite set, SumFunctionOnSet of Functions:    *)
(* what the conservation laws of KeeperRegistry and DemoMint rest on.      *)
(* The operator is a recursive function on the subsets of the set, so its  *)
(* equation is proved first: the recursion has exactly one solution on a   *)
(* finite set (SolutionUnique, SolutionExists).  A subset without the      *)
(* property at hand is taken minimal, in place of an induction.            *)
(***************************************************************************)
EXTENDS Integers, Functions, FiniteSetTheorems, WellFoundedInduction, TLAPS

LEMMA MinimalSubset ==
    ASSUME NEW S, IsFiniteSet(S), NEW P \in SUBSET SUBSET S, P # {}
    PROVE  \E T \in P : \A U \in P : U \subseteq T => U = T
<1>1. IsWellFoundedOn(StrictSubsetOrdering(S), SUBSET S)
  BY FS_FiniteSubsetsOfFinite, FS_StrictSubsetOrderingWellFounded
<1>2. PICK T \in P : \A U \in P : ~ (<<U, T>> \in StrictSubsetOrdering(S))
  BY <1>1, WFMin
<1>3. \A U \in P : U \subseteq T => U = T
  BY <1>2 DEF StrictSubsetOrdering
<1> QED
  BY <1>3

-----------------------------------------------------------------------------
(* The recursion and its solution. *)

First(s) == CHOOSE x \in s : TRUE

Solves(f, S, g) ==
    g = [s \in SUBSET S |-> IF s = {} THEN 0 ELSE f[First(s)] + g[s \ {First(s)}]]

Solution(f, S) == CHOOSE g : Solves(f, S, g)

LEMMA FirstIn ==
    ASSUME NEW s, s # {}
    PROVE  First(s) \in s
BY DEF First

LEMMA SumIsSolution ==
    ASSUME NEW f, NEW S
    PROVE  SumFunctionOnSet(f, S) = Solution(f, S)[S]
BY SMT DEF SumFunctionOnSet, FoldFunctionOnSet, MapThenFoldSet, Solution, Solves, First

LEMMA SolutionAt ==
    ASSUME NEW f, NEW S, NEW g, Solves(f, S, g), NEW s \in SUBSET S
    PROVE  g[s] = IF s = {} THEN 0 ELSE f[First(s)] + g[s \ {First(s)}]
BY DEF Solves

LEMMA SolutionUnique ==
    ASSUME NEW f, NEW S, IsFiniteSet(S), NEW g, NEW h, NEW R, S \subseteq R,
           Solves(f, S, g), Solves(f, R, h), NEW s \in SUBSET S
    PROVE  g[s] = h[s]
<1> DEFINE P == {t \in SUBSET S : g[t] # h[t]}
<1> SUFFICES ASSUME P # {} PROVE FALSE
  OBVIOUS
<1>1. PICK t \in P : \A u \in P : u \subseteq t => u = t
  <2>1. P \in SUBSET SUBSET S
    OBVIOUS
  <2> HIDE DEF P
  <2> QED
    BY <2>1, MinimalSubset
<1>2. t \in SUBSET S /\ t \in SUBSET R
  OBVIOUS
<1>3. t # {}
  BY <1>2, SolutionAt
<1>4. First(t) \in t
  BY <1>3, FirstIn
<1>5. g[t \ {First(t)}] = h[t \ {First(t)}]
  BY <1>1, <1>2, <1>4
<1>6. g[t] = h[t]
  BY <1>2, <1>3, <1>5, SolutionAt
<1> QED
  BY <1>6

LEMMA SolutionExists ==
    ASSUME NEW f, NEW S, IsFiniteSet(S)
    PROVE  Solves(f, S, Solution(f, S))
<1> DEFINE P == {t \in SUBSET S : ~ Solves(f, t, Solution(f, t))}
<1> SUFFICES ASSUME P # {} PROVE FALSE
  OBVIOUS
<1>1. PICK t \in P : \A u \in P : u \subseteq t => u = t
  <2>1. P \in SUBSET SUBSET S
    OBVIOUS
  <2> HIDE DEF P
  <2> QED
    BY <2>1, MinimalSubset
<1>2. \A u \in SUBSET t : u # t => Solves(f, u, Solution(f, u))
  BY <1>1
<1> DEFINE Rest(u) == u \ {First(u)}
           h == [u \in SUBSET t |-> IF u = {} THEN 0
                                    ELSE f[First(u)] + Solution(f, Rest(u))[Rest(u)]]
<1>3. ASSUME NEW u \in SUBSET t, u # {}
      PROVE  h[Rest(u)] = Solution(f, Rest(u))[Rest(u)]
  <2>1. First(u) \in u
    BY <1>3, FirstIn
  <2>2. Rest(u) \in SUBSET t /\ Rest(u) # t
    BY <2>1
  <2>3. Solves(f, Rest(u), Solution(f, Rest(u)))
    BY <1>2, <2>2
  <2>4. CASE Rest(u) = {}
    BY <2>2, <2>3, <2>4, SolutionAt
  <2>5. CASE Rest(u) # {}
    <3> DEFINE v == Rest(u)
    <3>1. First(v) \in v /\ Rest(v) \in SUBSET v /\ Rest(v) # t
      BY <2>2, <2>5, FirstIn
    <3>2. Solves(f, Rest(v), Solution(f, Rest(v)))
      BY <1>2, <2>2, <3>1
    <3>3. IsFiniteSet(Rest(v))
      BY <3>1, <2>2, FS_Subset
    <3>4. Solution(f, Rest(v))[Rest(v)] = Solution(f, v)[Rest(v)]
      <4> HIDE DEF v, Rest
      <4> QED
        BY <2>3, <3>1, <3>2, <3>3, SolutionUnique DEF v
    <3>5. Solution(f, v)[v] = f[First(v)] + Solution(f, v)[Rest(v)]
      <4>1. v \in SUBSET v /\ v # {} /\ Solves(f, v, Solution(f, v))
        BY <2>3, <2>5
      <4> HIDE DEF v
      <4> QED
        BY <4>1, SolutionAt
    <3>6. h[v] = f[First(v)] + Solution(f, Rest(v))[Rest(v)]
      BY <2>2, <2>5
    <3> QED
      BY <3>4, <3>5, <3>6
  <2> QED
    BY <2>4, <2>5
<1>4. Solves(f, t, h)
  BY <1>3 DEF Solves
<1>5. Solves(f, t, Solution(f, t))
  BY <1>4 DEF Solution
<1> QED
  BY <1>5

-----------------------------------------------------------------------------
(* The equation, and the type of a sum. *)

LEMMA SumEmpty ==
    ASSUME NEW f
    PROVE  SumFunctionOnSet(f, {}) = 0
<1>1. IsFiniteSet({})
  BY FS_EmptySet
<1>2. Solves(f, {}, Solution(f, {}))
  BY <1>1, SolutionExists
<1> QED
  BY <1>2, SolutionAt, SumIsSolution

LEMMA SumFirst ==
    ASSUME NEW f, NEW S, IsFiniteSet(S), S # {}
    PROVE  SumFunctionOnSet(f, S) = f[First(S)] + SumFunctionOnSet(f, S \ {First(S)})
<1> DEFINE R == S \ {First(S)}
<1>1. R \in SUBSET S /\ IsFiniteSet(R)
  BY FS_Subset
<1>2. Solves(f, S, Solution(f, S)) /\ Solves(f, R, Solution(f, R))
  BY <1>1, SolutionExists
<1>3. Solution(f, R)[R] = Solution(f, S)[R]
  <2> HIDE DEF R
  <2> QED
    BY <1>1, <1>2, SolutionUnique
<1>4. Solution(f, S)[S] = f[First(S)] + Solution(f, S)[R]
  <2>1. S \in SUBSET S
    OBVIOUS
  <2> QED
    BY <1>2, <2>1, SolutionAt
<1> QED
  BY <1>3, <1>4, SumIsSolution

LEMMA SumInt ==
    ASSUME NEW S, IsFiniteSet(S), NEW f, \A x \in S : f[x] \in Int
    PROVE  SumFunctionOnSet(f, S) \in Int
<1> DEFINE P == {t \in SUBSET S : SumFunctionOnSet(f, t) \notin Int}
<1> SUFFICES ASSUME P # {} PROVE FALSE
  OBVIOUS
<1>1. PICK t \in P : \A u \in P : u \subseteq t => u = t
  <2>1. P \in SUBSET SUBSET S
    OBVIOUS
  <2> HIDE DEF P
  <2> QED
    BY <2>1, MinimalSubset
<1>2. t # {}
  BY SumEmpty
<1>3. First(t) \in t /\ IsFiniteSet(t)
  BY <1>2, FirstIn, FS_Subset
<1>4. SumFunctionOnSet(f, t) = f[First(t)] + SumFunctionOnSet(f, t \ {First(t)})
  BY <1>2, <1>3, SumFirst
<1>5. SumFunctionOnSet(f, t \ {First(t)}) \in Int /\ f[First(t)] \in Int
  BY <1>1, <1>3
<1> QED
  BY <1>4, <1>5

LEMMA SumNat ==
    ASSUME NEW S, IsFiniteSet(S), NEW f, \A x \in S : f[x] \in Nat
    PROVE  SumFunctionOnSet(f, S) \in Nat
<1> DEFINE P == {t \in SUBSET S : SumFunctionOnSet(f, t) \notin Nat}
<1> SUFFICES ASSUME P # {} PROVE FALSE
  OBVIOUS
<1>1. PICK t \in P : \A u \in P : u \subseteq t => u = t
  <2>1. P \in SUBSET SUBSET S
    OBVIOUS
  <2> HIDE DEF P
  <2> QED
    BY <2>1, MinimalSubset
<1>2. t # {}
  BY SumEmpty
<1>3. First(t) \in t /\ IsFiniteSet(t)
  BY <1>2, FirstIn, FS_Subset
<1>4. SumFunctionOnSet(f, t) = f[First(t)] + SumFunctionOnSet(f, t \ {First(t)})
  BY <1>2, <1>3, SumFirst
<1>5. SumFunctionOnSet(f, t \ {First(t)}) \in Nat /\ f[First(t)] \in Nat
  BY <1>1, <1>3
<1> QED
  BY <1>4, <1>5

\* The order does not matter: any element may come first.
LEMMA SumRemove ==
    ASSUME NEW S, IsFiniteSet(S), NEW f, \A x \in S : f[x] \in Int, NEW y \in S
    PROVE  SumFunctionOnSet(f, S) = f[y] + SumFunctionOnSet(f, S \ {y})
<1> DEFINE Holds(t) == \A x \in t :
             SumFunctionOnSet(f, t) = f[x] + SumFunctionOnSet(f, t \ {x})
           P == {t \in SUBSET S : ~ Holds(t)}
<1> SUFFICES ASSUME P # {} PROVE FALSE
  OBVIOUS
<1>1. PICK t \in P : \A u \in P : u \subseteq t => u = t
  <2>1. P \in SUBSET SUBSET S
    OBVIOUS
  <2> HIDE DEF P
  <2> QED
    BY <2>1, MinimalSubset
<1>2. PICK x \in t : SumFunctionOnSet(f, t) # f[x] + SumFunctionOnSet(f, t \ {x})
  BY <1>1
<1> DEFINE c == First(t)
           Sum(u) == SumFunctionOnSet(f, u)
<1>3. c \in t /\ IsFiniteSet(t)
  BY <1>2, FirstIn, FS_Subset
<1>4. Sum(t) = f[c] + Sum(t \ {c})
  BY <1>3, SumFirst
<1>5. x # c
  BY <1>2, <1>4
<1>6. t \ {c} \in SUBSET S /\ t \ {c} # t /\ x \in t \ {c}
  BY <1>3, <1>5
<1>7. t \ {x} \in SUBSET S /\ t \ {x} # t /\ c \in t \ {x}
  BY <1>3, <1>5
<1> DEFINE d == (t \ {x}) \ {c}
<1>8. Sum(t \ {c}) = f[x] + Sum(d)
  <2>1. d = (t \ {c}) \ {x}
    OBVIOUS
  <2> QED
    BY <1>1, <1>6, <2>1
<1>9. Sum(t \ {x}) = f[c] + Sum(d)
  BY <1>1, <1>7
<1>10. Sum(d) \in Int
  <2>1. d \in SUBSET S /\ IsFiniteSet(d)
    BY <1>3, FS_Subset
  <2>2. \A z \in d : f[z] \in Int
    BY <2>1
  <2> HIDE DEF d
  <2> QED
    BY <2>1, <2>2, SumInt
<1>11. f[x] \in Int /\ f[c] \in Int
  BY <1>3
<1> HIDE DEF c, d, Sum
<1>12. Sum(t) = f[x] + Sum(t \ {x})
  BY <1>4, <1>8, <1>9, <1>10, <1>11
<1> QED
  BY <1>2, <1>12 DEF Sum

-----------------------------------------------------------------------------
(* Comparing and splitting sums. *)

LEMMA SumEqual ==
    ASSUME NEW S, IsFiniteSet(S), NEW f, NEW g, \A x \in S : f[x] = g[x]
    PROVE  SumFunctionOnSet(f, S) = SumFunctionOnSet(g, S)
<1> DEFINE P == {t \in SUBSET S : SumFunctionOnSet(f, t) # SumFunctionOnSet(g, t)}
<1> SUFFICES ASSUME P # {} PROVE FALSE
  OBVIOUS
<1>1. PICK t \in P : \A u \in P : u \subseteq t => u = t
  <2>1. P \in SUBSET SUBSET S
    OBVIOUS
  <2> HIDE DEF P
  <2> QED
    BY <2>1, MinimalSubset
<1>2. t # {}
  BY SumEmpty
<1>3. First(t) \in t /\ IsFiniteSet(t)
  BY <1>2, FirstIn, FS_Subset
<1>4. /\ SumFunctionOnSet(f, t) = f[First(t)] + SumFunctionOnSet(f, t \ {First(t)})
      /\ SumFunctionOnSet(g, t) = g[First(t)] + SumFunctionOnSet(g, t \ {First(t)})
  BY <1>2, <1>3, SumFirst
<1>5. SumFunctionOnSet(f, t \ {First(t)}) = SumFunctionOnSet(g, t \ {First(t)})
  BY <1>1, <1>3
<1> QED
  BY <1>3, <1>4, <1>5

LEMMA SumAtMost ==
    ASSUME NEW S, IsFiniteSet(S), NEW f, NEW g,
           \A x \in S : f[x] \in Int /\ g[x] \in Int /\ f[x] <= g[x]
    PROVE  SumFunctionOnSet(f, S) <= SumFunctionOnSet(g, S)
<1> DEFINE P == {t \in SUBSET S : ~ (SumFunctionOnSet(f, t) <= SumFunctionOnSet(g, t))}
<1> SUFFICES ASSUME P # {} PROVE FALSE
  OBVIOUS
<1>1. PICK t \in P : \A u \in P : u \subseteq t => u = t
  <2>1. P \in SUBSET SUBSET S
    OBVIOUS
  <2> HIDE DEF P
  <2> QED
    BY <2>1, MinimalSubset
<1>2. t # {}
  BY SumEmpty
<1>3. First(t) \in t /\ IsFiniteSet(t)
  BY <1>2, FirstIn, FS_Subset
<1> DEFINE u == t \ {First(t)}
<1>4. /\ SumFunctionOnSet(f, t) = f[First(t)] + SumFunctionOnSet(f, u)
      /\ SumFunctionOnSet(g, t) = g[First(t)] + SumFunctionOnSet(g, u)
  BY <1>2, <1>3, SumFirst
<1>5. SumFunctionOnSet(f, u) <= SumFunctionOnSet(g, u)
  BY <1>1, <1>3
<1>6. SumFunctionOnSet(f, u) \in Int /\ SumFunctionOnSet(g, u) \in Int
  <2>1. IsFiniteSet(u) /\ \A x \in u : f[x] \in Int /\ g[x] \in Int
    BY <1>3, FS_Subset
  <2> HIDE DEF u
  <2> QED
    BY <2>1, SumInt
<1>7. f[First(t)] \in Int /\ g[First(t)] \in Int /\ f[First(t)] <= g[First(t)]
  BY <1>3
<1> HIDE DEF u
<1>8. SumFunctionOnSet(f, t) <= SumFunctionOnSet(g, t)
  BY <1>4, <1>5, <1>6, <1>7
<1> QED
  BY <1>8

\* One summand changes.
LEMMA SumChange ==
    ASSUME NEW S, IsFiniteSet(S), NEW f, NEW g,
           \A x \in S : f[x] \in Int /\ g[x] \in Int,
           NEW y \in S, \A x \in S \ {y} : f[x] = g[x]
    PROVE  SumFunctionOnSet(g, S) = SumFunctionOnSet(f, S) + g[y] - f[y]
<1> DEFINE R == S \ {y}
<1>1. IsFiniteSet(R) /\ \A x \in R : f[x] = g[x] /\ f[x] \in Int
  BY FS_Subset
<1>2. SumFunctionOnSet(f, R) = SumFunctionOnSet(g, R) /\ SumFunctionOnSet(f, R) \in Int
  <2> HIDE DEF R
  <2> QED
    BY <1>1, SumEqual, SumInt
<1>3. /\ SumFunctionOnSet(f, S) = f[y] + SumFunctionOnSet(f, R)
      /\ SumFunctionOnSet(g, S) = g[y] + SumFunctionOnSet(g, R)
  BY SumRemove
<1> HIDE DEF R
<1> QED
  BY <1>2, <1>3

LEMMA SumSplit ==
    ASSUME NEW S, IsFiniteSet(S), NEW f, \A x \in S : f[x] \in Int, NEW T \in SUBSET S
    PROVE  SumFunctionOnSet(f, S) = SumFunctionOnSet(f, T) + SumFunctionOnSet(f, S \ T)
<1> DEFINE Sum(u) == SumFunctionOnSet(f, u)
           P == {t \in SUBSET T : Sum(S) # Sum(t) + Sum(S \ t)}
<1> SUFFICES ASSUME P # {} PROVE FALSE
  OBVIOUS
<1>1. PICK t \in P : \A u \in P : u \subseteq t => u = t
  <2>1. P \in SUBSET SUBSET T /\ IsFiniteSet(T)
    BY FS_Subset
  <2> HIDE DEF P
  <2> QED
    BY <2>1, MinimalSubset
<1>2. Sum(S) \in Int
  BY SumInt
<1>3. t # {}
  <2> HIDE DEF Sum
  <2>1. Sum({}) = 0 /\ S \ {} = S
    BY SumEmpty DEF Sum
  <2> QED
    BY <1>2, <2>1
<1> DEFINE c == First(t)
           u == t \ {c}
<1>4. c \in t /\ c \in S \ u /\ (S \ u) \ {c} = S \ t
  BY <1>3, FirstIn
<1>5. IsFiniteSet(t) /\ IsFiniteSet(u) /\ IsFiniteSet(S \ u) /\ IsFiniteSet(S \ t)
  BY FS_Subset
<1>6. Sum(t) = f[c] + Sum(u)
  BY <1>3, <1>5, SumFirst
<1>7. Sum(S \ u) = f[c] + Sum(S \ t)
  <2>1. \A x \in S \ u : f[x] \in Int
    OBVIOUS
  <2> HIDE DEF u, c
  <2> QED
    BY <1>4, <1>5, <2>1, SumRemove
<1>8. Sum(S) = Sum(u) + Sum(S \ u)
  BY <1>1, <1>4
<1>9. f[c] \in Int /\ Sum(u) \in Int /\ Sum(S \ t) \in Int
  <2>1. \A x \in S \ t : f[x] \in Int
    OBVIOUS
  <2>2. \A x \in u : f[x] \in Int
    OBVIOUS
  <2>3. f[c] \in Int
    BY <1>4
  <2> HIDE DEF u, c
  <2> QED
    BY <1>5, <2>1, <2>2, <2>3, SumInt
<1>10. Sum(S) = Sum(t) + Sum(S \ t)
  <2> HIDE DEF u, c, Sum
  <2> QED
    BY <1>6, <1>7, <1>8, <1>9
<1> QED
  BY <1>10

\* A part of naturals is at most the whole.
LEMMA SumPart ==
    ASSUME NEW S, IsFiniteSet(S), NEW f, \A x \in S : f[x] \in Nat, NEW T \in SUBSET S
    PROVE  SumFunctionOnSet(f, T) <= SumFunctionOnSet(f, S)
<1>1. IsFiniteSet(T) /\ IsFiniteSet(S \ T)
  BY FS_Subset
<1>2. SumFunctionOnSet(f, T) \in Nat /\ SumFunctionOnSet(f, S \ T) \in Nat
  BY <1>1, SumNat
<1>3. SumFunctionOnSet(f, S) = SumFunctionOnSet(f, T) + SumFunctionOnSet(f, S \ T)
  BY SumSplit
<1> QED
  BY <1>2, <1>3

\* Summands that are zero do not count.
LEMMA SumNonzero ==
    ASSUME NEW S, IsFiniteSet(S), NEW f, \A x \in S : f[x] \in Int,
           NEW T \in SUBSET S, \A x \in S \ T : f[x] = 0
    PROVE  SumFunctionOnSet(f, S) = SumFunctionOnSet(f, T)
<1> DEFINE P == {t \in SUBSET (S \ T) : SumFunctionOnSet(f, t) # 0}
<1>1. IsFiniteSet(T) /\ IsFiniteSet(S \ T)
  BY FS_Subset
<1>2. P = {}
  <2> SUFFICES ASSUME P # {} PROVE FALSE
    OBVIOUS
  <2>1. PICK t \in P : \A u \in P : u \subseteq t => u = t
    <3>1. P \in SUBSET SUBSET (S \ T)
      OBVIOUS
    <3> HIDE DEF P
    <3> QED
      BY <1>1, <3>1, MinimalSubset
  <2>2. t # {}
    BY SumEmpty
  <2>3. First(t) \in t /\ IsFiniteSet(t)
    BY <1>1, <2>2, FirstIn, FS_Subset
  <2>4. SumFunctionOnSet(f, t) = f[First(t)] + SumFunctionOnSet(f, t \ {First(t)})
    BY <2>2, <2>3, SumFirst
  <2>5. SumFunctionOnSet(f, t \ {First(t)}) = 0 /\ f[First(t)] = 0
    BY <2>1, <2>3
  <2> QED
    BY <2>4, <2>5
<1>3. SumFunctionOnSet(f, S \ T) = 0
  BY <1>2
<1>4. SumFunctionOnSet(f, S) = SumFunctionOnSet(f, T) + SumFunctionOnSet(f, S \ T)
  BY SumSplit
<1>5. SumFunctionOnSet(f, T) \in Int
  BY <1>1, SumInt
<1> QED
  BY <1>3, <1>4, <1>5

\* Equal summands.
LEMMA SumConstant ==
    ASSUME NEW S, IsFiniteSet(S), NEW n \in Nat, NEW f, \A x \in S : f[x] = n
    PROVE  SumFunctionOnSet(f, S) = n * Cardinality(S)
<1> DEFINE P == {t \in SUBSET S : SumFunctionOnSet(f, t) # n * Cardinality(t)}
<1> SUFFICES ASSUME P # {} PROVE FALSE
  OBVIOUS
<1>1. PICK t \in P : \A u \in P : u \subseteq t => u = t
  <2>1. P \in SUBSET SUBSET S
    OBVIOUS
  <2> HIDE DEF P
  <2> QED
    BY <2>1, MinimalSubset
<1>2. t # {}
  <2>1. n * 0 = 0
    OBVIOUS
  <2> QED
    BY <2>1, SumEmpty, FS_EmptySet
<1>3. First(t) \in t /\ IsFiniteSet(t)
  BY <1>2, FirstIn, FS_Subset
<1> DEFINE u == t \ {First(t)}
<1>4. SumFunctionOnSet(f, t) = n + SumFunctionOnSet(f, u)
  BY <1>2, <1>3, SumFirst
<1>5. SumFunctionOnSet(f, u) = n * Cardinality(u)
  BY <1>1, <1>3
<1>6. Cardinality(u) \in Nat /\ Cardinality(t) = Cardinality(u) + 1
  <2>1. IsFiniteSet(u) /\ Cardinality(u) = Cardinality(t) - 1
    BY <1>3, FS_RemoveElement
  <2>2. Cardinality(t) \in Nat /\ Cardinality(u) \in Nat
    BY <1>3, <2>1, FS_CardinalityType
  <2> QED
    BY <2>1, <2>2
<1>7. \A k \in Nat : n + n * k = n * (k + 1)
  OBVIOUS
<1>8. SumFunctionOnSet(f, t) = n * Cardinality(t)
  <2> HIDE DEF u
  <2> QED
    BY <1>4, <1>5, <1>6, <1>7
<1> QED
  BY <1>8
=============================================================================
