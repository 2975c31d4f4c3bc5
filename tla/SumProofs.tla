----------------------------- MODULE SumProofs ------------------------------
(***************************************************************************)
(* Sums over finite sets, as SumFunctionOnSet of the community modules     *)
(* computes them: what they are when an element or a value changes.  The   *)
(* units in carts, of orders and of stock rows are counted with it.        *)
(***************************************************************************)
EXTENDS Integers, FiniteSets, Functions, FiniteSetTheorems, TLAPS

\* Of the subsets of a finite set that have something in common, one has no
\* proper subset among them.
LEMMA LeastSubset ==
  ASSUME NEW S, IsFiniteSet(S), NEW Bad \in SUBSET (SUBSET S), Bad # {}
  PROVE  \E T \in Bad : \A U \in SUBSET T : U # T => U \notin Bad
<1>1. IsWellFoundedOn(StrictSubsetOrdering(S), SUBSET S)
  BY FS_StrictSubsetOrderingWellFounded, FS_FiniteSubsetsOfFinite
<1>2. PICK T \in Bad : \A U \in Bad : <<U, T>> \notin StrictSubsetOrdering(S)
  BY <1>1, WFMin
<1>3. QED  BY <1>2 DEF StrictSubsetOrdering

\* What the library's fold computes on the way to the sum of f over S: a running
\* sum for every subset, by taking out one element after the other.
First(s) == CHOOSE x \in s : TRUE
Adds(f, g, S) == g = [s \in SUBSET S |-> IF s = {} THEN 0 ELSE f[First(s)] + g[s \ {First(s)}]]

LEMMA AddsAgree ==
  ASSUME NEW S, IsFiniteSet(S), NEW f, NEW T \in SUBSET S, NEW U \in SUBSET S,
         NEW g, NEW h, Adds(f, g, T), Adds(f, h, U),
         NEW v \in SUBSET (T \cap U)
  PROVE  g[v] = h[v]
<1> DEFINE Bad == {w \in SUBSET (T \cap U) : g[w] # h[w]}
<1> SUFFICES ASSUME Bad # {} PROVE FALSE
  OBVIOUS
<1>1. PICK w \in Bad : \A u \in SUBSET w : u # w => u \notin Bad
  <2>1. Bad \in SUBSET (SUBSET S)
    OBVIOUS
  <2> HIDE DEF Bad
  <2>2. QED  BY <2>1, LeastSubset
<1>2. /\ g[w] = IF w = {} THEN 0 ELSE f[First(w)] + g[w \ {First(w)}]
      /\ h[w] = IF w = {} THEN 0 ELSE f[First(w)] + h[w \ {First(w)}]
  BY <1>1 DEF Adds
<1>3. CASE w = {}
  BY <1>1, <1>2, <1>3
<1>4. CASE w # {}
  <2>1. First(w) \in w
    BY <1>4 DEF First
  <2>2. g[w \ {First(w)}] = h[w \ {First(w)}]
    BY <1>1, <2>1
  <2>3. QED  BY <1>1, <1>2, <1>4, <2>2
<1>5. QED  BY <1>3, <1>4

LEMMA AddsExists ==
  ASSUME NEW S, IsFiniteSet(S), NEW f
  PROVE  \E g : Adds(f, g, S)
<1> DEFINE Bad == {T \in SUBSET S : ~ \E g : Adds(f, g, T)}
<1> SUFFICES ASSUME Bad # {} PROVE FALSE
  OBVIOUS
<1>1. PICK T \in Bad : \A U \in SUBSET T : U # T => U \notin Bad
  <2>1. Bad \in SUBSET (SUBSET S)
    OBVIOUS
  <2> HIDE DEF Bad
  <2>2. QED  BY <2>1, LeastSubset
<1> DEFINE h(U) == CHOOSE g : Adds(f, g, U)
           G == [s \in SUBSET T |-> IF s = {} THEN 0
                                    ELSE f[First(s)] + h(s \ {First(s)})[s \ {First(s)}]]
<1>2. ASSUME NEW U \in SUBSET T, U # T PROVE Adds(f, h(U), U)
  BY <1>1, <1>2
<1>3. ASSUME NEW s \in SUBSET T, s # {}
      PROVE  G[s \ {First(s)}] = h(s \ {First(s)})[s \ {First(s)}]
  <2> DEFINE u == s \ {First(s)}
  <2>1. First(s) \in s
    BY <1>3 DEF First
  <2>2. u \in SUBSET T /\ u # T /\ u \in SUBSET S
    BY <2>1
  <2>3. Adds(f, h(u), u)
    BY <1>2, <2>2
  <2>4. h(u)[u] = IF u = {} THEN 0 ELSE f[First(u)] + h(u)[u \ {First(u)}]
    <3> HIDE DEF h
    <3>1. QED  BY <2>3 DEF Adds
  <2>5. G[u] = IF u = {} THEN 0 ELSE f[First(u)] + h(u \ {First(u)})[u \ {First(u)}]
    BY <2>2
  <2>6. CASE u = {}
    BY <2>4, <2>5, <2>6
  <2>7. CASE u # {}
    <3> DEFINE v == u \ {First(u)}
    <3>1. v \in SUBSET T /\ v # T /\ v \in SUBSET S /\ v \in SUBSET (u \cap v)
      BY <2>2
    <3>2. Adds(f, h(v), v)
      BY <1>2, <3>1
    <3>3. h(u)[v] = h(v)[v]
      <4> HIDE DEF h, v, u
      <4>1. QED  BY <2>2, <2>3, <3>1, <3>2, AddsAgree
    <3>4. QED  BY <2>4, <2>5, <2>7, <3>3
  <2>8. QED  BY <2>6, <2>7
<1>4. Adds(f, G, T)
  <2> DEFINE H == [s \in SUBSET T |-> IF s = {} THEN 0
                                      ELSE f[First(s)] + G[s \ {First(s)}]]
  <2>1. ASSUME NEW s \in SUBSET T PROVE G[s] = H[s]
    <3>1. CASE s = {}
      BY <3>1
    <3>2. CASE s # {}
      <4> HIDE DEF h
      <4>1. QED  BY <1>3, <3>2
    <3>3. QED  BY <3>1, <3>2
  <2>2. G = H
    <3>1. DOMAIN G = SUBSET T /\ DOMAIN H = SUBSET T
      OBVIOUS
    <3>2. G = [s \in SUBSET T |-> G[s]] /\ H = [s \in SUBSET T |-> H[s]]
      OBVIOUS
    <3> HIDE DEF G, H
    <3>3. QED  BY <2>1, <3>2
  <2> HIDE DEF G
  <2>3. QED  BY <2>2 DEF Adds
<1>5. QED  BY <1>1, <1>4

\* The sum of f over a finite set takes out one element and goes on.
LEMMA SumUnfold ==
  ASSUME NEW S, IsFiniteSet(S), NEW f
  PROVE  SumFunctionOnSet(f, S) =
           IF S = {} THEN 0
           ELSE f[First(S)] + SumFunctionOnSet(f, S \ {First(S)})
<1> DEFINE g(T) == CHOOSE g : Adds(f, g, T)
<1>1. ASSUME NEW T PROVE SumFunctionOnSet(f, T) = g(T)[T]
  BY DEF SumFunctionOnSet, FoldFunctionOnSet, MapThenFoldSet, Adds, First
<1>2. ASSUME NEW T \in SUBSET S PROVE Adds(f, g(T), T)
  <2>1. \E h : Adds(f, h, T)
    BY AddsExists, FS_Subset
  <2>2. QED  BY <2>1
<1> HIDE DEF g
<1>3. g(S)[S] = IF S = {} THEN 0 ELSE f[First(S)] + g(S)[S \ {First(S)}]
  BY <1>2 DEF Adds
<1>4. g(S)[S \ {First(S)}] = g(S \ {First(S)})[S \ {First(S)}]
  BY <1>2, AddsAgree
<1>5. QED  BY <1>1, <1>3, <1>4

\* In whatever order the elements are taken out, the sum is the same.
LEMMA SumRemove ==
  ASSUME NEW S, IsFiniteSet(S), NEW f, \A y \in S : f[y] \in Nat
  PROVE  /\ SumFunctionOnSet(f, S) \in Nat
         /\ \A x \in S : SumFunctionOnSet(f, S) = f[x] + SumFunctionOnSet(f, S \ {x})
<1> DEFINE Sum(T) == SumFunctionOnSet(f, T)
           Fits(T) == Sum(T) \in Nat /\ \A x \in T : Sum(T) = f[x] + Sum(T \ {x})
           Bad == {T \in SUBSET S : ~Fits(T)}
<1>1. ASSUME NEW T \in SUBSET S, \A U \in SUBSET T : U # T => Fits(U)
      PROVE  Fits(T)
  <2>1. Sum(T) = IF T = {} THEN 0 ELSE f[First(T)] + Sum(T \ {First(T)})
    BY SumUnfold, FS_Subset
  <2>2. CASE T = {}
    BY <2>1, <2>2
  <2>3. CASE T # {}
    <3> DEFINE c == First(T)
    <3> HIDE DEF Sum
    <3>1. c \in T /\ f[c] \in Nat
      BY <2>3 DEF First
    <3>2. Fits(T \ {c})
      BY <1>1, <3>1
    <3>3. Sum(T) = f[c] + Sum(T \ {c}) /\ Sum(T) \in Nat
      BY <2>1, <2>3, <3>1, <3>2
    <3>4. ASSUME NEW x \in T, x # c PROVE Sum(T) = f[x] + Sum(T \ {x})
      <4> HIDE DEF c
      <4>1. Fits(T \ {x}) /\ x \in T \ {c} /\ c \in T \ {x} /\ f[x] \in Nat
        BY <1>1, <3>1, <3>4
      <4>2. Sum(T \ {c}) = f[x] + Sum((T \ {c}) \ {x})
        BY <3>2, <4>1
      <4>3. Sum(T \ {x}) = f[c] + Sum((T \ {x}) \ {c})
        BY <4>1
      <4>4. (T \ {c}) \ {x} = (T \ {x}) \ {c}
        OBVIOUS
      <4>5. Fits((T \ {x}) \ {c})
        BY <1>1, <3>1
      <4>6. Sum((T \ {x}) \ {c}) \in Nat
        BY <4>5
      <4>7. f[x] \in Nat
        OBVIOUS
      <4>8. Sum(T) = f[c] + (f[x] + Sum((T \ {x}) \ {c}))
        BY <3>3, <4>2, <4>4
      <4>9. QED  BY <3>1, <4>3, <4>6, <4>7, <4>8
    <3>5. QED  BY <3>3, <3>4
  <2>4. QED  BY <2>2, <2>3
<1>2. Bad = {}
  <2> SUFFICES ASSUME Bad # {} PROVE FALSE
    OBVIOUS
  <2>1. Bad \in SUBSET (SUBSET S)
    OBVIOUS
  <2>2. \E T \in Bad : \A U \in SUBSET T : U # T => U \notin Bad
    <3> HIDE DEF Bad
    <3>1. QED  BY <2>1, LeastSubset
  <2> HIDE DEF Fits
  <2>3. QED  BY <1>1, <2>2
<1>3. Fits(S)
  <2> HIDE DEF Fits
  <2>1. QED  BY <1>2
<1>4. QED  BY <1>3

\* One more element adds its value.
LEMMA SumAdd ==
  ASSUME NEW S, IsFiniteSet(S), NEW x, x \notin S, NEW f, \A y \in S \cup {x} : f[y] \in Nat
  PROVE  SumFunctionOnSet(f, S \cup {x}) = SumFunctionOnSet(f, S) + f[x]
<1>1. IsFiniteSet(S \cup {x}) /\ (S \cup {x}) \ {x} = S
  BY FS_AddElement
<1>2. SumFunctionOnSet(f, S) \in Nat /\ f[x] \in Nat
  BY SumRemove
<1>3. SumFunctionOnSet(f, S \cup {x}) = f[x] + SumFunctionOnSet(f, (S \cup {x}) \ {x})
  BY <1>1, SumRemove
<1>4. QED  BY <1>1, <1>2, <1>3

\* The sum depends on the values at the summed elements only, and elements
\* without a value of their own do not matter.
LEMMA SumSame ==
  ASSUME NEW S, IsFiniteSet(S), NEW T \in SUBSET S, NEW f, NEW g,
         \A y \in S : f[y] \in Nat /\ f[y] = IF y \in T THEN g[y] ELSE 0
  PROVE  SumFunctionOnSet(f, S) = SumFunctionOnSet(g, T)
<1> DEFINE F(U) == SumFunctionOnSet(f, U)
           G(U) == SumFunctionOnSet(g, U)
           Fits(U) == F(U) = G(U \cap T)
           Bad == {U \in SUBSET S : ~Fits(U)}
<1>1. ASSUME NEW U \in SUBSET S, \A V \in SUBSET U : V # U => Fits(V)
      PROVE  Fits(U)
  <2>1. CASE U = {}
    <3>1. IsFiniteSet({}) /\ U = {} /\ U \cap T = {}
      BY <2>1, FS_EmptySet
    <3>2. F({}) = 0 /\ G({}) = 0
      BY <3>1, SumUnfold
    <3> HIDE DEF F, G
    <3>3. QED  BY <3>1, <3>2
  <2>2. ASSUME NEW x \in U PROVE Fits(U)
    <3>1. IsFiniteSet(U) /\ IsFiniteSet(U \cap T)
      BY FS_Subset
    <3>2. \A y \in U : f[y] \in Nat
      OBVIOUS
    <3>3. \A y \in U \cap T : g[y] \in Nat
      OBVIOUS
    <3>4. F(U) = f[x] + F(U \ {x}) /\ F(U) \in Nat
      BY <3>1, <3>2, SumRemove
    <3>5. x \in T => G(U \cap T) = g[x] + G((U \cap T) \ {x})
      BY <3>1, <3>3, SumRemove
    <3>6. (U \cap T) \ {x} = (U \ {x}) \cap T
      OBVIOUS
    <3>7. F(U \ {x}) \in Nat
      <4>1. IsFiniteSet(U \ {x}) /\ \A y \in U \ {x} : f[y] \in Nat
        BY <3>1, FS_RemoveElement
      <4>2. QED  BY <4>1, SumRemove
    <3> HIDE DEF F, G
    <3>8. F(U \ {x}) = G((U \ {x}) \cap T)
      BY <1>1
    <3>9. CASE x \in T
      <4>1. f[x] = g[x]
        BY <3>9
      <4>2. QED  BY <3>4, <3>5, <3>6, <3>8, <3>9, <4>1
    <3>10. CASE x \notin T
      <4>1. f[x] = 0
        BY <3>10
      <4>2. F(U) = F(U \ {x})
        BY <3>4, <3>7, <4>1
      <4>3. U \cap T = (U \ {x}) \cap T
        BY <3>10
      <4>4. QED  BY <3>8, <4>2, <4>3
    <3>11. QED  BY <3>9, <3>10
  <2> HIDE DEF Fits
  <2>3. QED  BY <2>1, <2>2
<1>2. Bad = {}
  <2> SUFFICES ASSUME Bad # {} PROVE FALSE
    OBVIOUS
  <2>1. Bad \in SUBSET (SUBSET S)
    OBVIOUS
  <2>2. \E U \in Bad : \A V \in SUBSET U : V # U => V \notin Bad
    <3> HIDE DEF Bad
    <3>1. QED  BY <2>1, LeastSubset
  <2> HIDE DEF Fits
  <2>3. QED  BY <1>1, <2>2
<1>3. Fits(S) /\ S \cap T = T
  <2> HIDE DEF Fits
  <2>1. QED  BY <1>2
<1>4. QED  BY <1>3

\* A sum grows by what one element's value grows by.
LEMMA SumChange ==
  ASSUME NEW S, IsFiniteSet(S), NEW x \in S, NEW f, NEW g,
         \A y \in S : f[y] \in Nat /\ g[y] \in Nat /\ (y # x => f[y] = g[y])
  PROVE  /\ SumFunctionOnSet(f, S) \in Nat /\ SumFunctionOnSet(g, S) \in Nat
         /\ SumFunctionOnSet(g, S) + f[x] = SumFunctionOnSet(f, S) + g[x]
<1> DEFINE T == S \ {x}
<1>1. IsFiniteSet(T) /\ T \in SUBSET T
  BY FS_RemoveElement
<1>2. \A y \in T : g[y] \in Nat /\ g[y] = IF y \in T THEN f[y] ELSE 0
  OBVIOUS
<1>3. SumFunctionOnSet(g, T) = SumFunctionOnSet(f, T)
  <2> HIDE DEF T
  <2>1. QED  BY <1>1, <1>2, SumSame
<1>4. SumFunctionOnSet(f, T) \in Nat
  <2>1. \A y \in T : f[y] \in Nat
    OBVIOUS
  <2> HIDE DEF T
  <2>2. QED  BY <1>1, <2>1, SumRemove
<1>5. /\ SumFunctionOnSet(f, S) = f[x] + SumFunctionOnSet(f, T)
      /\ SumFunctionOnSet(g, S) = g[x] + SumFunctionOnSet(g, T)
  BY SumRemove
<1>6. f[x] \in Nat /\ g[x] \in Nat
  OBVIOUS
<1> HIDE DEF T
<1>7. QED  BY <1>3, <1>4, <1>5, <1>6

\* Smaller values have a smaller sum.
LEMMA SumLess ==
  ASSUME NEW S, IsFiniteSet(S), NEW f, NEW g,
         \A y \in S : f[y] \in Nat /\ g[y] \in Nat /\ f[y] <= g[y]
  PROVE  SumFunctionOnSet(f, S) <= SumFunctionOnSet(g, S)
<1> DEFINE F(U) == SumFunctionOnSet(f, U)
           G(U) == SumFunctionOnSet(g, U)
           Bad == {U \in SUBSET S : ~ F(U) <= G(U)}
<1> SUFFICES ASSUME Bad # {} PROVE FALSE
  <2>1. Bad = {} => F(S) <= G(S)
    OBVIOUS
  <2>2. QED  BY <2>1
<1>1. PICK U \in Bad : \A V \in SUBSET U : V # U => V \notin Bad
  <2>1. Bad \in SUBSET (SUBSET S)
    OBVIOUS
  <2> HIDE DEF Bad
  <2>2. QED  BY <2>1, LeastSubset
<1>2. IsFiniteSet(U) /\ U \in SUBSET S
  BY <1>1, FS_Subset
<1>3. CASE U = {}
  <2>1. F({}) = 0 /\ G({}) = 0
    BY SumUnfold, FS_EmptySet
  <2> HIDE DEF F, G
  <2>2. QED  BY <1>1, <1>3, <2>1
<1>4. ASSUME NEW x \in U PROVE FALSE
  <2> DEFINE T == U \ {x}
  <2>1. IsFiniteSet(T) /\ \A y \in T : f[y] \in Nat /\ g[y] \in Nat
    BY <1>2, FS_RemoveElement
  <2>2. F(T) \in Nat /\ G(T) \in Nat
    <3> HIDE DEF T
    <3>1. QED  BY <2>1, SumRemove
  <2>3. F(U) = f[x] + F(T) /\ G(U) = g[x] + G(T)
    <3>1. \A y \in U : f[y] \in Nat /\ g[y] \in Nat
      BY <1>2
    <3>2. QED  BY <1>2, <3>1, SumRemove
  <2>4. T \notin Bad /\ T \in SUBSET S
    BY <1>1, <1>2, <1>4
  <2>5. f[x] \in Nat /\ g[x] \in Nat /\ f[x] <= g[x]
    BY <1>2, <1>4
  <2>6. ~ F(U) <= G(U)
    BY <1>1
  <2>7. F(T) <= G(T)
    BY <2>4
  <2> HIDE DEF F, G, T
  <2>8. QED  BY <2>2, <2>3, <2>5, <2>6, <2>7
<1>5. QED  BY <1>3, <1>4

\* Without a value there is no sum.
LEMMA SumZeros ==
  ASSUME NEW S, IsFiniteSet(S), NEW f, \A y \in S : f[y] = 0
  PROVE  SumFunctionOnSet(f, S) = 0
<1>1. SumFunctionOnSet(f, {}) = 0
  BY SumUnfold, FS_EmptySet
<1>2. SumFunctionOnSet(f, S) = SumFunctionOnSet(f, {})
  <2>1. {} \in SUBSET S /\ \A y \in S : f[y] \in Nat /\ f[y] = IF y \in {} THEN f[y] ELSE 0
    OBVIOUS
  <2>2. QED  BY <2>1, SumSame
<1>3. QED  BY <1>1, <1>2

=============================================================================
