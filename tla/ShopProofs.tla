----------------------------- MODULE ShopProofs -----------------------------
(***************************************************************************)
(* What Shop guarantees for any products, customers, guests, stores, rules *)
(* and words, and for any number of requests: the lists and reports made   *)
(* of the history are true of it, a visitor's pages show what the visitor  *)
(* saw, a checkout's figures add up, and every word of a search counts.    *)
(* A loop of the code is a function from 0 .. n here; what holds at its    *)
(* start and over each of its steps holds all the way (AllTheWay).         *)
(***************************************************************************)
EXTENDS Shop, SumProofs, SequenceTheorems

-----------------------------------------------------------------------------
(* Loops *)

\* What holds before a loop and is kept by each step of it holds all the way.
LEMMA AllTheWay ==
  ASSUME NEW n \in Nat, NEW Good, 0 \in Good, \A k \in 1..n : k - 1 \in Good => k \in Good
  PROVE  \A k \in 0..n : k \in Good
<1> DEFINE Bad == {s \in SUBSET (0..n) : \E k \in 0..n : s = 0..k /\ k \notin Good}
<1> SUFFICES ASSUME NEW k \in 0..n, k \notin Good PROVE FALSE
  OBVIOUS
<1>1. IsFiniteSet(0..n)
  BY FS_Interval
<1>2. 0..k \in Bad
  OBVIOUS
<1>3. PICK T \in Bad : \A U \in SUBSET T : U # T => U \notin Bad
  <2>1. Bad \in SUBSET (SUBSET (0..n)) /\ Bad # {}
    BY <1>2
  <2> HIDE DEF Bad
  <2>2. QED  BY <1>1, <2>1, LeastSubset
<1>4. PICK m \in 0..n : T = 0..m /\ m \notin Good
  BY <1>3
<1>5. m # 0 /\ m - 1 \in 0..n /\ m - 1 \notin Good
  BY <1>4
<1>6. 0..(m - 1) \in SUBSET T /\ 0..(m - 1) # T /\ 0..(m - 1) \in SUBSET (0..n)
  BY <1>4, <1>5
<1>7. 0..(m - 1) \in Bad
  BY <1>5, <1>6
<1>8. QED  BY <1>3, <1>6, <1>7

LEMMA MaxIn ==
  ASSUME NEW n \in Nat, NEW s \in SUBSET (1..n), s # {}
  PROVE  Max(s) \in s /\ \A y \in s : Max(s) >= y
<1> DEFINE Has(k) == \A t \in SUBSET (1..k) : t # {} => \E x \in t : \A y \in t : x >= y
           Good == {k \in 0..n : Has(k)}
<1>1. 0 \in Good
  <2>1. 1..0 = {}
    OBVIOUS
  <2>2. Has(0)
    BY <2>1
  <2> HIDE DEF Has
  <2>3. QED  BY <2>2
<1>2. ASSUME NEW k \in 1..n, k - 1 \in Good PROVE k \in Good
  <2> SUFFICES ASSUME NEW t \in SUBSET (1..k), t # {} PROVE \E x \in t : \A y \in t : x >= y
    OBVIOUS
  <2>1. CASE k \in t
    BY <2>1
  <2>2. CASE k \notin t
    <3>1. t \in SUBSET (1..(k - 1))
      BY <2>2
    <3>2. QED  BY <1>2, <3>1
  <2>3. QED  BY <2>1, <2>2
<1>3. n \in Good
  <2> HIDE DEF Good
  <2>1. \A k \in 0..n : k \in Good
    BY <1>1, <1>2, AllTheWay
  <2>2. QED  BY <2>1
<1>4. \E x \in s : \A y \in s : x >= y
  BY <1>3
<1>5. QED  BY <1>4 DEF Max

\* A fold over a list goes through all sets of positions: g is what it computes
\* for each, where step[k][v] is what position k makes of the value v.
Folding(g, base, step, n) ==
  \A s \in SUBSET (1..n) : g[s] = IF s = {} THEN base ELSE step[Max(s)][g[s \ {Max(s)}]]

LEMMA FoldExists ==
  ASSUME NEW n \in Nat, NEW S, NEW base \in S, NEW step \in [1..n -> [S -> S]]
  PROVE  \E g \in [SUBSET (1..n) -> S] : Folding(g, base, step, n)
<1> DEFINE Steps(g, s) == g[s] = IF s = {} THEN base ELSE step[Max(s)][g[s \ {Max(s)}]]
           Has(k) == \E g \in [SUBSET (1..k) -> S] : \A s \in SUBSET (1..k) : Steps(g, s)
           Good == {k \in 0..n : Has(k)}
<1>1. 0 \in Good
  <2> DEFINE g == [s \in SUBSET (1..0) |-> base]
  <2>1. g \in [SUBSET (1..0) -> S] /\ \A s \in SUBSET (1..0) : s = {} /\ g[s] = base
    OBVIOUS
  <2> HIDE DEF g
  <2>2. Has(0)
    BY <2>1
  <2> HIDE DEF Has
  <2>3. QED  BY <2>2
<1>2. ASSUME NEW k \in 1..n, k - 1 \in Good PROVE k \in Good
  <2>1. PICK g \in [SUBSET (1..(k - 1)) -> S] : \A s \in SUBSET (1..(k - 1)) : Steps(g, s)
    BY <1>2
  <2> DEFINE G == [s \in SUBSET (1..k) |-> IF k \in s THEN step[k][g[s \ {k}]] ELSE g[s]]
  <2>2. \A s \in SUBSET (1..k) : s \ {k} \in SUBSET (1..(k - 1)) /\ (k \notin s => s \in SUBSET (1..(k - 1)))
    OBVIOUS
  <2>3. G \in [SUBSET (1..k) -> S]
    BY <2>2
  <2>4. ASSUME NEW s \in SUBSET (1..k) PROVE Steps(G, s)
    <3>1. CASE k \in s
      <4>1. Max(s) = k
        <5>1. Max(s) \in s /\ Max(s) >= k
          <6>1. k \in Nat /\ s # {}
            BY <3>1
          <6> HIDE DEF G
          <6>2. QED  BY <3>1, <6>1, MaxIn
        <5>2. Max(s) \in 1..k
          BY <5>1
        <5> HIDE DEF G
        <5>3. QED  BY <5>1, <5>2
      <4>2. G[s] = step[k][g[s \ {k}]]
        BY <3>1
      <4>3. s \ {k} \in SUBSET (1..k) /\ G[s \ {k}] = g[s \ {k}]
        OBVIOUS
      <4> HIDE DEF G
      <4>4. QED  BY <3>1, <4>1, <4>2, <4>3
    <3>2. CASE k \notin s
      <4>1. G[s] = g[s] /\ Steps(g, s)
        BY <2>1, <2>2, <3>2
      <4>2. CASE s = {}
        <5> HIDE DEF G
        <5>1. QED  BY <4>1, <4>2
      <4>3. CASE s # {}
        <5>1. s \ {Max(s)} \in SUBSET (1..k) /\ k \notin s \ {Max(s)}
          BY <3>2
        <5>2. G[s \ {Max(s)}] = g[s \ {Max(s)}]
          BY <5>1
        <5> HIDE DEF G
        <5>3. QED  BY <4>1, <4>3, <5>2
      <4>4. QED  BY <4>2, <4>3
    <3>3. QED  BY <3>1, <3>2
  <2> HIDE DEF G
  <2>5. Has(k)
    <3> HIDE DEF Steps
    <3>1. QED  BY <2>3, <2>4
  <2> HIDE DEF Has
  <2>6. QED  BY <2>5
<1>3. n \in Good
  <2> HIDE DEF Good
  <2>1. \A k \in 0..n : k \in Good
    BY <1>1, <1>2, AllTheWay
  <2>2. QED  BY <2>1
<1>4. QED  BY <1>3 DEF Folding

\* What is left of a list: each step adds what is in the set.
OnlyLoop(h, list, set) ==
  /\ h[0] = <<>> /\ Only(list, set) = h[Len(list)]
  /\ \A k \in 1..Len(list) : h[k] = IF list[k] \in set THEN Append(h[k - 1], list[k]) ELSE h[k - 1]

LEMMA OnlySteps ==
  ASSUME NEW P, NEW list \in Seq(P), NEW set
  PROVE  \E h \in [0..Len(list) -> Seq(P)] : OnlyLoop(h, list, set)
<1> DEFINE n == Len(list)
           Eq(g) == g = [s \in SUBSET (1..n) |->
             IF s = {} THEN <<>>
             ELSE IF list[Max(s)] \in set THEN Append(g[s \ {Max(s)}], list[Max(s)]) ELSE g[s \ {Max(s)}]]
           step == [k \in 1..n |-> [l \in Seq(P) |-> IF list[k] \in set THEN Append(l, list[k]) ELSE l]]
           it == CHOOSE g : Eq(g)
<1>1. n \in Nat /\ DOMAIN list = 1..n /\ step \in [1..n -> [Seq(P) -> Seq(P)]] /\ <<>> \in Seq(P)
  OBVIOUS
<1>2. PICK g \in [SUBSET (1..n) -> Seq(P)] : Folding(g, <<>>, step, n)
  <2> DEFINE T == Seq(P)
             base == <<>>
  <2>1. n \in Nat /\ base \in T /\ step \in [1..n -> [T -> T]]
    BY <1>1
  <2> HIDE DEF n, step, T, base
  <2>2. \E g \in [SUBSET (1..n) -> T] : Folding(g, base, step, n)
    BY <2>1, FoldExists
  <2>3. QED  BY <2>2 DEF T, base
<1>3. Eq(g)
  <2>1. ASSUME NEW s \in SUBSET (1..n)
        PROVE  g[s] = IF s = {} THEN <<>>
                 ELSE IF list[Max(s)] \in set THEN Append(g[s \ {Max(s)}], list[Max(s)]) ELSE g[s \ {Max(s)}]
    <3>1. CASE s = {}
      BY <1>2, <3>1 DEF Folding
    <3>2. CASE s # {}
      <4>1. Max(s) \in 1..n /\ g[s \ {Max(s)}] \in Seq(P)
        <5>1. Max(s) \in s
          BY <1>1, <3>2, MaxIn
        <5>2. QED  BY <5>1
      <4>2. g[s] = step[Max(s)][g[s \ {Max(s)}]]
        BY <1>2, <3>2 DEF Folding
      <4>3. QED  BY <3>2, <4>1, <4>2
    <3>3. QED  BY <3>1, <3>2
  <2>2. QED  BY <2>1
<1>4. Eq(it)
  <2> HIDE DEF Eq
  <2>1. QED  BY <1>3
<1>5. Only(list, set) = it[1..n]
  BY <1>1 DEF Only, FoldLeft, MapThenFoldSet
<1> HIDE DEF it
<1> DEFINE h == [k \in 0..n |-> it[1..k]]
<1>6. h[0] = <<>> /\ h[n] = it[1..n]
  BY <1>1, <1>4
<1>7. ASSUME NEW k \in 1..n
      PROVE  h[k] = IF list[k] \in set THEN Append(h[k - 1], list[k]) ELSE h[k - 1]
  <2>1. 1..k \in SUBSET (1..n) /\ k \in 1..k /\ (1..k) \ {k} = 1..(k - 1)
    BY <1>1
  <2>2. Max(1..k) = k
    <3>1. Max(1..k) \in 1..k /\ Max(1..k) >= k
      BY <1>1, <2>1, MaxIn
    <3>2. QED  BY <3>1
  <2>3. it[1..k] = IF list[k] \in set THEN Append(it[1..(k - 1)], list[k]) ELSE it[1..(k - 1)]
    BY <1>4, <2>1, <2>2
  <2>4. QED  BY <2>3
<1>8. h \in [0..n -> Seq(P)]
  <2> DEFINE Good == {k \in 0..n : h[k] \in Seq(P)}
  <2>1. 0 \in Good
    <3> HIDE DEF h
    <3>1. h[0] \in Seq(P)
      BY <1>1, <1>6
    <3>2. QED  BY <1>1, <3>1
  <2>2. ASSUME NEW k \in 1..n, k - 1 \in Good PROVE k \in Good
    <3>1. list[k] \in P
      BY <1>1
    <3>2. h[k - 1] \in Seq(P)
      BY <2>2
    <3>3. h[k] \in Seq(P)
      <4> HIDE DEF h
      <4>1. Append(h[k - 1], list[k]) \in Seq(P)
        BY <3>1, <3>2, AppendProperties
      <4>2. QED  BY <1>7, <3>2, <4>1
    <3> HIDE DEF h
    <3>4. QED  BY <1>1, <3>3
  <2>3. \A k \in 0..n : k \in Good
    <3> HIDE DEF Good
    <3>1. QED  BY <1>1, <2>1, <2>2, AllTheWay
  <2>4. QED  BY <2>3
<1> HIDE DEF h
<1>9. QED  BY <1>5, <1>6, <1>7, <1>8 DEF OnlyLoop

\* pos are the positions, among the first n of the list, of what is in the set.
Picks(pos, part, list, n, set) ==
  /\ pos \in [1..Len(part) -> 1..n]
  /\ \A i, j \in 1..Len(part) : i < j => pos[i] < pos[j]
  /\ \A k \in 1..Len(part) : part[k] = list[pos[k]] /\ list[pos[k]] \in set
  /\ \A i \in 1..n : list[i] \in set => \E k \in 1..Len(part) : pos[k] = i

LEMMA OnlyPicks ==
  ASSUME NEW P, NEW list \in Seq(P), NEW set
  PROVE  Only(list, set) \in Seq(P) /\ \E pos : Picks(pos, Only(list, set), list, Len(list), set)
<1> DEFINE n == Len(list)
<1>1. PICK h \in [0..n -> Seq(P)] : OnlyLoop(h, list, set)
  BY OnlySteps
<1>2. /\ h[0] = <<>> /\ Only(list, set) = h[n]
      /\ \A k \in 1..n : h[k] = IF list[k] \in set THEN Append(h[k - 1], list[k]) ELSE h[k - 1]
  BY <1>1 DEF OnlyLoop
<1>3. n \in Nat
  OBVIOUS
<1> DEFINE Has(k) == \E pos : Picks(pos, h[k], list, k, set)
           Good == {k \in 0..n : Has(k)}
<1>4. 0 \in Good
  <2> DEFINE pos == [i \in 1..0 |-> i]
  <2>1. Picks(pos, <<>>, list, 0, set)
    <3>1. Len(<<>>) = 0 /\ 1..0 = {}
      OBVIOUS
    <3>2. QED  BY <3>1 DEF Picks
  <2> HIDE DEF pos
  <2>2. Has(0)
    BY <1>2, <2>1
  <2> HIDE DEF Has
  <2>3. QED  BY <1>3, <2>2
<1>5. ASSUME NEW k \in 1..n, k - 1 \in Good PROVE k \in Good
  <2>1. PICK pos : Picks(pos, h[k - 1], list, k - 1, set)
    BY <1>5
  <2>2. h[k - 1] \in Seq(P) /\ k - 1 \in Nat
    BY <1>2, <1>3
  <2> DEFINE part == h[k - 1]
             m == Len(part)
  <2>3. m \in Nat
    BY <2>2
  <2>4. CASE list[k] \in set
    <3> DEFINE new == [i \in 1..(m + 1) |-> IF i = m + 1 THEN k ELSE pos[i]]
               more == Append(part, list[k])
    <3>1. h[k] = more
      BY <1>2, <2>4
    <3>2. Len(more) = m + 1 /\ more[m + 1] = list[k] /\ \A i \in 1..m : more[i] = part[i]
      BY <2>2
    <3>3. /\ pos \in [1..m -> 1..(k - 1)]
          /\ \A i, j \in 1..m : i < j => pos[i] < pos[j]
          /\ \A i \in 1..m : part[i] = list[pos[i]] /\ list[pos[i]] \in set
          /\ \A i \in 1..(k - 1) : list[i] \in set => \E l \in 1..m : pos[l] = i
      BY <2>1 DEF Picks
    <3> HIDE DEF more, m
    <3>4. new \in [1..(m + 1) -> 1..k]
      BY <2>3, <3>3
    <3>5. \A i, j \in 1..(m + 1) : i < j => new[i] < new[j]
      BY <2>3, <3>3
    <3>6. \A i \in 1..(m + 1) : more[i] = list[new[i]] /\ list[new[i]] \in set
      BY <2>3, <2>4, <3>2, <3>3
    <3>7. \A i \in 1..k : list[i] \in set => \E l \in 1..(m + 1) : new[l] = i
      <4> SUFFICES ASSUME NEW i \in 1..k, list[i] \in set PROVE \E l \in 1..(m + 1) : new[l] = i
        OBVIOUS
      <4>1. CASE i = k
        <5>1. m + 1 \in 1..(m + 1) /\ new[m + 1] = k
          BY <2>3
        <5>2. QED  BY <4>1, <5>1
      <4>2. CASE i # k
        <5>1. PICK l \in 1..m : pos[l] = i
          BY <3>3, <4>2
        <5>2. l \in 1..(m + 1) /\ new[l] = i
          BY <2>3, <5>1
        <5>3. QED  BY <5>2
      <4>3. QED  BY <4>1, <4>2
    <3> HIDE DEF new
    <3>8. Picks(new, more, list, k, set)
      BY <3>2, <3>4, <3>5, <3>6, <3>7 DEF Picks
    <3>9. Has(k)
      BY <3>1, <3>8
    <3> HIDE DEF Has
    <3>10. QED  BY <1>3, <3>9
  <2>5. CASE list[k] \notin set
    <3>1. h[k] = part
      BY <1>2, <2>5
    <3>2. Picks(pos, part, list, k, set)
      BY <2>1, <2>5 DEF Picks
    <3>3. Has(k)
      BY <3>1, <3>2
    <3> HIDE DEF Has
    <3>4. QED  BY <1>3, <3>3
  <2>6. QED  BY <2>4, <2>5
<1>6. Has(n)
  <2> HIDE DEF Good
  <2>1. \A k \in 0..n : k \in Good
    BY <1>3, <1>4, <1>5, AllTheWay
  <2>2. QED  BY <1>3, <2>1 DEF Good
<1>7. QED  BY <1>2, <1>3, <1>6

\* What is left of a list is what is in the set, as often and in the same order.
SameOrder(part, list, set) ==
  \A i, j \in DOMAIN list : i < j /\ list[i] \in set /\ list[j] \in set =>
    \E k, l \in DOMAIN part : k < l /\ part[k] = list[i] /\ part[l] = list[j]

LEMMA OnlyFacts ==
  ASSUME NEW P, NEW list \in Seq(P), NEW set
  PROVE  /\ Only(list, set) \in Seq(P)
         /\ ToSet(Only(list, set)) = ToSet(list) \cap set
         /\ Len(Only(list, set)) <= Len(list)
         /\ IsInjective(list) => IsInjective(Only(list, set))
         /\ SameOrder(Only(list, set), list, set)
<1> DEFINE part == Only(list, set)
           m == Len(part)
           n == Len(list)
<1>1. part \in Seq(P) /\ \E pos : Picks(pos, part, list, n, set)
  BY OnlyPicks
<1>2. PICK pos : Picks(pos, part, list, n, set)
  BY <1>1
<1>3. /\ pos \in [1..m -> 1..n]
      /\ \A i, j \in 1..m : i < j => pos[i] < pos[j]
      /\ \A k \in 1..m : part[k] = list[pos[k]] /\ list[pos[k]] \in set
      /\ \A i \in 1..n : list[i] \in set => \E k \in 1..m : pos[k] = i
  BY <1>2 DEF Picks
<1>4. m \in Nat /\ n \in Nat /\ DOMAIN part = 1..m /\ DOMAIN list = 1..n
  BY <1>1
<1> HIDE DEF part, m, n
<1>5. ToSet(part) = ToSet(list) \cap set
  <2>1. ASSUME NEW x \in ToSet(part) PROVE x \in ToSet(list) \cap set
    BY <1>3, <1>4, <2>1 DEF ToSet
  <2>2. ASSUME NEW x \in ToSet(list) \cap set PROVE x \in ToSet(part)
    <3>1. PICK i \in 1..n : list[i] = x
      BY <1>4, <2>2 DEF ToSet
    <3>2. PICK k \in 1..m : pos[k] = i
      BY <1>3, <2>2, <3>1
    <3>3. QED  BY <1>3, <1>4, <3>1, <3>2 DEF ToSet
  <2>3. QED  BY <2>1, <2>2
<1>6. \A i, j \in 1..m : pos[i] = pos[j] => i = j
  BY <1>3, <1>4
<1>7. m <= n
  <2>1. IsFiniteSet(1..n) /\ Cardinality(1..n) = n
    BY <1>4, FS_Interval
  <2>2. IsFiniteSet(1..m) /\ Cardinality(1..m) = m
    BY <1>4, FS_Interval
  <2>3. pos \in Injection(1..m, 1..n)
    BY <1>3, <1>6 DEF Injection, IsInjective
  <2>4. QED  BY <2>1, <2>2, <2>3, FS_Injection
<1>8. IsInjective(list) => IsInjective(part)
  BY <1>3, <1>4, <1>6 DEF IsInjective
<1>9. ASSUME NEW i \in 1..n, NEW j \in 1..n, i < j, list[i] \in set, list[j] \in set
      PROVE  \E k, l \in 1..m : k < l /\ part[k] = list[i] /\ part[l] = list[j]
  <2>1. PICK k \in 1..m : pos[k] = i
    BY <1>3, <1>9
  <2>2. PICK l \in 1..m : pos[l] = j
    BY <1>3, <1>9
  <2>3. k < l
    <3>1. l < k => pos[l] < pos[k]
      BY <1>3
    <3>2. k # l
      BY <1>9, <2>1, <2>2
    <3>3. QED  BY <1>4, <1>9, <2>1, <2>2, <3>1, <3>2
  <2>4. QED  BY <1>3, <2>1, <2>2, <2>3
<1>10. SameOrder(part, list, set)
  BY <1>4, <1>9 DEF SameOrder
<1>11. QED  BY <1>1, <1>4, <1>5, <1>7, <1>8, <1>10 DEF part, m, n

\* A list without repetitions is as long as it has elements.
LEMMA InjectiveLength ==
  ASSUME NEW P, NEW list \in Seq(P), IsInjective(list)
  PROVE  IsFiniteSet(ToSet(list)) /\ Cardinality(ToSet(list)) = Len(list)
<1> DEFINE n == Len(list)
<1>1. n \in Nat /\ DOMAIN list = 1..n
  OBVIOUS
<1>2. IsFiniteSet(1..n) /\ Cardinality(1..n) = n
  BY <1>1, FS_Interval
<1>3. list \in Bijection(1..n, ToSet(list))
  BY <1>1 DEF Bijection, Injection, Surjection, IsInjective, ToSet
<1>4. QED  BY <1>2, <1>3, FS_Bijection DEF ExistsBijection

LEMMA FiniteToSet ==
  ASSUME NEW P, NEW list \in Seq(P)
  PROVE  IsFiniteSet(ToSet(list))
<1> DEFINE n == Len(list)
           T == ToSet(list)
<1>1. n \in Nat /\ DOMAIN list = 1..n /\ list \in [1..n -> T] /\ \A x \in T : \E i \in 1..n : list[i] = x
  BY DEF ToSet
<1>2. IsFiniteSet(1..n)
  <2>1. n \in Int
    OBVIOUS
  <2> HIDE DEF n
  <2>2. QED  BY <2>1, FS_Interval
<1> HIDE DEF n, T
<1>3. list \in Surjection(1..n, T)
  BY <1>1 DEF Surjection
<1>4. QED  BY <1>2, <1>3, FS_Surjection DEF T

LEMMA MinOfTwo ==
  ASSUME NEW a \in Int, NEW b \in Int
  PROVE  Min({a, b}) = IF a <= b THEN a ELSE b
<1>1. \E x \in {a, b} : \A y \in {a, b} : x =< y
  OBVIOUS
<1>2. Min({a, b}) \in {a, b} /\ Min({a, b}) <= a /\ Min({a, b}) <= b
  BY <1>1 DEF Min
<1>3. QED  BY <1>2

-----------------------------------------------------------------------------
(* Product pages *)

\* Where a product is first in a list.
FirstIn(list, p) == CHOOSE i \in DOMAIN list : list[i] = p /\ \A j \in 1..(i - 1) : list[j] # p

LEMMA FirstInFacts ==
  ASSUME NEW P, NEW list \in Seq(P), NEW p \in ToSet(list)
  PROVE  /\ FirstIn(list, p) \in 1..Len(list)
         /\ list[FirstIn(list, p)] = p
         /\ \A j \in 1..(FirstIn(list, p) - 1) : list[j] # p
         /\ \A i \in 1..Len(list) :
              list[i] = p /\ (\A j \in 1..(i - 1) : list[j] # p) => i = FirstIn(list, p)
<1> DEFINE n == Len(list)
           Fits(i) == list[i] = p /\ \A j \in 1..(i - 1) : list[j] # p
           Good == {k \in 0..n : (\E i \in 1..k : list[i] = p) => \E i \in 1..k : Fits(i)}
<1>1. n \in Nat /\ DOMAIN list = 1..n
  OBVIOUS
<1>2. 0 \in Good
  <2>1. 1..0 = {}
    OBVIOUS
  <2>2. QED  BY <1>1, <2>1
<1>3. ASSUME NEW k \in 1..n, k - 1 \in Good PROVE k \in Good
  <2> SUFFICES ASSUME \E i \in 1..k : list[i] = p PROVE \E i \in 1..k : Fits(i)
    BY <1>1
  <2>1. CASE \E i \in 1..(k - 1) : list[i] = p
    BY <1>3, <2>1
  <2>2. CASE \A i \in 1..(k - 1) : list[i] # p
    <3>1. Fits(k) /\ k \in 1..k
      BY <2>2
    <3> HIDE DEF Fits
    <3>2. QED  BY <3>1
  <2>3. QED  BY <2>1, <2>2
<1>4. \E i \in 1..n : Fits(i)
  <2>1. n \in Good
    <3> HIDE DEF Good
    <3>1. \A k \in 0..n : k \in Good
      BY <1>1, <1>2, <1>3, AllTheWay
    <3>2. QED  BY <1>1, <3>1
  <2>2. \E i \in 1..n : list[i] = p
    BY <1>1 DEF ToSet
  <2>3. QED  BY <2>1, <2>2
<1>5. \A i, j \in 1..n : Fits(i) /\ Fits(j) => i = j
  <2> SUFFICES ASSUME NEW i \in 1..n, NEW j \in 1..n, Fits(i), Fits(j) PROVE i = j
    OBVIOUS
  <2>1. ~ i < j
    BY <1>1
  <2>2. ~ j < i
    BY <1>1
  <2>3. QED  BY <1>1, <2>1, <2>2
<1>6. FirstIn(list, p) \in 1..n /\ Fits(FirstIn(list, p))
  <2>1. \E i \in DOMAIN list : list[i] = p /\ \A j \in 1..(i - 1) : list[j] # p
    BY <1>1, <1>4
  <2>2. FirstIn(list, p) \in DOMAIN list /\ Fits(FirstIn(list, p))
    BY <2>1 DEF FirstIn
  <2>3. QED  BY <1>1, <2>2
<1>7. QED  BY <1>5, <1>6

\* A list of products seen, as of the products visited.
SeenWell(list, all) ==
  /\ list \in Seq(Shown) /\ IsInjective(list)
  /\ Len(list) <= MaxSeen /\ ToSet(list) \subseteq ToSet(all)

\* The list has all that were visited, or no room for more, and its products
\* are those of the last visits in their order.
Latest(list, all) ==
  /\ Len(list) < MaxSeen => ToSet(all) \subseteq ToSet(list)
  /\ \A p \in ToSet(list), o \in ToSet(all) :
       FirstIn(all, o) < FirstIn(all, p) => \E i, j \in DOMAIN list : i < j /\ list[i] = o /\ list[j] = p

LEMMA VisitAdded ==
  ASSUME NEW all \in Seq(Shown), NEW p \in Shown
  PROVE  /\ <<p>> \o all \in Seq(Shown) /\ ToSet(<<p>> \o all) = ToSet(all) \cup {p}
         /\ (<<p>> \o all)[1] = p /\ <<p>> \o all # <<>>
         /\ FirstIn(<<p>> \o all, p) = 1
         /\ \A o \in ToSet(all) \ {p} : FirstIn(<<p>> \o all, o) = FirstIn(all, o) + 1
<1> DEFINE new == <<p>> \o all
           n == Len(all)
<1>1. /\ n \in Nat /\ DOMAIN all = 1..n
      /\ new \in Seq(Shown) /\ Len(new) = n + 1 /\ DOMAIN new = 1..(n + 1)
      /\ new[1] = p /\ \A i \in 1..n : new[i + 1] = all[i]
  OBVIOUS
<1> HIDE DEF new
<1>2. ToSet(new) = ToSet(all) \cup {p}
  <2>1. ASSUME NEW i \in 1..(n + 1) PROVE new[i] \in ToSet(all) \cup {p}
    <3>1. CASE i = 1
      BY <1>1, <3>1
    <3>2. CASE i # 1
      <4>1. i - 1 \in 1..n /\ new[(i - 1) + 1] = all[i - 1]
        BY <1>1, <3>2
      <4>2. QED  BY <1>1, <4>1 DEF ToSet
    <3>3. QED  BY <3>1, <3>2
  <2>2. ASSUME NEW i \in 1..n PROVE all[i] \in ToSet(new)
    <3>1. i + 1 \in 1..(n + 1) /\ new[i + 1] = all[i]
      BY <1>1
    <3>2. QED  BY <1>1, <3>1 DEF ToSet
  <2>3. p \in ToSet(new)
    BY <1>1 DEF ToSet
  <2>4. QED  BY <1>1, <2>1, <2>2, <2>3 DEF ToSet
<1>3. FirstIn(new, p) = 1
  <2>1. p \in ToSet(new) /\ 1 \in 1..Len(new) /\ \A j \in 1..(1 - 1) : new[j] # p
    BY <1>1, <1>2
  <2>2. QED  BY <1>1, <2>1, FirstInFacts
<1>4. ASSUME NEW o \in ToSet(all) \ {p} PROVE FirstIn(new, o) = FirstIn(all, o) + 1
  <2> DEFINE i == FirstIn(all, o)
  <2>1. i \in 1..n /\ all[i] = o /\ \A j \in 1..(i - 1) : all[j] # o
    BY FirstInFacts
  <2> HIDE DEF i
  <2>2. i + 1 \in 1..Len(new) /\ new[i + 1] = o
    BY <1>1, <2>1
  <2>3. ASSUME NEW j \in 1..((i + 1) - 1) PROVE new[j] # o
    <3>1. CASE j = 1
      BY <1>1, <3>1
    <3>2. CASE j # 1
      <4>1. j - 1 \in 1..(i - 1) /\ j - 1 \in 1..n /\ new[(j - 1) + 1] = all[j - 1] /\ (j - 1) + 1 = j
        BY <1>1, <2>1, <3>2
      <4>2. QED  BY <2>1, <4>1
    <3>3. QED  BY <3>1, <3>2
  <2>4. o \in ToSet(new)
    BY <1>2
  <2>5. i + 1 = FirstIn(new, o)
    BY <1>1, <2>2, <2>3, <2>4, FirstInFacts
  <2>6. QED  BY <2>5 DEF i
<1>5. QED  BY <1>1, <1>2, <1>3, <1>4 DEF new

LEMMA KeptIsOnly ==
  ASSUME NEW list, NEW set
  PROVE  Kept(list, set) = Only(list, set)
BY DEF Kept, Only, FoldLeft, MapThenFoldSet

\* The list that is recorded: the product, and what else was there while there
\* is room.
LEMMA RecordedIs ==
  ASSUME NEW list \in Seq(Shown), NEW p \in Shown, MaxSeen \in Nat \ {0}
  PROVE  LET rest == Only(list, Shown \ {p})
             new  == Recorded(list, p)
         IN  /\ rest \in Seq(Shown) /\ new \in Seq(Shown)
             /\ Len(new) = Min({Len(rest) + 1, MaxSeen})
             /\ Len(new) = IF Len(rest) + 1 <= MaxSeen THEN Len(rest) + 1 ELSE MaxSeen
             /\ new[1] = p /\ new # <<>>
             /\ \A k \in 1..(Len(new) - 1) : new[k + 1] = rest[k] /\ k \in 1..Len(rest)
<1> DEFINE rest == Only(list, Shown \ {p})
           full == <<p>> \o rest
           m == Min({Len(full), MaxSeen})
           new == SubSeq(full, 1, m)
<1>1. rest \in Seq(Shown)
  BY OnlyFacts
<1>2. Recorded(list, p) = new
  BY KeptIsOnly DEF Recorded
<1> HIDE DEF rest
<1>3. /\ full \in Seq(Shown) /\ Len(full) = Len(rest) + 1 /\ Len(rest) \in Nat
      /\ full[1] = p /\ \A i \in 1..Len(rest) : full[i + 1] = rest[i]
  BY <1>1
<1> HIDE DEF full
<1>4. m = IF Len(full) <= MaxSeen THEN Len(full) ELSE MaxSeen
  BY <1>3, MinOfTwo
<1>5. m \in 1..Len(full) /\ m \in Nat
  BY <1>3, <1>4
<1> HIDE DEF m
<1>6. new \in Seq(Shown) /\ Len(new) = m /\ \A i \in 1..m : new[i] = full[i]
  BY <1>3, <1>5
<1> HIDE DEF new
<1>7. new[1] = p /\ new # <<>>
  BY <1>3, <1>5, <1>6
<1>8. ASSUME NEW k \in 1..(Len(new) - 1) PROVE new[k + 1] = rest[k] /\ k \in 1..Len(rest)
  BY <1>3, <1>5, <1>6
<1>9. QED  BY <1>1, <1>2, <1>3, <1>4, <1>6, <1>7, <1>8 DEF rest, m

LEMMA RecordedWell ==
  ASSUME NEW all \in Seq(Shown), NEW list, SeenWell(list, all), NEW p \in Shown, MaxSeen \in Nat \ {0}
  PROVE  /\ SeenWell(Recorded(list, p), <<p>> \o all)
         /\ Recorded(list, p) # <<>> /\ Recorded(list, p)[1] = p
         /\ Latest(list, all) => Latest(Recorded(list, p), <<p>> \o all)
<1> DEFINE rest == Only(list, Shown \ {p})
           new == Recorded(list, p)
           seq == <<p>> \o all
           l == Len(rest)
           m == Len(new)
<1>1. list \in Seq(Shown) /\ IsInjective(list) /\ Len(list) <= MaxSeen /\ ToSet(list) \subseteq ToSet(all)
  BY DEF SeenWell
<1>2. /\ rest \in Seq(Shown) /\ IsInjective(rest)
      /\ ToSet(rest) = ToSet(list) \cap (Shown \ {p})
      /\ SameOrder(rest, list, Shown \ {p})
  BY <1>1, OnlyFacts
<1>3. /\ new \in Seq(Shown)
      /\ m = IF l + 1 <= MaxSeen THEN l + 1 ELSE MaxSeen
      /\ new[1] = p /\ new # <<>>
      /\ \A k \in 1..(m - 1) : new[k + 1] = rest[k] /\ k \in 1..l
  BY <1>1, RecordedIs
<1>4. ToSet(seq) = ToSet(all) \cup {p} /\ FirstIn(seq, p) = 1
      /\ \A o \in ToSet(all) \ {p} : FirstIn(seq, o) = FirstIn(all, o) + 1
  BY VisitAdded
<1>5. l \in Nat /\ DOMAIN rest = 1..l /\ m \in Nat \ {0} /\ DOMAIN new = 1..m
  BY <1>2, <1>3
<1>6. \A k \in 1..l : rest[k] \in ToSet(list) /\ rest[k] # p
  <2>1. \A k \in 1..l : rest[k] \in ToSet(rest)
    BY <1>5 DEF ToSet
  <2>2. QED  BY <1>2, <2>1
<1> HIDE DEF rest, new, seq, l, m
<1>7. \A k \in 1..m : k # 1 => k - 1 \in 1..l /\ new[k] = rest[k - 1]
  <2> SUFFICES ASSUME NEW k \in 1..m, k # 1 PROVE k - 1 \in 1..l /\ new[k] = rest[k - 1]
    OBVIOUS
  <2>1. k - 1 \in 1..(m - 1) /\ (k - 1) + 1 = k
    BY <1>5
  <2>2. QED  BY <1>3, <2>1
<1>8. IsInjective(new)
  <2> SUFFICES ASSUME NEW i \in 1..m, NEW j \in 1..m, new[i] = new[j] PROVE i = j
    BY <1>5 DEF IsInjective
  <2>1. CASE i = 1 \/ j = 1
    BY <1>3, <1>6, <1>7, <2>1
  <2>2. CASE i # 1 /\ j # 1
    <3>1. i - 1 \in DOMAIN rest /\ j - 1 \in DOMAIN rest /\ rest[i - 1] = rest[j - 1]
      BY <1>5, <1>7, <2>2
    <3>2. i - 1 = j - 1
      BY <1>2, <3>1 DEF IsInjective
    <3>3. QED  BY <1>5, <3>2
  <2>3. QED  BY <2>1, <2>2
<1>9. ToSet(new) \subseteq ToSet(list) \cup {p}
  <2> SUFFICES ASSUME NEW i \in 1..m PROVE new[i] \in ToSet(list) \cup {p}
    BY <1>5 DEF ToSet
  <2>1. QED  BY <1>3, <1>6, <1>7
<1>10. SeenWell(new, seq)
  BY <1>1, <1>3, <1>4, <1>5, <1>8, <1>9 DEF SeenWell
<1>11. ASSUME Latest(list, all) PROVE Latest(new, seq)
  <2>1. ASSUME m < MaxSeen PROVE ToSet(seq) \subseteq ToSet(new)
    <3>1. m = l + 1 /\ l + 1 < MaxSeen
      BY <1>3, <1>5, <2>1
    <3>2. Cardinality(ToSet(list)) = Len(list) /\ IsFiniteSet(ToSet(list))
      BY <1>1, InjectiveLength
    <3>3. Cardinality(ToSet(rest)) = l
      BY <1>2, InjectiveLength DEF l
    <3>4. ToSet(rest) = ToSet(list) \ {p}
      <4>1. ToSet(list) \subseteq Shown
        BY <1>1 DEF ToSet
      <4>2. QED  BY <1>2, <4>1
    <3>5. Len(list) <= l + 1
      <4>1. Len(list) \in Nat
        BY <1>1
      <4>2. CASE p \in ToSet(list)
        <5>1. Cardinality(ToSet(list) \ {p}) = Cardinality(ToSet(list)) - 1
          BY <3>2, <4>2, FS_RemoveElement
        <5>2. l = Cardinality(ToSet(list) \ {p})
          BY <3>3, <3>4
        <5>3. QED  BY <1>5, <3>2, <4>1, <5>1, <5>2
      <4>3. CASE p \notin ToSet(list)
        <5>1. ToSet(list) \ {p} = ToSet(list)
          BY <4>3
        <5>2. l = Len(list)
          BY <3>2, <3>3, <3>4, <5>1, Zenon
        <5>3. QED  BY <4>1, <5>2
      <4>4. QED  BY <4>2, <4>3
    <3>6. ToSet(all) \subseteq ToSet(list)
      <4>1. Len(list) \in Nat /\ MaxSeen \in Nat
        BY <1>1
      <4>2. Len(list) < MaxSeen
        BY <1>5, <3>1, <3>5, <4>1
      <4>3. QED  BY <1>11, <4>2 DEF Latest
    <3>7. ASSUME NEW k \in 1..l PROVE rest[k] \in ToSet(new)
      <4>1. k \in 1..(m - 1) /\ k + 1 \in 1..m
        BY <1>5, <3>1
      <4>2. new[k + 1] = rest[k]
        BY <1>3, <4>1
      <4>3. QED  BY <1>5, <4>1, <4>2 DEF ToSet
    <3>8. p \in ToSet(new)
      <4>1. 1 \in 1..m
        BY <1>5
      <4>2. QED  BY <1>3, <1>5, <4>1 DEF ToSet
    <3>9. ToSet(rest) \subseteq ToSet(new)
      BY <1>5, <3>7 DEF ToSet
    <3>10. QED  BY <1>4, <3>4, <3>6, <3>8, <3>9
  <2>2. ASSUME NEW x \in ToSet(new), NEW o \in ToSet(seq), FirstIn(seq, o) < FirstIn(seq, x)
        PROVE  \E i, j \in DOMAIN new : i < j /\ new[i] = o /\ new[j] = x
    <3>1. PICK b \in 1..m : new[b] = x
      BY <1>5 DEF ToSet
    <3>2. x # p
      <4> SUFFICES ASSUME x = p PROVE FALSE
        OBVIOUS
      <4>1. FirstIn(seq, o) < 1
        BY <1>4, <2>2
      <4>2. seq \in Seq(Shown)
        BY VisitAdded DEF seq
      <4>3. FirstIn(seq, o) \in 1..Len(seq)
        BY <4>2, FirstInFacts
      <4>4. QED  BY <4>1, <4>3
    <3>3. b # 1 /\ b - 1 \in 1..l /\ rest[b - 1] = x
      BY <1>3, <1>7, <3>1, <3>2
    <3>4. CASE o = p
      <4>1. 1 \in 1..m /\ 1 < b
        BY <1>5, <3>1, <3>3
      <4>2. QED  BY <1>3, <1>5, <3>1, <3>4, <4>1
    <3>5. CASE o # p
      <4>1. x \in ToSet(list) /\ o \in ToSet(all)
        BY <1>4, <1>6, <3>3, <3>5
      <4>2. FirstIn(all, o) < FirstIn(all, x)
        <5>1. x \in ToSet(all)
          BY <1>1, <4>1
        <5>2. FirstIn(all, o) \in 1..Len(all) /\ FirstIn(all, x) \in 1..Len(all)
          BY <4>1, <5>1, FirstInFacts
        <5>3. FirstIn(seq, o) = FirstIn(all, o) + 1 /\ FirstIn(seq, x) = FirstIn(all, x) + 1
          BY <1>4, <3>2, <3>5, <4>1, <5>1
        <5>4. QED  BY <2>2, <5>2, <5>3
      <4>3. PICK i \in DOMAIN list, j \in DOMAIN list : i < j /\ list[i] = o /\ list[j] = x
        BY <1>11, <4>1, <4>2 DEF Latest
      <4>4. list[i] \in Shown \ {p} /\ list[j] \in Shown \ {p}
        BY <1>1, <3>2, <3>5, <4>3
      <4>5. PICK k \in 1..l, h \in 1..l : k < h /\ rest[k] = o /\ rest[h] = x
        BY <1>2, <1>5, <4>3, <4>4 DEF SameOrder
      <4>6. h = b - 1
        BY <1>2, <1>5, <3>3, <4>5 DEF IsInjective
      <4>7. k \in 1..(m - 1) /\ k + 1 \in 1..m /\ k + 1 < b
        BY <1>5, <3>1, <4>5, <4>6
      <4>8. new[k + 1] = o
        BY <1>3, <4>5, <4>7
      <4>9. QED  BY <1>5, <3>1, <4>7, <4>8
    <3>6. QED  BY <3>4, <3>5
  <2>3. QED  BY <2>1, <2>2 DEF Latest, m
<1>12. QED  BY <1>3, <1>10, <1>11 DEF new, seq

PageJob == [do : {"session", "strip", "respond"}, on : Shown, row : Seq(Shown), old : {FALSE}]
Loaded(c) == Does(c, "strip") \/ Does(c, "respond")

\* Every page that runs has loaded a list that is well, and if no page loaded
\* the session while another had it, that page is the only one, it has the
\* session's list, and that list is the latest.
PagesInv ==
  /\ StorefrontTypeOK
  /\ calls \in [Call -> PageJob \cup {Idle}]
  /\ SeenWell(seen, visited)
  /\ visited # <<>> => seen # <<>> /\ seen[1] = visited[1]
  /\ \A c \in Call : calls[c] # Idle => SeenWell(calls[c].row, visited)
  /\ ~raced =>
       /\ \A c \in Call : Loaded(c) => calls[c].row = seen
       /\ \A c, d \in Call : Loaded(c) /\ Loaded(d) => c = d
       /\ Latest(seen, visited)
  /\ StripTrue

LEMMA EmptyWell ==
  ASSUME NEW all, MaxSeen \in Nat
  PROVE  SeenWell(<<>>, all)
BY DEF SeenWell, IsInjective, ToSet

LEMMA PagesInit ==
  ASSUME StorefrontInit, calls = [c \in Call |-> Idle], MaxSeen \in Nat
  PROVE  PagesInv
<1>1. seen = <<>> /\ visited = <<>> /\ onSale = Shown /\ strip = Idle /\ raced = FALSE
  BY DEF StorefrontInit
<1>2. StorefrontTypeOK
  <2>1. seen \in Seq(Shown) /\ visited \in Seq(Shown)
    BY <1>1
  <2>2. onSale \subseteq Shown /\ raced \in BOOLEAN
    BY <1>1
  <2>3. QED  BY <2>1, <2>2 DEF StorefrontTypeOK
<1>3. SeenWell(seen, visited)
  BY <1>1, EmptyWell
<1>4. Latest(seen, visited)
  BY <1>1 DEF Latest, ToSet
<1>5. \A c \in Call : calls[c] = Idle
  OBVIOUS
<1>6. QED  BY <1>1, <1>2, <1>3, <1>4, <1>5 DEF PagesInv, Loaded, Does, StripTrue

LEMMA StripIsTrue ==
  ASSUME NEW row \in Seq(Shown), IsInjective(row), NEW p, NEW some
  PROVE  LET list == Kept(row, some \ {p}) IN IsInjective(list) /\ ToSet(list) \subseteq some \ {p}
<1>1. /\ ToSet(Only(row, some \ {p})) = ToSet(row) \cap (some \ {p})
      /\ IsInjective(Only(row, some \ {p}))
  BY OnlyFacts
<1>2. QED  BY <1>1, KeptIsOnly

LEMMA PagesNext ==
  ASSUME PagesInv, StorefrontNext, MaxSeen \in Nat \ {0}
  PROVE  PagesInv'
<1>1. /\ seen \in Seq(Shown) /\ visited \in Seq(Shown) /\ onSale \subseteq Shown /\ raced \in BOOLEAN
      /\ calls \in [Call -> PageJob \cup {Idle}]
      /\ SeenWell(seen, visited)
      /\ visited # <<>> => seen # <<>> /\ seen[1] = visited[1]
  BY DEF PagesInv, StorefrontTypeOK
<1>2. \A c \in Call : calls[c] # Idle => SeenWell(calls[c].row, visited)
  BY DEF PagesInv
<1>3. ~raced =>
        /\ \A c \in Call : Loaded(c) => calls[c].row = seen
        /\ \A c, d \in Call : Loaded(c) /\ Loaded(d) => c = d
        /\ Latest(seen, visited)
  BY DEF PagesInv
<1>4. \A job \in PageJob :
        job.on \in Shown /\ job.row \in Seq(Shown)
  BY DEF PageJob
<1>5. ASSUME NEW p \in Shown, TogglePage(p) PROVE PagesInv'
  <2>1. /\ onSale' \subseteq Shown /\ strip' = Idle
        /\ seen' = seen /\ visited' = visited /\ raced' = raced /\ calls' = calls
    BY <1>1, <1>5 DEF TogglePage
  <2>2. StorefrontTypeOK' /\ StripTrue'
    BY <1>1, <2>1 DEF StorefrontTypeOK, StripTrue
  <2>3. QED  BY <1>1, <1>2, <1>3, <2>1, <2>2 DEF PagesInv, Loaded, Does
<1>6. ASSUME NEW c \in Call, NEW p \in Shown, OpenPage(c, p) PROVE PagesInv'
  <2> DEFINE job == Job("session", p, <<>>)
  <2>1. /\ calls' = [calls EXCEPT ![c] = job] /\ strip' = Idle
        /\ seen' = seen /\ visited' = visited /\ raced' = raced /\ onSale' = onSale
    BY <1>6 DEF OpenPage, Begin
  <2>2. job \in PageJob /\ job.row = <<>> /\ job.do = "session"
    BY DEF Job, PageJob
  <2> HIDE DEF job
  <2>3. StorefrontTypeOK' /\ StripTrue'
    BY <1>1, <2>1 DEF StorefrontTypeOK, StripTrue
  <2>4. calls' \in [Call -> PageJob \cup {Idle}] /\ \A d \in Call : calls'[d] = IF d = c THEN job ELSE calls[d]
    BY <1>1, <2>1, <2>2
  <2>5. \A d \in Call : Loaded(d)' => Loaded(d) /\ calls'[d] = calls[d]
    BY <2>2, <2>4 DEF Loaded, Does
  <2>6. \A d \in Call : calls'[d] # Idle => SeenWell(calls'[d].row, visited)
    BY <1>2, <2>2, <2>4, EmptyWell
  <2>7. QED  BY <1>1, <1>3, <2>1, <2>3, <2>4, <2>5, <2>6 DEF PagesInv
<1>7. ASSUME NEW c \in Call, LoadSession(c) PROVE PagesInv'
  <2> DEFINE job == [calls[c] EXCEPT !.do = "strip", !.row = seen]
  <2>1. /\ calls' = [calls EXCEPT ![c] = job] /\ strip' = Idle /\ calls[c] # Idle
        /\ seen' = seen /\ visited' = visited /\ onSale' = onSale
        /\ raced' = (raced \/ \E d \in Call : Loaded(d))
    BY <1>7 DEF LoadSession, Goes, Does, Loaded
  <2>2. job \in PageJob /\ job.row = seen
    <3>1. \A old \in PageJob :
            [old EXCEPT !.do = "strip", !.row = seen] \in PageJob /\ [old EXCEPT !.do = "strip", !.row = seen].row = seen
      BY <1>1 DEF PageJob
    <3>2. QED  BY <1>1, <2>1, <3>1
  <2> HIDE DEF job
  <2>3. StorefrontTypeOK' /\ StripTrue'
    BY <1>1, <2>1 DEF StorefrontTypeOK, StripTrue
  <2>4. calls' \in [Call -> PageJob \cup {Idle}] /\ \A d \in Call : calls'[d] = IF d = c THEN job ELSE calls[d]
    BY <1>1, <2>1, <2>2
  <2>5. \A d \in Call : Loaded(d)' /\ d # c => Loaded(d)
    BY <2>4 DEF Loaded, Does
  <2>6. \A d \in Call : calls'[d] # Idle => SeenWell(calls'[d].row, visited)
    BY <1>1, <1>2, <2>2, <2>4
  <2>7. ~raced' =>
          /\ \A d \in Call : Loaded(d)' => calls'[d].row = seen
          /\ \A d, e \in Call : Loaded(d)' /\ Loaded(e)' => d = e
          /\ Latest(seen, visited)
    BY <1>3, <2>1, <2>2, <2>4, <2>5
  <2>8. QED  BY <1>1, <2>1, <2>3, <2>4, <2>6, <2>7 DEF PagesInv
<1>8. ASSUME NEW c \in Call, ReadStrip(c) PROVE PagesInv'
  <2> DEFINE job == [calls[c] EXCEPT !.do = "respond"]
  <2>1. /\ calls' = [calls EXCEPT ![c] = job] /\ calls[c] # Idle /\ Loaded(c)
        /\ strip' = [of |-> calls[c].on, published |-> onSale,
                     list |-> Kept(calls[c].row, onSale \ {calls[c].on})]
        /\ seen' = seen /\ visited' = visited /\ onSale' = onSale /\ raced' = raced
    BY <1>8 DEF ReadStrip, Goes, Does, Loaded
  <2>2. job \in PageJob /\ job.row = calls[c].row
    <3>1. \A old \in PageJob :
            [old EXCEPT !.do = "respond"] \in PageJob /\ [old EXCEPT !.do = "respond"].row = old.row
      BY DEF PageJob
    <3>2. QED  BY <1>1, <2>1, <3>1
  <2> HIDE DEF job
  <2>3. StorefrontTypeOK'
    BY <1>1, <2>1 DEF StorefrontTypeOK
  <2>4. StripTrue'
    <3>1. calls[c].row \in Seq(Shown) /\ IsInjective(calls[c].row)
      BY <1>2, <2>1 DEF SeenWell
    <3>2. /\ IsInjective(Kept(calls[c].row, onSale \ {calls[c].on}))
          /\ ToSet(Kept(calls[c].row, onSale \ {calls[c].on})) \subseteq onSale \ {calls[c].on}
      BY <3>1, StripIsTrue
    <3>3. QED  BY <2>1, <3>2 DEF StripTrue
  <2>5. calls' \in [Call -> PageJob \cup {Idle}] /\ \A d \in Call : calls'[d] = IF d = c THEN job ELSE calls[d]
    BY <1>1, <2>1, <2>2
  <2>6. \A d \in Call : Loaded(d)' => Loaded(d) /\ calls'[d].row = calls[d].row
    BY <2>1, <2>2, <2>5 DEF Loaded, Does
  <2>7. \A d \in Call : calls'[d] # Idle => SeenWell(calls'[d].row, visited)
    BY <1>2, <2>1, <2>2, <2>5
  <2>8. QED  BY <1>1, <1>3, <2>1, <2>3, <2>4, <2>5, <2>6, <2>7 DEF PagesInv
<1>9. ASSUME NEW c \in Call, Answer(c) PROVE PagesInv'
  <2> DEFINE p == calls[c].on
             row == calls[c].row
             now == Recorded(row, p)
             all == <<p>> \o visited
  <2>1. /\ calls' = [calls EXCEPT ![c] = Idle] /\ calls[c] # Idle /\ Loaded(c)
        /\ seen' = now /\ visited' = all /\ strip' = Idle
        /\ onSale' = onSale /\ raced' = raced
    BY <1>9 DEF Answer, End, Goes, Does, Loaded
  <2>2. p \in Shown /\ row \in Seq(Shown) /\ SeenWell(row, visited)
    BY <1>1, <1>2, <1>4, <2>1
  <2>3. /\ SeenWell(now, all) /\ now # <<>> /\ now[1] = p
        /\ Latest(row, visited) => Latest(now, all)
    BY <1>1, <2>2, RecordedWell
  <2>4. all \in Seq(Shown) /\ ToSet(all) = ToSet(visited) \cup {p} /\ all[1] = p
    BY <1>1, <2>2, VisitAdded
  <2>5. calls' \in [Call -> PageJob \cup {Idle}] /\ \A d \in Call : calls'[d] = IF d = c THEN Idle ELSE calls[d]
    BY <1>1, <2>1
  <2>6. ~raced => row = seen /\ Latest(seen, visited) /\ \A d \in Call : Loaded(d) => d = c
    BY <1>3, <2>1
  <2> HIDE DEF now, all, p, row
  <2>7. StorefrontTypeOK' /\ StripTrue'
    BY <1>1, <2>1, <2>3, <2>4 DEF StorefrontTypeOK, StripTrue, SeenWell
  <2>8. \A d \in Call : Loaded(d)' => Loaded(d) /\ d # c
    BY <2>5 DEF Loaded, Does
  <2>9. \A d \in Call : calls'[d] # Idle => SeenWell(calls'[d].row, all)
    BY <1>2, <2>4, <2>5 DEF SeenWell
  <2>10. ~raced => Latest(now, all) /\ \A d \in Call : ~Loaded(d)'
    BY <2>3, <2>6, <2>8
  <2>11. QED  BY <2>1, <2>3, <2>4, <2>5, <2>7, <2>9, <2>10 DEF PagesInv
<1>10. ASSUME NEW c \in Call, LeavePage(c) PROVE PagesInv'
  <2>1. /\ calls' = [calls EXCEPT ![c] = Idle] /\ strip' = Idle
        /\ seen' = seen /\ visited' = visited /\ onSale' = onSale /\ raced' = raced
    BY <1>10 DEF LeavePage, End, Goes
  <2>2. StorefrontTypeOK' /\ StripTrue'
    BY <1>1, <2>1 DEF StorefrontTypeOK, StripTrue
  <2>3. calls' \in [Call -> PageJob \cup {Idle}] /\ \A d \in Call : calls'[d] = IF d = c THEN Idle ELSE calls[d]
    BY <1>1, <2>1
  <2>4. \A d \in Call : Loaded(d)' => Loaded(d) /\ calls'[d] = calls[d]
    BY <2>3 DEF Loaded, Does
  <2>5. QED  BY <1>1, <1>2, <1>3, <2>1, <2>2, <2>3, <2>4 DEF PagesInv
<1>11. QED  BY <1>5, <1>6, <1>7, <1>8, <1>9, <1>10 DEF StorefrontNext

LEMMA PagesTrue ==
  ASSUME PagesInv, MaxSeen \in Nat \ {0}
  PROVE  SeenInOrder /\ StripTrue
<1>1. /\ seen \in Seq(Shown) /\ visited \in Seq(Shown)
      /\ IsInjective(seen) /\ Len(seen) <= MaxSeen /\ ToSet(seen) \subseteq ToSet(visited)
      /\ visited # <<>> => seen[1] = visited[1]
      /\ ~raced => Latest(seen, visited)
      /\ StripTrue
  BY DEF PagesInv, StorefrontTypeOK, SeenWell
<1>2. ASSUME Latest(seen, visited) PROVE Len(seen) = Min({Cardinality(ToSet(visited)), MaxSeen})
  <2>1. Len(seen) \in Nat /\ Cardinality(ToSet(seen)) = Len(seen)
    BY <1>1, InjectiveLength
  <2>2. IsFiniteSet(ToSet(visited))
    BY <1>1, FiniteToSet
  <2>3. Cardinality(ToSet(seen)) <= Cardinality(ToSet(visited)) /\ Cardinality(ToSet(visited)) \in Nat
    BY <1>1, <2>2, FS_Subset, FS_CardinalityType
  <2>4. Len(seen) < MaxSeen => ToSet(visited) = ToSet(seen)
    BY <1>1, <1>2 DEF Latest
  <2>5. Min({Cardinality(ToSet(visited)), MaxSeen}) =
          IF Cardinality(ToSet(visited)) <= MaxSeen THEN Cardinality(ToSet(visited)) ELSE MaxSeen
    BY <2>3, MinOfTwo
  <2>6. CASE Len(seen) < MaxSeen
    <3>1. Cardinality(ToSet(visited)) = Len(seen)
      BY <2>1, <2>4, <2>6, Zenon
    <3>2. QED  BY <2>5, <2>6, <3>1
  <2>7. CASE Len(seen) = MaxSeen
    BY <2>1, <2>3, <2>5, <2>7
  <2>8. QED  BY <1>1, <2>1, <2>6, <2>7
<1>3. ASSUME Latest(seen, visited), NEW p \in ToSet(seen), NEW o \in ToSet(visited), FirstOf(o) < FirstOf(p)
      PROVE  \E i, j \in DOMAIN seen : i < j /\ seen[i] = o /\ seen[j] = p
  BY <1>3 DEF Latest, FirstOf, FirstIn
<1>4. QED  BY <1>1, <1>2, <1>3 DEF SeenInOrder

-----------------------------------------------------------------------------
(* The price of a checkout *)

LEMMA MinIn ==
  ASSUME NEW n \in Nat, NEW s \in SUBSET (1..n), s # {}
  PROVE  Min(s) \in s /\ \A y \in s : Min(s) <= y
<1> DEFINE Least == \E x \in s : \A y \in s : x <= y
           Good == {k \in 0..n : (\E y \in s : y <= k) => Least}
<1>1. 0 \in Good
  BY DEF Least
<1>2. ASSUME NEW k \in 1..n, k - 1 \in Good PROVE k \in Good
  <2> SUFFICES ASSUME NEW x \in s, x <= k PROVE Least
    OBVIOUS
  <2>1. CASE \E y \in s : y <= k - 1
    <3> HIDE DEF Least
    <3>1. QED  BY <1>2, <2>1
  <2>2. CASE \A y \in s : ~ y <= k - 1
    <3>1. \A y \in s : x <= y
      BY <2>2
    <3>2. QED  BY <3>1
  <2>3. QED  BY <2>1, <2>2
<1>3. n \in Good
  <2> HIDE DEF Good
  <2>1. \A k \in 0..n : k \in Good
    BY <1>1, <1>2, AllTheWay
  <2>2. QED  BY <2>1
<1>4. Least
  <2>1. \E y \in s : y <= n
    <3>1. PICK y \in s : TRUE
      OBVIOUS
    <3>2. y \in 1..n /\ y <= n
      OBVIOUS
    <3> HIDE DEF Least
    <3>3. QED  BY <3>2
  <2> HIDE DEF Least
  <2>2. QED  BY <1>3, <2>1
<1>5. \E x \in s : \A y \in s : x =< y
  BY <1>4
<1>6. QED  BY <1>5 DEF Min

\* Shipping rules with keys of their own.
Keyed(set) ==
  IsFiniteSet(set) /\ set \subseteq ShippingRule /\ \A r, o \in set : r.id = o.id => r = o

LEMMA RuleTypes ==
  \A r \in ShippingRule :
    r.priority \in Int /\ r.id \in Nat /\ r.least \in Nat /\ r.free \in BOOLEAN /\ r.cost \in Nat
BY DEF ShippingRule

LEMMA BeforeTotal ==
  ASSUME NEW set, Keyed(set)
  PROVE  \A r, o \in set :
           /\ r # o => Before(r, o) \/ Before(o, r)
           /\ Before(r, o) => ~Before(o, r)
           /\ \A a \in set : Before(r, o) /\ Before(o, a) => Before(r, a)
<1>1. \A r \in set : r.priority \in Int /\ r.id \in Nat
  BY RuleTypes DEF Keyed
<1>2. \A r, o \in set : r # o => r.id # o.id
  BY DEF Keyed
<1>3. QED  BY <1>1, <1>2 DEF Before

LEMMA FirstRule ==
  ASSUME NEW set, Keyed(set), NEW T \in SUBSET set, T # {}
  PROVE  \E r \in T : \A o \in T \ {r} : Before(r, o)
<1> DEFINE Has(U) == \E r \in U : \A o \in U \ {r} : Before(r, o)
           Bad == {U \in SUBSET set : U # {} /\ ~Has(U)}
<1> SUFFICES ASSUME Bad # {} PROVE FALSE
  OBVIOUS
<1>1. PICK U \in Bad : \A V \in SUBSET U : V # U => V \notin Bad
  <2>1. Bad \in SUBSET (SUBSET set) /\ IsFiniteSet(set)
    BY DEF Keyed
  <2> HIDE DEF Bad
  <2>2. QED  BY <2>1, LeastSubset
<1>2. PICK x \in U : TRUE
  OBVIOUS
<1>3. CASE U \ {x} = {}
  BY <1>2, <1>3
<1>4. CASE U \ {x} # {}
  <2>1. Has(U \ {x})
    <3>1. U \ {x} \in SUBSET U /\ U \ {x} # U /\ U \ {x} \in SUBSET set
      BY <1>1, <1>2
    <3> HIDE DEF Has
    <3>2. QED  BY <1>1, <1>4, <3>1
  <2>2. PICK r \in U \ {x} : \A o \in (U \ {x}) \ {r} : Before(r, o)
    BY <2>1
  <2>3. r \in set /\ x \in set /\ r # x /\ U \subseteq set
    BY <1>1, <1>2, <2>2
  <2>4. CASE Before(r, x)
    <3>1. \A o \in U \ {r} : Before(r, o)
      BY <2>2, <2>4
    <3>2. QED  BY <1>1, <2>2, <3>1
  <2>5. CASE Before(x, r)
    <3>1. \A o \in U \ {x} : Before(x, o)
      BY <2>2, <2>3, <2>5, BeforeTotal
    <3>2. QED  BY <1>1, <1>2, <3>1
  <2>6. QED  BY <2>3, <2>4, <2>5, BeforeTotal
<1>5. QED  BY <1>3, <1>4

Sorted(list, set) ==
  /\ list \in [1..Cardinality(set) -> set]
  /\ \A i, j \in 1..Cardinality(set) : i < j => Before(list[i], list[j])

\* The rules can be put in order.
LEMMA SortedExists ==
  ASSUME NEW set, Keyed(set)
  PROVE  \E list : Sorted(list, set)
<1> DEFINE Bad == {U \in SUBSET set : ~ \E list : Sorted(list, U)}
<1> SUFFICES ASSUME Bad # {} PROVE FALSE
  OBVIOUS
<1>1. PICK U \in Bad : \A V \in SUBSET U : V # U => V \notin Bad
  <2>1. Bad \in SUBSET (SUBSET set) /\ IsFiniteSet(set)
    BY DEF Keyed
  <2> HIDE DEF Bad
  <2>2. QED  BY <2>1, LeastSubset
<1>2. U # {}
  <2> SUFFICES ASSUME U = {} PROVE FALSE
    OBVIOUS
  <2>1. Cardinality(U) = 0 /\ 1..0 = {}
    BY FS_EmptySet
  <2> DEFINE list == [i \in 1..0 |-> i]
  <2>2. list \in [1..Cardinality(U) -> U] /\ \A i, j \in 1..Cardinality(U) : i < j => Before(list[i], list[j])
    BY <2>1
  <2> HIDE DEF list
  <2>3. QED  BY <1>1, <2>2 DEF Sorted
<1>3. PICK r \in U : \A o \in U \ {r} : Before(r, o)
  BY <1>1, <1>2, FirstRule
<1>4. PICK list : Sorted(list, U \ {r})
  BY <1>1, <1>3
<1> DEFINE n == Cardinality(U)
           new == [i \in 1..n |-> IF i = 1 THEN r ELSE list[i - 1]]
<1>5. n \in Nat \ {0} /\ Cardinality(U \ {r}) = n - 1
  <2>1. IsFiniteSet(U)
    BY <1>1, FS_Subset DEF Keyed
  <2>2. n \in Nat /\ Cardinality(U \ {r}) = n - 1 /\ Cardinality(U \ {r}) \in Nat
    BY <1>3, <2>1, FS_RemoveElement, FS_CardinalityType
  <2>3. QED  BY <2>2
<1>6. list \in [1..(n - 1) -> U \ {r}] /\ \A i, j \in 1..(n - 1) : i < j => Before(list[i], list[j])
  BY <1>4, <1>5 DEF Sorted
<1> HIDE DEF n
<1>7. new \in [1..n -> U]
  BY <1>3, <1>5, <1>6
<1>8. ASSUME NEW i \in 1..n, NEW j \in 1..n, i < j PROVE Before(new[i], new[j])
  <2>1. j # 1 /\ j - 1 \in 1..(n - 1) /\ new[j] = list[j - 1] /\ new[j] \in U \ {r}
    BY <1>5, <1>6, <1>8
  <2>2. CASE i = 1
    <3>1. new[i] = r
      BY <2>2
    <3> HIDE DEF new
    <3>2. QED  BY <1>3, <2>1, <3>1
  <2>3. CASE i # 1
    <3>1. i - 1 \in 1..(n - 1) /\ i - 1 < j - 1 /\ new[i] = list[i - 1]
      BY <1>5, <1>8, <2>3
    <3> HIDE DEF new
    <3>2. QED  BY <1>6, <2>1, <3>1
  <2>4. QED  BY <2>2, <2>3
<1> HIDE DEF new
<1>9. Sorted(new, U)
  BY <1>7, <1>8 DEF Sorted, n
<1>10. QED  BY <1>1, <1>9

\* InOrder has every rule, each before those that come after it.
LEMMA InOrderFacts ==
  ASSUME NEW set, Keyed(set)
  PROVE  \E n \in Nat :
           /\ InOrder(set) \in [1..n -> set] /\ DOMAIN InOrder(set) = 1..n
           /\ \A i, j \in 1..n : i < j => Before(InOrder(set)[i], InOrder(set)[j])
           /\ \A r \in set : \E i \in 1..n : InOrder(set)[i] = r
<1> DEFINE n == Cardinality(set)
           list == InOrder(set)
<1>1. n \in Nat /\ IsFiniteSet(set)
  BY FS_CardinalityType DEF Keyed
<1>2. \A l : Sorted(l, set) => l \in SetToSeqs(set) /\ \A i, j \in DOMAIN l : i < j => Before(l[i], l[j])
  <2> SUFFICES ASSUME NEW l, Sorted(l, set)
               PROVE  l \in SetToSeqs(set) /\ \A i, j \in DOMAIN l : i < j => Before(l[i], l[j])
    OBVIOUS
  <2>1. l \in [1..n -> set] /\ \A i, j \in 1..n : i < j => Before(l[i], l[j])
    BY DEF Sorted
  <2>2. ASSUME NEW i \in 1..n, NEW j \in 1..n, i # j PROVE l[i] # l[j]
    <3>1. l[i] \in set /\ l[j] \in set /\ (i < j \/ j < i)
      BY <1>1, <2>1, <2>2
    <3>2. Before(l[i], l[j]) \/ Before(l[j], l[i])
      BY <2>1, <3>1
    <3>3. QED  BY <3>1, <3>2, BeforeTotal
  <2>3. QED  BY <2>1, <2>2 DEF SetToSeqs
<1>3. list \in SetToSeqs(set) /\ \A i, j \in DOMAIN list : i < j => Before(list[i], list[j])
  <2>1. \E l \in SetToSeqs(set) : \A i, j \in DOMAIN l : i < j => Before(l[i], l[j])
    BY <1>2, SortedExists
  <2>2. QED  BY <2>1 DEF InOrder
<1>4. list \in [1..n -> set] /\ \A i, j \in 1..n : i # j => list[i] # list[j]
  BY <1>3 DEF SetToSeqs
<1>5. \A r \in set : \E i \in 1..n : list[i] = r
  <2>1. list \in Injection(1..n, set)
    BY <1>4 DEF Injection, IsInjective
  <2>2. Cardinality(1..n) = n
    BY <1>1, FS_Interval
  <2>3. list \in Surjection(1..n, set)
    BY <1>1, <2>1, <2>2, FS_Injection
  <2>4. QED  BY <2>3 DEF Surjection
<1>6. DOMAIN list = 1..n
  BY <1>4
<1> HIDE DEF list, n
<1>7. QED  BY <1>1, <1>3, <1>4, <1>5, <1>6 DEF list

\* The cost is that of the rule that counts.
LEMMA ShippingCosts ==
  ASSUME Keyed(rules), NEW group, group.subtotal \in Nat
  PROVE  /\ ShippingCost(group) \in Nat
         /\ \A r \in rules : Counts(r, group) => ShippingCost(group) = IF r.free THEN 0 ELSE r.cost
         /\ AreFor(group) = {} => ShippingCost(group) = 0
<1> DEFINE list == InOrder(rules)
           matching == {i \in DOMAIN list : Matches(list[i], group)}
           k == Min(matching)
<1>1. PICK n \in Nat :
        /\ list \in [1..n -> rules] /\ DOMAIN list = 1..n
        /\ \A i, j \in 1..n : i < j => Before(list[i], list[j])
        /\ \A r \in rules : \E i \in 1..n : list[i] = r
  BY InOrderFacts
<1>2. ShippingCost(group) = IF matching = {} \/ list[k].free THEN 0 ELSE list[k].cost
  BY DEF ShippingCost
<1> HIDE DEF list
<1>3. \A r \in rules : r \in ShippingRule /\ r.free \in BOOLEAN /\ r.cost \in Nat /\ r.least \in Nat
  BY RuleTypes DEF Keyed
<1>4. \A i \in 1..n : list[i] \in rules /\ (i \in matching <=> list[i] \in AreFor(group))
  <2> SUFFICES ASSUME NEW i \in 1..n PROVE list[i] \in rules /\ (i \in matching <=> list[i] \in AreFor(group))
    OBVIOUS
  <2>1. list[i] \in rules /\ list[i].least \in Nat
    BY <1>1, <1>3
  <2>2. QED  BY <1>1, <2>1 DEF AreFor, Matches
<1>5. matching \in SUBSET (1..n)
  BY <1>1
<1> HIDE DEF matching, k
<1>6. CASE matching = {}
  <2>1. AreFor(group) = {}
    BY <1>1, <1>4, <1>6 DEF AreFor
  <2>2. QED  BY <1>2, <1>6, <2>1 DEF Counts
<1>7. CASE matching # {}
  <2>1. k \in matching /\ \A i \in matching : k <= i
    BY <1>5, <1>7, MinIn DEF k
  <2>2. list[k] \in rules /\ list[k] \in AreFor(group)
    BY <1>4, <1>5, <2>1
  <2>3. ShippingCost(group) = IF list[k].free THEN 0 ELSE list[k].cost
    BY <1>2, <1>7
  <2>4. ASSUME NEW r \in rules, Counts(r, group) PROVE r = list[k]
    <3>1. PICK i \in 1..n : list[i] = r
      BY <1>1
    <3>2. i \in matching
      BY <1>4, <2>4, <3>1 DEF Counts
    <3>3. k < i => Before(list[k], r)
      BY <1>1, <1>5, <2>1, <3>1
    <3>4. k <= i
      BY <2>1, <3>2
    <3>5. ASSUME r # list[k] PROVE FALSE
      <4>1. k # i
        BY <3>1, <3>5
      <4>2. Before(list[k], r)
        BY <1>5, <2>1, <3>3, <3>4, <4>1
      <4>3. Before(r, list[k])
        <5>1. list[k].priority < r.priority \/ (list[k].priority = r.priority /\ r.id < list[k].id)
          BY <2>2, <2>4, <3>5 DEF Counts
        <5>2. list[k].priority \in Int /\ r.priority \in Int
          BY <2>2, RuleTypes DEF Keyed
        <5>3. QED  BY <5>1, <5>2 DEF Before
      <4>4. QED  BY <2>2, <4>2, <4>3, BeforeTotal
    <3>6. QED  BY <3>5
  <2>5. ShippingCost(group) \in Nat
    BY <1>3, <2>2, <2>3
  <2>6. QED  BY <2>2, <2>3, <2>4, <2>5
<1>8. QED  BY <1>6, <1>7

LEMMA HalfEvenNear ==
  ASSUME NEW n \in Nat
  PROVE  /\ HalfEven(n, 100) \in Nat
         /\ 100 * HalfEven(n, 100) - n \in -50..50
<1> DEFINE whole == n \div 100
           rest == n % 100
<1>1. whole \in Nat /\ rest \in 0..99 /\ n = 100 * whole + rest
  OBVIOUS
<1>2. HalfEven(n, 100) = IF 2 * rest > 100 \/ (2 * rest = 100 /\ whole % 2 = 1) THEN whole + 1 ELSE whole
  BY DEF HalfEven
<1> HIDE DEF whole, rest
<1>3. QED  BY <1>1, <1>2

\* An order whose figures are right.
FiguresRight(order) ==
  /\ order.total = order.subtotal + order.shipping - order.discount
  /\ order.total < 0 => order.coupon /\ coupon.kind = "percentage" /\ coupon.value > 100
  /\ order.coupon => coupon.store \in {Blank, order.store}
  /\ order.discount > 0 => order.coupon
  /\ order.coupon /\ coupon.kind = "percentage" =>
       100 * order.discount - order.subtotal * coupon.value \in -50..50
  /\ order.coupon /\ coupon.kind = "free_shipping" => order.total = order.subtotal
  /\ \A r \in rules : Counts(r, order) => order.shipping = IF r.free THEN 0 ELSE r.cost
  /\ AreFor(order) = {} => order.shipping = 0

LEMMA DiscountFits ==
  ASSUME NEW cpn \in Coupon, NEW subtotal \in Nat, NEW shipping \in Nat
  PROVE  LET off == Discount(cpn, subtotal, shipping) IN
         /\ off \in Nat
         /\ subtotal + shipping - off < 0 => cpn.kind = "percentage" /\ cpn.value > 100
         /\ cpn.kind = "percentage" => 100 * off - subtotal * cpn.value \in -50..50
         /\ cpn.kind = "free_shipping" => off = shipping
<1> DEFINE off == Discount(cpn, subtotal, shipping)
           v == cpn.value
           exact == subtotal * v
<1>1. cpn.kind \in {"percentage", "fixed", "free_shipping"} /\ v \in Nat
  BY DEF Coupon
<1> HIDE DEF v
<1>2. exact \in Nat
  BY <1>1
<1>3. CASE cpn.kind = "percentage"
  <2>1. off = HalfEven(exact, 100)
    BY <1>3 DEF Discount, v
  <2> HIDE DEF exact, off
  <2>2. off \in Nat /\ 100 * off - exact \in -50..50
    BY <1>2, <2>1, HalfEvenNear
  <2>3. v <= 100 => exact <= 100 * subtotal
    <3>1. v <= 100 => subtotal * v <= subtotal * 100
      BY <1>1
    <3>2. QED  BY <3>1 DEF exact
  <2>4. v <= 100 => off <= subtotal
    BY <1>2, <2>2, <2>3
  <2>5. QED  BY <1>1, <1>3, <2>2, <2>4 DEF off, exact, v
<1>4. CASE cpn.kind = "fixed"
  <2>1. off = Min({v, subtotal})
    BY <1>4 DEF Discount, v
  <2>2. off \in Nat /\ off <= subtotal
    <3> HIDE DEF off
    <3>1. QED  BY <1>1, <2>1, MinOfTwo
  <2> HIDE DEF off
  <2>3. QED  BY <1>4, <2>2 DEF off
<1>5. CASE cpn.kind = "free_shipping"
  <2>1. off = shipping
    BY <1>5 DEF Discount
  <2>2. QED  BY <1>5, <2>1
<1>6. QED  BY <1>1, <1>3, <1>4, <1>5

\* Every order is right, the coupon went to at most one, and until it went to
\* one a store is left that it is for.
PricesInv ==
  /\ PricingTypeOK
  /\ \A i \in DOMAIN priced : FiguresRight(priced[i])
  /\ \A i, j \in DOMAIN priced : priced[i].coupon /\ priced[j].coupon => i = j
  /\ applied <=> \E i \in DOMAIN priced : priced[i].coupon
  /\ coupon # NoCoupon /\ ~applied => \E i \in DOMAIN groups : coupon.store \in {Blank, groups[i].store}

LEMMA PricesInit ==
  ASSUME PricingInit, PricingConstants
  PROVE  PricesInv
<1>1. groups \in Carts /\ rules \in RuleSets /\ applied = FALSE /\ priced = <<>>
      /\ coupon \in {NoCoupon} \cup {cpn \in Coupons : Accepts(cpn, groups)}
  BY DEF PricingInit
<1>2. Cardinality(Store) \in Nat
  BY FS_CardinalityType DEF PricingConstants
<1>3. PICK n \in 1..Cardinality(Store) : groups \in [1..n -> Group]
  BY <1>1 DEF Carts
<1>4. n \in Nat \ {0}
  BY <1>2
<1>5. groups \in Seq(Group) /\ DOMAIN groups = 1..n
  BY <1>3, <1>4
<1>6. PricingTypeOK
  BY <1>1, <1>5, EmptySeq DEF PricingTypeOK
<1>7. DOMAIN priced = {}
  BY <1>1
<1>8. coupon # NoCoupon => \E i \in DOMAIN groups : coupon.store \in {Blank, groups[i].store}
  <2> SUFFICES ASSUME coupon # NoCoupon PROVE \E i \in DOMAIN groups : coupon.store \in {Blank, groups[i].store}
    OBVIOUS
  <2>1. coupon.store # Blank => \E i \in DOMAIN groups : groups[i].store = coupon.store
    BY <1>1 DEF Accepts
  <2>2. 1 \in DOMAIN groups
    BY <1>4, <1>5
  <2>3. QED  BY <2>1, <2>2
<1>9. QED  BY <1>1, <1>6, <1>7, <1>8 DEF PricesInv

LEMMA PricesNext ==
  ASSUME PricesInv, PricingNext, PricingConstants
  PROVE  PricesInv'
<1> DEFINE group == Head(groups)
           shipping == ShippingCost(group)
           gets == GetsCoupon(group.store)
           off == IF gets THEN Discount(coupon, group.subtotal, shipping) ELSE 0
           order == [store |-> group.store, subtotal |-> group.subtotal, discount |-> off, shipping |-> shipping,
                     total |-> group.subtotal - off + shipping, coupon |-> gets]
           n == Len(priced)
<1>1. /\ groups # <<>> /\ groups' = Tail(groups) /\ applied' = (applied \/ gets)
      /\ priced' = Append(priced, order) /\ coupon' = coupon /\ rules' = rules
  BY DEF PricingNext, PriceOrder
<1>2. /\ groups \in Seq(Group) /\ coupon \in Coupons \cup {NoCoupon} /\ rules \in RuleSets
      /\ applied \in BOOLEAN /\ priced \in Seq(Priced)
  BY DEF PricesInv, PricingTypeOK
<1>3. group \in Group /\ Tail(groups) \in Seq(Group)
  BY <1>1, <1>2
<1>4. group.store \in Store /\ group.subtotal \in Subtotal /\ group.subtotal \in Nat
  BY <1>3 DEF Group, PricingConstants
<1>5. Keyed(rules)
  BY <1>2 DEF PricingConstants, Keyed
<1>6. /\ shipping \in Nat
      /\ \A r \in rules : Counts(r, group) => shipping = IF r.free THEN 0 ELSE r.cost
      /\ AreFor(group) = {} => shipping = 0
  <2> HIDE DEF group
  <2>1. QED  BY <1>4, <1>5, ShippingCosts
<1>7. gets \in BOOLEAN /\ (gets => coupon # NoCoupon /\ ~applied /\ coupon.store \in {Blank, group.store})
  BY DEF GetsCoupon
<1>8. ASSUME gets PROVE coupon \in Coupon
  BY <1>2, <1>7, <1>8 DEF PricingConstants
<1> HIDE DEF group, shipping, gets
<1>9. /\ off \in Nat /\ (~gets => off = 0)
      /\ gets => /\ group.subtotal + shipping - off < 0 => coupon.kind = "percentage" /\ coupon.value > 100
                 /\ coupon.kind = "percentage" => 100 * off - group.subtotal * coupon.value \in -50..50
                 /\ coupon.kind = "free_shipping" => off = shipping
  <2>1. CASE gets
    BY <1>4, <1>6, <1>8, <2>1, DiscountFits
  <2>2. CASE ~gets
    BY <2>2
  <2>3. QED  BY <2>1, <2>2
<1> HIDE DEF off
<1>10. /\ order.store = group.store /\ order.subtotal = group.subtotal /\ order.discount = off
       /\ order.shipping = shipping /\ order.total = group.subtotal - off + shipping /\ order.coupon = gets
  OBVIOUS
<1>11. order \in Priced
  BY <1>4, <1>6, <1>7, <1>9 DEF Priced
<1> HIDE DEF order
<1>12. FiguresRight(order)
  <2>1. AreFor(order) = AreFor(group) /\ \A r : Counts(r, order) <=> Counts(r, group)
    BY <1>10 DEF AreFor, Counts
  <2>2. order.total = order.subtotal + order.shipping - order.discount
    BY <1>4, <1>6, <1>9, <1>10
  <2>3. order.total < 0 => order.coupon /\ coupon.kind = "percentage" /\ coupon.value > 100
    BY <1>4, <1>6, <1>9, <1>10
  <2>4. order.coupon => coupon.store \in {Blank, order.store}
    BY <1>7, <1>10
  <2>5. order.discount > 0 => order.coupon
    BY <1>9, <1>10
  <2>6. order.coupon /\ coupon.kind = "percentage" =>
          100 * order.discount - order.subtotal * coupon.value \in -50..50
    BY <1>9, <1>10
  <2>7. order.coupon /\ coupon.kind = "free_shipping" => order.total = order.subtotal
    BY <1>4, <1>6, <1>9, <1>10
  <2>8. \A r \in rules : Counts(r, order) => order.shipping = IF r.free THEN 0 ELSE r.cost
    BY <1>6, <1>10, <2>1
  <2>9. AreFor(order) = {} => order.shipping = 0
    BY <1>6, <1>10, <2>1
  <2>10. QED  BY <2>2, <2>3, <2>4, <2>5, <2>6, <2>7, <2>8, <2>9 DEF FiguresRight
<1>13. /\ priced' \in Seq(Priced) /\ DOMAIN priced' = 1..(n + 1) /\ DOMAIN priced = 1..n /\ n \in Nat
       /\ priced'[n + 1] = order /\ \A i \in 1..n : priced'[i] = priced[i]
  BY <1>1, <1>2, <1>11
<1> HIDE DEF n
<1>14. PricingTypeOK'
  BY <1>1, <1>2, <1>3, <1>7, <1>13 DEF PricingTypeOK
<1>15. (\A i \in DOMAIN priced : FiguresRight(priced[i]))'
  <2> SUFFICES ASSUME NEW i \in DOMAIN priced' PROVE FiguresRight(priced[i])'
    OBVIOUS
  <2>1. FiguresRight(priced'[i])
    <3>1. CASE i = n + 1
      BY <1>12, <1>13, <3>1
    <3>2. CASE i # n + 1
      <4>1. i \in DOMAIN priced /\ priced'[i] = priced[i]
        BY <1>13, <3>2
      <4>2. QED  BY <4>1 DEF PricesInv
    <3>3. QED  BY <3>1, <3>2
  <2>2. coupon' = coupon /\ rules' = rules
    BY <1>1
  <2>3. QED  BY <2>1, <2>2 DEF FiguresRight, Counts, AreFor
<1>16. \A i \in 1..n : priced[i].coupon => applied
  BY <1>13 DEF PricesInv
<1>17. \A i, j \in DOMAIN priced' : priced'[i].coupon /\ priced'[j].coupon => i = j
  <2> SUFFICES ASSUME NEW i \in 1..(n + 1), NEW j \in 1..(n + 1), priced'[i].coupon, priced'[j].coupon PROVE i = j
    BY <1>13
  <2>1. CASE i = n + 1 \/ j = n + 1
    BY <1>7, <1>10, <1>13, <1>16, <2>1
  <2>2. CASE i # n + 1 /\ j # n + 1
    <3>1. i \in DOMAIN priced /\ j \in DOMAIN priced /\ priced'[i] = priced[i] /\ priced'[j] = priced[j]
      BY <1>13, <2>2
    <3>2. QED  BY <3>1 DEF PricesInv
  <2>3. QED  BY <2>1, <2>2
<1>18. applied' <=> \E i \in DOMAIN priced' : priced'[i].coupon
  <2>1. ASSUME applied' PROVE \E i \in DOMAIN priced' : priced'[i].coupon
    <3>1. CASE gets
      <4>1. n + 1 \in DOMAIN priced'
        BY <1>13
      <4>2. priced'[n + 1].coupon
        BY <1>10, <1>13, <3>1, Zenon
      <4>3. QED  BY <4>1, <4>2
    <3>2. CASE applied
      <4>1. PICK i \in DOMAIN priced : priced[i].coupon
        BY <3>2 DEF PricesInv
      <4>2. i \in DOMAIN priced' /\ priced'[i].coupon
        BY <1>13, <4>1
      <4>3. QED  BY <4>2
    <3>3. QED  BY <1>1, <2>1, <3>1, <3>2
  <2>2. ASSUME NEW i \in DOMAIN priced', priced'[i].coupon PROVE applied'
    <3>1. CASE i = n + 1
      BY <1>1, <1>10, <1>13, <2>2, <3>1
    <3>2. CASE i # n + 1
      <4>1. i \in 1..n /\ priced'[i] = priced[i]
        BY <1>13, <3>2
      <4>2. applied
        BY <1>16, <2>2, <4>1, Zenon
      <4>3. QED  BY <1>1, <4>2
    <3>3. QED  BY <3>1, <3>2
  <2>3. QED  BY <2>1, <2>2
<1>19. ASSUME coupon' # NoCoupon, ~applied'
       PROVE  \E i \in DOMAIN groups' : coupon'.store \in {Blank, groups'[i].store}
  <2>1. coupon # NoCoupon /\ ~applied /\ ~gets
    BY <1>1, <1>19
  <2>2. coupon.store \notin {Blank, group.store}
    BY <2>1 DEF gets, GetsCoupon
  <2>3. PICK i \in DOMAIN groups : coupon.store \in {Blank, groups[i].store}
    BY <2>1 DEF PricesInv
  <2>4. i # 1
    BY <1>1, <1>2, <2>2, <2>3 DEF group
  <2>5. i - 1 \in DOMAIN groups' /\ groups'[i - 1] = groups[i]
    BY <1>1, <1>2, <2>4
  <2>6. QED  BY <1>1, <2>3, <2>5
<1>20. QED  BY <1>14, <1>15, <1>17, <1>18, <1>19 DEF PricesInv

LEMMA PricesTrue ==
  ASSUME PricesInv
  PROVE  TotalsAddUp
<1>1. ASSUME groups = <<>>, coupon # NoCoupon
      PROVE  Cardinality({i \in DOMAIN priced : priced[i].coupon}) = 1
  <2>1. applied
    BY <1>1 DEF PricesInv
  <2>2. PICK i \in DOMAIN priced : priced[i].coupon
    BY <2>1 DEF PricesInv
  <2>3. {j \in DOMAIN priced : priced[j].coupon} = {i}
    BY <2>2 DEF PricesInv
  <2>4. QED  BY <2>3, FS_Singleton
<1>2. \A i \in DOMAIN priced : FiguresRight(priced[i])
  BY DEF PricesInv
<1>3. QED  BY <1>1, <1>2 DEF TotalsAddUp, FiguresRight

-----------------------------------------------------------------------------
(* The words of a search *)

Parsed == [text : Seq(Word), filters : Filters]

\* What has been made of the words up to each.
TakeLoop(h, words) ==
  /\ h[0] = Nothing /\ parse_smart_query(words) = h[Len(words)]
  /\ \A k \in 1..Len(words) : h[k] = TakeWord(h[k - 1], words[k])

LEMMA TakeTypes ==
  ASSUME SmartQueryConstants
  PROVE  /\ Nothing \in Parsed
         /\ \A l \in Parsed, word \in Word : TakeWord(l, word) \in Parsed
<1>1. Nothing \in Parsed
  BY DEF Nothing, Parsed, Filters
<1>2. ASSUME NEW l \in Parsed, NEW word \in Word PROVE TakeWord(l, word) \in Parsed
  <2>1. word \in Word \cup {NoName}
    OBVIOUS
  <2>2. CASE word \in BrandName /\ l.filters.brand = NoName
    <3>1. [l EXCEPT !.filters.brand = word] \in Parsed
      BY <2>1 DEF Parsed, Filters
    <3>2. QED  BY <2>2, <3>1 DEF TakeWord
  <2>3. CASE ~(word \in BrandName /\ l.filters.brand = NoName) /\ word \in CategoryName /\ l.filters.category = NoName
    <3>1. [l EXCEPT !.filters.category = word] \in Parsed
      BY <2>1 DEF Parsed, Filters
    <3>2. QED  BY <2>3, <3>1 DEF TakeWord
  <2>4. CASE ~(word \in BrandName /\ l.filters.brand = NoName) /\ ~(word \in CategoryName /\ l.filters.category = NoName)
    <3>1. Append(l.text, word) \in Seq(Word)
      BY DEF Parsed
    <3>2. [l EXCEPT !.text = Append(@, word)] \in Parsed
      BY <3>1 DEF Parsed
    <3>3. QED  BY <2>4, <3>2 DEF TakeWord
  <2>5. QED  BY <2>2, <2>3, <2>4
<1>3. QED  BY <1>1, <1>2

LEMMA TakeSteps ==
  ASSUME SmartQueryConstants, NEW words \in Seq(Word)
  PROVE  \E h \in [0..Len(words) -> Parsed] : TakeLoop(h, words)
<1> DEFINE n == Len(words)
           Eq(g) == g = [s \in SUBSET (1..n) |->
             IF s = {} THEN Nothing ELSE TakeWord(g[s \ {Max(s)}], words[Max(s)])]
           step == [k \in 1..n |-> [l \in Parsed |-> TakeWord(l, words[k])]]
           it == CHOOSE g : Eq(g)
<1>1. n \in Nat /\ DOMAIN words = 1..n /\ \A k \in 1..n : words[k] \in Word
  OBVIOUS
<1>2. Nothing \in Parsed /\ step \in [1..n -> [Parsed -> Parsed]]
  <2> HIDE DEF n
  <2>1. QED  BY <1>1, TakeTypes
<1>3. PICK g \in [SUBSET (1..n) -> Parsed] : Folding(g, Nothing, step, n)
  <2> DEFINE T == Parsed
             base == Nothing
  <2>1. n \in Nat /\ base \in T /\ step \in [1..n -> [T -> T]]
    BY <1>1, <1>2
  <2> HIDE DEF n, step, T, base
  <2>2. \E g \in [SUBSET (1..n) -> T] : Folding(g, base, step, n)
    BY <2>1, FoldExists
  <2>3. QED  BY <2>2 DEF T, base
<1>4. Eq(g)
  <2>1. ASSUME NEW s \in SUBSET (1..n)
        PROVE  g[s] = IF s = {} THEN Nothing ELSE TakeWord(g[s \ {Max(s)}], words[Max(s)])
    <3>1. CASE s = {}
      BY <1>3, <3>1 DEF Folding
    <3>2. CASE s # {}
      <4>1. Max(s) \in 1..n /\ g[s \ {Max(s)}] \in Parsed
        <5>1. Max(s) \in s
          BY <1>1, <3>2, MaxIn
        <5>2. QED  BY <5>1
      <4>2. g[s] = step[Max(s)][g[s \ {Max(s)}]]
        BY <1>3, <3>2 DEF Folding
      <4>3. QED  BY <3>2, <4>1, <4>2
    <3>3. QED  BY <3>1, <3>2
  <2>2. QED  BY <2>1
<1>5. Eq(it)
  <2> HIDE DEF Eq
  <2>1. QED  BY <1>4
<1>6. parse_smart_query(words) = it[1..n]
  BY <1>1 DEF parse_smart_query, FoldLeft, MapThenFoldSet
<1> HIDE DEF it
<1> DEFINE h == [k \in 0..n |-> it[1..k]]
<1>7. h[0] = Nothing /\ h[n] = it[1..n]
  BY <1>1, <1>5
<1>8. ASSUME NEW k \in 1..n PROVE h[k] = TakeWord(h[k - 1], words[k])
  <2>1. 1..k \in SUBSET (1..n) /\ k \in 1..k /\ (1..k) \ {k} = 1..(k - 1)
    BY <1>1
  <2>2. Max(1..k) = k
    <3>1. Max(1..k) \in 1..k /\ Max(1..k) >= k
      BY <1>1, <2>1, MaxIn
    <3>2. QED  BY <3>1
  <2>3. it[1..k] = TakeWord(it[1..(k - 1)], words[k])
    BY <1>5, <2>1, <2>2
  <2>4. QED  BY <2>3
<1>9. h \in [0..n -> Parsed]
  <2> DEFINE Good == {k \in 0..n : h[k] \in Parsed}
  <2>1. 0 \in Good
    <3> HIDE DEF h
    <3>1. QED  BY <1>1, <1>2, <1>7
  <2>2. ASSUME NEW k \in 1..n, k - 1 \in Good PROVE k \in Good
    <3>1. h[k - 1] \in Parsed
      BY <2>2
    <3> HIDE DEF h
    <3>2. h[k] \in Parsed
      BY <1>1, <1>8, <3>1, TakeTypes
    <3>3. QED  BY <1>1, <3>2
  <2>3. \A k \in 0..n : k \in Good
    <3> HIDE DEF Good
    <3>1. QED  BY <1>1, <2>1, <2>2, AllTheWay
  <2>4. QED  BY <2>3
<1> HIDE DEF h
<1>10. QED  BY <1>6, <1>7, <1>8, <1>9 DEF TakeLoop

LEMMA EarliestFacts ==
  ASSUME NEW n \in Nat, NEW places \in SUBSET (1..n)
  PROVE  \/ places = {} /\ Earliest(places) = 0
         \/ Earliest(places) \in places /\ \A i \in places : Earliest(places) <= i
BY MinIn DEF Earliest

\* pos are the positions in S, in their order, and the part of the list there.
LiesAt(pos, part, list, S) ==
  /\ pos \in [1..Len(part) -> S]
  /\ \A i, j \in 1..Len(part) : i < j => pos[i] < pos[j]
  /\ \A k \in 1..Len(part) : part[k] = list[pos[k]]
  /\ \A i \in S : \E k \in 1..Len(part) : pos[k] = i

\* One position more, after all of the others.
LEMMA LiesOneMore ==
  ASSUME NEW P, NEW part \in Seq(P), NEW list, NEW S \in SUBSET Nat, NEW pos, LiesAt(pos, part, list, S),
         NEW k \in Nat, \A i \in S : i < k, list[k] \in P
  PROVE  \E new : LiesAt(new, Append(part, list[k]), list, S \cup {k})
<1> DEFINE m == Len(part)
           more == Append(part, list[k])
           new == [i \in 1..(m + 1) |-> IF i = m + 1 THEN k ELSE pos[i]]
<1>1. /\ m \in Nat /\ Len(more) = m + 1 /\ more[m + 1] = list[k]
      /\ \A i \in 1..m : more[i] = part[i]
  OBVIOUS
<1>2. /\ pos \in [1..m -> S]
      /\ \A i, j \in 1..m : i < j => pos[i] < pos[j]
      /\ \A i \in 1..m : part[i] = list[pos[i]]
      /\ \A i \in S : \E l \in 1..m : pos[l] = i
  BY DEF LiesAt
<1> HIDE DEF m, more
<1>3. new \in [1..(m + 1) -> S \cup {k}]
  BY <1>1, <1>2
<1>4. ASSUME NEW i \in 1..(m + 1), NEW j \in 1..(m + 1), i < j PROVE new[i] < new[j]
  <2>1. i \in 1..m /\ new[i] = pos[i] /\ pos[i] \in S /\ pos[i] < k
    <3>1. i \in 1..m /\ i # m + 1
      BY <1>1, <1>4
    <3>2. new[i] = pos[i]
      BY <3>1
    <3> HIDE DEF new
    <3>3. pos[i] \in S
      BY <1>2, <3>1
    <3>4. QED  BY <3>1, <3>2, <3>3
  <2>2. CASE j = m + 1
    BY <1>1, <2>1, <2>2
  <2>3. CASE j # m + 1
    <3>1. j \in 1..m /\ new[j] = pos[j] /\ pos[i] < pos[j]
      BY <1>1, <1>2, <1>4, <2>1, <2>3
    <3>2. QED  BY <2>1, <3>1
  <2>4. QED  BY <2>2, <2>3
<1>5. \A i \in 1..(m + 1) : more[i] = list[new[i]]
  BY <1>1, <1>2
<1>6. \A i \in S \cup {k} : \E l \in 1..(m + 1) : new[l] = i
  <2> SUFFICES ASSUME NEW i \in S \cup {k} PROVE \E l \in 1..(m + 1) : new[l] = i
    OBVIOUS
  <2>1. CASE i = k
    <3>1. m + 1 \in 1..(m + 1) /\ new[m + 1] = k
      BY <1>1
    <3>2. QED  BY <2>1, <3>1
  <2>2. CASE i # k
    <3>1. PICK l \in 1..m : pos[l] = i
      BY <1>2, <2>2
    <3>2. l \in 1..(m + 1) /\ new[l] = i
      BY <1>1, <3>1
    <3>3. QED  BY <3>2
  <2>3. QED  BY <2>1, <2>2
<1> HIDE DEF new
<1>7. LiesAt(new, more, list, S \cup {k})
  BY <1>1, <1>3, <1>4, <1>5, <1>6 DEF LiesAt
<1>8. QED  BY <1>7 DEF more

InTheirOrder(list, S) ==
  [k \in 1..Cardinality(S) |-> list[CHOOSE i \in S : Cardinality({j \in S : j < i}) = k - 1]]

\* The kth of the positions is the one with k - 1 before it.
LEMMA LiesCounted ==
  ASSUME NEW P, NEW part \in Seq(P), NEW list, NEW S \in SUBSET Nat, NEW pos, LiesAt(pos, part, list, S)
  PROVE  /\ Cardinality(S) = Len(part)
         /\ part = InTheirOrder(list, S)
<1> DEFINE m == Len(part)
<1>1. m \in Nat /\ DOMAIN part = 1..m /\ part = [k \in 1..m |-> part[k]]
  OBVIOUS
<1>2. /\ pos \in [1..m -> S]
      /\ \A i, j \in 1..m : i < j => pos[i] < pos[j]
      /\ \A k \in 1..m : part[k] = list[pos[k]]
      /\ \A i \in S : \E k \in 1..m : pos[k] = i
  BY DEF LiesAt
<1> HIDE DEF m
<1>3. \A i, j \in 1..m : pos[i] = pos[j] => i = j
  BY <1>1, <1>2
<1>4. Cardinality(S) = m
  <2>1. pos \in Bijection(1..m, S)
    BY <1>2, <1>3 DEF Bijection, Injection, Surjection, IsInjective
  <2>2. IsFiniteSet(1..m) /\ Cardinality(1..m) = m
    <3>1. m \in Int /\ m >= 0 /\ 1 \in Int
      BY <1>1
    <3>2. QED  BY <3>1, FS_Interval
  <2>3. QED  BY <2>1, <2>2, FS_Bijection DEF ExistsBijection
<1>5. ASSUME NEW k \in 1..m PROVE Cardinality({j \in S : j < pos[k]}) = k - 1
  <2> DEFINE B == {j \in S : j < pos[k]}
             low == [i \in 1..(k - 1) |-> pos[i]]
  <2>1. low \in [1..(k - 1) -> B]
    BY <1>1, <1>2
  <2>2. \A i, j \in 1..(k - 1) : low[i] = low[j] => i = j
    BY <1>1, <1>3
  <2>3. \A j \in B : \E i \in 1..(k - 1) : low[i] = j
    <3> SUFFICES ASSUME NEW j \in B PROVE \E i \in 1..(k - 1) : low[i] = j
      OBVIOUS
    <3>1. PICK i \in 1..m : pos[i] = j
      BY <1>2
    <3>2. pos[i] < pos[k] /\ pos[k] \in Nat /\ pos[i] \in Nat
      BY <1>2, <3>1
    <3>3. i < k
      <4>1. ~ k < i
        BY <1>2, <3>2
      <4>2. i # k
        BY <3>2
      <4>3. QED  BY <1>1, <4>1, <4>2
    <3>4. i \in 1..(k - 1) /\ low[i] = j
      BY <3>1, <3>3
    <3>5. QED  BY <3>4
  <2> HIDE DEF low, B
  <2>4. low \in Bijection(1..(k - 1), B)
    BY <2>1, <2>2, <2>3 DEF Bijection, Injection, Surjection, IsInjective
  <2>5. IsFiniteSet(1..(k - 1)) /\ Cardinality(1..(k - 1)) = k - 1
    <3>1. 1 \in Int /\ k - 1 \in Int /\ k - 1 >= 0
      BY <1>1
    <3>2. QED  BY <3>1, FS_Interval
  <2>6. QED  BY <2>4, <2>5, FS_Bijection DEF ExistsBijection, B
<1>6. ASSUME NEW k \in 1..m PROVE (CHOOSE i \in S : Cardinality({j \in S : j < i}) = k - 1) = pos[k]
  <2>1. pos[k] \in S /\ Cardinality({j \in S : j < pos[k]}) = k - 1
    BY <1>2, <1>5
  <2>2. ASSUME NEW i \in S, Cardinality({j \in S : j < i}) = k - 1 PROVE i = pos[k]
    <3>1. PICK l \in 1..m : pos[l] = i
      BY <1>2
    <3>2. Cardinality({j \in S : j < i}) = l - 1
      BY <1>5, <3>1
    <3>3. l = k
      BY <1>1, <2>2, <3>2
    <3>4. QED  BY <3>1, <3>3
  <2>3. QED  BY <2>1, <2>2
<1>7. part = [k \in 1..m |-> list[CHOOSE i \in S : Cardinality({j \in S : j < i}) = k - 1]]
  BY <1>1, <1>2, <1>6
<1>8. QED  BY <1>4, <1>7 DEF m, InTheirOrder

\* What the words of the query are parsed to: the first brand, the first other
\* word that is a category, and the rest in its order.
LEMMA WordsParsed ==
  ASSUME SmartQueryConstants, query \in Seq(Word)
  PROVE  /\ parse_smart_query(query) \in Parsed
         /\ parse_smart_query(query).filters = [brand |-> NameAt(BrandAt), category |-> NameAt(CategoryAt)]
         /\ \E pos : LiesAt(pos, parse_smart_query(query).text, query,
                            {i \in DOMAIN query : i \notin {BrandAt, CategoryAt}})
<1> DEFINE n == Len(query)
           B == BrandAt
           C == CategoryAt
<1>1. n \in Nat /\ DOMAIN query = 1..n /\ \A k \in 1..n : query[k] \in Word /\ query[k] # NoName
  BY DEF SmartQueryConstants
<1>2. \/ B = 0 /\ \A i \in 1..n : query[i] \notin BrandName
      \/ B \in 1..n /\ query[B] \in BrandName /\ \A i \in 1..n : query[i] \in BrandName => B <= i
  <2> DEFINE places == {i \in DOMAIN query : query[i] \in BrandName}
  <2>1. n \in Nat /\ places \in SUBSET (1..n) /\ B = Earliest(places)
    BY <1>1 DEF BrandAt
  <2>2. \A i \in 1..n : i \in places <=> query[i] \in BrandName
    BY <1>1
  <2> HIDE DEF n, B, places
  <2>3. \/ places = {} /\ B = 0
        \/ B \in places /\ \A i \in places : B <= i
    BY <2>1, EarliestFacts
  <2>4. QED  BY <2>1, <2>2, <2>3
<1>3. \/ C = 0 /\ \A i \in 1..n : ~(query[i] \in CategoryName /\ i # B)
      \/ /\ C \in 1..n /\ query[C] \in CategoryName /\ C # B
         /\ \A i \in 1..n : query[i] \in CategoryName /\ i # B => C <= i
  <2> DEFINE places == {i \in DOMAIN query : query[i] \in CategoryName /\ i # B}
  <2>1. n \in Nat /\ places \in SUBSET (1..n) /\ C = Earliest(places)
    BY <1>1 DEF CategoryAt
  <2>2. \A i \in 1..n : i \in places <=> query[i] \in CategoryName /\ i # B
    BY <1>1
  <2> HIDE DEF n, B, C, places
  <2>3. \/ places = {} /\ C = 0
        \/ C \in places /\ \A i \in places : C <= i
    BY <2>1, EarliestFacts
  <2>4. QED  BY <2>1, <2>2, <2>3
<1>4. PICK h \in [0..n -> Parsed] : TakeLoop(h, query)
  BY TakeSteps
<1>5. /\ h[0] = Nothing /\ parse_smart_query(query) = h[n]
      /\ \A k \in 1..n : h[k] = TakeWord(h[k - 1], query[k])
  BY <1>4 DEF TakeLoop
<1> HIDE DEF n, B, C
<1> DEFINE Rest(k) == {i \in 1..k : i \notin {B, C}}
           Name(i, k) == IF i \in 1..k THEN query[i] ELSE NoName
           Has(k) == /\ h[k].filters = [brand |-> Name(B, k), category |-> Name(C, k)]
                     /\ \E pos : LiesAt(pos, h[k].text, query, Rest(k))
           Good == {k \in 0..n : Has(k)}
<1>6. 0 \in Good
  <2>1. 1..0 = {}
    OBVIOUS
  <2>2. h[0].text = <<>> /\ h[0].filters = [brand |-> Name(B, 0), category |-> Name(C, 0)]
    BY <1>5, <2>1 DEF Nothing
  <2>3. LiesAt([i \in 1..0 |-> i], <<>>, query, Rest(0))
    <3>1. Len(<<>>) = 0 /\ Rest(0) = {}
      BY <2>1
    <3>2. QED  BY <2>1, <3>1 DEF LiesAt
  <2>4. Has(0)
    BY <2>2, <2>3
  <2> HIDE DEF Has
  <2>5. QED  BY <1>1, <2>4
<1>7. ASSUME NEW k \in 1..n, k - 1 \in Good PROVE k \in Good
  <2> DEFINE l == h[k - 1]
             w == query[k]
  <2>1. l \in Parsed /\ h[k] = TakeWord(l, w) /\ w \in Word /\ w # NoName /\ k - 1 \in 0..n
    BY <1>1, <1>5, <1>7
  <2>2. Has(k - 1)
    BY <1>7
  <2>3. l.filters = [brand |-> Name(B, k - 1), category |-> Name(C, k - 1)]
    BY <2>2
  <2>4. PICK pos : LiesAt(pos, l.text, query, Rest(k - 1))
    BY <2>2
  <2>5. \A i \in Nat : i # k => (i \in 1..k <=> i \in 1..(k - 1))
    BY <1>1
  <2>6. B \in Nat /\ C \in Nat
    BY <1>1, <1>2, <1>3
  <2>7. l.filters.brand = NoName <=> B \notin 1..(k - 1)
    BY <1>1, <2>3
  <2>8. l.filters.category = NoName <=> C \notin 1..(k - 1)
    BY <1>1, <2>3
  <2> HIDE DEF Has, l, w
  <2>9. k = B <=> w \in BrandName /\ l.filters.brand = NoName
    BY <1>1, <1>2, <2>7 DEF w
  <2>10. k = C <=> w \in CategoryName /\ k # B /\ l.filters.category = NoName
    BY <1>1, <1>3, <2>8 DEF w
  <2>11. Has(k)
    <3>1. CASE k = B
      <4>1. h[k] = [l EXCEPT !.filters.brand = w] /\ C # k
        BY <1>2, <1>3, <2>1, <2>9, <3>1 DEF TakeWord
      <4>2. h[k].text = l.text /\ h[k].filters = [brand |-> w, category |-> Name(C, k - 1)]
        BY <2>1, <2>3, <4>1 DEF Parsed, Filters
      <4>3. Name(B, k) = w /\ Name(C, k) = Name(C, k - 1)
        BY <2>5, <2>6, <3>1, <4>1 DEF w
      <4>4. Rest(k) = Rest(k - 1)
        BY <2>5, <3>1
      <4>5. LiesAt(pos, h[k].text, query, Rest(k))
        BY <2>4, <4>2, <4>4
      <4>6. QED  BY <4>2, <4>3, <4>5 DEF Has
    <3>2. CASE k = C
      <4>1. h[k] = [l EXCEPT !.filters.category = w] /\ B # k
        BY <2>1, <2>9, <2>10, <3>2 DEF TakeWord
      <4>2. h[k].text = l.text /\ h[k].filters = [brand |-> Name(B, k - 1), category |-> w]
        BY <2>1, <2>3, <4>1 DEF Parsed, Filters
      <4>3. Name(C, k) = w /\ Name(B, k) = Name(B, k - 1)
        BY <2>5, <2>6, <3>2, <4>1 DEF w
      <4>4. Rest(k) = Rest(k - 1)
        BY <2>5, <3>2
      <4>5. LiesAt(pos, h[k].text, query, Rest(k))
        BY <2>4, <4>2, <4>4
      <4>6. QED  BY <4>2, <4>3, <4>5 DEF Has
    <3>3. CASE k # B /\ k # C
      <4>1. h[k] = [l EXCEPT !.text = Append(@, w)]
        BY <2>1, <2>9, <2>10, <3>3 DEF TakeWord
      <4>2. h[k].text = Append(l.text, w) /\ h[k].filters = l.filters
        BY <2>1, <4>1 DEF Parsed, Filters
      <4>3. Name(C, k) = Name(C, k - 1) /\ Name(B, k) = Name(B, k - 1)
        BY <2>5, <2>6, <3>3
      <4>4. Rest(k) = Rest(k - 1) \cup {k}
        BY <2>5, <3>3
      <4>5. \E new : LiesAt(new, Append(l.text, query[k]), query, Rest(k - 1) \cup {k})
        <5> DEFINE S == Rest(k - 1)
                   part == l.text
        <5>1. S \in SUBSET Nat /\ (\A i \in S : i < k) /\ part \in Seq(Word) /\ k \in Nat /\ query[k] \in Word
          BY <1>1, <2>1 DEF Parsed
        <5>2. LiesAt(pos, part, query, S)
          BY <2>4
        <5> HIDE DEF S, part
        <5>3. \E new : LiesAt(new, Append(part, query[k]), query, S \cup {k})
          BY <5>1, <5>2, LiesOneMore
        <5>4. QED  BY <5>3 DEF S, part
      <4>6. \E new : LiesAt(new, h[k].text, query, Rest(k))
        BY <4>2, <4>4, <4>5 DEF w
      <4>7. QED  BY <2>3, <4>2, <4>3, <4>6 DEF Has
    <3>4. QED  BY <3>1, <3>2, <3>3
  <2>12. QED  BY <1>1, <2>11
<1>8. Has(n)
  <2> HIDE DEF Good
  <2>1. \A k \in 0..n : k \in Good
    BY <1>1, <1>6, <1>7, AllTheWay
  <2>2. n \in Good
    BY <1>1, <2>1
  <2> HIDE DEF Has
  <2>3. QED  BY <2>2 DEF Good
<1>9. Name(B, n) = NameAt(B) /\ Name(C, n) = NameAt(C)
  BY <1>1, <1>2, <1>3 DEF NameAt
<1>10. h[n] \in Parsed
  BY <1>1
<1>11. Rest(n) = {i \in DOMAIN query : i \notin {B, C}}
  BY <1>1
<1>12. QED  BY <1>5, <1>8, <1>9, <1>10, <1>11 DEF B, C

WordsInv ==
  /\ query \in Seq(Word)
  /\ EveryWordCounts

SearchRight ==
  /\ found.filters = [brand |-> Or(chosen.brand, NameAt(BrandAt)),
                      category |-> Or(chosen.category, NameAt(CategoryAt))]
  /\ found.text =
       LET rest == {i \in DOMAIN query : i \notin {BrandAt, CategoryAt}} IN
       IF rest = {} THEN query ELSE InTheirOrder(query, rest)

LEMMA WordsCount ==
  SearchRight => EveryWordCounts
BY DEF SearchRight, EveryWordCounts, InTheirOrder

LEMMA WordsInit ==
  ASSUME SmartQueryInit
  PROVE  WordsInv
BY DEF SmartQueryInit, WordsInv, EveryWordCounts

LEMMA WordsNext ==
  ASSUME SmartQueryConstants, WordsInv, SmartQueryNext
  PROVE  WordsInv'
<1> DEFINE parsed == parse_smart_query(query)
           rest == {i \in DOMAIN query : i \notin {BrandAt, CategoryAt}}
           lies == InTheirOrder(query, rest)
<1>1. /\ found' = [text |-> IF parsed.text = <<>> THEN query ELSE parsed.text,
                   filters |-> [brand |-> Or(chosen.brand, parsed.filters.brand),
                                category |-> Or(chosen.category, parsed.filters.category)]]
      /\ query' = query /\ chosen' = chosen
  BY DEF SmartQueryNext, search_products
<1>2. query \in Seq(Word)
  BY DEF WordsInv
<1>3. parsed \in Parsed /\ parsed.filters = [brand |-> NameAt(BrandAt), category |-> NameAt(CategoryAt)]
  BY <1>2, WordsParsed
<1>4. PICK pos : LiesAt(pos, parsed.text, query, rest)
  BY <1>2, WordsParsed
<1>5. Cardinality(rest) = Len(parsed.text) /\ parsed.text = lies
  <2> DEFINE part == parsed.text
  <2>1. rest \in SUBSET Nat /\ part \in Seq(Word)
    BY <1>2, <1>3 DEF Parsed
  <2>2. LiesAt(pos, part, query, rest)
    BY <1>4
  <2> HIDE DEF rest, part
  <2>3. /\ Cardinality(rest) = Len(part)
        /\ part = InTheirOrder(query, rest)
    BY <2>1, <2>2, LiesCounted
  <2>4. QED  BY <2>3 DEF part
<1>6. parsed.text = <<>> <=> rest = {}
  <2>1. rest = {} => Len(parsed.text) = 0
    BY <1>5, FS_EmptySet
  <2>2. rest # {} => Len(parsed.text) # 0
    <3>1. rest # {} => 1..Len(parsed.text) # {}
      BY <1>4 DEF LiesAt
    <3>2. QED  BY <3>1
  <2>3. parsed.text \in Seq(Word)
    BY <1>3 DEF Parsed
  <2> HIDE DEF rest, parsed
  <2>4. QED  BY <2>1, <2>2, <2>3
<1>7. /\ found'.filters = [brand |-> Or(chosen.brand, NameAt(BrandAt)),
                           category |-> Or(chosen.category, NameAt(CategoryAt))]
      /\ found'.text = IF rest = {} THEN query ELSE lies
  <2> HIDE DEF rest, lies, parsed
  <2>1. QED  BY <1>1, <1>3, <1>5, <1>6
<1>8. EveryWordCounts'
  <2>1. BrandAt' = BrandAt /\ CategoryAt' = CategoryAt
    BY <1>1 DEF BrandAt, CategoryAt
  <2>2. NameAt(BrandAt)' = NameAt(BrandAt) /\ NameAt(CategoryAt)' = NameAt(CategoryAt)
    BY <1>1, <2>1 DEF NameAt
  <2>3. rest' = rest
    BY <1>1, <2>1
  <2>4. lies' = lies
    <3> HIDE DEF rest
    <3>1. QED  BY <1>1, <2>3 DEF InTheirOrder
  <2>5. SearchRight'
    <3> HIDE DEF rest, lies
    <3>1. /\ found'.filters = [brand |-> Or(chosen.brand, NameAt(BrandAt))',
                               category |-> Or(chosen.category, NameAt(CategoryAt))']
          /\ found'.text = IF rest' = {} THEN query' ELSE lies'
      BY <1>1, <1>7, <2>2, <2>3, <2>4 DEF Or
    <3>2. QED  BY <3>1 DEF SearchRight, rest, lies
  <2>6. QED  BY <2>5, WordsCount, PTL
<1>9. QED  BY <1>1, <1>2, <1>8 DEF WordsInv

-----------------------------------------------------------------------------
(* Lists of the history *)

\* Each thing once: the steps of the loop.
DistinctLoop(h, list) ==
  /\ h[0] = <<>> /\ Distinct(list) = h[Len(list)]
  /\ \A k \in 1..Len(list) :
       h[k] = IF Contains(h[k - 1], list[k]) \/ Len(h[k - 1]) >= Limit THEN h[k - 1] ELSE Append(h[k - 1], list[k])

LEMMA DistinctSteps ==
  ASSUME NEW P, NEW list \in Seq(P)
  PROVE  \E h \in [0..Len(list) -> Seq(P)] : DistinctLoop(h, list)
<1> DEFINE n == Len(list)
           Eq(g) == g = [s \in SUBSET (1..n) |->
             IF s = {} THEN <<>>
             ELSE IF Contains(g[s \ {Max(s)}], list[Max(s)]) \/ Len(g[s \ {Max(s)}]) >= Limit
                  THEN g[s \ {Max(s)}] ELSE Append(g[s \ {Max(s)}], list[Max(s)])]
           step == [k \in 1..n |-> [l \in Seq(P) |->
             IF Contains(l, list[k]) \/ Len(l) >= Limit THEN l ELSE Append(l, list[k])]]
           it == CHOOSE g : Eq(g)
<1>1. n \in Nat /\ DOMAIN list = 1..n /\ step \in [1..n -> [Seq(P) -> Seq(P)]] /\ <<>> \in Seq(P)
  OBVIOUS
<1>2. PICK g \in [SUBSET (1..n) -> Seq(P)] : Folding(g, <<>>, step, n)
  <2> DEFINE T == Seq(P)
             base == <<>>
  <2>1. n \in Nat /\ base \in T /\ step \in [1..n -> [T -> T]]
    BY <1>1
  <2> HIDE DEF n, step, T, base
  <2>2. \E g \in [SUBSET (1..n) -> T] : Folding(g, base, step, n)
    BY <2>1, FoldExists
  <2>3. QED  BY <2>2 DEF T, base
<1>3. Eq(g)
  <2>1. ASSUME NEW s \in SUBSET (1..n)
        PROVE  g[s] = IF s = {} THEN <<>>
                 ELSE IF Contains(g[s \ {Max(s)}], list[Max(s)]) \/ Len(g[s \ {Max(s)}]) >= Limit
                  THEN g[s \ {Max(s)}] ELSE Append(g[s \ {Max(s)}], list[Max(s)])
    <3>1. CASE s = {}
      BY <1>2, <3>1 DEF Folding
    <3>2. CASE s # {}
      <4>1. Max(s) \in 1..n /\ g[s \ {Max(s)}] \in Seq(P)
        <5>1. Max(s) \in s
          BY <1>1, <3>2, MaxIn
        <5>2. QED  BY <5>1
      <4>2. g[s] = step[Max(s)][g[s \ {Max(s)}]]
        BY <1>2, <3>2 DEF Folding
      <4>3. QED  BY <3>2, <4>1, <4>2
    <3>3. QED  BY <3>1, <3>2
  <2>2. QED  BY <2>1
<1>4. Eq(it)
  <2> HIDE DEF Eq
  <2>1. QED  BY <1>3
<1>5. Distinct(list) = it[1..n]
  BY <1>1 DEF Distinct, FoldLeft, MapThenFoldSet
<1> HIDE DEF it
<1> DEFINE h == [k \in 0..n |-> it[1..k]]
<1>6. h[0] = <<>> /\ h[n] = it[1..n]
  BY <1>1, <1>4
<1>7. ASSUME NEW k \in 1..n
      PROVE  h[k] = IF Contains(h[k - 1], list[k]) \/ Len(h[k - 1]) >= Limit THEN h[k - 1]
                    ELSE Append(h[k - 1], list[k])
  <2>1. 1..k \in SUBSET (1..n) /\ k \in 1..k /\ (1..k) \ {k} = 1..(k - 1)
    BY <1>1
  <2>2. Max(1..k) = k
    <3>1. Max(1..k) \in 1..k /\ Max(1..k) >= k
      BY <1>1, <2>1, MaxIn
    <3>2. QED  BY <3>1
  <2>3. it[1..k] = IF Contains(it[1..(k - 1)], list[k]) \/ Len(it[1..(k - 1)]) >= Limit THEN it[1..(k - 1)]
                   ELSE Append(it[1..(k - 1)], list[k])
    BY <1>4, <2>1, <2>2
  <2>4. QED  BY <2>3
<1>8. h \in [0..n -> Seq(P)]
  <2> DEFINE Good == {k \in 0..n : h[k] \in Seq(P)}
  <2>1. 0 \in Good
    <3> HIDE DEF h
    <3>1. h[0] \in Seq(P)
      BY <1>1, <1>6
    <3>2. QED  BY <1>1, <3>1
  <2>2. ASSUME NEW k \in 1..n, k - 1 \in Good PROVE k \in Good
    <3>1. list[k] \in P
      BY <1>1
    <3>2. h[k - 1] \in Seq(P)
      BY <2>2
    <3>3. h[k] \in Seq(P)
      <4> HIDE DEF h
      <4>1. Append(h[k - 1], list[k]) \in Seq(P)
        BY <3>1, <3>2, AppendProperties
      <4>2. QED  BY <1>7, <3>2, <4>1
    <3> HIDE DEF h
    <3>4. QED  BY <1>1, <3>3
  <2>3. \A k \in 0..n : k \in Good
    <3> HIDE DEF Good
    <3>1. QED  BY <1>1, <2>1, <2>2, AllTheWay
  <2>4. QED  BY <2>3
<1> HIDE DEF h
<1>9. QED  BY <1>5, <1>6, <1>7, <1>8 DEF DistinctLoop

\* pos are the first positions, among the first n of the list, of what is in
\* part: all such positions, or the first ones and part is full.
FirstPicks(pos, part, list, n) ==
  /\ pos \in [1..Len(part) -> 1..n]
  /\ \A i, j \in 1..Len(part) : i < j => pos[i] < pos[j]
  /\ \A k \in 1..Len(part) : part[k] = list[pos[k]] /\ \A j \in 1..n : j < pos[k] => list[j] # part[k]
  /\ Len(part) <= Limit
  /\ \A i \in 1..n : \/ \E k \in 1..Len(part) : part[k] = list[i]
                     \/ Len(part) = Limit /\ \A k \in 1..Len(part) : pos[k] < i

LEMMA DistinctPicks ==
  ASSUME NEW P, NEW list \in Seq(P), Limit \in Nat
  PROVE  Distinct(list) \in Seq(P) /\ \E pos : FirstPicks(pos, Distinct(list), list, Len(list))
<1> DEFINE n == Len(list)
<1>1. PICK h \in [0..n -> Seq(P)] : DistinctLoop(h, list)
  BY DistinctSteps
<1>2. /\ h[0] = <<>> /\ Distinct(list) = h[n]
      /\ \A k \in 1..n : h[k] = IF Contains(h[k - 1], list[k]) \/ Len(h[k - 1]) >= Limit THEN h[k - 1]
                                ELSE Append(h[k - 1], list[k])
  BY <1>1 DEF DistinctLoop
<1>3. n \in Nat
  OBVIOUS
<1> DEFINE Has(k) == \E pos : FirstPicks(pos, h[k], list, k)
           Good == {k \in 0..n : Has(k)}
<1>4. 0 \in Good
  <2> DEFINE pos == [i \in 1..0 |-> i]
  <2>1. FirstPicks(pos, <<>>, list, 0)
    <3>1. Len(<<>>) = 0 /\ 1..0 = {}
      OBVIOUS
    <3>2. QED  BY <3>1 DEF FirstPicks
  <2> HIDE DEF pos
  <2>2. Has(0)
    BY <1>2, <2>1
  <2> HIDE DEF Has
  <2>3. QED  BY <1>3, <2>2
<1>5. ASSUME NEW k \in 1..n, k - 1 \in Good PROVE k \in Good
  <2>1. PICK pos : FirstPicks(pos, h[k - 1], list, k - 1)
    BY <1>5
  <2>2. h[k - 1] \in Seq(P) /\ k - 1 \in Nat
    <3>1. k - 1 \in 0..n /\ k - 1 \in Nat
      BY <1>3
    <3> HIDE DEF n
    <3>2. QED  BY <3>1
  <2> DEFINE part == h[k - 1]
             m == Len(part)
  <2>3. m \in Nat
    BY <2>2
  <2>4. /\ pos \in [1..m -> 1..(k - 1)]
        /\ \A i, j \in 1..m : i < j => pos[i] < pos[j]
        /\ \A i \in 1..m : part[i] = list[pos[i]] /\ \A j \in 1..(k - 1) : j < pos[i] => list[j] # part[i]
        /\ m <= Limit
        /\ \A i \in 1..(k - 1) : \/ \E l \in 1..m : part[l] = list[i]
                                 \/ m = Limit /\ \A l \in 1..m : pos[l] < i
    BY <2>1 DEF FirstPicks
  <2>5. CASE Contains(part, list[k]) \/ m >= Limit
    <3>1. h[k] = part
      BY <1>2, <2>5
    <3>2. (\E l \in 1..m : part[l] = list[k]) \/ m = Limit
      BY <2>3, <2>4, <2>5 DEF Contains
    <3> HIDE DEF part, m
    <3>3. /\ pos \in [1..m -> 1..k]
          /\ \A i \in 1..m : pos[i] < k
      <4>1. k \in Nat /\ 1..(k - 1) \subseteq 1..k /\ \A i \in 1..(k - 1) : i < k
        BY <1>3
      <4>2. QED  BY <2>4, <4>1
    <3>4. \A i \in 1..m : \A j \in 1..k : j < pos[i] => list[j] # part[i]
      <4> SUFFICES ASSUME NEW i \in 1..m, NEW j \in 1..k, j < pos[i] PROVE list[j] # part[i]
        OBVIOUS
      <4>1. j \in 1..(k - 1)
        BY <2>4
      <4>2. QED  BY <2>4, <4>1
    <3>5. \A i \in 1..k : \/ \E l \in 1..m : part[l] = list[i]
                          \/ m = Limit /\ \A l \in 1..m : pos[l] < i
      <4> SUFFICES ASSUME NEW i \in 1..k
                   PROVE  \/ \E l \in 1..m : part[l] = list[i]
                          \/ m = Limit /\ \A l \in 1..m : pos[l] < i
        OBVIOUS
      <4>1. CASE i = k
        BY <3>2, <3>3, <4>1
      <4>2. CASE i # k
        <5>1. i \in 1..(k - 1)
          BY <4>2
        <5>2. QED  BY <2>4, <5>1
      <4>3. QED  BY <4>1, <4>2
    <3>6. FirstPicks(pos, part, list, k)
      BY <2>4, <3>3, <3>4, <3>5 DEF FirstPicks, m
    <3>7. Has(k)
      BY <3>1, <3>6
    <3> HIDE DEF Has
    <3>8. QED  BY <1>3, <3>7
  <2>6. CASE ~(Contains(part, list[k]) \/ m >= Limit)
    <3> DEFINE new == [i \in 1..(m + 1) |-> IF i = m + 1 THEN k ELSE pos[i]]
               more == Append(part, list[k])
    <3>1. h[k] = more
      BY <1>2, <2>6
    <3>2. Len(more) = m + 1 /\ more[m + 1] = list[k] /\ \A i \in 1..m : more[i] = part[i]
      BY <2>2
    <3>3. m < Limit /\ \A i \in 1..m : part[i] # list[k]
      BY <2>3, <2>6 DEF Contains
    <3> HIDE DEF more, m, part
    <3>4. new \in [1..(m + 1) -> 1..k]
      BY <2>3, <2>4
    <3>5. \A i, j \in 1..(m + 1) : i < j => new[i] < new[j]
      BY <2>3, <2>4
    <3>6. ASSUME NEW i \in 1..(m + 1) PROVE more[i] = list[new[i]] /\ \A j \in 1..k : j < new[i] => list[j] # more[i]
      <4>1. CASE i = m + 1
        <5>1. new[i] = k /\ more[i] = list[k]
          BY <3>2, <4>1
        <5>2. ASSUME NEW j \in 1..k, j < k PROVE list[j] # list[k]
          <6>1. j \in 1..(k - 1)
            BY <5>2
          <6>2. PICK l \in 1..m : part[l] = list[j]
            BY <2>3, <2>4, <3>3, <6>1
          <6>3. QED  BY <3>3, <6>2
        <5>3. QED  BY <5>1, <5>2
      <4>2. CASE i # m + 1
        <5>1. i \in 1..m /\ new[i] = pos[i] /\ more[i] = part[i]
          BY <2>3, <3>2, <4>2
        <5>2. \A j \in 1..k : j < pos[i] => j \in 1..(k - 1)
          BY <2>4, <5>1
        <5>3. QED  BY <2>4, <5>1, <5>2
      <4>3. QED  BY <4>1, <4>2
    <3>7. m + 1 <= Limit
      BY <2>3, <3>3
    <3>8. \A i \in 1..k : \E l \in 1..(m + 1) : more[l] = list[i]
      <4> SUFFICES ASSUME NEW i \in 1..k PROVE \E l \in 1..(m + 1) : more[l] = list[i]
        OBVIOUS
      <4>1. CASE i = k
        <5>1. m + 1 \in 1..(m + 1)
          BY <2>3
        <5>2. QED  BY <3>2, <4>1, <5>1
      <4>2. CASE i # k
        <5>1. i \in 1..(k - 1)
          BY <4>2
        <5>2. PICK l \in 1..m : part[l] = list[i]
          BY <2>3, <2>4, <3>3, <5>1
        <5>3. l \in 1..(m + 1)
          BY <2>3
        <5>4. QED  BY <3>2, <5>2, <5>3
      <4>3. QED  BY <4>1, <4>2
    <3> HIDE DEF new
    <3>9. FirstPicks(new, more, list, k)
      BY <3>2, <3>4, <3>5, <3>6, <3>7, <3>8 DEF FirstPicks
    <3>10. Has(k)
      BY <3>1, <3>9
    <3> HIDE DEF Has
    <3>11. QED  BY <1>3, <3>10
  <2>7. QED  BY <2>5, <2>6
<1>6. Has(n)
  <2> HIDE DEF Good
  <2>1. \A k \in 0..n : k \in Good
    BY <1>3, <1>4, <1>5, AllTheWay
  <2>2. n \in Good
    BY <1>3, <2>1
  <2> HIDE DEF Has
  <2>3. QED  BY <2>2 DEF Good
<1>7. QED  BY <1>2, <1>3, <1>6

\* Nothing twice, nothing else, and no more than the limit.
LEMMA DistinctFacts ==
  ASSUME NEW P, NEW list \in Seq(P), Limit \in Nat
  PROVE  /\ Distinct(list) \in Seq(P)
         /\ IsInjective(Distinct(list)) /\ Len(Distinct(list)) <= Limit
<1> DEFINE part == Distinct(list)
<1>1. part \in Seq(P) /\ \E pos : FirstPicks(pos, part, list, Len(list))
  BY DistinctPicks
<1>2. PICK pos : FirstPicks(pos, part, list, Len(list))
  BY <1>1
<1>3. Len(part) \in Nat /\ DOMAIN part = 1..Len(part) /\ Len(list) \in Nat
  BY <1>1
<1> HIDE DEF part
<1>4. ASSUME NEW i \in 1..Len(part), NEW j \in 1..Len(part), i < j PROVE part[i] # part[j]
  <2>1. pos[i] < pos[j] /\ pos[i] \in 1..Len(list)
    BY <1>2, <1>4 DEF FirstPicks
  <2>2. part[i] = list[pos[i]] /\ list[pos[i]] # part[j]
    BY <1>2, <2>1 DEF FirstPicks
  <2>3. QED  BY <2>2
<1>5. IsInjective(part)
  <2> SUFFICES ASSUME NEW i \in 1..Len(part), NEW j \in 1..Len(part), part[i] = part[j] PROVE i = j
    BY <1>3 DEF IsInjective
  <2>1. ~ i < j /\ ~ j < i
    BY <1>4
  <2>2. QED  BY <1>3, <2>1
<1>6. Len(part) <= Limit
  BY <1>2 DEF FirstPicks
<1>7. QED  BY <1>1, <1>5, <1>6 DEF part

LEMMA TakenFacts ==
  ASSUME NEW P, NEW list \in Seq(P), NEW n \in Nat
  PROVE  /\ Taken(list, n) \in Seq(P)
         /\ Len(Taken(list, n)) = IF n <= Len(list) THEN n ELSE Len(list)
         /\ \A k \in 1..Len(Taken(list, n)) : Taken(list, n)[k] = list[k]
         /\ IsInjective(list) => IsInjective(Taken(list, n))
<1> DEFINE m == IF n <= Len(list) THEN n ELSE Len(list)
<1>1. m \in Nat /\ m <= Len(list) /\ Len(list) \in Nat /\ DOMAIN list = 1..Len(list)
  OBVIOUS
<1>2. Min({n, Len(list)}) = m
  BY <1>1, MinOfTwo
<1> HIDE DEF m
<1>3. Taken(list, n) = SubSeq(list, 1, m)
  BY <1>2 DEF Taken
<1>4. \A k \in 1..m : list[k] \in P
  BY <1>1
<1>5. /\ SubSeq(list, 1, m) \in Seq(P) /\ Len(SubSeq(list, 1, m)) = m
      /\ \A k \in 1..m : SubSeq(list, 1, m)[k] = list[k]
  BY <1>1, <1>4
<1>6. IsInjective(list) => IsInjective(SubSeq(list, 1, m))
  <2> DEFINE sub == SubSeq(list, 1, m)
  <2>1. DOMAIN sub = 1..m /\ \A k \in 1..m : sub[k] = list[k] /\ k \in DOMAIN list
    BY <1>1, <1>5
  <2> HIDE DEF sub
  <2>2. IsInjective(list) => IsInjective(sub)
    BY <2>1 DEF IsInjective
  <2>3. QED  BY <2>2 DEF sub
<1>7. QED  BY <1>3, <1>5, <1>6 DEF m

\* The first n of a set, in some order.
LEMMA FirstOfSet ==
  ASSUME NEW S, IsFiniteSet(S), NEW C \in SUBSET S, NEW l \in SetToSeqs(C), NEW n \in Nat
  PROVE  /\ Taken(l, n) \in Seq(S) /\ IsInjective(Taken(l, n)) /\ Len(Taken(l, n)) <= n
         /\ l \in Seq(S)
<1>1. Cardinality(C) \in Nat
  BY FS_Subset, FS_CardinalityType
<1>2. l \in [1..Cardinality(C) -> C] /\ \A i, j \in 1..Cardinality(C) : i # j => l[i] # l[j]
  BY DEF SetToSeqs
<1>3. l \in Seq(S) /\ IsInjective(l)
  <2>1. l \in [1..Cardinality(C) -> S]
    BY <1>2
  <2> DEFINE c == Cardinality(C)
  <2>2. c \in Nat /\ l \in [1..c -> S]
    BY <1>1, <2>1
  <2> HIDE DEF c
  <2>3. l \in Seq(S)
    BY <2>2
  <2>4. QED  BY <1>2, <2>3 DEF IsInjective
<1>4. Len(Taken(l, n)) <= n
  <2>1. Len(Taken(l, n)) = IF n <= Len(l) THEN n ELSE Len(l)
    BY <1>3, TakenFacts
  <2>2. Len(l) \in Nat
    BY <1>3
  <2>3. QED  BY <2>1, <2>2
<1>5. QED  BY <1>3, <1>4, TakenFacts

\* p are the m views of the user, the newest first; recent are the views of the
\* window.
Newest(p, m, u, recent) ==
  /\ m \in Nat /\ p \in [1..m -> DOMAIN views]
  /\ \A i, j \in 1..m : i < j => p[j] < p[i]
  /\ \A i \in 1..m : p[i] \in ViewsOf(u)
  /\ \A k \in ViewsOf(u) : \E i \in 1..m : p[i] = k
  /\ recent \in Seq(View) /\ Len(recent) = IF Window <= m THEN Window ELSE m
  /\ \A k \in 1..Len(recent) : recent[k] = views[p[k]]

LEMMA NewestExists ==
  ASSUME AnalyticsConstants, views \in Seq(View), NEW u \in Customer
  PROVE  \E m, p : Newest(p, m, u, RecentViews(u))
<1> DEFINE set == [product : Product, user : {u}]
           mine == Only(views, set)
           m == Len(mine)
           n == Len(views)
           back == Reverse(mine)
           recent == Taken(back, Window)
<1>1. \A i \in 1..n : views[i] \in set <=> i \in ViewsOf(u)
  <2>1. \A v \in View : v \in set <=> v.user = u
    BY DEF View
  <2>2. DOMAIN views = 1..n /\ \A i \in 1..n : views[i] \in View
    OBVIOUS
  <2> HIDE DEF set, n
  <2>3. QED  BY <2>1, <2>2 DEF ViewsOf
<1>2. mine \in Seq(View) /\ \E pos : Picks(pos, mine, views, n, set)
  BY OnlyPicks
<1>3. PICK pos : Picks(pos, mine, views, n, set)
  BY <1>2
<1>4. /\ pos \in [1..m -> 1..n]
      /\ \A i, j \in 1..m : i < j => pos[i] < pos[j]
      /\ \A k \in 1..m : mine[k] = views[pos[k]] /\ views[pos[k]] \in set
      /\ \A i \in 1..n : views[i] \in set => \E k \in 1..m : pos[k] = i
  BY <1>3 DEF Picks
<1>5. m \in Nat /\ n \in Nat /\ DOMAIN views = 1..n /\ Window \in Nat
  BY <1>2 DEF AnalyticsConstants
<1>6. back \in Seq(View) /\ Len(back) = m /\ \A k \in 1..m : back[k] = mine[m - k + 1]
  <2>1. \A k \in 1..m : m - k + 1 \in 1..m /\ mine[m - k + 1] \in View
    BY <1>2, <1>5
  <2>2. back = [k \in 1..m |-> mine[m - k + 1]]
    BY DEF Reverse
  <2> HIDE DEF back, mine
  <2>3. back \in [1..m -> View]
    BY <2>1, <2>2
  <2> HIDE DEF m
  <2>4. QED  BY <1>5, <2>2, <2>3
<1>7. /\ recent \in Seq(View) /\ Len(recent) = IF Window <= m THEN Window ELSE m
      /\ \A k \in 1..Len(recent) : recent[k] = back[k]
  BY <1>5, <1>6, TakenFacts
<1> HIDE DEF mine, m, n, back, recent, set
<1> DEFINE p == [i \in 1..m |-> pos[m - i + 1]]
<1>8. \A i \in 1..m : m - i + 1 \in 1..m /\ p[i] = pos[m - i + 1]
  BY <1>5
<1>9. p \in [1..m -> 1..n]
  BY <1>4, <1>8
<1>10. ASSUME NEW i \in 1..m, NEW j \in 1..m, i < j PROVE p[j] < p[i]
  <2>1. m - j + 1 < m - i + 1
    BY <1>5, <1>10
  <2>2. pos[m - j + 1] < pos[m - i + 1]
    BY <1>4, <1>8, <2>1
  <2>3. QED  BY <1>8, <2>2
<1>11. \A i \in 1..m : p[i] \in ViewsOf(u)
  BY <1>1, <1>4, <1>8
<1>12. ASSUME NEW k \in ViewsOf(u) PROVE \E i \in 1..m : p[i] = k
  <2>1. k \in 1..n
    BY <1>5 DEF ViewsOf
  <2>2. PICK l \in 1..m : pos[l] = k
    BY <1>1, <1>4, <2>1
  <2>3. m - l + 1 \in 1..m /\ m - (m - l + 1) + 1 = l
    BY <1>5
  <2>4. p[m - l + 1] = k
    BY <2>2, <2>3
  <2>5. QED  BY <2>3, <2>4
<1> HIDE DEF p
<1>13. \A k \in 1..Len(recent) : recent[k] = views[p[k]]
  <2> SUFFICES ASSUME NEW k \in 1..Len(recent) PROVE recent[k] = views[p[k]]
    OBVIOUS
  <2>1. k \in 1..m
    BY <1>5, <1>7
  <2>2. recent[k] = mine[m - k + 1]
    BY <1>6, <1>7, <2>1
  <2>3. QED  BY <1>4, <1>8, <2>1, <2>2
<1>14. Newest(p, m, u, recent)
  BY <1>5, <1>7, <1>9, <1>10, <1>11, <1>12, <1>13 DEF Newest
<1>15. RecentViews(u) = recent
  BY DEF RecentViews, recent, back, mine, set
<1>16. QED  BY <1>14, <1>15

LEMMA LastViewed ==
  ASSUME AnalyticsConstants, views \in Seq(View)
  PROVE  LastViewedFirst
<1> SUFFICES ASSUME NEW u \in Customer
             PROVE  LET list == RecentlyViewed(u)
                        Later(x) == {y \in ViewedBy(u) : LastView(u, y) > LastView(u, x)}
                    IN
                    /\ ToSet(list) = {x \in InWindow(u) \cap published : Cardinality(Later(x)) < Limit}
                    /\ \A i, j \in DOMAIN list : i < j => LastView(u, list[i]) > LastView(u, list[j])
  BY DEF LastViewedFirst
<1> DEFINE recent == RecentViews(u)
           L == [i \in DOMAIN recent |-> recent[i].product]
           d == Distinct(L)
           list == Only(d, published)
           w == Len(recent)
           n == Len(views)
           Later(x) == {y \in ViewedBy(u) : LastView(u, y) > LastView(u, x)}
<1>1. PICK m, p : Newest(p, m, u, recent)
  BY NewestExists
<1>2. /\ m \in Nat /\ p \in [1..m -> 1..n]
      /\ \A i, j \in 1..m : i < j => p[j] < p[i]
      /\ \A i \in 1..m : p[i] \in ViewsOf(u)
      /\ \A k \in ViewsOf(u) : \E i \in 1..m : p[i] = k
      /\ recent \in Seq(View) /\ w = IF Window <= m THEN Window ELSE m
      /\ \A k \in 1..w : recent[k] = views[p[k]]
  BY <1>1 DEF Newest
<1>3. /\ n \in Nat /\ w \in Nat /\ Window \in Nat /\ Limit \in Nat /\ DOMAIN recent = 1..w
      /\ DOMAIN views = 1..n /\ \A i \in 1..n : views[i].product \in Product
  <2>1. Window \in Nat /\ Limit \in Nat
    BY DEF AnalyticsConstants
  <2>2. w \in Nat /\ DOMAIN recent = 1..w
    BY <1>2
  <2>3. \A v \in View : v.product \in Product
    BY DEF View
  <2>4. n \in Nat /\ DOMAIN views = 1..n /\ \A i \in 1..n : views[i] \in View
    OBVIOUS
  <2> HIDE DEF n, w, recent
  <2>5. QED  BY <2>1, <2>2, <2>3, <2>4
<1>4. L \in Seq(Product) /\ Len(L) = w /\ \A k \in 1..w : L[k] = views[p[k]].product
  <2>1. \A k \in 1..w : recent[k].product \in Product
    BY <1>2, <1>3 DEF View
  <2>2. L \in [1..w -> Product]
    BY <1>3, <2>1
  <2>3. \A k \in 1..w : L[k] = recent[k].product
    BY <1>3
  <2> HIDE DEF L, w
  <2>4. QED  BY <1>2, <1>3, <2>2, <2>3
<1>5. d \in Seq(Product) /\ \E q : FirstPicks(q, d, L, w)
  <2> HIDE DEF L
  <2>1. QED  BY <1>3, <1>4, DistinctPicks
<1>6. PICK q : FirstPicks(q, d, L, w)
  BY <1>5
<1>7. IsInjective(d) /\ Len(d) \in Nat /\ DOMAIN d = 1..Len(d)
  <2> HIDE DEF L
  <2>1. QED  BY <1>3, <1>4, <1>5, DistinctFacts
<1>8. /\ list \in Seq(Product) /\ ToSet(list) = ToSet(d) \cap published
      /\ \E pos : Picks(pos, list, d, Len(d), published)
  <2> HIDE DEF d
  <2>1. QED  BY <1>5, OnlyFacts, OnlyPicks
<1> DEFINE At(x) == CHOOSE j \in 1..m : p[j] = LastView(u, x)
<1> HIDE DEF recent, L, d, list, w, n
<1>9. ASSUME NEW x \in ViewedBy(u)
      PROVE  /\ At(x) \in 1..m /\ p[At(x)] = LastView(u, x) /\ views[p[At(x)]].product = x
             /\ \A i \in 1..m : i < At(x) => views[p[i]].product # x
  <2> DEFINE S == {i \in ViewsOf(u) : views[i].product = x}
  <2>1. S # {} /\ S \in SUBSET (1..n)
    BY <1>3, <1>9 DEF ViewedBy, ViewsOf
  <2>2. LastView(u, x) = Max(S)
    BY DEF LastView
  <2>3. Max(S) \in S /\ \A i \in S : Max(S) >= i
    <3> HIDE DEF S
    <3>1. QED  BY <1>3, <2>1, MaxIn
  <2>4. PICK j \in 1..m : p[j] = Max(S)
    BY <1>2, <2>3
  <2>5. At(x) \in 1..m /\ p[At(x)] = Max(S)
    BY <2>2, <2>4
  <2>6. ASSUME NEW i \in 1..m, i < At(x), views[p[i]].product = x PROVE FALSE
    <3>1. p[i] \in S /\ p[At(x)] < p[i]
      <4> HIDE DEF At
      <4>1. QED  BY <1>2, <2>5, <2>6
    <3>2. p[i] \in Nat
      BY <1>2, <1>3
    <3> HIDE DEF S, At
    <3>3. Max(S) >= p[i]
      BY <2>3, <3>1
    <3>4. Max(S) < p[i]
      BY <2>5, <3>1
    <3>5. Max(S) \in Nat
      <4>1. Max(S) \in 1..n
        BY <2>1, <2>3
      <4>2. QED  BY <1>3, <4>1
    <3>6. QED  BY <3>2, <3>3, <3>4, <3>5
  <2>7. QED  BY <2>2, <2>3, <2>5, <2>6
<1> HIDE DEF At
<1>10. ASSUME NEW x \in ViewedBy(u), NEW y \in ViewedBy(u)
      PROVE  LastView(u, y) > LastView(u, x) <=> At(y) < At(x)
  <2>1. At(x) \in 1..m /\ At(y) \in 1..m /\ p[At(x)] = LastView(u, x) /\ p[At(y)] = LastView(u, y)
    BY <1>9
  <2>2. p[At(x)] \in Nat /\ p[At(y)] \in Nat
    BY <1>2, <1>3, <2>1
  <2>3. At(y) < At(x) => p[At(x)] < p[At(y)]
    BY <1>2, <2>1
  <2>4. At(x) < At(y) => p[At(y)] < p[At(x)]
    BY <1>2, <2>1
  <2>5. At(x) = At(y) => p[At(x)] = p[At(y)]
    OBVIOUS
  <2>6. At(x) \in Nat /\ At(y) \in Nat
    BY <2>1
  <2>7. QED  BY <2>1, <2>2, <2>3, <2>4, <2>5, <2>6
<1>11. ASSUME NEW x \in ViewedBy(u) PROVE x \in InWindow(u) <=> At(x) <= w
  <2> DEFINE B == {i \in ViewsOf(u) : i > LastView(u, x)}
             k == At(x)
             low == [i \in 1..(k - 1) |-> p[i]]
  <2>1. k \in 1..m /\ p[k] = LastView(u, x)
    BY <1>9
  <2> HIDE DEF k
  <2>2. low \in [1..(k - 1) -> B]
    <3> SUFFICES ASSUME NEW i \in 1..(k - 1) PROVE p[i] \in B
      OBVIOUS
    <3>1. i \in 1..m /\ i < k
      BY <1>2, <2>1
    <3>2. p[k] < p[i] /\ p[i] \in ViewsOf(u) /\ p[i] \in Nat /\ p[k] \in Nat
      BY <1>2, <1>3, <2>1, <3>1
    <3>3. QED  BY <2>1, <3>2
  <2>3. \A i, j \in 1..(k - 1) : low[i] = low[j] => i = j
    <3> SUFFICES ASSUME NEW i \in 1..(k - 1), NEW j \in 1..(k - 1), p[i] = p[j] PROVE i = j
      OBVIOUS
    <3>1. i \in 1..m /\ j \in 1..m /\ p[i] \in Nat
      BY <1>2, <1>3, <2>1
    <3>2. ~ i < j /\ ~ j < i
      BY <1>2, <3>1
    <3>3. QED  BY <3>2
  <2>4. \A b \in B : \E i \in 1..(k - 1) : low[i] = b
    <3> SUFFICES ASSUME NEW b \in B PROVE \E i \in 1..(k - 1) : low[i] = b
      OBVIOUS
    <3>1. PICK i \in 1..m : p[i] = b
      BY <1>2
    <3>2. p[i] > p[k] /\ p[i] \in Nat /\ p[k] \in Nat
      BY <1>2, <1>3, <2>1, <3>1
    <3>3. ~ k < i /\ i # k
      BY <1>2, <2>1, <3>2
    <3>4. i \in 1..(k - 1)
      BY <1>2, <2>1, <3>3
    <3>5. QED  BY <3>1, <3>4
  <2> HIDE DEF low, B
  <2>5. low \in Bijection(1..(k - 1), B)
    BY <2>2, <2>3, <2>4 DEF Bijection, Injection, Surjection, IsInjective
  <2>6. IsFiniteSet(1..(k - 1)) /\ Cardinality(1..(k - 1)) = k - 1
    <3>1. 1 \in Int /\ k - 1 \in Int /\ k - 1 >= 0
      BY <1>2, <2>1
    <3>2. QED  BY <3>1, FS_Interval
  <2>7. Cardinality(B) = k - 1
    BY <2>5, <2>6, FS_Bijection DEF ExistsBijection
  <2>8. x \in InWindow(u) <=> k - 1 < Window
    BY <2>7, <1>11 DEF InWindow, B
  <2>9. QED  BY <1>2, <1>3, <2>1, <2>8 DEF k
<1>12. /\ q \in [1..Len(d) -> 1..w]
       /\ \A i, j \in 1..Len(d) : i < j => q[i] < q[j]
       /\ \A k \in 1..Len(d) : d[k] = L[q[k]] /\ \A j \in 1..w : j < q[k] => L[j] # d[k]
       /\ Len(d) <= Limit
       /\ \A i \in 1..w : \/ \E k \in 1..Len(d) : d[k] = L[i]
                          \/ Len(d) = Limit /\ \A k \in 1..Len(d) : q[k] < i
  BY <1>6 DEF FirstPicks
<1>13. ASSUME NEW k \in 1..Len(d) PROVE d[k] \in ViewedBy(u) /\ At(d[k]) = q[k]
  <2>1. q[k] \in 1..w /\ q[k] \in 1..m
    <3>1. q[k] \in 1..w
      BY <1>12
    <3>2. w <= m
      BY <1>2, <1>3
    <3>3. QED  BY <1>2, <1>3, <3>1, <3>2
  <2>2. views[p[q[k]]].product = d[k] /\ p[q[k]] \in ViewsOf(u)
    BY <1>2, <1>4, <1>12, <2>1
  <2>3. d[k] \in ViewedBy(u)
    BY <2>2 DEF ViewedBy
  <2>4. At(d[k]) \in 1..m /\ views[p[At(d[k])]].product = d[k]
    BY <1>9, <2>3
  <2>5. ~ q[k] < At(d[k])
    BY <1>9, <2>1, <2>2, <2>3
  <2>6. ~ At(d[k]) < q[k]
    <3> SUFFICES ASSUME At(d[k]) < q[k] PROVE FALSE
      OBVIOUS
    <3>1. At(d[k]) \in 1..w
      BY <1>2, <1>3, <2>1, <2>4
    <3>2. L[At(d[k])] = d[k]
      BY <1>4, <2>4, <3>1
    <3>3. QED  BY <1>12, <3>1, <3>2
  <2>7. QED  BY <1>2, <2>1, <2>3, <2>4, <2>5, <2>6
<1>14. IsFiniteSet(ViewedBy(u))
  <2>1. ViewedBy(u) \in SUBSET Product
    BY <1>3 DEF ViewedBy, ViewsOf
  <2>2. QED  BY <2>1, FS_Subset DEF AnalyticsConstants
<1>15. ASSUME NEW x \in ToSet(d) PROVE x \in InWindow(u) /\ Cardinality(Later(x)) < Limit
  <2>1. PICK k \in 1..Len(d) : d[k] = x
    BY <1>7 DEF ToSet
  <2>2. x \in ViewedBy(u) /\ At(x) = q[k] /\ q[k] \in 1..w
    BY <1>12, <1>13, <2>1
  <2>3. x \in InWindow(u)
    BY <1>11, <2>2
  <2> DEFINE low == [i \in 1..(k - 1) |-> d[i]]
             T == {d[i] : i \in 1..(k - 1)}
  <2>4. ASSUME NEW y \in Later(x) PROVE y \in T
    <3>1. y \in ViewedBy(u) /\ At(y) < At(x) /\ At(y) \in 1..m
      BY <1>9, <1>10, <2>2
    <3>2. At(y) \in 1..w /\ L[At(y)] = y
      BY <1>2, <1>3, <1>4, <1>9, <2>2, <3>1
    <3>3. ~ q[k] < At(y)
      BY <1>2, <1>3, <2>2, <3>1
    <3>4. PICK l \in 1..Len(d) : d[l] = y
      BY <1>12, <3>2, <3>3
    <3>5. q[l] = At(y)
      BY <1>13, <3>4
    <3>6. q[l] < q[k] /\ q[l] \in Nat /\ q[k] \in Nat
      BY <1>2, <1>12, <2>2, <3>1, <3>5
    <3>7. ~ k < l /\ k # l
      BY <1>12, <3>6
    <3>8. l \in 1..(k - 1)
      BY <1>7, <3>7
    <3>9. QED  BY <3>4, <3>8
  <2>5. IsFiniteSet(T) /\ Cardinality(T) <= k - 1
    <3>1. k - 1 \in Nat /\ k \in Nat
      BY <1>7
    <3>2. IsFiniteSet(1..(k - 1)) /\ Cardinality(1..(k - 1)) = k - 1
      <4>1. 1 \in Int /\ k - 1 \in Int /\ k - 1 >= 0
        BY <3>1
      <4>2. QED  BY <4>1, FS_Interval
    <3>3. low \in Surjection(1..(k - 1), T)
      BY DEF Surjection
    <3> HIDE DEF low, T
    <3>4. QED  BY <3>2, <3>3, FS_Surjection
  <2>6. Cardinality(Later(x)) <= Cardinality(T)
    <3>1. Later(x) \in SUBSET T
      BY <2>4
    <3> HIDE DEF T, Later
    <3>2. QED  BY <2>5, <3>1, FS_Subset
  <2>7. Cardinality(Later(x)) \in Nat /\ Cardinality(T) \in Nat
    <3>1. Later(x) \in SUBSET ViewedBy(u)
      OBVIOUS
    <3> HIDE DEF T, Later
    <3>2. QED  BY <1>14, <2>5, <3>1, FS_Subset, FS_CardinalityType
  <2> HIDE DEF T, Later
  <2>8. Cardinality(Later(x)) < Limit
    <3>1. Len(d) <= Limit /\ k \in Nat /\ k <= Len(d)
      BY <1>7, <1>12
    <3>2. QED  BY <1>3, <1>7, <2>5, <2>6, <2>7, <3>1
  <2>9. QED  BY <2>3, <2>8
<1>16. ASSUME NEW x \in InWindow(u), Cardinality(Later(x)) < Limit PROVE x \in ToSet(d)
  <2> SUFFICES ASSUME x \notin ToSet(d) PROVE FALSE
    OBVIOUS
  <2>1. x \in ViewedBy(u)
    BY DEF InWindow
  <2>2. At(x) \in 1..w /\ L[At(x)] = x
    BY <1>2, <1>3, <1>4, <1>9, <1>11, <2>1
  <2>3. ~ \E k \in 1..Len(d) : d[k] = x
    BY <1>7 DEF ToSet
  <2>4. Len(d) = Limit /\ \A k \in 1..Len(d) : q[k] < At(x)
    BY <1>12, <2>2, <2>3
  <2>5. ToSet(d) \in SUBSET Later(x)
    <3> SUFFICES ASSUME NEW k \in 1..Len(d) PROVE d[k] \in Later(x)
      BY <1>7 DEF ToSet
    <3>1. d[k] \in ViewedBy(u) /\ At(d[k]) < At(x)
      BY <1>13, <2>4
    <3>2. QED  BY <1>10, <2>1, <3>1
  <2>6. Cardinality(ToSet(d)) = Limit
    BY <1>5, <1>7, <2>4, InjectiveLength
  <2>7. Later(x) \in SUBSET ViewedBy(u)
    OBVIOUS
  <2> HIDE DEF Later
  <2>8. Cardinality(ToSet(d)) <= Cardinality(Later(x)) /\ Cardinality(Later(x)) \in Nat
    BY <1>14, <2>5, <2>7, FS_Subset, FS_CardinalityType
  <2>9. QED  BY <1>3, <1>16, <2>6, <2>8
<1>17. ToSet(list) = {x \in InWindow(u) \cap published : Cardinality(Later(x)) < Limit}
  <2> HIDE DEF Later
  <2>1. QED  BY <1>8, <1>15, <1>16
<1>18. ASSUME NEW i \in DOMAIN list, NEW j \in DOMAIN list, i < j
       PROVE  LastView(u, list[i]) > LastView(u, list[j])
  <2>1. PICK pos : Picks(pos, list, d, Len(d), published)
    BY <1>8
  <2>2. i \in 1..Len(list) /\ j \in 1..Len(list)
    BY <1>8
  <2>3. /\ pos[i] \in 1..Len(d) /\ pos[j] \in 1..Len(d) /\ pos[i] < pos[j]
        /\ list[i] = d[pos[i]] /\ list[j] = d[pos[j]]
    BY <1>18, <2>1, <2>2 DEF Picks
  <2>4. q[pos[i]] < q[pos[j]]
    BY <1>12, <2>3
  <2>5. /\ list[i] \in ViewedBy(u) /\ At(list[i]) = q[pos[i]]
        /\ list[j] \in ViewedBy(u) /\ At(list[j]) = q[pos[j]]
    BY <1>13, <2>3
  <2>6. QED  BY <1>10, <2>4, <2>5
<1>19. RecentlyViewed(u) = list
  BY DEF RecentlyViewed, list, d, L, recent
<1>20. QED  BY <1>17, <1>18, <1>19

-----------------------------------------------------------------------------
(* Sums and counts *)

\* A sum is what a part adds and what the rest adds.
LEMMA SumSplit ==
  ASSUME NEW S, IsFiniteSet(S), NEW T \in SUBSET S, NEW f, \A y \in S : f[y] \in Nat
  PROVE  /\ SumFunctionOnSet(f, S) \in Nat /\ SumFunctionOnSet(f, T) \in Nat
         /\ SumFunctionOnSet(f, S) = SumFunctionOnSet(f, T) + SumFunctionOnSet(f, S \ T)
<1> DEFINE F(U) == SumFunctionOnSet(f, U)
           Fits(U) == F(S) = F(U) + F(S \ U)
           Bad == {U \in SUBSET T : ~Fits(U)}
<1>1. \A U \in SUBSET S : IsFiniteSet(U) /\ F(U) \in Nat
  <2> SUFFICES ASSUME NEW U \in SUBSET S PROVE IsFiniteSet(U) /\ F(U) \in Nat
    OBVIOUS
  <2>1. IsFiniteSet(U) /\ \A y \in U : f[y] \in Nat
    BY FS_Subset
  <2>2. QED  BY <2>1, SumRemove
<1>2. IsFiniteSet(T) /\ S \in SUBSET S /\ F(S) \in Nat /\ F(T) \in Nat
  BY <1>1
<1>3. Fits(T)
  <2> SUFFICES ASSUME ~Fits(T) PROVE FALSE
    OBVIOUS
  <2>1. PICK U \in Bad : \A V \in SUBSET U : V # U => V \notin Bad
    <3>1. Bad \in SUBSET (SUBSET T) /\ Bad # {}
      OBVIOUS
    <3> HIDE DEF Bad
    <3>2. QED  BY <1>2, <3>1, LeastSubset
  <2>2. CASE U = {}
    <3>1. F({}) = 0
      BY SumZeros, FS_EmptySet
    <3>2. S \ {} = S
      OBVIOUS
    <3> HIDE DEF F
    <3>3. Fits({})
      BY <1>2, <3>1, <3>2
    <3>4. QED  BY <2>1, <2>2, <3>3
  <2>3. CASE U # {}
    <3>1. PICK x \in U : TRUE
      BY <2>3
    <3> DEFINE V == U \ {x}
    <3>2. Fits(V)
      <4>1. V \in SUBSET U /\ V # U /\ V \in SUBSET T
        BY <2>1, <3>1
      <4> HIDE DEF Fits, V
      <4>2. QED  BY <2>1, <4>1
    <3>3. x \in S /\ x \notin V /\ V \cup {x} = U /\ V \in SUBSET S /\ U \in SUBSET S
      BY <2>1, <3>1
    <3>4. x \notin S \ U /\ (S \ U) \cup {x} = S \ V /\ S \ U \in SUBSET S /\ S \ V \in SUBSET S
      BY <3>1, <3>3
    <3>5. F(U) = F(V) + f[x]
      <4>1. IsFiniteSet(V) /\ \A y \in V \cup {x} : f[y] \in Nat
        BY <1>1, <3>3
      <4> HIDE DEF V
      <4>2. SumFunctionOnSet(f, V \cup {x}) = SumFunctionOnSet(f, V) + f[x]
        BY <3>3, <4>1, SumAdd
      <4>3. QED  BY <3>3, <4>2
    <3>6. F(S \ V) = F(S \ U) + f[x]
      <4> DEFINE W == S \ U
      <4>1. IsFiniteSet(W) /\ x \notin W /\ \A y \in W \cup {x} : f[y] \in Nat
        BY <1>1, <3>3, <3>4
      <4> HIDE DEF W
      <4>2. SumFunctionOnSet(f, W \cup {x}) = SumFunctionOnSet(f, W) + f[x]
        BY <4>1, SumAdd
      <4>3. QED  BY <3>4, <4>2 DEF W
    <3>7. F(U) \in Nat /\ F(V) \in Nat /\ F(S \ U) \in Nat /\ F(S \ V) \in Nat /\ f[x] \in Nat
      BY <1>1, <3>3, <3>4
    <3> HIDE DEF F, V
    <3>8. Fits(U)
      BY <1>2, <3>2, <3>5, <3>6, <3>7
    <3>9. QED  BY <2>1, <3>8
  <2>4. QED  BY <2>2, <2>3
<1>4. QED  BY <1>2, <1>3

\* A sum is the sum of the sums of its parts.
Part(S, g, t) == {x \in S : g[x] = t}

LEMMA SumParts ==
  ASSUME NEW S, IsFiniteSet(S), NEW T, IsFiniteSet(T), NEW g, \A y \in S : g[y] \in T,
         NEW f, \A y \in S : f[y] \in Nat
  PROVE  SumFunctionOnSet(f, S) = SumFunctionOnSet([t \in T |-> SumFunctionOnSet(f, Part(S, g, t))], T)
<1> DEFINE F(U) == SumFunctionOnSet(f, U)
           G(U) == [t \in T |-> F(Part(U, g, t))]
           Fits(U) == F(U) = SumFunctionOnSet(G(U), T)
           Bad == {U \in SUBSET S : ~Fits(U)}
<1>1. \A U \in SUBSET S : IsFiniteSet(U) /\ F(U) \in Nat
  <2> SUFFICES ASSUME NEW U \in SUBSET S PROVE IsFiniteSet(U) /\ F(U) \in Nat
    OBVIOUS
  <2>1. IsFiniteSet(U) /\ \A y \in U : f[y] \in Nat
    BY FS_Subset
  <2>2. QED  BY <2>1, SumRemove
<1>2. \A U \in SUBSET S : \A t \in T : Part(U, g, t) \in SUBSET S /\ G(U)[t] = F(Part(U, g, t)) /\ G(U)[t] \in Nat
  BY <1>1 DEF Part
<1> SUFFICES ASSUME ~Fits(S) PROVE FALSE
  OBVIOUS
<1>3. PICK U \in Bad : \A V \in SUBSET U : V # U => V \notin Bad
  <2>1. Bad \in SUBSET (SUBSET S) /\ Bad # {}
    OBVIOUS
  <2> HIDE DEF Bad
  <2>2. QED  BY <2>1, LeastSubset
<1>4. CASE U = {}
  <2>1. F({}) = 0
    BY SumZeros, FS_EmptySet
  <2>2. \A t \in T : G({})[t] = 0
    <3>1. \A t \in T : Part({}, g, t) = {}
      BY DEF Part
    <3> HIDE DEF F
    <3>2. QED  BY <2>1, <3>1
  <2>3. SumFunctionOnSet(G({}), T) = 0
    <3> DEFINE none == G({})
    <3>1. \A t \in T : none[t] = 0
      BY <2>2
    <3> HIDE DEF none
    <3>2. SumFunctionOnSet(none, T) = 0
      BY <3>1, SumZeros
    <3>3. QED  BY <3>2 DEF none
  <2> HIDE DEF F, G
  <2>4. Fits({})
    BY <2>1, <2>3
  <2>5. QED  BY <1>3, <1>4, <2>4
<1>5. CASE U # {}
  <2>1. PICK x \in U : TRUE
    BY <1>5
  <2> DEFINE V == U \ {x}
             a == g[x]
  <2>2. Fits(V)
    <3>1. V \in SUBSET U /\ V # U /\ V \in SUBSET S
      BY <1>3, <2>1
    <3> HIDE DEF Fits, V
    <3>2. QED  BY <1>3, <3>1
  <2>3. x \in S /\ x \notin V /\ V \cup {x} = U /\ V \in SUBSET S /\ U \in SUBSET S /\ a \in T
    BY <1>3, <2>1
  <2>4. F(U) = F(V) + f[x]
    <3>1. IsFiniteSet(V) /\ \A y \in V \cup {x} : f[y] \in Nat
      BY <1>1, <2>3
    <3> HIDE DEF V
    <3>2. SumFunctionOnSet(f, V \cup {x}) = SumFunctionOnSet(f, V) + f[x]
      BY <2>3, <3>1, SumAdd
    <3>3. QED  BY <2>3, <3>2
  <2>5. ASSUME NEW t \in T, t # a PROVE G(U)[t] = G(V)[t]
    <3>1. Part(U, g, t) = Part(V, g, t)
      BY <2>3, <2>5 DEF Part
    <3>2. QED  BY <3>1
  <2>6. G(U)[a] = G(V)[a] + f[x]
    <3> DEFINE W == Part(V, g, a)
    <3>1. W \cup {x} = Part(U, g, a) /\ x \notin W /\ W \in SUBSET S
      BY <2>3 DEF Part
    <3>2. IsFiniteSet(W) /\ \A y \in W \cup {x} : f[y] \in Nat
      BY <1>1, <2>3, <3>1
    <3> HIDE DEF W
    <3>3. SumFunctionOnSet(f, W \cup {x}) = SumFunctionOnSet(f, W) + f[x]
      BY <3>1, <3>2, SumAdd
    <3>4. QED  BY <2>3, <3>1, <3>3 DEF W
  <2>7. \A t \in T : G(U)[t] \in Nat /\ G(V)[t] \in Nat
    BY <1>2, <2>3
  <2>8. SumFunctionOnSet(G(U), T) + G(V)[a] = SumFunctionOnSet(G(V), T) + G(U)[a]
        /\ SumFunctionOnSet(G(U), T) \in Nat /\ SumFunctionOnSet(G(V), T) \in Nat
    <3> DEFINE old_ == G(V)
               new_ == G(U)
    <3>1. \A t \in T : old_[t] \in Nat /\ new_[t] \in Nat /\ (t # a => old_[t] = new_[t])
      BY <2>5, <2>7
    <3> HIDE DEF old_, new_
    <3>2. /\ SumFunctionOnSet(old_, T) \in Nat /\ SumFunctionOnSet(new_, T) \in Nat
          /\ SumFunctionOnSet(new_, T) + old_[a] = SumFunctionOnSet(old_, T) + new_[a]
      <4>1. a \in T
        BY <2>3
      <4> HIDE DEF a
      <4>2. QED  BY <3>1, <4>1, SumChange
    <3>3. QED  BY <3>2 DEF old_, new_
  <2>9. f[x] \in Nat /\ G(U)[a] \in Nat /\ G(V)[a] \in Nat /\ F(U) \in Nat /\ F(V) \in Nat
    BY <1>1, <2>3, <2>7
  <2> HIDE DEF F, G, V, a
  <2>10. Fits(U)
    BY <2>2, <2>4, <2>6, <2>8, <2>9
  <2>11. QED  BY <1>3, <2>10
<1>6. QED  BY <1>4, <1>5

\* A count is a sum of ones, and a sum of more is no less.
LEMMA CountIsSum ==
  ASSUME NEW S, IsFiniteSet(S), NEW f, \A y \in S : f[y] = 1
  PROVE  SumFunctionOnSet(f, S) = Cardinality(S)
<1> DEFINE F(U) == SumFunctionOnSet(f, U)
           Fits(U) == F(U) = Cardinality(U)
           Bad == {U \in SUBSET S : ~Fits(U)}
<1> SUFFICES ASSUME ~Fits(S) PROVE FALSE
  OBVIOUS
<1>1. PICK U \in Bad : \A V \in SUBSET U : V # U => V \notin Bad
  <2>1. Bad \in SUBSET (SUBSET S) /\ Bad # {}
    OBVIOUS
  <2> HIDE DEF Bad
  <2>2. QED  BY <2>1, LeastSubset
<1>2. CASE U = {}
  <2>1. F({}) = 0 /\ Cardinality({}) = 0
    BY SumZeros, FS_EmptySet
  <2>2. QED  BY <1>1, <1>2, <2>1
<1>3. CASE U # {}
  <2>1. PICK x \in U : TRUE
    BY <1>3
  <2> DEFINE V == U \ {x}
  <2>2. Fits(V)
    <3>1. V \in SUBSET U /\ V # U /\ V \in SUBSET S
      BY <1>1, <2>1
    <3> HIDE DEF Fits, V
    <3>2. QED  BY <1>1, <3>1
  <2>3. x \in S /\ x \notin V /\ V \cup {x} = U /\ V \in SUBSET S /\ U \in SUBSET S
    BY <1>1, <2>1
  <2>4. IsFiniteSet(V) /\ \A y \in V \cup {x} : f[y] \in Nat /\ f[x] = 1
    BY <2>3, FS_Subset
  <2> HIDE DEF V
  <2>5. SumFunctionOnSet(f, V \cup {x}) = SumFunctionOnSet(f, V) + f[x]
    BY <2>3, <2>4, SumAdd
  <2>6. Cardinality(V \cup {x}) = Cardinality(V) + 1
    BY <2>3, <2>4, FS_AddElement
  <2>7. Fits(U)
    BY <2>2, <2>3, <2>4, <2>5, <2>6
  <2>8. QED  BY <1>1, <2>7
<1>4. QED  BY <1>2, <1>3

LEMMA CountLess ==
  ASSUME NEW S, IsFiniteSet(S), NEW f, \A y \in S : f[y] \in Nat \ {0}
  PROVE  Cardinality(S) <= SumFunctionOnSet(f, S)
<1> DEFINE ones == [y \in S |-> 1]
<1>1. \A y \in S : ones[y] \in Nat /\ f[y] \in Nat /\ ones[y] <= f[y] /\ ones[y] = 1
  OBVIOUS
<1> HIDE DEF ones
<1>2. SumFunctionOnSet(ones, S) <= SumFunctionOnSet(f, S)
  BY <1>1, SumLess
<1>3. SumFunctionOnSet(ones, S) = Cardinality(S)
  BY <1>1, CountIsSum
<1>4. QED  BY <1>2, <1>3, Zenon

-----------------------------------------------------------------------------
(* Reports *)

Worth == [i \in DOMAIN orders |-> SumFunctionOnSet(PriceOf, orders[i].items)]

\* Every order is worth something, and so many orders are worth at least that.
LEMMA TotalFacts ==
  ASSUME AnalyticsConstants, orders \in Seq(Order)
  PROVE  /\ IsFiniteSet(DOMAIN orders)
         /\ \A i \in DOMAIN orders : Worth[i] \in Nat \ {0}
         /\ \A ids \in SUBSET DOMAIN orders :
              /\ IsFiniteSet(ids) /\ Total(ids) = SumFunctionOnSet(Worth, ids)
              /\ Total(ids) \in Nat /\ Cardinality(ids) \in Nat /\ Cardinality(ids) <= Total(ids)
<1>1. IsFiniteSet(DOMAIN orders)
  <2> DEFINE n == Len(orders)
  <2>1. n \in Int /\ n >= 0 /\ 1 \in Int /\ DOMAIN orders = 1..n
    OBVIOUS
  <2> HIDE DEF n
  <2>2. QED  BY <2>1, FS_Interval
<1>2. IsFiniteSet(Product) /\ PriceOf \in [Product -> Nat \ {0}]
  BY DEF AnalyticsConstants
<1>3. \A i \in DOMAIN orders : orders[i].items \in SUBSET Product /\ orders[i].items # {}
  <2>1. ASSUME NEW o \in Order PROVE o.items \in SUBSET Product /\ o.items # {}
    <3>1. o.items \in (SUBSET Product) \ {{}}
      BY DEF Order
    <3>2. QED  BY <3>1
  <2>2. QED  BY <2>1
<1>4. ASSUME NEW i \in DOMAIN orders PROVE Worth[i] \in Nat \ {0}
  <2> DEFINE items == orders[i].items
  <2>1. items \in SUBSET Product /\ items # {}
    BY <1>3
  <2> HIDE DEF items
  <2>2. IsFiniteSet(items) /\ \A y \in items : PriceOf[y] \in Nat \ {0}
    BY <1>2, <2>1, FS_Subset
  <2>3. PICK y \in items : TRUE
    BY <2>1
  <2>4. SumFunctionOnSet(PriceOf, items) = PriceOf[y] + SumFunctionOnSet(PriceOf, items \ {y})
    BY <2>2, SumRemove
  <2>5. SumFunctionOnSet(PriceOf, items \ {y}) \in Nat
    <3> DEFINE rest == items \ {y}
    <3>1. IsFiniteSet(rest) /\ \A x \in rest : PriceOf[x] \in Nat
      BY <2>2, FS_RemoveElement
    <3> HIDE DEF rest
    <3>2. SumFunctionOnSet(PriceOf, rest) \in Nat
      BY <3>1, SumRemove
    <3>3. QED  BY <3>2 DEF rest
  <2>6. SumFunctionOnSet(PriceOf, items) \in Nat \ {0}
    BY <2>2, <2>4, <2>5
  <2>7. QED  BY <2>6 DEF Worth, items
<1>5. ASSUME NEW ids \in SUBSET DOMAIN orders
      PROVE  /\ IsFiniteSet(ids) /\ Total(ids) = SumFunctionOnSet(Worth, ids)
             /\ Total(ids) \in Nat /\ Cardinality(ids) \in Nat /\ Cardinality(ids) <= Total(ids)
  <2> DEFINE own == [i \in ids |-> SumFunctionOnSet(PriceOf, orders[i].items)]
  <2>1. IsFiniteSet(ids) /\ Cardinality(ids) \in Nat
    BY <1>1, FS_Subset, FS_CardinalityType
  <2>2. \A y \in ids : own[y] = Worth[y] /\ Worth[y] \in Nat \ {0}
    BY <1>4 DEF Worth
  <2>3. Total(ids) = SumFunctionOnSet(own, ids)
    BY DEF Total
  <2> HIDE DEF own
  <2>4. SumFunctionOnSet(own, ids) = SumFunctionOnSet(Worth, ids)
    <3>1. ids \in SUBSET ids /\ \A y \in ids : own[y] \in Nat /\ own[y] = IF y \in ids THEN Worth[y] ELSE 0
      BY <2>2
    <3>2. QED  BY <2>1, <3>1, SumSame
  <2>5. SumFunctionOnSet(Worth, ids) \in Nat
    BY <2>1, <2>2, SumRemove
  <2>6. Cardinality(ids) <= SumFunctionOnSet(Worth, ids)
    BY <2>1, <2>2, CountLess
  <2>7. QED  BY <2>1, <2>3, <2>4, <2>5, <2>6
<1>6. QED  BY <1>1, <1>4, <1>5

LEMMA StatusesFinite ==
  /\ IsFiniteSet(OrderStatus)
  /\ PURCHASABLE_STATUSES \subseteq OrderStatus
<1>1. IsFiniteSet({"pending"} \cup {"shipped"})
  BY FS_Singleton, FS_AddElement
<1>2. IsFiniteSet(({"pending"} \cup {"shipped"}) \cup {"delivered"})
  BY <1>1, FS_AddElement
<1>3. IsFiniteSet((({"pending"} \cup {"shipped"}) \cup {"delivered"}) \cup {"returned"})
  BY <1>2, FS_AddElement
<1>4. IsFiniteSet(((({"pending"} \cup {"shipped"}) \cup {"delivered"}) \cup {"returned"}) \cup {"cancelled"})
  BY <1>3, FS_AddElement
<1>5. OrderStatus = ((({"pending"} \cup {"shipped"}) \cup {"delivered"}) \cup {"returned"}) \cup {"cancelled"}
  BY DEF OrderStatus
<1>6. IsFiniteSet(OrderStatus)
  BY <1>4, <1>5, Zenon
<1>7. QED  BY <1>6 DEF OrderStatus, PURCHASABLE_STATUSES

LEMMA OrdersOfFacts ==
  ASSUME AnalyticsConstants, orders \in Seq(Order), NEW x, NEW set \in SUBSET OrderStatus
  PROVE  /\ OrdersOf(x) \in SUBSET DOMAIN orders /\ WithStatus(x, set) \in SUBSET OrdersOf(x)
         /\ IsFiniteSet(OrdersOf(x)) /\ Cardinality(OrdersOf(x)) \in Nat
         /\ IsFiniteSet(WithStatus(x, set)) /\ Cardinality(WithStatus(x, set)) \in Nat
         /\ Cardinality(WithStatus(x, set)) <= Cardinality(OrdersOf(x))
         /\ Cardinality(WithStatus(x, set)) <= Total(WithStatus(x, set)) /\ Total(WithStatus(x, set)) \in Nat
<1>1. OrdersOf(x) \in SUBSET DOMAIN orders /\ WithStatus(x, set) \in SUBSET OrdersOf(x)
  BY DEF OrdersOf, WithStatus
<1>2. WithStatus(x, set) \in SUBSET DOMAIN orders
  BY <1>1
<1>3. QED  BY <1>1, <1>2, TotalFacts, FS_Subset

\* Orders of different statuses are counted apart.
LEMMA CountedApart ==
  ASSUME AnalyticsConstants, orders \in Seq(Order), NEW x,
         NEW one \in SUBSET OrderStatus, NEW two \in SUBSET OrderStatus, one \cap two = {}
  PROVE  Cardinality(WithStatus(x, one)) + Cardinality(WithStatus(x, two)) = Cardinality(WithStatus(x, one \cup two))
<1>1. WithStatus(x, one) \cup WithStatus(x, two) = WithStatus(x, one \cup two)
  BY DEF WithStatus
<1>2. WithStatus(x, one) \cap WithStatus(x, two) = {}
  BY DEF WithStatus
<1>3. IsFiniteSet(WithStatus(x, one)) /\ Cardinality(WithStatus(x, one)) \in Nat
  BY OrdersOfFacts
<1>4. IsFiniteSet(WithStatus(x, two)) /\ Cardinality(WithStatus(x, two)) \in Nat
  BY OrdersOfFacts
<1> DEFINE A == WithStatus(x, one)
           B == WithStatus(x, two)
<1> HIDE DEF A, B
<1>5. Cardinality(A \cup B) = Cardinality(A) + Cardinality(B) - Cardinality(A \cap B)
  BY <1>3, <1>4, FS_Union DEF A, B
<1>6. Cardinality(A \cap B) = 0
  BY <1>2, FS_EmptySet DEF A, B
<1>7. Cardinality(A) \in Nat /\ Cardinality(B) \in Nat
  BY <1>3, <1>4 DEF A, B
<1>8. Cardinality(A) + Cardinality(B) = Cardinality(A \cup B)
  BY <1>5, <1>6, <1>7
<1>9. A \cup B = WithStatus(x, one \cup two)
  BY <1>1 DEF A, B
<1>10. Cardinality(A) + Cardinality(B) = Cardinality(WithStatus(x, one \cup two))
  BY <1>8, <1>9, Zenon
<1>11. QED  BY <1>10 DEF A, B

\* As many orders as their statuses count.
LEMMA StatusesCount ==
  ASSUME AnalyticsConstants, orders \in Seq(Order), NEW x
  PROVE  Numbers(Figure("statuses", x)) = Cardinality(OrdersOf(x))
<1> DEFINE S == OrdersOf(x)
           T == OrderStatus
           g == [i \in S |-> orders[i].status]
           ones == [i \in S |-> 1]
           numbers == [st \in T |-> Cardinality(WithStatus(x, {st}))]
           parts == [st \in T |-> SumFunctionOnSet(ones, Part(S, g, st))]
<1>1. IsFiniteSet(S) /\ IsFiniteSet(T) /\ \A y \in S : g[y] \in T /\ ones[y] = 1 /\ ones[y] \in Nat
  <2>1. S \in SUBSET DOMAIN orders /\ IsFiniteSet(S)
    BY OrdersOfFacts
  <2>2. \A o \in Order : o.status \in OrderStatus
    BY DEF Order
  <2>3. \A y \in S : orders[y].status \in OrderStatus
    BY <2>1, <2>2
  <2>4. QED  BY <2>1, <2>3, StatusesFinite
<1>2. \A st \in T : Part(S, g, st) = WithStatus(x, {st}) /\ Part(S, g, st) \in SUBSET S
  BY DEF Part, WithStatus
<1> HIDE DEF S, g, ones
<1>3. SumFunctionOnSet(ones, S) = SumFunctionOnSet(parts, T)
  BY <1>1, SumParts
<1>4. SumFunctionOnSet(ones, S) = Cardinality(S)
  BY <1>1, CountIsSum
<1>5. ASSUME NEW st \in T PROVE SumFunctionOnSet(ones, Part(S, g, st)) = Cardinality(WithStatus(x, {st}))
  <2> DEFINE U == Part(S, g, st)
  <2>1. IsFiniteSet(U) /\ \A y \in U : ones[y] = 1
    BY <1>1, <1>2, FS_Subset
  <2> HIDE DEF U
  <2>2. SumFunctionOnSet(ones, U) = Cardinality(U)
    BY <2>1, CountIsSum
  <2>3. QED  BY <1>2, <2>2 DEF U
<1>6. parts = numbers
  BY <1>5
<1>7. Numbers(Figure("statuses", x)) = SumFunctionOnSet(numbers, T)
  <2> DEFINE f == Figure("statuses", x)
  <2>1. f = [st \in OrderStatus |-> [number |-> Cardinality(WithStatus(x, {st})), total |-> Total(WithStatus(x, {st}))]]
    BY DEF Figure
  <2>2. \A st \in OrderStatus : f[st].number = Cardinality(WithStatus(x, {st}))
    BY <2>1
  <2> HIDE DEF f
  <2>3. [st \in OrderStatus |-> f[st].number] = numbers
    BY <2>2
  <2>4. Numbers(f) = SumFunctionOnSet([st \in OrderStatus |-> f[st].number], DOMAIN [st \in OrderStatus |-> f[st].number])
    BY DEF Numbers, SumFunction
  <2>5. DOMAIN [st \in OrderStatus |-> f[st].number] = OrderStatus
    OBVIOUS
  <2> HIDE DEF numbers
  <2>6. Numbers(f) = SumFunctionOnSet(numbers, OrderStatus)
    BY <2>3, <2>4, <2>5, Zenon
  <2>7. QED  BY <2>6 DEF f
<1>8. QED  BY <1>3, <1>4, <1>6, <1>7, Zenon DEF S

\* What was shipped and what was delivered is what was sold.
LEMMA SoldIsTwo ==
  ASSUME AnalyticsConstants, orders \in Seq(Order), NEW x
  PROVE  Total(WithStatus(x, PURCHASABLE_STATUSES)) = Total(WithStatus(x, {"shipped"})) + Total(WithStatus(x, {"delivered"}))
<1> DEFINE S == WithStatus(x, PURCHASABLE_STATUSES)
           T == WithStatus(x, {"shipped"})
           U == WithStatus(x, {"delivered"})
<1>1. T \in SUBSET S /\ S \ T = U
  BY DEF WithStatus, PURCHASABLE_STATUSES
<1>2. S \in SUBSET DOMAIN orders /\ T \in SUBSET DOMAIN orders /\ U \in SUBSET DOMAIN orders
  BY DEF WithStatus, OrdersOf
<1> HIDE DEF S, T, U
<1>3. IsFiniteSet(S) /\ \A y \in S : Worth[y] \in Nat
  BY <1>2, TotalFacts
<1>4. Total(S) = SumFunctionOnSet(Worth, S) /\ Total(T) = SumFunctionOnSet(Worth, T) /\ Total(U) = SumFunctionOnSet(Worth, U)
  BY <1>2, TotalFacts
<1>5. SumFunctionOnSet(Worth, S) = SumFunctionOnSet(Worth, T) + SumFunctionOnSet(Worth, S \ T)
  BY <1>1, <1>3, SumSplit
<1>6. QED  BY <1>1, <1>4, <1>5 DEF S, T, U

OneStore(order) == \E s \in Stores : \A p \in order.items : StoreOf[p] = s

LEMMA StoresFinite ==
  ASSUME AnalyticsConstants
  PROVE  IsFiniteSet(Stores)
<1> DEFINE f == [p \in Product |-> StoreOf[p]]
<1>1. f \in Surjection(Product, Stores)
  BY DEF Surjection, Stores
<1>2. IsFiniteSet(Product)
  BY DEF AnalyticsConstants
<1> HIDE DEF f
<1>3. QED  BY <1>1, <1>2, FS_Surjection

\* What the stores sold is what was sold.
LEMMA StoresSum ==
  ASSUME AnalyticsConstants, orders \in Seq(Order), \A i \in DOMAIN orders : OneStore(orders[i])
  PROVE  SumFunction(Figure("stores", Idle)) = Total(WithStatus(Idle, PURCHASABLE_STATUSES))
<1> DEFINE S == WithStatus(Idle, PURCHASABLE_STATUSES)
           T == Stores
           Sole(i) == CHOOSE s \in Stores : \A p \in orders[i].items : StoreOf[p] = s
           g == [i \in S |-> Sole(i)]
           totals == [s \in T |-> Total(WithStatus(s, PURCHASABLE_STATUSES))]
           parts == [s \in T |-> SumFunctionOnSet(Worth, Part(S, g, s))]
<1>1. \A o \in Order : o.customer \in Customer /\ o.items # {} /\ o.items \in SUBSET Product
  <2>1. ASSUME NEW o \in Order PROVE o.customer \in Customer /\ o.items \in (SUBSET Product) \ {{}}
    BY DEF Order
  <2>2. QED  BY <2>1
<1>2. S \in SUBSET DOMAIN orders /\ IsFiniteSet(S) /\ \A y \in S : Worth[y] \in Nat
  <2>1. S \in SUBSET DOMAIN orders
    BY DEF WithStatus, OrdersOf
  <2> HIDE DEF S
  <2>2. QED  BY <2>1, TotalFacts
<1>3. ASSUME NEW i \in DOMAIN orders PROVE Sole(i) \in T /\ \A p \in orders[i].items : StoreOf[p] = Sole(i)
  BY DEF OneStore
<1>4. ASSUME NEW s \in T PROVE Part(S, g, s) = WithStatus(s, PURCHASABLE_STATUSES)
  <2>1. s # Idle /\ s \notin Customer
    BY DEF Stores, AnalyticsConstants
  <2>2. ASSUME NEW i \in DOMAIN orders PROVE IsOf(orders[i], s) <=> Sole(i) = s
    <3>1. orders[i] \in Order
      OBVIOUS
    <3>2. orders[i].customer # s /\ orders[i].items # {}
      BY <1>1, <2>1, <3>1
    <3>3. IsOf(orders[i], s) <=> \A p \in orders[i].items : StoreOf[p] = s
      BY <2>1, <3>2 DEF IsOf
    <3>4. PICK p \in orders[i].items : TRUE
      BY <3>2
    <3>5. StoreOf[p] = Sole(i)
      BY <1>3
    <3> HIDE DEF Sole
    <3>6. QED  BY <1>3, <3>3, <3>5
  <2>3. \A i \in DOMAIN orders : IsOf(orders[i], Idle)
    BY DEF IsOf
  <2> HIDE DEF Sole
  <2>4. QED  BY <1>2, <2>2, <2>3 DEF Part, WithStatus, OrdersOf
<1>5. \A y \in S : g[y] \in T
  BY <1>2, <1>3
<1>6. IsFiniteSet(T)
  BY StoresFinite
<1>7. ASSUME NEW s \in T PROVE parts[s] = totals[s]
  <2>1. Part(S, g, s) \in SUBSET DOMAIN orders
    BY <1>2 DEF Part
  <2>2. Total(Part(S, g, s)) = SumFunctionOnSet(Worth, Part(S, g, s))
    <3> DEFINE U == Part(S, g, s)
    <3> HIDE DEF U
    <3>1. QED  BY <2>1, TotalFacts DEF U
  <2> HIDE DEF g, S
  <2>3. parts[s] = Total(Part(S, g, s)) /\ totals[s] = Total(WithStatus(s, PURCHASABLE_STATUSES))
    BY <2>2
  <2>4. QED  BY <1>4, <2>3, Zenon
<1> HIDE DEF S, g
<1>8. SumFunctionOnSet(Worth, S) = SumFunctionOnSet(parts, T)
  BY <1>2, <1>5, <1>6, SumParts
<1>9. parts = totals
  BY <1>7
<1>10. Total(S) = SumFunctionOnSet(Worth, S)
  BY <1>2, TotalFacts
<1>11. Figure("stores", Idle) = totals
  BY DEF Figure
<1>12. SumFunction(Figure("stores", Idle)) = SumFunctionOnSet(totals, T)
  <2>1. DOMAIN totals = T
    OBVIOUS
  <2> HIDE DEF totals
  <2>2. QED  BY <1>11, <2>1, Zenon DEF SumFunction
<1>13. QED  BY <1>8, <1>9, <1>10, <1>12, Zenon DEF S

\* A customer's open and delivered orders are no more than the orders, and no
\* more than what they cost.
LEMMA AccountAgrees ==
  ASSUME AnalyticsConstants, orders \in Seq(Order), NEW x
  PROVE  LET some == Cardinality(WithStatus(x, {"pending", "shipped"})) + Cardinality(WithStatus(x, {"delivered"})) IN
         /\ some \in Nat /\ some <= Cardinality(OrdersOf(x))
         /\ some <= Total(WithStatus(x, OrderStatus \ {"cancelled"}))
<1> DEFINE one == {"pending", "shipped"}
           two == {"delivered"}
           all == OrderStatus \ {"cancelled"}
<1>1. /\ one \in SUBSET OrderStatus /\ two \in SUBSET OrderStatus /\ all \in SUBSET OrderStatus
      /\ one \cap two = {} /\ one \cup two \in SUBSET OrderStatus /\ one \cup two \in SUBSET all
  BY DEF OrderStatus
<1> HIDE DEF one, two, all
<1>2. Cardinality(WithStatus(x, one)) + Cardinality(WithStatus(x, two)) = Cardinality(WithStatus(x, one \cup two))
  BY <1>1, CountedApart
<1>3. /\ Cardinality(WithStatus(x, one \cup two)) \in Nat /\ Cardinality(OrdersOf(x)) \in Nat
      /\ Cardinality(WithStatus(x, one \cup two)) <= Cardinality(OrdersOf(x))
  BY <1>1, OrdersOfFacts
<1>4. /\ IsFiniteSet(WithStatus(x, all)) /\ Cardinality(WithStatus(x, all)) \in Nat
      /\ Cardinality(WithStatus(x, all)) <= Total(WithStatus(x, all)) /\ Total(WithStatus(x, all)) \in Nat
  BY <1>1, OrdersOfFacts
<1>5. WithStatus(x, one \cup two) \in SUBSET WithStatus(x, all)
  BY <1>1 DEF WithStatus
<1>6. Cardinality(WithStatus(x, one \cup two)) <= Cardinality(WithStatus(x, all))
  BY <1>4, <1>5, FS_Subset
<1>7. Cardinality(WithStatus(x, one \cup two)) <= Total(WithStatus(x, all))
  BY <1>3, <1>4, <1>6
<1>8. QED  BY <1>2, <1>3, <1>7 DEF one, two, all

\* What one statement of a report may read.
Reading ==
  Nat \cup [sum : Nat, of : Nat] \cup [Stores -> Nat] \cup [OrderStatus -> [number : Nat, total : Nat]]
Names ==
  {"count", "revenue", "sold", "average", "pending", "open", "delivered", "spent", "stores", "statuses"}

LEMMA FigureType ==
  ASSUME AnalyticsConstants, orders \in Seq(Order), NEW x, NEW name \in Names
  PROVE  Figure(name, x) \in Reading
<1>1. \A y : \A set \in SUBSET OrderStatus : Cardinality(WithStatus(y, set)) \in Nat /\ Total(WithStatus(y, set)) \in Nat
  BY OrdersOfFacts
<1>2. Cardinality(OrdersOf(x)) \in Nat
  <2>1. {} \in SUBSET OrderStatus
    OBVIOUS
  <2>2. QED  BY <2>1, OrdersOfFacts
<1> DEFINE sold == WithStatus(x, PURCHASABLE_STATUSES)
<1>3. Cardinality(sold) \in Nat /\ Total(sold) \in Nat
  BY <1>1, StatusesFinite
<1>4. ASSUME NEW set \in {{"pending"}, {"pending", "shipped"}, {"delivered"}, OrderStatus \ {"cancelled"}}
      PROVE  Cardinality(WithStatus(x, set)) \in Nat /\ Total(WithStatus(x, set)) \in Nat
  <2>1. set \in SUBSET OrderStatus
    BY DEF OrderStatus
  <2>2. QED  BY <1>1, <2>1
<1>5. [s \in Stores |-> Total(WithStatus(s, PURCHASABLE_STATUSES))] \in [Stores -> Nat]
  BY <1>1, StatusesFinite
<1>6. [st \in OrderStatus |-> [number |-> Cardinality(WithStatus(x, {st})), total |-> Total(WithStatus(x, {st}))]]
      \in [OrderStatus -> [number : Nat, total : Nat]]
  <2>1. ASSUME NEW st \in OrderStatus PROVE Cardinality(WithStatus(x, {st})) \in Nat /\ Total(WithStatus(x, {st})) \in Nat
    <3>1. {st} \in SUBSET OrderStatus
      OBVIOUS
    <3>2. QED  BY <1>1, <3>1
  <2>2. QED  BY <2>1
<1>7. CASE name = "count"
  BY <1>2, <1>7 DEF Figure, Reading
<1>8. CASE name \in {"revenue", "sold"}
  BY <1>3, <1>8 DEF Figure, Reading
<1>9. CASE name = "average"
  <2>1. Figure(name, x) = [sum |-> Total(sold), of |-> Cardinality(sold)]
    BY <1>9 DEF Figure
  <2>2. QED  BY <1>3, <2>1 DEF Reading
<1>10. CASE name \in {"pending", "open", "delivered", "spent"}
  BY <1>4, <1>10 DEF Figure, Reading
<1>11. CASE name = "stores"
  <2>1. Figure(name, x) = [s \in Stores |-> Total(WithStatus(s, PURCHASABLE_STATUSES))]
    BY <1>11 DEF Figure
  <2>2. QED  BY <1>5, <2>1 DEF Reading
<1>12. CASE name = "statuses"
  <2>1. Figure(name, x) =
          [st \in OrderStatus |-> [number |-> Cardinality(WithStatus(x, {st})), total |-> Total(WithStatus(x, {st}))]]
    BY <1>12 DEF Figure
  <2>2. QED  BY <1>6, <2>1 DEF Reading
<1>13. QED  BY <1>7, <1>8, <1>9, <1>10, <1>11, <1>12 DEF Names

-----------------------------------------------------------------------------
(* What changes of the figures *)

\* Who keeps his orders keeps what they are worth.
LEMMA SameTotals ==
  ASSUME NEW x, OrdersOf(x)' = OrdersOf(x), \A i \in OrdersOf(x) : orders'[i] = orders[i], NEW set
  PROVE  /\ WithStatus(x, set)' = WithStatus(x, set)
         /\ Total(WithStatus(x, set))' = Total(WithStatus(x, set))
<1>1. WithStatus(x, set)' = WithStatus(x, set)
  BY DEF WithStatus
<1> DEFINE ids == WithStatus(x, set)
<1>2. \A i \in ids : orders'[i] = orders[i]
  BY DEF WithStatus
<1>3. Total(ids)' = SumFunctionOnSet([i \in ids' |-> SumFunctionOnSet(PriceOf, orders'[i].items)], ids')
  BY DEF Total
<1>4. ids' = ids
  BY <1>1
<1>5. Total(ids) = SumFunctionOnSet([i \in ids |-> SumFunctionOnSet(PriceOf, orders[i].items)], ids)
  BY DEF Total
<1> HIDE DEF ids
<1>6. [i \in ids' |-> SumFunctionOnSet(PriceOf, orders'[i].items)] = [i \in ids |-> SumFunctionOnSet(PriceOf, orders[i].items)]
  <2>1. \A i \in ids : SumFunctionOnSet(PriceOf, orders'[i].items) = SumFunctionOnSet(PriceOf, orders[i].items)
    BY <1>2
  <2>2. QED  BY <1>4, <2>1
<1>7. QED  BY <1>1, <1>3, <1>4, <1>5, <1>6, Zenon DEF ids

LEMMA SameFigures ==
  ASSUME NEW x, OrdersOf(x)' = OrdersOf(x), \A i \in OrdersOf(x) : orders'[i] = orders[i],
         NEW name \in Names \ {"stores"}
  PROVE  Figure(name, x)' = Figure(name, x)
<1>1. \A set : /\ WithStatus(x, set)' = WithStatus(x, set)
               /\ Total(WithStatus(x, set))' = Total(WithStatus(x, set))
  BY SameTotals
<1>2. Cardinality(OrdersOf(x))' = Cardinality(OrdersOf(x))
  OBVIOUS
<1>3. \A set : Cardinality(WithStatus(x, set))' = Cardinality(WithStatus(x, set))
  BY <1>1
<1>4. CASE name = "count"
  BY <1>2, <1>4 DEF Figure
<1>5. CASE name = "revenue"
  BY <1>1, <1>5 DEF Figure
<1>6. CASE name = "sold"
  BY <1>3, <1>6 DEF Figure
<1>7. CASE name = "average"
  BY <1>1, <1>3, <1>7 DEF Figure
<1>8. CASE name \in {"pending", "open", "delivered"}
  BY <1>3, <1>8 DEF Figure
<1>9. CASE name = "spent"
  BY <1>1, <1>9 DEF Figure
<1>10. CASE name = "statuses"
  BY <1>1, <1>3, <1>10 DEF Figure
<1>11. QED  BY <1>4, <1>5, <1>6, <1>7, <1>8, <1>9, <1>10 DEF Names

Subjects == Customer \cup Stores \cup {Idle}
FigureTable == [x \in Subjects |-> [name \in Names |-> Figure(name, x)]]

LEMMA TableFacts ==
  ASSUME AnalyticsConstants, orders \in Seq(Order), NEW x \in Subjects
  PROVE  /\ \A name \in Names : FigureTable[x][name] = Figure(name, x) /\ FigureTable[x][name] \in Reading
         /\ FigureTable[x]["count"] = Cardinality(OrdersOf(x)) /\ FigureTable[x]["count"] \in Nat
<1>1. \A name \in Names : FigureTable[x][name] = Figure(name, x)
  BY DEF FigureTable
<1>2. \A name \in Names : Figure(name, x) \in Reading
  BY FigureType
<1>3. "count" \in Names /\ Figure("count", x) = Cardinality(OrdersOf(x))
  BY DEF Names, Figure
<1>4. Cardinality(OrdersOf(x)) \in Nat
  <2>1. {} \in SUBSET OrderStatus
    OBVIOUS
  <2>2. QED  BY <2>1, OrdersOfFacts
<1>5. QED  BY <1>1, <1>2, <1>3, <1>4

LEMMA TableStill ==
  ASSUME orders' = orders
  PROVE  FigureTable' = FigureTable
<1>1. ASSUME NEW x PROVE OrdersOf(x)' = OrdersOf(x) /\ \A i \in OrdersOf(x) : orders'[i] = orders[i]
  BY DEF OrdersOf
<1>2. ASSUME NEW x, NEW name \in Names PROVE Figure(name, x)' = Figure(name, x)
  <2>1. CASE name # "stores"
    <3>1. name \in Names \ {"stores"}
      BY <2>1
    <3>2. QED  BY <1>1, <3>1, SameFigures
  <2>2. CASE name = "stores"
    <3>1. \A s : Total(WithStatus(s, PURCHASABLE_STATUSES))' = Total(WithStatus(s, PURCHASABLE_STATUSES))
      <4> SUFFICES ASSUME NEW s
                   PROVE Total(WithStatus(s, PURCHASABLE_STATUSES))' = Total(WithStatus(s, PURCHASABLE_STATUSES))
        OBVIOUS
      <4>1. \A set : Total(WithStatus(s, set))' = Total(WithStatus(s, set))
        BY <1>1, SameTotals
      <4>2. QED  BY <4>1
    <3>2. QED  BY <2>2, <3>1 DEF Figure
  <2>3. QED  BY <2>1, <2>2
<1>3. QED  BY <1>2 DEF FigureTable

\* An order o was placed or moved: only who it is of sees other figures, and
\* nobody fewer orders.
LEMMA TableMoves ==
  ASSUME AnalyticsConstants, orders \in Seq(Order), orders' \in Seq(Order), NEW o,
         DOMAIN orders \subseteq DOMAIN orders',
         \A i \in DOMAIN orders : orders'[i].customer = orders[i].customer /\ orders'[i].items = orders[i].items,
         \A x : \A i \in DOMAIN orders' :
           ~IsOf(o, x) /\ IsOf(orders'[i], x) => i \in DOMAIN orders /\ orders'[i] = orders[i]
  PROVE  \A x \in Subjects :
           /\ ~IsOf(o, x) => \A name \in Names \ {"stores"} : FigureTable'[x][name] = FigureTable[x][name]
           /\ FigureTable[x]["count"] <= FigureTable'[x]["count"]
<1> SUFFICES ASSUME NEW x \in Subjects
             PROVE  /\ ~IsOf(o, x) => \A name \in Names \ {"stores"} : FigureTable'[x][name] = FigureTable[x][name]
                    /\ FigureTable[x]["count"] <= FigureTable'[x]["count"]
  OBVIOUS
<1>1. \A i \in DOMAIN orders : IsOf(orders'[i], x) <=> IsOf(orders[i], x)
  BY DEF IsOf
<1>2. ASSUME ~IsOf(o, x) PROVE \A name \in Names \ {"stores"} : FigureTable'[x][name] = FigureTable[x][name]
  <2>1. OrdersOf(x)' = OrdersOf(x) /\ \A i \in OrdersOf(x) : orders'[i] = orders[i]
    BY <1>1, <1>2 DEF OrdersOf
  <2>2. \A name \in Names \ {"stores"} : Figure(name, x)' = Figure(name, x)
    BY <2>1, SameFigures
  <2>3. QED  BY <2>2 DEF FigureTable
<1>3. FigureTable[x]["count"] <= FigureTable'[x]["count"]
  <2>1. OrdersOf(x) \in SUBSET (OrdersOf(x)')
    BY <1>1 DEF OrdersOf
  <2>2. IsFiniteSet(OrdersOf(x)')
    <3> DEFINE n == Len(orders')
    <3>1. n \in Int /\ n >= 0 /\ 1 \in Int /\ DOMAIN orders' = 1..n
      OBVIOUS
    <3> HIDE DEF n
    <3>2. IsFiniteSet(1..n)
      BY <3>1, FS_Interval
    <3>3. OrdersOf(x)' \in SUBSET (1..n)
      BY <3>1 DEF OrdersOf
    <3>4. QED  BY <3>2, <3>3, FS_Subset
  <2>3. Cardinality(OrdersOf(x)) <= Cardinality(OrdersOf(x)')
    BY <2>1, <2>2, FS_Subset
  <2>4. "count" \in Names
    BY DEF Names
  <2>5. FigureTable[x]["count"] = Cardinality(OrdersOf(x))
    BY <2>4 DEF FigureTable, Figure
  <2>6. FigureTable'[x]["count"] = Cardinality(OrdersOf(x))'
    BY <2>4 DEF FigureTable, Figure
  <2>7. QED  BY <2>3, <2>5, <2>6
<1>4. QED  BY <1>2, <1>3

-----------------------------------------------------------------------------
(* The invariant of the history *)

PurchasesJob == [do : {"purchases"}, on : Customer, row : [viewed : SUBSET Product], old : {FALSE}]
ListJob ==
  [do : {"cold", "similar", "content", "fill", "finish"}, on : Customer,
   row : [viewed : SUBSET Product, met : SUBSET Product, list : Seq(Product)], old : {FALSE}]
FiguresJob == [do : {"figures"}, on : Subjects, row : [report : Reports, read : Seq(Reading)], old : BOOLEAN]

\* A list in the making has nothing that the customer has met, at last nothing
\* twice.
ListWell(j) ==
  /\ j.row.viewed \subseteq j.row.met /\ j.row.list \in Seq(Product \ j.row.met)
  /\ j.do = "finish" => IsInjective(j.row.list) /\ Len(j.row.list) <= Limit

\* The figures read are still right if no order moved; if one did, the counts
\* are still no more than the orders.
ReadWell(report, on, old, read, table) ==
  /\ ~old => \A k \in 1..Len(read) : read[k] = table[on][Figures[report][k]]
  /\ report = "sales" /\ Len(read) >= 1 => read[1] \in Nat /\ read[1] <= table[on]["count"]
  /\ report = "vendor" /\ Len(read) >= 2 => read[2] \in Nat /\ read[2] <= table[on]["count"]
  /\ report = "vendor" /\ Len(read) >= 3 => read[3] \in Nat /\ read[2] <= read[3]

\* A report in the making lacks a figure.
FiguresWell(j, table) ==
  /\ j.on \in Subject[j.row.report] /\ Len(j.row.read) < Len(Figures[j.row.report])
  /\ ReadWell(j.row.report, j.on, j.old, j.row.read, table)

JobWell(j, table) ==
  \/ j = Idle \/ j \in PurchasesJob
  \/ j \in ListJob /\ ListWell(j)
  \/ j \in FiguresJob /\ FiguresWell(j, table)

HistoryWell ==
  /\ views \in Seq(View) /\ orders \in Seq(Order) /\ published \subseteq Product
  /\ \A i \in DOMAIN orders : OneStore(orders[i])

HistoryInv ==
  /\ HistoryWell
  /\ calls \in [Call -> PurchasesJob \cup ListJob \cup FiguresJob \cup {Idle}]
  /\ \A c \in Call : JobWell(calls[c], FigureTable)
  /\ NewToCustomer /\ ReportAgrees

LEMMA HistoryInit ==
  ASSUME AnalyticsInit, calls = [c \in Call |-> Idle]
  PROVE  HistoryInv
<1>1. HistoryWell
  BY DEF AnalyticsInit, HistoryWell
<1>2. \A c \in Call : JobWell(calls[c], FigureTable)
  BY DEF JobWell
<1>3. NewToCustomer /\ ReportAgrees
  BY DEF AnalyticsInit, NewToCustomer, ReportAgrees
<1>4. QED  BY <1>1, <1>2, <1>3 DEF HistoryInv

LEMMA FiguresFacts ==
  ASSUME AnalyticsConstants, NEW report \in Reports
  PROVE  /\ Len(Figures[report]) \in Nat /\ 0 < Len(Figures[report])
         /\ \A k \in 1..Len(Figures[report]) :
              Figures[report][k] \in Names /\ (report # "admin" => Figures[report][k] # "stores")
         /\ Subject[report] \subseteq Subjects
         /\ report = "admin" => Subject[report] = {Idle}
<1>1. report \in {"sales", "vendor", "admin", "account"}
  BY DEF AnalyticsConstants
<1>2. CASE report = "sales"
  <2>1. Figures[report] = <<"count", "revenue", "statuses">> /\ Subject[report] = Stores \cup {Idle}
    BY <1>2 DEF Figures, Subject
  <2>2. QED  BY <1>2, <2>1 DEF Names, Subjects
<1>3. CASE report = "vendor"
  <2>1. Figures[report] = <<"revenue", "sold", "count", "average", "pending">> /\ Subject[report] = Stores
    BY <1>3 DEF Figures, Subject
  <2>2. QED  BY <1>3, <2>1 DEF Names, Subjects
<1>4. CASE report = "admin"
  <2>1. Figures[report] = <<"revenue", "sold", "stores">> /\ Subject[report] = {Idle}
    BY <1>4 DEF Figures, Subject
  <2>2. QED  BY <1>4, <2>1 DEF Names, Subjects
<1>5. CASE report = "account"
  <2>1. Figures[report] = <<"spent", "count", "open", "delivered">> /\ Subject[report] = Customer
    BY <1>5 DEF Figures, Subject
  <2>2. QED  BY <1>5, <2>1 DEF Names, Subjects
<1>6. QED  BY <1>1, <1>2, <1>3, <1>4, <1>5

\* What is read next is read right.
LEMMA ReadMore ==
  ASSUME AnalyticsConstants, HistoryWell, NEW report \in Reports, NEW on \in Subject[report], NEW old \in BOOLEAN,
         NEW read \in Seq(Reading), Len(read) < Len(Figures[report]),
         ReadWell(report, on, old, read, FigureTable),
         NEW more, more = Append(read, Figure(Figures[report][Len(read) + 1], on))
  PROVE  /\ more \in Seq(Reading) /\ Len(more) = Len(read) + 1
         /\ ReadWell(report, on, old, more, FigureTable)
         /\ more[Len(more)] = FigureTable[on][Figures[report][Len(more)]]
<1> DEFINE list == Figures[report]
           m == Len(read)
           table == FigureTable
           v == Figure(list[m + 1], on)
<1>1. m \in Nat /\ Len(list) \in Nat /\ m + 1 \in 1..Len(list) /\ list[m + 1] \in Names /\ on \in Subjects
  <2>1. m \in Nat
    OBVIOUS
  <2> HIDE DEF m
  <2>2. QED  BY <2>1, FiguresFacts DEF m
<1>2. orders \in Seq(Order)
  BY DEF HistoryWell
<1>3. v = table[on][list[m + 1]] /\ v \in Reading /\ table[on]["count"] \in Nat
  <2>1. \A name \in Names : table[on][name] = Figure(name, on) /\ table[on][name] \in Reading
    BY <1>1, <1>2, TableFacts
  <2>2. table[on]["count"] \in Nat
    BY <1>1, <1>2, TableFacts
  <2> HIDE DEF table, list, m
  <2>3. QED  BY <1>1, <2>1, <2>2
<1>4. more = Append(read, v)
  OBVIOUS
<1> HIDE DEF v
<1>5. /\ more \in Seq(Reading) /\ Len(more) = m + 1 /\ more[m + 1] = v
      /\ \A k \in 1..m : more[k] = read[k]
  BY <1>3, <1>4
<1> HIDE DEF list, table
<1>6. /\ ~old => \A k \in 1..m : read[k] = table[on][list[k]]
      /\ report = "sales" /\ m >= 1 => read[1] \in Nat /\ read[1] <= table[on]["count"]
      /\ report = "vendor" /\ m >= 2 => read[2] \in Nat /\ read[2] <= table[on]["count"]
      /\ report = "vendor" /\ m >= 3 => read[3] \in Nat /\ read[2] <= read[3]
  BY DEF ReadWell, list, table
<1> HIDE DEF m
<1>7. ASSUME ~old PROVE \A k \in 1..(m + 1) : more[k] = table[on][list[k]]
  <2> SUFFICES ASSUME NEW k \in 1..(m + 1) PROVE more[k] = table[on][list[k]]
    OBVIOUS
  <2>1. CASE k = m + 1
    BY <1>3, <1>5, <2>1
  <2>2. CASE k # m + 1
    <3>1. k \in 1..m
      BY <1>1, <2>2
    <3>2. QED  BY <1>5, <1>6, <1>7, <3>1
  <2>3. QED  BY <2>1, <2>2
<1>8. ASSUME report = "sales" PROVE more[1] \in Nat /\ more[1] <= table[on]["count"]
  <2>1. CASE m = 0
    <3>1. list[1] = "count"
      BY <1>8 DEF list, Figures
    <3>2. QED  BY <1>3, <1>5, <2>1, <3>1
  <2>2. CASE m # 0
    <3>1. m >= 1 /\ 1 \in 1..m
      BY <1>1, <2>2
    <3>2. QED  BY <1>5, <1>6, <1>8, <3>1
  <2>3. QED  BY <2>1, <2>2
<1>9. ASSUME report = "vendor", m + 1 >= 2 PROVE more[2] \in Nat /\ more[2] <= table[on]["count"]
  <2>1. CASE m = 1
    <3>1. list[2] = "sold"
      BY <1>9 DEF list, Figures
    <3>2. v = Figure("sold", on)
      BY <2>1, <3>1 DEF v
    <3>3. v = Cardinality(WithStatus(on, PURCHASABLE_STATUSES))
      BY <3>2 DEF Figure
    <3>4. table[on]["count"] = Cardinality(OrdersOf(on))
      BY <1>1, <1>2, TableFacts DEF table
    <3>5. PURCHASABLE_STATUSES \in SUBSET OrderStatus
      BY StatusesFinite
    <3>6. v \in Nat /\ v <= table[on]["count"]
      BY <1>2, <3>3, <3>4, <3>5, OrdersOfFacts
    <3>7. QED  BY <1>5, <2>1, <3>6
  <2>2. CASE m # 1
    <3>1. m >= 2 /\ 2 \in 1..m
      BY <1>1, <1>9, <2>2
    <3>2. QED  BY <1>5, <1>6, <1>9, <3>1
  <2>3. QED  BY <2>1, <2>2
<1>10. ASSUME report = "vendor", m + 1 >= 3 PROVE more[3] \in Nat /\ more[2] <= more[3]
  <2>1. m >= 2 /\ 2 \in 1..m /\ more[2] = read[2]
    BY <1>1, <1>5, <1>10
  <2>2. CASE m = 2
    <3>1. list[3] = "count"
      BY <1>10 DEF list, Figures
    <3>2. more[3] = table[on]["count"]
      BY <1>3, <1>5, <2>2, <3>1
    <3>3. QED  BY <1>3, <1>6, <1>10, <2>1, <3>2
  <2>3. CASE m # 2
    <3>1. m >= 3 /\ 3 \in 1..m
      BY <1>1, <2>1, <2>3
    <3>2. QED  BY <1>5, <1>6, <1>10, <2>1, <3>1
  <2>4. QED  BY <2>2, <2>3
<1>11. ReadWell(report, on, old, more, table)
  BY <1>5, <1>7, <1>8, <1>9, <1>10 DEF ReadWell, list
<1>12. more[m + 1] = table[on][list[m + 1]]
  BY <1>3, <1>5
<1>13. QED  BY <1>5, <1>11, <1>12 DEF m, list, table

\* What the figures of a complete report say of each other.
Agrees(kind, f, moved) ==
  /\ kind = "sales" => f.count <= Numbers(f.statuses)
  /\ kind = "vendor" => f.sold <= f.count
  /\ ~moved =>
       /\ kind = "sales" =>
            /\ f.count = Numbers(f.statuses)
            /\ f.revenue = f.statuses["shipped"].total + f.statuses["delivered"].total
       /\ kind = "vendor" =>
            /\ f.average = [sum |-> f.revenue, of |-> f.sold]
            /\ f.sold + f.pending <= f.count
       /\ kind = "admin" => SumFunction(f.stores) = f.revenue /\ f.sold <= f.revenue
       /\ kind = "account" => f.open + f.delivered <= Min({f.count, f.spent})

LEMMA ReportAgreesIs ==
  ReportAgrees <=>
    (answer # Idle /\ answer.kind \in DOMAIN Figures => Agrees(answer.kind, answer.figure, answer.moved))
BY DEF ReportAgrees, Agrees

\* The figure of each name is the one read at its place.
Gathered(list, read) == [name \in ToSet(list) |-> read[CHOOSE i \in DOMAIN list : list[i] = name]]

LEMMA Collected ==
  ASSUME NEW n \in Nat, NEW list \in Seq(Names), Len(list) = n, IsInjective(list), NEW read
  PROVE  \A k \in 1..n : Gathered(list, read)[list[k]] = read[k]
<1> SUFFICES ASSUME NEW k \in 1..n PROVE Gathered(list, read)[list[k]] = read[k]
  OBVIOUS
<1>1. DOMAIN list = 1..n
  OBVIOUS
<1>2. list[k] \in ToSet(list)
  BY <1>1 DEF ToSet
<1>3. (CHOOSE i \in DOMAIN list : list[i] = list[k]) = k
  <2>1. \A i \in DOMAIN list : list[i] = list[k] => i = k
    BY <1>1 DEF IsInjective
  <2>2. QED  BY <1>1, <2>1
<1>4. QED  BY <1>2, <1>3 DEF Gathered

LEMMA Agreement ==
  ASSUME AnalyticsConstants, HistoryWell, NEW report \in Reports, NEW on \in Subject[report], NEW old \in BOOLEAN,
         NEW read \in Seq(Reading), Len(read) = Len(Figures[report]),
         ReadWell(report, on, old, read, FigureTable),
         read[Len(read)] = FigureTable[on][Figures[report][Len(read)]],
         NEW f, f = Gathered(Figures[report], read)
  PROVE  Agrees(report, f, old)
<1> DEFINE list == Figures[report]
           table == FigureTable
           sold == WithStatus(on, PURCHASABLE_STATUSES)
<1>1. orders \in Seq(Order) /\ \A i \in DOMAIN orders : OneStore(orders[i])
  BY DEF HistoryWell
<1>2. on \in Subjects /\ Len(list) \in Nat /\ (\A k \in 1..Len(list) : list[k] \in Names) /\ (report = "admin" => on = Idle)
  BY FiguresFacts
<1>3. \A name \in Names : table[on][name] = Figure(name, on)
  BY <1>1, <1>2, TableFacts
<1>4. table[on]["count"] = Cardinality(OrdersOf(on)) /\ Cardinality(OrdersOf(on)) \in Nat
  BY <1>1, <1>2, TableFacts
<1>5. ASSUME NEW k \in 1..Len(list), ~old \/ k = Len(list) PROVE read[k] = Figure(list[k], on)
  <2>1. read[k] = table[on][list[k]]
    <3>1. CASE ~old
      BY <3>1 DEF ReadWell
    <3>2. CASE k = Len(list)
      BY <3>2
    <3>3. QED  BY <1>5, <3>1, <3>2
  <2>2. list[k] \in Names
    BY <1>2
  <2> HIDE DEF list, table
  <2>3. QED  BY <1>3, <2>1, <2>2
<1>6. /\ Cardinality(sold) \in Nat /\ Total(sold) \in Nat /\ Cardinality(sold) <= Total(sold)
      /\ Cardinality(sold) <= Cardinality(OrdersOf(on))
  BY <1>1, StatusesFinite, OrdersOfFacts
<1>7. ASSUME report = "sales" PROVE Agrees(report, f, old)
  <2>1. list = <<"count", "revenue", "statuses">>
    BY <1>7 DEF Figures
  <2>2. list \in Seq(Names) /\ Len(list) = 3 /\ IsInjective(list) /\ list[1] = "count" /\ list[2] = "revenue" /\ list[3] = "statuses"
    BY <2>1 DEF Names, IsInjective
  <2>3. f[list[1]] = read[1] /\ f[list[2]] = read[2] /\ f[list[3]] = read[3]
    <3>1. f = Gathered(list, read) /\ 3 \in Nat
      OBVIOUS
    <3> HIDE DEF list
    <3>2. \A k \in 1..3 : Gathered(list, read)[list[k]] = read[k]
      BY <2>2, <3>1, Collected
    <3>3. QED  BY <3>1, <3>2
  <2>4. f.count = read[1] /\ f.revenue = read[2] /\ f.statuses = read[3]
    <3> HIDE DEF list
    <3>1. f["count"] = read[1] /\ f["revenue"] = read[2] /\ f["statuses"] = read[3]
      BY <2>2, <2>3
    <3>2. QED  BY <3>1
  <2>5. read[3] = Figure("statuses", on)
    <3>1. 3 \in 1..Len(list) /\ 3 = Len(list)
      BY <2>2
    <3>2. QED  BY <1>5, <2>2, <3>1
  <2>6. Numbers(f.statuses) = Cardinality(OrdersOf(on))
    <3>1. Numbers(Figure("statuses", on)) = Cardinality(OrdersOf(on))
      BY <1>1, StatusesCount
    <3>2. f.statuses = Figure("statuses", on)
      BY <2>4, <2>5
    <3>3. QED  BY <3>1, <3>2, Zenon
  <2>7. f.count <= Numbers(f.statuses)
    <3>1. read[1] <= table[on]["count"]
      BY <1>7, <2>2 DEF ReadWell
    <3>2. QED  BY <1>4, <2>4, <2>6, <3>1
  <2>8. ASSUME ~old
        PROVE  /\ f.count = Numbers(f.statuses)
               /\ f.revenue = f.statuses["shipped"].total + f.statuses["delivered"].total
    <3>1. read[1] = Figure("count", on) /\ read[2] = Figure("revenue", on)
      <4>1. 1 \in 1..Len(list) /\ 2 \in 1..Len(list)
        BY <2>2
      <4>2. QED  BY <1>5, <2>2, <2>8, <4>1
    <3>2. f.count = Cardinality(OrdersOf(on)) /\ f.revenue = Total(sold)
      BY <2>4, <3>1 DEF Figure
    <3>3. Figure("statuses", on) = [st \in OrderStatus |->
            [number |-> Cardinality(WithStatus(on, {st})), total |-> Total(WithStatus(on, {st}))]]
      BY DEF Figure
    <3>4. /\ f.statuses["shipped"].total = Total(WithStatus(on, {"shipped"}))
          /\ f.statuses["delivered"].total = Total(WithStatus(on, {"delivered"}))
      BY <2>4, <2>5, <3>3 DEF OrderStatus
    <3>5. Total(sold) = Total(WithStatus(on, {"shipped"})) + Total(WithStatus(on, {"delivered"}))
      BY <1>1, SoldIsTwo
    <3>6. QED  BY <2>6, <3>2, <3>4, <3>5
  <2>9. QED  BY <1>7, <2>7, <2>8 DEF Agrees
<1>8. ASSUME report = "vendor" PROVE Agrees(report, f, old)
  <2>1. list = <<"revenue", "sold", "count", "average", "pending">>
    BY <1>8 DEF Figures
  <2>2. /\ list \in Seq(Names) /\ Len(list) = 5 /\ IsInjective(list) /\ list[1] = "revenue" /\ list[2] = "sold"
        /\ list[3] = "count" /\ list[4] = "average" /\ list[5] = "pending"
    BY <2>1 DEF Names, IsInjective
  <2>3. f[list[1]] = read[1] /\ f[list[2]] = read[2] /\ f[list[3]] = read[3] /\ f[list[4]] = read[4] /\ f[list[5]] = read[5]
    <3>1. f = Gathered(list, read) /\ 5 \in Nat
      OBVIOUS
    <3> HIDE DEF list
    <3>2. \A k \in 1..5 : Gathered(list, read)[list[k]] = read[k]
      BY <2>2, <3>1, Collected
    <3>3. QED  BY <3>1, <3>2
  <2>4. f.revenue = read[1] /\ f.sold = read[2] /\ f.count = read[3] /\ f.average = read[4] /\ f.pending = read[5]
    <3> HIDE DEF list
    <3>1. f["revenue"] = read[1] /\ f["sold"] = read[2] /\ f["count"] = read[3] /\ f["average"] = read[4] /\ f["pending"] = read[5]
      BY <2>2, <2>3
    <3>2. QED  BY <3>1
  <2>5. f.sold <= f.count
    <3>1. read[2] <= read[3]
      BY <1>8, <2>2 DEF ReadWell
    <3>2. QED  BY <2>4, <3>1
  <2>6. ASSUME ~old
        PROVE  f.average = [sum |-> f.revenue, of |-> f.sold] /\ f.sold + f.pending <= f.count
    <3>1. /\ read[1] = Figure("revenue", on) /\ read[2] = Figure("sold", on) /\ read[3] = Figure("count", on)
          /\ read[4] = Figure("average", on) /\ read[5] = Figure("pending", on)
      <4>1. 1 \in 1..Len(list) /\ 2 \in 1..Len(list) /\ 3 \in 1..Len(list) /\ 4 \in 1..Len(list) /\ 5 \in 1..Len(list)
        BY <2>2
      <4>2. QED  BY <1>5, <2>2, <2>6, <4>1
    <3>2. /\ f.revenue = Total(sold) /\ f.sold = Cardinality(sold) /\ f.count = Cardinality(OrdersOf(on))
          /\ f.average = [sum |-> Total(sold), of |-> Cardinality(sold)]
          /\ f.pending = Cardinality(WithStatus(on, {"pending"}))
      BY <2>4, <3>1 DEF Figure
    <3>3. PURCHASABLE_STATUSES \in SUBSET OrderStatus /\ {"pending"} \in SUBSET OrderStatus
          /\ PURCHASABLE_STATUSES \cap {"pending"} = {} /\ PURCHASABLE_STATUSES \cup {"pending"} \in SUBSET OrderStatus
      BY DEF PURCHASABLE_STATUSES, OrderStatus
    <3>4. Cardinality(sold) + Cardinality(WithStatus(on, {"pending"})) = Cardinality(WithStatus(on, PURCHASABLE_STATUSES \cup {"pending"}))
      BY <1>1, <3>3, CountedApart
    <3>5. Cardinality(WithStatus(on, PURCHASABLE_STATUSES \cup {"pending"})) <= Cardinality(OrdersOf(on))
      BY <1>1, <3>3, OrdersOfFacts
    <3>6. f.sold + f.pending <= f.count
      BY <3>2, <3>4, <3>5
    <3>7. QED  BY <3>2, <3>6
  <2>7. QED  BY <1>8, <2>5, <2>6 DEF Agrees
<1>9. ASSUME report = "admin" PROVE Agrees(report, f, old)
  <2>1. list = <<"revenue", "sold", "stores">>
    BY <1>9 DEF Figures
  <2>2. list \in Seq(Names) /\ Len(list) = 3 /\ IsInjective(list) /\ list[1] = "revenue" /\ list[2] = "sold" /\ list[3] = "stores"
    BY <2>1 DEF Names, IsInjective
  <2>3. f[list[1]] = read[1] /\ f[list[2]] = read[2] /\ f[list[3]] = read[3]
    <3>1. f = Gathered(list, read) /\ 3 \in Nat
      OBVIOUS
    <3> HIDE DEF list
    <3>2. \A k \in 1..3 : Gathered(list, read)[list[k]] = read[k]
      BY <2>2, <3>1, Collected
    <3>3. QED  BY <3>1, <3>2
  <2>4. f.revenue = read[1] /\ f.sold = read[2] /\ f.stores = read[3]
    <3> HIDE DEF list
    <3>1. f["revenue"] = read[1] /\ f["sold"] = read[2] /\ f["stores"] = read[3]
      BY <2>2, <2>3
    <3>2. QED  BY <3>1
  <2>5. ASSUME ~old PROVE SumFunction(f.stores) = f.revenue /\ f.sold <= f.revenue
    <3>1. read[1] = Figure("revenue", on) /\ read[2] = Figure("sold", on) /\ read[3] = Figure("stores", on)
      <4>1. 1 \in 1..Len(list) /\ 2 \in 1..Len(list) /\ 3 \in 1..Len(list)
        BY <2>2
      <4>2. QED  BY <1>5, <2>2, <2>5, <4>1
    <3>2. f.revenue = Total(sold) /\ f.sold = Cardinality(sold)
      BY <2>4, <3>1 DEF Figure
    <3>3. SumFunction(Figure("stores", Idle)) = Total(WithStatus(Idle, PURCHASABLE_STATUSES))
      BY <1>1, StoresSum
    <3>4. f.stores = Figure("stores", Idle) /\ on = Idle
      BY <1>2, <1>9, <2>4, <3>1
    <3>5. SumFunction(f.stores) = f.revenue
      BY <3>2, <3>3, <3>4, Zenon
    <3>6. QED  BY <1>6, <3>2, <3>5
  <2>6. QED  BY <1>9, <2>5 DEF Agrees
<1>10. ASSUME report = "account" PROVE Agrees(report, f, old)
  <2>1. list = <<"spent", "count", "open", "delivered">>
    BY <1>10 DEF Figures
  <2>2. /\ list \in Seq(Names) /\ Len(list) = 4 /\ IsInjective(list) /\ list[1] = "spent" /\ list[2] = "count"
        /\ list[3] = "open" /\ list[4] = "delivered"
    BY <2>1 DEF Names, IsInjective
  <2>3. f[list[1]] = read[1] /\ f[list[2]] = read[2] /\ f[list[3]] = read[3] /\ f[list[4]] = read[4]
    <3>1. f = Gathered(list, read) /\ 4 \in Nat
      OBVIOUS
    <3> HIDE DEF list
    <3>2. \A k \in 1..4 : Gathered(list, read)[list[k]] = read[k]
      BY <2>2, <3>1, Collected
    <3>3. QED  BY <3>1, <3>2
  <2>4. f.spent = read[1] /\ f.count = read[2] /\ f.open = read[3] /\ f.delivered = read[4]
    <3> HIDE DEF list
    <3>1. f["spent"] = read[1] /\ f["count"] = read[2] /\ f["open"] = read[3] /\ f["delivered"] = read[4]
      BY <2>2, <2>3
    <3>2. QED  BY <3>1
  <2>5. ASSUME ~old PROVE f.open + f.delivered <= Min({f.count, f.spent})
    <3>1. /\ read[1] = Figure("spent", on) /\ read[2] = Figure("count", on) /\ read[3] = Figure("open", on)
          /\ read[4] = Figure("delivered", on)
      <4>1. 1 \in 1..Len(list) /\ 2 \in 1..Len(list) /\ 3 \in 1..Len(list) /\ 4 \in 1..Len(list)
        BY <2>2
      <4>2. QED  BY <1>5, <2>2, <2>5, <4>1
    <3>2. /\ f.spent = Total(WithStatus(on, OrderStatus \ {"cancelled"})) /\ f.count = Cardinality(OrdersOf(on))
          /\ f.open = Cardinality(WithStatus(on, {"pending", "shipped"}))
          /\ f.delivered = Cardinality(WithStatus(on, {"delivered"}))
      BY <2>4, <3>1 DEF Figure
    <3>3. /\ f.open + f.delivered \in Nat /\ f.open + f.delivered <= f.count /\ f.open + f.delivered <= f.spent
      BY <1>1, <3>2, AccountAgrees
    <3>4. f.count \in Int /\ f.spent \in Int
      <4>1. OrderStatus \ {"cancelled"} \in SUBSET OrderStatus
        OBVIOUS
      <4>2. Total(WithStatus(on, OrderStatus \ {"cancelled"})) \in Nat
        BY <1>1, <4>1, OrdersOfFacts
      <4>3. QED  BY <1>4, <3>2, <4>2
    <3>5. Min({f.count, f.spent}) = IF f.count <= f.spent THEN f.count ELSE f.spent
      BY <3>4, MinOfTwo
    <3>6. QED  BY <3>3, <3>5
  <2>6. QED  BY <1>10, <2>5 DEF Agrees
<1>11. report \in {"sales", "vendor", "admin", "account"}
  BY DEF AnalyticsConstants
<1>12. QED  BY <1>7, <1>8, <1>9, <1>10, <1>11

Jobs == PurchasesJob \cup ListJob \cup FiguresJob \cup {Idle}

\* A call goes on while the history stands still.
LEMMA GoesOn ==
  ASSUME HistoryInv, NEW c \in Call, NEW next \in Jobs, JobWell(next, FigureTable),
         calls' = [calls EXCEPT ![c] = next], UNCHANGED historyVars
  PROVE  HistoryWell' /\ calls' \in [Call -> Jobs] /\ \A d \in Call : JobWell(calls[d], FigureTable)'
<1>1. views' = views /\ orders' = orders /\ published' = published
  BY DEF historyVars
<1>2. HistoryWell'
  BY <1>1 DEF HistoryInv, HistoryWell, OneStore
<1>3. FigureTable' = FigureTable
  BY <1>1, TableStill
<1>4. calls \in [Call -> Jobs] /\ \A d \in Call : JobWell(calls[d], FigureTable)
  BY DEF HistoryInv, Jobs
<1>5. calls' \in [Call -> Jobs]
  BY <1>4
<1>6. ASSUME NEW d \in Call PROVE JobWell(calls'[d], FigureTable)
  <2>1. CASE d = c
    BY <1>4, <2>1
  <2>2. CASE d # c
    <3>1. calls'[d] = calls[d]
      BY <1>4, <2>2
    <3>2. QED  BY <1>4, <3>1
  <2>3. QED  BY <2>1, <2>2
<1>7. \A d \in Call : JobWell(calls[d], FigureTable)'
  <2> SUFFICES ASSUME NEW d \in Call PROVE JobWell(calls[d], FigureTable)'
    OBVIOUS
  <2>1. JobWell(calls'[d], FigureTable')
    BY <1>3, <1>6
  <2>2. QED  BY <2>1 DEF JobWell, ListWell, FiguresWell, ReadWell
<1>8. QED  BY <1>2, <1>5, <1>7

\* Nothing is answered, or nothing new.
LEMMA NothingNew ==
  ASSUME HistoryInv, (answer' = answer /\ published' = published) \/ answer' = Idle
  PROVE  NewToCustomer' /\ ReportAgrees'
<1>1. NewToCustomer /\ ReportAgrees
  BY DEF HistoryInv
<1>2. NewToCustomer'
  <2>1. CASE answer' = Idle
    BY <2>1 DEF NewToCustomer
  <2>2. CASE answer' = answer /\ published' = published
    BY <1>1, <2>2 DEF NewToCustomer, IsInjective, ToSet
  <2>3. QED  BY <2>1, <2>2
<1>3. (answer # Idle /\ answer.kind \in DOMAIN Figures => Agrees(answer.kind, answer.figure, answer.moved))
  BY <1>1, ReportAgreesIs
<1>4. ReportAgrees'
  <2>1. answer' # Idle /\ answer'.kind \in DOMAIN Figures => Agrees(answer'.kind, answer'.figure, answer'.moved)
    BY <1>3
  <2>2. QED  BY <2>1 DEF ReportAgrees, Agrees
<1>5. QED  BY <1>2, <1>4

\* An order was placed or moved: the reports it is counted in have an old figure.
LEMMA OrderMoves ==
  ASSUME AnalyticsConstants, HistoryInv, NEW o, OrderMoved(o), HistoryWell', answer' = Idle,
         DOMAIN orders \subseteq DOMAIN orders',
         \A i \in DOMAIN orders : orders'[i].customer = orders[i].customer /\ orders'[i].items = orders[i].items,
         \A x : \A i \in DOMAIN orders' :
           ~IsOf(o, x) /\ IsOf(orders'[i], x) => i \in DOMAIN orders /\ orders'[i] = orders[i]
  PROVE  HistoryInv'
<1> DEFINE table == FigureTable
           Moved(j) == IF j # Idle /\ j.do = "figures" /\ IsOf(o, j.on) THEN [j EXCEPT !.old = TRUE] ELSE j
<1>1. orders \in Seq(Order) /\ orders' \in Seq(Order)
  BY DEF HistoryInv, HistoryWell
<1>2. \A x \in Subjects :
        /\ ~IsOf(o, x) => \A name \in Names \ {"stores"} : table'[x][name] = table[x][name]
        /\ table[x]["count"] <= table'[x]["count"]
  BY <1>1, TableMoves
<1>3. \A x \in Subjects : table[x]["count"] \in Nat
  BY <1>1, TableFacts
<1>4. \A x \in Subjects : table'[x]["count"] \in Nat
  <2> SUFFICES ASSUME NEW x \in Subjects PROVE table'[x]["count"] \in Nat
    OBVIOUS
  <2>1. "count" \in Names
    BY DEF Names
  <2>2. table'[x]["count"] = Cardinality(OrdersOf(x)')
    BY <2>1 DEF FigureTable, Figure
  <2>3. IsFiniteSet(OrdersOf(x)')
    <3> DEFINE n == Len(orders')
    <3>1. n \in Int /\ n >= 0 /\ 1 \in Int /\ DOMAIN orders' = 1..n
      BY <1>1
    <3> HIDE DEF n
    <3>2. IsFiniteSet(1..n)
      BY <3>1, FS_Interval
    <3>3. OrdersOf(x)' \in SUBSET (1..n)
      BY <3>1 DEF OrdersOf
    <3>4. QED  BY <3>2, <3>3, FS_Subset
  <2>4. QED  BY <2>2, <2>3, FS_CardinalityType
<1>5. calls \in [Call -> Jobs] /\ \A c \in Call : JobWell(calls[c], table)
  BY DEF HistoryInv, Jobs
<1>6. \A c \in Call : calls'[c] = Moved(calls[c])
  BY DEF OrderMoved, Does
<1>7. calls' = [c \in Call |-> Moved(calls[c])]
  BY DEF OrderMoved, Does
<1> HIDE DEF table
<1>8. ASSUME NEW j \in Jobs, JobWell(j, table) PROVE Moved(j) \in Jobs /\ JobWell(Moved(j), table')
  <2>1. CASE j = Idle \/ j \in PurchasesJob \/ (j \in ListJob /\ ListWell(j))
    <3>1. Moved(j) = j
      BY <2>1 DEF PurchasesJob, ListJob
    <3> HIDE DEF Moved
    <3>2. QED  BY <2>1, <3>1 DEF JobWell
  <2>2. CASE j \in FiguresJob /\ FiguresWell(j, table) /\ j # Idle
    <3> DEFINE report == j.row.report
               read == j.row.read
               on == j.on
    <3>1. report \in Reports /\ read \in Seq(Reading) /\ on \in Subjects /\ j.do = "figures" /\ j.old \in BOOLEAN
      BY <2>2 DEF FiguresJob
    <3>2. on \in Subject[report] /\ Len(read) < Len(Figures[report]) /\ ReadWell(report, on, j.old, read, table)
      BY <2>2 DEF FiguresWell
    <3>3. table[on]["count"] \in Nat /\ table'[on]["count"] \in Nat /\ table[on]["count"] <= table'[on]["count"]
      BY <1>2, <1>3, <1>4, <3>1
    <3>4. CASE IsOf(o, on)
      <4> DEFINE k == [j EXCEPT !.old = TRUE]
      <4>1. Moved(j) = k
        BY <2>2, <3>1, <3>4
      <4>2. k \in FiguresJob /\ k.row = j.row /\ k.on = j.on /\ k.old = TRUE
        BY <2>2 DEF FiguresJob
      <4> HIDE DEF report, read, on, Moved, k
      <4>3. ReadWell(report, on, TRUE, read, table')
        BY <3>2, <3>3 DEF ReadWell
      <4>4. FiguresWell(k, table')
        BY <3>2, <4>2, <4>3 DEF FiguresWell, report, read, on
      <4>5. QED  BY <4>1, <4>2, <4>4 DEF JobWell, Jobs
    <3>5. CASE ~IsOf(o, on)
      <4>1. Moved(j) = j
        BY <3>5
      <4>2. report # "admin"
        <5>1. report = "admin" => on = Idle
          BY <3>1, <3>2, FiguresFacts
        <5>2. QED  BY <3>5, <5>1 DEF IsOf
      <4>3. \A k \in 1..Len(Figures[report]) : Figures[report][k] \in Names \ {"stores"}
        BY <3>1, <4>2, FiguresFacts
      <4>4. \A k \in 1..Len(read) : table'[on][Figures[report][k]] = table[on][Figures[report][k]]
        <5>1. Len(read) \in Nat /\ Len(Figures[report]) \in Nat
          BY <3>1, FiguresFacts
        <5>2. 1..Len(read) \subseteq 1..Len(Figures[report])
          BY <3>2, <5>1
        <5>3. QED  BY <1>2, <3>1, <3>5, <4>3, <5>2
      <4> HIDE DEF report, read, on, Moved
      <4>5. ReadWell(report, on, j.old, read, table')
        BY <3>2, <3>3, <4>4 DEF ReadWell
      <4>6. FiguresWell(j, table')
        BY <3>2, <4>5 DEF FiguresWell, report, read, on
      <4>7. QED  BY <2>2, <4>1, <4>6 DEF JobWell, Jobs
    <3>6. QED  BY <3>4, <3>5
  <2>3. QED  BY <1>8, <2>1, <2>2 DEF JobWell
<1> HIDE DEF Moved
<1>9. calls' \in [Call -> Jobs]
  BY <1>5, <1>7, <1>8
<1>10. \A c \in Call : JobWell(calls[c], FigureTable)'
  <2> SUFFICES ASSUME NEW c \in Call PROVE JobWell(calls[c], FigureTable)'
    OBVIOUS
  <2>1. JobWell(calls'[c], table')
    BY <1>5, <1>6, <1>8
  <2>2. QED  BY <2>1 DEF JobWell, ListWell, FiguresWell, ReadWell, table
<1>11. QED  BY <1>9, <1>10, NothingNew DEF HistoryInv, Jobs

\* The history goes on: views, orders, and what is published.
LEMMA HistoryGrows ==
  ASSUME AnalyticsConstants, HistoryInv,
         \/ \E p \in Product : TogglePublished(p) \/ \E u \in Customer \cup {Anonymous} : RecordView(p, u)
         \/ \E u \in Customer, items \in (SUBSET Product) \ {{}} : PlaceOrder(u, items)
         \/ \E i \in DOMAIN orders, status \in OrderStatus : MoveOrder(i, status)
  PROVE  HistoryInv'
<1>1. /\ views \in Seq(View) /\ orders \in Seq(Order) /\ published \subseteq Product
      /\ \A i \in DOMAIN orders : OneStore(orders[i])
  BY DEF HistoryInv, HistoryWell
<1>2. ASSUME calls' = calls, orders' = orders, HistoryWell', answer' = Idle PROVE HistoryInv'
  <2>1. FigureTable' = FigureTable
    BY <1>2, TableStill
  <2>2. \A c \in Call : JobWell(calls[c], FigureTable)'
    <3> SUFFICES ASSUME NEW c \in Call PROVE JobWell(calls[c], FigureTable)'
      OBVIOUS
    <3>1. JobWell(calls'[c], FigureTable')
      BY <1>2, <2>1 DEF HistoryInv
    <3>2. QED  BY <3>1 DEF JobWell, ListWell, FiguresWell, ReadWell
  <2>3. QED  BY <1>2, <2>2, NothingNew DEF HistoryInv
<1>3. ASSUME NEW p \in Product, TogglePublished(p) PROVE HistoryInv'
  <2>1. calls' = calls /\ orders' = orders /\ views' = views /\ answer' = Idle /\ published' \subseteq Product
    BY <1>1, <1>3 DEF TogglePublished
  <2>2. HistoryWell'
    BY <1>1, <2>1 DEF HistoryWell, OneStore
  <2>3. QED  BY <1>2, <2>1, <2>2
<1>4. ASSUME NEW p \in Product, NEW u \in Customer \cup {Anonymous}, RecordView(p, u) PROVE HistoryInv'
  <2>1. /\ calls' = calls /\ orders' = orders /\ answer' = Idle /\ published' = published
        /\ views' = Append(views, [product |-> p, user |-> u])
    BY <1>4 DEF RecordView
  <2>2. views' \in Seq(View)
    <3>1. [product |-> p, user |-> u] \in View
      BY DEF View
    <3>2. QED  BY <1>1, <2>1, <3>1
  <2>3. HistoryWell'
    BY <1>1, <2>1, <2>2 DEF HistoryWell, OneStore
  <2>4. QED  BY <1>2, <2>1, <2>3
<1>5. ASSUME NEW u \in Customer, NEW items \in (SUBSET Product) \ {{}}, PlaceOrder(u, items) PROVE HistoryInv'
  <2> DEFINE o == [customer |-> u, items |-> items, status |-> "pending"]
             n == Len(orders)
  <2>1. /\ \E s \in Stores : \A p \in items : StoreOf[p] = s
        /\ orders' = Append(orders, o) /\ OrderMoved(o) /\ answer' = Idle
        /\ views' = views /\ published' = published
    BY <1>5 DEF PlaceOrder
  <2>2. o \in Order /\ OneStore(o)
    BY <2>1 DEF Order, OrderStatus, OneStore
  <2> HIDE DEF o
  <2>3. /\ n \in Nat /\ orders' \in Seq(Order) /\ DOMAIN orders = 1..n /\ DOMAIN orders' = 1..(n + 1)
        /\ orders'[n + 1] = o /\ \A i \in 1..n : orders'[i] = orders[i]
    BY <1>1, <2>1, <2>2
  <2> HIDE DEF n
  <2>4. HistoryWell'
    <3>1. \A i \in DOMAIN orders' : OneStore(orders'[i])
      <4> SUFFICES ASSUME NEW i \in 1..(n + 1) PROVE OneStore(orders'[i])
        BY <2>3
      <4>1. CASE i = n + 1
        BY <2>2, <2>3, <4>1
      <4>2. CASE i # n + 1
        <5>1. i \in 1..n
          BY <2>3, <4>2
        <5>2. QED  BY <1>1, <2>3, <5>1
      <4>3. QED  BY <4>1, <4>2
    <3>2. QED  BY <1>1, <2>1, <2>3, <3>1 DEF HistoryWell, OneStore
  <2>5. \A x : \A i \in DOMAIN orders' :
          ~IsOf(o, x) /\ IsOf(orders'[i], x) => i \in DOMAIN orders /\ orders'[i] = orders[i]
    <3> SUFFICES ASSUME NEW x, NEW i \in 1..(n + 1), ~IsOf(o, x), IsOf(orders'[i], x)
                 PROVE  i \in 1..n /\ orders'[i] = orders[i]
      BY <2>3
    <3>1. i # n + 1
      BY <2>3
    <3>2. QED  BY <2>3, <3>1
  <2>6. /\ DOMAIN orders \subseteq DOMAIN orders'
        /\ \A i \in DOMAIN orders : orders'[i].customer = orders[i].customer /\ orders'[i].items = orders[i].items
    BY <2>3
  <2>7. QED  BY <2>1, <2>4, <2>5, <2>6, OrderMoves
<1>6. ASSUME NEW i \in DOMAIN orders, NEW status \in OrderStatus, MoveOrder(i, status) PROVE HistoryInv'
  <2> DEFINE o == orders[i]
  <2>1. /\ orders' = [orders EXCEPT ![i].status = status] /\ OrderMoved(o) /\ answer' = Idle
        /\ views' = views /\ published' = published
    BY <1>6 DEF MoveOrder
  <2>2. \A j \in DOMAIN orders : orders[j] \in Order
    BY <1>1
  <2>3. /\ DOMAIN orders' = DOMAIN orders
        /\ orders'[i] = [orders[i] EXCEPT !.status = status]
        /\ \A j \in DOMAIN orders : j # i => orders'[j] = orders[j]
    BY <1>1, <2>1
  <2>4. /\ orders'[i] \in Order /\ orders'[i].customer = orders[i].customer /\ orders'[i].items = orders[i].items
    <3>1. \A order \in Order :
            LET moved == [order EXCEPT !.status = status] IN
            moved \in Order /\ moved.customer = order.customer /\ moved.items = order.items
      BY DEF Order
    <3>2. QED  BY <2>2, <2>3, <3>1
  <2>5. \A j \in DOMAIN orders : /\ orders'[j] \in Order /\ orders'[j].customer = orders[j].customer
                                 /\ orders'[j].items = orders[j].items
    BY <2>2, <2>3, <2>4
  <2>6. orders' \in Seq(Order)
    <3> DEFINE n == Len(orders)
    <3>1. n \in Nat /\ DOMAIN orders = 1..n /\ orders' = [j \in 1..n |-> orders'[j]]
      <4>1. n \in Nat /\ DOMAIN orders = 1..n
        BY <1>1
      <4>2. orders' = [j \in DOMAIN orders |-> IF j = i THEN [orders[i] EXCEPT !.status = status] ELSE orders[j]]
        BY <2>1
      <4> HIDE DEF n
      <4>3. QED  BY <4>1, <4>2
    <3> HIDE DEF n
    <3>2. orders' \in [1..n -> Order]
      BY <2>5, <3>1
    <3>3. QED  BY <3>1, <3>2
  <2>7. HistoryWell'
    <3>1. \A j \in DOMAIN orders' : OneStore(orders'[j])
      BY <1>1, <2>3, <2>5 DEF OneStore
    <3>2. QED  BY <1>1, <2>1, <2>6, <3>1 DEF HistoryWell, OneStore
  <2>8. \A x : \A j \in DOMAIN orders' :
          ~IsOf(o, x) /\ IsOf(orders'[j], x) => j \in DOMAIN orders /\ orders'[j] = orders[j]
    <3> SUFFICES ASSUME NEW x, NEW j \in DOMAIN orders, ~IsOf(o, x), IsOf(orders'[j], x)
                 PROVE  orders'[j] = orders[j]
      BY <2>3
    <3>1. j # i
      BY <2>4 DEF IsOf
    <3>2. QED  BY <2>3, <3>1
  <2>9. DOMAIN orders \subseteq DOMAIN orders'
    BY <2>3
  <2> HIDE DEF o
  <2>10. QED  BY <2>1, <2>5, <2>7, <2>8, <2>9, OrderMoves
<1>7. QED  BY <1>3, <1>4, <1>5, <1>6

LEMMA OneGoesOn ==
  ASSUME HistoryInv, NEW c \in Call, NEW next \in Jobs, JobWell(next, FigureTable),
         calls' = [calls EXCEPT ![c] = next], UNCHANGED analyticsVars
  PROVE  HistoryInv'
<1>1. UNCHANGED historyVars /\ answer' = answer /\ published' = published
  BY DEF analyticsVars, historyVars
<1>2. HistoryWell' /\ calls' \in [Call -> Jobs] /\ \A d \in Call : JobWell(calls[d], FigureTable)'
  BY <1>1, GoesOn
<1>3. QED  BY <1>1, <1>2, NothingNew DEF HistoryInv, Jobs

\* What a call goes on with, field by field.
Onward(j, do, row) == [j EXCEPT !.do = do, !.row = row]

LEMMA OnwardIs ==
  ASSUME NEW r, r \in PurchasesJob \/ r \in ListJob, NEW d, NEW w
  PROVE  Onward(r, d, w) = [do |-> d, on |-> r.on, row |-> w, old |-> FALSE]
<1>1. SUFFICES [r EXCEPT !.do = d, !.row = w] = [do |-> d, on |-> r.on, row |-> w, old |-> FALSE]
  BY DEF Onward
<1>2. PICK s : s = [r EXCEPT !.do = d]
  OBVIOUS
<1>3. s = [do |-> d, on |-> r.on, row |-> r.row, old |-> r.old] /\ r.old = FALSE
  BY <1>2 DEF PurchasesJob, ListJob
<1>4. s \in [do : {d}, on : {r.on}, row : {r.row}, old : {r.old}]
  BY <1>3
<1>5. [s EXCEPT !.row = w] = [do |-> s.do, on |-> s.on, row |-> w, old |-> s.old]
  BY <1>4
<1>6. [r EXCEPT !.do = d, !.row = w] = [[r EXCEPT !.do = d] EXCEPT !.row = w]
  BY DEF PurchasesJob, ListJob
<1>7. QED  BY <1>2, <1>3, <1>5, <1>6

LEMMA NewList ==
  ASSUME NEW r \in ListJob, NEW l
  PROVE  [r.row EXCEPT !.list = l] = [viewed |-> r.row.viewed, met |-> r.row.met, list |-> l]
BY DEF ListJob

LEMMA NextFigures ==
  ASSUME NEW r \in FiguresJob, NEW l
  PROVE  [r EXCEPT !.do = "figures", !.row = [r.row EXCEPT !.read = l]]
           = [do |-> "figures", on |-> r.on, row |-> [report |-> r.row.report, read |-> l], old |-> r.old]
<1>1. PICK w : w = [r.row EXCEPT !.read = l]
  OBVIOUS
<1>2. w = [report |-> r.row.report, read |-> l]
  BY <1>1 DEF FiguresJob
<1>3. PICK s : s = [r EXCEPT !.do = "figures"]
  OBVIOUS
<1>4. s = [do |-> "figures", on |-> r.on, row |-> r.row, old |-> r.old]
  BY <1>3 DEF FiguresJob
<1>5. s \in [do : {"figures"}, on : {r.on}, row : {r.row}, old : {r.old}]
  BY <1>4
<1>6. [s EXCEPT !.row = w] = [do |-> s.do, on |-> s.on, row |-> w, old |-> s.old]
  BY <1>5
<1>7. [r EXCEPT !.do = "figures", !.row = w] = [[r EXCEPT !.do = "figures"] EXCEPT !.row = w]
  BY DEF FiguresJob
<1>8. QED  BY <1>1, <1>2, <1>3, <1>4, <1>6, <1>7

\* Recommendations: every statement keeps what the customer has met out.
LEMMA ListGoesOn ==
  ASSUME AnalyticsConstants, HistoryInv, NEW c \in Call,
         \/ \E u \in Customer : AskRecommendations(c, u)
         \/ ReadPurchases(c) \/ ReadSimilar(c) \/ ReadContent(c) \/ FillUp(c)
  PROVE  HistoryInv'
<1> DEFINE j == calls[c]
<1>1. calls \in [Call -> Jobs] /\ JobWell(j, FigureTable) /\ j \in Jobs
  BY DEF HistoryInv, Jobs
<1>2. Limit \in Nat /\ IsFiniteSet(Product)
  BY DEF AnalyticsConstants
<1>3. \A w \in Customer : ViewedBy(w) \in SUBSET Product /\ BoughtBy(w) \in SUBSET Product
  <2>1. (\A v \in View : v.product \in Product) /\ views \in Seq(View)
    BY DEF View, HistoryInv, HistoryWell
  <2>2. (\A o \in Order : o.items \in SUBSET Product) /\ orders \in Seq(Order)
    <3>1. ASSUME NEW o \in Order PROVE o.items \in (SUBSET Product) \ {{}}
      BY DEF Order
    <3>2. QED  BY <3>1 DEF HistoryInv, HistoryWell
  <2>3. ASSUME NEW w \in Customer PROVE ViewedBy(w) \in SUBSET Product
    BY <2>1 DEF ViewedBy, ViewsOf
  <2>4. ASSUME NEW w \in Customer PROVE BoughtBy(w) \in SUBSET Product
    BY <2>2 DEF BoughtBy
  <2>5. QED  BY <2>3, <2>4
<1>4. ASSUME NEW u \in Customer, AskRecommendations(c, u) PROVE HistoryInv'
  <2> DEFINE next == Job("purchases", u, [viewed |-> ViewedBy(u)])
  <2>1. calls' = [calls EXCEPT ![c] = next] /\ UNCHANGED analyticsVars
    BY <1>4 DEF AskRecommendations, Begin
  <2>2. next \in PurchasesJob
    BY <1>3 DEF PurchasesJob, Job
  <2> HIDE DEF next
  <2>3. QED  BY OneGoesOn, <2>1, <2>2 DEF Jobs, JobWell
<1>5. CASE ReadPurchases(c)
  <2> DEFINE row == j.row
             met == Interacted(j.on, row.viewed)
             do == IF met = {} THEN "cold" ELSE "similar"
             next == [j EXCEPT !.do = do, !.row = [viewed |-> row.viewed, met |-> met, list |-> <<>>]]
  <2>1. j # Idle /\ j.do = "purchases" /\ calls' = [calls EXCEPT ![c] = next] /\ UNCHANGED analyticsVars
    BY <1>5 DEF ReadPurchases, Does, Reads, Goes
  <2>2. j \in PurchasesJob
    BY <1>1, <2>1 DEF Jobs, ListJob, FiguresJob
  <2>3. j.on \in Customer /\ row.viewed \in SUBSET Product /\ j.old = FALSE
    BY <2>2 DEF PurchasesJob
  <2>4. met \in SUBSET Product /\ row.viewed \subseteq met
    BY <1>3, <2>3 DEF Interacted
  <2> HIDE DEF met
  <2>5. next = [do |-> do, on |-> j.on, row |-> [viewed |-> row.viewed, met |-> met, list |-> <<>>], old |-> FALSE]
    <3> DEFINE w == [viewed |-> row.viewed, met |-> met, list |-> <<>>]
    <3> HIDE DEF w, do, j
    <3>1. Onward(j, do, w) = [do |-> do, on |-> j.on, row |-> w, old |-> FALSE]
      BY <2>2, OnwardIs
    <3>2. QED  BY <3>1 DEF w, Onward
  <2>6. do \in {"cold", "similar"}
    OBVIOUS
  <2> HIDE DEF do, j, next
  <2>7. next \in ListJob
    BY <2>3, <2>4, <2>5, <2>6 DEF ListJob
  <2>8. ListWell(next)
    <3>1. next.row.viewed = row.viewed /\ next.row.met = met /\ next.row.list = <<>> /\ next.do = do
      BY <2>5
    <3> HIDE DEF row
    <3>2. QED  BY <2>4, <2>6, <3>1 DEF ListWell
  <2> HIDE DEF next
  <2>9. QED  BY OneGoesOn, <2>1, <2>7, <2>8 DEF Jobs, JobWell
<1>6. ASSUME NEW do \in {"content", "fill", "finish"}, NEW list \in Seq(Product \ j.row.met),
             do = "finish" => IsInjective(list) /\ Len(list) <= Limit,
             j \in ListJob, ListWell(j),
             calls' = [calls EXCEPT ![c] = [j EXCEPT !.do = do, !.row = [j.row EXCEPT !.list = list]]],
             UNCHANGED analyticsVars
      PROVE  HistoryInv'
  <2> HIDE DEF j
  <2> DEFINE row == [j.row EXCEPT !.list = list]
             next == [j EXCEPT !.do = do, !.row = row]
  <2>1. /\ j.on \in Customer /\ j.row.viewed \in SUBSET Product /\ j.row.met \in SUBSET Product /\ j.old = FALSE
        /\ row = [viewed |-> j.row.viewed, met |-> j.row.met, list |-> list]
    <3>1. row = [viewed |-> j.row.viewed, met |-> j.row.met, list |-> list]
      BY <1>6, NewList
    <3>2. j \in ListJob
      BY <1>6
    <3>3. QED  BY <3>1, <3>2 DEF ListJob
  <2>2. list \in Seq(Product)
    BY <1>6
  <2> HIDE DEF row
  <2>3. next = [do |-> do, on |-> j.on, row |-> row, old |-> FALSE]
    <3>1. Onward(j, do, row) = [do |-> do, on |-> j.on, row |-> row, old |-> FALSE]
      BY <1>6, OnwardIs
    <3>2. QED  BY <3>1 DEF Onward
  <2>4. next \in ListJob
    BY <2>1, <2>2, <2>3 DEF ListJob
  <2>5. ListWell(next)
    BY <1>6, <2>1, <2>3 DEF ListWell
  <2>6. calls' = [calls EXCEPT ![c] = next]
    BY <1>6 DEF row
  <2> HIDE DEF next
  <2>7. QED  BY OneGoesOn, <1>6, <2>4, <2>5, <2>6 DEF Jobs, JobWell
<1>7. ASSUME j # Idle, j.do \in {"similar", "content", "fill"} PROVE j \in ListJob /\ ListWell(j)
  BY <1>1, <1>7 DEF JobWell, PurchasesJob, FiguresJob
<1>8. CASE ReadSimilar(c)
  <2>1. j # Idle /\ j.do = "similar" /\ UNCHANGED analyticsVars
    BY <1>8 DEF ReadSimilar, Does, Reads
  <2>2. PICK C \in SUBSET (Product \ j.row.met) : \E l \in SetToSeqs(C) :
          calls' = [calls EXCEPT ![c] = [j EXCEPT !.do = "content", !.row = [j.row EXCEPT !.list = Taken(l, 2 * Limit)]]]
    BY <1>8 DEF ReadSimilar, Reads, Goes, Ranked
  <2>3. PICK l \in SetToSeqs(C) :
          calls' = [calls EXCEPT ![c] = [j EXCEPT !.do = "content", !.row = [j.row EXCEPT !.list = Taken(l, 2 * Limit)]]]
    BY <2>2
  <2> DEFINE S == Product \ j.row.met
             list == Taken(l, 2 * Limit)
  <2>4. list \in Seq(S)
    <3>1. C \in SUBSET S /\ S \in SUBSET Product /\ 2 * Limit \in Nat
      BY <1>2, <2>2
    <3>2. IsFiniteSet(S)
      BY <1>2, <3>1, FS_Subset
    <3> HIDE DEF S
    <3>3. QED  BY <3>1, <3>2, FirstOfSet
  <2> HIDE DEF list
  <2>5. j \in ListJob /\ ListWell(j)
    BY <1>7, <2>1
  <2>6. QED  BY <1>6, <2>1, <2>3, <2>4, <2>5 DEF list
<1>9. CASE ReadContent(c)
  <2>1. j # Idle /\ j.do = "content" /\ UNCHANGED analyticsVars
    BY <1>9 DEF ReadContent, Does, Reads
  <2>2. PICK C \in SUBSET (Product \ j.row.met) : \E l \in SetToSeqs(C) :
          calls' = [calls EXCEPT ![c] = [j EXCEPT !.do = "fill",
            !.row = [j.row EXCEPT !.list = Distinct(j.row.list \o Taken(l, 2 * Limit))]]]
    <3> DEFINE alike == {p \in published \ j.row.met : \E q \in j.row.met : CategoryOf[p] = CategoryOf[q]}
    <3>1. alike \in SUBSET (Product \ j.row.met)
      BY DEF HistoryInv, HistoryWell
    <3>2. \E l \in SetToSeqs(alike) :
            calls' = [calls EXCEPT ![c] = [j EXCEPT !.do = "fill",
              !.row = [j.row EXCEPT !.list = Distinct(@ \o Taken(l, 2 * Limit))]]]
      BY <1>9 DEF ReadContent, Reads, Goes
    <3> HIDE DEF alike
    <3>3. QED  BY <3>1, <3>2
  <2>3. PICK l \in SetToSeqs(C) :
          calls' = [calls EXCEPT ![c] = [j EXCEPT !.do = "fill",
            !.row = [j.row EXCEPT !.list = Distinct(j.row.list \o Taken(l, 2 * Limit))]]]
    BY <2>2
  <2> DEFINE S == Product \ j.row.met
             more == Taken(l, 2 * Limit)
             list == Distinct(j.row.list \o more)
  <2>4. j \in ListJob /\ ListWell(j)
    BY <1>7, <2>1
  <2>5. more \in Seq(S)
    <3>1. C \in SUBSET S /\ S \in SUBSET Product /\ 2 * Limit \in Nat
      BY <1>2, <2>2
    <3>2. IsFiniteSet(S)
      BY <1>2, <3>1, FS_Subset
    <3> HIDE DEF S
    <3>3. QED  BY <3>1, <3>2, FirstOfSet
  <2> HIDE DEF more
  <2>6. j.row.list \o more \in Seq(S)
    BY <2>4, <2>5 DEF ListWell
  <2>7. list \in Seq(S)
    <3> HIDE DEF S
    <3>1. QED  BY <1>2, <2>6, DistinctFacts
  <2> HIDE DEF list
  <2>8. QED  BY <1>6, <2>1, <2>3, <2>4, <2>7 DEF list, more
<1>10. CASE FillUp(c)
  <2>1. j # Idle /\ j.do = "fill" /\ UNCHANGED analyticsVars
    BY <1>10 DEF FillUp, Does, Reads
  <2>2. PICK C \in SUBSET Product : \E l \in SetToSeqs(C) :
          calls' = [calls EXCEPT ![c] = [j EXCEPT !.do = "finish",
            !.row = [j.row EXCEPT !.list = Distinct(j.row.list \o Only(Taken(l, 2 * Limit), Product \ j.row.met))]]]
    BY <1>10 DEF FillUp, Reads, Goes, BestSellers, Ranked
  <2>3. PICK l \in SetToSeqs(C) :
          calls' = [calls EXCEPT ![c] = [j EXCEPT !.do = "finish",
            !.row = [j.row EXCEPT !.list = Distinct(j.row.list \o Only(Taken(l, 2 * Limit), Product \ j.row.met))]]]
    BY <2>2
  <2> DEFINE S == Product \ j.row.met
             best == Taken(l, 2 * Limit)
             more == Only(best, S)
             list == Distinct(j.row.list \o more)
  <2>4. j \in ListJob /\ ListWell(j)
    BY <1>7, <2>1
  <2>5. best \in Seq(Product)
    <3>1. 2 * Limit \in Nat
      BY <1>2
    <3>2. QED  BY <1>2, <3>1, FirstOfSet
  <2>6. more \in Seq(S)
    <3> HIDE DEF S, best
    <3>1. more \in Seq(Product) /\ ToSet(more) = ToSet(best) \cap S
      BY <2>5, OnlyFacts
    <3>2. \A i \in 1..Len(more) : more[i] \in S
      BY <3>1 DEF ToSet
    <3> HIDE DEF more
    <3>3. QED  BY <3>1, <3>2
  <2> HIDE DEF more, best
  <2>7. j.row.list \o more \in Seq(S)
    BY <2>4, <2>6 DEF ListWell
  <2>8. list \in Seq(S) /\ IsInjective(list) /\ Len(list) <= Limit
    <3> HIDE DEF S
    <3>1. QED  BY <1>2, <2>7, DistinctFacts
  <2> HIDE DEF list
  <2>9. QED  BY <1>6, <2>1, <2>3, <2>4, <2>8 DEF list, more, best
<1>11. QED  BY <1>4, <1>5, <1>8, <1>9, <1>10

\* The first places of an order by count.
LEMMA RankedFacts ==
  ASSUME AnalyticsConstants, HistoryWell,
         NEW list, list \in BestSellers(Limit) \/ list \in Trending(Limit)
  PROVE  IsInjective(list) /\ Len(list) <= Limit
<1>1. Limit \in Nat /\ IsFiniteSet(Product)
  BY DEF AnalyticsConstants
<1>2. published \in SUBSET Product
  BY DEF HistoryWell
<1>3. PICK C \in SUBSET Product : \E l \in SetToSeqs(C) : list = Taken(l, Limit)
  <2>1. CASE list \in BestSellers(Limit)
    <3> DEFINE D == {x \in Product : UnitsSold(x) > 0}
    <3>1. \E l \in SetToSeqs(D) : list = Taken(l, Limit)
      BY <2>1 DEF BestSellers, Ranked
    <3>2. D \in SUBSET Product
      OBVIOUS
    <3> HIDE DEF D
    <3>3. QED  BY <3>1, <3>2
  <2>2. CASE list \in Trending(Limit)
    <3> DEFINE D == {x \in published : ViewCount(x) > 0}
    <3>1. \E l \in SetToSeqs(D) : list = Taken(l, Limit)
      BY <2>2 DEF Trending, Ranked
    <3>2. D \in SUBSET Product
      BY <1>2
    <3> HIDE DEF D
    <3>3. QED  BY <3>1, <3>2
  <2>3. QED  BY <2>1, <2>2
<1>4. PICK l \in SetToSeqs(C) : list = Taken(l, Limit)
  BY <1>3
<1>5. QED  BY <1>1, <1>4, FirstOfSet

\* Recommendations: the answer.
LEMMA ListAnswered ==
  ASSUME AnalyticsConstants, HistoryInv, NEW c \in Call, ColdStart(c) \/ FinishList(c)
  PROVE  HistoryInv'
<1>1. Idle \in Jobs /\ JobWell(Idle, FigureTable)
  BY DEF Jobs, JobWell
<1>2. HistoryWell /\ published \subseteq Product /\ calls \in [Call -> Jobs] /\ JobWell(calls[c], FigureTable)
  BY DEF HistoryInv, HistoryWell, Jobs
<1>3. ASSUME NEW kind \in {"cold", "list"}, answer' # Idle => answer'.kind = kind,
             answer' # Idle => IsInjective(answer'.list) /\ Len(answer'.list) <= Limit,
             answer' # Idle /\ kind = "list" => ToSet(answer'.list) \subseteq published \ answer'.viewed,
             End(c), UNCHANGED historyVars
      PROVE  HistoryInv'
  <2>1. calls' = [calls EXCEPT ![c] = Idle]
    BY <1>3 DEF End, Goes
  <2>2. HistoryWell' /\ calls' \in [Call -> Jobs] /\ \A d \in Call : JobWell(calls[d], FigureTable)'
    BY <1>1, <1>3, <2>1, GoesOn
  <2>3. published' = published
    BY <1>3 DEF historyVars
  <2>4. NewToCustomer'
    BY <1>3, <2>3 DEF NewToCustomer, IsInjective, ToSet
  <2>5. DOMAIN Figures = {"sales", "vendor", "admin", "account"}
    BY DEF Figures
  <2>6. ReportAgrees'
    <3>1. answer' # Idle => answer'.kind \notin DOMAIN Figures
      BY <1>3, <2>5
    <3>2. QED  BY <3>1 DEF ReportAgrees
  <2>7. QED  BY <2>2, <2>4, <2>6 DEF HistoryInv, Jobs
<1>4. CASE ColdStart(c)
  <2>1. PICK list \in BestSellers(Limit), trending \in Trending(Limit) :
          Answered(c, [kind |-> "cold", list |-> IF list = <<>> THEN trending ELSE list])
    BY <1>4 DEF ColdStart
  <2> DEFINE out == IF list = <<>> THEN trending ELSE list
  <2>2. IsInjective(out) /\ Len(out) <= Limit
    <3>1. CASE list = <<>>
      BY <1>2, <3>1, RankedFacts
    <3>2. CASE list # <<>>
      BY <1>2, <3>2, RankedFacts
    <3>3. QED  BY <3>1, <3>2
  <2>3. answer' = [kind |-> "cold", list |-> out] /\ End(c) /\ UNCHANGED historyVars
    BY <2>1 DEF Answered
  <2> HIDE DEF out
  <2>4. answer'.kind = "cold" /\ answer'.list = out
    BY <2>3
  <2>5. QED  BY <1>3, <2>2, <2>3, <2>4
<1>5. CASE FinishList(c)
  <2> DEFINE j == calls[c]
             list == Only(j.row.list, published)
  <2>1. /\ j # Idle /\ j.do = "finish" /\ End(c) /\ UNCHANGED historyVars
        /\ answer' = [kind |-> "list", viewed |-> j.row.viewed, list |-> list]
    BY <1>5 DEF FinishList, Answered, Does
  <2>2. j \in ListJob /\ ListWell(j)
    BY <1>2, <2>1 DEF JobWell, PurchasesJob, FiguresJob
  <2> HIDE DEF j
  <2>3. /\ j.row.list \in Seq(Product \ j.row.met) /\ j.row.viewed \subseteq j.row.met
        /\ IsInjective(j.row.list) /\ Len(j.row.list) <= Limit
    BY <2>1, <2>2 DEF ListWell
  <2>4. /\ list \in Seq(Product \ j.row.met) /\ ToSet(list) = ToSet(j.row.list) \cap published
        /\ Len(list) <= Len(j.row.list) /\ IsInjective(list)
    BY <2>3, OnlyFacts
  <2> HIDE DEF list
  <2>5. ToSet(list) \subseteq published \ j.row.viewed
    <3>1. ToSet(list) \subseteq Product \ j.row.met
      BY <2>4 DEF ToSet
    <3>2. QED  BY <2>3, <2>4, <3>1
  <2>6. Len(list) <= Limit
    <3>1. Len(list) \in Nat /\ Len(j.row.list) \in Nat /\ Limit \in Nat
      BY <2>3, <2>4 DEF AnalyticsConstants
    <3>2. QED  BY <2>3, <2>4, <3>1
  <2>7. answer'.kind = "list" /\ answer'.viewed = j.row.viewed /\ answer'.list = list
    BY <2>1
  <2>8. QED  BY <1>3, <2>1, <2>4, <2>5, <2>6, <2>7
<1>6. QED  BY <1>4, <1>5

\* A report or dashboard is asked for, read, and answered.
LEMMA ReportGoesOn ==
  ASSUME AnalyticsConstants, HistoryInv, NEW c \in Call,
         \/ \E report \in Reports : \E x \in Subject[report] : AskReport(c, report, x)
         \/ ReadFigure(c)
  PROVE  HistoryInv'
<1> DEFINE j == calls[c]
<1>1. HistoryWell /\ calls \in [Call -> Jobs] /\ JobWell(j, FigureTable) /\ j \in Jobs
  BY DEF HistoryInv, Jobs
<1>2. ASSUME NEW report \in Reports, NEW x \in Subject[report], AskReport(c, report, x) PROVE HistoryInv'
  <2> DEFINE next == Job("figures", x, [report |-> report, read |-> <<>>])
  <2>1. calls' = [calls EXCEPT ![c] = next] /\ UNCHANGED analyticsVars
    BY <1>2 DEF AskReport, Begin
  <2>2. next = [do |-> "figures", on |-> x, row |-> [report |-> report, read |-> <<>>], old |-> FALSE]
    BY DEF Job
  <2> HIDE DEF next
  <2>3. x \in Subjects /\ Len(Figures[report]) \in Nat /\ 0 < Len(Figures[report])
    BY FiguresFacts
  <2>4. <<>> \in Seq(Reading) /\ Len(<<>>) = 0
    OBVIOUS
  <2>5. next \in FiguresJob
    BY <2>2, <2>3, <2>4 DEF FiguresJob
  <2>6. ReadWell(report, x, FALSE, <<>>, FigureTable)
    BY <2>4 DEF ReadWell
  <2>7. FiguresWell(next, FigureTable)
    <3>1. next.on = x /\ next.old = FALSE /\ next.row.report = report /\ next.row.read = <<>>
      BY <2>2
    <3>2. QED  BY <2>3, <2>4, <2>6, <3>1 DEF FiguresWell
  <2>8. QED  BY <2>1, <2>5, <2>7, OneGoesOn DEF Jobs, JobWell
<1>3. ASSUME ReadFigure(c) PROVE HistoryInv'
  <2> DEFINE row == j.row
             list == Figures[row.report]
             read == Append(row.read, Figure(list[Len(row.read) + 1], j.on))
             next == [j EXCEPT !.do = "figures", !.row = [row EXCEPT !.read = read]]
  <2>1. /\ j # Idle /\ j.do = "figures"
        /\ IF Len(read) < Len(list) THEN calls' = [calls EXCEPT ![c] = next] /\ UNCHANGED analyticsVars
           ELSE /\ answer' = [kind |-> row.report, moved |-> j.old, figure |-> Gathered(list, read)]
                /\ End(c) /\ UNCHANGED historyVars
    BY <1>3 DEF ReadFigure, Does, Reads, Goes, Answered, Gathered
  <2>2. j \in FiguresJob /\ FiguresWell(j, FigureTable)
    BY <1>1, <2>1 DEF JobWell, PurchasesJob, ListJob
  <2> HIDE DEF j
  <2>3. row.report \in Reports /\ row.read \in Seq(Reading) /\ j.old \in BOOLEAN /\ j.on \in Subjects
    BY <2>2 DEF FiguresJob
  <2>4. /\ j.on \in Subject[row.report] /\ Len(row.read) < Len(list)
        /\ ReadWell(row.report, j.on, j.old, row.read, FigureTable)
    BY <2>2 DEF FiguresWell
  <2>5. /\ read \in Seq(Reading) /\ Len(read) = Len(row.read) + 1
        /\ ReadWell(row.report, j.on, j.old, read, FigureTable)
        /\ read[Len(read)] = FigureTable[j.on][list[Len(read)]]
    <3>1. read = Append(row.read, Figure(Figures[row.report][Len(row.read) + 1], j.on))
      OBVIOUS
    <3> HIDE DEF read, row
    <3>2. /\ read \in Seq(Reading) /\ Len(read) = Len(row.read) + 1
          /\ ReadWell(row.report, j.on, j.old, read, FigureTable)
          /\ read[Len(read)] = FigureTable[j.on][Figures[row.report][Len(read)]]
      <4> DEFINE on == j.on
                 old == j.old
                 kind == row.report
                 sofar == row.read
      <4>1. /\ HistoryWell /\ kind \in Reports /\ on \in Subject[kind] /\ old \in BOOLEAN /\ sofar \in Seq(Reading)
            /\ Len(sofar) < Len(Figures[kind]) /\ ReadWell(kind, on, old, sofar, FigureTable)
            /\ read = Append(sofar, Figure(Figures[kind][Len(sofar) + 1], on))
        BY <1>1, <2>3, <2>4, <3>1
      <4> HIDE DEF on, old, kind, sofar, list, j
      <4>2. read \in Seq(Reading)
        BY <4>1, ReadMore
      <4>3. Len(read) = Len(sofar) + 1
        BY <4>1, ReadMore
      <4>4. ReadWell(kind, on, old, read, FigureTable)
        BY <4>1, ReadMore
      <4>5. read[Len(read)] = FigureTable[on][Figures[kind][Len(read)]]
        BY <4>1, ReadMore
      <4>6. QED  BY <4>2, <4>3, <4>4, <4>5 DEF on, old, kind, sofar
    <3>3. QED  BY <3>2
  <2> HIDE DEF read
  <2>6. CASE Len(read) < Len(list)
    <3>1. next = [do |-> "figures", on |-> j.on, row |-> [report |-> row.report, read |-> read], old |-> j.old]
      BY <2>2, NextFigures
    <3>2. calls' = [calls EXCEPT ![c] = next] /\ UNCHANGED analyticsVars
      BY <2>1, <2>6
    <3> HIDE DEF next, row
    <3>3. next \in FiguresJob
      BY <2>3, <2>5, <3>1 DEF FiguresJob
    <3>4. FiguresWell(next, FigureTable)
      <4>1. next.on = j.on /\ next.old = j.old /\ next.row.report = row.report /\ next.row.read = read
        BY <3>1
      <4>2. QED  BY <2>4, <2>5, <2>6, <4>1 DEF FiguresWell
    <3>5. QED  BY <3>2, <3>3, <3>4, OneGoesOn DEF Jobs, JobWell
  <2>7. CASE ~(Len(read) < Len(list))
    <3>1. /\ answer' = [kind |-> row.report, moved |-> j.old, figure |-> Gathered(list, read)]
          /\ End(c) /\ UNCHANGED historyVars
      BY <2>1, <2>7
    <3> HIDE DEF row
    <3>2. Len(read) = Len(list)
      <4>1. Len(row.read) \in Nat /\ Len(list) \in Nat
        BY <2>3, FiguresFacts
      <4>2. QED  BY <2>4, <2>5, <2>7, <4>1
    <3>3. Agrees(row.report, Gathered(list, read), j.old)
      BY <1>1, <2>3, <2>4, <2>5, <3>2, Agreement
    <3>4. answer'.kind = row.report /\ answer'.moved = j.old /\ answer'.figure = Gathered(list, read)
      BY <3>1
    <3>5. ReportAgrees'
      <4>1. Agrees(answer'.kind, answer'.figure, answer'.moved)
        BY <3>3, <3>4
      <4>2. QED  BY <4>1 DEF ReportAgrees, Agrees
    <3>6. NewToCustomer'
      <4>1. answer'.kind \in {"sales", "vendor", "admin", "account"}
        BY <2>3, <3>4 DEF AnalyticsConstants
      <4>2. QED  BY <4>1 DEF NewToCustomer
    <3>7. Idle \in Jobs /\ JobWell(Idle, FigureTable)
      BY DEF Jobs, JobWell
    <3>8. HistoryWell' /\ calls' \in [Call -> Jobs] /\ \A d \in Call : JobWell(calls[d], FigureTable)'
      BY <3>1, <3>7, GoesOn DEF End, Goes
    <3>9. QED  BY <3>5, <3>6, <3>8 DEF HistoryInv, Jobs
  <2>8. QED  BY <2>6, <2>7
<1>4. QED  BY <1>2, <1>3

\* A step of the history, of a list or of a report, or none at all.
LEMMA HistoryNext ==
  ASSUME AnalyticsConstants, HistoryInv, AnalyticsNext
  PROVE  HistoryInv'
<1>1. CASE \/ \E p \in Product : TogglePublished(p) \/ \E u \in Customer \cup {Anonymous} : RecordView(p, u)
           \/ \E u \in Customer, some \in (SUBSET Product) \ {{}} : PlaceOrder(u, some)
           \/ \E i \in DOMAIN orders, to \in OrderStatus : MoveOrder(i, to)
  BY <1>1, HistoryGrows
<1>2. ASSUME NEW c \in Call, \/ \E u \in Customer : AskRecommendations(c, u)
                             \/ ReadPurchases(c) \/ ReadSimilar(c) \/ ReadContent(c) \/ FillUp(c)
      PROVE  HistoryInv'
  BY <1>2, ListGoesOn
<1>3. ASSUME NEW c \in Call, ColdStart(c) \/ FinishList(c) PROVE HistoryInv'
  BY <1>3, ListAnswered
<1>4. ASSUME NEW c \in Call, \/ \E report \in Reports : \E x \in Subject[report] : AskReport(c, report, x)
                             \/ ReadFigure(c)
      PROVE  HistoryInv'
  BY <1>4, ReportGoesOn
<1>5. QED  BY <1>1, <1>2, <1>3, <1>4 DEF AnalyticsNext

LEMMA HistoryStill ==
  ASSUME HistoryInv, UNCHANGED <<calls, analyticsVars>>
  PROVE  HistoryInv'
<1>1. calls' = calls /\ views' = views /\ orders' = orders /\ published' = published /\ answer' = answer
  BY DEF analyticsVars, historyVars
<1>2. FigureTable' = FigureTable
  BY <1>1, TableStill
<1>3. \A c \in Call : JobWell(calls[c], FigureTable)'
  <2> SUFFICES ASSUME NEW c \in Call PROVE JobWell(calls[c], FigureTable)'
    OBVIOUS
  <2>1. JobWell(calls'[c], FigureTable')
    BY <1>1, <1>2 DEF HistoryInv
  <2>2. QED  BY <2>1 DEF JobWell, ListWell, FiguresWell, ReadWell
<1>4. HistoryWell'
  BY <1>1 DEF HistoryInv, HistoryWell, OneStore
<1>5. QED  BY <1>1, <1>3, <1>4, NothingNew DEF HistoryInv

LEMMA PagesStill ==
  ASSUME PagesInv, UNCHANGED <<calls, storefrontVars>>
  PROVE  PagesInv'
BY DEF PagesInv, storefrontVars, StorefrontTypeOK, SeenWell, Loaded, Does, Latest, StripTrue

\* Nothing has happened yet.
LEMMA NothingYet ==
  ASSUME AnalyticsConstants, StorefrontConstants
  PROVE  /\ AnalyticsInit => LastViewedFirst /\ NewToCustomer /\ ReportAgrees
         /\ StorefrontInit => SeenInOrder /\ StripTrue
<1>1. ASSUME AnalyticsInit PROVE LastViewedFirst /\ NewToCustomer /\ ReportAgrees
  <2>1. views = <<>> /\ answer = Idle
    BY <1>1 DEF AnalyticsInit
  <2>2. views \in Seq(View)
    BY <2>1
  <2>3. QED  BY <2>1, <2>2, LastViewed DEF NewToCustomer, ReportAgrees
<1>2. ASSUME StorefrontInit PROVE SeenInOrder /\ StripTrue
  <2>1. seen = <<>> /\ visited = <<>> /\ strip = Idle
    BY <1>2 DEF StorefrontInit
  <2>2. ToSet(<<>>) = {} /\ Cardinality(ToSet(<<>>)) = 0
    BY FS_EmptySet DEF ToSet
  <2>3. Min({0, MaxSeen}) = 0
    BY MinOfTwo DEF StorefrontConstants
  <2>4. IsInjective(<<>>)
    BY DEF IsInjective
  <2>5. Len(seen) = 0 /\ DOMAIN seen = {} /\ ToSet(seen) = {}
    BY <2>1, <2>2
  <2>6. IsInjective(seen) /\ Len(seen) <= MaxSeen /\ ToSet(seen) \subseteq ToSet(visited)
    BY <2>1, <2>4, <2>5 DEF StorefrontConstants
  <2>7. Len(seen) = Min({Cardinality(ToSet(visited)), MaxSeen})
    BY <2>1, <2>2, <2>3, <2>5
  <2>8. QED  BY <2>1, <2>5, <2>6, <2>7 DEF SeenInOrder, StripTrue
<1>3. QED  BY <1>1, <1>2

-----------------------------------------------------------------------------
(* The shop *)

\* The area that is looked at is well, the others are as they began.
ShopInv ==
  /\ area \in {"history", "pages", "prices", "words"}
  /\ IF area = "history" THEN HistoryInv ELSE AnalyticsInit
  /\ IF area = "pages" THEN PagesInv ELSE StorefrontInit
  /\ IF area = "prices" THEN PricesInv ELSE PricingStill
  /\ IF area = "words" THEN WordsInv ELSE SearchStill

LEMMA ShopStarts ==
  ASSUME ShopConstants, ShopInit
  PROVE  ShopInv
<1>1. MaxSeen \in Nat /\ PricingConstants
  BY DEF ShopConstants, StorefrontConstants
<1>2. calls = [c \in Call |-> Idle] /\ AnalyticsInit /\ StorefrontInit
  BY DEF ShopInit
<1>3. HistoryInv /\ PagesInv
  BY <1>1, <1>2, HistoryInit, PagesInit
<1>4. area = "prices" => PricesInv
  BY <1>1, PricesInit DEF ShopInit
<1>5. area = "words" => WordsInv
  BY WordsInit DEF ShopInit
<1>6. QED  BY <1>2, <1>3, <1>4, <1>5 DEF ShopInit, ShopInv

LEMMA ShopGoesOn ==
  ASSUME ShopConstants, ShopInv, [ShopNext]_shopVars
  PROVE  ShopInv'
<1>1. /\ AnalyticsConstants /\ PricingConstants /\ SmartQueryConstants /\ MaxSeen \in Nat \ {0}
  BY DEF ShopConstants, StorefrontConstants
<1>2. area' = area
  BY DEF ShopNext, shopVars
<1>3. /\ UNCHANGED analyticsVars /\ AnalyticsInit => AnalyticsInit'
      /\ UNCHANGED storefrontVars /\ StorefrontInit => StorefrontInit'
      /\ UNCHANGED pricingVars /\ PricingStill => PricingStill'
      /\ UNCHANGED queryVars /\ SearchStill => SearchStill'
  <2>1. UNCHANGED analyticsVars /\ AnalyticsInit => AnalyticsInit'
    BY DEF analyticsVars, historyVars, AnalyticsInit
  <2>2. UNCHANGED storefrontVars /\ StorefrontInit => StorefrontInit'
    BY DEF storefrontVars, StorefrontInit
  <2>3. UNCHANGED pricingVars /\ PricingStill => PricingStill'
    BY DEF pricingVars, PricingStill
  <2>4. UNCHANGED queryVars /\ SearchStill => SearchStill'
    BY DEF queryVars, SearchStill
  <2>5. QED  BY <2>1, <2>2, <2>3, <2>4
<1>4. CASE area = "history"
  <2>1. HistoryInv /\ StorefrontInit /\ PricingStill /\ SearchStill
    BY <1>4 DEF ShopInv
  <2>2. UNCHANGED <<storefrontVars, pricingVars, queryVars>> /\ (AnalyticsNext \/ UNCHANGED <<calls, analyticsVars>>)
    BY <1>4 DEF ShopNext, shopVars
  <2>3. HistoryInv'
    BY <1>1, <2>1, <2>2, HistoryNext, HistoryStill
  <2>4. QED  BY <1>2, <1>3, <1>4, <2>1, <2>2, <2>3 DEF ShopInv
<1>5. CASE area = "pages"
  <2>1. AnalyticsInit /\ PagesInv /\ PricingStill /\ SearchStill
    BY <1>5 DEF ShopInv
  <2>2. UNCHANGED <<analyticsVars, pricingVars, queryVars>> /\ (StorefrontNext \/ UNCHANGED <<calls, storefrontVars>>)
    BY <1>5 DEF ShopNext, shopVars
  <2>3. PagesInv'
    BY <1>1, <2>1, <2>2, PagesNext, PagesStill
  <2>4. QED  BY <1>2, <1>3, <1>5, <2>1, <2>2, <2>3 DEF ShopInv
<1>6. CASE area = "prices"
  <2>1. AnalyticsInit /\ StorefrontInit /\ PricesInv /\ SearchStill
    BY <1>6 DEF ShopInv
  <2>2. UNCHANGED <<analyticsVars, storefrontVars, queryVars>> /\ (PricingNext \/ UNCHANGED pricingVars)
    BY <1>6 DEF ShopNext, shopVars
  <2>3. CASE UNCHANGED pricingVars
    <3>1. groups' = groups /\ coupon' = coupon /\ rules' = rules /\ applied' = applied /\ priced' = priced
      BY <2>3 DEF pricingVars
    <3>2. PricingTypeOK'
      BY <2>1, <3>1 DEF PricesInv, PricingTypeOK
    <3>3. (\A i \in DOMAIN priced : FiguresRight(priced[i]))'
      <4> SUFFICES ASSUME NEW i \in DOMAIN priced' PROVE FiguresRight(priced[i])'
        OBVIOUS
      <4>1. FiguresRight(priced'[i])
        BY <2>1, <3>1 DEF PricesInv
      <4>2. QED  BY <3>1, <4>1 DEF FiguresRight, Counts, AreFor
    <3>4. PricesInv'
      BY <2>1, <3>1, <3>2, <3>3 DEF PricesInv
    <3>5. QED  BY <1>2, <1>3, <1>6, <2>1, <2>2, <3>4 DEF ShopInv
  <2>4. CASE PricingNext
    <3>1. PricesInv'
      BY <1>1, <2>1, <2>4, PricesNext
    <3>2. QED  BY <1>2, <1>3, <1>6, <2>1, <2>2, <3>1 DEF ShopInv
  <2>5. QED  BY <2>2, <2>3, <2>4
<1>7. CASE area = "words"
  <2>1. AnalyticsInit /\ StorefrontInit /\ PricingStill /\ WordsInv
    BY <1>7 DEF ShopInv
  <2>2. UNCHANGED <<analyticsVars, storefrontVars, pricingVars>> /\ (SmartQueryNext \/ UNCHANGED queryVars)
    BY <1>7 DEF ShopNext, shopVars
  <2>3. CASE UNCHANGED queryVars
    <3>1. query' = query /\ chosen' = chosen /\ found' = found
      BY <2>3 DEF queryVars
    <3>2. BrandAt' = BrandAt /\ CategoryAt' = CategoryAt
      BY <3>1 DEF BrandAt, CategoryAt
    <3>3. NameAt(BrandAt)' = NameAt(BrandAt) /\ NameAt(CategoryAt)' = NameAt(CategoryAt)
      BY <3>1, <3>2 DEF NameAt
    <3>4. WordsInv'
      BY <2>1, <3>1, <3>2, <3>3 DEF WordsInv, EveryWordCounts
    <3>5. QED  BY <1>2, <1>3, <1>7, <2>1, <2>2, <3>4 DEF ShopInv
  <2>4. CASE SmartQueryNext
    <3>1. WordsInv'
      BY <1>1, <2>1, <2>4, WordsNext
    <3>2. QED  BY <1>2, <1>3, <1>7, <2>1, <2>2, <3>1 DEF ShopInv
  <2>5. QED  BY <2>2, <2>3, <2>4
<1>8. QED  BY <1>4, <1>5, <1>6, <1>7 DEF ShopInv

LEMMA ShopIsTrue ==
  ASSUME ShopConstants, ShopInv
  PROVE  HistoryRetold /\ FiguresAndWords
<1>1. AnalyticsConstants /\ StorefrontConstants /\ MaxSeen \in Nat \ {0}
  BY DEF ShopConstants, StorefrontConstants
<1>2. LastViewedFirst /\ NewToCustomer /\ ReportAgrees
  <2>1. CASE area = "history"
    BY <1>1, <2>1, LastViewed DEF ShopInv, HistoryInv, HistoryWell
  <2>2. CASE area # "history"
    BY <1>1, <2>2, NothingYet DEF ShopInv
  <2>3. QED  BY <2>1, <2>2
<1>3. SeenInOrder /\ StripTrue
  <2>1. CASE area = "pages"
    BY <1>1, <2>1, PagesTrue DEF ShopInv
  <2>2. CASE area # "pages"
    BY <1>1, <2>2, NothingYet DEF ShopInv
  <2>3. QED  BY <2>1, <2>2
<1>4. TotalsAddUp
  <2>1. CASE area = "prices"
    BY <2>1, PricesTrue DEF ShopInv
  <2>2. CASE area # "prices"
    BY <2>2 DEF ShopInv, PricingStill, TotalsAddUp
  <2>3. QED  BY <2>1, <2>2
<1>5. EveryWordCounts
  BY DEF ShopInv, WordsInv, SearchStill, EveryWordCounts
<1>6. QED  BY <1>2, <1>3, <1>4, <1>5 DEF HistoryRetold, FiguresAndWords

\* In every behaviour what is made of the history is true of it: the products
\* a customer viewed last, what is recommended, the figures of reports, and
\* the products a visitor has seen.
THEOREM HistoryHolds ==
  ASSUME ShopConstants
  PROVE  ShopSpec => []HistoryRetold
<1>1. ShopInit => ShopInv
  BY ShopStarts
<1>2. ShopInv /\ [ShopNext]_shopVars => ShopInv'
  BY ShopGoesOn
<1>3. ShopInv => HistoryRetold
  BY ShopIsTrue
<1>4. QED  BY <1>1, <1>2, <1>3, PTL DEF ShopSpec

\* In every behaviour a checkout's figures add up and the words of a search
\* all count.
THEOREM FiguresHold ==
  ASSUME ShopConstants
  PROVE  ShopSpec => []FiguresAndWords
<1>1. ShopInit => ShopInv
  BY ShopStarts
<1>2. ShopInv /\ [ShopNext]_shopVars => ShopInv'
  BY ShopGoesOn
<1>3. ShopInv => FiguresAndWords
  BY ShopIsTrue
<1>4. QED  BY <1>1, <1>2, <1>3, PTL DEF ShopSpec

=============================================================================
